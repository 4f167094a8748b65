----------------------------- MODULE TokenStream -----------------------------
(***************************************************************************)
(* What a generation promises the one who asked for it: the text it has    *)
(* seen is at any time a prefix of the text made, and a request that is    *)
(* concluded as complete has been given all of it.  A character may come   *)
(* apart on the way only where the text is fragile, and what has come      *)
(* whole stays whole.  How the text travels (batches, queues, threads) is  *)
(* not seen here; module Serving implements this for the HTTP handlers,    *)
(* whose text is nowhere fragile, and for the callback of the UI.          *)
(***************************************************************************)
EXTENDS Naturals, Sequences

CONSTANTS Streams, MaxPieces

VARIABLES
    made,       \* number of pieces made
    seen,       \* the pieces received
    torn,       \* pieces at whose end a character came apart
    fragile,    \* pieces at whose end one may
    verdict
vars == <<made, seen, torn, fragile, verdict>>

\* The text made so far: its pieces are numbered.
Text(s) == [i \in 1 .. made[s] |-> i]

Init ==
    /\ made = [s \in Streams |-> 0]
    /\ seen = [s \in Streams |-> <<>>] /\ torn = [s \in Streams |-> {}]
    /\ fragile \in [Streams -> SUBSET Nat]
    /\ verdict = [s \in Streams |-> "open"]

\* The generation goes on, also when nobody listens any more, but never after
\* its text was declared complete.
Make(s) ==
    /\ made[s] < MaxPieces /\ verdict[s] \notin {"complete", "over"}
    /\ made' = [made EXCEPT ![s] = made[s] + 1]
    /\ UNCHANGED <<seen, torn, fragile, verdict>>

\* More of the text arrives.
Deliver(s) ==
    /\ verdict[s] = "open"
    /\ \E n \in Len(seen[s]) + 1 .. made[s] :
           /\ seen' = [seen EXCEPT ![s] = SubSeq(Text(s), 1, n)]
           /\ \E new \in SUBSET (fragile[s] \cap (Len(seen[s]) + 1 .. n)) :
                  torn' = [torn EXCEPT ![s] = torn[s] \cup new]
    /\ UNCHANGED <<made, fragile, verdict>>

\* The rest of the text, if any, arrives with the word that it is complete.
Complete(s) ==
    /\ verdict[s] = "open"
    /\ seen' = [seen EXCEPT ![s] = Text(s)]
    /\ verdict' = [verdict EXCEPT ![s] = "complete"]
    /\ UNCHANGED <<made, torn, fragile>>

\* An error is reported, or the two sides have parted.
Break(s) ==
    /\ verdict[s] = "open"
    /\ \E v \in {"failed", "parted"} : verdict' = [verdict EXCEPT ![s] = v]
    /\ UNCHANGED <<made, seen, torn, fragile>>

\* Both sides are done with it.
Forget(s) ==
    /\ verdict[s] # "open"
    /\ made' = [made EXCEPT ![s] = 0] /\ seen' = [seen EXCEPT ![s] = <<>>]
    /\ torn' = [torn EXCEPT ![s] = {}]
    /\ verdict' = [verdict EXCEPT ![s] = "over"]
    /\ UNCHANGED fragile

Next == \E s \in Streams :
            Make(s) \/ Deliver(s) \/ Complete(s) \/ Break(s) \/ Forget(s)

Spec == Init /\ [][Next]_vars
=============================================================================
