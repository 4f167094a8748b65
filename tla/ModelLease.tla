----------------------------- MODULE ModelLease -----------------------------
(***************************************************************************)
(* What the engine promises of its model, without threads, locks, slots or *)
(* stop flags: a request is admitted only while a model is resident, and   *)
(* the resident model changes only while no request uses it.               *)
(***************************************************************************)
EXTENDS Naturals

CONSTANT Users

VARIABLES
    resident,   \* 0: no model, otherwise which load made it
    users       \* the requests that may touch the resident model

leaseVars == <<resident, users>>

Init == resident = 0 /\ users = {}

Admit(u) ==
    /\ resident # 0 /\ u \notin users
    /\ users' = users \cup {u}
    /\ UNCHANGED resident

Retire(u) ==
    /\ u \in users
    /\ users' = users \ {u}
    /\ UNCHANGED resident

\* A free, a load, or a free that a load follows.
Replace ==
    /\ users = {}
    /\ resident' \in Nat
    /\ UNCHANGED users

Next == (\E u \in Users : Admit(u) \/ Retire(u)) \/ Replace

Spec == Init /\ [][Next]_leaseVars
=============================================================================
