---------------------------- MODULE TokenChannel ----------------------------
(***************************************************************************)
(* The producing half of a generation: the worker thread of                *)
(* RunGenerationAsync and what it writes to, the GenerateChannel of        *)
(* http_server.cpp for an HTTP request, the TokenBatch and the thread-safe *)
(* function (TSFN) of generate_napi.cpp for a call from the UI.  Both      *)
(* collect pieces for 50 ms; time is abstracted: after the first flush any *)
(* piece may or may not be flushed.                                        *)
(***************************************************************************)
EXTENDS Naturals, Sequences

CONSTANTS
    Requests,
    Mixes,          \* what kinds the requests may be of, together
    MaxPieces,      \* bound: pieces of text per request (params.max_tokens)
    Split           \* of each request, the pieces that end inside a character

VARIABLES
    kind,           \* "stream" and "sync" HTTP requests, "napi" calls
    wpc,            \* where the worker is
    made,           \* number of pieces given to on_token
    pending,        \* pending_token_, TokenBatch.text
    flushed,        \* last_flush_ is set
    queue,          \* tokens_, or the queue of the TSFN
    full,           \* full_text_, kept for a sync request
    finished, result

channelVars == <<pending, flushed, queue, full, finished, result>>
workerVars  == <<kind, wpc, made>>

Kinds == {"stream", "sync", "napi"}
Http(r) == kind[r] # "napi"

\* An element of a queue: text, or the final event of a call from the UI.
Batch(text) == [mark |-> "", text |-> text]
Mark(m)     == [mark |-> m, text |-> <<>>]

\* The text is no UTF-8: its last character is cut.
EndsInside(r, text) == text # <<>> /\ text[Len(text)] \in Split[r]

ChannelInit ==
    /\ kind \in Mixes
    /\ wpc = [r \in Requests |-> "none"] /\ made = [r \in Requests |-> 0]
    /\ pending = [r \in Requests |-> <<>>]
    /\ flushed = [r \in Requests |-> FALSE]
    /\ queue = [r \in Requests |-> <<>>] /\ full = [r \in Requests |-> <<>>]
    /\ finished = [r \in Requests |-> FALSE]
    /\ result = [r \in Requests |-> "Failed"]

\* The channel is freed with the last of its two users.
DropChannel(r) ==
    /\ pending' = [pending EXCEPT ![r] = <<>>]
    /\ flushed' = [flushed EXCEPT ![r] = FALSE]
    /\ queue' = [queue EXCEPT ![r] = <<>>] /\ full' = [full EXCEPT ![r] = <<>>]
    /\ finished' = [finished EXCEPT ![r] = FALSE]
    /\ result' = [result EXCEPT ![r] = "Failed"]

At(r, from, to) == wpc[r] = from /\ wpc' = [wpc EXCEPT ![r] = to]

\* FlushPendingLocked and flush_tokens, with `text` pending.
Flush(r, text) ==
    /\ pending' = [pending EXCEPT ![r] = <<>>]
    /\ queue' = IF text = <<>> THEN queue
                ELSE [queue EXCEPT ![r] = Append(queue[r], Batch(text))]
    /\ full' = IF kind[r] = "sync" THEN [full EXCEPT ![r] = full[r] \o text] ELSE full
    /\ flushed' = [flushed EXCEPT ![r] = flushed[r] \/ text # <<>>]

Keep(r, text) ==
    /\ pending' = [pending EXCEPT ![r] = text]
    /\ UNCHANGED <<queue, full, flushed>>

\* pending_token_ with the new piece.
Piece(r) == Append(pending[r], made[r] + 1)

\* RunGeneration finds no stop flag set and calls on_token: the first piece is
\* flushed, a later one when 50 ms have passed.  A flag set between the look and
\* the call is as good as one set after it.
Emits(r, told) ==
    /\ ~told /\ wpc[r] = "looping" /\ made[r] < MaxPieces
    /\ made' = [made EXCEPT ![r] = made[r] + 1]
    /\ \/ Flush(r, Piece(r))
       \/ flushed[r] /\ Keep(r, Piece(r))
    /\ UNCHANGED <<kind, wpc, finished, result>>

\* RunGeneration returns, Aborted only when it was told to stop, or throws,
\* which is Failed; then EndGenerate, before on_done.
Ends(r, told) ==
    /\ At(r, "looping", "freed")
    /\ \E end \in {"Completed", "Failed", "Aborted"} :
           /\ end = "Aborted" => told
           /\ result' = [result EXCEPT ![r] = end]
    /\ UNCHANGED <<kind, made, pending, flushed, queue, full, finished>>

\* Bug: what was waiting for its 50 ms is dropped.
FinishKeeps(r)   == Keep(r, pending[r])
FinishFlushes(r) == Flush(r, pending[r])

\* GenerateChannel::Finish.
Finishes(r) ==
    /\ Http(r) /\ At(r, "freed", "gone")
    /\ FinishFlushes(r)
    /\ finished' = [finished EXCEPT ![r] = TRUE]
    /\ UNCHANGED <<kind, made, result>>

\* Finish when the flush runs out of memory: the request counts as failed.
FinishFails(r) ==
    /\ Http(r) /\ pending[r] # <<>> /\ At(r, "freed", "gone")
    /\ result' = [result EXCEPT ![r] = "Failed"]
    /\ finished' = [finished EXCEPT ![r] = TRUE]
    /\ UNCHANGED <<kind, made, pending, flushed, queue, full>>

\* on_done of a call from the UI: flush_tokens, then the final event.
FlushesLast(r) ==
    /\ ~Http(r) /\ At(r, "freed", "posting")
    /\ FinishFlushes(r)
    /\ UNCHANGED <<kind, made, finished, result>>

\* Bug: the result is taken for the name of the event.
FinalUnnamed(r) == result[r]

FinalEvent(r) == CASE result[r] = "Completed" -> "done"
                   [] result[r] = "Aborted"   -> "stopped"
                   [] OTHER                   -> "error"

PostsFinal(r) ==
    /\ At(r, "posting", "gone")
    /\ queue' = [queue EXCEPT ![r] = Append(queue[r], Mark(FinalEvent(r)))]
    /\ finished' = [finished EXCEPT ![r] = TRUE]
    /\ UNCHANGED <<kind, made, pending, flushed, full, result>>

\* on_done throws, which run() swallows, or the TSFN takes no more events.
PostFails(r) ==
    /\ ~Http(r) /\ wpc[r] \in {"freed", "posting"}
    /\ wpc' = [wpc EXCEPT ![r] = "gone"]
    /\ UNCHANGED <<kind, made, channelVars>>
=============================================================================
