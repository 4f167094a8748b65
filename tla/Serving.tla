------------------------------ MODULE Serving ------------------------------
(***************************************************************************)
(* The two ways to a generation, the handlers of HttpServer and the        *)
(* generate call of the UI, from the request to the last event, and the    *)
(* Start and Stop of the server around its handlers.                       *)
(*                                                                         *)
(* Threads: the UI thread and the task pool thread that unloads a model    *)
(* (Callers), the listener, one handler per HTTP request (a thread of the  *)
(* task queue of httplib, which the listener joins) and one worker per     *)
(* request (module TokenChannel, detached).  The mutex_ of HttpServer is   *)
(* held across steps only by Start; the engine is seen through the slots   *)
(* it gives and its stop_all_ (module EngineState).                        *)
(***************************************************************************)
EXTENDS TokenChannel, FiniteSets

CONSTANTS
    Callers,        \* threads that call Stop
    UI,             \* the one of them that calls Start and generate
    PoolSize        \* slots of each pool

ASSUME ServingAssumption ==
    /\ IsFiniteSet(Requests) /\ Mixes \subseteq [Requests -> Kinds]
    /\ Split \in [Requests -> SUBSET Nat]
    /\ MaxPieces \in Nat /\ PoolSize \in Nat
    /\ UI \in Callers

VARIABLES
    server,         \* server_ is not null
    running, stopping, joinable,    \* running_, stopping_, thread_.joinable()
    sock,           \* the listening socket is open
    listener,       \* where its thread is, "none" when it runs no more
    cpc,            \* each caller: where it is
    holding,        \* requests that own a slot
    pc,             \* each request: where it is
    stop,           \* a stop the engine shows it: its own flag, or stop_all_
    hand,           \* the text its handler is writing
    seen, torn,     \* what its client has received: pieces, those of them at
                    \* whose end a character came apart,
    marks           \* and marks after them

serverVars  == <<server, running, stopping, joinable, sock, listener>>
requestVars == <<pc, stop, hand, seen, torn, marks>>
vars == <<workerVars, channelVars, serverVars, cpc, holding, requestVars>>

Init ==
    /\ ChannelInit
    /\ server = FALSE /\ running = FALSE /\ stopping = FALSE /\ joinable = FALSE
    /\ sock = FALSE /\ listener = "none"
    /\ cpc = [c \in Callers |-> "idle"]
    /\ holding = {}
    /\ pc = [r \in Requests |-> "idle"]
    /\ stop = [r \in Requests |-> FALSE] /\ hand = [r \in Requests |-> <<>>]
    /\ seen = [r \in Requests |-> <<>>] /\ torn = [r \in Requests |-> {}]
    /\ marks = [r \in Requests |-> <<>>]

Live     == {r \in Requests : Http(r) /\ pc[r] \notin {"idle", "lost", "done"}}
\* Start keeps mutex_ from its first test to its return.
MutexFree == cpc[UI] \notin {"rejoining", "opening"}
\* The UI thread is in neither Start, Stop nor generate.
UiFree == /\ cpc[UI] = "idle"
          /\ \A r \in Requests : ~Http(r) => pc[r] # "begun"

\* What RunGeneration looks at: its own flag, StopAllRequested and ShouldStop.
Told(r) == stop[r] \/ (Http(r) /\ ~running)

Pool(r) == {q \in holding : Http(q) = Http(r)}
Full(r) == Cardinality(Pool(r)) >= PoolSize

Goto(r, to) == pc' = [pc EXCEPT ![r] = to]

-----------------------------------------------------------------------------
\* The engine.

\* RequestStop, or RequestStopAll, which reaches every request, some sooner than
\* others (module EngineState); a request that waits for a slot is refused.
EngineStops(r) ==
    /\ pc[r] = "arrived" \/ wpc[r] = "looping"
    /\ ~Told(r)
    /\ stop' = [stop EXCEPT ![r] = TRUE]
    /\ UNCHANGED <<workerVars, channelVars, serverVars, cpc, holding,
                   pc, hand, seen, torn, marks>>

-----------------------------------------------------------------------------
\* Start and Stop.

\* Start passes its tests; an invalid configuration is refused after the join.
BeginStart ==
    /\ UiFree /\ ~stopping /\ ~running
    /\ cpc' = [cpc EXCEPT ![UI] = IF joinable THEN "rejoining" ELSE "opening"]
    /\ UNCHANGED <<workerVars, channelVars, serverVars, holding, requestVars>>

\* The thread of a server that ended by itself is joined, the server deleted.
Rejoin ==
    /\ cpc[UI] = "rejoining" /\ listener = "none"
    /\ joinable' = FALSE /\ server' = FALSE
    /\ cpc' = [cpc EXCEPT ![UI] = "opening"]
    /\ UNCHANGED <<workerVars, channelVars, running, stopping, sock, listener,
                   holding, requestVars>>

Open ==
    /\ cpc[UI] = "opening"
    /\ server' = TRUE /\ running' = TRUE /\ joinable' = TRUE
    /\ sock' = TRUE /\ listener' = "starting"
    /\ cpc' = [cpc EXCEPT ![UI] = "idle"]
    /\ UNCHANGED <<workerVars, channelVars, stopping, holding, requestVars>>

\* The address is invalid or bind_to_port fails.
OpenFails ==
    /\ cpc[UI] = "opening"
    /\ cpc' = [cpc EXCEPT ![UI] = "idle"]
    /\ UNCHANGED <<workerVars, channelVars, serverVars, holding, requestVars>>

\* Bug: a second Stop goes on while the first one is joining.
StopIfAny   == running \/ joinable
StopIfFirst == (running \/ joinable) /\ ~stopping

\* Stop passes its tests; it returns at once when it does not.
BeginStop(c) ==
    /\ cpc[c] = "idle" /\ MutexFree /\ (c = UI => UiFree) /\ StopIfFirst
    /\ stopping' = TRUE /\ running' = FALSE
    /\ cpc' = [cpc EXCEPT ![c] = "closing"]
    /\ UNCHANGED <<workerVars, channelVars, server, joinable, sock, listener,
                   holding, requestVars>>

\* Bug: the socket stays open.
LeaveSocket == sock
CloseSocket == FALSE

\* NotifySlotWaiters and svr->stop().
Close(c) ==
    /\ cpc[c] = "closing"
    /\ sock' = CloseSocket
    /\ cpc' = [cpc EXCEPT ![c] = "joining"]
    /\ UNCHANGED <<workerVars, channelVars, server, running, stopping, joinable,
                   listener, holding, requestVars>>

Join(c) ==
    /\ cpc[c] = "joining" /\ (joinable => listener = "none")
    /\ joinable' = FALSE
    /\ cpc' = [cpc EXCEPT ![c] = "deleting"]
    /\ UNCHANGED <<workerVars, channelVars, server, running, stopping, sock,
                   listener, holding, requestVars>>

EndStop(c) ==
    /\ cpc[c] = "deleting" /\ MutexFree
    /\ server' = FALSE
    /\ stopping' = FALSE
    /\ cpc' = [cpc EXCEPT ![c] = "idle"]
    /\ UNCHANGED <<workerVars, channelVars, running, joinable, sock, listener,
                   holding, requestVars>>

StopStep(c) == Close(c) \/ Join(c) \/ EndStop(c)
StartStep   == Rejoin \/ Open \/ OpenFails

-----------------------------------------------------------------------------
\* The listener.

Listens(from, to) == listener = from /\ listener' = to

\* listen_internal returns at once when the socket is already closed.
BeginListening ==
    /\ Listens("starting", IF sock THEN "accepting" ELSE "returned")
    /\ UNCHANGED <<workerVars, channelVars, server, running, stopping, joinable,
                   sock, cpc, holding, requestVars>>

\* Stop has closed the socket, and the accept loop ends.
StopsAccepting ==
    /\ ~sock /\ Listens("accepting", "draining")
    /\ UNCHANGED <<workerVars, channelVars, server, running, stopping, joinable,
                   sock, cpc, holding, requestVars>>

\* accept fails for good: the loop ends although nobody called Stop.
AcceptFails ==
    /\ Listens("accepting", "draining")
    /\ sock' = FALSE
    /\ UNCHANGED <<workerVars, channelVars, server, running, stopping, joinable,
                   cpc, holding, requestVars>>

\* task_queue->shutdown() joins the threads of the handlers.
Drained ==
    /\ Live = {} /\ Listens("draining", "returned")
    /\ UNCHANGED <<workerVars, channelVars, server, running, stopping, joinable,
                   sock, cpc, holding, requestVars>>

ListenerEnds ==
    /\ Listens("returned", "none")
    /\ running' = FALSE
    /\ UNCHANGED <<workerVars, channelVars, server, stopping, joinable, sock,
                   cpc, holding, requestVars>>

Listener == BeginListening \/ StopsAccepting \/ Drained \/ ListenerEnds
-----------------------------------------------------------------------------
\* The handlers.

\* A request is read: its thread belongs to the server that accepts.
Arrive(r) ==
    /\ Http(r) /\ pc[r] = "idle" /\ listener = "accepting"
    /\ Goto(r, "arrived")
    /\ UNCHANGED <<workerVars, channelVars, serverVars, cpc, holding,
                   stop, hand, seen, torn, marks>>

\* The handler returns; what it shares with its worker is freed.
Return(r) ==
    /\ Goto(r, "closing") /\ DropChannel(r)
    /\ stop' = [stop EXCEPT ![r] = FALSE]
    /\ UNCHANGED hand

\* The answer of a sync request: an error, or the text with its finish reason.
Respond(r, mark, text) ==
    /\ Return(r)
    /\ seen' = [seen EXCEPT ![r] = text]
    /\ marks' = [marks EXCEPT ![r] = <<mark>>]
    /\ UNCHANGED torn

Leave(r) == Return(r) /\ UNCHANGED <<seen, torn, marks>>

\* 400, 401, or 503 without a model.
Reject(r) ==
    /\ Http(r) /\ pc[r] = "arrived"
    /\ Respond(r, "error", <<>>)
    /\ UNCHANGED <<workerVars, serverVars, cpc, holding>>

\* AcquireSlot returns a slot, and a new stop flag.  It holds slot_mutex_ from
\* its last look at running_ to the acquisition: one step.
Acquire(r) ==
    /\ Http(r) /\ pc[r] = "arrived" /\ running /\ ~Full(r)
    /\ holding' = holding \cup {r}
    /\ stop' = [stop EXCEPT ![r] = FALSE]
    /\ Goto(r, "begun")
    /\ UNCHANGED <<workerVars, channelVars, serverVars, cpc,
                   hand, seen, torn, marks>>

\* AcquireSlot returns false: a stream ends without a word, a sync request gets
\* a 503.
GetsNoSlot(r) ==
    /\ Http(r) /\ pc[r] = "arrived"
    /\ IF kind[r] = "sync" THEN Respond(r, "error", <<>>) ELSE Leave(r)
    /\ UNCHANGED <<workerVars, serverVars, cpc, holding>>

Refuse(r) == (~running \/ stop[r]) /\ GetsNoSlot(r)

\* The deadline of the wait, now + milliseconds::max(), may have wrapped into the
\* past (module EngineState): nothing says that it does, nor that it does not.
TimesOut(r) == Full(r) /\ GetsNoSlot(r)

\* RunGenerationAsync starts the worker.
StartWorker(r) ==
    /\ pc[r] = "begun" /\ At(r, "none", "looping")
    /\ Goto(r, CASE kind[r] = "stream" -> "reading"
                 [] kind[r] = "sync"   -> "waiting"
                 [] OTHER              -> "listening")
    /\ UNCHANGED <<kind, made, channelVars, serverVars, cpc, holding,
                   stop, hand, seen, torn, marks>>

\* The thread cannot be created: EndGenerate, and an error (a stream may fail
\* to write it, a call from the UI throws it).
ThreadFails(r) ==
    /\ pc[r] = "begun"
    /\ holding' = holding \ {r}
    /\ Respond(r, "error", <<>>) \/ (kind[r] = "stream" /\ Leave(r))
    /\ UNCHANGED <<workerVars, serverVars, cpc>>

\* NextToken returns text.
TakeBatch(r) ==
    /\ pc[r] = "reading" /\ queue[r] # <<>>
    /\ hand' = [hand EXCEPT ![r] = Head(queue[r]).text]
    /\ queue' = [queue EXCEPT ![r] = Tail(queue[r])]
    /\ Goto(r, "writing")
    /\ UNCHANGED <<workerVars, pending, flushed, full, finished, result,
                   serverVars, cpc, holding, stop, seen, torn, marks>>

\* dump() takes only whole characters.
WriteBatch(r) ==
    /\ pc[r] = "writing" /\ ~EndsInside(r, hand[r])
    /\ seen' = [seen EXCEPT ![r] = seen[r] \o hand[r]]
    /\ hand' = [hand EXCEPT ![r] = <<>>]
    /\ Goto(r, "reading")
    /\ UNCHANGED <<workerVars, channelVars, serverVars, cpc, holding,
                   stop, torn, marks>>

\* Bug: the handler returns while its worker goes on.
ReturnAtOnce  == "closing"
WaitForWorker == "abandoning"

\* The client is gone: the worker is told to stop and waited for.
WriteFails(r) ==
    /\ pc[r] = "writing" /\ ~EndsInside(r, hand[r])
    /\ stop' = [stop EXCEPT ![r] = wpc[r] = "looping"]
    /\ hand' = [hand EXCEPT ![r] = <<>>]
    /\ Goto(r, WaitForWorker)
    /\ UNCHANGED <<workerVars, channelVars, serverVars, cpc, holding,
                   seen, torn, marks>>

\* A batch ends inside a character and dump() throws: httplib catches that and
\* closes the connection.  The worker is not told to stop.
HandlerThrows(r) ==
    /\ pc[r] = "writing" /\ EndsInside(r, hand[r])
    /\ hand' = [hand EXCEPT ![r] = <<>>]
    /\ Goto(r, "lost")
    /\ UNCHANGED <<workerVars, channelVars, serverVars, cpc, holding,
                   stop, seen, torn, marks>>

Abandon(r) ==
    /\ pc[r] = "abandoning" /\ finished[r]
    /\ Leave(r)
    /\ UNCHANGED <<workerVars, serverVars, cpc, holding>>

\* NextToken returns false: the queue is empty and the worker has finished.
TakeEnd(r) ==
    /\ pc[r] = "reading" /\ queue[r] = <<>> /\ finished[r]
    /\ Goto(r, "verdict")
    /\ UNCHANGED <<workerVars, channelVars, serverVars, cpc, holding,
                   stop, hand, seen, torn, marks>>

\* The events after the text: error or finish, then usage, then [DONE].
Closing(r) ==
    CASE pc[r] = "verdict" -> [mark |-> IF result[r] = "Failed" THEN "error" ELSE "finish",
                               next |-> "usage"]
      [] pc[r] = "usage"   -> [mark |-> "usage", next |-> "marker"]
      [] OTHER             -> [mark |-> "[DONE]", next |-> "closing"]

WriteMark(r) ==
    /\ pc[r] \in {"verdict", "usage", "marker"}
    /\ marks' = [marks EXCEPT ![r] = Append(marks[r], Closing(r).mark)]
    /\ IF Closing(r).next = "closing" THEN Return(r)
       ELSE Goto(r, Closing(r).next) /\ UNCHANGED <<channelVars, stop, hand>>
    /\ UNCHANGED <<workerVars, serverVars, cpc, holding, seen, torn>>

MarkFails(r) ==
    /\ pc[r] \in {"verdict", "usage", "marker"}
    /\ Leave(r)
    /\ UNCHANGED <<workerVars, serverVars, cpc, holding>>

\* RunSyncGeneration after WaitFinish: the text, or 500, also for a text that ends
\* inside a character, or 499.
AnswerSync(r) ==
    /\ pc[r] = "waiting" /\ finished[r]
    /\ IF result[r] = "Completed" /\ ~EndsInside(r, full[r])
       THEN Respond(r, "finish", full[r])
       ELSE Respond(r, "error", <<>>)
    /\ UNCHANGED <<workerVars, serverVars, cpc, holding>>

\* httplib sends the answer or closes the connection; the callback of a call
\* from the UI returns.  Where the handler threw, the worker has the channel for
\* itself until it ends.  The request is forgotten.
Over(r) ==
    /\ pc[r] = "closing" \/ (pc[r] = "lost" /\ wpc[r] = "gone")
    /\ Goto(r, "done") /\ DropChannel(r)
    /\ made' = [made EXCEPT ![r] = 0]
    /\ seen' = [seen EXCEPT ![r] = <<>>] /\ torn' = [torn EXCEPT ![r] = {}]
    /\ marks' = [marks EXCEPT ![r] = <<>>]
    /\ UNCHANGED <<kind, wpc, serverVars, cpc, holding, stop, hand>>

Handler(r) ==
    \/ Reject(r) \/ Acquire(r) \/ Refuse(r)
    \/ (Http(r) /\ (StartWorker(r) \/ ThreadFails(r)))
    \/ TakeBatch(r) \/ WriteBatch(r) \/ WriteFails(r) \/ Abandon(r)
    \/ HandlerThrows(r) \/ TakeEnd(r) \/ WriteMark(r) \/ MarkFails(r) \/ AnswerSync(r) \/ Over(r)

-----------------------------------------------------------------------------
\* The worker.

Outside == <<serverVars, cpc, pc, hand, seen, torn, marks>>

Work(r) ==
    \/ Emits(r, Told(r)) /\ UNCHANGED <<holding, stop, Outside>>
    \/ /\ Ends(r, Told(r))
       /\ holding' = holding \ {r}
       /\ stop' = [stop EXCEPT ![r] = FALSE]    \* nobody reads it any more
       /\ UNCHANGED Outside
    \/ /\ Finishes(r) \/ FinishFails(r) \/ FlushesLast(r) \/ PostsFinal(r) \/ PostFails(r)
       /\ UNCHANGED <<holding, stop, Outside>>

-----------------------------------------------------------------------------
\* Calls from the UI, whose thread may be inside Start or Stop.

Generate(r) ==
    /\ ~Http(r) /\ pc[r] = "idle" /\ UiFree /\ ~Full(r)
    /\ holding' = holding \cup {r}
    /\ Goto(r, "begun")
    /\ UNCHANGED <<workerVars, channelVars, serverVars, cpc,
                   stop, hand, seen, torn, marks>>

\* The rest of Generate.
GenerateGoesOn(r) == ~Http(r) /\ (StartWorker(r) \/ ThreadFails(r))

\* napi_create_string_utf8 makes a string of any bytes: of a character cut by the
\* end of a batch the UI gets two halves that are no part of it any more.
Halved(r, text) == IF EndsInside(r, text) THEN {text[Len(text)]} ELSE {}

\* GenerateJsCallback: the UI thread handles the next event of the TSFN.
Callback(r) ==
    /\ pc[r] = "listening" /\ UiFree /\ queue[r] # <<>>
    /\ LET event == Head(queue[r])
       IN IF event.mark = ""
          THEN /\ seen' = [seen EXCEPT ![r] = seen[r] \o event.text]
               /\ torn' = [torn EXCEPT ![r] = torn[r] \cup Halved(r, event.text)]
               /\ queue' = [queue EXCEPT ![r] = Tail(queue[r])]
               /\ UNCHANGED <<pending, flushed, full, finished, result, pc,
                              stop, hand, marks>>
          ELSE Respond(r, event.mark, seen[r])
    /\ UNCHANGED <<workerVars, serverVars, cpc, holding>>

UiStep(r) == GenerateGoesOn(r) \/ Callback(r)

-----------------------------------------------------------------------------
Next ==
    \/ BeginStart \/ StartStep \/ AcceptFails \/ Listener
    \/ \E c \in Callers : BeginStop(c) \/ StopStep(c)
    \/ \E r \in Requests :
          \/ Arrive(r) \/ TimesOut(r) \/ Handler(r) \/ Work(r)
          \/ Generate(r) \/ UiStep(r) \/ EngineStops(r)

\* Threads that can go on do, and the event loop of the UI comes to every event
\* although Start and Stop block it again and again.  Nothing makes a client
\* ask, a user press a button or accept fail.  Writes return (httplib gives them
\* a timeout), and so does decoding.
Fairness ==
    /\ WF_vars(StartStep) /\ WF_vars(Listener)
    /\ \A c \in Callers : WF_vars(StopStep(c))
    /\ \A r \in Requests :
           WF_vars(Handler(r)) /\ WF_vars(Work(r)) /\ SF_vars(UiStep(r))

Spec == Init /\ [][Next]_vars /\ Fairness
-----------------------------------------------------------------------------
PcValues == {"idle", "arrived", "begun", "reading", "writing", "abandoning",
             "verdict", "usage", "marker", "waiting", "listening", "closing",
             "lost", "done"}
Pieces   == 1 .. MaxPieces
MarkSet  == {"error", "finish", "usage", "[DONE]", "done", "stopped"}

\* Every variable holds a value of its type.
TypeOK ==
    /\ kind \in [Requests -> Kinds] /\ made \in [Requests -> 0 .. MaxPieces]
    /\ wpc \in [Requests -> {"none", "looping", "freed", "posting", "gone"}]
    /\ pending \in [Requests -> Seq(Pieces)] /\ full \in [Requests -> Seq(Pieces)]
    /\ queue \in [Requests -> Seq([mark : MarkSet \cup {""}, text : Seq(Pieces)])]
    /\ flushed \in [Requests -> BOOLEAN] /\ finished \in [Requests -> BOOLEAN]
    /\ result \in [Requests -> {"Completed", "Failed", "Aborted"}]
    /\ server \in BOOLEAN /\ running \in BOOLEAN /\ stopping \in BOOLEAN
    /\ joinable \in BOOLEAN /\ sock \in BOOLEAN
    /\ listener \in {"none", "starting", "accepting", "draining", "returned"}
    /\ cpc \in [Callers -> {"idle", "rejoining", "opening", "closing", "joining",
                            "deleting"}]
    /\ holding \in SUBSET Requests /\ pc \in [Requests -> PcValues]
    /\ stop \in [Requests -> BOOLEAN] /\ hand \in [Requests -> Seq(Pieces)]
    /\ seen \in [Requests -> Seq(Pieces)] /\ torn \in [Requests -> SUBSET Pieces]
    /\ marks \in [Requests -> Seq(MarkSet)]

\* What the client of a request can tell of its end.
Verdict(r) ==
    IF pc[r] = "done" THEN "over"
    ELSE IF marks[r] = <<>> THEN IF pc[r] \in {"closing", "lost"}
                               THEN "parted" ELSE "open"
    ELSE IF Head(marks[r]) = "error" THEN "failed" ELSE "complete"

\* Where the text of a request may come apart: in a call from the UI, inside the
\* characters that two pieces share.
Fragile(r) == IF Http(r) THEN {} ELSE Split[r]

\* No piece of text is lost, repeated or reordered between on_token and the
\* client, and a finish reason, a done or a stopped comes after all of it and
\* once, through the batches of 50 ms, Finish (http_server.cpp:39-60), the
\* handler's reads between its pushes and the TSFN: Serving implements
\* TokenStream.  An HTTP client is never given half a character; the UI is, where
\* a batch ends inside one (generate_napi.cpp:70), and loses nothing else.
Delivery == INSTANCE TokenStream
                WITH Streams <- Requests, fragile <- [r \in Requests |-> Fragile(r)],
                     verdict <- [r \in Requests |-> Verdict(r)]
DeliversAll == Delivery!Spec

InStop(c) == cpc[c] \in {"closing", "joining", "deleting"}

\* A handler runs on the server it arrived at: it is not deleted or replaced
\* under it (http_server.cpp:460, 777), nor is config_ written (465).  Start and
\* Stop, of two threads, are never past their tests together, so that thread_ is
\* joined by one of them and assigned only when nothing runs on it.
ServerOutlivesHandlers ==
    /\ Live # {} => server /\ cpc[UI] # "opening"
    /\ \A c, d \in Callers : InStop(c) /\ InStop(d) => c = d
    /\ \A c \in Callers : InStop(c) => MutexFree
    /\ cpc[UI] = "opening" => ~joinable /\ ~server

WorkerAt(r) == wpc[r] \notin {"none", "gone"}

\* When Stop or Start has deleted the server nothing of it is left: no handler,
\* no slot taken for one, and no worker, although workers are detached and a
\* client may be gone long before its worker notices (http_server.cpp:361).  Only
\* a handler that threw (359) leaves its worker to itself.
QuietWhenDown ==
    ~server => /\ Live = {}
               /\ \A r \in Requests :
                     Http(r) /\ pc[r] # "lost" => r \notin holding /\ ~WorkerAt(r)

\* A call from the UI whose final event could not be posted.
NeverTold(r) == ~Http(r) /\ wpc[r] = "gone" /\ ~finished[r]

\* A request that arrived gets an answer or its connection is closed, and Start
\* and Stop return each time, whoever calls Stop meanwhile and whatever clients
\* do; a call from the UI ends unless posting its final event failed.
WaitsEnd ==
    /\ \A r \in Requests : <>[](pc[r] \in {"idle", "done"} \/ NeverTold(r))
    /\ \A c \in Callers : []<>(cpc[c] = "idle")
=============================================================================
