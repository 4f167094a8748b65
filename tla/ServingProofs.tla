--------------------------- MODULE ServingProofs ---------------------------
(***************************************************************************)
(* Theorems about Serving for every number of requests, callers of Stop,   *)
(* slots and pieces: how the server and its handlers outlive each other,   *)
(* and that Serving implements TokenStream.                                *)
(***************************************************************************)
EXTENDS Serving, SequenceTheorems, TLAPS

-----------------------------------------------------------------------------
(***************************************************************************)
(* Start, Stop and the listener.                                           *)
(***************************************************************************)
ServerTypes ==
    /\ server \in BOOLEAN /\ running \in BOOLEAN /\ stopping \in BOOLEAN
    /\ joinable \in BOOLEAN
    /\ listener \in {"none", "starting", "accepting", "draining", "returned"}
    /\ cpc \in [Callers -> {"idle", "rejoining", "opening", "closing", "joining",
                            "deleting"}]

\* One Stop at a time, and none during a Start.
OneStop ==
    /\ \A c, d \in Callers : InStop(c) /\ InStop(d) => c = d
    /\ \A c \in Callers : InStop(c) => stopping /\ server /\ ~running /\ MutexFree
    /\ \A c \in Callers : cpc[c] = "deleting" => ~joinable

\* A Start has nothing running and nothing being stopped.
OneStart ==
    /\ ~MutexFree => ~running /\ ~stopping
    /\ cpc[UI] = "rejoining" => joinable
    /\ cpc[UI] = "opening" => ~joinable /\ ~server

\* The thread lives as long as it can be joined, the server at least as long.
ThreadOwned ==
    /\ listener # "none" => joinable
    /\ running => joinable
    /\ joinable => server
    /\ server => joinable \/ stopping

ServerInv == ServerTypes /\ OneStop /\ OneStart /\ ThreadOwned

-----------------------------------------------------------------------------
(***************************************************************************)
(* A request between its handler and its worker.                           *)
(***************************************************************************)
RequestTypes ==
    /\ kind \in [Requests -> Kinds]
    /\ wpc \in [Requests -> {"none", "looping", "freed", "posting", "gone"}]
    /\ finished \in [Requests -> BOOLEAN]
    /\ pc \in [Requests -> PcValues]
    /\ holding \subseteq Requests

\* A handler whose worker has begun stays until the worker has finished, unless
\* it throws, and a slot is held from the acquisition to the end of the generation.
HandlerStays(r) ==
    /\ finished[r] => wpc[r] = "gone"
    /\ Http(r) /\ WorkerAt(r) => pc[r] \in {"reading", "writing", "waiting", "abandoning", "lost"}
    /\ r \in holding => pc[r] = "begun" \/ wpc[r] = "looping"

RequestInv == RequestTypes /\ \A r \in Requests : HandlerStays(r)

\* The listener does not return before its handlers.
LiveInv == Live # {} => listener \in {"accepting", "draining"}

IInv == ServerInv /\ RequestInv /\ LiveInv

-----------------------------------------------------------------------------
LEMMA InitIInv == Init => IInv
<1> SUFFICES ASSUME Init PROVE IInv
  OBVIOUS
<1> USE ServingAssumption DEF Init, ChannelInit
<1>1. \A c \in Callers : cpc[c] = "idle"
  OBVIOUS
<1>2. ServerInv
  BY <1>1 DEF ServerInv, ServerTypes, OneStop, OneStart, ThreadOwned, InStop, MutexFree
<1>3. RequestInv
  BY DEF RequestInv, RequestTypes, HandlerStays, WorkerAt, PcValues
<1>4. LiveInv
  BY DEF LiveInv, Live
<1> QED  BY <1>2, <1>3, <1>4 DEF IInv

-----------------------------------------------------------------------------
(***************************************************************************)
(* The steps of the server.                                                *)
(***************************************************************************)
ServerStep ==
    \/ BeginStart \/ StartStep \/ AcceptFails \/ Listener
    \/ \E c \in Callers : BeginStop(c) \/ StopStep(c)

RequestStep(r) ==
    \/ Arrive(r) \/ TimesOut(r) \/ Handler(r) \/ Work(r)
    \/ Generate(r) \/ UiStep(r) \/ EngineStops(r)

LEMMA StartKeeps == ServerInv /\ (BeginStart \/ StartStep) => ServerInv'
<1> SUFFICES ASSUME ServerInv, BeginStart \/ StartStep PROVE ServerInv'
  OBVIOUS
<1> USE ServingAssumption DEF ServerInv, ServerTypes, OneStop, OneStart, ThreadOwned,
        InStop, MutexFree, serverVars
<1>1. CASE BeginStart
  BY <1>1 DEF BeginStart, UiFree
<1>2. CASE Rejoin
  BY <1>2 DEF Rejoin
<1>3. CASE Open
  BY <1>3 DEF Open
<1>4. CASE OpenFails
  BY <1>4 DEF OpenFails
<1> QED  BY <1>1, <1>2, <1>3, <1>4 DEF StartStep

LEMMA StopKeeps ==
    ASSUME ServerInv, NEW c \in Callers, BeginStop(c) \/ StopStep(c)
    PROVE  ServerInv'
<1> USE ServingAssumption DEF ServerInv, ServerTypes, OneStop, OneStart, ThreadOwned,
        InStop, MutexFree, serverVars
<1>1. CASE BeginStop(c)
  BY <1>1 DEF BeginStop, StopIfFirst, UiFree
<1>2. CASE Close(c)
  BY <1>2 DEF Close
<1>3. CASE Join(c)
  BY <1>3 DEF Join
<1>4. CASE EndStop(c)
  BY <1>4 DEF EndStop
<1> QED  BY <1>1, <1>2, <1>3, <1>4 DEF StopStep

LEMMA ListenerKeeps == ServerInv /\ (AcceptFails \/ Listener) => ServerInv'
<1> SUFFICES ASSUME ServerInv, AcceptFails \/ Listener PROVE ServerInv'
  OBVIOUS
<1> USE DEF ServerInv, ServerTypes, OneStop, OneStart, ThreadOwned, InStop, MutexFree,
            Listens
<1>1. CASE AcceptFails
  BY <1>1 DEF AcceptFails
<1>2. CASE BeginListening
  BY <1>2 DEF BeginListening
<1>3. CASE StopsAccepting
  BY <1>3 DEF StopsAccepting
<1>4. CASE Drained
  BY <1>4 DEF Drained
<1>5. CASE ListenerEnds
  BY <1>5 DEF ListenerEnds
<1> QED  BY <1>1, <1>2, <1>3, <1>4, <1>5 DEF Listener

\* The server's steps leave the requests alone, and the listener waits for them.
LEMMA ServerLeavesRequests ==
    ASSUME IInv, ServerStep
    PROVE  RequestInv' /\ LiveInv'
<1>1. /\ UNCHANGED <<kind, wpc, finished, holding, pc>>
      /\ listener' = listener \/ Live = {} \/ {listener, listener'} = {"accepting", "draining"}
  <2>1. ASSUME NEW c \in Callers, BeginStop(c) \/ StopStep(c)
        PROVE  UNCHANGED <<kind, wpc, finished, holding, pc, listener>>
    BY <2>1 DEF BeginStop, StopStep, Close, Join, EndStop, workerVars, channelVars,
                requestVars
  <2>2. CASE BeginStart \/ Rejoin \/ OpenFails
    BY <2>2 DEF BeginStart, Rejoin, OpenFails, workerVars, channelVars, serverVars,
                requestVars
  <2>3. CASE Open
    <3>1. listener = "none"
      BY <2>3 DEF Open, IInv, ServerInv, OneStart, ThreadOwned
    <3> QED  BY <2>3, <3>1 DEF Open, IInv, LiveInv, workerVars, channelVars, requestVars
  <2>4. CASE AcceptFails \/ Listener
    BY <2>4 DEF AcceptFails, Listener, BeginListening, StopsAccepting, Drained,
                ListenerEnds, Listens, workerVars, channelVars, requestVars, IInv, LiveInv
  <2> QED  BY <2>1, <2>2, <2>3, <2>4 DEF ServerStep, StartStep
<1>2. RequestInv'
  BY <1>1 DEF IInv, RequestInv, RequestTypes, HandlerStays, WorkerAt, Http
<1>3. Live' = Live
  BY <1>1 DEF Live, Http
<1>4. LiveInv'
  BY <1>1, <1>3 DEF IInv, LiveInv
<1> QED  BY <1>2, <1>4

-----------------------------------------------------------------------------
(***************************************************************************)
(* The steps of a request.                                                 *)
(***************************************************************************)
\* What a step of r does to r, and that it does nothing to the others.
Moves(r, to, at, done) ==
    /\ pc' = [pc EXCEPT ![r] = to]
    /\ wpc' = [wpc EXCEPT ![r] = at]
    /\ finished' = [finished EXCEPT ![r] = done]

LEMMA OthersStay ==
    ASSUME RequestInv, NEW r \in Requests,
           NEW to \in PcValues, NEW at \in {"none", "looping", "freed", "posting", "gone"},
           NEW done \in BOOLEAN,
           Moves(r, to, at, done), UNCHANGED kind,
           holding' \in {holding, holding \cup {r}, holding \ {r}},
           HandlerStays(r)'
    PROVE  RequestInv'
<1>1. RequestTypes'
  BY DEF RequestInv, RequestTypes, Moves
<1>2. ASSUME NEW q \in Requests, q # r PROVE HandlerStays(q)'
  BY <1>2 DEF RequestInv, RequestTypes, HandlerStays, Moves, WorkerAt, Http
<1> QED  BY <1>1, <1>2 DEF RequestInv

\* A step of r that keeps what ties its handler to its worker; it leaves the
\* server alone, and begins a handler only while the listener accepts.
RequestOk(r) ==
    /\ UNCHANGED <<serverVars, cpc, kind>>
    /\ holding' \in {holding, holding \cup {r}, holding \ {r}}
    /\ \E to \in PcValues, at \in {"none", "looping", "freed", "posting", "gone"},
          done \in BOOLEAN : Moves(r, to, at, done)
    /\ HandlerStays(r)'
    /\ \/ ~Http(r) \/ pc' = pc \/ pc[r] \notin {"idle", "lost", "done"}
       \/ pc'[r] = "done" \/ listener = "accepting"

LEMMA RequestKeeps ==
    ASSUME IInv, NEW r \in Requests, RequestOk(r)
    PROVE  IInv'
<1>1. UNCHANGED <<serverVars, cpc, kind>>
  BY DEF RequestOk
<1>2. RequestInv'
  <2>1. PICK to \in PcValues, at \in {"none", "looping", "freed", "posting", "gone"},
             done \in BOOLEAN : Moves(r, to, at, done)
    BY DEF RequestOk
  <2> QED  BY <1>1, <2>1, OthersStay DEF IInv, RequestOk
<1>3. ServerInv'
  BY <1>1 DEF IInv, ServerInv, ServerTypes, OneStop, OneStart, ThreadOwned, InStop,
              MutexFree, serverVars
<1>4. LiveInv'
  <2>1. CASE listener = "accepting"
    BY <1>1, <2>1 DEF LiveInv, serverVars
  <2>2. CASE \/ ~Http(r) \/ pc' = pc \/ pc[r] \notin {"idle", "lost", "done"}
             \/ pc'[r] = "done"
    <3>1. Live' \subseteq Live
      <4>1. \A q \in Requests : q # r => pc'[q] = pc[q]
        BY DEF IInv, RequestInv, RequestTypes, RequestOk, Moves
      <4> QED  BY <1>1, <2>2, <4>1 DEF Live, Http
    <3> QED  BY <1>1, <3>1 DEF IInv, LiveInv, serverVars
  <2> QED  BY <2>1, <2>2 DEF RequestOk
<1> QED  BY <1>2, <1>3, <1>4 DEF IInv

\* A step that changes no more than where the handler of r is.
Steps(r, to) ==
    /\ UNCHANGED <<serverVars, cpc, kind, wpc, finished, holding>>
    /\ pc' = [pc EXCEPT ![r] = to]

LEMMA StepsOk ==
    ASSUME IInv, NEW r \in Requests, NEW to \in PcValues, Steps(r, to),
           pc[r] # "begun",
           \/ ~WorkerAt(r)
           \/ pc[r] \in {"reading", "writing", "waiting", "abandoning"}
              /\ to \in {"reading", "writing", "waiting", "abandoning", "lost"},
           pc[r] \notin {"idle", "lost", "done"} \/ listener = "accepting"
    PROVE  RequestOk(r)
<1>1. Moves(r, to, wpc[r], finished[r])
  BY DEF Steps, Moves, IInv, RequestInv, RequestTypes
<1>2. HandlerStays(r)'
  BY DEF Steps, IInv, RequestInv, RequestTypes, HandlerStays, WorkerAt, Http
<1> QED  BY <1>1, <1>2 DEF RequestOk, Steps, IInv, RequestInv, RequestTypes

\* The handler returns, and its worker has ended or never began.
Returns(r) ==
    /\ UNCHANGED <<serverVars, cpc, kind, wpc>>
    /\ pc' = [pc EXCEPT ![r] = "closing"]
    /\ finished' = [finished EXCEPT ![r] = FALSE]

LEMMA ReturnsOk ==
    ASSUME IInv, NEW r \in Requests, Returns(r),
           holding' = holding \/ holding' = holding \ {r},
           pc[r] # "begun" \/ holding' = holding \ {r},
           ~WorkerAt(r) \/ ~Http(r),
           pc[r] \notin {"idle", "lost", "done"}
    PROVE  RequestOk(r)
<1>1. Moves(r, "closing", wpc[r], FALSE) /\ "closing" \in PcValues
  BY DEF Returns, Moves, IInv, RequestInv, RequestTypes, PcValues
<1>2. HandlerStays(r)'
  BY DEF Returns, IInv, RequestInv, RequestTypes, HandlerStays, WorkerAt, Http
<1> QED  BY <1>1, <1>2 DEF RequestOk, Returns, IInv, RequestInv, RequestTypes

LEMMA AdmissionOk ==
    ASSUME IInv, NEW r \in Requests,
           Arrive(r) \/ Reject(r) \/ Acquire(r) \/ Refuse(r) \/ TimesOut(r) \/ Generate(r)
    PROVE  RequestOk(r)
<1> USE DEF Goto, serverVars, workerVars, channelVars
<1>0. pc[r] \in {"idle", "arrived"} => ~Http(r) \/ ~WorkerAt(r)
  BY DEF IInv, RequestInv, HandlerStays
<1>1. CASE Arrive(r)
  <2>1. Steps(r, "arrived") /\ pc[r] = "idle" /\ listener = "accepting" /\ ~WorkerAt(r)
    BY <1>0, <1>1 DEF Arrive, Steps
  <2> QED  BY <2>1, StepsOk DEF PcValues
<1>2. CASE Reject(r) \/ Refuse(r) \/ TimesOut(r)
  <2>1. Returns(r) /\ pc[r] = "arrived" /\ Http(r) /\ holding' = holding
    BY <1>2 DEF Reject, Refuse, TimesOut, GetsNoSlot, Respond, Leave, Return, DropChannel,
                Returns
  <2> QED  BY <1>0, <2>1, ReturnsOk
<1>3. CASE Acquire(r) \/ Generate(r)
  <2>1. /\ Moves(r, "begun", wpc[r], finished[r])
        /\ UNCHANGED <<serverVars, cpc, kind, wpc, finished>>
        /\ holding' = holding \cup {r}
        /\ pc[r] = "arrived" \/ ~Http(r)
    BY <1>3 DEF Acquire, Generate, Moves, IInv, RequestInv, RequestTypes
  <2>2. HandlerStays(r)'
    BY <1>0, <2>1 DEF Moves, IInv, RequestInv, RequestTypes, HandlerStays, WorkerAt, Http
  <2> QED  BY <2>1, <2>2 DEF RequestOk, PcValues, IInv, RequestInv, RequestTypes
<1> QED  BY <1>1, <1>2, <1>3

LEMMA BeginOk ==
    ASSUME IInv, NEW r \in Requests, StartWorker(r) \/ ThreadFails(r)
    PROVE  RequestOk(r)
<1> USE DEF Goto, serverVars, workerVars, channelVars
<1>1. CASE StartWorker(r)
  <2> DEFINE to == CASE kind[r] = "stream" -> "reading"
                     [] kind[r] = "sync"   -> "waiting"
                     [] OTHER              -> "listening"
  <2>1. /\ to \in PcValues
        /\ Http(r) => to \in {"reading", "waiting"}
    BY DEF IInv, RequestInv, RequestTypes, Kinds, Http, PcValues
  <2> HIDE DEF to
  <2>2. /\ Moves(r, to, "looping", finished[r])
        /\ UNCHANGED <<serverVars, cpc, kind, finished, holding>>
        /\ wpc[r] = "none" /\ pc[r] = "begun"
    BY <1>1 DEF StartWorker, At, to, Moves, IInv, RequestInv, RequestTypes
  <2>3. HandlerStays(r)'
    BY <2>1, <2>2 DEF Moves, IInv, RequestInv, RequestTypes, HandlerStays, WorkerAt, Http
  <2> QED  BY <2>1, <2>2, <2>3 DEF RequestOk, IInv, RequestInv, RequestTypes
<1>2. CASE ThreadFails(r)
  <2>1. Returns(r) /\ holding' = holding \ {r} /\ pc[r] = "begun"
    BY <1>2 DEF ThreadFails, Respond, Leave, Return, DropChannel, Returns
  <2>2. ~WorkerAt(r) \/ ~Http(r)
    BY <2>1 DEF IInv, RequestInv, HandlerStays
  <2> QED  BY <2>1, <2>2, ReturnsOk
<1> QED  BY <1>1, <1>2

\* The handler waits for Finish on every way out.
LEMMA ReadingOk ==
    ASSUME IInv, NEW r \in Requests,
           TakeBatch(r) \/ WriteBatch(r) \/ WriteFails(r) \/ HandlerThrows(r)
           \/ Abandon(r) \/ TakeEnd(r)
    PROVE  RequestOk(r)
<1> USE DEF Goto, serverVars, workerVars, channelVars
<1>0. finished[r] => ~WorkerAt(r)
  BY DEF IInv, RequestInv, HandlerStays, WorkerAt
<1>1. CASE TakeBatch(r)
  <2>1. Steps(r, "writing") /\ pc[r] = "reading"
    BY <1>1 DEF TakeBatch, Steps
  <2> QED  BY <2>1, StepsOk DEF PcValues
<1>2. CASE WriteBatch(r)
  <2>1. Steps(r, "reading") /\ pc[r] = "writing"
    BY <1>2 DEF WriteBatch, Steps
  <2> QED  BY <2>1, StepsOk DEF PcValues
<1>3. CASE WriteFails(r)
  <2>1. Steps(r, "abandoning") /\ pc[r] = "writing"
    BY <1>3 DEF WriteFails, WaitForWorker, Steps
  <2> QED  BY <2>1, StepsOk DEF PcValues
<1>4. CASE Abandon(r)
  <2>1. Returns(r) /\ pc[r] = "abandoning" /\ finished[r] /\ holding' = holding
    BY <1>4 DEF Abandon, Leave, Return, DropChannel, Returns
  <2> QED  BY <1>0, <2>1, ReturnsOk
<1>5. CASE TakeEnd(r)
  <2>1. Steps(r, "verdict") /\ pc[r] = "reading" /\ finished[r]
    BY <1>5 DEF TakeEnd, Steps
  <2> QED  BY <1>0, <2>1, StepsOk DEF PcValues
<1>6. CASE HandlerThrows(r)
  <2>1. Steps(r, "lost") /\ pc[r] = "writing"
    BY <1>6 DEF HandlerThrows, Steps
  <2> QED  BY <2>1, StepsOk DEF PcValues
<1> QED  BY <1>1, <1>2, <1>3, <1>4, <1>5, <1>6

LEMMA EndingOk ==
    ASSUME IInv, NEW r \in Requests,
           WriteMark(r) \/ MarkFails(r) \/ AnswerSync(r) \/ Over(r)
    PROVE  RequestOk(r)
<1> USE DEF Goto, serverVars, workerVars, channelVars
<1>0. /\ finished[r] => ~WorkerAt(r)
      /\ pc[r] \in {"verdict", "usage", "marker", "closing"} => ~WorkerAt(r) \/ ~Http(r)
  BY DEF IInv, RequestInv, HandlerStays, WorkerAt
<1>1. CASE WriteMark(r)
  <2>1. CASE pc[r] \in {"verdict", "usage"}
    <3>1. PICK to \in {"usage", "marker"} : to = Closing(r).next
      BY <2>1 DEF Closing
    <3>2. /\ Moves(r, to, wpc[r], finished[r])
          /\ UNCHANGED <<serverVars, cpc, kind, wpc, finished, holding>>
      BY <1>1, <3>1 DEF WriteMark, Moves, IInv, RequestInv, RequestTypes
    <3>3. HandlerStays(r)'
      BY <1>0, <2>1, <3>2 DEF Moves, IInv, RequestInv, RequestTypes, HandlerStays,
                              WorkerAt, Http
    <3> QED  BY <2>1, <3>2, <3>3 DEF RequestOk, PcValues, IInv, RequestInv, RequestTypes
  <2>2. CASE pc[r] = "marker"
    <3>1. Closing(r).next = "closing"
      BY <2>2 DEF Closing
    <3>2. Returns(r) /\ holding' = holding
      BY <1>1, <3>1 DEF WriteMark, Return, DropChannel, Returns
    <3> QED  BY <1>0, <2>2, <3>2, ReturnsOk
  <2> QED  BY <1>1, <2>1, <2>2 DEF WriteMark
<1>2. CASE MarkFails(r)
  <2>1. Returns(r) /\ pc[r] \in {"verdict", "usage", "marker"} /\ holding' = holding
    BY <1>2 DEF MarkFails, Leave, Return, DropChannel, Returns
  <2> QED  BY <1>0, <2>1, ReturnsOk
<1>3. CASE AnswerSync(r)
  <2>1. Returns(r) /\ pc[r] = "waiting" /\ finished[r] /\ holding' = holding
    BY <1>3 DEF AnswerSync, Respond, Return, DropChannel, Returns
  <2> QED  BY <1>0, <2>1, ReturnsOk
<1>4. CASE Over(r)
  <2>1. /\ Moves(r, "done", wpc[r], FALSE)
        /\ pc[r] \in {"closing", "lost"}
        /\ pc[r] = "lost" => wpc[r] = "gone"
        /\ UNCHANGED <<serverVars, cpc, kind, wpc, holding>>
    BY <1>4 DEF Over, DropChannel, Moves, IInv, RequestInv, RequestTypes
  <2>2. ~WorkerAt(r) \/ ~Http(r)
    BY <1>0, <2>1 DEF WorkerAt
  <2>3. HandlerStays(r)'
    BY <2>1, <2>2 DEF Moves, IInv, RequestInv, RequestTypes, HandlerStays, WorkerAt, Http
  <2>4. pc'[r] = "done"
    BY <2>1 DEF Moves, IInv, RequestInv, RequestTypes
  <2> QED  BY <2>1, <2>3, <2>4 DEF RequestOk, PcValues, IInv, RequestInv, RequestTypes
<1> QED  BY <1>1, <1>2, <1>3, <1>4

LEMMA WorkOk ==
    ASSUME IInv, NEW r \in Requests, Work(r)
    PROVE  RequestOk(r)
<1> USE DEF Outside, serverVars, workerVars, channelVars
<1>1. pc' = pc /\ UNCHANGED <<serverVars, cpc, kind>>
  BY DEF Work, Emits, Ends, Finishes, FinishFails, FlushesLast, PostsFinal, PostFails
<1>2. CASE Emits(r, Told(r)) /\ UNCHANGED <<holding, stop, Outside>>
  BY <1>1, <1>2 DEF Emits, RequestOk, Moves, IInv, RequestInv, RequestTypes,
                    HandlerStays, WorkerAt, Http
<1>3. CASE Ends(r, Told(r)) /\ holding' = holding \ {r}
  <2>1. Moves(r, pc[r], "freed", finished[r]) /\ UNCHANGED finished /\ wpc[r] = "looping"
    BY <1>1, <1>3 DEF Ends, At, Moves, IInv, RequestInv, RequestTypes
  <2>2. HandlerStays(r)'
    BY <1>1, <1>3, <2>1 DEF Moves, IInv, RequestInv, RequestTypes, HandlerStays,
                            WorkerAt, Http
  <2> QED  BY <1>1, <1>3, <2>1, <2>2 DEF RequestOk, IInv, RequestInv, RequestTypes
<1>4. CASE /\ Finishes(r) \/ FinishFails(r) \/ FlushesLast(r) \/ PostsFinal(r) \/ PostFails(r)
           /\ UNCHANGED holding
  <2>1. PICK at \in {"posting", "gone"}, done \in BOOLEAN :
            /\ Moves(r, pc[r], at, done)
            /\ done => at = "gone" \/ finished[r]
            /\ wpc[r] \in {"freed", "posting"}
    <3>1. CASE Finishes(r) \/ FinishFails(r) \/ PostsFinal(r)
      <4>1. Moves(r, pc[r], "gone", TRUE) /\ wpc[r] \in {"freed", "posting"}
        BY <1>1, <3>1 DEF Finishes, FinishFails, PostsFinal, At, Moves, IInv, RequestInv,
                          RequestTypes
      <4> QED  BY <4>1
    <3>2. CASE FlushesLast(r)
      <4>1. Moves(r, pc[r], "posting", finished[r]) /\ wpc[r] = "freed"
        BY <1>1, <3>2 DEF FlushesLast, At, Moves, IInv, RequestInv, RequestTypes
      <4> QED  BY <4>1 DEF IInv, RequestInv, RequestTypes
    <3>3. CASE PostFails(r)
      <4>1. Moves(r, pc[r], "gone", finished[r]) /\ wpc[r] \in {"freed", "posting"}
        BY <1>1, <3>3 DEF PostFails, Moves, IInv, RequestInv, RequestTypes
      <4> QED  BY <4>1 DEF IInv, RequestInv, RequestTypes
    <3> QED  BY <1>4, <3>1, <3>2, <3>3
  <2>2. HandlerStays(r)'
    BY <1>1, <1>4, <2>1 DEF Moves, IInv, RequestInv, RequestTypes, HandlerStays,
                            WorkerAt, Http
  <2> QED  BY <1>1, <1>4, <2>1, <2>2 DEF RequestOk, IInv, RequestInv, RequestTypes
<1> QED  BY <1>2, <1>3, <1>4 DEF Work

LEMMA CallbackOk ==
    ASSUME IInv, NEW r \in Requests, Callback(r)
    PROVE  RequestOk(r)
<1> USE DEF serverVars, workerVars, channelVars
<1>1. pc[r] = "listening" /\ (~WorkerAt(r) \/ ~Http(r)) /\ UNCHANGED holding
  BY DEF Callback, IInv, RequestInv, HandlerStays
<1>2. CASE Head(queue[r]).mark = ""
  <2>1. UNCHANGED <<serverVars, cpc, kind, wpc, finished, holding, pc>>
    BY <1>2 DEF Callback
  <2>2. Moves(r, pc[r], wpc[r], finished[r]) /\ HandlerStays(r)'
    BY <2>1 DEF Moves, IInv, RequestInv, RequestTypes, HandlerStays, WorkerAt, Http
  <2> QED  BY <2>1, <2>2 DEF RequestOk, IInv, RequestInv, RequestTypes
<1>3. CASE Head(queue[r]).mark # ""
  <2>1. Returns(r)
    BY <1>3 DEF Callback, Respond, Return, Goto, DropChannel, Returns
  <2> QED  BY <1>1, <2>1, ReturnsOk
<1> QED  BY <1>2, <1>3

LEMMA EngineStopsOk ==
    ASSUME IInv, NEW r \in Requests, EngineStops(r)
    PROVE  RequestOk(r)
<1>1. UNCHANGED <<serverVars, cpc, kind, wpc, finished, holding, pc>>
  BY DEF EngineStops, workerVars, channelVars
<1>2. Moves(r, pc[r], wpc[r], finished[r]) /\ HandlerStays(r)'
  BY <1>1 DEF Moves, IInv, RequestInv, RequestTypes, HandlerStays, WorkerAt, Http
<1> QED  BY <1>1, <1>2 DEF RequestOk, IInv, RequestInv, RequestTypes

-----------------------------------------------------------------------------
LEMMA StepIInv == IInv /\ [Next]_vars => IInv'
<1> SUFFICES ASSUME IInv, [Next]_vars PROVE IInv'
  OBVIOUS
<1>1. CASE ServerStep
  <2>1. ServerInv'
    BY <1>1, StartKeeps, StopKeeps, ListenerKeeps DEF IInv, ServerStep
  <2> QED  BY <1>1, <2>1, ServerLeavesRequests DEF IInv
<1>2. ASSUME NEW r \in Requests, RequestStep(r) PROVE IInv'
  <2>1. CASE \/ Arrive(r) \/ Reject(r) \/ Acquire(r)
             \/ Refuse(r) \/ TimesOut(r) \/ Generate(r)
    BY <2>1, AdmissionOk, RequestKeeps
  <2>2. CASE StartWorker(r) \/ ThreadFails(r)
    BY <2>2, BeginOk, RequestKeeps
  <2>3. CASE TakeBatch(r) \/ WriteBatch(r) \/ WriteFails(r) \/ HandlerThrows(r)
             \/ Abandon(r) \/ TakeEnd(r)
    BY <2>3, ReadingOk, RequestKeeps
  <2>4. CASE WriteMark(r) \/ MarkFails(r) \/ AnswerSync(r) \/ Over(r)
    BY <2>4, EndingOk, RequestKeeps
  <2>5. CASE Work(r)
    BY <2>5, WorkOk, RequestKeeps
  <2>6. CASE Callback(r)
    BY <2>6, CallbackOk, RequestKeeps
  <2>7. CASE EngineStops(r)
    BY <2>7, EngineStopsOk, RequestKeeps
  <2> QED  BY <1>2, <2>1, <2>2, <2>3, <2>4, <2>5, <2>6, <2>7
           DEF RequestStep, Handler, UiStep, GenerateGoesOn
<1>3. CASE UNCHANGED vars
  BY <1>3 DEF vars, workerVars, channelVars, serverVars, requestVars, IInv, ServerInv,
              ServerTypes, OneStop, OneStart, ThreadOwned, InStop, MutexFree, RequestInv,
              RequestTypes, HandlerStays, WorkerAt, Http, LiveInv, Live
<1> QED  BY <1>1, <1>2, <1>3 DEF Next, ServerStep, RequestStep

LEMMA AlwaysIInv == Spec => []IInv
<1> QED  BY InitIInv, StepIInv, PTL DEF Spec

\* Whatever clients do and whoever stops the server: no handler outlives it,
\* and Start and Stop never work on it together.
THEOREM ServerAlwaysOutlives == Spec => []ServerOutlivesHandlers
<1>1. IInv => ServerOutlivesHandlers
  <2> SUFFICES ASSUME IInv PROVE ServerOutlivesHandlers
    OBVIOUS
  <2>1. Live # {} => joinable
    BY DEF IInv, LiveInv, ServerInv, ThreadOwned
  <2> QED  BY <2>1 DEF ServerOutlivesHandlers, IInv, ServerInv, OneStop, OneStart,
                       ThreadOwned
<1> QED  BY <1>1, AlwaysIInv, PTL

\* A server that is gone has left no handler behind, and no slot and no worker but
\* of a handler that threw.
THEOREM AlwaysQuietWhenDown == Spec => []QuietWhenDown
<1>1. IInv => QuietWhenDown
  <2> SUFFICES ASSUME IInv, ~server PROVE QuietWhenDown
    BY DEF QuietWhenDown
  <2>1. Live = {}
    BY DEF IInv, LiveInv, ServerInv, ThreadOwned
  <2>2. ASSUME NEW r \in Requests, Http(r) PROVE pc[r] \in {"idle", "lost", "done"}
    BY <2>1, <2>2 DEF Live
  <2>3. ASSUME NEW r \in Requests, Http(r), pc[r] # "lost"
        PROVE  r \notin holding /\ ~WorkerAt(r)
    BY <2>2, <2>3 DEF IInv, RequestInv, HandlerStays, WorkerAt
  <2> QED  BY <2>1, <2>3 DEF QuietWhenDown
<1> QED  BY <1>1, AlwaysIInv, PTL

-----------------------------------------------------------------------------
(***************************************************************************)
(* The types of what travels.                                              *)
(***************************************************************************)
Events == [mark : MarkSet \cup {""}, text : Seq(Pieces)]

ChannelTypes ==
    /\ pending \in [Requests -> Seq(Pieces)] /\ full \in [Requests -> Seq(Pieces)]
    /\ queue \in [Requests -> Seq(Events)]
    /\ flushed \in [Requests -> BOOLEAN]
    /\ result \in [Requests -> {"Completed", "Failed", "Aborted"}]

ClientTypes ==
    /\ made \in [Requests -> 0 .. MaxPieces] /\ sock \in BOOLEAN
    /\ stop \in [Requests -> BOOLEAN] /\ hand \in [Requests -> Seq(Pieces)]
    /\ seen \in [Requests -> Seq(Pieces)] /\ marks \in [Requests -> Seq(MarkSet)]
    /\ torn \in [Requests -> SUBSET Pieces]

DataTypes == ChannelTypes /\ ClientTypes

LEMMA TypesInit == Init => DataTypes
<1> SUFFICES ASSUME Init PROVE DataTypes
  OBVIOUS
<1>1. <<>> \in Seq(Pieces) /\ <<>> \in Seq(Events) /\ <<>> \in Seq(MarkSet)
  OBVIOUS
<1>2. ChannelTypes
  BY <1>1 DEF Init, ChannelInit, ChannelTypes
<1>3. ClientTypes
  <2>1. 0 \in 0 .. MaxPieces /\ FALSE \in BOOLEAN
    BY ServingAssumption
  <2> QED  BY <1>1, <2>1 DEF Init, ChannelInit, ClientTypes
<1> QED  BY <1>2, <1>3 DEF DataTypes

LEMMA DropTypes ==
    ASSUME ChannelTypes, NEW r \in Requests, DropChannel(r)
    PROVE  ChannelTypes'
<1>1. <<>> \in Seq(Pieces) /\ <<>> \in Seq(Events)
  OBVIOUS
<1> QED  BY <1>1 DEF ChannelTypes, DropChannel

LEMMA FlushTypes ==
    ASSUME ChannelTypes, NEW r \in Requests, NEW text \in Seq(Pieces),
           Flush(r, text) \/ Keep(r, text), UNCHANGED result
    PROVE  ChannelTypes'
<1>0. <<>> \in Seq(Pieces) /\ full[r] \o text \in Seq(Pieces)
  BY ConcatProperties DEF ChannelTypes
<1>1. Append(queue[r], Batch(text)) \in Seq(Events)
  <2>1. Batch(text) \in Events /\ queue[r] \in Seq(Events)
    BY DEF Batch, Events, ChannelTypes
  <2> QED  BY <2>1
<1>2. pending' \in [Requests -> Seq(Pieces)]
  BY <1>0 DEF ChannelTypes, Flush, Keep
<1>3. queue' \in [Requests -> Seq(Events)]
  BY <1>1 DEF ChannelTypes, Flush, Keep
<1>4. full' \in [Requests -> Seq(Pieces)]
  BY <1>0 DEF ChannelTypes, Flush, Keep
<1>5. flushed' \in [Requests -> BOOLEAN]
  <2>1. CASE Keep(r, text)
    BY <2>1 DEF ChannelTypes, Keep
  <2>2. CASE Flush(r, text)
    <3>1. (flushed[r] \/ text # <<>>) \in BOOLEAN
      OBVIOUS
    <3>2. flushed' = [flushed EXCEPT ![r] = flushed[r] \/ text # <<>>]
      BY <2>2 DEF Flush
    <3>3. flushed \in [Requests -> BOOLEAN]
      BY DEF ChannelTypes
    <3> QED  BY <3>2, <3>3
  <2> QED  BY <2>1, <2>2
<1>6. result' \in [Requests -> {"Completed", "Failed", "Aborted"}]
  BY DEF ChannelTypes
<1> QED  BY <1>2, <1>3, <1>4, <1>5, <1>6 DEF ChannelTypes

LEMMA WorkTypes ==
    ASSUME DataTypes, NEW r \in Requests, Work(r)
    PROVE  DataTypes'
<1>0. ChannelTypes /\ ClientTypes
  BY DEF DataTypes
<1>1. pending[r] \in Seq(Pieces) /\ made[r] \in 0 .. MaxPieces /\ MaxPieces \in Nat
  BY <1>0, ServingAssumption DEF ChannelTypes, ClientTypes
<1>2. CASE Emits(r, Told(r)) /\ UNCHANGED <<holding, stop, Outside>>
  <2>1. made[r] + 1 \in Pieces /\ made[r] + 1 \in 0 .. MaxPieces
    BY <1>1, <1>2 DEF Emits, Pieces
  <2>2. Piece(r) \in Seq(Pieces)
    BY <1>1, <2>1 DEF Piece
  <2>3. (Flush(r, Piece(r)) \/ Keep(r, Piece(r))) /\ UNCHANGED result
    BY <1>2 DEF Emits
  <2>4. ChannelTypes'
    BY <1>0, <2>2, <2>3, FlushTypes
  <2>5. ClientTypes'
    BY <1>0, <1>2, <2>1 DEF Emits, ClientTypes, Outside, serverVars
  <2> QED  BY <2>4, <2>5 DEF DataTypes
<1>3. CASE Ends(r, Told(r)) /\ stop' = [stop EXCEPT ![r] = FALSE] /\ UNCHANGED Outside
  <2>1. ChannelTypes'
    BY <1>0, <1>3 DEF Ends, ChannelTypes
  <2>2. ClientTypes'
    BY <1>0, <1>3 DEF Ends, ClientTypes, Outside, serverVars
  <2> QED  BY <2>1, <2>2 DEF DataTypes
<1>4. CASE Finishes(r) \/ FlushesLast(r)
  <2>1. Flush(r, pending[r]) /\ UNCHANGED result
    BY <1>4 DEF Finishes, FlushesLast, FinishFlushes
  <2>2. ChannelTypes'
    BY <1>0, <1>1, <2>1, FlushTypes
  <2>3. UNCHANGED <<made, sock, stop, hand, seen, torn, marks>>
    <3>1. UNCHANGED <<stop, Outside>>
      BY <1>4 DEF Work, Finishes, FlushesLast, Emits, Ends, At
    <3>2. UNCHANGED made
      BY <1>4 DEF Finishes, FlushesLast
    <3> QED  BY <3>1, <3>2 DEF Outside, serverVars
  <2> QED  BY <1>0, <2>2, <2>3 DEF DataTypes, ClientTypes
<1>5. CASE (FinishFails(r) \/ PostsFinal(r) \/ PostFails(r)) /\ UNCHANGED <<stop, Outside>>
  <2>1. CASE FinishFails(r)
    BY <1>0, <1>5, <2>1 DEF FinishFails, DataTypes, ChannelTypes, ClientTypes, Outside,
                            serverVars
  <2>2. CASE PostsFinal(r)
    <3>1. Mark(FinalEvent(r)) \in Events
      BY DEF Mark, FinalEvent, Events, MarkSet
    <3>2. Append(queue[r], Mark(FinalEvent(r))) \in Seq(Events)
      BY <1>0, <3>1 DEF ChannelTypes
    <3>3. ChannelTypes'
      BY <1>0, <2>2, <3>2 DEF PostsFinal, ChannelTypes
    <3>4. ClientTypes'
      BY <1>0, <1>5, <2>2 DEF PostsFinal, ClientTypes, Outside, serverVars
    <3> QED  BY <3>3, <3>4 DEF DataTypes
  <2>3. CASE PostFails(r)
    BY <1>0, <1>5, <2>3 DEF PostFails, channelVars, DataTypes, ChannelTypes, ClientTypes,
                            Outside, serverVars
  <2> QED  BY <1>5, <2>1, <2>2, <2>3
<1> QED  BY <1>2, <1>3, <1>4, <1>5 DEF Work

\* Leave and Respond; what the client receives is typed.
LEMMA ReturnTypes ==
    ASSUME DataTypes, NEW r \in Requests, Return(r), UNCHANGED <<made, sock, torn>>,
           \/ UNCHANGED <<seen, marks>>
           \/ \E mark \in MarkSet, text \in Seq(Pieces) : Respond(r, mark, text)
           \/ UNCHANGED seen /\ \E mark \in MarkSet :
                  marks' = [marks EXCEPT ![r] = Append(marks[r], mark)]
    PROVE  DataTypes'
<1>1. ChannelTypes'
  BY DropTypes DEF Return, DataTypes
<1>2. stop' \in [Requests -> BOOLEAN] /\ UNCHANGED hand
  BY DEF Return, DataTypes, ClientTypes
<1>3. ASSUME NEW mark \in MarkSet PROVE <<mark>> \in Seq(MarkSet) /\ Append(marks[r], mark) \in Seq(MarkSet)
  BY DEF DataTypes, ClientTypes
<1>4. seen' \in [Requests -> Seq(Pieces)] /\ marks' \in [Requests -> Seq(MarkSet)]
  BY <1>3 DEF Respond, DataTypes, ClientTypes
<1> QED  BY <1>1, <1>2, <1>4 DEF DataTypes, ClientTypes

LEMMA QueueEnds ==
    ASSUME ChannelTypes, NEW r \in Requests, queue[r] # <<>>
    PROVE  Head(queue[r]) \in Events /\ Tail(queue[r]) \in Seq(Events)
<1>1. queue[r] \in Seq(Events)
  BY DEF ChannelTypes
<1> QED  BY <1>1, HeadTailProperties

LEMMA HandlerTypes ==
    ASSUME DataTypes, NEW r \in Requests, Handler(r) \/ GenerateGoesOn(r) \/ TimesOut(r)
    PROVE  DataTypes'
<1>0. ChannelTypes /\ ClientTypes /\ <<>> \in Seq(Pieces)
  BY DEF DataTypes
<1> USE DEF Goto, workerVars, channelVars, serverVars
<1>1. CASE Reject(r) \/ Refuse(r) \/ TimesOut(r) \/ ThreadFails(r) \/ Abandon(r)
           \/ MarkFails(r)
  <2>1. /\ Respond(r, "error", <<>>) \/ Leave(r)
        /\ UNCHANGED <<made, sock, torn>>
    BY <1>1 DEF Respond, Leave, Reject, Refuse, TimesOut, ThreadFails, Abandon, MarkFails, GetsNoSlot
  <2>2. Return(r)
    BY <2>1 DEF Respond, Leave
  <2>3. "error" \in MarkSet
    BY DEF MarkSet
  <2>4. UNCHANGED <<seen, marks>>
        \/ \E mark \in MarkSet, text \in Seq(Pieces) : Respond(r, mark, text)
    BY <1>0, <2>1, <2>3 DEF Leave
  <2> QED  BY <2>1, <2>2, <2>4, ReturnTypes
<1>2. CASE AnswerSync(r)
  <2>1. full[r] \in Seq(Pieces) /\ "error" \in MarkSet /\ "finish" \in MarkSet
    BY <1>0 DEF ChannelTypes, MarkSet
  <2>2. Return(r) /\ UNCHANGED <<made, sock, torn>>
    BY <1>2 DEF AnswerSync, Respond
  <2>3. \E mark \in MarkSet, text \in Seq(Pieces) : Respond(r, mark, text)
    BY <1>0, <1>2, <2>1 DEF AnswerSync
  <2> QED  BY <2>2, <2>3, ReturnTypes
<1>3. CASE WriteMark(r)
  <2>1. Closing(r).mark \in MarkSet
    BY DEF Closing, MarkSet
  <2>2. marks' = [marks EXCEPT ![r] = Append(marks[r], Closing(r).mark)]
        /\ UNCHANGED <<seen, torn, made, sock>>
    BY <1>3 DEF WriteMark
  <2>3. CASE Return(r)
    BY <2>1, <2>2, <2>3, ReturnTypes
  <2>4. CASE UNCHANGED <<channelVars, stop, hand>>
    <3>1. marks' \in [Requests -> Seq(MarkSet)]
      BY <1>0, <2>1, <2>2 DEF ClientTypes
    <3> QED  BY <1>0, <2>2, <2>4, <3>1 DEF DataTypes, ChannelTypes, ClientTypes
  <2> QED  BY <1>3, <2>3, <2>4 DEF WriteMark
<1>4. CASE Acquire(r)
  BY <1>0, <1>4 DEF Acquire, DataTypes, ChannelTypes, ClientTypes
<1>5. CASE StartWorker(r) \/ TakeEnd(r)
  BY <1>0, <1>5 DEF StartWorker, TakeEnd, DataTypes, ChannelTypes, ClientTypes
<1>6. CASE TakeBatch(r)
  <2>0. Head(queue[r]) \in Events /\ Tail(queue[r]) \in Seq(Events)
    BY <1>0, <1>6, QueueEnds DEF TakeBatch
  <2>1. Head(queue[r]).text \in Seq(Pieces) /\ Tail(queue[r]) \in Seq(Events)
    BY <2>0 DEF Events
  <2> QED  BY <1>0, <1>6, <2>1 DEF TakeBatch, DataTypes, ChannelTypes, ClientTypes
<1>7. CASE WriteBatch(r)
  <2>1. seen[r] \o hand[r] \in Seq(Pieces)
    BY <1>0, ConcatProperties DEF ClientTypes
  <2> QED  BY <1>0, <1>7, <2>1 DEF WriteBatch, DataTypes, ChannelTypes, ClientTypes
<1>8. CASE WriteFails(r) \/ HandlerThrows(r)
  <2>1. stop' \in [Requests -> BOOLEAN]
    <3>1. (wpc[r] = "looping") \in BOOLEAN
      OBVIOUS
    <3> QED  BY <1>0, <1>8, <3>1 DEF WriteFails, HandlerThrows, ClientTypes
  <2>2. hand' \in [Requests -> Seq(Pieces)]
    BY <1>0, <1>8 DEF WriteFails, HandlerThrows, ClientTypes
  <2>3. UNCHANGED <<made, pending, flushed, queue, full, result, seen, torn, marks, sock>>
    BY <1>8 DEF WriteFails, HandlerThrows
  <2> QED  BY <1>0, <2>1, <2>2, <2>3 DEF DataTypes, ChannelTypes, ClientTypes
<1>9. CASE Over(r)
  <2>1. ChannelTypes'
    BY <1>0, <1>9, DropTypes DEF Over
  <2>2. 0 \in 0 .. MaxPieces /\ <<>> \in Seq(MarkSet)
    BY ServingAssumption
  <2>3. ClientTypes'
    BY <1>0, <1>9, <2>2 DEF Over, ClientTypes
  <2> QED  BY <2>1, <2>3 DEF DataTypes
<1> QED  BY <1>1, <1>2, <1>3, <1>4, <1>5, <1>6, <1>7, <1>8, <1>9 DEF Handler, GenerateGoesOn

LEMMA LastPiece ==
    ASSUME NEW t \in Seq(Pieces)
    PROVE  t # <<>> => Len(t) # 0 /\ t[Len(t)] \in Pieces
<1>1. Len(t) \in Nat /\ (t # <<>> <=> Len(t) # 0) /\ \A i \in 1 .. Len(t) : t[i] \in Pieces
  OBVIOUS
<1> QED  BY <1>1

LEMMA CallbackTypes ==
    ASSUME DataTypes, NEW r \in Requests, Callback(r)
    PROVE  DataTypes'
<1>0. ChannelTypes /\ ClientTypes
  BY DEF DataTypes
<1>a. Head(queue[r]) \in Events /\ Tail(queue[r]) \in Seq(Events)
  BY <1>0, QueueEnds DEF Callback
<1>1. PICK event \in Events : event = Head(queue[r])
  BY <1>a
<1>2. event.text \in Seq(Pieces) /\ event.mark \in MarkSet \cup {""}
      /\ seen[r] \in Seq(Pieces)
  BY <1>0 DEF Events, ClientTypes
<1>3. CASE event.mark = ""
  <2>1. Tail(queue[r]) \in Seq(Events) /\ seen[r] \o event.text \in Seq(Pieces)
    BY <1>a, <1>2, ConcatProperties
  <2>3. Halved(r, event.text) \subseteq Pieces
    <3>1. event.text # <<>> => event.text[Len(event.text)] \in Pieces
      BY <1>2, LastPiece
    <3> QED  BY <3>1 DEF Halved, EndsInside
  <2>2. /\ seen' = [seen EXCEPT ![r] = seen[r] \o event.text]
        /\ queue' = [queue EXCEPT ![r] = Tail(queue[r])]
        /\ torn' = [torn EXCEPT ![r] = torn[r] \cup Halved(r, event.text)]
        /\ UNCHANGED <<made, pending, flushed, full, result, stop, hand, marks, sock>>
    BY <1>1, <1>3 DEF Callback, workerVars, serverVars
  <2> QED  BY <1>0, <2>1, <2>2, <2>3 DEF DataTypes, ChannelTypes, ClientTypes
<1>4. CASE event.mark # ""
  <2>1. Respond(r, event.mark, seen[r]) /\ UNCHANGED <<made, sock, torn>>
    BY <1>1, <1>4 DEF Callback, Respond, workerVars, serverVars
  <2>2. Return(r) /\ \E mark \in MarkSet, text \in Seq(Pieces) : Respond(r, mark, text)
    BY <1>2, <1>4, <2>1 DEF Respond
  <2> QED  BY <2>1, <2>2, ReturnTypes
<1> QED  BY <1>3, <1>4

LEMMA TypesNext == DataTypes /\ [Next]_vars => DataTypes'
<1> SUFFICES ASSUME DataTypes, [Next]_vars PROVE DataTypes'
  OBVIOUS
<1> USE DEF workerVars, channelVars, serverVars, requestVars
<1>1. CASE ServerStep \/ UNCHANGED vars
  <2>1. UNCHANGED <<made, pending, flushed, queue, full, result, stop, hand, seen, torn, marks>>
    BY <1>1 DEF ServerStep, BeginStart, StartStep, Rejoin, Open, OpenFails, AcceptFails,
                Listener, BeginListening, StopsAccepting, Drained, ListenerEnds, BeginStop,
                StopStep, Close, Join, EndStop, vars
  <2>2. sock' \in {sock, TRUE, FALSE}
    BY <1>1 DEF ServerStep, BeginStart, StartStep, Rejoin, Open, OpenFails, AcceptFails,
                Listener, BeginListening, StopsAccepting, Drained, ListenerEnds, BeginStop,
                StopStep, Close, CloseSocket, Join, EndStop, vars
  <2> QED  BY <2>1, <2>2 DEF DataTypes, ChannelTypes, ClientTypes
<1>2. ASSUME NEW r \in Requests, RequestStep(r) PROVE DataTypes'
  <2>1. CASE Arrive(r) \/ Generate(r)
    BY <2>1 DEF Arrive, Generate, DataTypes, ChannelTypes, ClientTypes
  <2>2. CASE EngineStops(r)
    BY <2>2 DEF EngineStops, DataTypes, ChannelTypes, ClientTypes
  <2>3. CASE Handler(r) \/ GenerateGoesOn(r) \/ TimesOut(r)
    BY <2>3, HandlerTypes
  <2>4. CASE Work(r)
    BY <2>4, WorkTypes
  <2>5. CASE Callback(r)
    BY <2>5, CallbackTypes
  <2> QED  BY <1>2, <2>1, <2>2, <2>3, <2>4, <2>5 DEF RequestStep, UiStep
<1> QED  BY <1>1, <1>2 DEF Next, ServerStep, RequestStep

\* Every variable holds a value of its type.
THEOREM ServingTyped == Spec => []TypeOK
<1>1. IInv /\ DataTypes => TypeOK
  BY DEF IInv, ServerInv, ServerTypes, RequestInv, RequestTypes, DataTypes, ChannelTypes,
         ClientTypes, Events, TypeOK
<1> QED  BY <1>1, AlwaysIInv, TypesInit, TypesNext, PTL DEF Spec

-----------------------------------------------------------------------------
(***************************************************************************)
(* The text in transit.  Pieces are numbered, so a part of the text is a   *)
(* block of numbers, and what a queue holds is a chain of blocks, each     *)
(* beginning where the one before it ends.                                 *)
(***************************************************************************)
Counts      == 0 .. MaxPieces
Block(a, b) == [i \in 1 .. b - a |-> a + i]

Chain(q, a, b) ==
    \E cut \in [0 .. Len(q) -> Counts] :
        /\ cut[0] = a /\ cut[Len(q)] = b
        /\ \A i, j \in 0 .. Len(q) : i <= j => cut[i] <= cut[j]
        /\ \A i \in 1 .. Len(q) : q[i].text = Block(cut[i - 1], cut[i])

LEMMA BlockType ==
    ASSUME NEW a \in Counts, NEW b \in Counts, a <= b
    PROVE  /\ Block(a, b) \in Seq(Pieces) /\ Len(Block(a, b)) = b - a
           /\ \A i \in 1 .. b - a : Block(a, b)[i] = a + i
<1>1. b - a \in Nat /\ MaxPieces \in Nat
  BY ServingAssumption DEF Counts
<1>2. Block(a, b) \in [1 .. b - a -> Pieces]
  BY <1>1 DEF Block, Pieces, Counts
<1> QED  BY <1>1, <1>2 DEF Block

LEMMA BlockNone ==
    ASSUME NEW a \in Counts, NEW b \in Counts, a <= b
    PROVE  Block(a, b) = <<>> <=> a = b
<1>1. Block(a, b) \in Seq(Pieces) /\ Len(Block(a, b)) = b - a
  BY BlockType
<1>2. Block(a, b) = <<>> <=> b - a = 0
  BY <1>1
<1> QED  BY <1>2, ServingAssumption DEF Counts

LEMMA BlockConcat ==
    ASSUME NEW a \in Counts, NEW b \in Counts, NEW c \in Counts, a <= b, b <= c
    PROVE  Block(a, b) \o Block(b, c) = Block(a, c)
<1>0. MaxPieces \in Nat /\ a <= c
  BY ServingAssumption DEF Counts
<1>1. PICK u, v, w : u = Block(a, b) /\ v = Block(b, c) /\ w = Block(a, c)
  OBVIOUS
<1>2. /\ u \in Seq(Pieces) /\ Len(u) = b - a /\ \A i \in 1 .. b - a : u[i] = a + i
      /\ v \in Seq(Pieces) /\ Len(v) = c - b /\ \A i \in 1 .. c - b : v[i] = b + i
      /\ w \in Seq(Pieces) /\ Len(w) = c - a /\ \A i \in 1 .. c - a : w[i] = a + i
  BY <1>0, <1>1, BlockType
<1>3. PICK s : s = u \o v
  OBVIOUS
<1>4. /\ s \in Seq(Pieces) /\ Len(s) = Len(u) + Len(v)
      /\ \A i \in 1 .. Len(s) : s[i] = IF i <= Len(u) THEN u[i] ELSE v[i - Len(u)]
  <2>1. u \in Seq(Pieces) /\ v \in Seq(Pieces)
    BY <1>2
  <2>2. /\ u \o v \in Seq(Pieces) /\ Len(u \o v) = Len(u) + Len(v)
        /\ \A i \in 1 .. Len(u) + Len(v) :
               (u \o v)[i] = IF i <= Len(u) THEN u[i] ELSE v[i - Len(u)]
    BY <2>1, ConcatProperties
  <2> QED  BY <1>3, <2>2, Zenon
<1>5. Len(s) = c - a
  BY <1>0, <1>2, <1>4 DEF Counts
<1>6. ASSUME NEW i \in 1 .. c - a PROVE s[i] = a + i
  <2>1. CASE i <= b - a
    BY <1>2, <1>4, <1>5, <2>1 DEF Counts
  <2>2. CASE i > b - a
    <3>1. i - (b - a) \in 1 .. c - b /\ b + (i - (b - a)) = a + i
      BY <1>0, <2>2 DEF Counts
    <3>2. s[i] = v[i - (b - a)]
      BY <1>2, <1>4, <1>5, <2>2 DEF Counts
    <3> QED  BY <1>2, <3>1, <3>2
  <2> QED  BY <2>1, <2>2 DEF Counts
<1>7. s = w
  BY <1>2, <1>4, <1>5, <1>6, SeqEqual
<1> QED  BY <1>1, <1>3, <1>7

LEMMA BlockMore ==
    ASSUME NEW a \in Counts, NEW b \in Counts, a <= b, b + 1 \in Counts
    PROVE  Append(Block(a, b), b + 1) = Block(a, b + 1)
<1>1. PICK u, w : u = Block(a, b) /\ w = Block(a, b + 1)
  OBVIOUS
<1>2. /\ u \in Seq(Pieces) /\ Len(u) = b - a /\ \A i \in 1 .. b - a : u[i] = a + i
      /\ w \in Seq(Pieces) /\ Len(w) = b + 1 - a /\ \A i \in 1 .. b + 1 - a : w[i] = a + i
  <2>1. PICK c \in Counts : c = b + 1 /\ a <= c
    BY DEF Counts
  <2>2. w = Block(a, c)
    BY <1>1, <2>1
  <2>3. w \in Seq(Pieces) /\ Len(w) = c - a /\ \A i \in 1 .. c - a : w[i] = a + i
    BY <2>1, <2>2, BlockType
  <2>4. u \in Seq(Pieces) /\ Len(u) = b - a /\ \A i \in 1 .. b - a : u[i] = a + i
    BY <1>1, BlockType
  <2> QED  BY <2>1, <2>3, <2>4
<1>3. b + 1 \in Pieces /\ b - a \in Nat
  BY DEF Counts, Pieces
<1>4. PICK s : s = Append(u, b + 1)
  OBVIOUS
<1>5. /\ s \in Seq(Pieces) /\ Len(s) = (b - a) + 1
      /\ \A i \in 1 .. b - a : s[i] = u[i]
      /\ s[(b - a) + 1] = b + 1
  BY <1>2, <1>3, <1>4
<1>6. ASSUME NEW i \in 1 .. b + 1 - a PROVE s[i] = a + i
  <2>1. CASE i = (b - a) + 1
    <3>1. a + i = b + 1
      BY <2>1 DEF Counts
    <3> QED  BY <1>5, <2>1, <3>1
  <2>2. CASE i # (b - a) + 1
    <3>1. i \in 1 .. b - a
      BY <1>3, <2>2 DEF Counts
    <3> QED  BY <1>2, <1>5, <3>1
  <2> QED  BY <2>1, <2>2
<1>7. Len(s) = Len(w)
  BY <1>2, <1>5 DEF Counts
<1>8. s = w
  BY <1>2, <1>5, <1>6, <1>7, SeqEqual
<1> QED  BY <1>1, <1>4, <1>8

\* A first part of the text is what TokenStream delivers.
LEMMA BlockPrefix ==
    ASSUME NEW k \in Counts, NEW m \in Counts, k <= m
    PROVE  Block(0, k) = SubSeq([i \in 1 .. m |-> i], 1, k)
<1>1. [i \in 1 .. m |-> i] \in Seq(Nat) /\ Len([i \in 1 .. m |-> i]) = m
  BY DEF Counts
<1> QED  BY <1>1 DEF Block, Counts

LEMMA ChainEnds ==
    ASSUME NEW q \in Seq(Events), NEW a, NEW b, Chain(q, a, b)
    PROVE  /\ a \in Counts /\ b \in Counts /\ a <= b
           /\ q = <<>> => a = b
<1>1. Len(q) \in Nat /\ 0 \in 0 .. Len(q) /\ Len(q) \in 0 .. Len(q)
  OBVIOUS
<1>2. PICK cut \in [0 .. Len(q) -> Counts] :
        /\ cut[0] = a /\ cut[Len(q)] = b
        /\ \A i, j \in 0 .. Len(q) : i <= j => cut[i] <= cut[j]
  BY DEF Chain
<1>3. q = <<>> => Len(q) = 0
  OBVIOUS
<1> QED  BY <1>1, <1>2, <1>3

LEMMA ChainNone == ASSUME NEW a \in Counts PROVE Chain(<<>>, a, a)
<1>1. PICK n : n = Len(<<>>)
  OBVIOUS
<1>2. n = 0
  BY <1>1
<1>3. PICK cut : cut = [i \in 0 .. n |-> a]
  OBVIOUS
<1>4. /\ cut \in [0 .. n -> Counts] /\ cut[0] = a /\ cut[n] = a
      /\ \A i, j \in 0 .. n : i <= j => cut[i] <= cut[j]
      /\ \A i \in 1 .. n : <<>>[i].text = Block(cut[i - 1], cut[i])
  BY <1>2, <1>3 DEF Counts
<1> QED  BY <1>1, <1>4 DEF Chain

LEMMA ChainAppend ==
    ASSUME NEW q \in Seq(Events), NEW a, NEW b, NEW c \in Counts, NEW e \in Events,
           Chain(q, a, b), b <= c, e.text = Block(b, c)
    PROVE  Chain(Append(q, e), a, c)
<1>1. PICK n \in Nat : n = Len(q)
  OBVIOUS
<1>2. PICK cut \in [0 .. n -> Counts] :
        /\ cut[0] = a /\ cut[n] = b
        /\ \A i, j \in 0 .. n : i <= j => cut[i] <= cut[j]
        /\ \A i \in 1 .. n : q[i].text = Block(cut[i - 1], cut[i])
  BY <1>1 DEF Chain
<1>3. PICK w : w = Append(q, e)
  OBVIOUS
<1>4. /\ Len(w) = n + 1 /\ w[n + 1] = e /\ \A i \in 1 .. n : w[i] = q[i]
  BY <1>1, <1>3
<1>5. PICK new : new = [i \in 0 .. n + 1 |-> IF i = n + 1 THEN c ELSE cut[i]]
  OBVIOUS
<1>6. /\ new \in [0 .. n + 1 -> Counts] /\ new[n + 1] = c
      /\ \A i \in 0 .. n : new[i] = cut[i]
  BY <1>2, <1>5
<1>7. ASSUME NEW i \in 0 .. n + 1, NEW j \in 0 .. n + 1, i <= j PROVE new[i] <= new[j]
  <2>1. CASE j = n + 1 /\ i # n + 1
    <3>1. i \in 0 .. n /\ i <= n /\ n \in 0 .. n
      BY <2>1
    <3>2. new[i] = cut[i] /\ cut[i] <= b /\ cut[i] \in Counts /\ b \in Counts
      BY <1>2, <1>6, <3>1
    <3>3. new[i] <= c
      BY <3>2 DEF Counts
    <3> QED  BY <1>6, <2>1, <3>3
  <2>2. CASE j # n + 1
    <3>1. i \in 0 .. n /\ j \in 0 .. n
      BY <1>7, <2>2
    <3> QED  BY <1>2, <1>6, <1>7, <3>1
  <2>3. CASE i = n + 1
    <3>1. i = j /\ new[i] \in Counts
      BY <1>6, <1>7, <2>3
    <3> QED  BY <3>1 DEF Counts
  <2> QED  BY <2>1, <2>2, <2>3
<1>8. ASSUME NEW i \in 1 .. n + 1 PROVE w[i].text = Block(new[i - 1], new[i])
  <2>1. CASE i = n + 1
    <3>1. i - 1 = n /\ n \in 0 .. n
      BY <2>1
    <3> QED  BY <1>2, <1>4, <1>6, <2>1, <3>1
  <2>2. CASE i # n + 1
    <3>1. i \in 1 .. n /\ i \in 0 .. n /\ i - 1 \in 0 .. n
      BY <2>2
    <3> QED  BY <1>2, <1>4, <1>6, <3>1
  <2> QED  BY <2>1, <2>2
<1>9. new[0] = a
  BY <1>2, <1>6
<1>10. Chain(w, a, c)
  BY <1>4, <1>6, <1>7, <1>8, <1>9 DEF Chain
<1> QED  BY <1>3, <1>10

LEMMA ChainTail ==
    ASSUME NEW q \in Seq(Events), NEW a, NEW b, Chain(q, a, b), q # <<>>
    PROVE  \E m \in Counts : a <= m /\ Head(q).text = Block(a, m) /\ Chain(Tail(q), m, b)
<1>1. PICK n \in Nat : n = Len(q) /\ n >= 1
  OBVIOUS
<1>2. PICK cut \in [0 .. n -> Counts] :
        /\ cut[0] = a /\ cut[n] = b
        /\ \A i, j \in 0 .. n : i <= j => cut[i] <= cut[j]
        /\ \A i \in 1 .. n : q[i].text = Block(cut[i - 1], cut[i])
  BY <1>1 DEF Chain
<1>3. PICK w : w = Tail(q)
  OBVIOUS
<1>4. Len(w) = n - 1 /\ n - 1 \in Nat /\ \A i \in 1 .. n - 1 : w[i] = q[i + 1]
  BY <1>1, <1>3, HeadTailProperties
<1>5. PICK new : new = [i \in 0 .. n - 1 |-> cut[i + 1]]
  OBVIOUS
<1>6. /\ new \in [0 .. n - 1 -> Counts] /\ \A i \in 0 .. n - 1 : new[i] = cut[i + 1]
  BY <1>2, <1>5
<1>7. ASSUME NEW i \in 0 .. n - 1, NEW j \in 0 .. n - 1, i <= j PROVE new[i] <= new[j]
  <2>1. i + 1 \in 0 .. n /\ j + 1 \in 0 .. n /\ i + 1 <= j + 1
    BY <1>7
  <2> QED  BY <1>2, <1>6, <2>1
<1>8. ASSUME NEW i \in 1 .. n - 1 PROVE w[i].text = Block(new[i - 1], new[i])
  <2>1. i + 1 \in 1 .. n /\ (i + 1) - 1 = i /\ i \in 0 .. n - 1 /\ i - 1 \in 0 .. n - 1
        /\ (i - 1) + 1 = i
    OBVIOUS
  <2>2. q[i + 1].text = Block(cut[i], cut[i + 1])
    BY <1>2, <2>1
  <2> QED  BY <1>4, <1>6, <2>1, <2>2
<1>9. new[0] = cut[1] /\ new[n - 1] = b
  <2>1. 0 \in 0 .. n - 1 /\ n - 1 \in 0 .. n - 1 /\ (n - 1) + 1 = n
    BY <1>1
  <2> QED  BY <1>2, <1>6, <2>1
<1>10. cut[1] \in Counts /\ a <= cut[1] /\ Head(q).text = Block(a, cut[1])
  <2>1. 0 \in 0 .. n /\ 1 \in 0 .. n /\ 1 \in 1 .. n /\ Head(q) = q[1]
    BY <1>1
  <2> QED  BY <1>2, <2>1
<1>11. Chain(w, cut[1], b)
  BY <1>4, <1>6, <1>7, <1>8, <1>9 DEF Chain
<1> QED  BY <1>3, <1>10, <1>11

-----------------------------------------------------------------------------
(***************************************************************************)
(* Where a request and its worker are together.                            *)
(***************************************************************************)
PlaceInv(r) ==
    /\ pc[r] \in {"reading", "writing", "abandoning", "verdict", "usage", "marker", "lost"}
          => kind[r] = "stream"
    /\ pc[r] = "waiting" => kind[r] = "sync"
    /\ pc[r] = "listening" => kind[r] = "napi"
    /\ pc[r] \in {"idle", "arrived", "begun"} => wpc[r] = "none" /\ made[r] = 0
    /\ ~Http(r) /\ WorkerAt(r) => pc[r] = "listening"
    /\ pc[r] = "verdict" => finished[r] /\ queue[r] = <<>>

\* The client has k pieces, the handler the next ones up to h while it writes
\* them, the queue those up to p, and the rest is pending.  What a handler had
\* in hand when the client parted is nowhere any more.
Flow(r, k, h, p) ==
    /\ k <= h /\ h <= p
    /\ seen[r] = Block(0, k) /\ Chain(queue[r], h, p) /\ pending[r] = Block(p, made[r])
    /\ full[r] = IF pc[r] = "waiting" THEN Block(0, p) ELSE <<>>
    /\ hand[r] = IF pc[r] = "writing" THEN Block(k, h) ELSE <<>>
    /\ pc[r] \notin {"writing", "abandoning", "lost", "closing"} => k = h
    /\ pc[r] = "waiting" => k = 0

FlowInv(r) == \E k, h, p \in 0 .. made[r] : Flow(r, k, h, p)

\* How the end is told: after the pending text, and by the last event.
EndInv(r) ==
    /\ pc[r] \notin {"usage", "marker", "closing"} => marks[r] = <<>>
    /\ pc[r] \in {"usage", "marker"} => marks[r] # <<>>
    /\ wpc[r] = "posting" => pending[r] = <<>> /\ ~Http(r)
    /\ finished[r] /\ result[r] # "Failed" => pending[r] = <<>>
    /\ \A i \in 1 .. Len(queue[r]) : queue[r][i].mark # "" =>
           /\ i = Len(queue[r]) /\ wpc[r] = "gone"
           /\ pending[r] = <<>> /\ queue[r][i].text = <<>>

StreamInv(r) == PlaceInv(r) /\ FlowInv(r) /\ EndInv(r)

Typed == IInv /\ DataTypes

LEMMA StreamInit == Init => \A r \in Requests : StreamInv(r)
<1> SUFFICES ASSUME Init, NEW r \in Requests PROVE StreamInv(r)
  OBVIOUS
<1>1. /\ pc[r] = "idle" /\ wpc[r] = "none" /\ made[r] = 0 /\ ~finished[r]
      /\ pending[r] = <<>> /\ queue[r] = <<>> /\ full[r] = <<>>
      /\ hand[r] = <<>> /\ seen[r] = <<>> /\ marks[r] = <<>>
  BY DEF Init, ChannelInit
<1>2. 0 \in Counts /\ 0 \in 0 .. made[r] /\ 0 <= 0
  BY <1>1, ServingAssumption DEF Counts
<1>3. Block(0, 0) = <<>> /\ Chain(<<>>, 0, 0)
  BY <1>2, BlockNone, ChainNone
<1>4. Flow(r, 0, 0, 0)
  BY <1>1, <1>2, <1>3 DEF Flow
<1>5. FlowInv(r)
  BY <1>2, <1>4 DEF FlowInv
<1>6. PlaceInv(r) /\ EndInv(r)
  BY <1>1 DEF PlaceInv, EndInv, WorkerAt
<1> QED  BY <1>5, <1>6 DEF StreamInv

\* What the invariant is about, at one request.
Same(q) ==
    /\ pc'[q] = pc[q] /\ kind'[q] = kind[q] /\ wpc'[q] = wpc[q] /\ made'[q] = made[q]
    /\ pending'[q] = pending[q] /\ queue'[q] = queue[q] /\ full'[q] = full[q]
    /\ finished'[q] = finished[q] /\ result'[q] = result[q]
    /\ hand'[q] = hand[q] /\ seen'[q] = seen[q] /\ marks'[q] = marks[q]

LEMMA SameKeeps ==
    ASSUME NEW q, Same(q)
    PROVE  (StreamInv(q) => StreamInv(q)') /\ Verdict(q)' = Verdict(q)
<1>1. PlaceInv(q)' <=> PlaceInv(q)
  BY DEF Same, PlaceInv, Http, WorkerAt
<1>2. ASSUME NEW k, NEW h, NEW p PROVE Flow(q, k, h, p)' <=> Flow(q, k, h, p)
  BY DEF Same, Flow
<1>3. FlowInv(q)' <=> FlowInv(q)
  BY <1>2 DEF Same, FlowInv
<1>4. EndInv(q)' <=> EndInv(q)
  BY DEF Same, EndInv, Http
<1>5. Verdict(q)' = Verdict(q)
  BY DEF Same, Verdict
<1> QED  BY <1>1, <1>3, <1>4, <1>5 DEF StreamInv

\* The counts of the flow, and who is at work.
LEMMA FlowCounts ==
    ASSUME Typed, NEW r \in Requests
    PROVE  /\ made[r] \in Counts /\ 0 .. made[r] \subseteq Counts
           /\ queue[r] \in Seq(Events) /\ pending[r] \in Seq(Pieces)
           /\ seen[r] \in Seq(Pieces) /\ hand[r] \in Seq(Pieces) /\ full[r] \in Seq(Pieces)
           /\ marks[r] \in Seq(MarkSet)
<1>1. made[r] \in Counts
  BY DEF Typed, DataTypes, ClientTypes, Counts
<1>2. 0 .. made[r] \subseteq Counts
  BY <1>1, ServingAssumption DEF Counts
<1> QED  BY <1>1, <1>2 DEF Typed, DataTypes, ChannelTypes, ClientTypes

LEMMA WorkerPlace ==
    ASSUME Typed, NEW r \in Requests, StreamInv(r), WorkerAt(r)
    PROVE  /\ ~finished[r]
           /\ pc[r] \in {"reading", "writing", "waiting", "abandoning", "lost", "listening"}
           /\ pc[r] = "waiting" <=> kind[r] = "sync"
           /\ \A i \in 1 .. Len(queue[r]) : queue[r][i].mark = ""
<1>1. HandlerStays(r) /\ kind[r] \in Kinds
  BY DEF Typed, IInv, RequestInv, RequestTypes
<1>2. PlaceInv(r) /\ EndInv(r)
  BY DEF StreamInv
<1>3. wpc[r] # "gone"
  BY DEF WorkerAt
<1>4. ~finished[r]
  BY <1>1, <1>3 DEF HandlerStays
<1>5. pc[r] \in {"reading", "writing", "waiting", "abandoning", "lost", "listening"}
  BY <1>1, <1>2 DEF HandlerStays, PlaceInv
<1>6. pc[r] = "waiting" <=> kind[r] = "sync"
  BY <1>2, <1>5 DEF PlaceInv
<1>7. \A i \in 1 .. Len(queue[r]) : queue[r][i].mark = ""
  BY <1>2, <1>3 DEF EndInv
<1> QED  BY <1>4, <1>5, <1>6, <1>7

-----------------------------------------------------------------------------
(***************************************************************************)
(* The steps of the worker.                                                *)
(***************************************************************************)
LEMMA AppendEntries ==
    ASSUME NEW q \in Seq(Events), NEW e \in Events, NEW w, w = Append(q, e)
    PROVE  \A i \in 1 .. Len(w) : \/ i \in 1 .. Len(q) /\ w[i] = q[i]
                                  \/ i = Len(w) /\ w[i] = e
  OBVIOUS

LEMMA FlushEntries ==
    ASSUME Typed, NEW r \in Requests, NEW text \in Seq(Pieces), Flush(r, text)
    PROVE  /\ pending'[r] = <<>>
           /\ queue'[r] = IF text = <<>> THEN queue[r] ELSE Append(queue[r], Batch(text))
           /\ full'[r] = IF kind[r] = "sync" THEN full[r] \o text ELSE full[r]
           /\ Batch(text) \in Events /\ Batch(text).text = text /\ Batch(text).mark = ""
<1>1. Batch(text) \in Events /\ Batch(text).text = text /\ Batch(text).mark = ""
  BY DEF Batch, Events
<1>2. pending'[r] = <<>>
  BY DEF Flush, Typed, DataTypes, ChannelTypes
<1>3. queue'[r] = IF text = <<>> THEN queue[r] ELSE Append(queue[r], Batch(text))
  BY DEF Flush, Typed, DataTypes, ChannelTypes
<1>4. full'[r] = IF kind[r] = "sync" THEN full[r] \o text ELSE full[r]
  BY DEF Flush, Typed, DataTypes, ChannelTypes
<1> QED  BY <1>1, <1>2, <1>3, <1>4

\* A flush takes the pending text, and what was added to it, to the queue.
LEMMA FlushFlow ==
    ASSUME Typed, NEW r \in Requests, StreamInv(r), WorkerAt(r),
           NEW k \in 0 .. made[r], NEW h \in 0 .. made[r], NEW p \in 0 .. made[r],
           Flow(r, k, h, p), NEW m \in Counts, made[r] <= m, made'[r] = m,
           Flush(r, Block(p, m)), UNCHANGED <<kind, pc, hand, seen>>
    PROVE  /\ FlowInv(r)' /\ pending'[r] = <<>>
           /\ \A i \in 1 .. Len(queue'[r]) : queue'[r][i].mark = ""
<1>0. /\ made[r] \in Counts /\ p \in Counts /\ p <= m /\ h <= p /\ k <= h /\ 0 \in Counts
      /\ queue[r] \in Seq(Events) /\ m \in 0 .. m /\ {k, h, p} \subseteq 0 .. m /\ 0 <= p
  BY FlowCounts, ServingAssumption DEF Flow, Counts
<1>1. Block(p, m) \in Seq(Pieces) /\ (Block(p, m) = <<>> <=> p = m)
  BY <1>0, BlockType, BlockNone
<1>2. PICK text \in Seq(Pieces), e \in Events :
          /\ text = Block(p, m) /\ e.text = text /\ e.mark = ""
          /\ pending'[r] = <<>>
          /\ queue'[r] = IF text = <<>> THEN queue[r] ELSE Append(queue[r], e)
          /\ full'[r] = IF kind[r] = "sync" THEN full[r] \o text ELSE full[r]
  BY <1>1, FlushEntries
<1>3. Chain(queue'[r], h, m)
  <2>1. CASE text = <<>>
    BY <1>1, <1>2, <2>1 DEF Flow
  <2>2. CASE text # <<>>
    <3>1. Chain(queue[r], h, p)
      BY DEF Flow
    <3>2. Chain(Append(queue[r], e), h, m)
      BY <1>0, <1>2, <3>1, ChainAppend
    <3> QED  BY <1>2, <2>2, <3>2
  <2> QED  BY <2>1, <2>2
<1>4. \A i \in 1 .. Len(queue'[r]) : queue'[r][i].mark = ""
  <2>1. \A i \in 1 .. Len(queue[r]) : queue[r][i].mark = ""
    BY WorkerPlace
  <2>2. CASE text = <<>>
    BY <1>2, <2>1, <2>2
  <2>3. CASE text # <<>>
    <3>1. PICK w : w = Append(queue[r], e)
      OBVIOUS
    <3>2. \A i \in 1 .. Len(w) :
             (i \in 1 .. Len(queue[r]) /\ w[i] = queue[r][i]) \/ w[i] = e
      BY <1>0, <3>1, AppendEntries
    <3>3. \A i \in 1 .. Len(w) : w[i].mark = ""
      BY <1>2, <2>1, <3>2
    <3> QED  BY <1>2, <2>3, <3>1, <3>3
  <2> QED  BY <2>2, <2>3
<1>5. pending'[r] = Block(m, m)
  <2>1. m <= m
    BY DEF Counts
  <2> QED  BY <1>2, <2>1, BlockNone
<1>6. full'[r] = IF pc[r] = "waiting" THEN Block(0, m) ELSE <<>>
  <2>1. pc[r] = "waiting" <=> kind[r] = "sync"
    BY WorkerPlace
  <2>2. CASE pc[r] = "waiting"
    <3>1. full[r] = Block(0, p)
      BY <2>2 DEF Flow
    <3>2. full'[r] = full[r] \o text
      BY <1>2, <2>1, <2>2
    <3>3. Block(0, p) \o Block(p, m) = Block(0, m)
      BY <1>0, BlockConcat
    <3> QED  BY <1>2, <2>2, <3>1, <3>2, <3>3
  <2>3. CASE pc[r] # "waiting"
    BY <1>2, <2>1, <2>3 DEF Flow
  <2> QED  BY <2>2, <2>3
<1>7. h <= m
  BY <1>0 DEF Counts
<1>8. Flow(r, k, h, m)'
  BY <1>0, <1>3, <1>5, <1>6, <1>7 DEF Flow
<1>9. FlowInv(r)'
  BY <1>0, <1>8 DEF FlowInv
<1> QED  BY <1>2, <1>4, <1>9

LEMMA EmitsStream ==
    ASSUME Typed, NEW r \in Requests, StreamInv(r),
           Emits(r, Told(r)), UNCHANGED <<pc, hand, seen, marks>>
    PROVE  StreamInv(r)'
<1>1. WorkerAt(r) /\ wpc[r] = "looping" /\ made[r] < MaxPieces
      /\ UNCHANGED <<kind, wpc, finished, result>>
  BY DEF Emits, WorkerAt
<1>2. PICK m \in Counts : m = made[r] + 1 /\ made'[r] = m /\ made[r] <= m
  BY <1>1, ServingAssumption DEF Emits, Counts, Typed, DataTypes, ClientTypes
<1>3. PICK k \in 0 .. made[r], h \in 0 .. made[r], p \in 0 .. made[r] : Flow(r, k, h, p)
  BY DEF StreamInv, FlowInv
<1>4. Piece(r) = Block(p, m)
  <2>1. p \in Counts /\ made[r] \in Counts /\ p <= made[r]
    BY FlowCounts
  <2>2. Append(Block(p, made[r]), made[r] + 1) = Block(p, made[r] + 1)
    BY <1>2, <2>1, BlockMore
  <2> QED  BY <1>2, <1>3, <2>2 DEF Piece, Flow
<1>5. FlowInv(r)' /\ \A i \in 1 .. Len(queue'[r]) : queue'[r][i].mark = ""
  <2>1. CASE Flush(r, Piece(r))
    BY <1>1, <1>2, <1>3, <1>4, <2>1, FlushFlow
  <2>2. CASE Keep(r, Piece(r))
    <3>1. pending'[r] = Block(p, m) /\ UNCHANGED <<queue, full>>
      BY <1>4, <2>2 DEF Keep, Typed, DataTypes, ChannelTypes
    <3>2. Flow(r, k, h, p)'
      BY <1>1, <1>2, <1>3, <3>1 DEF Flow
    <3>3. {k, h, p} \subseteq 0 .. m
      BY <1>2, FlowCounts DEF Counts
    <3>4. FlowInv(r)'
      BY <1>2, <3>2, <3>3 DEF FlowInv
    <3> QED  BY <1>1, <3>1, <3>4, WorkerPlace
  <2> QED  BY <2>1, <2>2 DEF Emits
<1>6. ~finished[r] /\ pc[r] \notin {"idle", "arrived", "begun", "verdict"}
  BY <1>1, WorkerPlace
<1>7. PlaceInv(r)'
  BY <1>1, <1>6 DEF StreamInv, PlaceInv, Http, WorkerAt
<1>8. EndInv(r)'
  BY <1>1, <1>5, <1>6 DEF StreamInv, EndInv
<1> QED  BY <1>5, <1>7, <1>8 DEF StreamInv

LEMMA FinishesStream ==
    ASSUME Typed, NEW r \in Requests, StreamInv(r),
           Finishes(r) \/ FlushesLast(r), UNCHANGED <<pc, hand, seen, marks>>
    PROVE  StreamInv(r)'
<1>1. /\ WorkerAt(r) /\ Flush(r, pending[r]) /\ UNCHANGED <<kind, made, result>>
      /\ \/ Http(r) /\ wpc'[r] = "gone" /\ finished'[r]
         \/ ~Http(r) /\ wpc'[r] = "posting" /\ UNCHANGED finished
  BY DEF Finishes, FlushesLast, FinishFlushes, WorkerAt, At, Typed, IInv, RequestInv,
         RequestTypes
<1>2. PICK k \in 0 .. made[r], h \in 0 .. made[r], p \in 0 .. made[r] : Flow(r, k, h, p)
  BY DEF StreamInv, FlowInv
<1>3. made[r] \in Counts /\ made[r] <= made[r] /\ made'[r] = made[r]
  BY <1>1, FlowCounts DEF Counts
<1>4. Flush(r, Block(p, made[r]))
  BY <1>1, <1>2 DEF Flow
<1>5. /\ FlowInv(r)' /\ pending'[r] = <<>>
      /\ \A i \in 1 .. Len(queue'[r]) : queue'[r][i].mark = ""
  BY <1>1, <1>2, <1>3, <1>4, FlushFlow
<1>6. pc[r] \in {"reading", "writing", "waiting", "abandoning", "lost", "listening"}
  BY <1>1, WorkerPlace
<1>7. PlaceInv(r)'
  BY <1>1, <1>6 DEF StreamInv, PlaceInv, Http, WorkerAt
<1>8. EndInv(r)'
  BY <1>1, <1>5, <1>6 DEF StreamInv, EndInv, Http
<1> QED  BY <1>5, <1>7, <1>8 DEF StreamInv

\* The worker moves on and leaves the text where it is.
LEMMA WorkerMoves ==
    ASSUME Typed, NEW r \in Requests, StreamInv(r), WorkerAt(r),
           UNCHANGED <<kind, pc, made, pending, full, queue, hand, seen, marks>>,
           wpc'[r] = "posting" => wpc[r] = "posting",
           finished'[r] => finished[r] \/ result'[r] = "Failed"
    PROVE  StreamInv(r)'
<1>1. pc[r] \in {"reading", "writing", "waiting", "abandoning", "lost", "listening"}
      /\ ~finished[r] /\ \A i \in 1 .. Len(queue[r]) : queue[r][i].mark = ""
  BY WorkerPlace
<1>2. PlaceInv(r)'
  BY <1>1 DEF StreamInv, PlaceInv, Http, WorkerAt
<1>3. FlowInv(r)'
  <2>1. PICK k \in 0 .. made[r], h \in 0 .. made[r], p \in 0 .. made[r] : Flow(r, k, h, p)
    BY DEF StreamInv, FlowInv
  <2>2. Flow(r, k, h, p)'
    BY <2>1 DEF Flow
  <2> QED  BY <2>2 DEF FlowInv
<1>4. EndInv(r)'
  BY <1>1 DEF StreamInv, EndInv, Http
<1> QED  BY <1>2, <1>3, <1>4 DEF StreamInv

LEMMA PostsStream ==
    ASSUME Typed, NEW r \in Requests, StreamInv(r),
           PostsFinal(r), UNCHANGED <<pc, hand, seen, marks>>
    PROVE  StreamInv(r)'
<1>1. PICK e : e = Mark(FinalEvent(r))
  OBVIOUS
<1>2. e \in Events /\ e.text = <<>>
  BY <1>1 DEF Mark, FinalEvent, Events, MarkSet
<1>3. /\ WorkerAt(r) /\ wpc[r] = "posting" /\ wpc'[r] = "gone" /\ finished'[r]
      /\ UNCHANGED <<kind, made, pending, full, result>>
      /\ queue'[r] = Append(queue[r], e)
  BY <1>1 DEF PostsFinal, At, WorkerAt, Typed, IInv, RequestInv, RequestTypes, DataTypes,
              ChannelTypes
<1>4. PICK w : w = Append(queue[r], e)
  OBVIOUS
<1>5. pending[r] = <<>> /\ ~Http(r)
  BY <1>3 DEF StreamInv, EndInv
<1>6. /\ pc[r] \in {"reading", "writing", "waiting", "abandoning", "lost", "listening"}
      /\ \A i \in 1 .. Len(queue[r]) : queue[r][i].mark = ""
  BY <1>3, WorkerPlace
<1>7. \A i \in 1 .. Len(w) : w[i].mark # "" => i = Len(w) /\ w[i].text = <<>>
  <2>1. queue[r] \in Seq(Events)
    BY FlowCounts
  <2>2. \A i \in 1 .. Len(w) : \/ i \in 1 .. Len(queue[r]) /\ w[i] = queue[r][i]
                               \/ i = Len(w) /\ w[i] = e
    BY <1>2, <1>4, <2>1, AppendEntries
  <2> QED  BY <1>2, <1>6, <2>2
<1>8. PICK k \in 0 .. made[r], h \in 0 .. made[r], p \in 0 .. made[r] : Flow(r, k, h, p)
  BY DEF StreamInv, FlowInv
<1>9. p = made[r] /\ p \in Counts /\ p <= p
  <2>1. Block(p, made[r]) = <<>>
    BY <1>5, <1>8 DEF Flow
  <2>2. p \in Counts /\ made[r] \in Counts /\ p <= made[r]
    BY FlowCounts
  <2> QED  BY <2>1, <2>2, BlockNone DEF Counts
<1>10. Chain(w, h, p)
  <2>1. e.text = Block(p, p)
    BY <1>2, <1>9, BlockNone
  <2> QED  BY <1>2, <1>4, <1>8, <1>9, <2>1, ChainAppend, FlowCounts DEF Flow
<1>11. Flow(r, k, h, p)'
  BY <1>3, <1>4, <1>8, <1>10 DEF Flow
<1>12. FlowInv(r)'
  BY <1>3, <1>11 DEF FlowInv
<1>13. PlaceInv(r)'
  BY <1>3, <1>5, <1>6 DEF StreamInv, PlaceInv, Http, WorkerAt
<1>14. EndInv(r)'
  BY <1>3, <1>4, <1>5, <1>6, <1>7 DEF StreamInv, EndInv, Http
<1> QED  BY <1>12, <1>13, <1>14 DEF StreamInv

LEMMA WorkStream ==
    ASSUME Typed, NEW r \in Requests, StreamInv(r), Work(r)
    PROVE  StreamInv(r)'
<1>1. UNCHANGED <<pc, hand, seen, marks>>
  BY DEF Work, Outside
<1>2. CASE Emits(r, Told(r))
  BY <1>1, <1>2, EmitsStream
<1>3. CASE Finishes(r) \/ FlushesLast(r)
  BY <1>1, <1>3, FinishesStream
<1>4. CASE PostsFinal(r)
  BY <1>1, <1>4, PostsStream
<1>5. CASE Ends(r, Told(r)) \/ FinishFails(r) \/ PostFails(r)
  <2>1. /\ UNCHANGED <<kind, made, pending, full, queue>> /\ WorkerAt(r)
        /\ wpc'[r] \in {"freed", "gone"}
        /\ finished'[r] => finished[r] \/ result'[r] = "Failed"
    BY <1>5 DEF Ends, FinishFails, PostFails, channelVars, At, WorkerAt, Typed, IInv,
                RequestInv, RequestTypes, DataTypes, ChannelTypes
  <2> QED  BY <1>1, <2>1, WorkerMoves
<1> QED  BY <1>2, <1>3, <1>4, <1>5 DEF Work

-----------------------------------------------------------------------------
(***************************************************************************)
(* The steps of the handler and of the callback.                           *)
(***************************************************************************)
\* A handler or a callback returns and the channel is freed; its client has
\* the first n pieces.
LEMMA ReturnStream ==
    ASSUME Typed, NEW r \in Requests, StreamInv(r), Return(r), UNCHANGED <<kind, wpc, made>>,
           ~WorkerAt(r), pc[r] # "writing",
           NEW n \in 0 .. made[r], seen'[r] = Block(0, n)
    PROVE  StreamInv(r)'
<1>1. /\ pc'[r] = "closing" /\ UNCHANGED hand
      /\ pending'[r] = <<>> /\ queue'[r] = <<>> /\ full'[r] = <<>> /\ finished'[r] = FALSE
  BY DEF Return, Goto, DropChannel, Typed, DataTypes, ChannelTypes, IInv, RequestInv,
         RequestTypes
<1>2. PICK k \in 0 .. made[r], h \in 0 .. made[r], p \in 0 .. made[r] : Flow(r, k, h, p)
  BY DEF StreamInv, FlowInv
<1>3. PICK m \in Counts : m = made[r] /\ made'[r] = m /\ m <= m /\ n <= m /\ m \in 0 .. m
  BY FlowCounts DEF Counts
<1>4. Block(m, m) = <<>> /\ Chain(<<>>, m, m)
  BY <1>3, BlockNone, ChainNone
<1>5. Flow(r, n, m, m)'
  BY <1>1, <1>2, <1>3, <1>4 DEF Flow
<1>6. FlowInv(r)'
  BY <1>3, <1>5 DEF FlowInv
<1>7. wpc'[r] = wpc[r] /\ kind'[r] = kind[r] /\ ~WorkerAt(r)'
  BY DEF WorkerAt
<1>8. PlaceInv(r)'
  BY <1>1, <1>7 DEF PlaceInv, Http
<1>9. EndInv(r)'
  <2>1. wpc'[r] # "posting" /\ Len(queue'[r]) = 0
    BY <1>1, <1>7 DEF WorkerAt
  <2> QED  BY <1>1, <2>1 DEF EndInv
<1> QED  BY <1>6, <1>8, <1>9 DEF StreamInv

\* The handler moves on; the text stays where it is, but for what it has in hand.
LEMMA QuietStream ==
    ASSUME Typed, NEW r \in Requests, StreamInv(r), PlaceInv(r)',
           UNCHANGED <<kind, made, channelVars, seen>>,
           wpc'[r] = wpc[r] \/ (wpc[r] = "none" /\ wpc'[r] = "looping"),
           pc[r] = "writing" => pc'[r] \in {"abandoning", "lost"},
           pc'[r] # "writing",
           pc[r] \in {"abandoning", "lost", "closing"} => pc'[r] = pc[r],
           pc[r] = "waiting" => pc'[r] = "waiting",
           pc'[r] = "waiting" => pc[r] \in {"waiting", "begun"},
           hand'[r] = <<>>,
           pc'[r] \notin {"usage", "marker", "closing"} => marks'[r] = <<>>,
           pc'[r] \in {"usage", "marker"} => marks'[r] # <<>>
    PROVE  StreamInv(r)'
<1>1. PICK k \in 0 .. made[r], h \in 0 .. made[r], p \in 0 .. made[r] : Flow(r, k, h, p)
  BY DEF StreamInv, FlowInv
<1>2. UNCHANGED <<made, pending, full, queue, finished, result>>
  BY DEF channelVars
<1>3. pc[r] = "begun" => k = 0 /\ p = 0
  BY <1>1 DEF StreamInv, PlaceInv
<1>4. full'[r] = IF pc'[r] = "waiting" THEN Block(0, p) ELSE <<>>
  <2>1. CASE pc[r] = "waiting"
    BY <1>1, <1>2, <2>1 DEF Flow
  <2>2. CASE pc[r] = "begun"
    <3>1. Block(0, 0) = <<>>
      BY BlockNone, ServingAssumption DEF Counts
    <3> QED  BY <1>1, <1>2, <1>3, <2>2, <3>1 DEF Flow
  <2>3. CASE pc[r] \notin {"waiting", "begun"}
    BY <1>1, <1>2, <2>3 DEF Flow
  <2> QED  BY <2>1, <2>2, <2>3
<1>5. Flow(r, k, h, p)'
  BY <1>1, <1>2, <1>3, <1>4 DEF Flow
<1>6. FlowInv(r)'
  BY <1>2, <1>5 DEF FlowInv
<1>7. EndInv(r)'
  BY <1>2 DEF StreamInv, EndInv, Http
<1> QED  BY <1>6, <1>7 DEF StreamInv

LEMMA UpTo ==
    ASSUME NEW n \in Nat, NEW k \in 0 .. n
    PROVE  k \in Nat /\ k <= n
<1> QED  OBVIOUS

LEMMA LastIndex ==
    ASSUME NEW n \in Nat, NEW i \in Nat, NEW m, m = n - 1, i + 1 = n
    PROVE  i = m
<1> QED  OBVIOUS

\* The next text of the queue.
LEMMA NextText ==
    ASSUME Typed, NEW r \in Requests, queue[r] # <<>>, EndInv(r),
           NEW k \in 0 .. made[r], NEW h \in 0 .. made[r], NEW p \in 0 .. made[r],
           Flow(r, k, h, p)
    PROVE  \E m \in 0 .. made[r] :
              /\ h <= m /\ m <= p /\ Head(queue[r]).text = Block(h, m)
              /\ Chain(Tail(queue[r]), m, p)
              /\ Head(queue[r]).mark # "" =>
                     /\ m = h /\ p = made[r] /\ h = p /\ wpc[r] = "gone"
              /\ \A i \in 1 .. Len(Tail(queue[r])) : Tail(queue[r])[i].mark # "" =>
                     /\ i = Len(Tail(queue[r])) /\ wpc[r] = "gone"
                     /\ pending[r] = <<>> /\ Tail(queue[r])[i].text = <<>>
<1>a. made[r] \in Counts /\ 0 .. made[r] \subseteq Counts /\ made[r] \in Nat
  BY FlowCounts, ServingAssumption DEF Counts
<1>b. h \in Counts /\ p \in Counts /\ p <= made[r]
  BY <1>a, UpTo
<1>0. PICK q \in Seq(Events) : q = queue[r] /\ q # <<>> /\ Chain(q, h, p)
  BY FlowCounts DEF Flow
<1>1. PICK m \in Counts : h <= m /\ Head(q).text = Block(h, m) /\ Chain(Tail(q), m, p)
  BY <1>0, ChainTail
<1>2. PICK w \in Seq(Events) :
          /\ w = Tail(q) /\ Len(w) = Len(q) - 1 /\ \A i \in 1 .. Len(w) : w[i] = q[i + 1]
  BY <1>0, HeadTailProperties
<1>3. m <= p /\ (w = <<>> => m = p)
  BY <1>1, <1>2, ChainEnds
<1>4. m \in 0 .. made[r]
  BY <1>1, <1>3, FlowCounts DEF Counts
<1>5. ASSUME Head(q).mark # ""
      PROVE  m = h /\ p = made[r] /\ h = p /\ wpc[r] = "gone"
  <2>1. Head(q) = q[1] /\ 1 \in 1 .. Len(q) /\ Len(q) \in Nat
    BY <1>0
  <2>2. 1 = Len(q) /\ wpc[r] = "gone" /\ pending[r] = <<>> /\ Head(q).text = <<>>
    BY <1>0, <1>5, <2>1 DEF EndInv
  <2>3. w = <<>>
    BY <1>2, <2>2
  <2>4. Block(p, made[r]) = <<>> /\ Block(h, m) = <<>>
    BY <1>1, <2>2 DEF Flow
  <2>5. p = made[r]
    <3> QED  BY <1>a, <1>b, <2>4, BlockNone
  <2>6. h = m
    <3> QED  BY <1>1, <1>b, <2>4, BlockNone
  <2> QED  BY <1>3, <2>2, <2>3, <2>5, <2>6
<1>6. ASSUME NEW i \in 1 .. Len(w), w[i].mark # ""
      PROVE  i = Len(w) /\ wpc[r] = "gone" /\ pending[r] = <<>> /\ w[i].text = <<>>
  <2>1. i + 1 \in 1 .. Len(q) /\ w[i] = q[i + 1] /\ Len(q) \in Nat
    BY <1>0, <1>2
  <2>2. i + 1 = Len(q) /\ wpc[r] = "gone" /\ pending[r] = <<>> /\ q[i + 1].text = <<>>
    BY <1>0, <1>6, <2>1 DEF EndInv
  <2>3. i = Len(w)
    <3>1. i \in Nat
      OBVIOUS
    <3> QED  BY <1>2, <2>1, <2>2, <3>1, LastIndex
  <2> QED  BY <2>1, <2>2, <2>3
<1> QED  BY <1>0, <1>1, <1>2, <1>3, <1>4, <1>5, <1>6

LEMMA TakeStream ==
    ASSUME Typed, NEW r \in Requests, StreamInv(r), TakeBatch(r)
    PROVE  StreamInv(r)'
<1>1. /\ pc[r] = "reading" /\ queue[r] # <<>> /\ pc'[r] = "writing"
      /\ hand'[r] = Head(queue[r]).text /\ queue'[r] = Tail(queue[r])
      /\ UNCHANGED <<kind, wpc, made, pending, flushed, full, finished, result, seen, marks>>
  BY DEF TakeBatch, Goto, workerVars, Typed, DataTypes, ChannelTypes, ClientTypes, IInv,
         RequestInv, RequestTypes
<1>2. PICK k \in 0 .. made[r], h \in 0 .. made[r], p \in 0 .. made[r] : Flow(r, k, h, p)
  BY DEF StreamInv, FlowInv
<1>3. PICK m \in 0 .. made[r] :
              /\ h <= m /\ m <= p /\ Head(queue[r]).text = Block(h, m)
              /\ Chain(Tail(queue[r]), m, p)
              /\ \A i \in 1 .. Len(Tail(queue[r])) : Tail(queue[r])[i].mark # "" =>
                     /\ i = Len(Tail(queue[r])) /\ wpc[r] = "gone"
                     /\ pending[r] = <<>> /\ Tail(queue[r])[i].text = <<>>
  BY <1>1, <1>2, NextText DEF StreamInv
<1>4. k = h
  BY <1>1, <1>2 DEF Flow
<1>5. Flow(r, k, m, p)'
  BY <1>1, <1>2, <1>3, <1>4 DEF Flow
<1>6. FlowInv(r)'
  BY <1>1, <1>5 DEF FlowInv
<1>7. PlaceInv(r)'
  BY <1>1 DEF StreamInv, PlaceInv, Http, WorkerAt
<1>8. EndInv(r)'
  BY <1>1, <1>3 DEF StreamInv, EndInv, Http
<1> QED  BY <1>6, <1>7, <1>8 DEF StreamInv

\* What was in hand is written, or a text event reaches the UI.
LEMMA WrittenText ==
    ASSUME Typed, NEW r \in Requests, NEW k \in 0 .. made[r], NEW h \in 0 .. made[r],
           k <= h, seen[r] = Block(0, k)
    PROVE  seen[r] \o Block(k, h) = Block(0, h)
<1>1. k \in Counts /\ h \in Counts /\ 0 \in Counts /\ 0 <= k
  BY FlowCounts, ServingAssumption DEF Counts
<1> QED  BY <1>1, BlockConcat

LEMMA WriteStream ==
    ASSUME Typed, NEW r \in Requests, StreamInv(r), WriteBatch(r)
    PROVE  StreamInv(r)'
<1>1. /\ pc[r] = "writing" /\ pc'[r] = "reading" /\ hand'[r] = <<>>
      /\ seen'[r] = seen[r] \o hand[r]
      /\ UNCHANGED <<kind, wpc, made, channelVars, marks>>
  BY DEF WriteBatch, Goto, workerVars, Typed, DataTypes, ChannelTypes, ClientTypes, IInv,
         RequestInv, RequestTypes
<1>2. PICK k \in 0 .. made[r], h \in 0 .. made[r], p \in 0 .. made[r] : Flow(r, k, h, p)
  BY DEF StreamInv, FlowInv
<1>3. seen'[r] = Block(0, h)
  BY <1>1, <1>2, WrittenText DEF Flow
<1>4. h <= h
  OBVIOUS
<1>5. Flow(r, h, h, p)'
  BY <1>1, <1>2, <1>3, <1>4 DEF Flow, channelVars
<1>6. FlowInv(r)'
  BY <1>1, <1>5 DEF FlowInv
<1>7. PlaceInv(r)'
  BY <1>1 DEF StreamInv, PlaceInv, Http, WorkerAt
<1>8. EndInv(r)'
  BY <1>1 DEF StreamInv, EndInv, Http, channelVars
<1> QED  BY <1>6, <1>7, <1>8 DEF StreamInv

-----------------------------------------------------------------------------
(***************************************************************************)
(* What the steps are to TokenStream.                                      *)
(***************************************************************************)
\* Of the pieces from k to n some come apart, where the text may.
TornBy(r, k, n) ==
    \E new \in SUBSET (Fragile(r) \cap (k + 1 .. n)) :
        torn' = [torn EXCEPT ![r] = torn[r] \cup new]

\* The steps of TokenStream, for what a step of r does to r.
Abstracts(r) ==
    \/ UNCHANGED <<made, seen, torn>> /\ Verdict(r)' = Verdict(r)
    \/ /\ made[r] < MaxPieces /\ Verdict(r) \notin {"complete", "over"}
       /\ made' = [made EXCEPT ![r] = made[r] + 1]
       /\ UNCHANGED <<seen, torn>> /\ Verdict(r)' = Verdict(r)
    \/ /\ Verdict(r) = "open" /\ Verdict(r)' = "open" /\ UNCHANGED made
       /\ \E n \in Len(seen[r]) + 1 .. made[r] :
              seen' = [seen EXCEPT ![r] = Block(0, n)] /\ TornBy(r, Len(seen[r]), n)
    \/ /\ Verdict(r) = "open" /\ Verdict(r)' = "complete" /\ UNCHANGED <<made, torn>>
       /\ seen' = [seen EXCEPT ![r] = Block(0, made[r])]
    \/ /\ Verdict(r) = "open" /\ Verdict(r)' \in {"failed", "parted"}
       /\ UNCHANGED <<made, seen, torn>>
    \/ /\ Verdict(r) # "open" /\ Verdict(r)' = "over"
       /\ made' = [made EXCEPT ![r] = 0] /\ seen' = [seen EXCEPT ![r] = <<>>]
       /\ torn' = [torn EXCEPT ![r] = {}]

LEMMA AbstractStep ==
    ASSUME Typed, NEW r \in Requests, Abstracts(r), UNCHANGED kind,
           \A q \in Requests : q # r => Verdict(q)' = Verdict(q)
    PROVE  [Delivery!Next]_(Delivery!vars)
<1> DEFINE verdict == [q \in Requests |-> Verdict(q)]
<1>1. verdict' = [verdict EXCEPT ![r] = Verdict(r)']
  OBVIOUS
<1>2. Verdict(r)' = Verdict(r) => verdict' = verdict
  OBVIOUS
<1>3. verdict[r] = Verdict(r)
  OBVIOUS
<1>4. \A k \in 0 .. made[r] : SubSeq(Delivery!Text(r), 1, k) = Block(0, k)
  <2>1. made[r] \in Counts /\ \A k \in 0 .. made[r] : k \in Counts /\ k <= made[r]
    BY FlowCounts DEF Counts
  <2> QED  BY <2>1, BlockPrefix DEF Delivery!Text
<1>5. Delivery!Text(r) = Block(0, made[r])
  BY FlowCounts DEF Delivery!Text, Block, Counts
<1>a. UNCHANGED [q \in Requests |-> Fragile(q)]
  BY DEF Fragile, Http
<1>6. CASE UNCHANGED <<made, seen, torn>> /\ Verdict(r)' = Verdict(r)
  BY <1>a, <1>2, <1>6 DEF Delivery!vars
<1>7. CASE /\ made[r] < MaxPieces /\ Verdict(r) \notin {"complete", "over"}
           /\ made' = [made EXCEPT ![r] = made[r] + 1]
           /\ UNCHANGED <<seen, torn>> /\ Verdict(r)' = Verdict(r)
  <2>1. Delivery!Make(r)
    BY <1>a, <1>2, <1>3, <1>7 DEF Delivery!Make
  <2> QED  BY <2>1 DEF Delivery!Next
<1>8. CASE /\ Verdict(r) = "open" /\ Verdict(r)' = "open" /\ UNCHANGED made
           /\ \E n \in Len(seen[r]) + 1 .. made[r] :
                  seen' = [seen EXCEPT ![r] = Block(0, n)] /\ TornBy(r, Len(seen[r]), n)
  <2>1. PICK n \in Len(seen[r]) + 1 .. made[r] :
            seen' = [seen EXCEPT ![r] = Block(0, n)] /\ TornBy(r, Len(seen[r]), n)
    BY <1>8
  <2>4. \E new \in SUBSET ([q \in Requests |-> Fragile(q)][r] \cap (Len(seen[r]) + 1 .. n)) :
            torn' = [torn EXCEPT ![r] = torn[r] \cup new]
    BY <2>1 DEF TornBy
  <2>2. n \in 0 .. made[r]
    <3>1. Len(seen[r]) \in Nat /\ made[r] \in Nat
      BY FlowCounts DEF Counts
    <3> QED  BY <3>1
  <2>3. Delivery!Deliver(r)
    BY <1>a, <1>2, <1>3, <1>4, <1>8, <2>1, <2>2, <2>4 DEF Delivery!Deliver
  <2> QED  BY <2>3 DEF Delivery!Next
<1>9. CASE /\ Verdict(r) = "open" /\ Verdict(r)' = "complete" /\ UNCHANGED <<made, torn>>
           /\ seen' = [seen EXCEPT ![r] = Block(0, made[r])]
  <2>1. Delivery!Complete(r)
    BY <1>a, <1>1, <1>3, <1>5, <1>9 DEF Delivery!Complete
  <2> QED  BY <2>1 DEF Delivery!Next
<1>10. CASE /\ Verdict(r) = "open" /\ Verdict(r)' \in {"failed", "parted"}
            /\ UNCHANGED <<made, seen, torn>>
  <2>1. Delivery!Break(r)
    BY <1>a, <1>1, <1>3, <1>10 DEF Delivery!Break
  <2> QED  BY <2>1 DEF Delivery!Next
<1>11. CASE /\ Verdict(r) # "open" /\ Verdict(r)' = "over"
            /\ made' = [made EXCEPT ![r] = 0] /\ seen' = [seen EXCEPT ![r] = <<>>]
            /\ torn' = [torn EXCEPT ![r] = {}]
  <2>1. Delivery!Forget(r)
    BY <1>a, <1>1, <1>3, <1>11 DEF Delivery!Forget
  <2> QED  BY <2>1 DEF Delivery!Next
<1> QED  BY <1>6, <1>7, <1>8, <1>9, <1>10, <1>11 DEF Abstracts

\* A verdict before the end is told.
LEMMA VerdictOpen ==
    ASSUME NEW r, marks[r] = <<>>
    PROVE  Verdict(r) = CASE pc[r] = "done" -> "over"
                          [] pc[r] \in {"closing", "lost"} -> "parted"
                          [] OTHER -> "open"
  BY DEF Verdict

LEMMA VerdictTold ==
    ASSUME NEW r, marks[r] # <<>>, pc[r] # "done"
    PROVE  Verdict(r) = IF Head(marks[r]) = "error" THEN "failed" ELSE "complete"
  BY DEF Verdict

LEMMA DeliverAbstracts ==
    ASSUME Typed, NEW r \in Requests, NEW k \in 0 .. made[r], NEW h \in 0 .. made[r], k <= h,
           seen[r] = Block(0, k), seen' = [seen EXCEPT ![r] = Block(0, h)], UNCHANGED made,
           TornBy(r, k, h), Verdict(r) = "open", Verdict(r)' = "open"
    PROVE  Abstracts(r)
<1>1. CASE h = k
  <2>1. seen' = seen /\ torn' = torn
    <3>1. k + 1 .. h = {}
      BY <1>1, FlowCounts DEF Counts
    <3>2. torn' = [torn EXCEPT ![r] = torn[r] \cup {}]
      BY <3>1 DEF TornBy
    <3> QED  BY <1>1, <3>2 DEF Typed, DataTypes, ClientTypes
  <2> QED  BY <2>1 DEF Abstracts
<1>2. CASE h # k
  <2>1. Len(seen[r]) = k
    <3>1. 0 \in Counts /\ k \in Counts /\ 0 <= k
      BY FlowCounts, ServingAssumption DEF Counts
    <3> QED  BY <3>1, BlockType DEF Counts
  <2>2. h \in Len(seen[r]) + 1 .. made[r]
    BY <1>2, <2>1
  <2> QED  BY <2>1, <2>2 DEF Abstracts
<1> QED  BY <1>1, <1>2

-----------------------------------------------------------------------------
(***************************************************************************)
(* Each step of a request keeps its stream and is a step of TokenStream.   *)
(***************************************************************************)
Implements(r) == StreamInv(r)' /\ Abstracts(r)

\* Without a word: the client and its worker have parted.
LEMMA LeaveImplements ==
    ASSUME Typed, NEW r \in Requests, StreamInv(r), Leave(r), UNCHANGED workerVars,
           ~WorkerAt(r), pc[r] \notin {"writing", "closing", "lost", "done"}
    PROVE  Implements(r)
<1>1. Return(r) /\ UNCHANGED <<kind, wpc, made, seen, torn, marks>> /\ pc'[r] = "closing"
  BY DEF Leave, Return, Goto, workerVars, Typed, IInv, RequestInv, RequestTypes
<1>2. PICK k \in 0 .. made[r], h \in 0 .. made[r], p \in 0 .. made[r] : Flow(r, k, h, p)
  BY DEF StreamInv, FlowInv
<1>3. seen'[r] = Block(0, k)
  BY <1>1, <1>2 DEF Flow
<1>4. StreamInv(r)'
  BY <1>1, <1>3, ReturnStream
<1>5. CASE marks[r] = <<>>
  <2>1. Verdict(r) = "open" /\ Verdict(r)' = "parted"
    BY <1>1, <1>5, VerdictOpen DEF Verdict
  <2> QED  BY <1>1, <1>4, <2>1 DEF Abstracts, Implements
<1>6. CASE marks[r] # <<>>
  <2>1. Verdict(r)' = Verdict(r)
    BY <1>1, <1>6, VerdictTold DEF Verdict
  <2> QED  BY <1>1, <1>4, <2>1 DEF Abstracts, Implements
<1> QED  BY <1>5, <1>6

\* With a last word: an error, or the end of all the text.
LEMMA RespondImplements ==
    ASSUME Typed, NEW r \in Requests, StreamInv(r), NEW mark \in MarkSet,
           NEW text \in Seq(Pieces), Respond(r, mark, text), UNCHANGED workerVars,
           ~WorkerAt(r), pc[r] \notin {"writing", "usage", "marker", "closing", "lost", "done"},
           \/ mark = "error" /\ text = seen[r]
           \/ mark # "error" /\ text = Block(0, made[r])
    PROVE  Implements(r)
<1>1. /\ Return(r) /\ UNCHANGED <<kind, wpc, made, torn>> /\ pc'[r] = "closing"
      /\ seen' = [seen EXCEPT ![r] = text] /\ seen'[r] = text
      /\ marks'[r] = <<mark>>
  BY DEF Respond, Return, Goto, workerVars, Typed, IInv, RequestInv, RequestTypes, DataTypes,
         ClientTypes
<1>2. PICK k \in 0 .. made[r], h \in 0 .. made[r], p \in 0 .. made[r] : Flow(r, k, h, p)
  BY DEF StreamInv, FlowInv
<1>3. \E n \in 0 .. made[r] : seen'[r] = Block(0, n)
  <2>1. seen[r] = Block(0, k) /\ made[r] \in 0 .. made[r]
    BY <1>2, FlowCounts DEF Flow, Counts
  <2> QED  BY <1>1, <2>1
<1>4. StreamInv(r)'
  BY <1>1, <1>3, ReturnStream
<1>5. Verdict(r) = "open"
  <2>1. marks[r] = <<>>
    BY DEF StreamInv, EndInv
  <2> QED  BY <2>1, VerdictOpen
<1>6. Verdict(r)' = IF mark = "error" THEN "failed" ELSE "complete"
  <2>1. <<mark>> # <<>> /\ Head(<<mark>>) = mark
    OBVIOUS
  <2> QED  BY <1>1, <2>1 DEF Verdict
<1>7. CASE mark = "error" /\ text = seen[r]
  <2>1. seen' = seen
    BY <1>1, <1>7 DEF Typed, DataTypes, ClientTypes
  <2> QED  BY <1>1, <1>4, <1>5, <1>6, <1>7, <2>1 DEF Abstracts, Implements
<1>8. CASE mark # "error" /\ text = Block(0, made[r])
  BY <1>1, <1>4, <1>5, <1>6, <1>8 DEF Abstracts, Implements
<1> QED  BY <1>7, <1>8

\* A request that has no worker yet is told no.
LEMMA DenialImplements ==
    ASSUME Typed, NEW r \in Requests, StreamInv(r),
           Reject(r) \/ Refuse(r) \/ TimesOut(r) \/ ThreadFails(r)
    PROVE  Implements(r)
<1>1. /\ pc[r] \in {"arrived", "begun"} /\ UNCHANGED workerVars
      /\ Respond(r, "error", <<>>) \/ Leave(r)
  BY DEF Reject, Refuse, TimesOut, ThreadFails, GetsNoSlot
<1>2. wpc[r] = "none" /\ made[r] = 0
  BY <1>1 DEF StreamInv, PlaceInv
<1>3. ~WorkerAt(r)
  BY <1>2 DEF WorkerAt
<1>4. seen[r] = <<>>
  <2>1. PICK k \in 0 .. made[r], h \in 0 .. made[r], p \in 0 .. made[r] : Flow(r, k, h, p)
    BY DEF StreamInv, FlowInv
  <2>2. k = 0
    BY <1>2
  <2>3. Block(0, 0) = <<>>
    BY BlockNone, ServingAssumption DEF Counts
  <2> QED  BY <2>1, <2>2, <2>3 DEF Flow
<1>5. "error" \in MarkSet /\ <<>> \in Seq(Pieces)
  BY DEF MarkSet
<1>6. CASE Respond(r, "error", <<>>)
  BY <1>1, <1>3, <1>4, <1>5, <1>6, RespondImplements
<1>7. CASE Leave(r)
  BY <1>1, <1>3, <1>7, LeaveImplements
<1> QED  BY <1>1, <1>6, <1>7

\* The handler is at one place or another; nothing is told.
LEMMA PlaceImplements ==
    ASSUME Typed, NEW r \in Requests, StreamInv(r),
           Arrive(r) \/ Acquire(r) \/ Generate(r) \/ StartWorker(r) \/ TakeEnd(r)
           \/ EngineStops(r)
    PROVE  Implements(r)
<1> USE DEF Goto, workerVars
<1>0. PlaceInv(r) /\ EndInv(r) /\ pc \in [Requests -> PcValues] /\ kind[r] \in Kinds
      /\ wpc \in [Requests -> {"none", "looping", "freed", "posting", "gone"}]
  BY DEF StreamInv, Typed, IInv, RequestInv, RequestTypes
<1>1. /\ UNCHANGED <<kind, made, channelVars, seen, torn, hand, marks>>
      /\ \/ /\ pc'[r] = pc[r] /\ wpc'[r] = wpc[r]
         \/ /\ pc[r] \in {"idle", "arrived"} /\ pc'[r] \in {"arrived", "begun"}
            /\ wpc'[r] = wpc[r]
         \/ /\ pc[r] = "begun" /\ wpc[r] = "none" /\ wpc'[r] = "looping"
            /\ pc'[r] = CASE kind[r] = "stream" -> "reading"
                          [] kind[r] = "sync" -> "waiting"
                          [] OTHER -> "listening"
         \/ /\ pc[r] = "reading" /\ pc'[r] = "verdict" /\ wpc'[r] = wpc[r]
            /\ finished[r] /\ queue[r] = <<>>
  <2>1. CASE Arrive(r)
    BY <1>0, <2>1 DEF Arrive
  <2>2. CASE Acquire(r)
    BY <1>0, <2>2 DEF Acquire
  <2>3. CASE Generate(r)
    BY <1>0, <2>3 DEF Generate
  <2>4. CASE StartWorker(r)
    <3>1. /\ pc[r] = "begun" /\ UNCHANGED <<kind, made, channelVars, seen, torn, hand, marks>>
          /\ wpc[r] = "none" /\ wpc'[r] = "looping"
      BY <1>0, <2>4 DEF StartWorker, At
    <3>2. pc'[r] = CASE kind[r] = "stream" -> "reading"
                     [] kind[r] = "sync" -> "waiting"
                     [] OTHER -> "listening"
      BY <1>0, <2>4 DEF StartWorker
    <3> QED  BY <3>1, <3>2
  <2>5. CASE TakeEnd(r)
    BY <1>0, <2>5 DEF TakeEnd
  <2>6. CASE EngineStops(r)
    BY <2>6 DEF EngineStops
  <2> QED  BY <2>1, <2>2, <2>3, <2>4, <2>5, <2>6
<1>2. /\ pc'[r] \in {pc[r], "arrived", "begun", "reading", "waiting", "listening", "verdict"}
      /\ pc'[r] # pc[r] => pc[r] \in {"idle", "arrived", "begun", "reading"}
      /\ wpc'[r] = wpc[r] \/ (wpc[r] = "none" /\ wpc'[r] = "looping")
  <2>1. \/ kind[r] = "stream" \/ kind[r] = "sync" \/ kind[r] = "napi"
    BY <1>0 DEF Kinds
  <2> QED  BY <1>1, <2>1
<1>3. PlaceInv(r)'
  BY <1>0, <1>1 DEF PlaceInv, Http, WorkerAt, Kinds, channelVars
<1>4. CASE pc[r] # "writing"
  <2>1. hand'[r] = <<>>
    <3>1. PICK k \in 0 .. made[r], h \in 0 .. made[r], p \in 0 .. made[r] : Flow(r, k, h, p)
      BY DEF StreamInv, FlowInv
    <3> QED  BY <1>1, <1>4, <3>1 DEF Flow
  <2>2. /\ pc'[r] # "writing"
        /\ pc[r] \in {"abandoning", "lost", "closing"} => pc'[r] = pc[r]
        /\ pc[r] = "waiting" => pc'[r] = "waiting"
        /\ pc'[r] = "waiting" => pc[r] \in {"waiting", "begun"}
    BY <1>0, <1>1, <1>2, <1>4
  <2>3. /\ pc'[r] \notin {"usage", "marker", "closing"} => marks'[r] = <<>>
        /\ pc'[r] \in {"usage", "marker"} => marks'[r] # <<>>
    BY <1>0, <1>1, <1>2 DEF EndInv
  <2>4. StreamInv(r)'
    BY <1>1, <1>2, <1>3, <1>4, <2>1, <2>2, <2>3, QuietStream
  <2>5. Verdict(r)' = Verdict(r)
    <3>1. CASE pc'[r] = pc[r]
      BY <1>1, <3>1 DEF Verdict
    <3>2. CASE pc'[r] # pc[r]
      <4>1. marks[r] = <<>> /\ marks'[r] = <<>>
        BY <1>0, <1>1, <1>2, <3>2 DEF EndInv
      <4> QED  BY <1>2, <3>2, <4>1 DEF Verdict
    <3> QED  BY <3>1, <3>2
  <2> QED  BY <1>1, <2>4, <2>5 DEF Implements, Abstracts
<1>5. CASE pc[r] = "writing"
  <2>1. Same(r)
    BY <1>1, <1>5 DEF Same, channelVars
  <2>2. StreamInv(r)' /\ Verdict(r)' = Verdict(r)
    BY <2>1, SameKeeps
  <2> QED  BY <1>1, <2>2 DEF Implements, Abstracts
<1> QED  BY <1>4, <1>5

LEMMA WritingImplements ==
    ASSUME Typed, NEW r \in Requests, StreamInv(r),
           TakeBatch(r) \/ WriteBatch(r) \/ WriteFails(r) \/ HandlerThrows(r)
    PROVE  Implements(r)
<1> USE DEF Goto, workerVars
<1>0. PlaceInv(r) /\ EndInv(r) /\ pc \in [Requests -> PcValues]
  BY DEF StreamInv, Typed, IInv, RequestInv, RequestTypes
<1>1. /\ pc[r] \in {"reading", "writing"} /\ UNCHANGED <<kind, wpc, made, marks>>
      /\ pc'[r] \in {"reading", "writing", "abandoning", "lost"}
  BY <1>0 DEF TakeBatch, WriteBatch, WriteFails, WaitForWorker, HandlerThrows
<1>2. marks[r] = <<>> /\ marks'[r] = <<>> /\ Verdict(r) = "open"
      /\ Verdict(r)' = IF pc'[r] = "lost" THEN "parted" ELSE "open"
  <2>1. marks[r] = <<>> /\ marks'[r] = <<>>
    BY <1>0, <1>1 DEF EndInv
  <2> QED  BY <1>1, <2>1 DEF Verdict
<1>3. CASE TakeBatch(r)
  <2>1. StreamInv(r)'
    BY <1>3, TakeStream
  <2>2. UNCHANGED <<made, seen, torn>> /\ pc'[r] = "writing"
    BY <1>0, <1>3 DEF TakeBatch
  <2> QED  BY <1>2, <2>1, <2>2 DEF Implements, Abstracts
<1>4. CASE WriteBatch(r)
  <2>1. StreamInv(r)'
    BY <1>4, WriteStream
  <2>2. /\ pc[r] = "writing" /\ pc'[r] = "reading" /\ UNCHANGED made
        /\ seen' = [seen EXCEPT ![r] = seen[r] \o hand[r]]
    BY <1>0, <1>4 DEF WriteBatch
  <2>3. PICK k \in 0 .. made[r], h \in 0 .. made[r], p \in 0 .. made[r] : Flow(r, k, h, p)
    BY DEF StreamInv, FlowInv
  <2>4. k <= h /\ seen[r] = Block(0, k) /\ seen[r] \o hand[r] = Block(0, h)
    BY <2>2, <2>3, WrittenText DEF Flow
  <2>5. seen' = [seen EXCEPT ![r] = Block(0, h)]
    BY <2>2, <2>4
  <2>7. TornBy(r, k, h)
    <3>1. torn' = torn
      BY <1>4 DEF WriteBatch
    <3>2. torn' = [torn EXCEPT ![r] = torn[r] \cup {}]
      BY <3>1 DEF Typed, DataTypes, ClientTypes
    <3> QED  BY <3>2 DEF TornBy
  <2>6. Abstracts(r)
    BY <1>2, <2>2, <2>4, <2>5, <2>7, DeliverAbstracts
  <2> QED  BY <2>1, <2>6 DEF Implements
<1>5. CASE WriteFails(r) \/ HandlerThrows(r)
  <2>1. /\ pc[r] = "writing" /\ pc'[r] \in {"abandoning", "lost"} /\ hand'[r] = <<>>
        /\ UNCHANGED <<channelVars, seen, torn>>
    BY <1>0, <1>5 DEF WriteFails, WaitForWorker, HandlerThrows, Typed, DataTypes, ClientTypes
  <2>2. PlaceInv(r)'
    BY <1>0, <1>1, <2>1 DEF PlaceInv, Http, WorkerAt
  <2>3. StreamInv(r)'
    BY <1>1, <1>2, <2>1, <2>2, QuietStream
  <2> QED  BY <1>1, <1>2, <2>1, <2>3 DEF Implements, Abstracts
<1> QED  BY <1>3, <1>4, <1>5

LEMMA EndingImplements ==
    ASSUME Typed, NEW r \in Requests, StreamInv(r),
           Abandon(r) \/ MarkFails(r) \/ AnswerSync(r)
    PROVE  Implements(r)
<1>0. PlaceInv(r) /\ EndInv(r) /\ HandlerStays(r)
  BY DEF StreamInv, Typed, IInv, RequestInv
<1>1. CASE Abandon(r) \/ MarkFails(r)
  <2>1. /\ pc[r] \in {"abandoning", "verdict", "usage", "marker"}
        /\ pc[r] = "abandoning" => finished[r]
        /\ Leave(r) /\ UNCHANGED workerVars
    BY <1>1 DEF Abandon, MarkFails
  <2>2. ~WorkerAt(r)
    <3>1. Http(r)
      BY <1>0, <2>1 DEF PlaceInv, Http
    <3> QED  BY <1>0, <2>1, <3>1 DEF HandlerStays, WorkerAt
  <2> QED  BY <2>1, <2>2, LeaveImplements
<1>2. CASE AnswerSync(r)
  <2>1. /\ pc[r] = "waiting" /\ finished[r] /\ UNCHANGED workerVars
        /\ \/ result[r] = "Completed" /\ Respond(r, "finish", full[r])
           \/ Respond(r, "error", <<>>)
    BY <1>2 DEF AnswerSync
  <2>2. ~WorkerAt(r)
    BY <1>0, <2>1 DEF HandlerStays, WorkerAt
  <2>3. PICK k \in 0 .. made[r], h \in 0 .. made[r], p \in 0 .. made[r] : Flow(r, k, h, p)
    BY DEF StreamInv, FlowInv
  <2>4. seen[r] = <<>>
    <3>1. Block(0, 0) = <<>>
      BY BlockNone, ServingAssumption DEF Counts
    <3> QED  BY <2>1, <2>3, <3>1 DEF Flow
  <2>5. "error" \in MarkSet /\ "finish" \in MarkSet /\ <<>> \in Seq(Pieces)
    BY DEF MarkSet
  <2>6. CASE result[r] = "Completed" /\ Respond(r, "finish", full[r])
    <3>1. pending[r] = <<>>
      BY <1>0, <2>1, <2>6 DEF EndInv
    <3>2. p = made[r]
      <4>1. Block(p, made[r]) = <<>>
        BY <2>3, <3>1 DEF Flow
      <4>2. p \in Counts /\ made[r] \in Counts /\ p <= made[r]
        BY FlowCounts
      <4> QED  BY <4>1, <4>2, BlockNone
    <3>3. full[r] = Block(0, made[r]) /\ full[r] \in Seq(Pieces)
      BY <2>1, <2>3, <3>2, FlowCounts DEF Flow
    <3>4. "finish" # "error"
      OBVIOUS
    <3> QED  BY <2>1, <2>2, <2>5, <2>6, <3>3, <3>4, RespondImplements
  <2>7. CASE Respond(r, "error", <<>>)
    BY <2>1, <2>2, <2>4, <2>5, <2>7, RespondImplements
  <2> QED  BY <2>1, <2>6, <2>7
<1> QED  BY <1>1, <1>2

\* The last events of a stream: what comes first tells how it ended.
LEMMA MarkImplements ==
    ASSUME Typed, NEW r \in Requests, StreamInv(r), WriteMark(r)
    PROVE  Implements(r)
<1>0. /\ PlaceInv(r) /\ EndInv(r) /\ HandlerStays(r) /\ pc \in [Requests -> PcValues]
      /\ marks[r] \in Seq(MarkSet)
  BY FlowCounts DEF StreamInv, Typed, IInv, RequestInv, RequestTypes
<1>1. PICK mark \in MarkSet : mark = Closing(r).mark
  BY DEF Closing, MarkSet
<1>2. /\ pc[r] \in {"verdict", "usage", "marker"}
      /\ marks'[r] = Append(marks[r], mark) /\ UNCHANGED <<kind, wpc, made, seen, torn>>
  BY <1>1 DEF WriteMark, workerVars, Typed, DataTypes, ClientTypes
<1>3. PICK k \in 0 .. made[r], h \in 0 .. made[r], p \in 0 .. made[r] : Flow(r, k, h, p)
  BY DEF StreamInv, FlowInv
<1>4. marks'[r] # <<>> /\ Head(marks'[r]) = IF marks[r] = <<>> THEN mark ELSE Head(marks[r])
  <2>1. PICK w : w = Append(marks[r], mark)
    OBVIOUS
  <2>2. w # <<>> /\ Head(w) = IF marks[r] = <<>> THEN mark ELSE Head(marks[r])
    BY <1>0, <2>1, HeadTailAppend
  <2> QED  BY <1>2, <2>1, <2>2
<1>5. StreamInv(r)' /\ pc'[r] \in {"usage", "marker", "closing"}
  <2>1. CASE pc[r] = "marker"
    <3>1. Closing(r).next = "closing"
      BY <2>1 DEF Closing
    <3>2. Return(r) /\ pc'[r] = "closing"
      BY <1>0, <3>1 DEF WriteMark, Return, Goto
    <3>3. ~WorkerAt(r)
      BY <1>0, <2>1 DEF PlaceInv, HandlerStays, Http
    <3>4. seen'[r] = Block(0, k)
      BY <1>2, <1>3 DEF Flow
    <3>5. StreamInv(r)'
      BY <1>2, <2>1, <3>2, <3>3, <3>4, ReturnStream
    <3> QED  BY <3>2, <3>5
  <2>2. CASE pc[r] \in {"verdict", "usage"}
    <3>1. Closing(r).next \in {"usage", "marker"} /\ Closing(r).next # "closing"
      BY <2>2 DEF Closing
    <3>2. pc'[r] \in {"usage", "marker"} /\ UNCHANGED <<channelVars, hand>>
      BY <1>0, <3>1 DEF WriteMark, Goto
    <3>3. PlaceInv(r)'
      BY <1>0, <1>2, <2>2, <3>2 DEF PlaceInv, Http, WorkerAt
    <3>4. hand'[r] = <<>>
      BY <1>3, <2>2, <3>2 DEF Flow
    <3>5. StreamInv(r)'
      BY <1>2, <1>4, <2>2, <3>2, <3>3, <3>4, QuietStream
    <3> QED  BY <3>2, <3>5
  <2> QED  BY <1>2, <2>1, <2>2
<1>6. CASE marks[r] # <<>>
  <2>1. Verdict(r)' = Verdict(r)
    BY <1>2, <1>4, <1>5, <1>6 DEF Verdict
  <2> QED  BY <1>2, <1>5, <2>1 DEF Implements, Abstracts
<1>7. CASE marks[r] = <<>>
  <2>1. pc[r] = "verdict" /\ finished[r] /\ queue[r] = <<>>
    BY <1>0, <1>2, <1>7 DEF EndInv, PlaceInv
  <2>2. mark = IF result[r] = "Failed" THEN "error" ELSE "finish"
    BY <1>1, <2>1 DEF Closing
  <2>3. Verdict(r) = "open" /\ Verdict(r)' = IF mark = "error" THEN "failed" ELSE "complete"
    BY <1>2, <1>4, <1>5, <1>7, <2>1 DEF Verdict
  <2>4. CASE mark = "error"
    BY <1>2, <1>5, <2>3, <2>4 DEF Implements, Abstracts
  <2>5. CASE mark # "error"
    <3>1. pending[r] = <<>>
      BY <1>0, <2>1, <2>2, <2>5 DEF EndInv
    <3>2. p = made[r] /\ h = p /\ k = h
      <4>1. Block(p, made[r]) = <<>> /\ Chain(<<>>, h, p) /\ k = h
        BY <1>3, <2>1, <3>1 DEF Flow
      <4>2. p \in Counts /\ made[r] \in Counts /\ p <= made[r] /\ <<>> \in Seq(Events)
        BY FlowCounts
      <4> QED  BY <4>1, <4>2, BlockNone, ChainEnds
    <3>3. seen' = [seen EXCEPT ![r] = Block(0, made[r])]
      <4>1. seen[r] = Block(0, made[r])
        BY <1>3, <3>2 DEF Flow
      <4> QED  BY <1>2, <4>1 DEF Typed, DataTypes, ClientTypes
    <3> QED  BY <1>2, <1>5, <2>3, <2>5, <3>3 DEF Implements, Abstracts
  <2> QED  BY <2>4, <2>5
<1> QED  BY <1>6, <1>7

\* The request is forgotten.
LEMMA OverImplements ==
    ASSUME Typed, NEW r \in Requests, StreamInv(r), Over(r)
    PROVE  Implements(r)
<1>0. PlaceInv(r) /\ EndInv(r) /\ HandlerStays(r)
  BY DEF StreamInv, Typed, IInv, RequestInv
<1>1. /\ pc[r] \in {"closing", "lost"}
      /\ pc[r] = "lost" => wpc[r] = "gone"
      /\ pc'[r] = "done" /\ UNCHANGED <<kind, wpc, hand>>
      /\ made'[r] = 0 /\ seen'[r] = <<>> /\ marks'[r] = <<>>
      /\ pending'[r] = <<>> /\ queue'[r] = <<>> /\ full'[r] = <<>> /\ finished'[r] = FALSE
  BY DEF Over, Goto, DropChannel, Typed, DataTypes, ChannelTypes, ClientTypes, IInv,
         RequestInv, RequestTypes
<1>2. ~WorkerAt(r)
  BY <1>0, <1>1 DEF PlaceInv, HandlerStays, WorkerAt
<1>3. PICK k \in 0 .. made[r], h \in 0 .. made[r], p \in 0 .. made[r] : Flow(r, k, h, p)
  BY DEF StreamInv, FlowInv
<1>4. Block(0, 0) = <<>> /\ Chain(<<>>, 0, 0)
  BY BlockNone, ChainNone, ServingAssumption DEF Counts
<1>5. Flow(r, 0, 0, 0)'
  BY <1>1, <1>3, <1>4 DEF Flow
<1>6. FlowInv(r)'
  BY <1>1, <1>5 DEF FlowInv
<1>7. PlaceInv(r)'
  BY <1>1, <1>2 DEF PlaceInv, Http, WorkerAt
<1>8. EndInv(r)'
  <2>1. wpc'[r] # "posting" /\ Len(queue'[r]) = 0
    BY <1>1, <1>2 DEF WorkerAt
  <2> QED  BY <1>1, <2>1 DEF EndInv
<1>9. Verdict(r) # "open" /\ Verdict(r)' = "over"
  BY <1>1 DEF Verdict
<1>10. /\ made' = [made EXCEPT ![r] = 0] /\ seen' = [seen EXCEPT ![r] = <<>>]
       /\ torn' = [torn EXCEPT ![r] = {}]
  BY DEF Over
<1> QED  BY <1>6, <1>7, <1>8, <1>9, <1>10 DEF Implements, StreamInv, Abstracts

LEMMA CountsLess ==
    ASSUME NEW h \in Counts, NEW m \in Counts, h <= m
    PROVE  /\ m - h \in Nat
           /\ m - h # 0 => /\ m - h \in 1 .. m - h /\ h + (m - h) = m
                           /\ m \in h + 1 .. m
<1>1. h \in Nat /\ m \in Nat
  BY ServingAssumption DEF Counts
<1> QED  BY <1>1

\* What comes apart is the character at the end of a batch of the UI.
LEMMA HalvedTorn ==
    ASSUME Typed, NEW r \in Requests, StreamInv(r), Callback(r), Head(queue[r]).mark = "",
           NEW h \in 0 .. made[r], NEW m \in 0 .. made[r], h <= m,
           Head(queue[r]).text = Block(h, m)
    PROVE  TornBy(r, h, m)
<1>1. PICK text : text = Head(queue[r]).text
  OBVIOUS
<1>2. torn' = [torn EXCEPT ![r] = torn[r] \cup Halved(r, text)]
  BY <1>1 DEF Callback
<1>3. ~Http(r)
  BY DEF Callback, StreamInv, PlaceInv, Http
<1>4. h \in Counts /\ m \in Counts
  BY FlowCounts
<1>5. text \in Seq(Pieces) /\ Len(text) = m - h /\ \A i \in 1 .. m - h : text[i] = h + i
  BY <1>1, <1>4, BlockType
<1>6. Halved(r, text) \subseteq Fragile(r) \cap (h + 1 .. m)
  <2>1. CASE EndsInside(r, text)
    <3>0. text # <<>> /\ text[Len(text)] \in Split[r]
      BY <2>1 DEF EndsInside
    <3>1. Len(text) # 0
      BY <1>5, <3>0, LastPiece
    <3>2. text[Len(text)] = m /\ m \in h + 1 .. m
      <4>1. m - h \in 1 .. m - h /\ h + (m - h) = m /\ m \in h + 1 .. m
        BY <1>4, <1>5, <3>1, CountsLess
      <4>2. text[m - h] = h + (m - h)
        BY <1>5, <4>1
      <4> QED  BY <1>5, <4>1, <4>2
    <3> QED  BY <1>3, <2>1, <3>0, <3>2 DEF Halved, Fragile
  <2>2. CASE ~EndsInside(r, text)
    BY <2>2 DEF Halved
  <2> QED  BY <2>1, <2>2
<1> QED  BY <1>2, <1>6 DEF TornBy

\* The UI thread comes to the next event.
LEMMA CallbackImplements ==
    ASSUME Typed, NEW r \in Requests, StreamInv(r), Callback(r)
    PROVE  Implements(r)
<1>0. PlaceInv(r) /\ EndInv(r) /\ marks[r] = <<>>
  BY DEF StreamInv, EndInv, Callback
<1>1. pc[r] = "listening" /\ queue[r] # <<>> /\ UNCHANGED workerVars
  BY DEF Callback
<1>2. PICK k \in 0 .. made[r], h \in 0 .. made[r], p \in 0 .. made[r] : Flow(r, k, h, p)
  BY DEF StreamInv, FlowInv
<1>3. PICK m \in 0 .. made[r] :
          /\ h <= m /\ m <= p /\ Head(queue[r]).text = Block(h, m)
          /\ Chain(Tail(queue[r]), m, p)
          /\ Head(queue[r]).mark # "" =>
                 /\ m = h /\ p = made[r] /\ h = p /\ wpc[r] = "gone"
          /\ \A i \in 1 .. Len(Tail(queue[r])) : Tail(queue[r])[i].mark # "" =>
                 /\ i = Len(Tail(queue[r])) /\ wpc[r] = "gone"
                 /\ pending[r] = <<>> /\ Tail(queue[r])[i].text = <<>>
  BY <1>0, <1>1, <1>2, NextText
<1>4. k = h /\ seen[r] = Block(0, h) /\ hand[r] = <<>>
  BY <1>1, <1>2 DEF Flow
<1>5. CASE Head(queue[r]).mark = ""
  <2>1. /\ seen' = [seen EXCEPT ![r] = seen[r] \o Head(queue[r]).text]
        /\ queue' = [queue EXCEPT ![r] = Tail(queue[r])]
        /\ UNCHANGED <<kind, wpc, made, pending, full, finished, result, pc, hand, marks>>
    BY <1>5 DEF Callback, workerVars
  <2>2. seen[r] \o Head(queue[r]).text = Block(0, m)
    BY <1>3, <1>4, WrittenText
  <2>3. seen' = [seen EXCEPT ![r] = Block(0, m)] /\ seen'[r] = Block(0, m)
        /\ queue'[r] = Tail(queue[r])
    BY <2>1, <2>2 DEF Typed, DataTypes, ChannelTypes, ClientTypes
  <2>4. Verdict(r) = "open" /\ Verdict(r)' = "open"
    BY <1>0, <1>1, <2>1 DEF Verdict
  <2>a. TornBy(r, h, m)
    BY <1>1, <1>3, <1>5, HalvedTorn
  <2>5. Abstracts(r)
    BY <1>3, <1>4, <2>1, <2>3, <2>4, <2>a, DeliverAbstracts
  <2>6. m <= m
    OBVIOUS
  <2>7. Flow(r, m, m, p)'
    BY <1>1, <1>2, <1>3, <1>4, <2>1, <2>3, <2>6 DEF Flow
  <2>8. FlowInv(r)'
    BY <2>1, <2>7 DEF FlowInv
  <2>9. PlaceInv(r)'
    BY <1>0, <1>1, <2>1 DEF PlaceInv, Http, WorkerAt
  <2>10. EndInv(r)'
    BY <1>0, <1>1, <1>3, <2>1, <2>3 DEF EndInv, Http
  <2> QED  BY <2>5, <2>8, <2>9, <2>10 DEF Implements, StreamInv
<1>6. CASE Head(queue[r]).mark # ""
  <2>1. Respond(r, Head(queue[r]).mark, seen[r])
    BY <1>6 DEF Callback
  <2>2. Head(queue[r]).mark \in MarkSet /\ seen[r] \in Seq(Pieces)
    <3>1. Head(queue[r]) \in Events
      BY <1>1, QueueEnds DEF Typed, DataTypes
    <3> QED  BY <1>6, <3>1, FlowCounts DEF Events
  <2>3. ~WorkerAt(r) /\ seen[r] = Block(0, made[r])
    BY <1>3, <1>4, <1>6 DEF WorkerAt
  <2>4. \/ Head(queue[r]).mark = "error" /\ seen[r] = seen[r]
        \/ Head(queue[r]).mark # "error" /\ seen[r] = Block(0, made[r])
    BY <2>3
  <2> QED  BY <1>1, <2>1, <2>2, <2>3, <2>4, RespondImplements
<1> QED  BY <1>5, <1>6

LEMMA WorkImplements ==
    ASSUME Typed, NEW r \in Requests, StreamInv(r), Work(r)
    PROVE  Implements(r)
<1>1. StreamInv(r)'
  BY WorkStream
<1>2. UNCHANGED <<pc, seen, torn, marks>> /\ Verdict(r)' = Verdict(r)
  BY DEF Work, Outside, Verdict
<1>3. CASE Emits(r, Told(r))
  <2>1. WorkerAt(r) /\ made[r] < MaxPieces /\ made' = [made EXCEPT ![r] = made[r] + 1]
    BY <1>3 DEF Emits, WorkerAt
  <2>2. pc[r] \in {"reading", "writing", "waiting", "abandoning", "lost", "listening"}
    BY <2>1, WorkerPlace
  <2>3. marks[r] = <<>>
    BY <2>2 DEF StreamInv, EndInv
  <2>4. Verdict(r) \notin {"complete", "over"}
    BY <2>2, <2>3 DEF Verdict
  <2> QED  BY <1>1, <1>2, <2>1, <2>4 DEF Implements, Abstracts
<1>4. CASE ~Emits(r, Told(r))
  <2>1. UNCHANGED made
    BY <1>4 DEF Work, Ends, Finishes, FinishFails, FlushesLast, PostsFinal, PostFails
  <2> QED  BY <1>1, <1>2, <2>1 DEF Implements, Abstracts
<1> QED  BY <1>3, <1>4

-----------------------------------------------------------------------------
\* A step of r is no step of another request.
LEMMA OthersSame ==
    ASSUME Typed, NEW r \in Requests, RequestStep(r), NEW q \in Requests, q # r
    PROVE  Same(q)
<1> USE DEF Goto, workerVars, channelVars
<1>0. /\ pc \in [Requests -> PcValues]
      /\ wpc \in [Requests -> {"none", "looping", "freed", "posting", "gone"}]
      /\ finished \in [Requests -> BOOLEAN] /\ ChannelTypes /\ ClientTypes
  BY DEF Typed, IInv, RequestInv, RequestTypes, DataTypes
<1> USE <1>0 DEF ChannelTypes, ClientTypes, Same
<1>1. ASSUME Return(r), UNCHANGED <<kind, wpc, made>>,
             \/ UNCHANGED <<seen, marks>>
             \/ \E mark, text : Respond(r, mark, text)
             \/ UNCHANGED seen /\ \E mark : marks' = [marks EXCEPT ![r] = Append(marks[r], mark)]
      PROVE  Same(q)
  BY <1>1 DEF Return, DropChannel, Respond
<1>2. CASE Arrive(r) \/ Generate(r) \/ EngineStops(r) \/ Acquire(r) \/ StartWorker(r)
           \/ TakeEnd(r)
  BY <1>2 DEF Arrive, Generate, EngineStops, Acquire, StartWorker, TakeEnd, At
<1>3. CASE Reject(r) \/ Refuse(r) \/ TimesOut(r) \/ ThreadFails(r) \/ Abandon(r)
           \/ MarkFails(r) \/ AnswerSync(r)
  <2>1. UNCHANGED <<kind, wpc, made>> /\ ((\E mark, text : Respond(r, mark, text)) \/ Leave(r))
    BY <1>3 DEF Reject, Refuse, TimesOut, ThreadFails, Abandon, MarkFails, AnswerSync,
                GetsNoSlot
  <2> QED  BY <1>1, <2>1 DEF Leave, Respond
<1>4. CASE TakeBatch(r) \/ WriteBatch(r) \/ WriteFails(r) \/ HandlerThrows(r)
  BY <1>4 DEF TakeBatch, WriteBatch, WriteFails, HandlerThrows
<1>5. CASE WriteMark(r)
  <2>1. CASE Return(r)
    BY <1>1, <1>5, <2>1 DEF WriteMark
  <2>2. CASE ~Return(r)
    BY <1>5, <2>2 DEF WriteMark
  <2> QED  BY <2>1, <2>2
<1>6. CASE Over(r)
  BY <1>6 DEF Over, DropChannel
<1>7. CASE Callback(r)
  <2>1. CASE Head(queue[r]).mark = ""
    BY <1>7, <2>1 DEF Callback
  <2>2. CASE Head(queue[r]).mark # ""
    <3>1. Respond(r, Head(queue[r]).mark, seen[r]) /\ UNCHANGED <<kind, wpc, made>>
      BY <1>7, <2>2 DEF Callback
    <3> QED  BY <1>1, <3>1 DEF Respond
  <2> QED  BY <2>1, <2>2
<1>8. CASE Work(r)
  <2>1. UNCHANGED <<pc, hand, seen, marks>>
    BY <1>8 DEF Work, Outside
  <2>2. ASSUME NEW text, Flush(r, text) \/ Keep(r, text)
        PROVE  pending'[q] = pending[q] /\ queue'[q] = queue[q] /\ full'[q] = full[q]
    BY <2>2 DEF Flush, Keep
  <2>3. CASE Emits(r, Told(r)) \/ Finishes(r) \/ FlushesLast(r)
    BY <2>1, <2>2, <2>3 DEF Emits, Finishes, FlushesLast, FinishFlushes, At
  <2>4. CASE Ends(r, Told(r)) \/ FinishFails(r) \/ PostsFinal(r) \/ PostFails(r)
    BY <2>1, <2>4 DEF Ends, FinishFails, PostsFinal, PostFails, At
  <2> QED  BY <1>8, <2>3, <2>4 DEF Work
<1> QED  BY <1>2, <1>3, <1>4, <1>5, <1>6, <1>7, <1>8
         DEF RequestStep, Handler, UiStep, GenerateGoesOn

LEMMA RequestImplements ==
    ASSUME Typed, NEW r \in Requests, StreamInv(r), RequestStep(r)
    PROVE  Implements(r)
<1>1. CASE Reject(r) \/ Refuse(r) \/ TimesOut(r) \/ ThreadFails(r)
  BY <1>1, DenialImplements
<1>2. CASE Arrive(r) \/ Acquire(r) \/ Generate(r) \/ StartWorker(r) \/ TakeEnd(r)
           \/ EngineStops(r)
  BY <1>2, PlaceImplements
<1>3. CASE TakeBatch(r) \/ WriteBatch(r) \/ WriteFails(r) \/ HandlerThrows(r)
  BY <1>3, WritingImplements
<1>4. CASE Abandon(r) \/ MarkFails(r) \/ AnswerSync(r)
  BY <1>4, EndingImplements
<1>5. CASE WriteMark(r)
  BY <1>5, MarkImplements
<1>6. CASE Over(r)
  BY <1>6, OverImplements
<1>7. CASE Callback(r)
  BY <1>7, CallbackImplements
<1>8. CASE Work(r)
  BY <1>8, WorkImplements
<1> QED  BY <1>1, <1>2, <1>3, <1>4, <1>5, <1>6, <1>7, <1>8
         DEF RequestStep, Handler, UiStep, GenerateGoesOn

\* The server's own steps touch no stream.
LEMMA ServerLeavesStreams ==
    ASSUME ServerStep \/ UNCHANGED vars, NEW q \in Requests
    PROVE  Same(q)
<1> USE DEF workerVars, channelVars, serverVars, requestVars
<1>1. UNCHANGED <<workerVars, channelVars, pc, hand, seen, marks>>
  BY DEF ServerStep, BeginStart, StartStep, Rejoin, Open, OpenFails, AcceptFails, Listener,
         BeginListening, StopsAccepting, Drained, ListenerEnds, BeginStop, StopStep, Close,
         Join, EndStop, vars
<1> QED  BY <1>1 DEF Same

LEMMA KindKept == ASSUME NEW r \in Requests, RequestStep(r) PROVE UNCHANGED kind
  BY DEF RequestStep, Arrive, Generate, EngineStops, Handler, UiStep, GenerateGoesOn, Reject,
         Acquire, Refuse, TimesOut, GetsNoSlot, StartWorker, ThreadFails, TakeBatch, WriteBatch,
         WriteFails, Abandon, HandlerThrows, TakeEnd, WriteMark, MarkFails, AnswerSync, Over,
         Callback, Work, Emits, Ends, Finishes, FinishFails, FlushesLast, PostsFinal, PostFails,
         workerVars

Streams == \A r \in Requests : StreamInv(r)

LEMMA StreamsNext ==
    ASSUME Typed, Streams, [Next]_vars
    PROVE  Streams' /\ [Delivery!Next]_(Delivery!vars)
<1>1. CASE ServerStep \/ UNCHANGED vars
  <2>1. \A q \in Requests : Same(q)
    BY <1>1, ServerLeavesStreams
  <2>2. Streams' /\ \A q \in Requests : Verdict(q)' = Verdict(q)
    BY <2>1, SameKeeps DEF Streams
  <2>3. UNCHANGED <<made, seen, torn, kind>>
    BY <1>1 DEF ServerStep, BeginStart, StartStep, Rejoin, Open, OpenFails, AcceptFails,
           Listener, BeginListening, StopsAccepting, Drained, ListenerEnds, BeginStop,
           StopStep, Close, Join, EndStop, vars, workerVars, requestVars
  <2>4. UNCHANGED [q \in Requests |-> Verdict(q)]
    BY <2>2
  <2>6. UNCHANGED [q \in Requests |-> Fragile(q)]
    BY <2>3 DEF Fragile, Http
  <2>5. UNCHANGED Delivery!vars
    BY <2>3, <2>4, <2>6 DEF Delivery!vars
  <2> QED  BY <2>2, <2>5
<1>2. ASSUME NEW r \in Requests, RequestStep(r)
      PROVE  Streams' /\ [Delivery!Next]_(Delivery!vars)
  <2>1. StreamInv(r)' /\ Abstracts(r)
    BY <1>2, RequestImplements DEF Streams, Implements
  <2>2. \A q \in Requests : q # r => StreamInv(q)' /\ Verdict(q)' = Verdict(q)
    BY <1>2, OthersSame, SameKeeps DEF Streams
  <2>3. Streams'
    BY <2>1, <2>2 DEF Streams
  <2>5. UNCHANGED kind
    BY <1>2, KindKept
  <2>4. [Delivery!Next]_(Delivery!vars)
    BY <2>1, <2>2, <2>5, AbstractStep
  <2> QED  BY <2>3, <2>4
<1> QED  BY <1>1, <1>2 DEF Next, ServerStep, RequestStep

\* Serving implements TokenStream: whatever the batches, the threads, the order
\* of their steps, the failures and the stops, the text a client has is a first
\* part of the text made, and one who is told that it is complete has all of it.
\* No character comes apart but in a call from the UI, where two pieces share it.
THEOREM AlwaysDeliversAll == Spec => DeliversAll
<1>1. Init => Delivery!Init
  <2> SUFFICES ASSUME Init PROVE Delivery!Init
    OBVIOUS
  <2>1. \A q \in Requests : Verdict(q) = "open"
    BY DEF Init, Verdict
  <2>2. [q \in Requests |-> Fragile(q)] \in [Requests -> SUBSET Nat]
    BY ServingAssumption DEF Fragile
  <2> QED  BY <2>1, <2>2 DEF Init, ChannelInit, Delivery!Init
<1>2. Init => Streams
  BY StreamInit DEF Streams
<1>3. Typed /\ Streams /\ [Next]_vars => Streams' /\ [Delivery!Next]_(Delivery!vars)
  BY StreamsNext
<1>4. IInv /\ DataTypes <=> Typed
  BY DEF Typed
<1> QED  BY <1>1, <1>2, <1>3, <1>4, AlwaysIInv, TypesInit, TypesNext, PTL
         DEF Spec, DeliversAll, Delivery!Spec
=============================================================================
