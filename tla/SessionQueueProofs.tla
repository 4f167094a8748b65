------------------------- MODULE SessionQueueProofs -------------------------
(***************************************************************************)
(* Theorems about SessionQueue for every number of sessions, slots,        *)
(* messages, loads and unloads.                                            *)
(***************************************************************************)
EXTENDS SessionQueue, FiniteSetTheorems, TLAPS

-----------------------------------------------------------------------------
(***************************************************************************)
(* The model and the retry timer.                                          *)
(***************************************************************************)
ModelTypes ==
    /\ loaded \in BOOLEAN /\ loading \in BOOLEAN
    /\ config \in Nat /\ loads \in Nat

\* The task pool works exactly while the service waits for it, and what it
\* returns is what the engine has.
TaskInv ==
    /\ loading <=> task # "none"
    /\ task = "started" /\ loaded => slots = limit
    /\ task = "rejected" /\ kind = "unload" /\ loaded => slots = limit
    /\ task = "done" /\ kind = "load" => slots = next_limit

ModelInv == ModelTypes /\ TaskInv /\ EngineAgrees /\ RetryIsCurrent

LEMMA ModelInit == Init => ModelInv
<1> SUFFICES ASSUME Init PROVE ModelInv
  OBVIOUS
<1>1. loaded = FALSE /\ loading = FALSE /\ task = "none" /\ config = 0 /\ loads = 0
  BY DEF Init
<1>2. ModelTypes
  BY <1>1 DEF ModelTypes
<1>3. TaskInv
  BY <1>1 DEF TaskInv
<1>4. EngineAgrees
  BY <1>1 DEF EngineAgrees
<1>5. RetryIsCurrent
  BY DEF Init, RetryIsCurrent
<1> QED  BY <1>2, <1>3, <1>4, <1>5 DEF ModelInv

\* dequeueNext sets the timer only under a model that is ready.
LEMMA ModelDequeue == ModelInv /\ Dequeue => ModelInv'
<1> SUFFICES ASSUME ModelInv, Dequeue PROVE ModelInv'
  OBVIOUS
<1> USE DEF ModelInv, ModelTypes, TaskInv, EngineAgrees, RetryIsCurrent
<1>1. UNCHANGED <<modelVars, taskVars, loads>>
  BY DEF Dequeue, DequeueReturns, StartAccepted, StartRefused, StartFails
<1>2. timer' = timer \/ (loaded /\ ~loading /\ timer' = config)
  BY DEF Dequeue, DequeueReturns, StartAccepted, StartRefused, StartFails,
         Starting, MayDequeue
<1> QED  BY <1>1, <1>2 DEF modelVars, taskVars

\* The steps of a load and an unload.
LEMMA ModelTask ==
    ASSUME ModelInv, \/ \E p \in Parallels : LoadModel(p)
                     \/ Unload \/ TaskRejected \/ TaskStep \/ TaskSettles
    PROVE  ModelInv'
<1> USE DEF ModelInv, ModelTypes, TaskInv, EngineAgrees, RetryIsCurrent, NoTimer,
            modelVars, taskVars, queueVars
<1>1. ASSUME NEW p \in Parallels, LoadModel(p) PROVE ModelInv'
  BY <1>1 DEF LoadModel, CancelQueued, CancelTimer
<1>2. CASE Unload
  BY <1>2 DEF Unload, CancelQueued, CancelTimer
<1>3. CASE TaskRejected
  BY <1>3 DEF TaskRejected
<1>4. CASE TaskStep
  BY <1>4 DEF TaskStep, TaskStopsAll, TaskFrees, TaskEnds
<1>5. CASE TaskSettles
  <2>1. CASE kind = "load" /\ task = "done" /\ LoadSucceeds
    BY <1>5, <2>1 DEF TaskSettles, LoadSucceeds
  <2>2. CASE NoModel
    BY <1>5, <2>2 DEF TaskSettles, NoModel
  <2>3. CASE kind = "unload" /\ task = "rejected" /\ UNCHANGED <<loaded, config, limit>>
    BY <1>5, <2>3 DEF TaskSettles
  <2> QED  BY <1>5, <2>1, <2>2, <2>3 DEF TaskSettles, LoadFails
<1> QED  BY <1>1, <1>2, <1>3, <1>4, <1>5

LEMMA ModelStep == ModelInv /\ [Next]_vars => ModelInv'
<1> SUFFICES ASSUME ModelInv, [Next]_vars PROVE ModelInv'
  OBVIOUS
<1>1. ASSUME UNCHANGED <<modelVars, taskVars, loads>>, timer' \in {timer, NoTimer}
      PROVE  ModelInv'
  BY <1>1 DEF ModelInv, ModelTypes, TaskInv, EngineAgrees, RetryIsCurrent,
              modelVars, taskVars
<1>2. CASE Dequeue
  BY <1>2, ModelDequeue
<1>3. CASE \/ \E p \in Parallels : LoadModel(p)
           \/ Unload \/ TaskRejected \/ TaskStep \/ TaskSettles
  BY <1>3, ModelTask
<1>4. CASE RetryFires
  BY <1>1, <1>4 DEF RetryFires
<1>5. ASSUME NEW s \in Ids,
             \/ NewSession(s) \/ Generate(s)
             \/ StopQueued(s) \/ StopRunning(s) \/ DeleteSession(s)
      PROVE  ModelInv'
  BY <1>1, <1>5 DEF NewSession, Generate, StopQueued, StopRunning, DeleteSession,
                    queueVars
<1>6. ASSUME NEW n \in native,
             WorkerEnds(n) \/ \E end \in FinalStatuses : HandleFinal(n, end)
      PROVE  ModelInv'
  BY <1>1, <1>6 DEF WorkerEnds, HandleFinal, queueVars
<1>7. CASE UNCHANGED vars
  BY <1>1, <1>7 DEF vars, queueVars
<1> QED  BY <1>2, <1>3, <1>4, <1>5, <1>6, <1>7 DEF Next

LEMMA ModelAlways == Spec => []ModelInv
<1> QED  BY ModelInit, ModelStep, PTL DEF Spec

\* Whenever the service holds a model for ready, the engine has it, idle and
\* with as many slots as the service counts on.
THEOREM EngineAlwaysAgrees == Spec => []EngineAgrees
<1>1. ModelInv => EngineAgrees
  BY DEF ModelInv
<1> QED  BY <1>1, ModelAlways, PTL

\* The retry timer never survives the model it was set under.
THEOREM RetryStaysCurrent == Spec => []RetryIsCurrent
<1>1. ModelInv => RetryIsCurrent
  BY DEF ModelInv
<1> QED  BY <1>1, ModelAlways, PTL

-----------------------------------------------------------------------------
(***************************************************************************)
(* Sessions and the requests of the engine.                                *)
(***************************************************************************)
NativeType == [id : Nat, of : Ids, works : BOOLEAN, stop : BOOLEAN]

SessionTypes ==
    /\ sessions \subseteq Ids /\ fresh \subseteq Ids
    /\ status \in [Ids -> Statuses] /\ request \in [Ids -> Nat]
    /\ native \subseteq NativeType /\ begun \in Nat

\* An id that was not given out has no past.
FreshInv ==
    \A s \in fresh : /\ s \notin sessions /\ status[s] = "idle" /\ request[s] = 0
                     /\ \A n \in native : n.of # s

\* Request ids are given out once.
IdsInv ==
    /\ \A n \in native : n.id > 0 /\ n.id <= begun
    /\ \A n, m \in native : n.id = m.id => n = m

RequestInv ==
    SessionTypes /\ FreshInv /\ IdsInv /\ RunningHasRequest /\ DeletedAreStopped

LEMMA RequestInit == Init => RequestInv
  BY DEF Init, RequestInv, SessionTypes, FreshInv, IdsInv, RunningHasRequest,
         RequestIfRunning, RunningIsAwaited, NativeIsCurrent, DeletedAreStopped,
         Running, Statuses

\* Statuses other than "running" may change while requests stay.
LEMMA OtherStatus ==
    ASSUME RequestInv, UNCHANGED <<sessions, fresh, request, native, begun>>,
           status' \in [Ids -> Statuses],
           \A s \in Ids : status'[s] = "running" <=> status[s] = "running",
           \A s \in Ids \ sessions : status'[s] = status[s]
    PROVE  RequestInv'
<1> USE DEF RequestInv, SessionTypes
<1>1. FreshInv'
  BY DEF FreshInv
<1>2. IdsInv'
  BY DEF IdsInv
<1>3. RunningHasRequest'
  BY DEF RunningHasRequest, RequestIfRunning, RunningIsAwaited, NativeIsCurrent, Running
<1>4. DeletedAreStopped'
  BY DEF DeletedAreStopped
<1> QED  BY <1>1, <1>2, <1>3, <1>4

LEMMA ToldRecord ==
    ASSUME NEW n \in NativeType
    PROVE  /\ Told(n) \in NativeType
           /\ Told(n).id = n.id /\ Told(n).of = n.of
           /\ Told(n).works = n.works /\ (n.stop => Told(n).stop)
           /\ Told(n).works => Told(n).stop
  BY DEF Told, NativeType

\* A stop changes stop flags and nothing else.
LEMMA StopsKeep ==
    ASSUME RequestInv, NEW hit,
           native' = {IF n \in hit THEN Told(n) ELSE n : n \in native},
           UNCHANGED <<sessions, fresh, status, request, begun>>
    PROVE  RequestInv'
<1> USE DEF RequestInv, SessionTypes
<1> DEFINE told(n) == IF n \in hit THEN Told(n) ELSE n
<1>1. \A n \in native : /\ told(n) \in NativeType
                        /\ told(n).id = n.id /\ told(n).of = n.of
                        /\ told(n).works = n.works /\ (n.stop => told(n).stop)
  BY ToldRecord
<1>2. native' = {told(n) : n \in native}
  OBVIOUS
<1> HIDE DEF told
<1>3. SessionTypes'
  BY <1>1, <1>2
<1>4. FreshInv'
  BY <1>1, <1>2 DEF FreshInv
<1>5. IdsInv'
  BY <1>1, <1>2 DEF IdsInv
<1>6. RunningHasRequest'
  <2>1. RequestIfRunning'
    BY DEF RunningHasRequest, RequestIfRunning
  <2>2. ASSUME NEW s \in Running PROVE \E m \in native' : m.of = s /\ m.id = request[s]
    <3>1. PICK n \in native : n.of = s /\ n.id = request[s]
      BY DEF RunningHasRequest, RunningIsAwaited
    <3>2. told(n) \in native'
      BY <1>2
    <3> QED  BY <1>1, <3>1, <3>2
  <2>3. NativeIsCurrent'
    BY <1>1, <1>2 DEF RunningHasRequest, NativeIsCurrent
  <2> QED  BY <2>1, <2>2, <2>3 DEF RunningHasRequest, RunningIsAwaited, Running
<1>7. ASSUME NEW m \in native', m.of \notin sessions' PROVE m.stop \/ ~m.works
  <2>1. PICK n \in native : m = told(n)
    BY <1>2
  <2>2. m.of = n.of /\ m.works = n.works /\ (n.stop => m.stop)
    BY <1>1, <2>1
  <2>3. n.stop \/ ~n.works
    BY <1>7, <2>2 DEF DeletedAreStopped
  <2> QED  BY <2>2, <2>3, Zenon
<1> QED  BY <1>3, <1>4, <1>5, <1>6, <1>7 DEF DeletedAreStopped

LEMMA FirstIsQueued ==
    ASSUME NEW s \in FirstQueued
    PROVE  s \in sessions /\ status[s] = "queued"
  BY DEF FirstQueued, IsQueued

\* No request of the engine belongs to a session that waits or rests.
LEMMA RestingHasNone ==
    ASSUME RequestInv, NEW s \in sessions, status[s] # "running"
    PROVE  request[s] = 0 /\ \A n \in native : n.of # s
  BY DEF RequestInv, SessionTypes, NativeType, IdsInv, RunningHasRequest,
         RequestIfRunning, NativeIsCurrent

\* A session that rests gets another status and request 0.
LEMMA StillRests ==
    ASSUME RequestInv, NEW s \in sessions, status[s] # "running",
           NEW new \in Statuses \ {"running"}, SetStatus(s, new),
           UNCHANGED <<sessions, fresh, native, begun>>,
           SetRequest(s, 0) \/ UNCHANGED request
    PROVE  RequestInv'
<1>1. request' = request
  BY RestingHasNone DEF SetRequest, RequestInv, SessionTypes
<1> QED  BY <1>1, OtherStatus DEF SetStatus, RequestInv, SessionTypes

\* The start of a session that waits: the engine gives out the next id.
LEMMA RequestStart ==
    ASSUME RequestInv, NEW s \in Ids, StartAccepted(s)
    PROVE  RequestInv'
<1> USE DEF RequestInv, SessionTypes
<1> DEFINE new == Native(begun + 1, s)
<1>1. s \in sessions /\ status[s] = "queued"
  BY FirstIsQueued DEF StartAccepted, Starting
<1>2. request[s] = 0 /\ \A n \in native : n.of # s
  BY <1>1, RestingHasNone
<1>3. /\ new \in NativeType /\ new.id = begun + 1 /\ new.of = s
      /\ new.id \notin {n.id : n \in native}
  BY DEF Native, NativeType, IdsInv
<1>4. /\ native' = native \cup {new} /\ begun' = begun + 1
      /\ status' = [status EXCEPT ![s] = "running"]
      /\ request' = [request EXCEPT ![s] = begun + 1]
      /\ UNCHANGED <<sessions, fresh>>
  BY DEF StartAccepted, SetStatus, SetRequest
<1> HIDE DEF new
<1>5. SessionTypes'
  BY <1>3, <1>4 DEF Statuses
<1>6. FreshInv'
  BY <1>1, <1>3, <1>4 DEF FreshInv
<1>7. IdsInv'
  BY <1>3, <1>4 DEF IdsInv, NativeType
<1>8. RunningHasRequest'
  <2>1. RequestIfRunning'
    BY <1>4 DEF RunningHasRequest, RequestIfRunning
  <2>2. RunningIsAwaited'
    BY <1>3, <1>4 DEF RunningHasRequest, RunningIsAwaited, Running
  <2>3. NativeIsCurrent'
    BY <1>2, <1>3, <1>4 DEF RunningHasRequest, NativeIsCurrent, NativeType
  <2> QED  BY <2>1, <2>2, <2>3 DEF RunningHasRequest
<1>9. DeletedAreStopped'
  BY <1>1, <1>3, <1>4 DEF DeletedAreStopped
<1> QED  BY <1>5, <1>6, <1>7, <1>8, <1>9

LEMMA RequestDequeue == RequestInv /\ Dequeue => RequestInv'
<1> SUFFICES ASSUME RequestInv, Dequeue PROVE RequestInv'
  OBVIOUS
<1>1. CASE DequeueReturns
  BY <1>1, OtherStatus DEF DequeueReturns, sessionVars, nativeVars, RequestInv, SessionTypes
<1>2. ASSUME NEW s \in Ids, StartAccepted(s) PROVE RequestInv'
  BY <1>2, RequestStart
<1>3. ASSUME NEW s \in Ids, StartRefused(s) PROVE RequestInv'
  <2>1. s \in sessions /\ status[s] = "queued"
    BY <1>3, FirstIsQueued DEF StartRefused, Starting
  <2> QED  BY <1>3, <2>1, StillRests DEF StartRefused, RefusedStatus, nativeVars, Statuses
<1>4. ASSUME NEW s \in Ids, StartFails(s) PROVE RequestInv'
  <2>1. s \in sessions /\ status[s] = "queued"
    BY <1>4, FirstIsQueued DEF StartFails, Starting
  <2> QED  BY <1>4, <2>1, StillRests DEF StartFails, nativeVars, Statuses
<1> QED  BY <1>1, <1>2, <1>3, <1>4 DEF Dequeue

\* A final event ends the one request of its session.
LEMMA RequestFinal ==
    ASSUME RequestInv, NEW n \in native, NEW end \in FinalStatuses, HandleFinal(n, end)
    PROVE  RequestInv'
<1> USE DEF RequestInv, SessionTypes
<1>1. n \in NativeType /\ native' = native \ {n} /\ UNCHANGED <<sessions, fresh, begun>>
  BY DEF HandleFinal
<1>2. end \in Statuses \ {"running"}
  BY DEF FinalStatuses, Statuses
<1>3. IdsInv'
  BY <1>1 DEF IdsInv
<1>4. DeletedAreStopped'
  BY <1>1 DEF DeletedAreStopped
<1>5. CASE n.of \notin sessions
  <2>1. UNCHANGED <<status, request>>
    BY <1>5 DEF HandleFinal
  <2>2. SessionTypes' /\ FreshInv'
    BY <1>1, <2>1 DEF FreshInv
  <2>3. RunningHasRequest'
    BY <1>1, <1>5, <2>1
    DEF RunningHasRequest, RequestIfRunning, RunningIsAwaited, NativeIsCurrent, Running
  <2> QED  BY <1>3, <1>4, <2>2, <2>3
<1>6. CASE n.of \in sessions
  <2>1. /\ status' = [status EXCEPT ![n.of] = end]
        /\ request' = [request EXCEPT ![n.of] = 0]
    BY <1>6 DEF HandleFinal, SetStatus, SetRequest
  <2>2. SessionTypes'
    BY <1>1, <1>2, <2>1
  <2>3. FreshInv'
    BY <1>1, <1>6, <2>1 DEF FreshInv
  <2>4. \A m \in native' : m.of # n.of
    BY <1>1, <1>6 DEF IdsInv, RunningHasRequest, NativeIsCurrent
  <2>5. RequestIfRunning'
    BY <1>1, <1>2, <2>1 DEF RunningHasRequest, RequestIfRunning
  <2>6. RunningIsAwaited'
    BY <1>1, <1>2, <2>1 DEF RunningHasRequest, RunningIsAwaited, Running
  <2>7. NativeIsCurrent'
    BY <1>1, <2>1, <2>4 DEF RunningHasRequest, NativeIsCurrent, NativeType
  <2> QED  BY <1>3, <1>4, <2>2, <2>3, <2>5, <2>6, <2>7 DEF RunningHasRequest
<1> QED  BY <1>5, <1>6

\* The worker of a request ends; the request itself stays.
LEMMA RequestWorker ==
    ASSUME RequestInv, NEW n \in native, WorkerEnds(n)
    PROVE  RequestInv'
<1> USE DEF RequestInv, SessionTypes
<1> DEFINE ended == [n EXCEPT !.works = FALSE]
<1>1. n \in NativeType /\ ended \in NativeType
      /\ ended.id = n.id /\ ended.of = n.of /\ ~ended.works
  BY DEF NativeType
<1>2. native' = (native \ {n}) \cup {ended}
      /\ UNCHANGED <<sessions, fresh, status, request, begun>>
  BY DEF WorkerEnds, sessionVars
<1> HIDE DEF ended
<1>3. SessionTypes' /\ FreshInv'
  BY <1>1, <1>2 DEF FreshInv
<1>4. IdsInv'
  BY <1>1, <1>2 DEF IdsInv
<1>5. RunningHasRequest'
  BY <1>1, <1>2
  DEF RunningHasRequest, RequestIfRunning, RunningIsAwaited, NativeIsCurrent, Running
<1>6. DeletedAreStopped'
  BY <1>1, <1>2 DEF DeletedAreStopped
<1> QED  BY <1>3, <1>4, <1>5, <1>6

\* A deletion stops the request of the session, if there is one.
LEMMA RequestDelete ==
    ASSUME RequestInv, NEW s \in Ids, DeleteSession(s)
    PROVE  RequestInv'
<1> USE DEF RequestInv, SessionTypes
<1> DEFINE hit == IF StopsNative(s) THEN {n \in native : n.id = request[s]} ELSE {}
           told(n) == IF n \in hit THEN Told(n) ELSE n
<1>1. /\ native' = {told(n) : n \in native}
      /\ sessions' = sessions \ {s} /\ UNCHANGED <<fresh, status, request, begun>>
  BY DEF DeleteSession, StopNative
<1>2. \A n \in native : /\ told(n) \in NativeType
                        /\ told(n).id = n.id /\ told(n).of = n.of
                        /\ told(n).works = n.works /\ (n.stop => told(n).stop)
                        /\ (n \in hit /\ told(n).works => told(n).stop)
  BY ToldRecord
<1>3. \A n \in native : n.of = s => n \in hit
  BY DEF IdsInv, RunningHasRequest, RequestIfRunning, NativeIsCurrent, StopsNative,
         DeleteSession, NativeType
<1> HIDE DEF told, hit
<1>4. SessionTypes' /\ FreshInv'
  BY <1>1, <1>2 DEF FreshInv
<1>5. IdsInv'
  BY <1>1, <1>2 DEF IdsInv
<1>6. RunningHasRequest'
  <2>1. RequestIfRunning'
    BY <1>1 DEF RunningHasRequest, RequestIfRunning
  <2>2. ASSUME NEW q \in Running PROVE \E m \in native' : m.of = q /\ m.id = request[q]
    <3>1. PICK n \in native : n.of = q /\ n.id = request[q]
      BY DEF RunningHasRequest, RunningIsAwaited
    <3>2. told(n) \in native'
      BY <1>1
    <3> QED  BY <1>2, <3>1, <3>2
  <2>3. NativeIsCurrent'
    BY <1>1, <1>2 DEF RunningHasRequest, NativeIsCurrent
  <2> QED  BY <1>1, <2>1, <2>2, <2>3 DEF RunningHasRequest, RunningIsAwaited, Running
<1>7. ASSUME NEW m \in native', m.of \notin sessions' PROVE m.stop \/ ~m.works
  <2>1. PICK n \in native : m = told(n)
    BY <1>1
  <2>2. /\ m.of = n.of /\ m.works = n.works /\ (n.stop => m.stop)
        /\ (n \in hit /\ m.works => m.stop)
    BY <1>2, <2>1
  <2>3. CASE n.of = s
    BY <1>3, <2>2, <2>3, Zenon
  <2>4. CASE n.of \notin sessions
    <3>1. n.stop \/ ~n.works
      BY <2>4 DEF DeletedAreStopped
    <3> QED  BY <2>2, <3>1, Zenon
  <2> QED  BY <1>1, <1>7, <2>2, <2>3, <2>4
<1> QED  BY <1>4, <1>5, <1>6, <1>7 DEF DeletedAreStopped

\* A new session starts without a past.
LEMMA RequestNew ==
    ASSUME RequestInv, NEW s \in Ids, NewSession(s)
    PROVE  RequestInv'
<1> USE DEF RequestInv, SessionTypes
<1>1. /\ s \in fresh /\ sessions' = sessions \cup {s} /\ fresh' = fresh \ {s}
      /\ UNCHANGED <<status, request, native, begun>>
  BY DEF NewSession, nativeVars
<1>2. s \notin sessions /\ status[s] = "idle" /\ request[s] = 0
      /\ \A n \in native : n.of # s
  BY <1>1 DEF FreshInv
<1>3. FreshInv'
  BY <1>1 DEF FreshInv
<1>4. IdsInv'
  BY <1>1 DEF IdsInv
<1>5. RunningHasRequest'
  BY <1>1, <1>2
  DEF RunningHasRequest, RequestIfRunning, RunningIsAwaited, NativeIsCurrent, Running
<1>6. DeletedAreStopped'
  BY <1>1 DEF DeletedAreStopped
<1> QED  BY <1>1, <1>3, <1>4, <1>5, <1>6

\* A retry starts nothing by itself: should the model have been switched, the
\* sessions it fails are waiting ones.
LEMMA RequestRetry == RequestInv /\ RetryFires => RequestInv'
<1> SUFFICES ASSUME RequestInv, RetryFires PROVE RequestInv'
  OBVIOUS
<1> USE DEF RequestInv, SessionTypes
<1>1. \A s \in Switched : s \in sessions /\ status[s] = "queued"
  BY FirstIsQueued DEF Switched
<1>2. request' = request
  BY <1>1, RestingHasNone DEF RetryFires
<1>3. status' \in [Ids -> Statuses]
  BY DEF RetryFires, Statuses
<1>4. \A s \in Ids : \/ s \in sessions /\ status[s] = "queued" /\ status'[s] = "failed"
                     \/ status'[s] = status[s]
  <2>1. status' = [s \in Ids |-> IF s \in Switched THEN "failed" ELSE status[s]]
    BY DEF RetryFires
  <2> TAKE s \in Ids
  <2>2. CASE s \in Switched
    BY <1>1, <2>1, <2>2
  <2>3. CASE s \notin Switched
    BY <2>1, <2>3
  <2> QED  BY <2>2, <2>3
<1> QED  BY <1>2, <1>3, <1>4, OtherStatus DEF RetryFires, nativeVars

\* cancelQueuedGenerations touches sessions that wait.
LEMMA RequestCancel ==
    ASSUME RequestInv, CancelQueued, UNCHANGED <<sessions, fresh, request, native, begun>>
    PROVE  RequestInv'
<1>1. status' \in [Ids -> Statuses]
  BY DEF CancelQueued, RequestInv, SessionTypes, Statuses
<1>2. \A s \in Ids : \/ status'[s] = status[s]
                     \/ s \in sessions /\ status[s] = "queued" /\ status'[s] = "idle"
  <2> TAKE s \in Ids
  <2> DEFINE was == IsQueued(s) /\ \E i \in DOMAIN queue : queue[i] = s
  <2>1. status'[s] = IF was THEN "idle" ELSE status[s]
    BY DEF CancelQueued
  <2>2. was => s \in sessions /\ status[s] = "queued"
    BY DEF IsQueued
  <2> HIDE DEF was
  <2> QED  BY <2>1, <2>2
<1> QED  BY <1>1, <1>2, OtherStatus

LEMMA RequestStep == RequestInv /\ [Next]_vars => RequestInv'
<1> SUFFICES ASSUME RequestInv, [Next]_vars PROVE RequestInv'
  OBVIOUS
<1>1. ASSUME UNCHANGED <<sessionVars, nativeVars>> PROVE RequestInv'
  BY <1>1, OtherStatus DEF sessionVars, nativeVars, RequestInv, SessionTypes
<1>2. CASE Dequeue
  BY <1>2, RequestDequeue
<1>3. CASE RetryFires
  BY <1>3, RequestRetry
<1>4. ASSUME NEW s \in Ids, NewSession(s) PROVE RequestInv'
  BY <1>4, RequestNew
<1>5. ASSUME NEW s \in Ids, Generate(s) PROVE RequestInv'
  BY <1>5, StillRests DEF Generate, nativeVars, Statuses
<1>6. ASSUME NEW s \in Ids, StopQueued(s) PROVE RequestInv'
  BY <1>6, StillRests DEF StopQueued, IsQueued, nativeVars, Statuses
<1>7. ASSUME NEW s \in Ids, StopRunning(s) PROVE RequestInv'
  <2> DEFINE hit == {n \in native : n.id = request[s]}
  <2>1. native' = {IF n \in hit THEN Told(n) ELSE n : n \in native}
    BY <1>7 DEF StopRunning, StopNative
  <2> QED  BY <1>7, <2>1, StopsKeep DEF StopRunning, sessionVars
<1>8. ASSUME NEW s \in Ids, DeleteSession(s) PROVE RequestInv'
  BY <1>8, RequestDelete
<1>9. ASSUME NEW n \in native, WorkerEnds(n) PROVE RequestInv'
  BY <1>9, RequestWorker
<1>10. ASSUME NEW n \in native, NEW end \in FinalStatuses, HandleFinal(n, end) PROVE RequestInv'
  BY <1>10, RequestFinal
<1>11. CASE (\E p \in Parallels : LoadModel(p)) \/ Unload
  BY <1>11, RequestCancel DEF LoadModel, Unload, nativeVars
<1>12. CASE TaskRejected \/ TaskFrees \/ TaskEnds \/ TaskSettles
  BY <1>1, <1>12 DEF TaskRejected, TaskFrees, TaskEnds, TaskSettles
<1>13. CASE TaskStopsAll
  <2>1. native' = {IF n \in native THEN Told(n) ELSE n : n \in native}
    BY <1>13 DEF TaskStopsAll
  <2> QED  BY <1>13, <2>1, StopsKeep DEF TaskStopsAll, sessionVars
<1>14. CASE UNCHANGED vars
  BY <1>1, <1>14 DEF vars
<1> QED
  BY <1>2, <1>3, <1>4, <1>5, <1>6, <1>7, <1>8, <1>9, <1>10, <1>11, <1>12, <1>13, <1>14
  DEF Next, TaskStep

LEMMA RequestAlways == Spec => []RequestInv
<1> QED  BY RequestInit, RequestStep, PTL DEF Spec

\* A session is shown as running exactly while the engine owes it the final
\* event of the one request that the session names.
THEOREM RunningAlwaysHasRequest == Spec => []RunningHasRequest
<1>1. RequestInv => RunningHasRequest
  BY DEF RequestInv
<1> QED  BY <1>1, RequestAlways, PTL

\* No request of a deleted session runs on without having been told to stop.
THEOREM DeletedAlwaysStopped == Spec => []DeletedAreStopped
<1>1. RequestInv => DeletedAreStopped
  BY DEF RequestInv
<1> QED  BY <1>1, RequestAlways, PTL

-----------------------------------------------------------------------------
(***************************************************************************)
(* The queue.                                                              *)
(***************************************************************************)
Distinct(q) == \A i, j \in DOMAIN q : q[i] = q[j] => i = j
Elements(q) == {q[i] : i \in DOMAIN q}

LEMMA CountTo ==
    ASSUME NEW n \in Nat
    PROVE  IsFiniteSet(1 .. n) /\ Cardinality(1 .. n) = n
  BY FS_Interval

LEMMA CountWithout ==
    ASSUME NEW n \in Nat, NEW p \in 1 .. n
    PROVE  Cardinality((1 .. n) \ {p}) = n - 1
  BY CountTo, FS_RemoveElement

\* Removing what is not there changes nothing.
LEMMA WithoutAbsent ==
    ASSUME queue \in Seq(Ids), NEW s, s \notin Elements(queue)
    PROVE  Without(s) = queue
<1> DEFINE n       == Len(queue)
           kept    == {i \in DOMAIN queue : queue[i] # s}
           Rank(i) == Cardinality({j \in kept : j <= i})
<1>1. n \in Nat /\ DOMAIN queue = 1 .. n /\ kept = 1 .. n
  BY DEF Elements
<1>2. ASSUME NEW i \in 1 .. n PROVE Rank(i) = i
  <2>1. {j \in kept : j <= i} = 1 .. i
    BY <1>1
  <2>2. Cardinality(1 .. i) = i
    BY FS_Interval
  <2> QED  BY <2>1, <2>2
<1>3. Cardinality(kept) = n
  <2>1. Cardinality(1 .. n) = n
    BY <1>1, CountTo
  <2> QED  BY <1>1, <2>1
<1>4. ASSUME NEW k \in 1 .. n PROVE (CHOOSE i \in kept : Rank(i) = k) = k
  <2> HIDE DEF kept, Rank
  <2>1. \A i \in kept : Rank(i) = k <=> i = k
    BY <1>1, <1>2
  <2> QED  BY <1>1, <2>1
<1>5. Without(s) = [k \in 1 .. n |-> queue[CHOOSE i \in kept : Rank(i) = k]]
  BY <1>3 DEF Without
<1> HIDE DEF kept, Rank
<1>6. Without(s) = [k \in 1 .. n |-> queue[k]]
  BY <1>4, <1>5
<1>7. queue = [k \in 1 .. n |-> queue[k]]
  BY <1>1
<1> QED  BY <1>6, <1>7

\* Removing what is there once closes the gap.
LEMMA WithoutPresent ==
    ASSUME queue \in Seq(Ids), Distinct(queue), NEW p \in DOMAIN queue
    PROVE  Without(queue[p]) =
               [k \in 1 .. Len(queue) - 1 |-> IF k < p THEN queue[k] ELSE queue[k + 1]]
<1> DEFINE n       == Len(queue)
           kept    == {i \in DOMAIN queue : queue[i] # queue[p]}
           Rank(i) == Cardinality({j \in kept : j <= i})
           At(k)   == IF k < p THEN k ELSE k + 1
<1>1. n \in Nat /\ DOMAIN queue = 1 .. n /\ p \in 1 .. n /\ kept = (1 .. n) \ {p}
  BY DEF Distinct
<1>2. ASSUME NEW i \in kept PROVE Rank(i) = IF i < p THEN i ELSE i - 1
  <2>1. Cardinality(1 .. i) = i /\ IsFiniteSet(1 .. i)
    BY <1>1, FS_Interval
  <2>2. CASE i < p
    <3>1. {j \in kept : j <= i} = 1 .. i
      BY <1>1, <2>2
    <3> QED  BY <2>1, <2>2, <3>1
  <2>3. CASE ~ (i < p)
    <3>1. {j \in kept : j <= i} = (1 .. i) \ {p} /\ p \in 1 .. i
      BY <1>1, <2>3
    <3>2. Cardinality((1 .. i) \ {p}) = i - 1
      BY <2>1, <3>1, FS_RemoveElement
    <3> QED  BY <2>3, <3>1, <3>2
  <2> QED  BY <2>2, <2>3
<1>3. Cardinality(kept) = n - 1
  <2>1. Cardinality((1 .. n) \ {p}) = n - 1
    BY <1>1, CountWithout
  <2> QED  BY <1>1, <2>1
<1>4. ASSUME NEW k \in 1 .. n - 1 PROVE (CHOOSE i \in kept : Rank(i) = k) = At(k)
  <2> HIDE DEF Rank
  <2>1. \A i \in kept : Rank(i) = k <=> i = At(k)
    BY <1>1, <1>2
  <2>2. At(k) \in kept
    BY <1>1
  <2> HIDE DEF kept, At
  <2> QED  BY <2>1, <2>2
<1>5. Without(queue[p]) = [k \in 1 .. n - 1 |-> queue[CHOOSE i \in kept : Rank(i) = k]]
  BY <1>3 DEF Without
<1> HIDE DEF kept, Rank
<1>6. Without(queue[p]) = [k \in 1 .. n - 1 |-> queue[At(k)]]
  BY <1>4, <1>5
<1> QED  BY <1>6

\* What is left is distinct, and all but the one that was removed.
LEMMA WithoutOne ==
    ASSUME queue \in Seq(Ids), Distinct(queue), NEW s
    PROVE  /\ Without(s) \in Seq(Ids) /\ Distinct(Without(s))
           /\ Elements(Without(s)) = Elements(queue) \ {s}
<1>1. CASE s \notin Elements(queue)
  BY <1>1, WithoutAbsent
<1>2. CASE s \in Elements(queue)
  <2>1. PICK p \in DOMAIN queue : s = queue[p]
    BY <1>2 DEF Elements
  <2> DEFINE rest == Without(s)
             n    == Len(queue)
  <2>2. rest = [k \in 1 .. n - 1 |-> IF k < p THEN queue[k] ELSE queue[k + 1]]
    BY <2>1, WithoutPresent
  <2>3. n \in Nat /\ n - 1 \in Nat /\ DOMAIN queue = 1 .. n /\ p \in 1 .. n
    BY <2>1
  <2> HIDE DEF rest, n
  <2>4. DOMAIN rest = 1 .. n - 1
    BY <2>2
  <2>5. \A k \in 1 .. n - 1 : /\ rest[k] \in Ids
                              /\ \E i \in 1 .. n : i # p /\ rest[k] = queue[i]
                                                   /\ i = IF k < p THEN k ELSE k + 1
    BY <2>2, <2>3
  <2>6. rest \in Seq(Ids)
    BY <2>2, <2>3, <2>5
  <2>7. Distinct(rest)
    <3> SUFFICES ASSUME NEW j \in 1 .. n - 1, NEW k \in 1 .. n - 1, rest[j] = rest[k]
                 PROVE  j = k
      BY <2>4 DEF Distinct
    <3>1. PICK a \in 1 .. n : rest[j] = queue[a] /\ a = IF j < p THEN j ELSE j + 1
      BY <2>5
    <3>2. PICK b \in 1 .. n : rest[k] = queue[b] /\ b = IF k < p THEN k ELSE k + 1
      BY <2>5
    <3>3. a = b
      BY <2>3, <3>1, <3>2 DEF Distinct
    <3> QED  BY <2>3, <3>1, <3>2, <3>3
  <2>8. Elements(rest) \subseteq Elements(queue) \ {s}
    BY <2>1, <2>3, <2>4, <2>5 DEF Elements, Distinct
  <2>9. ASSUME NEW i \in 1 .. n, queue[i] # s PROVE queue[i] \in Elements(rest)
    <3>1. CASE i < p
      <4>1. i \in 1 .. n - 1 /\ rest[i] = queue[i]
        BY <2>2, <2>3, <3>1
      <4> QED  BY <2>4, <4>1 DEF Elements
    <3>2. CASE i > p
      <4>1. i - 1 \in 1 .. n - 1 /\ rest[i - 1] = queue[i]
        BY <2>2, <2>3, <3>2
      <4> QED  BY <2>4, <4>1 DEF Elements
    <3> QED  BY <2>1, <2>3, <2>9, <3>1, <3>2
  <2>10. Elements(queue) \ {s} \subseteq Elements(rest)
    BY <2>3, <2>9 DEF Elements
  <2> QED  BY <2>6, <2>7, <2>8, <2>10 DEF rest
<1> QED  BY <1>1, <1>2

Waiting  == {s \in sessions : status[s] = "queued"}
QueueInv == queue \in Seq(Ids) /\ Distinct(queue) /\ Elements(queue) = Waiting

LEMMA QueueInit == Init => QueueInv
  BY DEF Init, QueueInv, Distinct, Elements, Waiting

LEMMA QueueSame ==
    ASSUME QueueInv, queue' = queue, Waiting' = Waiting
    PROVE  QueueInv'
  BY DEF QueueInv, Distinct, Elements

\* A session is taken out of the queue when it stops waiting.
LEMMA QueueLeaves ==
    ASSUME QueueInv, NEW s, queue' = Without(s), Waiting' = Waiting \ {s}
    PROVE  QueueInv'
<1>1. /\ Without(s) \in Seq(Ids) /\ Distinct(Without(s))
      /\ Elements(Without(s)) = Elements(queue) \ {s}
  BY WithoutOne DEF QueueInv
<1> DEFINE rest == Without(s)
<1> HIDE DEF rest
<1>2. rest \in Seq(Ids) /\ Distinct(rest) /\ Elements(rest) = Waiting' /\ queue' = rest
  BY <1>1 DEF rest, QueueInv
<1> QED  BY <1>2 DEF QueueInv, Distinct, Elements

\* It joins it at the end.
LEMMA QueueJoins ==
    ASSUME QueueInv, NEW s \in Ids, s \notin Waiting,
           queue' = Append(queue, s), Waiting' = Waiting \cup {s}
    PROVE  QueueInv'
<1> DEFINE n == Len(queue)
<1>1. queue \in Seq(Ids) /\ Distinct(queue) /\ Elements(queue) = Waiting
  BY DEF QueueInv
<1>2. n \in Nat /\ DOMAIN queue = 1 .. n
  BY <1>1
<1>3. /\ queue' \in Seq(Ids) /\ DOMAIN queue' = 1 .. n + 1
      /\ queue'[n + 1] = s /\ \A i \in 1 .. n : queue'[i] = queue[i]
  BY <1>1
<1>4. \A i \in 1 .. n : queue[i] # s
  BY <1>1, <1>2 DEF Elements
<1>5. \A x : x \in Waiting <=> \E i \in 1 .. n : x = queue[i]
  BY <1>1, <1>2 DEF Elements
<1> HIDE DEF n
<1>6. \A i, j \in 1 .. n : queue[i] = queue[j] => i = j
  BY <1>1, <1>2 DEF Distinct
<1>7. Distinct(queue)'
  BY <1>2, <1>3, <1>4, <1>6 DEF Distinct
<1>8. \A x : x \in Elements(queue)' <=> x \in Waiting \cup {s}
  BY <1>2, <1>3, <1>5 DEF Elements
<1> QED  BY <1>3, <1>7, <1>8 DEF QueueInv

LEMMA PrependKeeps ==
    ASSUME NEW S, NEW q \in Seq(S), Distinct(q), NEW x \in S, x \notin Elements(q),
           NEW all \in Seq(S), Len(all) = Len(q) + 1,
           \A i \in 1 .. Len(q) + 1 : all[i] = IF i = 1 THEN x ELSE q[i - 1]
    PROVE  Distinct(all) /\ Elements(all) = Elements(q) \cup {x}
<1>1. PICK n \in Nat : n = Len(q)
  OBVIOUS
<1>2. /\ all \in Seq(S) /\ DOMAIN all = 1 .. n + 1
      /\ \A i \in 1 .. n + 1 : all[i] = IF i = 1 THEN x ELSE q[i - 1]
  BY <1>1
<1>3. DOMAIN q = 1 .. n
  BY <1>1
<1>4. /\ 1 \in 1 .. n + 1
      /\ \A i \in 1 .. n : i + 1 \in 1 .. n + 1 /\ i + 1 # 1 /\ i + 1 - 1 = i
      /\ \A i \in 1 .. n + 1 : i # 1 => i - 1 \in 1 .. n
  OBVIOUS
<1>5. /\ \A i, j \in 1 .. n : q[i] = q[j] => i = j
      /\ \A i \in 1 .. n : q[i] # x
  BY <1>3 DEF Distinct, Elements
<1>6. ASSUME NEW i \in 1 .. n + 1, NEW j \in 1 .. n + 1, all[i] = all[j]
      PROVE  i = j
  <2>1. CASE i # 1 /\ j # 1
    <3>1. q[i - 1] = q[j - 1] /\ i - 1 \in 1 .. n /\ j - 1 \in 1 .. n
      BY <1>2, <1>4, <1>6, <2>1
    <3>2. i - 1 = j - 1
      BY <1>5, <3>1
    <3> QED  BY <3>2
  <2>2. \A k \in 1 .. n + 1 : k # 1 => all[k] # x
    BY <1>2, <1>4, <1>5
  <2>3. all[1] = x
    BY <1>2, <1>4
  <2>4. CASE i = 1 \/ j = 1
    BY <1>6, <2>2, <2>3, <2>4
  <2> QED  BY <2>1, <2>4
<1>7. ASSUME NEW i \in 1 .. n PROVE q[i] \in Elements(all)
  <2>1. PICK k \in 1 .. n + 1 : k # 1 /\ k - 1 = i
    BY <1>4
  <2>2. all[k] = q[i]
    BY <1>2, <2>1
  <2> QED  BY <1>2, <2>1, <2>2 DEF Elements
<1>8. all[1] = x
  BY <1>2, <1>4
<1>9. Elements(all) \subseteq Elements(q) \cup {x}
  BY <1>2, <1>3, <1>4 DEF Elements
<1>10. Elements(q) \cup {x} \subseteq Elements(all)
  <2>1. x \in Elements(all)
    BY <1>2, <1>4, <1>8 DEF Elements
  <2>2. Elements(q) \subseteq Elements(all)
    BY <1>3, <1>7 DEF Elements
  <2> QED  BY <2>1, <2>2
<1>11. Distinct(all)
  BY <1>2, <1>6 DEF Distinct
<1> QED  BY <1>2, <1>9, <1>10, <1>11

\* One that could not start goes back to the head.
LEMMA QueueReturns ==
    ASSUME QueueInv, NEW s \in Waiting, queue' = <<s>> \o Without(s), Waiting' = Waiting
    PROVE  QueueInv'
<1>1. /\ Without(s) \in Seq(Ids) /\ Distinct(Without(s))
      /\ Elements(Without(s)) = Waiting \ {s}
  BY WithoutOne DEF QueueInv
<1>2. s \in Ids
  <2>1. \A i \in DOMAIN queue : queue[i] \in Ids
    BY DEF QueueInv
  <2> QED  BY <2>1 DEF QueueInv, Elements
<1>3. PICK rest : rest = Without(s)
  OBVIOUS
<1>4. PICK all : all = <<s>> \o rest /\ queue' = all
  BY <1>3
<1>5. all \in Seq(Ids) /\ Distinct(all) /\ Elements(all) = Elements(rest) \cup {s}
  <2>1. rest \in Seq(Ids) /\ Distinct(rest) /\ s \notin Elements(rest)
    BY <1>1, <1>3
  <2>2. /\ all \in Seq(Ids) /\ Len(all) = Len(rest) + 1
        /\ \A i \in 1 .. Len(rest) + 1 : all[i] = IF i = 1 THEN s ELSE rest[i - 1]
    <3>1. all = <<s>> \o rest
      BY <1>4
    <3> QED  BY <1>2, <2>1, <3>1
  <2> QED  BY <1>2, <2>1, <2>2, PrependKeeps
<1>6. Elements(all) = Waiting'
  BY <1>1, <1>3, <1>5
<1>7. queue' = all
  BY <1>4
<1> QED  BY <1>5, <1>6, <1>7 DEF QueueInv, Distinct, Elements

\* A step after which the same sessions wait.
LEMMA SameWait ==
    ASSUME UNCHANGED <<sessions, status>>
    PROVE  Waiting' = Waiting
  BY DEF Waiting

LEMMA QueueDequeue ==
    ASSUME RequestInv, QueueInv, Dequeue
    PROVE  QueueInv'
<1>1. CASE DequeueReturns
  BY <1>1, QueueSame, SameWait DEF DequeueReturns, sessionVars
<1>2. ASSUME NEW s \in Ids, StartAccepted(s) PROVE QueueInv'
  <2>1. Waiting' = Waiting \ {s}
    BY <1>2 DEF StartAccepted, SetStatus, Waiting, RequestInv, SessionTypes
  <2> QED  BY <1>2, <2>1, QueueLeaves DEF StartAccepted
<1>3. ASSUME NEW s \in Ids, StartRefused(s) PROVE QueueInv'
  <2>1. s \in Waiting
    BY <1>3, FirstIsQueued DEF StartRefused, Starting, Waiting
  <2>2. Waiting' = Waiting
    BY <1>3, <2>1
    DEF StartRefused, RefusedStatus, SetStatus, Waiting, RequestInv, SessionTypes
  <2> QED  BY <1>3, <2>1, <2>2, QueueReturns DEF StartRefused
<1>4. ASSUME NEW s \in Ids, StartFails(s) PROVE QueueInv'
  <2>1. Waiting' = Waiting \ {s}
    BY <1>4 DEF StartFails, SetStatus, Waiting, RequestInv, SessionTypes
  <2> QED  BY <1>4, <2>1, QueueLeaves DEF StartFails
<1> QED  BY <1>1, <1>2, <1>3, <1>4 DEF Dequeue

\* cancelQueuedGenerations: who was in the queue waits no longer.
LEMMA QueueCancel ==
    ASSUME RequestInv, QueueInv, CancelQueued, UNCHANGED sessions
    PROVE  QueueInv'
<1>1. \A s \in Waiting : IsQueued(s) /\ \E i \in DOMAIN queue : queue[i] = s
  BY DEF QueueInv, Elements, Waiting, IsQueued
<1>2. \A s \in sessions : status'[s] # "queued"
  <2> TAKE s \in sessions
  <2> DEFINE was == IsQueued(s) /\ \E i \in DOMAIN queue : queue[i] = s
  <2>1. status'[s] = IF was THEN "idle" ELSE status[s]
    BY DEF CancelQueued, RequestInv, SessionTypes
  <2>2. status[s] = "queued" => was
    BY <1>1 DEF Waiting
  <2> HIDE DEF was
  <2> QED  BY <2>1, <2>2
<1>3. Waiting' = {} /\ queue' = <<>>
  BY <1>2 DEF Waiting, CancelQueued
<1> QED  BY <1>3 DEF QueueInv, Distinct, Elements

LEMMA QueueStep == ModelInv /\ RequestInv /\ QueueInv /\ [Next]_vars => QueueInv'
<1> SUFFICES ASSUME ModelInv, RequestInv, QueueInv, [Next]_vars PROVE QueueInv'
  OBVIOUS
<1>0. status \in [Ids -> Statuses] /\ sessions \subseteq Ids
  BY DEF RequestInv, SessionTypes
<1>1. ASSUME UNCHANGED <<sessionVars, queue>> PROVE QueueInv'
  BY <1>1, QueueSame, SameWait DEF sessionVars
<1>2. CASE Dequeue
  BY <1>2, QueueDequeue
<1>3. CASE RetryFires
  <2>1. Switched = {}
    BY <1>3 DEF RetryFires, Switched, ModelInv, RetryIsCurrent
  <2>2. \A s \in Ids : status'[s] = status[s]
    BY <1>3, <2>1 DEF RetryFires
  <2>3. Waiting' = Waiting
    BY <1>0, <1>3, <2>2 DEF RetryFires, Waiting
  <2> QED  BY <1>3, <2>3, QueueSame DEF RetryFires
<1>4. ASSUME NEW s \in Ids, NewSession(s) PROVE QueueInv'
  <2>1. Waiting' = Waiting
    BY <1>4 DEF NewSession, Waiting, RequestInv, FreshInv
  <2> QED  BY <1>4, <2>1, QueueSame DEF NewSession, queueVars
<1>5. ASSUME NEW s \in Ids, Generate(s) PROVE QueueInv'
  <2>1. s \notin Waiting /\ Waiting' = Waiting \cup {s}
    BY <1>0, <1>5 DEF Generate, SetStatus, Waiting
  <2> QED  BY <1>5, <2>1, QueueJoins DEF Generate
<1>6. ASSUME NEW s \in Ids, StopQueued(s) PROVE QueueInv'
  <2>1. Waiting' = Waiting \ {s}
    BY <1>0, <1>6 DEF StopQueued, SetStatus, Waiting
  <2> QED  BY <1>6, <2>1, QueueLeaves DEF StopQueued
<1>7. ASSUME NEW s \in Ids, StopRunning(s) PROVE QueueInv'
  BY <1>1, <1>7 DEF StopRunning, queueVars
<1>8. ASSUME NEW s \in Ids, DeleteSession(s) PROVE QueueInv'
  <2>1. Waiting' = Waiting \ {s}
    BY <1>8 DEF DeleteSession, Waiting
  <2> QED  BY <1>8, <2>1, QueueLeaves DEF DeleteSession
<1>9. ASSUME NEW n \in native, WorkerEnds(n) PROVE QueueInv'
  BY <1>1, <1>9 DEF WorkerEnds, queueVars
<1>10. ASSUME NEW n \in native, NEW end \in FinalStatuses, HandleFinal(n, end) PROVE QueueInv'
  <2>1. queue' = queue /\ sessions' = sessions
    BY <1>10 DEF HandleFinal
  <2>2. CASE n.of \notin sessions
    BY <1>10, <2>1, <2>2, QueueSame, SameWait DEF HandleFinal
  <2>3. CASE n.of \in sessions
    <3>1. status[n.of] = "running"
      BY <2>3, RestingHasNone
    <3>2. status' = [status EXCEPT ![n.of] = end] /\ end # "queued"
      BY <1>10, <2>3 DEF HandleFinal, SetStatus, FinalStatuses
    <3>3. Waiting' = Waiting
      BY <1>0, <2>1, <3>1, <3>2 DEF Waiting
    <3> QED  BY <2>1, <3>3, QueueSame
  <2> QED  BY <2>2, <2>3
<1>11. CASE (\E p \in Parallels : LoadModel(p)) \/ Unload
  BY <1>11, QueueCancel DEF LoadModel, Unload
<1>12. CASE TaskRejected \/ TaskStep \/ TaskSettles
  BY <1>1, <1>12 DEF TaskRejected, TaskStep, TaskStopsAll, TaskFrees, TaskEnds,
                     TaskSettles, queueVars
<1>13. CASE UNCHANGED vars
  BY <1>1, <1>13 DEF vars, queueVars
<1> QED
  BY <1>2, <1>3, <1>4, <1>5, <1>6, <1>7, <1>8, <1>9, <1>10, <1>11, <1>12, <1>13 DEF Next

LEMMA QueueAlways == Spec => [](ModelInv /\ RequestInv /\ QueueInv)
<1>1. Init => QueueInv
  BY QueueInit
<1> QED  BY <1>1, QueueStep, ModelAlways, RequestAlways, PTL DEF Spec

\* A session is in generationQueue exactly while it waits, and once.
THEOREM QueueStaysExact == Spec => []QueueIsExact
<1>1. QueueInv => QueueIsExact
  BY DEF QueueInv, QueueIsExact, Distinct, Elements, Waiting
<1> QED  BY <1>1, QueueAlways, PTL

-----------------------------------------------------------------------------
(***************************************************************************)
(* Types.                                                                  *)
(***************************************************************************)
CountTypes ==
    /\ limit \in Nat \ {0} /\ next_limit \in Nat /\ slots \in Nat
    /\ kind \in {"load", "unload"} /\ task \in Tasks
    /\ kind = "load" /\ task # "none" => next_limit # 0
    /\ sends \in Nat /\ loads \in Nat /\ unloads \in Nat
    /\ timer \in Nat \cup {NoTimer} /\ busy \in BOOLEAN /\ late \subseteq Ids

LEMMA CountInit == Init => CountTypes
<1> SUFFICES ASSUME Init PROVE CountTypes
  OBVIOUS
<1>1. limit = 1 /\ next_limit = 0 /\ slots = 0 /\ kind = "load" /\ task = "none"
  BY DEF Init
<1>2. sends = 0 /\ loads = 0 /\ unloads = 0
  BY DEF Init
<1>3. timer \in Nat \cup {NoTimer} /\ busy \in BOOLEAN /\ late \subseteq Ids
  BY DEF Init
<1> QED  BY <1>1, <1>2, <1>3 DEF CountTypes, Tasks

LEMMA CountStep == ModelInv /\ RequestInv /\ CountTypes /\ [Next]_vars => CountTypes'
<1> SUFFICES ASSUME ModelInv, RequestInv, CountTypes, [Next]_vars PROVE CountTypes'
  OBVIOUS
<1> USE DEF CountTypes
<1>0. config \in Nat /\ loads \in Nat /\ Parallels \subseteq Nat \ {0}
  BY SessionAssumption DEF ModelInv, ModelTypes
<1>1. CASE Dequeue
  <2>1. UNCHANGED <<modelVars, taskVars, late, sends, loads, unloads>>
    BY <1>1 DEF Dequeue, DequeueReturns, StartAccepted, StartRefused, StartFails
  <2>2. timer' \in {timer, config} /\ busy' \in {busy, TRUE, FALSE}
    BY <1>1
    DEF Dequeue, DequeueReturns, StartAccepted, StartRefused, StartFails, GoOnAfterFailure
  <2> QED  BY <1>0, <2>1, <2>2 DEF modelVars, taskVars
<1>2. CASE RetryFires
  BY <1>2 DEF RetryFires, modelVars, taskVars
<1>3. ASSUME NEW s \in Ids,
             NewSession(s) \/ Generate(s) \/ StopQueued(s) \/ StopRunning(s) \/ DeleteSession(s)
      PROVE  CountTypes'
  <2>1. UNCHANGED <<modelVars, taskVars, timer, loads, unloads>>
    BY <1>3 DEF NewSession, Generate, StopQueued, StopRunning, DeleteSession, queueVars
  <2>2. busy' \in BOOLEAN
    BY <1>3 DEF NewSession, Generate, StopQueued, StopRunning, DeleteSession, queueVars
  <2>3. late' \subseteq Ids
    BY <1>3 DEF NewSession, Generate, StopQueued, StopRunning, DeleteSession, queueVars
  <2>4. sends' \in Nat
    BY <1>3 DEF NewSession, Generate, StopQueued, StopRunning, DeleteSession
  <2> QED  BY <2>1, <2>2, <2>3, <2>4 DEF modelVars, taskVars
<1>4. ASSUME NEW n \in native,
             WorkerEnds(n) \/ \E end \in FinalStatuses : HandleFinal(n, end)
      PROVE  CountTypes'
  BY <1>4 DEF WorkerEnds, HandleFinal, AfterFinal, queueVars, modelVars, taskVars
<1>5. ASSUME NEW p \in Parallels, LoadModel(p) PROVE CountTypes'
  BY <1>0, <1>5 DEF LoadModel, CancelQueued, CancelTimer, Tasks
<1>6. CASE Unload
  BY <1>6 DEF Unload, CancelQueued, CancelTimer, Tasks
<1>7. CASE TaskRejected \/ TaskStep
  <2>1. UNCHANGED <<queueVars, modelVars, kind, next_limit, sends, loads, unloads>>
    BY <1>7 DEF TaskRejected, TaskStep, TaskStopsAll, TaskFrees, TaskEnds
  <2>2. slots' \in {slots, 0, next_limit} /\ task' \in Tasks /\ task # "none"
    BY <1>7 DEF TaskRejected, TaskStep, TaskStopsAll, TaskFrees, TaskEnds, Tasks
  <2> QED  BY <2>1, <2>2 DEF queueVars, modelVars
<1>8. CASE TaskSettles
  <2>1. limit' \in Nat \ {0}
    BY <1>8 DEF TaskSettles, LoadSucceeds, LoadFails, NoModel
  <2> QED  BY <1>8, <2>1 DEF TaskSettles, queueVars, Tasks
<1>9. CASE UNCHANGED vars
  BY <1>9 DEF vars, queueVars, modelVars, taskVars
<1> QED  BY <1>1, <1>2, <1>3, <1>4, <1>5, <1>6, <1>7, <1>8, <1>9 DEF Next

ServiceInv == ModelInv /\ RequestInv /\ QueueInv /\ CountTypes

LEMMA ServiceAlways == Spec => []ServiceInv
<1>1. ServiceInv <=> (ModelInv /\ RequestInv /\ QueueInv) /\ CountTypes
  BY DEF ServiceInv
<1> QED  BY <1>1, QueueAlways, CountInit, CountStep, PTL DEF Spec

\* Every variable of the service has its type.
THEOREM SessionQueueTyped == Spec => []TypeOK
<1>1. ServiceInv => TypeOK
  BY DEF ServiceInv, ModelInv, ModelTypes, RequestInv, SessionTypes, NativeType,
         QueueInv, CountTypes, TypeOK
<1> QED  BY <1>1, ServiceAlways, PTL

-----------------------------------------------------------------------------
(***************************************************************************)
(* Whoever waits is called.                                                *)
(***************************************************************************)
\* Those whose message does not date from a load.
Timely == {s \in Waiting : s \notin late}

CallerInv ==
    /\ loading => Timely = {}
    /\ loaded /\ ~loading /\ Timely # {} => HasCaller

LEMMA CallerInit == Init => CallerInv
  BY DEF Init, CallerInv, Timely, Waiting

\* A step of the service that leaves a caller behind, and the load as it is.
LEMMA CallerKept ==
    ASSUME CallerInv, UNCHANGED <<loaded, loading>>, Timely' \subseteq Timely,
           HasCaller => HasCaller'
    PROVE  CallerInv'
  BY DEF CallerInv

\* While somebody waits, dequeueNext finds somebody.
LEMMA SomebodyIsFirst ==
    ASSUME QueueInv, Waiting # {}
    PROVE  FirstQueued # {}
<1>1. PICK i \in DOMAIN queue : queue[i] \in Waiting
  BY DEF QueueInv, Elements
<1>2. 1 \in DOMAIN queue
  BY DEF QueueInv
<1>3. queue[1] \in Waiting
  BY <1>2 DEF QueueInv, Elements
<1>4. IsQueued(queue[1]) /\ \A j \in 1 .. 1 - 1 : ~IsQueued(queue[j])
  BY <1>3 DEF Waiting, IsQueued
<1> QED  BY <1>2, <1>4 DEF FirstQueued

\* A full pool has requests whose end will call.
LEMMA FullPoolIsAwaited ==
    ASSUME RequestInv, limit \in Nat \ {0}, ~Room
    PROVE  native # {}
<1>1. IsFiniteSet(Running) /\ Cardinality(Running) \in Nat
  <2>1. Running \in SUBSET Ids
    BY DEF Running, RequestInv, SessionTypes
  <2> QED  BY <2>1, SessionAssumption, FS_Subset, FS_CardinalityType
<1>2. Cardinality(Running) # 0
  BY <1>1 DEF Room
<1>3. Running # {}
  BY <1>2, FS_EmptySet
<1> QED  BY <1>3 DEF RequestInv, RunningHasRequest, RunningIsAwaited

LEMMA CallerDequeue ==
    ASSUME ServiceInv, CallerInv, Dequeue
    PROVE  CallerInv'
<1> USE DEF ServiceInv
<1>0. status \in [Ids -> Statuses]
  BY DEF RequestInv, SessionTypes
<1>1. CASE DequeueReturns
  <2>1. UNCHANGED <<sessions, status, late, loaded, loading, timer, native>>
    BY <1>1 DEF DequeueReturns, sessionVars, modelVars, nativeVars
  <2>2. Timely' = Timely
    BY <2>1 DEF Timely, Waiting
  <2>3. CASE loaded /\ ~loading /\ Timely # {}
    <3>1. FirstQueued # {}
      BY <2>3, SomebodyIsFirst DEF Timely
    <3>2. native # {}
      BY <1>1, <2>3, <3>1, FullPoolIsAwaited DEF DequeueReturns, MayDequeue, CountTypes
    <3> QED  BY <2>1, <2>3, <3>2 DEF CallerInv, HasCaller
  <2>4. CASE ~(loaded /\ ~loading /\ Timely # {})
    BY <2>1, <2>2, <2>4 DEF CallerInv
  <2> QED  BY <2>3, <2>4
<1>2. ASSUME NEW s \in Ids, StartAccepted(s) PROVE CallerInv'
  <2>1. Timely' \subseteq Timely
    BY <1>0, <1>2 DEF StartAccepted, SetStatus, Timely, Waiting
  <2>2. HasCaller'
    BY <1>2 DEF StartAccepted, HasCaller
  <2> QED  BY <1>2, <2>1, <2>2, CallerKept DEF StartAccepted, modelVars
<1>3. ASSUME NEW s \in Ids, StartRefused(s) PROVE CallerInv'
  <2>1. s \in Waiting
    BY <1>3, FirstIsQueued DEF StartRefused, Starting, Waiting
  <2>2. Timely' \subseteq Timely
    BY <1>0, <1>3, <2>1 DEF StartRefused, RefusedStatus, SetStatus, Timely, Waiting
  <2>3. timer' # NoTimer
    <3>1. config # NoTimer
      BY DEF ModelInv, ModelTypes, NoTimer
    <3> QED  BY <1>3, <3>1 DEF StartRefused
  <2> QED  BY <1>3, <2>2, <2>3, CallerKept DEF StartRefused, modelVars, HasCaller
<1>4. ASSUME NEW s \in Ids, StartFails(s) PROVE CallerInv'
  <2>1. Timely' \subseteq Timely
    BY <1>0, <1>4 DEF StartFails, SetStatus, Timely, Waiting
  <2>2. HasCaller'
    BY <1>4 DEF StartFails, GoOnAfterFailure, HasCaller
  <2> QED  BY <1>4, <2>1, <2>2, CallerKept DEF StartFails, modelVars
<1> QED  BY <1>1, <1>2, <1>3, <1>4 DEF Dequeue

LEMMA CallerStep == ServiceInv /\ CallerInv /\ [Next]_vars => CallerInv'
<1> SUFFICES ASSUME ServiceInv, CallerInv, [Next]_vars PROVE CallerInv'
  OBVIOUS
<1>0. status \in [Ids -> Statuses] /\ sessions \subseteq Ids /\ native \subseteq NativeType
  BY DEF ServiceInv, RequestInv, SessionTypes
<1>1. CASE Dequeue
  BY <1>1, CallerDequeue
<1>2. CASE RetryFires
  <2>1. timer = config /\ busy' = TRUE
    BY <1>2 DEF RetryFires, ServiceInv, ModelInv, RetryIsCurrent
  <2>2. \A s \in Ids : status'[s] = status[s]
    BY <1>2, <2>1 DEF RetryFires, Switched
  <2>3. Timely' = Timely
    BY <1>0, <1>2, <2>2 DEF RetryFires, Timely, Waiting
  <2> QED  BY <1>2, <2>1, <2>3, CallerKept DEF RetryFires, modelVars, HasCaller
<1>3. ASSUME NEW s \in Ids, NewSession(s) PROVE CallerInv'
  <2>1. Timely' \subseteq Timely
    BY <1>3 DEF NewSession, Timely, Waiting, ServiceInv, RequestInv, FreshInv, queueVars
  <2> QED  BY <1>3, <2>1, CallerKept DEF NewSession, queueVars, modelVars, nativeVars, HasCaller
<1>4. ASSUME NEW s \in Ids, Generate(s) PROVE CallerInv'
  <2>1. UNCHANGED <<loaded, loading, sessions>> /\ busy' = TRUE
    BY <1>4 DEF Generate, modelVars
  <2>2. CASE loading
    <3>1. Timely' \subseteq Timely
      BY <1>0, <1>4, <2>2 DEF Generate, SetStatus, Timely, Waiting
    <3> QED  BY <2>1, <3>1, CallerKept DEF HasCaller
  <2>3. CASE ~loading
    BY <2>1, <2>3 DEF CallerInv, HasCaller
  <2> QED  BY <2>2, <2>3
<1>5. ASSUME NEW s \in Ids, StopQueued(s) PROVE CallerInv'
  <2>1. Timely' \subseteq Timely
    BY <1>0, <1>5 DEF StopQueued, SetStatus, Timely, Waiting
  <2> QED  BY <1>5, <2>1, CallerKept DEF StopQueued, modelVars, HasCaller
<1>6. ASSUME NEW s \in Ids, StopRunning(s) PROVE CallerInv'
  <2>1. Timely' \subseteq Timely
    BY <1>6 DEF StopRunning, Timely, Waiting, sessionVars, queueVars
  <2>2. native # {} => native' # {}
    BY <1>6 DEF StopRunning, StopNative
  <2> QED  BY <1>6, <2>1, <2>2, CallerKept DEF StopRunning, queueVars, modelVars, HasCaller
<1>7. ASSUME NEW s \in Ids, DeleteSession(s) PROVE CallerInv'
  <2>1. Timely' \subseteq Timely
    BY <1>7 DEF DeleteSession, Timely, Waiting
  <2>2. native # {} => native' # {}
    BY <1>7 DEF DeleteSession, StopNative
  <2> QED  BY <1>7, <2>1, <2>2, CallerKept DEF DeleteSession, modelVars, HasCaller
<1>8. ASSUME NEW n \in native, WorkerEnds(n) PROVE CallerInv'
  <2>1. Timely' \subseteq Timely
    BY <1>8 DEF WorkerEnds, Timely, Waiting, sessionVars, queueVars
  <2>2. native' # {}
    BY <1>8 DEF WorkerEnds
  <2> QED  BY <1>8, <2>1, <2>2, CallerKept DEF WorkerEnds, queueVars, modelVars, HasCaller
<1>9. ASSUME NEW n \in native, NEW end \in FinalStatuses, HandleFinal(n, end) PROVE CallerInv'
  <2>1. Timely' \subseteq Timely
    BY <1>0, <1>9 DEF HandleFinal, SetStatus, FinalStatuses, Timely, Waiting
  <2> QED  BY <1>9, <2>1, CallerKept DEF HandleFinal, AfterFinal, modelVars, HasCaller
<1>10. CASE (\E p \in Parallels : LoadModel(p)) \/ Unload
  <2>1. QueueInv' /\ CancelQueued /\ loading' = TRUE
    BY <1>10, QueueStep DEF ServiceInv, LoadModel, Unload, Next
  <2>2. Timely' = {}
    BY <2>1 DEF CancelQueued, QueueInv, Elements, Timely
  <2> QED  BY <2>1, <2>2 DEF CallerInv
<1>11. CASE TaskRejected \/ TaskFrees \/ TaskEnds
  <2>1. UNCHANGED <<sessionVars, queueVars, modelVars, nativeVars>>
    BY <1>11 DEF TaskRejected, TaskFrees, TaskEnds
  <2>2. Timely' = Timely
    BY <2>1 DEF Timely, Waiting, sessionVars, queueVars
  <2> QED  BY <2>1, <2>2, CallerKept DEF queueVars, modelVars, nativeVars, HasCaller
<1>12. CASE TaskStopsAll
  <2>1. UNCHANGED <<sessionVars, queueVars, modelVars>>
    BY <1>12 DEF TaskStopsAll
  <2>2. Timely' = Timely
    BY <2>1 DEF Timely, Waiting, sessionVars, queueVars
  <2>3. native # {} => native' # {}
    BY <1>12 DEF TaskStopsAll
  <2> QED  BY <2>1, <2>2, <2>3, CallerKept DEF queueVars, modelVars, HasCaller
<1>13. CASE TaskSettles
  <2>1. loading
    BY <1>13 DEF TaskSettles, ServiceInv, ModelInv, TaskInv
  <2>2. Timely' = {}
    BY <1>13, <2>1 DEF TaskSettles, CallerInv, Timely, Waiting, sessionVars, queueVars
  <2> QED  BY <2>2 DEF CallerInv
<1>14. CASE UNCHANGED vars
  <2>1. UNCHANGED <<sessionVars, queueVars, modelVars, nativeVars>>
    BY <1>14 DEF vars
  <2>2. Timely' = Timely
    BY <2>1 DEF Timely, Waiting, sessionVars, queueVars
  <2> QED  BY <2>1, <2>2, CallerKept DEF queueVars, modelVars, nativeVars, HasCaller
<1> QED
  BY <1>1, <1>2, <1>3, <1>4, <1>5, <1>6, <1>7, <1>8, <1>9, <1>10, <1>11, <1>12, <1>13, <1>14
  DEF Next, TaskStep

\* Under a loaded model a message that was not sent during a load never waits
\* uncalled: dequeueNext runs, will be retried or follows a final event.
THEOREM TimelyAlwaysHasCaller == Spec => []TimelyHasCaller
<1>1. ServiceInv /\ CallerInv => TimelyHasCaller
  <2> SUFFICES ASSUME ServiceInv, CallerInv, loaded, ~loading,
                      NEW i \in DOMAIN queue, queue[i] \notin late
               PROVE  HasCaller
    BY DEF TimelyHasCaller
  <2>1. queue[i] \in Waiting
    BY DEF ServiceInv, QueueInv, Elements
  <2>2. Timely # {}
    BY <2>1 DEF Timely
  <2> QED  BY <2>2 DEF CallerInv
<1> QED  BY <1>1, CallerInit, CallerStep, ServiceAlways, PTL DEF Spec

-----------------------------------------------------------------------------
(***************************************************************************)
(* Whom the pool refuses.                                                  *)
(***************************************************************************)
\* When no worker belongs to a deleted session there are no more workers than
\* running sessions.
LEMMA WorkersAreRunning ==
    ASSUME RequestInv, \A n \in Working : n.of \in sessions
    PROVE  /\ IsFiniteSet(Working) /\ Cardinality(Working) \in Nat
           /\ IsFiniteSet(Running) /\ Cardinality(Running) \in Nat
           /\ Cardinality(Working) <= Cardinality(Running)
<1>1. IsFiniteSet(Running)
  <2>1. Running \in SUBSET Ids
    BY DEF Running, RequestInv, SessionTypes
  <2> QED  BY <2>1, SessionAssumption, FS_Subset
<1> DEFINE owner == [n \in Working |-> n.of]
<1>2. ASSUME NEW n \in Working PROVE n.of \in Running /\ request[n.of] = n.id
  <2>1. n \in native /\ n.of \in sessions
    BY DEF Working
  <2>2. request[n.of] = n.id /\ n.id # 0
    BY <2>1 DEF RequestInv, RunningHasRequest, NativeIsCurrent, IdsInv
  <2>3. status[n.of] = "running"
    BY <2>1, <2>2 DEF RequestInv, RunningHasRequest, RequestIfRunning
  <2> QED  BY <2>1, <2>2, <2>3 DEF Running
<1>3. ASSUME NEW n \in Working, NEW m \in Working, n.of = m.of PROVE n = m
  <2>1. n.id = m.id
    BY <1>2, <1>3
  <2> QED  BY <2>1 DEF Working, RequestInv, IdsInv
<1>4. owner \in Injection(Working, Running)
  BY <1>2, <1>3 DEF Injection, IsInjective
<1> HIDE DEF owner
<1> QED  BY <1>1, <1>4, FS_Injection, FS_CardinalityType

\* generate is refused with 1005 only while the worker of a deleted session
\* still holds a slot: the service counts its own sessions right.
THEOREM RefusedOnlyForTheDeleted == Spec => RefusedOnlyForDeleted
<1>1. ASSUME ServiceInv, NEW s \in Ids, StartRefused(s)
      PROVE  \E n \in Working : n.of \notin sessions
  <2> SUFFICES ASSUME \A n \in Working : n.of \in sessions PROVE FALSE
    OBVIOUS
  <2>1. RequestInv /\ s \in sessions /\ status[s] = "queued"
    BY <1>1, FirstIsQueued DEF ServiceInv, StartRefused, Starting
  <2>2. ~ \E n \in Working : n.of = s
    BY <2>1, RestingHasNone DEF Working
  <2>3. loaded /\ ~loading /\ Room /\ Refuses(s)
    BY <1>1 DEF StartRefused, Starting, MayDequeue
  <2>4. slots = limit /\ task = "none" /\ limit \in Nat
    BY <1>1, <2>3 DEF ServiceInv, ModelInv, EngineAgrees, CountTypes
  <2>5. Cardinality(Working) >= limit
    BY <2>2, <2>3, <2>4 DEF Refuses
  <2>6. /\ Cardinality(Working) \in Nat /\ Cardinality(Running) \in Nat
        /\ Cardinality(Working) <= Cardinality(Running)
    BY <2>1, WorkersAreRunning
  <2> QED  BY <2>3, <2>4, <2>5, <2>6 DEF Room
<1>2. ServiceInv /\ [Next]_vars =>
      [\A s \in Ids : StartRefused(s) => \E n \in Working : n.of \notin sessions]_vars
  BY <1>1
<1> QED  BY <1>2, ServiceAlways, PTL DEF Spec, RefusedOnlyForDeleted
=============================================================================
