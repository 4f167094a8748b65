---------------------------- MODULE SessionQueue ----------------------------
(***************************************************************************)
(* The chat sessions of InferenceService.ets: which of them wait for a     *)
(* generation, which run, and what load, unload, stop, delete, the retry   *)
(* timer and the events of the native side do to them.                     *)
(*                                                                         *)
(* All of it runs on one thread, so an action is what that thread does     *)
(* between two returns to its event loop, with one exception: dequeueNext  *)
(* calls itself for each session it starts while native workers go on; it  *)
(* is one action per session, and `busy` holds the thread meanwhile.       *)
(*                                                                         *)
(* The engine is seen as the service sees it: testNapi.generate takes one  *)
(* of the slots of the loaded model or throws 1005, a worker ends and      *)
(* posts one final event, and a load or unload in the task pool stops all  *)
(* workers, waits for them and replaces the model (module EngineState).    *)
(***************************************************************************)
EXTENDS Integers, FiniteSets, Sequences

CONSTANTS
    Ids,            \* session ids
    Parallels,      \* values of LoadConfig.parallel
    MaxSends,       \* bound: messages sent
    MaxLoads,       \* bound: loads begun
    MaxUnloads      \* bound: unloads begun

ASSUME SessionAssumption ==
    /\ IsFiniteSet(Ids) /\ Parallels \subseteq Nat \ {0}
    /\ MaxSends \in Nat /\ MaxLoads \in Nat /\ MaxUnloads \in Nat

VARIABLES
    sessions,       \* ids of state.sessions
    fresh,          \* ids that newSession has not given out yet
    status,         \* Session.status
    request,        \* Session.requestId
    queue,          \* generationQueue
    timer,          \* slotRetryTimer: NoTimer, or the config its closure captured
    busy,           \* the thread is inside dequeueNext
    loaded,         \* state.modelId > 0
    config,         \* state.loadedConfig: null is 0, else the load that set it
    limit,          \* state.loadedConfig?.parallel ?? 1
    loading,        \* state.loading
    task,           \* where the load or unload in the task pool is
    kind,           \* "load" or "unload"
    next_limit,     \* LoadConfig.parallel of the load under way
    slots,          \* slots of the engine's NAPI pool, 0 without a model
    native,         \* requests whose final event has not been handled yet
    begun,          \* native request ids given out
    late,           \* ghost: sessions whose message was sent during a load
    sends, loads, unloads

sessionVars == <<sessions, fresh, status, request>>
queueVars   == <<queue, timer, late, busy>>
modelVars   == <<loaded, config, limit, loading>>
taskVars    == <<task, kind, next_limit, slots>>
nativeVars  == <<native, begun>>
vars == <<sessionVars, queueVars, modelVars, taskVars, nativeVars, sends, loads, unloads>>

NoTimer == -1

\* A request of the engine: its conversation, whether its worker still holds a
\* slot, whether it was told to stop.
Native(id, s) == [id |-> id, of |-> s, works |-> TRUE, stop |-> FALSE]
Working == {n \in native : n.works}

\* The stop flag of a request, if its worker is still there to see it.
Told(n) == [n EXCEPT !.stop = n.stop \/ n.works]

Running     == {s \in sessions : status[s] = "running"}
IsQueued(s) == s \in sessions /\ status[s] = "queued"

Init ==
    /\ sessions \in SUBSET Ids /\ fresh = Ids \ sessions
    /\ status = [s \in Ids |-> "idle"] /\ request = [s \in Ids |-> 0]
    /\ queue = <<>> /\ timer = NoTimer /\ late = {} /\ busy = FALSE
    /\ loaded = FALSE /\ config = 0 /\ limit = 1 /\ loading = FALSE
    /\ task = "none" /\ kind = "load" /\ next_limit = 0 /\ slots = 0
    /\ native = {} /\ begun = 0
    /\ sends = 0 /\ loads = 0 /\ unloads = 0

SetStatus(s, new)   == status' = [status EXCEPT ![s] = new]
SetRequest(s, id)   == request' = [request EXCEPT ![s] = id]

-----------------------------------------------------------------------------
\* dequeueNext.

\* Bug: the session stays in the queue.
StillQueued(s) == queue

\* generationQueue.filter: the others in their order, the k-th of them where k
\* of them are counted.
Without(s) ==
    LET kept    == {i \in DOMAIN queue : queue[i] # s}
        Rank(i) == Cardinality({j \in kept : j <= i})
    IN  [k \in 1 .. Cardinality(kept) |-> queue[CHOOSE i \in kept : Rank(i) = k]]

\* findQueued: the first session of the queue that waits, or none.
FirstQueued ==
    {queue[i] : i \in {k \in DOMAIN queue :
                          /\ IsQueued(queue[k])
                          /\ \A j \in 1 .. k - 1 : ~IsQueued(queue[j])}}

\* Bug: one session too many is started.
RoomForOneMore == Cardinality(Running) <= limit
Room           == Cardinality(Running) < limit

MayDequeue == loaded /\ ~loading /\ Room /\ FirstQueued # {}

DequeueReturns ==
    /\ busy /\ ~MayDequeue
    /\ busy' = FALSE
    /\ UNCHANGED <<sessionVars, queue, timer, late, modelVars, taskVars,
                   nativeVars, sends, loads, unloads>>

\* When testNapi.generate throws 1005: no slot is free, that of the conversation
\* is in use, or the engine stops all requests.
Refuses(s) ==
    \/ Cardinality(Working) >= slots
    \/ \E n \in Working : n.of = s
    \/ task \in {"draining", "freed"}

Starting(s) == busy /\ MayDequeue /\ s \in FirstQueued

\* testNapi.generate returns a request id.
StartAccepted(s) ==
    /\ Starting(s) /\ slots > 0 /\ ~Refuses(s)
    /\ SetStatus(s, "running") /\ SetRequest(s, begun + 1)
    /\ queue' = Without(s)
    /\ native' = native \cup {Native(begun + 1, s)}
    /\ begun' = begun + 1
    /\ UNCHANGED <<sessions, fresh, timer, late, busy, modelVars, taskVars,
                   sends, loads, unloads>>

\* Bug: the session is left as dequeueNext had marked it.
RefusedAsMarked(s) == SetStatus(s, "running")
RefusedStatus(s)   == SetStatus(s, "queued")

\* It throws 1005: the session goes back to the head of the queue and the retry
\* timer is set unless it is.
StartRefused(s) ==
    /\ Starting(s) /\ slots > 0 /\ Refuses(s)
    /\ RefusedStatus(s)
    /\ queue' = <<s>> \o Without(s)
    /\ timer' = IF timer = NoTimer THEN config ELSE timer
    /\ busy' = FALSE
    /\ UNCHANGED <<sessions, fresh, request, late, modelVars, taskVars,
                   nativeVars, sends, loads, unloads>>

\* Bug: a session that could not start ends the loop.
GiveUpOnFailure == FALSE
GoOnAfterFailure == TRUE

\* Building the prompt or testNapi.generate throws anything else: the session
\* fails and dequeueNext is called again.
StartFails(s) ==
    /\ Starting(s)
    /\ SetStatus(s, "failed") /\ SetRequest(s, 0)
    /\ queue' = Without(s)
    /\ busy' = GoOnAfterFailure
    /\ UNCHANGED <<sessions, fresh, timer, late, modelVars, taskVars,
                   nativeVars, sends, loads, unloads>>

-----------------------------------------------------------------------------
\* What the user does.

NewSession(s) ==
    /\ ~busy /\ s \in fresh
    /\ sessions' = sessions \cup {s} /\ fresh' = fresh \ {s}
    /\ UNCHANGED <<status, request, queueVars, modelVars, taskVars, nativeVars,
                   sends, loads, unloads>>

\* generate of the service: the message is appended and the session queued,
\* also while a model is loading.
Generate(s) ==
    /\ ~busy /\ loaded /\ sends < MaxSends
    /\ s \in sessions /\ status[s] \notin {"running", "queued"}
    /\ SetStatus(s, "queued") /\ SetRequest(s, 0)
    /\ queue' = Append(queue, s)
    /\ late' = IF loading THEN late \cup {s} ELSE late \ {s}
    /\ busy' = TRUE
    /\ sends' = sends + 1
    /\ UNCHANGED <<sessions, fresh, timer, modelVars, taskVars, nativeVars,
                   loads, unloads>>

\* testNapi.stopGenerate: a request that has ended is no longer known.
StopNative(id) == native' = {IF n.id = id THEN Told(n) ELSE n : n \in native}

StopQueued(s) ==
    /\ ~busy /\ IsQueued(s)
    /\ SetStatus(s, "idle")
    /\ queue' = Without(s)
    /\ busy' = TRUE
    /\ UNCHANGED <<sessions, fresh, request, timer, late, modelVars, taskVars,
                   nativeVars, sends, loads, unloads>>

StopRunning(s) ==
    /\ ~busy /\ s \in sessions /\ ~IsQueued(s) /\ request[s] > 0
    /\ StopNative(request[s])
    /\ UNCHANGED <<sessionVars, queueVars, modelVars, taskVars, begun, sends,
                   loads, unloads>>

\* Bug: only a session that still waits is told to stop.
StopsIfQueued(s) == status[s] = "queued" /\ request[s] > 0
StopsNative(s)   == status[s] \in {"running", "queued"} /\ request[s] > 0

\* deleteSession does not call dequeueNext.
DeleteSession(s) ==
    /\ ~busy /\ s \in sessions
    /\ IF StopsNative(s) THEN StopNative(request[s]) ELSE UNCHANGED native
    /\ sessions' = sessions \ {s}
    /\ queue' = Without(s)
    /\ UNCHANGED <<fresh, status, request, timer, late, busy, modelVars,
                   taskVars, begun, sends, loads, unloads>>

-----------------------------------------------------------------------------
\* Events.

\* Bug: an event of a deleted session is dropped.
OnlyIfPresent(s) == s \in sessions
AfterFinal(s)    == TRUE

\* Bug: a stopped session would get the status SESSION_STOPPED.
WithStopped   == {"idle", "failed", "stopped"}
\* The status after "done" and "stopped", and after "error".
FinalStatuses == {"idle", "failed"}

\* onGenerateEvent with the final event of a request.
HandleFinal(n, end) ==
    /\ ~busy /\ n \in native /\ ~n.works
    /\ native' = native \ {n}
    /\ IF n.of \in sessions
       THEN SetStatus(n.of, end) /\ SetRequest(n.of, 0)
       ELSE UNCHANGED <<status, request>>
    /\ busy' = AfterFinal(n.of)
    /\ UNCHANGED <<sessions, fresh, queue, timer, late, modelVars, taskVars,
                   begun, sends, loads, unloads>>

\* Whom the retry fails because the model was switched; it stays in the queue.
Switched == IF timer = config THEN {} ELSE FirstQueued

\* The retry after 250 ms: dequeueNext, if the model is still the same.
RetryFires ==
    /\ ~busy /\ timer # NoTimer
    /\ timer' = NoTimer
    /\ busy' = (timer = config)
    /\ status' = [s \in Ids |-> IF s \in Switched THEN "failed" ELSE status[s]]
    /\ request' = [s \in Ids |-> IF s \in Switched THEN 0 ELSE request[s]]
    /\ UNCHANGED <<sessions, fresh, queue, late, modelVars, taskVars, nativeVars,
                   sends, loads, unloads>>

-----------------------------------------------------------------------------
\* Loading and unloading.

\* Bug: the timer of the old model runs on.
KeepTimer   == timer
CancelTimer == NoTimer

\* cancelQueuedGenerations.
CancelQueued ==
    /\ timer' = CancelTimer
    /\ queue' = <<>>
    /\ status' = [s \in Ids |-> IF IsQueued(s) /\ \E i \in DOMAIN queue : queue[i] = s
                                THEN "idle" ELSE status[s]]

\* loadModel up to its await; asking for what is loaded already returns at once.
LoadModel(p) ==
    /\ ~busy /\ ~loading /\ loads < MaxLoads
    /\ loading' = TRUE
    /\ CancelQueued
    /\ task' = "started" /\ kind' = "load" /\ next_limit' = p
    /\ loads' = loads + 1
    /\ UNCHANGED <<sessions, fresh, request, late, busy, loaded, config, limit,
                   slots, nativeVars, sends, unloads>>

Unload ==
    /\ ~busy /\ ~loading /\ loaded /\ unloads < MaxUnloads
    /\ loading' = TRUE
    /\ CancelQueued
    /\ task' = "started" /\ kind' = "unload"
    /\ unloads' = unloads + 1
    /\ UNCHANGED <<sessions, fresh, request, late, busy, loaded, config, limit,
                   next_limit, slots, nativeVars, sends, loads>>

\* The task pool rejects the task before the engine sees it.
TaskRejected ==
    /\ task = "started"
    /\ task' = "rejected"
    /\ UNCHANGED <<sessionVars, queueVars, modelVars, kind, next_limit, slots,
                   nativeVars, sends, loads, unloads>>

\* RequestStopAll of the engine.
TaskStopsAll ==
    /\ task = "started"
    /\ task' = "draining"
    /\ native' = {Told(n) : n \in native}
    /\ UNCHANGED <<sessionVars, queueVars, modelVars, kind, next_limit, slots,
                   begun, sends, loads, unloads>>

\* No request is active: the old model is freed.
TaskFrees ==
    /\ task = "draining" /\ Working = {}
    /\ task' = "freed" /\ slots' = 0
    /\ UNCHANGED <<sessionVars, queueVars, modelVars, kind, next_limit,
                   nativeVars, sends, loads, unloads>>

\* The engine has loaded, has unloaded, or could not load.
TaskEnds ==
    /\ task = "freed"
    /\ \/ kind = "load" /\ task' = "done" /\ slots' = next_limit
       \/ kind = "load" /\ task' = "rejected" /\ UNCHANGED slots
       \/ kind = "unload" /\ task' = "done" /\ UNCHANGED slots
    /\ UNCHANGED <<sessionVars, queueVars, modelVars, kind, next_limit,
                   nativeVars, sends, loads, unloads>>

\* What follows the await.
NoModel       == loaded' = FALSE /\ config' = 0 /\ limit' = 1
\* Bug: a load that failed leaves the old model in the state of the app.
LoadFailsKept == UNCHANGED <<loaded, config, limit>>
LoadFails     == NoModel
LoadSucceeds  == loaded' = TRUE /\ config' = loads /\ limit' = next_limit

TaskSettles ==
    /\ ~busy /\ task \in {"done", "rejected"}
    /\ \/ kind = "load" /\ task = "done" /\ LoadSucceeds
       \/ kind = "load" /\ task = "rejected" /\ LoadFails
       \/ kind = "unload" /\ task = "done" /\ NoModel
       \/ kind = "unload" /\ task = "rejected" /\ UNCHANGED <<loaded, config, limit>>
    /\ loading' = FALSE /\ task' = "none"
    /\ UNCHANGED <<sessionVars, queueVars, kind, next_limit, slots, nativeVars,
                   sends, loads, unloads>>

\* RunGenerationAsync: EndGenerate gives the slot back, then the final event is
\* posted.
WorkerEnds(n) ==
    /\ n \in Working
    /\ native' = (native \ {n}) \cup {[n EXCEPT !.works = FALSE]}
    /\ UNCHANGED <<sessionVars, queueVars, modelVars, taskVars, begun, sends,
                   loads, unloads>>

-----------------------------------------------------------------------------
Dequeue ==
    \/ DequeueReturns
    \/ \E s \in Ids : StartAccepted(s) \/ StartRefused(s) \/ StartFails(s)

TaskStep == TaskStopsAll \/ TaskFrees \/ TaskEnds

Next ==
    \/ Dequeue \/ RetryFires
    \/ \E s \in Ids : \/ NewSession(s) \/ Generate(s)
                      \/ StopQueued(s) \/ StopRunning(s) \/ DeleteSession(s)
    \/ \E n \in native : WorkerEnds(n) \/ \E end \in FinalStatuses : HandleFinal(n, end)
    \/ \E p \in Parallels : LoadModel(p)
    \/ Unload \/ TaskRejected \/ TaskStep \/ TaskSettles

Spec == Init /\ [][Next]_vars

\* Workers, the task pool and a loop of dequeueNext go on.  A final event, a
\* retry that is due and a settled task wait in the event loop for the thread,
\* which comes back to it again and again: each has its turn.
Final(s) == \E n \in native : n.of = s /\ \E end \in FinalStatuses : HandleFinal(n, end)
Ends(s)  == \E n \in native : n.of = s /\ WorkerEnds(n)

Fairness ==
    /\ WF_vars(Dequeue) /\ WF_vars(TaskStep)
    /\ SF_vars(RetryFires) /\ SF_vars(TaskSettles)
    /\ \A s \in Ids : WF_vars(Ends(s)) /\ SF_vars(Final(s))

FairSpec == Spec /\ Fairness

-----------------------------------------------------------------------------
(***************************************************************************)
(* Properties.                                                             *)
(***************************************************************************)
Statuses == {"idle", "queued", "running", "failed"}
Tasks    == {"none", "started", "draining", "freed", "done", "rejected"}

\* Every variable has the type its declaration gives it.
TypeOK ==
    /\ sessions \subseteq Ids /\ fresh \subseteq Ids /\ late \subseteq Ids
    /\ status \in [Ids -> Statuses] /\ request \in [Ids -> Nat]
    /\ queue \in Seq(Ids) /\ timer \in Nat \cup {NoTimer}
    /\ {busy, loaded, loading} \subseteq BOOLEAN
    /\ task \in Tasks /\ kind \in {"load", "unload"}
    /\ {config, limit, next_limit, slots, begun, sends, loads, unloads} \subseteq Nat
    /\ native \subseteq [id : Nat, of : Ids, works : BOOLEAN, stop : BOOLEAN]

\* The queue and the statuses agree: a session is in generationQueue exactly
\* while it waits, and once.
QueueIsExact ==
    /\ \A i, j \in DOMAIN queue : queue[i] = queue[j] => i = j
    /\ {queue[i] : i \in DOMAIN queue} = {s \in sessions : status[s] = "queued"}

RequestIfRunning == \A s \in sessions : status[s] = "running" <=> request[s] # 0
RunningIsAwaited == \A s \in Running : \E n \in native : n.of = s /\ n.id = request[s]
NativeIsCurrent  == \A n \in native : n.of \in sessions => request[n.of] = n.id

\* A session is shown as running exactly while the engine owes it a final
\* event, that of the request it can stop, and of no other request: no session
\* runs for ever, and no event of an old request ends a new one.
RunningHasRequest == RequestIfRunning /\ RunningIsAwaited /\ NativeIsCurrent

\* The request of a deleted session does not run on unnoticed: it was told to
\* stop, or has ended.
DeletedAreStopped ==
    \A n \in native : n.of \notin sessions => n.stop \/ ~n.works

\* The retry never meets another model than the one it was set under, so that
\* its branch for a switched model, which would leave a failed session in the
\* queue, is not taken.
RetryIsCurrent == timer # NoTimer => loaded /\ ~loading /\ timer = config

\* While the service believes that a model is ready the engine has it, open for
\* requests and with the slots the service counts on.
EngineAgrees == loaded /\ ~loading => slots = limit /\ task = "none"

\* The service never overruns the pool by itself: generate is refused with 1005
\* only because a deleted session still holds a slot.
RefusedOnlyForDeleted ==
    [][\A s \in Ids : StartRefused(s) => \E n \in Working : n.of \notin sessions]_vars

\* Whoever waits is called: under a loaded model the queue is empty, or
\* dequeueNext runs, will be retried or follows a final event.
HasCaller == busy \/ timer # NoTimer \/ native # {}
QueueHasCaller == loaded /\ ~loading /\ queue # <<>> => HasCaller

\* The same of the messages that were not sent during a load.
TimelyHasCaller ==
    loaded /\ ~loading /\ (\E i \in DOMAIN queue : queue[i] \notin late) => HasCaller

\* A message that was not sent during a load is answered, fails or is taken
\* back.
QueuedLeaves == \A s \in Ids : IsQueued(s) /\ s \notin late ~> ~IsQueued(s)
=============================================================================
