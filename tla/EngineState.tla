---------------------------- MODULE EngineState ----------------------------
(***************************************************************************)
(* The native engine state of napi/engine_state.cpp: one model, two pools  *)
(* of sequence slots, the requests that hold them, and the operations that *)
(* stop, load and unload.  One action is one critical section, or one      *)
(* store to an atomic made outside every lock.                             *)
(*                                                                         *)
(* Locks: mutex_ is the variable `lifecycle` because CommitGenerate stays  *)
(* in it across the unlocked atomics of RequestStopAll; model_op_mutex_ is *)
(* `op`, one operation at a time; slot_mutex_, decode_mutex_ and           *)
(* sessions_mutex_ sections are single steps.                              *)
(***************************************************************************)
EXTENDS ConversationSlots, FiniteSets

CONSTANTS
    NapiReqs,       \* generate calls of the UI thread, one request each
    ServeReqs,      \* completion requests of the HTTP handler threads
    Conversations,  \* conversation ids other than 0
    Stoppers,       \* calls of stopAllGenerations, one thread each
    MaxParallel,    \* largest LoadConfig.parallel
    LoadParallels,  \* values of LoadConfig.parallel that loads use
    MaxLoads,       \* bound: load operations started
    MaxUnloads,     \* bound: unload operations started
    MaxDeletes,     \* bound: deleteConversation calls
    MaxServerStops, \* bound: stops of the HTTP server
    Nobody          \* no holder of mutex_, no cached tokens, no request

Reqs    == NapiReqs \cup ServeReqs
Op      == "op"
Threads == Stoppers \cup {Op}
Slots   == 0 .. 2 * MaxParallel - 1
Owners  == Conversations \cup {NoConv}
Tokens  == Owners \cup {Nobody}     \* whose tokens a sequence holds

ASSUME EngineAssumption ==
    /\ MaxParallel \in Nat \ {0}
    /\ LoadParallels \subseteq 1 .. MaxParallel
    /\ MaxLoads \in Nat /\ MaxUnloads \in Nat
    /\ MaxDeletes \in Nat /\ MaxServerStops \in Nat
    /\ IsFiniteSet(NapiReqs) /\ IsFiniteSet(ServeReqs)
    /\ NapiReqs \cap ServeReqs = {}
    /\ Op \notin Stoppers /\ Nobody \notin Reqs
    /\ NoConv \notin Conversations /\ Nobody \notin Owners

VARIABLES
    model,          \* model_ and ctx_: 0 is null, else the load that made them
    n_slots,        \* n_slots_per_pool_; every slot table has 2 * n_slots entries
    slot_used, slot_owners, slot_recency, recency_clock,
    cache_size,     \* cached_tokens_.size()
    cached,         \* cached_tokens_[i]: whose tokens, Nobody when empty
    kv,             \* what the KV cache holds for sequence i
    sessions,       \* requests registered in sessions_
    stop_flag,      \* stop flag of each request
    active_count,
    stop_all, clear_idle,   \* stop_all_ and clear_stop_all_when_idle_
    lifecycle,      \* holder of mutex_ across steps, or Nobody
    pc, seq, conv,  \* each request: where it is, its slot, its conversation
    reset,          \* slot_reset_ of the slot, read in the acquiring section
    bound,          \* the model the request was registered under
    guarded,        \* requests whose RequestSlotGuard will end them once more
    spc,            \* each thread: where it is in RequestStopAll
    op, opc,        \* the model operation and where it is
    serving, hpc,   \* HttpServer running_, and where its Stop is
    loads, unloads, deletes     \* operations started, for the bounds

slotVars  == <<n_slots, slot_used, slot_owners, slot_recency, recency_clock>>
cacheVars == <<cache_size, cached, kv>>
stopVars  == <<stop_all, clear_idle, spc>>
reqVars   == <<seq, conv, reset, bound, guarded>>
opVars    == <<model, op, opc, loads, unloads>>
httpVars  == <<serving, hpc>>
vars == <<slotVars, cacheVars, stopVars, reqVars, opVars, httpVars, sessions,
          stop_flag, active_count, lifecycle, pc, deletes>>

MutexFree == lifecycle = Nobody
Loaded    == model # 0

PoolOf(r) == IF r \in NapiReqs THEN 0 .. n_slots - 1
                               ELSE n_slots .. 2 * n_slots - 1
Waiters   == {r \in ServeReqs : pc[r] = "waiting"}

\* Requests counted by active_count: registered, not yet past EndGenerate.
ActivePcs == {"clearing", "begun", "running", "decoding", "ending",
              "cleaning", "freeing", "leaving"}
\* Requests that own a slot: acquired and not yet given back.
HoldingPcs == (ActivePcs \ {"leaving"}) \cup {"acquired", "registering", "unwind"}
Active     == {r \in Reqs : pc[r] \in ActivePcs}
Holding    == {r \in Reqs : pc[r] \in HoldingPcs}

\* The UI thread is inside BeginGenerate or Generate of some request, a failed
\* one until its guard has ended it too.
UiBusy == \E r \in NapiReqs :
              \/ pc[r] \in {"acquired", "registering", "unwind", "clearing", "begun", "guard"}
              \/ r \in guarded

Init ==
    /\ model = 0 /\ n_slots = 0 /\ slot_used = {} /\ recency_clock = 0
    /\ slot_owners = [i \in Slots |-> NoConv]
    /\ slot_recency = [i \in Slots |-> 0]
    /\ cache_size = 0
    /\ cached = [i \in Slots |-> Nobody] /\ kv = [i \in Slots |-> Nobody]
    /\ sessions = {} /\ stop_flag = [r \in Reqs |-> FALSE] /\ active_count = 0
    /\ stop_all = FALSE /\ clear_idle = FALSE /\ lifecycle = Nobody
    /\ pc = [r \in Reqs |-> "new"] /\ seq = [r \in Reqs |-> 0]
    /\ conv = [r \in Reqs |-> NoConv] /\ reset = [r \in Reqs |-> FALSE]
    /\ bound = [r \in Reqs |-> 0] /\ guarded = {}
    /\ spc = [t \in Threads |-> "idle"] /\ op = "none" /\ opc = "idle"
    /\ serving = TRUE /\ hpc = "idle"
    /\ loads = 0 /\ unloads = 0 /\ deletes = 0

-----------------------------------------------------------------------------
\* Beginning a request.

\* slot_reset_: the cache of slot i is not that of conversation c.
ResetIfUnowned(c, i) == c = NoConv          \* bug: the owner was overwritten first
ResetOnTake(c, i)    == c = NoConv \/ slot_owners[i] # c

\* The slot section of a successful acquisition: slot i goes to request r.
TakeSlot(r, c, i) ==
    /\ reset' = [reset EXCEPT ![r] = ResetOnTake(c, i)]
    /\ slot_owners' = [slot_owners EXCEPT ![i] = c]
    /\ recency_clock' = recency_clock + 1
    /\ slot_recency' = [slot_recency EXCEPT ![i] = recency_clock + 1]
    /\ slot_used' = slot_used \cup {i}
    /\ seq' = [seq EXCEPT ![r] = i]
    /\ conv' = [conv EXCEPT ![r] = c]
    /\ pc' = [pc EXCEPT ![r] = "acquired"]
    /\ UNCHANGED n_slots

Choice(r, c) ==
    SelectConversationSlot(slot_used, slot_owners, slot_recency, PoolOf(r), c)

Refuse(r) ==
    /\ pc' = [pc EXCEPT ![r] = "refused"]
    /\ UNCHANGED <<slotVars, reqVars>>

\* BeginGenerate up to the end of its slot section.
BeginGenerate(r, c) ==
    /\ pc[r] = "new" /\ ~UiBusy
    /\ \/ /\ \E i \in Choice(r, c) : TakeSlot(r, c, i)
          /\ UNCHANGED <<bound, guarded>>
       \/ Choice(r, c) = {} /\ Refuse(r)
    /\ UNCHANGED <<cacheVars, stopVars, opVars, httpVars, sessions, stop_flag,
                   active_count, lifecycle, deletes>>

\* The predicate of the wait in BeginGenerateBlocking.
GiveUp == n_slots = 0 \/ ~serving \/ stop_all
FreeSlotInPool(r) == PoolOf(r) \ slot_used # {}

\* Without a free slot the handler sleeps.  Its deadline, now +
\* milliseconds::max(), overflows, which is undefined: it may lie in the past, so
\* that the wait ends at once and 0 is returned, or never come.
SleepOrTimeOut(r) == IF pc[r] = "woken" THEN {"waiting"} ELSE {"waiting", "refused"}

\* BeginGenerateBlocking: the handler thread enters or wakes with slot_mutex_,
\* evaluates the predicate and either returns 0, takes a slot or sleeps.
BlockingEval(r) ==
    /\ pc[r] \in {"new", "woken"}
    /\ \/ GiveUp /\ Refuse(r)
       \/ /\ ~GiveUp
          /\ \E i \in Choice(r, NoConv) : TakeSlot(r, NoConv, i)
          /\ UNCHANGED <<bound, guarded>>
       \/ /\ ~GiveUp /\ ~FreeSlotInPool(r)
          /\ \E where \in SleepOrTimeOut(r) : pc' = [pc EXCEPT ![r] = where]
          /\ UNCHANGED <<slotVars, reqVars>>
    /\ UNCHANGED <<cacheVars, stopVars, opVars, httpVars, sessions, stop_flag,
                   active_count, lifecycle, deletes>>

\* Bug: the state is tested, but mutex_ is not kept for the registration.
CommitCheckUnlocked(r) ==
    /\ pc[r] = "acquired" /\ MutexFree
    /\ pc' = [pc EXCEPT ![r] =
                 IF Loaded /\ ~stop_all THEN "registering" ELSE "unwind"]
    /\ UNCHANGED <<slotVars, cacheVars, stopVars, reqVars, opVars, httpVars,
                   sessions, stop_flag, active_count, lifecycle, deletes>>

\* CommitGenerate, first half: mutex_ is taken and the state tested.
CommitCheck(r) ==
    /\ pc[r] = "acquired" /\ MutexFree
    /\ \/ /\ ~Loaded \/ stop_all
          /\ pc' = [pc EXCEPT ![r] = "unwind"]
          /\ UNCHANGED lifecycle
       \/ /\ Loaded /\ ~stop_all
          /\ pc' = [pc EXCEPT ![r] = "registering"]
          /\ lifecycle' = r
    /\ UNCHANGED <<slotVars, cacheVars, stopVars, reqVars, opVars, httpVars,
                   sessions, stop_flag, active_count, deletes>>

\* CommitGenerate, second half, still in mutex_: the session is registered.
CommitRegister(r) ==
    /\ pc[r] = "registering"
    /\ sessions' = sessions \cup {r}
    /\ stop_flag' = [stop_flag EXCEPT ![r] = FALSE]
    /\ active_count' = active_count + 1
    /\ bound' = [bound EXCEPT ![r] = model]
    /\ lifecycle' = Nobody
    /\ pc' = [pc EXCEPT ![r] =
                 IF r \in NapiReqs /\ reset[r] THEN "clearing" ELSE "begun"]
    /\ UNCHANGED <<slotVars, cacheVars, stopVars, opVars, httpVars, seq, conv,
                   reset, guarded, deletes>>

\* Bug: the slot is freed and nobody is notified.
NotifyNobody(r, next) == pc' = [pc EXCEPT ![r] = next]

\* notify_one on slot_cv_ by request r, which continues at `next`.
NotifyOne(r, next) ==
    \/ Waiters = {} /\ pc' = [pc EXCEPT ![r] = next]
    \/ \E w \in Waiters : pc' = [pc EXCEPT ![r] = next, ![w] = "woken"]

\* Bug: a refused commit keeps its slot.
KeepUnusedSlot(r) ==
    /\ pc[r] = "unwind"
    /\ NotifyOne(r, "refused")
    /\ UNCHANGED <<slotVars, cacheVars, stopVars, reqVars, opVars, httpVars,
                   sessions, stop_flag, active_count, lifecycle, deletes>>

\* ReleaseUnusedSlot after a refused commit; BeginGenerate returns 0.
ReleaseUnusedSlot(r) ==
    /\ pc[r] = "unwind"
    /\ slot_used' = slot_used \ {seq[r]}
    /\ NotifyOne(r, "refused")
    /\ UNCHANGED <<n_slots, slot_owners, slot_recency, recency_clock, cacheVars,
                   stopVars, reqVars, opVars, httpVars, sessions, stop_flag,
                   active_count, lifecycle, deletes>>

\* BeginGenerate clears a slot that changed owner, in decode_mutex_.
ClearOnReset(r) ==
    /\ pc[r] = "clearing"
    /\ cached' = [cached EXCEPT ![seq[r]] = Nobody]
    /\ kv' = [kv EXCEPT ![seq[r]] = Nobody]
    /\ pc' = [pc EXCEPT ![r] = "begun"]
    /\ UNCHANGED <<slotVars, cache_size, stopVars, reqVars, opVars, httpVars,
                   sessions, stop_flag, active_count, lifecycle, deletes>>

-----------------------------------------------------------------------------
\* The worker of a request.

Move(r, from, to) == pc[r] = from /\ pc' = [pc EXCEPT ![r] = to]

\* Generate hands the request to its worker, or fails (bad parameters, no
\* callback, no thread) and ends it: a UI request twice, by the call of the error
\* path and by the RequestSlotGuard that goes out of scope after it.
StartWorker(r) ==
    /\ \/ Move(r, "begun", "running") /\ UNCHANGED guarded
       \/ Move(r, "begun", "ending") /\ guarded' = guarded \cup ({r} \cap NapiReqs)
    /\ UNCHANGED <<slotVars, cacheVars, stopVars, seq, conv, reset, bound, opVars,
                   httpVars, sessions, stop_flag, active_count, lifecycle, deletes>>

\* Prefill: the cached prefix is reused or dropped, cached_tokens_ is cleared
\* and the sequence now holds this request's tokens.  The other branch is a
\* failure before the first decode lock.
Prefill(r) ==
    /\ \/ /\ Move(r, "running", "decoding")
          /\ cached' = [cached EXCEPT ![seq[r]] = Nobody]
          /\ kv' = [kv EXCEPT ![seq[r]] = conv[r]]
       \/ Move(r, "running", "ending") /\ UNCHANGED <<cached, kv>>
    /\ UNCHANGED <<slotVars, cache_size, stopVars, reqVars, opVars, httpVars,
                   sessions, stop_flag, active_count, lifecycle, deletes>>

\* The loop ends: a completed text run stores its tokens, a stopped, failed,
\* shifted or image run leaves the cache empty.
FinishRun(r) ==
    /\ Move(r, "decoding", "ending")
    /\ \/ cached' = [cached EXCEPT ![seq[r]] = conv[r]]
       \/ UNCHANGED cached
    /\ UNCHANGED <<slotVars, cache_size, kv, stopVars, reqVars, opVars,
                   httpVars, sessions, stop_flag, active_count, lifecycle,
                   deletes>>

\* Where a request continues when its EndGenerate returns.
AfterEnd(r) == IF r \in guarded THEN "guard" ELSE "done"

\* EndGenerate returns at once when the session is not in the table.
IfNotRegistered(r) == IF r \in sessions THEN AfterEnd(r) ELSE "cleaning"  \* bug
NoEarlyReturn(r)   == "cleaning"                                         \* bug
IfRegistered(r)    == IF r \in sessions THEN "cleaning" ELSE AfterEnd(r)

\* EndGenerate: the session is erased; a call that finds none returns.
EraseSession(r) ==
    /\ Move(r, "ending", IfRegistered(r)) \/ Move(r, "guard", IfRegistered(r))
    /\ sessions' = sessions \ {r}
    /\ guarded' = IF r \in sessions THEN guarded ELSE guarded \ {r}
    /\ UNCHANGED <<slotVars, cacheVars, stopVars, seq, conv, reset, bound, opVars,
                   httpVars, stop_flag, active_count, lifecycle, deletes>>

\* ReleaseSlot in decode_mutex_: an unowned slot loses its tokens, and a slot
\* without tokens loses its KV.
KeptTokens(i)     == IF slot_owners[i] = NoConv THEN Nobody ELSE cached[i]
KeptKvIfOwned(i)  == IF slot_owners[i] = NoConv THEN Nobody ELSE kv[i]   \* bug
KeptKv(i)         == IF KeptTokens(i) = Nobody THEN Nobody ELSE kv[i]

CleanSlot(r) ==
    LET i == seq[r]
    IN  /\ Move(r, "cleaning", "freeing")
        /\ cached' = [cached EXCEPT ![i] = KeptTokens(i)]
        /\ kv' = [kv EXCEPT ![i] = KeptKv(i)]
        /\ UNCHANGED <<slotVars, cache_size, stopVars, reqVars, opVars,
                       httpVars, sessions, stop_flag, active_count, lifecycle,
                       deletes>>

\* ReleaseSlot in slot_mutex_: the slot is free and one waiter is woken.
FreeSlot(r) ==
    /\ pc[r] = "freeing"
    /\ slot_used' = slot_used \ {seq[r]}
    /\ NotifyOne(r, "leaving")
    /\ UNCHANGED <<n_slots, slot_owners, slot_recency, recency_clock, cacheVars,
                   stopVars, reqVars, opVars, httpVars, sessions, stop_flag,
                   active_count, lifecycle, deletes>>

\* The last request out clears a pending stop-all.
LastBeforeLeaving == active_count = 0 /\ clear_idle     \* bug: the old count
LastToLeave       == active_count' = 0 /\ clear_idle

\* The end of EndGenerate, in mutex_.
LeaveActive(r) ==
    /\ Move(r, "leaving", AfterEnd(r)) /\ MutexFree
    /\ guarded' = guarded \ {r}
    /\ active_count' = active_count - 1
    /\ IF LastToLeave
       THEN stop_all' = FALSE /\ clear_idle' = FALSE
       ELSE UNCHANGED <<stop_all, clear_idle>>
    /\ UNCHANGED <<slotVars, cacheVars, spc, seq, conv, reset, bound, opVars,
                   httpVars, sessions, stop_flag, lifecycle, deletes>>

-----------------------------------------------------------------------------
\* Stopping and deleting.

\* RequestStop of one request, or a failed write of its HTTP response.
RequestStop(r) ==
    /\ r \in sessions /\ ~stop_flag[r]
    /\ stop_flag' = [stop_flag EXCEPT ![r] = TRUE]
    /\ UNCHANGED <<slotVars, cacheVars, stopVars, reqVars, opVars, httpVars,
                   sessions, active_count, lifecycle, pc, deletes>>

\* RequestStopAll(clear_when_idle): two stores, then the flags under
\* sessions_mutex_, then notify_all under slot_mutex_, then, only for
\* clear_when_idle, the test of active_count under mutex_.
AlwaysClearWhenIdle(t) == TRUE     \* bug: a load asks for the clearing too
ClearWhenIdle(t) == t # Op

StopAllBegin(t) ==
    /\ t \in Stoppers /\ spc[t] = "idle"
    /\ stop_all' = TRUE
    /\ spc' = [spc EXCEPT ![t] = "mode"]
    /\ UNCHANGED <<slotVars, cacheVars, clear_idle, reqVars, opVars, httpVars,
                   sessions, stop_flag, active_count, lifecycle, pc, deletes>>

StopAllMode(t) ==
    /\ spc[t] = "mode"
    /\ clear_idle' = ClearWhenIdle(t)
    /\ spc' = [spc EXCEPT ![t] = "flags"]
    /\ UNCHANGED <<slotVars, cacheVars, stop_all, reqVars, opVars, httpVars,
                   sessions, stop_flag, active_count, lifecycle, pc, deletes>>

StopAllFlags(t) ==
    /\ spc[t] = "flags"
    /\ stop_flag' = [r \in Reqs |-> stop_flag[r] \/ r \in sessions]
    /\ spc' = [spc EXCEPT ![t] = "notify"]
    /\ UNCHANGED <<slotVars, cacheVars, stop_all, clear_idle, reqVars, opVars,
                   httpVars, sessions, active_count, lifecycle, pc, deletes>>

WakeAll == pc' = [r \in Reqs |-> IF r \in Waiters THEN "woken" ELSE pc[r]]

StopAllNotify(t) ==
    /\ spc[t] = "notify"
    /\ WakeAll
    /\ spc' = [spc EXCEPT ![t] = IF ClearWhenIdle(t) THEN "settle" ELSE "done"]
    /\ UNCHANGED <<slotVars, cacheVars, stop_all, clear_idle, reqVars, opVars,
                   httpVars, sessions, stop_flag, active_count, lifecycle,
                   deletes>>

StopAllSettle(t) ==
    /\ spc[t] = "settle" /\ MutexFree
    /\ IF active_count = 0 THEN stop_all' = FALSE /\ clear_idle' = FALSE
                           ELSE UNCHANGED <<stop_all, clear_idle>>
    /\ spc' = [spc EXCEPT ![t] = "done"]
    /\ UNCHANGED <<slotVars, cacheVars, reqVars, opVars, httpVars, sessions,
                   stop_flag, active_count, lifecycle, pc, deletes>>

\* DeleteConversation holds mutex_, decode_mutex_ and slot_mutex_ throughout:
\* the conversation loses its slots, and idle ones their tokens and KV.  A
\* call that finds no slot changes nothing.
DeleteConversation(c) ==
    LET owned == {i \in 0 .. 2 * n_slots - 1 : slot_owners[i] = c}
        idle  == owned \ slot_used
    IN  /\ owned # {} /\ MutexFree /\ ~UiBusy /\ deletes < MaxDeletes
        /\ deletes' = deletes + 1
        /\ slot_owners' = [i \in Slots |-> IF i \in owned THEN NoConv ELSE slot_owners[i]]
        /\ slot_recency' = [i \in Slots |-> IF i \in owned THEN 0 ELSE slot_recency[i]]
        /\ cached' = [i \in Slots |-> IF i \in idle THEN Nobody ELSE cached[i]]
        /\ kv' = [i \in Slots |-> IF i \in idle THEN Nobody ELSE kv[i]]
        /\ UNCHANGED <<n_slots, slot_used, recency_clock, cache_size, stopVars,
                       reqVars, opVars, httpVars, sessions, stop_flag,
                       active_count, lifecycle, pc>>

\* HttpServer::Stop as the engine sees it: running_ falls, then the waiters
\* are notified.
ServerStop ==
    /\ serving /\ hpc = "idle" /\ MaxServerStops > 0
    /\ serving' = FALSE /\ hpc' = "notify"
    /\ UNCHANGED <<slotVars, cacheVars, stopVars, reqVars, opVars, sessions,
                   stop_flag, active_count, lifecycle, pc, deletes>>

NotifySlotWaiters ==
    /\ hpc = "notify"
    /\ WakeAll
    /\ hpc' = "stopped" /\ UNCHANGED serving
    /\ UNCHANGED <<slotVars, cacheVars, stopVars, reqVars, opVars, sessions,
                   stop_flag, active_count, lifecycle, deletes>>

-----------------------------------------------------------------------------
\* LoadModel and UnloadModel, in model_op_mutex_.

\* The first store of RequestStopAll() opens the operation.
OpBegin(kind) ==
    /\ opc = "idle"
    /\ op' = kind /\ opc' = "stopping"
    /\ stop_all' = TRUE
    /\ spc' = [spc EXCEPT ![Op] = "mode"]
    /\ UNCHANGED <<slotVars, cacheVars, clear_idle, reqVars, model, httpVars,
                   sessions, stop_flag, active_count, lifecycle, pc, deletes>>

LoadModel   == OpBegin("load") /\ loads < MaxLoads
               /\ loads' = loads + 1 /\ UNCHANGED unloads
UnloadModel == OpBegin("unload") /\ unloads < MaxUnloads
               /\ unloads' = unloads + 1 /\ UNCHANGED loads

OpUnchanged == UNCHANGED <<reqVars, httpVars, stop_flag, active_count,
                           lifecycle, pc, deletes, loads, unloads, op>>

\* What gen_cv_ waits for.
NoSessions == sessions = {}         \* bug: the table, erased before the work ends
Quiescent  == active_count = 0

\* In mutex_, when no request is active: all that the old model owned is freed.
FreeModel ==
    /\ opc = "stopping" /\ spc[Op] = "done" /\ MutexFree /\ Quiescent
    /\ model' = 0
    /\ cache_size' = 0
    /\ cached' = [i \in Slots |-> Nobody] /\ kv' = [i \in Slots |-> Nobody]
    /\ opc' = "tables"
    /\ UNCHANGED <<slotVars, stopVars, sessions>> /\ OpUnchanged

\* In slot_mutex_: the slot tables are emptied.
ClearTables ==
    /\ opc = "tables"
    /\ n_slots' = 0 /\ slot_used' = {} /\ recency_clock' = 0
    /\ slot_owners' = [i \in Slots |-> NoConv]
    /\ slot_recency' = [i \in Slots |-> 0]
    /\ opc' = "sessions"
    /\ UNCHANGED <<cacheVars, stopVars, sessions, model>> /\ OpUnchanged

\* In sessions_mutex_.  An unload ends here, a load goes on outside the locks.
ClearSessions ==
    /\ opc = "sessions"
    /\ sessions' = {}
    /\ opc' = IF op = "load" THEN "loading" ELSE "resume"
    /\ UNCHANGED <<slotVars, cacheVars, stopVars, model>> /\ OpUnchanged

\* The file is missing, or a context or pool cannot be made: PendingModel
\* frees what was built and nothing was published.
LoadFails ==
    /\ opc = "loading"
    /\ opc' = "resume"
    /\ UNCHANGED <<slotVars, cacheVars, stopVars, sessions, model>> /\ OpUnchanged

\* In mutex_: model_ and ctx_ become the new ones, with an empty KV cache.
PublishModel ==
    /\ opc = "loading" /\ MutexFree
    /\ model' = loads
    /\ kv' = [i \in Slots |-> Nobody]
    /\ opc' = "publish"
    /\ UNCHANGED <<slotVars, cache_size, cached, stopVars, sessions>> /\ OpUnchanged

\* Bug: n_slots_per_pool_ is given the number of all slots.
PublishAllAsPool(p) ==
    /\ opc = "publish"
    /\ n_slots' = 2 * p /\ slot_used' = {}
    /\ cache_size' = 2 * p
    /\ opc' = "resume"
    /\ UNCHANGED <<slot_owners, slot_recency, recency_clock, cached, kv, stopVars,
                   sessions, model>> /\ OpUnchanged

\* In slot_mutex_: the new slot tables are swapped in.  recency_clock_ is left.
PublishTables(p) ==
    /\ opc = "publish"
    /\ n_slots' = p /\ slot_used' = {}
    /\ slot_owners' = [i \in Slots |-> NoConv]
    /\ slot_recency' = [i \in Slots |-> 0]
    /\ cache_size' = 2 * p /\ cached' = [i \in Slots |-> Nobody]
    /\ opc' = "resume"
    /\ UNCHANGED <<recency_clock, kv, stopVars, sessions, model>> /\ OpUnchanged

\* ClearStopAll: two stores.
ResumeStopAll ==
    /\ opc = "resume"
    /\ stop_all' = FALSE
    /\ opc' = "resumed"
    /\ UNCHANGED <<slotVars, cacheVars, clear_idle, spc, sessions, model>>
    /\ OpUnchanged

ResumeMode ==
    /\ opc = "resumed"
    /\ clear_idle' = FALSE
    /\ opc' = "idle"
    /\ spc' = [spc EXCEPT ![Op] = "idle"]
    /\ UNCHANGED <<slotVars, cacheVars, stop_all, sessions, model>>
    /\ OpUnchanged

-----------------------------------------------------------------------------
RequestStep(r) ==
    \/ CommitCheck(r) \/ CommitRegister(r) \/ ReleaseUnusedSlot(r)
    \/ ClearOnReset(r) \/ StartWorker(r) \/ Prefill(r) \/ FinishRun(r)
    \/ EraseSession(r) \/ CleanSlot(r) \/ FreeSlot(r) \/ LeaveActive(r)

StopAllStep(t) ==
    StopAllMode(t) \/ StopAllFlags(t) \/ StopAllNotify(t) \/ StopAllSettle(t)

OpStep ==
    \/ FreeModel \/ ClearTables \/ ClearSessions \/ LoadFails \/ PublishModel
    \/ \E p \in LoadParallels : PublishTables(p)
    \/ ResumeStopAll \/ ResumeMode

Next ==
    \/ \E r \in NapiReqs, c \in Owners : BeginGenerate(r, c)
    \/ \E r \in ServeReqs : BlockingEval(r)
    \/ \E r \in Reqs : RequestStep(r) \/ RequestStop(r)
    \/ \E t \in Stoppers : StopAllBegin(t)
    \/ \E t \in Threads : StopAllStep(t)
    \/ \E c \in Conversations : DeleteConversation(c)
    \/ ServerStop \/ NotifySlotWaiters
    \/ LoadModel \/ UnloadModel \/ OpStep

Spec == Init /\ [][Next]_vars

\* What has been started goes on: every thread that can take its next step
\* does.  Starting a request, a stop or an operation is up to the user.
Fairness ==
    /\ \A r \in Reqs : WF_vars(RequestStep(r) \/ (pc[r] = "woken" /\ BlockingEval(r)))
    /\ \A t \in Threads : WF_vars(StopAllStep(t))
    /\ WF_vars(OpStep) /\ WF_vars(NotifySlotWaiters)

FairSpec == Spec /\ Fairness

-----------------------------------------------------------------------------
(***************************************************************************)
(* Properties.                                                             *)
(***************************************************************************)
RequestPcs == HoldingPcs \cup {"new", "woken", "waiting", "refused", "leaving",
                               "guard", "done"}
StopPcs    == {"idle", "mode", "flags", "notify", "settle", "done"}
OpPcs      == {"idle", "stopping", "tables", "sessions", "loading", "publish",
               "resume", "resumed"}

SlotTypes ==
    /\ n_slots \in 0 .. MaxParallel /\ slot_used \subseteq Slots
    /\ slot_owners \in [Slots -> Owners]
    /\ slot_recency \in [Slots -> Nat] /\ recency_clock \in Nat
    /\ cache_size \in Nat
    /\ cached \in [Slots -> Tokens] /\ kv \in [Slots -> Tokens]

RequestTypes ==
    /\ sessions \subseteq Reqs /\ stop_flag \in [Reqs -> BOOLEAN]
    /\ active_count \in Int /\ lifecycle \in Reqs \cup {Nobody}
    /\ pc \in [Reqs -> RequestPcs] /\ seq \in [Reqs -> Slots]
    /\ conv \in [Reqs -> Owners] /\ reset \in [Reqs -> BOOLEAN]
    /\ bound \in [Reqs -> Nat] /\ guarded \subseteq Reqs

ControlTypes ==
    /\ model \in Nat /\ stop_all \in BOOLEAN /\ clear_idle \in BOOLEAN
    /\ spc \in [Threads -> StopPcs]
    /\ op \in {"none", "load", "unload"} /\ opc \in OpPcs
    /\ serving \in BOOLEAN /\ hpc \in {"idle", "notify", "stopped"}
    /\ loads \in Nat /\ unloads \in Nat /\ deletes \in Nat

\* Every variable has the type its C++ declaration gives it.
TypeOK == SlotTypes /\ RequestTypes /\ ControlTypes

\* active_count_ counts exactly the requests between CommitGenerate and the
\* end of EndGenerate, whatever stops, failures and operations interleave.
ActiveCountExact == active_count = Cardinality(Active)

\* LoadModel and UnloadModel free model_ and ctx_ only while no request can
\* use them: each active request still has the model it was registered under.
ModelPinned == \A r \in Active : Loaded /\ bound[r] = model

\* A commit that has seen a model keeps mutex_ until its request is counted.
CommitInMutex ==
    \A r \in Reqs : /\ pc[r] = "registering" => Loaded
                    /\ pc[r] = "registering" <=> lifecycle = r

\* Between the free and the publication there is no model, and what a load
\* publishes is a model.
OpPhases ==
    /\ opc \in {"tables", "sessions", "loading"} => model = 0
    /\ opc = "loading" => op = "load"
    /\ op = "load" => loads > 0

\* Until it erases itself a request is in sessions_, so that EndGenerate never
\* takes the early return that would skip the slot and the count.
RegisteredPcs == {"clearing", "begun", "running", "decoding", "ending"}
RegisteredUntilEnd == \A r \in Reqs : pc[r] \in RegisteredPcs => r \in sessions

\* Once it has erased itself it is not, so that the second call, that of its
\* guard, always takes that return.
ErasedPcs   == {"cleaning", "freeing", "leaving", "guard"}
ErasedOnce  == \A r \in Reqs : pc[r] \in ErasedPcs => r \notin sessions

\* Why the model stays pinned: each part relies on the others.
PinInv ==
    /\ CommitInMutex /\ OpPhases /\ RegisteredUntilEnd /\ ErasedOnce
    /\ ActiveCountExact /\ ModelPinned

\* The engine keeps the promise of ModelLease: requests enter and leave one by
\* one, only under a resident model, and none is inside when it is replaced.
Lease     == INSTANCE ModelLease WITH Users <- Reqs, resident <- model, users <- Active
LeaseSpec == Lease!Spec

\* A task has a sequence slot of its own, from its acquisition until
\* ReleaseSlot, whatever pool it comes from.
LeasesExclusive == \A r, s \in Holding : seq[r] = seq[s] => r = s

\* The occupancy table is exact: no used slot without a request that will
\* give it back, and no request whose slot the table offers to another.
UsedSlotsHeld ==
    /\ \A i \in slot_used : \E r \in Holding : seq[r] = i
    /\ n_slots > 0 => \A r \in Holding : seq[r] \in slot_used

\* No conversation owns two slots, so two of its requests cannot run at once
\* and its cache is never split.
OneSlotPerConversation ==
    \A i, j \in Slots : slot_owners[i] = slot_owners[j] /\ slot_owners[i] # NoConv
                            => i = j

\* When the worker of a request starts, the sequence holds nothing but what
\* its own conversation put there: no conversation reuses the KV of another,
\* and an HTTP request, whose slot is not reset on acquisition, finds none.
StartsClean ==
    \A r \in Reqs : pc[r] \in {"begun", "running"} =>
        \A tokens \in {cached[seq[r]], kv[seq[r]]} :
            tokens = Nobody \/ (tokens = conv[r] /\ conv[r] # NoConv)

\* cached_tokens_ promises a prefix only of what the KV cache really holds,
\* and a slot is given back without tokens only after its KV was removed.
CacheDescribesKv ==
    \A i \in Slots :
        /\ cached[i] # Nobody => kv[i] = cached[i]
        /\ cached[i] = Nobody /\ i \notin slot_used => kv[i] = Nobody

\* While a load or unload waits for the active requests, each of them has
\* been told to stop, even one registered while the flags were being set.
StopReachesAll ==
    opc = "stopping" /\ spc[Op] = "done" =>
        \A r \in sessions : stop_flag[r] \/ stop_all

\* Whoever sets stop_all_, somebody is left who will clear it: the operation that
\* has not yet ended it, a stop-all that is still to leave its mark, or, under the
\* mark, the last active request or the stop-all that will find none.  Otherwise
\* the engine refuses everybody for good.
StopAllOwned ==
    stop_all =>
        \/ opc \notin {"idle", "resumed"}
        \/ \E t \in Stoppers : spc[t] = "mode"
        \/ clear_idle /\ \/ active_count > 0
                          \/ \E t \in Stoppers : spc[t] \in {"flags", "notify", "settle"}

\* Through every end of a request, every stop-all and every load and unload
\* stop_all_ is handed on to somebody who will clear it; only the second store of
\* ClearStopAll, which wipes a mark made after the first, can leave it to nobody.
StopAllHandedOn == [][StopAllOwned => StopAllOwned' \/ ResumeMode]_vars

\* When neither an operation nor a stop-all is under way, stop_all_ can only be
\* set for requests that still run and the last of which clears it, as the comment
\* of clear_stop_all_when_idle_ promises.
StopAllEndsWithLast ==
    stop_all /\ opc = "idle" /\ (\A t \in Stoppers : spc[t] \in {"idle", "done"})
        => clear_idle /\ active_count > 0

\* As docs/API.md says, a Serve request that finds its pool full is queued: it is
\* refused a slot only if the server stops, all stop or the model goes.
QueueWaits ==
    [][\A r \in ServeReqs :
          pc[r] \in {"new", "woken"} /\ pc'[r] = "refused" => GiveUp]_vars

\* No wakeup is lost: a sleeping Serve request gets its slot or its refusal.
WaitersServed ==
    \A r \in ServeReqs : pc[r] = "waiting" ~> pc[r] \in {"acquired", "refused"}

\* LoadModel and UnloadModel return: the requests they wait for all end.
OperationsEnd == opc # "idle" ~> opc = "idle"
=============================================================================
