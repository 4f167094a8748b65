------------------------- MODULE EngineStateProofs -------------------------
(***************************************************************************)
(* Theorems about EngineState for every number of requests, conversations, *)
(* stoppers, slots, loads and unloads.                                     *)
(***************************************************************************)
EXTENDS EngineState, FiniteSetTheorems, TLAPS

-----------------------------------------------------------------------------
\* Type correctness.

\* A chosen slot is an idle slot of the pool.
LEMMA ChoiceInPool ==
    ASSUME SlotTypes, NEW r \in Reqs, NEW c \in Owners, NEW i \in Choice(r, c)
    PROVE  i \in PoolOf(r) /\ i \in Slots /\ i \notin slot_used
<1>1. i \in PoolOf(r) /\ i \notin slot_used
  BY DEF Choice, SelectConversationSlot, OwnedSlots
<1>2. PoolOf(r) \subseteq Slots
  BY EngineAssumption DEF SlotTypes, PoolOf, Slots
<1> QED  BY <1>1, <1>2

LEMMA TypeInit == Init => TypeOK
<1> SUFFICES ASSUME Init PROVE TypeOK
  OBVIOUS
<1>1. SlotTypes
  BY EngineAssumption DEF Init, SlotTypes, Slots, Owners, Tokens
<1>2. 0 \in Slots
  BY EngineAssumption DEF Slots
<1>3. RequestTypes
  BY <1>2 DEF Init, RequestTypes, RequestPcs, HoldingPcs, ActivePcs, Owners
<1>4. ControlTypes
  BY DEF Init, ControlTypes, StopPcs, OpPcs
<1> QED  BY <1>1, <1>3, <1>4 DEF TypeOK

LEMMA NotifyOneType ==
    ASSUME RequestTypes, NEW r \in Reqs, NEW next \in RequestPcs, NotifyOne(r, next)
    PROVE  pc' \in [Reqs -> RequestPcs]
  BY DEF NotifyOne, Waiters, RequestTypes, RequestPcs, Reqs

LEMMA WakeAllType == RequestTypes /\ WakeAll => pc' \in [Reqs -> RequestPcs]
  BY DEF WakeAll, RequestTypes, RequestPcs

\* The slot section of an acquisition.
LEMMA TakeSlotType ==
    ASSUME SlotTypes, RequestTypes, NEW r \in Reqs, NEW c \in Owners,
           NEW i \in Slots, TakeSlot(r, c, i),
           UNCHANGED <<cacheVars, bound, guarded, sessions, stop_flag, active_count,
                       lifecycle>>
    PROVE  SlotTypes' /\ RequestTypes'
<1>1. SlotTypes'
  BY DEF TakeSlot, SlotTypes, cacheVars
<1>2. RequestTypes'
  BY DEF TakeSlot, ResetOnTake, RequestTypes, RequestPcs, HoldingPcs, Owners
<1> QED  BY <1>1, <1>2

\* The begin of a request, whichever way it acquires or is refused.
LEMMA BeginType ==
    ASSUME TypeOK, NEW r \in Reqs, NEW c \in Owners,
           BeginGenerate(r, c) \/ BlockingEval(r)
    PROVE  TypeOK'
<1> USE DEF TypeOK
<1>1. ControlTypes'
  BY DEF BeginGenerate, BlockingEval, ControlTypes, stopVars, opVars, httpVars
<1>2. ASSUME NEW d \in Owners, NEW i \in Choice(r, d), TakeSlot(r, d, i),
             UNCHANGED <<cacheVars, bound, guarded, sessions, stop_flag, active_count,
                       lifecycle>>
      PROVE  SlotTypes' /\ RequestTypes'
  BY <1>2, ChoiceInPool, TakeSlotType
<1>3. ASSUME NEW where \in RequestPcs, pc' = [pc EXCEPT ![r] = where],
             UNCHANGED <<slotVars, reqVars, cacheVars, sessions, stop_flag,
                         active_count, lifecycle>>
      PROVE  SlotTypes' /\ RequestTypes'
  BY <1>3 DEF SlotTypes, RequestTypes, slotVars, reqVars, cacheVars
<1>4. CASE BeginGenerate(r, c)
  BY <1>1, <1>2, <1>3, <1>4 DEF BeginGenerate, Refuse, RequestPcs
<1>5. CASE BlockingEval(r)
  BY <1>1, <1>2, <1>3, <1>5
  DEF BlockingEval, Refuse, SleepOrTimeOut, RequestPcs, Owners
<1> QED  BY <1>4, <1>5

\* The steps of a request that has its slot.
LEMMA RequestStepType ==
    ASSUME TypeOK, NEW r \in Reqs, RequestStep(r) \/ RequestStop(r)
    PROVE  TypeOK'
<1> USE DEF TypeOK
<1>1. CASE CommitCheck(r)
  BY <1>1 DEF CommitCheck, SlotTypes, RequestTypes, ControlTypes, RequestPcs,
     HoldingPcs, slotVars, cacheVars, stopVars, reqVars, opVars, httpVars
<1>2. CASE CommitRegister(r)
  BY <1>2 DEF CommitRegister, SlotTypes, RequestTypes, ControlTypes, RequestPcs,
     HoldingPcs, ActivePcs, slotVars, cacheVars, stopVars, opVars, httpVars
<1>3. CASE ReleaseUnusedSlot(r)
  <2>1. pc' \in [Reqs -> RequestPcs]
    BY <1>3, NotifyOneType DEF ReleaseUnusedSlot, RequestPcs
  <2> QED
    BY <1>3, <2>1 DEF ReleaseUnusedSlot, SlotTypes, RequestTypes, ControlTypes,
       cacheVars, stopVars, reqVars, opVars, httpVars
<1>4. CASE ClearOnReset(r)
  BY <1>4 DEF ClearOnReset, SlotTypes, RequestTypes, ControlTypes, RequestPcs,
     HoldingPcs, ActivePcs, Tokens, slotVars, stopVars, reqVars, opVars, httpVars
<1>5. CASE StartWorker(r)
  BY <1>5 DEF StartWorker, Move, SlotTypes, RequestTypes, ControlTypes, RequestPcs,
     HoldingPcs, ActivePcs, slotVars, cacheVars, stopVars, reqVars, opVars, httpVars
<1>6. CASE Prefill(r) \/ FinishRun(r)
  <2>1. pc' \in [Reqs -> RequestPcs]
    BY <1>6 DEF Prefill, FinishRun, Move, RequestTypes, RequestPcs, HoldingPcs, ActivePcs
  <2>2. SlotTypes'
    BY <1>6 DEF Prefill, FinishRun, SlotTypes, RequestTypes, Tokens, slotVars
  <2> QED
    BY <1>6, <2>1, <2>2 DEF Prefill, FinishRun, RequestTypes, ControlTypes,
       stopVars, reqVars, opVars, httpVars
<1>7. CASE EraseSession(r)
  BY <1>7 DEF EraseSession, IfRegistered, AfterEnd, Move, SlotTypes, RequestTypes, ControlTypes,
     RequestPcs, HoldingPcs, ActivePcs, slotVars, cacheVars, stopVars, reqVars,
     opVars, httpVars
<1>8. CASE CleanSlot(r)
  BY <1>8 DEF CleanSlot, KeptTokens, KeptKv, Move, SlotTypes, RequestTypes,
     ControlTypes, RequestPcs, HoldingPcs, ActivePcs, Tokens, slotVars, stopVars,
     reqVars, opVars, httpVars
<1>9. CASE FreeSlot(r)
  <2>1. pc' \in [Reqs -> RequestPcs]
    BY <1>9, NotifyOneType DEF FreeSlot, RequestPcs
  <2> QED
    BY <1>9, <2>1 DEF FreeSlot, SlotTypes, RequestTypes, ControlTypes,
       cacheVars, stopVars, reqVars, opVars, httpVars
<1>10. CASE LeaveActive(r)
  <2>1. stop_all' \in BOOLEAN /\ clear_idle' \in BOOLEAN
    BY <1>10 DEF LeaveActive, ControlTypes
  <2>2. RequestTypes'
    BY <1>10 DEF LeaveActive, AfterEnd, Move, RequestTypes, RequestPcs
  <2> QED
    BY <1>10, <2>1, <2>2 DEF LeaveActive, SlotTypes, ControlTypes, slotVars,
       cacheVars, opVars, httpVars
<1>11. CASE RequestStop(r)
  BY <1>11 DEF RequestStop, SlotTypes, RequestTypes, ControlTypes, slotVars,
     cacheVars, stopVars, reqVars, opVars, httpVars
<1> QED
  BY <1>1, <1>2, <1>3, <1>4, <1>5, <1>6, <1>7, <1>8, <1>9, <1>10, <1>11
  DEF RequestStep

\* Stopping, deleting and the HTTP server.
LEMMA StopType ==
    ASSUME TypeOK,
           \/ \E t \in Threads : StopAllBegin(t) \/ StopAllStep(t)
           \/ \E c \in Conversations : DeleteConversation(c)
           \/ ServerStop \/ NotifySlotWaiters
    PROVE  TypeOK'
<1> USE DEF TypeOK, SlotTypes, RequestTypes, ControlTypes, slotVars, cacheVars,
            stopVars, reqVars, opVars, httpVars, StopPcs
<1>1. ASSUME NEW t \in Threads, StopAllBegin(t) \/ StopAllMode(t) \/ StopAllFlags(t)
      PROVE  TypeOK'
  BY <1>1 DEF StopAllBegin, StopAllMode, StopAllFlags, ClearWhenIdle
<1>2. ASSUME NEW t \in Threads, StopAllNotify(t)
      PROVE  TypeOK'
  BY <1>2, WakeAllType DEF StopAllNotify
<1>3. ASSUME NEW t \in Threads, StopAllSettle(t)
      PROVE  TypeOK'
  BY <1>3 DEF StopAllSettle
<1>4. ASSUME NEW c \in Conversations, DeleteConversation(c)
      PROVE  TypeOK'
  BY <1>4 DEF DeleteConversation, Owners, Tokens
<1>5. CASE ServerStop
  BY <1>5 DEF ServerStop
<1>6. CASE NotifySlotWaiters
  BY <1>6, WakeAllType DEF NotifySlotWaiters
<1> QED  BY <1>1, <1>2, <1>3, <1>4, <1>5, <1>6 DEF StopAllStep

\* The model operations.
LEMMA OpType ==
    ASSUME TypeOK, LoadModel \/ UnloadModel \/ OpStep
    PROVE  TypeOK'
<1> USE DEF TypeOK, SlotTypes, RequestTypes, ControlTypes, slotVars, cacheVars,
            stopVars, reqVars, httpVars, StopPcs, OpPcs, OpUnchanged
<1>1. CASE LoadModel \/ UnloadModel
  <2>1. PICK kind \in {"load", "unload"} : OpBegin(kind)
    BY <1>1 DEF LoadModel, UnloadModel
  <2>2. loads' \in Nat /\ unloads' \in Nat
    BY <1>1 DEF LoadModel, UnloadModel
  <2> QED  BY <2>1, <2>2 DEF OpBegin, Threads
<1>2. CASE FreeModel
  BY <1>2 DEF FreeModel, Tokens
<1>6. CASE ClearTables
  BY <1>6, EngineAssumption DEF ClearTables, Owners
<1>7. CASE ClearSessions
  BY <1>7 DEF ClearSessions
<1>3. CASE LoadFails \/ PublishModel
  BY <1>3 DEF LoadFails, PublishModel, Tokens
<1>4. ASSUME NEW p \in LoadParallels, PublishTables(p)
      PROVE  TypeOK'
  BY <1>4, EngineAssumption DEF PublishTables, Owners, Tokens
<1>5. CASE ResumeStopAll \/ ResumeMode
  BY <1>5 DEF ResumeStopAll, ResumeMode, Threads
<1> QED  BY <1>1, <1>2, <1>3, <1>4, <1>5, <1>6, <1>7 DEF OpStep

LEMMA TypeNext == TypeOK /\ [Next]_vars => TypeOK'
<1> SUFFICES ASSUME TypeOK, [Next]_vars PROVE TypeOK'
  OBVIOUS
<1>1. CASE UNCHANGED vars
  BY <1>1 DEF TypeOK, SlotTypes, RequestTypes, ControlTypes, vars, slotVars,
     cacheVars, stopVars, reqVars, opVars, httpVars
<1>2. CASE Next
  <2>1. NapiReqs \subseteq Reqs /\ ServeReqs \subseteq Reqs /\ Stoppers \subseteq Threads
        /\ NoConv \in Owners
    BY DEF Reqs, Threads, Owners
  <2> QED  BY <1>2, <2>1, BeginType, RequestStepType, StopType, OpType DEF Next
<1> QED  BY <1>1, <1>2

\* Every reachable state is well typed.
THEOREM TypeCorrect == Spec => []TypeOK
  BY TypeInit, TypeNext, PTL DEF Spec

-----------------------------------------------------------------------------
\* The model is pinned: the count is exact, a commit happens under mutex_, and
\* the model is freed and published only at a count of zero.

\* All of these are about active requests, the mutex holder, the operation and
\* the model; the steps that touch none of them preserve PinInv.
pinVars == <<lifecycle, active_count, model, op, opc, loads>>

LEMMA ActiveFinite == IsFiniteSet(Active)
<1>1. IsFiniteSet(Reqs)
  BY EngineAssumption, FS_Union DEF Reqs
<1> QED  BY <1>1, FS_Subset DEF Active

LEMMA PinInit == Init => PinInv
<1> SUFFICES ASSUME Init PROVE PinInv
  OBVIOUS
<1>1. Active = {}
  BY DEF Init, Active, ActivePcs
<1>2. ActiveCountExact
  BY <1>1, FS_EmptySet DEF Init, ActiveCountExact
<1> QED
  BY <1>1, <1>2, EngineAssumption DEF Init, PinInv, CommitInMutex, OpPhases, ModelPinned,
     RegisteredUntilEnd, RegisteredPcs, ErasedOnce, ErasedPcs

\* A step that moves no request into or out of the commit, the active requests
\* and the registered ones, and changes nothing else PinInv is about.
SameGroups ==
    /\ Active' = Active
    /\ \A r \in Reqs : /\ (pc'[r] = "registering") <=> (pc[r] = "registering")
                       /\ pc'[r] \in RegisteredPcs => pc[r] \in RegisteredPcs
                       /\ pc'[r] \in ErasedPcs => pc[r] \in ErasedPcs \/ r \notin sessions'

LEMMA PinQuiet ==
    ASSUME TypeOK, PinInv, SameGroups, UNCHANGED <<pinVars, bound>>, sessions' \subseteq sessions,
           \A r \in Reqs : r \in sessions /\ r \notin sessions' => pc'[r] \notin RegisteredPcs
    PROVE  PinInv'
<1>1. CommitInMutex' /\ OpPhases' /\ ActiveCountExact' /\ ModelPinned'
  BY DEF PinInv, CommitInMutex, OpPhases, ActiveCountExact, ModelPinned, pinVars, Loaded,
     SameGroups
<1>2. RegisteredUntilEnd' /\ ErasedOnce'
  BY DEF PinInv, RegisteredUntilEnd, ErasedOnce, SameGroups
<1> QED  BY <1>1, <1>2 DEF PinInv

\* Waking waiters moves no request into or out of the sets that count.
LEMMA WakeAllQuiet ==
    ASSUME TypeOK, WakeAll
    PROVE  SameGroups
  BY DEF WakeAll, Waiters, SameGroups, Active, ActivePcs, RegisteredPcs, ErasedPcs, TypeOK,
     RequestTypes

LEMMA NotifyOneQuiet ==
    ASSUME TypeOK, NEW r \in Reqs, NEW next \in RequestPcs \ {"registering"},
           NotifyOne(r, next), pc[r] # "registering", next \notin RegisteredPcs,
           pc[r] \in ActivePcs <=> next \in ActivePcs, next \in ErasedPcs => pc[r] \in ErasedPcs
    PROVE  SameGroups
  BY DEF NotifyOne, Waiters, SameGroups, Active, ActivePcs, RegisteredPcs, ErasedPcs, TypeOK,
     RequestTypes, Reqs

LEMMA PinCommitCheck ==
    ASSUME TypeOK, PinInv, NEW r \in Reqs, CommitCheck(r)
    PROVE  PinInv'
<1>1. Active' = Active
  BY DEF CommitCheck, Active, ActivePcs, TypeOK, RequestTypes
<1>2. CommitInMutex'
  BY EngineAssumption DEF CommitCheck, PinInv, CommitInMutex, TypeOK, RequestTypes, MutexFree,
     Loaded, opVars
<1>3. OpPhases' /\ ActiveCountExact' /\ ModelPinned'
  BY <1>1 DEF CommitCheck, PinInv, OpPhases, ActiveCountExact, ModelPinned, Loaded,
     opVars, reqVars
<1>4. RegisteredUntilEnd' /\ ErasedOnce'
  BY DEF CommitCheck, PinInv, RegisteredUntilEnd, RegisteredPcs, ErasedOnce, ErasedPcs, TypeOK,
     RequestTypes
<1> QED  BY <1>2, <1>3, <1>4 DEF PinInv

LEMMA PinCommitRegister ==
    ASSUME TypeOK, PinInv, NEW r \in Reqs, CommitRegister(r)
    PROVE  PinInv'
<1>1. r \notin Active /\ Active' = Active \cup {r}
  BY DEF CommitRegister, Active, ActivePcs, TypeOK, RequestTypes
<1>2. Loaded /\ lifecycle = r /\ \A s \in Reqs : pc[s] = "registering" => s = r
  BY DEF CommitRegister, PinInv, CommitInMutex
<1>3. CommitInMutex'
  BY <1>2, EngineAssumption DEF CommitRegister, CommitInMutex, TypeOK, RequestTypes
<1>4. OpPhases'
  BY DEF CommitRegister, PinInv, OpPhases, opVars
<1>5. ActiveCountExact'
  BY <1>1, ActiveFinite, FS_AddElement DEF CommitRegister, PinInv, ActiveCountExact
<1>6. ModelPinned'
  BY <1>1, <1>2 DEF CommitRegister, PinInv, ModelPinned, Loaded, TypeOK, RequestTypes,
     Active, opVars
<1>7. RegisteredUntilEnd' /\ ErasedOnce'
  BY DEF CommitRegister, PinInv, RegisteredUntilEnd, ErasedOnce, ErasedPcs, TypeOK, RequestTypes
<1> QED  BY <1>3, <1>4, <1>5, <1>6, <1>7 DEF PinInv

LEMMA PinLeaveActive ==
    ASSUME TypeOK, PinInv, NEW r \in Reqs, LeaveActive(r)
    PROVE  PinInv'
<1>0. PICK next \in {"guard", "done"} : pc[r] = "leaving" /\ pc' = [pc EXCEPT ![r] = next]
  BY DEF LeaveActive, Move, AfterEnd
<1>1. r \in Active /\ Active' = Active \ {r}
  BY <1>0 DEF Active, ActivePcs, TypeOK, RequestTypes
<1>2. CommitInMutex'
  BY <1>0 DEF LeaveActive, PinInv, CommitInMutex, TypeOK, RequestTypes, Loaded, opVars
<1>3. OpPhases'
  BY DEF LeaveActive, PinInv, OpPhases, opVars
<1>4. ActiveCountExact'
  BY <1>1, ActiveFinite, FS_RemoveElement DEF LeaveActive, PinInv, ActiveCountExact
<1>5. ModelPinned'
  BY <1>1 DEF LeaveActive, PinInv, ModelPinned, Loaded, opVars
<1>6. RegisteredUntilEnd' /\ ErasedOnce'
  BY <1>0 DEF LeaveActive, PinInv, RegisteredUntilEnd, RegisteredPcs, ErasedOnce, ErasedPcs,
     TypeOK, RequestTypes
<1> QED  BY <1>2, <1>3, <1>4, <1>5, <1>6 DEF PinInv

\* The first EndGenerate of a request finds its session, that of its guard does not.
LEMMA EraseMoves ==
    ASSUME PinInv, NEW r \in Reqs, EraseSession(r)
    PROVE  \E next \in {"cleaning", "guard", "done"} :
               /\ pc' = [pc EXCEPT ![r] = next]
               /\ \/ pc[r] = "ending" /\ next = "cleaning"
                  \/ pc[r] = "guard" /\ next # "cleaning"
<1>1. CASE Move(r, "ending", IfRegistered(r))
  <2>1. r \in sessions
    BY <1>1 DEF Move, PinInv, RegisteredUntilEnd, RegisteredPcs
  <2> QED  BY <1>1, <2>1 DEF Move, IfRegistered
<1>2. CASE Move(r, "guard", IfRegistered(r))
  <2>1. r \notin sessions
    BY <1>2 DEF Move, PinInv, ErasedOnce, ErasedPcs
  <2> QED  BY <1>2, <2>1 DEF Move, IfRegistered, AfterEnd
<1> QED  BY <1>1, <1>2 DEF EraseSession

LEMMA PinRequestStep ==
    ASSUME TypeOK, PinInv, NEW r \in Reqs, RequestStep(r) \/ RequestStop(r)
    PROVE  PinInv'
<1> USE DEF pinVars
<1>1. CASE CommitCheck(r)
  BY <1>1, PinCommitCheck
<1>2. CASE CommitRegister(r)
  BY <1>2, PinCommitRegister
<1>3. CASE ReleaseUnusedSlot(r)
  BY <1>3, NotifyOneQuiet, PinQuiet
  DEF ReleaseUnusedSlot, RequestPcs, ActivePcs, RegisteredPcs, ErasedPcs, opVars, reqVars
<1>4. CASE FreeSlot(r)
  BY <1>4, NotifyOneQuiet, PinQuiet
  DEF FreeSlot, RequestPcs, HoldingPcs, ActivePcs, RegisteredPcs, ErasedPcs, opVars, reqVars
<1>5. CASE LeaveActive(r)
  BY <1>5, PinLeaveActive
<1>6. CASE EraseSession(r)
  <2>1. PICK next \in {"cleaning", "guard", "done"} :
            /\ pc' = [pc EXCEPT ![r] = next]
            /\ \/ pc[r] = "ending" /\ next = "cleaning"
               \/ pc[r] = "guard" /\ next # "cleaning"
    BY <1>6, EraseMoves
  <2>2. sessions' = sessions \ {r}
    BY <1>6 DEF EraseSession
  <2>3. SameGroups
    BY <2>1, <2>2 DEF SameGroups, Active, ActivePcs, RegisteredPcs, ErasedPcs, TypeOK, RequestTypes
  <2>4. UNCHANGED <<lifecycle, active_count, model, op, opc, loads, bound>>
    BY <1>6 DEF EraseSession, opVars
  <2> QED
    BY <2>1, <2>2, <2>3, <2>4, PinQuiet DEF RegisteredPcs, TypeOK, RequestTypes
<1>7. CASE \/ ClearOnReset(r) \/ StartWorker(r) \/ Prefill(r) \/ FinishRun(r)
           \/ CleanSlot(r) \/ RequestStop(r)
  <2>1. SameGroups
    BY <1>7 DEF ClearOnReset, StartWorker, Prefill, FinishRun, CleanSlot, RequestStop,
       Move, SameGroups, Active, ActivePcs, RegisteredPcs, ErasedPcs, TypeOK, RequestTypes
  <2>2. UNCHANGED <<lifecycle, active_count, model, op, opc, loads, bound, sessions>>
    BY <1>7 DEF ClearOnReset, StartWorker, Prefill, FinishRun, CleanSlot, RequestStop,
       opVars, reqVars
  <2> QED  BY <2>1, <2>2, PinQuiet
<1> QED  BY <1>1, <1>2, <1>3, <1>4, <1>5, <1>6, <1>7 DEF RequestStep

\* A request that begins is not active yet, and does not commit.
LEMMA PinBegin ==
    ASSUME TypeOK, PinInv, NEW r \in Reqs, NEW c \in Owners,
           BeginGenerate(r, c) \/ BlockingEval(r)
    PROVE  PinInv'
<1>1. PICK where \in {"acquired", "refused", "waiting"} :
          pc' = [pc EXCEPT ![r] = where]
  BY DEF BeginGenerate, BlockingEval, TakeSlot, Refuse, SleepOrTimeOut
<1>2. pc[r] \in {"new", "woken"}
  BY DEF BeginGenerate, BlockingEval
<1>3. UNCHANGED <<lifecycle, active_count, model, op, opc, loads, bound, sessions>>
  BY DEF BeginGenerate, BlockingEval, Refuse, opVars, reqVars
<1>4. SameGroups
  BY <1>1, <1>2 DEF SameGroups, Active, ActivePcs, RegisteredPcs, ErasedPcs, TypeOK, RequestTypes
<1> QED  BY <1>3, <1>4, PinQuiet DEF pinVars

LEMMA PinStop ==
    ASSUME TypeOK, PinInv,
           \/ \E t \in Threads : StopAllBegin(t) \/ StopAllStep(t)
           \/ \E c \in Conversations : DeleteConversation(c)
           \/ ServerStop \/ NotifySlotWaiters
    PROVE  PinInv'
<1>1. UNCHANGED <<lifecycle, active_count, model, op, opc, loads, bound, sessions>>
  BY DEF StopAllBegin, StopAllStep, StopAllMode, StopAllFlags, StopAllNotify,
     StopAllSettle, DeleteConversation, ServerStop, NotifySlotWaiters, opVars, reqVars
<1>2. UNCHANGED pc \/ WakeAll
  BY DEF StopAllBegin, StopAllStep, StopAllMode, StopAllFlags, StopAllNotify,
     StopAllSettle, DeleteConversation, ServerStop, NotifySlotWaiters
<1>3. SameGroups
  BY <1>2, WakeAllQuiet DEF SameGroups, Active
<1> QED  BY <1>1, <1>3, PinQuiet DEF pinVars

\* While an operation is past the free and before the publication nobody is
\* active: an active request would have a model.
LEMMA NobodyActive == ModelPinned /\ model = 0 => Active = {}
  BY DEF ModelPinned, Loaded

LEMMA PinOp ==
    ASSUME TypeOK, PinInv, LoadModel \/ UnloadModel \/ OpStep
    PROVE  PinInv'
<1>1. Active' = Active
  BY DEF Active, LoadModel, UnloadModel, OpBegin, OpStep, FreeModel, ClearTables,
     ClearSessions, LoadFails, PublishModel, PublishTables, ResumeStopAll, ResumeMode,
     OpUnchanged
<1>2. UNCHANGED <<pc, lifecycle, active_count, bound>>
  BY DEF LoadModel, UnloadModel, OpBegin, OpStep, FreeModel, ClearTables,
     ClearSessions, LoadFails, PublishModel, PublishTables, ResumeStopAll, ResumeMode,
     OpUnchanged, reqVars
<1>3. ActiveCountExact'
  BY <1>1, <1>2 DEF PinInv, ActiveCountExact
<1>4. OpPhases'
  <2> USE DEF PinInv, OpPhases, OpUnchanged
  <2>1. CASE LoadModel \/ UnloadModel
    BY <2>1 DEF LoadModel, UnloadModel, OpBegin, TypeOK, ControlTypes
  <2>2. CASE FreeModel \/ ClearTables \/ ClearSessions
    BY <2>2 DEF FreeModel, ClearTables, ClearSessions
  <2>3. CASE LoadFails \/ PublishModel \/ \E p \in LoadParallels : PublishTables(p)
    BY <2>3 DEF LoadFails, PublishModel, PublishTables
  <2>4. CASE ResumeStopAll \/ ResumeMode
    BY <2>4 DEF ResumeStopAll, ResumeMode
  <2> QED  BY <2>1, <2>2, <2>3, <2>4 DEF OpStep
<1>5. CASE UNCHANGED <<model, sessions>>
  BY <1>1, <1>2, <1>3, <1>4, <1>5
  DEF PinInv, CommitInMutex, RegisteredUntilEnd, ErasedOnce, ModelPinned, Loaded
<1>6. CASE FreeModel \/ ClearSessions \/ PublishModel
  <2>1. Active = {}
    <3>1. CASE FreeModel
      BY <3>1, ActiveFinite, FS_EmptySet
      DEF FreeModel, Quiescent, PinInv, ActiveCountExact
    <3>2. CASE ClearSessions \/ PublishModel
      BY <3>2, NobodyActive DEF ClearSessions, PublishModel, PinInv, OpPhases
    <3> QED  BY <1>6, <3>1, <3>2
  <2>2. \A r \in Reqs : pc[r] \notin RegisteredPcs
    BY <2>1 DEF Active, ActivePcs, RegisteredPcs
  <2>3. \A r \in Reqs : pc[r] # "registering"
    <3>1. CASE FreeModel \/ PublishModel
      BY <3>1, EngineAssumption
      DEF FreeModel, PublishModel, MutexFree, PinInv, CommitInMutex
    <3>2. CASE ClearSessions
      BY <3>2 DEF ClearSessions, PinInv, OpPhases, CommitInMutex, Loaded
    <3> QED  BY <1>6, <3>1, <3>2
  <2>4. ErasedOnce'
    BY <1>2, <1>6 DEF FreeModel, ClearSessions, PublishModel, PinInv, ErasedOnce
  <2> QED
    BY <1>1, <1>2, <1>3, <1>4, <2>1, <2>2, <2>3, <2>4
    DEF PinInv, CommitInMutex, RegisteredUntilEnd, ModelPinned
<1>7. \/ UNCHANGED <<model, sessions>>
      \/ FreeModel \/ ClearSessions \/ PublishModel
  BY DEF LoadModel, UnloadModel, OpBegin, OpStep, ClearTables, LoadFails, PublishTables,
     ResumeStopAll, ResumeMode
<1> QED  BY <1>5, <1>6, <1>7

LEMMA PinNext == TypeOK /\ PinInv /\ [Next]_vars => PinInv'
<1> SUFFICES ASSUME TypeOK, PinInv, [Next]_vars PROVE PinInv'
  OBVIOUS
<1>1. CASE UNCHANGED vars
  BY <1>1 DEF PinInv, CommitInMutex, OpPhases, RegisteredUntilEnd, ErasedOnce,
     ActiveCountExact, ModelPinned, Active, Loaded, vars, reqVars, opVars
<1>2. CASE Next
  <2>1. NapiReqs \subseteq Reqs /\ ServeReqs \subseteq Reqs /\ Stoppers \subseteq Threads
        /\ NoConv \in Owners
    BY DEF Reqs, Threads, Owners
  <2> QED  BY <1>2, <2>1, PinBegin, PinRequestStep, PinStop, PinOp DEF Next
<1> QED  BY <1>1, <1>2

LEMMA PinCorrect == Spec => []PinInv
  BY PinInit, PinNext, TypeCorrect, PTL DEF Spec

\* active_count_ is exact, so EndGenerate's notification and the wait of a load
\* for zero mean what they say.
THEOREM CountIsExact == Spec => []ActiveCountExact
  BY PinCorrect, PTL DEF PinInv

\* No load or unload frees the model under an active request.
THEOREM ModelStaysPinned == Spec => []ModelPinned
  BY PinCorrect, PTL DEF PinInv

\* From its first EndGenerate on, the session of a request is gone for good, so the
\* call of its RequestSlotGuard never gives back a slot or a count a second time.
THEOREM SecondEndFindsNothing == Spec => []ErasedOnce
  BY PinCorrect, PTL DEF PinInv

-----------------------------------------------------------------------------
\* The engine implements ModelLease.

LEMMA LeaseInit == Init => Lease!Init
  BY DEF Init, Lease!Init, Active, ActivePcs

\* A step that changes neither the model nor the active requests stutters, a
\* registration admits, a leave retires, a free or a publication replaces.
LEMMA LeaseNext == TypeOK /\ PinInv /\ [Next]_vars => [Lease!Next]_(Lease!leaseVars)
<1> SUFFICES ASSUME TypeOK, PinInv, [Next]_vars
             PROVE  Lease!Next \/ UNCHANGED <<model, Active>>
  BY DEF Lease!leaseVars
<1>1. CASE \E r \in Reqs : CommitRegister(r)
  <2>1. PICK r \in Reqs : CommitRegister(r)
    BY <1>1
  <2>2. r \notin Active /\ Active' = Active \cup {r} /\ UNCHANGED model
    BY <2>1 DEF CommitRegister, Active, ActivePcs, TypeOK, RequestTypes, opVars
  <2>3. model # 0
    BY <2>1 DEF CommitRegister, PinInv, CommitInMutex, Loaded
  <2> QED  BY <2>2, <2>3 DEF Lease!Next, Lease!Admit
<1>2. CASE \E r \in Reqs : LeaveActive(r)
  <2>1. PICK r \in Reqs : LeaveActive(r)
    BY <1>2
  <2>2. r \in Active /\ Active' = Active \ {r} /\ UNCHANGED model
    BY <2>1 DEF LeaveActive, AfterEnd, Move, Active, ActivePcs, TypeOK, RequestTypes, opVars
  <2> QED  BY <2>1, <2>2 DEF Lease!Next, Lease!Retire
<1>3. CASE FreeModel \/ PublishModel
  <2>1. Active = {}
    <3>1. CASE FreeModel
      BY <3>1, ActiveFinite, FS_EmptySet
      DEF FreeModel, Quiescent, PinInv, ActiveCountExact
    <3>2. CASE PublishModel
      BY <3>2, NobodyActive DEF PublishModel, PinInv, OpPhases
    <3> QED  BY <1>3, <3>1, <3>2
  <2>2. Active' = Active /\ model' \in Nat
    BY <1>3 DEF FreeModel, PublishModel, OpUnchanged, Active, TypeOK, ControlTypes
  <2> QED  BY <2>1, <2>2 DEF Lease!Next, Lease!Replace
<1>4. CASE UNCHANGED vars
  BY <1>4 DEF vars, opVars, Active
<1> DEFINE begins == \/ \E r \in NapiReqs, c \in Owners : BeginGenerate(r, c)
                     \/ \E r \in ServeReqs : BlockingEval(r)
<1>5. CASE begins
  <2>1. PICK r \in Reqs, where \in {"acquired", "refused", "waiting"} :
            pc[r] \in {"new", "woken"} /\ pc' = [pc EXCEPT ![r] = where]
    BY <1>5 DEF BeginGenerate, BlockingEval, TakeSlot, Refuse, SleepOrTimeOut, Reqs
  <2>2. UNCHANGED model
    BY <1>5 DEF BeginGenerate, BlockingEval, opVars
  <2> QED  BY <2>1, <2>2 DEF Active, ActivePcs, TypeOK, RequestTypes
<1>6. CASE \E r \in Reqs : ReleaseUnusedSlot(r) \/ FreeSlot(r)
  <2>1. PICK r \in Reqs : ReleaseUnusedSlot(r) \/ FreeSlot(r)
    BY <1>6
  <2>2. SameGroups
    <3>1. CASE ReleaseUnusedSlot(r)
      BY <3>1, NotifyOneQuiet
      DEF ReleaseUnusedSlot, RequestPcs, ActivePcs, RegisteredPcs, ErasedPcs
    <3>2. CASE FreeSlot(r)
      BY <3>2, NotifyOneQuiet
      DEF FreeSlot, RequestPcs, HoldingPcs, ActivePcs, RegisteredPcs, ErasedPcs
    <3> QED  BY <2>1, <3>1, <3>2
  <2> QED  BY <2>1, <2>2 DEF ReleaseUnusedSlot, FreeSlot, SameGroups, opVars
<1>7. CASE \E r \in Reqs : EraseSession(r)
  <2>1. PICK r \in Reqs : EraseSession(r)
    BY <1>7
  <2>2. UNCHANGED model
    BY <2>1 DEF EraseSession, opVars
  <2> QED
    BY <2>1, <2>2, EraseMoves DEF Active, ActivePcs, TypeOK, RequestTypes
<1>8. CASE \E r \in Reqs : \/ CommitCheck(r) \/ ClearOnReset(r) \/ StartWorker(r)
                           \/ Prefill(r) \/ FinishRun(r) \/ CleanSlot(r) \/ RequestStop(r)
  BY <1>8 DEF CommitCheck, ClearOnReset, StartWorker, Prefill, FinishRun, CleanSlot,
     RequestStop, Move, Active, ActivePcs, TypeOK, RequestTypes, opVars
<1> DEFINE stops == \/ \E t \in Stoppers : StopAllBegin(t)
                    \/ \E t \in Threads : StopAllStep(t)
                    \/ \E c \in Conversations : DeleteConversation(c)
                    \/ ServerStop \/ NotifySlotWaiters
<1>9. CASE stops
  <2>1. UNCHANGED model /\ (UNCHANGED pc \/ WakeAll)
    BY <1>9 DEF StopAllBegin, StopAllStep, StopAllMode, StopAllFlags, StopAllNotify,
       StopAllSettle, DeleteConversation, ServerStop, NotifySlotWaiters, opVars
  <2> QED  BY <2>1, WakeAllQuiet DEF Active, SameGroups
<1>10. CASE \/ LoadModel \/ UnloadModel \/ ClearTables \/ ClearSessions \/ LoadFails
            \/ \E p \in LoadParallels : PublishTables(p)
            \/ ResumeStopAll \/ ResumeMode
  BY <1>10 DEF LoadModel, UnloadModel, OpBegin, ClearTables, ClearSessions, LoadFails,
     PublishTables, ResumeStopAll, ResumeMode, OpUnchanged, Active
<1> QED
  BY <1>1, <1>2, <1>3, <1>4, <1>5, <1>6, <1>7, <1>8, <1>9, <1>10
  DEF Next, RequestStep, OpStep

\* Every behaviour of the engine is a behaviour of the lease: each registration,
\* each end and each change of the model is one step of ModelLease.
THEOREM ImplementsLease == Spec => LeaseSpec
  BY LeaseInit, LeaseNext, TypeCorrect, PinCorrect, PTL DEF Spec, LeaseSpec, Lease!Spec

-----------------------------------------------------------------------------
\* A conversation owns at most one slot: the scan of the UI pool sees every
\* owned slot, because no slot of the Serve pool is ever owned.

OwnersInUiPool == \A i \in Slots : slot_owners[i] # NoConv => i < n_slots
OwnerInv       == OneSlotPerConversation /\ OwnersInUiPool

LEMMA OwnerInit == Init => OwnerInv
  BY DEF Init, OwnerInv, OneSlotPerConversation, OwnersInUiPool

\* The slot that is chosen for a conversation is the only one it will own.
LEMMA OwnerTake ==
    ASSUME TypeOK, OwnerInv, NEW r \in Reqs, NEW c \in Owners, NEW i \in Choice(r, c),
           TakeSlot(r, c, i), r \in NapiReqs \/ c = NoConv
    PROVE  OwnerInv'
<1>1. i \in Slots /\ i \in PoolOf(r)
  BY ChoiceInPool DEF TypeOK
<1>2. slot_owners' = [slot_owners EXCEPT ![i] = c] /\ UNCHANGED n_slots
  BY DEF TakeSlot
<1>3. CASE c = NoConv
  BY <1>1, <1>2, <1>3 DEF OwnerInv, OneSlotPerConversation, OwnersInUiPool, TypeOK, SlotTypes
<1>4. CASE c # NoConv
  <2>1. PoolOf(r) = 0 .. n_slots - 1
    BY <1>4 DEF PoolOf
  <2>2. i < n_slots
    BY <1>1, <2>1, EngineAssumption DEF TypeOK, SlotTypes
  <2>3. ASSUME NEW j \in Slots, slot_owners[j] = c PROVE j = i
    <3>1. j \in PoolOf(r)
      BY <1>4, <2>1, <2>3, EngineAssumption DEF OwnerInv, OwnersInUiPool, Slots, TypeOK, SlotTypes
    <3>2. j \in OwnedSlots(slot_owners, PoolOf(r), c)
      BY <1>4, <2>3, <3>1 DEF OwnedSlots
    <3>3. i \in OwnedSlots(slot_owners, PoolOf(r), c)
      BY <3>2 DEF Choice, SelectConversationSlot
    <3> QED
      BY <1>1, <1>4, <2>3, <3>3 DEF OwnedSlots, OwnerInv, OneSlotPerConversation
  <2> QED
    BY <1>1, <1>2, <2>2, <2>3
    DEF OwnerInv, OneSlotPerConversation, OwnersInUiPool, TypeOK, SlotTypes
<1> QED  BY <1>3, <1>4

LEMMA OwnerNext == TypeOK /\ OwnerInv /\ [Next]_vars => OwnerInv'
<1> SUFFICES ASSUME TypeOK, OwnerInv, [Next]_vars PROVE OwnerInv'
  OBVIOUS
<1>1. CASE UNCHANGED <<slot_owners, n_slots>>
  BY <1>1 DEF OwnerInv, OneSlotPerConversation, OwnersInUiPool
<1>2. ASSUME NEW r \in NapiReqs, NEW c \in Owners, BeginGenerate(r, c)
      PROVE  OwnerInv'
  BY <1>1, <1>2, OwnerTake DEF BeginGenerate, Refuse, slotVars, Reqs
<1>3. ASSUME NEW r \in ServeReqs, BlockingEval(r)
      PROVE  OwnerInv'
  BY <1>1, <1>3, OwnerTake DEF BlockingEval, Refuse, slotVars, Reqs, Owners
<1>4. ASSUME NEW c \in Conversations, DeleteConversation(c)
      PROVE  OwnerInv'
  BY <1>4 DEF DeleteConversation, OwnerInv, OneSlotPerConversation, OwnersInUiPool
<1>5. ASSUME NEW p \in LoadParallels, PublishTables(p)
      PROVE  OwnerInv'
  BY <1>5 DEF PublishTables, OwnerInv, OneSlotPerConversation, OwnersInUiPool
<1>6. CASE ClearTables
  BY <1>6 DEF ClearTables, OwnerInv, OneSlotPerConversation, OwnersInUiPool
<1>7. ASSUME NEW r \in Reqs, RequestStep(r) \/ RequestStop(r)
      PROVE  OwnerInv'
  BY <1>1, <1>7 DEF RequestStep, CommitCheck, CommitRegister, ReleaseUnusedSlot,
     ClearOnReset, StartWorker, Prefill, FinishRun, EraseSession, CleanSlot, FreeSlot,
     LeaveActive, RequestStop, slotVars
<1>8. ASSUME NEW t \in Threads, StopAllBegin(t) \/ StopAllStep(t)
      PROVE  OwnerInv'
  BY <1>1, <1>8 DEF StopAllBegin, StopAllStep, StopAllMode, StopAllFlags, StopAllNotify,
     StopAllSettle, slotVars
<1>9. CASE \/ ServerStop \/ NotifySlotWaiters \/ LoadModel \/ UnloadModel \/ FreeModel
           \/ ClearSessions \/ LoadFails \/ PublishModel \/ ResumeStopAll \/ ResumeMode
  BY <1>1, <1>9 DEF ServerStop, NotifySlotWaiters, LoadModel, UnloadModel, OpBegin,
     FreeModel, ClearSessions, LoadFails, PublishModel, ResumeStopAll, ResumeMode, slotVars
<1>10. CASE UNCHANGED vars
  BY <1>1, <1>10 DEF vars, slotVars
<1> QED
  BY <1>2, <1>3, <1>4, <1>5, <1>6, <1>7, <1>8, <1>9, <1>10
  DEF Next, OpStep, Threads

\* However slots are evicted, deleted and rebuilt, no conversation has two.
THEOREM ConversationHasOneSlot == Spec => []OneSlotPerConversation
<1>1. Spec => []OwnerInv
  BY OwnerInit, OwnerNext, TypeCorrect, PTL DEF Spec
<1> QED  BY <1>1, PTL DEF OwnerInv

-----------------------------------------------------------------------------
\* Until a model is loaded a second time the occupancy table is exact and no two
\* requests share a slot.  A reload breaks both: a request that acquired its slot
\* before it keeps the index in the new tables.

\* The slot tables that will be published are the first ones.
BeforeTables ==
    \/ loads = 0
    \/ op = "load" /\ opc \in {"stopping", "tables", "sessions", "loading", "publish"}

NothingHeldBefore == BeforeTables => n_slots = 0 /\ Holding = {}
PublishIsLoad     == opc \in {"loading", "publish"} => op = "load"

HeldInv == LeasesExclusive /\ UsedSlotsHeld /\ NothingHeldBefore /\ PublishIsLoad

LEMMA HeldInit == Init => HeldInv
  BY DEF Init, HeldInv, LeasesExclusive, UsedSlotsHeld, NothingHeldBefore, PublishIsLoad,
     Holding, HoldingPcs, ActivePcs

\* Steps that leave the holders, their slots and the operation alone.
LEMMA HeldQuiet ==
    ASSUME HeldInv, Holding' = Holding,
           UNCHANGED <<seq, slot_used, n_slots, loads, op, opc>>
    PROVE  HeldInv'
  BY DEF HeldInv, LeasesExclusive, UsedSlotsHeld, NothingHeldBefore, PublishIsLoad, BeforeTables

LEMMA HeldTake ==
    ASSUME TypeOK, HeldInv, NEW r \in Reqs, NEW c \in Owners, NEW i \in Choice(r, c),
           TakeSlot(r, c, i), pc[r] \in {"new", "woken"}, UNCHANGED <<loads, op, opc>>
    PROVE  HeldInv'
<1>1. i \in Slots /\ i \in PoolOf(r) /\ i \notin slot_used
  BY ChoiceInPool DEF TypeOK
<1>2. n_slots > 0
  BY <1>1, EngineAssumption DEF PoolOf, TypeOK, SlotTypes
<1>3. r \notin Holding /\ Holding' = Holding \cup {r}
  BY DEF TakeSlot, Holding, HoldingPcs, ActivePcs, TypeOK, RequestTypes
<1>4. seq' = [seq EXCEPT ![r] = i] /\ slot_used' = slot_used \cup {i} /\ UNCHANGED n_slots
  BY DEF TakeSlot
<1>5. \A s \in Holding : seq'[s] = seq[s] /\ seq[s] \in slot_used /\ seq[s] # i
  BY <1>1, <1>2, <1>3, <1>4 DEF HeldInv, UsedSlotsHeld, Holding, TypeOK, RequestTypes
<1>6. seq'[r] = i
  BY <1>4 DEF TypeOK, RequestTypes
<1>7. LeasesExclusive'
  BY <1>3, <1>5, <1>6 DEF HeldInv, LeasesExclusive
<1>8. UsedSlotsHeld'
  BY <1>3, <1>4, <1>5, <1>6 DEF HeldInv, UsedSlotsHeld
<1>9. ~BeforeTables
  BY <1>2 DEF HeldInv, NothingHeldBefore
<1> QED
  BY <1>7, <1>8, <1>9 DEF HeldInv, NothingHeldBefore, PublishIsLoad, BeforeTables

\* A holder gives its slot back, in ReleaseSlot or ReleaseUnusedSlot.
LEMMA HeldGiveBack ==
    ASSUME HeldInv, NEW r \in Holding, Holding' = Holding \ {r},
           slot_used' = slot_used \ {seq[r]}, UNCHANGED <<seq, n_slots, loads, op, opc>>
    PROVE  HeldInv'
<1>1. \A s \in Holding' : s # r /\ s \in Holding /\ seq[s] # seq[r]
  BY DEF HeldInv, LeasesExclusive
<1>2. LeasesExclusive'
  BY <1>1 DEF HeldInv, LeasesExclusive
<1>3. UsedSlotsHeld'
  BY <1>1 DEF HeldInv, UsedSlotsHeld
<1> QED
  BY <1>2, <1>3 DEF HeldInv, NothingHeldBefore, PublishIsLoad, BeforeTables

\* Waking a waiter changes no holder.
LEMMA NotifyOneHolding ==
    ASSUME TypeOK, NEW r \in Reqs, NEW next \in RequestPcs \ HoldingPcs, NotifyOne(r, next),
           pc[r] \in HoldingPcs
    PROVE  r \in Holding /\ Holding' = Holding \ {r}
  BY DEF NotifyOne, Waiters, Holding, HoldingPcs, ActivePcs, TypeOK, RequestTypes, Reqs

LEMMA HeldRequestStep ==
    ASSUME TypeOK, PinInv, HeldInv, NEW r \in Reqs, RequestStep(r) \/ RequestStop(r)
    PROVE  HeldInv'
<1>1. UNCHANGED <<seq, n_slots, loads, op, opc>>
  BY DEF RequestStep, CommitCheck, CommitRegister, ReleaseUnusedSlot, ClearOnReset,
     StartWorker, Prefill, FinishRun, EraseSession, CleanSlot, FreeSlot, LeaveActive,
     RequestStop, slotVars, reqVars, opVars
<1>2. CASE ReleaseUnusedSlot(r)
  BY <1>1, <1>2, NotifyOneHolding, HeldGiveBack
  DEF ReleaseUnusedSlot, RequestPcs, HoldingPcs, ActivePcs
<1>3. CASE FreeSlot(r)
  BY <1>1, <1>3, NotifyOneHolding, HeldGiveBack
  DEF FreeSlot, RequestPcs, HoldingPcs, ActivePcs
<1>4. CASE EraseSession(r)
  <2>1. UNCHANGED slot_used
    BY <1>4 DEF EraseSession, slotVars
  <2>2. Holding' = Holding
    BY <1>4, EraseMoves DEF Holding, HoldingPcs, ActivePcs, TypeOK, RequestTypes
  <2> QED  BY <1>1, <2>1, <2>2, HeldQuiet
<1>5. CASE \/ CommitCheck(r) \/ CommitRegister(r) \/ ClearOnReset(r) \/ StartWorker(r)
           \/ Prefill(r) \/ FinishRun(r) \/ CleanSlot(r) \/ LeaveActive(r) \/ RequestStop(r)
  <2>1. Holding' = Holding
    BY <1>5 DEF CommitCheck, CommitRegister, ClearOnReset, StartWorker, Prefill, FinishRun,
       CleanSlot, LeaveActive, AfterEnd, RequestStop, Move, Holding, HoldingPcs, ActivePcs,
       TypeOK, RequestTypes
  <2>2. UNCHANGED slot_used
    BY <1>5 DEF CommitCheck, CommitRegister, ClearOnReset, StartWorker, Prefill, FinishRun,
       CleanSlot, LeaveActive, RequestStop, slotVars
  <2> QED  BY <1>1, <2>1, <2>2, HeldQuiet
<1> QED  BY <1>2, <1>3, <1>4, <1>5 DEF RequestStep

\* In the first load, tables are published before any slot is held.
LEMMA HeldOp ==
    ASSUME loads' <= 1, TypeOK, PinInv, HeldInv, LoadModel \/ UnloadModel \/ OpStep
    PROVE  HeldInv'
<1>1. UNCHANGED <<seq, pc>>
  BY DEF LoadModel, UnloadModel, OpBegin, OpStep, FreeModel, ClearTables,
     ClearSessions, LoadFails, PublishModel, PublishTables, ResumeStopAll, ResumeMode,
     OpUnchanged, reqVars
<1>2. Holding' = Holding
  BY <1>1 DEF Holding
<1> USE DEF HeldInv, LeasesExclusive, UsedSlotsHeld, NothingHeldBefore, PublishIsLoad,
            BeforeTables
<1>3. CASE LoadModel
  <2>1. loads = 0
    BY <1>3 DEF LoadModel, TypeOK, ControlTypes
  <2> QED  BY <1>1, <1>2, <1>3, <2>1 DEF LoadModel, OpBegin, slotVars
<1>4. CASE UnloadModel
  BY <1>1, <1>2, <1>4 DEF UnloadModel, OpBegin, slotVars
<1>5. CASE ClearTables
  BY <1>1, <1>2, <1>5 DEF ClearTables, OpUnchanged
<1>6. CASE FreeModel \/ ClearSessions \/ LoadFails \/ PublishModel
  BY <1>1, <1>2, <1>6 DEF FreeModel, ClearSessions, LoadFails, PublishModel, OpUnchanged,
     slotVars
<1>7. ASSUME NEW p \in LoadParallels, PublishTables(p)
      PROVE  HeldInv'
  <2>1. Holding = {}
    BY <1>7 DEF PublishTables
  <2> QED
    BY <1>1, <1>2, <1>7, <2>1 DEF PublishTables, OpUnchanged, PinInv, OpPhases
<1>8. CASE ResumeStopAll \/ ResumeMode
  BY <1>1, <1>2, <1>8 DEF ResumeStopAll, ResumeMode, OpUnchanged, slotVars
<1> QED  BY <1>3, <1>4, <1>5, <1>6, <1>7, <1>8 DEF OpStep

LEMMA HeldNext == TypeOK /\ PinInv /\ HeldInv /\ loads' <= 1 /\ [Next]_vars => HeldInv'
<1> SUFFICES ASSUME TypeOK, PinInv, HeldInv, loads' <= 1, [Next]_vars PROVE HeldInv'
  OBVIOUS
<1>1. ASSUME NEW r \in Reqs, NEW c \in Owners, BeginGenerate(r, c) \/ BlockingEval(r)
      PROVE  HeldInv'
  <2>1. UNCHANGED <<loads, op, opc>>
    BY <1>1 DEF BeginGenerate, BlockingEval, opVars
  <2>2. pc[r] \in {"new", "woken"}
    BY <1>1 DEF BeginGenerate, BlockingEval
  <2>3. ASSUME NEW where \in {"refused", "waiting"}, pc' = [pc EXCEPT ![r] = where],
               UNCHANGED <<slotVars, reqVars>>
        PROVE  HeldInv'
    <3>1. Holding' = Holding
      BY <2>2, <2>3 DEF Holding, HoldingPcs, ActivePcs, TypeOK, RequestTypes
    <3> QED  BY <2>1, <2>3, <3>1, HeldQuiet DEF slotVars, reqVars
  <2>4. ASSUME NEW d \in Owners, NEW i \in Choice(r, d), TakeSlot(r, d, i)
        PROVE  HeldInv'
    BY <2>1, <2>2, <2>4, HeldTake
  <2>5. CASE BeginGenerate(r, c)
    BY <2>3, <2>4, <2>5 DEF BeginGenerate, Refuse
  <2>6. CASE BlockingEval(r)
    BY <2>3, <2>4, <2>6 DEF BlockingEval, Refuse, SleepOrTimeOut, Owners
  <2> QED  BY <1>1, <2>5, <2>6
<1>2. ASSUME NEW r \in Reqs, RequestStep(r) \/ RequestStop(r)
      PROVE  HeldInv'
  BY <1>2, HeldRequestStep
<1>3. CASE LoadModel \/ UnloadModel \/ OpStep
  BY <1>3, HeldOp
<1> DEFINE stops == \/ \E t \in Threads : StopAllBegin(t) \/ StopAllStep(t)
                    \/ \E c \in Conversations : DeleteConversation(c)
                    \/ ServerStop \/ NotifySlotWaiters
<1>4. CASE stops
  <2>1. UNCHANGED <<seq, slot_used, n_slots, loads, op, opc>> /\ (UNCHANGED pc \/ WakeAll)
    BY <1>4 DEF StopAllBegin, StopAllStep, StopAllMode, StopAllFlags, StopAllNotify,
       StopAllSettle, DeleteConversation, ServerStop, NotifySlotWaiters, slotVars, reqVars,
       opVars
  <2>2. Holding' = Holding
    BY <2>1 DEF WakeAll, Waiters, Holding, HoldingPcs, ActivePcs, TypeOK, RequestTypes
  <2> QED  BY <2>1, <2>2, HeldQuiet
<1>5. CASE UNCHANGED vars
  BY <1>5, HeldQuiet DEF vars, slotVars, reqVars, opVars, Holding
<1> QED
  BY <1>1, <1>2, <1>3, <1>4, <1>5 DEF Next, Reqs, Threads, Owners

\* Loads are only counted up.
LEMMA LoadsGrow ==
    ASSUME TypeOK, [Next]_vars
    PROVE  loads' >= loads
<1>1. CASE LoadModel
  BY <1>1 DEF LoadModel, TypeOK, ControlTypes
<1>2. ASSUME NEW r \in Reqs, RequestStep(r) \/ RequestStop(r)
      PROVE  UNCHANGED loads
  BY <1>2 DEF RequestStep, CommitCheck, CommitRegister, ReleaseUnusedSlot, ClearOnReset,
     StartWorker, Prefill, FinishRun, EraseSession, CleanSlot, FreeSlot, LeaveActive,
     RequestStop, opVars
<1>3. ASSUME NEW r \in Reqs, NEW c \in Owners, BeginGenerate(r, c) \/ BlockingEval(r)
      PROVE  UNCHANGED loads
  BY <1>3 DEF BeginGenerate, BlockingEval, opVars
<1>4. ASSUME NEW t \in Threads, StopAllBegin(t) \/ StopAllStep(t)
      PROVE  UNCHANGED loads
  BY <1>4 DEF StopAllBegin, StopAllStep, StopAllMode, StopAllFlags, StopAllNotify,
     StopAllSettle, opVars
<1>5. ASSUME \/ \E c \in Conversations : DeleteConversation(c)
             \/ ServerStop \/ NotifySlotWaiters \/ UNCHANGED vars
      PROVE  UNCHANGED loads
  BY <1>5 DEF DeleteConversation, ServerStop, NotifySlotWaiters, opVars, vars
<1>6. ASSUME UnloadModel \/ OpStep
      PROVE  UNCHANGED loads
  BY <1>6 DEF UnloadModel, OpStep, FreeModel, ClearTables, ClearSessions, LoadFails,
     PublishModel, PublishTables, ResumeStopAll, ResumeMode, OpUnchanged
<1>7. LoadModel \/ UNCHANGED loads
  BY <1>2, <1>3, <1>4, <1>5, <1>6 DEF Next, Reqs, Threads, Owners
<1> QED  BY <1>1, <1>7 DEF TypeOK, ControlTypes

LEMMA HeldCorrect == Spec => [](loads <= 1 => HeldInv)
<1>1. Init => (loads <= 1 => HeldInv)
  BY HeldInit
<1>2. TypeOK /\ PinInv /\ (loads <= 1 => HeldInv) /\ [Next]_vars
          => (loads <= 1 => HeldInv)'
  <2> SUFFICES ASSUME TypeOK, PinInv, loads <= 1 => HeldInv, [Next]_vars, loads' <= 1
               PROVE  HeldInv'
    OBVIOUS
  <2>1. loads \in Nat /\ loads' >= loads /\ loads' \in Nat
    BY LoadsGrow, TypeNext DEF TypeOK, ControlTypes
  <2>2. loads <= 1
    BY <2>1
  <2> QED  BY <2>2, HeldNext
<1> QED  BY <1>1, <1>2, TypeCorrect, PinCorrect, PTL DEF Spec

\* Until the first reload no two requests decode into one sequence.
THEOREM LeasesAreExclusive == Spec => [](loads <= 1 => LeasesExclusive)
  BY HeldCorrect, PTL DEF HeldInv

\* Until the first reload the occupancy table neither loses a slot nor offers one
\* that is held.
THEOREM OccupancyIsExact == Spec => [](loads <= 1 => UsedSlotsHeld)
  BY HeldCorrect, PTL DEF HeldInv

-----------------------------------------------------------------------------
\* stop_all_ and its pending mark: who sets them, who clears them.

\* Only the end of a request, the steps of RequestStopAll and the operations
\* change what the stop-all properties are about; a registration adds to the count.
LEMMA StopFrame ==
    ASSUME [Next]_vars
    PROVE  \/ /\ UNCHANGED <<stop_all, clear_idle, spc, opc>>
              /\ active_count' \in {active_count, active_count + 1}
           \/ \E r \in Reqs : LeaveActive(r)
           \/ \E t \in Stoppers : StopAllBegin(t)
           \/ \E t \in Threads : StopAllStep(t)
           \/ LoadModel \/ UnloadModel \/ OpStep
<1> DEFINE Same == /\ UNCHANGED <<stop_all, clear_idle, spc, opc>>
                   /\ active_count' \in {active_count, active_count + 1}
<1>1. ASSUME NEW r \in Reqs, NEW c \in Owners, BeginGenerate(r, c) \/ BlockingEval(r)
      PROVE  Same
  BY <1>1 DEF BeginGenerate, BlockingEval, stopVars, opVars
<1>2. ASSUME NEW r \in Reqs, RequestStep(r) \/ RequestStop(r), ~LeaveActive(r)
      PROVE  Same
  BY <1>2 DEF RequestStep, CommitCheck, CommitRegister, ReleaseUnusedSlot, ClearOnReset,
     StartWorker, Prefill, FinishRun, EraseSession, CleanSlot, FreeSlot, RequestStop,
     stopVars, opVars
<1>3. CASE \/ \E c \in Conversations : DeleteConversation(c)
           \/ ServerStop \/ NotifySlotWaiters \/ UNCHANGED vars
  <2>1. Same
    BY <1>3 DEF DeleteConversation, ServerStop, NotifySlotWaiters, stopVars, opVars, vars
  <2> QED  BY <2>1
<1> QED
  BY <1>1, <1>2, <1>3 DEF Next, Reqs, Owners

\* The RequestStopAll of an operation stores no mark once the operation has gone on,
\* and does not test the count.
OpStopsFirst ==
    /\ spc[Op] \in {"mode", "flags", "notify"} => opc = "stopping"
    /\ spc[Op] # "settle"

LEMMA OpStopsNext == TypeOK /\ OpStopsFirst /\ [Next]_vars => OpStopsFirst'
<1> SUFFICES ASSUME TypeOK, OpStopsFirst, [Next]_vars PROVE OpStopsFirst'
  OBVIOUS
<1>1. Op \in Threads /\ Op \notin Stoppers
  BY EngineAssumption DEF Threads
<1> USE DEF OpStopsFirst
<1>2. CASE UNCHANGED <<spc, opc>>
  BY <1>2
<1>3. ASSUME NEW r \in Reqs, LeaveActive(r)
      PROVE  UNCHANGED <<spc, opc>>
  BY <1>3 DEF LeaveActive, opVars
<1>4. ASSUME NEW t \in Stoppers, StopAllBegin(t)
      PROVE  OpStopsFirst'
  BY <1>1, <1>4 DEF StopAllBegin, opVars, TypeOK, ControlTypes
<1>5. ASSUME NEW t \in Threads, StopAllStep(t)
      PROVE  OpStopsFirst'
  <2>1. UNCHANGED opc
    BY <1>5 DEF StopAllStep, StopAllMode, StopAllFlags, StopAllNotify, StopAllSettle, opVars
  <2>2. CASE t = Op
    BY <1>1, <1>5, <2>1, <2>2 DEF StopAllStep, StopAllMode, StopAllFlags, StopAllNotify,
       StopAllSettle, ClearWhenIdle, TypeOK, ControlTypes
  <2>3. CASE t # Op
    BY <1>1, <1>5, <2>1, <2>3 DEF StopAllStep, StopAllMode, StopAllFlags, StopAllNotify,
       StopAllSettle, TypeOK, ControlTypes
  <2> QED  BY <2>2, <2>3
<1>6. CASE LoadModel \/ UnloadModel
  BY <1>1, <1>6 DEF LoadModel, UnloadModel, OpBegin, TypeOK, ControlTypes
<1>7. CASE OpStep
  BY <1>1, <1>7 DEF OpStep, FreeModel, ClearTables, ClearSessions, LoadFails, PublishModel,
     PublishTables, ResumeStopAll, ResumeMode, stopVars, TypeOK, ControlTypes
<1> QED  BY <1>2, <1>3, <1>4, <1>5, <1>6, <1>7, StopFrame

LEMMA OpStopsCorrect == Spec => []OpStopsFirst
<1>1. Init => OpStopsFirst
  BY DEF Init, OpStopsFirst, Threads
<1> QED  BY <1>1, OpStopsNext, TypeCorrect, PTL DEF Spec

\* One owner of stop_all_ hands it to the next.
LEMMA HandOn ==
    ASSUME TypeOK, ActiveCountExact, OpStopsFirst, StopAllOwned, [Next]_vars
    PROVE  StopAllOwned' \/ ResumeMode
<1>1. active_count \in Nat
  BY ActiveFinite, FS_CardinalityType DEF ActiveCountExact
<1>2. \A t \in Stoppers : t \in Threads /\ t # Op
  BY EngineAssumption DEF Threads
<1>3. CASE /\ UNCHANGED <<stop_all, clear_idle, spc, opc>>
           /\ active_count' \in {active_count, active_count + 1}
  BY <1>1, <1>3 DEF StopAllOwned
<1>4. ASSUME NEW r \in Reqs, LeaveActive(r)
      PROVE  StopAllOwned'
  <2>1. UNCHANGED <<spc, opc>> /\ active_count' = active_count - 1
    BY <1>4 DEF LeaveActive, opVars
  <2>2. r \in Active
    BY <1>4 DEF LeaveActive, Move, Active, ActivePcs
  <2>3. active_count # 0
    BY <2>2, ActiveFinite, FS_EmptySet DEF ActiveCountExact
  <2>4. CASE active_count' = 0 /\ clear_idle
    BY <1>4, <2>4 DEF LeaveActive, LastToLeave, StopAllOwned
  <2>5. CASE ~(active_count' = 0 /\ clear_idle)
    <3>1. UNCHANGED <<stop_all, clear_idle>>
      BY <1>4, <2>5 DEF LeaveActive, LastToLeave
    <3>2. clear_idle => active_count' > 0
      BY <1>1, <2>1, <2>3, <2>5
    <3> QED  BY <2>1, <3>1, <3>2 DEF StopAllOwned
  <2> QED  BY <2>4, <2>5
<1>5. ASSUME NEW t \in Stoppers, StopAllBegin(t)
      PROVE  StopAllOwned'
  BY <1>2, <1>5 DEF StopAllBegin, StopAllOwned, TypeOK, ControlTypes
<1>6. ASSUME NEW t \in Threads, StopAllStep(t)
      PROVE  StopAllOwned'
  <2>1. UNCHANGED <<active_count, opc>>
    BY <1>6 DEF StopAllStep, StopAllMode, StopAllFlags, StopAllNotify, StopAllSettle, opVars
  <2>2. CASE t = Op
    <3>1. spc[Op] \in {"mode", "flags", "notify"}
      BY <1>6, <2>2 DEF StopAllStep, StopAllMode, StopAllFlags, StopAllNotify, StopAllSettle,
         OpStopsFirst
    <3> QED  BY <2>1, <3>1 DEF OpStopsFirst, StopAllOwned
  <2>3. CASE t # Op
    <3>1. t \in Stoppers
      BY <2>3 DEF Threads
    <3>2. CASE StopAllMode(t)
      BY <1>2, <3>1, <3>2 DEF StopAllMode, ClearWhenIdle, StopAllOwned, TypeOK, ControlTypes
    <3>3. CASE StopAllFlags(t) \/ StopAllNotify(t)
      BY <1>2, <2>1, <3>1, <3>3
      DEF StopAllFlags, StopAllNotify, ClearWhenIdle, StopAllOwned, TypeOK, ControlTypes
    <3>4. CASE StopAllSettle(t)
      <4>1. CASE active_count = 0
        BY <3>4, <4>1 DEF StopAllSettle, StopAllOwned
      <4>2. CASE active_count # 0
        <5>1. UNCHANGED <<stop_all, clear_idle>> /\ active_count > 0
          BY <1>1, <3>4, <4>2 DEF StopAllSettle
        <5>2. \A u \in Stoppers : spc[u] = "mode" => spc'[u] = "mode"
          BY <1>2, <3>4 DEF StopAllSettle, TypeOK, ControlTypes
        <5> QED  BY <2>1, <5>1, <5>2 DEF StopAllOwned
      <4> QED  BY <4>1, <4>2
    <3> QED  BY <1>6, <3>2, <3>3, <3>4 DEF StopAllStep
  <2> QED  BY <2>2, <2>3
<1>7. CASE LoadModel \/ UnloadModel
  BY <1>7 DEF LoadModel, UnloadModel, OpBegin, StopAllOwned
<1>8. CASE OpStep
  BY <1>8 DEF OpStep, FreeModel, ClearTables, ClearSessions, LoadFails, PublishModel,
     PublishTables, ResumeStopAll, OpUnchanged, stopVars, StopAllOwned
<1> QED  BY <1>3, <1>4, <1>5, <1>6, <1>7, <1>8, StopFrame

\* However requests end, stop-alls overlap and models are loaded and unloaded, a set
\* stop_all_ passes from one who will clear it to another, but for the second store
\* of ClearStopAll.
THEOREM StopAllIsHandedOn == Spec => StopAllHandedOn
<1>1. TypeOK /\ ActiveCountExact /\ OpStopsFirst /\ [Next]_vars =>
          [StopAllOwned => StopAllOwned' \/ ResumeMode]_vars
  BY HandOn
<1> QED
  BY <1>1, TypeCorrect, CountIsExact, OpStopsCorrect, PTL DEF Spec, StopAllHandedOn
=============================================================================
