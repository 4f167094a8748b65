------------------------- MODULE EngineCacheProofs -------------------------
(***************************************************************************)
(* Theorems about the caches of EngineState: what cached_tokens_ says of   *)
(* the KV cache, and whose tokens a request finds in its sequence.         *)
(***************************************************************************)
EXTENDS EngineStateProofs

-----------------------------------------------------------------------------
\* cached_tokens_ and the KV cache, until a model is loaded a second time.

EmptyAt(i) == cached[i] = Nobody /\ kv[i] = Nobody
AllEmpty   == \A i \in Slots : EmptyAt(i)

\* Without a model or without tables there are no tokens; and there are tables as
\* soon as there is a model, but for the moment between the two publications.
EmptyWithoutModel == model = 0 \/ n_slots = 0 => AllEmpty
TablesFollowModel == n_slots = 0 /\ model # 0 => opc = "publish"

\* While a request decodes, its slot has no tokens, and the sequence is its own;
\* when it may give the slot back, a slot without tokens has no KV.
Idling == {"acquired", "registering", "unwind", "freeing"}

HolderKv(r) ==
    /\ pc[r] = "decoding" => cached[seq[r]] = Nobody /\ kv[seq[r]] = conv[r]
    /\ pc[r] \in Idling   => (cached[seq[r]] = Nobody => kv[seq[r]] = Nobody)

HoldersKv == \A r \in Reqs : HolderKv(r)

KvInv == CacheDescribesKv /\ EmptyWithoutModel /\ TablesFollowModel /\ HoldersKv

LEMMA KvInit == Init => KvInv
  BY EngineAssumption DEF Init, KvInv, CacheDescribesKv, EmptyWithoutModel, TablesFollowModel,
     HoldersKv, HolderKv, AllEmpty, EmptyAt, Idling, Slots

\* A request at work has a model and tables, and its slot is marked as used.
LEMMA WorkingHolder ==
    ASSUME TypeOK, PinInv, HeldInv, KvInv, NEW r \in Active, pc[r] # "leaving"
    PROVE  /\ r \in Holding /\ seq[r] \in Slots
           /\ model # 0 /\ n_slots > 0 /\ seq[r] \in slot_used
<1>1. r \in Reqs /\ r \in Holding /\ seq[r] \in Slots
  BY DEF Active, Holding, HoldingPcs, TypeOK, RequestTypes
<1>2. model # 0
  BY DEF PinInv, ModelPinned, Loaded
<1>3. opc # "publish"
  BY <1>1 DEF HeldInv, NothingHeldBefore, PublishIsLoad, BeforeTables
<1>4. n_slots > 0
  BY <1>2, <1>3, EngineAssumption DEF KvInv, TablesFollowModel, TypeOK, SlotTypes
<1> QED  BY <1>1, <1>2, <1>4 DEF HeldInv, UsedSlotsHeld

\* A step of a working request that writes its own slot only.
LEMMA KvOwnSlot ==
    ASSUME TypeOK, PinInv, HeldInv, KvInv, NEW r \in Active, pc[r] # "leaving",
           \A i \in Slots : i # seq[r] => cached'[i] = cached[i] /\ kv'[i] = kv[i],
           UNCHANGED <<seq, conv, slot_used, n_slots, model, opc>>,
           \A s \in Reqs : s # r => pc'[s] = pc[s],
           HolderKv(r)', cached'[seq[r]] # Nobody => kv'[seq[r]] = cached'[seq[r]]
    PROVE  KvInv'
<1>1. /\ r \in Holding /\ seq[r] \in Slots
      /\ model # 0 /\ n_slots > 0 /\ seq[r] \in slot_used
  BY WorkingHolder
<1>2. CacheDescribesKv'
  BY <1>1 DEF KvInv, CacheDescribesKv
<1>3. EmptyWithoutModel' /\ TablesFollowModel'
  BY <1>1 DEF KvInv, EmptyWithoutModel, TablesFollowModel, TypeOK, SlotTypes
<1>4. ASSUME NEW s \in Reqs, s # r
      PROVE  HolderKv(s)'
  <2>1. CASE s \in Holding
    <3>1. seq[s] # seq[r] /\ seq[s] \in Slots
      BY <1>1, <1>4, <2>1 DEF HeldInv, LeasesExclusive, TypeOK, RequestTypes
    <3> QED  BY <1>4, <3>1 DEF KvInv, HoldersKv, HolderKv
  <2>2. CASE s \notin Holding
    BY <1>4, <2>2 DEF Holding, HoldingPcs, ActivePcs, HolderKv, Idling
  <2> QED  BY <2>1, <2>2
<1>5. HoldersKv'
  BY <1>4 DEF HoldersKv
<1> QED  BY <1>2, <1>3, <1>5 DEF KvInv

\* A step that writes no tokens and changes neither the tables nor the model.
LEMMA KvQuiet ==
    ASSUME KvInv, UNCHANGED <<cached, kv, seq, conv, n_slots, model>>,
           opc = "publish" => opc' = "publish",
           \A i \in slot_used \ slot_used' : cached[i] = Nobody => kv[i] = Nobody,
           \A r \in Reqs :
               /\ pc'[r] = "decoding" => pc[r] = "decoding"
               /\ pc'[r] \in Idling => pc[r] \in Idling
    PROVE  KvInv'
<1>1. CacheDescribesKv'
  BY DEF KvInv, CacheDescribesKv
<1>2. EmptyWithoutModel' /\ TablesFollowModel'
  BY DEF KvInv, EmptyWithoutModel, TablesFollowModel, AllEmpty, EmptyAt
<1>3. HoldersKv'
  BY DEF KvInv, HoldersKv, HolderKv
<1> QED  BY <1>1, <1>2, <1>3 DEF KvInv

LEMMA KvTake ==
    ASSUME TypeOK, KvInv, NEW r \in Reqs, NEW c \in Owners, NEW i \in Choice(r, c),
           TakeSlot(r, c, i), UNCHANGED <<cached, kv, model, opc>>
    PROVE  KvInv'
<1>1. i \in Slots /\ i \notin slot_used
  BY ChoiceInPool DEF TypeOK
<1>2. /\ seq' = [seq EXCEPT ![r] = i] /\ conv' = [conv EXCEPT ![r] = c]
      /\ pc' = [pc EXCEPT ![r] = "acquired"]
      /\ slot_used' = slot_used \cup {i} /\ UNCHANGED n_slots
  BY DEF TakeSlot
<1>3. CacheDescribesKv' /\ EmptyWithoutModel' /\ TablesFollowModel'
  BY <1>2 DEF KvInv, CacheDescribesKv, EmptyWithoutModel, TablesFollowModel, AllEmpty, EmptyAt
<1>4. HolderKv(r)'
  BY <1>1, <1>2 DEF KvInv, CacheDescribesKv, HolderKv, TypeOK, RequestTypes
<1>5. ASSUME NEW s \in Reqs, s # r
      PROVE  HolderKv(s)'
  BY <1>2, <1>5 DEF KvInv, HoldersKv, HolderKv, TypeOK, RequestTypes
<1> QED  BY <1>3, <1>4, <1>5 DEF KvInv, HoldersKv

LEMMA KvRequestStep ==
    ASSUME TypeOK, PinInv, HeldInv, KvInv, NEW r \in Reqs, RequestStep(r) \/ RequestStop(r)
    PROVE  KvInv'
<1>1. UNCHANGED <<seq, conv, n_slots, model, opc>>
  BY DEF RequestStep, CommitCheck, CommitRegister, ReleaseUnusedSlot, ClearOnReset,
     StartWorker, Prefill, FinishRun, EraseSession, CleanSlot, FreeSlot, LeaveActive,
     RequestStop, slotVars, reqVars, opVars
<1>2. CASE ReleaseUnusedSlot(r) \/ FreeSlot(r)
  <2>1. UNCHANGED <<cached, kv>> /\ slot_used' = slot_used \ {seq[r]} /\ pc[r] \in Idling
    BY <1>2 DEF ReleaseUnusedSlot, FreeSlot, cacheVars, Idling
  <2>2. cached[seq[r]] = Nobody => kv[seq[r]] = Nobody
    BY <2>1 DEF KvInv, HoldersKv, HolderKv
  <2>3. \A s \in Reqs : pc'[s] = pc[s] \/ pc'[s] \in {"refused", "leaving", "woken"}
    BY <1>2 DEF ReleaseUnusedSlot, FreeSlot, NotifyOne, Waiters, TypeOK, RequestTypes
  <2> QED
    BY <1>1, <2>1, <2>2, <2>3, KvQuiet DEF Idling
<1>3. CASE \/ CommitCheck(r) \/ CommitRegister(r) \/ StartWorker(r) \/ EraseSession(r)
           \/ LeaveActive(r) \/ RequestStop(r)
  <2>1. UNCHANGED <<cached, kv, slot_used>>
    BY <1>3 DEF CommitCheck, CommitRegister, StartWorker, EraseSession, LeaveActive,
       RequestStop, cacheVars, slotVars
  <2>2. \A s \in Reqs : /\ pc'[s] = "decoding" => pc[s] = "decoding"
                        /\ pc'[s] \in Idling => pc[s] \in Idling
    BY <1>3 DEF CommitCheck, CommitRegister, StartWorker, EraseSession, IfRegistered,
       AfterEnd, LeaveActive, RequestStop, Move, Idling, TypeOK, RequestTypes
  <2> QED  BY <1>1, <2>1, <2>2, KvQuiet
<1>4. ASSUME r \in Active, pc[r] # "leaving", UNCHANGED slot_used,
             \A s \in Reqs : s # r => pc'[s] = pc[s],
             \A i \in Slots : i # seq[r] => cached'[i] = cached[i] /\ kv'[i] = kv[i],
             cached'[seq[r]] # Nobody => kv'[seq[r]] = cached'[seq[r]],
             pc'[r] = "decoding" => cached'[seq[r]] = Nobody /\ kv'[seq[r]] = conv[r],
             pc'[r] = "freeing" /\ cached'[seq[r]] = Nobody => kv'[seq[r]] = Nobody,
             pc'[r] \in {"begun", "decoding", "ending", "freeing"}
      PROVE  KvInv'
  <2>1. HolderKv(r)'
    BY <1>1, <1>4 DEF HolderKv, Idling
  <2> QED  BY <1>1, <1>4, <2>1, KvOwnSlot
<1>5. seq[r] \in Slots
  BY DEF TypeOK, RequestTypes
<1>6. CASE ClearOnReset(r)
  <2>1. /\ pc[r] = "clearing" /\ pc' = [pc EXCEPT ![r] = "begun"]
        /\ cached' = [cached EXCEPT ![seq[r]] = Nobody]
        /\ kv' = [kv EXCEPT ![seq[r]] = Nobody] /\ UNCHANGED slot_used
    BY <1>6 DEF ClearOnReset, slotVars
  <2> QED
    BY <1>4, <1>5, <2>1 DEF Active, ActivePcs, TypeOK, SlotTypes, RequestTypes
<1>7. CASE Prefill(r)
  <2>1. UNCHANGED slot_used
    BY <1>7 DEF Prefill, slotVars
  <2>2. CASE /\ pc[r] = "running" /\ pc' = [pc EXCEPT ![r] = "decoding"]
             /\ cached' = [cached EXCEPT ![seq[r]] = Nobody]
             /\ kv' = [kv EXCEPT ![seq[r]] = conv[r]]
    BY <1>4, <1>5, <2>1, <2>2 DEF Active, ActivePcs, TypeOK, SlotTypes, RequestTypes
  <2>3. CASE /\ pc[r] = "running" /\ pc' = [pc EXCEPT ![r] = "ending"]
             /\ UNCHANGED <<cached, kv>>
    <3>1. \A s \in Reqs : pc'[s] = pc[s] \/ pc'[s] = "ending"
      BY <2>3 DEF TypeOK, RequestTypes
    <3> QED  BY <1>1, <2>1, <2>3, <3>1, KvQuiet DEF Idling
  <2> QED  BY <1>7, <2>2, <2>3 DEF Prefill, Move
<1>8. CASE FinishRun(r)
  <2>1. /\ pc[r] = "decoding" /\ pc' = [pc EXCEPT ![r] = "ending"]
        /\ UNCHANGED <<kv, slot_used>>
    BY <1>8 DEF FinishRun, Move, slotVars
  <2>2. cached[seq[r]] = Nobody /\ kv[seq[r]] = conv[r]
    BY <2>1 DEF KvInv, HoldersKv, HolderKv
  <2>3. \/ cached' = [cached EXCEPT ![seq[r]] = conv[r]]
        \/ UNCHANGED cached
    BY <1>8 DEF FinishRun
  <2> QED
    BY <1>4, <1>5, <2>1, <2>2, <2>3 DEF Active, ActivePcs, TypeOK, SlotTypes, RequestTypes
<1>9. CASE CleanSlot(r)
  <2>1. /\ pc[r] = "cleaning" /\ pc' = [pc EXCEPT ![r] = "freeing"]
        /\ cached' = [cached EXCEPT ![seq[r]] = KeptTokens(seq[r])]
        /\ kv' = [kv EXCEPT ![seq[r]] = KeptKv(seq[r])] /\ UNCHANGED slot_used
    BY <1>9 DEF CleanSlot, Move, slotVars
  <2>2. KeptTokens(seq[r]) # Nobody => KeptKv(seq[r]) = KeptTokens(seq[r])
    BY <1>5 DEF KeptTokens, KeptKv, KvInv, CacheDescribesKv
  <2>3. KeptTokens(seq[r]) = Nobody => KeptKv(seq[r]) = Nobody
    BY DEF KeptKv
  <2> QED
    BY <1>4, <1>5, <2>1, <2>2, <2>3 DEF Active, ActivePcs, TypeOK, SlotTypes, RequestTypes
<1> QED  BY <1>2, <1>3, <1>6, <1>7, <1>8, <1>9 DEF RequestStep

\* The operations that write tokens leave all slots empty.
LEMMA KvAllEmpty ==
    ASSUME AllEmpty', TablesFollowModel', \A r \in Reqs : pc'[r] # "decoding",
           TypeOK, UNCHANGED seq
    PROVE  KvInv'
<1>1. \A r \in Reqs : seq'[r] \in Slots
  BY DEF TypeOK, RequestTypes
<1>2. HoldersKv'
  BY <1>1 DEF HoldersKv, HolderKv, AllEmpty, EmptyAt
<1> QED  BY <1>2 DEF KvInv, CacheDescribesKv, EmptyWithoutModel, AllEmpty, EmptyAt

LEMMA KvOp ==
    ASSUME TypeOK, PinInv, HeldInv, KvInv, LoadModel \/ UnloadModel \/ OpStep
    PROVE  KvInv'
<1>1. UNCHANGED <<seq, conv, pc>>
  BY DEF LoadModel, UnloadModel, OpBegin, OpStep, FreeModel, ClearTables,
     ClearSessions, LoadFails, PublishModel, PublishTables, ResumeStopAll, ResumeMode,
     OpUnchanged, reqVars
<1>2. CASE \/ LoadModel \/ UnloadModel \/ ClearSessions \/ LoadFails
           \/ ResumeStopAll \/ ResumeMode
  <2>1. UNCHANGED <<cached, kv, slot_used, n_slots, model>> /\ opc # "publish"
    BY <1>2 DEF LoadModel, UnloadModel, OpBegin, ClearSessions, LoadFails, ResumeStopAll,
       ResumeMode, cacheVars, slotVars
  <2> QED  BY <1>1, <2>1, KvQuiet
<1>3. model = 0 => \A r \in Reqs : pc[r] # "decoding"
  BY DEF PinInv, ModelPinned, Loaded, Active, ActivePcs
<1>4. CASE FreeModel
  <2>1. Active = {}
    BY <1>4, ActiveFinite, FS_EmptySet DEF FreeModel, Quiescent, PinInv, ActiveCountExact
  <2>2. \A r \in Reqs : pc'[r] # "decoding"
    BY <1>1, <2>1 DEF Active, ActivePcs
  <2>3. AllEmpty' /\ TablesFollowModel'
    BY <1>4 DEF FreeModel, AllEmpty, EmptyAt, TablesFollowModel
  <2> QED  BY <1>1, <2>2, <2>3, KvAllEmpty
<1>5. CASE ClearTables \/ PublishModel
  <2>1. model = 0
    BY <1>5 DEF ClearTables, PublishModel, PinInv, OpPhases
  <2>2. AllEmpty'
    BY <1>5, <2>1 DEF ClearTables, PublishModel, KvInv, EmptyWithoutModel, AllEmpty, EmptyAt,
       cacheVars
  <2>3. TablesFollowModel'
    BY <1>5, <2>1 DEF ClearTables, PublishModel, TablesFollowModel
  <2> QED  BY <1>1, <1>3, <2>1, <2>2, <2>3, KvAllEmpty
<1>6. ASSUME NEW p \in LoadParallels, PublishTables(p)
      PROVE  KvInv'
  <2>1. Holding = {} /\ n_slots = 0
    BY <1>6 DEF PublishTables, HeldInv, NothingHeldBefore, PublishIsLoad, BeforeTables
  <2>2. \A r \in Reqs : pc'[r] # "decoding"
    BY <1>1, <2>1 DEF Holding, HoldingPcs, ActivePcs
  <2>3. AllEmpty'
    BY <1>6, <2>1 DEF PublishTables, KvInv, EmptyWithoutModel, AllEmpty, EmptyAt
  <2>4. TablesFollowModel'
    BY <1>6, EngineAssumption DEF PublishTables, TablesFollowModel
  <2> QED  BY <1>1, <2>2, <2>3, <2>4, KvAllEmpty
<1> QED  BY <1>2, <1>4, <1>5, <1>6 DEF OpStep

\* A deletion empties slots that no request holds.
LEMMA KvDelete ==
    ASSUME TypeOK, PinInv, HeldInv, KvInv, NEW c \in Conversations, DeleteConversation(c)
    PROVE  KvInv'
<1> DEFINE idle == {i \in 0 .. 2 * n_slots - 1 : slot_owners[i] = c} \ slot_used
<1>1. /\ UNCHANGED <<seq, conv, pc, slot_used, n_slots, model, opc>>
      /\ cached' = [i \in Slots |-> IF i \in idle THEN Nobody ELSE cached[i]]
      /\ kv' = [i \in Slots |-> IF i \in idle THEN Nobody ELSE kv[i]]
  BY DEF DeleteConversation, reqVars, opVars
<1>2. idle \cap slot_used = {}
  OBVIOUS
<1> HIDE DEF idle
<1>3. \A i \in Slots : \/ cached'[i] = Nobody /\ kv'[i] = Nobody
                       \/ cached'[i] = cached[i] /\ kv'[i] = kv[i]
  BY <1>1
<1>4. CacheDescribesKv' /\ EmptyWithoutModel' /\ TablesFollowModel'
  BY <1>1, <1>3 DEF KvInv, CacheDescribesKv, EmptyWithoutModel, TablesFollowModel, AllEmpty,
     EmptyAt
<1>5. ASSUME NEW r \in Reqs
      PROVE  HolderKv(r)'
  <2>1. seq[r] \in Slots
    BY DEF TypeOK, RequestTypes
  <2>2. CASE pc[r] = "decoding"
    <3>1. seq[r] \in slot_used
      BY <2>2, WorkingHolder DEF Active, ActivePcs
    <3> QED  BY <1>1, <1>2, <2>1, <2>2, <3>1 DEF KvInv, HoldersKv, HolderKv, Idling
  <2>3. CASE pc[r] # "decoding"
    BY <1>1, <1>3, <2>1, <2>3 DEF KvInv, HoldersKv, HolderKv
  <2> QED  BY <2>2, <2>3
<1> QED  BY <1>4, <1>5 DEF KvInv, HoldersKv

LEMMA KvNext == TypeOK /\ PinInv /\ HeldInv /\ KvInv /\ [Next]_vars => KvInv'
<1> SUFFICES ASSUME TypeOK, PinInv, HeldInv, KvInv, [Next]_vars PROVE KvInv'
  OBVIOUS
<1>1. ASSUME NEW r \in Reqs, NEW c \in Owners, BeginGenerate(r, c) \/ BlockingEval(r)
      PROVE  KvInv'
  <2>1. UNCHANGED <<cached, kv, model, opc>> /\ pc[r] \in {"new", "woken"}
    BY <1>1 DEF BeginGenerate, BlockingEval, opVars, cacheVars
  <2>2. ASSUME NEW where \in {"refused", "waiting"}, pc' = [pc EXCEPT ![r] = where],
               UNCHANGED <<slotVars, reqVars>>
        PROVE  KvInv'
    BY <2>1, <2>2, KvQuiet DEF slotVars, reqVars, Idling, TypeOK, RequestTypes
  <2>3. ASSUME NEW d \in Owners, NEW i \in Choice(r, d), TakeSlot(r, d, i)
        PROVE  KvInv'
    BY <2>1, <2>3, KvTake
  <2>4. CASE BeginGenerate(r, c)
    BY <2>2, <2>3, <2>4 DEF BeginGenerate, Refuse
  <2>5. CASE BlockingEval(r)
    BY <2>2, <2>3, <2>5 DEF BlockingEval, Refuse, SleepOrTimeOut, Owners
  <2> QED  BY <1>1, <2>4, <2>5
<1>2. ASSUME NEW r \in Reqs, RequestStep(r) \/ RequestStop(r)
      PROVE  KvInv'
  BY <1>2, KvRequestStep
<1>3. CASE LoadModel \/ UnloadModel \/ OpStep
  BY <1>3, KvOp
<1> DEFINE stops == \/ \E t \in Threads : StopAllBegin(t) \/ StopAllStep(t)
                    \/ ServerStop \/ NotifySlotWaiters
<1>4. CASE stops
  <2>1. /\ UNCHANGED <<cached, kv, seq, conv, slot_used, n_slots, model, opc>>
        /\ UNCHANGED pc \/ WakeAll
    BY <1>4 DEF StopAllBegin, StopAllStep, StopAllMode, StopAllFlags, StopAllNotify,
       StopAllSettle, ServerStop, NotifySlotWaiters, slotVars, cacheVars, reqVars, opVars
  <2>2. \A r \in Reqs : pc'[r] = pc[r] \/ pc'[r] = "woken"
    BY <2>1 DEF WakeAll
  <2> QED  BY <2>1, <2>2, KvQuiet DEF Idling
<1>5. ASSUME NEW c \in Conversations, DeleteConversation(c)
      PROVE  KvInv'
  BY <1>5, KvDelete
<1>6. CASE UNCHANGED vars
  BY <1>6, KvQuiet DEF vars, slotVars, cacheVars, reqVars, opVars
<1> QED
  BY <1>1, <1>2, <1>3, <1>4, <1>5, <1>6 DEF Next, Reqs, Threads, Owners

LEMMA KvCorrect == Spec => [](loads <= 1 => KvInv)
<1>1. TypeOK /\ PinInv /\ (loads <= 1 => HeldInv) /\ (loads <= 1 => KvInv) /\ [Next]_vars
          => (loads <= 1 => KvInv)'
  <2> SUFFICES ASSUME TypeOK, PinInv, loads <= 1 => HeldInv, loads <= 1 => KvInv,
                      [Next]_vars, loads' <= 1
               PROVE  KvInv'
    OBVIOUS
  <2>1. loads \in Nat /\ loads' >= loads /\ loads' \in Nat
    BY LoadsGrow, TypeNext DEF TypeOK, ControlTypes
  <2>2. loads <= 1
    BY <2>1
  <2> QED  BY <2>2, KvNext
<1> QED  BY <1>1, KvInit, TypeCorrect, PinCorrect, HeldCorrect, PTL DEF Spec

\* Until the first reload the list of cached tokens never promises cells that the
\* KV cache does not have, and no slot is given back with cells nobody lists.
THEOREM CacheAlwaysDescribesKv == Spec => [](loads <= 1 => CacheDescribesKv)
  BY KvCorrect, PTL DEF KvInv

-----------------------------------------------------------------------------
\* Whose tokens a request finds, until a stopAllGenerations begins.

NoStopAllYet == \A t \in Stoppers : spc[t] = "idle"

\* Then stop_all_ is set exactly while an operation runs.
StopEra ==
    /\ ~clear_idle
    /\ stop_all <=> opc \notin {"idle", "resumed"}

LEMMA NoStopAllBefore ==
    ASSUME TypeOK, [Next]_vars, NoStopAllYet'
    PROVE  NoStopAllYet
<1> SUFFICES ASSUME NEW t \in Stoppers PROVE spc[t] = "idle"
  BY DEF NoStopAllYet
<1>1. spc'[t] = "idle" /\ t # Op /\ t \in Threads
  BY EngineAssumption DEF NoStopAllYet, Threads
<1>2. CASE UNCHANGED spc
  BY <1>1, <1>2
<1>3. ASSUME NEW u \in Threads, StopAllBegin(u) \/ StopAllStep(u)
      PROVE  spc[t] = "idle"
  BY <1>1, <1>3 DEF StopAllBegin, StopAllStep, StopAllMode, StopAllFlags, StopAllNotify,
     StopAllSettle, TypeOK, ControlTypes
<1>4. CASE LoadModel \/ UnloadModel \/ OpStep
  BY <1>1, <1>4 DEF LoadModel, UnloadModel, OpBegin, OpStep, FreeModel, ClearTables,
     ClearSessions, LoadFails, PublishModel, PublishTables, ResumeStopAll, ResumeMode,
     stopVars, TypeOK, ControlTypes
<1>5. CASE \E r \in Reqs : LeaveActive(r)
  BY <1>1, <1>5 DEF LeaveActive
<1> QED  BY <1>2, <1>3, <1>4, <1>5, StopFrame DEF Threads

LEMMA StopEraNext ==
    ASSUME TypeOK, OpStopsFirst, NoStopAllYet, NoStopAllYet', StopEra, [Next]_vars
    PROVE  StopEra'
<1> USE DEF StopEra
<1>1. CASE UNCHANGED <<stop_all, clear_idle, spc, opc>>
  BY <1>1
<1>2. ASSUME NEW r \in Reqs, LeaveActive(r)
      PROVE  StopEra'
  BY <1>2 DEF LeaveActive, LastToLeave, opVars
<1>3. ASSUME NEW t \in Stoppers, StopAllBegin(t)
      PROVE  FALSE
  BY <1>3 DEF StopAllBegin, NoStopAllYet, TypeOK, ControlTypes, Threads
<1>4. ASSUME NEW t \in Threads, StopAllStep(t)
      PROVE  StopEra'
  <2>1. t = Op /\ ~StopAllSettle(t)
    BY <1>4 DEF StopAllStep, StopAllMode, StopAllFlags, StopAllNotify, StopAllSettle,
       NoStopAllYet, Threads, OpStopsFirst
  <2>2. CASE StopAllMode(t)
    <3>1. clear_idle' = FALSE /\ UNCHANGED <<stop_all, opc>>
      BY <2>1, <2>2 DEF StopAllMode, ClearWhenIdle, opVars
    <3> QED  BY <3>1
  <2>3. CASE StopAllFlags(t) \/ StopAllNotify(t)
    BY <2>3 DEF StopAllFlags, StopAllNotify, opVars
  <2> QED  BY <1>4, <2>1, <2>2, <2>3 DEF StopAllStep
<1>5. CASE LoadModel \/ UnloadModel
  BY <1>5 DEF LoadModel, UnloadModel, OpBegin
<1>6. CASE OpStep
  BY <1>6 DEF OpStep, FreeModel, ClearTables, ClearSessions, LoadFails, PublishModel,
     PublishTables, ResumeStopAll, ResumeMode, stopVars
<1> QED  BY <1>1, <1>2, <1>3, <1>4, <1>5, <1>6, StopFrame

LEMMA StopEraCorrect == Spec => [](NoStopAllYet => StopEra)
<1>1. Init => StopEra
  BY DEF Init, StopEra
<1>2. TypeOK /\ OpStopsFirst /\ (NoStopAllYet => StopEra) /\ [Next]_vars
          => (NoStopAllYet => StopEra)'
  BY NoStopAllBefore, StopEraNext
<1> QED  BY <1>1, <1>2, TypeCorrect, OpStopsCorrect, PTL DEF Spec

Clean(i, c) ==
    \A tokens \in {cached[i], kv[i]} : tokens = Nobody \/ (tokens = c /\ c # NoConv)
WithinOf(i, c) ==
    \A tokens \in {cached[i], kv[i]} : tokens = Nobody \/ tokens = c

WillReset(r) == r \in NapiReqs /\ reset[r]

\* What a request will find or has left in its slot.  A request that acquired
\* its slot while an operation drains finds anything, but it will be refused.
HolderClean(r) ==
    /\ pc[r] \in {"begun", "running", "freeing"} => Clean(seq[r], conv[r])
    /\ pc[r] = "registering" /\ ~WillReset(r) => Clean(seq[r], conv[r])
    /\ pc[r] = "acquired" /\ ~WillReset(r) /\ opc # "stopping" => Clean(seq[r], conv[r])
    /\ pc[r] = "unwind" /\ opc # "stopping" => EmptyAt(seq[r])
    /\ pc[r] \in {"decoding", "ending", "cleaning"} => WithinOf(seq[r], conv[r])

\* A request holds a slot of its pool, whose owner is its conversation or, after a
\* deletion, nobody; a Serve request has no conversation.
HolderOwns(r) ==
    /\ r \in ServeReqs => conv[r] = NoConv
    /\ pc[r] \in HoldingPcs => slot_owners[seq[r]] \in {conv[r], NoConv}
    /\ pc[r] \in HoldingPcs /\ n_slots > 0 => seq[r] \in PoolOf(r)

\* A free slot holds what its owner may reuse, in the Serve pool nothing.
FreeClean ==
    opc # "stopping" => \A i \in Slots \ slot_used :
        /\ slot_owners[i] # NoConv => Clean(i, slot_owners[i])
        /\ i >= n_slots => EmptyAt(i)

\* While model and tables are new nobody is active yet.
Renewing == {"publish", "resume"}

ResumeEmpty ==
    opc \in Renewing => AllEmpty /\ Active = {} /\ \A r \in Reqs : pc[r] # "registering"

CleanInv ==
    /\ \A r \in Reqs : HolderClean(r) /\ HolderOwns(r)
    /\ FreeClean /\ ResumeEmpty

LEMMA CleanInit == Init => CleanInv
<1> SUFFICES ASSUME Init PROVE CleanInv
  OBVIOUS
<1>1. AllEmpty
  BY DEF Init, AllEmpty, EmptyAt
<1>2. \A r \in Reqs : HolderClean(r) /\ HolderOwns(r)
  BY DEF Init, HolderClean, HolderOwns, HoldingPcs, ActivePcs
<1>3. FreeClean /\ ResumeEmpty
  BY <1>1 DEF Init, FreeClean, ResumeEmpty, Renewing, AllEmpty
<1> QED  BY <1>2, <1>3 DEF CleanInv

\* What does not touch the tables of owners keeps HolderOwns.
LEMMA CleanFrame ==
    ASSUME CleanInv, UNCHANGED <<seq, conv, slot_owners, n_slots>>,
           \A r \in Reqs : pc'[r] \in HoldingPcs => pc[r] \in HoldingPcs,
           \A r \in Reqs : HolderClean(r)', FreeClean', ResumeEmpty'
    PROVE  CleanInv'
<1>1. \A r \in Reqs : HolderOwns(r)'
  BY DEF CleanInv, HolderOwns, PoolOf
<1> QED  BY <1>1 DEF CleanInv

\* A request that does nothing, or only wakes, keeps what its slot holds.
LEMMA HolderKept ==
    ASSUME NEW r \in Reqs, HolderClean(r),
           UNCHANGED <<seq, conv, reset>>, opc' = opc \/ opc' = "stopping",
           cached'[seq[r]] = cached[seq[r]], kv'[seq[r]] = kv[seq[r]],
           pc'[r] = pc[r] \/ pc'[r] \notin HoldingPcs
    PROVE  HolderClean(r)'
  BY DEF HolderClean, Clean, WithinOf, EmptyAt, WillReset, HoldingPcs, ActivePcs

\* A step of a working request that writes its own slot only.
LEMMA CleanOwnSlot ==
    ASSUME TypeOK, PinInv, HeldInv, KvInv, CleanInv, NEW r \in Active, pc[r] # "leaving",
           \A i \in Slots : i # seq[r] => cached'[i] = cached[i] /\ kv'[i] = kv[i],
           UNCHANGED <<seq, conv, reset, slot_owners, slot_used, n_slots, opc>>,
           \A s \in Reqs : s # r => pc'[s] = pc[s],
           pc'[r] \in {"begun", "decoding", "ending", "freeing"}, HolderClean(r)'
    PROVE  CleanInv'
<1>1. r \in Reqs /\ r \in Holding /\ seq[r] \in Slots /\ seq[r] \in slot_used
  BY WorkingHolder DEF Active
<1>2. ASSUME NEW s \in Reqs, s # r
      PROVE  HolderClean(s)'
  <2>1. CASE s \in Holding
    <3>1. seq[s] # seq[r] /\ seq[s] \in Slots
      BY <1>1, <1>2, <2>1 DEF HeldInv, LeasesExclusive, TypeOK, RequestTypes
    <3> QED  BY <1>2, <3>1, HolderKept DEF CleanInv
  <2>2. CASE s \notin Holding
    BY <1>2, <2>2 DEF Holding, HoldingPcs, ActivePcs, HolderClean
  <2> QED  BY <2>1, <2>2
<1>3. FreeClean'
  <2>1. \A i \in Slots \ slot_used : cached'[i] = cached[i] /\ kv'[i] = kv[i]
    BY <1>1
  <2> QED  BY <2>1 DEF CleanInv, FreeClean, Clean, EmptyAt
<1>4. ResumeEmpty'
  BY DEF CleanInv, ResumeEmpty
<1>5. \A s \in Reqs : pc'[s] \in HoldingPcs => pc[s] \in HoldingPcs
  BY <1>1 DEF Holding
<1> QED  BY <1>2, <1>3, <1>4, <1>5, CleanFrame

\* A step that writes no tokens, frees no slot, and moves at most request r.
LEMMA CleanMove ==
    ASSUME CleanInv, NEW r \in Reqs,
           UNCHANGED <<cached, kv, seq, conv, reset, slot_owners, slot_used, n_slots, opc>>,
           \A s \in Reqs : s # r => pc'[s] = pc[s],
           pc'[r] \in HoldingPcs => pc[r] \in HoldingPcs,
           opc \in Renewing => pc'[r] \notin ActivePcs \cup {"registering"},
           HolderClean(r)'
    PROVE  CleanInv'
<1>1. \A s \in Reqs : HolderClean(s)'
  BY HolderKept DEF CleanInv
<1>2. FreeClean'
  BY DEF CleanInv, FreeClean, Clean, EmptyAt
<1>3. ResumeEmpty'
  BY DEF CleanInv, ResumeEmpty, AllEmpty, EmptyAt, Active
<1> QED  BY <1>1, <1>2, <1>3, CleanFrame

\* A refused commit left nothing behind in its slot, or the operation that
\* refused it will free everything.
LEMMA CleanCommitCheck ==
    ASSUME TypeOK, PinInv, HeldInv, KvInv, StopEra, CleanInv, NEW r \in Reqs, CommitCheck(r)
    PROVE  CleanInv'
<1>1. /\ UNCHANGED <<cached, kv, seq, conv, reset, slot_owners, slot_used, n_slots, opc>>
      /\ pc[r] = "acquired"
  BY DEF CommitCheck, slotVars, cacheVars, reqVars, opVars
<1>2. /\ \A s \in Reqs : s # r => pc'[s] = pc[s]
      /\ pc'[r] = IF Loaded /\ ~stop_all THEN "registering" ELSE "unwind"
  BY DEF CommitCheck, TypeOK, RequestTypes
<1>3. HolderClean(r) /\ seq[r] \in Slots /\ r \in Holding
  BY <1>1 DEF CleanInv, TypeOK, RequestTypes, Holding, HoldingPcs
<1>4. CASE Loaded /\ ~stop_all
  <2>1. pc'[r] = "registering" /\ opc \in {"idle", "resumed"}
    BY <1>2, <1>4 DEF StopEra
  <2>2. HolderClean(r)'
    BY <1>1, <1>3, <2>1 DEF HolderClean, Clean, WillReset
  <2> QED  BY <1>1, <1>2, <2>1, <2>2, CleanMove DEF HoldingPcs, Renewing
<1>5. CASE ~Loaded \/ stop_all
  <2>1. pc'[r] = "unwind"
    BY <1>2, <1>5
  <2>2. ASSUME opc # "stopping" PROVE EmptyAt(seq[r])
    <3>1. CASE model = 0
      BY <1>3, <3>1 DEF KvInv, EmptyWithoutModel, AllEmpty
    <3>2. CASE opc \in Renewing
      BY <1>3, <3>2 DEF CleanInv, ResumeEmpty, AllEmpty
    <3>3. CASE stop_all
      BY <2>2, <3>1, <3>2, <3>3
      DEF Renewing, StopEra, PinInv, OpPhases, TypeOK, ControlTypes, OpPcs
    <3> QED  BY <1>5, <3>1, <3>3 DEF Loaded
  <2>3. HolderClean(r)'
    BY <1>1, <2>1, <2>2 DEF HolderClean, EmptyAt
  <2> QED  BY <1>1, <1>2, <2>1, <2>3, CleanMove DEF HoldingPcs, ActivePcs
<1> QED  BY <1>4, <1>5

\* A slot that is given back is clean for its owner.
LEMMA CleanGiveBack ==
    ASSUME TypeOK, PinInv, HeldInv, KvInv, CleanInv, NEW r \in Reqs,
           ReleaseUnusedSlot(r) \/ FreeSlot(r)
    PROVE  CleanInv'
<1>1. UNCHANGED <<cached, kv, seq, conv, reset, slot_owners, n_slots, opc>>
  BY DEF ReleaseUnusedSlot, FreeSlot, cacheVars, reqVars, opVars
<1>2. slot_used' = slot_used \ {seq[r]} /\ pc[r] \in {"unwind", "freeing"}
  BY DEF ReleaseUnusedSlot, FreeSlot
<1>3. \A s \in Reqs : pc'[s] = pc[s] \/ pc'[s] \in {"refused", "leaving", "woken"}
  BY DEF ReleaseUnusedSlot, FreeSlot, NotifyOne, Waiters, TypeOK, RequestTypes
<1>4. \A s \in Reqs : HolderClean(s)'
  BY <1>1, <1>3, HolderKept DEF CleanInv, HoldingPcs, ActivePcs
<1>5. \A s \in Reqs : /\ pc'[s] \in HoldingPcs => pc[s] \in HoldingPcs
                      /\ pc'[s] # "registering" \/ pc[s] = "registering"
  BY <1>3 DEF HoldingPcs, ActivePcs
<1>6. ResumeEmpty'
  <2>1. ASSUME opc \in Renewing PROVE Active' = {}
    <3>1. pc[r] = "unwind" /\ pc'[r] = "refused"
      BY <1>2, <2>1 DEF CleanInv, ResumeEmpty, Active, ActivePcs, ReleaseUnusedSlot, FreeSlot,
         NotifyOne, Waiters, TypeOK, RequestTypes
    <3>2. \A s \in Reqs : pc'[s] = pc[s] \/ pc'[s] \in {"refused", "woken"}
      BY <1>2, <3>1 DEF ReleaseUnusedSlot, FreeSlot, NotifyOne, Waiters, TypeOK, RequestTypes
    <3> QED  BY <2>1, <3>2 DEF CleanInv, ResumeEmpty, Active, ActivePcs
  <2> QED  BY <1>1, <1>5, <2>1 DEF CleanInv, ResumeEmpty, AllEmpty, EmptyAt
<1>7. FreeClean'
  <2>1. /\ HolderClean(r) /\ HolderOwns(r) /\ seq[r] \in Slots
        /\ pc[r] \in HoldingPcs
    BY <1>2 DEF CleanInv, TypeOK, RequestTypes, HoldingPcs, ActivePcs
  <2>2. ASSUME opc # "stopping", slot_owners[seq[r]] # NoConv
        PROVE  Clean(seq[r], slot_owners[seq[r]])
    BY <1>2, <2>1, <2>2 DEF HolderClean, HolderOwns, Clean, EmptyAt
  <2>3. ASSUME opc # "stopping", seq[r] >= n_slots
        PROVE  EmptyAt(seq[r])
    <3>1. CASE n_slots = 0
      BY <2>1, <3>1 DEF KvInv, EmptyWithoutModel, AllEmpty
    <3>2. CASE n_slots > 0
      <4>1. seq[r] \in PoolOf(r)
        BY <2>1, <3>2 DEF HolderOwns
      <4>2. r \notin NapiReqs
        BY <2>3, <4>1 DEF PoolOf, TypeOK, SlotTypes
      <4>3. conv[r] = NoConv
        BY <2>1, <4>2 DEF HolderOwns, Reqs
      <4> QED  BY <1>2, <2>1, <2>3, <4>3 DEF HolderClean, Clean, EmptyAt
    <3> QED  BY <3>1, <3>2 DEF TypeOK, SlotTypes
  <2> QED
    BY <1>1, <1>2, <2>2, <2>3 DEF CleanInv, FreeClean, Clean, EmptyAt
<1> QED  BY <1>1, <1>4, <1>5, <1>6, <1>7, CleanFrame

LEMMA CleanRequestStep ==
    ASSUME TypeOK, PinInv, HeldInv, KvInv, StopEra, CleanInv, NEW r \in Reqs,
           RequestStep(r) \/ RequestStop(r)
    PROVE  CleanInv'
<1>1. CASE CommitCheck(r)
  BY <1>1, CleanCommitCheck
<1>2. CASE ReleaseUnusedSlot(r) \/ FreeSlot(r)
  BY <1>2, CleanGiveBack
<1>3. HolderClean(r) /\ HolderOwns(r) /\ seq[r] \in Slots
  BY DEF CleanInv, TypeOK, RequestTypes
<1>4. CASE \/ CommitRegister(r) \/ StartWorker(r) \/ EraseSession(r) \/ LeaveActive(r)
           \/ RequestStop(r)
  <2>1. UNCHANGED <<cached, kv, seq, conv, reset, slot_owners, slot_used, n_slots, opc>>
    BY <1>4 DEF CommitRegister, StartWorker, EraseSession, LeaveActive, RequestStop,
       slotVars, cacheVars, reqVars, opVars
  <2>2. \A s \in Reqs : s # r => pc'[s] = pc[s]
    BY <1>4 DEF CommitRegister, StartWorker, EraseSession, LeaveActive, RequestStop, Move,
       TypeOK, RequestTypes
  <2>3. \/ UNCHANGED pc \/ pc'[r] \in {"guard", "done"}
        \/ pc[r] = "registering" /\ pc'[r] = IF WillReset(r) THEN "clearing" ELSE "begun"
        \/ pc[r] = "begun" /\ pc'[r] \in {"running", "ending"}
        \/ pc[r] = "ending" /\ pc'[r] = "cleaning"
    <3>1. CASE EraseSession(r)
      BY <3>1, EraseMoves DEF TypeOK, RequestTypes
    <3>2. CASE ~EraseSession(r)
      BY <1>4, <3>2 DEF CommitRegister, StartWorker, LeaveActive, AfterEnd, RequestStop, Move,
         WillReset, TypeOK, RequestTypes
    <3> QED  BY <3>1, <3>2
  <2>4. HolderClean(r)'
    BY <1>3, <2>1, <2>3 DEF HolderClean, Clean, WithinOf, EmptyAt, WillReset
  <2>5. pc'[r] \in HoldingPcs => pc[r] \in HoldingPcs
    BY <2>3 DEF HoldingPcs, ActivePcs
  <2>6. opc \in Renewing => pc'[r] \notin ActivePcs \cup {"registering"}
    BY <2>3 DEF CleanInv, ResumeEmpty, Active, ActivePcs
  <2> QED  BY <2>1, <2>2, <2>4, <2>5, <2>6, CleanMove
<1>5. ASSUME r \in Active, pc[r] # "leaving",
             UNCHANGED <<seq, conv, reset, slot_owners, slot_used, n_slots, opc>>,
             NEW where \in {"begun", "decoding", "ending", "freeing"},
             pc' = [pc EXCEPT ![r] = where],
             \A i \in Slots : i # seq[r] => cached'[i] = cached[i] /\ kv'[i] = kv[i],
             where \in {"begun", "freeing"} => Clean(seq[r], conv[r])',
             where \in {"decoding", "ending"} => WithinOf(seq[r], conv[r])'
      PROVE  CleanInv'
  <2>1. pc'[r] = where /\ \A s \in Reqs : s # r => pc'[s] = pc[s]
    BY <1>5 DEF TypeOK, RequestTypes
  <2>2. HolderClean(r)'
    BY <1>5, <2>1 DEF HolderClean
  <2> QED  BY <1>5, <2>1, <2>2, CleanOwnSlot
<1>6. ASSUME ClearOnReset(r) \/ Prefill(r) \/ FinishRun(r) \/ CleanSlot(r)
      PROVE  /\ r \in Active /\ pc[r] # "leaving"
             /\ UNCHANGED <<seq, conv, reset, slot_owners, slot_used, n_slots, opc>>
             /\ \A i \in Slots : i # seq[r] => cached'[i] = cached[i] /\ kv'[i] = kv[i]
  <2>1. UNCHANGED <<seq, conv, reset, slot_owners, slot_used, n_slots, opc>>
    BY <1>6 DEF ClearOnReset, Prefill, FinishRun, CleanSlot, slotVars, reqVars, opVars
  <2>2. r \in Active /\ pc[r] # "leaving"
    BY <1>6 DEF ClearOnReset, Prefill, FinishRun, CleanSlot, Move, Active, ActivePcs
  <2>3. \A i \in Slots : i # seq[r] => cached'[i] = cached[i] /\ kv'[i] = kv[i]
    BY <1>6 DEF ClearOnReset, Prefill, FinishRun, CleanSlot, TypeOK, SlotTypes
  <2> QED  BY <2>1, <2>2, <2>3
<1>7. CASE ClearOnReset(r)
  <2>1. cached'[seq[r]] = Nobody /\ kv'[seq[r]] = Nobody
    BY <1>3, <1>7 DEF ClearOnReset, TypeOK, SlotTypes
  <2>2. Clean(seq[r], conv[r])'
    BY <1>6, <1>7, <2>1 DEF Clean
  <2> QED  BY <1>5, <1>6, <1>7, <2>2 DEF ClearOnReset
<1>8. CASE Prefill(r)
  <2>1. CASE Move(r, "running", "decoding") /\ cached' = [cached EXCEPT ![seq[r]] = Nobody]
             /\ kv' = [kv EXCEPT ![seq[r]] = conv[r]]
    <3>1. cached'[seq[r]] = Nobody /\ kv'[seq[r]] = conv[r]
      BY <1>3, <2>1 DEF TypeOK, SlotTypes
    <3>2. WithinOf(seq[r], conv[r])'
      BY <1>6, <1>8, <3>1 DEF WithinOf
    <3> QED  BY <1>5, <1>6, <1>8, <2>1, <3>2 DEF Move
  <2>2. CASE Move(r, "running", "ending") /\ UNCHANGED <<cached, kv>>
    <3>1. WithinOf(seq[r], conv[r])'
      BY <1>3, <1>6, <1>8, <2>2 DEF Move, HolderClean, Clean, WithinOf
    <3> QED  BY <1>5, <1>6, <1>8, <2>2, <3>1 DEF Move
  <2> QED  BY <1>8, <2>1, <2>2 DEF Prefill
<1>9. CASE FinishRun(r)
  <2>1. WithinOf(seq[r], conv[r])
    BY <1>3, <1>9 DEF FinishRun, Move, HolderClean
  <2>2. cached'[seq[r]] \in {cached[seq[r]], conv[r]} /\ kv'[seq[r]] = kv[seq[r]]
    BY <1>3, <1>9 DEF FinishRun, TypeOK, SlotTypes
  <2>3. WithinOf(seq[r], conv[r])'
    BY <1>6, <1>9, <2>1, <2>2 DEF WithinOf
  <2> QED  BY <1>5, <1>6, <1>9, <2>3 DEF FinishRun, Move
<1>10. CASE CleanSlot(r)
  <2>1. /\ cached'[seq[r]] = KeptTokens(seq[r]) /\ kv'[seq[r]] = KeptKv(seq[r])
        /\ pc[r] = "cleaning"
    BY <1>3, <1>10 DEF CleanSlot, Move, TypeOK, SlotTypes
  <2>2. WithinOf(seq[r], conv[r]) /\ slot_owners[seq[r]] \in {conv[r], NoConv}
    BY <1>3, <2>1 DEF HolderClean, HolderOwns, HoldingPcs, ActivePcs
  <2>3. Clean(seq[r], conv[r])'
    BY <1>6, <1>10, <2>1, <2>2 DEF Clean, WithinOf, KeptTokens, KeptKv
  <2> QED  BY <1>5, <1>6, <1>10, <2>3 DEF CleanSlot, Move
<1> QED  BY <1>1, <1>2, <1>4, <1>7, <1>8, <1>9, <1>10 DEF RequestStep

\* A slot that keeps its owner is clean for the new request; a slot of the Serve
\* pool is empty; every other one is marked for clearing.
LEMMA CleanTake ==
    ASSUME TypeOK, HeldInv, CleanInv, NEW r \in Reqs, pc[r] \in {"new", "woken"},
           NEW c \in Owners, NEW i \in Choice(r, c), TakeSlot(r, c, i),
           r \in NapiReqs \/ c = NoConv, UNCHANGED <<cached, kv, opc>>
    PROVE  CleanInv'
<1>1. i \in Slots /\ i \in PoolOf(r) /\ i \notin slot_used
  BY ChoiceInPool DEF TypeOK
<1>2. /\ seq'[r] = i /\ conv'[r] = c /\ pc'[r] = "acquired"
      /\ reset'[r] = ResetOnTake(c, i)
      /\ \A s \in Reqs : s # r => /\ seq'[s] = seq[s] /\ conv'[s] = conv[s]
                                  /\ pc'[s] = pc[s] /\ reset'[s] = reset[s]
  BY DEF TakeSlot, TypeOK, RequestTypes
<1>3. /\ slot_owners'[i] = c /\ \A j \in Slots : j # i => slot_owners'[j] = slot_owners[j]
      /\ slot_used' = slot_used \cup {i} /\ UNCHANGED n_slots
  BY <1>1 DEF TakeSlot, TypeOK, SlotTypes
<1>4. n_slots > 0
  BY <1>1, EngineAssumption DEF PoolOf, TypeOK, SlotTypes
<1>5. ASSUME NEW s \in Reqs, s # r
      PROVE  HolderClean(s)' /\ HolderOwns(s)'
  <2>1. HolderClean(s) /\ HolderOwns(s)
    BY DEF CleanInv
  <2>2. HolderClean(s)'
    BY <1>2, <1>5, <2>1 DEF HolderClean, Clean, WithinOf, EmptyAt, WillReset
  <2>3. pc[s] \in HoldingPcs => seq[s] \in slot_used /\ seq[s] \in Slots
    BY <1>4 DEF HeldInv, UsedSlotsHeld, Holding, TypeOK, RequestTypes
  <2>4. HolderOwns(s)'
    BY <1>1, <1>2, <1>3, <1>5, <2>1, <2>3 DEF HolderOwns, PoolOf
  <2> QED  BY <2>2, <2>4
<1>6. HolderOwns(r)'
  BY <1>1, <1>2, <1>3, EngineAssumption DEF HolderOwns, PoolOf
<1>7. HolderClean(r)'
  <2>1. SUFFICES ASSUME ~WillReset(r)', opc # "stopping" PROVE Clean(i, c)
    BY <1>2 DEF HolderClean, Clean, WillReset
  <2>2. CASE r \in NapiReqs
    <3>1. c # NoConv /\ slot_owners[i] = c
      BY <1>2, <2>1, <2>2 DEF WillReset, ResetOnTake
    <3> QED  BY <1>1, <2>1, <3>1 DEF CleanInv, FreeClean
  <2>3. CASE r \notin NapiReqs
    <3>1. i >= n_slots
      BY <1>1, <2>3 DEF PoolOf, TypeOK, SlotTypes
    <3> QED  BY <1>1, <2>1, <3>1 DEF CleanInv, FreeClean, EmptyAt, Clean
  <2> QED  BY <2>2, <2>3
<1>8. FreeClean'
  BY <1>1, <1>3 DEF CleanInv, FreeClean, Clean, EmptyAt
<1>9. ResumeEmpty'
  BY <1>2 DEF CleanInv, ResumeEmpty, AllEmpty, EmptyAt, Active, ActivePcs
<1> QED  BY <1>2, <1>5, <1>6, <1>7, <1>8, <1>9 DEF CleanInv

\* A deletion disowns slots and empties those that nobody holds.
LEMMA CleanDelete ==
    ASSUME TypeOK, HeldInv, CleanInv, NEW c \in Conversations, DeleteConversation(c)
    PROVE  CleanInv'
<1> DEFINE owned == {i \in 0 .. 2 * n_slots - 1 : slot_owners[i] = c}
           idle  == owned \ slot_used
<1>1. /\ UNCHANGED <<seq, conv, reset, pc, slot_used, n_slots, opc>>
      /\ slot_owners' = [i \in Slots |-> IF i \in owned THEN NoConv ELSE slot_owners[i]]
      /\ cached' = [i \in Slots |-> IF i \in idle THEN Nobody ELSE cached[i]]
      /\ kv' = [i \in Slots |-> IF i \in idle THEN Nobody ELSE kv[i]]
      /\ owned # {}
  BY DEF DeleteConversation, reqVars, opVars
<1>2. n_slots > 0
  BY <1>1 DEF TypeOK, SlotTypes
<1>3. idle \cap slot_used = {}
  OBVIOUS
<1> HIDE DEF owned, idle
<1>4. \A i \in Slots : /\ slot_owners'[i] \in {slot_owners[i], NoConv}
                       /\ \/ cached'[i] = Nobody /\ kv'[i] = Nobody
                          \/ cached'[i] = cached[i] /\ kv'[i] = kv[i]
  BY <1>1
<1>5. ASSUME NEW r \in Reqs
      PROVE  HolderClean(r)' /\ HolderOwns(r)'
  <2>1. HolderClean(r) /\ HolderOwns(r) /\ seq[r] \in Slots
    BY DEF CleanInv, TypeOK, RequestTypes
  <2>2. HolderOwns(r)'
    BY <1>1, <1>4, <2>1 DEF HolderOwns, PoolOf
  <2>3. CASE pc[r] \in HoldingPcs
    <3>1. seq[r] \notin idle
      BY <1>2, <1>3, <2>3 DEF HeldInv, UsedSlotsHeld, Holding
    <3>2. cached'[seq[r]] = cached[seq[r]] /\ kv'[seq[r]] = kv[seq[r]]
      BY <1>1, <2>1, <3>1
    <3> QED  BY <1>1, <2>1, <2>2, <3>2, HolderKept
  <2>4. CASE pc[r] \notin HoldingPcs
    BY <1>1, <2>2, <2>4 DEF HolderClean, HoldingPcs, ActivePcs
  <2> QED  BY <2>3, <2>4
<1>6. FreeClean'
  BY <1>1, <1>4 DEF CleanInv, FreeClean, Clean, EmptyAt
<1>7. ResumeEmpty'
  BY <1>1, <1>4 DEF CleanInv, ResumeEmpty, AllEmpty, EmptyAt, Active
<1> QED  BY <1>5, <1>6, <1>7 DEF CleanInv

\* An operation changes the tables only when they hold nothing.
LEMMA CleanOp ==
    ASSUME TypeOK, PinInv, HeldInv, KvInv, KvInv', CleanInv, LoadModel \/ UnloadModel \/ OpStep
    PROVE  CleanInv'
<1>1. UNCHANGED <<seq, conv, reset, pc>>
  BY DEF LoadModel, UnloadModel, OpBegin, OpStep, FreeModel, ClearTables,
     ClearSessions, LoadFails, PublishModel, PublishTables, ResumeStopAll, ResumeMode,
     OpUnchanged, reqVars
<1>2. \A r \in Reqs : HolderOwns(r) /\ HolderClean(r) /\ seq[r] \in Slots
  BY DEF CleanInv, TypeOK, RequestTypes
<1>3. CASE \/ LoadModel \/ UnloadModel \/ ResumeStopAll \/ ResumeMode
  <2>1. /\ UNCHANGED <<cached, kv, slot_owners, slot_used, n_slots>>
        /\ opc # "stopping" /\ opc' \notin Renewing
    BY <1>3 DEF Renewing, LoadModel, UnloadModel, OpBegin, ResumeStopAll, ResumeMode, cacheVars, slotVars
  <2>2. \A r \in Reqs : HolderClean(r)'
    BY <1>1, <1>2, <2>1 DEF HolderClean, Clean, WithinOf, EmptyAt, WillReset
  <2>3. FreeClean' /\ ResumeEmpty'
    BY <2>1 DEF CleanInv, FreeClean, ResumeEmpty, Clean, EmptyAt
  <2> QED  BY <1>1, <2>1, <2>2, <2>3, CleanFrame
<1>4. ASSUME AllEmpty',
             \A i \in Slots : slot_owners'[i] \in {slot_owners[i], NoConv},
             n_slots' = 0 \/ n_slots' = n_slots \/ Holding = {},
             opc' \in Renewing => Active = {} /\ \A r \in Reqs : pc[r] # "registering"
      PROVE  CleanInv'
  <2>1. \A r \in Reqs : HolderClean(r)'
    BY <1>1, <1>2, <1>4 DEF HolderClean, Clean, WithinOf, EmptyAt, AllEmpty
  <2>2. \A r \in Reqs : HolderOwns(r)'
    BY <1>1, <1>2, <1>4 DEF HolderOwns, PoolOf, Holding
  <2>3. FreeClean' /\ ResumeEmpty'
    BY <1>1, <1>4 DEF FreeClean, ResumeEmpty, AllEmpty, Clean, EmptyAt, Active
  <2> QED  BY <2>1, <2>2, <2>3 DEF CleanInv
<1>5. model = 0 => Active = {} /\ \A r \in Reqs : pc[r] # "registering"
  BY NobodyActive DEF PinInv, CommitInMutex, Loaded
<1>6. CASE FreeModel \/ ClearTables
  <2>1. AllEmpty'
    BY <1>6 DEF FreeModel, ClearTables, PinInv, OpPhases, KvInv, EmptyWithoutModel, AllEmpty,
       EmptyAt, cacheVars
  <2>2. /\ \A i \in Slots : slot_owners'[i] \in {slot_owners[i], NoConv}
        /\ n_slots' = 0 \/ n_slots' = n_slots
        /\ opc' \notin Renewing
    BY <1>6 DEF Renewing, FreeModel, ClearTables, slotVars
  <2> QED  BY <1>4, <2>1, <2>2
<1>7. CASE ClearSessions \/ LoadFails \/ PublishModel
  <2>1. model = 0
    BY <1>7 DEF ClearSessions, LoadFails, PublishModel, PinInv, OpPhases
  <2>2. AllEmpty'
    BY <1>7, <2>1 DEF ClearSessions, LoadFails, PublishModel, KvInv, EmptyWithoutModel,
       AllEmpty, EmptyAt, cacheVars
  <2>3. UNCHANGED <<slot_owners, n_slots>>
    BY <1>7 DEF ClearSessions, LoadFails, PublishModel, slotVars
  <2> QED  BY <1>4, <1>5, <2>1, <2>2, <2>3
<1>8. ASSUME NEW p \in LoadParallels, PublishTables(p)
      PROVE  CleanInv'
  <2>1. Holding = {} /\ n_slots = 0
    BY <1>8 DEF PublishTables, HeldInv, NothingHeldBefore, PublishIsLoad, BeforeTables
  <2>2. AllEmpty'
    BY <1>8, <2>1 DEF PublishTables, KvInv, EmptyWithoutModel, AllEmpty, EmptyAt
  <2>3. \A i \in Slots : slot_owners'[i] = NoConv
    BY <1>8 DEF PublishTables
  <2>4. Active = {} /\ \A r \in Reqs : pc[r] # "registering"
    BY <1>8 DEF PublishTables, CleanInv, ResumeEmpty, Renewing
  <2> QED  BY <1>4, <2>1, <2>2, <2>3, <2>4
<1> QED  BY <1>3, <1>6, <1>7, <1>8 DEF OpStep

LEMMA CleanNext ==
    ASSUME TypeOK, PinInv, HeldInv, KvInv, KvInv', StopEra, CleanInv, [Next]_vars
    PROVE  CleanInv'
<1>1. ASSUME NEW r \in Reqs, NEW c \in Owners,
             \/ r \in NapiReqs /\ BeginGenerate(r, c)
             \/ r \in ServeReqs /\ BlockingEval(r)
      PROVE  CleanInv'
  <2>1. UNCHANGED <<cached, kv, opc>> /\ pc[r] \in {"new", "woken"}
    BY <1>1 DEF BeginGenerate, BlockingEval, opVars, cacheVars
  <2>2. ASSUME NEW where \in {"refused", "waiting"}, pc' = [pc EXCEPT ![r] = where],
               UNCHANGED <<slotVars, reqVars>>
        PROVE  CleanInv'
    <3>1. UNCHANGED <<seq, conv, reset, slot_owners, slot_used, n_slots>>
      BY <2>2 DEF slotVars, reqVars
    <3>2. pc'[r] \in {"refused", "waiting"} /\ \A s \in Reqs : s # r => pc'[s] = pc[s]
      BY <2>2 DEF TypeOK, RequestTypes
    <3>3. HolderClean(r)' /\ pc'[r] \notin HoldingPcs /\ pc'[r] \notin ActivePcs \cup {"registering"}
      BY <3>2 DEF HolderClean, HoldingPcs, ActivePcs
    <3> QED  BY <2>1, <3>1, <3>2, <3>3, CleanMove
  <2>3. ASSUME NEW d \in Owners, NEW i \in Choice(r, d), TakeSlot(r, d, i),
               r \in NapiReqs \/ d = NoConv
        PROVE  CleanInv'
    BY <2>1, <2>3, CleanTake
  <2>4. CASE r \in NapiReqs /\ BeginGenerate(r, c)
    BY <2>2, <2>3, <2>4 DEF BeginGenerate, Refuse
  <2>5. CASE r \in ServeReqs /\ BlockingEval(r)
    BY <2>2, <2>3, <2>5 DEF BlockingEval, Refuse, SleepOrTimeOut, Owners
  <2> QED  BY <1>1, <2>4, <2>5
<1>2. ASSUME NEW r \in Reqs, RequestStep(r) \/ RequestStop(r)
      PROVE  CleanInv'
  BY <1>2, CleanRequestStep
<1>3. CASE LoadModel \/ UnloadModel \/ OpStep
  BY <1>3, CleanOp
<1>4. ASSUME UNCHANGED <<cached, kv, seq, conv, reset, slot_owners, slot_used, n_slots, opc>>,
             UNCHANGED pc \/ WakeAll
      PROVE  CleanInv'
  <2>1. \A r \in Reqs : pc'[r] = pc[r] \/ pc'[r] = "woken"
    BY <1>4 DEF WakeAll
  <2>2. \A r \in Reqs : HolderClean(r)'
    BY <1>4, <2>1, HolderKept DEF CleanInv, HoldingPcs, ActivePcs
  <2>3. FreeClean'
    BY <1>4 DEF CleanInv, FreeClean, Clean, EmptyAt
  <2>4. ResumeEmpty'
    BY <1>4, <2>1 DEF CleanInv, ResumeEmpty, AllEmpty, EmptyAt, Active, ActivePcs
  <2> QED  BY <1>4, <2>1, <2>2, <2>3, <2>4, CleanFrame DEF HoldingPcs, ActivePcs
<1> DEFINE stops == \/ \E t \in Threads : StopAllBegin(t) \/ StopAllStep(t)
                    \/ ServerStop \/ NotifySlotWaiters
<1>5. CASE stops
  <2>1. UNCHANGED <<cached, kv, seq, conv, reset, slot_owners, slot_used, n_slots, opc>>
    BY <1>5 DEF StopAllBegin, StopAllStep, StopAllMode, StopAllFlags, StopAllNotify,
       StopAllSettle, ServerStop, NotifySlotWaiters, slotVars, cacheVars, reqVars, opVars
  <2>2. UNCHANGED pc \/ WakeAll
    BY <1>5 DEF StopAllBegin, StopAllStep, StopAllMode, StopAllFlags, StopAllNotify,
       StopAllSettle, ServerStop, NotifySlotWaiters
  <2> QED  BY <1>4, <2>1, <2>2
<1>6. ASSUME NEW c \in Conversations, DeleteConversation(c)
      PROVE  CleanInv'
  BY <1>6, CleanDelete
<1>7. CASE UNCHANGED vars
  BY <1>4, <1>7 DEF vars, slotVars, cacheVars, reqVars, opVars
<1> QED
  BY <1>1, <1>2, <1>3, <1>5, <1>6, <1>7 DEF Next, Reqs, Threads, Owners

LEMMA CleanCorrect == Spec => [](loads <= 1 /\ NoStopAllYet => CleanInv)
<1>1. Init => CleanInv
  BY CleanInit
<1>2. TypeOK /\ PinInv /\ (loads <= 1 => HeldInv)
      /\ (loads <= 1 => KvInv) /\ (loads <= 1 => KvInv)'
      /\ (NoStopAllYet => StopEra)
      /\ (loads <= 1 /\ NoStopAllYet => CleanInv) /\ [Next]_vars
          => (loads <= 1 /\ NoStopAllYet => CleanInv)'
  <2> SUFFICES ASSUME TypeOK, PinInv, loads <= 1 => HeldInv, loads <= 1 => KvInv,
                      (loads <= 1 => KvInv)', NoStopAllYet => StopEra,
                      loads <= 1 /\ NoStopAllYet => CleanInv, [Next]_vars,
                      loads' <= 1, NoStopAllYet'
               PROVE  CleanInv'
    OBVIOUS
  <2>1. loads \in Nat /\ loads' >= loads /\ loads' \in Nat
    BY LoadsGrow, TypeNext DEF TypeOK, ControlTypes
  <2>2. loads <= 1 /\ NoStopAllYet
    BY <2>1, NoStopAllBefore
  <2> QED  BY <2>2, CleanNext
<1> QED
  BY <1>1, <1>2, TypeCorrect, PinCorrect, HeldCorrect, KvCorrect, StopEraCorrect, PTL DEF Spec

\* Until the first reload and the first stopAllGenerations a worker starts in a
\* sequence that holds nothing but what its own conversation put there.
THEOREM AlwaysStartsClean == Spec => [](loads <= 1 /\ NoStopAllYet => StartsClean)
<1>1. CleanInv => StartsClean
  BY DEF CleanInv, HolderClean, Clean, StartsClean
<1> QED  BY <1>1, CleanCorrect, PTL
=============================================================================
