---------------------- MODULE SessionPersistenceProofs ----------------------
(***************************************************************************)
(* Theorems about SessionPersistence for every number of sessions, changes *)
(* and restarts.                                                           *)
(***************************************************************************)
EXTENDS SessionPersistence, TLAPS

-----------------------------------------------------------------------------
Snapshots == [head : Nat, body : Nat]
Jobs      == [op : {"save", "remove"}, id : Ids, content : Snapshots]

\* The jobs on the chain that save a session.
Saves == {i \in 1 .. Len(chain) : chain[i].op = "save"}

\* The snapshots of a session wait in the order of their making: none is from
\* the future, none has a body newer than its head, and what is stored is older.
ChainInv ==
    /\ chain \in Seq(Jobs)
    /\ \A i \in Saves : /\ chain[i].content.body <= chain[i].content.head
                        /\ chain[i].content.head <= clock
                        /\ disk.bodies[chain[i].id] <= chain[i].content.head
    /\ \A i, j \in Saves : i < j /\ chain[i].id = chain[j].id
                              => chain[i].content.head <= chain[j].content.head

\* A session that is not persistent is newer than all that bears its id.
NewerThanAll(s) ==
    /\ disk.bodies[s] <= sessions[s].head /\ sessions[s].body <= sessions[s].head
    /\ sessions[s].head <= clock
    /\ \A i \in Saves : chain[i].id = s => chain[i].content.head <= sessions[s].head

MemoryInv ==
    /\ sessions \in [Ids -> Snapshots] /\ picked \in [Ids -> Snapshots]
    /\ persistent \subseteq Ids /\ clock \in 0 .. MaxChanges
    /\ \A s \in Ids : sessions[s].body <= clock /\ picked[s].body <= clock
    /\ \A s \in Present \ persistent : NewerThanAll(s)

TableInv ==
    /\ heads \in [Ids -> Nat] /\ bodies \in [Ids -> Nat] /\ tx \in BOOLEAN
    /\ disk \in [heads : [Ids -> Nat], bodies : [Ids -> Nat]]
    /\ \A s \in Ids : /\ bodies[s] = Partly \/ bodies[s] <= clock
                      /\ disk.bodies[s] <= clock
                      /\ disk.bodies[s] <= disk.heads[s]

\* A transaction differs from what is committed only in the rows of its job,
\* and what the job has done before each of its steps.
StepInv ==
    /\ step \in {"ready", "insert", "begin", "delete", "clear", "add", "commit", "rollback"}
    /\ step # "ready" => chain # <<>>
    /\ ~tx => heads = disk.heads /\ bodies = disk.bodies
    /\ step \in {"delete", "clear", "add", "commit", "rollback"} => tx
    /\ step \in {"delete", "clear", "add", "commit"} =>
           \A s \in Ids \ {Now.id} : heads[s] = disk.heads[s] /\ bodies[s] = disk.bodies[s]
    /\ step = "delete" => Now.op = "remove"
    /\ step \in {"insert", "begin", "add"} => Now.op = "save"
    /\ step \in {"begin", "clear", "add", "commit"} /\ Now.op = "save" =>
           heads[Now.id] = Now.content.head
    /\ step = "commit" => bodies[Now.id] = IF Now.op = "save" THEN Now.content.body ELSE 0
    /\ step \in {"clear", "commit"} /\ Now.op = "remove" => heads[Now.id] = 0

StoreInv == ChainInv /\ MemoryInv /\ TableInv /\ StepInv

LEMMA StoreInit == Init => StoreInv
<1> SUFFICES ASSUME Init PROVE StoreInv
  OBVIOUS
<1>1. /\ chain = <<>> /\ step = "ready" /\ clock = 0 /\ persistent = {} /\ tx = FALSE
      /\ sessions = [s \in Ids |-> NoSession] /\ picked = [s \in Ids |-> NoSession]
      /\ heads = Empty /\ bodies = Empty /\ disk = [heads |-> Empty, bodies |-> Empty]
  BY DEF Init
<1>2. Saves = {} /\ chain \in Seq(Jobs)
  <2>1. Len(chain) = 0 /\ 1 .. 0 = {}
    BY <1>1
  <2> QED  BY <1>1, <2>1 DEF Saves
<1>3. ChainInv
  BY <1>2 DEF ChainInv
<1>4. MemoryInv
  <2>1. Present = {}
    BY <1>1 DEF Present, NoSession
  <2>2. sessions \in [Ids -> Snapshots] /\ picked \in [Ids -> Snapshots]
    BY <1>1 DEF Snapshots, NoSession
  <2>3. \A s \in Ids : sessions[s].body = 0 /\ picked[s].body = 0
    BY <1>1 DEF NoSession
  <2> QED  BY <1>1, <2>1, <2>2, <2>3, PersistenceAssumption DEF MemoryInv
<1>5. TableInv
  <2>1. disk.heads = Empty /\ disk.bodies = Empty /\ Empty \in [Ids -> Nat]
        /\ \A s \in Ids : Empty[s] = 0
    BY <1>1 DEF Empty
  <2>2. disk \in [heads : [Ids -> Nat], bodies : [Ids -> Nat]] /\ tx \in BOOLEAN
    BY <1>1, <2>1
  <2>3. \A s \in Ids : bodies[s] = 0 /\ disk.bodies[s] = 0 /\ disk.heads[s] = 0
    BY <1>1, <2>1
  <2>4. \A s \in Ids : /\ bodies[s] = Partly \/ bodies[s] <= clock
                       /\ disk.bodies[s] <= clock
                       /\ disk.bodies[s] <= disk.heads[s]
    BY <1>1, <2>3
  <2> QED  BY <1>1, <2>1, <2>2, <2>4 DEF TableInv
<1>6. StepInv
  BY <1>1 DEF StepInv
<1> QED  BY <1>3, <1>4, <1>5, <1>6 DEF StoreInv

-----------------------------------------------------------------------------
(***************************************************************************)
(* The chain.                                                              *)
(***************************************************************************)
\* The chain gets longer by a job, or shorter by the first one.
Pushed(job) ==
    /\ chain' \in Seq(Jobs) /\ Len(chain) \in Nat
    /\ Len(chain') = Len(chain) + 1 /\ chain'[Len(chain) + 1] = job
    /\ \A i \in 1 .. Len(chain) : chain'[i] = chain[i]

Shifted ==
    /\ chain' \in Seq(Jobs) /\ Len(chain) \in Nat /\ Len(chain) > 0
    /\ Len(chain') = Len(chain) - 1
    /\ \A i \in 1 .. Len(chain') : chain'[i] = chain[i + 1]

LEMMA AppendPushes ==
    ASSUME chain \in Seq(Jobs), NEW job \in Jobs, chain' = Append(chain, job)
    PROVE  Pushed(job)
<1> QED  BY DEF Pushed

LEMMA TailShifts ==
    ASSUME chain \in Seq(Jobs), chain # <<>>, chain' = Tail(chain)
    PROVE  Shifted
<1> QED  BY DEF Shifted

\* A job is queued, while what is stored stays.
LEMMA ChainPush ==
    ASSUME ChainInv, NEW job \in Jobs, Pushed(job),
           clock \in Nat, clock' \in Nat, clock <= clock', UNCHANGED disk,
           job.op = "save" =>
               /\ job.content.body <= job.content.head /\ job.content.head <= clock'
               /\ disk.bodies[job.id] <= job.content.head
               /\ \A i \in Saves : chain[i].id = job.id
                                       => chain[i].content.head <= job.content.head
    PROVE  /\ ChainInv'
           /\ \A i \in Saves' : (i \in Saves /\ chain'[i] = chain[i]) \/ chain'[i] = job
           /\ Len(chain) \in Nat
           /\ chain # <<>> => Now' = Now
<1>1. /\ chain \in Seq(Jobs) /\ Len(chain) \in Nat
      /\ chain' \in Seq(Jobs)
      /\ Len(chain') = Len(chain) + 1
      /\ chain'[Len(chain) + 1] = job
      /\ \A i \in 1 .. Len(chain) : chain'[i] = chain[i]
  BY DEF ChainInv, Pushed
<1>2. \A i \in Saves' : \/ i \in Saves /\ chain'[i] = chain[i] /\ i <= Len(chain)
                        \/ i = Len(chain) + 1 /\ chain'[i] = job
  BY <1>1 DEF Saves
<1>3. \A i \in Saves : chain[i] \in Jobs /\ chain[i].content.head \in Nat
  <2>1. \A i \in Saves : chain[i] \in Jobs
    BY <1>1 DEF Saves
  <2> QED  BY <2>1 DEF Jobs, Snapshots
<1>4. ASSUME NEW i \in Saves'
      PROVE  /\ chain'[i].content.body <= chain'[i].content.head
             /\ chain'[i].content.head <= clock'
             /\ disk'.bodies[chain'[i].id] <= chain'[i].content.head
  <2>1. CASE i \in Saves /\ chain'[i] = chain[i]
    BY <1>3, <2>1 DEF ChainInv
  <2>2. CASE chain'[i] = job
    BY <2>2 DEF Saves
  <2> QED  BY <1>2, <2>1, <2>2
<1>5. ASSUME NEW i \in Saves', NEW j \in Saves', i < j, chain'[i].id = chain'[j].id
      PROVE  chain'[i].content.head <= chain'[j].content.head
  <2>1. i \in Nat /\ j \in Nat
    BY DEF Saves
  <2>2. CASE j \in Saves /\ chain'[j] = chain[j] /\ j <= Len(chain)
    <3>1. i # Len(chain) + 1
      BY <1>1, <1>5, <2>1, <2>2
    <3>2. i \in Saves /\ chain'[i] = chain[i]
      BY <1>2, <3>1
    <3> QED  BY <1>5, <2>2, <3>2 DEF ChainInv
  <2>3. CASE j = Len(chain) + 1 /\ chain'[j] = job
    <3>1. i # Len(chain) + 1
      BY <1>1, <1>5, <2>1, <2>3
    <3>2. i \in Saves /\ chain'[i] = chain[i]
      BY <1>2, <3>1
    <3>3. job.op = "save"
      BY <2>3 DEF Saves
    <3> QED  BY <1>5, <2>3, <3>2, <3>3
  <2> QED  BY <1>2, <2>2, <2>3
<1>6. chain # <<>> => Now' = Now
  BY <1>1 DEF Now
<1> QED  BY <1>1, <1>2, <1>4, <1>5, <1>6 DEF ChainInv

\* The first job leaves the chain; what is stored then is its own snapshot at
\* the most.
LEMMA ChainShift ==
    ASSUME ChainInv, Shifted, UNCHANGED clock,
           \/ UNCHANGED disk
           \/ /\ \A s \in Ids \ {Now.id} : disk'.bodies[s] = disk.bodies[s]
              /\ disk'.bodies[Now.id] = IF Now.op = "save" THEN Now.content.body ELSE 0
    PROVE  /\ ChainInv'
           /\ \A i \in Saves' : i + 1 \in Saves /\ chain'[i] = chain[i + 1]
<1>1. /\ chain \in Seq(Jobs) /\ Len(chain) \in Nat /\ Len(chain) > 0
      /\ chain' \in Seq(Jobs)
      /\ Len(chain') = Len(chain) - 1
      /\ \A i \in 1 .. Len(chain') : chain'[i] = chain[i + 1]
  BY DEF ChainInv, Shifted
<1>2. \A i \in Saves' : i + 1 \in Saves /\ chain'[i] = chain[i + 1] /\ i \in Nat /\ 1 <= i
  BY <1>1 DEF Saves
<1>3. \A i \in Saves : /\ chain[i].content.head \in Nat /\ chain[i].content.body \in Nat
                       /\ chain[i].id \in Ids
  <2>1. \A i \in Saves : chain[i] \in Jobs
    BY <1>1 DEF Saves
  <2> QED  BY <2>1 DEF Jobs, Snapshots
<1>4. ASSUME NEW i \in Saves'
      PROVE  disk'.bodies[chain'[i].id] <= chain'[i].content.head
  <2>1. disk.bodies[chain[i + 1].id] <= chain[i + 1].content.head
    BY <1>2 DEF ChainInv
  <2>2. CASE disk'.bodies[chain'[i].id] = disk.bodies[chain'[i].id]
    BY <1>2, <2>1, <2>2
  <2>3. CASE /\ chain'[i].id = Now.id
             /\ disk'.bodies[Now.id] = IF Now.op = "save" THEN Now.content.body ELSE 0
    <3>1. CASE Now.op = "save"
      <4>1. 1 \in Saves
        BY <1>1, <3>1 DEF Saves, Now
      <4>2. chain[1].content.head <= chain[i + 1].content.head
        <5>1. 1 < i + 1 /\ chain[1].id = chain[i + 1].id
          <6>1. 1 < i + 1
            BY <1>2
          <6> QED  BY <1>2, <2>3, <6>1 DEF Now
        <5> QED  BY <1>2, <4>1, <5>1 DEF ChainInv
      <4>3. chain[1].content.body <= chain[1].content.head
        BY <4>1 DEF ChainInv
      <4>4. disk'.bodies[chain'[i].id] = chain[1].content.body
        BY <2>3, <3>1 DEF Now
      <4>5. chain[1].content.body <= chain[i + 1].content.head
        BY <1>2, <1>3, <4>1, <4>2, <4>3
      <4> QED  BY <1>2, <4>4, <4>5
    <3>2. CASE Now.op # "save"
      <4>1. disk'.bodies[chain'[i].id] = 0
        BY <2>3, <3>2
      <4>2. chain'[i].content.head \in Nat
        BY <1>2, <1>3
      <4> QED  BY <4>1, <4>2
    <3> QED  BY <3>1, <3>2
  <2> QED  BY <1>2, <1>3, <2>2, <2>3
<1>5. ASSUME NEW i \in Saves', NEW j \in Saves', i < j, chain'[i].id = chain'[j].id
      PROVE  chain'[i].content.head <= chain'[j].content.head
  <2>1. i + 1 < j + 1
    BY <1>2, <1>5
  <2> QED  BY <1>2, <1>5, <2>1 DEF ChainInv
<1>6. \A i \in Saves' : /\ chain'[i].content.body <= chain'[i].content.head
                        /\ chain'[i].content.head <= clock'
  BY <1>2 DEF ChainInv
<1> QED  BY <1>1, <1>2, <1>4, <1>5, <1>6 DEF ChainInv

-----------------------------------------------------------------------------
(***************************************************************************)
(* The user.                                                               *)
(***************************************************************************)
\* What the user does leaves the tables and the callback that runs alone.
LEMMA TablesStay ==
    ASSUME TableInv, StepInv, UNCHANGED <<step, tables>>,
           clock \in Nat, clock' \in Nat, clock <= clock',
           chain # <<>> => chain' # <<>> /\ Now' = Now
    PROVE  TableInv' /\ StepInv'
<1>1. UNCHANGED <<heads, bodies, disk, tx, step>>
  BY DEF tables
<1>2. TableInv'
  <2>1. \A s \in Ids : bodies[s] \in Nat /\ disk.bodies[s] \in Nat
    BY DEF TableInv
  <2> QED  BY <1>1, <2>1 DEF TableInv
<1>3. StepInv'
  BY <1>1 DEF StepInv
<1> QED  BY <1>2, <1>3

LEMMA StillNewer ==
    ASSUME NEW t \in Ids, NewerThanAll(t), sessions'[t] = sessions[t], UNCHANGED disk,
           sessions \in [Ids -> Snapshots], clock \in Nat, clock' \in Nat, clock <= clock',
           \A i \in Saves' : (i \in Saves /\ chain'[i] = chain[i]) \/ chain'[i].id # t
    PROVE  NewerThanAll(t)'
<1>1. sessions[t].head \in Nat
  BY DEF Snapshots
<1> QED  BY <1>1 DEF NewerThanAll

LEMMA SavesTyped ==
    ASSUME ChainInv
    PROVE  \A i \in Saves : /\ chain[i] \in Jobs /\ chain[i].id \in Ids
                            /\ chain[i].content.head \in Nat /\ chain[i].content.body \in Nat
<1>1. \A i \in Saves : chain[i] \in Jobs
  BY DEF ChainInv, Saves
<1> QED  BY <1>1 DEF Jobs, Snapshots

\* The chain stays, and the time goes on.
LEMMA ChainStays ==
    ASSUME ChainInv, UNCHANGED <<chain, disk>>,
           clock \in Nat, clock' \in Nat, clock <= clock'
    PROVE  ChainInv' /\ Saves' = Saves
<1>1. Saves' = Saves
  BY DEF Saves
<1> QED  BY <1>1, SavesTyped DEF ChainInv

LEMMA NewSessionKeeps ==
    ASSUME StoreInv, NewSession
    PROVE  StoreInv'
<1> DEFINE new == [head |-> clock + 1, body |-> clock + 1]
<1>1. /\ nextId \in Ids /\ clock' = clock + 1 /\ clock < MaxChanges
      /\ sessions' = [sessions EXCEPT ![nextId] = new]
      /\ UNCHANGED <<persistent, chain, picked, step, tables, disk>>
  BY DEF NewSession, Changed, UserActs, restore, tables
<1>2. clock \in 0 .. MaxChanges /\ clock \in Nat /\ clock' \in 0 .. MaxChanges
      /\ clock' \in Nat /\ clock <= clock'
  BY <1>1, PersistenceAssumption DEF StoreInv, MemoryInv
<1>3. TableInv' /\ StepInv'
  BY <1>1, <1>2, TablesStay DEF StoreInv, Now
<1>4. ChainInv' /\ Saves' = Saves
  BY <1>1, <1>2, ChainStays DEF StoreInv
<1>5. new \in Snapshots /\ new.head = clock + 1 /\ new.body = clock + 1
  BY <1>2 DEF Snapshots
<1> HIDE DEF new
<1>6. MemoryInv'
  <2>1. /\ sessions \in [Ids -> Snapshots] /\ sessions' \in [Ids -> Snapshots]
        /\ sessions'[nextId] = new
        /\ \A s \in Ids : s # nextId => sessions'[s] = sessions[s]
    BY <1>1, <1>5 DEF StoreInv, MemoryInv
  <2>2. \A s \in Ids : sessions'[s].body <= clock' /\ picked'[s].body <= clock'
    <3>1. \A s \in Ids : sessions[s].body <= clock /\ picked[s].body <= clock
          /\ sessions[s].body \in Nat /\ picked[s].body \in Nat
      BY DEF StoreInv, MemoryInv, Snapshots
    <3> QED  BY <1>1, <1>2, <1>5, <2>1, <3>1
  <2>3. ASSUME NEW s \in (Present \ persistent)' PROVE NewerThanAll(s)'
    <3>1. CASE s = nextId
      <4>1. \A i \in Saves' : chain'[i].content.head <= clock'
        BY <1>4 DEF ChainInv
      <4>2. disk.bodies[nextId] <= clock /\ disk.bodies[nextId] \in Nat
        BY <1>1 DEF StoreInv, TableInv
      <4> QED  BY <1>1, <1>2, <1>5, <2>1, <3>1, <4>1, <4>2 DEF NewerThanAll
    <3>2. CASE s # nextId
      <4>1. s \in Present \ persistent
        BY <1>1, <2>1, <2>3, <3>2 DEF Present
      <4>2. NewerThanAll(s) /\ s \in Ids
        BY <4>1 DEF StoreInv, MemoryInv, Present
      <4> QED  BY <1>1, <1>2, <1>4, <2>1, <3>2, <4>2, StillNewer
    <3> QED  BY <3>1, <3>2
  <2> QED  BY <1>1, <1>2, <2>1, <2>2, <2>3 DEF StoreInv, MemoryInv
<1> QED  BY <1>3, <1>4, <1>6 DEF StoreInv

\* A call that queues a job of session s and leaves the others as they are.
LEMMA JobKeeps ==
    ASSUME StoreInv, NEW s \in Ids, NEW job \in Jobs, job.id = s,
           chain' = Append(chain, job), UNCHANGED <<step, tables>>,
           clock \in Nat, clock' \in Nat, clock <= clock',
           job.op = "save" =>
               /\ job.content.body <= job.content.head /\ job.content.head <= clock'
               /\ disk.bodies[s] <= job.content.head
               /\ \A i \in Saves : chain[i].id = s
                                       => chain[i].content.head <= job.content.head
    PROVE  /\ ChainInv' /\ TableInv' /\ StepInv'
           /\ \A i \in Saves' : (i \in Saves /\ chain'[i] = chain[i]) \/ chain'[i].id = s
<1>1. Pushed(job) /\ UNCHANGED disk
  BY AppendPushes DEF StoreInv, ChainInv, tables
<1>2. /\ ChainInv'
      /\ \A i \in Saves' : (i \in Saves /\ chain'[i] = chain[i]) \/ chain'[i] = job
      /\ Len(chain) \in Nat
      /\ chain # <<>> => Now' = Now
  BY <1>1, ChainPush DEF StoreInv
<1>3. chain' # <<>>
  BY <1>1 DEF Pushed
<1>4. TableInv' /\ StepInv'
  BY <1>2, <1>3, TablesStay DEF StoreInv
<1> QED  BY <1>2, <1>4

\* Only session s changes in memory, and if it is not persistent it is newer
\* than what bears its id.
LEMMA OneChanges ==
    ASSUME MemoryInv, NEW s \in Ids, NEW content \in Snapshots,
           sessions' = [sessions EXCEPT ![s] = content], content.body <= clock',
           UNCHANGED <<picked, disk>>, clock' \in 0 .. MaxChanges, clock <= clock',
           persistent' \in {persistent, persistent \cup {s}, persistent \ {s}},
           \A i \in Saves' : (i \in Saves /\ chain'[i] = chain[i]) \/ chain'[i].id = s,
           s \in (Present \ persistent)' => NewerThanAll(s)'
    PROVE  MemoryInv'
<1>1. /\ clock \in Nat /\ clock' \in Nat
      /\ sessions \in [Ids -> Snapshots] /\ sessions' \in [Ids -> Snapshots]
      /\ sessions'[s] = content /\ \A t \in Ids : t # s => sessions'[t] = sessions[t]
  BY PersistenceAssumption DEF MemoryInv
<1>2. \A t \in Ids : sessions'[t].body <= clock' /\ picked'[t].body <= clock'
  <2>1. \A t \in Ids : /\ sessions[t].body <= clock /\ picked[t].body <= clock
                       /\ sessions[t].body \in Nat /\ picked[t].body \in Nat
    BY DEF MemoryInv, Snapshots
  <2> QED  BY <1>1, <2>1
<1>3. ASSUME NEW t \in (Present \ persistent)' PROVE NewerThanAll(t)'
  <2>1. CASE t = s
    BY <1>3, <2>1
  <2>2. CASE t # s
    <3>1. t \in Present \ persistent /\ t \in Ids
      BY <1>1, <1>3, <2>2 DEF Present
    <3>2. NewerThanAll(t)
      BY <3>1 DEF MemoryInv
    <3>3. \A i \in Saves' : (i \in Saves /\ chain'[i] = chain[i]) \/ chain'[i].id # t
      BY <2>2
    <3> QED  BY <1>1, <2>2, <3>1, <3>2, <3>3, StillNewer
  <2> QED  BY <2>1, <2>2
<1>4. persistent' \subseteq Ids /\ picked' \in [Ids -> Snapshots]
  BY DEF MemoryInv
<1> QED  BY <1>1, <1>2, <1>3, <1>4 DEF MemoryInv

\* A call of replaceSession, with a job or without.
Replacing(s) == Change(s) \/ Generate(s) \/ Token(s) \/ Ends(s)

LEMMA ReplacingReplaces ==
    ASSUME sessions \in [Ids -> Snapshots], NEW s \in Ids, Replacing(s)
    PROVE  \E body \in {sessions[s].body, clock + 1} :
               /\ Replaces(s, body)
               /\ \/ Token(s) /\ chain' = chain
                  \/ chain' = IF s \in persistent
                              THEN Append(chain, Job("save", s, [head |-> clock + 1, body |-> body]))
                              ELSE chain
<1>1. PICK body \in {sessions[s].body, clock + 1} :
          Replaces(s, body) /\ ((Token(s) /\ chain' = chain) \/ Persists(s))
  BY DEF Replacing, Change, Generate, Token, Ends
<1>2. sessions'[s] = [head |-> clock + 1, body |-> body]
  BY <1>1 DEF Replaces
<1>3. Persists(s) => chain' = IF s \in persistent
                              THEN Append(chain, Job("save", s, [head |-> clock + 1, body |-> body]))
                              ELSE chain
  BY <1>2 DEF Persists, SaveAgain
<1> QED  BY <1>1, <1>3

LEMMA ReplacingKeeps ==
    ASSUME StoreInv, NEW s \in Ids, Replacing(s)
    PROVE  StoreInv'
<1>1. PICK body \in {sessions[s].body, clock + 1} :
          /\ Replaces(s, body)
          /\ \/ Token(s) /\ chain' = chain
             \/ chain' = IF s \in persistent
                         THEN Append(chain, Job("save", s, [head |-> clock + 1, body |-> body]))
                         ELSE chain
  BY ReplacingReplaces DEF StoreInv, MemoryInv
<1> DEFINE content == [head |-> clock + 1, body |-> body]
           job     == Job("save", s, content)
<1>2. /\ clock' = clock + 1 /\ clock < MaxChanges
      /\ UNCHANGED <<persistent, picked, step, tables, disk>>
  BY <1>1 DEF Replaces, Changed, UserActs, restore, tables
<1>3. clock \in 0 .. MaxChanges /\ clock \in Nat /\ clock' \in 0 .. MaxChanges
      /\ clock' \in Nat /\ clock <= clock'
  BY <1>2, PersistenceAssumption DEF StoreInv, MemoryInv
<1>4. /\ content \in Snapshots /\ content.head = clock' /\ content.body <= clock'
      /\ content.body <= content.head
  <2>1. sessions[s].body \in Nat /\ sessions[s].body <= clock
    BY DEF StoreInv, MemoryInv, Snapshots
  <2>2. body \in Nat /\ body <= clock + 1
    BY <1>3, <2>1
  <2> QED  BY <1>2, <1>3, <2>2 DEF Snapshots
<1>5. /\ job \in Jobs /\ job.id = s /\ job.op = "save" /\ job.content = content
  BY <1>4 DEF Job, Jobs
<1>6. /\ sessions' = [sessions EXCEPT ![s] = content]
      /\ chain' = chain \/ (s \in persistent /\ chain' = Append(chain, job))
  BY <1>1 DEF Replaces
<1> HIDE DEF content, job
<1>7. /\ disk.bodies[s] <= content.head
      /\ \A i \in Saves : chain[i].content.head <= content.head
  <2>1. disk.bodies[s] <= clock /\ disk.bodies[s] \in Nat
    BY DEF StoreInv, TableInv
  <2>2. \A i \in Saves : chain[i].content.head <= clock /\ chain[i].content.head \in Nat
    BY SavesTyped DEF StoreInv, ChainInv
  <2> QED  BY <1>3, <1>4, <2>1, <2>2
<1>8. /\ ChainInv' /\ TableInv' /\ StepInv'
      /\ \A i \in Saves' : (i \in Saves /\ chain'[i] = chain[i]) \/ chain'[i].id = s
      /\ s \notin persistent => Saves' = Saves /\ chain' = chain
  <2>1. CASE s \in persistent /\ chain' = Append(chain, job)
    <3>1. chain' = Append(chain, job)
      BY <2>1
    <3>2. /\ job.content.body <= job.content.head /\ job.content.head <= clock'
          /\ disk.bodies[s] <= job.content.head
          /\ \A i \in Saves : chain[i].id = s
                                  => chain[i].content.head <= job.content.head
      BY <1>3, <1>4, <1>5, <1>7
    <3> QED  BY <1>2, <1>3, <1>5, <2>1, <3>1, <3>2, JobKeeps
  <2>2. CASE chain' = chain
    <3>1. UNCHANGED <<chain, disk>>
      BY <1>2, <2>2
    <3>2. ChainInv' /\ Saves' = Saves
      BY <1>3, <3>1, ChainStays DEF StoreInv
    <3>3. TableInv' /\ StepInv'
      BY <1>2, <1>3, <3>1, TablesStay DEF StoreInv, Now
    <3> QED  BY <2>2, <3>1, <3>2, <3>3
  <2> QED  BY <1>6, <2>1, <2>2
<1>9. ASSUME s \in (Present \ persistent)' PROVE NewerThanAll(s)'
  <2>1. sessions'[s] = content /\ s \notin persistent
    BY <1>2, <1>6, <1>9 DEF StoreInv, MemoryInv
  <2>2. disk' = disk /\ Saves' = Saves /\ chain' = chain
    BY <1>2, <1>8, <2>1
  <2>3. content.head <= clock'
    BY <1>3, <1>4
  <2>4. /\ disk'.bodies[s] <= sessions'[s].head /\ sessions'[s].body <= sessions'[s].head
        /\ sessions'[s].head <= clock'
    BY <1>4, <1>7, <2>1, <2>2, <2>3
  <2>5. \A i \in Saves' : chain'[i].content.head <= sessions'[s].head
    BY <1>7, <2>1, <2>2
  <2> QED  BY <2>4, <2>5 DEF NewerThanAll
<1>10. MemoryInv'
  BY <1>2, <1>3, <1>4, <1>6, <1>8, <1>9, OneChanges DEF StoreInv
<1> QED  BY <1>8, <1>10 DEF StoreInv

LEMMA EnableKeeps ==
    ASSUME StoreInv, NEW s \in Ids, EnablePersistence(s)
    PROVE  StoreInv'
<1> DEFINE job == Job("save", s, sessions[s])
<1>1. /\ s \in Present \ persistent /\ persistent' = persistent \cup {s}
      /\ chain' = Append(chain, job)
      /\ UNCHANGED <<sessions, picked, step, tables, disk, clock>>
  BY DEF EnablePersistence, SaveAgain, UserActs, restore, tables, changes
<1>2. /\ clock \in 0 .. MaxChanges /\ clock \in Nat /\ NewerThanAll(s)
      /\ sessions \in [Ids -> Snapshots]
  BY <1>1, PersistenceAssumption DEF StoreInv, MemoryInv
<1>3. job \in Jobs /\ job.id = s /\ job.op = "save" /\ job.content = sessions[s]
  BY <1>2 DEF Job, Jobs
<1> HIDE DEF job
<1>4. clock' = clock /\ clock' \in 0 .. MaxChanges /\ clock' \in Nat /\ clock <= clock'
  BY <1>1, <1>2
<1>5. /\ ChainInv' /\ TableInv' /\ StepInv'
      /\ \A i \in Saves' : (i \in Saves /\ chain'[i] = chain[i]) \/ chain'[i].id = s
  BY <1>1, <1>2, <1>3, <1>4, JobKeeps DEF NewerThanAll
<1>6. /\ sessions' = [sessions EXCEPT ![s] = sessions[s]] /\ sessions[s] \in Snapshots
      /\ sessions[s].body <= clock'
  BY <1>1, <1>2, <1>4 DEF StoreInv, MemoryInv
<1>7. s \notin (Present \ persistent)'
  BY <1>1
<1>8. MemoryInv'
  BY <1>1, <1>4, <1>5, <1>6, <1>7, OneChanges DEF StoreInv
<1> QED  BY <1>5, <1>8 DEF StoreInv

LEMMA DeleteSessionKeeps ==
    ASSUME StoreInv, NEW s \in Ids, DeleteSession(s)
    PROVE  StoreInv'
<1> DEFINE job == Job("remove", s, sessions[s])
<1>1. /\ persistent' = persistent \ {s}
      /\ sessions' = [sessions EXCEPT ![s] = NoSession]
      /\ chain' = Append(chain, job)
      /\ UNCHANGED <<picked, step, tables, disk, clock>>
  BY DEF DeleteSession, RemoveInTurn, UserActs, restore, tables, changes
<1>2. /\ clock \in 0 .. MaxChanges /\ clock \in Nat /\ sessions \in [Ids -> Snapshots]
  BY <1>1, PersistenceAssumption DEF StoreInv, MemoryInv
<1>3. job \in Jobs /\ job.id = s /\ job.op # "save"
  BY <1>2 DEF Job, Jobs
<1> HIDE DEF job
<1>4. clock' = clock /\ clock' \in 0 .. MaxChanges /\ clock' \in Nat /\ clock <= clock'
  BY <1>1, <1>2
<1>5. /\ ChainInv' /\ TableInv' /\ StepInv'
      /\ \A i \in Saves' : (i \in Saves /\ chain'[i] = chain[i]) \/ chain'[i].id = s
  BY <1>1, <1>2, <1>3, <1>4, JobKeeps
<1>6. NoSession \in Snapshots /\ NoSession.body <= clock'
  BY <1>4 DEF NoSession, Snapshots
<1>7. s \notin (Present \ persistent)'
  BY <1>1, <1>2 DEF Present
<1>8. MemoryInv'
  BY <1>1, <1>4, <1>5, <1>6, <1>7, OneChanges DEF StoreInv
<1> QED  BY <1>5, <1>8 DEF StoreInv

-----------------------------------------------------------------------------
(***************************************************************************)
(* The callbacks.                                                          *)
(***************************************************************************)
\* Nothing newer than a snapshot of its session becomes durable.
LEMMA CallbackMemory ==
    ASSUME MemoryInv, ChainInv, UNCHANGED <<sessions, picked, persistent, clock>>,
           \A i \in Saves' : \E j \in Saves : chain'[i] = chain[j],
           \A s \in Ids : \/ disk'.bodies[s] = disk.bodies[s]
                          \/ disk'.bodies[s] = 0
                          \/ \E i \in Saves : /\ chain[i].id = s
                                              /\ disk'.bodies[s] = chain[i].content.body
    PROVE  MemoryInv'
<1>1. Present' = Present
  BY DEF Present
<1>2. ASSUME NEW s \in Present \ persistent PROVE NewerThanAll(s)'
  <2>1. NewerThanAll(s) /\ s \in Ids /\ sessions[s].head \in Nat
    BY DEF MemoryInv, Present, Snapshots
  <2>2. disk'.bodies[s] <= sessions[s].head
    <3>1. ASSUME NEW i \in Saves, chain[i].id = s
          PROVE  chain[i].content.body <= sessions[s].head
      <4>1. /\ chain[i].content.body <= chain[i].content.head
            /\ chain[i].content.head <= sessions[s].head
        BY <2>1, <3>1 DEF ChainInv, NewerThanAll
      <4> QED  BY <2>1, <4>1, SavesTyped
    <3> QED  BY <2>1, <3>1 DEF NewerThanAll
  <2>3. \A i \in Saves' : chain'[i].id = s => chain'[i].content.head <= sessions[s].head
    BY <2>1 DEF NewerThanAll
  <2> QED  BY <2>1, <2>2, <2>3 DEF NewerThanAll
<1> QED  BY <1>1, <1>2 DEF MemoryInv

\* A statement of the job that runs: the chain stays.
LEMMA StatementKeeps ==
    ASSUME StoreInv, UNCHANGED <<sessions, picked, persistent, clock, chain>>,
           disk'.bodies = disk.bodies, TableInv', StepInv'
    PROVE  StoreInv'
<1>1. Saves' = Saves
  BY DEF Saves
<1>2. ChainInv'
  BY <1>1 DEF StoreInv, ChainInv
<1>3. MemoryInv'
  <2>1. \A i \in Saves' : \E j \in Saves : chain'[i] = chain[j]
    BY <1>1
  <2> QED  BY <2>1, CallbackMemory DEF StoreInv
<1> QED  BY <1>2, <1>3 DEF StoreInv

\* The job that runs is a job, and its snapshot is newer than what is stored.
LEMMA NowTyped ==
    ASSUME StoreInv, chain # <<>>
    PROVE  /\ Now.id \in Ids /\ Now.content.head \in Nat /\ Now.content.body \in Nat
           /\ Now.op \in {"save", "remove"}
           /\ Now.op = "save" => /\ 1 \in Saves
                                 /\ Now.content.body <= Now.content.head
                                 /\ Now.content.head <= clock
                                 /\ disk.bodies[Now.id] <= Now.content.head
<1>1. Len(chain) \in Nat /\ Len(chain) > 0 /\ Now \in Jobs
  BY DEF StoreInv, ChainInv, Now
<1>2. Now.op = "save" => 1 \in Saves
  BY <1>1 DEF Saves, Now
<1> QED  BY <1>1, <1>2 DEF StoreInv, ChainInv, Now, Jobs, Snapshots

LEMMA UpdateKeeps ==
    ASSUME StoreInv, Update \/ Insert
    PROVE  StoreInv'
<1>1. /\ chain # <<>> /\ Now.op = "save" /\ step \in {"ready", "insert"}
      /\ UNCHANGED <<sessions, picked, persistent, clock, chain>>
      /\ \/ step' = "insert" /\ UNCHANGED <<heads, bodies, disk, tx>>
         \/ step' = "begin" /\ Writes([heads EXCEPT ![Now.id] = Now.content.head], bodies)
  BY DEF Update, Insert, Runs, Goes, Callback, memory, restore, changes, tables
<1>2. /\ Now.id \in Ids /\ Now.content.head \in Nat
      /\ disk.bodies[Now.id] <= Now.content.head /\ Now' = Now
  BY <1>1, NowTyped DEF Now
<1>3. CASE step' = "insert" /\ UNCHANGED <<heads, bodies, disk, tx>>
  <2>1. TableInv'
    BY <1>1, <1>3 DEF StoreInv, TableInv
  <2>2. StepInv'
    BY <1>1, <1>2, <1>3 DEF StoreInv, StepInv
  <2> QED  BY <1>1, <1>3, <2>1, <2>2, StatementKeeps
<1>4. CASE step' = "begin" /\ Writes([heads EXCEPT ![Now.id] = Now.content.head], bodies)
  <2> DEFINE h == [heads EXCEPT ![Now.id] = Now.content.head]
  <2>1. /\ heads' = h /\ bodies' = bodies /\ tx' = tx
        /\ disk' = IF tx THEN disk ELSE [heads |-> h, bodies |-> bodies]
    BY <1>4 DEF Writes
  <2>2. /\ h \in [Ids -> Nat] /\ h[Now.id] = Now.content.head
        /\ \A s \in Ids \ {Now.id} : h[s] = heads[s]
    BY <1>2 DEF StoreInv, TableInv
  <2> HIDE DEF h
  <2>3. disk'.bodies = disk.bodies /\ (~tx => disk'.heads = h /\ heads = disk.heads)
    BY <2>1 DEF StoreInv, StepInv
  <2>4. TableInv'
    <3>1. disk' \in [heads : [Ids -> Nat], bodies : [Ids -> Nat]]
      BY <2>1, <2>2 DEF StoreInv, TableInv
    <3>2. \A s \in Ids : disk'.bodies[s] <= disk'.heads[s]
      BY <1>2, <2>1, <2>2, <2>3 DEF StoreInv, TableInv
    <3> QED  BY <1>1, <2>1, <2>2, <2>3, <3>1, <3>2 DEF StoreInv, TableInv
  <2>5. StepInv'
    <3>1. ~tx' => heads' = disk'.heads /\ bodies' = disk'.bodies
      BY <2>1
    <3> QED  BY <1>1, <1>2, <1>4, <2>1, <2>2, <3>1 DEF StepInv
  <2> QED  BY <1>1, <2>3, <2>4, <2>5, StatementKeeps
<1> QED  BY <1>1, <1>3, <1>4

LEMMA BeginKeeps ==
    ASSUME StoreInv, Begin
    PROVE  StoreInv'
<1>1. /\ chain # <<>> /\ ~tx /\ tx' = TRUE
      /\ step' = IF Now.op = "save" THEN "clear" ELSE "delete"
      /\ Now.op = "save" => step = "begin"
      /\ Now.op \in {"save", "remove"}
      /\ UNCHANGED <<sessions, picked, persistent, clock, chain, heads, bodies, disk>>
  BY DEF Begin, AsOne, Runs, Goes, Callback, memory, restore, changes
<1>2. TableInv'
  BY <1>1 DEF StoreInv, TableInv
<1>3. StepInv'
  <2>1. Now' = Now /\ heads = disk.heads /\ bodies = disk.bodies
    BY <1>1 DEF Now, StoreInv, StepInv
  <2> QED  BY <1>1, <2>1 DEF StoreInv, StepInv
<1> QED  BY <1>1, <1>2, <1>3, StatementKeeps

\* The statements within a transaction change the rows of their job.
LEMMA InnerKeeps ==
    ASSUME StoreInv, Delete \/ ClearMessages \/ AddMessages
    PROVE  StoreInv'
<1>1. /\ chain # <<>> /\ step \in {"delete", "clear", "add"}
      /\ UNCHANGED <<sessions, picked, persistent, clock, chain>>
  BY DEF Delete, ClearMessages, AddMessages, Runs, Goes, Callback, memory, restore, changes
<1>2. /\ tx /\ Now' = Now /\ Now.id \in Ids /\ Now.op \in {"save", "remove"}
      /\ Now.content.body \in Nat
      /\ Now.op = "save" => Now.content.body <= clock
  <2>1. clock \in Nat
    BY PersistenceAssumption DEF StoreInv, MemoryInv
  <2> QED  BY <1>1, <2>1, NowTyped DEF Now, StoreInv, StepInv
<1>3. PICK h \in Nat, b \in Nat :
          /\ heads' = [heads EXCEPT ![Now.id] = h] /\ bodies' = [bodies EXCEPT ![Now.id] = b]
          /\ UNCHANGED <<disk, tx>>
          /\ b = Partly \/ b = bodies[Now.id] \/ b = 0 \/ (Now.op = "save" /\ b = Now.content.body)
          /\ \/ step' = "clear" /\ Now.op = "remove" /\ h = 0
             \/ step' = "add" /\ Now.op = "save" /\ h = heads[Now.id]
             \/ step' = "commit" /\ Now.op = "save" /\ h = heads[Now.id] /\ b = Now.content.body
             \/ step' = "commit" /\ Now.op = "remove" /\ b = 0 /\ h = heads[Now.id] /\ step = "clear"
  <2>0. /\ heads \in [Ids -> Nat] /\ bodies \in [Ids -> Nat] /\ Partly \in Nat
        /\ heads = [heads EXCEPT ![Now.id] = heads[Now.id]]
        /\ bodies = [bodies EXCEPT ![Now.id] = bodies[Now.id]]
        /\ heads[Now.id] \in Nat /\ bodies[Now.id] \in Nat
    BY <1>2, PersistenceAssumption DEF StoreInv, TableInv, Partly
  <2>1. CASE Delete
    <3>1. /\ heads' = [heads EXCEPT ![Now.id] = 0] /\ bodies' = bodies
          /\ UNCHANGED <<disk, tx>> /\ step' = "clear" /\ Now.op = "remove"
      BY <1>2, <2>1 DEF Delete, Runs, Goes, Writes
    <3> QED  BY <2>0, <3>1
  <2>2. CASE ClearMessages /\ Now.op = "save"
    <3>1. /\ heads' = heads /\ bodies' = [bodies EXCEPT ![Now.id] = Partly]
          /\ UNCHANGED <<disk, tx>> /\ step' = "add"
      BY <1>2, <2>2 DEF ClearMessages, Goes, Writes
    <3> QED  BY <2>0, <2>2, <3>1
  <2>3. CASE ClearMessages /\ Now.op = "remove"
    <3>1. /\ heads' = heads /\ bodies' = [bodies EXCEPT ![Now.id] = 0]
          /\ UNCHANGED <<disk, tx>> /\ step' = "commit" /\ step = "clear"
      BY <1>2, <2>3 DEF ClearMessages, Goes, Writes
    <3> QED  BY <2>0, <2>3, <3>1
  <2>4. CASE AddMessages
    <3>1. /\ heads' = heads /\ bodies' = [bodies EXCEPT ![Now.id] = Now.content.body]
          /\ UNCHANGED <<disk, tx>> /\ step' = "commit" /\ Now.op = "save"
      BY <1>2, <2>4 DEF AddMessages, Runs, Goes, Writes
    <3> QED  BY <1>2, <2>0, <3>1
  <2> QED  BY <1>2, <2>1, <2>2, <2>3, <2>4
<1>4. /\ heads' \in [Ids -> Nat] /\ bodies' \in [Ids -> Nat]
      /\ heads'[Now.id] = h /\ bodies'[Now.id] = b
      /\ \A s \in Ids \ {Now.id} : heads'[s] = heads[s] /\ bodies'[s] = bodies[s]
  BY <1>2, <1>3 DEF StoreInv, TableInv
<1>5. TableInv'
  <2>1. clock \in Nat
    BY PersistenceAssumption DEF StoreInv, MemoryInv
  <2>2. \A s \in Ids : bodies'[s] = Partly \/ bodies'[s] <= clock
    BY <1>2, <1>3, <1>4, <2>1 DEF StoreInv, TableInv
  <2>3. Partly' = Partly
    BY DEF Partly
  <2> QED  BY <1>1, <1>3, <1>4, <2>2, <2>3 DEF StoreInv, TableInv
<1>6. StepInv'
  <2>1. /\ step \in {"clear", "add"} /\ Now.op = "save" => heads[Now.id] = Now.content.head
        /\ step = "clear" /\ Now.op = "remove" => heads[Now.id] = 0
    BY DEF StoreInv, StepInv
  <2>2. \A s \in Ids \ {Now.id} : heads'[s] = disk'.heads[s] /\ bodies'[s] = disk'.bodies[s]
    BY <1>1, <1>3, <1>4 DEF StoreInv, StepInv
  <2>3. step = "delete" => Now.op = "remove"
    BY DEF StoreInv, StepInv
  <2>4. step' \in {"clear", "add", "commit"}
    BY <1>3
  <2> QED  BY <1>1, <1>2, <1>3, <1>4, <2>1, <2>2, <2>3, <2>4 DEF StepInv
<1> QED  BY <1>1, <1>3, <1>5, <1>6, StatementKeeps

\* A job leaves the chain: committed, or failed and undone, or failed with its
\* transaction left open.
LEMMA CommitKeeps ==
    ASSUME StoreInv, Commit
    PROVE  StoreInv'
<1>1. /\ chain # <<>> /\ step = "commit" /\ chain' = Tail(chain) /\ step' = "ready"
      /\ tx' = FALSE /\ disk' = [heads |-> heads, bodies |-> bodies]
      /\ UNCHANGED <<sessions, picked, persistent, clock, heads, bodies>>
  BY DEF Commit, Callback, memory, restore, changes
<1>2. /\ Now.id \in Ids /\ Now.op \in {"save", "remove"}
      /\ Now.content.body \in Nat /\ Now.content.head \in Nat
      /\ Now.op = "save" => 1 \in Saves /\ Now.content.body <= Now.content.head
      /\ Now.op = "save" => Now.content.head <= clock
  BY <1>1, NowTyped
<1>3. /\ \A s \in Ids \ {Now.id} : heads[s] = disk.heads[s] /\ bodies[s] = disk.bodies[s]
      /\ bodies[Now.id] = IF Now.op = "save" THEN Now.content.body ELSE 0
      /\ Now.op = "save" => heads[Now.id] = Now.content.head
  BY <1>1 DEF StoreInv, StepInv
<1>4. disk'.heads = heads /\ disk'.bodies = bodies
  BY <1>1
<1>5. ChainInv' /\ \A i \in Saves' : i + 1 \in Saves /\ chain'[i] = chain[i + 1]
  <2>1. Shifted
    BY <1>1, TailShifts DEF StoreInv, ChainInv
  <2> QED  BY <1>1, <1>3, <1>4, <2>1, ChainShift DEF StoreInv
<1>6. MemoryInv'
  <2>1. \A i \in Saves' : \E j \in Saves : chain'[i] = chain[j]
    BY <1>5
  <2>2. ASSUME NEW s \in Ids
        PROVE  \/ disk'.bodies[s] = disk.bodies[s]
               \/ disk'.bodies[s] = 0
               \/ \E i \in Saves : chain[i].id = s /\ disk'.bodies[s] = chain[i].content.body
    <3>1. CASE s = Now.id /\ Now.op = "save"
      BY <1>2, <1>3, <1>4, <3>1 DEF Now
    <3>2. CASE s # Now.id \/ Now.op = "remove"
      BY <1>2, <1>3, <1>4, <3>2
    <3> QED  BY <1>2, <3>1, <3>2
  <2> QED  BY <1>1, <2>1, <2>2, CallbackMemory DEF StoreInv
<1>7. TableInv'
  <2>1. ASSUME NEW s \in Ids
        PROVE  bodies[s] <= clock /\ bodies[s] <= heads[s]
    <3>1. /\ clock \in Nat /\ heads[s] \in Nat /\ bodies[s] \in Nat
          /\ disk.bodies[s] <= clock /\ disk.bodies[s] <= disk.heads[s]
      BY PersistenceAssumption DEF StoreInv, MemoryInv, TableInv
    <3>2. CASE s = Now.id
      BY <1>2, <1>3, <3>1, <3>2
    <3>3. CASE s # Now.id
      BY <1>3, <3>1, <3>3
    <3> QED  BY <3>2, <3>3
  <2>2. heads \in [Ids -> Nat] /\ bodies \in [Ids -> Nat]
    BY DEF StoreInv, TableInv
  <2>3. disk' \in [heads : [Ids -> Nat], bodies : [Ids -> Nat]] /\ tx' \in BOOLEAN
    BY <1>1, <2>2
  <2> QED  BY <1>1, <1>4, <2>1, <2>2, <2>3 DEF TableInv
<1>8. StepInv'
  BY <1>1, <1>4 DEF StepInv
<1> QED  BY <1>5, <1>6, <1>7, <1>8 DEF StoreInv

LEMMA FailureKeeps ==
    ASSUME StoreInv, StatementFails \/ Rollback \/ RollbackFails
    PROVE  StoreInv'
<1>1. CASE step \in {"delete", "clear", "add", "commit"} /\ StatementFails
  <2>1. /\ step' = "rollback" /\ chain # <<>>
        /\ UNCHANGED <<sessions, picked, persistent, clock, chain, heads, bodies, disk, tx>>
    BY <1>1 DEF StatementFails, Goes, Callback, memory, restore, changes, tables
  <2>2. TableInv' /\ StepInv'
    BY <1>1, <2>1 DEF StoreInv, TableInv, StepInv
  <2> QED  BY <2>1, <2>2, StatementKeeps
<1>2. CASE Fails /\ chain # <<>> /\ UNCHANGED disk
           /\ \/ UNCHANGED <<heads, bodies, tx>>
              \/ heads' = disk.heads /\ bodies' = disk.bodies /\ tx' = FALSE
  <2>1. /\ chain' = Tail(chain) /\ step' = "ready"
        /\ UNCHANGED <<sessions, picked, persistent, clock>>
    BY <1>2 DEF Fails, RunsTheNext, Callback, memory, restore, changes
  <2>2. ChainInv' /\ \A i \in Saves' : i + 1 \in Saves /\ chain'[i] = chain[i + 1]
    <3>1. Shifted
      BY <1>2, <2>1, TailShifts DEF StoreInv, ChainInv
    <3> QED  BY <1>2, <2>1, <3>1, ChainShift DEF StoreInv
  <2>3. MemoryInv'
    <3>1. \A i \in Saves' : \E j \in Saves : chain'[i] = chain[j]
      BY <2>2
    <3> QED  BY <1>2, <2>1, <3>1, CallbackMemory DEF StoreInv
  <2>4. TableInv'
    <3>1. disk.heads \in [Ids -> Nat] /\ disk.bodies \in [Ids -> Nat]
      BY DEF StoreInv, TableInv
    <3> QED  BY <1>2, <2>1, <3>1 DEF StoreInv, TableInv
  <2>5. StepInv'
    BY <1>2, <2>1 DEF StoreInv, StepInv
  <2> QED  BY <2>2, <2>3, <2>4, <2>5 DEF StoreInv
<1> QED  BY <1>1, <1>2 DEF StatementFails, Rollback, RollbackFails, tables

-----------------------------------------------------------------------------
(***************************************************************************)
(* The restore and the restart.                                            *)
(***************************************************************************)
LEMMA RestoreKeeps ==
    ASSUME StoreInv,
           ListSessions \/ (\E s \in Ids : ListMessages(s)) \/ Restored \/ RestoreFails
    PROVE  StoreInv'
<1>1. UNCHANGED <<chain, step, heads, bodies, disk, tx, clock>>
  BY DEF ListSessions, ListMessages, Restored, RestoreFails, Restores, tables, changes
<1>2. ChainInv' /\ Saves' = Saves
  BY <1>1 DEF StoreInv, ChainInv, Saves
<1>3. TableInv' /\ StepInv'
  BY <1>1 DEF StoreInv, TableInv, StepInv, Now
<1>4. /\ \A s \in Ids : heads[s] \in Nat /\ bodies[s] \in Nat
      /\ \A s \in Ids : bodies[s] # Partly => bodies[s] <= clock
      /\ clock \in 0 .. MaxChanges /\ clock \in Nat
      /\ picked \in [Ids -> Snapshots] /\ sessions \in [Ids -> Snapshots]
      /\ \A s \in Ids : picked[s].body <= clock /\ sessions[s].body <= clock
  BY PersistenceAssumption DEF StoreInv, MemoryInv, TableInv
<1>5. /\ picked' \in [Ids -> Snapshots]
      /\ \A s \in Ids : picked'[s].body <= clock
  <2>1. CASE ListSessions
    <3>1. picked' = [s \in Ids |-> [head |-> heads[s], body |-> 0]]
      BY <2>1 DEF ListSessions
    <3> QED  BY <1>4, <3>1 DEF Snapshots
  <2>2. ASSUME NEW s \in Ids, ListMessages(s)
        PROVE  picked' \in [Ids -> Snapshots] /\ \A t \in Ids : picked'[t].body <= clock
    <3> DEFINE read == IF bodies[s] = Partly THEN 0 ELSE bodies[s]
    <3>a. picked' = [picked EXCEPT ![s].body = read]
      BY <2>2 DEF ListMessages
    <3>b. read \in Nat /\ read <= clock
      BY <1>4
    <3> HIDE DEF read
    <3>1. PICK b \in Nat : b <= clock /\ picked' = [picked EXCEPT ![s].body = b]
      BY <3>a, <3>b
    <3>2. \A t \in Ids : picked'[t] \in Snapshots /\ picked'[t].body <= clock
      <4>1. picked'[s] = [head |-> picked[s].head, body |-> b]
        BY <1>4, <3>1 DEF Snapshots
      <4>2. picked[s].head \in Nat
        BY <1>4 DEF Snapshots
      <4>3. picked'[s] \in Snapshots /\ picked'[s].body <= clock
        BY <3>1, <4>1, <4>2 DEF Snapshots
      <4>4. \A t \in Ids : t # s => picked'[t] = picked[t]
        BY <1>4, <3>1
      <4> QED  BY <1>4, <4>3, <4>4
    <3> QED  BY <1>4, <3>1, <3>2
  <2>3. CASE Restored \/ RestoreFails
    <3>1. picked' = [s \in Ids |-> NoSession]
      BY <2>3 DEF Restored, RestoreFails, Forgets
    <3> QED  BY <1>4, <3>1 DEF NoSession, Snapshots
  <2> QED  BY <2>1, <2>2, <2>3
<1>6. MemoryInv'
  <2>1. CASE Restored
    <3>1. sessions' = picked /\ persistent' = {s \in Ids : picked[s] # NoSession}
      BY <2>1 DEF Restored
    <3>2. (Present \ persistent)' = {}
      BY <3>1 DEF Present
    <3>3. persistent' \subseteq Ids
      BY <3>1
    <3> QED  BY <1>1, <1>4, <1>5, <3>1, <3>2, <3>3 DEF MemoryInv
  <2>2. CASE UNCHANGED <<sessions, persistent>>
    <3>1. ASSUME NEW s \in (Present \ persistent)' PROVE NewerThanAll(s)'
      <4>1. s \in Present \ persistent /\ NewerThanAll(s)
        BY <2>2 DEF Present, StoreInv, MemoryInv
      <4> QED  BY <1>1, <1>2, <2>2, <4>1 DEF NewerThanAll
    <3> QED  BY <1>1, <1>4, <1>5, <2>2, <3>1 DEF StoreInv, MemoryInv
  <2> QED  BY <2>1, <2>2 DEF ListSessions, ListMessages, RestoreFails, memory
<1> QED  BY <1>2, <1>3, <1>6 DEF StoreInv

LEMMA RestartKeeps ==
    ASSUME StoreInv, Restart
    PROVE  StoreInv'
<1>1. /\ chain' = <<>> /\ step' = "ready" /\ persistent' = {}
      /\ sessions' = [s \in Ids |-> NoSession] /\ picked' = [s \in Ids |-> NoSession]
      /\ heads' = disk.heads /\ bodies' = disk.bodies /\ tx' = FALSE
      /\ UNCHANGED <<disk, clock>>
  BY DEF Restart, Forgets, changes
<1>2. Saves' = {} /\ chain' \in Seq(Jobs)
  <2>1. Len(chain') = 0 /\ 1 .. 0 = {}
    BY <1>1
  <2> QED  BY <1>1, <2>1 DEF Saves
<1>3. ChainInv'
  BY <1>2 DEF ChainInv
<1>4. MemoryInv'
  <2>1. Present' = {}
    BY <1>1 DEF Present, NoSession
  <2>2. sessions' \in [Ids -> Snapshots] /\ picked' \in [Ids -> Snapshots]
    BY <1>1 DEF Snapshots, NoSession
  <2>3. \A s \in Ids : sessions'[s].body = 0 /\ picked'[s].body = 0
    BY <1>1 DEF NoSession
  <2>4. clock' \in 0 .. MaxChanges
    BY <1>1 DEF StoreInv, MemoryInv
  <2> QED  BY <1>1, <2>1, <2>2, <2>3, <2>4, PersistenceAssumption DEF MemoryInv
<1>5. TableInv'
  <2>1. disk.heads \in [Ids -> Nat] /\ disk.bodies \in [Ids -> Nat]
    BY DEF StoreInv, TableInv
  <2> QED  BY <1>1, <2>1 DEF StoreInv, TableInv
<1>6. StepInv'
  BY <1>1 DEF StepInv
<1> QED  BY <1>3, <1>4, <1>5, <1>6 DEF StoreInv

LEMMA StoreStep == StoreInv /\ [Next]_vars => StoreInv'
<1> SUFFICES ASSUME StoreInv, [Next]_vars PROVE StoreInv'
  OBVIOUS
<1>1. CASE NewSession
  BY <1>1, NewSessionKeeps
<1>2. ASSUME NEW s \in Ids, Replacing(s) \/ EnablePersistence(s) \/ DeleteSession(s)
      PROVE  StoreInv'
  BY <1>2, ReplacingKeeps, EnableKeeps, DeleteSessionKeeps
<1>3. CASE Chain
  BY <1>3, UpdateKeeps, BeginKeeps, InnerKeeps, CommitKeeps, FailureKeeps DEF Chain, Works
<1>4. CASE ListSessions \/ (\E s \in Ids : ListMessages(s)) \/ Restored \/ RestoreFails
  BY <1>4, RestoreKeeps
<1>5. CASE Restart
  BY <1>5, RestartKeeps
<1>6. CASE UNCHANGED vars
  <2>1. /\ UNCHANGED <<sessions, persistent, clock, picked, chain, step>>
        /\ UNCHANGED <<heads, bodies, disk, tx>>
    BY <1>6 DEF vars, memory, changes, restore, tables
  <2>2. TableInv' /\ StepInv'
    BY <2>1 DEF StoreInv, TableInv, StepInv, Now
  <2> QED  BY <2>1, <2>2, StatementKeeps
<1> QED  BY <1>1, <1>2, <1>3, <1>4, <1>5, <1>6 DEF Next, Replacing

LEMMA StoreAlways == Spec => []StoreInv
<1> QED  BY StoreInit, StoreStep, PTL DEF Spec

\* At every moment the database, should the process die then, holds of every
\* session the messages of one snapshot, and a row at least as new.
THEOREM AlwaysStoredWhole == Spec => []StoredWhole
<1>1. StoreInv => StoredWhole
  <2> SUFFICES ASSUME StoreInv, NEW s \in Ids
               PROVE  disk.bodies[s] # Partly /\ disk.bodies[s] <= disk.heads[s]
    BY DEF StoredWhole
  <2>1. /\ disk.bodies[s] \in Nat /\ disk.bodies[s] <= clock
        /\ disk.bodies[s] <= disk.heads[s] /\ clock \in 0 .. MaxChanges
    BY DEF StoreInv, TableInv, MemoryInv
  <2> QED  BY <2>1, PersistenceAssumption DEF Partly
<1> QED  BY <1>1, StoreAlways, PTL
=============================================================================
