------------------------ MODULE SessionHistoryProofs ------------------------
(***************************************************************************)
(* What becomes of the births of sessions: a removed one never comes back, *)
(* and a persistent one is stored as the user sees it.  For every number   *)
(* of sessions, changes and restarts.                                      *)
(***************************************************************************)
EXTENDS SessionPersistenceProofs, WellFoundedInduction

-----------------------------------------------------------------------------
\* Every change that is kept anywhere has been made, and belongs to a birth that
\* is not newer; what is queued is a session, not its absence.
Whole(content) == content.head = 0 => content.body = 0

OriginInv ==
    /\ origin[0] = 0 /\ \A n \in 1 .. clock : origin[n] \in 1 .. n
    /\ removed \subseteq 1 .. clock
    /\ \A s \in Ids : /\ Whole(sessions[s]) /\ sessions[s].head <= clock
                      /\ Whole(picked[s]) /\ picked[s].head <= clock
                      /\ heads[s] <= clock /\ disk.heads[s] <= clock
    /\ \A s \in Ids : asked[s] <= sessions[s].head /\ asked[s] <= sessions[s].body
    /\ \A s \in toRead : picked[s].head # 0
    /\ \A i \in 1 .. Len(chain) : /\ chain[i].content.head \in 1 .. clock
                                  /\ chain[i].content.body <= clock

NumbersInv == TypeOK /\ OriginInv

\* The changes that are kept of what bears an id: in the tables, in memory and on
\* the chain.
Stored(s)   == {heads[s], bodies[s], disk.heads[s], disk.bodies[s]}
InMemory(s) == {sessions[s].head, sessions[s].body, picked[s].head, picked[s].body}
Queued(s)   == {i \in 1 .. Len(chain) : chain[i].id = s}
Waiting(s)  == {chain[i].content.head : i \in Queued(s)} \cup {chain[i].content.body : i \in Queued(s)}
Known(s)    == (Stored(s) \cup InMemory(s) \cup Waiting(s)) \ {0, Partly}

\* An id stands for one birth, a birth has one id, and it is not a removed one.
LineInv ==
    /\ \A s, t \in Ids : \A m \in Known(s), n \in Known(t) : origin[m] = origin[n] <=> s = t
    /\ \A s \in Ids : \A n \in Known(s) : origin[n] \notin removed

\* Nothing happens until the sessions are restored, and from then on nothing is
\* known of the ids that are still to be given.
EraInv ==
    /\ up # "restored" => /\ chain = <<>> /\ ~tx /\ persistent = {}
                          /\ \A s \in Ids : sessions[s] = NoSession
    /\ up # "reading" => \A s \in Ids : picked[s] = NoSession
    /\ up = "reading" => \A s \in Ids : /\ picked[s].head = heads[s]
                                        /\ picked[s].body = IF s \in toRead THEN 0 ELSE bodies[s]
    /\ up = "restored" => \A s \in Ids : s >= nextId => Known(s) = {}

\* The last job of a session removes it, and it is gone, or saves what is seen.
Last(i) == \A j \in 1 .. Len(chain) : chain[j].id = chain[i].id => j <= i

LastInv ==
    /\ \A i \in 1 .. Len(chain) :
           chain[i].op = "remove" => Last(i) /\ sessions[chain[i].id] = NoSession
    /\ persistent \subseteq Present
    /\ \A i \in 1 .. Len(chain) :
           Last(i) /\ chain[i].id \in persistent
               => chain[i].op = "save" /\ Seen(chain[i].id, chain[i].content)

KeptInv == LineInv /\ EraInv /\ LastInv /\ StoredAsSeen

\* All of this while the user has never acted without the stored sessions.
HistoryInv == NumbersInv /\ (~astray => KeptInv)

-----------------------------------------------------------------------------
\* The next id exists and is beyond all that are given.
LEMMA NextIsAfterAll ==
    ASSUME NEW ids \in SUBSET Ids
    PROVE  NextIsAfter(ids) \in 1 .. MaxId + 1 /\ \A s \in ids : s < NextIsAfter(ids)
<1> DEFINE bounds == {n \in 1 .. MaxId + 1 : \A s \in ids : s < n}
<1>1. bounds \subseteq Nat /\ MaxId + 1 \in bounds
  BY PersistenceAssumption DEF Ids
<1>2. PICK n \in bounds : \A m \in bounds : ~ (<<m, n>> \in OpToRel(<, Nat))
  <2>1. bounds # {}
    BY <1>1
  <2> HIDE DEF bounds
  <2> QED  BY <1>1, <2>1, WFMin, NatLessThanWellFounded
<1>3. ASSUME NEW m \in bounds PROVE n <= m
  <2>1. m \in Nat /\ n \in Nat
    BY <1>1
  <2>2. m < n => <<m, n>> \in OpToRel(<, Nat)
    BY <2>1 DEF OpToRel
  <2>3. ~ (m < n)
    BY <1>2, <2>2, Zenon
  <2> QED  BY <2>1, <2>3
<1>4. n = 1 \/ n - 1 \in ids
  <2>1. CASE n # 1
    <3>1. n - 1 \in 1 .. MaxId + 1 /\ n - 1 \notin bounds
      BY <1>1, <1>3, <2>1, PersistenceAssumption
    <3>2. PICK s \in ids : ~ (s < n - 1)
      BY <3>1
    <3> QED  BY <3>1, <3>2, <1>1 DEF Ids
  <2> QED  BY <2>1
<1>5. \E k \in 1 .. MaxId + 1 : (\A s \in ids : s < k) /\ (k = 1 \/ k - 1 \in ids)
  BY <1>4
<1> QED  BY <1>5 DEF NextIsAfter

-----------------------------------------------------------------------------
(***************************************************************************)
(* Types and origins.                                                      *)
(***************************************************************************)
Entries == [op : {"save", "remove"}, id : Ids, content : Contents]

LEMMA NumbersInit == Init => NumbersInv
<1> SUFFICES ASSUME Init PROVE NumbersInv
  OBVIOUS
<1>1. /\ 0 \in Changes /\ 1 \in 1 .. MaxId + 1 /\ NoSession \in Contents
      /\ Empty \in Tables /\ Empty \in [Ids -> Changes] /\ <<>> \in Seq(Entries) /\ Len(chain) = 0 /\ 1 .. 0 = {}
      /\ [n \in Changes |-> 0] \in [Changes -> Changes]
      /\ [s \in Ids |-> NoSession] \in [Ids -> Contents]
      /\ Whole(NoSession) /\ NoSession.head = 0
  BY PersistenceAssumption DEF Init, Changes, NoSession, Contents, Empty, Tables, Entries, Whole
<1>2. TypeOK
  BY <1>1 DEF Init, TypeOK, Entries
<1>3. OriginInv
  <2>1. \A s \in Ids : asked[s] <= sessions[s].head /\ asked[s] <= sessions[s].body
    BY DEF Init, Empty, NoSession
  <2> QED  BY <1>1, <2>1 DEF Init, OriginInv, Empty
<1> QED  BY <1>2, <1>3 DEF NumbersInv

\* A chain that gets longer, or shorter.
LEMMA AppendEntry ==
    ASSUME NEW S, NEW q \in Seq(S), NEW e \in S
    PROVE  /\ Append(q, e) \in Seq(S) /\ Len(q) \in Nat
           /\ Len(Append(q, e)) = Len(q) + 1 /\ Append(q, e)[Len(q) + 1] = e
           /\ \A i \in 1 .. Len(q) : Append(q, e)[i] = q[i]
<1> QED  OBVIOUS

LEMMA TailEntries ==
    ASSUME NEW S, NEW q \in Seq(S), q # <<>>
    PROVE  /\ Tail(q) \in Seq(S) /\ Len(q) \in Nat /\ Len(q) > 0
           /\ Len(Tail(q)) = Len(q) - 1
           /\ \A i \in 1 .. Len(q) - 1 : Tail(q)[i] = q[i + 1]
<1> QED  OBVIOUS

\* The user puts a content in the place of a session, and a job on the chain or not.
Places(s, content, job) ==
    /\ content \in Contents /\ Whole(content) /\ content.head <= clock'
    /\ sessions' = [sessions EXCEPT ![s] = content]
    /\ job \in Entries /\ job.id = s
    /\ job.content.head \in 1 .. clock' /\ job.content.body <= clock'
    /\ chain' = chain \/ chain' = Append(chain, job)
    /\ asked' \in [Ids -> Changes] /\ \A t \in Ids : t # s => asked'[t] = asked[t]
    /\ asked'[s] <= content.head /\ asked'[s] <= content.body

LEMMA UserNumbers ==
    ASSUME NumbersInv, UserActs, NEW s \in Ids, NEW content, NEW job, Places(s, content, job),
           nextId' \in 1 .. MaxId + 1, persistent' \subseteq Ids,
           clock' \in Changes, clock <= clock', origin' \in [Changes -> Changes],
           origin'[0] = 0, \A n \in 1 .. clock' : origin'[n] \in 1 .. n
    PROVE  NumbersInv'
<1>1. /\ UNCHANGED <<up, picked, toRead, step, heads, bodies, disk, tx, removed, unsaved>>
      /\ astray' = (astray \/ up # "restored")
  BY DEF UserActs, GoesAstray, restore, tables, outcome
<1>2. /\ sessions \in [Ids -> Contents] /\ chain \in Seq(Entries) /\ picked \in [Ids -> Contents]
      /\ heads \in Tables /\ disk.heads \in Tables /\ clock \in Changes
      /\ clock \in Nat /\ clock' \in Nat /\ astray \in BOOLEAN
  <2>1. clock \in Changes
    BY DEF NumbersInv, TypeOK
  <2>2. clock \in Nat /\ clock' \in Nat
    BY <2>1, PersistenceAssumption DEF Changes
  <2> QED  BY <2>1, <2>2 DEF NumbersInv, TypeOK, Entries
<1>3. /\ sessions' \in [Ids -> Contents] /\ sessions'[s] = content
      /\ \A t \in Ids : t # s => sessions'[t] = sessions[t]
  BY <1>2 DEF Places
<1>4. chain' \in Seq(Entries)
  <2>1. job \in Entries /\ (chain' = chain \/ chain' = Append(chain, job))
    BY DEF Places
  <2>2. Append(chain, job) \in Seq(Entries)
    BY <1>2, <2>1, AppendEntry
  <2> QED  BY <1>2, <2>1, <2>2
<1>5. TypeOK'
  <2>1. astray' \in BOOLEAN /\ asked' \in [Ids -> Changes]
    BY <1>1, <1>2 DEF Places
  <2> QED  BY <1>1, <1>3, <1>4, <2>1 DEF NumbersInv, TypeOK, Entries
<1>6. \A i \in 1 .. Len(chain') : \/ i \in 1 .. Len(chain) /\ chain'[i] = chain[i]
                                  \/ chain'[i] = job
  <2>1. job \in Entries /\ (chain' = chain \/ chain' = Append(chain, job))
    BY DEF Places
  <2> QED  BY <1>2, <2>1, AppendEntry
<1>7. ASSUME NEW i \in 1 .. Len(chain')
      PROVE  chain'[i].content.head \in 1 .. clock' /\ chain'[i].content.body <= clock'
  <2>1. CASE i \in 1 .. Len(chain) /\ chain'[i] = chain[i]
    <3>1. chain[i] \in Entries
      BY <1>2, <2>1
    <3>2. chain[i].content.body \in Nat
      <4>1. chain[i].content.body \in Changes
        BY <3>1 DEF Entries, Contents
      <4> QED  BY <4>1, PersistenceAssumption DEF Changes
    <3>3. chain[i].content.head \in 1 .. clock /\ chain[i].content.body <= clock
      BY <2>1 DEF NumbersInv, OriginInv
    <3> QED  BY <1>2, <2>1, <3>2, <3>3
  <2>2. CASE chain'[i] = job
    BY <2>2 DEF Places
  <2> QED  BY <1>6, <2>1, <2>2
<1>8. ASSUME NEW t \in Ids
      PROVE  /\ Whole(sessions'[t]) /\ sessions'[t].head <= clock'
             /\ Whole(picked'[t]) /\ picked'[t].head <= clock'
             /\ heads'[t] <= clock' /\ disk'.heads[t] <= clock'
  <2>1. /\ sessions[t].head \in Nat /\ picked[t].head \in Nat
        /\ heads[t] \in Nat /\ disk.heads[t] \in Nat
    <3>1. /\ sessions[t].head \in Changes /\ picked[t].head \in Changes
          /\ heads[t] \in Changes \cup {Partly} /\ disk.heads[t] \in Changes \cup {Partly}
      BY <1>2 DEF Contents, Tables
    <3>2. Changes \subseteq Nat /\ Partly \in Nat
      BY PersistenceAssumption DEF Changes, Partly
    <3> QED  BY <3>1, <3>2
  <2>2. /\ Whole(sessions[t]) /\ sessions[t].head <= clock
        /\ Whole(picked[t]) /\ picked[t].head <= clock
        /\ heads[t] <= clock /\ disk.heads[t] <= clock
    BY DEF NumbersInv, OriginInv
  <2>3. Whole(sessions'[t]) /\ sessions'[t].head <= clock'
    BY <1>2, <1>3, <2>1, <2>2 DEF Places
  <2> QED  BY <1>1, <1>2, <2>1, <2>2, <2>3
<1>9. removed' \subseteq 1 .. clock' /\ \A t \in toRead' : picked'[t].head # 0
  BY <1>1, <1>2 DEF NumbersInv, OriginInv
<1>10. \A t \in Ids : asked'[t] <= sessions'[t].head /\ asked'[t] <= sessions'[t].body
  <2>1. \A t \in Ids : asked[t] <= sessions[t].head /\ asked[t] <= sessions[t].body
    BY DEF NumbersInv, OriginInv
  <2> QED  BY <1>3, <2>1 DEF Places
<1>11. OriginInv'
  BY <1>7, <1>8, <1>9, <1>10 DEF OriginInv
<1> QED  BY <1>5, <1>11 DEF NumbersInv

\* One more change.
LEMMA NumbersChanged ==
    ASSUME NumbersInv, NEW birth \in 1 .. clock + 1, Changed(birth)
    PROVE  /\ clock \in Nat /\ clock' = clock + 1 /\ clock' \in Changes
           /\ origin' \in [Changes -> Changes] /\ origin'[0] = 0
           /\ origin'[clock + 1] = birth
           /\ \A n \in 0 .. clock : origin'[n] = origin[n]
           /\ \A n \in 1 .. clock' : origin'[n] \in 1 .. n
<1>1. /\ clock \in Nat /\ clock < MaxChanges /\ clock' = clock + 1 /\ MaxChanges \in Nat
      /\ origin \in [Changes -> Changes]
      /\ origin' = [origin EXCEPT ![clock + 1] = birth]
  <2>1. clock \in Changes /\ origin \in [Changes -> Changes]
    BY DEF NumbersInv, TypeOK
  <2>2. clock \in Nat /\ MaxChanges \in Nat
    BY <2>1, PersistenceAssumption DEF Changes
  <2>3. clock < MaxChanges /\ clock' = clock + 1 /\ origin' = [origin EXCEPT ![clock + 1] = birth]
    BY DEF Changed
  <2> QED  BY <2>1, <2>2, <2>3
<1>2. clock + 1 \in Changes /\ birth \in Changes /\ 0 .. clock \subseteq Changes
  BY <1>1 DEF Changes
<1>3. /\ origin' \in [Changes -> Changes] /\ origin'[clock + 1] = birth
      /\ \A n \in 0 .. clock : origin'[n] = origin[n]
  BY <1>1, <1>2
<1>4. origin[0] = 0 /\ \A n \in 1 .. clock : origin[n] \in 1 .. n
  BY DEF NumbersInv, OriginInv
<1>5. \A n \in 1 .. clock' : origin'[n] \in 1 .. n
  BY <1>1, <1>3, <1>4
<1> QED  BY <1>1, <1>2, <1>3, <1>4, <1>5

\* What a session is, is a content whose birth has been.
LEMMA PresentNumbers ==
    ASSUME NumbersInv, StoreInv, NEW s \in Present
    PROVE  /\ s \in Ids /\ sessions[s] \in Contents /\ Whole(sessions[s])
           /\ sessions[s].head \in 1 .. clock /\ sessions[s].body <= clock
           /\ sessions[s].head \in Nat /\ sessions[s].body \in Nat
           /\ Birth(sessions[s]) \in 1 .. sessions[s].head
<1>1. s \in Ids /\ sessions[s] \in Contents /\ sessions[s] # NoSession
  BY DEF NumbersInv, TypeOK, Present
<1>2. sessions[s].head \in Nat /\ sessions[s].body \in Nat
      /\ sessions[s] = [head |-> sessions[s].head, body |-> sessions[s].body]
  BY <1>1, PersistenceAssumption DEF Contents, Changes
<1>3. sessions[s].head # 0
  BY <1>1, <1>2 DEF NumbersInv, OriginInv, Whole, NoSession
<1>4. sessions[s].head \in 1 .. clock
  BY <1>1, <1>2, <1>3, PersistenceAssumption DEF NumbersInv, OriginInv, TypeOK, Changes
<1>5. sessions[s].body <= clock
  BY <1>1 DEF StoreInv, MemoryInv
<1> QED  BY <1>1, <1>2, <1>4, <1>5 DEF NumbersInv, OriginInv, Birth

\* No answer was asked for by a change that is still to come.
LEMMA AskedBefore ==
    ASSUME NumbersInv, NEW s \in Ids
    PROVE  asked[s] \in Nat /\ asked[s] \in Changes /\ asked[s] <= clock
<1>1. asked[s] \in Changes /\ sessions[s] \in Contents /\ clock \in Changes
  BY DEF NumbersInv, TypeOK
<1>2. asked[s] \in Nat /\ sessions[s].head \in Nat /\ clock \in Nat
  BY <1>1, PersistenceAssumption DEF Contents, Changes
<1>3. asked[s] <= sessions[s].head /\ sessions[s].head <= clock
  BY DEF NumbersInv, OriginInv
<1> QED  BY <1>1, <1>2, <1>3

\* Each call of the user places a content, and its job is of that session.
LEMMA NewSessionPlaces ==
    ASSUME NumbersInv, NewSession
    PROVE  /\ NumbersInv'
           /\ Places(nextId, [head |-> clock + 1, body |-> clock + 1],
                     Job("save", nextId, [head |-> clock + 1, body |-> clock + 1]))
<1> DEFINE new == [head |-> clock + 1, body |-> clock + 1]
           job == Job("save", nextId, new)
<1>1. /\ nextId \in Ids /\ Changed(clock + 1) /\ nextId' = nextId + 1
      /\ sessions' = [sessions EXCEPT ![nextId] = new]
      /\ UserActs /\ UNCHANGED <<persistent, asked, chain>>
  BY DEF NewSession
<1>2. /\ clock \in Nat /\ clock + 1 \in 1 .. clock + 1
  BY PersistenceAssumption DEF NumbersInv, TypeOK, Changes
<1>3. /\ clock' = clock + 1 /\ clock' \in Changes
      /\ origin' \in [Changes -> Changes] /\ origin'[0] = 0
      /\ \A n \in 1 .. clock' : origin'[n] \in 1 .. n
  BY <1>1, <1>2, NumbersChanged
<1>4. new \in Contents /\ new.head = clock' /\ new.body = clock'
  BY <1>3 DEF Contents
<1>5. job \in Entries /\ job.id = nextId /\ job.content = new
  BY <1>1, <1>4 DEF Job, Entries
<1> HIDE DEF new, job
<1>6. Places(nextId, new, job)
  <2>1. asked \in [Ids -> Changes] /\ asked[nextId] <= clock
    BY <1>1, AskedBefore DEF NumbersInv, TypeOK
  <2>2. asked' \in [Ids -> Changes] /\ asked'[nextId] <= new.head /\ asked'[nextId] <= new.body
    <3>1. asked[nextId] \in Nat /\ asked'[nextId] = asked[nextId]
      BY <1>1, <2>1, PersistenceAssumption DEF Changes
    <3> QED  BY <1>1, <1>2, <1>3, <1>4, <2>1, <3>1
  <2> QED  BY <1>1, <1>2, <1>3, <1>4, <1>5, <2>2 DEF Places, Whole
<1>7. nextId' \in 1 .. MaxId + 1 /\ persistent' \subseteq Ids
  BY <1>1, PersistenceAssumption DEF NumbersInv, TypeOK, Ids
<1>8. NumbersInv'
  BY <1>1, <1>2, <1>3, <1>6, <1>7, UserNumbers
<1> QED  BY <1>6, <1>8 DEF new, job

LEMMA ReplacingPlaces ==
    ASSUME NumbersInv, StoreInv, NEW s \in Ids, Replacing(s)
    PROVE  /\ NumbersInv'
           /\ \E content \in Contents :
                  /\ content.head = clock + 1
                  /\ content.body \in {sessions[s].body, clock + 1}
                  /\ Replaces(s, content.body)
                  /\ Places(s, content, Job("save", s, content))
                  /\ \/ Token(s) /\ content.body = clock + 1 /\ chain' = chain
                     \/ chain' = IF s \in persistent THEN Append(chain, Job("save", s, content))
                                                     ELSE chain
<1>0. PICK body \in {sessions[s].body, clock + 1} :
          /\ Replaces(s, body)
          /\ \/ Token(s) /\ chain' = chain
             \/ chain' = IF s \in persistent
                         THEN Append(chain, Job("save", s, [head |-> clock + 1, body |-> body]))
                         ELSE chain
  BY ReplacingReplaces DEF StoreInv, MemoryInv
<1> DEFINE content == [head |-> clock + 1, body |-> body]
           job     == Job("save", s, content)
<1>1. sessions \in [Ids -> Contents] /\ asked \in [Ids -> Changes]
  BY DEF NumbersInv, TypeOK
<1>2. /\ sessions' = [sessions EXCEPT ![s] = content] /\ sessions'[s] = content
      /\ \/ Token(s) /\ chain' = chain
         \/ chain' = IF s \in persistent THEN Append(chain, job) ELSE chain
  BY <1>0, <1>1 DEF Replaces
<1>3. /\ s \in Present /\ Changed(Birth(sessions[s]))
      /\ UserActs /\ UNCHANGED <<persistent, nextId>>
  BY <1>0 DEF Replaces
<1>4. /\ clock \in Nat /\ Birth(sessions[s]) \in 1 .. clock + 1
      /\ body \in 0 .. clock + 1
  <2>1. clock \in Nat
    BY PersistenceAssumption DEF NumbersInv, TypeOK, Changes
  <2>2. /\ sessions[s].head \in 1 .. clock /\ sessions[s].body \in Nat
        /\ Birth(sessions[s]) \in 1 .. sessions[s].head /\ sessions[s].body <= clock
    BY <1>3, PresentNumbers
  <2>3. Birth(sessions[s]) \in 1 .. clock + 1
    BY <2>1, <2>2
  <2> QED  BY <2>1, <2>2, <2>3
<1>5. /\ clock' = clock + 1 /\ clock' \in Changes
      /\ origin' \in [Changes -> Changes] /\ origin'[0] = 0
      /\ \A n \in 1 .. clock' : origin'[n] \in 1 .. n
  BY <1>3, <1>4, NumbersChanged
<1>6. /\ content \in Contents /\ content.head = clock' /\ content.body = body
      /\ content.body <= clock'
  BY <1>4, <1>5, PersistenceAssumption DEF Contents, Changes
<1>7. job \in Entries /\ job.id = s /\ job.content = content
  BY <1>6 DEF Job, Entries
<1>8. job = Job("save", s, content)
  OBVIOUS
<1> HIDE DEF content, job
<1>9. /\ asked' \in [Ids -> Changes] /\ \A t \in Ids : t # s => asked'[t] = asked[t]
      /\ asked'[s] <= content.head /\ asked'[s] <= content.body
  <2>1. /\ asked[s] \in Nat /\ asked[s] <= clock /\ 0 \in Changes /\ clock + 1 \in Changes
        /\ asked[s] <= sessions[s].body
    <3>1. asked[s] <= sessions[s].body
      BY DEF NumbersInv, OriginInv
    <3> QED  BY <1>5, <3>1, AskedBefore, PersistenceAssumption DEF Changes
  <2>2. CASE Change(s) \/ Token(s)
    <3>1. asked' = asked
      BY <2>2 DEF Change, Token
    <3> QED  BY <1>1, <1>4, <1>5, <1>6, <2>1, <3>1
  <2>3. CASE Generate(s)
    <3>1. asked' = [asked EXCEPT ![s] = clock + 1] /\ sessions'[s].body = clock + 1
      BY <1>1, <2>3 DEF Generate, Replaces
    <3>2. content.body = clock + 1
      BY <1>2, <3>1
    <3> QED  BY <1>1, <1>4, <1>5, <1>6, <2>1, <3>1, <3>2
  <2>4. CASE Ends(s)
    <3>1. asked' = [asked EXCEPT ![s] = 0]
      BY <2>4 DEF Ends
    <3> QED  BY <1>1, <1>4, <1>5, <1>6, <2>1, <3>1
  <2> QED  BY <2>2, <2>3, <2>4 DEF Replacing
<1>10. Places(s, content, job)
  BY <1>2, <1>4, <1>5, <1>6, <1>7, <1>9 DEF Places, Whole
<1>11. NumbersInv'
  <2>1. nextId' \in 1 .. MaxId + 1 /\ persistent' \subseteq Ids
    BY <1>3 DEF NumbersInv, TypeOK
  <2> QED  BY <1>3, <1>4, <1>5, <1>10, <2>1, UserNumbers
<1>12. Token(s) => content.body = clock + 1
  <2>1. Token(s) => sessions'[s].body = clock + 1
    BY <1>1 DEF Token, Replaces
  <2> QED  BY <1>2, <2>1
<1> QED  BY <1>0, <1>2, <1>5, <1>6, <1>8, <1>10, <1>11, <1>12

LEMMA QueuePlaces ==
    ASSUME NumbersInv, StoreInv, NEW s \in Ids, EnablePersistence(s) \/ DeleteSession(s),
           NEW op \in {"save", "remove"}, NEW content \in {sessions[s], NoSession},
           sessions' = [sessions EXCEPT ![s] = content],
           chain' = Append(chain, Job(op, s, sessions[s]))
    PROVE  NumbersInv' /\ Places(s, content, Job(op, s, sessions[s]))
<1>1. /\ s \in Present /\ persistent' \in {persistent \cup {s}, persistent \ {s}}
      /\ UserActs /\ UNCHANGED <<nextId, clock, origin>>
  BY DEF EnablePersistence, DeleteSession, changes
<1>2. /\ clock \in Changes /\ clock \in Nat /\ origin \in [Changes -> Changes]
      /\ nextId \in 1 .. MaxId + 1 /\ persistent \subseteq Ids
      /\ origin[0] = 0 /\ \A n \in 1 .. clock : origin[n] \in 1 .. n
  BY PersistenceAssumption DEF NumbersInv, TypeOK, OriginInv, Changes
<1>3. /\ sessions[s] \in Contents /\ sessions[s].head \in 1 .. clock
      /\ sessions[s].body <= clock /\ Whole(sessions[s])
  BY <1>1, PresentNumbers
<1>4. content \in Contents /\ Whole(content) /\ content.head <= clock
  <2>1. NoSession \in Contents /\ Whole(NoSession) /\ NoSession.head = 0
    BY PersistenceAssumption DEF NoSession, Contents, Changes, Whole
  <2> QED  BY <1>2, <1>3, <2>1
<1> DEFINE job == Job(op, s, sessions[s])
<1>5. job \in Entries /\ job.id = s /\ job.content = sessions[s]
  BY <1>3 DEF Job, Entries
<1>6. chain' = Append(chain, job)
  OBVIOUS
<1> HIDE DEF job
<1>7. Places(s, content, job)
  <2>1. /\ asked \in [Ids -> Changes] /\ 0 \in Changes
        /\ asked[s] <= sessions[s].head /\ asked[s] <= sessions[s].body
    BY PersistenceAssumption DEF NumbersInv, TypeOK, OriginInv, Changes
  <2>2. /\ asked' \in [Ids -> Changes] /\ \A t \in Ids : t # s => asked'[t] = asked[t]
        /\ asked'[s] <= content.head /\ asked'[s] <= content.body
    <3>1. CASE EnablePersistence(s)
      <4>1. asked' = asked /\ content = sessions[s]
        BY <3>1 DEF EnablePersistence, NumbersInv, TypeOK
      <4> QED  BY <2>1, <4>1
    <3>2. CASE DeleteSession(s)
      <4>1. asked' = [asked EXCEPT ![s] = 0] /\ content = NoSession
        BY <3>2 DEF DeleteSession, NumbersInv, TypeOK
      <4> QED  BY <2>1, <4>1 DEF NoSession
    <3> QED  BY <3>1, <3>2
  <2> QED  BY <1>1, <1>2, <1>3, <1>4, <1>5, <1>6, <2>2 DEF Places
<1>8. NumbersInv'
  <2>1. persistent' \subseteq Ids
    BY <1>1, <1>2
  <2> QED  BY <1>1, <1>2, <1>7, <2>1, UserNumbers
<1> QED  BY <1>7, <1>8 DEF job

\* The callbacks write what is known already.
LEMMA CallbackNumbers ==
    ASSUME NumbersInv, Callback, chain # <<>>,
           heads' \in Tables, bodies' \in Tables, \A s \in Ids : heads'[s] <= clock,
           disk' \in {disk, [heads |-> heads', bodies |-> bodies']}, tx' \in BOOLEAN,
           step' \in {"ready", "insert", "begin", "delete", "clear", "add", "commit", "rollback"},
           chain' = chain \/ chain' = Tail(chain),
           removed' \subseteq 1 .. clock, unsaved' \subseteq Changes
    PROVE  NumbersInv'
<1>1. UNCHANGED <<sessions, persistent, nextId, asked, clock, origin, up, picked, toRead, astray>>
  BY DEF Callback, memory, changes, restore
<1>2. chain \in Seq(Entries) /\ Len(chain) \in Nat
  BY DEF NumbersInv, TypeOK, Entries
<1>3. chain' \in Seq(Entries)
  BY <1>2, TailEntries
<1>4. \A i \in 1 .. Len(chain') : \E j \in 1 .. Len(chain) : chain'[i] = chain[j]
  <2>1. CASE chain' = Tail(chain)
    <3>1. /\ Len(chain') = Len(chain) - 1
          /\ \A i \in 1 .. Len(chain) - 1 : chain'[i] = chain[i + 1]
      BY <1>2, <2>1, TailEntries
    <3>2. \A i \in 1 .. Len(chain) - 1 : i + 1 \in 1 .. Len(chain)
      BY <1>2
    <3> QED  BY <3>1, <3>2
  <2> QED  BY <2>1
<1>5. /\ removed' \subseteq Changes /\ disk' \in [heads : Tables, bodies : Tables]
  <2>1. clock \in Nat /\ clock <= MaxChanges /\ disk \in [heads : Tables, bodies : Tables]
    BY PersistenceAssumption DEF NumbersInv, TypeOK, Changes
  <2> QED  BY <2>1, PersistenceAssumption DEF Changes
<1>6. TypeOK'
  BY <1>1, <1>3, <1>5 DEF NumbersInv, TypeOK, Entries
<1>7. \A s \in Ids : disk'.heads[s] <= clock
  BY DEF NumbersInv, OriginInv
<1>8. \A i \in 1 .. Len(chain') : /\ chain'[i].content.head \in 1 .. clock
                                  /\ chain'[i].content.body <= clock
  BY <1>4 DEF NumbersInv, OriginInv
<1>9. OriginInv'
  BY <1>1, <1>7, <1>8 DEF NumbersInv, OriginInv
<1> QED  BY <1>6, <1>9 DEF NumbersInv

\* The job that runs is an entry of the chain.
LEMMA NowNumbers ==
    ASSUME NumbersInv, chain # <<>>
    PROVE  /\ 1 \in 1 .. Len(chain) /\ Now.id \in Ids /\ Now.op \in {"save", "remove"}
           /\ Now.content \in Contents /\ Now.content.head \in 1 .. clock
           /\ Now.content.head \in Changes /\ Now.content.body \in Changes
           /\ Now.content.body <= clock
           /\ Birth(Now.content) \in 1 .. clock /\ Birth(Now.content) \in Changes
<1>1. chain \in Seq(Entries) /\ Len(chain) \in Nat /\ Len(chain) > 0
  BY DEF NumbersInv, TypeOK, Entries
<1>2. 1 \in 1 .. Len(chain) /\ Now \in Entries
  BY <1>1 DEF Now
<1>3. Now.content.head \in 1 .. clock /\ Now.content.body <= clock
  BY <1>2 DEF NumbersInv, OriginInv, Now
<1>4. clock \in Nat /\ clock <= MaxChanges /\ \A n \in 1 .. clock : origin[n] \in 1 .. n
  <2>1. clock \in Changes
    BY DEF NumbersInv, TypeOK
  <2>2. \A n \in 1 .. clock : origin[n] \in 1 .. n
    BY DEF NumbersInv, OriginInv
  <2> QED  BY <2>1, <2>2, PersistenceAssumption DEF Changes
<1>5. Birth(Now.content) \in 1 .. clock
  BY <1>3, <1>4 DEF Birth
<1> QED  BY <1>2, <1>3, <1>4, <1>5, PersistenceAssumption DEF Entries, Contents, Changes

LEMMA ChainNumbers == ASSUME NumbersInv, StoreInv, Chain PROVE NumbersInv'
<1>1. chain # <<>> /\ Callback
  BY DEF Chain, Works, Update, Insert, Begin, Delete, ClearMessages, AddMessages, Commit,
         Rollback, StatementFails, RollbackFails, Runs, Goes, Fails
<1>2. /\ heads \in Tables /\ bodies \in Tables /\ disk.heads \in Tables /\ disk.bodies \in Tables
      /\ \A s \in Ids : heads[s] <= clock /\ disk.heads[s] <= clock
      /\ tx \in BOOLEAN /\ removed \subseteq 1 .. clock /\ unsaved \subseteq Changes
  BY DEF NumbersInv, TypeOK, OriginInv
<1>3. /\ Now.id \in Ids /\ Now.content.head \in 1 .. clock /\ Now.content.head \in Changes
      /\ Now.content.body \in Changes
      /\ Birth(Now.content) \in 1 .. clock /\ Birth(Now.content) \in Changes
      /\ 0 \in Changes /\ clock \in Nat
  <2>1. clock \in Nat /\ 0 \in Changes
    BY PersistenceAssumption DEF NumbersInv, TypeOK, Changes
  <2> QED  BY <1>1, <2>1, NowNumbers
<1>4. ASSUME NEW n \in Changes \cup {Partly}
      PROVE  /\ [bodies EXCEPT ![Now.id] = n] \in Tables
             /\ [heads EXCEPT ![Now.id] = n] \in Tables
  BY <1>2, <1>3 DEF Tables
<1>5. ASSUME NEW n \in 0 .. clock
      PROVE  \A s \in Ids : [heads EXCEPT ![Now.id] = n][s] <= clock
  BY <1>2, <1>3 DEF Tables
<1>6. CASE Update \/ Insert \/ Begin \/ Delete \/ ClearMessages \/ AddMessages
  <2>1. /\ UNCHANGED <<chain, removed, unsaved>>
        /\ step' \in {"insert", "begin", "delete", "clear", "add", "commit"}
    BY <1>6 DEF Update, Insert, Begin, Delete, ClearMessages, AddMessages, Goes, outcome
  <2>2. /\ heads' \in {heads, [heads EXCEPT ![Now.id] = Now.content.head],
                              [heads EXCEPT ![Now.id] = 0]}
        /\ bodies' \in {bodies, [bodies EXCEPT ![Now.id] = Partly],
                        [bodies EXCEPT ![Now.id] = 0], [bodies EXCEPT ![Now.id] = Now.content.body]}
        /\ disk' \in {disk, [heads |-> heads', bodies |-> bodies']}
        /\ tx' \in {tx, TRUE}
    BY <1>6 DEF Update, Insert, Begin, AsOne, Delete, ClearMessages, AddMessages, Writes, tables
  <2>3. heads' \in Tables /\ \A s \in Ids : heads'[s] <= clock
    <3>1. CASE heads' = heads
      BY <1>2, <3>1
    <3>2. ASSUME NEW n \in Changes, n \in 0 .. clock, heads' = [heads EXCEPT ![Now.id] = n]
          PROVE  heads' \in Tables /\ \A s \in Ids : heads'[s] <= clock
      BY <1>4, <1>5, <3>2
    <3>3. Now.content.head \in 0 .. clock /\ 0 \in 0 .. clock
      BY <1>3
    <3> QED  BY <1>3, <2>2, <3>1, <3>2, <3>3
  <2>4. bodies' \in Tables /\ tx' \in BOOLEAN
    <3>1. ASSUME NEW n \in Changes \cup {Partly}, bodies' = [bodies EXCEPT ![Now.id] = n]
          PROVE  bodies' \in Tables
      BY <1>4, <3>1
    <3> QED  BY <1>2, <1>3, <2>2, <3>1
  <2> QED  BY <1>1, <1>2, <2>1, <2>2, <2>3, <2>4, CallbackNumbers
<1>7. CASE Commit
  BY <1>1, <1>2, <1>3, <1>7, CallbackNumbers DEF Commit
<1>8. CASE StatementFails \/ Rollback \/ RollbackFails
  <2>1. /\ chain' = chain \/ chain' = Tail(chain)
        /\ removed' = removed /\ unsaved' \in {unsaved, unsaved \cup {Birth(Now.content)}}
        /\ step' \in {"ready", "rollback"} /\ disk' = disk /\ tx' \in {tx, FALSE}
        /\ heads' \in {heads, disk.heads} /\ bodies' \in {bodies, disk.bodies}
    BY <1>8 DEF StatementFails, Rollback, RollbackFails, Fails, Goes, RunsTheNext, outcome, tables
  <2> QED  BY <1>1, <1>2, <1>3, <2>1, CallbackNumbers
<1> QED  BY <1>6, <1>7, <1>8 DEF Chain, Works

\* The restore reads what is in the tables.
LEMMA RestoreNumbers ==
    ASSUME NumbersInv, StoreInv,
           ListSessions \/ (\E s \in Ids : ListMessages(s)) \/ Restored \/ RestoreFails
    PROVE  NumbersInv'
<1>1. UNCHANGED <<chain, step, heads, bodies, disk, tx, clock, origin, removed, unsaved, astray>>
  BY DEF ListSessions, ListMessages, Restored, RestoreFails, Restores, tables, changes, outcome
<1>2. /\ sessions \in [Ids -> Contents] /\ picked \in [Ids -> Contents]
      /\ heads \in Tables /\ bodies \in Tables /\ clock \in Changes /\ 0 \in Changes
      /\ toRead \subseteq Ids /\ persistent \subseteq Ids /\ nextId \in 1 .. MaxId + 1
      /\ asked \in [Ids -> Changes]
  <2>1. 0 \in Changes
    BY PersistenceAssumption DEF Changes
  <2> QED  BY <2>1 DEF NumbersInv, TypeOK
<1>3. \A s \in Ids : /\ Whole(picked[s]) /\ picked[s].head <= clock /\ heads[s] <= clock
                     /\ heads[s] \in Changes /\ heads[s] \in Nat
  <2>1. \A s \in Ids : Whole(picked[s]) /\ picked[s].head <= clock /\ heads[s] <= clock
    BY DEF NumbersInv, OriginInv
  <2>2. \A s \in Ids : heads[s] \in Changes \cup {Partly}
    BY <1>2 DEF Tables
  <2>3. clock < Partly /\ clock \in Nat /\ Partly \in Nat
    BY <1>2, PersistenceAssumption DEF Changes, Partly
  <2>4. \A s \in Ids : heads[s] # Partly
    BY <2>1, <2>3
  <2> QED  BY <2>1, <2>2, <2>4 DEF Changes
<1>4. /\ picked' \in [Ids -> Contents] /\ toRead' \subseteq Ids
      /\ \A s \in Ids : Whole(picked'[s]) /\ picked'[s].head <= clock
      /\ \A s \in toRead' : picked'[s].head # 0
  <2>1. CASE ListSessions
    <3>1. /\ picked' = [s \in Ids |-> [head |-> heads[s], body |-> 0]]
          /\ toRead' = {s \in Ids : heads[s] # 0}
      BY <2>1 DEF ListSessions
    <3> QED  BY <1>2, <1>3, <3>1 DEF Contents, Whole
  <2>2. ASSUME NEW s \in Ids, ListMessages(s)
        PROVE  /\ picked' \in [Ids -> Contents] /\ toRead' \subseteq Ids
               /\ \A t \in Ids : Whole(picked'[t]) /\ picked'[t].head <= clock
               /\ \A t \in toRead' : picked'[t].head # 0
    <3> DEFINE read == IF bodies[s] = Partly THEN 0 ELSE bodies[s]
    <3>1. picked' = [picked EXCEPT ![s].body = read] /\ toRead' = toRead \ {s} /\ s \in toRead
      BY <2>2 DEF ListMessages
    <3>2. read \in Changes
      BY <1>2 DEF Tables
    <3> HIDE DEF read
    <3>3. picked[s].head # 0 /\ \A t \in toRead : picked[t].head # 0
      BY <3>1 DEF NumbersInv, OriginInv
    <3>4. /\ picked'[s] = [picked[s] EXCEPT !.body = read]
          /\ \A t \in Ids : t # s => picked'[t] = picked[t]
      BY <1>2, <3>1
    <3>5. picked'[s] = [head |-> picked[s].head, body |-> read] /\ picked[s].head \in Changes
      BY <1>2, <3>4 DEF Contents
    <3>6. picked'[s] \in Contents /\ Whole(picked'[s]) /\ picked'[s].head = picked[s].head
      BY <3>2, <3>3, <3>5 DEF Contents, Whole
    <3>7. \A t \in Ids : picked'[t] \in Contents
      BY <1>2, <3>4, <3>6
    <3>8. picked' \in [Ids -> Contents]
      BY <1>2, <3>1, <3>7
    <3> QED  BY <1>2, <1>3, <3>1, <3>3, <3>4, <3>6, <3>8
  <2>3. CASE Restored \/ RestoreFails
    <3>1. picked' = [s \in Ids |-> NoSession] /\ toRead' = {}
      BY <2>3 DEF Restored, RestoreFails, Forgets
    <3> QED  BY <1>2, <3>1, PersistenceAssumption DEF NoSession, Contents, Whole, Changes
  <2> QED  BY <2>1, <2>2, <2>3
<1>5. /\ sessions' \in [Ids -> Contents] /\ persistent' \subseteq Ids /\ nextId' \in 1 .. MaxId + 1
      /\ \A s \in Ids : Whole(sessions'[s]) /\ sessions'[s].head <= clock
      /\ up' \in {"starting", "reading", "restored", "blind"}
      /\ asked' \in [Ids -> Changes]
      /\ \A s \in Ids : asked'[s] <= sessions'[s].head /\ asked'[s] <= sessions'[s].body
  <2>1. CASE Restored
    <3>1. /\ sessions' = picked /\ asked' = Empty /\ persistent' = {s \in Ids : picked[s] # NoSession}
          /\ nextId' = NextIsAfter(persistent') /\ up' = "restored"
      BY <2>1 DEF Restored
    <3>2. persistent' \subseteq Ids
      BY <3>1
    <3>3. nextId' \in 1 .. MaxId + 1
      BY <3>1, <3>2, NextIsAfterAll
    <3>4. /\ asked' \in [Ids -> Changes]
          /\ \A s \in Ids : asked'[s] <= sessions'[s].head /\ asked'[s] <= sessions'[s].body
      <4>1. \A s \in Ids : picked[s].head \in Nat /\ picked[s].body \in Nat
        BY <1>2, PersistenceAssumption DEF Contents, Changes
      <4> QED  BY <1>2, <3>1, <4>1 DEF Empty
    <3> QED  BY <1>2, <1>3, <3>1, <3>2, <3>3, <3>4
  <2>2. CASE ~ Restored
    <3>1. UNCHANGED <<sessions, persistent, nextId, asked>>
          /\ up' \in {"starting", "reading", "restored", "blind"}
      BY <2>2 DEF ListSessions, ListMessages, RestoreFails, memory, NumbersInv, TypeOK
    <3> QED  BY <1>2, <3>1 DEF NumbersInv, OriginInv
  <2> QED  BY <2>1, <2>2
<1>6. TypeOK'
  BY <1>1, <1>4, <1>5 DEF NumbersInv, TypeOK
<1>7. OriginInv'
  BY <1>1, <1>4, <1>5 DEF NumbersInv, OriginInv
<1> QED  BY <1>6, <1>7 DEF NumbersInv

LEMMA RestartNumbers == ASSUME NumbersInv, Restart PROVE NumbersInv'
<1>1. /\ up' = "starting" /\ toRead' = {} /\ persistent' = {} /\ nextId' = 1
      /\ picked' = [s \in Ids |-> NoSession] /\ sessions' = [s \in Ids |-> NoSession]
      /\ chain' = <<>> /\ step' = "ready" /\ heads' = disk.heads /\ bodies' = disk.bodies
      /\ tx' = FALSE /\ unsaved' = {} /\ asked' = Empty
      /\ UNCHANGED <<clock, origin, disk, removed, astray>>
  BY DEF Restart, Forgets, changes
<1>2. /\ 1 \in 1 .. MaxId + 1 /\ NoSession \in Contents /\ <<>> \in Seq(Entries)
      /\ disk.heads \in Tables /\ disk.bodies \in Tables /\ clock \in Nat
      /\ Whole(NoSession) /\ NoSession.head = 0 /\ NoSession.body = 0
      /\ Empty \in [Ids -> Changes] /\ \A s \in Ids : Empty[s] = 0
  BY PersistenceAssumption
     DEF NumbersInv, TypeOK, Changes, NoSession, Contents, Entries, Whole, Empty
<1>3. TypeOK'
  BY <1>1, <1>2 DEF NumbersInv, TypeOK, Entries
<1>4. 1 .. Len(chain') = {}
  <2>1. Len(chain') = 0 /\ 1 .. 0 = {}
    BY <1>1
  <2> QED  BY <2>1
<1>5. \A s \in Ids : /\ Whole(sessions'[s]) /\ sessions'[s].head <= clock
                     /\ Whole(picked'[s]) /\ picked'[s].head <= clock
                     /\ heads'[s] <= clock /\ disk'.heads[s] <= clock
  BY <1>1, <1>2 DEF NumbersInv, OriginInv
<1>6. \A s \in Ids : asked'[s] <= sessions'[s].head /\ asked'[s] <= sessions'[s].body
  BY <1>1, <1>2
<1>7. OriginInv'
  BY <1>1, <1>4, <1>5, <1>6 DEF NumbersInv, OriginInv
<1> QED  BY <1>3, <1>7 DEF NumbersInv

LEMMA NumbersStep == NumbersInv /\ StoreInv /\ [Next]_vars => NumbersInv'
<1> SUFFICES ASSUME NumbersInv, StoreInv, [Next]_vars PROVE NumbersInv'
  OBVIOUS
<1>1. CASE NewSession
  BY <1>1, NewSessionPlaces
<1>2. ASSUME NEW s \in Ids, Replacing(s) \/ EnablePersistence(s) \/ DeleteSession(s)
      PROVE  NumbersInv'
  <2>1. sessions = [sessions EXCEPT ![s] = sessions[s]]
    BY DEF NumbersInv, TypeOK
  <2>2. CASE EnablePersistence(s)
    <3>1. UNCHANGED sessions /\ chain' = Append(chain, Job("save", s, sessions[s]))
      BY <2>2 DEF EnablePersistence, SaveAgain
    <3>2. sessions' = [sessions EXCEPT ![s] = sessions[s]]
      BY <2>1, <3>1
    <3> QED  BY <2>2, <3>1, <3>2, QueuePlaces
  <2>3. CASE DeleteSession(s)
    <3>1. /\ sessions' = [sessions EXCEPT ![s] = NoSession]
          /\ chain' = Append(chain, Job("remove", s, sessions[s]))
      BY <2>3 DEF DeleteSession, RemoveInTurn
    <3> QED  BY <2>3, <3>1, QueuePlaces
  <2> QED  BY <1>2, <2>2, <2>3, ReplacingPlaces
<1>3. CASE Chain
  BY <1>3, ChainNumbers
<1>4. CASE ListSessions \/ (\E s \in Ids : ListMessages(s)) \/ Restored \/ RestoreFails
  BY <1>4, RestoreNumbers
<1>5. CASE Restart
  BY <1>5, RestartNumbers
<1>6. CASE UNCHANGED vars
  BY <1>6 DEF vars, memory, changes, restore, tables, outcome, NumbersInv, TypeOK, OriginInv
<1> QED  BY <1>1, <1>2, <1>3, <1>4, <1>5, <1>6 DEF Next, Replacing

\* Every variable holds a value of its type, and above all the id that is given
\* next always exists.
THEOREM PersistenceTyped == Spec => []TypeOK
<1>1. NumbersInv => TypeOK
  BY DEF NumbersInv
<1> QED  BY <1>1, StoreAlways, NumbersInit, NumbersStep, PTL DEF Spec

-----------------------------------------------------------------------------
(***************************************************************************)
(* What is known of an id.                                                 *)
(***************************************************************************)
LEMMA KnownMade ==
    ASSUME NumbersInv, StoreInv, NEW s \in Ids
    PROVE  Known(s) \subseteq 1 .. clock
<1>1. clock \in Nat /\ Partly \in Nat
  BY PersistenceAssumption DEF NumbersInv, TypeOK, Changes, Partly
<1>2. ASSUME NEW n \in Stored(s), n # Partly PROVE n \in 0 .. clock
  <2>1. /\ heads[s] \in Nat /\ bodies[s] \in Nat /\ disk.heads[s] \in Nat /\ disk.bodies[s] \in Nat
        /\ bodies[s] = Partly \/ bodies[s] <= clock
        /\ disk.bodies[s] <= clock
    BY DEF StoreInv, TableInv
  <2>2. heads[s] <= clock /\ disk.heads[s] <= clock
    BY DEF NumbersInv, OriginInv
  <2> QED  BY <1>1, <1>2, <2>1, <2>2 DEF Stored
<1>3. ASSUME NEW n \in InMemory(s) PROVE n \in 0 .. clock
  <2>1. /\ sessions[s] \in Snapshots /\ picked[s] \in Snapshots
        /\ sessions[s].body <= clock /\ picked[s].body <= clock
    BY DEF StoreInv, MemoryInv
  <2>2. sessions[s].head <= clock /\ picked[s].head <= clock
    BY DEF NumbersInv, OriginInv
  <2> QED  BY <1>1, <1>3, <2>1, <2>2 DEF InMemory, Snapshots
<1>4. ASSUME NEW n \in Waiting(s) PROVE n \in 0 .. clock
  <2>1. PICK i \in Queued(s) : n = chain[i].content.head \/ n = chain[i].content.body
    BY <1>4 DEF Waiting
  <2>2. i \in 1 .. Len(chain) /\ chain[i] \in Entries
    <3>1. i \in 1 .. Len(chain)
      BY <2>1 DEF Queued
    <3>2. chain \in Seq(Entries)
      BY DEF NumbersInv, TypeOK, Entries
    <3> QED  BY <3>1, <3>2
  <2>3. chain[i].content.head \in 1 .. clock /\ chain[i].content.body <= clock
    BY <2>2 DEF NumbersInv, OriginInv
  <2>4. chain[i].content.body \in Nat
    BY <2>2, PersistenceAssumption DEF Entries, Contents, Changes
  <2> QED  BY <1>1, <2>1, <2>3, <2>4
<1> QED  BY <1>1, <1>2, <1>3, <1>4 DEF Known

LEMMA LineShrinks ==
    ASSUME LineInv, UNCHANGED <<origin, removed>>,
           \A s \in Ids : Known(s)' \subseteq Known(s)
    PROVE  LineInv'
<1> QED  BY DEF LineInv

\* The next change is of the birth that its id stands for.
LEMMA LineGrows ==
    ASSUME NumbersInv, StoreInv, LineInv, UNCHANGED removed,
           NEW s \in Ids, NEW birth \in 1 .. clock + 1, Changed(birth), birth \notin removed,
           \A t \in Ids : \A m \in Known(t) : origin[m] = birth <=> t = s,
           \A t \in Ids : Known(t)' \subseteq Known(t) \cup (IF t = s THEN {clock + 1} ELSE {})
    PROVE  LineInv'
<1>1. /\ clock \in Nat /\ origin'[clock + 1] = birth
      /\ \A n \in 0 .. clock : origin'[n] = origin[n]
  BY NumbersChanged
<1>2. \A t \in Ids : \A n \in Known(t) : n \in 0 .. clock /\ origin'[n] = origin[n]
  <2>1. \A t \in Ids : Known(t) \subseteq 1 .. clock
    BY KnownMade
  <2>2. 1 .. clock \subseteq 0 .. clock
    BY <1>1
  <2> QED  BY <1>1, <2>1, <2>2
<1>3. ASSUME NEW t \in Ids, NEW n \in Known(t)'
      PROVE  n \in Known(t) \/ (n = clock + 1 /\ t = s)
  OBVIOUS
<1>4. ASSUME NEW t \in Ids, NEW n \in Known(t)'
      PROVE  /\ origin'[n] \notin removed
             /\ origin'[n] = birth <=> t = s
  BY <1>1, <1>2, <1>3, <1>4 DEF LineInv
<1>5. ASSUME NEW t \in Ids, NEW u \in Ids, NEW m \in Known(t)', NEW n \in Known(u)'
      PROVE  origin'[m] = origin'[n] <=> t = u
  <2>1. CASE m \in Known(t) /\ n \in Known(u)
    BY <1>2, <2>1 DEF LineInv
  <2>2. CASE (m = clock + 1 /\ t = s) \/ (n = clock + 1 /\ u = s)
    BY <1>1, <1>4, <2>2
  <2> QED  BY <1>3, <2>1, <2>2
<1> QED  BY <1>4, <1>5 DEF LineInv

\* What is queued gets longer, or shorter, or stays.
LEMMA WaitingGrows ==
    ASSUME NumbersInv, NEW job \in Entries, chain' = Append(chain, job)
    PROVE  /\ \A t \in Ids : t # job.id => Waiting(t)' \subseteq Waiting(t)
           /\ Waiting(job.id)' \subseteq Waiting(job.id) \cup {job.content.head, job.content.body}
<1>1. /\ Len(chain) \in Nat /\ Len(chain') = Len(chain) + 1
      /\ chain'[Len(chain) + 1] = job
      /\ \A i \in 1 .. Len(chain) : chain'[i] = chain[i]
  BY AppendEntry DEF NumbersInv, TypeOK, Entries
<1>2. \A i \in 1 .. Len(chain') : \/ i \in 1 .. Len(chain) /\ chain'[i] = chain[i]
                                  \/ chain'[i] = job
  BY <1>1
<1> QED  BY <1>2 DEF Waiting, Queued

LEMMA WaitingShrinks ==
    ASSUME NumbersInv, chain # <<>>, chain' = Tail(chain)
    PROVE  /\ Len(chain) \in Nat /\ Len(chain) > 0 /\ Len(chain') = Len(chain) - 1
           /\ \A i \in 1 .. Len(chain') : i + 1 \in 1 .. Len(chain) /\ chain'[i] = chain[i + 1]
           /\ \A t \in Ids : Waiting(t)' \subseteq Waiting(t)
<1>1. /\ Len(chain) \in Nat /\ Len(chain) > 0 /\ Len(chain') = Len(chain) - 1
      /\ \A i \in 1 .. Len(chain) - 1 : chain'[i] = chain[i + 1]
  BY TailEntries DEF NumbersInv, TypeOK, Entries
<1>2. \A i \in 1 .. Len(chain') : i + 1 \in 1 .. Len(chain) /\ chain'[i] = chain[i + 1]
  BY <1>1
<1> QED  BY <1>1, <1>2 DEF Waiting, Queued

\* The callbacks keep nothing that was not kept.
LEMMA KnownInCallback ==
    ASSUME NumbersInv, NEW s \in Ids, UNCHANGED <<sessions, picked>>,
           Waiting(s)' \subseteq Waiting(s),
           Stored(s)' \subseteq Stored(s) \cup Waiting(s) \cup {0, Partly}
    PROVE  Known(s)' \subseteq Known(s)
<1>1. InMemory(s)' = InMemory(s) /\ Partly' = Partly
  BY DEF InMemory, Partly
<1> QED  BY <1>1 DEF Known

-----------------------------------------------------------------------------
(***************************************************************************)
(* The callbacks of the chain.                                             *)
(***************************************************************************)
LEMMA EraInCallback ==
    ASSUME EraInv, Callback, chain # <<>>, \A s \in Ids : Known(s)' \subseteq Known(s)
    PROVE  EraInv' /\ up = "restored"
<1>1. up = "restored"
  BY DEF EraInv
<1>2. UNCHANGED <<sessions, persistent, nextId, up, picked, toRead>>
  BY DEF Callback, memory, restore
<1> QED  BY <1>1, <1>2 DEF EraInv

\* A statement changes what is stored of its own session only.
LEMMA StatementHistory ==
    ASSUME NumbersInv, KeptInv, ~astray, Callback, chain # <<>>,
           UNCHANGED <<chain, removed, unsaved>>,
           \A s \in Ids : Stored(s)' \subseteq Stored(s) \cup Waiting(s) \cup {0, Partly},
           \A s \in Ids \ {Now.id} : /\ disk'.heads[s] = disk.heads[s]
                                     /\ disk'.bodies[s] = disk.bodies[s]
    PROVE  KeptInv'
<1>1. UNCHANGED <<sessions, persistent, asked, picked, origin, astray>>
  BY DEF Callback, memory, changes, restore
<1>2. \A s \in Ids : Known(s)' \subseteq Known(s)
  <2>1. \A s \in Ids : Waiting(s)' = Waiting(s)
    BY DEF Waiting, Queued
  <2> QED  BY <1>1, <2>1, KnownInCallback
<1>3. LineInv' /\ EraInv'
  BY <1>1, <1>2, LineShrinks, EraInCallback DEF KeptInv
<1>4. LastInv'
  BY <1>1 DEF KeptInv, LastInv, Last, Present, Seen
<1>5. StoredAsSeen'
  <2> SUFFICES ASSUME NEW s \in persistent
               PROVE  \/ \E i \in 1 .. Len(chain) : chain[i].id = s
                      \/ Birth(sessions[s]) \in unsaved
                      \/ Seen(s, OnDisk(s)')
    BY <1>1 DEF StoredAsSeen, Birth, Seen
  <2>1. CASE s = Now.id
    BY <2>1, NowNumbers DEF Now
  <2>2. CASE s # Now.id
    <3>1. s \in Ids
      BY DEF NumbersInv, TypeOK
    <3>2. OnDisk(s)' = OnDisk(s)
      BY <2>2, <3>1 DEF OnDisk
    <3> QED  BY <3>2 DEF KeptInv, StoredAsSeen
  <2> QED  BY <2>1, <2>2
<1> QED  BY <1>3, <1>4, <1>5 DEF KeptInv

\* What the job that runs brings is waiting.
LEMMA NowWaits ==
    ASSUME NumbersInv, chain # <<>>
    PROVE  /\ Now.content.head \in Waiting(Now.id) /\ Now.content.body \in Waiting(Now.id)
           /\ Now.content.head \in Known(Now.id)
<1>1. 1 \in Queued(Now.id) /\ Now.content.head \in 1 .. clock
  BY NowNumbers DEF Queued, Now
<1>2. Now.content.head \in Waiting(Now.id) /\ Now.content.body \in Waiting(Now.id)
  BY <1>1 DEF Waiting, Now
<1>3. Now.content.head # 0 /\ Now.content.head # Partly
  <2>1. clock \in 0 .. MaxChanges
    BY DEF NumbersInv, TypeOK, Changes
  <2> QED  BY <1>1, <2>1, PersistenceAssumption DEF Partly
<1> QED  BY <1>2, <1>3 DEF Known

\* What a session is, is known.
LEMMA PresentKnown ==
    ASSUME NumbersInv, StoreInv, NEW s \in Present
    PROVE  sessions[s].head \in Known(s)
<1>1. sessions[s].head \in 1 .. clock
  BY PresentNumbers
<1>2. clock \in 0 .. MaxChanges
  BY DEF NumbersInv, TypeOK, Changes
<1>3. sessions[s].head # 0 /\ sessions[s].head # Partly
  BY <1>1, <1>2, PersistenceAssumption DEF Partly
<1> QED  BY <1>3 DEF Known, InMemory

LEMMA WritesHistory ==
    ASSUME NumbersInv, StoreInv, KeptInv, ~astray,
           Update \/ Insert \/ Begin \/ Delete \/ ClearMessages \/ AddMessages
    PROVE  KeptInv'
<1>1. Callback /\ chain # <<>> /\ UNCHANGED <<chain, removed, unsaved>>
  BY DEF Update, Insert, Begin, Delete, ClearMessages, AddMessages, Runs, Goes, outcome
<1>2. /\ heads \in [Ids -> Nat] /\ bodies \in [Ids -> Nat] /\ Now.id \in Ids
      /\ Now.content.head \in Waiting(Now.id) /\ Now.content.body \in Waiting(Now.id)
  BY <1>1, NowWaits, NowNumbers DEF StoreInv, TableInv
<1>3. PICK h \in {heads[Now.id], 0, Now.content.head},
           b \in {bodies[Now.id], 0, Partly, Now.content.body} :
          /\ heads' = [heads EXCEPT ![Now.id] = h] /\ bodies' = [bodies EXCEPT ![Now.id] = b]
          /\ disk' = disk \/ (~tx /\ disk'.heads = heads' /\ disk'.bodies = bodies')
  <2>1. heads = [heads EXCEPT ![Now.id] = heads[Now.id]]
        /\ bodies = [bodies EXCEPT ![Now.id] = bodies[Now.id]]
    BY <1>2
  <2>2. disk' = disk \/ (~tx /\ disk'.heads = heads' /\ disk'.bodies = bodies')
    BY DEF Update, Insert, Begin, Delete, ClearMessages, AddMessages, Writes, tables
  <2>3. /\ \/ heads' = heads
           \/ heads' = [heads EXCEPT ![Now.id] = 0]
           \/ heads' = [heads EXCEPT ![Now.id] = Now.content.head]
        /\ \/ bodies' = bodies
           \/ bodies' = [bodies EXCEPT ![Now.id] = 0]
           \/ bodies' = [bodies EXCEPT ![Now.id] = Partly]
           \/ bodies' = [bodies EXCEPT ![Now.id] = Now.content.body]
    BY DEF Update, Insert, Begin, Delete, ClearMessages, AddMessages, Writes, tables
  <2>4. \E h \in {heads[Now.id], 0, Now.content.head} : heads' = [heads EXCEPT ![Now.id] = h]
    BY <2>1, <2>3
  <2>5. \E b \in {bodies[Now.id], 0, Partly, Now.content.body} :
            bodies' = [bodies EXCEPT ![Now.id] = b]
    BY <2>1, <2>3
  <2> QED  BY <2>2, <2>4, <2>5
<1>4. /\ heads'[Now.id] = h /\ bodies'[Now.id] = b
      /\ \A s \in Ids \ {Now.id} : heads'[s] = heads[s] /\ bodies'[s] = bodies[s]
  BY <1>2, <1>3
<1>5. ~tx => heads = disk.heads /\ bodies = disk.bodies
  BY DEF StoreInv, StepInv
<1>6. \A s \in Ids \ {Now.id} : disk'.heads[s] = disk.heads[s] /\ disk'.bodies[s] = disk.bodies[s]
  BY <1>3, <1>4, <1>5
<1>7. ASSUME NEW s \in Ids
      PROVE  Stored(s)' \subseteq Stored(s) \cup Waiting(s) \cup {0, Partly}
  <2>1. disk'.heads[s] \in {disk.heads[s], heads'[s]} /\ disk'.bodies[s] \in {disk.bodies[s], bodies'[s]}
    BY <1>3
  <2>2. /\ heads'[s] \in Stored(s) \cup Waiting(s) \cup {0, Partly}
        /\ bodies'[s] \in Stored(s) \cup Waiting(s) \cup {0, Partly}
    BY <1>2, <1>3, <1>4 DEF Stored
  <2> QED  BY <2>1, <2>2 DEF Stored
<1> QED  BY <1>1, <1>6, <1>7, StatementHistory

\* A job leaves the chain: what was last of a session stays last.
LEMMA LastShifts ==
    ASSUME NumbersInv, LastInv, chain # <<>>, chain' = Tail(chain),
           UNCHANGED <<sessions, persistent, asked>>
    PROVE  LastInv'
<1>1. /\ Len(chain) \in Nat /\ Len(chain') = Len(chain) - 1 /\ Len(chain) > 0
      /\ \A i \in 1 .. Len(chain') : i + 1 \in 1 .. Len(chain) /\ chain'[i] = chain[i + 1]
  BY WaitingShrinks
<1>2. ASSUME NEW i \in 1 .. Len(chain')
      PROVE  Last(i)' <=> Last(i + 1)
  <2>1. ASSUME Last(i)', NEW j \in 1 .. Len(chain), chain[j].id = chain[i + 1].id
        PROVE  j <= i + 1
    <3>1. CASE j = 1
      BY <1>1, <3>1
    <3>2. CASE j # 1
      <4>1. j - 1 \in 1 .. Len(chain') /\ (j - 1) + 1 = j
        BY <1>1, <3>2
      <4>2. chain'[j - 1].id = chain'[i].id
        BY <1>1, <2>1, <4>1
      <4>3. j - 1 <= i
        BY <2>1, <4>1, <4>2 DEF Last
      <4> QED  BY <1>1, <4>3
    <3> QED  BY <3>1, <3>2
  <2>2. ASSUME Last(i + 1), NEW j \in 1 .. Len(chain'), chain'[j].id = chain'[i].id
        PROVE  j <= i
    <3>1. j + 1 \in 1 .. Len(chain) /\ chain[j + 1].id = chain[i + 1].id
      BY <1>1, <2>2
    <3>2. j + 1 <= i + 1
      BY <2>2, <3>1 DEF Last
    <3> QED  BY <1>1, <3>2
  <2> QED  BY <2>1, <2>2 DEF Last
<1>3. Present' = Present
  BY DEF Present
<1>4. ASSUME NEW i \in 1 .. Len(chain')
      PROVE  /\ chain'[i].op = "remove" => Last(i)' /\ sessions[chain'[i].id] = NoSession
             /\ Last(i)' /\ chain'[i].id \in persistent
                    => chain'[i].op = "save" /\ Seen(chain'[i].id, chain'[i].content)
  BY <1>1, <1>2 DEF LastInv
<1>5. ASSUME NEW i \in 1 .. Len(chain')
      PROVE  Seen(chain'[i].id, chain'[i].content) => Seen(chain[i].id, chain[i].content)'
  BY DEF Seen
<1> QED  BY <1>3, <1>4, <1>5 DEF LastInv

\* What the job that leaves was to a persistent session: followed by another, or
\* the last word.
LEMMA LeavesOrLast ==
    ASSUME NumbersInv, LastInv, NEW s \in persistent, chain # <<>>, chain' = Tail(chain),
           s = Now.id
    PROVE  \/ \E i \in 1 .. Len(chain') : chain'[i].id = s
           \/ Now.op = "save" /\ Seen(s, Now.content)
<1>1. /\ Len(chain) \in Nat /\ Len(chain) > 0 /\ Len(chain') = Len(chain) - 1
      /\ \A i \in 1 .. Len(chain') : i + 1 \in 1 .. Len(chain) /\ chain'[i] = chain[i + 1]
  BY WaitingShrinks
<1>2. CASE Last(1)
  <2>1. 1 \in 1 .. Len(chain)
    BY <1>1
  <2> QED  BY <1>2, <2>1 DEF LastInv, Now
<1>3. CASE ~ Last(1)
  <2>1. PICK j \in 1 .. Len(chain) : chain[j].id = s /\ ~ (j <= 1)
    BY <1>3 DEF Last, Now
  <2>2. j - 1 \in 1 .. Len(chain') /\ (j - 1) + 1 = j
    BY <1>1, <2>1
  <2>3. chain'[j - 1].id = s
    BY <1>1, <2>1, <2>2
  <2> QED  BY <2>2, <2>3
<1> QED  BY <1>2, <1>3

\* A job of another session waits as before.
LEMMA OthersWait ==
    ASSUME NumbersInv, chain # <<>>, chain' = Tail(chain), NEW i \in 1 .. Len(chain),
           chain[i].id # Now.id
    PROVE  \E j \in 1 .. Len(chain') : chain'[j].id = chain[i].id
<1>1. /\ Len(chain) \in Nat /\ Len(chain') = Len(chain) - 1
      /\ \A j \in 1 .. Len(chain') : chain'[j] = chain[j + 1]
  BY WaitingShrinks
<1>2. i # 1
  BY DEF Now
<1>3. i - 1 \in 1 .. Len(chain') /\ (i - 1) + 1 = i
  BY <1>1, <1>2
<1>4. chain'[i - 1] = chain[i]
  BY <1>1, <1>3
<1> QED  BY <1>3, <1>4

LEMMA FailsHistory ==
    ASSUME NumbersInv, StoreInv, KeptInv, ~astray, chain # <<>>, Fails, UNCHANGED disk,
           heads' \in {heads, disk.heads}, bodies' \in {bodies, disk.bodies}
    PROVE  KeptInv'
<1>1. /\ chain' = Tail(chain) /\ Callback /\ removed' = removed
      /\ unsaved' = unsaved \cup {Birth(Now.content)}
      /\ UNCHANGED <<sessions, persistent, asked, picked, origin, astray>>
  BY DEF Fails, Callback, memory, changes, restore
<1>2. \A s \in Ids : Known(s)' \subseteq Known(s)
  <2>1. \A s \in Ids : Waiting(s)' \subseteq Waiting(s)
    BY <1>1, WaitingShrinks
  <2>2. \A s \in Ids : Stored(s)' \subseteq Stored(s)
    BY DEF Stored
  <2> QED  BY <1>1, <2>1, <2>2, KnownInCallback
<1>3. LineInv' /\ EraInv' /\ LastInv'
  BY <1>1, <1>2, LineShrinks, EraInCallback, LastShifts DEF KeptInv
<1>4. StoredAsSeen'
  <2> SUFFICES ASSUME NEW s \in persistent
               PROVE  \/ \E i \in 1 .. Len(chain') : chain'[i].id = s
                      \/ Birth(sessions[s]) \in unsaved'
                      \/ Seen(s, OnDisk(s))
    BY <1>1 DEF StoredAsSeen, Birth, Seen, OnDisk
  <2>1. CASE s = Now.id
    <3>1. \/ \E i \in 1 .. Len(chain') : chain'[i].id = s
          \/ Now.op = "save" /\ Seen(s, Now.content)
      BY <1>1, <2>1, LeavesOrLast DEF KeptInv
    <3>2. s \in Present /\ s \in Ids
      BY DEF KeptInv, LastInv, Present
    <3>3. sessions[s].head \in Known(s) /\ Now.content.head \in Known(s)
      BY <2>1, <3>2, PresentKnown, NowWaits
    <3>4. Birth(sessions[s]) = Birth(Now.content)
      BY <3>2, <3>3 DEF KeptInv, LineInv, Birth
    <3> QED  BY <1>1, <3>1, <3>4
  <2>2. CASE s # Now.id
    <3>1. \/ \E i \in 1 .. Len(chain) : chain[i].id = s
          \/ Birth(sessions[s]) \in unsaved
          \/ Seen(s, OnDisk(s))
      BY DEF KeptInv, StoredAsSeen
    <3>2. ASSUME NEW i \in 1 .. Len(chain), chain[i].id = s
          PROVE  \E j \in 1 .. Len(chain') : chain'[j].id = s
      BY <1>1, <2>2, <3>2, OthersWait
    <3> QED  BY <1>1, <3>1, <3>2
  <2> QED  BY <2>1, <2>2
<1> QED  BY <1>3, <1>4 DEF KeptInv

LEMMA FailureHistory ==
    ASSUME NumbersInv, StoreInv, KeptInv, ~astray, StatementFails \/ Rollback \/ RollbackFails
    PROVE  KeptInv'
<1>1. CASE Fails
  BY <1>1, FailsHistory DEF StatementFails, Rollback, RollbackFails, tables
<1>2. CASE ~ Fails
  <2>1. /\ Callback /\ chain # <<>> /\ UNCHANGED <<chain, removed, unsaved>>
        /\ UNCHANGED <<heads, bodies, disk>>
    BY <1>2 DEF StatementFails, Rollback, RollbackFails, Goes, outcome, tables
  <2>2. \A s \in Ids : Stored(s)' \subseteq Stored(s)
    BY <2>1 DEF Stored
  <2> QED  BY <2>1, <2>2, StatementHistory
<1> QED  BY <1>1, <1>2

\* The job is carried out: a removal leaves nothing of its birth.
LEMMA CommitHistory ==
    ASSUME NumbersInv, StoreInv, KeptInv, ~astray, Commit
    PROVE  KeptInv'
<1>1. /\ chain # <<>> /\ step = "commit" /\ chain' = Tail(chain) /\ Callback
      /\ disk'.heads = heads /\ disk'.bodies = bodies /\ UNCHANGED <<heads, bodies>>
      /\ unsaved' = unsaved \ {Birth(Now.content)}
      /\ removed' = IF Now.op = "remove" THEN removed \cup {Birth(Now.content)} ELSE removed
      /\ UNCHANGED <<sessions, persistent, asked, picked, origin, astray, up>>
  BY DEF Commit, Callback, memory, changes, restore
<1>2. /\ Now.id \in Ids /\ Now.op \in {"save", "remove"} /\ 1 \in 1 .. Len(chain)
      /\ Now.content.head \in Known(Now.id)
  BY <1>1, NowNumbers, NowWaits
<1>3. /\ \A s \in Ids \ {Now.id} : heads[s] = disk.heads[s] /\ bodies[s] = disk.bodies[s]
      /\ Now.op = "save" => heads[Now.id] = Now.content.head /\ bodies[Now.id] = Now.content.body
      /\ Now.op = "remove" => heads[Now.id] = 0 /\ bodies[Now.id] = 0
  BY <1>1, <1>2 DEF StoreInv, StepInv
<1>4. \A s \in Ids : Known(s)' \subseteq Known(s)
  <2>1. \A s \in Ids : Waiting(s)' \subseteq Waiting(s)
    BY <1>1, WaitingShrinks
  <2>2. \A s \in Ids : Stored(s)' \subseteq Stored(s)
    BY <1>1 DEF Stored
  <2> QED  BY <1>1, <2>1, <2>2, KnownInCallback
<1>5. EraInv' /\ LastInv' /\ up = "restored"
  BY <1>1, <1>4, EraInCallback, LastShifts DEF KeptInv
<1>6. ASSUME Now.op = "remove", NEW s \in Ids, s = Now.id
      PROVE  Known(s)' = {}
  <2>1. Last(1) /\ sessions[s] = NoSession /\ chain[1].id = s
    BY <1>2, <1>6 DEF KeptInv, LastInv, Now
  <2>2. picked[s] = NoSession
    BY <1>5 DEF KeptInv, EraInv
  <2>3. InMemory(s)' = {0}
    BY <1>1, <2>1, <2>2 DEF InMemory, NoSession
  <2>4. Stored(s)' = {0}
    BY <1>1, <1>3, <1>6 DEF Stored
  <2>5. ASSUME NEW i \in 1 .. Len(chain') PROVE chain'[i].id # s
    <3>1. i + 1 \in 1 .. Len(chain) /\ chain'[i] = chain[i + 1] /\ ~ (i + 1 <= 1)
      BY <1>1, WaitingShrinks
    <3> QED  BY <2>1, <3>1 DEF Last
  <2>6. Queued(s)' = {}
    BY <2>5 DEF Queued
  <2>7. Waiting(s)' = {}
    BY <2>6 DEF Waiting
  <2> QED  BY <2>3, <2>4, <2>7 DEF Known
<1>7. LineInv'
  <2>1. CASE Now.op = "save"
    BY <1>1, <1>4, <2>1, LineShrinks DEF KeptInv
  <2>2. CASE Now.op = "remove"
    <3>1. ASSUME NEW s \in Ids, NEW n \in Known(s)'
          PROVE  n \in Known(s) /\ s # Now.id /\ origin[n] # Birth(Now.content)
      <4>1. n \in Known(s) /\ s # Now.id
        BY <1>4, <1>6, <2>2
      <4> QED  BY <1>2, <4>1 DEF KeptInv, LineInv, Birth
    <3>2. \A s \in Ids : \A n \in Known(s)' : origin'[n] \notin removed'
      BY <1>1, <2>2, <3>1 DEF KeptInv, LineInv
    <3>3. \A s, t \in Ids : \A m \in Known(s)', n \in Known(t)' : origin'[m] = origin'[n] <=> s = t
      BY <1>1, <1>4 DEF KeptInv, LineInv
    <3> QED  BY <3>2, <3>3 DEF LineInv
  <2> QED  BY <1>2, <2>1, <2>2
<1>8. StoredAsSeen'
  <2> SUFFICES ASSUME NEW s \in persistent
               PROVE  \/ \E i \in 1 .. Len(chain') : chain'[i].id = s
                      \/ Birth(sessions[s]) \in unsaved'
                      \/ Seen(s, [head |-> heads[s], body |-> bodies[s]])
    BY <1>1 DEF StoredAsSeen, Birth, Seen, OnDisk
  <2>1. CASE s = Now.id
    <3>1. \/ \E i \in 1 .. Len(chain') : chain'[i].id = s
          \/ Now.op = "save" /\ Seen(s, Now.content)
      BY <1>1, <2>1, LeavesOrLast DEF KeptInv
    <3>2. Now.op = "save" => Now.content = [head |-> heads[s], body |-> bodies[s]]
      BY <1>1, <1>3, <2>1, NowNumbers DEF Contents
    <3> QED  BY <3>1, <3>2
  <2>2. CASE s # Now.id
    <3>1. /\ s \in Present /\ s \in Ids
          /\ \/ \E i \in 1 .. Len(chain) : chain[i].id = s
             \/ Birth(sessions[s]) \in unsaved
             \/ Seen(s, OnDisk(s))
      BY DEF KeptInv, StoredAsSeen, LastInv, Present
    <3>2. ASSUME NEW i \in 1 .. Len(chain), chain[i].id = s
          PROVE  \E j \in 1 .. Len(chain') : chain'[j].id = s
      BY <1>1, <2>2, <3>2, OthersWait
    <3>3. Birth(sessions[s]) # Birth(Now.content)
      BY <1>2, <2>2, <3>1, PresentKnown DEF KeptInv, LineInv, Birth
    <3>4. OnDisk(s) = [head |-> heads[s], body |-> bodies[s]]
      BY <1>3, <2>2, <3>1 DEF OnDisk
    <3> QED  BY <1>1, <2>2, <3>1, <3>2, <3>3, <3>4
  <2> QED  BY <2>1, <2>2
<1> QED  BY <1>5, <1>7, <1>8 DEF KeptInv

-----------------------------------------------------------------------------
(***************************************************************************)
(* The user.                                                               *)
(***************************************************************************)
LEMMA PlacesKnown ==
    ASSUME NumbersInv, NEW s \in Ids, NEW content, NEW job, Places(s, content, job),
           UNCHANGED <<heads, bodies, disk, picked>>
    PROVE  /\ \A t \in Ids : t # s => Known(t)' \subseteq Known(t)
           /\ Known(s)' \subseteq Known(s) \cup
                  ({content.head, content.body, job.content.head, job.content.body} \ {0, Partly})
<1>1. /\ job \in Entries /\ job.id = s /\ (chain' = chain \/ chain' = Append(chain, job))
      /\ sessions' = [sessions EXCEPT ![s] = content]
  BY DEF Places
<1>2. /\ \A t \in Ids : t # s => Waiting(t)' \subseteq Waiting(t)
      /\ Waiting(s)' \subseteq Waiting(s) \cup {job.content.head, job.content.body}
  <2>1. CASE chain' = chain
    BY <2>1 DEF Waiting, Queued
  <2>2. CASE chain' = Append(chain, job)
    BY <1>1, <2>2, WaitingGrows
  <2> QED  BY <1>1, <2>1, <2>2
<1>3. \A t \in Ids : Stored(t)' = Stored(t)
  BY DEF Stored
<1>4. sessions'[s] = content /\ \A t \in Ids : t # s => sessions'[t] = sessions[t]
  BY <1>1 DEF NumbersInv, TypeOK
<1>5. /\ \A t \in Ids : t # s => InMemory(t)' = InMemory(t)
      /\ InMemory(s)' \subseteq InMemory(s) \cup {content.head, content.body}
  BY <1>4 DEF InMemory
<1>6. Partly' = Partly
  BY DEF Partly
<1> QED  BY <1>2, <1>3, <1>5, <1>6 DEF Known

\* A job is queued behind those of its session, which is not removed yet.
LEMMA LastGrows ==
    ASSUME NumbersInv, LastInv, NEW s \in Ids, NEW content, NEW job, Places(s, content, job),
           chain' = Append(chain, job),
           \A i \in 1 .. Len(chain) : chain[i].op = "remove" => chain[i].id # s,
           \/ job.op = "remove" /\ content = NoSession /\ persistent' = persistent \ {s}
           \/ /\ job.op = "save" /\ content = job.content
              /\ persistent' = persistent \cup {s}
    PROVE  LastInv'
<1>1. /\ Len(chain) \in Nat /\ Len(chain') = Len(chain) + 1 /\ job.id = s
      /\ chain'[Len(chain) + 1] = job
      /\ \A i \in 1 .. Len(chain) : chain'[i] = chain[i]
  <2>1. chain \in Seq(Entries) /\ job \in Entries /\ job.id = s
    BY DEF NumbersInv, TypeOK, Entries, Places
  <2> QED  BY <2>1, AppendEntry
<1>2. /\ sessions'[s] = content /\ \A t \in Ids : t # s => sessions'[t] = sessions[t]
      /\ persistent \subseteq Ids /\ \A t \in Ids : t # s => asked'[t] = asked[t]
  BY DEF NumbersInv, TypeOK, Places
<1>3. ASSUME NEW i, i = Len(chain) + 1
      PROVE  Last(i)'
  BY <1>1, <1>3 DEF Last
<1>4. ASSUME NEW i \in 1 .. Len(chain)
      PROVE  /\ chain[i].id = s => ~ Last(i)'
             /\ chain[i].id # s => (Last(i)' <=> Last(i))
  <2>1. ASSUME chain[i].id = s PROVE ~ Last(i)'
    BY <1>1, <2>1 DEF Last
  <2>2. ASSUME chain[i].id # s PROVE Last(i)' <=> Last(i)
    <3>1. \A j \in 1 .. Len(chain') : \/ j \in 1 .. Len(chain) /\ chain'[j] = chain[j]
                                      \/ chain'[j].id = s
      BY <1>1
    <3>2. \A j \in 1 .. Len(chain) : j \in 1 .. Len(chain') /\ chain'[j] = chain[j]
      BY <1>1
    <3> QED  BY <2>2, <3>1, <3>2 DEF Last
  <2> QED  BY <2>1, <2>2
<1>5. \A i \in 1 .. Len(chain) : chain[i].id \in Ids
  <2>1. chain \in Seq(Entries)
    BY DEF NumbersInv, TypeOK, Entries
  <2>2. \A i \in 1 .. Len(chain) : chain[i] \in Entries
    BY <2>1
  <2> QED  BY <2>2 DEF Entries
<1>6. persistent' \subseteq Present'
  <2>1. persistent' \subseteq Ids /\ \A t \in persistent' : t # s => t \in persistent
    BY <1>2
  <2>2. \A t \in persistent' : t # s => sessions'[t] # NoSession
    BY <1>2, <2>1 DEF LastInv, Present
  <2>3. s \in persistent' => sessions'[s] # NoSession
    <3>1. s \in persistent' => content = job.content /\ job.content.head \in 1 .. clock'
      BY DEF Places
    <3> QED  BY <1>2, <3>1 DEF NoSession
  <2> QED  BY <2>1, <2>2, <2>3 DEF Present
<1>7. ASSUME NEW i \in 1 .. Len(chain')
      PROVE  /\ chain'[i].op = "remove" => Last(i)' /\ sessions'[chain'[i].id] = NoSession
             /\ Last(i)' /\ chain'[i].id \in persistent'
                    => chain'[i].op = "save" /\ Seen(chain[i].id, chain[i].content)'
  <2>1. CASE i = Len(chain) + 1
    <3>1. chain'[i] = job /\ Last(i)' /\ job.id = s /\ sessions'[s] = content
      BY <1>1, <1>2, <1>3, <2>1
    <3>2. CASE job.op = "remove" /\ content = NoSession /\ persistent' = persistent \ {s}
      BY <3>1, <3>2
    <3>3. CASE job.op = "save" /\ content = job.content
      BY <3>1, <3>3 DEF Seen
    <3> QED  BY <3>2, <3>3
  <2>2. CASE i \in 1 .. Len(chain)
    <3>1. /\ chain'[i] = chain[i]
          /\ chain[i].op = "remove" =>
                 Last(i) /\ sessions[chain[i].id] = NoSession /\ chain[i].id # s
          /\ Last(i) /\ chain[i].id \in persistent
                 => chain[i].op = "save" /\ Seen(chain[i].id, chain[i].content)
      BY <1>1, <2>2 DEF LastInv
    <3>2. CASE chain[i].id = s
      BY <1>4, <2>2, <3>1, <3>2
    <3>3. CASE chain[i].id # s
      <4>1. (Last(i)' <=> Last(i)) /\ sessions'[chain[i].id] = sessions[chain[i].id]
            /\ asked'[chain[i].id] = asked[chain[i].id]
            /\ (chain[i].id \in persistent' => chain[i].id \in persistent)
        BY <1>2, <1>4, <1>5, <2>2, <3>3
      <4>2. Seen(chain[i].id, chain[i].content) => Seen(chain[i].id, chain[i].content)'
        BY <3>1, <4>1 DEF Seen
      <4> QED  BY <3>1, <3>3, <4>1, <4>2
    <3> QED  BY <3>2, <3>3
  <2> QED  BY <1>1, <2>1, <2>2
<1> QED  BY <1>6, <1>7 DEF LastInv

\* What was seen of a session is seen of it still: the text of an answer gets
\* longer.
StillSeen(s) == \A c \in Snapshots : Seen(s, c) => Seen(s, c)'

\* A session becomes something else and nothing is queued: it is not persistent, or
\* what was seen of it is seen still.
LEMMA LastStays ==
    ASSUME NumbersInv, StoreInv, LastInv, NEW s \in Ids, NEW content,
           s \in persistent => content # NoSession /\ StillSeen(s),
           sessions' = [sessions EXCEPT ![s] = content], UNCHANGED <<chain, persistent>>,
           \A t \in Ids : t # s => asked'[t] = asked[t],
           \A i \in 1 .. Len(chain) : chain[i].op = "remove" => chain[i].id # s
    PROVE  LastInv'
<1>1. /\ sessions'[s] = content /\ \A t \in Ids : t # s => sessions'[t] = sessions[t]
  BY DEF NumbersInv, TypeOK
<1>2. \A i \in 1 .. Len(chain) : chain[i].id \in Ids /\ chain[i].content \in Snapshots
  <2>1. chain \in Seq(Jobs)
    BY DEF StoreInv, ChainInv
  <2>2. \A i \in 1 .. Len(chain) : chain[i] \in Jobs
    BY <2>1
  <2> QED  BY <2>2 DEF Jobs
<1>3. persistent \subseteq Present'
  BY <1>1 DEF LastInv, Present
<1>4. \A i \in 1 .. Len(chain) : Last(i)' <=> Last(i)
  BY DEF Last
<1>5. ASSUME NEW i \in 1 .. Len(chain), chain[i].id \in persistent,
             Seen(chain[i].id, chain[i].content)
      PROVE  Seen(chain[i].id, chain[i].content)'
  <2>1. CASE chain[i].id = s
    <3>1. Seen(s, chain[i].content)'
      BY <1>2, <1>5, <2>1 DEF StillSeen
    <3> QED  BY <2>1, <3>1 DEF Seen
  <2>2. CASE chain[i].id # s
    BY <1>1, <1>2, <1>5, <2>2 DEF Seen
  <2> QED  BY <2>1, <2>2
<1>6. ASSUME NEW i \in 1 .. Len(chain)
      PROVE  /\ chain[i].op = "remove" => Last(i)' /\ sessions'[chain[i].id] = NoSession
             /\ Last(i)' /\ chain[i].id \in persistent
                    => chain[i].op = "save" /\ Seen(chain[i].id, chain[i].content)'
  <2>1. /\ chain[i].op = "remove" =>
               Last(i) /\ sessions[chain[i].id] = NoSession /\ chain[i].id # s
        /\ Last(i) /\ chain[i].id \in persistent
               => chain[i].op = "save" /\ Seen(chain[i].id, chain[i].content)
    BY DEF LastInv
  <2> QED  BY <1>1, <1>2, <1>4, <1>5, <2>1
<1> QED  BY <1>3, <1>6 DEF LastInv

\* A persistent session is as it was, or has a job now, or shows what it showed and
\* more.
LEMMA SeenByUser ==
    ASSUME NumbersInv, StoreInv, KeptInv, ~astray, UserActs, NEW s \in Ids, NEW content, NEW job,
           Places(s, content, job),
           s \in persistent' => \/ chain' = Append(chain, job)
                                \/ /\ s \in persistent /\ StillSeen(s)
                                   /\ origin'[content.head] = Birth(sessions[s]),
           \A t \in persistent' : t # s => t \in persistent,
           \A n \in 0 .. clock : origin'[n] = origin[n]
    PROVE  StoredAsSeen'
<1> SUFFICES ASSUME NEW t \in persistent'
             PROVE  \/ \E i \in 1 .. Len(chain') : chain'[i].id = t
                    \/ origin'[sessions'[t].head] \in unsaved'
                    \/ Seen(t, OnDisk(t))'
  BY DEF StoredAsSeen, Birth
<1>1. /\ chain \in Seq(Entries) /\ job \in Entries /\ job.id = s
      /\ (chain' = chain \/ chain' = Append(chain, job))
      /\ sessions'[s] = content /\ \A u \in Ids : u # s => asked'[u] = asked[u]
  BY DEF NumbersInv, TypeOK, Entries, Places
<1>2. \A i \in 1 .. Len(chain) : i \in 1 .. Len(chain') /\ chain'[i] = chain[i]
  <2>1. CASE chain' = Append(chain, job)
    <3>1. Len(chain) \in Nat /\ Len(chain') = Len(chain) + 1
          /\ \A i \in 1 .. Len(chain) : chain'[i] = chain[i]
      BY <1>1, <2>1, AppendEntry
    <3> QED  BY <3>1
  <2> QED  BY <1>1, <2>1
<1>3. /\ UNCHANGED <<disk, unsaved>> /\ OnDisk(t)' = OnDisk(t)
      /\ \A u \in Ids : OnDisk(u) \in Snapshots
  <2>1. UNCHANGED <<disk, unsaved>>
    BY DEF UserActs, tables, outcome
  <2>2. \A u \in Ids : disk.heads[u] \in Nat /\ disk.bodies[u] \in Nat
    BY DEF StoreInv, TableInv
  <2> QED  BY <2>1, <2>2 DEF OnDisk, Snapshots
<1>4. t \in persistent => \/ \E i \in 1 .. Len(chain) : chain[i].id = t
                          \/ Birth(sessions[t]) \in unsaved
                          \/ Seen(t, OnDisk(t))
  BY DEF KeptInv, StoredAsSeen
<1>5. CASE t = s /\ chain' = Append(chain, job)
  <2>1. Len(chain) \in Nat /\ Len(chain') = Len(chain) + 1 /\ chain'[Len(chain) + 1] = job
    BY <1>1, <1>5, AppendEntry
  <2>2. Len(chain) + 1 \in 1 .. Len(chain')
    BY <2>1
  <2> QED  BY <1>1, <1>5, <2>1, <2>2
<1>6. CASE /\ t = s /\ s \in persistent /\ StillSeen(s)
           /\ origin'[content.head] = Birth(sessions[s])
  <2>1. Seen(t, OnDisk(t)) => Seen(t, OnDisk(t))'
    <3>1. Seen(s, OnDisk(s)) => Seen(s, OnDisk(s))'
      <4> DEFINE c == OnDisk(s)
      <4>1. c' = c /\ c \in Snapshots
        BY <1>3, <1>6
      <4>2. Seen(s, c) => \/ c = sessions'[s]
                          \/ /\ asked'[s] # 0
                             /\ c.head \in asked'[s] .. sessions'[s].head
                             /\ c.body \in asked'[s] .. sessions'[s].body
        <5> HIDE DEF c
        <5> QED  BY <1>6, <4>1 DEF StillSeen, Seen
      <4> QED  BY <4>1, <4>2 DEF Seen
    <3> QED  BY <1>6, <3>1
  <2> QED  BY <1>1, <1>2, <1>3, <1>4, <1>6, <2>1
<1>7. CASE t # s
  <2>1. /\ t \in persistent /\ t \in Ids /\ sessions'[t] = sessions[t] /\ asked'[t] = asked[t]
    BY <1>1, <1>7 DEF NumbersInv, TypeOK, Places
  <2>2. sessions[t].head \in 0 .. clock
    <3>1. sessions[t].head \in Nat /\ sessions[t].head <= clock /\ clock \in Nat
      BY <2>1, PersistenceAssumption DEF NumbersInv, TypeOK, OriginInv, Contents, Changes
    <3> QED  BY <3>1
  <2>3. Seen(t, OnDisk(t)) => Seen(t, OnDisk(t))'
    BY <1>3, <2>1 DEF Seen
  <2> QED  BY <1>2, <1>3, <1>4, <2>1, <2>2, <2>3 DEF Birth
<1> QED  BY <1>5, <1>6, <1>7

\* What the user does counts only once the sessions are restored.
LEMMA ActsRestored ==
    ASSUME NumbersInv, ~astray => KeptInv, UserActs, ~astray'
    PROVE  ~astray /\ up = "restored" /\ KeptInv
           /\ UNCHANGED <<up, picked, toRead, step, heads, bodies, disk, tx, removed, unsaved>>
<1> QED  BY DEF UserActs, GoesAstray, NumbersInv, TypeOK, restore, tables, outcome

LEMMA EraGoesOn ==
    ASSUME EraInv, up = "restored", UNCHANGED <<up, picked, toRead>>,
           \A t \in Ids : t >= nextId' => Known(t)' = {}
    PROVE  EraInv'
<1> QED  BY DEF EraInv

\* The id of a session is not beyond the next, and it has no removal waiting.
LEMMA PresentHistory ==
    ASSUME NumbersInv, StoreInv, KeptInv, up = "restored", NEW s \in Present
    PROVE  /\ s \in Ids /\ sessions[s].head \in Known(s) /\ ~ (s >= nextId)
           /\ \A i \in 1 .. Len(chain) : chain[i].op = "remove" => chain[i].id # s
           /\ \A t \in Ids : \A m \in Known(t) : origin[m] = Birth(sessions[s]) <=> t = s
           /\ Birth(sessions[s]) \notin removed
<1>1. s \in Ids /\ sessions[s] # NoSession /\ sessions[s].head \in Known(s)
  BY PresentKnown DEF Present
<1>2. ~ (s >= nextId)
  BY <1>1 DEF KeptInv, EraInv
<1>3. \A i \in 1 .. Len(chain) : chain[i].op = "remove" => chain[i].id # s
  BY <1>1 DEF KeptInv, LastInv
<1> QED  BY <1>1, <1>2, <1>3 DEF KeptInv, LineInv, Birth

LEMMA NewSessionHistory ==
    ASSUME NumbersInv, StoreInv, ~astray => KeptInv, NewSession, ~astray'
    PROVE  KeptInv'
<1> DEFINE new == [head |-> clock + 1, body |-> clock + 1]
           job == Job("save", nextId, new)
<1>1. /\ nextId \in Ids /\ Changed(clock + 1) /\ nextId' = nextId + 1 /\ UserActs
      /\ sessions' = [sessions EXCEPT ![nextId] = new]
      /\ UNCHANGED <<persistent, asked, chain>>
  BY DEF NewSession
<1>2. /\ ~astray /\ up = "restored" /\ KeptInv
      /\ UNCHANGED <<up, picked, toRead, step, heads, bodies, disk, tx, removed, unsaved>>
  BY <1>1, ActsRestored
<1>3. Places(nextId, new, job) /\ new.head = clock + 1 /\ new.body = clock + 1
      /\ job.content = new
  BY NewSessionPlaces DEF Job
<1> HIDE DEF new, job
<1>4. clock \in Nat /\ clock + 1 \in 1 .. clock + 1 /\ \A n \in 0 .. clock : origin'[n] = origin[n]
  <2>1. clock \in Nat /\ clock + 1 \in 1 .. clock + 1
    BY PersistenceAssumption DEF NumbersInv, TypeOK, Changes
  <2> QED  BY <1>1, <2>1, NumbersChanged
<1>5. Known(nextId) = {} /\ nextId \in Nat
  BY <1>1, <1>2, PersistenceAssumption DEF KeptInv, EraInv, Ids
<1>6. /\ \A t \in Ids : t # nextId => Known(t)' \subseteq Known(t)
      /\ \A t \in Ids : t = nextId => Known(t)' \subseteq {clock + 1}
  <2>1. \A s \in Ids : s = nextId => Known(s)' \subseteq Known(s) \cup {clock + 1}
    BY <1>2, <1>3, PlacesKnown
  <2>2. \A t \in Ids : t # nextId => Known(t)' \subseteq Known(t)
    BY <1>1, <1>2, <1>3, PlacesKnown
  <2> QED  BY <1>5, <2>1, <2>2
<1>7. LineInv'
  <2>1. \A t \in Ids : \A m \in Known(t) : m \in 1 .. clock
    BY KnownMade
  <2>2. \A m \in 1 .. clock : origin[m] \in 1 .. m
    BY DEF NumbersInv, OriginInv
  <2>3. \A t \in Ids : \A m \in Known(t) : origin[m] = clock + 1 <=> t = nextId
    <3>1. \A t \in Ids : \A m \in Known(t) : origin[m] # clock + 1
      BY <1>4, <2>1, <2>2
    <3> QED  BY <1>5, <3>1
  <2>4. clock + 1 \notin removed
    BY <1>4 DEF NumbersInv, OriginInv
  <2>5. \A t \in Ids : Known(t)' \subseteq Known(t) \cup (IF t = nextId THEN {clock + 1} ELSE {})
    BY <1>6
  <2> QED  BY <1>1, <1>2, <1>4, <2>3, <2>4, <2>5, LineGrows DEF KeptInv
<1>8. EraInv'
  <2>1. \A t \in Ids : t >= nextId' => t # nextId /\ t >= nextId
    BY <1>1, <1>5, PersistenceAssumption DEF Ids
  <2>2. \A t \in Ids : t >= nextId' => Known(t)' = {}
    BY <1>2, <1>6, <2>1 DEF KeptInv, EraInv
  <2> QED  BY <1>2, <2>2, EraGoesOn DEF KeptInv
<1>9. nextId \notin persistent
  <2>1. nextId \in Present => sessions[nextId].head \in Known(nextId)
    BY PresentKnown
  <2> QED  BY <1>2, <1>5, <2>1 DEF KeptInv, LastInv
<1>10. ASSUME NEW i \in 1 .. Len(chain) PROVE chain[i].id # nextId
  <2>1. chain[i].content.head \in 1 .. clock
    BY DEF NumbersInv, OriginInv
  <2>2. chain[i].id = nextId => chain[i].content.head \in Waiting(nextId)
    BY DEF Waiting, Queued
  <2>3. clock \in 0 .. MaxChanges
    BY DEF NumbersInv, TypeOK, Changes
  <2>4. chain[i].content.head # 0 /\ chain[i].content.head # Partly
    BY <2>1, <2>3, PersistenceAssumption DEF Partly
  <2> QED  BY <1>5, <2>2, <2>4 DEF Known
<1>11. LastInv'
  BY <1>1, <1>2, <1>9, <1>10, LastStays DEF KeptInv
<1>12. StoredAsSeen'
  BY <1>1, <1>2, <1>3, <1>4, <1>9, SeenByUser
<1> QED  BY <1>7, <1>8, <1>11, <1>12 DEF KeptInv

LEMMA ReplacingHistory ==
    ASSUME NumbersInv, StoreInv, ~astray => KeptInv, NEW s \in Ids, Replacing(s), ~astray'
    PROVE  KeptInv'
<1>1. PICK content \in Contents :
          /\ content.head = clock + 1 /\ content.body \in {sessions[s].body, clock + 1}
          /\ Replaces(s, content.body)
          /\ Places(s, content, Job("save", s, content))
          /\ \/ Token(s) /\ content.body = clock + 1 /\ chain' = chain
             \/ chain' = IF s \in persistent THEN Append(chain, Job("save", s, content)) ELSE chain
  BY ReplacingPlaces
<1> DEFINE job == Job("save", s, content)
<1>2. /\ s \in Present /\ Changed(Birth(sessions[s])) /\ UserActs
      /\ UNCHANGED <<persistent, nextId>>
  BY <1>1 DEF Replaces
<1>3. /\ ~astray /\ up = "restored" /\ KeptInv
      /\ UNCHANGED <<up, picked, toRead, step, heads, bodies, disk, tx, removed, unsaved>>
  BY <1>2, ActsRestored
<1>4. /\ Places(s, content, job) /\ job.op = "save" /\ job.id = s /\ job.content = content
      /\ \/ Token(s) /\ content.body = clock + 1 /\ chain' = chain
         \/ chain' = IF s \in persistent THEN Append(chain, job) ELSE chain
  BY <1>1 DEF Job
<1> HIDE DEF job
<1>5. /\ clock \in Nat /\ Birth(sessions[s]) \in 1 .. clock + 1
      /\ \A n \in 0 .. clock : origin'[n] = origin[n]
      /\ origin'[clock + 1] = Birth(sessions[s])
  <2>1. clock \in Nat
    BY PersistenceAssumption DEF NumbersInv, TypeOK, Changes
  <2>2. sessions[s].head \in 1 .. clock /\ Birth(sessions[s]) \in 1 .. sessions[s].head
    BY <1>2, PresentNumbers
  <2>3. Birth(sessions[s]) \in 1 .. clock + 1
    BY <2>1, <2>2
  <2> QED  BY <1>2, <2>1, <2>3, NumbersChanged
<1>6. /\ ~ (s >= nextId) /\ Birth(sessions[s]) \notin removed
      /\ \A i \in 1 .. Len(chain) : chain[i].op = "remove" => chain[i].id # s
      /\ \A t \in Ids : \A m \in Known(t) : origin[m] = Birth(sessions[s]) <=> t = s
  BY <1>2, <1>3, PresentHistory
<1>7. \A t \in Ids : Known(t)' \subseteq Known(t) \cup (IF t = s THEN {clock + 1} ELSE {})
  <2>1. sessions[s].body \in Known(s) \/ sessions[s].body \in {0, Partly}
    BY DEF Known, InMemory
  <2>2. {content.head, content.body, job.content.head, job.content.body} \ {0, Partly}
            \subseteq Known(s) \cup {clock + 1}
    BY <1>1, <1>4, <2>1
  <2> QED  BY <1>3, <1>4, <2>2, PlacesKnown
<1>8. LineInv'
  BY <1>2, <1>3, <1>5, <1>6, <1>7, LineGrows DEF KeptInv
<1>9. EraInv'
  <2>1. \A t \in Ids : t >= nextId' => Known(t)' = {}
    BY <1>2, <1>3, <1>6, <1>7 DEF KeptInv, EraInv
  <2> QED  BY <1>3, <2>1, EraGoesOn DEF KeptInv
<1>10. Token(s) => StillSeen(s)
  <2> SUFFICES ASSUME Token(s), NEW c \in Snapshots, Seen(s, c) PROVE Seen(s, c)'
    BY DEF StillSeen
  <2>1. /\ asked[s] # 0 /\ asked' = asked /\ sessions'[s] = content
        /\ content.head = clock + 1 /\ content.body = clock + 1
    <3>1. sessions' = [sessions EXCEPT ![s] = content] /\ sessions \in [Ids -> Contents]
      BY <1>4 DEF Places, NumbersInv, TypeOK
    <3>2. Replaces(s, clock + 1) /\ asked[s] # 0 /\ asked' = asked
      BY DEF Token
    <3>3. sessions'[s].body = clock + 1
      BY <3>1, <3>2 DEF Replaces
    <3> QED  BY <1>1, <3>1, <3>2, <3>3
  <2>2. /\ asked[s] \in Nat /\ sessions[s].head \in Nat /\ sessions[s].body \in Nat
        /\ asked[s] <= sessions[s].head /\ asked[s] <= sessions[s].body
        /\ sessions[s].head <= clock /\ sessions[s].body <= clock
    <3>1. sessions[s].head \in 1 .. clock /\ sessions[s].body <= clock
          /\ sessions[s].head \in Nat /\ sessions[s].body \in Nat
      BY <1>2, PresentNumbers
    <3> QED  BY <3>1, AskedBefore DEF NumbersInv, OriginInv
  <2>3. c.head \in Nat /\ c.body \in Nat
    BY DEF Snapshots
  <2>4. /\ c.head \in asked[s] .. sessions[s].head /\ c.body \in asked[s] .. sessions[s].body
    BY <2>2 DEF Seen
  <2>5. c.head \in asked[s] .. clock + 1 /\ c.body \in asked[s] .. clock + 1
    BY <1>5, <2>2, <2>3, <2>4
  <2> QED  BY <2>1, <2>5 DEF Seen
<1>11. LastInv'
  <2>1. CASE chain' = Append(chain, job) /\ s \in persistent
    <3>1. persistent' = persistent \cup {s}
      BY <1>2, <2>1
    <3> QED  BY <1>3, <1>4, <1>6, <2>1, <3>1, LastGrows DEF KeptInv
  <2>2. CASE chain' = chain /\ (s \in persistent => Token(s))
    <3>1. /\ sessions' = [sessions EXCEPT ![s] = content] /\ UNCHANGED <<chain, persistent>>
          /\ \A t \in Ids : t # s => asked'[t] = asked[t]
      BY <1>2, <1>4, <2>2 DEF Places
    <3>2. s \in persistent => content # NoSession /\ StillSeen(s)
      BY <1>1, <1>5, <1>10, <2>2 DEF NoSession
    <3> QED  BY <1>3, <1>6, <3>1, <3>2, LastStays DEF KeptInv
  <2> QED  BY <1>4, <2>1, <2>2
<1>12. StoredAsSeen'
  <2>1. \A t \in persistent' : t # s => t \in persistent
    BY <1>2
  <2>2. s \in persistent' => \/ chain' = Append(chain, job)
                             \/ /\ s \in persistent /\ StillSeen(s)
                                /\ origin'[content.head] = Birth(sessions[s])
    BY <1>1, <1>2, <1>4, <1>5, <1>10
  <2> QED  BY <1>2, <1>3, <1>4, <1>5, <2>1, <2>2, SeenByUser
<1> QED  BY <1>8, <1>9, <1>11, <1>12 DEF KeptInv

\* A session is made persistent, or removed: its job is the last of it.
LEMMA QueueHistory ==
    ASSUME NumbersInv, StoreInv, ~astray => KeptInv, NEW s \in Ids,
           EnablePersistence(s) \/ DeleteSession(s), ~astray'
    PROVE  KeptInv'
<1>1. /\ s \in Present /\ UserActs /\ UNCHANGED <<nextId, clock, origin>>
  BY DEF EnablePersistence, DeleteSession, changes
<1>2. /\ ~astray /\ up = "restored" /\ KeptInv
      /\ UNCHANGED <<up, picked, toRead, step, heads, bodies, disk, tx, removed, unsaved>>
  BY <1>1, ActsRestored
<1>3. PICK op \in {"save", "remove"}, content \in {sessions[s], NoSession} :
          /\ sessions' = [sessions EXCEPT ![s] = content]
          /\ chain' = Append(chain, Job(op, s, sessions[s]))
          /\ \/ op = "save" /\ content = sessions[s] /\ persistent' = persistent \cup {s}
             \/ op = "remove" /\ content = NoSession /\ persistent' = persistent \ {s}
  <2>1. CASE EnablePersistence(s)
    <3>1. /\ sessions' = sessions /\ sessions = [sessions EXCEPT ![s] = sessions[s]]
          /\ chain' = Append(chain, Job("save", s, sessions[s]))
          /\ persistent' = persistent \cup {s}
      BY <2>1 DEF EnablePersistence, SaveAgain, NumbersInv, TypeOK
    <3> QED  BY <3>1
  <2>2. CASE DeleteSession(s)
    <3>1. /\ sessions' = [sessions EXCEPT ![s] = NoSession]
          /\ chain' = Append(chain, Job("remove", s, sessions[s]))
          /\ persistent' = persistent \ {s}
      BY <2>2 DEF DeleteSession, RemoveInTurn
    <3> QED  BY <3>1
  <2> QED  BY <2>1, <2>2
<1> DEFINE job == Job(op, s, sessions[s])
<1>4. /\ Places(s, content, job) /\ job.op = op /\ job.id = s /\ job.content = sessions[s]
      /\ chain' = Append(chain, job)
  BY <1>3, QueuePlaces DEF Job
<1> HIDE DEF job
<1>5. /\ ~ (s >= nextId)
      /\ \A i \in 1 .. Len(chain) : chain[i].op = "remove" => chain[i].id # s
  BY <1>1, <1>2, PresentHistory
<1>6. \A t \in Ids : Known(t)' \subseteq Known(t)
  <2>1. {sessions[s].head, sessions[s].body} \subseteq Known(s) \cup {0, Partly}
    BY DEF Known, InMemory
  <2>2. {content.head, content.body, job.content.head, job.content.body} \ {0, Partly}
            \subseteq Known(s)
    BY <1>3, <1>4, <2>1 DEF NoSession
  <2> QED  BY <1>2, <1>4, <2>2, PlacesKnown
<1>7. LineInv'
  BY <1>1, <1>2, <1>6, LineShrinks DEF KeptInv
<1>8. EraInv'
  <2>1. \A t \in Ids : t >= nextId' => Known(t)' = {}
    BY <1>1, <1>2, <1>6 DEF KeptInv, EraInv
  <2> QED  BY <1>2, <2>1, EraGoesOn DEF KeptInv
<1>9. LastInv'
  <2>1. \/ job.op = "remove" /\ content = NoSession /\ persistent' = persistent \ {s}
        \/ job.op = "save" /\ content = job.content /\ persistent' = persistent \cup {s}
    BY <1>3, <1>4
  <2> QED  BY <1>2, <1>4, <1>5, <2>1, LastGrows DEF KeptInv
<1>10. StoredAsSeen'
  <2>1. /\ \A t \in persistent' : t # s => t \in persistent
        /\ \A n \in 0 .. clock : origin'[n] = origin[n]
    BY <1>1, <1>3
  <2> QED  BY <1>1, <1>2, <1>4, <2>1, SeenByUser
<1> QED  BY <1>7, <1>8, <1>9, <1>10 DEF KeptInv

-----------------------------------------------------------------------------
(***************************************************************************)
(* The restore, the restart, and all together.                             *)
(***************************************************************************)
\* Before the sessions are restored nothing is queued and no transaction is open:
\* the tables are what was committed.
LEMMA BeforeRestored ==
    ASSUME NumbersInv, StoreInv, EraInv, up # "restored"
    PROVE  /\ chain = <<>> /\ 1 .. Len(chain) = {} /\ persistent = {}
           /\ heads = disk.heads /\ bodies = disk.bodies
           /\ \A s \in Ids : /\ sessions[s] = NoSession /\ bodies[s] # Partly
                             /\ heads[s] = 0 => bodies[s] = 0
<1>1. /\ chain = <<>> /\ ~tx /\ persistent = {} /\ \A s \in Ids : sessions[s] = NoSession
  BY DEF EraInv
<1>2. heads = disk.heads /\ bodies = disk.bodies
  BY <1>1 DEF StoreInv, StepInv
<1>3. \A s \in Ids : /\ disk.bodies[s] \in Nat /\ disk.heads[s] \in Nat
                     /\ disk.bodies[s] <= clock /\ disk.bodies[s] <= disk.heads[s]
  BY DEF StoreInv, TableInv
<1>4. clock \in Nat /\ clock < Partly
  BY PersistenceAssumption DEF NumbersInv, TypeOK, Changes, Partly
<1>5. \A s \in Ids : disk.bodies[s] # Partly /\ (disk.heads[s] = 0 => disk.bodies[s] = 0)
  BY <1>3, <1>4
<1>6. 1 .. Len(chain) = {}
  <2>1. Len(chain) = 0 /\ 1 .. 0 = {}
    BY <1>1
  <2> QED  BY <2>1
<1> QED  BY <1>1, <1>2, <1>5, <1>6

\* Nothing is queued: what counts is in the tables and in memory.
LEMMA NothingQueued ==
    ASSUME NumbersInv, LineInv, UNCHANGED <<origin, removed>>,
           chain' = <<>>, persistent' \subseteq Present',
           \A s \in Ids : /\ Stored(s)' \subseteq Stored(s)
                          /\ InMemory(s)' \subseteq Stored(s) \cup InMemory(s) \cup {0}
    PROVE  LineInv' /\ LastInv' /\ \A s \in Ids : Known(s)' \subseteq Known(s)
<1>1. 1 .. Len(chain') = {}
  <2>1. Len(chain') = 0 /\ 1 .. 0 = {}
    OBVIOUS
  <2> QED  BY <2>1
<1>2. \A s \in Ids : Waiting(s)' = {}
  BY <1>1 DEF Waiting, Queued
<1>3. Partly' = Partly
  BY DEF Partly
<1>4. \A s \in Ids : Known(s)' \subseteq Known(s)
  BY <1>2, <1>3 DEF Known
<1>5. LastInv'
  BY <1>1 DEF LastInv
<1> QED  BY <1>4, <1>5, LineShrinks

LEMMA ReadingHistory ==
    ASSUME NumbersInv, StoreInv, KeptInv, ~astray,
           ListSessions \/ (\E s \in Ids : ListMessages(s)) \/ RestoreFails
    PROVE  KeptInv'
<1>1. /\ UNCHANGED <<chain, step, heads, bodies, disk, tx, clock, origin, removed, unsaved, astray>>
      /\ UNCHANGED <<sessions, persistent, nextId>>
      /\ up # "restored" /\ up' # "restored"
  BY DEF ListSessions, ListMessages, RestoreFails, Restores, tables, changes, outcome, memory
<1>2. /\ chain = <<>> /\ persistent = {} /\ ~tx
      /\ \A t \in Ids : /\ sessions[t] = NoSession /\ bodies[t] # Partly
                        /\ heads[t] = 0 => bodies[t] = 0
  BY <1>1, BeforeRestored DEF KeptInv, EraInv
<1>3. /\ up' # "reading" => \A t \in Ids : picked'[t] = NoSession
      /\ up' = "reading" => \A t \in Ids : /\ picked'[t].head = heads[t]
                                           /\ picked'[t].body = IF t \in toRead' THEN 0 ELSE bodies[t]
  <2>1. CASE ListSessions
    <3>1. /\ picked' = [t \in Ids |-> [head |-> heads[t], body |-> 0]]
          /\ toRead' = {t \in Ids : heads[t] # 0} /\ up' = "reading"
      BY <2>1 DEF ListSessions
    <3> QED  BY <1>2, <3>1
  <2>2. ASSUME NEW s \in Ids, ListMessages(s)
        PROVE  /\ up' # "reading" => \A t \in Ids : picked'[t] = NoSession
               /\ up' = "reading" =>
                      \A t \in Ids : /\ picked'[t].head = heads[t]
                                      /\ picked'[t].body = IF t \in toRead' THEN 0 ELSE bodies[t]
    <3>1. /\ picked' = [picked EXCEPT ![s].body = IF bodies[s] = Partly THEN 0 ELSE bodies[s]]
          /\ toRead' = toRead \ {s} /\ s \in toRead /\ up' = up /\ up = "reading"
      BY <2>2 DEF ListMessages
    <3>2. /\ picked' = [picked EXCEPT ![s] = [picked[s] EXCEPT !.body = bodies[s]]]
          /\ picked \in [Ids -> Contents]
      BY <1>2, <3>1 DEF NumbersInv, TypeOK
    <3>3. /\ picked'[s].head = picked[s].head /\ picked'[s].body = bodies[s]
          /\ \A t \in Ids : t # s => picked'[t] = picked[t]
      BY <3>2 DEF Contents
    <3>4. \A t \in Ids : /\ picked[t].head = heads[t]
                         /\ picked[t].body = IF t \in toRead THEN 0 ELSE bodies[t]
      BY <3>1 DEF KeptInv, EraInv
    <3> QED  BY <3>1, <3>3, <3>4
  <2>3. CASE RestoreFails
    <3>1. picked' = [t \in Ids |-> NoSession] /\ up' = "blind"
      BY <2>3 DEF RestoreFails, Forgets
    <3> QED  BY <3>1
  <2> QED  BY <2>1, <2>2, <2>3
<1>4. EraInv'
  BY <1>1, <1>2, <1>3 DEF EraInv
<1>5. LineInv' /\ LastInv'
  <2>1. \A t \in Ids : Stored(t)' = Stored(t)
    BY <1>1 DEF Stored
  <2>2. \A t \in Ids : InMemory(t)' \subseteq Stored(t) \cup InMemory(t) \cup {0}
    <3>1. \A t \in Ids : picked'[t].head \in {0, heads[t]} /\ picked'[t].body \in {0, bodies[t]}
      BY <1>3 DEF NoSession
    <3> QED  BY <1>1, <3>1 DEF InMemory, Stored
  <2> QED  BY <1>1, <1>2, <2>1, <2>2, NothingQueued DEF KeptInv
<1>6. StoredAsSeen'
  BY <1>1, <1>2 DEF StoredAsSeen
<1> QED  BY <1>4, <1>5, <1>6 DEF KeptInv

\* What is restored is what is stored, and the next id is beyond all of it.
LEMMA RestoredHistory ==
    ASSUME NumbersInv, StoreInv, KeptInv, ~astray, Restored
    PROVE  KeptInv'
<1>1. /\ UNCHANGED <<chain, step, heads, bodies, disk, tx, clock, origin, removed, unsaved, astray>>
      /\ up = "reading" /\ up' = "restored" /\ toRead = {} /\ toRead' = {}
      /\ sessions' = picked /\ picked' = [s \in Ids |-> NoSession]
      /\ persistent' = {s \in Ids : picked[s] # NoSession}
      /\ nextId' = NextIsAfter(persistent')
  BY DEF Restored, Forgets, Restores, tables, changes, outcome
<1>2. /\ chain = <<>> /\ heads = disk.heads /\ bodies = disk.bodies
      /\ \A t \in Ids : heads[t] = 0 => bodies[t] = 0
  BY <1>1, BeforeRestored DEF KeptInv
<1>3. /\ \A t \in Ids : picked[t].head = heads[t] /\ picked[t].body = bodies[t]
  BY <1>1 DEF KeptInv, EraInv
<1>4. LineInv' /\ LastInv' /\ \A t \in Ids : Known(t)' \subseteq Known(t)
  <2>1. persistent' \subseteq Present'
    BY <1>1 DEF Present
  <2>2. \A t \in Ids : Stored(t)' = Stored(t)
    BY <1>1 DEF Stored
  <2>3. \A t \in Ids : InMemory(t)' \subseteq InMemory(t) \cup {0}
    BY <1>1 DEF InMemory, NoSession
  <2> QED  BY <1>1, <1>2, <2>1, <2>2, <2>3, NothingQueued DEF KeptInv
<1>5. ASSUME NEW t \in Ids, t >= nextId' PROVE Known(t)' = {}
  <2>1. \A u \in persistent' : u < nextId'
    <3>1. persistent' \in SUBSET Ids
      BY <1>1
    <3> QED  BY <1>1, <3>1, NextIsAfterAll
  <2>2. nextId' \in Nat /\ t \in Nat
    <3>1. NextIsAfter(persistent') \in 1 .. MaxId + 1
      BY <1>1, NextIsAfterAll
    <3> QED  BY <1>1, <3>1, PersistenceAssumption DEF Ids
  <2>3. picked[t] = NoSession
    BY <1>1, <1>5, <2>1, <2>2
  <2>4. heads[t] = 0 /\ bodies[t] = 0
    BY <1>3, <2>3 DEF NoSession
  <2>5. Stored(t)' = {0}
    BY <1>1, <1>2, <2>4 DEF Stored
  <2>6. InMemory(t)' = {0}
    BY <1>1, <2>3 DEF InMemory, NoSession
  <2>7. Waiting(t)' = {}
    <3>1. 1 .. Len(chain') = {}
      BY <1>1, BeforeRestored DEF KeptInv
    <3> QED  BY <3>1 DEF Waiting, Queued
  <2> QED  BY <2>5, <2>6, <2>7 DEF Known
<1>6. EraInv'
  BY <1>1, <1>5 DEF EraInv
<1>7. StoredAsSeen'
  <2>1. picked \in [Ids -> Contents]
    BY DEF NumbersInv, TypeOK
  <2>2. \A t \in Ids : picked[t] = [head |-> disk.heads[t], body |-> disk.bodies[t]]
    BY <1>2, <1>3, <2>1 DEF Contents
  <2>3. \A t \in persistent' : t \in Ids /\ OnDisk(t)' = sessions'[t]
    BY <1>1, <2>2 DEF OnDisk
  <2> QED  BY <2>3 DEF StoredAsSeen, Seen
<1> QED  BY <1>4, <1>6, <1>7 DEF KeptInv

LEMMA RestartHistory ==
    ASSUME NumbersInv, StoreInv, KeptInv, Restart
    PROVE  KeptInv'
<1>1. /\ up' = "starting" /\ persistent' = {} /\ tx' = FALSE /\ chain' = <<>>
      /\ picked' = [s \in Ids |-> NoSession] /\ sessions' = [s \in Ids |-> NoSession]
      /\ heads' = disk.heads /\ bodies' = disk.bodies
      /\ UNCHANGED <<origin, disk, removed, astray>>
  BY DEF Restart, Forgets, changes
<1>2. LineInv' /\ LastInv'
  <2>1. \A s \in Ids : Stored(s)' \subseteq Stored(s)
    BY <1>1 DEF Stored
  <2>2. \A s \in Ids : InMemory(s)' = {0}
    BY <1>1 DEF InMemory, NoSession
  <2> QED  BY <1>1, <2>1, <2>2, NothingQueued DEF KeptInv
<1>3. EraInv'
  BY <1>1 DEF EraInv
<1>4. StoredAsSeen'
  BY <1>1 DEF StoredAsSeen
<1> QED  BY <1>2, <1>3, <1>4 DEF KeptInv

LEMMA HistoryInit == Init => HistoryInv
<1> SUFFICES ASSUME Init PROVE HistoryInv
  OBVIOUS
<1>1. /\ chain = <<>> /\ persistent = {} /\ tx = FALSE /\ up = "starting" /\ removed = {}
      /\ sessions = [s \in Ids |-> NoSession] /\ picked = [s \in Ids |-> NoSession]
      /\ heads = Empty /\ bodies = Empty /\ disk = [heads |-> Empty, bodies |-> Empty]
  BY DEF Init
<1>2. 1 .. Len(chain) = {}
  <2>1. Len(chain) = 0 /\ 1 .. 0 = {}
    BY <1>1
  <2> QED  BY <2>1
<1>3. \A s \in Ids : Known(s) = {}
  <2>1. \A s \in Ids : Waiting(s) = {}
    BY <1>2 DEF Waiting, Queued
  <2>2. \A s \in Ids : Stored(s) = {0}
    BY <1>1 DEF Stored, Empty
  <2>3. \A s \in Ids : InMemory(s) = {0}
    BY <1>1 DEF InMemory, NoSession
  <2> QED  BY <2>1, <2>2, <2>3 DEF Known
<1>4. LineInv
  BY <1>3 DEF LineInv
<1>5. EraInv
  BY <1>1 DEF EraInv
<1>6. LastInv /\ StoredAsSeen
  BY <1>1, <1>2 DEF LastInv, StoredAsSeen
<1> QED  BY <1>4, <1>5, <1>6, NumbersInit DEF HistoryInv, KeptInv

LEMMA HistoryStep == HistoryInv /\ StoreInv /\ [Next]_vars => HistoryInv'
<1> SUFFICES ASSUME HistoryInv, StoreInv, [Next]_vars, ~astray' PROVE KeptInv'
  BY NumbersStep DEF HistoryInv
<1>0. NumbersInv /\ (~astray => KeptInv)
  BY DEF HistoryInv
<1>1. CASE NewSession
  BY <1>0, <1>1, NewSessionHistory
<1>2. ASSUME NEW s \in Ids, Replacing(s) \/ EnablePersistence(s) \/ DeleteSession(s)
      PROVE  KeptInv'
  BY <1>0, <1>2, ReplacingHistory, QueueHistory
<1>3. CASE Chain
  <2>1. ~astray /\ KeptInv
    BY <1>0, <1>3 DEF Chain, Works, Update, Insert, Begin, Delete, ClearMessages, AddMessages,
                      Commit, Rollback, StatementFails, RollbackFails, Goes, Fails, Callback
  <2> QED  BY <1>0, <1>3, <2>1, WritesHistory, CommitHistory, FailureHistory DEF Chain, Works
<1>4. CASE ListSessions \/ (\E s \in Ids : ListMessages(s)) \/ RestoreFails
  <2>1. ~astray /\ KeptInv
    BY <1>0, <1>4 DEF ListSessions, ListMessages, RestoreFails, Restores
  <2> QED  BY <1>0, <1>4, <2>1, ReadingHistory
<1>5. CASE Restored
  <2>1. ~astray /\ KeptInv
    BY <1>0, <1>5 DEF Restored, Restores
  <2> QED  BY <1>0, <1>5, <2>1, RestoredHistory
<1>6. CASE Restart
  <2>1. KeptInv
    BY <1>0, <1>6 DEF Restart
  <2> QED  BY <1>0, <1>6, <2>1, RestartHistory
<1>7. CASE UNCHANGED vars
  <2>1. /\ UNCHANGED <<sessions, persistent, nextId, asked, origin, up, picked, toRead, chain, astray>>
        /\ UNCHANGED <<heads, bodies, disk, tx, removed, unsaved>>
    BY <1>7 DEF vars, memory, changes, restore, tables, outcome
  <2>2. \A s \in Ids : Known(s)' = Known(s)
    BY <2>1 DEF Known, Stored, InMemory, Waiting, Queued, Partly
  <2>3. KeptInv
    BY <1>0, <2>1
  <2>4. LineInv' /\ EraInv'
    BY <2>1, <2>2, <2>3 DEF KeptInv, LineInv, EraInv
  <2>5. LastInv' /\ StoredAsSeen'
    BY <2>1, <2>3 DEF KeptInv, LastInv, Last, Present, StoredAsSeen, Birth, Seen, OnDisk
  <2> QED  BY <2>4, <2>5 DEF KeptInv
<1> QED  BY <1>1, <1>2, <1>3, <1>4, <1>5, <1>6, <1>7 DEF Next, Replacing

LEMMA HistoryAlways == Spec => []HistoryInv
<1> QED  BY StoreAlways, HistoryInit, HistoryStep, PTL DEF Spec

\* Neither a save that was queued before, nor a restart that gives its id again,
\* nor any failure of a statement brings a removed session back, as long as the
\* user acts with the stored sessions in memory.
THEOREM RemovedStaysRemoved == Spec => []RemovedForGood
<1>1. HistoryInv /\ StoreInv => RemovedForGood
  <2> SUFFICES ASSUME NumbersInv, StoreInv, KeptInv
               PROVE  /\ \A s \in Ids : {origin[disk.heads[s]], origin[disk.bodies[s]],
                                Birth(sessions[s]), Birth(picked[s])} \cap removed = {}
                      /\ \A i \in 1 .. Len(chain) : Birth(chain[i].content) \notin removed
    BY DEF HistoryInv, RemovedForGood
  <2>1. origin[0] \notin removed
    BY DEF NumbersInv, OriginInv
  <2>2. ASSUME NEW s \in Ids, NEW n \in Known(s) \cup {0} PROVE origin[n] \notin removed
    BY <2>1 DEF KeptInv, LineInv
  <2>3. clock \in Nat /\ Partly \in Nat /\ clock < Partly
    BY PersistenceAssumption DEF NumbersInv, TypeOK, Changes, Partly
  <2>4. ASSUME NEW s \in Ids
        PROVE  {disk.heads[s], disk.bodies[s], sessions[s].head, picked[s].head} \subseteq Known(s) \cup {0}
    <3>1. /\ disk.heads[s] <= clock /\ sessions[s].head <= clock /\ picked[s].head <= clock
      BY DEF NumbersInv, OriginInv
    <3>2. disk.bodies[s] <= clock
      BY DEF StoreInv, TableInv
    <3>3. Partly \notin {disk.heads[s], disk.bodies[s], sessions[s].head, picked[s].head}
      BY <2>3, <3>1, <3>2
    <3> QED  BY <3>3 DEF Known, Stored, InMemory
  <2>5. ASSUME NEW i \in 1 .. Len(chain) PROVE Birth(chain[i].content) \notin removed
    <3>1. chain[i].id \in Ids /\ chain[i].content.head \in 1 .. clock
      <4>1. chain \in Seq(Entries)
        BY DEF NumbersInv, TypeOK, Entries
      <4>2. chain[i] \in Entries
        BY <4>1
      <4> QED  BY <4>2 DEF Entries, NumbersInv, OriginInv
    <3>2. chain[i].content.head \in Waiting(chain[i].id)
      BY DEF Waiting, Queued
    <3>3. chain[i].content.head # Partly
      BY <2>3, <3>1
    <3> QED  BY <2>2, <3>1, <3>2, <3>3 DEF Known, Birth
  <2> QED  BY <2>2, <2>4, <2>5 DEF Birth
<1> QED  BY <1>1, HistoryAlways, StoreAlways, PTL

\* A persistent session of which no job waits and whose last job did not fail is
\* in the database as the user sees it.
THEOREM AlwaysStoredAsSeen == Spec => []StoredAsSeen
<1>1. HistoryInv => StoredAsSeen
  BY DEF HistoryInv, KeptInv, StoredAsSeen
<1> QED  BY <1>1, HistoryAlways, PTL
=============================================================================
