------------------------- MODULE SessionPersistence -------------------------
(***************************************************************************)
(* How sessions survive a restart.  InferenceService keeps them in memory  *)
(* and queues every save and every removal on one chain of promises        *)
(* (persistChain); SessionStore carries them out statement by statement,   *)
(* where each may fail and the process may die; restoreSessions reads the  *)
(* sessions back at the start, while the pages are already there.          *)
(*                                                                         *)
(* Changes to sessions are numbered.  A session has a head (title, pin and *)
(* totals, kept in table session) and a body (its messages, in table       *)
(* message): each is known by the change that made it, and every change by *)
(* the birth of its session, for ids are given again.  The database is one *)
(* SQL connection: a statement outside a transaction commits, and an open  *)
(* transaction dies with the process.                                      *)
(***************************************************************************)
EXTENDS Naturals, Sequences, FiniteSets

CONSTANTS
    MaxId,          \* bound: session ids
    MaxChanges,     \* bound: births of sessions and changes to them
    MaxAstray       \* bound: the same once the user has gone astray

ASSUME PersistenceAssumption == MaxId \in Nat /\ MaxChanges \in Nat /\ MaxAstray \in Nat

VARIABLES
    up,             \* how far the restore is, "blind" when it has failed
    sessions,       \* state.sessions by id, NoSession where there is none
    persistent,     \* ids of the sessions that are to be stored
    nextId,         \* nextSessionId
    asked,          \* the change that asked for the answer under way, else 0
    picked, toRead, \* what restoreSessions has collected, and what is left
    chain,          \* persistChain: its head is the callback that runs,
    step,           \* and this is where it is
    heads, bodies,  \* the tables as the connection sees them
    disk,           \* the tables as last committed
    tx,             \* a transaction is open
    clock, origin,  \* number of changes, and the birth each belongs to
    removed,        \* births whose removal was committed
    unsaved,        \* births whose last job failed
    astray          \* the user acted without the stored sessions in memory

memory  == <<sessions, persistent, nextId, asked>>
changes == <<clock, origin>>
restore == <<up, picked, toRead>>
tables  == <<heads, bodies, disk, tx>>
outcome == <<removed, unsaved>>
vars    == <<memory, changes, restore, chain, step, tables, outcome, astray>>

Ids       == 1 .. MaxId
Changes   == 0 .. MaxChanges            \* 0 is none
Partly    == MaxChanges + 1             \* a body that is being replaced
NoSession == [head |-> 0, body |-> 0]
Empty     == [s \in Ids |-> 0]
Present   == {s \in Ids : sessions[s] # NoSession}

Job(op, s, content) == [op |-> op, id |-> s, content |-> content]
Birth(content)      == origin[content.head]
Now                 == chain[1]

Init ==
    /\ up = "starting"
    /\ sessions = [s \in Ids |-> NoSession] /\ persistent = {} /\ nextId = 1
    /\ asked = Empty
    /\ picked = [s \in Ids |-> NoSession] /\ toRead = {}
    /\ chain = <<>> /\ step = "ready"
    /\ heads = Empty /\ bodies = Empty
    /\ disk = [heads |-> Empty, bodies |-> Empty] /\ tx = FALSE
    /\ clock = 0 /\ origin = [n \in Changes |-> 0]
    /\ removed = {} /\ unsaved = {} /\ astray = FALSE

-----------------------------------------------------------------------------
\* What the user does: each is one call, whose job runs later.

\* The user acts, or has acted, without the stored sessions in memory.
GoesAstray == astray \/ up # "restored"

\* The next change, to the session of this birth.
Changed(birth) ==
    /\ clock < MaxChanges /\ (GoesAstray => clock < MaxAstray)
    /\ clock' = clock + 1
    /\ origin' = [origin EXCEPT ![clock + 1] = birth]

UserActs ==
    /\ astray' = GoesAstray
    /\ UNCHANGED <<restore, step, tables, outcome>>

\* Bug: a save that finds one of its session waiting is left out.
SaveOnce(job) ==
    IF \E i \in 2 .. Len(chain) : chain[i].op = "save" /\ chain[i].id = job.id
    THEN chain ELSE Append(chain, job)
SaveAgain(job) == Append(chain, job)

\* Bug: a removal runs as soon as the callback that runs has ended.
RemoveFirst(job) ==
    IF chain = <<>> THEN <<job>> ELSE <<Head(chain), job>> \o Tail(chain)
RemoveInTurn(job) == Append(chain, job)

NewSession ==
    /\ nextId \in Ids /\ Changed(clock + 1)
    /\ sessions' = [sessions EXCEPT ![nextId] = [head |-> clock + 1, body |-> clock + 1]]
    /\ nextId' = nextId + 1
    /\ UserActs /\ UNCHANGED <<persistent, asked, chain>>

\* replaceSession, which puts a new head and this body in the place of a session.
Replaces(s, body) ==
    /\ s \in Present /\ Changed(Birth(sessions[s]))
    /\ sessions' = [sessions EXCEPT ![s] = [head |-> clock + 1, body |-> body]]
    /\ UserActs /\ UNCHANGED <<persistent, nextId>>

\* Its persist: what the session is now is queued, half an answer included.
Persists(s) ==
    chain' = IF s \in persistent THEN SaveAgain(Job("save", s, sessions'[s])) ELSE chain

\* The title, the pin, the status or the id of the request.
Change(s) ==
    /\ Replaces(s, sessions[s].body) /\ Persists(s) /\ UNCHANGED asked

\* The question and an empty answer; one at a time (status queued or running).
Generate(s) ==
    /\ asked[s] = 0 /\ asked' = [asked EXCEPT ![s] = clock + 1]
    /\ Replaces(s, clock + 1) /\ Persists(s)

\* onGenerateEvent, "token": the text and updatedAt change, and persist is FALSE.
Token(s) ==
    /\ asked[s] # 0
    /\ Replaces(s, clock + 1) /\ UNCHANGED <<asked, chain>>

\* The final event, failGeneration, a stop while queued: the totals or the status
\* change, and the messages where there is an error to show.
Ends(s) ==
    /\ asked[s] # 0 /\ asked' = [asked EXCEPT ![s] = 0]
    /\ \E body \in {sessions[s].body, clock + 1} : Replaces(s, body) /\ Persists(s)

EnablePersistence(s) ==
    /\ s \in Present \ persistent
    /\ persistent' = persistent \cup {s}
    /\ chain' = SaveAgain(Job("save", s, sessions[s]))
    /\ UserActs /\ UNCHANGED <<sessions, nextId, asked, changes>>

\* The removal is queued for a session that was never stored as well.  The events
\* of an answer under way find no session any more.
DeleteSession(s) ==
    /\ s \in Present
    /\ sessions' = [sessions EXCEPT ![s] = NoSession]
    /\ persistent' = persistent \ {s} /\ asked' = [asked EXCEPT ![s] = 0]
    /\ chain' = RemoveInTurn(Job("remove", s, sessions[s]))
    /\ UserActs /\ UNCHANGED <<nextId, changes>>

-----------------------------------------------------------------------------
\* The callbacks of the chain.

Runs(op, from) == chain # <<>> /\ Now.op = op /\ step = from
Callback       == UNCHANGED <<memory, changes, restore, astray>>

\* A statement is durable at once unless a transaction is open.
Writes(newHeads, newBodies) ==
    /\ heads' = newHeads /\ bodies' = newBodies
    /\ disk' = IF tx THEN disk ELSE [heads |-> newHeads, bodies |-> newBodies]
    /\ UNCHANGED tx

Goes(to) == step' = to /\ UNCHANGED <<chain, outcome>> /\ Callback

\* Bug: nobody catches the error, and what follows on the chain never runs.
StaysRejected == "rejected"
RunsTheNext   == "ready"

Fails ==
    /\ chain' = Tail(chain) /\ step' = RunsTheNext
    /\ unsaved' = unsaved \cup {Birth(Now.content)}
    /\ UNCHANGED removed /\ Callback

\* saveSession: UPDATE, and INSERT when there was no such row.
Update ==
    /\ Runs("save", "ready")
    /\ IF heads[Now.id] = 0 THEN Goes("insert") /\ UNCHANGED tables
       ELSE Goes("begin") /\ Writes([heads EXCEPT ![Now.id] = Now.content.head], bodies)

Insert ==
    /\ Runs("save", "insert")
    /\ Writes([heads EXCEPT ![Now.id] = Now.content.head], bodies)
    /\ Goes("begin")

\* Bug: the statements that follow are not grouped.
EachByItself == FALSE
AsOne        == TRUE

\* replaceMessages and deleteSession: SQL refuses a transaction within another.
Begin ==
    /\ Runs("save", "begin") \/ Runs("remove", "ready")
    /\ ~tx /\ tx' = AsOne
    /\ Goes(IF Now.op = "save" THEN "clear" ELSE "delete")
    /\ UNCHANGED <<heads, bodies, disk>>

Delete ==
    /\ Runs("remove", "delete")
    /\ Writes([heads EXCEPT ![Now.id] = 0], bodies)
    /\ Goes("clear")

ClearMessages ==
    /\ chain # <<>> /\ step = "clear"
    /\ IF Now.op = "save"
       THEN Writes(heads, [bodies EXCEPT ![Now.id] = Partly]) /\ Goes("add")
       ELSE Writes(heads, [bodies EXCEPT ![Now.id] = 0]) /\ Goes("commit")

AddMessages ==
    /\ Runs("save", "add")
    /\ Writes(heads, [bodies EXCEPT ![Now.id] = Now.content.body])
    /\ Goes("commit")

Commit ==
    /\ chain # <<>> /\ step = "commit"
    /\ tx' = FALSE /\ disk' = [heads |-> heads, bodies |-> bodies]
    /\ chain' = Tail(chain) /\ step' = "ready"
    /\ unsaved' = unsaved \ {Birth(Now.content)}
    /\ removed' = IF Now.op = "remove" THEN removed \cup {Birth(Now.content)} ELSE removed
    /\ Callback /\ UNCHANGED <<heads, bodies>>

\* A statement fails, BEGIN for one because a transaction is open.
StatementFails ==
    /\ chain # <<>>
    /\ IF step \in {"ready", "insert", "begin"} THEN Fails
       ELSE step \in {"delete", "clear", "add", "commit"} /\ Goes("rollback")
    /\ UNCHANGED tables

Rollback ==
    /\ chain # <<>> /\ step = "rollback"
    /\ heads' = disk.heads /\ bodies' = disk.bodies /\ tx' = FALSE
    /\ Fails /\ UNCHANGED disk

\* The error is dropped, and the transaction stays open.
RollbackFails ==
    /\ chain # <<>> /\ step = "rollback"
    /\ Fails /\ UNCHANGED tables

Works == Update \/ Insert \/ Begin \/ Delete \/ ClearMessages \/ AddMessages \/ Commit
           \/ Rollback
Chain == Works \/ StatementFails \/ RollbackFails

-----------------------------------------------------------------------------
\* restoreSessions, whose reads interleave with the user and the chain.

Restores == UNCHANGED <<chain, step, tables, changes, outcome, astray>>
Forgets  == picked' = [s \in Ids |-> NoSession] /\ toRead' = {}

ListSessions ==
    /\ up = "starting" /\ up' = "reading"
    /\ picked' = [s \in Ids |-> [head |-> heads[s], body |-> 0]]
    /\ toRead' = {s \in Ids : heads[s] # 0}
    /\ Restores /\ UNCHANGED memory

\* While a body is being replaced some of it is read, or nothing: 0 as well.
ListMessages(s) ==
    /\ up = "reading" /\ s \in toRead
    /\ picked' = [picked EXCEPT ![s].body = IF bodies[s] = Partly THEN 0 ELSE bodies[s]]
    /\ toRead' = toRead \ {s}
    /\ Restores /\ UNCHANGED <<up, memory>>

\* The id after the greatest one.
NextIsAfter(ids) ==
    CHOOSE n \in 1 .. MaxId + 1 : (\A s \in ids : s < n) /\ (n = 1 \/ n - 1 \in ids)

Restored ==
    /\ up = "reading" /\ toRead = {} /\ up' = "restored"
    /\ sessions' = picked /\ asked' = Empty
    /\ persistent' = {s \in Ids : picked[s] # NoSession}
    /\ nextId' = NextIsAfter(persistent')
    /\ Forgets /\ Restores

\* The settings or the sessions cannot be read: the error is logged.
RestoreFails ==
    /\ up \in {"starting", "reading"} /\ up' = "blind"
    /\ Forgets /\ Restores /\ UNCHANGED memory

\* The process dies and is started again.
Restart ==
    /\ up' = "starting" /\ Forgets
    /\ sessions' = [s \in Ids |-> NoSession] /\ persistent' = {} /\ nextId' = 1
    /\ asked' = Empty
    /\ chain' = <<>> /\ step' = "ready"
    /\ heads' = disk.heads /\ bodies' = disk.bodies /\ tx' = FALSE
    /\ unsaved' = {}
    /\ UNCHANGED <<changes, disk, removed, astray>>

-----------------------------------------------------------------------------
Next ==
    \/ NewSession
    \/ \E s \in Ids : \/ Change(s) \/ Generate(s) \/ Token(s) \/ Ends(s)
                     \/ EnablePersistence(s) \/ DeleteSession(s)
    \/ Chain
    \/ ListSessions \/ (\E s \in Ids : ListMessages(s)) \/ Restored \/ RestoreFails
    \/ Restart

\* Promises are settled and their callbacks run.
Fairness == WF_vars(Chain)
Spec == Init /\ [][Next]_vars /\ Fairness

-----------------------------------------------------------------------------
Contents == [head : Changes, body : Changes]
Tables   == [Ids -> Changes \cup {Partly}]

\* Every variable holds a value of its type.
TypeOK ==
    /\ up \in {"starting", "reading", "restored", "blind"}
    /\ sessions \in [Ids -> Contents] /\ persistent \subseteq Ids
    /\ nextId \in 1 .. MaxId + 1 /\ asked \in [Ids -> Changes]
    /\ picked \in [Ids -> Contents] /\ toRead \subseteq Ids
    /\ chain \in Seq([op : {"save", "remove"}, id : Ids, content : Contents])
    /\ step \in {"ready", "insert", "begin", "delete", "clear", "add", "commit", "rollback"}
    /\ heads \in Tables /\ bodies \in Tables
    /\ disk \in [heads : Tables, bodies : Tables] /\ tx \in BOOLEAN
    /\ clock \in Changes /\ origin \in [Changes -> Changes]
    /\ removed \subseteq Changes /\ unsaved \subseteq Changes /\ astray \in BOOLEAN

\* Wherever the process dies and whichever statements fail, also after a failed
\* ROLLBACK: the stored messages of a session are those of one moment, never a
\* part, never without a row in table session, and never newer than that row
\* (InferenceService.ets:715-736, SessionStore.ets:281-306).
StoredWhole ==
    \A s \in Ids : disk.bodies[s] # Partly /\ disk.bodies[s] <= disk.heads[s]

\* A removal that was committed is final: neither a save that was queued before
\* it nor a restart brings the session back (InferenceService.ets:747-753), unless
\* the user acted without the stored sessions in memory.
RemovedForGood ==
    ~astray =>
        /\ \A s \in Ids : {origin[disk.heads[s]], origin[disk.bodies[s]],
                           Birth(sessions[s]), Birth(picked[s])} \cap removed = {}
        /\ \A i \in 1 .. Len(chain) :
               Birth(chain[i].content) \in removed => chain[i].op = "remove"

OnDisk(s) == [head |-> disk.heads[s], body |-> disk.bodies[s]]

\* What the user sees of a session, or, while an answer is under way, what the
\* user saw of it at some moment since the question.
Seen(s, content) ==
    \/ content = sessions[s]
    \/ /\ asked[s] # 0
       /\ content.head \in asked[s] .. sessions[s].head
       /\ content.body \in asked[s] .. sessions[s].body

\* A persistent session with no job waiting whose last job did not fail is
\* stored as the user sees it, head and body, and all of it its own.  While an
\* answer is under way its text is saved by chance only, with another change
\* (InferenceService.ets:456): then the question is stored, and nothing newer than
\* what is shown; and when the answer ends, all of it.
StoredAsSeen ==
    ~astray =>
        \A s \in persistent :
            \/ \E i \in 1 .. Len(chain) : chain[i].id = s
            \/ Birth(sessions[s]) \in unsaved
            \/ Seen(s, OnDisk(s))

\* A job that fails stops none of those behind it: the chain runs empty again and
\* again (InferenceService.ets:737, 750).
ChainGoesOn == []<>(chain = <<>>)
=============================================================================
