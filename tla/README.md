# Harmony GGUF: a verification project

TLA+ models of the program in `src/`, a HarmonyOS application that runs GGUF
language models on the device. It has a chat interface in ArkTS, a native engine
around llama.cpp, and an OpenAI-compatible HTTP server over the same engine.

Paths below are relative to `src/entry/src/main/`.

* [1. The system](#1-the-system) – components, state, interactions, hazards
* [2. Modules](#2-modules) – what is modelled and how it corresponds to the code
* [3. Runs](#3-runs) – what TLC checks, bounds, fairness
* [4. Theorems](#4-theorems) – what TLAPS proves, and along which argument
* [5. Findings](#5-findings) – where the code does not do what is said of it
* [6. Limits](#6-limits) – abstractions, and what is not modelled
* [7. Plan](#7-plan) – the modules to come

## 1. The system

```
  ChatPage, SessionList …     ServePage        ModelRegistryPage
        |                        |                   |
  InferenceService           ServeService        ModelService      one UI thread,
   (session queue)               |                   |             awaits interleave
        |   \                    |                ModelStore
        |    SessionStore        |
  ------+------------------------+------------ NAPI: generate, stop, load … ------
        |                        |
  generate_napi: a worker    HttpServer: httplib threads, a worker
  thread per request         thread per request
        |                        |
        +------- EngineState: slot pools, sessions, load, unload -------+
                                 |
                   RunGeneration (one sequence slot)
                                 |
                      llama.cpp: one context, one KV buffer
```

### Components

**Engine state** (`cpp/napi/engine_state.{h,cpp}`, `conversation_slots.h`,
`request_slot.h`). *State:* the loaded model and context, four parallel tables
over the sequence slots (used, owner, recency, cached tokens) in two pools, one
for the UI and one for the server, the registered requests with their stop flags, the
count of active requests, and `stop_all_` with its pending-clear mark.
*Operations:* `BeginGenerate`, `BeginGenerateBlocking`, `EndGenerate`,
`RequestStop`, `RequestStopAll`, `DeleteConversation`, `LoadModel`,
`UnloadModel`, `NotifySlotWaiters`. *Hard:* six mutexes and several atomics, none
of which covers a whole operation; `BeginGenerate` takes a slot in one section,
commits in another and cleans the slot in a third; a load must drain everybody
and keep everybody out. *Correct when:* no two requests share a slot; nobody loses
the model it uses; no conversation sees another's KV; every stop reaches every
request; loads return; a queued request is woken.

**Generation worker and prompt cache** (`cpp/napi/llama_inference.cpp`,
`prompt_cache.h`). *State:* the KV cells of the sequence, the cached tokens of the
slot, the window, the next position. *Operations:* fit the prompt, reuse a
prefix, prefill, sample and decode, slide or rebuild a full window, images.
*Hard:* each llama call may fail, a stop may come before each batch and each
token, and cells that were shifted are not the cells a prefill computes. *Correct
when:* what `cached_tokens_` promises is what the KV cache holds, no position
beyond the slot is used, window and KV memory agree, the first and the latest tokens
survive.

**NAPI bridge** (`cpp/napi/generate_napi.cpp`, `model_napi.cpp`,
`serve_napi.cpp`). Starts a worker per `generate`, batches its tokens, delivers
events through a thread-safe function, ends the request on each error path, twice
on some of them. Load and unload run as asynchronous work; both stop the HTTP
server first. *Correct when:* every request that began ends once, and events
arrive in order, the final one last.

**HTTP server** (`cpp/serve/http_server.cpp`). *State:* `running_`, `stopping_`, the
listening socket, the thread of the server, per request a channel between the worker
and the response. *Operations:* `Start`, `Stop`, one handler per request. *Hard:*
`Start` from the UI thread and `Stop` from that and from the thread that unloads a model, a
listener that may end by itself, a client that disconnects while the
worker writes, 50 ms batches, detached workers. *Correct when:* no handler runs on a server that
was deleted, a stop leaves no worker behind, text is neither lost nor reordered, every request is
answered or its connection closed.

**Session queue** (`ets/service/InferenceService.ets`). *State:* the chat
sessions with their statuses, a queue of waiting sessions, the number of running
ones, a retry timer, the loaded configuration. *Operations:* send, stop, delete,
load, unload, events of the native side. Single-threaded, but every await and
every event is a switch. *Correct when:* a queued session eventually runs, at
most `parallel` run, a deleted session is not revived, a model switch does not
strand the queue.

**Session persistence** (`ets/service/SessionStore.ets` and `persistSession` in
`InferenceService.ets`). *State:* the sessions in memory, two tables of a database,
a chain of promises that writes them. *Operations:* save, remove, restore. *Hard:* each
statement may fail, also a `ROLLBACK`, the process may die between any two, and the pages
are there before the restore is. *Correct when:* the messages stored are those of one moment, a
removed session stays away, what was saved is what the user sees.

**Model registry** (`ets/service/ModelService.ets`, `ModelStore.ets`,
`ModelTasks.ets`). An index of models as parallel preference lists, imported files,
projector links. *Correct when:* two overlapping operations do not lose one of two
updates, and a deleted model leaves no dangling link.

**Serve service** (`ServeService.ets`), **settings** (`SettingsService.ets`,
`SettingsStore.ets`), **pages and components**, **call guide**: thin callers,
independent values, layout.

**llama.cpp, ggml, mtmd** and the other vendored libraries: used, not verified.

### Interactions

* The UI thread calls `BeginGenerate` synchronously; it never waits for a slot. An
  HTTP handler calls `BeginGenerateBlocking` and sleeps on `slot_cv_`.
* The worker of either kind runs `RunGeneration` and calls `EndGenerate`, which frees
  the slot, wakes one sleeper, and tells `gen_cv_` when it was the last.
* `LoadModel` and `UnloadModel`, one at a time under `model_op_mutex_`, set
  `stop_all_`, wait on `gen_cv_` until `active_count_` is 0, free everything and
  publish the new model and tables in separate sections.
* `stopAllGenerations` uses the same `stop_all_` with a mark that asks the last
  request out to clear it.
* The UI pool and the Serve pool share `slot_used_` and the KV buffer, of which each
  slot counts on its share.

### Hazards

`PROJECT.json` lists the hazards at their lines, each with the properties that
would catch it, or a note. They fall in five groups:

1. state read in one critical section and used in a later one (the slot index, the
   owner of a slot, `stop_all_`, the session table that is erased before the work ends);
2. partial failure (refused commits, refused or failed decodes, refused removals from
   the memory, double ends);
3. wakeups, drains and queues (one `notify_one` per slot, `gen_cv_` without a
   timeout, an endless wait whose deadline overflows, a mark that two users share);
4. boundaries (a full window, a wholly cached prompt, ties of recency);
5. the asynchronous ArkTS services (retries, deletion while running, saves racing
   deletes, read-modify-write across awaits): the queue and the session store are modelled, the model registry is not.

## 2. Modules

| module | models | kind |
| --- | --- | --- |
| `ConversationSlots` | `conversation_slots.h` | pure operators |
| `EngineState` | `engine_state.cpp`, the parts of its callers that touch it | state machine |
| `ModelLease` | what the engine promises of its model | abstract specification |
| `Generation` | `llama_inference.cpp`, `prompt_cache.h`, the memory of one sequence | state machine |
| `TokenChannel` | the worker of a request, `GenerateChannel`, the batches of `generate_napi.cpp` | actions, used by `Serving` |
| `Serving` | `HttpServer`, its handlers, `generate` of the UI and its events | state machine |
| `TokenStream` | what a generation promises the one who asked for it | abstract specification |
| `SessionQueue` | `InferenceService.ets`, the engine as it sees it | state machine |
| `SessionPersistence` | `SessionStore.ets` and its callers in `InferenceService.ets` | state machine |
| `EngineStateProofs`, `EngineCacheProofs` | theorems about the engine, and about whose tokens it holds | proofs |
| `GenerationProofs`, `GenerationCacheProofs` | theorems about the room a run needs, and about what cells, cache and window hold | proofs |
| `ServingProofs`, `SessionQueueProofs` | theorems about the server and its streams, and about the queue | proofs |
| `SessionPersistenceProofs`, `SessionHistoryProofs` | theorems about what is stored, and about what becomes of it | proofs |
| `MCEngineState`, `MCGeneration`, `MCServing`, `MCSessionQueue`, `MCSessionPersistence` | symmetry and instances for TLC | model checking |

Definitions whose comment begins with "Bug" are not part of a specification: each is
a faulty form of the definition beside it, which the mutation runs put in its
place, to show that a property would notice.

### EngineState

**Granularity.** One action is one critical section, or one store to an atomic
made outside every lock. Between two actions of a thread any other thread may
act. Three sections need a word:

* `CommitGenerate` holds `mutex_` while it tests and while it registers, but `stop_all_` and
  the session flags are written without `mutex_` in between. So it is two actions,
  `CommitCheck` and `CommitRegister`, and the variable `lifecycle` holds the mutex
  across them.
* `RequestStopAll` is five steps: the two stores, the flags under
  `sessions_mutex_`, the notification under `slot_mutex_`, and, only when it is to
  clear, the test of `active_count_`. Loads run the first four of them as the
  thread `Op`.
* The two stores that clear `stop_all_` and its mark inside a `mutex_` section
  (`LeaveActive`, `StopAllSettle`) are one step; the two stores of `ClearStopAll`,
  outside every lock, are two steps (`ResumeStopAll`, `ResumeMode`).

**State.** The tables of slots are functions over all slots the largest load could
make; `n_slots` says how many exist per pool, and the UI pool is the lower half.
`cached` and `kv` say *whose* tokens a sequence holds, which is what the properties of this
module tell apart; `Generation` says which tokens. Each request has a program
counter; `bound` is a ghost, the load whose model it was registered under.

**Correspondence.**

| code | actions |
| --- | --- |
| `BeginGenerate` | `BeginGenerate`, `CommitCheck`, `CommitRegister` or `ReleaseUnusedSlot`, `ClearOnReset` |
| `BeginGenerateBlocking` | `BlockingEval` until it takes a slot or gives up, then as above |
| `Generate`, the worker | `StartWorker`, `Prefill`, `FinishRun` with their failing branches |
| `EndGenerate`, `ReleaseSlot` | `EraseSession`, `CleanSlot`, `FreeSlot`, `LeaveActive`; once more `EraseSession` for a `guarded` request |
| `RequestStop`, `DeleteConversation` | the actions of those names |
| `RequestStopAll` | `StopAllBegin`, `StopAllMode`, `StopAllFlags`, `StopAllNotify`, `StopAllSettle` |
| `LoadModel` | `LoadModel`, the stop-all steps of `Op`, `FreeModel`, `ClearTables`, `ClearSessions`, `LoadFails` or `PublishModel` and `PublishTables`, `ResumeStopAll`, `ResumeMode` |
| `UnloadModel` | `UnloadModel`, the same drain and clearing, `ResumeStopAll`, `ResumeMode` |
| `HttpServer::Stop` | `ServerStop`, `NotifySlotWaiters` |

A `generate` that fails after its request has begun calls `EndGenerate` itself, and then its
`RequestSlotGuard` does. `guarded` are the requests with such a guard; they go through `EraseSession` a second
time, from the program counter `guard`, where they must find no session and return at once. The UI thread is busy until then.

The wait of `BeginGenerateBlocking` has the deadline `now + milliseconds::max()`, which overflows. What that gives is not defined,
so `BlockingEval` leaves it open, each time the wait is entered, whether it sleeps without a timeout or is over at once (`SleepOrTimeOut`).
What holds, holds either way.

`notify_one` wakes any one of the sleepers and `notify_all` all of them; a woken
handler evaluates the predicate again, when it gets the mutex, which may be after
somebody else took the slot. The UI thread is one thread: while a `BeginGenerate`
is between two sections, no other begins and no conversation is deleted (`UiBusy`).

### Generation

One slot, run after run. A slot serves one run at a time, which is what
`LeasesExclusive` says of the engine, so a run is sequential; but the stop flag may
be seen at every place it is read, and each call of llama.cpp may fail there.

A cell of the KV cache depends on every token it attended to. So a cell *is* that
sequence of tokens: `Decode` gives a new cell at position `p` the tokens of the cells
below it and its own. `SeqRm` and `SeqAdd` remove and renumber cells and leave what
they hold alone, which is exactly why a shifted window is not what a prefill
computes. A decode that fails keeps any prefix of its batch. The memory may or may
not be able to shift (`can_shift`, chosen once), may refuse a partial removal, and may
refuse a complete one.

| code | actions |
| --- | --- |
| tokenize, `FitPromptContext`, the refusal of prompts that fill the context | `Submit` |
| reuse of the cached prefix | `Reuse` |
| prefill | `PrefillBatch`, `PrefillFails`, `PrefillDone` |
| `PrefillImages` | `SubmitImages`, `EvalChunk`, `EvalChunkFails` |
| the loop | `Emit`, `DecodeToken`, `DecodeTokenFails`, `Finish` |
| a full window | `Slide`, `Rebuild`, `RebuildBatch`, `RebuildFails`, `NoRoom` |
| `stop_requested` | `Stopped` |
| `EngineState::ReleaseSlot` | `ReleaseSlot` |

`text` is a ghost: the whole prompt before fitting and everything decoded since.

### Serving

The threads are the UI thread and the task pool thread that unloads a model (both call
`Stop`, only the first `Start`), the listener, one handler per HTTP request, and one detached
worker per request. An action is what one of them does between two places where
another can see it: a section of a mutex of the channel or of the server, a store to an
atomic, a join, a write to the client. `Start` keeps the server's `mutex_` from beginning to
end, also while it joins an old thread; `Stop` keeps it only for its tests and for the deletion.

| code | actions |
| --- | --- |
| `HttpServer::Start` | `BeginStart`, `Rejoin`, `Open` or `OpenFails` |
| `HttpServer::Stop` | `BeginStop`, `Close`, `Join`, `EndStop` |
| `listen_after_bind` of httplib | `BeginListening`, `StopsAccepting`, `AcceptFails`, `Drained`, `ListenerEnds`, `Arrive` |
| the handlers until they have a slot | `Reject`, `Acquire`, `Refuse`, `TimesOut` |
| `RunStreamGeneration` | `StartWorker`, `ThreadFails`, `TakeBatch`, `WriteBatch`, `WriteFails`, `HandlerThrows`, `Abandon`, `TakeEnd`, `WriteMark`, `MarkFails` |
| `RunSyncGeneration` | `StartWorker`, `ThreadFails`, `AnswerSync` |
| `RunGenerationAsync`, `PushToken`, `Finish` | `Emits`, `Ends`, `Finishes`, `FinishFails` |
| `generate` of the UI, its `on_done`, `GenerateJsCallback` | `Generate`, `FlushesLast`, `PostsFinal`, `PostFails`, `Callback` |

A text is the sequence of its pieces, numbered as the worker made them. Time is abstracted: the first
piece is flushed at once, each later one may or may not find its 50 ms over. The engine
gives slots from two pools and may tell a request to stop whenever it likes; that it reaches
everybody is a matter of `EngineState`. Whether the wait for a slot may time out is left open
(`TimesOut`), because of finding 4.

`HandlerThrows` is `make_chunk(token).dump()`. A piece is a token of the model, which need
not end where a character does (`Split` says which pieces do not), and a batch is flushed without looking; `dump` refuses text that ends inside
a character (`EndsInside`). httplib catches the exception and closes the connection, but nobody waits for the worker
or tells it to stop. The request is then `lost` until its worker ends, and the worker has the channel for
itself. The plain handler answers 500 for such a text (`AnswerSync`). `generate` flushes its batches in the same way, but
`napi_create_string_utf8` makes a string of any bytes, and its status is not looked at: nobody throws, and the UI has two halves instead of the
character. `Callback` notes in `torn` the piece at whose end that happened.

`TokenStream` describes a request by the text made, the text seen, the pieces at whose end a character came apart, and the verdict;
`fragile` says after which pieces one may, which is nowhere for HTTP and inside the shared characters for the UI (`Fragile`). The mapping takes
the verdict from what the client can tell: open, complete, failed, or parted. Its steps say
that what is seen is always a prefix of what was made, that a verdict of complete comes with
all of it, that nothing is made after that, and that no character comes apart but at a fragile place of what
is just delivered.

### SessionQueue

ArkTS runs on one thread, so an action is what that thread does between two returns to
its event loop: a call of the user, an event, a timer, the code after an await. One
exception: `dequeueNext` calls itself after each session it starts, and workers run
meanwhile, so each start is an action of its own and `busy` keeps the thread until the
last of these calls returns. Only workers and the task pool act while `busy` holds.

| code | actions |
| --- | --- |
| `dequeueNext`, `startGenerate`, `failGeneration` | `StartAccepted`, `StartRefused` (1005), `StartFails`, `DequeueReturns` |
| `generate`, `stopGeneration`, `deleteSession`, `newSession` | `Generate`, `StopQueued`, `StopRunning`, `DeleteSession`, `NewSession` |
| `onGenerateEvent` with `done`, `stopped` or `error` | `HandleFinal` |
| `scheduleSlotRetry` and its closure | `timer` in `StartRefused`, `RetryFires` |
| `cancelQueuedGenerations` | `CancelQueued` |
| `loadModel`, `unload` before and after the await | `LoadModel`, `Unload`, `TaskSettles` |
| `loadModelTask`, `unloadModelTask` in the task pool | `TaskStopsAll`, `TaskFrees`, `TaskEnds`, `TaskRejected` |
| `RunGenerationAsync` | `WorkerEnds` |

The engine is what `EngineState` shows of it: a UI pool of `slots`, at most one request
of a conversation, a stop-all from the start of a load until its end, a load that frees
the old model only when no worker is left. A request stays in `native` until its final
event is handled, since that event may be waiting in the event loop long after the
slot is free. `late` is a ghost: the sessions whose message was sent while a
load was under way.

### SessionPersistence

Again one thread, which switches at each await. An action is a call of the user, or a callback of
the chain from one await to the next, which is one statement of SQL. The head of `chain` is
the callback that runs, `step` says which statement is next. All statements go through one connection, so
the transaction a failed `ROLLBACK` leaves open covers whatever comes later, and the next `BEGIN`
fails.

| code | actions |
| --- | --- |
| `newSession`, `enablePersistence`, `deleteSession` | the actions of those names |
| `replaceSession` and its persist | `Replaces`, `Persists`, in the four actions that follow |
| rename, pin, the status when a queued session starts | `Change` |
| `generate`: the question and an empty answer | `Generate` |
| `onGenerateEvent`, `token`, without persist | `Token` |
| `onGenerateEvent`, `done`, `stopped`, `error`; `failGeneration`; a stop while queued | `Ends` |
| `saveSession` | `Update`, `Insert` |
| `replaceMessages` | `Begin`, `ClearMessages`, `AddMessages`, `Commit` |
| `deleteSession` of the store | `Begin`, `Delete`, `ClearMessages`, `Commit` |
| a statement that throws, the `ROLLBACK` | `StatementFails`, `Rollback`, `RollbackFails` |
| `restoreSessions` | `ListSessions`, `ListMessages`, `Restored`, `RestoreFails` |
| the process dies | `Restart` |

Contents are numbered by the change that made them. A session has a head (its row: title, pin, totals) and
a body (its messages); a save writes the head first and the body in a transaction of its own.
`asked` is the change that asked for the answer under way. Until it ends, each token changes what the user sees and queues no save
(`InferenceService.ets:456`), so that the database falls behind; a rename or a pin meanwhile saves the half answer there is. That is why
`StoredAsSeen` compares the database with what the user sees only when no answer is under way, and says of an answer under way that
what is stored was seen at some moment since the question. When it ends its text is saved with the final event.

`Partly` is a body some of whose messages have been inserted. `disk` is what is committed, `heads` and
`bodies` what the connection sees. `origin`, `removed`, `unsaved` and `astray` are ghosts: ids
are given again, so a removal is remembered by the birth of the session it removed.

`astray` is set when the user acts while the restore is not done, or after it failed. The
restore then overwrites what the user made, or `nextSessionId` is still 1 and a new session takes the id, and once it
is persistent the row, of a stored one. Nothing in the code prevents either. `RemovedForGood` and
`StoredAsSeen` say nothing of such runs; `StoredWhole` holds in all of them.

## 3. Runs

| run | question | instance |
| --- | --- | --- |
| `engine_core` | Do slots, caches and stop flags stay consistent? | 2 UI requests, 1 HTTP request, 2 conversations, 1 slot per pool, 1 load, 1 unload, 1 deletion |
| `engine_reload` | Can the model be replaced under requests, and does the engine keep the promise of `ModelLease`, and is `stop_all_` always left to somebody who will clear it? | 2 UI requests, some failing and ended twice, 2 conversations, 1 stop-all, 2 loads of 1 or 2 slots per pool, 1 deletion |
| `engine_serve` | Is anybody refused without a reason, forgotten, or waited for without end? | 3 HTTP requests, 1 slot, a load, an unload, a stop of the server |
| `generation` | Do window, KV cells and kept tokens agree? | context of 5, batches of 2, prompts up to 6, limits 1 and 7, 2 runs |
| `serving` | Does text arrive whole and in order, does a stopped server leave nothing behind, is everybody answered? | a plain request with a stream or with a call from the UI, 1 slot per pool, 2 pieces of text that share a character or end inside one, 2 callers of `Stop`, any number of starts and stops |
| `session_persistence` | Is what is stored whole, final and what the user sees, whatever fails and wherever the process dies? | 2 ids, 4 births and changes, 2 once the user has gone astray, any number of failures and restarts |
| `session_queue` | Do queue, statuses, requests, timer and engine agree, and is who waits served? | 2 sessions, 3 messages, 2 loads of 1 or 2 slots, 1 unload |
| `engine_shared_slot`, `engine_stop_all_lost`, `engine_foreign_kv`, `engine_queue`, `session_stranded` | the findings of section 5 | the smallest that shows each |

**Why these bounds are enough for the cases that matter.**

* Two UI requests of two conversations over one slot make each of these happen:
  eviction, a busy owner, reuse by the same conversation, an owner deleted while its
  request runs. The HTTP request has the other pool and interferes through the
  shared state. One load and one unload give every phase of an operation a request that is
  beginning, running and ending in it.
* `engine_reload` needs the second load, since what it asks is about a model
  that is *replaced*; two slots let two UI requests be active at once, and change
  the size of the tables.
* `engine_serve` needs three handlers: one with the slot, one woken, and one that may
  overtake it or be left asleep.
* `generation` has prompts that exceed the context, fill it and fall short, prefixes
  that agree to every length, prefills of up to two batches, and with limit 7 outputs that fill the
  window more than once. Two runs suffice for the cache: the first leaves what the second
  finds. One text token and the end token suffice, since prompts over two symbols
  can differ from a cached prompt at any position.
* `serving` has two HTTP requests, so that one waits for the slot of the other and a stop
  meets handlers in two places at once, or a request and a call from the UI, whose events wait while the UI thread
  joins the handlers. Two pieces make a first piece that is flushed at once and
  a second one that waits for its 50 ms or for `Finish`. The text of one request is cut after its first piece and
whole with the second, that of the other is cut at its very end. Two callers are what the program has.
* `session_persistence` has four births and changes: a session that is made, changed and changed again
  while its first save runs; one whose answer is asked for, streamed and ended; or one that is removed and followed by another. Once the user has gone astray
  two have to do, a birth and a change or two births: `RemovedForGood` and `StoredAsSeen` say nothing of these runs, and `StoredWhole`
  needs no more to be broken there by a first save on the id of a stored session. With two ids the id of a removed session
  is given again after a restart. Jobs, failures and restarts are not bounded.
* `session_queue` has two sessions and pools of one and two slots, so that a session waits
  for another, or both run, or a deleted one still holds the slot the next one needs. Three
  messages let a session be used again after a final event; two loads and an
  unload give a switch of the model in every state of the queue and of the timer.
* `MaxSends`, `MaxLoads`, `MaxUnloads`, `MaxDeletes`, `MaxServerStops`, `MaxTurns`, `MaxPrompt`, `MaxPieces`,
  `MaxId`, `MaxChanges`, `MaxAstray` bound what the user and the environment do and nothing the code does.
* `TimelyHasCaller` and `QueuedLeaves` leave out messages that were sent during a load, because
  those are stranded (finding 5).
* `LeasesExclusive` is checked with one load because a second one breaks it
  (finding 1).

Symmetry is used for requests of one kind and for conversations, in runs with no
liveness property. `serving` and `session_persistence` check for deadlock: a server can always be started or stopped
and a process can always die, so a state without a step would be one where `Start`, `Stop`
and all handlers wait for each other. In the other runs the system rightly stops when every request has
ended and the bounds are used up; the liveness properties of
`engine_serve` and `session_queue` say what must not get stuck.

**Fairness.** `FairSpec` has weak fairness for each thread that has started: the steps
of a request from its acquisition to its end, a woken handler, the steps of a
stop-all, the steps of an operation, the notification after a server stop. That is what an operating system
gives to runnable threads, and `std::mutex` sections that are short and do not nest in each other's
waits. Nothing is assumed of the user: no request, stop or load need ever begin, and
no run is fair to `RequestStop`. A worker's run ends because `max_tokens` bounds it, which is
`FinishRun` being fair. Sleeping is not fair: a sleeper needs a notification, which is what
`WaitersServed` is about; that a wait may be over at once is a choice nobody is fair to, so it must hold where every wait sleeps.

`FairSpec` of `SessionQueue` has weak fairness for what runs by itself: a call of `dequeueNext`
that has begun, the workers, the task pool. A final event, a retry whose 250 ms are over and a
task that has settled wait in the event loop; they are enabled only between other turns of
the thread, and the loop serves them in turn, which is strong fairness. The bounds on
messages and loads play no part: the user may do nothing at all.

`Serving` has weak fairness for each thread that has begun something: `Start` and each `Stop`
in their middle, the listener, each handler, each worker. Nobody need ask, start or stop
anything, `accept` need not fail, and no engine need stop a request. That a write
to a client returns is httplib's write timeout (`SO_SNDTIMEO`, `httplib.cpp:9132`). The events of the thread-safe function
wait in the event loop, which `Start` and `Stop` block again and again, so the steps of the UI are strongly fair, as in `SessionQueue`.

`SessionPersistence` is weakly fair to the chain: promises settle, and their callbacks run. The user and the
process's end are free. In `ChainGoesOn` the bound on changes keeps the user from adding jobs for ever.

**Properties.** The safety properties of `EngineState`: `LeasesExclusive` and
`UsedSlotsHeld` (slots and their occupancy), `StartsClean` and `CacheDescribesKv`
(conversations and their caches), `ActiveCountExact` and `ModelPinned` (drain and
model), `OneSlotPerConversation`, `StopReachesAll` (requests that are registered while a load sets its
flags). The action property `StopAllHandedOn` (who clears `stop_all_`); the liveness properties `WaitersServed` and `OperationsEnd`; the
refinement `LeaseSpec`. Of `Generation`: `CacheIsExact`, `WindowIsKv`, `FitsContext`,
`WindowKeepsEnds`, `AlwaysSampled`. Of `SessionQueue`: `QueueIsExact`,
`RunningHasRequest` and `DeletedAreStopped` (sessions and their requests), `RetryIsCurrent`
and `EngineAgrees` (the model and what the app believes of it), `RefusedOnlyForDeleted`,
`TimelyHasCaller`, and the liveness property `QueuedLeaves`. Of
`Serving`: `ServerOutlivesHandlers` and `QuietWhenDown` (the server, its handlers and what they leave), the
refinement `DeliversAll`, the liveness property `WaitsEnd`. Of `SessionPersistence`: `StoredWhole`, `RemovedForGood`,
`StoredAsSeen`, and the liveness property `ChainGoesOn`. `StopAllEndsWithLast`, `QueueWaits` and `QueueHasCaller`
are what documents and comments say and the code does not do; only the runs of section 5 check them. Each property is stated in words above its definition, and
for each that holds `PROJECT.json` names a mutant of the code that TLC finds with it.

## 4. Theorems

All of them hold for every value of the constants that the named assumptions
allow (`EngineAssumption`, `GenerationAssumption`, `ServingAssumption`, `SessionAssumption`, `PersistenceAssumption`).
Every property the passing runs check is stated by one of them, except the five
liveness properties and `StopReachesAll`.

| theorem | statement |
| --- | --- |
| `TypeCorrect` | `Spec => []TypeOK` |
| `CountIsExact` | `Spec => []ActiveCountExact` |
| `ModelStaysPinned` | `Spec => []ModelPinned` |
| `ImplementsLease` | `Spec => LeaseSpec` |
| `ConversationHasOneSlot` | `Spec => []OneSlotPerConversation` |
| `LeasesAreExclusive` | `Spec => [](loads <= 1 => LeasesExclusive)` |
| `OccupancyIsExact` | `Spec => [](loads <= 1 => UsedSlotsHeld)` |
| `StopAllIsHandedOn` | `Spec => StopAllHandedOn` |
| `SecondEndFindsNothing` | `Spec => []ErasedOnce` |
| `CacheAlwaysDescribesKv` | `Spec => [](loads <= 1 => CacheDescribesKv)` |
| `AlwaysStartsClean` | `Spec => [](loads <= 1 /\ NoStopAllYet => StartsClean)` |
| `WindowFits` | `Spec => []FitsContext` |
| `AlwaysStartsSampled` | `Spec => []AlwaysSampled` |
| `GenerationTyped` | `Spec => []TypeOK` |
| `CacheAlwaysExact` | `Spec => []CacheIsExact` |
| `WindowAlwaysInKv` | `Spec => []WindowIsKv` |
| `WindowAlwaysKeepsEnds` | `Spec => []WindowKeepsEnds` |
| `ServerAlwaysOutlives` | `Spec => []ServerOutlivesHandlers` |
| `AlwaysQuietWhenDown` | `Spec => []QuietWhenDown` |
| `ServingTyped` | `Spec => []TypeOK` |
| `AlwaysDeliversAll` | `Spec => DeliversAll` |
| `EngineAlwaysAgrees` | `Spec => []EngineAgrees` |
| `RetryStaysCurrent` | `Spec => []RetryIsCurrent` |
| `RunningAlwaysHasRequest` | `Spec => []RunningHasRequest` |
| `DeletedAlwaysStopped` | `Spec => []DeletedAreStopped` |
| `QueueStaysExact` | `Spec => []QueueIsExact` |
| `SessionQueueTyped` | `Spec => []TypeOK` |
| `TimelyAlwaysHasCaller` | `Spec => []TimelyHasCaller` |
| `RefusedOnlyForTheDeleted` | `Spec => RefusedOnlyForDeleted` |
| `AlwaysStoredWhole` | `Spec => []StoredWhole` |
| `PersistenceTyped` | `Spec => []TypeOK` |
| `RemovedStaysRemoved` | `Spec => []RemovedForGood` |
| `AlwaysStoredAsSeen` | `Spec => []StoredAsSeen` |

**Hypotheses.** Four theorems of the engine say less than their property, because the code does
less. `loads <= 1` (until the model is loaded a second time) is what finding 1 asks for,
`NoStopAllYet` finding 3. For each a run of section 3 shows what
happens without the hypothesis. Both speak of the state reached so far and not of the
constants, so these theorems hold in every behaviour, up to the second load or the first stop-all. The exception that finding 2 asks for, the one
store in `ResumeMode`, is part of `StopAllHandedOn`. `RemovedForGood` and `StoredAsSeen`
except `astray` themselves, as section 2 explains.

### The engine

**The model stays pinned.** `ModelPinned` alone is not inductive: a commit that has
tested `model_` could register after the model was freed. `PinInv` adds why it cannot:
`CommitInMutex` (whoever is about to register holds `mutex_`, and sees a model),
`RegisteredUntilEnd` (a request stays in `sessions_` until it erases itself, so
that its first `EndGenerate` never returns early and leaves the count too high), `ErasedOnce` (from then on it is not in
`sessions_`, so that the second `EndGenerate`, of its guard, always returns early and takes nothing off the count again),
`ActiveCountExact` (the count is the cardinality of the active requests, so that
`active_count_ == 0` is the absence of users) and `OpPhases` (what each phase of an
operation knows of the model). The
refinement uses the same invariant: a registration is `Admit`, the last step
of `EndGenerate` is `Retire`, a free or a publication is `Replace` with no users, and all
other steps stutter.

**Slots.** `OwnerInv` adds to `OneSlotPerConversation` that owners are only ever in the UI pool,
where `SelectConversationSlot` looks for them. `HeldInv` adds to `LeasesExclusive`
and `UsedSlotsHeld` that before the first tables nobody holds a slot. That is where
`loads <= 1` is needed: a request may keep a slot of the old tables through the next load.

**Stops.** `StopAllOwned` says who will clear `stop_all_` when it is set: the operation that has not yet cleared it; a stop-all that
is about to leave its mark; or, under the mark, the last active request or the stop-all that is still to test the count. It is no
invariant (finding 2), so the theorem is about steps: whatever is done, a flag that has such an owner keeps one, and only the second store of `ClearStopAll` can
take it away. The hard steps are the last `EndGenerate` and the test of the stop-all, both of which must find the count at 0 exactly when
nobody else will; that needs `ActiveCountExact`. `OpStopsFirst` adds that an operation is through with its own `RequestStopAll` before it goes on.

**Whose tokens.** `KvInv` adds to `CacheDescribesKv` what the holder of a slot is in the middle of
(a slot that is neither decoded into nor cleaned has an empty list only if it has no cells),
and that without a model or tables everything is empty. `CleanInv` adds to `StartsClean` what a free slot may hold, which is
what its owner may reuse; that the owner of a held slot is the conversation of the holder, or nobody after a deletion; and that a request which
acquired its slot while an operation drains finds anything, but will be refused. The last of these is why
`StopEra` is needed: until the first stop-all, `stop_all_` is set exactly while an operation runs, so that
a refused request is never the one that leaves its name on another's tokens.

### The generation worker

**The window fits.** The step that could go wrong is a decode at `n_past` after the
window was slid or rebuilt. `FitInv` says for every phase which cells there may be:
below the reused prefix, below the offset of a prefill or of a rebuild, below
`n_past` in the loop, with `evaluated_tokens` as long as `n_past` for text. A context of one
position needs no exception: it refuses every text prompt, and a prompt with an image that fits in it has no token
to generate from, since `ChunkRoom` keeps in mind that one of its places is the image.

**What the cells hold.** `RunInv` says where the cells end in each phase and that nothing is cached while a run is
under way. `ExactInv` says what they are. `Prefix(kv, w, k)` is the content of a prefill: cell `i` holds the first `i + 1` tokens
of `w`. It holds of the prompt during the prefill, of `evaluated_tokens` during a rebuild, and in the loop as long
as `cache_valid`; after a slide only the last token of each cell is known, which is what `WindowIsKv` asks and
`CacheIsExact` must not be told. `Decode` defines the cells below a position by
their rank and not one by one, so that what a decode writes is one sequence whose elements can be named:
`SeenPrefix` and the lemmas after it replace an induction over the batch.

**What the window keeps.** `Keeps(w, s)` is `WindowKeepsEnds` for two sequences. `FitKeeps`: what `FitPromptContext` leaves of a prompt keeps its ends.
`TrimKeeps`: so does a trimmed window. `AppendKeeps`: a token added to both
preserves it. `EndsInv` says it of the prompt before the loop and of the window from then on, also through a rebuild.

### The server

**The server and its handlers.** `ServerInv` ties the flags to the thread: one `Stop` at a time, none during
a `Start`, a listener only while its thread can be joined, a thread that can be joined only while
there is a server. `LiveInv` says that the listener has not returned while a handler is live, and `RequestInv` that a
handler whose worker runs is in the loop, in a wait, or has thrown, and that a slot is held only from the
acquisition to the end of the generation. Together: when the server is gone its thread was joined, so no handler
is live, so no worker runs and no slot is held but for handlers that threw.

**The text in transit.** Pieces are numbered as they are made, so every part of the text is a
`Block` of consecutive numbers, and a queue of batches is a `Chain` of blocks, described by the
places where it was cut. `FlowInv` says that there are three such places: the client has the pieces up to `k`,
the handler those up to `h` in hand, the queue those up to `p`, the worker the rest, which is pending. A step moves one of
the three. A batch that reaches the UI is the block from the first to the second place, so a character can only come apart at its last piece (`HalvedTorn`). `PlaceInv` says where handler and worker can be together, `EndInv` how the end is told: the event that
carries it is the last of its queue, has no text, and comes when nothing is pending. From these,
`Abstracts(r)` is shown for every kind of step of the request: it is one step of `TokenStream` (`Make`, `Deliver`, `Complete`, `Break` or `Forget`) for `r`,
or a stutter. A step changes the streams of one request, so that it is a step of the abstract specification as a whole.

### The service and its queue

**The service and the engine.** `EngineAgrees` speaks of a model that is ready, and a load
or an unload may take long to make it so. `ModelInv` adds `TaskInv`: the task pool has work exactly
while `loading`, and, for each way the task can end, what the engine holds at that moment. `RetryIsCurrent`
follows from the same invariant, as both loads and unloads cancel the timer before they begin.

**Sessions and requests.** `RunningHasRequest` and `DeletedAreStopped` need `FreshInv` (a session
that has not been given out is idle and has no request, so that a new one is not mistaken for
the owner of an old request) and `IdsInv` (request ids grow and name one request each, so that
stopping one stops no other and a final event ends the request it belongs to). That a session
has at most one request follows: a second would have to be the one it names.

**The queue.** `QueueInv` is `QueueIsExact` with the type of the queue: it is without repetitions and its elements are those that wait.
`Without(s)` is defined by rank, so that what it leaves of the queue can be stated without an induction over
its length. `CallerInv` adds to `TimelyHasCaller` that during a load nobody waits but those whose message
dates from it, since the load has taken all others back. For `RefusedOnlyForDeleted`: if no deleted session has a worker, the workers map
one to one to the running sessions (by `RunningHasRequest`), so the engine has at most as many busy slots as the
service counts, and the service starts nobody when it counts `limit`, which `EngineAgrees` makes the engine's number of slots.

### The session store

**What is stored is whole.** `StoredWhole` compares a body with a row that another job may
have written, so `StoreInv` has to order the jobs. `ChainInv`: the saves of one session wait in the order of
their changes, none older than the body that is stored, each with a body not newer than its head.
`MemoryInv`: a session that is not yet persistent is newer than whatever is queued or stored under its
id, which is what makes its first save safe, also when `astray` put it on the id of a stored one. `TableInv`: what is committed
is whole. `StepInv`: without a transaction the connection sees what is committed; within one it differs only in the rows of the
running job, and how far that job is tells what it has written.

**What becomes of it.** A session is followed by its birth, as ids are given again. `LineInv`: whatever is known under
an id, in the tables, in memory or on the chain, is of one birth, no birth is known under two ids, and none of them
was removed. A new session does not break this, because `EraInv` says that from the restore on nothing is known of the ids still to
be given, and before it nobody has a session. `LastInv`: the last job of a session saves what the user sees or removes it,
so that `StoredAsSeen` holds again when it has run. `Seen` is that for an answer under way as well: `OriginInv` says that the session is not
older than its question, so that what was stored or queued when the answer was asked for, or since, is still within what was seen
when a token is added without a save (`StillSeen`). When the answer ends, `Seen` is equality again, and the save of the final event makes it true. `TypeOK` needs an argument of its own: that a next id exists after a restore, which is the
least of a set of numbers (`WFMin` of the library; no induction is involved).

### What stays with TLC

`WaitersServed`, `OperationsEnd`, `QueuedLeaves`, `WaitsEnd` and `ChainGoesOn` are liveness under fairness and
rest on `ENABLED`, which the prover does not treat; TLC checks them up to the bounds of section 3. `StopReachesAll` is checked without a stop-all beside the
load and not proved: with one, `StopAllSettle` may clear the flag under the load, and a request registered after that is waited for and not stopped (section 5). No module declares a
`RECURSIVE` operator, and no proof needs an induction over data.

## 5. Findings

1. **Two requests can share a slot** (`engine_shared_slot`, `engine_state.cpp:153`).
   `BeginGenerate` takes its slot in one section and registers in a later one. A whole
   reload in between rebuilds the slot tables, and the commit succeeds with an index that
   the new tables offer to somebody else. It needs the UI thread to be preempted
   for as long as a reload takes.
2. **A stop-all can be lost and leave the engine closed** (`engine_stop_all_lost`,
   `engine_state.h:118`). `ClearStopAll` clears `stop_all_` and then the mark, outside every lock. A stop-all that comes
   between the two sets both and leaves the clearing to the last request, but its mark is wiped. `stop_all_` stays set, and
   everybody is refused until the next load, unload or stop-all.
   The same two users of one flag meet at `engine_state.cpp:282` as well: a stop-all that finds no request active clears `stop_all_` under a load that has just
   set it to keep requests out. A request registered then is waited for and not stopped, and later ones are refused only because the
   tables are empty and `model_` is null. The model is never freed under anybody, which `ModelPinned` and `LeaseSpec` say of these runs too.
3. **A slot can keep another conversation's tokens under a new owner**
   (`engine_foreign_kv`, `engine_state.cpp:155`). The owner is recorded before the
   commit, and a refused commit does not undo it. The prefix comparison of `RunGeneration`
   bounds the damage: only equal tokens are reused.
4. **The queue of the server does not wait** (`engine_queue`, `engine_state.cpp:199`).
   `wait_for(milliseconds::max())` computes a deadline that overflows. What an overflow gives is undefined; where it wraps, the deadline
   lies in the past.
5. **A message sent during a load is stranded** (`session_stranded`, `InferenceService.ets:507`).
   `generate` queues a session while another model is loading, `dequeueNext` returns at once, and
   the end of the load does not call it again. The session shows as queued until
   something else happens.

The runs quote nothing they do not show: `PROJECT.json` gives for each the sentence of
the documentation or of a comment that says otherwise.

## 6. Limits

* **Loading** is one step that succeeds or fails. Devices, the projector, metadata,
  and the `PendingModel` that frees what a failed load built are not told apart: nothing
  of it is published before `PublishModel`.
* **Memory.** Mutex sections are atomic and the unlocked atomics sequentially
  consistent. `EngineState` lets every removal from the KV memory succeed; `Generation` lets it be refused.
  The freed `cached_tokens_` that `DeleteConversation` may index between the two
  clearing sections is kept as an empty entry (a hazard without a property).
* **Generation.** Sampling is any token. Statistics, detokenization, the three kinds of
  `GenResult` and the texts of errors are left out. An image takes one position.
* **Slots of one context** do not interact in `Generation`: that each keeps to its
  share is `FitsContext`, and that llama.cpp separates sequences is assumed.
* **Serving.** What bytes say is left out, but for a character that is cut by the end of a batch. Authorization, the routes that only read and the building of prompts are left out; a
  rejected request is one step. A token event the thread-safe function refuses would lose its
  text; only the refusal of the final event is modelled, as the queue of the function is not bounded. A request is used once. A server thread that cannot be created (`http_server.cpp:741`) throws
  out of `Start` through the call of the UI and ends the program; it is left out.
* **Lost handlers.** For a handler that throws the code keeps neither half of `QuietWhenDown`, and
  a call from the UI whose final event cannot be posted never ends for the UI. The properties name both and except them.
* **SessionPersistence.** Opening the database is part of the first statement, whose failure it shares. The inserts of a body are
  one step with a half-written body before it. A session has one answer under way at a time; late events of a session that was deleted find none and do nothing. An
  answer under way when the restore overwrites its session, which can only be after the user has gone astray, has no further events. The status is not stored:
  what is restored is idle (`InferenceService.ets:85`).
* **SessionQueue.** Titles, pins, messages, statistics, token events and the active session are left out, and it begins
  after `restoreSessions`. The model's path is left out
  too: asking for the model that is loaded returns at once and changes nothing. That the environment is what
  `EngineState` is, is argued above and not yet proved by a refinement.
* **Not modelled.** The model registry: its operations read, change and write an index across awaits, and two that overlap may
  lose one of the changes (a hazard without a property); it shares no state with the engine or the
  sessions. Serve service, settings, pages, call guide: thin callers, independent values, layout. llama.cpp, ggml, mtmd and the other
  vendored libraries, which are most of the lines of the repository: numeric code without the kind of state TLC and TLAPS are for;
  `Generation` models what the worker sees of the memory of a sequence, `Serving` what the server sees of httplib.
  `PROJECT.json` gives each its status and its reason.

## 7. Plan

In this order; each with its mutants, and theorems where they say something TLC cannot.

1. `ModelRegistry`: overlapping imports, links and deletions over the parallel lists,
   against an abstract index.
2. The order in which waiting sessions are served, which needs a third session to disturb it, and
   refinements that take the engine `SessionQueue` and `Serving` see from `EngineState`.
3. Theorems about those refinements. The step to take first: that `native` of `SessionQueue` is the active
   requests of the UI pool, under the hypotheses of section 4.
