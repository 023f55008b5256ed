# MIRROW: a TLA+ verification of its wander runtime, local host, memory, walls and music

MIRROW is the backend of a companion agent. While the user is away the agent
*wanders*: a planner model proposes activities, a runner carries them out node by
node, a settlement model sums them up and may share one message. A local host puts a
chat, a day lifecycle and a sentinel around it; each closed day is digested into a
memory store, two cognition books and a diary; the posts of a social wall can move
from one home to another; music is played on the phone and listened to together. The long-lived state is in SQLite and in files replaced
atomically; a host is one asyncio process, in which model calls are awaited while
other coroutines and threads run, and which may die anywhere.

This directory holds TLA+ models of the parts of that system with a protocol worth
checking, TLC configurations for small instances, and proofs checked by TLAPS for
every instance.

| module | what it is |
|---|---|
| `WanderRuntime` | one run of an accepted plan: activities, nodes, settlement, share |
| `RunLifecycle` | what a run promises: the abstract specification `WanderRuntime` implements |
| `WanderRuntimeProofs` | theorems about a run: its invariants, its action properties and the refinement |
| `WanderScheduler` | the runs of one session: planner, wakes, inclination notes, chat-tool runs |
| `WanderSchedulerProofs` | theorems about a session |
| `LocalDay` | the local host: chat lock, active day, wander host, sentinel |
| `LocalDayProofs` | theorems about the local host |
| `DayMemory` | Memory V2 as the digestion uses it: encoded batches, threads, day receipts |
| `DailyDigestion` | the jobs of closed days, composed with `DayMemory` |
| `DailyDigestionProofs` | theorems about the digestion |
| `EventStore` | Memory V2 as the ingest and the repair use it: messages, events, threads, settled days |
| `DayIngest` | the online ingest, the repair of changed days and the changes themselves, over `EventStore` |
| `DayIngestProofs` | theorems about the ingest, the repair and the changes |
| `BookLedger` | the cognition books, their receipts and the ledger of items |
| `CognitionBooks` | the daily runs over the books and the person beside them, over `BookLedger` |
| `CognitionBooksProofs` | theorems about the books |
| `PostTransfer` | a post that moves from the wall that hosts it to its author's home |
| `Handover` | what a move promises: the abstract specification `PostTransfer` implements |
| `PostTransferProofs` | theorems about a move, the refinement included |
| `PhonePlayer` | the phone as the playback sees it: the music app and the guard beside it |
| `PlaybackSession` | the playback session of the music cochlea, over `PhonePlayer` |
| `PlaybackProofs` | theorems about the playback: types and the stored session; what is recorded and what a restart may do |
| `MCRuntime`, `MCScheduler`, `MCLocal`, `MCDigestion`, `MCIngest`, `MCBooks`, `MCTransfer`, `MCPlayback` | the instances for TLC |

`PROJECT.json` maps every definition to the lines it models and lists the runs, the
mutants that show each property can fail, the findings, the hazards and the theorems.

## 1. Inventory

### 1.1 Wander runtime (`src/wander_manager/runtime_*.py`)

*State*: rows of `wander_runs`, `wander_activities`, `wander_nodes`,
`wander_decisions` (the settlement audit), `wander_scheduler_wakes`,
`wander_deliveries`, `wander_inclinations`; in memory the tick lock, the interrupt
epoch, `_suppress_next_schedule` and the claimed wake of the runner.
*Operations*: `tick` (plan, then up to twelve transitions chosen by
`controller.poll`), `begin_node`, `_recover_node`, `_review_horizon`, `_settle`,
`settle_interrupt`, `request_interrupt`, `execute_chat_xhs`, `initialize`.
*Interactions*: one tick lock for the background loop, `settle_interrupt` and the
chat tool; `request_interrupt` comes from the foreground without a lock. The store
is called synchronously, every save is a transaction of its own.
*Hard*: a reply at each of the six awaits of a node and its settlement; a process
that dies between two of the transactions of one handler; a restart must never run
a node's external action twice; a model that fails; deadlines that pass meanwhile;
planning runs left by a dead process.
*Correct when*: at most one activity and one node are under way; a run is over
exactly when its plan is; what has ended stays ended; a reply wins over every reason
chosen before it; a plan shares at most once, and only when it completed; the wake
of the next plan is durable before the run ends and gone after a reply; no node is
executed twice; a plan is made only when nothing of the session is under way; an
inclination note is used once; a session whose runs end never runs dry.

### 1.2 Local host (`src/local_app`)

*State*: `local_days`, `local_day_jobs`, `local_module_events`, the settings
`day_reservation`, `user_status`, `last_user_at`, `conversation_messages`,
`chat_requests`; in memory `chat.lock`, the wander task with `Wander.stopping`, the
sentinel's task and the digestion task.
*Operations*: `Chat.send`; `Lifecycle.before_message`, `accepted_message`,
`reserve`, `close`, `check_rollover`, `tick`; `Wander.start`, `loop`, `push`,
`stop`; `capture_activity`, `capture_open_day`; `Sentinel.tick`; the lifecycle
routes.
*Interactions*: the foreground holds `chat.lock` across its awaits and awaits the
end of the wander task; shares and sentinel messages ask `can_push`, which looks at
the lock; both write to the same message store as the chat.
*Hard*: messages composed under an await that arrive when the day or the
conversation has moved on; a reservation that falls due while the foreground is busy;
three transactions in `close`; two notions of a day, the calendar date and the active
day; a restart during a reply.
*Correct when*: message and reply stand together; nothing is added to a closed day;
what happened on a day is in its evidence before it is closed; the lock is always
given back.

### 1.3 Daily digestion (`local_app/daily.py`, `local_app/memory.py`, `memory_v2/day_settlement*.py`)

*State*: the job rows of each closed day (memory, cognition, diary) with the digest
of its source; in the memory store `encoding_batches`, `events`, `event_threads`
with `thread_events`, and the immutable `day_settlements`; in memory
`lifecycle.digest_task`, `memory.lock`.
*Operations*: `Lifecycle.tick` starts the task for the oldest day with a pending job,
a person retries a day; `DailyDigestion.run` verifies the source, runs the stage and
verifies again; `Memory.encode` encodes batch after batch and settles the day;
`commit_encoding`, `commit_day_settlement`.
*Interactions*: a request to the memory API calls the same `Memory.encode` under the
same lock; `DayStore.__init__` makes running jobs pending again.
*Hard*: two callers who both think a batch is missing; a source that changes while
three stages with model calls work from one reading of it; a death between the
store's commit and the job row; an earlier day settled after a later one.
*Correct when*: the model is not asked again for what is stored; a completed memory
job means a settled day; a changed day brings nothing into memory; every thread is
what the receipts say; every job comes to rest.

### 1.4 Online ingest and day repair (`memory_v2/online_ingest.py`, `day_backfill_runner.py`, `day_repair*.py`, `source_lifecycle.py`)

*State*: the conversation in a database of its own; batches, events and their status
log, threads, settlements, the log of source mutations; stage directories on disk; in
memory the run of `_online_lock`.
*Operations*: `ingest_completed_days` takes the oldest days with work, encodes and
settles each, or repairs it in a stage and promotes the stage;
`reconcile_memory_v2_source_mutation` records that messages were edited, deleted,
revoked or cleared and invalidates the events that cite them.
*Interactions*: people change messages at any time; the memory store is told of a
change by another call, later, twice, or never.
*Hard*: every model call is a window in which messages change; a stage promoted over
a store that has moved on; a stage that a dead process left; days without an event.
*Correct when*: an active event cites what the conversation still says, or something
of whose change the memory is still to be told; a promoted repair replaces the whole day; threads follow the replaced
events; a day is settled unless something named blocks it.

### 1.5 Cognition books (`memory-cognition/src/cognition`)

*State*: the entries of a world and a self book as Markdown files with receipts in
their frontmatter; the ledger of items, the checkpoints of the daily runs and the
deleted files as JSON; in memory `books.LOCK` and one asyncio lock per lane.
*Operations*: the world run (`factual.py`: extract, review, apply or leave to a
person), the self run (`autonomous.py`), and by hand edit, delete, restore, preview
and decide (`manual.py`, `maintenance.py`).
*Interactions*: requests by hand run in threads and come in wherever `books.LOCK` is
free, between two writes of a run too.
*Hard*: one logical save is three or four file writes; the review reads the catalogue
before its model call; a run is resumed from whatever checkpoint it left.
*Correct when*: nothing is saved twice or overwritten unseen; what the ledger calls
applied was saved; what was rejected stays out; a completed run leaves nothing half
done.

### 1.6 Transfer of a post (`comment/backend/social_feed/migration.py`, `transfer_runner.py`, `public_gateway.py`)

*State*: at the old home the post and a row of `wall_transfer_out`, at the new home a
row of `wall_transfer_in` and the post once active; in memory nothing but the calls.
*Operations*: prepare, ask, stage, commit, activate, confirm, cancel, discard.
*Interactions*: only HTTP requests of the new home; each may be lost, be answered when
nobody listens, or be handled late.
*Hard*: the old home has blanked the post and its answer is lost; the commit awaits a
proof from the new home while the transfer is cancelled and prepared anew; a snapshot
covers names that change without asking.
*Correct when*: the post is never at two homes and never at none; what arrives is what
was frozen; a move tried again ends.

### 1.7 Playback session (`music-cochlea/backend/music_system/service.py`, `store.py`, `integration.py`, `devices.py`)

*State*: rows of `playback_sessions`, the append-only `playback_events`; in memory the
session (`_session`), whether the queue may go on (`_allow_advance`), the receipts taken,
the episodes heard and the title that may be followed; on the phone the app and the guard
that stops it at the end of a song.
*Operations*: `start_song`, `control` (pause, resume, next, end), `update_session`; every
two seconds the loop reads the phone, hands the reading to `observe` and lets
`expire_paused` look.
*Interactions*: one asyncio lock around every operation, held while a command to the phone
is awaited; the loop reads without it. The person uses the app as well. The wander runtime
asks `playback_receipt` for the end of a song it had put on.
*Hard*: readings older than the command that came between; an end receipt that the phone
repeats for a minute; a command that was carried out and not answered; an event and the
row of its session in two transactions; a new process that finds a session and a phone
that plays.
*Correct when*: the service and the store mean the same session; the end of a song is on
record before the next one begins by itself; a song is heard once; a restart does not put
anything on or say that something plays; a pause ends.

### 1.8 The other parts

| part | state and operations | hard | status |
|---|---|---|---|
| wish board, wish commit, self-reflection | wishes, threads; idempotent commit of a node's wishes | replay of a commit after a crash | next in the plan |
| period cards and context shadow of Memory V2 | read-only summaries of settled days, rebuilt | a summary of a day that is repaired later | planned |
| device lease | in-process lock and file lock around one device, always acquired with a zero time-out | the operating system does the exclusion | not modelled |
| delivery gate | one lock around a bounded dictionary of receipts | a single operation | not modelled |
| mode switch, manager | idle activation and the wiring of the creator loop | | the loop is the scheduler of the runner; the rest is not modelled |
| Xiaohongshu | capability grants, reading and comment delivery by adb | one grant, one batch; unconfirmed side effects | planned; the driver is I/O |
| decision adapters, event handlers | model calls with schema repair | every failure must be an answer the runner can use | their outcomes are the choices of `WanderRuntime` |
| behavior scheduler | tool loop of one chat turn | sequential; the order is the model's | not modelled |
| encoding contract, linking, recall | parsing and scoring of one batch, retrieval | pure functions of text and embeddings | not modelled |
| social feed store, walls, mentions | rows of posts, comments, reactions, one transaction each | no protocol beyond the transfer | not modelled |
| library, materials and daily record of the music cochlea | a provider, an analysis worker, a projection of the events of a day | | not modelled |
| silicon perception | sensor pipelines, cool-downs | its push is the sentinel of `LocalDay` | not modelled |
| legacy wander engine, user tracking | activity engine, journal, sensors | off the current path | not modelled |
| context builder, provider, configuration, core utilities, frontends, documents | prompt assembly, HTTP, settings, views | no protocol | not modelled |

The map covers about one line in twelve of the repository's implementation. Most of
the rest is prompt text, model plumbing, parsing, device and HTTP drivers, views: code
whose order of effects is sequential and in which a model checker would only repeat a
unit test.

## 2. How the code is modelled

Common to the models:

- **Steps are await to await.** Within a process nothing runs between two awaits, so
  a handler's synchronous stretch is one action. A volatile record (`job`, `holder`,
  `work`, `lane`, `calls`, `run`, `poll`) says which await a coroutine is at and which values it
  carries across it, which is exactly what may be stale when it continues. Where
  threads or a second database make finer windows (`CognitionBooks`, `DayIngest`), the
  steps are cut there too.
- **Saves are transactions.** Every commit stands on its own. In the wander models and
  `LocalDay` an action that makes *k* of them chooses in `Saves(k)` how many reached
  the disk: all when `TornWrites` is FALSE, any non-empty prefix when it is TRUE. In
  `CognitionBooks` the parameter `saved` of an operation does the same for files. After a
  shorter prefix the process is dead and the volatile state is gone.
- **Models and handlers are choices.** A model call or a handler returns every answer
  the code can act on, its failure included. Prompts, schema repair, texts and the
  lengths of waits are abstracted; a time is "none", "set" or "due"; a digest is the
  value it is the digest of.

### 2.1 `WanderRuntime`

| variable | code |
|---|---|
| `run`, `act`, `node` | rows of `wander_runs`, `wander_activities` (by order index), `wander_nodes` (by round index) |
| `decided` | the settlement audit in `wander_decisions` |
| `wake`, `delivery` | `wander_scheduler_wakes`, `wander_deliveries` |
| `job` | the await at which the runner holds the tick lock, with the reason, the share and the interrupt epoch it carries |

A node in `running` state is told by its execution status, and by its verdict once
the review audit is written, since that is what recovery reads. `Poll` has one action
per answer of `controller.poll`: `StartNode`, `RecoverNode`, `RecoverOrphan`,
`Settle`, `ReviewHorizon`. `Returns` has one per await of the runner: the handler,
the receipt of an external completion, the reviewer, the horizon model, the
settlement model, the emotion sidecar, the share's text, the push. `Conclude` is
`complete_node_review`; `ConcludeRaises` its `ValueError` on an illegal transition.
`RequestInterrupt` is the reply and takes no lock. `Restart` drops `job`.

Left out: the self-reflection branch of a node and the comment delivery of a
chat-tool node; `GoalMode.EXTERNAL_SIGNAL`, which no strategy allows a plan to
choose; `SINGLE`, which is `COUNT` with value 1. `MaxActs` and `MaxNodes` bound what
the code leaves open; a switch is not taken, and a node not started, beyond them.

`RunLifecycle` states the promise with two variables: activities happen one after
another, completing one opens the next in the same step, an interruption or an
error closes all that is left, and the run ends with the last. `ImplementsLifecycle`
is the refinement: `phase` and `outcome` are read off `act` and `run`.

### 2.2 `WanderScheduler`

One session and its runs in the order of creation; what happens inside an accepted
run is `WanderRuntime`'s, here it is `open` until its last settlement. `runs`, `wake`
and `note` are rows; `live` is the runner's `_initialized` and
`_suppress_next_schedule`; `job` the await. `told` and `replied` are history
variables: which note an accepted planner was given, and whether a reply came since
the last run or recovery began. The actions are `initialize` (the recovery
transaction), `_start_run` with its three outcomes (`PlannerReturns`), the settlement
and the sidecar that may leave a note, `execute_chat_xhs`, `request_interrupt`, the
cancellation of an await and the death of the process. The failure back-off, and how
long a wake is in the future, are abstracted.

`execute_chat_xhs` saves its run without asking `get_active_run` (`StartChat`). The reply
that asked for it settles the open run first, but `settle_runtime_interrupt` swallows a
failure, so the two may stand beside one another. `get_active_run` then returns the row
updated last, which is left open: `Interrupt` marks any one open run, `BeginSettle` takes
any. Nothing obliges a run to end.

### 2.3 `LocalDay`

| variable | code |
|---|---|
| `today`, `late` | the clock: the calendar date, and whether `day_change_hour` has passed |
| `days`, `reservation`, `status` | `local_days`, the settings `day_reservation` and `user_status` |
| `messages`, `request` | `conversation_messages` (kind, whose it is, active day), `chat_requests` |
| `acts`, `captured` | activities with the date they were created on and the active day they began under; `local_module_events` |
| `holder` | who holds `chat.lock` and what it awaits: `wander.stop` in a close, `wander.stop` before a message, the chat model |
| `wander` | the wander task and `Wander.stopping` |
| `sentinel` | the sentinel's await, and the user message and day it has read |

`ChatEnters`, `ChatCloses`, `MessageBegins`, `ReplyArrives`, `ReplyFails` are
`Chat.send` cut at its awaits, `before_message` and `accepted_message` included.
`TickEnters` and `TickCloses` are `Lifecycle.tick` and `close`. `StopSettles` is what
every `wander.stop` does once the task has ended: settle what is open, capture what
the active day has not captured. `StopFails` is the exception that
`register_event` raises out of it. `status` has the two values `can_push` tells
apart; returning from a bath is left open. The routes are `ApiStops` (stop wandering,
turn autonomous wandering off, save the profile, go to bed), `ApiReserves`,
`ApiCancels`, `SetStatus`. Starting by hand and starting after idle time are one
action, `WanderStarts`.

Left out: the model switch (a message of kind `event` under the lock), the opening
of a day in `Lifecycle.__init__` for messages older than the days, `wander.error`,
and a settlement that `wander.stop` cannot conclude, which is the finding
`runtime_torn_recovery` of `WanderRuntime`. A plan of the local host has one activity
(`max_activities=1`), so an activity stands for a run.

### 2.4 `DayMemory` and `DailyDigestion`

| variable | code |
|---|---|
| `encoded`, `threads`, `receipts` | `encoding_batches` with their events; `thread_events` by the event that anchors the thread; `day_settlements` with the input they are for and the edges they accepted |
| `closed`, `jobs` | `local_days`, `local_day_jobs` |
| `changed` | the closed days whose messages no longer match their `source_digest` |
| `digest` | `lifecycle.digest_task`: created, or awaiting the work of a stage |
| `work` | a `Memory.encode` of the digestion and one of a request: waiting for `memory.lock`, awaiting the encoder or the judge, or done |

`DayMemory` assembles a day's plan (`PlanFor`: the day's events and the candidate
edges, within the day and to the tails of earlier threads). `CommitSettlement` writes the
accepted edges one after the other, in the order of the events they leave (`Appended`), if
the source and the candidates still are what the plan was made from (`CanSettle`). `DailyDigestion` runs it: `Encode(c)` is `Memory.encode` of
either caller, cut at its awaits and at the store's commits; `Run` is the task with a
verification before and after each stage; `CloseDay`, `Tick`, `Retry`, `Request`;
`SourceChanges` makes a closed day differ from its digest; `Restart` drops the task
and makes running jobs pending. The cognition and the diary stage are a model call
each: what the cognition stage does is `CognitionBooks`.

Left out: corrections, emotions, and the text of the screening of a pair, of which
`Related` says what it supports. A batch has one event.

### 2.5 `EventStore` and `DayIngest`

| variable | code |
|---|---|
| `text` | `conversation_messages`: the version of each message, 0 once it is gone |
| `rows` | batches with their event, the sources they were made from, the messages the event cites and the latest status of the event |
| `threads`, `settled` | active `event_threads` with their members; the days with a row in `day_settlements` |
| `owed`, `told` | changes of which the memory has not been told, or has |
| `run`, `stages` | the ingest under way, lost with its process; the stage directories |
| `missed` | history: the rows that cite what the memory was told of before it had them |

`EventStore` has the plan of a day, `commit_encoding`, the settlement with its frozen
lineage, the invalidation of events by a change, and a promoted repair: the old events
replaced by the new ones, the threads rewritten. Messages with one source fingerprint form
classes (`Twins`), as equal digests do. `DayIngest` has the run over the
selected days (`Progress`), the failures, the deaths and `People`: who edit and delete,
tell the memory, and tell it again. `commit_encoding` is two steps: `CheckSources` is its
validation against the conversation (`store.py:191`), `StoreBatch` its transaction on the
other database (`store.py:199`), which does not look at the conversation again. In between
`run.cites` is what the event is going to cite, and `run.late` whether `Reconcile` has come
meanwhile and found no event to invalidate. A stage is checked once more when it is promoted,
so its encodings are one step each.

Left out: the quality repair, the receipts of repairs, the refresh of the read model.
Every day of the instance is over, a batch is a session of a day, sessions of a day
follow one another, a settlement offers one continuation, deletion, revocation and
clearing are one kind of change.

### 2.6 `BookLedger` and `CognitionBooks`

| variable | code |
|---|---|
| `contents`, `files` | every raw text there ever was, with its receipts and the revision it replaced; the revision each entry file has |
| `ledger` | `cognition_maintenance/items`: status, revision it is for, whether automatic, whether restored |
| `runs` | the checkpoints of the daily runs |
| `lane` | the run under way in each book, at an await or between two writes |
| `requests`, `preview` | what a person has asked for, and may send again; a signed preview in hand |

`BookLedger` has one operator per operation of `maintenance.py` and `manual.py`, each
with the number of its writes that were made. `CognitionBooks` runs the two lanes from
their checkpoints, fails their calls, kills the process and lets a person act.

Left out: renaming, aliases, entities, suggestions and backups; each book has one
entry and a run makes one proposal.

### 2.7 `PostTransfer` and `Handover`

`post`, `people` and `out` are at the old home, `into` and `arrived` at the new one;
`calls` are `move_hosted_post` and the cancellation, each at the request it awaits;
`requests` are on their way or being handled, and outlive the call that gave up.
`Handles(r)` is the route at the old home, the commit in two steps since it awaits
the proof of the new home. `Changed` and `Renamed` change what a snapshot covers.
`Handover` says the post is at one home, is not changed while frozen, and arrives as it
was frozen; `ImplementsHandover` maps `home` and `text` to the rows of both homes.

One post, one destination and one author; content, comments and likes are one version
number, the names of people another; identifiers are taken from a bounded set of unused
ones; the later life of the post at its new home is not modelled.

### 2.8 `PhonePlayer` and `PlaybackSession`

| variable | code |
|---|---|
| `app` | the media session of the app: the title it shows and whether it plays |
| `guard` | `NeteasePlaybackGuard`: the song and token it is armed for, and whether it keeps a receipt |
| `rows`, `heard`, `finished` | `playback_sessions`; the `heard` events; the `finished` and `track_finished` events |
| `live`, `memory` | `_session`, and the rest of what the service remembers |
| `holder` | who holds `_lock` and which command is awaited |
| `poll` | the loop of `integration.py` and the reading it carries |
| `used`, `episodes`, `asked` | history: tokens, episodes, whether a person asked since the process took up a session |

Each request is an action up to its command (`Start`, `Pause`, `Resume`, `Skip`, `End`)
and one behind it (`Started`, `Paused`, ...), or `CommandFails`: refused, lost, or carried
out in whole or in part and not answered. `observe` has one action per branch, from
`ObserveNothing` to `ObserveSong`; `BoundaryTaken` is its end receipt with the `_advance`
behind it. `Commits` lets the process die between the event of a step and its row; `Expire`,
`PauseLasts` and `GraceEnds` are the time; `Restart` is `__init__` with the store's.
A command is handled by the phone as one step; the guard finishes or gives up whenever it
may.

Left out: the computer as a device, the quiet flag, a pause time-out of zero, the three
seconds the guard goes on pausing behind its receipt, titles that a device does not
publish. `ended`, `external` and
`superseded` are one status, of a session that is over nothing else is kept, and its
terminal event is not modelled.

## 3. What the runs check

| run | instance | states | shows |
|---|---|---|---|
| `runtime_torn` | two activities planned, room for one more, two rounds each, a count goal, deadline horizon, torn writes | 763 thousand | `OneAtATime`, `InterruptWins`, `OneShare`, `NoReplay`, `ImplementsLifecycle` |
| `runtime_live` | two activities, one round each, a timer, an open end and a sleep as goals, both horizon modes, whole handlers | 202 thousand | `FailureClosesPlan`, `DeadlineEnds` |
| `scheduler_torn` | four runs, torn writes | 577 thousand | `NoGhostPlanner`, `PlansAlone`, `NotesUsedOnce`, `ReplySilences`, `RunsGoOn` |
| `local_torn` | two dates, two messages, one activity, one sentinel message, restarts, torn writes | 434 thousand | `ExchangesWhole`, `SentinelFresh`, `EvidenceComplete`, `ClosedDaysFrozen`, `LockReleased` |
| `digestion` | three days, four events, three disturbances | 375 thousand | `AsksOnce`, `CompletedIsStored`, `ThreadsReceipted`, `ChangedIsRefused`, `JobsSettle` |
| `books` | one run over each book, two bodies of which one has a refused title, two disturbances | 110 thousand | `SavedOnce`, `CompletedOwesNothing`, `RejectedStaysOut`, `SavesAsPlanned`, `WorldRunEnds` |
| `transfer` | two calls at once, six identifiers, four disturbances | 277 thousand | `OneHome`, `NothingLost`, `ImplementsHandover`, `Arrives` |
| `ingest` | three messages, two of them twins, two days, two changes, one fault | 1.08 million | `TrueUnlessMissed`, `ThreadsFollow`, `RepairedWhole`, `DaysSettle` |
| `playback` | two songs and a title of the person's own, two sessions, two tokens, two disturbances | 915 thousand | `StoredIsLive`, `HeardOnce`, `RestartIsSilent`, `FinishIsRecorded`, `PausesEnd` |
| `runtime_torn_recovery`, `local_roll`, `transfer_stuck` | the smallest instance that shows it | | a finding each |

*Runtime.* `OneAtATime`, `InterruptWins`, `OneShare` are invariants over every torn
handler; `NoReplay` says what a step may never do; `FailureClosesPlan` that a failed
node takes its plan with it, which holds when handlers are whole and fails when they
are torn (section 6); `DeadlineEnds` that a plan with a deadline ends whatever the
horizon model answers.

*Session.* `NoGhostPlanner`: once a process has initialised, a run is planning exactly
while its planner is awaited. `PlansAlone`: whatever the chat tool has left open beside
one another, a plan is made only behind runs that have all ended. `NotesUsedOnce`.
`ReplySilences`: after a reply nothing that returns late schedules another plan, but for
the run a reply did not reach because a chat-tool run stood beside it (section 6).
`RunsGoOn`: as long as each run that is opened ends, every run is followed by another, so
no dead, cancelled or failed planner, no lost wake and no reply leaves the session silent. The
condition is needed: a run torn as in the finding of `Recoverable` never ends, and while
it is open `get_active_run` returns it and no plan is made.

*Local host.* `ExchangesWhole`: a reply follows its message directly, on the same
day, and no request stays running behind a later message. `SentinelFresh`: the
sentinel never speaks behind a message it has not read. `EvidenceComplete`: what was
begun on a day has ended and is captured before the day is closed.
`ClosedDaysFrozen`: nothing is added to a closed day and it is not opened again;
`LockReleased`: every holder of the chat lock gives it back.

*Digestion.* `AsksOnce`: neither a second caller nor a retry asks the model for what is
stored. `CompletedIsStored`: a completed memory job means a settlement over every event
of the day. `ThreadsReceipted`: the threads are what the receipts accepted, no more and
no less. `ChangedIsRefused`; `JobsSettle`.

*Books.* `SavesAsPlanned`: nobody replaces a revision other than the one the plan on
record, or the review, was made for. `SavedOnce`,
`CompletedOwesNothing`, `RejectedStaysOut`; `WorldRunEnds`: a world run that is started
again after every failure completes.

*Transfer.* `OneHome`, `NothingLost`, `ImplementsHandover`; `Arrives`: what has left the
old home is shown at the new one, if the move is tried again.

*Ingest.* `TrueUnlessMissed`: an active event cites what the conversation says, or something
of whose change the memory is still to be told. Excepted is the event of whose change the
memory was told before it had it (`missed`, section 6): without the exception TLC finds
that case. `ThreadsFollow`, `RepairedWhole`;
`DaysSettle`: once people stop, every day is settled and repaired, unless one of the
blockades named in `Jammed` and `Barren` stands before it.

*Playback.* `StoredIsLive`: whenever nobody holds the lock, the session in memory is the
only one in the store that is not over, and the row says what the memory says.
`FinishIsRecorded`: no step goes on to another song by itself, or waits for one, unless the
end of the song it leaves is on record. `HeardOnce`, across pauses and restarts.
`RestartIsSilent`: before a person asks, a new process puts nothing on and claims nothing.
`PausesEnd`: a pause that has timed out is resumed, contradicted by the phone, or closed.

Type invariants are stated in every module. Those of the runtime, the session, the local
host, the books, the transfer, the ingest and the playback are proved, and no run repeats
them; of that of the digestion the proof needs, and has, the rows without the plans.

### Bounds

- *Runtime*: two activities are needed for a successor, a third for one that a review
  switches to beside one already planned; two rounds for a node that continues and for a
  stale node below a running one. With one goal and one horizon mode the torn run stays in
  minutes; the live run covers the other goals and modes. The theorems remove the bounds.
- *Session*: a note needs the run that leaves it, the run that claims it and one that
  must not; the fourth is a chat-tool run between them, or beside one of them.
- *Local host*: two dates for a day that is closed and one that is open, two messages for
  one that overtakes the sentinel or an earlier reply; one activity and one sentinel
  message, since each is alone in its task. `local_roll` has a third date, which an activity
  begun after midnight needs to meet the next day's end. The theorems remove the bounds.
- *Digestion*: two batches on one day for an encoding cut off in its middle; three days
  for a thread that is continued twice, and for a day settled between or after others;
  three disturbances for a failure, a restart and a second caller in one trace.
- *Books*: one run over each book is enough for a resumed run to meet a person; two
  bodies tell a proposal from an edit; two disturbances let a death and a request, or two
  requests, fall into one run.
- *Transfer*: two calls for a cancellation beside a move; six identifiers are never all in
  use; four disturbances for a cancelled, re-prepared and lost exchange. The theorems
  remove the bounds.
- *Ingest*: twins need two messages, a continuation needs a second day; two changes for an
  edit during a repair of an edit; one fault for a stage that is left behind.
- *Playback*: a list of two songs has a next one and an end; a second session is what
  supersedes the first; the second token tells the receipt of an old command from that of
  a new one; two disturbances let a death meet a lost reading, a refused command or a change
  in the app. `loop` and `one` differ from `list` only in where the queue goes next. The
  theorems remove the bounds.

`Deadlock` is checked where the system cannot stop. `books`, `ingest` and `playback` say
`CHECK_DEADLOCK FALSE`: they come to rest when all is done and the bounds are used
up. In the wander models and `LocalDay` replies, restarts and clocks are always
possible, so a stuck system shows as a liveness violation and not as a deadlock.

### Mutants

Each property of a passing run has a mutant in `PROJECT.json`: a definition of the
model, replaced as a plausible bug in the code would change it (a dropped guard, a
reason not re-read, a recovery that replays, a capture forgotten, a verification left
out), under which TLC finds the property violated.

## 4. Fairness

- `WanderRuntime`: weak fairness of `Poll`, since the creator loop ticks again after
  every tick and retries after an exception (`wander_creator.py:883-888`); of
  `TimePasses`; strong fairness of `Returns`, since an await that a restart cuts off is
  made again by the next tick, and the adapters bound their calls by time-outs. Nothing
  is assumed of the user, of restarts, or of which answer a model gives.
- `WanderScheduler`: a dead process is started again and a wake falls due (weak fairness of
  `Initialize` and `TimePasses`); the creator loop, which a reply stops, is started again
  whenever the user has been idle (`StartRun`); a planner has a time-out
  (`PlannerReturns`) and the sidecar is a bounded call (`SidecarReturns`). These are
  strong, since a death or a cancellation may cut each off, and those of the first two
  are of the step after which the process still lives: not every process dies half way
  through its saves. Nothing is assumed of settlements or of chat-tool runs: that they
  end is the condition of `RunsGoOn`, not a fairness.
- `LocalDay`: the clock goes on; `Lifecycle.loop` ticks every two seconds and finds the
  lock free in one of its ticks (strong fairness of `TickEnters`); the wander task, which
  looks at `stopping` after every tick, and the awaited calls return. `LockReleased` needs
  no fairness of `WanderBegins`: a stop must end even if the wander task is about to
  begin another node.
- `DailyDigestion`: model calls have a time-out, `memory.lock` is first come first
  served, the tick runs every two seconds.
- `CognitionBooks`: a run is started until it is completed, as the digestion's retry does
  when it is asked to; what it awaits comes back.
- `PostTransfer`: the owner moves the post again as long as it has not arrived; a request
  that is not lost is handled, a call goes on when its answer comes or its time is over.
- `DayIngest`: the host starts a run at every start and every day; failures and deaths
  are finitely many. Nobody is obliged to tell the memory of a change.
- `PlaybackSession`: the loop goes on every two seconds and `asyncio.Lock` serves its
  waiters in their order (strong fairness of `Polls`); a command is answered or given up
  after twelve seconds (`devices.py:26`), and a process that died is started again (weak
  fairness). Nothing is assumed of the person, the app or the guard.

## 5. What is proved

TLAPS checks the following for every value of the constants that meets the `ASSUME`s
of the modules: any plan length and any number of activities and rounds, any goals
and horizon modes, any number of runs, dates, messages, days, events and identifiers,
with and without torn writes. Each argument is one inductive invariant: the properties
alone are not inductive, and what has to be added is what a coroutine may rely on when
it continues behind an await.

**`WanderRuntimeProofs`**: `TypeCorrect`, `OneAtATimeHolds`, `PlanClosedHolds`,
`InterruptWinsHolds`, `OneShareHolds`, from

    SafetyInv == TypeOK /\ JobFits /\ UnderWay /\ InOrder /\ Untouched
                 /\ OneAtATime /\ InterruptWins /\ OneShare

`JobFits` ties the volatile `job` to the rows: an await at a node is at a running node,
a settlement that is awaited is of an activity in `settling`, a share that is composed
is of a completed run. `UnderWay`: an open run has an open activity, so that settling
the last one is what ends it. `InOrder`: what is planned lies behind what is open, which
makes the successor unique. `Untouched`: no reply has reached an activity not yet begun,
so that activating one cannot lose an interrupt.

On `SafetyInv` rest also `NoReplayHolds` (no restart executes a node twice),
`WakeBeforeEndHolds` (the wake of the next plan is durable before its run ends),
`EndedIsFinalHolds`, and `LifecycleImplemented`: every step, torn or whole, is a step of
`RunLifecycle` or leaves `phase` and `outcome` alone.

`FailureClosesPlanHolds` is the one theorem about whole handlers: its hypothesis is
`TornWrites = FALSE`, since with torn writes it is false (section 6). A failed node is
recorded long before its activity ends, so the invariant carries the failure along:

    WholeInv == nothing is in flight in an activity that waits or settles
                /\ nothing is recorded of one that has not begun
                /\ Doomed(a) => Closes(a)
                /\ what settles a doomed activity is its interruption or its error

`Doomed`: a node was aborted; `Closes`: a reply is on record, or the activity settles for a
closing reason, or has ended so. The last conjunct speaks about the volatile `job`: the
settlement model is awaited with the reason read before, and a reply meanwhile may only
turn it into an interruption.

**`WanderSchedulerProofs`**: `SessionTypeCorrect`, `NoGhostPlannerHolds`,
`PlansAloneHolds`, `NotesUsedOnceHolds`, `NotesOfCompletedHolds`,
`ReplySilencesHolds`, `EndedStaysHolds`. `SessionInv` adds `JobFits` (what is awaited is a
run in the state that await is made in), `ClaimFits` (a planner holds the note it claimed
and no other), `PlannerAlone` (beside a run that is being planned nothing is open), `InLine`
(runs are created in order, so that a new one is the youngest), `ReplyFits` (a reply has
marked whatever could still write a wake, or a chat-tool run younger than it) and
`KindFits`.

**`LocalDayProofs`**: `LocalInvariant`, `ExchangesWholeHolds`, `SentinelFreshHolds`,
`EvidenceCompleteHolds`, `DaysInOrderHolds`, `ClosedDaysFrozenHolds`.

    LocalInv == TypeOK /\ Rows /\ HolderFits /\ WanderFits /\ ActsFit

`HolderFits` is the heart: the request the foreground will answer is still the last one
and is still running, and the day it will write to is still the one in `days`, although
the lock does not stop the clock, the routes, the wander task or the sentinel. `Rows`
says what the tables look like between two transactions (which exchange may be half
done, which day may be missing); `WanderFits` and `ActsFit` that an activity which is not
captured is either under way or of the active day.

**`DailyDigestionProofs`**: `AsksOnceHolds`, `CompletedIsStoredHolds`,
`ChangedIsRefusedHolds`, `RunningHasTaskHolds`, `CompletedStaysHolds`. `DigestionInv` is
`RowsFit`, `WorkInv` and `JobsInv`: the lock of the memory has at most one holder
(`LockFits`), the batch it is about to encode is not stored yet and everything before it
is (`PlanFits`), who reports success has a receipt (`SuccessFits`), and a running job is
the one the task is at (`TaskFits`, `RunningHasTask`).

`ThreadsReceiptedHolds` adds `ThreadsInv`: the threads are `Woven` of the pairs the receipts
accepted (each begins at its anchor, no two share an event, the neighbours in them are the
pairs). The commit is a loop over the accepted edges. `Turns` shows that the loop is what
its turns make one after the other, `AppendWeaves` that one turn of
`_append_continuation` adds one pair, and `LoopWeaves` that all of them add all: both by
the least event at which it would fail. The commit checks what it relies on
(`_validate_day_candidates`), so nothing has to be known of how the plan was chosen.

**`PostTransferProofs`**: `TypeCorrect`, `OneHomeHolds`, `NothingLostHolds`, and the
refinement `HandoverImplemented`. `TransferInv` has to speak about answers on their way
and about a commit that waits for its proof: an answer "committed" stays true
(`ToldForGood`), a commit asked about is of the row as it is now (`AskedOfRow`), and once
the new home has confirmed it, what is staged there is what the old home thinks
(`ProvenStaged`); a frozen post is what its snapshot says and one that left is blank
(`FrozenHere`); a cancelled transfer has no staged row of its number (`CancelOfCall`,
`CancelledGone`).

**`PlaybackProofs`**: `TypeCorrect` and `StoredIsLiveHolds`. Two facts carry the second:
`OneOpen`, at most the newest row is not over, dead or alive, which is what `save_session`
does for all rows at each save and what a new process relies on when it takes up a row; and
`Agree`, while the process lives that row is the session in memory, and says the same.

Three more theorems rest on it: `RestartIsSilentHolds`, from `Held` (before a person asks,
the queue may not go on, no song is in its grace, and no command that could put one on is
awaited); `FinishIsRecordedHolds`, from `Recorded` (while the next song is
awaited by itself, the end of the one in memory is on record already); `HeardOnceHolds`,
from `Numbered` (what was heard of the song that sounds was heard in the newest session)
and `Unheard` (an episode the service has not heard of is in no event). A restart is the
hard case of the last: the new process forgets what was heard and must take the episode
back from the events.

**`CognitionBooksProofs`**: `TypeCorrect`, `SavedOnceHolds`, `CompletedOwesNothingHolds`,
`RejectedStaysOutHolds`, `SavesAsPlannedHolds`, from

    BooksInv == StoreInv /\ RunsInv
    StoreInv == BooksTypeOK /\ ItemsShaped /\ ContentsFit /\ SavedOnce /\ WaitingIsOut
    RunsInv  == RunsTyped /\ ReviewSeen /\ ReviewFits /\ RequestsFit /\ PreviewFits
                /\ LanesFit /\ OverIsConcluded

`StoreInv` is about the files alone and is kept by every write of every operation, so that
it may be interrupted anywhere: which statuses an item of each kind can have
(`ItemsShaped`), that a receipt in an entry has an item in the ledger (`ContentsFit`), and
that what waits for a person is not in the book already (`WaitingIsOut`), without which a
rejection could come too late. `RunsInv` ties the checkpoints and the lanes to the files: a
lane works on the run whose checkpoint it has, a review saw a revision there was, and a run
at its finish, or completed, is `Concluded`.

**`DayIngestProofs`**: `IngestInvariant`, `TypeCorrect`, `TrueUnlessMissedHolds`,
`ThreadsFollowHolds`, `RepairedWholeHolds`, from

    IngestInv == Typed /\ RowsFit /\ GoneFits /\ RunFits /\ ThreadsFollow
                 /\ TrueUnlessMissed
    RunFits   == WorkFits /\ PlanFits /\ StoringFits /\ StageFits /\ OfferFits

`RunFits` is what a run may rely on behind a model call although messages changed and
people told the memory: its plan still is of one day and one session each (`PlanFits`); what is about to be stored is
true, owed or already told (`StoringFits`); the
stage is a copy of the store but for the statuses, with one new batch of each session
encoded so far (`StageFits`); what a settlement offers to link still are two events in
force (`OfferFits`). Every step but an encoding and a promotion only outdates events
(`Outdates`), which keeps all of that. `TrueUnlessMissed` survives a deletion because an event
is kept for an exact twin only, and being twins is transitive; it survives a promotion
because the stage is checked against the conversation once more. `ThreadsFollow` survives
one because an event is of one session: a replaced event has at most one heir, and each
heir is taken once, in the order of the members it follows. `RepairedWholeHolds` is an action
property: a promotion leaves nothing of the old day in force.

**Proved and in no run**, since a run would only repeat it: the type invariants,
`DaysInOrder`, `PlanClosed`,
`WakeBeforeEnd`, `EndedIsFinal`, `NotesOfCompleted`, `EndedStays`, `RunningHasTask`,
`CompletedStays`.

**Model-checked only**: everything about liveness (`DeadlineEnds`, `RunsGoOn`,
`LockReleased`, `JobsSettle`, `WorldRunEnds`, `Arrives`, `DaysSettle`, `PausesEnd`), since
fairness and ENABLED are out of the prover's reach. Every other property of a passing run
is a theorem. What `Candidates` selects is checked only through the runs. No module declares
a RECURSIVE operator; the one loop that is proved about is a recursive function.

## 6. Findings

`PROJECT.json` quotes the line of the repository each of these contradicts.

1. **`runtime_torn_recovery`**: `begin_node` commits the node, its activity and the run
   one after another. A death after the first leaves a running node under a waiting
   activity; recovery raises on every tick from then on.
2. **`local_roll`**: evidence is found by calendar date and registered by active
   day. An activity begun after midnight, before the roll-over, belongs to the old day;
   once the new day is open its capture raises `module_event_identity_conflict`, so
   `wander.stop` raises: the new day never closes and no message is accepted.
3. **`transfer_stuck`**: a snapshot's digest covers the names of those who commented. If
   the answer of prepare is lost and one of them renames, no retry fits the frozen
   transfer, and the new home has no row to cancel it by.

Other behaviour the models have, which no run is kept for:

- *Runtime.* With torn writes `FailureClosesPlan` fails: `complete_node_review` commits the
  failed node before the reason (`runtime_controller.py:199`), and recovery settles the
  activity as a natural stop. A reply during a chat-tool run leaves
  `_suppress_next_schedule` set (`runtime_runner.py:1155`); the next plan is dropped as
  interrupted although nobody replied to it.
- *Session.* A chat-tool run that stands beside an open run hides it from the next reply
  (`get_active_run` returns one row, `runtime_store.py:878`): the reply marks one of them,
  the other ends as if nobody had replied and schedules the next plan. A run that can
  never end, as in the first finding, keeps its session silent.
- *Local host.* `Lifecycle.close` commits the closed day before it resets the reservation
  (`lifecycle.py:102`). A death between them closes the next day on its own date.
- *Digestion.* The settlement of a day reads the threads as of that day
  (`day_settlement_assembler.py:296`), the commit compares with their tail of now
  (`store.py:2795`). Once a later day has extended a thread, every retry of the earlier day
  that continues it is refused with `ThreadConflictError`, although
  `src/docs/LOCAL_APP.md:44` promises that a retry finishes.
- *Books.* An entry of the self book whose title is refused fails every retry of its day
  (`autonomous.py:143`). A death behind the unlink of a deletion, and an entry created
  anew, leave a deletion that can never be restored. A death between the row `pending` and
  the save leaves an automatic item in the queue for people. Rejected content comes back
  through a restoration. An item planned as new whose entry a person then creates can be
  neither applied (`maintenance.py:286`) nor rejected (`:277`). A request number used for
  delete, restore and delete again answers `deleted` while the entry stays.
- *Transfer.* A lost answer to a cancellation, and a move begun meanwhile, leave a staged
  row of a cancelled transfer; a home that has such a row, of a post another home took, can
  never discard it.
- *Ingest.* `commit_encoding` validates its sources (`store.py:191`) before its transaction
  on the other database begins (`:199`). An edit in between, with the call that tells the
  memory of it, leaves an active event that is false and nothing that would ever invalidate
  it, although `src/memory-cognition/README.md:17` says that "来源消息被编辑或删除时，相关事件的有效状态会失效".
  It is what `TrueUnlessMissed` excepts. A stage directory that a dead process left makes every later repair of its day
  `stage_conflict`, and the days behind it wait (`day_repair_staging.py:449`). The number
  of a batch does not cover its digest, so that a batch whose text changed before it was
  encoded is an `ImmutableConflictError` in every run. When the first or last message of a
  session is deleted before the settlement, the session is encoded again and one source has
  two active events. Days without an event are selected in every run and can keep later days
  out. A settlement may link to an event that was invalidated during its model call; a
  repaired day is not settled again. An edit told twice invalidates the repaired event,
  although `store.py:329` says "Replaying the same mutation is a no-op"; the day is repaired
  once more, so `DaysSettle` holds. The blockades by a stage, a number or a grown thread
  are what `DaysSettle` excepts by name (`Jammed`, `Barren`).
- *Playback.* A reading with an end receipt that is handed in behind a "next" takes the
  receipt as the end of the new song: `track_finished` for a song that has only begun,
  although `playback_receipt` promises that only a boundary of the track counts
  (`service.py:394`); `FinishIsRecorded` and `StoredIsLive` hold all the same. A restart forgets the receipts taken, and a `resume` or `next` that is
  refused lets the queue go on all the same (`service.py:147`), so that a receipt the phone
  still keeps is taken a second time. `end` of a session that waits for a song is refused
  when the phone shows another title (`service.py:153`). A lost reading turns a session
  that waits into one in doubt, which no time-out closes. What is heard of the current song
  after a restart is not recorded when the last episode on record is an earlier song's. A
  terminal event is committed before its row: after a death between them `playback_receipt`
  says `paused_timeout` of a session that lives (`service.py:383`). Not in the model: the
  guard's three settle seconds can pause a next song that has started by itself.

## 7. Plan

Done: `WanderRuntime` with `RunLifecycle`, `WanderScheduler`, `LocalDay`,
`DailyDigestion` over `DayMemory`, `DayIngest` over `EventStore`, `CognitionBooks` over
`BookLedger`, `PostTransfer` with `Handover`, `PlaybackSession` over `PhonePlayer`. Every property of
theirs that is not about liveness is proved.
Next, in this order:

1. **Wish commit and wish board**: the idempotent commit of a self-reflection node and
   its replay after a crash; statuses and merges.
2. **Abstract specifications** of the ingest, the books and the playback, with the
   refinements proved as those of `RunLifecycle` and `Handover` are.
3. **Period cards and context shadow** of Memory V2: a summary of days that are repaired
   later.
4. **Xiaohongshu grant, device lease, delivery gate, mode switch**: small protocols of
   threads, time-outs and bounded memories.
