# Codeberg in TLA+

TLA+ models of Codeberg, the local code-search assistant of this repository, with
the TLC configurations that check them on small instances and TLAPS proofs for
every instance. All paths below are relative to `src/`.

## 1. The system

| Part | Code | State it keeps | Operations |
|---|---|---|---|
| Search runs | `agent/src/web/runs` | in memory the active run, the admission chain, the journal reads in flight and the stops of each chat; on disk one `run.json` and `events.jsonl` per run | submit, poll, stream, stop, recover, close |
| Session store | `agent/src/web/sessions` | `<chat>.json` with its transcript and the run it points at; a queue of writes per chat | save, upsert, remove, list |
| Learning job queue | `agent/src/core/learning/{queue,worker,service}` | one file per job in one of four directories; one worker, one retry timer | enqueue, claim, complete, fail, release, recover, reconcile |
| Agent pool | `agent/src/web/model-selection/reloadable.ts` | generations of agents, with the users of each | acquire, retain, release, close |
| Background tools | `agent/src/web/background` | a record per call; active jobs | start, progress, cancel, close, recover |
| Scheduled runs | `agent/src/web/schedules` | `queue.json`; a tick per second | create, cancel, dispatch, settle |
| Write gate, clean-up | `agent/src/web/server`, `agent/src/web/resources` | counts of writes in progress | acquire, release, clean up |
| Projects, runtimes | `agent/src/web/projects`, `agent/src/web/runtime` | handlers and runtimes by project | route, create, dispose, delete |
| Learning store and analysis | `agent/src/core/learning` | an append-only event log, artifacts, datasets | record, extract, consolidate, evaluate |
| Agent loop, context, compaction | `agent/src/core/{history,history-checkpoints,loop}.ts`, `agent/src/core/{context,request-budget,agent}` | per chat, history files, tool results in files, checkpoints of histories and of requests | fit a history, fit a request, retry, move a result to a file |
| Tools, MCP, providers | `agent/src/core/{tools,mcp}`, `agent/src/providers` | clients of services | call a tool, generate |
| Canvas | `agent/src/core/canvas`, `agent/src/web/canvas`, `agent/web-ui/src/canvas` | one scene and its revision per chat, a setting, a lock that processes share; a feed; what each tab edits and has seen | draw, save, merge, reload, copy for a branch, switch off |
| Browser sessions, decisions, hooks | `agent/src/core/{browser,decisions,hooks}` | child processes by chat | browse, ask, run |
| Web UI: a chat's tab | `agent/web-ui/src/sessions` | queued prompts, the turn under way with its run, request and cursor, what is shown | submit, stop, steer, retry, regenerate, resume, follow, look for others' turns |
| Web UI: pages and panels | `agent/web-ui/src/{components,lib,docs}` | what is rendered | the clients of the above |
| Daemon | `daemon/internal` | catalog of projects; a supervised indexer each; connection slots | activate, add, delete, stop, search |
| Engine | `core` (C) | chunk index, graph, manifest, watch threads | index, search, status over a socket |
| Launcher | `launcher/internal` | configuration, child processes | start, set up, update |

How they interact. A tab posts a submission; `SearchRuns.admit` queues it behind the
chat's other admissions, writes the run's journal and the session's pointer, and
starts `executeRun`, which takes an agent from the pool, streams the provider's
chunks into the journal and to the subscribers, runs tools through the tool journal,
and saves the transcript in the session store. Feedback on an answer is recorded in
the learning store and enqueues a job. The scheduler and the background tools start
turns and calls on behalf of a run. The agent's tools ask the daemon, which asks the
engine of the project.

The tab puts prompts in a queue, sends the next one when the last turn is over, follows
its run over connections that break, and reads the saved chat again when others extend
it. Agents, tabs and the settings write one canvas file; a turn's agents are built from
the settings as they are when it starts. Each turn's history is fitted to the model's
budget with checkpoints that earlier turns of the same or another chat have left.

What is hard. The server is single-threaded but nearly every operation awaits
between a check and its effect; the process may die between any two file
operations, and the next one must make sense of the disk; clients retry, send
twice, poll and stop while a submission is still being read; storage calls fail;
several chats, turns and background jobs share agents and files. PROJECT.json lists
the hazards with their lines.

What makes each part correct:

- runs: one owner per chat; one execution per request; nothing shown that a journal
  does not hold; effects of tools recorded; a stop or a close that returned is final
  and always returns; a transcript that is settled, saved, and never loses a prompt;
- queue: no event lost for good, none lost with the end of a run, the queue drains;
- tab: an answer is shown under its question; a tab that says it is ready has nothing
  going on; its follow-ups are accepted; no prompt is lost; it comes to rest;
- canvas: no edit lost to one who has not seen it, tabs end up with what is stored;
- context: a turn is shown its own chat, whole; nothing of it becomes unreadable;
- pool: a pool in use is open, a pool no longer used ends;
- background tools: at most one execution per call, a true final record, the limits;
- schedules: each occurrence is run at most once, and not forgotten;
- write gate and deletion: clean-up and deletion exclude writes and running work;
- supervisor: no indexer after Stop returned; a crashed one comes back;
- slots: at most four connections per socket, each slot given back;
- engine: searches see a consistent index while it is rebuilt.

## 2. Modules

| Module | What it is | Status |
|---|---|---|
| `SearchRuns` | runs and session store of one chat | checked |
| `RunOutcomes` | what SearchRuns promises of a run to whoever asks later; abstract | implemented by SearchRuns (checked) |
| `MCSearchRuns` | symmetry for TLC | |
| `JobQueue`, `MCJobQueue` | one job of the learning queue | checked |
| `JobQueueProofs` | theorems about JobQueue | proved |
| `AgentPool` | generations of agents | part of CanvasTurns |
| `Canvas` | one chat's canvas: store, feed, tools and tabs | part of CanvasTurns |
| `CanvasTurns`, `MCCanvasTurns` | turns that share agents and draw on the canvas | checked |
| `CanvasProofs` | theorems about AgentPool and Canvas, and that CanvasTurns implements both its parts | proved |
| `ChatContext`, `MCChatContext` | what a turn shows the model of its chat | checked |
| `ChatContextProofs` | theorems about ChatContext | proved |
| `ChatTab`, `MCChatTab` | one tab and its chat | checked |
| `ChatTabProofs` | theorems about ChatTab | proved |
| `BackgroundJobs` | background tools of several calls | part of Work |
| `Scheduler` | scheduled runs of one chat | part of Work |
| `Work`, `MCWork` | composes the two with the write gate, clean-up and deletion of a chat | checked |
| `WorkProofs` | theorems about BackgroundJobs, and about it and the schedules inside Work | proved |
| `Hosting`, `MCHosting` | one project over the agent's server and the daemon | checked |
| `HostingProofs` | theorems about Hosting | proved |
| `Indexer`, `MCIndexer` | one repository of the engine | checked |
| `IndexerProofs` | theorems about Indexer | proved |
| `SearchRunsProofs` | theorems about SearchRuns | proved |

### SearchRuns

Every map of the class `SearchRuns` is keyed by the chat, so one chat is modelled. An
action is the code between two awaits; whatever may run while an await is pending is
another action. A run's id is a hash of chat and request id, so the request id stands
for it.

| Variable | Code |
|---|---|
| `journal` | `.runs/<chat>/<run>/`: the record's status, its prompt and fingerprint, the chunks and the tool entry of `events.jsonl` |
| `session` | `<chat>.json`: whether it exists, `serverRunId`, messages |
| `active`, `run` | `SearchRuns.active` and the `SearchRun` objects: phase of `start`/`executeRun`, status, events delivered, the chunk whose append has returned (`pushing`), abort reason, state of the tool |
| `chain`, `post` | `admissions`, and each submission with the await its `start()` has come to |
| `writes` | `serial()` of the session store |
| `loading` | `SearchRuns.loading`: one read per directory, shared by its callers |
| `boot`, `closing`, `closeWaits` | `initialize()` and `close()` |
| `stopper`, `requested` | `RunStops` |
| `deleting` | a DELETE between its check and `remove()` |
| `executed`, `effects`, `doomed` | history, for the properties only |

`Submit` to `StartFail` and `WriteAdmit` are `admit()` and `start()`; `LoadRead`,
`LoadPublish`, `LoadSave`, `LoadFail` are `readRun()` and `recoverInterruptedRun()`;
`Emit` to `End` are `executeRun()` with `publish()` split at its append; `ToolStart`,
`ToolEffect`, `ToolRecord` are `executeRecorded()`; `Stop*` are `RunStops.stop`;
`Close*` are `close()`; `Write*` serve the session store's queue; `Restart`,
`BootLoad`, `BootSave` are the death of the process and `recover()`. `Restart` clears
every variable that is memory and keeps the disk, and is enabled in every state.

Abstractions: a message is its turn, its role and the number of chunks it was built
from; a run has at most one tool call; titles, flags, selection of models, the learning
hook, schedules and background tools are left out. A storage call that fails (at most
`MaxFaults`) fails as a whole. A regeneration submits the chat without its last answer, or
all of it when its last prompt has none (`Regenerated`).

Two windows of the code are not guarded, and each breaks a sentence of the code's own
comments (section 3). `Windows` opens them one by one; in the other runs an extra
conjunct, commented where it stands, keeps the interleaving out, so that the other
properties are checked of everything else.

### JobQueue

A job's id is a hash of what it is about and no operation looks at two jobs, so one
job is modelled. `file` has its record in each of the four directories, `recent` the
order of their `updated_at`. Enqueuers (`Ask*`), the worker (`Claim*`, `RunRead`,
`Complete`, `Fail`, `Release`, `Settle*`) and the lease timer (`Recover*`) interleave
between their awaits; `Crash` and `Boot*` are a death of the process and
`LearningService.start()`. The four reads of `find()` are one step. Settings that
disable a kind of job, source refreshes and `recoverRetryableFailures` (which acts
only on failures that a version without the retry limit has left) are left out.
`MaxMishaps` bounds crashes, pauses of learning, and recoveries of a lease whose job
is still being run.

No interleaving is kept out. Two of them lose feedback in the code, and the history
variable `overlap` notes them: an enqueue has found a leased job and has yet to mark it
while `complete()`, `fail()` or `release()`, which looked for the mark before, has yet to
unlink it; and the worker claims the pending file while `recoverExpired()`, which wrote it,
has yet to unlink the old one, and so unlinks the claim. The feedback, or the job, then
waits for the next start, whose `reconcileJobs` queues it again, so `Crash` resets `overlap`
and with it the exception in `NoLostRequest`. `queue.test.ts:94` expects
feedback during a run to be replayed; it is, but for the first overlap. What the properties
exempt is this and nothing else: after an overlap the queue still drains, and only the
taking in of the events may wait.

### AgentPool

`gen[g]` is the generation built g-th, with the settings its agents were built from and
the progress of its pool's end; `lease` are the turns and background jobs, from the read
of the revision (`ReadRevision`) over `acquire()` to the first call of the release they
were given. A turn reads the revision before it acquires, and an agent is built from the
settings as they are then (`BuildAgent`), so a generation's agents may be newer than its
revision. `Edit` is a change of extensions or tools. One selection of model per
generation. An acquisition that retires the generation before waits for its end only if
that end begins with it (`Unused`); it does not wait for one another turn has begun. An
acquisition after `close()` is excluded as in `runtime/shutdown.ts`, which closes the runs
first.

### Canvas and CanvasTurns

`scenes` are the scenes stored so far by revision, `lock` is `.write-lock`, `write` the
request of each writer: a tool of a turn, a tab, the settings, or the copy for a branch.
`Enter` decides under the lock what a request finds (`Verdict`), `Commit` is the rename,
`Leave` the removal of the lock. `turn` is `withCanvasRecovery` (the revision a turn has
seen, and its lost mutations), `tab` is `CanvasSync` with its unsaved edits and the
merge, `feed` is `CanvasFeed`, which reads the file and publishes a revision once to the
tabs that are open. `made` is history: each edit with its author and what that author
had seen. A scene is, for each element, the edit it comes from.

`CanvasTurns` puts AgentPool and Canvas together: a turn draws if the agent it was given
was built with the canvas on; saving the settings is both a write to the store and an
edit to the pool; a run closes its generation after its tools' calls.

Simplifications: one tool call at a time per turn; background jobs that keep agents do
not draw; only the canvas switch of the settings is there; a CLI may be killed with the
lock, which nobody steals and a person removes; one reload at a time per tab, which gives
up the edits made since the click, as `sync.ts:96-105` does. A canvas that is off refuses a
tab's stream, and a browser does not ask again after a refusal (`Refused`): such a tab
gets nothing more, and `Converges` is about the others.

### ChatContext

A message is its identity, role and size; a file is the set of messages that can be read
from it, following the files it names. A turn loads the chat, fits its history to the
budget with the longest checkpoint that matches a prefix (`LoadHistory`, `HistoryFits`,
`FoldHistory` for `history.ts`), then makes provider requests (`Send`,
`CompactRequest`, `Overflow` for `request-budget`), which may be rejected, and calls
tools, whose large results move to files (`CallTool`). Chats share files and checkpoints,
and a chat can be a branch of another. `Edit`, `Branch` and `Stop` may come between any
two steps of turns.

Abstractions: the program never removes these files; a size is never 0, because
`estimateMessage()` counts 8 for a message without text (`request-budget/estimate.ts`
22-26); the key of a checkpoint is the prefix itself; because estimates are calibrated by what providers report, a request may
be compacted though it fits. A file is written at once: the model has no torn file of a tool
result, which the code would take for the whole one (see the hazard). Left out: coalescing
of two loads of one history (CLI
only), the limit of 32 passes, the ledger of evidence, hooks, and `keepRecent` (tests
only). A deadline of a model, and an overflow after output has begun, are a Stop.
Window `"archive"`: writing the history file fails (see the hazard).

### ChatTab

`runs`, `session` and `refused` are the server as its clients see it; SearchRuns is its
inside. `mail` are submissions on their way. `tab` is one page: `messages` and `status`
of the SDK's chat, the queue (`items`, `paused`, `steering`, `error`), what
`RunTransport` remembers (`link`), the Stop under way (`stop`) and the turn under way
(`op`). What an answer shows is a sequence of pairs of a run and an event of it, so that
an event that is missing, doubled or of another run can be told. `poll` is a look of
`ScheduledChatUpdates`. `Broken` says what a lost connection does in each state.

From the SDK (`ai`, external) the model takes: a question is shown before the transport
is called; a regeneration removes the last answer first; a turn whose answer ends in an
error, or throws, leaves the status "error"; resuming changes the status once the stream
is open; the parser of a stream starts from the last answer shown.

One counter of attempts per operation stands for the counters of admission and of
streams. A save of the chat may fail (`SaveDone(FALSE)`) and the turn goes on. After a
reload of the page, a submission of the old page may still be read. Others go on from
the saved chat.

Four windows are closed in the run, and described as hazards or here. `"overtaken"`:
another's turn is admitted between the tab's read of the messages and of the latest run;
`"withdrawn"`: a regeneration is stopped while the chat is being saved, and the next
prompt is refused; `"impatient"`: an answer whose connection failed is regenerated while
its run goes on, so that a Stop then stops the new request and the old run goes on;
`"settling"`: the tab goes on between a run's last event and its save, and is refused as
"active" once.

### BackgroundJobs, Scheduler and Work

`BackgroundJobs` is `agent/src/web/background`. A job's id is a hash of chat, run and
call, so the call stands for it. `record` is the job's file, `entry` the job object in
memory with its abort signal, its execution and the agent it retains; `queue` is
`BackgroundStore.serial()`, whose head first decides (`*Begin`) and then waits for its
write (`*Write`, or `*Fault` when it fails). `Report` and `Return` are the tool's
progress and end, each followed by a save of its own; `Close*` is `close()` with its
snapshot; `Exit`, `Crash`, `Boot`, `Recover*` are the end of a process and `recover()`.

`Scheduler` is `agent/src/web/schedules`. The whole file is one value `sched`, because
the code reads and writes it whole; a tick works on its own copy `tick.mem` and writes
it back, which is why the order of its awaits matters. `line` is the queue that ticks,
cancellations and new schedules share. `turn` and `ended` are the chat's runs as
SearchRuns promises them: one at a time, each with one outcome, found again by the
stable request id of its occurrence. `slots` is history. Time is a bounded clock.

`Work` puts both in one server process with `RequestWriteGate`, the clean-up and the
deletion of the chat, and says what each looks at of the others: a tool is started only
by a run, a run ends only after the tools it is starting, a clean-up waits for writes,
runs, ticks and tools, `SearchRuns.close()` closes the schedules and then the tools,
and a death of the process is a death of both. Its variables are those of the two
modules, the gate and a DELETE in progress, so an action of a part is that part's action
with the other's variables unchanged.

A DELETE looks at the chat's work (`CheckDelete`) and removes the chat some awaits later
(`RemoveChat`); the write it holds meanwhile keeps ticks out, and no more than that, so a
person's run may be admitted and start tools in a chat that is then removed. `late` notes
such an admission, and `WorkIsApart` says that it is the only way to a run or a tool in a
chat that is gone. A chat removed under a late run stays gone in Work; that the run may
write it back is in SearchRuns (run `delete`).

A schedule's name is none of the words `"human"` and `"none"` that stand for a turn of a
person and for no turn, and the tools are those of the one chat; both are named
assumptions.

Window `"shutdown"`: a server told to stop while a tick loads the chat refuses the run,
and the schedule is recorded as failed. Nothing in the repository promises otherwise.

### Hosting

The agent's server (`cached`, `handler`, `busy`, `active`, `delete`, `reader`) and the
daemon (`catalog` in memory and on disk, `lock` of the manager, `runtime`, `indexer`)
share the project's files (`disk`). `Delete*` is the whole path of a deletion: the
server reads the catalog anew, refuses a busy project, disposes the runtime and asks
the daemon, which takes the project out of the catalog, saves that, stops the indexer,
removes the data, and on a failure lists the project again. `lock` is where
`Manager.Delete` is, and doubles as the request to it and its reply. `Activate`,
`IndexerCrash`, `Restart`, `RestartFault`, `IndexerExit` are the supervisor.

An event stream is not counted as a request (`routing.ts:117`), so a deletion may find a
runtime that is being built for one (`Listen`) and wait for it. The restoring of schedules
at the start of the server builds a runtime in the same way, but does not look for a
deletion; one that begins at that very moment is left out.

Window `"stale"`: the answer to a `GET /api/projects` that was sent before a deletion
may arrive after it and put the project back into the server's cache; the next reading
of the catalog takes it out again.

### Indexer

A file has one chunk, and its contents are numbers. `table`, `graph`, `vectors` and
`manifest` map each file to the contents they were made from, in memory and (`saved`)
on disk; `dirty` is the inotify event pending for each. A batch goes through `pc` from
reading to the last save; a start with a baseline, a first walk, a watched batch and the
close differ in what they save and in which order (`job`). Every save is an action, so a
`Kill` may come between any two. A save of the table, the manifest or the graph that fails
(`TableFault`, `ManifestFault`, `SaveGraphFault`), a fragment or a whole file of which the
graph cannot be made (`GraphFault`, `RegraphFault`), and a baseline that cannot be taken
(`BaselineFault`, `CloseFault`) are warnings in the code, and the engine goes on to the next
save; `failed` notes which of the two files that matter is behind memory since. The result
of the index's last save is not looked at (`Closed`). A poll that fails ends the engine as
`Stop` does.

There are seven ways in which the model loses a change of a file, the windows; they are
listed at the head of the module. An overflow of the kernel's queue of events, which the
watcher passes over, is one of them (3): a change that is not reported. A file enters
`missed` when one of them happens to it and leaves it when a batch that has read it ends
and its part of the graph and its vector are of that contents. The invariants are about
the other files; the run `missed` shows what the first of the windows does. Outside the
model is a change that leaves a file's size and time as they were, which the baseline
cannot tell (`manifest.c` compares those first). `Unseen` says which files the next
start would take for current though not all that is saved of them is; it looks at the
vectors the dying process leaves, because the close of an engine that never became ready
still saves those of a rebuild that failed, and at the files whose last save failed
(`Unsaved`). It takes two faults to tell some of that apart, one more than the run has; the
proof (section 4) covers any number.
## 3. Runs

| Run | Instance | Shows |
|---|---|---|
| `recovery` | 2 submissions, 2 requests, 3 chunks with a tool call, browser saves, polls, deletion, 1 restart | `OneOwner`, `OneExecution`, `EffectsAreRecorded` (also: nothing was shown that the journal does not hold), `SettledTranscript`, `HistoryKept`, and `OutcomesAreKept`: SearchRuns implements RunOutcomes |
| `control` | 2 submissions of 1 request, stop, close, 1 fault, 1 restart | `StopIsFinal`, `CloseQuiesces`; under fairness `RequestsEnd`: Stop, close and submissions are answered |
| `delete` | 2 submissions and a deletion, window `"delete"` | violated: a run that is being admitted brings a deleted chat back (`runs/persistence.ts:10` says it cannot) |
| `poll` | 2 submissions and polls, window `"poll"` | violated: a live run is recovered as interrupted by a poll that looked before it was admitted (`runs/recovery.ts:5` says loaded journals have no live owner) |
| `jobs` | 2 events, 2 attempts, 2 mishaps, every overlap | `NoLostRequest`: no event is lost but through an overlap, and that until the next start; under fairness `QueueDrains` |
| `work` | 2 calls, 2 schedules (one repeating, one that waits for a tool), ten sets of bounds | `WorkIsApart`, `AtMostOnce`, `LeasesInBounds`, `OutcomeIsFinal`, `OccurrencesInOrder`, `CancelledStaysQuiet`, `FailsForItsRun`; under fairness `EndsCleanly`: what a stop left is recorded as ended, and reserved occurrences go on |
| `hosting` | 2 deletions, 1 addition, 2 requests at a time, event streams, 2 faults, a timeout, a crash, a stale read | `DeletedStaysDeleted`, `WipedAlone`, `RefusedIsKept`; under fairness `DeleteReturns` |
| `engine` | 2 files, 2 contents, 3 changes, a fault of any kind, a kill, a stop | `CaughtUp`, `Recoverable`; under fairness `CatchesUp` |
| `missed` | 1 file, 1 change, 1 stop | violated: a change that was not applied when the engine stopped is in the baseline, and the next start takes the file for current (`core/docs/CORE.md:98` says a start reconciles missed events) |
| `canvas` | 3 users of the pool and a CLI, 2 tabs, 2 elements, twelve sets of bounds | `UsedIsOpen`, `NoLostEdit`, `EditsAreKept`, `DisabledIsKept`; under fairness `Converges` |
| `context` | 2 chats, one of which may be a branch of the other, up to 6 messages, four sets of bounds | `ShowsThisChat`, `EvidenceRemains`, `ExchangesAreWhole`; under fairness `TurnsEnd` |
| `tab` | one tab, 2 prompts, nine sets of bounds of Stops, retries, losses, reloads, restarts and others' turns | `AnswersAreTheirs`, `ReadyIsQuiet`, `FollowUpsFit`, `PromptsAreKept`; under fairness `TabRests` |

Bounds. Two requests are the least at which a run can be replaced by a newer one, and
two submissions of one request the least for a retry. One restart suffices for what it does to the
disk, and it may come during a recovery's own writes because a poll can begin one
before it. Three chunks are a call, its result and an ending. Two attempts of a job tell
the last one from the others. With three generations one is current, one retired and
held, one ending. `recovery` has no storage faults: after one, the journal of a run
that had ended may still say "running", which the code accepts; `control` has one.

In `work` each initial state has bounds of its own (`Bounds` in `MCWork`): a restart, a
person who competes for the chat, a cancellation, a fault, a clean-up, two tools at
once, a tool started again over a restart, one that is cancelled and fails to save, a
person and a tool beside a deletion, and a tool beside a clean-up.
One behaviour has one of them in depth; with all at once the
state space is out of reach. Two calls are the least that meet the limits (1 per chat, 2
per project), and three units of time let a repeating schedule miss a slot.
`hosting` has the deletion that fails and the one that is tried again, with the
project added in between. `engine` has room for one event, so two changed files are an
overflow; three changes are a file that is created, changed and deleted, or two files
that interfere. Its one fault may be a failing save, so a table that was not saved meets a
baseline that was; the proof has no bound on them.

`canvas` has sets of bounds too: turns, jobs and a close at the pool under changes of the
settings; tabs that edit, lose connections and reload against turns, a CLI that may be
killed, the copy for a branch, and failing writes. A mutation may be lost once before a
turn is told to stop (three times in the code); the second one already meets the limit.
`context` has budgets in which a history is folded twice and a request is cut inside a
long turn. In `tab` one retry and one event (three, and many, in the code) suffice for a
stream that breaks before, after and between them; with more the same steps repeat.

Each module has a type invariant. Section 4 names those that are proved; the others were
checked by TLC on these instances, and the runs are left to what could be wrong.

Fairness. Only what the event loop and the file system give: a continuation whose await
was answered runs, a file operation ends, a tool that was started ends, time passes,
the process that restarts starts. Nothing is assumed of clients, nor of the provider,
which may stay silent for ever, nor that a submission is sent. In Work a background tool
need not return, while a run, a write, a clean-up and a DELETE's removal end.
In Hosting both processes go
on, requests end, and an interrupted indexer exits because it is killed after five
seconds. In Indexer the engine's thread goes on and the supervisor starts it again. In
CanvasTurns writers are served, tool calls answered, tabs save, receive and reconnect and
the feed reads; nobody need edit, call a tool, reload, or remove the lock of a killed
CLI. In ChatContext a turn goes on (files are read, the summarizer and the provider answer or time
out). In ChatTab the tab's own steps go on, a waited submission is read, a Stop is served
and runs end and are saved; no step of the user or of others is assumed. Deadlock is not checked:
a chat whose clients have sent all they send rests, and so do the other
bounded systems.

## 4. Proofs

`CanvasProofs` proves of AgentPool `TypeOK`, `UsedIsOpen` and `NoneForgotten` for any
finite set of leases, any revisions and any number of generations. None of the three is
inductive. The invariant `IInv` adds: a generation's user count is the number of leases
that hold it (`Counted`, the heart of the proof, from the lemmas `LeaseJoins` and
`LeaseLeaves` on cardinalities), generations are numbered in the order they are built
(`Numbered`), a pool that ends has no users (`Ended`), one that is retired and open has
some (`Retained`), only the current one is not retired (`Live`), and it is open until
`close()` (`Fresh`). One lemma per action shows that it keeps `IInv`. The assumptions
are that the leases are finitely many and `MaxGens` is a natural number. TLC has checked
`IInv` on an instance with four leases and three generations.

It also proves of Canvas that no edit of the canvas replaces one its author has not seen
(`EditsAreSeen`), that the last edit in a tab is on its screen or was stored unless its
user loaded the saved canvas since (`TabsKeepEdits`), that a canvas that is off is left
alone (`OffIsKept`), and types, for any tabs, turns, elements and bounds. The invariant
`CanvasInv` has to say what each copy of a scene was made from, because a write is
checked against a revision and not against its contents: `History` (a stored scene, and
the history of edits, only grow), `RequestOK`, `TurnOK` and `TabOK` (each request, turn
and tab holds the scene of the revision it names with its own edits over it),
`SendingOK` (what a tab waits for is what it sent), `FeedOK` (what is published was
stored) and `NoneLost`, the property itself, which is inductive with them: `Matches`
lets a write through only when the revision it was made from is the stored one.
`TurnsKeepRules` shows that CanvasTurns implements AgentPool and Canvas, so that the
theorems about either hold of the turns that use both.

`SearchRunsProofs` first proves `TypeOK`, `OneOwner`, `StopIsFinal` and `CloseQuiesces` for any
sets of submissions, requests, clients and windows and any bounds; both windows may be
open, so the races of runs `delete` and `poll` do not endanger these four. The
assumptions are those SearchRuns names: `NoRun` is no request, the bounds are naturals,
and `Clients`, `Windows` and `Provided` hold what they can hold. The invariant is
`IInv == Types /\ Control`. `Types` is `TypeOK` in parts, one per variable. `Control` is
needed because the ownership of a chat is decided several awaits before it shows:

- `Admissions`: only the oldest admission of the chain is past its wait (`HeadStarts`),
  the chat is still free when it passes the last check (`Free`), and it owns the run
  that is being created (`Created`), which nothing else creates (`Creates`). This is
  what keeps two submissions from both finding the chat free.
- `Saves`: at most one save is queued in the session store, and its run is the one that
  waits for it; otherwise a late save could move a run that is no longer the owner.
- `Booting`: until `initialize()` ends nothing is queued, admitted or run.
- `Drained`: what `close()` waits for covers every admission past `find()`, and later
  ones are refused, so the chat has no owner when `close()` returns.
- `Stops`: the admissions a Stop waits for cover the one that creates its run; a later
  one sees the Stop in `stops.check()`.

The proof has two halves. Each action keeps `Types` (lemmas `*Types`), given what
`Control` says of requests (`Known`). For `Control`, the lemmas `*Moves` reduce an
action to what it does to the phase of one run, `AdmissionsStay` to `StopsStay` say what
keeps each part, `QuietStep` to `StoreStep` treat the actions of a kind at once, and the
lemmas `*Keeps` the others. Before the proof TLC searched millions of states of the
instances `control` and `recovery`, with both windows, polls, stops and deletion added,
for a violation of `IInv`; it found none.

What remains of a run on disk is proved in four layers over `IInv`; the first carries the
other three. Their hypotheses close the windows `delete` and `poll` (`NoRacedDelete`,
`NoWindows`). On the instance of `recovery` TLC finds the claims of `EInv`, `JInv` and `TInv`
violated with either of the windows open that their theorems close. `RunsExecuteOnce` and
`HistoriesStay` leave "poll" open; that `HistoriesStay` closes "delete" is what its proof
needs, as TLC found no violation with it open (2.2 million states, one restart, one
storage fault).

- `EInv` gives `RunsExecuteOnce`. While a deletion goes on nothing else of the chat does
  (`Alone`), a run that was executed has its journal, and an admission that found none
  is of a run that was not (`Executions`).
- `JInv` gives `EffectsStayRecorded` and the refinement of RunOutcomes (`OutcomesStay`,
  step by step). `Journals` ties the run in memory to its journal: its chunks are those
  delivered and the one being delivered, its status is `running` until the run ends it,
  its tool entry is as far as the tool (`Told`); a recovery only works on a running
  journal whose run is not live (`Recovered`); an admission meets no journal or an empty
  one (`Fresh`, `Begun`).
- `HInv` gives `HistoriesStay`: while the chat exists its prompts are only added to, and
  those saved with a run are the ones it was asked with. The messages of a submission
  are made in the tab, checked against the chat at one await and saved two awaits later,
  so `Histories` says that a validated one extends the chat it will replace (`Extends`),
  that it is handed to the run and the journal as it is (`Carries`), that the chat has
  the prompts of its run's record, in memory while the run lasts (`Points`) and on disk
  from then on (`Journalled`), that its prompts are those the tab submitted
  (`Answered`), and that journals are removed after their chat (`Removed`).
- `TInv` gives `TranscriptsStaySettled`, as long as no storage call has failed: a call
  is closed and the ending told before the journal is saved (`SettledRun`,
  `SettledRead`), the journal is saved before the chat (`SavedFirst`), and the chat
  shows it from then on (`Shown`), while a run left running has an owner or a recovery
  (`Found`). The condition `faults = 0` is what the run's bound says (it has no storage
  fault): after a fault the code accepts a journal that says less.

`UnracedDeletesStay` and `UnracedReadsAreAlone` state what the two comments quoted under
"findings" claim, and that it holds where the window is closed: the missing guards are
all that stands between the comment and the code.

`WorkProofs` first proves of BackgroundJobs that a call is executed at most once
(`ToolsRunOnce`), that a final record stays (`OutcomesStay`) and that the limits hold
(`LimitsHold`), for any calls, chats, limits and bounds. A record is final on disk while
its execution may still run in memory, and what is written was decided before the write;
hence the invariant `IInv` relates the two sides: `Sound` (for each job, what memory
says and what the disk says), `Queued` (an execution that waits has exactly one save in
the queue, and it is of its kind), `Landing` (the write the queue waits for is of a
record that is not final), and `Gone` (a process that is not up has nothing in memory).
For the limits, which count agents retained before the record is written, `Retains` says
who holds a lease and `Bounded` counts them; the count grows only in `StartBegin`, whose
guard counts the active ones, and the two agree because one start is in progress at a
time.

It then proves that Work implements BackgroundJobs (`ToolsKeepTheirRules == Spec =>
B!Spec`): whatever schedules, requests, clean-ups and deletions do, a step of Work is a
step of the background tools or leaves them alone. With it the three theorems hold of
Work (`WorkRunsOnce`, `WorkKeepsLimits`, `WorkKeepsOutcomes`).

It also proves four properties of the schedules in their server, of which each part is
interleaved with all others. `WorkStaysApart` needs `Apart`: a start that is queued is of
a run that is not settled, a clean-up has waited for ticks, writes and tools, a DELETE that
has looked bars the ticks by the write it holds (`Barred`) and has left the chat without
work as long as no run was admitted late (`Empty`), and the tools are closed after the
schedules. `OccurrencesKeepOrder`, `CancelledAreQuiet` and
`SchedulesFailForTheirRun` rest on `SInv`, whose heart is `Copied`: a tick works for
several awaits on its own copy of the whole file and then writes it back, so the copy
must agree with the file for every schedule but the one the tick is at. That holds
because only the head of the line writes, and each tick, listing or cancellation is in
the line once (`OneTick`, `OneRoute`, `Creations`). `Reserved` says what a reservation
rests on, `Slotted` and `Gridded` count runs and slots, `Later` that a tick that has yet
to come to a schedule fired after the schedule's last run, and `Routed` that between the
listing and the cancellation at most one tick passes a schedule. The failure property
supposes the window "shutdown" closed, as the run does; the others do not. The
assumptions are those of Work.

`HostingProofs` proves that the daemon wipes a project's data only while nothing works
on it (`NothingWorksWhileWiped`), with the window "stale" open or closed, and that a
deletion that was answered stays (`DeletionsLast`) when it is closed. The two processes
each know a part: `IInv` is `TypeOK`, `Waits` (what the agent's server has disposed
while it waits for the daemon), `Steps` (what the manager's lock holds at each step of a
deletion, and which indexer it has stopped) and, if no read is stale, `Reads` (no answer
on its way is older than the deletion) and `Deleted`.

`RefusalsKeep` is about deletions that did not happen. `RefusedIsKept` itself excepts a
second fault (the catalog cannot be written back either) and a DELETE that nobody waited
for, so `KInv` adds to `IInv` what holds until then (`Calm`): faults and timeouts are
counted, a DELETE in progress has no answer yet and the daemon works for no other
(`Unanswered`), and the catalog on disk is the one in memory but between the daemon's
two writes (`Catalogued`).

`JobQueueProofs` proves `TypeOK`, and that no recorded request is lost with the end of a
run (`RequestsAreKept`), without a hypothesis: every overlap may happen, and the property
exempts what is lost after one until the next start. Hence the invariant is `IInv == TInv
/\ (~overlap => QInv)`, and a step has to re-establish `QInv` when a crash resets `overlap`,
from types and revisions alone. `QInv` has to say where a request is at every step of
everyone: what was recorded after a run read its
inputs is pending, on its way, or marked on the leased job, and the end of the run
carries the mark over (`Carried`); the lease is there as long as the run (`Leased`), the
pending file as long as somebody goes on from it (`Pending`), and a mark on its way meets no
end of a run (`Apart`, which is what `overlap` watches). A directory's records are kept in the order
of their times, hence the lemmas about `Latest` and `Without` (`WithoutOne`,
`LatestFirst`, `AppendedLast`, `RenamedOver`). TLC checked `QInv` on two asks and two
mishaps first.

`IndexerProofs` proves `TypeOK`, `CaughtUp` and `Recoverable` for any files, contents and
bounds, without a hypothesis. The invariant `XInv` goes file by file: outside a batch the
table and the graph have the tree's contents, inside it what was read (`Tables`,
`Reads`), a current chunk without a current vector is about to be embedded
(`Embeddings`), what is on disk is what is in memory where a save is behind, unless it
failed (`Stored`), and a start would read whatever is not (`Restartable`, of the files
`Settled`: nothing of them is pending, being worked on, or left by a save that failed). Each
kind of fault has a lemma of its own. All are about the files outside `missed`, so the
theorems say that the seven windows at the head of the module are all the ways in which the
model loses a change, whatever fails; of the code they say as much as section 2 says of the
model. An earlier form of `missed` was not complete: `CloseKeeps` could not be proved, and
TLC then found the behaviour, which takes two faults.

`ChatContextProofs` proves `TypeOK`, `ShowsThisChat`, `EvidenceRemains` and
`ExchangesAreWhole` for any chats, budgets, sizes, summaries and bounds. Only
`EvidenceRemains` supposes the window "archive" closed, as the run does: it is false
when a history file is not written. The assumptions are those ChatContext names; that a
size is positive was added for the proof, and the code has it (section 2). None of the
properties is inductive, because what a request shows was put together by earlier
compactions, of this chat or another one with the same beginning. The invariant is `IInv
== TypeOK /\ \E calls : Kept(calls)`, where `calls` are the messages that are calls of a
tool. A chat is a `Log` (its messages are unlike each other, a result follows its call).
What a turn shows is a `Shown` form of it: all of it, or a marker, perhaps the question,
and the log from some message on. Every checkpoint has a marker that stands for exactly
the prefix it replaces, but the question it keeps (`FoldOK`, `CutOK`), ends where no
result would be torn from its call, and spares the question and the latest step of the
turns in progress (`Spares`). `TurnOK` says of each step of a turn which of these it has
come to, and `OwnOK` that no checkpoint holds the messages of a turn in progress but the
cuts of its own requests, whence a chat with the same prefix cannot replace them. The
lemmas `LoadShows`, `RestoreShows`, `FoldShows` and `CompactShows` show that the four
ways of replacing messages keep this form, `StepShows` that a step of the turn does, and
`OthersKeep` and `OwnKeeps` that other chats do. TLC checked `IInv` on the run's
instance first.

`ChatTabProofs` proves `TypeOK` and ChatTab's four safety properties, for any number of
retries and events and any bounds. A tab and the server know of each other by what was
sent, and any of it may be late or lost, so the properties hold by what ties the two,
and that is the invariant `IInv == Chat(...) /\ Look(...)`:

- of the server, that at most one run is not settled and it is the chat's, and that the
  saved chat is what that run was asked, or its transcript once it is settled (`ServerOK`);
- of the submissions on their way, that only the tab's last may still be admitted (`PostOK`),
  and that one read twice asks the same (`BoxOK`);
- of the tab, which steps go with which (`TabOK`), which run or request it follows and how
  far it has read (`FollowOK`), that what it shows is that run with that much of its answer
  (`ShownOK`), that a run of its own which goes on is the one it follows (`QuietOK`), and
  that what it would send extends what the server has (`FitOK`);
- of a look for scheduled turns, that what it has read is still the chat's (`Look`).

The hypotheses are about the windows. `AnswersStayTheirs` closes "overtaken",
`ReadyTabsAreQuiet` "impatient" and "settling", `FollowUpsStayFit` those two and
"withdrawn", and each of these is false with any one of the windows open that its
theorem closes (TLC on the run's instance). `PromptsStay` closes "overtaken" because its
proof compares what the tab shows with what the server has; TLC finds no violation with
it open (1.4 million states). The types need no hypothesis. The lemmas are about values,
not variables: each says that the parts of the invariant of some runs, a session,
refused requests, submissions and a tab become those of others, and the lemmas `*Step`
take them for what the variables are and become. So one lemma serves the actions of a
kind, such as all that end a turn. TLC checked `IInv` with the windows closed and with
each set of windows that a theorem leaves open.

Sizes are sums over sequences and prompts a list made from one, both defined by a recursive
function (`Total`, `Prompts`). That such a function has a value, and what it is of a sequence
cut in two, is proved by induction over length, without the library's schema: the naturals
are well founded, so a set of counterexamples has a least element (`LeastNat`), and its
predecessor refutes it. An operator with a lambda, as `SelectSeq`, cannot be expanded by
this prover; the models write such a list out where a theorem is about it.

Only model-checked are the liveness properties `RequestsEnd`, `QueueDrains`, `EndsCleanly`,
`DeleteReturns`, `CatchesUp`, `Converges`, `TurnsEnd` and `TabRests`: fairness and ENABLED are
beyond TLAPS. Every safety property of the passing runs is stated by a theorem. Where a
theorem has a hypothesis on `Windows` the run has the same one or a stronger one, and, but
for the two theorems named above, the property is false with the window open.

## 5. Plan

1. Done: SearchRuns with RunOutcomes, JobQueue; BackgroundJobs and Scheduler composed in
   Work; AgentPool and Canvas composed in CanvasTurns; Hosting; Indexer; ChatContext;
   ChatTab; the theorems of section 4.
2. The learning store behind the job queue, the slots of `daemon/internal/indexctl`.
3. Proofs: refinements between the components of the agent's server, such as ChatTab's
   server by SearchRuns.

### Not modelled

I/O or data transformation without a protocol: providers and model selection, MCP and web
tools, ranking and lexical search, extraction and evaluation of learning data, the
launcher, the page and its components.
