# go-hermes-agent: TLA+ models, checks and proofs

TLA+ modules for the concurrent and failure-prone parts of go-hermes-agent, the
TLC configurations that check them on small instances, and TLAPS proofs for
every value of the constants about each of them. `PROJECT.json` maps each definition
to the source lines it translates and lists runs, hazards, findings and theorems.

    tlc -workers 2 -config Orchestrator_run.cfg MC_Orchestrator.tla
    tlapm OrchestratorProofs.tla

## 1. Inventory

| Part | State | Operations | What is hard | What makes it correct |
|---|---|---|---|---|
| multi-agent orchestration (`internal/multiagent`) | the plan, semaphore and result channels, result slice | build, validate, run (parallel / sequential), aggregate | goroutines, cancellation, completion order | limit respected, results at their index, every run answered, no goroutine left |
| child runtime (`internal/app/app.go`) | child session, trace, loop seed | run, fallback, finalise, persist, replay, resume | several writes without a transaction, crashes, retries | result, rows and trace agree; bounded model calls; a resume goes on where it stopped |
| cron (`internal/cron`) | `jobs.json` | add, delete, tick, scheduler | processes share the file, one save per tick | acknowledged edits stay, once jobs run once, intervals are kept, due jobs run |
| gateway (`internal/gateway`) | `processed_gateway_updates` | four webhook handlers, reply with retry | redelivery, concurrent requests, crashes | a message is one turn, nothing acknowledged is lost, bounded replies |
| chat and sessions (`app.go`, console) | sessions, messages, console turn list | chat, resume, retry, undo | rows written one by one, two consoles on a session | turns stay pairs; undo removes the turn it means |
| store (`internal/store`) | SQLite | single-statement writes, two transactions, reports | error against committed row | see the modules that use it |
| extensions (`internal/extensions/manager.go`) | manifests on disk, stored states, the plugins, skills and servers of each process | discover, register, enable, disable, validate, refresh | several processes, hooks before the row, refresh after refresh, restarts | the registry holds what was discovered; hooks and row agree; a confirmed state is kept |
| tool registry (`internal/tools`) | the tool map of a process | register, remove, execute | written by refreshes while requests read it | names belong to the last claimant |
| MCP client (`internal/extensions/mcp_stdio.go`) | a session: a child process and its pipes, or an HTTP client | initialize, list, call, close | servers that speak unasked, stop answering or die | an answer belongs to its request; every request ends |
| execution profiles (`internal/execution`) | the log of a run | chain, rollback | rollback against continue_on_error, callers that leave | every failing step is rolled back before anything else |
| memory (`internal/memory`) | two text files per user | add, replace, remove, recall | concurrent read-modify-write, write in place | acknowledged notes stay, limit kept |
| prompting, context compression | plan cache, stored summary | build, inspect, compress | stale cache, summary read before and written after | a plan is current; nothing falls between window and summary |
| batch (`internal/batch`), trajectories | checkpoint and trajectory files | run, resume | crash between item and checkpoint, torn writes | the report adds up, what is done is not repeated, trajectories can be read back |
| configuration, model switching | active profile, client | switch, upsert | running chats hold or re-read the client | a plan uses one model |
| login, password hashes, tokens (`internal/auth`, `internal/security`) | failure counter, lock | login | – | – |

A request enters through the HTTP API, a gateway handler, the console or the
scheduler; each calls `App`, which builds a prompt plan, calls the model through `llm`, tools through
the registry, and stores rows through `store`. A tool is built in (one of them
runs execution profiles, another writes notes), a command of an extension, or a
tool of an MCP server. The parts meet in SQLite, in the
files of the data directory, and in the goroutines of a plan run.

## 2. Modules

| Module | Models | Extends |
|---|---|---|
| `Policy` | `Policy.Validate`, `Planner.Build`, `Aggregator.Aggregate` counters: operators on plans | |
| `Orchestrator` | `RunMultiAgentPlan` and `Orchestrator.Run`: caller, goroutines, semaphore, channel, cancellation, parent session | `Policy` |
| `PlanContract` | what a plan run promises, without goroutines or channels | |
| `ChildTask` | one delegated task: both loops, fallback, finalise, trace, crash, resume | |
| `CronJobs` | job table, calls, ticks, file operations of several processes | |
| `Gateway` | webhook requests, deduplication, replies, redelivery | |
| `Sessions` | chat calls, message rows, the consoles' turn lists, undo, retry, resume | |
| `Extensions` | processes with their managers and registries, requests, manifests, stored states | `McpClient`, `Executor` (instances) |
| `McpClient` | one session with an MCP server over stdio or HTTP | |
| `Executor` | runs of execution profiles | |
| `Prompts` | turns and inspections: plan, cache, compression, summary, messages, model switches | `Memory` (instance) |
| `Memory` | one notes file and the requests that change it | |
| `Batch` | batch runs, checkpoint, trajectory file, dataset edits | |
| `OrchestratorProofs`, `ChildTaskProofs`, `CronJobsProofs`, `GatewayProofs`, `SessionsProofs`, `BatchProofs` | theorems and proofs | the module of that name |
| `ExtensionsProofs` | theorems and proofs about `Extensions` and its instances of `McpClient` (`Mcp!`) and `Executor` (`Exec!`) | `Extensions` |
| `PromptsProofs` | theorems and proofs about `Prompts` and its instance of `Memory` (`Mem!`) | `Prompts` |
| `MC_*` | plans, expressions, names for the runs | the module checked |

An operator commented "Variant, not the code" is a deliberately wrong form of
the definition after it, as a plausible bug would make it. Substituting it for
that definition must break the property `PROJECT.json` pairs it with, which
shows that the property says something about the code. Specifications do not use them.

### Orchestrator

`phase` is the program counter of `RunMultiAgentPlan`: `submitted`,
`validating`, then `collecting` (parallel) or `sequencing`, `aggregating`,
`returned`. `child[i]` is the control state of the goroutine or inline call of
task `i`: waiting for its token, the two store calls that announce the child,
its work, the final rows, `ch <-`, the deferred `<-sem`. `sem` counts the tokens
in the channel and `ch` is the buffered result channel. Each store call is two
steps, the check of the context and the row, because a cancellation may fall
between them. The child's loop is one step here; `ChildTask` opens it.

`max_concurrent` is normalised by `Validate` in its own copy of the plan
(`NormalizedMax`), while `Acquire` and `StartParallel` use `plan.max` as posted.
The parent session is created before the plan is validated (`CreateParent`),
unless the plan names one.

### ChildTask

`pc` is the place of the running execution, `trace` its steps in memory,
`stored` and `status` what SQLite holds. The two loops are one set of actions
parameterised by `runtime`; `LoopFails` is the fallback from native tool calls
to JSON and from JSON to the stub. Sessions are numbered by execution: a resume
writes to a new session, takes its seed and its tools from the rows of the
session it resumes, and starts at the iteration after the last stored snapshot.
A resume of a child that is still running reads the same prefix of rows as a
resume after a crash at that point, so executions are not interleaved.

### CronJobs

Each call (`AddJob`, `DeleteJob`, tick) reads the table, works on its copy and
saves: open-and-truncate `jobs.json.tmp`, write, rename. A process is one
thread, since the manager's mutex orders its calls. A descriptor (`fd`) stays
with its file when another process renames that file, and an overlapped write
may leave a torn text. A minute is the unit of time; a product of
`time.Duration` wraps around at `DurationRange`. RFC3339 drops the part of a
second, which this unit does not see. Overflow inside `parseDurationMinutes`
itself (hours or days times 60 or 1440) yields some other number of minutes and
is left out.

### Gateway

A request is a process with a program counter. The platform (external) delivers
an update, gives up on a request, and delivers again until it has seen a
success. Telegram and Slack mark before routing, Weixin routes before marking,
slash commands and the generic webhook do not deduplicate. `gone[r]` is the
cancellation of `r.Context()`; Telegram and the webhook route under
`context.Background()`.

### Sessions

`rows` are the message rows of a session, numbered by turn instead of carrying
text; `answer` is the response half of the session row. `pc` and `job` are the
chat call a console is in: `Ask` (prompt and model), `Create` or
`UpdateResponse`, `AddUser`, `AddAssistant`, each a store call that can be the
last one (`ChatFails`, `Restart`). `turns`, `active` and `owned` are the
console's `turns`, `activeSessionID` and `activeSessionManaged`; `Recalls` says that
a list of turns is what a session's rows, or the end of them, give. `DeleteLastTurn`
is one transaction and hence one step; `/retry` goes on to ask again in the same
session. All consoles belong to one user, so the ownership checks pass; sessions
of the API, the batch runner or a gateway are to a console what another
console's are. `creator`, `visitors` and `failed` only observe.

### Extensions, McpClient, Executor

A process (hermesd, a console, a command of hermesctl) has workers; `req[w]` is
the request a worker handles and `req[w].step` its place in `Validate`,
`SetEnabled`, `Discover`, `Register` or `Registry.Execute`. What processes share
is `disk` and `rows` (`extension_states`); `loaded`, `served`, `registered` and
`registry` are the maps of one process. Discovery is the scan, one session per
server, the read of the rows and the adoption, each a step of its own, since
other processes write rows and people edit manifests in between. Registration
removes the process's old names at once (the registry's mutex is held) and adds
the new ones one by one: `todo` holds the claims still to be registered, each with
its place among extensions and servers, and the least is registered next. A command of hermesctl is a process that starts, makes
one request and ends.

`req[w].alone` says that no other request has set the state of the same
extension since this one began; `effect`, `drift` and `confirmed` only observe.
`drift` holds the extensions whose hooks have run in a request that has not
written the row: the code runs hooks first and undoes nothing, so the agreement
of hooks and row is stated outside `drift`.

`McpClient` is one session per caller: the frames in the server's pipe, those the
client has not read, and what the client took for the answer. Its server is
external: it answers in order, may write frames of its own, answer with errors,
stop or die. `Executor` is a run per caller with the log of what was run. Both
are instantiated by `Extensions`, whose steps are theirs (`BeginListing`,
`Lookup`, `McpStep`, `ExecStep`, `Down`); the refinement theorems say that
nothing else is done to them.

### Memory and Prompts

`Memory` splits `os.WriteFile` into the truncation and the write, so that a
request, a prefetch or a crash can fall between. A write goes over what is in
the file from its start; entries have one length. `kept` are the entries whose
change was acknowledged and which no request has named since; an overlap of two
requests takes back what it may have destroyed.

`Prompts` follows `Builder.Build`: recall the notes, read the summary, read the
window of messages, compress, store the summary, look into the cache, assemble.
Then the caller's part: the model call, the session, the two message rows. A
message is its id, and a history, which the code keeps in the order of the ids, is
the set of its messages; the summary is the set of messages folded into it, so that
"nothing is lost" can be said; its text is cut to a length by the code and may drop words. Every process
has a cache and a model. A restarted process may come up with any model: a
console saves a switch to its configuration file, the server does not.

### Batch

`run[w]` is a run of the batch command: its copy of the dataset, the results it
has, its counters. The checkpoint is opened (emptied) and written in two steps,
the trajectory line is appended in one that may be cut off. `Advance` is the
loop's `continue` over indices of the checkpoint. The dataset and its edits are
sequences over the constant `Prompts`. The counters are carried as the
code carries them and compared with the results in `ReportAddsUp`.

### Assumptions common to the modules

- A store call that returns an error has written nothing: the calls modelled are
  single auto-committed statements.
- Audit rows, whose errors the code ignores, and logging are left out.
- `retryBusy` is inside the store call: it ends with success or with an error.
- The model answers anything, fails, or times out.

## 3. Runs

All runs set `CHECK_DEADLOCK FALSE`: each models a finite amount of work (one
plan, a bound on executions, jobs, deliveries, requests or runs) and really
stops at its end.

| Run | Shows |
|---|---|
| `Orchestrator_run` | plans refused for each reason, built by the planner, and posted by hand (two tasks), three tasks over two tokens, three in sequence: limit, token accounting, order, complete results, ordered parent log, exclusive write scopes, cancellation stops delegation, every run is answered, goroutines drain, refinement of `PlanContract` |
| `ChildTask_run` | one resume on top of the original, cap 2, two tool calls per reply, three kinds of tool (granted, registered only, unknown): result and store agree, any stored prefix can be replayed, resume moves on, executions end |
| `CronJobs_alone` | one process, two jobs of four kinds of schedule, two minutes, one mishap: acknowledged edits kept, repeats explained by mishaps, spacing, whole calls only, due jobs run |
| `CronJobs_shared` | daemon and command line interleaved at file operations: readable tables are consistent |
| `Gateway_run` | all five kinds of update, with and without id and text, three requests, one crash: what is marked first is one turn, what is routed first is acknowledged only when routed |
| `Sessions_run` | two consoles, two sessions, four turns, failing calls and restarts: console and session agree on the turns, answers follow their questions, the snapshot is current, only own sessions are rolled back |
| `Extensions_servers` | hermesd with a plugin, a skill whose tool has the name of a built-in, a stdio and an HTTP server, two requests after the start, two faults (edited manifests, crashes): registry, pairing of answers, rollbacks, every request is answered |
| `Extensions_shared` | hermesd and commands of hermesctl, three requests, one fault: a confirmed state is kept, hooks and rows agree |
| `Prompts_run` | a turn and a writer in hermesd, a turn in a console, window 3: plans are current, nothing is forgotten, the summary grows, notes are kept |
| `Batch_run` | two processes, two items, three runs, two faults: reports add up, resumes skip what is done, trajectories are listed |

Distinct states: `ChildTask_run` 21,455, `CronJobs_alone` 105,567,
`Gateway_run` 2,201,909, `Sessions_run` 2,189,184, `Extensions_servers` 375,608,
`Extensions_shared` 2,208,227, `Prompts_run` 1,386,773, `Batch_run` 5,409,323
(its two processes are interchangeable).

Two further runs show that the code does not keep what a comment, a message or
a document says of it:

| Run | Violated | Because |
|---|---|---|
| `Orchestrator_unset` | `RunReturns` | `max_concurrent` 0 is accepted, and the semaphore has no room |
| `Gateway_acked` | `AcknowledgedIsRouted` | an update is marked although its routing fails later |

Smaller things met on the way, that no run is spent on: with two processes on
one data directory a tick writes back a table another process has changed, and
`AcknowledgedEditsKept` holds for one process only; a resume of a child grants
every tool the trace names, refused ones too; an undo between the rows of two
consoles takes an answer and a foreign question with it; two refreshes at once
in hermesd interleave their removals and additions, and a tool of a disabled
extension may stay registered (`RegistryFollowsLoaded` fails with two workers in
one process); two turns of a user that overlap may lose part of the summary; a
compression threshold within two of the window loses messages
(`PromptsAssumption`; the default of 8, 6, 4 just meets it); an edited dataset
gives a resumed batch the results of other prompts; a torn trajectory line takes
the next record with it; a negative
`max_concurrent` is accepted too and makes `make(chan)` panic (`StartParallel`);
a child that used its whole cap is recommended for a resume, which then ends
without a model call (`app.go:747`, `ResumeSeed`); a once job whose tick is lost
before the save runs again (`RepeatsExplained` counts exactly that); an interval
of more than about 153 million minutes wraps around as a `time.Duration`; the
Weixin handler routes before it marks, so a redelivery during a slow turn is a
second turn.

### Bounds

Two tasks show every pair of children; three over two tokens are the least where
a goroutine waits while others run. A cap of 2 has a first, a last and a
past-the-end iteration, and one resume is enough for each way a seed is built.
Two jobs show a lost or doubled neighbour; two minutes let an interval pass
twice; one mishap at any step covers each crash point. Three requests are the
original, a concurrent redelivery and one after both. Four turns in two sessions
let one console retry while the other has resumed its session and written to it.
One plugin with hooks, one skill without them whose tool has a built-in's name,
and a server of each transport are one of each kind; two requests let a refresh
meet what another has left, three let one process disable what the other has
enabled and a third follow. A window of 3 with a threshold of 1 folds after the
first turn and again after the second. In `Prompts_run` one event is a change of
the notes, a crash, a switch or an expiry, so that overlapping writers of notes
do not occur there; `PromptsProofs` covers them (`AlwaysKept`). Three batch runs are a first one,
one that resumes it or overlaps it, and one that follows both.
Crashes, mishaps, failing file writes and edits of files are
the only bounded faults; store errors, model errors and cancellations are not.

### Fairness

- `Orchestrator`: `Run` and each goroutine are weakly fair. The Go scheduler runs
  every runnable goroutine; a child's work is finite since its model calls have
  an HTTP timeout (`llm/client.go`, 60 s by default), commands have one too, and
  the loop has a cap. Cancelling is never owed.
- `ChildTask`: progress of the execution is weakly fair, for the same reasons;
  starting, resuming and crashing are not.
- `CronJobs`: the ticker keeps firing and a call goes on once begun.
- `Extensions`: a request goes on once begun, the client of a session reads what
  there is, and a session's process ends at last: its context has a deadline (15 s)
  that kills it, hooks have 10 s, commands of a profile a limit each. Nothing is
  owed by people, servers or callers.
- `Gateway`, `Sessions`, `Prompts` and `Batch` state safety only: nothing in them is owed by the code
  alone. That a request ends follows from the bounded attempts of `TypeOK`.

## 4. Proofs

Every safety invariant that a passing run checks is a theorem here, and so are the
action properties; the theorems hold for every value of the constants that the
assumption of the module allows. `OrchestratorProofs` takes `PolicyLimitAssumption`
and `SubmittedAssumption` (the limit is an integer; plans have an integer
`max_concurrent` and a finite task list). The others take `ChildAssumption`,
`CronAssumption`, `GatewayAssumption`, `SessionsAssumption`, `BatchAssumption`,
`ExtensionsAssumption`, `PromptsAssumption`, which TLC evaluates in the runs.
`McpAssumption`, `ExecutorAssumption` and `MemoryAssumption` are definitions: the
theorems about an instance assume them, and the assumption of the module that
instantiates it contains them. Three hypotheses stand in the theorems that need them:

- *one process* (`Procs = {q}`) in four theorems of `CronJobsProofs`: the manager's
  mutex orders the calls of one process, and nothing those of two;
- *one worker per process* (`OneWorker`) in two of `ExtensionsProofs`: a console
  or a command handles one request at a time, hermesd may not;
- *intervals fit* (`IntervalsFit`) in `IntervalAlwaysKept`: the product of minutes
  and `time.Minute` wraps around for larger ones.

| `OrchestratorProofs` | States |
|---|---|
| `TypeCorrect`, `TokensAlwaysMatch`, `SequentialRunsInOrder` | the type invariant; one token per goroutine between acquire and release; one child at a time in sequence |
| `ConcurrencyAlwaysLimited` | at most the limit of children execute |
| `ScopesStayExclusive` | children at work own different write scopes |
| `CancelAlwaysStops` | `Spec => CancelStopsDelegation` |
| `ParentLogAlwaysOrdered` | objective first, a child's row before its result, the aggregate last |
| `ResultsAlwaysComplete` | a run that ends well has the verdict of every child at its index |
| `RefinesContract` | `Spec => Contract!Spec`: a plan run does what `PlanContract` promises |

| Other modules | States |
|---|---|
| `ChildTaskProofs!TypeCorrect`, `ResultAlwaysMatches` | what a caller was told of a child agrees with its rows |
| `ChildTaskProofs!TraceAlwaysReplayable`, `ResumeAlwaysMovesOn` | any stored prefix can be replayed; a resume repeats no stored iteration |
| `CronJobsProofs!TypeCorrect`, `TableAlwaysConsistent` | any number of processes: every readable table is one that calls could have made |
| `CronJobsProofs!AcknowledgedAlwaysKept`, `RepeatsAlwaysExplained`, `IntervalAlwaysKept`, `CallsAlwaysWhole` | one process: edits stay, repeats have a mishap behind them, intervals are kept, the file changes by whole calls |
| `GatewayProofs!AlwaysRoutedAtMostOnce` | one turn and the replies of one turn, for any number of updates, deliveries and crashes |
| `GatewayProofs!AlwaysRoutedBeforeAcknowledged` | what is routed before it is marked is acknowledged only when routed |
| `SessionsProofs!TypeCorrect`, `ConsoleAlwaysMatches` | a console's turns are the last ones of its session's rows |
| `SessionsProofs!AnswersAlwaysFollow`, `SnapshotAlwaysCurrent` | rows of a session pair question and answer; the session row shows the last answer |
| `SessionsProofs!AlwaysRollsBackOwn` | an undo or retry only touches a session its console has created |
| `BatchProofs!ReportAlwaysAddsUp`, `TrajectoriesAlwaysListed`, `DoneAlwaysSkipped` | a report counts the results there are; a trajectory a result names can be listed; a resume runs nothing again that is durable |
| `ExtensionsProofs!HooksAlwaysAgree` | `Spec => []HooksAgreeWithRow`, any number of processes and workers |
| `ExtensionsProofs!ConfirmedAlwaysKept`, `RegistryAlwaysFollows` | one worker per process: confirmed states are kept, the registry holds what was discovered |
| `ExtensionsProofs!AnswersAlwaysPaired`, `SessionsTypeCorrect` | `Mcp!`: a session's answer is that to its own request unless the server has spoken unasked |
| `ExtensionsProofs!AlwaysRollsBack`, `ProfilesTypeCorrect` | `Exec!`: `RollbackDiscipline` for profiles of any length |
| `ExtensionsProofs!RefinesMcpClient`, `RefinesExecutor`, `AnswersPairedHere`, `RollbackHere` | `Spec => Mcp!Spec`, `Spec => Exec!Spec`, and the two properties in the composition |
| `PromptsProofs!AlwaysWithinLimit`, `AlwaysKept`, `NotesTypeCorrect` | `Mem!`: the limit, and the acknowledged notes, for any number of writers |
| `PromptsProofs!RefinesMemory`, `NotesAlwaysKept` | `Spec => Mem!Spec`, and Memory's theorem in the composition |
| `PromptsProofs!PlansAlwaysCurrent` | a cached plan is that of its key |
| `PromptsProofs!SummaryAlwaysGrows`, `NothingEverForgotten` | no step loses a folded message; a message of a session is in the window or in the summary a plan shows |

How they go:

- *Orchestrator, limit.* `ConcurrencyLimited` is not inductive: nothing in it
  relates the runners to the semaphore. `IInv` is `TypeOK`, `PhaseInv` (which
  phases belong to which mode), `TokensMatchHolders` and `SequentialOrder`. An
  `Acquire` or a `Release` changes the set of holders by one element, which is
  where the cardinality lemmas are used; `sem - 1` is a natural number because
  the releasing goroutine is a holder. A parallel run is limited by
  `max_concurrent`, which `Validate` compared with the limit, a sequential one by
  1; no child moves under a plan whose scopes overlap. `CancelStopsDelegation` is
  proved action by action from the guards that look at the context.
- *Orchestrator, log and results.* `LogInv` places each row by the state of its
  child (`ChildRowsInv`) and of the caller (`OwnRowsInv`), and each result once,
  in the channel or in the slice (`ResultsInv`); the number received is that of
  the filled places, so that a caller that has counted to the end has them all.
  For `RefinesContract` a child's answer is its verdict (`AnswerOf`), and the
  report what `Run` returned (`ReportOf`).
- *ChildTask.* What is stored is a prefix of the trace in memory (`StoredInv`),
  the trace has a snapshot before the steps of its iteration and runtime
  (`TraceInv`), and a resume starts after every snapshot of its origin
  (`SeedInv`), which gets no rows any more.
- *CronJobs.* `TableInv` says of the table each process holds and of the text in
  either file that every job is one that calls leave (`Sound`), whoever has
  written it. For one process, `LoneInv` follows the table of a call from the
  read to the rename (`LoneCall`: the table in memory is that of the file with the
  call's own change) and accounts for the runs of each job but one per mishap
  (`RunsInv`).
- *Gateway.* At most one request of an update gets past the point where it is
  told from its duplicates, the mark or, without deduplication, the delivery
  (`PassInv`); before that point there is no reply, and no turn where the mark
  comes first (`FreshInv`), and after it replies are at most as many as attempts
  (`SendInv`). An update counts as routed before it is sent, marked or answered.
- *Sessions.* A console has visited every session it writes to or takes turns from
  (`Seat`). A session that one console alone has visited is as that console sees
  it (`View`): its rows are pairs, but for the question of the call under way, the
  snapshot is the last answer or about to be, and the console's turns are what
  the rows give.
- *Batch.* The counters are those of the results held, own or taken over
  (`Counted`); a result names a session of its prompt and a line that stays in the
  file (`Sane`); what is durable is in every readable checkpoint and in the only
  run there is (`DurableInv`).
- *McpClient.* As long as the server has not spoken unasked, exactly one exchange
  is under way; the request is in the pipe or its answer in the out-buffer
  (`Exchange`). A fresh process and fresh pipes per session make the base case.
- *Executor.* Where a run is, its last event allows what comes next (`RunInv`);
  appending the event of a step keeps the order of the log (`LoggedFacts`).
- *Extensions.* `HookInv` adds to the property that a request which is alone with
  its extension is the only one to set it (`AloneInv`), and that a request about
  to write has run its hooks (`WriteInv`). `ConfInv` follows a state from the row
  through what is discovered and adopted to what is confirmed (`WrittenInv`,
  `SeenInv`, `AdoptedInv`, `KeptInv`); another worker of the process could replace
  the loaded extensions in between, hence `OneWorker`. `RegInv` says that a
  registering process holds the claims before those to do, each name from the
  last of them (`Holds`), and that a name that is not registered is a built-in
  tool never taken, or nothing (`Rests`): removing the registered names therefore
  leaves a clean table, whatever was registered before.
- *Memory.* Every list a request computes is at most as long as the limit, and so
  is what overlapping writes make of two of them (`SizeInv`); for `AlwaysKept` a
  request that is alone computes its list from the file as it is.
- *Prompts.* Every cached plan is the one its key decides (`PlanInv`); a request
  that has not overlapped writes a summary over the one it has read (`SumInv`).
  The messages of a session that are not in the summary always fit into the
  window, with two places left once a plan is built (`FitInv`): the turn it is
  built for takes them. This is where the assumption on window, threshold and
  kept messages is used.

Model-checked only: liveness (`RunReturns`, `GoroutinesDrain`, `ExecutionEnds`,
`DueJobsRun`, `RequestsAnswered`), which the prover does not reach, and the two
violations.

## 5. Plan

1. An abstract specification of a webhook update (received, one turn,
   acknowledged) that `Gateway` implements, and one of the job table for one
   process that `CronJobs` implements, with their refinements proved.
2. What several workers of one process may still rely on: a registry property
   without `OneWorker`.
3. A tool map that two requests of a process change at once, once the code orders
   them.

### Not modelled

- Login, password hashes, tokens: a read and an update of one row around a
  password check, cryptographic calls; security settings are left aside.
- Configuration files: loading, defaults and merging handle data and keep no
  state; `SwitchModelProfile` is in `Prompts`.
- Model catalogue, reports, search, rendering, flags: static tables, read-only
  queries and text.
- The data race on the tool map (`registry.go:38`): within one process requests are
  handled one at a time in the runs.
- The 64 KiB limit of the trajectory scanner, the text of summaries, hashes of
  manifests: data the properties do not tell apart.
