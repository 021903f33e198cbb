# A verification development for decision-model_lab

The repository is a local controller that puts one question to several CLI models "blind": each
participant answers without seeing the others, the answers are sealed, and they are opened together once the
run is complete. Afterwards the user may call an upper model (synthesis, next-step proposals, collation,
cross-review, revision) and records a judgment. Everything the controller decides is kept in one SQLite ledger;
a controller that is restarted continues from that ledger.

This directory holds TLA+ modules of that controller, TLC configurations that check them on small instances and
TLAPS proofs of the properties that matter most, for every instance.

## 1. The system

### 1.1 Components, their state and their operations

| Component | Source | State | Operations | Module |
|---|---|---|---|---|
| Run gate | `app/state.py` | none; derived from the participant rows and three run columns | `gate`, `_general_gate` | `RunGate` |
| Ledger | `app/store.py`, `app/repository.py` | SQLite tables `runs`, `participants`, `drafts`, `events`, ... ; a lock file | `tx`, `_transition`, `bind_call_budget`, `_migrate` | `Coordinator`, `LedgerFile` |
| Execution coordinator | `app/execution/coordinator.py`, `runtime.py` | the runtime: `workers`, `paused`, `closing`, one re-entrant lock | `pump`, `_attempt`, `_finish`, `cancel_run`, `submit_manual`, `withdraw_manual`, `approve_reduction`, `acknowledge_unknown`, `_recover`, `resume`, `shutdown` | `Coordinator` |
| Invocation ledger | `app/execution/invocations.py` | none; counts rows and `live_call_reserved` events | `reserve`, `_slots_used`, `_budget_exhausted`, `unsettled`, `_upper_call_gate` | `Coordinator`, `UpperCalls`, `LedgerFile` |
| Work creation | `app/application/work.py`, `app/context/inputs.py` | rows, folders of sources | `prepare_run`, `create_run`, `_checked_assignment`, `_snapshot` | `TaskPlans`, `UpperCalls`, `Sources`, `Approvals` |
| Upper calls | `app/application/planning.py`, `app/execution/seats.py`, `app/refine.py`, `next_step.py`, `split.py` | seven tables of "seats" | refine, propose, split, collate, review, revise, recheck | `UpperCalls`, `Approvals` |
| Reviews and judgment | `app/application/reviews.py`, `app/cross_review.py`, `app/collate.py` | `reviews`, `human_reviewed` events | `cross_review`, `_advance_reviews`, `mark_reviewed`, the previews | `UpperCalls`, `Versions`, `ReplyChecks` |
| Synthesis | `app/application/synthesis.py`, `app/synthesis.py` | `synthesis_*` events, `Runtime.syntheses` | `synthesize_with_model`, acknowledgement, the table of excerpts | `UpperCalls`, `Excerpts`, `Replies` |
| Revisions | `app/application/revisions.py`, `app/revisions.py` | `answer_revisions`, `revision_checks` | `revise`, `recheck` | `UpperCalls`, `Versions` |
| Tasks | `app/application/tasks.py`, `app/workflow.py` | `tasks`, `task_plans` | `save` with an expected version, `require_ready` | `TaskPlans`, `Projection` |
| Process runner | `core/runner.py`, `core/isolation.py` | process tree, reader and writer threads, the lingering set | `run`, `lingering`, `plan` of the sandbox | `Runner`, `Isolation` |
| Calls of a CLI | `app/cli_executor.py`, `app/readiness.py`, `app/registration.py`, `core/eligibility.py`, `core/adapters.py` | files of the machine | `plan`, `check`, `_check_eligible`, `register`, `interpret` | `CallPath`, `Answers` |
| Pure policies | `core/membership.py`, `core/quota.py` | none | decisions | `Membership`, `AccountQuota` |
| Screen | `app/queries/`, `app/roles.py`, `app/usage.py`, `app/report.py` | an index of pages | `view`, `task_projection`, `browse`, `search` | `Projection`, `PublicView`, `Paging` |
| Account limits | `app/account_quota.py`, `app/codex_account.py` | the last snapshot | `refresh`, `view` | `AccountQuota` |
| Memory, templates, earlier ledgers | `app/memory.py`, `app/application/templates.py`, `app/ledgers.py` | `work_templates`, files | `select`, `save`, `load`, `handoff` | `Memory`, `Templates`, `Handoff` |
| Sources | `app/ingestion/`, `app/source_document.py` | none | `fetch`, `extract`, `attach` | `Ingestion` |
| Server | `app/server.py` | connections, slots, timers | `process_request`, `serve_until_stopped` | `ControlServer` |
| Launcher | `app/launch.py`, `app/start.ps1` | four files of the state folder | `serve`, `stop`, `_watch`, the script | `Launcher` |

### 1.2 How they interact

Request threads (HTTP) and one worker thread per attempt share `Runtime.lock`. A command runs one transaction
under the lock, releases it and then calls `pump()`, which takes the lock again and starts as many queued
attempts as slots and budget allow. A worker runs its CLI without the lock, stores the result under the lock and
in a second lock section deregisters itself and pumps. Nothing else ever calls `pump()`: there is no timer.
The CLI processes belong to `core/runner.py`, which reports whether the process tree is known to be empty and
may leave I/O threads behind (`lingering()`). The ledger is owned by one process (a file lock); a process that
dies leaves rows in state `running` whose process tree may still be alive.
Around that process there are others: copies of the start script that start or find a server through four files,
processes started by hand on the same ledger, an editor that changes the record of observations between the plan of a
call and its start. Within the process, the view of the screen and the refresh of account limits read without the lock.

### 1.3 What is hard

* A crash between any two transactions, with processes that survive their controller.
* Results that come late: after a cancel, after the run was opened, after the user acknowledged the attempt.
* A command that acts between the start transaction of an attempt and the start of its process.
* Storing a result fails, and storing the failure fails too.
* Slots and call budget are shared by all runs and counted from rows and events, never from memory.
* Only commands and ending workers pump, so every way in which a queued participant becomes startable has to be
  followed by one of them.

* State read twice: what was prepared before the lock and used under it, a plan of a call checked again before the
  process starts, an index kept between two pages, a file that two processes write.
* What an upper model says is read by several pieces of code and used later by others: it has to mean the same to each.

The hazards, each at its line and with the properties that would notice it, are listed in `PROJECT.json`.

## 2. Modules

| Module | What it is |
|---|---|
| `RunGate` | the gate of a run as operators of a snapshot (`app/state.py`, `_maybe_reveal`); constants describe the roster, `RosterAssumption` is what `prepare_run` lets through |
| `Coordinator` (extends `RunGate`) | the coordinator as a state machine: participants, attempts, results, crash and recovery |
| `BlindBarrier` | the abstract promise: members are decided once, answers open together and in the step that decides the last of them, a cancelled run stays sealed; no processes, no threads |
| `CoordinatorBarrier` | the refinement mapping from `Coordinator` to `BlindBarrier` |
| `UpperCalls` (extends `RunGate`) | the calls around a run (refine, split, propose, collate, review, revise, recheck, synthesis), the runs made from them, and the judgment; the participants in larger steps |
| `Runner`, `CallOutcome` | one call of a CLI: the calling thread, its I/O threads, the processes that come of the CLI; and what a caller of the runner is promised |
| `TaskPlans` (extends `Projection`) | plans of tasks, the runs prepared and created under them, and the list of what waits for the user |
| `Projection` | what the screen says of runs and tasks, as pure functions of the facts of a run |
| `PublicView`, `MCPublicView` | which fields of a run leave the ledger before and after it is opened; the ledgers they are asked about |
| `Sources` | the inputs of a run, fixed when it is created and put together again before each call |
| `Versions` | the answers of a run, the findings about them, revisions and rechecks, and what a collation of chosen versions is told |
| `Templates` | settings of a run saved, exported, imported and taken up by a later start |
| `Approvals` | a split, a next question and a refined question, checked when they arrive and again when they are sent |
| `LedgerFile` | one ledger and the processes that open it: lock, migration, budget, reservations |
| `Launcher` | copies of the start script and the servers they start |
| `ControlServer` | connections of the server, and how it stops |
| `CallPath` | what a call passes before it starts, while the machine changes |
| `AccountQuota` | refresh and view of the account limits |
| `Paging` | a walk through pages of rows that come and go, over an index that is kept |
| `Membership` | the roster of a run as its participants fail, come back and are replaced |
| `Isolation`, `Answers`, `Memory`, `Handoff`, `Replies`, `ReplyChecks`, `Excerpts`, `Ingestion` | pure parts: the sandbox, the reading of a CLI's output, the memory of a task, results of closed ledgers, the reading and the counting of a model's reply, the table of excerpts, the text of a source |
| `MCCoordinator`, `MCUpperCalls`, `MCRunner` | instances of the first modules |
| `Workbench` | what a task and its runs consist of, each part an `INSTANCE` that moves alone (`part` says which), and the properties of the parts |
| `Surroundings` | the same of what lies around the coordinator, and of the parts that only compute something |
| `MCWorkbench` (with `MCPublicView`), `MCSurroundings` | instances of both: the constants, and the inputs of the pure parts |
| `CoordinatorProofs`, `UpperProofs`, `RunnerProofs` | theorems about the modules they extend |
| `SurroundingsProofs` | theorems about the parts of `Surroundings` that take steps: `Membership`, `AccountQuota`, `CallPath`, `Paging`, `ControlServer`, `Launcher`, `LedgerFile` |
| `ContentsProofs` | theorems about the parts of `Surroundings` that compute: `Isolation`, `Answers`, `Ingestion` |
| `MemoryProofs` | the same for `Memory` and `Handoff` |
| `WorkbenchProofs` | theorems about the parts of `Workbench`: `TaskPlans`, `Versions`, `Sources`, `Templates`, `Projection`, `PublicView`, `Approvals` |
| `Recursion` | lemmas about recursive functions, lists, sequences that are put together, and sets listed in an order, sums; the three modules above use them |

In every module a definition whose comment begins with "Fault:" is the version of the definition after it that a
plausible slip of the code would give (a guard dropped, an old value kept, an order swapped). No specification uses them.
Put in the place of the definition they belong to, each makes TLC find one of the properties violated; `PROJECT.json`
("mutants") says which.

### 2.1 Coordinator

Every handler in `coordinator.py` is one section of code under `Runtime.lock` with one SQLite transaction, so it is one
action. Three things are not atomic and are modelled as the steps they are: a command commits, releases the lock and
only then pumps; `pump()` commits and starts a thread once per participant and the process may die in between; a worker
runs its CLI without the lock, stores the result in one lock section and deregisters in another.

| Variable | Code |
|---|---|
| `phase`, `cancelled`, `approved`, `createdAt` | columns of `runs`: `phase`, `cancel_requested`, `reduction_approved`, `created_at` |
| `state`, `attempt`, `acked` | columns of `participants`; `acked` is the status `unknown_acknowledged` |
| `drafts`, `reserved` | rows of `drafts`, `live_call_reserved` events |
| `up`, `closing`, `paused`, `workers`, `lingering` | a process owns the ledger; `Runtime.closing`, `.paused`, `.workers`; `runner.lingering()` |
| `batch`, `taken` | the progress of a `pump()` that holds the lock: the snapshot of the queue still to serve, what was decided for the first of it |
| `owed` | request threads between their commit and their `pump()` |
| `calls`, `tree`, `heldOver` | history: what the operating system really ran, what was queued when the ledger was opened |

| Action | Code |
|---|---|
| `PumpEnter`, `PumpFull`, `PumpTake`, `PumpLaunch`, `PumpGiveUp` | `pump` (29-99): entry and hold, no slot left, the start transaction, the thread start, its failure |
| `Spawn`, `Finish`, `FinishLost`, `WorkerExit` | `_attempt` (111-127) with `_finish`, `_finish_unstored`, the process start in `executor.py` |
| `CreateRun` | `WorkService.create_run` |
| `CancelRun`, `SubmitManual`, `WithdrawManual`, `ApproveReduction`, `AcknowledgeUnknown`, `Resume`, `Shutdown` | the methods of those names |
| `Crash`, `Restart` | the process dies; `Controller.__init__` with `_recover` |
| `TreeEnds`, `LingerEnds` | a process tree nobody watches, or a leftover I/O thread, ends |

### 2.2 UpperCalls

A call is named by its purpose, what it is made for and its number (`Id`); `seat` and `syn` hold its row's state, or what the events say
of a synthesis. `pump()` is one step here: no other thread can look while it holds the lock, and what a death inside it leaves
is what `Coordinator` covers. The queue of participants and the review round are served in the order of the code
(`PumpBody`: participants first, then `AdvanceReviews`).

| Action | Code |
|---|---|
| `Ask(c)` | `refine`, `propose_next`, `propose_split`, `collate`, `revise`, `recheck` with `_upper_call_gate` and `_start_seat` |
| `CrossReview(r)`, `AdvanceReviews` (part of `Pump` and `CrossReview`) | `cross_review`, `_advance_reviews`, `_close_reviews` |
| `SeatEnds`, `SeatLost`, `AcknowledgeSeat`, `Exit` | `_seat_attempt`, `_settle_seat`, `_acknowledge_seat` |
| `StartSynthesis`, `SynthesisEnds`, `AcknowledgeSynthesis`, `MockSynthesis` | `synthesize_with_model`, `_synthesis_attempt`, `acknowledge_synthesis_unknown`, `synthesize` |
| `MarkReviewed` | `mark_reviewed`; `News` is `RESULT_EVENTS` with `review_state` |
| `PrepareRun`, `CreateRun`, `RefuseRun` | `prepare_run` before the lock, `create_run` under it: what was seen in the first may be stale in the second |
| `DraftEnds`, `ManualEnds`, `ApproveReduction`, `CancelRun`, `AcknowledgeUnknown` | as in `Coordinator` |
| `Resume`, `Shutdown`, `Crash`, `Restart` | as in `Coordinator`, for the seven tables and the synthesis events |

### 2.3 Runner

| Variable | Code |
|---|---|
| `pc`, `reason`, `tracking`, `confirmed`, `delivery`, `state` | where `_execute` is, and what it will report in `RunResult` |
| `thread`, `wrote`, `writing`, `failed`, `lingering` | the readers and the writer, `_Writer.error`, `_LINGERING` |
| `alive`, `inside`, `doomed`, `known`, `holds` | the processes: those that run, those in the tracked unit (job, process group or PID namespace), those killed, who holds the other end of a pipe |
| `cancel`, `expired`, `late` | the cancel event, the deadline, chunks sent after the cancel |

`Spawn`, `Assign`, `StartThread`, `StartFails` are the start of the process and its threads; `Poll`, `Look`, `Drain`, `Kill`,
`CutOff`, `Confirm` the wait for its end; `Joined`, `JoinTimesOut`, `Return` the joining of the threads and the result;
`ReaderEnds`, `WriterAsks`, `WriterWrites`, `WriterEnds` the threads; `Fork`, `Leave`, `CloseStream`, `Die` what processes may do.

### 2.4 TaskPlans and Projection

`tasks`, `revision`, `deps`, `run`, `last` and `planning` are rows; `paused` and `prepared` (what `prepare_run` let through and
`create_run` has not used yet) live in the process. `SavePlan` is `TaskService.save`; `PrepareRun`, `CreateRun` and `Refuse` are the two halves of
creating a run, before and under the lock; the other actions move the one participant and the one upper call of a run.
`Reach` and `Cyclic` are the search of the code; `PlansAcyclic` compares them with what a cycle is. A preparation that was confirmed is what is created, so the confirmation value is left out,
and a shutdown is the time before the next `Restart`.

### 2.5 Sources, Versions, Templates, Approvals

* `Sources`: `Ask`, `Write`, `Rename`, `List`, `Read`, `Start` are the steps of `_checked_assignment` and `_snapshot` up to the call; `Crash` may come between
  any two; `AlterRun`, `AlterWork`, `AlterSource`, `AlterFolder` are another hand that changes one row consistently, or one folder.
* `Versions`: a preview (`PreviewRound`, `PreviewRevision`, `PreviewCollation`) is what the screen shows, and a start repeats it (`StartRound`, `Revise`, `CollateShown`); `Recheck`, `Dispose`, `Answer`, `Fail` as in the
  services; `Spoil` is a stored text changed behind the store. `ShownRound`, `Collated` and `Report` are the three places that tell of findings.
* `Templates`: `Save` (the check) and `Insert` (the row, counted under the lock) are apart, as in the code; `Load` takes the roster and the context policy that are there after `Restart`. `CanStart` is what `chosen_models`, `validate` and `prepare_run` ask of the server as it runs:
  cards, models, and as many answers it can confirm (`Confirmable`; none under `--allow-context-unverified`) as the draft needs. What they ask of the draft alone does not change between saving and loading.
* `Approvals`: `Split`, `NextStep`, `Refine` are the checks of arrival, `SplitCanBeSent` and `QuestionCanBeSent` compare them with those of sending; a text is its length and whether it can be stored.

### 2.6 LedgerFile, Launcher, ControlServer, CallPath, AccountQuota, Paging, Membership

* `LedgerFile`: `Pick` reads which ledger to use, `Open` takes the lock and looks at the schema, `Backup` and `Migrate` are two steps a process may die between (`Close`), `Bind` is
  `bind_call_budget`, `Reserve` a reservation of any process that serves.
* `Launcher`: every access of the script or a server to one of the four files is a step. `Yield` is the loser of the lock, `Heard` what `_watch` takes as meant for it, `Work` says whether calls run.
* `ControlServer`: the accepting thread takes a slot (`Accept`), makes and lists a thread (`List`), has it begun (`Start`) and waits until it says that it runs (`Accepted`); `accepting` is the connection it is at. The thread passes `Begin`, `Guard`, `Read`, `Act`, `Reply`, `Finish`, or is cut off or never starts.
  `process_request` is left by an exception in `Release`: list reaped, slot given back. `Interrupt` may come at any of these places and at any place of the end (`CloseController`, `Join`, `Settle`, `End`); where it comes within `Thread.start`, both the branch of exceptions and the thread give the slot back.
  `Watch` is the launcher's call of `server.shutdown()`, after which the first interrupt may reach the join; `JoinFails` is a join of a thread that was never started; `raised` is an exception that leaves `serve_until_stopped`.
* `CallPath`: `Read`, `Judge`, `Confirm` are one look at the record, made twice, with `Check`, `Reserve` and `Call` between and after; `Register` is a registration whose label was read before its content (`registration.register` opens the file twice); `vouched` remembers what was registered when `Confirm` looked;
  `Change` is the world.
* `AccountQuota`: a view is `ReadClock`, `Copy`, `View`; a refresh `Refresh`, `Answered` or one of its failures, `SandboxEnds`, `Keep`, `Store`. The clock may be set back.
* `Paging`: `First` and `Following` ask for a page; rows are written in this connection (`Write`, `Commit`, `Rollback`), in another one (`WriteElsewhere`), or only the memory changes (`Switch`).
* `Membership`: one action per event of `decide`; an error leaves the roster as it was.

## 3. What the runs check

| Run | Instance | Shows | Distinct states |
|---|---|---|---|
| `sealing` | one isolated run: two CLI participants, one of unverified context, and one original app; results may fail to be stored | the sealing properties of the ledger and the refinement of `BlindBarrier` | 103,869 |
| `calls` | an isolated run of two and a general run of one, one slot, a cap of two calls and one per adapter | processes, budget, slots, cancels and wake-ups | 150,420 |
| `progress` | two runs of one participant, one slot, no leftover threads | liveness of attempts and of the queue | 15,926 |
| `planning` | two supervised isolated runs, a CLI and an original app, a refinement of two turns | one upper call at a time, paid calls, one use of what a run was made from | 245,476 |
| `rounds` | a run of two CLI participants, a second run, one synthesis, results may fail to be stored | rounds of reviewers, slots over all kinds of calls, the judgment, the end of rounds | 93,259 |
| `revising` | an orchestrated general run of two, a split it may be made from, two revisions, one recheck, plans may be refused | the chain of revisions and rechecks | 220,449 |
| `runner` | one CLI, one other process, all three kinds of unit, input of two chunks, thread starts may fail | what `RunResult` may claim, and the refinement of `CallOutcome` | 678,954 |
| `workbench` | `part` chooses one instance of `TaskPlans`, `Sources`, `Templates` or `Versions`, or an input of the projections, of `PublicView` or of `Approvals` | tasks, what is kept with their runs, and what is told of both | 300,416 |
| `surroundings` | `part` chooses one instance of `Launcher`, `LedgerFile`, `AccountQuota`, `ControlServer`, `CallPath`, `Paging` or `Membership`, or an input of a pure part | what lies around the coordinator | 989,465 |
| `working`, `judging`, `job_race` | see section 7 | where the code and its documentation disagree | - |

The last two passing runs hold several instances side by side, of which one moves in a behaviour: their state spaces add up and do not multiply. Where an instance checks a pure function, `Init` chooses
its input and there are no steps.

Several properties are conjunctions of named parts, and every part has its mutant:

| Property | Parts | What could go wrong |
|---|---|---|
| `SealSound` | `TypeOK`, `RevealSound`, `DraftIffAccepted`, `ReadyIsOpen` | a late answer, an acknowledgement, a recovery or an unstored result opens a run too early or leaves it closed |
| `CallsBounded` | `ParallelBound`, `CalledOnce`, `BudgetRespected` | a slot or a reservation is counted once too few |
| `WorkersInCharge` | `RunningIsOwned`, `CancelReachesWorkers` | a running row nobody will settle, a thread that never hears of the cancel |
| `QueueMoves` | `NoLostWakeup`, `RestartWaitsForUser`, `NothingRefunded` | only commands and ending workers pump |
| `CallSound` | `TypeOK`, `AnswerIsWhole`, `UnitEnded`, `ThreadsCounted`, `CancelStopsInput` | a part of an answer passes for the whole, a process or a thread is left and nobody knows |
| `PlanningSound`, `PlanningStarts` | `TypeOK`, `OneUpperCall`, `EveryCallPaid`, `BindingHolds`; `NeverCalledAgain`, `BoardStartsClean` | two requests prepared from the same refinement, a crash in between |
| `RoundsSound`, `RoundsInTurn` | `SlotsBound`, `ReviewersInOrder`, `NoForgottenRound`; `UpperCallsAlone`, `JudgmentAfterCalls` | a round is moved by whatever thread pumps next |

`OpenIsFrozen`, `CancelSeals` and `ApprovalBindsRoster` (no step changes what was opened, cancelled or consented to) follow from `ImplementsBarrier`, so no run checks them apart; they are proved.
The others:

* `NoForgottenTree`, `ImplementsBarrier`, `RevisionsRechecked`, `KeepsPromise`; liveness `AttemptsSettle`, `QueueDrains`, `RoundsEnd`, `CallsReturn`.
* `PlansAcyclic`, `DraftsUnderCurrentPlan`, `StartsOnFinishedWork`: no order of saved plans, prepared requests, judgments and reviews leaves a cycle, a draft under an old plan, or a run on unfinished work.
* `NobodyWaitsUnseen`, `ProjectionsAgree`: whatever waits for the user is in the list; what roles.py, workflow.py and ledgers.py say of a run agrees, for every set of facts, and for a closed ledger with what reopening it would show.
* `SealIsKept`: two ledgers that differ only in what is sealed give the same view, search, usage, memory and account limit.
* `StartsOnWhatWasFixed`: a call is given what its run was created with or is refused; a folder a crash left is never taken for the sources.
* `FindingsGoAlong`: a collation, the screen and the report tell of the same open findings, of the very version that was chosen.
* `TemplatesAreKept`, `ApprovalsHold`: what was saved is taken up as it was or refused, and refused only where the server as it runs has other cards or models or cannot confirm the answers, within the limit; what was accepted on arrival can be sent.
* `LiveIsRecorded`, `StopsOnlyAsked`: the files tell of the server that lives; a server stops only for a script that meant it.
* `LedgerIsKept`: the first budget stays, for every process, version and crash within a migration; a process leaves a ledger it refuses as it was.
* `ServerEndsWhole`: while the server accepts, every slot is free or held by one connection, whatever fails and whichever interrupt it survives, and its list has no thread that was never started; the ledger is closed after its last use, and the exit code is that of what happened.
  What an interrupt may do is part of the property: once it has ended the server, one slot may be too many or too few, and the thread it has met at its start may be waited for by nobody (section 7).
* `GateIsExact`: a call starts on one content of the record, which was eligible, and registered when its second look asked for it, and is refused there only if something changed since the first. Two mutants: a file that is read again for the registration, and a second look that does not ask for it.
* `QuotesAreReal`: quotes that count are long enough in every reply the instance asks of `Replies`; the case of one that is too short is `ClaimsAddUp`, of the same property, over `ReplyChecks`.
* `LimitsAreHonest`, `PagesAreWhole`, `RosterIsHonest`: nothing old is shown as fresh, no row is missed or told twice, nobody comes back who may still be running.
* `SealHolds`, `AnswersAreWhole`, `MemoryIsBounded`, `QuotesAreReal`, `ExtractsAreWhole`: the pure parts against what they are for: nothing forbidden is seen in the sandbox and what is needed is; an output is accepted only if its last word is a whole answer; bounds of bytes hold and nothing sealed or of another task is quoted;
  a quote is in the draft it names; text that is hidden, cut or redirected to a private address is not extracted.

### 3.1 Bounds

| Bound | Stands for | Why this is enough |
|---|---|---|
| `MaxRequests` 1 or 2 | request threads between commit and pump | two let one command act between another's commit and its pump; more only repeat it |
| `LingerPerCall` 0 to 2 | leftover I/O threads of a call, three in the code | two reach `UnsettledLimit` from one call; the sum over calls passes it |
| `MaxPrepared` 1 or 2 | requests between `prepare_run` and the lock | two let both be prepared from the same turn and then race for it |
| `MaxSyntheses` 0 or 1 | synthesis calls of a run | one meets every other kind of call; a second synthesis of a run is not covered |
| `MaxTurns`, `MaxPerRun`, `MaxRevisions`, `MaxChecks` | constants of the code | two turns and two revisions are the least with an "earlier one" |
| `MaxParallel` 1 or 2, `UnsettledLimit` 1 or 2, `CallCap` 2 to 6 | configuration | as small as makes the limit bite, or (6 in `rounds`) as large as lets a round finish |
| `Chunks` 2, two processes | pieces of input; processes of a call | two chunks put a cancel between them; one process besides the CLI can be its child, leave the unit, hold a pipe and outlive it |

| tasks: `MaxSaves` 3, two or three tasks, two runs | saved plans | a cycle needs two saves against different versions; the third lets one be lost |
| sources: two members, two names, one change by another hand | files and rows | two names let one be missing or foreign; one consistent change of a row must be noticed by another |
| templates: two drafts, six rosters, `MaxTemplates` 1, `MaxSaves` 2 | 100 of the code | one template at the limit and two saves that race for it; a card, a model or the context policy may have changed |
| versions: two members, one author, two revisions with two rechecks each, one collation, two findings, one mishap | calls about answers | the second revision has an earlier one, the second recheck contradicts the first |
| launcher: two copies of the script | windows | two race for the lock, a third repeats one of them |
| ledger: three processes of two versions, caps 3, 2 and none, two providers | starts | an app, a run by hand and an old version; each may be first |
| account limits: two threads (one only refreshes), `MaxTime` 3, limits from 0 to 3 | minutes; 60 and 120 seconds of the code | a clock that is set back, a refresh within and after the wait |
| server: two connections for one slot, `MaxInterrupts` 2, requests of every kind | 16 of the code | one holds the slot, one is turned away; the first interrupt ends the loop, the second the wait |
| calls: three records, three models, two days | the machine | an old observation, one of another plan, one of another machine |
| pages: two rows at two times, two per page, one write in flight | rows | equal times, a row on either side of the position |
| memory: packs of two runs and four bytes, a handoff of five bytes within sources of eight | 3 runs and 12000 bytes, 240 of 256 KiB | one run more than fits, by number and by size; `MemoryProofs` has every limit |
| roster: three participants, two substitutes, a quorum of two | any number | `SurroundingsProofs` has every number |

Attempts of a participant need no bound of their own: an attempt is never repeated, which is what `CalledOnce` checks and
makes the spaces finite. Deadlock is checked in every run but `runner` and `job_race`, where a call ends, and `workbench` and `surroundings`, where inputs have no steps and bounded instances end.
Symmetry is not used: the participants of an instance differ in transport, adapter or place in the queue.

## 4. Fairness

* `Coordinator!FairSpec`: a started pump runs on (`WF PumpStep`); a thread that waits for the lock gets it although others
  take it again and again (`SF` of `PumpEnter`, of storing a result and of deregistering, per participant). That a call ends is part of the second:
  `cli_executor.py` gives every call a timeout and `runner.run` returns after it, which `CallsReturn` checks. The strong form is needed because the pump holds the lock over several
  steps and so disables the others repeatedly; a lock that starves a thread for ever would break it, and Python's does not.
* `UpperCalls!FairSpec`: weak fairness of the same steps; there a lock section is one step and nothing but a crash disables them.
* `Runner!FairSpec`: the calling thread runs (`WF CallStep`) and the deadline passes (`WF Expire`). Nothing is asked of
  processes, of the operating system or of the I/O threads: a call returns although a process never dies and a reader never ends.

No action of the user, no restart and no end of a lost process is fair. `QueueDrains` and `RoundsEnd` therefore say "if from some time on
nothing is left that only the user can clear" (`Unblocked`: not paused, no unconfirmed end in the way, budget left).

## 5. What is proved

Proofs are for every value of the constants that satisfies the named assumptions, so for any number of runs, participants, requests and processes.

* `CoordinatorProofs`. `TypeCorrect`, then `LedgerSafe`: `LedgerInv` is inductive. It is needed because `RevealSound` is not: that an open run
  is complete follows from what the gate saw when it opened (`OpenedByGate`), which must survive every later step, and it does only
  because decided participants stay decided and a consent is for a settled roster (`ConsentIsSettled`). The proof does not go action by
  action through the ledger: `NextLedgerStep` first shows that every step of every handler is one of a few ledger steps
  (store a result, create, cancel, consent, take from the queue, recover) or leaves the columns alone; `StoreKeeps`, `CreateKeeps`, `CancelKeeps`, `ApproveKeeps`, `TakeKeeps` and
  `RestartKeeps` treat each once. From it follow `OpensOnlyWhenSound`, `DraftsAreAnswers`, `NothingHeldBack` and the action properties
  `OpenStaysFrozen`, `CancelledStaysSealed`, `ConsentStaysBound`.
  `BarrierKept`: `Coordinator` implements `BlindBarrier` under the mapping of `CoordinatorBarrier`. `LedgerInv` is used in both
  states of a step: with it, a step that opens a run is the step that decided its last member (`ReadyIsOpen` before it).
* `RunnerProofs`. `RunnerInv` is inductive (`RunnerSafe`), and gives `CancelStops` and `RunnerTypeCorrect`; `ConfirmedSafe` and `PromiseKept` need the assumption
  `NoEscape` ("job_object" \in Units => ~EarlyFork), without which `job_race` refutes them. `AnswersAreWhole`, `UnitsEnd` and `ThreadsAreCounted` need no assumption
  but `RunnerAssumption`; they rest on three more inductive layers (`ProcessesInv`: who is in the unit and who was told to end, `ThreadsInv`: what a joined or left
  thread means, `ResultInv`: what the result says of both).

* `WorkbenchProofs` begins with the plans of a task. `NoMutualWait`: the search of `save` finds every cycle, for any finite set of tasks. A cycle is a set of tasks each of which waits for another one of the set; `ReachCloses` shows that what can be reached is closed
  under prerequisites, so a plan that would close such a set finds its own task. `DraftsStayCurrent`: the strengthening says of every prepared request and every run under which revision it stands, and that a save finds the task busy while one of them drafts.
  `ScreenInv` adds what the screen relies on: plans name stored tasks, a task without a plan has no prerequisites and has runs, an open run is not cancelled and has no draft in flight. TLC checked it on the instance of `workbench` first.
  `RunsStartOnFinishedWork` and `WaitingIsSeen` follow. They need what `project_tasks` computes in rounds: `Projection` writes it as a recursive function over 0..N. `CountUp` is the induction over 0..N for a set instead of a predicate (it is the well-foundedness of < on Nat), and `Iterates` says that a function defined by
  recursion over 0..N exists, without which the `CHOOSE` behind it would mean nothing. `RoundsAreRanked` and `AllSettle` are the two halves of the rounds: the prerequisites of a finished task were finished in earlier rounds, whatever the references are (`FinishedFailsClosed`), and every task is settled if no tasks wait for each other, which is why the inbox never tells of a cycle.
  `ListStaysWithSteps` and `ClosedLedgersToldTrue` are about `PossibleFacts`, all that a ledger may hold of a run with any number of calls, where the runs of TLC enumerate small ones. `FirstDecides` (the first rule of a list that applies exists) turns the thirteen rules of `roles.py` into what each status implies (`IsolatedSays`, `GeneralSays`), once for all projections.
* `SurroundingsProofs` has the small parts that share nothing. `RosterStaysHonest`, from `RosterInv`: no alternate is, or ever was, a participant, and nobody is both active and given up. Only so does taking in an alternate never bring anybody back.
  `LimitsStayHonest`, from `QuotaInv`: whoever is inside the dialogue, or has not stored its result yet, holds the lock. `GateStaysExact`, from `PathInv`: `Passed` says what an attempt at each place has behind it (the content judged last is the one that was read, was good on some day up to today, and was registered when the second look asked),
  `AsItWas` what is still so while the world has not changed, place by place; so a refusal at any place means a change. It assumes `ConfigurationRules`: the default model is in the list and paid by the subscription, which `Provider.__post_init__` refuses to start without.
  `PagesStayWhole`, from `PagesInv`: an index under the token of this moment was built from the rows of this moment (a write in a transaction raises the token at once, so nothing built before it passes for fresh, rolled back or not), and all that is owed to a walk is shown or below its position.
  That a page leaves nothing out needs the ends of finite sets (`ExtremeExists`, from the well-foundedness of strict inclusion): a page holds the latest rows below a position, each above all that are left. `ServerStaysWhole`, from `ServerInv`: only the connection `process_request` is at may hold a slot without a thread that has said that it runs (`AcceptInv`);
  all threads that run are on the list but for one at most, and as long as the server accepts none that was never started is on it (`HandsInv`); slots and those who hold one add up to `MaxConnections`, or miss it by one once an interrupt has ended the server (`SlotsInv`).
  After an undisturbed join at most that one thread still runs (`StopInv`), and the controller is closed before the ledger (`LastUseInv`). Every thread of a step is one connection's, so `ServedMoves` says once what a step does to those counted.
  `LedgerStaysKept`, from `LedgerInv`: whoever is past the lock is its holder and has the schema its step left; a process that serves calls goes by the row of the ledger, not by its own configuration; and the row bounds every reservation, those made before there was a row too.
  `LiveStaysRecorded`, from `FilesInv`: from taking the lock to its end a server holds it, so that all writers of the state but one have ended. `StopsStayAsked`, from `RequestInv`: a request that names a server, and a decision taken on it, can be traced to a script that had shown a window and never goes back.
  Each theorem is about the part alone. At the end of the module it is carried over to `PartsSpec`, the specification the run checks: `PartsSpec` implies the specification of each part (`PartsInit` its `Init`, and a step of `PartsNext` its step or none), so what is checked on the small instance is what is proved for all.
  The assumptions on the constants (`PartsAllowed`: script and thread names, what a configuration may say, rows with an order) are checked by TLC for the instances of `surroundings`.
* `ContentsProofs` has the parts of `Surroundings` that compute something. What they are given does not change (`InputStays`), so a theorem for every input is an invariant of `PartsSpec`. `InputsAllowed` says of what kind inputs are, without a bound on their length; TLC checks it for the inputs of the run.
  `SealsHold`: `PlanHas` says which connections a plan consists of, whatever folders are asked for. It needs that the sort by depth has a result (`ListExists` of `Recursion`) and that `SetToSeq` lists every element. `SealedStaysUnseen` and `ReadOnlyStaysSo` are about any list of connections `_validate_mounts` lets pass, between any paths: of two folders above one path one lies in the other
  (`FoldersNest`), so a connection that shows a file of a sealed folder lies in it or above it, and is refused; and two connections above one file are nested, of which the inner one comes later and may not be wider. The second holds of what is shown under its own name only, and `BoxesStaySealed` shows that nothing else is ever connected for writing. A connection is seen by its own name, because none that is made later covers it.
  That the box of a participant is not refused (`ParticipantsGetABox`) is an argument about order: connections of one mode may always follow each other, because outer folders come first (`ByDepthHas`), folders that begin with different names are apart (`HeadsAfter`), and three pairs begin alike: a CLI's folder within the home, the program of Claude within `/usr`, work and inputs. It holds for any host.
  `AnswersStayWhole` is about outputs of any length. `Answers` reads an output by a recursive function of how far it has come; that there is one is proved from its finite beginnings (`ReadsExist`), and what it has read after each event (`CodexTells`, `ClaudeTells`) by induction for a set instead of a predicate.
  `SourcesAreReadWhole` has three parts. `BodiesAreWhole`: what `fetch` accepts is the last of at most `MaxHops` responses, all from the public side, whose chunks add up to what it announced. `ExtractsSayAll`: what is left out of a text is told. `PagesAreShown`: the list of open hidden elements the code keeps is, before each piece of text, the hidden part of all that is open
  in the sense of the page (`HidingKept`), as long as tags are nested; what a browser makes of other pages is not modelled.
* `MemoryProofs` has `MemoryStaysBounded`, for any number of runs, sections and answers of any size, and any limits. How a pack, an excerpt and a handoff are put together is a recursive function each; `PackingIsRead`, `GivingIsRead` and `BindingIsRead` show that it exists, and read it step by step.
  `PacksStayBest`: that a better run is missing only because it did not fit is not inductive, since what comes before an entry is settled only when the entry is taken. `Kept` says it of the list instead: a run that was looked at is in the pack, or the pack was full with better ones, or it did not fit with the better ones that are in it (`KeptStays`, `PackIs`). It needs that a finite set has a list in the order of rank and age (`BestFirst`, from `OrderExists` of `Recursion`).
  `ExcerptsStayFair`: `GivenOut` says of both ways of sharing (parts of a section, sections of an excerpt) that nobody gets less than it had or more than it wants, and that all is given out or nobody lacks anything. `HandoffsStayOpen`: what is bound is the beginning of the list of open runs (`BoundIs`), and turning it round changes neither sum nor what is in it.
  Assumed (`MemoriesAllowed`, checked by TLC for the inputs of `surroundings`): no two runs were made at the same time (`made` stands for the time and the id that breaks its ties), every section has a budget and a place in the order, and head, results and empty line are within the limit of one source (`SourceBytes`: 240 KiB and a head within 256 KiB).
* The rest of `WorkbenchProofs` has what is kept with the runs of a task. `FindingsStayAlong`, from `VersionsInv`: its core, `RevisionOK`, says that a revision was asked exactly what had been found about the texts of its author before it was called, and that no call older than it can still find anything.
  Only with that is "what the author or a recheck left open, and what a recheck found" (`_revision_open`) the same as "every finding about the version or a text before it that is not settled" (`OpenIsUnsettled`). It rests on the limit of the code: `_context` asks for the findings of the reviews and of the rechecks of the last revision, so a third
  revision would not be asked what a recheck found in the first; with `MaxRevisions` 3 TLC finds `FindingsGoAlong` violated, and the theorem assumes at most two (`RevisionRules`, `OneBefore`).
  `StartsAsFixed`, from `SourcesInv`: `OneHand` says what one change can have left of the rows (a field and what it is checked against are never both changed), `AgreedIsFixed` that rows which agree are then those of the creation, `UnderWay` that an attempt goes on only while they do, and `Clean` that without another hand a folder that is there is whole.
  `TemplatesStayKept`, from `TemplatesInv`: the digest of every copy, in a row, a file or on its way, is one that was saved by hand, and a copy nobody has changed still fits it, so that only the server as it runs can refuse it. The bound is counted again when the row is inserted, so it does not matter how many saves are under way.
  `ScreensStaySealed` has two halves. `SealedRunsTellNothing` compares the view of any runs with the view of the same runs whose sealed contents are blanked: each part of the view reads of a sealed run only what is not sealed. `OpenRunsTellAll`: of an open run every call, hit and limit is told; lists are there made by joining what is taken of each entry, and `Recursion` says what a joined list contains.
  Assumed is that a ledger is a finite list of runs of any size, each with lists of any length; TLC checks it for the inputs of `workbench`.
  `BoardsAreFair`, `QuestionsCanBeSent` and `SplitsCanBeSent` are about the two checks of one proposal, on arrival and when it is sent. As many items as members with different labels name every member (`EveryMemberHasOne`, the pigeonhole principle of the library), so what was accepted can be sent whole. The last assumes what `propose_split` has refused before
  (no member, an orchestrator that is no CLI); without the first, a split with no members would be called unchanged whatever was written.
  `ProjectionsStayAgreed` and `WhatIsApprovedHolds` put such parts together. As in `SurroundingsProofs`, each theorem is carried over to `WorkSpec`, the specification the run checks, under `WorkbenchAssumption` and `InputsAllowed`, which TLC checks for the instances of `workbench`.
* `Recursion` has what the library's induction theorems would be used for. They take an operator as parameter, which no installed prover can instantiate; `CountUp` is the induction over 0..N for a set instead of a predicate (from the well-foundedness of < on Nat). With it follow that recursive functions over 0..N exist, what a joined list contains, that every finite set can be listed by depth or in a strict order, and how sums change when numbers are added, raised or put in another order.
* `CoordinatorProofs` also has the threads and processes. `AttemptsAreTracked`, from `CallInv` next to `LedgerInv`: it says of every attempt how far it has come. The row `pump` has taken has no thread, no call and no tree yet (`Fresh`); a thread is the only one of its row, which runs the thread's attempt until the thread has settled it (`Own`);
  a live tree belongs to a row that runs, is of unknown outcome or was vouched for by the user (`Called`); a running row is the one `pump` is at or has a thread, unless results cannot be stored (`Owned`); and what `pump` still has to go through contains the queue (`PumpInv`).
  `NoTreeForgotten`, `CallsStayBounded` and `WorkersStayInCharge` follow: a slot is held as long as its tree may live, so the number of slots bounds the number of trees. `QueueStaysMoving` goes through the ways `pump` is left (an empty queue, a held one, no slot) and the actions that free a slot or lift a hold: only the end of an I/O thread that outlived its call frees one without a `pump`.
* `UpperProofs`. `UpperInvariant`: `UpperInv` is inductive for every roster, number of rounds, cap and bound. The calls are in three tables that know nothing of each other (`seat`, `syn`, `state`); `TellInv` says what a row of each tells of its call: whether it was called, and that a call
  which may be alive has a row that holds its slot. The proof does not repeat itself for every handler and part of the invariant: `StepFlows` shows once that each handler moves rows only along certain paths (`Moves`) and pays for what begins (`Begins`), among them the handler that starts a call, ends one and pumps in the same lock section;
  from that alone `TellStays`, `SlotsStay`, `PaidStays`, `RevisionsStay` and the others follow. `SlotInv` needs a count of calls in flight before and after: an upper call begins where no other call is in flight, `pump` begins no more than the slots left (`ServeQueueShape`). `BindInv` keeps what a prepared run is going to use apart from what others have used, because another
  request may create its run between preparation and lock. `RoundInv` is what `ReviewersInOrder` lacks: rounds are numbered as they are created, only the oldest waiting round has anybody called, and while somebody waits only the last who was called may be without an accepted answer.
  `PlanningKept`, `RevisionsAnswerRechecks`, `CallsStartClean`, `CallsInTurn` and `RoundsKept` follow. The last holds `NoForgottenRound`, inductive next to `UpperInv`: every step that makes a round able to move leaves a thread on its way to `pump`, or has found in the same section that it cannot. Its proof needs the oldest of finitely many rounds, which
  `OldestExists` takes from the well-foundedness of strict inclusion on finite sets: the least element of a set can be had without induction over an operator.

`SealStaysSound` and `CallStaysSound` put the parts of `SealSound` and `CallSound` together.

Two things the code takes for granted are taken for granted here: one process owns a ledger (the lock of `store.py`), and the process group of bubblewrap is empty only
when its PID namespace is (`runner.py:58-60`).

## 6. What is only model-checked

* Liveness under fairness: `AttemptsSettle`, `QueueDrains`, `RoundsEnd`, `CallsReturn` (out of the prover's reach).
* `QuotesAreReal`: how a reply is repaired, searched and counted, and how excerpts are chosen, are folds over sequences of characters and items (`Replies`, `ReplyChecks`, `Excerpts`). What a fold computes for every input is out of reach as it stands (induction over data);
  written as recursive functions they could be proved about with `Recursion`, as `Answers`, `Ingestion`, `PublicView`, `Memory` and `Handoff` are. The runs of TLC enumerate short replies.

## 7. Where code and documentation disagree

* `working` (`coordinator.py:39`): when a leftover I/O thread that held the queue back ends, nothing pumps; the screen then says "working" of a run that
  no longer moves by itself, against `app/README.md:88`.
* Not a run any more, but still so (`reviews.py:411`): a queued reviewer waits as long as any run is drafting, one that waits for the user's paste included, and is shown as "working".
* `judging` (`repository.py:10`): recovery makes an unconfirmed end news to the judgment for five kinds of calls, not for a synthesis, although the comment says an unconfirmed end is a new result.
* `job_race` (`runner.py:362`): on Windows the CLI runs before it is put into its job; what it starts in between is not a member, yet the
  module's docstring says descendants cannot leave and `tree_confirmed_empty` tells whether all of them have ended.

Met while modelling, without a run of their own (the models follow the code):

* `start.ps1` (line 3) says a window stops only the server it opened. If the server that won the lock is slow, the copy that lost times out, opens a window on the winner and does not own it; the winner's own script may have given up, and no window stops that server.
  And a start that read of a live server which ends before the lock is taken withdraws, after which nothing serves; opening the app again does.
* `server.py` (comment at 511) has the ledger closed only after the threads of all connections are collected. A second interrupt, or the first one after `launch._watch`, ends that wait. An interrupt that falls within `Thread.start` (529) makes the branch at 530 take a thread off the list that has not said yet that it runs: it runs, but nobody waits for it, and the ledger may close under it;
  its slot is given back by the branch and by itself. If all slots are free at that moment, the semaphore's `ValueError` takes the place of the interrupt and the server goes on. One that falls between 525 and 528 loses the slot, one in `controller.shutdown(timeout=0)` (697) leaves the ledger open and the threads unwaited for.
* `refine`, `propose_next`, `propose_split` and the synthesis take no id from the client: a request that is sent again after its answer was lost is a second call.
* A bubblewrap that is not the system's own is noticed after the reservation, which is not given back.
* `registration.register` reads the record twice and rewrites its list from what it read: a record changed in between is registered under the older one's label, and of two registrations at the same time one is lost. Both are noticed by the second look of a call as a record that is not registered.
* `memory.select` tells `older_runs_not_considered` as 0 always.
* The repair of a reply may turn a valid reply with an item that is no string into a refused one: it fails closed.
* An isolated run whose question and prompt are changed together in its one row is not noticed; of a general run the digest of all inputs would notice it. A folder of sources changed after it was looked at and during the attempt is not noticed either.
* `ledgers.handoff` stops at the newest run that does not fit, although an older one might.
* A collation may start between two reviewers of a round, and is then told of the first one's findings only.
* A finding left open by the author and by a recheck counts twice in the report's number of open findings.
* The browser drops an answer of the server that is older than the last one by its sequence number, which a restarted server counts anew (`static/index.html:1292`).

## 8. What is not modelled

* The browser client (`app/static/index.html`): layout, event handlers and polling; what it may rely on is stated of `PublicView` and `Paging`.
* `tools/`, `docs/experiments/`: scripts a person runs once to observe a CLI or to evaluate prompts; nothing in the app calls them. The record they write is an input of `CallPath`.
* Text: prompts, wording, layout of reports, character sets and media types, command lines and environment of the CLIs, `fake_cli.py`.
* In `Ingestion`: a response is one step, so that its whole time is held against the deadline at once; the code looks at the clock before each connection and each read (`url_fetch.py:70`, `95`), lets the last read end a little later, and is ended from outside after 8 seconds.
* HTTP routing, tokens, ports, the desktop window (`app/server.py`, `app/launch.py`): no state that outlives a request but what `ControlServer` and `Launcher` have. `app/run.py` and `wiring.py` call the services in a fixed order.
* In `Runner`: limits of the output, marks in it, encodings, a pipe that fails while it is read, the `ctypes` wrapper of jobs.
* The PDF converter, bubblewrap, the JSON parser, the operating system's processes and locks are external: modelled by what the code relies on.
* SQLite itself: a transaction is atomic and durable.

## 9. Plan

1. `Runner`: the mark counter (`runner.py:118-142`) against counting in the whole text, for every way the output is cut into pieces; output limits.
2. The dialogue with the app-server (`codex_account.py`) message by message, in the place of one step of `AccountQuota`.
3. A composition of `Sources` with `Coordinator`, so that a refused input is one of the ways an attempt ends.
