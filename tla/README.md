# hpc-bridge in TLA+

Models, model-checking runs and machine-checked proofs of hpc-bridge's core: how it sends paid work to
scheduler blocks, keeps count of it on a local ledger, and recovers. Paths below are relative to the
repository; `batch.py` and the like are in `src/hpc_bridge/`.

1. [What the system is](#what-the-system-is) · 2. [The models](#the-models) · 3. [The runs](#the-runs) ·
4. [The proofs](#the-proofs) · 5. [Where the code and its words part](#where-the-code-and-its-words-part) ·
6. [What is not modelled](#what-is-not-modelled) · 7. [The plan](#the-plan)

## What the system is

hpc-bridge is a tool server (MCP) that runs beside an agent on the user's machine. It obtains a *block* (a pilot
job of a cluster's scheduler) through a Globus Compute endpoint, runs commands, batches and jobs on it, and
releases it. A block bills, so nothing may start one without the user's yes. Several servers may run on one
machine (one per agent session); they share a ledger (SQLite, WAL) and a state directory.

| Component (source) | State it keeps | Operations | What makes it correct |
|---|---|---|---|
| **Batch engine** (`batch.py`) | in memory, per batch: `_Run` (its runner, old runners, the block it learnt, flags), `futures`; one pass at a time (`passing`); `app.lock` around admission | `run_batch`, `_resume`, `status`, `cancel`, `_adopt`, the background `_loop`, a pass `_tick` (collect, REST pull, reconcile unsent and unknown, presume, evidence, switch, admit), `pause_all` | a row that may not be run twice never is; a settled row stays; no row is stranded; the window of the block holds; nothing is admitted without a yes |
| **Batch wrapper** (`batch.py:task_script`) | on the shared file system: `attempt-<n>` directories, slots, the `CANCELLED` marker | guard, claim, slot, command, result line | a copy of a task runs nothing; a result names its attempt |
| **Batch ledger** (`ledger.py`) | tables batch, task, tgroup, retired, block readings | `add_batch`, `reserve`, `settle`, `take_lease`, `heartbeat`, `retire`, ... each one transaction | one server admits; the window several batches share is kept, and none starves |
| **Jobs and the budget envelope** (`jobs.py`, `ledger.py`, `meter.py`) | tables envelope, job; readings | open, widen, adopt, close an envelope; reserve, submit, settle, cancel a job; read the meter | what is committed plus charged never passes the budget; a charge is never understated or lost |
| **Block confirmation and warmth** (`warmth.py`, `lifecycle.py`, `context.py`) | `ShapeRuntime` per shape: confirmed, canary, guard, reaped, task counters | `_provision`, `_check_reaped`, dispatch, poll, drop the shape | a block is asked for only on a yes; a check is never left behind; a reap is seen |
| **Stop and teardown** (`server.py`, `state.py`) | durable list of sent checks and endpoints | `stop_endpoint` in three locked steps, `teardown_endpoint` | a stop that says `down` leaves nothing that bills; it never cuts off running work |
| **Endpoint handoff, Globus login** (`handoff.py`, `login*.py`) | pending hand-off, armed login flow | start, collect, complete, cancel | one billed canary per config; a completion that races a wait is not lost |
| **Row sizing, resource requests, cost** (`sizing.py`, `resources.py`, `cost.py`, `shapes.py`) | none | pure functions | a size that fits; a price that bounds the bill |
| **Discovery, connect, facilities, scheduler operations, executors, wording** | the bound facility | ladders of lookups, I/O, text | – |

**How they interact.** A tool call and the background loop of a server are coroutines of one event loop: they
interleave at every `await` and share `AppCtx` (`app.lock` guards the shapes and each admission). SDK futures are
completed by other threads, but read only by a pass. Processes interact through the ledger alone, a transaction
at a time. The service is reached by POSTs the transport may retry, a result channel that may quit, and REST
lookups; a block is started, and may be ended, by the scheduler behind everyone's back.

**Where it is hard.** A resume awaits the user's block for minutes while passes, cancels and stops of the same
batch run. A row's fate can come from a future, a REST pull, a stray task of a task group, or the scheduler's
record of its block, late, twice, or not at all. A server can die between a POST and its answer. A pid or a block
config can outlive what it named. `PROJECT.json` lists these at their lines, with the properties that watch them.

## The models

### ComputeService: the service, the scheduler, the wrapper

A task `<<r, n, c>>` is copy `c` of attempt `n` of row `r`. The service and scheduler are external, modelled from
how `batch.py` uses them: a task is queued, runs at a live block of its config, ends with a result or is reported
lost; a block ends at any time. `OnNode` is the wrapper: the wrong-block guard, the atomic claim of
`attempt-<n>`, the marker, a slot, then the command. Every result kind the engine tells apart is a state.

### BatchEngine: one batch, its passes, the user's calls

| In the model | In the code |
|---|---|
| `row`, `bstate`, `cancelReq`, `groups`, `retired` | the ledger: they survive `Crash` |
| `run`, `fut`, `minted`, `shape`, `pc`, `mine`, `ids`, `rs`, `stopping` | a server's memory: a crash loses them |
| `Collect`, `RestPull`, `ReadGroups`, `Strays`/`Naming`, `SettleUnsent`, `Reconcile`, `Presume`, `Evidence`, `Admit` | the stages of `_tick`, one action per piece of code between two awaits; `pc` is the stage the pass is at, `mine`/`ids` the snapshots it carries over its awaits; `PassOn` lets it skip stages whose spacing or deadline is not due |
| `StateAfter`, `SettleRow`, `Aftermath`, `ReapCurrent` | `_settle_result` / `_settle_failure` and what else they do: retire, reap, pause |
| `ResumeStarts`, `ResumeAdmitsAgain`, `ResumeAdmits`, `ResumeFails` | `_resume` before, after and long after its `await ensure_up` |
| `Cancels`, `RecordsCancel`, `PassCancels` | drain and abort, here or recorded by another server for this one |
| `StopStarts`, `StopReleases`, `StopEnds` | `stop_endpoint`'s three locked steps, as the batch meets them |
| `Confirms`, `ConfirmsElsewhere`, `FindsReaped` | a confirmation of a block for the resume, or for other work; the shape marked reaped |
| `PostAnswered`, `PostRetried`, `PostFails`, `ChannelQuits` | the SDK: the answer that names the task and its group, a retried POST, a failed submit, a dead result channel |

`yes` is history: the block the user's last yes of this batch is for, cleared by every pause, drain, abort and
restart. The refinements of timing that the code makes with clocks (walltime gates, spacing of lookups, age of a
presumption) are nondeterministic here: a check may or may not be due. That is more than the code can do, so
what holds here holds for every setting of those clocks.

### RowContract and BatchContract: what the engine promises of a row

`RowContract` is the batch as the user sees it: a row has a *command*, which runs at most once, and an *answer*,
given at most once, that is what the command did. It knows no attempts, tasks, futures, blocks or passes.
`BatchContract` maps the engine to it: the answer is the row's state on the ledger once that is terminal; the
command is the one task of the row that started, over all its attempts, as the wrapper left it. `Implements` says
that every step of the engine is a step of the contract, or a stutter. A command may start after one answer only,
`lost`: the reason is in [Where the code and its words part](#where-the-code-and-its-words-part).

### Lease: several servers and one batch

Servers are processes with pids; the lease names a pid and a start time. `HeartbeatAges` may happen at any time,
so a server can be suspended anywhere for as long as it takes. `AdoptTakes` and `AdoptPauses` are the two
transactions of `_adopt`; `PassStarts` checks the lease, `MayReserve` checks it again in `reserve`, and nothing
in between or after does: `PassReturns`, `PassSettles` and the state write of `ResumeAdmits` do not. `Sends` is a
step of its own, since a process may be suspended between the transaction that reserves a row and its submit.
`PidGoesOn` hands a dead process's pid to another program, or to another server. `Unambiguous` says that this has
not led a server to take another for itself yet: no server got another's pid, or starts are never compared. Four
of the properties are claimed while it holds.
BatchEngine assumes what Lease shows, that one live server works on the batch.

### BlockWindow: several batches and one block

`Reserve(b)` is `reserve` of `ledger.py` for one batch: who counts against the block, what is left of its window
(before the block is measured, a worker each) or of its pool (CPUs, memory, GPUs), what is held back for the
waiter in front, and the rank that says who that is. Rows are counted by state, since `reserve` sees only counts
and sums: in flight, overdue, of unknown fate with or without evidence, presumed lost by job, of unknown fate on an
earlier block. The rest of the system is what changes those counts: `Settles`, `LostSettles`, `Reconciles`,
`Presume`, a server that dies, is replaced, pauses, a second scheduler job on the same config, the worker
count that is learnt and later measured.

### Envelope: jobs and the user's money

| In the model | In the code |
|---|---|
| `envelope`, `job`, `hand` | the tables `envelope` and `job`, and a submit the user approved by hand |
| `sched`, `wire`, `past` | the scheduler's jobs, submit commands under way, deadlines |
| `pc`, `at`, `doing`, `reading` | two coroutines per server: a `submit_job` and another call (`status`, `cancel`, `stop_endpoint(jobs=..)`), each action the code between two of their awaits |
| `reading` | a reading of the meter (`tick`): the rows it took before its login call, and what the scheduler said then, written later over the rows as they are by then |
| `SubmitInto`, `SubmitOffered`, `SubmitNew`, `AdmissionRead`, `OpenEnvelope`, `Reserve`, `MarkExhausted`, `ScriptWritten`, `SubmitAnswered`, .. | `submit_job`: read the meter, take, re-offer or open the envelope, reserve in one transaction, submit, record |
| `CancelEnvelope`, `CancelJob`, `StopCall` .. `StopAnswers` | `cancel` (drain, abort, one job) and the jobs' part of `stop_endpoint`, await by await |
| `HandOpens`, `HandSubmits`, `Adopts` | a submit by hand that the user approved, and the reconciliation that adopts its job |
| `barred`, `asked` | history: the envelopes a stop closed; the user wants everything stopped |

`Prompt` is the assumption the code's clock constants make: an admission ends before its reservation is old
enough to be refused by another server (`STALE_RESERVATION_S`), and no process is suspended between two
transactions that have no await between them.

### SentChecks and StopEndpoint: a stop that says `down`

`SentChecks` is the durable record of tasks that can still start a block. A write is decided on the event loop
(`pending`), waits for the record's thread (`writing`), and is merged there with what other servers wrote; a write
that fails is tried again later (`retries`). Servers die, and another acts on what is on disk. `StopEndpoint` adds the
phases of `_stop_endpoint_blocks` (looking, asking the service, cancelling, released, settling), with no lock held
between them, and `down`. `Gaps` names four ways in which a `down` is not true: each is a step of the environment
that can be switched on, and is off in the run.

## The runs

Bounds are constants of the cfg and appear in the guards of the actions they limit (`MaxAttempt`, `MaxRunners`,
`MaxBlocks`, `MaxCalls`, `MaxCrashes`, `Copies`, `MaxTroubles`, `MaxSent`, `MaxStops`).

| Run | Instance | Shows |
|---|---|---|
| `batch_calls` | 1 row, 2 attempts, 2 blocks of an SSH endpoint, any 2 of the 7 calls at any await | `AtMostOnce`, `OutcomeIsOwn`, `SettledSticks`, `ReturnsOnlyUnstarted`, `FuturesAreOut`, `TypeOK`; the refinement of the row's contract (`Implements`) |
| `batch_copies` | 1 row, 2 copies of each task, 1 block, a stop | `AtMostOnce`; a batch called done is quiet (`DoneIsQuiet`) |
| `batch_crash` | 1 row, 2 blocks, a crash anywhere, a resume | nothing is admitted before a new yes (`AdmittingHasYes`); no row in flight is stranded (`InFlightResolves`) |
| `batch_window` | 2 rows, 1 slot, 1 block | tasks at the block never exceed the window (`WindowKept`) |
| `lease_servers` | 3 servers, 3 pids handed on to servers and other programs | only a dead server's batch is taken (`TakenFromTheDead`), and is taken in the end (`DeadReplaced`); a server that lost the lease reserves nothing (`ReservesAsKeeper`), an attempt is one server's (`AttemptIsOnes`), admission follows a yes (`AdmitsOnYes`), what was returned as never sent is not sent (`NeverSentLater`); `TypeOK` |
| `block_window` | 2 batches, a block of 2 CPUs, small rows without end beside a row that takes the whole block; 2 scheduler jobs | no reservation overfills the block in what its rows take (`BlockKept`), a free slot is taken (`SlotIsTaken`), neither batch starves (`EachIsServed`); `TypeOK` |
| `env_servers` | 2 servers that may die, 2 envelopes, 1 job, `stop_endpoint(jobs='cancel')` in each | an envelope a stop closed admits nothing (`StopHolds`) and does not reopen (`StaysClosed`), `down` is true of the jobs of every server (`DownIsTrue`); `TypeOK` |
| `env_budget` | 2 servers that may die, 2 envelopes, 2 jobs, cap 3, ceiling 5, status readings | what can still bill is held (`HoldsCover`), the caps stay under the ceiling (`CeilingKept`), no reservation passes the cap (`BudgetKept`) |
| `env_hands` | 1 server, a hand submit's job beside a job of ours, submits that are lost, stop, abort, status | `HoldsCover`, `DownIsTrue` where jobs are adopted |
| `env_live` | 1 server, 1 job, deadlines, a drain, an abort, a kept job before the stop | a user who repeats the stop is told `down` in the end (`StopEndsDown`) |
| `stop_down` | 2 servers, a check or a command, one crash, one trouble | a `down` is true (`DownIsQuiet`), the record keeps what can start a block (`RecordKept`), a dead server's rows stay for the next (`DeadRowsKept`); `TypeOK` |
| `record_undone` | 1 server, 2 checks, one failed write | ends in a violation: [below](#where-the-code-and-its-words-part) |

**Why these bounds.** One row has every interleaving of its own fate; two rows are needed only where rows compete
(the window) or share a run of admissions. A second attempt is the first that can be overtaken by the first's late
result. Two blocks give a reap, a refusal and a new confirmation; three runners give one per confirmation and one
after a failed executor. Two calls are the smallest number that can cross (a drain in a resume, a stop in a
resume). Three servers are a dead holder, a successor, and a third that judges the successor's lease. Two batches
are an asker and the waiter it defers to; a block of two CPUs is the smallest that one of them fills and the other
does not. Two jobs of worst case 2 under a cap of 3 fit only one after the other, and a ceiling of 5 holds one cap
of 3, not two. Two servers and a task are a stop beside the sender, or after its death. The proofs remove these
bounds for the properties they cover.
Larger instances that were checked once, and hold: a check and a command of one server, stopped by another, one
crash (3.1 million states); the same two in one server without troubles; `Implements` also on the constants of
`batch_copies` and `batch_crash`; `OutcomeIsOwn` and `SettledSticks` for two idempotent rows in one slot.

**Where a property is claimed.** `AtMostOnce` is claimed without crashes, and for retried POSTs with one block:
elsewhere it fails (*never sent*, *refused copy* below). `WindowKept` is claimed for batches that may not be run
again and without copies: a retried copy or an idempotent retry of an unknown submit runs beside its original by
design. `DoneIsQuiet` is claimed for one block, since a *false reap* lets a batch end under a live task. The
theorems on these two replace the single block by `JobsAreTrue`. `BlockKept` is about the resources that rows of
the reserving batch take: `reserve` counts only those, so GPU rows that were admitted before the block was measured
may overdraw its GPUs, and a batch that needs none is admitted after.
`TakenFromTheDead`, `NeverSentLater` and `AdmitsOnYes` say `Unambiguous` themselves. The Envelope properties are
claimed under `Prompt`, `StaysClosed` where no hand submit is adopted after the stop, `DownIsQuiet` with no gap,
`RecordKept` of a server none of whose writes failed.

**Fairness.** `batch_crash` assumes: the loop goes on passing while a row is out (`_still_settling`,
`batch.py:2602`), and its lookups, which have a spacing but no deadline there (`_room(None, ..)`), are made again
and again (strong fairness: another stage may disable one for a while); the SDK answers each submit; the service
ends each task; after a crash, someone asks for the batch, which is what adopts it. Nothing is assumed of the
user, of a crash or of a block's end.
`lease_servers` assumes that time passes (`HeartbeatAges`), that each live server is asked for the batch and
adopts it in both transactions, and that a pass that started goes on to reserve and send.
`block_window` assumes that a batch that admits passes again and again (`Reserve`: what the loop does at each
tick), that rows at the block end and are settled, that unknown ones are reconciled, that a dead server's batch is
adopted, and that the worker count is learnt. Nothing is assumed of the user, so a batch that is paused for ever
need not be served.
`env_live` assumes that coroutines go on at their awaits, that the user repeats the stop until it says `down`,
that a reading of the accounting that is made again and again works at some time, and so does a cancel, and that
a submit is answered. It assumes neither that a job ends by itself nor that the first reading works.
`CHECK_DEADLOCK FALSE` stands in the lease and envelope runs, where every server may die or every job be over;
elsewhere deadlock is checked.

## The proofs

TLAPS proves these for every value of the constants.

**BatchEngine_proofs.** `TypeCorrect`: `Spec => []TypeOK`. `TypeOK` is not inductive: an action that names "the
future's runner" or "the future's task" is typed only because a future that exists has one, and a row's task
attempt lies in range only because a row that is out was tried. `TypeInv` adds those two (`SendersKnown`,
`OutWasTried`). `SettledStays`: `Spec => SettledSticks`. It follows from `TypeInv` action by action; the one lemma
that carries it is `SettleRowKeeps`: `settle` with its `only_from` never touches a row that is not held.
`AdmitsOnYes`: `Spec /\ [][NotOvertaken]_vars => []AdmittingHasYes`. `YesInv` adds that a resume which confirms a
block holds the yes it was given. `NotOvertaken` leaves out the one thing that breaks it (*drain overtaken*,
below): a cancel or a stop applied while that block is being confirmed. Crashes, pauses and everything a pass does
are covered.

**AtMostOnce_proofs.** `RunsAtMostOnce`, with `MaxCrashes = 0` and `Copies = 1`: `Spec => []AtMostOnce`, and with
`MaxCrashes = 0` alone `FuturesFollowRows`: `Spec => []FuturesAreOut`. `AtMostOnce` says nothing about the future,
so it cannot be inductive. The invariant behind it (`OnceInv`) says that a command can start, or have started,
only for the *current* attempt of a row that is *not in the backlog* (`OnlyCurrentRuns`). To keep that, a row may
return to the backlog only when its current attempt ran nothing and never will: a refusal or a busy node read
from the attempt's own single task (`FuturesAreOut` ties the future to the current attempt), or a submit the
executor refused (`QueuedIsNew`: no task exists). `StartedIsSeen` excludes that the attempt that was refused had
started. The two assumptions are needed: see *never sent* and *refused copy* below.
`ReturnsAreClean` allows any number of crashes: with `Copies = 1`, `Spec => ReturnsOnlyUnstarted`. After a crash
the futures no longer say which rows are out, so `SeenInv` keeps only what survives one: futures and tasks are of
attempts that were made, a queued submit has no task, a task that started is not read as one that did not.

**BatchContract_proofs.** Under the assumptions of `RunsAtMostOnce` and for rows that may not be run again,
`EngineImplementsContract`: `Spec => Contract!Spec`, and `OutcomesAreOwn`: `Spec => []OutcomeIsOwn`. The
invariant (`OwnInv`) adds to `OnceInv` that what ran had started (`RanIsStarted`) and that a row answered with
anything but `lost` leaves no task that could still start (`NoneLeft`). Each step is then shown to move each row
of the contract by `Starts`, `Ends`, `Answered` or not at all. The lemma behind it (`SettlesOwn`) is that a settle
reads the outcome of the current attempt's only task, which is the task the contract's command is.
`WindowIsKept` and `DoneMeansQuiet` (`Spec /\ []JobsAreTrue => ..`) rest on `WinInv`: a task that is queued or
runs belongs to a row that still holds its slot, or its block is over (`HeldOrOver`); the rows that hold a slot
fit the window (`RoomKept`; `FirstOnes` is the lemma about the rows one pass admits); a batch that is done has no
row that is not settled. `HeldOrOver` is where the block recorded for a row matters: its end settles the row
`lost`. On SSH that record can name another block (*old block learnt*), and `JobsAreTrue` says that it does not
for a row in flight whose task is queued or runs; on a multi-user endpoint it says nothing. A retried copy, or an
idempotent retry, runs beside its original by design, hence `Copies = 1` and `~Idempotent`.

**Lease_proofs.** For any servers and pids: `LeaseTypeCorrect`, `AttemptsAreOwn` and `KeeperReserves`: a server
that works on the batch and finds its own pid on the lease is the one it was last granted to, because a grant to
any other live server writes another pid (`OnLeaseIsKeeper`). As long as `Unambiguous` holds,
`LivingKeepTheLease`, `ReservesOnYes` and `ReturnedStaysUnsent`: the recorded start is the keeper's own
(`StartOnRecord`), so a live keeper counts as alive and is never displaced; only the keeper works
(`OnlyKeeperWorks`); so whatever a successor finds reserved, its reserver is dead. `LeaseInv` is that
conjunction, under `Unambiguous`, which once false stays false (`StaysAmbiguous`); without `StartOnRecord` it is
not inductive, and *lease handed on*, below, is the step that breaks it.

**BlockWindow_proofs.** For any batches, sizes and block: `TypeCorrect` (here `TypeOK` is inductive).
`BlockIsKept`: `Spec => BlockKept`. The counts a reservation reads bound what is at the block, state by state, and
what it grants fits what they leave. `SlotFound`:
`Spec => [](~measured \/ NoneBlocked => SlotIsTaken)`. Of the batches that could take a slot, the first in rank
takes one: it would defer only to a waiter ranked before it that can take a slot too. `NoneBlocked` is needed
once the block is measured: there a waiter that is out of room may hold room back from the one that is not
(*slot left idle*).

**Envelope_proofs.** All but `TypeCorrect` assume `Prompt` (above). `HeldForWhatBills` (`HoldsCover`),
`DownWhenNothingBills` (`DownIsTrue`) and `ReservedWithinCap` (`BudgetKept`) rest on `HoldInv`: each job has the
row that its submit, its place at the scheduler and its hold require (`RowsKept`); a reading that saw a row finds
it still there when it writes (`SnapshotsKept`); an admission owns its job, which no other server admits, and has
its row exactly from the reservation on (`AdmissionsKept`); the jobs a hand submit left are adopted before its row
is closed (`HandKept`). `ClosedStaysClosed` (`StaysClosed`), `NothingSubmittedAfter` (`StopHolds`) and
`AdmittingCeiling` (the caps of the envelopes that admit stay under the ceiling) add `HandJobs = {}`, since
adopting a hand submit's job over the cap reopens an envelope (*stop reopened*). They rest on `StopInv`: a job's
envelope exists, an admission that is about to mark its envelope exhausted finds it admitting, and what a stop
closed is draining or closed. `WithinCeiling` (`CeilingKept`, which counts the envelopes that drain too) adds
`~Deadlines` (*draining again*).

**StopEndpoint_proofs.** `TypeCorrect`; with `NoIdIsOver` (`"command_no_id"` not in `Gaps`) `RecordKeepsOwn`
(`RecordKept`) and `DeadRowsStay` (`DeadRowsKept`); with `NoGaps` (`Gaps` empty) `DownMeansQuiet`
(`DownIsQuiet`). `FactsInv` ties futures, bounds and pilots to the tasks they are of; `SeenInv` says that a task a
server took for finished is. `RecordInv` follows a write through the queue: what the server last wrote, the write
that waits and the retries name its own rows only, and a row it holds that can start a block is on disk or in a
write that will put it there. `DownInv` is the argument for `down`: when the last cancel ended no block was up; a
task that started one later was queued then or was sent since (`StartedSince`), and an answer, a look at the
shapes or a row of the record shows it before the stop speaks (`AnswersSeen`, `LooksSeen`, `RowsSeen`).

**FiniteSums_proofs.** Lemmas on sums over finite sets, which Envelope (holds, caps) and BlockWindow (the pool)
use. Each is proved by a smallest counterexample, since the library's induction takes an operator.

TLC checked each of these inductive invariants on instances like those above before it was proved.

**Model-checked only.** Every invariant and every action property of the runs that pass is stated by a theorem,
under the assumptions given. What stays with TLC:

- liveness (`InFlightResolves`, `DeadReplaced`, `EachIsServed`, `StopEndsDown`): fairness and ENABLED are out of
  the prover's reach;
- `AtMostOnce` and `DoneIsQuiet` with retried POSTs (`batch_copies`: one block, two copies);
- `SlotIsTaken` in a measured pool with a waiter that is out of room (`block_window`: it holds for two batches of
  the sizes there, and fails for others, *slot left idle*).

## Where the code and its words part

One has a run that ends in the violation, and a finding in `PROJECT.json` with the words quoted:

- **record_undone.** The first write of the record fails; the timer that retries it takes a row that was sent
  meanwhile off the record, so a server that starts after a crash does not know of it.

The others were met while modelling and have no run of their own. For the batch ones the property is in
`MCBatchEngine` and is refuted with these constants (specification `Spec`; `Resuming` and the like are sets of
`MCBatchEngine`):

| | NumRows | MaxAttempt | MaxRunners | Capacity | Copies | MaxBlocks | Idempotent | Ssh | MaxCrashes | Calls | MaxCalls |
|---|---|---|---|---|---|---|---|---|---|---|---|
| `ReturnedAsNeverSent` | 2 | 2 | 2 | 2 | 1 | 1 | FALSE | FALSE | 1 | Resuming | 1 |
| `AdmittingHasYes` | 1 | 2 | 3 | 1 | 1 | 1 | FALSE | TRUE | 0 | ResumeOrDrain | 2 |
| `ReapsOnlyEnded` | 1 | 2 | 3 | 1 | 1 | 2 | FALSE | TRUE | 0 | Resuming | 1 |
| `ReleasedIsIdle` | 1 | 2 | 3 | 1 | 1 | 1 | FALSE | TRUE | 0 | ResumeOrStop | 2 |
| `OwnSendsKept` | 2 | 2 | 2 | 2 | 1 | 1 | FALSE | FALSE | 1 | Resuming | 1 |
| `AbortEmptiesBacklog` | 1 | 2 | 3 | 1 | 1 | 1 | TRUE | TRUE | 0 | Aborting | 1 |
| `SendsOnYes` | 1 | 2 | 3 | 1 | 1 | 2 | FALSE | TRUE | 0 | Elsewhere | 1 |
| `AtMostOnce` | 1 | 2 | 3 | 1 | 2 | 2 | FALSE | TRUE | 0 | Resuming | 1 |

- *Never sent*: `_reconcile_unsent` returns rows "never sent" that were: a dead server's task group that the
  ledger never recorded is not in the groups the successor reads, once the successor has recorded its own.
- *Drain overtaken*: a drain answered while a resume confirms the block is overwritten when the resume writes
  `state='admitting', cancel_requested=None`.
- *False reap*: a late refusal or record of an earlier block's task marks the newly confirmed block reaped.
- *Stop resumed*: rows a resume admits during a stop's release are not counted by the stop's last look.
- *Own sends* (`batch.py:3362`): "this process's own sends" is a snapshot taken before two awaits, the rows are
  read again after them (3392); a resume that sends meanwhile has its row returned.
- *Aborted backlog* (`batch.py:3121`): a row of a cancelled batch that is refused or lost goes back to the
  backlog, where nothing cancels it.
- *Reaped elsewhere* (`batch.py:2688`): a reap and a confirmation for other work, both between two passes, leave
  the batch admitting to a block its own yes was not for.
- *Refused copy* (`batch.py:3124`): with two copies at the service and a second block, the copy the SDK follows
  is refused by the new block and returns the row while the other copy ran on the old one.
- *Old block learnt* (`batch.py:3289`): `_learn_block` takes the job of a late result of an earlier block for the
  run's block. Rows sent after that are recorded for that job (2928), and its end settles them `lost` (3592-3646)
  while their command still starts on the live block. So the contract lets a command start after `lost`; without
  that, the refinement fails on the constants of `batch_crash`. A batch that may be run again would send again.

In the lease, the window and the envelope:

- *Lease handed on*: a refresh keeps the recorded start: a server that was given the dead holder's pid (the same
  small pid at every start of a container) holds the lease under the dead one's start, and while it is suspended a
  third server takes the lease from it. `TakenFromTheDead` without its `Unambiguous` is refuted on `lease_servers`.
- *Slot left idle* (`ledger.py:902`): "while another batch on the block waits for a slot it could take", "two
  waiters never defer to each other". What is held back for the waiter in front is taken off what the asker may
  have, but not off the room the others are measured against (968-974, 985): on 5 CPUs and a GPU in use, waiters
  of 4 CPUs and of 1 CPU leave 4 CPUs idle as long as the GPU's row runs. `SlotIsTaken` is refuted with NumBatches
  4, `FourOnce`, Long {}, `MixedSizes`, `AnyOfFour`, Sized {1,2,3,4}, `GpuBlock`, Workers 9, Configured 9,
  MaxJobs 1, Elsewhere {}, MaxTroubles 0.
- *Stop reopened* (`server.py:1312`, "Either way nothing is admitted after a stop"; `jobs.py:1491`, "it admits
  nothing more"): the adoption of a hand submit's job that passes the cap writes `exhausted` whatever the
  envelope's state was (`jobs.py:1851`), and an exhausted envelope admits again. `StaysClosed` is refuted with
  OneServer, OneEnv, TwoJobs, HandJobs SecondJob, Caps {2}, Ceiling 4, Calls {"status", "stop_keep"}, no mortal
  server, no deadline, no lost submit, Prompt.
- *Draining again* (`jobs.py:361-363`): a status reading whose snapshot is older than an envelope's closing writes
  it from `closed` back to `draining`, after another envelope was opened in the room it left: a draining cap
  counts (`ledger.py:120-132`), so the caps pass the ceiling. `CeilingKept` is refuted with OneServer, two
  envelopes, TwoJobs, Caps {4}, Ceiling 4, Calls {"status"} and Deadlines TRUE.
- *Unknown for ever* (`jobs.py:303`, 315, 2243): a submit whose answer was lost and that never reached the
  scheduler keeps its row live for good, so no stop is ever `down`. `StopEndsDown` is refuted on `env_live` with
  LosesSubmits TRUE and Calls {"stop_cancel"}.

In the stop, each with the member of `Gaps` that shows it (`DownIsQuiet` fails with it):

- `command_unclear`: a command whose submit is unclear, with no id, is taken off the record (`server.py:2383`,
  `warmth.py:1477`).
- `command_adrift`: a re-bind (`_drop_all_shapes`) leaves a command behind a poll handle that `_our_checks` does
  not list, and its row is skipped as this server's own.
- `command_no_id`: a restarted server drops a row with no id after 300 s; the argument for it
  (`warmth.py:1496-1503`) holds for checks, not for commands.
- `rebind_in_stop`: a re-bind between a stop's cancel and its answer loses `_answered_since`.

Seen while reading, outside what the models can show: without `Prompt`, another server's slow admission is
refused as stale while it goes on (`HoldsCover` fails), and `exhausted` overwrites a close that came between the
two transactions of `jobs.py:1201` (`StaysClosed`, `CeilingKept` fail with two servers); a
`submit_job(confirm_spend=True)` that waits in `_held_now` opens a new envelope after a stop; a stop whose first
reads time out (`server.py:1325`) releases the blocks without `close_admission`; `_orphaned_stop` says `down`
while the endpoint is offline.

## What is not modelled

- In the batch engine: pauses for a row's size and resizing, the move to a user-permitted next block
  (`_maybe_switch`, `_maybe_warm`), the release of a reaped user endpoint (`_release_old_uep`) and its evidence
  (`_unknown_evidence`), the second pass that can run while a resume replaced the `_Run`, the order `not_before`
  gives the backlog, a resume without `confirm_spend`. The marker on a facility endpoint is written by a billed
  task; here by one step that may fail.
- In the lease: a passing server's lookups are one step (BatchEngine has their stages); a resume always ends with
  its block confirmed or never ends.
- In the window: rows of one batch have one size, `not_before`, retired configs, the order of a batch's indices,
  older batches without a CPU count.
- In the envelope: `exclude_jobs`, the link of a job to a pool block (`pool_block`, `block_admission`,
  `_link_block`), the `scancel` at a deadline, the limits on the number of jobs, `run_shell`'s `finish_hand`,
  other facilities, a stop with no choice given, a stop that times out, a stale view of the scheduler.
- In the stop: one pilot per task; a command's result is noted when it arrives; the time its wait loop takes;
  the batch's own pauses (BatchEngine has them); a corrupt record counts as a problem only; the limit on
  retries of a write; `_forget_checks` of a teardown.
- The other components, with the reason in `PROJECT.json`: planned, or I/O and text.

## The plan

In order of what matters most; each step is a module, its runs and its theorems.

1. **ComputeService, BatchEngine** and the contract they implement (done, with proofs). Next on them: `AtMostOnce`
   and `DoneIsQuiet` with copies and one block as theorems; next blocks, sizing pauses, the evidence for unknown
   rows.
2. **Lease** (done, with proofs).
3. **BlockWindow** (done, with proofs).
4. **Envelope** (done, with proofs). Next: the link of a job to a pool block.
5. **SentChecks, StopEndpoint** (done for a stop, with proofs). Next: the teardown.
6. **Warmth**: canary, guards, reaps, dispatch and poll of interactive commands; composed with BatchEngine, whose
   `shape` it replaces.
7. **Handoff**, **Login**: the billed canary per config; completions that race waits.
8. **Meter**, **Sizing**: `job_reading`, `fit` and `derive_block` as operators against reference definitions over
   bounded inputs (folds, no recursion, so that their lemmas can be proved).
