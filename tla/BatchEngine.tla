---------------------------- MODULE BatchEngine ----------------------------
(***************************************************************************)
(* The batch engine (batch.py) on its ledger (ledger.py): one batch of     *)
(* rows, driven by passes of the server that holds its lease, over the     *)
(* Globus SDK and the service of ComputeService.                           *)
(*                                                                         *)
(* The ledger survives a crash of the server; everything the server keeps  *)
(* in memory (its _Run, its futures, the shape it confirmed) does not.     *)
(* Module Lease shows when one live server at a time runs the batch: here  *)
(* "the server" is whichever one holds the lease.                          *)
(*                                                                         *)
(* Two coroutines of a server interleave at their awaits: a pass (`tick`,  *)
(* stages in `pc`) and a resume (`_resume`, stages in `rs`).  A step of    *)
(* either is what runs between two awaits.                                 *)
(***************************************************************************)
EXTENDS ComputeService, Sequences

CONSTANTS
  Capacity,     \* the batch's window on its block
  Idempotent,   \* the batch's rows may be run again
  Ssh,          \* an endpoint hpc-bridge stood up (else a facility's multi-user endpoint)
  MaxCrashes,   \* bound: crashes of the server
  Calls,        \* the tool calls of the user this run makes
  MaxCalls      \* bound: how many of them

ASSUME EngineAssumption ==
  /\ Capacity \in Nat \ {0}
  /\ Idempotent \in BOOLEAN
  /\ Ssh \in BOOLEAN
  /\ MaxCrashes \in Nat
  /\ Calls \subseteq {"drain", "abort", "record drain", "record abort", "resume", "confirm", "stop"}
  /\ MaxCalls \in Nat

HOLDING   == {"in_flight", "submit_unknown", "presumed_lost"}
TERMINAL  == {"done", "failed", "lost", "cancelled"}
RowStates == {"backlog"} \cup HOLDING \cup TERMINAL
BatchStates == {"admitting", "needs_confirmation", "done", "cancelled"}

(* The identity of a block request (`uec_hash`): on SSH each confirmation  *)
(* has its own, a facility endpoint keeps one.                             *)
Config(n) == IF Ssh THEN n ELSE 1
Configs   == 1..MaxBlocks

VARIABLES
  \* the ledger
  row,        \* [Rows -> record]: state, attempt, the recorded task (its copy; 0: none), the job it is said to be sent to
  bstate,     \* the batch's state
  cancelReq,  \* cancel_requested: a cancel another server recorded
  groups,     \* the recorded task groups (each runner's own)
  retired,    \* the retired block configs
  \* the server's memory
  run,        \* the _Run of the batch (on: this batch is in app.batches)
  fut,        \* [Attempts -> record]: the futures of attempts this server sent
  minted,     \* runners whose task group the service has told the SDK
  shape,      \* app.shapes["compute"]: the confirmed block (0: no shape) and whether it is marked reaped
  pc,         \* where the running pass is ("idle": none runs)
  mine,       \* the pass's own snapshot: attempts with a future
  ids,        \* the pass's own snapshot: the tasks the groups listed
  rs,         \* where a resume is ("none", "confirming" the block, "admit")
  stopping,   \* where a stop_endpoint is ("no", "asked", "releasing" the block: off the lock)
  \* history and bounds
  yes,        \* the block the user's run_batch yes is for ({}: none; with 0: one whose block is being confirmed)
  built,      \* runners built so far
  calls,      \* calls of the user so far
  crashes

ledgerVars == <<row, bstate, cancelReq, groups, retired>>
memVars    == <<run, fut, minted, shape, pc, mine, ids, rs, stopping>>
vars       == <<svcVars, ledgerVars, memVars, yes, built, calls, crashes>>

NoFut == [st |-> "none", by |-> 0, blk |-> 0, copy |-> 0]
NoRun == [on |-> FALSE, adopted |-> FALSE, rt |-> "none", runner |-> 0, cfg |-> 0, old |-> {}, job |-> 0, synced |-> 0]

FutStates == {"none", "queued", "sent", "error", "broken"}
PassStages == {"idle", "collect", "pull", "unsent", "settle", "unknown", "presume", "evidence", "admit"}

TypeOK ==
  /\ SvcTypeOK
  /\ row \in [Rows -> [st : RowStates, att : 0..MaxAttempt, tid : 0..Copies, job : {0} \cup Blocks]]
  /\ bstate \in BatchStates
  /\ cancelReq \in {"none", "drain", "abort"}
  /\ groups \in SUBSET Runners
  /\ retired \in SUBSET Configs
  /\ run \in [on : BOOLEAN, adopted : BOOLEAN, rt : {"none", "current", "stale"}, runner : {0} \cup Runners,
              cfg : {0} \cup Configs, old : SUBSET Runners, job : {0} \cup Blocks, synced : {0} \cup Blocks]
  /\ fut \in [Attempts -> [st : FutStates, by : {0} \cup Runners, blk : {0} \cup Blocks, copy : 0..Copies]]
  /\ minted \in SUBSET Runners
  /\ shape \in [blk : {0} \cup Blocks, reaped : BOOLEAN]
  /\ pc \in PassStages
  /\ mine \in SUBSET Attempts
  /\ ids \in SUBSET Tasks
  /\ rs \in {"none", "confirming", "admit"}
  /\ stopping \in {"no", "asked", "releasing"}
  /\ yes \in SUBSET ({0} \cup Blocks)
  /\ built \in {0} \cup Runners
  /\ calls \in 0..MaxCalls
  /\ crashes \in 0..MaxCrashes

(* The state `run_batch` leaves once the batch is on the ledger: its block *)
(* confirmed and up, its runner built, nothing admitted yet.               *)
Init ==
  /\ SvcInit
  /\ row = [r \in Rows |-> [st |-> "backlog", att |-> 0, tid |-> 0, job |-> 0]]
  /\ bstate = "admitting"
  /\ cancelReq = "none"
  /\ groups = {}
  /\ retired = {}
  /\ run = [NoRun EXCEPT !.on = TRUE, !.rt = "current", !.runner = 1, !.cfg = 1, !.job = 1, !.synced = 1]
  /\ fut = [a \in Attempts |-> NoFut]
  /\ minted = {}
  /\ shape = [blk |-> 1, reaped |-> FALSE]
  /\ pc = "idle"
  /\ mine = {}
  /\ ids = {}
  /\ rs = "none"
  /\ stopping = "no"
  /\ yes = {1}
  /\ built = 1
  /\ calls = 0
  /\ crashes = 0

-----------------------------------------------------------------------------
(* Helpers.                                                                *)

InState(S)  == {r \in Rows : row[r].st \in S}
Current(r)  == <<r, row[r].att>>                  \* the row's current attempt
Open        == {a \in Attempts : fut[a].st # "none"}
FutTask(a)  == Task(a, fut[a].copy)
PauseOf(s)  == IF s \in {"done", "cancelled"} THEN s ELSE "needs_confirmation"

(* `pause`: admission stops until the user's yes.  One just given, whose   *)
(* block is being confirmed, stands.                                       *)
Pause == /\ bstate' = PauseOf(bstate)
         /\ yes' = yes \cap {0}
GoOn  == UNCHANGED <<bstate, yes>>

(* `settle`: what an attempt's outcome makes of its row.  A lost attempt   *)
(* is run again only in an idempotent batch; a duplicate's row waits for   *)
(* the copy that ran; a refused or slotless one ran nothing.               *)
RetriesLost(k) ==                                 \* mutant: a lost row is run again whatever the batch says
  CASE k = "ok" -> "done" [] k \in {"bad", "noline"} -> "failed" [] k = "marker" -> "cancelled"
    [] k \in {"busy", "refused", "lost"} -> "backlog" [] OTHER -> "submit_unknown"
TrustsExitCode(k) ==                              \* mutant: no result line is no failure
  CASE k \in {"ok", "noline"} -> "done" [] k = "bad" -> "failed" [] k = "marker" -> "cancelled"
    [] k \in {"busy", "refused"} -> "backlog" [] k = "lost" -> "lost" [] OTHER -> "submit_unknown"
DuplicateSettles(k) ==                            \* mutant: the duplicate's answer is taken for its row's
  CASE k = "ok" -> "done" [] k \in {"bad", "noline", "dup"} -> "failed" [] k = "marker" -> "cancelled"
    [] k \in {"busy", "refused"} -> "backlog" [] k = "lost" -> "lost" [] OTHER -> "submit_unknown"
KeepsOutcome(k) ==                                \* mutant: an outcome no state is named for
  CASE k = "ok" -> "done" [] k \in {"bad", "noline"} -> "failed" [] k = "marker" -> "cancelled"
    [] k \in {"busy", "refused"} -> "backlog" [] OTHER -> k

StateAfter(k) ==
  CASE k = "ok" -> "done"
    [] k \in {"bad", "noline"} -> "failed"
    [] k = "marker" -> "cancelled"
    [] k \in {"busy", "refused"} -> "backlog"
    [] k = "lost" -> IF Idempotent THEN "backlog" ELSE "lost"
    [] OTHER -> "submit_unknown"                  \* "dup", "error"

OnlyFrom(k) == IF k \in {"dup", "error"} THEN {"in_flight"} ELSE HOLDING

SettleRow(rw, k) == IF rw.st \in OnlyFrom(k) THEN [rw EXCEPT !.st = StateAfter(k)] ELSE rw

(* A refused attempt: the server takes its confirmed block for gone —      *)
(* marks the shape reaped, if it is still the run's, and retires the       *)
(* config of the run's shape (a released one's is the last it synced with).*)
RunConfig == CASE run.rt = "current" /\ shape.blk # 0 -> {Config(shape.blk)}
               [] run.rt = "stale" /\ run.synced # 0  -> {Config(run.synced)}
               [] OTHER                               -> {}
ReapCurrent(refused) ==
  /\ shape' = IF refused /\ run.rt = "current" /\ shape.blk # 0 THEN [shape EXCEPT !.reaped = TRUE] ELSE shape
  /\ retired' = IF refused THEN retired \cup RunConfig ELSE retired

(* What a set of results does beside its rows: a refusal reaps and pauses; *)
(* a row without a slot may pause (the third in a row does).               *)
Aftermath(kinds) ==
  /\ ReapCurrent("refused" \in kinds)
  /\ \/ kinds \cap {"refused", "busy"} # {} /\ Pause
     \/ "refused" \notin kinds /\ GoOn

(* `_learn_block`: a result line names the block its task ran on.          *)
Learnt(r, S) == IF S = {} THEN {r} ELSE {[r EXCEPT !.job = svc[t].blk] : t \in S}

(* Every task the recorded groups list (`_group_tasks`), and those the     *)
(* ledger has on its rows.                                                 *)
Listed == {t \in Tasks : svc[t].st # "none" /\ svc[t].grp \in groups}
Known  == {Task(Current(r), row[r].tid) : r \in {x \in Rows : row[x].tid # 0}}

PassOnly == UNCHANGED <<svcVars, cancelReq, minted, rs, stopping, built, calls, crashes>>

(* Rows with a task id and no future here; rows in flight no task is       *)
(* recorded for, none of them this server's own sends; rows past a clock.  *)
PullsAll        == {r \in InState(HOLDING) : row[r].tid # 0}     \* mutant: also rows whose future is here
PullRows        == {r \in InState(HOLDING) : row[r].tid # 0 /\ \A a \in Open : a[1] # r}
UnsentRows(own) == {r \in InState({"in_flight"}) : row[r].tid = 0 /\ Current(r) \notin own}
Presumable      == {r \in InState({"in_flight"}) : Ssh => Current(r) \notin Open}

(* A pass runs on past the stages with nothing to wait for.                *)
Due(st) ==
  CASE st = "pull"     -> PullRows # {}
    [] st = "unsent"   -> run.adopted /\ groups # {} /\ UnsentRows(Open) # {}
    [] st = "unknown"  -> groups # {} /\ InState({"submit_unknown"}) # {}
    [] st = "presume"  -> Presumable # {}
    [] st = "evidence" -> Ssh /\ InState({"in_flight"}) # {}
    [] OTHER           -> TRUE

Stages == <<"pull", "unsent", "unknown", "presume", "evidence", "admit">>

PassOn(k) == \E j \in k..6 : /\ pc' = Stages[j]
                             /\ Due(Stages[j])'
                             /\ \A i \in k..(j - 1) : ~Due(Stages[i])'

-----------------------------------------------------------------------------
(* The Globus SDK of the server: the executor's submit thread, and its     *)
(* result channel.                                                         *)

SdkOnly == UNCHANGED <<claimed, started, blockUp, marker, ledgerVars, run, shape, pc, mine, ids, rs, stopping,
                       yes, built, calls, crashes>>

Posted(a, c, g) == [svc EXCEPT ![Task(a, c)] = [st |-> "queued", blk |-> fut[a].blk, grp |-> g]]
GroupOf(a) == IF fut[a].by \in minted THEN fut[a].by ELSE 0   \* the group a POST names: none before the first answer

(* The service answers the POST: the task has an id, its runner a group.   *)
PostAnswered(a) ==
  /\ fut[a].st = "queued"
  /\ svc' = Posted(a, 1, fut[a].by)
  /\ fut' = [fut EXCEPT ![a].st = "sent", ![a].copy = 1]
  /\ minted' = minted \cup {fut[a].by}
  /\ SdkOnly

(* The answer is lost and the transport posts again: two copies, the first *)
(* in a group no runner learns when the runner had none yet.               *)
PostRetried(a) ==
  /\ Copies = 2
  /\ fut[a].st = "queued"
  /\ svc' = [svc EXCEPT ![Task(a, 1)] = [st |-> "queued", blk |-> fut[a].blk, grp |-> GroupOf(a)],
                        ![Task(a, 2)] = [st |-> "queued", blk |-> fut[a].blk, grp |-> fut[a].by]]
  /\ fut' = [fut EXCEPT ![a].st = "sent", ![a].copy = 2]
  /\ minted' = minted \cup {fut[a].by}
  /\ SdkOnly

(* The submit fails; the POST may or may not have reached the service.     *)
PostFails(a) ==
  /\ fut[a].st = "queued"
  /\ svc' \in {svc, Posted(a, 1, GroupOf(a))}
  /\ fut' = [fut EXCEPT ![a].st = "error"]
  /\ UNCHANGED minted
  /\ SdkOnly

(* The result channel quits: a client-side failure of a task that runs on. *)
ChannelQuits(a) ==
  /\ fut[a].st = "sent"
  /\ fut' = [fut EXCEPT ![a].st = "broken"]
  /\ UNCHANGED <<svc, minted>>
  /\ SdkOnly

-----------------------------------------------------------------------------
(* A pass (`_tick`).                                                       *)

MissesBroken == {a \in Open : \/ fut[a].st = "error"              \* mutant: a quit channel leaves its futures open
                              \/ fut[a].st = "sent" /\ svc[FutTask(a)].st \in Settled}

(* The futures that are done: failed by the SDK, or their result is here.  *)
DoneFutures == {a \in Open : \/ fut[a].st \in {"error", "broken"}
                             \/ fut[a].st = "sent" /\ svc[FutTask(a)].st \in Settled}
Outcome(a)  == IF fut[a].st \in {"error", "broken"} THEN fut[a].st ELSE svc[FutTask(a)].st
RunnersHere == IF run.runner = 0 THEN run.old ELSE run.old \cup {run.runner}

(* The task id a future of the row's attempt has learnt.                   *)
LearntTid(r) ==
  LET a == Current(r)
  IN  IF a \in Open /\ row[r].tid = 0 THEN fut[a].copy ELSE row[r].tid

(* `_collect`, at the head of a pass with no cancel to apply: the runners' *)
(* groups and the tasks' ids go on the record, and the futures done so far *)
(* (D) settle their rows.  A channel that quit drops its runner: its tasks *)
(* keep their rows.                                                        *)
Collect(D) ==
  LET kinds == {Outcome(a) : a \in D}
      lines == {FutTask(a) : a \in {x \in D : Outcome(x) \in WithLine}}
      quits == "broken" \in kinds /\ run.runner # 0
      kept  == IF quits THEN [run EXCEPT !.old = @ \cup {run.runner}, !.runner = 0, !.cfg = 0] ELSE run
  IN  /\ run.on
      /\ pc = "collect" \/ (pc = "idle" /\ cancelReq = "none")
      /\ groups' = groups \cup (RunnersHere \cap minted)
      /\ row' = [r \in Rows |->
                   LET rw == [row[r] EXCEPT !.tid = LearntTid(r)]
                   IN  IF Current(r) \in D /\ Outcome(Current(r)) # "broken"
                       THEN SettleRow(rw, Outcome(Current(r))) ELSE rw]
      /\ fut' = [a \in Attempts |-> IF a \in D THEN NoFut ELSE fut[a]]
      /\ Aftermath(kinds)
      /\ run' \in Learnt(kept, lines)
      /\ UNCHANGED <<mine, ids>>
      /\ PassOn(1)
      /\ PassOnly

(* `_rest_pull`: rows out with a task id and no future here, by REST.      *)
RestPull ==
  LET task(r) == Task(Current(r), row[r].tid)
      kind(r) == svc[task(r)].st
      S       == {r \in PullRows : kind(r) \in Settled}
  IN  /\ pc = "pull"
      /\ row' = [r \in Rows |-> IF r \in S THEN SettleRow(row[r], kind(r)) ELSE row[r]]
      /\ Aftermath({kind(r) : r \in S})
      /\ run' \in Learnt(run, {task(r) : r \in {x \in S : kind(x) \in WithLine}})
      /\ UNCHANGED <<groups, fut, mine, ids>>
      /\ PassOn(2)
      /\ PassOnly

(* A lookup fails, is not due yet, or outlasts a tool call's pass.         *)
SkipLookup ==
  /\ UNCHANGED <<row, bstate, yes, groups, retired, run, fut, shape, mine, ids>>
  /\ \E j \in {1, 2, 3, 5} : pc = Stages[j] /\ PassOn(j + 1)
  /\ PassOnly

(* The results of the strays could not be read: the pass ends there.       *)
PassFails ==
  /\ pc \in {"settle", "unknown"}
  /\ pc' = "idle"
  /\ mine' = {} /\ ids' = {}
  /\ UNCHANGED <<row, bstate, yes, groups, retired, run, fut, shape>>
  /\ PassOnly

(* `_reconcile_unsent`, up to its first answer: rows in flight no task is  *)
(* recorded for, and none of this server's own sends, have their groups    *)
(* listed.                                                                 *)
ReadGroups ==
  /\ pc = "unsent"
  /\ Due("unsent")
  /\ mine' = Open
  /\ ids' = Listed
  /\ pc' = "settle"
  /\ UNCHANGED <<row, bstate, yes, groups, retired, run, fut, shape>>
  /\ PassOnly

(* Its rest, once the service answered: a stray task's result settles the  *)
(* row it names; with none of the strays pending, a row still without a    *)
(* task goes back to the backlog as never sent.                            *)
Strays   == {t \in ids : t \notin Known}
Naming(S, st) == {t \in S : /\ svc[t].st \in WithLine \ {"dup"}
                            /\ row[t[1]].st = st
                            /\ row[t[1]].att = t[2]}

SettleUnsent ==
  LET named   == Naming(Strays, "in_flight")
      byName  == [r \in Rows |->
                    IF \E t \in named : t[1] = r
                    THEN LET t == CHOOSE t \in named : t[1] = r
                         IN  SettleRow([row[r] EXCEPT !.tid = t[3]], svc[t].st)
                    ELSE row[r]]
      pending == \E t \in Strays : svc[t].st \in Pending
      never   == {r \in Rows : byName[r].st = "in_flight" /\ byName[r].tid = 0 /\ Current(r) \notin mine}
  IN  /\ pc = "settle"
      /\ row' = [r \in Rows |-> IF ~pending /\ r \in never THEN [byName[r] EXCEPT !.st = "backlog"] ELSE byName[r]]
      /\ Aftermath({svc[t].st : t \in named})
      /\ run' \in Learnt(run, named)
      /\ mine' = {} /\ ids' = {}
      /\ UNCHANGED <<groups, fut>>
      /\ PassOn(3)
      /\ PassOnly

(* `_reconcile`: rows of unknown fate, against every recorded group.       *)
Reconcile ==
  LET strays  == Listed \ Known
      named   == Naming(strays, "submit_unknown")
      pending == \E t \in strays : svc[t].st \in Pending
      byName  == [r \in Rows |->
                    IF \E t \in named : t[1] = r
                    THEN LET t == CHOOSE t \in named : t[1] = r
                         IN  SettleRow([row[r] EXCEPT !.tid = t[3]], svc[t].st)
                    ELSE row[r]]
      again   == ~pending /\ Idempotent
  IN  /\ pc = "unknown"
      /\ Due("unknown")
      /\ row' = [r \in Rows |-> IF again /\ byName[r].st = "submit_unknown"
                                THEN [byName[r] EXCEPT !.st = "backlog"] ELSE byName[r]]
      /\ Aftermath({svc[t].st : t \in named})
      /\ run' \in Learnt(run, named)
      /\ UNCHANGED <<groups, fut, mine, ids>>
      /\ PassOn(4)
      /\ PassOnly

(* `_presume`: rows past their clock (P).  On SSH only rows this server    *)
(* holds no future for: those it holds have their evidence.                *)
Presume(P) ==
  /\ pc = "presume"
  /\ P \subseteq Presumable
  /\ row' = [r \in Rows |-> IF r \in P THEN [row[r] EXCEPT !.st = "presumed_lost"] ELSE row[r]]
  /\ UNCHANGED <<bstate, yes, groups, retired, run, fut, shape, mine, ids>>
  /\ PassOn(5)
  /\ PassOnly

(* `_evidence_for`: the scheduler says block n, which rows are said to be  *)
(* out on, has ended.  They are lost (or run again), their futures dropped; when n *)
(* is the block the run knows, its shape is marked reaped and its config   *)
(* retired; the batch pauses.                                              *)
Evidence(n) ==
  LET out == {r \in InState({"in_flight"}) : row[r].job = n}
  IN  /\ pc = "evidence"
      /\ Ssh
      /\ out # {}
      /\ blockUp[n] = "ended"
      /\ row' = [r \in Rows |-> IF r \in out THEN SettleRow(row[r], "lost") ELSE row[r]]
      /\ fut' = [a \in Attempts |-> IF \E r \in out : a = Current(r) THEN NoFut ELSE fut[a]]
      /\ ReapCurrent(n = run.job)
      /\ Pause
      /\ UNCHANGED <<groups, run, mine, ids>>
      /\ PassOn(5)
      /\ PassOnly

-----------------------------------------------------------------------------
(* Admission (`_admit_locked`), of a pass or of a resume.                  *)

FailedToo == InState({"backlog", "failed"})                       \* mutant: failed rows are taken again
Backlog   == InState({"backlog"})
RoomByFlight == Capacity - Cardinality(InState({"in_flight"}))    \* mutant: a presumed row frees its slot
Room    == Capacity - Cardinality(InState(HOLDING))
NoBlock == shape.blk = 0 \/ shape.reaped \/ run.rt = "stale"

(* `_runner_for_block` and `_sync_block`: the run made ready for the block *)
(* the shape is confirmed for now.  (Bound: a server that built MaxRunners *)
(* executors builds no other.)                                             *)
NeedsRunner == run.runner = 0 \/ run.cfg # Config(shape.blk)
Readies     == bstate = "admitting" /\ ~NoBlock /\ (NeedsRunner => built < MaxRunners)
Built       == IF Readies /\ NeedsRunner THEN built + 1 ELSE built

Ready ==
  LET fresh == NeedsRunner
      moved == run.synced # shape.blk
  IN  IF ~Readies THEN run
      ELSE [run EXCEPT !.rt = "current", !.synced = shape.blk, !.cfg = Config(shape.blk),
                       !.job = IF moved THEN shape.blk ELSE run.job,
                       !.runner = IF fresh THEN Built ELSE run.runner,
                       !.old = IF fresh /\ run.runner # 0 THEN run.old \cup {run.runner} ELSE run.old]

(* The rows `reserve` takes: the lowest indices, as many as the window has *)
(* room for.                                                               *)
Reserved == {r \in Backlog : Cardinality({q \in Backlog : q < r}) < Room}

(* `_close_old_runners`: the end of a pass (not of a resume) with no       *)
(* future open.                                                            *)
Tidy(atEnd, r) == IF atEnd /\ Open = {} THEN [r EXCEPT !.old = {}] ELSE r

(* Nothing is admitted: the batch does not admit, has no backlog or no     *)
(* room, or its block's remaining walltime is not known yet.               *)
AdmitsNothing(atEnd) ==
  /\ bstate # "admitting" \/ ~NoBlock
  /\ run' = Tidy(atEnd, Ready)
  /\ built' = Built
  /\ GoOn
  /\ UNCHANGED <<row, fut>>

(* The block was released or reaped.                                       *)
FindsNoBlock(atEnd) ==
  /\ bstate = "admitting"
  /\ NoBlock
  /\ Pause
  /\ run' = Tidy(atEnd, IF run.rt = "none" /\ shape.blk # 0 THEN [run EXCEPT !.rt = "current"] ELSE run)
  /\ UNCHANGED <<row, fut, built>>

(* The gate: the block's remaining walltime is under a row's (at any time  *)
(* here), or `reserve` finds its config retired.                           *)
GatePauses(atEnd) ==
  /\ Readies
  /\ Backlog # {}
  /\ run' = Tidy(atEnd, Ready)
  /\ built' = Built
  /\ Pause
  /\ UNCHANGED <<row, fut>>

(* The first k of the reserved rows are sent; the executor refuses the     *)
(* next one, if any: it and the rest go back, and the runner is dropped.   *)
Sends(atEnd, k) ==
  LET taken == Reserved
      sent  == {r \in taken : Cardinality({q \in taken : q < r}) < k}
  IN  /\ Readies
      /\ Config(shape.blk) \notin retired
      /\ taken # {}
      /\ k <= Cardinality(taken)
      /\ \A r \in taken : row[r].att < MaxAttempt          \* bound
      /\ row' = [r \in Rows |->
                   IF r \notin taken THEN row[r]
                   ELSE [st |-> IF r \in sent THEN "in_flight" ELSE "backlog", att |-> row[r].att + 1, tid |-> 0,
                         job |-> IF r \in sent THEN Ready.job ELSE row[r].job]]
      /\ fut' = [a \in Attempts |->
                   IF a[1] \in sent /\ a[2] = row[a[1]].att + 1
                   THEN [st |-> "queued", by |-> Ready.runner, blk |-> shape.blk, copy |-> 0]
                   ELSE fut[a]]
      /\ run' = Tidy(atEnd /\ sent = {}, IF sent = taken THEN Ready ELSE [Ready EXCEPT !.runner = 0])
      /\ built' = Built
      /\ GoOn

Admit(atEnd) ==
  \/ AdmitsNothing(atEnd)
  \/ FindsNoBlock(atEnd)
  \/ GatePauses(atEnd)
  \/ \E k \in 0..NumRows : Sends(atEnd, k)

AdmitOnly == UNCHANGED <<svcVars, cancelReq, groups, retired, minted, shape, mine, ids, stopping, calls, crashes>>

(* The end of a pass: it admits, or (`_maybe_done`) the batch is done once *)
(* no row waits or holds a slot and no future is open.                     *)
Over == InState({"backlog"} \cup HOLDING) = {} /\ Open = {}

PassAdmits ==
  /\ pc = "admit"
  /\ ~Over
  /\ Admit(TRUE)
  /\ pc' = "idle"
  /\ UNCHANGED rs
  /\ AdmitOnly

PassFinds ==
  /\ pc = "admit"
  /\ Over
  /\ bstate' = IF bstate = "cancelled" THEN bstate ELSE "done"
  /\ yes' = yes \cap {0}
  /\ run' = Tidy(TRUE, Ready)
  /\ built' = Built
  /\ pc' = "idle"
  /\ UNCHANGED <<row, fut, rs>>
  /\ AdmitOnly

-----------------------------------------------------------------------------
(* Cancels (`cancel`, `_apply_cancel`).                                    *)

(* A drain pauses.  An abort cancels the backlog and, when tasks may still *)
(* run, tries to write their CANCELLED marker.                             *)
AbortTakesRowsOut(mode) ==                        \* mutant: an abort cancels every row, the settled ones too
  LET out == InState({"in_flight", "submit_unknown"}) # {} \/ Open # {}
  IN  /\ yes' = {}
      /\ CASE mode = "drain" -> bstate' = PauseOf(bstate) /\ UNCHANGED <<row, marker>>
           [] OTHER -> /\ bstate' = "cancelled"
                       /\ row' = [r \in Rows |-> [row[r] EXCEPT !.st = "cancelled"]]
                       /\ marker' \in {marker, marker \/ out}

AbortCancelsOut(mode) ==                          \* mutant: an abort cancels the rows in flight with the backlog
  LET out == InState({"in_flight", "submit_unknown"}) # {} \/ Open # {}
  IN  /\ yes' = {}
      /\ CASE mode = "drain" -> bstate' = PauseOf(bstate) /\ UNCHANGED <<row, marker>>
           [] OTHER -> /\ bstate' = "cancelled"
                       /\ row' = [r \in Rows |-> IF row[r].st \in {"backlog", "in_flight"}
                                                 THEN [row[r] EXCEPT !.st = "cancelled"] ELSE row[r]]
                       /\ marker' \in {marker, marker \/ out}

ApplyCancel(mode) ==
  LET out == InState({"in_flight", "submit_unknown"}) # {} \/ Open # {}
  IN  /\ yes' = {}
      /\ CASE mode = "drain" -> /\ bstate' = PauseOf(bstate)
                                /\ UNCHANGED <<row, marker>>
           [] OTHER -> /\ bstate' = "cancelled"
                       /\ row' = [r \in Rows |-> IF r \in Backlog THEN [row[r] EXCEPT !.st = "cancelled"] ELSE row[r]]
                       /\ marker' \in {marker, marker \/ out}

CancelOnly == UNCHANGED <<svc, claimed, started, blockUp, groups, retired, run, fut, minted, shape, mine, ids, rs,
                          stopping, built, crashes>>

(* A call of the user (bounds: which, and how many).                       *)
Call(c) == c \in Calls /\ calls < MaxCalls /\ calls' = calls + 1

(* Another server records a cancel; the holder's next pass starts with it. *)
RecordsCancel(mode) ==
  /\ Call("record " \o mode)
  /\ cancelReq' = mode
  /\ UNCHANGED <<row, bstate, marker, pc, yes>>
  /\ CancelOnly

PassCancels ==
  /\ run.on /\ pc = "idle" /\ cancelReq # "none"
  /\ ApplyCancel(cancelReq)
  /\ cancelReq' = "none"
  /\ pc' = "collect"
  /\ UNCHANGED calls
  /\ CancelOnly

(* The user cancels on the server that runs the batch, whatever its pass   *)
(* waits for.                                                              *)
Cancels(mode) ==
  /\ Call(mode)
  /\ run.on
  /\ ApplyCancel(mode)
  /\ cancelReq' = "none"
  /\ UNCHANGED pc
  /\ CancelOnly

-----------------------------------------------------------------------------
(* The block: confirmations, reaps, stops; and a resume.                   *)

(* Where a confirmation leads: the block in front while the shape is live, *)
(* else a fresh one (on a facility endpoint one that is still up serves).  *)
Unused  == {n \in Blocks : blockUp[n] = "none"}
Fresh   == {n \in Unused : \A m \in Unused : n <= m}         \* bound: none is left after MaxBlocks
StillUp == IF Ssh THEN {} ELSE {n \in Blocks : blockUp[n] = "live"}
Confirmed == IF shape.blk # 0 /\ ~shape.reaped THEN {shape.blk}
             ELSE IF StillUp # {} THEN StillUp ELSE Fresh
Confirms(n) == /\ shape' = [blk |-> n, reaped |-> FALSE]
               /\ blockUp' = IF blockUp[n] = "none" THEN [blockUp EXCEPT ![n] = "live"] ELSE blockUp

(* run_batch(batch_id, confirm_spend=True): the user's yes; its block is   *)
(* then confirmed (`ensure_up`), off every lock of the batch.              *)
ResumeStarts ==
  /\ Call("resume")
  /\ run.on /\ rs = "none"
  /\ bstate \in {"admitting", "needs_confirmation"}
  /\ rs' = "confirming"
  /\ yes' = yes \cup {0}
  /\ UNCHANGED <<svcVars, ledgerVars, run, fut, minted, shape, pc, mine, ids, stopping, built, crashes>>

(* The block is up: its config is no longer retired, a new shape gets a    *)
(* new _Run (which keeps the futures; the old run's loop is cancelled, a   *)
(* tool call's pass goes on) and the batch is set to admitting.            *)
ResumeAdmitsAgain(n) ==
  LET newRun == run.rt # "current" \/ shape.blk = 0
  IN  /\ rs = "confirming"
      /\ n \in Confirmed
      /\ newRun => built < MaxRunners                         \* bound
      /\ Confirms(n)
      /\ retired' = retired \ {Config(n)}
      /\ IF newRun
         THEN /\ run' = [run EXCEPT !.rt = "current", !.runner = built + 1, !.cfg = Config(n),
                                    !.old = IF run.runner = 0 THEN run.old ELSE run.old \cup {run.runner},
                                    !.job = n, !.synced = n]
              /\ built' = built + 1
              /\ \/ pc' = "idle" /\ mine' = {} /\ ids' = {}
                 \/ UNCHANGED <<pc, mine, ids>>
         ELSE UNCHANGED <<run, built, pc, mine, ids>>
      /\ bstate' = "admitting"
      /\ cancelReq' = "none"
      /\ yes' = IF yes = {} THEN {} ELSE {n}
      /\ rs' = "admit"
      /\ UNCHANGED <<svc, claimed, started, marker, row, groups, fut, minted, stopping, calls, crashes>>

ResumeAdmits ==
  /\ rs = "admit"
  /\ Admit(FALSE)
  /\ rs' = "none"
  /\ UNCHANGED pc
  /\ AdmitOnly

(* The block did not come up, or was not confirmed.                        *)
ResumeFails ==
  /\ rs = "confirming"
  /\ rs' = "none"
  /\ yes' = yes \ {0}
  /\ UNCHANGED <<svcVars, ledgerVars, run, fut, minted, shape, pc, mine, ids, stopping, built, calls, crashes>>

ShapeOnly == UNCHANGED <<svc, claimed, started, marker, row, bstate, cancelReq, groups, fut, minted, pc, mine, ids, rs,
                         stopping, built, crashes>>

(* ensure_endpoint_up(confirm_spend=True), for other work than the batch.  *)
(* A dropped shape comes back as a new one, a reaped one is the same.      *)
ConfirmsElsewhere(n) ==
  /\ Call("confirm")
  /\ shape.blk = 0 \/ shape.reaped
  /\ n \in Confirmed
  /\ Confirms(n)
  /\ UNCHANGED <<retired, run, yes>>
  /\ ShapeOnly

(* A check of the interactive side finds the block gone (`_mark_reaped`).  *)
FindsReaped ==
  /\ shape.blk # 0 /\ ~shape.reaped
  /\ blockUp[shape.blk] = "ended"
  /\ shape' = [shape EXCEPT !.reaped = TRUE]
  /\ UNCHANGED <<blockUp, retired, run, yes, calls>>
  /\ ShapeOnly

StopOnly == UNCHANGED <<svcVars, row, cancelReq, groups, fut, minted, pc, mine, ids, rs, built, crashes>>

(* stop_endpoint, under the lock: admission stops first; rows in flight    *)
(* refuse the stop; else the block's config is retired.  On SSH the rest   *)
(* is off the lock, in two more locked steps.                              *)
Dropped == /\ shape' = [blk |-> 0, reaped |-> FALSE]
           /\ run' = IF run.rt = "current" THEN [run EXCEPT !.rt = "stale"] ELSE run
Busy    == InState({"in_flight"}) # {}

StopStarts ==
  /\ Call("stop")
  /\ stopping = "no"
  /\ bstate' = IF run.on /\ bstate = "admitting" THEN "needs_confirmation" ELSE bstate
  /\ yes' = {}
  /\ IF Busy THEN UNCHANGED <<retired, run, shape, stopping>>
     ELSE /\ retired' = IF run.on /\ shape.blk # 0 THEN retired \cup {Config(shape.blk)} ELSE retired
          /\ IF Ssh THEN stopping' = "asked" /\ UNCHANGED <<run, shape>>
                    ELSE Dropped /\ UNCHANGED stopping
  /\ StopOnly

(* Its tasks' record read, rows in flight still refuse it; else the        *)
(* scheduler is asked to cancel the block.                                 *)
StopReleases ==
  /\ stopping = "asked"
  /\ stopping' = IF Busy THEN "no" ELSE "releasing"
  /\ UNCHANGED <<bstate, retired, run, shape, yes, calls>>
  /\ StopOnly

(* The release is over: the last look (`_block_work`) is at the            *)
(* interactive calls alone, and the shape goes.                            *)
StopEnds ==
  /\ stopping = "releasing"
  /\ stopping' = "no"
  /\ Dropped
  /\ UNCHANGED <<bstate, retired, yes, calls>>
  /\ StopOnly

-----------------------------------------------------------------------------
(* A crash of the server, and the one that takes over (`_adopt`).          *)

Crash ==
  /\ crashes < MaxCrashes
  /\ crashes' = crashes + 1
  /\ run' = NoRun
  /\ fut' = [a \in Attempts |-> NoFut]
  /\ minted' = {}
  /\ shape' = [blk |-> 0, reaped |-> FALSE]
  /\ pc' = "idle" /\ rs' = "none" /\ stopping' = "no"
  /\ mine' = {} /\ ids' = {}
  /\ yes' = {}
  /\ UNCHANGED <<svcVars, ledgerVars, built, calls>>

AdoptsAdmitting ==                                \* mutant: a batch taken over goes on admitting
  /\ ~run.on
  /\ run' = [NoRun EXCEPT !.on = TRUE, !.adopted = TRUE]
  /\ UNCHANGED <<svcVars, ledgerVars, fut, minted, shape, pc, mine, ids, rs, stopping, yes, built, calls, crashes>>

(* To collect, never to admit: a batch that was admitting asks again.      *)
Adopt ==
  /\ ~run.on
  /\ run' = [NoRun EXCEPT !.on = TRUE, !.adopted = TRUE]
  /\ bstate' = IF bstate = "admitting" THEN "needs_confirmation" ELSE bstate
  /\ UNCHANGED <<svcVars, row, cancelReq, groups, retired, fut, minted, shape, pc, mine, ids, rs, stopping, yes, built,
                 calls, crashes>>

-----------------------------------------------------------------------------
PassStep ==
  \/ \E D \in SUBSET DoneFutures : Collect(D)
  \/ RestPull \/ SkipLookup \/ PassFails \/ ReadGroups \/ SettleUnsent \/ Reconcile
  \/ \E P \in SUBSET Rows : Presume(P)
  \/ \E n \in Blocks : Evidence(n)
  \/ PassAdmits \/ PassFinds \/ PassCancels

SdkStep == \E a \in Attempts : PostAnswered(a) \/ PostRetried(a) \/ PostFails(a) \/ ChannelQuits(a)

UserStep ==
  \/ \E mode \in {"drain", "abort"} : RecordsCancel(mode) \/ Cancels(mode)
  \/ ResumeStarts \/ (\E n \in Blocks : ResumeAdmitsAgain(n)) \/ ResumeAdmits \/ ResumeFails
  \/ \E n \in Blocks : ConfirmsElsewhere(n)
  \/ FindsReaped \/ StopStarts \/ StopReleases \/ StopEnds

ServiceStep == SvcNext /\ UNCHANGED <<ledgerVars, memVars, yes, built, calls, crashes>>

Next == PassStep \/ SdkStep \/ UserStep \/ ServiceStep \/ Crash \/ Adopt

Spec == Init /\ [][Next]_vars

-----------------------------------------------------------------------------
(* Fairness: what the event loop, the SDK and the service owe.  The loop   *)
(* goes on passing while a row is in flight (`_still_settling`), and its   *)
(* lookups have no deadline, only a spacing: one that is due again and     *)
(* again is made.  The SDK answers every submit, the service ends every    *)
(* task, and after a crash someone asks for the batch (`_adopt`).  Nothing *)
(* is owed by the user, a block's end, or a crash.                         *)
Fairness ==
  /\ WF_vars(PassStep)
  /\ SF_vars(DoneFutures # {} /\ Collect(DoneFutures))
  /\ SF_vars(RestPull)
  /\ SF_vars(SettleUnsent)
  /\ SF_vars(Presumable # {} /\ Presume(Presumable))
  /\ \A a \in Attempts : WF_vars(PostAnswered(a) \/ PostRetried(a) \/ PostFails(a))
  /\ \A t \in Tasks : WF_vars((OnNode(t) \/ ReportedLost(t)) /\ UNCHANGED <<ledgerVars, memVars, yes, built, calls, crashes>>)
  /\ WF_vars(Adopt)

FairSpec == Spec /\ Fairness

-----------------------------------------------------------------------------
(* Properties.                                                             *)

Starts(r) == {t \in started : t[1] = r}

(* A row that may not be run again starts its command at most once, over   *)
(* every attempt and every copy the transport made of it.                  *)
AtMostOnce == ~Idempotent => \A r \in Rows : Cardinality(Starts(r)) <= 1

(* Outside `_reconcile_unsent`, a row of a non-idempotent batch returns to *)
(* the backlog only if its attempt never started: `_settle_result` retries *)
(* on evidence (a refusal, a node without a slot), no other path does.     *)
ReturnsOnlyUnstarted ==
  [][\A r \in Rows : (~Idempotent /\ pc # "settle" /\ row[r].st \in HOLDING /\ row'[r].st = "backlog")
        => \A t \in Starts(r) : t[2] # row[r].att]_vars

(* A row `_reconcile_unsent` returns "was never sent": no task of its      *)
(* current attempt is at the service.                                      *)
ReturnedAsNeverSent ==
  [][\A r \in Rows : (pc = "settle" /\ row[r].st = "in_flight" /\ row'[r].st = "backlog" /\ row'[r].tid = 0)
        => \A t \in Tasks : Attempt(t) = Current(r) => svc[t].st = "none"]_vars

(* The futures a server holds are of rows still out, at their current      *)
(* attempt: no settlement leaves one behind, no retry overtakes it.        *)
FuturesAreOut ==
  \A a \in Open : row[a[1]].att = a[2] /\ row[a[1]].st \in {"in_flight", "presumed_lost"}

(* A settled row stays as it settled: no late result, REST answer,         *)
(* scheduler record, cancel or admission changes its state or its attempt. *)
SettledSticks ==
  [][\A r \in Rows : row[r].st \in TERMINAL => row'[r].st = row[r].st /\ row'[r].att = row[r].att]_vars

(* A row's outcome is its own current attempt's: a row is done only if a   *)
(* copy of that attempt ended with rc 0, failed only if one ended badly    *)
(* (whatever stray, retried or duplicate results were read).               *)
OutcomeIsOwn ==
  \A r \in Rows : \E c \in 1..Copies :
    LET st == svc[<<r, IF row[r].att = 0 THEN 1 ELSE row[r].att, c>>].st
    IN  /\ row[r].st = "done" => st = "ok"
        /\ row[r].st = "failed" => st \in {"bad", "noline"}

(* Nothing of a batch `_maybe_done` has called done runs on a live block:  *)
(* the duplicate a retried POST made has not settled the row in its place. *)
DoneIsQuiet ==
  bstate = "done" => \A t \in Tasks : svc[t].st = "running" => blockUp[svc[t].blk] # "live"

(* The tasks waiting or running at a live block never exceed the window    *)
(* (`reserve`): a row presumed lost or of unknown fate keeps its slot.     *)
WindowKept ==
  Cardinality({t \in Tasks : svc[t].st \in Pending /\ blockUp[svc[t].blk] = "live"}) <= Capacity

(* A batch that admits has a yes that no drain, abort, stop, pause or      *)
(* restart came after (`cancel`, `pause_all`, `_adopt`).                   *)
AdmittingHasYes == run.on /\ bstate = "admitting" => yes # {}

(* A block stop_endpoint released left no row in flight on it, whatever was *)
(* admitted while the release ran.                                         *)
ReleasedIsIdle == run.on /\ run.rt = "stale" /\ shape.blk = 0 => InState({"in_flight"}) = {}

(* The confirmed block is marked reaped only once it has itself ended: the *)
(* refusal or record of another block's rows does not reap it.             *)
ReapsOnlyEnded == [][~shape.reaped /\ shape'.reaped => blockUp[shape.blk] = "ended"]_vars

(* Every row in flight is eventually settled, returned or presumed lost:   *)
(* a lost result, a dropped channel or a crash strands none.               *)
InFlightResolves == \A r \in Rows : row[r].st = "in_flight" ~> row[r].st # "in_flight"
=============================================================================
