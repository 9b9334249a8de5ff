------------------------ MODULE BatchEngine_proofs ------------------------
(***************************************************************************)
(* Theorems about the batch engine, for every value of its constants.      *)
(***************************************************************************)
EXTENDS BatchEngine, FiniteSetTheorems, TLAPS

RowRec == [st : RowStates, att : 0..MaxAttempt, tid : 0..Copies, job : {0} \cup Blocks]
RunRec == [on : BOOLEAN, adopted : BOOLEAN, rt : {"none", "current", "stale"}, runner : {0} \cup Runners,
           cfg : {0} \cup Configs, old : SUBSET Runners, job : {0} \cup Blocks, synced : {0} \cup Blocks]
FutRec == [st : FutStates, by : {0} \cup Runners, blk : {0} \cup Blocks, copy : 0..Copies]
SvcRec == [st : TaskStates, blk : {0} \cup Blocks, grp : {0} \cup Runners]
ShapeRec == [blk : {0} \cup Blocks, reaped : BOOLEAN]

-----------------------------------------------------------------------------
(* Typing of the helpers.                                                  *)

LEMMA OneIsABound == 1 \in Blocks /\ 1 \in Runners /\ 1 \in Configs
BY BoundsAssumption DEF BoundsAssumption, Blocks, Runners, Configs

LEMMA ConfigType == ASSUME NEW n \in Blocks PROVE Config(n) \in Configs
BY BoundsAssumption DEF BoundsAssumption, Config, Configs, Blocks

LEMMA PassOnType == ASSUME NEW k \in 1..6, PassOn(k) PROVE pc' \in PassStages
<1>1. PICK j \in k..6 : pc' = Stages[j]
  BY DEF PassOn
<1>2. j \in 1..6
  OBVIOUS
<1>3. \A i \in 1..6 : Stages[i] \in PassStages
  BY DEF Stages, PassStages
<1> QED BY <1>1, <1>2, <1>3

LEMMA NoFutType == NoFut \in FutRec
BY BoundsAssumption DEF BoundsAssumption, NoFut, FutRec, FutStates

LEMMA StateAfterType == ASSUME NEW k PROVE StateAfter(k) \in RowStates
BY DEF StateAfter, RowStates, HOLDING, TERMINAL

LEMMA SettleRowType == ASSUME NEW rw \in RowRec, NEW k PROVE SettleRow(rw, k) \in RowRec
BY StateAfterType DEF SettleRow, RowRec

(* What settling an attempt leaves of its row: everything but its state.   *)
LEMMA SettleRowKeeps ==
  ASSUME NEW rw \in RowRec, NEW k
  PROVE  /\ SettleRow(rw, k).att = rw.att
         /\ SettleRow(rw, k).tid = rw.tid
         /\ SettleRow(rw, k).st \in {rw.st, StateAfter(k)}
         /\ rw.st \notin HOLDING => SettleRow(rw, k).st = rw.st
BY DEF SettleRow, RowRec, OnlyFrom, HOLDING

LEMMA PauseType == ASSUME TypeOK, Pause \/ GoOn PROVE bstate' \in BatchStates /\ yes' \in SUBSET ({0} \cup Blocks)
BY DEF TypeOK, Pause, PauseOf, GoOn, BatchStates

LEMMA ReapType ==
  ASSUME TypeOK, NEW c, ReapCurrent(c)
  PROVE  shape' \in ShapeRec /\ retired' \in SUBSET Configs
<1>1. RunConfig \in SUBSET Configs
  BY ConfigType DEF TypeOK, RunConfig
<1>2. shape' \in ShapeRec
  BY DEF TypeOK, ReapCurrent, ShapeRec
<1> QED BY <1>1, <1>2 DEF TypeOK, ReapCurrent

LEMMA AftermathType ==
  ASSUME TypeOK, NEW K, Aftermath(K)
  PROVE  /\ bstate' \in BatchStates /\ yes' \in SUBSET ({0} \cup Blocks)
         /\ shape' \in ShapeRec /\ retired' \in SUBSET Configs
<1>1. Pause \/ GoOn
  BY DEF Aftermath
<1>2. ReapCurrent("refused" \in K)
  BY DEF Aftermath
<1> QED BY <1>1, <1>2, PauseType, ReapType

LEMMA LearntType ==
  ASSUME TypeOK, NEW r \in RunRec, NEW S \in SUBSET Tasks, NEW x \in Learnt(r, S)
  PROVE  x \in RunRec
<1>1. CASE S = {}
  BY <1>1 DEF Learnt
<1>2. CASE S # {}
  <2>1. PICK t \in S : x = [r EXCEPT !.job = svc[t].blk]
    BY <1>2 DEF Learnt
  <2>2. svc[t].blk \in {0} \cup Blocks
    BY DEF TypeOK, SvcTypeOK
  <2> QED BY <2>1, <2>2 DEF RunRec
<1> QED BY <1>1, <1>2

(* The sets of TypeOK under the names used here.                           *)
LEMMA Typed ==
  ASSUME TypeOK
  PROVE  /\ svc \in [Tasks -> SvcRec] /\ row \in [Rows -> RowRec] /\ fut \in [Attempts -> FutRec]
         /\ run \in RunRec /\ shape \in ShapeRec
BY DEF TypeOK, SvcTypeOK, SvcRec, RowRec, FutRec, RunRec, ShapeRec

LEMMA Retyped ==
  ASSUME TypeOK,
         svc' \in [Tasks -> SvcRec], row' \in [Rows -> RowRec], fut' \in [Attempts -> FutRec],
         run' \in RunRec, shape' \in ShapeRec,
         claimed' \in SUBSET Attempts, started' \in SUBSET Tasks,
         blockUp' \in [Blocks -> {"none", "live", "ended"}], marker' \in BOOLEAN,
         bstate' \in BatchStates, cancelReq' \in {"none", "drain", "abort"},
         groups' \in SUBSET Runners, retired' \in SUBSET Configs, minted' \in SUBSET Runners,
         pc' \in PassStages, mine' \in SUBSET Attempts, ids' \in SUBSET Tasks,
         rs' \in {"none", "confirming", "admit"}, stopping' \in {"no", "asked", "releasing"},
         yes' \in SUBSET ({0} \cup Blocks), built' \in {0} \cup Runners,
         calls' \in 0..MaxCalls, crashes' \in 0..MaxCrashes
  PROVE  TypeOK'
BY DEF TypeOK, SvcTypeOK, SvcRec, RowRec, FutRec, RunRec, ShapeRec

LEMMA AttemptsAndTasks ==
  /\ \A t \in Tasks : Attempt(t) \in Attempts /\ t[1] \in Rows /\ t[2] \in 1..MaxAttempt /\ t[3] \in 1..Copies
                      /\ t = <<t[1], t[2], t[3]>>
  /\ \A a \in Attempts : /\ a[1] \in Rows /\ a[2] \in 1..MaxAttempt /\ a = <<a[1], a[2]>>
                         /\ \A c \in 1..Copies : Task(a, c) \in Tasks
BY DEF Tasks, Attempts, Attempt, Task

LEMMA InitTypes == Init => TypeOK
<1> SUFFICES ASSUME Init PROVE TypeOK
  OBVIOUS
<1>1. SvcTypeOK
  BY OneIsABound DEF Init, SvcInit, SvcTypeOK, NoTask, TaskStates, Blocks
<1>2. row \in [Rows -> RowRec] /\ fut \in [Attempts -> FutRec]
  BY BoundsAssumption DEF BoundsAssumption, Init, RowRec, RowStates, FutRec, NoFut, FutStates
<1>3. run \in RunRec /\ shape \in ShapeRec
  BY OneIsABound DEF Init, RunRec, NoRun, ShapeRec
<1>4. calls \in 0..MaxCalls /\ crashes \in 0..MaxCrashes
  <2>1. MaxCalls \in Nat /\ MaxCrashes \in Nat
    BY EngineAssumption, Zenon DEF EngineAssumption
  <2>2. calls = 0 /\ crashes = 0
    BY DEF Init
  <2> QED BY <2>1, <2>2
<1>5. yes \in SUBSET ({0} \cup Blocks) /\ built \in {0} \cup Runners
  BY OneIsABound DEF Init
<1> QED
  BY <1>1, <1>2, <1>3, <1>4, <1>5
  DEF Init, TypeOK, RowRec, FutRec, RunRec, ShapeRec, BatchStates, PassStages

-----------------------------------------------------------------------------
(* The service's steps keep the types, and leave the server alone.         *)

LEMMA MovesType == ASSUME TypeOK, NEW t \in Tasks, NEW s \in TaskStates, Moves(t, s) PROVE svc' \in [Tasks -> SvcRec]
BY Typed DEF Moves, SvcRec

LEMMA ServiceTypes == TypeOK /\ ServiceStep => TypeOK'
<1> SUFFICES ASSUME TypeOK, ServiceStep PROVE SvcTypeOK'
  BY DEF TypeOK, ServiceStep, ledgerVars, memVars
<1>1. SvcTypeOK
  BY DEF TypeOK
<1>2. ASSUME NEW t \in Tasks, OnNode(t) PROVE SvcTypeOK'
  <2>1. CASE GuardRefuses(t)
    BY <1>1, <2>1 DEF GuardRefuses, Moves, SvcTypeOK, TaskStates, Settled
  <2>2. CASE FindsClaim(t)
    BY <1>1, <2>2 DEF FindsClaim, Moves, SvcTypeOK, TaskStates, Settled, WithLine
  <2>3. CASE SeesMarker(t)
    BY <1>1, <2>3, AttemptsAndTasks DEF SeesMarker, ClaimsAndEnds, Moves, SvcTypeOK, TaskStates, Settled, WithLine
  <2>4. CASE FindsNoSlot(t)
    BY <1>1, <2>4, AttemptsAndTasks DEF FindsNoSlot, ClaimsAndEnds, Moves, SvcTypeOK, TaskStates, Settled, WithLine
  <2>5. CASE StartsCommand(t)
    BY <1>1, <2>5, AttemptsAndTasks DEF StartsCommand, Moves, SvcTypeOK, TaskStates, Pending
  <2>6. ASSUME NEW s \in {"ok", "bad", "noline", "marker"}, EndsCommand(t, s) PROVE SvcTypeOK'
    BY <1>1, <2>6 DEF EndsCommand, Moves, SvcTypeOK, TaskStates, Settled, WithLine
  <2> QED BY <1>2, <2>1, <2>2, <2>3, <2>4, <2>5, <2>6 DEF OnNode
<1>3. ASSUME NEW t \in Tasks, ReportedLost(t) PROVE SvcTypeOK'
  BY <1>1, <1>3 DEF ReportedLost, Moves, SvcTypeOK, TaskStates, Settled
<1>4. ASSUME NEW n \in Blocks, BlockEnds(n) PROVE SvcTypeOK'
  BY <1>1, <1>4 DEF BlockEnds, SvcTypeOK
<1> QED BY <1>2, <1>3, <1>4 DEF ServiceStep, SvcNext

-----------------------------------------------------------------------------
(* TypeOK is not inductive as it stands: the runner a POST names goes into *)
(* `minted`, so an attempt with a future must have one; and the task whose *)
(* result line names a block must be one, so a sent attempt must have its. *)

SendersKnown ==
  \A a \in Attempts : /\ fut[a].st # "none" => fut[a].by \in Runners
                      /\ fut[a].st = "sent" => fut[a].copy \in 1..Copies

(* ... and a row that is out must have been tried.                         *)
OutWasTried == \A r \in Rows : row[r].st \in HOLDING => row[r].att # 0

TypeInv == TypeOK /\ SendersKnown /\ OutWasTried

LEMMA InitTypeInv == Init => TypeInv
BY InitTypes DEF TypeInv, SendersKnown, OutWasTried, Init, NoFut, HOLDING

(* The SDK's steps.                                                        *)

LEMMA SdkTypes ==
  ASSUME TypeInv, NEW a \in Attempts,
         PostAnswered(a) \/ PostRetried(a) \/ PostFails(a) \/ ChannelQuits(a)
  PROVE  TypeInv'
<1> USE Typed DEF TypeInv
<1>1. \A c \in 1..Copies : Task(a, c) \in Tasks
  BY AttemptsAndTasks
<1>2. 1 \in 1..Copies /\ 1 \in 0..Copies /\ (Copies = 2 => 2 \in 1..Copies /\ 2 \in 0..Copies)
  BY BoundsAssumption DEF BoundsAssumption
<1>3. fut[a] \in FutRec /\ fut[a].blk \in {0} \cup Blocks
  BY DEF FutRec
<1>4. fut[a].by \in Runners
  BY DEF SendersKnown, PostAnswered, PostRetried, PostFails, ChannelQuits
<1>5. GroupOf(a) \in {0} \cup Runners
  BY <1>4 DEF GroupOf
<1>6. ASSUME NEW g \in {0} \cup Runners PROVE [st |-> "queued", blk |-> fut[a].blk, grp |-> g] \in SvcRec
  BY <1>3 DEF SvcRec, TaskStates, Pending
<1>7. ASSUME NEW g \in {0} \cup Runners PROVE Posted(a, 1, g) \in [Tasks -> SvcRec]
  BY <1>1, <1>2, <1>6 DEF Posted
<1>8. svc' \in [Tasks -> SvcRec]
  <2>1. CASE PostAnswered(a)
    BY <2>1, <1>4, <1>7 DEF PostAnswered
  <2>2. CASE PostRetried(a)
    <3>1. Task(a, 1) \in Tasks /\ Task(a, 2) \in Tasks
      BY <2>2, <1>1, <1>2 DEF PostRetried
    <3> QED BY <2>2, <3>1, <1>4, <1>5, <1>6 DEF PostRetried
  <2>3. CASE PostFails(a)
    BY <2>3, <1>5, <1>7 DEF PostFails
  <2>4. CASE ChannelQuits(a)
    BY <2>4 DEF ChannelQuits
  <2> QED BY <2>1, <2>2, <2>3, <2>4
<1>9. minted' \in SUBSET Runners
  BY <1>4 DEF TypeOK, PostAnswered, PostRetried, PostFails, ChannelQuits
<1>10. /\ fut' \in [Attempts -> FutRec]
       /\ \A x \in Attempts : /\ fut'[x].by = fut[x].by
                              /\ fut'[x].st # "none" => fut[x].st # "none"
                              /\ fut'[x].st = "sent" => fut'[x].copy \in 1..Copies
  <2>1. CASE PostAnswered(a)
    BY <2>1, <1>2 DEF PostAnswered, FutRec, FutStates, SendersKnown
  <2>2. CASE PostRetried(a)
    BY <2>2, <1>2 DEF PostRetried, FutRec, FutStates, SendersKnown
  <2>3. CASE PostFails(a)
    BY <2>3 DEF PostFails, FutRec, FutStates, SendersKnown
  <2>4. CASE ChannelQuits(a)
    BY <2>4 DEF ChannelQuits, FutRec, FutStates, SendersKnown
  <2> QED BY <2>1, <2>2, <2>3, <2>4
<1>11. SdkOnly
  BY DEF PostAnswered, PostRetried, PostFails, ChannelQuits
<1>12. TypeOK'
  BY <1>8, <1>9, <1>10, <1>11, Retyped DEF SdkOnly, ledgerVars, TypeOK, SvcTypeOK
<1>13. SendersKnown'
  BY <1>10 DEF SendersKnown
<1>14. OutWasTried'
  BY <1>11 DEF OutWasTried, SdkOnly, ledgerVars
<1> QED BY <1>12, <1>13, <1>14

-----------------------------------------------------------------------------
(* The steps of a pass.                                                    *)

(* A pass only ever drops futures: its premise for the steps before        *)
(* admission.                                                              *)
OnlyDrops == \A a \in Attempts : fut'[a] \in {fut[a], NoFut}

(* And it settles rows that are out, at the attempt they are at.           *)
OnlySettles == \A r \in Rows : /\ row'[r].att = row[r].att
                               /\ row[r].st \notin HOLDING => row'[r].st = row[r].st

(* A settled row stays as it settled: the action of SettledSticks.          *)
KeepsSettled == \A r \in Rows : row[r].st \in TERMINAL => row'[r].st = row[r].st /\ row'[r].att = row[r].att

Passed == OnlyDrops /\ OnlySettles /\ KeepsSettled

LEMMA DropsType ==
  ASSUME TypeInv, OnlyDrops, fut' \in [Attempts -> FutRec] PROVE SendersKnown'
BY Typed DEF TypeInv, SendersKnown, OnlyDrops, NoFut

LEMMA PassRetyped ==
  ASSUME TypeInv, PassOnly, OnlyDrops, OnlySettles,
         row' \in [Rows -> RowRec], fut' \in [Attempts -> FutRec], run' \in RunRec, shape' \in ShapeRec,
         bstate' \in BatchStates, yes' \in SUBSET ({0} \cup Blocks), groups' \in SUBSET Runners,
         retired' \in SUBSET Configs, pc' \in PassStages, mine' \in SUBSET Attempts, ids' \in SUBSET Tasks
  PROVE  TypeInv' /\ Passed
<1>1. TypeOK /\ SendersKnown
  BY DEF TypeInv
<1>2. TypeOK'
  BY <1>1, Typed, Retyped DEF PassOnly, TypeOK, SvcTypeOK, svcVars
<1>3. OutWasTried'
  BY DEF TypeInv, OutWasTried, OnlySettles
<1>4. KeepsSettled
  BY DEF OnlySettles, KeepsSettled, TERMINAL, HOLDING
<1> QED BY <1>2, <1>3, <1>4, DropsType DEF TypeInv, Passed

LEMMA KeptFut == ASSUME TypeInv, fut' = fut PROVE OnlyDrops /\ fut' \in [Attempts -> FutRec]
BY Typed DEF TypeInv, OnlyDrops

LEMMA LearntTidType == ASSUME TypeOK, NEW r \in Rows PROVE LearntTid(r) \in 0..Copies
<1>1. Open \subseteq Attempts
  BY DEF Open
<1> QED BY <1>1, Typed DEF LearntTid, FutRec, RowRec

LEMMA CollectTypes == ASSUME TypeInv, NEW D \in SUBSET DoneFutures, Collect(D) PROVE TypeInv' /\ Passed
<1> USE DEF TypeInv
<1> DEFINE kinds == {Outcome(a) : a \in D}
           lines == {FutTask(a) : a \in {x \in D : Outcome(x) \in WithLine}}
           quits == "broken" \in kinds /\ run.runner # 0
           kept  == IF quits THEN [run EXCEPT !.old = @ \cup {run.runner}, !.runner = 0, !.cfg = 0] ELSE run
<1>1. D \subseteq Attempts
  BY DEF DoneFutures, Open
<1>2. row' \in [Rows -> RowRec] /\ OnlySettles
  <2> DEFINE rw(r) == [row[r] EXCEPT !.tid = LearntTid(r)]
  <2>1. ASSUME NEW r \in Rows PROVE rw(r) \in RowRec /\ rw(r).st = row[r].st /\ rw(r).att = row[r].att
    BY <2>1, Typed, LearntTidType DEF RowRec
  <2> HIDE DEF rw
  <2>2. row' = [r \in Rows |-> IF Current(r) \in D /\ Outcome(Current(r)) # "broken"
                               THEN SettleRow(rw(r), Outcome(Current(r))) ELSE rw(r)]
    BY DEF Collect, rw
  <2> QED BY <2>1, <2>2, SettleRowType, SettleRowKeeps DEF OnlySettles
<1>3. fut' \in [Attempts -> FutRec] /\ OnlyDrops
  <2>1. NoFut \in FutRec
    BY NoFutType
  <2>2. fut' = [a \in Attempts |-> IF a \in D THEN NoFut ELSE fut[a]]
    BY DEF Collect
  <2> QED BY <2>1, <2>2, Typed DEF OnlyDrops
<1>4. /\ bstate' \in BatchStates /\ yes' \in SUBSET ({0} \cup Blocks)
      /\ shape' \in ShapeRec /\ retired' \in SUBSET Configs
  BY AftermathType DEF Collect
<1>5. run' \in RunRec
  <2>1. lines \in SUBSET Tasks
    <3>1. ASSUME NEW a \in D, Outcome(a) \in WithLine PROVE fut[a].st = "sent" /\ FutTask(a) \in Tasks
      <4>1. fut[a].st = "sent"
        BY <3>1, <1>1 DEF DoneFutures, Outcome, WithLine
      <4>2. fut[a].copy \in 1..Copies
        BY <3>1, <4>1, <1>1 DEF SendersKnown
      <4> QED BY <4>1, <4>2, <1>1, AttemptsAndTasks DEF FutTask
    <3> QED BY <3>1
  <2>2. kept \in RunRec
    BY Typed DEF RunRec
  <2>3. run' \in Learnt(kept, lines)
    BY DEF Collect
  <2> HIDE DEF kept, lines
  <2> QED BY <2>1, <2>2, <2>3, LearntType
<1>6. groups' \in SUBSET Runners
  BY DEF Collect, TypeOK
<1>7. pc' \in PassStages
  BY PassOnType DEF Collect
<1> QED BY <1>2, <1>3, <1>4, <1>5, <1>6, <1>7, PassRetyped DEF Collect, TypeOK

LEMMA RestPullTypes == ASSUME TypeInv, RestPull PROVE TypeInv' /\ Passed
<1> USE DEF TypeInv
<1> DEFINE task(r) == Task(Current(r), row[r].tid)
           kind(r) == svc[task(r)].st
           S       == {r \in PullRows : kind(r) \in Settled}
           lines   == {task(r) : r \in {x \in S : kind(x) \in WithLine}}
<1>1. row' \in [Rows -> RowRec] /\ OnlySettles
  <2> HIDE DEF task, kind, S
  <2>1. row' = [r \in Rows |-> IF r \in S THEN SettleRow(row[r], kind(r)) ELSE row[r]]
    BY DEF RestPull, S, kind, task
  <2> QED BY <2>1, SettleRowType, SettleRowKeeps, Typed DEF OnlySettles
<1>2. run' \in RunRec
  <2>1. ASSUME NEW r \in S PROVE task(r) \in Tasks
    <3>1. r \in Rows /\ row[r].tid # 0 /\ row[r].st \in HOLDING
      BY DEF PullRows, InState
    <3>2. row[r].tid \in 1..Copies /\ row[r].att \in 1..MaxAttempt
      BY <3>1, Typed, BoundsAssumption DEF RowRec, BoundsAssumption, OutWasTried
    <3>3. Current(r) \in Attempts
      BY <3>1, <3>2 DEF Current, Attempts
    <3> QED BY <3>2, <3>3, AttemptsAndTasks
  <2>2. lines \in SUBSET Tasks
    BY <2>1
  <2>3. run' \in Learnt(run, lines)
    BY DEF RestPull
  <2> HIDE DEF lines
  <2> QED BY <2>2, <2>3, LearntType, Typed
<1>3. /\ bstate' \in BatchStates /\ yes' \in SUBSET ({0} \cup Blocks)
      /\ shape' \in ShapeRec /\ retired' \in SUBSET Configs
  BY AftermathType DEF RestPull
<1>4. pc' \in PassStages
  BY PassOnType DEF RestPull
<1> QED BY <1>1, <1>2, <1>3, <1>4, KeptFut, PassRetyped DEF RestPull, TypeOK

(* A step of a pass that settles nothing.                                  *)
LEMMA Idles ==
  ASSUME TypeInv, PassOnly, UNCHANGED <<row, bstate, yes, groups, retired, run, fut, shape>>,
         pc' \in PassStages, mine' \in SUBSET Attempts, ids' \in SUBSET Tasks
  PROVE  TypeInv' /\ Passed
BY KeptFut, PassRetyped, Typed DEF TypeInv, TypeOK, OnlySettles

LEMMA IdleTypes == ASSUME TypeInv, SkipLookup \/ PassFails \/ ReadGroups PROVE TypeInv' /\ Passed
<1>1. CASE SkipLookup
  <2>1. pc' \in PassStages
    BY <1>1, PassOnType DEF SkipLookup
  <2> QED BY <1>1, <2>1, Idles DEF SkipLookup, TypeInv, TypeOK
<1>2. CASE PassFails
  BY <1>2, Idles DEF PassFails, PassStages
<1>3. CASE ReadGroups
  BY <1>3, Idles DEF ReadGroups, PassStages, Open, Listed
<1> QED BY <1>1, <1>2, <1>3

(* A stray's result settles the row it names.                              *)
LEMMA NamedRow ==
  ASSUME TypeInv, NEW r \in Rows, NEW t \in Tasks
  PROVE  /\ SettleRow([row[r] EXCEPT !.tid = t[3]], svc[t].st) \in RowRec
         /\ SettleRow([row[r] EXCEPT !.tid = t[3]], svc[t].st).att = row[r].att
         /\ row[r].st \notin HOLDING => SettleRow([row[r] EXCEPT !.tid = t[3]], svc[t].st).st = row[r].st
<1> DEFINE rw == [row[r] EXCEPT !.tid = t[3]]
<1>0. t[3] \in 0..Copies
  BY AttemptsAndTasks, BoundsAssumption DEF BoundsAssumption
<1>1. rw \in RowRec /\ rw.att = row[r].att /\ rw.st = row[r].st
  BY <1>0, Typed DEF TypeInv, RowRec
<1> HIDE DEF rw
<1>2. SettleRow(rw, svc[t].st) \in RowRec /\ SettleRow(rw, svc[t].st).att = row[r].att
      /\ (row[r].st \notin HOLDING => SettleRow(rw, svc[t].st).st = row[r].st)
  BY <1>1, SettleRowType, SettleRowKeeps
<1> QED BY <1>2 DEF rw

LEMMA SettleUnsentTypes == ASSUME TypeInv, SettleUnsent PROVE TypeInv' /\ Passed
<1> USE DEF TypeInv
<1> DEFINE named   == Naming(Strays, "in_flight")
           byName  == [r \in Rows |->
                         IF \E t \in named : t[1] = r
                         THEN LET t == CHOOSE t \in named : t[1] = r
                              IN  SettleRow([row[r] EXCEPT !.tid = t[3]], svc[t].st)
                         ELSE row[r]]
           pending == \E t \in Strays : svc[t].st \in Pending
           never   == {r \in Rows : byName[r].st = "in_flight" /\ byName[r].tid = 0 /\ Current(r) \notin mine}
<1>1. named \in SUBSET Tasks
  BY DEF Naming, Strays, TypeOK
<1>2. ASSUME NEW r \in Rows
      PROVE  /\ byName[r] \in RowRec /\ byName[r].att = row[r].att
             /\ row[r].st \notin HOLDING => byName[r].st = row[r].st
  <2>1. CASE \E t \in named : t[1] = r
    <3> DEFINE t == CHOOSE t \in named : t[1] = r
    <3>1. t \in Tasks
      BY <2>1, <1>1
    <3>2. byName[r] = SettleRow([row[r] EXCEPT !.tid = t[3]], svc[t].st)
      BY <2>1
    <3> HIDE DEF t, named, byName
    <3> QED BY <3>1, <3>2, NamedRow
  <2>2. CASE ~ \E t \in named : t[1] = r
    BY <2>2, Typed
  <2> QED BY <2>1, <2>2
<1>3. row' = [r \in Rows |-> IF ~pending /\ r \in never THEN [byName[r] EXCEPT !.st = "backlog"] ELSE byName[r]]
  BY DEF SettleUnsent
<1>4. ASSUME NEW r \in never PROVE row[r].st \in HOLDING
  <2>1. byName[r].st = "in_flight" /\ r \in Rows
    OBVIOUS
  <2> HIDE DEF byName, never
  <2> QED BY <2>1, <1>2 DEF HOLDING
<1>5. row' \in [Rows -> RowRec] /\ OnlySettles
  <2> HIDE DEF named, byName, pending, never
  <2>1. ASSUME NEW r \in Rows, ~pending /\ r \in never
        PROVE  row'[r] \in RowRec /\ row'[r].att = row[r].att
    BY <1>2, <1>3, <2>1 DEF RowRec, RowStates
  <2>2. ASSUME NEW r \in Rows, ~(~pending /\ r \in never) PROVE row'[r] = byName[r]
    BY <1>3, <2>2
  <2> QED BY <1>2, <1>3, <1>4, <2>1, <2>2 DEF OnlySettles
<1>6. run' \in RunRec
  <2>1. run' \in Learnt(run, named)
    BY DEF SettleUnsent
  <2> QED BY <1>1, <2>1, LearntType, Typed
<1>7. /\ bstate' \in BatchStates /\ yes' \in SUBSET ({0} \cup Blocks)
      /\ shape' \in ShapeRec /\ retired' \in SUBSET Configs
  BY AftermathType DEF SettleUnsent
<1>8. pc' \in PassStages
  BY PassOnType DEF SettleUnsent
<1>9. mine' \in SUBSET Attempts /\ ids' \in SUBSET Tasks
  BY DEF SettleUnsent
<1> HIDE DEF named, byName, pending, never
<1> QED BY <1>5, <1>6, <1>7, <1>8, <1>9, KeptFut, PassRetyped DEF SettleUnsent, TypeOK

LEMMA ReconcileTypes == ASSUME TypeInv, Reconcile PROVE TypeInv' /\ Passed
<1> USE DEF TypeInv
<1> DEFINE strays  == Listed \ Known
           named   == Naming(strays, "submit_unknown")
           pending == \E t \in strays : svc[t].st \in Pending
           byName  == [r \in Rows |->
                         IF \E t \in named : t[1] = r
                         THEN LET t == CHOOSE t \in named : t[1] = r
                              IN  SettleRow([row[r] EXCEPT !.tid = t[3]], svc[t].st)
                         ELSE row[r]]
           again   == ~pending /\ Idempotent
<1>1. named \in SUBSET Tasks
  BY DEF Naming, Listed
<1>2. ASSUME NEW r \in Rows
      PROVE  /\ byName[r] \in RowRec /\ byName[r].att = row[r].att
             /\ row[r].st \notin HOLDING => byName[r].st = row[r].st
  <2>1. CASE \E t \in named : t[1] = r
    <3> DEFINE t == CHOOSE t \in named : t[1] = r
    <3>1. t \in Tasks
      BY <2>1, <1>1
    <3>2. byName[r] = SettleRow([row[r] EXCEPT !.tid = t[3]], svc[t].st)
      BY <2>1
    <3> HIDE DEF t, named, byName
    <3> QED BY <3>1, <3>2, NamedRow
  <2>2. CASE ~ \E t \in named : t[1] = r
    BY <2>2, Typed
  <2> QED BY <2>1, <2>2
<1>3. row' = [r \in Rows |-> IF again /\ byName[r].st = "submit_unknown"
                             THEN [byName[r] EXCEPT !.st = "backlog"] ELSE byName[r]]
  BY DEF Reconcile
<1>5. row' \in [Rows -> RowRec] /\ OnlySettles
  <2> HIDE DEF strays, named, byName, pending, again
  <2>1. ASSUME NEW r \in Rows, again /\ byName[r].st = "submit_unknown"
        PROVE  row'[r] \in RowRec /\ row'[r].att = row[r].att /\ row[r].st \in HOLDING
    BY <1>2, <1>3, <2>1 DEF RowRec, RowStates, HOLDING
  <2>2. ASSUME NEW r \in Rows, ~(again /\ byName[r].st = "submit_unknown") PROVE row'[r] = byName[r]
    BY <1>3, <2>2
  <2> QED BY <1>2, <1>3, <2>1, <2>2 DEF OnlySettles
<1>6. run' \in RunRec
  <2>1. run' \in Learnt(run, named)
    BY DEF Reconcile
  <2> QED BY <1>1, <2>1, LearntType, Typed
<1>7. /\ bstate' \in BatchStates /\ yes' \in SUBSET ({0} \cup Blocks)
      /\ shape' \in ShapeRec /\ retired' \in SUBSET Configs
  BY AftermathType DEF Reconcile
<1>8. pc' \in PassStages
  BY PassOnType DEF Reconcile
<1> HIDE DEF strays, named, byName, pending, again
<1> QED BY <1>5, <1>6, <1>7, <1>8, KeptFut, PassRetyped DEF Reconcile, TypeOK

LEMMA PresumeTypes == ASSUME TypeInv, NEW P, Presume(P) PROVE TypeInv' /\ Passed
<1> USE DEF TypeInv
<1>1. row' \in [Rows -> RowRec]
  BY Typed DEF Presume, RowRec, RowStates, HOLDING
<1>2. OnlySettles
  <2>1. ASSUME NEW r \in P PROVE row[r].st \in HOLDING
    BY DEF Presume, Presumable, InState, HOLDING
  <2> QED BY <2>1, Typed DEF Presume, OnlySettles, RowRec
<1>3. pc' \in PassStages
  BY PassOnType DEF Presume
<1> QED BY <1>1, <1>2, <1>3, KeptFut, PassRetyped, Typed DEF Presume, TypeOK

LEMMA EvidenceTypes == ASSUME TypeInv, NEW n \in Blocks, Evidence(n) PROVE TypeInv' /\ Passed
<1> USE DEF TypeInv
<1> DEFINE out == {r \in InState({"in_flight"}) : row[r].job = n}
<1>1. row' \in [Rows -> RowRec] /\ OnlySettles
  <2>1. row' = [r \in Rows |-> IF r \in out THEN SettleRow(row[r], "lost") ELSE row[r]]
    BY DEF Evidence
  <2> HIDE DEF out
  <2> QED BY <2>1, SettleRowType, SettleRowKeeps, Typed DEF OnlySettles
<1>2. fut' \in [Attempts -> FutRec] /\ OnlyDrops
  <2>1. fut' = [a \in Attempts |-> IF \E r \in out : a = Current(r) THEN NoFut ELSE fut[a]]
    BY DEF Evidence
  <2> HIDE DEF out
  <2> QED BY <2>1, NoFutType, Typed DEF OnlyDrops
<1>3. /\ bstate' \in BatchStates /\ yes' \in SUBSET ({0} \cup Blocks)
      /\ shape' \in ShapeRec /\ retired' \in SUBSET Configs
  BY PauseType, ReapType DEF Evidence
<1>4. pc' \in PassStages
  BY PassOnType DEF Evidence
<1> QED BY <1>1, <1>2, <1>3, <1>4, PassRetyped, Typed DEF Evidence, TypeOK

-----------------------------------------------------------------------------
(* Admission.                                                              *)

(* A run ready to admit has an executor: the one it had, or the one built. *)
LEMMA ReadyType ==
  ASSUME TypeOK
  PROVE  /\ Ready \in RunRec /\ Built \in {0} \cup Runners
         /\ Readies => Ready.runner \in Runners /\ shape.blk \in Blocks
<1>1. ASSUME Readies PROVE shape.blk \in Blocks
  BY <1>1, Typed DEF Readies, NoBlock, ShapeRec
<1>2. ASSUME Readies, NeedsRunner PROVE Built \in Runners
  BY <1>2, BoundsAssumption DEF BoundsAssumption, TypeOK, Built, Readies, Runners
<1>3. Built \in {0} \cup Runners
  BY <1>2 DEF TypeOK, Built
<1>4. CASE ~Readies
  BY <1>3, <1>4, Typed DEF Ready
<1>5. CASE Readies
  <2>1. shape.blk \in Blocks /\ Config(shape.blk) \in Configs
    BY <1>1, <1>5, ConfigType
  <2>2. CASE NeedsRunner
    BY <1>2, <1>5, <2>1, <2>2, Typed DEF Ready, RunRec
  <2>3. CASE ~NeedsRunner
    <3>1. run.runner \in Runners
      BY <2>3, Typed DEF NeedsRunner, RunRec
    <3> QED BY <1>3, <1>5, <2>1, <2>3, <3>1, Typed DEF Ready, RunRec
  <2> QED BY <2>2, <2>3
<1> QED BY <1>4, <1>5

LEMMA TidyType == ASSUME NEW e, NEW r \in RunRec PROVE Tidy(e, r) \in RunRec
BY DEF Tidy, RunRec

(* What admission may write, and that it keeps TypeInv's last two parts.   *)
LEMMA SendsTypes ==
  ASSUME TypeInv, NEW e \in BOOLEAN, NEW k \in 0..NumRows, Sends(e, k)
  PROVE  /\ row' \in [Rows -> RowRec] /\ fut' \in [Attempts -> FutRec] /\ run' \in RunRec
         /\ SendersKnown' /\ OutWasTried' /\ KeepsSettled
<1> USE DEF TypeInv
<1> DEFINE taken == Reserved
           sent  == {r \in taken : Cardinality({q \in taken : q < r}) < k}
<1>1. Readies /\ Ready \in RunRec /\ Ready.runner \in Runners /\ shape.blk \in Blocks
  BY ReadyType DEF Sends
<1>2. row' = [r \in Rows |->
                IF r \notin taken THEN row[r]
                ELSE [st |-> IF r \in sent THEN "in_flight" ELSE "backlog", att |-> row[r].att + 1, tid |-> 0,
                      job |-> IF r \in sent THEN Ready.job ELSE row[r].job]]
  BY DEF Sends
<1>3. \A r \in taken : r \in Rows /\ row[r].att < MaxAttempt /\ row[r].st = "backlog"
  BY DEF Sends, Reserved, Backlog, InState
<1>4. fut' = [a \in Attempts |->
                IF a[1] \in sent /\ a[2] = row[a[1]].att + 1
                THEN [st |-> "queued", by |-> Ready.runner, blk |-> shape.blk, copy |-> 0]
                ELSE fut[a]]
  BY DEF Sends
<1>5. run' = Tidy(e /\ sent = {}, IF sent = taken THEN Ready ELSE [Ready EXCEPT !.runner = 0])
  BY DEF Sends
<1> HIDE DEF taken, sent
<1>6. row' \in [Rows -> RowRec] /\ OutWasTried'
  <2>1. 0 \in 0..Copies
    BY BoundsAssumption DEF BoundsAssumption
  <2>2. ASSUME NEW r \in taken PROVE row[r].att + 1 \in 1..MaxAttempt
    BY <1>3, Typed, BoundsAssumption DEF BoundsAssumption, RowRec
  <2>3. Ready.job \in {0} \cup Blocks
    BY <1>1 DEF RunRec
  <2>4. ASSUME NEW r \in Rows PROVE row'[r] \in RowRec /\ (row'[r].st \in HOLDING => row'[r].att # 0)
    <3>1. CASE r \in taken
      BY <1>2, <3>1, <2>1, <2>2, <2>3, Typed DEF RowRec, RowStates, HOLDING
    <3>2. CASE r \notin taken
      BY <1>2, <3>2, Typed DEF OutWasTried
    <3> QED BY <3>1, <3>2
  <2> QED BY <1>2, <2>4 DEF OutWasTried
<1>7. fut' \in [Attempts -> FutRec] /\ SendersKnown'
  <2>1. [st |-> "queued", by |-> Ready.runner, blk |-> shape.blk, copy |-> 0] \in FutRec
    BY <1>1, BoundsAssumption DEF BoundsAssumption, FutRec, FutStates
  <2> QED BY <1>1, <1>4, <2>1, Typed DEF SendersKnown
<1>8. run' \in RunRec
  <2>1. [Ready EXCEPT !.runner = 0] \in RunRec
    BY <1>1 DEF RunRec
  <2> QED BY <1>1, <1>5, <2>1, TidyType
<1>9. KeepsSettled
  BY <1>2, <1>3 DEF KeepsSettled, TERMINAL
<1> QED BY <1>6, <1>7, <1>8, <1>9

LEMMA AdmitTypes ==
  ASSUME TypeInv, NEW e \in BOOLEAN, Admit(e), AdmitOnly, pc' \in PassStages,
         rs' \in {"none", "confirming", "admit"}
  PROVE  TypeInv' /\ KeepsSettled
<1> USE DEF TypeInv
<1>1. run' \in RunRec /\ row' \in [Rows -> RowRec] /\ fut' \in [Attempts -> FutRec] /\ SendersKnown' /\ OutWasTried'
      /\ KeepsSettled
  <2>1. CASE AdmitsNothing(e)
    BY <2>1, ReadyType, TidyType, Typed DEF AdmitsNothing, SendersKnown, OutWasTried, KeepsSettled
  <2>2. CASE FindsNoBlock(e)
    <3>1. (IF run.rt = "none" /\ shape.blk # 0 THEN [run EXCEPT !.rt = "current"] ELSE run) \in RunRec
      BY Typed DEF RunRec
    <3> QED BY <2>2, <3>1, TidyType, Typed DEF FindsNoBlock, SendersKnown, OutWasTried, KeepsSettled
  <2>3. CASE GatePauses(e)
    BY <2>3, ReadyType, TidyType, Typed DEF GatePauses, SendersKnown, OutWasTried, KeepsSettled
  <2>4. ASSUME NEW k \in 0..NumRows, Sends(e, k)
        PROVE  run' \in RunRec /\ row' \in [Rows -> RowRec] /\ fut' \in [Attempts -> FutRec] /\ SendersKnown'
               /\ OutWasTried' /\ KeepsSettled
    BY <2>4, SendsTypes
  <2> QED BY <2>1, <2>2, <2>3, <2>4 DEF Admit
<1>2. built' \in {0} \cup Runners
  BY ReadyType DEF TypeOK, Admit, AdmitsNothing, FindsNoBlock, GatePauses, Sends
<1>3. bstate' \in BatchStates /\ yes' \in SUBSET ({0} \cup Blocks)
  <2>1. Pause \/ GoOn
    BY DEF Admit, AdmitsNothing, FindsNoBlock, GatePauses, Sends
  <2> QED BY <2>1, PauseType
<1>4. TypeOK'
  BY <1>1, <1>2, <1>3, Typed, Retyped DEF AdmitOnly, TypeOK, SvcTypeOK, svcVars
<1> QED BY <1>1, <1>4

LEMMA PassEndTypes == ASSUME TypeInv, PassAdmits \/ PassFinds PROVE TypeInv' /\ KeepsSettled
<1> USE DEF TypeInv
<1>1. CASE PassAdmits
  <2>1. pc' \in PassStages /\ rs' \in {"none", "confirming", "admit"}
    BY <1>1 DEF PassAdmits, PassStages, TypeOK
  <2> QED BY <1>1, <2>1, AdmitTypes DEF PassAdmits
<1>2. CASE PassFinds
  <2>1. run' \in RunRec /\ built' \in {0} \cup Runners
    BY <1>2, ReadyType, TidyType DEF PassFinds
  <2>2. bstate' \in BatchStates /\ yes' \in SUBSET ({0} \cup Blocks) /\ pc' \in PassStages
    BY <1>2 DEF PassFinds, TypeOK, BatchStates, PassStages
  <2>3. TypeOK'
    BY <1>2, <2>1, <2>2, Typed, Retyped DEF PassFinds, AdmitOnly, TypeOK, SvcTypeOK, svcVars
  <2> QED BY <1>2, <2>3 DEF PassFinds, SendersKnown, OutWasTried, KeepsSettled
<1> QED BY <1>1, <1>2

-----------------------------------------------------------------------------
(* The user's calls.                                                       *)

LEMMA CallType == ASSUME TypeOK, NEW c, Call(c) PROVE calls' \in 0..MaxCalls
<1>1. MaxCalls \in Nat
  BY EngineAssumption, Zenon DEF EngineAssumption
<1> QED BY <1>1 DEF TypeOK, Call

(* A cancel settles nothing that is out, and cancels only the backlog.     *)
LEMMA ApplyCancelType ==
  ASSUME TypeInv, NEW mode, ApplyCancel(mode)
  PROVE  /\ bstate' \in BatchStates /\ yes' \in SUBSET ({0} \cup Blocks) /\ marker' \in BOOLEAN
         /\ row' \in [Rows -> RowRec] /\ OutWasTried' /\ KeepsSettled
<1> USE DEF TypeInv
<1>1. yes' = {}
  BY DEF ApplyCancel
<1>2. CASE mode = "drain"
  <2>1. bstate' = PauseOf(bstate) /\ UNCHANGED <<row, marker>>
    BY <1>2 DEF ApplyCancel
  <2> QED BY <1>1, <2>1, Typed DEF PauseOf, BatchStates, TypeOK, SvcTypeOK, OutWasTried, KeepsSettled
<1>3. CASE mode # "drain"
  <2> DEFINE out == InState({"in_flight", "submit_unknown"}) # {} \/ Open # {}
  <2>1. /\ bstate' = "cancelled"
        /\ row' = [r \in Rows |-> IF r \in Backlog THEN [row[r] EXCEPT !.st = "cancelled"] ELSE row[r]]
        /\ marker' \in {marker, marker \/ out}
    BY <1>3 DEF ApplyCancel
  <2>2. marker' \in BOOLEAN
    <3>1. marker \in BOOLEAN
      BY DEF TypeOK, SvcTypeOK
    <3> HIDE DEF out
    <3>2. CASE marker' = marker
      BY <3>1, <3>2
    <3>3. CASE marker' = (marker \/ out)
      BY <3>3, Zenon
    <3> QED BY <2>1, <3>2, <3>3
  <2>3. row' \in [Rows -> RowRec] /\ OutWasTried'
    BY <2>1, Typed DEF RowRec, RowStates, TERMINAL, HOLDING, OutWasTried
  <2>4. KeepsSettled
    BY <2>1 DEF KeepsSettled, Backlog, InState, TERMINAL
  <2> QED BY <1>1, <2>1, <2>2, <2>3, <2>4 DEF BatchStates
<1> QED BY <1>2, <1>3

LEMMA CancelTypes ==
  ASSUME TypeInv, NEW mode \in {"drain", "abort"}, RecordsCancel(mode) \/ Cancels(mode)
  PROVE  TypeInv' /\ KeepsSettled
<1> USE DEF TypeInv
<1>1. calls' \in 0..MaxCalls
  BY CallType DEF RecordsCancel, Cancels
<1>2. CASE RecordsCancel(mode)
  <2>1. cancelReq' = mode /\ UNCHANGED <<row, bstate, marker, pc, yes>> /\ CancelOnly
    BY <1>2, Zenon DEF RecordsCancel
  <2>2. TypeOK'
    BY <1>1, <2>1, Typed, Retyped DEF CancelOnly, TypeOK, SvcTypeOK
  <2> QED BY <2>1, <2>2 DEF CancelOnly, SendersKnown, OutWasTried, KeepsSettled
<1>3. CASE Cancels(mode)
  <2>1. TypeOK'
    BY <1>1, <1>3, ApplyCancelType, Typed, Retyped DEF Cancels, CancelOnly, TypeOK, SvcTypeOK
  <2> QED BY <1>3, <2>1, ApplyCancelType DEF Cancels, CancelOnly, SendersKnown
<1> QED BY <1>2, <1>3

LEMMA PassCancelsTypes == ASSUME TypeInv, PassCancels PROVE TypeInv' /\ KeepsSettled
<1> USE DEF TypeInv
<1>1. ApplyCancel(cancelReq) /\ CancelOnly /\ pc' \in PassStages
  BY DEF PassCancels, PassStages
<1>2. TypeOK'
  BY <1>1, ApplyCancelType, Typed, Retyped DEF PassCancels, CancelOnly, TypeOK, SvcTypeOK
<1> QED BY <1>1, <1>2, ApplyCancelType DEF CancelOnly, SendersKnown

LEMMA ConfirmedType ==
  ASSUME TypeOK, NEW n \in Confirmed
  PROVE  n \in Blocks /\ (Confirms(n) => shape' \in ShapeRec /\ blockUp' \in [Blocks -> {"none", "live", "ended"}])
<1>1. n \in Blocks
  BY Typed DEF Confirmed, StillUp, Fresh, Unused, ShapeRec
<1>2. ASSUME Confirms(n) PROVE shape' \in ShapeRec
  BY <1>1, <1>2 DEF Confirms, ShapeRec
<1>3. ASSUME Confirms(n) PROVE blockUp' \in [Blocks -> {"none", "live", "ended"}]
  BY <1>1, <1>3 DEF Confirms, TypeOK, SvcTypeOK
<1> QED BY <1>1, <1>2, <1>3

LEMMA ResumeTypes ==
  ASSUME TypeInv, ResumeStarts \/ ResumeAdmits \/ ResumeFails \/ \E n \in Blocks : ResumeAdmitsAgain(n)
  PROVE  TypeInv' /\ KeepsSettled
<1> USE DEF TypeInv
<1>1. CASE ResumeStarts
  <2>1. calls' \in 0..MaxCalls
    BY <1>1, CallType DEF ResumeStarts
  <2>2. TypeOK'
    BY <1>1, <2>1, Typed, Retyped DEF ResumeStarts, TypeOK, SvcTypeOK, svcVars, ledgerVars
  <2> QED BY <1>1, <2>2 DEF ResumeStarts, SendersKnown, OutWasTried, KeepsSettled, ledgerVars
<1>2. CASE ResumeAdmits
  BY <1>2, AdmitTypes DEF ResumeAdmits, TypeOK
<1>3. CASE ResumeFails
  <2>1. TypeOK'
    BY <1>3, Typed, Retyped DEF ResumeFails, TypeOK, SvcTypeOK, svcVars, ledgerVars
  <2> QED BY <1>3, <2>1 DEF ResumeFails, SendersKnown, OutWasTried, KeepsSettled, ledgerVars
<1>4. ASSUME NEW n \in Blocks, ResumeAdmitsAgain(n) PROVE TypeInv' /\ KeepsSettled
  <2> DEFINE newRun == run.rt # "current" \/ shape.blk = 0
  <2>1. shape' \in ShapeRec /\ blockUp' \in [Blocks -> {"none", "live", "ended"}]
    BY <1>4, ConfirmedType DEF ResumeAdmitsAgain
  <2>2. CASE newRun
    <3>1. built + 1 \in Runners
      <4>1. built < MaxRunners
        BY <1>4, <2>2 DEF ResumeAdmitsAgain
      <4>2. built \in {0} \cup 1..MaxRunners /\ MaxRunners \in Nat
        BY BoundsAssumption DEF BoundsAssumption, TypeOK, Runners
      <4> QED BY <4>1, <4>2 DEF Runners
    <3>2. run' = [run EXCEPT !.rt = "current", !.runner = built + 1, !.cfg = Config(n),
                             !.old = IF run.runner = 0 THEN run.old ELSE run.old \cup {run.runner},
                             !.job = n, !.synced = n]
      BY <1>4, <2>2 DEF ResumeAdmitsAgain
    <3>3. run' \in RunRec
      BY <3>1, <3>2, Typed, ConfigType DEF RunRec
    <3>4. built' \in {0} \cup Runners
      BY <1>4, <2>2, <3>1 DEF ResumeAdmitsAgain
    <3>5. pc' \in PassStages /\ mine' \in SUBSET Attempts /\ ids' \in SUBSET Tasks
      BY <1>4, <2>2 DEF ResumeAdmitsAgain, TypeOK, PassStages
    <3> QED BY <3>3, <3>4, <3>5, <1>4, <2>1, Typed, Retyped
            DEF ResumeAdmitsAgain, TypeOK, SvcTypeOK, BatchStates, SendersKnown, OutWasTried, KeepsSettled
  <2>3. CASE ~newRun
    BY <1>4, <2>1, <2>3, Typed, Retyped
    DEF ResumeAdmitsAgain, TypeOK, SvcTypeOK, BatchStates, SendersKnown, OutWasTried, KeepsSettled
  <2> QED BY <2>2, <2>3
<1> QED BY <1>1, <1>2, <1>3, <1>4

LEMMA ShapeTypes ==
  ASSUME TypeInv, FindsReaped \/ StopStarts \/ StopReleases \/ StopEnds \/ \E n \in Blocks : ConfirmsElsewhere(n)
  PROVE  TypeInv'
<1> USE DEF TypeInv
<1>1. CASE FindsReaped
  <2>1. shape' \in ShapeRec
    BY <1>1, Typed DEF FindsReaped, ShapeRec
  <2> QED BY <1>1, <2>1, Typed, Retyped DEF FindsReaped, ShapeOnly, TypeOK, SvcTypeOK, SendersKnown, OutWasTried
<1>2. Dropped => shape' \in ShapeRec /\ run' \in RunRec
  BY Typed DEF Dropped, ShapeRec, RunRec
<1>3. CASE StopStarts
  <2>1. calls' \in 0..MaxCalls
    BY <1>3, CallType DEF StopStarts
  <2>2. shape' \in ShapeRec /\ run' \in RunRec /\ stopping' \in {"no", "asked", "releasing"}
    BY <1>2, <1>3, Typed DEF StopStarts, TypeOK
  <2>3. retired' \in SUBSET Configs
    <3>1. shape.blk # 0 => Config(shape.blk) \in Configs
      BY Typed, ConfigType DEF ShapeRec
    <3> QED BY <1>3, <3>1 DEF StopStarts, TypeOK
  <2>4. bstate' \in BatchStates
    BY <1>3 DEF StopStarts, TypeOK, BatchStates
  <2> QED BY <1>3, <2>1, <2>2, <2>3, <2>4, Typed, Retyped
          DEF StopStarts, StopOnly, svcVars, TypeOK, SvcTypeOK, SendersKnown, OutWasTried
<1>4. CASE StopReleases
  <2>1. stopping' \in {"no", "asked", "releasing"}
    BY <1>4 DEF StopReleases
  <2> QED BY <1>4, <2>1, Typed, Retyped DEF StopReleases, StopOnly, svcVars, TypeOK, SvcTypeOK, SendersKnown, OutWasTried
<1>5. CASE StopEnds
  BY <1>2, <1>5, Typed, Retyped DEF StopEnds, StopOnly, svcVars, TypeOK, SvcTypeOK, SendersKnown, OutWasTried
<1>6. ASSUME NEW n \in Blocks, ConfirmsElsewhere(n) PROVE TypeInv'
  <2>1. shape' \in ShapeRec /\ blockUp' \in [Blocks -> {"none", "live", "ended"}]
    BY <1>6, ConfirmedType DEF ConfirmsElsewhere
  <2>2. calls' \in 0..MaxCalls
    BY <1>6, CallType DEF ConfirmsElsewhere
  <2> QED BY <1>6, <2>1, <2>2, Typed, Retyped DEF ConfirmsElsewhere, ShapeOnly, TypeOK, SvcTypeOK, SendersKnown, OutWasTried
<1> QED BY <1>1, <1>3, <1>4, <1>5, <1>6

-----------------------------------------------------------------------------
(* A crash, a takeover, and the theorem.                                   *)

LEMMA CrashTypes == ASSUME TypeInv, Crash \/ Adopt PROVE TypeInv'
<1> USE DEF TypeInv
<1>1. NoRun \in RunRec /\ [NoRun EXCEPT !.on = TRUE, !.adopted = TRUE] \in RunRec
  BY DEF NoRun, RunRec
<1>2. CASE Crash
  <2>1. crashes' \in 0..MaxCrashes
    <3>1. MaxCrashes \in Nat
      BY EngineAssumption, Zenon DEF EngineAssumption
    <3> QED BY <1>2, <3>1 DEF Crash, TypeOK
  <2>2. fut' = [a \in Attempts |-> NoFut] /\ shape' = [blk |-> 0, reaped |-> FALSE]
    BY <1>2 DEF Crash
  <2>3. fut' \in [Attempts -> FutRec] /\ SendersKnown' /\ shape' \in ShapeRec
    BY <2>2, NoFutType DEF SendersKnown, NoFut, ShapeRec
  <2>4. OutWasTried'
    BY <1>2 DEF Crash, OutWasTried, ledgerVars
  <2>5. TypeOK'
    BY <1>1, <1>2, <2>1, <2>3, Typed, Retyped DEF Crash, svcVars, ledgerVars, TypeOK, SvcTypeOK, PassStages
  <2> QED BY <2>3, <2>4, <2>5
<1>3. CASE Adopt
  <2>1. bstate' \in BatchStates
    BY <1>3 DEF Adopt, TypeOK, BatchStates
  <2> QED BY <1>1, <1>3, <2>1, Typed, Retyped DEF Adopt, svcVars, TypeOK, SvcTypeOK, SendersKnown, OutWasTried
<1> QED BY <1>2, <1>3

LEMMA ServiceTypeInv == TypeInv /\ ServiceStep => TypeInv'
BY ServiceTypes DEF TypeInv, ServiceStep, ledgerVars, memVars, SendersKnown, OutWasTried

LEMMA TypeInvStep == TypeInv /\ [Next]_vars => TypeInv' /\ KeepsSettled
<1> SUFFICES ASSUME TypeInv, [Next]_vars PROVE TypeInv' /\ KeepsSettled
  OBVIOUS
<1>0. row' = row => KeepsSettled
  BY DEF KeepsSettled
<1>1. CASE PassStep
  BY <1>1, CollectTypes, RestPullTypes, IdleTypes, SettleUnsentTypes, ReconcileTypes, PresumeTypes, EvidenceTypes,
     PassEndTypes, PassCancelsTypes
  DEF PassStep, Passed
<1>2. CASE SdkStep
  BY <1>0, <1>2, SdkTypes
  DEF SdkStep, PostAnswered, PostRetried, PostFails, ChannelQuits, SdkOnly, ledgerVars
<1>3. CASE UserStep
  <2>1. CASE \E mode \in {"drain", "abort"} : RecordsCancel(mode) \/ Cancels(mode)
    BY <2>1, CancelTypes
  <2>2. CASE ResumeStarts \/ ResumeAdmits \/ ResumeFails \/ \E n \in Blocks : ResumeAdmitsAgain(n)
    BY <2>2, ResumeTypes
  <2>3. CASE FindsReaped \/ StopStarts \/ StopReleases \/ StopEnds \/ \E n \in Blocks : ConfirmsElsewhere(n)
    <3>1. row' = row
      BY <2>3 DEF FindsReaped, StopStarts, StopReleases, StopEnds, ConfirmsElsewhere, ShapeOnly, StopOnly
    <3> QED BY <1>0, <2>3, <3>1, ShapeTypes
  <2> QED BY <1>3, <2>1, <2>2, <2>3 DEF UserStep
<1>4. CASE ServiceStep
  BY <1>0, <1>4, ServiceTypeInv DEF ServiceStep, ledgerVars
<1>5. CASE Crash \/ Adopt
  BY <1>0, <1>5, CrashTypes DEF Crash, Adopt, ledgerVars
<1>6. CASE UNCHANGED vars
  BY <1>0, <1>6 DEF vars, svcVars, ledgerVars, memVars, TypeInv, TypeOK, SvcTypeOK, SendersKnown, OutWasTried
<1> QED BY <1>1, <1>2, <1>3, <1>4, <1>5, <1>6 DEF Next

(* The state of the engine is well formed whatever the user, the service   *)
(* and the crashes do, for any number of rows, attempts, blocks, runners.  *)
THEOREM TypeCorrect == Spec => []TypeOK
<1>1. TypeInv => TypeOK
  BY DEF TypeInv
<1> QED BY <1>1, InitTypeInv, TypeInvStep, PTL DEF Spec

(* A row that settled (`Ledger.settle`) stays settled as it did, at its    *)
(* attempt, through every late answer, cancel, crash and readmission.      *)
THEOREM SettledStays == Spec => SettledSticks
<1>1. TypeInv /\ [Next]_vars => [KeepsSettled]_vars
  BY TypeInvStep
<1>2. Spec => [][KeepsSettled]_vars
  BY <1>1, InitTypeInv, TypeInvStep, PTL DEF Spec
<1> QED BY <1>2 DEF SettledSticks, KeepsSettled

-----------------------------------------------------------------------------
(* The user's yes.                                                         *)

LEMMA LearntKeeps ==
  ASSUME NEW r \in RunRec, NEW S, NEW x \in Learnt(r, S) PROVE x.on = r.on /\ x.adopted = r.adopted
<1>1. CASE S = {}
  BY <1>1 DEF Learnt
<1>2. CASE S # {}
  <2>1. PICK t \in S : x = [r EXCEPT !.job = svc[t].blk]
    BY <1>2 DEF Learnt
  <2> QED BY <2>1 DEF RunRec
<1> QED BY <1>1, <1>2

LEMMA TidyKeeps ==
  ASSUME NEW e, NEW r \in RunRec PROVE Tidy(e, r).on = r.on /\ Tidy(e, r).adopted = r.adopted
BY DEF Tidy, RunRec

LEMMA ReadyKeeps == ASSUME TypeInv PROVE Ready \in RunRec /\ Ready.on = run.on /\ Ready.adopted = run.adopted
<1>1. Ready \in RunRec
  BY ReadyType DEF TypeInv
<1>2. Ready.on = run.on /\ Ready.adopted = run.adopted
  <2>1. CASE ~Readies
    BY <2>1 DEF Ready
  <2>2. CASE Readies
    BY <2>2, Typed DEF Ready, TypeInv, RunRec
  <2> QED BY <2>1, <2>2
<1> QED BY <1>1, <1>2

(* What a batch admits on, and what a resume whose block is being          *)
(* confirmed will admit on.                                                *)
YesInv == /\ run.on /\ bstate = "admitting" => yes \ {0} # {}
          /\ rs = "confirming" => 0 \in yes

(* No cancel and no stop is applied while a resume's block is confirmed:   *)
(* one that is, ends with a batch that admits all the same (README, drain  *)
(* overtaken).                                                             *)
NotOvertaken == rs = "confirming" => ~PassCancels /\ ~StopStarts /\ \A mode \in {"drain", "abort"} : ~Cancels(mode)

(* A step that pauses, or leaves the batch as it is, keeps it.             *)
LEMMA PauseKeepsYes ==
  ASSUME YesInv, Pause \/ GoOn, rs' \in {rs, "none"}, run'.on = run.on
  PROVE  YesInv'
<1>1. CASE Pause
  <2>1. bstate' # "admitting" /\ yes' = yes \cap {0}
    BY <1>1 DEF Pause, PauseOf
  <2> QED BY <2>1 DEF YesInv
<1>2. CASE GoOn
  BY <1>2 DEF GoOn, YesInv
<1> QED BY <1>1, <1>2

LEMMA PassKeepsYes ==
  ASSUME TypeInv, YesInv,
         \/ \E D \in SUBSET DoneFutures : Collect(D)
         \/ RestPull \/ SkipLookup \/ PassFails \/ ReadGroups \/ SettleUnsent \/ Reconcile
         \/ \E P \in SUBSET Rows : Presume(P)
         \/ \E n \in Blocks : Evidence(n)
  PROVE  YesInv'
<1> USE DEF PassOnly
<1>1. ASSUME NEW D \in SUBSET DoneFutures, Collect(D) PROVE YesInv'
  <2> DEFINE lines == {FutTask(a) : a \in {x \in D : Outcome(x) \in WithLine}}
             quits == "broken" \in {Outcome(a) : a \in D} /\ run.runner # 0
             kept  == IF quits THEN [run EXCEPT !.old = @ \cup {run.runner}, !.runner = 0, !.cfg = 0] ELSE run
  <2>1. kept \in RunRec /\ kept.on = run.on
    BY Typed DEF TypeInv, RunRec
  <2>2. run' \in Learnt(kept, lines) /\ rs' = rs /\ (Pause \/ GoOn)
    BY <1>1 DEF Collect, Aftermath
  <2> HIDE DEF kept, lines
  <2>3. run'.on = run.on
    BY <2>1, <2>2, LearntKeeps
  <2> QED BY <2>2, <2>3, PauseKeepsYes
<1>2. CASE RestPull \/ SettleUnsent \/ Reconcile
  <2>1. rs' = rs /\ (Pause \/ GoOn) /\ \E S : run' \in Learnt(run, S)
    BY <1>2 DEF RestPull, SettleUnsent, Reconcile, Aftermath
  <2>2. run'.on = run.on
    BY <2>1, LearntKeeps, Typed DEF TypeInv
  <2> QED BY <2>1, <2>2, PauseKeepsYes
<1>3. CASE SkipLookup \/ PassFails \/ ReadGroups \/ \E P \in SUBSET Rows : Presume(P)
  <2>1. UNCHANGED <<bstate, yes, run, rs>>
    BY <1>3 DEF SkipLookup, PassFails, ReadGroups, Presume
  <2> QED BY <2>1 DEF YesInv
<1>4. ASSUME NEW n \in Blocks, Evidence(n) PROVE YesInv'
  BY <1>4, PauseKeepsYes DEF Evidence
<1> QED BY <1>1, <1>2, <1>3, <1>4

LEMMA AdmitKeepsYes ==
  ASSUME TypeInv, YesInv, NEW e \in BOOLEAN, Admit(e), rs' \in {rs, "none"}
  PROVE  YesInv'
<1>1. ASSUME NEW x \in RunRec, x.on = run.on, NEW d, run' = Tidy(d, x) PROVE run'.on = run.on
  BY <1>1, TidyKeeps
<1>2. run'.on = run.on
  <2>1. CASE AdmitsNothing(e)
    BY <1>1, <2>1, ReadyKeeps DEF AdmitsNothing
  <2>2. CASE FindsNoBlock(e)
    <3> DEFINE x == IF run.rt = "none" /\ shape.blk # 0 THEN [run EXCEPT !.rt = "current"] ELSE run
    <3>1. x \in RunRec /\ x.on = run.on
      BY Typed DEF TypeInv, RunRec
    <3>2. run' = Tidy(e, x)
      BY <2>2 DEF FindsNoBlock
    <3> HIDE DEF x
    <3> QED BY <1>1, <3>1, <3>2
  <2>3. CASE GatePauses(e)
    BY <1>1, <2>3, ReadyKeeps DEF GatePauses
  <2>4. ASSUME NEW k \in 0..NumRows, Sends(e, k) PROVE run'.on = run.on
    <3> DEFINE x    == [Ready EXCEPT !.runner = 0]
               sent == {r \in Reserved : Cardinality({q \in Reserved : q < r}) < k}
    <3>1. x \in RunRec /\ x.on = run.on
      BY ReadyKeeps DEF RunRec
    <3>2. run' = Tidy(e /\ sent = {}, IF sent = Reserved THEN Ready ELSE x)
      BY <2>4 DEF Sends
    <3> HIDE DEF x, sent
    <3> QED BY <1>1, <3>1, <3>2, ReadyKeeps
  <2> QED BY <2>1, <2>2, <2>3, <2>4 DEF Admit
<1>3. Pause \/ GoOn
  BY DEF Admit, AdmitsNothing, FindsNoBlock, GatePauses, Sends
<1> QED BY <1>2, <1>3, PauseKeepsYes

LEMMA CancelKeepsYes ==
  ASSUME YesInv, NEW mode, ApplyCancel(mode), rs' = rs, rs # "confirming"
  PROVE  YesInv'
<1>1. bstate' # "admitting"
  BY DEF ApplyCancel, PauseOf
<1> QED BY <1>1 DEF YesInv

LEMMA UserKeepsYes == ASSUME TypeInv, YesInv, NotOvertaken, UserStep PROVE YesInv'
<1>1. ASSUME NEW mode \in {"drain", "abort"}, Cancels(mode) PROVE YesInv'
  BY <1>1, CancelKeepsYes DEF Cancels, CancelOnly, NotOvertaken
<1>2. ASSUME NEW mode \in {"drain", "abort"}, RecordsCancel(mode) PROVE YesInv'
  <2>1. UNCHANGED <<bstate, yes, run, rs>>
    BY <1>2, Zenon DEF RecordsCancel, CancelOnly
  <2> QED BY <2>1 DEF YesInv
<1>3. CASE ResumeStarts
  <2>1. yes' = yes \cup {0} /\ UNCHANGED <<bstate, run>>
    BY <1>3 DEF ResumeStarts, ledgerVars
  <2> QED BY <2>1 DEF YesInv
<1>4. ASSUME NEW n \in Blocks, ResumeAdmitsAgain(n) PROVE YesInv'
  <2>1. yes' = {n} /\ rs' = "admit" /\ n # 0
    BY <1>4 DEF ResumeAdmitsAgain, YesInv, Blocks
  <2> QED BY <2>1 DEF YesInv
<1>5. CASE ResumeAdmits
  BY <1>5, AdmitKeepsYes DEF ResumeAdmits
<1>6. CASE ResumeFails
  <2>1. yes' = yes \ {0} /\ rs' = "none" /\ UNCHANGED <<bstate, run>>
    BY <1>6 DEF ResumeFails, ledgerVars
  <2> QED BY <2>1 DEF YesInv
<1>7. CASE FindsReaped \/ StopReleases \/ StopEnds \/ \E n \in Blocks : ConfirmsElsewhere(n)
  <2>1. UNCHANGED <<bstate, yes, rs>>
    BY <1>7 DEF FindsReaped, StopReleases, StopEnds, ConfirmsElsewhere, ShapeOnly, StopOnly
  <2>2. run'.on = run.on
    BY <1>7, Typed DEF FindsReaped, StopReleases, StopEnds, ConfirmsElsewhere, Dropped, TypeInv, RunRec
  <2> QED BY <2>1, <2>2 DEF YesInv
<1>8. CASE StopStarts
  <2>1. run'.on = run.on
    BY <1>8, Typed DEF StopStarts, Dropped, TypeInv, RunRec
  <2>2. run.on => bstate' # "admitting"
    BY <1>8 DEF StopStarts
  <2>3. rs' # "confirming"
    BY <1>8 DEF StopStarts, StopOnly, NotOvertaken
  <2> QED BY <2>1, <2>2, <2>3 DEF YesInv
<1> QED BY <1>1, <1>2, <1>3, <1>4, <1>5, <1>6, <1>7, <1>8 DEF UserStep

LEMMA YesStep == ASSUME TypeInv, YesInv, [Next /\ NotOvertaken]_vars PROVE YesInv'
<1>1. CASE PassStep /\ NotOvertaken
  <2>1. CASE PassAdmits
    BY <2>1, AdmitKeepsYes DEF PassAdmits
  <2>2. CASE PassFinds
    <3>1. bstate' # "admitting" /\ yes' = yes \cap {0} /\ rs' = rs
      BY <2>2 DEF PassFinds
    <3> QED BY <3>1 DEF YesInv
  <2>3. CASE PassCancels
    BY <1>1, <2>3, CancelKeepsYes DEF PassCancels, CancelOnly, NotOvertaken
  <2> QED BY <1>1, <2>1, <2>2, <2>3, PassKeepsYes DEF PassStep
<1>2. CASE UserStep /\ NotOvertaken
  BY <1>2, UserKeepsYes
<1>3. CASE SdkStep \/ ServiceStep \/ UNCHANGED vars
  <2>1. UNCHANGED <<bstate, yes, run, rs>>
    BY <1>3
    DEF SdkStep, PostAnswered, PostRetried, PostFails, ChannelQuits, SdkOnly, ServiceStep, ledgerVars, memVars, vars
  <2> QED BY <2>1 DEF YesInv
<1>4. CASE Crash
  <2>1. rs' = "none" /\ ~run'.on
    BY <1>4 DEF Crash, NoRun
  <2> QED BY <2>1 DEF YesInv
<1>5. CASE Adopt
  <2>1. bstate' # "admitting" /\ UNCHANGED <<yes, rs>>
    BY <1>5 DEF Adopt
  <2> QED BY <2>1 DEF YesInv
<1> QED BY <1>1, <1>2, <1>3, <1>4, <1>5 DEF Next

(* A batch that admits has a yes of the user that nothing has ended since: *)
(* no drain, abort, stop, pause or restart, in whatever order they came,   *)
(* as long as none is applied while the block of a resume is being        *)
(* confirmed.                                                              *)
THEOREM AdmitsOnYes == Spec /\ [][NotOvertaken]_vars => []AdmittingHasYes
<1>1. Init => YesInv
  <2> SUFFICES ASSUME Init PROVE YesInv
    OBVIOUS
  <2>1. yes = {1} /\ rs = "none"
    BY DEF Init
  <2> QED BY <2>1 DEF YesInv
<1>2. TypeInv /\ YesInv /\ [Next]_vars /\ [NotOvertaken]_vars => YesInv'
  BY YesStep
<1>3. YesInv => AdmittingHasYes
  BY DEF YesInv, AdmittingHasYes
<1> QED BY <1>1, <1>2, <1>3, InitTypeInv, TypeInvStep, PTL DEF Spec
=============================================================================
