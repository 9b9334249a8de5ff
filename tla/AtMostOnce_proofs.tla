------------------------- MODULE AtMostOnce_proofs -------------------------
(***************************************************************************)
(* Why a row that may not be run again starts its command at most once     *)
(* (AtMostOnce), for every number of rows, attempts, blocks, executors and *)
(* calls, on both kinds of endpoint, as long as no server dies and no POST *)
(* is retried.  Both conditions are needed: after a crash the successor    *)
(* may take a row that was sent for one never sent (ReturnedAsNeverSent);  *)
(* with a retried POST and a second block, the refusal of one copy returns *)
(* a row whose other copy runs (README).                                   *)
(*                                                                         *)
(* The argument.  A command can only start, or have started, for a row's   *)
(* current attempt while the row is out or settled, never while it waits   *)
(* in the backlog (OnlyCurrentRuns).  So a row must not return to the      *)
(* backlog unless its attempt ran nothing and never will; what returns it  *)
(* is a refusal or a node without a slot, of its own attempt's only task   *)
(* (a future follows the row's current attempt: FuturesAreOut).            *)
(***************************************************************************)
EXTENDS BatchEngine_proofs

(* No server died: the one that runs the batch has every future.           *)
NoneDied == crashes = 0 /\ run.on /\ ~run.adopted /\ pc # "settle"

(* What was sent was sent for an attempt the ledger knows; an attempt      *)
(* whose submit is still in the executor has no task.                      *)
SentIsKnown == \A t \in Tasks : svc[t].st # "none" => t[2] <= row[t[1]].att
QueuedIsNew == \A a \in Attempts : fut[a].st = "queued" => svc[Task(a, 1)].st = "none"

OnlyCurrentRuns ==
  \A t \in Tasks : (svc[t].st \in Pending \/ t \in started)
                     => t[2] = row[t[1]].att /\ row[t[1]].st # "backlog"
StartedIsSeen == \A t \in started : svc[t].st \in {"running", "ok", "bad", "noline", "marker", "lost"}

FutInv  == TypeInv /\ NoneDied /\ FuturesAreOut
OnceInv == FutInv /\ SentIsKnown /\ QueuedIsNew /\ OnlyCurrentRuns /\ StartedIsSeen

(* Facts about tuples.                                                     *)
LEMMA CurrentAttempt ==
  ASSUME NEW r \in Rows, NEW a \in Attempts
  PROVE  /\ a = Current(r) <=> a[1] = r /\ a[2] = row[r].att
         /\ Task(a, 1)[1] = a[1] /\ Task(a, 1)[2] = a[2] /\ Task(a, 1)[3] = 1
BY AttemptsAndTasks DEF Current, Task

LEMMA InitFut == Init => FutInv
<1>1. Init => NoneDied /\ FuturesAreOut
  BY DEF Init, NoneDied, FuturesAreOut, Open, NoFut, NoRun
<1> QED BY <1>1, InitTypeInv DEF FutInv

LEMMA InitOnce == Init => OnceInv
<1> SUFFICES ASSUME Init PROVE OnceInv
  OBVIOUS
<1>1. FutInv
  BY InitFut
<1>2. \A t \in Tasks : svc[t].st = "none" /\ t \notin started
  BY DEF Init, SvcInit, NoTask
<1>3. QueuedIsNew
  BY DEF Init, QueuedIsNew, NoFut
<1>4. started = {}
  BY DEF Init, SvcInit
<1> QED BY <1>1, <1>2, <1>3, <1>4 DEF OnceInv, SentIsKnown, OnlyCurrentRuns, StartedIsSeen, Pending

-----------------------------------------------------------------------------
(* The futures.                                                            *)

(* What the steps of a pass before admission do to rows and futures: a     *)
(* row whose future stays open is left as it is, or presumed lost.         *)
Follows == \A a \in Attempts : fut'[a].st # "none" => row'[a[1]].st \in {row[a[1]].st, "presumed_lost"}

LEMMA FollowsKeeps ==
  ASSUME FutInv, OnlyDrops, OnlySettles, Follows
  PROVE  FuturesAreOut'
<1> SUFFICES ASSUME NEW a \in Open' PROVE row'[a[1]].att = a[2] /\ row'[a[1]].st \in {"in_flight", "presumed_lost"}
  BY DEF FuturesAreOut
<1>1. a \in Attempts /\ fut'[a].st # "none"
  BY DEF Open
<1>2. a \in Open
  BY <1>1 DEF Open, OnlyDrops, NoFut
<1>3. row[a[1]].att = a[2] /\ row[a[1]].st \in {"in_flight", "presumed_lost"}
  BY <1>2 DEF FutInv, FuturesAreOut
<1>4. a[1] \in Rows
  BY <1>1, AttemptsAndTasks
<1>5. row'[a[1]].att = row[a[1]].att /\ row'[a[1]].st \in {row[a[1]].st, "presumed_lost"}
  BY <1>1, <1>4 DEF OnlySettles, Follows
<1> QED BY <1>3, <1>5

(* A row's attempt ran nothing, and has no task that still may.            *)
RanNothing(r) == \A t \in Tasks : t[1] = r /\ t[2] = row[r].att => svc[t].st \notin Pending /\ t \notin started

(* What they do to the rows of a batch that may not be run again.          *)
ReturnsClean == \A r \in Rows : row'[r].st = "backlog" => row[r].st = "backlog" \/ RanNothing(r)

LEMMA CleanKeeps ==
  ASSUME OnceInv, OnlyDrops, OnlySettles, ReturnsClean, UNCHANGED svcVars
  PROVE  SentIsKnown' /\ QueuedIsNew' /\ OnlyCurrentRuns' /\ StartedIsSeen'
<1> USE DEF OnceInv, svcVars
<1>1. SentIsKnown'
  BY AttemptsAndTasks DEF SentIsKnown, OnlySettles
<1>2. QueuedIsNew'
  <2> SUFFICES ASSUME NEW a \in Attempts, fut'[a].st = "queued" PROVE svc'[Task(a, 1)].st = "none"
    BY DEF QueuedIsNew
  <2>1. fut[a].st = "queued"
    BY DEF OnlyDrops, NoFut
  <2> QED BY <2>1 DEF QueuedIsNew
<1>3. OnlyCurrentRuns'
  BY AttemptsAndTasks DEF OnlyCurrentRuns, OnlySettles, ReturnsClean, RanNothing
<1>4. StartedIsSeen'
  BY DEF StartedIsSeen
<1> QED BY <1>1, <1>2, <1>3, <1>4

LEMMA PassOnGoes == ASSUME NEW k \in 1..6, PassOn(k) PROVE pc' # "settle"
<1>1. PICK j \in k..6 : pc' = Stages[j]
  BY DEF PassOn
<1>2. \A i \in 1..6 : Stages[i] # "settle"
  BY DEF Stages
<1> QED BY <1>1, <1>2

-----------------------------------------------------------------------------
(* Each step of a pass before admission: NoneDied, Follows, ReturnsClean.  *)

LEMMA OnEvidence == ASSUME ~Idempotent, NEW k, StateAfter(k) = "backlog" PROVE k \in {"busy", "refused"}
BY DEF StateAfter

(* A result that returns a row is the refusal of its attempt's only task.  *)
LEMMA CleanResult ==
  ASSUME TypeInv, StartedIsSeen, Copies = 1, ~Idempotent,
         NEW r \in Rows, NEW t \in Tasks, t[1] = r, t[2] = row[r].att,
         NEW rw \in RowRec, rw.st = row[r].st, SettleRow(rw, svc[t].st).st = "backlog"
  PROVE  row[r].st = "backlog" \/ RanNothing(r)
<1>1. CASE row[r].st = "backlog"
  BY <1>1
<1>2. CASE row[r].st # "backlog"
  <2>1. StateAfter(svc[t].st) = "backlog"
    BY <1>2, SettleRowKeeps
  <2>2. svc[t].st \in {"busy", "refused"}
    BY <2>1, OnEvidence
  <2>3. t \notin started
    BY <2>2 DEF StartedIsSeen
  <2>4. ASSUME NEW x \in Tasks, x[1] = r, x[2] = row[r].att PROVE x = t
    <3>1. x[3] = 1 /\ t[3] = 1
      BY AttemptsAndTasks
    <3>2. x = <<x[1], x[2], x[3]>> /\ t = <<t[1], t[2], t[3]>>
      BY AttemptsAndTasks
    <3> QED BY <2>4, <3>1, <3>2
  <2> QED BY <2>2, <2>3, <2>4 DEF RanNothing, Pending
<1> QED BY <1>1, <1>2

LEMMA CollectFollows == ASSUME FutInv, NEW D \in SUBSET DoneFutures, Collect(D) PROVE NoneDied' /\ Follows
<1> USE DEF FutInv
<1> DEFINE kinds == {Outcome(a) : a \in D}
           lines == {FutTask(a) : a \in {x \in D : Outcome(x) \in WithLine}}
           quits == "broken" \in kinds /\ run.runner # 0
           kept  == IF quits THEN [run EXCEPT !.old = @ \cup {run.runner}, !.runner = 0, !.cfg = 0] ELSE run
           rw(r) == [row[r] EXCEPT !.tid = LearntTid(r)]
<1>1. NoneDied'
  <2>1. kept \in RunRec /\ kept.on = run.on /\ kept.adopted = run.adopted
    BY Typed DEF TypeInv, RunRec
  <2>2. run' \in Learnt(kept, lines) /\ PassOn(1) /\ PassOnly
    BY DEF Collect
  <2> HIDE DEF kept, lines
  <2>3. run'.on = run.on /\ run'.adopted = run.adopted
    BY <2>1, <2>2, LearntKeeps
  <2>4. pc' # "settle"
    BY <2>2, PassOnGoes
  <2> QED BY <2>2, <2>3, <2>4 DEF NoneDied, PassOnly
<1>2. Follows
  <2> SUFFICES ASSUME NEW a \in Attempts, fut'[a].st # "none" PROVE row'[a[1]].st = row[a[1]].st
    BY DEF Follows
  <2>1. a \notin D /\ a \in Open
    BY DEF Collect, NoFut, Open
  <2>2. a[1] \in Rows /\ a = Current(a[1])
    BY <2>1, AttemptsAndTasks DEF FuturesAreOut, Current
  <2>3. row' = [r \in Rows |-> IF Current(r) \in D /\ Outcome(Current(r)) # "broken"
                               THEN SettleRow(rw(r), Outcome(Current(r))) ELSE rw(r)]
    BY DEF Collect
  <2>4. rw(a[1]).st = row[a[1]].st
    BY <2>2, Typed DEF TypeInv, RowRec
  <2> HIDE DEF rw
  <2> QED BY <2>1, <2>2, <2>3, <2>4
<1> QED BY <1>1, <1>2

LEMMA CollectClean ==
  ASSUME TypeInv, StartedIsSeen, Copies = 1, ~Idempotent, NEW D \in SUBSET DoneFutures, Collect(D) PROVE ReturnsClean
<1> DEFINE rw(r) == [row[r] EXCEPT !.tid = LearntTid(r)]
<1> SUFFICES ASSUME NEW r \in Rows, row'[r].st = "backlog" PROVE row[r].st = "backlog" \/ RanNothing(r)
  BY DEF ReturnsClean
<1>1. row'[r] = IF Current(r) \in D /\ Outcome(Current(r)) # "broken"
                THEN SettleRow(rw(r), Outcome(Current(r))) ELSE rw(r)
  BY DEF Collect
<1>2. rw(r) \in RowRec /\ rw(r).st = row[r].st
  BY Typed, LearntTidType DEF TypeInv, RowRec
<1> DEFINE a == Current(r)
<1>3. CASE a \in D /\ Outcome(a) # "broken"
  <2>1. a \in Attempts /\ a[1] = r /\ a[2] = row[r].att
    BY <1>3 DEF DoneFutures, Open, Current
  <2>2. CASE fut[a].st = "error"
    <3>1. Outcome(a) = "error"
      BY <2>2 DEF Outcome
    <3>2. SettleRow(rw(r), "error").st # "backlog" \/ row[r].st = "backlog"
      <4> HIDE DEF rw
      <4>1. StateAfter("error") # "backlog"
        BY OnEvidence
      <4>2. SettleRow(rw(r), "error").st \in {row[r].st, StateAfter("error")}
        BY <1>2, SettleRowKeeps
      <4> QED BY <4>1, <4>2
    <3> QED BY <1>1, <1>3, <3>1, <3>2
  <2>3. CASE fut[a].st = "sent"
    <3>1. FutTask(a) \in Tasks /\ FutTask(a)[1] = r /\ FutTask(a)[2] = row[r].att
      <4>1. fut[a].copy \in 1..Copies
        BY <2>1, <2>3 DEF TypeInv, SendersKnown
      <4> QED BY <2>1, <4>1, AttemptsAndTasks DEF FutTask, Task
    <3>2. Outcome(a) = svc[FutTask(a)].st
      BY <2>3 DEF Outcome
    <3> HIDE DEF rw, a
    <3> QED BY <1>1, <1>2, <1>3, <3>1, <3>2, CleanResult DEF a
  <2>4. fut[a].st \in {"error", "sent"}
    BY <1>3 DEF DoneFutures, Outcome
  <2> QED BY <2>2, <2>3, <2>4
<1>4. CASE ~(a \in D /\ Outcome(a) # "broken")
  BY <1>1, <1>2, <1>4
<1> QED BY <1>3, <1>4

LEMMA RestPullFollows == ASSUME FutInv, RestPull PROVE NoneDied' /\ Follows
<1> USE DEF FutInv
<1> DEFINE task(r) == Task(Current(r), row[r].tid)
           kind(r) == svc[task(r)].st
           S       == {r \in PullRows : kind(r) \in Settled}
<1>1. NoneDied'
  <2>1. run' \in Learnt(run, {task(r) : r \in {x \in S : kind(x) \in WithLine}}) /\ PassOn(2) /\ PassOnly
    BY DEF RestPull
  <2>2. run'.on = run.on /\ run'.adopted = run.adopted
    BY <2>1, LearntKeeps, Typed DEF TypeInv
  <2>3. pc' # "settle"
    BY <2>1, PassOnGoes
  <2> QED BY <2>1, <2>2, <2>3 DEF NoneDied, PassOnly
<1>2. Follows
  <2> SUFFICES ASSUME NEW a \in Attempts, fut'[a].st # "none" PROVE row'[a[1]].st = row[a[1]].st
    BY DEF Follows
  <2>1. a \in Open
    BY DEF RestPull, Open
  <2>2. a[1] \in Rows /\ a[1] \notin S
    BY <2>1, AttemptsAndTasks DEF PullRows
  <2> QED BY <2>2 DEF RestPull
<1> QED BY <1>1, <1>2

LEMMA RestPullClean == ASSUME TypeInv, StartedIsSeen, Copies = 1, ~Idempotent, RestPull PROVE ReturnsClean
<1> DEFINE task(r) == Task(Current(r), row[r].tid)
           kind(r) == svc[task(r)].st
           S       == {r \in PullRows : kind(r) \in Settled}
<1> SUFFICES ASSUME NEW r \in Rows, row'[r].st = "backlog" PROVE row[r].st = "backlog" \/ RanNothing(r)
  BY DEF ReturnsClean
<1>1. row'[r] = IF r \in S THEN SettleRow(row[r], kind(r)) ELSE row[r]
  BY DEF RestPull
<1>2. CASE r \in S
  <2>1. row[r].tid # 0 /\ row[r].st \in HOLDING
    BY <1>2 DEF PullRows, InState
  <2>2. row[r].tid \in 1..Copies /\ row[r].att \in 1..MaxAttempt
    BY <2>1, Typed, BoundsAssumption DEF TypeInv, RowRec, BoundsAssumption, OutWasTried
  <2>3. task(r) \in Tasks /\ task(r)[1] = r /\ task(r)[2] = row[r].att
    BY <2>2 DEF Task, Current, Tasks
  <2>4. row[r] \in RowRec /\ SettleRow(row[r], svc[task(r)].st).st = "backlog"
    BY <1>1, <1>2, Typed DEF TypeInv
  <2> HIDE DEF task, S
  <2> QED BY <2>3, <2>4, CleanResult
<1>3. CASE r \notin S
  BY <1>1, <1>3
<1> QED BY <1>2, <1>3

LEMMA IdleFollows == ASSUME FutInv, SkipLookup \/ PassFails \/ ReadGroups PROVE NoneDied' /\ Follows /\ ReturnsClean
<1> USE DEF FutInv
<1>1. ~ReadGroups
  BY DEF ReadGroups, Due, NoneDied
<1>2. pc' # "settle"
  <2>1. CASE SkipLookup
    BY <2>1, PassOnGoes DEF SkipLookup
  <2>2. CASE PassFails
    BY <2>2 DEF PassFails
  <2> QED BY <1>1, <2>1, <2>2
<1>3. /\ UNCHANGED <<row, fut, run>> /\ PassOnly
  BY <1>1 DEF SkipLookup, PassFails
<1>4. NoneDied'
  BY <1>2, <1>3 DEF NoneDied, PassOnly
<1>5. Follows /\ ReturnsClean
  BY <1>3 DEF Follows, ReturnsClean
<1> QED BY <1>4, <1>5

LEMMA ReconcileFollows == ASSUME FutInv, Reconcile PROVE NoneDied' /\ Follows
<1> USE DEF FutInv
<1>1. NoneDied'
  <2>1. run' \in Learnt(run, Naming(Listed \ Known, "submit_unknown")) /\ PassOn(4) /\ PassOnly
    BY DEF Reconcile
  <2>2. run'.on = run.on /\ run'.adopted = run.adopted
    BY <2>1, LearntKeeps, Typed DEF TypeInv
  <2>3. pc' # "settle"
    BY <2>1, PassOnGoes
  <2> QED BY <2>1, <2>2, <2>3 DEF NoneDied, PassOnly
<1>2. Follows
  <2> SUFFICES ASSUME NEW a \in Attempts, fut'[a].st # "none" PROVE row'[a[1]].st = row[a[1]].st
    BY DEF Follows
  <2>1. a \in Open
    BY DEF Reconcile, Open
  <2>2. a[1] \in Rows /\ row[a[1]].st # "submit_unknown"
    BY <2>1, AttemptsAndTasks DEF FuturesAreOut
  <2>3. ~ \E t \in Naming(Listed \ Known, "submit_unknown") : t[1] = a[1]
    BY <2>2 DEF Naming
  <2> QED BY <2>2, <2>3 DEF Reconcile
<1> QED BY <1>1, <1>2

LEMMA ReconcileClean == ASSUME TypeInv, StartedIsSeen, Copies = 1, ~Idempotent, Reconcile PROVE ReturnsClean
<1> DEFINE named == Naming(Listed \ Known, "submit_unknown")
<1> SUFFICES ASSUME NEW r \in Rows, row'[r].st = "backlog" PROVE row[r].st = "backlog" \/ RanNothing(r)
  BY DEF ReturnsClean
<1>1. row'[r] = IF \E t \in named : t[1] = r
                THEN LET t == CHOOSE t \in named : t[1] = r
                     IN  SettleRow([row[r] EXCEPT !.tid = t[3]], svc[t].st)
                ELSE row[r]
  BY DEF Reconcile
<1>2. CASE \E t \in named : t[1] = r
  <2> DEFINE t == CHOOSE t \in named : t[1] = r
  <2>1. t \in named /\ t[1] = r
    BY <1>2
  <2>2. row'[r] = SettleRow([row[r] EXCEPT !.tid = t[3]], svc[t].st)
    BY <1>1, <1>2
  <2> HIDE DEF t
  <2>3. t \in Tasks /\ t[2] = row[r].att
    BY <2>1 DEF Naming, Listed
  <2> DEFINE rw == [row[r] EXCEPT !.tid = t[3]]
  <2>4. rw \in RowRec /\ rw.st = row[r].st
    <3>1. t[3] \in 0..Copies
      BY <2>3, AttemptsAndTasks, BoundsAssumption DEF BoundsAssumption
    <3> QED BY <3>1, Typed DEF TypeInv, RowRec
  <2>5. SettleRow(rw, svc[t].st).st = "backlog"
    BY <2>2
  <2> HIDE DEF rw, named
  <2> QED BY <2>1, <2>3, <2>4, <2>5, CleanResult
<1>3. CASE ~ \E t \in named : t[1] = r
  BY <1>1, <1>3
<1> QED BY <1>2, <1>3

LEMMA PresumeFollows == ASSUME FutInv, NEW P, Presume(P) PROVE NoneDied' /\ Follows /\ ReturnsClean
<1> USE DEF FutInv
<1>1. pc' # "settle"
  BY PassOnGoes DEF Presume
<1>2. NoneDied'
  BY <1>1 DEF NoneDied, Presume, PassOnly
<1>3. \A r \in Rows : row'[r].st \in {row[r].st, "presumed_lost"}
  BY Typed DEF Presume, TypeInv, RowRec
<1> QED BY <1>2, <1>3, AttemptsAndTasks DEF Follows, ReturnsClean

LEMMA EvidenceFollows ==
  ASSUME FutInv, NEW n \in Blocks, Evidence(n)
  PROVE  NoneDied' /\ Follows /\ (~Idempotent => ReturnsClean)
<1> USE DEF FutInv
<1> DEFINE out == {r \in InState({"in_flight"}) : row[r].job = n}
<1>1. NoneDied'
  <2>1. pc' # "settle"
    BY PassOnGoes DEF Evidence
  <2> QED BY <2>1 DEF NoneDied, Evidence, PassOnly
<1>2. row' = [r \in Rows |-> IF r \in out THEN SettleRow(row[r], "lost") ELSE row[r]]
  BY DEF Evidence
<1>3. fut' = [a \in Attempts |-> IF \E r \in out : a = Current(r) THEN NoFut ELSE fut[a]]
  BY DEF Evidence
<1> HIDE DEF out
<1>4. Follows
  <2> SUFFICES ASSUME NEW a \in Attempts, fut'[a].st # "none" PROVE row'[a[1]].st = row[a[1]].st
    BY DEF Follows
  <2>1. a \in Open /\ ~ \E r \in out : a = Current(r)
    BY <1>3 DEF NoFut, Open
  <2>2. a[1] \in Rows /\ a = Current(a[1])
    BY <2>1, AttemptsAndTasks DEF FuturesAreOut, Current
  <2> QED BY <1>2, <2>1, <2>2
<1>5. ASSUME ~Idempotent PROVE ReturnsClean
  <2>1. StateAfter("lost") # "backlog"
    BY <1>5, OnEvidence
  <2> QED BY <1>2, <2>1, SettleRowKeeps, Typed DEF ReturnsClean, TypeInv
<1> QED BY <1>1, <1>4, <1>5

LEMMA UnsentNever == ASSUME FutInv PROVE ~SettleUnsent
BY DEF FutInv, NoneDied, SettleUnsent

-----------------------------------------------------------------------------
(* Admission: a row leaves the backlog with a new attempt.                 *)

SendInv == SentIsKnown /\ QueuedIsNew /\ OnlyCurrentRuns /\ StartedIsSeen

LEMMA SendsKeep ==
  ASSUME FutInv, NEW e \in BOOLEAN, NEW k \in 0..NumRows, Sends(e, k), UNCHANGED svcVars
  PROVE  /\ run'.on = run.on /\ run'.adopted = run.adopted
         /\ FuturesAreOut'
         /\ SendInv => SendInv'
<1> USE DEF FutInv
<1> DEFINE taken == Reserved
           sent  == {r \in taken : Cardinality({q \in taken : q < r}) < k}
<1>1. row' = [r \in Rows |->
                IF r \notin taken THEN row[r]
                ELSE [st |-> IF r \in sent THEN "in_flight" ELSE "backlog", att |-> row[r].att + 1, tid |-> 0,
                      job |-> IF r \in sent THEN Ready.job ELSE row[r].job]]
  BY DEF Sends
<1>2. \A r \in taken : r \in Rows /\ row[r].att \in Nat /\ row[r].st = "backlog"
  BY Typed DEF TypeInv, RowRec, Reserved, Backlog, InState
<1>3. fut' = [a \in Attempts |->
                IF a[1] \in sent /\ a[2] = row[a[1]].att + 1
                THEN [st |-> "queued", by |-> Ready.runner, blk |-> shape.blk, copy |-> 0]
                ELSE fut[a]]
  BY DEF Sends
<1>4. run' = Tidy(e /\ sent = {}, IF sent = taken THEN Ready ELSE [Ready EXCEPT !.runner = 0])
  BY DEF Sends
<1>5. sent \subseteq taken
  OBVIOUS
<1> HIDE DEF taken, sent
<1>6. run'.on = run.on /\ run'.adopted = run.adopted
  <2> DEFINE x == [Ready EXCEPT !.runner = 0]
  <2>1. x \in RunRec /\ x.on = run.on /\ x.adopted = run.adopted
    BY ReadyKeeps DEF RunRec
  <2> HIDE DEF x
  <2>2. run' = Tidy(e /\ sent = {}, IF sent = taken THEN Ready ELSE x)
    BY <1>4 DEF x
  <2> QED BY <2>1, <2>2, ReadyKeeps, TidyKeeps
<1>7. FuturesAreOut'
  <2> SUFFICES ASSUME NEW a \in Attempts, fut'[a].st # "none"
               PROVE  row'[a[1]].att = a[2] /\ row'[a[1]].st \in {"in_flight", "presumed_lost"}
    BY DEF FuturesAreOut, Open
  <2>1. a[1] \in Rows
    BY AttemptsAndTasks
  <2>2. CASE a[1] \in sent /\ a[2] = row[a[1]].att + 1
    BY <1>1, <1>5, <2>1, <2>2
  <2>3. CASE ~(a[1] \in sent /\ a[2] = row[a[1]].att + 1)
    <3>1. a \in Open
      BY <1>3, <2>3 DEF Open
    <3>2. row[a[1]].att = a[2] /\ row[a[1]].st \in {"in_flight", "presumed_lost"}
      BY <3>1 DEF FuturesAreOut
    <3> QED BY <1>1, <1>2, <2>1, <3>2
  <2> QED BY <2>2, <2>3
<1>8. ASSUME SendInv PROVE SendInv'
  <2>1. \A r \in Rows : /\ row[r].att <= row'[r].att
                        /\ row[r].st # "backlog" => row'[r] = row[r]
    BY <1>1, <1>2, Typed DEF TypeInv, RowRec
  <2>2. SentIsKnown'
    <3> SUFFICES ASSUME NEW t \in Tasks, svc[t].st # "none" PROVE t[2] <= row'[t[1]].att
      BY DEF SentIsKnown, svcVars
    <3>1. t[1] \in Rows /\ t[2] \in Nat /\ t[2] <= row[t[1]].att
      BY <1>8, AttemptsAndTasks DEF SendInv, SentIsKnown
    <3>2. row[t[1]].att \in Nat /\ row'[t[1]].att \in Nat
      BY <3>1, <1>1, <1>2, Typed DEF TypeInv, RowRec
    <3> QED BY <2>1, <3>1, <3>2
  <2>3. QueuedIsNew'
    <3> SUFFICES ASSUME NEW a \in Attempts, fut'[a].st = "queued" PROVE svc[Task(a, 1)].st = "none"
      BY DEF QueuedIsNew, svcVars
    <3>1. CASE a[1] \in sent /\ a[2] = row[a[1]].att + 1
      <4>1. Task(a, 1) \in Tasks /\ Task(a, 1)[1] = a[1] /\ Task(a, 1)[2] = a[2]
        BY AttemptsAndTasks, BoundsAssumption DEF Task, BoundsAssumption
      <4>2. row[a[1]].att \in Nat
        BY <1>2, <1>5, <3>1
      <4> QED BY <1>8, <3>1, <4>1, <4>2 DEF SendInv, SentIsKnown
    <3>2. CASE ~(a[1] \in sent /\ a[2] = row[a[1]].att + 1)
      BY <1>3, <1>8, <3>2 DEF SendInv, QueuedIsNew
    <3> QED BY <3>1, <3>2
  <2>4. OnlyCurrentRuns'
    BY <1>8, <2>1, AttemptsAndTasks DEF SendInv, OnlyCurrentRuns, svcVars
  <2>5. StartedIsSeen'
    BY <1>8 DEF SendInv, StartedIsSeen, svcVars
  <2> QED BY <2>2, <2>3, <2>4, <2>5 DEF SendInv
<1> QED BY <1>6, <1>7, <1>8

(* A step that leaves rows and futures as they are.                        *)
LEMMA StillKeeps ==
  ASSUME UNCHANGED <<row, fut>>
  PROVE  /\ FuturesAreOut => FuturesAreOut'
         /\ SendInv /\ svc' = svc /\ started' = started => SendInv'
BY DEF FuturesAreOut, Open, SendInv, SentIsKnown, QueuedIsNew, OnlyCurrentRuns, StartedIsSeen

LEMMA AdmitKeeps ==
  ASSUME FutInv, NEW e \in BOOLEAN, Admit(e), AdmitOnly, pc' # "settle"
  PROVE  NoneDied' /\ FuturesAreOut' /\ (SendInv => SendInv')
<1> USE DEF FutInv
<1>1. svc' = svc /\ started' = started /\ UNCHANGED svcVars /\ crashes' = crashes
  BY DEF AdmitOnly, svcVars
<1>2. run'.on = run.on /\ run'.adopted = run.adopted /\ FuturesAreOut' /\ (SendInv => SendInv')
  <2>1. CASE AdmitsNothing(e)
    <3>1. run' = Tidy(e, Ready) /\ UNCHANGED <<row, fut>>
      BY <2>1 DEF AdmitsNothing
    <3> QED BY <1>1, <3>1, ReadyKeeps, TidyKeeps, StillKeeps
  <2>2. CASE FindsNoBlock(e)
    <3> DEFINE x == IF run.rt = "none" /\ shape.blk # 0 THEN [run EXCEPT !.rt = "current"] ELSE run
    <3>1. x \in RunRec /\ x.on = run.on /\ x.adopted = run.adopted
      BY Typed DEF TypeInv, RunRec
    <3>2. run' = Tidy(e, x) /\ UNCHANGED <<row, fut>>
      BY <2>2 DEF FindsNoBlock
    <3> HIDE DEF x
    <3> QED BY <1>1, <3>1, <3>2, TidyKeeps, StillKeeps
  <2>3. CASE GatePauses(e)
    <3>1. run' = Tidy(e, Ready) /\ UNCHANGED <<row, fut>>
      BY <2>3 DEF GatePauses
    <3> QED BY <1>1, <3>1, ReadyKeeps, TidyKeeps, StillKeeps
  <2>4. ASSUME NEW k \in 0..NumRows, Sends(e, k)
        PROVE  run'.on = run.on /\ run'.adopted = run.adopted /\ FuturesAreOut' /\ (SendInv => SendInv')
    BY <1>1, <2>4, SendsKeep
  <2> QED BY <2>1, <2>2, <2>3, <2>4 DEF Admit
<1> QED BY <1>1, <1>2 DEF NoneDied

LEMMA PassEndKeeps ==
  ASSUME FutInv, PassAdmits \/ PassFinds PROVE NoneDied' /\ FuturesAreOut' /\ (SendInv => SendInv')
<1> USE DEF FutInv
<1>1. CASE PassAdmits
  BY <1>1, AdmitKeeps DEF PassAdmits
<1>2. CASE PassFinds
  <2>1. run' = Tidy(TRUE, Ready) /\ UNCHANGED <<row, fut>> /\ AdmitOnly /\ pc' = "idle"
    BY <1>2 DEF PassFinds
  <2>2. svc' = svc /\ started' = started /\ crashes' = crashes
    BY <2>1 DEF AdmitOnly, svcVars
  <2>3. run'.on = run.on /\ run'.adopted = run.adopted
    BY <2>1, ReadyKeeps, TidyKeeps
  <2> QED BY <2>1, <2>2, <2>3, StillKeeps DEF NoneDied
<1> QED BY <1>1, <1>2

-----------------------------------------------------------------------------
(* The user's calls: rows and futures stay, or the backlog is cancelled.   *)

LEMMA CancelKeeps ==
  ASSUME FutInv, NEW mode, ApplyCancel(mode), CancelOnly
  PROVE  FuturesAreOut' /\ (SendInv => SendInv')
<1> USE DEF FutInv
<1>1. svc' = svc /\ started' = started /\ fut' = fut
  BY DEF CancelOnly
<1>2. CASE mode = "drain"
  <2>1. row' = row
    BY <1>2 DEF ApplyCancel
  <2> QED BY <1>1, <2>1, StillKeeps
<1>3. CASE mode # "drain"
  <2>1. row' = [r \in Rows |-> IF r \in Backlog THEN [row[r] EXCEPT !.st = "cancelled"] ELSE row[r]]
    BY <1>3 DEF ApplyCancel
  <2>2. \A r \in Rows : /\ row'[r].att = row[r].att
                        /\ row'[r].st = "backlog" => row[r].st = "backlog"
                        /\ row[r].st # "backlog" => row'[r] = row[r]
    BY <2>1, Typed DEF TypeInv, RowRec, Backlog, InState
  <2>3. FuturesAreOut'
    BY <1>1, <2>2, AttemptsAndTasks DEF FuturesAreOut, Open
  <2>4. SendInv => SendInv'
    BY <1>1, <2>2, AttemptsAndTasks DEF SendInv, SentIsKnown, QueuedIsNew, OnlyCurrentRuns, StartedIsSeen
  <2> QED BY <2>3, <2>4
<1> QED BY <1>2, <1>3

LEMMA UserKeeps == ASSUME FutInv, UserStep \/ PassCancels PROVE NoneDied' /\ FuturesAreOut' /\ (SendInv => SendInv')
<1> USE DEF FutInv
<1>1. CASE PassCancels
  <2>1. ApplyCancel(cancelReq) /\ CancelOnly /\ pc' = "collect"
    BY <1>1 DEF PassCancels
  <2> QED BY <2>1, CancelKeeps DEF NoneDied, CancelOnly
<1>2. ASSUME NEW mode \in {"drain", "abort"}, Cancels(mode) PROVE NoneDied' /\ FuturesAreOut' /\ (SendInv => SendInv')
  <2>1. ApplyCancel(mode) /\ CancelOnly /\ pc' = pc
    BY <1>2 DEF Cancels
  <2> QED BY <2>1, CancelKeeps DEF NoneDied, CancelOnly
<1>3. ASSUME NEW mode \in {"drain", "abort"}, RecordsCancel(mode)
      PROVE NoneDied' /\ FuturesAreOut' /\ (SendInv => SendInv')
  <2>1. UNCHANGED <<row, bstate, marker, pc, yes>> /\ CancelOnly
    BY <1>3, Zenon DEF RecordsCancel
  <2> QED BY <2>1, StillKeeps DEF NoneDied, CancelOnly
<1>4. CASE ResumeAdmits
  BY <1>4, AdmitKeeps DEF ResumeAdmits, NoneDied
<1>5. CASE ResumeStarts \/ ResumeFails
  <2>1. UNCHANGED <<row, fut, run, crashes, pc, svc, started>>
    BY <1>5 DEF ResumeStarts, ResumeFails, svcVars, ledgerVars
  <2> QED BY <2>1, StillKeeps DEF NoneDied
<1>6. ASSUME NEW n \in Blocks, ResumeAdmitsAgain(n) PROVE NoneDied' /\ FuturesAreOut' /\ (SendInv => SendInv')
  <2>1. UNCHANGED <<row, fut, crashes, svc, started>> /\ pc' \in {pc, "idle"}
    BY <1>6 DEF ResumeAdmitsAgain
  <2>2. run'.on = run.on /\ run'.adopted = run.adopted
    BY <1>6, Typed DEF ResumeAdmitsAgain, TypeInv, RunRec
  <2> QED BY <2>1, <2>2, StillKeeps DEF NoneDied
<1>7. CASE FindsReaped \/ StopStarts \/ StopReleases \/ StopEnds \/ \E n \in Blocks : ConfirmsElsewhere(n)
  <2>1. UNCHANGED <<row, fut, crashes, svc, started, pc>>
    BY <1>7 DEF FindsReaped, StopStarts, StopReleases, StopEnds, ConfirmsElsewhere, ShapeOnly, StopOnly, svcVars
  <2>2. run'.on = run.on /\ run'.adopted = run.adopted
    BY <1>7, Typed
    DEF FindsReaped, StopStarts, StopReleases, StopEnds, ConfirmsElsewhere, ShapeOnly, Dropped, TypeInv, RunRec
  <2> QED BY <2>1, <2>2, StillKeeps DEF NoneDied
<1> QED BY <1>1, <1>2, <1>3, <1>4, <1>5, <1>6, <1>7 DEF UserStep

-----------------------------------------------------------------------------
(* The SDK posts an attempt once, for a row that is out.                   *)

LEMMA SdkFollows == ASSUME FutInv, SdkStep PROVE NoneDied' /\ FuturesAreOut'
<1> USE DEF FutInv
<1>1. PICK a \in Attempts : PostAnswered(a) \/ PostRetried(a) \/ PostFails(a) \/ ChannelQuits(a)
  BY DEF SdkStep
<1>2. SdkOnly
  BY <1>1 DEF PostAnswered, PostRetried, PostFails, ChannelQuits
<1>3. \A x \in Attempts : fut'[x].st # "none" => fut[x].st # "none"
  BY <1>1, Typed DEF PostAnswered, PostRetried, PostFails, ChannelQuits, TypeInv, FutRec
<1> QED BY <1>2, <1>3 DEF SdkOnly, ledgerVars, NoneDied, FuturesAreOut, Open

LEMMA SdkOnce == ASSUME OnceInv, Copies = 1, SdkStep PROVE SendInv'
<1> USE DEF OnceInv, FutInv
<1>1. PICK a \in Attempts : PostAnswered(a) \/ PostFails(a) \/ ChannelQuits(a)
  BY DEF SdkStep, PostRetried
<1>2. started' = started /\ row' = row
  BY <1>1 DEF PostAnswered, PostFails, ChannelQuits, SdkOnly, ledgerVars
<1> DEFINE T == Task(a, 1)
<1>3. T \in Tasks /\ T[1] = a[1] /\ T[2] = a[2]
  BY AttemptsAndTasks DEF Task
<1>4. \A x \in Attempts : fut'[x].st = "queued" => fut[x].st = "queued" /\ x # a
  BY <1>1, Typed DEF PostAnswered, PostFails, ChannelQuits, TypeInv, FutRec
<1>5. CASE svc' = svc
  BY <1>2, <1>4, <1>5 DEF SendInv, SentIsKnown, QueuedIsNew, OnlyCurrentRuns, StartedIsSeen
<1>6. CASE svc' # svc
  <2>1. fut[a].st = "queued"
    BY <1>1, <1>6 DEF PostAnswered, PostFails, ChannelQuits
  <2>2. PICK g : svc' = Posted(a, 1, g)
    BY <1>1, <1>6 DEF PostAnswered, PostFails, ChannelQuits
  <2>3. svc' = [svc EXCEPT ![T] = [st |-> "queued", blk |-> fut[a].blk, grp |-> g]]
    BY <2>2 DEF Posted
  <2>4. row[a[1]].att = a[2] /\ row[a[1]].st # "backlog"
    BY <2>1 DEF FuturesAreOut, Open
  <2>5. svc[T].st = "none"
    BY <2>1 DEF QueuedIsNew
  <2>6. T \notin started
    BY <2>5 DEF StartedIsSeen
  <2>7. /\ svc'[T].st = "queued"
        /\ \A x \in Tasks : x # T => svc'[x] = svc[x]
    BY <1>3, <2>3, Typed DEF TypeInv
  <2> HIDE DEF T
  <2>8. SentIsKnown'
    <3>1. row[a[1]].att \in Nat
      BY <1>3, AttemptsAndTasks, Typed DEF TypeInv, RowRec
    <3> QED BY <1>2, <1>3, <2>4, <2>7, <3>1 DEF SentIsKnown
  <2>9. QueuedIsNew'
    <3> SUFFICES ASSUME NEW x \in Attempts, fut'[x].st = "queued" PROVE svc'[Task(x, 1)].st = "none"
      BY DEF QueuedIsNew
    <3>1. x # a /\ svc[Task(x, 1)].st = "none"
      BY <1>4 DEF QueuedIsNew
    <3>2. Task(x, 1) \in Tasks /\ Task(x, 1) # T
      BY <3>1, AttemptsAndTasks DEF T, Task
    <3> QED BY <2>7, <3>1, <3>2
  <2>10. OnlyCurrentRuns'
    BY <1>2, <1>3, <2>4, <2>7 DEF OnlyCurrentRuns
  <2>11. StartedIsSeen'
    <3>1. started \subseteq Tasks
      BY DEF TypeInv, TypeOK, SvcTypeOK
    <3> QED BY <1>2, <2>6, <2>7, <3>1 DEF StartedIsSeen
  <2> QED BY <2>8, <2>9, <2>10, <2>11 DEF SendInv
<1> QED BY <1>5, <1>6

-----------------------------------------------------------------------------
(* The service and the wrapper: a task starts its command once.            *)

LEMMA ServiceOnce == ASSUME OnceInv, ServiceStep PROVE FutInv' /\ SendInv'
<1> USE DEF OnceInv, FutInv
<1>1. UNCHANGED <<row, fut, run, crashes, pc>>
  BY DEF ServiceStep, ledgerVars, memVars
<1>2. TypeInv' /\ NoneDied' /\ FuturesAreOut'
  BY <1>1, ServiceTypeInv, StillKeeps DEF NoneDied
<1>3. CASE \E n \in Blocks : BlockEnds(n)
  BY <1>1, <1>2, <1>3, StillKeeps DEF BlockEnds, SendInv
<1>4. ASSUME NEW t \in Tasks, OnNode(t) \/ ReportedLost(t) PROVE SendInv'
  <2>1. \E s \in TaskStates : /\ Moves(t, s)
                              /\ \/ started' = started /\ svc[t].st = "queued"
                                    /\ s \in {"refused", "dup", "marker", "busy", "lost"}
                                 \/ started' = started \cup {t} /\ svc[t].st = "queued" /\ s = "running"
                                 \/ started' = started /\ svc[t].st = "running" /\ s \in {"ok", "bad", "noline", "marker", "lost"}
    BY <1>4 DEF OnNode, GuardRefuses, FindsClaim, SeesMarker, FindsNoSlot, ClaimsAndEnds, StartsCommand, EndsCommand,
                ReportedLost, Reached, TaskStates, Settled, WithLine, Pending
  <2>2. PICK s \in TaskStates :
          /\ Moves(t, s)
          /\ \/ started' = started /\ svc[t].st = "queued" /\ s \in {"refused", "dup", "marker", "busy", "lost"}
             \/ started' = started \cup {t} /\ svc[t].st = "queued" /\ s = "running"
             \/ started' = started /\ svc[t].st = "running" /\ s \in {"ok", "bad", "noline", "marker", "lost"}
    BY <2>1
  <2>3. svc'[t].st = s /\ \A x \in Tasks : x # t => svc'[x] = svc[x]
    BY <2>2, Typed DEF Moves, TypeInv, SvcRec
  <2>4. svc[t].st \in Pending /\ svc[t].st # "none"
    BY <2>2 DEF Pending
  <2>5. SentIsKnown'
    BY <1>1, <2>3, <2>4 DEF SentIsKnown
  <2>6. QueuedIsNew'
    <3> SUFFICES ASSUME NEW x \in Attempts, fut[x].st = "queued" PROVE svc'[Task(x, 1)].st = "none"
      BY <1>1 DEF QueuedIsNew
    <3>0. 1 \in 1..Copies
      BY BoundsAssumption DEF BoundsAssumption
    <3>1. svc[Task(x, 1)].st = "none" /\ Task(x, 1) \in Tasks
      BY <3>0, AttemptsAndTasks DEF QueuedIsNew
    <3> QED BY <2>3, <2>4, <3>1
  <2>7. OnlyCurrentRuns'
    BY <1>1, <2>2, <2>3, <2>4 DEF OnlyCurrentRuns
  <2>8. StartedIsSeen'
    <3>1. started \subseteq Tasks
      BY DEF TypeInv, TypeOK, SvcTypeOK
    <3> QED BY <2>2, <2>3, <3>1 DEF StartedIsSeen
  <2> QED BY <2>5, <2>6, <2>7, <2>8 DEF SendInv
<1> QED BY <1>2, <1>3, <1>4 DEF ServiceStep, SvcNext

-----------------------------------------------------------------------------
(* The theorems.                                                           *)

LEMMA NoDeath == ASSUME MaxCrashes = 0, FutInv PROVE ~Crash /\ ~Adopt
BY DEF FutInv, NoneDied, Crash, Adopt

LEMMA FutStep == ASSUME MaxCrashes = 0, FutInv, [Next]_vars PROVE FutInv'
<1>1. TypeInv'
  BY TypeInvStep DEF FutInv
<1>2. ASSUME NoneDied', FuturesAreOut' PROVE FutInv'
  BY <1>1, <1>2 DEF FutInv
<1>3. CASE PassStep
  <2>1. ASSUME NEW D \in SUBSET DoneFutures, Collect(D) PROVE FutInv'
    BY <1>2, <2>1, CollectTypes, CollectFollows, FollowsKeeps DEF FutInv, Passed
  <2>2. CASE RestPull
    BY <1>2, <2>2, RestPullTypes, RestPullFollows, FollowsKeeps DEF FutInv, Passed
  <2>3. CASE SkipLookup \/ PassFails \/ ReadGroups
    BY <1>2, <2>3, IdleTypes, IdleFollows, FollowsKeeps DEF FutInv, Passed
  <2>4. CASE Reconcile
    BY <1>2, <2>4, ReconcileTypes, ReconcileFollows, FollowsKeeps DEF FutInv, Passed
  <2>5. ASSUME NEW P \in SUBSET Rows, Presume(P) PROVE FutInv'
    BY <1>2, <2>5, PresumeTypes, PresumeFollows, FollowsKeeps DEF FutInv, Passed
  <2>6. ASSUME NEW n \in Blocks, Evidence(n) PROVE FutInv'
    BY <1>2, <2>6, EvidenceTypes, EvidenceFollows, FollowsKeeps DEF FutInv, Passed
  <2>7. CASE PassAdmits \/ PassFinds
    BY <1>2, <2>7, PassEndKeeps
  <2>8. CASE PassCancels
    BY <1>2, <2>8, UserKeeps
  <2> QED BY <1>3, <2>1, <2>2, <2>3, <2>4, <2>5, <2>6, <2>7, <2>8, UnsentNever DEF PassStep
<1>4. CASE SdkStep
  BY <1>2, <1>4, SdkFollows
<1>5. CASE UserStep
  BY <1>2, <1>5, UserKeeps
<1>6. CASE ServiceStep
  <2>1. UNCHANGED <<row, fut, run, crashes, pc>>
    BY <1>6 DEF ServiceStep, ledgerVars, memVars
  <2> QED BY <1>2, <2>1, StillKeeps DEF FutInv, NoneDied
<1>7. CASE UNCHANGED vars
  <2>1. UNCHANGED <<row, fut, run, crashes, pc>>
    BY <1>7 DEF vars, ledgerVars, memVars
  <2> QED BY <1>2, <2>1, StillKeeps DEF FutInv, NoneDied
<1> QED BY <1>3, <1>4, <1>5, <1>6, <1>7, NoDeath DEF Next

(* As long as no server dies, the futures the server holds are of rows     *)
(* still out, at their current attempt, in every batch: no settlement,     *)
(* cancel or resume leaves one behind, and no retry overtakes it.          *)
THEOREM FuturesFollowRows ==
  ASSUME MaxCrashes = 0
  PROVE  Spec => []FuturesAreOut
<1>1. FutInv => FuturesAreOut
  BY DEF FutInv
<1>2. FutInv /\ [Next]_vars => FutInv'
  BY FutStep
<1> QED BY <1>1, <1>2, InitFut, PTL DEF Spec

LEMMA OnceStep == ASSUME MaxCrashes = 0, Copies = 1, ~Idempotent, OnceInv, [Next]_vars PROVE OnceInv'
<1> USE DEF OnceInv
<1>1. FutInv'
  BY FutStep
<1>2. ASSUME SendInv' PROVE OnceInv'
  BY <1>1, <1>2 DEF SendInv
<1>3. SendInv
  BY DEF SendInv
<1>4. ASSUME Passed, ReturnsClean, PassOnly PROVE OnceInv'
  BY <1>1, <1>4, CleanKeeps DEF Passed, PassOnly
<1>5. CASE PassStep
  <2>1. ASSUME NEW D \in SUBSET DoneFutures, Collect(D) PROVE OnceInv'
    BY <1>4, <2>1, CollectTypes, CollectClean DEF FutInv, Collect
  <2>2. CASE RestPull
    BY <1>4, <2>2, RestPullTypes, RestPullClean DEF FutInv, RestPull
  <2>3. CASE SkipLookup \/ PassFails \/ ReadGroups
    BY <1>4, <2>3, IdleTypes, IdleFollows DEF FutInv, SkipLookup, PassFails, ReadGroups
  <2>4. CASE Reconcile
    BY <1>4, <2>4, ReconcileTypes, ReconcileClean DEF FutInv, Reconcile
  <2>5. ASSUME NEW P \in SUBSET Rows, Presume(P) PROVE OnceInv'
    BY <1>4, <2>5, PresumeTypes, PresumeFollows DEF FutInv, Presume
  <2>6. ASSUME NEW n \in Blocks, Evidence(n) PROVE OnceInv'
    BY <1>4, <2>6, EvidenceTypes, EvidenceFollows DEF FutInv, Evidence
  <2>7. CASE PassAdmits \/ PassFinds
    BY <1>2, <1>3, <2>7, PassEndKeeps
  <2>8. CASE PassCancels
    BY <1>2, <1>3, <2>8, UserKeeps
  <2> QED BY <1>5, <2>1, <2>2, <2>3, <2>4, <2>5, <2>6, <2>7, <2>8, UnsentNever DEF PassStep
<1>6. CASE SdkStep
  BY <1>2, <1>6, SdkOnce
<1>7. CASE UserStep
  BY <1>2, <1>3, <1>7, UserKeeps
<1>8. CASE ServiceStep
  BY <1>2, <1>8, ServiceOnce
<1>9. CASE UNCHANGED vars
  <2>1. UNCHANGED <<row, fut, svc, started>>
    BY <1>9 DEF vars, ledgerVars, memVars, svcVars
  <2> QED BY <1>2, <1>3, <2>1, StillKeeps
<1> QED BY <1>5, <1>6, <1>7, <1>8, <1>9, NoDeath DEF Next

LEMMA OnceImplies == ASSUME Copies = 1, OnceInv PROVE AtMostOnce
<1> SUFFICES ASSUME NEW r \in Rows PROVE Cardinality(Starts(r)) <= 1
  BY DEF AtMostOnce
<1> DEFINE t == <<r, row[r].att, 1>>
<1>1. Starts(r) \subseteq {t}
  <2> SUFFICES ASSUME NEW x \in started, x[1] = r PROVE x = t
    BY DEF Starts
  <2>1. x \in Tasks
    BY DEF OnceInv, FutInv, TypeInv, TypeOK, SvcTypeOK
  <2>2. x[2] = row[r].att
    BY <2>1 DEF OnceInv, OnlyCurrentRuns
  <2>3. x[3] = 1 /\ x = <<x[1], x[2], x[3]>>
    BY <2>1, AttemptsAndTasks
  <2> QED BY <2>2, <2>3
<1>2. IsFiniteSet({t}) /\ Cardinality({t}) = 1
  BY FS_Singleton
<1>3. Cardinality(Starts(r)) <= Cardinality({t})
  BY <1>1, <1>2, FS_Subset
<1> QED BY <1>2, <1>3

(* A row that may not be run again starts its command at most once, over   *)
(* every attempt, as long as no server dies and no POST is retried:        *)
(* whatever is presumed, refused, lost, cancelled, resumed or stopped, and *)
(* however many blocks and executors the batch goes through.               *)
THEOREM RunsAtMostOnce ==
  ASSUME MaxCrashes = 0, Copies = 1
  PROVE  Spec => []AtMostOnce
<1>1. CASE Idempotent
  <2>1. AtMostOnce
    BY <1>1 DEF AtMostOnce
  <2> QED BY <2>1, PTL
<1>2. CASE ~Idempotent
  <2>1. Init => OnceInv
    BY InitOnce
  <2>2. OnceInv /\ [Next]_vars => OnceInv'
    BY <1>2, OnceStep
  <2>3. OnceInv => AtMostOnce
    BY OnceImplies
  <2> QED BY <2>1, <2>2, <2>3, PTL DEF Spec
<1>3. Idempotent \in BOOLEAN
  BY EngineAssumption, Zenon DEF EngineAssumption
<1> QED BY <1>1, <1>2, <1>3

-----------------------------------------------------------------------------
(* What returns a row that may have started, in a system whose servers die.*)

(* A future is of an attempt the ledger knows.                             *)
FutureIsKnown == \A a \in Open : a[2] <= row[a[1]].att
SeenInv == TypeInv /\ FutureIsKnown /\ SentIsKnown /\ QueuedIsNew /\ StartedIsSeen

(* A row that may not be run again returns only if its attempt never       *)
(* started.                                                                *)
ReturnsUnstarted ==
  \A r \in Rows : row[r].st \in HOLDING /\ row'[r].st = "backlog" => \A t \in Starts(r) : t[2] # row[r].att

(* A step that sends nothing, and lowers no row's attempt.                 *)
SendsNone ==
  /\ UNCHANGED <<svc, started>>
  /\ \A a \in Attempts : /\ fut'[a].st # "none" => fut[a].st # "none"
                         /\ fut'[a].st = "queued" => fut[a].st = "queued"
  /\ \A r \in Rows : row[r].att <= row'[r].att

LEMMA SendsNoneKeeps == ASSUME SeenInv, TypeInv', SendsNone PROVE SeenInv'
<1> USE DEF SeenInv, SendsNone
<1>1. \A r \in Rows : row[r].att \in Nat /\ row'[r].att \in Nat
  BY Typed DEF TypeInv, TypeOK, RowRec
<1>2. \A a \in Attempts : a[1] \in Rows /\ a[2] \in Nat
  BY AttemptsAndTasks
<1>3. \A t \in Tasks : t[1] \in Rows /\ t[2] \in Nat
  BY AttemptsAndTasks
<1>4. FutureIsKnown'
  BY <1>1, <1>2 DEF FutureIsKnown, Open
<1>5. SentIsKnown'
  BY <1>1, <1>3 DEF SentIsKnown
<1>6. QueuedIsNew' /\ StartedIsSeen'
  BY DEF QueuedIsNew, StartedIsSeen
<1> QED BY <1>4, <1>5, <1>6

LEMMA PassedSendsNone == ASSUME TypeInv, Passed, PassOnly PROVE SendsNone
<1>1. UNCHANGED <<svc, started>>
  BY DEF PassOnly, svcVars
<1>2. \A r \in Rows : row[r].att \in Nat /\ row'[r].att = row[r].att
  BY Typed DEF TypeInv, RowRec, Passed, OnlySettles
<1> QED BY <1>1, <1>2 DEF SendsNone, Passed, OnlyDrops, NoFut

LEMMA StillSendsNone ==
  ASSUME TypeInv, UNCHANGED <<svc, started, row>>, fut' = fut \/ fut' = [a \in Attempts |-> NoFut]
  PROVE  SendsNone /\ ReturnsUnstarted
<1>1. \A r \in Rows : row[r].att \in Nat
  BY Typed DEF TypeInv, RowRec
<1>2. SendsNone
  BY <1>1 DEF SendsNone, NoFut
<1>3. ReturnsUnstarted
  BY DEF ReturnsUnstarted, HOLDING
<1> QED BY <1>2, <1>3

LEMMA CleanReturns == ASSUME TypeInv, ReturnsClean PROVE ReturnsUnstarted
<1> SUFFICES ASSUME NEW r \in Rows, row[r].st \in HOLDING, row'[r].st = "backlog", NEW t \in started, t[1] = r
             PROVE  t[2] # row[r].att
  BY DEF ReturnsUnstarted, Starts
<1>1. t \in Tasks
  BY DEF TypeInv, TypeOK, SvcTypeOK
<1>2. RanNothing(r)
  BY DEF ReturnsClean, HOLDING
<1> QED BY <1>1, <1>2 DEF RanNothing

LEMMA PassReturns ==
  ASSUME SeenInv, Copies = 1, ~Idempotent, PassStep, ~PassAdmits, ~PassFinds, ~PassCancels
  PROVE  SendsNone /\ (pc # "settle" => ReturnsUnstarted)
<1> USE DEF SeenInv
<1>1. ASSUME NEW D \in SUBSET DoneFutures, Collect(D) PROVE SendsNone /\ ReturnsUnstarted
  <2>1. ReturnsClean /\ Passed /\ PassOnly
    BY <1>1, CollectClean, CollectTypes DEF Collect
  <2> QED BY <2>1, PassedSendsNone, CleanReturns
<1>2. CASE RestPull
  <2>1. ReturnsClean /\ Passed /\ PassOnly
    BY <1>2, RestPullClean, RestPullTypes DEF RestPull
  <2> QED BY <2>1, PassedSendsNone, CleanReturns
<1>3. CASE SkipLookup \/ PassFails \/ ReadGroups
  <2>1. UNCHANGED <<svc, started, row, fut>>
    BY <1>3 DEF SkipLookup, PassFails, ReadGroups, PassOnly, svcVars
  <2> QED BY <2>1, StillSendsNone
<1>4. CASE SettleUnsent
  <2>1. Passed /\ PassOnly /\ pc = "settle"
    BY <1>4, SettleUnsentTypes DEF SettleUnsent
  <2> QED BY <2>1, PassedSendsNone
<1>5. CASE Reconcile
  <2>1. ReturnsClean /\ Passed /\ PassOnly
    BY <1>5, ReconcileClean, ReconcileTypes DEF Reconcile
  <2> QED BY <2>1, PassedSendsNone, CleanReturns
<1>6. ASSUME NEW P \in SUBSET Rows, Presume(P) PROVE SendsNone /\ ReturnsUnstarted
  <2>1. Passed /\ PassOnly
    BY <1>6, PresumeTypes DEF Presume
  <2>2. \A r \in Rows : row'[r].st \in {row[r].st, "presumed_lost"}
    BY <1>6, Typed DEF Presume, TypeInv, RowRec
  <2>3. ReturnsClean
    BY <2>2 DEF ReturnsClean
  <2> QED BY <2>1, <2>3, PassedSendsNone, CleanReturns
<1>7. ASSUME NEW n \in Blocks, Evidence(n) PROVE SendsNone /\ ReturnsUnstarted
  <2> DEFINE out == {r \in InState({"in_flight"}) : row[r].job = n}
  <2>1. Passed /\ PassOnly
    BY <1>7, EvidenceTypes DEF Evidence
  <2>2. row' = [r \in Rows |-> IF r \in out THEN SettleRow(row[r], "lost") ELSE row[r]]
    BY <1>7 DEF Evidence
  <2>3. StateAfter("lost") # "backlog"
    BY OnEvidence
  <2> HIDE DEF out
  <2>4. ReturnsClean
    BY <2>2, <2>3, SettleRowKeeps, Typed DEF ReturnsClean, TypeInv
  <2> QED BY <2>1, <2>4, PassedSendsNone, CleanReturns
<1> QED BY <1>1, <1>2, <1>3, <1>4, <1>5, <1>6, <1>7 DEF PassStep

(* Admission sends rows of the backlog, each as a new attempt.             *)
LEMMA SendsSeen ==
  ASSUME SeenInv, TypeInv', NEW e \in BOOLEAN, NEW k \in 0..NumRows, Sends(e, k), UNCHANGED <<svc, started>>
  PROVE  SeenInv' /\ ReturnsUnstarted
<1> USE DEF SeenInv
<1> DEFINE taken == Reserved
           sent  == {r \in taken : Cardinality({q \in taken : q < r}) < k}
<1>1. row' = [r \in Rows |->
                IF r \notin taken THEN row[r]
                ELSE [st |-> IF r \in sent THEN "in_flight" ELSE "backlog", att |-> row[r].att + 1, tid |-> 0,
                      job |-> IF r \in sent THEN Ready.job ELSE row[r].job]]
  BY DEF Sends
<1>2. \A r \in taken : r \in Rows /\ row[r].att \in Nat /\ row[r].st = "backlog"
  BY Typed DEF TypeInv, RowRec, Reserved, Backlog, InState
<1>3. fut' = [a \in Attempts |->
                IF a[1] \in sent /\ a[2] = row[a[1]].att + 1
                THEN [st |-> "queued", by |-> Ready.runner, blk |-> shape.blk, copy |-> 0]
                ELSE fut[a]]
  BY DEF Sends
<1>4. sent \subseteq taken
  OBVIOUS
<1> HIDE DEF taken, sent
<1>5. \A r \in Rows : row[r].att \in Nat /\ row'[r].att \in Nat /\ row[r].att <= row'[r].att
  BY <1>1, <1>2, Typed DEF TypeInv, RowRec
<1>6. \A a \in Attempts : a[1] \in Rows /\ a[2] \in Nat
  BY AttemptsAndTasks
<1>7. FutureIsKnown'
  <2> SUFFICES ASSUME NEW a \in Attempts, fut'[a].st # "none" PROVE a[2] <= row'[a[1]].att
    BY DEF FutureIsKnown, Open
  <2>1. CASE a[1] \in sent /\ a[2] = row[a[1]].att + 1
    BY <1>1, <1>4, <1>6, <2>1, <1>5
  <2>2. CASE ~(a[1] \in sent /\ a[2] = row[a[1]].att + 1)
    <3>1. a[2] <= row[a[1]].att
      BY <1>3, <2>2 DEF FutureIsKnown, Open
    <3> QED BY <1>5, <1>6, <3>1
  <2> QED BY <2>1, <2>2
<1>8. SentIsKnown'
  <2> SUFFICES ASSUME NEW t \in Tasks, svc[t].st # "none" PROVE t[2] <= row'[t[1]].att
    BY DEF SentIsKnown
  <2>1. t[1] \in Rows /\ t[2] \in Nat /\ t[2] <= row[t[1]].att
    BY AttemptsAndTasks DEF SentIsKnown
  <2> QED BY <1>5, <2>1
<1>9. QueuedIsNew'
  <2> SUFFICES ASSUME NEW a \in Attempts, fut'[a].st = "queued" PROVE svc[Task(a, 1)].st = "none"
    BY DEF QueuedIsNew
  <2>1. CASE a[1] \in sent /\ a[2] = row[a[1]].att + 1
    <3>1. Task(a, 1) \in Tasks /\ Task(a, 1)[1] = a[1] /\ Task(a, 1)[2] = a[2]
      BY AttemptsAndTasks, BoundsAssumption DEF Task, BoundsAssumption
    <3>2. row[a[1]].att \in Nat
      BY <1>2, <1>4, <2>1
    <3> QED BY <2>1, <3>1, <3>2 DEF SentIsKnown
  <2>2. CASE ~(a[1] \in sent /\ a[2] = row[a[1]].att + 1)
    BY <1>3, <2>2 DEF QueuedIsNew
  <2> QED BY <2>1, <2>2
<1>10. StartedIsSeen'
  BY DEF StartedIsSeen
<1>11. ReturnsUnstarted
  BY <1>1, <1>2 DEF ReturnsUnstarted, HOLDING
<1> QED BY <1>7, <1>8, <1>9, <1>10, <1>11

LEMMA AdmitSeen ==
  ASSUME SeenInv, TypeInv', NEW e \in BOOLEAN, Admit(e), UNCHANGED <<svc, started>>
  PROVE  SeenInv' /\ ReturnsUnstarted
<1>1. CASE AdmitsNothing(e) \/ FindsNoBlock(e) \/ GatePauses(e)
  <2>1. UNCHANGED <<row, fut>>
    BY <1>1 DEF AdmitsNothing, FindsNoBlock, GatePauses
  <2> QED BY <2>1, StillSendsNone, SendsNoneKeeps DEF SeenInv
<1>2. ASSUME NEW k \in 0..NumRows, Sends(e, k) PROVE SeenInv' /\ ReturnsUnstarted
  BY <1>2, SendsSeen
<1> QED BY <1>1, <1>2 DEF Admit

LEMMA CancelSeen ==
  ASSUME SeenInv, TypeInv', NEW mode, ApplyCancel(mode), CancelOnly
  PROVE  SeenInv' /\ ReturnsUnstarted
<1>1. svc' = svc /\ started' = started /\ fut' = fut
  BY DEF CancelOnly
<1>2. CASE mode = "drain"
  <2>1. row' = row
    BY <1>2 DEF ApplyCancel
  <2> QED BY <1>1, <2>1, StillSendsNone, SendsNoneKeeps DEF SeenInv
<1>3. CASE mode # "drain"
  <2>1. row' = [r \in Rows |-> IF r \in Backlog THEN [row[r] EXCEPT !.st = "cancelled"] ELSE row[r]]
    BY <1>3 DEF ApplyCancel
  <2>2. \A r \in Rows : /\ row'[r].att = row[r].att /\ row[r].att \in Nat
                        /\ row'[r].st = "backlog" => row[r].st = "backlog"
    BY <2>1, Typed DEF TypeInv, RowRec, Backlog, InState, SeenInv
  <2>3. SendsNone
    BY <1>1, <2>2 DEF SendsNone
  <2>4. ReturnsUnstarted
    BY <2>2 DEF ReturnsUnstarted, HOLDING
  <2> QED BY <2>3, <2>4, SendsNoneKeeps
<1> QED BY <1>2, <1>3

LEMMA UserSeen == ASSUME SeenInv, TypeInv', UserStep \/ PassCancels PROVE SeenInv' /\ ReturnsUnstarted
<1>1. CASE PassCancels
  <2>1. ApplyCancel(cancelReq) /\ CancelOnly
    BY <1>1 DEF PassCancels
  <2> QED BY <2>1, CancelSeen
<1>2. ASSUME NEW mode \in {"drain", "abort"}, Cancels(mode) PROVE SeenInv' /\ ReturnsUnstarted
  <2>1. ApplyCancel(mode) /\ CancelOnly
    BY <1>2 DEF Cancels
  <2> QED BY <2>1, CancelSeen
<1>3. CASE ResumeAdmits
  <2>1. UNCHANGED <<svc, started>>
    BY <1>3 DEF ResumeAdmits, AdmitOnly, svcVars
  <2> QED BY <1>3, <2>1, AdmitSeen DEF ResumeAdmits
<1>4. ASSUME UNCHANGED <<svc, started, row, fut>> PROVE SeenInv' /\ ReturnsUnstarted
  BY <1>4, StillSendsNone, SendsNoneKeeps DEF SeenInv
<1>5. ASSUME NEW mode \in {"drain", "abort"}, RecordsCancel(mode) PROVE UNCHANGED <<svc, started, row, fut>>
  BY <1>5, Zenon DEF RecordsCancel, CancelOnly
<1>6. ASSUME NEW n \in Blocks, ResumeAdmitsAgain(n) \/ ConfirmsElsewhere(n) PROVE UNCHANGED <<svc, started, row, fut>>
  BY <1>6 DEF ResumeAdmitsAgain, ConfirmsElsewhere, ShapeOnly
<1>7. CASE ResumeStarts \/ ResumeFails \/ FindsReaped \/ StopStarts \/ StopReleases \/ StopEnds
  <2>1. UNCHANGED <<svc, started, row, fut>>
    BY <1>7 DEF ResumeStarts, ResumeFails, FindsReaped, StopStarts, StopReleases, StopEnds, ShapeOnly, StopOnly, svcVars,
                ledgerVars
  <2> QED BY <1>4, <2>1
<1> QED BY <1>1, <1>2, <1>3, <1>4, <1>5, <1>6, <1>7 DEF UserStep

LEMMA SdkSeen == ASSUME SeenInv, TypeInv', Copies = 1, SdkStep PROVE SeenInv' /\ ReturnsUnstarted
<1> USE DEF SeenInv
<1>1. PICK a \in Attempts : PostAnswered(a) \/ PostFails(a) \/ ChannelQuits(a)
  BY DEF SdkStep, PostRetried
<1>2. started' = started /\ row' = row
  BY <1>1 DEF PostAnswered, PostFails, ChannelQuits, SdkOnly, ledgerVars
<1> DEFINE T == Task(a, 1)
<1>3. T \in Tasks /\ T[1] = a[1] /\ T[2] = a[2]
  BY AttemptsAndTasks DEF Task
<1>4. \A x \in Attempts : /\ fut'[x].st = "queued" => fut[x].st = "queued" /\ x # a
                          /\ fut'[x].st # "none" => fut[x].st # "none"
  BY <1>1, Typed DEF PostAnswered, PostFails, ChannelQuits, TypeInv, FutRec
<1>5. FutureIsKnown'
  BY <1>2, <1>4 DEF FutureIsKnown, Open
<1>6. ReturnsUnstarted
  BY <1>2 DEF ReturnsUnstarted, HOLDING
<1>7. CASE svc' = svc
  BY <1>2, <1>4, <1>5, <1>6, <1>7 DEF SentIsKnown, QueuedIsNew, StartedIsSeen
<1>8. CASE svc' # svc
  <2>1. fut[a].st = "queued"
    BY <1>1, <1>8 DEF PostAnswered, PostFails, ChannelQuits
  <2>2. PICK g : svc' = Posted(a, 1, g)
    BY <1>1, <1>8 DEF PostAnswered, PostFails, ChannelQuits
  <2>3. svc' = [svc EXCEPT ![T] = [st |-> "queued", blk |-> fut[a].blk, grp |-> g]]
    BY <2>2 DEF Posted
  <2>4. a[2] <= row[a[1]].att
    BY <2>1 DEF FutureIsKnown, Open
  <2>5. T \notin started
    BY <2>1 DEF QueuedIsNew, StartedIsSeen
  <2>6. /\ svc'[T].st = "queued"
        /\ \A x \in Tasks : x # T => svc'[x] = svc[x]
    BY <1>3, <2>3, Typed DEF TypeInv
  <2> HIDE DEF T
  <2>7. SentIsKnown'
    BY <1>2, <1>3, <2>4, <2>6 DEF SentIsKnown
  <2>8. QueuedIsNew'
    <3> SUFFICES ASSUME NEW x \in Attempts, fut'[x].st = "queued" PROVE svc'[Task(x, 1)].st = "none"
      BY DEF QueuedIsNew
    <3>1. x # a /\ svc[Task(x, 1)].st = "none"
      BY <1>4 DEF QueuedIsNew
    <3>2. Task(x, 1) \in Tasks /\ Task(x, 1) # T
      BY <3>1, AttemptsAndTasks DEF T, Task
    <3> QED BY <2>6, <3>1, <3>2
  <2>9. StartedIsSeen'
    <3>1. started \subseteq Tasks
      BY DEF TypeInv, TypeOK, SvcTypeOK
    <3> QED BY <1>2, <2>5, <2>6, <3>1 DEF StartedIsSeen
  <2> QED BY <1>5, <1>6, <2>7, <2>8, <2>9
<1> QED BY <1>7, <1>8

LEMMA ServiceSeen == ASSUME SeenInv, TypeInv', ServiceStep PROVE SeenInv' /\ ReturnsUnstarted
<1> USE DEF SeenInv
<1>1. UNCHANGED <<row, fut>>
  BY DEF ServiceStep, ledgerVars, memVars
<1>2. FutureIsKnown' /\ ReturnsUnstarted
  BY <1>1 DEF FutureIsKnown, Open, ReturnsUnstarted, HOLDING
<1>3. CASE \E n \in Blocks : BlockEnds(n)
  BY <1>1, <1>3, StillSendsNone, SendsNoneKeeps DEF BlockEnds
<1>4. ASSUME NEW t \in Tasks, OnNode(t) \/ ReportedLost(t) PROVE SeenInv'
  <2>1. \E s \in TaskStates : /\ Moves(t, s)
                              /\ \/ started' = started /\ svc[t].st = "queued"
                                    /\ s \in {"refused", "dup", "marker", "busy", "lost"}
                                 \/ started' = started \cup {t} /\ svc[t].st = "queued" /\ s = "running"
                                 \/ started' = started /\ svc[t].st = "running" /\ s \in {"ok", "bad", "noline", "marker", "lost"}
    BY <1>4 DEF OnNode, GuardRefuses, FindsClaim, SeesMarker, FindsNoSlot, ClaimsAndEnds, StartsCommand, EndsCommand,
                ReportedLost, Reached, TaskStates, Settled, WithLine, Pending
  <2>2. PICK s \in TaskStates :
          /\ Moves(t, s)
          /\ \/ started' = started /\ svc[t].st = "queued" /\ s \in {"refused", "dup", "marker", "busy", "lost"}
             \/ started' = started \cup {t} /\ svc[t].st = "queued" /\ s = "running"
             \/ started' = started /\ svc[t].st = "running" /\ s \in {"ok", "bad", "noline", "marker", "lost"}
    BY <2>1
  <2>3. svc'[t].st = s /\ \A x \in Tasks : x # t => svc'[x] = svc[x]
    BY <2>2, Typed DEF Moves, TypeInv, SvcRec
  <2>4. svc[t].st \in Pending /\ svc[t].st # "none"
    BY <2>2 DEF Pending
  <2>5. SentIsKnown'
    BY <1>1, <2>3, <2>4 DEF SentIsKnown
  <2>6. QueuedIsNew'
    <3> SUFFICES ASSUME NEW x \in Attempts, fut[x].st = "queued" PROVE svc'[Task(x, 1)].st = "none"
      BY <1>1 DEF QueuedIsNew
    <3>0. 1 \in 1..Copies
      BY BoundsAssumption DEF BoundsAssumption
    <3>1. svc[Task(x, 1)].st = "none" /\ Task(x, 1) \in Tasks
      BY <3>0, AttemptsAndTasks DEF QueuedIsNew
    <3> QED BY <2>3, <2>4, <3>1
  <2>7. StartedIsSeen'
    <3>1. started \subseteq Tasks
      BY DEF TypeInv, TypeOK, SvcTypeOK
    <3>2. s \in {"refused", "dup", "marker", "busy", "lost"} /\ svc[t].st = "queued" => t \notin started
      BY DEF StartedIsSeen
    <3> QED BY <2>2, <2>3, <3>1, <3>2 DEF StartedIsSeen
  <2> QED BY <1>2, <2>5, <2>6, <2>7
<1> QED BY <1>2, <1>3, <1>4 DEF ServiceStep, SvcNext

LEMMA SeenStep ==
  ASSUME Copies = 1, ~Idempotent, SeenInv, [Next]_vars
  PROVE  SeenInv' /\ (pc # "settle" => ReturnsUnstarted)
<1>1. TypeInv'
  BY TypeInvStep DEF SeenInv
<1>2. ASSUME UNCHANGED <<svc, started, row>>, fut' = fut \/ fut' = [a \in Attempts |-> NoFut]
      PROVE  SeenInv' /\ ReturnsUnstarted
  BY <1>1, <1>2, StillSendsNone, SendsNoneKeeps DEF SeenInv
<1>3. CASE PassStep
  <2>1. CASE PassAdmits
    <3>1. UNCHANGED <<svc, started>>
      BY <2>1 DEF PassAdmits, AdmitOnly, svcVars
    <3> QED BY <1>1, <2>1, <3>1, AdmitSeen DEF PassAdmits
  <2>2. CASE PassFinds
    <3>1. UNCHANGED <<svc, started, row, fut>>
      BY <2>2 DEF PassFinds, AdmitOnly, svcVars
    <3> QED BY <1>2, <3>1
  <2>3. CASE PassCancels
    BY <1>1, <2>3, UserSeen
  <2>4. CASE ~PassAdmits /\ ~PassFinds /\ ~PassCancels
    BY <1>1, <1>3, <2>4, PassReturns, SendsNoneKeeps
  <2> QED BY <2>1, <2>2, <2>3, <2>4
<1>4. CASE SdkStep
  BY <1>1, <1>4, SdkSeen
<1>5. CASE UserStep
  BY <1>1, <1>5, UserSeen
<1>6. CASE ServiceStep
  BY <1>1, <1>6, ServiceSeen
<1>7. CASE Crash \/ Adopt \/ UNCHANGED vars
  <2>1. UNCHANGED <<svc, started, row>> /\ (fut' = fut \/ fut' = [a \in Attempts |-> NoFut])
    BY <1>7 DEF Crash, Adopt, vars, svcVars, ledgerVars, memVars
  <2> QED BY <1>2, <2>1
<1> QED BY <1>3, <1>4, <1>5, <1>6, <1>7 DEF Next

(* A row that may not be run again returns to the backlog only if its      *)
(* attempt never started, outside `_reconcile_unsent`: however often       *)
(* servers die and take over, on both kinds of endpoint.  A copy of a      *)
(* retried POST is the one exception (README, refused copy).               *)
THEOREM ReturnsAreClean ==
  ASSUME Copies = 1
  PROVE  Spec => ReturnsOnlyUnstarted
<1>1. CASE Idempotent
  <2>1. [\A r \in Rows : (~Idempotent /\ pc # "settle" /\ row[r].st \in HOLDING /\ row'[r].st = "backlog")
           => \A t \in Starts(r) : t[2] # row[r].att]_vars
    BY <1>1
  <2> QED BY <2>1, PTL DEF ReturnsOnlyUnstarted
<1>2. CASE ~Idempotent
  <2>1. Init => SeenInv
    <3> SUFFICES ASSUME Init PROVE SeenInv
      OBVIOUS
    <3>1. OnceInv
      BY InitOnce
    <3>2. Open = {}
      BY DEF Init, NoFut, Open
    <3> QED BY <3>1, <3>2 DEF OnceInv, FutInv, SeenInv, FutureIsKnown
  <2>2. SeenInv /\ [Next]_vars => SeenInv'
    BY <1>2, SeenStep
  <2>3. SeenInv /\ [Next]_vars =>
          [\A r \in Rows : (~Idempotent /\ pc # "settle" /\ row[r].st \in HOLDING /\ row'[r].st = "backlog")
             => \A t \in Starts(r) : t[2] # row[r].att]_vars
    BY <1>2, SeenStep DEF ReturnsUnstarted
  <2> QED BY <2>1, <2>2, <2>3, PTL DEF Spec, ReturnsOnlyUnstarted
<1>3. Idempotent \in BOOLEAN
  BY EngineAssumption, Zenon DEF EngineAssumption
<1> QED BY <1>1, <1>2, <1>3
=============================================================================
