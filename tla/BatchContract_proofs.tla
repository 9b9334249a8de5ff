------------------------ MODULE BatchContract_proofs ------------------------
(***************************************************************************)
(* The batch engine implements the contract of a row (RowContract), for    *)
(* every number of rows, attempts, blocks, executors and calls, on both    *)
(* kinds of endpoint, as long as no server dies and no POST is retried.    *)
(*                                                                         *)
(* The argument.  All of a row's commands that may still start, or have    *)
(* started, are of its current attempt (OnlyCurrentRuns, AtMostOnce_proofs)*)
(* and so of one task.  A step that settles a row read that task's own     *)
(* state (SettlesOwn), a task that says it ran has started (RanIsStarted), *)
(* and a row with any answer but "lost" leaves nothing behind that may     *)
(* still start (NoneLeft).                                                 *)
(***************************************************************************)
EXTENDS AtMostOnce_proofs, BatchContract

Ran == {"running", "ok", "bad", "noline"}

RanIsStarted == \A t \in Tasks : svc[t].st \in Ran => t \in started
NoneLeft     == \A t \in Tasks : svc[t].st \in Pending => row[t[1]].st \notin {"done", "failed", "cancelled"}

(* The state a settled row's own task must have.                           *)
EndAs(st) == CASE st = "done"      -> {"ok"}
               [] st = "failed"    -> {"bad", "noline"}
               [] st = "cancelled" -> {"marker"}
               [] st = "lost"      -> {"lost"}
               [] OTHER            -> TaskStates

OwnInv == OnceInv /\ RanIsStarted /\ NoneLeft /\ OutcomeIsOwn

(* The scheduler says the block the row is recorded to be out on is gone.  *)
ByEvidence(r) == Ssh /\ row[r].st = "in_flight" /\ row[r].job \in Blocks /\ blockUp[row[r].job] = "ended"

(* How a step settles a row: by the state of a task of its current         *)
(* attempt, as lost by the scheduler's word, or out of the backlog.        *)
SettlesOwn ==
  \A r \in Rows : row'[r].st \in TERMINAL /\ row[r].st \notin TERMINAL =>
     \/ row'[r].st = "lost" /\ ByEvidence(r)
     \/ row'[r].att = row[r].att /\ \E t \in Tasks : t[1] = r /\ t[2] = row[r].att /\ svc[t].st \in EndAs(row'[r].st)
     \/ row[r].st = "backlog" /\ row'[r].st = "cancelled"

LEMMA EndOfState ==
  ASSUME NEW k, StateAfter(k) \in TERMINAL PROVE k \in EndAs(StateAfter(k))
BY DEF StateAfter, EndAs, TERMINAL

(* A result read for a row settles it so.                                  *)
LEMMA ResultIsOwn ==
  ASSUME NEW r \in Rows, NEW t \in Tasks, t[1] = r, t[2] = row[r].att, NEW rw \in RowRec,
         rw.st = row[r].st, rw.att = row[r].att,
         SettleRow(rw, svc[t].st).st \in TERMINAL, row[r].st \notin TERMINAL
  PROVE  /\ SettleRow(rw, svc[t].st).att = row[r].att
         /\ \E x \in Tasks : x[1] = r /\ x[2] = row[r].att /\ svc[x].st \in EndAs(SettleRow(rw, svc[t].st).st)
<1>1. SettleRow(rw, svc[t].st).st = StateAfter(svc[t].st) /\ SettleRow(rw, svc[t].st).att = rw.att
  BY SettleRowKeeps
<1>2. svc[t].st \in EndAs(StateAfter(svc[t].st))
  BY <1>1, EndOfState
<1> QED BY <1>1, <1>2

-----------------------------------------------------------------------------
(* Each step of a pass settles rows by their own results.                  *)

LEMMA CollectOwn == ASSUME FutInv, NEW D \in SUBSET DoneFutures, Collect(D) PROVE SettlesOwn
<1> USE DEF FutInv
<1> DEFINE rw(r) == [row[r] EXCEPT !.tid = LearntTid(r)]
<1> SUFFICES ASSUME NEW r \in Rows, row'[r].st \in TERMINAL, row[r].st \notin TERMINAL
             PROVE  row'[r].att = row[r].att /\ \E t \in Tasks : t[1] = r /\ t[2] = row[r].att /\ svc[t].st \in EndAs(row'[r].st)
  BY DEF SettlesOwn
<1>1. row'[r] = IF Current(r) \in D /\ Outcome(Current(r)) # "broken"
                THEN SettleRow(rw(r), Outcome(Current(r))) ELSE rw(r)
  BY DEF Collect
<1>2. rw(r) \in RowRec /\ rw(r).st = row[r].st /\ rw(r).att = row[r].att
  BY Typed, LearntTidType DEF TypeInv, RowRec
<1> DEFINE a == Current(r)
<1>3. a \in D /\ Outcome(a) # "broken"
  BY <1>1, <1>2
<1>4. a \in Attempts /\ a[1] = r /\ a[2] = row[r].att
  BY <1>3 DEF DoneFutures, Open, Current
<1>5. CASE fut[a].st = "error"
  <2>1. Outcome(a) = "error"
    BY <1>5 DEF Outcome
  <2>2. StateAfter("error") = "submit_unknown"
    BY DEF StateAfter
  <2> HIDE DEF rw
  <2>3. row'[r].st \in {row[r].st, "submit_unknown"}
    BY <1>1, <1>2, <1>3, <2>1, <2>2, SettleRowKeeps
  <2> QED BY <2>3 DEF TERMINAL
<1>6. CASE fut[a].st = "sent"
  <2>1. FutTask(a) \in Tasks /\ FutTask(a)[1] = r /\ FutTask(a)[2] = row[r].att
    <3>1. fut[a].copy \in 1..Copies
      BY <1>4, <1>6 DEF TypeInv, SendersKnown
    <3> QED BY <1>4, <3>1, AttemptsAndTasks DEF FutTask, Task
  <2>2. Outcome(a) = svc[FutTask(a)].st
    BY <1>6 DEF Outcome
  <2> HIDE DEF rw, a
  <2> QED BY <1>1, <1>2, <1>3, <2>1, <2>2, ResultIsOwn DEF a
<1>7. fut[a].st \in {"error", "sent"}
  BY <1>3 DEF DoneFutures, Outcome
<1> QED BY <1>5, <1>6, <1>7

LEMMA RestPullOwn == ASSUME FutInv, RestPull PROVE SettlesOwn
<1> USE DEF FutInv
<1> DEFINE task(r) == Task(Current(r), row[r].tid)
           kind(r) == svc[task(r)].st
           S       == {r \in PullRows : kind(r) \in Settled}
<1> SUFFICES ASSUME NEW r \in Rows, row'[r].st \in TERMINAL, row[r].st \notin TERMINAL
             PROVE  row'[r].att = row[r].att /\ \E t \in Tasks : t[1] = r /\ t[2] = row[r].att /\ svc[t].st \in EndAs(row'[r].st)
  BY DEF SettlesOwn
<1>1. row'[r] = IF r \in S THEN SettleRow(row[r], kind(r)) ELSE row[r]
  BY DEF RestPull
<1>2. r \in S
  BY <1>1
<1>3. row[r].tid # 0 /\ row[r].st \in HOLDING
  BY <1>2 DEF PullRows, InState
<1>4. row[r].tid \in 1..Copies /\ row[r].att \in 1..MaxAttempt
  BY <1>3, Typed, BoundsAssumption DEF TypeInv, RowRec, BoundsAssumption, OutWasTried
<1>5. task(r) \in Tasks /\ task(r)[1] = r /\ task(r)[2] = row[r].att
  BY <1>4 DEF Task, Current, Tasks
<1>6. row[r] \in RowRec /\ row'[r] = SettleRow(row[r], svc[task(r)].st)
  BY <1>1, <1>2, Typed DEF TypeInv
<1> HIDE DEF task, S
<1> QED BY <1>5, <1>6, ResultIsOwn

LEMMA ReconcileOwn == ASSUME FutInv, ~Idempotent, Reconcile PROVE SettlesOwn
<1> USE DEF FutInv
<1> DEFINE named == Naming(Listed \ Known, "submit_unknown")
<1> SUFFICES ASSUME NEW r \in Rows, row'[r].st \in TERMINAL, row[r].st \notin TERMINAL
             PROVE  row'[r].att = row[r].att /\ \E t \in Tasks : t[1] = r /\ t[2] = row[r].att /\ svc[t].st \in EndAs(row'[r].st)
  BY DEF SettlesOwn
<1>1. row'[r] = IF \E t \in named : t[1] = r
                THEN LET t == CHOOSE t \in named : t[1] = r
                     IN  SettleRow([row[r] EXCEPT !.tid = t[3]], svc[t].st)
                ELSE row[r]
  BY DEF Reconcile
<1>2. \E t \in named : t[1] = r
  <2>1. ~(\E t \in named : t[1] = r) => row'[r] = row[r]
    BY <1>1
  <2> QED BY <2>1
<1> DEFINE t == CHOOSE t \in named : t[1] = r
<1>3. t \in named /\ t[1] = r
  BY <1>2
<1>4. row'[r] = SettleRow([row[r] EXCEPT !.tid = t[3]], svc[t].st)
  BY <1>1, <1>2
<1> HIDE DEF t
<1>5. t \in Tasks /\ t[2] = row[r].att
  BY <1>3 DEF Naming, Listed
<1> DEFINE rw == [row[r] EXCEPT !.tid = t[3]]
<1>6. rw \in RowRec /\ rw.st = row[r].st /\ rw.att = row[r].att
  <2>1. t[3] \in 0..Copies
    BY <1>5, AttemptsAndTasks, BoundsAssumption DEF BoundsAssumption
  <2> QED BY <2>1, Typed DEF TypeInv, RowRec
<1>7. row'[r] = SettleRow(rw, svc[t].st)
  BY <1>4
<1> HIDE DEF rw, named
<1> QED BY <1>3, <1>5, <1>6, <1>7, ResultIsOwn

LEMMA EvidenceOwn == ASSUME FutInv, ~Idempotent, NEW n \in Blocks, Evidence(n) PROVE SettlesOwn
<1> DEFINE out == {r \in InState({"in_flight"}) : row[r].job = n}
<1>1. row' = [r \in Rows |-> IF r \in out THEN SettleRow(row[r], "lost") ELSE row[r]]
  BY DEF Evidence
<1>2. StateAfter("lost") = "lost"
  BY DEF StateAfter
<1>3. \A r \in Rows : row[r] \in RowRec
  BY Typed DEF FutInv, TypeInv
<1>4. \A r \in Rows : row'[r].st \in {row[r].st, "lost"} /\ (r \notin out => row'[r] = row[r])
  <2> HIDE DEF out
  <2> QED BY <1>1, <1>2, <1>3, SettleRowKeeps
<1>5. \A r \in out : ByEvidence(r)
  BY DEF Evidence, ByEvidence, InState
<1> HIDE DEF out
<1> QED BY <1>4, <1>5 DEF SettlesOwn

LEMMA IdleOwn ==
  ASSUME FutInv, SkipLookup \/ PassFails \/ ReadGroups \/ PassFinds \/ \E P \in SUBSET Rows : Presume(P)
  PROVE  SettlesOwn
<1>1. \A r \in Rows : row'[r].st \in {row[r].st, "presumed_lost"}
  BY Typed DEF SkipLookup, PassFails, ReadGroups, PassFinds, Presume, FutInv, TypeInv, RowRec
<1> QED BY <1>1 DEF SettlesOwn, TERMINAL
-----------------------------------------------------------------------------
(* Admission settles no row; a cancel settles those of the backlog.        *)

LEMMA AdmitOwn == ASSUME FutInv, NEW e \in BOOLEAN, Admit(e) PROVE SettlesOwn
<1>1. CASE row' = row
  BY <1>1 DEF SettlesOwn
<1>2. ASSUME NEW k \in 0..NumRows, Sends(e, k) PROVE SettlesOwn
  <2> DEFINE taken == Reserved
             sent  == {r \in taken : Cardinality({q \in taken : q < r}) < k}
  <2>1. row' = [r \in Rows |->
                  IF r \notin taken THEN row[r]
                  ELSE [st |-> IF r \in sent THEN "in_flight" ELSE "backlog", att |-> row[r].att + 1, tid |-> 0,
                        job |-> IF r \in sent THEN Ready.job ELSE row[r].job]]
    BY <1>2 DEF Sends
  <2> HIDE DEF taken, sent
  <2>2. \A r \in Rows : row'[r].st \in {row[r].st, "in_flight", "backlog"}
    BY <2>1
  <2> QED BY <2>2 DEF SettlesOwn, TERMINAL
<1> QED BY <1>1, <1>2 DEF Admit, AdmitsNothing, FindsNoBlock, GatePauses

LEMMA CancelOwn == ASSUME FutInv, NEW mode, ApplyCancel(mode) PROVE SettlesOwn
<1>1. CASE mode = "drain"
  BY <1>1 DEF ApplyCancel, SettlesOwn
<1>2. CASE mode # "drain"
  <2>1. row' = [r \in Rows |-> IF r \in Backlog THEN [row[r] EXCEPT !.st = "cancelled"] ELSE row[r]]
    BY <1>2 DEF ApplyCancel
  <2>2. \A r \in Rows : IF row[r].st = "backlog" THEN row'[r].st = "cancelled" ELSE row'[r] = row[r]
    BY <2>1, Typed DEF FutInv, TypeInv, RowRec, Backlog, InState
  <2> QED BY <2>2 DEF SettlesOwn
<1> QED BY <1>1, <1>2

(* No step of a pass or of the user touches the service's tasks.           *)
LEMMA ServerOwn ==
  ASSUME FutInv, ~Idempotent, PassStep \/ UserStep
  PROVE  SettlesOwn /\ svc' = svc /\ started' = started
<1>0. row' = row => SettlesOwn
  BY DEF SettlesOwn
<1>1. CASE PassStep
  <2>1. ASSUME NEW D \in SUBSET DoneFutures, Collect(D) PROVE SettlesOwn /\ svc' = svc /\ started' = started
    BY <2>1, CollectOwn DEF Collect, PassOnly, svcVars
  <2>2. CASE RestPull
    BY <2>2, RestPullOwn DEF RestPull, PassOnly, svcVars
  <2>3. CASE SkipLookup \/ PassFails \/ ReadGroups \/ PassFinds
    BY <2>3, IdleOwn DEF SkipLookup, PassFails, ReadGroups, PassFinds, PassOnly, AdmitOnly, svcVars
  <2>4. CASE Reconcile
    BY <2>4, ReconcileOwn DEF Reconcile, PassOnly, svcVars
  <2>5. ASSUME NEW P \in SUBSET Rows, Presume(P) PROVE SettlesOwn /\ svc' = svc /\ started' = started
    BY <2>5, IdleOwn DEF Presume, PassOnly, svcVars
  <2>6. ASSUME NEW n \in Blocks, Evidence(n) PROVE SettlesOwn /\ svc' = svc /\ started' = started
    BY <2>6, EvidenceOwn DEF Evidence, PassOnly, svcVars
  <2>7. CASE PassAdmits
    BY <2>7, AdmitOwn DEF PassAdmits, AdmitOnly, svcVars
  <2>8. CASE PassCancels
    BY <2>8, CancelOwn DEF PassCancels, CancelOnly
  <2> QED BY <1>1, <2>1, <2>2, <2>3, <2>4, <2>5, <2>6, <2>7, <2>8, UnsentNever DEF PassStep
<1>2. CASE UserStep
  <2>1. ASSUME NEW mode \in {"drain", "abort"}, Cancels(mode) PROVE SettlesOwn /\ svc' = svc /\ started' = started
    BY <2>1, CancelOwn DEF Cancels, CancelOnly
  <2>2. ASSUME NEW mode \in {"drain", "abort"}, RecordsCancel(mode)
        PROVE SettlesOwn /\ svc' = svc /\ started' = started
    BY <1>0, <2>2, Zenon DEF RecordsCancel, CancelOnly
  <2>3. CASE ResumeAdmits
    BY <2>3, AdmitOwn DEF ResumeAdmits, AdmitOnly, svcVars
  <2>4. CASE ResumeStarts \/ ResumeFails \/ \E n \in Blocks : ResumeAdmitsAgain(n)
    BY <1>0, <2>4 DEF ResumeStarts, ResumeFails, ResumeAdmitsAgain, svcVars, ledgerVars
  <2>5. CASE FindsReaped \/ StopStarts \/ StopReleases \/ StopEnds \/ \E n \in Blocks : ConfirmsElsewhere(n)
    BY <1>0, <2>5 DEF FindsReaped, StopStarts, StopReleases, StopEnds, ConfirmsElsewhere, ShapeOnly, StopOnly, svcVars
  <2> QED BY <1>2, <2>1, <2>2, <2>3, <2>4, <2>5 DEF UserStep
<1> QED BY <1>1, <1>2

-----------------------------------------------------------------------------
(* A row's one task.                                                       *)

LEMMA OneTask ==
  ASSUME Copies = 1, NEW x \in Tasks, NEW y \in Tasks, x[1] = y[1], x[2] = y[2] PROVE x = y
<1>1. x[3] = 1 /\ y[3] = 1 /\ x = <<x[1], x[2], x[3]>> /\ y = <<y[1], y[2], y[3]>>
  BY AttemptsAndTasks
<1> QED BY <1>1

LEMMA StartedTasks == ASSUME OnceInv PROVE started \subseteq Tasks
BY DEF OnceInv, FutInv, TypeInv, TypeOK, SvcTypeOK

LEMMA OneStart ==
  ASSUME Copies = 1, OnceInv, NEW t \in Tasks, t[2] = row[t[1]].att
  PROVE  /\ t \in started => Starts(t[1]) = {t} /\ TheTask(t[1]) = t
         /\ t \notin started => Starts(t[1]) = {}
<1>1. ASSUME NEW x \in Starts(t[1]) PROVE x = t
  <2>1. x \in Tasks /\ x \in started /\ x[1] = t[1]
    BY StartedTasks DEF Starts
  <2>2. x[2] = row[x[1]].att
    BY <2>1 DEF OnceInv, OnlyCurrentRuns
  <2> QED BY <2>1, <2>2, OneTask
<1>2. t \in started => t \in Starts(t[1])
  BY DEF Starts
<1>3. t \in started => Starts(t[1]) = {t}
  BY <1>1, <1>2
<1> QED BY <1>1, <1>3 DEF Starts, TheTask

(* The answers a row's own task allows.                                    *)
LEMMA OwnCommand ==
  ASSUME Copies = 1, OwnInv, NEW t \in Tasks, t[2] = row[t[1]].att
  PROVE  /\ svc[t].st = "ok" => CommandOf(t[1]) = "ok"
         /\ svc[t].st \in {"bad", "noline"} => CommandOf(t[1]) = "bad"
         /\ svc[t].st = "marker" => CommandOf(t[1]) \in {"not_run", "cut"}
<1> USE OneStart DEF OwnInv, RanIsStarted, Ran, CommandOf, EndOf
<1>1. svc[t].st = "ok" => CommandOf(t[1]) = "ok"
  OBVIOUS
<1>2. svc[t].st \in {"bad", "noline"} => CommandOf(t[1]) = "bad"
  OBVIOUS
<1>3. svc[t].st = "marker" => CommandOf(t[1]) \in {"not_run", "cut"}
  OBVIOUS
<1> QED BY <1>1, <1>2, <1>3

(* A row in the backlog has started nothing.                               *)
LEMMA BacklogNotRun ==
  ASSUME OnceInv, NEW r \in Rows, row[r].st = "backlog" PROVE Starts(r) = {} /\ CommandOf(r) = "not_run"
<1>1. Starts(r) = {}
  BY StartedTasks DEF OnceInv, OnlyCurrentRuns, Starts
<1> QED BY <1>1 DEF CommandOf

LEMMA SameCommand ==
  ASSUME OnceInv, started' = started, \A t \in started : svc'[t].st = svc[t].st
  PROVE  \A r \in Rows : CommandOf(r)' = CommandOf(r)
<1> SUFFICES ASSUME NEW r \in Rows PROVE CommandOf(r)' = CommandOf(r)
  OBVIOUS
<1>1. Starts(r)' = Starts(r) /\ TheTask(r)' = TheTask(r)
  BY DEF Starts, TheTask
<1>2. Starts(r) # {} => TheTask(r) \in started
  BY DEF Starts, TheTask
<1>3. Starts(r) # {} => svc'[TheTask(r)].st = svc[TheTask(r)].st
  BY <1>2
<1> QED BY <1>1, <1>3 DEF CommandOf

-----------------------------------------------------------------------------
(* What a step does to a row, in the contract's terms.                     *)

RowMoves(r) ==
  \/ /\ CommandOf(r) = "not_run" /\ CommandOf(r)' = "running"
     /\ AnswerOf(r) \in {"open", "lost"} /\ AnswerOf(r)' = AnswerOf(r)
  \/ /\ CommandOf(r) = "running" /\ CommandOf(r)' \in {"ok", "bad", "cut", "gone"}
     /\ AnswerOf(r)' = AnswerOf(r)
  \/ /\ AnswerOf(r) = "open"
     /\ \/ AnswerOf(r)' = "done" /\ CommandOf(r) = "ok"
        \/ AnswerOf(r)' = "failed" /\ CommandOf(r) = "bad"
        \/ AnswerOf(r)' = "cancelled" /\ CommandOf(r) \in {"not_run", "cut"}
        \/ AnswerOf(r)' = "lost"
     /\ CommandOf(r)' = CommandOf(r)
  \/ CommandOf(r)' = CommandOf(r) /\ AnswerOf(r)' = AnswerOf(r)

LEMMA ContractStep == ASSUME \A r \in Rows : RowMoves(r) PROVE Contract!Next
BY DEF RowMoves, Contract!Next, Contract!Starts, Contract!Ends, Contract!Answered, Contract!Rests

Kept == RanIsStarted' /\ NoneLeft' /\ OutcomeIsOwn' /\ \A r \in Rows : RowMoves(r)

LEMMA OwnOutcome ==
  ASSUME Copies = 1, OutcomeIsOwn, NEW r \in Rows
  PROVE  /\ row[r].st = "done" => svc[<<r, IF row[r].att = 0 THEN 1 ELSE row[r].att, 1>>].st = "ok"
         /\ row[r].st = "failed" => svc[<<r, IF row[r].att = 0 THEN 1 ELSE row[r].att, 1>>].st \in {"bad", "noline"}
<1>1. \A c \in 1..Copies : c = 1
  OBVIOUS
<1> QED BY <1>1 DEF OutcomeIsOwn

(* A step of the server: rows settle by their own tasks.                   *)
LEMMA SettlesKeeps ==
  ASSUME Copies = 1, OwnInv, SettlesOwn, KeepsSettled, svc' = svc, started' = started
  PROVE  Kept
<1> USE DEF OwnInv
<1>1. RanIsStarted'
  BY DEF RanIsStarted
<1>2. ASSUME NEW r \in Rows PROVE row'[r].st \in TERMINAL /\ row[r].st \in TERMINAL => row'[r].st = row[r].st /\ row'[r].att = row[r].att
  BY <1>2 DEF KeepsSettled
<1>3. ASSUME NEW r \in Rows, row'[r].st \in TERMINAL, row[r].st \notin TERMINAL, row'[r].st # "lost"
      PROVE  \/ row'[r].att = row[r].att /\ \E t \in Tasks : t[1] = r /\ t[2] = row[r].att /\ svc[t].st \in EndAs(row'[r].st)
             \/ row[r].st = "backlog" /\ row'[r].st = "cancelled"
  BY <1>3 DEF SettlesOwn
<1>4. NoneLeft'
  <2> SUFFICES ASSUME NEW x \in Tasks, svc[x].st \in Pending, row'[x[1]].st \in {"done", "failed", "cancelled"} PROVE FALSE
    BY DEF NoneLeft
  <2>1. x[1] \in Rows /\ row'[x[1]].st \in TERMINAL /\ row'[x[1]].st # "lost"
    BY AttemptsAndTasks DEF TERMINAL
  <2>2. row[x[1]].st \notin TERMINAL
    BY <1>2, <2>1 DEF NoneLeft
  <2>3. x[2] = row[x[1]].att /\ row[x[1]].st # "backlog"
    BY DEF OnceInv, OnlyCurrentRuns
  <2>4. PICK t \in Tasks : t[1] = x[1] /\ t[2] = row[x[1]].att /\ svc[t].st \in EndAs(row'[x[1]].st)
    BY <1>3, <2>1, <2>2, <2>3
  <2>5. t = x
    BY <2>3, <2>4, OneTask
  <2> QED BY <2>4, <2>5 DEF EndAs, Pending
<1>5. OutcomeIsOwn'
  <2>1. ASSUME NEW r \in Rows
        PROVE  /\ row'[r].st = "done" => svc[<<r, IF row'[r].att = 0 THEN 1 ELSE row'[r].att, 1>>].st = "ok"
               /\ row'[r].st = "failed" => svc[<<r, IF row'[r].att = 0 THEN 1 ELSE row'[r].att, 1>>].st \in {"bad", "noline"}
    <3>1. CASE row[r].st \in TERMINAL
      <4>1. row'[r].st = row[r].st /\ row'[r].att = row[r].att
        BY <3>1 DEF KeepsSettled
      <4> QED BY <4>1, OwnOutcome
    <3>2. CASE row[r].st \notin TERMINAL /\ row'[r].st \in {"done", "failed"}
      <4>1. row'[r].att = row[r].att /\ \E t \in Tasks : t[1] = r /\ t[2] = row[r].att /\ svc[t].st \in EndAs(row'[r].st)
        BY <1>3, <3>2 DEF TERMINAL
      <4>2. PICK t \in Tasks : t[1] = r /\ t[2] = row[r].att /\ svc[t].st \in EndAs(row'[r].st)
        BY <4>1
      <4>3. t[2] # 0 /\ t = <<r, row'[r].att, 1>>
        BY <4>1, <4>2, AttemptsAndTasks
      <4> QED BY <3>2, <4>2, <4>3 DEF EndAs
    <3> QED BY <3>1, <3>2 DEF TERMINAL
  <2>2. 1 \in 1..Copies
    OBVIOUS
  <2> QED BY <2>1, <2>2 DEF OutcomeIsOwn
<1>6. ASSUME NEW r \in Rows PROVE RowMoves(r)
  <2>1. CommandOf(r)' = CommandOf(r)
    BY SameCommand
  <2>2. CASE row[r].st \in TERMINAL
    BY <1>2, <2>1, <2>2 DEF KeepsSettled, AnswerOf, RowMoves
  <2>3. CASE row[r].st \notin TERMINAL /\ row'[r].st \notin TERMINAL
    BY <2>1, <2>3 DEF AnswerOf, RowMoves
  <2>4. CASE row[r].st \notin TERMINAL /\ row'[r].st \in TERMINAL
    <3>1. AnswerOf(r) = "open" /\ AnswerOf(r)' = row'[r].st
      BY <2>4 DEF AnswerOf
    <3>2. CASE row'[r].st = "lost"
      BY <2>1, <3>1, <3>2 DEF RowMoves
    <3>3. CASE row[r].st = "backlog" /\ row'[r].st = "cancelled"
      BY <2>1, <3>1, <3>3, BacklogNotRun DEF RowMoves
    <3>4. CASE row'[r].st # "lost" /\ ~(row[r].st = "backlog" /\ row'[r].st = "cancelled")
      <4>1. PICK t \in Tasks : t[1] = r /\ t[2] = row[r].att /\ svc[t].st \in EndAs(row'[r].st)
        BY <1>3, <2>4, <3>4
      <4> QED BY <2>1, <2>4, <3>1, <3>4, <4>1, OwnCommand DEF EndAs, TERMINAL, RowMoves
    <3> QED BY <3>2, <3>3, <3>4
  <2> QED BY <2>2, <2>3, <2>4
<1> QED BY <1>1, <1>4, <1>5, <1>6 DEF Kept
-----------------------------------------------------------------------------
(* The SDK and the service leave the rows; a task that ended stays so.     *)

(* Only task T's state changed, and it had not ended.                      *)
OnlyMoves(T) == /\ row' = row
                /\ svc[T].st \in {"none"} \cup Pending
                /\ \A x \in Tasks : x # T => svc'[x] = svc[x]

LEMMA MovesKeepsOutcome == ASSUME Copies = 1, TypeInv, OutcomeIsOwn, NEW T \in Tasks, OnlyMoves(T) PROVE OutcomeIsOwn'
<1> SUFFICES ASSUME NEW r \in Rows
             PROVE  \E c \in 1..Copies :
                      LET st == svc'[<<r, IF row[r].att = 0 THEN 1 ELSE row[r].att, c>>].st
                      IN  /\ row[r].st = "done" => st = "ok"
                          /\ row[r].st = "failed" => st \in {"bad", "noline"}
  BY DEF OutcomeIsOwn, OnlyMoves
<1> DEFINE x == <<r, IF row[r].att = 0 THEN 1 ELSE row[r].att, 1>>
<1>1. x \in Tasks
  BY Typed, BoundsAssumption DEF BoundsAssumption, TypeInv, RowRec, Tasks
<1>2. /\ row[r].st = "done" => svc[x].st = "ok"
      /\ row[r].st = "failed" => svc[x].st \in {"bad", "noline"}
  BY OwnOutcome
<1>3. CASE row[r].st \notin {"done", "failed"}
  BY <1>3
<1>4. CASE row[r].st \in {"done", "failed"}
  <2>1. x # T
    BY <1>2, <1>4 DEF OnlyMoves, Pending
  <2>2. svc'[x] = svc[x]
    BY <1>1, <2>1 DEF OnlyMoves
  <2>3. 1 \in 1..Copies
    OBVIOUS
  <2> QED BY <1>2, <2>2, <2>3
<1> QED BY <1>3, <1>4

LEMMA SdkOwn == ASSUME Copies = 1, OwnInv, SdkStep PROVE Kept
<1> USE DEF OwnInv, OnceInv, FutInv
<1>1. PICK a \in Attempts : PostAnswered(a) \/ PostFails(a) \/ ChannelQuits(a)
  BY DEF SdkStep, PostRetried
<1>2. started' = started /\ row' = row
  BY <1>1 DEF PostAnswered, PostFails, ChannelQuits, SdkOnly, ledgerVars
<1> DEFINE T == Task(a, 1)
<1>3. T \in Tasks /\ T[1] = a[1] /\ T[2] = a[2]
  BY AttemptsAndTasks DEF Task
<1>4. \/ svc' = svc
      \/ /\ svc[T].st = "none" /\ svc'[T].st = "queued"
         /\ \A x \in Tasks : x # T => svc'[x] = svc[x]
         /\ row[a[1]].st \in {"in_flight", "presumed_lost"}
  <2>1. CASE svc' # svc
    <3>1. fut[a].st = "queued"
      BY <1>1, <2>1 DEF PostAnswered, PostFails, ChannelQuits
    <3>2. PICK g : svc' = Posted(a, 1, g)
      BY <1>1, <2>1 DEF PostAnswered, PostFails, ChannelQuits
    <3>3. svc' = [svc EXCEPT ![T] = [st |-> "queued", blk |-> fut[a].blk, grp |-> g]]
      BY <3>2 DEF Posted
    <3>4. row[a[1]].st \in {"in_flight", "presumed_lost"}
      BY <3>1 DEF FuturesAreOut, Open
    <3>5. svc[T].st = "none"
      BY <3>1 DEF QueuedIsNew
    <3> QED BY <1>3, <3>3, <3>4, <3>5, Typed DEF TypeInv
  <2> QED BY <2>1
<1> HIDE DEF T
<1>5. (T \notin started /\ started \subseteq Tasks) \/ svc' = svc
  BY <1>4, StartedTasks DEF StartedIsSeen
<1>6. \A t \in started : svc'[t].st = svc[t].st
  BY <1>4, <1>5
<1>7. RanIsStarted'
  BY <1>2, <1>4 DEF RanIsStarted, Ran
<1>8. NoneLeft'
  BY <1>2, <1>3, <1>4 DEF NoneLeft
<1>9. OutcomeIsOwn'
  <2>1. svc' = svc => OutcomeIsOwn'
    BY <1>2 DEF OutcomeIsOwn
  <2> QED BY <1>2, <1>3, <1>4, <2>1, MovesKeepsOutcome DEF OnlyMoves
<1>10. ASSUME NEW r \in Rows PROVE RowMoves(r)
  <2>1. CommandOf(r)' = CommandOf(r)
    BY <1>2, <1>6, SameCommand
  <2> QED BY <1>2, <2>1 DEF AnswerOf, RowMoves
<1> QED BY <1>7, <1>8, <1>9, <1>10 DEF Kept

(* A move of task t: it starts its command, ends it, or ends without one.  *)
StartsIt(t, s) == started' = started \cup {t} /\ svc[t].st = "queued" /\ s = "running"
EndsIt(t, s)   == started' = started /\ svc[t].st = "running" /\ s \in {"ok", "bad", "noline", "marker", "lost"}
Passes(t, s)   == started' = started /\ svc[t].st = "queued" /\ s \in {"refused", "dup", "marker", "busy", "lost"}

LEMMA ServiceOwn == ASSUME Copies = 1, OwnInv, ServiceStep PROVE Kept
<1> USE DEF OwnInv, OnceInv, FutInv
<1>1. row' = row
  BY DEF ServiceStep, ledgerVars
<1>2. CASE \E n \in Blocks : BlockEnds(n)
  <2>1. svc' = svc /\ started' = started
    BY <1>2 DEF BlockEnds
  <2>2. \A r \in Rows : CommandOf(r)' = CommandOf(r)
    BY <2>1, SameCommand
  <2> QED BY <1>1, <2>1, <2>2 DEF Kept, RanIsStarted, NoneLeft, OutcomeIsOwn, RowMoves, AnswerOf
<1>3. ASSUME NEW t \in Tasks, OnNode(t) \/ ReportedLost(t) PROVE Kept
  <2>1. PICK s \in TaskStates : Moves(t, s) /\ (StartsIt(t, s) \/ EndsIt(t, s) \/ Passes(t, s))
    BY <1>3 DEF OnNode, GuardRefuses, FindsClaim, SeesMarker, FindsNoSlot, ClaimsAndEnds, StartsCommand, EndsCommand,
                ReportedLost, Reached, TaskStates, Settled, WithLine, Pending, StartsIt, EndsIt, Passes
  <2>2. svc'[t].st = s /\ \A x \in Tasks : x # t => svc'[x] = svc[x]
    BY <2>1, Typed DEF Moves, TypeInv, SvcRec
  <2>3. svc[t].st \in Pending /\ t[1] \in Rows /\ t[2] = row[t[1]].att
    BY <2>1, AttemptsAndTasks DEF StartsIt, EndsIt, Passes, Pending, OnlyCurrentRuns
  <2>4. svc[t].st = "queued" => t \notin started
    BY DEF StartedIsSeen
  <2>5. svc[t].st = "running" => t \in started
    BY DEF RanIsStarted, Ran
  <2>6. started \subseteq Tasks
    BY StartedTasks
  <2>7. RanIsStarted'
    BY <2>1, <2>2, <2>5 DEF RanIsStarted, Ran, StartsIt, EndsIt, Passes
  <2>8. NoneLeft'
    BY <1>1, <2>2, <2>3 DEF NoneLeft
  <2>9. OutcomeIsOwn'
    BY <1>1, <2>2, <2>3, MovesKeepsOutcome DEF OnlyMoves
  <2>10. ASSUME NEW r \in Rows PROVE RowMoves(r)
    <3>1. AnswerOf(r)' = AnswerOf(r)
      BY <1>1 DEF AnswerOf
    <3>2. ASSUME CommandOf(r)' = CommandOf(r) PROVE RowMoves(r)
      BY <3>1, <3>2 DEF RowMoves
    <3>3. CASE Passes(t, s)
      <4>1. \A x \in started : svc'[x].st = svc[x].st
        BY <2>2, <2>4, <2>6, <3>3 DEF Passes
      <4> QED BY <3>2, <3>3, <4>1, SameCommand DEF Passes
    <3>4. CASE r # t[1] /\ (StartsIt(t, s) \/ EndsIt(t, s))
      <4>1. Starts(r)' = Starts(r) /\ TheTask(r)' = TheTask(r)
        BY <3>4 DEF Starts, TheTask, StartsIt, EndsIt
      <4>2. Starts(r) # {} => TheTask(r) \in Tasks /\ TheTask(r) # t
        BY <2>6, <3>4 DEF Starts, TheTask
      <4> QED BY <2>2, <3>2, <4>1, <4>2 DEF CommandOf
    <3>5. CASE r = t[1] /\ StartsIt(t, s)
      <4>1. Starts(r) = {} /\ CommandOf(r) = "not_run"
        BY <2>3, <2>4, <3>5, OneStart DEF StartsIt, CommandOf
      <4>2. Starts(r)' = {t}
        BY <3>5, <4>1 DEF Starts, StartsIt
      <4>3. CommandOf(r)' = "running"
        BY <2>2, <3>5, <4>2 DEF StartsIt, CommandOf, TheTask, EndOf
      <4>4. AnswerOf(r) \in {"open", "lost"}
        BY <2>3, <3>5 DEF NoneLeft, AnswerOf, TERMINAL
      <4> QED BY <3>1, <4>1, <4>3, <4>4 DEF RowMoves
    <3>6. CASE r = t[1] /\ EndsIt(t, s)
      <4>1. t \in started
        BY <2>5, <3>6 DEF EndsIt
      <4>2. Starts(r) = {t} /\ TheTask(r) = t
        BY <2>3, <3>6, <4>1, OneStart
      <4>3. Starts(r)' = {t} /\ TheTask(r)' = t
        BY <3>6, <4>2 DEF Starts, TheTask, EndsIt
      <4>4. CommandOf(r) = "running"
        BY <3>6, <4>2 DEF CommandOf, EndOf, EndsIt
      <4>5. CommandOf(r)' \in {"ok", "bad", "cut", "gone"}
        BY <2>2, <3>6, <4>3 DEF CommandOf, EndOf, EndsIt
      <4> QED BY <3>1, <4>4, <4>5 DEF RowMoves
    <3> QED BY <2>1, <3>3, <3>4, <3>5, <3>6
  <2> QED BY <2>7, <2>8, <2>9, <2>10 DEF Kept
<1> QED BY <1>2, <1>3 DEF ServiceStep, SvcNext

-----------------------------------------------------------------------------
(* The theorems.                                                           *)

LEMMA InitOwn == ASSUME Init PROVE OwnInv /\ Contract!Init
<1>1. OnceInv
  BY InitOnce
<1>2. started = {} /\ \A t \in Tasks : svc[t].st = "none"
  BY DEF Init, SvcInit, NoTask
<1>3. \A r \in Rows : row[r].st = "backlog"
  BY DEF Init
<1>4. RanIsStarted /\ NoneLeft
  BY <1>2 DEF RanIsStarted, NoneLeft, Ran, Pending
<1>5. OutcomeIsOwn
  <2>1. 1 \in 1..Copies
    BY BoundsAssumption DEF BoundsAssumption
  <2> QED BY <1>3, <2>1 DEF OutcomeIsOwn
<1>6. \A r \in Rows : CommandOf(r) = "not_run" /\ AnswerOf(r) = "open"
  BY <1>2, <1>3 DEF CommandOf, AnswerOf, Starts, TERMINAL
<1> QED BY <1>1, <1>4, <1>5, <1>6 DEF OwnInv, Contract!Init

LEMMA OwnStep ==
  ASSUME MaxCrashes = 0, Copies = 1, ~Idempotent, OwnInv, [Next]_vars
  PROVE  OwnInv' /\ [Contract!Next]_(Contract!vars)
<1>1. OnceInv'
  BY OnceStep DEF OwnInv
<1>2. TypeInv /\ FutInv
  BY DEF OwnInv, OnceInv, FutInv
<1>3. ASSUME Kept PROVE OwnInv' /\ [Contract!Next]_(Contract!vars)
  BY <1>1, <1>3, ContractStep DEF Kept, OwnInv
<1>4. CASE PassStep \/ UserStep
  BY <1>2, <1>3, <1>4, ServerOwn, SettlesKeeps, TypeInvStep
<1>5. CASE SdkStep
  BY <1>3, <1>5, SdkOwn
<1>6. CASE ServiceStep
  BY <1>3, <1>6, ServiceOwn
<1>7. CASE UNCHANGED vars
  <2>1. row' = row /\ svc' = svc /\ started' = started
    BY <1>7 DEF vars, svcVars, ledgerVars
  <2>2. SettlesOwn /\ KeepsSettled
    BY <2>1 DEF SettlesOwn, KeepsSettled
  <2> QED BY <1>3, <2>1, <2>2, SettlesKeeps
<1> QED BY <1>2, <1>4, <1>5, <1>6, <1>7, NoDeath DEF Next

(* A row of a non-idempotent batch is done only by an attempt that ended   *)
(* with rc 0 and failed only by one that ended badly, its current one,     *)
(* whatever late, stray or repeated results were read.                     *)
THEOREM OutcomesAreOwn ==
  ASSUME MaxCrashes = 0, Copies = 1, ~Idempotent
  PROVE  Spec => []OutcomeIsOwn
<1>1. OwnInv => OutcomeIsOwn
  BY DEF OwnInv
<1>2. OwnInv /\ [Next]_vars => OwnInv'
  BY OwnStep
<1>3. Init => OwnInv
  BY InitOwn
<1> QED BY <1>1, <1>2, <1>3, PTL DEF Spec

(* The engine implements the contract: a row of a non-idempotent batch     *)
(* starts one command at most, is answered once, and by what that command  *)
(* did; after any answer but "lost" it never starts.                       *)
THEOREM EngineImplementsContract ==
  ASSUME MaxCrashes = 0, Copies = 1, ~Idempotent
  PROVE  Spec => Implements
<1>1. Init => OwnInv /\ Contract!Init
  BY InitOwn
<1>2. OwnInv /\ [Next]_vars => OwnInv' /\ [Contract!Next]_(Contract!vars)
  BY OwnStep
<1> QED BY <1>1, <1>2, PTL DEF Spec, Implements, Contract!Spec

-----------------------------------------------------------------------------
(* The window.  A task that waits or runs holds its row's slot, until its  *)
(* block is over.                                                          *)

(* The block recorded for a row in flight is the one its task was sent for *)
(* (README, old block learnt); a facility endpoint settles nothing by it.  *)
JobsAreTrue ==
  Ssh => \A t \in Tasks : svc[t].st \in Pending /\ row[t[1]].st = "in_flight" => row[t[1]].job = svc[t].blk

HeldOrOver ==
  \A t \in Tasks : svc[t].st \in Pending =>
     row[t[1]].st \in HOLDING \/ (svc[t].blk \in Blocks /\ blockUp[svc[t].blk] = "ended")
RoomKept == Cardinality(InState(HOLDING)) <= Capacity
DoneOver == bstate = "done" => \A r \in Rows : row[r].st \in TERMINAL

WinInv == OwnInv /\ HeldOrOver /\ RoomKept /\ DoneOver

LEMMA RowsFinite == IsFiniteSet(Rows) /\ Rows \subseteq Nat /\ \A S : IsFiniteSet(InState(S))
<1>1. IsFiniteSet(Rows) /\ Rows \subseteq Nat
  BY BoundsAssumption, FS_Interval DEF BoundsAssumption, Rows
<1> QED BY <1>1, FS_Subset DEF InState

(* The first k members of a finite set of numbers are at most k.           *)
LEMMA FirstOnes ==
  ASSUME NEW S, IsFiniteSet(S), S \subseteq Nat, NEW k \in Nat,
         NEW T, T = {r \in S : Cardinality({q \in S : q < r}) < k}
  PROVE  IsFiniteSet(T) /\ Cardinality(T) <= k
<1> DEFINE below(r) == {q \in S : q < r}
           f == [r \in T |-> Cardinality(below(r)) + 1]
<1>1. ASSUME NEW r \in S PROVE IsFiniteSet(below(r)) /\ Cardinality(below(r)) \in Nat
  <2>1. IsFiniteSet(below(r))
    BY FS_Subset
  <2> QED BY <2>1, FS_CardinalityType
<1>2. ASSUME NEW r \in S, NEW s \in S, r < s PROVE Cardinality(below(r)) < Cardinality(below(s))
  <2>0. r \in Nat /\ s \in Nat /\ S \subseteq Nat
    OBVIOUS
  <2>1. below(r) \in SUBSET below(s) /\ r \in below(s) /\ r \notin below(r)
    <3>1. r < s
      BY <1>2
    <3>2. ASSUME NEW q \in S, q < r PROVE q < s
      <4>1. q \in Nat
        BY <2>0
      <4> QED BY <2>0, <3>1, <3>2, <4>1
    <3>3. ~(r < r)
      BY <2>0
    <3> QED BY <3>1, <3>2, <3>3
  <2> HIDE DEF below
  <2>2. PICK A, B : A = below(r) /\ B = below(s)
    OBVIOUS
  <2>3. A \in SUBSET B /\ A # B /\ IsFiniteSet(B) /\ Cardinality(A) \in Nat /\ Cardinality(B) \in Nat
    BY <1>1, <2>1, <2>2
  <2>4. Cardinality(A) <= Cardinality(B) /\ Cardinality(A) # Cardinality(B)
    BY <2>3, FS_Subset
  <2> QED BY <2>2, <2>3, <2>4
<1>3. T \subseteq S /\ \A r \in T : Cardinality(below(r)) < k
  OBVIOUS
<1> HIDE DEF below
<1>4. \A r \in T : f[r] \in 1..k
  BY <1>1, <1>3
<1>5. \A r, s \in T : f[r] = f[s] => r = s
  <2> SUFFICES ASSUME NEW r \in T, NEW s \in T, r # s PROVE f[r] # f[s]
    OBVIOUS
  <2>1. r \in Nat /\ s \in Nat /\ (r < s \/ s < r)
    BY <1>3
  <2>2. Cardinality(below(r)) # Cardinality(below(s)) /\ Cardinality(below(r)) \in Nat /\ Cardinality(below(s)) \in Nat
    BY <1>1, <1>2, <1>3, <2>1
  <2> QED BY <2>2
<1>6. f \in Injection(T, 1..k)
  BY <1>4, <1>5 DEF Injection, IsInjective
<1> HIDE DEF f
<1>7. IsFiniteSet(1..k) /\ Cardinality(1..k) = k
  BY FS_Interval
<1> QED BY <1>6, <1>7, FS_Injection

-----------------------------------------------------------------------------
(* No step but an admission gives a row a slot; only `_maybe_done` ends    *)
(* the batch.                                                              *)

TakesNone == \A r \in Rows : row'[r].st \in HOLDING => row[r].st \in HOLDING
EndsOver  == bstate' = "done" => bstate = "done" \/ Over

LEMMA PauseEndsOver == ASSUME Pause \/ GoOn PROVE EndsOver
BY DEF Pause, PauseOf, GoOn, EndsOver

LEMMA PassTakesNone == ASSUME TypeInv, PassStep, ~PassAdmits PROVE TakesNone /\ EndsOver
<1>0. Passed => TakesNone
  BY DEF Passed, OnlySettles, TakesNone
<1>1. ASSUME NEW D \in SUBSET DoneFutures, Collect(D) PROVE TakesNone /\ EndsOver
  BY <1>0, <1>1, CollectTypes, PauseEndsOver DEF Collect, Aftermath
<1>2. CASE RestPull
  BY <1>0, <1>2, RestPullTypes, PauseEndsOver DEF RestPull, Aftermath
<1>3. CASE SkipLookup \/ PassFails \/ ReadGroups
  BY <1>3 DEF SkipLookup, PassFails, ReadGroups, TakesNone, EndsOver
<1>4. CASE SettleUnsent
  BY <1>0, <1>4, SettleUnsentTypes, PauseEndsOver DEF SettleUnsent, Aftermath
<1>5. CASE Reconcile
  BY <1>0, <1>5, ReconcileTypes, PauseEndsOver DEF Reconcile, Aftermath
<1>6. ASSUME NEW P \in SUBSET Rows, Presume(P) PROVE TakesNone /\ EndsOver
  BY <1>0, <1>6, PresumeTypes DEF Presume, EndsOver
<1>7. ASSUME NEW n \in Blocks, Evidence(n) PROVE TakesNone /\ EndsOver
  BY <1>0, <1>7, EvidenceTypes, PauseEndsOver DEF Evidence
<1>8. CASE PassFinds
  BY <1>8 DEF PassFinds, TakesNone, EndsOver
<1>9. CASE PassCancels
  <2>1. ApplyCancel(cancelReq)
    BY <1>9 DEF PassCancels
  <2>2. TakesNone
    BY <2>1, Typed DEF ApplyCancel, TakesNone, TypeInv, RowRec, HOLDING
  <2> QED BY <2>1, <2>2 DEF ApplyCancel, EndsOver, PauseOf
<1> QED BY <1>1, <1>2, <1>3, <1>4, <1>5, <1>6, <1>7, <1>8, <1>9 DEF PassStep

LEMMA UserTakesNone == ASSUME TypeInv, UserStep, ~ResumeAdmits PROVE TakesNone /\ EndsOver
<1>1. ASSUME NEW mode \in {"drain", "abort"}, Cancels(mode) PROVE TakesNone /\ EndsOver
  <2>1. ApplyCancel(mode)
    BY <1>1 DEF Cancels
  <2>2. TakesNone
    BY <2>1, Typed DEF ApplyCancel, TakesNone, TypeInv, RowRec, HOLDING
  <2> QED BY <2>1, <2>2 DEF ApplyCancel, EndsOver, PauseOf
<1>2. ASSUME NEW mode \in {"drain", "abort"}, RecordsCancel(mode) PROVE UNCHANGED <<row, bstate>>
  BY <1>2, Zenon DEF RecordsCancel
<1>3. ASSUME NEW n \in Blocks, ResumeAdmitsAgain(n) PROVE row' = row /\ bstate' = "admitting"
  BY <1>3 DEF ResumeAdmitsAgain
<1>4. CASE ResumeStarts \/ ResumeFails
  BY <1>4 DEF ResumeStarts, ResumeFails, ledgerVars, TakesNone, EndsOver
<1>5. CASE FindsReaped \/ StopReleases \/ StopEnds \/ \E n \in Blocks : ConfirmsElsewhere(n)
  BY <1>5 DEF FindsReaped, StopReleases, StopEnds, ConfirmsElsewhere, ShapeOnly, StopOnly, TakesNone, EndsOver
<1>6. CASE StopStarts
  BY <1>6 DEF StopStarts, StopOnly, TakesNone, EndsOver
<1> QED BY <1>1, <1>2, <1>3, <1>4, <1>5, <1>6 DEF UserStep, TakesNone, EndsOver

LEMMA NoneTakenKeeps == ASSUME RoomKept, TakesNone PROVE RoomKept'
<1>1. InState(HOLDING)' \in SUBSET InState(HOLDING)
  BY DEF TakesNone, InState
<1>2. IsFiniteSet(InState(HOLDING))
  BY RowsFinite
<1>3. Cardinality(InState(HOLDING)') <= Cardinality(InState(HOLDING))
  BY <1>1, <1>2, FS_Subset
<1>4. Cardinality(InState(HOLDING)') \in Nat /\ Cardinality(InState(HOLDING)) \in Nat
  BY <1>1, <1>2, FS_Subset, FS_CardinalityType
<1>5. Capacity \in Nat
  BY EngineAssumption, Zenon DEF EngineAssumption
<1> QED BY <1>3, <1>4, <1>5 DEF RoomKept

LEMMA SendsKeepRoom ==
  ASSUME TypeInv, RoomKept, NEW e \in BOOLEAN, NEW k \in 0..NumRows, Sends(e, k)
  PROVE  RoomKept'
<1> DEFINE sent == {r \in Reserved : Cardinality({q \in Reserved : q < r}) < k}
<1>1. row' = [r \in Rows |->
                IF r \notin Reserved THEN row[r]
                ELSE [st |-> IF r \in sent THEN "in_flight" ELSE "backlog", att |-> row[r].att + 1, tid |-> 0,
                      job |-> IF r \in sent THEN Ready.job ELSE row[r].job]]
  BY DEF Sends
<1> HIDE DEF sent
<1>2. PICK H : H = InState(HOLDING)
  OBVIOUS
<1>3. IsFiniteSet(H) /\ Cardinality(H) \in Nat /\ Cardinality(H) <= Capacity
  BY <1>2, RowsFinite, FS_CardinalityType DEF RoomKept
<1>4. Capacity \in Nat
  BY EngineAssumption, Zenon DEF EngineAssumption
<1>5. PICK room \in Nat : room = Room /\ room = Capacity - Cardinality(H)
  BY <1>2, <1>3, <1>4 DEF Room
<1>6. IsFiniteSet(Backlog) /\ Backlog \subseteq Nat
  BY RowsFinite DEF Backlog, InState
<1>7. PICK T : T = Reserved
  OBVIOUS
<1>8. T = {r \in Backlog : Cardinality({q \in Backlog : q < r}) < room}
  BY <1>5, <1>7 DEF Reserved
<1>9. IsFiniteSet(T) /\ Cardinality(T) <= room /\ Cardinality(T) \in Nat
  <2>1. IsFiniteSet(T) /\ Cardinality(T) <= room
    BY <1>6, <1>8, FirstOnes
  <2> QED BY <2>1, FS_CardinalityType
<1>10. InState(HOLDING)' \in SUBSET (H \cup T)
  BY <1>1, <1>2, <1>7 DEF InState
<1>11. IsFiniteSet(H \cap T) /\ Cardinality(H \cap T) \in Nat
  BY <1>3, FS_Subset, FS_CardinalityType
<1>12. IsFiniteSet(H \cup T) /\ Cardinality(H \cup T) = Cardinality(H) + Cardinality(T) - Cardinality(H \cap T)
  BY <1>3, <1>9, FS_Union
<1>13. PICK N : N = InState(HOLDING)'
  OBVIOUS
<1>14. IsFiniteSet(N) /\ Cardinality(N) <= Cardinality(H \cup T)
  BY <1>10, <1>12, <1>13, FS_Subset
<1>15. Cardinality(N) \in Nat
  BY <1>14, FS_CardinalityType
<1>16. Cardinality(N) <= Capacity
  BY <1>3, <1>4, <1>5, <1>9, <1>11, <1>12, <1>14, <1>15
<1> QED BY <1>13, <1>16 DEF RoomKept

LEMMA AdmitKeepsRoom ==
  ASSUME TypeInv, RoomKept, NEW e \in BOOLEAN, Admit(e)
  PROVE  RoomKept' /\ EndsOver
<1>1. CASE AdmitsNothing(e) \/ FindsNoBlock(e) \/ GatePauses(e)
  <2>1. TakesNone
    BY <1>1 DEF AdmitsNothing, FindsNoBlock, GatePauses, TakesNone
  <2>2. Pause \/ GoOn
    BY <1>1 DEF AdmitsNothing, FindsNoBlock, GatePauses
  <2> QED BY <2>1, <2>2, NoneTakenKeeps, PauseEndsOver
<1>2. ASSUME NEW k \in 0..NumRows, Sends(e, k) PROVE RoomKept' /\ EndsOver
  BY <1>2, SendsKeepRoom, PauseEndsOver DEF Sends
<1> QED BY <1>1, <1>2 DEF Admit

LEMMA RoomStep == ASSUME TypeInv, RoomKept, Next, MaxCrashes = 0, FutInv PROVE RoomKept' /\ EndsOver
<1>1. ASSUME TakesNone, EndsOver PROVE RoomKept' /\ EndsOver
  BY <1>1, NoneTakenKeeps
<1>2. CASE PassStep
  <2>1. CASE PassAdmits
    BY <2>1, AdmitKeepsRoom DEF PassAdmits
  <2>2. CASE ~PassAdmits
    BY <1>1, <1>2, <2>2, PassTakesNone
  <2> QED BY <2>1, <2>2
<1>3. CASE UserStep
  <2>1. CASE ResumeAdmits
    BY <2>1, AdmitKeepsRoom DEF ResumeAdmits
  <2>2. CASE ~ResumeAdmits
    BY <1>1, <1>3, <2>2, UserTakesNone
  <2> QED BY <2>1, <2>2
<1>4. CASE SdkStep \/ ServiceStep
  <2>1. UNCHANGED <<row, bstate>>
    BY <1>4 DEF SdkStep, PostAnswered, PostRetried, PostFails, ChannelQuits, SdkOnly, ServiceStep, ledgerVars
  <2> QED BY <1>1, <2>1 DEF TakesNone, EndsOver
<1> QED BY <1>2, <1>3, <1>4, NoDeath DEF Next

LEMMA DoneKeeps == ASSUME TypeInv, TypeInv', DoneOver, EndsOver, KeepsSettled PROVE DoneOver'
<1> SUFFICES ASSUME bstate' = "done", NEW r \in Rows PROVE row'[r].st \in TERMINAL
  BY DEF DoneOver
<1>1. row[r].st \in RowStates
  BY Typed DEF TypeInv, RowRec
<1>2. row[r].st \in TERMINAL
  BY <1>1 DEF EndsOver, DoneOver, Over, InState, RowStates
<1> QED BY <1>2 DEF KeepsSettled

-----------------------------------------------------------------------------
(* A block that ended stays so; a pending task keeps its row's slot.       *)

EndedStays == \A n \in Blocks : blockUp[n] = "ended" => blockUp'[n] = "ended"

LEMMA ConfirmsEnded == ASSUME TypeInv, NEW n, Confirms(n) PROVE EndedStays
<1>1. blockUp \in [Blocks -> {"none", "live", "ended"}]
  BY DEF TypeInv, TypeOK, SvcTypeOK
<1> QED BY <1>1 DEF Confirms, EndedStays

LEMMA BlocksStay == ASSUME TypeInv, Next PROVE EndedStays
<1>0. blockUp' = blockUp => EndedStays
  BY DEF EndedStays
<1>1. CASE PassStep
  <2>1. blockUp' = blockUp
    BY <1>1 DEF PassStep, Collect, RestPull, SkipLookup, PassFails, ReadGroups, SettleUnsent, Reconcile, Presume, Evidence,
                PassAdmits, PassFinds, PassCancels, PassOnly, AdmitOnly, CancelOnly, svcVars
  <2> QED BY <1>0, <2>1
<1>2. CASE SdkStep
  <2>1. blockUp' = blockUp
    BY <1>2 DEF SdkStep, PostAnswered, PostRetried, PostFails, ChannelQuits, SdkOnly
  <2> QED BY <1>0, <2>1
<1>3. CASE UserStep
  <2>1. ASSUME NEW n \in Blocks, ResumeAdmitsAgain(n) \/ ConfirmsElsewhere(n) PROVE EndedStays
    <3>1. Confirms(n)
      BY <2>1 DEF ResumeAdmitsAgain, ConfirmsElsewhere
    <3> QED BY <3>1, ConfirmsEnded
  <2>2. ASSUME NEW mode \in {"drain", "abort"}, RecordsCancel(mode) \/ Cancels(mode) PROVE blockUp' = blockUp
    BY <2>2, Zenon DEF RecordsCancel, Cancels, CancelOnly
  <2>3. CASE ResumeStarts \/ ResumeAdmits \/ ResumeFails \/ FindsReaped \/ StopStarts \/ StopReleases \/ StopEnds
    <3>1. blockUp' = blockUp
      BY <2>3 DEF ResumeStarts, ResumeAdmits, ResumeFails, FindsReaped, StopStarts, StopReleases, StopEnds, AdmitOnly,
                  StopOnly, svcVars
    <3> QED BY <1>0, <3>1
  <2> QED BY <1>0, <1>3, <2>1, <2>2, <2>3 DEF UserStep
<1>4. CASE ServiceStep
  <2>1. ASSUME NEW n \in Blocks, BlockEnds(n) PROVE EndedStays
    <3>1. blockUp \in [Blocks -> {"none", "live", "ended"}]
      BY DEF TypeInv, TypeOK, SvcTypeOK
    <3> QED BY <2>1, <3>1 DEF BlockEnds, EndedStays
  <2>2. ASSUME NEW t \in Tasks, OnNode(t) \/ ReportedLost(t) PROVE blockUp' = blockUp
    BY <2>2 DEF OnNode, GuardRefuses, FindsClaim, SeesMarker, FindsNoSlot, ClaimsAndEnds, StartsCommand, EndsCommand,
                ReportedLost
  <2> QED BY <1>0, <1>4, <2>1, <2>2 DEF ServiceStep, SvcNext
<1>5. CASE Crash \/ Adopt
  BY <1>0, <1>5 DEF Crash, Adopt, svcVars
<1> QED BY <1>1, <1>2, <1>3, <1>4, <1>5 DEF Next

(* A step of the server: a pending task's row is left as it is, or the     *)
(* scheduler says its block is over.                                       *)
LEMMA ServerHolds ==
  ASSUME Copies = 1, WinInv, OwnInv', JobsAreTrue, SettlesOwn, svc' = svc, EndedStays
  PROVE  HeldOrOver'
<1> USE DEF WinInv
<1> SUFFICES ASSUME NEW t \in Tasks, svc[t].st \in Pending, row'[t[1]].st \notin HOLDING
             PROVE  svc[t].blk \in Blocks /\ blockUp'[svc[t].blk] = "ended"
  BY DEF HeldOrOver
<1>1. CASE svc[t].blk \in Blocks /\ blockUp[svc[t].blk] = "ended"
  BY <1>1 DEF EndedStays
<1>2. CASE row[t[1]].st \in HOLDING
  <2>1. t[1] \in Rows /\ t[2] = row[t[1]].att
    BY AttemptsAndTasks DEF OwnInv, OnceInv, OnlyCurrentRuns
  <2>2. row'[t[1]].st \in RowStates /\ row'[t[1]].st # "backlog" /\ row'[t[1]].st \notin {"done", "failed", "cancelled"}
    <3>1. row' \in [Rows -> RowRec]
      BY DEF OwnInv, OnceInv, FutInv, TypeInv, TypeOK, RowRec
    <3>2. row'[t[1]].st \in RowStates
      BY <2>1, <3>1 DEF RowRec
    <3>3. row'[t[1]].st # "backlog"
      BY DEF OwnInv, OnceInv, OnlyCurrentRuns
    <3>4. row'[t[1]].st \notin {"done", "failed", "cancelled"}
      BY DEF OwnInv, NoneLeft
    <3> QED BY <3>2, <3>3, <3>4
  <2>3. row'[t[1]].st = "lost"
    BY <2>2 DEF RowStates, TERMINAL
  <2>4. row'[t[1]].st \in TERMINAL /\ row[t[1]].st \notin TERMINAL
    BY <1>2, <2>3 DEF TERMINAL, HOLDING
  <2>5. ByEvidence(t[1])
    <3>1. ~ \E x \in Tasks : x[1] = t[1] /\ x[2] = row[t[1]].att /\ svc[x].st \in EndAs(row'[t[1]].st)
      <4> SUFFICES ASSUME NEW x \in Tasks, x[1] = t[1], x[2] = row[t[1]].att, svc[x].st \in EndAs("lost") PROVE FALSE
        BY <2>3
      <4>1. x = t
        BY <2>1, OneTask
      <4> QED BY <4>1 DEF EndAs, Pending
    <3>2. row'[t[1]].st # "cancelled"
      BY <2>3
    <3> QED BY <2>1, <2>4, <3>1, <3>2 DEF SettlesOwn
  <2>6. row[t[1]].job = svc[t].blk
    BY <2>5 DEF ByEvidence, JobsAreTrue
  <2>7. svc[t].blk \in Blocks /\ blockUp[svc[t].blk] = "ended"
    BY <2>5, <2>6 DEF ByEvidence
  <2> QED BY <2>7 DEF EndedStays
<1> QED BY <1>1, <1>2 DEF HeldOrOver

LEMMA SdkHolds == ASSUME Copies = 1, WinInv, SdkStep PROVE HeldOrOver'
<1> USE DEF WinInv, OwnInv, OnceInv, FutInv
<1>1. PICK a \in Attempts : PostAnswered(a) \/ PostFails(a) \/ ChannelQuits(a)
  BY DEF SdkStep, PostRetried
<1>2. row' = row /\ blockUp' = blockUp
  BY <1>1 DEF PostAnswered, PostFails, ChannelQuits, SdkOnly, ledgerVars
<1> DEFINE T == Task(a, 1)
<1>3. T \in Tasks /\ T[1] = a[1] /\ T[2] = a[2]
  BY AttemptsAndTasks DEF Task
<1>4. CASE svc' = svc
  BY <1>2, <1>4 DEF HeldOrOver
<1>5. CASE svc' # svc
  <2>1. fut[a].st = "queued"
    BY <1>1, <1>5 DEF PostAnswered, PostFails, ChannelQuits
  <2>2. PICK g : svc' = Posted(a, 1, g)
    BY <1>1, <1>5 DEF PostAnswered, PostFails, ChannelQuits
  <2>3. svc' = [svc EXCEPT ![T] = [st |-> "queued", blk |-> fut[a].blk, grp |-> g]]
    BY <2>2 DEF Posted
  <2>4. row[a[1]].st \in HOLDING
    BY <2>1 DEF FuturesAreOut, Open, HOLDING
  <2>5. \A x \in Tasks : x # T => svc'[x] = svc[x]
    BY <1>3, <2>3, Typed DEF TypeInv
  <2> HIDE DEF T
  <2> QED BY <1>2, <1>3, <2>4, <2>5 DEF HeldOrOver
<1> QED BY <1>4, <1>5

LEMMA ServiceHolds == ASSUME WinInv, ServiceStep, EndedStays PROVE HeldOrOver'
<1> USE DEF WinInv, OwnInv, OnceInv, FutInv
<1>1. row' = row
  BY DEF ServiceStep, ledgerVars
<1>2. \A t \in Tasks : svc'[t].st \in Pending => svc[t].st \in Pending /\ svc'[t].blk = svc[t].blk
  <2>1. CASE \E n \in Blocks : BlockEnds(n)
    BY <2>1 DEF BlockEnds
  <2>2. ASSUME NEW t \in Tasks, OnNode(t) \/ ReportedLost(t)
        PROVE  \A x \in Tasks : svc'[x].st \in Pending => svc[x].st \in Pending /\ svc'[x].blk = svc[x].blk
    <3>1. PICK s : Moves(t, s) /\ svc[t].st \in Pending
      BY <2>2 DEF OnNode, GuardRefuses, FindsClaim, SeesMarker, FindsNoSlot, ClaimsAndEnds, StartsCommand, EndsCommand,
                  ReportedLost, Reached, Pending
    <3>2. svc'[t].blk = svc[t].blk /\ \A x \in Tasks : x # t => svc'[x] = svc[x]
      BY <3>1, Typed DEF Moves, TypeInv, SvcRec
    <3> QED BY <3>1, <3>2
  <2> QED BY <2>1, <2>2 DEF ServiceStep, SvcNext
<1> QED BY <1>1, <1>2 DEF HeldOrOver, EndedStays

LEMMA InitWin == ASSUME Init PROVE WinInv
<1>1. OwnInv
  BY InitOwn
<1>2. \A t \in Tasks : svc[t].st = "none"
  BY DEF Init, SvcInit, NoTask
<1>3. HeldOrOver
  BY <1>2 DEF HeldOrOver, Pending
<1>4. InState(HOLDING) = {}
  BY DEF Init, InState, HOLDING
<1>5. Cardinality(InState(HOLDING)) = 0
  BY <1>4, FS_EmptySet
<1>6. Capacity \in Nat
  BY EngineAssumption, Zenon DEF EngineAssumption
<1>7. DoneOver
  BY DEF Init, DoneOver
<1> QED BY <1>1, <1>3, <1>5, <1>6, <1>7 DEF WinInv, RoomKept

LEMMA WinStep ==
  ASSUME MaxCrashes = 0, Copies = 1, ~Idempotent, WinInv, JobsAreTrue, [Next]_vars
  PROVE  WinInv'
<1>1. OwnInv'
  BY OwnStep DEF WinInv
<1>2. TypeInv /\ FutInv /\ TypeInv'
  BY <1>1 DEF WinInv, OwnInv, OnceInv, FutInv
<1>3. CASE Next
  <2>1. RoomKept' /\ DoneOver'
    BY <1>2, <1>3, RoomStep, DoneKeeps, TypeInvStep DEF WinInv
  <2>2. EndedStays
    BY <1>2, <1>3, BlocksStay
  <2>3. CASE PassStep \/ UserStep
    <3>1. SettlesOwn /\ svc' = svc
      BY <1>2, <2>3, ServerOwn
    <3> QED BY <1>1, <2>1, <2>2, <3>1, ServerHolds DEF WinInv
  <2>4. CASE SdkStep
    BY <1>1, <2>1, <2>4, SdkHolds DEF WinInv
  <2>5. CASE ServiceStep
    BY <1>1, <2>1, <2>2, <2>5, ServiceHolds DEF WinInv
  <2> QED BY <1>2, <1>3, <2>3, <2>4, <2>5, NoDeath DEF Next
<1>4. CASE UNCHANGED vars
  <2>1. UNCHANGED <<row, svc, blockUp, bstate>>
    BY <1>4 DEF vars, svcVars, ledgerVars
  <2> QED BY <1>1, <2>1 DEF WinInv, HeldOrOver, RoomKept, DoneOver, InState
<1> QED BY <1>3, <1>4

LEMMA WindowOf == ASSUME Copies = 1, WinInv PROVE WindowKept
<1> USE DEF WinInv
<1> DEFINE P == {t \in Tasks : svc[t].st \in Pending /\ blockUp[svc[t].blk] = "live"}
           f == [t \in P |-> t[1]]
<1>1. \A t \in P : t \in Tasks /\ t[1] \in InState(HOLDING) /\ t[2] = row[t[1]].att
  BY AttemptsAndTasks DEF HeldOrOver, InState, OwnInv, OnceInv, OnlyCurrentRuns
<1>2. \A x, y \in P : x[1] = y[1] => x = y
  BY <1>1, OneTask
<1> HIDE DEF P
<1>3. f \in Injection(P, InState(HOLDING))
  BY <1>1, <1>2 DEF Injection, IsInjective
<1>4. IsFiniteSet(InState(HOLDING))
  BY RowsFinite
<1>5. IsFiniteSet(P) /\ Cardinality(P) <= Cardinality(InState(HOLDING))
  <2> HIDE DEF f
  <2>1. PICK H : H = InState(HOLDING)
    OBVIOUS
  <2>2. f \in Injection(P, H) /\ IsFiniteSet(H)
    BY <1>3, <1>4, <2>1
  <2>3. IsFiniteSet(P) /\ Cardinality(P) <= Cardinality(H)
    BY <2>2, FS_Injection
  <2> QED BY <2>1, <2>3
<1>6. Cardinality(P) \in Nat /\ Cardinality(InState(HOLDING)) \in Nat /\ Capacity \in Nat
  <2>1. Capacity \in Nat
    BY EngineAssumption, Zenon DEF EngineAssumption
  <2> QED BY <1>4, <1>5, <2>1, FS_CardinalityType
<1>7. Cardinality(P) <= Capacity
  BY <1>5, <1>6 DEF RoomKept
<1> QED BY <1>7 DEF WindowKept, P

(* The tasks that wait or run at a live block never exceed the window, for *)
(* any number of rows, whatever is presumed lost, of unknown fate,         *)
(* refused, cancelled, resumed or stopped; on SSH as long as the block     *)
(* recorded for a row is the one it was sent for.                          *)
THEOREM WindowIsKept ==
  ASSUME MaxCrashes = 0, Copies = 1, ~Idempotent
  PROVE  Spec /\ []JobsAreTrue => []WindowKept
<1>1. Init => WinInv
  BY InitWin
<1>2. WinInv /\ JobsAreTrue /\ [Next]_vars => WinInv'
  BY WinStep
<1>3. WinInv => WindowKept
  BY WindowOf
<1> QED BY <1>1, <1>2, <1>3, PTL DEF Spec

(* A batch `_maybe_done` has called done has nothing left that runs on a   *)
(* live block, under the same conditions: no row is answered, and no slot  *)
(* given up, by anything but its own task's end.                           *)
THEOREM DoneMeansQuiet ==
  ASSUME MaxCrashes = 0, Copies = 1, ~Idempotent
  PROVE  Spec /\ []JobsAreTrue => []DoneIsQuiet
<1>1. Init => WinInv
  BY InitWin
<1>2. WinInv /\ JobsAreTrue /\ [Next]_vars => WinInv'
  BY WinStep
<1>3. WinInv => DoneIsQuiet
  <2> SUFFICES ASSUME WinInv, bstate = "done", NEW t \in Tasks, svc[t].st = "running"
               PROVE  blockUp[svc[t].blk] # "live"
    BY DEF DoneIsQuiet
  <2>1. row[t[1]].st \in TERMINAL
    BY AttemptsAndTasks DEF WinInv, DoneOver
  <2>2. row[t[1]].st \notin HOLDING
    BY <2>1 DEF TERMINAL, HOLDING
  <2> QED BY <2>2 DEF WinInv, HeldOrOver, Pending
<1> QED BY <1>1, <1>2, <1>3, PTL DEF Spec
=============================================================================
