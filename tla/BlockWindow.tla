---------------------------- MODULE BlockWindow ----------------------------
(***************************************************************************)
(* The window several batches share on one block: `reserve` of ledger.py,  *)
(* as the admission of each batch calls it.                                *)
(*                                                                         *)
(* The batches are on one block config; each is worked on by a server, and *)
(* the servers share nothing but the ledger, where a reservation is one    *)
(* transaction.  Rows are counted by state.  Until the block is measured   *)
(* from inside, rows take a worker each of its window; then each takes the *)
(* CPUs, memory and GPUs of its size from the block's pool.                *)
(***************************************************************************)
EXTENDS Integers, FiniteSets, FiniteSetsExt

CONSTANTS
  NumBatches,
  NumRows,      \* [Batches -> rows]
  Long,         \* batches whose backlog outlasts the run
  Need,         \* [Batches -> [Kinds -> what a row takes of the pool, 0 if not set]]
  Concurrency,  \* [Batches -> rows at once the user allowed, 0 if not said]
  Sized,        \* batches whose size the user chose: they wait for the measure
  Pool,         \* [Kinds -> what the block has for rows]
  Workers,      \* workers of the block
  Configured,   \* workers the block's config names, 0 if none
  MaxJobs,      \* scheduler jobs that serve the config, one after the other
  Elsewhere,    \* batches with one more row, of unknown fate on an earlier block of theirs
  MaxTroubles   \* pauses, deaths of servers, new jobs, failed submits and presumptions, in all

WIDTH_CAP == 32
Kinds == {"cpus", "memory", "gpus"}
Batches == 1..NumBatches

ASSUME WindowAssumption ==
  /\ NumBatches \in Nat \ {0} /\ NumRows \in [Batches -> Nat] /\ Long \subseteq Batches
  /\ Need \in [Batches -> [Kinds -> Nat]] /\ \A b \in Batches : Need[b]["cpus"] > 0
  /\ Concurrency \in [Batches -> Nat] /\ Sized \subseteq Batches /\ Elsewhere \subseteq Batches
  /\ Pool \in [Kinds -> Nat]
  /\ Workers \in Nat \ {0} /\ Configured \in Nat /\ MaxJobs \in Nat \ {0} /\ MaxTroubles \in Nat

(* in_flight: within its walltime and margin; overdue: in flight past      *)
(* them; unheld: of unknown fate, with evidence that its task cannot run;  *)
(* elsewhere: of unknown fate on an earlier block of the batch.            *)
RowStates == {"backlog", "in_flight", "overdue", "submit_unknown", "unheld", "elsewhere", "settled"}

VARIABLES
  rows,      \* [Batches -> [RowStates -> how many rows]]
  lost,      \* [Batches -> [jobs (0: not known) -> rows sent to it and presumed lost]]
  admitting, \* batches in state `admitting`
  alive,     \* batches whose server runs
  capacity,  \* [Batches -> its `capacity` on record]
  want,      \* batches whose `want_at` is fresh
  last,      \* [Batches -> its last admission: 0 never, else the later the higher]
  job,       \* the scheduler job in front
  view,      \* [Batches -> the job its server takes for the one in front, 0 if not known]
  seen,      \* batches whose server was told the worker count
  learnt,    \* the worker count is on the ledger
  measured,  \* the block's measure is on the ledger
  troubles   \* of those, so far

vars == <<rows, lost, admitting, alive, capacity, want, last, job, view, seen, learnt, measured, troubles>>

AtLeast0(n) == IF n < 0 THEN 0 ELSE n

(* Sum of f over the batches.                                              *)
Sum(f) == MapThenSumSet(LAMBDA b : f[b], Batches)

-----------------------------------------------------------------------------
(* What a reservation reads.                                               *)

(* `window_for`.                                                           *)
WindowFor(workers) == IF workers > 1 THEN workers - 1 ELSE 1

(* `held_by`: a batch's rows out, wherever they went.                      *)
HeldBy(b) ==
  rows[b]["in_flight"] + rows[b]["overdue"] + rows[b]["submit_unknown"] + rows[b]["unheld"] + rows[b]["elsewhere"]
  + MapThenSumSet(LAMBDA j : lost[b][j], 0..MaxJobs)

(* `_on_block`: rows of `b` that can still hold a worker of the block, for *)
(* the server of batch `v` ...                                             *)
Holds(v, b) ==
  rows[b]["in_flight"] + rows[b]["submit_unknown"]
  + (IF b \in alive THEN rows[b]["overdue"] ELSE 0)
  + (IF b \in alive /\ view[v] # 0 THEN lost[b][view[v]] ELSE 0)

(* ... and those of the fairness order, the same for every server.         *)
Out(b) == rows[b]["in_flight"] + rows[b]["overdue"] + rows[b]["submit_unknown"]

Peers(b) == {x \in Batches \ {b} : x \in admitting /\ x \in alive}

Waiting(b) == {x \in Peers(b) : rows[x]["backlog"] > 0 /\ x \in want}

(* `_pool`: the workers less the interactive one, at most the width cap.   *)
PoolRows == IF WindowFor(Workers) < WIDTH_CAP THEN WindowFor(Workers) ELSE WIDTH_CAP

(* `_fits`: how many rows of batch `b` fit in what is free.                *)
Fits(b, free, freeRows) ==
  IF freeRows <= 0 THEN 0
  ELSE AtLeast0(Min({freeRows} \cup {free[x] \div Need[b][x] : x \in {k \in Kinds : Need[b][k] > 0}}))

Less(free, b, n) == [x \in Kinds |-> free[x] - n * Need[b][x]]

(* `sizing.fit`: rows of batch `b` the measured block runs at once.        *)
Slots(b) ==
  LET n == Fits(b, Pool, PoolRows)
  IN  IF Concurrency[b] # 0 THEN Min({n, Concurrency[b]}) ELSE n

(* A batch whose row does not fit the measured block pauses for its size   *)
(* and never gets to reserve: no such batch here.                          *)
ASSUME SizesFit == \A b \in Batches : Slots(b) > 0

(* The capacity admission puts on record before it reserves.               *)
CapNow(b) ==
  IF measured THEN Slots(b) ELSE WindowFor(IF b \in seen THEN Workers ELSE Configured)

(* What batch `b`'s reservation reads of the block, once.                  *)
Reading(b) ==
  LET holds == [x \in Batches |-> Holds(b, x)]
  IN [cap     |-> CapNow(b),
      held    |-> [x \in Batches |-> HeldBy(x)],
      holds   |-> holds,
      allHold |-> Sum(holds),
      free    |-> [x \in Kinds |-> Pool[x] - Sum([y \in Batches |-> Need[y][x] * holds[y]])],
      waiting |-> Waiting(b)]

-----------------------------------------------------------------------------
(* Rows a worker each.  `r` is the reading of batch `b`.                   *)

Window(b, r) ==
  Min({r.cap} \cup {capacity[x] : x \in Peers(b) \cup {y \in Batches \ {b} : r.holds[y] > 0}}
      \cup (IF learnt THEN {WindowFor(Workers)} ELSE {}))

WindowRoom(b, r) == AtLeast0(Min({r.cap, Window(b, r) - r.held[b], rows[b]["backlog"]}))

(* Mutant: the other batches' rows are not counted.                        *)
WindowTakeAlone(b, r) == WindowRoom(b, r)

WindowTake(b, r) == Min({WindowRoom(b, r), AtLeast0(Window(b, r) - r.held[b] - (r.allHold - r.holds[b]))})

(* Room of waiter `w`, once `b` has taken `n`.                             *)
WindowRoomAfter(b, r, w, n) == Window(b, r) - r.held[w] - (r.allHold - r.holds[w]) - n

-----------------------------------------------------------------------------
(* Rows of a size, in the measured pool.                                   *)

PoolRoom(b, r) ==
  AtLeast0(Min({r.cap, rows[b]["backlog"], r.cap - r.held[b],
                Fits(b, Less(Pool, b, r.holds[b]), PoolRows - r.holds[b])}
               \cup (IF Concurrency[b] # 0 THEN {Concurrency[b] - r.held[b]} ELSE {})))

PoolFreeTake(b, r) == Min({PoolRoom(b, r), Fits(b, r.free, PoolRows - r.allHold)})

PoolRoomAfter(b, r, w, n) ==
  Min({AtLeast0(capacity[w] - r.held[w]), Fits(w, Less(r.free, b, n), PoolRows - r.allHold - n)})

-----------------------------------------------------------------------------
(* Fairness.                                                               *)

Precedes(p, q) ==
  \/ p[1] < q[1]
  \/ p[1] = q[1] /\ (p[2] < q[2] \/ (p[2] = q[2] /\ p[3] < q[3]))

Rank(b) == <<Out(b), last[b], b>>

(* Rank of `b` once it has taken `n` more: its last admission is now.      *)
RankAfter(b, n) == IF n = 0 THEN Rank(b) ELSE <<Out(b) + n, NumBatches + 1, b>>

RoomAfter(b, r, w, n) == IF measured THEN PoolRoomAfter(b, r, w, n) ELSE WindowRoomAfter(b, r, w, n)

(* Waiters ranked before `b` whose row fits the whole pool, but not what   *)
(* is free of it.                                                          *)
Blocked(b, r) ==
  {w \in r.waiting : /\ Precedes(Rank(w), Rank(b))
                     /\ capacity[w] - r.held[w] > 0
                     /\ Fits(w, Pool, PoolRows) >= 1
                     /\ PoolRoomAfter(b, r, w, 0) = 0}

(* Mutant: no room is kept for a waiter.                                   *)
TakesWhatIsFree(b, r) == PoolFreeTake(b, r)

(* The reservation for the head waiter: the others take only beyond a row  *)
(* of the first of them.                                                   *)
PoolTake(b, r) ==
  IF Blocked(b, r) = {} THEN PoolFreeTake(b, r)
  ELSE LET h == CHOOSE w \in Blocked(b, r) : \A x \in Blocked(b, r) \ {w} : Precedes(Rank(w), Rank(x))
       IN  Min({PoolFreeTake(b, r), Fits(b, Less(r.free, h, 1), PoolRows - r.allHold - 1)})

OwnRoom(b, r) == IF measured THEN PoolRoom(b, r) ELSE WindowRoom(b, r)
Take(b, r) == IF measured THEN PoolTake(b, r) ELSE WindowTake(b, r)

(* Mutant: to a waiter that cannot take it, too.                           *)
DefersToAll(b, r, n) == \E w \in r.waiting : Precedes(Rank(w), RankAfter(b, n))

(* `b`, having taken `n`, leaves the next slot to a waiter.                *)
Defers(b, r, n) == \E w \in r.waiting : RoomAfter(b, r, w, n) > 0 /\ Precedes(Rank(w), RankAfter(b, n))

FairTake(b, r) == Max({n \in 0..Take(b, r) : \A g \in 0..(n - 1) : ~Defers(b, r, g)})

(* `want_at` is stamped when the block's other rows refused it.            *)
Refused(b, r) == Take(b, r) < OwnRoom(b, r)

-----------------------------------------------------------------------------
(* Admission of a batch: a pass of its server.                             *)

Init ==
  /\ rows = [b \in Batches |-> [s \in RowStates |->
               IF s = "backlog" THEN NumRows[b] ELSE IF s = "elsewhere" /\ b \in Elsewhere THEN 1 ELSE 0]]
  /\ lost = [b \in Batches |-> [j \in 0..MaxJobs |-> 0]]
  /\ admitting = Batches /\ alive = Batches
  /\ capacity = [b \in Batches |-> WindowFor(Configured)]
  /\ want = {}
  /\ last = [b \in Batches |-> 0]
  /\ job = 1
  /\ view = [b \in Batches |-> 0]
  /\ seen = {} /\ learnt = FALSE /\ measured = FALSE /\ troubles = 0

(* The batch's pass gets as far as `reserve`: its server knows the block   *)
(* in front, and how much walltime it has left.                            *)
Asks(b) ==
  /\ b \in admitting /\ b \in alive /\ view[b] # 0
  /\ rows[b]["backlog"] > 0
  /\ b \in Sized => measured

Moved(b, from, to, n) ==
  rows' = [rows EXCEPT ![b][from] = IF from = "backlog" /\ b \in Long THEN @ ELSE @ - n,
                       ![b][to] = IF to \in {"backlog", "settled"} /\ b \in Long THEN @ ELSE @ + n]

(* The batches' last admissions, in order, once `b` admits.                *)
Admitted(b) ==
  [x \in Batches |-> IF x = b THEN NumBatches ELSE IF last[x] > last[b] THEN last[x] - 1 ELSE last[x]]

Reserve(b) ==
  /\ Asks(b)
  /\ UNCHANGED <<lost, admitting, alive, job, view, seen, learnt, measured, troubles>>
  /\ capacity' = [capacity EXCEPT ![b] = CapNow(b)]
  /\ LET r == Reading(b)
     IN \E n \in {FairTake(b, r)} :
          /\ Moved(b, "backlog", "in_flight", n)
          /\ last' = IF n > 0 THEN Admitted(b) ELSE last
          /\ want' = IF Refused(b, r) THEN want \cup {b} ELSE want \ {b}

-----------------------------------------------------------------------------
(* What becomes of the rows.                                               *)

Trouble == troubles < MaxTroubles /\ troubles' = troubles + 1

OnlyRows == UNCHANGED <<lost, admitting, alive, capacity, want, last, job, view, seen, learnt, measured, troubles>>

(* Mutant: a settlement does not ask for the row's state.                  *)
FromAnyState(b, s) == rows[b][s] > -1

Has(b, s) == rows[b][s] > 0

(* A row's result; the server of its batch must run to settle it.          *)
Settles(b, s) ==
  /\ b \in alive /\ Has(b, s) /\ s \in {"in_flight", "overdue"}
  /\ Moved(b, s, "settled", 1) /\ OnlyRows

(* It ran nothing: a refusal, a node without a slot, a lost block.         *)
Returns(b, s) ==
  /\ b \in alive /\ Has(b, s) /\ s \in {"in_flight", "overdue"}
  /\ Moved(b, s, "backlog", 1) /\ OnlyRows

(* Its walltime and the margin go by.                                      *)
Overdue(b) ==
  /\ Has(b, "in_flight")
  /\ Moved(b, "in_flight", "overdue", 1) /\ OnlyRows

(* Its submit failed: it may be queued all the same ...                    *)
SubmitUnknown(b) ==
  /\ Trouble
  /\ b \in alive /\ Has(b, "in_flight")
  /\ Moved(b, "in_flight", "submit_unknown", 1)
  /\ UNCHANGED <<lost, admitting, alive, capacity, want, last, job, view, seen, learnt, measured>>

(* ... until there is evidence that it cannot run ...                      *)
Unheld(b) ==
  /\ b \in alive /\ Has(b, "submit_unknown")
  /\ Moved(b, "submit_unknown", "unheld", 1) /\ OnlyRows

(* ... or it is settled or sent again.                                     *)
Reconciles(b, s, to) ==
  /\ b \in alive /\ Has(b, s)
  /\ s \in {"submit_unknown", "unheld", "elsewhere"} /\ to \in {"settled", "backlog"}
  /\ Moved(b, s, to, 1) /\ OnlyRows

(* `_presume`; `j` is the job its server took for the one in front at the  *)
(* send.                                                                   *)
Presume(b, s, j) ==
  /\ Trouble
  /\ b \in alive /\ Has(b, s) /\ s \in {"in_flight", "overdue"} /\ j <= view[b]
  /\ rows' = [rows EXCEPT ![b][s] = @ - 1]
  /\ lost' = [lost EXCEPT ![b][j] = @ + 1]
  /\ UNCHANGED <<admitting, alive, capacity, want, last, job, view, seen, learnt, measured>>

(* Its late result.                                                        *)
LostSettles(b, j) ==
  /\ b \in alive /\ lost[b][j] > 0
  /\ lost' = [lost EXCEPT ![b][j] = @ - 1]
  /\ rows' = IF b \in Long THEN rows ELSE [rows EXCEPT ![b]["settled"] = @ + 1]
  /\ UNCHANGED <<admitting, alive, capacity, want, last, job, view, seen, learnt, measured, troubles>>

-----------------------------------------------------------------------------
(* What the servers learn, and what becomes of them and of the block.      *)

(* A check, or a task's result, from inside the block: its job and workers *)
(* (`_note_block_from_canary`, `_learn_block`), and with a check its       *)
(* measure.                                                                *)
Learns(b, measure) ==
  /\ b \in alive
  /\ view' = [view EXCEPT ![b] = job]
  /\ seen' = seen \cup {b} /\ learnt' = TRUE
  /\ measured' = (measured \/ measure)
  /\ UNCHANGED <<rows, lost, admitting, alive, capacity, want, last, job, troubles>>

(* `want_at` ages only where no pass renews it.                            *)
WantAges(b) ==
  /\ b \in want /\ ~Asks(b)
  /\ want' = want \ {b}
  /\ UNCHANGED <<rows, lost, admitting, alive, capacity, last, job, view, seen, learnt, measured, troubles>>

Pauses(b) ==
  /\ Trouble
  /\ b \in admitting /\ admitting' = admitting \ {b}
  /\ UNCHANGED <<rows, lost, alive, capacity, want, last, job, view, seen, learnt, measured>>

Resumes(b) ==
  /\ b \in alive /\ b \notin admitting
  /\ admitting' = admitting \cup {b}
  /\ UNCHANGED <<rows, lost, alive, capacity, want, last, job, view, seen, learnt, measured, troubles>>

Dies(b) ==
  /\ Trouble
  /\ b \in alive /\ alive' = alive \ {b}
  /\ seen' = seen \ {b} /\ view' = [view EXCEPT ![b] = 0]
  /\ UNCHANGED <<rows, lost, admitting, capacity, want, last, job, learnt, measured>>

(* Another server adopts it: what admitted asks for a yes.                 *)
Adopted(b) ==
  /\ b \notin alive /\ alive' = alive \cup {b}
  /\ admitting' = admitting \ {b}
  /\ UNCHANGED <<rows, lost, capacity, want, last, job, view, seen, learnt, measured, troubles>>

(* The block ends and the endpoint starts another with the same config.    *)
AnotherJob ==
  /\ Trouble
  /\ job < MaxJobs /\ job' = job + 1
  /\ UNCHANGED <<rows, lost, admitting, alive, capacity, want, last, view, seen, learnt, measured>>

-----------------------------------------------------------------------------

RowsMove ==
  \E b \in Batches :
    \/ \E s \in {"in_flight", "overdue"} :
         Settles(b, s) \/ Returns(b, s) \/ \E j \in 0..MaxJobs : Presume(b, s, j)
    \/ Overdue(b) \/ SubmitUnknown(b) \/ Unheld(b)
    \/ \E s \in {"submit_unknown", "unheld", "elsewhere"}, to \in {"settled", "backlog"} : Reconciles(b, s, to)
    \/ \E j \in 0..MaxJobs : LostSettles(b, j)

ServersMove ==
  \/ \E b \in Batches :
       \/ \E measure \in BOOLEAN : Learns(b, measure)
       \/ WantAges(b) \/ Pauses(b) \/ Resumes(b) \/ Dies(b) \/ Adopted(b)
  \/ AnotherJob

Next ==
  \/ \E b \in Batches : Reserve(b)
  \/ RowsMove
  \/ ServersMove

Spec == Init /\ [][Next]_vars

(* A reservation now would change the ledger.                              *)
Counts(b) ==
  /\ Asks(b)
  /\ \/ capacity[b] # CapNow(b)
     \/ LET r == Reading(b)
        IN (b \in want) # Refused(b, r) \/ FairTake(b, r) > 0

(* Passes come round, rows in flight end, and what is of unknown fate or   *)
(* presumed lost is settled in the end, by a server that adopts the batch  *)
(* where its own is gone.  The first is weak fairness of Reserve(b), with  *)
(* Counts(b) for ENABLED <<Reserve(b)>>_vars.                              *)
Fairness ==
  /\ \A b \in Batches :
       /\ []<>~Counts(b) \/ []<><<Reserve(b)>>_vars
       /\ WF_vars(\E m \in BOOLEAN : Learns(b, m))
       /\ WF_vars(\E s \in {"in_flight", "overdue"} : Settles(b, s))
       /\ WF_vars(\E s \in {"submit_unknown", "unheld", "elsewhere"} : Reconciles(b, s, "settled"))
       /\ WF_vars(\E j \in 0..MaxJobs : LostSettles(b, j))
       /\ WF_vars(Adopted(b))
  /\ WF_vars(\E b \in Batches : Learns(b, TRUE))

FairSpec == Spec /\ Fairness

-----------------------------------------------------------------------------
(* Properties.                                                             *)

(* Every variable has its type.                                            *)
TypeOK ==
  /\ rows \in [Batches -> [RowStates -> Nat]]
  /\ lost \in [Batches -> [0..MaxJobs -> Nat]]
  /\ admitting \subseteq Batches /\ alive \subseteq Batches /\ want \subseteq Batches /\ seen \subseteq Batches
  /\ capacity \in [Batches -> Nat]
  /\ last \in [Batches -> 0..NumBatches]
  /\ job \in 1..MaxJobs
  /\ view \in [Batches -> 0..MaxJobs]
  /\ learnt \in BOOLEAN /\ measured \in BOOLEAN
  /\ troubles \in 0..MaxTroubles

(* Rows that are, as far as the ledger knows, at the block: in flight      *)
(* within their time, or of unknown fate.                                  *)
AtBlock(b) == rows[b]["in_flight"] + rows[b]["submit_unknown"]

(* What is at the block fits it, as far as it is known: its workers less   *)
(* the interactive one, and once measured every resource a row of `b`      *)
(* takes.                                                                  *)
FitsBlock(b) ==
  /\ learnt => Sum([c \in Batches |-> AtBlock(c)]) <= WindowFor(Workers)
  /\ measured => \A x \in Kinds : Need[b][x] > 0 =>
       Sum([c \in Batches |-> Need[c][x] * AtBlock(c)]) <= Pool[x]

(* No reservation, of whichever batch and server, puts more at the block   *)
(* than it has of what its rows take: admission of one batch counts every  *)
(* other's rows.                                                           *)
BlockKept ==
  [][\A b \in Batches : rows'[b]["in_flight"] > rows[b]["in_flight"] => FitsBlock(b)']_vars

(* "Two waiters never defer to each other", and none defers to one that    *)
(* cannot take the slot: where some batch could take one, the passes are   *)
(* not stuck, each leaving the ledger as it is.  Not in the while a waiter *)
(* that stopped asking still counts, or a server takes an earlier job for  *)
(* the one in front.                                                       *)
SlotIsTaken ==
  LET Asking == {b \in Batches : Asks(b)}
  IN  want \subseteq Asking /\ (\A b \in Asking : view[b] = job) /\ (\E b \in Asking : Take(b, Reading(b)) > 0)
        => \E b \in Asking : Counts(b)

(* No batch starves beside the others, however long theirs are: one that   *)
(* keeps asking gets a row out.                                            *)
EachIsServed ==
  \A b \in Batches : Asks(b) ~> Out(b) > 0 \/ ~Asks(b)

=============================================================================
