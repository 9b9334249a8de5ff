--------------------------- MODULE ComputeService ---------------------------
(***************************************************************************)
(* What lies beyond the hpc-bridge server for one batch: the Globus        *)
(* Compute service that keeps each task and its result, the scheduler      *)
(* blocks (pilot jobs), and the wrapper script every task of the batch     *)
(* runs on the node (`task_script`, batch.py).  The service and the        *)
(* scheduler are external: they are modelled from how batch.py uses them.  *)
(*                                                                         *)
(* A task <<r, n, c>> is copy c of attempt n of row r: a POST the          *)
(* transport retries reaches the service twice.                            *)
(***************************************************************************)
EXTENDS Integers, FiniteSets

CONSTANTS
  NumRows,      \* rows of the batch
  MaxAttempt,   \* bound: attempts of one row
  Copies,       \* bound: copies of one attempt's task at the service (2: one retried POST)
  MaxBlocks,    \* bound: blocks ever confirmed
  MaxRunners    \* bound: executors the servers ever build for the batch

ASSUME BoundsAssumption ==
  /\ NumRows \in Nat \ {0}
  /\ MaxAttempt \in Nat \ {0}
  /\ Copies \in {1, 2}
  /\ MaxBlocks \in Nat \ {0}
  /\ MaxRunners \in Nat \ {0}

Rows     == 1..NumRows
Blocks   == 1..MaxBlocks
Runners  == 1..MaxRunners
Attempts == Rows \X (1..MaxAttempt)
Tasks    == Rows \X (1..MaxAttempt) \X (1..Copies)

Task(a, c)  == <<a[1], a[2], c>>
Attempt(t)  == <<t[1], t[2]>>

(* A task's state at the service.  "queued" and "running" are what REST    *)
(* calls pending.  A result that carries the wrapper's HPCB_RESULT line    *)
(* names its row and attempt: rc 0, another rc, ended by the CANCELLED     *)
(* marker, no free slot on its node (it ran nothing), or a duplicate of an *)
(* attempt already claimed.  The others carry no line: the command ran and *)
(* the wrapper died ("noline"), the manager or worker was lost ("lost"),   *)
(* or the wrong-block guard refused it ("refused").                        *)
Pending    == {"queued", "running"}
WithLine   == {"ok", "bad", "marker", "busy", "dup"}
Settled    == WithLine \cup {"noline", "lost", "refused"}
TaskStates == {"none"} \cup Pending \cup Settled

VARIABLES
  svc,       \* [Tasks -> record]: the service's tasks: state, the block each was sent for, its task group
  claimed,   \* attempts whose attempt-<n> directory exists (the wrapper's atomic mkdir)
  started,   \* tasks that started their command
  blockUp,   \* [Blocks -> "none" | "live" | "ended"]: the confirmed scheduler blocks
  marker     \* the batch's CANCELLED marker exists in its results directory

svcVars == <<svc, claimed, started, blockUp, marker>>

NoTask == [st |-> "none", blk |-> 0, grp |-> 0]

SvcTypeOK ==
  /\ svc \in [Tasks -> [st : TaskStates, blk : {0} \cup Blocks, grp : {0} \cup Runners]]
  /\ claimed \in SUBSET Attempts
  /\ started \in SUBSET Tasks
  /\ blockUp \in [Blocks -> {"none", "live", "ended"}]
  /\ marker \in BOOLEAN

(* The run starts on block 1, confirmed and up, with nothing sent.         *)
SvcInit ==
  /\ svc = [t \in Tasks |-> NoTask]
  /\ claimed = {}
  /\ started = {}
  /\ blockUp = [n \in Blocks |-> IF n = 1 THEN "live" ELSE "none"]
  /\ marker = FALSE

Moves(t, s) == svc' = [svc EXCEPT ![t].st = s]

-----------------------------------------------------------------------------
(* The wrapper, in the order of the script: the wrong-block guard, the     *)
(* claim of attempt-<n>, the CANCELLED marker, the row's slot, the command.*)

Reached(t, s) == svc[t].st = "queued" /\ svc[t].blk # 0 /\ blockUp[svc[t].blk] = s

(* The block it was sent for is gone; the endpoint started another for it, *)
(* which the guard refuses before anything else.                           *)
GuardRefuses(t) ==
  /\ Reached(t, "ended")
  /\ Moves(t, "refused")
  /\ UNCHANGED <<claimed, started, blockUp, marker>>

(* A second copy finds the attempt's directory: it exits as a duplicate.   *)
FindsClaim(t) ==
  /\ Reached(t, "live")
  /\ Attempt(t) \in claimed
  /\ Moves(t, "dup")
  /\ UNCHANGED <<claimed, started, blockUp, marker>>

ClaimsAndEnds(t, s) ==
  /\ Reached(t, "live")
  /\ Attempt(t) \notin claimed
  /\ claimed' = claimed \cup {Attempt(t)}
  /\ Moves(t, s)
  /\ UNCHANGED <<started, blockUp, marker>>

(* The marker is checked after the claim: nothing of the row runs.         *)
SeesMarker(t) == marker /\ ClaimsAndEnds(t, "marker")

(* No free slot on the node within the claim wait (or its lock directory   *)
(* refused it): the attempt is claimed and runs nothing.                   *)
FindsNoSlot(t) == ~marker /\ ClaimsAndEnds(t, "busy")

StartsUnclaimed(t) ==                             \* mutant: the claim of attempt-<n> is no condition
  /\ ~marker
  /\ Reached(t, "live")
  /\ claimed' = claimed \cup {Attempt(t)}
  /\ started' = started \cup {t}
  /\ Moves(t, "running")
  /\ UNCHANGED <<blockUp, marker>>

StartsCommand(t) ==
  /\ ~marker
  /\ Reached(t, "live")
  /\ Attempt(t) \notin claimed
  /\ claimed' = claimed \cup {Attempt(t)}
  /\ started' = started \cup {t}
  /\ Moves(t, "running")
  /\ UNCHANGED <<blockUp, marker>>

(* The command ends, or its watcher ends it at its time or on the marker.  *)
EndsCommand(t, s) ==
  /\ svc[t].st = "running"
  /\ blockUp[svc[t].blk] = "live"
  /\ s = "marker" => marker
  /\ Moves(t, s)
  /\ UNCHANGED <<claimed, started, blockUp, marker>>

(* ManagerLost / WorkerLost, for a task that was running or that a dead    *)
(* block's manager held.                                                   *)
ReportedLost(t) ==
  /\ svc[t].st = "running" \/ Reached(t, "ended")
  /\ Moves(t, "lost")
  /\ UNCHANGED <<claimed, started, blockUp, marker>>

(* A block ends: walltime, idle release, a cancel, a preemption.           *)
BlockEnds(n) ==
  /\ blockUp[n] = "live"
  /\ blockUp' = [blockUp EXCEPT ![n] = "ended"]
  /\ UNCHANGED <<svc, claimed, started, marker>>

OnNode(t) ==
  \/ GuardRefuses(t)
  \/ FindsClaim(t)
  \/ SeesMarker(t)
  \/ FindsNoSlot(t)
  \/ StartsCommand(t)
  \/ \E s \in {"ok", "bad", "noline", "marker"} : EndsCommand(t, s)

SvcNext ==
  \/ \E t \in Tasks : OnNode(t) \/ ReportedLost(t)
  \/ \E n \in Blocks : BlockEnds(n)
=============================================================================
