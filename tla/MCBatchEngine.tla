--------------------------- MODULE MCBatchEngine ---------------------------
(* BatchEngine and what it promises (BatchContract) on small instances:     *)
(* the sets of tool calls the runs make.                                   *)
EXTENDS BatchContract

NoCalls       == {}
Resuming      == {"resume"}
ResumeOrDrain == {"resume", "drain"}
ResumeOrStop  == {"resume", "stop"}
Aborting      == {"abort"}
Stopping      == {"stop"}
Elsewhere     == {"confirm"}
AllCalls      == {"drain", "abort", "record drain", "record abort", "resume", "confirm", "stop"}

(* What the code's words promise and TLC refutes, beside what the listed   *)
(* runs show (README, "Where the code and its words part").                *)

(* A row `_reconcile_unsent` returns is none of "this process's own        *)
(* sends": this server holds no future for its current attempt.            *)
OwnSendsKept ==
  [][\A r \in Rows : (pc = "settle" /\ row[r].st = "in_flight" /\ row'[r].st = "backlog" /\ row'[r].tid = 0)
        => Current(r) \notin Open]_vars

(* Rows are sent only to the block the user's run_batch yes is for: a      *)
(* reap, a stop or a restart ends the yes, whatever confirms a block next. *)
SendsOnYes ==
  [][\A a \in Attempts : (fut[a].st = "none" /\ fut'[a].st = "queued") => fut'[a].blk \in yes]_vars

(* An aborted batch has nothing left in its backlog, whatever its rows in  *)
(* flight turn out to be.                                                  *)
AbortEmptiesBacklog == bstate = "cancelled" => Backlog = {}
=============================================================================
