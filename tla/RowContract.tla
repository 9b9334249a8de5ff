---------------------------- MODULE RowContract ----------------------------
(***************************************************************************)
(* What a batch promises of a row that may not be run again, without any   *)
(* of the machinery behind it: no attempts, no tasks, no futures, groups,  *)
(* blocks or passes.  A row's command runs once, if it runs; the batch     *)
(* answers for the row once, and the answer is what the command did:       *)
(*   - "done" and "failed" are how the command itself ended;               *)
(*   - "cancelled" says that it did not run to its end, and will not;      *)
(*   - "lost" says that nobody knows: the one answer a command may still   *)
(*     start after (the record of the block it was thought to be on said   *)
(*     that block ended).                                                  *)
(***************************************************************************)
CONSTANT Rows

VARIABLES
  command,    \* [Rows -> what the row's command did]
  answer      \* [Rows -> what the batch says of the row]

vars == <<command, answer>>

(* "cut": ended on the batch's cancel; "gone": it died with its node.      *)
Init ==
  /\ command = [r \in Rows |-> "not_run"]
  /\ answer = [r \in Rows |-> "open"]

Starts(r) ==
  /\ command[r] = "not_run" /\ command'[r] = "running"
  /\ answer[r] \in {"open", "lost"} /\ answer'[r] = answer[r]

Ends(r) ==
  /\ command[r] = "running" /\ command'[r] \in {"ok", "bad", "cut", "gone"}
  /\ answer'[r] = answer[r]

Answered(r) ==
  /\ answer[r] = "open"
  /\ \/ answer'[r] = "done" /\ command[r] = "ok"
     \/ answer'[r] = "failed" /\ command[r] = "bad"
     \/ answer'[r] = "cancelled" /\ command[r] \in {"not_run", "cut"}
     \/ answer'[r] = "lost"
  /\ command'[r] = command[r]

Rests(r) == command'[r] = command[r] /\ answer'[r] = answer[r]

(* One pass of the batch answers for several rows at once.                 *)
Next == \A r \in Rows : Starts(r) \/ Ends(r) \/ Answered(r) \/ Rests(r)

Spec == Init /\ [][Next]_vars
=============================================================================
