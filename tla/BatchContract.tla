--------------------------- MODULE BatchContract ---------------------------
(***************************************************************************)
(* The batch engine against what it promises of each row (RowContract).    *)
(* The row's answer is its state on the ledger once that is terminal; its  *)
(* command is the one task of it that started, over all its attempts,      *)
(* blocks and copies: what the wrapper did, not what the ledger believes.  *)
(***************************************************************************)
EXTENDS BatchEngine

EndOf(s) ==
  CASE s \in {"running", "ok"}    -> s
    [] s \in {"bad", "noline"}    -> "bad"
    [] s = "marker"               -> "cut"
    [] OTHER                      -> "gone"

TheTask(r)   == CHOOSE t \in Starts(r) : TRUE
CommandOf(r) == IF Starts(r) = {} THEN "not_run" ELSE EndOf(svc[TheTask(r)].st)
AnswerOf(r)  == IF row[r].st \in TERMINAL THEN row[r].st ELSE "open"

Contract == INSTANCE RowContract
            WITH command <- [r \in Rows |-> CommandOf(r)], answer <- [r \in Rows |-> AnswerOf(r)]

(* The engine implements the contract in a batch whose rows may not be run *)
(* again: whatever it retries, presumes, reconciles, cancels or resumes,   *)
(* each row starts one command at most, and is answered once, by what that *)
(* command did.                                                            *)
Implements == Contract!Spec
=============================================================================
