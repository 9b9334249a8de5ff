------------------------------- MODULE Lease -------------------------------
(***************************************************************************)
(* The lease of one batch (ledger.py) among the hpc-bridge servers of a    *)
(* machine: who may admit its rows, who may take it over, and what a       *)
(* server that took it over may conclude about rows another reserved.      *)
(*                                                                         *)
(* A server is one process from its start to its death.  The lease names   *)
(* its holder by pid and start time; a pid may be handed on, to another    *)
(* server or to a foreign program.  Servers interleave at every ledger     *)
(* transaction: a server may be suspended between any two of them, for     *)
(* longer than a heartbeat stays fresh.                                    *)
(***************************************************************************)
EXTENDS Naturals

CONSTANTS
  Servers,      \* the hpc-bridge processes
  First,        \* the one that created the batch
  Pids,
  NoPid,        \* of a process that never started
  KnowsStarts,  \* `proc_start` tells when a process started, in one form
  MaxAttempt    \* bound: attempts of the row

ASSUME LeaseAssumption ==
  /\ First \in Servers
  /\ Pids # {} /\ NoPid \notin Pids
  /\ KnowsStarts \in BOOLEAN
  /\ MaxAttempt \in Nat

Attempts == 1..MaxAttempt

VARIABLES
  life,      \* [Servers -> "unborn", "up" or "dead"]
  pid,       \* [Servers -> its pid]
  foreign,   \* pids other programs were given
  lease,     \* the batch's owner columns: the pid and the process whose start time is on the record
  stale,     \* the heartbeat is older than lease_stale_s
  bstate,    \* the batch's state: "admitting" or "needs_confirmation"
  row,       \* a row of the batch: its state and attempt
  sent,      \* attempts its task group lists
  runs,      \* servers with the batch in app.batches
  passing,   \* servers inside a pass, past its heartbeat
  adopting,  \* servers between `_adopt`'s two transactions: the lease and the pause
  asking,    \* servers whose `_resume` waits for the block
  confirmed, \* servers with a confirmed block, for this batch or other work
  hand,      \* [Servers -> the attempt it reserved and has not sent yet (0: none)]
  \* history
  keeper,    \* the server the lease was last granted to
  yes,       \* servers the user resumed this batch in
  returned   \* attempts put back into the backlog as never sent

ledger  == <<lease, stale, bstate, row>>
procs   == <<life, pid, foreign>>
memory  == <<runs, passing, adopting, asking, confirmed, hand>>
history == <<keeper, yes, returned>>
vars == <<procs, ledger, sent, memory, history>>

TypeOK ==
  /\ life \in [Servers -> {"unborn", "up", "dead"}]
  /\ pid \in [Servers -> Pids \cup {NoPid}]
  /\ foreign \subseteq Pids
  /\ lease \in [pid : Pids, start : Servers]
  /\ stale \in BOOLEAN
  /\ bstate \in {"admitting", "needs_confirmation"}
  /\ row \in [st : {"backlog", "in_flight", "done"}, att : 0..MaxAttempt]
  /\ sent \subseteq Attempts /\ returned \subseteq Attempts
  /\ hand \in [Servers -> 0..MaxAttempt]
  /\ runs \subseteq Servers /\ passing \subseteq Servers /\ adopting \subseteq Servers
  /\ asking \subseteq Servers /\ confirmed \subseteq Servers /\ yes \subseteq Servers
  /\ keeper \in Servers

Up(s) == life[s] = "up"

(* A process runs one coroutine at a time, and `_admit_locked` does not    *)
(* await between the reservation of a row and its submit.                  *)
Free(s) == Up(s) /\ hand[s] = 0 /\ s \notin adopting

Init ==
  \E p \in Pids :
    /\ life = [s \in Servers |-> IF s = First THEN "up" ELSE "unborn"]
    /\ pid = [s \in Servers |-> IF s = First THEN p ELSE NoPid]
    /\ foreign = {}
    /\ lease = [pid |-> p, start |-> First]
    /\ stale = FALSE
    /\ bstate = "admitting"
    /\ row = [st |-> "backlog", att |-> 0]
    /\ sent = {} /\ returned = {}
    /\ runs = {First} /\ confirmed = {First} /\ yes = {First}
    /\ passing = {} /\ adopting = {} /\ asking = {}
    /\ hand = [s \in Servers |-> 0]
    /\ keeper = First

-----------------------------------------------------------------------------
(* The lease.                                                              *)

(* Mutant: the pid alone is the holder.                                    *)
HolderIsItsPid == lease.pid \in foreign \/ \E s \in Servers : Up(s) /\ pid[s] = lease.pid

(* `holder_alive`: a process has the recorded pid and, where start times   *)
(* can be told, it is the one on the record.                               *)
HolderAlive ==
  \/ \E s \in Servers : Up(s) /\ pid[s] = lease.pid /\ (KnowsStarts => s = lease.start)
  \/ lease.pid \in foreign /\ ~KnowsStarts

Holds(s) == lease.pid = pid[s]

(* Mutant: the heartbeat alone decides.                                    *)
GrantsWhenStale(s) == Holds(s) \/ stale

Grants(s) == Holds(s) \/ (stale /\ ~HolderAlive)

(* Mutant: a takeover does not record the new holder's start.              *)
ForgetsStart(s) ==
  /\ Grants(s)
  /\ lease' = IF Holds(s) THEN lease ELSE [pid |-> pid[s], start |-> NoPid]
  /\ stale' = FALSE
  /\ keeper' = s

(* `take_lease`, granted: a refresh leaves the recorded start as it is.    *)
TakeLease(s) ==
  /\ Grants(s)
  /\ lease' = IF Holds(s) THEN lease ELSE [pid |-> pid[s], start |-> s]
  /\ stale' = FALSE
  /\ keeper' = s

-----------------------------------------------------------------------------
(* Processes and time.                                                     *)

Starts(s) ==
  /\ life[s] = "unborn"
  /\ \E p \in Pids \ foreign :
       /\ \A o \in Servers : pid[o] = p => life[o] = "dead"
       /\ pid' = [pid EXCEPT ![s] = p]
  /\ life' = [life EXCEPT ![s] = "up"]
  /\ UNCHANGED <<foreign, ledger, sent, memory, history>>

Dies(s) ==
  /\ Up(s)
  /\ life' = [life EXCEPT ![s] = "dead"]
  /\ hand' = [hand EXCEPT ![s] = 0]
  /\ runs' = runs \ {s} /\ passing' = passing \ {s} /\ adopting' = adopting \ {s}
  /\ asking' = asking \ {s} /\ confirmed' = confirmed \ {s}
  /\ UNCHANGED <<pid, foreign, ledger, sent, history>>

(* Another program gets the pid of the dead holder.                        *)
PidGoesOn ==
  /\ \A s \in Servers : Up(s) => pid[s] # lease.pid
  /\ foreign' = foreign \cup {lease.pid}
  /\ UNCHANGED <<life, pid, ledger, sent, memory, history>>

(* No heartbeat for lease_stale_s: a long pass, a suspended server, or a   *)
(* dead one.                                                               *)
HeartbeatAges ==
  /\ ~stale /\ stale' = TRUE
  /\ UNCHANGED <<procs, lease, bstate, row, sent, memory, history>>

-----------------------------------------------------------------------------
(* Taking over.                                                            *)

AdoptTakes(s) ==
  /\ Free(s) /\ s \notin runs
  /\ TakeLease(s)
  /\ adopting' = adopting \cup {s}
  /\ UNCHANGED <<procs, bstate, row, sent, runs, passing, asking, confirmed, hand, yes, returned>>

(* Mutant: the batch goes on admitting under its new server.               *)
AdoptsAdmitting(s) ==
  /\ s \in adopting
  /\ adopting' = adopting \ {s}
  /\ runs' = runs \cup {s}
  /\ UNCHANGED <<procs, ledger, sent, passing, asking, confirmed, hand, history>>

AdoptPauses(s) ==
  /\ s \in adopting
  /\ adopting' = adopting \ {s}
  /\ runs' = runs \cup {s}
  /\ bstate' = "needs_confirmation"
  /\ UNCHANGED <<procs, lease, stale, row, sent, passing, asking, confirmed, hand, history>>

(* The process confirms a block for other work.                            *)
ConfirmsBlock(s) ==
  /\ Free(s) /\ s \notin confirmed
  /\ confirmed' = confirmed \cup {s}
  /\ UNCHANGED <<procs, ledger, sent, runs, passing, adopting, asking, hand, history>>

-----------------------------------------------------------------------------
(* Admission: `_admit_locked`, `reserve`.                                  *)

(* Mutant: no check.                                                       *)
ChecksNothing(s) == s \in Servers

(* The lease check of `reserve`: host and pid only.                        *)
MayReserve(s) == Holds(s)

(* What `_admit_locked` makes of the batch's `state`, for the servers with *)
(* a confirmed block and those that run the batch: without a block here it *)
(* pauses; a row goes out if this server may reserve, else the server      *)
(* drops the batch (NotLeaseHolder).                                       *)
Admits(s, state, blocks, runners) ==
  LET goes == state = "admitting" /\ s \in blocks
      out  == goes /\ row.st = "backlog" /\ row.att < MaxAttempt
  IN  /\ confirmed' = blocks
      /\ bstate' = IF state = "admitting" /\ ~goes THEN "needs_confirmation" ELSE state
      /\ \/ /\ out /\ MayReserve(s)
            /\ row' = [st |-> "in_flight", att |-> row.att + 1]
            /\ hand' = [hand EXCEPT ![s] = row.att + 1]
            /\ runs' = runners
         \/ /\ ~(out /\ MayReserve(s))
            /\ runs' = IF out THEN runners \ {s} ELSE runners
            /\ UNCHANGED <<row, hand>>

Sends(s) ==
  /\ Up(s) /\ hand[s] # 0
  /\ sent' = sent \cup {hand[s]}
  /\ hand' = [hand EXCEPT ![s] = 0]
  /\ UNCHANGED <<procs, ledger, runs, passing, adopting, asking, confirmed, history>>

-----------------------------------------------------------------------------
(* A pass.                                                                 *)

PassStarts(s) ==
  /\ Free(s) /\ s \in runs \ passing
  /\ \/ /\ Holds(s)
        /\ stale' = FALSE /\ passing' = passing \cup {s} /\ UNCHANGED runs
     \/ /\ ~Holds(s)
        /\ runs' = runs \ {s} /\ UNCHANGED <<stale, passing>>
  /\ UNCHANGED <<procs, lease, bstate, row, sent, adopting, asking, confirmed, hand, history>>

(* A result, or evidence, settles the row: done, or back for another try.  *)
PassSettles(s) ==
  /\ Free(s) /\ s \in passing
  /\ row.st = "in_flight" /\ row.att \in sent
  /\ \E st \in {"done", "backlog"} : row' = [row EXCEPT !.st = st]
  /\ UNCHANGED <<procs, lease, stale, bstate, sent, memory, history>>

(* Mutant: the attempt number is given again.                              *)
ReusesAttempt(s) ==
  /\ Free(s) /\ s \in passing /\ s # First
  /\ row.st = "in_flight" /\ row.att \notin sent
  /\ row' = [st |-> "backlog", att |-> row.att - 1]
  /\ returned' = returned \cup {row.att}
  /\ UNCHANGED <<procs, lease, stale, bstate, sent, memory, keeper, yes>>

(* `_reconcile_unsent`, in a server that adopted the batch: a row that is  *)
(* out, without a future here and without a task in the groups, was never  *)
(* sent and never will be.  (The lookup's own steps are BatchEngine's.)    *)
PassReturns(s) ==
  /\ Free(s) /\ s \in passing /\ s # First
  /\ row.st = "in_flight" /\ row.att \notin sent
  /\ row' = [row EXCEPT !.st = "backlog"]
  /\ returned' = returned \cup {row.att}
  /\ UNCHANGED <<procs, lease, stale, bstate, sent, memory, keeper, yes>>

PassAdmits(s) ==
  /\ Free(s) /\ s \in passing
  /\ passing' = passing \ {s}
  /\ Admits(s, bstate, confirmed, runs)
  /\ UNCHANGED <<procs, lease, stale, sent, adopting, asking, history>>

-----------------------------------------------------------------------------
(* The user's resume, in any server: the lease, then the block, and only   *)
(* then the batch's state, which no transaction checks the lease for.      *)

ResumeAsks(s) ==
  /\ Free(s) /\ s \in runs \ asking
  /\ \/ TakeLease(s) /\ asking' = asking \cup {s} /\ UNCHANGED runs
     \/ ~Grants(s) /\ runs' = runs \ {s} /\ UNCHANGED <<lease, stale, keeper, asking>>
  /\ UNCHANGED <<procs, bstate, row, sent, passing, adopting, confirmed, hand, yes, returned>>

ResumeAdmits(s) ==
  /\ Free(s) /\ s \in asking
  /\ asking' = asking \ {s}
  /\ yes' = yes \cup {s}
  /\ Admits(s, "admitting", confirmed \cup {s}, runs \cup {s})
  /\ UNCHANGED <<procs, lease, stale, sent, passing, adopting, keeper, returned>>

-----------------------------------------------------------------------------
ServerStep(s) ==
  \/ Starts(s) \/ Dies(s)
  \/ AdoptTakes(s) \/ AdoptPauses(s) \/ ConfirmsBlock(s)
  \/ PassStarts(s) \/ PassSettles(s) \/ PassReturns(s) \/ PassAdmits(s) \/ Sends(s)
  \/ ResumeAsks(s) \/ ResumeAdmits(s)

Next == PidGoesOn \/ HeartbeatAges \/ \E s \in Servers : ServerStep(s)

Spec == Init /\ [][Next]_vars

(* Time passes, someone asks each server that runs for the batch (its      *)
(* status call is what adopts: `status`, `_adopt`), and a server goes on   *)
(* with what it began; its loop's next pass finds the lease gone.          *)
Fairness ==
  /\ WF_vars(HeartbeatAges)
  /\ \A s \in Servers :
       /\ WF_vars(AdoptTakes(s)) /\ WF_vars(AdoptPauses(s))
       /\ WF_vars(PassStarts(s)) /\ WF_vars(PassAdmits(s)) /\ WF_vars(Sends(s))

FairSpec == Spec /\ Fairness

-----------------------------------------------------------------------------
(* Properties.                                                             *)

(* No server got a pid another server had, or starts are never compared:   *)
(* the recorded start then never names another process than the holder.    *)
Unambiguous ==
  ~KnowsStarts \/ \A s, o \in Servers : s # o /\ pid[s] # NoPid => pid[s] # pid[o]

(* The lease is taken from a dead server only ("taken over only when the   *)
(* holder's heartbeat is stale AND the holder is gone", take_lease): a     *)
(* server suspended past its heartbeat keeps it.  Not once a pid passed    *)
(* from server to server: a refresh keeps the dead one's start on record.  *)
TakenFromTheDead == [][Unambiguous /\ keeper' # keeper => life[keeper] = "dead"]_vars

(* What `_reconcile_unsent` returned as "never sent: the server that       *)
(* queued it died first" is never sent afterwards: no live server still    *)
(* has it between its reservation and its submit.                          *)
NeverSentLater == [][Unambiguous => \A a \in sent' \ sent : a \notin returned]_vars

(* A server reserves rows only after the user's yes for this batch in that *)
(* server, though it may have confirmed its block for other work and the   *)
(* dead holder may have left the batch admitting.                          *)
AdmitsOnYes == Unambiguous => \A s \in Servers : hand[s] # 0 => s \in yes

(* A server that lost the lease while it was suspended, in a pass or in a  *)
(* resume, reserves nothing when it wakes (`reserve`, NotLeaseHolder).     *)
ReservesAsKeeper == [][\A s \in Servers : hand[s] = 0 /\ hand'[s] # 0 => s = keeper]_vars

(* An attempt is reserved by one server, even when two hold the batch.     *)
AttemptIsOnes == \A s, o \in Servers : s # o /\ hand[s] # 0 => hand[s] # hand[o]

(* A dead server's batch is taken over while a server runs, whoever got    *)
(* the dead one's pid.                                                     *)
DeadReplaced ==
  (life[keeper] = "dead" /\ \E s \in Servers : Up(s)) ~> (Up(keeper) \/ \A s \in Servers : ~Up(s))
=============================================================================
