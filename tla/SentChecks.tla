----------------------------- MODULE SentChecks -----------------------------
(***************************************************************************)
(* The tasks a server sent to a compute user endpoint, and the record of   *)
(* them the servers of that endpoint share (warmth.py, state.py).  While   *)
(* such a task is queued the endpoint can start a block to run it, so a    *)
(* stop must see every one of them: also those of a server that died, and  *)
(* of the ones that still run.                                             *)
(*                                                                         *)
(* A server keeps its tasks in memory, and writes to the record those not  *)
(* seen to finish.  A write is decided on the event loop, waits for the    *)
(* record's thread, and is merged there, under a file lock, with what the  *)
(* other servers wrote.  A write that fails is tried again later.          *)
(***************************************************************************)
EXTENDS Integers, FiniteSets

CONSTANTS
  Procs,         \* servers; one that acts after another died is its restart
  Senders,       \* those that send tasks
  Stoppers,      \* those that are asked to stop
  Checks,        \* tasks that only ask whether a worker answers
  Commands,      \* tasks that run the user's command
  Fresh,         \* each block request has a user endpoint of its own
  MaxSent,       \* tasks sent
  MaxStops,      \* stops under way at once
  MaxCrashes,    \* servers that die
  MaxTroubles,   \* submits unclear, futures broken, writes failed, answers not had, in all
  Gaps           \* of KnownGaps, those the environment exercises

(* Each makes a `down` a lie: a command whose submit is unclear, one a     *)
(* re-bind leaves running, one with no id whose time is up, and a re-bind  *)
(* between the cancel of a stop and its answer.                            *)
KnownGaps == {"command_unclear", "command_adrift", "command_no_id", "rebind_in_stop"}

ASSUME ChecksAssumption ==
  /\ IsFiniteSet(Procs) /\ Senders \subseteq Procs /\ Stoppers \subseteq Procs
  /\ Checks \cap Commands = {}
  /\ Fresh \in BOOLEAN /\ Gaps \subseteq KnownGaps
  /\ MaxSent \in Nat /\ MaxStops \in Nat /\ MaxCrashes \in Nat /\ MaxTroubles \in Nat

Tasks == Checks \cup Commands

(* A row of the record: a task by its id, or one with no id yet.           *)
Rows == Tasks \X {"id", "no_id"}

VARIABLES
  service,   \* [Tasks -> where the task stands at the web service]
  pilot,     \* [Tasks -> its block: none (yet), up (a command's: from the start) or gone]
  bounded,   \* tasks sent longer than _NO_ID_BOUND_S ago
  sent,      \* [Procs -> the tasks it sent]
  future,    \* [Tasks -> what the sender's future says]
  hasId,     \* tasks whose sender knows the id
  place,     \* [Tasks -> where the sender keeps it]
  alive,     \* servers that run
  adopted,   \* [Procs -> rows read back from the record and kept]
  resolved,  \* [Procs -> rows it saw resolve]
  wrote,     \* [Procs -> the rows of its last write, and what that one removed]
  pending,   \* [Procs -> at most one set of rows: the next write]
  writing,   \* [Procs -> at most one write: the one on the record's thread]
  retries,   \* [Procs -> failed writes that wait to be tried again]
  record,    \* the rows on disk
  failed,    \* servers a write of which failed
  troubles   \* of those, so far

taskVars == <<service, pilot, bounded, sent, future, hasId, place>>
memoryVars == <<adopted, resolved>>
writeVars == <<wrote, pending, writing, retries, record, failed>>
checkVars == <<taskVars, alive, memoryVars, writeVars, troubles>>

RowOf(t) == <<t, IF t \in hasId THEN "id" ELSE "no_id">>

Trouble == troubles < MaxTroubles /\ troubles' = troubles + 1

(* Known finished by the future alone.                                     *)
LocallyResolved(t) == future[t] \in {"ok", "failed", "never"}

Held(p) == {t \in sent[p] : place[t] # "none"}

(* Mutant: the checks kept of closed runners are left out.                 *)
UnresolvedOfRunner(p) ==
  {RowOf(t) : t \in {u \in Held(p) : place[u] # "kept" /\ ~LocallyResolved(u)}} \ resolved[p]

(* The rows a write of this server has.                                    *)
Unresolved(p) == {RowOf(t) : t \in {u \in Held(p) : ~LocallyResolved(u)}} \ resolved[p]

(* The current runner's checks that may still be queued.                   *)
CurrentChecks(p) ==
  {t \in Held(p) : place[t] = "current" /\ future[t] \notin {"ok", "never"}}

(* What a write of these rows takes off the record: what the writes before *)
(* it put there and it no longer has, and what was seen to resolve.        *)
Removed(p, mine) == (wrote[p].rows \cup resolved[p]) \ mine

(* The write of these rows: the removals are computed now, and what is     *)
(* written counts as written.                                              *)
TakesJob(p, mine, drop) ==
  /\ writing' = [writing EXCEPT ![p] = {[rows |-> mine, drop |-> drop, before |-> wrote[p]]}]
  /\ wrote' = [wrote EXCEPT ![p] = [rows |-> mine, removed |-> drop]]

(* Mutant: the writes that wait are queued, none replaces another.         *)
PersistsQueued(p) ==
  LET mine == Unresolved(p)' IN
  LET drop == (wrote[p].rows \cup resolved'[p]) \ mine IN
  IF mine = wrote[p].rows /\ drop \subseteq wrote[p].removed /\ pending[p] = {}
    THEN UNCHANGED <<wrote, pending, writing>>
    ELSE IF writing[p] = {} THEN TakesJob(p, mine, drop) /\ UNCHANGED pending
    ELSE pending' = [pending EXCEPT ![p] = @ \cup {mine}] /\ UNCHANGED <<wrote, writing>>

(* A write is decided when what it says changed.  The flusher takes it at  *)
(* once, unless a write is on the thread; it replaces one that waits.      *)
(* For an action that sets the rest: all of it is read after the action.   *)
Persists(p) ==
  LET mine == Unresolved(p)' IN
  LET drop == (wrote[p].rows \cup resolved'[p]) \ mine IN
  IF mine = wrote[p].rows /\ drop \subseteq wrote[p].removed /\ pending[p] = {}
    THEN UNCHANGED <<wrote, pending, writing>>
    ELSE IF writing[p] = {} THEN TakesJob(p, mine, drop) /\ UNCHANGED pending
    ELSE pending' = [pending EXCEPT ![p] = {mine}] /\ UNCHANGED <<wrote, writing>>

InitChecks ==
  /\ service = [t \in Tasks |-> "unsent"]
  /\ pilot = [t \in Tasks |-> IF t \in Commands THEN "up" ELSE "none"]
  /\ bounded = {}
  /\ sent = [p \in Procs |-> {}]
  /\ future = [t \in Tasks |-> "open"]
  /\ hasId = {}
  /\ place = [t \in Tasks |-> "none"]
  /\ alive = Procs
  /\ adopted = [p \in Procs |-> {}]
  /\ resolved = [p \in Procs |-> {}]
  /\ wrote = [p \in Procs |-> [rows |-> {}, removed |-> {}]]
  /\ pending = [p \in Procs |-> {}]
  /\ writing = [p \in Procs |-> {}]
  /\ retries = [p \in Procs |-> {}]
  /\ record = {}
  /\ failed = {}
  /\ troubles = 0

-----------------------------------------------------------------------------
(* The web service, the user endpoints and the scheduler.                  *)

(* A block can be started for a task: on a user endpoint of its own only   *)
(* its first one, unless it runs a command; there a check whose first      *)
(* pilot is gone is given up.                                              *)
CanStart(t) ==
  /\ service[t] \in {"sending", "queued"}
  /\ (t \in Checks /\ Fresh) => pilot[t] = "none"

serviceOnly == <<bounded, sent, future, hasId, place, alive, memoryVars, writeVars, troubles>>

Taken(t) ==
  /\ service[t] = "sending"
  /\ service' = [service EXCEPT ![t] = "queued"]
  /\ UNCHANGED <<pilot, serviceOnly>>

StartBlock(t) ==
  /\ service[t] = "queued" /\ CanStart(t) /\ pilot[t] # "up"
  /\ pilot' = [pilot EXCEPT ![t] = "up"]
  /\ UNCHANGED <<service, serviceOnly>>

Runs(t) ==
  /\ service[t] = "queued" /\ pilot[t] = "up"
  /\ service' = [service EXCEPT ![t] = "ran"]
  /\ UNCHANGED <<pilot, serviceOnly>>

(* The check of a first pilot that is gone: failed, or, the report of that *)
(* lost with the user endpoint, listed as queued for ever.                 *)
GivesUp(t) ==
  /\ service[t] = "queued" /\ t \in Checks /\ Fresh /\ pilot[t] = "gone"
  /\ \E s \in {"failed", "dead"} : service' = [service EXCEPT ![t] = s]
  /\ UNCHANGED <<pilot, serviceOnly>>

PilotEnds(t) ==
  /\ pilot[t] = "up" /\ service[t] # "unsent"
  /\ pilot' = [pilot EXCEPT ![t] = "gone"]
  /\ UNCHANGED <<service, serviceOnly>>

-----------------------------------------------------------------------------
(* A server and its tasks.                                                 *)

writeStep == <<adopted, resolved, retries, record, failed>>

Sends(p, t, where) ==
  /\ p \in alive \cap Senders /\ service[t] = "unsent" /\ Cardinality(UNION {sent[q] : q \in Procs}) < MaxSent
  /\ service' = [service EXCEPT ![t] = "sending"]
  /\ sent' = [sent EXCEPT ![p] = @ \cup {t}]
  /\ place' = [place EXCEPT ![t] = where]
  /\ UNCHANGED <<pilot, bounded, future, hasId, alive, writeStep, troubles>>
  /\ Persists(p)

SendCheck(p, t) == t \in Checks /\ Sends(p, t, "current")

(* Only while the block is up.                                             *)
SendCommand(p, t) == t \in Commands /\ pilot[t] = "up" /\ Sends(p, t, "inflight")

(* The sender's SDK learns the id.                                         *)
IdSeen(p, t) ==
  /\ p \in alive /\ t \in sent[p] /\ t \notin hasId /\ future[t] = "open"
  /\ service[t] \notin {"unsent", "sending", "never"}
  /\ hasId' = hasId \cup {t}
  /\ UNCHANGED <<service, pilot, bounded, sent, future, place, alive, memoryVars, writeVars, troubles>>

(* The watcher of ids, or another note of the same server.                 *)
WatchIds(p) ==
  /\ p \in alive
  /\ UNCHANGED <<taskVars, alive, writeStep, troubles>>
  /\ Persists(p)
  /\ <<pending, writing>>' # <<pending, writing>>

futureStep == <<pilot, bounded, sent, hasId, alive, writeStep>>

(* The submit is certainly refused, or cancelled before it left.           *)
Refused(p, t) ==
  /\ p \in alive /\ t \in sent[p] /\ service[t] = "sending"
  /\ service' = [service EXCEPT ![t] = "never"]
  /\ future' = [future EXCEPT ![t] = "never"]
  /\ place' = [place EXCEPT ![t] = IF t \in Commands THEN "none" ELSE @]
  /\ UNCHANGED <<futureStep, troubles>>
  /\ Persists(p)

(* The submit fails, and nothing says whether the service took the task.   *)
(* A command is then off the record: only a task with an id is kept.       *)
Unclear(p, t) ==
  /\ p \in alive /\ t \in sent[p] /\ future[t] = "open" /\ t \notin hasId
  /\ t \in Commands => "command_unclear" \in Gaps
  /\ \/ service[t] = "sending" /\ service' = [service EXCEPT ![t] = "never"]
     \/ service[t] # "sending" /\ UNCHANGED service
  /\ future' = [future EXCEPT ![t] = "broken"]
  /\ place' = [place EXCEPT ![t] = IF t \in Commands THEN "none" ELSE @]
  /\ Trouble /\ UNCHANGED futureStep
  /\ Persists(p)

(* The result arrives at the runner that sent the task.                    *)
Delivered(p, t) ==
  /\ p \in alive /\ t \in sent[p] /\ future[t] = "open" /\ t \in hasId
  /\ place[t] \in {"current", "inflight"}
  /\ \/ service[t] = "ran" /\ future' = [future EXCEPT ![t] = "ok"]
     \/ service[t] = "failed" /\ future' = [future EXCEPT ![t] = "failed"]
  /\ place' = [place EXCEPT ![t] = IF t \in Commands THEN "none" ELSE @]
  /\ UNCHANGED <<service, futureStep, troubles>>
  /\ Persists(p)

(* The future fails on the client's side alone: a command is kept as       *)
(* evidence, like a check.                                                 *)
Breaks(p, t) ==
  /\ p \in alive /\ t \in sent[p] /\ future[t] = "open" /\ t \in hasId
  /\ future' = [future EXCEPT ![t] = "broken"]
  /\ place' = [place EXCEPT ![t] = IF @ = "inflight" THEN "kept" ELSE @]
  /\ Trouble /\ UNCHANGED <<service, futureStep>>
  /\ Persists(p)

(* A runner is closed: its checks that may be queued stay as evidence.     *)
KeepsChecks(p) ==
  [t \in Tasks |-> IF t \in sent[p] /\ place[t] = "current"
                     THEN IF t \in CurrentChecks(p) THEN "kept" ELSE "none"
                     ELSE place[t]]

(* A re-bind drops the shape, and the handles of the commands it runs.     *)
Rebind(p) ==
  /\ p \in alive
  /\ "command_adrift" \in Gaps \/ \A t \in Held(p) : place[t] # "inflight"
  /\ \E t \in Held(p) : place[t] \in {"current", "inflight"}
  /\ place' = [t \in Tasks |-> IF t \in sent[p] /\ place[t] = "inflight"
                                 THEN "adrift" ELSE KeepsChecks(p)[t]]
  /\ UNCHANGED <<service, pilot, bounded, sent, future, hasId, alive, writeStep, troubles>>
  /\ Persists(p)

(* A server dies with what it has in memory; what it was submitting is     *)
(* taken or not.                                                           *)
Crash(p) ==
  /\ p \in alive /\ Cardinality(Procs \ alive) < MaxCrashes
  /\ \E took \in BOOLEAN :
       service' = [t \in Tasks |-> IF t \notin sent[p] \/ service[t] # "sending" THEN service[t]
                                    ELSE IF took THEN "queued" ELSE "never"]
  /\ alive' = alive \ {p}
  /\ adopted' = [adopted EXCEPT ![p] = {}]
  /\ resolved' = [resolved EXCEPT ![p] = {}]
  /\ wrote' = [wrote EXCEPT ![p] = [rows |-> {}, removed |-> {}]]
  /\ pending' = [pending EXCEPT ![p] = {}]
  /\ writing' = [writing EXCEPT ![p] = {}]
  /\ retries' = [retries EXCEPT ![p] = {}]
  /\ future' = [t \in Tasks |-> IF t \in sent[p] THEN "open" ELSE future[t]]
  /\ place' = [t \in Tasks |-> IF t \in sent[p] THEN "none" ELSE place[t]]
  /\ UNCHANGED <<pilot, bounded, sent, hasId, record, failed, troubles>>

-----------------------------------------------------------------------------
(* The writes of the record.                                               *)

(* `update`: the rows on disk, less the removals, and the writer's own.    *)
Merged(disk, add, drop) == (disk \ drop) \cup add

(* The write that waits, if any, is next, on top of what is now written.   *)
TakesNext(p, written) ==
  LET mine == UNION pending[p] IN
  LET drop == (written.rows \cup resolved[p]) \ mine IN
  /\ pending' = [pending EXCEPT ![p] = {}]
  /\ IF pending[p] = {}
       THEN writing' = [writing EXCEPT ![p] = {}] /\ wrote' = [wrote EXCEPT ![p] = written]
       ELSE /\ writing' = [writing EXCEPT ![p] = {[rows |-> mine, drop |-> drop, before |-> written]}]
            /\ wrote' = [wrote EXCEPT ![p] = [rows |-> mine, removed |-> drop]]

WriteLands(p) ==
  /\ \E w \in writing[p] : record' = Merged(record, w.rows, w.drop)
  /\ TakesNext(p, wrote[p])
  /\ UNCHANGED <<taskVars, alive, memoryVars, retries, failed, troubles>>

WriteFails(p) ==
  /\ \E w \in writing[p] :
       /\ retries' = [retries EXCEPT ![p] = @ \cup {w.rows}]
       /\ TakesNext(p, w.before)
  /\ failed' = failed \cup {p}
  /\ Trouble
  /\ UNCHANGED <<taskVars, alive, memoryVars, record>>

(* The timer of a failed write: it waits again, unless a newer one does.   *)
RetryFires(p, job) ==
  /\ p \in alive /\ job \in retries[p]
  /\ retries' = [retries EXCEPT ![p] = @ \ {job}]
  /\ IF writing[p] = {} THEN TakesJob(p, job, Removed(p, job)) /\ UNCHANGED pending
     ELSE /\ pending' = [pending EXCEPT ![p] = IF @ = {} THEN {job} ELSE @]
          /\ UNCHANGED <<wrote, writing>>
  /\ UNCHANGED <<taskVars, alive, memoryVars, record, failed, troubles>>

ServiceSteps(t) == Taken(t) \/ StartBlock(t) \/ Runs(t) \/ GivesUp(t) \/ PilotEnds(t)
FutureSteps(p, t) == IdSeen(p, t) \/ Refused(p, t) \/ Unclear(p, t) \/ Breaks(p, t)
Writes(p) == WriteLands(p) \/ WriteFails(p) \/ \E j \in retries[p] : RetryFires(p, j)
=============================================================================
