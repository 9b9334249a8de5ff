---------------------------- MODULE StopEndpoint ----------------------------
(***************************************************************************)
(* stop_endpoint on an endpoint set up over SSH (`_stop_endpoint_blocks`,  *)
(* server.py), over the record of SentChecks.  It refuses while a command  *)
(* runs, reads the record, cancels the blocks and asks the service about   *)
(* every task it knows of, and says `down` only when none can start a      *)
(* block.  Between its steps it holds no lock: its own server sends and    *)
(* closes runners, the other servers stop, write and die.                  *)
(***************************************************************************)
EXTENDS SentChecks

VARIABLE stop  \* [Procs -> its stop]

vars == <<checkVars, stop>>

(* A task as a stop holds it: by its future, or by its row read back.      *)
Items == Tasks \X {"own", "id", "no_id"}

NoItems == [i \in {} |-> "unknown"]

Idle == [at |-> "idle", rows |-> {}, problem |-> FALSE, states |-> NoItems,
         confirmed |-> FALSE, extra |-> FALSE, answered |-> FALSE, down |-> FALSE]

Init == InitChecks /\ stop = [p \in Procs |-> Idle]

RowFor(i) == IF i[2] = "own" THEN RowOf(i[1]) ELSE i
Own(tasks) == {<<t, "own">> : t \in tasks}
Done == {"ok", "failed", "unsent", "lost"}

(* What the endpoint keeps as evidence, and with the current runner's.     *)
Kept(p) == Own({t \in Held(p) : place[t] = "kept"}) \cup adopted[p]
Known(p) == Kept(p) \cup Own(CurrentChecks(p))

(* A command with a live handle, or in its sync-wait, holds the block.     *)
BlockWork(p) == \E t \in Held(p) : place[t] = "inflight"

(* The rows of others, or of a server that died, neither known here nor    *)
(* seen to resolve; a row this server wrote says nothing new.              *)
Strangers(p, rows) ==
  (rows \ (wrote[p].rows \cup resolved[p])) \ {RowFor(i) : i \in Known(p)}

-----------------------------------------------------------------------------
(* Where a task stands.                                                    *)

(* Mutant: a row with no id is a task that was never sent.                 *)
NoIdStateUnsent(t) == "unsent"

NoIdState(t) == IF Fresh /\ t \in bounded THEN "unsent" ELSE "unknown"

(* What the future says, or `ask`.                                         *)
LocalState(i) ==
  LET t == i[1] IN
  CASE i[2] = "id" -> "ask"
    [] i[2] = "no_id" -> NoIdState(t)
    [] i[2] = "own" /\ future[t] \in {"ok", "failed"} -> future[t]
    [] i[2] = "own" /\ future[t] \in {"open", "broken"} /\ t \in hasId -> "ask"
    [] i[2] = "own" /\ future[t] = "never" -> "unsent"
    [] i[2] = "own" /\ future[t] = "open" /\ t \notin hasId -> "pending"
    [] OTHER -> NoIdState(t)

ServiceState(t) ==
  CASE service[t] = "ran" -> "ok" [] service[t] = "failed" -> "failed" [] OTHER -> "pending"

(* One resolved before is not asked again.                                 *)
Resolution(t) == IF service[t] = "dead" THEN "lost" ELSE ServiceState(t)

(* A round of lookups, in which the service does not answer for `unread`.  *)
StateOf(p, i, unread) ==
  CASE LocalState(i) # "ask" -> LocalState(i)
    [] LocalState(i) = "ask" /\ RowFor(i) \in resolved[p] -> Resolution(i[1])
    [] LocalState(i) = "ask" /\ i \in unread -> "unknown"
    [] OTHER -> ServiceState(i[1])

States(p, items, unread) == [i \in items |-> StateOf(p, i, unread)]

(* The rows a round of lookups shows resolved.                             *)
SeenResolved(states) ==
  {RowFor(i) : i \in {j \in DOMAIN states : /\ states[j] \in {"ok", "failed"}
                                            /\ RowFor(j)[2] = "id"}}

Waiting(states) == {i \in DOMAIN states : states[i] \in {"pending", "unknown"}}

-----------------------------------------------------------------------------
(* The stop.                                                               *)

At(p, phase) == p \in alive /\ stop[p].at = phase
Answer(p, down) == stop' = [stop EXCEPT ![p] = [Idle EXCEPT !.down = down]]

(* Refused while a command runs.  Else the record is read, after this      *)
(* server's own writes; or one of the two is not had in time.              *)
StopReads(p) ==
  /\ At(p, "idle") /\ p \in Stoppers /\ ~BlockWork(p)
  /\ Cardinality({q \in Procs : stop[q].at # "idle"}) < MaxStops
  /\ \/ /\ pending[p] = {} /\ writing[p] = {}
        /\ stop' = [stop EXCEPT ![p] = [Idle EXCEPT !.at = "looking", !.rows = record]]
        /\ UNCHANGED troubles
     \/ /\ stop' = [stop EXCEPT ![p] = [Idle EXCEPT !.at = "looking", !.problem = TRUE]]
        /\ Trouble
  /\ UNCHANGED <<taskVars, alive, memoryVars, writeVars>>

(* A cancel of every block of the endpoint begins.                         *)
Begun(s) == [s EXCEPT !.at = "cancelling", !.answered = FALSE]

(* Refused again, or every task it must see resolve is listed.             *)
StopLooks(p) ==
  /\ At(p, "looking")
  /\ LET items == Known(p) \cup Strangers(p, stop[p].rows) IN
     LET s == [stop[p] EXCEPT !.states = [i \in items |-> "unknown"]] IN
     IF BlockWork(p)
       THEN Answer(p, FALSE) /\ UNCHANGED adopted
       ELSE /\ adopted' = [adopted EXCEPT ![p] = @ \cup Strangers(p, stop[p].rows)]
            /\ stop' = [stop EXCEPT ![p] = IF \E i \in items : i[1] \in Commands
                                             THEN [s EXCEPT !.at = "asking"] ELSE Begun(s)]
  /\ UNCHANGED <<taskVars, alive, resolved, writeVars, troubles>>

NotRead(unread) == IF unread = {} THEN UNCHANGED troubles ELSE Trouble

(* A command the service says is queued or running refuses the stop, until *)
(* it is past its ceiling.                                                 *)
StopAsks(p, unread) ==
  /\ At(p, "asking")
  /\ \E young \in SUBSET {i \in DOMAIN stop[p].states : i[1] \in Commands} :
       LET states == States(p, young, unread) IN
       /\ resolved' = [resolved EXCEPT ![p] = @ \cup SeenResolved(states)]
       /\ IF \E i \in young : states[i] = "pending"
            THEN Answer(p, FALSE)
            ELSE stop' = [stop EXCEPT ![p] = Begun(stop[p])]
  /\ NotRead(unread)
  /\ UNCHANGED <<taskVars, alive, adopted, writeVars>>

NoBlockUp == [t \in Tasks |-> IF pilot[t] = "up" THEN "gone" ELSE pilot[t]]

Released(p, confirmed) ==
  stop' = [stop EXCEPT ![p].at = IF stop[p].extra THEN "settling" ELSE "released",
                       ![p].confirmed = confirmed]

ReleaseEnds(p) ==
  /\ At(p, "cancelling")
  /\ pilot' = NoBlockUp
  /\ Released(p, TRUE)
  /\ UNCHANGED <<service, serviceOnly>>

(* The cancel is refused, or not confirmed in time: it may have happened.  *)
ReleaseFails(p) ==
  /\ At(p, "cancelling")
  /\ pilot' \in {pilot, NoBlockUp}
  /\ Released(p, FALSE)
  /\ Trouble
  /\ UNCHANGED <<service, bounded, sent, future, hasId, place, alive, memoryVars, writeVars>>

(* Each task is looked up; while one waits, it may release and look again; *)
(* one that ran brought a block up: one more release.                      *)
Looks(p, unread) ==
  /\ At(p, "released")
  /\ LET states == States(p, DOMAIN stop[p].states, unread) IN
     LET ran == stop[p].confirmed /\ \E i \in DOMAIN states : states[i] = "ok" IN
     LET s == [stop[p] EXCEPT !.states = states, !.extra = ran] IN
     /\ resolved' = [resolved EXCEPT ![p] = @ \cup SeenResolved(states)]
     /\ \/ /\ Fresh /\ stop[p].confirmed /\ Waiting(states) # {}
           /\ stop' = [stop EXCEPT ![p] = Begun(stop[p])]
        \/ stop' = [stop EXCEPT ![p] = IF ran THEN Begun(s) ELSE [s EXCEPT !.at = "settling"]]
  /\ NotRead(unread)
  /\ UNCHANGED <<taskVars, alive, adopted, writeVars>>

(* What the login node's logs show lost: only where every task that still  *)
(* waits is a check with an id, and only one whose user endpoint is gone.  *)
Evidence(p) ==
  LET states == stop[p].states IN
  IF /\ Fresh /\ stop[p].confirmed /\ ~stop[p].problem
     /\ \A i \in Waiting(states) : i[1] \in Checks /\ RowFor(i)[2] = "id"
    THEN {i \in Waiting(states) : service[i[1]] = "dead"}
    ELSE {}

WithLost(states, gone) == [i \in DOMAIN states |-> IF i \in gone THEN "lost" ELSE states[i]]

(* Mutant: only what was listed when the stop looked counts.               *)
LateForgotten(p, states, over) == {}

(* The checks of this server sent since it looked, not known to be over.   *)
Late(p, states, over) ==
  {i \in Known(p) \ over :
     /\ RowFor(i) \notin {RowFor(j) : j \in DOMAIN states}
     /\ LocalState(i) \notin {"ok", "failed", "unsent"}}

(* One locked step: work that reached the block meanwhile refuses; else    *)
(* the shape goes, its checks stay with the endpoint, what resolved is     *)
(* forgotten, and a check sent meanwhile still counts.                     *)
StopAnswers(p) ==
  /\ At(p, "settling")
  /\ UNCHANGED <<service, pilot, bounded, sent, future, hasId, alive,
                 retries, record, failed, troubles>>
  /\ IF BlockWork(p)
       THEN Answer(p, FALSE) /\ UNCHANGED <<place, memoryVars, wrote, pending, writing>>
       ELSE \E gone \in {{}, Evidence(p)} :
         LET states == WithLost(stop[p].states, gone) IN
         LET over == {i \in DOMAIN states : states[i] \in Done} IN
         /\ place' = [t \in Tasks |-> IF <<t, "own">> \in over THEN "none" ELSE KeepsChecks(p)[t]]
         /\ adopted' = [adopted EXCEPT ![p] = @ \ over]
         /\ resolved' = [resolved EXCEPT ![p] = @ \cup
              {RowFor(i) : i \in {j \in over : j[2] # "own" \/ RowFor(j)[2] = "id"}}]
         /\ Persists(p)
         /\ Answer(p, /\ stop[p].confirmed /\ ~stop[p].answered /\ ~stop[p].problem
                      /\ Waiting(states) \cup Late(p, states, over) = {})

(* The lock is not had in time.                                            *)
StopGivesUp(p) ==
  /\ At(p, "looking") \/ At(p, "settling")
  /\ Answer(p, FALSE)
  /\ Trouble
  /\ UNCHANGED <<taskVars, alive, memoryVars, writeVars>>

StopSteps(p) ==
  \/ StopReads(p) \/ StopLooks(p) \/ ReleaseEnds(p) \/ ReleaseFails(p)
  \/ StopAnswers(p) \/ StopGivesUp(p)
  \/ \E unread \in SUBSET DOMAIN stop[p].states : StopAsks(p, unread) \/ Looks(p, unread)

-----------------------------------------------------------------------------
(* The stop among the other steps of its server and of the others.         *)

(* A stop between its last cancel and its answer.                          *)
Cancelled(p) == stop[p].at \in {"cancelling", "released", "settling"}

(* A task of no known id is counted for so long; by then its user endpoint *)
(* is long up, and no cancel of a stop is a step away from its answer.     *)
NoIdBound(t) ==
  /\ Fresh /\ t \notin bounded /\ (t \notin hasId \/ \E p \in alive : <<t, "no_id">> \in adopted[p])
  /\ service[t] \notin {"unsent", "sending"}
  /\ (t \in Checks \/ "command_no_id" \notin Gaps) => ~CanStart(t)
  /\ \A p \in Procs : ~Cancelled(p)
  /\ bounded' = bounded \cup {t}
  /\ UNCHANGED <<service, pilot, sent, future, hasId, place, alive, memoryVars, writeVars, troubles, stop>>

(* An answer after the last cancel began shows a block that is up.         *)
ResultArrives(p, t) ==
  /\ Delivered(p, t)
  /\ stop' = [stop EXCEPT ![p].answered =
       @ \/ (Cancelled(p) /\ future'[t] = "ok")]

(* The shape goes, and with it what a worker answered.                     *)
Rebinds(p) ==
  /\ Cancelled(p) => "rebind_in_stop" \in Gaps
  /\ Rebind(p)
  /\ stop' = [stop EXCEPT ![p].answered = FALSE]

Dies(p) == Crash(p) /\ stop' = [stop EXCEPT ![p] = Idle]

Next ==
  \/ \E t \in Tasks : ServiceSteps(t) /\ UNCHANGED stop
  \/ \E t \in Tasks : NoIdBound(t)
  \/ \E p \in Procs, t \in Tasks :
       (SendCheck(p, t) \/ SendCommand(p, t) \/ FutureSteps(p, t)) /\ UNCHANGED stop
  \/ \E p \in Procs, t \in Tasks : ResultArrives(p, t)
  \/ \E p \in Procs : (WatchIds(p) \/ Writes(p)) /\ UNCHANGED stop
  \/ \E p \in Procs : Rebinds(p) \/ Dies(p) \/ StopSteps(p)

Spec == Init /\ [][Next]_vars

-----------------------------------------------------------------------------
(* Properties.                                                             *)

TypeOK ==
  /\ service \in [Tasks -> {"unsent", "sending", "queued", "ran", "failed", "never", "dead"}]
  /\ pilot \in [Tasks -> {"none", "up", "gone"}]
  /\ bounded \subseteq Tasks /\ hasId \subseteq Tasks
  /\ sent \in [Procs -> SUBSET Tasks]
  /\ future \in [Tasks -> {"open", "ok", "failed", "broken", "never"}]
  /\ place \in [Tasks -> {"none", "current", "inflight", "kept", "adrift"}]
  /\ alive \subseteq Procs
  /\ adopted \in [Procs -> SUBSET Rows] /\ resolved \in [Procs -> SUBSET Rows]
  /\ wrote \in [Procs -> [rows : SUBSET Rows, removed : SUBSET Rows]]
  /\ \A p \in Procs : Cardinality(pending[p]) <= 1 /\ Cardinality(writing[p]) <= 1
  /\ record \subseteq Rows

Sent(p) == sent[p] \cup {row[1] : row \in stop[p].rows}

(* A `down` is true: no task its server sent, and none that was on the     *)
(* record when it looked, has a block up or can start one any more.        *)
DownIsQuiet ==
  [][\A p \in Procs : ~stop[p].down /\ stop'[p].down =>
       \A t \in Sent(p) : ~CanStart(t)' /\ pilot'[t] # "up"]_vars

(* A server whose writes are all done has on the record every task of its  *)
(* own that it does not know finished and that can still start a block: a  *)
(* restarted server, or another one, sees it.                              *)
RecordCovers ==
  \A p \in alive : pending[p] = {} /\ writing[p] = {} /\ retries[p] = {} =>
    \A t \in Held(p) : ~LocallyResolved(t) /\ CanStart(t) =>
      \E id \in {"id", "no_id"} : <<t, id>> \in record

(* While none of its writes has failed.                                    *)
RecordKept == failed = {} => RecordCovers

(* The row of a task whose server is dead stays until no block can be      *)
(* started for it, whoever writes.                                         *)
DeadRowsKept ==
  [][\A row \in record \ record' :
       (\A p \in alive : row[1] \notin sent[p]) => ~CanStart(row[1])]_vars
=============================================================================
