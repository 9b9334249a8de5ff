------------------------- MODULE StopEndpoint_proofs -------------------------
(***************************************************************************)
(* Proofs about StopEndpoint and the record of SentChecks: types, that the *)
(* record keeps what can still start a block, also for a server that died, *)
(* and that a `down` is true.                                              *)
(***************************************************************************)
EXTENDS StopEndpoint, FiniteSetTheorems, TLAPS

(* The values a stop and the writes of the record range over.              *)
Phases == {"idle", "looking", "asking", "cancelling", "released", "settling"}
LookStates == Done \cup {"unknown", "pending"}
Shapes == UNION {[items -> LookStates] : items \in SUBSET Items}
Stops == [at : Phases, rows : SUBSET Rows, problem : BOOLEAN, states : Shapes,
          confirmed : BOOLEAN, extra : BOOLEAN, answered : BOOLEAN, down : BOOLEAN]
Written == [rows : SUBSET Rows, removed : SUBSET Rows]
WriteJobs == [rows : SUBSET Rows, drop : SUBSET Rows, before : Written]
AtMostOne(S) == \A x, y \in S : x = y

-----------------------------------------------------------------------------
(* Types: those of TypeOK, and of the writes under way and the stops.      *)

(* Tasks, and where their senders keep them.                               *)
TasksTyped ==
  /\ service \in [Tasks -> {"unsent", "sending", "queued", "ran", "failed", "never", "dead"}]
  /\ pilot \in [Tasks -> {"none", "up", "gone"}]
  /\ bounded \subseteq Tasks /\ hasId \subseteq Tasks
  /\ sent \in [Procs -> SUBSET Tasks]
  /\ future \in [Tasks -> {"open", "ok", "failed", "broken", "never"}]
  /\ place \in [Tasks -> {"none", "current", "inflight", "kept", "adrift"}]
(* What the servers read back and saw resolve.                             *)
MemoryTyped ==
  /\ alive \subseteq Procs
  /\ adopted \in [Procs -> SUBSET Rows] /\ resolved \in [Procs -> SUBSET Rows]
(* A write waits only while another is on the thread.                      *)
WritesTyped ==
  /\ wrote \in [Procs -> Written]
  /\ pending \in [Procs -> SUBSET SUBSET Rows] /\ \A p \in Procs : AtMostOne(pending[p])
  /\ writing \in [Procs -> SUBSET WriteJobs] /\ \A p \in Procs : AtMostOne(writing[p])
  /\ \A p \in Procs : writing[p] = {} => pending[p] = {}
  /\ retries \in [Procs -> SUBSET SUBSET Rows]
  /\ record \subseteq Rows
StopTyped == stop \in [Procs -> Stops]

TypeInv == TasksTyped /\ MemoryTyped /\ WritesTyped /\ StopTyped

(* A set of at most one element has at most one.                           *)
LEMMA FewElements == ASSUME NEW S, AtMostOne(S) PROVE Cardinality(S) <= 1
<1>1. CASE S = {}
  BY <1>1, FS_EmptySet
<1>2. CASE S # {}
  <2>1. PICK x \in S : TRUE
    BY <1>2
  <2>2. S = {x}
    BY <2>1 DEF AtMostOne
  <2>3. Cardinality({x}) = 1
    BY FS_Singleton
  <2> QED BY <2>2, <2>3
<1> QED BY <1>1, <1>2

(* What TypeOK asks for.                                                   *)
LEMMA TypesOK == TypeInv => TypeOK
BY FewElements DEF TypeInv, TypeOK, TasksTyped, MemoryTyped, WritesTyped, Written

(* No stop is under way.                                                   *)
LEMMA IdleTyped == Idle \in Stops
<1>1. NoItems \in Shapes
  BY DEF NoItems, Shapes, Items
<1> QED BY <1>1 DEF Idle, Stops, Phases

(* At the start.                                                           *)
LEMMA TypesInit == Init => TypeInv
<1> SUFFICES ASSUME Init PROVE TypeInv
  OBVIOUS
<1>1. TasksTyped /\ MemoryTyped
  BY DEF Init, InitChecks, TasksTyped, MemoryTyped
<1>2. WritesTyped
  BY DEF Init, InitChecks, WritesTyped, Written, AtMostOne
<1>3. StopTyped
  BY IdleTyped DEF Init, StopTyped
<1> QED BY <1>1, <1>2, <1>3 DEF TypeInv

(* One stop goes on.                                                       *)
LEMMA StopSet ==
  ASSUME StopTyped, NEW p \in Procs, NEW s \in Stops, stop' = [stop EXCEPT ![p] = s]
  PROVE  StopTyped' /\ stop'[p] = s /\ \A q \in Procs : q # p => stop'[q] = stop[q]
BY DEF StopTyped

(* It answers.                                                             *)
LEMMA StopAnswered ==
  ASSUME StopTyped, NEW p \in Procs, NEW down \in BOOLEAN, Answer(p, down)
  PROVE  /\ StopTyped' /\ stop'[p] = [Idle EXCEPT !.down = down]
         /\ stop'[p].at = "idle" /\ stop'[p].down = down /\ stop'[p].rows = {} /\ DOMAIN stop'[p].states = {}
         /\ \A q \in Procs : q # p => stop'[q] = stop[q]
<1> DEFINE s == [Idle EXCEPT !.down = down]
<1>1. s \in Stops /\ s.at = "idle" /\ s.down = down /\ s.rows = {} /\ s.states = NoItems
  BY IdleTyped DEF Idle, Stops
<1> HIDE DEF s
<1>2. DOMAIN NoItems = {}
  BY DEF NoItems
<1>3. stop' = [stop EXCEPT ![p] = s]
  BY DEF Answer, s
<1> QED BY <1>1, <1>2, <1>3, StopSet DEF s

(* The rows of a server's own tasks are rows.                              *)
LEMMA UnresolvedTyped == ASSUME TasksTyped', NEW p \in Procs PROVE Unresolved(p)' \subseteq Rows
BY DEF TasksTyped, Unresolved, RowOf, Held, Rows

(* A write taken at once, or one that waits, or none: what the record's    *)
(* thread has, and that the last write decided says what the server holds. *)
Intended(p) == IF pending[p] = {} THEN wrote[p].rows ELSE UNION pending[p]

(* The write as the thread has it.                                         *)
JobOf(p, mine, drop) == [rows |-> mine, drop |-> drop, before |-> wrote[p]]

(* A write goes on the thread at once.                                     *)
LEMMA JobTaken ==
  ASSUME WritesTyped, NEW p \in Procs, NEW mine, NEW drop, mine \subseteq Rows, drop \subseteq Rows,
         TakesJob(p, mine, drop)
  PROVE  /\ wrote' \in [Procs -> Written] /\ writing' \in [Procs -> SUBSET WriteJobs]
         /\ wrote'[p] = [rows |-> mine, removed |-> drop]
         /\ writing'[p] = {JobOf(p, mine, drop)}
         /\ \A q \in Procs : q # p => wrote'[q] = wrote[q] /\ writing'[q] = writing[q]
<1>1. [rows |-> mine, removed |-> drop] \in Written /\ wrote[p] \in Written
  BY DEF WritesTyped, Written
<1> DEFINE job == [rows |-> mine, drop |-> drop, before |-> wrote[p]]
           says == [rows |-> mine, removed |-> drop]
<1>2. job \in WriteJobs
  BY <1>1 DEF WriteJobs
<1>3. writing' = [writing EXCEPT ![p] = {job}] /\ wrote' = [wrote EXCEPT ![p] = says]
  BY DEF TakesJob
<1>4. says \in Written
  BY <1>1
<1> HIDE DEF job, says
<1>5. /\ wrote' \in [Procs -> Written] /\ writing' \in [Procs -> SUBSET WriteJobs]
      /\ wrote'[p] = says /\ writing'[p] = {job}
      /\ \A q \in Procs : q # p => wrote'[q] = wrote[q] /\ writing'[q] = writing[q]
  BY <1>2, <1>3, <1>4 DEF WritesTyped
<1> QED BY <1>5 DEF job, says, JobOf

(* Types are kept when one does.                                           *)
LEMMA TakenTyped ==
  ASSUME WritesTyped, NEW p \in Procs, NEW mine, NEW drop, mine \subseteq Rows, drop \subseteq Rows,
         TakesJob(p, mine, drop), UNCHANGED pending,
         retries' \in [Procs -> SUBSET SUBSET Rows], record' \subseteq Rows
  PROVE  WritesTyped'
<1>1. /\ wrote' \in [Procs -> Written] /\ writing' \in [Procs -> SUBSET WriteJobs]
      /\ writing'[p] = {JobOf(p, mine, drop)}
      /\ wrote'[p] = [rows |-> mine, removed |-> drop]
      /\ \A q \in Procs : q # p => wrote'[q] = wrote[q] /\ writing'[q] = writing[q]
  BY JobTaken
<1>2. AtMostOne(writing'[p]) /\ writing'[p] # {}
  BY <1>1 DEF AtMostOne
<1> QED BY <1>1, <1>2 DEF WritesTyped

(* Types are kept by a decision to write, also one that waits.             *)
LEMMA PersistsTyped ==
  ASSUME WritesTyped, TasksTyped', MemoryTyped', NEW p \in Procs, Persists(p), UNCHANGED <<retries, record>>
  PROVE  WritesTyped'
<1> DEFINE mine == Unresolved(p)'
           drop == (wrote[p].rows \cup resolved'[p]) \ mine
<1>1. mine \subseteq Rows /\ drop \subseteq Rows
  BY UnresolvedTyped DEF WritesTyped, Written, MemoryTyped
<1>2. \/ UNCHANGED <<wrote, pending, writing>>
      \/ writing[p] = {} /\ TakesJob(p, mine, drop) /\ UNCHANGED pending
      \/ writing[p] # {} /\ pending' = [pending EXCEPT ![p] = {mine}] /\ UNCHANGED <<wrote, writing>>
  BY DEF Persists
<1> HIDE DEF mine, drop
<1>3. CASE UNCHANGED <<wrote, pending, writing>>
  BY <1>3 DEF WritesTyped
<1>4. CASE writing[p] = {} /\ TakesJob(p, mine, drop) /\ UNCHANGED pending
  <2>1. retries' \in [Procs -> SUBSET SUBSET Rows] /\ record' \subseteq Rows
    BY DEF WritesTyped
  <2> QED BY <1>1, <1>4, <2>1, TakenTyped
<1>5. CASE writing[p] # {} /\ pending' = [pending EXCEPT ![p] = {mine}] /\ UNCHANGED <<wrote, writing>>
  <2>1. pending' \in [Procs -> SUBSET SUBSET Rows] /\ AtMostOne(pending'[p])
    BY <1>1, <1>5 DEF WritesTyped, AtMostOne
  <2>2. \A q \in Procs : q # p => pending'[q] = pending[q]
    BY <1>5 DEF WritesTyped
  <2> QED BY <1>5, <2>1, <2>2 DEF WritesTyped
<1> QED BY <1>2, <1>3, <1>4, <1>5

(* When a write leaves the thread, the one that waits is next.             *)
LEMMA NextTaken ==
  ASSUME WritesTyped, MemoryTyped, NEW p \in Procs, NEW written \in Written, TakesNext(p, written),
         writing[p] # {}
  PROVE  /\ wrote' \in [Procs -> Written] /\ writing' \in [Procs -> SUBSET WriteJobs]
         /\ pending' \in [Procs -> SUBSET SUBSET Rows] /\ pending'[p] = {}
         /\ AtMostOne(writing'[p])
         /\ \A q \in Procs : q # p => wrote'[q] = wrote[q] /\ writing'[q] = writing[q] /\ pending'[q] = pending[q]
         /\ pending[p] = {} => wrote'[p] = written /\ writing'[p] = {}
         /\ pending[p] # {} =>
              LET mine == UNION pending[p] IN
              LET drop == (written.rows \cup resolved[p]) \ mine IN
              /\ mine \in pending[p]
              /\ wrote'[p].rows = mine
              /\ writing'[p] = {[rows |-> mine, drop |-> drop, before |-> written]}
<1> DEFINE mine == UNION pending[p]
           drop == (written.rows \cup resolved[p]) \ mine
           next == [rows |-> mine, drop |-> drop, before |-> written]
<1>1. mine \in SUBSET Rows /\ drop \in SUBSET Rows
  BY DEF WritesTyped, Written, MemoryTyped
<1>2. [rows |-> mine, removed |-> drop] \in Written /\ next \in WriteJobs
  BY <1>1 DEF WriteJobs, Written
<1>3. pending' = [pending EXCEPT ![p] = {}]
  BY DEF TakesNext
<1>4. CASE pending[p] = {}
  <2>1. writing' = [writing EXCEPT ![p] = {}] /\ wrote' = [wrote EXCEPT ![p] = written]
    BY <1>4 DEF TakesNext
  <2> QED BY <1>3, <1>4, <2>1 DEF WritesTyped, AtMostOne
<1>5. CASE pending[p] # {}
  <2>1. writing' = [writing EXCEPT ![p] = {next}] /\ wrote' = [wrote EXCEPT ![p] = [rows |-> mine, removed |-> drop]]
    BY <1>5 DEF TakesNext
  <2>2. PICK rows \in pending[p] : TRUE
    BY <1>5
  <2>7. pending[p] = {rows}
    BY <2>2 DEF WritesTyped, AtMostOne
  <2>3. mine \in pending[p]
    BY <2>7
  <2> HIDE DEF next
  <2>4. /\ wrote' \in [Procs -> Written] /\ writing' \in [Procs -> SUBSET WriteJobs]
        /\ writing'[p] = {next} /\ wrote'[p].rows = mine
        /\ \A q \in Procs : q # p => wrote'[q] = wrote[q] /\ writing'[q] = writing[q]
    BY <1>2, <2>1 DEF WritesTyped
  <2>5. AtMostOne(writing'[p])
    BY <2>4 DEF AtMostOne
  <2>6. /\ pending' \in [Procs -> SUBSET SUBSET Rows] /\ pending'[p] = {}
        /\ \A q \in Procs : q # p => pending'[q] = pending[q]
    BY <1>3 DEF WritesTyped
  <2> QED BY <1>5, <2>3, <2>4, <2>5, <2>6 DEF next
<1> QED BY <1>4, <1>5

(* After a write landed or failed, what waits is as before or taken.       *)
LEMMA QueueKept ==
  ASSUME WritesTyped, MemoryTyped, NEW p \in Procs, NEW written \in Written, TakesNext(p, written), writing[p] # {},
         record' \subseteq Rows, retries' \in [Procs -> SUBSET SUBSET Rows]
  PROVE  WritesTyped'
<1>1. /\ wrote' \in [Procs -> Written] /\ writing' \in [Procs -> SUBSET WriteJobs]
      /\ pending' \in [Procs -> SUBSET SUBSET Rows] /\ pending'[p] = {} /\ AtMostOne(writing'[p])
      /\ \A q \in Procs : q # p => writing'[q] = writing[q] /\ pending'[q] = pending[q]
  BY NextTaken
<1> QED BY <1>1 DEF WritesTyped, AtMostOne

(* The timer of a failed write.                                            *)
LEMMA RetryTyped ==
  ASSUME WritesTyped, MemoryTyped, NEW p \in Procs, NEW job, job \in retries[p], RetryFires(p, job)
  PROVE  WritesTyped'
<1> DEFINE drop == Removed(p, job)
<1>1. job \subseteq Rows /\ drop \subseteq Rows
  BY DEF WritesTyped, MemoryTyped, Removed, Written
<1>2. retries' \in [Procs -> SUBSET SUBSET Rows] /\ record' \subseteq Rows
  BY DEF RetryFires, WritesTyped
<1>3. CASE writing[p] = {}
  <2>1. TakesJob(p, job, drop) /\ UNCHANGED pending
    BY <1>3 DEF RetryFires
  <2> HIDE DEF drop
  <2> QED BY <1>1, <1>2, <2>1, TakenTyped
<1>4. CASE writing[p] # {}
  <2>1. pending' = [pending EXCEPT ![p] = IF @ = {} THEN {job} ELSE @] /\ UNCHANGED <<wrote, writing>>
    BY <1>4 DEF RetryFires
  <2>2. pending' \in [Procs -> SUBSET SUBSET Rows] /\ AtMostOne(pending'[p])
    BY <1>1, <2>1 DEF WritesTyped, AtMostOne
  <2>3. \A q \in Procs : q # p => pending'[q] = pending[q]
    BY <2>1 DEF WritesTyped
  <2> QED BY <1>2, <1>4, <2>1, <2>2, <2>3 DEF WritesTyped
<1> QED BY <1>3, <1>4

-----------------------------------------------------------------------------
(* What a stop lists and learns.                                           *)

(* What a stop lists: the server's own tasks, and rows read back.          *)
LEMMA ItemsTyped ==
  ASSUME TasksTyped, MemoryTyped, StopTyped, NEW p \in Procs
  PROVE  Known(p) \subseteq Items /\ Strangers(p, stop[p].rows) \subseteq Rows \cap Items
<1>1. Rows \subseteq Items
  BY DEF Rows, Items
<1>2. adopted[p] \subseteq Rows /\ stop[p].rows \subseteq Rows
  BY DEF MemoryTyped, StopTyped, Stops
<1>3. Strangers(p, stop[p].rows) \subseteq stop[p].rows
  BY DEF Strangers
<1>4. Held(p) \subseteq Tasks
  BY DEF Held, TasksTyped
<1> QED BY <1>1, <1>2, <1>3, <1>4 DEF Known, Kept, CurrentChecks, Own, Items

(* Rows a server keeps that others wrote are rows.                         *)
LEMMA StrangersTyped ==
  ASSUME TypeInv, NEW p \in Procs
  PROVE  Strangers(p, stop[p].rows) \subseteq Rows
BY ItemsTyped DEF TypeInv

(* The row of an item is a row.                                            *)
LEMMA RowForTyped == ASSUME NEW i \in Items PROVE RowFor(i) \in Rows /\ RowFor(i)[1] = i[1]
<1>1. PICK t \in Tasks, how \in {"own", "id", "no_id"} : i = <<t, how>>
  BY DEF Items
<1> QED BY <1>1 DEF RowFor, RowOf, Rows

(* What a stop lists are items, each in a known state.                     *)
LEMMA ShapeOf == ASSUME NEW states \in Shapes
                 PROVE  DOMAIN states \subseteq Items /\ \A i \in DOMAIN states : states[i] \in LookStates
BY DEF Shapes

(* A round of lookups.                                                     *)
LEMMA StatesTyped ==
  ASSUME NEW p, NEW items \in SUBSET Items, NEW unread
  PROVE  /\ States(p, items, unread) \in Shapes /\ DOMAIN States(p, items, unread) = items
         /\ \A i \in items : States(p, items, unread)[i] = StateOf(p, i, unread)
<1>1. ASSUME NEW i \in items PROVE StateOf(p, i, unread) \in LookStates
  <2>1. ServiceState(i[1]) \in LookStates /\ Resolution(i[1]) \in LookStates
    BY DEF ServiceState, Resolution, LookStates, Done
  <2>2. LocalState(i) \in LookStates \cup {"ask"}
    BY DEF LocalState, NoIdState, LookStates, Done
  <2> QED BY <2>1, <2>2 DEF StateOf, LookStates
<1> QED BY <1>1 DEF States, Shapes

(* What a round shows resolved are rows.                                   *)
LEMMA SeenTyped ==
  ASSUME NEW p, NEW items \in SUBSET Items, NEW unread
  PROVE  SeenResolved(States(p, items, unread)) \subseteq Rows
BY StatesTyped, RowForTyped DEF SeenResolved

(* The stop as its phases write it.                                        *)
LEMMA StartTyped ==
  ASSUME NEW rows \in SUBSET Rows
  PROVE  /\ [Idle EXCEPT !.at = "looking", !.rows = rows] \in Stops
         /\ [Idle EXCEPT !.at = "looking", !.problem = TRUE] \in Stops
BY IdleTyped DEF Idle, Stops, Phases

(* A cancel begins.                                                        *)
LEMMA BegunTyped ==
  ASSUME NEW s \in Stops
  PROVE  /\ Begun(s) \in Stops /\ Begun(s).at = "cancelling" /\ ~Begun(s).answered
         /\ Begun(s).rows = s.rows /\ Begun(s).states = s.states /\ Begun(s).down = s.down
         /\ Begun(s).extra = s.extra /\ Begun(s).confirmed = s.confirmed /\ Begun(s).problem = s.problem
BY DEF Begun, Stops, Phases

(* A cancel ends: the stop settles, or looks the tasks up.                 *)
LEMMA ReleasedTyped ==
  ASSUME StopTyped, NEW p \in Procs, NEW confirmed \in BOOLEAN, Released(p, confirmed)
  PROVE  /\ StopTyped' /\ \A q \in Procs : q # p => stop'[q] = stop[q]
         /\ stop'[p].at = (IF stop[p].extra THEN "settling" ELSE "released") /\ stop'[p].confirmed = confirmed
         /\ stop'[p].rows = stop[p].rows /\ stop'[p].states = stop[p].states /\ stop'[p].down = stop[p].down
         /\ stop'[p].extra = stop[p].extra /\ stop'[p].answered = stop[p].answered
<1> DEFINE s == [stop[p] EXCEPT !.at = IF stop[p].extra THEN "settling" ELSE "released", !.confirmed = confirmed]
<1>1. s \in Stops
  BY DEF StopTyped, Stops, Phases
<1>2. stop' = [stop EXCEPT ![p] = s]
  BY DEF Released, StopTyped
<1>3. StopTyped' /\ stop'[p] = s /\ \A q \in Procs : q # p => stop'[q] = stop[q]
  BY <1>1, <1>2, StopSet
<1> QED BY <1>3 DEF StopTyped, Stops

(* The tasks a stop must see resolve are listed, or the stop is refused.   *)
LEMMA LooksStart ==
  ASSUME TypeInv, NEW p \in Procs, StopLooks(p)
  PROVE  /\ StopTyped' /\ \A q \in Procs : q # p => stop'[q] = stop[q]
         /\ \/ Answer(p, FALSE)
            \/ /\ ~BlockWork(p)
               /\ stop'[p].at \in {"asking", "cancelling"} /\ stop'[p].rows = stop[p].rows
               /\ stop'[p].down = stop[p].down
               /\ stop'[p].states = [i \in Known(p) \cup Strangers(p, stop[p].rows) |-> "unknown"]
<1>1. CASE BlockWork(p)
  BY <1>1, StopAnswered DEF StopLooks, TypeInv
<1>2. CASE ~BlockWork(p)
  <2> DEFINE items == Known(p) \cup Strangers(p, stop[p].rows)
             states == [i \in items |-> "unknown"]
             s == [stop[p] EXCEPT !.states = states]
             next == IF \E i \in items : i[1] \in Commands THEN [s EXCEPT !.at = "asking"] ELSE Begun(s)
  <2>1. items \in SUBSET Items
    BY ItemsTyped DEF TypeInv
  <2>3. stop' = [stop EXCEPT ![p] = next]
    BY <1>2 DEF StopLooks
  <2> HIDE DEF items
  <2>9. states \in [items -> LookStates]
    BY DEF LookStates
  <2> HIDE DEF states
  <2>2. states \in Shapes
    BY <2>1, <2>9 DEF Shapes
  <2>4. s \in Stops /\ s.states = states /\ s.rows = stop[p].rows /\ s.down = stop[p].down
    BY <2>2 DEF TypeInv, StopTyped, Stops
  <2>5. [s EXCEPT !.at = "asking"] \in Stops
    BY <2>4 DEF Stops, Phases
  <2>6. /\ [s EXCEPT !.at = "asking"].states = states /\ [s EXCEPT !.at = "asking"].rows = stop[p].rows
        /\ [s EXCEPT !.at = "asking"].at = "asking" /\ [s EXCEPT !.at = "asking"].down = stop[p].down
    BY <2>4 DEF Stops
  <2> HIDE DEF s
  <2>7. /\ next \in Stops /\ next.at \in {"asking", "cancelling"} /\ next.rows = stop[p].rows
        /\ next.down = stop[p].down /\ next.states = states
    BY <2>4, <2>5, <2>6, BegunTyped
  <2> HIDE DEF next
  <2>8. StopTyped' /\ stop'[p] = next /\ \A q \in Procs : q # p => stop'[q] = stop[q]
    BY <2>3, <2>7, StopSet DEF TypeInv
  <2> QED BY <1>2, <2>7, <2>8 DEF items, states
<1> QED BY <1>1, <1>2

(* A round of lookups after a cancel: cancel again, or settle with it.     *)
LEMMA LooksGo ==
  ASSUME TypeInv, NEW p \in Procs, NEW unread \in SUBSET DOMAIN stop[p].states, Looks(p, unread)
  PROVE  /\ StopTyped' /\ \A q \in Procs : q # p => stop'[q] = stop[q]
         /\ stop'[p].rows = stop[p].rows /\ stop'[p].down = stop[p].down /\ stop'[p].confirmed = stop[p].confirmed
         /\ \/ stop'[p].at = "cancelling" /\ stop'[p].states = stop[p].states
            \/ /\ stop'[p].states = States(p, DOMAIN stop[p].states, unread)
               /\ stop'[p].answered = stop[p].answered \/ stop'[p].at = "cancelling"
               /\ \/ stop'[p].at = "cancelling"
                  \/ /\ stop'[p].at = "settling" /\ ~stop'[p].extra
                     /\ stop[p].confirmed => \A i \in DOMAIN stop'[p].states : stop'[p].states[i] # "ok"
<1> DEFINE states == States(p, DOMAIN stop[p].states, unread)
           ran == stop[p].confirmed /\ \E i \in DOMAIN states : states[i] = "ok"
           s == [stop[p] EXCEPT !.states = states, !.extra = ran]
           next == IF ran THEN Begun(s) ELSE [s EXCEPT !.at = "settling"]
<1>1. stop[p] \in Stops /\ DOMAIN stop[p].states \in SUBSET Items
  BY ShapeOf DEF TypeInv, StopTyped, Stops
<1>2. states \in Shapes
  BY <1>1, StatesTyped
<1>3. stop' = [stop EXCEPT ![p] = Begun(stop[p])] \/ stop' = [stop EXCEPT ![p] = next]
  BY DEF Looks
<1>4. CASE stop' = [stop EXCEPT ![p] = Begun(stop[p])]
  <2>1. StopTyped' /\ stop'[p] = Begun(stop[p]) /\ \A q \in Procs : q # p => stop'[q] = stop[q]
    BY <1>1, <1>4, BegunTyped, StopSet DEF TypeInv
  <2> QED BY <1>1, <2>1, BegunTyped
<1>5. CASE stop' = [stop EXCEPT ![p] = next]
  <2>0. ran \in BOOLEAN
    OBVIOUS
  <2>1. ran <=> (stop[p].confirmed /\ \E i \in DOMAIN states : states[i] = "ok")
    BY <1>1 DEF Stops
  <2> HIDE DEF states, ran
  <2>2. /\ s \in Stops /\ s.states = states /\ s.extra = ran /\ s.rows = stop[p].rows /\ s.down = stop[p].down
        /\ s.confirmed = stop[p].confirmed /\ s.answered = stop[p].answered
    BY <1>1, <1>2, <2>0 DEF Stops
  <2> DEFINE settled == [s EXCEPT !.at = "settling"]
  <2>3. /\ settled \in Stops /\ settled.at = "settling" /\ settled.states = states /\ settled.extra = ran
        /\ settled.rows = stop[p].rows /\ settled.down = stop[p].down /\ settled.confirmed = stop[p].confirmed
        /\ settled.answered = stop[p].answered
    BY <2>2 DEF Stops, Phases
  <2>4. next = IF ran THEN Begun(s) ELSE settled
    OBVIOUS
  <2> HIDE DEF s, settled, next
  <2>5. next \in Stops
    BY <2>2, <2>3, <2>4, BegunTyped
  <2>6. StopTyped' /\ stop'[p] = next /\ \A q \in Procs : q # p => stop'[q] = stop[q]
    BY <1>5, <2>5, StopSet DEF TypeInv
  <2>7. CASE ran
    <3>1. stop'[p] = Begun(s)
      BY <2>4, <2>6, <2>7
    <3> QED BY <2>2, <2>6, <3>1, BegunTyped DEF states
  <2>8. CASE ~ran
    <3>1. stop'[p] = settled
      BY <2>4, <2>6, <2>8
    <3> QED BY <2>1, <2>3, <2>6, <2>8, <3>1 DEF states
  <2> QED BY <2>7, <2>8
<1> QED BY <1>3, <1>4, <1>5

(* What a stop's answer takes off the lists and notes as resolved.         *)
LEMMA StopResolves ==
  ASSUME TypeInv, NEW p \in Procs, StopAnswers(p)
  PROVE  adopted' \in [Procs -> SUBSET Rows] /\ resolved' \in [Procs -> SUBSET Rows] /\ UNCHANGED alive
<1>1. CASE BlockWork(p)
  BY <1>1 DEF StopAnswers, memoryVars, TypeInv, MemoryTyped
<1>2. CASE ~BlockWork(p)
  <2>1. PICK gone \in {{}, Evidence(p)} :
          LET states == WithLost(stop[p].states, gone) IN
          LET over == {i \in DOMAIN states : states[i] \in Done} IN
          /\ adopted' = [adopted EXCEPT ![p] = @ \ over]
          /\ resolved' = [resolved EXCEPT ![p] = @ \cup
               {RowFor(i) : i \in {j \in over : j[2] # "own" \/ RowFor(j)[2] = "id"}}]
    BY <1>2 DEF StopAnswers
  <2> DEFINE states == WithLost(stop[p].states, gone)
             over == {i \in DOMAIN states : states[i] \in Done}
             rows == {RowFor(i) : i \in {j \in over : j[2] # "own" \/ RowFor(j)[2] = "id"}}
  <2>2. over \subseteq Items
    BY ShapeOf DEF WithLost, TypeInv, StopTyped, Stops
  <2>3. rows \subseteq Rows
    BY <2>2, RowForTyped
  <2>4. adopted' = [adopted EXCEPT ![p] = @ \ over] /\ resolved' = [resolved EXCEPT ![p] = @ \cup rows]
    BY <2>1
  <2> HIDE DEF over, rows
  <2> QED BY <2>3, <2>4 DEF TypeInv, MemoryTyped, StopAnswers
<1> QED BY <1>1, <1>2

(* No step leaves the types.                                               *)
LEMMA TypesKept == TypeInv /\ [Next]_vars => TypeInv'
<1> SUFFICES ASSUME TypeInv, [Next]_vars PROVE TypeInv'
  OBVIOUS
<1>1. ASSUME NEW t \in Tasks, Taken(t), UNCHANGED stop PROVE TypeInv'
  <2>1. TasksTyped'
    BY <1>1 DEF TypeInv, TasksTyped, Taken, serviceOnly, memoryVars, writeVars
  <2>2. MemoryTyped'
    BY <1>1 DEF TypeInv, MemoryTyped, Taken, serviceOnly, memoryVars, writeVars
  <2>3. WritesTyped'
    BY <1>1 DEF TypeInv, WritesTyped, Taken, serviceOnly, memoryVars, writeVars
  <2>4. StopTyped'
    BY <1>1 DEF TypeInv, StopTyped, Taken, serviceOnly, memoryVars, writeVars
  <2> QED BY <2>1, <2>2, <2>3, <2>4 DEF TypeInv
<1>2. ASSUME NEW t \in Tasks, StartBlock(t), UNCHANGED stop PROVE TypeInv'
  <2>1. TasksTyped'
    BY <1>2 DEF TypeInv, TasksTyped, StartBlock, serviceOnly, memoryVars, writeVars
  <2>2. MemoryTyped'
    BY <1>2 DEF TypeInv, MemoryTyped, StartBlock, serviceOnly, memoryVars, writeVars
  <2>3. WritesTyped'
    BY <1>2 DEF TypeInv, WritesTyped, StartBlock, serviceOnly, memoryVars, writeVars
  <2>4. StopTyped'
    BY <1>2 DEF TypeInv, StopTyped, StartBlock, serviceOnly, memoryVars, writeVars
  <2> QED BY <2>1, <2>2, <2>3, <2>4 DEF TypeInv
<1>3. ASSUME NEW t \in Tasks, Runs(t), UNCHANGED stop PROVE TypeInv'
  <2>1. TasksTyped'
    BY <1>3 DEF TypeInv, TasksTyped, Runs, serviceOnly, memoryVars, writeVars
  <2>2. MemoryTyped'
    BY <1>3 DEF TypeInv, MemoryTyped, Runs, serviceOnly, memoryVars, writeVars
  <2>3. WritesTyped'
    BY <1>3 DEF TypeInv, WritesTyped, Runs, serviceOnly, memoryVars, writeVars
  <2>4. StopTyped'
    BY <1>3 DEF TypeInv, StopTyped, Runs, serviceOnly, memoryVars, writeVars
  <2> QED BY <2>1, <2>2, <2>3, <2>4 DEF TypeInv
<1>4. ASSUME NEW t \in Tasks, GivesUp(t), UNCHANGED stop PROVE TypeInv'
  <2>1. TasksTyped'
    BY <1>4 DEF TypeInv, TasksTyped, GivesUp, serviceOnly, memoryVars, writeVars
  <2>2. MemoryTyped'
    BY <1>4 DEF TypeInv, MemoryTyped, GivesUp, serviceOnly, memoryVars, writeVars
  <2>3. WritesTyped'
    BY <1>4 DEF TypeInv, WritesTyped, GivesUp, serviceOnly, memoryVars, writeVars
  <2>4. StopTyped'
    BY <1>4 DEF TypeInv, StopTyped, GivesUp, serviceOnly, memoryVars, writeVars
  <2> QED BY <2>1, <2>2, <2>3, <2>4 DEF TypeInv
<1>5. ASSUME NEW t \in Tasks, PilotEnds(t), UNCHANGED stop PROVE TypeInv'
  <2>1. TasksTyped'
    BY <1>5 DEF TypeInv, TasksTyped, PilotEnds, serviceOnly, memoryVars, writeVars
  <2>2. MemoryTyped'
    BY <1>5 DEF TypeInv, MemoryTyped, PilotEnds, serviceOnly, memoryVars, writeVars
  <2>3. WritesTyped'
    BY <1>5 DEF TypeInv, WritesTyped, PilotEnds, serviceOnly, memoryVars, writeVars
  <2>4. StopTyped'
    BY <1>5 DEF TypeInv, StopTyped, PilotEnds, serviceOnly, memoryVars, writeVars
  <2> QED BY <2>1, <2>2, <2>3, <2>4 DEF TypeInv
<1>6. ASSUME NEW t \in Tasks, NoIdBound(t) PROVE TypeInv'
  <2>1. TasksTyped'
    BY <1>6 DEF TypeInv, TasksTyped, NoIdBound, memoryVars, writeVars
  <2>2. MemoryTyped'
    BY <1>6 DEF TypeInv, MemoryTyped, NoIdBound, memoryVars, writeVars
  <2>3. WritesTyped'
    BY <1>6 DEF TypeInv, WritesTyped, NoIdBound, memoryVars, writeVars
  <2>4. StopTyped'
    BY <1>6 DEF TypeInv, StopTyped, NoIdBound, memoryVars, writeVars
  <2> QED BY <2>1, <2>2, <2>3, <2>4 DEF TypeInv
<1>7. ASSUME NEW p \in Procs, NEW t \in Tasks, SendCheck(p, t), UNCHANGED stop PROVE TypeInv'
  <2>1. TasksTyped'
    BY <1>7 DEF TypeInv, TasksTyped, SendCheck, Sends, writeStep, memoryVars, writeVars
  <2>2. MemoryTyped'
    BY <1>7 DEF TypeInv, MemoryTyped, SendCheck, Sends, writeStep, memoryVars, writeVars
  <2>3. WritesTyped'
    BY <1>7, <2>1, <2>2, PersistsTyped DEF TypeInv, SendCheck, Sends, writeStep, memoryVars, writeVars
  <2>4. StopTyped'
    BY <1>7 DEF TypeInv, StopTyped, SendCheck, Sends, writeStep, memoryVars, writeVars
  <2> QED BY <2>1, <2>2, <2>3, <2>4 DEF TypeInv
<1>8. ASSUME NEW p \in Procs, NEW t \in Tasks, SendCommand(p, t), UNCHANGED stop PROVE TypeInv'
  <2>1. TasksTyped'
    BY <1>8 DEF TypeInv, TasksTyped, SendCommand, Sends, writeStep, memoryVars, writeVars
  <2>2. MemoryTyped'
    BY <1>8 DEF TypeInv, MemoryTyped, SendCommand, Sends, writeStep, memoryVars, writeVars
  <2>3. WritesTyped'
    BY <1>8, <2>1, <2>2, PersistsTyped DEF TypeInv, SendCommand, Sends, writeStep, memoryVars, writeVars
  <2>4. StopTyped'
    BY <1>8 DEF TypeInv, StopTyped, SendCommand, Sends, writeStep, memoryVars, writeVars
  <2> QED BY <2>1, <2>2, <2>3, <2>4 DEF TypeInv
<1>9. ASSUME NEW p \in Procs, NEW t \in Tasks, IdSeen(p, t), UNCHANGED stop PROVE TypeInv'
  <2>1. TasksTyped'
    BY <1>9 DEF TypeInv, TasksTyped, IdSeen, memoryVars, writeVars
  <2>2. MemoryTyped'
    BY <1>9 DEF TypeInv, MemoryTyped, IdSeen, memoryVars, writeVars
  <2>3. WritesTyped'
    BY <1>9 DEF TypeInv, WritesTyped, IdSeen, memoryVars, writeVars
  <2>4. StopTyped'
    BY <1>9 DEF TypeInv, StopTyped, IdSeen, memoryVars, writeVars
  <2> QED BY <2>1, <2>2, <2>3, <2>4 DEF TypeInv
<1>10. ASSUME NEW p \in Procs, NEW t \in Tasks, Refused(p, t), UNCHANGED stop PROVE TypeInv'
  <2>1. TasksTyped'
    BY <1>10 DEF TypeInv, TasksTyped, Refused, futureStep, writeStep, memoryVars, writeVars
  <2>2. MemoryTyped'
    BY <1>10 DEF TypeInv, MemoryTyped, Refused, futureStep, writeStep, memoryVars, writeVars
  <2>3. WritesTyped'
    BY <1>10, <2>1, <2>2, PersistsTyped DEF TypeInv, Refused, futureStep, writeStep, memoryVars, writeVars
  <2>4. StopTyped'
    BY <1>10 DEF TypeInv, StopTyped, Refused, futureStep, writeStep, memoryVars, writeVars
  <2> QED BY <2>1, <2>2, <2>3, <2>4 DEF TypeInv
<1>11. ASSUME NEW p \in Procs, NEW t \in Tasks, Unclear(p, t), UNCHANGED stop PROVE TypeInv'
  <2>1. TasksTyped'
    BY <1>11 DEF TypeInv, TasksTyped, Unclear, futureStep, writeStep, memoryVars, writeVars
  <2>2. MemoryTyped'
    BY <1>11 DEF TypeInv, MemoryTyped, Unclear, futureStep, writeStep, memoryVars, writeVars
  <2>3. WritesTyped'
    BY <1>11, <2>1, <2>2, PersistsTyped DEF TypeInv, Unclear, futureStep, writeStep, memoryVars, writeVars
  <2>4. StopTyped'
    BY <1>11 DEF TypeInv, StopTyped, Unclear, futureStep, writeStep, memoryVars, writeVars
  <2> QED BY <2>1, <2>2, <2>3, <2>4 DEF TypeInv
<1>12. ASSUME NEW p \in Procs, NEW t \in Tasks, Breaks(p, t), UNCHANGED stop PROVE TypeInv'
  <2>1. TasksTyped'
    BY <1>12 DEF TypeInv, TasksTyped, Breaks, futureStep, writeStep, memoryVars, writeVars
  <2>2. MemoryTyped'
    BY <1>12 DEF TypeInv, MemoryTyped, Breaks, futureStep, writeStep, memoryVars, writeVars
  <2>3. WritesTyped'
    BY <1>12, <2>1, <2>2, PersistsTyped DEF TypeInv, Breaks, futureStep, writeStep, memoryVars, writeVars
  <2>4. StopTyped'
    BY <1>12 DEF TypeInv, StopTyped, Breaks, futureStep, writeStep, memoryVars, writeVars
  <2> QED BY <2>1, <2>2, <2>3, <2>4 DEF TypeInv
<1>13. ASSUME NEW p \in Procs, NEW t \in Tasks, ResultArrives(p, t) PROVE TypeInv'
  <2>1. TasksTyped'
    BY <1>13 DEF TypeInv, TasksTyped, ResultArrives, Delivered, futureStep, writeStep, memoryVars, writeVars
  <2>2. MemoryTyped'
    BY <1>13 DEF TypeInv, MemoryTyped, ResultArrives, Delivered, futureStep, writeStep, memoryVars, writeVars
  <2>3. WritesTyped'
    BY <1>13, <2>1, <2>2, PersistsTyped DEF TypeInv, ResultArrives, Delivered, futureStep, writeStep,
        memoryVars,
        writeVars
  <2>4. StopTyped'
    <3>1. \E b \in BOOLEAN : stop' = [stop EXCEPT ![p].answered = b]
      BY <1>13 DEF ResultArrives, TypeInv, StopTyped, Stops
    <3> QED BY <3>1 DEF TypeInv, StopTyped, Stops
  <2> QED BY <2>1, <2>2, <2>3, <2>4 DEF TypeInv
<1>14. ASSUME NEW p \in Procs, WatchIds(p), UNCHANGED stop PROVE TypeInv'
  <2>1. TasksTyped'
    BY <1>14 DEF TypeInv, TasksTyped, WatchIds, taskVars, writeStep, memoryVars, writeVars
  <2>2. MemoryTyped'
    BY <1>14 DEF TypeInv, MemoryTyped, WatchIds, taskVars, writeStep, memoryVars, writeVars
  <2>3. WritesTyped'
    BY <1>14, <2>1, <2>2, PersistsTyped DEF TypeInv, WatchIds, taskVars, writeStep, memoryVars, writeVars
  <2>4. StopTyped'
    BY <1>14 DEF TypeInv, StopTyped, WatchIds, taskVars, writeStep, memoryVars, writeVars
  <2> QED BY <2>1, <2>2, <2>3, <2>4 DEF TypeInv
<1>15. ASSUME NEW p \in Procs, WriteLands(p), UNCHANGED stop PROVE TypeInv'
  <2>1. TasksTyped'
    BY <1>15 DEF TypeInv, TasksTyped, WriteLands, taskVars, memoryVars, writeVars
  <2>2. MemoryTyped'
    BY <1>15 DEF TypeInv, MemoryTyped, WriteLands, taskVars, memoryVars, writeVars
  <2>3. WritesTyped'
    <3>1. PICK w \in writing[p] : record' = Merged(record, w.rows, w.drop)
      BY <1>15 DEF WriteLands
    <3>2. record' \subseteq Rows
      BY <3>1 DEF TypeInv, WritesTyped, WriteJobs, Merged
    <3>3. wrote[p] \in Written /\ writing[p] # {} /\ TakesNext(p, wrote[p])
      BY <1>15, <3>1 DEF TypeInv, WritesTyped, WriteLands
    <3>4. retries' \in [Procs -> SUBSET SUBSET Rows]
      BY <1>15 DEF TypeInv, WritesTyped, WriteLands
    <3> QED BY <3>2, <3>3, <3>4, QueueKept DEF TypeInv
  <2>4. StopTyped'
    BY <1>15 DEF TypeInv, StopTyped, WriteLands, taskVars, memoryVars, writeVars
  <2> QED BY <2>1, <2>2, <2>3, <2>4 DEF TypeInv
<1>16. ASSUME NEW p \in Procs, WriteFails(p), UNCHANGED stop PROVE TypeInv'
  <2>1. TasksTyped'
    BY <1>16 DEF TypeInv, TasksTyped, WriteFails, taskVars, memoryVars, writeVars
  <2>2. MemoryTyped'
    BY <1>16 DEF TypeInv, MemoryTyped, WriteFails, taskVars, memoryVars, writeVars
  <2>3. WritesTyped'
    <3>1. PICK w \in writing[p] : retries' = [retries EXCEPT ![p] = @ \cup {w.rows}] /\ TakesNext(p, w.before)
      BY <1>16 DEF WriteFails
    <3>2. w.before \in Written /\ w.rows \in SUBSET Rows /\ writing[p] # {}
      BY <3>1 DEF TypeInv, WritesTyped, WriteJobs
    <3>3. retries' \in [Procs -> SUBSET SUBSET Rows]
      BY <3>1, <3>2 DEF TypeInv, WritesTyped
    <3>4. record' \subseteq Rows
      BY <1>16 DEF TypeInv, WritesTyped, WriteFails
    <3> QED BY <3>1, <3>2, <3>3, <3>4, QueueKept DEF TypeInv
  <2>4. StopTyped'
    BY <1>16 DEF TypeInv, StopTyped, WriteFails, taskVars, memoryVars, writeVars
  <2> QED BY <2>1, <2>2, <2>3, <2>4 DEF TypeInv
<1>17. ASSUME NEW p \in Procs, NEW job \in retries[p], RetryFires(p, job), UNCHANGED stop PROVE TypeInv'
  <2>1. TasksTyped'
    BY <1>17 DEF TypeInv, TasksTyped, RetryFires, taskVars, memoryVars, writeVars
  <2>2. MemoryTyped'
    BY <1>17 DEF TypeInv, MemoryTyped, RetryFires, taskVars, memoryVars, writeVars
  <2>3. WritesTyped'
    BY <1>17, RetryTyped DEF TypeInv, RetryFires, memoryVars
  <2>4. StopTyped'
    BY <1>17 DEF TypeInv, StopTyped, RetryFires, taskVars, memoryVars, writeVars
  <2> QED BY <2>1, <2>2, <2>3, <2>4 DEF TypeInv
<1>18. ASSUME NEW p \in Procs, Rebinds(p) PROVE TypeInv'
  <2>1. TasksTyped'
    BY <1>18 DEF TypeInv, TasksTyped, Rebinds, Rebind, writeStep, memoryVars, writeVars, KeepsChecks
  <2>2. MemoryTyped'
    BY <1>18 DEF TypeInv, MemoryTyped, Rebinds, Rebind, writeStep, memoryVars, writeVars
  <2>3. WritesTyped'
    BY <1>18, <2>1, <2>2, PersistsTyped DEF TypeInv, Rebinds, Rebind, writeStep, memoryVars, writeVars
  <2>4. StopTyped'
    BY <1>18 DEF TypeInv, StopTyped, Stops, Rebinds
  <2> QED BY <2>1, <2>2, <2>3, <2>4 DEF TypeInv
<1>19. ASSUME NEW p \in Procs, Dies(p) PROVE TypeInv'
  <2>1. TasksTyped'
    BY <1>19 DEF TypeInv, TasksTyped, Dies, Crash, memoryVars, writeVars
  <2>2. MemoryTyped'
    BY <1>19 DEF TypeInv, MemoryTyped, Dies, Crash, memoryVars, writeVars
  <2>3. WritesTyped'
    <3>1. [rows |-> {}, removed |-> {}] \in Written
      BY DEF Written
    <3> QED BY <1>19, <3>1 DEF TypeInv, WritesTyped, AtMostOne, Dies, Crash
  <2>4. StopTyped'
    BY <1>19, IdleTyped, StopSet DEF TypeInv, Dies
  <2> QED BY <2>1, <2>2, <2>3, <2>4 DEF TypeInv
<1>20. ASSUME NEW p \in Procs, StopReads(p) PROVE TypeInv'
  <2>1. TasksTyped'
    BY <1>20 DEF TypeInv, TasksTyped, StopReads, taskVars, memoryVars, writeVars
  <2>2. MemoryTyped'
    BY <1>20 DEF TypeInv, MemoryTyped, StopReads, taskVars, memoryVars, writeVars
  <2>3. WritesTyped'
    BY <1>20 DEF TypeInv, WritesTyped, StopReads, taskVars, memoryVars, writeVars
  <2>4. StopTyped'
    <3>1. PICK s \in Stops : stop' = [stop EXCEPT ![p] = s]
      BY <1>20, StartTyped DEF TypeInv, WritesTyped, StopReads
    <3> QED BY <3>1, StopSet DEF TypeInv
  <2> QED BY <2>1, <2>2, <2>3, <2>4 DEF TypeInv
<1>21. ASSUME NEW p \in Procs, StopLooks(p) PROVE TypeInv'
  <2>1. TasksTyped'
    BY <1>21 DEF TypeInv, TasksTyped, StopLooks, taskVars, memoryVars, writeVars
  <2>2. MemoryTyped'
    BY <1>21, StrangersTyped DEF TypeInv, MemoryTyped, StopLooks
  <2>3. WritesTyped'
    BY <1>21 DEF TypeInv, WritesTyped, StopLooks, taskVars, memoryVars, writeVars
  <2>4. StopTyped'
    BY <1>21, LooksStart DEF TypeInv
  <2> QED BY <2>1, <2>2, <2>3, <2>4 DEF TypeInv
<1>22. ASSUME NEW p \in Procs, NEW unread \in SUBSET DOMAIN stop[p].states, StopAsks(p, unread) PROVE TypeInv'
  <2>1. TasksTyped'
    BY <1>22 DEF TypeInv, TasksTyped, StopAsks, taskVars, memoryVars, writeVars
  <2>2. MemoryTyped'
    <3>1. PICK young \in SUBSET DOMAIN stop[p].states :
            resolved' = [resolved EXCEPT ![p] = @ \cup SeenResolved(States(p, young, unread))]
      BY <1>22 DEF StopAsks
    <3>2. SeenResolved(States(p, young, unread)) \subseteq Rows
      BY ShapeOf, SeenTyped DEF TypeInv, StopTyped, Stops
    <3> QED BY <1>22, <3>1, <3>2 DEF TypeInv, MemoryTyped, StopAsks
  <2>3. WritesTyped'
    BY <1>22 DEF TypeInv, WritesTyped, StopAsks, taskVars, memoryVars, writeVars
  <2>4. StopTyped'
    <3>1. Answer(p, FALSE) \/ stop' = [stop EXCEPT ![p] = Begun(stop[p])]
      BY <1>22 DEF StopAsks
    <3>2. stop[p] \in Stops
      BY DEF TypeInv, StopTyped
    <3> QED BY <3>1, <3>2, BegunTyped, StopSet, StopAnswered DEF TypeInv
  <2> QED BY <2>1, <2>2, <2>3, <2>4 DEF TypeInv
<1>23. ASSUME NEW p \in Procs, ReleaseEnds(p) PROVE TypeInv'
  <2>1. TasksTyped'
    BY <1>23 DEF TypeInv, TasksTyped, ReleaseEnds, serviceOnly, memoryVars, writeVars, NoBlockUp
  <2>2. MemoryTyped'
    BY <1>23 DEF TypeInv, MemoryTyped, ReleaseEnds, serviceOnly, memoryVars, writeVars
  <2>3. WritesTyped'
    BY <1>23 DEF TypeInv, WritesTyped, ReleaseEnds, serviceOnly, memoryVars, writeVars
  <2>4. StopTyped'
    BY <1>23, ReleasedTyped DEF TypeInv, ReleaseEnds
  <2> QED BY <2>1, <2>2, <2>3, <2>4 DEF TypeInv
<1>24. ASSUME NEW p \in Procs, ReleaseFails(p) PROVE TypeInv'
  <2>1. TasksTyped'
    BY <1>24 DEF TypeInv, TasksTyped, ReleaseFails, memoryVars, writeVars, NoBlockUp
  <2>2. MemoryTyped'
    BY <1>24 DEF TypeInv, MemoryTyped, ReleaseFails, memoryVars, writeVars
  <2>3. WritesTyped'
    BY <1>24 DEF TypeInv, WritesTyped, ReleaseFails, memoryVars, writeVars
  <2>4. StopTyped'
    BY <1>24, ReleasedTyped DEF TypeInv, ReleaseFails
  <2> QED BY <2>1, <2>2, <2>3, <2>4 DEF TypeInv
<1>25. ASSUME NEW p \in Procs, NEW unread \in SUBSET DOMAIN stop[p].states, Looks(p, unread) PROVE TypeInv'
  <2>1. TasksTyped'
    BY <1>25 DEF TypeInv, TasksTyped, Looks, taskVars, memoryVars, writeVars
  <2>2. MemoryTyped'
    <3>1. SeenResolved(States(p, DOMAIN stop[p].states, unread)) \subseteq Rows
      BY ShapeOf, SeenTyped DEF TypeInv, StopTyped, Stops
    <3> QED BY <1>25, <3>1 DEF TypeInv, MemoryTyped, Looks
  <2>3. WritesTyped'
    BY <1>25 DEF TypeInv, WritesTyped, Looks, taskVars, memoryVars, writeVars
  <2>4. StopTyped'
    BY <1>25, LooksGo DEF TypeInv
  <2> QED BY <2>1, <2>2, <2>3, <2>4 DEF TypeInv
<1>26. ASSUME NEW p \in Procs, StopAnswers(p) PROVE TypeInv'
  <2>1. TasksTyped'
    <3>1. UNCHANGED place \/ \E over : place' =
              [u \in Tasks |-> IF <<u, "own">> \in over THEN "none" ELSE KeepsChecks(p)[u]]
      BY <1>26 DEF StopAnswers
    <3> QED BY <1>26, <3>1 DEF TypeInv, TasksTyped, StopAnswers, KeepsChecks
  <2>2. MemoryTyped'
    BY <1>26, StopResolves DEF TypeInv, MemoryTyped
  <2>3. WritesTyped'
    BY <1>26, <2>1, <2>2, PersistsTyped DEF TypeInv, StopAnswers, WritesTyped, memoryVars
  <2>4. StopTyped'
    <3>1. PICK down \in BOOLEAN : Answer(p, down)
      BY <1>26 DEF StopAnswers
    <3> QED BY <3>1, StopAnswered DEF TypeInv
  <2> QED BY <2>1, <2>2, <2>3, <2>4 DEF TypeInv
<1>27. ASSUME NEW p \in Procs, StopGivesUp(p) PROVE TypeInv'
  <2>1. TasksTyped'
    BY <1>27 DEF TypeInv, TasksTyped, StopGivesUp, taskVars, memoryVars, writeVars
  <2>2. MemoryTyped'
    BY <1>27 DEF TypeInv, MemoryTyped, StopGivesUp, taskVars, memoryVars, writeVars
  <2>3. WritesTyped'
    BY <1>27 DEF TypeInv, WritesTyped, StopGivesUp, taskVars, memoryVars, writeVars
  <2>4. StopTyped'
    BY <1>27, StopAnswered DEF TypeInv, StopGivesUp
  <2> QED BY <2>1, <2>2, <2>3, <2>4 DEF TypeInv
<1>28. ASSUME UNCHANGED vars PROVE TypeInv'
  BY <1>28 DEF vars, checkVars, taskVars, memoryVars, writeVars, TypeInv, TasksTyped, MemoryTyped, WritesTyped,
      StopTyped
<1> QED BY <1>1, <1>2, <1>3, <1>4, <1>5, <1>6, <1>7, <1>8, <1>9, <1>10, <1>11, <1>12, <1>13, <1>14, <1>15,
            <1>16, <1>17, <1>18, <1>19, <1>20, <1>21, <1>22, <1>23, <1>24, <1>25, <1>26, <1>27, <1>28 DEF Next,
            ServiceSteps, FutureSteps, Writes, StopSteps

(* Types are right in every reachable state: of tasks and their futures,   *)
(* the record and its writes (at most one on the thread, one waiting).     *)
THEOREM TypeCorrect == Spec => []TypeOK
<1>1. TypeInv /\ [Next]_vars => TypeInv'
  BY TypesKept
<1> QED BY <1>1, TypesInit, TypesOK, PTL DEF Spec

-----------------------------------------------------------------------------
(* The tasks at the service, and what their sender's futures say of them.  *)

(* Sent, and no block can be started for it any more.                      *)
Over(t) == service[t] # "unsent" /\ ~CanStart(t)

(* A task is one server's, which sent it.                                  *)
OwnTasks ==
  /\ \A p \in Procs : \A t \in sent[p] : service[t] # "unsent"
  /\ \A p, q \in Procs : p # q => sent[p] \cap sent[q] = {}
(* A future says what became of the task.                                  *)
FuturesTrue ==
  \A t \in Tasks :
    /\ future[t] = "ok" => service[t] = "ran"
    /\ future[t] = "failed" => service[t] = "failed"
    /\ future[t] = "never" => service[t] = "never"
(* The bound on a task with no id has passed only when it is over.         *)
BoundedOver == \A t \in bounded : Over(t)
(* Only a check is given up, once its block is gone.                       *)
PilotsFit ==
  \A t \in Tasks :
    /\ t \in Checks /\ service[t] \in {"unsent", "sending", "never"} => pilot[t] = "none"
    /\ service[t] \in {"failed", "dead"} => t \in Checks /\ pilot[t] = "gone"

FactsInv == OwnTasks /\ FuturesTrue /\ BoundedOver /\ PilotsFit

(* What is over stays over, and what a server sent it has sent.            *)
Onward ==
  /\ \A t \in Tasks : Over(t) => Over(t)'
  /\ \A t \in Tasks : service[t] \in {"ran", "failed", "never", "dead"} => service'[t] = service[t]
  /\ \A t \in Tasks : service[t] # "unsent" => service'[t] # "unsent"
  /\ \A p \in Procs : sent[p] \subseteq sent'[p]
  /\ bounded \subseteq bounded'

(* Where a bounded command with no id may still be waiting (`_no_id_state` *)
(* on a command, warmth.py) is one of KnownGaps: the proofs leave it out.  *)
NoIdIsOver == "command_no_id" \notin Gaps

(* A task is a check or a command.                                         *)
LEMMA OneKind == \A t \in Tasks : (t \in Checks /\ t \notin Commands) \/ (t \notin Checks /\ t \in Commands)
BY ChecksAssumption DEF ChecksAssumption, Tasks

(* At the start.                                                           *)
LEMMA FactsInit == Init => FactsInv
<1> SUFFICES ASSUME Init PROVE FactsInv
  OBVIOUS
<1> QED BY OneKind DEF Init, InitChecks, FactsInv, OwnTasks, FuturesTrue, BoundedOver, PilotsFit

(* Every step goes onward, and keeps what is known of the tasks.           *)
LEMMA FactsKept ==
  ASSUME NoIdIsOver, TypeInv, FactsInv, [Next]_vars
  PROVE  Onward /\ FactsInv'
<1> USE DEF FactsInv
<1>1. ASSUME NEW t \in Tasks, Taken(t), UNCHANGED stop
      PROVE  Onward /\ OwnTasks' /\ FuturesTrue' /\ BoundedOver' /\ PilotsFit'
  <2>1. Onward
    BY <1>1 DEF TypeInv, TasksTyped, OwnTasks, Onward, Over, CanStart, Taken, serviceOnly, memoryVars, writeVars
  <2>2. OwnTasks'
    BY <1>1, <2>1 DEF TypeInv, TasksTyped, OwnTasks, Onward, Taken, serviceOnly, memoryVars, writeVars
  <2>3. FuturesTrue'
    BY <1>1, <2>1 DEF TypeInv, TasksTyped, FuturesTrue, Onward, Taken, serviceOnly, memoryVars, writeVars
  <2>4. BoundedOver'
    BY <1>1, <2>1 DEF TypeInv, TasksTyped, BoundedOver, Onward, Taken, serviceOnly, memoryVars, writeVars
  <2>5. PilotsFit'
    BY <1>1, OneKind DEF TypeInv, TasksTyped, PilotsFit, CanStart, Taken, serviceOnly, memoryVars, writeVars
  <2> QED BY <2>1, <2>2, <2>3, <2>4, <2>5
<1>2. ASSUME NEW t \in Tasks, StartBlock(t), UNCHANGED stop
      PROVE  Onward /\ OwnTasks' /\ FuturesTrue' /\ BoundedOver' /\ PilotsFit'
  <2>1. Onward
    BY <1>2 DEF TypeInv, TasksTyped, OwnTasks, Onward, Over, CanStart, StartBlock, serviceOnly, memoryVars,
        writeVars
  <2>2. OwnTasks'
    BY <1>2, <2>1 DEF TypeInv, TasksTyped, OwnTasks, Onward, StartBlock, serviceOnly, memoryVars, writeVars
  <2>3. FuturesTrue'
    BY <1>2, <2>1 DEF TypeInv, TasksTyped, FuturesTrue, Onward, StartBlock, serviceOnly, memoryVars, writeVars
  <2>4. BoundedOver'
    BY <1>2, <2>1 DEF TypeInv, TasksTyped, BoundedOver, Onward, StartBlock, serviceOnly, memoryVars, writeVars
  <2>5. PilotsFit'
    BY <1>2, OneKind DEF TypeInv, TasksTyped, PilotsFit, CanStart, StartBlock, serviceOnly, memoryVars,
        writeVars
  <2> QED BY <2>1, <2>2, <2>3, <2>4, <2>5
<1>3. ASSUME NEW t \in Tasks, Runs(t), UNCHANGED stop
      PROVE  Onward /\ OwnTasks' /\ FuturesTrue' /\ BoundedOver' /\ PilotsFit'
  <2>1. Onward
    BY <1>3 DEF TypeInv, TasksTyped, OwnTasks, Onward, Over, CanStart, Runs, serviceOnly, memoryVars, writeVars
  <2>2. OwnTasks'
    BY <1>3, <2>1 DEF TypeInv, TasksTyped, OwnTasks, Onward, Runs, serviceOnly, memoryVars, writeVars
  <2>3. FuturesTrue'
    BY <1>3, <2>1 DEF TypeInv, TasksTyped, FuturesTrue, Onward, Runs, serviceOnly, memoryVars, writeVars
  <2>4. BoundedOver'
    BY <1>3, <2>1 DEF TypeInv, TasksTyped, BoundedOver, Onward, Runs, serviceOnly, memoryVars, writeVars
  <2>5. PilotsFit'
    BY <1>3, OneKind DEF TypeInv, TasksTyped, PilotsFit, CanStart, Runs, serviceOnly, memoryVars, writeVars
  <2> QED BY <2>1, <2>2, <2>3, <2>4, <2>5
<1>4. ASSUME NEW t \in Tasks, GivesUp(t), UNCHANGED stop
      PROVE  Onward /\ OwnTasks' /\ FuturesTrue' /\ BoundedOver' /\ PilotsFit'
  <2>1. Onward
    BY <1>4 DEF TypeInv, TasksTyped, OwnTasks, Onward, Over, CanStart, GivesUp, serviceOnly, memoryVars,
        writeVars
  <2>2. OwnTasks'
    BY <1>4, <2>1 DEF TypeInv, TasksTyped, OwnTasks, Onward, GivesUp, serviceOnly, memoryVars, writeVars
  <2>3. FuturesTrue'
    BY <1>4, <2>1 DEF TypeInv, TasksTyped, FuturesTrue, Onward, GivesUp, serviceOnly, memoryVars, writeVars
  <2>4. BoundedOver'
    BY <1>4, <2>1 DEF TypeInv, TasksTyped, BoundedOver, Onward, GivesUp, serviceOnly, memoryVars, writeVars
  <2>5. PilotsFit'
    BY <1>4, OneKind DEF TypeInv, TasksTyped, PilotsFit, CanStart, GivesUp, serviceOnly, memoryVars, writeVars
  <2> QED BY <2>1, <2>2, <2>3, <2>4, <2>5
<1>5. ASSUME NEW t \in Tasks, PilotEnds(t), UNCHANGED stop
      PROVE  Onward /\ OwnTasks' /\ FuturesTrue' /\ BoundedOver' /\ PilotsFit'
  <2>1. Onward
    BY <1>5 DEF TypeInv, TasksTyped, OwnTasks, Onward, Over, CanStart, PilotEnds, serviceOnly, memoryVars,
        writeVars
  <2>2. OwnTasks'
    BY <1>5, <2>1 DEF TypeInv, TasksTyped, OwnTasks, Onward, PilotEnds, serviceOnly, memoryVars, writeVars
  <2>3. FuturesTrue'
    BY <1>5, <2>1 DEF TypeInv, TasksTyped, FuturesTrue, Onward, PilotEnds, serviceOnly, memoryVars, writeVars
  <2>4. BoundedOver'
    BY <1>5, <2>1 DEF TypeInv, TasksTyped, BoundedOver, Onward, PilotEnds, serviceOnly, memoryVars, writeVars
  <2>5. PilotsFit'
    BY <1>5, OneKind DEF TypeInv, TasksTyped, PilotsFit, CanStart, PilotEnds, serviceOnly, memoryVars, writeVars
  <2> QED BY <2>1, <2>2, <2>3, <2>4, <2>5
<1>6. ASSUME NEW t \in Tasks, NoIdBound(t) PROVE Onward /\ OwnTasks' /\ FuturesTrue' /\ BoundedOver' /\ PilotsFit'
  <2>1. Onward
    BY <1>6 DEF TypeInv, TasksTyped, OwnTasks, Onward, Over, CanStart, NoIdBound, memoryVars, writeVars
  <2>2. OwnTasks'
    BY <1>6, <2>1 DEF TypeInv, TasksTyped, OwnTasks, Onward, NoIdBound, memoryVars, writeVars
  <2>3. FuturesTrue'
    BY <1>6, <2>1 DEF TypeInv, TasksTyped, FuturesTrue, Onward, NoIdBound, memoryVars, writeVars
  <2>4. BoundedOver'
    <3>1. ~CanStart(t) /\ service[t] # "unsent"
      BY <1>6 DEF NoIdBound, NoIdIsOver, Tasks
    <3> QED BY <1>6, <2>1, <3>1 DEF TypeInv, TasksTyped, BoundedOver, Onward, Over, CanStart, NoIdBound
  <2>5. PilotsFit'
    BY <1>6, OneKind DEF TypeInv, TasksTyped, PilotsFit, CanStart, NoIdBound, memoryVars, writeVars
  <2> QED BY <2>1, <2>2, <2>3, <2>4, <2>5
<1>7. ASSUME NEW p \in Procs, NEW t \in Tasks, SendCheck(p, t), UNCHANGED stop
      PROVE  Onward /\ OwnTasks' /\ FuturesTrue' /\ BoundedOver' /\ PilotsFit'
  <2>1. Onward
    BY <1>7 DEF TypeInv, TasksTyped, OwnTasks, Onward, Over, CanStart, SendCheck, Sends, writeStep, memoryVars,
        writeVars
  <2>2. OwnTasks'
    BY <1>7, <2>1 DEF TypeInv, TasksTyped, OwnTasks, Onward, SendCheck, Sends, writeStep, memoryVars, writeVars
  <2>3. FuturesTrue'
    BY <1>7, <2>1 DEF TypeInv, TasksTyped, FuturesTrue, Onward, SendCheck, Sends, writeStep, memoryVars,
        writeVars
  <2>4. BoundedOver'
    BY <1>7, <2>1 DEF TypeInv, TasksTyped, BoundedOver, Onward, SendCheck, Sends, writeStep, memoryVars,
        writeVars
  <2>5. PilotsFit'
    BY <1>7, OneKind DEF TypeInv, TasksTyped, PilotsFit, CanStart, SendCheck, Sends, writeStep, memoryVars,
        writeVars
  <2> QED BY <2>1, <2>2, <2>3, <2>4, <2>5
<1>8. ASSUME NEW p \in Procs, NEW t \in Tasks, SendCommand(p, t), UNCHANGED stop
      PROVE  Onward /\ OwnTasks' /\ FuturesTrue' /\ BoundedOver' /\ PilotsFit'
  <2>1. Onward
    BY <1>8 DEF TypeInv, TasksTyped, OwnTasks, Onward, Over, CanStart, SendCommand, Sends, writeStep,
        memoryVars,
        writeVars
  <2>2. OwnTasks'
    BY <1>8, <2>1 DEF TypeInv, TasksTyped, OwnTasks, Onward, SendCommand, Sends, writeStep, memoryVars,
        writeVars
  <2>3. FuturesTrue'
    BY <1>8, <2>1 DEF TypeInv, TasksTyped, FuturesTrue, Onward, SendCommand, Sends, writeStep, memoryVars,
        writeVars
  <2>4. BoundedOver'
    BY <1>8, <2>1 DEF TypeInv, TasksTyped, BoundedOver, Onward, SendCommand, Sends, writeStep, memoryVars,
        writeVars
  <2>5. PilotsFit'
    BY <1>8, OneKind DEF TypeInv, TasksTyped, PilotsFit, CanStart, SendCommand, Sends, writeStep, memoryVars,
        writeVars
  <2> QED BY <2>1, <2>2, <2>3, <2>4, <2>5
<1>9. ASSUME NEW p \in Procs, NEW t \in Tasks, IdSeen(p, t), UNCHANGED stop
      PROVE  Onward /\ OwnTasks' /\ FuturesTrue' /\ BoundedOver' /\ PilotsFit'
  <2>1. Onward
    BY <1>9 DEF TypeInv, TasksTyped, OwnTasks, Onward, Over, CanStart, IdSeen, memoryVars, writeVars
  <2>2. OwnTasks'
    BY <1>9, <2>1 DEF TypeInv, TasksTyped, OwnTasks, Onward, IdSeen, memoryVars, writeVars
  <2>3. FuturesTrue'
    BY <1>9, <2>1 DEF TypeInv, TasksTyped, FuturesTrue, Onward, IdSeen, memoryVars, writeVars
  <2>4. BoundedOver'
    BY <1>9, <2>1 DEF TypeInv, TasksTyped, BoundedOver, Onward, IdSeen, memoryVars, writeVars
  <2>5. PilotsFit'
    BY <1>9, OneKind DEF TypeInv, TasksTyped, PilotsFit, CanStart, IdSeen, memoryVars, writeVars
  <2> QED BY <2>1, <2>2, <2>3, <2>4, <2>5
<1>10. ASSUME NEW p \in Procs, NEW t \in Tasks, Refused(p, t), UNCHANGED stop
      PROVE  Onward /\ OwnTasks' /\ FuturesTrue' /\ BoundedOver' /\ PilotsFit'
  <2>1. Onward
    BY <1>10 DEF TypeInv, TasksTyped, OwnTasks, Onward, Over, CanStart, Refused, futureStep, writeStep,
        memoryVars,
        writeVars
  <2>2. OwnTasks'
    BY <1>10, <2>1 DEF TypeInv, TasksTyped, OwnTasks, Onward, Refused, futureStep, writeStep, memoryVars,
        writeVars
  <2>3. FuturesTrue'
    BY <1>10, <2>1 DEF TypeInv, TasksTyped, FuturesTrue, Onward, Refused, futureStep, writeStep, memoryVars,
        writeVars
  <2>4. BoundedOver'
    BY <1>10, <2>1 DEF TypeInv, TasksTyped, BoundedOver, Onward, Refused, futureStep, writeStep, memoryVars,
        writeVars
  <2>5. PilotsFit'
    BY <1>10, OneKind DEF TypeInv, TasksTyped, PilotsFit, CanStart, Refused, futureStep, writeStep, memoryVars,
        writeVars
  <2> QED BY <2>1, <2>2, <2>3, <2>4, <2>5
<1>11. ASSUME NEW p \in Procs, NEW t \in Tasks, Unclear(p, t), UNCHANGED stop
      PROVE  Onward /\ OwnTasks' /\ FuturesTrue' /\ BoundedOver' /\ PilotsFit'
  <2>1. Onward
    BY <1>11 DEF TypeInv, TasksTyped, OwnTasks, Onward, Over, CanStart, Unclear, futureStep, writeStep,
        memoryVars,
        writeVars
  <2>2. OwnTasks'
    BY <1>11, <2>1 DEF TypeInv, TasksTyped, OwnTasks, Onward, Unclear, futureStep, writeStep, memoryVars,
        writeVars
  <2>3. FuturesTrue'
    BY <1>11, <2>1 DEF TypeInv, TasksTyped, FuturesTrue, Onward, Unclear, futureStep, writeStep, memoryVars,
        writeVars
  <2>4. BoundedOver'
    BY <1>11, <2>1 DEF TypeInv, TasksTyped, BoundedOver, Onward, Unclear, futureStep, writeStep, memoryVars,
        writeVars
  <2>5. PilotsFit'
    BY <1>11, OneKind DEF TypeInv, TasksTyped, PilotsFit, CanStart, Unclear, futureStep, writeStep, memoryVars,
        writeVars
  <2> QED BY <2>1, <2>2, <2>3, <2>4, <2>5
<1>12. ASSUME NEW p \in Procs, NEW t \in Tasks, Breaks(p, t), UNCHANGED stop
      PROVE  Onward /\ OwnTasks' /\ FuturesTrue' /\ BoundedOver' /\ PilotsFit'
  <2>1. Onward
    BY <1>12 DEF TypeInv, TasksTyped, OwnTasks, Onward, Over, CanStart, Breaks, futureStep, writeStep,
        memoryVars,
        writeVars
  <2>2. OwnTasks'
    BY <1>12, <2>1 DEF TypeInv, TasksTyped, OwnTasks, Onward, Breaks, futureStep, writeStep, memoryVars,
        writeVars
  <2>3. FuturesTrue'
    BY <1>12, <2>1 DEF TypeInv, TasksTyped, FuturesTrue, Onward, Breaks, futureStep, writeStep, memoryVars,
        writeVars
  <2>4. BoundedOver'
    BY <1>12, <2>1 DEF TypeInv, TasksTyped, BoundedOver, Onward, Breaks, futureStep, writeStep, memoryVars,
        writeVars
  <2>5. PilotsFit'
    BY <1>12, OneKind DEF TypeInv, TasksTyped, PilotsFit, CanStart, Breaks, futureStep, writeStep, memoryVars,
        writeVars
  <2> QED BY <2>1, <2>2, <2>3, <2>4, <2>5
<1>13. ASSUME NEW p \in Procs, NEW t \in Tasks, ResultArrives(p, t)
      PROVE  Onward /\ OwnTasks' /\ FuturesTrue' /\ BoundedOver' /\ PilotsFit'
  <2>1. Onward
    BY <1>13 DEF TypeInv, TasksTyped, OwnTasks, Onward, Over, CanStart, ResultArrives, Delivered, futureStep,
        writeStep, memoryVars, writeVars
  <2>2. OwnTasks'
    BY <1>13, <2>1 DEF TypeInv, TasksTyped, OwnTasks, Onward, ResultArrives, Delivered, futureStep, writeStep,
        memoryVars, writeVars
  <2>3. FuturesTrue'
    BY <1>13, <2>1 DEF TypeInv, TasksTyped, FuturesTrue, Onward, ResultArrives, Delivered, futureStep,
        writeStep,
        memoryVars, writeVars
  <2>4. BoundedOver'
    BY <1>13, <2>1 DEF TypeInv, TasksTyped, BoundedOver, Onward, ResultArrives, Delivered, futureStep,
        writeStep,
        memoryVars, writeVars
  <2>5. PilotsFit'
    BY <1>13, OneKind DEF TypeInv, TasksTyped, PilotsFit, CanStart, ResultArrives, Delivered, futureStep,
        writeStep, memoryVars, writeVars
  <2> QED BY <2>1, <2>2, <2>3, <2>4, <2>5
<1>14. ASSUME NEW p \in Procs, WatchIds(p), UNCHANGED stop
      PROVE  Onward /\ OwnTasks' /\ FuturesTrue' /\ BoundedOver' /\ PilotsFit'
  <2>1. Onward
    BY <1>14 DEF TypeInv, TasksTyped, OwnTasks, Onward, Over, CanStart, WatchIds, taskVars, writeStep,
        memoryVars,
        writeVars
  <2>2. OwnTasks'
    BY <1>14, <2>1 DEF TypeInv, TasksTyped, OwnTasks, Onward, WatchIds, taskVars, writeStep, memoryVars,
        writeVars
  <2>3. FuturesTrue'
    BY <1>14, <2>1 DEF TypeInv, TasksTyped, FuturesTrue, Onward, WatchIds, taskVars, writeStep, memoryVars,
        writeVars
  <2>4. BoundedOver'
    BY <1>14, <2>1 DEF TypeInv, TasksTyped, BoundedOver, Onward, WatchIds, taskVars, writeStep, memoryVars,
        writeVars
  <2>5. PilotsFit'
    BY <1>14, OneKind DEF TypeInv, TasksTyped, PilotsFit, CanStart, WatchIds, taskVars, writeStep, memoryVars,
        writeVars
  <2> QED BY <2>1, <2>2, <2>3, <2>4, <2>5
<1>15. ASSUME NEW p \in Procs, WriteLands(p), UNCHANGED stop
      PROVE  Onward /\ OwnTasks' /\ FuturesTrue' /\ BoundedOver' /\ PilotsFit'
  <2>1. Onward
    BY <1>15 DEF TypeInv, TasksTyped, OwnTasks, Onward, Over, CanStart, WriteLands, taskVars, memoryVars,
        writeVars
  <2>2. OwnTasks'
    BY <1>15, <2>1 DEF TypeInv, TasksTyped, OwnTasks, Onward, WriteLands, taskVars, memoryVars, writeVars
  <2>3. FuturesTrue'
    BY <1>15, <2>1 DEF TypeInv, TasksTyped, FuturesTrue, Onward, WriteLands, taskVars, memoryVars, writeVars
  <2>4. BoundedOver'
    BY <1>15, <2>1 DEF TypeInv, TasksTyped, BoundedOver, Onward, WriteLands, taskVars, memoryVars, writeVars
  <2>5. PilotsFit'
    BY <1>15, OneKind DEF TypeInv, TasksTyped, PilotsFit, CanStart, WriteLands, taskVars, memoryVars, writeVars
  <2> QED BY <2>1, <2>2, <2>3, <2>4, <2>5
<1>16. ASSUME NEW p \in Procs, WriteFails(p), UNCHANGED stop
      PROVE  Onward /\ OwnTasks' /\ FuturesTrue' /\ BoundedOver' /\ PilotsFit'
  <2>1. Onward
    BY <1>16 DEF TypeInv, TasksTyped, OwnTasks, Onward, Over, CanStart, WriteFails, taskVars, memoryVars,
        writeVars
  <2>2. OwnTasks'
    BY <1>16, <2>1 DEF TypeInv, TasksTyped, OwnTasks, Onward, WriteFails, taskVars, memoryVars, writeVars
  <2>3. FuturesTrue'
    BY <1>16, <2>1 DEF TypeInv, TasksTyped, FuturesTrue, Onward, WriteFails, taskVars, memoryVars, writeVars
  <2>4. BoundedOver'
    BY <1>16, <2>1 DEF TypeInv, TasksTyped, BoundedOver, Onward, WriteFails, taskVars, memoryVars, writeVars
  <2>5. PilotsFit'
    BY <1>16, OneKind DEF TypeInv, TasksTyped, PilotsFit, CanStart, WriteFails, taskVars, memoryVars, writeVars
  <2> QED BY <2>1, <2>2, <2>3, <2>4, <2>5
<1>17. ASSUME NEW p \in Procs, NEW job \in retries[p], RetryFires(p, job), UNCHANGED stop
      PROVE  Onward /\ OwnTasks' /\ FuturesTrue' /\ BoundedOver' /\ PilotsFit'
  <2>1. Onward
    BY <1>17 DEF TypeInv, TasksTyped, OwnTasks, Onward, Over, CanStart, RetryFires, taskVars, memoryVars,
        writeVars
  <2>2. OwnTasks'
    BY <1>17, <2>1 DEF TypeInv, TasksTyped, OwnTasks, Onward, RetryFires, taskVars, memoryVars, writeVars
  <2>3. FuturesTrue'
    BY <1>17, <2>1 DEF TypeInv, TasksTyped, FuturesTrue, Onward, RetryFires, taskVars, memoryVars, writeVars
  <2>4. BoundedOver'
    BY <1>17, <2>1 DEF TypeInv, TasksTyped, BoundedOver, Onward, RetryFires, taskVars, memoryVars, writeVars
  <2>5. PilotsFit'
    BY <1>17, OneKind DEF TypeInv, TasksTyped, PilotsFit, CanStart, RetryFires, taskVars, memoryVars, writeVars
  <2> QED BY <2>1, <2>2, <2>3, <2>4, <2>5
<1>18. ASSUME NEW p \in Procs, Rebinds(p) PROVE Onward /\ OwnTasks' /\ FuturesTrue' /\ BoundedOver' /\ PilotsFit'
  <2>1. Onward
    BY <1>18 DEF TypeInv, TasksTyped, OwnTasks, Onward, Over, CanStart, Rebinds, Rebind, writeStep, memoryVars,
        writeVars
  <2>2. OwnTasks'
    BY <1>18, <2>1 DEF TypeInv, TasksTyped, OwnTasks, Onward, Rebinds, Rebind, writeStep, memoryVars, writeVars
  <2>3. FuturesTrue'
    BY <1>18, <2>1 DEF TypeInv, TasksTyped, FuturesTrue, Onward, Rebinds, Rebind, writeStep, memoryVars,
        writeVars
  <2>4. BoundedOver'
    BY <1>18, <2>1 DEF TypeInv, TasksTyped, BoundedOver, Onward, Rebinds, Rebind, writeStep, memoryVars,
        writeVars
  <2>5. PilotsFit'
    BY <1>18, OneKind DEF TypeInv, TasksTyped, PilotsFit, CanStart, Rebinds, Rebind, writeStep, memoryVars,
        writeVars
  <2> QED BY <2>1, <2>2, <2>3, <2>4, <2>5
<1>19. ASSUME NEW p \in Procs, Dies(p) PROVE Onward /\ OwnTasks' /\ FuturesTrue' /\ BoundedOver' /\ PilotsFit'
  <2>1. Onward
    BY <1>19 DEF TypeInv, TasksTyped, OwnTasks, Onward, Over, CanStart, Dies, Crash, memoryVars, writeVars
  <2>2. OwnTasks'
    BY <1>19, <2>1 DEF TypeInv, TasksTyped, OwnTasks, Onward, Dies, Crash, memoryVars, writeVars
  <2>3. FuturesTrue'
    BY <1>19, <2>1 DEF TypeInv, TasksTyped, FuturesTrue, Onward, Dies, Crash, memoryVars, writeVars
  <2>4. BoundedOver'
    BY <1>19, <2>1 DEF TypeInv, TasksTyped, BoundedOver, Onward, Dies, Crash, memoryVars, writeVars
  <2>5. PilotsFit'
    BY <1>19, OneKind DEF TypeInv, TasksTyped, PilotsFit, CanStart, Dies, Crash, memoryVars, writeVars
  <2> QED BY <2>1, <2>2, <2>3, <2>4, <2>5
<1>20. ASSUME NEW p \in Procs, StopReads(p) PROVE Onward /\ OwnTasks' /\ FuturesTrue' /\ BoundedOver' /\ PilotsFit'
  <2>1. Onward
    BY <1>20 DEF TypeInv, TasksTyped, OwnTasks, Onward, Over, CanStart, StopReads, taskVars, memoryVars,
        writeVars
  <2>2. OwnTasks'
    BY <1>20, <2>1 DEF TypeInv, TasksTyped, OwnTasks, Onward, StopReads, taskVars, memoryVars, writeVars
  <2>3. FuturesTrue'
    BY <1>20, <2>1 DEF TypeInv, TasksTyped, FuturesTrue, Onward, StopReads, taskVars, memoryVars, writeVars
  <2>4. BoundedOver'
    BY <1>20, <2>1 DEF TypeInv, TasksTyped, BoundedOver, Onward, StopReads, taskVars, memoryVars, writeVars
  <2>5. PilotsFit'
    BY <1>20, OneKind DEF TypeInv, TasksTyped, PilotsFit, CanStart, StopReads, taskVars, memoryVars, writeVars
  <2> QED BY <2>1, <2>2, <2>3, <2>4, <2>5
<1>21. ASSUME NEW p \in Procs, StopLooks(p) PROVE Onward /\ OwnTasks' /\ FuturesTrue' /\ BoundedOver' /\ PilotsFit'
  <2>1. Onward
    BY <1>21 DEF TypeInv, TasksTyped, OwnTasks, Onward, Over, CanStart, StopLooks, taskVars, memoryVars,
        writeVars
  <2>2. OwnTasks'
    BY <1>21, <2>1 DEF TypeInv, TasksTyped, OwnTasks, Onward, StopLooks, taskVars, memoryVars, writeVars
  <2>3. FuturesTrue'
    BY <1>21, <2>1 DEF TypeInv, TasksTyped, FuturesTrue, Onward, StopLooks, taskVars, memoryVars, writeVars
  <2>4. BoundedOver'
    BY <1>21, <2>1 DEF TypeInv, TasksTyped, BoundedOver, Onward, StopLooks, taskVars, memoryVars, writeVars
  <2>5. PilotsFit'
    BY <1>21, OneKind DEF TypeInv, TasksTyped, PilotsFit, CanStart, StopLooks, taskVars, memoryVars, writeVars
  <2> QED BY <2>1, <2>2, <2>3, <2>4, <2>5
<1>22. ASSUME NEW p \in Procs, NEW unread \in SUBSET DOMAIN stop[p].states, StopAsks(p, unread)
      PROVE  Onward /\ OwnTasks' /\ FuturesTrue' /\ BoundedOver' /\ PilotsFit'
  <2>1. Onward
    BY <1>22 DEF TypeInv, TasksTyped, OwnTasks, Onward, Over, CanStart, StopAsks, taskVars, memoryVars,
        writeVars
  <2>2. OwnTasks'
    BY <1>22, <2>1 DEF TypeInv, TasksTyped, OwnTasks, Onward, StopAsks, taskVars, memoryVars, writeVars
  <2>3. FuturesTrue'
    BY <1>22, <2>1 DEF TypeInv, TasksTyped, FuturesTrue, Onward, StopAsks, taskVars, memoryVars, writeVars
  <2>4. BoundedOver'
    BY <1>22, <2>1 DEF TypeInv, TasksTyped, BoundedOver, Onward, StopAsks, taskVars, memoryVars, writeVars
  <2>5. PilotsFit'
    BY <1>22, OneKind DEF TypeInv, TasksTyped, PilotsFit, CanStart, StopAsks, taskVars, memoryVars, writeVars
  <2> QED BY <2>1, <2>2, <2>3, <2>4, <2>5
<1>23. ASSUME NEW p \in Procs, ReleaseEnds(p)
      PROVE  Onward /\ OwnTasks' /\ FuturesTrue' /\ BoundedOver' /\ PilotsFit'
  <2>1. Onward
    BY <1>23 DEF TypeInv, TasksTyped, OwnTasks, Onward, Over, CanStart, ReleaseEnds, serviceOnly, memoryVars,
        writeVars, NoBlockUp
  <2>2. OwnTasks'
    BY <1>23, <2>1 DEF TypeInv, TasksTyped, OwnTasks, Onward, ReleaseEnds, serviceOnly, memoryVars, writeVars
  <2>3. FuturesTrue'
    BY <1>23, <2>1 DEF TypeInv, TasksTyped, FuturesTrue, Onward, ReleaseEnds, serviceOnly, memoryVars, writeVars
  <2>4. BoundedOver'
    BY <1>23, <2>1 DEF TypeInv, TasksTyped, BoundedOver, Onward, ReleaseEnds, serviceOnly, memoryVars, writeVars
  <2>5. PilotsFit'
    BY <1>23, OneKind DEF TypeInv, TasksTyped, PilotsFit, CanStart, ReleaseEnds, serviceOnly, memoryVars,
        writeVars, NoBlockUp
  <2> QED BY <2>1, <2>2, <2>3, <2>4, <2>5
<1>24. ASSUME NEW p \in Procs, ReleaseFails(p)
      PROVE  Onward /\ OwnTasks' /\ FuturesTrue' /\ BoundedOver' /\ PilotsFit'
  <2>1. Onward
    BY <1>24 DEF TypeInv, TasksTyped, OwnTasks, Onward, Over, CanStart, ReleaseFails, memoryVars, writeVars,
        NoBlockUp
  <2>2. OwnTasks'
    BY <1>24, <2>1 DEF TypeInv, TasksTyped, OwnTasks, Onward, ReleaseFails, memoryVars, writeVars
  <2>3. FuturesTrue'
    BY <1>24, <2>1 DEF TypeInv, TasksTyped, FuturesTrue, Onward, ReleaseFails, memoryVars, writeVars
  <2>4. BoundedOver'
    BY <1>24, <2>1 DEF TypeInv, TasksTyped, BoundedOver, Onward, ReleaseFails, memoryVars, writeVars
  <2>5. PilotsFit'
    BY <1>24, OneKind DEF TypeInv, TasksTyped, PilotsFit, CanStart, ReleaseFails, memoryVars, writeVars,
        NoBlockUp
  <2> QED BY <2>1, <2>2, <2>3, <2>4, <2>5
<1>25. ASSUME NEW p \in Procs, NEW unread \in SUBSET DOMAIN stop[p].states, Looks(p, unread)
      PROVE  Onward /\ OwnTasks' /\ FuturesTrue' /\ BoundedOver' /\ PilotsFit'
  <2>1. Onward
    BY <1>25 DEF TypeInv, TasksTyped, OwnTasks, Onward, Over, CanStart, Looks, taskVars, memoryVars, writeVars
  <2>2. OwnTasks'
    BY <1>25, <2>1 DEF TypeInv, TasksTyped, OwnTasks, Onward, Looks, taskVars, memoryVars, writeVars
  <2>3. FuturesTrue'
    BY <1>25, <2>1 DEF TypeInv, TasksTyped, FuturesTrue, Onward, Looks, taskVars, memoryVars, writeVars
  <2>4. BoundedOver'
    BY <1>25, <2>1 DEF TypeInv, TasksTyped, BoundedOver, Onward, Looks, taskVars, memoryVars, writeVars
  <2>5. PilotsFit'
    BY <1>25, OneKind DEF TypeInv, TasksTyped, PilotsFit, CanStart, Looks, taskVars, memoryVars, writeVars
  <2> QED BY <2>1, <2>2, <2>3, <2>4, <2>5
<1>26. ASSUME NEW p \in Procs, StopAnswers(p)
      PROVE  Onward /\ OwnTasks' /\ FuturesTrue' /\ BoundedOver' /\ PilotsFit'
  <2>1. Onward
    BY <1>26 DEF TypeInv, TasksTyped, OwnTasks, Onward, Over, CanStart, StopAnswers, memoryVars, writeVars
  <2>2. OwnTasks'
    BY <1>26, <2>1 DEF TypeInv, TasksTyped, OwnTasks, Onward, StopAnswers, memoryVars, writeVars
  <2>3. FuturesTrue'
    BY <1>26, <2>1 DEF TypeInv, TasksTyped, FuturesTrue, Onward, StopAnswers, memoryVars, writeVars
  <2>4. BoundedOver'
    BY <1>26, <2>1 DEF TypeInv, TasksTyped, BoundedOver, Onward, StopAnswers, memoryVars, writeVars
  <2>5. PilotsFit'
    BY <1>26, OneKind DEF TypeInv, TasksTyped, PilotsFit, CanStart, StopAnswers, memoryVars, writeVars
  <2> QED BY <2>1, <2>2, <2>3, <2>4, <2>5
<1>27. ASSUME NEW p \in Procs, StopGivesUp(p)
      PROVE  Onward /\ OwnTasks' /\ FuturesTrue' /\ BoundedOver' /\ PilotsFit'
  <2>1. Onward
    BY <1>27 DEF TypeInv, TasksTyped, OwnTasks, Onward, Over, CanStart, StopGivesUp, taskVars, memoryVars,
        writeVars
  <2>2. OwnTasks'
    BY <1>27, <2>1 DEF TypeInv, TasksTyped, OwnTasks, Onward, StopGivesUp, taskVars, memoryVars, writeVars
  <2>3. FuturesTrue'
    BY <1>27, <2>1 DEF TypeInv, TasksTyped, FuturesTrue, Onward, StopGivesUp, taskVars, memoryVars, writeVars
  <2>4. BoundedOver'
    BY <1>27, <2>1 DEF TypeInv, TasksTyped, BoundedOver, Onward, StopGivesUp, taskVars, memoryVars, writeVars
  <2>5. PilotsFit'
    BY <1>27, OneKind DEF TypeInv, TasksTyped, PilotsFit, CanStart, StopGivesUp, taskVars, memoryVars, writeVars
  <2> QED BY <2>1, <2>2, <2>3, <2>4, <2>5
<1>28. ASSUME UNCHANGED vars PROVE Onward /\ OwnTasks' /\ FuturesTrue' /\ BoundedOver' /\ PilotsFit'
  <2>1. Onward
    BY <1>28 DEF TypeInv, TasksTyped, OwnTasks, Onward, Over, CanStart, vars, checkVars, taskVars, memoryVars,
        writeVars
  <2>2. OwnTasks'
    BY <1>28, <2>1 DEF TypeInv, TasksTyped, OwnTasks, Onward, vars, checkVars, taskVars, memoryVars, writeVars
  <2>3. FuturesTrue'
    BY <1>28, <2>1 DEF TypeInv, TasksTyped, FuturesTrue, Onward, vars, checkVars, taskVars, memoryVars,
        writeVars
  <2>4. BoundedOver'
    BY <1>28, <2>1 DEF TypeInv, TasksTyped, BoundedOver, Onward, vars, checkVars, taskVars, memoryVars,
        writeVars
  <2>5. PilotsFit'
    BY <1>28, OneKind DEF TypeInv, TasksTyped, PilotsFit, CanStart, vars, checkVars, taskVars, memoryVars,
        writeVars
  <2> QED BY <2>1, <2>2, <2>3, <2>4, <2>5
<1> QED BY <1>1, <1>2, <1>3, <1>4, <1>5, <1>6, <1>7, <1>8, <1>9, <1>10, <1>11, <1>12, <1>13, <1>14, <1>15,
            <1>16, <1>17, <1>18, <1>19, <1>20, <1>21, <1>22, <1>23, <1>24, <1>25, <1>26, <1>27, <1>28 DEF Next,
            ServiceSteps, FutureSteps, Writes, StopSteps

-----------------------------------------------------------------------------
(* What a stop learns of a task is true of it.                             *)
StateTrue(t, s) ==
  /\ s = "ok" => service[t] = "ran"
  /\ s = "failed" => service[t] = "failed"
  /\ s = "unsent" => service[t] = "never" \/ t \in bounded
  /\ s = "lost" => service[t] = "dead"

(* What every stop has learned, and what every server saw resolve.         *)
StatesTrue == \A p \in Procs : \A i \in DOMAIN stop[p].states : StateTrue(i[1], stop[p].states[i])
ResolvedOver == \A p \in Procs : \A row \in resolved[p] : Over(row[1])
SeenInv == StatesTrue /\ ResolvedOver

(* An item is a task, known in one of three ways.                          *)
LEMMA ItemTask == ASSUME NEW i \in Items PROVE i[1] \in Tasks /\ i[2] \in {"own", "id", "no_id"}
BY DEF Items

(* One lookup.                                                             *)
LEMMA LookupTrue ==
  ASSUME TypeInv, FactsInv, NEW p, NEW i \in Items, NEW unread
  PROVE  StateTrue(i[1], StateOf(p, i, unread))
<1> DEFINE t == i[1]
<1>1. t \in Tasks
  BY ItemTask
<1>2. /\ (ServiceState(t) \in {"ok", "failed", "pending"} /\ StateTrue(t, ServiceState(t)))
      /\ StateTrue(t, Resolution(t))
  BY <1>1 DEF ServiceState, Resolution, StateTrue
<1>3. LocalState(i) # "ask" => StateTrue(t, LocalState(i))
  BY <1>1 DEF LocalState, NoIdState, StateTrue, FactsInv, FuturesTrue
<1>4. StateTrue(t, "unknown")
  BY DEF StateTrue
<1> HIDE DEF t
<1>5. \/ LocalState(i) # "ask" /\ StateOf(p, i, unread) = LocalState(i)
      \/ StateOf(p, i, unread) \in {Resolution(t), "unknown", ServiceState(t)}
  BY DEF StateOf, t
<1> QED BY <1>2, <1>3, <1>4, <1>5 DEF t

(* A round of lookups.                                                     *)
LEMMA LookTrue ==
  ASSUME TypeInv, FactsInv, NEW p \in Procs, NEW items \in SUBSET DOMAIN stop[p].states, NEW unread
  PROVE  \A i \in items : StateTrue(i[1], States(p, items, unread)[i])
<1>1. items \in SUBSET Items
  BY ShapeOf DEF TypeInv, StopTyped, Stops
<1> QED BY <1>1, StatesTyped, LookupTrue

(* A task whose state is final can start no block any more.                *)
LEMMA DoneIsOver ==
  ASSUME FactsInv, NEW t \in Tasks, NEW s \in Done, StateTrue(t, s)
  PROVE  Over(t)
BY OneKind DEF FactsInv, BoundedOver, PilotsFit, StateTrue, Done, Over, CanStart

(* What a round of lookups shows resolved is over.                         *)
LEMMA SeenIsOver ==
  ASSUME TypeInv, FactsInv, NEW p \in Procs, NEW items \in SUBSET DOMAIN stop[p].states, NEW unread
  PROVE  \A row \in SeenResolved(States(p, items, unread)) : Over(row[1])
<1> DEFINE states == States(p, items, unread)
<1>1. items \in SUBSET Items
  BY ShapeOf DEF TypeInv, StopTyped, Stops
<1>2. DOMAIN states = items /\ \A i \in items : StateTrue(i[1], states[i])
  BY <1>1, StatesTyped, LookTrue
<1> HIDE DEF states
<1>3. ASSUME NEW i \in items, states[i] \in {"ok", "failed"} PROVE Over(i[1])
  BY <1>1, <1>2, <1>3, ItemTask, DoneIsOver DEF Done
<1>4. \A row \in SeenResolved(states) : \E i \in items : states[i] \in {"ok", "failed"} /\ row = RowFor(i)
  BY <1>2 DEF SeenResolved
<1> QED BY <1>1, <1>3, <1>4, RowForTyped DEF states

(* With what the login node's logs show lost.                              *)
LEMMA LostTrue ==
  ASSUME TypeInv, StatesTrue, NEW p \in Procs, NEW gone \in {{}, Evidence(p)}
  PROVE  LET states == WithLost(stop[p].states, gone) IN
         /\ DOMAIN states = DOMAIN stop[p].states
         /\ \A i \in DOMAIN states : StateTrue(i[1], states[i]) /\ states[i] \in LookStates
<1>1. \A i \in gone : service[i[1]] = "dead"
  BY DEF Evidence
<1>2. \A i \in DOMAIN stop[p].states : StateTrue(i[1], stop[p].states[i]) /\ stop[p].states[i] \in LookStates
  BY ShapeOf DEF StatesTrue, TypeInv, StopTyped, Stops
<1> QED BY <1>1, <1>2 DEF WithLost, StateTrue, LookStates, Done

(* What a step may do to the stops' states and to the rows seen resolved.  *)
SeenStep ==
  /\ \A p \in Procs : \/ stop'[p].states = stop[p].states
                      \/ \A i \in DOMAIN stop'[p].states : StateTrue(i[1], stop'[p].states[i]) /\ i \in Items
  /\ \A p \in Procs : \A row \in resolved'[p] : row \in resolved[p] \/ (Over(row[1]) /\ row[1] \in Tasks)

(* Both stay true: a task's final state is final.                          *)
LEMMA SeenGoes ==
  ASSUME TypeInv, SeenInv, Onward, SeenStep
  PROVE  SeenInv'
<1>1. ASSUME NEW p \in Procs, NEW i \in DOMAIN stop'[p].states PROVE StateTrue(i[1], stop[p].states[i])'
  <2>1. StateTrue(i[1], stop'[p].states[i]) /\ i[1] \in Tasks
    BY ItemTask, ShapeOf DEF SeenStep, SeenInv, StatesTrue, TypeInv, StopTyped, Stops
  <2>2. PICK t \in Tasks : t = i[1]
    BY <2>1
  <2>5. PICK s : s = stop'[p].states[i]
    OBVIOUS
  <2>3. StateTrue(t, s)
    BY <2>1, <2>2, <2>5
  <2>4. StateTrue(t, s)'
    BY <2>3 DEF Onward, StateTrue
  <2> QED BY <2>2, <2>4, <2>5 DEF StateTrue
<1>2. ASSUME NEW p \in Procs, NEW row \in resolved'[p] PROVE Over(row[1])'
  <2>1. Over(row[1]) /\ row[1] \in Tasks
    BY DEF SeenStep, SeenInv, ResolvedOver, TypeInv, MemoryTyped, Rows
  <2>2. PICK t \in Tasks : t = row[1]
    BY <2>1
  <2>3. Over(t)'
    BY <2>1, <2>2 DEF Onward
  <2> QED BY <2>2, <2>3
<1> QED BY <1>1, <1>2 DEF SeenInv, StatesTrue, ResolvedOver

(* What an answer notes as resolved is over.                               *)
LEMMA AnswerResolves ==
  ASSUME TypeInv, FactsInv, SeenInv, NEW p \in Procs, StopAnswers(p)
  PROVE  \A q \in Procs : \A row \in resolved'[q] : row \in resolved[q] \/ (Over(row[1]) /\ row[1] \in Tasks)
<1>1. CASE BlockWork(p)
  BY <1>1 DEF StopAnswers, memoryVars
<1>2. CASE ~BlockWork(p)
  <2>1. PICK gone \in {{}, Evidence(p)} :
          LET states == WithLost(stop[p].states, gone) IN
          LET over == {i \in DOMAIN states : states[i] \in Done} IN
          resolved' = [resolved EXCEPT ![p] = @ \cup
            {RowFor(i) : i \in {j \in over : j[2] # "own" \/ RowFor(j)[2] = "id"}}]
    BY <1>2 DEF StopAnswers
  <2> DEFINE states == WithLost(stop[p].states, gone)
             over == {i \in DOMAIN states : states[i] \in Done}
             rows == {RowFor(i) : i \in {j \in over : j[2] # "own" \/ RowFor(j)[2] = "id"}}
  <2>2. DOMAIN states \subseteq Items /\ \A i \in DOMAIN states : StateTrue(i[1], states[i])
    BY LostTrue, ShapeOf DEF SeenInv, TypeInv, StopTyped, Stops
  <2>3. resolved' = [resolved EXCEPT ![p] = @ \cup rows]
    BY <2>1
  <2> HIDE DEF states
  <2>4. \A i \in over : Over(i[1]) /\ i \in Items
    BY <2>2, ItemTask, DoneIsOver
  <2> HIDE DEF over
  <2>5. \A row \in rows : Over(row[1]) /\ row[1] \in Tasks
    BY <2>4, RowForTyped, ItemTask
  <2> HIDE DEF rows
  <2> QED BY <2>3, <2>5 DEF TypeInv, MemoryTyped
<1> QED BY <1>1, <1>2

(* At the start.                                                           *)
LEMMA SeenInit == Init => SeenInv
BY DEF Init, InitChecks, SeenInv, StatesTrue, ResolvedOver, Idle, NoItems

(* Every step does only that.                                              *)
LEMMA SeenSteps ==
  ASSUME TypeInv, FactsInv, SeenInv, [Next]_vars
  PROVE  SeenStep
<1>1. ASSUME NEW t \in Tasks, Taken(t), UNCHANGED stop PROVE SeenStep
  BY <1>1 DEF SeenStep, Taken, serviceOnly, memoryVars, writeVars
<1>2. ASSUME NEW t \in Tasks, StartBlock(t), UNCHANGED stop PROVE SeenStep
  BY <1>2 DEF SeenStep, StartBlock, serviceOnly, memoryVars, writeVars
<1>3. ASSUME NEW t \in Tasks, Runs(t), UNCHANGED stop PROVE SeenStep
  BY <1>3 DEF SeenStep, Runs, serviceOnly, memoryVars, writeVars
<1>4. ASSUME NEW t \in Tasks, GivesUp(t), UNCHANGED stop PROVE SeenStep
  BY <1>4 DEF SeenStep, GivesUp, serviceOnly, memoryVars, writeVars
<1>5. ASSUME NEW t \in Tasks, PilotEnds(t), UNCHANGED stop PROVE SeenStep
  BY <1>5 DEF SeenStep, PilotEnds, serviceOnly, memoryVars, writeVars
<1>6. ASSUME NEW t \in Tasks, NoIdBound(t) PROVE SeenStep
  BY <1>6 DEF SeenStep, NoIdBound, memoryVars, writeVars
<1>7. ASSUME NEW p \in Procs, NEW t \in Tasks, SendCheck(p, t), UNCHANGED stop PROVE SeenStep
  BY <1>7 DEF SeenStep, SendCheck, Sends, writeStep, memoryVars, writeVars
<1>8. ASSUME NEW p \in Procs, NEW t \in Tasks, SendCommand(p, t), UNCHANGED stop PROVE SeenStep
  BY <1>8 DEF SeenStep, SendCommand, Sends, writeStep, memoryVars, writeVars
<1>9. ASSUME NEW p \in Procs, NEW t \in Tasks, IdSeen(p, t), UNCHANGED stop PROVE SeenStep
  BY <1>9 DEF SeenStep, IdSeen, memoryVars, writeVars
<1>10. ASSUME NEW p \in Procs, NEW t \in Tasks, Refused(p, t), UNCHANGED stop PROVE SeenStep
  BY <1>10 DEF SeenStep, Refused, futureStep, writeStep, memoryVars, writeVars
<1>11. ASSUME NEW p \in Procs, NEW t \in Tasks, Unclear(p, t), UNCHANGED stop PROVE SeenStep
  BY <1>11 DEF SeenStep, Unclear, futureStep, writeStep, memoryVars, writeVars
<1>12. ASSUME NEW p \in Procs, NEW t \in Tasks, Breaks(p, t), UNCHANGED stop PROVE SeenStep
  BY <1>12 DEF SeenStep, Breaks, futureStep, writeStep, memoryVars, writeVars
<1>13. ASSUME NEW p \in Procs, NEW t \in Tasks, ResultArrives(p, t) PROVE SeenStep
  BY <1>13 DEF SeenStep, TypeInv, StopTyped, Stops, ResultArrives, Delivered, futureStep, writeStep, memoryVars,
      writeVars
<1>14. ASSUME NEW p \in Procs, WatchIds(p), UNCHANGED stop PROVE SeenStep
  BY <1>14 DEF SeenStep, WatchIds, taskVars, writeStep, memoryVars, writeVars
<1>15. ASSUME NEW p \in Procs, WriteLands(p), UNCHANGED stop PROVE SeenStep
  BY <1>15 DEF SeenStep, WriteLands, taskVars, memoryVars, writeVars
<1>16. ASSUME NEW p \in Procs, WriteFails(p), UNCHANGED stop PROVE SeenStep
  BY <1>16 DEF SeenStep, WriteFails, taskVars, memoryVars, writeVars
<1>17. ASSUME NEW p \in Procs, NEW job \in retries[p], RetryFires(p, job), UNCHANGED stop PROVE SeenStep
  BY <1>17 DEF SeenStep, RetryFires, taskVars, memoryVars, writeVars
<1>18. ASSUME NEW p \in Procs, Rebinds(p) PROVE SeenStep
  BY <1>18 DEF SeenStep, TypeInv, StopTyped, Stops, Rebinds, Rebind, writeStep, memoryVars, writeVars
<1>19. ASSUME NEW p \in Procs, Dies(p) PROVE SeenStep
  <2>1. stop'[p] = Idle /\ DOMAIN Idle.states = {} /\ \A q \in Procs : q # p => stop'[q] = stop[q]
    BY <1>19, IdleTyped, StopSet DEF TypeInv, Dies, Idle, NoItems
  <2>2. \A q \in Procs : resolved'[q] \subseteq resolved[q]
    BY <1>19 DEF Dies, Crash, TypeInv, MemoryTyped
  <2> QED BY <2>1, <2>2 DEF SeenStep
<1>20. ASSUME NEW p \in Procs, StopReads(p) PROVE SeenStep
  <2>1. PICK s \in Stops : stop' = [stop EXCEPT ![p] = s] /\ s.states = NoItems
    <3>1. /\ [Idle EXCEPT !.at = "looking", !.rows = record].states = NoItems
          /\ [Idle EXCEPT !.at = "looking", !.problem = TRUE].states = NoItems
      BY DEF Idle
    <3>2. record \in SUBSET Rows
      BY DEF TypeInv, WritesTyped
    <3>3. \/ stop' = [stop EXCEPT ![p] = [Idle EXCEPT !.at = "looking", !.rows = record]]
          \/ stop' = [stop EXCEPT ![p] = [Idle EXCEPT !.at = "looking", !.problem = TRUE]]
      BY <1>20 DEF StopReads
    <3> QED BY <3>1, <3>2, <3>3, StartTyped
  <2>2. DOMAIN stop'[p].states = {} /\ \A q \in Procs : q # p => stop'[q] = stop[q]
    BY <2>1, StopSet DEF TypeInv, NoItems
  <2> QED BY <1>20, <2>2 DEF SeenStep, StopReads, memoryVars
<1>21. ASSUME NEW p \in Procs, StopLooks(p) PROVE SeenStep
  <2> DEFINE items == Known(p) \cup Strangers(p, stop[p].rows)
  <2>3. items \subseteq Items
    BY ItemsTyped DEF TypeInv
  <2>4. Answer(p, FALSE) \/ stop'[p].states = [i \in items |-> "unknown"]
    BY <1>21, LooksStart
  <2> HIDE DEF items
  <2>1. \A i \in DOMAIN stop'[p].states : stop'[p].states[i] = "unknown" /\ i \in Items
    <3>1. CASE Answer(p, FALSE)
      BY <3>1, StopAnswered DEF TypeInv
    <3>2. CASE stop'[p].states = [i \in items |-> "unknown"]
      BY <2>3, <3>2
    <3> QED BY <2>4, <3>1, <3>2
  <2>2. \A q \in Procs : q # p => stop'[q] = stop[q]
    BY <1>21, LooksStart
  <2> QED BY <1>21, <2>1, <2>2 DEF SeenStep, StateTrue, StopLooks
<1>22. ASSUME NEW p \in Procs, NEW unread \in SUBSET DOMAIN stop[p].states, StopAsks(p, unread) PROVE SeenStep
  <2>1. PICK young \in SUBSET DOMAIN stop[p].states :
          resolved' = [resolved EXCEPT ![p] = @ \cup SeenResolved(States(p, young, unread))]
    BY <1>22 DEF StopAsks
  <2>2. SeenResolved(States(p, young, unread)) \subseteq Rows
    BY ShapeOf, SeenTyped DEF TypeInv, StopTyped, Stops
  <2>3. \A row \in SeenResolved(States(p, young, unread)) : Over(row[1]) /\ row[1] \in Tasks
    BY <2>2, SeenIsOver DEF Rows
  <2>4. \A q \in Procs : \A row \in resolved'[q] : row \in resolved[q] \/ (Over(row[1]) /\ row[1] \in Tasks)
    BY <2>1, <2>3 DEF TypeInv, MemoryTyped
  <2>5. Answer(p, FALSE) \/ stop' = [stop EXCEPT ![p] = Begun(stop[p])]
    BY <1>22 DEF StopAsks
  <2>6. stop[p] \in Stops
    BY DEF TypeInv, StopTyped
  <2>7. CASE Answer(p, FALSE)
    <3>1. DOMAIN stop'[p].states = {} /\ \A q \in Procs : q # p => stop'[q] = stop[q]
      BY <2>7, StopAnswered DEF TypeInv
    <3> QED BY <2>4, <3>1 DEF SeenStep
  <2>8. CASE stop' = [stop EXCEPT ![p] = Begun(stop[p])]
    <3>1. stop'[p] = Begun(stop[p]) /\ \A q \in Procs : q # p => stop'[q] = stop[q]
      BY <2>6, <2>8, BegunTyped, StopSet DEF TypeInv
    <3>2. stop'[p].states = stop[p].states
      BY <2>6, <3>1, BegunTyped
    <3> QED BY <2>4, <3>1, <3>2 DEF SeenStep
  <2> QED BY <2>5, <2>7, <2>8
<1>23. ASSUME NEW p \in Procs, ReleaseEnds(p) PROVE SeenStep
  <2>1. stop'[p].states = stop[p].states /\ \A q \in Procs : q # p => stop'[q] = stop[q]
    BY <1>23, ReleasedTyped DEF TypeInv, ReleaseEnds
  <2> QED BY <1>23, <2>1 DEF SeenStep, ReleaseEnds, serviceOnly, memoryVars, writeVars
<1>24. ASSUME NEW p \in Procs, ReleaseFails(p) PROVE SeenStep
  <2>1. stop'[p].states = stop[p].states /\ \A q \in Procs : q # p => stop'[q] = stop[q]
    BY <1>24, ReleasedTyped DEF TypeInv, ReleaseFails
  <2> QED BY <1>24, <2>1 DEF SeenStep, ReleaseFails, memoryVars, writeVars
<1>25. ASSUME NEW p \in Procs, NEW unread \in SUBSET DOMAIN stop[p].states, Looks(p, unread) PROVE SeenStep
  <2> DEFINE items == DOMAIN stop[p].states
             states == States(p, items, unread)
  <2>1. items \in SUBSET Items
    BY ShapeOf DEF TypeInv, StopTyped, Stops
  <2>2. DOMAIN states = items /\ (\A i \in items : StateTrue(i[1], states[i])) /\ SeenResolved(states) \subseteq Rows
    BY <2>1, StatesTyped, LookTrue, SeenTyped
  <2>3. \A row \in SeenResolved(states) : Over(row[1]) /\ row[1] \in Tasks
    BY <2>2, SeenIsOver DEF Rows
  <2>4. resolved' = [resolved EXCEPT ![p] = @ \cup SeenResolved(states)]
    BY <1>25 DEF Looks
  <2>5. (stop'[p].states = stop[p].states \/ stop'[p].states = states) /\ \A q \in Procs : q # p => stop'[q] = stop[q]
    BY <1>25, LooksGo
  <2> HIDE DEF states
  <2>6. \A q \in Procs : \A row \in resolved'[q] : row \in resolved[q] \/ (Over(row[1]) /\ row[1] \in Tasks)
    BY <2>3, <2>4 DEF TypeInv, MemoryTyped
  <2> QED BY <2>1, <2>2, <2>5, <2>6 DEF SeenStep
<1>26. ASSUME NEW p \in Procs, StopAnswers(p) PROVE SeenStep
  <2>1. PICK down \in BOOLEAN : Answer(p, down)
    BY <1>26 DEF StopAnswers
  <2>2. DOMAIN stop'[p].states = {} /\ \A q \in Procs : q # p => stop'[q] = stop[q]
    BY <2>1, StopAnswered DEF TypeInv
  <2>3. \A q \in Procs : \A row \in resolved'[q] : row \in resolved[q] \/ (Over(row[1]) /\ row[1] \in Tasks)
    BY <1>26, AnswerResolves
  <2> QED BY <2>2, <2>3 DEF SeenStep
<1>27. ASSUME NEW p \in Procs, StopGivesUp(p) PROVE SeenStep
  <2>1. DOMAIN stop'[p].states = {} /\ \A q \in Procs : q # p => stop'[q] = stop[q]
    BY <1>27, StopAnswered DEF TypeInv, StopGivesUp
  <2> QED BY <1>27, <2>1 DEF SeenStep, StopGivesUp, memoryVars
<1>28. ASSUME UNCHANGED vars PROVE SeenStep
  BY <1>28 DEF SeenStep, vars, checkVars, taskVars, memoryVars, writeVars
<1> QED BY <1>1, <1>2, <1>3, <1>4, <1>5, <1>6, <1>7, <1>8, <1>9, <1>10, <1>11, <1>12, <1>13, <1>14, <1>15,
            <1>16, <1>17, <1>18, <1>19, <1>20, <1>21, <1>22, <1>23, <1>24, <1>25, <1>26, <1>27, <1>28 DEF Next,
            ServiceSteps, FutureSteps, Writes, StopSteps

-----------------------------------------------------------------------------
(* The record and the writes of it.                                        *)

(* The rows of a server's own tasks; a row for a task, with an id or not.  *)
Names(p, rows) == \A row \in rows : row[1] \in sent[p]
Listed(t, rows) == <<t, "id">> \in rows \/ <<t, "no_id">> \in rows

(* A server writes rows of its own tasks only, and takes off only those    *)
(* and rows that are over; the write on the thread is the last decided.    *)
WrittenOwn(p) ==
  /\ Names(p, wrote[p].rows)
  /\ \A rows \in pending[p] \cup retries[p] : Names(p, rows)
  /\ \A w \in writing[p] :
       /\ w.rows = wrote[p].rows /\ Names(p, w.before.rows)
       /\ \A row \in w.drop : row[1] \in sent[p] \/ Over(row[1])
(* The dead write nothing; only a write that failed is tried again.        *)
NoneLeftOver(p) ==
  /\ p \notin alive => pending[p] = {} /\ writing[p] = {} /\ retries[p] = {}
  /\ p \notin failed => retries[p] = {}
(* What can still start a block is in the last write decided ..            *)
StillListed(p) ==
  \A t \in Tasks : t \in Held(p) /\ ~LocallyResolved(t) /\ CanStart(t) => Listed(t, Intended(p))
(* .. and that write, once landed, is on disk.                             *)
OnDisk(p) == writing[p] = {} => \A row \in wrote[p].rows : CanStart(row[1]) => row \in record

(* What holds of one server; OnDisk and StillListed while no write failed. *)
RecordOf(p) ==
  /\ WrittenOwn(p) /\ NoneLeftOver(p)
  /\ p \in alive \ failed => StillListed(p) /\ OnDisk(p)
RecordInv == \A p \in Procs : RecordOf(p)

(* What a step of the others leaves a server.                              *)
Unmoved(p) ==
  /\ wrote'[p] = wrote[p] /\ pending'[p] = pending[p] /\ writing'[p] = writing[p] /\ retries'[p] = retries[p]
  /\ (p \in alive' <=> p \in alive) /\ (p \in failed' <=> p \in failed)
  /\ \A t \in Tasks : (t \in Held(p) /\ ~LocallyResolved(t))' => t \in Held(p) /\ ~LocallyResolved(t)
  /\ \A row \in record \ record' : row \in Rows => row[1] \notin sent[p] \/ Over(row[1])

(* A server's rows stay its own.                                           *)
LEMMA NamesGo ==
  ASSUME Onward, NEW p \in Procs, NEW rows, Names(p, rows)
  PROVE  Names(p, rows)'
BY DEF Onward, Names

(* No block can start again for a task for which none could.               *)
LEMMA StartsStay ==
  ASSUME Onward, NEW t \in Tasks, service[t] # "unsent", CanStart(t)'
  PROVE  CanStart(t)
BY DEF Onward, Over

(* A step that leaves a server's writes alone.                             *)
LEMMA RecordStays ==
  ASSUME TypeInv, FactsInv, Onward, NEW p \in Procs, RecordOf(p), Unmoved(p)
  PROVE  RecordOf(p)'
<1>1. WrittenOwn(p)'
  <2>1. Names(p, wrote[p].rows)' /\ \A rows \in pending'[p] \cup retries'[p] : Names(p, rows)'
    BY DEF RecordOf, WrittenOwn, Unmoved, Onward, Names
  <2>2. ASSUME NEW w \in writing'[p]
        PROVE  /\ w.rows = wrote'[p].rows /\ Names(p, w.before.rows)'
               /\ \A row \in w.drop : (row[1] \in sent[p] \/ Over(row[1]))'
    <3>1. w.rows = wrote[p].rows /\ Names(p, w.before.rows) /\ \A row \in w.drop : row[1] \in sent[p] \/ Over(row[1])
      BY DEF RecordOf, WrittenOwn, Unmoved
    <3>2. w.drop \subseteq Rows
      BY DEF Unmoved, TypeInv, WritesTyped, WriteJobs
    <3>3. ASSUME NEW row \in w.drop PROVE (row[1] \in sent[p] \/ Over(row[1]))'
      <4>1. PICK t \in Tasks : t = row[1]
        BY <3>2 DEF Rows
      <4>2. t \in sent[p] \/ Over(t)
        BY <3>1, <4>1
      <4>3. (t \in sent[p] \/ Over(t))'
        BY <4>2 DEF Onward
      <4> QED BY <4>1, <4>3
    <3> QED BY <3>1, <3>3 DEF Unmoved, Onward, Names
  <2> QED BY <2>1, <2>2 DEF WrittenOwn
<1>2. NoneLeftOver(p)'
  BY DEF RecordOf, NoneLeftOver, Unmoved
<1>3. ASSUME p \in alive' \ failed' PROVE StillListed(p)' /\ OnDisk(p)'
  <2>1. StillListed(p) /\ OnDisk(p)
    BY <1>3 DEF RecordOf, Unmoved
  <2>2. ASSUME NEW t \in Tasks, (t \in Held(p) /\ ~LocallyResolved(t) /\ CanStart(t))'
        PROVE  Listed(t, Intended(p))'
    <3>1. t \in Held(p) /\ ~LocallyResolved(t) /\ CanStart(t)
      BY <2>2, StartsStay DEF Unmoved, Held, FactsInv, OwnTasks
    <3>2. Listed(t, Intended(p))
      BY <2>1, <3>1 DEF StillListed
    <3> QED BY <3>2 DEF Unmoved, Intended, Listed
  <2>3. ASSUME NEW row \in wrote'[p].rows, writing'[p] = {}, CanStart(row[1])' PROVE row \in record'
    <3>1. row \in wrote[p].rows /\ writing[p] = {} /\ row \in Rows /\ row[1] \in sent[p]
      BY <2>3 DEF Unmoved, TypeInv, WritesTyped, Written, RecordOf, WrittenOwn, Names
    <3>2. PICK t \in Tasks : t = row[1]
      BY <3>1 DEF Rows
    <3>3. CanStart(t)
      BY <2>3, <3>1, <3>2, StartsStay DEF FactsInv, OwnTasks
    <3>4. row \in record
      BY <2>1, <3>1, <3>2, <3>3 DEF OnDisk
    <3> QED BY <3>1, <3>2, <3>3, <3>4 DEF Unmoved, Over
  <2> QED BY <2>2, <2>3 DEF StillListed, OnDisk
<1> QED BY <1>1, <1>2, <1>3 DEF RecordOf

(* What a server's rows are.                                               *)
LEMMA UnresolvedHas ==
  ASSUME TasksTyped', ResolvedOver', NEW p \in Procs
  PROVE  /\ \A row \in Unresolved(p)' : row[1] \in sent'[p]
         /\ \A t \in Tasks : (t \in Held(p) /\ ~LocallyResolved(t) /\ CanStart(t))' => Listed(t, Unresolved(p)')
<1>1. \A row \in Unresolved(p)' : row[1] \in sent'[p]
  BY DEF Unresolved, RowOf, Held, LocallyResolved
<1>2. ASSUME NEW t \in Tasks, (t \in Held(p) /\ ~LocallyResolved(t) /\ CanStart(t))'
      PROVE  Listed(t, Unresolved(p)')
  <2>1. RowOf(t)' \in {<<t, "id">>, <<t, "no_id">>}
    BY DEF RowOf
  <2>2. ~Over(t)'
    BY <1>2 DEF Over
  <2>3. RowOf(t)' \notin resolved'[p]
    BY <2>1, <2>2 DEF ResolvedOver
  <2>4. RowOf(t)' \in Unresolved(p)'
    BY <1>2, <2>3 DEF Unresolved
  <2> QED BY <2>1, <2>4 DEF Listed
<1> QED BY <1>1, <1>2

(* A write is decided: what it says is what the server holds.              *)
LEMMA PersistsDoes ==
  ASSUME WritesTyped, TasksTyped', MemoryTyped', NEW p \in Procs, Persists(p)
  PROVE  /\ Intended(p)' = Unresolved(p)'
         /\ \A q \in Procs : q # p => wrote'[q] = wrote[q] /\ pending'[q] = pending[q] /\ writing'[q] = writing[q]
         /\ \/ wrote'[p] = wrote[p] /\ pending'[p] = pending[p] /\ writing'[p] = writing[p]
            \/ /\ pending'[p] = {} /\ wrote'[p].rows = Unresolved(p)'
               /\ writing'[p] = {JobOf(p, Unresolved(p)', (wrote[p].rows \cup resolved'[p]) \ Unresolved(p)')}
            \/ wrote'[p] = wrote[p] /\ pending'[p] = {Unresolved(p)'} /\ writing'[p] = writing[p]
<1> DEFINE mine == Unresolved(p)'
           drop == (wrote[p].rows \cup resolved'[p]) \ mine
<1>1. mine \subseteq Rows /\ drop \subseteq Rows
  BY UnresolvedTyped DEF WritesTyped, Written, MemoryTyped
<1>2. \/ UNCHANGED <<wrote, pending, writing>> /\ pending[p] = {} /\ mine = wrote[p].rows
      \/ writing[p] = {} /\ TakesJob(p, mine, drop) /\ UNCHANGED pending
      \/ writing[p] # {} /\ pending' = [pending EXCEPT ![p] = {mine}] /\ UNCHANGED <<wrote, writing>>
  BY DEF Persists
<1>3. Intended(p)' = IF pending'[p] = {} THEN wrote'[p].rows ELSE UNION pending'[p]
  BY DEF Intended
<1> HIDE DEF mine, drop
<1>4. CASE UNCHANGED <<wrote, pending, writing>> /\ pending[p] = {} /\ mine = wrote[p].rows
  BY <1>3, <1>4 DEF mine
<1>5. CASE writing[p] = {} /\ TakesJob(p, mine, drop) /\ UNCHANGED pending
  <2>1. /\ wrote' \in [Procs -> Written] /\ writing' \in [Procs -> SUBSET WriteJobs]
        /\ wrote'[p] = [rows |-> mine, removed |-> drop]
        /\ writing'[p] = {JobOf(p, mine, drop)}
        /\ \A q \in Procs : q # p => wrote'[q] = wrote[q] /\ writing'[q] = writing[q]
    BY <1>1, <1>5, JobTaken
  <2>2. pending'[p] = {} /\ wrote'[p].rows = mine
    BY <1>5, <2>1 DEF WritesTyped
  <2> QED BY <1>3, <1>5, <2>1, <2>2 DEF mine, drop
<1>6. CASE writing[p] # {} /\ pending' = [pending EXCEPT ![p] = {mine}] /\ UNCHANGED <<wrote, writing>>
  <2>1. pending'[p] = {mine} /\ \A q \in Procs : q # p => pending'[q] = pending[q]
    BY <1>6 DEF WritesTyped
  <2> QED BY <1>3, <1>6, <2>1 DEF mine
<1> QED BY <1>2, <1>4, <1>5, <1>6

(* A step that decides a write.                                            *)
LEMMA RecordDecided ==
  ASSUME TypeInv, FactsInv, Onward, TypeInv', SeenInv', NEW p \in alive, RecordOf(p), Persists(p),
         UNCHANGED <<retries, record, failed, alive>>
  PROVE  RecordOf(p)'
<1>0. p \in Procs
  BY DEF TypeInv, MemoryTyped
<1> DEFINE mine == Unresolved(p)'
           drop == (wrote[p].rows \cup resolved'[p]) \ mine
<1>1. /\ Intended(p)' = mine
      /\ \/ wrote'[p] = wrote[p] /\ pending'[p] = pending[p] /\ writing'[p] = writing[p]
         \/ pending'[p] = {} /\ wrote'[p].rows = mine /\ writing'[p] = {JobOf(p, mine, drop)}
         \/ wrote'[p] = wrote[p] /\ pending'[p] = {mine} /\ writing'[p] = writing[p]
  BY <1>0, PersistsDoes DEF TypeInv
<1>2. /\ \A row \in mine : row[1] \in sent'[p]
      /\ \A t \in Tasks : (t \in Held(p) /\ ~LocallyResolved(t) /\ CanStart(t))' => Listed(t, mine)
  BY <1>0, UnresolvedHas DEF TypeInv, SeenInv
<1>3. \A row \in drop : row[1] \in sent'[p] \/ Over(row[1])'
  BY <1>0 DEF SeenInv, ResolvedOver, RecordOf, WrittenOwn, Names, Onward
<1> HIDE DEF mine, drop
<1>4. \A w \in writing[p] : \A row \in w.drop : row[1] \in sent'[p] \/ Over(row[1])'
  <2> SUFFICES ASSUME NEW w \in writing[p], NEW row \in w.drop PROVE row[1] \in sent'[p] \/ Over(row[1])'
    OBVIOUS
  <2>1. row \in Rows /\ (row[1] \in sent[p] \/ Over(row[1]))
    BY <1>0 DEF TypeInv, WritesTyped, WriteJobs, RecordOf, WrittenOwn
  <2>2. PICK t \in Tasks : t = row[1]
    BY <2>1 DEF Rows
  <2>3. t \in sent'[p] \/ Over(t)'
    BY <1>0, <2>1, <2>2 DEF Onward
  <2> QED BY <2>2, <2>3
<1>5. /\ \A row \in wrote'[p].rows : row[1] \in sent'[p]
      /\ \A rows \in pending'[p] \cup retries'[p] : \A row \in rows : row[1] \in sent'[p]
  BY <1>0, <1>1, <1>2 DEF RecordOf, WrittenOwn, Names, Onward
<1>6. ASSUME NEW w \in writing'[p]
      PROVE  /\ w.rows = wrote'[p].rows /\ \A row \in w.before.rows : row[1] \in sent'[p]
             /\ \A row \in w.drop : row[1] \in sent'[p] \/ Over(row[1])'
  <2>1. CASE wrote'[p] = wrote[p] /\ writing'[p] = writing[p]
    BY <1>0, <1>4, <2>1 DEF RecordOf, WrittenOwn, Names, Onward
  <2>2. CASE wrote'[p].rows = mine /\ writing'[p] = {JobOf(p, mine, drop)}
    <3>1. w.rows = mine /\ w.drop = drop /\ w.before = wrote[p]
      BY <2>2 DEF JobOf
    <3> QED BY <1>0, <1>3, <2>2, <3>1 DEF RecordOf, WrittenOwn, Names, Onward
  <2> QED BY <1>1, <2>1, <2>2
<1>7. WrittenOwn(p)'
  BY <1>5, <1>6 DEF WrittenOwn, Names
<1>8. NoneLeftOver(p)'
  BY DEF RecordOf, NoneLeftOver
<1>9. ASSUME p \notin failed' PROVE StillListed(p)' /\ OnDisk(p)'
  <2>1. StillListed(p)'
    BY <1>1, <1>2 DEF StillListed, Listed
  <2>2. ASSUME writing'[p] = {}, NEW row \in wrote'[p].rows, CanStart(row[1])' PROVE row \in record'
    <3>1. wrote'[p] = wrote[p] /\ writing'[p] = writing[p]
      BY <1>1, <2>2
    <3>2. row \in wrote[p].rows /\ writing[p] = {} /\ row \in Rows /\ row[1] \in sent[p]
      BY <1>0, <2>2, <3>1 DEF TypeInv, WritesTyped, Written, RecordOf, WrittenOwn, Names
    <3>3. PICK t \in Tasks : t = row[1]
      BY <3>2 DEF Rows
    <3>4. CanStart(t)
      BY <1>0, <2>2, <3>2, <3>3, StartsStay DEF FactsInv, OwnTasks
    <3> QED BY <1>0, <1>9, <3>2, <3>3, <3>4 DEF RecordOf, OnDisk
  <2> QED BY <2>1, <2>2 DEF OnDisk
<1> QED BY <1>7, <1>8, <1>9 DEF RecordOf

(* A write has left the thread, with what counts as written now; the next  *)
(* is what the server had decided.                                         *)
LEMMA NextOwn ==
  ASSUME TypeInv, SeenInv, NEW p \in Procs, NEW written \in Written, Names(p, written.rows),
         TakesNext(p, written), writing[p] # {}, RecordOf(p), UNCHANGED taskVars
  PROVE  /\ pending'[p] = {} /\ Names(p, wrote'[p].rows)
         /\ pending[p] = {} => wrote'[p] = written /\ writing'[p] = {}
         /\ pending[p] # {} => wrote'[p].rows = UNION pending[p] /\ writing'[p] # {}
         /\ \A w \in writing'[p] :
              /\ w.rows = wrote'[p].rows /\ Names(p, w.before.rows)
              /\ \A row \in w.drop : row[1] \in sent[p] \/ Over(row[1])
         /\ \A q \in Procs : q # p => wrote'[q] = wrote[q] /\ pending'[q] = pending[q] /\ writing'[q] = writing[q]
<1> DEFINE mine == UNION pending[p]
           drop == (written.rows \cup resolved[p]) \ mine
<1>1. /\ pending'[p] = {}
      /\ \A q \in Procs : q # p => wrote'[q] = wrote[q] /\ writing'[q] = writing[q] /\ pending'[q] = pending[q]
      /\ pending[p] = {} => wrote'[p] = written /\ writing'[p] = {}
      /\ pending[p] # {} =>
           /\ mine \in pending[p] /\ wrote'[p].rows = mine
           /\ writing'[p] = {[rows |-> mine, drop |-> drop, before |-> written]}
  BY NextTaken DEF TypeInv
<1>2. CASE pending[p] = {}
  BY <1>1, <1>2
<1>3. CASE pending[p] # {}
  <2>1. Names(p, mine)
    BY <1>1, <1>3 DEF RecordOf, WrittenOwn
  <2>2. \A row \in drop : row[1] \in sent[p] \/ Over(row[1])
    BY DEF Names, SeenInv, ResolvedOver
  <2>3. wrote'[p].rows = mine /\ writing'[p] = {[rows |-> mine, drop |-> drop, before |-> written]}
    BY <1>1, <1>3
  <2> HIDE DEF mine, drop
  <2>4. ASSUME NEW w \in writing'[p] PROVE w.rows = mine /\ w.before = written /\ w.drop = drop
    BY <2>3, <2>4
  <2>5. writing'[p] # {}
    BY <2>3
  <2> QED BY <1>1, <1>3, <2>1, <2>2, <2>3, <2>4, <2>5 DEF mine
<1> QED BY <1>2, <1>3

(* A write lands, and the next goes on the thread.                         *)
LEMMA RecordLands ==
  ASSUME TypeInv, FactsInv, SeenInv, NEW p \in Procs, RecordOf(p), WriteLands(p)
  PROVE  RecordOf(p)'
<1>1. PICK w \in writing[p] : record' = Merged(record, w.rows, w.drop)
  BY DEF WriteLands
<1>2. /\ wrote[p] \in Written /\ writing[p] # {} /\ TakesNext(p, wrote[p]) /\ UNCHANGED taskVars
      /\ Names(p, wrote[p].rows) /\ w.rows = wrote[p].rows
  BY <1>1 DEF TypeInv, WritesTyped, WriteLands, RecordOf, WrittenOwn
<1>3. /\ pending'[p] = {} /\ Names(p, wrote'[p].rows)
      /\ pending[p] = {} => wrote'[p] = wrote[p] /\ writing'[p] = {}
      /\ pending[p] # {} => wrote'[p].rows = UNION pending[p] /\ writing'[p] # {}
      /\ \A x \in writing'[p] :
           /\ x.rows = wrote'[p].rows /\ Names(p, x.before.rows)
           /\ \A row \in x.drop : row[1] \in sent[p] \/ Over(row[1])
  BY <1>2, NextOwn
<1>4. UNCHANGED <<taskVars, alive, retries, failed>>
  BY DEF WriteLands
<1>5. WrittenOwn(p)'
  BY <1>3, <1>4 DEF RecordOf, WrittenOwn, Names, Over, CanStart, taskVars
<1>6. NoneLeftOver(p)'
  BY <1>1, <1>4 DEF RecordOf, NoneLeftOver
<1>7. Intended(p)' = Intended(p)
  BY <1>3 DEF Intended
<1>8. StillListed(p) => StillListed(p)'
  BY <1>4, <1>7 DEF StillListed, Held, LocallyResolved, CanStart, Listed, taskVars
<1>9. OnDisk(p)'
  BY <1>1, <1>2, <1>3 DEF OnDisk, Merged
<1> QED BY <1>4, <1>5, <1>6, <1>8, <1>9 DEF RecordOf

(* A write fails, and the next goes on the thread.                         *)
LEMMA RecordFails ==
  ASSUME TypeInv, FactsInv, SeenInv, NEW p \in Procs, RecordOf(p), WriteFails(p)
  PROVE  RecordOf(p)' /\ \A q \in Procs : q # p => wrote'[q] = wrote[q] /\ pending'[q] = pending[q] /\ writing'[q] = writing[q]
<1>1. PICK w \in writing[p] : retries' = [retries EXCEPT ![p] = @ \cup {w.rows}] /\ TakesNext(p, w.before)
  BY DEF WriteFails
<1>2. /\ w.before \in Written /\ writing[p] # {} /\ UNCHANGED taskVars
      /\ Names(p, w.before.rows) /\ Names(p, w.rows)
  BY <1>1 DEF TypeInv, WritesTyped, WriteJobs, WriteFails, RecordOf, WrittenOwn
<1>3. /\ pending'[p] = {} /\ Names(p, wrote'[p].rows)
      /\ \A x \in writing'[p] :
           /\ x.rows = wrote'[p].rows /\ Names(p, x.before.rows)
           /\ \A row \in x.drop : row[1] \in sent[p] \/ Over(row[1])
      /\ \A q \in Procs : q # p => wrote'[q] = wrote[q] /\ pending'[q] = pending[q] /\ writing'[q] = writing[q]
  BY <1>1, <1>2, NextOwn
<1>4. UNCHANGED <<taskVars, alive>> /\ p \in failed' /\ retries'[p] = retries[p] \cup {w.rows}
  BY <1>1 DEF WriteFails, TypeInv, WritesTyped
<1>5. WrittenOwn(p)'
  BY <1>2, <1>3, <1>4 DEF RecordOf, WrittenOwn, Names, Over, CanStart, taskVars
<1>6. NoneLeftOver(p)'
  BY <1>1, <1>4 DEF RecordOf, NoneLeftOver
<1> QED BY <1>3, <1>4, <1>5, <1>6 DEF RecordOf

(* A failed write is tried again.                                          *)
LEMMA RecordRetries ==
  ASSUME TypeInv, FactsInv, SeenInv, NEW p \in Procs, NEW job \in retries[p], RecordOf(p), RetryFires(p, job)
  PROVE  RecordOf(p)' /\ \A q \in Procs : q # p => wrote'[q] = wrote[q] /\ pending'[q] = pending[q] /\ writing'[q] = writing[q]
<1> DEFINE drop == Removed(p, job)
<1>1. job \subseteq Rows /\ drop \subseteq Rows /\ Names(p, job)
  BY DEF TypeInv, WritesTyped, MemoryTyped, Removed, Written, RecordOf, WrittenOwn
<1>2. \A row \in drop : row[1] \in sent[p] \/ Over(row[1])
  BY DEF Removed, SeenInv, ResolvedOver, RecordOf, WrittenOwn, Names
<1>3. /\ UNCHANGED <<taskVars, alive, failed>> /\ retries'[p] \subseteq retries[p]
      /\ p \in failed /\ p \in alive
  BY DEF RetryFires, TypeInv, WritesTyped, RecordOf, NoneLeftOver
<1>4. NoneLeftOver(p)'
  BY <1>3 DEF NoneLeftOver
<1>5. CASE writing[p] = {}
  <2>1. TakesJob(p, job, drop) /\ UNCHANGED pending
    BY <1>5 DEF RetryFires
  <2> HIDE DEF drop
  <2>2. /\ wrote' \in [Procs -> Written] /\ writing' \in [Procs -> SUBSET WriteJobs]
        /\ wrote'[p] = [rows |-> job, removed |-> drop]
        /\ writing'[p] = {JobOf(p, job, drop)}
        /\ \A q \in Procs : q # p => wrote'[q] = wrote[q] /\ writing'[q] = writing[q]
    BY <1>1, <2>1, JobTaken DEF TypeInv
  <2>3. wrote'[p].rows = job
    BY <2>2
  <2>4. ASSUME NEW w \in writing'[p] PROVE w.rows = job /\ w.before = wrote[p] /\ w.drop = drop
    BY <2>2, <2>4 DEF JobOf
  <2>5. WrittenOwn(p)'
    BY <1>1, <1>2, <1>3, <2>1, <2>3, <2>4 DEF RecordOf, WrittenOwn, Names, Over, CanStart, taskVars
  <2> QED BY <1>3, <1>4, <2>1, <2>2, <2>5 DEF RecordOf
<1>6. CASE writing[p] # {}
  <2>1. pending' = [pending EXCEPT ![p] = IF @ = {} THEN {job} ELSE @] /\ UNCHANGED <<wrote, writing>>
    BY <1>6 DEF RetryFires
  <2>2. (pending'[p] = pending[p] \/ pending'[p] = {job}) /\ \A q \in Procs : q # p => pending'[q] = pending[q]
    BY <2>1 DEF TypeInv, WritesTyped
  <2>3. WrittenOwn(p)'
    BY <1>1, <1>3, <2>1, <2>2 DEF RecordOf, WrittenOwn, Names, Over, CanStart, taskVars
  <2> QED BY <1>3, <1>4, <2>1, <2>2, <2>3 DEF RecordOf
<1> QED BY <1>5, <1>6

(* A server dies with the writes it had.                                   *)
LEMMA RecordDies ==
  ASSUME TypeInv, FactsInv, NEW p \in Procs, RecordOf(p), Crash(p)
  PROVE  RecordOf(p)'
<1>1. /\ wrote'[p] = [rows |-> {}, removed |-> {}] /\ pending'[p] = {} /\ writing'[p] = {} /\ retries'[p] = {}
      /\ p \notin alive'
  BY DEF Crash, TypeInv, WritesTyped
<1>2. wrote'[p].rows = {}
  BY <1>1
<1> QED BY <1>1, <1>2 DEF RecordOf, WrittenOwn, NoneLeftOver, Names

(* At the start.                                                           *)
LEMMA RecordInit == Init => RecordInv
<1> SUFFICES ASSUME Init, NEW p \in Procs PROVE RecordOf(p)
  BY DEF RecordInv
<1>1. /\ wrote[p].rows = {} /\ pending[p] = {} /\ writing[p] = {} /\ retries[p] = {} /\ p \in alive
      /\ sent[p] = {}
  BY DEF Init, InitChecks
<1> QED BY <1>1 DEF RecordOf, WrittenOwn, NoneLeftOver, StillListed, OnDisk, Held, Names

(* Every step.                                                             *)
LEMMA RecordGoes ==
  ASSUME TypeInv, FactsInv, SeenInv, RecordInv, Onward, TypeInv', SeenInv', [Next]_vars
  PROVE  RecordInv'
<1>1. ASSUME NEW t \in Tasks, Taken(t), UNCHANGED stop PROVE RecordInv'
  <2>1. \A q \in Procs : Unmoved(q)
    BY <1>1 DEF Unmoved, Held, LocallyResolved, TypeInv, TasksTyped, FactsInv, OwnTasks, Taken, serviceOnly,
        memoryVars, writeVars
  <2> QED BY <2>1, RecordStays DEF RecordInv
<1>2. ASSUME NEW t \in Tasks, StartBlock(t), UNCHANGED stop PROVE RecordInv'
  <2>1. \A q \in Procs : Unmoved(q)
    BY <1>2 DEF Unmoved, Held, LocallyResolved, TypeInv, TasksTyped, FactsInv, OwnTasks, StartBlock,
        serviceOnly,
        memoryVars, writeVars
  <2> QED BY <2>1, RecordStays DEF RecordInv
<1>3. ASSUME NEW t \in Tasks, Runs(t), UNCHANGED stop PROVE RecordInv'
  <2>1. \A q \in Procs : Unmoved(q)
    BY <1>3 DEF Unmoved, Held, LocallyResolved, TypeInv, TasksTyped, FactsInv, OwnTasks, Runs, serviceOnly,
        memoryVars, writeVars
  <2> QED BY <2>1, RecordStays DEF RecordInv
<1>4. ASSUME NEW t \in Tasks, GivesUp(t), UNCHANGED stop PROVE RecordInv'
  <2>1. \A q \in Procs : Unmoved(q)
    BY <1>4 DEF Unmoved, Held, LocallyResolved, TypeInv, TasksTyped, FactsInv, OwnTasks, GivesUp, serviceOnly,
        memoryVars, writeVars
  <2> QED BY <2>1, RecordStays DEF RecordInv
<1>5. ASSUME NEW t \in Tasks, PilotEnds(t), UNCHANGED stop PROVE RecordInv'
  <2>1. \A q \in Procs : Unmoved(q)
    BY <1>5 DEF Unmoved, Held, LocallyResolved, TypeInv, TasksTyped, FactsInv, OwnTasks, PilotEnds, serviceOnly,
        memoryVars, writeVars
  <2> QED BY <2>1, RecordStays DEF RecordInv
<1>6. ASSUME NEW t \in Tasks, NoIdBound(t) PROVE RecordInv'
  <2>1. \A q \in Procs : Unmoved(q)
    BY <1>6 DEF Unmoved, Held, LocallyResolved, TypeInv, TasksTyped, FactsInv, OwnTasks, NoIdBound, memoryVars,
        writeVars
  <2> QED BY <2>1, RecordStays DEF RecordInv
<1>7. ASSUME NEW p \in Procs, NEW t \in Tasks, SendCheck(p, t), UNCHANGED stop PROVE RecordInv'
  <2>1. Persists(p) /\ p \in alive /\ UNCHANGED <<retries, record, failed, alive>>
    BY <1>7 DEF SendCheck, Sends, writeStep, memoryVars, writeVars
  <2>2. ASSUME NEW q \in Procs, q # p PROVE Unmoved(q)
    <3>1. wrote'[q] = wrote[q] /\ pending'[q] = pending[q] /\ writing'[q] = writing[q]
      BY <2>1, <2>2, PersistsDoes DEF TypeInv
    <3> QED BY <1>7, <2>1, <2>2, <3>1 DEF Unmoved, Held, LocallyResolved, TypeInv, TasksTyped, FactsInv,
                OwnTasks,
        SendCheck, Sends, writeStep, memoryVars, writeVars
  <2>3. RecordOf(p)'
    BY <2>1, RecordDecided DEF RecordInv
  <2> QED BY <2>2, <2>3, RecordStays DEF RecordInv
<1>8. ASSUME NEW p \in Procs, NEW t \in Tasks, SendCommand(p, t), UNCHANGED stop PROVE RecordInv'
  <2>1. Persists(p) /\ p \in alive /\ UNCHANGED <<retries, record, failed, alive>>
    BY <1>8 DEF SendCommand, Sends, writeStep, memoryVars, writeVars
  <2>2. ASSUME NEW q \in Procs, q # p PROVE Unmoved(q)
    <3>1. wrote'[q] = wrote[q] /\ pending'[q] = pending[q] /\ writing'[q] = writing[q]
      BY <2>1, <2>2, PersistsDoes DEF TypeInv
    <3> QED BY <1>8, <2>1, <2>2, <3>1 DEF Unmoved, Held, LocallyResolved, TypeInv, TasksTyped, FactsInv,
                OwnTasks,
        SendCommand, Sends, writeStep, memoryVars, writeVars
  <2>3. RecordOf(p)'
    BY <2>1, RecordDecided DEF RecordInv
  <2> QED BY <2>2, <2>3, RecordStays DEF RecordInv
<1>9. ASSUME NEW p \in Procs, NEW t \in Tasks, IdSeen(p, t), UNCHANGED stop PROVE RecordInv'
  <2>1. \A q \in Procs : Unmoved(q)
    BY <1>9 DEF Unmoved, Held, LocallyResolved, TypeInv, TasksTyped, FactsInv, OwnTasks, IdSeen, memoryVars,
        writeVars
  <2> QED BY <2>1, RecordStays DEF RecordInv
<1>10. ASSUME NEW p \in Procs, NEW t \in Tasks, Refused(p, t), UNCHANGED stop PROVE RecordInv'
  <2>1. Persists(p) /\ p \in alive /\ UNCHANGED <<retries, record, failed, alive>>
    BY <1>10 DEF Refused, futureStep, writeStep, memoryVars, writeVars
  <2>2. ASSUME NEW q \in Procs, q # p PROVE Unmoved(q)
    <3>1. wrote'[q] = wrote[q] /\ pending'[q] = pending[q] /\ writing'[q] = writing[q]
      BY <2>1, <2>2, PersistsDoes DEF TypeInv
    <3> QED BY <1>10, <2>1, <2>2, <3>1 DEF Unmoved, Held, LocallyResolved, TypeInv, TasksTyped, FactsInv,
                OwnTasks,
        Refused, futureStep, writeStep, memoryVars, writeVars
  <2>3. RecordOf(p)'
    BY <2>1, RecordDecided DEF RecordInv
  <2> QED BY <2>2, <2>3, RecordStays DEF RecordInv
<1>11. ASSUME NEW p \in Procs, NEW t \in Tasks, Unclear(p, t), UNCHANGED stop PROVE RecordInv'
  <2>1. Persists(p) /\ p \in alive /\ UNCHANGED <<retries, record, failed, alive>>
    BY <1>11 DEF Unclear, futureStep, writeStep, memoryVars, writeVars
  <2>2. ASSUME NEW q \in Procs, q # p PROVE Unmoved(q)
    <3>1. wrote'[q] = wrote[q] /\ pending'[q] = pending[q] /\ writing'[q] = writing[q]
      BY <2>1, <2>2, PersistsDoes DEF TypeInv
    <3> QED BY <1>11, <2>1, <2>2, <3>1 DEF Unmoved, Held, LocallyResolved, TypeInv, TasksTyped, FactsInv,
                OwnTasks,
        Unclear, futureStep, writeStep, memoryVars, writeVars
  <2>3. RecordOf(p)'
    BY <2>1, RecordDecided DEF RecordInv
  <2> QED BY <2>2, <2>3, RecordStays DEF RecordInv
<1>12. ASSUME NEW p \in Procs, NEW t \in Tasks, Breaks(p, t), UNCHANGED stop PROVE RecordInv'
  <2>1. Persists(p) /\ p \in alive /\ UNCHANGED <<retries, record, failed, alive>>
    BY <1>12 DEF Breaks, futureStep, writeStep, memoryVars, writeVars
  <2>2. ASSUME NEW q \in Procs, q # p PROVE Unmoved(q)
    <3>1. wrote'[q] = wrote[q] /\ pending'[q] = pending[q] /\ writing'[q] = writing[q]
      BY <2>1, <2>2, PersistsDoes DEF TypeInv
    <3> QED BY <1>12, <2>1, <2>2, <3>1 DEF Unmoved, Held, LocallyResolved, TypeInv, TasksTyped, FactsInv,
                OwnTasks, Breaks,
        futureStep, writeStep, memoryVars, writeVars
  <2>3. RecordOf(p)'
    BY <2>1, RecordDecided DEF RecordInv
  <2> QED BY <2>2, <2>3, RecordStays DEF RecordInv
<1>13. ASSUME NEW p \in Procs, NEW t \in Tasks, ResultArrives(p, t) PROVE RecordInv'
  <2>1. Persists(p) /\ p \in alive /\ UNCHANGED <<retries, record, failed, alive>>
    BY <1>13 DEF ResultArrives, Delivered, futureStep, writeStep, memoryVars, writeVars
  <2>2. ASSUME NEW q \in Procs, q # p PROVE Unmoved(q)
    <3>1. wrote'[q] = wrote[q] /\ pending'[q] = pending[q] /\ writing'[q] = writing[q]
      BY <2>1, <2>2, PersistsDoes DEF TypeInv
    <3> QED BY <1>13, <2>1, <2>2, <3>1 DEF Unmoved, Held, LocallyResolved, TypeInv, TasksTyped, FactsInv,
                OwnTasks,
        ResultArrives, Delivered, futureStep, writeStep, memoryVars, writeVars
  <2>3. RecordOf(p)'
    BY <2>1, RecordDecided DEF RecordInv
  <2> QED BY <2>2, <2>3, RecordStays DEF RecordInv
<1>14. ASSUME NEW p \in Procs, WatchIds(p), UNCHANGED stop PROVE RecordInv'
  <2>1. Persists(p) /\ p \in alive /\ UNCHANGED <<retries, record, failed, alive>>
    BY <1>14 DEF WatchIds, taskVars, writeStep, memoryVars, writeVars
  <2>2. ASSUME NEW q \in Procs, q # p PROVE Unmoved(q)
    <3>1. wrote'[q] = wrote[q] /\ pending'[q] = pending[q] /\ writing'[q] = writing[q]
      BY <2>1, <2>2, PersistsDoes DEF TypeInv
    <3> QED BY <1>14, <2>1, <2>2, <3>1 DEF Unmoved, Held, LocallyResolved, TypeInv, TasksTyped, FactsInv,
                OwnTasks,
        WatchIds, taskVars, writeStep, memoryVars, writeVars
  <2>3. RecordOf(p)'
    BY <2>1, RecordDecided DEF RecordInv
  <2> QED BY <2>2, <2>3, RecordStays DEF RecordInv
<1>15. ASSUME NEW p \in Procs, WriteLands(p), UNCHANGED stop PROVE RecordInv'
  <2>1. PICK w \in writing[p] : record' = Merged(record, w.rows, w.drop)
    BY <1>15 DEF WriteLands
  <2>2. \A row \in record \ record' : row[1] \in sent[p] \/ Over(row[1])
    BY <2>1 DEF Merged, RecordInv, RecordOf, WrittenOwn
  <2>3. ASSUME NEW q \in Procs, q # p PROVE Unmoved(q)
    <3>1. wrote'[q] = wrote[q] /\ pending'[q] = pending[q] /\ writing'[q] = writing[q]
      <4>1. wrote[p] \in Written /\ writing[p] # {} /\ TakesNext(p, wrote[p])
        BY <1>15, <2>1 DEF TypeInv, WritesTyped, WriteLands
      <4> QED BY <2>3, <4>1, NextTaken DEF TypeInv
    <3>2. UNCHANGED <<taskVars, alive, retries, failed>>
      BY <1>15 DEF WriteLands
    <3> QED BY <2>2, <2>3, <3>1, <3>2 DEF Unmoved, Held, LocallyResolved, FactsInv, OwnTasks, taskVars
  <2>4. RecordOf(p)'
    BY <1>15, RecordLands DEF RecordInv
  <2> QED BY <2>3, <2>4, RecordStays DEF RecordInv
<1>16. ASSUME NEW p \in Procs, WriteFails(p), UNCHANGED stop PROVE RecordInv'
  <2>1. RecordOf(p)' /\ \A q \in Procs : q # p => wrote'[q] = wrote[q] /\ pending'[q] = pending[q] /\ writing'[q] = writing[q]
    BY <1>16, RecordFails DEF RecordInv
  <2>2. \A q \in Procs : q # p => Unmoved(q)
    BY <1>16, <2>1 DEF Unmoved, Held, LocallyResolved, TypeInv, WritesTyped, WriteFails, taskVars, memoryVars,
        writeVars
  <2> QED BY <2>1, <2>2, RecordStays DEF RecordInv
<1>17. ASSUME NEW p \in Procs, NEW job \in retries[p], RetryFires(p, job), UNCHANGED stop PROVE RecordInv'
  <2>1. RecordOf(p)' /\ \A q \in Procs : q # p => wrote'[q] = wrote[q] /\ pending'[q] = pending[q] /\ writing'[q] = writing[q]
    BY <1>17, RecordRetries DEF RecordInv
  <2>2. \A q \in Procs : q # p => Unmoved(q)
    BY <1>17, <2>1 DEF Unmoved, Held, LocallyResolved, TypeInv, WritesTyped, RetryFires, taskVars, memoryVars,
        writeVars
  <2> QED BY <2>1, <2>2, RecordStays DEF RecordInv
<1>18. ASSUME NEW p \in Procs, Rebinds(p) PROVE RecordInv'
  <2>1. Persists(p) /\ p \in alive /\ UNCHANGED <<retries, record, failed, alive>>
    BY <1>18 DEF Rebinds, Rebind, writeStep, memoryVars, writeVars
  <2>2. ASSUME NEW q \in Procs, q # p PROVE Unmoved(q)
    <3>1. wrote'[q] = wrote[q] /\ pending'[q] = pending[q] /\ writing'[q] = writing[q]
      BY <2>1, <2>2, PersistsDoes DEF TypeInv
    <3> QED BY <1>18, <2>1, <2>2, <3>1 DEF Unmoved, Held, LocallyResolved, TypeInv, TasksTyped, FactsInv,
                OwnTasks,
        Rebinds, Rebind, writeStep, memoryVars, writeVars, KeepsChecks
  <2>3. RecordOf(p)'
    BY <2>1, RecordDecided DEF RecordInv
  <2> QED BY <2>2, <2>3, RecordStays DEF RecordInv
<1>19. ASSUME NEW p \in Procs, Dies(p) PROVE RecordInv'
  <2>1. \A q \in Procs : q # p => Unmoved(q)
    BY <1>19 DEF Unmoved, Held, LocallyResolved, TypeInv, TasksTyped, WritesTyped, MemoryTyped, FactsInv,
        OwnTasks, Dies, Crash
  <2>2. RecordOf(p)'
    BY <1>19, RecordDies DEF RecordInv, Dies
  <2> QED BY <2>1, <2>2, RecordStays DEF RecordInv
<1>20. ASSUME NEW p \in Procs, StopReads(p) PROVE RecordInv'
  <2>1. \A q \in Procs : Unmoved(q)
    BY <1>20 DEF Unmoved, Held, LocallyResolved, TypeInv, TasksTyped, FactsInv, OwnTasks, StopReads, taskVars,
        memoryVars, writeVars
  <2> QED BY <2>1, RecordStays DEF RecordInv
<1>21. ASSUME NEW p \in Procs, StopLooks(p) PROVE RecordInv'
  <2>1. \A q \in Procs : Unmoved(q)
    BY <1>21 DEF Unmoved, Held, LocallyResolved, TypeInv, TasksTyped, FactsInv, OwnTasks, StopLooks, taskVars,
        memoryVars, writeVars
  <2> QED BY <2>1, RecordStays DEF RecordInv
<1>22. ASSUME NEW p \in Procs, NEW unread \in SUBSET DOMAIN stop[p].states, StopAsks(p, unread) PROVE RecordInv'
  <2>1. \A q \in Procs : Unmoved(q)
    BY <1>22 DEF Unmoved, Held, LocallyResolved, TypeInv, TasksTyped, FactsInv, OwnTasks, StopAsks, taskVars,
        memoryVars, writeVars
  <2> QED BY <2>1, RecordStays DEF RecordInv
<1>23. ASSUME NEW p \in Procs, ReleaseEnds(p) PROVE RecordInv'
  <2>1. \A q \in Procs : Unmoved(q)
    BY <1>23 DEF Unmoved, Held, LocallyResolved, TypeInv, TasksTyped, FactsInv, OwnTasks, ReleaseEnds,
        serviceOnly,
        memoryVars, writeVars
  <2> QED BY <2>1, RecordStays DEF RecordInv
<1>24. ASSUME NEW p \in Procs, ReleaseFails(p) PROVE RecordInv'
  <2>1. \A q \in Procs : Unmoved(q)
    BY <1>24 DEF Unmoved, Held, LocallyResolved, TypeInv, TasksTyped, FactsInv, OwnTasks, ReleaseFails,
        memoryVars,
        writeVars
  <2> QED BY <2>1, RecordStays DEF RecordInv
<1>25. ASSUME NEW p \in Procs, NEW unread \in SUBSET DOMAIN stop[p].states, Looks(p, unread) PROVE RecordInv'
  <2>1. \A q \in Procs : Unmoved(q)
    BY <1>25 DEF Unmoved, Held, LocallyResolved, TypeInv, TasksTyped, FactsInv, OwnTasks, Looks, taskVars,
        memoryVars, writeVars
  <2> QED BY <2>1, RecordStays DEF RecordInv
<1>26. ASSUME NEW p \in Procs, StopAnswers(p) PROVE RecordInv'
  <2>1. CASE BlockWork(p)
    <3>1. \A q \in Procs : Unmoved(q)
      BY <1>26, <2>1 DEF Unmoved, Held, LocallyResolved, StopAnswers, memoryVars
    <3> QED BY <3>1, RecordStays DEF RecordInv
  <2>2. CASE ~BlockWork(p)
    <3>1. Persists(p) /\ p \in alive /\ UNCHANGED <<retries, record, failed, alive, sent, future>>
      BY <1>26, <2>2 DEF StopAnswers, At
    <3>2. PICK over : place' = [u \in Tasks |-> IF <<u, "own">> \in over THEN "none" ELSE KeepsChecks(p)[u]]
      BY <1>26, <2>2 DEF StopAnswers
    <3>3. ASSUME NEW q \in Procs, q # p PROVE Unmoved(q)
      <4>1. wrote'[q] = wrote[q] /\ pending'[q] = pending[q] /\ writing'[q] = writing[q]
        BY <3>1, <3>3, PersistsDoes DEF TypeInv
      <4>2. \A u \in Tasks : u \in sent[q] => place'[u] \in {"none", place[u]}
        BY <3>2, <3>3 DEF KeepsChecks, FactsInv, OwnTasks
      <4> QED BY <3>1, <4>1, <4>2 DEF Unmoved, Held, LocallyResolved, TypeInv, TasksTyped
    <3>4. RecordOf(p)'
      BY <3>1, RecordDecided DEF RecordInv
    <3> QED BY <3>3, <3>4, RecordStays DEF RecordInv
  <2> QED BY <2>1, <2>2
<1>27. ASSUME NEW p \in Procs, StopGivesUp(p) PROVE RecordInv'
  <2>1. \A q \in Procs : Unmoved(q)
    BY <1>27 DEF Unmoved, Held, LocallyResolved, TypeInv, TasksTyped, FactsInv, OwnTasks, StopGivesUp, taskVars,
        memoryVars, writeVars
  <2> QED BY <2>1, RecordStays DEF RecordInv
<1>28. ASSUME UNCHANGED vars PROVE RecordInv'
  BY <1>28, RecordStays DEF RecordInv, Unmoved, Held, LocallyResolved, vars, checkVars, taskVars, memoryVars,
      writeVars
<1> QED BY <1>1, <1>2, <1>3, <1>4, <1>5, <1>6, <1>7, <1>8, <1>9, <1>10, <1>11, <1>12, <1>13, <1>14, <1>15,
            <1>16, <1>17, <1>18, <1>19, <1>20, <1>21, <1>22, <1>23, <1>24, <1>25, <1>26, <1>27, <1>28 DEF Next,
            ServiceSteps, FutureSteps, Writes, StopSteps

(* Only a write that lands changes the record.                             *)
LEMMA RecordMoves ==
  ASSUME Next, record' # record
  PROVE  \E p \in Procs : WriteLands(p)
<1>1. ASSUME NEW t \in Tasks, Taken(t), UNCHANGED stop PROVE \E x \in Procs : WriteLands(x)
  BY <1>1 DEF Taken, serviceOnly, memoryVars, writeVars
<1>2. ASSUME NEW t \in Tasks, StartBlock(t), UNCHANGED stop PROVE \E x \in Procs : WriteLands(x)
  BY <1>2 DEF StartBlock, serviceOnly, memoryVars, writeVars
<1>3. ASSUME NEW t \in Tasks, Runs(t), UNCHANGED stop PROVE \E x \in Procs : WriteLands(x)
  BY <1>3 DEF Runs, serviceOnly, memoryVars, writeVars
<1>4. ASSUME NEW t \in Tasks, GivesUp(t), UNCHANGED stop PROVE \E x \in Procs : WriteLands(x)
  BY <1>4 DEF GivesUp, serviceOnly, memoryVars, writeVars
<1>5. ASSUME NEW t \in Tasks, PilotEnds(t), UNCHANGED stop PROVE \E x \in Procs : WriteLands(x)
  BY <1>5 DEF PilotEnds, serviceOnly, memoryVars, writeVars
<1>6. ASSUME NEW t \in Tasks, NoIdBound(t) PROVE \E x \in Procs : WriteLands(x)
  BY <1>6 DEF NoIdBound, memoryVars, writeVars
<1>7. ASSUME NEW p \in Procs, NEW t \in Tasks, SendCheck(p, t), UNCHANGED stop
      PROVE  \E x \in Procs : WriteLands(x)
  BY <1>7 DEF SendCheck, Sends, writeStep, memoryVars, writeVars
<1>8. ASSUME NEW p \in Procs, NEW t \in Tasks, SendCommand(p, t), UNCHANGED stop
      PROVE  \E x \in Procs : WriteLands(x)
  BY <1>8 DEF SendCommand, Sends, writeStep, memoryVars, writeVars
<1>9. ASSUME NEW p \in Procs, NEW t \in Tasks, IdSeen(p, t), UNCHANGED stop PROVE \E x \in Procs : WriteLands(x)
  BY <1>9 DEF IdSeen, memoryVars, writeVars
<1>10. ASSUME NEW p \in Procs, NEW t \in Tasks, Refused(p, t), UNCHANGED stop
      PROVE  \E x \in Procs : WriteLands(x)
  BY <1>10 DEF Refused, futureStep, writeStep, memoryVars, writeVars
<1>11. ASSUME NEW p \in Procs, NEW t \in Tasks, Unclear(p, t), UNCHANGED stop
      PROVE  \E x \in Procs : WriteLands(x)
  BY <1>11 DEF Unclear, futureStep, writeStep, memoryVars, writeVars
<1>12. ASSUME NEW p \in Procs, NEW t \in Tasks, Breaks(p, t), UNCHANGED stop PROVE \E x \in Procs : WriteLands(x)
  BY <1>12 DEF Breaks, futureStep, writeStep, memoryVars, writeVars
<1>13. ASSUME NEW p \in Procs, NEW t \in Tasks, ResultArrives(p, t) PROVE \E x \in Procs : WriteLands(x)
  BY <1>13 DEF ResultArrives, Delivered, futureStep, writeStep, memoryVars, writeVars
<1>14. ASSUME NEW p \in Procs, WatchIds(p), UNCHANGED stop PROVE \E x \in Procs : WriteLands(x)
  BY <1>14 DEF WatchIds, taskVars, writeStep, memoryVars, writeVars
<1>15. ASSUME NEW p \in Procs, WriteLands(p), UNCHANGED stop PROVE \E x \in Procs : WriteLands(x)
  BY <1>15
<1>16. ASSUME NEW p \in Procs, WriteFails(p), UNCHANGED stop PROVE \E x \in Procs : WriteLands(x)
  BY <1>16 DEF WriteFails, taskVars, memoryVars, writeVars
<1>17. ASSUME NEW p \in Procs, NEW job \in retries[p], RetryFires(p, job), UNCHANGED stop
      PROVE  \E x \in Procs : WriteLands(x)
  BY <1>17 DEF RetryFires, taskVars, memoryVars, writeVars
<1>18. ASSUME NEW p \in Procs, Rebinds(p) PROVE \E x \in Procs : WriteLands(x)
  BY <1>18 DEF Rebinds, Rebind, writeStep, memoryVars, writeVars
<1>19. ASSUME NEW p \in Procs, Dies(p) PROVE \E x \in Procs : WriteLands(x)
  BY <1>19 DEF Dies, Crash, memoryVars, writeVars
<1>20. ASSUME NEW p \in Procs, StopReads(p) PROVE \E x \in Procs : WriteLands(x)
  BY <1>20 DEF StopReads, taskVars, memoryVars, writeVars
<1>21. ASSUME NEW p \in Procs, StopLooks(p) PROVE \E x \in Procs : WriteLands(x)
  BY <1>21 DEF StopLooks, taskVars, memoryVars, writeVars
<1>22. ASSUME NEW p \in Procs, NEW unread \in SUBSET DOMAIN stop[p].states, StopAsks(p, unread)
      PROVE  \E x \in Procs : WriteLands(x)
  BY <1>22 DEF StopAsks, taskVars, memoryVars, writeVars
<1>23. ASSUME NEW p \in Procs, ReleaseEnds(p) PROVE \E x \in Procs : WriteLands(x)
  BY <1>23 DEF ReleaseEnds, serviceOnly, memoryVars, writeVars
<1>24. ASSUME NEW p \in Procs, ReleaseFails(p) PROVE \E x \in Procs : WriteLands(x)
  BY <1>24 DEF ReleaseFails, memoryVars, writeVars
<1>25. ASSUME NEW p \in Procs, NEW unread \in SUBSET DOMAIN stop[p].states, Looks(p, unread)
      PROVE  \E x \in Procs : WriteLands(x)
  BY <1>25 DEF Looks, taskVars, memoryVars, writeVars
<1>26. ASSUME NEW p \in Procs, StopAnswers(p) PROVE \E x \in Procs : WriteLands(x)
  BY <1>26 DEF StopAnswers, memoryVars, writeVars
<1>27. ASSUME NEW p \in Procs, StopGivesUp(p) PROVE \E x \in Procs : WriteLands(x)
  BY <1>27 DEF StopGivesUp, taskVars, memoryVars, writeVars
<1>28. ASSUME UNCHANGED vars PROVE \E x \in Procs : WriteLands(x)
  BY <1>28 DEF vars, checkVars, taskVars, memoryVars, writeVars
<1> QED BY <1>1, <1>2, <1>3, <1>4, <1>5, <1>6, <1>7, <1>8, <1>9, <1>10, <1>11, <1>12, <1>13, <1>14, <1>15,
            <1>16, <1>17, <1>18, <1>19, <1>20, <1>21, <1>22, <1>23, <1>24, <1>25, <1>26, <1>27, <1>28 DEF Next,
            ServiceSteps, FutureSteps, Writes, StopSteps

(* The invariants of the tasks, of what is seen, and of the record.        *)
LEMMA Records == NoIdIsOver => (Spec => [](TypeInv /\ FactsInv /\ SeenInv /\ RecordInv))
<1> SUFFICES ASSUME NoIdIsOver PROVE Spec => [](TypeInv /\ FactsInv /\ SeenInv /\ RecordInv)
  OBVIOUS
<1>1. Init => TypeInv /\ FactsInv /\ SeenInv /\ RecordInv
  BY TypesInit, FactsInit, SeenInit, RecordInit
<1>2. TypeInv /\ FactsInv /\ SeenInv /\ RecordInv /\ [Next]_vars
      => (TypeInv /\ FactsInv /\ SeenInv /\ RecordInv)'
  <2> SUFFICES ASSUME TypeInv, FactsInv, SeenInv, RecordInv, [Next]_vars
               PROVE  (TypeInv /\ FactsInv /\ SeenInv /\ RecordInv)'
    OBVIOUS
  <2>1. TypeInv' /\ Onward /\ FactsInv'
    BY TypesKept, FactsKept
  <2>2. SeenInv'
    BY <2>1, SeenSteps, SeenGoes
  <2>3. RecordInv'
    BY <2>1, <2>2, RecordGoes
  <2> QED BY <2>1, <2>2, <2>3
<1> QED BY <1>1, <1>2, PTL DEF Spec

(* While no write of a server failed, the record has every task of its own *)
(* that can still start a block and is not known finished, once its writes *)
(* are done: whatever the other servers write, and however many writes     *)
(* replaced one another while one was on the thread.                       *)
THEOREM RecordKeepsOwn == NoIdIsOver => (Spec => []RecordKept)
<1> SUFFICES ASSUME NoIdIsOver PROVE Spec => []RecordKept
  OBVIOUS
<1>1. TypeInv /\ RecordInv => RecordKept
  <2> SUFFICES ASSUME TypeInv, RecordInv, failed = {}, NEW p \in alive, pending[p] = {}, writing[p] = {},
                      NEW t \in Held(p), ~LocallyResolved(t), CanStart(t)
               PROVE  \E id \in {"id", "no_id"} : <<t, id>> \in record
    BY DEF RecordKept, RecordCovers
  <2>1. p \in Procs /\ t \in Tasks
    BY DEF TypeInv, MemoryTyped, TasksTyped, Held
  <2>2. StillListed(p) /\ OnDisk(p)
    BY <2>1 DEF RecordInv, RecordOf
  <2>3. Listed(t, wrote[p].rows)
    BY <2>1, <2>2 DEF StillListed, Intended
  <2>4. \A id : <<t, id>> \in wrote[p].rows => <<t, id>> \in record
    BY <2>2 DEF OnDisk
  <2> QED BY <2>3, <2>4 DEF Listed
<1> QED BY <1>1, Records, PTL

(* No write takes off the record the row of a dead server's task that can  *)
(* still start a block: also a write that failed and is tried again, or    *)
(* one that waited behind others.                                          *)
THEOREM DeadRowsStay == NoIdIsOver => (Spec => DeadRowsKept)
<1> SUFFICES ASSUME NoIdIsOver PROVE Spec => DeadRowsKept
  OBVIOUS
<1>1. TypeInv /\ RecordInv /\ [Next]_vars =>
        [\A row \in record \ record' : (\A p \in alive : row[1] \notin sent[p]) => ~CanStart(row[1])]_vars
  <2> SUFFICES ASSUME TypeInv, RecordInv, Next, NEW row \in record \ record', \A p \in alive : row[1] \notin sent[p]
               PROVE  ~CanStart(row[1])
    OBVIOUS
  <2>1. PICK p \in Procs : WriteLands(p)
    BY RecordMoves
  <2>2. PICK w \in writing[p] : record' = Merged(record, w.rows, w.drop)
    BY <2>1 DEF WriteLands
  <2>3. p \in alive
    BY <2>2 DEF RecordInv, RecordOf, NoneLeftOver
  <2>4. row \in w.drop
    BY <2>2 DEF Merged
  <2>5. row[1] \in sent[p] \/ Over(row[1])
    BY <2>2, <2>4 DEF RecordInv, RecordOf, WrittenOwn
  <2> QED BY <2>3, <2>5 DEF Over
<1> QED BY <1>1, Records, PTL DEF Spec, DeadRowsKept

-----------------------------------------------------------------------------
(* A `down`: no block is up that a task of the stop's started, and none    *)
(* can start.  The blocks are gone when the last cancel ends; what starts  *)
(* one after it is still queued, or has run and is seen.                   *)

(* A task its sender keeps nowhere is over; none runs adrift.              *)
PlacesFit ==
  \A p \in alive : \A t \in sent[p] : place[t] # "adrift" /\ (place[t] = "none" => Over(t))
(* A task a stop lists by its future is its server's own.                  *)
OwnItems == \A p \in Procs : \A i \in DOMAIN stop[p].states : i[2] = "own" => i[1] \in sent[p]

(* The last cancel of the stop has ended, and worked.                      *)
Calm(p) == stop[p].at \in {"released", "settling"} /\ stop[p].confirmed

(* After the last cancel: a block that is up is of a task that was queued. *)
StartedSince(p) ==
  Calm(p) => \A t \in Tasks : pilot[t] = "up" => t \notin bounded /\ service[t] \in {"queued", "ran"}
(* A task that answered was over before it, unless the stop saw the answer. *)
AnswersSeen(p) ==
  Calm(p) /\ ~stop[p].answered =>
    \A t \in sent[p] : future[t] = "ok" \/ place[t] = "none" => pilot[t] # "up"
(* A task looked up as final has no block, or one more cancel follows.     *)
LooksSeen(p) ==
  Calm(p) /\ stop[p].at = "settling" =>
    \A i \in DOMAIN stop[p].states :
      IF stop[p].extra THEN stop[p].states[i] \in Done => pilot[i[1]] # "up"
      ELSE stop[p].states[i] # "ok"
(* A row the stop read is its own, is listed, or was over when it looked.  *)
RowsSeen(p) ==
  stop[p].at \in {"asking", "cancelling", "released", "settling"} =>
    \A row \in stop[p].rows :
      \/ row[1] \in sent[p]
      \/ \E i \in DOMAIN stop[p].states : i[1] = row[1]
      \/ Over(row[1]) /\ (Calm(p) => pilot[row[1]] # "up")

(* What holds of one stop.                                                 *)
QuietOf(p) ==
  /\ stop[p].at # "idle" => p \in alive
  /\ StartedSince(p) /\ AnswersSeen(p) /\ LooksSeen(p) /\ RowsSeen(p)
DownInv == PlacesFit /\ OwnItems /\ \A p \in Procs : QuietOf(p)

(* A stop that a step leaves where it is, and what the step may do.        *)
Still(p) ==
  /\ stop'[p].at = stop[p].at /\ stop'[p].confirmed = stop[p].confirmed /\ stop'[p].extra = stop[p].extra
  /\ stop'[p].states = stop[p].states /\ stop'[p].rows = stop[p].rows
  /\ p \in alive /\ stop[p].at # "idle" => p \in alive'
  /\ Calm(p) =>
       /\ stop[p].answered => stop'[p].answered
       /\ bounded' = bounded
       /\ \A t \in Tasks : pilot'[t] = "up" =>
            \/ pilot[t] = "up" /\ (service[t] \in {"queued", "ran"} => service'[t] \in {"queued", "ran"})
            \/ pilot[t] # "up" /\ service[t] = "queued" /\ service'[t] = "queued" /\ CanStart(t)
       /\ \A t \in Tasks :
            t \in sent'[p] /\ (future'[t] = "ok" \/ place'[t] = "none") /\ pilot'[t] = "up" =>
              stop'[p].answered \/ (t \in sent[p] /\ (future[t] = "ok" \/ place[t] = "none"))

(* A stop left where it is keeps all of it.                                *)
LEMMA QuietStays ==
  ASSUME TypeInv, FactsInv, SeenInv, Onward, TypeInv', PlacesFit, NEW p \in Procs, QuietOf(p), Still(p)
  PROVE  QuietOf(p)'
<1>1. Calm(p)' <=> Calm(p)
  BY DEF Calm, Still
<1>2. ASSUME Calm(p), NEW t \in Tasks, pilot'[t] = "up", pilot[t] # "up" PROVE ~Over(t) /\ service[t] = "queued"
  BY <1>2 DEF Still, Over
<1>3. (stop[p].at # "idle" => p \in alive)'
  BY DEF QuietOf, Still
<1>4. StartedSince(p)'
  BY <1>1, <1>2 DEF StartedSince, QuietOf, Still, FactsInv, BoundedOver
<1>5. AnswersSeen(p)'
  <2> SUFFICES ASSUME Calm(p), ~stop'[p].answered, NEW t \in sent'[p], future'[t] = "ok" \/ place'[t] = "none",
                      pilot'[t] = "up"
               PROVE  FALSE
    BY <1>1 DEF AnswersSeen
  <2>1. t \in Tasks
    BY DEF TypeInv, TasksTyped
  <2>2. t \in sent[p] /\ (future[t] = "ok" \/ place[t] = "none") /\ ~stop[p].answered
    BY <2>1 DEF Still
  <2>3. pilot[t] # "up"
    BY <2>2 DEF QuietOf, AnswersSeen
  <2>4. ~Over(t) /\ service[t] = "queued" /\ p \in alive
    BY <1>2, <2>1, <2>3 DEF QuietOf, Calm
  <2> QED BY <2>1, <2>2, <2>4 DEF PlacesFit, FactsInv, FuturesTrue
<1>6. LooksSeen(p)'
  <2> SUFFICES ASSUME Calm(p), stop[p].at = "settling", NEW i \in DOMAIN stop[p].states
               PROVE  IF stop[p].extra THEN stop[p].states[i] \in Done => pilot'[i[1]] # "up"
                      ELSE stop[p].states[i] # "ok"
    BY <1>1 DEF LooksSeen, Still
  <2>1. i[1] \in Tasks
    BY ItemTask, ShapeOf DEF TypeInv, StopTyped, Stops
  <2>2. stop[p].states[i] \in Done => Over(i[1])
    BY <2>1, DoneIsOver DEF SeenInv, StatesTrue
  <2> QED BY <1>2, <2>1, <2>2 DEF QuietOf, LooksSeen
<1>7. RowsSeen(p)'
  <2> SUFFICES ASSUME stop[p].at \in {"asking", "cancelling", "released", "settling"}, NEW row \in stop[p].rows
               PROVE  \/ row[1] \in sent'[p]
                      \/ \E i \in DOMAIN stop[p].states : i[1] = row[1]
                      \/ Over(row[1])' /\ (Calm(p) => pilot'[row[1]] # "up")
    BY <1>1 DEF RowsSeen, Still
  <2>1. PICK t \in Tasks : t = row[1]
    BY DEF TypeInv, StopTyped, Stops, Rows
  <2>2. \/ t \in sent[p]
        \/ \E i \in DOMAIN stop[p].states : i[1] = t
        \/ Over(t) /\ (Calm(p) => pilot[t] # "up")
    BY <2>1 DEF QuietOf, RowsSeen
  <2>3. Over(t) /\ (Calm(p) => pilot[t] # "up") => Over(t)' /\ (Calm(p) => pilot'[t] # "up")
    BY <1>2 DEF Onward
  <2> QED BY <2>1, <2>2, <2>3 DEF Onward
<1> QED BY <1>3, <1>4, <1>5, <1>6, <1>7 DEF QuietOf

(* The rows a stop read, while it goes on.                                 *)
RowsStay(p) ==
  /\ stop[p].at \in {"asking", "cancelling", "released", "settling"}
  /\ stop'[p].rows = stop[p].rows /\ DOMAIN stop'[p].states = DOMAIN stop[p].states
  /\ Calm(p)' => (Calm(p) /\ UNCHANGED pilot) \/ \A t \in Tasks : pilot'[t] # "up"

(* A stop that goes on keeps what it says of the rows.                     *)
LEMMA RowsGo ==
  ASSUME TypeInv, Onward, NEW p \in Procs, QuietOf(p), RowsStay(p)
  PROVE  RowsSeen(p)'
<1> SUFFICES ASSUME NEW row \in stop[p].rows
             PROVE  \/ row[1] \in sent'[p]
                    \/ \E i \in DOMAIN stop[p].states : i[1] = row[1]
                    \/ Over(row[1])' /\ (Calm(p)' => pilot'[row[1]] # "up")
  BY DEF RowsSeen, RowsStay
<1>1. PICK t \in Tasks : t = row[1]
  BY DEF TypeInv, StopTyped, Stops, Rows
<1>2. \/ t \in sent[p]
      \/ \E i \in DOMAIN stop[p].states : i[1] = t
      \/ Over(t) /\ (Calm(p) => pilot[t] # "up")
  BY <1>1 DEF QuietOf, RowsSeen, RowsStay
<1>3. Over(t) /\ (Calm(p) => pilot[t] # "up") => Over(t)' /\ (Calm(p)' => pilot'[t] # "up")
  BY DEF Onward, RowsStay
<1> QED BY <1>1, <1>2, <1>3 DEF Onward

(* A runner that is closed forgets only what is over.                      *)
LEMMA KeptPlaces ==
  ASSUME TypeInv, FactsInv, Onward, PlacesFit, NEW p \in Procs, UNCHANGED <<sent, alive>>,
         \A t \in Tasks : place'[t] = KeepsChecks(p)[t] \/ (place'[t] = "none" /\ Over(t))
  PROVE  PlacesFit'
<1> SUFFICES ASSUME NEW q \in alive, NEW t \in sent[q]
             PROVE  place'[t] # "adrift" /\ (place'[t] = "none" => Over(t)')
  BY DEF PlacesFit
<1>1. t \in Tasks /\ place[t] # "adrift" /\ (place[t] = "none" => Over(t))
  BY DEF PlacesFit, TypeInv, TasksTyped, MemoryTyped
<1>2. ASSUME t \in sent[p], place[t] = "current", t \notin CurrentChecks(p) PROVE Over(t)
  BY <1>1, <1>2 DEF CurrentChecks, Held, FactsInv, FuturesTrue, Over, CanStart
<1>3. KeepsChecks(p)[t] \in {"kept", "none", place[t]} /\ (KeepsChecks(p)[t] = "none" => place[t] = "none" \/ Over(t))
  BY <1>1, <1>2 DEF KeepsChecks
<1>4. place'[t] # "adrift" /\ (place'[t] = "none" => Over(t))
  BY <1>1, <1>3
<1> QED BY <1>1, <1>4 DEF Onward

(* A stop's answer leaves the tasks of the others where they are.          *)
LEMMA OthersPlaces ==
  ASSUME TypeInv, FactsInv, OwnItems, NEW p \in Procs, StopAnswers(p), NEW q \in Procs, q # p
  PROVE  \A t \in Tasks : t \in sent[q] => place'[t] = place[t]
<1>1. CASE BlockWork(p)
  BY <1>1 DEF StopAnswers
<1>2. CASE ~BlockWork(p)
  <2>1. PICK gone \in {{}, Evidence(p)} :
          LET states == WithLost(stop[p].states, gone) IN
          LET over == {i \in DOMAIN states : states[i] \in Done} IN
          place' = [t \in Tasks |-> IF <<t, "own">> \in over THEN "none" ELSE KeepsChecks(p)[t]]
    BY <1>2 DEF StopAnswers
  <2> DEFINE states == WithLost(stop[p].states, gone)
             over == {i \in DOMAIN states : states[i] \in Done}
  <2>2. over \subseteq DOMAIN stop[p].states
    BY DEF WithLost
  <2>3. place' = [t \in Tasks |-> IF <<t, "own">> \in over THEN "none" ELSE KeepsChecks(p)[t]]
    BY <2>1
  <2> HIDE DEF over, states
  <2>4. ASSUME NEW t \in Tasks, t \in sent[q] PROVE place'[t] = place[t]
    <3>1. t \notin sent[p]
      BY <2>4 DEF FactsInv, OwnTasks
    <3>2. <<t, "own">> \notin over
      BY <2>2, <3>1 DEF OwnItems
    <3> QED BY <2>3, <3>1, <3>2 DEF KeepsChecks
  <2> QED BY <2>4
<1> QED BY <1>1, <1>2

(* None of the ways in which a `down` is known to be untrue is exercised.  *)
NoGaps == Gaps = {}

(* At the start.                                                           *)
LEMMA DownInit == Init => DownInv
<1> SUFFICES ASSUME Init PROVE DownInv
  OBVIOUS
<1>1. \A p \in Procs : stop[p].at = "idle" /\ DOMAIN stop[p].states = {} /\ sent[p] = {}
  BY DEF Init, InitChecks, Idle, NoItems
<1>2. alive = Procs
  BY DEF Init, InitChecks
<1> QED BY <1>1, <1>2 DEF DownInv, PlacesFit, OwnItems, QuietOf, Calm, StartedSince, AnswersSeen, LooksSeen,
            RowsSeen

(* Every step keeps the places ..                                          *)
LEMMA PlacesKept ==
  ASSUME NoGaps, TypeInv, FactsInv, SeenInv, PlacesFit, Onward, FactsInv', [Next]_vars
  PROVE  PlacesFit'
<1>1. ASSUME NEW t \in Tasks, Taken(t), UNCHANGED stop PROVE PlacesFit'
  BY <1>1 DEF PlacesFit, Onward, TypeInv, TasksTyped, MemoryTyped, Taken, serviceOnly, memoryVars, writeVars
<1>2. ASSUME NEW t \in Tasks, StartBlock(t), UNCHANGED stop PROVE PlacesFit'
  BY <1>2 DEF PlacesFit, Onward, TypeInv, TasksTyped, MemoryTyped, StartBlock, serviceOnly, memoryVars,
      writeVars
<1>3. ASSUME NEW t \in Tasks, Runs(t), UNCHANGED stop PROVE PlacesFit'
  BY <1>3 DEF PlacesFit, Onward, TypeInv, TasksTyped, MemoryTyped, Runs, serviceOnly, memoryVars, writeVars
<1>4. ASSUME NEW t \in Tasks, GivesUp(t), UNCHANGED stop PROVE PlacesFit'
  BY <1>4 DEF PlacesFit, Onward, TypeInv, TasksTyped, MemoryTyped, GivesUp, serviceOnly, memoryVars, writeVars
<1>5. ASSUME NEW t \in Tasks, PilotEnds(t), UNCHANGED stop PROVE PlacesFit'
  BY <1>5 DEF PlacesFit, Onward, TypeInv, TasksTyped, MemoryTyped, PilotEnds, serviceOnly, memoryVars, writeVars
<1>6. ASSUME NEW t \in Tasks, NoIdBound(t) PROVE PlacesFit'
  BY <1>6 DEF PlacesFit, Onward, TypeInv, TasksTyped, MemoryTyped, NoIdBound, memoryVars, writeVars
<1>7. ASSUME NEW p \in Procs, NEW t \in Tasks, SendCheck(p, t), UNCHANGED stop PROVE PlacesFit'
  BY <1>7 DEF PlacesFit, Onward, TypeInv, TasksTyped, MemoryTyped, SendCheck, Sends, writeStep, memoryVars,
      writeVars, FactsInv, OwnTasks
<1>8. ASSUME NEW p \in Procs, NEW t \in Tasks, SendCommand(p, t), UNCHANGED stop PROVE PlacesFit'
  BY <1>8 DEF PlacesFit, Onward, TypeInv, TasksTyped, MemoryTyped, SendCommand, Sends, writeStep, memoryVars,
      writeVars, FactsInv, OwnTasks
<1>9. ASSUME NEW p \in Procs, NEW t \in Tasks, IdSeen(p, t), UNCHANGED stop PROVE PlacesFit'
  BY <1>9 DEF PlacesFit, Onward, TypeInv, TasksTyped, MemoryTyped, IdSeen, memoryVars, writeVars
<1>10. ASSUME NEW p \in Procs, NEW t \in Tasks, Refused(p, t), UNCHANGED stop PROVE PlacesFit'
  BY <1>10 DEF PlacesFit, Onward, TypeInv, TasksTyped, MemoryTyped, Refused, futureStep, writeStep, memoryVars,
      writeVars, Over, CanStart
<1>11. ASSUME NEW p \in Procs, NEW t \in Tasks, Unclear(p, t), UNCHANGED stop PROVE PlacesFit'
  BY <1>11 DEF PlacesFit, Onward, TypeInv, TasksTyped, MemoryTyped, Unclear, futureStep, writeStep, memoryVars,
      writeVars, NoGaps
<1>12. ASSUME NEW p \in Procs, NEW t \in Tasks, Breaks(p, t), UNCHANGED stop PROVE PlacesFit'
  BY <1>12 DEF PlacesFit, Onward, TypeInv, TasksTyped, MemoryTyped, Breaks, futureStep, writeStep, memoryVars,
      writeVars
<1>13. ASSUME NEW p \in Procs, NEW t \in Tasks, ResultArrives(p, t) PROVE PlacesFit'
  BY <1>13 DEF PlacesFit, Onward, TypeInv, TasksTyped, MemoryTyped, ResultArrives, Delivered, futureStep,
      writeStep, memoryVars, writeVars, Over, CanStart
<1>14. ASSUME NEW p \in Procs, WatchIds(p), UNCHANGED stop PROVE PlacesFit'
  BY <1>14 DEF PlacesFit, Onward, TypeInv, TasksTyped, MemoryTyped, WatchIds, taskVars, writeStep, memoryVars,
      writeVars
<1>15. ASSUME NEW p \in Procs, WriteLands(p), UNCHANGED stop PROVE PlacesFit'
  BY <1>15 DEF PlacesFit, Onward, TypeInv, TasksTyped, MemoryTyped, WriteLands, taskVars, memoryVars, writeVars
<1>16. ASSUME NEW p \in Procs, WriteFails(p), UNCHANGED stop PROVE PlacesFit'
  BY <1>16 DEF PlacesFit, Onward, TypeInv, TasksTyped, MemoryTyped, WriteFails, taskVars, memoryVars, writeVars
<1>17. ASSUME NEW p \in Procs, NEW job \in retries[p], RetryFires(p, job), UNCHANGED stop PROVE PlacesFit'
  BY <1>17 DEF PlacesFit, Onward, TypeInv, TasksTyped, MemoryTyped, RetryFires, taskVars, memoryVars, writeVars
<1>18. ASSUME NEW p \in Procs, Rebinds(p) PROVE PlacesFit'
  <2>1. /\ \A u \in Tasks : place'[u] = KeepsChecks(p)[u] \/ (u \in sent[p] /\ place[u] = "inflight")
        /\ \A u \in Held(p) : place[u] # "inflight"
        /\ UNCHANGED <<sent, alive>>
    BY <1>18 DEF Rebinds, Rebind, NoGaps
  <2>2. \A u \in Tasks : place'[u] = KeepsChecks(p)[u]
    BY <2>1 DEF Held
  <2> QED BY <2>1, <2>2, KeptPlaces
<1>19. ASSUME NEW p \in Procs, Dies(p) PROVE PlacesFit'
  BY <1>19 DEF PlacesFit, Onward, TypeInv, TasksTyped, MemoryTyped, Dies, Crash, memoryVars, writeVars,
      FactsInv,
      OwnTasks
<1>20. ASSUME NEW p \in Procs, StopReads(p) PROVE PlacesFit'
  BY <1>20 DEF PlacesFit, Onward, TypeInv, TasksTyped, MemoryTyped, StopReads, taskVars, memoryVars, writeVars
<1>21. ASSUME NEW p \in Procs, StopLooks(p) PROVE PlacesFit'
  BY <1>21 DEF PlacesFit, Onward, TypeInv, TasksTyped, MemoryTyped, StopLooks, taskVars, memoryVars, writeVars
<1>22. ASSUME NEW p \in Procs, NEW unread \in SUBSET DOMAIN stop[p].states, StopAsks(p, unread) PROVE PlacesFit'
  BY <1>22 DEF PlacesFit, Onward, TypeInv, TasksTyped, MemoryTyped, StopAsks, taskVars, memoryVars, writeVars
<1>23. ASSUME NEW p \in Procs, ReleaseEnds(p) PROVE PlacesFit'
  BY <1>23 DEF PlacesFit, Onward, TypeInv, TasksTyped, MemoryTyped, ReleaseEnds, serviceOnly, memoryVars,
      writeVars
<1>24. ASSUME NEW p \in Procs, ReleaseFails(p) PROVE PlacesFit'
  BY <1>24 DEF PlacesFit, Onward, TypeInv, TasksTyped, MemoryTyped, ReleaseFails, memoryVars, writeVars
<1>25. ASSUME NEW p \in Procs, NEW unread \in SUBSET DOMAIN stop[p].states, Looks(p, unread) PROVE PlacesFit'
  BY <1>25 DEF PlacesFit, Onward, TypeInv, TasksTyped, MemoryTyped, Looks, taskVars, memoryVars, writeVars
<1>26. ASSUME NEW p \in Procs, StopAnswers(p) PROVE PlacesFit'
  <2>1. UNCHANGED <<sent, alive>>
    BY <1>26 DEF StopAnswers
  <2>2. CASE BlockWork(p)
    BY <1>26, <2>1, <2>2 DEF StopAnswers, PlacesFit, Onward, TypeInv, TasksTyped, MemoryTyped
  <2>3. CASE ~BlockWork(p)
    <3>1. PICK gone \in {{}, Evidence(p)} :
            LET states == WithLost(stop[p].states, gone) IN
            LET over == {i \in DOMAIN states : states[i] \in Done} IN
            place' = [u \in Tasks |-> IF <<u, "own">> \in over THEN "none" ELSE KeepsChecks(p)[u]]
      BY <1>26, <2>3 DEF StopAnswers
    <3> DEFINE states == WithLost(stop[p].states, gone)
               over == {i \in DOMAIN states : states[i] \in Done}
    <3>2. DOMAIN states \subseteq Items /\ \A i \in DOMAIN states : StateTrue(i[1], states[i])
      BY LostTrue, ShapeOf DEF SeenInv, TypeInv, StopTyped, Stops
    <3>3. place' = [u \in Tasks |-> IF <<u, "own">> \in over THEN "none" ELSE KeepsChecks(p)[u]]
      BY <3>1
    <3> HIDE DEF states
    <3>4. \A i \in over : Over(i[1])
      BY <3>2, ItemTask, DoneIsOver
    <3> HIDE DEF over
    <3>5. ASSUME NEW u \in Tasks PROVE place'[u] = KeepsChecks(p)[u] \/ (place'[u] = "none" /\ Over(u))
      <4>1. <<u, "own">> \in over => Over(u)
        BY <3>4
      <4> QED BY <3>3, <4>1
    <3> QED BY <2>1, <3>5, KeptPlaces
  <2> QED BY <2>2, <2>3
<1>27. ASSUME NEW p \in Procs, StopGivesUp(p) PROVE PlacesFit'
  BY <1>27 DEF PlacesFit, Onward, TypeInv, TasksTyped, MemoryTyped, StopGivesUp, taskVars, memoryVars, writeVars
<1>28. ASSUME UNCHANGED vars PROVE PlacesFit'
  BY <1>28 DEF PlacesFit, Over, CanStart, vars, checkVars, taskVars, memoryVars, writeVars
<1> QED BY <1>1, <1>2, <1>3, <1>4, <1>5, <1>6, <1>7, <1>8, <1>9, <1>10, <1>11, <1>12, <1>13, <1>14, <1>15,
            <1>16, <1>17, <1>18, <1>19, <1>20, <1>21, <1>22, <1>23, <1>24, <1>25, <1>26, <1>27, <1>28 DEF Next,
            ServiceSteps, FutureSteps, Writes, StopSteps

(* .. what the stops list ..                                               *)
LEMMA ItemsKept ==
  ASSUME TypeInv, OwnItems, Onward, [Next]_vars
  PROVE  OwnItems'
<1>1. ASSUME NEW t \in Tasks, Taken(t), UNCHANGED stop PROVE OwnItems'
  BY <1>1 DEF OwnItems, Onward, Taken, serviceOnly, memoryVars, writeVars
<1>2. ASSUME NEW t \in Tasks, StartBlock(t), UNCHANGED stop PROVE OwnItems'
  BY <1>2 DEF OwnItems, Onward, StartBlock, serviceOnly, memoryVars, writeVars
<1>3. ASSUME NEW t \in Tasks, Runs(t), UNCHANGED stop PROVE OwnItems'
  BY <1>3 DEF OwnItems, Onward, Runs, serviceOnly, memoryVars, writeVars
<1>4. ASSUME NEW t \in Tasks, GivesUp(t), UNCHANGED stop PROVE OwnItems'
  BY <1>4 DEF OwnItems, Onward, GivesUp, serviceOnly, memoryVars, writeVars
<1>5. ASSUME NEW t \in Tasks, PilotEnds(t), UNCHANGED stop PROVE OwnItems'
  BY <1>5 DEF OwnItems, Onward, PilotEnds, serviceOnly, memoryVars, writeVars
<1>6. ASSUME NEW t \in Tasks, NoIdBound(t) PROVE OwnItems'
  BY <1>6 DEF OwnItems, Onward, NoIdBound, memoryVars, writeVars
<1>7. ASSUME NEW p \in Procs, NEW t \in Tasks, SendCheck(p, t), UNCHANGED stop PROVE OwnItems'
  BY <1>7 DEF OwnItems, Onward, SendCheck, Sends, writeStep, memoryVars, writeVars
<1>8. ASSUME NEW p \in Procs, NEW t \in Tasks, SendCommand(p, t), UNCHANGED stop PROVE OwnItems'
  BY <1>8 DEF OwnItems, Onward, SendCommand, Sends, writeStep, memoryVars, writeVars
<1>9. ASSUME NEW p \in Procs, NEW t \in Tasks, IdSeen(p, t), UNCHANGED stop PROVE OwnItems'
  BY <1>9 DEF OwnItems, Onward, IdSeen, memoryVars, writeVars
<1>10. ASSUME NEW p \in Procs, NEW t \in Tasks, Refused(p, t), UNCHANGED stop PROVE OwnItems'
  BY <1>10 DEF OwnItems, Onward, Refused, futureStep, writeStep, memoryVars, writeVars
<1>11. ASSUME NEW p \in Procs, NEW t \in Tasks, Unclear(p, t), UNCHANGED stop PROVE OwnItems'
  BY <1>11 DEF OwnItems, Onward, Unclear, futureStep, writeStep, memoryVars, writeVars
<1>12. ASSUME NEW p \in Procs, NEW t \in Tasks, Breaks(p, t), UNCHANGED stop PROVE OwnItems'
  BY <1>12 DEF OwnItems, Onward, Breaks, futureStep, writeStep, memoryVars, writeVars
<1>13. ASSUME NEW p \in Procs, NEW t \in Tasks, ResultArrives(p, t) PROVE OwnItems'
  BY <1>13 DEF OwnItems, Onward, TypeInv, StopTyped, Stops, ResultArrives, Delivered, futureStep, writeStep,
      memoryVars, writeVars
<1>14. ASSUME NEW p \in Procs, WatchIds(p), UNCHANGED stop PROVE OwnItems'
  BY <1>14 DEF OwnItems, Onward, WatchIds, taskVars, writeStep, memoryVars, writeVars
<1>15. ASSUME NEW p \in Procs, WriteLands(p), UNCHANGED stop PROVE OwnItems'
  BY <1>15 DEF OwnItems, Onward, WriteLands, taskVars, memoryVars, writeVars
<1>16. ASSUME NEW p \in Procs, WriteFails(p), UNCHANGED stop PROVE OwnItems'
  BY <1>16 DEF OwnItems, Onward, WriteFails, taskVars, memoryVars, writeVars
<1>17. ASSUME NEW p \in Procs, NEW job \in retries[p], RetryFires(p, job), UNCHANGED stop PROVE OwnItems'
  BY <1>17 DEF OwnItems, Onward, RetryFires, taskVars, memoryVars, writeVars
<1>18. ASSUME NEW p \in Procs, Rebinds(p) PROVE OwnItems'
  BY <1>18 DEF OwnItems, Onward, TypeInv, StopTyped, Stops, Rebinds, Rebind, writeStep, memoryVars, writeVars
<1>19. ASSUME NEW p \in Procs, Dies(p) PROVE OwnItems'
  <2>1. (DOMAIN stop'[p].states = DOMAIN stop[p].states \/ DOMAIN stop'[p].states = {}) /\ \A q \in Procs : q # p => stop'[q] = stop[q]
    BY <1>19, IdleTyped, StopSet DEF TypeInv, Dies, Idle, NoItems
  <2> QED BY <2>1 DEF OwnItems, Onward
<1>20. ASSUME NEW p \in Procs, StopReads(p) PROVE OwnItems'
  <2>1. (DOMAIN stop'[p].states = DOMAIN stop[p].states \/ DOMAIN stop'[p].states = {}) /\ \A q \in Procs : q # p => stop'[q] = stop[q]
    <3>1. record \in SUBSET Rows
      BY DEF TypeInv, WritesTyped
    <3>2. /\ [Idle EXCEPT !.at = "looking", !.rows = record].states = NoItems
          /\ [Idle EXCEPT !.at = "looking", !.problem = TRUE].states = NoItems
      BY DEF Idle
    <3>3. PICK s \in Stops : stop' = [stop EXCEPT ![p] = s] /\ s.states = NoItems
      BY <1>20, <3>1, <3>2, StartTyped DEF StopReads
    <3> QED BY <3>3, StopSet DEF TypeInv, NoItems
  <2> QED BY <2>1 DEF OwnItems, Onward
<1>21. ASSUME NEW p \in Procs, StopLooks(p) PROVE OwnItems'
  <2> DEFINE items == Known(p) \cup Strangers(p, stop[p].rows)
  <2>1. \A i \in items : i[2] = "own" => i[1] \in sent[p]
    <3>1. adopted[p] \subseteq Rows /\ Strangers(p, stop[p].rows) \subseteq Rows
      BY StrangersTyped DEF TypeInv, MemoryTyped
    <3> QED BY <3>1 DEF Known, Kept, CurrentChecks, Own, Held, Rows
  <2>2. /\ Answer(p, FALSE) \/ stop'[p].states = [i \in items |-> "unknown"]
        /\ \A q \in Procs : q # p => stop'[q] = stop[q]
    BY <1>21, LooksStart
  <2>3. DOMAIN stop'[p].states = {} \/ stop'[p].states = [i \in items |-> "unknown"]
    BY <2>2, StopAnswered DEF TypeInv
  <2> HIDE DEF items
  <2> QED BY <2>1, <2>2, <2>3 DEF OwnItems, Onward
<1>22. ASSUME NEW p \in Procs, NEW unread \in SUBSET DOMAIN stop[p].states, StopAsks(p, unread) PROVE OwnItems'
  <2>1. (DOMAIN stop'[p].states = DOMAIN stop[p].states \/ DOMAIN stop'[p].states = {}) /\ \A q \in Procs : q # p => stop'[q] = stop[q]
    <3>1. Answer(p, FALSE) \/ stop' = [stop EXCEPT ![p] = Begun(stop[p])]
      BY <1>22 DEF StopAsks
    <3>2. stop[p] \in Stops
      BY DEF TypeInv, StopTyped
    <3>3. CASE Answer(p, FALSE)
      BY <3>3, StopAnswered DEF TypeInv
    <3>4. CASE stop' = [stop EXCEPT ![p] = Begun(stop[p])]
      BY <3>2, <3>4, BegunTyped, StopSet DEF TypeInv
    <3> QED BY <3>1, <3>3, <3>4
  <2> QED BY <2>1 DEF OwnItems, Onward
<1>23. ASSUME NEW p \in Procs, ReleaseEnds(p) PROVE OwnItems'
  <2>1. (DOMAIN stop'[p].states = DOMAIN stop[p].states \/ DOMAIN stop'[p].states = {}) /\ \A q \in Procs : q # p => stop'[q] = stop[q]
    BY <1>23, ReleasedTyped DEF TypeInv, ReleaseEnds
  <2> QED BY <2>1 DEF OwnItems, Onward
<1>24. ASSUME NEW p \in Procs, ReleaseFails(p) PROVE OwnItems'
  <2>1. (DOMAIN stop'[p].states = DOMAIN stop[p].states \/ DOMAIN stop'[p].states = {}) /\ \A q \in Procs : q # p => stop'[q] = stop[q]
    BY <1>24, ReleasedTyped DEF TypeInv, ReleaseFails
  <2> QED BY <2>1 DEF OwnItems, Onward
<1>25. ASSUME NEW p \in Procs, NEW unread \in SUBSET DOMAIN stop[p].states, Looks(p, unread) PROVE OwnItems'
  <2>1. (DOMAIN stop'[p].states = DOMAIN stop[p].states \/ DOMAIN stop'[p].states = {}) /\ \A q \in Procs : q # p => stop'[q] = stop[q]
    <3>1. DOMAIN States(p, DOMAIN stop[p].states, unread) = DOMAIN stop[p].states
      BY StatesTyped, ShapeOf DEF TypeInv, StopTyped, Stops
    <3> QED BY <1>25, <3>1, LooksGo
  <2> QED BY <2>1 DEF OwnItems, Onward
<1>26. ASSUME NEW p \in Procs, StopAnswers(p) PROVE OwnItems'
  <2>1. (DOMAIN stop'[p].states = DOMAIN stop[p].states \/ DOMAIN stop'[p].states = {}) /\ \A q \in Procs : q # p => stop'[q] = stop[q]
    <3>1. PICK down \in BOOLEAN : Answer(p, down)
      BY <1>26 DEF StopAnswers
    <3> QED BY <3>1, StopAnswered DEF TypeInv
  <2> QED BY <2>1 DEF OwnItems, Onward
<1>27. ASSUME NEW p \in Procs, StopGivesUp(p) PROVE OwnItems'
  <2>1. (DOMAIN stop'[p].states = DOMAIN stop[p].states \/ DOMAIN stop'[p].states = {}) /\ \A q \in Procs : q # p => stop'[q] = stop[q]
    BY <1>27, StopAnswered DEF TypeInv, StopGivesUp
  <2> QED BY <2>1 DEF OwnItems, Onward
<1>28. ASSUME UNCHANGED vars PROVE OwnItems'
  BY <1>28 DEF OwnItems, vars, checkVars, taskVars, memoryVars, writeVars
<1> QED BY <1>1, <1>2, <1>3, <1>4, <1>5, <1>6, <1>7, <1>8, <1>9, <1>10, <1>11, <1>12, <1>13, <1>14, <1>15,
            <1>16, <1>17, <1>18, <1>19, <1>20, <1>21, <1>22, <1>23, <1>24, <1>25, <1>26, <1>27, <1>28 DEF Next,
            ServiceSteps, FutureSteps, Writes, StopSteps

(* .. and what holds of each stop.                                         *)
LEMMA QuietKept ==
  ASSUME NoGaps, TypeInv, FactsInv, SeenInv, RecordInv, DownInv, Onward, TypeInv', FactsInv', [Next]_vars
  PROVE  \A q \in Procs : QuietOf(q)'
<1> USE DEF DownInv
<1>1. ASSUME NEW t \in Tasks, Taken(t), UNCHANGED stop PROVE \A q \in Procs : QuietOf(q)'
  <2>1. ASSUME NEW q \in Procs PROVE Still(q)
    BY <1>1 DEF Still, Calm, Cancelled, QuietOf, StartedSince, FactsInv, OwnTasks, PilotsFit, TypeInv,
        TasksTyped,
        MemoryTyped, Taken, serviceOnly, memoryVars, writeVars
  <2> QED BY <2>1, QuietStays
<1>2. ASSUME NEW t \in Tasks, StartBlock(t), UNCHANGED stop PROVE \A q \in Procs : QuietOf(q)'
  <2>1. ASSUME NEW q \in Procs PROVE Still(q)
    BY <1>2 DEF Still, Calm, Cancelled, QuietOf, StartedSince, FactsInv, OwnTasks, PilotsFit, TypeInv,
        TasksTyped,
        MemoryTyped, StartBlock, serviceOnly, memoryVars, writeVars
  <2> QED BY <2>1, QuietStays
<1>3. ASSUME NEW t \in Tasks, Runs(t), UNCHANGED stop PROVE \A q \in Procs : QuietOf(q)'
  <2>1. ASSUME NEW q \in Procs PROVE Still(q)
    BY <1>3 DEF Still, Calm, Cancelled, QuietOf, StartedSince, FactsInv, OwnTasks, PilotsFit, TypeInv,
        TasksTyped,
        MemoryTyped, Runs, serviceOnly, memoryVars, writeVars
  <2> QED BY <2>1, QuietStays
<1>4. ASSUME NEW t \in Tasks, GivesUp(t), UNCHANGED stop PROVE \A q \in Procs : QuietOf(q)'
  <2>1. ASSUME NEW q \in Procs PROVE Still(q)
    BY <1>4 DEF Still, Calm, Cancelled, QuietOf, StartedSince, FactsInv, OwnTasks, PilotsFit, TypeInv,
        TasksTyped,
        MemoryTyped, GivesUp, serviceOnly, memoryVars, writeVars
  <2> QED BY <2>1, QuietStays
<1>5. ASSUME NEW t \in Tasks, PilotEnds(t), UNCHANGED stop PROVE \A q \in Procs : QuietOf(q)'
  <2>1. ASSUME NEW q \in Procs PROVE Still(q)
    BY <1>5 DEF Still, Calm, Cancelled, QuietOf, StartedSince, FactsInv, OwnTasks, PilotsFit, TypeInv,
        TasksTyped,
        MemoryTyped, PilotEnds, serviceOnly, memoryVars, writeVars
  <2> QED BY <2>1, QuietStays
<1>6. ASSUME NEW t \in Tasks, NoIdBound(t) PROVE \A q \in Procs : QuietOf(q)'
  <2>1. ASSUME NEW q \in Procs PROVE Still(q)
    BY <1>6 DEF Still, Calm, Cancelled, QuietOf, StartedSince, FactsInv, OwnTasks, PilotsFit, TypeInv,
        TasksTyped,
        MemoryTyped, CanStart, NoIdBound, memoryVars, writeVars
  <2> QED BY <2>1, QuietStays
<1>7. ASSUME NEW p \in Procs, NEW t \in Tasks, SendCheck(p, t), UNCHANGED stop PROVE \A q \in Procs : QuietOf(q)'
  <2>1. ASSUME NEW q \in Procs PROVE Still(q)
    BY <1>7 DEF Still, Calm, Cancelled, QuietOf, StartedSince, FactsInv, OwnTasks, PilotsFit, TypeInv,
        TasksTyped,
        MemoryTyped, SendCheck, Sends, writeStep, memoryVars, writeVars
  <2> QED BY <2>1, QuietStays
<1>8. ASSUME NEW p \in Procs, NEW t \in Tasks, SendCommand(p, t), UNCHANGED stop
      PROVE  \A q \in Procs : QuietOf(q)'
  <2>1. ASSUME NEW q \in Procs PROVE Still(q)
    BY <1>8 DEF Still, Calm, Cancelled, QuietOf, StartedSince, FactsInv, OwnTasks, PilotsFit, TypeInv,
        TasksTyped,
        MemoryTyped, SendCommand, Sends, writeStep, memoryVars, writeVars
  <2> QED BY <2>1, QuietStays
<1>9. ASSUME NEW p \in Procs, NEW t \in Tasks, IdSeen(p, t), UNCHANGED stop PROVE \A q \in Procs : QuietOf(q)'
  <2>1. ASSUME NEW q \in Procs PROVE Still(q)
    BY <1>9 DEF Still, Calm, Cancelled, QuietOf, StartedSince, FactsInv, OwnTasks, PilotsFit, TypeInv,
        TasksTyped,
        MemoryTyped, IdSeen, memoryVars, writeVars
  <2> QED BY <2>1, QuietStays
<1>10. ASSUME NEW p \in Procs, NEW t \in Tasks, Refused(p, t), UNCHANGED stop PROVE \A q \in Procs : QuietOf(q)'
  <2>1. ASSUME NEW q \in Procs PROVE Still(q)
    BY <1>10 DEF Still, Calm, Cancelled, QuietOf, StartedSince, FactsInv, OwnTasks, PilotsFit, TypeInv,
        TasksTyped,
        MemoryTyped, Refused, futureStep, writeStep, memoryVars, writeVars
  <2> QED BY <2>1, QuietStays
<1>11. ASSUME NEW p \in Procs, NEW t \in Tasks, Unclear(p, t), UNCHANGED stop PROVE \A q \in Procs : QuietOf(q)'
  <2>1. ASSUME NEW q \in Procs PROVE Still(q)
    BY <1>11 DEF Still, Calm, Cancelled, QuietOf, StartedSince, FactsInv, OwnTasks, PilotsFit, TypeInv,
        TasksTyped,
        MemoryTyped, NoGaps, Unclear, futureStep, writeStep, memoryVars, writeVars
  <2> QED BY <2>1, QuietStays
<1>12. ASSUME NEW p \in Procs, NEW t \in Tasks, Breaks(p, t), UNCHANGED stop PROVE \A q \in Procs : QuietOf(q)'
  <2>1. ASSUME NEW q \in Procs PROVE Still(q)
    BY <1>12 DEF Still, Calm, Cancelled, QuietOf, StartedSince, FactsInv, OwnTasks, PilotsFit, TypeInv,
        TasksTyped,
        MemoryTyped, Breaks, futureStep, writeStep, memoryVars, writeVars
  <2> QED BY <2>1, QuietStays
<1>13. ASSUME NEW p \in Procs, NEW t \in Tasks, ResultArrives(p, t) PROVE \A q \in Procs : QuietOf(q)'
  <2>1. ASSUME NEW q \in Procs, q # p PROVE Still(q)
    <3>1. stop'[q] = stop[q]
      BY <1>13, <2>1 DEF ResultArrives, TypeInv, StopTyped
    <3> QED BY <1>13, <2>1, <3>1 DEF Still, Calm, Cancelled, QuietOf, StartedSince, FactsInv, OwnTasks,
                PilotsFit, TypeInv, TasksTyped, MemoryTyped, ResultArrives, Delivered, futureStep, writeStep,
                memoryVars, writeVars
  <2>2. Still(p)
    <3>1. /\ stop'[p].at = stop[p].at /\ stop'[p].confirmed = stop[p].confirmed /\ stop'[p].extra = stop[p].extra
          /\ stop'[p].states = stop[p].states /\ stop'[p].rows = stop[p].rows
          /\ stop'[p].answered = (stop[p].answered \/ (Cancelled(p) /\ future'[t] = "ok"))
      BY <1>13 DEF ResultArrives, TypeInv, StopTyped, Stops
    <3>2. /\ UNCHANGED <<alive, pilot, bounded, sent, service>> /\ t \in sent[p]
          /\ \A u \in Tasks : u # t => future'[u] = future[u] /\ place'[u] = place[u]
      BY <1>13 DEF ResultArrives, Delivered, futureStep, TypeInv, TasksTyped
    <3>3. future'[t] = "ok" \/ (pilot[t] # "up" /\ future'[t] = "failed")
      BY <1>13 DEF ResultArrives, Delivered, TypeInv, TasksTyped, FactsInv, PilotsFit
    <3>4. ASSUME Calm(p), NEW u \in Tasks, u \in sent'[p], future'[u] = "ok" \/ place'[u] = "none", pilot'[u] = "up"
          PROVE  stop'[p].answered \/ (u \in sent[p] /\ (future[u] = "ok" \/ place[u] = "none"))
      BY <3>1, <3>2, <3>3, <3>4 DEF Calm, Cancelled
    <3>5. Calm(p) => (stop[p].answered => stop'[p].answered)
      <4>1. stop[p].answered => stop'[p].answered
        BY <3>1
      <4> QED BY <4>1
    <3>6. ASSUME NEW u \in Tasks, pilot'[u] = "up"
          PROVE  pilot[u] = "up" /\ (service[u] \in {"queued", "ran"} => service'[u] \in {"queued", "ran"})
      BY <3>2, <3>6
    <3> QED BY <3>1, <3>2, <3>4, <3>5, <3>6 DEF Still
  <2> QED BY <2>1, <2>2, QuietStays
<1>14. ASSUME NEW p \in Procs, WatchIds(p), UNCHANGED stop PROVE \A q \in Procs : QuietOf(q)'
  <2>1. ASSUME NEW q \in Procs PROVE Still(q)
    BY <1>14 DEF Still, Calm, Cancelled, QuietOf, StartedSince, FactsInv, OwnTasks, PilotsFit, TypeInv,
        TasksTyped,
        MemoryTyped, WatchIds, taskVars, writeStep, memoryVars, writeVars
  <2> QED BY <2>1, QuietStays
<1>15. ASSUME NEW p \in Procs, WriteLands(p), UNCHANGED stop PROVE \A q \in Procs : QuietOf(q)'
  <2>1. ASSUME NEW q \in Procs PROVE Still(q)
    BY <1>15 DEF Still, Calm, Cancelled, QuietOf, StartedSince, FactsInv, OwnTasks, PilotsFit, TypeInv,
        TasksTyped,
        MemoryTyped, WriteLands, taskVars, memoryVars, writeVars
  <2> QED BY <2>1, QuietStays
<1>16. ASSUME NEW p \in Procs, WriteFails(p), UNCHANGED stop PROVE \A q \in Procs : QuietOf(q)'
  <2>1. ASSUME NEW q \in Procs PROVE Still(q)
    BY <1>16 DEF Still, Calm, Cancelled, QuietOf, StartedSince, FactsInv, OwnTasks, PilotsFit, TypeInv,
        TasksTyped,
        MemoryTyped, WriteFails, taskVars, memoryVars, writeVars
  <2> QED BY <2>1, QuietStays
<1>17. ASSUME NEW p \in Procs, NEW job \in retries[p], RetryFires(p, job), UNCHANGED stop
      PROVE  \A q \in Procs : QuietOf(q)'
  <2>1. ASSUME NEW q \in Procs PROVE Still(q)
    BY <1>17 DEF Still, Calm, Cancelled, QuietOf, StartedSince, FactsInv, OwnTasks, PilotsFit, TypeInv,
        TasksTyped,
        MemoryTyped, RetryFires, taskVars, memoryVars, writeVars
  <2> QED BY <2>1, QuietStays
<1>18. ASSUME NEW p \in Procs, Rebinds(p) PROVE \A q \in Procs : QuietOf(q)'
  <2>1. ASSUME NEW q \in Procs, q # p PROVE Still(q)
    <3>1. stop'[q] = stop[q]
      BY <1>18, <2>1 DEF Rebinds, TypeInv, StopTyped
    <3>2. \A u \in Tasks : u \in sent[q] => place'[u] = place[u]
      BY <1>18, <2>1 DEF Rebinds, Rebind, KeepsChecks, FactsInv, OwnTasks
    <3> QED BY <1>18, <2>1, <3>1, <3>2 DEF Still, Calm, Cancelled, QuietOf, StartedSince, FactsInv, OwnTasks,
                PilotsFit, TypeInv, TasksTyped, MemoryTyped, Rebinds, Rebind, writeStep, memoryVars, writeVars
  <2>2. Still(p)
    <3>1. /\ stop'[p].at = stop[p].at /\ stop'[p].confirmed = stop[p].confirmed /\ stop'[p].extra = stop[p].extra
          /\ stop'[p].states = stop[p].states /\ stop'[p].rows = stop[p].rows
      BY <1>18 DEF Rebinds, TypeInv, StopTyped, Stops
    <3>2. ~Calm(p) /\ UNCHANGED alive
      BY <1>18 DEF Rebinds, Rebind, NoGaps, Calm, Cancelled
    <3> QED BY <3>1, <3>2 DEF Still
  <2> QED BY <2>1, <2>2, QuietStays
<1>19. ASSUME NEW p \in Procs, Dies(p) PROVE \A q \in Procs : QuietOf(q)'
  <2>1. \A q \in Procs : q # p => stop'[q] = stop[q]
    BY <1>19, IdleTyped, StopSet DEF TypeInv, Dies
  <2>2. ASSUME NEW q \in Procs, q # p PROVE Still(q)
    BY <1>19, <2>1, <2>2 DEF Still, Calm, Cancelled, QuietOf, StartedSince, FactsInv, OwnTasks, PilotsFit,
        TypeInv,
        TasksTyped, MemoryTyped, Dies, Crash, memoryVars, writeVars
  <2>3. QuietOf(p)'
    <3>1. stop'[p].at = "idle"
      <4>1. stop'[p] = Idle
        BY <1>19, IdleTyped, StopSet DEF TypeInv, Dies
      <4> QED BY <4>1 DEF Idle
    <3> QED BY <3>1 DEF QuietOf, Calm, StartedSince, AnswersSeen, LooksSeen, RowsSeen
  <2> QED BY <2>2, <2>3, QuietStays
<1>20. ASSUME NEW p \in Procs, StopReads(p) PROVE \A q \in Procs : QuietOf(q)'
  <2>1. \A q \in Procs : q # p => stop'[q] = stop[q]
    <3>1. record \in SUBSET Rows
      BY DEF TypeInv, WritesTyped
    <3>2. /\ [Idle EXCEPT !.at = "looking", !.rows = record].states = NoItems
          /\ [Idle EXCEPT !.at = "looking", !.problem = TRUE].states = NoItems
      BY DEF Idle
    <3>3. PICK s \in Stops : stop' = [stop EXCEPT ![p] = s] /\ s.states = NoItems
      BY <1>20, <3>1, <3>2, StartTyped DEF StopReads
    <3> QED BY <3>3, StopSet DEF TypeInv
  <2>2. ASSUME NEW q \in Procs, q # p PROVE Still(q)
    BY <1>20, <2>1, <2>2 DEF Still, Calm, Cancelled, QuietOf, StartedSince, FactsInv, OwnTasks, PilotsFit,
        TypeInv,
        TasksTyped, MemoryTyped, StopReads, taskVars, memoryVars, writeVars
  <2>3. QuietOf(p)'
    <3>1. record \in SUBSET Rows
      BY DEF TypeInv, WritesTyped
    <3>2. /\ [Idle EXCEPT !.at = "looking", !.rows = record].at = "looking"
          /\ [Idle EXCEPT !.at = "looking", !.problem = TRUE].at = "looking"
      BY DEF Idle
    <3>3. PICK s \in Stops : stop' = [stop EXCEPT ![p] = s] /\ s.at = "looking"
      BY <1>20, <3>1, <3>2, StartTyped DEF StopReads
    <3>4. stop'[p].at = "looking" /\ p \in alive'
      BY <1>20, <3>3, StopSet DEF TypeInv, StopReads, At
    <3> QED BY <3>4 DEF QuietOf, Calm, StartedSince, AnswersSeen, LooksSeen, RowsSeen
  <2> QED BY <2>2, <2>3, QuietStays
<1>21. ASSUME NEW p \in Procs, StopLooks(p) PROVE \A q \in Procs : QuietOf(q)'
  <2>1. \A q \in Procs : q # p => stop'[q] = stop[q]
    BY <1>21, LooksStart
  <2>2. ASSUME NEW q \in Procs, q # p PROVE Still(q)
    BY <1>21, <2>1, <2>2 DEF Still, Calm, Cancelled, QuietOf, StartedSince, FactsInv, OwnTasks, PilotsFit,
        TypeInv,
        TasksTyped, MemoryTyped, StopLooks, taskVars, memoryVars, writeVars
  <2>3. QuietOf(p)'
    <3>1. p \in alive'
      BY <1>21 DEF StopLooks, At
    <3>2. CASE Answer(p, FALSE)
      <4>1. stop'[p].at = "idle"
        BY <3>2, StopAnswered DEF TypeInv
      <4> QED BY <4>1 DEF QuietOf, Calm, StartedSince, AnswersSeen, LooksSeen, RowsSeen
    <3> DEFINE items == Known(p) \cup Strangers(p, stop[p].rows)
    <3>3. CASE /\ stop'[p].at \in {"asking", "cancelling"} /\ stop'[p].rows = stop[p].rows
               /\ stop'[p].states = [i \in items |-> "unknown"]
      <4>1. ASSUME NEW row \in stop[p].rows
            PROVE  row[1] \in sent[p] \/ Over(row[1]) \/ \E i \in items : i[1] = row[1]
        <5>1. CASE row \in Strangers(p, stop[p].rows)
          BY <5>1
        <5>2. CASE row \in wrote[p].rows
          BY <5>2 DEF RecordInv, RecordOf, WrittenOwn, Names
        <5>3. CASE row \in resolved[p]
          BY <5>3 DEF SeenInv, ResolvedOver
        <5>4. CASE row \in {RowFor(i) : i \in Known(p)}
          <6>1. PICK i \in Known(p) : row = RowFor(i)
            BY <5>4
          <6>2. i \in Items
            BY ItemsTyped DEF TypeInv
          <6> QED BY <6>1, <6>2, RowForTyped
        <5> QED BY <5>1, <5>2, <5>3, <5>4 DEF Strangers
      <4> HIDE DEF items
      <4>2. DOMAIN stop'[p].states = items
        BY <3>3
      <4>3. RowsSeen(p)'
        <5> SUFFICES ASSUME NEW row \in stop[p].rows
                     PROVE  row[1] \in sent'[p] \/ Over(row[1])' \/ \E i \in items : i[1] = row[1]
          BY <3>3, <4>2 DEF RowsSeen, Calm
        <5>1. PICK t \in Tasks : t = row[1]
          BY DEF TypeInv, StopTyped, Stops, Rows
        <5>2. t \in sent[p] \/ Over(t) \/ \E i \in items : i[1] = t
          BY <4>1, <5>1
        <5>3. Over(t) => Over(t)'
          BY DEF Onward
        <5> QED BY <5>1, <5>2, <5>3 DEF Onward
      <4> QED BY <3>1, <3>3, <4>3 DEF QuietOf, Calm, StartedSince, AnswersSeen, LooksSeen
    <3> QED BY <1>21, <3>2, <3>3, LooksStart
  <2> QED BY <2>2, <2>3, QuietStays
<1>22. ASSUME NEW p \in Procs, NEW unread \in SUBSET DOMAIN stop[p].states, StopAsks(p, unread)
      PROVE  \A q \in Procs : QuietOf(q)'
  <2>1. \A q \in Procs : q # p => stop'[q] = stop[q]
    <3>1. Answer(p, FALSE) \/ stop' = [stop EXCEPT ![p] = Begun(stop[p])]
      BY <1>22 DEF StopAsks
    <3>2. stop[p] \in Stops
      BY DEF TypeInv, StopTyped
    <3>3. CASE Answer(p, FALSE)
      BY <3>3, StopAnswered DEF TypeInv
    <3>4. CASE stop' = [stop EXCEPT ![p] = Begun(stop[p])]
      BY <3>2, <3>4, BegunTyped, StopSet DEF TypeInv
    <3> QED BY <3>1, <3>3, <3>4
  <2>2. ASSUME NEW q \in Procs, q # p PROVE Still(q)
    BY <1>22, <2>1, <2>2 DEF Still, Calm, Cancelled, QuietOf, StartedSince, FactsInv, OwnTasks, PilotsFit,
        TypeInv,
        TasksTyped, MemoryTyped, StopAsks, taskVars, memoryVars, writeVars
  <2>3. QuietOf(p)'
    <3>0. stop[p] \in Stops /\ p \in alive' /\ stop[p].at = "asking"
      BY <1>22 DEF TypeInv, StopTyped, StopAsks, At
    <3>2. CASE Answer(p, FALSE)
      <4>1. stop'[p].at = "idle"
        BY <3>2, StopAnswered DEF TypeInv
      <4> QED BY <4>1 DEF QuietOf, Calm, StartedSince, AnswersSeen, LooksSeen, RowsSeen
    <3>3. CASE stop' = [stop EXCEPT ![p] = Begun(stop[p])]
      <4>1. stop'[p].at = "cancelling" /\ stop'[p].rows = stop[p].rows /\ stop'[p].states = stop[p].states
        <5>1. stop'[p] = Begun(stop[p])
          BY <3>0, <3>3, BegunTyped, StopSet DEF TypeInv
        <5> QED BY <3>0, <5>1, BegunTyped
      <4>2. RowsStay(p)
        BY <3>0, <4>1 DEF RowsStay, Calm
      <4> QED BY <3>0, <4>1, <4>2, RowsGo DEF QuietOf, Calm, StartedSince, AnswersSeen, LooksSeen
    <3> QED BY <1>22, <3>2, <3>3 DEF StopAsks
  <2> QED BY <2>2, <2>3, QuietStays
<1>23. ASSUME NEW p \in Procs, ReleaseEnds(p) PROVE \A q \in Procs : QuietOf(q)'
  <2>1. \A q \in Procs : q # p => stop'[q] = stop[q]
    BY <1>23, ReleasedTyped DEF TypeInv, ReleaseEnds
  <2>2. ASSUME NEW q \in Procs, q # p PROVE Still(q)
    BY <1>23, <2>1, <2>2 DEF Still, Calm, Cancelled, QuietOf, StartedSince, FactsInv, OwnTasks, PilotsFit,
        TypeInv,
        TasksTyped, MemoryTyped, ReleaseEnds, serviceOnly, memoryVars, writeVars, NoBlockUp
  <2>3. QuietOf(p)'
    <3>0. p \in alive' /\ stop[p].at = "cancelling" /\ \A t \in Tasks : pilot'[t] # "up"
      BY <1>23 DEF ReleaseEnds, At, serviceOnly, NoBlockUp, TypeInv, TasksTyped
    <3>1. /\ stop'[p].at \in {"settling", "released"} /\ stop'[p].rows = stop[p].rows
          /\ stop'[p].states = stop[p].states /\ stop'[p].extra = stop[p].extra
          /\ (stop'[p].at = "settling" => stop'[p].extra)
      BY <1>23, ReleasedTyped DEF TypeInv, ReleaseEnds
    <3>2. RowsStay(p)
      BY <3>0, <3>1 DEF RowsStay, Calm
    <3>3. \A i \in DOMAIN stop[p].states : i[1] \in Tasks
      BY ItemTask, ShapeOf DEF TypeInv, StopTyped, Stops
    <3>4. UNCHANGED sent /\ \A t \in sent[p] : t \in Tasks
      BY <1>23 DEF TypeInv, TasksTyped, ReleaseEnds, serviceOnly
    <3> QED BY <3>0, <3>1, <3>2, <3>3, <3>4, RowsGo DEF QuietOf, Calm, StartedSince, AnswersSeen, LooksSeen
  <2> QED BY <2>2, <2>3, QuietStays
<1>24. ASSUME NEW p \in Procs, ReleaseFails(p) PROVE \A q \in Procs : QuietOf(q)'
  <2>1. \A q \in Procs : q # p => stop'[q] = stop[q]
    BY <1>24, ReleasedTyped DEF TypeInv, ReleaseFails
  <2>2. ASSUME NEW q \in Procs, q # p PROVE Still(q)
    BY <1>24, <2>1, <2>2 DEF Still, Calm, Cancelled, QuietOf, StartedSince, FactsInv, OwnTasks, PilotsFit,
        TypeInv,
        TasksTyped, MemoryTyped, ReleaseFails, memoryVars, writeVars, NoBlockUp
  <2>3. QuietOf(p)'
    <3>0. p \in alive' /\ stop[p].at = "cancelling"
      BY <1>24 DEF ReleaseFails, At
    <3>1. /\ stop'[p].at \in {"settling", "released"} /\ ~stop'[p].confirmed /\ stop'[p].rows = stop[p].rows
          /\ stop'[p].states = stop[p].states
      BY <1>24, ReleasedTyped DEF TypeInv, ReleaseFails
    <3>2. RowsStay(p)
      BY <3>0, <3>1 DEF RowsStay, Calm
    <3> QED BY <3>0, <3>1, <3>2, RowsGo DEF QuietOf, Calm, StartedSince, AnswersSeen, LooksSeen
  <2> QED BY <2>2, <2>3, QuietStays
<1>25. ASSUME NEW p \in Procs, NEW unread \in SUBSET DOMAIN stop[p].states, Looks(p, unread)
      PROVE  \A q \in Procs : QuietOf(q)'
  <2>1. \A q \in Procs : q # p => stop'[q] = stop[q]
    <3>1. DOMAIN States(p, DOMAIN stop[p].states, unread) = DOMAIN stop[p].states
      BY StatesTyped, ShapeOf DEF TypeInv, StopTyped, Stops
    <3> QED BY <1>25, <3>1, LooksGo
  <2>2. ASSUME NEW q \in Procs, q # p PROVE Still(q)
    BY <1>25, <2>1, <2>2 DEF Still, Calm, Cancelled, QuietOf, StartedSince, FactsInv, OwnTasks, PilotsFit,
        TypeInv,
        TasksTyped, MemoryTyped, Looks, taskVars, memoryVars, writeVars
  <2>3. QuietOf(p)'
    <3>0. p \in alive' /\ stop[p].at = "released" /\ UNCHANGED <<service, pilot, bounded, sent, future, place>>
      BY <1>25 DEF Looks, At, taskVars
    <3>1. /\ stop'[p].at \in {"settling", "cancelling"} /\ stop'[p].rows = stop[p].rows
          /\ stop'[p].confirmed = stop[p].confirmed
          /\ stop'[p].at = "settling" =>
               /\ stop'[p].answered = stop[p].answered /\ ~stop'[p].extra
               /\ stop[p].confirmed => \A i \in DOMAIN stop'[p].states : stop'[p].states[i] # "ok"
      BY <1>25, LooksGo
    <3>4. DOMAIN stop'[p].states = DOMAIN stop[p].states
      <4>1. DOMAIN States(p, DOMAIN stop[p].states, unread) = DOMAIN stop[p].states
        BY StatesTyped, ShapeOf DEF TypeInv, StopTyped, Stops
      <4> QED BY <1>25, <4>1, LooksGo
    <3>2. RowsStay(p)
      BY <3>0, <3>1, <3>4 DEF RowsStay, Calm
    <3>3. RowsSeen(p)'
      BY <3>2, RowsGo
    <3>5. StartedSince(p)'
      BY <3>0, <3>1 DEF QuietOf, StartedSince, Calm
    <3>6. AnswersSeen(p)'
      BY <3>0, <3>1 DEF QuietOf, AnswersSeen, Calm
    <3>7. LooksSeen(p)'
      BY <3>1 DEF LooksSeen, Calm
    <3> QED BY <3>0, <3>3, <3>5, <3>6, <3>7 DEF QuietOf
  <2> QED BY <2>2, <2>3, QuietStays
<1>26. ASSUME NEW p \in Procs, StopAnswers(p) PROVE \A q \in Procs : QuietOf(q)'
  <2>1. \A q \in Procs : q # p => stop'[q] = stop[q]
    <3>1. PICK down \in BOOLEAN : Answer(p, down)
      BY <1>26 DEF StopAnswers
    <3> QED BY <3>1, StopAnswered DEF TypeInv
  <2>2. ASSUME NEW q \in Procs, q # p PROVE Still(q)
    <3>1. \A u \in Tasks : u \in sent[q] => place'[u] = place[u]
      BY <1>26, <2>2, OthersPlaces
    <3> QED BY <1>26, <2>1, <2>2, <3>1 DEF Still, Calm, Cancelled, QuietOf, StartedSince, FactsInv, OwnTasks,
                PilotsFit, TypeInv, TasksTyped, MemoryTyped, StopAnswers
  <2>3. QuietOf(p)'
    <3>1. stop'[p].at = "idle"
      <4>1. PICK down \in BOOLEAN : Answer(p, down)
        BY <1>26 DEF StopAnswers
      <4> QED BY <4>1, StopAnswered DEF TypeInv
    <3> QED BY <3>1 DEF QuietOf, Calm, StartedSince, AnswersSeen, LooksSeen, RowsSeen
  <2> QED BY <2>2, <2>3, QuietStays
<1>27. ASSUME NEW p \in Procs, StopGivesUp(p) PROVE \A q \in Procs : QuietOf(q)'
  <2>1. \A q \in Procs : q # p => stop'[q] = stop[q]
    BY <1>27, StopAnswered DEF TypeInv, StopGivesUp
  <2>2. ASSUME NEW q \in Procs, q # p PROVE Still(q)
    BY <1>27, <2>1, <2>2 DEF Still, Calm, Cancelled, QuietOf, StartedSince, FactsInv, OwnTasks, PilotsFit,
        TypeInv,
        TasksTyped, MemoryTyped, StopGivesUp, taskVars, memoryVars, writeVars
  <2>3. QuietOf(p)'
    <3>1. stop'[p].at = "idle"
      BY <1>27, StopAnswered DEF TypeInv, StopGivesUp
    <3> QED BY <3>1 DEF QuietOf, Calm, StartedSince, AnswersSeen, LooksSeen, RowsSeen
  <2> QED BY <2>2, <2>3, QuietStays
<1>28. ASSUME UNCHANGED vars PROVE \A q \in Procs : QuietOf(q)'
  <2>1. \A q \in Procs : Still(q)
    BY <1>28 DEF Still, Calm, Cancelled, vars, checkVars, taskVars, memoryVars, writeVars
  <2> QED BY <2>1, QuietStays
<1> QED BY <1>1, <1>2, <1>3, <1>4, <1>5, <1>6, <1>7, <1>8, <1>9, <1>10, <1>11, <1>12, <1>13, <1>14, <1>15,
            <1>16, <1>17, <1>18, <1>19, <1>20, <1>21, <1>22, <1>23, <1>24, <1>25, <1>26, <1>27, <1>28 DEF Next,
            ServiceSteps, FutureSteps, Writes, StopSteps

(* Only the answer of a stop says `down`.                                  *)
LEMMA DownIsAnswered ==
  ASSUME TypeInv, [Next]_vars
  PROVE  \A x \in Procs : stop'[x].down => stop[x].down \/ StopAnswers(x)
<1>1. ASSUME NEW t \in Tasks, Taken(t), UNCHANGED stop
      PROVE  \A x \in Procs : stop'[x].down => stop[x].down \/ StopAnswers(x)
  BY <1>1
<1>2. ASSUME NEW t \in Tasks, StartBlock(t), UNCHANGED stop
      PROVE  \A x \in Procs : stop'[x].down => stop[x].down \/ StopAnswers(x)
  BY <1>2
<1>3. ASSUME NEW t \in Tasks, Runs(t), UNCHANGED stop
      PROVE  \A x \in Procs : stop'[x].down => stop[x].down \/ StopAnswers(x)
  BY <1>3
<1>4. ASSUME NEW t \in Tasks, GivesUp(t), UNCHANGED stop
      PROVE  \A x \in Procs : stop'[x].down => stop[x].down \/ StopAnswers(x)
  BY <1>4
<1>5. ASSUME NEW t \in Tasks, PilotEnds(t), UNCHANGED stop
      PROVE  \A x \in Procs : stop'[x].down => stop[x].down \/ StopAnswers(x)
  BY <1>5
<1>6. ASSUME NEW t \in Tasks, NoIdBound(t) PROVE \A x \in Procs : stop'[x].down => stop[x].down \/ StopAnswers(x)
  BY <1>6 DEF NoIdBound, memoryVars, writeVars
<1>7. ASSUME NEW p \in Procs, NEW t \in Tasks, SendCheck(p, t), UNCHANGED stop
      PROVE  \A x \in Procs : stop'[x].down => stop[x].down \/ StopAnswers(x)
  BY <1>7
<1>8. ASSUME NEW p \in Procs, NEW t \in Tasks, SendCommand(p, t), UNCHANGED stop
      PROVE  \A x \in Procs : stop'[x].down => stop[x].down \/ StopAnswers(x)
  BY <1>8
<1>9. ASSUME NEW p \in Procs, NEW t \in Tasks, IdSeen(p, t), UNCHANGED stop
      PROVE  \A x \in Procs : stop'[x].down => stop[x].down \/ StopAnswers(x)
  BY <1>9
<1>10. ASSUME NEW p \in Procs, NEW t \in Tasks, Refused(p, t), UNCHANGED stop
      PROVE  \A x \in Procs : stop'[x].down => stop[x].down \/ StopAnswers(x)
  BY <1>10
<1>11. ASSUME NEW p \in Procs, NEW t \in Tasks, Unclear(p, t), UNCHANGED stop
      PROVE  \A x \in Procs : stop'[x].down => stop[x].down \/ StopAnswers(x)
  BY <1>11
<1>12. ASSUME NEW p \in Procs, NEW t \in Tasks, Breaks(p, t), UNCHANGED stop
      PROVE  \A x \in Procs : stop'[x].down => stop[x].down \/ StopAnswers(x)
  BY <1>12
<1>13. ASSUME NEW p \in Procs, NEW t \in Tasks, ResultArrives(p, t)
      PROVE  \A x \in Procs : stop'[x].down => stop[x].down \/ StopAnswers(x)
  BY <1>13 DEF TypeInv, StopTyped, Stops, ResultArrives, Delivered, futureStep, writeStep, memoryVars, writeVars
<1>14. ASSUME NEW p \in Procs, WatchIds(p), UNCHANGED stop
      PROVE  \A x \in Procs : stop'[x].down => stop[x].down \/ StopAnswers(x)
  BY <1>14
<1>15. ASSUME NEW p \in Procs, WriteLands(p), UNCHANGED stop
      PROVE  \A x \in Procs : stop'[x].down => stop[x].down \/ StopAnswers(x)
  BY <1>15
<1>16. ASSUME NEW p \in Procs, WriteFails(p), UNCHANGED stop
      PROVE  \A x \in Procs : stop'[x].down => stop[x].down \/ StopAnswers(x)
  BY <1>16
<1>17. ASSUME NEW p \in Procs, NEW job \in retries[p], RetryFires(p, job), UNCHANGED stop
      PROVE  \A x \in Procs : stop'[x].down => stop[x].down \/ StopAnswers(x)
  BY <1>17
<1>18. ASSUME NEW p \in Procs, Rebinds(p) PROVE \A x \in Procs : stop'[x].down => stop[x].down \/ StopAnswers(x)
  BY <1>18 DEF TypeInv, StopTyped, Stops, Rebinds, Rebind, writeStep, memoryVars, writeVars
<1>19. ASSUME NEW p \in Procs, Dies(p) PROVE \A x \in Procs : stop'[x].down => stop[x].down \/ StopAnswers(x)
  <2>1. stop'[p] = Idle /\ \A q \in Procs : q # p => stop'[q] = stop[q]
    BY <1>19, IdleTyped, StopSet DEF TypeInv, Dies
  <2> QED BY <2>1 DEF Idle
<1>20. ASSUME NEW p \in Procs, StopReads(p) PROVE \A x \in Procs : stop'[x].down => stop[x].down \/ StopAnswers(x)
  <2>1. record \in SUBSET Rows
    BY DEF TypeInv, WritesTyped
  <2>2. /\ ~[Idle EXCEPT !.at = "looking", !.rows = record].down
        /\ ~[Idle EXCEPT !.at = "looking", !.problem = TRUE].down
    BY DEF Idle
  <2>3. PICK s \in Stops : stop' = [stop EXCEPT ![p] = s] /\ ~s.down
    BY <1>20, <2>1, <2>2, StartTyped DEF StopReads
  <2> QED BY <2>3, StopSet DEF TypeInv
<1>21. ASSUME NEW p \in Procs, StopLooks(p) PROVE \A x \in Procs : stop'[x].down => stop[x].down \/ StopAnswers(x)
  BY <1>21, LooksStart, StopAnswered DEF TypeInv
<1>22. ASSUME NEW p \in Procs, NEW unread \in SUBSET DOMAIN stop[p].states, StopAsks(p, unread)
      PROVE  \A x \in Procs : stop'[x].down => stop[x].down \/ StopAnswers(x)
  <2>1. Answer(p, FALSE) \/ stop' = [stop EXCEPT ![p] = Begun(stop[p])]
    BY <1>22 DEF StopAsks
  <2>2. stop[p] \in Stops
    BY DEF TypeInv, StopTyped
  <2>3. CASE stop' = [stop EXCEPT ![p] = Begun(stop[p])]
    <3>1. stop'[p] = Begun(stop[p]) /\ \A q \in Procs : q # p => stop'[q] = stop[q]
      BY <2>2, <2>3, BegunTyped, StopSet DEF TypeInv
    <3> QED BY <2>2, <3>1, BegunTyped
  <2> QED BY <2>1, <2>3, StopAnswered DEF TypeInv
<1>23. ASSUME NEW p \in Procs, ReleaseEnds(p)
      PROVE  \A x \in Procs : stop'[x].down => stop[x].down \/ StopAnswers(x)
  BY <1>23, ReleasedTyped DEF TypeInv, ReleaseEnds
<1>24. ASSUME NEW p \in Procs, ReleaseFails(p)
      PROVE  \A x \in Procs : stop'[x].down => stop[x].down \/ StopAnswers(x)
  BY <1>24, ReleasedTyped DEF TypeInv, ReleaseFails
<1>25. ASSUME NEW p \in Procs, NEW unread \in SUBSET DOMAIN stop[p].states, Looks(p, unread)
      PROVE  \A x \in Procs : stop'[x].down => stop[x].down \/ StopAnswers(x)
  BY <1>25, LooksGo
<1>26. ASSUME NEW p \in Procs, StopAnswers(p)
      PROVE  \A x \in Procs : stop'[x].down => stop[x].down \/ StopAnswers(x)
  <2>1. PICK down \in BOOLEAN : Answer(p, down)
    BY <1>26 DEF StopAnswers
  <2> QED BY <1>26, <2>1, StopAnswered DEF TypeInv
<1>27. ASSUME NEW p \in Procs, StopGivesUp(p)
      PROVE  \A x \in Procs : stop'[x].down => stop[x].down \/ StopAnswers(x)
  BY <1>27, StopAnswered DEF TypeInv, StopGivesUp
<1>28. ASSUME UNCHANGED vars PROVE \A x \in Procs : stop'[x].down => stop[x].down \/ StopAnswers(x)
  BY <1>28 DEF vars, checkVars, taskVars, memoryVars, writeVars
<1> QED BY <1>1, <1>2, <1>3, <1>4, <1>5, <1>6, <1>7, <1>8, <1>9, <1>10, <1>11, <1>12, <1>13, <1>14, <1>15,
            <1>16, <1>17, <1>18, <1>19, <1>20, <1>21, <1>22, <1>23, <1>24, <1>25, <1>26, <1>27, <1>28 DEF Next,
            ServiceSteps, FutureSteps, Writes, StopSteps

(* A task a `down` counted as final has no block up, and none can start.   *)
Quiet(t) == Over(t) /\ pilot[t] # "up"

(* What a `down` rests on: every task listed is final, and none that its   *)
(* own server sent meanwhile is left.                                      *)
LEMMA DownRests ==
  ASSUME TypeInv, NEW p \in Procs, StopAnswers(p), stop'[p].down
  PROVE  /\ stop[p].at = "settling" /\ p \in alive /\ ~BlockWork(p) /\ UNCHANGED <<service, pilot>>
         /\ stop[p].confirmed /\ ~stop[p].answered
         /\ \E gone \in {{}, Evidence(p)} :
              LET states == WithLost(stop[p].states, gone) IN
              LET over == {i \in DOMAIN states : states[i] \in Done} IN
              Waiting(states) = {} /\ Late(p, states, over) = {}
<1>1. stop[p].at = "settling" /\ p \in alive /\ UNCHANGED <<service, pilot>>
  BY DEF StopAnswers, At
<1>2. ~Answer(p, FALSE)
  BY StopAnswered DEF TypeInv
<1>3. ~BlockWork(p)
  BY <1>2 DEF StopAnswers
<1>4. PICK gone \in {{}, Evidence(p)} :
        LET states == WithLost(stop[p].states, gone) IN
        LET over == {i \in DOMAIN states : states[i] \in Done} IN
        Answer(p, /\ stop[p].confirmed /\ ~stop[p].answered /\ ~stop[p].problem
                  /\ Waiting(states) \cup Late(p, states, over) = {})
  BY <1>3 DEF StopAnswers
<1> DEFINE states == WithLost(stop[p].states, gone)
           over == {i \in DOMAIN states : states[i] \in Done}
           says == /\ stop[p].confirmed /\ ~stop[p].answered /\ ~stop[p].problem
                   /\ Waiting(states) \cup Late(p, states, over) = {}
<1>5. Answer(p, says) /\ says \in BOOLEAN
  BY <1>4
<1>6. stop'[p].down = says
  <2> HIDE DEF says
  <2> QED BY <1>5, StopAnswered DEF TypeInv
<1>7. says
  BY <1>6
<1>8. Waiting(states) = {} /\ Late(p, states, over) = {}
  <2> HIDE DEF states, over
  <2> QED BY <1>7
<1> QED BY <1>1, <1>3, <1>7, <1>8

(* The tasks that were listed.                                             *)
LEMMA ListedQuiet ==
  ASSUME TypeInv, FactsInv, SeenInv, NEW p \in Procs, QuietOf(p), NEW gone \in {{}, Evidence(p)},
         stop[p].at = "settling", stop[p].confirmed, Waiting(WithLost(stop[p].states, gone)) = {}
  PROVE  \A i \in DOMAIN stop[p].states :
           Quiet(i[1]) /\ i \in Items /\ WithLost(stop[p].states, gone)[i] \in Done
<1> DEFINE states == WithLost(stop[p].states, gone)
<1>1. /\ DOMAIN states = DOMAIN stop[p].states
      /\ \A i \in DOMAIN states : StateTrue(i[1], states[i]) /\ states[i] \in LookStates
  BY LostTrue DEF SeenInv
<1>2. \A i \in DOMAIN states : (i \in gone => service[i[1]] = "dead") /\ (i \notin gone => states[i] = stop[p].states[i])
  BY DEF WithLost, Evidence
<1> HIDE DEF states
<1> SUFFICES ASSUME NEW i \in DOMAIN stop[p].states PROVE Quiet(i[1]) /\ i \in Items /\ states[i] \in Done
  BY DEF states
<1>3. i \in Items
  BY ShapeOf DEF TypeInv, StopTyped, Stops
<1>4. PICK t \in Tasks : t = i[1]
  BY <1>3, ItemTask
<1>5. states[i] \in Done /\ StateTrue(t, states[i])
  BY <1>1, <1>4 DEF Waiting, LookStates, states
<1>6. Over(t)
  BY <1>5, DoneIsOver
<1>7. pilot[t] # "up"
  <2>1. CASE i \in gone
    BY <1>1, <1>2, <1>4, <2>1 DEF FactsInv, PilotsFit
  <2>2. CASE i \notin gone /\ stop[p].extra
    BY <1>1, <1>2, <1>4, <1>5, <2>2 DEF QuietOf, LooksSeen, Calm
  <2>3. CASE i \notin gone /\ ~stop[p].extra
    <3>1. states[i] \in {"failed", "unsent", "lost"}
      BY <1>1, <1>2, <1>5, <2>3 DEF QuietOf, LooksSeen, Calm, Done
    <3>2. service[t] \in {"failed", "dead", "never"} \/ t \in bounded
      BY <1>5, <3>1 DEF StateTrue
    <3> QED BY <3>2 DEF QuietOf, StartedSince, Calm
  <2> QED BY <2>1, <2>2, <2>3
<1> QED BY <1>3, <1>4, <1>5, <1>6, <1>7 DEF Quiet

(* The tasks the server sent, those it sent meanwhile included.            *)
LEMMA OwnQuiet ==
  ASSUME TypeInv, FactsInv, DownInv, NEW p \in Procs, p \in alive, NEW states, NEW t \in sent[p],
         DOMAIN states \subseteq Items, \A i \in DOMAIN states : Quiet(i[1]) /\ states[i] \in Done,
         Calm(p), ~stop[p].answered, ~BlockWork(p),
         Late(p, states, {i \in DOMAIN states : states[i] \in Done}) = {}
  PROVE  Quiet(t)
<1> DEFINE own == <<t, "own">>
<1>1. t \in Tasks
  BY DEF TypeInv, TasksTyped
<1>2. AnswersSeen(p) /\ StartedSince(p) /\ PlacesFit /\ FuturesTrue
  BY DEF DownInv, QuietOf, FactsInv
<1>3. CASE place[t] = "none"
  BY <1>2, <1>3 DEF AnswersSeen, PlacesFit, Quiet
<1>4. CASE future[t] = "ok"
  BY <1>1, <1>2, <1>4 DEF AnswersSeen, Quiet, FuturesTrue, Over, CanStart, FactsInv
<1>5. CASE future[t] \in {"failed", "never"}
  BY <1>1, <1>2, <1>5 DEF StartedSince, Quiet, FuturesTrue, Over, CanStart
<1>6. CASE place[t] # "none" /\ future[t] \notin {"ok", "failed", "never"}
  <2>1. place[t] \in {"current", "kept"}
    BY <1>1, <1>2, <1>6 DEF BlockWork, Held, PlacesFit, TypeInv, TasksTyped
  <2>2. own \in Known(p)
    BY <1>1, <1>6, <2>1 DEF Known, Kept, CurrentChecks, Own, Held
  <2>3. CASE own \in DOMAIN states
    BY <2>3
  <2>4. CASE \E j \in DOMAIN states : RowFor(own) = RowFor(j)
    <3>1. PICK j \in DOMAIN states : RowFor(own) = RowFor(j)
      BY <2>4
    <3>2. own \in Items /\ j \in Items
      BY <1>1 DEF Items
    <3>3. RowFor(own)[1] = t /\ RowFor(j)[1] = j[1]
      BY <3>2, RowForTyped
    <3> QED BY <3>1, <3>3
  <2>5. CASE LocalState(own) \in {"ok", "failed", "unsent"}
    <3>1. LocalState(own) = "unsent" /\ t \in bounded
      BY <1>6, <2>5 DEF LocalState, NoIdState
    <3> QED BY <1>1, <1>2, <3>1 DEF StartedSince, Quiet, FactsInv, BoundedOver
  <2> QED BY <2>2, <2>3, <2>4, <2>5 DEF Late
<1> QED BY <1>3, <1>4, <1>5, <1>6

(* All of it.                                                              *)
LEMMA Quiets ==
  NoGaps => (Spec => [](TypeInv /\ FactsInv /\ SeenInv /\ RecordInv /\ DownInv))
<1> SUFFICES ASSUME NoGaps PROVE Spec => [](TypeInv /\ FactsInv /\ SeenInv /\ RecordInv /\ DownInv)
  OBVIOUS
<1>0. NoIdIsOver
  BY DEF NoGaps, NoIdIsOver
<1>1. Init => DownInv
  BY DownInit
<1>2. TypeInv /\ FactsInv /\ SeenInv /\ RecordInv /\ DownInv
      /\ (TypeInv /\ FactsInv /\ SeenInv /\ RecordInv)' /\ [Next]_vars => DownInv'
  <2> SUFFICES ASSUME TypeInv, FactsInv, SeenInv, RecordInv, DownInv, TypeInv', FactsInv', [Next]_vars
               PROVE  DownInv'
    OBVIOUS
  <2>1. Onward
    BY <1>0, TypesKept, FactsKept
  <2>2. PlacesFit'
    BY <2>1, PlacesKept DEF DownInv
  <2>3. OwnItems'
    BY <2>1, ItemsKept DEF DownInv
  <2>4. \A q \in Procs : QuietOf(q)'
    BY <2>1, QuietKept
  <2> QED BY <2>2, <2>3, <2>4 DEF DownInv
<1> QED BY <1>0, <1>1, <1>2, Records, PTL DEF Spec

(* A `down` is true: no task of the server, nor any on the record when it  *)
(* looked, has a block up or can start one, whatever was sent, answered,   *)
(* re-bound, lost or started between the steps of the stop.                *)
THEOREM DownMeansQuiet == NoGaps => (Spec => DownIsQuiet)
<1> SUFFICES ASSUME NoGaps PROVE Spec => DownIsQuiet
  OBVIOUS
<1>1. TypeInv /\ FactsInv /\ SeenInv /\ DownInv /\ [Next]_vars =>
        [\A p \in Procs : ~stop[p].down /\ stop'[p].down =>
           \A t \in Sent(p) : ~CanStart(t)' /\ pilot'[t] # "up"]_vars
  <2> SUFFICES ASSUME TypeInv, FactsInv, SeenInv, DownInv, [Next]_vars,
                      NEW p \in Procs, ~stop[p].down, stop'[p].down, NEW t \in Sent(p)
               PROVE  ~CanStart(t)' /\ pilot'[t] # "up"
    OBVIOUS
  <2>1. StopAnswers(p)
    BY DownIsAnswered
  <2>2. /\ stop[p].at = "settling" /\ p \in alive /\ ~BlockWork(p) /\ UNCHANGED <<service, pilot>>
        /\ stop[p].confirmed /\ ~stop[p].answered
        /\ \E gone \in {{}, Evidence(p)} :
             LET states == WithLost(stop[p].states, gone) IN
             LET over == {i \in DOMAIN states : states[i] \in Done} IN
             Waiting(states) = {} /\ Late(p, states, over) = {}
    BY <2>1, DownRests
  <2>3. PICK gone \in {{}, Evidence(p)} :
          LET states == WithLost(stop[p].states, gone) IN
          LET over == {i \in DOMAIN states : states[i] \in Done} IN
          Waiting(states) = {} /\ Late(p, states, over) = {}
    BY <2>2
  <2>4. QuietOf(p) /\ Calm(p)
    BY <2>2 DEF DownInv, Calm
  <2> DEFINE states == WithLost(stop[p].states, gone)
  <2>5. DOMAIN states = DOMAIN stop[p].states
    BY DEF WithLost
  <2>6. \A i \in DOMAIN states : Quiet(i[1]) /\ i \in Items /\ states[i] \in Done
    BY <2>2, <2>3, <2>4, <2>5, ListedQuiet
  <2>7. Late(p, states, {i \in DOMAIN states : states[i] \in Done}) = {}
    BY <2>3
  <2> HIDE DEF states
  <2>8. \A u \in sent[p] : Quiet(u)
    BY <2>2, <2>4, <2>6, <2>7, OwnQuiet
  <2>9. \A row \in stop[p].rows : Quiet(row[1])
    BY <2>2, <2>4, <2>5, <2>6, <2>8 DEF QuietOf, RowsSeen, Quiet
  <2>10. Quiet(t)
    BY <2>8, <2>9 DEF Sent
  <2> QED BY <2>2, <2>10 DEF Quiet, Over, CanStart
<1> QED BY <1>1, Quiets, PTL DEF Spec, DownIsQuiet
=============================================================================
