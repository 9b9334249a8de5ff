--------------------------- MODULE Envelope_proofs ---------------------------
(***************************************************************************)
(* Proofs about Envelope: its types, that the holds cover what can bill,   *)
(* that a `down` is true, that the caps and the ceiling are kept, and that *)
(* a stop holds.                                                           *)
(***************************************************************************)
EXTENDS Envelope, FiniteSums_proofs, TLAPS

Places ==
  {"idle", "offer", "rebind", "held", "read", "reserve", "exhaust", "write", "submit", "end", "endread",
   "status", "scancel", "cancelled", "shut", "stopping", "close", "choose", "killing", "releasing",
   "answering", "answer", "hand", "metering", "adopt", "over", "chosen"}

(* Where a coroutine waits for a reading.                                  *)
ReadPlaces ==
  {"offer", "read", "endread", "status", "cancelled", "stopping", "answering", "metering", "chosen"}

(* Where an admission has nothing reserved yet, and where it has.          *)
Before == {"offer", "rebind", "held", "read", "reserve", "exhaust"}
After == {"write", "submit", "end", "endread"}

RowStates == JOB_LIVE \cup {"none", "ended", "refused"}

-----------------------------------------------------------------------------
(* Types: those of TypeOK, and of the memory of the coroutines.            *)

EnvelopeTyped ==
  envelope \in [Envs -> [state : States, approved_by : Servers \cup {None}, cap : Nat, metered : BOOLEAN,
                         un : [Jobs -> Nat]]]
JobsTyped == job \in [Jobs -> JobRows]
WorldTyped ==
  /\ past \subseteq Envs /\ barred \subseteq Envs /\ asked \in BOOLEAN
  /\ sched \in [Jobs -> {"no", "pending", "running", "ended", "cancelled"}]
  /\ wire \in [Jobs -> {"no", "sent", "took", "refused", "lost"}]
  /\ alive \subseteq Servers
AtTyped == at \in [Servers -> [job : Jobs \cup {None}, env : Envs \cup {None}, ok : BOOLEAN]]
HandTyped ==
  hand \in [row : {"none", "open", "closed"}, env : Envs \cup {None}, ended : BOOLEAN, after : SUBSET HandJobs]
PcTyped == pc \in [Servers -> [Coroutines -> Places]]
DoingTyped ==
  /\ doing \in [Servers -> [env : Envs \cup {None}, choice : Calls \cup {None, "envelope", "job"},
                            kills : SUBSET Jobs, rows : SUBSET Jobs,
                            next : {"idle", "status", "choose", "answer"}]]
  /\ \A s \in Servers : pc[s]["call"] \in {"hand", "metering", "adopt", "over"} => doing[s].next # "idle"
SnapshotRows == [state : RowStates, env : Envs \cup {None}, native : BOOLEAN]
ReadingTyped ==
  /\ DOMAIN reading = Servers /\ \A s \in Servers : DOMAIN reading[s] = Coroutines
  /\ \A s \in Servers, k \in Coroutines :
       pc[s][k] \in ReadPlaces => reading[s][k].rows \in [Jobs -> SnapshotRows]

TypeInv ==
  /\ EnvelopeTyped /\ JobsTyped /\ WorldTyped /\ AtTyped /\ HandTyped
  /\ PcTyped /\ DoingTyped /\ ReadingTyped

(* What TypeOK asks for.                                                   *)
LEMMA TypesOK == TypeInv => TypeOK
BY DEF TypeInv, TypeOK, EnvelopeTyped, JobsTyped, WorldTyped, AtTyped

(* One coroutine goes on; the others stay where they are.                  *)
LEMMA GoesTo ==
  ASSUME PcTyped, NEW s \in Servers, NEW k \in Coroutines, NEW where \in Places, Goes(s, k, where)
  PROVE  /\ PcTyped' /\ pc'[s][k] = where
         /\ \A t \in Servers, m \in Coroutines : <<t, m>> # <<s, k>> => pc'[t][m] = pc[t][m]
BY DEF PcTyped, Goes

(* It takes a new snapshot.                                                *)
Asked(s, k) ==
  reading'[s][k].rows = [j \in Jobs |-> [state |-> job'[j].state, env |-> job'[j].env, native |-> job'[j].native]]

(* Asking for a reading: its snapshot has the rows as the step leaves      *)
(* them, and the other readings stay.                                      *)
LEMMA AsksNow ==
  ASSUME ReadingTyped, NEW s \in Servers, NEW k \in Coroutines, NEW ids, NEW also, Asks(s, k, ids, also)
  PROVE  /\ DOMAIN reading' = Servers /\ \A t \in Servers : DOMAIN reading'[t] = Coroutines
         /\ Asked(s, k)
         /\ \A t \in Servers, m \in Coroutines : <<t, m>> # <<s, k>> => reading'[t][m] = reading[t][m]
BY DEF ReadingTyped, Asks, Asked

(* What a step does to the readings: those in flight stay as they are, and *)
(* a new one has the rows as they are now.                                 *)
ReadingStep ==
  /\ DOMAIN reading' = Servers /\ \A s \in Servers : DOMAIN reading'[s] = Coroutines
  /\ \A s \in Servers, k \in Coroutines :
       pc'[s][k] \in ReadPlaces =>
         Asked(s, k) \/ (pc[s][k] \in ReadPlaces /\ reading'[s][k] = reading[s][k])

(* So the snapshots keep their types.                                      *)
LEMMA SnapshotsTyped ==
  ASSUME ReadingTyped, JobsTyped', ReadingStep
  PROVE  ReadingTyped'
<1>1. ASSUME NEW s \in Servers, NEW k \in Coroutines, pc'[s][k] \in ReadPlaces
      PROVE  reading'[s][k].rows \in [Jobs -> SnapshotRows]
  <2>1. CASE Asked(s, k)
    <3>1. \A j \in Jobs : [state |-> job'[j].state, env |-> job'[j].env, native |-> job'[j].native] \in SnapshotRows
      BY DEF JobsTyped, JobRows, SnapshotRows, RowStates
    <3> QED BY <2>1, <3>1 DEF Asked
  <2>2. CASE pc[s][k] \in ReadPlaces /\ reading'[s][k] = reading[s][k]
    BY <2>2 DEF ReadingTyped
  <2> QED BY <1>1, <2>1, <2>2 DEF ReadingStep
<1> QED BY <1>1 DEF ReadingTyped, ReadingStep

(* A coroutine that asks, one that does not, and a step of no coroutine.   *)
LEMMA AsksStep ==
  ASSUME PcTyped, ReadingTyped, NEW s \in Servers, NEW k \in Coroutines, NEW where \in Places,
         Goes(s, k, where), NEW ids, NEW also, Asks(s, k, ids, also)
  PROVE  ReadingStep
<1>1. \A t \in Servers, m \in Coroutines : <<t, m>> # <<s, k>> => pc'[t][m] = pc[t][m]
  BY GoesTo
<1> QED BY <1>1, AsksNow DEF ReadingStep

(* A coroutine that does not ask goes on elsewhere.                        *)
LEMMA NoReadStep ==
  ASSUME PcTyped, ReadingTyped, NEW s \in Servers, NEW k \in Coroutines, NEW where \in Places \ ReadPlaces,
         Goes(s, k, where), UNCHANGED reading
  PROVE  ReadingStep
<1>1. pc'[s][k] = where /\ \A t \in Servers, m \in Coroutines : <<t, m>> # <<s, k>> => pc'[t][m] = pc[t][m]
  BY GoesTo
<1> QED BY <1>1 DEF ReadingStep, ReadingTyped

(* A step of no coroutine.                                                 *)
LEMMA QuietStep ==
  ASSUME ReadingTyped, UNCHANGED <<pc, reading>>
  PROVE  ReadingStep
BY DEF ReadingStep, ReadingTyped

-----------------------------------------------------------------------------
(* What a reading writes.                                                  *)

(* A reading has the rows of its snapshot; what it says of a job is what   *)
(* the scheduler has, or nothing.                                          *)
LEMMA AnswerOf ==
  ASSUME NEW s, NEW k, NEW r \in Answers(s, k)
  PROVE  /\ r.rows = reading[s][k].rows /\ r.ids = reading[s][k].ids /\ r.envs = reading[s][k].envs
         /\ r.also = reading[s][k].also /\ r.ok \in BOOLEAN
         /\ \A j \in Jobs : r.view[j] \in {"no", sched[j]}
<1> DEFINE r0 == reading[s][k]
           answer(ok, view) ==
             [ids |-> r0.ids, also |-> r0.also, rows |-> r0.rows, envs |-> r0.envs, ok |-> ok, view |-> view]
<1>1. CASE r = answer(FALSE, [j \in Jobs |-> "no"])
  BY <1>1
<1>2. CASE r \in {answer(TRUE, [j \in Jobs |-> IF j \in late THEN "no" ELSE sched[j]]) :
                    late \in SUBSET {j \in Jobs : sched[j] \in {"pending", "running"}}}
  <2>1. PICK late \in SUBSET {j \in Jobs : sched[j] \in {"pending", "running"}} :
          r = answer(TRUE, [j \in Jobs |-> IF j \in late THEN "no" ELSE sched[j]])
    BY <1>2
  <2> QED BY <2>1
<1> QED BY <1>1, <1>2 DEF Answers

(* The row of a job, once read: as it was; refused, being too old; or what *)
(* the reading says of it.                                                 *)
KeptRow(j) == job'[j] = job[j]
StaleRow(s, r, j) == MayBeStale(s, r, j) /\ job'[j] = [job[j] EXCEPT !.state = "refused"]
FoundRow(r, j) == Found(r, j) /\ job'[j] = [job[j] EXCEPT !.native = TRUE, !.state = "queued"]
LiveRow(r, j) ==
  /\ ~(Listed(r, j) /\ r.view[j] \in Over)
  /\ \E n \in BOOLEAN, st \in JOB_LIVE :
       (job[j].native => n) /\ job'[j] = [job[j] EXCEPT !.native = n, !.state = st, !.hold = Worst[j]]
EndedRow(r, j) ==
  /\ sched[j] \in Over /\ r.view[j] = sched[j]
  /\ \E n \in BOOLEAN :
       (job[j].native => n) /\ job'[j] = [job[j] EXCEPT !.native = n, !.state = "ended", !.hold = Used(j)]

RowStep(s, r, j) ==
  \/ KeptRow(j)
  \/ r.rows[j].state # "none" /\ (StaleRow(s, r, j) \/ FoundRow(r, j) \/ LiveRow(r, j) \/ EndedRow(r, j))

(* Every row a reading writes is one of these.                             *)
LEMMA RowWritten ==
  ASSUME JobsTyped, WorldTyped, NEW s \in Servers, NEW k \in Coroutines,
         reading[s][k].rows \in [Jobs -> SnapshotRows],
         NEW r \in Answers(s, k), NEW stale \in SUBSET {j \in Jobs : MayBeStale(s, r, j)},
         job' = [j \in Jobs |-> RowRead(r, stale, j)], NEW j \in Jobs
  PROVE  RowStep(s, r, j)
<1>1. /\ r.rows[j] \in SnapshotRows /\ r.view[j] \in {"no", sched[j]}
      /\ sched[j] \in {"no", "pending", "running", "ended", "cancelled"}
  BY AnswerOf DEF WorldTyped
<1>2. job[j] \in JobRows /\ job'[j] = RowRead(r, stale, j)
  BY DEF JobsTyped
<1> DEFINE Writes1 == /\ r.rows[j].state # "none" /\ j \notin stale
                      /\ ~(Found(r, j) /\ r.rows[j].env \notin r.ids)
                      /\ r.rows[j].env \in r.ids /\ r.rows[j].state # "refused"
                      /\ ~(~Listed(r, j) /\ r.rows[j].state \notin JOB_LIVE)
<1>3. CASE r.rows[j].state = "none"
  BY <1>2, <1>3 DEF RowRead, RowStep, KeptRow
<1>4. CASE r.rows[j].state # "none" /\ j \in stale
  BY <1>2, <1>4 DEF RowRead, RowStep, StaleRow
<1>5. CASE r.rows[j].state # "none" /\ j \notin stale /\ Found(r, j) /\ r.rows[j].env \notin r.ids
  BY <1>2, <1>5 DEF RowRead, RowStep, FoundRow, JobRows
<1>6. CASE /\ r.rows[j].state # "none" /\ j \notin stale /\ ~(Found(r, j) /\ r.rows[j].env \notin r.ids)
           /\ \/ r.rows[j].env \notin r.ids \/ r.rows[j].state = "refused"
              \/ ~Listed(r, j) /\ r.rows[j].state \notin JOB_LIVE
  BY <1>2, <1>6 DEF RowRead, RowStep, KeptRow
<1>7. CASE Writes1
  <2>1. job'[j] = [job[j] EXCEPT !.native = @ \/ Found(r, j), !.state = StateOf(r, j), !.hold = ReadingOf(r, j)]
    BY <1>2, <1>7 DEF RowRead, JobRows
  <2> DEFINE n == job[j].native \/ Found(r, j)
  <2>2. n \in BOOLEAN /\ (job[j].native => n)
    BY <1>2 DEF JobRows
  <2>3. CASE Listed(r, j) /\ r.view[j] \in Over
    <3>1. StateOf(r, j) = "ended" /\ ReadingOf(r, j) = Used(j) /\ sched[j] \in Over /\ r.view[j] = sched[j]
      BY <1>1, <2>3 DEF StateOf, ReadingOf, Over
    <3> QED BY <1>7, <2>1, <2>2, <3>1 DEF RowStep, EndedRow
  <2>4. CASE ~(Listed(r, j) /\ r.view[j] \in Over)
    <3>1. ReadingOf(r, j) = Worst[j]
      BY <2>4 DEF ReadingOf
    <3>2. CASE Listed(r, j)
      <4>1. r.view[j] \in {"pending", "running"}
        BY <1>1, <2>4, <3>2 DEF Listed, Over
      <4>2. StateOf(r, j) \in JOB_LIVE
        BY <4>1, <3>2 DEF StateOf, JOB_LIVE
      <4> QED BY <1>7, <2>1, <2>2, <2>4, <3>1, <4>2 DEF RowStep, LiveRow
    <3>3. CASE ~Listed(r, j)
      <4>1. ~Found(r, j) /\ r.rows[j].state \in JOB_LIVE
        BY <1>7, <3>3 DEF Listed, Known, Found
      <4>2. StateOf(r, j) \in JOB_LIVE
        BY <4>1, <3>3 DEF StateOf
      <4> QED BY <1>7, <2>1, <2>2, <2>4, <3>1, <4>2 DEF RowStep, LiveRow
    <3> QED BY <3>2, <3>3
  <2> QED BY <2>3, <2>4
<1> QED BY <1>3, <1>4, <1>5, <1>6, <1>7

(* Its type.                                                               *)
LEMMA RowStepTyped ==
  ASSUME JobsTyped, NEW s, NEW r, NEW j \in Jobs, RowStep(s, r, j)
  PROVE  job'[j] \in JobRows
<1>1. job[j] \in JobRows /\ Worst[j] \in Nat /\ Used(j) \in Nat
  BY EnvelopeAssumption DEF JobsTyped, Used
<1> QED BY <1>1 DEF RowStep, KeptRow, StaleRow, FoundRow, LiveRow, EndedRow, JobRows, JOB_LIVE
-----------------------------------------------------------------------------
(* A reading writes typed rows, and nothing of the world.                  *)
LEMMA WritesTyped ==
  ASSUME TypeInv, NEW s \in Servers, NEW k \in Coroutines, pc[s][k] \in ReadPlaces,
         NEW r \in Answers(s, k), Writes(s, k, r)
  PROVE  /\ JobsTyped' /\ EnvelopeTyped'
         /\ UNCHANGED <<hand, world, alive, barred, asked>>
         /\ \A j \in Jobs : RowStep(s, r, j)
<1>1. PICK stale \in SUBSET {j \in Jobs : MayBeStale(s, r, j)} :
        /\ job' = [j \in Jobs |-> RowRead(r, stale, j)]
        /\ envelope' = [e \in Envs |->
             IF e \notin r.ids THEN envelope[e]
             ELSE [envelope[e] EXCEPT !.un = [j \in Jobs |-> Unledgered(r, e, j)],
                                      !.state = StateRead(r, stale, e),
                                      !.metered = @ \/ r.ok]]
  BY DEF Writes
<1>2. reading[s][k].rows \in [Jobs -> SnapshotRows]
  BY DEF TypeInv, ReadingTyped
<1>3. \A j \in Jobs : RowStep(s, r, j)
  BY <1>1, <1>2, RowWritten DEF TypeInv
<1>4. JobsTyped'
  <2>1. \A j \in Jobs : job'[j] \in JobRows
    BY <1>3, RowStepTyped DEF TypeInv
  <2> QED BY <1>1, <2>1 DEF JobsTyped
<1>5. EnvelopeTyped'
  <2>1. ASSUME NEW e \in Envs PROVE [j \in Jobs |-> Unledgered(r, e, j)] \in [Jobs -> Nat]
    <3>1. \A j \in Jobs : envelope[e].un[j] \in Nat /\ Worst[j] \in Nat /\ Used(j) \in Nat
      BY EnvelopeAssumption DEF TypeInv, EnvelopeTyped, Used
    <3> QED BY <3>1 DEF Unledgered
  <2>2. ASSUME NEW e \in Envs PROVE StateRead(r, stale, e) \in States
    BY DEF StateRead, States, TypeInv, EnvelopeTyped
  <2>3. r.ok \in BOOLEAN
    BY AnswerOf
  <2>4. ASSUME NEW e \in Envs
        PROVE  envelope'[e] \in [state : States, approved_by : Servers \cup {None}, cap : Nat, metered : BOOLEAN,
                                 un : [Jobs -> Nat]]
    BY <1>1, <2>1, <2>2, <2>3 DEF TypeInv, EnvelopeTyped
  <2> QED BY <1>1, <2>4 DEF EnvelopeTyped
<1> QED BY <1>3, <1>4, <1>5 DEF Writes

(* Its coroutine goes on, its snapshot gone.                               *)
LEMMA WritesStep ==
  ASSUME TypeInv, NEW s \in Servers, NEW k \in Coroutines,
         NEW r \in Answers(s, k), Writes(s, k, r), NEW where \in Places \ ReadPlaces, Goes(s, k, where)
  PROVE  ReadingStep
<1>1. reading' = [reading EXCEPT ![s][k] = NoReading]
  BY DEF Writes
<1>2. pc'[s][k] = where /\ \A t \in Servers, m \in Coroutines : <<t, m>> # <<s, k>> => pc'[t][m] = pc[t][m]
  BY GoesTo DEF TypeInv
<1> QED BY <1>1, <1>2 DEF ReadingStep, TypeInv, ReadingTyped

(* A reading in flight ends, and its coroutine goes on.                    *)
LEMMA ReadsDone ==
  ASSUME TypeInv, NEW s \in Servers, NEW k \in Coroutines, NEW from \in ReadPlaces, Reads(s, k, from),
         NEW where \in Places \ ReadPlaces, Goes(s, k, where)
  PROVE  /\ PcTyped' /\ ReadingStep /\ JobsTyped' /\ EnvelopeTyped'
         /\ UNCHANGED <<hand, world, alive, barred, asked>>
<1>1. PICK r \in Answers(s, k) : Writes(s, k, r)
  BY DEF Reads
<1>2. pc[s][k] \in ReadPlaces
  BY DEF Reads
<1> QED BY <1>1, <1>2, WritesTyped, WritesStep, GoesTo DEF TypeInv

ForHands == {"hand", "metering", "adopt", "over"}

(* What a call remembers keeps its type: as it was, or set.                *)
LEMMA DoingStays ==
  ASSUME PcTyped, DoingTyped, NEW s \in Servers, NEW k \in Coroutines, NEW where \in Places, Goes(s, k, where),
         where \in ForHands => k = "call" /\ pc[s]["call"] \in ForHands, UNCHANGED doing
  PROVE  DoingTyped'
<1>1. pc'[s][k] = where /\ \A t \in Servers, m \in Coroutines : <<t, m>> # <<s, k>> => pc'[t][m] = pc[t][m]
  BY GoesTo
<1> QED BY <1>1 DEF DoingTyped, ForHands, Coroutines

DoingRows == [env : Envs \cup {None}, choice : Calls \cup {None, "envelope", "job"},
              kills : SUBSET Jobs, rows : SUBSET Jobs, next : {"idle", "status", "choose", "answer"}]

(* A call remembers something else.                                        *)
LEMMA DoingSet ==
  ASSUME PcTyped, DoingTyped, NEW s \in Servers, NEW where \in Places, Goes(s, "call", where),
         NEW d \in DoingRows, doing' = [doing EXCEPT ![s] = d], where \in ForHands => d.next # "idle"
  PROVE  DoingTyped'
<1>1. /\ pc'[s]["call"] = where
      /\ \A t \in Servers, m \in Coroutines : <<t, m>> # <<s, "call">> => pc'[t][m] = pc[t][m]
  BY GoesTo DEF Coroutines
<1>2. doing' \in [Servers -> DoingRows]
  BY DEF DoingTyped, DoingRows
<1>3. ASSUME NEW t \in Servers, pc'[t]["call"] \in ForHands PROVE doing'[t].next # "idle"
  BY <1>1, <1>2, <1>3 DEF DoingTyped, ForHands, Coroutines
<1> QED BY <1>2, <1>3 DEF DoingTyped, DoingRows, ForHands

(* A call goes on, or ends and forgets.                                    *)
LEMMA CallGoesDoing ==
  ASSUME PcTyped, DoingTyped, NEW s \in Servers, NEW where \in Places \ ForHands, CallGoes(s, where)
  PROVE  DoingTyped'
<1>1. Goes(s, "call", where) /\ "call" \in Coroutines
  BY DEF CallGoes, Coroutines
<1>2. CASE where = "idle"
  <2>1. doing' = [doing EXCEPT ![s] = NoCall] /\ NoCall \in DoingRows
    BY <1>2 DEF CallGoes, NoCall, DoingRows
  <2> QED BY <1>1, <2>1, DoingSet
<1>3. CASE where # "idle"
  BY <1>1, <1>3, DoingStays DEF CallGoes
<1> QED BY <1>2, <1>3

(* An admission goes on, or ends and forgets.                              *)
LEMMA MovesAt ==
  ASSUME AtTyped, NEW s \in Servers, NEW where, Moves(s, where)
  PROVE  AtTyped'
<1>1. NoAdmission \in [job : Jobs \cup {None}, env : Envs \cup {None}, ok : BOOLEAN]
  BY DEF NoAdmission
<1> QED BY <1>1 DEF AtTyped, Moves

EnvelopeRows ==
  [state : States, approved_by : Servers \cup {None}, cap : Nat, metered : BOOLEAN, un : [Jobs -> Nat]]

(* A row of the ledger gets another state, owner or cap.                   *)
LEMMA EnvelopeRowSet ==
  ASSUME NEW f \in [Envs -> EnvelopeRows], NEW e
  PROVE  /\ \A st \in States : [f EXCEPT ![e].state = st] \in [Envs -> EnvelopeRows]
         /\ \A s \in Servers : [f EXCEPT ![e].approved_by = s] \in [Envs -> EnvelopeRows]
         /\ \A c \in Caps : [f EXCEPT ![e].cap = c] \in [Envs -> EnvelopeRows]
BY EnvelopeAssumption DEF EnvelopeRows

(* The writes of the actions to a row of the envelope table.               *)
LEMMA EnvelopeSet ==
  ASSUME EnvelopeTyped, NEW e,
         \/ \E st \in States : envelope' = [envelope EXCEPT ![e].state = st]
         \/ \E s \in Servers : envelope' = [envelope EXCEPT ![e].approved_by = s]
         \/ \E c \in Caps : envelope' = [envelope EXCEPT ![e].cap = c]
         \/ \E s \in Servers, c \in Caps : envelope' = [envelope EXCEPT ![e].approved_by = s, ![e].cap = c]
         \/ \E s \in Servers, c \in Caps, st \in States :
              envelope' = [envelope EXCEPT ![e].state = st, ![e].approved_by = s, ![e].cap = c]
  PROVE  EnvelopeTyped'
<1>1. envelope \in [Envs -> EnvelopeRows]
  BY DEF EnvelopeTyped, EnvelopeRows
<1>2. SUFFICES envelope' \in [Envs -> EnvelopeRows]
  BY DEF EnvelopeTyped, EnvelopeRows
<1>3. CASE \E st \in States : envelope' = [envelope EXCEPT ![e].state = st]
  <2>1. PICK st \in States : envelope' = [envelope EXCEPT ![e].state = st]
    BY <1>3
  <2>2. [envelope EXCEPT ![e].state = st] \in [Envs -> EnvelopeRows]
    BY <1>1, EnvelopeRowSet
  <2> QED BY <2>1, <2>2
<1>4. CASE \E s \in Servers : envelope' = [envelope EXCEPT ![e].approved_by = s]
  <2>1. PICK s \in Servers : envelope' = [envelope EXCEPT ![e].approved_by = s]
    BY <1>4
  <2>2. [envelope EXCEPT ![e].approved_by = s] \in [Envs -> EnvelopeRows]
    BY <1>1, EnvelopeRowSet
  <2> QED BY <2>1, <2>2
<1>5. CASE \E c \in Caps : envelope' = [envelope EXCEPT ![e].cap = c]
  <2>1. PICK c \in Caps : envelope' = [envelope EXCEPT ![e].cap = c]
    BY <1>5
  <2>2. [envelope EXCEPT ![e].cap = c] \in [Envs -> EnvelopeRows]
    BY <1>1, EnvelopeRowSet
  <2> QED BY <2>1, <2>2
<1>6. CASE \E s \in Servers, c \in Caps : envelope' = [envelope EXCEPT ![e].approved_by = s, ![e].cap = c]
  <2>1. PICK s \in Servers, c \in Caps : envelope' = [envelope EXCEPT ![e].approved_by = s, ![e].cap = c]
    BY <1>6
  <2> DEFINE f1 == [envelope EXCEPT ![e].approved_by = s]
  <2>2. f1 \in [Envs -> EnvelopeRows]
    BY <1>1, EnvelopeRowSet
  <2>3. envelope' = [f1 EXCEPT ![e].cap = c]
    BY <1>1, <2>1 DEF EnvelopeRows
  <2> HIDE DEF f1
  <2> QED BY <2>2, <2>3, EnvelopeRowSet
<1>7. CASE \E s \in Servers, c \in Caps, st \in States :
             envelope' = [envelope EXCEPT ![e].state = st, ![e].approved_by = s, ![e].cap = c]
  <2>1. PICK s \in Servers, c \in Caps, st \in States :
          envelope' = [envelope EXCEPT ![e].state = st, ![e].approved_by = s, ![e].cap = c]
    BY <1>7
  <2> DEFINE f1 == [envelope EXCEPT ![e].state = st]
             f2 == [f1 EXCEPT ![e].approved_by = s]
  <2>2. f1 \in [Envs -> EnvelopeRows]
    BY <1>1, EnvelopeRowSet
  <2>3. f2 \in [Envs -> EnvelopeRows]
    <3> HIDE DEF f1
    <3> QED BY <2>2, EnvelopeRowSet
  <2>4. envelope' = [f2 EXCEPT ![e].cap = c]
    BY <1>1, <2>1 DEF EnvelopeRows
  <2> HIDE DEF f2
  <2> QED BY <2>3, <2>4, EnvelopeRowSet
<1> QED BY <1>3, <1>4, <1>5, <1>6, <1>7

(* A row of the job table gets another state, or its scheduler id.         *)
LEMMA JobRowSet ==
  ASSUME NEW f \in [Jobs -> JobRows], NEW j
  PROVE  /\ \A st \in RowStates : [f EXCEPT ![j].state = st] \in [Jobs -> JobRows]
         /\ \A n \in BOOLEAN : [f EXCEPT ![j].native = n] \in [Jobs -> JobRows]
BY DEF JobRows, RowStates

(* The writes of an admission to its job's row.                            *)
LEMMA JobSet ==
  ASSUME JobsTyped, NEW j,
         \/ \E st \in RowStates : job' = [job EXCEPT ![j].state = st]
         \/ \E st \in RowStates : job' = [job EXCEPT ![j].state = st, ![j].native = TRUE]
  PROVE  JobsTyped'
<1>1. job \in [Jobs -> JobRows]
  BY DEF JobsTyped
<1>2. CASE \E st \in RowStates : job' = [job EXCEPT ![j].state = st]
  BY <1>1, <1>2, JobRowSet DEF JobsTyped
<1>3. CASE \E st \in RowStates : job' = [job EXCEPT ![j].state = st, ![j].native = TRUE]
  <2>1. PICK st \in RowStates : job' = [job EXCEPT ![j].state = st, ![j].native = TRUE]
    BY <1>3
  <2> DEFINE f1 == [job EXCEPT ![j].state = st]
  <2>2. f1 \in [Jobs -> JobRows]
    BY <1>1, JobRowSet
  <2>3. job' = [f1 EXCEPT ![j].native = TRUE]
    BY <1>1, <2>1 DEF JobRows
  <2> HIDE DEF f1
  <2> QED BY <2>2, <2>3, JobRowSet DEF JobsTyped
<1> QED BY <1>2, <1>3

(* What a cancel remembers.                                                *)
LEMMA CancelDoing ==
  ASSUME PcTyped, DoingTyped, NEW s \in Servers, NEW e \in Envs \cup {None}, NEW rows \in SUBSET Jobs,
         NEW js \in SUBSET Jobs, NEW choice \in {"envelope", "job"}, NEW acting \in BOOLEAN,
         Cancel(s, e, rows, js, choice, acting)
  PROVE  DoingTyped'
<1> DEFINE kills == IF acting THEN Natives(js) \cup ByName(s, js) ELSE {}
           d == [NoCall EXCEPT !.env = e, !.choice = choice, !.kills = kills, !.rows = rows]
<1>1. kills \in SUBSET Jobs
  BY DEF Natives, ByName
<1>2. d \in DoingRows
  BY <1>1 DEF DoingRows, NoCall
<1>3. doing' = [doing EXCEPT ![s] = d]
  BY DEF Cancel
<1>4. \E where \in {"scancel", "cancelled"} : Goes(s, "call", where)
  BY DEF Cancel
<1> QED BY <1>2, <1>3, <1>4, DoingSet DEF Places, ForHands

(* Every step keeps the types, and takes its snapshots of the rows as they *)
(* are.                                                                    *)
LEMMA TypesKept == ASSUME TypeInv, Next \/ UNCHANGED vars PROVE TypeInv' /\ ReadingStep
<1>1. ASSUME NEW s \in Servers, NEW j \in Jobs, SubmitNew(s, j) PROVE TypeInv' /\ ReadingStep
  <2>1. PcTyped' /\ ReadingStep
    BY <1>1, GoesTo, NoReadStep DEF TypeInv, SubmitNew, Places, ReadPlaces, Coroutines
  <2>2. DoingTyped'
    BY <1>1, DoingStays DEF TypeInv, DoingTyped, ForHands, SubmitNew, Places, Coroutines
  <2>3. EnvelopeTyped' /\ JobsTyped' /\ HandTyped'
    BY <1>1 DEF TypeInv, EnvelopeTyped, JobsTyped, HandTyped, ledger, world, memory, SubmitNew
  <2>4. WorldTyped'
    BY <1>1 DEF TypeInv, WorldTyped, ledger, world, memory, SubmitNew
  <2>5. AtTyped'
    BY <1>1 DEF TypeInv, AtTyped, NoAdmission, memory, SubmitNew, Submits
  <2> QED BY <2>1, <2>2, <2>3, <2>4, <2>5, SnapshotsTyped DEF TypeInv
<1>2. ASSUME NEW s \in Servers, NEW j \in Jobs, NEW e \in Envs, SubmitInto(s, j, e) PROVE TypeInv' /\ ReadingStep
  <2>1. PcTyped' /\ ReadingStep
    BY <1>2, GoesTo, AsksStep, NoReadStep DEF TypeInv, DoingTyped, SubmitInto, Places, ReadPlaces, Coroutines
  <2>2. DoingTyped'
    BY <1>2, DoingStays DEF TypeInv, DoingTyped, ForHands, SubmitInto, Places, Coroutines
  <2>31. EnvelopeTyped'
    BY <1>2, EnvelopeSet DEF TypeInv, EnvelopeTyped, States, SubmitInto
  <2>32. JobsTyped' /\ HandTyped'
    BY <1>2, EnvelopeAssumption DEF TypeInv, JobsTyped, HandTyped, ledger, SubmitInto
  <2>4. WorldTyped'
    BY <1>2 DEF TypeInv, WorldTyped, ledger, world, memory, SubmitInto
  <2>5. AtTyped'
    BY <1>2 DEF TypeInv, AtTyped, NoAdmission, memory, SubmitInto, Submits
  <2> QED BY <2>1, <2>2, <2>31, <2>32, <2>4, <2>5, SnapshotsTyped DEF TypeInv
<1>3. ASSUME NEW s \in Servers, NEW j \in Jobs, NEW e \in Envs, SubmitOffered(s, j, e) PROVE TypeInv' /\ ReadingStep
  <2>1. PcTyped' /\ ReadingStep
    BY <1>3, GoesTo, AsksStep, NoReadStep DEF TypeInv, DoingTyped, SubmitOffered, Places, ReadPlaces, Coroutines
  <2>2. DoingTyped'
    BY <1>3, DoingStays DEF TypeInv, DoingTyped, ForHands, SubmitOffered, Places, Coroutines
  <2>3. EnvelopeTyped' /\ JobsTyped' /\ HandTyped'
    BY <1>3 DEF TypeInv, EnvelopeTyped, JobsTyped, HandTyped, ledger, world, memory, SubmitOffered
  <2>4. WorldTyped'
    BY <1>3 DEF TypeInv, WorldTyped, ledger, world, memory, SubmitOffered
  <2>5. AtTyped'
    BY <1>3 DEF TypeInv, AtTyped, NoAdmission, memory, SubmitOffered, Submits
  <2> QED BY <2>1, <2>2, <2>3, <2>4, <2>5, SnapshotsTyped DEF TypeInv
<1>4. ASSUME NEW s \in Servers, OfferRead(s) PROVE TypeInv' /\ ReadingStep
  <2>1. PcTyped' /\ ReadingStep
    BY <1>4, ReadsDone DEF OfferRead, Places, ReadPlaces, Coroutines
  <2>2. DoingTyped'
    BY <1>4, DoingStays DEF TypeInv, DoingTyped, ForHands, OfferRead, Places, Coroutines, Reads
  <2>3. EnvelopeTyped' /\ JobsTyped' /\ HandTyped' /\ WorldTyped'
    BY <1>4, ReadsDone DEF TypeInv, HandTyped, WorldTyped, world, OfferRead, Places, ReadPlaces, Coroutines
  <2>5. AtTyped'
    BY <1>4 DEF TypeInv, AtTyped, NoAdmission, memory, OfferRead
  <2> QED BY <2>1, <2>2, <2>3, <2>5, SnapshotsTyped DEF TypeInv
<1>5. ASSUME NEW s \in Servers, Rebind(s) PROVE TypeInv' /\ ReadingStep
  <2>1. PcTyped' /\ ReadingStep
    BY <1>5, GoesTo, AsksStep, NoReadStep DEF TypeInv, DoingTyped, Rebind, Places, ReadPlaces, Coroutines
  <2>2. DoingTyped'
    BY <1>5, DoingStays DEF TypeInv, DoingTyped, ForHands, Rebind, Places, Coroutines
  <2>31. EnvelopeTyped'
    <3>1. \/ envelope' = [envelope EXCEPT ![at[s].env].approved_by = s]
          \/ \E c \in Caps : envelope' = [envelope EXCEPT ![at[s].env].approved_by = s, ![at[s].env].cap = c]
      BY <1>5 DEF Rebind
    <3> QED BY <3>1, EnvelopeSet DEF TypeInv
  <2>32. JobsTyped' /\ HandTyped'
    BY <1>5, EnvelopeAssumption DEF TypeInv, JobsTyped, HandTyped, ledger, Rebind
  <2>4. WorldTyped'
    BY <1>5 DEF TypeInv, WorldTyped, ledger, world, memory, Rebind
  <2>5. AtTyped'
    BY <1>5 DEF TypeInv, AtTyped, NoAdmission, memory, Rebind
  <2> QED BY <2>1, <2>2, <2>31, <2>32, <2>4, <2>5, SnapshotsTyped DEF TypeInv
<1>6. ASSUME NEW s \in Servers, OpenEnvelope(s) PROVE TypeInv' /\ ReadingStep
  <2>1. PcTyped' /\ ReadingStep
    BY <1>6, GoesTo, AsksStep, NoReadStep DEF TypeInv, DoingTyped, OpenEnvelope, Places, ReadPlaces, Coroutines
  <2>2. DoingTyped'
    BY <1>6, DoingStays DEF TypeInv, DoingTyped, ForHands, OpenEnvelope, Places, Coroutines
  <2>31. EnvelopeTyped'
    <3>1. \E e \in Envs, c \in Caps, st \in States :
            envelope' = [envelope EXCEPT ![e].state = st, ![e].approved_by = s, ![e].cap = c]
      BY <1>6 DEF OpenEnvelope, States
    <3> QED BY <3>1, EnvelopeSet DEF TypeInv
  <2>32. JobsTyped' /\ HandTyped'
    BY <1>6, EnvelopeAssumption DEF TypeInv, JobsTyped, HandTyped, ledger, OpenEnvelope
  <2>4. WorldTyped'
    BY <1>6 DEF TypeInv, WorldTyped, ledger, world, memory, OpenEnvelope
  <2>5. AtTyped'
    BY <1>6 DEF TypeInv, AtTyped, NoAdmission, memory, OpenEnvelope
  <2> QED BY <2>1, <2>2, <2>31, <2>32, <2>4, <2>5, SnapshotsTyped DEF TypeInv
<1>7. ASSUME NEW s \in Servers, OpensNothing(s) PROVE TypeInv' /\ ReadingStep
  <2>1. PcTyped' /\ ReadingStep
    BY <1>7, GoesTo, NoReadStep DEF TypeInv, OpensNothing, Moves, Places, ReadPlaces, Coroutines
  <2>2. DoingTyped'
    BY <1>7, DoingStays DEF TypeInv, DoingTyped, ForHands, OpensNothing, Moves, Places, Coroutines
  <2>3. EnvelopeTyped' /\ JobsTyped' /\ HandTyped'
    BY <1>7 DEF TypeInv, EnvelopeTyped, JobsTyped, HandTyped, ledger, world, memory, OpensNothing, Moves
  <2>4. WorldTyped'
    BY <1>7 DEF TypeInv, WorldTyped, ledger, world, memory, OpensNothing, Moves
  <2>5. AtTyped'
    BY <1>7, MovesAt DEF TypeInv, AtTyped, memory, OpensNothing
  <2> QED BY <2>1, <2>2, <2>3, <2>4, <2>5, SnapshotsTyped DEF TypeInv
<1>8. ASSUME NEW s \in Servers, AdmissionRead(s) PROVE TypeInv' /\ ReadingStep
  <2>1. PcTyped' /\ ReadingStep
    BY <1>8, GoesTo, WritesStep DEF TypeInv, AdmissionRead, Places, ReadPlaces, Coroutines
  <2>2. DoingTyped'
    BY <1>8, DoingStays DEF TypeInv, DoingTyped, ForHands, AdmissionRead, Places, Coroutines
  <2>3. EnvelopeTyped' /\ JobsTyped' /\ HandTyped' /\ WorldTyped'
    BY <1>8, WritesTyped DEF TypeInv, HandTyped, WorldTyped, world, AdmissionRead, ReadPlaces, Coroutines
  <2>5. AtTyped'
    BY <1>8, AnswerOf DEF TypeInv, AtTyped, NoAdmission, memory, AdmissionRead
  <2> QED BY <2>1, <2>2, <2>3, <2>5, SnapshotsTyped DEF TypeInv
<1>9. ASSUME NEW s \in Servers, Reserve(s) PROVE TypeInv' /\ ReadingStep
  <2>1. PcTyped' /\ ReadingStep
    BY <1>9, GoesTo, NoReadStep DEF TypeInv, Reserve, Moves, Places, ReadPlaces, Coroutines
  <2>2. DoingTyped'
    BY <1>9, DoingStays DEF TypeInv, DoingTyped, ForHands, Reserve, Moves, Places, Coroutines
  <2>31. EnvelopeTyped'
    BY <1>9, EnvelopeSet DEF TypeInv, EnvelopeTyped, States, Reserve
  <2>32. JobsTyped' /\ HandTyped'
    <3>1. HandTyped'
      BY <1>9 DEF TypeInv, HandTyped, Reserve
    <3> DEFINE row == [state |-> "reserved", env |-> at[s].env, native |-> FALSE, cancel |-> FALSE,
                       hold |-> Worst[at[s].job]]
    <3>2. job' = job \/ job' = [job EXCEPT ![at[s].job] = row]
      BY <1>9 DEF Reserve
    <3>3. CASE at[s].job \in Jobs
      <4>1. row \in JobRows
        BY <3>3, EnvelopeAssumption DEF TypeInv, AtTyped, JobRows, JOB_LIVE
      <4> HIDE DEF row
      <4> QED BY <3>1, <3>2, <4>1 DEF TypeInv, JobsTyped
    <3>4. CASE at[s].job \notin Jobs
      <4> HIDE DEF row
      <4>1. job \in [Jobs -> JobRows]
        BY DEF TypeInv, JobsTyped
      <4>2. [job EXCEPT ![at[s].job] = row] = job
        BY <3>4, <4>1
      <4> QED BY <3>1, <3>2, <4>1, <4>2 DEF JobsTyped
    <3> QED BY <3>1, <3>3, <3>4
  <2>4. WorldTyped'
    BY <1>9 DEF TypeInv, WorldTyped, ledger, world, memory, Reserve, Moves
  <2>5. AtTyped'
    BY <1>9, MovesAt DEF TypeInv, AtTyped, memory, Reserve
  <2> QED BY <2>1, <2>2, <2>31, <2>32, <2>4, <2>5, SnapshotsTyped DEF TypeInv
<1>10. ASSUME NEW s \in Servers, MarkExhausted(s) PROVE TypeInv' /\ ReadingStep
  <2>1. PcTyped' /\ ReadingStep
    BY <1>10, GoesTo, NoReadStep DEF TypeInv, MarkExhausted, Moves, Places, ReadPlaces, Coroutines
  <2>2. DoingTyped'
    BY <1>10, DoingStays DEF TypeInv, DoingTyped, ForHands, MarkExhausted, Moves, Places, Coroutines
  <2>31. EnvelopeTyped'
    BY <1>10, EnvelopeSet DEF TypeInv, EnvelopeTyped, States, MarkExhausted
  <2>32. JobsTyped' /\ HandTyped'
    BY <1>10 DEF TypeInv, JobsTyped, HandTyped, ledger, MarkExhausted, Moves
  <2>4. WorldTyped'
    BY <1>10 DEF TypeInv, WorldTyped, ledger, world, memory, MarkExhausted, Moves
  <2>5. AtTyped'
    BY <1>10, MovesAt DEF TypeInv, AtTyped, memory, MarkExhausted
  <2> QED BY <2>1, <2>2, <2>31, <2>32, <2>4, <2>5, SnapshotsTyped DEF TypeInv
<1>11. ASSUME NEW s \in Servers, ScriptWritten(s) PROVE TypeInv' /\ ReadingStep
  <2>1. PcTyped' /\ ReadingStep
    BY <1>11, GoesTo, NoReadStep DEF TypeInv, ScriptWritten, Moves, Places, ReadPlaces, Coroutines
  <2>2. DoingTyped'
    BY <1>11, DoingStays DEF TypeInv, DoingTyped, ForHands, ScriptWritten, Moves, Places, Coroutines
  <2>31. EnvelopeTyped' /\ HandTyped'
    BY <1>11 DEF TypeInv, EnvelopeTyped, HandTyped, ScriptWritten
  <2>32. JobsTyped'
    BY <1>11, JobSet DEF TypeInv, JobsTyped, RowStates, JOB_LIVE, ScriptWritten
  <2>4. WorldTyped'
    BY <1>11 DEF TypeInv, WorldTyped, ledger, world, memory, ScriptWritten, Moves
  <2>5. AtTyped'
    BY <1>11, MovesAt DEF TypeInv, AtTyped, memory, ScriptWritten
  <2> QED BY <2>1, <2>2, <2>31, <2>32, <2>4, <2>5, SnapshotsTyped DEF TypeInv
<1>12. ASSUME NEW s \in Servers, ScriptFails(s) PROVE TypeInv' /\ ReadingStep
  <2>1. PcTyped' /\ ReadingStep
    BY <1>12, GoesTo, NoReadStep DEF TypeInv, ScriptFails, Moves, Places, ReadPlaces, Coroutines
  <2>2. DoingTyped'
    BY <1>12, DoingStays DEF TypeInv, DoingTyped, ForHands, ScriptFails, Moves, Places, Coroutines
  <2>31. EnvelopeTyped' /\ HandTyped'
    BY <1>12 DEF TypeInv, EnvelopeTyped, HandTyped, ScriptFails
  <2>32. JobsTyped'
    BY <1>12, JobSet DEF TypeInv, JobsTyped, RowStates, JOB_LIVE, ScriptFails
  <2>4. WorldTyped'
    BY <1>12 DEF TypeInv, WorldTyped, ledger, world, memory, ScriptFails, Moves
  <2>5. AtTyped'
    BY <1>12, MovesAt DEF TypeInv, AtTyped, memory, ScriptFails
  <2> QED BY <2>1, <2>2, <2>31, <2>32, <2>4, <2>5, SnapshotsTyped DEF TypeInv
<1>13. ASSUME NEW s \in Servers, SubmitAnswered(s) PROVE TypeInv' /\ ReadingStep
  <2>1. PcTyped' /\ ReadingStep
    BY <1>13, GoesTo, NoReadStep DEF TypeInv, SubmitAnswered, Moves, Places, ReadPlaces, Coroutines
  <2>2. DoingTyped'
    BY <1>13, DoingStays DEF TypeInv, DoingTyped, ForHands, SubmitAnswered, Moves, Places, Coroutines
  <2>31. EnvelopeTyped' /\ HandTyped'
    BY <1>13 DEF TypeInv, EnvelopeTyped, HandTyped, SubmitAnswered
  <2>32. JobsTyped'
    BY <1>13, JobSet DEF TypeInv, JobsTyped, RowStates, JOB_LIVE, SubmitAnswered
  <2>4. WorldTyped'
    BY <1>13 DEF TypeInv, WorldTyped, ledger, world, memory, SubmitAnswered, Moves
  <2>5. AtTyped'
    BY <1>13, MovesAt DEF TypeInv, AtTyped, memory, SubmitAnswered
  <2> QED BY <2>1, <2>2, <2>31, <2>32, <2>4, <2>5, SnapshotsTyped DEF TypeInv
<1>14. ASSUME NEW s \in Servers, SubmitUnanswered(s) PROVE TypeInv' /\ ReadingStep
  <2>1. PcTyped' /\ ReadingStep
    BY <1>14, GoesTo, NoReadStep DEF TypeInv, SubmitUnanswered, Moves, Places, ReadPlaces, Coroutines
  <2>2. DoingTyped'
    BY <1>14, DoingStays DEF TypeInv, DoingTyped, ForHands, SubmitUnanswered, Moves, Places, Coroutines
  <2>31. EnvelopeTyped' /\ HandTyped'
    BY <1>14 DEF TypeInv, EnvelopeTyped, HandTyped, SubmitUnanswered
  <2>32. JobsTyped'
    BY <1>14, JobSet DEF TypeInv, JobsTyped, RowStates, JOB_LIVE, SubmitUnanswered
  <2>4. WorldTyped'
    BY <1>14 DEF TypeInv, WorldTyped, ledger, world, memory, SubmitUnanswered, Moves
  <2>5. AtTyped'
    BY <1>14, MovesAt DEF TypeInv, AtTyped, memory, SubmitUnanswered
  <2> QED BY <2>1, <2>2, <2>31, <2>32, <2>4, <2>5, SnapshotsTyped DEF TypeInv
<1>15. ASSUME NEW s \in Servers, EndsAtOnce(s) PROVE TypeInv' /\ ReadingStep
  <2>1. PcTyped' /\ ReadingStep
    BY <1>15, GoesTo, AsksStep, NoReadStep DEF TypeInv, DoingTyped, EndsAtOnce, Moves, Places, ReadPlaces,
        Coroutines
  <2>2. DoingTyped'
    BY <1>15, DoingStays DEF TypeInv, DoingTyped, ForHands, EndsAtOnce, Moves, Places, Coroutines
  <2>3. EnvelopeTyped' /\ JobsTyped' /\ HandTyped'
    BY <1>15 DEF TypeInv, EnvelopeTyped, JobsTyped, HandTyped, ledger, world, memory, EndsAtOnce, Moves
  <2>4. WorldTyped'
    BY <1>15 DEF TypeInv, WorldTyped, ledger, world, memory, EndsAtOnce, Moves, Scancel
  <2>5. AtTyped'
    BY <1>15, MovesAt DEF TypeInv, AtTyped, memory, EndsAtOnce
  <2> QED BY <2>1, <2>2, <2>3, <2>4, <2>5, SnapshotsTyped DEF TypeInv
<1>16. ASSUME NEW s \in Servers, EndRead(s) PROVE TypeInv' /\ ReadingStep
  <2>1. PcTyped' /\ ReadingStep
    BY <1>16, ReadsDone DEF EndRead, Moves, Places, ReadPlaces, Coroutines
  <2>2. DoingTyped'
    BY <1>16, DoingStays DEF TypeInv, DoingTyped, ForHands, EndRead, Moves, Places, Coroutines, Reads
  <2>3. EnvelopeTyped' /\ JobsTyped' /\ HandTyped' /\ WorldTyped'
    BY <1>16, ReadsDone DEF TypeInv, HandTyped, WorldTyped, world, EndRead, Moves, Places, ReadPlaces, Coroutines
  <2>5. AtTyped'
    BY <1>16, MovesAt DEF TypeInv, AtTyped, memory, EndRead
  <2> QED BY <2>1, <2>2, <2>3, <2>5, SnapshotsTyped DEF TypeInv
<1>17. ASSUME NEW s \in Servers, NEW e \in Envs, StatusCall(s, e) PROVE TypeInv' /\ ReadingStep
  <2>1. PcTyped' /\ ReadingStep
    BY <1>17, GoesTo, AsksStep, NoReadStep DEF TypeInv, DoingTyped, StatusCall, Places, ReadPlaces, Coroutines
  <2>2. DoingTyped'
    <3>1. [NoCall EXCEPT !.env = e, !.next = "status"] \in DoingRows
      BY DEF NoCall, DoingRows
    <3>2. CASE hand.row = "open"
      BY <1>17, <3>1, <3>2, DoingSet DEF TypeInv, StatusCall, Places, ForHands, NoCall
    <3>3. CASE hand.row # "open"
      BY <1>17, <3>3, DoingStays DEF TypeInv, StatusCall, Places, ForHands, Coroutines
    <3> QED BY <3>2, <3>3
  <2>3. EnvelopeTyped' /\ JobsTyped' /\ HandTyped'
    BY <1>17 DEF TypeInv, EnvelopeTyped, JobsTyped, HandTyped, ledger, world, memory, StatusCall
  <2>4. WorldTyped'
    BY <1>17 DEF TypeInv, WorldTyped, ledger, world, memory, StatusCall
  <2>5. AtTyped'
    BY <1>17 DEF TypeInv, AtTyped, NoAdmission, memory, StatusCall
  <2> QED BY <2>1, <2>2, <2>3, <2>4, <2>5, SnapshotsTyped DEF TypeInv
<1>18. ASSUME NEW s \in Servers, NEW e \in Envs, NEW mode \in {"drain", "abort"}, CancelEnvelope(s, e, mode) PROVE TypeInv' /\ ReadingStep
  <2>1. PcTyped' /\ ReadingStep
    BY <1>18, GoesTo, AsksStep, NoReadStep DEF TypeInv, DoingTyped, CancelEnvelope, Cancel, Places, ReadPlaces,
        Coroutines
  <2>2. DoingTyped'
    BY <1>18, CancelDoing DEF TypeInv, CancelEnvelope, RowsOf, LiveRows
  <2>31. EnvelopeTyped'
    <3> DEFINE st == IF Admits(e) THEN "draining" ELSE envelope[e].state
    <3>1. st \in States /\ envelope' = [envelope EXCEPT ![e].state = st]
      BY <1>18 DEF TypeInv, EnvelopeTyped, States, CancelEnvelope
    <3> QED BY <3>1, EnvelopeSet DEF TypeInv
  <2>32. JobsTyped' /\ HandTyped'
    BY <1>18 DEF TypeInv, JobsTyped, HandTyped, ledger, CancelEnvelope, Cancel, JobRows, JOB_LIVE
  <2>4. WorldTyped'
    BY <1>18 DEF TypeInv, WorldTyped, ledger, world, memory, CancelEnvelope, Cancel
  <2>5. AtTyped'
    BY <1>18 DEF TypeInv, AtTyped, NoAdmission, memory, CancelEnvelope, Cancel
  <2> QED BY <2>1, <2>2, <2>31, <2>32, <2>4, <2>5, SnapshotsTyped DEF TypeInv
<1>19. ASSUME NEW s \in Servers, NEW j \in Jobs, CancelJob(s, j) PROVE TypeInv' /\ ReadingStep
  <2>1. PcTyped' /\ ReadingStep
    BY <1>19, GoesTo, AsksStep, NoReadStep DEF TypeInv, DoingTyped, CancelJob, Cancel, Places, ReadPlaces,
        Coroutines
  <2>2. DoingTyped'
    BY <1>19, CancelDoing DEF TypeInv, CancelJob, LiveRows, JobsTyped, JobRows
  <2>31. EnvelopeTyped'
    BY <1>19 DEF TypeInv, EnvelopeTyped, CancelJob
  <2>32. JobsTyped' /\ HandTyped'
    <3>1. HandTyped'
      BY <1>19 DEF TypeInv, HandTyped, CancelJob, Cancel
    <3>2. \A x \in Jobs : [job[x] EXCEPT !.cancel = TRUE] \in JobRows /\ job[x] \in JobRows
      BY DEF TypeInv, JobsTyped, JobRows
    <3>3. job' = [x \in Jobs |-> IF x \in {j} /\ ~job[x].native /\ (TRUE \/ job[x].state = "reserved")
                                 THEN [job[x] EXCEPT !.cancel = TRUE] ELSE job[x]]
      BY <1>19 DEF CancelJob, Cancel
    <3> QED BY <3>1, <3>2, <3>3 DEF JobsTyped
  <2>4. WorldTyped'
    BY <1>19 DEF TypeInv, WorldTyped, ledger, world, memory, CancelJob, Cancel
  <2>5. AtTyped'
    BY <1>19 DEF TypeInv, AtTyped, NoAdmission, memory, CancelJob, Cancel
  <2> QED BY <2>1, <2>2, <2>31, <2>32, <2>4, <2>5, SnapshotsTyped DEF TypeInv
<1>20. ASSUME NEW s \in Servers, NEW choice \in {"stop_cancel", "stop_keep"}, StopCall(s, choice) PROVE TypeInv' /\ ReadingStep
  <2>1. PcTyped' /\ ReadingStep
    BY <1>20, GoesTo, AsksStep, NoReadStep DEF TypeInv, DoingTyped, StopCall, Places, ReadPlaces, Coroutines
  <2>2. DoingTyped'
    BY <1>20, DoingStays, DoingSet DEF TypeInv, DoingTyped, DoingRows, NoCall, ForHands, StopCall, Places,
        Coroutines
  <2>3. EnvelopeTyped' /\ JobsTyped' /\ HandTyped'
    BY <1>20 DEF TypeInv, EnvelopeTyped, JobsTyped, HandTyped, ledger, world, memory, StopCall
  <2>4. WorldTyped'
    BY <1>20 DEF TypeInv, WorldTyped, ledger, world, memory, StopCall
  <2>5. AtTyped'
    BY <1>20 DEF TypeInv, AtTyped, NoAdmission, memory, StopCall
  <2> QED BY <2>1, <2>2, <2>3, <2>4, <2>5, SnapshotsTyped DEF TypeInv
<1>21. ASSUME NEW s \in Servers, StatusRead(s) PROVE TypeInv' /\ ReadingStep
  <2>1. PcTyped' /\ ReadingStep
    BY <1>21, ReadsDone DEF StatusRead, CallGoes, Places, ReadPlaces, Coroutines
  <2>2. DoingTyped'
    BY <1>21, CallGoesDoing DEF TypeInv, ForHands, StatusRead, Places
  <2>3. EnvelopeTyped' /\ JobsTyped' /\ HandTyped' /\ WorldTyped'
    BY <1>21, ReadsDone DEF TypeInv, HandTyped, WorldTyped, world, StatusRead, CallGoes, Places, ReadPlaces,
        Coroutines
  <2>5. AtTyped'
    BY <1>21 DEF TypeInv, AtTyped, NoAdmission, memory, StatusRead, CallGoes
  <2> QED BY <2>1, <2>2, <2>3, <2>5, SnapshotsTyped DEF TypeInv
<1>22. ASSUME NEW s \in Servers, CancelSent(s) PROVE TypeInv' /\ ReadingStep
  <2>1. PcTyped' /\ ReadingStep
    BY <1>22, GoesTo, AsksStep, NoReadStep DEF TypeInv, DoingTyped, CancelSent, Places, ReadPlaces, Coroutines
  <2>2. DoingTyped'
    BY <1>22, DoingStays DEF TypeInv, DoingTyped, ForHands, CancelSent, Places, Coroutines
  <2>3. EnvelopeTyped' /\ JobsTyped' /\ HandTyped'
    BY <1>22 DEF TypeInv, EnvelopeTyped, JobsTyped, HandTyped, ledger, world, memory, CancelSent
  <2>4. WorldTyped'
    BY <1>22 DEF TypeInv, WorldTyped, ledger, world, memory, CancelSent, Scancel
  <2>5. AtTyped'
    BY <1>22 DEF TypeInv, AtTyped, NoAdmission, memory, CancelSent
  <2> QED BY <2>1, <2>2, <2>3, <2>4, <2>5, SnapshotsTyped DEF TypeInv
<1>23. ASSUME NEW s \in Servers, CancelRead(s) PROVE TypeInv' /\ ReadingStep
  <2>1. PcTyped' /\ ReadingStep
    BY <1>23, ReadsDone DEF CancelRead, CallGoes, Places, ReadPlaces, Coroutines
  <2>2. DoingTyped'
    BY <1>23, CallGoesDoing DEF TypeInv, ForHands, CancelRead, Places
  <2>3. EnvelopeTyped' /\ JobsTyped' /\ HandTyped' /\ WorldTyped'
    BY <1>23, ReadsDone DEF TypeInv, HandTyped, WorldTyped, world, CancelRead, CallGoes, Places, ReadPlaces,
        Coroutines
  <2>5. AtTyped'
    BY <1>23 DEF TypeInv, AtTyped, NoAdmission, memory, CancelRead, CallGoes
  <2> QED BY <2>1, <2>2, <2>3, <2>5, SnapshotsTyped DEF TypeInv
<1>24. ASSUME NEW s \in Servers, CancelCloses(s) PROVE TypeInv' /\ ReadingStep
  <2>1. PcTyped' /\ ReadingStep
    BY <1>24, GoesTo, NoReadStep DEF TypeInv, CancelCloses, CallGoes, Places, ReadPlaces, Coroutines
  <2>2. DoingTyped'
    BY <1>24, CallGoesDoing DEF TypeInv, ForHands, CancelCloses, Places
  <2>31. EnvelopeTyped'
    <3> DEFINE e == doing[s].env
    <3>1. envelope' = [envelope EXCEPT ![e].state =
                        IF @ = "draining" /\ doing[s].rows \cap LiveRows = {} THEN "closed" ELSE @]
      BY <1>24 DEF CancelCloses
    <3>2. CASE e \in Envs
      <4> DEFINE st == IF envelope[e].state = "draining" /\ doing[s].rows \cap LiveRows = {}
                       THEN "closed" ELSE envelope[e].state
      <4>1. st \in States /\ envelope' = [envelope EXCEPT ![e].state = st]
        BY <3>1, <3>2 DEF TypeInv, EnvelopeTyped, States
      <4> QED BY <4>1, EnvelopeSet DEF TypeInv
    <3>3. CASE e \notin Envs
      BY <3>1, <3>3 DEF TypeInv, EnvelopeTyped
    <3> QED BY <3>2, <3>3
  <2>32. JobsTyped' /\ HandTyped'
    BY <1>24 DEF TypeInv, JobsTyped, HandTyped, ledger, CancelCloses, CallGoes
  <2>4. WorldTyped'
    BY <1>24 DEF TypeInv, WorldTyped, ledger, world, memory, CancelCloses, CallGoes
  <2>5. AtTyped'
    BY <1>24 DEF TypeInv, AtTyped, NoAdmission, memory, CancelCloses, CallGoes
  <2> QED BY <2>1, <2>2, <2>31, <2>32, <2>4, <2>5, SnapshotsTyped DEF TypeInv
<1>25. ASSUME NEW s \in Servers, StopRead(s) PROVE TypeInv' /\ ReadingStep
  <2>1. PcTyped' /\ ReadingStep
    BY <1>25, ReadsDone DEF StopRead, Places, ReadPlaces, Coroutines
  <2>2. DoingTyped'
    BY <1>25, DoingStays DEF TypeInv, DoingTyped, ForHands, StopRead, Places, Coroutines, Reads
  <2>3. EnvelopeTyped' /\ JobsTyped' /\ HandTyped' /\ WorldTyped'
    BY <1>25, ReadsDone DEF TypeInv, HandTyped, WorldTyped, world, StopRead, Places, ReadPlaces, Coroutines
  <2>5. AtTyped'
    BY <1>25 DEF TypeInv, AtTyped, NoAdmission, memory, StopRead
  <2> QED BY <2>1, <2>2, <2>3, <2>5, SnapshotsTyped DEF TypeInv
<1>26. ASSUME NEW s \in Servers, StopCloses(s) PROVE TypeInv' /\ ReadingStep
  <2>1. PcTyped' /\ ReadingStep
    BY <1>26, GoesTo, NoReadStep DEF TypeInv, StopCloses, Places, ReadPlaces, Coroutines
  <2>2. DoingTyped'
    BY <1>26, DoingStays, DoingSet DEF TypeInv, DoingTyped, DoingRows, NoCall, ForHands, StopCloses, Places,
        Coroutines
  <2>31. EnvelopeTyped'
    BY <1>26 DEF TypeInv, EnvelopeTyped, States, AdmissionClosed, StopCloses
  <2>32. JobsTyped' /\ HandTyped'
    BY <1>26 DEF TypeInv, JobsTyped, HandTyped, ledger, StopCloses
  <2>4. WorldTyped'
    BY <1>26 DEF TypeInv, WorldTyped, ledger, world, memory, StopCloses
  <2>5. AtTyped'
    BY <1>26 DEF TypeInv, AtTyped, NoAdmission, memory, StopCloses
  <2> QED BY <2>1, <2>2, <2>31, <2>32, <2>4, <2>5, SnapshotsTyped DEF TypeInv
<1>27. ASSUME NEW s \in Servers, StopChooses(s) PROVE TypeInv' /\ ReadingStep
  <2>1. PcTyped' /\ ReadingStep
    BY <1>27, GoesTo, NoReadStep DEF TypeInv, StopChooses, Places, ReadPlaces, Coroutines
  <2>2. DoingTyped'
    <3> DEFINE kills == IF doing[s].choice = "stop_cancel" THEN Natives(LiveRows) \cup ByName(s, LiveRows) ELSE {}
    <3>1. doing[s] \in DoingRows /\ kills \in SUBSET Jobs
      BY DEF TypeInv, DoingTyped, DoingRows, Natives, ByName, LiveRows
    <3>2. [doing[s] EXCEPT !.kills = kills] \in DoingRows
      BY <3>1 DEF DoingRows
    <3>3. doing' = [doing EXCEPT ![s] = [doing[s] EXCEPT !.kills = kills]]
      BY <1>27 DEF StopChooses
    <3>4. \E where \in {"killing", "releasing"} : Goes(s, "call", where)
      BY <1>27 DEF StopChooses
    <3> QED BY <3>2, <3>3, <3>4, DoingSet DEF TypeInv, Places, ForHands
  <2>31. EnvelopeTyped'
    BY <1>27 DEF TypeInv, EnvelopeTyped, States, StopChooses
  <2>32. JobsTyped' /\ HandTyped'
    BY <1>27 DEF TypeInv, JobsTyped, HandTyped, ledger, StopChooses, JobRows, JOB_LIVE
  <2>4. WorldTyped'
    BY <1>27 DEF TypeInv, WorldTyped, ledger, world, memory, StopChooses
  <2>5. AtTyped'
    BY <1>27 DEF TypeInv, AtTyped, NoAdmission, memory, StopChooses
  <2> QED BY <2>1, <2>2, <2>31, <2>32, <2>4, <2>5, SnapshotsTyped DEF TypeInv
<1>28. ASSUME NEW s \in Servers, StopKills(s) PROVE TypeInv' /\ ReadingStep
  <2>1. PcTyped' /\ ReadingStep
    BY <1>28, GoesTo, NoReadStep DEF TypeInv, StopKills, Places, ReadPlaces, Coroutines
  <2>2. DoingTyped'
    BY <1>28, DoingStays DEF TypeInv, DoingTyped, ForHands, StopKills, Places, Coroutines
  <2>3. EnvelopeTyped' /\ JobsTyped' /\ HandTyped'
    BY <1>28 DEF TypeInv, EnvelopeTyped, JobsTyped, HandTyped, ledger, world, memory, StopKills
  <2>4. WorldTyped'
    BY <1>28 DEF TypeInv, WorldTyped, ledger, world, memory, StopKills, Scancel
  <2>5. AtTyped'
    BY <1>28 DEF TypeInv, AtTyped, NoAdmission, memory, StopKills
  <2> QED BY <2>1, <2>2, <2>3, <2>4, <2>5, SnapshotsTyped DEF TypeInv
<1>29. ASSUME NEW s \in Servers, StopReleases(s) PROVE TypeInv' /\ ReadingStep
  <2>1. PcTyped' /\ ReadingStep
    BY <1>29, GoesTo, AsksStep, NoReadStep DEF TypeInv, DoingTyped, StopReleases, Places, ReadPlaces, Coroutines
  <2>2. DoingTyped'
    BY <1>29, DoingStays, DoingSet DEF TypeInv, DoingTyped, DoingRows, NoCall, ForHands, StopReleases, Places,
        Coroutines
  <2>3. EnvelopeTyped' /\ JobsTyped' /\ HandTyped'
    BY <1>29 DEF TypeInv, EnvelopeTyped, JobsTyped, HandTyped, ledger, world, memory, StopReleases
  <2>4. WorldTyped'
    BY <1>29 DEF TypeInv, WorldTyped, ledger, world, memory, StopReleases
  <2>5. AtTyped'
    BY <1>29 DEF TypeInv, AtTyped, NoAdmission, memory, StopReleases
  <2> QED BY <2>1, <2>2, <2>3, <2>4, <2>5, SnapshotsTyped DEF TypeInv
<1>30. ASSUME NEW s \in Servers, StopReadAgain(s) PROVE TypeInv' /\ ReadingStep
  <2>1. PcTyped' /\ ReadingStep
    BY <1>30, ReadsDone DEF StopReadAgain, Places, ReadPlaces, Coroutines
  <2>2. DoingTyped'
    BY <1>30, DoingStays DEF TypeInv, DoingTyped, ForHands, StopReadAgain, Places, Coroutines, Reads
  <2>3. EnvelopeTyped' /\ JobsTyped' /\ HandTyped' /\ WorldTyped'
    BY <1>30, ReadsDone DEF TypeInv, HandTyped, WorldTyped, world, StopReadAgain, Places, ReadPlaces, Coroutines
  <2>5. AtTyped'
    BY <1>30 DEF TypeInv, AtTyped, NoAdmission, memory, StopReadAgain
  <2> QED BY <2>1, <2>2, <2>3, <2>5, SnapshotsTyped DEF TypeInv
<1>31. ASSUME NEW s \in Servers, StopReadHands(s) PROVE TypeInv' /\ ReadingStep
  <2>1. PcTyped' /\ ReadingStep
    BY <1>31, ReadsDone DEF StopReadHands, Places, ReadPlaces, Coroutines
  <2>2. DoingTyped'
    BY <1>31, DoingStays DEF TypeInv, DoingTyped, ForHands, StopReadHands, Places, Coroutines, Reads
  <2>3. EnvelopeTyped' /\ JobsTyped' /\ HandTyped' /\ WorldTyped'
    BY <1>31, ReadsDone DEF TypeInv, HandTyped, WorldTyped, world, StopReadHands, Places, ReadPlaces, Coroutines
  <2>5. AtTyped'
    BY <1>31 DEF TypeInv, AtTyped, NoAdmission, memory, StopReadHands
  <2> QED BY <2>1, <2>2, <2>3, <2>5, SnapshotsTyped DEF TypeInv
<1>32. ASSUME NEW s \in Servers, StopAnswers(s) PROVE TypeInv' /\ ReadingStep
  <2>1. PcTyped' /\ ReadingStep
    BY <1>32, GoesTo, NoReadStep DEF TypeInv, StopAnswers, CallGoes, Places, ReadPlaces, Coroutines
  <2>2. DoingTyped'
    BY <1>32, CallGoesDoing DEF TypeInv, ForHands, StopAnswers, Places
  <2>31. EnvelopeTyped'
    BY <1>32 DEF TypeInv, EnvelopeTyped, States, AdmissionClosed, StopAnswers
  <2>32. JobsTyped' /\ HandTyped'
    BY <1>32 DEF TypeInv, JobsTyped, HandTyped, ledger, StopAnswers, CallGoes
  <2>4. WorldTyped'
    BY <1>32 DEF TypeInv, WorldTyped, ledger, world, memory, StopAnswers, CallGoes
  <2>5. AtTyped'
    BY <1>32 DEF TypeInv, AtTyped, NoAdmission, memory, StopAnswers, CallGoes
  <2> QED BY <2>1, <2>2, <2>31, <2>32, <2>4, <2>5, SnapshotsTyped DEF TypeInv
<1>33. ASSUME NEW s \in Servers, HandRead(s) PROVE TypeInv' /\ ReadingStep
  <2>1. PcTyped' /\ ReadingStep
    BY <1>33, GoesTo, AsksStep, NoReadStep DEF TypeInv, DoingTyped, HandRead, GoesOn, Places, ReadPlaces,
        Coroutines
  <2>2. DoingTyped'
    BY <1>33, DoingStays DEF TypeInv, DoingTyped, ForHands, HandRead, GoesOn, Places, Coroutines
  <2>3. EnvelopeTyped' /\ JobsTyped' /\ HandTyped'
    BY <1>33 DEF TypeInv, EnvelopeTyped, JobsTyped, HandTyped, ledger, world, memory, HandRead, GoesOn
  <2>4. WorldTyped'
    BY <1>33 DEF TypeInv, WorldTyped, ledger, world, memory, HandRead, GoesOn
  <2>5. AtTyped'
    BY <1>33 DEF TypeInv, AtTyped, NoAdmission, memory, HandRead, GoesOn
  <2> QED BY <2>1, <2>2, <2>3, <2>4, <2>5, SnapshotsTyped DEF TypeInv
<1>34. ASSUME NEW s \in Servers, HandMetered(s) PROVE TypeInv' /\ ReadingStep
  <2>1. PcTyped' /\ ReadingStep
    BY <1>34, ReadsDone DEF HandMetered, Places, ReadPlaces, Coroutines
  <2>2. DoingTyped'
    BY <1>34, DoingStays DEF TypeInv, DoingTyped, ForHands, HandMetered, Places, Coroutines, Reads
  <2>3. EnvelopeTyped' /\ JobsTyped' /\ HandTyped' /\ WorldTyped'
    BY <1>34, ReadsDone DEF TypeInv, HandTyped, WorldTyped, world, HandMetered, Places, ReadPlaces, Coroutines
  <2>5. AtTyped'
    BY <1>34 DEF TypeInv, AtTyped, NoAdmission, memory, HandMetered
  <2> QED BY <2>1, <2>2, <2>3, <2>5, SnapshotsTyped DEF TypeInv
<1>35. ASSUME NEW s \in Servers, Adopts(s) PROVE TypeInv' /\ ReadingStep
  <2>1. PcTyped' /\ ReadingStep
    BY <1>35, GoesTo, AsksStep, NoReadStep DEF TypeInv, DoingTyped, Adopts, GoesOn, Places, ReadPlaces, Coroutines
  <2>2. DoingTyped'
    BY <1>35, DoingStays DEF TypeInv, DoingTyped, ForHands, Adopts, GoesOn, Places, Coroutines
  <2>3. EnvelopeTyped' /\ JobsTyped' /\ HandTyped'
    BY <1>35, EnvelopeAssumption DEF TypeInv, EnvelopeTyped, JobsTyped, HandTyped, ledger, world, memory, Adopts,
        GoesOn, JobRows, JOB_LIVE
  <2>4. WorldTyped'
    BY <1>35 DEF TypeInv, WorldTyped, ledger, world, memory, Adopts, GoesOn
  <2>5. AtTyped'
    BY <1>35 DEF TypeInv, AtTyped, NoAdmission, memory, Adopts, GoesOn
  <2> QED BY <2>1, <2>2, <2>3, <2>4, <2>5, SnapshotsTyped DEF TypeInv
<1>36. ASSUME NEW s \in Servers, AdoptedOverCap(s) PROVE TypeInv' /\ ReadingStep
  <2>1. PcTyped' /\ ReadingStep
    BY <1>36, GoesTo, AsksStep, NoReadStep DEF TypeInv, DoingTyped, AdoptedOverCap, GoesOn, Places, ReadPlaces,
        Coroutines
  <2>2. DoingTyped'
    BY <1>36, DoingStays DEF TypeInv, DoingTyped, ForHands, AdoptedOverCap, GoesOn, Places, Coroutines
  <2>31. EnvelopeTyped'
    BY <1>36, EnvelopeSet DEF TypeInv, EnvelopeTyped, States, AdoptedOverCap
  <2>32. JobsTyped' /\ HandTyped'
    BY <1>36 DEF TypeInv, JobsTyped, HandTyped, ledger, AdoptedOverCap, GoesOn
  <2>4. WorldTyped'
    BY <1>36 DEF TypeInv, WorldTyped, ledger, world, memory, AdoptedOverCap, GoesOn
  <2>5. AtTyped'
    BY <1>36 DEF TypeInv, AtTyped, NoAdmission, memory, AdoptedOverCap, GoesOn
  <2> QED BY <2>1, <2>2, <2>31, <2>32, <2>4, <2>5, SnapshotsTyped DEF TypeInv
<1>37. ASSUME NEW s \in Servers, ServerDies(s) PROVE TypeInv' /\ ReadingStep
  <2>1. PcTyped' /\ DoingTyped' /\ ReadingStep
    BY <1>37 DEF TypeInv, PcTyped, DoingTyped, ReadingTyped, ReadingStep, ServerDies, Places, ReadPlaces, NoCall,
        Coroutines
  <2>3. EnvelopeTyped' /\ JobsTyped' /\ HandTyped'
    BY <1>37 DEF TypeInv, EnvelopeTyped, JobsTyped, HandTyped, ledger, world, memory, ServerDies
  <2>4. WorldTyped'
    BY <1>37 DEF TypeInv, WorldTyped, ledger, world, memory, ServerDies
  <2>5. AtTyped'
    BY <1>37 DEF TypeInv, AtTyped, NoAdmission, memory, ServerDies
  <2> QED BY <2>1, <2>3, <2>4, <2>5, SnapshotsTyped DEF TypeInv
<1>38. ASSUME NEW s \in Servers, NEW e \in Envs, HandOpens(s, e) PROVE TypeInv' /\ ReadingStep
  <2>1. PcTyped' /\ DoingTyped' /\ ReadingStep
    BY <1>38, QuietStep DEF TypeInv, PcTyped, DoingTyped, memory, HandOpens
  <2>3. EnvelopeTyped' /\ JobsTyped' /\ HandTyped'
    BY <1>38 DEF TypeInv, EnvelopeTyped, JobsTyped, HandTyped, ledger, world, memory, HandOpens
  <2>4. WorldTyped'
    BY <1>38 DEF TypeInv, WorldTyped, ledger, world, memory, HandOpens
  <2>5. AtTyped'
    BY <1>38 DEF TypeInv, AtTyped, NoAdmission, memory, HandOpens
  <2> QED BY <2>1, <2>3, <2>4, <2>5, SnapshotsTyped DEF TypeInv
<1>39. ASSUME NEW j \in Jobs, SchedulerTakes(j) PROVE TypeInv' /\ ReadingStep
  <2>1. PcTyped' /\ DoingTyped' /\ ReadingStep
    BY <1>39, QuietStep DEF TypeInv, PcTyped, DoingTyped, memory, SchedulerTakes
  <2>3. EnvelopeTyped' /\ JobsTyped' /\ HandTyped'
    BY <1>39 DEF TypeInv, EnvelopeTyped, JobsTyped, HandTyped, ledger, world, memory, SchedulerTakes
  <2>4. WorldTyped'
    BY <1>39 DEF TypeInv, WorldTyped, ledger, world, memory, SchedulerTakes
  <2>5. AtTyped'
    BY <1>39 DEF TypeInv, AtTyped, NoAdmission, memory, SchedulerTakes
  <2> QED BY <2>1, <2>3, <2>4, <2>5, SnapshotsTyped DEF TypeInv
<1>40. ASSUME NEW j \in Jobs, SchedulerRefuses(j) PROVE TypeInv' /\ ReadingStep
  <2>1. PcTyped' /\ DoingTyped' /\ ReadingStep
    BY <1>40, QuietStep DEF TypeInv, PcTyped, DoingTyped, memory, SchedulerRefuses
  <2>3. EnvelopeTyped' /\ JobsTyped' /\ HandTyped'
    BY <1>40 DEF TypeInv, EnvelopeTyped, JobsTyped, HandTyped, ledger, world, memory, SchedulerRefuses
  <2>4. WorldTyped'
    BY <1>40 DEF TypeInv, WorldTyped, ledger, world, memory, SchedulerRefuses
  <2>5. AtTyped'
    BY <1>40 DEF TypeInv, AtTyped, NoAdmission, memory, SchedulerRefuses
  <2> QED BY <2>1, <2>3, <2>4, <2>5, SnapshotsTyped DEF TypeInv
<1>41. ASSUME NEW j \in Jobs, SubmitLost(j) PROVE TypeInv' /\ ReadingStep
  <2>1. PcTyped' /\ DoingTyped' /\ ReadingStep
    BY <1>41, QuietStep DEF TypeInv, PcTyped, DoingTyped, memory, SubmitLost
  <2>3. EnvelopeTyped' /\ JobsTyped' /\ HandTyped'
    BY <1>41 DEF TypeInv, EnvelopeTyped, JobsTyped, HandTyped, ledger, world, memory, SubmitLost
  <2>4. WorldTyped'
    BY <1>41 DEF TypeInv, WorldTyped, ledger, world, memory, SubmitLost
  <2>5. AtTyped'
    BY <1>41 DEF TypeInv, AtTyped, NoAdmission, memory, SubmitLost
  <2> QED BY <2>1, <2>3, <2>4, <2>5, SnapshotsTyped DEF TypeInv
<1>42. ASSUME NEW j \in Jobs, JobStarts(j) PROVE TypeInv' /\ ReadingStep
  <2>1. PcTyped' /\ DoingTyped' /\ ReadingStep
    BY <1>42, QuietStep DEF TypeInv, PcTyped, DoingTyped, memory, JobStarts
  <2>3. EnvelopeTyped' /\ JobsTyped' /\ HandTyped'
    BY <1>42 DEF TypeInv, EnvelopeTyped, JobsTyped, HandTyped, ledger, world, memory, JobStarts
  <2>4. WorldTyped'
    BY <1>42 DEF TypeInv, WorldTyped, ledger, world, memory, JobStarts
  <2>5. AtTyped'
    BY <1>42 DEF TypeInv, AtTyped, NoAdmission, memory, JobStarts
  <2> QED BY <2>1, <2>3, <2>4, <2>5, SnapshotsTyped DEF TypeInv
<1>43. ASSUME NEW j \in Jobs, JobEnds(j) PROVE TypeInv' /\ ReadingStep
  <2>1. PcTyped' /\ DoingTyped' /\ ReadingStep
    BY <1>43, QuietStep DEF TypeInv, PcTyped, DoingTyped, memory, JobEnds
  <2>3. EnvelopeTyped' /\ JobsTyped' /\ HandTyped'
    BY <1>43 DEF TypeInv, EnvelopeTyped, JobsTyped, HandTyped, ledger, world, memory, JobEnds
  <2>4. WorldTyped'
    BY <1>43 DEF TypeInv, WorldTyped, ledger, world, memory, JobEnds
  <2>5. AtTyped'
    BY <1>43 DEF TypeInv, AtTyped, NoAdmission, memory, JobEnds
  <2> QED BY <2>1, <2>3, <2>4, <2>5, SnapshotsTyped DEF TypeInv
<1>44. ASSUME NEW j \in Jobs, HandSubmits(j) PROVE TypeInv' /\ ReadingStep
  <2>1. PcTyped' /\ DoingTyped' /\ ReadingStep
    BY <1>44, QuietStep DEF TypeInv, PcTyped, DoingTyped, memory, HandSubmits
  <2>3. EnvelopeTyped' /\ JobsTyped' /\ HandTyped'
    BY <1>44 DEF TypeInv, EnvelopeTyped, JobsTyped, HandTyped, ledger, world, memory, HandSubmits
  <2>4. WorldTyped'
    BY <1>44 DEF TypeInv, WorldTyped, ledger, world, memory, HandSubmits
  <2>5. AtTyped'
    BY <1>44 DEF TypeInv, AtTyped, NoAdmission, memory, HandSubmits
  <2> QED BY <2>1, <2>3, <2>4, <2>5, SnapshotsTyped DEF TypeInv
<1>45. ASSUME HandEnds PROVE TypeInv' /\ ReadingStep
  <2>1. PcTyped' /\ DoingTyped' /\ ReadingStep
    BY <1>45, QuietStep DEF TypeInv, PcTyped, DoingTyped, memory, HandEnds
  <2>3. EnvelopeTyped' /\ JobsTyped' /\ HandTyped'
    BY <1>45 DEF TypeInv, EnvelopeTyped, JobsTyped, HandTyped, ledger, world, memory, HandEnds
  <2>4. WorldTyped'
    BY <1>45 DEF TypeInv, WorldTyped, ledger, world, memory, HandEnds
  <2>5. AtTyped'
    BY <1>45 DEF TypeInv, AtTyped, NoAdmission, memory, HandEnds
  <2> QED BY <2>1, <2>3, <2>4, <2>5, SnapshotsTyped DEF TypeInv
<1>46. ASSUME NEW e \in Envs, DeadlinePasses(e) PROVE TypeInv' /\ ReadingStep
  <2>1. PcTyped' /\ DoingTyped' /\ ReadingStep
    BY <1>46, QuietStep DEF TypeInv, PcTyped, DoingTyped, memory, DeadlinePasses
  <2>3. EnvelopeTyped' /\ JobsTyped' /\ HandTyped'
    BY <1>46 DEF TypeInv, EnvelopeTyped, JobsTyped, HandTyped, ledger, world, memory, DeadlinePasses
  <2>4. WorldTyped'
    BY <1>46 DEF TypeInv, WorldTyped, ledger, world, memory, DeadlinePasses
  <2>5. AtTyped'
    BY <1>46 DEF TypeInv, AtTyped, NoAdmission, memory, DeadlinePasses
  <2> QED BY <2>1, <2>3, <2>4, <2>5, SnapshotsTyped DEF TypeInv
<1>47. ASSUME UNCHANGED vars PROVE TypeInv' /\ ReadingStep
  <2>1. ReadingStep
    BY <1>47, QuietStep DEF vars, memory, TypeInv
  <2> QED BY <1>47, <2>1 DEF TypeInv, EnvelopeTyped, JobsTyped, WorldTyped, AtTyped, HandTyped, PcTyped, DoingTyped,
    ReadingTyped, vars, ledger, world, memory
<1> QED BY <1>1, <1>2, <1>3, <1>4, <1>5, <1>6, <1>7, <1>8, <1>9, <1>10, <1>11, <1>12, <1>13, <1>14, <1>15,
            <1>16, <1>17, <1>18, <1>19, <1>20, <1>21, <1>22, <1>23, <1>24, <1>25, <1>26, <1>27, <1>28, <1>29,
            <1>30, <1>31, <1>32, <1>33, <1>34, <1>35, <1>36, <1>37, <1>38, <1>39, <1>40, <1>41, <1>42, <1>43,
            <1>44, <1>45, <1>46, <1>47 DEF Next, Admission, AdmissionGoesOn, Call, CallGoesOn, Scheduler

-----------------------------------------------------------------------------
(* The initial state has its types.                                        *)
LEMMA TypesInit == Init => TypeInv
<1> SUFFICES ASSUME Init PROVE TypeInv
  OBVIOUS
<1>1. EnvelopeTyped
  BY DEF Init, EnvelopeTyped, States
<1>2. JobsTyped
  BY DEF Init, JobsTyped, JobRows, NoJobRow
<1>3. WorldTyped /\ AtTyped /\ HandTyped
  BY DEF Init, WorldTyped, AtTyped, HandTyped, NoAdmission
<1>4. PcTyped /\ ReadingTyped
  BY DEF Init, PcTyped, ReadingTyped, Places, ReadPlaces
<1>5. DoingTyped
  BY DEF Init, DoingTyped, NoCall, Coroutines
<1> QED BY <1>1, <1>2, <1>3, <1>4, <1>5 DEF TypeInv

(* The rows of the ledger and the memory of the servers have their types.  *)
THEOREM TypeCorrect == Spec => []TypeOK
<1>1. TypeInv /\ [Next]_vars => TypeInv'
  BY TypesKept
<1> QED BY <1>1, TypesInit, TypesOK, PTL DEF Spec

-----------------------------------------------------------------------------
(* What the holds rest on: the row of a job is there before its submit is, *)
(* holds its worst case until the job has ended, and is live while the job *)
(* can bill; the snapshots, the admissions and the hand submit agree with  *)
(* the rows.                                                               *)

RowKept(j) ==
  /\ job[j].state = "none" => job[j].env = None /\ ~job[j].native
  /\ job[j].state = "none" /\ j \notin HandJobs => wire[j] = "no"
  /\ j \in HandJobs => wire[j] = "no" /\ (job[j].state # "none" => job[j].native /\ sched[j] # "no")
  /\ j \notin HandJobs => (sched[j] # "no" <=> wire[j] = "took")
  /\ job[j].state # "none" => job[j].hold >= (IF sched[j] \in Over THEN Used(j) ELSE Worst[j])
  /\ job[j].state = "reserved" => job[j].hold >= Worst[j]
  /\ job[j].state # "none" /\ CanBill(j) => job[j].state \in JOB_LIVE
  /\ job[j].state = "refused" => sched[j] = "no"
RowsKept == \A j \in Jobs : RowKept(j)

SnapshotsKept ==
  \A s \in Servers, k \in Coroutines, j \in Jobs :
    pc[s][k] \in ReadPlaces /\ reading[s][k].rows[j].state # "none" =>
      job[j].state # "none" /\ (j \in HandJobs => reading[s][k].rows[j].native)

AdmissionKept(s) ==
  /\ pc[s]["admission"] # "idle" => at[s].job \in Jobs \ HandJobs
  /\ pc[s]["admission"] \notin {"idle", "held"} => at[s].env \in Envs
  /\ pc[s]["admission"] \in Before => job[at[s].job].state = "none"
  /\ pc[s]["admission"] \in After => job[at[s].job].state # "none"
  /\ pc[s]["admission"] = "write" => wire[at[s].job] = "no"
AdmissionsKept ==
  /\ \A s \in Servers : AdmissionKept(s)
  /\ \A s, t \in Servers :
       s # t /\ pc[s]["admission"] # "idle" /\ pc[t]["admission"] # "idle" => at[s].job # at[t].job

HandKept ==
  /\ \A j \in hand.after : sched[j] # "no"
  /\ hand.row = "none" => hand.after = {} /\ ~hand.ended
  /\ hand.row = "closed" => hand.ended /\ \A j \in hand.after : job[j].state # "none"
  /\ \A s \in Servers :
       /\ pc[s]["call"] \in {"metering", "adopt", "over"} => hand.ended
       /\ pc[s]["call"] = "over" => \A j \in hand.after : job[j].state # "none"

HoldInv == RowsKept /\ SnapshotsKept /\ AdmissionsKept /\ HandKept

(* No row and no job is forgotten.                                         *)
Remembers ==
  \A j \in Jobs : /\ job[j].state # "none" => job'[j].state # "none"
                  /\ sched[j] # "no" => sched'[j] # "no"

(* Nothing is reserved: no job of ours gets a row, or another envelope.    *)
NoneReserved ==
  \A j \in Jobs : /\ job[j].state = "none" => job'[j].state # "reserved"
                  /\ j \notin HandJobs => /\ job[j].state = "none" => job'[j].state = "none"
                                          /\ job'[j].env = job[j].env

(* The snapshots still agree with the rows: they saw rows there were, and  *)
(* rows do not go away.                                                    *)
LEMMA SnapshotsStay ==
  ASSUME ReadingTyped, SnapshotsKept, ReadingStep, RowsKept',
         \A j \in Jobs : job[j].state # "none" => job'[j].state # "none"
  PROVE  SnapshotsKept'
<1> SUFFICES ASSUME NEW s \in Servers, NEW k \in Coroutines, NEW j \in Jobs,
                    pc'[s][k] \in ReadPlaces, reading'[s][k].rows[j].state # "none"
             PROVE  job'[j].state # "none" /\ (j \in HandJobs => reading'[s][k].rows[j].native)
  BY DEF SnapshotsKept
<1>1. CASE Asked(s, k)
  <2>1. reading'[s][k].rows[j] = [state |-> job'[j].state, env |-> job'[j].env, native |-> job'[j].native]
    BY <1>1 DEF Asked
  <2> QED BY <2>1 DEF RowsKept, RowKept
<1>2. CASE pc[s][k] \in ReadPlaces /\ reading'[s][k] = reading[s][k]
  BY <1>2 DEF SnapshotsKept
<1> QED BY <1>1, <1>2 DEF ReadingStep

(* The rows, once a reading is written.                                    *)
LEMMA ReadRow ==
  ASSUME Prompt, JobsTyped, WorldTyped, NEW s \in Servers, NEW r, NEW j \in Jobs, RowKept(j), RowStep(s, r, j),
         UNCHANGED <<sched, wire>>, r.rows[j].state # "none" => job[j].state # "none"
  PROVE  /\ RowKept(j)' /\ job'[j].env = job[j].env
         /\ job[j].state # "none" => job'[j].state # "none"
         /\ job[j].state = "none" => job'[j].state = "none"
<1>1. /\ job[j] \in JobRows /\ Worst[j] \in Nat /\ Used(j) \in Nat /\ Used(j) <= Worst[j]
      /\ sched[j] \in {"no", "pending", "running", "ended", "cancelled"}
  BY EnvelopeAssumption DEF JobsTyped, WorldTyped, Used
<1>2. CanBill(j)' = CanBill(j) /\ Used(j)' = Used(j)
  BY DEF CanBill, Used
<1>3. CASE KeptRow(j)
  BY <1>2, <1>3 DEF KeptRow, RowKept
<1>4. CASE StaleRow(s, r, j) /\ job[j].state # "none"
  <2>1. job'[j] = [job[j] EXCEPT !.state = "refused"] /\ sched[j] = "no" /\ wire[j] # "sent"
    BY <1>4 DEF StaleRow, MayBeStale
  <2>2. ~CanBill(j)
    BY <2>1 DEF CanBill
  <2> QED BY <1>1, <1>2, <1>4, <2>1, <2>2 DEF RowKept, JobRows, JOB_LIVE
<1>5. CASE FoundRow(r, j) /\ job[j].state # "none"
  BY <1>1, <1>2, <1>5 DEF FoundRow, RowKept, JobRows, JOB_LIVE
<1>6. CASE LiveRow(r, j) /\ job[j].state # "none"
  <2>1. PICK n \in BOOLEAN, st \in JOB_LIVE :
          (job[j].native => n) /\ job'[j] = [job[j] EXCEPT !.native = n, !.state = st, !.hold = Worst[j]]
    BY <1>6 DEF LiveRow
  <2> QED BY <1>1, <1>2, <1>6, <2>1 DEF RowKept, JobRows, JOB_LIVE
<1>7. CASE EndedRow(r, j) /\ job[j].state # "none"
  <2>1. PICK n \in BOOLEAN :
          (job[j].native => n) /\ job'[j] = [job[j] EXCEPT !.native = n, !.state = "ended", !.hold = Used(j)]
    BY <1>7 DEF EndedRow
  <2>2. sched[j] \in Over /\ ~CanBill(j)
    BY <1>7 DEF EndedRow, CanBill, RowKept, Over
  <2> QED BY <1>1, <1>2, <1>7, <2>1, <2>2 DEF RowKept, JobRows, JOB_LIVE, Over
<1> QED BY <1>3, <1>4, <1>5, <1>6, <1>7 DEF RowStep

(* So every row is kept by a reading, however old its snapshot.            *)
LEMMA ReadRows ==
  ASSUME Prompt, TypeInv, RowsKept, SnapshotsKept, NEW s \in Servers, NEW k \in Coroutines, pc[s][k] \in ReadPlaces,
         NEW r \in Answers(s, k), Writes(s, k, r)
  PROVE  RowsKept' /\ Remembers /\ NoneReserved
<1>1. \A j \in Jobs : RowStep(s, r, j)
  BY WritesTyped
<1>2. UNCHANGED <<sched, wire>>
  BY DEF Writes, world
<1>3. r.rows = reading[s][k].rows
  BY AnswerOf
<1>4. ASSUME NEW j \in Jobs
      PROVE  /\ RowKept(j)' /\ job'[j].env = job[j].env
             /\ job[j].state # "none" => job'[j].state # "none"
             /\ job[j].state = "none" => job'[j].state = "none"
  <2>1. r.rows[j].state # "none" => job[j].state # "none"
    BY <1>3 DEF SnapshotsKept
  <2> QED BY <1>1, <1>2, <2>1, ReadRow DEF RowsKept, TypeInv
<1> QED BY <1>2, <1>4 DEF RowsKept, Remembers, NoneReserved

(* A step of the scheduler's: a job that was not ended holds its worst     *)
(* case, which is no less than what it charges.                            *)
LEMMA SchedRow ==
  ASSUME JobsTyped, NEW j \in Jobs, RowKept(j), job'[j] = job[j], wire'[j] = wire[j],
         \/ sched'[j] = sched[j]
         \/ sched[j] = "pending" /\ sched'[j] \in {"running", "cancelled"}
         \/ sched[j] = "running" /\ sched'[j] = "ended"
  PROVE  RowKept(j)' /\ (sched[j] # "no" => sched'[j] # "no")
<1>1. /\ Worst[j] \in Nat /\ Charge[j] \in Nat /\ Charge[j] <= Worst[j] /\ job[j].hold \in Nat
  BY EnvelopeAssumption DEF JobsTyped, JobRows
<1>2. Used(j)' = IF sched'[j] = "ended" THEN Charge[j] ELSE 0
  BY DEF Used
<1>3. sched'[j] # sched[j] => sched[j] \notin Over
  BY DEF Over
<1> QED BY <1>1, <1>2, <1>3 DEF RowKept, CanBill, Over, Used

(* The jobs an scancel took.                                               *)
LEMMA ScancelRows ==
  ASSUME TypeInv, RowsKept, NEW ts \in SUBSET Jobs, Scancel(ts), UNCHANGED <<job, wire>>
  PROVE  RowsKept' /\ Remembers /\ NoneReserved
<1>1. PICK took \in SUBSET {j \in ts : sched[j] \in {"pending", "running"}} :
        sched' = [j \in Jobs |-> IF j \notin took THEN sched[j]
                                  ELSE IF sched[j] = "running" THEN "ended" ELSE "cancelled"]
  BY DEF Scancel
<1>2. ASSUME NEW j \in Jobs PROVE RowKept(j)' /\ (sched[j] # "no" => sched'[j] # "no")
  <2>1. \/ sched'[j] = sched[j]
        \/ sched[j] = "pending" /\ sched'[j] \in {"running", "cancelled"}
        \/ sched[j] = "running" /\ sched'[j] = "ended"
    BY <1>1
  <2> QED BY <2>1, SchedRow DEF RowsKept, TypeInv
<1> QED BY <1>2 DEF RowsKept, Remembers, NoneReserved

(* Rows marked with a cancel.                                              *)
LEMMA MarkedRows ==
  ASSUME TypeInv, RowsKept, UNCHANGED <<sched, wire>>,
         \A j \in Jobs : job'[j] = job[j] \/ job'[j] = [job[j] EXCEPT !.cancel = TRUE]
  PROVE  RowsKept' /\ Remembers /\ NoneReserved
<1>1. ASSUME NEW j \in Jobs PROVE RowKept(j)' /\ job'[j].state = job[j].state /\ job'[j].env = job[j].env
  <2>1. job[j] \in JobRows
    BY DEF TypeInv, JobsTyped
  <2>2. /\ job'[j].state = job[j].state /\ job'[j].env = job[j].env
        /\ job'[j].native = job[j].native /\ job'[j].hold = job[j].hold
    BY <2>1 DEF JobRows
  <2>3. CanBill(j)' = CanBill(j) /\ Used(j)' = Used(j) /\ RowKept(j)
    BY DEF CanBill, Used, RowsKept
  <2> QED BY <2>2, <2>3 DEF RowKept
<1> QED BY <1>1 DEF RowsKept, Remembers, NoneReserved

(* A step that touches no row.                                             *)
LEMMA SameRows ==
  ASSUME RowsKept, UNCHANGED <<job, sched, wire>>
  PROVE  RowsKept' /\ Remembers /\ NoneReserved
BY DEF RowsKept, RowKept, Remembers, NoneReserved, CanBill, Used

(* One row is written.                                                     *)
LEMMA OneRow ==
  ASSUME RowsKept, NEW i \in Jobs, RowKept(i)',
         \A j \in Jobs \ {i} : job'[j] = job[j] /\ sched'[j] = sched[j] /\ wire'[j] = wire[j]
  PROVE  RowsKept'
<1>1. \A j \in Jobs \ {i} : RowKept(j)'
  BY DEF RowsKept, RowKept, CanBill, Used
<1> QED BY <1>1 DEF RowsKept

(* The row of an admission's job, once reserved.                           *)
LEMMA AdmittedRow ==
  ASSUME TypeInv, RowsKept, NEW j \in Jobs \ HandJobs, job[j].state # "none", sched' = sched,
         \A i \in Jobs \ {j} : job'[i] = job[i] /\ wire'[i] = wire[i],
         job'[j].hold = job[j].hold, job'[j].env = job[j].env,
         wire'[j] = wire[j] \/ (wire[j] = "no" /\ wire'[j] = "sent"),
         \/ job'[j].state = "refused" /\ wire'[j] \notin {"sent", "took"}
         \/ job'[j].state \in {"queued", "submit_unknown"}
         \/ job'[j].state = "reserved" /\ job[j].state = "reserved"
  PROVE  RowsKept' /\ Remembers /\ NoneReserved
<1>1. RowKept(j) /\ Worst[j] \in Nat /\ Used(j)' = Used(j)
  BY EnvelopeAssumption DEF RowsKept, Used
<1>2. RowKept(j)'
  BY <1>1 DEF RowKept, CanBill, JOB_LIVE, Over
<1> QED BY <1>2, OneRow DEF Remembers, NoneReserved

(* One coroutine's step leaves the others' places.                         *)
LEMMA CallMoves ==
  ASSUME PcTyped, NEW s \in Servers, NEW where \in Places, Goes(s, "call", where)
  PROVE  /\ \A t \in Servers : pc'[t]["admission"] = pc[t]["admission"]
         /\ \A t \in Servers \ {s} : pc'[t]["call"] = pc[t]["call"]
         /\ pc'[s]["call"] = where
BY GoesTo DEF Coroutines

(* An admission goes on; the calls and the other admissions stay where     *)
(* they are.                                                               *)
LEMMA AdmissionMoves ==
  ASSUME PcTyped, NEW s \in Servers, NEW where \in Places, Goes(s, "admission", where)
  PROVE  /\ \A t \in Servers : pc'[t]["call"] = pc[t]["call"]
         /\ \A t \in Servers \ {s} : pc'[t]["admission"] = pc[t]["admission"]
         /\ pc'[s]["admission"] = where
BY GoesTo DEF Coroutines

(* A step of no admission leaves them what they take for granted.          *)
LEMMA AdmissionsStay ==
  ASSUME AdmissionsKept, Remembers, NoneReserved, UNCHANGED at,
         \A t \in Servers : pc'[t]["admission"] = pc[t]["admission"],
         \A j \in Jobs : wire[j] = "no" => wire'[j] = "no"
  PROVE  AdmissionsKept'
<1>1. ASSUME NEW t \in Servers PROVE AdmissionKept(t)'
  BY DEF AdmissionsKept, AdmissionKept, Remembers, NoneReserved, Before, After
<1> QED BY <1>1 DEF AdmissionsKept

(* The admission of s goes on, with its job or with one nobody submits.    *)
LEMMA AdmissionGoes ==
  ASSUME TypeInv, AdmissionsKept, NEW s \in Servers, NEW where \in Places, Goes(s, "admission", where),
         \A t \in Servers \ {s} : at'[t] = at[t],
         where # "idle" => Fresh(at'[s].job) \/ (pc[s]["admission"] # "idle" /\ at'[s].job = at[s].job),
         \A j \in Jobs \ HandJobs :
           \/ pc[s]["admission"] # "idle" /\ j = at[s].job
           \/ (job[j].state = "none" <=> job'[j].state = "none") /\ (wire[j] = "no" => wire'[j] = "no"),
         AdmissionKept(s)'
  PROVE  AdmissionsKept'
<1>1. pc'[s]["admission"] = where /\ \A t \in Servers \ {s} : pc'[t]["admission"] = pc[t]["admission"]
  BY AdmissionMoves DEF TypeInv
<1>2. ASSUME NEW t \in Servers \ {s} PROVE AdmissionKept(t)'
  BY <1>1 DEF AdmissionsKept, AdmissionKept, Before, After
<1>3. ASSUME NEW t \in Servers \ {s}, where # "idle", pc[t]["admission"] # "idle" PROVE at'[s].job # at'[t].job
  BY <1>3 DEF AdmissionsKept, Fresh
<1> QED BY <1>1, <1>2, <1>3 DEF AdmissionsKept

(* So for the hand submit.                                                 *)
LEMMA HandStays ==
  ASSUME HandTyped, HandKept, Remembers, UNCHANGED hand,
         \A t \in Servers : /\ pc'[t]["call"] \in {"metering", "adopt"} => hand.ended
                            /\ pc'[t]["call"] = "over" => pc[t]["call"] = "over"
  PROVE  HandKept'
<1>1. hand.after \subseteq Jobs
  BY EnvelopeAssumption DEF HandTyped
<1> QED BY <1>1 DEF HandKept, Remembers

(* A call goes on after its hand submits.                                  *)
LEMMA GoesOnMoves ==
  ASSUME TypeInv, NEW s \in Servers, pc[s]["call"] \in ForHands, GoesOn(s)
  PROVE  /\ \A t \in Servers : pc'[t]["admission"] = pc[t]["admission"]
         /\ \A t \in Servers \ {s} : pc'[t]["call"] = pc[t]["call"]
         /\ pc'[s]["call"] \in {"status", "chosen", "answering"}
<1>1. doing[s].next \in {"status", "choose", "answer"}
  BY DEF TypeInv, DoingTyped, ForHands
<1>2. PICK where \in {"status", "chosen", "answering"} : Goes(s, "call", where)
  BY <1>1 DEF GoesOn
<1> QED BY <1>2, CallMoves DEF TypeInv, Places

MaybeReserved == NoneReserved \/ \E s \in Servers : Reserve(s)

(* Every step keeps the rows, and what the admissions and the hand submit  *)
(* take for granted of them.                                               *)
LEMMA RowsStep ==
  ASSUME Prompt, TypeInv, HoldInv, Next \/ UNCHANGED vars
  PROVE  RowsKept' /\ AdmissionsKept' /\ HandKept' /\ Remembers /\ MaybeReserved
<1> USE DEF HoldInv
<1>1. ASSUME NEW s \in Servers, NEW j \in Jobs, SubmitNew(s, j) PROVE RowsKept' /\ AdmissionsKept' /\ HandKept' /\ Remembers /\ MaybeReserved
  <2>1. RowsKept' /\ Remembers /\ NoneReserved
    BY <1>1, SameRows DEF ledger, world, memory, SubmitNew
  <2>2. AdmissionsKept'
    <3>1. PICK where \in {"held"} : Goes(s, "admission", where)
      BY <1>1 DEF SubmitNew
    <3>2. AdmissionKept(s)'
      BY <1>1, <3>1, <2>1, AdmissionMoves DEF TypeInv, AdmissionsKept, AdmissionKept, Remembers, NoneReserved,
          Before, After, Places,
        AtTyped, ledger, world, memory, SubmitNew, Submits, Fresh, Mine, Orphans
    <3> QED BY <1>1, <3>1, <3>2, <2>1, AdmissionGoes DEF TypeInv, AtTyped, Remembers, NoneReserved, Places, AdmissionsKept, AdmissionKept,
          ledger, world, memory, SubmitNew, Submits, Fresh, Mine, Orphans
  <2>3. HandKept'
    BY <1>1, <2>1, AdmissionMoves, HandStays DEF TypeInv, HandKept, Places, ledger, world, memory, SubmitNew
  <2> QED BY <2>1, <2>2, <2>3 DEF MaybeReserved
<1>2. ASSUME NEW s \in Servers, NEW j \in Jobs, NEW e \in Envs, SubmitInto(s, j, e) PROVE RowsKept' /\ AdmissionsKept' /\ HandKept' /\ Remembers /\ MaybeReserved
  <2>1. RowsKept' /\ Remembers /\ NoneReserved
    BY <1>2, SameRows DEF ledger, world, memory, SubmitInto
  <2>2. AdmissionsKept'
    <3>1. PICK where \in {"read"} : Goes(s, "admission", where)
      BY <1>2 DEF SubmitInto
    <3>2. AdmissionKept(s)'
      BY <1>2, <3>1, <2>1, AdmissionMoves DEF TypeInv, AdmissionsKept, AdmissionKept, Remembers, NoneReserved,
          Before, After, Places,
        AtTyped, ledger, world, memory, SubmitInto, Submits, Fresh, Mine, Orphans
    <3> QED BY <1>2, <3>1, <3>2, <2>1, AdmissionGoes DEF TypeInv, AtTyped, Remembers, NoneReserved, Places, AdmissionsKept, AdmissionKept,
          ledger, world, memory, SubmitInto, Submits, Fresh, Mine, Orphans
  <2>3. HandKept'
    BY <1>2, <2>1, AdmissionMoves, HandStays DEF TypeInv, HandKept, Places, ledger, world, memory, SubmitInto
  <2> QED BY <2>1, <2>2, <2>3 DEF MaybeReserved
<1>3. ASSUME NEW s \in Servers, NEW j \in Jobs, NEW e \in Envs, SubmitOffered(s, j, e) PROVE RowsKept' /\ AdmissionsKept' /\ HandKept' /\ Remembers /\ MaybeReserved
  <2>1. RowsKept' /\ Remembers /\ NoneReserved
    BY <1>3, SameRows DEF ledger, world, memory, SubmitOffered
  <2>2. AdmissionsKept'
    <3>1. PICK where \in {"offer"} : Goes(s, "admission", where)
      BY <1>3 DEF SubmitOffered
    <3>2. AdmissionKept(s)'
      BY <1>3, <3>1, <2>1, AdmissionMoves DEF TypeInv, AdmissionsKept, AdmissionKept, Remembers, NoneReserved,
          Before, After, Places,
        AtTyped, ledger, world, memory, SubmitOffered, Submits, Fresh, Mine, Orphans
    <3> QED BY <1>3, <3>1, <3>2, <2>1, AdmissionGoes DEF TypeInv, AtTyped, Remembers, NoneReserved, Places, AdmissionsKept, AdmissionKept,
          ledger, world, memory, SubmitOffered, Submits, Fresh, Mine, Orphans
  <2>3. HandKept'
    BY <1>3, <2>1, AdmissionMoves, HandStays DEF TypeInv, HandKept, Places, ledger, world, memory, SubmitOffered
  <2> QED BY <2>1, <2>2, <2>3 DEF MaybeReserved
<1>4. ASSUME NEW s \in Servers, OfferRead(s) PROVE RowsKept' /\ AdmissionsKept' /\ HandKept' /\ Remembers /\ MaybeReserved
  <2>1. RowsKept' /\ Remembers /\ NoneReserved
    <3>1. PICK r \in Answers(s, "admission") : Writes(s, "admission", r)
      BY <1>4 DEF OfferRead, Reads
    <3> QED BY <1>4, <3>1, ReadRows DEF OfferRead, Reads, ReadPlaces, Coroutines
  <2>2. AdmissionsKept'
    <3>1. PICK where \in {"rebind"} : Goes(s, "admission", where)
      BY <1>4 DEF OfferRead
    <3>2. AdmissionKept(s)'
      BY <1>4, <3>1, <2>1, AdmissionMoves DEF TypeInv, AdmissionsKept, AdmissionKept, Remembers, NoneReserved,
          Before, After, Places,
        AtTyped, ledger, world, memory, OfferRead, Writes, Reads
    <3> QED BY <1>4, <3>1, <3>2, <2>1, AdmissionGoes DEF TypeInv, AtTyped, Remembers, NoneReserved, Places, AdmissionsKept, AdmissionKept,
          ledger, world, memory, OfferRead, Writes, Reads
  <2>3. HandKept'
    <3>1. UNCHANGED hand
      BY <1>4 DEF OfferRead, Reads, Writes
    <3>2. Goes(s, "admission", "rebind")
      BY <1>4 DEF OfferRead
    <3> QED BY <2>1, <3>1, <3>2, AdmissionMoves, HandStays DEF TypeInv, HandKept, Places
  <2> QED BY <2>1, <2>2, <2>3 DEF MaybeReserved
<1>5. ASSUME NEW s \in Servers, Rebind(s) PROVE RowsKept' /\ AdmissionsKept' /\ HandKept' /\ Remembers /\ MaybeReserved
  <2>1. RowsKept' /\ Remembers /\ NoneReserved
    BY <1>5, SameRows DEF ledger, world, memory, Rebind
  <2>2. AdmissionsKept'
    <3>1. PICK where \in {"read"} : Goes(s, "admission", where)
      BY <1>5 DEF Rebind
    <3>2. AdmissionKept(s)'
      BY <1>5, <3>1, <2>1, AdmissionMoves DEF TypeInv, AdmissionsKept, AdmissionKept, Remembers, NoneReserved,
          Before, After, Places,
        AtTyped, ledger, world, memory, Rebind
    <3> QED BY <1>5, <3>1, <3>2, <2>1, AdmissionGoes DEF TypeInv, AtTyped, Remembers, NoneReserved, Places, AdmissionsKept, AdmissionKept,
          ledger, world, memory, Rebind
  <2>3. HandKept'
    BY <1>5, <2>1, AdmissionMoves, HandStays DEF TypeInv, HandKept, Places, ledger, world, memory, Rebind
  <2> QED BY <2>1, <2>2, <2>3 DEF MaybeReserved
<1>6. ASSUME NEW s \in Servers, OpenEnvelope(s) PROVE RowsKept' /\ AdmissionsKept' /\ HandKept' /\ Remembers /\ MaybeReserved
  <2>1. RowsKept' /\ Remembers /\ NoneReserved
    BY <1>6, SameRows DEF ledger, world, memory, OpenEnvelope
  <2>2. AdmissionsKept'
    <3>1. PICK e \in Envs : at' = [at EXCEPT ![s].env = e]
      BY <1>6 DEF OpenEnvelope
    <3>2. /\ \A t \in Servers \ {s} : at'[t] = at[t]
          /\ at'[s].job = at[s].job /\ at'[s].env = e
      BY <3>1 DEF TypeInv, AtTyped
    <3>3. Goes(s, "admission", "read") /\ pc[s]["admission"] = "held" /\ UNCHANGED <<job, wire>>
      BY <1>6 DEF OpenEnvelope, world
    <3>4. pc'[s]["admission"] = "read"
      BY <3>3, AdmissionMoves DEF TypeInv, Places
    <3>5. AdmissionKept(s)'
      BY <2>1, <3>2, <3>3, <3>4 DEF AdmissionsKept, AdmissionKept, Before, After, NoneReserved
    <3> QED BY <3>2, <3>3, <3>5, AdmissionGoes DEF Places
  <2>3. HandKept'
    BY <1>6, <2>1, AdmissionMoves, HandStays DEF TypeInv, HandKept, Places, ledger, world, memory, OpenEnvelope
  <2> QED BY <2>1, <2>2, <2>3 DEF MaybeReserved
<1>7. ASSUME NEW s \in Servers, OpensNothing(s) PROVE RowsKept' /\ AdmissionsKept' /\ HandKept' /\ Remembers /\ MaybeReserved
  <2>1. RowsKept' /\ Remembers /\ NoneReserved
    BY <1>7, SameRows DEF ledger, world, memory, OpensNothing, Moves
  <2>2. AdmissionsKept'
    <3>1. PICK where \in {"idle"} : Moves(s, where)
      BY <1>7 DEF OpensNothing
    <3>2. pc'[s]["admission"] = where /\ (where # "idle" => at' = at) /\ \A t \in Servers \ {s} : at'[t] = at[t]
      BY <3>1, AdmissionMoves DEF Moves, TypeInv, AtTyped, Places
    <3>3. AdmissionKept(s)'
      BY <1>7, <2>1, <3>1, <3>2 DEF AdmissionsKept, AdmissionKept, Before, After, Remembers, OpensNothing
    <3>4. Goes(s, "admission", where) /\ pc[s]["admission"] # "idle"
      BY <1>7, <3>1 DEF Moves, OpensNothing
    <3>5. ASSUME NEW i \in Jobs \ HandJobs, i # at[s].job
          PROVE  (job[i].state = "none" <=> job'[i].state = "none") /\ (wire[i] = "no" => wire'[i] = "no")
      BY <1>7, <2>1, <3>5 DEF Remembers, NoneReserved, world, TypeInv, WorldTyped, OpensNothing
    <3> QED BY <3>1, <3>2, <3>3, <3>4, <3>5, AdmissionGoes DEF Places
  <2>3. HandKept'
    BY <1>7, <2>1, AdmissionMoves, HandStays DEF TypeInv, HandKept, Places, ledger, world, memory, OpensNothing,
        Moves
  <2> QED BY <2>1, <2>2, <2>3 DEF MaybeReserved
<1>8. ASSUME NEW s \in Servers, AdmissionRead(s) PROVE RowsKept' /\ AdmissionsKept' /\ HandKept' /\ Remembers /\ MaybeReserved
  <2>1. RowsKept' /\ Remembers /\ NoneReserved
    <3>1. PICK r \in Answers(s, "admission") : Writes(s, "admission", r)
      BY <1>8 DEF AdmissionRead
    <3> QED BY <1>8, <3>1, ReadRows DEF AdmissionRead, ReadPlaces, Coroutines
  <2>2. AdmissionsKept'
    <3>1. PICK r \in Answers(s, "admission") : Writes(s, "admission", r) /\ at' = [at EXCEPT ![s].ok = r.ok]
      BY <1>8 DEF AdmissionRead
    <3>2. /\ \A t \in Servers \ {s} : at'[t] = at[t]
          /\ at'[s].job = at[s].job /\ at'[s].env = at[s].env
      BY <3>1 DEF TypeInv, AtTyped
    <3>3. Goes(s, "admission", "reserve") /\ pc[s]["admission"] = "read" /\ UNCHANGED wire
      BY <1>8, <3>1 DEF AdmissionRead, Writes, world
    <3>4. pc'[s]["admission"] = "reserve"
      BY <3>3, AdmissionMoves DEF TypeInv, Places
    <3>5. AdmissionKept(s)'
      BY <2>1, <3>2, <3>3, <3>4 DEF AdmissionsKept, AdmissionKept, Before, After, NoneReserved
    <3> QED BY <2>1, <3>2, <3>3, <3>5, AdmissionGoes DEF Places, Remembers, NoneReserved
  <2>3. HandKept'
    <3>1. UNCHANGED hand
      BY <1>8 DEF AdmissionRead, Writes
    <3>2. Goes(s, "admission", "reserve")
      BY <1>8 DEF AdmissionRead
    <3> QED BY <2>1, <3>1, <3>2, AdmissionMoves, HandStays DEF TypeInv, HandKept, Places
  <2> QED BY <2>1, <2>2, <2>3 DEF MaybeReserved
<1>9. ASSUME NEW s \in Servers, Reserve(s) PROVE RowsKept' /\ AdmissionsKept' /\ HandKept' /\ Remembers /\ MaybeReserved
  <2>0. /\ at[s].job \in Jobs \ HandJobs /\ at[s].env \in Envs
        /\ job[at[s].job] \in JobRows /\ job[at[s].job].state = "none"
    BY <1>9 DEF AdmissionsKept, AdmissionKept, Before, TypeInv, JobsTyped, Reserve
  <2> DEFINE j == at[s].job
             row == [state |-> "reserved", env |-> at[s].env, native |-> FALSE, cancel |-> FALSE, hold |-> Worst[j]]
  <2>10. UNCHANGED <<sched, wire>>
    BY <1>9 DEF Reserve, world
  <2>11. \/ Moves(s, "write") /\ job' = [job EXCEPT ![j] = row]
         \/ (\E where \in {"exhaust", "idle"} : Moves(s, where)) /\ job' = job
    BY <1>9 DEF Reserve
  <2>1. /\ RowsKept' /\ Remembers
        /\ \A i \in Jobs \ {j} : job'[i] = job[i]
        /\ Moves(s, "write") => job'[j].state # "none"
    <3>1. CASE Moves(s, "write") /\ job' = [job EXCEPT ![j] = row]
      <4>1. PICK i \in Jobs \ HandJobs : i = at[s].job
        BY <2>0
      <4>2. /\ job'[i].state = "reserved" /\ job'[i].hold = Worst[i]
            /\ \A x \in Jobs \ {i} : job'[x] = job[x]
        BY <3>1, <4>1 DEF TypeInv, JobsTyped
      <4>3. sched[i] = "no" /\ wire[i] = "no" /\ Worst[i] \in Nat
        BY <2>0, <4>1, EnvelopeAssumption DEF RowsKept, RowKept, TypeInv, WorldTyped
      <4>4. RowKept(i)'
        BY <2>10, <4>2, <4>3 DEF RowKept, CanBill, JOB_LIVE, Over
      <4>5. RowsKept'
        BY <2>10, <4>2, <4>4, OneRow
      <4> QED BY <2>10, <4>1, <4>2, <4>5 DEF Remembers
    <3>2. CASE (\E where \in {"exhaust", "idle"} : Moves(s, where)) /\ job' = job
      <4>1. ~Moves(s, "write")
        BY <3>2 DEF Moves, Goes, TypeInv, PcTyped, Coroutines
      <4> QED BY <2>10, <3>2, <4>1, SameRows
    <3> QED BY <2>11, <3>1, <3>2
  <2>2. AdmissionsKept'
    <3>1. PICK where \in {"write", "exhaust", "idle"} :
            Moves(s, where) /\ (where # "write" => job' = job)
      BY <2>11
    <3>2. pc'[s]["admission"] = where /\ (where # "idle" => at' = at) /\ \A t \in Servers \ {s} : at'[t] = at[t]
      BY <3>1, AdmissionMoves DEF Moves, TypeInv, AtTyped, Places
    <3>3. AdmissionKept(s)'
      BY <1>9, <2>0, <2>1, <2>10, <3>1, <3>2 DEF AdmissionKept, Before, After, RowsKept, RowKept
    <3>4. Goes(s, "admission", where) /\ pc[s]["admission"] # "idle"
      BY <1>9, <3>1 DEF Moves, Reserve
    <3> QED BY <2>1, <2>10, <3>1, <3>2, <3>3, <3>4, AdmissionGoes DEF Places
  <2>3. HandKept'
    BY <1>9, <2>1, AdmissionMoves, HandStays DEF TypeInv, HandKept, Places, ledger, world, memory, Reserve, Moves
  <2> QED BY <1>9, <2>1, <2>2, <2>3 DEF MaybeReserved
<1>10. ASSUME NEW s \in Servers, MarkExhausted(s) PROVE RowsKept' /\ AdmissionsKept' /\ HandKept' /\ Remembers /\ MaybeReserved
  <2>1. RowsKept' /\ Remembers /\ NoneReserved
    BY <1>10, SameRows DEF ledger, world, memory, MarkExhausted, Moves
  <2>2. AdmissionsKept'
    <3>1. PICK where \in {"idle"} : Moves(s, where)
      BY <1>10 DEF MarkExhausted
    <3>2. pc'[s]["admission"] = where /\ (where # "idle" => at' = at) /\ \A t \in Servers \ {s} : at'[t] = at[t]
      BY <3>1, AdmissionMoves DEF Moves, TypeInv, AtTyped, Places
    <3>3. AdmissionKept(s)'
      BY <1>10, <2>1, <3>1, <3>2 DEF AdmissionsKept, AdmissionKept, Before, After, Remembers, MarkExhausted
    <3>4. Goes(s, "admission", where) /\ pc[s]["admission"] # "idle"
      BY <1>10, <3>1 DEF Moves, MarkExhausted
    <3>5. ASSUME NEW i \in Jobs \ HandJobs, i # at[s].job
          PROVE  (job[i].state = "none" <=> job'[i].state = "none") /\ (wire[i] = "no" => wire'[i] = "no")
      BY <1>10, <2>1, <3>5 DEF Remembers, NoneReserved, world, TypeInv, WorldTyped, MarkExhausted
    <3> QED BY <3>1, <3>2, <3>3, <3>4, <3>5, AdmissionGoes DEF Places
  <2>3. HandKept'
    BY <1>10, <2>1, AdmissionMoves, HandStays DEF TypeInv, HandKept, Places, ledger, world, memory, MarkExhausted,
        Moves
  <2> QED BY <2>1, <2>2, <2>3 DEF MaybeReserved
<1>11. ASSUME NEW s \in Servers, ScriptWritten(s) PROVE RowsKept' /\ AdmissionsKept' /\ HandKept' /\ Remembers /\ MaybeReserved
  <2>0. at[s].job \in Jobs \ HandJobs /\ job[at[s].job] \in JobRows /\ job[at[s].job].state # "none"
    BY <1>11 DEF AdmissionsKept, AdmissionKept, After, TypeInv, JobsTyped, ScriptWritten
  <2>1. RowsKept' /\ Remembers /\ NoneReserved
    <3> DEFINE j == at[s].job
    <3>1. sched' = sched /\ \A i \in Jobs \ {j} : job'[i] = job[i] /\ wire'[i] = wire[i]
      BY <1>11 DEF world, TypeInv, WorldTyped, JobsTyped, ScriptWritten
    <3>2. job'[j].hold = job[j].hold /\ job'[j].env = job[j].env
      BY <1>11, <2>0 DEF TypeInv, JobsTyped, JobRows, ScriptWritten
    <3>3. wire'[j] = wire[j] \/ (wire[j] = "no" /\ wire'[j] = "sent")
      BY <1>11, <2>0 DEF TypeInv, WorldTyped, AdmissionsKept, AdmissionKept, world, ScriptWritten
    <3>4. \/ job'[j].state = "refused" /\ wire'[j] \notin {"sent", "took"}
          \/ job'[j].state \in {"queued", "submit_unknown"}
          \/ job'[j].state = "reserved" /\ job[j].state = "reserved"
      BY <1>11, <2>0 DEF TypeInv, WorldTyped, JobsTyped, JobRows, AdmissionsKept, AdmissionKept, world,
          StillWanted, ScriptWritten
    <3> HIDE DEF j
    <3> QED BY <2>0, <3>1, <3>2, <3>3, <3>4, AdmittedRow DEF j
  <2>2. AdmissionsKept'
    <3>1. PICK where \in {"submit", "idle"} : Moves(s, where)
      BY <1>11 DEF ScriptWritten
    <3>2. pc'[s]["admission"] = where /\ (where # "idle" => at' = at) /\ \A t \in Servers \ {s} : at'[t] = at[t]
      BY <3>1, AdmissionMoves DEF Moves, TypeInv, AtTyped, Places
    <3>3. AdmissionKept(s)'
      BY <1>11, <2>1, <3>1, <3>2 DEF AdmissionsKept, AdmissionKept, Before, After, Remembers, ScriptWritten
    <3>4. Goes(s, "admission", where) /\ pc[s]["admission"] # "idle"
      BY <1>11, <3>1 DEF Moves, ScriptWritten
    <3>5. ASSUME NEW i \in Jobs \ HandJobs, i # at[s].job
          PROVE  (job[i].state = "none" <=> job'[i].state = "none") /\ (wire[i] = "no" => wire'[i] = "no")
      BY <1>11, <2>1, <3>5 DEF Remembers, NoneReserved, world, TypeInv, WorldTyped, ScriptWritten
    <3> QED BY <3>1, <3>2, <3>3, <3>4, <3>5, AdmissionGoes DEF Places
  <2>3. HandKept'
    BY <1>11, <2>1, AdmissionMoves, HandStays DEF TypeInv, HandKept, Places, ledger, world, memory, ScriptWritten,
        Moves
  <2> QED BY <2>1, <2>2, <2>3 DEF MaybeReserved
<1>12. ASSUME NEW s \in Servers, ScriptFails(s) PROVE RowsKept' /\ AdmissionsKept' /\ HandKept' /\ Remembers /\ MaybeReserved
  <2>0. at[s].job \in Jobs \ HandJobs /\ job[at[s].job] \in JobRows /\ job[at[s].job].state # "none"
    BY <1>12 DEF AdmissionsKept, AdmissionKept, After, TypeInv, JobsTyped, ScriptFails
  <2>1. RowsKept' /\ Remembers /\ NoneReserved
    <3> DEFINE j == at[s].job
    <3>1. sched' = sched /\ \A i \in Jobs \ {j} : job'[i] = job[i] /\ wire'[i] = wire[i]
      BY <1>12 DEF world, TypeInv, WorldTyped, JobsTyped, ScriptFails
    <3>2. job'[j].hold = job[j].hold /\ job'[j].env = job[j].env
      BY <1>12, <2>0 DEF TypeInv, JobsTyped, JobRows, ScriptFails
    <3>3. wire'[j] = wire[j] \/ (wire[j] = "no" /\ wire'[j] = "sent")
      BY <1>12, <2>0 DEF TypeInv, WorldTyped, AdmissionsKept, AdmissionKept, world, ScriptFails
    <3>4. \/ job'[j].state = "refused" /\ wire'[j] \notin {"sent", "took"}
          \/ job'[j].state \in {"queued", "submit_unknown"}
          \/ job'[j].state = "reserved" /\ job[j].state = "reserved"
      BY <1>12, <2>0 DEF TypeInv, WorldTyped, JobsTyped, JobRows, AdmissionsKept, AdmissionKept, world,
          StillWanted, ScriptFails
    <3> HIDE DEF j
    <3> QED BY <2>0, <3>1, <3>2, <3>3, <3>4, AdmittedRow DEF j
  <2>2. AdmissionsKept'
    <3>1. PICK where \in {"idle"} : Moves(s, where)
      BY <1>12 DEF ScriptFails
    <3>2. pc'[s]["admission"] = where /\ (where # "idle" => at' = at) /\ \A t \in Servers \ {s} : at'[t] = at[t]
      BY <3>1, AdmissionMoves DEF Moves, TypeInv, AtTyped, Places
    <3>3. AdmissionKept(s)'
      BY <1>12, <2>1, <3>1, <3>2 DEF AdmissionsKept, AdmissionKept, Before, After, Remembers, ScriptFails
    <3>4. Goes(s, "admission", where) /\ pc[s]["admission"] # "idle"
      BY <1>12, <3>1 DEF Moves, ScriptFails
    <3>5. ASSUME NEW i \in Jobs \ HandJobs, i # at[s].job
          PROVE  (job[i].state = "none" <=> job'[i].state = "none") /\ (wire[i] = "no" => wire'[i] = "no")
      BY <1>12, <2>1, <3>5 DEF Remembers, NoneReserved, world, TypeInv, WorldTyped, ScriptFails
    <3> QED BY <3>1, <3>2, <3>3, <3>4, <3>5, AdmissionGoes DEF Places
  <2>3. HandKept'
    BY <1>12, <2>1, AdmissionMoves, HandStays DEF TypeInv, HandKept, Places, ledger, world, memory, ScriptFails,
        Moves
  <2> QED BY <2>1, <2>2, <2>3 DEF MaybeReserved
<1>13. ASSUME NEW s \in Servers, SubmitAnswered(s) PROVE RowsKept' /\ AdmissionsKept' /\ HandKept' /\ Remembers /\ MaybeReserved
  <2>0. at[s].job \in Jobs \ HandJobs /\ job[at[s].job] \in JobRows /\ job[at[s].job].state # "none"
    BY <1>13 DEF AdmissionsKept, AdmissionKept, After, TypeInv, JobsTyped, SubmitAnswered
  <2>1. RowsKept' /\ Remembers /\ NoneReserved
    <3> DEFINE j == at[s].job
    <3>1. sched' = sched /\ \A i \in Jobs \ {j} : job'[i] = job[i] /\ wire'[i] = wire[i]
      BY <1>13 DEF world, TypeInv, WorldTyped, JobsTyped, SubmitAnswered
    <3>2. job'[j].hold = job[j].hold /\ job'[j].env = job[j].env
      BY <1>13, <2>0 DEF TypeInv, JobsTyped, JobRows, SubmitAnswered
    <3>3. wire'[j] = wire[j] \/ (wire[j] = "no" /\ wire'[j] = "sent")
      BY <1>13, <2>0 DEF TypeInv, WorldTyped, AdmissionsKept, AdmissionKept, world, SubmitAnswered
    <3>4. \/ job'[j].state = "refused" /\ wire'[j] \notin {"sent", "took"}
          \/ job'[j].state \in {"queued", "submit_unknown"}
          \/ job'[j].state = "reserved" /\ job[j].state = "reserved"
      BY <1>13, <2>0 DEF TypeInv, WorldTyped, JobsTyped, JobRows, AdmissionsKept, AdmissionKept, world,
          StillWanted, SubmitAnswered
    <3> HIDE DEF j
    <3> QED BY <2>0, <3>1, <3>2, <3>3, <3>4, AdmittedRow DEF j
  <2>2. AdmissionsKept'
    <3>1. PICK where \in {"end", "idle"} : Moves(s, where)
      BY <1>13 DEF SubmitAnswered
    <3>2. pc'[s]["admission"] = where /\ (where # "idle" => at' = at) /\ \A t \in Servers \ {s} : at'[t] = at[t]
      BY <3>1, AdmissionMoves DEF Moves, TypeInv, AtTyped, Places
    <3>3. AdmissionKept(s)'
      BY <1>13, <2>1, <3>1, <3>2 DEF AdmissionsKept, AdmissionKept, Before, After, Remembers, SubmitAnswered
    <3>4. Goes(s, "admission", where) /\ pc[s]["admission"] # "idle"
      BY <1>13, <3>1 DEF Moves, SubmitAnswered
    <3>5. ASSUME NEW i \in Jobs \ HandJobs, i # at[s].job
          PROVE  (job[i].state = "none" <=> job'[i].state = "none") /\ (wire[i] = "no" => wire'[i] = "no")
      BY <1>13, <2>1, <3>5 DEF Remembers, NoneReserved, world, TypeInv, WorldTyped, SubmitAnswered
    <3> QED BY <3>1, <3>2, <3>3, <3>4, <3>5, AdmissionGoes DEF Places
  <2>3. HandKept'
    BY <1>13, <2>1, AdmissionMoves, HandStays DEF TypeInv, HandKept, Places, ledger, world, memory, SubmitAnswered,
        Moves
  <2> QED BY <2>1, <2>2, <2>3 DEF MaybeReserved
<1>14. ASSUME NEW s \in Servers, SubmitUnanswered(s) PROVE RowsKept' /\ AdmissionsKept' /\ HandKept' /\ Remembers /\ MaybeReserved
  <2>0. at[s].job \in Jobs \ HandJobs /\ job[at[s].job] \in JobRows /\ job[at[s].job].state # "none"
    BY <1>14 DEF AdmissionsKept, AdmissionKept, After, TypeInv, JobsTyped, SubmitUnanswered
  <2>1. RowsKept' /\ Remembers /\ NoneReserved
    <3> DEFINE j == at[s].job
    <3>1. sched' = sched /\ \A i \in Jobs \ {j} : job'[i] = job[i] /\ wire'[i] = wire[i]
      BY <1>14 DEF world, TypeInv, WorldTyped, JobsTyped, SubmitUnanswered
    <3>2. job'[j].hold = job[j].hold /\ job'[j].env = job[j].env
      BY <1>14, <2>0 DEF TypeInv, JobsTyped, JobRows, SubmitUnanswered
    <3>3. wire'[j] = wire[j] \/ (wire[j] = "no" /\ wire'[j] = "sent")
      BY <1>14, <2>0 DEF TypeInv, WorldTyped, AdmissionsKept, AdmissionKept, world, SubmitUnanswered
    <3>4. \/ job'[j].state = "refused" /\ wire'[j] \notin {"sent", "took"}
          \/ job'[j].state \in {"queued", "submit_unknown"}
          \/ job'[j].state = "reserved" /\ job[j].state = "reserved"
      BY <1>14, <2>0 DEF TypeInv, WorldTyped, JobsTyped, JobRows, AdmissionsKept, AdmissionKept, world,
          StillWanted, SubmitUnanswered
    <3> HIDE DEF j
    <3> QED BY <2>0, <3>1, <3>2, <3>3, <3>4, AdmittedRow DEF j
  <2>2. AdmissionsKept'
    <3>1. PICK where \in {"end", "idle"} : Moves(s, where)
      BY <1>14 DEF SubmitUnanswered
    <3>2. pc'[s]["admission"] = where /\ (where # "idle" => at' = at) /\ \A t \in Servers \ {s} : at'[t] = at[t]
      BY <3>1, AdmissionMoves DEF Moves, TypeInv, AtTyped, Places
    <3>3. AdmissionKept(s)'
      BY <1>14, <2>1, <3>1, <3>2 DEF AdmissionsKept, AdmissionKept, Before, After, Remembers, SubmitUnanswered
    <3>4. Goes(s, "admission", where) /\ pc[s]["admission"] # "idle"
      BY <1>14, <3>1 DEF Moves, SubmitUnanswered
    <3>5. ASSUME NEW i \in Jobs \ HandJobs, i # at[s].job
          PROVE  (job[i].state = "none" <=> job'[i].state = "none") /\ (wire[i] = "no" => wire'[i] = "no")
      BY <1>14, <2>1, <3>5 DEF Remembers, NoneReserved, world, TypeInv, WorldTyped, SubmitUnanswered
    <3> QED BY <3>1, <3>2, <3>3, <3>4, <3>5, AdmissionGoes DEF Places
  <2>3. HandKept'
    BY <1>14, <2>1, AdmissionMoves, HandStays DEF TypeInv, HandKept, Places, ledger, world, memory,
        SubmitUnanswered, Moves
  <2> QED BY <2>1, <2>2, <2>3 DEF MaybeReserved
<1>15. ASSUME NEW s \in Servers, EndsAtOnce(s) PROVE RowsKept' /\ AdmissionsKept' /\ HandKept' /\ Remembers /\ MaybeReserved
  <2>1. RowsKept' /\ Remembers /\ NoneReserved
    <3>1. {at[s].job} \subseteq Jobs
      BY <1>15 DEF AdmissionsKept, AdmissionKept, EndsAtOnce
    <3> QED BY <1>15, <3>1, ScancelRows DEF ledger, EndsAtOnce
  <2>2. AdmissionsKept'
    <3>1. PICK where \in {"endread", "idle"} : Moves(s, where)
      BY <1>15 DEF EndsAtOnce
    <3>2. pc'[s]["admission"] = where /\ (where # "idle" => at' = at) /\ \A t \in Servers \ {s} : at'[t] = at[t]
      BY <3>1, AdmissionMoves DEF Moves, TypeInv, AtTyped, Places
    <3>3. AdmissionKept(s)'
      BY <1>15, <2>1, <3>1, <3>2 DEF AdmissionsKept, AdmissionKept, Before, After, Remembers, EndsAtOnce
    <3>4. Goes(s, "admission", where) /\ pc[s]["admission"] # "idle"
      BY <1>15, <3>1 DEF Moves, EndsAtOnce
    <3>5. ASSUME NEW i \in Jobs \ HandJobs, i # at[s].job
          PROVE  (job[i].state = "none" <=> job'[i].state = "none") /\ (wire[i] = "no" => wire'[i] = "no")
      BY <1>15, <2>1, <3>5 DEF Remembers, NoneReserved, world, TypeInv, WorldTyped, EndsAtOnce
    <3> QED BY <3>1, <3>2, <3>3, <3>4, <3>5, AdmissionGoes DEF Places
  <2>3. HandKept'
    BY <1>15, <2>1, AdmissionMoves, HandStays DEF TypeInv, HandKept, Places, ledger, world, memory, EndsAtOnce,
        Moves
  <2> QED BY <2>1, <2>2, <2>3 DEF MaybeReserved
<1>16. ASSUME NEW s \in Servers, EndRead(s) PROVE RowsKept' /\ AdmissionsKept' /\ HandKept' /\ Remembers /\ MaybeReserved
  <2>1. RowsKept' /\ Remembers /\ NoneReserved
    <3>1. PICK r \in Answers(s, "admission") : Writes(s, "admission", r)
      BY <1>16 DEF EndRead, Reads
    <3> QED BY <1>16, <3>1, ReadRows DEF EndRead, Reads, ReadPlaces, Coroutines
  <2>2. AdmissionsKept'
    <3>1. PICK where \in {"idle"} : Moves(s, where)
      BY <1>16 DEF EndRead
    <3>2. pc'[s]["admission"] = where /\ (where # "idle" => at' = at) /\ \A t \in Servers \ {s} : at'[t] = at[t]
      BY <3>1, AdmissionMoves DEF Moves, TypeInv, AtTyped, Places
    <3>3. AdmissionKept(s)'
      BY <1>16, <2>1, <3>1, <3>2 DEF AdmissionsKept, AdmissionKept, Before, After, Remembers, EndRead
    <3>4. Goes(s, "admission", where) /\ pc[s]["admission"] # "idle"
      BY <1>16, <3>1 DEF Moves, EndRead, Reads, Writes
    <3>5. ASSUME NEW i \in Jobs \ HandJobs, i # at[s].job
          PROVE  (job[i].state = "none" <=> job'[i].state = "none") /\ (wire[i] = "no" => wire'[i] = "no")
      BY <1>16, <2>1, <3>5 DEF Remembers, NoneReserved, world, TypeInv, WorldTyped, EndRead, Reads, Writes
    <3> QED BY <3>1, <3>2, <3>3, <3>4, <3>5, AdmissionGoes DEF Places
  <2>3. HandKept'
    <3>1. UNCHANGED hand
      BY <1>16 DEF EndRead, Reads, Writes
    <3>2. Goes(s, "admission", "idle")
      BY <1>16 DEF EndRead, Moves
    <3> QED BY <2>1, <3>1, <3>2, AdmissionMoves, HandStays DEF TypeInv, HandKept, Places
  <2> QED BY <2>1, <2>2, <2>3 DEF MaybeReserved
<1>17. ASSUME NEW s \in Servers, NEW e \in Envs, StatusCall(s, e) PROVE RowsKept' /\ AdmissionsKept' /\ HandKept' /\ Remembers /\ MaybeReserved
  <2>1. RowsKept' /\ Remembers /\ NoneReserved
    BY <1>17, SameRows DEF ledger, world, memory, StatusCall
  <2>2. AdmissionsKept'
    BY <1>17, <2>1, CallMoves, AdmissionsStay DEF TypeInv, ledger, world, memory, Places, DoingTyped, StatusCall
  <2>3. HandKept'
    BY <1>17, <2>1, CallMoves, HandStays DEF TypeInv, HandKept, Places, DoingTyped, ledger, world, memory,
        StatusCall
  <2> QED BY <2>1, <2>2, <2>3 DEF MaybeReserved
<1>18. ASSUME NEW s \in Servers, NEW e \in Envs, NEW mode \in {"drain", "abort"}, CancelEnvelope(s, e, mode) PROVE RowsKept' /\ AdmissionsKept' /\ HandKept' /\ Remembers /\ MaybeReserved
  <2>1. RowsKept' /\ Remembers /\ NoneReserved
    BY <1>18, MarkedRows DEF world, TypeInv, JobsTyped, CancelEnvelope, Cancel
  <2>2. AdmissionsKept'
    BY <1>18, <2>1, CallMoves, AdmissionsStay DEF TypeInv, ledger, world, memory, Places, DoingTyped,
        CancelEnvelope, Cancel
  <2>3. HandKept'
    BY <1>18, <2>1, CallMoves, HandStays DEF TypeInv, HandKept, Places, DoingTyped, ledger, world, memory,
        CancelEnvelope, Cancel
  <2> QED BY <2>1, <2>2, <2>3 DEF MaybeReserved
<1>19. ASSUME NEW s \in Servers, NEW j \in Jobs, CancelJob(s, j) PROVE RowsKept' /\ AdmissionsKept' /\ HandKept' /\ Remembers /\ MaybeReserved
  <2>1. RowsKept' /\ Remembers /\ NoneReserved
    BY <1>19, MarkedRows DEF world, TypeInv, JobsTyped, CancelJob, Cancel
  <2>2. AdmissionsKept'
    BY <1>19, <2>1, CallMoves, AdmissionsStay DEF TypeInv, ledger, world, memory, Places, DoingTyped, CancelJob,
        Cancel
  <2>3. HandKept'
    BY <1>19, <2>1, CallMoves, HandStays DEF TypeInv, HandKept, Places, DoingTyped, ledger, world, memory,
        CancelJob, Cancel
  <2> QED BY <2>1, <2>2, <2>3 DEF MaybeReserved
<1>20. ASSUME NEW s \in Servers, NEW choice \in {"stop_cancel", "stop_keep"}, StopCall(s, choice) PROVE RowsKept' /\ AdmissionsKept' /\ HandKept' /\ Remembers /\ MaybeReserved
  <2>1. RowsKept' /\ Remembers /\ NoneReserved
    BY <1>20, SameRows DEF ledger, world, memory, StopCall
  <2>2. AdmissionsKept'
    BY <1>20, <2>1, CallMoves, AdmissionsStay DEF TypeInv, ledger, world, memory, Places, DoingTyped, StopCall
  <2>3. HandKept'
    BY <1>20, <2>1, CallMoves, HandStays DEF TypeInv, HandKept, Places, DoingTyped, ledger, world, memory, StopCall
  <2> QED BY <2>1, <2>2, <2>3 DEF MaybeReserved
<1>21. ASSUME NEW s \in Servers, StatusRead(s) PROVE RowsKept' /\ AdmissionsKept' /\ HandKept' /\ Remembers /\ MaybeReserved
  <2>1. RowsKept' /\ Remembers /\ NoneReserved
    <3>1. PICK r \in Answers(s, "call") : Writes(s, "call", r)
      BY <1>21 DEF StatusRead, Reads
    <3> QED BY <1>21, <3>1, ReadRows DEF StatusRead, Reads, ReadPlaces, Coroutines
  <2>2. AdmissionsKept'
    BY <1>21, <2>1, ReadsDone, CallMoves, AdmissionsStay DEF TypeInv, world, Places, ReadPlaces, Coroutines,
        StatusRead, CallGoes
  <2>3. HandKept'
    BY <1>21, <2>1, ReadsDone, CallMoves, HandStays DEF TypeInv, HandKept, Reads, Places, ReadPlaces, Coroutines,
        StatusRead, CallGoes
  <2> QED BY <2>1, <2>2, <2>3 DEF MaybeReserved
<1>22. ASSUME NEW s \in Servers, CancelSent(s) PROVE RowsKept' /\ AdmissionsKept' /\ HandKept' /\ Remembers /\ MaybeReserved
  <2>1. RowsKept' /\ Remembers /\ NoneReserved
    <3>1. doing[s].kills \subseteq Jobs
      BY <1>22 DEF TypeInv, DoingTyped, CancelSent
    <3> QED BY <1>22, <3>1, ScancelRows DEF ledger, CancelSent
  <2>2. AdmissionsKept'
    BY <1>22, <2>1, CallMoves, AdmissionsStay DEF TypeInv, ledger, world, memory, Places, DoingTyped, CancelSent
  <2>3. HandKept'
    BY <1>22, <2>1, CallMoves, HandStays DEF TypeInv, HandKept, Places, DoingTyped, ledger, world, memory,
        CancelSent
  <2> QED BY <2>1, <2>2, <2>3 DEF MaybeReserved
<1>23. ASSUME NEW s \in Servers, CancelRead(s) PROVE RowsKept' /\ AdmissionsKept' /\ HandKept' /\ Remembers /\ MaybeReserved
  <2>1. RowsKept' /\ Remembers /\ NoneReserved
    <3>1. PICK r \in Answers(s, "call") : Writes(s, "call", r)
      BY <1>23 DEF CancelRead, Reads
    <3> QED BY <1>23, <3>1, ReadRows DEF CancelRead, Reads, ReadPlaces, Coroutines
  <2>2. AdmissionsKept'
    BY <1>23, <2>1, ReadsDone, CallMoves, AdmissionsStay DEF TypeInv, world, Places, ReadPlaces, Coroutines,
        CancelRead, CallGoes
  <2>3. HandKept'
    BY <1>23, <2>1, ReadsDone, CallMoves, HandStays DEF TypeInv, HandKept, Reads, Places, ReadPlaces, Coroutines,
        CancelRead, CallGoes
  <2> QED BY <2>1, <2>2, <2>3 DEF MaybeReserved
<1>24. ASSUME NEW s \in Servers, CancelCloses(s) PROVE RowsKept' /\ AdmissionsKept' /\ HandKept' /\ Remembers /\ MaybeReserved
  <2>1. RowsKept' /\ Remembers /\ NoneReserved
    BY <1>24, SameRows DEF ledger, world, memory, CancelCloses, CallGoes
  <2>2. AdmissionsKept'
    BY <1>24, <2>1, CallMoves, AdmissionsStay DEF TypeInv, ledger, world, memory, Places, DoingTyped, CancelCloses,
        CallGoes
  <2>3. HandKept'
    BY <1>24, <2>1, CallMoves, HandStays DEF TypeInv, HandKept, Places, DoingTyped, ledger, world, memory,
        CancelCloses, CallGoes
  <2> QED BY <2>1, <2>2, <2>3 DEF MaybeReserved
<1>25. ASSUME NEW s \in Servers, StopRead(s) PROVE RowsKept' /\ AdmissionsKept' /\ HandKept' /\ Remembers /\ MaybeReserved
  <2>1. RowsKept' /\ Remembers /\ NoneReserved
    <3>1. PICK r \in Answers(s, "call") : Writes(s, "call", r)
      BY <1>25 DEF StopRead, Reads
    <3> QED BY <1>25, <3>1, ReadRows DEF StopRead, Reads, ReadPlaces, Coroutines
  <2>2. AdmissionsKept'
    BY <1>25, <2>1, ReadsDone, CallMoves, AdmissionsStay DEF TypeInv, world, Places, ReadPlaces, Coroutines,
        StopRead
  <2>3. HandKept'
    BY <1>25, <2>1, ReadsDone, CallMoves, HandStays DEF TypeInv, HandKept, Reads, Places, ReadPlaces, Coroutines,
        StopRead
  <2> QED BY <2>1, <2>2, <2>3 DEF MaybeReserved
<1>26. ASSUME NEW s \in Servers, StopCloses(s) PROVE RowsKept' /\ AdmissionsKept' /\ HandKept' /\ Remembers /\ MaybeReserved
  <2>1. RowsKept' /\ Remembers /\ NoneReserved
    BY <1>26, SameRows DEF ledger, world, memory, StopCloses
  <2>2. AdmissionsKept'
    BY <1>26, <2>1, CallMoves, AdmissionsStay DEF TypeInv, ledger, world, memory, Places, DoingTyped, StopCloses
  <2>3. HandKept'
    BY <1>26, <2>1, CallMoves, HandStays DEF TypeInv, HandKept, Places, DoingTyped, ledger, world, memory,
        StopCloses
  <2> QED BY <2>1, <2>2, <2>3 DEF MaybeReserved
<1>27. ASSUME NEW s \in Servers, StopChooses(s) PROVE RowsKept' /\ AdmissionsKept' /\ HandKept' /\ Remembers /\ MaybeReserved
  <2>1. RowsKept' /\ Remembers /\ NoneReserved
    BY <1>27, MarkedRows DEF world, TypeInv, JobsTyped, StopChooses
  <2>2. AdmissionsKept'
    BY <1>27, <2>1, CallMoves, AdmissionsStay DEF TypeInv, ledger, world, memory, Places, DoingTyped, StopChooses
  <2>3. HandKept'
    BY <1>27, <2>1, CallMoves, HandStays DEF TypeInv, HandKept, Places, DoingTyped, ledger, world, memory,
        StopChooses
  <2> QED BY <2>1, <2>2, <2>3 DEF MaybeReserved
<1>28. ASSUME NEW s \in Servers, StopKills(s) PROVE RowsKept' /\ AdmissionsKept' /\ HandKept' /\ Remembers /\ MaybeReserved
  <2>1. RowsKept' /\ Remembers /\ NoneReserved
    <3>1. doing[s].kills \subseteq Jobs
      BY <1>28 DEF TypeInv, DoingTyped, StopKills
    <3> QED BY <1>28, <3>1, ScancelRows DEF ledger, StopKills
  <2>2. AdmissionsKept'
    BY <1>28, <2>1, CallMoves, AdmissionsStay DEF TypeInv, ledger, world, memory, Places, DoingTyped, StopKills
  <2>3. HandKept'
    BY <1>28, <2>1, CallMoves, HandStays DEF TypeInv, HandKept, Places, DoingTyped, ledger, world, memory,
        StopKills
  <2> QED BY <2>1, <2>2, <2>3 DEF MaybeReserved
<1>29. ASSUME NEW s \in Servers, StopReleases(s) PROVE RowsKept' /\ AdmissionsKept' /\ HandKept' /\ Remembers /\ MaybeReserved
  <2>1. RowsKept' /\ Remembers /\ NoneReserved
    BY <1>29, SameRows DEF ledger, world, memory, StopReleases
  <2>2. AdmissionsKept'
    BY <1>29, <2>1, CallMoves, AdmissionsStay DEF TypeInv, ledger, world, memory, Places, DoingTyped, StopReleases
  <2>3. HandKept'
    BY <1>29, <2>1, CallMoves, HandStays DEF TypeInv, HandKept, Places, DoingTyped, ledger, world, memory,
        StopReleases
  <2> QED BY <2>1, <2>2, <2>3 DEF MaybeReserved
<1>30. ASSUME NEW s \in Servers, StopReadAgain(s) PROVE RowsKept' /\ AdmissionsKept' /\ HandKept' /\ Remembers /\ MaybeReserved
  <2>1. RowsKept' /\ Remembers /\ NoneReserved
    <3>1. PICK r \in Answers(s, "call") : Writes(s, "call", r)
      BY <1>30 DEF StopReadAgain, Reads
    <3> QED BY <1>30, <3>1, ReadRows DEF StopReadAgain, Reads, ReadPlaces, Coroutines
  <2>2. AdmissionsKept'
    BY <1>30, <2>1, ReadsDone, CallMoves, AdmissionsStay DEF TypeInv, world, Places, ReadPlaces, Coroutines,
        StopReadAgain
  <2>3. HandKept'
    BY <1>30, <2>1, ReadsDone, CallMoves, HandStays DEF TypeInv, HandKept, Reads, Places, ReadPlaces, Coroutines,
        StopReadAgain
  <2> QED BY <2>1, <2>2, <2>3 DEF MaybeReserved
<1>31. ASSUME NEW s \in Servers, StopReadHands(s) PROVE RowsKept' /\ AdmissionsKept' /\ HandKept' /\ Remembers /\ MaybeReserved
  <2>1. RowsKept' /\ Remembers /\ NoneReserved
    <3>1. PICK r \in Answers(s, "call") : Writes(s, "call", r)
      BY <1>31 DEF StopReadHands, Reads
    <3> QED BY <1>31, <3>1, ReadRows DEF StopReadHands, Reads, ReadPlaces, Coroutines
  <2>2. AdmissionsKept'
    BY <1>31, <2>1, ReadsDone, CallMoves, AdmissionsStay DEF TypeInv, world, Places, ReadPlaces, Coroutines,
        StopReadHands
  <2>3. HandKept'
    BY <1>31, <2>1, ReadsDone, CallMoves, HandStays DEF TypeInv, HandKept, Reads, Places, ReadPlaces, Coroutines,
        StopReadHands
  <2> QED BY <2>1, <2>2, <2>3 DEF MaybeReserved
<1>32. ASSUME NEW s \in Servers, StopAnswers(s) PROVE RowsKept' /\ AdmissionsKept' /\ HandKept' /\ Remembers /\ MaybeReserved
  <2>1. RowsKept' /\ Remembers /\ NoneReserved
    BY <1>32, SameRows DEF ledger, world, memory, StopAnswers, CallGoes
  <2>2. AdmissionsKept'
    BY <1>32, <2>1, CallMoves, AdmissionsStay DEF TypeInv, ledger, world, memory, Places, DoingTyped, StopAnswers,
        CallGoes
  <2>3. HandKept'
    BY <1>32, <2>1, CallMoves, HandStays DEF TypeInv, HandKept, Places, DoingTyped, ledger, world, memory,
        StopAnswers, CallGoes
  <2> QED BY <2>1, <2>2, <2>3 DEF MaybeReserved
<1>33. ASSUME NEW s \in Servers, HandRead(s) PROVE RowsKept' /\ AdmissionsKept' /\ HandKept' /\ Remembers /\ MaybeReserved
  <2>1. RowsKept' /\ Remembers /\ NoneReserved
    BY <1>33, SameRows DEF ledger, world, memory, HandRead, GoesOn
  <2>2. AdmissionsKept'
    <3>1. \A t \in Servers : pc'[t]["admission"] = pc[t]["admission"]
      BY <1>33, CallMoves, GoesOnMoves DEF TypeInv, HandRead, ForHands, Places
    <3> QED BY <1>33, <3>1, <2>1, AdmissionsStay DEF world, HandRead
  <2>3. HandKept'
    <3>1. \A t \in Servers \ {s} : pc'[t]["call"] = pc[t]["call"]
      BY <1>33, CallMoves, GoesOnMoves DEF TypeInv, HandRead, ForHands, Places
    <3>2. \/ pc'[s]["call"] = "metering" /\ hand.ended /\ UNCHANGED hand
          \/ pc'[s]["call"] \in {"status", "chosen", "answering"} /\ UNCHANGED hand
          \/ /\ pc'[s]["call"] \in {"status", "chosen", "answering"} /\ hand' = [hand EXCEPT !.row = "closed"]
             /\ hand.ended /\ \A j \in hand.after : job[j].native
      BY <1>33, CallMoves, GoesOnMoves DEF TypeInv, HandRead, ForHands, Places, ledger
    <3>3. hand.after \subseteq Jobs /\ UNCHANGED <<sched, job>>
      BY <1>33, EnvelopeAssumption DEF HandRead, world, ledger, TypeInv, HandTyped
    <3>4. CASE UNCHANGED hand
      BY <2>1, <3>1, <3>2, <3>4, HandStays DEF HandKept, TypeInv
    <3>5. CASE /\ pc'[s]["call"] \in {"status", "chosen", "answering"} /\ hand' = [hand EXCEPT !.row = "closed"]
               /\ hand.ended /\ \A j \in hand.after : job[j].native
      <4>1. \A j \in hand.after : job[j].state # "none"
        BY <3>3, <3>5 DEF RowsKept, RowKept
      <4>2. hand'.row = "closed" /\ hand'.after = hand.after /\ hand'.ended = hand.ended
        BY <3>5 DEF TypeInv, HandTyped
      <4> QED BY <3>1, <3>3, <3>5, <4>1, <4>2 DEF HandKept
    <3> QED BY <3>2, <3>4, <3>5
  <2> QED BY <2>1, <2>2, <2>3 DEF MaybeReserved
<1>34. ASSUME NEW s \in Servers, HandMetered(s) PROVE RowsKept' /\ AdmissionsKept' /\ HandKept' /\ Remembers /\ MaybeReserved
  <2>1. RowsKept' /\ Remembers /\ NoneReserved
    <3>1. PICK r \in Answers(s, "call") : Writes(s, "call", r)
      BY <1>34 DEF HandMetered, Reads
    <3> QED BY <1>34, <3>1, ReadRows DEF HandMetered, Reads, ReadPlaces, Coroutines
  <2>2. AdmissionsKept'
    BY <1>34, <2>1, ReadsDone, CallMoves, AdmissionsStay DEF TypeInv, world, Places, ReadPlaces, Coroutines,
        HandMetered
  <2>3. HandKept'
    BY <1>34, <2>1, ReadsDone, CallMoves, HandStays DEF TypeInv, HandKept, Reads, Places, ReadPlaces, Coroutines,
        HandMetered
  <2> QED BY <2>1, <2>2, <2>3 DEF MaybeReserved
<1>35. ASSUME NEW s \in Servers, Adopts(s) PROVE RowsKept' /\ AdmissionsKept' /\ HandKept' /\ Remembers /\ MaybeReserved
  <2>0. pc[s]["call"] = "adopt" /\ hand.ended /\ hand.after \subseteq HandJobs /\ \A j \in hand.after : sched[j] # "no"
    BY <1>35 DEF Adopts, HandKept, TypeInv, HandTyped
  <2>1. RowsKept' /\ Remembers /\ NoneReserved /\ \A j \in hand.after : job'[j].state # "none"
    <3>1. ASSUME NEW j \in Jobs
          PROVE  /\ RowKept(j)' /\ (job[j].state # "none" => job'[j].state # "none")
                 /\ j \notin hand.after => job'[j] = job[j]
                 /\ j \in hand.after => job'[j].state # "none"
                 /\ job[j].state = "none" => job'[j].state # "reserved"
      <4>1. UNCHANGED <<sched, wire>> /\ RowKept(j) /\ CanBill(j)' = CanBill(j) /\ Used(j)' = Used(j)
        BY <1>35 DEF Adopts, world, RowsKept, CanBill, Used
      <4>2. CASE j \in hand.after /\ ~job[j].native
        <5> DEFINE st == IF sched[j] = "running" THEN "running" ELSE "queued"
        <5>1. job'[j] = [state |-> st, env |-> hand.env, native |-> TRUE, cancel |-> FALSE, hold |-> Worst[j]]
          BY <1>35, <4>2 DEF Adopts
        <5>2. st \in {"running", "queued"} /\ j \in HandJobs /\ sched[j] # "no" /\ wire[j] = "no"
          BY <2>0, <4>1, <4>2 DEF RowKept
        <5>3. Worst[j] \in Nat /\ Used(j) \in Nat /\ Used(j) <= Worst[j]
          BY EnvelopeAssumption DEF Used
        <5> HIDE DEF st
        <5> QED BY <4>1, <4>2, <5>1, <5>2, <5>3 DEF RowKept, JOB_LIVE
      <4>3. CASE ~(j \in hand.after /\ ~job[j].native)
        <5>1. job'[j] = job[j]
          BY <1>35, <4>3 DEF Adopts
        <5> QED BY <4>1, <4>3, <5>1 DEF RowKept
      <4> QED BY <4>2, <4>3
    <3>2. UNCHANGED <<sched, wire>> /\ hand.after \subseteq HandJobs /\ HandJobs \subseteq Jobs
      BY <1>35, <2>0, EnvelopeAssumption DEF Adopts, world
    <3> QED BY <3>1, <3>2 DEF RowsKept, Remembers, NoneReserved
  <2>2. AdmissionsKept'
    <3>1. \A t \in Servers : pc'[t]["admission"] = pc[t]["admission"]
      BY <1>35, CallMoves, GoesOnMoves DEF TypeInv, Adopts, ForHands, Places
    <3> QED BY <1>35, <3>1, <2>1, AdmissionsStay DEF world, Adopts
  <2>3. HandKept'
    <3>1. \A t \in Servers \ {s} : pc'[t]["call"] = pc[t]["call"]
      BY <1>35, CallMoves, GoesOnMoves DEF TypeInv, Adopts, ForHands, Places
    <3>2. \/ pc'[s]["call"] = "over" /\ UNCHANGED hand
          \/ pc'[s]["call"] \in {"status", "chosen", "answering"} /\ hand' = [hand EXCEPT !.row = "closed"]
      BY <1>35, CallMoves, GoesOnMoves DEF TypeInv, Adopts, ForHands, Places
    <3>3. hand.after \subseteq Jobs /\ sched' = sched
      BY <1>35, <2>0, EnvelopeAssumption DEF Adopts, world
    <3>4. hand.row # "none"
      BY <2>0 DEF HandKept
    <3>5. hand'.after = hand.after /\ hand'.ended = hand.ended /\ (hand'.row = hand.row \/ hand'.row = "closed")
      BY <3>2 DEF TypeInv, HandTyped
    <3> QED BY <2>0, <2>1, <3>1, <3>2, <3>3, <3>4, <3>5 DEF HandKept, Remembers
  <2> QED BY <2>1, <2>2, <2>3 DEF MaybeReserved
<1>36. ASSUME NEW s \in Servers, AdoptedOverCap(s) PROVE RowsKept' /\ AdmissionsKept' /\ HandKept' /\ Remembers /\ MaybeReserved
  <2>1. RowsKept' /\ Remembers /\ NoneReserved
    BY <1>36, SameRows DEF ledger, world, memory, AdoptedOverCap, GoesOn
  <2>2. AdmissionsKept'
    <3>1. \A t \in Servers : pc'[t]["admission"] = pc[t]["admission"]
      BY <1>36, CallMoves, GoesOnMoves DEF TypeInv, AdoptedOverCap, ForHands, Places
    <3> QED BY <1>36, <3>1, <2>1, AdmissionsStay DEF world, AdoptedOverCap
  <2>3. HandKept'
    <3>1. pc[s]["call"] = "over" /\ hand.ended /\ \A j \in hand.after : job[j].state # "none"
      BY <1>36 DEF AdoptedOverCap, HandKept
    <3>2. /\ \A t \in Servers \ {s} : pc'[t]["call"] = pc[t]["call"]
          /\ pc'[s]["call"] \in {"status", "chosen", "answering"}
      BY <1>36, GoesOnMoves DEF AdoptedOverCap, ForHands
    <3>3. hand'.row = "closed" /\ hand'.after = hand.after /\ hand'.ended = hand.ended /\ UNCHANGED <<sched, job>>
      BY <1>36 DEF AdoptedOverCap, TypeInv, HandTyped, world
    <3> QED BY <3>1, <3>2, <3>3 DEF HandKept
  <2> QED BY <2>1, <2>2, <2>3 DEF MaybeReserved
<1>37. ASSUME NEW s \in Servers, ServerDies(s) PROVE RowsKept' /\ AdmissionsKept' /\ HandKept' /\ Remembers /\ MaybeReserved
  <2>1. RowsKept' /\ Remembers /\ NoneReserved
    BY <1>37, SameRows DEF ledger, world, memory, ServerDies
  <2>2. AdmissionsKept'
    BY <1>37, <2>1 DEF AdmissionsKept, AdmissionKept, Remembers, NoneReserved, Before, After, TypeInv, PcTyped,
        AtTyped, Coroutines, ledger, world, ServerDies
  <2>3. HandKept'
    BY <1>37, <2>1, HandStays DEF HandKept, TypeInv, PcTyped, Coroutines, ledger, ServerDies
  <2> QED BY <2>1, <2>2, <2>3 DEF MaybeReserved
<1>38. ASSUME NEW s \in Servers, NEW e \in Envs, HandOpens(s, e) PROVE RowsKept' /\ AdmissionsKept' /\ HandKept' /\ Remembers /\ MaybeReserved
  <2>1. RowsKept' /\ Remembers /\ NoneReserved
    BY <1>38, SameRows DEF ledger, world, memory, HandOpens
  <2>2. AdmissionsKept'
    BY <1>38, <2>1, AdmissionsStay DEF ledger, world, memory, HandOpens
  <2>3. HandKept'
    BY <1>38 DEF HandKept, TypeInv, HandTyped, world, memory, HandOpens
  <2> QED BY <2>1, <2>2, <2>3 DEF MaybeReserved
<1>39. ASSUME NEW j \in Jobs, SchedulerTakes(j) PROVE RowsKept' /\ AdmissionsKept' /\ HandKept' /\ Remembers /\ MaybeReserved
  <2>1. RowsKept' /\ Remembers /\ NoneReserved
    <3>1. /\ wire[j] = "sent" /\ wire'[j] = "took" /\ sched'[j] = "pending" /\ UNCHANGED job
          /\ \A i \in Jobs \ {j} : sched'[i] = sched[i] /\ wire'[i] = wire[i]
      BY <1>39 DEF SchedulerTakes, ledger, TypeInv, WorldTyped
    <3>2. RowKept(j) /\ j \notin HandJobs /\ sched[j] = "no" /\ Worst[j] \in Nat
      BY <3>1, EnvelopeAssumption DEF RowsKept, RowKept
    <3>3. RowKept(j)'
      BY <3>1, <3>2 DEF RowKept, CanBill, Over, JOB_LIVE
    <3> QED BY <3>1, <3>3, OneRow DEF Remembers, NoneReserved
  <2>2. AdmissionsKept'
    BY <1>39, <2>1, AdmissionsStay DEF ledger, world, memory, SchedulerTakes, TypeInv, WorldTyped
  <2>3. HandKept'
    BY <1>39, <2>1, HandStays DEF ledger, world, memory, TypeInv, HandKept, SchedulerTakes
  <2> QED BY <2>1, <2>2, <2>3 DEF MaybeReserved
<1>40. ASSUME NEW j \in Jobs, SchedulerRefuses(j) PROVE RowsKept' /\ AdmissionsKept' /\ HandKept' /\ Remembers /\ MaybeReserved
  <2>1. RowsKept' /\ Remembers /\ NoneReserved
    <3>1. RowKept(j)'
      BY <1>40, EnvelopeAssumption DEF RowsKept, RowKept, CanBill, Used, Over, ledger, TypeInv, WorldTyped,
          JobsTyped, JobRows, SchedulerRefuses
    <3> QED BY <1>40, <3>1, OneRow DEF TypeInv, WorldTyped, Remembers, NoneReserved, ledger, SchedulerRefuses
  <2>2. AdmissionsKept'
    BY <1>40, <2>1, AdmissionsStay DEF ledger, world, memory, SchedulerRefuses, TypeInv, WorldTyped
  <2>3. HandKept'
    BY <1>40, <2>1, HandStays DEF ledger, world, memory, TypeInv, HandKept, SchedulerRefuses
  <2> QED BY <2>1, <2>2, <2>3 DEF MaybeReserved
<1>41. ASSUME NEW j \in Jobs, SubmitLost(j) PROVE RowsKept' /\ AdmissionsKept' /\ HandKept' /\ Remembers /\ MaybeReserved
  <2>1. RowsKept' /\ Remembers /\ NoneReserved
    <3>1. RowKept(j)'
      BY <1>41, EnvelopeAssumption DEF RowsKept, RowKept, CanBill, Used, Over, ledger, TypeInv, WorldTyped,
          JobsTyped, JobRows, SubmitLost
    <3> QED BY <1>41, <3>1, OneRow DEF TypeInv, WorldTyped, Remembers, NoneReserved, ledger, SubmitLost
  <2>2. AdmissionsKept'
    BY <1>41, <2>1, AdmissionsStay DEF ledger, world, memory, SubmitLost, TypeInv, WorldTyped
  <2>3. HandKept'
    BY <1>41, <2>1, HandStays DEF ledger, world, memory, TypeInv, HandKept, SubmitLost
  <2> QED BY <2>1, <2>2, <2>3 DEF MaybeReserved
<1>42. ASSUME NEW j \in Jobs, JobStarts(j) PROVE RowsKept' /\ AdmissionsKept' /\ HandKept' /\ Remembers /\ MaybeReserved
  <2>1. RowsKept' /\ Remembers /\ NoneReserved
    <3>1. RowKept(j)' /\ (sched[j] # "no" => sched'[j] # "no")
      BY <1>42, SchedRow DEF TypeInv, WorldTyped, RowsKept, ledger, JobStarts
    <3> QED BY <1>42, <3>1, OneRow DEF TypeInv, WorldTyped, Remembers, NoneReserved, ledger, JobStarts
  <2>2. AdmissionsKept'
    BY <1>42, <2>1, AdmissionsStay DEF ledger, world, memory, JobStarts
  <2>3. HandKept'
    BY <1>42, <2>1, HandStays DEF ledger, world, memory, TypeInv, HandKept, JobStarts
  <2> QED BY <2>1, <2>2, <2>3 DEF MaybeReserved
<1>43. ASSUME NEW j \in Jobs, JobEnds(j) PROVE RowsKept' /\ AdmissionsKept' /\ HandKept' /\ Remembers /\ MaybeReserved
  <2>1. RowsKept' /\ Remembers /\ NoneReserved
    <3>1. RowKept(j)' /\ (sched[j] # "no" => sched'[j] # "no")
      BY <1>43, SchedRow DEF TypeInv, WorldTyped, RowsKept, ledger, JobEnds
    <3> QED BY <1>43, <3>1, OneRow DEF TypeInv, WorldTyped, Remembers, NoneReserved, ledger, JobEnds
  <2>2. AdmissionsKept'
    BY <1>43, <2>1, AdmissionsStay DEF ledger, world, memory, JobEnds
  <2>3. HandKept'
    BY <1>43, <2>1, HandStays DEF ledger, world, memory, TypeInv, HandKept, JobEnds
  <2> QED BY <2>1, <2>2, <2>3 DEF MaybeReserved
<1>44. ASSUME NEW j \in Jobs, HandSubmits(j) PROVE RowsKept' /\ AdmissionsKept' /\ HandKept' /\ Remembers /\ MaybeReserved
  <2>1. RowsKept' /\ Remembers /\ NoneReserved
    <3>1. RowKept(j)'
      BY <1>44, EnvelopeAssumption DEF RowsKept, RowKept, CanBill, Used, Over, ledger, TypeInv, WorldTyped,
          JobsTyped, JobRows,
        HandSubmits
    <3> QED BY <1>44, <3>1, OneRow DEF TypeInv, WorldTyped, Remembers, NoneReserved, ledger, HandSubmits
  <2>2. AdmissionsKept'
    BY <1>44, <2>1, AdmissionsStay DEF ledger, world, memory, HandSubmits
  <2>3. HandKept'
    BY <1>44, <2>1, HandStays DEF ledger, world, memory, TypeInv, HandKept, HandSubmits
  <2> QED BY <2>1, <2>2, <2>3 DEF MaybeReserved
<1>45. ASSUME HandEnds PROVE RowsKept' /\ AdmissionsKept' /\ HandKept' /\ Remembers /\ MaybeReserved
  <2>1. RowsKept' /\ Remembers /\ NoneReserved
    BY <1>45, SameRows DEF ledger, world, memory, HandEnds
  <2>2. AdmissionsKept'
    BY <1>45, <2>1, AdmissionsStay DEF ledger, world, memory, HandEnds
  <2>3. HandKept'
    BY <1>45 DEF HandKept, TypeInv, HandTyped, world, memory, HandEnds
  <2> QED BY <2>1, <2>2, <2>3 DEF MaybeReserved
<1>46. ASSUME NEW e \in Envs, DeadlinePasses(e) PROVE RowsKept' /\ AdmissionsKept' /\ HandKept' /\ Remembers /\ MaybeReserved
  <2>1. RowsKept' /\ Remembers /\ NoneReserved
    BY <1>46, SameRows DEF ledger, world, memory, DeadlinePasses
  <2>2. AdmissionsKept'
    BY <1>46, <2>1, AdmissionsStay DEF ledger, world, memory, DeadlinePasses
  <2>3. HandKept'
    BY <1>46, <2>1, HandStays DEF ledger, world, memory, TypeInv, HandKept, DeadlinePasses
  <2> QED BY <2>1, <2>2, <2>3 DEF MaybeReserved
<1>47. ASSUME UNCHANGED vars PROVE RowsKept' /\ AdmissionsKept' /\ HandKept' /\ Remembers /\ MaybeReserved
  <2>1. RowsKept' /\ Remembers /\ NoneReserved
    BY <1>47, SameRows DEF vars, ledger, world
  <2> QED BY <1>47, <2>1, AdmissionsStay, HandStays DEF vars, ledger, world, memory, TypeInv, HandKept, MaybeReserved
<1> QED BY <1>1, <1>2, <1>3, <1>4, <1>5, <1>6, <1>7, <1>8, <1>9, <1>10, <1>11, <1>12, <1>13, <1>14, <1>15,
            <1>16, <1>17, <1>18, <1>19, <1>20, <1>21, <1>22, <1>23, <1>24, <1>25, <1>26, <1>27, <1>28, <1>29,
            <1>30, <1>31, <1>32, <1>33, <1>34, <1>35, <1>36, <1>37, <1>38, <1>39, <1>40, <1>41, <1>42, <1>43,
            <1>44, <1>45, <1>46, <1>47 DEF Next, Admission, AdmissionGoesOn, Call, CallGoesOn, Scheduler

(* Every step keeps the invariant.                                         *)
LEMMA HoldKept ==
  ASSUME Prompt, TypeInv, HoldInv, Next \/ UNCHANGED vars
  PROVE  HoldInv'
<1>1. ReadingStep
  BY TypesKept
<1> QED BY <1>1, RowsStep, SnapshotsStay DEF HoldInv, TypeInv, Remembers

(* It holds at first.                                                      *)
LEMMA HoldInit == Init => HoldInv
<1> SUFFICES ASSUME Init PROVE HoldInv
  OBVIOUS
<1>1. RowsKept
  BY DEF Init, RowsKept, RowKept, NoJobRow, CanBill, JOB_LIVE
<1>2. SnapshotsKept /\ AdmissionsKept /\ HandKept
  BY DEF Init, SnapshotsKept, AdmissionsKept, AdmissionKept, HandKept, ReadPlaces, Before, After, Coroutines
<1> QED BY <1>1, <1>2 DEF HoldInv

(* So it always holds.                                                     *)
LEMMA Holds == Prompt => (Spec => [](TypeInv /\ HoldInv))
<1> SUFFICES ASSUME Prompt PROVE Spec => [](TypeInv /\ HoldInv)
  OBVIOUS
<1>1. TypeInv /\ HoldInv /\ [Next]_vars => (TypeInv /\ HoldInv)'
  BY TypesKept, HoldKept
<1>2. Init => TypeInv /\ HoldInv
  BY TypesInit, HoldInit
<1> QED BY <1>1, <1>2, PTL DEF Spec

(* A row holds at least what its job can bill.                             *)
LEMMA RowCovers ==
  ASSUME TypeInv, RowsKept, NEW j \in Jobs \ HandJobs
  PROVE  /\ JobHold(job[j]) >= Exposure(j)
         /\ CanBill(j) => job[j].state \in JOB_LIVE
         /\ job[j].state = "reserved" => JobHold(job[j]) >= Worst[j]
<1>1. /\ RowKept(j) /\ Worst[j] \in Nat /\ Charge[j] \in Nat /\ Charge[j] <= Worst[j] /\ job[j].hold \in Nat
      /\ sched[j] \in {"no", "pending", "running", "ended", "cancelled"}
  BY EnvelopeAssumption DEF RowsKept, TypeInv, JobsTyped, JobRows, WorldTyped
<1>2. CASE job[j].state = "none"
  BY <1>1, <1>2 DEF RowKept, JobHold, Exposure, CanBill, Used, Over
<1>3. CASE job[j].state = "refused"
  BY <1>1, <1>3 DEF RowKept, JobHold, Exposure, CanBill, Used, Over, JOB_LIVE
<1>4. CASE job[j].state \notin {"none", "refused"}
  BY <1>1, <1>4 DEF RowKept, JobHold, Exposure, CanBill, Used, Over
<1> QED BY <1>2, <1>3, <1>4

(* However the readings of the servers, their stops and their admissions   *)
(* overlap, a job hpc-bridge submitted is held at no less than it can      *)
(* bill, and one that can still bill has a live row (`job_hold`,           *)
(* `billing_jobs`), when an admission is not slower than                   *)
(* STALE_RESERVATION_S.                                                    *)
THEOREM HeldForWhatBills == Prompt => (Spec => []HoldsCover)
<1>1. TypeInv /\ HoldInv => HoldsCover
  BY RowCovers DEF HoldInv, HoldsCover, LiveRows
<1> QED BY <1>1, Holds, PTL

(* A stop says `down` only when no job of ours, and none that a hand       *)
(* submit left, can bill any more (`after_stop`).                          *)
LEMMA DownStep ==
  ASSUME TypeInv, HoldInv, asked, ~asked', Next
  PROVE  \A j \in (Jobs \ HandJobs) \cup hand.after : ~CanBill(j)
<1>1. PICK s \in Servers : StopAnswers(s)
  <2>1. ASSUME NEW s \in Servers PROVE ~Admission(s)
    BY DEF Admission, AdmissionGoesOn, SubmitNew, SubmitInto, SubmitOffered, OfferRead, Rebind, OpenEnvelope,
      OpensNothing, AdmissionRead, Reserve, MarkExhausted, ScriptWritten, ScriptFails, SubmitAnswered,
      SubmitUnanswered, EndsAtOnce, EndRead, Reads, Writes
  <2>2. ASSUME NEW s \in Servers PROVE ~(StatusRead(s) \/ CancelSent(s) \/ CancelRead(s) \/ CancelCloses(s)
                                         \/ StopRead(s) \/ StopCloses(s) \/ StopChooses(s) \/ StopKills(s)
                                         \/ StopReleases(s) \/ StopReadAgain(s) \/ StopReadHands(s))
    BY DEF StatusRead, CancelSent, CancelRead, CancelCloses, StopRead, StopCloses, StopChooses, StopKills,
      StopReleases, StopReadAgain, StopReadHands, Reads, Writes
  <2>3. ASSUME NEW s \in Servers PROVE ~(HandRead(s) \/ HandMetered(s) \/ Adopts(s) \/ AdoptedOverCap(s)
                                         \/ ServerDies(s) \/ \E e \in Envs : HandOpens(s, e) \/ StatusCall(s, e))
    BY DEF HandRead, HandMetered, Adopts, AdoptedOverCap, ServerDies, HandOpens, StatusCall, Reads, Writes
  <2>4. ASSUME NEW s \in Servers PROVE /\ \A e \in Envs, mode \in {"drain", "abort"} : ~CancelEnvelope(s, e, mode)
                                       /\ \A j \in Jobs : ~CancelJob(s, j)
                                       /\ \A choice \in {"stop_cancel", "stop_keep"} : ~StopCall(s, choice)
    BY DEF CancelEnvelope, CancelJob, Cancel, StopCall
  <2>5. ~Scheduler /\ \A e \in Envs : ~DeadlinePasses(e)
    BY DEF Scheduler, SchedulerTakes, SchedulerRefuses, SubmitLost, JobStarts, JobEnds, HandSubmits, HandEnds,
      DeadlinePasses
  <2> QED BY <2>1, <2>2, <2>3, <2>4, <2>5 DEF Next, Call, CallGoesOn
<1>2. LiveRows = {} /\ hand.row # "open"
  BY <1>1 DEF StopAnswers, SaysDown
<1>3. ASSUME NEW j \in Jobs \ HandJobs PROVE ~CanBill(j)
  BY <1>2, RowCovers DEF HoldInv, LiveRows
<1>4. ASSUME NEW j \in hand.after PROVE ~CanBill(j)
  <2>1. j \in Jobs /\ job[j].state # "none"
    BY <1>2, <1>4, EnvelopeAssumption DEF HoldInv, HandKept, TypeInv, HandTyped
  <2> QED BY <1>2, <2>1 DEF HoldInv, RowsKept, RowKept, LiveRows
<1> QED BY <1>3, <1>4

(* A stop says `down` only when no job of ours, in any server's hands, can *)
(* bill any more.                                                          *)
THEOREM DownWhenNothingBills == Prompt => (Spec => DownIsTrue)
<1> SUFFICES ASSUME Prompt PROVE Spec => DownIsTrue
  OBVIOUS
<1>1. TypeInv /\ HoldInv /\ [Next]_vars =>
        [asked /\ ~asked' => \A j \in (Jobs \ HandJobs) \cup hand.after : ~CanBill(j)]_vars
  BY DownStep DEF vars
<1>2. Spec => [](TypeInv /\ HoldInv)
  BY Holds
<1> QED BY <1>1, <1>2, PTL DEF Spec, DownIsTrue

-----------------------------------------------------------------------------
(* The caps.                                                               *)

(* A job is reserved by its admission alone, which found it to fit beside  *)
(* everything its envelope holds.                                          *)
LEMMA ReservedBy ==
  ASSUME Prompt, TypeInv, HoldInv, Next, NEW j \in Jobs, Reserved(j)
  PROVE  \E e \in Envs : /\ job'[j].env = e /\ e # None
                         /\ EnvelopeHold(e, job) + Worst[j] <= envelope[e].cap
<1>1. PICK s \in Servers : Reserve(s)
  BY RowsStep DEF MaybeReserved, NoneReserved, Reserved
<1> DEFINE row == [state |-> "reserved", env |-> at[s].env, native |-> FALSE, cancel |-> FALSE,
                   hold |-> Worst[at[s].job]]
<1>2. Fits(s) /\ job' = [job EXCEPT ![at[s].job] = row]
  BY <1>1 DEF Reserve, Reserved
<1>3. j = at[s].job
  <2> HIDE DEF row
  <2> QED BY <1>2 DEF TypeInv, JobsTyped, Reserved
<1>4. job'[j] = row
  <2> HIDE DEF row
  <2> QED BY <1>2, <1>3 DEF TypeInv, JobsTyped
<1>5. at[s].env \in Envs
  BY <1>1 DEF HoldInv, AdmissionsKept, AdmissionKept, Reserve
<1> QED BY <1>2, <1>3, <1>4, <1>5, EnvelopeAssumption DEF Fits

(* What an envelope holds covers what its jobs can bill.                   *)
LEMMA HoldCoversEnvelope ==
  ASSUME TypeInv, RowsKept, NEW e \in Envs
  PROVE  LET bills == [x \in Jobs |-> IF job[x].env = e /\ job[x].state # "refused"
                                      THEN IF job[x].state = "reserved" THEN Worst[x] ELSE Exposure(x)
                                      ELSE 0]
         IN  /\ Total(bills, Jobs) <= EnvelopeHold(e, job)
             /\ Total(bills, Jobs) \in Nat /\ EnvelopeHold(e, job) \in Nat
<1> DEFINE bills == [x \in Jobs |-> IF job[x].env = e /\ job[x].state # "refused"
                                    THEN IF job[x].state = "reserved" THEN Worst[x] ELSE Exposure(x)
                                    ELSE 0]
           holds == [x \in Jobs |-> (IF job[x].env = e THEN JobHold(job[x]) ELSE 0) + envelope[e].un[x]]
<1>1. ASSUME NEW x \in Jobs PROVE bills[x] \in Nat /\ holds[x] \in Nat /\ bills[x] <= holds[x]
  <2>1. /\ RowKept(x) /\ Worst[x] \in Nat /\ Charge[x] \in Nat /\ Charge[x] <= Worst[x]
        /\ job[x].hold \in Nat /\ envelope[e].un[x] \in Nat
        /\ sched[x] \in {"no", "pending", "running", "ended", "cancelled"}
    BY EnvelopeAssumption DEF RowsKept, TypeInv, JobsTyped, JobRows, WorldTyped, EnvelopeTyped
  <2> DEFINE un == envelope[e].un[x]
             bill == IF job[x].state = "reserved" THEN Worst[x] ELSE Exposure(x)
  <2>2. bills[x] = (IF job[x].env = e /\ job[x].state # "refused" THEN bill ELSE 0)
        /\ holds[x] = (IF job[x].env = e THEN JobHold(job[x]) ELSE 0) + un
    OBVIOUS
  <2>3. CASE job[x].env = e /\ job[x].state # "refused"
    <3>1. job[x].state # "none" /\ JobHold(job[x]) = job[x].hold
      BY <2>1, <2>3, EnvelopeAssumption DEF RowKept, JobHold
    <3>2. bill \in Nat /\ bill <= job[x].hold
      <4>1. CASE job[x].state = "reserved"
        BY <2>1, <4>1 DEF RowKept
      <4>2. CASE job[x].state # "reserved" /\ CanBill(x)
        <5>1. sched[x] \notin Over
          BY <2>1, <4>2 DEF CanBill, RowKept, Over
        <5> QED BY <2>1, <3>1, <4>2, <5>1 DEF RowKept, Exposure
      <4>3. CASE job[x].state # "reserved" /\ ~CanBill(x)
        <5>1. Used(x) \in Nat /\ Used(x) <= Worst[x] /\ Exposure(x) = Used(x)
          BY <2>1, <4>3 DEF Used, Exposure
        <5> QED BY <2>1, <3>1, <4>3, <5>1 DEF RowKept
      <4> QED BY <4>1, <4>2, <4>3
    <3> QED BY <2>1, <2>2, <2>3, <3>1, <3>2
  <2>4. CASE ~(job[x].env = e /\ job[x].state # "refused")
    <3>1. JobHold(job[x]) \in Nat
      BY <2>1 DEF JobHold
    <3> QED BY <2>1, <2>2, <2>4, <3>1
  <2> QED BY <2>3, <2>4
<1>2. Total(bills, Jobs) = SumOf(bills, Jobs) /\ EnvelopeHold(e, job) = SumOf(holds, Jobs)
  BY DEF Total, SumOf, EnvelopeHold
<1> HIDE DEF bills, holds
<1>3. /\ SumOf(bills, Jobs) \in Nat /\ SumOf(holds, Jobs) \in Nat
      /\ SumOf(bills, Jobs) <= SumOf(holds, Jobs)
  BY <1>1, SumType, SumGrows, EnvelopeAssumption
<1> QED BY <1>2, <1>3 DEF bills

(* So what its jobs can bill, with this one, is within the cap.            *)
LEMMA BudgetStep ==
  ASSUME Prompt, TypeInv, HoldInv, Next, NEW j \in Jobs, Reserved(j)
  PROVE  Worst[j] + Total([x \in Jobs |-> IF job[x].env = job'[j].env /\ job[x].state # "refused"
                                          THEN IF job[x].state = "reserved" THEN Worst[x] ELSE Exposure(x)
                                          ELSE 0], Jobs)
           <= envelope[job'[j].env].cap
<1>1. PICK e \in Envs : job'[j].env = e /\ EnvelopeHold(e, job) + Worst[j] <= envelope[e].cap
  BY ReservedBy
<1> DEFINE bills == [x \in Jobs |-> IF job[x].env = e /\ job[x].state # "refused"
                                    THEN IF job[x].state = "reserved" THEN Worst[x] ELSE Exposure(x)
                                    ELSE 0]
<1>2. /\ Total(bills, Jobs) <= EnvelopeHold(e, job)
      /\ Total(bills, Jobs) \in Nat /\ EnvelopeHold(e, job) \in Nat
  BY HoldCoversEnvelope DEF HoldInv
<1>3. Worst[j] \in Nat /\ envelope[e].cap \in Nat
  BY EnvelopeAssumption DEF TypeInv, EnvelopeTyped
<1> HIDE DEF bills
<1>4. Worst[j] + Total(bills, Jobs) <= envelope[e].cap
  BY <1>1, <1>2, <1>3
<1> QED BY <1>1, <1>4 DEF bills

(* When a job is reserved, all its envelope's jobs can bill, this one at   *)
(* its worst, is within the cap the user approved (`reserve_job`), for any *)
(* number of servers that admit against the same envelope.                 *)
THEOREM ReservedWithinCap == Prompt => (Spec => BudgetKept)
<1> SUFFICES ASSUME Prompt PROVE Spec => BudgetKept
  OBVIOUS
<1>1. TypeInv /\ HoldInv /\ [Next]_vars =>
        [\A j \in Jobs : Reserved(j) =>
           Worst[j] + Total([x \in Jobs |-> IF job[x].env = job'[j].env /\ job[x].state # "refused"
                                            THEN IF job[x].state = "reserved" THEN Worst[x] ELSE Exposure(x)
                                            ELSE 0], Jobs)
             <= envelope[job'[j].env].cap]_vars
  BY BudgetStep
<1>2. Spec => [](TypeInv /\ HoldInv)
  BY Holds
<1> QED BY <1>1, <1>2, PTL DEF Spec, BudgetKept

-----------------------------------------------------------------------------
(* Without jobs submitted by hand: envelopes taken out of admission stay   *)
(* out, and the ceiling.                                                   *)

Active == ENVELOPE_ADMITTING \cup {"draining"}

(* What a step does to the envelopes: none disappears, and none admits     *)
(* again; it takes nothing into account that was not, or it grants one cap *)
(* the ceiling allows.                                                     *)
EnvelopesGo ==
  \A e \in Envs :
    /\ envelope[e].state # "none" => envelope'[e].state # "none"
    /\ envelope[e].state \in {"draining", "closed"} => envelope'[e].state \in {"draining", "closed"}
Quieter ==
  \A e \in Envs :
    /\ envelope'[e].cap = envelope[e].cap
    /\ envelope'[e].state \in ENVELOPE_ADMITTING => Admits(e)
    /\ past = {} /\ envelope'[e].state = "draining" => envelope[e].state \in Active
Granted ==
  \E e \in Envs, c \in Caps :
    /\ CeilingAllows(e, c) /\ envelope'[e].cap = c
    /\ \A x \in Envs \ {e} : envelope'[x] = envelope[x]
EnvelopesStep == EnvelopesGo /\ (Quieter \/ Granted)

(* What it rests on: no hand submit, rows of envelopes there are, an       *)
(* admission that found its envelope full marks it before anything else    *)
(* happens, and what a stop closed.                                        *)
HandOff == hand.row = "none"
RowEnvs == \A j \in Jobs : job[j].state # "none" => job[j].env \in Envs /\ envelope[job[j].env].state # "none"
ExhaustsKept == \A s \in Servers : pc[s]["admission"] = "exhaust" => at[s].env \in Envs /\ Admits(at[s].env)
ClosedKept == \A e \in barred : envelope[e].state \in {"draining", "closed"}
StopInv == HandOff /\ RowEnvs /\ ExhaustsKept /\ ClosedKept

(* A step that touches no envelope.                                        *)
LEMMA EnvelopesSame ==
  ASSUME UNCHANGED envelope
  PROVE  EnvelopesStep
BY DEF EnvelopesStep, EnvelopesGo, Quieter, Admits, Active

(* States change, none into an admitting one.                              *)
LEMMA EnvelopesMove ==
  ASSUME EnvelopeTyped,
         \A e \in Envs : \E st \in States :
           /\ envelope'[e].state = st /\ envelope'[e].cap = envelope[e].cap
           /\ \/ st = envelope[e].state
              \/ st = "closed"
              \/ st = "draining" /\ (envelope[e].state \in Active \/ past # {})
              \/ st \in ENVELOPE_ADMITTING /\ Admits(e)
  PROVE  EnvelopesStep
<1>1. EnvelopesGo
  BY DEF EnvelopesGo, Active, ENVELOPE_ADMITTING, Admits, States
<1>2. Quieter
  BY DEF Quieter, Active, ENVELOPE_ADMITTING, Admits
<1> QED BY <1>1, <1>2 DEF EnvelopesStep

(* One cap is granted, of an envelope that keeps its state or is new.      *)
LEMMA EnvelopeGranted ==
  ASSUME EnvelopeTyped, NEW e \in Envs, NEW c \in Caps, CeilingAllows(e, c), envelope'[e].cap = c,
         envelope'[e].state = envelope[e].state \/ (envelope[e].state = "none" /\ envelope'[e].state = "open"),
         \A x \in Envs \ {e} : envelope'[x] = envelope[x]
  PROVE  EnvelopesStep
<1>1. EnvelopesGo
  BY DEF EnvelopesGo
<1>2. Granted
  BY DEF Granted
<1> QED BY <1>1, <1>2 DEF EnvelopesStep

(* A reading closes envelopes, or has those past their deadline drain; it  *)
(* opens none.                                                             *)
LEMMA EnvelopesRead ==
  ASSUME TypeInv, NEW s \in Servers, NEW k \in Coroutines, NEW from \in ReadPlaces, Reads(s, k, from)
  PROVE  EnvelopesStep
<1>1. PICK r \in Answers(s, k) : Writes(s, k, r)
  BY DEF Reads
<1>2. PICK stale \in SUBSET {j \in Jobs : MayBeStale(s, r, j)} :
        envelope' = [e \in Envs |->
           IF e \notin r.ids THEN envelope[e]
           ELSE [envelope[e] EXCEPT !.un = [j \in Jobs |-> Unledgered(r, e, j)],
                                    !.state = StateRead(r, stale, e),
                                    !.metered = @ \/ r.ok]]
  BY <1>1 DEF Writes
<1>3. ASSUME NEW e \in Envs
      PROVE  \E st \in States :
               /\ envelope'[e].state = st /\ envelope'[e].cap = envelope[e].cap
               /\ \/ st = envelope[e].state
                  \/ st = "closed"
                  \/ st = "draining" /\ (envelope[e].state \in Active \/ past # {})
                  \/ st \in ENVELOPE_ADMITTING /\ Admits(e)
  <2>1. envelope[e] \in [state : States, approved_by : Servers \cup {None}, cap : Nat, metered : BOOLEAN,
                         un : [Jobs -> Nat]]
    BY DEF TypeInv, EnvelopeTyped
  <2>2. CASE e \notin r.ids
    BY <1>2, <2>1, <2>2
  <2>3. CASE e \in r.ids
    <3>1. envelope'[e].state = StateRead(r, stale, e) /\ envelope'[e].cap = envelope[e].cap
      BY <1>2, <2>1, <2>3
    <3>2. \/ StateRead(r, stale, e) = envelope[e].state
          \/ StateRead(r, stale, e) = "closed"
          \/ StateRead(r, stale, e) = "draining" /\ past # {}
      BY DEF StateRead
    <3> QED BY <2>1, <3>1, <3>2 DEF States
  <2> QED BY <2>2, <2>3
<1> QED BY <1>3, EnvelopesMove DEF TypeInv

(* While a coroutine has not awaited, no other one goes on.                *)
LEMMA NoneExhausting ==
  ASSUME Prompt, NEW s \in Servers, NEW k \in Coroutines, May(s, k)
  PROVE  \A t \in Servers : <<t, "admission">> # <<s, k>> => pc[t]["admission"] # "exhaust"
<1> SUFFICES ASSUME NEW t \in Servers, <<t, "admission">> # <<s, k>> PROVE pc[t]["admission"] # "exhaust"
  OBVIOUS
<1>1. <<t, "admission">> \in Others(s, k)
  BY DEF Others, Coroutines
<1> QED BY <1>1 DEF May, Running

(* So a coroutine that goes on leaves no admission about to mark its       *)
(* envelope.                                                               *)
LEMMA ExhaustLeft ==
  ASSUME Prompt, PcTyped, NEW s \in Servers, NEW k \in Coroutines, May(s, k), NEW where \in Places, Goes(s, k, where),
         where # "exhaust"
  PROVE  ExhaustsKept'
<1>1. \A t \in Servers : pc'[t]["admission"] # "exhaust"
  BY NoneExhausting, GoesTo DEF Coroutines
<1> QED BY <1>1 DEF ExhaustsKept

(* What a stop closed is still closed.                                     *)
LEMMA ClosedStays ==
  ASSUME WorldTyped, ClosedKept, EnvelopesGo, barred' = barred
  PROVE  ClosedKept'
BY DEF WorldTyped, ClosedKept, EnvelopesGo

(* Every step treats the envelopes so.                                     *)
LEMMA StopStep ==
  ASSUME Prompt, HandJobs = {}, TypeInv, HoldInv, StopInv, Next \/ UNCHANGED vars
  PROVE  EnvelopesStep /\ HandOff' /\ ExhaustsKept' /\ ClosedKept'
<1>1. ASSUME NEW s \in Servers, NEW j \in Jobs, SubmitNew(s, j) PROVE EnvelopesStep /\ HandOff' /\ ExhaustsKept' /\ ClosedKept'
  <2>1. EnvelopesStep
    BY <1>1, EnvelopesSame DEF ledger, SubmitNew
  <2>2. HandOff'
    BY <1>1 DEF StopInv, HandOff, ledger, Reads, Writes, SubmitNew
  <2>3. ExhaustsKept'
    BY <1>1, ExhaustLeft DEF TypeInv, Reads, Places, Coroutines, SubmitNew
  <2>4. ClosedKept'
    BY <1>1, <2>1, ClosedStays DEF EnvelopesStep, StopInv, TypeInv, Reads, Writes, SubmitNew
  <2> QED BY <2>1, <2>2, <2>3, <2>4
<1>2. ASSUME NEW s \in Servers, NEW j \in Jobs, NEW e \in Envs, SubmitInto(s, j, e) PROVE EnvelopesStep /\ HandOff' /\ ExhaustsKept' /\ ClosedKept'
  <2>1. EnvelopesStep
    <3>1. CASE UNCHANGED envelope
      BY <3>1, EnvelopesSame
    <3>2. CASE \E c \in Caps : CeilingAllows(e, c) /\ envelope' = [envelope EXCEPT ![e].cap = c]
      <4>1. PICK c \in Caps : CeilingAllows(e, c) /\ envelope' = [envelope EXCEPT ![e].cap = c]
        BY <3>2
      <4>2. envelope'[e].cap = c /\ envelope'[e].state = envelope[e].state
            /\ \A x \in Envs \ {e} : envelope'[x] = envelope[x]
        BY <4>1 DEF TypeInv, EnvelopeTyped
      <4> QED BY <4>1, <4>2, EnvelopeGranted DEF TypeInv
    <3> QED BY <1>2, <3>1, <3>2 DEF SubmitInto
  <2>2. HandOff'
    BY <1>2 DEF StopInv, HandOff, ledger, Reads, Writes, SubmitInto
  <2>3. ExhaustsKept'
    BY <1>2, ExhaustLeft DEF TypeInv, Reads, Places, Coroutines, SubmitInto
  <2>4. ClosedKept'
    BY <1>2, <2>1, ClosedStays DEF EnvelopesStep, StopInv, TypeInv, Reads, Writes, SubmitInto
  <2> QED BY <2>1, <2>2, <2>3, <2>4
<1>3. ASSUME NEW s \in Servers, NEW j \in Jobs, NEW e \in Envs, SubmitOffered(s, j, e) PROVE EnvelopesStep /\ HandOff' /\ ExhaustsKept' /\ ClosedKept'
  <2>1. EnvelopesStep
    BY <1>3, EnvelopesSame DEF ledger, SubmitOffered
  <2>2. HandOff'
    BY <1>3 DEF StopInv, HandOff, ledger, Reads, Writes, SubmitOffered
  <2>3. ExhaustsKept'
    BY <1>3, ExhaustLeft DEF TypeInv, Reads, Places, Coroutines, SubmitOffered
  <2>4. ClosedKept'
    BY <1>3, <2>1, ClosedStays DEF EnvelopesStep, StopInv, TypeInv, Reads, Writes, SubmitOffered
  <2> QED BY <2>1, <2>2, <2>3, <2>4
<1>4. ASSUME NEW s \in Servers, OfferRead(s) PROVE EnvelopesStep /\ HandOff' /\ ExhaustsKept' /\ ClosedKept'
  <2>1. EnvelopesStep
    BY <1>4, EnvelopesRead DEF OfferRead, ReadPlaces, Coroutines
  <2>2. HandOff'
    BY <1>4 DEF StopInv, HandOff, ledger, Reads, Writes, OfferRead
  <2>3. ExhaustsKept'
    BY <1>4, ExhaustLeft DEF TypeInv, Reads, Places, Coroutines, OfferRead
  <2>4. ClosedKept'
    BY <1>4, <2>1, ClosedStays DEF EnvelopesStep, StopInv, TypeInv, Reads, Writes, OfferRead
  <2> QED BY <2>1, <2>2, <2>3, <2>4
<1>5. ASSUME NEW s \in Servers, Rebind(s) PROVE EnvelopesStep /\ HandOff' /\ ExhaustsKept' /\ ClosedKept'
  <2>1. EnvelopesStep
    <3>1. PICK e \in Envs : e = at[s].env
      BY <1>5 DEF Rebind, HoldInv, AdmissionsKept, AdmissionKept
    <3>2. CASE envelope' = [envelope EXCEPT ![e].approved_by = s]
      <4>1. \A x \in Envs : envelope'[x].state = envelope[x].state /\ envelope'[x].cap = envelope[x].cap
        BY <3>2 DEF TypeInv, EnvelopeTyped
      <4> QED BY <4>1, EnvelopesMove DEF TypeInv, EnvelopeTyped
    <3>3. CASE \E c \in Caps : CeilingAllows(e, c) /\ envelope' = [envelope EXCEPT ![e].approved_by = s, ![e].cap = c]
      <4>1. PICK c \in Caps : CeilingAllows(e, c) /\ envelope' = [envelope EXCEPT ![e].approved_by = s, ![e].cap = c]
        BY <3>3
      <4>2. envelope'[e].cap = c /\ envelope'[e].state = envelope[e].state
            /\ \A x \in Envs \ {e} : envelope'[x] = envelope[x]
        BY <4>1 DEF TypeInv, EnvelopeTyped
      <4> QED BY <4>1, <4>2, EnvelopeGranted DEF TypeInv
    <3> QED BY <1>5, <3>1, <3>2, <3>3 DEF Rebind
  <2>2. HandOff'
    BY <1>5 DEF StopInv, HandOff, ledger, Reads, Writes, Rebind
  <2>3. ExhaustsKept'
    BY <1>5, ExhaustLeft DEF TypeInv, Reads, Places, Coroutines, Rebind
  <2>4. ClosedKept'
    BY <1>5, <2>1, ClosedStays DEF EnvelopesStep, StopInv, TypeInv, Reads, Writes, Rebind
  <2> QED BY <2>1, <2>2, <2>3, <2>4
<1>6. ASSUME NEW s \in Servers, OpenEnvelope(s) PROVE EnvelopesStep /\ HandOff' /\ ExhaustsKept' /\ ClosedKept'
  <2>1. EnvelopesStep
    <3>1. PICK e \in Envs, c \in Caps :
            /\ envelope[e].state = "none" /\ CeilingAllows(e, c)
            /\ envelope' = [envelope EXCEPT ![e].state = "open", ![e].approved_by = s, ![e].cap = c]
      BY <1>6 DEF OpenEnvelope
    <3>2. envelope'[e].cap = c /\ envelope'[e].state = "open" /\ \A x \in Envs \ {e} : envelope'[x] = envelope[x]
      BY <3>1 DEF TypeInv, EnvelopeTyped
    <3> QED BY <3>1, <3>2, EnvelopeGranted DEF TypeInv
  <2>2. HandOff'
    BY <1>6 DEF StopInv, HandOff, ledger, Reads, Writes, OpenEnvelope
  <2>3. ExhaustsKept'
    BY <1>6, ExhaustLeft DEF TypeInv, Reads, Places, Coroutines, OpenEnvelope
  <2>4. ClosedKept'
    BY <1>6, <2>1, ClosedStays DEF EnvelopesStep, StopInv, TypeInv, Reads, Writes, OpenEnvelope
  <2> QED BY <2>1, <2>2, <2>3, <2>4
<1>7. ASSUME NEW s \in Servers, OpensNothing(s) PROVE EnvelopesStep /\ HandOff' /\ ExhaustsKept' /\ ClosedKept'
  <2>1. EnvelopesStep
    BY <1>7, EnvelopesSame DEF ledger, OpensNothing, Moves
  <2>2. HandOff'
    BY <1>7 DEF StopInv, HandOff, ledger, Reads, Writes, OpensNothing, Moves
  <2>3. ExhaustsKept'
    BY <1>7, ExhaustLeft DEF TypeInv, Reads, Places, Coroutines, OpensNothing, Moves
  <2>4. ClosedKept'
    BY <1>7, <2>1, ClosedStays DEF EnvelopesStep, StopInv, TypeInv, Reads, Writes, OpensNothing, Moves
  <2> QED BY <2>1, <2>2, <2>3, <2>4
<1>8. ASSUME NEW s \in Servers, AdmissionRead(s) PROVE EnvelopesStep /\ HandOff' /\ ExhaustsKept' /\ ClosedKept'
  <2>1. EnvelopesStep
    BY <1>8, EnvelopesRead DEF AdmissionRead, Reads, ReadPlaces, Coroutines
  <2>2. HandOff'
    BY <1>8 DEF StopInv, HandOff, ledger, Reads, Writes, AdmissionRead
  <2>3. ExhaustsKept'
    BY <1>8, ExhaustLeft DEF TypeInv, Reads, Places, Coroutines, AdmissionRead
  <2>4. ClosedKept'
    BY <1>8, <2>1, ClosedStays DEF EnvelopesStep, StopInv, TypeInv, Reads, Writes, AdmissionRead
  <2> QED BY <2>1, <2>2, <2>3, <2>4
<1>9. ASSUME NEW s \in Servers, Reserve(s) PROVE EnvelopesStep /\ HandOff' /\ ExhaustsKept' /\ ClosedKept'
  <2>1. EnvelopesStep
    <3>1. CASE UNCHANGED envelope
      BY <3>1, EnvelopesSame
    <3>2. CASE MayReserve(s) /\ envelope' = [envelope EXCEPT ![at[s].env].state = "open"]
      <4>1. PICK x \in Envs : x = at[s].env
        BY <1>9 DEF Reserve, HoldInv, AdmissionsKept, AdmissionKept
      <4>2. Admits(x) /\ "open" \in ENVELOPE_ADMITTING
        BY <3>2, <4>1 DEF MayReserve, ENVELOPE_ADMITTING
      <4>3. \A y \in Envs : /\ envelope'[y].state = (IF y = x THEN "open" ELSE envelope[y].state)
                            /\ envelope'[y].cap = envelope[y].cap
        BY <3>2, <4>1 DEF TypeInv, EnvelopeTyped
      <4> QED BY <4>2, <4>3, EnvelopesMove DEF TypeInv, EnvelopeTyped, States
    <3> QED BY <1>9, <3>1, <3>2 DEF Reserve
  <2>2. HandOff'
    BY <1>9 DEF StopInv, HandOff, ledger, Reads, Writes, Reserve, Moves
  <2>3. ExhaustsKept'
    <3>1. CASE Moves(s, "exhaust") /\ MayReserve(s) /\ UNCHANGED envelope
      <4>1. pc'[s]["admission"] = "exhaust" /\ at' = at /\ \A t \in Servers \ {s} : pc'[t]["admission"] = pc[t]["admission"]
        BY <3>1, AdmissionMoves DEF Moves, TypeInv, Places
      <4>2. \A t \in Servers \ {s} : pc[t]["admission"] # "exhaust"
        BY <1>9, NoneExhausting DEF Reserve, Coroutines
      <4>3. at[s].env \in Envs /\ Admits(at[s].env)
        BY <1>9, <3>1 DEF MayReserve, Reserve, HoldInv, AdmissionsKept, AdmissionKept
      <4> QED BY <3>1, <4>1, <4>2, <4>3 DEF ExhaustsKept, Admits
    <3>2. CASE \E where \in {"write", "idle"} : Moves(s, where)
      BY <1>9, <3>2, ExhaustLeft DEF Reserve, Moves, Places, Coroutines, TypeInv
    <3> QED BY <1>9, <3>1, <3>2 DEF Reserve
  <2>4. ClosedKept'
    BY <1>9, <2>1, ClosedStays DEF EnvelopesStep, StopInv, TypeInv, Reads, Writes, Reserve, Moves
  <2> QED BY <2>1, <2>2, <2>3, <2>4
<1>10. ASSUME NEW s \in Servers, MarkExhausted(s) PROVE EnvelopesStep /\ HandOff' /\ ExhaustsKept' /\ ClosedKept'
  <2>1. EnvelopesStep
    <3>1. PICK x \in Envs : x = at[s].env
      BY <1>10 DEF MarkExhausted, HoldInv, StopInv, ExhaustsKept, AdmissionsKept, AdmissionKept
    <3>2. envelope' = [envelope EXCEPT ![x].state = "exhausted"] /\ Admits(x) /\ "exhausted" \in ENVELOPE_ADMITTING
      BY <1>10, <3>1 DEF MarkExhausted, StopInv, ExhaustsKept, ENVELOPE_ADMITTING
    <3>3. \A y \in Envs : /\ envelope'[y].state = (IF y = x THEN "exhausted" ELSE envelope[y].state)
                          /\ envelope'[y].cap = envelope[y].cap
      BY <3>2 DEF TypeInv, EnvelopeTyped
    <3> QED BY <3>2, <3>3, EnvelopesMove DEF TypeInv, EnvelopeTyped, States
  <2>2. HandOff'
    BY <1>10 DEF StopInv, HandOff, ledger, Reads, Writes, MarkExhausted, Moves
  <2>3. ExhaustsKept'
    BY <1>10, ExhaustLeft DEF TypeInv, Reads, Places, Coroutines, MarkExhausted, Moves
  <2>4. ClosedKept'
    BY <1>10, <2>1, ClosedStays DEF EnvelopesStep, StopInv, TypeInv, Reads, Writes, MarkExhausted, Moves
  <2> QED BY <2>1, <2>2, <2>3, <2>4
<1>11. ASSUME NEW s \in Servers, ScriptWritten(s) PROVE EnvelopesStep /\ HandOff' /\ ExhaustsKept' /\ ClosedKept'
  <2>1. EnvelopesStep
    BY <1>11, EnvelopesSame DEF ledger, ScriptWritten, Moves
  <2>2. HandOff'
    BY <1>11 DEF StopInv, HandOff, ledger, Reads, Writes, ScriptWritten, Moves
  <2>3. ExhaustsKept'
    BY <1>11, ExhaustLeft DEF TypeInv, Reads, Places, Coroutines, ScriptWritten, Moves
  <2>4. ClosedKept'
    BY <1>11, <2>1, ClosedStays DEF EnvelopesStep, StopInv, TypeInv, Reads, Writes, ScriptWritten, Moves
  <2> QED BY <2>1, <2>2, <2>3, <2>4
<1>12. ASSUME NEW s \in Servers, ScriptFails(s) PROVE EnvelopesStep /\ HandOff' /\ ExhaustsKept' /\ ClosedKept'
  <2>1. EnvelopesStep
    BY <1>12, EnvelopesSame DEF ledger, ScriptFails, Moves
  <2>2. HandOff'
    BY <1>12 DEF StopInv, HandOff, ledger, Reads, Writes, ScriptFails, Moves
  <2>3. ExhaustsKept'
    BY <1>12, ExhaustLeft DEF TypeInv, Reads, Places, Coroutines, ScriptFails, Moves
  <2>4. ClosedKept'
    BY <1>12, <2>1, ClosedStays DEF EnvelopesStep, StopInv, TypeInv, Reads, Writes, ScriptFails, Moves
  <2> QED BY <2>1, <2>2, <2>3, <2>4
<1>13. ASSUME NEW s \in Servers, SubmitAnswered(s) PROVE EnvelopesStep /\ HandOff' /\ ExhaustsKept' /\ ClosedKept'
  <2>1. EnvelopesStep
    BY <1>13, EnvelopesSame DEF ledger, SubmitAnswered, Moves
  <2>2. HandOff'
    BY <1>13 DEF StopInv, HandOff, ledger, Reads, Writes, SubmitAnswered, Moves
  <2>3. ExhaustsKept'
    BY <1>13, ExhaustLeft DEF TypeInv, Reads, Places, Coroutines, SubmitAnswered, Moves
  <2>4. ClosedKept'
    BY <1>13, <2>1, ClosedStays DEF EnvelopesStep, StopInv, TypeInv, Reads, Writes, SubmitAnswered, Moves
  <2> QED BY <2>1, <2>2, <2>3, <2>4
<1>14. ASSUME NEW s \in Servers, SubmitUnanswered(s) PROVE EnvelopesStep /\ HandOff' /\ ExhaustsKept' /\ ClosedKept'
  <2>1. EnvelopesStep
    BY <1>14, EnvelopesSame DEF ledger, SubmitUnanswered, Moves
  <2>2. HandOff'
    BY <1>14 DEF StopInv, HandOff, ledger, Reads, Writes, SubmitUnanswered, Moves
  <2>3. ExhaustsKept'
    BY <1>14, ExhaustLeft DEF TypeInv, Reads, Places, Coroutines, SubmitUnanswered, Moves
  <2>4. ClosedKept'
    BY <1>14, <2>1, ClosedStays DEF EnvelopesStep, StopInv, TypeInv, Reads, Writes, SubmitUnanswered, Moves
  <2> QED BY <2>1, <2>2, <2>3, <2>4
<1>15. ASSUME NEW s \in Servers, EndsAtOnce(s) PROVE EnvelopesStep /\ HandOff' /\ ExhaustsKept' /\ ClosedKept'
  <2>1. EnvelopesStep
    BY <1>15, EnvelopesSame DEF ledger, EndsAtOnce, Moves
  <2>2. HandOff'
    BY <1>15 DEF StopInv, HandOff, ledger, Reads, Writes, EndsAtOnce, Moves
  <2>3. ExhaustsKept'
    BY <1>15, ExhaustLeft DEF TypeInv, Reads, Places, Coroutines, EndsAtOnce, Moves
  <2>4. ClosedKept'
    BY <1>15, <2>1, ClosedStays DEF EnvelopesStep, StopInv, TypeInv, Reads, Writes, EndsAtOnce, Moves
  <2> QED BY <2>1, <2>2, <2>3, <2>4
<1>16. ASSUME NEW s \in Servers, EndRead(s) PROVE EnvelopesStep /\ HandOff' /\ ExhaustsKept' /\ ClosedKept'
  <2>1. EnvelopesStep
    BY <1>16, EnvelopesRead DEF EndRead, ReadPlaces, Coroutines
  <2>2. HandOff'
    BY <1>16 DEF StopInv, HandOff, ledger, Reads, Writes, EndRead, Moves
  <2>3. ExhaustsKept'
    BY <1>16, ExhaustLeft DEF TypeInv, Reads, Places, Coroutines, EndRead, Moves
  <2>4. ClosedKept'
    BY <1>16, <2>1, ClosedStays DEF EnvelopesStep, StopInv, TypeInv, Reads, Writes, EndRead, Moves
  <2> QED BY <2>1, <2>2, <2>3, <2>4
<1>17. ASSUME NEW s \in Servers, NEW e \in Envs, StatusCall(s, e) PROVE EnvelopesStep /\ HandOff' /\ ExhaustsKept' /\ ClosedKept'
  <2>1. EnvelopesStep
    BY <1>17, EnvelopesSame DEF ledger, StatusCall
  <2>2. HandOff'
    BY <1>17 DEF StopInv, HandOff, ledger, Reads, Writes, StatusCall
  <2>3. ExhaustsKept'
    BY <1>17, ExhaustLeft DEF TypeInv, Reads, Places, Coroutines, CallIdle, StatusCall
  <2>4. ClosedKept'
    BY <1>17, <2>1, ClosedStays DEF EnvelopesStep, StopInv, TypeInv, Reads, Writes, StatusCall
  <2> QED BY <2>1, <2>2, <2>3, <2>4
<1>18. ASSUME NEW s \in Servers, NEW e \in Envs, NEW mode \in {"drain", "abort"}, CancelEnvelope(s, e, mode) PROVE EnvelopesStep /\ HandOff' /\ ExhaustsKept' /\ ClosedKept'
  <2>1. EnvelopesStep
    <3>1. \A y \in Envs : /\ envelope'[y].state = (IF y = e /\ Admits(e) THEN "draining" ELSE envelope[y].state)
                          /\ envelope'[y].cap = envelope[y].cap
      BY <1>18 DEF CancelEnvelope, TypeInv, EnvelopeTyped
    <3>2. Admits(e) => envelope[e].state \in Active
      BY DEF Admits, Active
    <3> QED BY <3>1, <3>2, EnvelopesMove DEF TypeInv, EnvelopeTyped, States
  <2>2. HandOff'
    BY <1>18 DEF StopInv, HandOff, ledger, Reads, Writes, CancelEnvelope, Cancel
  <2>3. ExhaustsKept'
    BY <1>18, ExhaustLeft DEF TypeInv, Reads, Places, Coroutines, CallIdle, CancelEnvelope, Cancel
  <2>4. ClosedKept'
    BY <1>18, <2>1, ClosedStays DEF EnvelopesStep, StopInv, TypeInv, Reads, Writes, CancelEnvelope, Cancel
  <2> QED BY <2>1, <2>2, <2>3, <2>4
<1>19. ASSUME NEW s \in Servers, NEW j \in Jobs, CancelJob(s, j) PROVE EnvelopesStep /\ HandOff' /\ ExhaustsKept' /\ ClosedKept'
  <2>1. EnvelopesStep
    BY <1>19, EnvelopesSame DEF ledger, CancelJob, Cancel
  <2>2. HandOff'
    BY <1>19 DEF StopInv, HandOff, ledger, Reads, Writes, CancelJob, Cancel
  <2>3. ExhaustsKept'
    BY <1>19, ExhaustLeft DEF TypeInv, Reads, Places, Coroutines, CallIdle, CancelJob, Cancel
  <2>4. ClosedKept'
    BY <1>19, <2>1, ClosedStays DEF EnvelopesStep, StopInv, TypeInv, Reads, Writes, CancelJob, Cancel
  <2> QED BY <2>1, <2>2, <2>3, <2>4
<1>20. ASSUME NEW s \in Servers, NEW choice \in {"stop_cancel", "stop_keep"}, StopCall(s, choice) PROVE EnvelopesStep /\ HandOff' /\ ExhaustsKept' /\ ClosedKept'
  <2>1. EnvelopesStep
    BY <1>20, EnvelopesSame DEF ledger, StopCall
  <2>2. HandOff'
    BY <1>20 DEF StopInv, HandOff, ledger, Reads, Writes, StopCall
  <2>3. ExhaustsKept'
    BY <1>20, ExhaustLeft DEF TypeInv, Reads, Places, Coroutines, CallIdle, StopCall
  <2>4. ClosedKept'
    BY <1>20, <2>1, ClosedStays DEF EnvelopesStep, StopInv, TypeInv, Reads, Writes, StopCall
  <2> QED BY <2>1, <2>2, <2>3, <2>4
<1>21. ASSUME NEW s \in Servers, StatusRead(s) PROVE EnvelopesStep /\ HandOff' /\ ExhaustsKept' /\ ClosedKept'
  <2>1. EnvelopesStep
    BY <1>21, EnvelopesRead DEF StatusRead, ReadPlaces, Coroutines
  <2>2. HandOff'
    BY <1>21 DEF StopInv, HandOff, ledger, Reads, Writes, StatusRead, CallGoes
  <2>3. ExhaustsKept'
    BY <1>21, ExhaustLeft DEF TypeInv, Reads, Places, Coroutines, CallIdle, StatusRead, CallGoes
  <2>4. ClosedKept'
    BY <1>21, <2>1, ClosedStays DEF EnvelopesStep, StopInv, TypeInv, Reads, Writes, StatusRead, CallGoes
  <2> QED BY <2>1, <2>2, <2>3, <2>4
<1>22. ASSUME NEW s \in Servers, CancelSent(s) PROVE EnvelopesStep /\ HandOff' /\ ExhaustsKept' /\ ClosedKept'
  <2>1. EnvelopesStep
    BY <1>22, EnvelopesSame DEF ledger, CancelSent
  <2>2. HandOff'
    BY <1>22 DEF StopInv, HandOff, ledger, Reads, Writes, CancelSent
  <2>3. ExhaustsKept'
    BY <1>22, ExhaustLeft DEF TypeInv, Reads, Places, Coroutines, CallIdle, CancelSent
  <2>4. ClosedKept'
    BY <1>22, <2>1, ClosedStays DEF EnvelopesStep, StopInv, TypeInv, Reads, Writes, CancelSent
  <2> QED BY <2>1, <2>2, <2>3, <2>4
<1>23. ASSUME NEW s \in Servers, CancelRead(s) PROVE EnvelopesStep /\ HandOff' /\ ExhaustsKept' /\ ClosedKept'
  <2>1. EnvelopesStep
    BY <1>23, EnvelopesRead DEF CancelRead, ReadPlaces, Coroutines
  <2>2. HandOff'
    BY <1>23 DEF StopInv, HandOff, ledger, Reads, Writes, CancelRead, CallGoes
  <2>3. ExhaustsKept'
    BY <1>23, ExhaustLeft DEF TypeInv, Reads, Places, Coroutines, CallIdle, CancelRead, CallGoes
  <2>4. ClosedKept'
    BY <1>23, <2>1, ClosedStays DEF EnvelopesStep, StopInv, TypeInv, Reads, Writes, CancelRead, CallGoes
  <2> QED BY <2>1, <2>2, <2>3, <2>4
<1>24. ASSUME NEW s \in Servers, CancelCloses(s) PROVE EnvelopesStep /\ HandOff' /\ ExhaustsKept' /\ ClosedKept'
  <2>1. EnvelopesStep
    <3>1. \A y \in Envs : /\ envelope'[y].state \in {envelope[y].state, "closed"}
                          /\ envelope'[y].cap = envelope[y].cap
      BY <1>24 DEF CancelCloses, TypeInv, EnvelopeTyped
    <3> QED BY <3>1, EnvelopesMove DEF TypeInv, EnvelopeTyped, States
  <2>2. HandOff'
    BY <1>24 DEF StopInv, HandOff, ledger, Reads, Writes, CancelCloses, CallGoes
  <2>3. ExhaustsKept'
    BY <1>24, ExhaustLeft DEF TypeInv, Reads, Places, Coroutines, CallIdle, CancelCloses, CallGoes
  <2>4. ClosedKept'
    BY <1>24, <2>1, ClosedStays DEF EnvelopesStep, StopInv, TypeInv, Reads, Writes, CancelCloses, CallGoes
  <2> QED BY <2>1, <2>2, <2>3, <2>4
<1>25. ASSUME NEW s \in Servers, StopRead(s) PROVE EnvelopesStep /\ HandOff' /\ ExhaustsKept' /\ ClosedKept'
  <2>1. EnvelopesStep
    BY <1>25, EnvelopesRead DEF StopRead, ReadPlaces, Coroutines
  <2>2. HandOff'
    BY <1>25 DEF StopInv, HandOff, ledger, Reads, Writes, StopRead
  <2>3. ExhaustsKept'
    BY <1>25, ExhaustLeft DEF TypeInv, Reads, Places, Coroutines, CallIdle, StopRead
  <2>4. ClosedKept'
    BY <1>25, <2>1, ClosedStays DEF EnvelopesStep, StopInv, TypeInv, Reads, Writes, StopRead
  <2> QED BY <2>1, <2>2, <2>3, <2>4
<1>26. ASSUME NEW s \in Servers, StopCloses(s) PROVE EnvelopesStep /\ HandOff' /\ ExhaustsKept' /\ ClosedKept'
  <2>1. EnvelopesStep /\ \A y \in Envs : envelope[y].state # "none" => envelope'[y].state \in {"draining", "closed"}
    <3>1. \A y \in Envs : /\ envelope'[y].state = (IF ~(Admits(y) \/ envelope[y].state = "draining") THEN envelope[y].state
                                                  ELSE IF \E j \in LiveRows : job[j].env = y THEN "draining" ELSE "closed")
                          /\ envelope'[y].cap = envelope[y].cap
      BY <1>26 DEF StopCloses, AdmissionClosed, TypeInv, EnvelopeTyped
    <3>2. \A y \in Envs : envelope[y].state \in States /\ (Admits(y) \/ envelope[y].state = "draining" <=> envelope[y].state \in Active)
      BY DEF TypeInv, EnvelopeTyped, Admits, Active
    <3>3. EnvelopesStep
      BY <3>1, <3>2, EnvelopesMove DEF TypeInv, States
    <3> QED BY <3>1, <3>2, <3>3 DEF States, Active, ENVELOPE_ADMITTING
  <2>2. HandOff'
    BY <1>26 DEF StopInv, HandOff, ledger, Reads, Writes, StopCloses
  <2>3. ExhaustsKept'
    BY <1>26, ExhaustLeft DEF TypeInv, Reads, Places, Coroutines, CallIdle, StopCloses
  <2>4. ClosedKept'
    BY <1>26, <2>1 DEF ClosedKept, StopCloses
  <2> QED BY <2>1, <2>2, <2>3, <2>4
<1>27. ASSUME NEW s \in Servers, StopChooses(s) PROVE EnvelopesStep /\ HandOff' /\ ExhaustsKept' /\ ClosedKept'
  <2>1. EnvelopesStep
    <3> DEFINE drains(y) == /\ \E j \in LiveRows : job[j].env = y
                            /\ IF doing[s].choice = "stop_cancel" THEN envelope[y].state # "closed" ELSE Admits(y)
    <3>1. \A y \in Envs : /\ envelope'[y].state = (IF drains(y) THEN "draining" ELSE envelope[y].state)
                          /\ envelope'[y].cap = envelope[y].cap
      BY <1>27 DEF StopChooses, TypeInv, EnvelopeTyped
    <3>2. ASSUME NEW y \in Envs, drains(y) PROVE envelope[y].state \in Active
      <4>1. PICK j \in LiveRows : job[j].env = y
        BY <3>2
      <4>2. j \in Jobs /\ job[j].state # "none"
        BY DEF LiveRows, JOB_LIVE
      <4>3. envelope[y].state # "none" /\ envelope[y].state \in States
        BY <4>1, <4>2 DEF StopInv, RowEnvs, TypeInv, EnvelopeTyped
      <4> QED BY <3>2, <4>3 DEF Admits, Active, States, ENVELOPE_ADMITTING
    <3> HIDE DEF drains
    <3> QED BY <3>1, <3>2, EnvelopesMove DEF TypeInv, EnvelopeTyped, States
  <2>2. HandOff'
    BY <1>27 DEF StopInv, HandOff, ledger, Reads, Writes, StopChooses
  <2>3. ExhaustsKept'
    BY <1>27, ExhaustLeft DEF TypeInv, Reads, Places, Coroutines, CallIdle, StopChooses
  <2>4. ClosedKept'
    BY <1>27, <2>1, ClosedStays DEF EnvelopesStep, StopInv, TypeInv, Reads, Writes, StopChooses
  <2> QED BY <2>1, <2>2, <2>3, <2>4
<1>28. ASSUME NEW s \in Servers, StopKills(s) PROVE EnvelopesStep /\ HandOff' /\ ExhaustsKept' /\ ClosedKept'
  <2>1. EnvelopesStep
    BY <1>28, EnvelopesSame DEF ledger, StopKills
  <2>2. HandOff'
    BY <1>28 DEF StopInv, HandOff, ledger, Reads, Writes, StopKills
  <2>3. ExhaustsKept'
    BY <1>28, ExhaustLeft DEF TypeInv, Reads, Places, Coroutines, CallIdle, StopKills
  <2>4. ClosedKept'
    BY <1>28, <2>1, ClosedStays DEF EnvelopesStep, StopInv, TypeInv, Reads, Writes, StopKills
  <2> QED BY <2>1, <2>2, <2>3, <2>4
<1>29. ASSUME NEW s \in Servers, StopReleases(s) PROVE EnvelopesStep /\ HandOff' /\ ExhaustsKept' /\ ClosedKept'
  <2>1. EnvelopesStep
    BY <1>29, EnvelopesSame DEF ledger, StopReleases
  <2>2. HandOff'
    BY <1>29 DEF StopInv, HandOff, ledger, Reads, Writes, StopReleases
  <2>3. ExhaustsKept'
    BY <1>29, ExhaustLeft DEF TypeInv, Reads, Places, Coroutines, CallIdle, StopReleases
  <2>4. ClosedKept'
    BY <1>29, <2>1, ClosedStays DEF EnvelopesStep, StopInv, TypeInv, Reads, Writes, StopReleases
  <2> QED BY <2>1, <2>2, <2>3, <2>4
<1>30. ASSUME NEW s \in Servers, StopReadAgain(s) PROVE EnvelopesStep /\ HandOff' /\ ExhaustsKept' /\ ClosedKept'
  <2>1. EnvelopesStep
    BY <1>30, EnvelopesRead DEF StopReadAgain, ReadPlaces, Coroutines
  <2>2. HandOff'
    BY <1>30 DEF StopInv, HandOff, ledger, Reads, Writes, StopReadAgain
  <2>3. ExhaustsKept'
    BY <1>30, ExhaustLeft DEF TypeInv, Reads, Places, Coroutines, CallIdle, StopReadAgain
  <2>4. ClosedKept'
    BY <1>30, <2>1, ClosedStays DEF EnvelopesStep, StopInv, TypeInv, Reads, Writes, StopReadAgain
  <2> QED BY <2>1, <2>2, <2>3, <2>4
<1>31. ASSUME NEW s \in Servers, StopReadHands(s) PROVE EnvelopesStep /\ HandOff' /\ ExhaustsKept' /\ ClosedKept'
  <2>1. EnvelopesStep
    BY <1>31, EnvelopesRead DEF StopReadHands, ReadPlaces, Coroutines
  <2>2. HandOff'
    BY <1>31 DEF StopInv, HandOff, ledger, Reads, Writes, StopReadHands
  <2>3. ExhaustsKept'
    BY <1>31, ExhaustLeft DEF TypeInv, Reads, Places, Coroutines, CallIdle, StopReadHands
  <2>4. ClosedKept'
    BY <1>31, <2>1, ClosedStays DEF EnvelopesStep, StopInv, TypeInv, Reads, Writes, StopReadHands
  <2> QED BY <2>1, <2>2, <2>3, <2>4
<1>32. ASSUME NEW s \in Servers, StopAnswers(s) PROVE EnvelopesStep /\ HandOff' /\ ExhaustsKept' /\ ClosedKept'
  <2>1. EnvelopesStep /\ \A y \in Envs : envelope[y].state # "none" => envelope'[y].state \in {"draining", "closed"}
    <3>1. \A y \in Envs : /\ envelope'[y].state = (IF ~(Admits(y) \/ envelope[y].state = "draining") THEN envelope[y].state
                                                  ELSE IF \E j \in LiveRows : job[j].env = y THEN "draining" ELSE "closed")
                          /\ envelope'[y].cap = envelope[y].cap
      BY <1>32 DEF StopAnswers, AdmissionClosed, TypeInv, EnvelopeTyped
    <3>2. \A y \in Envs : envelope[y].state \in States /\ (Admits(y) \/ envelope[y].state = "draining" <=> envelope[y].state \in Active)
      BY DEF TypeInv, EnvelopeTyped, Admits, Active
    <3>3. EnvelopesStep
      BY <3>1, <3>2, EnvelopesMove DEF TypeInv, States
    <3> QED BY <3>1, <3>2, <3>3 DEF States, Active, ENVELOPE_ADMITTING
  <2>2. HandOff'
    BY <1>32 DEF StopInv, HandOff, ledger, Reads, Writes, StopAnswers, CallGoes
  <2>3. ExhaustsKept'
    BY <1>32, ExhaustLeft DEF TypeInv, Reads, Places, Coroutines, CallIdle, StopAnswers, CallGoes
  <2>4. ClosedKept'
    BY <1>32, <2>1 DEF ClosedKept, StopAnswers
  <2> QED BY <2>1, <2>2, <2>3, <2>4
<1>33. ASSUME NEW s \in Servers, HandRead(s) PROVE EnvelopesStep /\ HandOff' /\ ExhaustsKept' /\ ClosedKept'
  <2>1. EnvelopesStep
    BY <1>33, EnvelopesSame DEF ledger, HandRead, GoesOn
  <2>2. HandOff'
    BY <1>33 DEF StopInv, HandOff, ledger, Reads, Writes, HandRead, GoesOn, HandKept, HoldInv
  <2>3. ExhaustsKept'
    <3>1. May(s, "call") /\ \E where \in Places : Goes(s, "call", where) /\ where # "exhaust"
      BY <1>33 DEF HandRead, GoesOn, TypeInv, DoingTyped, ForHands, Places
    <3> QED BY <3>1, ExhaustLeft DEF TypeInv, Coroutines
  <2>4. ClosedKept'
    BY <1>33, <2>1, ClosedStays DEF EnvelopesStep, StopInv, TypeInv, Reads, Writes, HandRead, GoesOn
  <2> QED BY <2>1, <2>2, <2>3, <2>4
<1>34. ASSUME NEW s \in Servers, HandMetered(s) PROVE EnvelopesStep /\ HandOff' /\ ExhaustsKept' /\ ClosedKept'
  BY <1>34 DEF HandMetered, Reads, HandOff, StopInv, HandKept, HoldInv
<1>35. ASSUME NEW s \in Servers, Adopts(s) PROVE EnvelopesStep /\ HandOff' /\ ExhaustsKept' /\ ClosedKept'
  BY <1>35 DEF Adopts, HandOff, StopInv, HandKept, HoldInv
<1>36. ASSUME NEW s \in Servers, AdoptedOverCap(s) PROVE EnvelopesStep /\ HandOff' /\ ExhaustsKept' /\ ClosedKept'
  BY <1>36 DEF AdoptedOverCap, HandOff, StopInv, HandKept, HoldInv
<1>37. ASSUME NEW s \in Servers, ServerDies(s) PROVE EnvelopesStep /\ HandOff' /\ ExhaustsKept' /\ ClosedKept'
  <2>1. EnvelopesStep
    BY <1>37, EnvelopesSame DEF ledger, ServerDies
  <2>2. HandOff'
    BY <1>37 DEF StopInv, HandOff, ledger, Reads, Writes, ServerDies
  <2>3. ExhaustsKept'
    BY <1>37 DEF StopInv, ExhaustsKept, Admits, TypeInv, PcTyped, AtTyped, ledger, Coroutines, ServerDies
  <2>4. ClosedKept'
    BY <1>37, <2>1, ClosedStays DEF EnvelopesStep, StopInv, TypeInv, Reads, Writes, ServerDies
  <2> QED BY <2>1, <2>2, <2>3, <2>4
<1>38. ASSUME NEW s \in Servers, NEW e \in Envs, HandOpens(s, e) PROVE EnvelopesStep /\ HandOff' /\ ExhaustsKept' /\ ClosedKept'
  BY <1>38 DEF HandOpens
<1>39. ASSUME NEW j \in Jobs, SchedulerTakes(j) PROVE EnvelopesStep /\ HandOff' /\ ExhaustsKept' /\ ClosedKept'
  <2>1. EnvelopesStep
    BY <1>39, EnvelopesSame DEF ledger, SchedulerTakes
  <2>2. HandOff'
    BY <1>39 DEF StopInv, HandOff, ledger, Reads, Writes, SchedulerTakes
  <2>3. ExhaustsKept'
    BY <1>39 DEF StopInv, ExhaustsKept, Admits, ledger, world, memory, SchedulerTakes
  <2>4. ClosedKept'
    BY <1>39, <2>1, ClosedStays DEF EnvelopesStep, StopInv, TypeInv, Reads, Writes, SchedulerTakes
  <2> QED BY <2>1, <2>2, <2>3, <2>4
<1>40. ASSUME NEW j \in Jobs, SchedulerRefuses(j) PROVE EnvelopesStep /\ HandOff' /\ ExhaustsKept' /\ ClosedKept'
  <2>1. EnvelopesStep
    BY <1>40, EnvelopesSame DEF ledger, SchedulerRefuses
  <2>2. HandOff'
    BY <1>40 DEF StopInv, HandOff, ledger, Reads, Writes, SchedulerRefuses
  <2>3. ExhaustsKept'
    BY <1>40 DEF StopInv, ExhaustsKept, Admits, ledger, world, memory, SchedulerRefuses
  <2>4. ClosedKept'
    BY <1>40, <2>1, ClosedStays DEF EnvelopesStep, StopInv, TypeInv, Reads, Writes, SchedulerRefuses
  <2> QED BY <2>1, <2>2, <2>3, <2>4
<1>41. ASSUME NEW j \in Jobs, SubmitLost(j) PROVE EnvelopesStep /\ HandOff' /\ ExhaustsKept' /\ ClosedKept'
  <2>1. EnvelopesStep
    BY <1>41, EnvelopesSame DEF ledger, SubmitLost
  <2>2. HandOff'
    BY <1>41 DEF StopInv, HandOff, ledger, Reads, Writes, SubmitLost
  <2>3. ExhaustsKept'
    BY <1>41 DEF StopInv, ExhaustsKept, Admits, ledger, world, memory, SubmitLost
  <2>4. ClosedKept'
    BY <1>41, <2>1, ClosedStays DEF EnvelopesStep, StopInv, TypeInv, Reads, Writes, SubmitLost
  <2> QED BY <2>1, <2>2, <2>3, <2>4
<1>42. ASSUME NEW j \in Jobs, JobStarts(j) PROVE EnvelopesStep /\ HandOff' /\ ExhaustsKept' /\ ClosedKept'
  <2>1. EnvelopesStep
    BY <1>42, EnvelopesSame DEF ledger, JobStarts
  <2>2. HandOff'
    BY <1>42 DEF StopInv, HandOff, ledger, Reads, Writes, JobStarts
  <2>3. ExhaustsKept'
    BY <1>42 DEF StopInv, ExhaustsKept, Admits, ledger, world, memory, JobStarts
  <2>4. ClosedKept'
    BY <1>42, <2>1, ClosedStays DEF EnvelopesStep, StopInv, TypeInv, Reads, Writes, JobStarts
  <2> QED BY <2>1, <2>2, <2>3, <2>4
<1>43. ASSUME NEW j \in Jobs, JobEnds(j) PROVE EnvelopesStep /\ HandOff' /\ ExhaustsKept' /\ ClosedKept'
  <2>1. EnvelopesStep
    BY <1>43, EnvelopesSame DEF ledger, JobEnds
  <2>2. HandOff'
    BY <1>43 DEF StopInv, HandOff, ledger, Reads, Writes, JobEnds
  <2>3. ExhaustsKept'
    BY <1>43 DEF StopInv, ExhaustsKept, Admits, ledger, world, memory, JobEnds
  <2>4. ClosedKept'
    BY <1>43, <2>1, ClosedStays DEF EnvelopesStep, StopInv, TypeInv, Reads, Writes, JobEnds
  <2> QED BY <2>1, <2>2, <2>3, <2>4
<1>44. ASSUME NEW j \in Jobs, HandSubmits(j) PROVE EnvelopesStep /\ HandOff' /\ ExhaustsKept' /\ ClosedKept'
  BY <1>44 DEF HandSubmits
<1>45. ASSUME HandEnds PROVE EnvelopesStep /\ HandOff' /\ ExhaustsKept' /\ ClosedKept'
  BY <1>45 DEF HandEnds, HandOff, StopInv
<1>46. ASSUME NEW e \in Envs, DeadlinePasses(e) PROVE EnvelopesStep /\ HandOff' /\ ExhaustsKept' /\ ClosedKept'
  <2>1. EnvelopesStep
    BY <1>46, EnvelopesSame DEF ledger, DeadlinePasses
  <2>2. HandOff'
    BY <1>46 DEF StopInv, HandOff, ledger, Reads, Writes, DeadlinePasses
  <2>3. ExhaustsKept'
    BY <1>46 DEF StopInv, ExhaustsKept, Admits, ledger, world, memory, DeadlinePasses
  <2>4. ClosedKept'
    BY <1>46, <2>1, ClosedStays DEF EnvelopesStep, StopInv, TypeInv, Reads, Writes, DeadlinePasses
  <2> QED BY <2>1, <2>2, <2>3, <2>4
<1>47. ASSUME UNCHANGED vars PROVE EnvelopesStep /\ HandOff' /\ ExhaustsKept' /\ ClosedKept'
  BY <1>47, EnvelopesSame DEF vars, ledger, memory, world, StopInv, HandOff, ExhaustsKept, ClosedKept, Admits
<1> QED BY <1>1, <1>2, <1>3, <1>4, <1>5, <1>6, <1>7, <1>8, <1>9, <1>10, <1>11, <1>12, <1>13, <1>14, <1>15,
            <1>16, <1>17, <1>18, <1>19, <1>20, <1>21, <1>22, <1>23, <1>24, <1>25, <1>26, <1>27, <1>28, <1>29,
            <1>30, <1>31, <1>32, <1>33, <1>34, <1>35, <1>36, <1>37, <1>38, <1>39, <1>40, <1>41, <1>42, <1>43,
            <1>44, <1>45, <1>46, <1>47 DEF Next, Admission, AdmissionGoesOn, Call, CallGoesOn, Scheduler

(* Every row's envelope stays in the ledger.                               *)
LEMMA RowEnvsKept ==
  ASSUME Prompt, HandJobs = {}, TypeInv, HoldInv, StopInv, Next \/ UNCHANGED vars
  PROVE  RowEnvs'
<1>1. EnvelopesGo
  BY StopStep DEF EnvelopesStep
<1>2. CASE NoneReserved
  BY <1>1, <1>2 DEF NoneReserved, StopInv, RowEnvs, EnvelopesGo
<1>3. ASSUME NEW s \in Servers, Reserve(s) PROVE RowEnvs'
  <2> DEFINE row == [state |-> "reserved", env |-> at[s].env, native |-> FALSE, cancel |-> FALSE,
                     hold |-> Worst[at[s].job]]
  <2>1. CASE UNCHANGED job
    BY <1>1, <2>1 DEF StopInv, RowEnvs, EnvelopesGo
  <2>2. CASE MayReserve(s) /\ job' = [job EXCEPT ![at[s].job] = row]
    <3>1. PICK e \in Envs : e = at[s].env
      BY <1>3 DEF Reserve, HoldInv, AdmissionsKept, AdmissionKept
    <3>2. envelope'[e].state # "none"
      BY <1>1, <2>2, <3>1 DEF MayReserve, Admits, ENVELOPE_ADMITTING, EnvelopesGo
    <3>3. \A j \in Jobs : job'[j] = job[j] \/ job'[j].env = e
      BY <2>2, <3>1 DEF TypeInv, JobsTyped
    <3>4. ASSUME NEW j \in Jobs, job'[j].state # "none" PROVE job'[j].env \in Envs /\ envelope'[job'[j].env].state # "none"
      BY <1>1, <3>2, <3>3, <3>4 DEF StopInv, RowEnvs, EnvelopesGo
    <3> QED BY <3>4 DEF RowEnvs
  <2> QED BY <1>3, <2>1, <2>2 DEF Reserve
<1> QED BY <1>2, <1>3, RowsStep DEF MaybeReserved

(* All this holds at first.                                                *)
LEMMA StopInit == Init => StopInv
<1> SUFFICES ASSUME Init PROVE StopInv
  OBVIOUS
<1>1. HandOff /\ RowEnvs /\ ClosedKept
  BY DEF Init, HandOff, RowEnvs, ClosedKept, NoJobRow
<1>2. ExhaustsKept
  BY DEF Init, ExhaustsKept, Coroutines
<1> QED BY <1>1, <1>2 DEF StopInv

(* So it always holds.                                                     *)
LEMMA Stops == Prompt /\ HandJobs = {} => (Spec => [](TypeInv /\ HoldInv /\ StopInv))
<1> SUFFICES ASSUME Prompt, HandJobs = {} PROVE Spec => [](TypeInv /\ HoldInv /\ StopInv)
  OBVIOUS
<1>1. TypeInv /\ HoldInv /\ StopInv /\ [Next]_vars => (TypeInv /\ HoldInv /\ StopInv)'
  BY TypesKept, HoldKept, StopStep, RowEnvsKept DEF StopInv
<1>2. Init => TypeInv /\ HoldInv /\ StopInv
  BY TypesInit, HoldInit, StopInit
<1> QED BY <1>1, <1>2, PTL DEF Spec

(* An envelope a stop, a cancel or its deadline took out of admission does *)
(* not admit again, however late the readings that saw it open are         *)
(* written.                                                                *)
THEOREM ClosedStaysClosed == Prompt /\ HandJobs = {} => (Spec => StaysClosed)
<1> SUFFICES ASSUME Prompt, HandJobs = {} PROVE Spec => StaysClosed
  OBVIOUS
<1>1. TypeInv /\ HoldInv /\ StopInv /\ [Next]_vars =>
        [\A e \in Envs : envelope[e].state \in {"draining", "closed"} => ~Admits(e)']_vars
  BY StopStep DEF EnvelopesStep, EnvelopesGo, Admits, ENVELOPE_ADMITTING
<1>2. Spec => [](TypeInv /\ HoldInv /\ StopInv)
  BY Stops
<1> QED BY <1>1, <1>2, PTL DEF Spec, StaysClosed

(* Only an admission that found its envelope admitting sends a submit.     *)
LEMMA SentBy ==
  ASSUME TypeInv, Next \/ UNCHANGED vars, NEW j \in Jobs, wire[j] = "no", wire'[j] = "sent"
  PROVE  Admits(job[j].env)
<1>1. PICK s \in Servers : ScriptWritten(s)
  <2>1. wire' # wire
    OBVIOUS
  <2>2. ASSUME NEW s \in Servers PROVE ~(\E i \in Jobs : SubmitNew(s, i) \/ \E e \in Envs : SubmitInto(s, i, e) \/ SubmitOffered(s, i, e))
    BY <2>1 DEF SubmitNew, SubmitInto, SubmitOffered, world
  <2>3. ASSUME NEW s \in Servers PROVE ~(OfferRead(s) \/ Rebind(s) \/ OpenEnvelope(s) \/ OpensNothing(s)
          \/ AdmissionRead(s) \/ Reserve(s) \/ MarkExhausted(s) \/ ScriptFails(s) \/ SubmitAnswered(s)
          \/ SubmitUnanswered(s) \/ EndsAtOnce(s) \/ EndRead(s))
    BY <2>1 DEF OfferRead, Rebind, OpenEnvelope, OpensNothing, AdmissionRead, Reserve, MarkExhausted, ScriptFails,
      SubmitAnswered, SubmitUnanswered, EndsAtOnce, EndRead, Reads, Writes, world
  <2>4. ASSUME NEW s \in Servers PROVE ~(StatusRead(s) \/ CancelSent(s) \/ CancelRead(s) \/ CancelCloses(s)
                                         \/ StopRead(s) \/ StopCloses(s) \/ StopChooses(s) \/ StopKills(s)
                                         \/ StopReleases(s) \/ StopReadAgain(s) \/ StopReadHands(s) \/ StopAnswers(s))
    BY <2>1 DEF StatusRead, CancelSent, CancelRead, CancelCloses, StopRead, StopCloses, StopChooses, StopKills,
      StopReleases, StopReadAgain, StopReadHands, StopAnswers, Reads, Writes, world
  <2>5. ASSUME NEW s \in Servers PROVE ~(HandRead(s) \/ HandMetered(s) \/ Adopts(s) \/ AdoptedOverCap(s)
                                         \/ ServerDies(s) \/ \E e \in Envs : HandOpens(s, e) \/ StatusCall(s, e))
    BY <2>1 DEF HandRead, HandMetered, Adopts, AdoptedOverCap, ServerDies, HandOpens, StatusCall, Reads, Writes, world
  <2>6. ASSUME NEW s \in Servers PROVE /\ \A e \in Envs, mode \in {"drain", "abort"} : ~CancelEnvelope(s, e, mode)
                                       /\ \A i \in Jobs : ~CancelJob(s, i)
                                       /\ \A choice \in {"stop_cancel", "stop_keep"} : ~StopCall(s, choice)
    BY <2>1 DEF CancelEnvelope, CancelJob, Cancel, StopCall, world
  <2>7. ASSUME NEW i \in Jobs PROVE ~(SchedulerTakes(i) \/ SchedulerRefuses(i) \/ SubmitLost(i) \/ JobStarts(i)
                                      \/ JobEnds(i) \/ HandSubmits(i))
    BY <2>1 DEF SchedulerTakes, SchedulerRefuses, SubmitLost, JobStarts, JobEnds, HandSubmits, TypeInv, WorldTyped
  <2>8. ~HandEnds /\ (\A e \in Envs : ~DeadlinePasses(e)) /\ ~UNCHANGED vars
    BY <2>1 DEF HandEnds, DeadlinePasses, vars, world
  <2> QED BY <2>2, <2>3, <2>4, <2>5, <2>6, <2>7, <2>8 DEF Next, Admission, AdmissionGoesOn, Call, CallGoesOn, Scheduler
<1>2. StillWanted(at[s].job) /\ wire' = [wire EXCEPT ![at[s].job] = "sent"]
  BY <1>1 DEF ScriptWritten
<1> QED BY <1>2 DEF StillWanted, TypeInv, WorldTyped

(* After a stop nothing is submitted in an envelope it closed, whatever    *)
(* admission was under way (server.py: "Either way nothing is admitted     *)
(* after a stop").                                                         *)
THEOREM NothingSubmittedAfter == Prompt /\ HandJobs = {} => (Spec => StopHolds)
<1> SUFFICES ASSUME Prompt, HandJobs = {} PROVE Spec => StopHolds
  OBVIOUS
<1>1. TypeInv /\ StopInv /\ [Next]_vars =>
        [\A j \in Jobs : wire[j] = "no" /\ wire'[j] = "sent" => job[j].env \notin barred]_vars
  BY SentBy DEF StopInv, ClosedKept, Admits, ENVELOPE_ADMITTING
<1>2. Spec => [](TypeInv /\ HoldInv /\ StopInv)
  BY Stops
<1> QED BY <1>1, <1>2, PTL DEF Spec, StopHolds

-----------------------------------------------------------------------------
(* The ceiling.                                                            *)

CapsOf == [e \in Envs |-> envelope[e].cap]

(* Fewer envelopes with the same caps do not add up to more.               *)
LEMMA CapsStay ==
  ASSUME EnvelopeTyped, EnvelopeTyped', NEW S \in SUBSET Envs, NEW U \in SUBSET S,
         \A e \in U : envelope'[e].cap = envelope[e].cap
  PROVE  /\ SumOf(CapsOf', U) <= SumOf(CapsOf, S)
         /\ SumOf(CapsOf', U) \in Nat /\ SumOf(CapsOf, S) \in Nat
<1>1. \A e \in Envs : CapsOf[e] \in Nat /\ CapsOf'[e] \in Nat
  BY DEF EnvelopeTyped, CapsOf
<1>2. \A e \in U : CapsOf'[e] <= CapsOf[e]
  BY <1>1 DEF CapsOf
<1>3. IsFiniteSet(S) /\ IsFiniteSet(U)
  BY EnvelopeAssumption, FS_Subset
<1> QED BY <1>1, <1>2, <1>3, SumGrows, SumType

(* A granted cap fits under the ceiling beside the others that count.      *)
LEMMA CapGranted ==
  ASSUME EnvelopeTyped, EnvelopeTyped', NEW e \in Envs, NEW c \in Caps, CeilingAllows(e, c), envelope'[e].cap = c,
         \A x \in Envs \ {e} : envelope'[x] = envelope[x],
         NEW U \in SUBSET Envs, \A x \in U \ {e} : envelope[x].state \in Active
  PROVE  SumOf(CapsOf', U) <= Ceiling
<1> DEFINE S == {x \in Envs \ {e} : envelope[x].state \in Active}
<1>1. c + SumOf(CapsOf, S) <= Ceiling
  BY DEF CeilingAllows, Total, SumOf, CapsOf, Active
<1>2. U \ {e} \in SUBSET S /\ S \in SUBSET Envs
  OBVIOUS
<1>3. \A x \in U \ {e} : envelope'[x].cap = envelope[x].cap
  OBVIOUS
<1> HIDE DEF S
<1>4. /\ SumOf(CapsOf', U \ {e}) <= SumOf(CapsOf, S)
      /\ SumOf(CapsOf', U \ {e}) \in Nat /\ SumOf(CapsOf, S) \in Nat
  BY <1>2, <1>3, CapsStay
<1>5. c \in Nat /\ Ceiling \in Nat
  BY EnvelopeAssumption
<1>6. CASE e \in U
  <2>1. IsFiniteSet(U) /\ \A x \in U : CapsOf'[x] \in Nat
    BY EnvelopeAssumption, FS_Subset DEF EnvelopeTyped, CapsOf
  <2>2. SumOf(CapsOf', U) = CapsOf'[e] + SumOf(CapsOf', U \ {e})
    BY <1>6, <2>1, SumSplits
  <2>3. CapsOf'[e] = c
    BY DEF CapsOf
  <2> QED BY <1>1, <1>4, <1>5, <2>2, <2>3
<1>7. CASE e \notin U
  <2>1. U \ {e} = U
    BY <1>7
  <2> QED BY <1>1, <1>4, <1>5, <2>1
<1> QED BY <1>6, <1>7

(* The caps of the envelopes that admit.                                   *)
AdmittingWithinCeiling == Total([e \in Envs |-> envelope[e].cap], {e \in Envs : Admits(e)}) <= Ceiling

(* The sum of Envelope is the sum of FiniteSums_proofs.                    *)
LEMMA TotalIs == ASSUME NEW f, NEW S PROVE Total(f, S) = SumOf(f, S)
BY DEF Total, SumOf

(* The two ceilings as sums of the caps.                                   *)
LEMMA CeilingIs ==
  /\ AdmittingWithinCeiling <=> SumOf(CapsOf, {e \in Envs : Admits(e)}) <= Ceiling
  /\ CeilingKept <=> SumOf(CapsOf, {e \in Envs : envelope[e].state \in Active}) <= Ceiling
BY TotalIs DEF AdmittingWithinCeiling, CeilingKept, CapsOf, Active

(* A step that treats the envelopes so keeps under the ceiling.            *)
LEMMA CeilingStep ==
  ASSUME EnvelopeTyped, EnvelopeTyped', EnvelopesStep
  PROVE  /\ AdmittingWithinCeiling => AdmittingWithinCeiling'
         /\ past = {} /\ CeilingKept => CeilingKept'
<1> DEFINE A == {e \in Envs : Admits(e)}
           D == {e \in Envs : envelope[e].state \in Active}
<1>1. /\ AdmittingWithinCeiling <=> SumOf(CapsOf, A) <= Ceiling
      /\ AdmittingWithinCeiling' <=> SumOf(CapsOf', A') <= Ceiling
      /\ CeilingKept <=> SumOf(CapsOf, D) <= Ceiling
      /\ CeilingKept' <=> SumOf(CapsOf', D') <= Ceiling
  <2>1. (AdmittingWithinCeiling <=> SumOf(CapsOf, A) <= Ceiling) /\ (CeilingKept <=> SumOf(CapsOf, D) <= Ceiling)
    BY CeilingIs
  <2>2. AdmittingWithinCeiling' <=> SumOf(CapsOf', A') <= Ceiling
    BY TotalIs DEF AdmittingWithinCeiling, CapsOf
  <2>3. CeilingKept' <=> SumOf(CapsOf', D') <= Ceiling
    BY TotalIs DEF CeilingKept, CapsOf, Active
  <2> QED BY <2>1, <2>2, <2>3
<1>2. A \in SUBSET Envs /\ A' \in SUBSET Envs /\ D \in SUBSET Envs /\ D' \in SUBSET Envs
  OBVIOUS
<1>3. Ceiling \in Nat
  BY EnvelopeAssumption
<1>4. CASE Quieter
  <2>1. A' \in SUBSET A /\ (past = {} => D' \in SUBSET D)
    BY <1>4 DEF Quieter, Admits, Active
  <2>2. \A e \in Envs : envelope'[e].cap = envelope[e].cap
    BY <1>4 DEF Quieter
  <2>3. /\ SumOf(CapsOf', A') <= SumOf(CapsOf, A) /\ SumOf(CapsOf', A') \in Nat /\ SumOf(CapsOf, A) \in Nat
    <3> HIDE DEF A
    <3> QED BY <1>2, <2>1, <2>2, CapsStay
  <2>4. past = {} => /\ SumOf(CapsOf', D') <= SumOf(CapsOf, D)
                     /\ SumOf(CapsOf', D') \in Nat /\ SumOf(CapsOf, D) \in Nat
    <3> HIDE DEF D
    <3> QED BY <1>2, <2>1, <2>2, CapsStay
  <2> HIDE DEF A, D
  <2> QED BY <1>1, <1>3, <2>3, <2>4
<1>5. CASE Granted
  <2>1. PICK e \in Envs, c \in Caps :
          /\ CeilingAllows(e, c) /\ envelope'[e].cap = c
          /\ \A x \in Envs \ {e} : envelope'[x] = envelope[x]
    BY <1>5 DEF Granted
  <2>2. /\ \A x \in A' \ {e} : envelope[x].state \in Active
        /\ \A x \in D' \ {e} : envelope[x].state \in Active
    BY <2>1 DEF Admits, Active
  <2> HIDE DEF A, D
  <2> QED BY <1>1, <1>2, <2>1, <2>2, CapGranted
<1> QED BY <1>4, <1>5 DEF EnvelopesStep

(* With no envelope there is nothing to add up.                            *)
LEMMA CeilingInit == Init => AdmittingWithinCeiling /\ CeilingKept /\ past = {}
<1> SUFFICES ASSUME Init PROVE AdmittingWithinCeiling /\ CeilingKept /\ past = {}
  OBVIOUS
<1>1. /\ {e \in Envs : Admits(e)} = {}
      /\ {e \in Envs : envelope[e].state \in Active} = {}
  BY DEF Init, Admits, Active, ENVELOPE_ADMITTING
<1>2. SumOf(CapsOf, {}) = 0
  BY SumOfNone
<1>3. /\ SumOf(CapsOf, {e \in Envs : Admits(e)}) = 0
      /\ SumOf(CapsOf, {e \in Envs : envelope[e].state \in Active}) = 0
  BY <1>1, <1>2, Zenon
<1>4. 0 <= Ceiling
  BY EnvelopeAssumption
<1>5. AdmittingWithinCeiling /\ CeilingKept
  BY <1>3, <1>4, CeilingIs
<1> QED BY <1>5 DEF Init

(* The caps of the envelopes that admit stay within the ceiling of the     *)
(* installation, whichever servers open and raise them (`_ceiling_check`). *)
THEOREM AdmittingCeiling == Prompt /\ HandJobs = {} => (Spec => []AdmittingWithinCeiling)
<1> SUFFICES ASSUME Prompt, HandJobs = {} PROVE Spec => []AdmittingWithinCeiling
  OBVIOUS
<1>1. /\ TypeInv /\ HoldInv /\ StopInv /\ TypeInv' /\ [Next]_vars /\ AdmittingWithinCeiling
         => AdmittingWithinCeiling'
  BY StopStep, CeilingStep DEF TypeInv
<1>2. Spec => [](TypeInv /\ HoldInv /\ StopInv)
  BY Stops
<1> QED BY <1>1, <1>2, CeilingInit, PTL DEF Spec

(* Only a deadline makes an envelope past.                                 *)
LEMMA PastStep ==
  ASSUME ~Deadlines, Next \/ UNCHANGED vars
  PROVE  past' = past
<1>1. ASSUME NEW s \in Servers, Admission(s) PROVE past' = past
  <2>1. ASSUME NEW j \in Jobs, SubmitNew(s, j) \/ \E e \in Envs : SubmitInto(s, j, e) \/ SubmitOffered(s, j, e)
        PROVE  past' = past
    BY <2>1 DEF SubmitNew, SubmitInto, SubmitOffered, world
  <2>2. ASSUME \/ OfferRead(s) \/ Rebind(s) \/ OpenEnvelope(s) \/ OpensNothing(s) \/ AdmissionRead(s) \/ Reserve(s)
               \/ MarkExhausted(s) \/ ScriptWritten(s) \/ ScriptFails(s) \/ SubmitAnswered(s)
               \/ SubmitUnanswered(s) \/ EndsAtOnce(s) \/ EndRead(s)
        PROVE  past' = past
    BY <2>2 DEF OfferRead, Rebind, OpenEnvelope, OpensNothing, AdmissionRead, Reserve, MarkExhausted, ScriptWritten,
      ScriptFails, SubmitAnswered, SubmitUnanswered, EndsAtOnce, EndRead, Reads, Writes, world
  <2> QED BY <1>1, <2>1, <2>2 DEF Admission, AdmissionGoesOn
<1>2. ASSUME NEW s \in Servers, Call(s) PROVE past' = past
  <2>1. ASSUME CallGoesOn(s) PROVE past' = past
    BY <2>1 DEF CallGoesOn, StatusRead, CancelSent, CancelRead, CancelCloses, StopRead, StopCloses, StopChooses, StopKills,
      StopReleases, StopReadAgain, StopReadHands, StopAnswers, HandRead, HandMetered, Adopts, AdoptedOverCap, Reads,
      Writes, world
  <2>2. ASSUME ~CallGoesOn(s) PROVE past' = past
    BY <1>2, <2>2 DEF Call, StatusCall, CancelEnvelope, CancelJob, Cancel, StopCall, world
  <2> QED BY <2>1, <2>2
<1>3. ASSUME \/ Scheduler \/ \E e \in Envs : DeadlinePasses(e) \/ \E s \in Servers : ServerDies(s) \/ HandOpens(s, e)
      PROVE  past' = past
  BY <1>3 DEF Scheduler, SchedulerTakes, SchedulerRefuses, SubmitLost, JobStarts, JobEnds, HandSubmits, HandEnds,
    DeadlinePasses, ServerDies, HandOpens, world
<1>4. ASSUME NEW s \in Servers, ServerDies(s) PROVE past' = past
  BY <1>4 DEF ServerDies, world
<1>5. ASSUME UNCHANGED vars PROVE past' = past
  BY <1>5 DEF vars, world
<1> QED BY <1>1, <1>2, <1>3, <1>4, <1>5 DEF Next

(* With the envelopes that drain: only without deadlines, since a reading  *)
(* that saw an envelope open before its deadline writes it back from       *)
(* closed to draining.                                                     *)
THEOREM WithinCeiling == Prompt /\ HandJobs = {} /\ ~Deadlines => (Spec => []CeilingKept)
<1> SUFFICES ASSUME Prompt, HandJobs = {}, ~Deadlines PROVE Spec => []CeilingKept
  OBVIOUS
<1>1. /\ TypeInv /\ HoldInv /\ StopInv /\ TypeInv' /\ [Next]_vars /\ past = {} /\ CeilingKept
         => (past = {} /\ CeilingKept)'
  <2> SUFFICES ASSUME TypeInv, HoldInv, StopInv, TypeInv', [Next]_vars, past = {}, CeilingKept
               PROVE  past' = {} /\ CeilingKept'
    OBVIOUS
  <2>1. CeilingKept'
    BY StopStep, CeilingStep DEF TypeInv
  <2>2. past' = {}
    BY PastStep
  <2> QED BY <2>1, <2>2
<1>2. Spec => [](TypeInv /\ HoldInv /\ StopInv)
  BY Stops
<1> QED BY <1>1, <1>2, CeilingInit, PTL DEF Spec
=============================================================================
