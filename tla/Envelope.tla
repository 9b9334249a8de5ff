------------------------------ MODULE Envelope ------------------------------
(***************************************************************************)
(* Jobs mode: budget envelopes and the scheduler jobs admitted against     *)
(* them (jobs.py over the envelope and job tables of ledger.py).           *)
(*                                                                         *)
(* A server runs an admission (submit_job) and another call (status,       *)
(* cancel, stop_endpoint) at once; they interleave at their awaits, and    *)
(* servers of one machine share the ledger.  A reading of the meter        *)
(* (`tick`) takes the rows, asks the scheduler in one login call, and      *)
(* writes what it read over the rows as they are by then.                  *)
(***************************************************************************)
EXTENDS Integers, FiniteSets, FiniteSetsExt

CONSTANTS
  Servers, Envs, Jobs,
  HandJobs,      \* jobs submitted by hand, in a command the user approved
  Worst,         \* [Jobs -> worst case of the job, in the envelope's unit]
  Charge,        \* [Jobs -> what it charges if it runs]
  Caps,          \* caps the user may approve
  Ceiling,       \* HPC_BRIDGE_ENVELOPE_MAX
  Calls,         \* calls the users make besides submit_job
  Mortal,        \* servers that may die
  Deadlines,     \* envelopes reach their deadline
  LosesSubmits,  \* a submit that is not answered may not have reached the scheduler, or was refused
  Prompt,        \* see below
  None

(* Prompt: an admission, with its submit and its appearance in the         *)
(* accounting, takes less than STALE_RESERVATION_S, and no process is      *)
(* suspended between two transactions it has no await between.             *)
ASSUME EnvelopeAssumption ==
  /\ HandJobs \subseteq Jobs
  /\ Worst \in [Jobs -> Nat \ {0}]
  /\ Charge \in [Jobs -> Nat] /\ \A j \in Jobs : Charge[j] <= Worst[j]
  /\ Calls \subseteq {"status", "drain", "abort", "abort_job", "stop_cancel", "stop_keep"}
  /\ Caps \subseteq Nat /\ Ceiling \in Nat
  /\ Mortal \subseteq Servers
  /\ {Deadlines, LosesSubmits, Prompt} \subseteq BOOLEAN
  /\ None \notin Envs \cup Jobs
  /\ IsFiniteSet(Envs) /\ IsFiniteSet(Jobs)

ENVELOPE_ADMITTING == {"open", "exhausted"}
JOB_LIVE == {"reserved", "submit_unknown", "queued", "running"}
Coroutines == {"admission", "call"}

VARIABLES
  envelope,  \* [Envs -> its row: state, approved_by, cap, metered, un (the jobs hpc-bridge did not start, counted)]
  past,      \* envelopes past their deadline
  job,       \* [Jobs -> its row: state, env, native (its scheduler id is known), cancel (_requested), hold]
  hand,      \* the approved hand submit: its ledger row, the command, and the envelope
  sched,     \* [Jobs -> "no", "pending", "running", "ended" or "cancelled" (it never ran) at the scheduler]
  wire,      \* [Jobs -> its submit command: "no", "sent", "took", "refused" or "lost"]
  alive,     \* servers
  pc,        \* [Servers -> [Coroutines -> where the coroutine is]]
  at,        \* [Servers -> the job, the envelope and whether its reading worked, of the admission]
  doing,     \* [Servers -> the envelope, the choice, the jobs being cancelled, the rows and the next step, of the call]
  reading,   \* [Servers -> [Coroutines -> a reading of the meter in flight]]
  \* history
  barred,    \* envelopes there were when a stop last closed admission
  asked      \* the user wants everything stopped, until a stop says `down`

ledger == <<envelope, job, hand>>
world  == <<past, sched, wire>>
memory == <<pc, at, doing, reading>>
vars == <<ledger, world, alive, memory, barred, asked>>

-----------------------------------------------------------------------------
(* The ledger.                                                             *)

NoJobRow == [state |-> "none", env |-> None, native |-> FALSE, cancel |-> FALSE, hold |-> 0]

Total(f, S) == MapThenSumSet(LAMBDA x : f[x], S)

(* `job_hold`.                                                             *)
JobHold(row) == IF row.state = "refused" THEN 0 ELSE row.hold

(* `envelope_hold`: every row's hold and the unledgered jobs'.             *)
EnvelopeHold(e, rows) ==
  Total([j \in Jobs |-> (IF rows[j].env = e THEN JobHold(rows[j]) ELSE 0) + envelope[e].un[j]], Jobs)

Admits(e) == envelope[e].state \in ENVELOPE_ADMITTING

(* Mutant: an exhausted envelope no longer counts.                         *)
CeilingAllowsBeside(e, c) ==
  c + Total([x \in Envs |-> envelope[x].cap],
            {x \in Envs \ {e} : envelope[x].state \in {"open", "draining"}}) <= Ceiling

(* `_ceiling_check`, one account: the other envelopes still open.          *)
CeilingAllows(e, c) ==
  c + Total([x \in Envs |-> envelope[x].cap],
            {x \in Envs \ {e} : envelope[x].state \in ENVELOPE_ADMITTING \cup {"draining"}}) <= Ceiling

LiveRows == {j \in Jobs : job[j].state \in JOB_LIVE}

(* `app.jobs_admitting`.                                                   *)
Admitting(s) ==
  IF s \in alive /\ pc[s]["admission"] \in {"write", "submit", "end", "endread"} THEN {at[s].job} ELSE {}

-----------------------------------------------------------------------------
(* Coroutines.  A coroutine at one of `Running` has not awaited since its  *)
(* last step.                                                              *)

Running == {"rebind", "reserve", "exhaust", "close", "choose", "answer", "shut", "adopt", "over"}

Others(s, k) == IF Prompt THEN (Servers \X Coroutines) \ {<<s, k>>} ELSE {s} \X (Coroutines \ {k})

May(s, k) == s \in alive /\ \A o \in Others(s, k) : pc[o[1]][o[2]] \notin Running

Goes(s, k, where) == pc' = [pc EXCEPT ![s][k] = where]

NoAdmission == [job |-> None, env |-> None, ok |-> FALSE]

Moves(s, where) ==
  /\ Goes(s, "admission", where)
  /\ at' = IF where = "idle" THEN [at EXCEPT ![s] = NoAdmission] ELSE at

NoReading == [ids |-> {}]
NoCall == [env |-> None, choice |-> None, kills |-> {}, rows |-> {}, next |-> "idle"]

(* `tick` up to its login call: the envelopes and every row, as they are   *)
(* now.                                                                    *)
Asks(s, k, ids, also) ==
  reading' = [reading EXCEPT ![s][k] =
    [ids |-> ids, also |-> also,
     rows |-> [j \in Jobs |-> [state |-> job'[j].state, env |-> job'[j].env, native |-> job'[j].native]],
     envs |-> [e \in ids |-> envelope'[e].state]]]

(* What the login call brings: nothing, or every job of the scheduler's,   *)
(* but for some that sacct does not list yet.                              *)
Answers(s, k) ==
  LET r == reading[s][k]
      answer(ok, view) == [ids |-> r.ids, also |-> r.also, rows |-> r.rows, envs |-> r.envs, ok |-> ok, view |-> view]
  IN  {answer(FALSE, [j \in Jobs |-> "no"])}
      \cup {answer(TRUE, [j \in Jobs |-> IF j \in late THEN "no" ELSE sched[j]]) :
              late \in SUBSET {j \in Jobs : sched[j] \in {"pending", "running"}}}

(* Mutant: only a reservation is looked for by its name.                   *)
FindsReserved(r, j) ==
  r.ok /\ ~r.rows[j].native /\ r.rows[j].state = "reserved" /\ r.view[j] # "no"

(* A row of the snapshot with no scheduler id is found by its name.        *)
Found(r, j) ==
  r.ok /\ ~r.rows[j].native /\ r.rows[j].state \in {"reserved", "submit_unknown"} /\ r.view[j] # "no"

(* Mutant: a reservation not listed is refused whoever admits it.          *)
RefusesUnlisted(s, r, j) ==
  r.ok /\ ~r.rows[j].native /\ r.rows[j].state = "reserved" /\ ~Found(r, j)

(* Reservations the reading may call stale: no admission of this server's, *)
(* too old, and not listed.                                                *)
MayBeStale(s, r, j) ==
  /\ r.ok /\ ~r.rows[j].native /\ r.rows[j].state = "reserved" /\ ~Found(r, j)
  /\ j \notin Admitting(s)
  /\ Prompt => sched[j] = "no" /\ wire[j] # "sent" /\ \A t \in Servers : j \notin Admitting(t)

Known(r, j) == r.rows[j].native \/ Found(r, j)
Listed(r, j) == r.ok /\ Known(r, j) /\ r.view[j] # "no"

(* `_state_of`.                                                            *)
StateOf(r, j) ==
  IF ~Listed(r, j) THEN r.rows[j].state
  ELSE IF r.view[j] = "pending" THEN "queued" ELSE IF r.view[j] = "running" THEN "running" ELSE "ended"

(* What a job that has ended charged.                                      *)
Used(j) == IF sched[j] = "ended" THEN Charge[j] ELSE 0

Over == {"ended", "cancelled"}

(* Mutant: a job the accounting does not list holds nothing.               *)
HoldsWhatIsListed(r, j) ==
  IF ~Listed(r, j) THEN 0 ELSE IF r.view[j] \in Over THEN Used(j) ELSE Worst[j]

(* `meter.job_reading`: charged and committed.  A job not listed is held   *)
(* at its whole walltime, one that ended at what it used.                  *)
ReadingOf(r, j) == IF Listed(r, j) /\ r.view[j] \in Over THEN Used(j) ELSE Worst[j]

(* The row the reading writes over the job's row.                          *)
RowRead(r, stale, j) ==
  IF r.rows[j].state = "none" THEN job[j]
  ELSE IF j \in stale THEN [job[j] EXCEPT !.state = "refused"]
  ELSE IF Found(r, j) /\ r.rows[j].env \notin r.ids THEN [job[j] EXCEPT !.native = TRUE, !.state = "queued"]
  ELSE IF \/ r.rows[j].env \notin r.ids
          \/ r.rows[j].state = "refused"
          \/ ~Listed(r, j) /\ r.rows[j].state \notin JOB_LIVE THEN job[j]
  ELSE [job[j] EXCEPT !.native = @ \/ Found(r, j), !.state = StateOf(r, j), !.hold = ReadingOf(r, j)]

(* Rows of the envelope that can still bill, as the reading leaves them.   *)
LiveRead(r, stale, e) ==
  {j \in Jobs : r.rows[j].env = e /\ j \notin stale /\ StateOf(r, j) \in JOB_LIVE}

(* `meter.unledgered`: listed jobs no row of the snapshot knows.           *)
Unledgered(r, e, j) ==
  IF Known(r, j) \/ j \in r.also THEN 0
  ELSE IF ~r.ok THEN envelope[e].un[j]
  ELSE IF r.view[j] = "no" THEN 0
  ELSE IF r.view[j] \in Over THEN Used(j) ELSE Worst[j]

(* Mutant: a state nothing else knows.                                     *)
StateMisread(r, stale, e) == IF r.envs[e] = "draining" THEN "drained" ELSE envelope[e].state

StateRead(r, stale, e) ==
  LET live == LiveRead(r, stale, e) # {}
  IN  IF e \in past /\ r.envs[e] \in ENVELOPE_ADMITTING THEN IF live THEN "draining" ELSE "closed"
      ELSE IF r.envs[e] = "draining" /\ ~live THEN "closed" ELSE envelope[e].state

(* `tick` past its login call: every row, then every envelope.             *)
Writes(s, k, r) ==
  \E stale \in SUBSET {j \in Jobs : MayBeStale(s, r, j)} :
    /\ job' = [j \in Jobs |-> RowRead(r, stale, j)]
    /\ envelope' = [e \in Envs |->
         IF e \notin r.ids THEN envelope[e]
         ELSE [envelope[e] EXCEPT !.un = [j \in Jobs |-> Unledgered(r, e, j)],
                                  !.state = StateRead(r, stale, e),
                                  !.metered = @ \/ r.ok]]
    /\ reading' = [reading EXCEPT ![s][k] = NoReading]
    /\ UNCHANGED <<hand, world, alive, barred, asked>>

(* The coroutine k of s goes on with the reading it waits for.             *)
Reads(s, k, where) ==
  /\ pc[s][k] = where /\ May(s, k)
  /\ \E r \in Answers(s, k) : Writes(s, k, r)

(* `scancel` of the jobs ts: which of them it took is up to the scheduler. *)
Scancel(ts) ==
  \E took \in SUBSET {j \in ts : sched[j] \in {"pending", "running"}} :
    sched' = [j \in Jobs |-> IF j \notin took THEN sched[j]
                              ELSE IF sched[j] = "running" THEN "ended" ELSE "cancelled"]

Init ==
  /\ envelope = [e \in Envs |-> [state |-> "none", approved_by |-> None, cap |-> 0, metered |-> FALSE,
                                 un |-> [j \in Jobs |-> 0]]]
  /\ past = {}
  /\ job = [j \in Jobs |-> NoJobRow]
  /\ hand = [row |-> "none", env |-> None, ended |-> FALSE, after |-> {}]
  /\ sched = [j \in Jobs |-> "no"]
  /\ wire = [j \in Jobs |-> "no"]
  /\ alive = Servers
  /\ pc = [s \in Servers |-> [k \in Coroutines |-> "idle"]]
  /\ at = [s \in Servers |-> NoAdmission]
  /\ doing = [s \in Servers |-> NoCall]
  /\ reading = [s \in Servers |-> [k \in Coroutines |-> NoReading]]
  /\ barred = {} /\ asked = FALSE

-----------------------------------------------------------------------------
(* submit_job.                                                             *)

Fresh(j) ==
  /\ j \notin HandJobs /\ job[j].state = "none"
  /\ \A s \in Servers : pc[s]["admission"] # "idle" => at[s].job # j

Mine(s) == {e \in Envs : Admits(e) /\ envelope[e].approved_by = s /\ e \notin past}
Orphans == {e \in Envs : Admits(e) /\ envelope[e].approved_by \notin alive /\ e \notin past}

Submits(s, j, e) == at' = [at EXCEPT ![s] = [job |-> j, env |-> e, ok |-> FALSE]]

(* An envelope of this session's: the job is admitted at once; the user    *)
(* may have said yes to another cap.                                       *)
SubmitInto(s, j, e) ==
  /\ May(s, "admission") /\ pc[s]["admission"] = "idle" /\ Fresh(j)
  /\ e \in Mine(s)
  /\ \/ UNCHANGED envelope
     \/ \E c \in Caps : CeilingAllows(e, c) /\ envelope' = [envelope EXCEPT ![e].cap = c]
  /\ Submits(s, j, e) /\ Goes(s, "admission", "read")
  /\ UNCHANGED <<job, hand, world, alive, doing, barred, asked>>
  /\ Asks(s, "admission", {e}, {})

(* `_offer_again`: another session's, whose server is gone.                *)
SubmitOffered(s, j, e) ==
  /\ May(s, "admission") /\ pc[s]["admission"] = "idle" /\ Fresh(j)
  /\ Mine(s) = {} /\ e \in Orphans
  /\ Submits(s, j, e) /\ Goes(s, "admission", "offer")
  /\ UNCHANGED <<ledger, world, alive, doing, barred, asked>>
  /\ Asks(s, "admission", {e}, {})

OfferRead(s) ==
  /\ Reads(s, "admission", "offer")
  /\ Goes(s, "admission", "rebind")
  /\ UNCHANGED <<at, doing>>

(* The user's yes: the envelope, in whatever state it is by now, becomes   *)
(* this session's (`rebind_envelope`).                                     *)
Rebind(s) ==
  /\ pc[s]["admission"] = "rebind" /\ May(s, "admission")
  /\ LET e == at[s].env
     IN  /\ \/ envelope' = [envelope EXCEPT ![e].approved_by = s]
            \/ \E c \in Caps : /\ CeilingAllows(e, c)
                               /\ envelope' = [envelope EXCEPT ![e].approved_by = s, ![e].cap = c]
         /\ UNCHANGED <<job, hand, world, alive, at, doing, barred, asked>>
         /\ Goes(s, "admission", "read")
         /\ Asks(s, "admission", {e}, {})

(* `_open_and_admit`: the user's yes to a new envelope; what is held on    *)
(* the facility is read first.                                             *)
SubmitNew(s, j) ==
  /\ May(s, "admission") /\ pc[s]["admission"] = "idle" /\ Fresh(j)
  /\ Mine(s) = {} /\ Orphans = {}
  /\ Submits(s, j, None) /\ Goes(s, "admission", "held")
  /\ UNCHANGED <<ledger, world, alive, doing, reading, barred, asked>>

OpenEnvelope(s) ==
  /\ pc[s]["admission"] = "held" /\ May(s, "admission")
  /\ \E e \in Envs, c \in Caps :
       /\ envelope[e].state = "none"
       /\ c >= Worst[at[s].job] /\ CeilingAllows(e, c)
       /\ envelope' = [envelope EXCEPT ![e].state = "open", ![e].approved_by = s, ![e].cap = c]
       /\ at' = [at EXCEPT ![s].env = e]
       /\ Goes(s, "admission", "read")
       /\ UNCHANGED <<job, hand, world, alive, doing, barred, asked>>
       /\ Asks(s, "admission", {e}, {})

(* Refused: at the ceiling, or for what is held.                           *)
OpensNothing(s) ==
  /\ pc[s]["admission"] = "held" /\ May(s, "admission")
  /\ Moves(s, "idle")
  /\ UNCHANGED <<ledger, world, alive, doing, reading, barred, asked>>

AdmissionRead(s) ==
  /\ pc[s]["admission"] = "read" /\ May(s, "admission")
  /\ \E r \in Answers(s, "admission") :
       Writes(s, "admission", r) /\ at' = [at EXCEPT ![s].ok = r.ok]
  /\ Goes(s, "admission", "reserve")
  /\ UNCHANGED doing

(* Mutant: the jobs of the row's own state only, not the others' holds.    *)
FitsAlone(s) == Worst[at[s].job] <= envelope[at[s].env].cap

Fits(s) == EnvelopeHold(at[s].env, job) + Worst[at[s].job] <= envelope[at[s].env].cap

(* Mutant: the state of the envelope is not looked at again.               *)
MayReserveAnyway(s) ==
  at[s].ok \/ envelope[at[s].env].metered

MayReserve(s) ==
  LET e == at[s].env
  IN  /\ at[s].ok \/ envelope[e].metered
      /\ Admits(e) /\ envelope[e].approved_by = s /\ e \notin past

(* `reserve_job`: one transaction.                                         *)
Reserve(s) ==
  /\ pc[s]["admission"] = "reserve" /\ May(s, "admission")
  /\ LET e == at[s].env  j == at[s].job
     IN  IF MayReserve(s) /\ Fits(s)
         THEN /\ job' = [job EXCEPT ![j] = [state |-> "reserved", env |-> e, native |-> FALSE, cancel |-> FALSE,
                                             hold |-> Worst[j]]]
              /\ envelope' = [envelope EXCEPT ![e].state = "open"]
              /\ Moves(s, "write")
         ELSE /\ Moves(s, IF MayReserve(s) THEN "exhaust" ELSE "idle")
              /\ UNCHANGED <<job, envelope>>
  /\ UNCHANGED <<hand, world, alive, doing, reading, barred, asked>>

(* `_admit` after EnvelopeExhausted, in a transaction of its own.          *)
MarkExhausted(s) ==
  /\ pc[s]["admission"] = "exhaust" /\ May(s, "admission")
  /\ envelope' = [envelope EXCEPT ![at[s].env].state = "exhausted"]
  /\ Moves(s, "idle")
  /\ UNCHANGED <<job, hand, world, alive, doing, reading, barred, asked>>

(* Mutant: only the row's state is looked at.                              *)
StillReserved(j) == job[j].state = "reserved"

(* `move_job`: no stop or cancel asked for it, and its envelope admits.    *)
StillWanted(j) == job[j].state = "reserved" /\ ~job[j].cancel /\ Admits(job[j].env)

(* The script is written, and submitted unless a stop or cancel came.      *)
ScriptWritten(s) ==
  /\ pc[s]["admission"] = "write" /\ May(s, "admission")
  /\ LET j == at[s].job
     IN  IF StillWanted(j)
         THEN /\ wire' = [wire EXCEPT ![j] = "sent"]
              /\ Moves(s, "submit")
              /\ UNCHANGED job
         ELSE /\ job' = [job EXCEPT ![j].state = "refused"]
              /\ Moves(s, "idle")
              /\ UNCHANGED wire
  /\ UNCHANGED <<envelope, hand, past, sched, alive, doing, reading, barred, asked>>

ScriptFails(s) ==
  /\ pc[s]["admission"] = "write" /\ May(s, "admission")
  /\ job' = [job EXCEPT ![at[s].job].state = "refused"]
  /\ Moves(s, "idle")
  /\ UNCHANGED <<envelope, hand, world, alive, doing, reading, barred, asked>>

(* The scheduler's answer: the job's id, or a refusal.                     *)
SubmitAnswered(s) ==
  /\ pc[s]["admission"] = "submit" /\ May(s, "admission")
  /\ LET j == at[s].job
     IN  \/ /\ wire[j] = "refused"
            /\ job' = [job EXCEPT ![j].state = "refused"]
            /\ Moves(s, "idle")
         \/ /\ wire[j] = "took"
            /\ job' = [job EXCEPT ![j].state = "queued", ![j].native = TRUE]
            /\ Moves(s, IF job[j].cancel THEN "end" ELSE "idle")
  /\ UNCHANGED <<envelope, hand, world, alive, doing, reading, barred, asked>>

(* No answer, or one with no receipt: its fate is unknown.                 *)
SubmitUnanswered(s) ==
  /\ pc[s]["admission"] = "submit" /\ May(s, "admission")
  /\ LET j == at[s].job
     IN  /\ LosesSubmits \/ wire[j] = "took"
         /\ job' = [job EXCEPT ![j].state = "submit_unknown"]
         /\ Moves(s, IF job[j].cancel THEN "end" ELSE "idle")
  /\ UNCHANGED <<envelope, hand, world, alive, doing, reading, barred, asked>>

(* A stop or cancel came while the submit was in flight: it ends at once,  *)
(* by its id or by its name.                                               *)
EndsAtOnce(s) ==
  /\ pc[s]["admission"] = "end" /\ May(s, "admission")
  /\ Scancel({at[s].job})
  /\ UNCHANGED <<ledger, past, wire, alive, doing, barred, asked>>
  /\ IF job[at[s].job].native
     THEN Moves(s, "endread") /\ Asks(s, "admission", {at[s].env}, {})
     ELSE Moves(s, "idle") /\ UNCHANGED reading

EndRead(s) ==
  /\ Reads(s, "admission", "endread")
  /\ Moves(s, "idle")
  /\ UNCHANGED doing

-----------------------------------------------------------------------------
(* The scheduler, and the submit commands on their way to it.              *)

SchedulerTakes(j) ==
  /\ wire[j] = "sent"
  /\ wire' = [wire EXCEPT ![j] = "took"] /\ sched' = [sched EXCEPT ![j] = "pending"]
  /\ UNCHANGED <<ledger, past, alive, memory, barred, asked>>

SchedulerRefuses(j) ==
  /\ wire[j] = "sent"
  /\ wire' = [wire EXCEPT ![j] = "refused"]
  /\ UNCHANGED <<ledger, past, sched, alive, memory, barred, asked>>

SubmitLost(j) ==
  /\ LosesSubmits /\ wire[j] = "sent"
  /\ wire' = [wire EXCEPT ![j] = "lost"]
  /\ UNCHANGED <<ledger, past, sched, alive, memory, barred, asked>>

JobStarts(j) ==
  /\ sched[j] = "pending"
  /\ sched' = [sched EXCEPT ![j] = "running"]
  /\ UNCHANGED <<ledger, past, wire, alive, memory, barred, asked>>

JobEnds(j) ==
  /\ sched[j] = "running"
  /\ sched' = [sched EXCEPT ![j] = "ended"]
  /\ UNCHANGED <<ledger, past, wire, alive, memory, barred, asked>>

DeadlinePasses(e) ==
  /\ Deadlines /\ envelope[e].state # "none" /\ e \notin past
  /\ past' = past \cup {e}
  /\ UNCHANGED <<ledger, sched, wire, alive, memory, barred, asked>>

ServerDies(s) ==
  /\ s \in alive \cap Mortal
  /\ alive' = alive \ {s}
  /\ pc' = [pc EXCEPT ![s] = [k \in Coroutines |-> "idle"]]
  /\ at' = [at EXCEPT ![s] = NoAdmission]
  /\ doing' = [doing EXCEPT ![s] = NoCall]
  /\ reading' = [reading EXCEPT ![s] = [k \in Coroutines |-> NoReading]]
  /\ UNCHANGED <<ledger, world, barred, asked>>

-----------------------------------------------------------------------------
(* status, cancel and stop_endpoint.                                       *)

CallGoes(s, where) ==
  /\ Goes(s, "call", where)
  /\ doing' = IF where = "idle" THEN [doing EXCEPT ![s] = NoCall] ELSE doing

CallIdle(s) == pc[s]["call"] = "idle" /\ May(s, "call")

(* Envelopes `billing_jobs` reads: those with a row that can still bill.   *)
Billing(rows) == {e \in Envs : \E j \in rows : job[j].env = e}

StatusCall(s, e) ==
  /\ "status" \in Calls /\ CallIdle(s) /\ envelope[e].state # "none"
  /\ IF hand.row = "open"
     THEN /\ Goes(s, "call", "hand")
          /\ doing' = [doing EXCEPT ![s] = [NoCall EXCEPT !.env = e, !.next = "status"]]
          /\ UNCHANGED <<reading, ledger, world, alive, at, barred, asked>>
     ELSE /\ Goes(s, "call", "status")
          /\ UNCHANGED <<ledger, world, alive, at, doing, barred, asked>>
          /\ Asks(s, "call", {e}, {})

StatusRead(s) ==
  /\ Reads(s, "call", "status")
  /\ CallGoes(s, "idle") /\ UNCHANGED at

(* Rows of js a cancel names to the scheduler: by id, or by name when the  *)
(* submit's fate is unknown or nobody here is submitting it.               *)
ByName(s, js) ==
  {j \in js : ~job[j].native /\ (job[j].state = "submit_unknown" \/ j \notin Admitting(s))}
Natives(js) == {j \in js : job[j].native}

(* cancel(ident, mode): of the live jobs js among the rows it looks at.    *)
Cancel(s, e, rows, js, choice, acting) ==
  /\ CallIdle(s)
  /\ LET kills == IF acting THEN Natives(js) \cup ByName(s, js) ELSE {}
     IN  /\ job' = [j \in Jobs |->
              IF j \in js /\ ~job[j].native /\ (acting \/ job[j].state = "reserved")
              THEN [job[j] EXCEPT !.cancel = TRUE] ELSE job[j]]
         /\ doing' = [doing EXCEPT ![s] = [NoCall EXCEPT !.env = e, !.choice = choice, !.kills = kills, !.rows = rows]]
         /\ UNCHANGED <<hand, world, alive, at, barred, asked>>
         /\ IF kills # {} THEN Goes(s, "call", "scancel") /\ UNCHANGED reading
            ELSE Goes(s, "call", "cancelled") /\ Asks(s, "call", {e}, {})

RowsOf(e) == {j \in Jobs : job[j].env = e}

CancelEnvelope(s, e, mode) ==
  /\ mode \in Calls /\ envelope[e].state # "none"
  /\ envelope' = [envelope EXCEPT ![e].state = IF Admits(e) THEN "draining" ELSE @]
  /\ Cancel(s, e, RowsOf(e), LiveRows \cap RowsOf(e), "envelope", mode = "abort")

(* Either mode acts on a job: a drain ends it only while it waits, which   *)
(* is one of the outcomes of `Scancel`.                                    *)
CancelJob(s, j) ==
  /\ "abort_job" \in Calls /\ j \in LiveRows
  /\ UNCHANGED envelope
  /\ Cancel(s, job[j].env, {j}, {j}, "job", TRUE)

CancelSent(s) ==
  /\ pc[s]["call"] = "scancel" /\ May(s, "call")
  /\ Scancel(doing[s].kills)
  /\ Goes(s, "call", "cancelled")
  /\ UNCHANGED <<ledger, past, wire, alive, at, doing, barred, asked>>
  /\ Asks(s, "call", {doing[s].env}, {})

CancelRead(s) ==
  /\ Reads(s, "call", "cancelled")
  /\ CallGoes(s, IF doing[s].choice = "envelope" THEN "shut" ELSE "idle") /\ UNCHANGED at

(* A drained envelope is closed when none of the rows the cancel looked at *)
(* can bill.                                                               *)
CancelCloses(s) ==
  /\ pc[s]["call"] = "shut" /\ May(s, "call")
  /\ envelope' = [envelope EXCEPT ![doing[s].env].state =
       IF @ = "draining" /\ doing[s].rows \cap LiveRows = {} THEN "closed" ELSE @]
  /\ CallGoes(s, "idle")
  /\ UNCHANGED <<job, hand, world, alive, at, reading, barred, asked>>

(* stop_endpoint(jobs=choice): what can still bill is read first.          *)
StopCall(s, choice) ==
  /\ choice \in Calls /\ CallIdle(s)
  /\ doing' = [doing EXCEPT ![s] = [NoCall EXCEPT !.choice = choice]]
  /\ asked' = (asked \/ choice = "stop_cancel")
  /\ UNCHANGED <<ledger, world, alive, at, barred>>
  /\ IF LiveRows = {} THEN Goes(s, "call", "close") /\ UNCHANGED reading
     ELSE Goes(s, "call", "stopping") /\ Asks(s, "call", Billing(LiveRows), {})

StopRead(s) ==
  /\ Reads(s, "call", "stopping")
  /\ Goes(s, "call", "close") /\ UNCHANGED <<at, doing>>

(* `close_admission`.                                                      *)
AdmissionClosed ==
  [e \in Envs |->
    [envelope[e] EXCEPT !.state =
      IF ~(Admits(e) \/ @ = "draining") THEN @
      ELSE IF \E j \in LiveRows : job[j].env = e THEN "draining" ELSE "closed"]]

StopCloses(s) ==
  /\ pc[s]["call"] = "close" /\ May(s, "call")
  /\ envelope' = AdmissionClosed
  /\ barred' = {e \in Envs : envelope[e].state # "none"}
  /\ IF hand.row = "open"
     THEN /\ Goes(s, "call", "hand")
          /\ doing' = [doing EXCEPT ![s].next = "choose"]
     ELSE Goes(s, "call", "choose") /\ UNCHANGED doing
  /\ UNCHANGED <<job, hand, world, alive, at, reading, asked>>

(* `cancel_for_stop`, `keep_for_stop`.                                     *)
StopChooses(s) ==
  /\ pc[s]["call"] = "choose" /\ May(s, "call")
  /\ LET kills == IF doing[s].choice = "stop_cancel" THEN Natives(LiveRows) \cup ByName(s, LiveRows) ELSE {}
     IN  /\ job' = [j \in Jobs |->
              IF j \in LiveRows /\ ~job[j].native /\ (doing[s].choice = "stop_cancel" \/ job[j].state = "reserved")
              THEN [job[j] EXCEPT !.cancel = TRUE] ELSE job[j]]
         /\ envelope' = [e \in Envs |->
              IF /\ \E j \in LiveRows : job[j].env = e
                 /\ IF doing[s].choice = "stop_cancel" THEN envelope[e].state # "closed" ELSE Admits(e)
              THEN [envelope[e] EXCEPT !.state = "draining"] ELSE envelope[e]]
         /\ doing' = [doing EXCEPT ![s].kills = kills]
         /\ Goes(s, "call", IF kills # {} THEN "killing" ELSE "releasing")
  /\ UNCHANGED <<hand, world, alive, at, reading, barred, asked>>

StopKills(s) ==
  /\ pc[s]["call"] = "killing" /\ May(s, "call")
  /\ Scancel(doing[s].kills)
  /\ Goes(s, "call", "releasing")
  /\ UNCHANGED <<ledger, past, wire, alive, at, doing, reading, barred, asked>>

(* The blocks are released (`_stop_endpoint_blocks`, over many awaits),    *)
(* then what can still bill is read again (`after_stop`).                  *)
StopReleases(s) ==
  /\ pc[s]["call"] = "releasing" /\ May(s, "call")
  /\ UNCHANGED <<ledger, world, alive, at, barred, asked>>
  /\ IF hand.row = "open"
     THEN Goes(s, "call", "hand") /\ doing' = [doing EXCEPT ![s].next = "answer"] /\ UNCHANGED reading
     ELSE /\ UNCHANGED doing
          /\ IF LiveRows = {} THEN Goes(s, "call", "answer") /\ UNCHANGED reading
             ELSE Goes(s, "call", "answering") /\ Asks(s, "call", Billing(LiveRows), {})

StopReadAgain(s) ==
  /\ Reads(s, "call", "answering")
  /\ Goes(s, "call", "answer") /\ UNCHANGED <<at, doing>>

(* Mutant: hand submits are not looked at.                                 *)
SaysDownOfRows == LiveRows = {}

(* Mutant: a reservation is not yet a job.                                 *)
SaysDownOfSubmitted == LiveRows \subseteq {j \in Jobs : job[j].state = "reserved"}

(* `down` only when the ledger has no row that can bill and no hand submit *)
(* unaccounted for.                                                        *)
SaysDown == LiveRows = {} /\ hand.row # "open"

StopAnswers(s) ==
  /\ pc[s]["call"] = "answer" /\ May(s, "call")
  /\ envelope' = AdmissionClosed
  /\ barred' = {e \in Envs : envelope[e].state # "none"}
  /\ asked' = (asked /\ ~SaysDown)
  /\ CallGoes(s, "idle")
  /\ UNCHANGED <<job, hand, world, alive, at, reading>>

-----------------------------------------------------------------------------
(* A hand submit the user approved while an envelope is open: its command  *)
(* runs, and the jobs that appeared while it did are adopted by the next   *)
(* call that reconciles it (`reconcile_pending`).                          *)

HandOpens(s, e) ==
  /\ HandJobs # {} /\ s \in alive /\ hand.row = "none" /\ e \in Mine(s)
  /\ hand' = [hand EXCEPT !.row = "open", !.env = e]
  /\ UNCHANGED <<envelope, job, world, alive, memory, barred, asked>>

HandSubmits(j) ==
  /\ j \in HandJobs /\ hand.row = "open" /\ ~hand.ended /\ sched[j] = "no"
  /\ sched' = [sched EXCEPT ![j] = "pending"]
  /\ UNCHANGED <<ledger, past, wire, alive, memory, barred, asked>>

(* The command ends, and its shell lists the user's jobs.                  *)
HandEnds ==
  /\ hand.row = "open" /\ ~hand.ended
  /\ hand' = [hand EXCEPT !.ended = TRUE, !.after = {j \in HandJobs : sched[j] \in {"pending", "running"}}]
  /\ UNCHANGED <<envelope, job, world, alive, memory, barred, asked>>

(* Where the call goes on to after its hand submits.                       *)
GoesOn(s) ==
  LET next == doing[s].next
  IN  /\ Goes(s, "call", [status |-> "status", choose |-> "chosen", answer |-> "answering"][next])
      /\ UNCHANGED doing
      /\ Asks(s, "call", IF next = "status" THEN {doing[s].env} ELSE Billing(LiveRows)', {})

(* `reconcile_hand`: still running, not read, nothing to take, or the jobs *)
(* to adopt, metered first.                                                *)
HandRead(s) ==
  /\ pc[s]["call"] = "hand" /\ May(s, "call")
  /\ LET take == {j \in hand.after : ~job[j].native}
     IN  \/ UNCHANGED ledger /\ GoesOn(s)
         \/ /\ hand.ended /\ take = {}
            /\ hand' = [hand EXCEPT !.row = "closed"] /\ UNCHANGED <<envelope, job>>
            /\ GoesOn(s)
         \/ /\ hand.ended /\ take # {}
            /\ Goes(s, "call", "metering") /\ UNCHANGED <<ledger, doing>>
            /\ Asks(s, "call", {hand.env}, take)
  /\ UNCHANGED <<world, alive, at, barred, asked>>

HandMetered(s) ==
  /\ Reads(s, "call", "metering")
  /\ Goes(s, "call", "adopt") /\ UNCHANGED <<at, doing>>

(* `_adopt_from`: reserved whatever the envelope's state and cap.          *)
Adopts(s) ==
  /\ pc[s]["call"] = "adopt" /\ May(s, "call")
  /\ job' = [j \in Jobs |->
       IF j \in hand.after /\ ~job[j].native
       THEN [state |-> IF sched[j] = "running" THEN "running" ELSE "queued",
             env |-> hand.env, native |-> TRUE, cancel |-> FALSE, hold |-> Worst[j]]
       ELSE job[j]]
  /\ UNCHANGED <<envelope, world, alive, at, barred, asked>>
  /\ IF EnvelopeHold(hand.env, job') > envelope[hand.env].cap
     THEN Goes(s, "call", "over") /\ UNCHANGED <<hand, doing, reading>>
     ELSE hand' = [hand EXCEPT !.row = "closed"] /\ GoesOn(s)

(* Over its cap: the envelope admits nothing until jobs end, or the cap is *)
(* raised.                                                                 *)
AdoptedOverCap(s) ==
  /\ pc[s]["call"] = "over" /\ May(s, "call")
  /\ envelope' = [envelope EXCEPT ![hand.env].state = "exhausted"]
  /\ hand' = [hand EXCEPT !.row = "closed"]
  /\ UNCHANGED <<job, world, alive, at, barred, asked>>
  /\ GoesOn(s)

StopReadHands(s) ==
  /\ Reads(s, "call", "chosen")
  /\ Goes(s, "call", "choose") /\ UNCHANGED <<at, doing>>

-----------------------------------------------------------------------------
(* Steps of a call or an admission under way: its next one is the one its  *)
(* `pc` names.                                                             *)
CallGoesOn(s) ==
  \/ StatusRead(s) \/ CancelSent(s) \/ CancelRead(s) \/ CancelCloses(s)
  \/ StopRead(s) \/ StopCloses(s) \/ StopChooses(s) \/ StopKills(s)
  \/ StopReleases(s) \/ StopReadAgain(s) \/ StopReadHands(s) \/ StopAnswers(s)
  \/ HandRead(s) \/ HandMetered(s) \/ Adopts(s) \/ AdoptedOverCap(s)
AdmissionGoesOn(s) ==
  \/ OfferRead(s) \/ Rebind(s) \/ OpenEnvelope(s) \/ OpensNothing(s)
  \/ AdmissionRead(s) \/ Reserve(s) \/ MarkExhausted(s)
  \/ ScriptWritten(s) \/ ScriptFails(s) \/ SubmitAnswered(s) \/ SubmitUnanswered(s)
  \/ EndsAtOnce(s) \/ EndRead(s)

Admission(s) ==
  \/ \E j \in Jobs : SubmitNew(s, j) \/ \E e \in Envs : SubmitInto(s, j, e) \/ SubmitOffered(s, j, e)
  \/ AdmissionGoesOn(s)

Call(s) ==
  \/ \E e \in Envs : StatusCall(s, e) \/ \E mode \in {"drain", "abort"} : CancelEnvelope(s, e, mode)
  \/ \E j \in Jobs : CancelJob(s, j)
  \/ \E choice \in {"stop_cancel", "stop_keep"} : StopCall(s, choice)
  \/ CallGoesOn(s)

Scheduler ==
  \/ \E j \in Jobs :
       \/ SchedulerTakes(j) \/ SchedulerRefuses(j) \/ SubmitLost(j)
       \/ JobStarts(j) \/ JobEnds(j) \/ HandSubmits(j)
  \/ HandEnds

Next ==
  \/ \E s \in Servers :
       \/ Admission(s) \/ Call(s) \/ ServerDies(s)
       \/ \E e \in Envs : HandOpens(s, e)
  \/ Scheduler
  \/ \E e \in Envs : DeadlinePasses(e)

Spec == Init /\ [][Next]_vars

(* A reading that answered: every job is listed, and what is too old is    *)
(* found so.                                                               *)
ReadWell(s, k) ==
  \E r \in Answers(s, k) :
    /\ r.ok /\ r.view = sched
    /\ job' = [j \in Jobs |-> RowRead(r, {x \in Jobs : MayBeStale(s, r, x)}, j)]

(* The event loop runs every coroutine that is ready; a login call ends,   *)
(* and works now and then; the user, told to, stops again until the stop   *)
(* says `down`; a submit reaches the scheduler and a command ends.         *)
Fairness ==
  /\ \A s \in Servers :
       /\ SF_vars(CallGoesOn(s)) /\ SF_vars(AdmissionGoesOn(s))
       /\ SF_vars(asked /\ StopCall(s, "stop_cancel"))
       /\ SF_vars(StopReadAgain(s) /\ ReadWell(s, "call"))
       /\ SF_vars(StopKills(s) /\ \A j \in doing[s].kills : sched'[j] \notin {"pending", "running"})
       /\ SF_vars(HandRead(s) /\ (hand'.row = "closed" \/ pc'[s]["call"] = "metering"))
  /\ \A j \in Jobs : WF_vars(SchedulerTakes(j) \/ SchedulerRefuses(j) \/ SubmitLost(j))
  /\ WF_vars(HandEnds)

FairSpec == Spec /\ Fairness

-----------------------------------------------------------------------------
States == {"none", "open", "exhausted", "draining", "closed"}
JobRows == [state : JOB_LIVE \cup {"none", "ended", "refused"}, env : Envs \cup {None},
            native : BOOLEAN, cancel : BOOLEAN, hold : Nat]

(* The rows of the ledger and the memory of the servers have their types.  *)
TypeOK ==
  /\ envelope \in [Envs -> [state : States, approved_by : Servers \cup {None}, cap : Nat, metered : BOOLEAN,
                            un : [Jobs -> Nat]]]
  /\ past \subseteq Envs /\ barred \subseteq Envs /\ asked \in BOOLEAN
  /\ job \in [Jobs -> JobRows]
  /\ sched \in [Jobs -> {"no", "pending", "running", "ended", "cancelled"}]
  /\ wire \in [Jobs -> {"no", "sent", "took", "refused", "lost"}]
  /\ alive \subseteq Servers
  /\ at \in [Servers -> [job : Jobs \cup {None}, env : Envs \cup {None}, ok : BOOLEAN]]

(* What a submitted job can bill from now on, or has billed.               *)
CanBill(j) == wire[j] = "sent" \/ sched[j] \in {"pending", "running"}
Exposure(j) == IF CanBill(j) THEN Worst[j] ELSE Used(j)

(* However the readings of the servers, their stops and their admissions   *)
(* overlap, a job hpc-bridge submitted is held at no less than it can      *)
(* bill, and one that can still bill has a live row, which is what every   *)
(* stop counts (`job_hold`, `billing_jobs`).                               *)
HoldsCover ==
  \A j \in Jobs \ HandJobs :
    /\ JobHold(job[j]) >= Exposure(j)
    /\ CanBill(j) => j \in LiveRows

(* When a job is reserved, all its envelope's jobs can bill, this one at   *)
(* its worst, is within the cap the user approved (`reserve_job`).         *)
Reserved(j) == job[j].state = "none" /\ job'[j].state = "reserved"
BudgetKept ==
  [][\A j \in Jobs : Reserved(j) =>
       Worst[j] + Total([x \in Jobs |-> IF job[x].env = job'[j].env /\ job[x].state # "refused"
                                        THEN IF job[x].state = "reserved" THEN Worst[x] ELSE Exposure(x)
                                        ELSE 0], Jobs)
         <= envelope[job'[j].env].cap]_vars

(* The caps of the envelopes that admit, or drain, stay within the ceiling *)
(* of the installation, whichever servers open and raise them.             *)
CeilingKept ==
  Total([e \in Envs |-> envelope[e].cap],
        {e \in Envs : envelope[e].state \in ENVELOPE_ADMITTING \cup {"draining"}}) <= Ceiling

(* An envelope a stop, a cancel or its deadline took out of admission does *)
(* not admit again.                                                        *)
StaysClosed ==
  [][\A e \in Envs : envelope[e].state \in {"draining", "closed"} => ~Admits(e)']_vars

(* After a stop nothing is submitted in an envelope it closed, whatever    *)
(* admission was under way (server.py: "Either way nothing is admitted     *)
(* after a stop"); a submit in flight was in flight when it closed.        *)
StopHolds ==
  [][\A j \in Jobs : wire[j] = "no" /\ wire'[j] = "sent" => job[j].env \notin barred]_vars

(* A stop says `down` only when no job of ours, in any server's hands, can *)
(* bill any more.                                                          *)
DownIsTrue ==
  [][asked /\ ~asked' => \A j \in (Jobs \ HandJobs) \cup hand.after : ~CanBill(j)]_vars

(* A user who calls stop_endpoint(jobs="cancel") "again until it says      *)
(* down" (`after_stop`) is told so in the end.                             *)
StopEndsDown == asked ~> ~asked
=============================================================================
