---------------------------- MODULE Lease_proofs ----------------------------
(***************************************************************************)
(* Theorems about the lease, for any number of servers and pids.           *)
(*                                                                         *)
(* Whatever pids are handed on, a server that works on the batch and is    *)
(* on the lease is the one it was last granted to (OnLeaseIsKeeper), so    *)
(* `reserve`'s check of host and pid is enough for the reservation itself. *)
(* Where no recorded start can name another process than the holder        *)
(* (Unambiguous), a live holder is never displaced, and only it works on   *)
(* the batch (OnlyKeeperWorks): the rest follows.                          *)
(***************************************************************************)
EXTENDS Lease, TLAPS

Works(s)    == s \in runs \/ s \in passing \/ s \in adopting \/ s \in asking

(* A process has a pid from its start on; no two live ones share it.       *)
PidsAreOwn ==
  /\ \A s \in Servers : life[s] # "unborn" <=> pid[s] # NoPid
  /\ \A s, o \in Servers : s # o /\ pid[s] = pid[o] /\ pid[s] # NoPid
                             => ~(Up(s) /\ Up(o))
KeeperHeld      == lease.pid = pid[keeper] /\ life[keeper] # "unborn"
OnlyLiveWork    == \A s \in Servers : Works(s) \/ hand[s] # 0 => Up(s)
OnLeaseIsKeeper == \A s \in Servers : Works(s) /\ Holds(s) => keeper = s
OutWasTried     == row.st = "in_flight" => row.att # 0
HandIsKnown     == \A s \in Servers : hand[s] <= row.att
PidInv  == TypeOK /\ OutWasTried /\ PidsAreOwn /\ KeeperHeld /\ OnlyLiveWork /\ OnLeaseIsKeeper
HandInv == HandIsKnown /\ AttemptIsOnes

-----------------------------------------------------------------------------
(* Types.                                                                  *)

LEMMA TakeLeaseType ==
  ASSUME TypeOK, NEW s \in Servers, pid[s] \in Pids, TakeLease(s)
  PROVE  lease' \in [pid : Pids, start : Servers] /\ stale' \in BOOLEAN /\ keeper' \in Servers
BY DEF TypeOK, TakeLease

LEMMA AdmitsType ==
  ASSUME TypeOK, NEW s \in Servers, NEW st \in {"admitting", "needs_confirmation"},
         NEW B \in SUBSET Servers, NEW R \in SUBSET Servers, Admits(s, st, B, R)
  PROVE  /\ row' \in [st : {"backlog", "in_flight", "done"}, att : 0..MaxAttempt]
         /\ hand' \in [Servers -> 0..MaxAttempt]
         /\ bstate' \in {"admitting", "needs_confirmation"}
         /\ confirmed' \subseteq Servers /\ runs' \subseteq Servers
<1>1. bstate' \in {"admitting", "needs_confirmation"} /\ confirmed' \subseteq Servers /\ runs' \subseteq Servers
  BY DEF Admits
<1>2. row.att < MaxAttempt => row.att + 1 \in 0..MaxAttempt
  BY LeaseAssumption DEF TypeOK, LeaseAssumption
<1>3. row' \in [st : {"backlog", "in_flight", "done"}, att : 0..MaxAttempt] /\ hand' \in [Servers -> 0..MaxAttempt]
  BY <1>2 DEF Admits, TypeOK
<1> QED BY <1>1, <1>3
(* A server that runs has a pid.                                           *)
LEMMA UpHasPid ==
  ASSUME TypeOK, PidsAreOwn, NEW s \in Servers, Up(s)
  PROVE  pid[s] \in Pids /\ pid[s] # NoPid
BY DEF TypeOK, PidsAreOwn, Up

-----------------------------------------------------------------------------
(* The invariant of the pids and of who is on the lease.                   *)

LEMMA InitPidInv == Init => PidInv /\ HandInv
<1> SUFFICES ASSUME Init PROVE PidInv /\ HandInv
  OBVIOUS
<1>0. OutWasTried
  BY DEF Init, OutWasTried
<1>1. PICK p \in Pids : lease = [pid |-> p, start |-> First] /\ pid = [s \in Servers |-> IF s = First THEN p ELSE NoPid]
  BY DEF Init
<1>2. TypeOK
  <2>1. 0 \in 0..MaxAttempt /\ First \in Servers
    BY LeaseAssumption DEF LeaseAssumption
  <2>2. /\ life \in [Servers -> {"unborn", "up", "dead"}] /\ pid \in [Servers -> Pids \cup {NoPid}]
        /\ lease \in [pid : Pids, start : Servers] /\ hand \in [Servers -> 0..MaxAttempt]
    BY <1>1, <2>1 DEF Init
  <2>3. row \in [st : {"backlog", "in_flight", "done"}, att : 0..MaxAttempt]
    BY <2>1 DEF Init
  <2> QED BY <2>1, <2>2, <2>3 DEF Init, TypeOK
<1>3. PidsAreOwn /\ KeeperHeld
  BY <1>1, LeaseAssumption DEF Init, PidsAreOwn, KeeperHeld, LeaseAssumption, Up
<1>4. OnlyLiveWork /\ OnLeaseIsKeeper
  BY <1>1, LeaseAssumption DEF Init, OnlyLiveWork, OnLeaseIsKeeper, Works, Up, LeaseAssumption
<1>5. HandInv
  BY <1>1, LeaseAssumption DEF Init, HandInv, HandIsKnown, AttemptIsOnes, LeaseAssumption
<1> QED BY <1>0, <1>2, <1>3, <1>4, <1>5 DEF PidInv

(* Typing, action by action: what the ledger's and the lease's own         *)
(* operations leave (TakeLeaseType, AdmitsType), sets that grow or shrink. *)
LEMMA StepKeepsTypes == ASSUME TypeOK, OutWasTried, PidsAreOwn, [Next]_vars PROVE TypeOK'
<1> USE DEF TypeOK
<1>1. CASE UNCHANGED vars
  BY <1>1 DEF vars, procs, ledger, memory, history
<1>2. CASE PidGoesOn
  BY <1>2 DEF PidGoesOn, ledger, memory, history
<1>3. CASE HeartbeatAges
  BY <1>3 DEF HeartbeatAges, procs, memory, history
<1>4. ASSUME NEW s \in Servers, ServerStep(s) PROVE TypeOK'
  <2>1. CASE Starts(s)
    BY <2>1 DEF Starts, ledger, memory, history
  <2>2. CASE Dies(s)
    <3>1. 0 \in 0..MaxAttempt
      BY LeaseAssumption DEF LeaseAssumption
    <3> QED BY <2>2, <3>1 DEF Dies, ledger, history
  <2>3. CASE AdoptTakes(s)
    <3>1. pid[s] \in Pids
      BY <2>3, UpHasPid DEF AdoptTakes, Free
    <3>2. lease' \in [pid : Pids, start : Servers] /\ stale' \in BOOLEAN /\ keeper' \in Servers
      BY <2>3, <3>1, TakeLeaseType DEF AdoptTakes
    <3> QED BY <2>3, <3>2 DEF AdoptTakes, procs
  <2>4. CASE AdoptPauses(s)
    BY <2>4 DEF AdoptPauses, procs, history
  <2>5. CASE ConfirmsBlock(s)
    BY <2>5 DEF ConfirmsBlock, procs, ledger, history
  <2>6. CASE PassStarts(s)
    BY <2>6 DEF PassStarts, procs, history
  <2>7. CASE PassSettles(s)
    BY <2>7 DEF PassSettles, procs, memory, history
  <2>8. CASE PassReturns(s)
    <3>1. row.att \in Attempts
      BY <2>8 DEF PassReturns, OutWasTried, Attempts
    <3> QED BY <2>8, <3>1 DEF PassReturns, procs, memory
  <2>9. CASE PassAdmits(s)
    <3>1. Admits(s, bstate, confirmed, runs)
      BY <2>9 DEF PassAdmits
    <3>2. /\ row' \in [st : {"backlog", "in_flight", "done"}, att : 0..MaxAttempt]
          /\ hand' \in [Servers -> 0..MaxAttempt]
          /\ bstate' \in {"admitting", "needs_confirmation"}
          /\ confirmed' \subseteq Servers /\ runs' \subseteq Servers
      BY <3>1, AdmitsType
    <3> QED BY <2>9, <3>2 DEF PassAdmits, procs, history
  <2>10. CASE Sends(s)
    <3>1. 0 \in 0..MaxAttempt /\ (hand[s] # 0 => hand[s] \in Attempts)
      BY LeaseAssumption DEF LeaseAssumption, Attempts
    <3> QED BY <2>10, <3>1 DEF Sends, procs, ledger, history
  <2>11. CASE ResumeAsks(s)
    <3>1. pid[s] \in Pids
      BY <2>11, UpHasPid DEF ResumeAsks, Free
    <3>2. CASE TakeLease(s)
      <4>1. lease' \in [pid : Pids, start : Servers] /\ stale' \in BOOLEAN /\ keeper' \in Servers
        BY <3>1, <3>2, TakeLeaseType
      <4> QED BY <2>11, <4>1 DEF ResumeAsks, procs
    <3>3. CASE ~TakeLease(s)
      BY <2>11, <3>3 DEF ResumeAsks, procs
    <3> QED BY <3>2, <3>3
  <2>12. CASE ResumeAdmits(s)
    <3>1. Admits(s, "admitting", confirmed \cup {s}, runs \cup {s})
      BY <2>12 DEF ResumeAdmits
    <3>2. /\ row' \in [st : {"backlog", "in_flight", "done"}, att : 0..MaxAttempt]
          /\ hand' \in [Servers -> 0..MaxAttempt]
          /\ bstate' \in {"admitting", "needs_confirmation"}
          /\ confirmed' \subseteq Servers /\ runs' \subseteq Servers
      BY <3>1, AdmitsType
    <3> QED BY <2>12, <3>2 DEF ResumeAdmits, procs
  <2> QED
    BY <1>4, <2>1, <2>2, <2>3, <2>4, <2>5, <2>6, <2>7, <2>8, <2>9, <2>10, <2>11, <2>12 DEF ServerStep
<1> QED BY <1>1, <1>2, <1>3, <1>4 DEF Next
(* The transactions of the lease: where a take-over leaves it.             *)
LEMMA TakenIsHeld ==
  ASSUME PidInv, NEW s \in Servers, Up(s), TakeLease(s)
  PROVE  lease'.pid = pid[s] /\ keeper' = s /\ (\A o \in Servers : Up(o) /\ lease'.pid = pid[o] => o = s)
<1>1. lease'.pid = pid[s] /\ keeper' = s
  BY DEF TakeLease, Holds
<1>2. pid[s] # NoPid
  BY UpHasPid DEF PidInv
<1> QED BY <1>1, <1>2 DEF PidInv, PidsAreOwn

(* The steps that leave processes and the lease as they are.               *)
LeaseStands == UNCHANGED <<life, pid, lease, keeper>>

LEMMA Standing ==
  ASSUME NEW s \in Servers, PidInv,
         \/ AdoptPauses(s) \/ ConfirmsBlock(s) \/ PassStarts(s) \/ PassSettles(s)
         \/ PassReturns(s) \/ PassAdmits(s) \/ Sends(s) \/ ResumeAdmits(s)
  PROVE  /\ LeaseStands /\ Up(s)
         /\ \A o \in Servers : (Works(o) \/ hand[o] # 0)' => (Works(o) \/ hand[o] # 0) \/ o = s
         /\ \A o \in Servers : Works(o)' => Works(o) \/ (o = s /\ Works(s))
<1> USE DEF LeaseStands, Works
<1>1. CASE AdoptPauses(s)
  BY <1>1 DEF AdoptPauses, procs, history, PidInv, OnlyLiveWork
<1>2. CASE ConfirmsBlock(s)
  BY <1>2 DEF ConfirmsBlock, procs, ledger, history, Free
<1>3. CASE PassStarts(s)
  BY <1>3 DEF PassStarts, procs, history, Free
<1>4. CASE PassSettles(s)
  BY <1>4 DEF PassSettles, procs, memory, history, Free
<1>5. CASE PassReturns(s)
  BY <1>5 DEF PassReturns, procs, memory, Free
<1>6. CASE PassAdmits(s)
  BY <1>6 DEF PassAdmits, Admits, procs, history, Free, PidInv, TypeOK
<1>7. CASE Sends(s)
  BY <1>7 DEF Sends, procs, ledger, history, PidInv, TypeOK
<1>8. CASE ResumeAdmits(s)
  BY <1>8 DEF ResumeAdmits, Admits, procs, history, Free, PidInv, TypeOK
<1> QED BY <1>1, <1>2, <1>3, <1>4, <1>5, <1>6, <1>7, <1>8

LEMMA RowOutIsTried ==
  ASSUME NEW s \in Servers, PidInv,
         \/ AdoptPauses(s) \/ ConfirmsBlock(s) \/ PassStarts(s) \/ PassSettles(s)
         \/ PassReturns(s) \/ PassAdmits(s) \/ Sends(s) \/ ResumeAdmits(s)
  PROVE  OutWasTried'
<1> USE DEF PidInv, OutWasTried
<1>1. CASE row' = row
  BY <1>1
<1>2. CASE PassSettles(s) \/ PassReturns(s)
  BY <1>2 DEF PassSettles, PassReturns, TypeOK
<1>3. CASE PassAdmits(s) \/ ResumeAdmits(s)
  <2>1. row.att + 1 # 0
    BY DEF TypeOK
  <2> QED BY <1>3, <2>1 DEF PassAdmits, ResumeAdmits, Admits
<1> QED BY <1>1, <1>2, <1>3 DEF AdoptPauses, ConfirmsBlock, PassStarts, Sends, ledger

LEMMA StepKeepsPidInv == PidInv /\ [Next]_vars => PidInv'
<1> SUFFICES ASSUME PidInv, [Next]_vars PROVE PidInv'
  OBVIOUS
<1>1. TypeOK'
  BY StepKeepsTypes DEF PidInv
<1>2. CASE UNCHANGED <<life, pid, lease, keeper, runs, passing, adopting, asking, hand, row>>
  <2>1. PidsAreOwn' /\ KeeperHeld'
    BY <1>2 DEF PidInv, PidsAreOwn, KeeperHeld, Up
  <2>2. OnlyLiveWork' /\ OnLeaseIsKeeper' /\ OutWasTried'
    BY <1>2 DEF PidInv, OnlyLiveWork, OnLeaseIsKeeper, OutWasTried, Works, Holds, Up
  <2> QED BY <1>1, <2>1, <2>2 DEF PidInv
<1>3. ASSUME NEW s \in Servers, ServerStep(s) PROVE PidInv'
  <2>1. CASE Starts(s)
    <3>1. PidsAreOwn'
      <4>1. PICK p \in Pids : /\ \A o \in Servers : pid[o] = p => life[o] = "dead"
                              /\ pid' = [pid EXCEPT ![s] = p]
        BY <2>1 DEF Starts
      <4>2. p # NoPid /\ pid[s] = NoPid
        BY <2>1, LeaseAssumption DEF Starts, LeaseAssumption, PidInv, PidsAreOwn
      <4> QED BY <2>1, <4>1, <4>2 DEF Starts, PidInv, PidsAreOwn, TypeOK, Up
    <3>2. keeper # s /\ UNCHANGED <<lease, keeper, runs, passing, adopting, asking, hand, row>>
      BY <2>1 DEF Starts, ledger, memory, history, PidInv, KeeperHeld
    <3>3. life'[keeper] = life[keeper] /\ pid'[keeper] = pid[keeper]
      BY <2>1, <3>2 DEF Starts, PidInv, TypeOK
    <3>4. KeeperHeld' /\ OutWasTried'
      BY <3>2, <3>3 DEF PidInv, KeeperHeld, OutWasTried
    <3>5. ~Works(s) /\ hand[s] = 0
      BY <2>1 DEF Starts, PidInv, OnlyLiveWork, Up
    <3>6. \A o \in Servers : o # s => life'[o] = life[o] /\ pid'[o] = pid[o]
      BY <2>1 DEF Starts, PidInv, TypeOK
    <3>7. OnlyLiveWork' /\ OnLeaseIsKeeper'
      BY <3>2, <3>5, <3>6 DEF PidInv, OnlyLiveWork, OnLeaseIsKeeper, Works, Holds, Up
    <3> QED BY <1>1, <3>1, <3>4, <3>7 DEF PidInv
  <2>2. CASE Dies(s)
    <3>1. UNCHANGED <<pid, lease, keeper, row>> /\ life' = [life EXCEPT ![s] = "dead"]
      BY <2>2 DEF Dies, ledger, history
    <3>2. PidsAreOwn' /\ KeeperHeld' /\ OutWasTried'
      BY <2>2, <3>1 DEF Dies, PidInv, PidsAreOwn, KeeperHeld, OutWasTried, TypeOK, Up
    <3>3. OnlyLiveWork' /\ OnLeaseIsKeeper'
      BY <2>2, <3>1 DEF Dies, PidInv, OnlyLiveWork, OnLeaseIsKeeper, Works, Holds, TypeOK, Up
    <3> QED BY <1>1, <3>2, <3>3 DEF PidInv
  <2>3. CASE Up(s) /\ TakeLease(s) /\ (AdoptTakes(s) \/ ResumeAsks(s))
    <3>1. /\ lease'.pid = pid[s] /\ keeper' = s
          /\ \A o \in Servers : Up(o) /\ lease'.pid = pid[o] => o = s
      BY <2>3, TakenIsHeld
    <3>2. /\ UNCHANGED <<life, pid, hand, row>>
          /\ \A o \in Servers : Works(o)' => Works(o) \/ o = s
      BY <2>3 DEF AdoptTakes, ResumeAsks, procs, Works
    <3>3. PidsAreOwn' /\ KeeperHeld' /\ OutWasTried'
      BY <2>3, <3>1, <3>2 DEF PidInv, PidsAreOwn, KeeperHeld, OutWasTried, Up
    <3>4. OnlyLiveWork'
      BY <2>3, <3>2 DEF PidInv, OnlyLiveWork, Up
    <3>5. OnLeaseIsKeeper'
      BY <3>1, <3>2, <3>4 DEF OnLeaseIsKeeper, OnlyLiveWork, Holds, Up
    <3> QED BY <1>1, <3>3, <3>4, <3>5 DEF PidInv
  <2>4. CASE ResumeAsks(s) /\ ~TakeLease(s)
    <3>1. /\ UNCHANGED <<life, pid, lease, keeper, hand, row>>
          /\ \A o \in Servers : Works(o)' => Works(o)
      BY <2>4 DEF ResumeAsks, procs, Works
    <3>2. PidsAreOwn' /\ KeeperHeld' /\ OutWasTried'
      BY <3>1 DEF PidInv, PidsAreOwn, KeeperHeld, OutWasTried, Up
    <3>3. OnlyLiveWork' /\ OnLeaseIsKeeper'
      BY <3>1 DEF PidInv, OnlyLiveWork, OnLeaseIsKeeper, Holds, Up
    <3> QED BY <1>1, <3>2, <3>3 DEF PidInv
  <2>5. CASE \/ AdoptPauses(s) \/ ConfirmsBlock(s) \/ PassStarts(s) \/ PassSettles(s)
             \/ PassReturns(s) \/ PassAdmits(s) \/ Sends(s) \/ ResumeAdmits(s)
    <3>1. /\ UNCHANGED <<life, pid, lease, keeper>> /\ Up(s)
          /\ \A o \in Servers : (Works(o) \/ hand[o] # 0)' => (Works(o) \/ hand[o] # 0) \/ o = s
          /\ \A o \in Servers : Works(o)' => Works(o) \/ (o = s /\ Works(s))
      BY <2>5, Standing DEF LeaseStands
    <3>2. PidsAreOwn' /\ KeeperHeld'
      BY <3>1 DEF PidInv, PidsAreOwn, KeeperHeld, Up
    <3>3. OnlyLiveWork' /\ OnLeaseIsKeeper'
      BY <3>1 DEF PidInv, OnlyLiveWork, OnLeaseIsKeeper, Holds, Up
    <3>4. OutWasTried'
      BY <2>5, RowOutIsTried DEF PidInv
    <3> QED BY <1>1, <3>2, <3>3, <3>4 DEF PidInv
  <2> QED
    BY <1>3, <2>1, <2>2, <2>3, <2>4, <2>5 DEF ServerStep, AdoptTakes, ResumeAsks, Free
<1>4. CASE UNCHANGED vars \/ PidGoesOn \/ HeartbeatAges
  BY <1>2, <1>4 DEF vars, PidGoesOn, HeartbeatAges, procs, ledger, memory, history
<1> QED BY <1>3, <1>4 DEF Next

(* What a reservation is made of.                                          *)
LEMMA Reserves ==
  ASSUME TypeOK, [Next]_vars, NEW o \in Servers, hand'[o] # hand[o], hand'[o] # 0
  PROVE  /\ hand[o] = 0 /\ Holds(o) /\ Up(o) /\ (o \in passing \/ o \in asking)
         /\ hand' = [hand EXCEPT ![o] = row.att + 1]
         /\ row' = [st |-> "in_flight", att |-> row.att + 1]
         /\ PassAdmits(o) \/ ResumeAdmits(o)
<1> USE DEF TypeOK
<1>1. PICK s \in Servers : ServerStep(s)
  BY DEF Next, vars, PidGoesOn, HeartbeatAges, memory
<1>2. CASE PassAdmits(s) \/ ResumeAdmits(s)
  BY <1>2 DEF PassAdmits, ResumeAdmits, Admits, MayReserve, Free
<1>3. CASE Dies(s) \/ Sends(s)
  BY <1>3 DEF Dies, Sends
<1>4. CASE \/ Starts(s) \/ AdoptTakes(s) \/ AdoptPauses(s) \/ ConfirmsBlock(s) \/ PassStarts(s)
           \/ PassSettles(s) \/ PassReturns(s) \/ ResumeAsks(s)
  BY <1>4 DEF Starts, AdoptTakes, AdoptPauses, ConfirmsBlock, PassStarts, PassSettles, PassReturns, ResumeAsks, memory
<1> QED BY <1>1, <1>2, <1>3, <1>4 DEF ServerStep

LEMMA AttemptsGrow == ASSUME TypeOK, [Next]_vars PROVE row'.att \in Nat /\ row.att <= row'.att
<1> USE DEF TypeOK
<1>1. CASE row' = row
  BY <1>1
<1>2. ASSUME NEW s \in Servers, PassSettles(s) \/ PassReturns(s) PROVE row'.att = row.att
  BY <1>2 DEF PassSettles, PassReturns
<1>3. ASSUME NEW s \in Servers, PassAdmits(s) \/ ResumeAdmits(s) PROVE row'.att \in {row.att, row.att + 1}
  BY <1>3 DEF PassAdmits, ResumeAdmits, Admits
<1> QED
  BY <1>1, <1>2, <1>3 DEF Next, vars, ServerStep, PidGoesOn, HeartbeatAges, Starts, Dies, AdoptTakes, AdoptPauses,
     ConfirmsBlock, PassStarts, Sends, ResumeAsks, ledger

LEMMA StepKeepsHandInv == PidInv /\ HandInv /\ [Next]_vars => HandInv'
<1> SUFFICES ASSUME PidInv, HandInv, [Next]_vars PROVE HandInv'
  OBVIOUS
<1>1. row.att \in Nat /\ row'.att \in Nat /\ row.att <= row'.att /\ \A o \in Servers : hand[o] \in Nat
  BY AttemptsGrow DEF PidInv, TypeOK
<1>2. CASE \A o \in Servers : hand'[o] \in {0, hand[o]}
  BY <1>1, <1>2 DEF HandInv, HandIsKnown, AttemptIsOnes
<1>3. ASSUME NEW o \in Servers, hand'[o] # hand[o], hand'[o] # 0 PROVE HandInv'
  <2>1. hand' = [hand EXCEPT ![o] = row.att + 1] /\ row'.att = row.att + 1
    BY <1>3, Reserves DEF PidInv
  <2>2. hand'[o] = row.att + 1 /\ \A s \in Servers \ {o} : hand'[s] = hand[s]
    BY <2>1 DEF PidInv, TypeOK
  <2>3. HandIsKnown'
    BY <1>1, <2>1, <2>2 DEF HandInv, HandIsKnown
  <2>4. AttemptIsOnes'
    BY <1>1, <2>2 DEF HandInv, HandIsKnown, AttemptIsOnes
  <2> QED BY <2>3, <2>4 DEF HandInv
<1> QED BY <1>2, <1>3

-----------------------------------------------------------------------------
(* What holds whatever pids are handed on.                                 *)

LEMMA PidInvariant == Spec => [](PidInv /\ HandInv)
<1>1. PidInv /\ HandInv /\ [Next]_vars => (PidInv /\ HandInv)'
  BY StepKeepsPidInv, StepKeepsHandInv
<1> QED BY InitPidInv, <1>1, PTL DEF Spec

(* The lease's columns, the row and the servers' memory keep their types.  *)
THEOREM LeaseTypeCorrect == Spec => []TypeOK
<1>1. PidInv => TypeOK
  BY DEF PidInv
<1> QED BY PidInvariant, <1>1, PTL

(* No two servers ever have the same attempt of a row in hand, even when   *)
(* both believe to hold the batch: `reserve` counts attempts in the ledger.*)
THEOREM AttemptsAreOwn == Spec => []AttemptIsOnes
<1>1. HandInv => AttemptIsOnes
  BY DEF HandInv
<1> QED BY PidInvariant, <1>1, PTL

(* A server reserves rows only as the one the lease was last granted to:   *)
(* one that lost it while suspended finds its pid gone from the lease.     *)
THEOREM KeeperReserves == Spec => ReservesAsKeeper
<1>1. PidInv /\ [Next]_vars => [\A s \in Servers : hand[s] = 0 /\ hand'[s] # 0 => s = keeper]_vars
  BY Reserves DEF PidInv, OnLeaseIsKeeper, Works
<1> QED BY PidInvariant, <1>1, PTL DEF Spec, ReservesAsKeeper

-----------------------------------------------------------------------------
(* What holds as long as the recorded start never names another process    *)
(* than the holder: no pid passed from server to server, or starts are     *)
(* never compared.                                                         *)

OnlyKeeperWorks == \A s \in Servers : Works(s) \/ hand[s] # 0 => s = keeper
StartOnRecord   == KnowsStarts => lease.start = keeper
YesIsKeepers    == bstate = "admitting" /\ Up(keeper) /\ keeper \notin adopting => keeper \in yes
HandIsNew       == /\ \A a \in returned : a <= row.att
                   /\ \A s \in Servers : hand[s] # 0 => hand[s] \notin returned
LeaseInv == PidInv /\ HandInv /\ OnlyKeeperWorks /\ StartOnRecord
YesInv   == LeaseInv /\ YesIsKeepers /\ AdmitsOnYes
NeverInv == LeaseInv /\ HandIsNew

LEMMA TakenFromDead ==
  ASSUME LeaseInv, Unambiguous, NEW s \in Servers, Up(s), TakeLease(s)
  PROVE  /\ keeper' = s
         /\ s # keeper => life[keeper] = "dead" /\ \A o \in Servers : ~Works(o) /\ hand[o] = 0
         /\ StartOnRecord'
<1> USE DEF LeaseInv, PidInv
<1>1. keeper' = s /\ keeper \in Servers /\ pid[s] # NoPid
  BY UpHasPid DEF TakeLease, TypeOK
<1>2. ASSUME s # keeper, Up(keeper) PROVE FALSE
  <2>1. ~Holds(s)
    BY <1>1, <1>2 DEF Holds, KeeperHeld, PidsAreOwn
  <2>2. HolderAlive
    BY <1>1, <1>2 DEF HolderAlive, KeeperHeld, StartOnRecord
  <2> QED BY <2>1, <2>2 DEF TakeLease, Grants
<1>3. ASSUME s # keeper PROVE life[keeper] = "dead"
  BY <1>1, <1>2, <1>3 DEF TypeOK, KeeperHeld, Up
<1>4. ASSUME s # keeper PROVE \A o \in Servers : ~Works(o) /\ hand[o] = 0
  BY <1>3, <1>4 DEF OnlyKeeperWorks, OnlyLiveWork, Up
<1>5. StartOnRecord'
  <2>1. CASE Holds(s) /\ KnowsStarts
    <3>1. s = keeper
      BY <1>1, <2>1 DEF Holds, KeeperHeld, PidsAreOwn, Unambiguous
    <3> QED BY <1>1, <2>1, <3>1 DEF TakeLease, StartOnRecord
  <2>2. CASE ~Holds(s)
    BY <1>1, <2>2 DEF TakeLease, StartOnRecord
  <2>3. CASE ~KnowsStarts
    BY <2>3 DEF StartOnRecord
  <2> QED BY <2>1, <2>2, <2>3
<1> QED BY <1>1, <1>3, <1>4, <1>5

(* Every step either grants the lease, or leaves it to its keeper and lets *)
(* no one else begin to work.                                              *)
GrantTo(s) ==
  /\ Up(s) /\ TakeLease(s) /\ UNCHANGED hand
  /\ AdoptTakes(s) \/ ResumeAsks(s)
  /\ \A o \in Servers : Works(o)' => Works(o) \/ o = s
NoGrant ==
  /\ UNCHANGED <<lease, keeper>>
  /\ \A o \in Servers : Works(o)' => Works(o)

LEMMA LeaseSteps ==
  ASSUME PidInv, [Next]_vars
  PROVE  NoGrant \/ \E s \in Servers : GrantTo(s)
<1> USE DEF NoGrant, GrantTo
<1>1. CASE UNCHANGED vars \/ PidGoesOn \/ HeartbeatAges
  BY <1>1 DEF vars, PidGoesOn, HeartbeatAges, ledger, history, memory, Works
<1>2. ASSUME NEW s \in Servers, Starts(s) \/ Dies(s)
      PROVE  UNCHANGED <<lease, keeper>> /\ \A o \in Servers : Works(o)' => Works(o)
  BY <1>2 DEF Starts, Dies, ledger, history, memory, Works
<1>3. ASSUME NEW s \in Servers, AdoptTakes(s) \/ ResumeAsks(s), TakeLease(s)
      PROVE  Up(s) /\ UNCHANGED hand /\ \A o \in Servers : Works(o)' => Works(o) \/ o = s
  BY <1>3 DEF AdoptTakes, ResumeAsks, Free, Works
<1>4. ASSUME NEW s \in Servers, AdoptTakes(s) \/ ResumeAsks(s), ~TakeLease(s)
      PROVE  UNCHANGED <<lease, keeper>> /\ \A o \in Servers : Works(o)' => Works(o)
  BY <1>4 DEF AdoptTakes, ResumeAsks, Works
<1>5. ASSUME NEW s \in Servers,
             \/ AdoptPauses(s) \/ ConfirmsBlock(s) \/ PassStarts(s) \/ PassSettles(s)
             \/ PassReturns(s) \/ PassAdmits(s) \/ Sends(s) \/ ResumeAdmits(s)
      PROVE  UNCHANGED <<lease, keeper>> /\ \A o \in Servers : Works(o)' => Works(o)
  BY <1>5, Standing DEF LeaseStands
<1> QED BY <1>1, <1>2, <1>3, <1>4, <1>5 DEF Next, ServerStep

LEMMA StepKeepsLeaseInv == Unambiguous /\ LeaseInv /\ [Next]_vars => LeaseInv'
<1> SUFFICES ASSUME Unambiguous, LeaseInv, [Next]_vars PROVE LeaseInv'
  OBVIOUS
<1>1. PidInv' /\ HandInv' /\ PidInv
  BY StepKeepsPidInv, StepKeepsHandInv DEF LeaseInv
<1>2. CASE NoGrant
  <2>1. \A o \in Servers : hand'[o] # 0 => hand[o] # 0 \/ Works(o)
    BY <1>1, Reserves DEF PidInv, Works
  <2> QED BY <1>1, <1>2, <2>1 DEF NoGrant, LeaseInv, OnlyKeeperWorks, StartOnRecord
<1>3. ASSUME NEW s \in Servers, GrantTo(s) PROVE LeaseInv'
  <2>1. /\ keeper' = s /\ StartOnRecord'
        /\ s # keeper => \A o \in Servers : ~Works(o) /\ hand[o] = 0
    BY <1>3, TakenFromDead DEF GrantTo
  <2>2. OnlyKeeperWorks'
    BY <1>3, <2>1 DEF GrantTo, LeaseInv, OnlyKeeperWorks
  <2> QED BY <1>1, <2>1, <2>2 DEF LeaseInv
<1> QED BY <1>1, <1>2, <1>3, LeaseSteps

(* A pid that passed from server to server has done so for good.           *)
LEMMA StaysAmbiguous ==
  ASSUME PidInv, [Next]_vars, Unambiguous'
  PROVE  Unambiguous
<1>1. \A s \in Servers : pid[s] # NoPid => pid'[s] = pid[s]
  <2>1. CASE pid' = pid
    BY <2>1
  <2>2. ASSUME NEW s \in Servers, Starts(s) PROVE \A o \in Servers : pid[o] # NoPid => pid'[o] = pid[o]
    BY <2>2 DEF Starts, PidInv, PidsAreOwn, TypeOK
  <2> QED
    BY <2>1, <2>2 DEF Next, vars, ServerStep, PidGoesOn, HeartbeatAges, Dies, AdoptTakes, AdoptPauses, ConfirmsBlock,
       PassStarts, PassSettles, PassReturns, PassAdmits, Sends, ResumeAsks, ResumeAdmits, procs
<1> QED BY <1>1 DEF Unambiguous

LEMMA InitLeaseInv == Init => LeaseInv /\ YesIsKeepers /\ AdmitsOnYes /\ HandIsNew
<1> SUFFICES ASSUME Init PROVE LeaseInv /\ YesIsKeepers /\ AdmitsOnYes /\ HandIsNew
  OBVIOUS
<1>1. OnlyKeeperWorks /\ StartOnRecord
  BY LeaseAssumption DEF Init, LeaseAssumption, OnlyKeeperWorks, StartOnRecord, Works
<1>2. YesIsKeepers /\ AdmitsOnYes /\ HandIsNew
  BY DEF Init, YesIsKeepers, AdmitsOnYes, HandIsNew
<1> QED BY <1>1, <1>2, InitPidInv DEF LeaseInv

(* The lease is taken from a dead server only, so a server suspended past  *)
(* its heartbeat keeps it, whatever other programs got which pid.          *)
THEOREM LivingKeepTheLease == Spec => TakenFromTheDead
<1> DEFINE I == PidInv /\ (Unambiguous => LeaseInv)
<1>1. I /\ [Next]_vars => [Unambiguous /\ keeper' # keeper => life[keeper] = "dead"]_vars
  <2> SUFFICES ASSUME LeaseInv, Unambiguous, [Next]_vars, keeper' # keeper PROVE life[keeper] = "dead"
    OBVIOUS
  <2>1. PICK s \in Servers : Up(s) /\ TakeLease(s)
    BY LeaseSteps DEF LeaseInv, NoGrant, GrantTo
  <2> QED BY <2>1, TakenFromDead
<1>2. I /\ [Next]_vars => I'
  BY StepKeepsLeaseInv, StepKeepsPidInv, StaysAmbiguous
<1>3. Init => I
  BY InitLeaseInv, InitPidInv
<1> QED BY <1>1, <1>2, <1>3, PTL DEF Spec, TakenFromTheDead

LEMMA StepKeepsYes == ASSUME Unambiguous, YesInv, [Next]_vars PROVE YesIsKeepers' /\ AdmitsOnYes'
<1> USE DEF YesInv
<1>1. PidInv /\ TypeOK /\ OnlyKeeperWorks /\ keeper \in Servers
  BY DEF LeaseInv, PidInv, TypeOK
<1>2. ASSUME UNCHANGED <<bstate, keeper, adopting, yes>>, Up(keeper)' = Up(keeper) PROVE YesIsKeepers'
  BY <1>2 DEF YesIsKeepers
<1>3. ASSUME UNCHANGED vars \/ PidGoesOn \/ HeartbeatAges PROVE YesIsKeepers'
  BY <1>2, <1>3 DEF vars, PidGoesOn, HeartbeatAges, procs, ledger, memory, history, Up
<1>4. ASSUME NEW s \in Servers, ServerStep(s) PROVE YesIsKeepers'
  <2>1. CASE Starts(s)
    <3>1. keeper # s /\ UNCHANGED <<bstate, keeper, adopting, yes>>
      BY <1>1, <2>1 DEF Starts, ledger, memory, history, PidInv, KeeperHeld
    <3>2. Up(keeper)' = Up(keeper)
      BY <1>1, <2>1, <3>1 DEF Starts, TypeOK, Up
    <3> QED BY <1>2, <3>1, <3>2
  <2>2. CASE Dies(s)
    <3>1. UNCHANGED <<bstate, keeper, yes>> /\ (keeper # s => (keeper \in adopting' <=> keeper \in adopting))
      BY <2>2 DEF Dies, ledger, history
    <3>2. Up(keeper)' => Up(keeper) /\ keeper # s
      BY <1>1, <2>2, <3>1 DEF Dies, TypeOK, Up
    <3> QED BY <3>1, <3>2 DEF YesIsKeepers
  <2>3. CASE AdoptTakes(s)
    BY <2>3 DEF AdoptTakes, TakeLease, YesIsKeepers
  <2>4. CASE ResumeAsks(s)
    <3>1. keeper' = keeper
      BY <1>1, <2>4 DEF ResumeAsks, TakeLease, OnlyKeeperWorks, Works
    <3> QED BY <1>2, <2>4, <3>1 DEF ResumeAsks, procs, Up
  <2>5. CASE AdoptPauses(s)
    BY <2>5 DEF AdoptPauses, YesIsKeepers
  <2>6. CASE PassAdmits(s)
    <3>1. UNCHANGED <<life, keeper, adopting, yes>> /\ (bstate' = "admitting" => bstate = "admitting")
      BY <2>6 DEF PassAdmits, Admits, procs, history
    <3> QED BY <3>1 DEF YesIsKeepers, Up
  <2>7. CASE ResumeAdmits(s)
    <3>1. s = keeper /\ keeper' = keeper /\ s \in yes'
      BY <1>1, <2>7 DEF ResumeAdmits, OnlyKeeperWorks, Works
    <3> QED BY <3>1 DEF YesIsKeepers
  <2>8. CASE ConfirmsBlock(s) \/ PassStarts(s) \/ PassSettles(s) \/ PassReturns(s) \/ Sends(s)
    BY <1>2, <2>8 DEF ConfirmsBlock, PassStarts, PassSettles, PassReturns, Sends, procs, ledger, memory, history, Up
  <2> QED BY <1>4, <2>1, <2>2, <2>3, <2>4, <2>5, <2>6, <2>7, <2>8 DEF ServerStep
<1>5. yes \subseteq yes'
  BY DEF Next, vars, ServerStep, PidGoesOn, HeartbeatAges, Starts, Dies, AdoptTakes, AdoptPauses, ConfirmsBlock,
     PassStarts, PassSettles, PassReturns, PassAdmits, Sends, ResumeAsks, ResumeAdmits, history
<1>6. ASSUME NEW o \in Servers, hand'[o] # hand[o], hand'[o] # 0 PROVE o \in yes'
  <2>1. PassAdmits(o) \/ ResumeAdmits(o)
    BY <1>1, <1>6, Reserves
  <2>2. CASE PassAdmits(o)
    <3>1. o = keeper /\ Up(o) /\ o \notin adopting
      BY <1>1, <2>2 DEF PassAdmits, Free, OnlyKeeperWorks, Works
    <3>2. bstate = "admitting"
      BY <1>6, <2>2 DEF PassAdmits, Admits
    <3> QED BY <1>5, <3>1, <3>2 DEF YesIsKeepers
  <2>3. CASE ResumeAdmits(o)
    BY <2>3 DEF ResumeAdmits
  <2> QED BY <2>1, <2>2, <2>3
<1>7. AdmitsOnYes'
  BY <1>1, <1>5, <1>6 DEF AdmitsOnYes
<1>8. YesIsKeepers'
  <2>1. CASE \E s \in Servers : ServerStep(s)
    BY <1>4, <2>1
  <2> QED BY <1>3, <2>1 DEF Next
<1> QED BY <1>7, <1>8

(* A server reserves rows only after the user's yes for this batch in that *)
(* server, whatever state the dead holder left the batch in and whatever   *)
(* block this server has confirmed for other work.                         *)
THEOREM ReservesOnYes == Spec => []AdmitsOnYes
<1> DEFINE I == PidInv /\ (Unambiguous => YesInv)
<1>1. I /\ [Next]_vars => I'
  BY StepKeepsLeaseInv, StepKeepsPidInv, StepKeepsYes, StaysAmbiguous DEF YesInv
<1>2. Init => I
  BY InitLeaseInv, InitPidInv DEF YesInv, AdmitsOnYes
<1>3. I => AdmitsOnYes
  BY DEF YesInv, AdmitsOnYes
<1> QED BY <1>1, <1>2, <1>3, PTL DEF Spec

LEMMA StepKeepsHandNew ==
  ASSUME Unambiguous, NeverInv, [Next]_vars
  PROVE  HandIsNew' /\ (\A a \in sent' \ sent : a \notin returned)
<1> USE DEF NeverInv
<1>1. PidInv /\ TypeOK /\ OnlyKeeperWorks
  BY DEF LeaseInv, PidInv
<1>2. row.att \in Nat /\ row'.att \in Nat /\ row.att <= row'.att /\ (\A a \in returned : a \in Nat)
  BY <1>1, AttemptsGrow DEF TypeOK, Attempts
<1>3. ASSUME NEW s \in Servers, PassReturns(s) PROVE HandIsNew' /\ sent' = sent
  <2>1. \A o \in Servers : hand[o] = 0
    BY <1>1, <1>3 DEF PassReturns, Free, OnlyKeeperWorks, Works
  <2> QED BY <1>2, <1>3, <2>1 DEF PassReturns, HandIsNew, memory, TypeOK
<1>4. ASSUME returned' = returned PROVE HandIsNew'
  <2>1. \A a \in returned' : a <= row'.att
    BY <1>2, <1>4 DEF HandIsNew
  <2>2. ASSUME NEW o \in Servers, hand'[o] # hand[o], hand'[o] # 0 PROVE hand'[o] \notin returned
    <3>1. hand'[o] = row.att + 1
      BY <1>1, <2>2, Reserves DEF TypeOK
    <3> QED BY <1>2, <3>1 DEF HandIsNew
  <2> QED BY <1>4, <2>1, <2>2 DEF HandIsNew
<1>5. ASSUME \A s \in Servers : ~PassReturns(s) PROVE \A a \in sent' \ sent : a \notin returned
  <2>1. ASSUME NEW s \in Servers, Sends(s) PROVE \A a \in sent' \ sent : a \notin returned
    BY <2>1 DEF Sends, HandIsNew
  <2>2. (\A s \in Servers : ~Sends(s)) => sent' = sent
    BY <1>5 DEF Next, vars, ServerStep, PidGoesOn, HeartbeatAges, Starts, Dies, AdoptTakes, AdoptPauses, ConfirmsBlock,
       PassStarts, PassSettles, PassAdmits, ResumeAsks, ResumeAdmits
  <2> QED BY <2>1, <2>2
<1>6. (\A s \in Servers : ~PassReturns(s)) => returned' = returned
  BY DEF Next, vars, ServerStep, PidGoesOn, HeartbeatAges, Starts, Dies, AdoptTakes, AdoptPauses, ConfirmsBlock,
     PassStarts, PassSettles, PassAdmits, Sends, ResumeAsks, ResumeAdmits, history
<1> QED BY <1>3, <1>4, <1>5, <1>6

(* What `_reconcile_unsent` put back as never sent is never sent later.    *)
THEOREM ReturnedStaysUnsent == Spec => NeverSentLater
<1> DEFINE I == PidInv /\ (Unambiguous => NeverInv)
<1>1. I /\ [Next]_vars => I'
  BY StepKeepsLeaseInv, StepKeepsPidInv, StepKeepsHandNew, StaysAmbiguous DEF NeverInv
<1>2. I /\ [Next]_vars => [Unambiguous => \A a \in sent' \ sent : a \notin returned]_vars
  BY StepKeepsHandNew
<1>3. Init => I
  BY InitLeaseInv, InitPidInv DEF NeverInv
<1> QED BY <1>1, <1>2, <1>3, PTL DEF Spec, NeverSentLater
=============================================================================
