------------------------- MODULE BlockWindow_proofs -------------------------
(***************************************************************************)
(* Proofs about BlockWindow, for any number of batches, any block and any  *)
(* sizes of rows: types, that no reservation overfills the block in what   *)
(* its rows take, and that before the block is measured no free worker is  *)
(* left to a waiter that does not take it.                                 *)
(***************************************************************************)
EXTENDS BlockWindow, FiniteSums_proofs

-----------------------------------------------------------------------------
(* The least and the greatest of a finite set of integers.                 *)

(* There is a least.                                                       *)
LEMMA LeastThere ==
  ASSUME NEW S, IsFiniteSet(S), S \subseteq Int, S # {}
  PROVE  \E x \in S : \A y \in S : x =< y
<1> DEFINE Bad == {T \in SUBSET S : T # {} /\ ~ \E x \in T : \A y \in T : x =< y}
<1> SUFFICES ASSUME Bad # {} PROVE FALSE
  OBVIOUS
<1>0. Bad \subseteq SUBSET S
  OBVIOUS
<1>1. PICK T \in Bad : \A U \in SUBSET T : U # T => U \notin Bad
  <2> HIDE DEF Bad
  <2> QED BY <1>0, MinimalSubset
<1>2. PICK x \in T : TRUE
  OBVIOUS
<1>3. CASE T \ {x} = {}
  BY <1>2, <1>3
<1>4. CASE T \ {x} # {}
  <2>1. T \ {x} \in SUBSET T /\ T \ {x} # T /\ T \ {x} \in SUBSET S
    BY <1>2
  <2>2. PICK m \in T \ {x} : \A y \in T \ {x} : m =< y
    BY <1>1, <1>4, <2>1
  <2>3. x \in Int /\ m \in Int /\ \A y \in T : y \in Int
    BY <1>2
  <2> QED BY <1>2, <2>2, <2>3
<1> QED BY <1>3, <1>4

(* Min.                                                                    *)
LEMMA MinOf ==
  ASSUME NEW S, IsFiniteSet(S), S \subseteq Int, S # {}
  PROVE  Min(S) \in S /\ \A y \in S : Min(S) <= y
BY LeastThere DEF Min

(* Max, of a set of naturals up to some n.                                 *)
LEMMA MaxOf ==
  ASSUME NEW n \in Nat, NEW S \in SUBSET (0..n), S # {}
  PROVE  Max(S) \in S /\ \A y \in S : y <= Max(S)
<1> DEFINE Below == {n - x : x \in S}
<1>1. Below \subseteq 0..n
  <2> SUFFICES ASSUME NEW x \in S PROVE n - x \in 0..n
    OBVIOUS
  <2>1. x \in 0..n
    OBVIOUS
  <2> QED BY <2>1
<1>9. Below # {}
  <2>1. PICK x \in S : TRUE
    OBVIOUS
  <2>2. n - x \in Below
    BY <2>1
  <2> QED BY <2>2
<1>2. IsFiniteSet(0..n)
  BY FS_Interval
<1>3. IsFiniteSet(Below)
  BY <1>1, <1>2, FS_Subset
<1> HIDE DEF Below
<1>8. Below \subseteq Int
  BY <1>1
<1>4. PICK z \in Below : \A y \in Below : z =< y
  BY <1>1, <1>3, <1>8, <1>9, LeastThere
<1>5. PICK x \in S : z = n - x
  BY DEF Below
<1>6. \A y \in S : n - y \in Below
  BY DEF Below
<1>7. \A y \in S : x >= y
  BY <1>4, <1>5, <1>6
<1> QED BY <1>7 DEF Max

(* The values of a function on a finite set.                               *)
LEMMA ImageFinite ==
  ASSUME NEW S, IsFiniteSet(S), NEW f
  PROVE  IsFiniteSet({f[x] : x \in S})
<1> DEFINE g == [x \in S |-> f[x]]
<1>1. g \in Surjection(S, {f[x] : x \in S})
  BY DEF Surjection
<1> QED BY <1>1, FS_Surjection

(* Two and three integers.                                                 *)
LEMMA MinOfTwo ==
  ASSUME NEW x \in Int, NEW y \in Int
  PROVE  Min({x, y}) \in {x, y} /\ Min({x, y}) <= x /\ Min({x, y}) <= y
<1>1. IsFiniteSet({x}) /\ {x, y} = {x} \cup {y}
  BY FS_Singleton
<1>2. IsFiniteSet({x, y})
  BY <1>1, FS_AddElement
<1> QED BY <1>2, MinOf

(* Three.                                                                 *)
LEMMA MinOfThree ==
  ASSUME NEW x \in Int, NEW y \in Int, NEW z \in Int
  PROVE  /\ Min({x, y, z}) \in {x, y, z}
         /\ Min({x, y, z}) <= x /\ Min({x, y, z}) <= y /\ Min({x, y, z}) <= z
<1>1. IsFiniteSet({x}) /\ {x, y} = {x} \cup {y} /\ {x, y, z} = {x, y} \cup {z}
  BY FS_Singleton
<1>2. IsFiniteSet({x, y})
  BY <1>1, FS_AddElement
<1>3. IsFiniteSet({x, y, z})
  BY <1>1, <1>2, FS_AddElement
<1> QED BY <1>3, MinOf

(* What fits a whole number of times.                                      *)
LEMMA DivideTyped ==
  ASSUME NEW a \in Int, NEW d \in Nat, d > 0
  PROVE  a \div d \in Int
OBVIOUS

(* Multiplied again, it fits.                                              *)
LEMMA Divides ==
  ASSUME NEW a \in Int, NEW d \in Nat, d > 0, NEW n \in Nat, n <= a \div d
  PROVE  n * d <= a
BY SMTT(30)
-----------------------------------------------------------------------------
(* What a reservation reads and takes are naturals.                        *)

Numbers == [Batches -> Nat]

(* The batches.                                                            *)
LEMMA BatchesFinite == IsFiniteSet(Batches) /\ Batches \subseteq Nat
BY WindowAssumption, FS_Interval DEF Batches

(* A sum over the batches, with one of them taken out.                     *)
LEMMA BatchSplits ==
  ASSUME NEW f, \A y \in Batches : f[y] \in Nat, NEW b \in Batches
  PROVE  SumOf(f, Batches) = f[b] + SumOf(f, Batches \ {b})
<1>1. PICK S : S = Batches
  OBVIOUS
<1>2. IsFiniteSet(S) /\ b \in S /\ \A y \in S : f[y] \in Nat
  BY <1>1, BatchesFinite
<1>3. SumOf(f, S) = f[b] + SumOf(f, S \ {b})
  BY <1>2, SumSplits
<1> QED BY <1>1, <1>3

(* The resources of a block.                                               *)
LEMMA KindsFinite == IsFiniteSet(Kinds)
<1>1. Kinds = ({"cpus"} \cup {"memory"}) \cup {"gpus"}
  BY DEF Kinds
<1>2. IsFiniteSet({"cpus"})
  BY FS_Singleton
<1>3. IsFiniteSet({"cpus"} \cup {"memory"})
  BY <1>2, FS_AddElement
<1> QED BY <1>1, <1>3, FS_AddElement

(* The sum over the batches.                                               *)
LEMMA SumIs == ASSUME NEW f PROVE Sum(f) = SumOf(f, Batches)
BY DEF Sum, SumOf

(* `window_for`, and the workers of the block less the interactive one.    *)
LEMMA WorkersTyped ==
  /\ \A n \in Nat : WindowFor(n) \in Nat
  /\ PoolRows \in Nat /\ PoolRows <= WindowFor(Workers)
BY WindowAssumption DEF WindowFor, PoolRows, WIDTH_CAP

(* How many rows fit: none, or few enough for each resource they take.     *)
LEMMA FitsWithin ==
  ASSUME NEW b \in Batches, NEW free \in [Kinds -> Int], NEW freeRows \in Int
  PROVE  /\ Fits(b, free, freeRows) \in Nat
         /\ Fits(b, free, freeRows) > 0 =>
              /\ Fits(b, free, freeRows) <= freeRows
              /\ \A x \in Kinds : Need[b][x] > 0 => Fits(b, free, freeRows) <= free[x] \div Need[b][x]
<1>1. CASE freeRows <= 0
  BY <1>1 DEF Fits
<1>2. CASE ~(freeRows <= 0)
  <2> DEFINE K == {k \in Kinds : Need[b][k] > 0}
             f == [x \in K |-> free[x] \div Need[b][x]]
             S == {freeRows} \cup {free[x] \div Need[b][x] : x \in K}
  <2>1. \A x \in K : Need[b][x] \in Nat /\ Need[b][x] > 0 /\ free[x] \in Int
    BY WindowAssumption
  <2>2. \A x \in K : free[x] \div Need[b][x] \in Int
    BY <2>1, DivideTyped
  <2>3. IsFiniteSet(K)
    BY KindsFinite, FS_Subset
  <2>4. {free[x] \div Need[b][x] : x \in K} = {f[x] : x \in K}
    OBVIOUS
  <2>5. IsFiniteSet({f[x] : x \in K})
    <3> HIDE DEF f, K
    <3> QED BY <2>3, ImageFinite
  <2>6. IsFiniteSet({free[x] \div Need[b][x] : x \in K} \cup {freeRows})
    BY <2>4, <2>5, FS_AddElement
  <2>7. IsFiniteSet(S) /\ S \subseteq Int /\ S # {} /\ freeRows \in S
        /\ \A x \in K : free[x] \div Need[b][x] \in S
    BY <2>2, <2>6
  <2>8. Fits(b, free, freeRows) = AtLeast0(Min(S))
    BY <1>2 DEF Fits
  <2> HIDE DEF S
  <2>9. Min(S) \in Int /\ \A y \in S : Min(S) <= y
    BY <2>7, MinOf
  <2>10. Fits(b, free, freeRows) \in Nat /\ (Fits(b, free, freeRows) > 0 => Fits(b, free, freeRows) = Min(S))
    BY <2>8, <2>9 DEF AtLeast0
  <2> QED BY <2>7, <2>9, <2>10
<1> QED BY <1>1, <1>2

(* What is left of a pool.                                                 *)
LEMMA LessTyped ==
  ASSUME NEW b \in Batches, NEW free \in [Kinds -> Int], NEW n \in Int
  PROVE  Less(free, b, n) \in [Kinds -> Int]
<1>1. \A x \in Kinds : Need[b][x] \in Int /\ free[x] \in Int
  BY WindowAssumption
<1>2. \A x \in Kinds : free[x] - n * Need[b][x] \in Int
  BY <1>1
<1> QED BY <1>2 DEF Less

(* The capacity an admission puts on record.                               *)
LEMMA CapTyped == ASSUME NEW b \in Batches PROVE CapNow(b) \in Nat
<1>1. Pool \in [Kinds -> Int] /\ PoolRows \in Int
  BY WorkersTyped, WindowAssumption
<1>2. Fits(b, Pool, PoolRows) \in Nat /\ Concurrency[b] \in Nat
  BY <1>1, FitsWithin, WindowAssumption
<1>3. Slots(b) \in Nat
  <2>1. PICK n \in Nat : n = Fits(b, Pool, PoolRows)
    BY <1>2
  <2>2. Min({n, Concurrency[b]}) \in Nat
    <3>1. PICK c \in Nat : c = Concurrency[b]
      BY <1>2
    <3>2. n \in Int /\ c \in Int
      OBVIOUS
    <3>3. Min({n, c}) \in {n, c}
      BY <3>2, MinOfTwo, Zenon
    <3> QED BY <3>1, <3>3
  <2> QED BY <2>1, <2>2 DEF Slots
<1> QED BY <1>3, WorkersTyped, WindowAssumption DEF CapNow

(* A batch's rows out, those that can hold a worker among them, and those  *)
(* that are at the block among these.                                      *)
LEMMA CountsTyped ==
  ASSUME TypeOK, NEW v \in Batches, NEW b \in Batches
  PROVE  /\ HeldBy(b) \in Nat /\ Holds(v, b) \in Nat /\ AtBlock(b) \in Nat /\ Out(b) \in Nat
         /\ AtBlock(b) <= Holds(v, b) /\ Holds(v, b) <= HeldBy(b)
<1>1. /\ \A s \in RowStates : rows[b][s] \in Nat
      /\ \A j \in 0..MaxJobs : lost[b][j] \in Nat
      /\ view[v] \in 0..MaxJobs
  BY DEF TypeOK
<1>2. /\ rows[b]["in_flight"] \in Nat /\ rows[b]["overdue"] \in Nat /\ rows[b]["submit_unknown"] \in Nat
      /\ rows[b]["unheld"] \in Nat /\ rows[b]["elsewhere"] \in Nat
  BY <1>1 DEF RowStates
<1> DEFINE known == SumOf(lost[b], 0..MaxJobs)
<1>3. IsFiniteSet(0..MaxJobs)
  BY FS_Interval, WindowAssumption
<1>4. known \in Nat /\ known = lost[b][view[v]] + SumOf(lost[b], (0..MaxJobs) \ {view[v]})
  <2>1. known \in Nat
    BY <1>1, <1>3, SumType
  <2>2. known = lost[b][view[v]] + SumOf(lost[b], (0..MaxJobs) \ {view[v]})
    <3>1. PICK f, S, j : f = lost[b] /\ S = 0..MaxJobs /\ j = view[v]
      OBVIOUS
    <3>2. IsFiniteSet(S) /\ j \in S /\ \A x \in S : f[x] \in Nat
      BY <1>1, <1>3, <3>1
    <3>3. SumOf(f, S) = f[j] + SumOf(f, S \ {j})
      BY <3>2, SumSplits
    <3> QED BY <3>1, <3>3
  <2> QED BY <2>1, <2>2
<1>5. SumOf(lost[b], (0..MaxJobs) \ {view[v]}) \in Nat
  <2>1. IsFiniteSet((0..MaxJobs) \ {view[v]})
    BY <1>3, FS_Subset
  <2> QED BY <1>1, <2>1, SumType
<1>6. HeldBy(b) = rows[b]["in_flight"] + rows[b]["overdue"] + rows[b]["submit_unknown"] + rows[b]["unheld"]
                  + rows[b]["elsewhere"] + known
  BY DEF HeldBy, SumOf
<1> HIDE DEF known
<1>7. lost[b][view[v]] \in Nat /\ lost[b][view[v]] <= known
  BY <1>1, <1>4, <1>5
<1> QED BY <1>2, <1>4, <1>6, <1>7 DEF Holds, AtBlock, Out
(* What a reservation read.                                                *)
LEMMA ReadingHas ==
  ASSUME NEW b \in Batches
  PROVE  /\ Reading(b).cap = CapNow(b) /\ Reading(b).waiting = Waiting(b)
         /\ Reading(b).held = [x \in Batches |-> HeldBy(x)]
         /\ Reading(b).holds = [x \in Batches |-> Holds(b, x)]
         /\ Reading(b).allHold = Sum(Reading(b).holds)
         /\ Reading(b).free =
              [x \in Kinds |-> Pool[x] - Sum([y \in Batches |-> Need[y][x] * Reading(b).holds[y]])]
BY DEF Reading

(* Naturals, and what is free an integer.                                 *)
LEMMA ReadingTyped ==
  ASSUME TypeOK, NEW b \in Batches
  PROVE  /\ Reading(b).cap \in Nat /\ Reading(b).held \in Numbers /\ Reading(b).holds \in Numbers
         /\ Reading(b).allHold \in Nat /\ Reading(b).free \in [Kinds -> Int]
         /\ \A x \in Batches : Reading(b).holds[x] <= Reading(b).held[x]
         /\ \A x \in Batches : Reading(b).holds[x] <= Reading(b).allHold
<1> DEFINE r == Reading(b)
<1>1. r.cap \in Nat
  BY ReadingHas, CapTyped
<1>2. r.held \in Numbers /\ r.holds \in Numbers /\ \A x \in Batches : r.holds[x] <= r.held[x]
  <2>1. \A x \in Batches : HeldBy(x) \in Nat /\ Holds(b, x) \in Nat /\ Holds(b, x) <= HeldBy(x)
    BY CountsTyped
  <2>2. r.held = [x \in Batches |-> HeldBy(x)] /\ r.holds = [x \in Batches |-> Holds(b, x)]
    BY ReadingHas
  <2> HIDE DEF r
  <2> QED BY <2>1, <2>2 DEF Numbers
<1>3. r.allHold = SumOf(r.holds, Batches)
  BY ReadingHas, SumIs
<1> HIDE DEF r
<1>4. \A x \in Batches : r.holds[x] \in Nat
  BY <1>2 DEF Numbers
<1>5. r.allHold \in Nat
  BY <1>3, <1>4, BatchesFinite, SumType
<1>6. ASSUME NEW x \in Batches PROVE r.holds[x] <= r.allHold
  <2>1. r.allHold = r.holds[x] + SumOf(r.holds, Batches \ {x})
    <3>1. PICK f : f = r.holds
      OBVIOUS
    <3>2. \A y \in Batches : f[y] \in Nat
      BY <1>4, <3>1
    <3>3. SumOf(f, Batches) = f[x] + SumOf(f, Batches \ {x})
      BY <3>2, BatchSplits
    <3> QED BY <1>3, <3>1, <3>3
  <2>2. IsFiniteSet(Batches \ {x})
    BY BatchesFinite, FS_Subset
  <2>3. SumOf(r.holds, Batches \ {x}) \in Nat
    BY <1>4, <2>2, SumType
  <2> QED BY <1>4, <2>1, <2>3
<1>7. r.free \in [Kinds -> Int]
  <2>1. ASSUME NEW x \in Kinds PROVE Pool[x] - Sum([y \in Batches |-> Need[y][x] * r.holds[y]]) \in Int
    <3> DEFINE f == [y \in Batches |-> Need[y][x] * r.holds[y]]
    <3>1. \A y \in Batches : f[y] \in Nat
      BY <1>4, WindowAssumption
    <3> HIDE DEF f
    <3>2. Sum(f) \in Nat
      BY <3>1, SumIs, BatchesFinite, SumType
    <3> QED BY <3>2, WindowAssumption DEF f
  <2> QED BY <2>1, ReadingHas DEF r
<1> QED BY <1>1, <1>2, <1>5, <1>6, <1>7 DEF r

(* The window of a reservation: no batch's capacity, and not more than the *)
(* block's workers once they are learnt.                                   *)
Caps(b, r) ==
  {r.cap} \cup {capacity[x] : x \in Peers(b) \cup {y \in Batches \ {b} : r.holds[y] > 0}}
  \cup (IF learnt THEN {WindowFor(Workers)} ELSE {})

LEMMA WindowIs ==
  ASSUME TypeOK, NEW b \in Batches, NEW r, r.cap \in Nat
  PROVE  /\ Window(b, r) = Min(Caps(b, r))
         /\ Window(b, r) \in Nat /\ \A c \in Caps(b, r) : Window(b, r) <= c
         /\ learnt => Window(b, r) <= WindowFor(Workers)
<1>1. Window(b, r) = Min(Caps(b, r))
  BY DEF Window, Caps
<1> DEFINE P == Peers(b) \cup {y \in Batches \ {b} : r.holds[y] > 0}
<1>2. P \subseteq Batches /\ IsFiniteSet(P)
  <2>1. P \in SUBSET Batches
    BY DEF Peers
  <2> QED BY <2>1, BatchesFinite, FS_Subset
<1>3. IsFiniteSet({capacity[x] : x \in P}) /\ {capacity[x] : x \in P} \subseteq Nat
  <2>1. \A x \in P : capacity[x] \in Nat
    BY <1>2 DEF TypeOK
  <2> HIDE DEF P
  <2> QED BY <1>2, <2>1, ImageFinite
<1>4. Caps(b, r) = ({capacity[x] : x \in P} \cup {r.cap}) \cup (IF learnt THEN {WindowFor(Workers)} ELSE {})
  BY DEF Caps
<1>5. IsFiniteSet({capacity[x] : x \in P} \cup {r.cap})
  BY <1>3, FS_AddElement
<1>6. IsFiniteSet(({capacity[x] : x \in P} \cup {r.cap}) \cup {WindowFor(Workers)})
  BY <1>5, FS_AddElement
<1> HIDE DEF P
<1>7. IsFiniteSet(Caps(b, r)) /\ Caps(b, r) \subseteq Nat /\ Caps(b, r) # {}
      /\ (learnt => WindowFor(Workers) \in Caps(b, r))
  BY <1>3, <1>4, <1>5, <1>6, WorkersTyped, WindowAssumption
<1>8. Caps(b, r) \subseteq Int
  BY <1>7
<1>9. Min(Caps(b, r)) \in Caps(b, r) /\ \A y \in Caps(b, r) : Min(Caps(b, r)) <= y
  BY <1>7, <1>8, MinOf
<1> QED BY <1>1, <1>7, <1>9

(* What an admission takes while a row is a worker.                        *)
LEMMA WindowTakeIs ==
  ASSUME TypeOK, NEW b \in Batches
  PROVE  LET r == Reading(b) IN
         /\ WindowRoom(b, r) \in Nat /\ WindowTake(b, r) \in Nat
         /\ WindowRoom(b, r) <= rows[b]["backlog"]
         /\ WindowTake(b, r) <= rows[b]["backlog"]
         /\ WindowTake(b, r) > 0 => WindowTake(b, r) <= Window(b, r) - r.held[b] - (r.allHold - r.holds[b])
         /\ WindowTake(b, r) > 0 <=> /\ r.cap > 0 /\ rows[b]["backlog"] > 0
                                     /\ Window(b, r) - r.held[b] > 0
                                     /\ Window(b, r) - r.held[b] - (r.allHold - r.holds[b]) > 0
<1> DEFINE r == Reading(b)
<1>1. /\ r.cap \in Int /\ r.held[b] \in Int /\ r.holds[b] \in Int /\ r.allHold \in Int /\ r.cap \in Nat
      /\ rows[b]["backlog"] \in Nat
  <2>1. r.cap \in Nat /\ r.held \in Numbers /\ r.holds \in Numbers /\ r.allHold \in Nat
    BY ReadingTyped
  <2>2. rows[b]["backlog"] \in Nat
    BY DEF TypeOK, RowStates
  <2> HIDE DEF r
  <2> QED BY <2>1, <2>2 DEF Numbers
<1>2. Window(b, r) \in Int
  BY <1>1, WindowIs
<1> DEFINE room == Window(b, r) - r.held[b]
           left == Window(b, r) - r.held[b] - (r.allHold - r.holds[b])
           least == Min({r.cap, room, rows[b]["backlog"]})
<1>3. room \in Int /\ left \in Int
  BY <1>1, <1>2
<1>4. /\ WindowRoom(b, r) = AtLeast0(least)
      /\ WindowTake(b, r) = Min({WindowRoom(b, r), AtLeast0(left)})
  BY DEF WindowRoom, WindowTake
<1> HIDE DEF room, left, r
<1>6. /\ least \in {r.cap, room, rows[b]["backlog"]}
      /\ least <= r.cap /\ least <= room /\ least <= rows[b]["backlog"]
  <2>1. PICK x \in Int, y \in Int, z \in Int : x = r.cap /\ y = room /\ z = rows[b]["backlog"]
    BY <1>1, <1>3
  <2>2. /\ Min({x, y, z}) \in {x, y, z}
        /\ Min({x, y, z}) <= x /\ Min({x, y, z}) <= y /\ Min({x, y, z}) <= z
    BY MinOfThree, Zenon
  <2> QED BY <2>1, <2>2
<1> HIDE DEF least
<1>7. WindowRoom(b, r) \in Nat /\ AtLeast0(left) \in Nat
  BY <1>1, <1>3, <1>4, <1>6 DEF AtLeast0
<1>8. /\ WindowTake(b, r) \in {WindowRoom(b, r), AtLeast0(left)}
      /\ WindowTake(b, r) <= WindowRoom(b, r) /\ WindowTake(b, r) <= AtLeast0(left)
  <2>1. PICK x \in Int, y \in Int : x = WindowRoom(b, r) /\ y = AtLeast0(left)
    BY <1>7
  <2>2. Min({x, y}) \in {x, y} /\ Min({x, y}) <= x /\ Min({x, y}) <= y
    BY MinOfTwo, Zenon
  <2> QED BY <1>4, <2>1, <2>2
<1>9. WindowRoom(b, r) <= rows[b]["backlog"]
  BY <1>1, <1>3, <1>4, <1>6 DEF AtLeast0
<1>10. WindowTake(b, r) > 0 => WindowTake(b, r) <= left
  BY <1>3, <1>7, <1>8 DEF AtLeast0
<1>11. WindowTake(b, r) > 0 <=> r.cap > 0 /\ rows[b]["backlog"] > 0 /\ room > 0 /\ left > 0
  BY <1>1, <1>3, <1>4, <1>6, <1>7, <1>8 DEF AtLeast0
<1>12. WindowTake(b, r) \in Nat
  BY <1>7, <1>8
<1>13. WindowTake(b, r) <= rows[b]["backlog"]
  BY <1>1, <1>7, <1>8, <1>9, <1>12
<1> QED BY <1>7, <1>9, <1>10, <1>11, <1>12, <1>13 DEF r, room, left
-----------------------------------------------------------------------------
(* The order of the waiters.                                               *)

(* Ranks are triples of naturals, and no two batches have the same.        *)
LEMMA RankTyped ==
  ASSUME TypeOK, NEW b \in Batches
  PROVE  /\ Rank(b) = <<Out(b), last[b], b>>
         /\ Out(b) \in Nat /\ last[b] \in Nat /\ b \in Nat
<1>1. Out(b) \in Nat
  BY CountsTyped
<1>2. last[b] \in 0..NumBatches /\ NumBatches \in Nat
  BY WindowAssumption DEF TypeOK
<1> QED BY <1>1, <1>2, BatchesFinite DEF Rank

(* One of two precedes the other.                                         *)
LEMMA RanksOrdered ==
  ASSUME TypeOK, NEW b \in Batches, NEW c \in Batches
  PROVE  /\ b # c => Precedes(Rank(b), Rank(c)) \/ Precedes(Rank(c), Rank(b))
         /\ ~ (Precedes(Rank(b), Rank(c)) /\ Precedes(Rank(c), Rank(b)))
BY RankTyped DEF Precedes

(* And the order is transitive.                                            *)
LEMMA RanksChain ==
  ASSUME TypeOK, NEW b \in Batches, NEW c \in Batches, NEW d \in Batches,
         Precedes(Rank(b), Rank(c)), Precedes(Rank(c), Rank(d))
  PROVE  Precedes(Rank(b), Rank(d))
BY RankTyped DEF Precedes

(* One is in front.                                                        *)
LEMMA OneIsFirst ==
  ASSUME TypeOK, NEW S \in SUBSET Batches, S # {}
  PROVE  \E w \in S : \A x \in S \ {w} : Precedes(Rank(w), Rank(x))
<1> DEFINE Bad == {T \in SUBSET S : T # {} /\ ~ \E w \in T : \A x \in T \ {w} : Precedes(Rank(w), Rank(x))}
<1> SUFFICES ASSUME Bad # {} PROVE FALSE
  OBVIOUS
<1>0. Bad \subseteq SUBSET S /\ IsFiniteSet(S)
  BY BatchesFinite, FS_Subset
<1>1. PICK T \in Bad : \A U \in SUBSET T : U # T => U \notin Bad
  <2> HIDE DEF Bad
  <2> QED BY <1>0, MinimalSubset
<1>2. PICK w \in T : TRUE
  OBVIOUS
<1>3. CASE T \ {w} = {}
  BY <1>2, <1>3
<1>4. CASE T \ {w} # {}
  <2>1. T \ {w} \in SUBSET T /\ T \ {w} # T /\ T \ {w} \in SUBSET S
    BY <1>2
  <2>2. PICK f \in T \ {w} : \A x \in (T \ {w}) \ {f} : Precedes(Rank(f), Rank(x))
    BY <1>1, <1>4, <2>1
  <2>3. w \in Batches /\ f \in Batches /\ w # f /\ f \in T /\ T \subseteq Batches
    BY <1>2, <2>2
  <2>4. CASE Precedes(Rank(f), Rank(w))
    <3>1. \A x \in T \ {f} : Precedes(Rank(f), Rank(x))
      BY <2>2, <2>4
    <3> QED BY <2>3, <3>1
  <2>5. CASE Precedes(Rank(w), Rank(f))
    <3>1. ASSUME NEW x \in T \ {w} PROVE Precedes(Rank(w), Rank(x))
      <4>1. CASE x = f
        BY <2>5, <4>1
      <4>2. CASE x # f
        BY <2>2, <2>3, <2>5, <4>2, RanksChain
      <4> QED BY <4>1, <4>2
    <3> QED BY <1>2, <3>1
  <2> QED BY <2>3, <2>4, <2>5, RanksOrdered
<1> QED BY <1>3, <1>4

-----------------------------------------------------------------------------
(* What an admission takes of the measured pool.                           *)

(* Naturals, of what fits.                                                *)
LEMMA PoolTakeIs ==
  ASSUME TypeOK, NEW b \in Batches
  PROVE  LET r == Reading(b) IN
         /\ PoolRoom(b, r) \in Nat /\ PoolTake(b, r) \in Nat
         /\ PoolTake(b, r) <= rows[b]["backlog"]
         /\ PoolTake(b, r) <= Fits(b, r.free, PoolRows - r.allHold)
<1> DEFINE r == Reading(b)
<1>1. /\ r.cap \in Int /\ r.held[b] \in Int /\ r.holds[b] \in Int /\ r.allHold \in Int
      /\ r.free \in [Kinds -> Int]
  <2>1. r.cap \in Nat /\ r.held \in Numbers /\ r.holds \in Numbers /\ r.allHold \in Nat /\ r.free \in [Kinds -> Int]
    BY ReadingTyped
  <2> HIDE DEF r
  <2> QED BY <2>1 DEF Numbers
<1>w. \A x \in r.waiting : x \in Batches
  BY ReadingHas DEF Waiting, Peers
<1> HIDE DEF r
<1>2. rows[b]["backlog"] \in Nat /\ PoolRows \in Int /\ Concurrency[b] \in Nat /\ Pool \in [Kinds -> Int]
  <2>1. rows[b]["backlog"] \in Nat
    BY DEF TypeOK, RowStates
  <2>2. PoolRows \in Int
    BY WorkersTyped
  <2>3. Concurrency[b] \in Nat /\ Pool \in [Kinds -> Int]
    BY WindowAssumption
  <2> QED BY <2>1, <2>2, <2>3
<1> DEFINE own == Fits(b, Less(Pool, b, r.holds[b]), PoolRows - r.holds[b])
           some == {r.cap, rows[b]["backlog"], r.cap - r.held[b], own}
           all == some \cup (IF Concurrency[b] # 0 THEN {Concurrency[b] - r.held[b]} ELSE {})
<1>3. own \in Int
  <2>1. Less(Pool, b, r.holds[b]) \in [Kinds -> Int] /\ PoolRows - r.holds[b] \in Int
    BY <1>1, <1>2, LessTyped
  <2> QED BY <2>1, FitsWithin
<1>4. PoolRoom(b, r) = AtLeast0(Min(all))
  BY DEF PoolRoom
<1> HIDE DEF own
<1>5. IsFiniteSet(some)
  <2>1. IsFiniteSet({r.cap})
    BY FS_Singleton
  <2>2. IsFiniteSet({r.cap} \cup {rows[b]["backlog"]})
    BY <2>1, FS_AddElement
  <2>3. IsFiniteSet(({r.cap} \cup {rows[b]["backlog"]}) \cup {r.cap - r.held[b]})
    BY <2>2, FS_AddElement
  <2>4. IsFiniteSet((({r.cap} \cup {rows[b]["backlog"]}) \cup {r.cap - r.held[b]}) \cup {own})
    BY <2>3, FS_AddElement
  <2>5. some = (({r.cap} \cup {rows[b]["backlog"]}) \cup {r.cap - r.held[b]}) \cup {own}
    OBVIOUS
  <2> QED BY <2>4, <2>5
<1>6. some \subseteq Int /\ rows[b]["backlog"] \in some
  BY <1>1, <1>2, <1>3
<1> HIDE DEF some
<1>7. IsFiniteSet(all) /\ all \subseteq Int /\ rows[b]["backlog"] \in all
  <2>1. PICK c \in Int : c = Concurrency[b] - r.held[b]
    BY <1>1, <1>2
  <2>2. IsFiniteSet(some \cup {c})
    BY <1>5, FS_AddElement
  <2>3. all = some \/ all = some \cup {c}
    BY <2>1
  <2> QED BY <1>5, <1>6, <2>2, <2>3
<1> HIDE DEF all
<1>8. Min(all) \in Int /\ Min(all) <= rows[b]["backlog"]
  BY <1>7, MinOf
<1>9. PoolRoom(b, r) \in Nat /\ PoolRoom(b, r) <= rows[b]["backlog"]
  BY <1>2, <1>4, <1>8 DEF AtLeast0
<1> DEFINE fits == Fits(b, r.free, PoolRows - r.allHold)
<1>10. fits \in Nat
  <2>1. PoolRows - r.allHold \in Int
    BY <1>1, <1>2
  <2> QED BY <1>1, <2>1, FitsWithin
<1>11. PoolFreeTake(b, r) = Min({PoolRoom(b, r), fits})
  BY DEF PoolFreeTake
<1> HIDE DEF fits
<1>12. PoolFreeTake(b, r) \in Nat /\ PoolFreeTake(b, r) <= PoolRoom(b, r) /\ PoolFreeTake(b, r) <= fits
  <2>1. PICK x \in Int, y \in Int : x = PoolRoom(b, r) /\ y = fits
    BY <1>9, <1>10
  <2>2. Min({x, y}) \in {x, y} /\ Min({x, y}) <= x /\ Min({x, y}) <= y
    BY MinOfTwo, Zenon
  <2> QED BY <1>9, <1>10, <1>11, <2>1, <2>2
<1>13. PoolTake(b, r) \in Nat /\ PoolTake(b, r) <= PoolFreeTake(b, r)
  <2>1. CASE Blocked(b, r) = {}
    BY <1>12, <2>1 DEF PoolTake
  <2>2. CASE Blocked(b, r) # {}
    <3> DEFINE h == CHOOSE w \in Blocked(b, r) : \A x \in Blocked(b, r) \ {w} : Precedes(Rank(w), Rank(x))
    <3>1. Blocked(b, r) \in SUBSET Batches
      BY <1>w DEF Blocked
    <3>2. \E w \in Blocked(b, r) : \A x \in Blocked(b, r) \ {w} : Precedes(Rank(w), Rank(x))
      BY <2>2, <3>1, OneIsFirst
    <3>3. h \in Batches
      BY <3>1, <3>2
    <3>4. PoolTake(b, r) = Min({PoolFreeTake(b, r), Fits(b, Less(r.free, h, 1), PoolRows - r.allHold - 1)})
      BY <2>2 DEF PoolTake
    <3> HIDE DEF h
    <3>5. Less(r.free, h, 1) \in [Kinds -> Int] /\ PoolRows - r.allHold - 1 \in Int
      <4>1. 1 \in Int
        OBVIOUS
      <4>2. Less(r.free, h, 1) \in [Kinds -> Int]
        BY <1>1, <3>3, <4>1, LessTyped
      <4>3. PoolRows - r.allHold - 1 \in Int
        BY <1>1, <1>2
      <4> QED BY <4>2, <4>3
    <3>6. Fits(b, Less(r.free, h, 1), PoolRows - r.allHold - 1) \in Nat
      BY <3>5, FitsWithin
    <3>7. PICK x \in Int, y \in Int : x = PoolFreeTake(b, r) /\ y = Fits(b, Less(r.free, h, 1), PoolRows - r.allHold - 1)
      BY <1>12, <3>6
    <3>8. Min({x, y}) \in {x, y} /\ Min({x, y}) <= x /\ Min({x, y}) <= y
      BY MinOfTwo, Zenon
    <3> QED BY <1>12, <3>4, <3>6, <3>7, <3>8
  <2> QED BY <2>1, <2>2
<1> QED BY <1>2, <1>9, <1>10, <1>12, <1>13 DEF r, fits

(* What an admission takes.                                                *)
LEMMA TakeIs ==
  ASSUME TypeOK, NEW b \in Batches
  PROVE  Take(b, Reading(b)) \in Nat /\ Take(b, Reading(b)) <= rows[b]["backlog"]
<1>1. CASE measured
  BY <1>1, PoolTakeIs DEF Take
<1>2. CASE ~measured
  BY <1>2, WindowTakeIs DEF Take
<1> QED BY <1>1, <1>2

(* Of it, as much as fairness leaves; something, unless it defers at once. *)
LEMMA FairTakeIs ==
  ASSUME TypeOK, NEW b \in Batches
  PROVE  LET r == Reading(b) IN
         /\ FairTake(b, r) \in Nat /\ FairTake(b, r) <= Take(b, r)
         /\ Take(b, r) > 0 /\ ~Defers(b, r, 0) => FairTake(b, r) > 0
<1> DEFINE r == Reading(b)
           t == Take(b, r)
           S == {n \in 0..t : \A g \in 0..(n - 1) : ~Defers(b, r, g)}
<1>1. t \in Nat
  BY TakeIs
<1> HIDE DEF r, t
<1>2. S \in SUBSET (0..t) /\ 0 \in S
  BY <1>1
<1>3. t > 0 /\ ~Defers(b, r, 0) => 1 \in S
  BY <1>1
<1>4. FairTake(b, r) = Max(S)
  BY DEF FairTake, t
<1> HIDE DEF S
<1>5. Max(S) \in S /\ \A y \in S : y <= Max(S)
  <2>1. PICK n \in Nat : n = t
    BY <1>1
  <2>2. PICK T \in SUBSET (0..n) : T = S /\ T # {}
    BY <1>2, <2>1
  <2>3. Max(T) \in T /\ \A y \in T : y <= Max(T)
    BY <2>2, MaxOf
  <2> QED BY <2>2, <2>3
<1>6. /\ FairTake(b, r) \in Nat /\ FairTake(b, r) <= t
      /\ t > 0 /\ ~Defers(b, r, 0) => FairTake(b, r) > 0
  <2>0. Max(S) \in 0..t
    BY <1>2, <1>5, Zenon
  <2>1. PICK n \in Nat, m \in Nat : n = t /\ m = Max(S) /\ m <= n
    BY <1>1, <2>0
  <2>2. n > 0 /\ ~Defers(b, r, 0) => 1 <= m
    BY <1>3, <1>5, <2>1
  <2> QED BY <1>4, <2>1, <2>2
<1> QED BY <1>6 DEF r, t
-----------------------------------------------------------------------------
(* Types.                                                                  *)

(* Rows that move from one count to another.                               *)
LEMMA MovedIs ==
  ASSUME TypeOK, NEW b \in Batches, NEW from \in RowStates, NEW to \in RowStates, from # to,
         NEW n \in Nat, n <= rows[b][from], Moved(b, from, to, n)
  PROVE  /\ rows' \in [Batches -> [RowStates -> Nat]]
         /\ \A x \in Batches : x # b => rows'[x] = rows[x]
         /\ \A s \in RowStates : s # from /\ s # to => rows'[b][s] = rows[b][s]
         /\ rows'[b][to] = IF to \in {"backlog", "settled"} /\ b \in Long THEN rows[b][to] ELSE rows[b][to] + n
         /\ rows'[b][from] <= rows[b][from]
<1> DEFINE less == IF from = "backlog" /\ b \in Long THEN rows[b][from] ELSE rows[b][from] - n
           one == [rows EXCEPT ![b][from] = less]
           more == IF to \in {"backlog", "settled"} /\ b \in Long THEN rows[b][to] ELSE rows[b][to] + n
<1>1. rows \in [Batches -> [RowStates -> Nat]]
  BY DEF TypeOK
<1>2. less \in Nat /\ more \in Nat /\ less <= rows[b][from]
  BY <1>1
<1>3. one[b][to] = rows[b][to]
  BY <1>1
<1>4. rows' = [one EXCEPT ![b][to] = more]
  BY <1>1, <1>3 DEF Moved
<1> HIDE DEF less, more
<1>5. /\ one \in [Batches -> [RowStates -> Nat]]
      /\ \A x \in Batches : x # b => one[x] = rows[x]
      /\ \A s \in RowStates : s # from => one[b][s] = rows[b][s]
      /\ one[b][from] = less
  BY <1>1, <1>2
<1> HIDE DEF one
<1>6. /\ rows' \in [Batches -> [RowStates -> Nat]]
      /\ \A x \in Batches : x # b => rows'[x] = one[x]
      /\ \A s \in RowStates : s # to => rows'[b][s] = one[b][s]
      /\ rows'[b][to] = more
  BY <1>2, <1>4, <1>5
<1> QED BY <1>2, <1>5, <1>6 DEF more

(* A count that is raised or lowered by one.                               *)
LEMMA CountedOne ==
  ASSUME NEW S, NEW T, NEW f \in [S -> [T -> Nat]], NEW s \in S, NEW t \in T, NEW n \in Nat
  PROVE  [f EXCEPT ![s][t] = n] \in [S -> [T -> Nat]]
OBVIOUS

(* One more of the troubles.                                               *)
LEMMA TroubleCounted == TypeOK /\ Trouble => troubles' \in 0..MaxTroubles
BY WindowAssumption DEF TypeOK, Trouble

(* Initially every variable has its type.                                  *)
LEMMA TypeInit == Init => TypeOK
<1> SUFFICES ASSUME Init PROVE TypeOK
  OBVIOUS
<1>1. rows \in [Batches -> [RowStates -> Nat]]
  BY WindowAssumption DEF Init
<1>2. lost \in [Batches -> [0..MaxJobs -> Nat]]
  BY DEF Init
<1>3. capacity \in [Batches -> Nat]
  BY WorkersTyped, WindowAssumption DEF Init
<1>4. last \in [Batches -> 0..NumBatches] /\ view \in [Batches -> 0..MaxJobs]
  BY WindowAssumption DEF Init
<1>5. job \in 1..MaxJobs /\ troubles \in 0..MaxTroubles
  BY WindowAssumption DEF Init
<1>6. /\ admitting \subseteq Batches /\ alive \subseteq Batches /\ want \subseteq Batches /\ seen \subseteq Batches
      /\ learnt \in BOOLEAN /\ measured \in BOOLEAN
  BY DEF Init
<1> QED BY <1>1, <1>2, <1>3, <1>4, <1>5, <1>6 DEF TypeOK

(* A reservation takes rows of the backlog.                                *)
LEMMA ReserveTakes ==
  ASSUME TypeOK, NEW b \in Batches, Reserve(b)
  PROVE  LET n == FairTake(b, Reading(b)) IN
         /\ n \in Nat /\ n <= Take(b, Reading(b)) /\ n <= rows[b]["backlog"]
         /\ Moved(b, "backlog", "in_flight", n)
         /\ last' = IF n > 0 THEN Admitted(b) ELSE last
<1> DEFINE n == FairTake(b, Reading(b))
<1>1. n \in Nat /\ n <= Take(b, Reading(b))
  BY FairTakeIs
<1>2. Take(b, Reading(b)) \in Nat /\ Take(b, Reading(b)) <= rows[b]["backlog"] /\ rows[b]["backlog"] \in Nat
  <2>1. rows[b]["backlog"] \in Nat
    BY DEF TypeOK, RowStates
  <2> QED BY <2>1, TakeIs
<1>3. Moved(b, "backlog", "in_flight", n) /\ last' = (IF n > 0 THEN Admitted(b) ELSE last)
  BY DEF Reserve
<1> HIDE DEF n
<1>4. n <= rows[b]["backlog"]
  <2>1. PICK t \in Nat, k \in Nat : t = Take(b, Reading(b)) /\ k = rows[b]["backlog"]
    BY <1>2
  <2> QED BY <1>1, <1>2, <2>1
<1> QED BY <1>1, <1>3, <1>4 DEF n

(* Every action keeps the types.                                           *)
LEMMA TypeStep == TypeOK /\ [Next]_vars => TypeOK'
<1> SUFFICES ASSUME TypeOK, [Next]_vars PROVE TypeOK'
  OBVIOUS
<1> DEFINE RowsTyped == rows \in [Batches -> [RowStates -> Nat]]
<1>a. ASSUME RowsTyped', OnlyRows PROVE TypeOK'
  BY <1>a DEF OnlyRows, TypeOK
<1>b. ASSUME RowsTyped', Trouble,
             UNCHANGED <<lost, admitting, alive, capacity, want, last, job, view, seen, learnt, measured>>
      PROVE  TypeOK'
  BY <1>b, TroubleCounted DEF TypeOK
<1>c. ASSUME NEW b \in Batches, NEW from \in RowStates, NEW to \in RowStates, from # to,
             Has(b, from), Moved(b, from, to, 1)
      PROVE  RowsTyped'
  <2>1. rows[b][from] \in Nat /\ rows[b][from] > 0
    BY <1>c DEF TypeOK, Has
  <2>2. 1 \in Nat /\ 1 <= rows[b][from]
    BY <2>1
  <2> QED BY <1>c, <2>2, MovedIs
<1> HIDE DEF RowsTyped
<1>1. ASSUME NEW b \in Batches, Reserve(b) PROVE TypeOK'
  <2> DEFINE n == FairTake(b, Reading(b))
  <2>1. /\ n \in Nat /\ n <= rows[b]["backlog"] /\ Moved(b, "backlog", "in_flight", n)
        /\ last' = IF n > 0 THEN Admitted(b) ELSE last
    BY <1>1, ReserveTakes
  <2> HIDE DEF n
  <2>2. rows' \in [Batches -> [RowStates -> Nat]]
    <3>1. "backlog" \in RowStates /\ "in_flight" \in RowStates /\ "backlog" # "in_flight"
      BY DEF RowStates
    <3>2. PICK k \in Nat : k = n
      BY <2>1
    <3> QED BY <2>1, <3>1, <3>2, MovedIs
  <2>3. capacity' \in [Batches -> Nat]
    <3>1. capacity' = [capacity EXCEPT ![b] = CapNow(b)]
      BY <1>1 DEF Reserve
    <3> QED BY <3>1, CapTyped DEF TypeOK
  <2>4. last' \in [Batches -> 0..NumBatches]
    <3>1. ASSUME NEW x \in Batches PROVE Admitted(b)[x] \in 0..NumBatches
      <4>1. last[x] \in 0..NumBatches /\ last[b] \in 0..NumBatches /\ NumBatches \in Nat
        BY WindowAssumption DEF TypeOK
      <4>2. Admitted(b)[x] = IF x = b THEN NumBatches ELSE IF last[x] > last[b] THEN last[x] - 1 ELSE last[x]
        BY DEF Admitted
      <4> QED BY <4>1, <4>2
    <3>2. Admitted(b) \in [Batches -> 0..NumBatches]
      BY <3>1 DEF Admitted
    <3> QED BY <2>1, <3>2 DEF TypeOK
  <2>5. want' \subseteq Batches
    BY <1>1 DEF Reserve, TypeOK
  <2> QED BY <1>1, <2>2, <2>3, <2>4, <2>5 DEF Reserve, TypeOK
<1>2. ASSUME NEW b \in Batches, NEW s \in {"in_flight", "overdue"}, Settles(b, s) PROVE TypeOK'
  <2>1. Has(b, s) /\ Moved(b, s, "settled", 1) /\ OnlyRows
    BY <1>2 DEF Settles
  <2>2. s \in RowStates /\ "settled" \in RowStates /\ s # "settled"
    BY <1>2 DEF RowStates
  <2> QED BY <2>1, <2>2, <1>a, <1>c
<1>3. ASSUME NEW b \in Batches, NEW s \in {"in_flight", "overdue"}, Returns(b, s) PROVE TypeOK'
  <2>1. Has(b, s) /\ Moved(b, s, "backlog", 1) /\ OnlyRows
    BY <1>3 DEF Returns
  <2>2. s \in RowStates /\ "backlog" \in RowStates /\ s # "backlog"
    BY <1>3 DEF RowStates
  <2> QED BY <2>1, <2>2, <1>a, <1>c
<1>4. ASSUME NEW b \in Batches, NEW s \in {"in_flight", "overdue"}, NEW j \in 0..MaxJobs, Presume(b, s, j)
      PROVE  TypeOK'
  <2>1. s \in RowStates /\ rows[b][s] > 0
    BY <1>4 DEF RowStates, Presume, Has
  <2>2. rows' \in [Batches -> [RowStates -> Nat]]
    <3>1. rows[b][s] - 1 \in Nat
      BY <2>1 DEF TypeOK
    <3>2. rows' = [rows EXCEPT ![b][s] = rows[b][s] - 1]
      BY <1>4 DEF Presume
    <3> QED BY <2>1, <3>1, <3>2, CountedOne DEF TypeOK
  <2>3. lost' \in [Batches -> [0..MaxJobs -> Nat]]
    <3>1. lost[b][j] + 1 \in Nat
      <4>1. PICK n \in Nat : n = lost[b][j]
        BY DEF TypeOK
      <4> QED BY <4>1
    <3>2. lost' = [lost EXCEPT ![b][j] = lost[b][j] + 1]
      BY <1>4 DEF Presume
    <3> QED BY <3>1, <3>2, CountedOne DEF TypeOK
  <2> QED BY <1>4, <2>2, <2>3, TroubleCounted DEF Presume, TypeOK
<1>5. ASSUME NEW b \in Batches, Overdue(b) PROVE TypeOK'
  <2>1. Has(b, "in_flight") /\ Moved(b, "in_flight", "overdue", 1) /\ OnlyRows
    BY <1>5 DEF Overdue
  <2>2. "in_flight" \in RowStates /\ "overdue" \in RowStates /\ "in_flight" # "overdue"
    BY DEF RowStates
  <2> QED BY <2>1, <2>2, <1>a, <1>c
<1>6. ASSUME NEW b \in Batches, SubmitUnknown(b) PROVE TypeOK'
  <2>1. Has(b, "in_flight") /\ Moved(b, "in_flight", "submit_unknown", 1) /\ Trouble
    BY <1>6 DEF SubmitUnknown
  <2>2. "in_flight" \in RowStates /\ "submit_unknown" \in RowStates /\ "in_flight" # "submit_unknown"
    BY DEF RowStates
  <2>3. RowsTyped'
    BY <2>1, <2>2, <1>c
  <2> QED BY <1>6, <2>1, <2>3, <1>b DEF SubmitUnknown
<1>7. ASSUME NEW b \in Batches, Unheld(b) PROVE TypeOK'
  <2>1. Has(b, "submit_unknown") /\ Moved(b, "submit_unknown", "unheld", 1) /\ OnlyRows
    BY <1>7 DEF Unheld
  <2>2. "submit_unknown" \in RowStates /\ "unheld" \in RowStates /\ "submit_unknown" # "unheld"
    BY DEF RowStates
  <2> QED BY <2>1, <2>2, <1>a, <1>c
<1>8. ASSUME NEW b \in Batches, NEW s \in {"submit_unknown", "unheld", "elsewhere"},
             NEW to \in {"settled", "backlog"}, Reconciles(b, s, to)
      PROVE  TypeOK'
  <2>1. Has(b, s) /\ Moved(b, s, to, 1) /\ OnlyRows
    BY <1>8 DEF Reconciles
  <2>2. s \in RowStates /\ to \in RowStates /\ s # to
    BY <1>8 DEF RowStates
  <2> QED BY <2>1, <2>2, <1>a, <1>c
<1>9. ASSUME NEW b \in Batches, NEW j \in 0..MaxJobs, LostSettles(b, j) PROVE TypeOK'
  <2>1. lost' \in [Batches -> [0..MaxJobs -> Nat]]
    <3>1. lost[b][j] \in Nat /\ lost[b][j] > 0
      BY <1>9 DEF LostSettles, TypeOK
    <3>2. lost[b][j] - 1 \in Nat
      BY <3>1
    <3>3. lost' = [lost EXCEPT ![b][j] = lost[b][j] - 1]
      BY <1>9 DEF LostSettles
    <3> QED BY <3>2, <3>3, CountedOne DEF TypeOK
  <2>2. rows' \in [Batches -> [RowStates -> Nat]]
    <3>1. "settled" \in RowStates
      BY DEF RowStates
    <3> QED BY <1>9, <3>1 DEF LostSettles, TypeOK
  <2> QED BY <1>9, <2>1, <2>2 DEF LostSettles, TypeOK
<1>10. ASSUME NEW b \in Batches, NEW measure \in BOOLEAN, Learns(b, measure) PROVE TypeOK'
  <2>1. view' \in [Batches -> 0..MaxJobs]
    BY <1>10, WindowAssumption DEF Learns, TypeOK
  <2> QED BY <1>10, <2>1 DEF Learns, TypeOK
<1>11. ASSUME NEW b \in Batches, WantAges(b) PROVE TypeOK'
  BY <1>11 DEF WantAges, TypeOK
<1>12. ASSUME NEW b \in Batches, Pauses(b) PROVE TypeOK'
  BY <1>12, TroubleCounted DEF Pauses, TypeOK
<1>13. ASSUME NEW b \in Batches, Resumes(b) PROVE TypeOK'
  BY <1>13 DEF Resumes, TypeOK
<1>14. ASSUME NEW b \in Batches, Dies(b) PROVE TypeOK'
  <2>1. view' \in [Batches -> 0..MaxJobs]
    BY <1>14, WindowAssumption DEF Dies, TypeOK
  <2>2. troubles' \in 0..MaxTroubles
    BY <1>14, TroubleCounted DEF Dies
  <2> QED BY <1>14, <2>1, <2>2 DEF Dies, TypeOK
<1>15. ASSUME NEW b \in Batches, Adopted(b) PROVE TypeOK'
  BY <1>15 DEF Adopted, TypeOK
<1>16. ASSUME AnotherJob PROVE TypeOK'
  <2>1. job' \in 1..MaxJobs
    BY <1>16, WindowAssumption DEF AnotherJob, TypeOK
  <2>2. troubles' \in 0..MaxTroubles
    BY <1>16, TroubleCounted DEF AnotherJob
  <2> QED BY <1>16, <2>1, <2>2 DEF AnotherJob, TypeOK
<1>17. ASSUME UNCHANGED vars PROVE TypeOK'
  BY <1>17 DEF vars, TypeOK
<1> QED BY <1>1, <1>2, <1>3, <1>4, <1>5, <1>6, <1>7, <1>8, <1>9, <1>10, <1>11, <1>12, <1>13, <1>14, <1>15, <1>16,
           <1>17 DEF Next, RowsMove, ServersMove

(* Every variable has its type, in every reachable state.                  *)
THEOREM TypeCorrect == Spec => []TypeOK
<1> QED BY TypeInit, TypeStep, PTL DEF Spec
-----------------------------------------------------------------------------
(* No reservation overfills the block.                                     *)

(* Only a reservation raises the rows in flight.                           *)
LEMMA OnlyReserveSends ==
  ASSUME TypeOK, [Next]_vars, NEW c \in Batches, rows'[c]["in_flight"] > rows[c]["in_flight"]
  PROVE  Reserve(c)
<1>0. /\ rows \in [Batches -> [RowStates -> Nat]]
      /\ "in_flight" \in RowStates /\ "backlog" \in RowStates /\ "settled" \in RowStates
      /\ "overdue" \in RowStates /\ "submit_unknown" \in RowStates /\ "unheld" \in RowStates
      /\ "elsewhere" \in RowStates
  BY DEF TypeOK, RowStates
<1>a. ASSUME NEW b \in Batches, NEW from \in RowStates, NEW to \in RowStates, from # to, to # "in_flight",
             Has(b, from), Moved(b, from, to, 1)
      PROVE  FALSE
  <2>1. rows[b][from] \in Nat /\ rows[b][from] > 0
    BY <1>0, <1>a DEF Has
  <2>2. 1 \in Nat /\ 1 <= rows[b][from]
    BY <2>1
  <2>3. /\ \A x \in Batches : x # b => rows'[x] = rows[x]
        /\ \A s \in RowStates : s # from /\ s # to => rows'[b][s] = rows[b][s]
        /\ rows'[b][from] <= rows[b][from]
        /\ rows' \in [Batches -> [RowStates -> Nat]]
    BY <1>a, <2>2, MovedIs
  <2>4. rows'[c]["in_flight"] <= rows[c]["in_flight"]
    BY <1>0, <1>a, <2>3
  <2> QED BY <1>0, <2>3, <2>4
<1>1. ASSUME NEW b \in Batches, Reserve(b), b # c PROVE FALSE
  <2>1. PICK n \in Nat : n <= rows[b]["backlog"] /\ Moved(b, "backlog", "in_flight", n)
    BY <1>1, ReserveTakes
  <2>2. rows'[c] = rows[c]
    BY <1>0, <1>1, <2>1, MovedIs
  <2> QED BY <1>0, <2>2
<1>2. ASSUME NEW b \in Batches, NEW s \in {"in_flight", "overdue"}, Settles(b, s) PROVE FALSE
  BY <1>0, <1>a, <1>2 DEF Settles
<1>3. ASSUME NEW b \in Batches, NEW s \in {"in_flight", "overdue"}, Returns(b, s) PROVE FALSE
  BY <1>0, <1>a, <1>3 DEF Returns
<1>4. ASSUME NEW b \in Batches, NEW s \in {"in_flight", "overdue"}, NEW j \in 0..MaxJobs, Presume(b, s, j)
      PROVE  FALSE
  <2>1. rows' = [rows EXCEPT ![b][s] = rows[b][s] - 1] /\ s \in RowStates
    BY <1>0, <1>4 DEF Presume
  <2>2. rows'[c]["in_flight"] <= rows[c]["in_flight"]
    <3>1. CASE b = c /\ s = "in_flight"
      BY <1>0, <2>1, <3>1
    <3>2. CASE b # c \/ s # "in_flight"
      BY <1>0, <2>1, <3>2
    <3> QED BY <3>1, <3>2
  <2>3. rows[c]["in_flight"] \in Int /\ rows'[c]["in_flight"] \in Int
    BY <1>0, <2>1
  <2> QED BY <2>2, <2>3
<1>5. ASSUME NEW b \in Batches, Overdue(b) PROVE FALSE
  BY <1>0, <1>a, <1>5 DEF Overdue
<1>6. ASSUME NEW b \in Batches, SubmitUnknown(b) PROVE FALSE
  BY <1>0, <1>a, <1>6 DEF SubmitUnknown
<1>7. ASSUME NEW b \in Batches, Unheld(b) PROVE FALSE
  BY <1>0, <1>a, <1>7 DEF Unheld
<1>8. ASSUME NEW b \in Batches, NEW s \in {"submit_unknown", "unheld", "elsewhere"},
             NEW to \in {"settled", "backlog"}, Reconciles(b, s, to)
      PROVE  FALSE
  <2>1. s \in RowStates /\ to \in RowStates /\ s # to /\ to # "in_flight"
    BY <1>0
  <2>2. Has(b, s) /\ Moved(b, s, to, 1)
    BY <1>8 DEF Reconciles
  <2> QED BY <1>a, <2>1, <2>2
<1>9. ASSUME NEW b \in Batches, NEW j \in 0..MaxJobs, LostSettles(b, j) PROVE FALSE
  <2>1. rows' = rows \/ rows' = [rows EXCEPT ![b]["settled"] = rows[b]["settled"] + 1]
    BY <1>9 DEF LostSettles
  <2>2. rows'[c]["in_flight"] = rows[c]["in_flight"]
    BY <1>0, <2>1
  <2> QED BY <1>0, <2>2
<1>10. ASSUME UNCHANGED rows PROVE FALSE
  BY <1>0, <1>10
<1>11. ASSUME ServersMove \/ UNCHANGED vars PROVE FALSE
  BY <1>10, <1>11
     DEF ServersMove, Learns, WantAges, Pauses, Resumes, Dies, Adopted, AnotherJob, vars
<1> QED BY <1>1, <1>2, <1>3, <1>4, <1>5, <1>6, <1>7, <1>8, <1>9, <1>11 DEF Next, RowsMove

(* A sum, against another that has as much of every other batch.           *)
LEMMA AddedAt ==
  ASSUME NEW g \in Numbers, NEW h \in Numbers, NEW b \in Batches,
         \A c \in Batches \ {b} : g[c] <= h[c]
  PROVE  /\ SumOf(g, Batches) \in Nat /\ SumOf(h, Batches) \in Nat
         /\ SumOf(g, Batches) <= g[b] + (SumOf(h, Batches) - h[b])
<1> DEFINE R == Batches \ {b}
<1>1. (\A c \in Batches : g[c] \in Nat) /\ (\A c \in Batches : h[c] \in Nat)
  BY DEF Numbers
<1>2. IsFiniteSet(Batches) /\ IsFiniteSet(R) /\ R \subseteq Batches
  BY BatchesFinite, FS_Subset
<1>3. SumOf(g, Batches) = g[b] + SumOf(g, R)
  BY <1>1, <1>2, SumSplits
<1>4. SumOf(h, Batches) = h[b] + SumOf(h, R)
  BY <1>1, <1>2, SumSplits
<1>5. SumOf(g, R) \in Nat /\ SumOf(h, R) \in Nat
  BY <1>1, <1>2, SumType
<1>6. SumOf(g, R) <= SumOf(h, R)
  <2> HIDE DEF R
  <2>1. R \in SUBSET R
    OBVIOUS
  <2>2. \A c \in R : g[c] \in Nat /\ h[c] \in Nat /\ g[c] <= h[c]
    BY <1>1 DEF R
  <2> QED BY <1>2, <2>1, <2>2, SumGrows
<1> HIDE DEF R
<1>7. g[b] \in Nat /\ h[b] \in Nat
  BY <1>1
<1> QED BY <1>3, <1>4, <1>5, <1>6, <1>7
(* A product of naturals grows with either.                                *)
LEMMA TimesGrows ==
  ASSUME NEW k \in Nat, NEW a \in Nat, NEW c \in Nat, a <= c
  PROVE  k * a \in Nat /\ k * c \in Nat /\ k * a <= k * c
<1>1. PICK d \in Nat : c = a + d
  <2>1. c - a \in Nat /\ c = a + (c - a)
    OBVIOUS
  <2> QED BY <2>1
<1>2. k * c = k * a + k * d /\ k * a \in Nat /\ k * d \in Nat
  BY <1>1
<1> QED BY <1>2

(* And spreads over a sum.                                                 *)
LEMMA TimesSpreads ==
  ASSUME NEW k \in Nat, NEW a \in Nat, NEW n \in Nat
  PROVE  k * (a + n) = k * a + n * k /\ k * (a + n) \in Nat /\ n * k \in Nat /\ k * a \in Nat
OBVIOUS

(* What a reservation leaves at the block.                                 *)
LEMMA ReservePuts ==
  ASSUME TypeOK, NEW b \in Batches, Reserve(b)
  PROVE  LET n == FairTake(b, Reading(b)) IN
         /\ n \in Nat /\ n <= Take(b, Reading(b)) /\ n <= rows[b]["backlog"]
         /\ rows'[b]["in_flight"] = rows[b]["in_flight"] + n
         /\ AtBlock(b)' = AtBlock(b) + n
         /\ \A c \in Batches : c # b => AtBlock(c)' = AtBlock(c)
<1> DEFINE n == FairTake(b, Reading(b))
<1>1. n \in Nat /\ n <= Take(b, Reading(b)) /\ n <= rows[b]["backlog"] /\ Moved(b, "backlog", "in_flight", n)
  BY ReserveTakes
<1>2. /\ rows \in [Batches -> [RowStates -> Nat]]
      /\ "in_flight" \in RowStates /\ "backlog" \in RowStates /\ "submit_unknown" \in RowStates
  BY DEF TypeOK, RowStates
<1> HIDE DEF n
<1>3. /\ \A x \in Batches : x # b => rows'[x] = rows[x]
      /\ rows'[b]["submit_unknown"] = rows[b]["submit_unknown"]
      /\ rows'[b]["in_flight"] = rows[b]["in_flight"] + n
  BY <1>1, <1>2, MovedIs
<1>4. rows[b]["in_flight"] \in Nat /\ rows[b]["submit_unknown"] \in Nat
  BY <1>2
<1>5. AtBlock(b)' = AtBlock(b) + n
  BY <1>1, <1>3, <1>4 DEF AtBlock
<1>6. \A c \in Batches : c # b => AtBlock(c)' = AtBlock(c)
  BY <1>3 DEF AtBlock
<1> QED BY <1>1, <1>3, <1>5, <1>6 DEF n

(* What it takes, against what it read.                                    *)
LEMMA TakesWhatIsThere ==
  ASSUME TypeOK, NEW b \in Batches, Take(b, Reading(b)) > 0
  PROVE  LET r == Reading(b)
             n == Take(b, r) IN
         /\ learnt => AtBlock(b) + n + (r.allHold - r.holds[b]) <= WindowFor(Workers)
         /\ measured => \A x \in Kinds : Need[b][x] > 0 => n * Need[b][x] <= r.free[x]
<1> DEFINE r == Reading(b)
           n == Take(b, r)
<1>1. /\ r.cap \in Nat /\ r.held[b] \in Nat /\ r.holds[b] \in Nat /\ r.allHold \in Nat /\ r.free \in [Kinds -> Int]
      /\ r.holds[b] <= r.held[b] /\ r.holds[b] = Holds(b, b)
  <2>1. r.holds[b] = Holds(b, b)
    BY ReadingHas
  <2>2. /\ r.cap \in Nat /\ r.held \in Numbers /\ r.holds \in Numbers
        /\ r.allHold \in Nat /\ r.free \in [Kinds -> Int]
        /\ \A x \in Batches : r.holds[x] <= r.held[x]
    BY ReadingTyped
  <2> HIDE DEF r
  <2> QED BY <2>1, <2>2 DEF Numbers
<1>2. AtBlock(b) \in Nat /\ AtBlock(b) <= r.holds[b]
  BY <1>1, CountsTyped
<1>3. n \in Nat /\ n > 0
  BY TakeIs
<1>4. CASE ~measured
  <2>1. n = WindowTake(b, r)
    BY <1>4 DEF Take
  <2>2. n <= Window(b, r) - r.held[b] - (r.allHold - r.holds[b])
    BY <1>3, <2>1, WindowTakeIs
  <2>3. /\ Window(b, r) \in Nat
        /\ learnt => Window(b, r) <= WindowFor(Workers)
    BY <1>1, WindowIs
  <2>4. WindowFor(Workers) \in Nat
    BY WorkersTyped, WindowAssumption
  <2> HIDE DEF n, r
  <2>5. learnt => AtBlock(b) + n + (r.allHold - r.holds[b]) <= WindowFor(Workers)
    BY <1>1, <1>2, <1>3, <2>2, <2>3, <2>4
  <2> QED BY <1>4, <2>5 DEF n, r
<1>5. CASE measured
  <2>1. n <= Fits(b, r.free, PoolRows - r.allHold)
    BY <1>5, PoolTakeIs DEF Take
  <2>2. PoolRows \in Nat /\ PoolRows <= WindowFor(Workers) /\ WindowFor(Workers) \in Nat
    BY WorkersTyped, WindowAssumption
  <2> HIDE DEF n, r
  <2>3. PICK k \in Int : k = PoolRows - r.allHold
    BY <1>1, <2>2
  <2>4. /\ Fits(b, r.free, k) \in Nat
        /\ Fits(b, r.free, k) > 0 =>
             /\ Fits(b, r.free, k) <= k
             /\ \A x \in Kinds : Need[b][x] > 0 => Fits(b, r.free, k) <= r.free[x] \div Need[b][x]
    BY <1>1, FitsWithin
  <2>5. PICK f \in Nat : f = Fits(b, r.free, k)
    BY <2>4
  <2>6. n <= f /\ f <= k /\ \A x \in Kinds : Need[b][x] > 0 => f <= r.free[x] \div Need[b][x]
    BY <1>3, <2>1, <2>3, <2>4, <2>5
  <2>7. AtBlock(b) + n + (r.allHold - r.holds[b]) <= WindowFor(Workers)
    BY <1>1, <1>2, <1>3, <2>2, <2>3, <2>6
  <2>8. ASSUME NEW x \in Kinds, Need[b][x] > 0 PROVE n * Need[b][x] <= r.free[x]
    <3>1. r.free[x] \in Int /\ Need[b][x] \in Nat
      BY <1>1, WindowAssumption
    <3>2. PICK a \in Int, d \in Nat : a = r.free[x] /\ d = Need[b][x]
      BY <3>1
    <3>3. n <= a \div d
      <4>1. a \div d \in Int
        BY <2>8, <3>2, DivideTyped
      <4>2. f <= a \div d
        BY <2>6, <2>8, <3>2
      <4> QED BY <1>3, <2>6, <4>1, <4>2
    <3>4. n * d <= a
      BY <1>3, <2>8, <3>2, <3>3, Divides
    <3> QED BY <3>2, <3>4
  <2> QED BY <2>7, <2>8 DEF n, r
<1> QED BY <1>4, <1>5
(* A reservation that takes a row fits it.                                 *)
LEMMA ReserveFits ==
  ASSUME TypeOK, NEW b \in Batches, Reserve(b), rows'[b]["in_flight"] > rows[b]["in_flight"]
  PROVE  FitsBlock(b)'
<1> DEFINE r == Reading(b)
           n == FairTake(b, r)
           t == Take(b, r)
<1>1. /\ n \in Nat /\ n <= t /\ rows'[b]["in_flight"] = rows[b]["in_flight"] + n
      /\ AtBlock(b)' = AtBlock(b) + n
      /\ \A c \in Batches : c # b => AtBlock(c)' = AtBlock(c)
  BY ReservePuts
<1>2. t \in Nat
  BY TakeIs
<1>3. rows[b]["in_flight"] \in Nat
  BY DEF TypeOK, RowStates
<1> HIDE DEF n
<1>4. n > 0
  BY <1>1, <1>3
<1>5. t > 0
  <2> HIDE DEF t
  <2> QED BY <1>1, <1>2, <1>4
<1>6. /\ learnt => AtBlock(b) + t + (r.allHold - r.holds[b]) <= WindowFor(Workers)
      /\ measured => \A x \in Kinds : Need[b][x] > 0 => t * Need[b][x] <= r.free[x]
  BY <1>5, TakesWhatIsThere
<1>7. /\ r.holds \in Numbers /\ r.allHold = SumOf(r.holds, Batches)
      /\ r.free = [x \in Kinds |-> Pool[x] - Sum([y \in Batches |-> Need[y][x] * r.holds[y]])]
      /\ \A x \in Batches : r.holds[x] = Holds(b, x)
  BY ReadingTyped, ReadingHas, SumIs
<1> HIDE DEF t, r
<1>8. PICK h \in Numbers : h = r.holds
  BY <1>7
<1>9. \A c \in Batches : AtBlock(c) \in Nat /\ AtBlock(c) <= h[c]
  BY <1>7, <1>8, CountsTyped
<1>10. \A c \in Batches : AtBlock(c)' \in Nat
  BY <1>1, <1>9
<1>11. learnt' = learnt /\ measured' = measured
  BY DEF Reserve
<1> DEFINE g == [c \in Batches |-> AtBlock(c)']
<1>12. learnt => SumOf(g, Batches) <= WindowFor(Workers)
  <2> SUFFICES ASSUME learnt PROVE SumOf(g, Batches) <= WindowFor(Workers)
    OBVIOUS
  <2>1. PICK f \in Numbers : f = g
    BY <1>10 DEF Numbers
  <2>2. (\A c \in Batches \ {b} : f[c] <= h[c]) /\ f[b] = AtBlock(b) + n
    BY <1>1, <1>9, <2>1
  <2> HIDE DEF g
  <2>3. SumOf(f, Batches) \in Nat /\ SumOf(h, Batches) \in Nat
        /\ SumOf(f, Batches) <= f[b] + (SumOf(h, Batches) - h[b])
    BY <2>2, AddedAt
  <2>4. AtBlock(b) + t + (SumOf(h, Batches) - h[b]) <= WindowFor(Workers)
    BY <1>6, <1>7, <1>8
  <2>5. h[b] \in Nat /\ AtBlock(b) \in Nat /\ WindowFor(Workers) \in Nat
    BY <1>9, WorkersTyped, WindowAssumption DEF Numbers
  <2>6. SumOf(f, Batches) <= WindowFor(Workers)
    BY <1>1, <1>2, <2>2, <2>3, <2>4, <2>5
  <2> QED BY <2>1, <2>6
<1>13. ASSUME measured, NEW x \in Kinds, Need[b][x] > 0
       PROVE  SumOf([c \in Batches |-> Need[c][x] * AtBlock(c)'], Batches) <= Pool[x]
  <2>1. \A c \in Batches : Need[c][x] \in Nat
    BY WindowAssumption
  <2>2. ASSUME NEW c \in Batches, c # b PROVE Need[c][x] * AtBlock(c)' <= Need[c][x] * h[c]
    <3>1. PICK k \in Nat, u \in Nat, v \in Nat : k = Need[c][x] /\ u = AtBlock(c) /\ v = h[c]
      BY <1>9, <2>1 DEF Numbers
    <3>2. u <= v
      BY <1>9, <3>1
    <3>3. k * u <= k * v
      BY <3>2, TimesGrows
    <3> QED BY <1>1, <2>2, <3>1, <3>3
  <2>3. /\ Need[b][x] * AtBlock(b)' \in Nat /\ n * Need[b][x] \in Nat /\ Need[b][x] * h[b] \in Nat
        /\ Need[b][x] * AtBlock(b)' <= Need[b][x] * h[b] + n * Need[b][x]
        /\ n * Need[b][x] <= t * Need[b][x] /\ t * Need[b][x] \in Nat
    <3>1. PICK k \in Nat, u \in Nat, v \in Nat, m \in Nat, w \in Nat :
            k = Need[b][x] /\ u = AtBlock(b) /\ v = h[b] /\ m = n /\ w = t
      BY <1>1, <1>2, <1>9, <2>1 DEF Numbers
    <3>2. u <= v /\ m <= w
      BY <1>1, <1>9, <3>1
    <3>3. k * u <= k * v /\ k * v \in Nat
      BY <3>2, TimesGrows
    <3>4. k * m <= k * w /\ k * w \in Nat
      BY <3>2, TimesGrows
    <3>5. k * m = m * k /\ k * w = w * k
      OBVIOUS
    <3>6. k * (u + m) = k * u + m * k /\ k * (u + m) \in Nat /\ m * k \in Nat /\ k * u \in Nat
      BY TimesSpreads
    <3>7. k * (u + m) <= k * v + m * k
      BY <3>3, <3>6
    <3>8. AtBlock(b)' = u + m
      BY <1>1, <3>1
    <3> QED BY <3>1, <3>3, <3>4, <3>5, <3>6, <3>7, <3>8
  <2> DEFINE gx == [c \in Batches |-> Need[c][x] * AtBlock(c)']
             hx == [c \in Batches |-> Need[c][x] * h[c]]
  <2>4. gx \in Numbers
    <3>1. ASSUME NEW c \in Batches PROVE Need[c][x] * AtBlock(c)' \in Nat
      BY <1>10, <2>1
    <3> QED BY <3>1 DEF Numbers
  <2>5. hx \in Numbers
    <3>1. ASSUME NEW c \in Batches PROVE Need[c][x] * h[c] \in Nat
      BY <2>1 DEF Numbers
    <3> QED BY <3>1 DEF Numbers
  <2>6. PICK f \in Numbers, i \in Numbers : f = gx /\ i = hx
    BY <2>4, <2>5
  <2>7. (\A c \in Batches \ {b} : f[c] <= i[c]) /\ f[b] = Need[b][x] * AtBlock(b)' /\ i[b] = Need[b][x] * h[b]
    BY <2>2, <2>6
  <2>8. r.free[x] = Pool[x] - SumOf(i, Batches)
    <3>1. r.free[x] = Pool[x] - Sum(hx)
      BY <1>7, <1>8
    <3> QED BY <2>6, <3>1, SumIs
  <2>9. t * Need[b][x] <= r.free[x]
    BY <1>6, <1>13
  <2> HIDE DEF gx, hx
  <2>10. SumOf(f, Batches) \in Nat /\ SumOf(i, Batches) \in Nat
         /\ SumOf(f, Batches) <= f[b] + (SumOf(i, Batches) - i[b])
    BY <2>7, AddedAt
  <2>11. PICK p \in Nat, q \in Nat, o \in Nat, d \in Nat, e \in Nat :
           /\ p = Need[b][x] * AtBlock(b)' /\ q = n * Need[b][x] /\ o = Need[b][x] * h[b]
           /\ d = t * Need[b][x] /\ e = Pool[x]
    BY <2>3, WindowAssumption
  <2>12. SumOf(f, Batches) <= e
    BY <2>3, <2>7, <2>8, <2>9, <2>10, <2>11
  <2> QED BY <2>6, <2>11, <2>12 DEF gx
<1>14. /\ learnt' => Sum([c \in Batches |-> AtBlock(c)']) <= WindowFor(Workers)
       /\ measured' => \A x \in Kinds : Need[b][x] > 0 =>
            Sum([c \in Batches |-> Need[c][x] * AtBlock(c)']) <= Pool[x]
  BY <1>11, <1>12, <1>13, SumIs
<1> QED BY <1>14 DEF FitsBlock

(* No reservation, of whichever batch and server, puts more at the block   *)
(* than its workers and the resources that its rows take.                  *)
THEOREM BlockIsKept == Spec => BlockKept
<1>1. ASSUME TypeOK, [Next]_vars
      PROVE  \A b \in Batches : rows'[b]["in_flight"] > rows[b]["in_flight"] => FitsBlock(b)'
  BY <1>1, OnlyReserveSends, ReserveFits
<1>2. TypeOK /\ [Next]_vars
        => [\A b \in Batches : rows'[b]["in_flight"] > rows[b]["in_flight"] => FitsBlock(b)']_vars
  BY <1>1
<1> QED BY <1>2, TypeCorrect, PTL DEF Spec, BlockKept
-----------------------------------------------------------------------------
(* No free slot is left to a waiter that does not take it.                 *)

(* No waiter that is out of room holds a row's room against the others.    *)
NoneBlocked == \A b \in Batches : Asks(b) => Blocked(b, Reading(b)) = {}

(* What rows that hold so many of the block's workers leave of its pool.   *)
FreeOf(holds) == [x \in Kinds |-> Pool[x] - Sum([y \in Batches |-> Need[y][x] * holds[y]])]

(* Servers that know the same block in front read the same of it.          *)
LEMMA SameReading ==
  ASSUME TypeOK, NEW v \in Batches, NEW w \in Batches, view[v] = view[w]
  PROVE  /\ Reading(v).held = Reading(w).held /\ Reading(v).holds = Reading(w).holds
         /\ Reading(v).allHold = Reading(w).allHold /\ Reading(v).free = Reading(w).free
<1>1. \A x \in Batches : Holds(v, x) = Holds(w, x)
  BY DEF Holds
<1>2. [x \in Batches |-> Holds(v, x)] = [x \in Batches |-> Holds(w, x)]
  BY <1>1
<1>3. Reading(v).holds = Reading(w).holds
  <2>1. Reading(v).holds = [x \in Batches |-> Holds(v, x)] /\ Reading(w).holds = [x \in Batches |-> Holds(w, x)]
    BY ReadingHas, Zenon
  <2> QED BY <1>2, <2>1, Zenon
<1>4. Reading(v).allHold = Reading(w).allHold
  BY <1>3, ReadingHas
<1>5. Reading(v).free = Reading(w).free
  <2>1. Reading(v).free = FreeOf(Reading(v).holds) /\ Reading(w).free = FreeOf(Reading(w).holds)
    BY ReadingHas, Zenon DEF FreeOf
  <2> QED BY <1>3, <2>1
<1>6. Reading(v).held = Reading(w).held
  <2>1. Reading(v).held = [x \in Batches |-> HeldBy(x)] /\ Reading(w).held = [x \in Batches |-> HeldBy(x)]
    BY ReadingHas, Zenon
  <2> QED BY <2>1, Zenon
<1> QED BY <1>3, <1>4, <1>5, <1>6

(* And where each put its capacity on record, they have the same window.   *)
LEMMA SameWindow ==
  ASSUME TypeOK, NEW v \in Batches, NEW w \in Batches, view[v] = view[w],
         Asks(v), Asks(w), capacity[v] = CapNow(v), capacity[w] = CapNow(w)
  PROVE  Window(v, Reading(v)) = Window(w, Reading(w))
<1> DEFINE Holders == {y \in Batches : Reading(w).holds[y] > 0}
           Own == (admitting \cap alive) \cup Holders
           All == {capacity[x] : x \in Own} \cup (IF learnt THEN {WindowFor(Workers)} ELSE {})
<1>1. ASSUME NEW b \in Batches, b \in {v, w} PROVE Caps(b, Reading(b)) = All
  <2>1. Reading(b).cap = capacity[b] /\ Reading(b).holds = Reading(w).holds /\ b \in admitting \cap alive
    <3>1. view[b] = view[w] /\ capacity[b] = CapNow(b) /\ Asks(b) /\ b \in Batches
      BY <1>1
    <3> QED BY <3>1, ReadingHas, SameReading DEF Asks
  <2>2. {b} \cup Peers(b) \cup {y \in Batches \ {b} : Reading(b).holds[y] > 0} = Own
    <3>1. Peers(b) = (admitting \cap alive) \ {b}
      BY DEF Peers, TypeOK
    <3>2. {y \in Batches \ {b} : Reading(b).holds[y] > 0} = Holders \ {b}
      BY <2>1
    <3> HIDE DEF Holders
    <3> QED BY <2>1, <3>1, <3>2
  <2> HIDE DEF Own
  <2>3. {capacity[x] : x \in Own}
          = {capacity[b]} \cup {capacity[x] : x \in Peers(b) \cup {y \in Batches \ {b} : Reading(b).holds[y] > 0}}
    BY <2>2
  <2> QED BY <2>1, <2>3 DEF Caps
<1> HIDE DEF All
<1>2. Caps(v, Reading(v)) = Caps(w, Reading(w))
  BY <1>1
<1>3. Reading(v).cap \in Nat /\ Reading(w).cap \in Nat
  BY ReadingTyped
<1>4. Window(v, Reading(v)) = Min(Caps(v, Reading(v))) /\ Window(w, Reading(w)) = Min(Caps(w, Reading(w)))
  BY <1>3, WindowIs
<1> QED BY <1>2, <1>4

(* Before the measure, a waiter a batch defers to can take the slot.       *)
LEMMA WaiterTakesWindow ==
  ASSUME TypeOK, ~measured, NEW v \in Batches, NEW w \in Batches, view[v] = view[w],
         Asks(v), Asks(w), capacity[v] = CapNow(v), capacity[w] = CapNow(w),
         WindowRoomAfter(w, Reading(w), v, 0) > 0
  PROVE  Take(v, Reading(v)) > 0
<1> DEFINE r == Reading(v)
<1>1. /\ r.held[v] = Reading(w).held[v] /\ r.holds[v] = Reading(w).holds[v] /\ r.allHold = Reading(w).allHold
      /\ Window(v, r) = Window(w, Reading(w))
  BY SameReading, SameWindow
<1>2. /\ r.cap \in Nat /\ r.held[v] \in Nat /\ r.holds[v] \in Nat /\ r.allHold \in Nat
      /\ r.holds[v] <= r.allHold
  <2>1. /\ r.cap \in Nat /\ r.held \in Numbers /\ r.holds \in Numbers /\ r.allHold \in Nat
        /\ \A x \in Batches : r.holds[x] <= r.allHold
    BY ReadingTyped
  <2> HIDE DEF r
  <2> QED BY <2>1 DEF Numbers
<1>3. Window(v, r) \in Nat /\ Window(v, r) <= r.cap
  <2>1. r.cap \in Caps(v, r)
    BY DEF Caps
  <2>2. Window(v, r) \in Nat /\ \A c \in Caps(v, r) : Window(v, r) <= c
    BY <1>2, WindowIs
  <2> QED BY <2>1, <2>2
<1>4. Window(v, r) - r.held[v] - (r.allHold - r.holds[v]) - 0 > 0
  BY <1>1 DEF WindowRoomAfter
<1>5. rows[v]["backlog"] > 0
  BY DEF Asks
<1>6. /\ r.cap > 0 /\ Window(v, r) - r.held[v] > 0
      /\ Window(v, r) - r.held[v] - (r.allHold - r.holds[v]) > 0
  <2> HIDE DEF r
  <2> QED BY <1>2, <1>3, <1>4
<1>7. WindowTake(v, r) > 0
  BY <1>5, <1>6, WindowTakeIs
<1> QED BY <1>7 DEF Take

(* A row fits where there is room for one, in every resource it takes.     *)
LEMMA FitsOne ==
  ASSUME NEW b \in Batches, NEW free \in [Kinds -> Int], NEW freeRows \in Int
  PROVE  Fits(b, free, freeRows) > 0 <=>
           freeRows > 0 /\ \A x \in Kinds : Need[b][x] > 0 => Need[b][x] <= free[x]
<1>0. ASSUME NEW x \in Kinds, Need[b][x] > 0
      PROVE  (1 <= free[x] \div Need[b][x] <=> Need[b][x] <= free[x]) /\ free[x] \div Need[b][x] \in Int
  <2>1. PICK a \in Int, d \in Nat : a = free[x] /\ d = Need[b][x] /\ d > 0
    BY <1>0, WindowAssumption
  <2>2. a \div d \in Int
    BY <2>1, DivideTyped
  <2>3. 1 <= a \div d => d <= a
    <3>1. 1 \in Nat /\ 1 * d = d
      OBVIOUS
    <3> QED BY <2>1, <3>1, Divides
  <2>4. d <= a => 1 <= a \div d
    BY <2>1, SMTT(30)
  <2> QED BY <2>1, <2>2, <2>3, <2>4
<1>1. ASSUME Fits(b, free, freeRows) > 0
      PROVE  freeRows > 0 /\ \A x \in Kinds : Need[b][x] > 0 => Need[b][x] <= free[x]
  <2>1. PICK f \in Nat : f = Fits(b, free, freeRows)
    BY FitsWithin
  <2>2. f > 0 /\ f <= freeRows /\ \A x \in Kinds : Need[b][x] > 0 => f <= free[x] \div Need[b][x]
    BY <1>1, <2>1, FitsWithin
  <2>3. ASSUME NEW x \in Kinds, Need[b][x] > 0 PROVE Need[b][x] <= free[x]
    BY <1>0, <2>2, <2>3
  <2> QED BY <2>2, <2>3
<1>2. ASSUME freeRows > 0, \A x \in Kinds : Need[b][x] > 0 => Need[b][x] <= free[x]
      PROVE  Fits(b, free, freeRows) > 0
  <2> DEFINE K == {k \in Kinds : Need[b][k] > 0}
             f == [x \in K |-> free[x] \div Need[b][x]]
             S == {freeRows} \cup {free[x] \div Need[b][x] : x \in K}
  <2>1. \A y \in S : y \in Int /\ y > 0
    BY <1>0, <1>2
  <2>2. IsFiniteSet(K)
    BY KindsFinite, FS_Subset
  <2>3. {f[x] : x \in K} = {free[x] \div Need[b][x] : x \in K}
    OBVIOUS
  <2>4. IsFiniteSet({f[x] : x \in K})
    <3> HIDE DEF f, K
    <3> QED BY <2>2, ImageFinite
  <2>5. IsFiniteSet(S)
    <3>1. S = {f[x] : x \in K} \cup {freeRows}
      BY <2>3
    <3> HIDE DEF S, f, K
    <3> QED BY <2>4, <3>1, FS_AddElement
  <2>6. S # {}
    OBVIOUS
  <2>7. Fits(b, free, freeRows) = AtLeast0(Min(S))
    BY <1>2 DEF Fits
  <2> HIDE DEF S
  <2>8. S \subseteq Int
    BY <2>1
  <2>9. Min(S) \in Int /\ Min(S) > 0
    BY <2>1, <2>5, <2>6, <2>8, MinOf
  <2> QED BY <2>7, <2>9 DEF AtLeast0
<1> QED BY <1>1, <1>2
(* What is free of the pool is not more than what the rows of one batch    *)
(* leave of it.                                                            *)
LEMMA FreeBeside ==
  ASSUME TypeOK, NEW b \in Batches, NEW x \in Kinds
  PROVE  Reading(b).free[x] <= Less(Pool, b, Reading(b).holds[b])[x]
<1> DEFINE r == Reading(b)
           hx == [y \in Batches |-> Need[y][x] * r.holds[y]]
<1>1. r.holds \in Numbers
  BY ReadingTyped
<1>2. r.free[x] = Pool[x] - SumOf(hx, Batches)
  <2>1. r.free[x] = Pool[x] - Sum(hx)
    BY ReadingHas
  <2> QED BY <2>1, SumIs
<1> HIDE DEF r
<1>3. ASSUME NEW y \in Batches PROVE hx[y] = Need[y][x] * r.holds[y] /\ hx[y] \in Nat
  <2>1. PICK k \in Nat, h \in Nat : k = Need[y][x] /\ h = r.holds[y]
    BY <1>1, WindowAssumption DEF Numbers
  <2>2. k * h \in Nat
    OBVIOUS
  <2> QED BY <2>1, <2>2
<1>4. PICK f : f = hx
  OBVIOUS
<1>5. \A y \in Batches : f[y] \in Nat
  BY <1>3, <1>4
<1> HIDE DEF hx
<1>6. SumOf(f, Batches) = f[b] + SumOf(f, Batches \ {b})
  BY <1>5, BatchSplits
<1>7. IsFiniteSet(Batches \ {b})
  BY BatchesFinite, FS_Subset
<1>8. SumOf(f, Batches \ {b}) \in Nat
  BY <1>5, <1>7, SumType
<1>9. f[b] = r.holds[b] * Need[b][x] /\ f[b] \in Nat
  <2>1. PICK k \in Nat, h \in Nat : k = Need[b][x] /\ h = r.holds[b]
    BY <1>1, WindowAssumption DEF Numbers
  <2>2. k * h = h * k
    OBVIOUS
  <2> QED BY <1>3, <1>4, <1>5, <2>1, <2>2
<1>10. Less(Pool, b, r.holds[b])[x] = Pool[x] - r.holds[b] * Need[b][x]
  BY DEF Less
<1>11. PICK p \in Int, q \in Nat : p = Pool[x] /\ q = r.holds[b] * Need[b][x]
  BY <1>9, WindowAssumption
<1>12. r.free[x] <= Less(Pool, b, r.holds[b])[x]
  BY <1>2, <1>4, <1>6, <1>8, <1>9, <1>10, <1>11
<1> QED BY <1>12 DEF r

(* The capacity of a measured block is within the concurrency allowed.     *)
LEMMA CapWithin ==
  ASSUME measured, NEW b \in Batches, Concurrency[b] # 0
  PROVE  CapNow(b) <= Concurrency[b]
<1>1. Pool \in [Kinds -> Int] /\ PoolRows \in Int
  BY WorkersTyped, WindowAssumption
<1>2. PICK n \in Int, c \in Int : n = Fits(b, Pool, PoolRows) /\ c = Concurrency[b]
  <2>1. Fits(b, Pool, PoolRows) \in Nat
    BY <1>1, FitsWithin
  <2>2. Concurrency[b] \in Nat
    BY WindowAssumption
  <2> QED BY <2>1, <2>2
<1>3. CapNow(b) = Min({n, c})
  BY <1>2 DEF CapNow, Slots
<1>4. Min({n, c}) <= c
  BY MinOfTwo
<1> QED BY <1>2, <1>3, <1>4

(* The room of a batch of a measured block.                                *)
LEMMA PoolRoomSome ==
  ASSUME TypeOK, NEW b \in Batches, NEW r,
         r.cap \in Int, r.cap > 0, rows[b]["backlog"] > 0,
         r.held[b] \in Int, r.cap - r.held[b] > 0,
         Fits(b, Less(Pool, b, r.holds[b]), PoolRows - r.holds[b]) \in Int,
         Fits(b, Less(Pool, b, r.holds[b]), PoolRows - r.holds[b]) > 0,
         Concurrency[b] # 0 => Concurrency[b] - r.held[b] > 0
  PROVE  PoolRoom(b, r) > 0
<1>1. rows[b]["backlog"] \in Int /\ Concurrency[b] \in Int
  BY WindowAssumption DEF TypeOK, RowStates
<1>2. PICK c \in Int, k \in Int, d \in Int, f \in Int, e \in Int :
        /\ c = r.cap /\ k = rows[b]["backlog"] /\ d = r.cap - r.held[b]
        /\ f = Fits(b, Less(Pool, b, r.holds[b]), PoolRows - r.holds[b])
        /\ e = Concurrency[b] - r.held[b]
  BY <1>1
<1> DEFINE some == {c, k, d, f}
           all == some \cup (IF Concurrency[b] # 0 THEN {e} ELSE {})
<1>3. PoolRoom(b, r) = AtLeast0(Min(all))
  BY <1>2 DEF PoolRoom
<1>4. IsFiniteSet(some)
  <2>1. IsFiniteSet({c})
    BY FS_Singleton
  <2>2. IsFiniteSet({c} \cup {k})
    BY <2>1, FS_AddElement
  <2>3. IsFiniteSet(({c} \cup {k}) \cup {d})
    BY <2>2, FS_AddElement
  <2>4. IsFiniteSet((({c} \cup {k}) \cup {d}) \cup {f})
    BY <2>3, FS_AddElement
  <2>5. some = (({c} \cup {k}) \cup {d}) \cup {f}
    OBVIOUS
  <2> QED BY <2>4, <2>5
<1>5. \A y \in some : y \in Int /\ y > 0
  BY <1>2
<1>6. c \in some
  OBVIOUS
<1> HIDE DEF some
<1>7. IsFiniteSet(some \cup {e})
  BY <1>4, FS_AddElement
<1>8. IsFiniteSet(all) /\ all # {} /\ \A y \in all : y \in Int /\ y > 0
  BY <1>2, <1>4, <1>5, <1>6, <1>7
<1> HIDE DEF all
<1>9. all \subseteq Int
  BY <1>8
<1>10. Min(all) \in Int /\ Min(all) > 0
  BY <1>8, <1>9, MinOf
<1> QED BY <1>3, <1>10 DEF AtLeast0

(* In the measured pool, a waiter a batch defers to can take the slot,     *)
(* unless it is kept for a waiter that is out of room.                     *)
LEMMA WaiterTakesPool ==
  ASSUME TypeOK, measured, NEW v \in Batches, NEW w \in Batches, view[v] = view[w],
         Asks(v), capacity[v] = CapNow(v), Blocked(v, Reading(v)) = {},
         PoolRoomAfter(w, Reading(w), v, 0) > 0
  PROVE  Take(v, Reading(v)) > 0
<1> DEFINE r == Reading(v)
<1>1. /\ Reading(w).held = r.held /\ Reading(w).holds = r.holds
      /\ Reading(w).allHold = r.allHold /\ Reading(w).free = r.free
  BY SameReading, Zenon
<1>2. /\ r.cap \in Nat /\ r.held[v] \in Nat /\ r.holds[v] \in Nat /\ r.allHold \in Nat
      /\ r.free \in [Kinds -> Int] /\ r.holds[v] <= r.allHold
  <2>1. /\ r.cap \in Nat /\ r.held \in Numbers /\ r.holds \in Numbers /\ r.allHold \in Nat
        /\ r.free \in [Kinds -> Int]
        /\ \A x \in Batches : r.holds[x] <= r.allHold
    BY ReadingTyped
  <2> HIDE DEF r
  <2> QED BY <2>1 DEF Numbers
<1>3. r.cap = capacity[v] /\ (Concurrency[v] # 0 => r.cap <= Concurrency[v])
  BY ReadingHas, CapWithin
<1>4. \A x \in Kinds : r.free[x] <= Less(Pool, v, r.holds[v])[x]
  BY FreeBeside
<1>5. rows[v]["backlog"] > 0
  BY DEF Asks
<1> HIDE DEF r
<1>6. PoolRows \in Int /\ Concurrency[v] \in Int /\ Pool \in [Kinds -> Int]
  BY WorkersTyped, WindowAssumption
<1>7. Less(r.free, w, 0) = r.free
  <2>1. ASSUME NEW x \in Kinds PROVE r.free[x] - 0 * Need[w][x] = r.free[x]
    <3>1. PICK a \in Int, k \in Nat : a = r.free[x] /\ k = Need[w][x]
      BY <1>2, WindowAssumption
    <3>2. a - 0 * k = a
      OBVIOUS
    <3> QED BY <3>1, <3>2
  <2> QED BY <1>2, <2>1 DEF Less
<1>8. PICK k \in Int : k = PoolRows - r.allHold
  BY <1>2, <1>6
<1>9. k = PoolRows - r.allHold - 0
  BY <1>2, <1>6, <1>8
<1>10. Fits(v, r.free, k) \in Nat
  BY <1>2, FitsWithin
<1>11. AtLeast0(capacity[v] - r.held[v]) \in Nat
  BY <1>2, <1>3 DEF AtLeast0
<1>12. PICK a \in Int, f \in Int : a = AtLeast0(capacity[v] - r.held[v]) /\ f = Fits(v, r.free, k)
  BY <1>10, <1>11
<1>13. PoolRoomAfter(w, Reading(w), v, 0) = Min({a, f})
  BY <1>1, <1>7, <1>8, <1>9, <1>12 DEF PoolRoomAfter, r
<1>14. a > 0 /\ f > 0
  <2>1. Min({a, f}) \in {a, f} /\ Min({a, f}) <= a /\ Min({a, f}) <= f
    BY MinOfTwo
  <2> QED BY <1>13, <2>1
<1>15. r.cap - r.held[v] > 0 /\ r.cap > 0
  BY <1>2, <1>3, <1>12, <1>14 DEF AtLeast0
<1>16. k > 0 /\ \A x \in Kinds : Need[v][x] > 0 => Need[v][x] <= r.free[x]
  BY <1>2, <1>12, <1>14, FitsOne
<1>17. Fits(v, Less(Pool, v, r.holds[v]), PoolRows - r.holds[v]) > 0
       /\ Fits(v, Less(Pool, v, r.holds[v]), PoolRows - r.holds[v]) \in Int
  <2>1. PICK g : g = Less(Pool, v, r.holds[v])
    OBVIOUS
  <2>2. g \in [Kinds -> Int]
    <3>1. r.holds[v] \in Int
      BY <1>2
    <3> QED BY <1>6, <2>1, <3>1, LessTyped
  <2>3. PICK i \in Int : i = PoolRows - r.holds[v]
    BY <1>2, <1>6
  <2>4. i > 0
    BY <1>2, <1>6, <1>8, <1>16, <2>3
  <2>5. \A x \in Kinds : Need[v][x] > 0 => Need[v][x] <= g[x]
    <3>1. ASSUME NEW x \in Kinds, Need[v][x] > 0 PROVE Need[v][x] <= g[x]
      <4>1. Need[v][x] \in Int /\ r.free[x] \in Int /\ g[x] \in Int
        BY <1>2, <2>2, WindowAssumption
      <4>2. Need[v][x] <= r.free[x] /\ r.free[x] <= g[x]
        BY <1>4, <1>16, <2>1, <3>1
      <4> QED BY <4>1, <4>2
    <3> QED BY <3>1
  <2>6. Fits(v, g, i) > 0 /\ Fits(v, g, i) \in Nat
    BY <2>2, <2>4, <2>5, FitsOne, FitsWithin
  <2> QED BY <2>1, <2>3, <2>6
<1>18. Concurrency[v] # 0 => Concurrency[v] - r.held[v] > 0
  BY <1>2, <1>3, <1>6, <1>15
<1>19. PoolRoom(v, r) > 0
  <2>1. r.cap \in Int /\ r.held[v] \in Int
    BY <1>2
  <2> QED BY <1>5, <1>15, <1>17, <1>18, <2>1, PoolRoomSome
<1>20. PoolRoom(v, r) \in Nat
  BY PoolTakeIs DEF r
<1>21. PoolFreeTake(v, r) > 0
  <2>1. PICK x \in Int : x = PoolRoom(v, r)
    BY <1>20
  <2>2. PoolFreeTake(v, r) = Min({x, f})
    BY <1>8, <1>12, <2>1 DEF PoolFreeTake
  <2>3. Min({x, f}) \in {x, f}
    BY MinOfTwo
  <2> QED BY <1>14, <1>19, <2>1, <2>2, <2>3
<1> QED BY <1>21 DEF Take, PoolTake, r
(* A batch that could take a row and would not leaves it to one that asks, *)
(* is ranked before it, and could take it too.                             *)
LEMMA LeftToATaker ==
  ASSUME TypeOK, ~measured \/ NoneBlocked, NEW w \in Batches, Asks(w), ~Counts(w), Take(w, Reading(w)) > 0,
         \A x \in want : x \in Batches /\ Asks(x) /\ ~Counts(x) /\ view[x] = view[w]
  PROVE  \E v \in Batches \ {w} : Asks(v) /\ Take(v, Reading(v)) > 0 /\ Precedes(Rank(v), Rank(w))
<1> DEFINE r == Reading(w)
<1>1. capacity[w] = CapNow(w) /\ ~(FairTake(w, r) > 0)
  BY DEF Counts
<1>2. Defers(w, r, 0)
  BY <1>1, FairTakeIs
<1>3. PICK v \in r.waiting : RoomAfter(w, r, v, 0) > 0 /\ Precedes(Rank(v), RankAfter(w, 0))
  BY <1>2 DEF Defers
<1>4. r.waiting = Waiting(w)
  BY ReadingHas
<1>5. v \in Batches \ {w} /\ v \in want
  BY <1>3, <1>4 DEF Waiting, Peers
<1>6. Asks(v) /\ ~Counts(v) /\ view[v] = view[w]
  BY <1>5
<1>7. capacity[v] = CapNow(v)
  BY <1>6 DEF Counts
<1>8. Precedes(Rank(v), Rank(w))
  BY <1>3 DEF RankAfter
<1>9. Take(v, Reading(v)) > 0
  <2>1. CASE ~measured
    <3>1. WindowRoomAfter(w, Reading(w), v, 0) > 0
      BY <1>3, <2>1 DEF RoomAfter
    <3> QED BY <1>1, <1>5, <1>6, <1>7, <2>1, <3>1, WaiterTakesWindow
  <2>2. CASE measured
    <3>1. PoolRoomAfter(w, Reading(w), v, 0) > 0
      BY <1>3, <2>2 DEF RoomAfter
    <3>2. Blocked(v, Reading(v)) = {}
      BY <1>5, <1>6, <2>2 DEF NoneBlocked
    <3> QED BY <1>5, <1>6, <1>7, <2>2, <3>1, <3>2, WaiterTakesPool
  <2> QED BY <2>1, <2>2
<1> QED BY <1>5, <1>6, <1>8, <1>9

(* Where no waiter holds a row's room, the passes are not stuck.           *)
LEMMA SlotOf == ASSUME TypeOK, ~measured \/ NoneBlocked PROVE SlotIsTaken
<1> DEFINE Asking == {b \in Batches : Asks(b)}
<1> SUFFICES ASSUME want \subseteq Asking, \A b \in Asking : view[b] = job,
                    \E b \in Asking : Take(b, Reading(b)) > 0, \A b \in Asking : ~Counts(b)
             PROVE  FALSE
  BY DEF SlotIsTaken
<1> DEFINE Takers == {b \in Asking : Take(b, Reading(b)) > 0}
<1>1. Takers \in SUBSET Batches /\ Takers # {}
  OBVIOUS
<1>2. PICK w \in Takers : \A x \in Takers \ {w} : Precedes(Rank(w), Rank(x))
  <2> HIDE DEF Takers
  <2> QED BY <1>1, OneIsFirst
<1>3. w \in Batches /\ Asks(w) /\ ~Counts(w) /\ Take(w, Reading(w)) > 0 /\ view[w] = job
  BY <1>2
<1>4. \A x \in want : x \in Batches /\ Asks(x) /\ ~Counts(x) /\ view[x] = view[w]
  BY <1>3
<1>5. PICK v \in Batches \ {w} : Asks(v) /\ Take(v, Reading(v)) > 0 /\ Precedes(Rank(v), Rank(w))
  BY <1>3, <1>4, LeftToATaker
<1>6. Precedes(Rank(w), Rank(v))
  BY <1>2, <1>5
<1> QED BY <1>3, <1>5, <1>6, RanksOrdered

(* "Two waiters never defer to each other", and none defers to one that    *)
(* cannot take the slot: before the block is measured, and in its pool     *)
(* wherever no waiter that is out of room holds a row's room against the   *)
(* others.                                                                 *)
THEOREM SlotFound == Spec => [](~measured \/ NoneBlocked => SlotIsTaken)
<1>1. TypeOK => (~measured \/ NoneBlocked => SlotIsTaken)
  BY SlotOf
<1> QED BY <1>1, TypeCorrect, PTL DEF Spec
=============================================================================
