---------------------------- MODULE MCBlockWindow ----------------------------
(* BlockWindow on small instances: the blocks and the sizes of the rows.    *)
EXTENDS BlockWindow

Size(c, m) == [x \in Kinds |-> CASE x = "cpus" -> c [] x = "memory" -> m [] OTHER -> 0]

(* A block of two CPUs; a batch of one-CPU rows, and one whose row takes   *)
(* the whole block.                                                        *)
TwoCpus == Size(2, 0)
SmallAndBig == <<Size(1, 0), Size(2, 0)>>
OneEach == <<1, 1>>
AnyTwo == <<0, 0>>

(* A block of five CPUs and a GPU: two batches of rows that need the GPU,  *)
(* one of four-CPU rows, one of one-CPU rows.                              *)
GpuRow == [x \in Kinds |-> IF x = "memory" THEN 0 ELSE 1]
GpuBlock == [x \in Kinds |-> CASE x = "cpus" -> 5 [] x = "memory" -> 0 [] OTHER -> 1]
MixedSizes == <<GpuRow, GpuRow, Size(4, 0), Size(1, 0)>>
FourOnce == <<1, 1, 1, 2>>
AnyOfFour == <<0, 0, 0, 0>>
=============================================================================
