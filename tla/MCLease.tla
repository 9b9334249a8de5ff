------------------------------ MODULE MCLease ------------------------------
(* Lease on small instances, and the mutants its properties catch.         *)
EXTENDS Lease

CONSTANTS s1, s2, s3, p1, p2, p3

ThreeServers == {s1, s2, s3}
ThreePids    == {p1, p2, p3}
=============================================================================
