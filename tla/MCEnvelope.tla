----------------------------- MODULE MCEnvelope -----------------------------
(* Envelope on small instances, and the mutants its properties catch.      *)
EXTENDS Envelope, TLC

CONSTANTS s1, s2, e1, e2, j1, j2

OneServer == {s1}
TwoServers == {s1, s2}
OneEnv == {e1}
TwoEnvs == {e1, e2}
OneJob == {j1}
TwoJobs == {j1, j2}
SecondJob == {j2}
TwoWorst == [j \in {j1, j2} |-> 2]
TwoCharge == [j \in {j1, j2} |-> 1]
Symmetry == Permutations(TwoServers) \cup Permutations(TwoEnvs) \cup Permutations(TwoJobs)
OneWorst == [j \in {j1} |-> 2]
OneCharge == [j \in {j1} |-> 1]
=============================================================================
