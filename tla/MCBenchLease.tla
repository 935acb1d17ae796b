---------------------------- MODULE MCBenchLease ----------------------------
(* Instances of BenchLease for TLC.                                        *)
EXTENDS BenchLease

\* The Sparks are alike: one of them stands for either.
SoloOrPair == {{CHOOSE h \in Hosts : TRUE}, Hosts}

PairOnly == {Hosts}
=============================================================================
