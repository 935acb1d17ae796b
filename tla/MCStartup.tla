------------------------------ MODULE MCStartup ------------------------------
(* Startup for TLC: a model of one rank, one of two ranks with either way  *)
(* of asking for readiness, and a NIM, each with and without --no-wait.    *)
EXTENDS Startup

LaunchesChecked ==
    {[ranks |-> s[1], first |-> s[2], nim |-> s[3], path |-> s[4], noWait |-> w] :
       s \in {<<{0}, 0, FALSE, FALSE>>, <<{0, 1}, 1, FALSE, FALSE>>,
              <<{0, 1}, 1, FALSE, TRUE>>, <<{0, 1}, 0, TRUE, TRUE>>},
       w \in BOOLEAN}
=============================================================================
