---------------------------- MODULE MCSessionRun ----------------------------
(* Instance of SessionRun: see MCSessionRun_runs.cfg.                      *)
EXTENDS SessionRun, TLC

Symmetry == Permutations(Runs) \cup Permutations(Requests)
=============================================================================
