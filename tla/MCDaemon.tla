------------------------------ MODULE MCDaemon ------------------------------
(* The model values with which TLC checks Daemon. *)
EXTENDS Daemon, TLC

CONSTANTS d1, d2, d3

\* Nothing tells one process from another.
Symmetry == Permutations(Daemons)
=============================================================================
