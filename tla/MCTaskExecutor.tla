--------------------------- MODULE MCTaskExecutor ---------------------------
(* The model values with which TLC checks TaskExecutor. *)
EXTENDS TaskExecutor

CONSTANTS r1, r2

\* Where a crash is still to come only r1 has been asked for, and it is not cancelled: r2
\* meets what the crash left. MCServices has a run that is cancelled before a crash.
OneRunBeforeCrash ==
  crashes < MaxCrashes => pc[r2] = "new" /\ \A k \in Cancellers : cancel[k] = "no"
=============================================================================
