----------------------------- MODULE MCServices -----------------------------
(* A small instance of Services, its values in Services.cfg. *)
EXTENDS Services

CONSTANTS
  w1, w2, hook, s1,  \* EventHub
  run                \* TaskExecutor
=============================================================================
