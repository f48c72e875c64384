-------------------------- MODULE MCSessionManager --------------------------
(* The model values with which TLC checks SessionManager. *)
EXTENDS SessionManager

CONSTANTS s1, s2, s3
=============================================================================
