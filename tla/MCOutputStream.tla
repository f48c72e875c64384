--------------------------- MODULE MCOutputStream ---------------------------
(* The model values with which TLC checks OutputStream, and the bound of its *)
(* run: much output for one client, or little for two.                       *)
EXTENDS OutputStream

CONSTANTS c1, c2

LittleForTwo ==
  Cardinality({c \in Clients : hpc[c] # "out"}) > 1 => appended <= 1

\* Only ReadChunk and Admit are bounded, of which nothing is owed: fairness stays.
BoundedSpec == Init /\ [][Next /\ LittleForTwo']_vars /\ Fairness
=============================================================================
