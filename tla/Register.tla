------------------------------ MODULE Register ------------------------------
(* What the stores rely on in a file that WriteFileAtomic writes             *)
(* (internal/fsutil/atomic.go:26-31): a write takes effect at once or not at *)
(* all, and who reads the file sees the value of one whole write.            *)

CONSTANTS
  Writers,  \* one write each; a value is the name of its writer
  Readers,
  Initial   \* the value the file has at first

VARIABLES
  value,    \* what the file holds
  before,   \* what it held before the last write
  outcome,  \* of each write: "pending", "written" or "failed"
  view      \* what each reader has read last, Initial before it has

vars == <<value, before, outcome, view>>

Init ==
  /\ value = Initial /\ before = Initial
  /\ outcome = [w \in Writers |-> "pending"]
  /\ view = [r \in Readers |-> Initial]

Write(w) ==
  /\ outcome[w] = "pending"
  /\ before' = value /\ value' = w
  /\ outcome' = [outcome EXCEPT ![w] = "written"]
  /\ UNCHANGED view

\* One write fails, or several do because their process dies.
Fail ==
  /\ \E lost \in SUBSET {w \in Writers : outcome[w] = "pending"} :
       outcome' = [w \in Writers |-> IF w \in lost THEN "failed" ELSE outcome[w]]
  /\ UNCHANGED <<value, before, view>>

Read(r) ==
  /\ view' = [view EXCEPT ![r] = value]
  /\ UNCHANGED <<value, before, outcome>>

\* The machine loses power: writes under way fail, and the last one that took
\* effect may be undone, as the directory is not synced.
PowerLoss ==
  /\ outcome' = [w \in Writers |-> IF outcome[w] = "pending" THEN "failed" ELSE outcome[w]]
  /\ value' \in {value, before} /\ before' = value'
  /\ UNCHANGED view

Next ==
  \/ \E w \in Writers : Write(w)
  \/ Fail
  \/ \E r \in Readers : Read(r)
  \/ PowerLoss

Spec == Init /\ [][Next]_vars
=============================================================================
