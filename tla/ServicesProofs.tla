--------------------------- MODULE ServicesProofs ---------------------------
(* What the parts of Services keep at every moment, for any value of the      *)
(* constants. What they come to in the end is left to TLC.                    *)
EXTENDS Services, Iteration, SequenceTheorems

\* A step of Services is a step of each part, or leaves it alone.
LEMMA PartSteps ==
  ASSUME [ServicesNext]_ServicesVars
  PROVE  /\ [Next]_vars /\ [Hub!Next]_hubVars /\ [Attach!Next]_attVars /\ [Link!Next]_tunVars
         /\ part' = part
BY DEF ServicesNext, ServicesVars, Moves, Rest

-----------------------------------------------------------------------------
(* The executor, for any finite set of runs, any number of runs that are kept *)
(* and any number of crashes                                                  *)

Final == {"completed", "failed", "cancelled"}

\* What the status of a run may be while its goroutine executes it.
StatusFitsStep ==
  \A r \in Runs :
    /\ pc[r] \in {"new", "found", "refused"} => status[r] = "none" /\ disk.status[r] = "none"
    /\ pc[r] = "begin" => status[r] \in {"pending", "cancelled", "none"}
    /\ pc[r] \in Executing \ {"begin"} => status[r] \in {"running", "cancelled", "none"}
    /\ pc[r] \in Executing => r \in registered

\* The runs that a restart finds are nobody's, and Close has not begun then.
LoadStartsAfresh ==
  /\ main = "load" => \A r \in Runs : pc[r] \in {"new", "done", "lost"}
  /\ main \in {"load", "open"} => \A r \in Runs : cancel[<<"close", r>>] = "no"

\* The store has one active run at most, and Close comes to every one of them.
OneActiveRecord ==
  /\ \A q, r \in ActiveRuns : q = r
  /\ main = "closing" => \A r \in ActiveRuns : cancel[<<"close", r>>] = "store"

\* Until the task is deleted, a run that is under way and not cancelled has its record.
RecordIsKept ==
  TaskStored => \A r \in Runs :
    /\ pc[r] \in Executing /\ \A k \in Cancellers : k[2] = r => cancel[k] \in {"no", "store"}
    => r \in ActiveRuns

RunsInv ==
  StatusFitsStep /\ LoadStartsAfresh /\ OneActiveRecord /\ RecordIsKept /\ ActiveIsExecuting /\ StoppedIsIdle

-----------------------------------------------------------------------------
\* What the types say apart from the two indexes of the run store.
SimpleTypes ==
  /\ status \in [Runs -> Statuses] /\ disk.status \in [Runs -> Statuses]
  /\ pc \in [Runs -> Steps]
  /\ ctx \in [Runs -> {"live", "cancelled", "expired"}]
  /\ pgid \subseteq Runs /\ registered \subseteq Runs
  /\ group \in [Runs -> SUBSET {"leader", "child"}]
  /\ cancel \in [Cancellers -> {"no", "store", "context", "kill", "returned", "refused"}]
  /\ owed \in Nat
  /\ main \in {"load", "open", "closing", "waiting", "stopped"}
  /\ deleter \in {"no", "runs", "saveTask", "saveRuns", "deleted"}
  /\ crashes \in 0 .. MaxCrashes

\* They are kept.
LEMMA SimpleTypesStep == SimpleTypes /\ [Next]_vars => SimpleTypes'
<1> SUFFICES ASSUME SimpleTypes, [Next]_vars PROVE SimpleTypes'
  OBVIOUS
<1> USE ExecutorAssumption
    DEF SimpleTypes, Statuses, Steps, Active, Cancellers, Goto, SetStatus, Step
<1>1. ASSUME NEW r \in Runs, LookUp(r) PROVE SimpleTypes'
  BY <1>1 DEF LookUp, storeVars, runVars
<1>2. ASSUME NEW r \in Runs, Register(r) PROVE SimpleTypes'
  BY <1>2, SMTT(30) DEF Register, Create, runVars, storeVars
<1>3. ASSUME NEW r \in Runs, MarkRunning(r) PROVE SimpleTypes'
  BY <1>3 DEF MarkRunning, runVars
<1>4. ASSUME NEW r \in Runs, Expire(r) \/ Fork(r) \/ Exit(r) PROVE SimpleTypes'
  BY <1>4 DEF Expire, Fork, Exit, storeVars
<1>5. ASSUME NEW r \in Runs, Prepare(r) PROVE SimpleTypes'
  BY <1>5 DEF Prepare, RecordEnd, Record, CancelRecord, runVars
<1>6. ASSUME NEW r \in Runs, StartFails(r) PROVE SimpleTypes'
  BY <1>6 DEF StartFails, Record, runVars
<1>7. ASSUME NEW r \in Runs, StartProcess(r) \/ SetPgid(r) \/ CheckContext(r) PROVE SimpleTypes'
  BY <1>7 DEF StartProcess, SetPgid, CheckContext, KillGroup, storeVars
<1>8. ASSUME NEW r \in Runs, CmdDone(r) \/ ContextDone(r) PROVE SimpleTypes'
  BY <1>8 DEF CmdDone, ContextDone, KillGroup, runVars, storeVars
<1>9. ASSUME NEW r \in Runs, Verdict(r) PROVE SimpleTypes'
  BY <1>9 DEF Verdict, RecordEnd, Record, CancelRecord, runVars
<1>10. ASSUME NEW r \in Runs, Leave(r) PROVE SimpleTypes'
  BY <1>10 DEF Leave, SaveRuns, storeVars
<1>11. ASSUME NEW r \in Runs, CancelCall(r) PROVE SimpleTypes'
  BY <1>11 DEF CancelCall, CancelRecord, runVars
<1>12. ASSUME NEW k \in Cancellers, CancelStore(k) PROVE SimpleTypes'
  BY <1>12 DEF CancelStore, CancelRecord, runVars
<1>13. ASSUME NEW k \in Cancellers, CancelContext(k) \/ CancelKill(k) PROVE SimpleTypes'
  BY <1>13 DEF CancelContext, CancelKill, KillGroup, storeVars
<1>14. CASE SaveCall
  BY <1>14 DEF SaveCall, SaveRuns, storeVars, runVars
<1>15. CASE Close
  BY <1>15 DEF Close, storeVars, runVars
<1>16. CASE EndCancels
  BY <1>16 DEF EndCancels, storeVars, runVars
<1>17. CASE SaveStopped
  BY <1>17 DEF SaveStopped, SaveRuns, storeVars, runVars
<1>18. CASE Load
  BY <1>18 DEF Load, runVars
<1>19. CASE DeleteTask
  BY <1>19 DEF DeleteTask, storeVars, runVars
<1>20. CASE DeleteRuns
  BY <1>20 DEF DeleteRuns, runVars
<1>21. CASE SaveDeletedTask \/ SaveDeletedRuns
  BY <1>21 DEF SaveDeletedTask, SaveDeletedRuns, SaveRuns, storeVars, runVars
<1>22. CASE Crash
  BY <1>22 DEF Crash, storeVars
<1>23. CASE UNCHANGED vars
  BY <1>23 DEF vars, storeVars, runVars
<1> QED
  BY <1>1, <1>2, <1>3, <1>4, <1>5, <1>6, <1>7, <1>8, <1>9, <1>10, <1>11, <1>12,
     <1>13, <1>14, <1>15, <1>16, <1>17, <1>18, <1>19, <1>20, <1>21, <1>22, <1>23
  DEF Next, Execute, Cancelling, Closing, Deleting

\* A run has a record from Register on, which ends before its goroutine does.
LEMMA StatusStep == SimpleTypes /\ SimpleTypes' /\ StatusFitsStep /\ LoadStartsAfresh /\ [Next]_vars => (StatusFitsStep /\ LoadStartsAfresh)'
<1> SUFFICES ASSUME SimpleTypes, SimpleTypes', StatusFitsStep, LoadStartsAfresh, [Next]_vars PROVE (StatusFitsStep /\ LoadStartsAfresh)'
  OBVIOUS
<1> USE ExecutorAssumption
    DEF SimpleTypes, Statuses, Steps, Active, ActiveRuns, Executing, Cancellers, StatusFitsStep,
        LoadStartsAfresh, Goto, SetStatus, Step
<1>1. ASSUME NEW r \in Runs, LookUp(r) PROVE (StatusFitsStep /\ LoadStartsAfresh)'
  BY <1>1 DEF LookUp, storeVars, runVars
<1>2. ASSUME NEW r \in Runs, Register(r) PROVE (StatusFitsStep /\ LoadStartsAfresh)'
  BY <1>2, SMTT(30) DEF Register, Create, runVars, storeVars
<1>3. ASSUME NEW r \in Runs, MarkRunning(r) PROVE (StatusFitsStep /\ LoadStartsAfresh)'
  BY <1>3 DEF MarkRunning, runVars
<1>4. ASSUME NEW r \in Runs, Expire(r) \/ Fork(r) \/ Exit(r) PROVE (StatusFitsStep /\ LoadStartsAfresh)'
  BY <1>4 DEF Expire, Fork, Exit, storeVars
<1>5. ASSUME NEW r \in Runs, Prepare(r) PROVE (StatusFitsStep /\ LoadStartsAfresh)'
  BY <1>5 DEF Prepare, RecordEnd, Record, CancelRecord, runVars
<1>6. ASSUME NEW r \in Runs, StartFails(r) PROVE (StatusFitsStep /\ LoadStartsAfresh)'
  BY <1>6 DEF StartFails, Record, runVars
<1>7. ASSUME NEW r \in Runs, StartProcess(r) \/ SetPgid(r) \/ CheckContext(r) PROVE (StatusFitsStep /\ LoadStartsAfresh)'
  BY <1>7 DEF StartProcess, SetPgid, CheckContext, KillGroup, storeVars
<1>8. ASSUME NEW r \in Runs, CmdDone(r) \/ ContextDone(r) PROVE (StatusFitsStep /\ LoadStartsAfresh)'
  BY <1>8 DEF CmdDone, ContextDone, KillGroup, runVars, storeVars
<1>9. ASSUME NEW r \in Runs, Verdict(r) PROVE (StatusFitsStep /\ LoadStartsAfresh)'
  BY <1>9 DEF Verdict, RecordEnd, Record, CancelRecord, runVars
<1>10. ASSUME NEW r \in Runs, Leave(r) PROVE (StatusFitsStep /\ LoadStartsAfresh)'
  BY <1>10 DEF Leave, SaveRuns, storeVars
<1>11. ASSUME NEW r \in Runs, CancelCall(r) PROVE (StatusFitsStep /\ LoadStartsAfresh)'
  BY <1>11 DEF CancelCall, CancelRecord, runVars
<1>12. ASSUME NEW k \in Cancellers, CancelStore(k) PROVE (StatusFitsStep /\ LoadStartsAfresh)'
  BY <1>12 DEF CancelStore, CancelRecord, runVars
<1>13. ASSUME NEW k \in Cancellers, CancelContext(k) \/ CancelKill(k) PROVE (StatusFitsStep /\ LoadStartsAfresh)'
  BY <1>13 DEF CancelContext, CancelKill, KillGroup, storeVars
<1>14. CASE SaveCall
  BY <1>14 DEF SaveCall, SaveRuns, storeVars, runVars
<1>15. CASE Close
  BY <1>15 DEF Close, storeVars, runVars
<1>16. CASE EndCancels
  BY <1>16 DEF EndCancels, storeVars, runVars
<1>17. CASE SaveStopped
  BY <1>17 DEF SaveStopped, SaveRuns, storeVars, runVars
<1>18. CASE Load
  BY <1>18 DEF Load, runVars
<1>19. CASE DeleteTask
  BY <1>19 DEF DeleteTask, storeVars, runVars
<1>20. CASE DeleteRuns
  BY <1>20 DEF DeleteRuns, runVars
<1>21. CASE SaveDeletedTask \/ SaveDeletedRuns
  BY <1>21 DEF SaveDeletedTask, SaveDeletedRuns, SaveRuns, storeVars, runVars
<1>22. CASE Crash
  BY <1>22 DEF Crash, storeVars
<1>23. CASE UNCHANGED vars
  BY <1>23 DEF vars, storeVars, runVars
<1> QED
  BY <1>1, <1>2, <1>3, <1>4, <1>5, <1>6, <1>7, <1>8, <1>9, <1>10, <1>11, <1>12,
     <1>13, <1>14, <1>15, <1>16, <1>17, <1>18, <1>19, <1>20, <1>21, <1>22, <1>23
  DEF Next, Execute, Cancelling, Closing, Deleting

\* Only Register makes a record active, where there is no other and Close has not begun.
LEMMA ActiveStep == SimpleTypes /\ SimpleTypes' /\ RunsInv /\ [Next]_vars => (ActiveIsExecuting /\ OneActiveRecord /\ StoppedIsIdle)'
<1> SUFFICES ASSUME SimpleTypes, SimpleTypes', RunsInv, [Next]_vars PROVE (ActiveIsExecuting /\ OneActiveRecord /\ StoppedIsIdle)'
  OBVIOUS
<1> USE ExecutorAssumption
    DEF SimpleTypes, Statuses, Steps, Active, ActiveRuns, Executing, Cancellers, RunsInv,
        StatusFitsStep, LoadStartsAfresh, ActiveIsExecuting, OneActiveRecord, StoppedIsIdle, Goto, SetStatus, Step
<1>1. ASSUME NEW r \in Runs, LookUp(r) PROVE (ActiveIsExecuting /\ OneActiveRecord /\ StoppedIsIdle)'
  BY <1>1 DEF LookUp, storeVars, runVars
<1>2. ASSUME NEW r \in Runs, Register(r) PROVE (ActiveIsExecuting /\ OneActiveRecord /\ StoppedIsIdle)'
  BY <1>2, SMTT(30) DEF Register, Create, runVars, storeVars
<1>3. ASSUME NEW r \in Runs, MarkRunning(r) PROVE (ActiveIsExecuting /\ OneActiveRecord /\ StoppedIsIdle)'
  BY <1>3 DEF MarkRunning, runVars
<1>4. ASSUME NEW r \in Runs, Expire(r) \/ Fork(r) \/ Exit(r) PROVE (ActiveIsExecuting /\ OneActiveRecord /\ StoppedIsIdle)'
  BY <1>4 DEF Expire, Fork, Exit, storeVars
<1>5. ASSUME NEW r \in Runs, Prepare(r) PROVE (ActiveIsExecuting /\ OneActiveRecord /\ StoppedIsIdle)'
  BY <1>5 DEF Prepare, RecordEnd, Record, CancelRecord, runVars
<1>6. ASSUME NEW r \in Runs, StartFails(r) PROVE (ActiveIsExecuting /\ OneActiveRecord /\ StoppedIsIdle)'
  BY <1>6 DEF StartFails, Record, runVars
<1>7. ASSUME NEW r \in Runs, StartProcess(r) \/ SetPgid(r) \/ CheckContext(r) PROVE (ActiveIsExecuting /\ OneActiveRecord /\ StoppedIsIdle)'
  BY <1>7 DEF StartProcess, SetPgid, CheckContext, KillGroup, storeVars
<1>8. ASSUME NEW r \in Runs, CmdDone(r) \/ ContextDone(r) PROVE (ActiveIsExecuting /\ OneActiveRecord /\ StoppedIsIdle)'
  BY <1>8 DEF CmdDone, ContextDone, KillGroup, runVars, storeVars
<1>9. ASSUME NEW r \in Runs, Verdict(r) PROVE (ActiveIsExecuting /\ OneActiveRecord /\ StoppedIsIdle)'
  BY <1>9 DEF Verdict, RecordEnd, Record, CancelRecord, runVars
<1>10. ASSUME NEW r \in Runs, Leave(r) PROVE (ActiveIsExecuting /\ OneActiveRecord /\ StoppedIsIdle)'
  BY <1>10 DEF Leave, SaveRuns, storeVars
<1>11. ASSUME NEW r \in Runs, CancelCall(r) PROVE (ActiveIsExecuting /\ OneActiveRecord /\ StoppedIsIdle)'
  BY <1>11 DEF CancelCall, CancelRecord, runVars
<1>12. ASSUME NEW k \in Cancellers, CancelStore(k) PROVE (ActiveIsExecuting /\ OneActiveRecord /\ StoppedIsIdle)'
  BY <1>12 DEF CancelStore, CancelRecord, runVars
<1>13. ASSUME NEW k \in Cancellers, CancelContext(k) \/ CancelKill(k) PROVE (ActiveIsExecuting /\ OneActiveRecord /\ StoppedIsIdle)'
  BY <1>13 DEF CancelContext, CancelKill, KillGroup, storeVars
<1>14. CASE SaveCall
  BY <1>14 DEF SaveCall, SaveRuns, storeVars, runVars
<1>15. CASE Close
  BY <1>15 DEF Close, storeVars, runVars
<1>16. CASE EndCancels
  <2>1. /\ main = "closing" /\ main' = "waiting" /\ UNCHANGED <<status, pc, registered, cancel>>
        /\ \A r \in Runs : cancel[<<"close", r>>] \in {"no", "returned"}
    BY <1>16 DEF EndCancels, storeVars, runVars
  <2>2. ActiveRuns = {}
    BY <2>1
  <2> QED BY <2>1, <2>2
<1>17. CASE SaveStopped
  BY <1>17 DEF SaveStopped, SaveRuns, storeVars, runVars
<1>18. CASE Load
  BY <1>18 DEF Load, runVars
<1>19. CASE DeleteTask
  BY <1>19 DEF DeleteTask, storeVars, runVars
<1>20. CASE DeleteRuns
  BY <1>20 DEF DeleteRuns, runVars
<1>21. CASE SaveDeletedTask \/ SaveDeletedRuns
  BY <1>21 DEF SaveDeletedTask, SaveDeletedRuns, SaveRuns, storeVars, runVars
<1>22. CASE Crash
  BY <1>22 DEF Crash, storeVars
<1>23. CASE UNCHANGED vars
  BY <1>23 DEF vars, storeVars, runVars
<1> QED
  BY <1>1, <1>2, <1>3, <1>4, <1>5, <1>6, <1>7, <1>8, <1>9, <1>10, <1>11, <1>12,
     <1>13, <1>14, <1>15, <1>16, <1>17, <1>18, <1>19, <1>20, <1>21, <1>22, <1>23
  DEF Next, Execute, Cancelling, Closing, Deleting

\* Without a cancel and a deletion the goroutine alone ends its record.
LEMMA RecordStep == SimpleTypes /\ SimpleTypes' /\ RunsInv /\ [Next]_vars => RecordIsKept'
<1> SUFFICES ASSUME SimpleTypes, SimpleTypes', RunsInv, [Next]_vars PROVE RecordIsKept'
  OBVIOUS
<1> USE ExecutorAssumption
    DEF SimpleTypes, Statuses, Steps, Active, ActiveRuns, Executing, Cancellers, TaskStored, RunsInv,
        StatusFitsStep, LoadStartsAfresh, RecordIsKept, ActiveIsExecuting, OneActiveRecord, Goto, SetStatus, Step
<1>1. ASSUME NEW r \in Runs, LookUp(r) PROVE RecordIsKept'
  BY <1>1 DEF LookUp, storeVars, runVars
<1>2. ASSUME NEW r \in Runs, Register(r) PROVE RecordIsKept'
  BY <1>2, SMTT(30) DEF Register, Create, runVars, storeVars
<1>3. ASSUME NEW r \in Runs, MarkRunning(r) PROVE RecordIsKept'
  BY <1>3 DEF MarkRunning, runVars
<1>4. ASSUME NEW r \in Runs, Expire(r) \/ Fork(r) \/ Exit(r) PROVE RecordIsKept'
  BY <1>4 DEF Expire, Fork, Exit, storeVars
<1>5. ASSUME NEW r \in Runs, Prepare(r) PROVE RecordIsKept'
  BY <1>5 DEF Prepare, RecordEnd, Record, CancelRecord, runVars
<1>6. ASSUME NEW r \in Runs, StartFails(r) PROVE RecordIsKept'
  BY <1>6 DEF StartFails, Record, runVars
<1>7. ASSUME NEW r \in Runs, StartProcess(r) \/ SetPgid(r) \/ CheckContext(r) PROVE RecordIsKept'
  BY <1>7 DEF StartProcess, SetPgid, CheckContext, KillGroup, storeVars
<1>8. ASSUME NEW r \in Runs, CmdDone(r) \/ ContextDone(r) PROVE RecordIsKept'
  BY <1>8 DEF CmdDone, ContextDone, KillGroup, runVars, storeVars
<1>9. ASSUME NEW r \in Runs, Verdict(r) PROVE RecordIsKept'
  BY <1>9 DEF Verdict, RecordEnd, Record, CancelRecord, runVars
<1>10. ASSUME NEW r \in Runs, Leave(r) PROVE RecordIsKept'
  BY <1>10 DEF Leave, SaveRuns, storeVars
<1>11. ASSUME NEW r \in Runs, CancelCall(r) PROVE RecordIsKept'
  BY <1>11 DEF CancelCall, CancelRecord, runVars
<1>12. ASSUME NEW k \in Cancellers, CancelStore(k) PROVE RecordIsKept'
  BY <1>12 DEF CancelStore, CancelRecord, runVars
<1>13. ASSUME NEW k \in Cancellers, CancelContext(k) \/ CancelKill(k) PROVE RecordIsKept'
  BY <1>13 DEF CancelContext, CancelKill, KillGroup, storeVars
<1>14. CASE SaveCall
  BY <1>14 DEF SaveCall, SaveRuns, storeVars, runVars
<1>15. CASE Close
  <2>1. /\ main = "open" /\ UNCHANGED <<status, pc, deleter>>
        /\ cancel' = [k \in Cancellers |->
             IF k[1] = "close" /\ k[2] \in registered THEN "store" ELSE cancel[k]]
    BY <1>15 DEF Close, storeVars, runVars
  <2>2. ASSUME NEW k \in Cancellers, cancel'[k] \in {"no", "store"} PROVE cancel[k] \in {"no", "store"}
    <3>1. CASE k[1] = "close"
      <4>1. k = <<"close", k[2]>> /\ k[2] \in Runs
        BY <3>1
      <4>2. cancel[<<"close", k[2]>>] = "no"
        BY <2>1, <4>1
      <4> QED BY <4>1, <4>2
    <3>2. CASE k[1] # "close"
      BY <2>1, <2>2, <3>2
    <3> QED BY <3>1, <3>2
  <2> HIDE DEF Cancellers
  <2> QED BY <2>1, <2>2
<1>16. CASE EndCancels
  BY <1>16 DEF EndCancels, storeVars, runVars
<1>17. CASE SaveStopped
  BY <1>17 DEF SaveStopped, SaveRuns, storeVars, runVars
<1>18. CASE Load
  BY <1>18 DEF Load, runVars
<1>19. CASE DeleteTask
  BY <1>19 DEF DeleteTask, storeVars, runVars
<1>20. CASE DeleteRuns
  BY <1>20 DEF DeleteRuns, runVars
<1>21. CASE SaveDeletedTask \/ SaveDeletedRuns
  BY <1>21 DEF SaveDeletedTask, SaveDeletedRuns, SaveRuns, storeVars, runVars
<1>22. CASE Crash
  BY <1>22 DEF Crash, storeVars
<1>23. CASE UNCHANGED vars
  BY <1>23 DEF vars, storeVars, runVars
<1> QED
  BY <1>1, <1>2, <1>3, <1>4, <1>5, <1>6, <1>7, <1>8, <1>9, <1>10, <1>11, <1>12,
     <1>13, <1>14, <1>15, <1>16, <1>17, <1>18, <1>19, <1>20, <1>21, <1>22, <1>23
  DEF Next, Execute, Cancelling, Closing, Deleting

-----------------------------------------------------------------------------
\* One index lists each run that the other one knows once, and not too many.
Indexed(known, list) ==
  /\ list \in Seq(Runs) /\ Len(list) <= MaxRuns
  /\ \A i, j \in 1 .. Len(list) : list[i] = list[j] => i = j
  /\ Listed(list) = {r \in Runs : known[r] # "none"}

IndexesAgree == Indexed(status, order) /\ Indexed(disk.status, disk.order)

\* Create puts the new run before the others in both, and prunes both (runs.go:357-379).
LEMMA CreateIndexes ==
  ASSUME SimpleTypes, Indexed(status, order), NEW r \in Runs, status[r] = "none", Create(r)
  PROVE  Indexed(status', order')
<1> DEFINE n == IF Len(order) < MaxRuns THEN Len(order) + 1 ELSE MaxRuns
           s == <<r>> \o order
<1>1. MaxRuns \in Nat \ {0} /\ order \in Seq(Runs) /\ Len(order) \in Nat /\ Len(order) <= MaxRuns
  BY ExecutorAssumption DEF Indexed
<1>2. n \in 1 .. (Len(order) + 1) /\ n <= MaxRuns
  BY <1>1
<1>3. s \in Seq(Runs) /\ Len(s) = Len(order) + 1 /\ s[1] = r
      /\ \A i \in 2 .. Len(s) : s[i] = order[i - 1]
  BY <1>1
<1>4. order' = SubSeq(s, 1, n)
  BY DEF Create
<1>5. order' \in Seq(Runs) /\ Len(order') = n /\ \A i \in 1 .. n : order'[i] = s[i]
  BY <1>2, <1>3, <1>4
<1>6. \A i \in 1 .. Len(order) : order[i] # r
  BY DEF Indexed, Listed
<1>7. \A i, j \in 1 .. Len(order') : order'[i] = order'[j] => i = j
  <2> SUFFICES ASSUME NEW i \in 1 .. n, NEW j \in 1 .. n, s[i] = s[j] PROVE i = j
    BY <1>5
  <2>1. CASE i = 1
    BY <2>1, <1>2, <1>3, <1>6
  <2>2. CASE j = 1
    BY <2>2, <1>2, <1>3, <1>6
  <2>3. CASE i # 1 /\ j # 1
    <3>1. s[i] = order[i - 1] /\ s[j] = order[j - 1]
      BY <2>3, <1>2, <1>3
    <3>2. i - 1 \in 1 .. Len(order) /\ j - 1 \in 1 .. Len(order)
      BY <2>3, <1>1, <1>2
    <3>3. i - 1 = j - 1
      BY <3>1, <3>2 DEF Indexed
    <3> QED BY <3>3
  <2> QED BY <2>1, <2>2, <2>3
<1>8. \A q \in Runs : status'[q] # "none" <=> q \in Listed(order')
  <2> SUFFICES ASSUME NEW q \in Runs PROVE status'[q] # "none" <=> q \in Listed(order')
    OBVIOUS
  <2>1. status'[q] = IF q = r THEN "pending" ELSE IF q \in Listed(order') THEN status[q] ELSE "none"
    BY DEF Create, Listed
  <2>2. r \in Listed(order')
    BY <1>2, <1>3, <1>5 DEF Listed
  <2>3. ASSUME q \in Listed(order'), q # r PROVE status[q] # "none"
    <3>1. PICK i \in 1 .. n : s[i] = q
      BY <2>3, <1>5 DEF Listed
    <3>2. i # 1 /\ i - 1 \in 1 .. Len(order) /\ order[i - 1] = q
      BY <2>3, <3>1, <1>1, <1>2, <1>3
    <3> QED BY <3>2 DEF Indexed, Listed
  <2> QED BY <2>1, <2>2, <2>3
<1>9. Listed(order') \subseteq Runs
  BY <1>5 DEF Listed
<1> QED BY <1>2, <1>5, <1>7, <1>8, <1>9 DEF Indexed

\* A list without repetitions has as many members as places.
LEMMA ListCounts ==
  ASSUME NEW list \in Seq(Runs), \A i, j \in 1 .. Len(list) : list[i] = list[j] => i = j
  PROVE  Cardinality(Listed(list)) = Len(list)
<1>1. Len(list) \in Nat /\ IsFiniteSet(1 .. Len(list)) /\ Cardinality(1 .. Len(list)) = Len(list)
  BY FS_Interval
<1> DEFINE f == [i \in 1 .. Len(list) |-> list[i]]
<1>2. f \in Bijection(1 .. Len(list), Listed(list))
  <2>1. f \in [1 .. Len(list) -> Listed(list)]
    BY DEF Listed
  <2>2. \A i, j \in 1 .. Len(list) : f[i] = f[j] => i = j
    OBVIOUS
  <2>3. \A m \in Listed(list) : \E i \in 1 .. Len(list) : f[i] = m
    BY DEF Listed
  <2> QED BY <2>1, <2>2, <2>3 DEF Bijection, Injection, Surjection, IsInjective
<1>3. ExistsBijection(1 .. Len(list), Listed(list))
  BY <1>2 DEF ExistsBijection
<1> QED BY <1>1, <1>3, FS_Bijection

\* Where no record comes or goes the indexes stay as they are.
LEMMA SameRuns ==
  ASSUME NEW known, NEW known2, NEW list, Indexed(known, list),
         \A r \in Runs : known2[r] = "none" <=> known[r] = "none"
  PROVE  Indexed(known2, list)
BY DEF Indexed

\* The indexes agree in memory and in what is saved.
LEMMA IndexStep ==
  ASSUME SimpleTypes, StatusFitsStep, IndexesAgree, [Next]_vars
  PROVE  IndexesAgree'
<1> USE DEF IndexesAgree
<1>1. ASSUME NEW r \in Runs, Register(r) PROVE IndexesAgree'
  <2>1. disk' = disk
    BY <1>1 DEF Register
  <2>2. CASE UNCHANGED storeVars
    BY <2>1, <2>2 DEF storeVars
  <2>3. CASE Create(r)
    <3>1. status[r] = "none"
      BY <1>1 DEF Register, StatusFitsStep
    <3> QED BY <2>1, <2>3, <3>1, CreateIndexes
  <2> QED BY <1>1, <2>2, <2>3 DEF Register
<1>2. ASSUME order' = order, disk' = disk, \A r \in Runs : status'[r] = "none" <=> status[r] = "none"
      PROVE  IndexesAgree'
  BY <1>2, SameRuns
<1>3. ASSUME UNCHANGED storeVars, SaveRuns PROVE IndexesAgree'
  BY <1>3 DEF SaveRuns, storeVars
<1>4. ASSUME NEW r \in Runs,
             LookUp(r) \/ Expire(r) \/ Fork(r) \/ Exit(r) \/ StartProcess(r) \/ SetPgid(r) \/ CheckContext(r)
               \/ CmdDone(r) \/ ContextDone(r)
      PROVE  IndexesAgree'
  BY <1>2, <1>4
     DEF LookUp, Expire, Fork, Exit, StartProcess, SetPgid, CheckContext, CmdDone, ContextDone, storeVars
<1>5. ASSUME NEW r \in Runs,
             MarkRunning(r) \/ Prepare(r) \/ StartFails(r) \/ Verdict(r) \/ CancelCall(r)
      PROVE  IndexesAgree'
  <2>1. order' = order /\ disk' = disk
    BY <1>5 DEF MarkRunning, Prepare, StartFails, Verdict, CancelCall
  <2>2. \A q \in Runs : status'[q] = "none" <=> status[q] = "none"
    BY <1>5
       DEF MarkRunning, Prepare, StartFails, Verdict, CancelCall, RecordEnd, Record, CancelRecord, SetStatus,
           SimpleTypes, Active
  <2> QED BY <1>2, <2>1, <2>2
<1>6. ASSUME NEW k \in Cancellers, Cancelling(k) PROVE IndexesAgree'
  <2>1. order' = order /\ disk' = disk
    BY <1>6 DEF Cancelling, CancelStore, CancelContext, CancelKill, storeVars
  <2>2. \A q \in Runs : status'[q] = "none" <=> status[q] = "none"
    BY <1>6
       DEF Cancelling, CancelStore, CancelContext, CancelKill, storeVars, CancelRecord, SetStatus,
           SimpleTypes, Active
  <2> QED BY <1>2, <2>1, <2>2
<1>7. ASSUME NEW r \in Runs, Leave(r) PROVE IndexesAgree'
  BY <1>3, <1>7 DEF Leave
<1>8. CASE SaveCall \/ SaveStopped \/ SaveDeletedRuns
  BY <1>3, <1>8 DEF SaveCall, SaveStopped, SaveDeletedRuns
<1>9. CASE Close \/ EndCancels \/ DeleteTask \/ SaveDeletedTask \/ Crash \/ UNCHANGED vars
  BY <1>2, <1>9 DEF Close, EndCancels, DeleteTask, SaveDeletedTask, Crash, vars, storeVars
<1>10. CASE Load
  <2>1. /\ disk' = disk /\ order' = disk.order
        /\ \A r \in Runs : status'[r] = "none" <=> disk.status[r] = "none"
    BY <1>10 DEF Load, Active
  <2> QED BY <2>1, SameRuns
<1>11. CASE DeleteRuns
  <2>1. disk' = disk /\ order' = <<>> /\ \A r \in Runs : status'[r] = "none"
    BY <1>11 DEF DeleteRuns
  <2>2. Indexed(status', <<>>)
    BY <2>1, ExecutorAssumption DEF Indexed, Listed
  <2> QED BY <2>1, <2>2
<1> QED
  BY <1>1, <1>4, <1>5, <1>6, <1>7, <1>8, <1>9, <1>10, <1>11 DEF Next, Execute, Closing, Deleting

-----------------------------------------------------------------------------
\* All of it is invariant.
ExecutorInv == SimpleTypes /\ RunsInv /\ IndexesAgree

\* At the start.
LEMMA ExecutorStarts == Init => ExecutorInv
<1> SUFFICES ASSUME Init PROVE ExecutorInv
  OBVIOUS
<1>1. SimpleTypes
  BY ExecutorAssumption DEF Init, SimpleTypes, Statuses, Steps
<1>2. RunsInv
  BY DEF Init, RunsInv, StatusFitsStep, LoadStartsAfresh, OneActiveRecord, RecordIsKept,
         ActiveIsExecuting, StoppedIsIdle, ActiveRuns, Active, Executing, Cancellers
<1>3. IndexesAgree
  BY ExecutorAssumption DEF Init, IndexesAgree, Indexed, Listed
<1> QED BY <1>1, <1>2, <1>3 DEF ExecutorInv

\* Through every step of calls, goroutines, processes and crashes.
LEMMA ExecutorStays == ExecutorInv /\ [Next]_vars => ExecutorInv'
<1> SUFFICES ASSUME ExecutorInv, [Next]_vars PROVE ExecutorInv'
  OBVIOUS
<1>1. SimpleTypes /\ SimpleTypes' /\ RunsInv /\ IndexesAgree
  BY SimpleTypesStep DEF ExecutorInv
<1>2. RunsInv'
  BY <1>1, StatusStep, ActiveStep, RecordStep DEF RunsInv
<1>3. IndexesAgree'
  BY <1>1, IndexStep DEF RunsInv
<1> QED BY <1>1, <1>2, <1>3 DEF ExecutorInv

\* Always.
LEMMA ExecutorInvariant == Spec => []ExecutorInv
BY ExecutorStarts, ExecutorStays, PTL DEF Spec

\* What is invariant says the types.
LEMMA ExecutorTyped == ExecutorInv => TypeOK
<1> SUFFICES ASSUME ExecutorInv PROVE TypeOK
  OBVIOUS
<1>1. SimpleTypes /\ Indexed(status, order) /\ Indexed(disk.status, disk.order)
  BY DEF ExecutorInv, IndexesAgree
<1>2. Cardinality(Listed(order)) = Len(order)
  BY <1>1, ListCounts DEF Indexed
<1> QED BY <1>1, <1>2 DEF TypeOK, SimpleTypes, Indexed

\* Types, and the two indexes of the run store agree: byTask lists each stored run once
\* and never more than maxRunsPerTask (runs.go:56-62, 357-379).
THEOREM TypeCorrect == Spec => []TypeOK
BY ExecutorInvariant, ExecutorTyped, PTL

\* A task never has two runs under way, and a stopped executor has none
\* (executor.go:142-158, 447-467; runs.go:328-331).
THEOREM RunsStayAccounted == Spec => []RunsAreAccounted
<1>1. ExecutorInv => RunsAreAccounted
  <2> SUFFICES ASSUME ExecutorInv PROVE RunsAreAccounted
    OBVIOUS
  <2> DEFINE Under == {r \in Runs : /\ pc[r] \in Executing
                                    /\ \A k \in Cancellers : k[2] = r => cancel[k] \in {"no", "store"}}
  <2>1. ASSUME TaskStored PROVE Cardinality(Under) <= 1
    <3>1. \A q, r \in Under : q = r
      BY <2>1 DEF ExecutorInv, RunsInv, RecordIsKept, OneActiveRecord
    <3>2. CASE Under = {}
      BY <3>2, FS_EmptySet
    <3>3. CASE Under # {}
      <4>1. PICK r \in Under : Under = {r}
        BY <3>1, <3>3
      <4>2. Cardinality(Under) = 1
        BY <4>1, FS_Singleton
      <4> QED BY <4>2
    <3> QED BY <3>2, <3>3
  <2>2. OneActiveRun
    BY <2>1 DEF OneActiveRun
  <2> QED BY <2>2 DEF RunsAreAccounted, ExecutorInv, RunsInv
<1> QED BY <1>1, ExecutorInvariant, PTL

\* A final status is final until the record goes (runs.go:240-266).
THEOREM FinalStays == Spec => FinalIsFinal
<1> DEFINE Kept == main # "load" =>
             \A r \in Runs : status[r] \in Final => status'[r] \in {status[r], "none"}
<1>1. ExecutorInv /\ [Next]_vars => [Kept]_status
  <2> SUFFICES ASSUME SimpleTypes, StatusFitsStep, [Next]_vars, status' # status, main # "load",
                      NEW q \in Runs, status[q] \in Final
               PROVE  status'[q] \in {status[q], "none"}
    BY DEF ExecutorInv, RunsInv
  <2> USE DEF SimpleTypes, StatusFitsStep, Executing, Active, Final, SetStatus
  <2>1. ASSUME NEW r \in Runs, Register(r) PROVE status'[q] \in {status[q], "none"}
    BY <2>1 DEF Register, Create, storeVars
  <2>2. ASSUME NEW r \in Runs, MarkRunning(r) \/ CancelCall(r) PROVE status'[q] \in {status[q], "none"}
    BY <2>2 DEF MarkRunning, CancelCall, CancelRecord
  <2>3. ASSUME NEW r \in Runs, Prepare(r) \/ StartFails(r) \/ Verdict(r)
        PROVE  status'[q] \in {status[q], "none"}
    BY <2>3 DEF Prepare, StartFails, Verdict, RecordEnd, Record, CancelRecord
  <2>4. ASSUME NEW r \in Runs,
               LookUp(r) \/ Expire(r) \/ Fork(r) \/ Exit(r) \/ StartProcess(r) \/ SetPgid(r) \/ CheckContext(r)
                 \/ CmdDone(r) \/ ContextDone(r) \/ Leave(r)
        PROVE  FALSE
    BY <2>4
       DEF LookUp, Expire, Fork, Exit, StartProcess, SetPgid, CheckContext, CmdDone, ContextDone, Leave,
           storeVars
  <2>5. ASSUME NEW k \in Cancellers, Cancelling(k) PROVE status'[q] \in {status[q], "none"}
    BY <2>5 DEF Cancelling, CancelStore, CancelContext, CancelKill, CancelRecord, storeVars
  <2>6. CASE DeleteRuns
    BY <2>6 DEF DeleteRuns
  <2>7. CASE SaveCall \/ Close \/ EndCancels \/ SaveStopped \/ Load \/ DeleteTask \/ SaveDeletedTask
               \/ SaveDeletedRuns \/ Crash \/ UNCHANGED vars
    BY <2>7
       DEF SaveCall, Close, EndCancels, SaveStopped, Load, DeleteTask, SaveDeletedTask, SaveDeletedRuns, Crash,
           vars, storeVars
  <2> QED
    BY <2>1, <2>2, <2>3, <2>4, <2>5, <2>6, <2>7 DEF Next, Execute, Closing, Deleting
<1>2. []ExecutorInv /\ [][Next]_vars => [][Kept]_status
  BY <1>1, PTL
<1>3. [][Kept]_status => FinalIsFinal
  BY PTL DEF FinalIsFinal, Final
<1> QED BY <1>2, <1>3, ExecutorInvariant, PTL DEF Spec

-----------------------------------------------------------------------------
(* The executor among the other parts *)

\* All that is proved of the executor alone.
LEMMA ExecutorAlways == ServicesSpec => []ExecutorInv
<1>1. ServicesInit => ExecutorInv
  BY ExecutorStarts DEF ServicesInit
<1>2. ExecutorInv /\ [ServicesNext]_ServicesVars => ExecutorInv'
  BY ExecutorStays, PartSteps
<1> QED
  BY <1>1, <1>2, PTL DEF ServicesSpec

\* executor.go:142-211, runs.go:81-124: whatever else the daemon does, an active run has a
\* goroutine, after a restart too. This is the safety half of RunsEnd.
THEOREM RunsHaveGoroutines == ServicesSpec => []ActiveIsExecuting
<1>1. ExecutorInv => ActiveIsExecuting
  BY DEF ExecutorInv, RunsInv
<1> QED
  BY <1>1, ExecutorAlways, PTL

-----------------------------------------------------------------------------
(* The hub *)

ChanStates == {"none", "open", "closed", "panic"}
Events == [session : Sessions, type : {"bell", "ended"}]

\* What Publish changes keeps its type (events.go:121-145).
LEMMA PublishType ==
  ASSUME Hub!TypeOK, NEW s \in Sessions, NEW type \in {"bell", "ended"},
         Hub!Publish(s, type)
  PROVE  /\ hubChan' \in [Hub!Subscribers -> ChanStates]
         /\ hubQueue' \in [Hub!Subscribers -> Seq(Nat)]
         /\ hubLog' \in Seq(Events)
<1>1. CASE hubClosed
  BY <1>1 DEF Hub!Publish, Hub!TypeOK, ChanStates, Events
<1>2. CASE ~hubClosed
  <2>1. hubLog' \in Seq(Events)
    <3>1. hubLog \in Seq(Events)
      BY DEF Hub!TypeOK, Events
    <3>2. [session |-> s, type |-> type] \in Events
      BY DEF Events
    <3>3. hubLog' = Append(hubLog, [session |-> s, type |-> type])
      BY <1>2 DEF Hub!Publish
    <3> HIDE DEF Events
    <3> QED BY <3>1, <3>2, <3>3
  <2>2. hubChan' \in [Hub!Subscribers -> ChanStates]
    BY <1>2 DEF Hub!Publish, Hub!TypeOK, ChanStates, Hub!AfterSend
  <2>3. Len(hubLog) + 1 \in Nat
    BY DEF Hub!TypeOK
  <2>4. \A w \in Hub!Subscribers :
          hubQueue[w] \in Seq(Nat) /\ Append(hubQueue[w], Len(hubLog) + 1) \in Seq(Nat)
    BY <2>3 DEF Hub!TypeOK
  <2>5. hubQueue' \in [Hub!Subscribers -> Seq(Nat)]
    BY <1>2, <2>4 DEF Hub!Publish
  <2> QED BY <2>1, <2>2, <2>5
<1> QED BY <1>1, <1>2

\* The types at the start, and through every step.
LEMMA HubStarts == Hub!Init => Hub!TypeOK
<1> SUFFICES ASSUME Hub!Init PROVE Hub!TypeOK
  OBVIOUS
<1>1. hubQueue \in [Hub!Subscribers -> Seq(Nat)]
  <2>1. <<>> \in Seq(Nat)
    OBVIOUS
  <2> QED BY <2>1 DEF Hub!Init
<1>2. hubLog \in Seq([session : Sessions, type : {"bell", "ended"}])
  BY DEF Hub!Init
<1> QED BY <1>1, <1>2 DEF Hub!Init, Hub!TypeOK

\* events.go:85-163, lifecycle.go:356-399: each step of the hub, of its users and of the
\* shutdown.
LEMMA HubTyped == Hub!TypeOK /\ [Hub!Next]_hubVars => Hub!TypeOK'
<1> SUFFICES ASSUME Hub!TypeOK, [Hub!Next]_hubVars PROVE Hub!TypeOK'
  OBVIOUS
<1> USE DEF Hub!TypeOK
<1>1. ASSUME NEW w \in Hub!Subscribers, Hub!Arrive(w) PROVE Hub!TypeOK'
  BY <1>1 DEF Hub!Arrive, Hub!Subscribe, Hub!Goto, Hub!sessionVars
<1>2. ASSUME NEW w \in Hub!Subscribers, Hub!Receive(w) PROVE Hub!TypeOK'
  <2>1. Tail(hubQueue[w]) \in Seq(Nat)
    BY <1>2 DEF Hub!Receive
  <2> QED BY <1>2, <2>1 DEF Hub!Receive, Hub!Goto, Hub!sessionVars
<1>3. ASSUME NEW w \in Hub!Subscribers, Hub!Sent(w) PROVE Hub!TypeOK'
  BY <1>3 DEF Hub!Sent, Hub!Goto, Hub!hubVars, Hub!sessionVars
<1>4. ASSUME NEW w \in Hub!Subscribers, Hub!ChannelEnds(w) \/ Hub!HangUp(w)
      PROVE  Hub!TypeOK'
  BY <1>4 DEF Hub!ChannelEnds, Hub!HangUp, Hub!Goto, Hub!hubVars, Hub!sessionVars
<1>5. ASSUME NEW w \in Hub!Subscribers, Hub!Unsubscribe(w) PROVE Hub!TypeOK'
  BY <1>5 DEF Hub!Unsubscribe, Hub!Goto, Hub!sessionVars
<1>6. ASSUME NEW w \in Hub!Subscribers, Hub!CloseChannel(w) PROVE Hub!TypeOK'
  BY <1>6 DEF Hub!CloseChannel, Hub!Goto, Hub!AfterClose, Hub!sessionVars
<1>7. CASE Hub!WebhookDone
  BY <1>7 DEF Hub!WebhookDone, Hub!Goto, Hub!hubVars, Hub!sessionVars, Hub!Subscribers
<1>8. ASSUME NEW s \in Sessions, Hub!Ring(s) PROVE Hub!TypeOK'
  <2>1. Hub!Publish(s, "bell")
    BY <1>8 DEF Hub!Ring
  <2>2. hubBells' \in [Sessions -> Nat]
    BY <1>8 DEF Hub!Ring
  <2> QED BY <1>8, <2>1, <2>2, PublishType DEF Hub!Ring, ChanStates, Events
<1>9. ASSUME NEW s \in Sessions, Hub!Kill(s) \/ Hub!MarkDone(s) PROVE Hub!TypeOK'
  BY <1>9 DEF Hub!Kill, Hub!MarkDone, Hub!hubVars
<1>10. ASSUME NEW s \in Sessions, Hub!EmitEnded(s) PROVE Hub!TypeOK'
  <2>1. Hub!Publish(s, "ended")
    BY <1>10 DEF Hub!EmitEnded
  <2> QED BY <1>10, <2>1, PublishType DEF Hub!EmitEnded, ChanStates, Events
<1>11. CASE Hub!StopWebhook \/ Hub!WebhookStopped \/ Hub!SessionsClosed \/ Hub!Drained
  BY <1>11
     DEF Hub!StopWebhook, Hub!WebhookStopped, Hub!SessionsClosed, Hub!Drained,
         Hub!hubVars, Hub!sessionVars
<1>12. CASE Hub!CloseHub
  BY <1>12 DEF Hub!CloseHub, Hub!AfterClose, Hub!sessionVars
<1>13. CASE Hub!ForceStop
  BY <1>13 DEF Hub!ForceStop, Hub!Goto, Hub!hubVars, Hub!sessionVars
<1>14. CASE UNCHANGED hubVars
  BY <1>14 DEF hubVars, Hub!hubVars, Hub!sessionVars
<1> QED
  BY <1>1, <1>2, <1>3, <1>4, <1>5, <1>6, <1>7, <1>8, <1>9, <1>10, <1>11, <1>12, <1>13,
        <1>14
  DEF Hub!Next, Hub!Serve, Hub!SessionStep, Hub!StopSteps
-----------------------------------------------------------------------------
\* Who is registered has an open channel and a goroutine that will come to Unsubscribe;
\* whoever is about to close a channel is the one who took it out of the map.
ChannelsHaveOwners ==
  \A w \in Hub!Subscribers :
    /\ w \in hubSubscribers =>
         hubChan[w] = "open" /\ hubPc[w] \in {"receive", "send", "unsubscribe"}
    /\ hubPc[w] = "close" => hubChan[w] = "open" /\ w \notin hubSubscribers

\* The inductive form of NoChannelPanics.
ChanInv == ChannelsHaveOwners /\ Hub!NoChannelPanics /\ (hubClosed => hubSubscribers = {})

\* Publishing leaves channels as they are: it sends only where the channel is open
\* (events.go:133-144).
LEMMA PublishIsSafe ==
  ASSUME Hub!TypeOK, ChanInv, NEW s \in Sessions, NEW type, Hub!Publish(s, type)
  PROVE  hubChan' = hubChan
BY DEF Hub!Publish, Hub!TypeOK, ChanInv, ChannelsHaveOwners, Hub!AfterSend

\* No step gives a channel two owners, or takes an open one from who is registered.
LEMMA ChanStep == Hub!TypeOK /\ ChanInv /\ [Hub!Next]_hubVars => ChanInv'
<1> SUFFICES ASSUME Hub!TypeOK, ChanInv, [Hub!Next]_hubVars PROVE ChanInv'
  OBVIOUS
<1> USE DEF ChanInv, ChannelsHaveOwners, Hub!NoChannelPanics, Hub!TypeOK
<1>1. ASSUME NEW w \in Hub!Subscribers, Hub!Arrive(w) PROVE ChanInv'
  BY <1>1 DEF Hub!Arrive, Hub!Subscribe, Hub!Goto
<1>2. ASSUME NEW w \in Hub!Subscribers, Hub!Receive(w) \/ Hub!Sent(w) PROVE ChanInv'
  BY <1>2 DEF Hub!Receive, Hub!Sent, Hub!Goto, Hub!hubVars
<1>3. ASSUME NEW w \in Hub!Subscribers, Hub!ChannelEnds(w) \/ Hub!HangUp(w) PROVE ChanInv'
  BY <1>3 DEF Hub!ChannelEnds, Hub!HangUp, Hub!Goto, Hub!hubVars
<1>4. ASSUME NEW w \in Hub!Subscribers, Hub!Unsubscribe(w) PROVE ChanInv'
  BY <1>4 DEF Hub!Unsubscribe, Hub!Goto
<1>5. ASSUME NEW w \in Hub!Subscribers, Hub!CloseChannel(w) PROVE ChanInv'
  BY <1>5 DEF Hub!CloseChannel, Hub!Goto, Hub!AfterClose
<1>6. CASE Hub!WebhookDone
  BY <1>6 DEF Hub!WebhookDone, Hub!Goto, Hub!hubVars, Hub!Subscribers
<1>7. ASSUME NEW s \in Sessions, Hub!Ring(s) \/ Hub!EmitEnded(s) PROVE ChanInv'
  <2>1. hubChan' = hubChan
    BY <1>7, PublishIsSafe DEF Hub!Ring, Hub!EmitEnded
  <2> QED BY <1>7, <2>1 DEF Hub!Ring, Hub!EmitEnded
<1>8. ASSUME NEW s \in Sessions, Hub!Kill(s) \/ Hub!MarkDone(s) PROVE ChanInv'
  BY <1>8 DEF Hub!Kill, Hub!MarkDone, Hub!hubVars
<1>9. CASE Hub!StopWebhook \/ Hub!WebhookStopped \/ Hub!SessionsClosed \/ Hub!Drained
  BY <1>9
     DEF Hub!StopWebhook, Hub!WebhookStopped, Hub!SessionsClosed, Hub!Drained,
         Hub!hubVars
<1>10. CASE Hub!CloseHub
  BY <1>10 DEF Hub!CloseHub, Hub!AfterClose
<1>11. CASE Hub!ForceStop
  BY <1>11 DEF Hub!ForceStop, Hub!Goto, Hub!hubVars
<1>12. CASE UNCHANGED hubVars
  BY <1>12 DEF hubVars, Hub!hubVars
<1> QED
  BY <1>1, <1>2, <1>3, <1>4, <1>5, <1>6, <1>7, <1>8, <1>9, <1>10, <1>11, <1>12
  DEF Hub!Next, Hub!Serve, Hub!SessionStep, Hub!StopSteps

-----------------------------------------------------------------------------
\* No step of a shutdown comes before the webhook's goroutine is gone.
LEMMA WebhookStep ==
  Hub!TypeOK /\ Hub!WebhookIsQuiet /\ [Hub!Next]_hubVars => Hub!WebhookIsQuiet'
<1> SUFFICES ASSUME Hub!TypeOK, Hub!WebhookIsQuiet, [Hub!Next]_hubVars
             PROVE  Hub!WebhookIsQuiet'
  OBVIOUS
<1> Webhook \in Hub!Subscribers
  BY DEF Hub!Subscribers
<1> USE DEF Hub!WebhookIsQuiet, Hub!TypeOK
<1>1. ASSUME NEW w \in Hub!Subscribers, Hub!Arrive(w) PROVE Hub!WebhookIsQuiet'
  BY <1>1 DEF Hub!Arrive, Hub!Goto
<1>2. ASSUME NEW w \in Hub!Subscribers,
             Hub!Receive(w) \/ Hub!Sent(w) \/ Hub!ChannelEnds(w) \/ Hub!HangUp(w)
             \/ Hub!Unsubscribe(w)
             \/ Hub!CloseChannel(w)
      PROVE  Hub!WebhookIsQuiet'
  BY <1>2
     DEF Hub!Receive, Hub!Sent, Hub!ChannelEnds, Hub!HangUp, Hub!Unsubscribe,
         Hub!CloseChannel, Hub!Goto
<1>3. CASE Hub!WebhookDone
  BY <1>3 DEF Hub!WebhookDone, Hub!Goto
<1>4. ASSUME NEW s \in Sessions, Hub!SessionStep(s) PROVE Hub!WebhookIsQuiet'
  BY <1>4 DEF Hub!SessionStep, Hub!Ring, Hub!Kill, Hub!MarkDone, Hub!EmitEnded
<1>5. CASE Hub!StopWebhook \/ Hub!WebhookStopped \/ Hub!SessionsClosed \/ Hub!CloseHub
           \/ Hub!Drained
  BY <1>5
     DEF Hub!StopWebhook, Hub!WebhookStopped, Hub!SessionsClosed, Hub!CloseHub,
         Hub!Drained
<1>6. CASE Hub!ForceStop
  BY <1>6 DEF Hub!ForceStop, Hub!Goto
<1>7. CASE UNCHANGED hubVars
  BY <1>7 DEF hubVars
<1> QED BY <1>1, <1>2, <1>3, <1>4, <1>5, <1>6, <1>7 DEF Hub!Next, Hub!Serve, Hub!StopSteps

-----------------------------------------------------------------------------
\* doneOnce stands between a session and a second end.
ToldOnce ==
  \A s \in Sessions :
    /\ \A i, j \in Hub!EndsOf(s) : i = j
    /\ hubOnce[s] # "told" => Hub!EndsOf(s) = {}

\* A session that has told was heard, unless the hub had been closed.
ToldIsHeard == \A s \in Sessions : hubOnce[s] = "told" /\ ~hubClosed => Hub!EndsOf(s) # {}

\* The hub is closed after the sessions that the manager had have told.
HubOutlivesSessions ==
  /\ hubServer \in {"hub", "drain", "stopped"} => \A s \in hubManaged : hubOnce[s] = "told"
  /\ hubClosed => hubServer \in {"drain", "stopped"} /\ \A s \in hubManaged : Hub!EndsOf(s) # {}

\* The inductive form of EndsAreTold.
EndInv == ToldOnce /\ ToldIsHeard /\ HubOutlivesSessions

\* An event adds itself to the ends of its session, if it is one, and to no other's
\* (events.go:121-145).
LEMMA PublishEnds ==
  ASSUME Hub!TypeOK, NEW s \in Sessions, NEW type \in {"bell", "ended"},
         Hub!Publish(s, type),
         NEW t \in Sessions
  PROVE  Hub!EndsOf(t)' = IF ~hubClosed /\ t = s /\ type = "ended"
                      THEN Hub!EndsOf(t) \cup {Len(hubLog) + 1} ELSE Hub!EndsOf(t)
<1>1. CASE hubClosed
  BY <1>1 DEF Hub!Publish, Hub!EndsOf
<1>2. CASE ~hubClosed
  <2> DEFINE e == [session |-> s, type |-> type]
  <2>1. hubLog \in Seq(Events) /\ e \in Events /\ hubLog' = Append(hubLog, e)
    BY <1>2 DEF Hub!Publish, Hub!TypeOK, Events
  <2>2. DOMAIN hubLog = 1 .. Len(hubLog) /\ Len(hubLog) \in Nat
    BY <2>1
  <2>3. DOMAIN hubLog' = 1 .. (Len(hubLog) + 1)
    BY <2>1
  <2>4. /\ \A i \in 1 .. Len(hubLog) : hubLog'[i] = hubLog[i]
        /\ hubLog'[Len(hubLog) + 1] = e
    BY <2>1
  <2>5. e = [session |-> t, type |-> "ended"] <=> t = s /\ type = "ended"
    OBVIOUS
  <2> HIDE DEF e
  <2> QED BY <1>2, <2>2, <2>3, <2>4, <2>5 DEF Hub!EndsOf
<1> QED BY <1>1, <1>2

\* No step tells twice, or closes the hub before a session of the manager has told.
LEMMA EndStep == Hub!TypeOK /\ EndInv /\ [Hub!Next]_hubVars => EndInv'
<1> SUFFICES ASSUME Hub!TypeOK, EndInv, [Hub!Next]_hubVars PROVE EndInv'
  OBVIOUS
<1> USE DEF EndInv, ToldOnce, ToldIsHeard, HubOutlivesSessions
<1>a. ASSUME UNCHANGED <<hubLog, hubClosed, hubOnce, hubManaged, hubServer>> PROVE EndInv'
  BY <1>a DEF Hub!EndsOf
<1>b. ASSUME UNCHANGED hubLog PROVE \A s \in Sessions : Hub!EndsOf(s)' = Hub!EndsOf(s)
  BY <1>b DEF Hub!EndsOf
<1>1. ASSUME NEW w \in Hub!Subscribers, Hub!Serve(w) PROVE EndInv'
  BY <1>1, <1>a
     DEF Hub!Serve, Hub!Arrive, Hub!Receive, Hub!Sent, Hub!ChannelEnds, Hub!HangUp,
         Hub!Unsubscribe, Hub!CloseChannel,
                    Hub!hubVars, Hub!sessionVars
<1>2. CASE Hub!WebhookDone
  BY <1>2, <1>a DEF Hub!WebhookDone, Hub!hubVars, Hub!sessionVars
<1>3. ASSUME NEW s \in Sessions, Hub!Ring(s) PROVE EndInv'
  <2>1. Hub!Publish(s, "bell") /\ UNCHANGED <<hubClosed, hubOnce, hubManaged, hubServer>>
    BY <1>3 DEF Hub!Ring
  <2>2. \A t \in Sessions : Hub!EndsOf(t)' = Hub!EndsOf(t)
    BY <2>1, PublishEnds
  <2> QED BY <2>1, <2>2 DEF Hub!TypeOK
<1>4. ASSUME NEW s \in Sessions, Hub!Kill(s) PROVE EndInv'
  <2>1. hubManaged' \subseteq hubManaged /\ UNCHANGED <<hubLog, hubClosed, hubOnce, hubServer>>
    BY <1>4 DEF Hub!Kill, Hub!hubVars
  <2> QED BY <1>4, <2>1, <1>b DEF Hub!TypeOK
<1>5. ASSUME NEW s \in Sessions, Hub!MarkDone(s) PROVE EndInv'
  <2>1. /\ hubOnce' = [hubOnce EXCEPT ![s] = "marked"] /\ hubOnce[s] = "live"
        /\ UNCHANGED <<hubLog, hubClosed, hubManaged, hubServer>>
    BY <1>5 DEF Hub!MarkDone, Hub!hubVars
  <2> QED BY <2>1, <1>b DEF Hub!TypeOK
<1>6. ASSUME NEW s \in Sessions, Hub!EmitEnded(s) PROVE EndInv'
  <2>1. /\ Hub!Publish(s, "ended") /\ hubOnce[s] = "marked"
        /\ hubOnce' = [hubOnce EXCEPT ![s] = "told"]
        /\ UNCHANGED <<hubClosed, hubManaged, hubServer>>
    BY <1>6 DEF Hub!EmitEnded
  <2>2. \A t \in Sessions :
          Hub!EndsOf(t)' = IF ~hubClosed /\ t = s
                           THEN Hub!EndsOf(t) \cup {Len(hubLog) + 1}
                           ELSE Hub!EndsOf(t)
    BY <2>1, PublishEnds
  <2>3. Hub!EndsOf(s) = {}
    BY <2>1
  <2>4. \A t \in Sessions : hubOnce'[t] = IF t = s THEN "told" ELSE hubOnce[t]
    BY <2>1 DEF Hub!TypeOK
  <2>5. ToldOnce'
    <3> SUFFICES ASSUME NEW t \in Sessions
                 PROVE  /\ \A i, j \in Hub!EndsOf(t)' : i = j
                        /\ hubOnce'[t] # "told" => Hub!EndsOf(t)' = {}
      OBVIOUS
    <3>1. CASE t = s
      BY <2>2, <2>3, <2>4, <3>1
    <3>2. CASE t # s
      BY <2>2, <2>4, <3>2
    <3> QED BY <3>1, <3>2
  <2>6. ToldIsHeard'
    <3> SUFFICES ASSUME NEW t \in Sessions, hubOnce'[t] = "told", ~hubClosed'
                 PROVE  Hub!EndsOf(t)' # {}
      OBVIOUS
    <3>1. ~hubClosed
      BY <2>1
    <3>2. CASE t = s
      BY <2>2, <3>1, <3>2
    <3>3. CASE t # s
      BY <2>2, <2>4, <3>1, <3>3
    <3> QED BY <3>2, <3>3
  <2>7. HubOutlivesSessions'
    BY <2>1, <2>2, <2>4 DEF Hub!TypeOK
  <2> QED BY <2>5, <2>6, <2>7
<1>7. CASE Hub!StopWebhook \/ Hub!WebhookStopped \/ Hub!SessionsClosed \/ Hub!Drained
  <2>1. UNCHANGED <<hubLog, hubClosed, hubOnce, hubManaged>>
    BY <1>7
       DEF Hub!StopWebhook, Hub!WebhookStopped, Hub!SessionsClosed, Hub!Drained,
           Hub!hubVars, Hub!sessionVars
  <2>2. ToldOnce' /\ ToldIsHeard'
    BY <2>1, <1>b
  <2>3. hubClosed => hubServer \in {"drain", "stopped"} /\ hubServer' \in {"drain", "stopped"}
    BY <1>7 DEF Hub!StopWebhook, Hub!WebhookStopped, Hub!SessionsClosed, Hub!Drained
  <2>4. hubServer' \in {"hub", "drain", "stopped"} => \A s \in hubManaged : hubOnce[s] = "told"
    BY <1>7 DEF Hub!StopWebhook, Hub!WebhookStopped, Hub!SessionsClosed, Hub!Drained
  <2>5. HubOutlivesSessions'
    BY <2>1, <2>3, <2>4, <1>b DEF Hub!TypeOK
  <2> QED BY <2>2, <2>5
<1>8. CASE Hub!CloseHub
  <2>1. UNCHANGED <<hubLog, hubOnce, hubManaged>> /\ hubServer = "hub"
        /\ hubServer' = "drain" /\ hubClosed'
    BY <1>8 DEF Hub!CloseHub, Hub!sessionVars
  <2> QED BY <2>1, <1>b DEF Hub!TypeOK
<1>9. CASE Hub!ForceStop
  BY <1>9, <1>a DEF Hub!ForceStop, Hub!hubVars, Hub!sessionVars
<1>10. CASE UNCHANGED hubVars
  BY <1>10, <1>a DEF hubVars, Hub!hubVars, Hub!sessionVars
<1> QED BY <1>1, <1>2, <1>3, <1>4, <1>5, <1>6, <1>7, <1>8, <1>9, <1>10
        DEF Hub!Next, Hub!SessionStep, Hub!StopSteps

HubInv == Hub!TypeOK /\ ChanInv /\ Hub!WebhookIsQuiet /\ EndInv

\* Through every interleaving of subscribers, sessions and the shutdown.
LEMMA HubAlways == ServicesSpec => []HubInv
<1>1. ServicesInit => HubInv
  <2> SUFFICES ASSUME Hub!Init PROVE HubInv
    BY DEF ServicesInit
  <2>1. ChanInv
    BY DEF Hub!Init, ChanInv, ChannelsHaveOwners, Hub!NoChannelPanics
  <2>2. Hub!WebhookIsQuiet
    BY DEF Hub!Init, Hub!WebhookIsQuiet
  <2>3. EndInv
    BY DEF Hub!Init, EndInv, ToldOnce, ToldIsHeard, HubOutlivesSessions, Hub!EndsOf
  <2> QED
    BY <2>1, <2>2, <2>3, HubStarts DEF HubInv
<1>2. HubInv /\ [ServicesNext]_ServicesVars => HubInv'
  BY HubTyped, ChanStep, WebhookStep, EndStep, PartSteps DEF HubInv
<1> QED
  BY <1>1, <1>2, PTL DEF ServicesSpec

\* No goroutine sends on a closed channel or closes one twice, although Unsubscribe gives
\* the mutex up before it closes (events.go:105-117, 133-144, 158-163).
THEOREM ChannelsNeverPanic == ServicesSpec => []NoChannelPanics
<1>1. HubInv => NoChannelPanics
  BY DEF HubInv, ChanInv, NoChannelPanics
<1> QED
  BY <1>1, HubAlways, PTL

\* The webhook has gone before a session is closed for the shutdown: its end is not pushed
\* (lifecycle.go:356-359, webhook.go:95-101).
THEOREM WebhookGoesFirst == ServicesSpec => []Hub!WebhookIsQuiet
<1>1. HubInv => Hub!WebhookIsQuiet
  BY DEF HubInv
<1> QED
  BY <1>1, HubAlways, PTL

\* A session tells of its end once at most, and no watcher misses the end of a session that
\* the shutdown closes (lifecycle.go:372-375, session.go:262-279).
THEOREM NoEndIsLost == ServicesSpec => []Hub!EndsAreTold
<1>1. HubInv => Hub!EndsAreTold
  BY DEF HubInv, EndInv, ToldOnce, HubOutlivesSessions, Hub!EndsAreTold
<1> QED
  BY <1>1, HubAlways, PTL

-----------------------------------------------------------------------------
(* The tunnel *)

LinkInv == Link!TypeOK /\ (tunConnect = "backoff" => tunAttempt < MaxRetries)

\* client.go:230-342: each step of the connection, the tunnel and the link.
LEMMA LinkStays == ASSUME LinkInv, [Link!Next]_tunVars PROVE LinkInv'
<1> USE ServicesAssumption DEF LinkInv, Link!TypeOK, Link!linkVars, Link!connVars,
      Link!NoConn
<1>1. CASE Link!DialFails
  BY <1>1 DEF Link!DialFails
<1>2. CASE Link!DialSucceeds
  BY <1>2 DEF Link!DialSucceeds
<1>3. CASE Link!Listen
  BY <1>3 DEF Link!Listen
<1>4. CASE Link!NewClient
  BY <1>4 DEF Link!NewClient
<1>5. CASE Link!Backoff
  BY <1>5 DEF Link!Backoff
<1>6. ASSUME NEW n \in Conns, Link!Accept(n) PROVE LinkInv'
  BY <1>6 DEF Link!Accept
<1>7. CASE Link!AcceptFails
  BY <1>7 DEF Link!AcceptFails
<1>8. CASE Link!DialRemote
  BY <1>8 DEF Link!DialRemote
<1>9. ASSUME NEW n \in Conns, NEW pinged \in BOOLEAN, Link!CopyUpEnds(n, pinged)
      PROVE  LinkInv'
  BY <1>9 DEF Link!CopyUpEnds
<1>10. ASSUME NEW n \in Conns, Link!CopyDownEnds(n) PROVE LinkInv'
  BY <1>10 DEF Link!CopyDownEnds
<1>11. ASSUME NEW n \in Conns, Link!CloseConns(n) PROVE LinkInv'
  BY <1>11 DEF Link!CloseConns
<1>12. ASSUME NEW n \in Conns, Link!GrpcDials(n) PROVE LinkInv'
  BY <1>12 DEF Link!GrpcDials
<1>13. ASSUME NEW n \in Conns, Link!PingTimesOut(n) PROVE LinkInv'
  BY <1>13 DEF Link!PingTimesOut
<1>14. CASE Link!DaemonStops
  BY <1>14 DEF Link!DaemonStops
<1>15. CASE Link!DaemonStarts
  BY <1>15 DEF Link!DaemonStarts
<1>16. CASE Link!LinkDies
  BY <1>16 DEF Link!LinkDies
<1>17. CASE Link!Close
  BY <1>17 DEF Link!Close
<1>18. CASE UNCHANGED tunVars
  BY <1>18 DEF tunVars
<1> QED
  BY <1>1, <1>2, <1>3, <1>4, <1>5, <1>6, <1>7, <1>8, <1>9, <1>10, <1>11, <1>12, <1>13,
     <1>14, <1>15, <1>16, <1>17, <1>18
  DEF Link!Next, Link!ConnectStep, Link!Forward, Link!CopyStep, Link!Keepalive, Link!Ping

\* Whatever becomes of connections, link and daemon.
LEMMA LinkAlways == ServicesSpec => []LinkInv
<1>1. ServicesInit => LinkInv
  BY ServicesAssumption DEF ServicesInit, Link!Init, LinkInv, Link!TypeOK, Link!NoConn
<1>2. LinkInv /\ [ServicesNext]_ServicesVars => LinkInv'
  BY LinkStays, PartSteps
<1> QED
  BY <1>1, <1>2, PTL DEF ServicesSpec

-----------------------------------------------------------------------------
(* The chord, as it is read off the keys *)

AKeys == Attach!Keys

\* n prefixes stand before i, and no more.
IsRun(keys, i, n) ==
  /\ n \in 0..(i - 1)
  /\ \A j \in (i - n)..(i - 1) : keys[j] = "^B"
  /\ n = i - 1 \/ keys[i - n - 1] # "^B"

\* They can be counted in one way only.
LEMMA RunIsUnique ==
  ASSUME NEW keys, NEW i \in Nat \ {0}, NEW m, NEW n, IsRun(keys, i, m), IsRun(keys, i, n)
  PROVE  m = n
BY DEF IsRun

\* The prefixes are found before each key.
LEMMA RunsExist ==
  ASSUME NEW keys, NEW N \in Nat
  PROVE  \A i \in 1..N : \E n : IsRun(keys, i, n)
<1> SUFFICES ASSUME NEW i \in 1..N PROVE \E n : IsRun(keys, i, n)
  OBVIOUS
<1> DEFINE Counted == {k \in 0..i : k = 0 \/ \E n : IsRun(keys, k, n)}
<1>1. 0 \in Counted
  OBVIOUS
<1>2. ASSUME NEW k \in 0..i, k \in Counted, k # i PROVE k + 1 \in Counted
  <2>1. CASE k = 0
    <3>1. IsRun(keys, 1, 0)
      BY DEF IsRun
    <3> QED
      BY <2>1, <3>1
  <2>2. CASE k # 0 /\ keys[k] # "^B"
    <3>1. IsRun(keys, k + 1, 0)
      BY <2>2 DEF IsRun
    <3> QED
      BY <1>2, <3>1
  <2>3. CASE k # 0 /\ keys[k] = "^B"
    <3>1. PICK n : IsRun(keys, k, n)
      BY <1>2, <2>3
    <3>2. IsRun(keys, k + 1, n + 1)
      BY <2>3, <3>1 DEF IsRun
    <3> QED
      BY <1>2, <3>2
  <2> QED
    BY <2>1, <2>2, <2>3
<1>3. i \in Counted
  <2> HIDE DEF Counted
  <2> QED
    BY <1>1, <1>2, Climb
<1> QED
  BY <1>3

\* So RunBefore is their number.
LEMMA RunBeforeIs ==
  ASSUME NEW keys, NEW i \in Nat \ {0}
  PROVE  IsRun(keys, i, Attach!RunBefore(keys, i))
<1>1. \E n : IsRun(keys, i, n)
  BY RunsExist
<1>2. \E n \in 0..(i - 1) : /\ \A j \in (i - n)..(i - 1) : keys[j] = "^B"
                            /\ n = i - 1 \/ keys[i - n - 1] # "^B"
  BY <1>1 DEF IsRun
<1> QED
  BY <1>2 DEF IsRun, Attach!RunBefore

\* A prefix opens a chord unless the one before it does.
LEMMA OpensNext ==
  ASSUME NEW keys, NEW i \in Nat \ {0}
  PROVE  /\ Attach!OpensChord(keys, i) \in BOOLEAN
         /\ Attach!OpensChord(keys, i) <=>
              keys[i] = "^B" /\ ~(i > 1 /\ Attach!OpensChord(keys, i - 1))
<1>1. IsRun(keys, i, Attach!RunBefore(keys, i))
  BY RunBeforeIs
<1>2. CASE i = 1
  <2>1. Attach!RunBefore(keys, i) = 0
    BY <1>1, <1>2 DEF IsRun
  <2> QED
    BY <1>2, <2>1 DEF Attach!OpensChord
<1>3. CASE i > 1 /\ keys[i - 1] # "^B"
  <2>1. IsRun(keys, i, 0)
    BY <1>3 DEF IsRun
  <2>2. Attach!RunBefore(keys, i) = 0
    BY <1>1, <2>1, RunIsUnique
  <2> QED
    BY <1>3, <2>2 DEF Attach!OpensChord
<1>4. CASE i > 1 /\ keys[i - 1] = "^B"
  <2> DEFINE r == Attach!RunBefore(keys, i - 1)
  <2>1. IsRun(keys, i - 1, r)
    BY <1>4, RunBeforeIs
  <2>2. IsRun(keys, i, r + 1) /\ r \in Nat
    BY <1>4, <2>1 DEF IsRun
  <2>3. Attach!RunBefore(keys, i) = r + 1
    BY <1>1, <2>2, RunIsUnique
  <2>4. (r + 1) % 2 = 0 <=> r % 2 # 0
    <3> HIDE DEF r
    <3> QED
      BY <2>2
  <2> QED
    BY <1>4, <2>3, <2>4 DEF Attach!OpensChord
<1> QED
  BY <1>2, <1>3, <1>4

\* A chord is complete among the first n keys.
ChordIn(keys, n) == \E i \in 1..n : Attach!Completes(keys, i)

LEMMA ChordNext ==
  ASSUME NEW keys, NEW n \in Nat \ {0}
  PROVE  ChordIn(keys, n) <=> ChordIn(keys, n - 1) \/ Attach!Completes(keys, n)
<1>1. 1..n = (1..(n - 1)) \cup {n}
  OBVIOUS
<1> QED
  BY <1>1 DEF ChordIn

\* What is typed later changes nothing of it.
LEMMA LaterKeys ==
  ASSUME NEW keys \in Seq(AKeys), NEW k \in AKeys, NEW i \in 1..Len(keys)
  PROVE  /\ Attach!OpensChord(Append(keys, k), i) = Attach!OpensChord(keys, i)
         /\ Attach!Completes(Append(keys, k), i) = Attach!Completes(keys, i)
         /\ Attach!Given(Append(keys, k), i) = Attach!Given(keys, i)
<1> DEFINE more == Append(keys, k)
<1>1. \A j \in 1..Len(keys) : more[j] = keys[j]
  OBVIOUS
<1>2. Len(keys) \in Nat
  OBVIOUS
<1> HIDE DEF more
<1>3. ASSUME NEW j \in 1..Len(keys)
      PROVE  Attach!OpensChord(more, j) = Attach!OpensChord(keys, j)
  <2>1. IsRun(keys, j, Attach!RunBefore(keys, j))
    BY RunBeforeIs
  <2>2. IsRun(more, j, Attach!RunBefore(more, j))
    BY RunBeforeIs
  <2>3. IsRun(more, j, Attach!RunBefore(keys, j))
    BY <1>1, <1>2, <2>1, SMTT(30) DEF IsRun
  <2>4. Attach!RunBefore(more, j) = Attach!RunBefore(keys, j)
    BY <2>2, <2>3, RunIsUnique
  <2> QED
    BY <1>1, <2>4 DEF Attach!OpensChord
<1>4. Attach!OpensChord(more, i) = Attach!OpensChord(keys, i)
  BY <1>3
<1>5. i > 1 => Attach!OpensChord(more, i - 1) = Attach!OpensChord(keys, i - 1)
  BY <1>2, <1>3
<1>6. more[i] = keys[i]
  BY <1>1
<1>7. Attach!Completes(more, i) = Attach!Completes(keys, i)
  BY <1>5, <1>6 DEF Attach!Completes
<1>8. Attach!Given(more, i) = Attach!Given(keys, i)
  BY <1>4, <1>5, <1>6 DEF Attach!Given
<1> QED
  BY <1>4, <1>7, <1>8 DEF more

\* What goes to the session for a key are keys.
LEMMA GivenTyped ==
  ASSUME NEW keys \in Seq(AKeys), NEW i \in 1..Len(keys)
  PROVE  Attach!Given(keys, i) \in Seq(AKeys)
<1>1. keys[i] \in AKeys /\ "^B" \in AKeys
  BY DEF AKeys, Attach!Keys
<1>2. <<>> \in Seq(AKeys) /\ <<"^B">> \in Seq(AKeys) /\ <<keys[i]>> \in Seq(AKeys)
      /\ <<"^B", keys[i]>> \in Seq(AKeys)
  BY <1>1
<1>3. Attach!Given(keys, i) \in {<<>>, <<"^B">>, <<keys[i]>>, <<"^B", keys[i]>>}
  BY DEF Attach!Given
<1> QED
  BY <1>2, <1>3

\* Forwarded is the function its recursion describes.
LEMMA ForwardedIs ==
  ASSUME NEW keys \in Seq(AKeys)
  PROVE  LET F == Attach!Forwarded(keys) IN
         /\ F[0] = <<>>
         /\ \A n \in 0..Len(keys) : F[n] \in Seq(AKeys)
         /\ \A n \in 1..Len(keys) :
              F[n] = IF ChordIn(keys, n) THEN F[n - 1] ELSE F[n - 1] \o Attach!Given(keys, n)
<1> DEFINE N == Len(keys)
           Out == Seq(AKeys)
           Onward(s, n) == IF \E i \in 1..n : Attach!Completes(keys, i) THEN s
                         ELSE s \o Attach!Given(keys, n)
           step == [n \in 0..N |-> [s \in Out |-> IF n = 0 THEN s ELSE Onward(s, n)]]
           After(f) == f = [n \in 0..N |->
             IF n = 0 THEN <<>>
             ELSE IF \E i \in 1..n : Attach!Completes(keys, i) THEN f[n - 1]
             ELSE f[n - 1] \o Attach!Given(keys, n)]
<1>1. N \in Nat /\ <<>> \in Out
  OBVIOUS
<1>2. ASSUME NEW n \in 0..N, NEW s \in Out, n # 0 PROVE Onward(s, n) \in Out
  <2>1. Attach!Given(keys, n) \in Out
    BY <1>1, <1>2, GivenTyped
  <2> QED
    BY <2>1, ConcatProperties
<1>3. IsStepOn(step, N, Out)
  <2> HIDE DEF N, Out, Onward
  <2> QED
    BY <1>2 DEF IsStepOn
<1>4. PICK f : Iterates(f, N, Out, <<>>, step)
  <2> HIDE DEF N, Out, step
  <2> QED
    BY <1>1, <1>3, StepsIterate
<1>5. f[0] = <<>> /\ \A n \in 0..N : f[n] \in Out
  <2> HIDE DEF N, Out, step
  <2> QED
    BY <1>4 DEF Iterates
<1>6. ASSUME NEW n \in 0..N, n # 0 PROVE f[n] = Onward(f[n - 1], n)
  <2>1. n - 1 \in 0..N
    BY <1>1, <1>6
  <2>2. f[n] = step[n][f[n - 1]]
    <3> HIDE DEF N, Out, step
    <3> QED
      BY <1>4, <1>6 DEF Iterates
  <2>3. f[n - 1] \in Out
    BY <1>5, <2>1
  <2> HIDE DEF N, Out, Onward
  <2> QED
    BY <1>6, <2>2, <2>3
<1>7. After(f)
  <2>1. f = [n \in 0..N |-> f[n]]
    <3> HIDE DEF N, Out, step
    <3> QED
      BY <1>4 DEF Iterates
  <2> HIDE DEF N, Out, step
  <2> QED
    BY <1>5, <1>6, <2>1
<1> DEFINE F == Attach!Forwarded(keys)
<1>8. After(F)
  <2>1. \E g : After(g)
    BY <1>7
  <2> QED
    BY <2>1, Zenon DEF Attach!Forwarded
<1> HIDE DEF F
<1>9. F[0] = <<>> /\ \A n \in 0..N : n # 0 => F[n] = Onward(F[n - 1], n)
  <2>1. 0 \in 0..N
    BY <1>1
  <2>2. F[0] = <<>>
    <3> HIDE DEF N
    <3> QED
      BY <1>8, <2>1
  <2>3. ASSUME NEW n \in 0..N, n # 0 PROVE F[n] = Onward(F[n - 1], n)
    <3> HIDE DEF N
    <3> QED
      BY <1>8, <2>3, Zenon
  <2> QED
    BY <2>2, <2>3
<1> DEFINE Typed == {n \in 0..N : F[n] \in Out}
<1>10. \A n \in 0..N : n \in Typed /\ n # N => n + 1 \in Typed
  <2> SUFFICES ASSUME NEW n \in 0..N, n \in Typed, n # N PROVE F[n + 1] \in Out
    BY <1>1
  <2>1. n + 1 \in 0..N /\ n + 1 # 0 /\ (n + 1) - 1 = n
    BY <1>1
  <2>2. F[n + 1] = Onward(F[n], n + 1)
    BY <1>9, <2>1, Zenon
  <2>3. F[n] \in Out
    OBVIOUS
  <2> HIDE DEF N, Out, Onward
  <2> QED
    BY <1>2, <2>1, <2>2, <2>3
<1>11. \A n \in 0..N : F[n] \in Out
  <2> SUFFICES ASSUME NEW m \in 0..N PROVE m \in Typed
    OBVIOUS
  <2>1. \A n \in 0..m : n \in Typed /\ n # m => n + 1 \in Typed
    BY <1>1, <1>10
  <2>2. 0 \in Typed /\ m \in Nat
    <3> HIDE DEF N, Out
    <3> QED
      BY <1>1, <1>9
  <2> HIDE DEF Typed, N
  <2> QED
    BY <2>1, <2>2, Climb
<1>12. \A n \in 1..N : F[n] = IF ChordIn(keys, n) THEN F[n - 1]
                            ELSE F[n - 1] \o Attach!Given(keys, n)
  BY <1>9 DEF ChordIn
<1> QED
  BY <1>9, <1>11, <1>12 DEF F

\* What was forwarded stays forwarded, whatever is typed next.
LEMMA ForwardedStays ==
  ASSUME NEW keys \in Seq(AKeys), NEW k \in AKeys, NEW n \in 0..Len(keys)
  PROVE  /\ Attach!Forwarded(Append(keys, k))[n] = Attach!Forwarded(keys)[n]
         /\ ChordIn(Append(keys, k), n) <=> ChordIn(keys, n)
<1> DEFINE more == Append(keys, k)
           F == Attach!Forwarded(keys)
           G == Attach!Forwarded(more)
           Same == {m \in 0..n : G[m] = F[m]}
<1>1. more \in Seq(AKeys) /\ Len(more) = Len(keys) + 1 /\ Len(keys) \in Nat
  BY AppendProperties
<1>2. ASSUME NEW m \in 0..Len(keys) PROVE ChordIn(more, m) <=> ChordIn(keys, m)
  <2>1. \A i \in 1..m : i \in 1..Len(keys)
    BY <1>1
  <2> QED
    BY <2>1, LaterKeys DEF ChordIn
<1>3. /\ F[0] = <<>>
      /\ \A m \in 1..Len(keys) :
           F[m] = IF ChordIn(keys, m) THEN F[m - 1] ELSE F[m - 1] \o Attach!Given(keys, m)
  BY ForwardedIs
<1>4. /\ G[0] = <<>>
      /\ \A m \in 1..Len(more) :
           G[m] = IF ChordIn(more, m) THEN G[m - 1] ELSE G[m - 1] \o Attach!Given(more, m)
  BY <1>1, ForwardedIs
<1>5. \A m \in 1..Len(keys) : Attach!Given(more, m) = Attach!Given(keys, m)
  BY LaterKeys
<1> HIDE DEF more, F, G
<1>6. \A m \in 0..n : m \in Same /\ m # n => m + 1 \in Same
  <2> SUFFICES ASSUME NEW m \in 0..n, m # n, G[m] = F[m] PROVE G[m + 1] = F[m + 1]
    BY <1>1
  <2>1. m + 1 \in 1..Len(keys) /\ m + 1 \in 1..Len(more) /\ m + 1 \in 0..Len(keys)
        /\ (m + 1) - 1 = m
    BY <1>1
  <2>2. ChordIn(more, m + 1) <=> ChordIn(keys, m + 1)
    BY <1>2, <2>1
  <2> QED
    BY <1>3, <1>4, <1>5, <2>1, <2>2
<1>7. 0 \in Same
  BY <1>1, <1>3, <1>4
<1>8. n \in Same
  <2> HIDE DEF Same
  <2> QED
    BY <1>1, <1>6, <1>7, Climb
<1>9. ChordIn(more, n) <=> ChordIn(keys, n)
  BY <1>2
<1> QED
  BY <1>8, <1>9 DEF more, F, G

\* t goes on from s.
Begins(s, t) == \E rest \in Seq(AKeys) : t = s \o rest

LEMMA BeginsAsFar ==
  ASSUME NEW s \in Seq(AKeys), NEW t \in Seq(AKeys), NEW u \in Seq(AKeys),
         Begins(s, t), Begins(t, u)
  PROVE  Begins(s, u)
<1>1. PICK a \in Seq(AKeys) : t = s \o a
  BY DEF Begins
<1>2. PICK b \in Seq(AKeys) : u = t \o b
  BY DEF Begins
<1>3. a \o b \in Seq(AKeys) /\ u = s \o (a \o b)
  BY <1>1, <1>2, ConcatProperties, ConcatAssociative
<1> QED
  BY <1>3 DEF Begins

LEMMA BeginsItself ==
  ASSUME NEW s \in Seq(AKeys), NEW t \in Seq(AKeys)
  PROVE  Begins(s, s) /\ Begins(s, s \o t)
<1>1. <<>> \in Seq(AKeys) /\ s = s \o <<>>
  BY ConcatEmptySeq, EmptySeq
<1> QED
  BY <1>1 DEF Begins

\* More keys, more forwarded.
LEMMA ForwardedGrows ==
  ASSUME NEW keys \in Seq(AKeys), NEW m \in 0..Len(keys), NEW n \in m..Len(keys)
  PROVE  Begins(Attach!Forwarded(keys)[m], Attach!Forwarded(keys)[n])
<1> DEFINE F == Attach!Forwarded(keys)
           d == n - m
           Grown == {i \in 0..d : Begins(F[m], F[m + i])}
<1>1. Len(keys) \in Nat /\ d \in Nat /\ m + 0 = m /\ m + d = n
  OBVIOUS
<1>2. /\ \A i \in 0..Len(keys) : F[i] \in Seq(AKeys)
      /\ \A i \in 1..Len(keys) :
           F[i] = IF ChordIn(keys, i) THEN F[i - 1] ELSE F[i - 1] \o Attach!Given(keys, i)
  BY ForwardedIs
<1> HIDE DEF F
<1>3. \A i \in 0..d : i \in Grown /\ i # d => i + 1 \in Grown
  <2> SUFFICES ASSUME NEW i \in 0..d, i # d, Begins(F[m], F[m + i])
               PROVE  Begins(F[m], F[m + (i + 1)])
    BY <1>1
  <2> DEFINE j == m + (i + 1)
  <2>1. j \in 1..Len(keys) /\ j \in 0..Len(keys) /\ j - 1 = m + i /\ m + i \in 0..Len(keys)
    OBVIOUS
  <2> HIDE DEF j, d
  <2>2. F[m] \in Seq(AKeys) /\ F[j] \in Seq(AKeys) /\ F[m + i] \in Seq(AKeys)
    BY <1>2, <2>1
  <2>3. Attach!Given(keys, j) \in Seq(AKeys)
    BY <2>1, GivenTyped
  <2>4. F[j] = F[m + i] \/ F[j] = F[m + i] \o Attach!Given(keys, j)
    BY <1>2, <2>1
  <2>5. Begins(F[m + i], F[j])
    BY <2>2, <2>3, <2>4, BeginsItself
  <2>6. Begins(F[m], F[j])
    BY <2>2, <2>5, BeginsAsFar
  <2> QED
    BY <2>6 DEF j
<1>4. 0 \in Grown
  <2>1. F[m] \in Seq(AKeys)
    BY <1>1, <1>2
  <2> QED
    BY <1>1, <2>1, BeginsItself
<1>5. d \in Grown
  <2> HIDE DEF Grown, d
  <2> QED
    BY <1>1, <1>3, <1>4, Climb
<1> QED
  BY <1>1, <1>5 DEF F

-----------------------------------------------------------------------------
(* The scanner *)

Scans == [armed : BOOLEAN, send : Seq(AKeys), detach : BOOLEAN]

\* helpers.go:395-417: t is where the key k brings the scanner from s.
KeyScanned(s, k, t) ==
  /\ t \in Scans
  /\ s.detach => t = s
  /\ (~s.detach /\ ~s.armed /\ k = "^B") => (t.armed /\ ~t.detach /\ t.send = s.send)
  /\ (~s.detach /\ ~s.armed /\ k # "^B") =>
       (~t.armed /\ ~t.detach /\ t.send = s.send \o <<k>>)
  /\ (~s.detach /\ s.armed /\ k = "d") => (t.detach /\ t.send = s.send)
  /\ (~s.detach /\ s.armed /\ k = "^B") =>
       (~t.armed /\ ~t.detach /\ t.send = s.send \o <<"^B">>)
  /\ (~s.detach /\ s.armed /\ k \notin {"d", "^B"}) =>
       (~t.armed /\ ~t.detach /\ t.send = s.send \o <<"^B", k>>)

LEMMA AKeyScanned ==
  ASSUME NEW s \in Scans, NEW k \in AKeys
  PROVE  KeyScanned(s, k, Attach!ScanKey(s, k))
<1> DEFINE t == Attach!ScanKey(s, k)
           Kept(send) == [armed |-> FALSE, detach |-> FALSE, send |-> send]
<1> SUFFICES KeyScanned(s, k, t)
  OBVIOUS
<1>1. s.send \in Seq(AKeys) /\ s.detach \in BOOLEAN /\ s.armed \in BOOLEAN
      /\ s = [armed |-> s.armed, send |-> s.send, detach |-> s.detach]
  BY DEF Scans
<1>2. /\ <<k>> \in Seq(AKeys) /\ <<"^B">> \in Seq(AKeys) /\ <<"^B", k>> \in Seq(AKeys)
      /\ Append(s.send, k) = s.send \o <<k>>
      /\ k = "^B" => Append(s.send, k) = s.send \o <<"^B">>
  BY <1>1, AppendIsConcat DEF AKeys, Attach!Keys
<1>3. /\ s.send \o <<k>> \in Seq(AKeys) /\ s.send \o <<"^B">> \in Seq(AKeys)
      /\ s.send \o <<"^B", k>> \in Seq(AKeys)
  BY <1>1, <1>2, ConcatProperties
<1>4. ASSUME NEW send \in Seq(AKeys)
      PROVE  Kept(send) \in Scans /\ ~Kept(send).armed /\ ~Kept(send).detach
             /\ Kept(send).send = send
  BY DEF Scans
<1>5. CASE s.detach
  <2>1. t = s
    BY <1>5 DEF Attach!ScanKey
  <2> HIDE DEF t
  <2> QED
    BY <1>5, <2>1 DEF KeyScanned
<1>6. CASE ~s.detach /\ ~s.armed /\ k = "^B"
  <2>1. t = [s EXCEPT !.armed = TRUE]
    BY <1>6 DEF Attach!ScanKey
  <2>2. t = [armed |-> TRUE, send |-> s.send, detach |-> s.detach]
    BY <1>1, <2>1 DEF Scans
  <2>3. t.armed = TRUE /\ t.detach = s.detach /\ t.send = s.send
    BY <2>2
  <2>4. t \in Scans
    BY <1>1, <2>2 DEF Scans
  <2> HIDE DEF t
  <2> QED
    BY <1>6, <2>3, <2>4 DEF KeyScanned
<1>7. CASE ~s.detach /\ ~s.armed /\ k # "^B"
  <2>1. t = [s EXCEPT !.send = Append(@, k)]
    BY <1>7 DEF Attach!ScanKey
  <2>2. t = [armed |-> s.armed, send |-> s.send \o <<k>>, detach |-> s.detach]
    BY <1>1, <1>2, <2>1 DEF Scans
  <2>3. t \in Scans /\ ~t.armed /\ ~t.detach /\ t.send = s.send \o <<k>>
    BY <1>1, <1>3, <1>7, <2>2 DEF Scans
  <2> HIDE DEF t
  <2> QED
    BY <1>7, <2>3 DEF KeyScanned
<1>8. CASE ~s.detach /\ s.armed /\ k = "d"
  <2>1. t = [armed |-> FALSE, detach |-> k = "d", send |-> s.send]
    BY <1>8 DEF Attach!ScanKey
  <2>2. t = [armed |-> FALSE, detach |-> TRUE, send |-> s.send]
    BY <1>8, <2>1
  <2>3. t \in Scans /\ t.detach /\ t.send = s.send
    BY <1>1, <2>2 DEF Scans
  <2> HIDE DEF t
  <2> QED
    BY <1>8, <2>3 DEF KeyScanned
<1>9. CASE ~s.detach /\ s.armed /\ k = "^B"
  <2>1. t = [armed |-> FALSE, detach |-> k = "d", send |-> Append(s.send, k)]
    BY <1>9 DEF Attach!ScanKey
  <2>2. t = Kept(s.send \o <<"^B">>)
    BY <1>2, <1>9, <2>1
  <2> HIDE DEF t, Kept
  <2> QED
    BY <1>3, <1>4, <1>9, <2>2 DEF KeyScanned
<1>10. CASE ~s.detach /\ s.armed /\ k \notin {"d", "^B"}
  <2>1. t = [armed |-> FALSE, detach |-> k = "d", send |-> s.send \o <<"^B", k>>]
    BY <1>10 DEF Attach!ScanKey
  <2>2. t = Kept(s.send \o <<"^B", k>>)
    BY <1>10, <2>1
  <2> HIDE DEF t, Kept
  <2> QED
    BY <1>3, <1>4, <1>10, <2>2 DEF KeyScanned
<1> QED
  BY <1>5, <1>6, <1>7, <1>8, <1>9, <1>10

\* Scan is the function its recursion describes.
LEMMA ScanIs ==
  ASSUME NEW a \in BOOLEAN, NEW keys \in Seq(AKeys)
  PROVE  LET S == Attach!Scan(a, keys) IN
         /\ S[0] = [armed |-> a, send |-> <<>>, detach |-> FALSE]
         /\ \A n \in 0..Len(keys) : S[n] \in Scans
         /\ \A n \in 1..Len(keys) : S[n] = Attach!ScanKey(S[n - 1], keys[n])
<1> DEFINE N == Len(keys)
           first == [armed |-> a, send |-> <<>>, detach |-> FALSE]
           step == [n \in 0..N |->
                      [s \in Scans |-> IF n = 0 THEN s ELSE Attach!ScanKey(s, keys[n])]]
           After(f) == f = [n \in 0..N |-> IF n = 0 THEN first
                                          ELSE Attach!ScanKey(f[n - 1], keys[n])]
<1>1. N \in Nat /\ first \in Scans
  BY DEF Scans
<1>2. ASSUME NEW n \in 0..N, NEW s \in Scans, n # 0
      PROVE  Attach!ScanKey(s, keys[n]) \in Scans
  <2>1. keys[n] \in AKeys
    BY <1>1, <1>2
  <2> QED
    BY <2>1, AKeyScanned DEF KeyScanned
<1>3. IsStepOn(step, N, Scans)
  <2> HIDE DEF N
  <2> QED
    BY <1>2 DEF IsStepOn
<1> HIDE DEF first
<1>4. PICK f : Iterates(f, N, Scans, first, step)
  <2> HIDE DEF N, step
  <2> QED
    BY <1>1, <1>3, StepsIterate
<1>5. f[0] = first /\ \A n \in 0..N : f[n] \in Scans
  <2> HIDE DEF N, step
  <2> QED
    BY <1>4 DEF Iterates
<1>6. ASSUME NEW n \in 0..N, n # 0 PROVE f[n] = Attach!ScanKey(f[n - 1], keys[n])
  <2>1. n - 1 \in 0..N
    BY <1>1, <1>6
  <2>2. f[n] = step[n][f[n - 1]]
    <3> HIDE DEF N, step
    <3> QED
      BY <1>4, <1>6 DEF Iterates
  <2>3. f[n - 1] \in Scans
    BY <1>5, <2>1
  <2> HIDE DEF N
  <2> QED
    BY <1>6, <2>2, <2>3
<1>7. After(f)
  <2>1. f = [n \in 0..N |-> f[n]]
    <3> HIDE DEF N, step
    <3> QED
      BY <1>4 DEF Iterates
  <2> HIDE DEF N, step
  <2> QED
    BY <1>5, <1>6, <2>1
<1> DEFINE S == Attach!Scan(a, keys)
<1>8. After(S)
  <2>1. \E g : After(g)
    BY <1>7
  <2> QED
    BY <2>1, Zenon DEF Attach!Scan, first
<1> HIDE DEF S
<1>9. S[0] = first /\ \A n \in 0..N : n # 0 => S[n] = Attach!ScanKey(S[n - 1], keys[n])
  <2>1. 0 \in 0..N
    BY <1>1
  <2>2. S[0] = first
    <3> HIDE DEF N
    <3> QED
      BY <1>8, <2>1
  <2>3. ASSUME NEW n \in 0..N, n # 0 PROVE S[n] = Attach!ScanKey(S[n - 1], keys[n])
    <3> HIDE DEF N
    <3> QED
      BY <1>8, <2>3, Zenon
  <2> QED
    BY <2>2, <2>3
<1> DEFINE Typed == {n \in 0..N : S[n] \in Scans}
<1>10. \A n \in 0..N : n \in Typed /\ n # N => n + 1 \in Typed
  <2> SUFFICES ASSUME NEW n \in 0..N, S[n] \in Scans, n # N PROVE S[n + 1] \in Scans
    BY <1>1
  <2>1. n + 1 \in 0..N /\ n + 1 # 0 /\ (n + 1) - 1 = n
    BY <1>1
  <2>2. S[n + 1] = Attach!ScanKey(S[n], keys[n + 1])
    BY <1>9, <2>1, Zenon
  <2> HIDE DEF N
  <2> QED
    BY <1>2, <2>1, <2>2
<1>11. \A n \in 0..N : S[n] \in Scans
  <2> SUFFICES ASSUME NEW m \in 0..N PROVE m \in Typed
    OBVIOUS
  <2>1. \A n \in 0..m : n \in Typed /\ n # m => n + 1 \in Typed
    BY <1>1, <1>10
  <2>2. 0 \in Typed /\ m \in Nat
    <3> HIDE DEF N
    <3> QED
      BY <1>1, <1>9
  <2> HIDE DEF Typed, N
  <2> QED
    BY <2>1, <2>2, Climb
<1> QED
  BY <1>9, <1>11 DEF S, first

\* The scanner stands where the keys up to n leave it.
StandsAt(keys, n, isArmed) ==
  isArmed <=> n > 0 /\ Attach!OpensChord(keys, n)

\* Concatenation of keys.
LEMMA Joined ==
  \A u, v \in Seq(AKeys) :
    /\ u \o v \in Seq(AKeys) /\ Len(u \o v) = Len(u) + Len(v)
    /\ \A i \in 1..(Len(u) + Len(v)) :
         (u \o v)[i] = IF i <= Len(u) THEN u[i] ELSE v[i - Len(u)]
BY ConcatProperties

LEMMA Regrouped == \A u, v, w \in Seq(AKeys) : (u \o v) \o w = u \o (v \o w)
BY ConcatAssociative

\* s has passed on what is due for the keys after m, up to n, and stands there.
ForwardsTo(keys, m, n, s) ==
  /\ s \in Scans
  /\ Attach!Forwarded(keys)[n] = Attach!Forwarded(keys)[m] \o s.send
  /\ s.detach <=> ChordIn(keys, n)
  /\ ~s.detach => StandsAt(keys, n, s.armed)

\* Wherever a read begins and ends, the scanner passes on what is to be forwarded.
LEMMA ScanForwards ==
  ASSUME NEW keys \in Seq(AKeys), NEW m \in 0..Len(keys), NEW n \in m..Len(keys),
         NEW a \in BOOLEAN, ~ChordIn(keys, m), StandsAt(keys, m, a)
  PROVE  ForwardsTo(keys, m, n, Attach!Scan(a, SubSeq(keys, m + 1, n))[n - m])
<1> DEFINE read == SubSeq(keys, m + 1, n)
           S == Attach!Scan(a, read)
           F == Attach!Forwarded(keys)
           d == n - m
           Right(i) == /\ F[m + i] = F[m] \o S[i].send
                       /\ S[i].detach <=> ChordIn(keys, m + i)
                       /\ ~S[i].detach => StandsAt(keys, m + i, S[i].armed)
           Done == {i \in 0..d : Right(i)}
<1>1. Len(keys) \in Nat /\ d \in Nat /\ m + 0 = m /\ m + d = n /\ m \in Nat
  OBVIOUS
<1>2. read \in Seq(AKeys) /\ Len(read) = d /\ \A i \in 1..d : read[i] = keys[m + i]
  <2>1. \A i \in (m + 1)..n : keys[i] \in AKeys
    BY <1>1
  <2> QED
    BY <1>1, <2>1, SubSeqProperties
<1>3. /\ F[0] = <<>>
      /\ \A i \in 0..Len(keys) : F[i] \in Seq(AKeys)
      /\ \A i \in 1..Len(keys) :
           F[i] = IF ChordIn(keys, i) THEN F[i - 1] ELSE F[i - 1] \o Attach!Given(keys, i)
  BY ForwardedIs
<1> HIDE DEF read
<1>4. /\ S[0] = [armed |-> a, send |-> <<>>, detach |-> FALSE]
      /\ \A i \in 0..d : S[i] \in Scans
      /\ \A i \in 1..d : S[i] = Attach!ScanKey(S[i - 1], read[i])
  BY <1>2, ScanIs
<1> HIDE DEF F, S
<1>5. 0 \in Done
  <2>1. F[m] \in Seq(AKeys)
    BY <1>1, <1>3
  <2>2. F[m] = F[m] \o S[0].send
    BY <1>4, <2>1, ConcatEmptySeq
  <2>3. S[0].detach = FALSE /\ S[0].armed = a
    BY <1>4
  <2>4. StandsAt(keys, m, S[0].armed)
    BY <2>3 DEF StandsAt
  <2>5. Right(0)
    <3> HIDE DEF StandsAt
    <3> QED
      BY <1>1, <2>2, <2>3, <2>4
  <2> HIDE DEF Right, d
  <2> QED
    BY <1>1, <2>5
<1>6. \A i \in 0..d : i \in Done /\ i # d => i + 1 \in Done
  <2> SUFFICES ASSUME NEW i \in 0..d, i # d, Right(i) PROVE Right(i + 1)
    <3> HIDE DEF Right, d
    <3> QED
      BY <1>1
  <2> DEFINE j == m + (i + 1)
             k == keys[j]
             s == S[i]
             t == S[i + 1]
  <2>1. j \in 1..Len(keys) /\ j - 1 = m + i /\ m + i \in 0..Len(keys) /\ m + i \in Nat
        /\ i + 1 \in 1..d /\ (i + 1) - 1 = i /\ j \in Nat \ {0} /\ j > 0
        /\ (j > 1 <=> m + i > 0)
    BY <1>1
  <2>2. k \in AKeys /\ read[i + 1] = k
    BY <1>2, <2>1
  <2> HIDE DEF j, k, d
  <2>3. s \in Scans /\ t \in Scans /\ t = Attach!ScanKey(s, k)
    BY <1>4, <2>1, <2>2
  <2>a. KeyScanned(s, k, t)
    BY <2>2, <2>3, AKeyScanned
  <2> HIDE DEF s, t
  <2>4. /\ F[m + i] = F[m] \o s.send
        /\ s.detach <=> ChordIn(keys, j - 1)
        /\ ~s.detach => (s.armed <=> j > 1 /\ Attach!OpensChord(keys, j - 1))
    BY <2>1 DEF s, StandsAt
  <2>5. Attach!OpensChord(keys, j) <=>
          k = "^B" /\ ~(j > 1 /\ Attach!OpensChord(keys, j - 1))
    BY <2>1, OpensNext DEF k
  <2>6. Attach!Completes(keys, j) <=> j > 1 /\ k = "d" /\ Attach!OpensChord(keys, j - 1)
    BY DEF k, Attach!Completes
  <2>7. ChordIn(keys, j) <=> ChordIn(keys, j - 1) \/ Attach!Completes(keys, j)
    BY <2>1, ChordNext
  <2>8. F[j] = IF ChordIn(keys, j) THEN F[m + i] ELSE F[m + i] \o Attach!Given(keys, j)
    BY <1>3, <2>1
  <2>9. F[m] \in Seq(AKeys) /\ s.send \in Seq(AKeys) /\ F[m + i] \in Seq(AKeys)
    BY <1>1, <1>3, <2>1, <2>3 DEF Scans
  <2>10. <<>> \in Seq(AKeys) /\ <<k>> \in Seq(AKeys) /\ <<"^B">> \in Seq(AKeys)
         /\ <<"^B", k>> \in Seq(AKeys)
    BY <2>2 DEF AKeys, Attach!Keys
  <2>11. ASSUME NEW g \in Seq(AKeys), F[j] = F[m + i] \o g, t.send = s.send \o g
         PROVE  F[j] = F[m] \o t.send
    <3> DEFINE u == F[m]
               v == s.send
    <3>1. u \in Seq(AKeys) /\ v \in Seq(AKeys)
      BY <2>9
    <3> HIDE DEF u, v
    <3>2. (u \o v) \o g = u \o (v \o g)
      BY <3>1, Regrouped
    <3> QED
      BY <2>4, <2>11, <3>2 DEF u, v
  <2> SUFFICES /\ F[j] = F[m] \o t.send
               /\ t.detach <=> ChordIn(keys, j)
               /\ ~t.detach => (t.armed <=> Attach!OpensChord(keys, j))
    BY <2>1 DEF j, t, StandsAt
  <2>12. CASE s.detach
    <3>1. t = s
      BY <2>a, <2>12 DEF KeyScanned
    <3> QED
      BY <2>4, <2>7, <2>8, <2>12, <3>1
  <2>13. CASE ~s.detach /\ ~s.armed /\ k = "^B"
    <3>1. t.armed /\ ~t.detach /\ t.send = s.send
      BY <2>a, <2>13 DEF KeyScanned
    <3>2. Attach!OpensChord(keys, j) /\ ~ChordIn(keys, j)
      BY <2>4, <2>5, <2>6, <2>7, <2>13
    <3>3. Attach!Given(keys, j) = <<>>
      BY <3>2 DEF Attach!Given
    <3>4. F[j] = F[m + i] \o <<>> /\ t.send = s.send \o <<>>
      BY <2>8, <2>9, <3>1, <3>2, <3>3, ConcatEmptySeq
    <3> QED
      BY <2>10, <2>11, <3>1, <3>2, <3>4
  <2>14. CASE ~s.detach /\ ~s.armed /\ k # "^B"
    <3>1. ~t.armed /\ ~t.detach /\ t.send = s.send \o <<k>>
      BY <2>a, <2>14 DEF KeyScanned
    <3>2. ~Attach!OpensChord(keys, j) /\ ~ChordIn(keys, j)
          /\ ~(j > 1 /\ Attach!OpensChord(keys, j - 1))
      BY <2>4, <2>5, <2>6, <2>7, <2>14
    <3>3. Attach!Given(keys, j) = <<k>>
      BY <2>14, <3>2 DEF k, Attach!Given
    <3> QED
      BY <2>8, <2>10, <2>11, <3>1, <3>2, <3>3
  <2>15. CASE ~s.detach /\ s.armed /\ k = "d"
    <3>1. t.detach /\ t.send = s.send
      BY <2>a, <2>15 DEF KeyScanned
    <3>2. ChordIn(keys, j)
      BY <2>4, <2>6, <2>7, <2>15
    <3> QED
      BY <2>4, <2>8, <3>1, <3>2
  <2>16. CASE ~s.detach /\ s.armed /\ k = "^B"
    <3>1. ~t.armed /\ ~t.detach /\ t.send = s.send \o <<"^B">>
      BY <2>a, <2>16 DEF KeyScanned
    <3>2. ~Attach!OpensChord(keys, j) /\ ~ChordIn(keys, j)
      BY <2>4, <2>5, <2>6, <2>7, <2>16
    <3>3. Attach!Given(keys, j) = <<"^B">>
      BY <2>16, <3>2 DEF k, Attach!Given
    <3> QED
      BY <2>8, <2>10, <2>11, <3>1, <3>2, <3>3
  <2>17. CASE ~s.detach /\ s.armed /\ k \notin {"d", "^B"}
    <3>1. ~t.armed /\ ~t.detach /\ t.send = s.send \o <<"^B", k>>
      BY <2>a, <2>17 DEF KeyScanned
    <3>2. ~Attach!OpensChord(keys, j) /\ ~ChordIn(keys, j)
          /\ j > 1 /\ Attach!OpensChord(keys, j - 1)
      BY <2>4, <2>5, <2>6, <2>7, <2>17
    <3>3. Attach!Given(keys, j) = <<"^B", k>>
      BY <2>17, <3>2 DEF k, Attach!Given
    <3> QED
      BY <2>8, <2>10, <2>11, <3>1, <3>2, <3>3
  <2> QED
    BY <2>12, <2>13, <2>14, <2>15, <2>16, <2>17
<1>7. d \in Done
  <2> HIDE DEF Done, d
  <2> QED
    BY <1>1, <1>5, <1>6, Climb
<1>8. S[d] \in Scans
  BY <1>1, <1>4
<1> QED
  BY <1>1, <1>7, <1>8 DEF S, F, read, ForwardsTo

-----------------------------------------------------------------------------
(* From the keyboard to the session *)

Due(n) == Attach!Forwarded(attTyped)[n]

\* The scanner stands where the keys that were read leave it, as long as there is more to
\* read.
ScannerAgrees ==
  attInput \in {"loop", "read", "send"} =>
    ~ChordIn(attTyped, attTaken) /\ StandsAt(attTyped, attTaken, attArmed)

NothingPending == attInput \notin {"send", "sendAndDetach"} => attPending = <<>>

\* While the stream is whole, all that is due was given, is on its way or is sent next.
AllUnderWay ==
  attUpstream = "open" /\ attInput # "done" =>
    (attReceived \o attInflight) \o attPending = Due(attTaken)

\* And nothing else: the rest may be dropped, what follows it is dropped too.
NothingElse ==
  /\ attUpstream = "open" => Begins(attReceived \o attInflight, Due(attTaken))
  /\ Begins(attReceived, Due(attTaken))

AttachInv ==
  Attach!TypeOK /\ ScannerAgrees /\ NothingPending /\ AllUnderWay /\ NothingElse

LEMMA AttachTyped == ASSUME AttachInv, [Attach!Next]_attVars PROVE Attach!TypeOK'
<1> USE DEF AttachInv, Attach!TypeOK, Attach!keyVars
<1>0. AKeys = Attach!Keys
  BY DEF AKeys
<1>1. CASE Attach!Loop
  BY <1>1 DEF Attach!Loop
<1>2. CASE Attach!Read
  <2>1. PICK n \in (attTaken + 1)..Len(attTyped) :
          LET scanned == Attach!Scan(attArmed, SubSeq(attTyped, attTaken + 1, n))[n - attTaken]
          IN  /\ attTaken' = n
              /\ attArmed' = scanned.armed /\ attPending' = scanned.send
              /\ attInput' = CASE scanned.send # <<>> /\ scanned.detach -> "sendAndDetach"
                               [] scanned.send # <<>> /\ ~scanned.detach -> "send"
                               [] OTHER -> IF scanned.detach THEN "detach" ELSE "loop"
    BY <1>2 DEF Attach!Read
  <2> DEFINE s == Attach!Scan(attArmed, SubSeq(attTyped, attTaken + 1, n))[n - attTaken]
  <2>2. attTaken \in 0..Len(attTyped) /\ n \in attTaken..Len(attTyped)
        /\ n \in 0..Len(attTyped)
    OBVIOUS
  <2>3. s \in Scans
    <3>1. ~ChordIn(attTyped, attTaken) /\ StandsAt(attTyped, attTaken, attArmed)
      BY <1>2 DEF Attach!Read, ScannerAgrees
    <3>2. attTyped \in Seq(AKeys) /\ attArmed \in BOOLEAN
      BY <1>0
    <3> HIDE DEF Attach!TypeOK, AttachInv
    <3>3. ForwardsTo(attTyped, attTaken, n, s)
      BY <2>2, <3>1, <3>2, ScanForwards
    <3> QED
      BY <3>3 DEF ForwardsTo
  <2> HIDE DEF s
  <2>4. attArmed' \in BOOLEAN /\ attPending' \in Seq(Attach!Keys)
    BY <1>0, <2>1, <2>3 DEF s, Scans
  <2>5. attInput' \in {"loop", "send", "sendAndDetach", "detach"}
    BY <2>1
  <2>6. UNCHANGED <<attTyped, attInflight, attUpstream, attReceived, attSession, attStream,
                    attCtx, attOutput>>
    BY <1>2 DEF Attach!Read
  <2> QED
    BY <2>1, <2>2, <2>4, <2>5, <2>6
<1>3. CASE Attach!Send
  <2>1. attInflight' \in Seq(Attach!Keys)
    <3>1. attInflight \o attPending \in Seq(Attach!Keys)
      BY ConcatProperties
    <3>2. attInflight' = attInflight \/ attInflight' = attInflight \o attPending
      BY <1>3 DEF Attach!Send
    <3> QED
      BY <3>1, <3>2
  <2>2. attPending' \in Seq(Attach!Keys)
    BY <1>3 DEF Attach!Send
  <2> QED
    BY <1>3, <2>1, <2>2 DEF Attach!Send
<1>4. CASE Attach!Detach
  BY <1>4 DEF Attach!Detach
<1>5. CASE Attach!RecvEnds
  BY <1>5 DEF Attach!RecvEnds
<1>6. CASE Attach!InputJoined
  BY <1>6 DEF Attach!InputJoined
<1>7. CASE Attach!Leave
  BY <1>7 DEF Attach!Leave
<1>8. CASE Attach!HandleInput
  <2>1. CASE attSession = "running"
    <3>1. attInflight # <<>> /\ attReceived' = Append(attReceived, Head(attInflight))
          /\ attInflight' = Tail(attInflight)
      BY <1>8, <2>1 DEF Attach!HandleInput
    <3>2. attReceived' \in Seq(Attach!Keys) /\ attInflight' \in Seq(Attach!Keys)
      BY <3>1, HeadTailProperties, AppendProperties
    <3> QED
      BY <1>8, <3>2 DEF Attach!HandleInput
  <2>2. CASE attSession # "running"
    BY <1>8, <2>2 DEF Attach!HandleInput
  <2> QED
    BY <2>1, <2>2
<1>9. CASE Attach!Cancelled
  BY <1>9 DEF Attach!Cancelled
<1>10. CASE Attach!SessionEnds
  BY <1>10 DEF Attach!SessionEnds
<1>11. CASE Attach!LinkLost
  BY <1>11 DEF Attach!LinkLost
<1>12. ASSUME NEW k \in Attach!Keys, Attach!Type(k) PROVE Attach!TypeOK'
  <2>1. attTyped' \in Seq(Attach!Keys) /\ Len(attTyped') = Len(attTyped) + 1
    BY <1>12 DEF Attach!Type
  <2>2. attTaken' \in 0..Len(attTyped')
    BY <1>12, <2>1 DEF Attach!Type
  <2> QED
    BY <1>12, <2>1, <2>2 DEF Attach!Type
<1>13. CASE Attach!Signal
  BY <1>13 DEF Attach!Signal
<1>14. CASE UNCHANGED attVars
  BY <1>14 DEF attVars
<1> QED
  BY <1>1, <1>2, <1>3, <1>4, <1>5, <1>6, <1>7, <1>8, <1>9, <1>10, <1>11, <1>12, <1>13,
     <1>14 DEF Attach!Next, Attach!InputStep, Attach!OutputStep

\* What is due for the keys that were read is keys, and the beginning of what will be.
LEMMA DueTyped ==
  ASSUME Attach!TypeOK, NEW n \in 0..Len(attTyped)
  PROVE  Due(n) \in Seq(AKeys)
BY ForwardedIs DEF Attach!TypeOK, AKeys, Due

\* The daemon hands on the first of the keys that are on their way.
LEMMA HandedOn ==
  ASSUME NEW s \in Seq(AKeys), NEW t \in Seq(AKeys), t # <<>>
  PROVE  Append(s, Head(t)) \o Tail(t) = s \o t
<1> DEFINE u == Append(s, Head(t))
           v == Tail(t)
<1>1. /\ u \in Seq(AKeys) /\ Len(u) = Len(s) + 1 /\ u[Len(s) + 1] = t[1]
      /\ \A i \in 1..Len(s) : u[i] = s[i]
      /\ v \in Seq(AKeys) /\ Len(v) = Len(t) - 1 /\ \A i \in 1..Len(v) : v[i] = t[i + 1]
      /\ Len(s) \in Nat /\ Len(t) \in Nat \ {0}
  BY HeadTailProperties, AppendProperties, EmptySeq
<1> HIDE DEF u, v
<1>2. Len(u) + Len(v) = Len(s) + Len(t)
  BY <1>1
<1>3. /\ u \o v \in Seq(AKeys) /\ Len(u \o v) = Len(s) + Len(t)
      /\ \A i \in 1..(Len(s) + Len(t)) :
           (u \o v)[i] = IF i <= Len(u) THEN u[i] ELSE v[i - Len(u)]
  <2>1. u \in Seq(AKeys) /\ v \in Seq(AKeys)
    BY <1>1
  <2>2. /\ u \o v \in Seq(AKeys) /\ Len(u \o v) = Len(u) + Len(v)
        /\ \A i \in 1..(Len(u) + Len(v)) :
             (u \o v)[i] = IF i <= Len(u) THEN u[i] ELSE v[i - Len(u)]
    BY <2>1, Joined
  <2> QED
    BY <1>2, <2>2
<1>4. /\ s \o t \in Seq(AKeys) /\ Len(s \o t) = Len(s) + Len(t)
      /\ \A i \in 1..(Len(s) + Len(t)) :
           (s \o t)[i] = IF i <= Len(s) THEN s[i] ELSE t[i - Len(s)]
  BY Joined
<1>5. ASSUME NEW i \in 1..(Len(s) + Len(t)) PROVE (u \o v)[i] = (s \o t)[i]
  <2>1. CASE i <= Len(s)
    BY <1>1, <1>3, <1>4, <2>1
  <2>2. CASE i = Len(s) + 1
    BY <1>1, <1>3, <1>4, <2>2
  <2>3. CASE i > Len(s) + 1
    <3>1. i - Len(u) \in 1..Len(v) /\ (i - Len(u)) + 1 = i - Len(s) /\ ~(i <= Len(u))
          /\ ~(i <= Len(s))
      BY <1>1, <2>3
    <3>2. (u \o v)[i] = v[i - Len(u)] /\ (s \o t)[i] = t[i - Len(s)]
      BY <1>3, <1>4, <3>1
    <3>3. v[i - Len(u)] = t[(i - Len(u)) + 1]
      BY <1>1, <3>1
    <3> QED
      BY <3>1, <3>2, <3>3
  <2> QED
    BY <1>1, <2>1, <2>2, <2>3
<1> QED
  BY <1>3, <1>4, <1>5, SeqEqual DEF u, v

LEMMA AttachStays == ASSUME AttachInv, [Attach!Next]_attVars PROVE AttachInv'
<1> USE DEF AttachInv
<1>0. Attach!TypeOK /\ Attach!TypeOK'
  BY AttachTyped
<1>k. /\ attTyped \in Seq(AKeys) /\ attTaken \in 0..Len(attTyped) /\ attTaken \in Nat
      /\ attPending \in Seq(AKeys) /\ attInflight \in Seq(AKeys) /\ attReceived \in Seq(AKeys)
      /\ attReceived \o attInflight \in Seq(AKeys) /\ Due(attTaken) \in Seq(AKeys)
  <2>1. Due(attTaken) \in Seq(AKeys)
    BY <1>0, DueTyped DEF Attach!TypeOK
  <2>2. attReceived \o attInflight \in Seq(AKeys)
    BY <1>0, ConcatProperties DEF Attach!TypeOK, AKeys
  <2> QED
    BY <1>0, <2>1, <2>2 DEF Attach!TypeOK, AKeys
<1> HIDE DEF Attach!TypeOK
<1>q. ASSUME UNCHANGED <<attTyped, attTaken, attArmed, attPending, attInput, attInflight,
                         attUpstream, attReceived>>
      PROVE  AttachInv'
  BY <1>0, <1>q DEF ScannerAgrees, NothingPending, AllUnderWay, NothingElse, Due
<1>1. CASE Attach!Loop
  BY <1>0, <1>1
  DEF Attach!Loop, Attach!keyVars, ScannerAgrees, NothingPending, AllUnderWay, NothingElse, Due
<1>2. CASE Attach!Read
  <2>1. PICK n \in (attTaken + 1)..Len(attTyped) :
          LET scanned == Attach!Scan(attArmed, SubSeq(attTyped, attTaken + 1, n))[n - attTaken]
          IN  /\ attTaken' = n
              /\ attArmed' = scanned.armed /\ attPending' = scanned.send
              /\ attInput' = CASE scanned.send # <<>> /\ scanned.detach -> "sendAndDetach"
                               [] scanned.send # <<>> /\ ~scanned.detach -> "send"
                               [] OTHER -> IF scanned.detach THEN "detach" ELSE "loop"
    BY <1>2 DEF Attach!Read
  <2>2. attInput = "read" /\ UNCHANGED <<attTyped, attInflight, attUpstream, attReceived>>
    BY <1>2 DEF Attach!Read
  <2> DEFINE s == Attach!Scan(attArmed, SubSeq(attTyped, attTaken + 1, n))[n - attTaken]
  <2>3. n \in attTaken..Len(attTyped) /\ n \in 0..Len(attTyped) /\ attArmed \in BOOLEAN
    BY <1>0, <1>k DEF Attach!TypeOK
  <2>4. ~ChordIn(attTyped, attTaken) /\ StandsAt(attTyped, attTaken, attArmed)
    BY <2>2 DEF ScannerAgrees
  <2>5. /\ s \in Scans
        /\ Due(n) = Due(attTaken) \o s.send
        /\ s.detach <=> ChordIn(attTyped, n)
        /\ ~s.detach => StandsAt(attTyped, n, s.armed)
    <3>1. ForwardsTo(attTyped, attTaken, n, s)
      BY <1>k, <2>3, <2>4, ScanForwards
    <3> HIDE DEF s
    <3> QED
      BY <3>1 DEF Due, ForwardsTo
  <2>6. /\ attTaken' = n /\ attArmed' = s.armed /\ attPending' = s.send
        /\ attInput' = CASE s.send # <<>> /\ s.detach -> "sendAndDetach"
                         [] s.send # <<>> /\ ~s.detach -> "send"
                         [] OTHER -> IF s.detach THEN "detach" ELSE "loop"
    BY <2>1
  <2>7. s.send \in Seq(AKeys) /\ Due(n) \in Seq(AKeys) /\ Due(attTaken') = Due(n)
    BY <1>0, <2>3, <2>5, <2>6, DueTyped DEF Scans
  <2>8. Due(attTaken)' = Due(n)
    BY <2>2, <2>6 DEF Due
  <2> HIDE DEF s
  <2>9. ScannerAgrees'
    BY <2>2, <2>5, <2>6 DEF ScannerAgrees
  <2>10. NothingPending'
    BY <2>6 DEF NothingPending
  <2>11. attPending = <<>>
    BY <2>2 DEF NothingPending
  <2>12. AllUnderWay'
    <3> SUFFICES ASSUME attUpstream = "open"
                 PROVE  (attReceived \o attInflight) \o s.send = Due(n)
      BY <2>2, <2>6, <2>8 DEF AllUnderWay
    <3>1. (attReceived \o attInflight) \o <<>> = Due(attTaken)
      BY <2>2, <2>11 DEF AllUnderWay
    <3>2. attReceived \o attInflight = Due(attTaken)
      BY <1>k, <3>1, ConcatEmptySeq
    <3> QED
      BY <2>5, <3>2
  <2>13. Begins(Due(attTaken), Due(n))
    BY <1>k, <2>3, ForwardedGrows DEF Due
  <2>14. NothingElse'
    <3>1. Begins(attReceived, Due(n))
      BY <1>k, <2>7, <2>13, BeginsAsFar DEF NothingElse
    <3>2. attUpstream = "open" => Begins(attReceived \o attInflight, Due(n))
      BY <1>k, <2>7, <2>13, BeginsAsFar DEF NothingElse
    <3> QED
      BY <2>2, <2>8, <3>1, <3>2 DEF NothingElse
  <2> QED
    BY <1>0, <2>9, <2>10, <2>12, <2>14
<1>3. CASE Attach!Send
  <2>1. /\ attInput \in {"send", "sendAndDetach"} /\ attPending' = <<>>
        /\ UNCHANGED <<attTyped, attTaken, attArmed, attUpstream, attReceived>>
    BY <1>3 DEF Attach!Send
  <2>2. CASE attCtx \/ attUpstream = "broken"
    <3>1. attInput' = "done" /\ attInflight' = attInflight
      BY <1>3, <2>2 DEF Attach!Send
    <3> QED
      BY <1>0, <2>1, <3>1
      DEF ScannerAgrees, NothingPending, AllUnderWay, NothingElse, Due
  <2>3. CASE ~(attCtx \/ attUpstream = "broken")
    <3>1. /\ attInflight' = attInflight \o attPending
          /\ attInput' = IF attInput = "send" THEN "loop" ELSE "detach"
      BY <1>3, <2>3 DEF Attach!Send
    <3>2. attUpstream = "open"
      BY <1>0, <2>3 DEF Attach!TypeOK
    <3>3. attReceived \o attInflight' = Due(attTaken)
      <4>1. (attReceived \o attInflight) \o attPending = Due(attTaken)
        BY <2>1, <3>2 DEF AllUnderWay
      <4>2. (attReceived \o attInflight) \o attPending
              = attReceived \o (attInflight \o attPending)
        BY <1>k, Regrouped, ZenonT(60)
      <4> QED
        BY <3>1, <4>1, <4>2
    <3>4. (attReceived \o attInflight') \o <<>> = Due(attTaken)
      BY <1>k, <3>3, ConcatEmptySeq
    <3>5. Due(attTaken)' = Due(attTaken)
      BY <2>1 DEF Due
    <3>6. Begins(attReceived \o attInflight', Due(attTaken))
      BY <1>k, <3>3, BeginsItself
    <3>7. ScannerAgrees' /\ NothingPending'
      BY <2>1, <3>1 DEF ScannerAgrees, NothingPending
    <3> QED
      BY <1>0, <2>1, <3>4, <3>5, <3>6, <3>7 DEF AllUnderWay, NothingElse
  <2> QED
    BY <2>2, <2>3
<1>4. CASE Attach!Detach
  BY <1>0, <1>4
  DEF Attach!Detach, Attach!keyVars, ScannerAgrees, NothingPending, AllUnderWay, NothingElse,
      Due
<1>5. CASE Attach!OutputStep
  BY <1>5, <1>q
  DEF Attach!OutputStep, Attach!RecvEnds, Attach!InputJoined, Attach!Leave, Attach!keyVars
<1>6. CASE Attach!HandleInput
  <2>1. UNCHANGED <<attTyped, attTaken, attArmed, attPending, attInput>> /\ attInflight # <<>>
        /\ attUpstream = "open"
    BY <1>6 DEF Attach!HandleInput, Attach!keyVars
  <2>2. CASE attSession # "running"
    <3>1. attUpstream' = "broken" /\ UNCHANGED <<attReceived, attInflight>>
      BY <1>6, <2>2 DEF Attach!HandleInput
    <3> QED
      BY <1>0, <2>1, <3>1 DEF ScannerAgrees, NothingPending, AllUnderWay, NothingElse, Due
  <2>3. CASE attSession = "running"
    <3>1. /\ attReceived' = Append(attReceived, Head(attInflight))
          /\ attInflight' = Tail(attInflight) /\ UNCHANGED attUpstream
      BY <1>6, <2>3 DEF Attach!HandleInput
    <3>2. attReceived' \o attInflight' = attReceived \o attInflight
      BY <1>k, <2>1, <3>1, HandedOn
    <3>3. attReceived' \in Seq(AKeys) /\ attInflight' \in Seq(AKeys)
      BY <1>0 DEF Attach!TypeOK, AKeys
    <3>4. Begins(attReceived', attReceived \o attInflight)
      BY <3>2, <3>3, BeginsItself
    <3>5. Begins(attReceived', Due(attTaken))
      BY <1>k, <2>1, <3>3, <3>4, BeginsAsFar DEF NothingElse
    <3>6. Due(attTaken)' = Due(attTaken)
      BY <2>1 DEF Due
    <3>7. ScannerAgrees' /\ NothingPending'
      BY <2>1 DEF ScannerAgrees, NothingPending
    <3> QED
      BY <1>0, <2>1, <3>1, <3>2, <3>5, <3>6, <3>7 DEF AllUnderWay, NothingElse
  <2> QED
    BY <2>2, <2>3
<1>7. CASE Attach!Cancelled \/ Attach!LinkLost
  <2>1. UNCHANGED <<attTyped, attTaken, attArmed, attPending, attInput, attReceived>>
        /\ attUpstream' = "broken"
    BY <1>7 DEF Attach!Cancelled, Attach!LinkLost, Attach!keyVars
  <2> QED
    BY <1>0, <2>1 DEF ScannerAgrees, NothingPending, AllUnderWay, NothingElse, Due
<1>8. CASE Attach!SessionEnds \/ Attach!Signal \/ UNCHANGED attVars
  BY <1>8, <1>q DEF Attach!SessionEnds, Attach!Signal, Attach!keyVars, attVars
<1>9. ASSUME NEW k \in Attach!Keys, Attach!Type(k) PROVE AttachInv'
  <2>1. /\ attTyped' = Append(attTyped, k)
        /\ UNCHANGED <<attTaken, attArmed, attPending, attInput, attInflight, attUpstream,
                       attReceived>>
    BY <1>9 DEF Attach!Type
  <2>2. k \in AKeys
    BY DEF AKeys
  <2>3. Due(attTaken)' = Due(attTaken)
    BY <1>k, <2>1, <2>2, ForwardedStays DEF Due
  <2>4. ChordIn(attTyped', attTaken) <=> ChordIn(attTyped, attTaken)
    BY <1>k, <2>1, <2>2, ForwardedStays
  <2>5. StandsAt(attTyped, attTaken, attArmed) => StandsAt(attTyped', attTaken, attArmed)
    <3>1. attTaken > 0 => attTaken \in 1..Len(attTyped)
      BY <1>k
    <3>2. attTaken > 0 => (Attach!OpensChord(attTyped', attTaken)
                             <=> Attach!OpensChord(attTyped, attTaken))
      BY <1>k, <2>1, <2>2, <3>1, LaterKeys
    <3> QED
      BY <3>2 DEF StandsAt
  <2>6. ScannerAgrees'
    BY <2>1, <2>4, <2>5 DEF ScannerAgrees
  <2> QED
    BY <1>0, <2>1, <2>3, <2>6 DEF NothingPending, AllUnderWay, NothingElse
<1> QED
  BY <1>1, <1>2, <1>3, <1>4, <1>5, <1>6, <1>7, <1>8, <1>9
     DEF Attach!Next, Attach!InputStep

\* For every n: the first keys are those of a prefix.
LEMMA BeginsWithPrefix ==
  ASSUME NEW s \in Seq(AKeys), NEW t \in Seq(AKeys), Begins(s, t)
  PROVE  \E n \in 0..Len(t) : s = SubSeq(t, 1, n)
<1>1. PICK rest \in Seq(AKeys) : t = s \o rest
  BY DEF Begins
<1>2. /\ Len(s) \in Nat /\ Len(rest) \in Nat /\ Len(t) = Len(s) + Len(rest)
      /\ \A i \in 1..(Len(s) + Len(rest)) :
           t[i] = IF i <= Len(s) THEN s[i] ELSE rest[i - Len(s)]
  BY <1>1, Joined
<1>3. Len(s) \in 0..Len(t) /\ \A i \in 1..Len(s) : t[i] = s[i]
  BY <1>2
<1> DEFINE u == SubSeq(t, 1, Len(s))
<1>4. u \in Seq(AKeys) /\ Len(u) = Len(s) /\ \A i \in 1..Len(s) : u[i] = t[i]
  <2>1. \A i \in 1..Len(s) : t[i] \in AKeys
    BY <1>3
  <2> QED
    BY <1>2, <2>1, SubSeqProperties
<1> HIDE DEF u
<1>5. s = u
  BY <1>3, <1>4, SeqEqual
<1> QED
  BY <1>3, <1>5 DEF u

\* Wherever the reads cut the keys, and however the command ends.
LEMMA AttachAlways == ServicesSpec => []AttachInv
<1>1. ServicesInit => AttachInv
  <2> SUFFICES ASSUME Attach!Init PROVE AttachInv
    BY DEF ServicesInit
  <2>1. Attach!TypeOK
    <3>1. attTyped \in Seq(Attach!Keys) /\ attTaken \in 0..Len(attTyped) /\ attArmed \in BOOLEAN
      <4>1. attTyped = <<>> /\ attTaken = 0 /\ attArmed = FALSE
        BY DEF Attach!Init
      <4>2. Len(attTyped) = 0
        BY <4>1
      <4>3. attTyped \in Seq(Attach!Keys)
        BY <4>1
      <4>4. attTaken \in 0..Len(attTyped)
        BY <4>1, <4>2
      <4>5. attArmed \in BOOLEAN
        BY <4>1, Zenon
      <4> QED
        BY <4>3, <4>4, <4>5
    <3>2. attPending \in Seq(Attach!Keys) /\ attInflight \in Seq(Attach!Keys)
          /\ attReceived \in Seq(Attach!Keys)
      BY DEF Attach!Init
    <3>3. /\ attInput = "loop" /\ attUpstream = "open" /\ attSession \in {"running", "ended"}
          /\ attStream \in {"open", "error"} /\ attCtx = FALSE /\ attOutput = "recv"
      BY DEF Attach!Init
    <3> QED
      BY <3>1, <3>2, <3>3 DEF Attach!TypeOK
  <2>2. attTyped \in Seq(AKeys) /\ attTaken = 0 /\ ~attArmed
        /\ attPending = <<>> /\ attInflight = <<>> /\ attReceived = <<>>
        /\ 0 \in 0..Len(attTyped)
    BY DEF Attach!Init, AKeys
  <2>3. Due(attTaken) = <<>>
    BY <2>2, ForwardedIs DEF Due
  <2>4. ScannerAgrees
    BY <2>2 DEF ScannerAgrees, ChordIn, StandsAt
  <2>5. NothingPending
    BY <2>2 DEF NothingPending
  <2>6. <<>> \in Seq(AKeys) /\ <<>> \o <<>> = <<>>
    BY EmptySeq, ConcatEmptySeq
  <2>7. Begins(<<>>, <<>>)
    BY <2>6, BeginsItself
  <2>8. AllUnderWay /\ NothingElse
    BY <2>2, <2>3, <2>6, <2>7 DEF AllUnderWay, NothingElse
  <2> QED
    BY <2>1, <2>4, <2>5, <2>8 DEF AttachInv
<1>2. AttachInv /\ [ServicesNext]_ServicesVars => AttachInv'
  BY AttachStays, PartSteps
<1> QED
  BY <1>1, <1>2, PTL DEF ServicesSpec

\* helpers.go:382-417: what the session was given is the beginning of what was typed, with
\* the doubled prefix as one and nothing of the chord or after it. This is the safety half
\* of ChordIsHonoured, for any number of keys in reads of any size.
THEOREM KeysArrive == ServicesSpec => []Attach!KeysArriveInOrder
<1>1. AttachInv => Attach!KeysArriveInOrder
  <2> SUFFICES ASSUME AttachInv PROVE Attach!KeysArriveInOrder
    OBVIOUS
  <2> DEFINE given == Attach!Forwarded(attTyped)[Len(attTyped)]
  <2>1. /\ attTyped \in Seq(AKeys) /\ attReceived \in Seq(AKeys)
        /\ attTaken \in 0..Len(attTyped) /\ Len(attTyped) \in attTaken..Len(attTyped)
        /\ Len(attTyped) \in 0..Len(attTyped)
    BY DEF AttachInv, Attach!TypeOK, AKeys
  <2>2. given \in Seq(AKeys) /\ Due(attTaken) \in Seq(AKeys)
    BY <2>1, ForwardedIs DEF Due
  <2>3. Begins(Due(attTaken), given)
    BY <2>1, ForwardedGrows DEF Due
  <2> HIDE DEF given
  <2>4. Begins(attReceived, given)
    BY <2>1, <2>2, <2>3, BeginsAsFar DEF AttachInv, NothingElse
  <2>5. \E n \in 0..Len(given) : attReceived = SubSeq(given, 1, n)
    BY <2>1, <2>2, <2>4, BeginsWithPrefix
  <2> QED
    BY <2>5 DEF given, Attach!KeysArriveInOrder
<1> QED
  BY <1>1, AttachAlways, PTL

-----------------------------------------------------------------------------
(* Every variable has its type *)

\* The type invariant of the run.
THEOREM ServicesTypeCorrect == ServicesSpec => []ServicesTypeOK
<1>1. ServicesSpec => [](part \in {"runs", "hub", "attach", "tunnel"})
  <2>1. ServicesInit => part \in {"runs", "hub", "attach", "tunnel"}
    BY DEF ServicesInit
  <2>2. /\ part \in {"runs", "hub", "attach", "tunnel"}
        /\ [ServicesNext]_ServicesVars
        => (part \in {"runs", "hub", "attach", "tunnel"})'
    BY PartSteps
  <2> QED
    BY <2>1, <2>2, PTL DEF ServicesSpec
<1>2. /\ part \in {"runs", "hub", "attach", "tunnel"}
      /\ ExecutorInv /\ HubInv /\ AttachInv /\ LinkInv
      => ServicesTypeOK
  <2> SUFFICES ASSUME part \in {"runs", "hub", "attach", "tunnel"},
                      TypeOK, Hub!TypeOK, Attach!TypeOK, Link!TypeOK
               PROVE  ServicesTypeOK
    BY ExecutorTyped DEF HubInv, AttachInv, LinkInv
  <2>1. part = "runs" \/ part = "hub" \/ part = "attach" \/ part = "tunnel"
    OBVIOUS
  <2> HIDE DEF TypeOK, Hub!TypeOK, Attach!TypeOK, Link!TypeOK
  <2> QED
    BY <2>1, Zenon DEF ServicesTypeOK
<1> QED
  BY <1>1, <1>2, ExecutorAlways, HubAlways, AttachAlways, LinkAlways, PTL
=============================================================================
