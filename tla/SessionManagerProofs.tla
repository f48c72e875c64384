------------------------ MODULE SessionManagerProofs ------------------------
(***************************************************************************)
(* Safety of SessionManager for any finite set of sessions, any limit and  *)
(* any number of crashes.                                                  *)
(***************************************************************************)
EXTENDS SessionManager, FiniteSetTheorems, TLAPS

Steps == CallSteps \cup LoopSteps \cup MainSteps

\* Where a Create call holds sessionsMu (manager.go:230-307).
Holding == {"starting", "adding", "createSave", "createWrite"}

\* The actors are told apart by their names.
LEMMA DistinctActors ==
  /\ "cleanup" \notin Sessions /\ "main" \notin Sessions /\ "nobody" \notin Actors
  /\ "cleanup" # "main"
BY ManagerAssumption DEF Actors

\* Goto moves one actor, and leaves its kind of step to the caller.
LEMMA GotoMoves ==
  ASSUME pc \in [Actors -> Steps], NEW a \in Actors, NEW to \in Steps, Goto(a, to)
  PROVE  /\ pc' \in [Actors -> Steps]
         /\ pc'[a] = to
         /\ \A b \in Actors : b # a => pc'[b] = pc[b]
BY DEF Goto

\* What may follow when a Save begins (store.go:99-125).
LEMMA BeginSaveSteps ==
  ASSUME NEW a, pc[a] \in DOMAIN Write
  PROVE  \/ pc[a] = "createSave" /\ Write[pc[a]] = "createWrite"
         \/ pc[a] = "killSave" /\ Write[pc[a]] = "killWrite"
         \/ pc[a] \in {"batchSave", "retentionSave", "againSave"}
              /\ Write[pc[a]] \in {"batchWrite", "retentionWrite", "againWrite"}
         \/ pc[a] = "bootSave" /\ Write[pc[a]] = "bootWrite"
         \/ pc[a] = "closeSave" /\ Write[pc[a]] = "closeWrite"
BY DEF Write

\* And when it ends.
LEMMA EndSaveSteps ==
  ASSUME NEW a, pc[a] \in DOMAIN Written
  PROVE  \/ pc[a] = "createWrite" /\ Written[pc[a]] = "created"
         \/ pc[a] = "killWrite" /\ Written[pc[a]] = "killed"
         \/ pc[a] \in {"batchWrite", "retentionWrite", "againWrite"}
              /\ Written[pc[a]] \in {"retention", "againSave", "waiting"}
         \/ pc[a] = "bootWrite" /\ Written[pc[a]] = "startLoop"
         \/ pc[a] = "closeWrite" /\ Written[pc[a]] = "stopped"
BY DEF Written

\* The part of TypeOK about actors and sessionsMu.
ActorsOK ==
  /\ pc \in [Actors -> Steps]
  /\ \A s \in Sessions : pc[s] \in CallSteps
  /\ pc["cleanup"] \in LoopSteps /\ pc["main"] \in MainSteps
  /\ holder \in Actors \cup {"nobody"}
  /\ \A s \in Sessions : holder = s <=> pc[s] \in Holding
  /\ holder = "main" <=> pc["main"] = "sweeping"

\* The part about what the manager and the store hold.
DataOK ==
  /\ sessions \subseteq Sessions
  /\ life \in [Sessions -> {"none", "live", "ended", "closing", "closed"}]
  /\ closed \in BOOLEAN
  /\ batch \subseteq Sessions /\ toMark \subseteq Sessions /\ toDelete \subseteq Sessions
  /\ records \in StoreContent /\ disk \in StoreContent
  /\ snap \in [Actors -> StoreContent]
  /\ deleted \subseteq Sessions
  /\ crashes \in 0 .. MaxCrashes

\* The two parts are all of it.
LEMMA TypeParts == TypeOK <=> ActorsOK /\ DataOK
BY DEF TypeOK, ActorsOK, DataOK, Steps, Holding

-----------------------------------------------------------------------------
\* A call moves along its own steps and has sessionsMu where Create holds it.
LEMMA ActorsCall ==
  ASSUME ActorsOK, NEW s \in Sessions,
         LockForCreate(s) \/ ProcessExits(s) \/ Kill(s) \/ Call(s)
  PROVE  ActorsOK'
<1> USE DistinctActors DEF ActorsOK, CallSteps, LoopSteps, MainSteps, Steps, Holding, Actors, Goto
<1>1. CASE LockForCreate(s)
  <2>1. holder = "nobody" /\ pc[s] = "new"
    BY <1>1 DEF LockForCreate
  <2>2. CASE Goto(s, "refused") /\ UNCHANGED holder
    BY <2>1, <2>2
  <2>3. CASE Goto(s, "starting") /\ holder' = s
    BY <2>1, <2>3
  <2> QED BY <1>1, <2>2, <2>3 DEF LockForCreate
<1>2. CASE StartFails(s)
  BY <1>2 DEF StartFails
<1>3. CASE StartSession(s)
  BY <1>3 DEF StartSession
<1>4. CASE AddRecord(s)
  BY <1>4 DEF AddRecord, memVars
<1>5. CASE Kill(s)
  BY <1>5 DEF Kill
<1>6. CASE KillMark(s)
  BY <1>6 DEF KillMark, memVars
<1>7. CASE ProcessExits(s) \/ BeginClose(s) \/ FinishClose(s)
  BY <1>7 DEF ProcessExits, BeginClose, FinishClose
<1> QED BY <1>1, <1>2, <1>3, <1>4, <1>5, <1>6, <1>7 DEF Call

\* The loop keeps to its own steps; Manager.Close has sessionsMu while it sweeps.
LEMMA ActorsLoopAndMain ==
  ASSUME ActorsOK, Cleanup \/ Main \/ CloseManager
  PROVE  ActorsOK'
<1> USE DistinctActors DEF ActorsOK, CallSteps, LoopSteps, MainSteps, Steps, Holding, Actors, Goto
<1>1. CASE Tick \/ DeleteLogs \/ LoopExits
  BY <1>1 DEF Tick, DeleteLogs, LoopExits, memVars
<1>2. CASE TakeOut
  BY <1>2 DEF TakeOut
<1>3. CASE \E s \in Sessions : BatchMark(s)
  BY <1>3 DEF BatchMark, memVars
<1>4. CASE Retention
  BY <1>4 DEF Retention, memVars
<1>5. CASE Load \/ MarkStale \/ CloseManager
  BY <1>5 DEF Load, MarkStale, CloseManager, memVars
<1>6. CASE StartLoop
  BY <1>6 DEF StartLoop, memVars
<1>7. CASE Sweep
  BY <1>7 DEF Sweep
<1>8. CASE EndSweep
  BY <1>8 DEF EndSweep
<1>9. CASE MarkSwept
  <2>1. UNCHANGED holder /\ (Goto("main", "closeSave") \/ UNCHANGED pc) /\ pc["main"] = "marking"
    BY <1>9 DEF MarkSwept, memVars
  <2> QED BY <2>1
<1> QED BY <1>1, <1>2, <1>3, <1>4, <1>5, <1>6, <1>7, <1>8, <1>9 DEF Cleanup, Main

\* A save goes on where it was called; the one of Create gives sessionsMu back.
LEMMA ActorsSave ==
  ASSUME ActorsOK, NEW a \in Actors, BeginSave(a) \/ EndSave(a)
  PROVE  ActorsOK'
<1> USE DistinctActors
    DEF ActorsOK, CallSteps, LoopSteps, MainSteps, Steps, Holding, Actors, Goto
<1>1. CASE BeginSave(a)
  <2>1. pc[a] \in DOMAIN Write /\ pc' = [pc EXCEPT ![a] = Write[pc[a]]] /\ holder' = holder
    BY <1>1 DEF BeginSave, memVars
  <2> HIDE DEF Actors
  <2> QED BY <2>1, BeginSaveSteps DEF Actors
<1>2. CASE EndSave(a)
  <2>1. /\ pc[a] \in DOMAIN Written /\ pc' = [pc EXCEPT ![a] = Written[pc[a]]]
        /\ holder' = IF holder = a THEN "nobody" ELSE holder
    BY <1>2 DEF EndSave
  <2> QED BY <2>1, EndSaveSteps
<1> QED BY <1>1, <1>2

\* After a crash nobody has anything.
LEMMA ActorsCrash ==
  ASSUME ActorsOK, Crash
  PROVE  ActorsOK'
BY DistinctActors
   DEF ActorsOK, Crash, CallSteps, LoopSteps, MainSteps, Steps, Holding, Actors

\* Marking records leaves a store content.
LEMMA MarkType ==
  ASSUME records \in StoreContent, NEW ids, MarkEnded(ids)
  PROVE  records' \in StoreContent
BY DEF MarkEnded, StoreContent

\* The maps and the store keep their types.
LEMMA DataStep ==
  ASSUME DataOK, [Next]_vars
  PROVE  DataOK'
<1> USE ManagerAssumption DEF DataOK
<1>1. ASSUME NEW s \in Sessions, LockForCreate(s) \/ StartFails(s) PROVE DataOK'
  BY <1>1 DEF LockForCreate, StartFails, loopVars, storeVars
<1>2. ASSUME NEW s \in Sessions,
             StartSession(s) \/ ProcessExits(s) \/ BeginClose(s) \/ FinishClose(s) \/ Kill(s)
      PROVE  DataOK'
  BY <1>2 DEF StartSession, ProcessExits, BeginClose, FinishClose, Kill, loopVars, storeVars
<1>3. ASSUME NEW s \in Sessions, AddRecord(s) PROVE DataOK'
  <2>1. records' \in StoreContent
    BY <1>3 DEF AddRecord, StoreContent
  <2> QED BY <1>3, <2>1 DEF AddRecord, memVars, loopVars
<1>4. ASSUME NEW s \in Sessions, KillMark(s) PROVE DataOK'
  <2>1. records' \in StoreContent
    BY <1>4, MarkType DEF KillMark
  <2> QED BY <1>4, <2>1 DEF KillMark, memVars, loopVars
<1>5. CASE Tick \/ LoopExits \/ StartLoop \/ CloseManager \/ Sweep
  BY <1>5 DEF Tick, LoopExits, StartLoop, CloseManager, Sweep, memVars, loopVars, storeVars
<1>6. CASE TakeOut
  BY <1>6 DEF TakeOut, Reapable, storeVars
<1>7. ASSUME NEW s \in Sessions, BatchMark(s) PROVE DataOK'
  <2>1. records' \in StoreContent
    BY <1>7, MarkType DEF BatchMark
  <2> QED BY <1>7, <2>1 DEF BatchMark, memVars
<1>8. CASE Retention
  <2>1. records' \in StoreContent
    BY <1>8 DEF Retention, StoreContent
  <2>2. toDelete' \subseteq Sessions
    BY <1>8 DEF Retention
  <2> QED BY <1>8, <2>1, <2>2 DEF Retention, memVars
<1>9. CASE DeleteLogs
  BY <1>9 DEF DeleteLogs, memVars, storeVars
<1>10. CASE Load
  BY <1>10 DEF Load, memVars, loopVars
<1>11. CASE MarkStale
  <2>1. records' \in StoreContent
    BY <1>11, MarkType DEF MarkStale
  <2> QED BY <1>11, <2>1 DEF MarkStale, memVars, loopVars
<1>12. CASE EndSweep
  BY <1>12 DEF EndSweep, storeVars
<1>13. CASE MarkSwept
  <2>1. records' \in StoreContent /\ toMark' \subseteq Sessions
    BY <1>13, MarkType DEF MarkSwept
  <2> QED BY <1>13, <2>1 DEF MarkSwept, memVars
<1>14. ASSUME NEW a \in Actors, BeginSave(a) PROVE DataOK'
  BY <1>14 DEF BeginSave, memVars, loopVars
<1>15. ASSUME NEW a \in Actors, EndSave(a) PROVE DataOK'
  BY <1>15 DEF EndSave, loopVars
<1>16. CASE Crash
  <2>1. records' \in StoreContent
    BY <1>16 DEF Crash, StoreContent
  <2>2. life' \in [Sessions -> {"none", "live", "ended", "closing", "closed"}]
    BY <1>16 DEF Crash
  <2>3. /\ crashes < MaxCrashes /\ crashes' = crashes + 1
        /\ sessions' = {} /\ closed' = FALSE /\ batch' = {} /\ toMark' = {} /\ toDelete' = {}
        /\ UNCHANGED <<snap, disk, deleted>>
    BY <1>16 DEF Crash
  <2>4. crashes' \in 0 .. MaxCrashes
    BY <2>3
  <2>5. closed' \in BOOLEAN
    BY <2>3, Zenon
  <2> QED BY <2>1, <2>2, <2>3, <2>4, <2>5
<1>17. CASE UNCHANGED vars
  BY <1>17 DEF vars, memVars, loopVars, storeVars
<1> QED
  BY <1>1, <1>2, <1>3, <1>4, <1>5, <1>6, <1>7, <1>8, <1>9, <1>10, <1>11, <1>12, <1>13, <1>14,
     <1>15, <1>16, <1>17
  DEF Next, Cleanup, Main, Call

\* Types, and that sessionsMu has one owner: a Create from its checks to its return, or
\* Manager.Close while it closes every session (manager.go:230-307, 543-559).
THEOREM TypeCorrect == Spec => []TypeOK
<1>1. Init => TypeOK
  <2> SUFFICES ASSUME Init PROVE TypeOK
    OBVIOUS
  <2>1. ActorsOK
    BY DistinctActors
       DEF Init, ActorsOK, Steps, CallSteps, LoopSteps, MainSteps, Holding, Actors
  <2>2. records \in StoreContent
    BY DEF Init, StoreContent
  <2>3. disk = records /\ snap \in [Actors -> StoreContent]
    BY <2>2 DEF Init
  <2>4. life \in [Sessions -> {"none", "live", "ended", "closing", "closed"}]
    BY DEF Init
  <2>5. /\ sessions = {} /\ closed = FALSE /\ batch = {} /\ toMark = {} /\ toDelete = {}
        /\ deleted = {} /\ crashes = 0
    BY DEF Init
  <2>6. crashes \in 0 .. MaxCrashes
    BY <2>5, ManagerAssumption
  <2>7. closed \in BOOLEAN
    BY <2>5, Zenon
  <2>8. DataOK
    BY <2>2, <2>3, <2>4, <2>5, <2>6, <2>7 DEF DataOK
  <2> QED BY <2>1, <2>8, TypeParts
<1>2. TypeOK /\ [Next]_vars => TypeOK'
  <2> SUFFICES ASSUME TypeOK, [Next]_vars PROVE TypeOK'
    OBVIOUS
  <2>1. ActorsOK /\ DataOK
    BY TypeParts
  <2>2. DataOK'
    BY <2>1, DataStep
  <2>3. ASSUME UNCHANGED vars PROVE ActorsOK'
    BY <2>1, <2>3 DEF ActorsOK, vars, memVars
  <2>4. ActorsOK'
    BY <2>1, <2>3, ActorsCall, ActorsLoopAndMain, ActorsSave, ActorsCrash DEF Next
  <2> QED BY <2>2, <2>4 DEF TypeOK, ActorsOK, DataOK, Steps, Holding
<1> QED BY <1>1, <1>2, PTL DEF Spec

-----------------------------------------------------------------------------
\* A Create that has made its checks has room, and keeps it: nobody else can start one.
StartingHasRoom == \A s \in Sessions : pc[s] = "starting" => Cardinality(Live) < MaxSessions

LimitInv == LiveWithinLimit /\ StartingHasRoom

\* The live sessions can be counted.
LEMMA LiveIsFinite ==
  ASSUME sessions \subseteq Sessions
  PROVE  IsFiniteSet(Live) /\ Cardinality(Live) \in Nat
<1>1. IsFiniteSet(Live)
  BY ManagerAssumption, FS_Subset DEF Live
<1> QED BY <1>1, FS_CardinalityType

\* Where no session comes alive the count does not grow.
LEMMA LiveShrinks ==
  ASSUME sessions \subseteq Sessions, Live' \subseteq Live
  PROVE  Cardinality(Live') \in Nat /\ Cardinality(Live') <= Cardinality(Live)
BY LiveIsFinite, FS_Subset, FS_CardinalityType

\* Only StartSession brings a session to life (manager.go:239-307).
LEMMA OnlyStartGrows ==
  ASSUME TypeOK, [Next]_vars, NEW s \in Sessions, s \in Live', s \notin Live
  PROVE  StartSession(s)
<1> SUFFICES ASSUME ~StartSession(s) PROVE FALSE
  OBVIOUS
<1> USE DEF Live
<1>1. ASSUME NEW t \in Sessions,
             LockForCreate(t) \/ StartFails(t) \/ AddRecord(t) \/ KillMark(t) \/ Kill(t)
      PROVE  FALSE
  BY <1>1 DEF LockForCreate, StartFails, AddRecord, KillMark, Kill, memVars
<1>2. ASSUME NEW t \in Sessions, StartSession(t) PROVE FALSE
  BY <1>2 DEF StartSession, TypeOK
<1>3. ASSUME NEW t \in Sessions, ProcessExits(t) \/ BeginClose(t) \/ FinishClose(t) PROVE FALSE
  BY <1>3 DEF ProcessExits, BeginClose, FinishClose, TypeOK
<1>4. CASE Cleanup
  BY <1>4 DEF Cleanup, Tick, TakeOut, BatchMark, Retention, DeleteLogs, LoopExits, memVars
<1>5. CASE Main \/ CloseManager
  BY <1>5 DEF Main, Load, MarkStale, StartLoop, Sweep, EndSweep, MarkSwept, CloseManager, memVars
<1>6. CASE Crash
  BY <1>6 DEF Crash
<1>7. ASSUME NEW a \in Actors, BeginSave(a) \/ EndSave(a) PROVE FALSE
  BY <1>7 DEF BeginSave, EndSave, memVars
<1>8. CASE UNCHANGED vars
  BY <1>8 DEF vars, memVars
<1> QED BY <1>1, <1>2, <1>3, <1>4, <1>5, <1>6, <1>7, <1>8 DEF Next, Call

\* Only LockForCreate begins a start, and only where there is room.
LEMMA StartingIsChecked ==
  ASSUME TypeOK, [Next]_vars, NEW s \in Sessions, pc'[s] = "starting", pc[s] # "starting"
  PROVE  LockForCreate(s)
<1> SUFFICES ASSUME ~LockForCreate(s) PROVE FALSE
  OBVIOUS
<1> USE DistinctActors DEF TypeOK, Actors, Goto
<1>1. ASSUME NEW t \in Sessions, LockForCreate(t) PROVE FALSE
  BY <1>1 DEF LockForCreate
<1>2. ASSUME NEW t \in Sessions,
             StartFails(t) \/ StartSession(t) \/ AddRecord(t) \/ KillMark(t) \/ Kill(t)
      PROVE  FALSE
  BY <1>2 DEF StartFails, StartSession, AddRecord, KillMark, Kill
<1>3. ASSUME NEW t \in Sessions, ProcessExits(t) \/ BeginClose(t) \/ FinishClose(t) PROVE FALSE
  BY <1>3 DEF ProcessExits, BeginClose, FinishClose
<1>4. CASE Cleanup
  BY <1>4 DEF Cleanup, Tick, TakeOut, BatchMark, Retention, DeleteLogs, LoopExits
<1>5. CASE Main \/ CloseManager
  BY <1>5 DEF Main, Load, MarkStale, StartLoop, Sweep, EndSweep, MarkSwept, CloseManager
<1>6. CASE Crash
  BY <1>6 DEF Crash
<1>7. ASSUME NEW a \in Actors, BeginSave(a) PROVE FALSE
  BY <1>7, BeginSaveSteps DEF BeginSave
<1>8. ASSUME NEW a \in Actors, EndSave(a) PROVE FALSE
  BY <1>8, EndSaveSteps DEF EndSave
<1>9. CASE UNCHANGED vars
  BY <1>9 DEF vars
<1> QED BY <1>1, <1>2, <1>3, <1>4, <1>5, <1>6, <1>7, <1>8, <1>9 DEF Next, Call

\* The limit holds by the lock: one Create counts and starts at a time.
LEMMA LimitStep == TypeOK /\ TypeOK' /\ LimitInv /\ [Next]_vars => LimitInv'
<1> SUFFICES ASSUME TypeOK, TypeOK', LimitInv, [Next]_vars PROVE LimitInv'
  OBVIOUS
<1>t. sessions \subseteq Sessions /\ sessions' \subseteq Sessions /\ MaxSessions \in Nat
  BY ManagerAssumption DEF TypeOK
<1>n. Cardinality(Live) \in Nat
  BY <1>t, LiveIsFinite
<1>1. CASE Live' \subseteq Live
  <2>1. Cardinality(Live') \in Nat /\ Cardinality(Live') <= Cardinality(Live)
    BY <1>1, <1>t, LiveShrinks
  <2>2. LiveWithinLimit'
    BY <2>1, <1>n, <1>t DEF LimitInv, LiveWithinLimit
  <2>3. ASSUME NEW s \in Sessions, pc'[s] = "starting" PROVE Cardinality(Live') < MaxSessions
    <3>1. CASE pc[s] = "starting"
      BY <2>1, <3>1, <1>n, <1>t DEF LimitInv, StartingHasRoom
    <3>2. CASE pc[s] # "starting"
      <4>1. LockForCreate(s)
        BY <2>3, <3>2, StartingIsChecked
      <4>2. pc'[s] = "refused" \/ ~(closed \/ Cardinality(Live) >= MaxSessions)
        BY <4>1 DEF LockForCreate, Goto, TypeOK, Actors
      <4> QED BY <2>1, <2>3, <4>2, <1>n, <1>t
    <3> QED BY <3>1, <3>2
  <2> QED BY <2>2, <2>3 DEF LimitInv, StartingHasRoom
<1>2. CASE ~(Live' \subseteq Live)
  <2>1. PICK s \in Sessions : s \in Live' /\ s \notin Live
    BY <1>2, <1>t DEF Live
  <2>2. StartSession(s)
    BY <2>1, OnlyStartGrows
  <2>3. Live' \subseteq Live \cup {s}
    BY <2>2 DEF StartSession, Live, TypeOK
  <2>4. Cardinality(Live \cup {s}) = Cardinality(Live) + 1 /\ IsFiniteSet(Live \cup {s})
    BY <2>1, <1>t, LiveIsFinite, FS_AddElement
  <2>5. Cardinality(Live') <= Cardinality(Live) + 1 /\ Cardinality(Live') \in Nat
    BY <2>3, <2>4, FS_Subset, FS_CardinalityType
  <2>6. Cardinality(Live) < MaxSessions
    BY <2>2 DEF StartSession, LimitInv, StartingHasRoom
  <2>7. LiveWithinLimit'
    BY <2>5, <2>6, <1>n, <1>t DEF LiveWithinLimit
  <2>8. \A u \in Sessions : pc'[u] # "starting"
    <3>1. pc'[s] = "adding" /\ holder = s /\ holder' = holder
      BY <2>2 DEF StartSession, Goto, TypeOK, Actors
    <3> QED BY <3>1 DEF TypeOK
  <2> QED BY <2>7, <2>8 DEF LimitInv, StartingHasRoom
<1> QED BY <1>1, <1>2

\* The limit counts live sessions, however many Create calls race (manager.go:239-258).
THEOREM LimitHolds == Spec => []LiveWithinLimit
<1>1. Init => LimitInv
  <2> SUFFICES ASSUME Init PROVE LimitInv
    OBVIOUS
  <2>1. Live = {}
    BY DEF Init, Live
  <2>2. Cardinality(Live) = 0
    BY <2>1, FS_EmptySet
  <2> QED BY <2>2, ManagerAssumption DEF LimitInv, LiveWithinLimit, StartingHasRoom
<1>2. TypeOK /\ TypeOK' /\ LimitInv /\ [Next]_vars => LimitInv'
  BY LimitStep
<1>3. LimitInv => LiveWithinLimit
  BY DEF LimitInv
<1> QED BY <1>1, <1>2, <1>3, TypeCorrect, PTL DEF Spec

-----------------------------------------------------------------------------
\* Once Manager.Close has begun to sweep, and once it has swept.
Sweeping == {"sweeping", "marking", "closeSave", "closeWrite", "stopped"}
Swept == Sweeping \ {"sweeping"}

\* How far the manager has come tells who may have what.
Phases ==
  /\ ~Booted =>
       /\ sessions = {} /\ batch = {} /\ toMark = {} /\ toDelete = {} /\ pc["cleanup"] = "new"
       /\ \A s \in Sessions : pc[s] \in {"new", "killed", "lost"} /\ life[s] \in {"none", "closed"}
  /\ closed <=> pc["main"] \in Sweeping \cup {"waitLoop"}
  /\ pc["cleanup"] = "exited" => closed
  /\ pc["main"] \in Sweeping => pc["cleanup"] = "exited" /\ \A s \in Sessions : pc[s] \notin Holding
  /\ batch # {} => pc["cleanup"] = "batch"
  /\ toDelete # {} => pc["cleanup"] = "deleting"
  /\ toMark # {} => pc["main"] = "marking"

\* Every session that has not been closed is in the map or with who closes it, and what has
\* never lived has left no trace.
Owned ==
  \A s \in Sessions :
    /\ life[s] \in {"live", "ended", "closing"} =>
         s \in sessions \/ s \in batch \/ pc[s] = "killing"
    /\ pc[s] \in {"new", "refused", "starting"} => life[s] = "none"
    /\ pc[s] \in {"adding", "createSave", "createWrite"} => s \in sessions
    /\ life[s] = "none" =>
         /\ s \notin sessions /\ s \notin batch
         /\ records[s] = "none" /\ disk[s] = "none" /\ \A a \in Actors : snap[a][s] = "none"
    /\ s \in toMark => life[s] = "closed"
    /\ s \in sessions /\ pc["main"] \in Swept => life[s] = "closed"

\* A record is ended once its session is closed, and who has it until then will mark it.
Recorded ==
  /\ \A s \in Sessions : records[s] = "ended" => life[s] = "closed"
  /\ LogsOutliveSessions
  /\ OpenRecordHasOwner
  /\ pc["main"] \in {"bootSave", "bootWrite", "startLoop"} =>
       \A s \in Sessions : records[s] # "idle"
  /\ pc["main"] = "marking" =>
       \A s \in Sessions : s \in sessions /\ records[s] = "idle" => s \in toMark

\* The inductive form of EverySessionHasOwner.
OwnerInv == Phases /\ Owned /\ Recorded

\* Where a save takes the calls, the loop and the manager.
SaveMoves ==
  /\ \A s \in Sessions :
       \/ pc'[s] = pc[s]
       \/ pc[s] = "createSave" /\ pc'[s] = "createWrite"
       \/ pc[s] = "createWrite" /\ pc'[s] = "created"
       \/ pc[s] = "killSave" /\ pc'[s] = "killWrite"
       \/ pc[s] = "killWrite" /\ pc'[s] = "killed"
  /\ \/ pc'["cleanup"] = pc["cleanup"]
     \/ /\ pc["cleanup"] \in {"batchSave", "batchWrite", "retentionSave", "retentionWrite",
                              "againSave", "againWrite"}
        /\ pc'["cleanup"] \in {"batchWrite", "retention", "retentionWrite", "againSave",
                               "againWrite", "waiting"}
  /\ \/ pc'["main"] = pc["main"]
     \/ pc["main"] = "bootSave" /\ pc'["main"] = "bootWrite"
     \/ pc["main"] = "bootWrite" /\ pc'["main"] = "startLoop"
     \/ pc["main"] = "closeSave" /\ pc'["main"] = "closeWrite"
     \/ pc["main"] = "closeWrite" /\ pc'["main"] = "stopped"

\* A save moves the actor that makes it, and nobody else (store.go:99-125).
LEMMA SaveStep ==
  ASSUME TypeOK, NEW a \in Actors, BeginSave(a) \/ EndSave(a)
  PROVE  SaveMoves
<1>1. PICK to : /\ pc' = [pc EXCEPT ![a] = to]
                /\ \/ pc[a] \in DOMAIN Write /\ to = Write[pc[a]]
                   \/ pc[a] \in DOMAIN Written /\ to = Written[pc[a]]
  BY DEF BeginSave, EndSave, Goto
<1>2. /\ pc'[a] = to
      /\ \A b \in Actors : b # a => pc'[b] = pc[b]
  BY <1>1 DEF TypeOK
<1>3. \/ pc[a] = "createSave" /\ to = "createWrite"
      \/ pc[a] = "killSave" /\ to = "killWrite"
      \/ pc[a] = "bootSave" /\ to = "bootWrite"
      \/ pc[a] = "closeSave" /\ to = "closeWrite"
      \/ pc[a] = "createWrite" /\ to = "created"
      \/ pc[a] = "killWrite" /\ to = "killed"
      \/ pc[a] = "bootWrite" /\ to = "startLoop"
      \/ pc[a] = "closeWrite" /\ to = "stopped"
      \/ /\ pc[a] \in {"batchSave", "retentionSave", "againSave"}
         /\ to \in {"batchWrite", "retentionWrite", "againWrite"}
      \/ /\ pc[a] \in {"batchWrite", "retentionWrite", "againWrite"}
         /\ to \in {"retention", "againSave", "waiting"}
  BY <1>1, BeginSaveSteps, EndSaveSteps
<1>4. CASE a \in Sessions
  <2>1. pc[a] \in CallSteps
    BY <1>4 DEF TypeOK
  <2>2. pc'["cleanup"] = pc["cleanup"] /\ pc'["main"] = pc["main"]
    BY <1>2, <1>4, DistinctActors DEF Actors
  <2> QED BY <1>2, <1>3, <2>1, <2>2 DEF SaveMoves, CallSteps, Actors
<1>5. CASE a = "cleanup"
  <2>1. pc[a] \in LoopSteps
    BY <1>5 DEF TypeOK
  <2>2. pc'["main"] = pc["main"] /\ \A s \in Sessions : pc'[s] = pc[s]
    BY <1>2, <1>5, DistinctActors DEF Actors
  <2> QED BY <1>2, <1>3, <1>5, <2>1, <2>2 DEF SaveMoves, LoopSteps
<1>6. CASE a = "main"
  <2>1. pc[a] \in MainSteps
    BY <1>6 DEF TypeOK
  <2>2. pc'["cleanup"] = pc["cleanup"] /\ \A s \in Sessions : pc'[s] = pc[s]
    BY <1>2, <1>6, DistinctActors DEF Actors
  <2> QED BY <1>2, <1>3, <1>6, <2>1, <2>2 DEF SaveMoves, MainSteps
<1> QED BY <1>4, <1>5, <1>6 DEF Actors

\* Every step fits the phase it belongs to.
LEMMA PhasesStep == TypeOK /\ TypeOK' /\ OwnerInv /\ [Next]_vars => Phases'
<1> SUFFICES ASSUME TypeOK, TypeOK', OwnerInv, [Next]_vars PROVE Phases'
  OBVIOUS
<1> USE DistinctActors
    DEF TypeOK, OwnerInv, Phases, Booted, Sweeping, Holding, Actors, Goto
<1>1. ASSUME NEW s \in Sessions, LockForCreate(s) PROVE Phases'
  BY <1>1 DEF LockForCreate, loopVars, storeVars
<1>2. ASSUME NEW s \in Sessions, StartFails(s) PROVE Phases'
  BY <1>2 DEF StartFails, loopVars, storeVars
<1>3. ASSUME NEW s \in Sessions, StartSession(s) PROVE Phases'
  BY <1>3 DEF StartSession, loopVars, storeVars
<1>4. ASSUME NEW s \in Sessions, AddRecord(s) PROVE Phases'
  BY <1>4 DEF AddRecord, memVars, loopVars
<1>5. ASSUME NEW s \in Sessions, Kill(s) PROVE Phases'
  BY <1>5 DEF Kill, loopVars, storeVars
<1>6. ASSUME NEW s \in Sessions, KillMark(s) PROVE Phases'
  BY <1>6 DEF KillMark, MarkEnded, memVars, loopVars
<1>7. ASSUME NEW s \in Sessions, ProcessExits(s) \/ BeginClose(s) \/ FinishClose(s) PROVE Phases'
  BY <1>7 DEF ProcessExits, BeginClose, FinishClose, Doomed, loopVars, storeVars
<1>8. CASE Tick \/ LoopExits
  BY <1>8 DEF Tick, LoopExits, memVars, loopVars, storeVars
<1>9. CASE TakeOut
  BY <1>9 DEF TakeOut, Reapable, storeVars
<1>10. ASSUME NEW s \in Sessions, BatchMark(s) PROVE Phases'
  BY <1>10 DEF BatchMark, MarkEnded, memVars
<1>11. CASE Retention
  BY <1>11 DEF Retention, memVars
<1>12. CASE DeleteLogs
  BY <1>12 DEF DeleteLogs, memVars, storeVars
<1>13. CASE Load
  BY <1>13 DEF Load, memVars, loopVars
<1>14. CASE MarkStale
  BY <1>14 DEF MarkStale, MarkEnded, memVars, loopVars
<1>15. CASE StartLoop
  BY <1>15 DEF StartLoop, memVars, loopVars, storeVars
<1>16. CASE CloseManager
  BY <1>16 DEF CloseManager, loopVars, storeVars
<1>17. CASE Sweep
  BY <1>17 DEF Sweep, loopVars, storeVars
<1>18. CASE EndSweep
  BY <1>18 DEF EndSweep, storeVars
<1>19. CASE MarkSwept
  BY <1>19 DEF MarkSwept, MarkEnded, memVars
<1>20. ASSUME NEW a \in Actors, BeginSave(a) PROVE Phases'
  BY <1>20, SaveStep DEF BeginSave, SaveMoves, memVars, loopVars
<1>21. ASSUME NEW a \in Actors, EndSave(a) PROVE Phases'
  BY <1>21, SaveStep, ZenonT(60) DEF EndSave, SaveMoves, loopVars
<1>22. CASE Crash
  BY <1>22 DEF Crash
<1>23. CASE UNCHANGED vars
  BY <1>23 DEF vars, memVars, loopVars, storeVars
<1> QED
  BY <1>1, <1>2, <1>3, <1>4, <1>5, <1>6, <1>7, <1>8, <1>9, <1>10, <1>11, <1>12, <1>13, <1>14,
     <1>15, <1>16, <1>17, <1>18, <1>19, <1>20, <1>21, <1>22, <1>23
  DEF Next, Cleanup, Main, Call

\* No step loses a session, or its traces.
LEMMA OwnedStep == TypeOK /\ TypeOK' /\ OwnerInv /\ [Next]_vars => Owned'
<1> SUFFICES ASSUME TypeOK, TypeOK', OwnerInv, [Next]_vars PROVE Owned'
  OBVIOUS
<1> USE DistinctActors
    DEF TypeOK, OwnerInv, Phases, Owned, Booted, Sweeping, Swept, Holding, StoreContent, Actors, Goto
<1>1. ASSUME NEW s \in Sessions, LockForCreate(s) PROVE Owned'
  BY <1>1 DEF LockForCreate, loopVars, storeVars
<1>2. ASSUME NEW s \in Sessions, StartFails(s) PROVE Owned'
  BY <1>2 DEF StartFails, loopVars, storeVars
<1>3. ASSUME NEW s \in Sessions, StartSession(s) PROVE Owned'
  BY <1>3 DEF StartSession, loopVars, storeVars
<1>4. ASSUME NEW s \in Sessions, AddRecord(s) PROVE Owned'
  BY <1>4 DEF AddRecord, memVars, loopVars
<1>5. ASSUME NEW s \in Sessions, Kill(s) PROVE Owned'
  BY <1>5 DEF Kill, loopVars, storeVars
<1>6. ASSUME NEW s \in Sessions, KillMark(s) PROVE Owned'
  BY <1>6 DEF KillMark, MarkEnded, memVars, loopVars
<1>7. ASSUME NEW s \in Sessions, ProcessExits(s) \/ BeginClose(s) \/ FinishClose(s) PROVE Owned'
  BY <1>7 DEF ProcessExits, BeginClose, FinishClose, Doomed, loopVars, storeVars
<1>8. CASE Tick \/ LoopExits
  BY <1>8 DEF Tick, LoopExits, memVars, loopVars, storeVars
<1>9. CASE TakeOut
  BY <1>9 DEF TakeOut, Reapable, storeVars
<1>10. ASSUME NEW s \in Sessions, BatchMark(s) PROVE Owned'
  BY <1>10 DEF BatchMark, MarkEnded, memVars
<1>11. CASE Retention
  BY <1>11 DEF Retention, memVars
<1>12. CASE DeleteLogs
  BY <1>12 DEF DeleteLogs, memVars, storeVars
<1>13. CASE Load
  BY <1>13 DEF Load, memVars, loopVars
<1>14. CASE MarkStale
  BY <1>14 DEF MarkStale, MarkEnded, memVars, loopVars
<1>15. CASE StartLoop
  BY <1>15 DEF StartLoop, memVars, loopVars, storeVars
<1>16. CASE CloseManager
  BY <1>16 DEF CloseManager, loopVars, storeVars
<1>17. CASE Sweep
  BY <1>17 DEF Sweep, loopVars, storeVars
<1>18. CASE EndSweep
  BY <1>18 DEF EndSweep, storeVars
<1>19. CASE MarkSwept
  BY <1>19 DEF MarkSwept, MarkEnded, memVars
<1>20. ASSUME NEW a \in Actors, BeginSave(a) PROVE Owned'
  <2>1. /\ SaveMoves /\ UNCHANGED <<memVars, loopVars, records, disk>>
        /\ \A b \in Actors : snap'[b] = snap[b] \/ snap'[b] = records
    BY <1>20, SaveStep DEF BeginSave
  <2>2. ASSUME NEW s \in Sessions, life[s] = "none", NEW b \in Actors PROVE snap'[b][s] = "none"
    <3>1. snap[b][s] = "none" /\ records[s] = "none"
      BY <2>2
    <3>2. snap'[b] = snap[b] \/ snap'[b] = records
      BY <2>1, <2>2
    <3> QED BY <3>1, <3>2
  <2>3. UNCHANGED <<life, sessions, batch, toMark, records, disk>>
    BY <2>1 DEF memVars, loopVars
  <2> HIDE DEF Actors
  <2> QED BY <2>1, <2>2, <2>3 DEF SaveMoves
<1>21. ASSUME NEW a \in Actors, EndSave(a) PROVE Owned'
  <2>1. SaveMoves /\ disk' = snap[a] /\ UNCHANGED <<sessions, life, loopVars, records, snap>>
    BY <1>21, SaveStep DEF EndSave
  <2>2. \A s \in Sessions : life[s] = "none" => disk'[s] = "none"
    BY <2>1
  <2> QED BY <2>1, <2>2 DEF SaveMoves, loopVars
<1>22. CASE Crash
  BY <1>22 DEF Crash
<1>23. CASE UNCHANGED vars
  BY <1>23 DEF vars, memVars, loopVars, storeVars
<1> QED
  BY <1>1, <1>2, <1>3, <1>4, <1>5, <1>6, <1>7, <1>8, <1>9, <1>10, <1>11, <1>12, <1>13, <1>14,
     <1>15, <1>16, <1>17, <1>18, <1>19, <1>20, <1>21, <1>22, <1>23
  DEF Next, Cleanup, Main, Call

\* Nor its record, as long as it is open.
LEMMA RecordedStep == TypeOK /\ TypeOK' /\ OwnerInv /\ [Next]_vars => Recorded'
<1> SUFFICES ASSUME TypeOK, TypeOK', OwnerInv, [Next]_vars PROVE Recorded'
  OBVIOUS
<1> USE DistinctActors
    DEF TypeOK, OwnerInv, Phases, Owned, Recorded, OpenRecordHasOwner, LogsOutliveSessions, Booted,
        Sweeping, Swept, Holding, StoreContent, Actors, Goto
<1>1. ASSUME NEW s \in Sessions, LockForCreate(s) PROVE Recorded'
  BY <1>1 DEF LockForCreate, loopVars, storeVars
<1>2. ASSUME NEW s \in Sessions, StartFails(s) PROVE Recorded'
  BY <1>2 DEF StartFails, loopVars, storeVars
<1>3. ASSUME NEW s \in Sessions, StartSession(s) PROVE Recorded'
  BY <1>3 DEF StartSession, loopVars, storeVars
<1>4. ASSUME NEW s \in Sessions, AddRecord(s) PROVE Recorded'
  BY <1>4 DEF AddRecord, memVars, loopVars
<1>5. ASSUME NEW s \in Sessions, Kill(s) PROVE Recorded'
  BY <1>5 DEF Kill, loopVars, storeVars
<1>6. ASSUME NEW s \in Sessions, KillMark(s) PROVE Recorded'
  BY <1>6 DEF KillMark, MarkEnded, memVars, loopVars
<1>7. ASSUME NEW s \in Sessions, ProcessExits(s) \/ BeginClose(s) \/ FinishClose(s) PROVE Recorded'
  BY <1>7 DEF ProcessExits, BeginClose, FinishClose, Doomed, loopVars, storeVars
<1>8. CASE Tick \/ LoopExits
  BY <1>8 DEF Tick, LoopExits, memVars, loopVars, storeVars
<1>9. CASE TakeOut
  BY <1>9 DEF TakeOut, Reapable, storeVars
<1>10. ASSUME NEW s \in Sessions, BatchMark(s) PROVE Recorded'
  BY <1>10 DEF BatchMark, MarkEnded, memVars
<1>11. CASE Retention
  BY <1>11 DEF Retention, memVars
<1>12. CASE DeleteLogs
  BY <1>12 DEF DeleteLogs, memVars, storeVars
<1>13. CASE Load
  BY <1>13 DEF Load, memVars, loopVars
<1>14. CASE MarkStale
  BY <1>14 DEF MarkStale, MarkEnded, memVars, loopVars
<1>15. CASE StartLoop
  BY <1>15 DEF StartLoop, memVars, loopVars, storeVars
<1>16. CASE CloseManager
  BY <1>16 DEF CloseManager, loopVars, storeVars
<1>17. CASE Sweep
  BY <1>17 DEF Sweep, loopVars, storeVars
<1>18. CASE EndSweep
  BY <1>18 DEF EndSweep, storeVars
<1>19. CASE MarkSwept
  BY <1>19 DEF MarkSwept, MarkEnded, memVars
<1>20. ASSUME NEW a \in Actors, BeginSave(a) PROVE Recorded'
  <2>1. SaveMoves
    BY <1>20, SaveStep
  <2>2. UNCHANGED <<life, sessions, batch, toMark, toDelete, deleted, records>>
    BY <1>20 DEF BeginSave, memVars, loopVars
  <2> HIDE DEF Actors, Goto
  <2> QED BY <2>1, <2>2 DEF SaveMoves
<1>21. ASSUME NEW a \in Actors, EndSave(a) PROVE Recorded'
  <2>1. SaveMoves
    BY <1>21, SaveStep
  <2>2. UNCHANGED <<life, sessions, batch, toMark, toDelete, deleted, records>>
    BY <1>21 DEF EndSave, loopVars
  <2> HIDE DEF Actors, Goto
  <2> QED BY <2>1, <2>2 DEF SaveMoves
<1>22. CASE Crash
  BY <1>22 DEF Crash
<1>23. CASE UNCHANGED vars
  BY <1>23 DEF vars, memVars, loopVars, storeVars
<1> QED
  BY <1>1, <1>2, <1>3, <1>4, <1>5, <1>6, <1>7, <1>8, <1>9, <1>10, <1>11, <1>12, <1>13, <1>14,
     <1>15, <1>16, <1>17, <1>18, <1>19, <1>20, <1>21, <1>22, <1>23
  DEF Next, Cleanup, Main, Call

\* The inductive invariants, together.
LEMMA OwnersInvariant == Spec => [](TypeOK /\ OwnerInv)
<1>1. Init => OwnerInv
  BY DistinctActors
     DEF Init, OwnerInv, Phases, Owned, Recorded, OpenRecordHasOwner, LogsOutliveSessions, Booted,
         Sweeping, Swept, Holding, Actors
<1>2. TypeOK /\ TypeOK' /\ OwnerInv /\ [Next]_vars => OwnerInv'
  BY PhasesStep, OwnedStep, RecordedStep DEF OwnerInv
<1> QED BY <1>1, <1>2, TypeCorrect, PTL DEF Spec

\* "Either rejected or included in Close's sweep, never leaked": no session and no open
\* record is left without somebody who will end it, and no session without its log
\* (manager.go:101-111, 234-236, 454-490; store.go:250-281).
THEOREM OwnersStay == Spec => []EverySessionHasOwner
<1>1. OwnerInv => EverySessionHasOwner
  <2> SUFFICES ASSUME OwnerInv PROVE EverySessionHasOwner
    OBVIOUS
  <2>1. NothingLeaks
    BY DEF OwnerInv, Phases, Owned, NothingLeaks, Sweeping, Swept
  <2> QED BY <2>1 DEF OwnerInv, Recorded, EverySessionHasOwner
<1> QED BY <1>1, OwnersInvariant, PTL

-----------------------------------------------------------------------------
\* The records stand still while somebody writes the file, so that nobody writes an old
\* state, and a record that has ended stays so, in memory and on disk.
DiskInv ==
  /\ \A a \in Actors : pc[a] \in DOMAIN Written => snap[a] = records
  /\ \A s \in Sessions :
       /\ pc[s] \in {"new", "refused", "starting", "adding"} => records[s] = "none" /\ disk[s] = "none"
       /\ disk[s] = "ended" => records[s] # "idle"
       /\ pc[s] \in {"killSave", "killWrite", "killed"} => records[s] # "idle"
       /\ pc[s] = "killed" => disk[s] # "idle"
  /\ StopIsDurable

\* No step brings an old state back to disk.
LEMMA DiskStep == TypeOK /\ TypeOK' /\ OwnerInv /\ DiskInv /\ [Next]_vars => DiskInv'
<1> SUFFICES ASSUME TypeOK, TypeOK', OwnerInv, DiskInv, [Next]_vars PROVE DiskInv'
  OBVIOUS
<1>p. Phases /\ OpenRecordHasOwner
  BY DEF OwnerInv, Recorded
<1> USE DistinctActors
    DEF TypeOK, DiskInv, Phases, StopIsDurable, Written, MayUpdate, Booted, Holding, StoreContent,
        Actors, Goto
<1>1. ASSUME NEW s \in Sessions, LockForCreate(s) PROVE DiskInv'
  BY <1>p, <1>1 DEF LockForCreate, loopVars, storeVars
<1>2. ASSUME NEW s \in Sessions, StartFails(s) PROVE DiskInv'
  BY <1>p, <1>2 DEF StartFails, loopVars, storeVars
<1>3. ASSUME NEW s \in Sessions, StartSession(s) PROVE DiskInv'
  BY <1>p, <1>3 DEF StartSession, loopVars, storeVars
<1>4. ASSUME NEW s \in Sessions, AddRecord(s) PROVE DiskInv'
  BY <1>p, <1>4 DEF AddRecord, memVars, loopVars
<1>5. ASSUME NEW s \in Sessions, Kill(s) PROVE DiskInv'
  BY <1>p, <1>5 DEF Kill, loopVars, storeVars
<1>6. ASSUME NEW s \in Sessions, KillMark(s) PROVE DiskInv'
  BY <1>p, <1>6 DEF KillMark, MarkEnded, memVars, loopVars
<1>7. ASSUME NEW s \in Sessions, ProcessExits(s) \/ BeginClose(s) \/ FinishClose(s) PROVE DiskInv'
  BY <1>p, <1>7 DEF ProcessExits, BeginClose, FinishClose, Doomed, loopVars, storeVars
<1>8. CASE Tick \/ LoopExits
  BY <1>p, <1>8 DEF Tick, LoopExits, memVars, loopVars, storeVars
<1>9. CASE TakeOut
  BY <1>p, <1>9 DEF TakeOut, Reapable, storeVars
<1>10. ASSUME NEW s \in Sessions, BatchMark(s) PROVE DiskInv'
  BY <1>p, <1>10 DEF BatchMark, MarkEnded, memVars
<1>11. CASE Retention
  BY <1>p, <1>11 DEF Retention, memVars
<1>12. CASE DeleteLogs
  BY <1>p, <1>12 DEF DeleteLogs, memVars, storeVars
<1>13. CASE Load
  BY <1>p, <1>13 DEF Load, memVars, loopVars
<1>14. CASE MarkStale
  BY <1>p, <1>14 DEF MarkStale, MarkEnded, memVars, loopVars
<1>15. CASE StartLoop
  BY <1>p, <1>15 DEF StartLoop, memVars, loopVars, storeVars
<1>16. CASE CloseManager
  BY <1>p, <1>16 DEF CloseManager, loopVars, storeVars
<1>17. CASE Sweep
  BY <1>p, <1>17 DEF Sweep, loopVars, storeVars
<1>18. CASE EndSweep
  BY <1>p, <1>18 DEF EndSweep, storeVars
<1>19. CASE MarkSwept
  BY <1>p, <1>19 DEF MarkSwept, MarkEnded, memVars
<1>20. ASSUME NEW a \in Actors, BeginSave(a) PROVE DiskInv'
  <2>1. SaveMoves /\ UNCHANGED <<records, disk>>
    BY <1>20, SaveStep DEF BeginSave
  <2>2. /\ pc' = [pc EXCEPT ![a] = Write[pc[a]]] /\ snap' = [snap EXCEPT ![a] = records]
    BY <1>20 DEF BeginSave
  <2>3. ASSUME NEW b \in Actors, pc'[b] \in DOMAIN Written PROVE snap'[b] = records'
    <3>1. CASE b = a
      BY <2>1, <2>2, <3>1
    <3>2. CASE b # a
      <4>1. pc'[b] = pc[b] /\ snap'[b] = snap[b]
        BY <2>2, <2>3, <3>2
      <4> QED BY <2>1, <2>3, <4>1
    <3> QED BY <3>1, <3>2
  <2>4. pc'[a] \in {"createWrite", "killWrite", "batchWrite", "retentionWrite", "againWrite", "bootWrite",
                    "closeWrite"}
    BY <1>20, <2>2, BeginSaveSteps DEF BeginSave
  <2>5. \A b \in Actors : pc'[b] \in {"killed", "stopped"} => pc'[b] = pc[b]
    BY <2>2, <2>4
  <2>6. \A s \in Sessions : pc'[s] = "killed" => pc[s] = "killed"
    BY <2>5
  <2>7. pc'["main"] = "stopped" => pc["main"] = "stopped"
    BY <2>5
  <2> HIDE DEF Actors, Goto, Written
  <2> QED BY <2>1, <2>3, <2>6, <2>7 DEF SaveMoves
<1>21. ASSUME NEW a \in Actors, EndSave(a) PROVE DiskInv'
  <2>1. SaveMoves
    BY <1>21, SaveStep
  <2>2. UNCHANGED <<sessions, batch, toMark, records, snap>> /\ disk' = records
    BY <1>21 DEF EndSave, loopVars
  <2>3. pc[a] \in DOMAIN Written /\ pc' = [pc EXCEPT ![a] = Written[pc[a]]]
    BY <1>21 DEF EndSave
  <2>4. ASSUME NEW b \in Actors, pc'[b] \in DOMAIN Written PROVE snap'[b] = records'
    <3>1. pc[b] = pc'[b]
      BY <2>3, <2>4, EndSaveSteps
    <3> QED BY <2>2, <2>4, <3>1
  <2>5. ASSUME pc'["main"] = "stopped", NEW s \in Sessions, disk'[s] = "idle"
        PROVE  pc'[s] \in {"killing", "killSave", "killWrite"}
    <3>1. records[s] = "idle"
      BY <2>2, <2>5
    <3>2. pc["main"] \in {"closeWrite", "stopped"}
      BY <2>1, <2>5 DEF SaveMoves
    <3>3. pc[s] = "killing"
      BY <1>p, <3>1, <3>2 DEF OpenRecordHasOwner, Sweeping
    <3> QED BY <2>1, <3>3 DEF SaveMoves
  <2> HIDE DEF Actors, Goto, Written
  <2> QED BY <2>1, <2>2, <2>4, <2>5 DEF SaveMoves
<1>22. CASE Crash
  BY <1>p, <1>22 DEF Crash
<1>23. CASE UNCHANGED vars
  BY <1>p, <1>23 DEF vars, memVars, loopVars, storeVars
<1> QED
  BY <1>1, <1>2, <1>3, <1>4, <1>5, <1>6, <1>7, <1>8, <1>9, <1>10, <1>11, <1>12, <1>13, <1>14,
     <1>15, <1>16, <1>17, <1>18, <1>19, <1>20, <1>21, <1>22, <1>23
  DEF Next, Cleanup, Main, Call

\* The disk invariant, with those it rests on.
LEMMA DiskInvariant == Spec => [](TypeOK /\ OwnerInv /\ DiskInv)
<1>1. Init => DiskInv
  BY DistinctActors DEF Init, DiskInv, StopIsDurable, Written, Actors
<1>2. TypeOK /\ TypeOK' /\ OwnerInv /\ DiskInv /\ [Next]_vars => DiskInv'
  BY DiskStep
<1> QED BY <1>1, <1>2, OwnersInvariant, PTL DEF Spec

\* What a Kill has reported, and what a stopped daemon leaves, is ended on disk, in every
\* later daemon too (manager.go:478-488, 551-566).
THEOREM EndsAreDurable == Spec => []EndIsDurable
<1>1. DiskInv => EndIsDurable
  BY DEF DiskInv, EndIsDurable, KillIsDurable
<1> QED BY <1>1, DiskInvariant, PTL

\* Saves by several goroutines never put an older state over a newer one
\* (store.go:99-125).
THEOREM DiskKeepsOrder == Spec => DiskNeverGoesBack
<1>1. TypeOK /\ OwnerInv /\ DiskInv /\ [Next]_vars
        => [\A s \in Sessions : disk[s] = "ended" => disk'[s] # "idle"]_disk
  <2> SUFFICES ASSUME TypeOK, DiskInv, [Next]_vars, disk' # disk, NEW s \in Sessions, disk[s] = "ended"
               PROVE  disk'[s] # "idle"
    OBVIOUS
  <2>1. PICK a \in Actors : EndSave(a)
    BY DEF Next, Cleanup, Main, Call, Tick, TakeOut, BatchMark, Retention, DeleteLogs, LoopExits, Load,
           MarkStale, StartLoop, Sweep, EndSweep, MarkSwept, CloseManager, Crash, LockForCreate,
           StartFails, StartSession, AddRecord, ProcessExits, Kill, KillMark, BeginClose, FinishClose,
           BeginSave, storeVars, vars
  <2>2. disk' = records
    BY <2>1 DEF EndSave, DiskInv
  <2> QED BY <2>2 DEF DiskInv
<1> QED BY <1>1, DiskInvariant, PTL DEF Spec, DiskNeverGoesBack
=============================================================================
