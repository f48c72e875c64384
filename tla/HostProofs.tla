----------------------------- MODULE HostProofs -----------------------------
(* What the parts of Host promise, for any value of the constants: for each   *)
(* part an inductive invariant of its own. A state in which another part      *)
(* moves satisfies it trivially, so the theorems are about HostSpec.          *)
EXTENDS TerminalProofs

\* Every part starts in its initial states, whichever is to move.
LEMMA PartsStart ==
  HostInit => /\ Log!Init /\ Registry!Init /\ Definitions!Init /\ Detector!Init
              /\ External!Init /\ Control!Init /\ Examination!Init /\ Settings!Init
BY DEF HostInit

-----------------------------------------------------------------------------
(* AtomicFile implements Register, for any writers and readers and however often *)
(* the power fails *)

WriteSteps == {"create", "write", "sync", "rename", "cleanup", "written", "failed"}

\* Only a write that is over has its inode behind the path, or behind the rename that a
\* loss of power may undo.
OnlyWrittenIsLinked == \A w \in Writers : w \in {path, before} => pc[w] = "written"

\* Nothing comes before the file that is there at first: a rename that is undone leaves a
\* temp file, never that one.
InitialIsFirst == path = Initial => before = Initial

\* What is renamed, and what is there to go back to, is on the disk (atomic.go:49-61).
LinkedIsSynced ==
  /\ data[path] = "synced" /\ data[before] = "synced"
  /\ \A w \in Writers : pc[w] \in {"rename", "written"} => data[w] = "synced"

Inv == TypeOK /\ InitialIsFirst /\ OnlyWrittenIsLinked /\ LinkedIsSynced

-----------------------------------------------------------------------------
\* It holds at first.
LEMMA InvInit == Init => Inv
BY FileAssumption
   DEF Init, Inv, TypeOK, InitialIsFirst, OnlyWrittenIsLinked, LinkedIsSynced, Inodes, WriteSteps

\* Every step of a write, of the sweep, of a reader and of a failure keeps the type
\* (atomic.go:32-67, 95-104).
LEMMA TypeStep == TypeOK /\ InitialIsFirst /\ [Next]_vars => TypeOK'
<1> SUFFICES ASSUME TypeOK, InitialIsFirst, [Next]_vars PROVE TypeOK'
  OBVIOUS
<1> USE FileAssumption DEF TypeOK, Inodes
<1>1. ASSUME NEW w \in Writers, CreateTemp(w) PROVE TypeOK'
  BY <1>1 DEF CreateTemp, Goto
<1>2. ASSUME NEW w \in Writers, WriteTemp(w) PROVE TypeOK'
  BY <1>2 DEF WriteTemp, Goto
<1>3. ASSUME NEW w \in Writers, SyncTemp(w) PROVE TypeOK'
  BY <1>3 DEF SyncTemp, Goto
<1>4. ASSUME NEW w \in Writers, RenameTemp(w) PROVE TypeOK'
  BY <1>4 DEF RenameTemp, Goto
<1>5. ASSUME NEW w \in Writers, RemoveTemp(w) PROVE TypeOK'
  BY <1>5 DEF RemoveTemp, Goto
<1>6. ASSUME NEW w \in Writers, RemoveStale(w) PROVE TypeOK'
  BY <1>6 DEF RemoveStale
<1>7. CASE ListStale
  BY <1>7 DEF ListStale
<1>8. ASSUME NEW r \in Readers, ReadTarget(r) PROVE TypeOK'
  BY <1>8 DEF ReadTarget, ValueOf
<1>9. CASE Kill
  BY <1>9 DEF Kill
<1>10. CASE LosePower
  <2>1. temps' \subseteq Writers /\ path' \in Inodes /\ before' \in Inodes
    <3>1. CASE UNCHANGED <<path, temps>>
      BY <3>1, <1>10 DEF LosePower
    <3>2. CASE path' = before /\ temps' = temps \cup ({path} \ {before})
      BY <3>2, <1>10 DEF LosePower, InitialIsFirst
    <3> QED BY <3>1, <3>2, <1>10 DEF LosePower
  <2>2. data' \in [Inodes -> {"empty", "partial", "written", "synced"}]
    BY <1>10 DEF LosePower
  <2>3. pc' \in [Writers -> WriteSteps] /\ losses' \in 0 .. MaxLosses
    BY <1>10 DEF LosePower, WriteSteps
  <2> QED BY <2>1, <2>2, <2>3, <1>10 DEF LosePower, WriteSteps
<1>11. CASE UNCHANGED vars
  BY <1>11 DEF vars
<1> QED BY <1>1, <1>2, <1>3, <1>4, <1>5, <1>6, <1>7, <1>8, <1>9, <1>10, <1>11 DEF Next, Write

\* The links lead to what was synced, and go on doing so: the inode of a write that is
\* under way has no link, so nothing that it does is seen (atomic.go:62-64).
LEMMA InvStep == Inv /\ [Next]_vars => Inv'
<1> SUFFICES ASSUME Inv, [Next]_vars PROVE Inv'
  OBVIOUS
<1> USE FileAssumption DEF InitialIsFirst, OnlyWrittenIsLinked, LinkedIsSynced
<1> TypeOK /\ TypeOK'
  BY TypeStep DEF Inv
<1> SUFFICES InitialIsFirst' /\ OnlyWrittenIsLinked' /\ LinkedIsSynced'
  BY DEF Inv
<1> USE DEF Inv, TypeOK, Inodes
<1>1. ASSUME NEW w \in Writers, CreateTemp(w)
      PROVE  InitialIsFirst' /\ OnlyWrittenIsLinked' /\ LinkedIsSynced'
  BY <1>1 DEF CreateTemp, Goto
<1>2. ASSUME NEW w \in Writers, WriteTemp(w)
      PROVE  InitialIsFirst' /\ OnlyWrittenIsLinked' /\ LinkedIsSynced'
  BY <1>2 DEF WriteTemp, Goto
<1>3. ASSUME NEW w \in Writers, SyncTemp(w)
      PROVE  InitialIsFirst' /\ OnlyWrittenIsLinked' /\ LinkedIsSynced'
  BY <1>3 DEF SyncTemp, Goto
<1>4. ASSUME NEW w \in Writers, RenameTemp(w)
      PROVE  InitialIsFirst' /\ OnlyWrittenIsLinked' /\ LinkedIsSynced'
  BY <1>4 DEF RenameTemp, Goto
<1>5. ASSUME NEW w \in Writers, RemoveTemp(w)
      PROVE  InitialIsFirst' /\ OnlyWrittenIsLinked' /\ LinkedIsSynced'
  BY <1>5 DEF RemoveTemp, Goto
<1>6. ASSUME NEW w \in Writers, RemoveStale(w)
      PROVE  InitialIsFirst' /\ OnlyWrittenIsLinked' /\ LinkedIsSynced'
  BY <1>6 DEF RemoveStale
<1>7. CASE ListStale
  BY <1>7 DEF ListStale
<1>8. ASSUME NEW r \in Readers, ReadTarget(r)
      PROVE  InitialIsFirst' /\ OnlyWrittenIsLinked' /\ LinkedIsSynced'
  BY <1>8 DEF ReadTarget
<1>9. CASE Kill
  BY <1>9 DEF Kill, Underway
<1>10. CASE LosePower
  <2>1. path' \in {path, before} /\ before' = path'
    BY <1>10 DEF LosePower
  <2>2. \A w \in Writers : pc[w] = "written" => pc'[w] = "written"
    BY <1>10 DEF LosePower, Underway
  <2>3. \A w \in Writers : pc'[w] \in {"rename", "written"} => pc[w] = "written"
    BY <1>10 DEF LosePower, Underway
  <2>4. \A i \in Inodes : data[i] = "synced" => data'[i] = "synced"
    BY <1>10 DEF LosePower
  <2> QED BY <2>1, <2>2, <2>3, <2>4
<1>11. CASE UNCHANGED vars
  BY <1>11 DEF vars
<1> QED BY <1>1, <1>2, <1>3, <1>4, <1>5, <1>6, <1>7, <1>8, <1>9, <1>10, <1>11 DEF Next, Write

\* Type correctness and what the refinement rests on.
THEOREM FileInvariant == Spec => []Inv
BY InvInit, InvStep, PTL DEF Spec

-----------------------------------------------------------------------------
\* A reader gets the whole value of whatever the path, or the one before it, leads to.
LEMMA LinkedValues == Inv => ValueOf(path) = path /\ ValueOf(before) = before
BY DEF Inv, LinkedIsSynced, ValueOf

\* The initial file is the register's initial value.
LEMMA RefinesInit == Init /\ Inv => File!Init
<1> SUFFICES ASSUME Init, Inv PROVE File!Init
  OBVIOUS
<1>1. ValueOf(path) = Initial /\ ValueOf(before) = Initial
  BY LinkedValues DEF Init
<1>2. [w \in Writers |-> Outcome(w)] = [w \in Writers |-> "pending"]
  BY DEF Init, Outcome
<1> QED BY <1>1, <1>2 DEF Init, File!Init

\* The rename is the write of the register; a failure, a kill and a loss of power are its
\* own; every other step leaves it alone (atomic.go:26-67, 95-104).
LEMMA RefinesStep == Inv /\ Inv' /\ [Next]_vars => [File!Next]_(File!vars)
<1> SUFFICES ASSUME Inv, Inv', [Next]_vars PROVE [File!Next]_(File!vars)
  OBVIOUS
<1> DEFINE outcome == [w \in Writers |-> Outcome(w)]
<1>v. /\ ValueOf(path) = path /\ ValueOf(before) = before
      /\ ValueOf(path)' = path' /\ ValueOf(before)' = before'
  <2>1. ValueOf(path) = path /\ ValueOf(before) = before
    BY LinkedValues
  <2>2. ValueOf(path)' = path' /\ ValueOf(before)' = before'
    BY DEF Inv, LinkedIsSynced, ValueOf
  <2> QED BY <2>1, <2>2
<1>t. pc \in [Writers -> WriteSteps]
  BY DEF Inv, TypeOK, WriteSteps
<1> HIDE DEF outcome
<1>s. ASSUME UNCHANGED <<path, before, view>>, outcome' = outcome
      PROVE  UNCHANGED File!vars
  BY <1>s, <1>v DEF File!vars, outcome
<1>f. ASSUME UNCHANGED <<path, before, view>>,
             NEW lost \in SUBSET {w \in Writers : Outcome(w) = "pending"},
             outcome' = [w \in Writers |-> IF w \in lost THEN "failed" ELSE Outcome(w)]
      PROVE  File!Fail
  <2>1. \A w \in Writers : outcome[w] = Outcome(w)
    BY DEF outcome
  <2> QED BY <1>f, <1>v, <2>1 DEF File!Fail, outcome
<1>1. ASSUME NEW w \in Writers, CreateTemp(w) \/ WriteTemp(w) \/ SyncTemp(w)
      PROVE  UNCHANGED File!vars
  <2>1. outcome' = outcome
    BY <1>1, <1>t DEF CreateTemp, WriteTemp, SyncTemp, Goto, Outcome, outcome
  <2> QED BY <1>1, <1>s, <2>1 DEF CreateTemp, WriteTemp, SyncTemp
<1>2. ASSUME NEW w \in Writers, RenameTemp(w)
      PROVE  File!Write(w) \/ UNCHANGED File!vars
  <2>1. CASE w \in temps
    <3>1. outcome[w] = "pending" /\ outcome' = [outcome EXCEPT ![w] = "written"]
      BY <1>2, <2>1, <1>t DEF RenameTemp, Goto, Outcome, outcome
    <3>2. path' = w /\ before' = path /\ view' = view
      BY <1>2, <2>1 DEF RenameTemp
    <3> QED BY <3>1, <3>2, <1>v DEF File!Write, outcome
  <2>2. CASE w \notin temps
    <3>1. outcome' = outcome
      BY <1>2, <2>2, <1>t DEF RenameTemp, Goto, Outcome, outcome
    <3> QED BY <1>2, <2>2, <1>s, <3>1 DEF RenameTemp
  <2> QED BY <2>1, <2>2
<1>3. ASSUME NEW w \in Writers, RemoveTemp(w)
      PROVE  File!Fail
  <2>1. {w} \in SUBSET {v \in Writers : Outcome(v) = "pending"}
    BY <1>3 DEF RemoveTemp, Outcome
  <2>2. outcome' = [v \in Writers |-> IF v \in {w} THEN "failed" ELSE Outcome(v)]
    BY <1>3, <1>t DEF RemoveTemp, Goto, Outcome, outcome
  <2> QED BY <1>3, <2>1, <2>2, <1>f DEF RemoveTemp
<1>4. ASSUME NEW w \in Writers, RemoveStale(w)
      PROVE  UNCHANGED File!vars
  BY <1>4, <1>s DEF RemoveStale, Outcome, outcome
<1>5. CASE ListStale
  BY <1>5, <1>s DEF ListStale, Outcome, outcome
<1>6. ASSUME NEW r \in Readers, ReadTarget(r)
      PROVE  File!Read(r)
  BY <1>6, <1>v DEF ReadTarget, File!Read, Outcome
<1>7. CASE Kill
  <2>1. PICK dead \in SUBSET Underway :
          pc' = [w \in Writers |-> IF w \in dead THEN "failed" ELSE pc[w]]
    BY <1>7 DEF Kill
  <2>2. dead \in SUBSET {w \in Writers : Outcome(w) = "pending"}
    BY DEF Underway, Outcome
  <2>3. outcome' = [w \in Writers |-> IF w \in dead THEN "failed" ELSE Outcome(w)]
    BY <2>1 DEF Outcome, outcome
  <2>4. UNCHANGED <<path, before, view>>
    BY <1>7 DEF Kill
  <2> QED BY <2>2, <2>3, <2>4, <1>f DEF File!Next
<1>8. CASE LosePower
  <2>1. path' \in {path, before} /\ before' = path' /\ view' = view
    BY <1>8 DEF LosePower
  <2>2. outcome' = [w \in Writers |-> IF Outcome(w) = "pending" THEN "failed" ELSE Outcome(w)]
    BY <1>8, <1>t DEF LosePower, Underway, Outcome, outcome
  <2>3. \A w \in Writers : outcome[w] = Outcome(w)
    BY DEF outcome
  <2>4. outcome' = [w \in Writers |-> IF outcome[w] = "pending" THEN "failed" ELSE outcome[w]]
    BY <2>2, <2>3
  <2>5. ValueOf(path)' \in {ValueOf(path), ValueOf(before)} /\ ValueOf(before)' = ValueOf(path)'
    BY <2>1, <1>v
  <2> QED BY <2>1, <2>4, <2>5 DEF File!PowerLoss, File!Next, outcome
<1>9. CASE UNCHANGED vars
  BY <1>9, <1>s DEF vars, Outcome, outcome
<1> QED BY <1>1, <1>2, <1>3, <1>4, <1>5, <1>6, <1>7, <1>8, <1>9
        DEF Next, Write, File!Next

\* What the stores rely on is what WriteFileAtomic does, for any number of writers, with
\* failures, sweeps, deaths and losses of power (atomic.go:26-67, 95-104).
THEOREM FileImplementsRegister == Spec => ImplementsRegister
<1>1. Init /\ Inv => File!Init
  BY RefinesInit
<1>2. Inv /\ Inv' /\ [Next]_vars => [File!Next]_(File!vars)
  BY RefinesStep
<1>3. Spec => []Inv
  BY FileInvariant
<1> QED BY <1>1, <1>2, <1>3, PTL DEF Spec, ImplementsRegister, File!Spec

-----------------------------------------------------------------------------
(* The tool detector *)

\* A step of the tools part is one of the detector.
LEMMA ToolsStep == ASSUME part = "tools", [HostNext]_HostVars PROVE [Detector!Next]_detVars
BY DEF HostNext, HostVars, Moves

DetectorInv ==
  part = "tools" =>
    /\ Detector!TypeOK
    /\ \A g, h \in Detector!Goroutines : detPc[g] = "probe" /\ detPc[h] = "probe" => g = h
    /\ detRefresh <=> \E g \in Detector!Goroutines : detPc[g] = "probe"

\* Each step of a caller, of a probe and of time.
LEMMA DetectorStep == ASSUME DetectorInv, [HostNext]_HostVars PROVE DetectorInv'
<1> SUFFICES ASSUME part = "tools" PROVE DetectorInv'
  BY PartStays DEF DetectorInv
<1> USE DEF DetectorInv, Detector!TypeOK, Detector!Goroutines, Detector!Goto, detVars
<1>1. ASSUME NEW c \in Callers, Detector!ServeCached(c) PROVE DetectorInv'
  BY <1>1, PartStays DEF Detector!ServeCached, Detector!vars
<1>2. ASSUME NEW c \in Callers, Detector!ServeAndRenew(c) PROVE DetectorInv'
  BY <1>2, PartStays DEF Detector!ServeAndRenew
<1>3. ASSUME NEW c \in Callers, Detector!ProbeFirst(c) PROVE DetectorInv'
  BY <1>3, PartStays DEF Detector!ProbeFirst
<1>4. ASSUME NEW c \in Callers, Detector!ShareFirst(c) PROVE DetectorInv'
  BY <1>4, PartStays DEF Detector!ShareFirst
<1>5. ASSUME NEW c \in Callers, Detector!Wake(c) PROVE DetectorInv'
  BY <1>5, PartStays DEF Detector!Wake
<1>6. ASSUME NEW g \in Detector!Goroutines, Detector!Install(g) PROVE DetectorInv'
  BY <1>6, PartStays DEF Detector!Install
<1>7. ASSUME NEW g \in Detector!Goroutines, Detector!CloseDone(g) PROVE DetectorInv'
  BY <1>7, PartStays DEF Detector!CloseDone
<1>8. CASE Detector!Expire
  BY <1>8, PartStays DEF Detector!Expire
<1>9. CASE UNCHANGED detVars
  BY <1>9, PartStays
<1> QED BY <1>1, <1>2, <1>3, <1>4, <1>5, <1>6, <1>7, <1>8, <1>9, ToolsStep
   DEF Detector!Next

\* However many callers and refreshes there are.
LEMMA DetectorAlways == HostSpec => []DetectorInv
<1>1. HostInit => DetectorInv
  BY PartsStart DEF DetectorInv, Detector!Init, Detector!TypeOK, Detector!Goroutines
<1>2. DetectorInv /\ [HostNext]_HostVars => DetectorInv'
  BY DetectorStep
<1> QED
  BY <1>1, <1>2, PTL DEF HostSpec

\* detector.go:67-110: however many callers find the cache stale or empty, one probe
\* of the tools runs at a time.
THEOREM DetectionIsAlone == HostSpec => []OneDetection
<1>1. DetectorInv => OneDetection
  BY DEF DetectorInv, OneDetection, Detector!OneDetection
<1> QED
  BY <1>1, DetectorAlways, PTL

-----------------------------------------------------------------------------
(* The session log *)

\* A step of the log part is one of the logger, of retention or of a reader.
LEMMA LogStep == ASSUME part = "log", [HostNext]_HostVars PROVE [Log!Next]_logVars
BY DEF HostNext, HostVars, Moves

\* How far the compression has come is seen in the files.
LoggerFits ==
  /\ logLogger \in {"open", "closed"} => logGzip = "none" /\ ~logGz
  /\ logLogger \in {"copy", "copied"} => logGz
  /\ logLogger = "copied" => logGzip = "whole"
  /\ logLogger \notin {"done", "crashed"} => logLog /\ logRetention = "no"

LogInv ==
  part = "log" =>
    /\ Log!TypeOK
    /\ LoggerFits
    /\ \A r \in LogReaders : logOwed[r] <= logFlushed
    /\ Log!LogIsWhole

\* A flush writes nothing, some or all of what is buffered; if it wrote less, the buffer is
\* broken.
LEMMA FlushIs ==
  ASSUME Log!TypeOK, Log!Flush
  PROVE  /\ logFlushed' \in logFlushed..logWritten /\ logBroken' \in BOOLEAN
         /\ ~logBroken' => logFlushed' = logWritten
<1>1. logWritten \in Nat /\ logFlushed \in 0..logWritten /\ logBroken \in BOOLEAN
  BY HostAssumption DEF Log!TypeOK
<1>2. CASE ~logBroken /\ logFlushed' = logWritten /\ UNCHANGED logBroken
  BY <1>1, <1>2
<1>3. CASE ~logBroken /\ logFlushed' \in logFlushed..logWritten - 1 /\ logBroken' = TRUE
  BY <1>1, <1>3
<1>4. CASE logBroken /\ UNCHANGED <<logFlushed, logBroken>>
  BY <1>1, <1>4
<1> QED
  BY <1>2, <1>3, <1>4 DEF Log!Flush

\* Each step of the logger, of retention and of a reader.
LEMMA LogStays == ASSUME LogInv, [HostNext]_HostVars PROVE LogInv'
<1> SUFFICES ASSUME part = "log" PROVE LogInv'
  BY PartStays DEF LogInv
<1> USE PartStays DEF LogInv, LoggerFits, Log!TypeOK, Log!LogIsWhole, Log!LogIsNeverLost,
       Log!PreferredIsWhole, Log!ReadsAreWhole, logVars, Log!fileVars, Log!readerVars, Log!Goto,
       Log!LeaveFiles
<1>1. CASE Log!Write
  BY <1>1, HostAssumption DEF Log!Write
<1>2. CASE Log!FlushBuffer
  <2>1. /\ logFlushed' \in logFlushed..logWritten /\ logBroken' \in BOOLEAN
        /\ UNCHANGED <<logWritten, logLog, logGzip, logGz, logLogger, logRetention, logPc,
                      logOwed, logGot>>
    BY <1>2, FlushIs DEF Log!FlushBuffer
  <2> QED
    BY <1>2, <2>1, HostAssumption DEF Log!FlushBuffer
<1>3. CASE Log!CloseLogger
  <2>1. /\ logFlushed' \in logFlushed..logWritten /\ logBroken' \in BOOLEAN
        /\ ~logBroken' => logFlushed' = logWritten
        /\ logLogger' = "closed" /\ logLogger = "open"
        /\ UNCHANGED <<logWritten, logLog, logGzip, logGz, logRetention, logPc, logOwed, logGot>>
    BY <1>3, FlushIs DEF Log!CloseLogger
  <2> QED
    BY <2>1, HostAssumption
<1>4. CASE Log!CreateGzip
  BY <1>4 DEF Log!CreateGzip
<1>5. CASE Log!CopyLog
  BY <1>5 DEF Log!CopyLog
<1>6. CASE Log!CloseGzip
  BY <1>6 DEF Log!CloseGzip
<1>7. CASE Log!DropGzip
  BY <1>7 DEF Log!DropGzip
<1>8. CASE Log!RemoveSource
  BY <1>8 DEF Log!RemoveSource
<1>9. CASE Log!NoGzip
  BY <1>9 DEF Log!NoGzip
<1>10. CASE Log!Crash
  BY <1>10 DEF Log!Crash
<1>11. CASE Log!DeleteGzip
  BY <1>11 DEF Log!DeleteGzip
<1>12. CASE Log!DeleteSource
  BY <1>12 DEF Log!DeleteSource
<1>13. ASSUME NEW r \in LogReaders, Log!LookForGzip(r) PROVE LogInv'
  BY <1>13, HostAssumption DEF Log!LookForGzip
<1>14. ASSUME NEW r \in LogReaders, Log!OpenGzip(r) PROVE LogInv'
  BY <1>14 DEF Log!OpenGzip
<1>15. ASSUME NEW r \in LogReaders, Log!OpenLog(r) PROVE LogInv'
  BY <1>15 DEF Log!OpenLog
<1>16. ASSUME NEW r \in LogReaders, Log!ReadGzip(r) PROVE LogInv'
  BY <1>16, HostAssumption DEF Log!ReadGzip
<1>17. ASSUME NEW r \in LogReaders, Log!ReadSource(r) PROVE LogInv'
  BY <1>17, HostAssumption DEF Log!ReadSource
<1>18. CASE UNCHANGED logVars
  BY <1>18
<1> QED
  BY <1>1, <1>2, <1>3, <1>4, <1>5, <1>6, <1>7, <1>8, <1>9, <1>10, <1>11, <1>12, <1>13,
     <1>14, <1>15, <1>16, <1>17, <1>18, LogStep DEF Log!Next, Log!LoggerStep, Log!Read

\* Whatever the logger, the readers and retention do.
LEMMA LogAlways == HostSpec => []LogInv
<1>1. HostInit => LogInv
  <2> SUFFICES ASSUME Log!Init PROVE LogInv
    BY PartsStart
  <2>1. Log!TypeOK
    <3>1. MaxChunks \in Nat
      BY HostAssumption
    <3>2. 0 \in 0..MaxChunks
      BY <3>1
    <3>3. logPc \in [LogReaders -> {"idle", "openGzip", "openLog", "readGzip", "readLog",
                                    "ok", "failed"}]
      BY DEF Log!Init
    <3>4. logOwed \in [LogReaders -> 0..MaxChunks] /\ logGot \in [LogReaders -> 0..MaxChunks]
      BY <3>2 DEF Log!Init
    <3>5. logWritten \in 0..MaxChunks /\ logFlushed \in 0..logWritten
      BY <3>1 DEF Log!Init
    <3> QED
      BY <3>3, <3>4, <3>5 DEF Log!Init, Log!TypeOK
  <2> QED
    BY <2>1 DEF LogInv, LoggerFits, Log!Init, Log!LogIsWhole, Log!LogIsNeverLost,
       Log!PreferredIsWhole, Log!ReadsAreWhole
<1>2. LogInv /\ [HostNext]_HostVars => LogInv'
  BY LogStays
<1> QED
  BY <1>1, <1>2, PTL DEF HostSpec

\* logger.go:141-433: through close, compression, failing flushes and retention, what is
\* in the log stays in one of its files, and unless a flush has failed that is all that
\* was accepted. After a crash in the middle of the compression only the log itself is
\* sure to be whole. A reader that ends well has all that was flushed when it began.
THEOREM LogStaysWhole == HostSpec => []LogIsWhole
<1>1. LogInv => LogIsWhole
  BY DEF LogInv, LogIsWhole
<1> QED
  BY <1>1, LogAlways, PTL

-----------------------------------------------------------------------------
(* The settings of a connection *)

\* A step of the connection part is one of the client that connects.
LEMMA ConnectionStep ==
  ASSUME part = "connection", [HostNext]_HostVars PROVE [Settings!Next]_conVars
BY DEF HostNext, HostVars, Moves

\* What the files, the environment and the command line give.
GivenSettings ==
  /\ conSetting \in Settings!Settings /\ conOwn \subseteq Entries
  /\ conAddressOf \in [Entries -> OtherHosts \cup {"none"}]
  /\ conDefault \in Settings!Hosts \cup {"none"}
  /\ conEnv \in [host : Settings!Hosts \cup {"none"}, set : BOOLEAN]
  /\ conEnv.set => conSetting \in Settings!ByEnvironment
  /\ conFlags \in [host : Settings!Hosts \cup {"none"}, set : BOOLEAN]
  /\ conFlags.set => conSetting \in Settings!ByFlag

ConnectionInv ==
  part = "connection" =>
    /\ Settings!TypeOK /\ GivenSettings
    /\ conTarget \in {"none", "local", Settings!ResolvedHost}

\* A value of an entry is the default host's, and that one is connected to, or the
\* named host's.
LEMMA SecretsAreOfTheTarget ==
  ASSUME GivenSettings, Settings!Secret, Settings!Resolved \in Entries
  PROVE  Settings!Address(Settings!Resolved) = Settings!ResolvedHost
<1> USE HostAssumption DEF GivenSettings, Settings!Hosts, Settings!None, Settings!Secret
<1>1. Settings!Fallback \notin Entries
  BY DEF Settings!Fallback
<1>2. CASE conFlags.host = "none"
  BY <1>1, <1>2
     DEF Settings!Resolved, Settings!ResolvedHost, Settings!EnvValue, Settings!EnvOr,
     Settings!ConfigValue, Settings!ConfigHost, Settings!OwnOr
<1>3. CASE conFlags.host # "none"
  BY <1>1, <1>3
     DEF Settings!Resolved, Settings!ResolvedHost, Settings!EntryValue, Settings!EnvOr,
     Settings!MachineValue, Settings!OwnOr
<1> QED
  BY <1>2, <1>3

\* Each way a port is looked up names the host that is meant, or none.
LEMMA PortIsOfTheTarget == ASSUME GivenSettings PROVE Settings!PortIsTheHosts
BY HostAssumption
DEF GivenSettings, Settings!Hosts, Settings!None, Settings!PortIsTheHosts, Settings!Fallback,
    Settings!Resolved, Settings!ResolvedHost, Settings!EntryValue, Settings!EnvOr,
    Settings!MachineValue, Settings!OwnOr

\* A flag is looked at first, then the entry that --host names, then the environment.
LEMMA NearerSettingsWin == ASSUME GivenSettings PROVE Settings!NearerWins
<1>1. ASSUME conFlags.set PROVE Settings!Resolved = "flag"
  BY <1>1 DEF Settings!Resolved
<1>2. ASSUME conEnv.set, ~conFlags.set
      PROVE  Settings!Resolved \in {"env"} \cup (conOwn \cap {conFlags.host})
  <2>1. conSetting # "password"
    BY <1>2 DEF GivenSettings, Settings!ByEnvironment
  <2>2. Settings!EnvValue = "env" /\ Settings!EnvOr(Settings!Fallback) = "env"
    BY <1>2 DEF Settings!EnvValue, Settings!EnvOr
  <2>3. Settings!MachineValue = "env"
    BY <2>1, <2>2 DEF Settings!MachineValue
  <2>4. Settings!EntryValue(conFlags.host) \in {"env"} \cup (conOwn \cap {conFlags.host})
    BY <1>2, <2>1, <2>2 DEF Settings!EntryValue, Settings!OwnOr
  <2> QED
    BY <1>2, <2>2, <2>3, <2>4 DEF Settings!Resolved
<1> QED
  BY <1>1, <1>2 DEF Settings!NearerWins

\* What was given stays, and the target is what it resolves to.
LEMMA ConnectionAlways == HostSpec => []ConnectionInv
<1>1. HostInit => ConnectionInv
  BY PartsStart
  DEF ConnectionInv, GivenSettings, Settings!TypeOK, Settings!Init, Settings!None
<1>2. ConnectionInv /\ [HostNext]_HostVars => ConnectionInv'
  <2> SUFFICES ASSUME part = "connection", ConnectionInv, [HostNext]_HostVars
               PROVE  ConnectionInv'
    BY PartStays DEF ConnectionInv
  <2>1. UNCHANGED Settings!inputs
    BY ConnectionStep
    DEF conVars, Settings!inputs, Settings!Next, Settings!ConnectLocal, Settings!ConnectRemote,
        Settings!Authenticate, Settings!CheckHostKey
  <2>2. GivenSettings' /\ UNCHANGED Settings!ResolvedHost
    BY <2>1 DEF ConnectionInv, GivenSettings, Settings!inputs, Settings!ResolvedHost,
       Settings!EnvHost, Settings!ConfigHost, Settings!Address
  <2>3. conTarget' \in {conTarget, "local", Settings!ResolvedHost}
    BY ConnectionStep
    DEF conVars, Settings!Next, Settings!ConnectLocal, Settings!ConnectRemote,
        Settings!Authenticate, Settings!CheckHostKey
  <2>4. Settings!TypeOK'
    <3>1. Settings!ResolvedHost \in Settings!Hosts \cup {Settings!None, "local"}
      BY DEF ConnectionInv, GivenSettings, Settings!Hosts, Settings!None,
         Settings!ResolvedHost, Settings!EnvHost, Settings!ConfigHost, Settings!Address
    <3>2. conTarget' \in Settings!Hosts \cup {Settings!None, "local"}
      BY <2>3, <3>1 DEF ConnectionInv, Settings!TypeOK
    <3>3. /\ conPc' \in {"start", "auth", "hostkey", "connected", "failed"}
          /\ conMethods' \subseteq {"key", "password"} /\ conVerified' \in BOOLEAN
      BY ConnectionStep
      DEF ConnectionInv, conVars, Settings!TypeOK, Settings!Next, Settings!ConnectLocal,
          Settings!ConnectRemote, Settings!Authenticate, Settings!CheckHostKey
    <3> QED
      BY <2>2, <3>2, <3>3 DEF GivenSettings, Settings!TypeOK
  <2> QED
    BY <2>2, <2>3, <2>4 DEF ConnectionInv
<1> QED
  BY <1>1, <1>2, PTL DEF HostSpec

\* cli/config/config.go:101-240: a token or a password written for a machine goes to no
\* other, the port is that of the host named, a flag beats everything and the environment
\* everything but a flag and the entry that --host names, for any entries and addresses.
THEOREM SettingsStayHome == HostSpec => []SettingsReachTheirHost
<1>1. ConnectionInv => SettingsReachTheirHost
  <2> SUFFICES ASSUME ConnectionInv, part = "connection"
               PROVE  Settings!SettingsReachTheirHost
    BY DEF SettingsReachTheirHost
  <2>1. Settings!SecretsStayHome
    BY SecretsAreOfTheTarget, HostAssumption
    DEF ConnectionInv, Settings!SecretsStayHome, Settings!Hosts
  <2> QED
    BY <2>1, PortIsOfTheTarget, NearerSettingsWin
    DEF ConnectionInv, Settings!SettingsReachTheirHost
<1> QED
  BY <1>1, ConnectionAlways, PTL

-----------------------------------------------------------------------------
(* Task definitions *)

\* A step of the tasks part is one of a call.
LEMMA TasksStep == ASSUME part = "tasks", [HostNext]_HostVars PROVE [Definitions!Next]_defVars
BY DEF HostNext, HostVars, Moves

\* The file is never ahead of the store, and a call that is to save has its change there.
ChangesAreCounted ==
  /\ \A t \in Tasks : defFile[t].changes <= defTasks[t].changes
  /\ \A u \in Updates : defPc[<<"update", u>>] \in {"read", "saving", "answered"} =>
       defPatch[u].task \in Tasks
  /\ \A c \in Definitions!Calls : defPc[c] = "saving" =>
       defMade[c] <= defTasks[Definitions!TaskOf(c)].changes

DefinitionsInv ==
  part = "tasks" =>
    /\ Definitions!TypeOK
    /\ ChangesAreCounted
    /\ Definitions!AnsweredIsOnDisk

\* The types of the task store and its calls.
LEMMA DefinitionsTyped ==
  ASSUME part = "tasks", [HostNext]_HostVars, Definitions!TypeOK, ChangesAreCounted
  PROVE  Definitions!TypeOK'
<1> USE PartStays DEF Definitions!TypeOK, Definitions!Calls, Definitions!Task,
      Definitions!Scopes, Definitions!Goto,
       Definitions!Keep, Definitions!NoProject, defVars
<1>1. ASSUME NEW t \in Tasks, Definitions!Create(t) PROVE Definitions!TypeOK'
  BY <1>1 DEF Definitions!Create, Definitions!Change
<1>2. ASSUME NEW t \in Tasks, Definitions!Delete(t) PROVE Definitions!TypeOK'
  BY <1>2 DEF Definitions!Delete, Definitions!Change
<1>3. ASSUME NEW u \in Updates, Definitions!Read(u) PROVE Definitions!TypeOK'
  BY <1>3 DEF Definitions!Read
<1>4. ASSUME NEW u \in Updates, Definitions!Merge(u) PROVE Definitions!TypeOK'
  <2> DEFINE c == <<"update", u>>
             p == defPatch[u]
             t == defTasks[p.task]
  <2>1. defPc[c] = "read" /\ p.task \in Tasks
    BY <1>4 DEF Definitions!Merge, ChangesAreCounted
  <2>2. CASE t.exists
    <3>1. Definitions!Merged(t.scope, p.scope) \in {"system", "project"}
      BY <2>1 DEF Definitions!Merged
    <3>2. Definitions!Merged(t.project, p.project) \in TaskProjects \cup {"none"}
      BY <2>1 DEF Definitions!Merged
    <3>3. Definitions!Change(c, p.task, TRUE, Definitions!Merged(t.scope, p.scope),
                             Definitions!Merged(t.project, p.project))
      BY <1>4, <2>2 DEF Definitions!Merge
    <3> HIDE DEF t, p
    <3> QED
      BY <1>4, <2>1, <3>1, <3>2, <3>3 DEF Definitions!Merge, Definitions!Change
  <2>3. CASE ~t.exists
    BY <1>4, <2>1, <2>3 DEF Definitions!Merge
  <2> QED
    BY <2>2, <2>3
<1>5. ASSUME NEW c \in Definitions!Calls, Definitions!Save(c) PROVE Definitions!TypeOK'
  BY <1>5 DEF Definitions!Save
<1>6. ASSUME NEW p \in TaskProjects, Definitions!RemoveProject(p)
      PROVE  Definitions!TypeOK'
  BY <1>6 DEF Definitions!RemoveProject
<1>7. CASE Definitions!CrashAndLoad
  BY <1>7, HostAssumption DEF Definitions!CrashAndLoad
<1>8. CASE UNCHANGED defVars
  BY <1>8
<1> QED
  BY <1>1, <1>2, <1>3, <1>4, <1>5, <1>6, <1>7, <1>8, TasksStep DEF Definitions!Next

\* No step lets the file or a call get ahead of the store, or an answer ahead of the file.
LEMMA ChangesCount ==
  ASSUME part = "tasks", [HostNext]_HostVars, Definitions!TypeOK, ChangesAreCounted,
         Definitions!AnsweredIsOnDisk
  PROVE  ChangesAreCounted' /\ Definitions!AnsweredIsOnDisk'
<1> USE PartStays DEF Definitions!TypeOK, Definitions!Calls, Definitions!Task,
      ChangesAreCounted, Definitions!AnsweredIsOnDisk, Definitions!TaskOf,
      Definitions!Goto, defVars
<1>1. ASSUME NEW t \in Tasks, Definitions!Create(t)
      PROVE  ChangesAreCounted' /\ Definitions!AnsweredIsOnDisk'
  BY <1>1 DEF Definitions!Create, Definitions!Change
<1>2. ASSUME NEW t \in Tasks, Definitions!Delete(t)
      PROVE  ChangesAreCounted' /\ Definitions!AnsweredIsOnDisk'
  BY <1>2 DEF Definitions!Delete, Definitions!Change
<1>3. ASSUME NEW u \in Updates, Definitions!Read(u)
      PROVE  ChangesAreCounted' /\ Definitions!AnsweredIsOnDisk'
  BY <1>3 DEF Definitions!Read
<1>4. ASSUME NEW u \in Updates, Definitions!Merge(u)
      PROVE  ChangesAreCounted' /\ Definitions!AnsweredIsOnDisk'
  <2> DEFINE c == <<"update", u>>
             p == defPatch[u]
             t == defTasks[p.task]
  <2>1. defPc[c] = "read" /\ p.task \in Tasks
    BY <1>4 DEF Definitions!Merge
  <2>2. CASE t.exists
    <3>1. PICK s, q : Definitions!Change(c, p.task, TRUE, s, q)
      BY <1>4, <2>2 DEF Definitions!Merge
    <3> QED
      BY <1>4, <2>1, <3>1, SMTT(90) DEF Definitions!Merge, Definitions!Change
  <2>3. CASE ~t.exists
    <3>1. /\ defPc' = [defPc EXCEPT ![c] = "refused"]
          /\ UNCHANGED <<defTasks, defFile, defPatch, defMade>>
      BY <1>4, <2>3 DEF Definitions!Merge
    <3>2. c \in Definitions!Calls
      OBVIOUS
    <3> HIDE DEF t, p
    <3> QED
      BY <2>1, <3>1, <3>2
  <2> QED
    BY <2>2, <2>3
<1>5. ASSUME NEW c \in Definitions!Calls, Definitions!Save(c)
      PROVE  ChangesAreCounted' /\ Definitions!AnsweredIsOnDisk'
  BY <1>5 DEF Definitions!Save
<1>6. ASSUME NEW p \in TaskProjects, Definitions!RemoveProject(p)
      PROVE  ChangesAreCounted' /\ Definitions!AnsweredIsOnDisk'
  BY <1>6 DEF Definitions!RemoveProject
<1>7. CASE Definitions!CrashAndLoad
  BY <1>7, HostAssumption DEF Definitions!CrashAndLoad
<1>8. CASE UNCHANGED defVars
  BY <1>8
<1> QED
  BY <1>1, <1>2, <1>3, <1>4, <1>5, <1>6, <1>7, <1>8, TasksStep DEF Definitions!Next

-----------------------------------------------------------------------------
(* Projects: what a scan finds *)

\* Levels is the function its definition asks for, because there is one.
LEMMA LevelsAre ==
  ASSUME NEW root, NEW depth \in Nat
  PROVE  Registry!Levels(root, depth) =
           [n \in 0..depth + 1 |->
              IF n = 0 THEN {root} \cap Dirs
              ELSE Registry!Below(Registry!Levels(root, depth)[n - 1])]
<1> DEFINE U == SUBSET Dirs
           step == [n \in 0..depth + 1 |-> [dirs \in U |-> Registry!Below(dirs)]]
           Is(f) == f = [n \in 0..depth + 1 |->
                           IF n = 0 THEN {root} \cap Dirs ELSE Registry!Below(f[n - 1])]
<1>1. IsStepOn(step, depth + 1, U) /\ {root} \cap Dirs \in U /\ depth + 1 \in Nat
  BY DEF Registry!Below, IsStepOn
<1>2. PICK f : Iterates(f, depth + 1, U, {root} \cap Dirs, step)
  <2> HIDE DEF U, step
  <2> QED
    BY <1>1, StepsIterate
<1>3. \A n \in 0..depth + 1 : n # 0 => f[n] = Registry!Below(f[n - 1])
  <2> SUFFICES ASSUME NEW n \in 0..depth + 1, n # 0 PROVE f[n] = Registry!Below(f[n - 1])
    OBVIOUS
  <2>1. f[n - 1] \in U /\ f[n] = step[n][f[n - 1]]
    <3> HIDE DEF U, step
    <3> QED
      BY <1>2 DEF Iterates
  <2> QED
    BY <2>1
<1> HIDE DEF U, step
<1>4. Is(f)
  BY <1>2, <1>3 DEF Iterates
<1>5. \E g : g = [n \in 0..depth + 1 |->
                    IF n = 0 THEN {root} \cap Dirs ELSE Registry!Below(g[n - 1])]
  BY <1>4
<1> QED
  BY <1>5, Zenon DEF Registry!Levels

\* A prefix agrees with the longer sequence as far as it goes.
LEMMA PrefixIs ==
  ASSUME NEW s \in Seq(STRING), NEW t \in Seq(STRING)
  PROVE  IsPrefix(s, t) <=> Len(s) <= Len(t) /\ \A i \in 1..Len(s) : s[i] = t[i]
<1> SUFFICES ASSUME Len(s) <= Len(t)
             PROVE  SubSeq(s, 1, Len(s)) = SubSeq(t, 1, Len(s))
                      <=> \A i \in 1..Len(s) : s[i] = t[i]
  BY DEF IsPrefix
<1> DEFINE u == SubSeq(s, 1, Len(s))
           v == SubSeq(t, 1, Len(s))
<1>1. /\ u \in Seq(STRING) /\ Len(u) = Len(s) /\ \A i \in 1..Len(s) : u[i] = s[i]
      /\ v \in Seq(STRING) /\ Len(v) = Len(s) /\ \A i \in 1..Len(s) : v[i] = t[i]
  BY SubSeqProperties
<1> HIDE DEF u, v
<1>2. u = v <=> \A i \in 1..Len(s) : u[i] = v[i]
  BY <1>1, SeqEqual
<1> QED
  BY <1>1, <1>2 DEF u, v

\* The directory of a path: all names but the last.
LEMMA FrontIs ==
  ASSUME NEW s \in Seq(STRING), s # <<>>
  PROVE  /\ Front(s) \in Seq(STRING) /\ Len(Front(s)) = Len(s) - 1
         /\ \A i \in 1..Len(s) - 1 : Front(s)[i] = s[i]
<1>1. Len(s) \in Nat \ {0} /\ \A i \in 1..Len(s) - 1 : s[i] \in STRING
  OBVIOUS
<1> DEFINE n == Len(s) - 1
<1>2. n \in Nat /\ 1 \in Int
  BY <1>1
<1>3. /\ SubSeq(s, 1, n) \in Seq(STRING)
      /\ Len(SubSeq(s, 1, n)) = IF 1 <= n THEN n - 1 + 1 ELSE 0
      /\ \A i \in 1..n - 1 + 1 : SubSeq(s, 1, n)[i] = s[1 + i - 1]
  <2> HIDE DEF n
  <2> QED
    BY <1>1, <1>2, SubSeqProperties DEF n
<1>4. /\ n - 1 + 1 = n /\ (1 <= n \/ n = 0) /\ \A i \in 1..n : 1 + i - 1 = i
  <2> HIDE DEF n
  <2> QED
    BY <1>2
<1>5. /\ Front(s) \in Seq(STRING) /\ Len(Front(s)) = n
      /\ \A i \in 1..n : Front(s)[i] = s[i]
  <2> HIDE DEF n
  <2> QED
    BY <1>2, <1>3, <1>4 DEF Front, n
<1> QED
  BY <1>5

\* The directories n steps below a root that nothing excluded leads to.
Within(root, n) ==
  {d \in Dirs : /\ IsPrefix(root, d) /\ Len(d) = Len(root) + n
                /\ \A i \in Len(root) + 1 .. Len(d) : d[i] \notin Excluded}

\* What is one level below the directories within n levels is within n + 1, unless its
\* name is excluded.
LEMMA BelowWithin ==
  ASSUME NEW root \in Roots, NEW n \in Nat
  PROVE  Registry!Below(Within(root, n)) = Within(root, n + 1)
<1> SUFFICES ASSUME NEW d \in Dirs
             PROVE  d # <<>> /\ Front(d) \in Within(root, n) /\ Last(d) \notin Excluded
                      <=> d \in Within(root, n + 1)
  BY DEF Registry!Below, Registry!Front, Registry!Last, Front, Last, Within
<1>1. d \in Seq(STRING) /\ root \in Seq(STRING)
  BY DiskAssumption
<1>2. CASE d = <<>>
  <2>1. Len(d) = 0 /\ Len(root) \in Nat
    BY <1>1, <1>2
  <2> QED
    <3>1. Len(d) # Len(root) + (n + 1)
      BY <2>1
    <3>2. d \notin Within(root, n + 1)
      BY <3>1, Zenon DEF Within
    <3> QED
      BY <1>2, <3>2
<1>3. CASE d # <<>>
  <2> DEFINE f == Front(d)
  <2>1. /\ f \in Seq(STRING) /\ Len(f) = Len(d) - 1
        /\ \A i \in 1..Len(d) - 1 : f[i] = d[i]
    BY <1>1, <1>3, FrontIs
  <2>2. ASSUME f \in Within(root, n), Last(d) \notin Excluded
        PROVE  d \in Within(root, n + 1)
    <3>1. IsPrefix(root, d)
      BY <1>1, <2>1, <2>2, PrefixIs DEF Within
    <3>2. Len(d) = Len(root) + n + 1
      BY <1>1, <2>1, <2>2 DEF Within
    <3>3. ASSUME NEW i \in Len(root) + 1 .. Len(d) PROVE d[i] \notin Excluded
      BY <1>1, <2>1, <2>2 DEF Within, Last
    <3> QED
      BY <3>1, <3>2, <3>3 DEF Within
  <2>3. ASSUME d \in Within(root, n + 1)
        PROVE  f \in Within(root, n) /\ Last(d) \notin Excluded
    <3>1. IsPrefix(root, d) /\ Len(d) = Len(root) + n + 1 /\ root # d
      BY <1>1, <2>3 DEF Within
    <3>2. f \in Dirs
      BY <3>1, DiskAssumption DEF IsStrictPrefix
    <3>3. IsPrefix(root, f)
      BY <1>1, <2>1, <3>1, PrefixIs, SMTT(30)
    <3>4. ASSUME NEW i \in Len(root) + 1 .. Len(f) PROVE f[i] \notin Excluded
      BY <1>1, <2>1, <2>3 DEF Within
    <3>5. Last(d) \notin Excluded
      BY <1>1, <2>3, <3>1 DEF Within, Last
    <3> QED
      BY <1>1, <2>1, <3>1, <3>2, <3>3, <3>4, <3>5 DEF Within
  <2> QED
    BY <1>3, <2>2, <2>3
<1> QED
  BY <1>2, <1>3

\* The walk reaches, at each level, the directories of that depth that it does not skip.
LEMMA LevelsAreWithin ==
  ASSUME NEW root \in Roots, NEW n \in 0..MaxDepth + 1
  PROVE  Registry!Levels(root, MaxDepth)[n] = Within(root, n)
<1> DEFINE at == Registry!Levels(root, MaxDepth)
           Good == {k \in 0..MaxDepth + 1 : at[k] = Within(root, k)}
<1>1. at = [k \in 0..MaxDepth + 1 |->
              IF k = 0 THEN {root} \cap Dirs ELSE Registry!Below(at[k - 1])]
  BY LevelsAre, DiskAssumption
<1> HIDE DEF at
<1>2. Within(root, 0) = {root} \cap Dirs
  <2> SUFFICES ASSUME NEW d \in Dirs PROVE d \in Within(root, 0) <=> d = root
    BY DEF Within
  <2>1. d \in Seq(STRING) /\ root \in Seq(STRING)
    BY DiskAssumption
  <2>2. IsPrefix(root, d) /\ Len(d) = Len(root) <=> d = root
    BY <2>1, PrefixIs, SeqEqual
  <2> QED
    BY <2>1, <2>2 DEF Within
<1>3. MaxDepth \in Nat
  BY DiskAssumption
<1>4. 0 \in Good
  BY <1>1, <1>2, <1>3
<1>5. ASSUME NEW k \in 0..n, k \in Good, k # n PROVE k + 1 \in Good
  <2>1. k + 1 \in 0..MaxDepth + 1 /\ (k + 1) - 1 = k /\ k + 1 # 0 /\ k \in Nat
    BY <1>3, <1>5
  <2>2. at[k + 1] = Registry!Below(at[k])
    BY <1>1, <2>1
  <2> QED
    BY <1>5, <2>1, <2>2, BelowWithin
<1>6. n \in Good
  <2> HIDE DEF Good
  <2> QED
    BY <1>3, <1>4, <1>5, Climb
<1> QED
  BY <1>6 DEF at

\* walkDirectory finds the repositories that are to be found.
LEMMA ScanIsComplete ==
  ASSUME NEW root \in Roots
  PROVE  Registry!Discovered({root}) =
           {p \in Repos :
              /\ Registry!IsStrictPrefix(root, p) /\ Len(p) - Len(root) - 1 <= MaxDepth
              /\ \A i \in Len(root) + 1 .. Len(p) : p[i] \notin Excluded}
<1> SUFFICES ASSUME NEW p \in Repos
             PROVE  p \in Registry!Walked(root, MaxDepth) <=>
                      /\ IsStrictPrefix(root, p) /\ Len(p) - Len(root) - 1 <= MaxDepth
                      /\ \A i \in Len(root) + 1 .. Len(p) : p[i] \notin Excluded
  BY DEF Registry!Discovered, Registry!IsStrictPrefix, Registry!IsPrefix, IsStrictPrefix,
         IsPrefix
<1>1. /\ p \in Dirs /\ p \in Seq(STRING) /\ root \in Seq(STRING) /\ MaxDepth \in Nat
  BY DiskAssumption
<1>2. p \in Registry!Walked(root, MaxDepth) <=> \E n \in 1..MaxDepth + 1 : p \in Within(root, n)
  <2>1. \A n \in 1..MaxDepth + 1 : Registry!Levels(root, MaxDepth)[n] = Within(root, n)
    BY <1>1, LevelsAreWithin
  <2> QED
    BY <2>1 DEF Registry!Walked
<1>3. IsStrictPrefix(root, p) <=> IsPrefix(root, p) /\ Len(root) < Len(p)
  BY <1>1, PrefixIs, SeqEqual DEF IsStrictPrefix
<1>4. ASSUME NEW n \in 1..MaxDepth + 1, p \in Within(root, n)
      PROVE  /\ IsPrefix(root, p) /\ Len(root) < Len(p) /\ Len(p) - Len(root) - 1 <= MaxDepth
             /\ \A i \in Len(root) + 1 .. Len(p) : p[i] \notin Excluded
  BY <1>1, <1>4 DEF Within
<1>5. ASSUME IsPrefix(root, p), Len(root) < Len(p), Len(p) - Len(root) - 1 <= MaxDepth,
             \A i \in Len(root) + 1 .. Len(p) : p[i] \notin Excluded
      PROVE  \E n \in 1..MaxDepth + 1 : p \in Within(root, n)
  <2> DEFINE n == Len(p) - Len(root)
  <2>1. n \in 1..MaxDepth + 1 /\ Len(p) = Len(root) + n
    BY <1>1, <1>5
  <2> HIDE DEF n
  <2> QED
    BY <1>1, <1>5, <2>1 DEF Within
<1> QED
  BY <1>2, <1>3, <1>4, <1>5

-----------------------------------------------------------------------------
(* Projects: what the calls have answered for *)

\* A step of the projects part is one of a call, or a restart.
LEMMA RegistryStep ==
  ASSUME part = "projects", [HostNext]_HostVars PROVE [Registry!Next]_regVars
BY DEF HostNext, HostVars, Moves

\* Each step belongs to one kind of call.
StepsFitCalls ==
  \A c \in Registry!Calls :
    /\ regPc[c] \in {"clear", "saveCleared", "add", "saveAdded"} => c[1] = "add"
    /\ regPc[c] \in {"tombstone", "saveTombstone", "saveRemoved"} => c[1] = "remove"
    /\ regPc[c] \in {"root", "saveRoot"} => c[1] = "discover"

\* What is not in a file is still to be saved by some call, or a save has failed.
SavesAreDue ==
  /\ \/ \E c \in Registry!Calls :
          regPc[c] \in {"saveMerged", "saveAdded", "tombstone", "saveTombstone", "saveRemoved"}
     \/ "projects" \in regUnsaved
     \/ regFile.projects = regProjects
  /\ \/ \E c \in Registry!Calls : regPc[c] \in {"saveRoot", "saveCleared", "saveTombstone"}
     \/ "state" \in regUnsaved
     \/ regFile.removed = regRemoved /\ regFile.roots = regRoots

\* Remove answers last: when it does, the tombstone is where it belongs.
RemovalsLeaveTombstones ==
  \A p \in Handled : regFate[p] = "leaving" =>
    /\ regPc[<<"remove", p>>] \in {"saveTombstone", "saveRemoved"} => p \in regRemoved
    /\ regPc[<<"remove", p>>] = "saveRemoved" => "state" \in regUnsaved \/ p \in regFile.removed

\* A save writes its file and leaves the other, or fails and is noted.
LEMMA StateSaved ==
  ASSUME Registry!TypeOK, Registry!SaveState
  PROVE  /\ regFile' \in [projects : SUBSET Repos, removed : SUBSET Repos, roots : SUBSET Roots]
         /\ regFile'.projects = regFile.projects
         /\ \/ /\ regFile'.removed = regRemoved /\ regFile'.roots = regRoots
               /\ regUnsaved' = regUnsaved \ {"state"}
            \/ regUnsaved' = regUnsaved \cup {"state"} /\ regFile' = regFile
<1>1. CASE /\ regFile' = [regFile EXCEPT !.removed = regRemoved, !.roots = regRoots]
           /\ regUnsaved' = regUnsaved \ {"state"}
  <2>1. /\ regFile'.removed = regRemoved /\ regFile'.roots = regRoots
        /\ regFile'.projects = regFile.projects
    BY <1>1 DEF Registry!TypeOK
  <2>2. regFile' \in [projects : SUBSET Repos, removed : SUBSET Repos, roots : SUBSET Roots]
    BY <1>1 DEF Registry!TypeOK
  <2> QED
    BY <1>1, <2>1, <2>2
<1>2. CASE regUnsaved' = regUnsaved \cup {"state"} /\ UNCHANGED regFile
  BY <1>2 DEF Registry!TypeOK
<1> QED
  BY <1>1, <1>2 DEF Registry!SaveState

\* What saving the projects leaves in memory and on the disk.
LEMMA ProjectsSaved ==
  ASSUME Registry!TypeOK, Registry!SaveProjects
  PROVE  /\ regFile' \in [projects : SUBSET Repos, removed : SUBSET Repos, roots : SUBSET Roots]
         /\ regFile'.removed = regFile.removed /\ regFile'.roots = regFile.roots
         /\ \/ regFile'.projects = regProjects /\ regUnsaved' = regUnsaved \ {"projects"}
            \/ regUnsaved' = regUnsaved \cup {"projects"} /\ regFile' = regFile
BY DEF Registry!TypeOK, Registry!SaveProjects

\* The types of the registry, and the steps of its calls.
LEMMA RegistryTyped ==
  ASSUME part = "projects", [HostNext]_HostVars, Registry!TypeOK, StepsFitCalls
  PROVE  Registry!TypeOK' /\ StepsFitCalls'
<1> USE PartStays DEF Registry!TypeOK, Registry!Calls, StepsFitCalls, Registry!Goto,
      Registry!Kind, Registry!Arg,
       Registry!Foretell, Registry!memVars, regVars, Registry!Nobody
<1>1. ASSUME NEW c \in Registry!Calls, Registry!ListBegins(c)
      PROVE  Registry!TypeOK' /\ StepsFitCalls'
  BY <1>1 DEF Registry!ListBegins, Registry!Discovered
<1>2. ASSUME NEW c \in Registry!Calls, Registry!DiscoverBegins(c)
      PROVE  Registry!TypeOK' /\ StepsFitCalls'
  BY <1>2 DEF Registry!DiscoverBegins, Registry!Discovered
<1>3. ASSUME NEW c \in Registry!Calls, Registry!AddScanRoot(c)
      PROVE  Registry!TypeOK' /\ StepsFitCalls'
  BY <1>3 DEF Registry!AddScanRoot
<1>4. ASSUME NEW c \in Registry!Calls, Registry!SaveRoot(c)
      PROVE  Registry!TypeOK' /\ StepsFitCalls'
  BY <1>4, StateSaved, ZenonT(60) DEF Registry!SaveRoot
<1>5. ASSUME NEW c \in Registry!Calls, Registry!FilterRemoved(c)
      PROVE  Registry!TypeOK' /\ StepsFitCalls'
  BY <1>5 DEF Registry!FilterRemoved
<1>6. ASSUME NEW c \in Registry!Calls, Registry!MergeDiscovered(c)
      PROVE  Registry!TypeOK' /\ StepsFitCalls'
  BY <1>6 DEF Registry!MergeDiscovered
<1>7. ASSUME NEW c \in Registry!Calls, Registry!SaveMerged(c)
      PROVE  Registry!TypeOK' /\ StepsFitCalls'
  BY <1>7, ProjectsSaved, ZenonT(60) DEF Registry!SaveMerged
<1>8. ASSUME NEW c \in Registry!Calls, Registry!AddBegins(c)
      PROVE  Registry!TypeOK' /\ StepsFitCalls'
  BY <1>8, ZenonT(60) DEF Registry!AddBegins
<1>9. ASSUME NEW c \in Registry!Calls, Registry!ClearRemoved(c)
      PROVE  Registry!TypeOK' /\ StepsFitCalls'
  BY <1>9, DiskAssumption DEF Registry!ClearRemoved
<1>10. ASSUME NEW c \in Registry!Calls, Registry!SaveCleared(c)
       PROVE  Registry!TypeOK' /\ StepsFitCalls'
  <2>1. Registry!TypeOK'
    BY <1>10, StateSaved DEF Registry!SaveCleared
  <2>2. StepsFitCalls'
    BY <1>10 DEF Registry!SaveCleared
  <2> QED
    BY <2>1, <2>2
<1>11. ASSUME NEW c \in Registry!Calls, Registry!AddProject(c)
       PROVE  Registry!TypeOK' /\ StepsFitCalls'
  BY <1>11, DiskAssumption DEF Registry!AddProject
<1>12. ASSUME NEW c \in Registry!Calls, Registry!SaveAdded(c)
       PROVE  Registry!TypeOK' /\ StepsFitCalls'
  BY <1>12, ProjectsSaved, ZenonT(60) DEF Registry!SaveAdded
<1>13. ASSUME NEW c \in Registry!Calls, Registry!RemoveProject(c)
       PROVE  Registry!TypeOK' /\ StepsFitCalls'
  BY <1>13 DEF Registry!RemoveProject
<1>14. ASSUME NEW c \in Registry!Calls, Registry!AddRemoved(c)
       PROVE  Registry!TypeOK' /\ StepsFitCalls'
  BY <1>14, DiskAssumption DEF Registry!AddRemoved
<1>15. ASSUME NEW c \in Registry!Calls, Registry!SaveTombstone(c)
       PROVE  Registry!TypeOK' /\ StepsFitCalls'
  <2>1. Registry!TypeOK'
    BY <1>15, StateSaved DEF Registry!SaveTombstone
  <2>2. StepsFitCalls'
    BY <1>15 DEF Registry!SaveTombstone
  <2> QED
    BY <2>1, <2>2
<1>16. ASSUME NEW c \in Registry!Calls, Registry!SaveRemoved(c)
       PROVE  Registry!TypeOK' /\ StepsFitCalls'
  <2>1. Registry!TypeOK'
    BY <1>16, ProjectsSaved, ZenonT(60) DEF Registry!SaveRemoved
  <2>2. StepsFitCalls'
    BY <1>16 DEF Registry!SaveRemoved
  <2> QED
    BY <2>1, <2>2
<1>17. CASE Registry!Restart
  BY <1>17 DEF Registry!Restart
<1>18. CASE UNCHANGED regVars
  BY <1>18
<1> QED
  BY SMTT(90), <1>1, <1>2, <1>3, <1>4, <1>5, <1>6, <1>7, <1>8, <1>9, <1>10, <1>11, <1>12, <1>13,
     <1>14, <1>15, <1>16, <1>17, <1>18, RegistryStep DEF Registry!Next, Registry!Call

\* A change to what a file holds makes its save due, and no other call forgets it.
LEMMA SavesStayDue ==
  ASSUME part = "projects", [HostNext]_HostVars, Registry!TypeOK, StepsFitCalls,
         SavesAreDue
  PROVE  SavesAreDue'
<1> USE PartStays DEF Registry!TypeOK, Registry!Calls, StepsFitCalls, Registry!Goto,
      Registry!Kind, Registry!Arg,
       Registry!Foretell, Registry!memVars, regVars, SavesAreDue
<1>1. ASSUME NEW c \in Registry!Calls, Registry!ListBegins(c) PROVE SavesAreDue'
  BY <1>1 DEF Registry!ListBegins, Registry!Discovered
<1>2. ASSUME NEW c \in Registry!Calls, Registry!DiscoverBegins(c) PROVE SavesAreDue'
  BY <1>2 DEF Registry!DiscoverBegins, Registry!Discovered
<1>3. ASSUME NEW c \in Registry!Calls, Registry!AddScanRoot(c) PROVE SavesAreDue'
  BY <1>3 DEF Registry!AddScanRoot
<1>4. ASSUME NEW c \in Registry!Calls, Registry!SaveRoot(c) PROVE SavesAreDue'
  BY <1>4, StateSaved DEF Registry!SaveRoot
<1>5. ASSUME NEW c \in Registry!Calls, Registry!FilterRemoved(c) PROVE SavesAreDue'
  BY <1>5 DEF Registry!FilterRemoved
<1>6. ASSUME NEW c \in Registry!Calls, Registry!MergeDiscovered(c) PROVE SavesAreDue'
  BY <1>6 DEF Registry!MergeDiscovered
<1>7. ASSUME NEW c \in Registry!Calls, Registry!SaveMerged(c) PROVE SavesAreDue'
  BY <1>7, ProjectsSaved DEF Registry!SaveMerged
<1>8. ASSUME NEW c \in Registry!Calls, Registry!AddBegins(c) PROVE SavesAreDue'
  BY <1>8 DEF Registry!AddBegins
<1>9. ASSUME NEW c \in Registry!Calls, Registry!ClearRemoved(c) PROVE SavesAreDue'
  BY <1>9, DiskAssumption DEF Registry!ClearRemoved
<1>10. ASSUME NEW c \in Registry!Calls, Registry!SaveCleared(c) PROVE SavesAreDue'
  BY <1>10, StateSaved DEF Registry!SaveCleared
<1>11. ASSUME NEW c \in Registry!Calls, Registry!AddProject(c) PROVE SavesAreDue'
  BY <1>11, DiskAssumption DEF Registry!AddProject
<1>12. ASSUME NEW c \in Registry!Calls, Registry!SaveAdded(c) PROVE SavesAreDue'
  BY <1>12, ProjectsSaved DEF Registry!SaveAdded
<1>13. ASSUME NEW c \in Registry!Calls, Registry!RemoveProject(c) PROVE SavesAreDue'
  BY <1>13 DEF Registry!RemoveProject
<1>14. ASSUME NEW c \in Registry!Calls, Registry!AddRemoved(c) PROVE SavesAreDue'
  BY <1>14, DiskAssumption DEF Registry!AddRemoved
<1>15. ASSUME NEW c \in Registry!Calls, Registry!SaveTombstone(c) PROVE SavesAreDue'
  BY <1>15, StateSaved DEF Registry!SaveTombstone
<1>16. ASSUME NEW c \in Registry!Calls, Registry!SaveRemoved(c) PROVE SavesAreDue'
  BY <1>16, ProjectsSaved DEF Registry!SaveRemoved
<1>17. CASE Registry!Restart
  BY <1>17 DEF Registry!Restart
<1>18. CASE UNCHANGED regVars
  BY <1>18
<1> QED
  BY <1>1, <1>2, <1>3, <1>4, <1>5, <1>6, <1>7, <1>8, <1>9, <1>10, <1>11, <1>12, <1>13,
     <1>14, <1>15, <1>16, <1>17, <1>18, RegistryStep DEF Registry!Next, Registry!Call

\* Only an Add takes a tombstone away, and then the removal is none any more.
LEMMA TombstonesStay ==
  ASSUME part = "projects", [HostNext]_HostVars, Registry!TypeOK, StepsFitCalls,
         RemovalsLeaveTombstones, Registry!TombstonesHold
  PROVE  RemovalsLeaveTombstones' /\ Registry!TombstonesHold'
<1> USE PartStays DEF Registry!TypeOK, Registry!Calls, StepsFitCalls, Registry!Goto,
      Registry!Kind, Registry!Arg,
       Registry!Foretell, Registry!memVars, regVars, RemovalsLeaveTombstones,
       Registry!TombstonesHold
<1>1. ASSUME NEW c \in Registry!Calls, Registry!ListBegins(c)
      PROVE  RemovalsLeaveTombstones' /\ Registry!TombstonesHold'
  BY <1>1 DEF Registry!ListBegins, Registry!Discovered
<1>2. ASSUME NEW c \in Registry!Calls, Registry!DiscoverBegins(c)
      PROVE  RemovalsLeaveTombstones' /\ Registry!TombstonesHold'
  BY <1>2 DEF Registry!DiscoverBegins, Registry!Discovered
<1>3. ASSUME NEW c \in Registry!Calls, Registry!AddScanRoot(c)
      PROVE  RemovalsLeaveTombstones' /\ Registry!TombstonesHold'
  BY <1>3 DEF Registry!AddScanRoot
<1>4. ASSUME NEW c \in Registry!Calls, Registry!SaveRoot(c)
      PROVE  RemovalsLeaveTombstones' /\ Registry!TombstonesHold'
  BY <1>4, StateSaved DEF Registry!SaveRoot
<1>5. ASSUME NEW c \in Registry!Calls, Registry!FilterRemoved(c)
      PROVE  RemovalsLeaveTombstones' /\ Registry!TombstonesHold'
  BY <1>5 DEF Registry!FilterRemoved
<1>6. ASSUME NEW c \in Registry!Calls, Registry!MergeDiscovered(c)
      PROVE  RemovalsLeaveTombstones' /\ Registry!TombstonesHold'
  BY <1>6 DEF Registry!MergeDiscovered
<1>7. ASSUME NEW c \in Registry!Calls, Registry!SaveMerged(c)
      PROVE  RemovalsLeaveTombstones' /\ Registry!TombstonesHold'
  BY <1>7, ProjectsSaved DEF Registry!SaveMerged
<1>8. ASSUME NEW c \in Registry!Calls, Registry!AddBegins(c)
      PROVE  RemovalsLeaveTombstones' /\ Registry!TombstonesHold'
  BY <1>8 DEF Registry!AddBegins
<1>9. ASSUME NEW c \in Registry!Calls, Registry!ClearRemoved(c)
      PROVE  RemovalsLeaveTombstones' /\ Registry!TombstonesHold'
  BY <1>9, DiskAssumption DEF Registry!ClearRemoved
<1>10. ASSUME NEW c \in Registry!Calls, Registry!SaveCleared(c)
       PROVE  RemovalsLeaveTombstones' /\ Registry!TombstonesHold'
  BY <1>10, StateSaved DEF Registry!SaveCleared
<1>11. ASSUME NEW c \in Registry!Calls, Registry!AddProject(c)
       PROVE  RemovalsLeaveTombstones' /\ Registry!TombstonesHold'
  BY <1>11, DiskAssumption DEF Registry!AddProject
<1>12. ASSUME NEW c \in Registry!Calls, Registry!SaveAdded(c)
       PROVE  RemovalsLeaveTombstones' /\ Registry!TombstonesHold'
  BY <1>12, ProjectsSaved DEF Registry!SaveAdded
<1>13. ASSUME NEW c \in Registry!Calls, Registry!RemoveProject(c)
       PROVE  RemovalsLeaveTombstones' /\ Registry!TombstonesHold'
  BY <1>13 DEF Registry!RemoveProject
<1>14. ASSUME NEW c \in Registry!Calls, Registry!AddRemoved(c)
       PROVE  RemovalsLeaveTombstones' /\ Registry!TombstonesHold'
  BY <1>14, DiskAssumption DEF Registry!AddRemoved
<1>15. ASSUME NEW c \in Registry!Calls, Registry!SaveTombstone(c)
       PROVE  RemovalsLeaveTombstones' /\ Registry!TombstonesHold'
  BY <1>15, StateSaved DEF Registry!SaveTombstone
<1>16. ASSUME NEW c \in Registry!Calls, Registry!SaveRemoved(c)
       PROVE  RemovalsLeaveTombstones' /\ Registry!TombstonesHold'
  <2> DEFINE p == c[2]
  <2>1. p \in Handled /\ p \in Repos /\ c = <<"remove", p>> /\ regPc[c] = "saveRemoved"
    BY <1>16, DiskAssumption DEF Registry!SaveRemoved
  <2>2. /\ regRemoved' = regRemoved /\ regFile'.removed = regFile.removed
        /\ "state" \in regUnsaved' <=> "state" \in regUnsaved
        /\ regPc' = [regPc EXCEPT ![c] = "idle"]
        /\ regFate' \in {regFate, [regFate EXCEPT ![p] = "gone"]}
        /\ regFate' # regFate => regFate[p] = "leaving"
    BY <1>16, ProjectsSaved DEF Registry!SaveRemoved
  <2>3. regFate[p] = "leaving" =>
          p \in regRemoved /\ ("state" \in regUnsaved \/ p \in regFile.removed)
    BY <2>1
  <2>4. \A q \in Repos : q # p => regFate'[q] = regFate[q]
    BY <2>1, <2>2
  <2>5. ASSUME NEW q \in Handled, regFate'[q] = "leaving", regPc'[<<"remove", q>>] # "idle"
        PROVE  /\ regFate[q] = "leaving"
               /\ regPc'[<<"remove", q>>] = regPc[<<"remove", q>>]
    BY <2>1, <2>2, <2>4, <2>5, DiskAssumption
  <2>6. RemovalsLeaveTombstones'
    BY <2>2, <2>5
  <2>7. Registry!TombstonesHold'
    BY <2>1, <2>2, <2>3, <2>4
  <2> QED
    BY <2>6, <2>7
<1>17. CASE Registry!Restart
  BY <1>17 DEF Registry!Restart
<1>18. CASE UNCHANGED regVars
  BY <1>18
<1> QED
  BY <1>1, <1>2, <1>3, <1>4, <1>5, <1>6, <1>7, <1>8, <1>9, <1>10, <1>11, <1>12, <1>13,
     <1>14, <1>15, <1>16, <1>17, <1>18, RegistryStep DEF Registry!Next, Registry!Call

\* What a scan has found is not touched before it is filtered.
LEMMA ScansStayComplete ==
  ASSUME part = "projects", [HostNext]_HostVars, Registry!TypeOK, StepsFitCalls,
         Registry!ScansAreComplete
  PROVE  Registry!ScansAreComplete'
<1> USE PartStays DEF Registry!TypeOK, Registry!Calls, StepsFitCalls, Registry!Goto,
      Registry!Kind, Registry!Arg,
       Registry!Foretell, Registry!memVars, regVars, Registry!ScansAreComplete
<1>1. ASSUME NEW c \in Registry!Calls, Registry!ListBegins(c)
      PROVE  Registry!ScansAreComplete'
  BY <1>1 DEF Registry!ListBegins, Registry!Discovered
<1>2. ASSUME NEW c \in Registry!Calls, Registry!DiscoverBegins(c)
      PROVE  Registry!ScansAreComplete'
  BY <1>2, ScanIsComplete DEF Registry!DiscoverBegins, Registry!Discovered
<1>3. ASSUME NEW c \in Registry!Calls, Registry!AddScanRoot(c)
      PROVE  Registry!ScansAreComplete'
  BY <1>3 DEF Registry!AddScanRoot
<1>4. ASSUME NEW c \in Registry!Calls, Registry!SaveRoot(c)
      PROVE  Registry!ScansAreComplete'
  BY <1>4, StateSaved DEF Registry!SaveRoot
<1>5. ASSUME NEW c \in Registry!Calls, Registry!FilterRemoved(c)
      PROVE  Registry!ScansAreComplete'
  BY <1>5 DEF Registry!FilterRemoved
<1>6. ASSUME NEW c \in Registry!Calls, Registry!MergeDiscovered(c)
      PROVE  Registry!ScansAreComplete'
  BY <1>6 DEF Registry!MergeDiscovered
<1>7. ASSUME NEW c \in Registry!Calls, Registry!SaveMerged(c)
      PROVE  Registry!ScansAreComplete'
  BY <1>7, ProjectsSaved DEF Registry!SaveMerged
<1>8. ASSUME NEW c \in Registry!Calls, Registry!AddBegins(c)
      PROVE  Registry!ScansAreComplete'
  BY <1>8 DEF Registry!AddBegins
<1>9. ASSUME NEW c \in Registry!Calls, Registry!ClearRemoved(c)
      PROVE  Registry!ScansAreComplete'
  <2>1. regFound' = regFound
        /\ \A d \in Registry!Calls : regPc'[d] = "root" => regPc[d] = "root"
    BY <1>9 DEF Registry!ClearRemoved
  <2> HIDE DEF Registry!Calls, Registry!TypeOK, StepsFitCalls
  <2> QED
    BY <2>1
<1>10. ASSUME NEW c \in Registry!Calls, Registry!SaveCleared(c)
       PROVE  Registry!ScansAreComplete'
  BY <1>10, StateSaved DEF Registry!SaveCleared
<1>11. ASSUME NEW c \in Registry!Calls, Registry!AddProject(c)
       PROVE  Registry!ScansAreComplete'
  BY <1>11, DiskAssumption DEF Registry!AddProject
<1>12. ASSUME NEW c \in Registry!Calls, Registry!SaveAdded(c)
       PROVE  Registry!ScansAreComplete'
  BY <1>12, ProjectsSaved DEF Registry!SaveAdded
<1>13. ASSUME NEW c \in Registry!Calls, Registry!RemoveProject(c)
       PROVE  Registry!ScansAreComplete'
  BY <1>13 DEF Registry!RemoveProject
<1>14. ASSUME NEW c \in Registry!Calls, Registry!AddRemoved(c)
       PROVE  Registry!ScansAreComplete'
  BY <1>14, DiskAssumption DEF Registry!AddRemoved
<1>15. ASSUME NEW c \in Registry!Calls, Registry!SaveTombstone(c)
       PROVE  Registry!ScansAreComplete'
  BY <1>15, StateSaved DEF Registry!SaveTombstone
<1>16. ASSUME NEW c \in Registry!Calls, Registry!SaveRemoved(c)
       PROVE  Registry!ScansAreComplete'
  BY <1>16, ProjectsSaved DEF Registry!SaveRemoved
<1>17. CASE Registry!Restart
  BY <1>17 DEF Registry!Restart
<1>18. CASE UNCHANGED regVars
  BY <1>18
<1> QED
  BY <1>1, <1>2, <1>3, <1>4, <1>5, <1>6, <1>7, <1>8, <1>9, <1>10, <1>11, <1>12, <1>13,
     <1>14, <1>15, <1>16, <1>17, <1>18, RegistryStep DEF Registry!Next, Registry!Call

RegistryInv ==
  part = "projects" =>
    /\ Registry!TypeOK
    /\ StepsFitCalls
    /\ SavesAreDue
    /\ RemovalsLeaveTombstones
    /\ Registry!ProjectsAreKept

\* Through every call, scan, failure and crash.
LEMMA RegistryAlways == HostSpec => [](RegistryInv /\ DefinitionsInv)
<1>1. HostInit => RegistryInv /\ DefinitionsInv
  <2> SUFFICES ASSUME Registry!Init, Definitions!Init PROVE RegistryInv /\ DefinitionsInv
    BY PartsStart
  <2>1. RegistryInv
    BY DEF RegistryInv, Registry!Init, Registry!TypeOK, Registry!Calls, Registry!Nobody,
       StepsFitCalls, SavesAreDue, RemovalsLeaveTombstones, Registry!ProjectsAreKept,
       Registry!AnswersAreDurable, Registry!FilesAgree, Registry!TombstonesHold,
       Registry!ScansAreComplete
  <2>2. DefinitionsInv
    <3> USE DEF Definitions!Init
    <3>1. defCrashes \in 0..MaxCrashes
      BY HostAssumption
    <3>2. Definitions!Never \in Definitions!Task
      BY
         DEF Definitions!Never, Definitions!Task, Definitions!Scopes,
             Definitions!NoProject
    <3>3. Definitions!TypeOK
      BY <3>1, <3>2 DEF Definitions!TypeOK, Definitions!Keep
    <3>4. ChangesAreCounted /\ Definitions!AnsweredIsOnDisk
      <4>1. \A c \in Definitions!Calls : defPc[c] = "new"
        OBVIOUS
      <4>2. \A t \in Tasks : defFile[t].changes = 0 /\ defTasks[t].changes = 0
        BY DEF Definitions!Never
      <4>3. \A u \in Updates : <<"update", u>> \in Definitions!Calls
        BY DEF Definitions!Calls
      <4> QED
        BY <4>1, <4>2, <4>3 DEF ChangesAreCounted, Definitions!AnsweredIsOnDisk
    <3> QED
      BY <3>3, <3>4 DEF DefinitionsInv
  <2> QED
    BY <2>1, <2>2
<1>2. RegistryInv /\ [HostNext]_HostVars => RegistryInv'
  <2> SUFFICES ASSUME part = "projects", RegistryInv, [HostNext]_HostVars PROVE RegistryInv'
    BY PartStays DEF RegistryInv
  <2>1. Registry!TypeOK' /\ StepsFitCalls'
    BY RegistryTyped DEF RegistryInv
  <2>2. SavesAreDue'
    BY SavesStayDue DEF RegistryInv
  <2>3. RemovalsLeaveTombstones' /\ Registry!TombstonesHold'
    BY TombstonesStay
    DEF RegistryInv, Registry!ProjectsAreKept, Registry!AnswersAreDurable
  <2>4. Registry!ScansAreComplete'
    BY ScansStayComplete DEF RegistryInv, Registry!ProjectsAreKept
  <2>5. Registry!FilesAgree'
    BY <2>2 DEF SavesAreDue, Registry!FilesAgree
  <2> QED
    BY <2>1, <2>2, <2>3, <2>4, <2>5
    DEF RegistryInv, Registry!ProjectsAreKept, Registry!AnswersAreDurable
<1>3. DefinitionsInv /\ [HostNext]_HostVars => DefinitionsInv'
  <2> SUFFICES ASSUME part = "tasks", DefinitionsInv, [HostNext]_HostVars PROVE DefinitionsInv'
    BY PartStays DEF DefinitionsInv
  <2> QED
    BY DefinitionsTyped, ChangesCount DEF DefinitionsInv
<1> QED
  BY <1>1, <1>2, <1>3, PTL DEF HostSpec

\* Whatever fails, interleaves or crashes: the registry's files and tombstones, and the
\* task file, hold what calls were answered for, and scans find what there is
\* (server.go:304-451, 1130-1303, project/discovery.go, task/store.go).
THEOREM AnswersStay == HostSpec => []AnswersAreKept
<1>1. RegistryInv /\ DefinitionsInv => AnswersAreKept
  BY DEF RegistryInv, DefinitionsInv, AnswersAreKept
<1> QED
  BY <1>1, RegistryAlways, PTL

-----------------------------------------------------------------------------
(* The doctor *)

\* A step of the doctor part is one of a check or of what happens meanwhile.
LEMMA DoctorStep ==
  ASSUME part = "doctor", [HostNext]_HostVars PROVE [Examination!Next]_docVars
BY DEF HostNext, HostVars, Moves

Verdicts == {"pass", "warn", "fail", "skip"}

\* What a check leaves for later ones.
Findings ==
  [service : {"none", "unknown", "unloaded", "running", "stopped"},
   servicePid : 0..MaxPid, locked : BOOLEAN, lockPid : 0..MaxPid,
   socket : [answered : BOOLEAN, pid : 0..MaxPid + 1],
   tcp : [answered : BOOLEAN, pid : 0..MaxPid + 1]]

\* Only the daemon that has the socket has the port as one of ours, and it is noted.
PortIsOurs ==
  /\ docPort \in Examination!Pids => docPort = docOurs /\ docPort \in docBoth
  /\ docManaged => docOurs # 0

\* The checks of the transports, as long as none has failed.
TransportsAnswered ==
  docMachine.tcp /\ docMachine.pids /\ ~Examination!Failed =>
    /\ docStep > 5 => docSeen.socket.answered /\ docSeen.socket.pid \in Examination!Pids
    /\ docStep > 6 => /\ docSeen.tcp.answered /\ docSeen.tcp.pid # 0
                      /\ docSeen.tcp.pid \in Examination!Pids => docSeen.tcp.pid \in docBoth
    /\ docStep > 8 => docBoth # {}

\* As long as no daemon has ended, what was seen of ours is so.
FindingsHold ==
  /\ docSeen.socket.pid # 0 \/ docSeen.tcp.pid # 0 => docMachine.pids
  /\ docSeen.socket.answered /\ docMachine.pids => docSeen.socket.pid # 0
  /\ ~docEnded /\ docSeen.socket.answered =>
       docOurs # 0 /\ docSeen.socket.pid \in {0, docOurs}
  /\ ~docEnded /\ docSeen.service = "running" =>
       docOurs # 0 /\ docSeen.servicePid = docOurs

DoctorIsRight ==
  PortIsOurs /\ TransportsAnswered /\ FindingsHold /\ Examination!KillsTheOther

\* A check that finds nothing others use.
QuietCheck ==
  /\ \E check, verdicts :
       /\ check \notin {"service", "pidfile", "socket", "tcp", "consistency", "end"}
       /\ verdicts \subseteq Verdicts
       /\ Examination!Verdict(check, verdicts)
  /\ UNCHANGED <<docSeen, docKill>>

\* The place of each check that others depend on.
LEMMA ChecksAre ==
  ASSUME Examination!TypeOK
  PROVE  /\ Examination!Checks[docStep] = "socket" => docStep = 5
         /\ Examination!Checks[docStep] = "tcp" => docStep = 6
         /\ Examination!Checks[docStep] = "consistency" => docStep = 8
         /\ Examination!Checks[docStep] \notin {"socket", "tcp", "consistency"} =>
              docStep \notin {5, 6, 8}
         /\ Examination!Checks[docStep] # "end" => docStep \in 1..14
BY DEF Examination!TypeOK, Examination!Checks

\* The checks of files, tools and settings are such.
LEMMA MostChecksAreQuiet ==
  ASSUME Examination!Check
  PROVE  \/ QuietCheck
         \/ Examination!CheckService \/ Examination!CheckPidfile \/ Examination!CheckSocket
         \/ Examination!CheckTCP \/ Examination!CheckConsistency
<1> USE DEF QuietCheck, Verdicts, Examination!Only
<1>1. CASE Examination!CheckBinaries
  <2>1. PICK verdicts \in SUBSET Verdicts : Examination!Verdict("binaries", verdicts)
    BY <1>1 DEF Examination!CheckBinaries
  <2> QED
    BY <1>1, <2>1 DEF Examination!CheckBinaries
<1>2. CASE Examination!CheckPath
  <2>1. PICK verdicts \in SUBSET Verdicts : Examination!Verdict("path", verdicts)
    BY <1>2 DEF Examination!CheckPath
  <2> QED
    BY <1>2, <2>1 DEF Examination!CheckPath
<1>3. CASE Examination!CheckConfig
  <2>1. PICK verdicts \in SUBSET Verdicts : Examination!Verdict("config", verdicts)
    BY <1>3 DEF Examination!CheckConfig
  <2> QED
    BY <1>3, <2>1 DEF Examination!CheckConfig
<1>4. CASE Examination!CheckLog
  <2>1. PICK verdicts \in SUBSET Verdicts : Examination!Verdict("log", verdicts)
    BY <1>4 DEF Examination!CheckLog
  <2> QED
    BY <1>4, <2>1 DEF Examination!CheckLog
<1>5. CASE Examination!CheckDataDir
  <2>1. PICK verdicts \in SUBSET Verdicts : Examination!Verdict("data-dir", verdicts)
    BY <1>5 DEF Examination!CheckDataDir
  <2> QED
    BY <1>5, <2>1 DEF Examination!CheckDataDir
<1>6. CASE Examination!CheckLsof
  <2>1. PICK verdicts \in SUBSET Verdicts : Examination!Verdict("lsof", verdicts)
    BY <1>6 DEF Examination!CheckLsof
  <2> QED
    BY <1>6, <2>1 DEF Examination!CheckLsof
<1>7. CASE Examination!CheckCodesign
  <2>1. PICK verdicts \in SUBSET Verdicts : Examination!Verdict("codesign", verdicts)
    BY <1>7 DEF Examination!CheckCodesign
  <2> QED
    BY <1>7, <2>1 DEF Examination!CheckCodesign
<1>8. CASE Examination!CheckTools
  <2>1. PICK verdicts \in SUBSET Verdicts : Examination!Verdict("tools", verdicts)
    BY <1>8 DEF Examination!CheckTools
  <2> QED
    BY <1>8, <2>1 DEF Examination!CheckTools
<1>9. CASE Examination!CheckBootDelay
  <2>1. PICK verdicts \in SUBSET Verdicts : Examination!Verdict("boot", verdicts)
    BY <1>9 DEF Examination!CheckBootDelay
  <2> QED
    BY <1>9, <2>1 DEF Examination!CheckBootDelay
<1> QED
  BY <1>1, <1>2, <1>3, <1>4, <1>5, <1>6, <1>7, <1>8, <1>9 DEF Examination!Check

\* The types of the examination.
LEMMA DoctorTyped ==
  ASSUME part = "doctor", [HostNext]_HostVars, Examination!TypeOK, docSeen \in Findings
  PROVE  Examination!TypeOK' /\ docSeen' \in Findings
<1> USE PartStays DEF Examination!TypeOK, Examination!Pids, Examination!Nobody,
      Examination!Other,
       Examination!Foreign, Examination!world, docVars, Examination!Only, Findings,
       Verdicts
<1>1. CASE QuietCheck
  BY <1>1, HostAssumption, ChecksAre DEF QuietCheck, Examination!Verdict
<1>2. CASE Examination!CheckService
  <2>1. docSeen' \in Findings /\ docKill' \in 0..Examination!Other
    <3>1. /\ docOurs \in 0..MaxPid /\ docOurs \in 0..MaxPid + 1
          /\ 0 \in 0..MaxPid /\ 0 \in 0..MaxPid + 1
      BY HostAssumption
    <3>2. docPort # MaxPid + 2 => docPort \in 0..MaxPid + 1
      BY HostAssumption
    <3>3. PICK st \in {"none", "unknown", "unloaded", "running", "stopped"}, p \in 0..MaxPid :
            docSeen' = [docSeen EXCEPT !.service = st, !.servicePid = p]
      BY <1>2, <3>1, <3>2
         DEF Examination!CheckService, Examination!ServiceState,
             Examination!CheckServicePlatform
    <3>4. docKill' = docKill
      BY <1>2 DEF Examination!CheckService
    <3> QED
      BY <3>3, <3>4
  <2>2. docStep' \in 1..15 /\ docReport' \subseteq Verdicts
    BY <1>2, ChecksAre
       DEF Examination!CheckService, Examination!Verdict, Examination!ServiceState,
           Examination!CheckServicePlatform
  <2> QED
    BY <1>2, <2>1, <2>2 DEF Examination!CheckService, Examination!Verdict
<1>3. CASE Examination!CheckPidfile
  <2>1. docSeen' \in Findings /\ docKill' \in 0..Examination!Other
    <3>1. /\ docOurs \in 0..MaxPid /\ docOurs \in 0..MaxPid + 1
          /\ 0 \in 0..MaxPid /\ 0 \in 0..MaxPid + 1
      BY HostAssumption
    <3>2. docPort # MaxPid + 2 => docPort \in 0..MaxPid + 1
      BY HostAssumption
    <3>3. PICK b \in BOOLEAN, p \in 0..MaxPid :
            docSeen' = [docSeen EXCEPT !.locked = b, !.lockPid = p]
      BY <1>3, <3>1, <3>2 DEF Examination!CheckPidfile
    <3>4. docKill' = docKill
      BY <1>3 DEF Examination!CheckPidfile
    <3> QED
      BY <3>3, <3>4
  <2>2. docStep' \in 1..15 /\ docReport' \subseteq Verdicts
    BY <1>3, ChecksAre DEF Examination!CheckPidfile, Examination!Verdict
  <2> QED
    BY <1>3, <2>1, <2>2 DEF Examination!CheckPidfile, Examination!Verdict
<1>4. CASE Examination!CheckSocket
  <2>1. docSeen' \in Findings /\ docKill' \in 0..Examination!Other
    <3>1. /\ docOurs \in 0..MaxPid /\ docOurs \in 0..MaxPid + 1
          /\ 0 \in 0..MaxPid /\ 0 \in 0..MaxPid + 1
      BY HostAssumption
    <3>2. docPort # MaxPid + 2 => docPort \in 0..MaxPid + 1
      BY HostAssumption
    <3>3. PICK a \in [answered : BOOLEAN, pid : 0..MaxPid + 1] :
            docSeen' = [docSeen EXCEPT !.socket = a]
      BY <1>4, <3>1, <3>2
         DEF Examination!CheckSocket, Examination!Answer, Examination!NoAnswer
    <3>4. docKill' = docKill
      BY <1>4 DEF Examination!CheckSocket
    <3> QED
      BY <3>3, <3>4
  <2>2. docStep' \in 1..15 /\ docReport' \subseteq Verdicts
    BY <1>4, ChecksAre
       DEF Examination!CheckSocket, Examination!Verdict, Examination!Answer,
           Examination!NoAnswer
  <2> QED
    BY <1>4, <2>1, <2>2 DEF Examination!CheckSocket, Examination!Verdict
<1>5. CASE Examination!CheckTCP
  <2>1. docSeen' \in Findings /\ docKill' \in 0..Examination!Other
    <3>1. /\ docOurs \in 0..MaxPid /\ docOurs \in 0..MaxPid + 1
          /\ 0 \in 0..MaxPid /\ 0 \in 0..MaxPid + 1
      BY HostAssumption
    <3>2. docPort # MaxPid + 2 => docPort \in 0..MaxPid + 1
      BY HostAssumption
    <3>3. PICK a \in [answered : BOOLEAN, pid : 0..MaxPid + 1] :
            docSeen' = [docSeen EXCEPT !.tcp = a]
      BY <1>5, <3>1, <3>2
         DEF Examination!CheckTCP, Examination!Answer, Examination!NoAnswer
    <3>4. docKill' = docKill
      BY <1>5 DEF Examination!CheckTCP
    <3> QED
      BY <3>3, <3>4
  <2>2. docStep' \in 1..15 /\ docReport' \subseteq Verdicts
    BY <1>5, ChecksAre
       DEF Examination!CheckTCP, Examination!Verdict, Examination!Answer,
           Examination!NoAnswer
  <2> QED
    BY <1>5, <2>1, <2>2 DEF Examination!CheckTCP, Examination!Verdict
<1>6. CASE Examination!CheckConsistency
  <2>1. docSeen' \in Findings /\ docKill' \in 0..Examination!Other
    BY <1>6, HostAssumption DEF Examination!CheckConsistency
  <2>2. docStep' \in 1..15 /\ docReport' \subseteq Verdicts
    <3>1. PICK verdicts \in SUBSET Verdicts : Examination!Verdict("consistency", verdicts)
      BY <1>6 DEF Examination!CheckConsistency
    <3> QED
      BY <3>1, ChecksAre DEF Examination!Verdict
  <2> QED
    BY <1>6, <2>1, <2>2 DEF Examination!CheckConsistency, Examination!Verdict
<1>7. CASE Examination!DaemonStarts
  BY <1>7, HostAssumption, ChecksAre
     DEF Examination!DaemonStarts, Examination!Happens, Examination!OnBoth
<1>8. CASE Examination!DaemonEnds
  <2>1. docPort' \in 0..Examination!Foreign
    BY <1>8, HostAssumption
       DEF Examination!DaemonEnds, Examination!Happens, Examination!OnBoth
  <2>2. docEvents' \in 0..MaxEvents
    BY <1>8, HostAssumption DEF Examination!DaemonEnds, Examination!Happens
  <2>3. docLeft' \in BOOLEAN /\ docLoaded' \in BOOLEAN
    BY <1>8 DEF Examination!DaemonEnds
  <2>4. UNCHANGED <<docMachine, docBorn, docBoth, docStep, docSeen, docReport, docKill>>
    BY <1>8 DEF Examination!DaemonEnds, Examination!Happens
  <2>5. docOurs' = 0 /\ docManaged' = FALSE /\ docEnded' = TRUE
    BY <1>8 DEF Examination!DaemonEnds
  <2> QED
    BY <2>1, <2>2, <2>3, <2>4, <2>5
<1>9. CASE Examination!RetryTCP
  BY <1>9, HostAssumption, ChecksAre
     DEF Examination!RetryTCP, Examination!Happens, Examination!OnBoth
<1>10. CASE Examination!PortChangesHands
  BY <1>10, HostAssumption, ChecksAre
     DEF Examination!PortChangesHands, Examination!Happens, Examination!OnBoth
<1>11. CASE UNCHANGED docVars
  BY <1>11
<1> QED
  BY <1>1, <1>2, <1>3, <1>4, <1>5, <1>6, <1>7, <1>8, <1>9, <1>10, <1>11, DoctorStep,
     MostChecksAreQuiet DEF Examination!Next

\* Each check, and whatever happens to the daemons in between.
LEMMA DoctorStaysRight ==
  ASSUME part = "doctor", [HostNext]_HostVars, Examination!TypeOK, docSeen \in Findings,
         DoctorIsRight
  PROVE  DoctorIsRight'
<1> USE PartStays DEF Examination!TypeOK, Examination!Pids, Examination!Nobody,
      Examination!Other,
       Examination!Foreign, Examination!world, docVars, Findings, DoctorIsRight,
       PortIsOurs, TransportsAnswered, FindingsHold, Examination!KillsTheOther,
       Examination!Failed, Examination!Only
<1>1. CASE QuietCheck
  BY <1>1, HostAssumption, ChecksAre DEF QuietCheck, Examination!Verdict
<1>2. CASE Examination!CheckService
  <2>1. PortIsOurs'
    BY <1>2, HostAssumption, ChecksAre
       DEF Examination!CheckService, Examination!Verdict, Examination!ServiceState,
           Examination!CheckServicePlatform, PortIsOurs
  <2>2. TransportsAnswered'
    BY <1>2, HostAssumption, ChecksAre
       DEF Examination!CheckService, Examination!Verdict, Examination!ServiceState,
           Examination!CheckServicePlatform, TransportsAnswered
  <2>3. FindingsHold'
    BY <1>2, HostAssumption, ChecksAre
       DEF Examination!CheckService, Examination!Verdict, Examination!ServiceState,
           Examination!CheckServicePlatform, FindingsHold
  <2>4. Examination!KillsTheOther'
    BY <1>2, HostAssumption, ChecksAre
       DEF Examination!CheckService, Examination!Verdict, Examination!ServiceState,
           Examination!CheckServicePlatform, Examination!KillsTheOther
  <2> QED
    BY <2>1, <2>2, <2>3, <2>4
<1>3. CASE Examination!CheckPidfile
  <2>1. PortIsOurs'
    BY <1>3, HostAssumption, ChecksAre
       DEF Examination!CheckPidfile, Examination!Verdict, PortIsOurs
  <2>2. TransportsAnswered'
    BY <1>3, HostAssumption, ChecksAre
       DEF Examination!CheckPidfile, Examination!Verdict, TransportsAnswered
  <2>3. FindingsHold'
    BY <1>3, HostAssumption, ChecksAre
       DEF Examination!CheckPidfile, Examination!Verdict, FindingsHold
  <2>4. Examination!KillsTheOther'
    BY <1>3, HostAssumption, ChecksAre
       DEF Examination!CheckPidfile, Examination!Verdict, Examination!KillsTheOther
  <2> QED
    BY <2>1, <2>2, <2>3, <2>4
<1>4. CASE Examination!CheckSocket
  <2>1. PortIsOurs'
    BY <1>4, HostAssumption, ChecksAre
       DEF Examination!CheckSocket, Examination!Verdict, Examination!Answer,
           Examination!NoAnswer, PortIsOurs
  <2>2. TransportsAnswered'
    BY <1>4, HostAssumption, ChecksAre
       DEF Examination!CheckSocket, Examination!Verdict, Examination!Answer,
           Examination!NoAnswer, TransportsAnswered
  <2>3. FindingsHold'
    BY <1>4, HostAssumption, ChecksAre
       DEF Examination!CheckSocket, Examination!Verdict, Examination!Answer,
           Examination!NoAnswer, FindingsHold
  <2>4. Examination!KillsTheOther'
    BY <1>4, HostAssumption, ChecksAre
       DEF Examination!CheckSocket, Examination!Verdict, Examination!Answer,
           Examination!NoAnswer, Examination!KillsTheOther
  <2> QED
    BY <2>1, <2>2, <2>3, <2>4
<1>5. CASE Examination!CheckTCP
  <2>1. PortIsOurs'
    BY <1>5, HostAssumption, ChecksAre
       DEF Examination!CheckTCP, Examination!Verdict, Examination!Answer,
           Examination!NoAnswer, PortIsOurs
  <2>2. TransportsAnswered'
    BY <1>5, HostAssumption, ChecksAre
       DEF Examination!CheckTCP, Examination!Verdict, Examination!Answer,
           Examination!NoAnswer, TransportsAnswered
  <2>3. FindingsHold'
    BY <1>5, HostAssumption, ChecksAre
       DEF Examination!CheckTCP, Examination!Verdict, Examination!Answer,
           Examination!NoAnswer, FindingsHold
  <2>4. Examination!KillsTheOther'
    BY <1>5, HostAssumption, ChecksAre
       DEF Examination!CheckTCP, Examination!Verdict, Examination!Answer,
           Examination!NoAnswer, Examination!KillsTheOther
  <2> QED
    BY <2>1, <2>2, <2>3, <2>4
<1>6. CASE Examination!CheckConsistency
  <2>1. PortIsOurs'
    BY <1>6, HostAssumption, ChecksAre
       DEF Examination!CheckConsistency, Examination!Verdict, Examination!TwoDaemons,
           Examination!Outsider, PortIsOurs
  <2>2. TransportsAnswered'
    BY <1>6, HostAssumption, ChecksAre
       DEF Examination!CheckConsistency, Examination!Verdict, Examination!TwoDaemons,
           Examination!Outsider, TransportsAnswered
  <2>3. FindingsHold'
    BY <1>6, HostAssumption, ChecksAre
       DEF Examination!CheckConsistency, Examination!Verdict, Examination!TwoDaemons,
           Examination!Outsider, FindingsHold
  <2>4. Examination!KillsTheOther'
    BY <1>6, HostAssumption, ChecksAre
       DEF Examination!CheckConsistency, Examination!Verdict, Examination!TwoDaemons,
           Examination!Outsider, Examination!KillsTheOther
  <2> QED
    BY <2>1, <2>2, <2>3, <2>4
<1>7. CASE Examination!DaemonStarts
  BY <1>7, HostAssumption, ChecksAre
     DEF Examination!DaemonStarts, Examination!Happens, Examination!OnBoth
<1>8. CASE Examination!DaemonEnds
  BY <1>8, HostAssumption, ChecksAre
     DEF Examination!DaemonEnds, Examination!Happens, Examination!OnBoth
<1>9. CASE Examination!RetryTCP
  BY <1>9, HostAssumption, ChecksAre
     DEF Examination!RetryTCP, Examination!Happens, Examination!OnBoth
<1>10. CASE Examination!PortChangesHands
  BY <1>10, HostAssumption, ChecksAre
     DEF Examination!PortChangesHands, Examination!Happens, Examination!OnBoth
<1>11. CASE UNCHANGED docVars
  BY <1>11
<1> QED
  BY <1>1, <1>2, <1>3, <1>4, <1>5, <1>6, <1>7, <1>8, <1>9, <1>10, <1>11, DoctorStep,
     MostChecksAreQuiet DEF Examination!Next

DoctorInv ==
  part = "doctor" => Examination!TypeOK /\ docSeen \in Findings /\ DoctorIsRight

\* Through every check and whatever happens between two of them.
LEMMA DoctorAlways == HostSpec => []DoctorInv
<1>1. HostInit => DoctorInv
  <2> SUFFICES ASSUME Examination!Init PROVE DoctorInv
    BY PartsStart DEF DoctorInv
  <2> USE HostAssumption DEF Examination!Init, Examination!OnBoth, Examination!Pids,
        Examination!Nobody, Examination!Other, Examination!Foreign
  <2>1. Examination!TypeOK
    <3>1. docOurs \in 0..MaxPid /\ docPort \in 0..MaxPid + 2 /\ docEvents \in 0..MaxEvents
      OBVIOUS
    <3>2. docBoth \subseteq 1..MaxPid /\ docStep \in 1..15 /\ docKill \in 0..MaxPid + 1
      OBVIOUS
    <3>3. docBorn \in 1..MaxPid /\ docOurs \in 1..MaxPid \cup {0}
      OBVIOUS
    <3>4. docSeen.servicePid \in 0..MaxPid /\ docSeen.lockPid \in 0..MaxPid
      OBVIOUS
    <3>5. docManaged \in BOOLEAN /\ docLoaded \in BOOLEAN /\ docLeft \in BOOLEAN
          /\ docEnded \in BOOLEAN /\ docReport = {} /\ docMachine \in Examination!Machines
      BY Zenon
    <3> QED
      BY <3>1, <3>2, <3>3, <3>4, <3>5, Zenon DEF Examination!TypeOK
  <2>2. docSeen \in Findings
    BY DEF Findings, Examination!NoAnswer
  <2>3. DoctorIsRight
    BY DEF DoctorIsRight, PortIsOurs, TransportsAnswered, FindingsHold,
       Examination!KillsTheOther, Examination!NoAnswer
  <2> QED
    BY <2>1, <2>2, <2>3 DEF DoctorInv
<1>2. DoctorInv /\ [HostNext]_HostVars => DoctorInv'
  <2> SUFFICES ASSUME part = "doctor", DoctorInv, [HostNext]_HostVars PROVE DoctorInv'
    BY PartStays DEF DoctorInv
  <2> QED
    BY DoctorTyped, DoctorStaysRight DEF DoctorInv
<1> QED
  BY <1>1, <1>2, PTL DEF HostSpec

\* doctor/checks.go:297-490: an examination without a failed check has found one daemon
\* on both transports, and a pid it says to kill is another's, for any number of
\* daemons and of events while it looks.
THEOREM DoctorTellsTheTruth == HostSpec => []ReportIsTrue
<1>1. DoctorInv => ReportIsTrue
  BY
     DEF DoctorInv, DoctorIsRight, TransportsAnswered, ReportIsTrue,
         Examination!ReportIsTrue,
     Examination!HealthyIsServed, Examination!Ended
<1> QED
  BY <1>1, DoctorAlways, PTL

-----------------------------------------------------------------------------
(* Service commands *)

\* A step of the service part is one of a command, of launchd or of the user.
LEMMA ServiceStep ==
  ASSUME part = "service", [HostNext]_HostVars PROVE [Control!Next]_ctlVars
BY DEF HostNext, HostVars, Moves

\* launchd: a process has been started, the job is in one domain unless it was noted,
\* and without a login it is not in the other one.
JobIsInOneDomain ==
  /\ \A d \in Control!DomainSet : ctlPid[d] <= ctlSpawned
  /\ ~ctlGui => ctlJob["gui"] = "none"
  /\ ctlDoubled \/ ctlJob["gui"] = "none" \/ ctlJob["user"] = "none"

\* What a step belongs to.
StepsFit ==
  \A c \in Commands :
    /\ ctlPc[c] \in {"stop", "bootout"} => ctlOp[c] = "stop"
    /\ ctlOp[c] = "stop" => ctlPc[c] \in {"stop", "bootout", "wait", "ok", "failed"}
    /\ ctlPc[c] = "restart" => ctlOp[c] = "restart"

\* The processes that a restart found, of which it knows the only one that may be left.
OldIsKnown ==
  \A c \in Commands :
    /\ \A p \in ctlBegan[c] : p <= ctlSpawned
    /\ ctlOp[c] = "restart" /\ ctlPc[c] # "restart" /\ ~ctlBlind[c] /\ ~ctlDoubled =>
         Control!Processes \cap ctlBegan[c] \subseteq {ctlOld[c]}

\* The steps of a command.
Steps ==
  {"new", "start", "stop", "restart", "bootstrap", "started", "kick", "replace", "bootout",
   "wait", "ok", "failed"}

ServiceInv ==
  part = "service" =>
    Control!TypeOK /\ JobIsInOneDomain /\ StepsFit /\ OldIsKnown /\ Control!ReportsAreTrue

\* A look that got all its answers tells of the only process there is.
LEMMA LookTells ==
  ASSUME Control!TypeOK, JobIsInOneDomain, ~ctlDoubled
  PROVE  /\ Control!Processes \subseteq {Control!Status({}).pid}
         /\ ~Control!Status({}).loaded => Control!Processes = {}
         /\ ~Control!Status({}).err
BY DEF Control!TypeOK, JobIsInOneDomain, Control!Processes, Control!Status,
   Control!DomainSet, Control!Intended

\* What any look returns.
LEMMA StatusIs ==
  ASSUME Control!TypeOK, NEW hidden
  PROVE  /\ Control!Status(hidden).domain \in Control!DomainSet
         /\ Control!Status(hidden).pid \in 0..MaxSpawns
BY HostAssumption DEF Control!TypeOK, Control!Status, Control!DomainSet, Control!Intended

\* If that is the one a stop waits not to see, there is none; and none but it is left.
LEMMA NoneLeft ==
  ASSUME Control!TypeOK, JobIsInOneDomain, ~ctlDoubled
  PROVE  Control!Status({}).pid = 0 => Control!Processes = {}
BY LookTells DEF Control!Processes

\* The processes there are have been started.
LEMMA ProcessesAre ==
  ASSUME Control!TypeOK, JobIsInOneDomain
  PROVE  /\ Control!Processes \subseteq 1..MaxSpawns
         /\ \A p \in Control!Processes : p <= ctlSpawned
BY HostAssumption DEF Control!TypeOK, JobIsInOneDomain, Control!Processes

\* The steps of one look, whatever it returns.
LEMMA LookIs ==
  ASSUME Control!TypeOK, NEW c \in Commands, NEW hidden \in Control!Hidden,
         Control!Look(c, hidden)
  PROVE  /\ ctlFaults' \in 0..MaxFaults
         /\ ctlBlind' = [ctlBlind EXCEPT ![c] = @ \/ hidden # {}]
         /\ ~ctlBlind'[c] => ~ctlBlind[c] /\ hidden = {}
<1>1. ctlFaults' \in 0..MaxFaults
  BY HostAssumption DEF Control!TypeOK, Control!Look, Control!Hidden
<1>2. ctlBlind' = [ctlBlind EXCEPT ![c] = @ \/ hidden # {}]
  BY Zenon DEF Control!Look
<1>3. ctlBlind'[c] = (ctlBlind[c] \/ hidden # {})
  BY <1>2, Zenon DEF Control!TypeOK
<1> QED
  BY <1>1, <1>2, <1>3, Zenon

\* The types of the service part.
LEMMA ServiceTyped ==
  ASSUME part = "service", [HostNext]_HostVars, Control!TypeOK, JobIsInOneDomain, StepsFit
  PROVE  Control!TypeOK'
<1> USE PartStays DEF ctlVars, Control!launchdVars, Control!commandVars,
       Control!TypeOK, Control!Goto, Control!DomainSet, Control!Intended
<1>1. ASSUME NEW c \in Commands, NEW what \in {"start", "stop", "restart"},
             Control!Begin(c, what)
      PROVE  Control!TypeOK'
  BY <1>1, ProcessesAre, HostAssumption DEF Control!Begin
<1>2. ASSUME NEW c \in Commands, Control!LookToStart(c) PROVE Control!TypeOK'
  <2>1. ctlFaults' \in 0..MaxFaults /\ ctlBlind' \in [Commands -> BOOLEAN]
    <3>1. CASE \E hidden \in Control!Hidden : Control!Look(c, hidden)
      BY <3>1, LookIs, ZenonT(60)
    <3>2. CASE UNCHANGED <<ctlFaults, ctlBlind>>
      BY <3>2
    <3> QED
      BY <1>2, <3>1, <3>2, Zenon DEF Control!LookToStart
  <2>2. ctlDomain' \in [Commands -> Control!DomainSet] /\ ctlOld' \in [Commands -> 0..MaxSpawns]
    BY <1>2, StatusIs DEF Control!LookToStart
  <2>3. ctlPc' \in [Commands -> Steps]
    BY <1>2 DEF Control!LookToStart, Steps
  <2>4. ctlLeft' \in [Commands -> SUBSET (1..MaxSpawns)]
    BY <1>2, ProcessesAre DEF Control!LookToStart
  <2> QED
    BY <1>2, <2>1, <2>2, <2>3, <2>4 DEF Control!LookToStart, Steps
<1>3. ASSUME NEW c \in Commands, Control!LookToStop(c) PROVE Control!TypeOK'
  <2>1. ctlFaults' \in 0..MaxFaults /\ ctlBlind' \in [Commands -> BOOLEAN]
    <3>1. CASE \E hidden \in Control!Hidden : Control!Look(c, hidden)
      BY <3>1, LookIs, ZenonT(60)
    <3>2. CASE UNCHANGED <<ctlFaults, ctlBlind>>
      BY <3>2
    <3> QED
      BY <1>3, <3>1, <3>2, Zenon DEF Control!LookToStop
  <2>2. ctlDomain' \in [Commands -> Control!DomainSet] /\ ctlOld' \in [Commands -> 0..MaxSpawns]
    BY <1>3, StatusIs DEF Control!LookToStop
  <2>3. ctlPc' \in [Commands -> Steps]
    BY <1>3 DEF Control!LookToStop, Steps
  <2>4. ctlLeft' \in [Commands -> SUBSET (1..MaxSpawns)]
    BY <1>3, ProcessesAre DEF Control!LookToStop
  <2> QED
    BY <1>3, <2>1, <2>2, <2>3, <2>4 DEF Control!LookToStop, Steps
<1>4. ASSUME NEW c \in Commands, Control!LookToRestart(c) PROVE Control!TypeOK'
  <2>1. ctlFaults' \in 0..MaxFaults /\ ctlBlind' \in [Commands -> BOOLEAN]
    <3>1. CASE \E hidden \in Control!Hidden : Control!Look(c, hidden)
      BY <3>1, LookIs, ZenonT(60)
    <3>2. CASE UNCHANGED <<ctlFaults, ctlBlind>>
      BY <3>2
    <3> QED
      BY <1>4, <3>1, <3>2, Zenon DEF Control!LookToRestart
  <2>2. ctlDomain' \in [Commands -> Control!DomainSet] /\ ctlOld' \in [Commands -> 0..MaxSpawns]
    BY <1>4, StatusIs DEF Control!LookToRestart
  <2>3. ctlPc' \in [Commands -> Steps]
    BY <1>4 DEF Control!LookToRestart, Steps
  <2>4. ctlLeft' \in [Commands -> SUBSET (1..MaxSpawns)]
    BY <1>4, ProcessesAre DEF Control!LookToRestart
  <2> QED
    BY <1>4, <2>1, <2>2, <2>3, <2>4 DEF Control!LookToRestart, Steps
<1>5. ASSUME NEW c \in Commands, Control!Bootstrap(c) PROVE Control!TypeOK'
  <2>1. ctlFaults' \in 0..MaxFaults /\ ctlBlind' \in [Commands -> BOOLEAN]
    <3>1. CASE \E hidden \in Control!Hidden : Control!Look(c, hidden)
      BY <3>1, LookIs, ZenonT(60)
    <3>2. CASE UNCHANGED <<ctlFaults, ctlBlind>>
      BY <3>2
    <3> QED
      BY <1>5, <3>1, <3>2, Zenon DEF Control!Bootstrap
  <2>2. /\ ctlJob' \in [Control!DomainSet ->
                      {"none", "idle", "due", "up", "killing", "leaving"}]
        /\ \A d \in Control!DomainSet : ctlJob'[d] \in {"none", "idle", "due"} => ctlPid[d] = 0
    BY <1>5 DEF Control!Bootstrap
  <2>3. ctlDomain' \in [Commands -> Control!DomainSet] /\ ctlPc' \in [Commands -> Steps]
    BY <1>5 DEF Control!Bootstrap, Steps
  <2>4. ctlDoubled' \in BOOLEAN
    BY <1>5 DEF Control!Bootstrap
  <2> QED
    BY <1>5, <2>1, <2>2, <2>3, <2>4 DEF Control!Bootstrap, Steps
<1>6. ASSUME NEW c \in Commands, Control!LookAfterBootstrap(c) PROVE Control!TypeOK'
  <2>1. ctlFaults' \in 0..MaxFaults /\ ctlBlind' \in [Commands -> BOOLEAN]
    <3>1. CASE \E hidden \in Control!Hidden : Control!Look(c, hidden)
      BY <3>1, LookIs, ZenonT(60)
    <3>2. CASE UNCHANGED <<ctlFaults, ctlBlind>>
      BY <3>2
    <3> QED
      BY <1>6, <3>1, <3>2, Zenon DEF Control!LookAfterBootstrap
  <2>2. ctlDomain' \in [Commands -> Control!DomainSet] /\ ctlOld' \in [Commands -> 0..MaxSpawns]
    BY <1>6, StatusIs DEF Control!LookAfterBootstrap
  <2>3. ctlPc' \in [Commands -> Steps]
    BY <1>6 DEF Control!LookAfterBootstrap, Steps
  <2>4. ctlLeft' \in [Commands -> SUBSET (1..MaxSpawns)]
    BY <1>6, ProcessesAre DEF Control!LookAfterBootstrap
  <2> QED
    BY <1>6, <2>1, <2>2, <2>3, <2>4 DEF Control!LookAfterBootstrap, Steps
<1>7. ASSUME NEW c \in Commands, Control!Kickstart(c) PROVE Control!TypeOK'
  BY <1>7, ProcessesAre, HostAssumption DEF Control!Kickstart
<1>8. ASSUME NEW c \in Commands, Control!KickstartKill(c) PROVE Control!TypeOK'
  BY <1>8, ProcessesAre, HostAssumption DEF Control!KickstartKill
<1>9. ASSUME NEW c \in Commands, Control!Bootout(c) PROVE Control!TypeOK'
  BY <1>9, ProcessesAre, HostAssumption DEF Control!Bootout
<1>10. ASSUME NEW c \in Commands, Control!Wait(c) PROVE Control!TypeOK'
  <2>1. ctlFaults' \in 0..MaxFaults /\ ctlBlind' \in [Commands -> BOOLEAN]
    <3>1. CASE \E hidden \in Control!Hidden : Control!Look(c, hidden)
      BY <3>1, LookIs, ZenonT(60)
    <3>2. CASE UNCHANGED <<ctlFaults, ctlBlind>>
      BY <3>2
    <3> QED
      BY <1>10, <3>1, <3>2, Zenon DEF Control!Wait
  <2>2. ctlDomain' \in [Commands -> Control!DomainSet] /\ ctlOld' \in [Commands -> 0..MaxSpawns]
    BY <1>10, StatusIs DEF Control!Wait
  <2>3. ctlPc' \in [Commands -> Steps]
    BY <1>10 DEF Control!Wait, Steps
  <2>4. ctlLeft' \in [Commands -> SUBSET (1..MaxSpawns)]
    BY <1>10, ProcessesAre DEF Control!Wait
  <2> QED
    BY <1>10, <2>1, <2>2, <2>3, <2>4 DEF Control!Wait, Steps
<1>11. ASSUME NEW d \in Control!DomainSet, Control!Spawn(d) PROVE Control!TypeOK'
  BY <1>11, ProcessesAre, HostAssumption DEF Control!Spawn, Control!Launchd
<1>12. ASSUME NEW d \in Control!DomainSet, Control!Crash(d) PROVE Control!TypeOK'
  BY <1>12, ProcessesAre, HostAssumption DEF Control!Crash, Control!Launchd
<1>13. ASSUME NEW d \in Control!DomainSet, Control!ExitCleanly(d) PROVE Control!TypeOK'
  BY <1>13, ProcessesAre, HostAssumption DEF Control!ExitCleanly, Control!Launchd
<1>14. ASSUME NEW d \in Control!DomainSet, Control!Killed(d) PROVE Control!TypeOK'
  BY <1>14, ProcessesAre, HostAssumption DEF Control!Killed, Control!Launchd
<1>15. ASSUME NEW d \in Control!DomainSet, Control!Unloaded(d) PROVE Control!TypeOK'
  BY <1>15, ProcessesAre, HostAssumption DEF Control!Unloaded, Control!Launchd
<1>16. CASE Control!Login
  BY <1>16, HostAssumption DEF JobIsInOneDomain, Control!Login
<1>17. CASE Control!Logout
  <2>1. ctlJob' \in [Control!DomainSet -> {"none", "idle", "due", "up", "killing", "leaving"}]
    BY <1>17 DEF Control!Logout
  <2>2. ctlPid' \in [Control!DomainSet -> 0..MaxSpawns]
    BY <1>17, HostAssumption DEF Control!Logout
  <2>3. \A d \in Control!DomainSet : ctlJob'[d] \in {"none", "idle", "due"} => ctlPid'[d] = 0
    BY <1>17 DEF Control!Logout
  <2> QED
    BY <1>17, <2>1, <2>2, <2>3 DEF Control!Logout
<1>18. CASE UNCHANGED ctlVars
  BY <1>18
<1> QED
  BY <1>1, <1>2, <1>3, <1>4, <1>5, <1>6, <1>7, <1>8, <1>9,
     <1>10, <1>11, <1>12, <1>13, <1>14, <1>15, <1>16, <1>17, <1>18, ServiceStep
     DEF Control!Next, Control!Command

\* launchd keeps the job in one domain, or it is noted.
LEMMA JobStays ==
  ASSUME part = "service", [HostNext]_HostVars, Control!TypeOK, JobIsInOneDomain
  PROVE  JobIsInOneDomain'
<1> USE PartStays DEF ctlVars, Control!launchdVars, Control!commandVars,
       Control!TypeOK, Control!DomainSet, Control!Intended, JobIsInOneDomain
<1>1. ASSUME NEW c \in Commands, NEW what \in {"start", "stop", "restart"},
             Control!Begin(c, what)
      PROVE  JobIsInOneDomain'
  BY <1>1, HostAssumption DEF Control!Begin
<1>2. ASSUME NEW c \in Commands, Control!LookToStart(c) PROVE JobIsInOneDomain'
  BY <1>2, HostAssumption DEF Control!LookToStart
<1>3. ASSUME NEW c \in Commands, Control!LookToStop(c) PROVE JobIsInOneDomain'
  BY <1>3, HostAssumption DEF Control!LookToStop
<1>4. ASSUME NEW c \in Commands, Control!LookToRestart(c) PROVE JobIsInOneDomain'
  BY <1>4, HostAssumption DEF Control!LookToRestart
<1>5. ASSUME NEW c \in Commands, Control!Bootstrap(c) PROVE JobIsInOneDomain'
  BY <1>5, HostAssumption DEF Control!Bootstrap
<1>6. ASSUME NEW c \in Commands, Control!LookAfterBootstrap(c) PROVE JobIsInOneDomain'
  BY <1>6, HostAssumption DEF Control!LookAfterBootstrap
<1>7. ASSUME NEW c \in Commands, Control!Kickstart(c) PROVE JobIsInOneDomain'
  BY <1>7, HostAssumption DEF Control!Kickstart
<1>8. ASSUME NEW c \in Commands, Control!KickstartKill(c) PROVE JobIsInOneDomain'
  BY <1>8, HostAssumption DEF Control!KickstartKill
<1>9. ASSUME NEW c \in Commands, Control!Bootout(c) PROVE JobIsInOneDomain'
  BY <1>9, HostAssumption DEF Control!Bootout
<1>10. ASSUME NEW c \in Commands, Control!Wait(c) PROVE JobIsInOneDomain'
  BY <1>10, HostAssumption DEF Control!Wait
<1>11. ASSUME NEW d \in Control!DomainSet, Control!Spawn(d) PROVE JobIsInOneDomain'
  BY <1>11, HostAssumption DEF Control!Spawn, Control!Launchd
<1>12. ASSUME NEW d \in Control!DomainSet, Control!Crash(d) PROVE JobIsInOneDomain'
  BY <1>12, HostAssumption DEF Control!Crash, Control!Launchd
<1>13. ASSUME NEW d \in Control!DomainSet, Control!ExitCleanly(d) PROVE JobIsInOneDomain'
  BY <1>13, HostAssumption DEF Control!ExitCleanly, Control!Launchd
<1>14. ASSUME NEW d \in Control!DomainSet, Control!Killed(d) PROVE JobIsInOneDomain'
  BY <1>14, HostAssumption DEF Control!Killed, Control!Launchd
<1>15. ASSUME NEW d \in Control!DomainSet, Control!Unloaded(d) PROVE JobIsInOneDomain'
  BY <1>15, HostAssumption DEF Control!Unloaded, Control!Launchd
<1>16. CASE Control!Login
  BY <1>16, HostAssumption DEF Control!Login
<1>17. CASE Control!Logout
  BY <1>17, HostAssumption DEF Control!Logout
<1>18. CASE UNCHANGED ctlVars
  BY <1>18
<1> QED
  BY <1>1, <1>2, <1>3, <1>4, <1>5, <1>6, <1>7, <1>8, <1>9,
     <1>10, <1>11, <1>12, <1>13, <1>14, <1>15, <1>16, <1>17, <1>18, ServiceStep
     DEF Control!Next, Control!Command

\* A command goes through the steps of its operation.
LEMMA StepsStayFit ==
  ASSUME part = "service", [HostNext]_HostVars, Control!TypeOK, StepsFit
  PROVE  StepsFit'
<1> USE PartStays DEF ctlVars, Control!launchdVars, Control!commandVars,
       Control!TypeOK, Control!Goto, StepsFit
<1>1. ASSUME NEW c \in Commands, NEW what \in {"start", "stop", "restart"},
             Control!Begin(c, what)
      PROVE  StepsFit'
  BY <1>1, HostAssumption DEF Control!Begin
<1>2. ASSUME NEW c \in Commands, Control!LookToStart(c) PROVE StepsFit'
  BY <1>2, HostAssumption DEF Control!LookToStart
<1>3. ASSUME NEW c \in Commands, Control!LookToStop(c) PROVE StepsFit'
  BY <1>3, HostAssumption DEF Control!LookToStop
<1>4. ASSUME NEW c \in Commands, Control!LookToRestart(c) PROVE StepsFit'
  BY <1>4, HostAssumption DEF Control!LookToRestart
<1>5. ASSUME NEW c \in Commands, Control!Bootstrap(c) PROVE StepsFit'
  BY <1>5, HostAssumption DEF Control!Bootstrap
<1>6. ASSUME NEW c \in Commands, Control!LookAfterBootstrap(c) PROVE StepsFit'
  BY <1>6, HostAssumption DEF Control!LookAfterBootstrap
<1>7. ASSUME NEW c \in Commands, Control!Kickstart(c) PROVE StepsFit'
  BY <1>7, HostAssumption DEF Control!Kickstart
<1>8. ASSUME NEW c \in Commands, Control!KickstartKill(c) PROVE StepsFit'
  BY <1>8, HostAssumption DEF Control!KickstartKill
<1>9. ASSUME NEW c \in Commands, Control!Bootout(c) PROVE StepsFit'
  BY <1>9, HostAssumption DEF Control!Bootout
<1>10. ASSUME NEW c \in Commands, Control!Wait(c) PROVE StepsFit'
  BY <1>10, HostAssumption DEF Control!Wait
<1>11. ASSUME NEW d \in Control!DomainSet, Control!Spawn(d) PROVE StepsFit'
  BY <1>11, HostAssumption DEF Control!Spawn, Control!Launchd
<1>12. ASSUME NEW d \in Control!DomainSet, Control!Crash(d) PROVE StepsFit'
  BY <1>12, HostAssumption DEF Control!Crash, Control!Launchd
<1>13. ASSUME NEW d \in Control!DomainSet, Control!ExitCleanly(d) PROVE StepsFit'
  BY <1>13, HostAssumption DEF Control!ExitCleanly, Control!Launchd
<1>14. ASSUME NEW d \in Control!DomainSet, Control!Killed(d) PROVE StepsFit'
  BY <1>14, HostAssumption DEF Control!Killed, Control!Launchd
<1>15. ASSUME NEW d \in Control!DomainSet, Control!Unloaded(d) PROVE StepsFit'
  BY <1>15, HostAssumption DEF Control!Unloaded, Control!Launchd
<1>16. CASE Control!Login
  BY <1>16, HostAssumption DEF Control!Login
<1>17. CASE Control!Logout
  BY <1>17, HostAssumption DEF Control!Logout
<1>18. CASE UNCHANGED ctlVars
  BY <1>18
<1> QED
  BY <1>1, <1>2, <1>3, <1>4, <1>5, <1>6, <1>7, <1>8, <1>9,
     <1>10, <1>11, <1>12, <1>13, <1>14, <1>15, <1>16, <1>17, <1>18, ServiceStep
     DEF Control!Next, Control!Command

\* No process comes back, so at most the one that was looked at is left.
LEMMA OldStaysKnown ==
  ASSUME part = "service", [HostNext]_HostVars, Control!TypeOK, JobIsInOneDomain,
         StepsFit, OldIsKnown
  PROVE  OldIsKnown'
<1> USE PartStays DEF ctlVars, Control!launchdVars, Control!commandVars,
       Control!TypeOK, Control!Goto, Control!Processes, OldIsKnown, StepsFit, JobIsInOneDomain
<1>1. ASSUME NEW c \in Commands, NEW what \in {"start", "stop", "restart"},
             Control!Begin(c, what)
      PROVE  OldIsKnown'
  BY <1>1, ProcessesAre, HostAssumption DEF Control!Begin
<1>2. ASSUME NEW c \in Commands, Control!LookToStart(c) PROVE OldIsKnown'
  BY <1>2, LookTells, LookIs, ProcessesAre DEF Control!LookToStart
<1>3. ASSUME NEW c \in Commands, Control!LookToStop(c) PROVE OldIsKnown'
  BY <1>3, LookTells, LookIs, ProcessesAre DEF Control!LookToStop
<1>4. ASSUME NEW c \in Commands, Control!LookToRestart(c) PROVE OldIsKnown'
  <2>1. PICK hidden \in Control!Hidden :
          /\ Control!Look(c, hidden)
          /\ ctlOld' = [ctlOld EXCEPT ![c] = Control!Status(hidden).pid]
    BY <1>4 DEF Control!LookToRestart
  <2>2. ~ctlBlind'[c] => hidden = {}
    BY <2>1, LookIs
  <2>3. /\ Control!Processes' = Control!Processes /\ ctlSpawned' = ctlSpawned
        /\ ctlBegan' = ctlBegan /\ ctlDoubled' = ctlDoubled /\ ctlOp' = ctlOp
    BY <1>4 DEF Control!LookToRestart
  <2>4. ~ctlBlind'[c] /\ ~ctlDoubled => Control!Processes \subseteq {ctlOld'[c]}
    BY <2>1, <2>2, LookTells
  <2>5. \A e \in Commands \ {c} :
          ctlPc'[e] = ctlPc[e] /\ ctlBlind'[e] = ctlBlind[e] /\ ctlOld'[e] = ctlOld[e]
    BY <1>4, <2>1, LookIs DEF Control!LookToRestart
  <2> HIDE DEF Control!Processes
  <2> QED
    BY <2>3, <2>4, <2>5
<1>5. ASSUME NEW c \in Commands, Control!Bootstrap(c) PROVE OldIsKnown'
  BY <1>5, LookTells, LookIs, ProcessesAre DEF Control!Bootstrap
<1>6. ASSUME NEW c \in Commands, Control!LookAfterBootstrap(c) PROVE OldIsKnown'
  BY <1>6, LookTells, LookIs, ProcessesAre DEF Control!LookAfterBootstrap
<1>7. ASSUME NEW c \in Commands, Control!Kickstart(c) PROVE OldIsKnown'
  BY <1>7, ProcessesAre, HostAssumption DEF Control!Kickstart
<1>8. ASSUME NEW c \in Commands, Control!KickstartKill(c) PROVE OldIsKnown'
  BY <1>8, ProcessesAre, HostAssumption DEF Control!KickstartKill
<1>9. ASSUME NEW c \in Commands, Control!Bootout(c) PROVE OldIsKnown'
  BY <1>9, ProcessesAre, HostAssumption DEF Control!Bootout
<1>10. ASSUME NEW c \in Commands, Control!Wait(c) PROVE OldIsKnown'
  BY <1>10, LookTells, LookIs, ProcessesAre DEF Control!Wait
<1>11. ASSUME NEW d \in Control!DomainSet, Control!Spawn(d) PROVE OldIsKnown'
  BY <1>11, ProcessesAre, HostAssumption DEF Control!Spawn, Control!Launchd
<1>12. ASSUME NEW d \in Control!DomainSet, Control!Crash(d) PROVE OldIsKnown'
  BY <1>12, ProcessesAre, HostAssumption DEF Control!Crash, Control!Launchd
<1>13. ASSUME NEW d \in Control!DomainSet, Control!ExitCleanly(d) PROVE OldIsKnown'
  BY <1>13, ProcessesAre, HostAssumption DEF Control!ExitCleanly, Control!Launchd
<1>14. ASSUME NEW d \in Control!DomainSet, Control!Killed(d) PROVE OldIsKnown'
  BY <1>14, ProcessesAre, HostAssumption DEF Control!Killed, Control!Launchd
<1>15. ASSUME NEW d \in Control!DomainSet, Control!Unloaded(d) PROVE OldIsKnown'
  BY <1>15, ProcessesAre, HostAssumption DEF Control!Unloaded, Control!Launchd
<1>16. CASE Control!Login
  BY <1>16, ProcessesAre, HostAssumption DEF Control!Login
<1>17. CASE Control!Logout
  BY <1>17, ProcessesAre, HostAssumption DEF Control!Logout
<1>18. CASE UNCHANGED ctlVars
  BY <1>18
<1> QED
  BY <1>1, <1>2, <1>3, <1>4, <1>5, <1>6, <1>7, <1>8, <1>9,
     <1>10, <1>11, <1>12, <1>13, <1>14, <1>15, <1>16, <1>17, <1>18, ServiceStep
     DEF Control!Next, Control!Command

\* Only a look that got all its answers lets a command report.
LEMMA ReportsStay ==
  ASSUME part = "service", [HostNext]_HostVars, Control!TypeOK, JobIsInOneDomain,
         StepsFit, OldIsKnown,
         Control!ReportsAreTrue
  PROVE  Control!ReportsAreTrue'
<1> USE PartStays DEF ctlVars, Control!launchdVars, Control!commandVars,
       Control!TypeOK, Control!Goto, StepsFit, Control!ReportsAreTrue
<1>1. ASSUME NEW c \in Commands, NEW what \in {"start", "stop", "restart"},
             Control!Begin(c, what)
      PROVE  Control!ReportsAreTrue'
  BY <1>1 DEF Control!Begin
<1>2. ASSUME NEW c \in Commands, Control!LookToStart(c) PROVE Control!ReportsAreTrue'
  BY <1>2, LookIs DEF Control!LookToStart
<1>3. ASSUME NEW c \in Commands, Control!LookToStop(c) PROVE Control!ReportsAreTrue'
  <2>1. CASE ctlPc'[c] = "ok"
    <3>1. PICK hidden \in Control!Hidden :
            /\ Control!Look(c, hidden)
            /\ ~Control!Status(hidden).err /\ ~Control!Status(hidden).loaded
      BY <1>3, <2>1 DEF Control!LookToStop
    <3>2. ~ctlBlind'[c] => ~ctlBlind[c] /\ hidden = {}
      BY <3>1, LookIs
    <3>3. ctlLeft'[c] = IF ctlOp[c] # "start" THEN Control!Processes ELSE {}
      BY <1>3, <2>1 DEF Control!LookToStop
    <3>4. ~ctlBlind'[c] /\ ~ctlDoubled =>
            /\ ctlOp[c] = "stop" => Control!Processes = {}
            /\ ctlOp[c] = "restart" => Control!Processes \cap ctlBegan[c] = {}
      <4> SUFFICES ASSUME ~ctlBlind'[c], ~ctlDoubled
                   PROVE  /\ ctlOp[c] = "stop" => Control!Processes = {}
                          /\ ctlOp[c] = "restart" => Control!Processes \cap ctlBegan[c] = {}
        OBVIOUS
      <4>1. ctlOp[c] = "stop" => Control!Processes = {}
        BY <3>1, <3>2, LookTells, NoneLeft DEF Control!WaitedFor
      <4>2. ctlOp[c] = "restart" => Control!Processes \cap ctlBegan[c] = {}
        <5> SUFFICES ASSUME ctlOp[c] = "restart" PROVE Control!Processes \cap ctlBegan[c] = {}
          OBVIOUS
        <5>1. ctlPc[c] # "restart" /\ ~ctlBlind[c]
          BY <1>3, <3>2 DEF Control!LookToStop
        <5>2. Control!Processes \cap ctlBegan[c] \subseteq {ctlOld[c]}
          BY <5>1 DEF OldIsKnown
        <5>3. ctlOp[c] # "restart"
          BY <3>1, <3>2, <1>3 DEF Control!LookToStop
        <5>4. Control!Processes \subseteq {Control!Status({}).pid}
          BY LookTells
        <5> QED
          BY <5>2, <5>3, <5>4
      <4> QED
        BY <4>1, <4>2
    <3>5. ctlOp' = ctlOp /\ ctlBegan' = ctlBegan /\ ctlDoubled' = ctlDoubled
      BY <1>3 DEF Control!LookToStop
    <3>6. \A e \in Commands \ {c} :
            ctlPc'[e] = ctlPc[e] /\ ctlBlind'[e] = ctlBlind[e] /\ ctlLeft'[e] = ctlLeft[e]
      BY <1>3, <3>1, LookIs DEF Control!LookToStop
    <3> QED
      BY <3>2, <3>3, <3>4, <3>5, <3>6
  <2>2. CASE ctlPc'[c] # "ok"
    BY <1>3, <2>2, LookIs DEF Control!LookToStop
  <2> QED
    BY <2>1, <2>2
<1>4. ASSUME NEW c \in Commands, Control!LookToRestart(c) PROVE Control!ReportsAreTrue'
  BY <1>4, LookIs DEF Control!LookToRestart
<1>5. ASSUME NEW c \in Commands, Control!Bootstrap(c) PROVE Control!ReportsAreTrue'
  BY <1>5, LookIs DEF Control!Bootstrap
<1>6. ASSUME NEW c \in Commands, Control!LookAfterBootstrap(c)
      PROVE  Control!ReportsAreTrue'
  BY <1>6, LookIs DEF Control!LookAfterBootstrap
<1>7. ASSUME NEW c \in Commands, Control!Kickstart(c) PROVE Control!ReportsAreTrue'
  BY <1>7 DEF Control!Kickstart
<1>8. ASSUME NEW c \in Commands, Control!KickstartKill(c) PROVE Control!ReportsAreTrue'
  BY <1>8 DEF Control!KickstartKill
<1>9. ASSUME NEW c \in Commands, Control!Bootout(c) PROVE Control!ReportsAreTrue'
  BY <1>9 DEF Control!Bootout
<1>10. ASSUME NEW c \in Commands, Control!Wait(c) PROVE Control!ReportsAreTrue'
  <2>1. CASE ctlPc'[c] = "ok"
    <3>1. PICK hidden \in Control!Hidden :
            Control!Look(c, hidden) /\ Control!WaitedFor(c, Control!Status(hidden))
      BY <1>10, <2>1 DEF Control!Wait
    <3>2. ~ctlBlind'[c] => ~ctlBlind[c] /\ hidden = {}
      BY <3>1, LookIs
    <3>3. ctlLeft'[c] = IF ctlOp[c] # "start" THEN Control!Processes ELSE {}
      BY <1>10, <2>1 DEF Control!Wait
    <3>4. ~ctlBlind'[c] /\ ~ctlDoubled =>
            /\ ctlOp[c] = "stop" => Control!Processes = {}
            /\ ctlOp[c] = "restart" => Control!Processes \cap ctlBegan[c] = {}
      <4> SUFFICES ASSUME ~ctlBlind'[c], ~ctlDoubled
                   PROVE  /\ ctlOp[c] = "stop" => Control!Processes = {}
                          /\ ctlOp[c] = "restart" => Control!Processes \cap ctlBegan[c] = {}
        OBVIOUS
      <4>1. ctlOp[c] = "stop" => Control!Processes = {}
        BY <3>1, <3>2, LookTells, NoneLeft DEF Control!WaitedFor
      <4>2. ctlOp[c] = "restart" => Control!Processes \cap ctlBegan[c] = {}
        <5> SUFFICES ASSUME ctlOp[c] = "restart" PROVE Control!Processes \cap ctlBegan[c] = {}
          OBVIOUS
        <5>1. ctlPc[c] # "restart" /\ ~ctlBlind[c]
          BY <1>10, <3>2 DEF Control!Wait
        <5>2. Control!Processes \cap ctlBegan[c] \subseteq {ctlOld[c]}
          BY <5>1 DEF OldIsKnown
        <5>3. Control!Status({}).pid # ctlOld[c]
          BY <3>1, <3>2 DEF Control!WaitedFor
        <5>4. Control!Processes \subseteq {Control!Status({}).pid}
          BY LookTells
        <5> QED
          BY <5>2, <5>3, <5>4
      <4> QED
        BY <4>1, <4>2
    <3>5. ctlOp' = ctlOp /\ ctlBegan' = ctlBegan /\ ctlDoubled' = ctlDoubled
      BY <1>10 DEF Control!Wait
    <3>6. \A e \in Commands \ {c} :
            ctlPc'[e] = ctlPc[e] /\ ctlBlind'[e] = ctlBlind[e] /\ ctlLeft'[e] = ctlLeft[e]
      BY <1>10, <3>1, LookIs DEF Control!Wait
    <3> QED
      BY <3>2, <3>3, <3>4, <3>5, <3>6
  <2>2. CASE ctlPc'[c] # "ok"
    BY <1>10, <2>2, LookIs DEF Control!Wait
  <2> QED
    BY <2>1, <2>2
<1>11. ASSUME NEW d \in Control!DomainSet, Control!Spawn(d) PROVE Control!ReportsAreTrue'
  BY <1>11 DEF Control!Spawn, Control!Launchd
<1>12. ASSUME NEW d \in Control!DomainSet, Control!Crash(d) PROVE Control!ReportsAreTrue'
  BY <1>12 DEF Control!Crash, Control!Launchd
<1>13. ASSUME NEW d \in Control!DomainSet, Control!ExitCleanly(d)
       PROVE  Control!ReportsAreTrue'
  BY <1>13 DEF Control!ExitCleanly, Control!Launchd
<1>14. ASSUME NEW d \in Control!DomainSet, Control!Killed(d) PROVE Control!ReportsAreTrue'
  BY <1>14 DEF Control!Killed, Control!Launchd
<1>15. ASSUME NEW d \in Control!DomainSet, Control!Unloaded(d)
       PROVE  Control!ReportsAreTrue'
  BY <1>15 DEF Control!Unloaded, Control!Launchd
<1>16. CASE Control!Login
  BY <1>16 DEF Control!Login
<1>17. CASE Control!Logout
  BY <1>17 DEF Control!Logout
<1>18. CASE UNCHANGED ctlVars
  BY <1>18
<1> QED
  BY <1>1, <1>2, <1>3, <1>4, <1>5, <1>6, <1>7, <1>8, <1>9,
     <1>10, <1>11, <1>12, <1>13, <1>14, <1>15, <1>16, <1>17, <1>18, ServiceStep
     DEF Control!Next, Control!Command

\* Whatever the commands, launchd and the user do.
LEMMA ServiceAlways == HostSpec => []ServiceInv
<1>1. HostInit => ServiceInv
  <2> SUFFICES ASSUME Control!Init PROVE ServiceInv
    BY PartsStart DEF ServiceInv
  <2> USE HostAssumption DEF Control!Init, Control!DomainSet, Control!Intended
  <2>1. 0 \in 0..MaxSpawns /\ 0 \in 0..MaxFaults
    OBVIOUS
  <2>2. ctlJob \in [Control!DomainSet -> {"none", "idle", "due", "up", "killing", "leaving"}]
    OBVIOUS
  <2>3. Control!TypeOK
    BY <2>1, <2>2 DEF Control!TypeOK
  <2>4. JobIsInOneDomain
    <3>1. ~ctlGui => ctlJob["gui"] = "none"
      BY Zenon
    <3>2. ctlJob["gui"] = "none" \/ ctlJob["user"] = "none"
      OBVIOUS
    <3>3. \A d \in Control!DomainSet : ctlPid[d] <= ctlSpawned
      OBVIOUS
    <3> QED
      BY <3>1, <3>2, <3>3 DEF JobIsInOneDomain
  <2>5. StepsFit /\ OldIsKnown /\ Control!ReportsAreTrue
    BY DEF StepsFit, OldIsKnown, Control!ReportsAreTrue
  <2> QED
    BY <2>3, <2>4, <2>5 DEF ServiceInv
<1>2. ServiceInv /\ [HostNext]_HostVars => ServiceInv'
  <2> SUFFICES ASSUME part = "service", ServiceInv, [HostNext]_HostVars PROVE ServiceInv'
    BY PartStays DEF ServiceInv
  <2> QED
    BY ServiceTyped, JobStays, StepsStayFit, OldStaysKnown, ReportsStay DEF ServiceInv
<1> QED
  BY <1>1, <1>2, PTL DEF HostSpec

\* servicemgr/ops.go:161-211, 325 and launchd.go:179-203: a stop that says it has stopped
\* left no process of the service, and a restart that says it has restarted left none of
\* those there were before, for any number of commands at work, of processes and of
\* prints that fail.
THEOREM ReportsStayTrue == HostSpec => []ReportsAreTrue
<1>1. ServiceInv => ReportsAreTrue
  BY DEF ServiceInv, ReportsAreTrue
<1> QED
  BY <1>1, ServiceAlways, PTL

-----------------------------------------------------------------------------
(* Processes outside the daemon *)

\* A step of the external part is one of the kill or of a process.
LEMMA ExternalStep ==
  ASSUME part = "external", [HostNext]_HostVars PROVE [External!Next]_extVars
BY DEF HostNext, HostVars, Moves

Live == External!Live
Parent(p) == extTable[p].parent

\* The processes are trees below PID 1, and the daemon is one of them.
Forest ==
  /\ extTable[DaemonPid] = External!Root
  /\ \A p \in Live : Parent(p) \in Live \cup {1}
  /\ \A S \in SUBSET Live : S # {} => \E p \in S : Parent(p) \notin S

\* Who is about to be signalled is of the tool, unless it is gone.
AboutToStrike ==
  extKill \in {"verified", "reverified"} /\ extTarget.pid \in Live =>
    External!ToolOf(extTarget.pid) = extTarget.tool

ExternalInv ==
  part = "external" =>
    External!TypeOK /\ Forest /\ AboutToStrike /\ External!StrikesTheTool

\* The first generation is p itself, and each further one the parent of the last.
LEMMA GenerationsAre ==
  ASSUME External!TypeOK, Forest, NEW p \in Live
  PROVE  /\ External!Generations(p)[0] = p
         /\ \A n \in 0..MaxAncestors : n # 0 =>
              External!Generations(p)[n] =
                IF External!Generations(p)[n - 1] \in Live
                THEN Parent(External!Generations(p)[n - 1]) ELSE 0
<1> DEFINE U == PIDs \cup {0, 1}
           step == [n \in 0..MaxAncestors |->
                      [x \in U |-> IF x \in Live THEN Parent(x) ELSE 0]]
           Is(f) == f = [n \in 0..MaxAncestors |->
                           IF n = 0 THEN p
                           ELSE IF f[n - 1] \in Live THEN Parent(f[n - 1]) ELSE 0]
<1>1. Live \subseteq PIDs
  BY DEF Live, External!Live
<1>2. p \in U /\ IsStepOn(step, MaxAncestors, U)
  BY <1>1 DEF Forest, IsStepOn
<1>4. MaxAncestors \in Nat
  BY ProcessAssumption
<1>3. PICK f : Iterates(f, MaxAncestors, U, p, step)
  <2> HIDE DEF U, step
  <2> QED
    BY <1>2, <1>4, StepsIterate
<1>5. \A n \in 0..MaxAncestors : n # 0 =>
        f[n] = IF f[n - 1] \in Live THEN Parent(f[n - 1]) ELSE 0
  <2> SUFFICES ASSUME NEW n \in 0..MaxAncestors, n # 0
               PROVE  f[n] = IF f[n - 1] \in Live THEN Parent(f[n - 1]) ELSE 0
    OBVIOUS
  <2>1. f[n - 1] \in U /\ f[n] = step[n][f[n - 1]]
    <3> HIDE DEF U, step
    <3> QED
      BY <1>3, <1>4 DEF Iterates
  <2> QED
    BY <2>1
<1> HIDE DEF U, step
<1>6. Is(f)
  BY <1>3, <1>4, <1>5 DEF Iterates
<1>7. Is(External!Generations(p))
  <2>1. \E g : g = [n \in 0..MaxAncestors |->
                      IF n = 0 THEN p
                      ELSE IF g[n - 1] \in External!Live
                           THEN extTable[g[n - 1]].parent ELSE 0]
    BY <1>6 DEF Live, Parent
  <2> QED
    BY <2>1, Zenon DEF External!Generations, Live, Parent
<1> QED
  BY <1>4, <1>7

\* The ancestors of a process.
Above(p) == External!Ancestors(p)

\* What is above a process: its parent and what is above that.
LEMMA AboveIs ==
  ASSUME Forest, NEW p \in Live
  PROVE  Above(p) = IF Parent(p) \in Live THEN {Parent(p)} \cup Above(Parent(p)) ELSE {}
<1> DEFINE Closed(S, x) == {Parent(q) : q \in S \cup {x}} \cap Live \subseteq S
<1>1. ASSUME NEW x, NEW a
      PROVE  a \in Above(x) <=> a \in Live /\ \A S \in SUBSET Live : Closed(S, x) => a \in S
  BY Zenon DEF Above, External!Ancestors, Live, Parent
<1>2. ASSUME NEW x PROVE Above(x) \subseteq Live /\ Closed(Above(x), x)
  <2>1. Above(x) \subseteq Live
    BY <1>1
  <2>2. ASSUME NEW q \in Above(x) \cup {x}, Parent(q) \in Live PROVE Parent(q) \in Above(x)
    <3>1. ASSUME NEW S \in SUBSET Live, Closed(S, x) PROVE Parent(q) \in S
      <4>1. q \in S \cup {x}
        BY <1>1, <2>2, <3>1
      <4> QED
        BY <2>2, <3>1, <4>1
    <3> HIDE DEF Closed
    <3> QED
      BY <1>1, <2>2, <3>1
  <2> QED
    BY <2>1, <2>2
<1>3. CASE Parent(p) \notin Live
  <2>1. {} \in SUBSET Live /\ Closed({}, p)
    BY <1>3
  <2> HIDE DEF Closed
  <2> QED
    BY <1>1, <1>3, <2>1
<1>4. CASE Parent(p) \in Live
  <2> DEFINE q == Parent(p)
             R == {q} \cup Above(q)
  <2>1. R \subseteq Live /\ Closed(R, p)
    BY <1>2, <1>4
  <2>2. ASSUME NEW S \in SUBSET Live, Closed(S, p) PROVE R \subseteq S
    <3>1. q \in S /\ Closed(S, q)
      BY <1>4, <2>2
    <3> HIDE DEF Closed, q
    <3> QED
      BY <1>1, <3>1
  <2> HIDE DEF Closed, R
  <2>3. Above(p) = R
    BY <1>1, <1>2, <2>1, <2>2
  <2> QED
    BY <1>4, <2>3 DEF R
<1> QED
  BY <1>3, <1>4

\* They are processes.
LEMMA AboveAreLive == ASSUME NEW p PROVE Above(p) \subseteq Live
BY DEF Above, External!Ancestors, Live

\* What is above a process above another is above that one.
LEMMA AboveIsTransitive ==
  ASSUME Forest, NEW p \in Live, NEW q \in Above(p)
  PROVE  Above(q) \subseteq Above(p)
<1> DEFINE S == {x \in Live : q \in Above(x) /\ ~(Above(q) \subseteq Above(x))}
<1>1. ASSUME NEW x \in S, Parent(x) \notin S PROVE FALSE
  <2>1. Above(x) = IF Parent(x) \in Live THEN {Parent(x)} \cup Above(Parent(x)) ELSE {}
    BY AboveIs
  <2> QED
    BY <1>1, <2>1
<1>2. S = {}
  BY <1>1 DEF Forest
<1> QED
  BY <1>2

\* No process is above itself.
LEMMA NoneIsAboveItself == ASSUME Forest, NEW p \in Live PROVE p \notin Above(p)
<1> DEFINE S == {x \in Live : x \in Above(x)}
<1>1. ASSUME NEW x \in S, Parent(x) \notin S PROVE FALSE
  <2>1. Above(x) = IF Parent(x) \in Live THEN {Parent(x)} \cup Above(Parent(x)) ELSE {}
    BY AboveIs
  <2>2. Parent(x) \in Live /\ x # Parent(x) /\ x \in Above(Parent(x))
    BY <1>1, <2>1
  <2>3. Above(x) \subseteq Above(Parent(x))
    BY <2>2, AboveIsTransitive
  <2> QED
    BY <1>1, <2>1, <2>2, <2>3
<1>2. S = {}
  BY <1>1 DEF Forest
<1> QED
  BY <1>2

\* The generations of a process are it and those of its parent.
LEMMA GenerationsShift ==
  ASSUME External!TypeOK, Forest, NEW p \in Live, Parent(p) \in Live,
         NEW n \in Nat, n + 1 \in 0..MaxAncestors
  PROVE  External!Generations(p)[n + 1] = External!Generations(Parent(p))[n]
<1> DEFINE N == MaxAncestors
           q == Parent(p)
           up == External!Generations(p)
           upper == External!Generations(q)
           S == {k \in 0..n : up[k + 1] = upper[k]}
<1>1. N \in Nat /\ n + 1 <= N
  BY ProcessAssumption
<1>2. /\ up[0] = p /\ upper[0] = q
      /\ \A k \in 0..N : k # 0 =>
           up[k] = IF up[k - 1] \in Live THEN Parent(up[k - 1]) ELSE 0
      /\ \A k \in 0..N : k # 0 =>
           upper[k] = IF upper[k - 1] \in Live THEN Parent(upper[k - 1]) ELSE 0
  BY GenerationsAre
<1>3. q = Parent(p)
  OBVIOUS
<1> HIDE DEF N, q, up, upper
<1>4. 0 \in S
  <2>1. 1 \in 0..N /\ 1 - 1 = 0 /\ 0 + 1 = 1 /\ 1 # 0 /\ 0 \in 0..n
    BY <1>1
  <2> QED
    BY <1>2, <1>3, <2>1
<1>5. ASSUME NEW k \in 0..n, k \in S, k # n PROVE k + 1 \in S
  <2>1. /\ k + 1 \in 0..n /\ k + 1 \in 0..N /\ k + 2 \in 0..N /\ k + 1 # 0 /\ k + 2 # 0
        /\ k + 1 - 1 = k /\ k + 2 - 1 = k + 1 /\ k + 1 + 1 = k + 2
    BY <1>1, <1>5
  <2>2. up[k + 1] = upper[k]
    BY <1>5
  <2>3. /\ up[k + 2] = IF up[k + 1] \in Live THEN Parent(up[k + 1]) ELSE 0
        /\ upper[k + 1] = IF upper[k] \in Live THEN Parent(upper[k]) ELSE 0
    BY <1>2, <2>1
  <2> QED
    BY <2>1, <2>2, <2>3
<1>6. n \in S
  <2> HIDE DEF S
  <2> QED
    BY <1>4, <1>5, Climb
<1> QED
  BY <1>6 DEF up, upper, q

\* Above what no process is the parent of there is nothing to see.
LEMMA NothingAboveTheTop ==
  ASSUME External!TypeOK, Forest, NEW p \in Live, Parent(p) \notin Live,
         NEW m \in 1..MaxAncestors
  PROVE  External!Generations(p)[m] \notin Live
<1> DEFINE N == MaxAncestors
           up == External!Generations(p)
           S == {k \in 0..m - 1 : up[k + 1] \notin Live}
<1>1. N \in Nat /\ 0 \notin Live /\ m \in 1..N /\ m - 1 \in Nat /\ m - 1 + 1 = m
  BY ProcessAssumption DEF Live, External!Live
<1>2. /\ up[0] = p
      /\ \A k \in 0..N : k # 0 =>
           up[k] = IF up[k - 1] \in Live THEN Parent(up[k - 1]) ELSE 0
  BY GenerationsAre
<1> HIDE DEF N, up
<1>3. 0 \in S
  <2>1. 1 \in 0..N /\ 1 - 1 = 0 /\ 0 + 1 = 1 /\ 1 # 0 /\ 0 \in 0..m - 1
    BY <1>1
  <2> QED
    BY <1>2, <2>1
<1>4. ASSUME NEW k \in 0..m - 1, k \in S, k # m - 1 PROVE k + 1 \in S
  <2>1. /\ k + 1 \in 0..m - 1 /\ k + 2 \in 0..N /\ k + 2 # 0
        /\ k + 2 - 1 = k + 1 /\ k + 1 + 1 = k + 2
    BY <1>1, <1>4
  <2> QED
    BY <1>1, <1>2, <1>4, <2>1
<1>5. m - 1 \in S
  <2> HIDE DEF S
  <2> QED
    BY <1>1, <1>3, <1>4, Climb
<1> QED
  BY <1>1, <1>5 DEF up

\* The number of members is the same wherever it is asked for.
LEMMA SameNumber == ASSUME NEW S PROVE External!Cardinality(S) = Cardinality(S)
BY DEF External!Cardinality, Cardinality

\* The scan sees what is above a process if that is no more than it looks at.
LEMMA VisitedAreAbove ==
  ASSUME External!TypeOK, Forest, NEW p \in Live, Cardinality(Above(p)) <= MaxAncestors
  PROVE  External!Visited(p) \cap Live = Above(p)
<1> DEFINE N == MaxAncestors
           Up(x) == External!Generations(x)
           Seen(x, k) == {Up(x)[n] : n \in 1..k} \cap Live
           S == {k \in 0..N : \A x \in Live :
                   Cardinality(Above(x)) <= k => Above(x) = Seen(x, k)}
<1>1. N \in Nat /\ Live \subseteq PIDs /\ IsFiniteSet(PIDs)
  BY ProcessAssumption DEF Live, External!Live
<1>2. \A x : IsFiniteSet(Above(x)) /\ Cardinality(Above(x)) \in Nat
  <2> SUFFICES ASSUME NEW x PROVE IsFiniteSet(Above(x)) /\ Cardinality(Above(x)) \in Nat
    OBVIOUS
  <2>1. Above(x) \in SUBSET PIDs
    BY <1>1, AboveAreLive
  <2>2. IsFiniteSet(Above(x))
    BY <1>1, <2>1, FS_Subset
  <2> QED
    BY <2>2, FS_CardinalityType
<1>3. 0 \in S
  <2>1. ASSUME NEW x \in Live, Cardinality(Above(x)) <= 0 PROVE Above(x) = Seen(x, 0)
    <3>1. Cardinality(Above(x)) = 0
      BY <1>2, <2>1
    <3>2. Above(x) = {}
      BY <1>2, <3>1, FS_EmptySet
    <3>3. 1..0 = {}
      OBVIOUS
    <3> QED
      BY <3>2, <3>3
  <2> QED
    BY <1>1, <2>1
<1>4. ASSUME NEW k \in 0..N, k \in S, k # N PROVE k + 1 \in S
  <2>1. k \in Nat /\ k + 1 \in 0..N /\ 1..k + 1 = {1} \cup {n + 1 : n \in 1..k}
    <3>1. k \in Nat /\ k + 1 \in 0..N
      BY <1>1, <1>4
    <3>2. ASSUME NEW n \in 1..k + 1, n # 1 PROVE n - 1 \in 1..k /\ n = (n - 1) + 1
      BY <3>1, <3>2
    <3>3. \A n \in 1..k : n + 1 \in 1..k + 1
      BY <3>1
    <3>4. 1 \in 1..k + 1
      BY <3>1
    <3>5. \A n \in 1..k + 1 : n \in {1} \cup {m + 1 : m \in 1..k}
      BY <3>2
    <3> QED
      BY <3>1, <3>3, <3>4, <3>5
  <2>2. ASSUME NEW x \in Live, Cardinality(Above(x)) <= k + 1
        PROVE  Above(x) = Seen(x, k + 1)
    <3>1. CASE Parent(x) \notin Live
      <4>1. \A m \in 1..k + 1 : Up(x)[m] \notin Live
        <5> SUFFICES ASSUME NEW m \in 1..k + 1 PROVE Up(x)[m] \notin Live
          OBVIOUS
        <5>1. m \in 1..MaxAncestors
          BY <1>1, <2>1
        <5> QED
          BY <3>1, <5>1, NothingAboveTheTop
      <4>2. Above(x) = {}
        BY <3>1, AboveIs
      <4> QED
        BY <4>1, <4>2
    <3>2. CASE Parent(x) \in Live
      <4> DEFINE q == Parent(x)
      <4>1. Above(x) = Above(q) \cup {q} /\ q \notin Above(q) /\ q \in Live
        BY <3>2, AboveIs, NoneIsAboveItself
      <4>2. Cardinality(Above(x)) = Cardinality(Above(q)) + 1
        <5> HIDE DEF q
        <5> QED
          BY <1>2, <4>1, FS_AddElement
      <4>3. Cardinality(Above(q)) <= k
        BY <1>2, <2>1, <2>2, <4>2
      <4>4. Above(q) = Seen(q, k)
        BY <1>4, <4>1, <4>3
      <4>5. Up(x)[1] = q
        <5>1. 0 \in Nat /\ 0 + 1 = 1 /\ 0 + 1 \in 0..MaxAncestors
          BY <1>1, <2>1
        <5>2. Up(x)[0 + 1] = Up(q)[0]
          BY <3>2, <5>1, GenerationsShift
        <5> QED
          BY <4>1, <5>1, <5>2, GenerationsAre
      <4>6. \A n \in 1..k : Up(x)[n + 1] = Up(q)[n]
        <5> SUFFICES ASSUME NEW n \in 1..k PROVE Up(x)[n + 1] = Up(q)[n]
          OBVIOUS
        <5>1. n \in Nat /\ n + 1 \in 0..MaxAncestors
          BY <1>1, <2>1
        <5> QED
          BY <3>2, <5>1, GenerationsShift
      <4> HIDE DEF Up, q
      <4>7. Seen(x, k + 1) = {q} \cup Seen(q, k)
        BY <2>1, <4>1, <4>5, <4>6
      <4> QED
        BY <4>1, <4>4, <4>7
    <3> QED
      BY <3>1, <3>2
  <2> HIDE DEF Seen
  <2> QED
    BY <2>1, <2>2
<1>5. N \in S
  <2> HIDE DEF S, N
  <2> QED
    BY <1>1, <1>3, <1>4, Climb
<1>6. Above(p) = Seen(p, N)
  <2> HIDE DEF Seen
  <2> QED
    BY <1>5
<1> QED
  BY <1>1, <1>6 DEF External!Visited

\* And then of what is above it.
LEMMA ReachShrinks ==
  ASSUME Forest, NEW p \in Live, Cardinality(Above(p)) <= MaxAncestors, NEW q \in Above(p)
  PROVE  Cardinality(Above(q)) <= MaxAncestors
<1>1. Above(p) \subseteq PIDs /\ IsFiniteSet(PIDs)
  BY AboveAreLive, ProcessAssumption DEF Live, External!Live
<1>2. IsFiniteSet(Above(p)) /\ Above(q) \in SUBSET Above(p)
  BY <1>1, FS_Subset, AboveIsTransitive
<1>3. /\ Cardinality(Above(p)) \in Nat /\ Cardinality(Above(q)) \in Nat
      /\ Cardinality(Above(q)) <= Cardinality(Above(p))
  BY <1>2, FS_Subset, FS_CardinalityType
<1> QED
  BY <1>3, ProcessAssumption

\* Of the processes of one tool above each other one is the top-most.
LEMMA OneTop ==
  ASSUME Forest, NEW p \in Live,
         NEW chain \in SUBSET (Above(p) \cup {p}), p \in chain
  PROVE  /\ \E q \in chain : Above(q) \cap chain = {}
         /\ \A q, r \in chain : Above(q) \cap chain = {} /\ Above(r) \cap chain = {} => q = r
<1>1. Above(p) \cup {p} \subseteq Live
  BY AboveAreLive
<1>2. \E q \in chain : Above(q) \cap chain = {}
  <2> DEFINE S == {x \in Above(p) \cup {p} : (Above(x) \cup {x}) \cap chain # {}}
  <2>1. p \in S /\ S \subseteq Live
    BY <1>1
  <2>2. PICK x \in S : Parent(x) \notin S
    <3> HIDE DEF S
    <3> QED
      BY <2>1 DEF Forest
  <2>3. Above(x) = IF Parent(x) \in Live THEN {Parent(x)} \cup Above(Parent(x)) ELSE {}
    BY <1>1, AboveIs
  <2>4. Above(x) \subseteq Above(p)
    BY AboveIsTransitive
  <2>5. Above(x) \cap chain = {}
    BY <2>2, <2>3, <2>4
  <2> QED
    BY <2>2, <2>5
<1>3. ASSUME NEW q \in chain, NEW r \in chain, Above(q) \cap chain = {},
             Above(r) \cap chain = {}, q # r
      PROVE  FALSE
  <2> DEFINE S == {x \in Live : q \in Above(x) \cup {x} /\ r \in Above(x) \cup {x}}
  <2>1. p \in S /\ S \subseteq Live
    OBVIOUS
  <2>2. PICK x \in S : Parent(x) \notin S
    <3> HIDE DEF S
    <3> QED
      BY <2>1 DEF Forest
  <2>3. x # q /\ x # r
    BY <1>3
  <2>4. Above(x) = IF Parent(x) \in Live THEN {Parent(x)} \cup Above(Parent(x)) ELSE {}
    BY AboveIs
  <2> QED
    BY <2>2, <2>3, <2>4
<1> QED
  BY <1>2, <1>3

\* What the scan lists, in terms of what is above a process.
LEMMA ScanIs ==
  ASSUME External!TypeOK, Forest, NEW p \in Live, Cardinality(Above(p)) <= MaxAncestors
  PROVE  p \in External!Scan <=>
           /\ External!ToolOf(p) # "" /\ DaemonPid \notin Above(p)
           /\ \A a \in Above(p) : External!ToolOf(a) # External!ToolOf(p)
           /\ extTable[p].mine
<1>1. DaemonPid \in Live
  BY ProcessAssumption DEF Forest, Live, External!Live, External!Root, External!Free
<1>2. External!Visited(p) \cap Live = Above(p)
  BY VisitedAreAbove
<1>3. External!IsDescendant(p) <=> DaemonPid \in Above(p)
  BY <1>1, <1>2 DEF External!IsDescendant
<1>4. External!HasMatchedAncestor(p) <=>
        \E a \in Above(p) : External!ToolOf(a) = External!ToolOf(p)
  BY <1>2 DEF External!HasMatchedAncestor, Live
<1> QED
  BY <1>3, <1>4 DEF External!Scan, Live

\* Whenever the processes are trees, the scan lists each session once.
LEMMA ListedOnce ==
  ASSUME External!TypeOK, Forest
  PROVE  External!SessionsAreListedOnce
<1> DEFINE Chain(p) == {q \in Above(p) \cup {p} : External!ToolOf(q) = External!ToolOf(p)}
           Top(p) == CHOOSE q \in Chain(p) : Above(q) \cap Chain(p) = {}
<1>1. SUFFICES ASSUME NEW p \in Live, Cardinality(Above(p)) <= MaxAncestors
      PROVE IF External!ToolOf(p) = "" \/ DaemonPid \in Above(p) THEN p \notin External!Scan
            ELSE Chain(p) \cap External!Scan = IF extTable[Top(p)].mine THEN {Top(p)} ELSE {}
  BY Zenon, SameNumber DEF External!SessionsAreListedOnce, External!WithinReach, Above, Live
<1>2. CASE External!ToolOf(p) = "" \/ DaemonPid \in Above(p)
  BY <1>1, <1>2, ScanIs
<1>3. CASE External!ToolOf(p) # "" /\ DaemonPid \notin Above(p)
  <2> DEFINE chain == Chain(p)
             top == Top(p)
  <2>1. chain \subseteq Above(p) \cup {p} /\ p \in chain /\ chain \subseteq Live
    BY AboveAreLive
  <2>2. top \in chain /\ Above(top) \cap chain = {}
    <3>1. \E q \in chain : Above(q) \cap chain = {}
      <4> HIDE DEF chain
      <4> QED
        BY <2>1, OneTop
    <3> HIDE DEF Chain
    <3> QED
      BY <3>1
  <2>3. \A q \in chain : Above(q) \cap chain = {} => q = top
    <3> HIDE DEF chain, top
    <3> QED
      BY <2>1, <2>2, OneTop
  <2>4. ASSUME NEW q \in chain
        PROVE  q \in External!Scan <=> Above(q) \cap chain = {} /\ extTable[q].mine
    <3>1. Above(q) \subseteq Above(p)
      BY <2>1, AboveIsTransitive
    <3>2. External!ToolOf(q) = External!ToolOf(p)
      OBVIOUS
    <3>3. (\A a \in Above(q) : External!ToolOf(a) # External!ToolOf(q))
            <=> Above(q) \cap chain = {}
      BY <3>1, <3>2
    <3>4. Cardinality(Above(q)) <= MaxAncestors
      BY <1>1, <2>1, ReachShrinks
    <3> HIDE DEF chain
    <3> QED
      BY <1>3, <2>1, <3>1, <3>2, <3>3, <3>4, ScanIs
  <2>5. chain \cap External!Scan = IF extTable[top].mine THEN {top} ELSE {}
    <3> HIDE DEF chain, top
    <3> QED
      BY <2>2, <2>3, <2>4
  <2> QED
    BY <1>3, <2>5
<1> QED
  BY <1>2, <1>3

\* The processes keep their types and remain trees; and of those that stay, the command line.
LEMMA ForestStays ==
  ASSUME part = "external", [HostNext]_HostVars, External!TypeOK, Forest
  PROVE  External!TypeOK' /\ Forest'
<1> USE PartStays, ProcessAssumption DEF extVars
<1>1. Live \subseteq PIDs /\ 1 \notin Live
  BY DEF Live, External!Live
<1>2. CASE UNCHANGED extTable
  <2>1. External!TypeOK'
    BY <1>2, ExternalStep DEF External!TypeOK, External!Next, External!VerifyTool,
       External!Terminate, External!Escalate, External!Signal, External!Reverify,
       External!Fork, External!Exit
  <2> QED
    BY <1>2, <2>1 DEF Forest, Live, External!Live, Parent
<1>3. ASSUME NEW p \in PIDs, External!Fork(p) PROVE External!TypeOK' /\ Forest'
  <2>1. PICK a \in Argvs, m \in BOOLEAN, q \in Live \cup {1} :
          extTable' = [extTable EXCEPT ![p] = [parent |-> q, argv |-> a, mine |-> m]]
    BY <1>3 DEF External!Fork, Live
  <2>2. External!TypeOK'
    BY <1>1, <1>3, <2>1 DEF External!TypeOK, External!Fork
  <2>3. p \notin Live
    BY <1>3 DEF External!Fork, Live, External!Live
  <2>4. Live' = Live \cup {p}
    BY <1>3, <2>1 DEF External!TypeOK, Live, External!Live, External!Free
  <2>5. /\ Parent(p)' = q
        /\ \A x \in Live : Parent(x)' = Parent(x)
    BY <1>1, <2>1, <2>3 DEF External!TypeOK, Parent
  <2>6. extTable'[DaemonPid] = External!Root
    BY <1>3, <2>1 DEF Forest, External!TypeOK, External!Fork, External!Root, External!Free
  <2>7. ASSUME NEW S \in SUBSET Live', S # {} PROVE \E x \in S : Parent(x)' \notin S
    <3>1. CASE S \ {p} = {}
      <4>1. S = {p}
        BY <2>7, <3>1
      <4> QED
        BY <1>1, <1>3, <2>3, <2>5, <4>1
    <3>2. CASE S \ {p} # {}
      <4>1. S \ {p} \subseteq Live
        BY <2>4
      <4>2. PICK x \in S \ {p} : Parent(x) \notin S \ {p}
        BY <3>2, <4>1 DEF Forest
      <4>3. Parent(x) # p
        BY <1>1, <1>3, <2>3, <4>1 DEF Forest
      <4> QED
        BY <2>5, <4>1, <4>2, <4>3
    <3> QED
      BY <3>1, <3>2
  <2>8. \A x \in Live' : Parent(x)' \in Live' \cup {1}
    BY <2>4, <2>5 DEF Forest
  <2> QED
    BY <2>2, <2>6, <2>7, <2>8 DEF Forest
<1>4. ASSUME NEW p \in PIDs, External!Exit(p) PROVE External!TypeOK' /\ Forest'
  <2>1. /\ p \in Live /\ p # DaemonPid
        /\ extTable' = [q \in PIDs |->
             IF q = p THEN External!Free
             ELSE IF extTable[q].parent = p THEN [extTable[q] EXCEPT !.parent = 1]
             ELSE extTable[q]]
    BY <1>4 DEF External!Exit, Live
  <2>2. \A q \in PIDs : extTable[q].parent = p =>
          /\ extTable[q] \in [parent : PIDs \cup {1}, argv : Argvs, mine : BOOLEAN]
          /\ [extTable[q] EXCEPT !.parent = 1] \in
               [parent : PIDs \cup {1}, argv : Argvs, mine : BOOLEAN]
          /\ [extTable[q] EXCEPT !.parent = 1] # External!Free
    BY <1>1, <2>1 DEF External!TypeOK, External!Free, External!Root
  <2>3. External!TypeOK'
    BY <1>4, <2>1, <2>2 DEF External!TypeOK, External!Exit
  <2>4. Live' = Live \ {p}
    <3>1. ASSUME NEW q \in PIDs, q # p
          PROVE  extTable'[q] # External!Free <=> extTable[q] # External!Free
      <4>1. extTable[q].parent = p => extTable[q] # External!Free
        BY <1>1, <2>1 DEF External!Free
      <4> QED
        BY <2>1, <2>2, <3>1, <4>1
    <3>2. extTable'[p] = External!Free
      BY <1>1, <2>1
    <3> QED
      BY <3>1, <3>2 DEF Live, External!Live
  <2>5. \A x \in Live' : Parent(x)' = IF Parent(x) = p THEN 1 ELSE Parent(x)
    BY <1>1, <2>1, <2>2, <2>4 DEF Parent
  <2>6. extTable'[DaemonPid] = External!Root
    BY <1>1, <2>1 DEF Forest, External!Root
  <2>7. ASSUME NEW S \in SUBSET Live', S # {} PROVE \E x \in S : Parent(x)' \notin S
    <3>1. PICK x \in S : Parent(x) \notin S
      BY <2>4, <2>7 DEF Forest
    <3> QED
      BY <1>1, <2>4, <2>5, <3>1
  <2>8. \A x \in Live' : Parent(x)' \in Live' \cup {1}
    BY <2>4, <2>5 DEF Forest
  <2> QED
    BY <2>3, <2>6, <2>7, <2>8 DEF Forest
<1> QED
  BY <1>2, <1>3, <1>4, ExternalStep DEF External!Next, External!VerifyTool,
     External!Terminate, External!Escalate, External!Signal, External!Reverify

\* Until the signal follows, no process can have taken the PID that was checked.
LEMMA StrikesStayRight ==
  ASSUME part = "external", [HostNext]_HostVars, External!TypeOK, AboutToStrike,
         External!StrikesTheTool
  PROVE  AboutToStrike' /\ External!StrikesTheTool'
<1> USE PartStays DEF extVars, AboutToStrike, External!StrikesTheTool
<1>1. CASE External!VerifyTool
  BY <1>1 DEF External!VerifyTool, External!Verified, External!ToolOf, Live, External!Live
<1>2. CASE External!Terminate
  BY <1>2 DEF External!Terminate, External!Signal, Live
<1>3. CASE External!Reverify
  BY <1>3 DEF External!Reverify, External!Verified, External!ToolOf, Live, External!Live
<1>4. CASE External!Escalate
  BY <1>4 DEF External!Escalate, External!Signal, Live
<1>5. ASSUME NEW p \in PIDs, External!Fork(p)
      PROVE  AboutToStrike' /\ External!StrikesTheTool'
  BY <1>5 DEF External!Fork, External!Settled
<1>6. ASSUME NEW p \in PIDs, External!Exit(p)
      PROVE  AboutToStrike' /\ External!StrikesTheTool'
  <2>1. \A q \in Live' : q \in Live /\ extTable'[q].argv = extTable[q].argv
    <3> SUFFICES ASSUME NEW q \in PIDs, extTable'[q] # External!Free
                 PROVE  extTable[q] # External!Free /\ extTable'[q].argv = extTable[q].argv
      BY DEF Live, External!Live
    <3>1. q # p
      BY <1>6 DEF External!Exit
    <3>2. CASE extTable[q].parent # p
      BY <1>6, <3>1, <3>2 DEF External!Exit
    <3>3. CASE extTable[q].parent = p
      <4>1. extTable'[q] = [extTable[q] EXCEPT !.parent = 1]
        BY <1>6, <3>1, <3>3 DEF External!Exit
      <4>2. /\ extTable[q] # External!Free
            /\ extTable[q] \in [parent : PIDs \cup {1}, argv : Argvs, mine : BOOLEAN]
        BY <3>3, ProcessAssumption DEF External!TypeOK, External!Free, External!Root
      <4> QED
        BY <4>1, <4>2
    <3> QED
      BY <3>2, <3>3
  <2>2. \A q \in Live' : External!ToolOf(q)' = External!ToolOf(q)
    BY <2>1 DEF External!ToolOf
  <2> QED
    BY <1>6, <2>1, <2>2 DEF External!Exit
<1>7. CASE UNCHANGED extVars
  BY <1>7 DEF Live, External!Live, External!ToolOf
<1> QED
  BY <1>1, <1>2, <1>3, <1>4, <1>5, <1>6, <1>7, ExternalStep DEF External!Next

\* Whatever processes come and go.
LEMMA ExternalAlways == HostSpec => []ExternalInv
<1>1. HostInit => ExternalInv
  <2> SUFFICES ASSUME External!Init PROVE ExternalInv
    BY PartsStart DEF ExternalInv
  <2>1. External!TypeOK
    BY DEF External!Init, External!TypeOK
  <2>2. Live = {DaemonPid} /\ Parent(DaemonPid) = 1 /\ 1 \notin PIDs
        /\ extTable[DaemonPid] = External!Root
    BY ProcessAssumption DEF External!Init, Live, External!Live, Parent, External!Root,
       External!Free
  <2>3. Forest
    BY <2>2, ProcessAssumption DEF Forest
  <2>4. AboutToStrike /\ External!StrikesTheTool
    BY DEF External!Init, AboutToStrike, External!StrikesTheTool
  <2> QED
    BY <2>1, <2>3, <2>4 DEF ExternalInv
<1>2. ExternalInv /\ [HostNext]_HostVars => ExternalInv'
  <2> SUFFICES ASSUME part = "external", ExternalInv, [HostNext]_HostVars PROVE ExternalInv'
    BY PartStays DEF ExternalInv
  <2> QED
    BY ForestStays, StrikesStayRight DEF ExternalInv
<1> QED
  BY <1>1, <1>2, PTL DEF HostSpec

\* procscan.go:74-148, 248-283: every process of a tool outside the daemon belongs to one
\* session of the list, that of its top-most ancestor of that tool, and nothing below the
\* daemon is listed; procscan.go:150-190: a signal of the kill only reaches the tool that
\* was named. For any processes and any limit on the climb: the list is about those that
\* have no more ancestors than the limit, 128 in the code.
THEOREM ToolsStayTheirOwn == HostSpec => []ToolsAreTheirOwn
<1>1. ExternalInv => ToolsAreTheirOwn
  BY ListedOnce DEF ExternalInv, ToolsAreTheirOwn
<1> QED
  BY <1>1, ExternalAlways, PTL

-----------------------------------------------------------------------------
(* The types of every part *)

\* The file of AtomicFile is one of the parts.
FileInv == part = "file" => Inv

\* It keeps what was proved of it.
LEMMA FileAlways == HostSpec => []FileInv
<1>1. HostInit => FileInv
  BY InvInit DEF HostInit, FileInv
<1>2. FileInv /\ [HostNext]_HostVars => FileInv'
  <2>1. [HostNext]_HostVars /\ part = "file" => [Next]_vars
    BY DEF HostNext, HostVars, Moves
  <2> QED
    BY <2>1, PartStays, InvStep DEF FileInv
<1> QED
  BY <1>1, <1>2, PTL DEF HostSpec

\* Every part keeps its types: which steps a call, a logger or a command can be in, that
\* counters stay within their bounds and buffers within their limits (modes.go:108-115,
\* bell.go:101-106), for any value of the constants.
THEOREM HostTypeCorrect == HostSpec => []HostTypeOK
<1>1. part \in {"file", "log", "projects", "tasks", "modes", "bells", "tools",
                "external", "service", "doctor", "connection"}
      /\ FileInv /\ BellsInv /\ ModesInv /\ DetectorInv /\ LogInv /\ ConnectionInv
      /\ RegistryInv /\ DefinitionsInv /\ DoctorInv /\ ServiceInv /\ ExternalInv
      => HostTypeOK
  BY DEF HostTypeOK, FileInv, Inv, BellsInv, ModesInv, DetectorInv, LogInv, ConnectionInv,
     RegistryInv, DefinitionsInv, DoctorInv, ServiceInv, ExternalInv
<1>2. HostSpec => [](part \in {"file", "log", "projects", "tasks", "modes", "bells", "tools",
                               "external", "service", "doctor", "connection"})
  <2> DEFINE Chosen == part \in {"file", "log", "projects", "tasks", "modes", "bells",
                                 "tools", "external", "service", "doctor", "connection"}
  <2>1. HostInit => Chosen
    BY DEF HostInit
  <2>2. Chosen /\ [HostNext]_HostVars => Chosen'
    BY PartStays
  <2> QED
    BY <2>1, <2>2, PTL DEF HostSpec
<1> QED
  BY <1>1, <1>2, FileAlways, TerminalTypesAlways, DetectorAlways, LogAlways, ConnectionAlways,
        RegistryAlways,
     DoctorAlways, ServiceAlways, ExternalAlways, PTL
=============================================================================
