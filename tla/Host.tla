-------------------------------- MODULE Host --------------------------------
(* The parts whose promises are about what is there and not about what comes: *)
(* the files and what is kept in them, the readings of terminal output, the   *)
(* detector, processes outside the daemon, the service manager, the doctor    *)
(* and the settings of a connection. One at a time: part is chosen at the     *)
(* start, and only what it names moves. The parts share no state beyond what  *)
(* their modules model; one run asks each its own questions on a small        *)
(* instance. AtomicFile is extended here.                                      *)
EXTENDS AtomicFile, FiniteSets, Sequences, SequencesExt

CONSTANTS
  LogReaders, MaxChunks,                     \* SessionLog
  Dirs, Repos, Handled, Excluded, MaxDepth,  \* Projects
  ScanDirectories, Roots, Listers,
  Tasks, Updates, TaskProjects, MaxCrashes,  \* TaskDefinitions
  AltModes, MouseModes, EncodingModes,       \* ModeTracker
  BoolModes, DefaultOn, MaxParams, MaxKept,
  MaxOSC, MaxOutput,                         \* BellDetector
  Callers, Refreshers,                       \* ToolDetector
  PIDs, DaemonPid, Tools, Interpreters,      \* ExternalSessions
  Argvs, MaxAncestors,
  Commands, MaxSpawns, MaxFaults,            \* ServiceControl
  MaxPid, MaxEvents,                         \* Doctor
  Entries, OtherHosts                        \* Connection

ASSUME HostAssumption ==
  /\ MaxChunks \in Nat /\ MaxPid \in Nat \ {0}
  /\ MaxKept \in Nat \ {0} /\ MaxOSC \in Nat
  /\ MaxCrashes \in Nat /\ MaxSpawns \in Nat /\ MaxFaults \in Nat /\ MaxEvents \in Nat
  \* What stands for a value's source, or for no host, is the name of none.
  /\ {"none", "local", "default", "env", "flag"} \cap (Entries \cup OtherHosts) = {}

\* A sequence that sets one mode fits into the parameters, and no token is of two kinds.
ASSUME ModesAssumption ==
  /\ MaxParams \in Nat /\ MaxParams >= 2
  /\ BoolModes \in Seq(ToSet(BoolModes))
  /\ LET kinds == <<AltModes, MouseModes, EncodingModes, ToSet(BoolModes),
                    {"0", "ESC", "[", "?", "h", "l"}>>
     IN  \A i, j \in 1..5 : i # j => kinds[i] \cap kinds[j] = {}

\* Paths are sequences of names, and below a root the parent of a directory is one.
ASSUME DiskAssumption ==
  /\ MaxDepth \in Nat
  /\ Handled \subseteq Repos /\ Repos \subseteq Dirs
  /\ Dirs \subseteq Seq(STRING) /\ Roots \subseteq Seq(STRING)
  /\ \A r \in Roots, d \in Dirs : IsStrictPrefix(r, d) => Front(d) \in Dirs

\* PID 0 stands for none and 1 is the ancestor that every process has.
ASSUME ProcessAssumption ==
  /\ IsFiniteSet(PIDs) /\ PIDs \subseteq Nat \ {0, 1} /\ DaemonPid \in PIDs
  /\ MaxAncestors \in Nat

VARIABLES
  part,  \* the part that moves
  logWritten, logFlushed, logBroken, logLog, logGzip, logGz, logLogger, logRetention, logPc,
  logOwed, logGot,
  regProjects, regRemoved, regRoots, regFile, regUnsaved, regRescanMu, regPc, regFound,
  regFate,
  defTasks, defFile, defRegistered, defPc, defPatch, defMade, defCrashes,
  modeTracker, modeKept,
  bellOutput, bellAfterEscape, bellInOSC, bellOscBuf, bellBells, bellMessages,
  detCachedAt, detRefresh, detDone, detPc,
  extTable, extKill, extTarget, extStruck,
  ctlJob, ctlPid, ctlGui, ctlSpawned, ctlFaults, ctlOp, ctlPc, ctlDomain, ctlOld,
  ctlBegan, ctlLeft, ctlBlind, ctlDoubled,
  docMachine, docOurs, docManaged, docLoaded, docLeft, docPort, docBorn, docEvents,
  docEnded, docBoth, docStep, docSeen, docReport, docKill,
  conPc, conSetting, conOwn, conAddressOf, conDefault, conEnv, conFlags, conTarget,
  conMethods, conVerified

logVars ==
  <<logWritten, logFlushed, logBroken, logLog, logGzip, logGz, logLogger, logRetention, logPc,
    logOwed, logGot>>
regVars ==
  <<regProjects, regRemoved, regRoots, regFile, regUnsaved, regRescanMu, regPc,
    regFound, regFate>>
defVars ==
  <<defTasks, defFile, defRegistered, defPc, defPatch, defMade, defCrashes>>
modeVars ==
  <<modeTracker, modeKept>>
bellVars ==
  <<bellOutput, bellAfterEscape, bellInOSC, bellOscBuf, bellBells, bellMessages>>
detVars ==
  <<detCachedAt, detRefresh, detDone, detPc>>
extVars ==
  <<extTable, extKill, extTarget, extStruck>>
ctlVars ==
  <<ctlJob, ctlPid, ctlGui, ctlSpawned, ctlFaults, ctlOp, ctlPc, ctlDomain, ctlOld,
    ctlBegan, ctlLeft, ctlBlind, ctlDoubled>>
docVars ==
  <<docMachine, docOurs, docManaged, docLoaded, docLeft, docPort, docBorn, docEvents,
    docEnded, docBoth, docStep, docSeen, docReport, docKill>>
conVars ==
  <<conPc, conSetting, conOwn, conAddressOf, conDefault, conEnv, conFlags, conTarget,
    conMethods, conVerified>>

Log == INSTANCE SessionLog WITH
  Readers <- LogReaders, MaxChunks <- MaxChunks, written <- logWritten,
  flushed <- logFlushed, broken <- logBroken, log <- logLog, gzip <- logGzip, gz <- logGz,
  logger <- logLogger, retention <- logRetention, pc <- logPc, owed <- logOwed,
  got <- logGot
Registry == INSTANCE Projects WITH
  Dirs <- Dirs, Repos <- Repos, Handled <- Handled, Excluded <- Excluded,
  MaxDepth <- MaxDepth, Configured <- ScanDirectories, Roots <- Roots,
  Listers <- Listers, projects <- regProjects, removed <- regRemoved,
  roots <- regRoots, file <- regFile, unsaved <- regUnsaved, rescanMu <- regRescanMu,
  pc <- regPc, found <- regFound, fate <- regFate
Definitions == INSTANCE TaskDefinitions WITH
  Tasks <- Tasks, Updates <- Updates, Projects <- TaskProjects,
  MaxCrashes <- MaxCrashes, tasks <- defTasks, file <- defFile,
  registered <- defRegistered, pc <- defPc, patch <- defPatch, made <- defMade,
  crashes <- defCrashes
Terminal == INSTANCE ModeTracker WITH
  AltModes <- AltModes, MouseModes <- MouseModes, EncodingModes <- EncodingModes,
  BoolModes <- BoolModes, DefaultOn <- DefaultOn, MaxParams <- MaxParams,
  MaxKept <- MaxKept, tracker <- modeTracker, kept <- modeKept
Signals == INSTANCE BellDetector WITH
  MaxOSC <- MaxOSC, MaxOutput <- MaxOutput, output <- bellOutput,
  afterEscape <- bellAfterEscape, inOSC <- bellInOSC, oscBuf <- bellOscBuf,
  bells <- bellBells, messages <- bellMessages
Detector == INSTANCE ToolDetector WITH
  Callers <- Callers, Refreshers <- Refreshers, cachedAt <- detCachedAt,
  refresh <- detRefresh, done <- detDone, pc <- detPc
External == INSTANCE ExternalSessions WITH
  PIDs <- PIDs, Daemon <- DaemonPid, Tools <- Tools, Interpreters <- Interpreters,
  Argvs <- Argvs, MaxDepth <- MaxAncestors, table <- extTable, kill <- extKill,
  target <- extTarget, struck <- extStruck
Control == INSTANCE ServiceControl WITH
  Commands <- Commands, MaxSpawns <- MaxSpawns, MaxFaults <- MaxFaults, job <- ctlJob,
  pid <- ctlPid, gui <- ctlGui, spawned <- ctlSpawned, faults <- ctlFaults,
  op <- ctlOp, pc <- ctlPc, domain <- ctlDomain, old <- ctlOld, began <- ctlBegan,
  left <- ctlLeft, blind <- ctlBlind, doubled <- ctlDoubled
Examination == INSTANCE Doctor WITH
  MaxPid <- MaxPid, MaxEvents <- MaxEvents, machine <- docMachine, ours <- docOurs,
  managed <- docManaged, loaded <- docLoaded, left <- docLeft, port <- docPort,
  born <- docBorn, events <- docEvents, ended <- docEnded, both <- docBoth,
  step <- docStep, seen <- docSeen, report <- docReport, kill <- docKill
Settings == INSTANCE Connection WITH
  Entries <- Entries, Machines <- OtherHosts, pc <- conPc, setting <- conSetting,
  own <- conOwn, addressOf <- conAddressOf, default <- conDefault, env <- conEnv,
  flags <- conFlags, target <- conTarget, methods <- conMethods,
  verified <- conVerified

-----------------------------------------------------------------------------
HostVars ==
  <<part, vars, logVars, regVars, defVars, modeVars, bellVars, detVars, extVars, ctlVars, docVars,
    conVars>>

\* The choices of an initial state are those of the part that moves.
HostInit ==
  /\ part \in {"file", "log", "projects", "tasks", "modes", "bells", "tools",
               "external", "service", "doctor", "connection"}
  /\ Init
  /\ Log!Init
  /\ Registry!Init
  /\ Definitions!Init
  /\ Terminal!Init
  /\ Signals!Init
  /\ Detector!Init
  /\ External!Init
  /\ part # "service" => ctlJob = [d \in {"gui", "user"} |-> IF d = "gui" THEN "idle" ELSE "none"]
  /\ Control!Init
  /\ part # "doctor" =>
       /\ docMachine = Examination!Good
       /\ docOurs = 0
       /\ docManaged = FALSE
       /\ docLoaded = FALSE
       /\ docLeft = FALSE
       /\ docPort = 0
  /\ Examination!Init
  /\ part # "connection" =>
       /\ conSetting = "user"
       /\ conOwn = {}
       /\ conAddressOf = [h \in Entries |-> "none"]
       /\ conDefault = "none"
       /\ conEnv = [host |-> "none", set |-> FALSE]
       /\ conFlags = [host |-> "none", set |-> FALSE]
  /\ Settings!Init

Rest(p, state) == IF part = p THEN TRUE ELSE UNCHANGED state

\* Only p moves.
Moves(p) ==
  /\ part = p /\ UNCHANGED part
  /\ Rest("file", vars)
  /\ Rest("log", logVars)
  /\ Rest("projects", regVars)
  /\ Rest("tasks", defVars)
  /\ Rest("modes", modeVars)
  /\ Rest("bells", bellVars)
  /\ Rest("tools", detVars)
  /\ Rest("external", extVars)
  /\ Rest("service", ctlVars)
  /\ Rest("doctor", docVars)
  /\ Rest("connection", conVars)

HostNext ==
  \/ Moves("file") /\ Next
  \/ Moves("log") /\ Log!Next
  \/ Moves("projects") /\ Registry!Next
  \/ Moves("tasks") /\ Definitions!Next
  \/ Moves("modes") /\ Terminal!Next
  \/ Moves("bells") /\ Signals!Next
  \/ Moves("tools") /\ Detector!Next
  \/ Moves("external") /\ External!Next
  \/ Moves("service") /\ Control!Next
  \/ Moves("doctor") /\ Examination!Next
  \/ Moves("connection") /\ Settings!Next

HostSpec == HostInit /\ [][HostNext]_HostVars

-----------------------------------------------------------------------------
\* Every variable of every part has its type.
HostTypeOK ==
  CASE part = "file"     -> TypeOK
    [] part = "log"      -> Log!TypeOK
    [] part = "projects" -> Registry!TypeOK
    [] part = "tasks"    -> Definitions!TypeOK
    [] part = "modes"    -> Terminal!TypeOK
    [] part = "bells"    -> Signals!TypeOK
    [] part = "tools"    -> Detector!TypeOK
    [] part = "external" -> External!TypeOK
    [] part = "service"  -> Control!TypeOK
    [] part = "doctor"   -> Examination!TypeOK
    [] part = "connection" -> Settings!TypeOK

\* logger.go:141-433: the log is whole, and is read whole.
LogIsWhole == part = "log" => Log!LogIsWhole
\* server.go:304-451, project: what the calls answered for survives, and scans find what
\* there is. server.go:1130-1303, task/store.go: an answered change is on the disk.
AnswersAreKept ==
  /\ part = "projects" => Registry!ProjectsAreKept
  /\ part = "tasks" => Definitions!AnsweredIsOnDisk
\* modes.go:74-179: preamble and replay restore the modes. bell.go:76-120: bells and
\* notifications are found, and nothing else.
OutputIsUnderstood ==
  /\ part = "modes" => Terminal!AttachRestoresModes
  /\ part = "bells" => Signals!SignalsAreFound
\* detector.go:67-110: one detection at a time.
OneDetection == part = "tools" => Detector!OneDetection
\* procscan.go:78-190: one entry for each session outside the daemon, and a signal
\* reaches the tool it was meant for.
ToolsAreTheirOwn ==
  part = "external" => External!SessionsAreListedOnce /\ External!StrikesTheTool
\* ops.go:132-211: what stop and restart report is so.
ReportsAreTrue == part = "service" => Control!ReportsAreTrue
\* doctor/checks.go: an installation without a failed check serves, and a pid to kill is
\* a second daemon's.
ReportIsTrue == part = "doctor" => Examination!ReportIsTrue
\* cli/config/config.go:101-240: secrets go to the host they are written for.
SettingsReachTheirHost == part = "connection" => Settings!SettingsReachTheirHost
=============================================================================
