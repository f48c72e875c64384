\* Three writers of one file, a reader and a loss of power; a log of two chunks with two
\* readers; three repositories, one of them to be found; one task, two updates and a crash; two
\* mouse modes and the cursor; six tokens of output; three calls of the detector; four
\* processes; two service commands and two processes of the service; two daemons
\* and two events under the doctor's eyes; two hosts with entries and one without.
CONSTANTS
  f1 = f1
  f2 = f2
  f3 = f3
  original = original
  torn = torn
  reader = reader
  call1 = call1
  call2 = call2
  task = task
  proj1 = proj1
  a1 = a1
  a2 = a2
  a3 = a3
  g1 = g1
  g2 = g2
  c1 = c1
  c2 = c2
  h1 = h1
  h2 = h2
  m1 = m1
  LogReaders = {call1, call2}
  MaxChunks = 2
  Dirs <- MCDirs
  Repos <- MCRepos
  Handled <- MCHandled
  Excluded = {"lib"}
  MaxDepth = 1
  ScanDirectories = {}
  Roots <- MCRoots
  Listers = {"list"}
  Tasks = {task}
  Updates = {1, 2}
  TaskProjects = {proj1}
  MaxCrashes = 1
  AltModes = {}
  MouseModes = {"1000", "1002"}
  EncodingModes = {}
  BoolModes <- MCBoolModes
  DefaultOn = {"25"}
  MaxParams = 2
  MaxKept = 5
  MaxOSC = 2
  MaxOutput = 6
  Callers = {a1, a2, a3}
  Refreshers = {g1, g2}
  PIDs <- MCPIDs
  DaemonPid = 2
  Tools = {"claude"}
  Interpreters = {"node"}
  Argvs <- MCArgvs
  MaxAncestors = 2
  Commands = {c1, c2}
  MaxSpawns = 2
  MaxFaults = 1
  MaxPid = 2
  MaxEvents = 2
  Entries = {h1, h2}
  OtherHosts = {m1}
  Writers = {f1, f2, f3}
  Readers = {reader}
  Initial = original
  Torn = torn
  MaxLosses = 1
SPECIFICATION HostSpec
INVARIANTS
  HostTypeOK
  LogIsWhole
  AnswersAreKept
  OutputIsUnderstood
  OneDetection
  ToolsAreTheirOwn
  ReportsAreTrue
  ReportIsTrue
  SettingsReachTheirHost
PROPERTY ImplementsRegister
CHECK_DEADLOCK FALSE
