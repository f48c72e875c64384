------------------------------- MODULE MCHost -------------------------------
(* A small host: of the three repositories on its disk one is too deep and one *)
(* excluded, and a tool is started through its interpreter.                   *)
EXTENDS Host

CONSTANTS
  f1, f2, f3, original, torn, reader,  \* AtomicFile
  call1, call2,                        \* SessionLog
  task, proj1,                         \* TaskDefinitions
  a1, a2, a3, g1, g2,                  \* ToolDetector
  c1, c2,                              \* ServiceControl
  h1, h2, m1                           \* Connection

MCDirs ==
  {<<"src">>, <<"src", "a">>, <<"src", "a", "repo">>, <<"src", "a", "b">>,
   <<"src", "a", "b", "repo">>, <<"src", "lib">>, <<"src", "lib", "repo">>}
MCRepos == {d \in MCDirs : Last(d) = "repo"}
MCHandled == {<<"src", "a", "repo">>}
MCRoots == {<<"src">>}
MCBoolModes == <<"25">>
MCPIDs == 2..5
MCArgvs == {<<"node", "-flag", "claude">>, <<"bash">>}
=============================================================================
