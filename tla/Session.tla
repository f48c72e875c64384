------------------------------ MODULE Session -------------------------------
(* A session as its users see it: the terminal it draws, the process it runs, and *)
(* the commands that name sessions, tasks and runs. One at a time: part is chosen *)
(* at the start, and only what it names moves. The parts share no state beyond    *)
(* what their modules model; one run asks each its own questions on a small       *)
(* instance. Repaint is the module extended here.                                 *)
EXTENDS Repaint

CONSTANTS
  Members, Configured, ShellEnabled,  \* SessionProcess
  Plain, Places, ProjectAt, Requests,
  Deafness,                           \* what each process may ignore
  Known, Limit, Arguments             \* RunCommand

ASSUME SessionAssumption ==
  /\ MaxOutput \in Nat /\ ChannelCap \in Nat
  \* A name that is plain has no dollar sign: ValidateToolName.
  /\ Plain \subseteq STRING \ {"$@"}
  /\ \A r \in Requests : r.args \in Seq(STRING)

VARIABLES
  part,  \* the part that moves
  prcRequest, prcAnswer, prcArgv, prcCwd, prcIgnores, prcForeign, prcReads, prcEvicts,
  prcRevokes, prcAlive, prcSent, prcReaped, prcMaster, prcDone, prcReader, prcCloser,
  prcGrace, prcInput, prcDaemon,
  cmdCommand, cmdArgument, cmdPhase, cmdListing, cmdTarget, cmdResult, cmdCtxDone,
  cmdLink, cmdOver, cmdRun, cmdCancelled

prcVars ==
  <<prcRequest, prcAnswer, prcArgv, prcCwd, prcIgnores, prcForeign, prcReads,
    prcEvicts, prcRevokes, prcAlive, prcSent, prcReaped, prcMaster, prcDone, prcReader,
    prcCloser, prcGrace, prcInput, prcDaemon>>
cmdVars ==
  <<cmdCommand, cmdArgument, cmdPhase, cmdListing, cmdTarget, cmdResult, cmdCtxDone,
    cmdLink, cmdOver, cmdRun, cmdCancelled>>

Process == INSTANCE SessionProcess WITH
  Members <- Members, Configured <- Configured, ShellEnabled <- ShellEnabled,
  Plain <- Plain, Places <- Places, ProjectAt <- ProjectAt, Requests <- Requests,
  request <- prcRequest, answer <- prcAnswer, argv <- prcArgv, cwd <- prcCwd,
  ignores <- prcIgnores, foreign <- prcForeign, reads <- prcReads, evicts <- prcEvicts,
  revokes <- prcRevokes,
  alive <- prcAlive, sent <- prcSent, reaped <- prcReaped, master <- prcMaster,
  done <- prcDone, reader <- prcReader, closer <- prcCloser, grace <- prcGrace,
  input <- prcInput, daemon <- prcDaemon
Command == INSTANCE RunCommand WITH
  Known <- Known, Limit <- Limit, Arguments <- Arguments, command <- cmdCommand,
  argument <- cmdArgument, phase <- cmdPhase, listing <- cmdListing,
  target <- cmdTarget, result <- cmdResult, ctxDone <- cmdCtxDone, link <- cmdLink,
  over <- cmdOver, run <- cmdRun, cancelled <- cmdCancelled

-----------------------------------------------------------------------------
SessionVars ==
  <<part, vars, prcVars, cmdVars>>

\* The choices of an initial state are those of the part that moves.
SessionInit ==
  /\ part \in {"terminal", "process", "command"}
  /\ part # "terminal" =>
       /\ size = CHOOSE s \in Sizes : TRUE
       /\ wanted = [r \in Resizers |-> size]
  /\ Init
  /\ part # "process" =>
       /\ prcRequest = CHOOSE r \in Requests : TRUE
       /\ prcForeign = {}
       /\ prcReads = TRUE
       /\ prcEvicts = TRUE
       /\ prcRevokes = TRUE
  /\ prcIgnores \in Deafness
  /\ Process!Init
  /\ part # "command" =>
       /\ cmdCommand = "run"
       /\ cmdArgument = CHOOSE a \in Arguments : TRUE
       /\ cmdOver = {}
  /\ Command!Init

Rest(p, state) == IF part = p THEN TRUE ELSE UNCHANGED state

\* Only p moves.
Moves(p) ==
  /\ part = p /\ UNCHANGED part
  /\ Rest("terminal", vars)
  /\ Rest("process", prcVars)
  /\ Rest("command", cmdVars)

SessionNext ==
  \/ Moves("terminal") /\ Next
  \/ Moves("process") /\ Process!Next
  \/ Moves("command") /\ Command!Next

\* Fairness is owed by the part that moves.
SessionSpec ==
  /\ SessionInit /\ [][SessionNext]_SessionVars
  /\ \/ part = "terminal" /\ Fairness
     \/ part = "process" /\ Process!Fairness
     \/ part = "command" /\ Command!Fairness

-----------------------------------------------------------------------------
\* Every variable of every part has its type.
SessionTypeOK ==
  CASE part = "terminal" -> TypeOK
    [] part = "process"  -> Process!TypeOK
    [] part = "command"  -> Command!TypeOK

\* pty.go:87-147, 287-407: a session runs what was asked for, until it is closed.
ProcessIsKept == Process!ProcessIsKept
\* run.go, cancel.go, kill.go: commands act on what they name, and return.
CommandKeepsItsWord == Command!CommandKeepsItsWord
=============================================================================
