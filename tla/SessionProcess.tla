--------------------------- MODULE SessionProcess ---------------------------
(* The process of one session, from the call that asks for it to its end:    *)
(* Create, Input and Kill of internal/server/server.go, and buildCommand,    *)
(* StartPTY, Write, Kill and Close of internal/session/pty.go.               *)
(*                                                                           *)
(* The shell that is started leads a process group and the terminal's        *)
(* session. Processes may ignore SIGTERM and SIGHUP, may not be the user's   *)
(* to signal, and may not read their terminal. Jobs that a shell moves to    *)
(* groups of their own are left out: Kill does not reach them, and they may  *)
(* keep the terminal open as another user's processes do here.               *)
EXTENDS Naturals, Sequences, FiniteSets

CONSTANTS
  Members,       \* processes of the group besides the shell
  Configured,    \* tools of the configuration
  ShellEnabled,  \* EnableShellTool
  Plain,         \* names that ValidateToolName lets through
  Places,        \* directories that exist, as sequences of names
  ProjectAt,     \* the registry: a project's directory
  Requests       \* what may be asked: [tool, args, project, dir]; dir is [kind, path]

Shell == "shell"
Procs == Members \cup {Shell}
Home == <<"home">>
none == "none"  \* no project, and no answer yet

VARIABLES
  request, answer,  \* the Create call and "ok" or "refused"
  argv, cwd,        \* what was started, and where
  ignores,          \* signals that each process ignores
  foreign,          \* processes of another user
  reads,            \* the processes read their terminal
  evicts,           \* closing the terminal ends a read and a write of it
  revokes,          \* the terminal is hung up when its session's leader ends, as on macOS;
                    \* on Linux only when no process has it open
  alive,            \* processes of the group
  sent,             \* signals on their way to each process
  reaped,           \* Wait has returned for the shell
  master,           \* the daemon's end of the terminal: "none", "open", "closed"
  done,             \* Session.done
  reader,           \* "none", "reading", "waiting" (for the shell) or "exited"
  closer,           \* Close: "out", "marked", "killed", "waiting" or "returned"
  grace,            \* the goroutine that escalates: "none", "armed" or "fired"
  input,            \* the Input handler: "idle", "writing" or "ended"
  daemon            \* the daemon runs

asked == <<request, answer, argv, cwd>>
world == <<ignores, foreign, reads, evicts, revokes>>
procVars == <<alive, sent, reaped>>
vars == <<asked, world, procVars, master, done, reader, closer, grace, input, daemon>>

Init ==
  /\ request \in Requests /\ answer = none /\ argv = <<>> /\ cwd = <<>>
  /\ ignores \in [Procs -> SUBSET {"TERM", "HUP"}] /\ foreign \in SUBSET Members
  /\ reads \in BOOLEAN /\ evicts \in BOOLEAN /\ revokes \in BOOLEAN
  /\ alive = {} /\ sent = [p \in Procs |-> {}] /\ reaped = FALSE
  /\ master = none /\ done = FALSE /\ reader = none
  /\ closer = "out" /\ grace = none /\ input = "idle" /\ daemon = TRUE

-----------------------------------------------------------------------------
(* Create *)

\* isValidTool
ValidTool(tool) ==
  tool \in Plain /\ IF tool = "shell" THEN ShellEnabled ELSE tool \in Configured

\* resolveUnderHome, for what is not absolute
Resolve(dir) == IF dir.kind = "absolute" THEN dir.path ELSE Home \o dir.path

WorkingDir(r) == IF r.project # none THEN ProjectAt[r.project] ELSE Resolve(r.dir)

Acceptable(r) ==
  /\ ValidTool(r.tool)
  /\ r.project # none => r.project \in DOMAIN ProjectAt
  /\ WorkingDir(r) \in Places

\* buildCommand: what is asked for with arguments goes through positional parameters,
\* the first of which is $0. The quotes that keep "$@" from being split are left out.
Command(r) ==
  LET positional(words) == <<"-l", "-i", "-c", "$@", "_">> \o words
  IN CASE r.tool = "shell" /\ r.args = <<>> -> <<"-l">>
       [] r.tool = "shell" /\ r.args # <<>> -> positional(r.args)
       [] r.tool # "shell" /\ r.args = <<>> -> <<"-l", "-i", "-c", r.tool>>
       [] OTHER -> positional(<<r.tool>> \o r.args)

Refuse ==
  /\ answer = none /\ ~Acceptable(request)
  /\ answer' = "refused"
  /\ UNCHANGED <<request, argv, cwd, world, procVars, master, done, reader, closer, grace,
                 input, daemon>>

\* StartPTY
Start ==
  /\ answer = none /\ Acceptable(request)
  /\ answer' = "ok" /\ argv' = Command(request) /\ cwd' = WorkingDir(request)
  /\ alive' = Procs /\ master' = "open" /\ reader' = "reading"
  /\ UNCHANGED <<request, world, sent, reaped, done, closer, grace, input, daemon>>

-----------------------------------------------------------------------------
(* The processes *)

Signal(procs, sig) ==
  [p \in Procs |-> IF p \in procs \cap alive THEN sent[p] \cup {sig} ELSE sent[p]]

\* When the shell ends the others are told of the hangup.
Ends(p) ==
  /\ alive' = alive \ {p}
  /\ sent' = IF p = Shell THEN Signal(Members, "HUP") ELSE sent
  /\ UNCHANGED <<asked, world, reaped, master, done, reader, closer, grace, input, daemon>>

\* Of its own accord.
Exits(p) == p \in alive /\ Ends(p)

DiesOfSignal(p) == p \in alive /\ sent[p] \ ignores[p] # {} /\ Ends(p)

-----------------------------------------------------------------------------
(* readPTYOutput, at its end: OutputStream has the rest *)

HungUp == alive = {} \/ (revokes /\ Shell \notin alive)

\* What ends a read and a write of the daemon's end.
Unusable == HungUp \/ (master = "closed" /\ evicts)

ReadFails ==
  /\ daemon /\ reader = "reading" /\ Unusable
  /\ reader' = "waiting"
  /\ UNCHANGED <<asked, world, procVars, master, done, closer, grace, input, daemon>>

\* Wait
Reap ==
  /\ daemon /\ reader = "waiting" /\ Shell \notin alive
  /\ reaped' = TRUE /\ done' = TRUE /\ reader' = "exited"
  /\ UNCHANGED <<asked, world, alive, sent, master, closer, grace, input, daemon>>

-----------------------------------------------------------------------------
(* Input *)

\* Write: the session has not ended.
InputStarts ==
  /\ daemon /\ input = "idle" /\ answer = "ok"
  /\ input' = IF done THEN "ended" ELSE "writing"
  /\ UNCHANGED <<asked, world, procVars, master, done, reader, closer, grace, daemon>>

\* A process that does not read lets the terminal fill: the write waits.
InputReturns ==
  /\ daemon /\ input = "writing"
  /\ \/ reads /\ input' = "idle"
     \/ Unusable /\ input' = "ended"
  /\ UNCHANGED <<asked, world, procVars, master, done, reader, closer, grace, daemon>>

-----------------------------------------------------------------------------
(* Close, as the Kill call, the reaper and Stop call it *)

MarkDone ==
  /\ daemon /\ answer = "ok" /\ closer = "out"
  /\ closer' = "marked" /\ done' = TRUE
  /\ UNCHANGED <<asked, world, procVars, master, reader, grace, input, daemon>>

\* The zombie of a shell that nobody waited for is of the group.
GroupGone == alive = {} /\ reaped
CanSignal == (alive \ foreign # {}) \/ (Shell \notin alive /\ ~reaped)

\* Mutation: whoever ignores SIGTERM lives.
KillPolitely ==
  /\ daemon /\ closer = "marked"
  /\ closer' = "killed"
  /\ IF GroupGone \/ ~CanSignal
     THEN UNCHANGED sent
     ELSE sent' = Signal(alive \ foreign, "TERM")
  /\ UNCHANGED <<asked, world, alive, reaped, master, done, reader, grace, input, daemon>>

\* Kill. When not one process may be signalled neither SIGKILL nor the kill of the shell
\* alone does anything.
KillGroup ==
  /\ daemon /\ closer = "marked"
  /\ closer' = "killed"
  /\ IF GroupGone \/ ~CanSignal
     THEN UNCHANGED <<sent, grace>>
     ELSE sent' = Signal(alive \ foreign, "TERM") /\ grace' = "armed"
  /\ UNCHANGED <<asked, world, alive, reaped, master, done, reader, input, daemon>>

\* The file is closed in the kernel, which hangs the terminal up, when nobody uses it.
InUse == ~evicts /\ (reader = "reading" \/ input = "writing")

ClosePTY ==
  /\ daemon /\ closer = "killed"
  /\ closer' = "waiting" /\ master' = "closed"
  /\ sent' = IF InUse THEN sent ELSE Signal(Procs, "HUP")
  /\ UNCHANGED <<asked, world, alive, reaped, done, reader, grace, input, daemon>>

\* The reader has exited, or two seconds have passed.
CloseReturns ==
  /\ daemon /\ closer = "waiting"
  /\ closer' = "returned"
  /\ UNCHANGED <<asked, world, procVars, master, done, reader, grace, input, daemon>>

\* killGracePeriod is over.
Escalate ==
  /\ daemon /\ grace = "armed"
  /\ grace' = "fired" /\ sent' = Signal(alive \ foreign, "KILL")
  /\ UNCHANGED <<asked, world, alive, reaped, master, done, reader, closer, input, daemon>>

\* Stop has closed every session: the daemon exits, and with it what it was to do.
DaemonExits ==
  /\ daemon /\ closer = "returned"
  /\ daemon' = FALSE
  /\ UNCHANGED <<asked, world, procVars, master, done, reader, closer, grace, input>>

-----------------------------------------------------------------------------
Create == Refuse \/ Start
Close == MarkDone \/ KillGroup \/ ClosePTY \/ CloseReturns
Input == InputStarts \/ InputReturns

Next ==
  \/ Create \/ Input \/ Close \/ Escalate \/ DaemonExits \/ ReadFails \/ Reap
  \/ \E p \in Procs : Exits(p) \/ DiesOfSignal(p)

\* Signals arrive; the daemon's goroutines and timers go on.
Fairness ==
  /\ \A p \in Procs : WF_vars(DiesOfSignal(p))
  /\ WF_vars(ReadFails) /\ WF_vars(Reap) /\ WF_vars(InputReturns)
  /\ WF_vars(KillGroup \/ ClosePTY \/ CloseReturns) /\ WF_vars(Escalate)

Spec == Init /\ [][Next]_vars /\ Fairness

-----------------------------------------------------------------------------
TypeOK ==
  /\ request \in Requests /\ answer \in {none, "ok", "refused"}
  /\ ignores \in [Procs -> SUBSET {"TERM", "HUP"}] /\ foreign \subseteq Members
  /\ alive \subseteq Procs /\ sent \in [Procs -> SUBSET {"TERM", "HUP", "KILL"}]
  /\ reads \in BOOLEAN /\ evicts \in BOOLEAN /\ revokes \in BOOLEAN /\ reaped \in BOOLEAN
  /\ master \in {none, "open", "closed"} /\ done \in BOOLEAN /\ daemon \in BOOLEAN
  /\ reader \in {none, "reading", "waiting", "exited"}
  /\ closer \in {"out", "marked", "killed", "waiting", "returned"}
  /\ grace \in {none, "armed", "fired"} /\ input \in {"idle", "writing", "ended"}

\* What the shell makes of its arguments: those after $0, or the text that it is given.
Executed ==
  CASE Len(argv) > 3 /\ argv[4] = "$@" -> SubSeq(argv, 6, Len(argv))
    [] Len(argv) > 3 /\ argv[4] # "$@" ->
         IF argv[4] \in Plain THEN <<argv[4]>> ELSE <<"shell text">>
    [] OTHER -> <<>>

\* A session runs the tool and the arguments it was asked for, none of them as text for
\* the shell, in a directory of its own choice (server.go:488-557, pty.go:87-147).
RunsAsAsked ==
  answer = "ok" =>
    /\ Executed = (IF request.tool = "shell" THEN <<>> ELSE <<request.tool>>) \o request.args
    /\ cwd \in Places
    /\ request.tool = "shell" => ShellEnabled

\* The terminal is held by processes that the daemon cannot end, and closing it does not
\* reach those who use it.
Withheld == ~evicts /\ alive # {} /\ alive \subseteq foreign

\* A closed session leaves no process of its group that could be signalled, whatever
\* those ignore, unless the daemon exits within the grace period (pty.go:287-338). The
\* shell is waited for, and an Input call is not kept waiting by a session that was
\* closed, unless the terminal is withheld from the daemon (pty.go:157-181, 228-239).
KillIsFinal ==
  /\ (closer = "killed") ~> (alive \subseteq foreign \/ ~daemon)
  /\ (closer = "marked") ~> (closer = "returned")
  /\ (closer = "killed") ~> (reaped \/ Withheld \/ ~daemon)
  /\ (closer = "killed" /\ input = "writing") ~> (input # "writing" \/ Withheld \/ ~daemon)

ProcessIsKept == []RunsAsAsked /\ KillIsFinal
=============================================================================
