------------------------------- MODULE Doctor -------------------------------
(* hqssh doctor (internal/doctor): fourteen checks, one after the other, of  *)
(* an installation that does not hold still. What one check saw is used by   *)
(* later ones; daemons start and end in between. A check comes to a set of   *)
(* verdicts; texts and hints are left out but for the pid to kill.           *)
(*                                                                           *)
(* The daemon and its service are seen from outside: ours holds the pidfile  *)
(* and the socket, another user's, or another program, may hold the port.    *)
EXTENDS Naturals

CONSTANTS
  MaxPid,    \* bound: the pids of the daemons that ours may be, in turn
  MaxEvents  \* bound: what happens to the daemons during a run

Nobody == 0
Other == MaxPid + 1    \* another user's daemon
Foreign == MaxPid + 2  \* a program that is no daemon
Pids == 1..MaxPid

Good ==
  [binary |-> "same", onPath |-> TRUE, service |-> "launchd", twice |-> FALSE,
   mute |-> FALSE, domain |-> TRUE, patience |-> TRUE, config |-> "valid",
   private |-> TRUE, fits |-> TRUE, tcp |-> TRUE, token |-> "same", pids |-> TRUE,
   log |-> TRUE, data |-> "ok", tools |-> TRUE, signature |-> "ours"]

\* At most one thing is wrong with it, besides the daemon.
Machines ==
  {Good}
  \cup {[Good EXCEPT !.binary = b] : b \in {"missing", "broken", "differs"}}
  \cup {[Good EXCEPT !.service = s] : s \in {"none", "systemd"}}
  \cup {[Good EXCEPT !.config = c] : c \in {"unreadable", "invalid"}}
  \cup {[Good EXCEPT !.data = d] : d \in {"absent", "file", "readonly", "temps"}}
  \cup {[Good EXCEPT !.signature = s] : s \in {"none", "linker"}}
  \cup {[Good EXCEPT !.token = "differs"], [Good EXCEPT !.pids = FALSE],
        [Good EXCEPT !.onPath = FALSE], [Good EXCEPT !.twice = TRUE],
        [Good EXCEPT !.mute = TRUE], [Good EXCEPT !.domain = FALSE],
        [Good EXCEPT !.patience = FALSE], [Good EXCEPT !.private = FALSE],
        [Good EXCEPT !.fits = FALSE], [Good EXCEPT !.tcp = FALSE],
        [Good EXCEPT !.log = FALSE], [Good EXCEPT !.tools = FALSE]}

VARIABLES
  machine,  \* one of Machines: what stays as it is
  ours,     \* the pid of our daemon, which serves the socket
  managed,  \* the service started it
  loaded,   \* the service is loaded
  left,     \* a daemon that crashed left its socket and pidfile
  port,     \* who serves the TCP port
  born,     \* pids used
  events,
  ended,    \* a daemon has ended since the doctor began
  both,     \* the daemons that served socket and port at once since then
  step,     \* the check that comes next
  seen,     \* env: what checks found that others use
  report,   \* the verdicts that were come to
  kill      \* the pid that the report says to kill

world == <<ours, managed, loaded, left, port, born, events, ended, both>>
vars == <<machine, world, step, seen, report, kill>>

Checks ==
  <<"binaries", "path", "service", "pidfile", "socket", "tcp", "boot", "consistency",
    "config", "log", "data-dir", "lsof", "codesign", "tools", "end">>
Ended == step = 15

NoAnswer == [answered |-> FALSE, pid |-> Nobody]
Answer(p) == [answered |-> TRUE, pid |-> IF machine.pids THEN p ELSE Nobody]
OnBoth(p, q) == IF p # Nobody /\ p = q THEN {p} ELSE {}

Init ==
  /\ machine \in Machines
  /\ ours \in {Nobody, 1} /\ managed \in BOOLEAN /\ loaded \in BOOLEAN
  /\ managed => ours # Nobody /\ loaded /\ machine.service # "none"
  /\ loaded => machine.service # "none"
  /\ left \in BOOLEAN /\ (ours # Nobody => left)
  /\ port \in {Nobody, ours, Other, Foreign}
  /\ born = 1 /\ events = 0 /\ ended = FALSE /\ both = OnBoth(ours, port)
  /\ step = 1
  /\ seen = [service |-> "none", servicePid |-> Nobody, locked |-> FALSE,
             lockPid |-> Nobody, socket |-> NoAnswer, tcp |-> NoAnswer]
  /\ report = {} /\ kill = Nobody

-----------------------------------------------------------------------------
(* The checks *)

\* Run: the next check, which comes to verdicts.
Verdict(check, verdicts) ==
  /\ Checks[step] = check
  /\ step' = step + 1
  /\ report' = report \cup verdicts
  /\ UNCHANGED <<machine, world>>

Only(verdict, condition) == IF condition THEN {verdict} ELSE {}

Darwin == machine.service # "systemd"
Configured == machine.config # "unreadable"

\* The binary on the PATH, or next to hqssh, and its version.
CheckBinaries ==
  /\ Verdict("binaries",
       {CASE machine.binary \in {"missing", "broken"} -> "fail"
          [] machine.binary = "differs" -> "warn"
          [] OTHER -> "pass"})
  /\ UNCHANGED <<seen, kill>>

CheckPath ==
  /\ Verdict("path", {IF machine.binary = "missing" THEN "skip"
                     ELSE IF machine.onPath THEN "pass" ELSE "warn"})
  /\ UNCHANGED <<seen, kill>>

\* launchd: the exit timeout and the GUI domain. systemd: lingering is one of them.
CheckServicePlatform ==
  Only("warn", loaded /\ ~machine.patience) \cup Only("warn", ~machine.domain)

ServiceState ==
  IF machine.service = "none" THEN "none"
  ELSE IF machine.mute THEN "unknown"
  ELSE IF ~loaded THEN "unloaded"
  ELSE IF managed THEN "running" ELSE "stopped"

\* Two definitions, or two binaries, are a warning. So is a service manager that cannot
\* be asked: its service is not down.
CheckService ==
  /\ Verdict("service",
       CASE ServiceState = "none" -> {"warn"}
         [] ServiceState = "unknown" -> {"warn"}
         [] OTHER -> Only("warn", machine.twice)
                     \cup {IF ServiceState = "running" THEN "pass" ELSE "fail"}
                     \cup CheckServicePlatform)
  /\ seen' = [seen EXCEPT !.service = ServiceState,
                          !.servicePid = IF ServiceState = "running" THEN ours ELSE Nobody]
  /\ UNCHANGED kill

\* pidfile.Check: alive while its lock is held.
CheckPidfile ==
  /\ Verdict("pidfile", {IF ours # Nobody THEN "pass" ELSE IF left THEN "warn" ELSE "skip"})
  /\ seen' = [seen EXCEPT !.locked = ours # Nobody, !.lockPid = ours]
  /\ UNCHANGED kill

\* The daemon answers a client with its token: daemon.yaml's, "" when it does not parse.
Answers == machine.token = "same"

CheckSocket ==
  LET answered == ours # Nobody /\ Answers
  IN /\ Verdict("socket", {IF answered THEN "pass" ELSE "fail"})
     /\ seen' = [seen EXCEPT !.socket = IF answered THEN Answer(ours) ELSE NoAnswer]
     /\ UNCHANGED kill

\* Another user's daemon may have no token.
CheckTCP ==
  LET answered == machine.tcp /\ port \notin {Nobody, Foreign} /\ (port = ours => Answers)
  IN /\ Verdict("tcp", {IF ~machine.tcp THEN "warn" ELSE IF answered THEN "pass" ELSE "fail"})
     /\ seen' = [seen EXCEPT !.tcp = IF answered THEN Answer(port) ELSE NoAnswer]
     /\ UNCHANGED kill

\* Only for a user agent that launchd has spawned once since a boot: what the clocks
\* then say is left open.
CheckBootDelay ==
  /\ \E verdicts \in {{}, {"pass"}, {"warn"}} :
       /\ verdicts = {} \/ (machine.service = "launchd" /\ seen.socket.answered
                            /\ seen.service \in {"running", "stopped"})
       /\ Verdict("boot", verdicts)
  /\ UNCHANGED <<seen, kill>>

\* Mutation: daemons are told apart by their uptime alone.
TwoDaemonsByUptime(apart) == apart

\* Two pids, or uptimes far apart if a daemon tells no pid.
TwoDaemons(apart) ==
  IF seen.socket.pid # Nobody /\ seen.tcp.pid # Nobody
  THEN seen.socket.pid # seen.tcp.pid ELSE apart

Outsider ==
  /\ seen.service = "running" /\ seen.socket.pid # Nobody
  /\ seen.servicePid # seen.socket.pid
WrongPidfile ==
  seen.locked /\ seen.socket.pid # Nobody /\ seen.lockPid # seen.socket.pid

CheckConsistency ==
  /\ \E apart \in BOOLEAN :
       IF ~(seen.socket.answered /\ seen.tcp.answered)
       THEN Verdict("consistency", {"skip"}) /\ UNCHANGED kill
       ELSE IF TwoDaemons(apart)
       THEN Verdict("consistency", {"fail"}) /\ kill' = seen.tcp.pid
       ELSE IF Outsider
       THEN Verdict("consistency", {"warn"}) /\ kill' = seen.socket.pid
       ELSE /\ Verdict("consistency", {IF WrongPidfile THEN "warn" ELSE "pass"})
            /\ UNCHANGED kill
  /\ UNCHANGED seen

\* loadConfig reads it once: the first check that asks decides for all.
CheckConfig ==
  /\ Verdict("config",
       IF machine.config # "valid" THEN {"fail"}
       ELSE {"pass"} \cup Only("warn", ~machine.private) \cup Only("fail", ~machine.fits))
  /\ UNCHANGED <<seen, kill>>

CheckLog ==
  /\ Verdict("log", {IF machine.service = "systemd" \/ machine.log THEN "pass" ELSE "warn"})
  /\ UNCHANGED <<seen, kill>>

CheckDataDir ==
  /\ Verdict("data-dir", {CASE machine.data \in {"file", "readonly"} -> "fail"
                            [] machine.data \in {"absent", "temps"} -> "warn"
                            [] OTHER -> "pass"})
  /\ UNCHANGED <<seen, kill>>

CheckLsof ==
  /\ Verdict("lsof", Only("pass", Darwin))
  /\ UNCHANGED <<seen, kill>>

CheckCodesign ==
  /\ Verdict("codesign",
       IF ~Darwin \/ machine.binary = "missing" THEN {}
       ELSE {IF machine.signature = "ours" THEN "pass" ELSE "warn"})
  /\ UNCHANGED <<seen, kill>>

\* The daemon's own list if it answered, else what this shell finds.
CheckTools ==
  /\ Verdict("tools", {IF ~Configured THEN "skip"
                      ELSE IF machine.tools THEN "pass" ELSE "warn"})
  /\ UNCHANGED <<seen, kill>>

Failed == "fail" \in report

-----------------------------------------------------------------------------
(* The daemons meanwhile *)

\* No check after the consistency check looks at them.
Happens ==
  /\ events < MaxEvents /\ step <= 8
  /\ events' = events + 1
  /\ UNCHANGED <<machine, step, seen, report, kill>>

\* A daemon that finds the port taken serves the socket and tries on.
DaemonStarts ==
  /\ Happens
  /\ ours = Nobody /\ born < MaxPid
  /\ born' = born + 1 /\ ours' = born + 1 /\ left' = TRUE
  /\ managed' \in BOOLEAN /\ (managed' => loaded)
  /\ port' = IF port = Nobody /\ machine.tcp THEN ours' ELSE port
  /\ both' = both \cup OnBoth(ours', port')
  /\ UNCHANGED <<loaded, ended>>

DaemonEnds ==
  /\ Happens
  /\ ours # Nobody
  /\ ours' = Nobody /\ managed' = FALSE /\ ended' = TRUE
  /\ left' \in BOOLEAN
  /\ loaded' \in {loaded, FALSE}
  /\ port' = IF port = ours THEN Nobody ELSE port
  /\ UNCHANGED <<born, both>>

RetryTCP ==
  /\ Happens
  /\ ours # Nobody /\ port = Nobody /\ machine.tcp
  /\ port' = ours /\ both' = both \cup {ours}
  /\ UNCHANGED <<ours, managed, loaded, left, born, ended>>

PortChangesHands ==
  /\ Happens
  /\ port # ours \/ port = Nobody
  /\ port' \in {Nobody, Other, Foreign} \ {port}
  /\ ended' = (ended \/ port = Other)
  /\ UNCHANGED <<ours, managed, loaded, left, born, both>>

-----------------------------------------------------------------------------
Check ==
  \/ CheckBinaries \/ CheckPath \/ CheckService \/ CheckPidfile \/ CheckSocket
  \/ CheckTCP \/ CheckBootDelay \/ CheckConsistency \/ CheckConfig \/ CheckLog
  \/ CheckDataDir \/ CheckLsof \/ CheckCodesign \/ CheckTools

Next ==
  \/ Check
  \/ DaemonStarts \/ DaemonEnds \/ RetryTCP \/ PortChangesHands

Spec == Init /\ [][Next]_vars

-----------------------------------------------------------------------------
TypeOK ==
  /\ machine \in Machines
  /\ ours \in Pids \cup {Nobody} /\ managed \in BOOLEAN /\ loaded \in BOOLEAN
  /\ left \in BOOLEAN /\ port \in 0..Foreign /\ born \in Pids
  /\ events \in 0..MaxEvents /\ ended \in BOOLEAN /\ both \subseteq Pids
  /\ step \in 1..15 /\ kill \in 0..Other
  /\ seen.servicePid \in 0..MaxPid /\ seen.lockPid \in 0..MaxPid
  /\ report \subseteq {"pass", "warn", "fail", "skip"}

\* Nothing failed: one daemon has served both transports at once while the doctor
\* looked, although no check looked at both (checks.go:297-359, 450-490). A port that
\* is switched off, and daemons that tell no pid, are excepted.
HealthyIsServed == Ended /\ ~Failed /\ machine.tcp /\ machine.pids => both # {}

\* A pid that the report says to kill is a daemon next to ours, as long as none has
\* ended since the doctor began (checks.go:468-479).
KillsTheOther == kill # Nobody /\ ~ended => kill # ours /\ ours # Nobody

ReportIsTrue == HealthyIsServed /\ KillsTheOther
=============================================================================
