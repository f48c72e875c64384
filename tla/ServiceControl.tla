--------------------------- MODULE ServiceControl ---------------------------
(* hqssh service start, stop and restart on macOS (internal/servicemgr and   *)
(* internal/cli/cmd/service.go): each is a sequence of launchctl commands,   *)
(* and between two of them launchd goes on, the user logs in or out, and     *)
(* another hqssh may be at work. launchd itself is modelled from what the    *)
(* code expects of it.                                                       *)
(*                                                                           *)
(* A lookup prints the job in one domain after the other; here that is one   *)
(* look, of which the answer about one domain may be missing.                *)
EXTENDS Naturals

CONSTANTS
  Commands,   \* hqssh processes
  MaxSpawns,  \* bound: processes that launchd starts
  MaxFaults   \* bound: prints that launchctl fails to answer

\* Where an agent may be: it belongs into "gui", and goes to "user" without a login.
DomainSet == {"gui", "user"}
Intended == "gui"

VARIABLES
  job,      \* of each domain: "none", "idle" (exited cleanly), "due" (to be spawned),
            \* "up", "killing" (kickstart -k) or "leaving" (bootout)
  pid,      \* of each domain: its process, or 0
  gui,      \* someone is logged in at the console
  spawned,  \* processes started so far: the next PID
  faults,   \* prints that have failed
  op,       \* of each command: "none", "start", "stop" or "restart"
  pc,       \* its step; "ok" or "failed" when it has returned
  domain,   \* the domain it talks about
  old,      \* the PID that Restart replaces
  began,    \* ghost: the processes there were when it began, if it is a restart
  left,     \* ghost: those there were when it reported that all is well
  blind,    \* ghost: one of its looks has failed
  doubled   \* ghost: the job has been in two domains at once

launchdVars == <<job, pid, gui, spawned>>
commandVars == <<op, pc, domain, old, began, left, blind>>
vars == <<launchdVars, faults, commandVars, doubled>>

Init ==
  /\ job \in [DomainSet -> {"none", "idle"}]
  /\ \E d \in DomainSet : job[d] = "none"
  /\ gui = (job["gui"] # "none")
  /\ pid = [d \in DomainSet |-> 0]
  /\ spawned = 0 /\ faults = 0 /\ doubled = FALSE
  /\ op = [c \in Commands |-> "none"]
  /\ pc = [c \in Commands |-> "new"]
  /\ domain = [c \in Commands |-> Intended]
  /\ old = [c \in Commands |-> 0]
  /\ began = [c \in Commands |-> {}]
  /\ left = [c \in Commands |-> {}]
  /\ blind = [c \in Commands |-> FALSE]

Processes == {pid[d] : d \in DomainSet} \ {0}
Goto(c, step) == pc' = [pc EXCEPT ![c] = step]

-----------------------------------------------------------------------------
(* LaunchdStatus *)

\* What a look returns: the first domain that shows the job, else the intended one.
Status(hidden) ==
  LET shown == {d \in DomainSet \ hidden : job[d] # "none"}
      first == IF Intended \in shown THEN Intended ELSE "user"
  IN IF shown = {}
     THEN [loaded |-> FALSE, domain |-> Intended, pid |-> 0, err |-> Intended \in hidden]
     ELSE [loaded |-> TRUE, domain |-> first, pid |-> pid[first], err |-> FALSE]

\* The domains a look may get no answer about.
Hidden == {{}} \cup (IF faults < MaxFaults THEN {{d} : d \in DomainSet} ELSE {})

\* A look by c, of which st is the result.
Look(c, hidden) ==
  /\ faults' = IF hidden = {} THEN faults ELSE faults + 1
  /\ blind' = [blind EXCEPT ![c] = @ \/ hidden # {}]

-----------------------------------------------------------------------------
(* Start, Stop, Restart *)

Begin(c, what) ==
  /\ pc[c] = "new"
  /\ op' = [op EXCEPT ![c] = what]
  /\ began' = [began EXCEPT ![c] = IF what = "restart" THEN Processes ELSE {}]
  /\ Goto(c, what)
  /\ UNCHANGED <<launchdVars, faults, domain, old, left, blind, doubled>>

\* Start's first look, its own or the one that Restart leads to.
LookToStart(c) ==
  /\ pc[c] = "start"
  /\ \E hidden \in Hidden :
       LET st == Status(hidden) IN
       /\ Look(c, hidden)
       /\ domain' = [domain EXCEPT ![c] = st.domain]
       /\ Goto(c, IF ~st.loaded THEN "bootstrap" ELSE IF st.pid = 0 THEN "kick" ELSE "wait")
  /\ UNCHANGED <<launchdVars, op, old, began, left, doubled>>

LookToStop(c) ==
  /\ pc[c] = "stop"
  /\ \E hidden \in Hidden :
       LET st == Status(hidden) IN
       /\ Look(c, hidden)
       /\ domain' = [domain EXCEPT ![c] = st.domain]
       /\ Goto(c, IF st.err THEN "failed" ELSE IF st.loaded THEN "bootout" ELSE "ok")
  /\ left' = [left EXCEPT ![c] = IF pc'[c] = "ok" /\ op[c] # "start" THEN Processes ELSE {}]
  /\ UNCHANGED <<launchdVars, op, old, began, doubled>>

LookToRestart(c) ==
  /\ pc[c] = "restart"
  /\ \E hidden \in Hidden :
       LET st == Status(hidden) IN
       /\ Look(c, hidden)
       /\ domain' = [domain EXCEPT ![c] = st.domain]
       /\ old' = [old EXCEPT ![c] = st.pid]
       /\ Goto(c, IF st.loaded THEN "replace" ELSE "start")
  /\ UNCHANGED <<launchdVars, op, began, left, doubled>>

\* bootstrap: 125 without the domain, 37 while a bootout goes on, 5 if it is loaded.
Bootstrap(c) ==
  /\ pc[c] = "bootstrap"
  /\ LET d == domain[c]
         alone == \A e \in DomainSet \ {d} : job[e] = "none"
     IN
     CASE d = "gui" /\ ~gui ->
            /\ domain' = [domain EXCEPT ![c] = "user"]
            /\ UNCHANGED <<job, pc, faults, blind, doubled>>
       [] ~(d = "gui" /\ ~gui) /\ job[d] = "leaving" ->
            /\ Goto(c, "bootstrap") \/ Goto(c, "failed")
            /\ UNCHANGED <<job, domain, faults, blind, doubled>>
       [] ~(d = "gui" /\ ~gui) /\ job[d] \notin {"none", "leaving"} ->
            /\ \E hidden \in Hidden :
                 Look(c, hidden) /\ Goto(c, IF d \in hidden THEN "failed" ELSE "started")
            /\ UNCHANGED <<job, domain, doubled>>
       [] OTHER ->
            /\ job' = [job EXCEPT ![d] = "due"] /\ Goto(c, "started")
            /\ doubled' = (doubled \/ ~alone)
            /\ UNCHANGED <<domain, faults, blind>>
  /\ UNCHANGED <<pid, gui, spawned, op, old, began, left>>

\* RunAtLoad has normally spawned it already. The domain stays the one just used.
LookAfterBootstrap(c) ==
  /\ pc[c] = "started"
  /\ \E hidden \in Hidden :
       Look(c, hidden) /\ Goto(c, IF Status(hidden).pid = 0 THEN "kick" ELSE "wait")
  /\ UNCHANGED <<launchdVars, op, domain, old, began, left, doubled>>

\* launchctl kickstart, for a job that is loaded and has no process.
Kickstart(c) ==
  /\ pc[c] = "kick"
  /\ LET d == domain[c] IN
     /\ Goto(c, IF job[d] \in {"none", "leaving"} THEN "failed" ELSE "wait")
     /\ job' = [job EXCEPT ![d] = IF @ = "idle" THEN "due" ELSE @]
  /\ UNCHANGED <<pid, gui, spawned, faults, op, domain, old, began, left, blind, doubled>>

\* launchctl kickstart -k: the process is told to end, and another follows.
KickstartKill(c) ==
  /\ pc[c] = "replace"
  /\ LET d == domain[c] IN
     /\ Goto(c, IF job[d] \in {"none", "leaving"} THEN "failed" ELSE "wait")
     /\ job' = [job EXCEPT ![d] =
          CASE @ = "up" -> "killing" [] @ = "idle" -> "due" [] OTHER -> @]
  /\ UNCHANGED <<pid, gui, spawned, faults, op, domain, old, began, left, blind, doubled>>

\* launchctl bootout: the job goes when its process has.
Bootout(c) ==
  /\ pc[c] = "bootout"
  /\ LET d == domain[c] IN
     /\ Goto(c, IF job[d] \in {"none", "leaving"} THEN "failed" ELSE "wait")
     /\ job' = [job EXCEPT ![d] = IF @ = "none" THEN @ ELSE "leaving"]
  /\ UNCHANGED <<pid, gui, spawned, faults, op, domain, old, began, left, blind, doubled>>

\* Mutation: any process will do after a restart.
WaitedForAny(c, st) == IF op[c] = "stop" THEN ~st.loaded \/ st.pid = 0 ELSE st.pid > 0

\* What the command waits for; old is 0 but in a Restart that replaces.
WaitedFor(c, st) ==
  IF op[c] = "stop" THEN ~st.loaded \/ st.pid = 0
  ELSE st.pid > 0 /\ st.pid # old[c]

\* One look of wait, which asks all domains again; or the time is up.
Wait(c) ==
  /\ pc[c] = "wait"
  /\ \/ /\ \E hidden \in Hidden :
             Look(c, hidden) /\ WaitedFor(c, Status(hidden))
        /\ Goto(c, "ok")
     \/ Goto(c, "failed") /\ UNCHANGED <<faults, blind>>
  /\ left' = [left EXCEPT ![c] = IF pc'[c] = "ok" /\ op[c] # "start" THEN Processes ELSE {}]
  /\ UNCHANGED <<launchdVars, op, domain, old, began, doubled>>

-----------------------------------------------------------------------------
(* launchd and the user *)

\* Steps of launchd with the job in d, from one state to another.
Launchd(d, from, to) ==
  /\ job[d] = from /\ job' = [job EXCEPT ![d] = to]
  /\ UNCHANGED <<gui, faults, commandVars, doubled>>

Spawn(d) ==
  /\ spawned < MaxSpawns
  /\ Launchd(d, "due", "up")
  /\ spawned' = spawned + 1 /\ pid' = [pid EXCEPT ![d] = spawned + 1]

\* KeepAlive starts the daemon again unless it exits with success.
Crash(d) == Launchd(d, "up", "due") /\ pid' = [pid EXCEPT ![d] = 0] /\ UNCHANGED spawned
ExitCleanly(d) == Launchd(d, "up", "idle") /\ pid' = [pid EXCEPT ![d] = 0] /\ UNCHANGED spawned
Killed(d) == Launchd(d, "killing", "due") /\ pid' = [pid EXCEPT ![d] = 0] /\ UNCHANGED spawned
Unloaded(d) == Launchd(d, "leaving", "none") /\ pid' = [pid EXCEPT ![d] = 0] /\ UNCHANGED spawned

\* A login loads the agent, whether or not it is in the other domain already.
Login ==
  /\ ~gui /\ gui' = TRUE
  /\ job' = [job EXCEPT !["gui"] = "due"]
  /\ doubled' = (doubled \/ job["user"] # "none")
  /\ UNCHANGED <<pid, spawned, faults, commandVars>>

Logout ==
  /\ gui /\ gui' = FALSE
  /\ job' = [job EXCEPT !["gui"] = "none"] /\ pid' = [pid EXCEPT !["gui"] = 0]
  /\ UNCHANGED <<spawned, faults, commandVars, doubled>>

-----------------------------------------------------------------------------
Command(c) ==
  \/ \E what \in {"start", "stop", "restart"} : Begin(c, what)
  \/ LookToStart(c) \/ LookToStop(c) \/ LookToRestart(c)
  \/ Bootstrap(c) \/ LookAfterBootstrap(c) \/ Kickstart(c) \/ KickstartKill(c)
  \/ Bootout(c) \/ Wait(c)

Next ==
  \/ \E c \in Commands : Command(c)
  \/ \E d \in DomainSet : Spawn(d) \/ Crash(d) \/ ExitCleanly(d) \/ Killed(d) \/ Unloaded(d)
  \/ Login \/ Logout

Spec == Init /\ [][Next]_vars

-----------------------------------------------------------------------------
TypeOK ==
  /\ job \in [DomainSet -> {"none", "idle", "due", "up", "killing", "leaving"}]
  /\ pid \in [DomainSet -> 0..MaxSpawns]
  /\ \A d \in DomainSet : job[d] \in {"none", "idle", "due"} => pid[d] = 0
  /\ gui \in BOOLEAN /\ doubled \in BOOLEAN
  /\ spawned \in 0..MaxSpawns /\ faults \in 0..MaxFaults
  /\ op \in [Commands -> {"none", "start", "stop", "restart"}]
  /\ pc \in [Commands -> {"new", "start", "stop", "restart", "bootstrap", "started", "kick",
                          "replace", "bootout", "wait", "ok", "failed"}]
  /\ domain \in [Commands -> DomainSet]
  /\ old \in [Commands -> 0..MaxSpawns]
  /\ began \in [Commands -> SUBSET (1..MaxSpawns)]
  /\ left \in [Commands -> SUBSET (1..MaxSpawns)]
  /\ blind \in [Commands -> BOOLEAN]

\* A stop that says it has stopped left no process of the service, and a restart
\* that says it has restarted left none of those there were before, whatever the
\* domain, whoever else was at work and however often the daemon crashed in
\* between; provided launchctl answered (Stop and Restart take a print that fails
\* for a job that is not loaded, ops.go:135, 192, 325) and the job was in one
\* domain (ops.go:161-211, launchd.go:179-203).
ReportsAreTrue ==
  \A c \in Commands :
    (pc[c] = "ok" /\ ~blind[c] /\ ~doubled) =>
      /\ op[c] = "stop" => left[c] = {}
      /\ op[c] = "restart" => left[c] \cap began[c] = {}
=============================================================================
