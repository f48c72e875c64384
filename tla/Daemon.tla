------------------------------- MODULE Daemon -------------------------------
(***************************************************************************)
(* Daemon processes that share one data directory: the pidfile lock        *)
(* (internal/pidfile/pidfile.go), the socket path and the TCP port, and    *)
(* the goroutines that start, serve and stop each of them                  *)
(* (internal/server/lifecycle.go, cmd/hqsshd/main.go).                     *)
(*                                                                         *)
(* Process d is one run of hqsshd, so a restart is another process.  An    *)
(* inode is named by the process that created it.  The TCP port is always  *)
(* configured, and pidfile and socket directory are accessible.            *)
(***************************************************************************)
EXTENDS Naturals, FiniteSets

CONSTANTS
  Daemons,    (* processes that may be started                              *)
  PortHolder, (* who has the TCP port at first: "other" program or "none"   *)
  MaxCrashes  (* bound of the model: processes that may be killed           *)

ASSUME DaemonAssumption ==
  /\ IsFiniteSet(Daemons) /\ Daemons \cap {"none", "other"} = {}
  /\ PortHolder \in {"none", "other"}
  /\ MaxCrashes \in Nat

VARIABLES
  pidPath,   (* inode at the pidfile path, or "none"                        *)
  fd,        (* pidfile inode that each process has opened, or "none"       *)
  locks,     (* processes that hold the flock on their fd                   *)
  sock,      (* socket inode at the socket path, or "none"                  *)
  accepting, (* processes whose unix listener is open                       *)
  info,      (* Server.socketInfo: the inode each process has noted, or     *)
             (* "none"                                                      *)
  blind,     (* history: a stale socket file was removed by one of several  *)
             (* processes that had the lock                                 *)
  port,      (* who has the TCP port bound: a process, "other" or "none"    *)
  pc,        (* program counter of main in each process                     *)
  spc,       (* that of the signal goroutine, which runs Stop               *)
  tpc,       (* that of the goroutine that serves TCP                       *)
  mu,        (* owner of Server.mu in each process, or "none"               *)
  stopping,  (* processes that have closed Server.stopping                  *)
  drained,   (* processes whose gRPC server has been stopped                *)
  crashes    (* processes killed so far                                     *)

fileVars == <<pidPath, fd, locks>>
sockVars == <<sock, accepting, info, blind>>
stopVars == <<stopping, drained>>
vars == <<fileVars, sockVars, port, pc, spc, tpc, mu, stopVars, crashes>>

Init ==
  /\ pidPath = "none" /\ fd = [d \in Daemons |-> "none"] /\ locks = {}
  /\ sock = "none" /\ accepting = {} /\ info = [d \in Daemons |-> "none"] /\ blind = FALSE
  /\ port = PortHolder
  /\ pc = [d \in Daemons |-> "off"]
  /\ spc = [d \in Daemons |-> "none"] /\ tpc = [d \in Daemons |-> "none"]
  /\ mu = [d \in Daemons |-> "none"] /\ stopping = {} /\ drained = {} /\ crashes = 0

Goto(d, to) == pc' = [pc EXCEPT ![d] = to]
GotoStop(d, to) == spc' = [spc EXCEPT ![d] = to]
GotoTCP(d, to) == tpc' = [tpc EXCEPT ![d] = to]

Exits == {"exit0", "exit1", "exit3", "exit4", "killed"}

\* The process is gone: the kernel closes its descriptors.  Paths stay.
Exit(d, code) ==
  /\ Goto(d, code)
  /\ locks' = locks \ {d} /\ accepting' = accepting \ {d}
  /\ port' = IF port = d THEN "none" ELSE port
  /\ spc' = [spc EXCEPT ![d] = "none"] /\ tpc' = [tpc EXCEPT ![d] = "none"]
  /\ mu' = [mu EXCEPT ![d] = "none"]
  /\ UNCHANGED <<pidPath, fd, sock, info, blind, stopVars>>

\* Lock.Release first removes the path, if it still is the locked file.
Unlink(d) == pidPath' = IF pidPath = fd[d] THEN "none" ELSE pidPath

-----------------------------------------------------------------------------
(* main: NewServer *)

\* Acquire opens the pidfile, creating it if there is none ...
Open(d) ==
  /\ pc[d] = "off"
  /\ pidPath' = IF pidPath = "none" THEN d ELSE pidPath
  /\ fd' = [fd EXCEPT ![d] = pidPath'] /\ Goto(d, "opened")
  /\ UNCHANGED <<locks, sockVars, port, spc, tpc, mu, stopVars, crashes>>

\* ... and locks what it has opened, or finds it locked.
Flock(d) ==
  /\ pc[d] = "opened"
  /\ \/ /\ \E e \in locks : fd[e] = fd[d]
        /\ Exit(d, "exit3")
     \/ /\ \A e \in locks : fd[e] # fd[d]
        /\ locks' = locks \cup {d} /\ Goto(d, "locked")
        /\ UNCHANGED <<pidPath, fd, sockVars, port, spc, tpc, mu, stopVars>>
  /\ UNCHANGED crashes

\* prepareSocketPath: nothing there, somebody accepts, or a stale file.
ProbeThen(d, free, stale) ==
  /\ Goto(d, CASE sock = "none" -> free
               [] sock \in accepting -> "release3"
               [] OTHER -> stale)
  /\ UNCHANGED <<fileVars, sockVars, port, spc, tpc, mu, stopVars, crashes>>

\* A stale file is removed by its path, whatever is there by now.
RemoveThen(d, to) ==
  /\ sock' = "none" /\ blind' = (blind \/ locks # {d}) /\ Goto(d, to)
  /\ UNCHANGED <<fileVars, accepting, info, port, spc, tpc, mu, stopVars, crashes>>

Probe(d) == pc[d] = "locked" /\ ProbeThen(d, "loading", "stale")

RemoveStale(d) == pc[d] = "stale" /\ RemoveThen(d, "loading")

\* The stores are loaded, and rewritten; then signals are answered.
LoadStores(d) ==
  /\ pc[d] = "loading"
  /\ Goto(d, "loaded")
  /\ UNCHANGED <<fileVars, sockVars, port, spc, tpc, mu, stopVars, crashes>>

\* A start that fails gives the lock back: the path first, then the descriptor.
GiveUp(d) ==
  /\ \/ /\ pc[d] \in {"release3", "release4"} /\ Unlink(d)
        /\ Goto(d, IF pc[d] = "release3" THEN "leave3" ELSE "leave4")
        /\ UNCHANGED <<fd, locks, sockVars, port, spc, tpc, mu, stopVars>>
     \/ pc[d] = "leave3" /\ Exit(d, "exit3")
     \/ pc[d] = "leave4" /\ Exit(d, "exit4")
  /\ UNCHANGED crashes

-----------------------------------------------------------------------------
(* main: Listen and Serve *)

\* Listen keeps Server.mu to its end, and does not begin after Stop.
LockListen(d) ==
  /\ pc[d] = "loaded" /\ mu[d] = "none"
  /\ \/ d \in stopping /\ Exit(d, "exit0")
     \/ /\ d \notin stopping /\ mu' = [mu EXCEPT ![d] = "main"] /\ Goto(d, "bind")
        /\ UNCHANGED <<fileVars, sockVars, port, spc, tpc, stopVars>>
  /\ UNCHANGED crashes

\* Mutation: a file in the way is replaced.
BindOver(d) ==
  /\ sock' = d /\ Goto(d, "listen")
  /\ UNCHANGED <<fileVars, accepting, info, blind, port, spc, tpc, mu, stopVars, crashes>>

\* bind(2): the path is there, and refuses whoever connects.
BindUnix(d) ==
  /\ sock = "none"
  /\ sock' = d /\ Goto(d, "listen")
  /\ UNCHANGED <<fileVars, accepting, info, blind, port, spc, tpc, mu, stopVars, crashes>>

\* A path in use is probed again, and bound once more if it was stale.
Bind(d) ==
  \/ pc[d] \in {"bind", "rebind"} /\ BindUnix(d)
  \/ /\ pc[d] \in {"bind", "rebind"} /\ sock # "none"
     /\ Goto(d, IF pc[d] = "bind" THEN "reprobe" ELSE "release4")
     /\ UNCHANGED <<fileVars, sockVars, port, spc, tpc, mu, stopVars, crashes>>

Reprobe(d) == pc[d] = "reprobe" /\ ProbeThen(d, "rebind", "restale")

RemoveStaleAgain(d) == pc[d] = "restale" /\ RemoveThen(d, "rebind")

\* listen(2)
ListenUnix(d) ==
  /\ pc[d] = "listen"
  /\ accepting' = accepting \cup {d} /\ Goto(d, "chmod")
  /\ UNCHANGED <<fileVars, sock, info, blind, port, spc, tpc, mu, stopVars, crashes>>

\* By path. When it fails, as where nothing is there, the listener is closed.
Chmod(d) ==
  /\ pc[d] = "chmod"
  /\ \/ sock # "none" /\ Goto(d, "stat") /\ UNCHANGED accepting
     \/ accepting' = accepting \ {d} /\ Goto(d, "unbind")
  /\ UNCHANGED <<fileVars, sock, info, blind, port, spc, tpc, mu, stopVars, crashes>>

\* What is at the path is noted as this process's socket.
Stat(d) ==
  /\ pc[d] = "stat"
  /\ info' = [info EXCEPT ![d] = sock] /\ Goto(d, "tcp")
  /\ UNCHANGED <<fileVars, sock, accepting, blind, port, spc, tpc, mu, stopVars, crashes>>

\* The port is bound, or still in use when the retries end: it is left pending.
BindTCP(d) ==
  /\ pc[d] = "tcp"
  /\ port' = IF port = "none" THEN d ELSE port
  /\ mu' = [mu EXCEPT ![d] = "none"] /\ Goto(d, "ready")
  /\ UNCHANGED <<fileVars, sockVars, spc, tpc, stopVars, crashes>>

\* Any other error on the port is fatal.
BindTCPFails(d) ==
  /\ pc[d] = "tcp"
  /\ accepting' = accepting \ {d} /\ Goto(d, "disown")
  /\ UNCHANGED <<fileVars, sock, info, blind, port, spc, tpc, mu, stopVars, crashes>>

\* Mutation: any socket is taken for the process's own.
OwnsAny(d) == sock # "none"

\* removeSocketIfOwned compares the file at the path with the one noted ...
Owns(d) == info[d] # "none" /\ info[d] = sock

\* ... forgets it when another is there ...
Compared(d) ==
  info' = IF Owns(d) \/ sock = "none" THEN info ELSE [info EXCEPT ![d] = "none"]

\* ... and removes the path.
RemovePath(d) == sock' = "none" /\ info' = [info EXCEPT ![d] = "none"]

Disown(d) ==
  /\ pc[d] = "disown"
  /\ Compared(d) /\ Goto(d, IF Owns(d) THEN "unbind" ELSE "release4")
  /\ UNCHANGED <<fileVars, sock, accepting, blind, port, spc, tpc, mu, stopVars, crashes>>

\* Where chmod has failed nothing is compared.
Unbind(d) ==
  /\ pc[d] = "unbind"
  /\ RemovePath(d) /\ Goto(d, "release4")
  /\ UNCHANGED <<fileVars, accepting, blind, port, spc, tpc, mu, stopVars, crashes>>

\* Serve starts the TCP goroutine under Server.mu; after Stop there is nothing to serve.
Serve(d) ==
  /\ pc[d] = "ready" /\ mu[d] = "none"
  /\ IF d \in stopping
     THEN Goto(d, "join") /\ UNCHANGED tpc
     ELSE Goto(d, "serve") /\ GotoTCP(d, IF port = d THEN "serve" ELSE "retry")
  /\ UNCHANGED <<fileVars, sockVars, port, spc, mu, stopVars, crashes>>

\* grpcServer.Serve on the socket: an error when the server was stopped before it.
ServeUnix(d) ==
  /\ pc[d] = "serve"
  /\ \/ d \in drained /\ Exit(d, "exit1")
     \/ /\ d \notin drained /\ Goto(d, "serving")
        /\ UNCHANGED <<fileVars, sockVars, port, spc, tpc, mu, stopVars>>
  /\ UNCHANGED crashes

\* Serve returns when the server is stopped, and main joins the Stop under way.
ServeReturns(d) ==
  /\ pc[d] = "serving" /\ d \in drained
  /\ Goto(d, "join")
  /\ UNCHANGED <<fileVars, sockVars, port, spc, tpc, mu, stopVars, crashes>>

Join(d) ==
  /\ pc[d] = "join" /\ spc[d] = "stopped"
  /\ Exit(d, "exit0") /\ UNCHANGED crashes

-----------------------------------------------------------------------------
(* The TCP goroutine *)

ServeTCP(d) ==
  /\ tpc[d] = "serve"
  /\ IF d \in drained
     THEN port' = "none" /\ GotoTCP(d, "done")
     ELSE UNCHANGED port /\ GotoTCP(d, "serving")
  /\ UNCHANGED <<fileVars, sockVars, pc, spc, mu, stopVars, crashes>>

TCPReturns(d) ==
  /\ tpc[d] = "serving" /\ d \in drained
  /\ GotoTCP(d, "done")
  /\ UNCHANGED <<fileVars, sockVars, port, pc, spc, mu, stopVars, crashes>>

\* retryTCP: told to stop, or the port has become free.
RetryTCP(d) ==
  /\ tpc[d] = "retry"
  /\ \/ d \in stopping /\ GotoTCP(d, "done") /\ UNCHANGED port
     \/ port = "none" /\ port' = d /\ GotoTCP(d, "bound")
  /\ UNCHANGED <<fileVars, sockVars, pc, spc, mu, stopVars, crashes>>

\* With the port it takes Server.mu, and looks again whether the daemon stops.
AdoptTCP(d) ==
  /\ tpc[d] = "bound" /\ mu[d] = "none"
  /\ IF d \in stopping
     THEN port' = "none" /\ GotoTCP(d, "done")
     ELSE UNCHANGED port /\ GotoTCP(d, "serve")
  /\ UNCHANGED <<fileVars, sockVars, pc, spc, mu, stopVars, crashes>>

-----------------------------------------------------------------------------
(* Stop *)

\* Where Listen has the socket bound, or is about to.
Binding == {"bind", "reprobe", "restale", "rebind", "listen", "chmod", "stat", "tcp"}

Running == Binding \cup {"loaded", "ready", "serve", "serving"}

Signal(d) ==
  /\ pc[d] \in Running /\ spc[d] = "none"
  /\ GotoStop(d, "lock")
  /\ UNCHANGED <<fileVars, sockVars, port, pc, tpc, mu, stopVars, crashes>>

\* Mutation: Stop does not exclude Listen and Serve.
BeginStop(d) ==
  /\ spc[d] = "lock" /\ GotoStop(d, "announce")
  /\ UNCHANGED <<fileVars, sockVars, port, pc, tpc, mu, stopVars, crashes>>

\* Stop keeps Server.mu to its end.
LockStop(d) ==
  /\ spc[d] = "lock" /\ mu[d] = "none"
  /\ mu' = [mu EXCEPT ![d] = "stop"] /\ GotoStop(d, "announce")
  /\ UNCHANGED <<fileVars, sockVars, port, pc, tpc, stopVars, crashes>>

Announce(d) ==
  /\ spc[d] = "announce"
  /\ stopping' = stopping \cup {d} /\ GotoStop(d, "unlink")
  /\ UNCHANGED <<fileVars, sockVars, port, pc, tpc, mu, drained, crashes>>

\* removeSocketIfOwned, at once and again at the end.
Removal == [unlink |-> "remove", again |-> "removeAgain"]

AfterPath(d) == IF spc[d] \in {"unlink", "remove"} THEN "drain" ELSE "release"

ComparePath(d) ==
  /\ spc[d] \in {"unlink", "again"}
  /\ Compared(d) /\ GotoStop(d, IF Owns(d) THEN Removal[spc[d]] ELSE AfterPath(d))
  /\ UNCHANGED <<fileVars, sock, accepting, blind, port, pc, tpc, mu, stopVars, crashes>>

ReleasePath(d) ==
  /\ spc[d] \in {"remove", "removeAgain"}
  /\ RemovePath(d) /\ GotoStop(d, AfterPath(d))
  /\ UNCHANGED <<fileVars, accepting, blind, port, pc, tpc, mu, stopVars, crashes>>

\* Tasks and sessions are closed; then the gRPC server, if there is one, closes the
\* listeners it serves and is gone within its grace period.
Drain(d) ==
  /\ spc[d] = "drain"
  /\ IF pc[d] = "loaded"
     THEN GotoStop(d, "again") /\ UNCHANGED <<accepting, port, drained>>
     ELSE /\ drained' = drained \cup {d} /\ GotoStop(d, "wait")
          /\ accepting' = IF pc[d] = "serving" THEN accepting \ {d} ELSE accepting
          /\ port' = IF tpc[d] = "serving" THEN "none" ELSE port
  /\ UNCHANGED <<fileVars, sock, info, blind, pc, tpc, mu, stopping, crashes>>

WaitTCP(d) ==
  /\ spc[d] = "wait" /\ tpc[d] \in {"none", "done"}
  /\ GotoStop(d, "again")
  /\ UNCHANGED <<fileVars, sockVars, port, pc, tpc, mu, stopVars, crashes>>

\* The pidfile goes, then its lock, then Server.mu.
ReleaseLock(d) ==
  /\ \/ spc[d] = "release" /\ Unlink(d) /\ GotoStop(d, "close") /\ UNCHANGED <<locks, mu>>
     \/ /\ spc[d] = "close" /\ locks' = locks \ {d} /\ GotoStop(d, "stopped")
        /\ mu' = [mu EXCEPT ![d] = "none"] /\ UNCHANGED pidPath
  /\ UNCHANGED <<fd, sockVars, port, pc, tpc, stopVars, crashes>>

-----------------------------------------------------------------------------
(* The specification *)

Crash(d) ==
  /\ crashes < MaxCrashes /\ pc[d] \notin {"off"} \cup Exits
  /\ Exit(d, "killed") /\ crashes' = crashes + 1

\* The other program lets go of the port.
FreePort ==
  /\ port = "other" /\ port' = "none"
  /\ UNCHANGED <<fileVars, sockVars, pc, spc, tpc, mu, stopVars, crashes>>

Main(d) ==
  \/ Flock(d) \/ Probe(d) \/ RemoveStale(d) \/ LoadStores(d) \/ GiveUp(d)
  \/ LockListen(d) \/ Bind(d) \/ Reprobe(d) \/ RemoveStaleAgain(d) \/ ListenUnix(d) \/ Chmod(d)
  \/ Stat(d) \/ BindTCP(d) \/ BindTCPFails(d) \/ Disown(d) \/ Unbind(d)
  \/ Serve(d) \/ ServeUnix(d) \/ ServeReturns(d) \/ Join(d)

TCP(d) == ServeTCP(d) \/ TCPReturns(d) \/ RetryTCP(d) \/ AdoptTCP(d)

Stop(d) ==
  \/ LockStop(d) \/ Announce(d) \/ ComparePath(d) \/ ReleasePath(d) \/ Drain(d) \/ WaitTCP(d)
  \/ ReleaseLock(d)

Next ==
  \/ \E d \in Daemons : Open(d) \/ Main(d) \/ TCP(d) \/ Signal(d) \/ Stop(d) \/ Crash(d)
  \/ FreePort

\* Goroutines that can run do.  Starts, signals, kills and the other program are free.
Fairness == \A d \in Daemons : WF_vars(Main(d)) /\ WF_vars(TCP(d)) /\ WF_vars(Stop(d))

Spec == Init /\ [][Next]_vars /\ Fairness
-----------------------------------------------------------------------------
(* Properties *)

Steps == {"off", "opened", "locked", "stale", "loading", "release3", "release4", "leave3", "leave4",
          "disown", "unbind", "join"} \cup Running \cup Exits

StopSteps == {"announce", "unlink", "remove", "drain", "wait", "again", "removeAgain", "release",
              "close"}

\* Types, and what Server.mu covers: Listen from the bind on, and Stop.
TypeOK ==
  /\ pidPath \in Daemons \cup {"none"} /\ fd \in [Daemons -> Daemons \cup {"none"}]
  /\ sock \in Daemons \cup {"none"} /\ port \in Daemons \cup {"none", "other"}
  /\ locks \subseteq Daemons /\ accepting \subseteq Daemons
  /\ info \in [Daemons -> Daemons \cup {"none"}] /\ blind \in BOOLEAN
  /\ stopping \subseteq Daemons /\ drained \subseteq Daemons
  /\ pc \in [Daemons -> Steps]
  /\ spc \in [Daemons -> {"none", "lock", "stopped"} \cup StopSteps]
  /\ tpc \in [Daemons -> {"none", "serve", "serving", "retry", "bound", "done"}]
  /\ mu \in [Daemons -> {"none", "main", "stop"}]
  /\ \A d \in Daemons :
       /\ pc[d] \in Binding => mu[d] = "main"
       /\ spc[d] \in StopSteps <=> mu[d] = "stop"
  /\ crashes \in 0 .. MaxCrashes

Serving(d) == pc[d] \in {"ready", "serve", "serving"} /\ d \notin stopping

\* The lock can be had twice (OneInstance). Then two may find the same file stale and both
\* remove it, the second time in the place of the first one's new socket. A file is found
\* stale when its process was killed, but also between bind and listen, and between the
\* close of a listener and the removal of its path. Where no such file was removed while
\* another had the lock, the socket stands in for it.
Guarded == ~blind

\* However starts, stops and crashes overlap, there are never two daemons that serve, but
\* where one of two that had the lock has removed a stale file (lifecycle.go:124-127).
OneServes == Guarded => \A d, e \in Daemons : Serving(d) /\ Serving(e) => d = e

\* A daemon that serves is the one that the socket path leads to: nobody removes it, not a
\* predecessor that is still stopping, nor a start that found an older stale file
\* (lifecycle.go:166-170, 410-426).
ServingIsReachable ==
  Guarded => \A d \in Daemons : Serving(d) => sock = d /\ d \in accepting

\* A daemon that has exited by itself leaves no socket file: Stop sees either nothing
\* bound or everything bound (lifecycle.go:140-141, 393-396).
ExitLeavesNoSocket == \A d \in Daemons : pc[d] \in {"exit0", "exit3", "exit4"} => sock # d

\* The socket path leads to the daemon that serves, and to none that has left.
SocketTellsTheTruth == ServingIsReachable /\ ExitLeavesNoSocket

\* Stop returns, whatever it interrupts (lifecycle.go:327-337): "nothing that runs during
\* it needs the lock".
StopReturns == \A d \in Daemons : spc[d] = "lock" ~> spc[d] \in {"none", "stopped"}

\* "a second instance must not touch the live daemon's data" (lifecycle.go:103-104): two
\* processes that have loaded the stores and not yet saved them for the last time.
OneInstance ==
  \A d, e \in {x \in Daemons : pc[x] \in Running /\ spc[x] \notin {"release", "close", "stopped"}} :
    d = e
=============================================================================
