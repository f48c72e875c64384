---------------------------- MODULE DaemonProofs ----------------------------
(***************************************************************************)
(* Safety of Daemon for any number of processes and of kills.              *)
(***************************************************************************)
EXTENDS Daemon, TLAPS

\* Where Stop has released the socket path, and where it has not come to it.
PathReleased == {"drain", "wait", "again", "removeAgain", "release", "close", "stopped"}
PathHeld == {"none", "lock", "announce", "unlink", "remove"}

\* Where the socket has been noted, where it listens, where it is bound, and where a start
\* gives up.
Noted == {"tcp", "ready", "serve", "serving"}
Listening == {"chmod", "stat"} \cup Noted
Bound == {"listen", "disown", "unbind"} \cup Listening
GivingUp == {"disown", "unbind", "release3", "release4", "leave3", "leave4"}

\* How far Stop has come fits where main is.
StopFitsMain ==
  \A d \in Daemons :
    /\ pc[d] \in {"off", "opened", "locked", "stale", "loading"} \cup Exits =>
         spc[d] = "none" /\ (pc[d] \notin Exits => d \notin stopping)
    /\ pc[d] \in GivingUp => spc[d] = "none" \/ (spc[d] = "lock" /\ mu[d] = "main")
    /\ spc[d] \in {"unlink", "remove"} \cup PathReleased => d \in stopping
    /\ d \in stopping /\ pc[d] \notin Exits => spc[d] \in {"unlink", "remove"} \cup PathReleased
    /\ d \in drained /\ pc[d] \notin Exits => spc[d] \in PathReleased \ {"drain"}
    /\ pc[d] \in Binding => d \notin stopping

\* A process past its flock has the lock, until Stop or its end gives it back.
LockHeld ==
  \A d \in Daemons :
    pc[d] \in {"locked", "stale", "loading"} \cup GivingUp \cup Running /\ spc[d] # "stopped" =>
      d \in locks

\* The socket file is one its process has bound and not removed, and noted as its own.
SocketHeld ==
  \A d \in Daemons : sock = d =>
    /\ pc[d] = "killed" \/ (pc[d] \in Bound /\ spc[d] \in PathHeld)
    /\ pc[d] \in {"disown"} \cup Noted => info[d] = d

\* Nobody removes the socket of a process that has bound it and not begun to leave.
BoundIsReachable ==
  Guarded => \A d \in Daemons :
    /\ pc[d] \in Bound /\ spc[d] \in PathHeld => sock = d
    /\ pc[d] \in Listening /\ spc[d] \in PathHeld => d \in accepting
    /\ info[d] \in {"none", d}
    /\ spc[d] = "remove" => sock = d
    /\ spc[d] # "removeAgain"

SocketInv == StopFitsMain /\ LockHeld /\ SocketHeld /\ BoundIsReachable

\* Types are kept.
LEMMA TypeStep == TypeOK /\ [Next]_vars => TypeOK'
<1> SUFFICES ASSUME TypeOK, [Next]_vars PROVE TypeOK'
  OBVIOUS
<1> USE DaemonAssumption
    DEF TypeOK, Steps, StopSteps, Goto, GotoStop, Exits, Running, Binding
<1>1. ASSUME NEW d \in Daemons, Open(d) PROVE TypeOK'
  BY <1>1 DEF Open, sockVars, stopVars
<1>2. ASSUME NEW d \in Daemons, Flock(d) PROVE TypeOK'
  BY <1>2 DEF Flock, Exit, sockVars, stopVars
<1>3. ASSUME NEW d \in Daemons, Probe(d) \/ Reprobe(d) PROVE TypeOK'
  BY <1>3 DEF Probe, Reprobe, ProbeThen, fileVars, sockVars, stopVars
<1>4. ASSUME NEW d \in Daemons, RemoveStale(d) \/ RemoveStaleAgain(d) PROVE TypeOK'
  <2>1. blind' \in BOOLEAN
    <3>1. blind' = (blind \/ locks # {d})
      BY <1>4 DEF RemoveStale, RemoveStaleAgain, RemoveThen
    <3> QED BY <3>1, Zenon
  <2> QED BY <1>4, <2>1 DEF RemoveStale, RemoveStaleAgain, RemoveThen, fileVars, stopVars
<1>5. ASSUME NEW d \in Daemons, LoadStores(d) PROVE TypeOK'
  BY <1>5 DEF LoadStores, fileVars, sockVars, stopVars
<1>6. ASSUME NEW d \in Daemons, GiveUp(d) PROVE TypeOK'
  BY <1>6 DEF GiveUp, Unlink, Exit, sockVars, stopVars
<1>7. ASSUME NEW d \in Daemons, LockListen(d) PROVE TypeOK'
  BY <1>7 DEF LockListen, Exit, fileVars, sockVars, stopVars
<1>8. ASSUME NEW d \in Daemons, Bind(d) PROVE TypeOK'
  BY <1>8 DEF Bind, BindUnix, fileVars, sockVars, stopVars
<1>9. ASSUME NEW d \in Daemons, ListenUnix(d) PROVE TypeOK'
  BY <1>9 DEF ListenUnix, fileVars, stopVars
<1>10. ASSUME NEW d \in Daemons, Chmod(d) PROVE TypeOK'
  BY <1>10 DEF Chmod, fileVars, stopVars
<1>11. ASSUME NEW d \in Daemons, Stat(d) PROVE TypeOK'
  BY <1>11 DEF Stat, fileVars, stopVars
<1>12. ASSUME NEW d \in Daemons, BindTCP(d) PROVE TypeOK'
  BY <1>12 DEF BindTCP, fileVars, sockVars, stopVars
<1>13. ASSUME NEW d \in Daemons, BindTCPFails(d) PROVE TypeOK'
  BY <1>13 DEF BindTCPFails, fileVars, stopVars
<1>14. ASSUME NEW d \in Daemons, Disown(d) PROVE TypeOK'
  BY <1>14 DEF Disown, Compared, Owns, fileVars, stopVars
<1>15. ASSUME NEW d \in Daemons, Unbind(d) PROVE TypeOK'
  BY <1>15 DEF Unbind, RemovePath, fileVars, stopVars
<1>16. ASSUME NEW d \in Daemons, Serve(d) PROVE TypeOK'
  BY <1>16 DEF Serve, GotoTCP, fileVars, sockVars, stopVars
<1>17. ASSUME NEW d \in Daemons, ServeUnix(d) \/ ServeReturns(d) \/ Join(d) PROVE TypeOK'
  BY <1>17 DEF ServeUnix, ServeReturns, Join, Exit, fileVars, sockVars, stopVars
<1>18. ASSUME NEW d \in Daemons, TCP(d) PROVE TypeOK'
  BY <1>18 DEF TCP, ServeTCP, TCPReturns, RetryTCP, AdoptTCP, GotoTCP, fileVars, sockVars, stopVars
<1>19. ASSUME NEW d \in Daemons, Signal(d) PROVE TypeOK'
  BY <1>19 DEF Signal, fileVars, sockVars, stopVars
<1>20. ASSUME NEW d \in Daemons, LockStop(d) PROVE TypeOK'
  BY <1>20 DEF LockStop, fileVars, sockVars, stopVars
<1>21. ASSUME NEW d \in Daemons, Announce(d) PROVE TypeOK'
  BY <1>21 DEF Announce, fileVars, sockVars
<1>22. ASSUME NEW d \in Daemons, ComparePath(d) PROVE TypeOK'
  BY <1>22 DEF ComparePath, Compared, Owns, AfterPath, Removal, fileVars, stopVars
<1>23. ASSUME NEW d \in Daemons, ReleasePath(d) PROVE TypeOK'
  BY <1>23 DEF ReleasePath, RemovePath, AfterPath, fileVars, stopVars
<1>24. ASSUME NEW d \in Daemons, Drain(d) PROVE TypeOK'
  BY <1>24 DEF Drain, fileVars
<1>25. ASSUME NEW d \in Daemons, WaitTCP(d) PROVE TypeOK'
  BY <1>25 DEF WaitTCP, fileVars, sockVars, stopVars
<1>26. ASSUME NEW d \in Daemons, ReleaseLock(d) PROVE TypeOK'
  BY <1>26 DEF ReleaseLock, Unlink, sockVars, stopVars
<1>27. ASSUME NEW d \in Daemons, Crash(d) PROVE TypeOK'
  BY <1>27 DEF Crash, Exit, stopVars
<1>28. CASE FreePort
  BY <1>28 DEF FreePort, fileVars, sockVars, stopVars
<1>29. CASE UNCHANGED vars
  BY <1>29 DEF vars, fileVars, sockVars, stopVars
<1> QED
  BY <1>1, <1>2, <1>3, <1>4, <1>5, <1>6, <1>7, <1>8, <1>9, <1>10, <1>11, <1>12, <1>13,
     <1>14, <1>15, <1>16, <1>17, <1>18, <1>19, <1>20, <1>21, <1>22, <1>23, <1>24, <1>25,
     <1>26, <1>27, <1>28, <1>29
  DEF Next, Main, Stop

\* Main and Stop keep out of each other's way by Server.mu.
LEMMA StopStep == TypeOK /\ TypeOK' /\ StopFitsMain /\ [Next]_vars => StopFitsMain'
<1> SUFFICES ASSUME TypeOK, TypeOK', StopFitsMain, [Next]_vars PROVE StopFitsMain'
  OBVIOUS
<1> USE DaemonAssumption
    DEF TypeOK, StopFitsMain, Steps, StopSteps, PathReleased, GivingUp,
        Goto, GotoStop, Exits, Running, Binding
<1>1. ASSUME NEW d \in Daemons, Open(d) PROVE StopFitsMain'
  BY <1>1 DEF Open, sockVars, stopVars
<1>2. ASSUME NEW d \in Daemons, Flock(d) PROVE StopFitsMain'
  BY <1>2 DEF Flock, Exit, sockVars, stopVars
<1>3. ASSUME NEW d \in Daemons, Probe(d) \/ Reprobe(d) PROVE StopFitsMain'
  BY <1>3 DEF Probe, Reprobe, ProbeThen, fileVars, sockVars, stopVars
<1>4. ASSUME NEW d \in Daemons, RemoveStale(d) \/ RemoveStaleAgain(d) PROVE StopFitsMain'
  BY <1>4 DEF RemoveStale, RemoveStaleAgain, RemoveThen, fileVars, stopVars
<1>5. ASSUME NEW d \in Daemons, LoadStores(d) PROVE StopFitsMain'
  BY <1>5 DEF LoadStores, fileVars, sockVars, stopVars
<1>6. ASSUME NEW d \in Daemons, GiveUp(d) PROVE StopFitsMain'
  BY <1>6 DEF GiveUp, Unlink, Exit, sockVars, stopVars
<1>7. ASSUME NEW d \in Daemons, LockListen(d) PROVE StopFitsMain'
  BY <1>7 DEF LockListen, Exit, fileVars, sockVars, stopVars
<1>8. ASSUME NEW d \in Daemons, Bind(d) PROVE StopFitsMain'
  BY <1>8 DEF Bind, BindUnix, fileVars, sockVars, stopVars
<1>9. ASSUME NEW d \in Daemons, ListenUnix(d) PROVE StopFitsMain'
  BY <1>9 DEF ListenUnix, fileVars, stopVars
<1>10. ASSUME NEW d \in Daemons, Chmod(d) PROVE StopFitsMain'
  BY <1>10 DEF Chmod, fileVars, stopVars
<1>11. ASSUME NEW d \in Daemons, Stat(d) PROVE StopFitsMain'
  BY <1>11 DEF Stat, fileVars, stopVars
<1>12. ASSUME NEW d \in Daemons, BindTCP(d) PROVE StopFitsMain'
  BY <1>12 DEF BindTCP, fileVars, sockVars, stopVars
<1>13. ASSUME NEW d \in Daemons, BindTCPFails(d) PROVE StopFitsMain'
  BY <1>13 DEF BindTCPFails, fileVars, stopVars
<1>14. ASSUME NEW d \in Daemons, Disown(d) PROVE StopFitsMain'
  BY <1>14 DEF Disown, Compared, Owns, fileVars, stopVars
<1>15. ASSUME NEW d \in Daemons, Unbind(d) PROVE StopFitsMain'
  BY <1>15 DEF Unbind, RemovePath, fileVars, stopVars
<1>16. ASSUME NEW d \in Daemons, Serve(d) PROVE StopFitsMain'
  BY <1>16 DEF Serve, GotoTCP, fileVars, sockVars, stopVars
<1>17. ASSUME NEW d \in Daemons, ServeUnix(d) \/ ServeReturns(d) \/ Join(d) PROVE StopFitsMain'
  BY <1>17 DEF ServeUnix, ServeReturns, Join, Exit, fileVars, sockVars, stopVars
<1>18. ASSUME NEW d \in Daemons, TCP(d) PROVE StopFitsMain'
  BY <1>18 DEF TCP, ServeTCP, TCPReturns, RetryTCP, AdoptTCP, GotoTCP, fileVars, sockVars, stopVars
<1>19. ASSUME NEW d \in Daemons, Signal(d) PROVE StopFitsMain'
  BY <1>19 DEF Signal, fileVars, sockVars, stopVars
<1>20. ASSUME NEW d \in Daemons, LockStop(d) PROVE StopFitsMain'
  BY <1>20 DEF LockStop, fileVars, sockVars, stopVars
<1>21. ASSUME NEW d \in Daemons, Announce(d) PROVE StopFitsMain'
  BY <1>21 DEF Announce, fileVars, sockVars
<1>22. ASSUME NEW d \in Daemons, ComparePath(d) PROVE StopFitsMain'
  BY <1>22 DEF ComparePath, Compared, Owns, AfterPath, Removal, fileVars, stopVars
<1>23. ASSUME NEW d \in Daemons, ReleasePath(d) PROVE StopFitsMain'
  BY <1>23 DEF ReleasePath, RemovePath, AfterPath, fileVars, stopVars
<1>24. ASSUME NEW d \in Daemons, Drain(d) PROVE StopFitsMain'
  BY <1>24 DEF Drain, fileVars
<1>25. ASSUME NEW d \in Daemons, WaitTCP(d) PROVE StopFitsMain'
  BY <1>25 DEF WaitTCP, fileVars, sockVars, stopVars
<1>26. ASSUME NEW d \in Daemons, ReleaseLock(d) PROVE StopFitsMain'
  BY <1>26 DEF ReleaseLock, Unlink, sockVars, stopVars
<1>27. ASSUME NEW d \in Daemons, Crash(d) PROVE StopFitsMain'
  BY <1>27 DEF Crash, Exit, stopVars
<1>28. CASE FreePort
  BY <1>28 DEF FreePort, fileVars, sockVars, stopVars
<1>29. CASE UNCHANGED vars
  BY <1>29 DEF vars, fileVars, sockVars, stopVars
<1> QED
  BY <1>1, <1>2, <1>3, <1>4, <1>5, <1>6, <1>7, <1>8, <1>9, <1>10, <1>11, <1>12, <1>13,
     <1>14, <1>15, <1>16, <1>17, <1>18, <1>19, <1>20, <1>21, <1>22, <1>23, <1>24, <1>25,
     <1>26, <1>27, <1>28, <1>29
  DEF Next, Main, Stop

\* Only a process that has the lock gives it back.
LEMMA LockStep == TypeOK /\ TypeOK' /\ StopFitsMain /\ LockHeld /\ [Next]_vars => LockHeld'
<1> SUFFICES ASSUME TypeOK, TypeOK', StopFitsMain, LockHeld, [Next]_vars PROVE LockHeld'
  OBVIOUS
<1> USE DaemonAssumption
    DEF TypeOK, StopFitsMain, LockHeld, Steps, StopSteps, PathReleased, GivingUp,
        Goto, GotoStop, Exits, Running, Binding
<1>1. ASSUME NEW d \in Daemons, Open(d) PROVE LockHeld'
  BY <1>1 DEF Open, sockVars, stopVars
<1>2. ASSUME NEW d \in Daemons, Flock(d) PROVE LockHeld'
  BY <1>2 DEF Flock, Exit, sockVars, stopVars
<1>3. ASSUME NEW d \in Daemons, Probe(d) \/ Reprobe(d) PROVE LockHeld'
  BY <1>3 DEF Probe, Reprobe, ProbeThen, fileVars, sockVars, stopVars
<1>4. ASSUME NEW d \in Daemons, RemoveStale(d) \/ RemoveStaleAgain(d) PROVE LockHeld'
  BY <1>4 DEF RemoveStale, RemoveStaleAgain, RemoveThen, fileVars, stopVars
<1>5. ASSUME NEW d \in Daemons, LoadStores(d) PROVE LockHeld'
  BY <1>5 DEF LoadStores, fileVars, sockVars, stopVars
<1>6. ASSUME NEW d \in Daemons, GiveUp(d) PROVE LockHeld'
  BY <1>6 DEF GiveUp, Unlink, Exit, sockVars, stopVars
<1>7. ASSUME NEW d \in Daemons, LockListen(d) PROVE LockHeld'
  BY <1>7 DEF LockListen, Exit, fileVars, sockVars, stopVars
<1>8. ASSUME NEW d \in Daemons, Bind(d) PROVE LockHeld'
  BY <1>8 DEF Bind, BindUnix, fileVars, sockVars, stopVars
<1>9. ASSUME NEW d \in Daemons, ListenUnix(d) PROVE LockHeld'
  BY <1>9 DEF ListenUnix, fileVars, stopVars
<1>10. ASSUME NEW d \in Daemons, Chmod(d) PROVE LockHeld'
  BY <1>10 DEF Chmod, fileVars, stopVars
<1>11. ASSUME NEW d \in Daemons, Stat(d) PROVE LockHeld'
  BY <1>11 DEF Stat, fileVars, stopVars
<1>12. ASSUME NEW d \in Daemons, BindTCP(d) PROVE LockHeld'
  BY <1>12 DEF BindTCP, fileVars, sockVars, stopVars
<1>13. ASSUME NEW d \in Daemons, BindTCPFails(d) PROVE LockHeld'
  BY <1>13 DEF BindTCPFails, fileVars, stopVars
<1>14. ASSUME NEW d \in Daemons, Disown(d) PROVE LockHeld'
  BY <1>14 DEF Disown, Compared, Owns, fileVars, stopVars
<1>15. ASSUME NEW d \in Daemons, Unbind(d) PROVE LockHeld'
  BY <1>15 DEF Unbind, RemovePath, fileVars, stopVars
<1>16. ASSUME NEW d \in Daemons, Serve(d) PROVE LockHeld'
  BY <1>16 DEF Serve, GotoTCP, fileVars, sockVars, stopVars
<1>17. ASSUME NEW d \in Daemons, ServeUnix(d) \/ ServeReturns(d) \/ Join(d) PROVE LockHeld'
  BY <1>17 DEF ServeUnix, ServeReturns, Join, Exit, fileVars, sockVars, stopVars
<1>18. ASSUME NEW d \in Daemons, TCP(d) PROVE LockHeld'
  BY <1>18 DEF TCP, ServeTCP, TCPReturns, RetryTCP, AdoptTCP, GotoTCP, fileVars, sockVars, stopVars
<1>19. ASSUME NEW d \in Daemons, Signal(d) PROVE LockHeld'
  BY <1>19 DEF Signal, fileVars, sockVars, stopVars
<1>20. ASSUME NEW d \in Daemons, LockStop(d) PROVE LockHeld'
  BY <1>20 DEF LockStop, fileVars, sockVars, stopVars
<1>21. ASSUME NEW d \in Daemons, Announce(d) PROVE LockHeld'
  BY <1>21 DEF Announce, fileVars, sockVars
<1>22. ASSUME NEW d \in Daemons, ComparePath(d) PROVE LockHeld'
  BY <1>22 DEF ComparePath, Compared, Owns, AfterPath, Removal, fileVars, stopVars
<1>23. ASSUME NEW d \in Daemons, ReleasePath(d) PROVE LockHeld'
  BY <1>23 DEF ReleasePath, RemovePath, AfterPath, fileVars, stopVars
<1>24. ASSUME NEW d \in Daemons, Drain(d) PROVE LockHeld'
  BY <1>24 DEF Drain, fileVars
<1>25. ASSUME NEW d \in Daemons, WaitTCP(d) PROVE LockHeld'
  BY <1>25 DEF WaitTCP, fileVars, sockVars, stopVars
<1>26. ASSUME NEW d \in Daemons, ReleaseLock(d) PROVE LockHeld'
  BY <1>26 DEF ReleaseLock, Unlink, sockVars, stopVars
<1>27. ASSUME NEW d \in Daemons, Crash(d) PROVE LockHeld'
  BY <1>27 DEF Crash, Exit, stopVars
<1>28. CASE FreePort
  BY <1>28 DEF FreePort, fileVars, sockVars, stopVars
<1>29. CASE UNCHANGED vars
  BY <1>29 DEF vars, fileVars, sockVars, stopVars
<1> QED
  BY <1>1, <1>2, <1>3, <1>4, <1>5, <1>6, <1>7, <1>8, <1>9, <1>10, <1>11, <1>12, <1>13,
     <1>14, <1>15, <1>16, <1>17, <1>18, <1>19, <1>20, <1>21, <1>22, <1>23, <1>24, <1>25,
     <1>26, <1>27, <1>28, <1>29
  DEF Next, Main, Stop

\* A socket file goes with the process that bound it, unless that is killed.
LEMMA SocketStep == TypeOK /\ TypeOK' /\ StopFitsMain /\ SocketHeld /\ [Next]_vars => SocketHeld'
<1> SUFFICES ASSUME TypeOK, TypeOK', StopFitsMain, SocketHeld, [Next]_vars PROVE SocketHeld'
  OBVIOUS
<1> USE DaemonAssumption
    DEF TypeOK, StopFitsMain, SocketHeld, Steps, StopSteps, PathReleased,
        PathHeld, Bound, Listening, Noted, GivingUp, Goto, GotoStop, Exits, Running, Binding
<1>1. ASSUME NEW d \in Daemons, Open(d) PROVE SocketHeld'
  BY <1>1 DEF Open, sockVars, stopVars
<1>2. ASSUME NEW d \in Daemons, Flock(d) PROVE SocketHeld'
  BY <1>2 DEF Flock, Exit, sockVars, stopVars
<1>3. ASSUME NEW d \in Daemons, Probe(d) \/ Reprobe(d) PROVE SocketHeld'
  BY <1>3 DEF Probe, Reprobe, ProbeThen, fileVars, sockVars, stopVars
<1>4. ASSUME NEW d \in Daemons, RemoveStale(d) \/ RemoveStaleAgain(d) PROVE SocketHeld'
  BY <1>4 DEF RemoveStale, RemoveStaleAgain, RemoveThen, fileVars, stopVars
<1>5. ASSUME NEW d \in Daemons, LoadStores(d) PROVE SocketHeld'
  BY <1>5 DEF LoadStores, fileVars, sockVars, stopVars
<1>6. ASSUME NEW d \in Daemons, GiveUp(d) PROVE SocketHeld'
  BY <1>6 DEF GiveUp, Unlink, Exit, sockVars, stopVars
<1>7. ASSUME NEW d \in Daemons, LockListen(d) PROVE SocketHeld'
  BY <1>7 DEF LockListen, Exit, fileVars, sockVars, stopVars
<1>8. ASSUME NEW d \in Daemons, Bind(d) PROVE SocketHeld'
  BY <1>8 DEF Bind, BindUnix, fileVars, sockVars, stopVars
<1>9. ASSUME NEW d \in Daemons, ListenUnix(d) PROVE SocketHeld'
  BY <1>9 DEF ListenUnix, fileVars, stopVars
<1>10. ASSUME NEW d \in Daemons, Chmod(d) PROVE SocketHeld'
  BY <1>10 DEF Chmod, fileVars, stopVars
<1>11. ASSUME NEW d \in Daemons, Stat(d) PROVE SocketHeld'
  BY <1>11 DEF Stat, fileVars, stopVars
<1>12. ASSUME NEW d \in Daemons, BindTCP(d) PROVE SocketHeld'
  BY <1>12 DEF BindTCP, fileVars, sockVars, stopVars
<1>13. ASSUME NEW d \in Daemons, BindTCPFails(d) PROVE SocketHeld'
  BY <1>13 DEF BindTCPFails, fileVars, stopVars
<1>14. ASSUME NEW d \in Daemons, Disown(d) PROVE SocketHeld'
  BY <1>14 DEF Disown, Compared, Owns, fileVars, stopVars
<1>15. ASSUME NEW d \in Daemons, Unbind(d) PROVE SocketHeld'
  BY <1>15 DEF Unbind, RemovePath, fileVars, stopVars
<1>16. ASSUME NEW d \in Daemons, Serve(d) PROVE SocketHeld'
  BY <1>16 DEF Serve, GotoTCP, fileVars, sockVars, stopVars
<1>17. ASSUME NEW d \in Daemons, ServeUnix(d) \/ ServeReturns(d) \/ Join(d) PROVE SocketHeld'
  BY <1>17 DEF ServeUnix, ServeReturns, Join, Exit, fileVars, sockVars, stopVars
<1>18. ASSUME NEW d \in Daemons, TCP(d) PROVE SocketHeld'
  BY <1>18 DEF TCP, ServeTCP, TCPReturns, RetryTCP, AdoptTCP, GotoTCP, fileVars, sockVars, stopVars
<1>19. ASSUME NEW d \in Daemons, Signal(d) PROVE SocketHeld'
  BY <1>19 DEF Signal, fileVars, sockVars, stopVars
<1>20. ASSUME NEW d \in Daemons, LockStop(d) PROVE SocketHeld'
  BY <1>20 DEF LockStop, fileVars, sockVars, stopVars
<1>21. ASSUME NEW d \in Daemons, Announce(d) PROVE SocketHeld'
  BY <1>21 DEF Announce, fileVars, sockVars
<1>22. ASSUME NEW d \in Daemons, ComparePath(d) PROVE SocketHeld'
  BY <1>22 DEF ComparePath, Compared, Owns, AfterPath, Removal, fileVars, stopVars
<1>23. ASSUME NEW d \in Daemons, ReleasePath(d) PROVE SocketHeld'
  BY <1>23 DEF ReleasePath, RemovePath, AfterPath, fileVars, stopVars
<1>24. ASSUME NEW d \in Daemons, Drain(d) PROVE SocketHeld'
  BY <1>24 DEF Drain, fileVars
<1>25. ASSUME NEW d \in Daemons, WaitTCP(d) PROVE SocketHeld'
  BY <1>25 DEF WaitTCP, fileVars, sockVars, stopVars
<1>26. ASSUME NEW d \in Daemons, ReleaseLock(d) PROVE SocketHeld'
  BY <1>26 DEF ReleaseLock, Unlink, sockVars, stopVars
<1>27. ASSUME NEW d \in Daemons, Crash(d) PROVE SocketHeld'
  BY <1>27 DEF Crash, Exit, stopVars
<1>28. CASE FreePort
  BY <1>28 DEF FreePort, fileVars, sockVars, stopVars
<1>29. CASE UNCHANGED vars
  BY <1>29 DEF vars, fileVars, sockVars, stopVars
<1> QED
  BY <1>1, <1>2, <1>3, <1>4, <1>5, <1>6, <1>7, <1>8, <1>9, <1>10, <1>11, <1>12, <1>13,
     <1>14, <1>15, <1>16, <1>17, <1>18, <1>19, <1>20, <1>21, <1>22, <1>23, <1>24, <1>25,
     <1>26, <1>27, <1>28, <1>29
  DEF Next, Main, Stop

\* A stale file is removed by the one holder of the lock, and a socket by its process.
LEMMA ReachStep == TypeOK /\ TypeOK' /\ SocketInv /\ [Next]_vars => BoundIsReachable'
<1> SUFFICES ASSUME TypeOK, TypeOK', SocketInv, [Next]_vars PROVE BoundIsReachable'
  OBVIOUS
<1> USE DaemonAssumption
    DEF TypeOK, SocketInv, StopFitsMain, LockHeld, SocketHeld, BoundIsReachable,
        Guarded, Steps, StopSteps, PathReleased, PathHeld, Bound, Listening, Noted, GivingUp,
        Goto, GotoStop, Exits, Running, Binding
<1>1. ASSUME NEW d \in Daemons, Open(d) PROVE BoundIsReachable'
  BY <1>1 DEF Open, sockVars, stopVars
<1>2. ASSUME NEW d \in Daemons, Flock(d) PROVE BoundIsReachable'
  BY <1>2 DEF Flock, Exit, sockVars, stopVars
<1>3. ASSUME NEW d \in Daemons, Probe(d) \/ Reprobe(d) PROVE BoundIsReachable'
  BY <1>3 DEF Probe, Reprobe, ProbeThen, fileVars, sockVars, stopVars
<1>4. ASSUME NEW d \in Daemons, RemoveStale(d) \/ RemoveStaleAgain(d) PROVE BoundIsReachable'
  BY <1>4 DEF RemoveStale, RemoveStaleAgain, RemoveThen, fileVars, stopVars
<1>5. ASSUME NEW d \in Daemons, LoadStores(d) PROVE BoundIsReachable'
  BY <1>5 DEF LoadStores, fileVars, sockVars, stopVars
<1>6. ASSUME NEW d \in Daemons, GiveUp(d) PROVE BoundIsReachable'
  BY <1>6 DEF GiveUp, Unlink, Exit, sockVars, stopVars
<1>7. ASSUME NEW d \in Daemons, LockListen(d) PROVE BoundIsReachable'
  BY <1>7 DEF LockListen, Exit, fileVars, sockVars, stopVars
<1>8. ASSUME NEW d \in Daemons, Bind(d) PROVE BoundIsReachable'
  BY <1>8 DEF Bind, BindUnix, fileVars, sockVars, stopVars
<1>9. ASSUME NEW d \in Daemons, ListenUnix(d) PROVE BoundIsReachable'
  BY <1>9 DEF ListenUnix, fileVars, stopVars
<1>10. ASSUME NEW d \in Daemons, Chmod(d) PROVE BoundIsReachable'
  BY <1>10 DEF Chmod, fileVars, stopVars
<1>11. ASSUME NEW d \in Daemons, Stat(d) PROVE BoundIsReachable'
  BY <1>11 DEF Stat, fileVars, stopVars
<1>12. ASSUME NEW d \in Daemons, BindTCP(d) PROVE BoundIsReachable'
  BY <1>12 DEF BindTCP, fileVars, sockVars, stopVars
<1>13. ASSUME NEW d \in Daemons, BindTCPFails(d) PROVE BoundIsReachable'
  BY <1>13 DEF BindTCPFails, fileVars, stopVars
<1>14. ASSUME NEW d \in Daemons, Disown(d) PROVE BoundIsReachable'
  BY <1>14 DEF Disown, Compared, Owns, fileVars, stopVars
<1>15. ASSUME NEW d \in Daemons, Unbind(d) PROVE BoundIsReachable'
  BY <1>15 DEF Unbind, RemovePath, fileVars, stopVars
<1>16. ASSUME NEW d \in Daemons, Serve(d) PROVE BoundIsReachable'
  BY <1>16 DEF Serve, GotoTCP, fileVars, sockVars, stopVars
<1>17. ASSUME NEW d \in Daemons, ServeUnix(d) \/ ServeReturns(d) \/ Join(d) PROVE BoundIsReachable'
  BY <1>17 DEF ServeUnix, ServeReturns, Join, Exit, fileVars, sockVars, stopVars
<1>18. ASSUME NEW d \in Daemons, TCP(d) PROVE BoundIsReachable'
  BY <1>18 DEF TCP, ServeTCP, TCPReturns, RetryTCP, AdoptTCP, GotoTCP, fileVars, sockVars, stopVars
<1>19. ASSUME NEW d \in Daemons, Signal(d) PROVE BoundIsReachable'
  BY <1>19 DEF Signal, fileVars, sockVars, stopVars
<1>20. ASSUME NEW d \in Daemons, LockStop(d) PROVE BoundIsReachable'
  BY <1>20 DEF LockStop, fileVars, sockVars, stopVars
<1>21. ASSUME NEW d \in Daemons, Announce(d) PROVE BoundIsReachable'
  BY <1>21 DEF Announce, fileVars, sockVars
<1>22. ASSUME NEW d \in Daemons, ComparePath(d) PROVE BoundIsReachable'
  BY <1>22 DEF ComparePath, Compared, Owns, AfterPath, Removal, fileVars, stopVars
<1>23. ASSUME NEW d \in Daemons, ReleasePath(d) PROVE BoundIsReachable'
  BY <1>23 DEF ReleasePath, RemovePath, AfterPath, fileVars, stopVars
<1>24. ASSUME NEW d \in Daemons, Drain(d) PROVE BoundIsReachable'
  BY <1>24 DEF Drain, fileVars
<1>25. ASSUME NEW d \in Daemons, WaitTCP(d) PROVE BoundIsReachable'
  BY <1>25 DEF WaitTCP, fileVars, sockVars, stopVars
<1>26. ASSUME NEW d \in Daemons, ReleaseLock(d) PROVE BoundIsReachable'
  BY <1>26 DEF ReleaseLock, Unlink, sockVars, stopVars
<1>27. ASSUME NEW d \in Daemons, Crash(d) PROVE BoundIsReachable'
  BY <1>27 DEF Crash, Exit, stopVars
<1>28. CASE FreePort
  BY <1>28 DEF FreePort, fileVars, sockVars, stopVars
<1>29. CASE UNCHANGED vars
  BY <1>29 DEF vars, fileVars, sockVars, stopVars
<1> QED
  BY <1>1, <1>2, <1>3, <1>4, <1>5, <1>6, <1>7, <1>8, <1>9, <1>10, <1>11, <1>12, <1>13,
     <1>14, <1>15, <1>16, <1>17, <1>18, <1>19, <1>20, <1>21, <1>22, <1>23, <1>24, <1>25,
     <1>26, <1>27, <1>28, <1>29
  DEF Next, Main, Stop

-----------------------------------------------------------------------------
\* Types, and what Server.mu covers: Listen from the bind on, and Stop
\* (lifecycle.go:139-211, 331-399).
THEOREM TypeCorrect == Spec => []TypeOK
<1>1. Init => TypeOK
  <2> SUFFICES ASSUME Init PROVE TypeOK
    OBVIOUS
  <2>1. blind \in BOOLEAN
    BY Zenon DEF Init
  <2>2. crashes \in 0 .. MaxCrashes
    BY DaemonAssumption DEF Init
  <2> QED BY <2>1, <2>2, DaemonAssumption DEF Init, TypeOK, Steps, StopSteps, Binding
<1> QED BY <1>1, TypeStep, PTL DEF Spec

\* The inductive invariant.
LEMMA SocketInvariant == Spec => [](TypeOK /\ SocketInv)
<1>1. Init => SocketInv
  BY DaemonAssumption
     DEF Init, SocketInv, StopFitsMain, LockHeld, SocketHeld, BoundIsReachable, PathReleased,
         PathHeld, Bound, Listening, Noted, GivingUp, Exits, Running, Binding
<1>2. TypeOK /\ TypeOK' /\ SocketInv /\ [Next]_vars => SocketInv'
  BY StopStep, LockStep, SocketStep, ReachStep DEF SocketInv
<1> QED BY <1>1, <1>2, TypeCorrect, PTL DEF Spec

\* What serves has bound the socket, and Stop has not come to releasing it.
LEMMA ServingIsBound ==
  ASSUME TypeOK, SocketInv, NEW d \in Daemons, Serving(d)
  PROVE  pc[d] \in Bound /\ pc[d] \in Listening /\ spc[d] \in PathHeld
BY DEF TypeOK, SocketInv, StopFitsMain, StopSteps, Serving, Bound, Listening, Noted, PathHeld,
       PathReleased

\* The socket path leads to the daemon that serves, unless one of two that had the lock has
\* removed a stale file, and never to one that has left (lifecycle.go:140-141, 150-179,
\* 199-200, 393-396, 410-426).
THEOREM SocketIsTrue == Spec => []SocketTellsTheTruth
<1>1. TypeOK /\ SocketInv => SocketTellsTheTruth
  <2> SUFFICES ASSUME TypeOK, SocketInv PROVE SocketTellsTheTruth
    OBVIOUS
  <2>1. ServingIsReachable
    BY ServingIsBound DEF SocketInv, BoundIsReachable, ServingIsReachable
  <2>2. ExitLeavesNoSocket
    BY DEF SocketInv, SocketHeld, ExitLeavesNoSocket, Bound, Listening, Noted
  <2> QED BY <2>1, <2>2 DEF SocketTellsTheTruth
<1> QED BY <1>1, SocketInvariant, PTL

\* However starts, stops and crashes overlap, there are never two daemons that serve, with
\* that same exception (lifecycle.go:124-127).
THEOREM NeverTwoServe == Spec => []OneServes
<1>1. SocketTellsTheTruth => OneServes
  BY DEF SocketTellsTheTruth, ServingIsReachable, OneServes
<1> QED BY <1>1, SocketIsTrue, PTL
=============================================================================
