------------------------------- MODULE Tunnel -------------------------------
(* A remote hqssh (internal/cli/client/client.go): the connection, with its  *)
(* retries, and the tunnel through which gRPC talks to the daemon: a local   *)
(* listener, one SSH channel for each connection that gRPC makes to it, and  *)
(* two goroutines that copy between them.                                    *)
(*                                                                           *)
(* gRPC and SSH are modelled from how the code uses them: gRPC dials again   *)
(* when its connection is lost and pings the one it has; closing the SSH     *)
(* client ends every channel.                                                *)
EXTENDS Naturals, FiniteSets

CONSTANTS
  MaxRetries,  \* maxRetries
  Conns        \* bound: the connections gRPC makes, one after the other

VARIABLES
  connect,    \* ConnectWithRetry: "dial", "listen", "client", "backoff", or its
              \* result: "connected", "failed"; and "closed" after Close
  attempt,
  ssh,        \* "none", "up", "dead" (the link is silent) or "closed"
  listener,   \* "none", "open" or "closed"
  forwarder,  \* forwardConnections: "none", "accept", "dial" or "gone"
  dialing,    \* the connection it dials for
  local,      \* of each: "none", "backlog", "open", or who closed it: "grpc", "tunnel"
  remote,     \* of each, the SSH channel: "none", "open", "eof" or "closed"
  copying,    \* of each: the copies that run, of "up" (to the daemon) and "down"
  daemon      \* something listens on the remote port

linkVars == <<ssh, listener, daemon>>
connVars == <<local, remote, copying>>
vars == <<connect, attempt, linkVars, forwarder, dialing, connVars>>

NoConn == 0

Init ==
  /\ connect = "dial" /\ attempt = 1
  /\ ssh = "none" /\ listener = "none" /\ daemon \in BOOLEAN
  /\ forwarder = "none" /\ dialing = NoConn
  /\ local = [n \in Conns |-> "none"]
  /\ remote = [n \in Conns |-> "none"]
  /\ copying = [n \in Conns |-> {}]

-----------------------------------------------------------------------------
(* ConnectWithRetry *)

\* Mutation: one attempt too many.
DialFailsOnceMore ==
  /\ connect = "dial"
  /\ connect' = IF attempt <= MaxRetries THEN "backoff" ELSE "failed"
  /\ UNCHANGED <<attempt, linkVars, forwarder, dialing, connVars>>

\* A failure that a retry may mend, or the context is cancelled, or it may not.
DialFails ==
  /\ connect = "dial"
  /\ \/ connect' = "failed"
     \/ connect' = IF attempt < MaxRetries THEN "backoff" ELSE "failed"
  /\ UNCHANGED <<attempt, linkVars, forwarder, dialing, connVars>>

DialSucceeds ==
  /\ connect = "dial"
  /\ connect' = "listen" /\ ssh' = "up"
  /\ UNCHANGED <<attempt, listener, daemon, forwarder, dialing, connVars>>

\* Without a local listener the SSH client is closed again.
Listen ==
  /\ connect = "listen"
  /\ \/ /\ connect' = "client" /\ listener' = "open" /\ forwarder' = "accept"
        /\ UNCHANGED ssh
     \/ /\ connect' = IF attempt < MaxRetries THEN "backoff" ELSE "failed"
        /\ ssh' = "closed" /\ UNCHANGED <<listener, forwarder>>
  /\ UNCHANGED <<attempt, daemon, dialing, connVars>>

\* grpc.NewClient connects to nothing yet, and fails only for options that it
\* cannot combine.
NewClient ==
  /\ connect = "client"
  /\ connect' = "connected"
  /\ UNCHANGED <<attempt, linkVars, forwarder, dialing, connVars>>

\* The wait before the next attempt, which starts from nothing.
Backoff ==
  /\ connect = "backoff"
  /\ \/ connect' = "dial" /\ attempt' = attempt + 1
     \/ connect' = "failed" /\ UNCHANGED attempt
  /\ ssh' = "none"
  /\ UNCHANGED <<listener, daemon, forwarder, dialing, connVars>>

-----------------------------------------------------------------------------
(* forwardConnections *)

Accept(n) ==
  /\ forwarder = "accept" /\ listener = "open" /\ local[n] = "backlog"
  /\ forwarder' = "dial" /\ dialing' = n
  /\ UNCHANGED <<connect, attempt, linkVars, connVars>>

AcceptFails ==
  /\ forwarder = "accept" /\ listener = "closed"
  /\ forwarder' = "gone"
  /\ UNCHANGED <<connect, attempt, linkVars, dialing, connVars>>

\* A channel to the daemon; no other connection is accepted meanwhile.
DialRemote ==
  /\ forwarder = "dial"
  /\ LET n == dialing IN
     \/ /\ ssh = "up" /\ daemon
        /\ remote' = [remote EXCEPT ![n] = "open"]
        /\ copying' = [copying EXCEPT ![n] = {"up", "down"}]
        /\ local' = [local EXCEPT ![n] = IF @ = "backlog" THEN "open" ELSE @]
     \/ /\ ssh = "closed" \/ (ssh = "up" /\ ~daemon)
        /\ local' = [local EXCEPT ![n] = IF @ = "backlog" THEN "tunnel" ELSE @]
        /\ UNCHANGED <<remote, copying>>
  /\ forwarder' = "accept" /\ dialing' = NoConn
  /\ UNCHANGED <<connect, attempt, linkVars>>

\* The copy to the daemon ends when gRPC has closed its end, or when it writes to a
\* channel that leads nowhere: it then had something to write, such as a ping.
CopyUpEnds(n, pinged) ==
  /\ "up" \in copying[n]
  /\ local[n] = "grpc" \/ (pinged /\ local[n] = "open" /\ remote[n] # "open")
  /\ copying' = [copying EXCEPT ![n] = @ \ {"up"}]
  /\ UNCHANGED <<connect, attempt, linkVars, forwarder, dialing, local, remote>>

CopyDownEnds(n) ==
  /\ "down" \in copying[n] /\ remote[n] # "open"
  /\ copying' = [copying EXCEPT ![n] = @ \ {"down"}]
  /\ UNCHANGED <<connect, attempt, linkVars, forwarder, dialing, local, remote>>

\* The goroutine that waits for both copies closes both ends.
CloseConns(n) ==
  /\ remote[n] \in {"open", "eof"} /\ copying[n] = {}
  /\ remote' = [remote EXCEPT ![n] = "closed"]
  /\ local' = [local EXCEPT ![n] = IF @ = "open" THEN "tunnel" ELSE @]
  /\ UNCHANGED <<connect, attempt, linkVars, forwarder, dialing, copying>>

-----------------------------------------------------------------------------
(* gRPC *)

\* Its first connection, at the first call, and another when one is lost.
Current(n) == local[n] \in {"backlog", "open"}
GrpcDials(n) ==
  /\ connect = "connected" /\ listener = "open"
  /\ local[n] = "none" /\ ~\E m \in Conns : Current(m)
  /\ local' = [local EXCEPT ![n] = "backlog"]
  /\ UNCHANGED <<connect, attempt, linkVars, forwarder, dialing, remote, copying>>

\* A ping into a channel that has ended.
Ping(n) == CopyUpEnds(n, TRUE)

\* No ping was answered: gRPC gives the connection up.
PingTimesOut(n) ==
  /\ Current(n) /\ (ssh = "dead" \/ local[n] = "backlog" \/ remote[n] # "open")
  /\ local' = [local EXCEPT ![n] = "grpc"]
  /\ UNCHANGED <<connect, attempt, linkVars, forwarder, dialing, remote, copying>>

\* Mutation: no keepalive parameters.
NoKeepalive(n) == n # n /\ UNCHANGED vars

\* The keepalive of remoteDialOptions.
Keepalive(n) == Ping(n) \/ PingTimesOut(n)

-----------------------------------------------------------------------------
(* The daemon and the link *)

DaemonStops ==
  /\ daemon /\ daemon' = FALSE
  /\ remote' = IF ssh = "up"
               THEN [n \in Conns |-> IF remote[n] = "open" THEN "eof" ELSE remote[n]]
               ELSE remote
  /\ UNCHANGED <<connect, attempt, ssh, listener, forwarder, dialing, local, copying>>

DaemonStarts ==
  /\ ~daemon /\ daemon' = TRUE
  /\ UNCHANGED <<connect, attempt, ssh, listener, forwarder, dialing, connVars>>

\* Nothing comes through any more, and nobody is told.
LinkDies ==
  /\ ssh = "up" /\ ssh' = "dead"
  /\ UNCHANGED <<connect, attempt, listener, daemon, forwarder, dialing, connVars>>

\* Close: the gRPC connection, the listener, the SSH client with its channels.
Close ==
  /\ connect = "connected"
  /\ connect' = "closed" /\ listener' = "closed" /\ ssh' = "closed"
  /\ local' = [n \in Conns |-> IF Current(n) THEN "grpc" ELSE local[n]]
  /\ remote' = [n \in Conns |-> IF remote[n] = "open" THEN "eof" ELSE remote[n]]
  /\ UNCHANGED <<attempt, daemon, forwarder, dialing, copying>>

-----------------------------------------------------------------------------
ConnectStep == DialFails \/ DialSucceeds \/ Listen \/ NewClient \/ Backoff

Forward ==
  \/ \E n \in Conns : Accept(n)
  \/ AcceptFails \/ DialRemote

CopyStep(n) ==
  CopyUpEnds(n, FALSE) \/ CopyDownEnds(n) \/ CloseConns(n) \/ Keepalive(n)

Next ==
  \/ ConnectStep \/ Forward
  \/ \E n \in Conns : CopyStep(n) \/ GrpcDials(n)
  \/ DaemonStops \/ DaemonStarts \/ LinkDies \/ Close

\* Goroutines get on, and gRPC pings: PermitWithoutStream makes it, every 20 s.
Fairness == WF_vars(Forward) /\ \A n \in Conns : WF_vars(CopyStep(n))

Spec == Init /\ [][Next]_vars /\ Fairness

-----------------------------------------------------------------------------
TypeOK ==
  /\ connect \in {"dial", "listen", "client", "backoff", "connected", "failed", "closed"}
  /\ attempt \in 1..MaxRetries
  /\ ssh \in {"none", "up", "dead", "closed"} /\ listener \in {"none", "open", "closed"}
  /\ forwarder \in {"none", "accept", "dial", "gone"} /\ dialing \in Conns \cup {NoConn}
  /\ local \in [Conns -> {"none", "backlog", "open", "grpc", "tunnel"}]
  /\ remote \in [Conns -> {"none", "open", "eof", "closed"}]
  /\ copying \in [Conns -> SUBSET {"up", "down"}]
  /\ daemon \in BOOLEAN

\* gRPC learns that the daemon is gone although the tunnel keeps its end open until
\* both copies have ended, of which one waits for gRPC itself (client.go:304-321,
\* 387-395).
LossIsNoticed ==
  \A n \in Conns :
    (local[n] = "open" /\ remote[n] = "eof") ~> (local[n] \in {"grpc", "tunnel"})

\* After Close no goroutine of the tunnel is left, wherever it was: accepting,
\* dialing into a dead link, or copying (client.go:289-342).
CloseEndsAll ==
  (connect = "closed") ~>
    (forwarder \in {"none", "gone"} /\ \A n \in Conns : copying[n] = {})

\* A connection that is lost or given up does not hang on.
TunnelLetsGo == LossIsNoticed /\ CloseEndsAll
=============================================================================
