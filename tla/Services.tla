------------------------------ MODULE Services ------------------------------
(* The parts around sessions and tasks that owe their callers an end: the executor *)
(* across a restart, the event hub, the attach command and the remote tunnel. One  *)
(* at a time: part is chosen at the start, and only what it names moves. The parts *)
(* share no state beyond what their modules model; one run asks each its own       *)
(* questions on a small instance. TaskExecutor is the module extended here.        *)
EXTENDS TaskExecutor

CONSTANTS
  Watchers, Webhook, Stalled, Sessions, Capacity, MaxBells,  \* EventHub
  MaxTyped,                                                  \* AttachCommand
  MaxRetries, Conns                                          \* Tunnel

ASSUME ServicesAssumption == MaxRetries \in Nat \ {0}

VARIABLES
  part,  \* the part that moves
  hubSubscribers, hubClosed, hubChan, hubQueue, hubPc, hubLog, hubOnce, hubManaged,
  hubBells, hubServer,
  attTyped, attTaken, attArmed, attPending, attInput, attInflight, attUpstream,
  attReceived, attSession, attStream, attCtx, attOutput,
  tunConnect, tunAttempt, tunSsh, tunListener, tunForwarder, tunDialing, tunLocal,
  tunRemote, tunCopying, tunDaemon

hubVars ==
  <<hubSubscribers, hubClosed, hubChan, hubQueue, hubPc, hubLog, hubOnce, hubManaged,
    hubBells, hubServer>>
attVars ==
  <<attTyped, attTaken, attArmed, attPending, attInput, attInflight, attUpstream,
    attReceived, attSession, attStream, attCtx, attOutput>>
tunVars ==
  <<tunConnect, tunAttempt, tunSsh, tunListener, tunForwarder, tunDialing, tunLocal,
    tunRemote, tunCopying, tunDaemon>>

Hub == INSTANCE EventHub WITH
  Watchers <- Watchers, Webhook <- Webhook, Stalled <- Stalled, Sessions <- Sessions,
  Capacity <- Capacity, MaxBells <- MaxBells, subscribers <- hubSubscribers,
  closed <- hubClosed, chan <- hubChan, queue <- hubQueue, pc <- hubPc, log <- hubLog,
  once <- hubOnce, managed <- hubManaged, bells <- hubBells, server <- hubServer
Attach == INSTANCE AttachCommand WITH
  MaxTyped <- MaxTyped, typed <- attTyped, taken <- attTaken, armed <- attArmed,
  pending <- attPending, input <- attInput, inflight <- attInflight,
  upstream <- attUpstream, received <- attReceived, session <- attSession,
  stream <- attStream, ctx <- attCtx, output <- attOutput
Link == INSTANCE Tunnel WITH
  MaxRetries <- MaxRetries, Conns <- Conns, connect <- tunConnect,
  attempt <- tunAttempt, ssh <- tunSsh, listener <- tunListener,
  forwarder <- tunForwarder, dialing <- tunDialing, local <- tunLocal,
  remote <- tunRemote, copying <- tunCopying, daemon <- tunDaemon

-----------------------------------------------------------------------------
ServicesVars ==
  <<part, vars, hubVars, attVars, tunVars>>

\* The choices of an initial state are those of the part that moves.
ServicesInit ==
  /\ part \in {"runs", "hub", "attach", "tunnel"}
  /\ part # "runs" => crashes = MaxCrashes
  /\ Init
  /\ Hub!Init
  /\ part # "attach" => attSession = "running"
  /\ Attach!Init
  /\ part # "tunnel" => tunDaemon = TRUE
  /\ Link!Init

Rest(p, state) == IF part = p THEN TRUE ELSE UNCHANGED state

\* Only p moves.
Moves(p) ==
  /\ part = p /\ UNCHANGED part
  /\ Rest("runs", vars)
  /\ Rest("hub", hubVars)
  /\ Rest("attach", attVars)
  /\ Rest("tunnel", tunVars)

ServicesNext ==
  \/ Moves("runs") /\ Next
  \/ Moves("hub") /\ Hub!Next
  \/ Moves("attach") /\ Attach!Next
  \/ Moves("tunnel") /\ Link!Next

\* Of the parts that were not chosen only the command could move.
ServicesSpec ==
  /\ ServicesInit /\ [][ServicesNext]_ServicesVars
  /\ Fairness /\ Hub!Fairness /\ Link!Fairness
  /\ WF_attVars(part = "attach" /\ Attach!InputStep)
  /\ WF_attVars(Attach!OutputStep)

-----------------------------------------------------------------------------
\* Every variable of every part has its type.
ServicesTypeOK ==
  CASE part = "runs"     -> TypeOK
    [] part = "hub"      -> Hub!TypeOK
    [] part = "attach"   -> Attach!TypeOK
    [] part = "tunnel"   -> Link!TypeOK

\* events.go:105-163: nobody sends on a closed channel or closes one twice.
NoChannelPanics == Hub!NoChannelPanics
\* lifecycle.go:356-399: the stop ends, the webhook before the sessions and the hub
\* after them.
ShutdownIsOrderly == []Hub!EndsAreTold /\ []Hub!WebhookIsQuiet /\ Hub!StopReturns
\* runs.go:81-124: no run blocks its task after a restart. executor.go:179-211: a
\* cancelled run loses its processes and ends.
RunsEnd == []ActiveIsExecuting /\ CancelCompletes
\* helpers.go:258-417: the keys arrive, and the chord detaches.
ChordIsHonoured == Attach!ChordIsHonoured
\* client.go:289-342: lost connections and closed tunnels end.
TunnelLetsGo == Link!TunnelLetsGo
=============================================================================
