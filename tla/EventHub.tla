------------------------------ MODULE EventHub ------------------------------
(* The event hub (internal/session/events.go) with everything that uses it: *)
(* sessions that ring and end, WatchEvents handlers, the webhook notifier   *)
(* (internal/notify/webhook.go), and the part of Server.stop that shuts     *)
(* them down one after the other.                                           *)
(*                                                                          *)
(* Each operation of the hub is one action, because it runs under the hub's *)
(* mutex, except that Unsubscribe closes the channel after giving it up.    *)
(* An event is the place it has among all published events: a number.       *)
EXTENDS Naturals, Sequences

CONSTANTS
  Watchers,   \* WatchEvents calls
  Webhook,    \* the notifier, a subscriber of its own
  Stalled,    \* watchers whose client may stop reading for ever
  Sessions,
  Capacity,   \* of a subscriber's channel (64 in the code)
  MaxBells    \* bound: bells a session may ring

Subscribers == Watchers \cup {Webhook}

VARIABLES
  subscribers,  \* EventHub.subscribers
  closed,       \* EventHub.closed
  chan,         \* of each subscriber: "none", "open", "closed", or "panic"
  queue,        \* events waiting in that channel
  pc,           \* the step of each subscriber's goroutine
  log,          \* every event published so far, oldest first: [session, type]
  once,         \* doneOnce of each session: "live", "marked" or "told"
  managed,      \* sessions in the manager's map
  bells,        \* bells each session has rung
  server        \* how far Server.stop has come

hubVars == <<subscribers, closed, chan, queue, log>>
sessionVars == <<once, managed, bells>>
vars == <<hubVars, pc, sessionVars, server>>

Init ==
  /\ subscribers = {} /\ closed = FALSE
  /\ chan = [w \in Subscribers |-> "none"]
  /\ queue = [w \in Subscribers |-> <<>>]
  /\ pc = [w \in Subscribers |-> "new"]
  /\ log = <<>>
  /\ once = [s \in Sessions |-> "live"]
  /\ managed = Sessions
  /\ bells = [s \in Sessions |-> 0]
  /\ server = "up"

Goto(w, step) == pc' = [pc EXCEPT ![w] = step]

-----------------------------------------------------------------------------
(* The hub *)

\* A channel that is closed twice panics, as does a send on a closed channel.
AfterClose(ch) == IF ch = "open" THEN "closed" ELSE "panic"
AfterSend(ch) == IF ch = "open" THEN "open" ELSE "panic"

\* Publish: record the event, and offer it to each subscriber without blocking.
Publish(s, type) ==
  IF closed
  THEN UNCHANGED <<chan, queue, log>>
  ELSE /\ log' = Append(log, [session |-> s, type |-> type])
       /\ chan' = [w \in Subscribers |->
            IF w \in subscribers THEN AfterSend(chan[w]) ELSE chan[w]]
       /\ queue' = [w \in Subscribers |->
            IF w \in subscribers /\ Len(queue[w]) < Capacity
            THEN Append(queue[w], Len(log) + 1) ELSE queue[w]]

\* A hub that is closed hands back a closed channel that it does not register.
Subscribe(w) ==
  IF closed
  THEN /\ chan' = [chan EXCEPT ![w] = "closed"] /\ UNCHANGED subscribers
  ELSE /\ chan' = [chan EXCEPT ![w] = "open"]
       /\ subscribers' = subscribers \cup {w}

\* Mutation: the channels are left to their handlers.
CloseHubOnly ==
  /\ server = "hub"
  /\ closed' = TRUE /\ subscribers' = {}
  /\ server' = "drain"
  /\ UNCHANGED <<chan, queue, pc, log, sessionVars>>

\* Close ends every subscription, with its channel, under the mutex.
CloseHub ==
  /\ server = "hub"
  /\ closed' = TRUE /\ subscribers' = {}
  /\ chan' = [w \in Subscribers |->
       IF w \in subscribers THEN AfterClose(chan[w]) ELSE chan[w]]
  /\ server' = "drain"
  /\ UNCHANGED <<queue, pc, log, sessionVars>>

-----------------------------------------------------------------------------
(* Subscribers: WatchEvents handlers and the webhook's goroutine *)

\* A call that comes before the listener stops; the webhook starts with the daemon.
Arrive(w) ==
  /\ pc[w] = "new"
  /\ server \in IF w = Webhook THEN {"up"} ELSE {"up", "webhook", "sessions", "hub", "drain"}
  /\ Subscribe(w) /\ Goto(w, "receive")
  /\ UNCHANGED <<closed, queue, log, sessionVars, server>>

Receive(w) ==
  /\ pc[w] = "receive" /\ queue[w] # <<>>
  /\ queue' = [queue EXCEPT ![w] = Tail(@)]
  /\ Goto(w, "send")
  /\ UNCHANGED <<subscribers, closed, chan, log, sessionVars, server>>

\* The stream took the event; the POST was answered, failed or was aborted.
Sent(w) ==
  /\ pc[w] = "send"
  /\ Goto(w, "receive")
  /\ UNCHANGED <<hubVars, sessionVars, server>>

\* The channel is closed and drained.
ChannelEnds(w) ==
  /\ pc[w] = "receive" /\ chan[w] = "closed" /\ queue[w] = <<>>
  /\ Goto(w, "unsubscribe")
  /\ UNCHANGED <<hubVars, sessionVars, server>>

\* The client hangs up: the context ends, and so does a Send.
HangUp(w) ==
  /\ w \in Watchers /\ pc[w] \in {"receive", "send"}
  /\ Goto(w, "unsubscribe")
  /\ UNCHANGED <<hubVars, sessionVars, server>>

\* WebhookNotifier.done is closed: select may take it, or one more event.
WebhookDone ==
  /\ pc[Webhook] = "receive" /\ server # "up"
  /\ Goto(Webhook, "unsubscribe")
  /\ UNCHANGED <<hubVars, sessionVars, server>>

\* Mutation: the channel is closed whether or not the entry was there.
UnsubscribeAlwaysCloses(w) ==
  /\ pc[w] = "unsubscribe"
  /\ subscribers' = subscribers \ {w}
  /\ Goto(w, "close")
  /\ UNCHANGED <<closed, chan, queue, log, sessionVars, server>>

\* Unsubscribe, under the mutex: take the entry out of the map if it is there.
Unsubscribe(w) ==
  /\ pc[w] = "unsubscribe"
  /\ subscribers' = subscribers \ {w}
  /\ Goto(w, IF w \in subscribers THEN "close" ELSE "gone")
  /\ UNCHANGED <<closed, chan, queue, log, sessionVars, server>>

\* ... and close its channel, without the mutex.
CloseChannel(w) ==
  /\ pc[w] = "close"
  /\ chan' = [chan EXCEPT ![w] = AfterClose(@)]
  /\ Goto(w, "gone")
  /\ UNCHANGED <<subscribers, closed, queue, log, sessionVars, server>>

-----------------------------------------------------------------------------
(* Sessions *)

\* The reader finds a bell. It may do so while, or after, the session is closed.
Ring(s) ==
  /\ bells[s] < MaxBells
  /\ bells' = [bells EXCEPT ![s] = @ + 1]
  /\ Publish(s, "bell")
  /\ UNCHANGED <<subscribers, closed, pc, once, managed, server>>

\* Manager.Kill takes the session out of the map and closes it afterwards.
Kill(s) ==
  /\ s \in managed /\ server \in {"up", "webhook"}
  /\ managed' = managed \ {s}
  /\ UNCHANGED <<hubVars, pc, once, bells, server>>

\* markDone: whoever comes first, the reader or Close, is in doneOnce.
MarkDone(s) ==
  /\ once[s] = "live"
  /\ once' = [once EXCEPT ![s] = "marked"]
  /\ UNCHANGED <<hubVars, pc, managed, bells, server>>

EmitEnded(s) ==
  /\ once[s] = "marked"
  /\ once' = [once EXCEPT ![s] = "told"]
  /\ Publish(s, "ended")
  /\ UNCHANGED <<subscribers, closed, pc, managed, bells, server>>

-----------------------------------------------------------------------------
(* Server.stop *)

\* WebhookNotifier.Stop: close done, cancel the context and wait.
StopWebhook ==
  /\ server = "up"
  /\ server' = "webhook"
  /\ UNCHANGED <<hubVars, pc, sessionVars>>

WebhookStopped ==
  /\ server = "webhook" /\ pc[Webhook] \in {"new", "gone"}
  /\ server' = "sessions"
  /\ UNCHANGED <<hubVars, pc, sessionVars>>

\* Manager.Close waits for the Close of every session in its map, and each of
\* those waits in doneOnce until the event is out.
SessionsClosed ==
  /\ server = "sessions" /\ \A s \in managed : once[s] = "told"
  /\ server' = "hub"
  /\ UNCHANGED <<hubVars, pc, sessionVars>>

\* GracefulStop returns once no handler is left.
Drained ==
  /\ server = "drain" /\ \A w \in Watchers : pc[w] \in {"new", "gone"}
  /\ server' = "stopped"
  /\ UNCHANGED <<hubVars, pc, sessionVars>>

\* The grace period is over: Stop cancels the context of the handlers held in
\* Send. Everything else is quick beside shutdownGracePeriod, so it runs out
\* only for such a handler.
ForceStop ==
  /\ server = "drain"
  /\ \E w \in Stalled :
       /\ pc[w] = "send" /\ Goto(w, "unsubscribe")
  /\ UNCHANGED <<hubVars, sessionVars, server>>

-----------------------------------------------------------------------------
Serve(w) ==
  \/ Arrive(w) \/ Receive(w) \/ Sent(w) \/ ChannelEnds(w) \/ HangUp(w)
  \/ Unsubscribe(w) \/ CloseChannel(w)

SessionStep(s) == Ring(s) \/ Kill(s) \/ MarkDone(s) \/ EmitEnded(s)

StopSteps ==
  WebhookStopped \/ SessionsClosed \/ CloseHub \/ Drained \/ ForceStop

Next ==
  \/ \E w \in Subscribers : Serve(w)
  \/ WebhookDone
  \/ \E s \in Sessions : SessionStep(s)
  \/ StopWebhook \/ StopSteps

\* What the scheduler and the timeouts guarantee: goroutines get on, a POST ends
\* within the client's timeout, and only a stalled client holds a Send for ever.
\* A session ends once it is being closed, as its PTY is.
HandlerSteps(w) ==
  \/ Receive(w) \/ ChannelEnds(w) \/ Unsubscribe(w) \/ CloseChannel(w)
  \/ (w \notin Stalled /\ Sent(w))
EndSteps(s) ==
  \/ (s \notin managed \/ server = "sessions") /\ MarkDone(s)
  \/ EmitEnded(s)
Fairness ==
  /\ \A w \in Subscribers : WF_vars(HandlerSteps(w))
  /\ WF_vars(WebhookDone)
  /\ \A s \in Sessions : WF_vars(EndSteps(s))
  /\ WF_vars(StopSteps)

Spec == Init /\ [][Next]_vars /\ Fairness

-----------------------------------------------------------------------------
TypeOK ==
  /\ subscribers \subseteq Subscribers
  /\ closed \in BOOLEAN
  /\ chan \in [Subscribers -> {"none", "open", "closed", "panic"}]
  /\ queue \in [Subscribers -> Seq(Nat)]
  /\ pc \in [Subscribers -> {"new", "receive", "send", "unsubscribe", "close", "gone"}]
  /\ log \in Seq([session : Sessions, type : {"bell", "ended"}])
  /\ once \in [Sessions -> {"live", "marked", "told"}]
  /\ managed \subseteq Sessions
  /\ bells \in [Sessions -> Nat]
  /\ server \in {"up", "webhook", "sessions", "hub", "drain", "stopped"}

\* No goroutine sends on a closed channel or closes one twice, although
\* Unsubscribe closes outside the mutex (events.go:105-117, 133-144, 158-163).
NoChannelPanics == \A w \in Subscribers : chan[w] # "panic"

\* Each session tells of its end at most once, and the hub is not closed before
\* every session that the manager shut down has (lifecycle.go:372-375,
\* session.go:262-279): no watcher misses an end for the order of the shutdown.
EndsOf(s) == {i \in DOMAIN log : log[i] = [session |-> s, type |-> "ended"]}
EndsAreTold ==
  /\ \A s \in Sessions : \A i, j \in EndsOf(s) : i = j
  /\ closed => \A s \in managed : EndsOf(s) # {}

\* The webhook's goroutine is gone before the daemon closes its sessions: their
\* ends are not pushed to the phone (lifecycle.go:356-359, webhook.go:95-101).
WebhookIsQuiet ==
  server \notin {"up", "webhook"} => pc[Webhook] \in {"new", "gone"}

\* Server.stop gets through the webhook, the sessions, the hub and the handlers
\* although a client may have stopped reading (lifecycle.go:356-399).
StopReturns == (server = "webhook") ~> (server = "stopped")
=============================================================================
