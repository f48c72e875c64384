---------------------------- MODULE OutputStream ----------------------------
(***************************************************************************)
(* The output path of one live session: the PTY reader goroutine           *)
(* (internal/session/pty.go, readPTYOutput), the scrollback buffer and the *)
(* bounded channel of every attached client (internal/session/session.go), *)
(* one Attach handler per client (internal/server/server.go) and the       *)
(* goroutine that closes the session (Session.Close).                      *)
(*                                                                         *)
(* A chunk of output is its number, in the order the PTY produced it, and  *)
(* Gap (0) is the in-band marker.  outputBuffer holds the last chunks, so  *)
(* it is the interval firstKept .. appended.  Locks are not variables:     *)
(* the reader is the only goroutine that keeps one over several steps, so  *)
(* its program counter says which it holds.                                *)
(***************************************************************************)
EXTENDS Naturals, Sequences, FiniteSets

CONSTANTS
  Clients,        (* one value per Attach call: client ids are fresh UUIDs *)
  Stalled,        (* clients whose link may stop moving for ever           *)
  ChannelCap,     (* clientBufferSize                                      *)
  MaxScrollback,  (* maxBufferSize, in chunks                              *)
  MaxChunks       (* bound of the model: chunks the process may write      *)

ASSUME StreamAssumption ==
  /\ Stalled \subseteq Clients
  /\ ChannelCap \in Nat \ {0}
  /\ MaxScrollback \in Nat \ {0}
  /\ MaxChunks \in Nat

VARIABLES
  appended,   (* chunks appended to outputBuffer so far                     *)
  firstKept,  (* oldest chunk still in outputBuffer                         *)
  tracked,    (* chunks the mode tracker has processed                      *)
  ptyOpen,    (* the PTY master is open                                     *)
  rpc,        (* program counter of the reader                              *)
  todo,       (* clients this broadcast has still to visit                  *)
  turn,       (* the client it is visiting: {} or a singleton               *)
  clients,    (* Session.clients: the registered clients                    *)
  queue,      (* content of each client's channel                           *)
  gapPending, (* clients whose gapPending flag is set                       *)
  status,     (* Session.status                                             *)
  done,       (* Session.done is closed                                     *)
  present,    (* the session is in Manager.sessions                         *)
  cpc,        (* program counter of Session.Close and its caller            *)
  hpc,        (* program counter of each Attach handler                     *)
  snap,       (* the scrollback interval each handler was given             *)
  got,        (* what each client was sent: chunks and gap markers          *)
  draining,   (* handlers that have seen Done                               *)
  cut         (* clients whose stream context is cancelled                  *)

outputVars  == <<appended, firstKept, tracked, ptyOpen>>
loopVars    == <<rpc, todo, turn>>
channelVars == <<clients, queue, gapPending>>
endVars     == <<status, done, present, cpc>>
handlerVars == <<hpc, snap, got, draining, cut>>
vars == <<outputVars, loopVars, channelVars, endVars, handlerVars>>

Gap == 0

-----------------------------------------------------------------------------
(* Locks and channels *)

\* Mutation: clientsMu is given back before the sends.
HoldsClientsMuToList == rpc = "visit"

\* The reader holds clientsMu.RLock from the start of its loop to the end.
HoldsClientsMu == rpc \in {"visit", "marker", "clear", "data", "drop"}

\* Mutation: outputBufferMu covers the append and not the broadcast.
HoldsOutputMuToAppend == rpc = "appended"

\* It holds outputBufferMu for the whole of appendAndBroadcast.
HoldsOutputMu == HoldsClientsMu \/ rpc \in {"appended", "lock"}

\* Mutation: one item too many.
HasRoomForOneMore(c) == Len(queue[c]) <= ChannelCap

HasRoom(c) == Len(queue[c]) < ChannelCap

Enqueue(c, item) == queue' = [queue EXCEPT ![c] = Append(@, item)]

\* markDone: the first call decides, later ones change nothing.
MarkDone == done' = TRUE /\ status' = "ended"

\* The chunks of an interval, in order.
Chunks(from, to) == [i \in 1 .. (to + 1 - from) |-> from + i - 1]

Init ==
  /\ appended = 0 /\ firstKept = 1 /\ tracked = 0 /\ ptyOpen = TRUE
  /\ rpc = "reading" /\ todo = {} /\ turn = {}
  /\ clients = {} /\ queue = [c \in Clients |-> <<>>] /\ gapPending = {}
  /\ status = "idle" /\ done = FALSE /\ present = TRUE /\ cpc = "idle"
  /\ hpc = [c \in Clients |-> "out"]
  /\ snap = [c \in Clients |-> <<1, 0>>]
  /\ got = [c \in Clients |-> <<>>]
  /\ draining = {} /\ cut = {}

-----------------------------------------------------------------------------
(* The PTY reader *)

\* The oldest chunk kept once chunk n is in the buffer.
KeptFrom(n) ==
  IF n + 1 - firstKept > MaxScrollback THEN n + 1 - MaxScrollback ELSE firstKept

\* A chunk is read and appended to the scrollback, outputBufferMu taken.
ReadChunk ==
  /\ rpc = "reading" /\ ptyOpen /\ appended < MaxChunks
  /\ appended' = appended + 1
  /\ firstKept' = KeptFrom(appended + 1)
  /\ rpc' = "appended"
  /\ UNCHANGED <<tracked, ptyOpen, todo, turn, channelVars, endVars, handlerVars>>

\* broadcast gives up once the session is done.
CheckDone ==
  /\ rpc = "appended"
  /\ rpc' = IF done THEN "modes" ELSE "lock"
  /\ UNCHANGED <<outputVars, todo, turn,
                 channelVars, endVars, handlerVars>>

\* clientsMu.RLock: the loop visits the clients registered now.
LockClients ==
  /\ rpc = "lock"
  /\ rpc' = "visit" /\ todo' = clients
  /\ UNCHANGED <<outputVars, turn,
                 channelVars, endVars, handlerVars>>

\* Map iteration visits the clients in any order; gapPending.Load picks the branch.
Visit(c) ==
  /\ rpc = "visit" /\ c \in todo
  /\ todo' = todo \ {c} /\ turn' = {c}
  /\ rpc' = IF c \in gapPending THEN "marker" ELSE "data"
  /\ UNCHANGED <<outputVars, channelVars, endVars,
                 handlerVars>>

SendMarker(c) ==
  /\ rpc = "marker" /\ c \in turn /\ HasRoom(c)
  /\ Enqueue(c, Gap)
  /\ rpc' = "clear"
  /\ UNCHANGED <<outputVars, todo, turn, clients,
                 gapPending, endVars, handlerVars>>

\* Mutation: the reader waits for room without a deadline.
NoTimeout(c) == c \in turn /\ HasRoom(c) /\ ~HasRoom(c) /\ UNCHANGED vars

\* The deadline passed with the channel full: the chunk is dropped with the marker.
MarkerTimeout(c) ==
  /\ rpc = "marker" /\ c \in turn /\ ~HasRoom(c)
  /\ rpc' = "visit" /\ turn' = {}
  /\ UNCHANGED <<outputVars, todo, channelVars,
                 endVars, handlerVars>>

ClearPending(c) ==
  /\ rpc = "clear" /\ c \in turn
  /\ gapPending' = gapPending \ {c}
  /\ rpc' = "data"
  /\ UNCHANGED <<outputVars, todo, turn, clients,
                 queue, endVars, handlerVars>>

SendData(c) ==
  /\ rpc = "data" /\ c \in turn /\ HasRoom(c)
  /\ Enqueue(c, appended)
  /\ rpc' = "visit" /\ turn' = {}
  /\ UNCHANGED <<outputVars, todo, clients,
                 gapPending, endVars, handlerVars>>

\* sendBoundedUntil returned false; gapPending is stored in a step of its own.
DataTimeout(c) ==
  /\ rpc = "data" /\ c \in turn /\ ~HasRoom(c)
  /\ rpc' = "drop"
  /\ UNCHANGED <<outputVars, todo, turn,
                 channelVars, endVars, handlerVars>>

RecordDrop(c) ==
  /\ rpc = "drop" /\ c \in turn
  /\ gapPending' = gapPending \cup {c}
  /\ rpc' = "visit" /\ turn' = {}
  /\ UNCHANGED <<outputVars, todo, clients, queue,
                 endVars, handlerVars>>

EndBroadcast ==
  /\ rpc = "visit" /\ todo = {}
  /\ rpc' = "modes"
  /\ UNCHANGED <<outputVars, todo, turn,
                 channelVars, endVars, handlerVars>>

\* Mutation: modes are only tracked while somebody watches.
TrackModesIfWatched ==
  /\ rpc = "modes"
  /\ tracked' = IF clients = {} THEN tracked ELSE appended
  /\ rpc' = "reading"
  /\ UNCHANGED <<appended, firstKept, ptyOpen, todo, turn, channelVars,
                 endVars, handlerVars>>

\* modes.process runs after the locks are released.
TrackModes ==
  /\ rpc = "modes"
  /\ tracked' = appended
  /\ rpc' = "reading"
  /\ UNCHANGED <<appended, firstKept, ptyOpen, todo, turn, channelVars,
                 endVars, handlerVars>>

\* Read fails: the process exited, or Close closed the PTY.
ReadError ==
  /\ rpc = "reading"
  /\ rpc' = "exited"
  /\ MarkDone
  /\ UNCHANGED <<outputVars, todo, turn,
                 channelVars, present, cpc, handlerVars>>

-----------------------------------------------------------------------------
(* Manager.Kill or Manager.cleanup, then Session.Close *)

\* The session leaves Manager.sessions before it is closed.
Kill ==
  /\ cpc = "idle"
  /\ present' = FALSE /\ cpc' = "marking"
  /\ UNCHANGED <<outputVars, loopVars, channelVars, status, done, handlerVars>>

CloseMarksDone ==
  /\ cpc = "marking"
  /\ MarkDone /\ cpc' = "killing"
  /\ UNCHANGED <<outputVars, loopVars, channelVars, present, handlerVars>>

\* The process group is signalled and the PTY closed, so Read fails.
ClosePTY ==
  /\ cpc = "killing"
  /\ ptyOpen' = FALSE /\ cpc' = "waiting"
  /\ UNCHANGED <<appended, firstKept, tracked, loopVars, channelVars, status,
                 done, present, handlerVars>>

\* After readDone, or after 2 s with the reader still running, every channel is
\* closed and forgotten under clientsMu.
SweepClients ==
  /\ cpc = "waiting" /\ ~HoldsClientsMu
  /\ clients' = {} /\ cpc' = "closed"
  /\ UNCHANGED <<outputVars, loopVars, queue, gapPending, status, done, present,
                 handlerVars>>

-----------------------------------------------------------------------------
(* The Attach handler of client c *)

Goto(c, to) == hpc' = [hpc EXCEPT ![c] = to]

\* The client was registered once and its channel has been closed since.
Closed(c) == hpc[c] \notin {"out", "admitted"} /\ c \notin clients

\* The client goes away, or the server cancels its stream: the handler notices at a
\* send or in its select.
Disconnect(c) ==
  /\ hpc[c] \in {"replaying", "streaming", "asking"} /\ c \notin cut
  /\ cut' = cut \cup {c}
  /\ UNCHANGED <<outputVars, loopVars, channelVars, endVars, hpc, snap, got, draining>>

\* Manager.Attach finds the session and sees it is not done.
Admit(c) ==
  /\ hpc[c] = "out" /\ present /\ ~done
  /\ Goto(c, "admitted")
  /\ UNCHANGED <<outputVars, loopVars, channelVars, endVars, snap, got, draining, cut>>

\* AttachClient: snapshot and registration under outputBufferMu and clientsMu.
AttachClient(c) ==
  /\ hpc[c] = "admitted" /\ ~HoldsOutputMu
  /\ snap' = [snap EXCEPT ![c] = <<firstKept, appended>>]
  /\ clients' = clients \cup {c}
  /\ Goto(c, IF clients = {} THEN "noting" ELSE "replaying")
  /\ UNCHANGED <<outputVars, loopVars, queue, gapPending, endVars, got, draining, cut>>

\* noteClientAttached, for the client that was the first.
NoteAttached(c) ==
  /\ hpc[c] = "noting"
  /\ status' = IF status = "idle" THEN "running" ELSE status
  /\ Goto(c, "replaying")
  /\ UNCHANGED <<outputVars, loopVars, channelVars, done, present, cpc, snap, got,
                 draining, cut>>

\* The replay is sent; then the session is looked up again.
SendReplay(c) ==
  /\ hpc[c] = "replaying" /\ c \notin cut
  /\ got' = [got EXCEPT ![c] = Chunks(snap[c][1], snap[c][2])]
  /\ Goto(c, IF present THEN "streaming" ELSE "detaching")
  /\ UNCHANGED <<outputVars, loopVars, channelVars, endVars, snap, draining, cut>>

\* deliver: one queued item is taken and sent.
Deliver(c) ==
  /\ hpc[c] = "streaming" /\ queue[c] # <<>> /\ c \notin cut
  /\ queue' = [queue EXCEPT ![c] = Tail(@)]
  /\ got' = [got EXCEPT ![c] = Append(@, Head(queue[c]))]
  /\ Goto(c, IF Head(queue[c]) = Gap THEN "streaming" ELSE "sent")
  /\ UNCHANGED <<outputVars, loopVars, clients, gapPending, endVars, snap, draining, cut>>

\* After a data chunk, len(outputCh) decides whether to ask for a tail gap.
CheckDrained(c) ==
  /\ hpc[c] = "sent"
  /\ Goto(c, IF queue[c] = <<>> THEN "asking" ELSE "streaming")
  /\ UNCHANGED <<outputVars, loopVars, channelVars, endVars, snap, got, draining, cut>>

\* TakeOutputGap, and sendGap when it reports one.
TakeOutputGap(c) ==
  /\ hpc[c] = "asking"
  /\ IF c \in clients /\ c \in gapPending
     THEN /\ gapPending' = gapPending \ {c}
          /\ got' = [got EXCEPT ![c] = IF c \in cut THEN @ ELSE Append(@, Gap)]
          /\ Goto(c, IF c \in cut THEN "detaching" ELSE "streaming")
     ELSE /\ Goto(c, "streaming")
          /\ UNCHANGED <<gapPending, got>>
  /\ UNCHANGED <<outputVars, loopVars, clients, queue, endVars, snap, draining, cut>>

\* Mutation: the select has no Done case.
NeverSeeDone(c) == hpc[c] = "out" /\ c \in draining /\ UNCHANGED vars

\* The select loop picks the Done case.
SeeDone(c) ==
  /\ hpc[c] = "streaming" /\ done /\ c \notin draining
  /\ draining' = draining \cup {c}
  /\ UNCHANGED <<outputVars, loopVars, channelVars, endVars, hpc, snap, got, cut>>

\* Mutation: Done returns at once instead of draining.
LeaveAtDone(c) ==
  /\ hpc[c] = "streaming"
  /\ c \in draining \/ (queue[c] = <<>> /\ Closed(c))
  /\ Goto(c, "detaching")
  /\ UNCHANGED <<outputVars, loopVars, channelVars, endVars, snap, got, draining, cut>>

\* The loop ends: channel closed, or the drain found nothing queued.
LeaveEmpty(c) ==
  /\ hpc[c] = "streaming" /\ queue[c] = <<>>
  /\ Closed(c) \/ c \in draining
  /\ Goto(c, "detaching")
  /\ UNCHANGED <<outputVars, loopVars, channelVars, endVars, snap, got, draining, cut>>

\* A send fails, with the item it took lost, or the context case is picked.
LeaveCut(c) ==
  /\ c \in cut
  /\ \/ hpc[c] = "replaying" /\ UNCHANGED queue
     \/ hpc[c] = "streaming" /\ c \notin draining /\ UNCHANGED queue
     \/ /\ hpc[c] = "streaming" /\ queue[c] # <<>>
        /\ queue' = [queue EXCEPT ![c] = Tail(@)]
  /\ Goto(c, "detaching")
  /\ UNCHANGED <<outputVars, loopVars, clients, gapPending, endVars, snap, got,
                 draining, cut>>

\* Manager.Detach looks the session up; once it is gone there is nothing to do.
Detach(c) ==
  /\ hpc[c] = "detaching"
  /\ Goto(c, IF present THEN "removing" ELSE "left")
  /\ UNCHANGED <<outputVars, loopVars, channelVars, endVars, snap, got, draining, cut>>

\* Mutation: the clients are counted before the removal.
LastClientBefore(c) == clients = {} /\ c \in Clients

LastClient(c) == clients \ {c} = {}

\* RemoveClient under clientsMu; the status is set after the lock is released.
RemoveClient(c) ==
  /\ hpc[c] = "removing" /\ ~HoldsClientsMu
  /\ clients' = clients \ {c}
  /\ Goto(c, IF LastClient(c) THEN "idling" ELSE "left")
  /\ UNCHANGED <<outputVars, loopVars, queue, gapPending, endVars, snap, got,
                 draining, cut>>

SetIdle(c) ==
  /\ hpc[c] = "idling"
  /\ status' = IF status = "running" THEN "idle" ELSE status
  /\ Goto(c, "left")
  /\ UNCHANGED <<outputVars, loopVars, channelVars, done, present, cpc, snap, got,
                 draining, cut>>

-----------------------------------------------------------------------------
(* The specification *)

Serve(c) ==
  \/ Visit(c) \/ SendMarker(c) \/ MarkerTimeout(c) \/ ClearPending(c)
  \/ SendData(c) \/ DataTimeout(c) \/ RecordDrop(c)

Broadcast ==
  CheckDone \/ LockClients \/ (\E c \in Clients : Serve(c)) \/ EndBroadcast \/ TrackModes

Reader == ReadChunk \/ Broadcast \/ ReadError

Close == CloseMarksDone \/ ClosePTY \/ SweepClients

Handler(c) ==
  \/ AttachClient(c) \/ NoteAttached(c) \/ SendReplay(c) \/ Deliver(c)
  \/ CheckDrained(c) \/ TakeOutputGap(c) \/ SeeDone(c) \/ LeaveEmpty(c)
  \/ LeaveCut(c) \/ Detach(c) \/ RemoveClient(c) \/ SetIdle(c)

Next ==
  \/ Reader \/ Kill \/ Close
  \/ \E c \in Clients : Admit(c) \/ Disconnect(c) \/ Handler(c)

\* Every goroutine that can run does; when the process writes or exits, when a
\* client calls or hangs up and whether a stalled link moves are left open.
Fairness ==
  /\ WF_vars(Broadcast) /\ WF_vars(ReadError /\ ~ptyOpen) /\ WF_vars(Close)
  /\ \A c \in Clients \ Stalled : WF_vars(Handler(c))

Spec == Init /\ [][Next]_vars /\ Fairness
-----------------------------------------------------------------------------
(* Properties *)

ReaderSteps == {"reading", "appended", "lock", "visit", "marker", "clear", "data", "drop",
                "modes", "exited"}

HandlerSteps == {"out", "admitted", "noting", "replaying", "streaming", "sent", "asking",
                 "detaching", "removing", "idling", "left"}

\* Every variable keeps its type and the reader's loop its shape: it serves one
\* client at a time, and no channel ever exceeds its capacity (session.go:310-325).
TypeOK ==
  /\ appended \in 0 .. MaxChunks
  /\ firstKept \in 1 .. (MaxChunks + 1)
  /\ tracked \in 0 .. MaxChunks
  /\ ptyOpen \in BOOLEAN
  /\ rpc \in ReaderSteps
  /\ todo \subseteq Clients
  /\ turn \in {{}} \cup {{c} : c \in Clients}
  /\ clients \subseteq Clients
  /\ queue \in [Clients -> Seq(0 .. MaxChunks)]
  /\ \A c \in Clients : Len(queue[c]) <= ChannelCap
  /\ gapPending \subseteq Clients
  /\ status \in {"idle", "running", "ended"}
  /\ done \in BOOLEAN
  /\ present \in BOOLEAN
  /\ cpc \in {"idle", "marking", "killing", "waiting", "closed"}
  /\ hpc \in [Clients -> HandlerSteps]
  /\ snap \in [Clients -> (1 .. (MaxChunks + 1)) \X (0 .. MaxChunks)]
  /\ got \in [Clients -> Seq(0 .. MaxChunks)]
  /\ draining \subseteq Clients
  /\ cut \subseteq Clients

\* What a client has been sent, the replay included once it is cut from the buffer.
Sent(c) ==
  IF hpc[c] \in {"noting", "replaying"} THEN Chunks(snap[c][1], snap[c][2]) ELSE got[c]

\* All the output a client has, or will have once its channel is drained.
Stream(c) == Sent(c) \o queue[c]

Ordered(s) ==
  \A i, j \in 1 .. Len(s) : i < j /\ s[i] # Gap /\ s[j] # Gap => s[i] < s[j]

\* Replay and live stream never repeat or reorder a chunk: a chunk lands in the
\* attach snapshot or in the channel, never in both (session.go:288-293, 419-422).
InOrder == \A c \in Clients : Ordered(Stream(c))

\* Positions of s where the chunk before is missing from what client c was sent.
Skips(c, s) ==
  {i \in 1 .. Len(s) : /\ s[i] # Gap /\ s[i] # snap[c][1]
                      /\ \A j \in 1 .. (i - 1) : s[j] # s[i] - 1}

Markers(s) == {i \in 1 .. Len(s) : s[i] = Gap}

\* The last chunk the reader has finished offering to client c.
Offered(c) ==
  IF rpc \in {"appended", "lock"} \/ c \in todo \cup turn THEN appended - 1 ELSE appended

\* No loss is silent: when the client reads the chunk after a hole it has already
\* been sent a marker for that hole, and a hole at the end of the stream is marked
\* or still owed (gapPending).  A chunk between snapshot and registration would be
\* such a silent hole (session.go:289-293, 524-532).
LossIsFlagged ==
  \A c \in clients \ cut : LET s == Stream(c) IN
    /\ \A k \in 1 .. Len(s) :
         Cardinality({i \in Skips(c, s) : i <= k}) <= Cardinality({i \in Markers(s) : i <= k})
    /\ /\ cpc \in {"idle", "marking"}
       /\ Offered(c) >= snap[c][1]
       /\ \A i \in 1 .. Len(s) : s[i] # Offered(c)
       /\ c \notin gapPending
       => Cardinality(Skips(c, s)) < Cardinality(Markers(s))

\* The reader only sends to channels that are open: the recover() in broadcast
\* (session.go:459-461) is never needed, since channels close under clientsMu.
SendsOnOpenChannels == todo \cup turn \subseteq clients

\* When a session ends by itself, a client that leaves through the Done case has
\* been sent everything that was queued for it (server.go:688-693).
DrainIsComplete ==
  \A c \in draining \ cut :
    done /\ cpc = "idle" /\ hpc[c] \in {"detaching", "removing", "idling", "left"}
      => queue[c] = <<>>

\* The mode preamble and the scrollback together cover all output, though modes are
\* tracked after the buffer is unlocked (pty.go:193-198, session.go:296-299).
ReplayCoversModes == \A n \in 1 .. appended : n <= tracked \/ n >= firstKept

\* What a client is not sent it knows to be missing: what it has and will have is in
\* order, holes are marked, and the end of the output is not left in the channel
\* (session.go:288-293, 471-532, server.go:688-707).
NothingIsLostSilently == InOrder /\ LossIsFlagged /\ DrainIsComplete

\* A session whose last client is gone does not stay Running, where the idle
\* timeout would never reap it: someone is about to set it Idle (session.go:388-400).
RunningHasAClient ==
  status = "running" => clients # {} \/ \E c \in Clients : hpc[c] = "idling"

\* A client that has stopped reading holds the reader only for bounded waits
\* (session.go:61-67): the reader always gets back to reading the PTY.
ReaderNotHostage == []<>(rpc \in {"reading", "exited"})

\* Once the session has ended every handler whose link moves returns: a channel
\* registered after Close's sweep is never closed, but Done ends it (server.go:676-715).
HandlersLeave ==
  \A c \in Clients \ Stalled : done /\ hpc[c] # "out" ~> hpc[c] \in {"out", "left"}

\* Close completes even while the reader is held up by a stalled client: it needs
\* clientsMu, which the reader keeps during its waits (pty.go:367-388).
CloseCompletes == cpc = "marking" ~> cpc = "closed"

\* A stalled client holds up neither the reader nor the end of the session.
StallIsBounded == ReaderNotHostage /\ CloseCompletes

\* "No clients attached but process still running" (session.go:36), once nobody is
\* between changing the clients and changing the status.
IdleMeansNoClients ==
  status = "idle" /\ (\A c \in Clients : hpc[c] \notin {"noting", "idling"}) => clients = {}

Promise == INSTANCE OutputPromise WITH
  Depth <- MaxScrollback, written <- appended,
  attached <- {c \in Clients : hpc[c] \notin {"out", "admitted"}},
  window <- snap, received <- got

\* What reaches a client, through reader, channel and handler, is what it may count on:
\* the last output whole, then later chunks, each missing one marked before it goes on,
\* also when the session ends meanwhile (session.go:288-293, 419-532,
\* server.go:603-715).
ImplementsPromise == Promise!Spec
=============================================================================
