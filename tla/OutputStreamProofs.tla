------------------------- MODULE OutputStreamProofs -------------------------
(***************************************************************************)
(* Proofs about OutputStream, for any number of clients, any channel and   *)
(* scrollback capacity and any amount of output.                           *)
(***************************************************************************)
EXTENDS OutputStream, Integers, FiniteSetTheorems, SequenceTheorems, TLAPS

\* Goto moves one handler and keeps the type of hpc.
LEMMA GotoType ==
  ASSUME NEW c \in Clients, NEW to \in HandlerSteps,
         hpc \in [Clients -> HandlerSteps], Goto(c, to)
  PROVE  hpc' \in [Clients -> HandlerSteps]
BY DEF Goto

\* Appending an item, or taking the first, keeps a sequence's type.
LEMMA SeqType ==
  ASSUME NEW S, NEW s \in Seq(S)
  PROVE  /\ \A x \in S : Append(s, x) \in Seq(S)
         /\ s # <<>> => Head(s) \in S /\ Tail(s) \in Seq(S) /\ Len(Tail(s)) = Len(s) - 1
OBVIOUS

\* The chunks of an interval are a sequence of chunk numbers (server.go:603-616).
LEMMA ChunksType ==
  ASSUME NEW from \in 1 .. (MaxChunks + 1), NEW to \in 0 .. MaxChunks
  PROVE  Chunks(from, to) \in Seq(0 .. MaxChunks)
<1> USE StreamAssumption
<1>1. PICK n \in Nat : 1 .. (to + 1 - from) = 1 .. n /\ (n > 0 => n = to + 1 - from)
  <2>1. CASE to + 1 - from >= 0
    <3> DEFINE n == to + 1 - from
    <3>1. n \in Nat
      BY <2>1
    <3> WITNESS n \in Nat
    <3> QED OBVIOUS
  <2>2. CASE to + 1 - from < 0
    <3>1. 1 .. (to + 1 - from) = 1 .. 0
      BY <2>2
    <3> QED BY <3>1
  <2> QED BY <2>1, <2>2
<1>2. \A i \in 1 .. n : from + i - 1 \in 0 .. MaxChunks
  BY <1>1
<1>3. Chunks(from, to) = [i \in 1 .. n |-> from + i - 1]
  BY <1>1 DEF Chunks
<1>4. [i \in 1 .. n |-> from + i - 1] \in [1 .. n -> 0 .. MaxChunks]
  BY <1>2
<1> QED BY <1>3, <1>4

\* The initial values are of the right type (session.go:129-178).
LEMMA TypeInit == Init => TypeOK
<1> USE StreamAssumption
<1> SUFFICES ASSUME Init PROVE TypeOK
  OBVIOUS
<1>1. queue \in [Clients -> Seq(0 .. MaxChunks)] /\ \A c \in Clients : Len(queue[c]) <= ChannelCap
  BY DEF Init
<1>2. got \in [Clients -> Seq(0 .. MaxChunks)]
  BY DEF Init
<1>3. snap \in [Clients -> (1 .. (MaxChunks + 1)) \X (0 .. MaxChunks)]
  BY DEF Init
<1>4. hpc \in [Clients -> HandlerSteps]
  BY DEF Init, HandlerSteps
<1>5. appended \in 0 .. MaxChunks /\ tracked \in 0 .. MaxChunks /\ firstKept \in 1 .. (MaxChunks + 1)
  BY DEF Init
<1>6. /\ rpc \in ReaderSteps
      /\ status \in {"idle", "running", "ended"}
      /\ cpc \in {"idle", "marking", "killing", "waiting", "closed"}
  BY DEF Init, ReaderSteps
<1>7. ptyOpen \in BOOLEAN /\ done \in BOOLEAN /\ present \in BOOLEAN
  BY DEF Init
<1>8. /\ todo \subseteq Clients /\ turn \in {{}} \cup {{c} : c \in Clients}
      /\ clients \subseteq Clients /\ gapPending \subseteq Clients
      /\ draining \subseteq Clients /\ cut \subseteq Clients
  BY DEF Init
<1> QED BY <1>1, <1>2, <1>3, <1>4, <1>5, <1>6, <1>7, <1>8 DEF TypeOK

\* Every action keeps the types; a send needs room and takes one item of it.
LEMMA TypeStep == TypeOK /\ [Next]_vars => TypeOK'
<1> USE StreamAssumption
<1> SUFFICES ASSUME TypeOK, [Next]_vars PROVE TypeOK'
  OBVIOUS
<1> USE DEF TypeOK, ReaderSteps, outputVars, loopVars, channelVars, endVars, handlerVars
<1>1. CASE ReadChunk
  BY <1>1 DEF ReadChunk, KeptFrom
<1>2. CASE CheckDone
  BY <1>2 DEF CheckDone
<1>3. CASE LockClients
  BY <1>3 DEF LockClients
<1>4. ASSUME NEW c \in Clients, Serve(c)
      PROVE  TypeOK'
  <2>1. CASE Visit(c)
    BY <2>1 DEF Visit
  <2>2. CASE SendMarker(c)
    BY <2>2 DEF SendMarker, Enqueue, HasRoom, Gap
  <2>3. CASE MarkerTimeout(c)
    BY <2>3 DEF MarkerTimeout
  <2>4. CASE ClearPending(c)
    BY <2>4 DEF ClearPending
  <2>5. CASE SendData(c)
    BY <2>5, SMTT(30) DEF SendData, Enqueue, HasRoom
  <2>6. CASE DataTimeout(c)
    BY <2>6 DEF DataTimeout
  <2>7. CASE RecordDrop(c)
    BY <2>7 DEF RecordDrop
  <2> QED BY <1>4, <2>1, <2>2, <2>3, <2>4, <2>5, <2>6, <2>7 DEF Serve
<1>5. CASE EndBroadcast
  BY <1>5 DEF EndBroadcast
<1>6. CASE TrackModes
  BY <1>6 DEF TrackModes
<1>7. CASE ReadError
  BY <1>7 DEF ReadError, MarkDone
<1>8. CASE Kill
  BY <1>8 DEF Kill
<1>9. CASE Close
  BY <1>9, ZenonT(60) DEF Close, CloseMarksDone, ClosePTY, SweepClients, MarkDone
<1>10. ASSUME NEW c \in Clients, Admit(c) \/ Disconnect(c)
       PROVE  TypeOK'
  <2>1. hpc' \in [Clients -> HandlerSteps]
    BY <1>10, GotoType DEF Admit, Disconnect, HandlerSteps
  <2>2. CASE Admit(c)
    BY <2>1, <2>2 DEF Admit
  <2>3. CASE Disconnect(c)
    BY <2>1, <2>3, SMTT(30) DEF Disconnect
  <2> QED BY <1>10, <2>2, <2>3
<1>11. ASSUME NEW c \in Clients, Handler(c)
       PROVE  TypeOK'
  <2>1. CASE AttachClient(c)
    <3>1. hpc' \in [Clients -> HandlerSteps]
      BY <2>1, GotoType DEF AttachClient, HandlerSteps
    <3>2. snap' \in [Clients -> (1 .. (MaxChunks + 1)) \X (0 .. MaxChunks)]
      BY <2>1 DEF AttachClient
    <3> QED BY <2>1, <3>1, <3>2, SMTT(30) DEF AttachClient
  <2>2. CASE NoteAttached(c)
    BY <2>2, GotoType DEF NoteAttached, HandlerSteps
  <2>3. CASE SendReplay(c)
    <3>1. hpc' \in [Clients -> HandlerSteps]
      BY <2>3, GotoType DEF SendReplay, HandlerSteps
    <3>2. snap[c][1] \in 1 .. (MaxChunks + 1) /\ snap[c][2] \in 0 .. MaxChunks
      OBVIOUS
    <3>3. Chunks(snap[c][1], snap[c][2]) \in Seq(0 .. MaxChunks)
      BY <3>2, ChunksType
    <3> QED BY <2>3, <3>1, <3>3, ZenonT(60) DEF SendReplay
  <2>4. CASE Deliver(c)
    <3>1. hpc' \in [Clients -> HandlerSteps]
      BY <2>4, GotoType DEF Deliver, HandlerSteps
    <3>2. /\ Head(queue[c]) \in 0 .. MaxChunks
          /\ Tail(queue[c]) \in Seq(0 .. MaxChunks) /\ Len(Tail(queue[c])) <= ChannelCap
      BY <2>4, SeqType DEF Deliver
    <3>3. Append(got[c], Head(queue[c])) \in Seq(0 .. MaxChunks)
      BY <3>2, SeqType
    <3> QED BY <2>4, <3>1, <3>2, <3>3, ZenonT(60) DEF Deliver
  <2>5. CASE CheckDrained(c)
    <3>1. hpc' \in [Clients -> HandlerSteps]
      BY <2>5, GotoType DEF CheckDrained, HandlerSteps
    <3> QED BY <2>5, <3>1, SMTT(30) DEF CheckDrained
  <2>6. CASE TakeOutputGap(c)
    <3>1. hpc' \in [Clients -> HandlerSteps]
      BY <2>6, GotoType DEF TakeOutputGap, HandlerSteps
    <3>2. Append(got[c], Gap) \in Seq(0 .. MaxChunks)
      BY SeqType DEF Gap
    <3>3. got' \in [Clients -> Seq(0 .. MaxChunks)] /\ gapPending' \subseteq Clients
      BY <2>6, <3>2 DEF TakeOutputGap
    <3> QED BY <2>6, <3>1, <3>3, SMTT(90) DEF TakeOutputGap
  <2>7. CASE SeeDone(c)
    BY <2>7, SMTT(30) DEF SeeDone
  <2>8. CASE LeaveEmpty(c) \/ Detach(c)
    <3>1. hpc' \in [Clients -> HandlerSteps]
      BY <2>8, GotoType DEF LeaveEmpty, Detach, HandlerSteps
    <3>2. CASE LeaveEmpty(c)
      BY <3>1, <3>2, SMTT(30) DEF LeaveEmpty
    <3>3. CASE Detach(c)
      BY <3>1, <3>3, SMTT(30) DEF Detach
    <3> QED BY <2>8, <3>2, <3>3
  <2>9. CASE RemoveClient(c) \/ SetIdle(c)
    <3>1. hpc' \in [Clients -> HandlerSteps]
      BY <2>9, GotoType DEF RemoveClient, SetIdle, HandlerSteps
    <3>2. CASE RemoveClient(c)
      BY <3>1, <3>2, SMTT(30) DEF RemoveClient
    <3>3. CASE SetIdle(c)
      BY <3>1, <3>3, SMTT(30) DEF SetIdle
    <3> QED BY <2>9, <3>2, <3>3
  <2>10. CASE LeaveCut(c)
    <3>1. hpc' \in [Clients -> HandlerSteps]
      BY <2>10, GotoType DEF LeaveCut, HandlerSteps
    <3>2. queue[c] # <<>> =>
            Tail(queue[c]) \in Seq(0 .. MaxChunks) /\ Len(Tail(queue[c])) <= ChannelCap
      BY SeqType
    <3>3. /\ queue' \in [Clients -> Seq(0 .. MaxChunks)]
          /\ \A d \in Clients : Len(queue'[d]) <= ChannelCap
      BY <2>10, <3>2 DEF LeaveCut
    <3> QED BY <2>10, <3>1, <3>3, SMTT(90) DEF LeaveCut
  <2> QED BY <1>11, <2>1, <2>2, <2>3, <2>4, <2>5, <2>6, <2>7, <2>8,
            <2>9, <2>10 DEF Handler
<1>12. CASE UNCHANGED vars
  BY <1>12 DEF vars
<1> QED
  BY <1>1, <1>2, <1>3, <1>4, <1>5, <1>6, <1>7, <1>8, <1>9, <1>10, <1>11, <1>12
  DEF Next, Reader, Broadcast

\* Type correctness (session.go:74-125): in particular a channel never holds more
\* items than its capacity and the reader serves one client at a time.
THEOREM TypeCorrect == Spec => []TypeOK
<1> QED BY TypeInit, TypeStep, PTL DEF Spec

-----------------------------------------------------------------------------
(* The invariant that makes three properties inductive *)

\* Between broadcasts the reader's loop has nothing to visit (pty.go:447-500).
LoopIsEmptyOutside ==
  /\ ~HoldsClientsMu => todo = {}
  /\ rpc \notin {"marker", "clear", "data", "drop"} => turn = {}

\* Only TrackModes lags behind the buffer, by one chunk and one step (pty.go:193-198).
TrackedFollows ==
  /\ tracked = IF rpc \in {"reading", "exited"} THEN appended ELSE appended - 1
  /\ firstKept <= IF appended = 0 THEN 1 ELSE appended

\* The status says Ended from markDone on, and a closer starts with markDone
\* (session.go:262-280, pty.go:346-354).
EndIsMarked ==
  /\ done <=> status = "ended"
  /\ cpc \in {"killing", "waiting", "closed"} => done

\* A first client is still registered when noteClientAttached looks at the status,
\* unless the session has ended (session.go:328-352).
NotingIsRegistered == \A c \in Clients : hpc[c] = "noting" /\ ~done => c \in clients

StreamInv ==
  /\ TypeOK
  /\ LoopIsEmptyOutside /\ SendsOnOpenChannels
  /\ TrackedFollows
  /\ EndIsMarked /\ NotingIsRegistered /\ RunningHasAClient

\* The reader's sends stay within the registered clients: both ways out of the map
\* need clientsMu, which the loop holds (session.go:359-368, pty.go:367-388).
LEMMA LoopStep ==
  ASSUME TypeOK, LoopIsEmptyOutside, SendsOnOpenChannels, [Next]_vars
  PROVE  LoopIsEmptyOutside' /\ SendsOnOpenChannels'
<1> USE DEF LoopIsEmptyOutside, SendsOnOpenChannels, HoldsClientsMu,
            outputVars, loopVars, channelVars, endVars, handlerVars
<1>1. CASE Reader
  <2>1. CASE ReadChunk \/ ReadError
    BY <2>1 DEF ReadChunk, ReadError
  <2>2. CASE CheckDone \/ LockClients \/ EndBroadcast \/ TrackModes
    BY <2>2 DEF CheckDone, LockClients, EndBroadcast, TrackModes
  <2>3. ASSUME NEW c \in Clients, Serve(c)
        PROVE  LoopIsEmptyOutside' /\ SendsOnOpenChannels'
    <3>1. CASE Visit(c)
      BY <3>1 DEF Visit
    <3>2. CASE SendMarker(c) \/ ClearPending(c) \/ DataTimeout(c)
      BY <3>2 DEF SendMarker, ClearPending, DataTimeout
    <3>3. CASE MarkerTimeout(c) \/ SendData(c) \/ RecordDrop(c)
      BY <3>3 DEF MarkerTimeout, SendData, RecordDrop
    <3> QED BY <2>3, <3>1, <3>2, <3>3 DEF Serve
  <2> QED BY <1>1, <2>1, <2>2, <2>3 DEF Reader, Broadcast
<1>2. CASE Kill \/ Close
  BY <1>2 DEF Kill, Close, CloseMarksDone, ClosePTY, SweepClients
<1>3. ASSUME NEW c \in Clients, Admit(c) \/ Disconnect(c) \/ Handler(c)
      PROVE  LoopIsEmptyOutside' /\ SendsOnOpenChannels'
  <2>1. CASE AttachClient(c) \/ RemoveClient(c)
    BY <2>1 DEF AttachClient, RemoveClient
  <2>2. CASE ~(AttachClient(c) \/ RemoveClient(c))
    <3>1. UNCHANGED <<rpc, todo, turn, clients>>
      BY <1>3, <2>2 DEF Admit, Disconnect, Handler, NoteAttached, SendReplay, Deliver,
         CheckDrained, TakeOutputGap, SeeDone, LeaveEmpty, LeaveCut, Detach, SetIdle
    <3> QED BY <3>1
  <2> QED BY <2>1, <2>2
<1>4. CASE UNCHANGED vars
  BY <1>4 DEF vars
<1> QED BY <1>1, <1>2, <1>3, <1>4 DEF Next

\* Every trimmed chunk has been tracked: a chunk is trimmed by a later append, which
\* the reader makes only after TrackModes (pty.go:187-198).
LEMMA TrackedStep ==
  ASSUME TypeOK, TrackedFollows, [Next]_vars
  PROVE  TrackedFollows'
<1> USE StreamAssumption
    DEF TrackedFollows, outputVars, loopVars, channelVars, endVars, handlerVars
<1>1. CASE Reader
  <2>1. CASE ReadChunk
    BY <2>1 DEF ReadChunk, KeptFrom, TypeOK
  <2>2. CASE ReadError
    BY <2>2 DEF ReadError
  <2>3. CASE Broadcast /\ ~TrackModes
    <3>1. UNCHANGED outputVars
      BY <2>3 DEF Broadcast, CheckDone, LockClients, EndBroadcast, Serve, Visit, SendMarker,
         MarkerTimeout, ClearPending, SendData, DataTimeout, RecordDrop
    <3>2. rpc \notin {"reading", "exited"} /\ rpc' \notin {"reading", "exited"}
      BY <2>3 DEF Broadcast, CheckDone, LockClients, EndBroadcast, Serve, Visit, SendMarker,
         MarkerTimeout, ClearPending, SendData, DataTimeout, RecordDrop
    <3> QED BY <3>1, <3>2
  <2>4. CASE TrackModes
    BY <2>4 DEF TrackModes
  <2> QED BY <1>1, <2>1, <2>2, <2>3, <2>4 DEF Reader
<1>2. CASE ~Reader
  <2>1. UNCHANGED <<appended, firstKept, tracked, rpc>>
    BY <1>2 DEF Next, vars, Kill, Close, CloseMarksDone, ClosePTY, SweepClients, Admit,
       Disconnect, Handler, AttachClient, NoteAttached, SendReplay, Deliver, CheckDrained,
       TakeOutputGap, SeeDone, LeaveEmpty, LeaveCut, Detach, RemoveClient, SetIdle
  <2> QED BY <2>1
<1> QED BY <1>1, <1>2

\* Registration and status are changed in separate steps, by several handlers, and
\* Close changes both: a Running session without clients always has its SetIdle
\* to come (session.go:328-406).
LEMMA StatusStep ==
  ASSUME TypeOK, EndIsMarked, NotingIsRegistered, RunningHasAClient, [Next]_vars
  PROVE  EndIsMarked' /\ NotingIsRegistered' /\ RunningHasAClient'
<1> DEFINE P == EndIsMarked' /\ NotingIsRegistered' /\ RunningHasAClient'
<1> USE DEF EndIsMarked, NotingIsRegistered, RunningHasAClient,
            outputVars, loopVars, channelVars, endVars, handlerVars
<1>1. CASE Reader
  <2>1. CASE ReadError
    BY <2>1 DEF ReadError, MarkDone
  <2>2. CASE ~ReadError
    <3>1. UNCHANGED <<clients, status, done, cpc, hpc>>
      BY <1>1, <2>2 DEF Reader, ReadChunk, Broadcast, CheckDone, LockClients, EndBroadcast,
         TrackModes, Serve, Visit, SendMarker, MarkerTimeout, ClearPending, SendData,
         DataTimeout, RecordDrop, Enqueue
    <3> QED BY <3>1
  <2> QED BY <2>1, <2>2
<1>2. CASE Kill \/ Close
  BY <1>2 DEF Kill, Close, CloseMarksDone, ClosePTY, SweepClients, MarkDone
<1>3. ASSUME NEW c \in Clients, Admit(c) \/ Disconnect(c) \/ Handler(c)
      PROVE  P
  <2>1. CASE AttachClient(c)
    BY <2>1 DEF AttachClient, Goto, TypeOK
  <2>2. CASE NoteAttached(c)
    BY <2>2 DEF NoteAttached, Goto, TypeOK
  <2>3. CASE RemoveClient(c)
    BY <2>3 DEF RemoveClient, Goto, LastClient, TypeOK
  <2>4. CASE SetIdle(c)
    BY <2>4 DEF SetIdle, Goto, TypeOK
  <2>5. CASE ~(AttachClient(c) \/ NoteAttached(c) \/ RemoveClient(c) \/ SetIdle(c))
    <3>1. UNCHANGED <<clients, status, done, cpc>>
      BY <1>3, <2>5 DEF Admit, Disconnect, Handler, SendReplay, Deliver, CheckDrained,
         TakeOutputGap, SeeDone, LeaveEmpty, LeaveCut, Detach
    <3>2. \A d \in Clients : hpc[d] = "idling" <=> hpc'[d] = "idling"
      BY <1>3, <2>5 DEF Admit, Disconnect, Handler, SendReplay, Deliver, CheckDrained,
         TakeOutputGap, SeeDone, LeaveEmpty, LeaveCut, Detach, Goto, TypeOK
    <3>3. \A d \in Clients : hpc'[d] = "noting" => hpc[d] = "noting"
      BY <1>3, <2>5 DEF Admit, Disconnect, Handler, SendReplay, Deliver, CheckDrained,
         TakeOutputGap, SeeDone, LeaveEmpty, LeaveCut, Detach, Goto, TypeOK
    <3> QED BY <3>1, <3>2, <3>3
  <2> QED BY <2>1, <2>2, <2>3, <2>4, <2>5
<1>4. CASE UNCHANGED vars
  BY <1>4 DEF vars
<1> QED BY <1>1, <1>2, <1>3, <1>4 DEF Next

\* The invariant holds in every state of every behaviour.
THEOREM Invariance == Spec => []StreamInv
<1>1. Init => StreamInv
  BY TypeInit DEF Init, StreamInv, LoopIsEmptyOutside, SendsOnOpenChannels, TrackedFollows,
     EndIsMarked, NotingIsRegistered, RunningHasAClient, HoldsClientsMu
<1>2. StreamInv /\ [Next]_vars => StreamInv'
  BY TypeStep, LoopStep, TrackedStep, StatusStep DEF StreamInv
<1>3. QED BY <1>1, <1>2, PTL DEF Spec

\* The recover() around the sends is never needed (session.go:459-461).
THEOREM OpenChannels == Spec => []SendsOnOpenChannels
<1>1. StreamInv => SendsOnOpenChannels
  BY DEF StreamInv
<1> QED BY <1>1, Invariance, PTL

\* No output escapes both the preamble and the scrollback (session.go:296-299).
THEOREM ReplayIsComplete == Spec => []ReplayCoversModes
<1>1. StreamInv => ReplayCoversModes
  BY DEF StreamInv, TrackedFollows, ReplayCoversModes, TypeOK
<1> QED BY <1>1, Invariance, PTL

\* A session without clients does not stay Running (session.go:388-400).
THEOREM RunningIsWatched == Spec => []RunningHasAClient
<1>1. StreamInv => RunningHasAClient
  BY DEF StreamInv
<1> QED BY <1>1, Invariance, PTL

-----------------------------------------------------------------------------
(* Replay and live stream are in order *)

\* No chunk of s is later than n.
AtMost(s, n) == \A i \in 1 .. Len(s) : s[i] <= n

\* A new chunk, or a marker, at the end keeps the order.
LEMMA OrderAppend ==
  ASSUME NEW s \in Seq(Nat), NEW n \in Nat, NEW x \in Nat,
         Ordered(s), AtMost(s, n), x = Gap \/ x > n
  PROVE  Ordered(Append(s, x))
BY SMTT(30) DEF Ordered, AtMost, Gap

\* Moving the head of the queue to what was sent, or queueing, is associative.
LEMMA Moves ==
  ASSUME NEW s \in Seq(Nat), NEW q \in Seq(Nat), NEW x \in Nat
  PROVE  /\ s \o Append(q, x) = Append(s \o q, x)
         /\ q # <<>> => Append(s, Head(q)) \o Tail(q) = s \o q
<1>1. s \o Append(q, x) = Append(s \o q, x)
  OBVIOUS
<1>2. ASSUME q # <<>>
      PROVE  Append(s, Head(q)) \o Tail(q) = s \o q
  <2>1. Head(q) \in Nat /\ Tail(q) \in Seq(Nat) /\ Len(Tail(q)) = Len(q) - 1
    BY <1>2
  <2> DEFINE t == Append(s, Head(q)) \o Tail(q)
             u == s \o q
  <2>2. t \in Seq(Nat) /\ u \in Seq(Nat) /\ Len(t) = Len(u)
    BY <2>1
  <2>3. \A k \in 1 .. Len(u) : t[k] = u[k]
    BY <1>2, <2>1
  <2> HIDE DEF t, u
  <2>4. t = u
    BY ONLY <2>2, <2>3, SeqEqual
  <2> QED BY <2>4 DEF t, u
<1> QED BY <1>1, <1>2

\* A tail marker goes between what was sent and what is queued.
LEMMA OrderInsert ==
  ASSUME NEW s \in Seq(Nat), NEW q \in Seq(Nat), NEW n \in Nat,
         Ordered(s \o q), AtMost(s \o q, n)
  PROVE  Ordered(Append(s, Gap) \o q) /\ AtMost(Append(s, Gap) \o q, n)
<1> DEFINE t == s \o q
           u == Append(s, Gap) \o q
           at(k) == IF k <= Len(s) THEN k ELSE k - 1
<1>1. Len(u) = Len(t) + 1
  OBVIOUS
<1>2. \A k \in 1 .. Len(u) : u[k] # Gap => at(k) \in 1 .. Len(t) /\ u[k] = t[at(k)]
  BY DEF Gap
<1>3. \A i, j \in 1 .. Len(u) : i < j /\ u[i] # Gap /\ u[j] # Gap => at(i) < at(j)
  BY <1>2 DEF Gap
<1>4. Ordered(t) /\ AtMost(t, n)
  OBVIOUS
<1>5. \A k \in 1 .. Len(u) : u[k] \in Nat
  BY DEF Gap
<1> HIDE DEF t, u, at
<1>6. Ordered(u)
  BY <1>2, <1>3, <1>4 DEF Ordered
<1>7. AtMost(u, n)
  <2>1. ASSUME NEW k \in 1 .. Len(u), u[k] # Gap
        PROVE  u[k] <= n
    BY <2>1, <1>2, <1>4 DEF AtMost
  <2>2. \A k \in 1 .. Len(u) : u[k] = Gap => u[k] <= n
    BY DEF Gap
  <2> QED BY <2>1, <2>2 DEF AtMost
<1> QED BY <1>6, <1>7 DEF u

\* A handler that leaves loses the item it took, or the replay it never sent.
LEMMA OrderLose ==
  ASSUME NEW s \in Seq(Nat), NEW q \in Seq(Nat), NEW n \in Nat,
         Ordered(s \o q), AtMost(s \o q, n)
  PROVE  /\ q # <<>> => Ordered(s \o Tail(q)) /\ AtMost(s \o Tail(q), n)
         /\ Ordered(<<>> \o q) /\ AtMost(<<>> \o q, n)
<1>1. ASSUME q # <<>>
      PROVE  Ordered(s \o Tail(q)) /\ AtMost(s \o Tail(q), n)
  <2> DEFINE t == s \o q
             u == s \o Tail(q)
             at(k) == IF k <= Len(s) THEN k ELSE k + 1
  <2>1. \A k \in 1 .. Len(u) : at(k) \in 1 .. Len(t) /\ u[k] = t[at(k)]
    BY <1>1
  <2>2. \A i, j \in 1 .. Len(u) : i < j => at(i) < at(j)
    OBVIOUS
  <2>3. Ordered(t) /\ AtMost(t, n)
    OBVIOUS
  <2> HIDE DEF t, u, at
  <2>4. Ordered(u) /\ AtMost(u, n)
    BY <2>1, <2>2, <2>3 DEF Ordered, AtMost
  <2> QED BY <2>4 DEF u
<1>2. Ordered(<<>> \o q) /\ AtMost(<<>> \o q, n)
  <2> DEFINE t == s \o q
             u == <<>> \o q
             at(k) == Len(s) + k
  <2>1. \A k \in 1 .. Len(u) : at(k) \in 1 .. Len(t) /\ u[k] = t[at(k)]
    OBVIOUS
  <2>2. \A i, j \in 1 .. Len(u) : i < j => at(i) < at(j)
    OBVIOUS
  <2>3. Ordered(t) /\ AtMost(t, n)
    OBVIOUS
  <2> HIDE DEF t, u, at
  <2>4. Ordered(u) /\ AtMost(u, n)
    BY <2>1, <2>2, <2>3 DEF Ordered, AtMost
  <2> QED BY <2>4 DEF u
<1> QED BY <1>1, <1>2

\* The snapshot of an interval is in order and ends at its last chunk.
LEMMA ChunksOrdered ==
  ASSUME NEW from \in 1 .. (MaxChunks + 1), NEW to \in 0 .. MaxChunks
  PROVE  LET s == Chunks(from, to) \o <<>> IN Ordered(s) /\ AtMost(s, to)
<1> USE StreamAssumption
<1> DEFINE s == Chunks(from, to)
<1>1. s \in Seq(0 .. MaxChunks)
  BY ChunksType
<1>2. s \o <<>> = s
  BY <1>1
<1>3. DOMAIN s = 1 .. Len(s)
  BY <1>1
<1>4. \A i \in 1 .. Len(s) : i \in 1 .. (to + 1 - from) /\ s[i] = from + i - 1
  BY <1>3 DEF Chunks
<1>5. Len(s) \in Nat
  BY <1>1
<1> HIDE DEF s
<1>6. Ordered(s) /\ AtMost(s, to)
  BY <1>4, <1>5 DEF Ordered, AtMost
<1> QED BY <1>2, <1>6 DEF s

\* A handler that has not registered yet has received nothing, and the reader visits
\* a client once in a broadcast (session.go:299-325, 463-497).
FreshIsEmpty ==
  /\ \A c \in Clients :
       hpc[c] \in {"out", "admitted"} => queue[c] = <<>> /\ c \notin clients
  /\ \A c \in Clients :
       hpc[c] \in {"out", "admitted", "noting", "replaying"} => got[c] = <<>>
  /\ turn \cap todo = {}

\* What a client has or will have is in order and ends at the last chunk the reader
\* has offered it.
StreamIsOrdered ==
  \A c \in Clients : Ordered(Stream(c)) /\ AtMost(Stream(c), Offered(c))

\* A bound may grow, and a marker or the chunk at the bound keeps it.
LEMMA AtMostMore ==
  ASSUME NEW s \in Seq(Nat), NEW n \in Nat, NEW m \in Nat, AtMost(s, n), n <= m
  PROVE  AtMost(s, m) /\ AtMost(Append(s, Gap), m) /\ AtMost(Append(s, m), m)
<1>1. AtMost(s, m)
  BY DEF AtMost
<1>2. AtMost(Append(s, Gap), m) /\ AtMost(Append(s, m), m)
  BY <1>1 DEF AtMost, Gap
<1> QED BY <1>1, <1>2

\* The types behind StreamIsOrdered: chunk numbers are natural numbers, and a chunk is
\* being offered only after it was appended.
LEMMA StreamTypes ==
  ASSUME StreamInv, NEW c \in Clients
  PROVE  /\ Sent(c) \in Seq(Nat) /\ queue[c] \in Seq(Nat) /\ got[c] \in Seq(Nat)
         /\ Stream(c) \in Seq(Nat)
         /\ appended \in Nat /\ Offered(c) \in Nat
         /\ snap[c][1] \in 1 .. (MaxChunks + 1) /\ snap[c][2] \in 0 .. MaxChunks
<1> USE StreamAssumption
<1>1. /\ snap[c][1] \in 1 .. (MaxChunks + 1) /\ snap[c][2] \in 0 .. MaxChunks
      /\ queue[c] \in Seq(0 .. MaxChunks) /\ got[c] \in Seq(0 .. MaxChunks)
  BY DEF StreamInv, TypeOK
<1>2. Chunks(snap[c][1], snap[c][2]) \in Seq(0 .. MaxChunks)
  BY <1>1, ChunksType
<1>3. Sent(c) \in Seq(Nat) /\ queue[c] \in Seq(Nat) /\ got[c] \in Seq(Nat)
  BY <1>1, <1>2 DEF Sent
<1>4. Stream(c) \in Seq(Nat)
  BY <1>3 DEF Stream
<1>5. appended \in Nat /\ tracked \in Nat
  BY DEF StreamInv, TypeOK
<1>6. rpc \in {"appended", "lock"} \/ c \in todo \cup turn => rpc \notin {"reading", "exited"}
  BY DEF StreamInv, LoopIsEmptyOutside, HoldsClientsMu
<1>7. Offered(c) \in Nat
  BY <1>5, <1>6 DEF Offered, StreamInv, TrackedFollows
<1> QED BY <1>1, <1>3, <1>4, <1>5, <1>7

\* A client that is not being served has been sent nothing: every step keeps this.
LEMMA FreshStep ==
  ASSUME StreamInv, FreshIsEmpty, [Next]_vars
  PROVE  FreshIsEmpty'
<1> USE DEF FreshIsEmpty, StreamInv, SendsOnOpenChannels,
            outputVars, loopVars, channelVars, endVars, handlerVars
<1>1. CASE Reader
  <2>1. hpc' = hpc /\ got' = got /\ clients' = clients
    BY <1>1 DEF Reader, ReadChunk, ReadError, Broadcast, CheckDone, LockClients, EndBroadcast,
       TrackModes, Serve, Visit, SendMarker, MarkerTimeout, ClearPending, SendData,
       DataTimeout, RecordDrop
  <2>2. \A c \in Clients : c \notin turn => queue'[c] = queue[c]
    BY <1>1 DEF Reader, ReadChunk, ReadError, Broadcast, CheckDone, LockClients, EndBroadcast,
       TrackModes, Serve, Visit, SendMarker, MarkerTimeout, ClearPending, SendData,
       DataTimeout, RecordDrop, Enqueue, TypeOK
  <2>3. turn' \cap todo' = {}
    BY <1>1 DEF Reader, ReadChunk, ReadError, Broadcast, CheckDone, LockClients, EndBroadcast,
       TrackModes, Serve, Visit, SendMarker, MarkerTimeout, ClearPending, SendData,
       DataTimeout, RecordDrop, LoopIsEmptyOutside
  <2> QED BY <2>1, <2>2, <2>3
<1>2. CASE Kill \/ Close
  BY <1>2 DEF Kill, Close, CloseMarksDone, ClosePTY, SweepClients
<1>3. ASSUME NEW c \in Clients, Admit(c) \/ Disconnect(c) \/ Handler(c)
      PROVE  FreshIsEmpty'
  <2>1. UNCHANGED <<todo, turn>>
    BY <1>3 DEF Admit, Disconnect, Handler, AttachClient, NoteAttached, SendReplay, Deliver,
       CheckDrained, TakeOutputGap, SeeDone, LeaveEmpty, LeaveCut, Detach, RemoveClient, SetIdle
  <2>2. \A d \in Clients \ {c} : /\ hpc'[d] = hpc[d] /\ queue'[d] = queue[d] /\ got'[d] = got[d]
                                 /\ d \in clients' => d \in clients
    BY <1>3 DEF Admit, Disconnect, Handler, AttachClient, NoteAttached, SendReplay, Deliver,
       CheckDrained, TakeOutputGap, SeeDone, LeaveEmpty, LeaveCut, Detach, RemoveClient, SetIdle,
       Goto, TypeOK
  <2>3. /\ hpc'[c] \in {"out", "admitted"} => queue'[c] = <<>> /\ c \notin clients'
        /\ hpc'[c] \in {"out", "admitted", "noting", "replaying"} => got'[c] = <<>>
    <3>1. CASE Admit(c) \/ Disconnect(c)
      BY <3>1 DEF Admit, Disconnect, Goto, TypeOK
    <3>2. CASE AttachClient(c) \/ NoteAttached(c)
      BY <3>2 DEF AttachClient, NoteAttached, Goto, TypeOK
    <3>3. CASE SendReplay(c) \/ Deliver(c) \/ TakeOutputGap(c) \/ CheckDrained(c)
      BY <3>3 DEF SendReplay, Deliver, CheckDrained, TakeOutputGap, Goto, TypeOK
    <3>4. CASE SeeDone(c) \/ LeaveEmpty(c) \/ LeaveCut(c)
      BY <3>4 DEF SeeDone, LeaveEmpty, LeaveCut, Goto, TypeOK
    <3>5. CASE Detach(c) \/ RemoveClient(c) \/ SetIdle(c)
      BY <3>5 DEF Detach, RemoveClient, SetIdle, Goto, TypeOK
    <3> QED BY <1>3, <3>1, <3>2, <3>3, <3>4, <3>5 DEF Handler
  <2> QED BY <2>1, <2>2, <2>3
<1>4. CASE UNCHANGED vars
  BY <1>4 DEF vars
<1> QED BY <1>1, <1>2, <1>3, <1>4 DEF Next

\* What the reader's step adds to what client d has, or will have.
LEMMA ReaderStream ==
  ASSUME StreamInv, Reader, NEW d \in Clients
  PROVE  \/ Stream(d)' = Stream(d) /\ ~SendMarker(d) /\ ~SendData(d)
         \/ SendMarker(d) /\ d \in turn /\ Stream(d)' = Append(Stream(d), Gap)
         \/ SendData(d) /\ d \in turn /\ Stream(d)' = Append(Stream(d), appended)
<1> USE DEF outputVars, loopVars, channelVars, endVars, handlerVars
<1>1. Sent(d) \in Seq(Nat) /\ queue[d] \in Seq(Nat) /\ appended \in Nat /\ Gap \in Nat
  BY StreamTypes DEF Gap
<1>2. Sent(d)' = Sent(d)
  BY DEF Sent, Reader, ReadChunk, ReadError, Broadcast, CheckDone, LockClients, EndBroadcast,
     TrackModes, Serve, Visit, SendMarker, MarkerTimeout, ClearPending, SendData, DataTimeout,
     RecordDrop
<1>3. CASE SendMarker(d)
  <2>1. queue'[d] = Append(queue[d], Gap) /\ d \in turn
    BY <1>3 DEF SendMarker, Enqueue, StreamInv, TypeOK
  <2>2. Sent(d) \o Append(queue[d], Gap) = Append(Sent(d) \o queue[d], Gap)
    BY ONLY <1>1, Moves
  <2> QED BY <1>2, <1>3, <2>1, <2>2 DEF Stream
<1>4. CASE SendData(d)
  <2>1. queue'[d] = Append(queue[d], appended) /\ d \in turn
    BY <1>4 DEF SendData, Enqueue, StreamInv, TypeOK
  <2>2. Sent(d) \o Append(queue[d], appended) = Append(Sent(d) \o queue[d], appended)
    BY ONLY <1>1, Moves
  <2> QED BY <1>2, <1>4, <2>1, <2>2 DEF Stream
<1>5. CASE ~SendMarker(d) /\ ~SendData(d)
  <2>1. queue'[d] = queue[d]
    BY <1>5, SMTT(90) DEF Reader, ReadChunk, ReadError, Broadcast, CheckDone, LockClients, EndBroadcast,
       TrackModes, Serve, Visit, MarkerTimeout, ClearPending, DataTimeout, RecordDrop,
       SendMarker, SendData, Enqueue, StreamInv, TypeOK
  <2> QED BY <1>2, <1>5, <2>1 DEF Stream
<1> QED BY <1>3, <1>4, <1>5

\* What a step of its handler does to it: the snapshot, a tail marker between what was sent and
\* what is queued, or a loss of a client that is cut off.
LEMMA HandlerStream ==
  ASSUME StreamInv, FreshIsEmpty, NEW d \in Clients, Admit(d) \/ Disconnect(d) \/ Handler(d)
  PROVE  IF AttachClient(d) THEN Stream(d)' = Chunks(firstKept, appended) \o <<>>
         ELSE \/ Stream(d)' = Stream(d)
              \/ TakeOutputGap(d) /\ Stream(d) = Sent(d) \o queue[d]
                                  /\ Stream(d)' = Append(Sent(d), Gap) \o queue[d]
              \/ LeaveCut(d) /\ \/ Stream(d)' = Sent(d) \o Tail(queue[d]) /\ queue[d] # <<>>
                                \/ Stream(d)' = <<>> \o queue[d]
<1> DEFINE Result ==
      \/ Stream(d)' = Stream(d)
      \/ TakeOutputGap(d) /\ Stream(d) = Sent(d) \o queue[d]
                          /\ Stream(d)' = Append(Sent(d), Gap) \o queue[d]
      \/ LeaveCut(d) /\ \/ Stream(d)' = Sent(d) \o Tail(queue[d]) /\ queue[d] # <<>>
                        \/ Stream(d)' = <<>> \o queue[d]
<1> USE DEF outputVars, loopVars, channelVars, endVars, handlerVars
<1>1. /\ Sent(d) \in Seq(Nat) /\ queue[d] \in Seq(Nat) /\ got[d] \in Seq(Nat)
      /\ hpc \in [Clients -> HandlerSteps] /\ DOMAIN got = Clients /\ DOMAIN queue = Clients
      /\ DOMAIN snap = Clients
  BY StreamTypes DEF StreamInv, TypeOK
<1>2. CASE AttachClient(d)
  BY <1>1, <1>2 DEF AttachClient, Goto, Stream, Sent, FreshIsEmpty
<1>3. ASSUME Deliver(d)
      PROVE  Result
  <2>1. Sent(d) = got[d] /\ Sent(d)' = Append(got[d], Head(queue[d])) /\ queue'[d] = Tail(queue[d])
    BY <1>1, <1>3 DEF Deliver, Goto, Sent
  <2>2. queue[d] # <<>>
    BY <1>3 DEF Deliver
  <2>3. Append(got[d], Head(queue[d])) \o Tail(queue[d]) = got[d] \o queue[d]
    BY <1>1, <2>2, Moves
  <2> QED BY <2>1, <2>3 DEF Stream
<1>4. ASSUME TakeOutputGap(d)
      PROVE  Result
  BY <1>1, <1>4 DEF TakeOutputGap, Goto, Sent, Stream
<1>5. ASSUME LeaveCut(d)
      PROVE  Result
  <2>1. hpc'[d] = "detaching" /\ got' = got
    BY <1>1, <1>5 DEF LeaveCut, Goto
  <2>2. CASE hpc[d] = "replaying"
    BY <1>1, <1>5, <2>1, <2>2 DEF LeaveCut, Sent, Stream, FreshIsEmpty
  <2>3. CASE hpc[d] = "streaming" /\ queue' = queue
    BY <1>1, <2>1, <2>3 DEF Sent, Stream
  <2>4. CASE hpc[d] = "streaming" /\ queue[d] # <<>> /\ queue' = [queue EXCEPT ![d] = Tail(@)]
    BY <1>1, <1>5, <2>1, <2>4 DEF Sent, Stream
  <2> QED BY <1>5, <2>2, <2>3, <2>4 DEF LeaveCut
<1>6. ASSUME Admit(d) \/ Disconnect(d) \/ NoteAttached(d) \/ SendReplay(d)
      PROVE  Result
  BY <1>1, <1>6 DEF Admit, Disconnect, NoteAttached, SendReplay, Goto, Sent, Stream, FreshIsEmpty
<1>7. ASSUME CheckDrained(d) \/ SeeDone(d) \/ LeaveEmpty(d) \/ Detach(d) \/ RemoveClient(d) \/ SetIdle(d)
      PROVE  Result
  BY <1>1, <1>7 DEF CheckDrained, SeeDone, LeaveEmpty, Detach, RemoveClient, SetIdle, Goto, Sent, Stream
<1> QED BY <1>2, <1>3, <1>4, <1>5, <1>6, <1>7 DEF Handler

\* Nobody else touches what client d has, and the reader offers no less than before.
LEMMA OthersStream ==
  ASSUME StreamInv, NEW c \in Clients, NEW d \in Clients \ {c},
         Admit(c) \/ Disconnect(c) \/ Handler(c)
  PROVE  /\ Stream(d)' = Stream(d) /\ snap'[d] = snap[d] /\ hpc'[d] = hpc[d]
         /\ queue'[d] = queue[d]
         /\ d \in clients' <=> d \in clients
         /\ d \in gapPending' <=> d \in gapPending
         /\ d \in cut' <=> d \in cut
         /\ d \in draining' <=> d \in draining
<1> USE DEF outputVars, loopVars, channelVars, endVars, handlerVars
<1>1. /\ hpc'[d] = hpc[d] /\ queue'[d] = queue[d] /\ got'[d] = got[d] /\ snap'[d] = snap[d]
      /\ d \in clients' <=> d \in clients
      /\ d \in gapPending' <=> d \in gapPending
      /\ d \in cut' <=> d \in cut
      /\ d \in draining' <=> d \in draining
  BY DEF Admit, Disconnect, Handler, AttachClient, NoteAttached, SendReplay,
     Deliver, CheckDrained, TakeOutputGap, SeeDone, LeaveEmpty, LeaveCut, Detach,
     RemoveClient, SetIdle, Goto, StreamInv, TypeOK
<1> QED BY <1>1 DEF Stream, Sent

\* The handlers leave the reader's variables and the closer's alone.
LEMMA HandlersFrame ==
  ASSUME NEW c \in Clients, Admit(c) \/ Disconnect(c) \/ Handler(c)
  PROVE  /\ UNCHANGED <<appended, firstKept, rpc, todo, turn, done, cpc, present>>
         /\ \A d : Offered(d)' = Offered(d)
<1>1. UNCHANGED <<appended, firstKept, rpc, todo, turn, done, cpc, present>>
  BY DEF Admit, Disconnect, Handler, AttachClient, NoteAttached, SendReplay,
     Deliver, CheckDrained, TakeOutputGap, SeeDone, LeaveEmpty, LeaveCut, Detach,
     RemoveClient, SetIdle, outputVars, loopVars, channelVars, endVars, handlerVars
<1> QED BY <1>1 DEF Offered

\* The reader never offers less than before.
LEMMA OfferedGrows ==
  ASSUME StreamInv, Reader, NEW d \in Clients
  PROVE  Offered(d)' >= Offered(d)
<1> USE DEF outputVars, loopVars, channelVars, endVars, handlerVars
<1>1. appended \in Nat
  BY StreamTypes
<1>2. CASE ReadChunk \/ ReadError
  BY <1>1, <1>2 DEF ReadChunk, ReadError, Offered, StreamInv, LoopIsEmptyOutside, HoldsClientsMu
<1>3. CASE CheckDone \/ LockClients \/ EndBroadcast \/ TrackModes
  BY <1>1, <1>3 DEF CheckDone, LockClients, EndBroadcast, TrackModes, Offered,
     StreamInv, LoopIsEmptyOutside, HoldsClientsMu
<1>4. ASSUME NEW c \in Clients, Serve(c)
      PROVE  Offered(d)' >= Offered(d)
  BY <1>1, <1>4 DEF Serve, Visit, SendMarker, MarkerTimeout, ClearPending, SendData,
     DataTimeout, RecordDrop, Offered
<1> QED BY <1>2, <1>3, <1>4 DEF Reader, Broadcast

\* A step that leaves what client d has, and offers it no less, keeps the order.
LEMMA OrderFrame ==
  ASSUME StreamInv, StreamInv', NEW d \in Clients, Ordered(Stream(d)),
         AtMost(Stream(d), Offered(d)), Stream(d)' = Stream(d), Offered(d)' >= Offered(d)
  PROVE  Ordered(Stream(d))' /\ AtMost(Stream(d), Offered(d))'
<1>1. Stream(d) \in Seq(Nat) /\ Offered(d) \in Nat
  BY StreamTypes
<1>2. Offered(d)' \in Nat
  <2>1. Offered(d)' \in Int
    BY DEF Offered, StreamInv, TypeOK
  <2> QED BY <1>1, <2>1
<1>3. AtMost(Stream(d), Offered(d)')
  BY <1>1, <1>2, AtMostMore
<1>4. Ordered(Stream(d)')
  OBVIOUS
<1> QED BY <1>3, <1>4 DEF Ordered, AtMost

\* The reader appends markers and one new chunk per client and broadcast.
LEMMA OrderReader ==
  ASSUME StreamInv, StreamInv', FreshIsEmpty, StreamIsOrdered, Reader
  PROVE  StreamIsOrdered'
<1> SUFFICES ASSUME NEW d \in Clients
             PROVE  Ordered(Stream(d))' /\ AtMost(Stream(d), Offered(d))'
  BY DEF StreamIsOrdered
<1>1. /\ Ordered(Stream(d)) /\ AtMost(Stream(d), Offered(d))
      /\ Stream(d) \in Seq(Nat) /\ Offered(d) \in Nat /\ appended \in Nat
  BY StreamTypes DEF StreamIsOrdered
<1>2. CASE Stream(d)' = Stream(d)
  BY <1>1, <1>2, OfferedGrows, OrderFrame
<1>3. CASE SendMarker(d) /\ d \in turn /\ Stream(d)' = Append(Stream(d), Gap)
  <2>1. Offered(d)' = Offered(d)
    BY <1>3 DEF SendMarker, Offered, outputVars
  <2>2. Ordered(Append(Stream(d), Gap)) /\ AtMost(Append(Stream(d), Gap), Offered(d))
    BY <1>1, OrderAppend, AtMostMore DEF Gap
  <2> QED BY <1>3, <2>1, <2>2 DEF Ordered, AtMost
<1>4. CASE SendData(d) /\ d \in turn /\ Stream(d)' = Append(Stream(d), appended)
  <2>1. Offered(d) = appended - 1 /\ Offered(d)' = appended
    BY <1>4 DEF SendData, Offered, FreshIsEmpty, outputVars
  <2>2. Ordered(Append(Stream(d), appended)) /\ AtMost(Append(Stream(d), appended), appended)
    BY <1>1, <2>1, OrderAppend, AtMostMore
  <2> QED BY <1>4, <2>1, <2>2 DEF Ordered, AtMost
<1> QED BY <1>2, <1>3, <1>4, ReaderStream

\* A handler starts from the snapshot, moves items from its channel to the client and
\* may add a tail marker or lose an item as it leaves.
LEMMA OrderHandler ==
  ASSUME StreamInv, StreamInv', FreshIsEmpty, StreamIsOrdered,
         NEW d \in Clients, Admit(d) \/ Disconnect(d) \/ Handler(d)
  PROVE  Ordered(Stream(d))' /\ AtMost(Stream(d), Offered(d))'
<1>1. /\ Ordered(Stream(d)) /\ AtMost(Stream(d), Offered(d))
      /\ Stream(d) \in Seq(Nat) /\ Offered(d) \in Nat
      /\ Sent(d) \in Seq(Nat) /\ queue[d] \in Seq(Nat)
      /\ firstKept \in 1 .. (MaxChunks + 1) /\ appended \in 0 .. MaxChunks
  BY StreamTypes DEF StreamIsOrdered, StreamInv, TypeOK
<1>2. Offered(d)' = Offered(d)
  BY HandlersFrame
<1>3. CASE AttachClient(d)
  <2>1. Offered(d)' = appended
    BY <1>2, <1>3 DEF AttachClient, Offered, HoldsOutputMu, HoldsClientsMu, StreamInv,
       LoopIsEmptyOutside
  <2> QED BY <1>1, <1>3, <2>1, HandlerStream, ChunksOrdered DEF Ordered, AtMost
<1>4. CASE Stream(d)' = Stream(d)
  BY <1>1, <1>2, <1>4, OrderFrame
<1>5. CASE Stream(d) = Sent(d) \o queue[d] /\ Stream(d)' = Append(Sent(d), Gap) \o queue[d]
  BY <1>1, <1>2, <1>5, OrderInsert DEF Ordered, AtMost
<1>6. CASE (Stream(d)' = Sent(d) \o Tail(queue[d]) /\ queue[d] # <<>>) \/ Stream(d)' = <<>> \o queue[d]
  <2>1. Ordered(Sent(d) \o queue[d]) /\ AtMost(Sent(d) \o queue[d], Offered(d))
    BY <1>1 DEF Stream
  <2> QED BY <1>1, <1>2, <1>6, <2>1, OrderLose DEF Ordered, AtMost
<1> QED BY <1>3, <1>4, <1>5, <1>6, HandlerStream

\* Nobody else touches what client d has.
LEMMA OrderStep ==
  ASSUME StreamInv, StreamInv', FreshIsEmpty, StreamIsOrdered, [Next]_vars
  PROVE  StreamIsOrdered'
<1>1. CASE Reader
  BY <1>1, OrderReader
<1>2. CASE Kill \/ Close \/ UNCHANGED vars
  <2>1. UNCHANGED <<appended, rpc, todo, turn, queue, hpc, snap, got>>
    BY <1>2 DEF Kill, Close, CloseMarksDone, ClosePTY, SweepClients, vars,
       outputVars, loopVars, channelVars, endVars, handlerVars
  <2> SUFFICES ASSUME NEW d \in Clients
               PROVE  Ordered(Stream(d))' /\ AtMost(Stream(d), Offered(d))'
    BY DEF StreamIsOrdered
  <2>2. Stream(d)' = Stream(d) /\ Offered(d)' = Offered(d)
    BY <2>1 DEF Stream, Sent, Offered
  <2>3. Offered(d)' >= Offered(d)
    BY <2>2, StreamTypes
  <2> QED BY <2>2, <2>3, OrderFrame DEF StreamIsOrdered
<1>3. ASSUME NEW c \in Clients, Admit(c) \/ Disconnect(c) \/ Handler(c)
      PROVE  StreamIsOrdered'
  <2> SUFFICES ASSUME NEW d \in Clients
               PROVE  Ordered(Stream(d))' /\ AtMost(Stream(d), Offered(d))'
    BY DEF StreamIsOrdered
  <2>1. CASE c = d
    BY <1>3, <2>1, OrderHandler
  <2>2. CASE c # d
    <3>1. Stream(d)' = Stream(d) /\ Offered(d)' = Offered(d)
      BY <1>3, <2>2, OthersStream, HandlersFrame
    <3>2. Offered(d)' >= Offered(d)
      BY <3>1, StreamTypes
    <3> QED BY <3>1, <3>2, OrderFrame DEF StreamIsOrdered
  <2> QED BY <2>1, <2>2
<1> QED BY <1>1, <1>2, <1>3 DEF Next

\* What a client has or will have stays in order (session.go:419-497).
LEMMA StreamAlways == Spec => [](FreshIsEmpty /\ StreamIsOrdered)
<1>1. Init => FreshIsEmpty /\ StreamIsOrdered
  BY DEF Init, FreshIsEmpty, StreamIsOrdered, Stream, Sent, Ordered, AtMost
<1>2. StreamInv /\ StreamInv' /\ FreshIsEmpty /\ StreamIsOrdered /\ [Next]_vars
        => FreshIsEmpty' /\ StreamIsOrdered'
  BY FreshStep, OrderStep
<1> QED BY <1>1, <1>2, Invariance, PTL DEF Spec

\* Replay and live stream never repeat or reorder a chunk, whatever the capacities
\* (session.go:288-293, 419-422).
THEOREM StreamInOrder == Spec => []InOrder
<1>1. StreamIsOrdered => InOrder
  BY DEF StreamIsOrdered, InOrder
<1> QED BY <1>1, StreamAlways, PTL

-----------------------------------------------------------------------------
(* What is missing is marked *)

\* The positions of s where the chunk before is missing, if a is the first one that is owed.
SkipsFrom(a, s) ==
  {i \in 1 .. Len(s) : s[i] # Gap /\ s[i] # a /\ \A j \in 1 .. (i - 1) : s[j] # s[i] - 1}

UpTo(S, k) == {i \in S : i <= k}

\* At no place of s have there been fewer markers than holes; and there is one more.
Flagged(a, s) ==
  \A k \in 1 .. Len(s) :
    Cardinality(UpTo(SkipsFrom(a, s), k)) <= Cardinality(UpTo(Markers(s), k))
HasSpare(a, s) == Cardinality(SkipsFrom(a, s)) < Cardinality(Markers(s))

\* Sets of positions are finite.
LEMMA PositionsFinite ==
  ASSUME NEW n \in Nat, NEW S \in SUBSET (1 .. n)
  PROVE  /\ IsFiniteSet(S) /\ Cardinality(S) \in Nat
         /\ \A k : IsFiniteSet(UpTo(S, k)) /\ Cardinality(UpTo(S, k)) \in Nat
<1>1. IsFiniteSet(1 .. n)
  BY FS_Interval
<1>2. ASSUME NEW T \in SUBSET (1 .. n)
      PROVE  IsFiniteSet(T) /\ Cardinality(T) \in Nat
  <2>1. IsFiniteSet(T)
    BY <1>1, FS_Subset
  <2> QED BY <2>1, FS_CardinalityType
<1>3. \A k : UpTo(S, k) \in SUBSET (1 .. n)
  BY DEF UpTo
<1> QED BY <1>2, <1>3

\* What is flagged everywhere is flagged as a whole.
LEMMA FlaggedTotal ==
  ASSUME NEW s \in Seq(Nat), NEW a, Flagged(a, s)
  PROVE  /\ Cardinality(SkipsFrom(a, s)) \in Nat /\ Cardinality(Markers(s)) \in Nat
         /\ Cardinality(SkipsFrom(a, s)) <= Cardinality(Markers(s))
<1>1. Len(s) \in Nat /\ SkipsFrom(a, s) \in SUBSET (1 .. Len(s)) /\ Markers(s) \in SUBSET (1 .. Len(s))
  BY DEF SkipsFrom, Markers
<1>2. Cardinality(SkipsFrom(a, s)) \in Nat /\ Cardinality(Markers(s)) \in Nat
  BY <1>1, PositionsFinite
<1>3. UpTo(SkipsFrom(a, s), Len(s)) = SkipsFrom(a, s) /\ UpTo(Markers(s), Len(s)) = Markers(s)
  BY <1>1 DEF UpTo
<1>4. CASE Len(s) = 0
  <2>1. SkipsFrom(a, s) = {} /\ Markers(s) = {}
    BY <1>1, <1>4
  <2> QED BY <1>2, <2>1
<1>5. CASE Len(s) # 0
  <2>1. Len(s) \in 1 .. Len(s)
    BY <1>1, <1>5
  <2>2. Cardinality(UpTo(SkipsFrom(a, s), Len(s))) <= Cardinality(UpTo(Markers(s), Len(s)))
    BY <2>1 DEF Flagged
  <2> QED BY <1>2, <1>3, <2>2
<1> QED BY <1>4, <1>5

\* A marker at the end keeps s flagged, and is one more.
LEMMA FlagMarker ==
  ASSUME NEW s \in Seq(Nat), NEW a, Flagged(a, s)
  PROVE  Flagged(a, Append(s, Gap)) /\ HasSpare(a, Append(s, Gap))
<1> DEFINE n == Len(s)
           t == Append(s, Gap)
<1>1. n \in Nat /\ Len(t) = n + 1 /\ (\A i \in 1 .. n : t[i] = s[i]) /\ t[n + 1] = Gap
  BY DEF Gap
<1>2. SkipsFrom(a, t) = SkipsFrom(a, s)
  BY <1>1 DEF SkipsFrom
<1>3. Markers(t) = Markers(s) \cup {n + 1} /\ n + 1 \notin Markers(s)
  BY <1>1 DEF Markers
<1>4. /\ SkipsFrom(a, s) \in SUBSET (1 .. n) /\ Markers(s) \in SUBSET (1 .. n)
      /\ IsFiniteSet(Markers(s))
  BY <1>1, PositionsFinite DEF SkipsFrom, Markers
<1>5. Cardinality(Markers(t)) = Cardinality(Markers(s)) + 1
  BY <1>3, <1>4, FS_AddElement
<1>6. HasSpare(a, t)
  BY <1>2, <1>5, FlaggedTotal DEF HasSpare
<1>7. ASSUME NEW k \in 1 .. Len(t)
      PROVE  Cardinality(UpTo(SkipsFrom(a, t), k)) <= Cardinality(UpTo(Markers(t), k))
  <2>1. CASE k \in 1 .. n
    <3>1. UpTo(Markers(t), k) = UpTo(Markers(s), k)
      BY <1>1, <1>3, <2>1 DEF UpTo
    <3> QED BY <1>2, <2>1, <3>1 DEF Flagged
  <2>2. CASE k = n + 1
    <3>1. UpTo(SkipsFrom(a, t), k) = SkipsFrom(a, s) /\ UpTo(Markers(t), k) = Markers(t)
      BY <1>1, <1>2, <1>3, <1>4, <2>2 DEF UpTo
    <3> QED BY <3>1, <1>5, FlaggedTotal
  <2> QED BY <1>1, <2>1, <2>2
<1> QED BY <1>6, <1>7 DEF Flagged

\* A chunk at the end keeps s flagged if there is a marker more than holes, or no new hole.
LEMMA FlagChunk ==
  ASSUME NEW s \in Seq(Nat), NEW a, NEW x \in Nat \ {Gap}, Flagged(a, s),
         HasSpare(a, s) \/ x = a \/ \E j \in 1 .. Len(s) : s[j] = x - 1
  PROVE  Flagged(a, Append(s, x))
<1> DEFINE n == Len(s)
           t == Append(s, x)
<1>1. n \in Nat /\ Len(t) = n + 1 /\ (\A i \in 1 .. n : t[i] = s[i]) /\ t[n + 1] = x
  OBVIOUS
<1>2. /\ SkipsFrom(a, t) \in {SkipsFrom(a, s), SkipsFrom(a, s) \cup {n + 1}}
      /\ HasSpare(a, s) \/ SkipsFrom(a, t) = SkipsFrom(a, s)
  <2>1. \A i \in 1 .. n : i \in SkipsFrom(a, t) <=> i \in SkipsFrom(a, s)
    BY <1>1 DEF SkipsFrom
  <2>2. SkipsFrom(a, t) \subseteq 1 .. n + 1 /\ SkipsFrom(a, s) \subseteq 1 .. n
    BY <1>1 DEF SkipsFrom
  <2>3. HasSpare(a, s) \/ n + 1 \notin SkipsFrom(a, t)
    BY <1>1 DEF SkipsFrom
  <2> DEFINE S == SkipsFrom(a, s)
             T == SkipsFrom(a, t)
  <2> HIDE DEF t, n, S, T
  <2>4. T \in {S, S \cup {n + 1}} /\ (n + 1 \notin T => T = S)
    <3>1. /\ T \subseteq 1 .. n + 1 /\ S \subseteq 1 .. n
          /\ \A i \in 1 .. n : i \in T <=> i \in S
          /\ 1 .. n + 1 = (1 .. n) \cup {n + 1} /\ n + 1 \notin 1 .. n
      BY <1>1, <2>1, <2>2 DEF S, T
    <3>2. CASE n + 1 \in T
      BY <3>1, <3>2
    <3>3. CASE n + 1 \notin T
      BY <3>1, <3>3
    <3> QED BY <3>2, <3>3
  <2> QED BY <2>3, <2>4 DEF S, T
<1>3. Markers(t) = Markers(s)
  BY <1>1 DEF Markers, Gap
<1>4. /\ SkipsFrom(a, s) \in SUBSET (1 .. n) /\ Markers(s) \in SUBSET (1 .. n)
      /\ IsFiniteSet(SkipsFrom(a, s))
  BY <1>1, PositionsFinite DEF SkipsFrom, Markers
<1>5. ASSUME NEW k \in 1 .. Len(t)
      PROVE  Cardinality(UpTo(SkipsFrom(a, t), k)) <= Cardinality(UpTo(Markers(t), k))
  <2>1. CASE k \in 1 .. n
    <3>1. UpTo(SkipsFrom(a, t), k) = UpTo(SkipsFrom(a, s), k)
      BY <1>1, <1>2, <2>1 DEF UpTo
    <3> QED BY <1>3, <2>1, <3>1 DEF Flagged
  <2>2. CASE k = n + 1
    <3>1. UpTo(SkipsFrom(a, t), k) = SkipsFrom(a, t) /\ UpTo(Markers(t), k) = Markers(s)
      BY <1>1, <1>2, <1>3, <1>4, <2>2 DEF UpTo
    <3>2. n + 1 \notin SkipsFrom(a, s)
      BY <1>1, <1>4
    <3>3. Cardinality(SkipsFrom(a, s) \cup {n + 1}) = Cardinality(SkipsFrom(a, s)) + 1
      BY <1>4, <3>2, FS_AddElement
    <3>4. Cardinality(SkipsFrom(a, t)) <= Cardinality(Markers(s))
      <4>1. /\ Cardinality(SkipsFrom(a, s)) \in Nat /\ Cardinality(Markers(s)) \in Nat
            /\ Cardinality(SkipsFrom(a, s)) <= Cardinality(Markers(s))
        BY FlaggedTotal
      <4>2. CASE SkipsFrom(a, t) = SkipsFrom(a, s)
        BY <4>1, <4>2
      <4>3. CASE SkipsFrom(a, t) = SkipsFrom(a, s) \cup {n + 1} /\ HasSpare(a, s)
        BY <3>3, <4>1, <4>3 DEF HasSpare
      <4> QED BY <1>2, <4>2, <4>3
    <3> QED BY <3>1, <3>4
  <2> QED BY <1>1, <2>1, <2>2
<1> QED BY <1>5 DEF Flagged

\* Positions of which those beyond m are moved by one, and maybe some left out, are no more.
LEMMA ShiftIsInjective ==
  ASSUME NEW n \in Nat, NEW m \in Nat, NEW A \in SUBSET (1 .. n), NEW B \in SUBSET (1 .. n + 1)
  PROVE  /\ (\A i \in B : (i <= m /\ i \in A) \/ (i > m + 1 /\ i - 1 \in A))
              => Cardinality(B) <= Cardinality(A)
         /\ (\A i \in A : (i <= m /\ i \in B) \/ (i > m /\ i + 1 \in B))
              => Cardinality(A) <= Cardinality(B)
<1>1. IsFiniteSet(A) /\ IsFiniteSet(B)
  <2>1. IsFiniteSet(1 .. n) /\ IsFiniteSet(1 .. n + 1)
    BY FS_Interval
  <2> QED BY <2>1, FS_Subset
<1>2. ASSUME \A i \in B : (i <= m /\ i \in A) \/ (i > m + 1 /\ i - 1 \in A)
      PROVE  Cardinality(B) <= Cardinality(A)
  <2> DEFINE f == [i \in B |-> IF i <= m THEN i ELSE i - 1]
  <2>1. f \in [B -> A]
    BY <1>2
  <2>2. \A i, j \in B : f[i] = f[j] => i = j
    BY <1>2
  <2> HIDE DEF f
  <2>3. f \in Injection(B, A)
    BY <2>1, <2>2 DEF Injection, IsInjective
  <2> QED BY <1>1, <2>3, FS_Injection
<1>3. ASSUME \A i \in A : (i <= m /\ i \in B) \/ (i > m /\ i + 1 \in B)
      PROVE  Cardinality(A) <= Cardinality(B)
  <2> DEFINE f == [i \in A |-> IF i <= m THEN i ELSE i + 1]
  <2>1. f \in [A -> B]
    BY <1>3
  <2>2. \A i, j \in A : f[i] = f[j] => i = j
    OBVIOUS
  <2> HIDE DEF f
  <2>3. f \in Injection(A, B)
    BY <2>1, <2>2 DEF Injection, IsInjective
  <2> QED BY <1>1, <2>3, FS_Injection
<1> QED BY <1>2, <1>3

\* A marker in the middle keeps s flagged, and is one more.
LEMMA FlagInsert ==
  ASSUME NEW s \in Seq(Nat), NEW q \in Seq(Nat), NEW a, Flagged(a, s \o q)
  PROVE  Flagged(a, Append(s, Gap) \o q) /\ HasSpare(a, Append(s, Gap) \o q)
<1> DEFINE m == Len(s)
           u == s \o q
           n == Len(u)
           t == Append(s, Gap) \o q
<1>1. /\ m \in Nat /\ n \in Nat /\ m <= n /\ Len(t) = n + 1
      /\ \A i \in 1 .. m : t[i] = u[i]
      /\ t[m + 1] = Gap
      /\ \A i \in 1 .. n : i > m => t[i + 1] = u[i]
  BY DEF Gap
<1>2. u \in Seq(Nat) /\ t \in Seq(Nat) /\ Flagged(a, u)
  BY DEF Gap
<1>3. u \in [1 .. n -> Nat] /\ t \in [1 .. n + 1 -> Nat] /\ Len(u) = n
  <2> HIDE DEF m, u, t
  <2>1. u \in [1 .. Len(u) -> Nat] /\ t \in [1 .. Len(t) -> Nat]
    BY <1>2
  <2> QED BY <1>1, <2>1
<1> HIDE DEF m, u, n, t
<1>4. \A i \in SkipsFrom(a, t) :
        (i <= m /\ i \in SkipsFrom(a, u)) \/ (i > m + 1 /\ i - 1 \in SkipsFrom(a, u))
  <2> SUFFICES ASSUME NEW i \in SkipsFrom(a, t)
               PROVE  (i <= m /\ i \in SkipsFrom(a, u)) \/ (i > m + 1 /\ i - 1 \in SkipsFrom(a, u))
    OBVIOUS
  <2>1. /\ i \in 1 .. n + 1 /\ t[i] # Gap /\ t[i] # a
        /\ \A j \in 1 .. (i - 1) : t[j] # t[i] - 1
    BY <1>1 DEF SkipsFrom
  <2>2. CASE i <= m
    <3>1. i \in 1 .. n /\ u[i] = t[i] /\ \A j \in 1 .. (i - 1) : u[j] = t[j]
      BY <1>1, <2>1, <2>2
    <3> QED BY <1>3, <2>1, <2>2, <3>1 DEF SkipsFrom
  <2>3. CASE i > m
    <3>1. i - 1 \in 1 .. n /\ i - 1 > m /\ u[i - 1] = t[i]
      BY <1>1, <2>1, <2>3
    <3>2. ASSUME NEW j \in 1 .. (i - 1) - 1
          PROVE  u[j] # u[i - 1] - 1
      <4>1. CASE j <= m
        BY <1>1, <2>1, <3>1, <4>1
      <4>2. CASE j > m
        <5>1. t[j + 1] = u[j] /\ j + 1 \in 1 .. (i - 1)
          BY <1>1, <3>1, <4>2
        <5> QED BY <2>1, <3>1, <5>1
      <4> QED BY <1>1, <4>1, <4>2
    <3> QED BY <1>1, <1>3, <2>1, <3>1, <3>2 DEF SkipsFrom
  <2> QED BY <1>1, <2>1, <2>2, <2>3
<1>5. /\ \A i \in Markers(u) : (i <= m /\ i \in Markers(t)) \/ (i > m /\ i + 1 \in Markers(t))
      /\ m + 1 \in Markers(t)
  BY <1>1, <1>3 DEF Markers
<1>6. /\ SkipsFrom(a, u) \in SUBSET (1 .. n) /\ Markers(u) \in SUBSET (1 .. n)
      /\ SkipsFrom(a, t) \in SUBSET (1 .. n + 1) /\ Markers(t) \in SUBSET (1 .. n + 1)
  BY <1>1, <1>3 DEF SkipsFrom, Markers
<1>7. \A k \in 0 .. n :
        /\ Cardinality(UpTo(SkipsFrom(a, u), k)) <= Cardinality(UpTo(Markers(u), k))
        /\ Cardinality(UpTo(SkipsFrom(a, u), k)) \in Nat /\ Cardinality(UpTo(Markers(u), k)) \in Nat
  <2> SUFFICES ASSUME NEW k \in 0 .. n
               PROVE  Cardinality(UpTo(SkipsFrom(a, u), k)) <= Cardinality(UpTo(Markers(u), k))
    BY <1>1, <1>6, PositionsFinite
  <2>1. CASE k = 0
    <3>1. UpTo(SkipsFrom(a, u), k) = {} /\ UpTo(Markers(u), k) = {}
      BY <1>6, <2>1 DEF UpTo
    <3> QED BY <3>1, FS_EmptySet
  <2>2. CASE k # 0
    BY <1>1, <1>2, <1>3, <2>2 DEF Flagged
  <2> QED BY <2>1, <2>2
<1>8. ASSUME NEW k \in 1 .. n + 1
      PROVE  /\ Cardinality(UpTo(SkipsFrom(a, t), k)) <= Cardinality(UpTo(Markers(t), k))
             /\ k > m => Cardinality(UpTo(SkipsFrom(a, t), k)) < Cardinality(UpTo(Markers(t), k))
  <2> DEFINE l == IF k <= m THEN k ELSE k - 1
             S == UpTo(SkipsFrom(a, t), k)
             M == UpTo(Markers(t), k) \ {m + 1}
  <2>1. l \in 0 .. n
    BY <1>1
  <2>2. /\ S \in SUBSET (1 .. n + 1) /\ M \in SUBSET (1 .. n + 1)
        /\ UpTo(SkipsFrom(a, u), l) \in SUBSET (1 .. n) /\ UpTo(Markers(u), l) \in SUBSET (1 .. n)
    BY <1>6 DEF UpTo
  <2>3. IsFiniteSet(M) /\ Cardinality(M) \in Nat /\ Cardinality(S) \in Nat
    <3>1. n + 1 \in Nat
      BY <1>1
    <3> HIDE DEF S, M
    <3> QED BY <2>2, <3>1, PositionsFinite
  <2>4. Cardinality(S) <= Cardinality(UpTo(SkipsFrom(a, u), l))
    <3>1. \A i \in S :
            \/ i <= m /\ i \in UpTo(SkipsFrom(a, u), l)
            \/ i > m + 1 /\ i - 1 \in UpTo(SkipsFrom(a, u), l)
      BY <1>1, <1>4, <1>6 DEF UpTo
    <3> HIDE DEF S, l
    <3> QED BY <1>1, <2>2, <3>1, ShiftIsInjective
  <2>5. Cardinality(UpTo(Markers(u), l)) <= Cardinality(M)
    <3>1. \A i \in UpTo(Markers(u), l) : (i <= m /\ i \in M) \/ (i > m /\ i + 1 \in M)
      BY <1>1, <1>5, <1>6 DEF UpTo
    <3> HIDE DEF M, l
    <3> QED BY <1>1, <2>2, <3>1, ShiftIsInjective
  <2>6. Cardinality(S) <= Cardinality(M)
    <3> HIDE DEF S, M, l
    <3> QED BY <1>7, <2>1, <2>3, <2>4, <2>5
  <2>7. CASE k <= m
    <3>1. UpTo(Markers(t), k) = M
      BY <1>1, <2>7 DEF UpTo
    <3>2. ~(k > m)
      BY <1>1, <2>7
    <3> HIDE DEF M
    <3> QED BY <2>6, <3>1, <3>2
  <2>8. CASE k > m
    <3>1. UpTo(Markers(t), k) = M \cup {m + 1} /\ m + 1 \notin M
      BY <1>1, <1>5, <2>8 DEF UpTo
    <3>2. Cardinality(M \cup {m + 1}) = Cardinality(M) + 1
      BY <2>3, <3>1, FS_AddElement
    <3> HIDE DEF M
    <3> QED BY <2>3, <2>6, <3>1, <3>2
  <2> QED BY <1>1, <2>7, <2>8
<1>9. HasSpare(a, t)
  <2>1. UpTo(SkipsFrom(a, t), n + 1) = SkipsFrom(a, t) /\ UpTo(Markers(t), n + 1) = Markers(t)
    BY <1>6 DEF UpTo
  <2> QED BY <1>1, <1>8, <2>1 DEF HasSpare
<1>10. Flagged(a, t)
  BY <1>1, <1>8 DEF Flagged
<1> QED BY <1>9, <1>10 DEF t

\* A closer takes the session out of the map first, and while it has not marked the session
\* done only the reader's end does that; who drains has seen done (pty.go:346-388).
EndsInOrder ==
  /\ present <=> cpc = "idle"
  /\ done /\ cpc \in {"idle", "marking"} => rpc = "exited"
  /\ \A c \in draining :
       done /\ hpc[c] \in {"streaming", "sent", "asking", "detaching", "removing", "idling", "left"}

\* The reader sends data to a client without a recorded drop (session.go:471-497).
NotPendingAtData == rpc \in {"data", "drop"} => turn \cap gapPending = {}

\* A snapshot ends where the reader's offers begin (session.go:299-325).
SnapBehind == \A c \in clients : snap[c][1] <= Offered(c) + 1

\* A marker for client c was sent and the chunk behind it not yet, or someone else has sent it;
\* or the last chunk that was offered is missing and nothing says so yet.
Owes(c) ==
  \/ c \in turn /\ (rpc = "clear" \/ (rpc = "marker" /\ c \notin gapPending))
  \/ /\ ~done \/ HoldsClientsMu \/ rpc = "lock" \/ cpc \in {"idle", "marking"}
     /\ c \notin gapPending
     /\ Offered(c) >= snap[c][1]
     /\ \A i \in 1 .. Len(Stream(c)) : Stream(c)[i] # Offered(c)

\* The holes in what client c has, or will have, are flagged; a marker more is there as long as
\* one is owed.
DebtOf(c) ==
  /\ Flagged(snap[c][1], Stream(c))
  /\ Owes(c) => HasSpare(snap[c][1], Stream(c))

Debts == \A c \in clients \ cut : DebtOf(c)

LossInv ==
  /\ StreamInv /\ FreshIsEmpty
  /\ EndsInOrder /\ NotPendingAtData /\ SnapBehind /\ Debts /\ DrainIsComplete

\* Every step keeps the order in which a session ends (pty.go:346-388).
LEMMA EndsInOrderStep ==
  ASSUME StreamInv, EndsInOrder, [Next]_vars
  PROVE  EndsInOrder'
<1> USE DEF EndsInOrder, outputVars, loopVars, channelVars, endVars, handlerVars
<1>1. CASE Reader
  BY <1>1 DEF Reader, ReadChunk, ReadError, Broadcast, CheckDone, LockClients, EndBroadcast,
     TrackModes, Serve, Visit, SendMarker, MarkerTimeout, ClearPending, SendData, DataTimeout,
     RecordDrop, MarkDone
<1>2. CASE Kill \/ Close
  BY <1>2 DEF Kill, Close, CloseMarksDone, ClosePTY, SweepClients, MarkDone
<1>3. ASSUME NEW c \in Clients, Admit(c) \/ Disconnect(c) \/ Handler(c)
      PROVE  EndsInOrder'
  <2>1. UNCHANGED <<rpc, done, cpc, present>>
    BY <1>3, HandlersFrame
  <2>2. ASSUME NEW d \in draining', d # c
        PROVE  done' /\ hpc'[d] \in {"streaming", "sent", "asking", "detaching", "removing", "idling", "left"}
    <3>1. d \in Clients \ {c}
      <4>1. d \in draining \cup {c}
        BY <1>3 DEF Admit, Disconnect, Handler, AttachClient, NoteAttached, SendReplay, Deliver,
          CheckDrained, TakeOutputGap, SeeDone, LeaveEmpty, LeaveCut, Detach, RemoveClient, SetIdle
      <4> QED BY <4>1, <2>2 DEF StreamInv, TypeOK
    <3>2. hpc'[d] = hpc[d] /\ d \in draining
      BY <1>3, <2>2, <3>1, OthersStream
    <3> QED BY <2>1, <3>2
  <2>3. c \in draining' =>
          done' /\ hpc'[c] \in {"streaming", "sent", "asking", "detaching", "removing", "idling", "left"}
    BY <1>3 DEF StreamInv, TypeOK, Goto, Admit, Disconnect, Handler, AttachClient, NoteAttached,
       SendReplay, Deliver, CheckDrained, TakeOutputGap, SeeDone, LeaveEmpty, LeaveCut, Detach,
       RemoveClient, SetIdle
  <2> QED BY <2>1, <2>2, <2>3
<1>4. CASE UNCHANGED vars
  BY <1>4 DEF vars
<1> QED BY <1>1, <1>2, <1>3, <1>4 DEF Next

\* Only the reader records a drop, and it looks for one before it sends (session.go:463-497).
LEMMA NotPendingStep ==
  ASSUME StreamInv, NotPendingAtData, [Next]_vars
  PROVE  NotPendingAtData'
<1> USE DEF NotPendingAtData, outputVars, loopVars, channelVars, endVars, handlerVars
<1>1. turn = {} \/ \E c \in Clients : turn = {c}
  BY DEF StreamInv, TypeOK
<1>2. CASE Reader
  BY <1>1, <1>2 DEF Reader, ReadChunk, ReadError, Broadcast, CheckDone, LockClients, EndBroadcast,
     TrackModes, Serve, Visit, SendMarker, MarkerTimeout, ClearPending, SendData, DataTimeout,
     RecordDrop
<1>3. CASE Kill \/ Close \/ UNCHANGED vars
  BY <1>3 DEF Kill, Close, CloseMarksDone, ClosePTY, SweepClients, vars
<1>4. ASSUME NEW c \in Clients, Admit(c) \/ Disconnect(c) \/ Handler(c)
      PROVE  NotPendingAtData'
  <2>1. UNCHANGED <<rpc, turn>> /\ gapPending' \subseteq gapPending
    BY <1>4 DEF Admit, Disconnect, Handler, AttachClient, NoteAttached, SendReplay, Deliver,
       CheckDrained, TakeOutputGap, SeeDone, LeaveEmpty, LeaveCut, Detach, RemoveClient, SetIdle
  <2> QED BY <2>1
<1> QED BY <1>2, <1>3, <1>4 DEF Next

\* The reader offers ever later chunks, and a snapshot never changes (session.go:299-325).
LEMMA SnapBehindStep ==
  ASSUME StreamInv, StreamInv', SnapBehind, [Next]_vars
  PROVE  SnapBehind'
<1> USE DEF SnapBehind, outputVars, loopVars, channelVars, endVars, handlerVars
<1>0. \A c \in Clients : /\ snap[c][1] \in Nat /\ Offered(c) \in Nat
  BY StreamTypes, StreamAssumption
<1>1. CASE Reader
  <2>1. clients' = clients /\ snap' = snap
    BY <1>1 DEF Reader, ReadChunk, ReadError, Broadcast, CheckDone, LockClients, EndBroadcast,
       TrackModes, Serve, Visit, SendMarker, MarkerTimeout, ClearPending, SendData, DataTimeout,
       RecordDrop
  <2>2. ASSUME NEW c \in clients
        PROVE  snap[c][1] <= Offered(c)' + 1
    <3>1. c \in Clients
      BY DEF StreamInv, TypeOK
    <3>2. Offered(c)' >= Offered(c) /\ Offered(c)' \in Int
      <4>1. appended' \in Int
        BY DEF StreamInv, TypeOK
      <4>2. Offered(c)' \in Int
        BY <4>1 DEF Offered
      <4> QED BY <1>1, <3>1, <4>2, OfferedGrows
    <3> QED BY <1>0, <3>1, <3>2
  <2> QED BY <2>1, <2>2
<1>2. CASE Kill \/ Close \/ UNCHANGED vars
  BY <1>2 DEF Kill, Close, CloseMarksDone, ClosePTY, SweepClients, vars, Offered
<1>3. ASSUME NEW c \in Clients, Admit(c) \/ Disconnect(c) \/ Handler(c)
      PROVE  SnapBehind'
  <2>1. \A d : Offered(d)' = Offered(d)
    BY <1>3, HandlersFrame
  <2>2. CASE AttachClient(c)
    <3>1. Offered(c) = appended
      BY <2>2 DEF AttachClient, Offered, HoldsOutputMu, HoldsClientsMu, StreamInv, LoopIsEmptyOutside
    <3>2. firstKept <= appended + 1
      BY DEF StreamInv, TrackedFollows, TypeOK
    <3> QED BY <2>1, <2>2, <3>1, <3>2 DEF AttachClient, StreamInv, TypeOK
  <2>3. CASE ~AttachClient(c)
    <3>1. clients' \subseteq clients /\ snap' = snap
      BY <1>3, <2>3 DEF Admit, Disconnect, Handler, NoteAttached, SendReplay, Deliver,
         CheckDrained, TakeOutputGap, SeeDone, LeaveEmpty, LeaveCut, Detach, RemoveClient, SetIdle
    <3> QED BY <2>1, <3>1
  <2> QED BY <2>2, <2>3
<1> QED BY <1>1, <1>2, <1>3 DEF Next

\* Whoever leaves through Done has emptied its channel, and the reader is gone by then
\* (server.go:688-693).
LEMMA DrainStep ==
  ASSUME StreamInv, EndsInOrder, EndsInOrder', DrainIsComplete, [Next]_vars
  PROVE  DrainIsComplete'
<1> USE DEF DrainIsComplete, outputVars, loopVars, channelVars, endVars, handlerVars
<1>1. CASE Reader
  <2>1. UNCHANGED <<hpc, draining, cut, cpc>>
    BY <1>1 DEF Reader, ReadChunk, ReadError, Broadcast, CheckDone, LockClients, EndBroadcast,
       TrackModes, Serve, Visit, SendMarker, MarkerTimeout, ClearPending, SendData, DataTimeout,
       RecordDrop
  <2>2. CASE ReadError
    BY <2>1, <2>2 DEF ReadError, EndsInOrder
  <2>3. CASE ~ReadError
    <3>1. done' = done /\ rpc # "exited"
      BY <1>1, <2>3 DEF Reader, ReadChunk, Broadcast, CheckDone, LockClients, EndBroadcast,
         TrackModes, Serve, Visit, SendMarker, MarkerTimeout, ClearPending, SendData, DataTimeout,
         RecordDrop
    <3> QED BY <2>1, <3>1 DEF EndsInOrder
  <2> QED BY <2>2, <2>3
<1>2. CASE Kill \/ Close \/ UNCHANGED vars
  BY <1>2 DEF Kill, Close, CloseMarksDone, ClosePTY, SweepClients, vars
<1>3. ASSUME NEW c \in Clients, Admit(c) \/ Disconnect(c) \/ Handler(c)
      PROVE  DrainIsComplete'
  <2>1. UNCHANGED <<rpc, done, cpc, present>>
    BY <1>3, HandlersFrame
  <2>2. ASSUME NEW d \in draining' \ cut', d # c, done', cpc' = "idle",
               hpc'[d] \in {"detaching", "removing", "idling", "left"}
        PROVE  queue'[d] = <<>>
    <3>1. d \in Clients \ {c}
      <4>1. d \in draining \cup {c}
        BY <1>3 DEF Admit, Disconnect, Handler, AttachClient, NoteAttached, SendReplay, Deliver,
          CheckDrained, TakeOutputGap, SeeDone, LeaveEmpty, LeaveCut, Detach, RemoveClient, SetIdle
      <4> QED BY <4>1, <2>2 DEF StreamInv, TypeOK
    <3>2. hpc'[d] = hpc[d] /\ queue'[d] = queue[d] /\ d \in draining \ cut
      BY <1>3, <2>2, <3>1, OthersStream
    <3> QED BY <2>1, <2>2, <3>2
  <2>3. ASSUME c \in draining' \ cut', done', cpc' = "idle",
               hpc'[c] \in {"detaching", "removing", "idling", "left"}
        PROVE  queue'[c] = <<>>
    BY <1>3, <2>1, <2>3 DEF EndsInOrder, StreamInv, TypeOK, Goto, Admit, Disconnect, Handler,
       AttachClient, NoteAttached, SendReplay, Deliver, CheckDrained, TakeOutputGap, SeeDone,
       LeaveEmpty, LeaveCut, Detach, RemoveClient, SetIdle
  <2> QED BY <2>2, <2>3
<1> QED BY <1>1, <1>2, <1>3 DEF Next

\* A step that changes nothing of what client d has, and adds to no debt.
LEMMA DebtFrame ==
  ASSUME NEW d, DebtOf(d), Stream(d)' = Stream(d), snap'[d] = snap[d], Owes(d)' => Owes(d)
  PROVE  DebtOf(d)'
BY DEF DebtOf, Flagged, HasSpare, SkipsFrom, Markers, Gap, UpTo

\* The reader sends a marker before a chunk that follows a hole, and records the drop of one it
\* cannot send; a marker that is sent twice, by it and by the handler, is one too many
\* (session.go:471-532).
LEMMA DebtsReader ==
  ASSUME LossInv, StreamInv', Reader
  PROVE  Debts'
<1> USE DEF LossInv, outputVars, loopVars, channelVars, endVars, handlerVars
<1>1. clients' = clients /\ cut' = cut /\ snap' = snap
  BY DEF Reader, ReadChunk, ReadError, Broadcast, CheckDone, LockClients, EndBroadcast,
     TrackModes, Serve, Visit, SendMarker, MarkerTimeout, ClearPending, SendData, DataTimeout,
     RecordDrop
<1> SUFFICES ASSUME NEW d \in clients \ cut
             PROVE  DebtOf(d)'
  BY <1>1 DEF Debts
<1>2. d \in Clients /\ DebtOf(d) /\ snap'[d] = snap[d] /\ snap[d][1] <= Offered(d) + 1
  BY <1>1 DEF Debts, StreamInv, TypeOK, SnapBehind
<1>3. /\ Stream(d) \in Seq(Nat) /\ Offered(d) \in Nat /\ appended \in Nat /\ snap[d][1] \in Nat
  BY <1>2, StreamTypes, StreamAssumption
<1>4. CASE SendMarker(d) /\ d \in turn /\ Stream(d)' = Append(Stream(d), Gap)
  <2>1. Flagged(snap[d][1], Stream(d)') /\ HasSpare(snap[d][1], Stream(d)')
    BY <1>2, <1>3, <1>4, FlagMarker DEF DebtOf
  <2> QED BY <1>2, <2>1 DEF DebtOf, Flagged, HasSpare, SkipsFrom, Markers, Gap, UpTo
<1>5. CASE SendData(d) /\ d \in turn /\ Stream(d)' = Append(Stream(d), appended)
  <2>1. Offered(d) = appended - 1 /\ rpc = "data" /\ d \notin gapPending
    BY <1>5 DEF SendData, Offered, NotPendingAtData
  <2>2. \/ HasSpare(snap[d][1], Stream(d)) \/ appended = snap[d][1]
        \/ \E j \in 1 .. Len(Stream(d)) : Stream(d)[j] = appended - 1
    BY <1>2, <1>3, <2>1 DEF DebtOf, Owes, HoldsClientsMu
  <2>3. Flagged(snap[d][1], Stream(d)')
    BY <1>2, <1>3, <1>5, <2>1, <2>2, FlagChunk DEF DebtOf, Gap
  <2>4. ~Owes(d)'
    <3>1. Offered(d)' = appended /\ rpc' = "visit"
      BY <1>5 DEF SendData, Offered, FreshIsEmpty
    <3>2. Len(Stream(d)') = Len(Stream(d)) + 1 /\ Stream(d)'[Len(Stream(d)) + 1] = appended
      BY <1>3, <1>5
    <3>3. Len(Stream(d)) + 1 \in 1 .. Len(Stream(d)')
      BY <1>3, <3>2
    <3> QED BY <3>1, <3>2, <3>3 DEF Owes
  <2> QED BY <1>2, <2>3, <2>4 DEF DebtOf, Flagged, SkipsFrom, Markers, Gap, UpTo
<1>6. CASE Stream(d)' = Stream(d) /\ ~SendMarker(d) /\ ~SendData(d)
  <2> SUFFICES ASSUME Owes(d)'
               PROVE  Owes(d)
    BY <1>2, <1>6, DebtFrame
  <2> USE DEF Owes, Offered, HoldsClientsMu
  <2>1. CASE ReadChunk
    BY <1>3, <1>6, <2>1 DEF ReadChunk, StreamInv, LoopIsEmptyOutside
  <2>2. CASE ReadError
    BY <1>6, <2>2 DEF ReadError, MarkDone, EndsInOrder
  <2>3. CASE CheckDone
    BY <1>6, <2>3 DEF CheckDone, EndsInOrder
  <2>4. CASE LockClients \/ EndBroadcast \/ TrackModes
    BY <1>6, <2>4 DEF LockClients, EndBroadcast, TrackModes, StreamInv, LoopIsEmptyOutside
  <2>5. ASSUME NEW c \in Clients, Serve(c)
        PROVE  Owes(d)
    <3>0. turn = {} \/ \E e \in Clients : turn = {e}
      BY DEF StreamInv, TypeOK
    <3>1. CASE Visit(c) \/ ClearPending(c)
      BY <1>6, <3>0, <3>1 DEF Visit, ClearPending, StreamInv, LoopIsEmptyOutside
    <3>2. CASE SendMarker(c) \/ SendData(c)
      BY <1>6, <3>0, <3>2 DEF SendMarker, SendData
    <3>3. CASE MarkerTimeout(c) \/ DataTimeout(c)
      BY <1>6, <3>0, <3>3 DEF MarkerTimeout, DataTimeout, FreshIsEmpty
    <3>4. CASE RecordDrop(c)
      BY <1>6, <3>0, <3>4 DEF RecordDrop
    <3> QED BY <2>5, <3>1, <3>2, <3>3, <3>4 DEF Serve
  <2> QED BY <2>1, <2>2, <2>3, <2>4, <2>5 DEF Reader, Broadcast
<1> QED BY <1>2, <1>4, <1>5, <1>6, ReaderStream

\* A handler starts with a snapshot without holes, and adds a marker for the drop it takes
\* (server.go:640-715).
LEMMA DebtsHandler ==
  ASSUME LossInv, StreamInv', NEW d \in Clients, Admit(d) \/ Disconnect(d) \/ Handler(d),
         d \in clients' \ cut'
  PROVE  DebtOf(d)'
<1> USE DEF LossInv, outputVars, loopVars, channelVars, endVars, handlerVars
<1>1. /\ UNCHANGED <<appended, firstKept, rpc, todo, turn, done, cpc, present>>
      /\ Offered(d)' = Offered(d)
  BY HandlersFrame
<1>2. /\ Stream(d) \in Seq(Nat) /\ appended \in Nat /\ Sent(d) \in Seq(Nat) /\ queue[d] \in Seq(Nat)
      /\ firstKept \in 1 .. (MaxChunks + 1) /\ appended \in 0 .. MaxChunks /\ DOMAIN snap = Clients
  BY StreamTypes DEF StreamInv, TypeOK
<1>3. CASE AttachClient(d) /\ Stream(d)' = Chunks(firstKept, appended) \o <<>>
  <2> DEFINE s == Chunks(firstKept, appended)
  <2>1. Stream(d)' = s /\ Len(s) \in Nat /\ DOMAIN s = 1 .. Len(s)
    BY <1>2, <1>3, ChunksType
  <2>2. \A i \in 1 .. Len(s) : i \in 1 .. (appended + 1 - firstKept) /\ s[i] = firstKept + i - 1
    BY <2>1 DEF Chunks
  <2>3. snap'[d][1] = firstKept
    BY <1>2, <1>3 DEF AttachClient
  <2>4. SkipsFrom(firstKept, s) = {} /\ Markers(s) = {}
    <3> HIDE DEF s
    <3>1. ASSUME NEW i \in SkipsFrom(firstKept, s)
          PROVE  FALSE
      <4>1. i \in 1 .. Len(s) /\ s[i] # firstKept /\ \A j \in 1 .. (i - 1) : s[j] # s[i] - 1
        BY DEF SkipsFrom
      <4>2. i # 1
        BY <1>2, <2>1, <2>2, <4>1
      <4>3. i - 1 \in 1 .. (i - 1) /\ i - 1 \in 1 .. Len(s)
        BY <2>1, <4>1, <4>2
      <4>4. s[i - 1] = s[i] - 1
        BY <1>2, <2>1, <2>2, <4>1, <4>3
      <4> QED BY <4>1, <4>3, <4>4
    <3>2. Markers(s) = {}
      BY <1>2, <2>1, <2>2 DEF Markers, Gap
    <3> QED BY <3>1, <3>2
  <2>5. Flagged(firstKept, s)
    <3>1. \A k : UpTo(SkipsFrom(firstKept, s), k) = {} /\ UpTo(Markers(s), k) = {}
      BY <2>4 DEF UpTo
    <3>2. Cardinality({}) = 0
      BY FS_EmptySet
    <3> HIDE DEF s
    <3> SUFFICES \A k \in 1 .. Len(s) : 0 <= 0
      BY <3>1, <3>2 DEF Flagged
    <3> QED OBVIOUS
  <2>6. ~Owes(d)'
    <3>1. rpc \notin {"clear", "marker"} /\ Offered(d) = appended
      BY <1>3 DEF AttachClient, Offered, HoldsOutputMu, HoldsClientsMu, StreamInv, LoopIsEmptyOutside
    <3>2. ASSUME appended >= firstKept
          PROVE  \E i \in 1 .. Len(s) : s[i] = appended
      <4>1. appended + 1 - firstKept \in 1 .. (appended + 1 - firstKept)
        BY <1>2, <3>2
      <4>2. DOMAIN s = 1 .. (appended + 1 - firstKept)
        BY DEF Chunks
      <4>3. appended + 1 - firstKept \in 1 .. Len(s)
        BY <2>1, <4>1, <4>2
      <4>4. s[appended + 1 - firstKept] = appended
        BY <1>2, <2>2, <4>3
      <4> QED BY <4>3, <4>4
    <3> HIDE DEF s
    <3> QED BY <1>1, <2>1, <2>3, <3>1, <3>2 DEF Owes
  <2> HIDE DEF s
  <2> QED BY <2>1, <2>3, <2>5, <2>6 DEF DebtOf, Flagged, SkipsFrom, Markers, Gap, UpTo
<1>4. CASE ~AttachClient(d)
  <2>1. d \in clients \ cut /\ snap' = snap /\ gapPending' \in {gapPending, gapPending \ {d}}
    BY <1>4 DEF Admit, Disconnect, Handler, NoteAttached, SendReplay, Deliver, CheckDrained,
       TakeOutputGap, SeeDone, LeaveEmpty, LeaveCut, Detach, RemoveClient, SetIdle
  <2>2. DebtOf(d)
    BY <2>1 DEF Debts
  <2>3. CASE /\ TakeOutputGap(d) /\ Stream(d) = Sent(d) \o queue[d]
             /\ Stream(d)' = Append(Sent(d), Gap) \o queue[d]
    <3>1. Flagged(snap[d][1], Stream(d)') /\ HasSpare(snap[d][1], Stream(d)')
      BY <1>2, <2>2, <2>3, FlagInsert DEF DebtOf
    <3> QED BY <2>1, <3>1 DEF DebtOf, Flagged, HasSpare, SkipsFrom, Markers, Gap, UpTo
  <2>4. CASE Stream(d)' = Stream(d)
    <3>1. CASE d \in gapPending' <=> d \in gapPending
      <4>1. Owes(d)' => Owes(d)
        BY <1>1, <2>1, <2>4, <3>1 DEF Owes, HoldsClientsMu
      <4> QED BY <2>1, <2>2, <2>4, <4>1, DebtFrame
    <3>2. CASE d \in gapPending /\ d \notin gapPending'
      <4>1. TakeOutputGap(d)
        BY <1>4, <3>2 DEF Admit, Disconnect, Handler, NoteAttached, SendReplay, Deliver,
           CheckDrained, TakeOutputGap, SeeDone, LeaveEmpty, LeaveCut, Detach, RemoveClient, SetIdle
      <4>2. Stream(d)' = Append(Sent(d), Gap) \o queue[d] /\ Stream(d) = Sent(d) \o queue[d]
        BY <2>1, <3>2, <4>1 DEF TakeOutputGap, Goto, Stream, Sent, StreamInv, TypeOK
      <4> QED BY <2>3, <4>1, <4>2
    <3> QED BY <2>1, <3>1, <3>2
  <2>5. ~LeaveCut(d)
    BY <2>1 DEF LeaveCut
  <2> QED BY <1>4, <2>3, <2>4, <2>5, HandlerStream
<1> QED BY <1>3, <1>4, HandlerStream

\* Every step keeps the holes flagged.
LEMMA DebtsStep ==
  ASSUME LossInv, StreamInv', [Next]_vars
  PROVE  Debts'
<1> USE DEF outputVars, loopVars, channelVars, endVars, handlerVars
<1>1. CASE Reader
  BY <1>1, DebtsReader
<1>2. CASE Kill \/ Close \/ UNCHANGED vars
  <2>1. UNCHANGED <<appended, rpc, todo, turn, queue, hpc, snap, got, gapPending, cut>>
    BY <1>2 DEF Kill, Close, CloseMarksDone, ClosePTY, SweepClients, vars
  <2> SUFFICES ASSUME NEW d \in clients' \ cut'
               PROVE  DebtOf(d)'
    BY DEF Debts
  <2>2. d \in clients \ cut
    BY <1>2 DEF Kill, Close, CloseMarksDone, ClosePTY, SweepClients, vars
  <2>3. DebtOf(d) /\ Stream(d)' = Stream(d) /\ Offered(d)' = Offered(d)
    BY <2>1, <2>2 DEF LossInv, Debts, Stream, Sent, Offered
  <2>4. Owes(d)' => Owes(d)
    BY <1>2, <2>1, <2>3 DEF Owes, HoldsClientsMu, Kill, Close, CloseMarksDone, ClosePTY,
       SweepClients, vars, MarkDone
  <2> QED BY <2>1, <2>3, <2>4, DebtFrame
<1>3. ASSUME NEW c \in Clients, Admit(c) \/ Disconnect(c) \/ Handler(c)
      PROVE  Debts'
  <2> SUFFICES ASSUME NEW d \in clients' \ cut'
               PROVE  DebtOf(d)'
    BY DEF Debts
  <2>0. d \in Clients
    BY DEF StreamInv, TypeOK
  <2>1. CASE d = c
    BY <1>3, <2>1, DebtsHandler
  <2>2. CASE d # c
    <3>1. /\ Stream(d)' = Stream(d) /\ snap'[d] = snap[d] /\ d \in clients \ cut
          /\ d \in gapPending' <=> d \in gapPending
      BY <1>3, <2>0, <2>2, OthersStream DEF LossInv
    <3>2. /\ UNCHANGED <<appended, firstKept, rpc, todo, turn, done, cpc, present>>
          /\ Offered(d)' = Offered(d)
      BY <1>3, HandlersFrame
    <3>3. Owes(d)' => Owes(d)
      BY <3>1, <3>2 DEF Owes, HoldsClientsMu
    <3> QED BY <3>1, <3>3, DebtFrame DEF LossInv, Debts
  <2> QED BY <2>1, <2>2
<1> QED BY <1>1, <1>2, <1>3 DEF Next

\* The debts stay (session.go:471-532, server.go:640-715).
LEMMA LossAlways == Spec => []LossInv
<1>1. Init => EndsInOrder /\ NotPendingAtData /\ SnapBehind /\ Debts /\ DrainIsComplete /\ FreshIsEmpty
  BY DEF Init, EndsInOrder, NotPendingAtData, SnapBehind, Debts, DrainIsComplete, FreshIsEmpty
<1>2. LossInv /\ StreamInv' /\ [Next]_vars => LossInv'
  <2> SUFFICES ASSUME LossInv, StreamInv', [Next]_vars
               PROVE  LossInv'
    OBVIOUS
  <2>1. FreshIsEmpty' /\ EndsInOrder' /\ NotPendingAtData' /\ SnapBehind'
    BY FreshStep, EndsInOrderStep, NotPendingStep, SnapBehindStep DEF LossInv
  <2>2. DrainIsComplete' /\ Debts'
    BY <2>1, DrainStep, DebtsStep DEF LossInv
  <2> QED BY <2>1, <2>2 DEF LossInv
<1> QED BY <1>1, <1>2, Invariance, PTL DEF Spec, LossInv

\* What a client is not sent it knows to be missing, however many clients there are and however
\* small the channels (session.go:471-532, server.go:688-707).
THEOREM LossIsMarked == Spec => []NothingIsLostSilently
<1>1. LossInv /\ InOrder => NothingIsLostSilently
  <2> SUFFICES ASSUME LossInv, InOrder, NEW c \in clients \ cut
               PROVE  LET s == Stream(c) IN
                 /\ \A k \in 1 .. Len(s) :
                      Cardinality({i \in Skips(c, s) : i <= k}) <= Cardinality({i \in Markers(s) : i <= k})
                 /\ /\ cpc \in {"idle", "marking"}
                    /\ Offered(c) >= snap[c][1]
                    /\ \A i \in 1 .. Len(s) : s[i] # Offered(c)
                    /\ c \notin gapPending
                    => Cardinality(Skips(c, s)) < Cardinality(Markers(s))
    BY DEF NothingIsLostSilently, LossIsFlagged, LossInv
  <2>1. DebtOf(c)
    BY DEF LossInv, Debts
  <2>2. Skips(c, Stream(c)) = SkipsFrom(snap[c][1], Stream(c))
    BY DEF Skips, SkipsFrom
  <2> QED BY <2>1, <2>2 DEF DebtOf, Flagged, HasSpare, UpTo, Owes
<1> QED BY <1>1, LossAlways, StreamInOrder, PTL

-----------------------------------------------------------------------------
(* What a client may count on *)

\* The buffer holds the last chunks, as many as fit.
KeptIsExact ==
  firstKept = IF appended > MaxScrollback THEN appended + 1 - MaxScrollback ELSE 1

\* Who is served has been sent the whole replay.
HasChunks(s, from, to) == \A n \in from .. to : \E i \in 1 .. Len(s) : s[i] = n
ReplayIsGiven ==
  \A c \in Clients :
    hpc[c] \in {"streaming", "sent", "asking"} => HasChunks(got[c], snap[c][1], snap[c][2])

\* The holes of a client stay flagged when it is no longer registered.
FlagsStay == \A c \in Clients \ cut : Flagged(snap[c][1], Stream(c))

PromiseInv ==
  LossInv /\ StreamIsOrdered /\ KeptIsExact /\ ReplayIsGiven /\ FlagsStay

\* One chunk goes when one more than fits has come (session.go:427-441).
LEMMA KeptStep ==
  ASSUME StreamInv, KeptIsExact, [Next]_vars
  PROVE  KeptIsExact'
<1> USE DEF KeptIsExact, outputVars, loopVars, channelVars, endVars, handlerVars
<1>1. appended \in Nat /\ MaxScrollback \in Nat
  BY StreamAssumption DEF StreamInv, TypeOK
<1>2. CASE ReadChunk
  BY <1>1, <1>2 DEF ReadChunk, KeptFrom
<1>3. CASE Broadcast \/ ReadError
  BY <1>3 DEF ReadError, Broadcast, CheckDone, LockClients, EndBroadcast, TrackModes, Serve, Visit,
     SendMarker, MarkerTimeout, ClearPending, SendData, DataTimeout, RecordDrop
<1>4. CASE Kill \/ Close \/ UNCHANGED vars
  BY <1>4 DEF Kill, Close, CloseMarksDone, ClosePTY, SweepClients, vars
<1>5. ASSUME NEW c \in Clients, Admit(c) \/ Disconnect(c) \/ Handler(c)
      PROVE  KeptIsExact'
  BY <1>5, HandlersFrame
<1> QED BY <1>2, <1>3, <1>4, <1>5 DEF Next, Reader

\* Every chunk of an interval is in its sequence.
LEMMA ChunksAll ==
  ASSUME NEW from \in 1 .. (MaxChunks + 1), NEW to \in 0 .. MaxChunks
  PROVE  HasChunks(Chunks(from, to), from, to)
<1> USE StreamAssumption
<1> SUFFICES ASSUME NEW n \in from .. to
             PROVE  \E i \in 1 .. Len(Chunks(from, to)) : Chunks(from, to)[i] = n
  BY DEF HasChunks
<1> DEFINE s == Chunks(from, to)
<1>1. DOMAIN s = 1 .. (to + 1 - from) /\ DOMAIN s = 1 .. Len(s)
  BY ChunksType DEF Chunks
<1>2. n + 1 - from \in 1 .. (to + 1 - from) /\ from + (n + 1 - from) - 1 = n
  OBVIOUS
<1>3. s[n + 1 - from] = n
  BY <1>2 DEF Chunks
<1>4. n + 1 - from \in 1 .. Len(s)
  BY <1>1, <1>2
<1> QED BY <1>3, <1>4

\* A sequence keeps its items when one is added.
LEMMA AppendKeeps ==
  ASSUME NEW s \in Seq(Nat), NEW x \in Nat, NEW from, NEW to, HasChunks(s, from, to)
  PROVE  HasChunks(Append(s, x), from, to)
<1> SUFFICES ASSUME NEW n \in from .. to
             PROVE  \E j \in 1 .. Len(Append(s, x)) : Append(s, x)[j] = n
  BY DEF HasChunks
<1>1. PICK i \in 1 .. Len(s) : s[i] = n
  BY DEF HasChunks
<1>2. i \in 1 .. Len(Append(s, x)) /\ Append(s, x)[i] = s[i]
  OBVIOUS
<1> QED BY <1>1, <1>2

\* The replay is sent before anything else, and what was sent is not taken back
\* (server.go:603-640).
LEMMA ReplayStep ==
  ASSUME StreamInv, ReplayIsGiven, [Next]_vars
  PROVE  ReplayIsGiven'
<1> USE DEF outputVars, loopVars, channelVars, endVars, handlerVars
<1>1. CASE Reader \/ Kill \/ Close \/ UNCHANGED vars
  <2>1. UNCHANGED <<hpc, snap, got>>
    BY <1>1 DEF Reader, ReadChunk, ReadError, Broadcast, CheckDone, LockClients, EndBroadcast,
       TrackModes, Serve, Visit, SendMarker, MarkerTimeout, ClearPending, SendData, DataTimeout,
       RecordDrop, Kill, Close, CloseMarksDone, ClosePTY, SweepClients, vars
  <2> QED BY <2>1 DEF ReplayIsGiven
<1>2. ASSUME NEW c \in Clients, Admit(c) \/ Disconnect(c) \/ Handler(c)
      PROVE  ReplayIsGiven'
  <2> DEFINE Given(d) == hpc[d] \in {"streaming", "sent", "asking"} =>
                        HasChunks(got[d], snap[d][1], snap[d][2])
  <2>1. /\ hpc \in [Clients -> HandlerSteps] /\ DOMAIN got = Clients /\ DOMAIN snap = Clients
        /\ got[c] \in Seq(Nat) /\ queue[c] \in Seq(Nat)
        /\ snap[c][1] \in 1 .. (MaxChunks + 1) /\ snap[c][2] \in 0 .. MaxChunks
    BY StreamTypes DEF StreamInv, TypeOK
  <2>2. \A d \in Clients : Given(d)
    BY DEF ReplayIsGiven
  <2>3. ASSUME NEW d \in Clients, d # c
        PROVE  Given(d)'
    <3>1. hpc'[d] = hpc[d] /\ got'[d] = got[d] /\ snap'[d] = snap[d]
      BY <1>2, <2>1, <2>3 DEF Admit, Disconnect, Handler, AttachClient, NoteAttached, SendReplay,
         Deliver, CheckDrained, TakeOutputGap, SeeDone, LeaveEmpty, LeaveCut, Detach,
         RemoveClient, SetIdle, Goto
    <3> QED BY <2>2, <3>1
  <2>4. Given(c)'
    <3>1. CASE SendReplay(c)
      <4>1. got'[c] = Chunks(snap[c][1], snap[c][2]) /\ snap' = snap
        BY <2>1, <3>1 DEF SendReplay
      <4> QED BY <2>1, <4>1, ChunksAll
    <3>2. CASE Deliver(c)
      <4>1. /\ got'[c] = Append(got[c], Head(queue[c])) /\ snap' = snap
            /\ hpc[c] = "streaming" /\ Head(queue[c]) \in Nat
        BY <2>1, <3>2 DEF Deliver
      <4>2. HasChunks(got[c], snap[c][1], snap[c][2])
        BY <2>2, <4>1
      <4> QED BY <2>1, <4>1, <4>2, AppendKeeps
    <3>3. CASE TakeOutputGap(c)
      <4>1. /\ got'[c] \in {got[c], Append(got[c], Gap)} /\ snap' = snap
            /\ hpc[c] = "asking" /\ Gap \in Nat
        BY <2>1, <3>3 DEF TakeOutputGap, Gap
      <4>2. HasChunks(got[c], snap[c][1], snap[c][2])
        BY <2>2, <4>1
      <4>3. CASE got'[c] = got[c]
        BY <4>1, <4>2, <4>3
      <4>4. CASE got'[c] = Append(got[c], Gap)
        BY <2>1, <4>1, <4>2, <4>4, AppendKeeps
      <4> QED BY <4>1, <4>3, <4>4
    <3>4. CASE ~SendReplay(c) /\ ~Deliver(c) /\ ~TakeOutputGap(c)
      <4>1. /\ hpc'[c] \in {"streaming", "sent", "asking"} =>
                 hpc[c] \in {"streaming", "sent", "asking"} /\ snap'[c] = snap[c]
            /\ got' = got
        BY <1>2, <2>1, <3>4 DEF Admit, Disconnect, Handler, AttachClient, NoteAttached,
           CheckDrained, SeeDone, LeaveEmpty, LeaveCut, Detach, RemoveClient, SetIdle, Goto
      <4> SUFFICES ASSUME hpc'[c] \in {"streaming", "sent", "asking"}
                   PROVE  HasChunks(got'[c], snap'[c][1], snap'[c][2])
        OBVIOUS
      <4>2. HasChunks(got[c], snap[c][1], snap[c][2])
        BY <2>2, <4>1
      <4>3. snap'[c] = snap[c] /\ got'[c] = got[c]
        BY <4>1
      <4> QED BY <4>2, <4>3
    <3> QED BY <3>1, <3>2, <3>3, <3>4
  <2> HIDE DEF Given
  <2>5. \A d \in Clients : Given(d)'
    BY <2>3, <2>4
  <2> QED BY <2>5 DEF ReplayIsGiven, Given
<1> QED BY <1>1, <1>2 DEF Next

\* A client that leaves the map gets no more than what is queued for it, and one that is cut
\* off gets nothing (session.go:388-400, pty.go:367-388).
LEMMA FlagsStep ==
  ASSUME LossInv, LossInv', FlagsStay, [Next]_vars
  PROVE  FlagsStay'
<1> USE DEF outputVars, loopVars, channelVars, endVars, handlerVars
<1> SUFFICES ASSUME NEW d \in Clients \ cut'
             PROVE  Flagged(snap[d][1], Stream(d))'
  BY DEF FlagsStay
<1>1. CASE d \in clients'
  BY <1>1 DEF LossInv, Debts, DebtOf
<1>2. CASE d \notin clients'
  <2> USE DEF LossInv
  <2>1. d \notin cut /\ snap'[d] = snap[d] /\ Stream(d)' = Stream(d)
    <3>1. CASE Reader
      <4>1. clients' = clients /\ cut' = cut /\ snap' = snap
        BY <3>1 DEF Reader, ReadChunk, ReadError, Broadcast, CheckDone, LockClients, EndBroadcast,
           TrackModes, Serve, Visit, SendMarker, MarkerTimeout, ClearPending, SendData,
           DataTimeout, RecordDrop
      <4>2. d \notin turn
        BY <1>2, <4>1 DEF StreamInv, SendsOnOpenChannels
      <4> QED BY <3>1, <4>1, <4>2, ReaderStream
    <3>2. CASE Kill \/ Close \/ UNCHANGED vars
      BY <3>2 DEF Kill, Close, CloseMarksDone, ClosePTY, SweepClients, vars, Stream, Sent
    <3>3. ASSUME NEW c \in Clients, Admit(c) \/ Disconnect(c) \/ Handler(c)
          PROVE  d \notin cut /\ snap'[d] = snap[d] /\ Stream(d)' = Stream(d)
      <4>1. CASE c # d
        BY <3>3, <4>1, OthersStream
      <4>2. CASE c = d
        <5>1. d \notin cut /\ ~AttachClient(d) /\ ~LeaveCut(d)
          BY <1>2, <3>3, <4>2 DEF Admit, Disconnect, Handler, AttachClient, NoteAttached,
             SendReplay, Deliver, CheckDrained, TakeOutputGap, SeeDone, LeaveEmpty, LeaveCut,
             Detach, RemoveClient, SetIdle
        <5>2. snap' = snap
          BY <3>3, <4>2, <5>1 DEF Admit, Disconnect, Handler, NoteAttached, SendReplay, Deliver,
             CheckDrained, TakeOutputGap, SeeDone, LeaveEmpty, Detach, RemoveClient, SetIdle
        <5>3. CASE TakeOutputGap(d)
          BY <1>2, <5>3 DEF TakeOutputGap, Goto, Stream, Sent, StreamInv, TypeOK
        <5> QED BY <3>3, <4>2, <5>1, <5>2, <5>3, HandlerStream
      <4> QED BY <4>1, <4>2
    <3> QED BY <3>1, <3>2, <3>3 DEF Next
  <2>2. Flagged(snap[d][1], Stream(d))
    BY <2>1 DEF FlagsStay
  <2> QED BY <2>1, <2>2 DEF Flagged, SkipsFrom, Markers, Gap, UpTo
<1> QED BY <1>1, <1>2

\* What is sent next stands behind what has been sent.
LEMMA NextInStream ==
  ASSUME NEW s \in Seq(Nat), NEW q \in Seq(Nat), q # <<>>
  PROVE  /\ Len(s) \in Nat /\ Len(s) + 1 \in 1 .. Len(s \o q)
         /\ (s \o q)[Len(s) + 1] = Head(q) /\ Head(q) \in Nat
         /\ \A i \in 1 .. Len(s) : i \in 1 .. Len(s \o q) /\ (s \o q)[i] = s[i]
OBVIOUS

\* It is the later of the two.
LEMMA NextIsLater ==
  ASSUME NEW s \in Seq(Nat), NEW q \in Seq(Nat), q # <<>>, Ordered(s \o q), Head(q) # Gap,
         NEW i \in 1 .. Len(s), s[i] # Gap
  PROVE  s[i] < Head(q)
<1> DEFINE t == s \o q
           k == Len(s) + 1
<1>1. /\ i \in 1 .. Len(t) /\ k \in 1 .. Len(t) /\ i < k
      /\ t[i] = s[i] /\ t[k] = Head(q) /\ Ordered(t)
  BY NextInStream
<1> HIDE DEF t, k
<1> QED BY <1>1 DEF Ordered

\* A client is told of a hole before it gets the chunk behind it.
LEMMA SpareAtHole ==
  ASSUME NEW s \in Seq(Nat), NEW q \in Seq(Nat), q # <<>>, NEW a, Flagged(a, s \o q),
         Head(q) # Gap, Head(q) # a, \A j \in 1 .. Len(s) : s[j] # Head(q) - 1
  PROVE  HasSpare(a, s)
<1> DEFINE n == Len(s)
           t == s \o q
<1>1. /\ n \in Nat /\ Len(t) = n + Len(q) /\ Len(q) \in Nat \ {0}
      /\ (\A i \in 1 .. n : t[i] = s[i]) /\ t[n + 1] = Head(q)
  OBVIOUS
<1>2. n + 1 \in 1 .. Len(t)
  BY <1>1
<1> HIDE DEF t, n
<1>3. UpTo(SkipsFrom(a, t), n + 1) = SkipsFrom(a, s) \cup {n + 1}
  <2>1. n + 1 \in SkipsFrom(a, t)
    BY <1>1, <1>2 DEF SkipsFrom, n
  <2>2. \A i \in 1 .. n : i \in SkipsFrom(a, t) <=> i \in SkipsFrom(a, s)
    <3> SUFFICES ASSUME NEW i \in 1 .. n PROVE i \in SkipsFrom(a, t) <=> i \in SkipsFrom(a, s)
      OBVIOUS
    <3>1. i \in 1 .. Len(t) /\ i \in 1 .. Len(s) /\ t[i] = s[i]
      BY <1>1 DEF n
    <3>2. \A j \in 1 .. (i - 1) : t[j] = s[j]
      BY <1>1
    <3> QED BY <3>1, <3>2 DEF SkipsFrom
  <2>3. SkipsFrom(a, s) \subseteq 1 .. n /\ SkipsFrom(a, t) \subseteq Nat \ {0}
    BY <1>1 DEF SkipsFrom, n
  <2>4. \A i \in Nat \ {0} : i <= n + 1 <=> i \in 1 .. n \/ i = n + 1
    BY <1>1
  <2> QED BY <2>1, <2>2, <2>3, <2>4 DEF UpTo
<1>4. UpTo(Markers(t), n + 1) = Markers(s)
  <2>1. \A i \in 1 .. n : i \in Markers(t) <=> i \in Markers(s)
    BY <1>1 DEF Markers, n
  <2>2. Markers(s) \subseteq 1 .. n /\ Markers(t) \subseteq Nat \ {0} /\ n + 1 \notin Markers(t)
    BY <1>1 DEF Markers, n
  <2>3. \A i \in Nat \ {0} : i <= n + 1 <=> i \in 1 .. n \/ i = n + 1
    BY <1>1
  <2> QED BY <2>1, <2>2, <2>3 DEF UpTo
<1>5. /\ SkipsFrom(a, s) \in SUBSET (1 .. n) /\ Markers(s) \in SUBSET (1 .. n)
      /\ n + 1 \notin SkipsFrom(a, s)
  BY <1>1 DEF SkipsFrom, Markers, n
<1>6. /\ IsFiniteSet(SkipsFrom(a, s)) /\ Cardinality(SkipsFrom(a, s)) \in Nat
      /\ Cardinality(Markers(s)) \in Nat
  BY <1>1, <1>5, PositionsFinite
<1>7. Cardinality(SkipsFrom(a, s) \cup {n + 1}) = Cardinality(SkipsFrom(a, s)) + 1
  BY <1>5, <1>6, FS_AddElement
<1>8. Cardinality(UpTo(SkipsFrom(a, t), n + 1)) <= Cardinality(UpTo(Markers(t), n + 1))
  BY <1>2 DEF Flagged, t
<1>9. Cardinality(UpTo(SkipsFrom(a, t), n + 1)) = Cardinality(SkipsFrom(a, s)) + 1
  BY <1>3, <1>7
<1>10. Cardinality(UpTo(Markers(t), n + 1)) = Cardinality(Markers(s))
  BY <1>4
<1> QED BY <1>6, <1>8, <1>9, <1>10 DEF HasSpare

\* The promise counts as the standard module does.
LEMMA SameCardinality == ASSUME NEW S PROVE Promise!Cardinality(S) = Cardinality(S)
BY DEF Promise!Cardinality, Cardinality

\* An item that is delivered is a marker, or a chunk that the client may be sent.
LEMMA DeliverKeepsPromise ==
  ASSUME PromiseInv, NEW c \in Clients, Deliver(c)
  PROVE  Promise!Send(c) \/ Promise!Mark(c)
<1> DEFINE s == got[c]
           q == queue[c]
           x == Head(q)
           a == snap[c][1]
<1>1. /\ s \in Seq(Nat) /\ q \in Seq(Nat) /\ appended \in Nat /\ Offered(c) \in Nat
  BY StreamTypes DEF PromiseInv, LossInv
<1>2. /\ hpc[c] = "streaming" /\ q # <<>> /\ c \notin cut
      /\ got' = [got EXCEPT ![c] = Append(@, x)]
      /\ UNCHANGED <<appended, snap>>
  BY DEF Deliver, outputVars, handlerVars
<1>3. {d \in Clients : hpc'[d] \notin {"out", "admitted"}}
        = {d \in Clients : hpc[d] \notin {"out", "admitted"}}
  BY <1>2 DEF Deliver, Goto, PromiseInv, LossInv, StreamInv, TypeOK
<1>4. Promise!Replayed(c)
  BY <1>2 DEF Promise!Replayed, Promise!Has, PromiseInv, ReplayIsGiven, HasChunks
<1>5. Stream(c) = s \o q
  BY <1>2 DEF Stream, Sent
<1>6. Ordered(s \o q) /\ AtMost(s \o q, Offered(c)) /\ Flagged(a, s \o q)
  BY <1>2, <1>5 DEF PromiseInv, StreamIsOrdered, FlagsStay
<1>7. x \in Nat /\ Offered(c) <= appended
  <2>1. x \in Nat
    BY <1>1, <1>2
  <2>2. Offered(c) <= appended
    BY <1>1 DEF Offered
  <2> QED BY <2>1, <2>2
<1>8. Promise!Gap = Gap
  BY DEF Promise!Gap, Gap
<1>9. CASE x = Gap
  BY <1>2, <1>3, <1>4, <1>8, <1>9 DEF Promise!Mark, Promise!Give
<1>10. CASE x # Gap
  <2>1. /\ Len(s) \in Nat /\ Len(s) + 1 \in 1 .. Len(s \o q) /\ (s \o q)[Len(s) + 1] = x
        /\ \A i \in 1 .. Len(s) : i \in 1 .. Len(s \o q) /\ (s \o q)[i] = s[i]
    BY <1>1, <1>2, NextInStream
  <2>2. x \in 1 .. appended
    <3>1. x <= Offered(c)
      BY <1>6, <2>1 DEF AtMost
    <3> QED BY <1>1, <1>7, <1>10, <3>1 DEF Gap
  <2>3. \A i \in 1 .. Len(s) : s[i] < x
    <3> SUFFICES ASSUME NEW i \in 1 .. Len(s) PROVE s[i] < x
      OBVIOUS
    <3>1. s[i] \in Nat
      BY <1>1
    <3>2. CASE s[i] = Gap
      BY <1>7, <1>10, <3>2 DEF Gap
    <3>3. CASE s[i] # Gap
      BY <1>1, <1>2, <1>6, <1>10, <3>3, NextIsLater
    <3> QED BY <3>2, <3>3
  <2>4. x = a \/ (\E j \in 1 .. Len(s) : s[j] = x - 1) \/ HasSpare(a, s)
    <3> SUFFICES ASSUME x # a, \A j \in 1 .. Len(s) : s[j] # x - 1 PROVE HasSpare(a, s)
      OBVIOUS
    <3> QED BY <1>1, <1>2, <1>6, <1>10, SpareAtHole
  <2>5. Promise!Holes(c) = SkipsFrom(a, s) /\ Promise!Markers(c) = Markers(s)
    BY <1>8 DEF Promise!Holes, Promise!Markers, SkipsFrom, Markers
  <2>6. x = a \/ Promise!Has(c, x - 1) \/ Promise!Cardinality(Promise!Holes(c)) < Promise!Cardinality(Promise!Markers(c))
    BY <2>4, <2>5, SameCardinality DEF HasSpare, Promise!Has
  <2>7. Promise!Give(c, x)
    BY <1>2, <1>3 DEF Promise!Give
  <2> HIDE DEF x, a
  <2> QED BY <1>4, <2>2, <2>3, <2>6, <2>7 DEF Promise!Send, a
<1> QED BY <1>9, <1>10

\* Who has begun an attach never gets back before it, and only AttachClient begins one.
LEMMA OthersAttachNobody ==
  ASSUME StreamInv, [Next]_vars, \A c \in Clients : ~AttachClient(c)
  PROVE  {c \in Clients : hpc'[c] \notin {"out", "admitted"}}
           = {c \in Clients : hpc[c] \notin {"out", "admitted"}}
<1> USE DEF outputVars, loopVars, channelVars, endVars, handlerVars
<1>1. CASE \E c \in Clients : Admit(c) \/ Disconnect(c) \/ Handler(c)
  <2> PICK c \in Clients : Admit(c) \/ Disconnect(c) \/ Handler(c)
    BY <1>1
  <2>1. hpc \in [Clients -> HandlerSteps]
    BY DEF StreamInv, TypeOK
  <2>2. \A d \in Clients : hpc'[d] \in {"out", "admitted"} <=> hpc[d] \in {"out", "admitted"}
    BY <2>1 DEF Admit, Disconnect, Handler, NoteAttached, SendReplay, Deliver, CheckDrained,
       TakeOutputGap, SeeDone, LeaveEmpty, LeaveCut, Detach, RemoveClient, SetIdle, Goto
  <2> QED BY <2>2
<1>2. CASE Reader \/ Kill \/ Close \/ UNCHANGED vars
  <2>1. hpc' = hpc
    BY <1>2 DEF Reader, ReadChunk, ReadError, Broadcast, CheckDone, LockClients, EndBroadcast,
       TrackModes, Serve, Visit, SendMarker, MarkerTimeout, ClearPending, SendData,
       DataTimeout, RecordDrop, Kill, Close, CloseMarksDone, ClosePTY, SweepClients, vars
  <2> QED BY <2>1
<1> QED BY <1>1, <1>2 DEF Next

\* Only a read, a replay, a delivery and a tail marker change what is promised.
LEMMA OthersKeepPromise ==
  ASSUME StreamInv, [Next]_vars, ~ReadChunk,
         \A c \in Clients : ~AttachClient(c) /\ ~SendReplay(c) /\ ~Deliver(c) /\ ~TakeOutputGap(c)
  PROVE  UNCHANGED Promise!vars
<1> USE DEF outputVars, loopVars, channelVars, endVars, handlerVars
<1>1. UNCHANGED <<appended, snap, got>>
  <2>1. CASE \E c \in Clients : Admit(c) \/ Disconnect(c) \/ Handler(c)
    BY <2>1 DEF Admit, Disconnect, Handler, NoteAttached, CheckDrained, SeeDone, LeaveEmpty,
       LeaveCut, Detach, RemoveClient, SetIdle
  <2>2. CASE Reader \/ Kill \/ Close \/ UNCHANGED vars
    BY <2>2 DEF Reader, ReadError, Broadcast, CheckDone, LockClients, EndBroadcast,
       TrackModes, Serve, Visit, SendMarker, MarkerTimeout, ClearPending, SendData,
       DataTimeout, RecordDrop, Kill, Close, CloseMarksDone, ClosePTY, SweepClients, vars
  <2> QED BY <2>1, <2>2 DEF Next
<1> QED BY <1>1, OthersAttachNobody DEF Promise!vars

\* Every step does to what is promised what the promise allows.
LEMMA StepKeepsPromise ==
  ASSUME PromiseInv, FreshIsEmpty, [Next]_vars
  PROVE  [Promise!Next]_(Promise!vars)
<1> USE DEF outputVars, loopVars, channelVars, endVars, handlerVars
<1> DEFINE Attached == {c \in Clients : hpc[c] \notin {"out", "admitted"}}
<1>1. StreamInv /\ hpc \in [Clients -> HandlerSteps]
  BY DEF PromiseInv, LossInv, StreamInv, TypeOK
<1>2. CASE ReadChunk
  <2>1. appended' = appended + 1 /\ UNCHANGED <<hpc, snap, got>>
    BY <1>2 DEF ReadChunk
  <2> QED BY <2>1 DEF Promise!Next, Promise!Write
<1>3. ASSUME NEW c \in Clients, AttachClient(c)
      PROVE  Promise!Attach(c)
  <2>1. /\ hpc[c] = "admitted" /\ UNCHANGED <<appended, got>>
        /\ snap' = [snap EXCEPT ![c] = <<firstKept, appended>>]
    BY <1>3 DEF AttachClient
  <2>2. hpc' = [hpc EXCEPT ![c] = IF clients = {} THEN "noting" ELSE "replaying"]
    BY <1>3 DEF AttachClient, Goto
  <2>3. {d \in Clients : hpc'[d] \notin {"out", "admitted"}} = Attached \cup {c}
    BY <1>1, <2>2
  <2>4. firstKept = Promise!Oldest
    BY DEF PromiseInv, KeptIsExact, Promise!Oldest
  <2> QED BY <2>1, <2>3, <2>4 DEF Promise!Attach
<1>4. ASSUME NEW c \in Clients, SendReplay(c)
      PROVE  Promise!Replay(c)
  <2>1. /\ hpc[c] = "replaying" /\ UNCHANGED <<appended, snap>>
        /\ got' = [got EXCEPT ![c] = Chunks(snap[c][1], snap[c][2])]
    BY <1>4 DEF SendReplay
  <2>2. \A d \in Clients : ~AttachClient(d)
    <3> SUFFICES ASSUME NEW d \in Clients, AttachClient(d) PROVE FALSE
      OBVIOUS
    <3>1. hpc[d] = "admitted" /\ hpc'[d] \in {"noting", "replaying"}
      BY <1>1 DEF AttachClient, Goto
    <3>2. d # c /\ hpc'[d] = hpc[d]
      BY <1>1, <1>4, <3>1 DEF SendReplay, Goto
    <3> QED BY <3>1, <3>2
  <2>3. {d \in Clients : hpc'[d] \notin {"out", "admitted"}} = Attached
    BY <1>1, <2>2, OthersAttachNobody
  <2>4. got[c] = <<>>
    BY <2>1 DEF FreshIsEmpty
  <2>5. \A m, n : Chunks(m, n) = Promise!Interval(m, n)
    BY DEF Chunks, Promise!Interval
  <2> QED BY <2>1, <2>3, <2>4, <2>5 DEF Promise!Replay
<1>5. ASSUME NEW c \in Clients, TakeOutputGap(c)
      PROVE  Promise!Mark(c) \/ UNCHANGED Promise!vars
  <2>1. /\ hpc[c] = "asking" /\ UNCHANGED <<appended, snap>>
        /\ got' = [got EXCEPT ![c] = Append(@, Gap)] \/ got' = got
    BY <1>5, StreamTypes DEF TakeOutputGap, PromiseInv, LossInv, StreamInv, TypeOK
  <2>2. \A d \in Clients : ~AttachClient(d)
    <3> SUFFICES ASSUME NEW d \in Clients, AttachClient(d) PROVE FALSE
      OBVIOUS
    <3>1. hpc[d] = "admitted" /\ hpc'[d] \in {"noting", "replaying"}
      BY <1>1 DEF AttachClient, Goto
    <3>2. d # c /\ hpc'[d] = hpc[d]
      BY <1>1, <1>5, <3>1 DEF TakeOutputGap, Goto
    <3> QED BY <3>1, <3>2
  <2>3. {d \in Clients : hpc'[d] \notin {"out", "admitted"}} = Attached
    BY <1>1, <2>2, OthersAttachNobody
  <2>4. Promise!Replayed(c)
    BY <2>1 DEF Promise!Replayed, Promise!Has, PromiseInv, ReplayIsGiven, HasChunks
  <2> QED BY <2>1, <2>3, <2>4 DEF Promise!Mark, Promise!Give, Promise!vars, Promise!Gap, Gap
<1>6. CASE \E c \in Clients : Deliver(c)
  BY <1>6, DeliverKeepsPromise DEF Promise!Next
<1>7. CASE ~ReadChunk /\ \A c \in Clients :
             ~AttachClient(c) /\ ~SendReplay(c) /\ ~Deliver(c) /\ ~TakeOutputGap(c)
  BY <1>1, <1>7, OthersKeepPromise
<1> QED BY <1>2, <1>3, <1>4, <1>5, <1>6, <1>7 DEF Promise!Next

\* What the promise rests on holds from the start and in every step.
LEMMA PromiseAlways == Spec => [](PromiseInv /\ FreshIsEmpty)
<1>1. Init => KeptIsExact /\ ReplayIsGiven /\ FlagsStay
  <2> SUFFICES ASSUME Init PROVE KeptIsExact /\ ReplayIsGiven /\ FlagsStay
    OBVIOUS
  <2>1. KeptIsExact
    BY StreamAssumption DEF Init, KeptIsExact
  <2>2. ReplayIsGiven
    BY DEF Init, ReplayIsGiven
  <2>3. FlagsStay
    <3> SUFFICES ASSUME NEW c \in Clients PROVE Flagged(snap[c][1], Stream(c))
      BY DEF FlagsStay
    <3>1. Stream(c) = <<>>
      BY DEF Init, Stream, Sent
    <3> QED BY <3>1 DEF Flagged
  <2> QED BY <2>1, <2>2, <2>3
<1>2. LossInv /\ LossInv' /\ FreshIsEmpty /\ KeptIsExact /\ ReplayIsGiven /\ FlagsStay /\ [Next]_vars
        => KeptIsExact' /\ ReplayIsGiven' /\ FlagsStay'
  <2>1. LossInv => StreamInv
    BY DEF LossInv
  <2> QED BY <2>1, KeptStep, ReplayStep, FlagsStep
<1> QED BY <1>1, <1>2, LossAlways, StreamAlways, PTL DEF Spec, PromiseInv

\* What a client receives over channel, handler and link is what an attach promises, for
\* every number of clients, buffer, channel and output: the last output in one piece, then
\* later chunks in order, and a marker for each hole before the chunk that follows it,
\* whatever stalls, drops, cuts off or ends (session.go:288-293, 419-532,
\* server.go:603-715).
THEOREM StreamKeepsPromise == Spec => ImplementsPromise
<1>1. Init => Promise!Init
  BY DEF Init, Promise!Init
<1>2. PromiseInv /\ FreshIsEmpty /\ [Next]_vars => [Promise!Next]_(Promise!vars)
  BY StepKeepsPromise
<1> QED BY <1>1, <1>2, PromiseAlways, PTL DEF Spec, ImplementsPromise, Promise!Spec
=============================================================================
