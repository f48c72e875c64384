---------------------------- MODULE AttachCommand ----------------------------
(* hqssh attach (internal/cli/cmd/helpers.go) with the Input call that takes  *)
(* its keys (internal/server/server.go): the goroutine that reads the         *)
(* terminal, the loop that receives output, the context that ends both, and   *)
(* the chord that detaches. What the Attach call sends is in OutputStream;    *)
(* here it is only how its stream ends.                                       *)
EXTENDS Naturals, Sequences

CONSTANT MaxTyped  \* bound: keys typed

\* The detach prefix Ctrl+B, the "d" that completes the chord, and any other key.
Keys == {"^B", "d", "x"}

VARIABLES
  typed,     \* all that was typed
  taken,     \* how many of these keys were read
  armed,     \* detachScanner.armed
  pending,   \* keys the scanner has passed on, not sent yet
  input,     \* the goroutine: "loop", "read", "send", "sendAndDetach",
             \* "detach" or "done"
  inflight,  \* keys on the input stream that the daemon has not handled
  upstream,  \* the input stream: "open" or "broken"
  received,  \* keys the session was given
  session,   \* "running" or "ended"
  stream,    \* how the output stream stands: "open", "eof" or "error"
  ctx,       \* the command's context is cancelled
  output     \* the receiving loop: "recv", "failing", "leaving", "detach", "left"

keyVars == <<typed, taken, armed, pending>>
vars == <<keyVars, input, inflight, upstream, received, session, stream, ctx, output>>

\* The streams are open; the session may have ended before the daemon saw the call.
Init ==
  /\ typed = <<>> /\ taken = 0 /\ armed = FALSE /\ pending = <<>>
  /\ input = "loop" /\ inflight = <<>> /\ upstream = "open" /\ received = <<>>
  /\ session \in {"running", "ended"}
  /\ stream = IF session = "running" THEN "open" ELSE "error"
  /\ ctx = FALSE /\ output = "recv"

-----------------------------------------------------------------------------
(* The goroutine that reads the terminal *)

\* One key: what is left of keys after the chord is thrown away.
ScanKey(s, k) ==
  CASE s.detach -> s
    [] ~s.detach /\ ~s.armed /\ k = "^B" -> [s EXCEPT !.armed = TRUE]
    [] ~s.detach /\ ~s.armed /\ k # "^B" -> [s EXCEPT !.send = Append(@, k)]
    [] ~s.detach /\ s.armed ->
         [armed |-> FALSE, detach |-> k = "d",
          send |-> CASE k = "d"  -> s.send
                     [] k = "^B" -> Append(s.send, k)
                     [] OTHER    -> s.send \o <<"^B", k>>]

\* detachScanner.scan: how far the keys bring the scanner.
Scan(isArmed, keys) ==
  LET after[n \in 0..Len(keys)] ==
        IF n = 0 THEN [armed |-> isArmed, send |-> <<>>, detach |-> FALSE]
        ELSE ScanKey(after[n - 1], keys[n])
  IN after

\* The context is looked at only before a read.
Loop ==
  /\ input = "loop"
  /\ input' = IF ctx THEN "done" ELSE "read"
  /\ UNCHANGED <<keyVars, inflight, upstream, received, session, stream, ctx, output>>

\* Stdin.Read returns when there is a key, with one or more of those typed.
Read ==
  /\ input = "read"
  /\ \E n \in (taken + 1)..Len(typed) :
       LET scanned == Scan(armed, SubSeq(typed, taken + 1, n))[n - taken] IN
       /\ taken' = n
       /\ armed' = scanned.armed /\ pending' = scanned.send
       /\ input' = CASE scanned.send # <<>> /\ scanned.detach -> "sendAndDetach"
                     [] scanned.send # <<>> /\ ~scanned.detach -> "send"
                     [] OTHER -> IF scanned.detach THEN "detach" ELSE "loop"
  /\ UNCHANGED <<typed, inflight, upstream, received, session, stream, ctx, output>>

\* A stream that is broken or cancelled takes nothing: the goroutine ends.
Send ==
  /\ input \in {"send", "sendAndDetach"}
  /\ IF ctx \/ upstream = "broken"
     THEN input' = "done" /\ UNCHANGED inflight
     ELSE /\ inflight' = inflight \o pending
          /\ input' = IF input = "send" THEN "loop" ELSE "detach"
  /\ pending' = <<>>
  /\ UNCHANGED <<typed, taken, armed, upstream, received, session, stream, ctx, output>>

\* Mutation: the goroutine ends and cancels nothing.
DetachQuietly ==
  /\ input = "detach"
  /\ input' = "done"
  /\ UNCHANGED <<keyVars, inflight, upstream, received, session, stream, ctx, output>>

Detach ==
  /\ input = "detach"
  /\ ctx' = TRUE /\ input' = "done"
  /\ UNCHANGED <<keyVars, inflight, upstream, received, session, stream, output>>

-----------------------------------------------------------------------------
(* The receiving loop *)

\* Recv fails: the end of the stream and a context that is cancelled are no error.
RecvEnds ==
  /\ output = "recv" /\ (stream # "open" \/ ctx)
  /\ output' = IF stream = "error" /\ ~ctx THEN "failing" ELSE "leaving"
  /\ ctx' = TRUE
  /\ UNCHANGED <<keyVars, input, inflight, upstream, received, session, stream>>

\* inputWg.Wait, in the error path too.
InputJoined ==
  /\ output \in {"failing", "leaving"} /\ input = "done"
  /\ output' = IF output = "failing" THEN "left" ELSE "detach"
  /\ UNCHANGED <<keyVars, input, inflight, upstream, received, session, stream, ctx>>

\* The Detach call, which does nothing and has a timeout; the terminal is restored.
Leave ==
  /\ output = "detach"
  /\ output' = "left"
  /\ UNCHANGED <<keyVars, input, inflight, upstream, received, session, stream, ctx>>

-----------------------------------------------------------------------------
(* The daemon, the link and the user *)

\* Input hands a message to the session, or ends with an error if it is no more.
HandleInput ==
  /\ inflight # <<>> /\ upstream = "open"
  /\ IF session = "running"
     THEN /\ received' = Append(received, Head(inflight))
          /\ inflight' = Tail(inflight) /\ UNCHANGED upstream
     ELSE upstream' = "broken" /\ UNCHANGED <<received, inflight>>
  /\ UNCHANGED <<keyVars, input, session, stream, ctx, output>>

\* Cancelling a stream drops what is still on its way.
Cancelled ==
  /\ ctx /\ upstream = "open"
  /\ upstream' = "broken" /\ inflight' = <<>>
  /\ UNCHANGED <<keyVars, input, received, session, stream, ctx, output>>

\* The Attach call returns without an error when the session ends.
SessionEnds ==
  /\ session = "running"
  /\ session' = "ended" /\ stream' = IF stream = "open" THEN "eof" ELSE stream
  /\ UNCHANGED <<keyVars, input, inflight, upstream, received, ctx, output>>

LinkLost ==
  /\ stream = "open"
  /\ stream' = "error" /\ upstream' = "broken" /\ inflight' = <<>>
  /\ UNCHANGED <<keyVars, input, received, session, ctx, output>>

Type(k) ==
  /\ Len(typed) < MaxTyped /\ output # "left"
  /\ typed' = Append(typed, k)
  /\ UNCHANGED <<taken, armed, pending, input, inflight, upstream, received, session,
                 stream, ctx, output>>

\* SIGTERM or SIGINT from elsewhere: raw mode makes no signal of a key.
Signal ==
  /\ ~ctx /\ output = "recv"
  /\ ctx' = TRUE
  /\ UNCHANGED <<keyVars, input, inflight, upstream, received, session, stream, output>>

-----------------------------------------------------------------------------
InputStep == Loop \/ Read \/ Send \/ Detach
OutputStep == RecvEnds \/ InputJoined \/ Leave

Next ==
  \/ InputStep \/ OutputStep
  \/ HandleInput \/ Cancelled \/ SessionEnds \/ LinkLost
  \/ \E k \in Keys : Type(k)
  \/ Signal

\* The goroutines of the command get on. Send may wait for room on the stream,
\* which there is as long as the session reads what it is given.
Fairness == WF_vars(InputStep) /\ WF_vars(OutputStep)

Spec == Init /\ [][Next]_vars /\ Fairness

-----------------------------------------------------------------------------
(* The chord, read off all that was typed *)

\* Prefixes pair up from the left of their run.
RunBefore(keys, i) == CHOOSE n \in 0..(i - 1) :
  /\ \A j \in (i - n)..(i - 1) : keys[j] = "^B"
  /\ n = i - 1 \/ keys[i - n - 1] # "^B"
OpensChord(keys, i) == keys[i] = "^B" /\ RunBefore(keys, i) % 2 = 0
Completes(keys, i) == i > 1 /\ keys[i] = "d" /\ OpensChord(keys, i - 1)

\* What the session is to be given for the key at i, which is no part of a chord.
Given(keys, i) ==
  CASE OpensChord(keys, i) -> <<>>
    [] keys[i] = "^B" /\ ~OpensChord(keys, i) -> <<"^B">>
    [] OTHER -> IF i > 1 /\ OpensChord(keys, i - 1) THEN <<"^B", keys[i]>> ELSE <<keys[i]>>

\* What it is to be given for the first n keys: nothing after a chord.
Forwarded(keys) ==
  LET upTo[n \in 0..Len(keys)] ==
        IF n = 0 THEN <<>>
        ELSE IF \E i \in 1..n : Completes(keys, i) THEN upTo[n - 1]
        ELSE upTo[n - 1] \o Given(keys, n)
  IN upTo

TypeOK ==
  /\ typed \in Seq(Keys) /\ taken \in 0..Len(typed) /\ armed \in BOOLEAN
  /\ pending \in Seq(Keys) /\ inflight \in Seq(Keys) /\ received \in Seq(Keys)
  /\ input \in {"loop", "read", "send", "sendAndDetach", "detach", "done"}
  /\ upstream \in {"open", "broken"} /\ session \in {"running", "ended"}
  /\ stream \in {"open", "eof", "error"} /\ ctx \in BOOLEAN
  /\ output \in {"recv", "failing", "leaving", "detach", "left"}

\* The session is given what was typed, in order and once, with the doubled prefix
\* as one and nothing of the chord or after it, wherever the reads cut the keys
\* (helpers.go:382-417).
KeysArriveInOrder ==
  LET given == Forwarded(typed)[Len(typed)]
  IN  \E n \in 0..Len(given) : received = SubSeq(given, 1, n)

\* Whoever types the chord gets his terminal back: although the goroutine that
\* reads it may already have ended, or the session, or the link
\* (helpers.go:292-347).
ChordReturns == (\E i \in DOMAIN typed : Completes(typed, i)) ~> (output = "left")

\* The chord, as README and the prompt promise it, in both of its halves.
ChordIsHonoured == []KeysArriveInOrder /\ ChordReturns
=============================================================================
