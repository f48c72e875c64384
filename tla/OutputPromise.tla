---------------------------- MODULE OutputPromise ----------------------------
(* What a client that attaches to a session may count on, whatever the      *)
(* reader, its channel and the other clients do (internal/session/session.go *)
(* :288-293, internal/server/server.go:603-616): the last output so far, in  *)
(* one piece, then later output in order, with a marker sent before it for   *)
(* whatever was left out.                                                    *)
EXTENDS Naturals, Sequences, FiniteSets

CONSTANTS
  Clients,
  Depth     \* chunks of output that are kept

VARIABLES
  written,  \* chunks the session has put out so far
  attached, \* clients whose attach has begun
  window,   \* the output that was there for each of them: its first and last chunk
  received  \* what each client has been sent: chunks and markers

vars == <<written, attached, window, received>>

Gap == 0

Interval(from, to) == [i \in 1 .. (to + 1 - from) |-> from + i - 1]

Init ==
  /\ written = 0 /\ attached = {}
  /\ window = [c \in Clients |-> <<1, 0>>]
  /\ received = [c \in Clients |-> <<>>]

Write == written' = written + 1 /\ UNCHANGED <<attached, window, received>>

\* The oldest chunk that is kept.
Oldest == IF written > Depth THEN written + 1 - Depth ELSE 1

Attach(c) ==
  /\ c \notin attached
  /\ attached' = attached \cup {c}
  /\ window' = [window EXCEPT ![c] = <<Oldest, written>>]
  /\ UNCHANGED <<written, received>>

Replay(c) ==
  /\ c \in attached /\ received[c] = <<>>
  /\ received' = [received EXCEPT ![c] = Interval(window[c][1], window[c][2])]
  /\ UNCHANGED <<written, attached, window>>

Has(c, n) == \E i \in 1 .. Len(received[c]) : received[c][i] = n

Replayed(c) == c \in attached /\ \A n \in window[c][1] .. window[c][2] : Has(c, n)

\* Places of chunks before which something was left out, and of markers.
Holes(c) ==
  {i \in 1 .. Len(received[c]) :
     /\ received[c][i] # Gap /\ received[c][i] # window[c][1]
     /\ \A j \in 1 .. (i - 1) : received[c][j] # received[c][i] - 1}
Markers(c) == {i \in 1 .. Len(received[c]) : received[c][i] = Gap}

Give(c, item) ==
  /\ received' = [received EXCEPT ![c] = Append(@, item)]
  /\ UNCHANGED <<written, attached, window>>

\* A later chunk: the next one, or a marker has been sent that no other hole needs.
Send(c) ==
  /\ Replayed(c)
  /\ \E n \in 1 .. written :
       /\ \A i \in 1 .. Len(received[c]) : received[c][i] < n
       /\ \/ n = window[c][1] \/ Has(c, n - 1)
          \/ Cardinality(Holes(c)) < Cardinality(Markers(c))
       /\ Give(c, n)

Mark(c) == Replayed(c) /\ Give(c, Gap)

Next == Write \/ \E c \in Clients : Attach(c) \/ Replay(c) \/ Send(c) \/ Mark(c)

Spec == Init /\ [][Next]_vars
=============================================================================
