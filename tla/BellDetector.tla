---------------------------- MODULE BellDetector ----------------------------
(* The attention signals in terminal output (internal/session/bell.go): bare *)
(* bells and OSC 9 notifications, found by an automaton that keeps its state *)
(* from chunk to chunk. Here it is fed one token after the other, so that a  *)
(* chunk may end anywhere, and compared with a reading of the whole output.  *)
EXTENDS Naturals, Sequences, SequencesExt, FiniteSetsExt

CONSTANTS
  MaxOSC,    \* maxOSCBuffer, in tokens
  MaxOutput  \* bound: tokens of output

\* "9;" begins a notification; " " is what TrimSpace takes away.
Tokens == {"ESC", "]", "\\", "BEL", "9;", " ", "x"}

VARIABLES
  output,       \* everything the session has written
  afterEscape,
  inOSC,
  oscBuf,
  bells,        \* places of the bells found
  messages      \* notifications found: [at, text]

vars == <<output, afterEscape, inOSC, oscBuf, bells, messages>>

Init ==
  /\ output = <<>> /\ afterEscape = FALSE /\ inOSC = FALSE /\ oscBuf = <<>>
  /\ bells = {} /\ messages = {}

Blank(text) == ToSet(text) \subseteq {" "}

\* Trimmed at both ends.
TrimSpace(text) ==
  LET marks == {i \in DOMAIN text : text[i] # " "}
  IN  SubSeq(text, Min(marks), Max(marks))

\* The text of a payload that is a notification; at most one.
Notification(payload) ==
  IF payload # <<>> /\ Head(payload) = "9;" /\ ~Blank(Tail(payload))
  THEN {TrimSpace(Tail(payload))} ELSE {}

\* endOSC, at the token with this number.
EndOSC(n) ==
  /\ inOSC' = FALSE /\ oscBuf' = <<>>
  /\ messages' = messages \cup {[at |-> n, text |-> m] : m \in Notification(oscBuf)}

-----------------------------------------------------------------------------
(* process, for one token *)

Escaped(b, n) ==
  /\ afterEscape' = FALSE
  /\ CASE b = "]" ->
            inOSC' = TRUE /\ oscBuf' = <<>> /\ UNCHANGED messages
       [] b = "\\" /\ inOSC -> EndOSC(n)
       [] OTHER -> UNCHANGED <<inOSC, oscBuf, messages>>
  /\ UNCHANGED bells

Bell(n) ==
  /\ UNCHANGED afterEscape
  /\ IF inOSC
     THEN EndOSC(n) /\ UNCHANGED bells
     ELSE bells' = bells \cup {n} /\ UNCHANGED <<inOSC, oscBuf, messages>>

\* Mutation: the buffer may grow by one token more.
PlainOneMore(b) ==
  /\ oscBuf' = IF inOSC /\ Len(oscBuf) <= MaxOSC THEN Append(oscBuf, b) ELSE oscBuf
  /\ UNCHANGED <<afterEscape, inOSC, bells, messages>>

Plain(b) ==
  /\ oscBuf' = IF inOSC /\ Len(oscBuf) < MaxOSC THEN Append(oscBuf, b) ELSE oscBuf
  /\ UNCHANGED <<afterEscape, inOSC, bells, messages>>

Process(b, n) ==
  CASE afterEscape -> Escaped(b, n)
    [] ~afterEscape /\ b = "ESC" ->
         afterEscape' = TRUE /\ UNCHANGED <<inOSC, oscBuf, bells, messages>>
    [] ~afterEscape /\ b = "BEL" -> Bell(n)
    [] OTHER -> Plain(b)

Output(b) ==
  /\ Len(output) < MaxOutput
  /\ output' = Append(output, b)
  /\ Process(b, Len(output) + 1)

Next == \E b \in Tokens : Output(b)

Spec == Init /\ [][Next]_vars

-----------------------------------------------------------------------------
(* The reading of the whole output *)

\* Escapes stand in pairs: a token is escaped by an odd run of them before it.
RunBefore(text, i) == CHOOSE n \in 0..(i - 1) :
  /\ \A j \in (i - n)..(i - 1) : text[j] = "ESC"
  /\ n = i - 1 \/ text[i - n - 1] # "ESC"
IsEscaped(text, i) == RunBefore(text, i) % 2 = 1

Opens(text, i) == text[i] = "]" /\ IsEscaped(text, i)
Ends(text, i) ==
  (text[i] = "BEL" /\ ~IsEscaped(text, i)) \/ (text[i] = "\\" /\ IsEscaped(text, i))

\* The place where the OSC sequence began that token i ends or is part of.
Opening(text, i) ==
  {j \in 1..(i - 1) : /\ Opens(text, j)
                      /\ \A k \in (j + 1)..(i - 1) : ~Opens(text, k) /\ ~Ends(text, k)}

\* What is of the payload that begins after token j, for every token up to which it is read.
Contents(text, j) ==
  LET read[i \in 0..Len(text)] ==
        IF i <= j THEN <<>>
        ELSE IF IsEscaped(text, i) \/ text[i] = "ESC" THEN read[i - 1]
        ELSE Append(read[i - 1], text[i])
  IN  read

\* The payload that token i ends, of which only so much is kept.
Payload(text, j, i) ==
  LET read == Contents(text, j)[i - 1]
  IN  SubSeq(read, 1, IF Len(read) < MaxOSC THEN Len(read) ELSE MaxOSC)

Bells(text) ==
  {i \in DOMAIN text : text[i] = "BEL" /\ ~IsEscaped(text, i) /\ Opening(text, i) = {}}

\* What is notified at token i.
NotifiedAt(text, i) ==
  UNION {{[at |-> i, text |-> m] : m \in Notification(Payload(text, j, i))} :
           j \in {k \in Opening(text, i) : Ends(text, i)}}

Notifications(text) == UNION {NotifiedAt(text, i) : i \in DOMAIN text}

TypeOK ==
  /\ output \in Seq(Tokens) /\ afterEscape \in BOOLEAN /\ inOSC \in BOOLEAN
  /\ oscBuf \in Seq(Tokens) /\ Len(oscBuf) <= MaxOSC

\* The automaton finds the bells outside any sequence and the notifications that
\* end, and nothing else, whatever escapes, nested openings and cuts there are
\* (bell.go:22-34, 76-120).
SignalsAreFound == bells = Bells(output) /\ messages = Notifications(output)
=============================================================================
