----------------------------- MODULE ModeTracker -----------------------------
(* The terminal modes of a session (internal/session/modes.go): the tracker   *)
(* reads all output, and a client that attaches is sent its preamble and then *)
(* what is left of the output, cut at any byte.                               *)
(*                                                                            *)
(* Output is a sequence of tokens: "ESC", "[", "?", a mode number (with the   *)
(* separator before it), "h" and "l". Within a sequence "[" is a final byte as *)
(* well, and stands for all that set nothing.                                 *)
EXTENDS Naturals, Sequences, SequencesExt

CONSTANTS
  AltModes, MouseModes, EncodingModes,  \* groups in which the last enabled wins
  BoolModes,                            \* modes of their own, in emission order
  DefaultOn,                            \* those of them that start enabled
  MaxParams,                            \* maxCSIParams
  MaxKept                               \* bound: tokens left in the scrollback

Tokens == {"ESC", "[", "?", "h", "l"}
          \cup AltModes \cup MouseModes \cup EncodingModes \cup ToSet(BoolModes)
Groups == {"alt", "mouse", "encoding"}
Off == "0"

VARIABLES
  tracker,  \* the session's modeTracker
  kept      \* the tail of the output that the scrollback still holds

vars == <<tracker, kept>>

\* A terminal at power-on, and a new tracker. bools holds what was ever set.
Fresh ==
  [state |-> "ground", params |-> <<>>, overflow |-> FALSE,
   alt |-> Off, mouse |-> Off, encoding |-> Off, bools |-> [m \in {} |-> TRUE]]

-----------------------------------------------------------------------------
(* modeTracker.process, one token at a time: a chunk may end anywhere *)

Pick(on, mode) == IF on THEN mode ELSE Off

\* The first case that fits.
ApplyMode(t, mode, on) ==
  IF mode \in AltModes THEN [t EXCEPT !.alt = Pick(on, mode)]
  ELSE IF mode \in MouseModes THEN [t EXCEPT !.mouse = Pick(on, mode)]
  ELSE IF mode \in EncodingModes THEN [t EXCEPT !.encoding = Pick(on, mode)]
  ELSE IF mode \in ToSet(BoolModes)
       THEN [t EXCEPT !.bools = [m \in DOMAIN @ \cup {mode} |-> IF m = mode THEN on ELSE @[m]]]
       ELSE t

\* The tracker after each number of parameters.
Applied(t, params, on) ==
  LET after[n \in 0..Len(params)] ==
        IF n = 0 THEN t ELSE ApplyMode(after[n - 1], params[n], on)
  IN  after

\* Only a private sequence counts; what is no number is skipped.
Apply(t, params, on) ==
  IF params # <<>> /\ Head(params) = "?"
  THEN Applied(t, Tail(params), on)[Len(params) - 1] ELSE t

InEscape(t, b) ==
  CASE b = "["   -> [t EXCEPT !.state = "csi"]
    [] b = "ESC" -> t
    [] OTHER     -> [t EXCEPT !.state = "ground"]

\* The parameters are emptied here, and in the code before the next sequence.
InCSI(t, b) ==
  CASE b = "ESC" -> [t EXCEPT !.state = "escape", !.params = <<>>, !.overflow = FALSE]
    [] b \in {"h", "l", "["} ->
         [(IF ~t.overflow /\ b \in {"h", "l"} THEN Apply(t, t.params, b = "h") ELSE t)
            EXCEPT !.state = "ground", !.params = <<>>, !.overflow = FALSE]
    [] OTHER -> IF Len(t.params) < MaxParams THEN [t EXCEPT !.params = Append(@, b)]
                ELSE [t EXCEPT !.overflow = TRUE]

Process(t, b) ==
  CASE t.state = "ground" -> IF b = "ESC" THEN [t EXCEPT !.state = "escape"] ELSE t
    [] t.state = "escape" -> InEscape(t, b)
    [] t.state = "csi"    -> InCSI(t, b)

\* The tracker after each number of tokens.
Processed(t, output) ==
  LET after[n \in 0..Len(output)] ==
        IF n = 0 THEN t ELSE Process(after[n - 1], output[n])
  IN  after

ProcessAll(t, output) == Processed(t, output)[Len(output)]

-----------------------------------------------------------------------------
(* preamble *)

Sequence(mode, final) == <<"ESC", "[", "?", mode, final>>

\* Mutation: only modes that are enabled are sent.
EnabledSequence(t, m) ==
  IF m \in DOMAIN t.bools /\ t.bools[m] THEN Sequence(m, "h") ELSE <<>>

\* A mode that differs from its default is sent.
BoolSequence(t, m) ==
  IF m \in DOMAIN t.bools /\ t.bools[m] # (m \in DefaultOn)
  THEN Sequence(m, IF t.bools[m] THEN "h" ELSE "l") ELSE <<>>

\* What is sent for each number of modes of the list.
BoolPreambles(t) ==
  LET sent[n \in 0..Len(BoolModes)] ==
        IF n = 0 THEN <<>> ELSE sent[n - 1] \o BoolSequence(t, BoolModes[n])
  IN  sent

BoolPreamble(t) == BoolPreambles(t)[Len(BoolModes)]

GroupPreamble(mode) == IF mode = Off THEN <<>> ELSE Sequence(mode, "h")

Preamble(t) ==
  BoolPreamble(t) \o GroupPreamble(t.alt) \o GroupPreamble(t.mouse)
                  \o GroupPreamble(t.encoding)

-----------------------------------------------------------------------------
Init == tracker = Fresh /\ kept = <<>>

\* The session writes a token; the scrollback is trimmed from the front.
Output(b) ==
  /\ tracker' = Process(tracker, b)
  /\ kept' = IF Len(kept) < MaxKept THEN Append(kept, b) ELSE Append(Tail(kept), b)

Trim == kept # <<>> /\ kept' = Tail(kept) /\ UNCHANGED tracker

Next == Trim \/ \E b \in Tokens : Output(b)

Spec == Init /\ [][Next]_vars

-----------------------------------------------------------------------------
Booleans(t) == [m \in ToSet(BoolModes) |->
                  IF m \in DOMAIN t.bools THEN t.bools[m] ELSE m \in DefaultOn]
Modes(t) == <<t.alt, t.mouse, t.encoding, Booleans(t)>>

TypeOK ==
  /\ tracker.state \in {"ground", "escape", "csi"}
  /\ Len(tracker.params) <= MaxParams
  /\ tracker.alt \in AltModes \cup {Off} /\ tracker.mouse \in MouseModes \cup {Off}
  /\ tracker.encoding \in EncodingModes \cup {Off}
  /\ kept \in Seq(Tokens)

\* A fresh terminal that is fed the preamble and then the output that is left,
\* wherever that was cut, ends in the modes of the session: the replay undoes
\* nothing of the preamble and a truncated sequence sets nothing
\* (modes.go:25-36, 152-179).
AttachRestoresModes ==
  Modes(ProcessAll(ProcessAll(Fresh, Preamble(tracker)), kept)) = Modes(tracker)
=============================================================================
