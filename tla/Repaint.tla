------------------------------ MODULE Repaint -------------------------------
(* The size of a session's terminal and the redrawing of its screen:         *)
(* Resize and SignalRepaint of internal/session/pty.go, the attach of        *)
(* manager.go, and the repaint that the Attach handler of                    *)
(* internal/server/server.go asks for after a gap.                           *)
(*                                                                           *)
(* The process redraws what changed, and everything only on SIGWINCH. What   *)
(* a screen shows is whole, or stale: as attached, or with output missing.   *)
EXTENDS Naturals, Sequences

CONSTANTS
  Sizes,      \* terminal sizes, as the handlers let them through
  Resizers,   \* calls of Resize
  MaxOutput,  \* bound: what the process writes of its own accord
  ChannelCap  \* clientBufferSize

VARIABLES
  size,      \* Session.Cols and Rows
  winsize,   \* what the kernel has for the PTY
  caller,    \* of each Resize call: "out", "recorded" or "done"
  wanted,    \* of each Resize call: its size
  winch,     \* the process has a SIGWINCH to handle
  client,    \* the Attach handler: "out", "sizing", "registered" or "streaming"
  queue,     \* the client's channel: of "change", "frame" and "gap"
  gap,       \* gapPending: output was dropped, without a marker yet
  told,      \* the handler has just sent something and asks itself whether to repaint
  pending,   \* repaintPending
  recent,    \* lastRepaint is not repaintMinInterval ago
  screen,    \* "whole" or "stale"
  lossy,     \* some output was dropped
  written    \* output so far

sizeVars == <<size, winsize, caller, wanted>>
clientVars == <<client, queue, gap, told, pending, recent, screen>>
vars == <<sizeVars, winch, clientVars, lossy, written>>

Init ==
  /\ size \in Sizes /\ winsize = size  \* StartPTY: started with the session's size
  /\ caller = [r \in Resizers |-> "out"] /\ wanted \in [Resizers -> Sizes]
  /\ winch = FALSE
  /\ client = "out" /\ queue = <<>> /\ gap = FALSE /\ told = FALSE
  /\ pending = FALSE /\ recent = FALSE /\ screen = "stale"
  /\ lossy = FALSE /\ written = 0

-----------------------------------------------------------------------------
(* Resize *)

\* ptySizeMu is held from the recording of the size to the call of the kernel.
Locked == (\E r \in Resizers : caller[r] = "recorded") \/ client = "sized"

\* The kernel signals the process if its size has changed.
SetSize(s) == winsize' = s /\ winch' = (winch \/ s # winsize)

Record(r) ==
  /\ caller[r] = "out" /\ ~Locked
  /\ caller' = [caller EXCEPT ![r] = "recorded"] /\ size' = wanted[r]
  /\ UNCHANGED <<winsize, wanted, winch, clientVars, lossy, written>>

Setsize(r) ==
  /\ caller[r] = "recorded"
  /\ SetSize(wanted[r]) /\ caller' = [caller EXCEPT ![r] = "done"]
  /\ UNCHANGED <<size, wanted, clientVars, lossy, written>>

-----------------------------------------------------------------------------
(* Attach *)

\* The session takes the size of the client that attaches.
AttachResize(s) ==
  /\ client = "out" /\ ~Locked
  /\ client' = "sized" /\ size' = s
  /\ UNCHANGED <<winsize, caller, wanted, winch, queue, gap, told, pending, recent,
                 screen, lossy, written>>

AttachSetsize ==
  /\ client = "sized"
  /\ client' = "sizing" /\ SetSize(size)
  /\ UNCHANGED <<size, caller, wanted, queue, gap, told, pending, recent, screen,
                 lossy, written>>

AttachClient ==
  /\ client = "sizing"
  /\ client' = "registered"
  /\ UNCHANGED <<sizeVars, winch, queue, gap, told, pending, recent, screen, lossy,
                 written>>

\* Mutation: the attach leaves it to the kernel to signal the process.
AttachOnly ==
  /\ client = "registered"
  /\ client' = "streaming"
  /\ UNCHANGED <<sizeVars, winch, queue, gap, told, pending, recent, screen, lossy,
                 written>>

\* A size that was the same signals nobody: the attach does.
SignalRepaint ==
  /\ client = "registered"
  /\ client' = "streaming" /\ winch' = TRUE
  /\ UNCHANGED <<sizeVars, queue, gap, told, pending, recent, screen, lossy, written>>

-----------------------------------------------------------------------------
(* The output, as one client gets it: OutputStream has its steps *)

Watched == client \in {"registered", "streaming"}

\* Mutation: room for one is taken for room for the marker as well.
FitsIfRoom(items) == items = <<>> \/ Len(queue) < ChannelCap

Fits(items) == Len(queue) + Len(items) <= ChannelCap

\* broadcast: what a client has no room for in time it loses, and the marker goes before
\* the next that it gets, or in the place of what is lost.
Broadcast(item) ==
  LET marker == IF gap THEN <<"gap">> ELSE <<>>
  IN CASE ~Watched -> UNCHANGED <<queue, gap, lossy>>
       [] Watched /\ Fits(Append(marker, item)) ->
            queue' = queue \o Append(marker, item) /\ gap' = FALSE /\ UNCHANGED lossy
       [] OTHER ->
            /\ queue' = IF Fits(marker) THEN queue \o marker ELSE queue
            /\ gap' = TRUE /\ lossy' = TRUE

Output ==
  /\ written < MaxOutput
  /\ written' = written + 1 /\ Broadcast("change")
  /\ UNCHANGED <<sizeVars, winch, client, told, pending, recent, screen>>

Redraw ==
  /\ winch
  /\ winch' = FALSE /\ Broadcast("frame")
  /\ UNCHANGED <<sizeVars, client, told, pending, recent, screen, written>>

Shown(item, before) ==
  CASE item = "frame" -> "whole" [] item = "gap" -> "stale" [] OTHER -> before

\* deliver: with nothing queued behind it, it tells of a gap at the end as well.
Deliver ==
  /\ client = "streaming" /\ queue # <<>> /\ ~told
  /\ LET tail == Head(queue) # "gap" /\ Tail(queue) = <<>> /\ gap
     IN /\ queue' = Tail(queue)
        /\ gap' = (gap /\ ~tail)
        /\ pending' = (pending \/ tail \/ Head(queue) = "gap")
        /\ screen' = IF tail THEN "stale" ELSE Shown(Head(queue), screen)
  /\ told' = TRUE
  /\ UNCHANGED <<sizeVars, winch, client, recent, lossy, written>>

\* repaintIfDrained, after what was delivered and at no other time.
RepaintIfDrained ==
  /\ told /\ told' = FALSE
  /\ IF pending /\ queue = <<>> /\ ~recent
     THEN pending' = FALSE /\ recent' = TRUE /\ winch' = TRUE
     ELSE UNCHANGED <<pending, recent, winch>>
  /\ UNCHANGED <<sizeVars, client, queue, gap, screen, lossy, written>>

IntervalPasses ==
  /\ recent /\ recent' = FALSE
  /\ UNCHANGED <<sizeVars, winch, client, queue, gap, told, pending, screen, lossy,
                 written>>

-----------------------------------------------------------------------------
Resize(r) == Record(r) \/ Setsize(r)
Attach ==
  (\E s \in Sizes : AttachResize(s)) \/ AttachSetsize \/ AttachClient \/ SignalRepaint

Next ==
  \/ \E r \in Resizers : Resize(r)
  \/ Attach \/ Output \/ Redraw \/ Deliver \/ RepaintIfDrained \/ IntervalPasses

\* Whoever has the lock goes on; the process redraws; the handler runs; time passes.
Fairness ==
  /\ \A r \in Resizers : WF_vars(Setsize(r))
  /\ WF_vars(AttachSetsize \/ AttachClient \/ SignalRepaint)
  /\ WF_vars(Redraw) /\ WF_vars(Deliver) /\ WF_vars(RepaintIfDrained)
  /\ WF_vars(IntervalPasses)

Spec == Init /\ [][Next]_vars /\ Fairness

-----------------------------------------------------------------------------
TypeOK ==
  /\ size \in Sizes /\ winsize \in Sizes
  /\ caller \in [Resizers -> {"out", "recorded", "done"}]
  /\ wanted \in [Resizers -> Sizes] /\ winch \in BOOLEAN
  /\ client \in {"out", "sized", "sizing", "registered", "streaming"}
  /\ Len(queue) <= ChannelCap /\ gap \in BOOLEAN /\ told \in BOOLEAN
  /\ pending \in BOOLEAN /\ recent \in BOOLEAN /\ screen \in {"whole", "stale"}
  /\ lossy \in BOOLEAN /\ written \in 0..MaxOutput

\* Two clients that resize at once leave the size that the session reports and the one
\* that the process draws for the same (pty.go:242-263).
SizesAgree == Locked \/ size = winsize

\* A client sees a full screen after its attach, whatever its size, unless some of the
\* output was dropped (manager.go:380-387, pty.go:265-284).
AttachRepaints == (client = "streaming") ~> (screen = "whole" \/ lossy)

TerminalIsKept == []SizesAgree /\ AttachRepaints
=============================================================================
