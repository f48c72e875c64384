---------------------------- MODULE ToolDetector ----------------------------
(* The cache of installed tools (internal/tools/detector.go). DetectAll runs  *)
(* at most one detection at a time and serves an expired cache while it is    *)
(* renewed. Lookups run login shells, each with a timeout, so they end; what  *)
(* they find is left out, and so are IsInstalled and ClearCache, which        *)
(* nothing calls.                                                             *)
CONSTANTS
  Callers,    \* DetectAll calls: GetInfo, GetTools, Warm, a scan per project
  Refreshers  \* bound: goroutines that may renew the cache at the same time

VARIABLES
  cachedAt,  \* "never", "fresh", or "old" once the TTL has passed
  refresh,   \* Detector.refresh is set
  done,      \* the channel of the first detection is closed
  pc         \* the step of each call and of each renewing goroutine

vars == <<cachedAt, refresh, done, pc>>

Goroutines == Callers \cup Refreshers

Init ==
  /\ cachedAt = "never" /\ refresh = FALSE /\ done = FALSE
  /\ pc = [g \in Goroutines |-> "idle"]

Goto(g, step) == pc' = [pc EXCEPT ![g] = step]

-----------------------------------------------------------------------------
(* DetectAll, under the mutex *)

\* A cache, fresh or old, is the answer.
ServeCached(c) ==
  /\ c \in Callers /\ pc[c] = "idle"
  /\ cachedAt = "fresh" \/ (cachedAt = "old" /\ refresh)
  /\ UNCHANGED vars

\* Mutation: the renewal under way is not looked for.
ServeAndRenewAgain(c) ==
  /\ c \in Callers /\ pc[c] = "idle"
  /\ cachedAt = "old"
  /\ refresh' = TRUE
  /\ \E g \in Refreshers : pc[g] = "idle" /\ Goto(g, "probe")
  /\ UNCHANGED <<cachedAt, done>>

\* Who finds it old, and nobody renewing it, starts a goroutine.
ServeAndRenew(c) ==
  /\ c \in Callers /\ pc[c] = "idle"
  /\ cachedAt = "old" /\ ~refresh
  /\ refresh' = TRUE
  /\ \E g \in Refreshers : pc[g] = "idle" /\ Goto(g, "probe")
  /\ UNCHANGED <<cachedAt, done>>

\* Nothing was detected yet: the first caller looks for itself, the others wait.
ProbeFirst(c) ==
  /\ c \in Callers /\ pc[c] = "idle"
  /\ cachedAt = "never" /\ ~refresh
  /\ refresh' = TRUE /\ Goto(c, "probe")
  /\ UNCHANGED <<cachedAt, done>>

ShareFirst(c) ==
  /\ c \in Callers /\ pc[c] = "idle"
  /\ cachedAt = "never" /\ refresh
  /\ Goto(c, "wait")
  /\ UNCHANGED <<cachedAt, refresh, done>>

Wake(c) ==
  /\ pc[c] = "wait" /\ done
  /\ Goto(c, "idle")
  /\ UNCHANGED <<cachedAt, refresh, done>>

-----------------------------------------------------------------------------
(* refreshAll *)

\* The lookups are over; their result is installed under the mutex.
Install(g) ==
  /\ pc[g] = "probe"
  /\ cachedAt' = "fresh" /\ refresh' = FALSE
  /\ Goto(g, "close")
  /\ UNCHANGED done

\* Then whoever waited may go on.
CloseDone(g) ==
  /\ pc[g] = "close"
  /\ done' = (done \/ g \in Callers)
  /\ Goto(g, "idle")
  /\ UNCHANGED <<cachedAt, refresh>>

Expire ==
  /\ cachedAt = "fresh"
  /\ cachedAt' = "old"
  /\ UNCHANGED <<refresh, done, pc>>

-----------------------------------------------------------------------------
Next ==
  \/ \E c \in Callers : \/ ServeCached(c) \/ ServeAndRenew(c)
                        \/ ProbeFirst(c) \/ ShareFirst(c) \/ Wake(c)
  \/ \E g \in Goroutines : Install(g) \/ CloseDone(g)
  \/ Expire

Spec == Init /\ [][Next]_vars

-----------------------------------------------------------------------------
TypeOK ==
  /\ cachedAt \in {"never", "fresh", "old"}
  /\ refresh \in BOOLEAN /\ done \in BOOLEAN
  /\ pc \in [Goroutines -> {"idle", "probe", "wait", "close"}]

\* One detection runs at a time, whoever started it: a burst of calls does not
\* start a login shell per call (detector.go:62-110), and who renews is known by
\* the mark alone.
OneDetection ==
  LET probing == {g \in Goroutines : pc[g] = "probe"}
  IN  (\A g, h \in probing : g = h) /\ (refresh <=> probing # {})
=============================================================================
