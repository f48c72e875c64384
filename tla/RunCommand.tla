----------------------------- MODULE RunCommand -----------------------------
(* The commands that name something of the daemon's by a prefix and act on   *)
(* it: hqssh run, cancel and kill (internal/cli/cmd/run.go, cancel.go and    *)
(* kill.go) and the resolving that attach shares with them (helpers.go).     *)
(*                                                                           *)
(* The link to the daemon may break, and may stall until the command gives   *)
(* up, which it cannot do while the SSH handshake waits. A call that fails   *)
(* for the command may still have reached the daemon.                        *)
EXTENDS Naturals, Sequences, SequencesExt

CONSTANTS
  Known,     \* what there is, newest first: [id, name] with sequences of characters
  Limit,     \* ListRunsRequest.Limit of resolveRunID
  Arguments  \* what may be typed

Commands == {"run", "async", "cancel", "kill", "attach"}
Statuses == {"pending", "running", "completed", "failed", "cancelled"}
Terminal == {"completed", "failed", "cancelled"}
none == "none"

VARIABLES
  command, argument,  \* the command line
  phase,              \* "connecting", "resolving", "prompt", "acting", "waiting",
                      \* "getting", "cancelling" or "exited"
  listing,            \* what the List call answered: indices of Known
  target,             \* what the command acts on: one of them, or 0
  result,             \* what it says at the end
  ctxDone,            \* Ctrl-C, or the 30 seconds of cancel and kill
  link,               \* "up", "stalled" or "down"
  over,               \* sessions and runs that have ended: indices of Known
  run,                \* the record of the run that was started
  cancelled           \* and a CancelRun call for it has arrived

commandVars == <<command, argument, phase, listing, target, result, ctxDone>>
daemonVars == <<over, run, cancelled>>
vars == <<commandVars, link, daemonVars>>

Things == 1..Len(Known)

Init ==
  /\ command \in Commands /\ argument \in Arguments
  /\ phase = "connecting" /\ listing = {} /\ target = 0 /\ result = none
  /\ ctxDone = FALSE /\ link = "up"
  /\ over \in SUBSET Things /\ run = none /\ cancelled = FALSE

-----------------------------------------------------------------------------
(* Calls *)

Exit(what) == phase' = "exited" /\ result' = what

\* Mutation: the calls are made without the command's context.
CallFailsForLink == link = "down"

\* A call fails when there is no daemon, or when its context is done.
CallFails == link = "down" \/ ctxDone
CallAnswers == link = "up" /\ ~ctxDone

Fail(p) ==
  /\ phase = p
  /\ IF p = "connecting" THEN link = "down" ELSE CallFails
  /\ Exit("error")
  /\ UNCHANGED <<command, argument, listing, target, ctxDone, link, daemonVars>>

\* A stall that began before the TCP connection was there runs into the dial's timeout.
DialTimesOut ==
  /\ phase = "connecting" /\ link = "stalled"
  /\ Exit("error")
  /\ UNCHANGED <<command, argument, listing, target, ctxDone, link, daemonVars>>

\* ssh.Dial does not know the context: the first call finds it done.
Connect ==
  /\ phase = "connecting" /\ link = "up"
  /\ phase' = "resolving"
  /\ UNCHANGED <<command, argument, listing, target, result, ctxDone, link, daemonVars>>

-----------------------------------------------------------------------------
(* resolveTaskID, resolveRunID, resolveSessionWithInfo, resolveSessionByPrefix *)

Listed ==
  CASE command \in {"run", "async"} -> Things
    [] command = "cancel" -> {i \in Things : i <= Limit}
    [] command \in {"kill", "attach"} -> Things \ over

\* attach takes names as well.
Matches(i) ==
  \/ IsPrefix(argument, Known[i].id)
  \/ command = "attach" /\ Known[i].name # <<>> /\ IsPrefix(argument, Known[i].name)

\* One match, and no more, is acted upon.
Resolve ==
  /\ phase = "resolving" /\ CallAnswers
  /\ listing' = Listed
  /\ LET matches == {i \in Listed : Matches(i)}
     IN \/ /\ ~\E i \in matches : matches = {i}
           /\ Exit("error") /\ UNCHANGED target
        \/ /\ \E i \in matches : matches = {i} /\ target' = i
           /\ IF command = "attach" THEN Exit("attached")
              ELSE /\ phase' = IF command = "kill" THEN "prompt" ELSE "acting"
                   /\ UNCHANGED result
  /\ UNCHANGED <<command, argument, ctxDone, link, daemonVars>>

-----------------------------------------------------------------------------
(* runKill and runCancel *)

\* --force asks nothing; the prompt waits for the user, whatever the context.
Answer ==
  /\ phase = "prompt"
  /\ \/ phase' = "acting" /\ UNCHANGED result
     \/ Exit("left alone")
  /\ UNCHANGED <<command, argument, listing, target, ctxDone, link, daemonVars>>

\* CancelRun refuses what has ended, and so does Kill when the session has left the map; a
\* cancelled run that cannot be saved is an error as well.
Act ==
  /\ command \in {"kill", "cancel"} /\ phase = "acting" /\ CallAnswers
  /\ \/ (target \notin over \/ command = "kill") /\ Exit("ended")
     \/ (target \in over \/ command = "cancel") /\ Exit("error")
  /\ over' = over \cup {target}
  /\ UNCHANGED <<command, argument, listing, target, ctxDone, link, run, cancelled>>

\* The answer is lost.
ActUnheard ==
  /\ command \in {"kill", "cancel"} /\ phase = "acting" /\ CallFails
  /\ over' = over \cup {target} /\ Exit("error")
  /\ UNCHANGED <<command, argument, listing, target, ctxDone, link, run, cancelled>>

-----------------------------------------------------------------------------
(* runRunTask *)

StartRun ==
  /\ command \in {"run", "async"} /\ phase = "acting" /\ CallAnswers
  /\ \/ /\ run' = "pending"
        /\ IF command = "async" THEN Exit("started")
                                ELSE phase' = "waiting" /\ UNCHANGED result
     \/ run' \in {run, "pending"} /\ Exit("error")  \* refused, or not saved
  /\ UNCHANGED <<command, argument, listing, target, ctxDone, link, over, cancelled>>

StartUnheard ==
  /\ command \in {"run", "async"} /\ phase = "acting" /\ CallFails
  /\ run' = "pending" /\ Exit("error")
  /\ UNCHANGED <<command, argument, listing, target, ctxDone, link, over, cancelled>>

\* A second has passed.
Tick ==
  /\ phase = "waiting" /\ phase' = "getting"
  /\ UNCHANGED <<command, argument, listing, target, result, ctxDone, link, daemonVars>>

Finished(status) == status \in Terminal

GetRun ==
  /\ phase = "getting" /\ CallAnswers
  /\ IF Finished(run) THEN Exit(run) ELSE phase' = "waiting" /\ UNCHANGED result
  /\ UNCHANGED <<command, argument, listing, target, ctxDone, link, daemonVars>>

Interrupted ==
  /\ phase = "waiting" /\ ctxDone
  /\ phase' = "cancelling"
  /\ UNCHANGED <<command, argument, listing, target, result, ctxDone, link, daemonVars>>

\* CancelRun has a context of its own, of five seconds, and its error is ignored.
CancelRun ==
  /\ phase = "cancelling"
  /\ Exit("interrupted")
  /\ cancelled' = (cancelled \/ (link = "up" /\ run \notin Terminal))
  /\ UNCHANGED <<command, argument, listing, target, ctxDone, link, over, run>>

-----------------------------------------------------------------------------
(* What goes on elsewhere *)

\* Ctrl-C for run and attach, the deadline of the others.
ContextEnds ==
  /\ phase # "exited" /\ ~ctxDone
  /\ ctxDone' = TRUE
  /\ UNCHANGED <<command, argument, phase, listing, target, result, link, daemonVars>>

LinkChanges ==
  /\ phase # "exited" /\ link = "up"
  /\ link' \in {"stalled", "down"}
  /\ UNCHANGED <<commandVars, daemonVars>>

ThingEnds ==
  /\ \E i \in Things \ over : over' = over \cup {i}
  /\ UNCHANGED <<commandVars, link, run, cancelled>>

RunStarts ==
  /\ run = "pending" /\ run' = "running"
  /\ UNCHANGED <<commandVars, link, over, cancelled>>

RunEnds ==
  /\ run \in {"pending", "running"}
  /\ run' \in IF cancelled THEN {"cancelled"} ELSE {"completed", "failed", "cancelled"}
  /\ UNCHANGED <<commandVars, link, over, cancelled>>

-----------------------------------------------------------------------------
Next ==
  \/ Connect \/ DialTimesOut \/ Resolve \/ Answer \/ Act \/ ActUnheard \/ StartRun \/ StartUnheard
  \/ Tick \/ GetRun \/ Interrupted \/ CancelRun
  \/ ContextEnds \/ LinkChanges \/ ThingEnds \/ RunStarts \/ RunEnds
  \/ \E p \in {"connecting", "resolving", "acting", "getting"} : Fail(p)

\* The command goes on; the 30 seconds of cancel and kill pass; a run of which the context
\* is cancelled ends (TaskExecutor).
Fairness ==
  /\ WF_vars(Connect \/ Resolve \/ Act \/ ActUnheard \/ StartRun \/ StartUnheard \/ Tick
             \/ GetRun \/ Interrupted \/ CancelRun
             \/ \E p \in {"connecting", "resolving", "acting", "getting"} : Fail(p))
  /\ WF_vars(command \in {"cancel", "kill"} /\ ContextEnds)
  /\ WF_vars(cancelled /\ RunEnds)

Spec == Init /\ [][Next]_vars /\ Fairness

-----------------------------------------------------------------------------
TypeOK ==
  /\ command \in Commands /\ argument \in Arguments
  /\ phase \in {"connecting", "resolving", "prompt", "acting", "waiting", "getting",
                "cancelling", "exited"}
  /\ listing \subseteq Things /\ target \in Things \cup {0}
  /\ ctxDone \in BOOLEAN /\ link \in {"up", "stalled", "down"}
  /\ over \subseteq Things /\ run \in Statuses \cup {none} /\ cancelled \in BOOLEAN

\* What a command did it did to the one thing its argument names, and what it reports of
\* it is so (run.go:58-204, cancel.go:43-98, kill.go:52-132).
TellsTheTruth ==
  /\ target # 0 => {i \in listing : Matches(i)} = {target}
  /\ result = "ended" => target \in over
  /\ result \in Statuses => result \in Terminal /\ run = result
  /\ result = "started" => run # none

\* Dialing, which no context ends.
Dialing == phase = "connecting" /\ link = "stalled"

\* No command that has connected is kept by a stalled link: an interrupt ends run and
\* attach, and a deadline the others, unless they wait for their user. run ends with its
\* run, and what it was told to cancel is cancelled (run.go:58-204, attach.go:49-62,
\* cancel.go:43-98, kill.go:52-132, client.go:85-217).
CommandReturns ==
  /\ (command \in {"run", "async", "attach"} /\ ctxDone) ~> (phase = "exited" \/ Dialing)
  /\ (command \in {"cancel", "kill"}) ~> (phase \in {"exited", "prompt"} \/ Dialing)
  /\ (phase = "waiting" /\ run \in Terminal) ~> (phase = "exited" \/ link = "stalled")
  /\ cancelled ~> (run \in Terminal)

CommandKeepsItsWord == []TellsTheTruth /\ CommandReturns
=============================================================================
