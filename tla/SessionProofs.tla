---------------------------- MODULE SessionProofs ----------------------------
(* What the parts of Session keep at every moment, for any value of the       *)
(* constants: the types, the size that a terminal has, what a session runs,   *)
(* and what a command says. What they come to in the end is left to TLC.      *)
EXTENDS Session, SequenceTheorems, TLAPS

\* A step of Session is a step of each part, or leaves it alone.
LEMMA PartSteps ==
  ASSUME [SessionNext]_SessionVars
  PROVE  [Next]_vars /\ [Process!Next]_prcVars /\ [Command!Next]_cmdVars /\ part' = part
BY DEF SessionNext, SessionVars, Moves, Rest

-----------------------------------------------------------------------------
(* The terminal *)

Items == {"change", "frame", "gap"}

\* Whoever has recorded a size and not yet set it has ptySizeMu, and the size is his.
OneHasTheLock ==
  /\ \A r, q \in Resizers : caller[r] = "recorded" /\ caller[q] = "recorded" => r = q
  /\ \A r \in Resizers : caller[r] = "recorded" => client # "sized" /\ wanted[r] = size

TerminalInv == TypeOK /\ queue \in Seq(Items) /\ OneHasTheLock /\ SizesAgree

\* What is put into the channel fits there.
LEMMA BroadcastTyped ==
  ASSUME TypeOK, queue \in Seq(Items), NEW item \in Items, Broadcast(item)
  PROVE  /\ queue' \in Seq(Items) /\ Len(queue') <= ChannelCap
         /\ gap' \in BOOLEAN /\ lossy' \in BOOLEAN
<1> DEFINE marker == IF gap THEN <<"gap">> ELSE <<>>
<1>1. marker \in Seq(Items) /\ Append(marker, item) \in Seq(Items)
  <2>1. <<"gap">> \in Seq(Items) /\ <<>> \in Seq(Items)
    BY DEF Items
  <2>2. marker \in Seq(Items)
    BY <2>1, Zenon
  <2> HIDE DEF marker
  <2> QED
    BY <2>2
<1> HIDE DEF marker
<1>2. ChannelCap \in Nat
  BY SessionAssumption
<1>3. \A items \in Seq(Items) : Fits(items) =>
        queue \o items \in Seq(Items) /\ Len(queue \o items) <= ChannelCap
  BY <1>2 DEF Fits
<1>4. CASE ~Watched
  BY <1>4 DEF Broadcast, TypeOK
<1>5. CASE Watched /\ Fits(Append(marker, item))
  <2>1. queue' = queue \o Append(marker, item) /\ gap' = FALSE /\ lossy' = lossy
    BY <1>5 DEF Broadcast, marker
  <2> QED
    BY <1>1, <1>3, <1>5, <2>1, Zenon DEF TypeOK
<1>6. CASE Watched /\ ~Fits(Append(marker, item))
  <2>1. queue' = (IF Fits(marker) THEN queue \o marker ELSE queue) /\ gap' = TRUE /\ lossy' = TRUE
    BY <1>6 DEF Broadcast, marker
  <2> QED
    BY <1>1, <1>3, <2>1, Zenon DEF TypeOK
<1> QED
  BY <1>4, <1>5, <1>6

\* pty.go:242-284, manager.go:380-387, server.go:640-660: every step of a resize, an
\* attach and the output.
LEMMA TerminalStays == ASSUME TerminalInv, [Next]_vars PROVE TerminalInv'
<1> USE DEF TerminalInv, TypeOK, OneHasTheLock, SizesAgree, Locked, sizeVars, clientVars, vars
<1>1. ASSUME NEW r \in Resizers, Record(r) PROVE TerminalInv'
  BY <1>1 DEF Record
<1>2. ASSUME NEW r \in Resizers, Setsize(r) PROVE TerminalInv'
  BY <1>2 DEF Setsize, SetSize
<1>3. ASSUME NEW s \in Sizes, AttachResize(s) PROVE TerminalInv'
  BY <1>3 DEF AttachResize
<1>4. CASE AttachSetsize
  BY <1>4 DEF AttachSetsize, SetSize
<1>5. CASE AttachClient
  BY <1>5 DEF AttachClient
<1>6. CASE SignalRepaint
  BY <1>6 DEF SignalRepaint
<1>7. CASE Output
  <2>1. written' \in 0..MaxOutput
    BY <1>7, SessionAssumption DEF Output
  <2>2. "change" \in Items /\ Broadcast("change")
    BY <1>7 DEF Output, Items
  <2>3. /\ queue' \in Seq(Items) /\ Len(queue') <= ChannelCap
        /\ gap' \in BOOLEAN /\ lossy' \in BOOLEAN
    BY <2>2, BroadcastTyped
  <2> QED
    BY <1>7, <2>1, <2>3 DEF Output
<1>8. CASE Redraw
  <2>1. "frame" \in Items /\ Broadcast("frame")
    BY <1>8 DEF Redraw, Items
  <2>2. /\ queue' \in Seq(Items) /\ Len(queue') <= ChannelCap
        /\ gap' \in BOOLEAN /\ lossy' \in BOOLEAN
    BY <2>1, BroadcastTyped
  <2> QED
    BY <1>8, <2>2 DEF Redraw
<1>9. CASE Deliver
  <2>1. queue # <<>> /\ queue' = Tail(queue)
    BY <1>9 DEF Deliver
  <2>2. queue' \in Seq(Items) /\ Len(queue') <= ChannelCap
    BY <2>1, SessionAssumption
  <2>3. gap' \in BOOLEAN /\ pending' \in BOOLEAN
    BY <1>9, Zenon DEF Deliver
  <2>4. Shown(Head(queue), screen) \in {"whole", "stale"}
    <3>1. Head(queue) \in Items
      BY <2>1
    <3> QED
      BY <3>1 DEF Shown, Items
  <2>5. screen' \in {"whole", "stale"}
    BY <1>9, <2>4, Zenon DEF Deliver
  <2> QED
    BY <1>9, <2>2, <2>3, <2>5 DEF Deliver
<1>10. CASE RepaintIfDrained
  BY <1>10 DEF RepaintIfDrained
<1>11. CASE IntervalPasses
  BY <1>11 DEF IntervalPasses
<1>12. CASE UNCHANGED vars
  BY <1>12
<1> QED
  BY <1>1, <1>2, <1>3, <1>4, <1>5, <1>6, <1>7, <1>8, <1>9, <1>10, <1>11, <1>12
  DEF Next, Resize, Attach

\* Through every interleaving of resizes, attaches and output.
LEMMA TerminalAlways == SessionSpec => []TerminalInv
<1>1. SessionInit => TerminalInv
  <2> SUFFICES ASSUME Init PROVE TerminalInv
    BY DEF SessionInit
  <2>1. 0 \in 0..MaxOutput /\ Len(<<>>) <= ChannelCap /\ <<>> \in Seq(Items)
    BY SessionAssumption
  <2> QED
    BY <2>1 DEF Init, TerminalInv, TypeOK, OneHasTheLock, SizesAgree
<1>2. TerminalInv /\ [SessionNext]_SessionVars => TerminalInv'
  BY TerminalStays, PartSteps
<1> QED
  BY <1>1, <1>2, PTL DEF SessionSpec

\* pty.go:242-263: however many clients resize and attach at once, the session reports the
\* size that the terminal has, except while somebody is between the two. This is the
\* safety half of TerminalIsKept.
THEOREM SizesStayTogether == SessionSpec => []SizesAgree
<1>1. TerminalInv => SizesAgree
  BY DEF TerminalInv
<1> QED
  BY <1>1, TerminalAlways, PTL

-----------------------------------------------------------------------------
(* The process *)

\* What was started is what the request comes to, and the request was acceptable.
StartedAsAsked ==
  prcAnswer = "ok" =>
    /\ Process!Acceptable(prcRequest)
    /\ prcArgv = Process!Command(prcRequest) /\ prcCwd = Process!WorkingDir(prcRequest)

ProcessInv == Process!TypeOK /\ StartedAsAsked

\* server.go:488-557, pty.go:87-407: every step of Create, of Input, of Close and of the
\* processes.
LEMMA ProcessStays == ASSUME ProcessInv, [Process!Next]_prcVars PROVE ProcessInv'
<1> USE DEF ProcessInv, Process!TypeOK, StartedAsAsked, Process!asked, Process!world,
        Process!procVars, Process!none
<1>1. CASE Process!Refuse
  BY <1>1 DEF Process!Refuse
<1>2. CASE Process!Start
  BY <1>2 DEF Process!Start
<1>3. \A procs, sig : sig \in {"TERM", "HUP", "KILL"} =>
        Process!Signal(procs, sig) \in [Process!Procs -> SUBSET {"TERM", "HUP", "KILL"}]
  BY DEF Process!Signal
<1>4. ASSUME NEW p \in Process!Procs, Process!Ends(p) PROVE ProcessInv'
  BY <1>3, <1>4 DEF Process!Ends
<1>5. CASE Process!ReadFails
  BY <1>5 DEF Process!ReadFails
<1>6. CASE Process!Reap
  BY <1>6 DEF Process!Reap
<1>7. CASE Process!InputStarts
  BY <1>7 DEF Process!InputStarts
<1>8. CASE Process!InputReturns
  BY <1>8 DEF Process!InputReturns
<1>9. CASE Process!MarkDone
  BY <1>9 DEF Process!MarkDone
<1>10. CASE Process!KillGroup
  BY <1>3, <1>10 DEF Process!KillGroup
<1>11. CASE Process!ClosePTY
  BY <1>3, <1>11 DEF Process!ClosePTY
<1>12. CASE Process!CloseReturns
  BY <1>12 DEF Process!CloseReturns
<1>13. CASE Process!Escalate
  BY <1>3, <1>13 DEF Process!Escalate
<1>14. CASE Process!DaemonExits
  <2>1. prcDaemon' = FALSE
    BY <1>14 DEF Process!DaemonExits
  <2>2. UNCHANGED <<Process!asked, Process!world, Process!procVars, prcMaster, prcDone,
                    prcReader, prcCloser, prcGrace, prcInput>>
    BY <1>14 DEF Process!DaemonExits
  <2>3. prcDaemon' \in BOOLEAN
    BY <2>1, Zenon
  <2> QED
    BY <2>2, <2>3
<1>15. CASE UNCHANGED prcVars
  BY <1>15 DEF prcVars
<1> QED
  BY <1>1, <1>2, <1>4, <1>5, <1>6, <1>7, <1>8, <1>9, <1>10, <1>11, <1>12, <1>13, <1>14, <1>15
  DEF Process!Next, Process!Create, Process!Input, Process!Close, Process!Exits,
      Process!DiesOfSignal

\* Whatever the processes, the calls and the daemon do.
LEMMA ProcessAlways == SessionSpec => []ProcessInv
<1>1. SessionInit => ProcessInv
  BY DEF SessionInit, Process!Init, ProcessInv, Process!TypeOK, StartedAsAsked, Process!none
<1>2. ProcessInv /\ [SessionNext]_SessionVars => ProcessInv'
  BY ProcessStays, PartSteps
<1> QED
  BY <1>1, <1>2, PTL DEF SessionSpec

\* What stands behind five elements of a sequence.
LEMMA BehindFive ==
  ASSUME NEW U, NEW five \in Seq(U), Len(five) = 5, NEW rest \in Seq(U)
  PROVE  /\ Len(five \o rest) > 3 /\ (five \o rest)[4] = five[4]
         /\ SubSeq(five \o rest, 6, Len(five \o rest)) = rest
<1> DEFINE c == five \o rest
<1> HIDE DEF c
<1>0. /\ Len(rest) \in Nat /\ c \in Seq(U) /\ Len(c) = Len(five) + Len(rest)
      /\ \A i \in 1..Len(five) + Len(rest) :
           c[i] = IF i <= Len(five) THEN five[i] ELSE rest[i - Len(five)]
  <2>1. Len(rest) \in Nat
    OBVIOUS
  <2>2. /\ five \o rest \in Seq(U) /\ Len(five \o rest) = Len(five) + Len(rest)
        /\ \A i \in 1..Len(five) + Len(rest) :
             (five \o rest)[i] = IF i <= Len(five) THEN five[i] ELSE rest[i - Len(five)]
    BY ConcatProperties
  <2> QED
    BY <2>1, <2>2 DEF c
<1>1. c \in Seq(U) /\ Len(c) = 5 + Len(rest) /\ Len(rest) \in Nat
  BY <1>0
<1>2. c[4] = five[4] /\ \A i \in 1..Len(rest) : c[5 + i] = rest[i]
  <2>1. c[4] = five[4]
    BY <1>0
  <2>2. ASSUME NEW i \in 1..Len(rest) PROVE c[5 + i] = rest[i]
    <3>1. 5 + i \in 1..Len(five) + Len(rest) /\ ~(5 + i <= Len(five)) /\ (5 + i) - Len(five) = i
      BY <1>0
    <3> QED
      BY <1>0, <3>1
  <2> QED
    BY <2>1, <2>2
<1> DEFINE t == SubSeq(c, 6, Len(c))
<1>3. t \in Seq(U) /\ Len(t) = Len(rest) /\ \A i \in 1..Len(rest) : t[i] = c[5 + i]
  BY <1>1
<1>4. t \in Seq(U) /\ Len(t) = Len(rest) /\ \A i \in 1..Len(t) : t[i] = rest[i]
  BY <1>2, <1>3
<1> HIDE DEF t
<1>5. t = rest
  BY <1>4, SeqEqual
<1>6. t = SubSeq(c, 6, Len(c)) /\ c = five \o rest
  BY DEF t, c
<1> QED
  BY <1>1, <1>2, <1>5, <1>6

\* A sequence over a set is one over a larger set.
LEMMA SeqGrows ==
  ASSUME NEW S, NEW U, S \subseteq U, NEW s \in Seq(S)
  PROVE  s \in Seq(U)
<1>1. Len(s) \in Nat /\ s = [i \in 1..Len(s) |-> s[i]] /\ \A i \in 1..Len(s) : s[i] \in U
  OBVIOUS
<1>2. [i \in 1..Len(s) |-> s[i]] \in Seq(U)
  BY <1>1, IsASeq
<1> QED
  BY <1>1, <1>2

\* A sequence of five.
LEMMA FiveAreASequence ==
  ASSUME NEW U, NEW a \in U, NEW b \in U, NEW c \in U, NEW d \in U, NEW e \in U
  PROVE  /\ <<a, b, c, d, e>> \in Seq(U) /\ Len(<<a, b, c, d, e>>) = 5
         /\ <<a, b, c, d, e>>[4] = d
OBVIOUS

\* What stands behind the five words of a positional command is what is executed.
LEMMA PositionalIs ==
  ASSUME NEW words \in Seq(STRING)
  PROVE  LET c == <<"-l", "-i", "-c", "$@", "_">> \o words
         IN Len(c) > 3 /\ c[4] = "$@" /\ SubSeq(c, 6, Len(c)) = words
<1> DEFINE U == STRING \cup {"-l", "-i", "-c", "$@", "_"}
           five == <<"-l", "-i", "-c", "$@", "_">>
<1>1. "-l" \in U /\ "-i" \in U /\ "-c" \in U /\ "$@" \in U /\ "_" \in U /\ STRING \subseteq U
  OBVIOUS
<1> HIDE DEF U
<1>2. five \in Seq(U) /\ Len(five) = 5 /\ five[4] = "$@"
  BY <1>1, FiveAreASequence
<1>3. words \in Seq(U)
  BY <1>1, SeqGrows
<1> HIDE DEF five
<1>4. Len(five \o words) > 3 /\ (five \o words)[4] = "$@"
      /\ SubSeq(five \o words, 6, Len(five \o words)) = words
  BY <1>2, <1>3, BehindFive
<1> QED
  BY <1>4, Zenon DEF five

\* server.go:488-557, pty.go:87-147: a session runs the tool and the arguments it was asked
\* for, none of them as text for the shell, in a directory that was there, for any
\* requests and configuration. This is the safety half of ProcessIsKept.
THEOREM SessionsRunAsAsked == SessionSpec => []Process!RunsAsAsked
<1>1. ProcessInv => Process!RunsAsAsked
  <2> SUFFICES ASSUME ProcessInv, prcAnswer = "ok"
               PROVE  /\ Process!Executed = (IF prcRequest.tool = "shell" THEN <<>>
                                             ELSE <<prcRequest.tool>>) \o prcRequest.args
                      /\ prcCwd \in Places
                      /\ prcRequest.tool = "shell" => ShellEnabled
    BY DEF Process!RunsAsAsked
  <2> DEFINE tool == prcRequest.tool
             args == prcRequest.args
  <2>1. /\ Process!Acceptable(prcRequest) /\ prcArgv = Process!Command(prcRequest)
        /\ prcCwd = Process!WorkingDir(prcRequest) /\ args \in Seq(STRING)
    BY SessionAssumption DEF ProcessInv, StartedAsAsked, Process!TypeOK
  <2>2. prcCwd \in Places /\ (tool = "shell" => ShellEnabled) /\ tool \in Plain
    BY <2>1, Zenon DEF Process!Acceptable, Process!ValidTool
  <2>3. CASE tool = "shell" /\ args = <<>>
    <3>1. prcArgv = <<"-l">>
      BY <2>1, <2>3 DEF Process!Command
    <3>2. Process!Executed = <<>>
      BY <3>1 DEF Process!Executed
    <3> QED
      BY <2>2, <2>3, <3>2
  <2>4. CASE tool = "shell" /\ args # <<>>
    <3>1. prcArgv = <<"-l", "-i", "-c", "$@", "_">> \o args
      BY <2>1, <2>4 DEF Process!Command
    <3>2. Process!Executed = args
      BY <2>1, <3>1, PositionalIs DEF Process!Executed
    <3> QED
      BY <2>1, <2>2, <2>4, <3>2
  <2>5. CASE tool # "shell" /\ args = <<>>
    <3>1. prcArgv = <<"-l", "-i", "-c", tool>>
      BY <2>1, <2>5 DEF Process!Command
    <3>2. Len(prcArgv) > 3 /\ prcArgv[4] = tool
      BY <3>1
    <3>3. Process!Executed = <<tool>>
      BY <2>2, <3>2, SessionAssumption DEF Process!Executed
    <3> QED
      BY <2>2, <2>5, <3>3
  <2>6. CASE tool # "shell" /\ args # <<>>
    <3>1. prcArgv = <<"-l", "-i", "-c", "$@", "_">> \o (<<tool>> \o args)
      BY <2>1, <2>6 DEF Process!Command
    <3>2. <<tool>> \o args \in Seq(STRING)
      <4>1. tool \in STRING
        BY <2>2, SessionAssumption
      <4>2. <<tool>> \in Seq(STRING)
        BY <4>1
      <4> QED
        BY <2>1, <4>2
    <3>3. Process!Executed = <<tool>> \o args
      BY <3>1, <3>2, PositionalIs DEF Process!Executed
    <3> QED
      BY <2>2, <2>6, <3>3
  <2> QED
    BY <2>3, <2>4, <2>5, <2>6
<1> QED
  BY <1>1, ProcessAlways, PTL

-----------------------------------------------------------------------------
(* The commands *)

\* What a command has found out by each phase, and that it says nothing before its end.
PhaseFits ==
  /\ cmdPhase \in {"connecting", "resolving"} => cmdTarget = 0
  /\ cmdPhase \in {"prompt", "acting", "waiting", "getting", "cancelling"} =>
       cmdTarget \in Command!Things
  /\ cmdPhase # "exited" => cmdResult = "none"

CommandInv == Command!TypeOK /\ PhaseFits /\ Command!TellsTheTruth

\* run.go:58-204, cancel.go:43-98, kill.go:52-132: every step of a command, of its link
\* and of what it names.
LEMMA CommandStays == ASSUME CommandInv, [Command!Next]_cmdVars PROVE CommandInv'
<1> USE DEF CommandInv, Command!TypeOK, PhaseFits, Command!TellsTheTruth, Command!Statuses,
        Command!Terminal, Command!none, Command!Exit, Command!commandVars,
        Command!daemonVars, Command!Matches
<1>1. CASE Command!Connect
  BY <1>1 DEF Command!Connect
<1>2. CASE Command!Resolve
  <2> DEFINE matches == {i \in Command!Listed : Command!Matches(i)}
  <2>1. /\ cmdPhase = "resolving" /\ cmdListing' = Command!Listed
        /\ UNCHANGED <<cmdCommand, cmdArgument, cmdCtxDone, cmdLink, cmdOver, cmdRun, cmdCancelled>>
    BY <1>2 DEF Command!Resolve
  <2>2. Command!Listed \subseteq Command!Things
    BY DEF Command!Listed, Command!Commands
  <2>3. CASE cmdPhase' = "exited" /\ cmdResult' = "error" /\ cmdTarget' = cmdTarget
    BY <2>1, <2>2, <2>3
  <2>4. CASE /\ \E i \in matches : matches = {i} /\ cmdTarget' = i
             /\ \/ cmdPhase' = "exited" /\ cmdResult' = "attached"
                \/ cmdPhase' \in {"prompt", "acting"} /\ cmdResult' = cmdResult
    <3>1. cmdTarget' \in Command!Things
      BY <2>2, <2>4
    <3>2. {i \in cmdListing' : Command!Matches(i)'} = {cmdTarget'}
      BY <2>1, <2>4
    <3>3. cmdResult' \in {"attached", "none"}
      BY <2>1, <2>4
    <3> HIDE DEF matches
    <3> QED
      BY <2>1, <2>2, <2>4, <3>1, <3>2, <3>3
  <2> QED
    BY <1>2, <2>3, <2>4 DEF Command!Resolve
<1>3. CASE Command!Answer
  BY <1>3 DEF Command!Answer
<1>4. CASE Command!Act
  BY <1>4 DEF Command!Act
<1>5. CASE Command!ActUnheard
  BY <1>5 DEF Command!ActUnheard
<1>6. CASE Command!StartRun
  BY <1>6 DEF Command!StartRun
<1>7. CASE Command!StartUnheard
  BY <1>7 DEF Command!StartUnheard
<1>8. CASE Command!Tick
  BY <1>8 DEF Command!Tick
<1>9. CASE Command!GetRun
  BY <1>9 DEF Command!GetRun, Command!Finished
<1>10. CASE Command!Interrupted
  BY <1>10 DEF Command!Interrupted
<1>11. CASE Command!CancelRun
  BY <1>11 DEF Command!CancelRun
<1>12. CASE Command!ContextEnds
  BY <1>12 DEF Command!ContextEnds
<1>13. CASE Command!LinkChanges
  BY <1>13 DEF Command!LinkChanges
<1>14. CASE Command!ThingEnds
  BY <1>14 DEF Command!ThingEnds
<1>15. CASE Command!RunStarts
  BY <1>15 DEF Command!RunStarts
<1>16. CASE Command!RunEnds
  BY <1>16 DEF Command!RunEnds
<1>17. ASSUME NEW p \in {"connecting", "resolving", "acting", "getting"}, Command!Fail(p)
       PROVE  CommandInv'
  BY <1>17 DEF Command!Fail
<1>18. CASE Command!DialTimesOut
  BY <1>18 DEF Command!DialTimesOut
<1>19. CASE UNCHANGED cmdVars
  BY <1>19 DEF cmdVars
<1> QED
  BY <1>1, <1>2, <1>3, <1>4, <1>5, <1>6, <1>7, <1>8, <1>9, <1>10, <1>11, <1>12, <1>13, <1>14,
     <1>15, <1>16, <1>17, <1>18, <1>19 DEF Command!Next

\* Whatever the user, the link and the daemon do.
LEMMA CommandAlways == SessionSpec => []CommandInv
<1>1. SessionInit => CommandInv
  BY DEF SessionInit, Command!Init, CommandInv, Command!TypeOK, PhaseFits,
     Command!TellsTheTruth, Command!Statuses, Command!none
<1>2. CommandInv /\ [SessionNext]_SessionVars => CommandInv'
  BY CommandStays, PartSteps
<1> QED
  BY <1>1, <1>2, PTL DEF SessionSpec

\* run.go:58-204, cancel.go:43-98, kill.go:52-132: a command acts on the one thing that its
\* argument names in the list it got, and what it says of it is so, for anything that may
\* be named and typed. This is the safety half of CommandKeepsItsWord.
THEOREM CommandsTellTheTruth == SessionSpec => []Command!TellsTheTruth
<1>1. CommandInv => Command!TellsTheTruth
  BY DEF CommandInv
<1> QED
  BY <1>1, CommandAlways, PTL

-----------------------------------------------------------------------------
(* The types of every part *)

\* Whichever part moves has its types, for any value of the constants: among them that no
\* client's channel gets more than it holds.
THEOREM SessionTypeCorrect == SessionSpec => []SessionTypeOK
<1>1. SessionInit => part \in {"terminal", "process", "command"}
  BY DEF SessionInit
<1>2. part \in {"terminal", "process", "command"} /\ [SessionNext]_SessionVars
        => (part \in {"terminal", "process", "command"})'
  BY PartSteps
<1>3. part \in {"terminal", "process", "command"} /\ TerminalInv /\ ProcessInv /\ CommandInv
        => SessionTypeOK
  BY DEF SessionTypeOK, TerminalInv, ProcessInv, CommandInv
<1> QED
  BY <1>1, <1>2, <1>3, TerminalAlways, ProcessAlways, CommandAlways, PTL DEF SessionSpec
=============================================================================
