-------------------------- MODULE ExternalSessions --------------------------
(* AI tools that run outside the daemon (internal/procscan/procscan.go and    *)
(* the two calls in internal/server/server.go): the scan that lists them from *)
(* a look at the process table, and Kill, whose guard is the tool's name,     *)
(* since a process may exit and another take its PID.                         *)
EXTENDS Naturals, FiniteSets, Sequences

CONSTANTS
  PIDs,          \* those above 1; numbers
  Daemon,        \* the daemon's PID, one of them
  Tools,         \* the configured tools but "shell"
  Interpreters,  \* node, python, ...
  Argvs,         \* the command lines a process may have: sequences of base names
  MaxDepth       \* how far up an ancestor is looked for (128 in the code)

VARIABLES
  table,   \* of each PID: its process [parent, argv, mine], or Free
  kill,    \* KillExternalSession: "idle", "verified", "grace" or "reverified"
  target,  \* its PID and tool
  struck   \* what the last signal hit: the tool claimed, and the process's own

vars == <<table, kill, target, struck>>

Free == [parent |-> 0, argv |-> <<>>, mine |-> FALSE]
Root == [parent |-> 1, argv |-> <<"hqsshd">>, mine |-> TRUE]
Live == {p \in PIDs : table[p] # Free}

Init ==
  /\ table = [p \in PIDs |-> IF p = Daemon THEN Root ELSE Free]
  /\ kill = "idle" /\ target = [pid |-> Daemon, tool |-> ""]
  /\ struck = [claimed |-> "", tool |-> ""]

-----------------------------------------------------------------------------
(* Scan *)

\* The tool of a command line: its program, or the script an interpreter is
\* given as first argument that is no flag.
ToolFromArgv(argv) ==
  IF argv = <<>> THEN ""
  ELSE IF Head(argv) \in Tools THEN Head(argv)
  ELSE LET words == SelectSeq(Tail(argv), LAMBDA w : w # "-flag")
       IN  IF Head(argv) \in Interpreters /\ words # <<>> /\ Head(words) \in Tools
           THEN Head(words) ELSE ""

ToolOf(p) == ToolFromArgv(table[p].argv)

\* Mutation: only the parent is looked at.
VisitedParent(p) == {table[p].parent} \cap PIDs

\* p, its parent, that one's parent, and so on; 0 above what is no process.
Generations(p) ==
  LET up[n \in 0..MaxDepth] ==
        IF n = 0 THEN p
        ELSE IF up[n - 1] \in Live THEN table[up[n - 1]].parent ELSE 0
  IN  up

\* The ancestors that the loops of isDescendant and hasMatchedAncestor visit.
Visited(p) == {Generations(p)[n] : n \in 1..MaxDepth} \cap PIDs

IsDescendant(p) == Daemon \in Visited(p)

\* A shim and the program it starts are one session: the one further up.
HasMatchedAncestor(p) == \E a \in Visited(p) : a \in Live /\ ToolOf(a) = ToolOf(p)

Scan ==
  {p \in Live : /\ ToolOf(p) # ""
                /\ ~IsDescendant(p) /\ ~HasMatchedAncestor(p)
                /\ table[p].mine}

-----------------------------------------------------------------------------
(* KillExternalSession *)

Verified(p, tool) == p \in Live /\ ToolOf(p) = tool

\* Nothing but a check of the PID and of the tool's name; the process may be any.
VerifyTool ==
  /\ kill = "idle"
  /\ \E p \in PIDs, t \in Tools :
       Verified(p, t) /\ target' = [pid |-> p, tool |-> t]
  /\ kill' = "verified"
  /\ UNCHANGED <<table, struck>>

\* SIGTERM or SIGKILL reach whatever has the PID then.
Signal(from, to) ==
  /\ kill = from
  /\ kill' = to
  /\ struck' = IF target.pid \in Live
               THEN [claimed |-> target.tool, tool |-> ToolOf(target.pid)]
               ELSE [claimed |-> "", tool |-> ""]
  /\ UNCHANGED <<table, target>>

Terminate == Signal("verified", "grace")

\* killGracePeriod later the same check decides whether to escalate.
Reverify ==
  /\ kill = "grace"
  /\ kill' = IF Verified(target.pid, target.tool) THEN "reverified" ELSE "idle"
  /\ UNCHANGED <<table, target, struck>>

Escalate == Signal("reverified", "idle")

-----------------------------------------------------------------------------
(* Processes. No PID is taken again between a check and the signal that follows. *)

Settled == kill \notin {"verified", "reverified"}

Fork(p) ==
  /\ table[p] = Free /\ Settled
  /\ \E a \in Argvs, m \in BOOLEAN, q \in Live \cup {1} :
       table' = [table EXCEPT ![p] = [parent |-> q, argv |-> a, mine |-> m]]
  /\ UNCHANGED <<kill, target, struck>>

Exit(p) ==
  /\ p \in Live /\ p # Daemon
  /\ table' = [q \in PIDs |->
       CASE q = p                 -> Free
         [] q # p /\ table[q].parent = p -> [table[q] EXCEPT !.parent = 1]
         [] OTHER                 -> table[q]]
  /\ UNCHANGED <<kill, target, struck>>

Next ==
  \/ VerifyTool \/ Terminate \/ Reverify \/ Escalate
  \/ \E p \in PIDs : Fork(p) \/ Exit(p)

Spec == Init /\ [][Next]_vars

-----------------------------------------------------------------------------
TypeOK ==
  /\ table \in [PIDs -> {Free, Root} \cup
                  [parent : PIDs \cup {1}, argv : Argvs, mine : BOOLEAN]]
  /\ kill \in {"idle", "verified", "grace", "reverified"}

\* Ancestry as the kernel has it: the least set with the parents of p and of its members.
Ancestors(p) ==
  LET closed == {above \in SUBSET Live :
                   {table[q].parent : q \in above \cup {p}} \cap Live \subseteq above}
  IN  {a \in Live : \A above \in closed : a \in above}

\* The loops stop after MaxDepth ancestors, a guard against cycles in a stale table.
WithinReach(p) == Cardinality(Ancestors(p)) <= MaxDepth

\* Every process of a tool that is not below the daemon belongs to one session of the
\* list, that of its top-most ancestor of that tool, unless that one is another user's;
\* nothing below the daemon is listed. Of a process with more ancestors than the scan
\* looks at nothing is said (procscan.go:74-148, 248-283).
SessionsAreListedOnce ==
  \A p \in Live : WithinReach(p) =>
    LET chain == {q \in Ancestors(p) \cup {p} : ToolOf(q) = ToolOf(p)}
        top == CHOOSE q \in chain : Ancestors(q) \cap chain = {}
    IN  IF ToolOf(p) = "" \/ Daemon \in Ancestors(p) THEN p \notin Scan
        ELSE chain \cap Scan = IF table[top].mine THEN {top} ELSE {}

\* However long ago the call was answered, its signals only reach a process of the
\* tool it named (procscan.go:150-190).
StrikesTheTool == struck.tool = struck.claimed
=============================================================================
