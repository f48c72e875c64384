----------------------------- MODULE AtomicFile -----------------------------
(* WriteFileAtomic and RemoveStaleTemps (internal/fsutil/atomic.go), as every *)
(* store of the daemon uses them: temp files next to one target, renamed over *)
(* it, swept at the next load, with readers, failures and crashes in between. *)
EXTENDS Naturals

CONSTANTS
  Writers,    \* one write each; an inode is named by the writer that made it
  Readers,
  Initial,    \* the inode that is there at first
  Torn,       \* the value of a file that was not wholly written
  MaxLosses   \* bound: times the power fails

ASSUME FileAssumption == Initial \notin Writers /\ MaxLosses \in Nat

VARIABLES
  path,     \* the inode the target leads to
  before,   \* the one it led to before the last rename
  temps,    \* the writers whose temp file has its name
  data,     \* of each inode: "empty", "partial", "written" or "synced"
  pc,       \* the step of each write
  sweep,    \* the names RemoveStaleTemps has listed and not removed yet
  view,     \* the value each reader has read last
  losses    \* times the power has failed

vars == <<path, before, temps, data, pc, sweep, view, losses>>

Inodes == Writers \cup {Initial}

\* What a reader of an inode gets.
ValueOf(i) == IF data[i] \in {"written", "synced"} THEN i ELSE Torn

Underway == {w \in Writers : pc[w] \notin {"written", "failed"}}

Init ==
  /\ path = Initial /\ before = Initial
  /\ temps = {} /\ sweep = {}
  /\ data = [i \in Inodes |-> IF i = Initial THEN "synced" ELSE "empty"]
  /\ pc = [w \in Writers |-> "create"]
  /\ view = [r \in Readers |-> Initial]
  /\ losses = 0

Goto(w, step) == pc' = [pc EXCEPT ![w] = step]

-----------------------------------------------------------------------------
(* WriteFileAtomic, step by step. Each may fail. *)

\* CreateTemp picks a name that is not taken.
CreateTemp(w) ==
  /\ pc[w] = "create"
  /\ temps' = temps \cup {w} /\ Goto(w, "write")
  /\ UNCHANGED <<path, before, data, sweep, view, losses>>

\* A write may get only part of the data out before it fails.
WriteTemp(w) ==
  /\ pc[w] = "write"
  /\ \/ data' = [data EXCEPT ![w] = "written"] /\ Goto(w, "sync")
     \/ data' = [data EXCEPT ![w] = "partial"] /\ Goto(w, "cleanup")
  /\ UNCHANGED <<path, before, temps, sweep, view, losses>>

\* Sync, and with it chmod and close, which change nothing that is read here.
SyncTemp(w) ==
  /\ pc[w] = "sync"
  /\ \/ data' = [data EXCEPT ![w] = "synced"] /\ Goto(w, "rename")
     \/ UNCHANGED data /\ Goto(w, "cleanup")
  /\ UNCHANGED <<path, before, temps, sweep, view, losses>>

\* Mutation: the file is renamed before it is synced.
RenameUnsynced(w) ==
  /\ pc[w] \in {"sync", "rename"}
  /\ IF w \in temps
     THEN /\ path' = w /\ before' = path
          /\ temps' = temps \ {w} /\ Goto(w, "written")
     ELSE Goto(w, "cleanup") /\ UNCHANGED <<path, before, temps>>
  /\ UNCHANGED <<data, sweep, view, losses>>

\* A rename fails if the sweep has taken the name.
RenameTemp(w) ==
  /\ pc[w] = "rename"
  /\ IF w \in temps
     THEN /\ path' = w /\ before' = path
          /\ temps' = temps \ {w} /\ Goto(w, "written")
     ELSE Goto(w, "cleanup") /\ UNCHANGED <<path, before, temps>>
  /\ UNCHANGED <<data, sweep, view, losses>>

\* The deferred function of every failure.
RemoveTemp(w) ==
  /\ pc[w] = "cleanup"
  /\ temps' = temps \ {w} /\ Goto(w, "failed")
  /\ UNCHANGED <<path, before, data, sweep, view, losses>>

-----------------------------------------------------------------------------
(* Sweep, readers, crashes *)

\* StaleTemps lists what is there: left behind, or of a write in progress.
ListStale ==
  /\ sweep = {} /\ temps # {}
  /\ sweep' = temps
  /\ UNCHANGED <<path, before, temps, data, pc, view, losses>>

RemoveStale(w) ==
  /\ w \in sweep
  /\ sweep' = sweep \ {w} /\ temps' = temps \ {w}
  /\ UNCHANGED <<path, before, data, pc, view, losses>>

\* A value that was not wholly written reads as Torn.
ReadTarget(r) ==
  /\ view' = [view EXCEPT ![r] = ValueOf(path)]
  /\ UNCHANGED <<path, before, temps, data, pc, sweep, losses>>

\* The process is killed, and its writes with it: their temp files stay.
Kill ==
  /\ \E dead \in SUBSET Underway :
       pc' = [w \in Writers |-> IF w \in dead THEN "failed" ELSE pc[w]]
  /\ UNCHANGED <<path, before, temps, data, sweep, view, losses>>

\* The power fails: what was not synced may be torn, and the last rename undone,
\* as nobody syncs the directory.
LosePower ==
  /\ losses < MaxLosses
  /\ losses' = losses + 1
  /\ pc' = [w \in Writers |-> IF w \in Underway THEN "failed" ELSE pc[w]]
  /\ \E torn \in SUBSET {i \in Inodes : data[i] = "written"} :
       data' = [i \in Inodes |-> IF i \in torn THEN "partial" ELSE data[i]]
  /\ \/ UNCHANGED <<path, temps>>
     \/ path' = before /\ temps' = temps \cup ({path} \ {before})
  /\ before' = path' /\ sweep' = {}
  /\ UNCHANGED view

-----------------------------------------------------------------------------
Write(w) ==
  CreateTemp(w) \/ WriteTemp(w) \/ SyncTemp(w) \/ RenameTemp(w) \/ RemoveTemp(w)

Next ==
  \/ \E w \in Writers : Write(w) \/ RemoveStale(w)
  \/ ListStale
  \/ \E r \in Readers : ReadTarget(r)
  \/ Kill \/ LosePower

Spec == Init /\ [][Next]_vars

-----------------------------------------------------------------------------
TypeOK ==
  /\ path \in Inodes /\ before \in Inodes
  /\ temps \subseteq Writers /\ sweep \subseteq Writers
  /\ data \in [Inodes -> {"empty", "partial", "written", "synced"}]
  /\ pc \in [Writers ->
       {"create", "write", "sync", "rename", "cleanup", "written", "failed"}]
  /\ view \in [Readers -> Inodes \cup {Torn}]
  /\ losses \in 0..MaxLosses

\* The file as its readers know it: the value the path leads to, and a write that
\* takes effect with its rename.
Outcome(w) == IF pc[w] \in {"written", "failed"} THEN pc[w] ELSE "pending"

File == INSTANCE Register WITH
  value <- ValueOf(path), before <- ValueOf(before),
  outcome <- [w \in Writers |-> Outcome(w)]

\* The temp file, the rename and the sweep together are the one atomic write that
\* the stores count on, whatever fails, is swept or dies on the way
\* (atomic.go:26-31, 95-104).
ImplementsRegister == File!Spec
=============================================================================
