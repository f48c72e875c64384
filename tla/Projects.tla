------------------------------ MODULE Projects ------------------------------
(* The project registry and the discovery state (internal/project), with the *)
(* calls of ProjectService that change them (internal/server/server.go) and  *)
(* the rescan that List starts.                                              *)
(*                                                                           *)
(* A project is its path. Each method of Registry and DiscoveryState is one  *)
(* step, since it holds that object's mutex; a Save holds it for reading     *)
(* until the file is written, so no change falls between. A call is a        *)
(* sequence of such steps, and what it found on the disk or read from one    *)
(* object may be old when it gets to the next.                               *)
EXTENDS Naturals, Sequences, SequencesExt

CONSTANTS
  Dirs,        \* directories on the disk, as sequences of names
  Repos,       \* those with a .git directory
  Handled,     \* repositories that are added and removed
  Excluded,    \* names that begin with a dot, or are of Projects.Exclude
  MaxDepth,    \* Projects.MaxDepth
  Configured,  \* Projects.ScanDirectories
  Roots,       \* directories a user may scan
  Listers      \* List calls

Calls == ({"list"} \X Listers) \cup ({"add", "remove"} \X Handled)
         \cup ({"discover"} \X Roots)

VARIABLES
  projects,   \* Registry.projects
  removed,    \* DiscoveryState.removed, the tombstones
  roots,      \* DiscoveryState.roots
  file,       \* projects.json and discovery.json: what a start would load
  unsaved,    \* ghost: the files whose last save has failed
  rescanMu,   \* the call that holds Server.rescanMu, or Nobody
  pc,         \* the step of each call; "idle" before and after it
  found,      \* what a call's scan has found, then kept
  fate        \* ghost: of each project, "leaving" once Remove has taken it out,
              \* "gone" once that is answered for, until an Add of it: "any"

memVars == <<projects, removed, roots>>
vars == <<memVars, file, unsaved, rescanMu, pc, found, fate>>

Nobody == <<"nobody">>

Init ==
  /\ projects = {} /\ removed = {} /\ roots = {}
  /\ file = [projects |-> {}, removed |-> {}, roots |-> {}]
  /\ unsaved = {} /\ rescanMu = Nobody
  /\ pc = [c \in Calls |-> "idle"]
  /\ found = [c \in Calls |-> {}]
  /\ fate = [p \in Repos |-> "any"]

Goto(c, step) == pc' = [pc EXCEPT ![c] = step]
Kind(c) == c[1]
Arg(c) == c[2]
Foretell(p, what) == fate' = [fate EXCEPT ![p] = what]

\* Registry.Save and DiscoveryState.Save: the file is written, or it is not.
SaveProjects ==
  \/ /\ file' = [file EXCEPT !.projects = projects]
     /\ unsaved' = unsaved \ {"projects"}
  \/ /\ unsaved' = unsaved \cup {"projects"} /\ UNCHANGED file

SaveState ==
  \/ /\ file' = [file EXCEPT !.removed = removed, !.roots = roots]
     /\ unsaved' = unsaved \ {"state"}
  \/ /\ unsaved' = unsaved \cup {"state"} /\ UNCHANGED file

-----------------------------------------------------------------------------
(* Discovery.Discover *)

\* walkDirectory: what one more name leads to, and is not passed over.
Below(dirs) ==
  {d \in Dirs : d # <<>> /\ Front(d) \in dirs /\ Last(d) \notin Excluded}

\* The directories so many steps below a root; those one step below have depth 0.
Levels(root, depth) ==
  LET at[n \in 0..depth + 1] == IF n = 0 THEN {root} \cap Dirs ELSE Below(at[n - 1]) IN at

Walked(root, depth) == UNION {Levels(root, depth)[n] : n \in 1..depth + 1}

Discovered(directories) == Repos \cap UNION {Walked(d, MaxDepth) : d \in directories}

-----------------------------------------------------------------------------
(* Scans: maybeRescan under rescanMu, and Discover *)

\* Discover walks the directories; roots are read before it does.
ListBegins(c) ==
  /\ Kind(c) = "list" /\ pc[c] = "idle" /\ rescanMu = Nobody
  /\ rescanMu' = c
  /\ found' = [found EXCEPT ![c] = Discovered(Configured \cup roots)]
  /\ Goto(c, "filter")
  /\ UNCHANGED <<memVars, file, unsaved, fate>>

DiscoverBegins(c) ==
  /\ Kind(c) = "discover" /\ pc[c] = "idle"
  /\ found' = [found EXCEPT ![c] = Discovered({Arg(c)})]
  /\ Goto(c, "root")
  /\ UNCHANGED <<memVars, file, unsaved, rescanMu, fate>>

AddScanRoot(c) ==
  /\ pc[c] = "root"
  /\ roots' = roots \cup {Arg(c)}
  /\ Goto(c, IF Arg(c) \in roots THEN "filter" ELSE "saveRoot")
  /\ UNCHANGED <<projects, removed, file, unsaved, rescanMu, found, fate>>

SaveRoot(c) ==
  /\ pc[c] = "saveRoot"
  /\ SaveState /\ Goto(c, "filter")
  /\ UNCHANGED <<memVars, rescanMu, found, fate>>

FilterRemoved(c) ==
  /\ pc[c] = "filter"
  /\ found' = [found EXCEPT ![c] = @ \ removed]
  /\ Goto(c, "merge")
  /\ UNCHANGED <<memVars, file, unsaved, rescanMu, fate>>

\* A rescan that adds nothing has nothing to save.
MergeDiscovered(c) ==
  /\ pc[c] = "merge"
  /\ projects' = projects \cup found[c]
  /\ LET added == found[c] \ projects
         quiet == Kind(c) = "list" /\ added = {}
     IN  /\ Goto(c, IF quiet THEN "idle" ELSE "saveMerged")
         /\ rescanMu' = IF quiet THEN Nobody ELSE rescanMu
  /\ found' = [found EXCEPT ![c] = {}]
  /\ UNCHANGED <<removed, roots, file, unsaved, fate>>

SaveMerged(c) ==
  /\ pc[c] = "saveMerged"
  /\ SaveProjects /\ Goto(c, "idle")
  /\ rescanMu' = IF Kind(c) = "list" THEN Nobody ELSE rescanMu
  /\ UNCHANGED <<memVars, found, fate>>

-----------------------------------------------------------------------------
(* Add and Remove *)

\* A project that is registered is answered for as it is.
AddBegins(c) ==
  /\ Kind(c) = "add" /\ pc[c] = "idle" /\ Arg(c) \notin projects
  /\ Foretell(Arg(c), "any")
  /\ Goto(c, "clear")
  /\ UNCHANGED <<memVars, file, unsaved, rescanMu, found>>

\* An explicit add overrides a removal.
ClearRemoved(c) ==
  /\ pc[c] = "clear"
  /\ removed' = removed \ {Arg(c)} /\ Foretell(Arg(c), "any")
  /\ Goto(c, IF Arg(c) \in removed THEN "saveCleared" ELSE "add")
  /\ UNCHANGED <<projects, roots, file, unsaved, rescanMu, found>>

SaveCleared(c) ==
  /\ pc[c] = "saveCleared"
  /\ SaveState /\ Goto(c, "add")
  /\ UNCHANGED <<memVars, rescanMu, found, fate>>

AddProject(c) ==
  /\ pc[c] = "add"
  /\ projects' = projects \cup {Arg(c)}
  /\ Foretell(Arg(c), "any")
  /\ Goto(c, "saveAdded")
  /\ UNCHANGED <<removed, roots, file, unsaved, rescanMu, found>>

SaveAdded(c) ==
  /\ pc[c] = "saveAdded"
  /\ SaveProjects /\ Goto(c, "idle")
  /\ UNCHANGED <<memVars, rescanMu, found, fate>>

RemoveProject(c) ==
  /\ Kind(c) = "remove" /\ pc[c] = "idle" /\ Arg(c) \in projects
  /\ projects' = projects \ {Arg(c)} /\ Foretell(Arg(c), "leaving")
  /\ Goto(c, "tombstone")
  /\ UNCHANGED <<removed, roots, file, unsaved, rescanMu, found>>

AddRemoved(c) ==
  /\ pc[c] = "tombstone"
  /\ removed' = removed \cup {Arg(c)}
  /\ Goto(c, "saveTombstone")
  /\ UNCHANGED <<projects, roots, file, unsaved, rescanMu, found, fate>>

\* Mutation: the tombstone is left to the save at shutdown.
TombstoneUnsaved(c) ==
  /\ pc[c] = "saveTombstone"
  /\ Goto(c, "saveRemoved")
  /\ UNCHANGED <<memVars, file, unsaved, rescanMu, found, fate>>

\* A failure is logged; the tombstone then lasts as long as the process.
SaveTombstone(c) ==
  /\ pc[c] = "saveTombstone"
  /\ SaveState /\ Goto(c, "saveRemoved")
  /\ UNCHANGED <<memVars, rescanMu, found, fate>>

\* The caller is told of a failure.
SaveRemoved(c) ==
  /\ pc[c] = "saveRemoved"
  /\ SaveProjects /\ Goto(c, "idle")
  /\ IF fate[Arg(c)] = "leaving" /\ "projects" \notin unsaved'
     THEN Foretell(Arg(c), "gone") ELSE UNCHANGED fate
  /\ UNCHANGED <<memVars, rescanMu, found>>

\* The daemon dies and starts again from its files.
Restart ==
  /\ projects' = file.projects /\ removed' = file.removed /\ roots' = file.roots
  /\ unsaved' = {} /\ rescanMu' = Nobody
  /\ pc' = [c \in Calls |-> "idle"] /\ found' = [c \in Calls |-> {}]
  /\ fate' = [p \in Repos |->
       IF fate[p] = "gone" /\ p \in file.removed THEN "gone" ELSE "any"]
  /\ UNCHANGED file

-----------------------------------------------------------------------------
Call(c) ==
  \/ ListBegins(c) \/ DiscoverBegins(c) \/ AddScanRoot(c) \/ SaveRoot(c)
  \/ FilterRemoved(c) \/ MergeDiscovered(c) \/ SaveMerged(c)
  \/ AddBegins(c) \/ ClearRemoved(c) \/ SaveCleared(c) \/ AddProject(c) \/ SaveAdded(c)
  \/ RemoveProject(c) \/ AddRemoved(c) \/ SaveTombstone(c) \/ SaveRemoved(c)

Next == Restart \/ \E c \in Calls : Call(c)

Spec == Init /\ [][Next]_vars

-----------------------------------------------------------------------------
TypeOK ==
  /\ projects \subseteq Repos /\ removed \subseteq Repos /\ roots \subseteq Roots
  /\ file \in [projects : SUBSET Repos, removed : SUBSET Repos, roots : SUBSET Roots]
  /\ unsaved \subseteq {"projects", "state"}
  /\ rescanMu \in Calls \cup {Nobody}
  /\ pc \in [Calls ->
       {"idle", "root", "saveRoot", "filter", "merge", "saveMerged", "clear",
        "saveCleared", "add", "saveAdded", "tombstone", "saveTombstone", "saveRemoved"}]
  /\ found \in [Calls -> SUBSET Repos]
  /\ fate \in [Repos -> {"any", "leaving", "gone"}]

\* Once no call is under way and no save has failed, a restart changes nothing:
\* every change of one call is on the disk, whichever call saved it
\* (server.go:328-335, 384-394, 409-417, 428-440).
FilesAgree ==
  (\A c \in Calls : pc[c] = "idle") =>
    /\ "projects" \in unsaved \/ file.projects = projects
    /\ "state" \in unsaved \/ (file.removed = removed /\ file.roots = roots)

\* The tombstone of a project whose removal was answered for stays, in memory and
\* in the file, until an Add of it: no scan that begins later brings it back, not
\* even after a crash (state.go:29-33, server.go:409-413).
TombstonesHold ==
  \A p \in Repos : fate[p] = "gone" =>
    p \in removed /\ ("state" \in unsaved \/ p \in file.removed)

\* What the calls have answered for survives a restart.
AnswersAreDurable == FilesAgree /\ TombstonesHold

\* A scan has every repository at most MaxDepth directories away from its root, and none
\* that is excluded or behind something excluded (discovery.go:54-147).
ScansAreComplete ==
  \A c \in Calls : pc[c] = "root" =>
    found[c] = {p \in Repos :
      /\ IsStrictPrefix(Arg(c), p) /\ Len(p) - Len(Arg(c)) - 1 <= MaxDepth
      /\ \A i \in Len(Arg(c)) + 1 .. Len(p) : p[i] \notin Excluded}

ProjectsAreKept == AnswersAreDurable /\ ScansAreComplete

\* A project that was removed is not registered until someone adds it: rescans
\* "never re-add" it (state.go:29-33). A scan that was filtered before the removal
\* and is merged after it does (server.go:328, 436-437).
RemovedStaysRemoved == \A p \in projects : fate[p] # "gone"
=============================================================================
