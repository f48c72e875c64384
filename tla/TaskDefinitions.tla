--------------------------- MODULE TaskDefinitions ---------------------------
(* Task definitions: the task store (internal/task/store.go) and the calls of *)
(* TaskService that change it (internal/server/server.go). Each method of the *)
(* store is one step, as it holds the store's mutex: a call is two or three   *)
(* of them, and an Update is judged by the task and the registry it read      *)
(* before. Save writes what the store holds under its read lock.              *)
(*                                                                            *)
(* A task is its scope, its project and, for its other fields, the number of  *)
(* changes made to it. What a call refuses by its request alone (an empty     *)
(* name, an unknown tool, a global or interactive task) never gets this far.  *)
EXTENDS Naturals

CONSTANTS
  Tasks,      \* ids: each of one Create call, and of one Delete call
  Updates,    \* Update calls
  Projects,
  MaxCrashes  \* bound

NoProject == "none"
Keep == "keep"  \* a field that an Update leaves as it is
Scopes == {"system", "project"}
Calls == ({"create", "delete"} \X Tasks) \cup ({"update"} \X Updates)
Never == [exists |-> FALSE, scope |-> "system", project |-> NoProject, changes |-> 0]

VARIABLES
  tasks,       \* Store.tasks, by id
  file,        \* tasks.json
  registered,  \* the projects that the registry holds
  pc,          \* of each call: new, read, saving, answered, refused, lost
  patch,       \* of each Update: [task, scope, project]
  made,        \* of each call, which change of its task it made; 0 for none
  crashes

vars == <<tasks, file, registered, pc, patch, made, crashes>>

Init ==
  /\ tasks = [t \in Tasks |-> Never] /\ file = tasks
  /\ registered = Projects
  /\ pc = [c \in Calls |-> "new"]
  /\ patch = [u \in Updates |-> [task |-> Keep, scope |-> Keep, project |-> Keep]]
  /\ made = [c \in Calls |-> 0]
  /\ crashes = 0

TaskOf(c) == IF c[1] = "update" THEN patch[c[2]].task ELSE c[2]
Goto(c, step) == pc' = [pc EXCEPT ![c] = step]

\* Store.Create, Update and Delete: call c leaves task t so, and is to save it.
Change(c, t, exists, scope, project) ==
  /\ tasks' = [tasks EXCEPT ![t] = [exists |-> exists, scope |-> scope,
                                    project |-> project, changes |-> @.changes + 1]]
  /\ made' = [made EXCEPT ![c] = tasks[t].changes + 1]
  /\ Goto(c, "saving")

\* Only a task of a project is asked for its project.
Create(t) ==
  LET c == <<"create", t>> IN
  /\ pc[c] = "new"
  /\ \E scope \in Scopes, project \in Projects \cup {NoProject} :
       /\ scope = "project" => project \in registered
       /\ Change(c, t, TRUE, scope, project)
  /\ UNCHANGED <<file, registered, patch, crashes>>

\* Update reads the task, and refuses the request or makes its patch: a task
\* that is, or becomes, one of the system loses its project.
Read(u) ==
  /\ pc[<<"update", u>>] = "new"
  /\ \E t \in Tasks, scope \in Scopes \cup {Keep}, named \in Projects \cup {NoProject, Keep} :
       LET old == tasks[t]
           becomes == IF scope = Keep THEN old.scope ELSE scope
           project == IF named = Keep THEN old.project ELSE named
       IN /\ old.exists
          /\ IF becomes = "project" THEN project \in registered
             ELSE named \in {NoProject, Keep}
          /\ patch' = [patch EXCEPT ![u] = [task |-> t, scope |-> scope,
               project |-> IF becomes = "system" /\ project # NoProject
                           THEN NoProject ELSE named]]
  /\ Goto(<<"update", u>>, "read")
  /\ UNCHANGED <<tasks, file, registered, made, crashes>>

\* ... and the store merges it into the task as it is by now.
Merged(old, new) == IF new = Keep THEN old ELSE new
Merge(u) ==
  LET c == <<"update", u>>
      p == patch[u]
      t == tasks[p.task]
  IN /\ pc[c] = "read"
     /\ IF t.exists
        THEN Change(c, p.task, TRUE, Merged(t.scope, p.scope), Merged(t.project, p.project))
        ELSE Goto(c, "refused") /\ UNCHANGED <<tasks, made>>
     /\ UNCHANGED <<file, registered, patch, crashes>>

Delete(t) ==
  LET c == <<"delete", t>> IN
  /\ pc[c] = "new" /\ tasks[t].exists
  /\ Change(c, t, FALSE, "system", NoProject)
  /\ UNCHANGED <<file, registered, patch, crashes>>

\* Store.Save and the answer.
Save(c) ==
  /\ pc[c] = "saving"
  /\ file' = tasks
  /\ Goto(c, "answered")
  /\ UNCHANGED <<tasks, registered, patch, made, crashes>>

\* ProjectService.Remove, of a project that tasks may name.
RemoveProject(p) ==
  /\ p \in registered
  /\ registered' = registered \ {p}
  /\ UNCHANGED <<tasks, file, pc, patch, made, crashes>>

\* The daemon dies; the next one loads the file. Calls under way are lost.
CrashAndLoad ==
  /\ crashes < MaxCrashes
  /\ crashes' = crashes + 1
  /\ tasks' = file
  /\ pc' = [c \in Calls |-> IF pc[c] \in {"read", "saving"} THEN "lost" ELSE pc[c]]
  /\ UNCHANGED <<file, registered, patch, made>>

Next ==
  \/ \E t \in Tasks : Create(t) \/ Delete(t)
  \/ \E u \in Updates : Read(u) \/ Merge(u)
  \/ \E c \in Calls : Save(c)
  \/ \E p \in Projects : RemoveProject(p)
  \/ CrashAndLoad

Spec == Init /\ [][Next]_vars

Task == [exists : BOOLEAN, scope : Scopes, project : Projects \cup {NoProject}, changes : Nat]
TypeOK ==
  /\ tasks \in [Tasks -> Task] /\ file \in [Tasks -> Task]
  /\ registered \subseteq Projects
  /\ pc \in [Calls -> {"new", "read", "saving", "answered", "refused", "lost"}]
  /\ patch \in [Updates -> [task : Tasks \cup {Keep}, scope : Scopes \cup {Keep},
                            project : Projects \cup {NoProject, Keep}]]
  /\ made \in [Calls -> Nat]
  /\ crashes \in 0..MaxCrashes

\* Whatever crashes and whoever else saves, a change that a client was told of
\* (server.go, taskService) is in tasks.json, or a later one of its task is.
AnsweredIsOnDisk ==
  \A c \in Calls : pc[c] = "answered" => file[TaskOf(c)].changes >= made[c]

\* task/store.go, Task.ProjectID: "Required if scope == PROJECT". Two Updates
\* judged by the same task break it: one names the scope it has, the other takes
\* it to the system; the first one's scope is then merged without a project.
ProjectScopeHasProject ==
  \A t \in Tasks : tasks[t].exists /\ tasks[t].scope = "project"
                     => tasks[t].project # NoProject
=============================================================================
