---------------------------- MODULE TaskExecutor ----------------------------
(***************************************************************************)
(* Runs of one task: the TaskService calls Run, CancelRun and Delete       *)
(* (internal/server/server.go), the executor with one goroutine per run    *)
(* (internal/task/executor.go), the run store (internal/task/runs.go), the *)
(* processes of each run, the executor's Close, and crashes with the       *)
(* restart that follows.  Runs of different tasks meet only in Close.      *)
(*                                                                         *)
(* Run r is the call that creates it and then the goroutine that executes  *)
(* it.  Saves are one step: RunStore.Save is the same code as Store.Save,  *)
(* whose writers SessionManager interleaves.                               *)
(***************************************************************************)
EXTENDS Naturals, Sequences, FiniteSets

CONSTANTS
  Runs,       (* run ids: fresh UUIDs, one per Run call                     *)
  MaxRuns,    (* maxRunsPerTask                                             *)
  CancelRuns, (* bound of the model: the runs that a CancelRun call names   *)
  MaxCrashes  (* bound of the model: crashes that may happen                *)

ASSUME ExecutorAssumption ==
  /\ IsFiniteSet(Runs)
  /\ CancelRuns \subseteq Runs
  /\ MaxRuns \in Nat \ {0}
  /\ MaxCrashes \in Nat

VARIABLES
  status,     (* RunStore.runs: status of each run, or "none"               *)
  order,      (* RunStore.byTask of the task, newest first                  *)
  disk,       (* task_runs.json: order and status as last saved             *)
  pc,         (* program counter of each run                                *)
  ctx,        (* its context: live, cancelled or expired                    *)
  pgid,       (* runs whose process group id is published                   *)
  group,      (* its living processes: the leader and a child it left       *)
  registered, (* Executor.running                                           *)
  cancel,     (* program counter of each canceller of each run              *)
  owed,       (* how many Run and CancelRun calls have still to save        *)
  main,       (* the daemon: load, open, closing, waiting, saving, stopped  *)
  deleter,    (* program counter of TaskService.Delete: the task is in the  *)
              (* task store until it begins, and in tasks.json until        *)
              (* SaveDeletedTask                                            *)
  crashes     (* crashes so far; those before the start are none to come    *)

storeVars == <<status, order>>
runVars   == <<ctx, pgid, group>>
vars == <<storeVars, disk, pc, runVars, registered, cancel, owed, main, deleter,
          crashes>>

Active == {"pending", "running"}

\* CancelRun calls, and Executor.Close.
Cancellers == {"call", "close"} \X Runs

Init ==
  /\ status = [r \in Runs |-> "none"] /\ order = <<>>
  /\ disk = [status |-> status, order |-> order]
  /\ pc = [r \in Runs |-> "new"] /\ ctx = [r \in Runs |-> "live"]
  /\ pgid = {} /\ group = [r \in Runs |-> {}] /\ registered = {}
  /\ cancel = [k \in Cancellers |-> "no"] /\ owed = 0
  /\ main = "open" /\ deleter = "no" /\ crashes \in 0 .. MaxCrashes

Goto(r, to) == pc' = [pc EXCEPT ![r] = to]

-----------------------------------------------------------------------------
(* The run store *)

SetStatus(r, to) == status' = [status EXCEPT ![r] = to]

\* RunStore.Cancel: only a pending or running run becomes cancelled.
CancelRecord(r) == SetStatus(r, IF status[r] \in Active THEN "cancelled" ELSE status[r])

\* Mutation: the verdict replaces a cancellation already reported.
RecordAlways(r, to) == SetStatus(r, IF status[r] = "none" THEN "none" ELSE to)

\* RunStore.Complete and Fail: a deleted run stays away, a cancelled one keeps its status.
Record(r, to) == SetStatus(r, IF status[r] \in {"none", "cancelled"} THEN status[r] ELSE to)

\* Mutation: a pending run does not count.
RunningOnly == {r \in Runs : status[r] = "running"}

\* GetRunning: the active runs of the task.
ActiveRuns == {r \in Runs : status[r] \in Active}

\* Mutation: the pruned runs stay in the other index.
CreateHalfPruned(r) ==
  /\ order' = SubSeq(<<r>> \o order, 1, IF Len(order) < MaxRuns THEN Len(order) + 1 ELSE MaxRuns)
  /\ SetStatus(r, "pending")

\* RunStore.Create: newest first, and the oldest beyond the limit are pruned.
Create(r) ==
  /\ order' = SubSeq(<<r>> \o order, 1, IF Len(order) < MaxRuns THEN Len(order) + 1 ELSE MaxRuns)
  /\ status' = [q \in Runs |->
       IF q = r THEN "pending"
       ELSE IF \E i \in 1 .. Len(order') : order'[i] = q THEN status[q] ELSE "none"]

\* What is saved is read after a crash only: it is not kept when none can follow.
SaveRuns ==
  disk' = IF crashes < MaxCrashes THEN [status |-> status, order |-> order] ELSE disk

TaskStored == deleter = "no"

-----------------------------------------------------------------------------
(* Run *)

\* TaskService.Run and Executor.Run look the task up first.
LookUp(r) ==
  /\ pc[r] = "new" /\ main \notin {"load", "stopped"}
  /\ Goto(r, IF TaskStored THEN "found" ELSE "refused")
  /\ UNCHANGED <<storeVars, disk, runVars, registered, cancel, owed, main, deleter,
                 crashes>>

\* Under runningMu: closed, no active run, create, register.  The goroutine starts and
\* the call goes on to save the store.
Register(r) ==
  /\ pc[r] = "found"
  /\ IF main # "open" \/ ActiveRuns # {}
     THEN Goto(r, "refused") /\ UNCHANGED <<storeVars, registered, owed>>
     ELSE Create(r) /\ registered' = registered \cup {r} /\ Goto(r, "begin")
          /\ owed' = owed + 1
  /\ UNCHANGED <<disk, runVars, cancel, main, deleter, crashes>>

\* A Run or CancelRun call saves before it answers.
SaveCall ==
  /\ owed > 0
  /\ SaveRuns /\ owed' = owed - 1
  /\ UNCHANGED <<storeVars, pc, runVars, registered, cancel, main, deleter,
                 crashes>>

-----------------------------------------------------------------------------
(* executeTask *)

\* MarkRunning: a run cancelled (or deleted) before this never starts.
MarkRunning(r) ==
  /\ pc[r] = "begin"
  /\ IF status[r] = "pending"
     THEN SetStatus(r, "running") /\ Goto(r, "preparing")
     ELSE UNCHANGED status /\ Goto(r, "saving")
  /\ UNCHANGED <<order, disk, runVars, registered, cancel, owed, main, deleter,
                 crashes>>

\* The timeout passes; the context was cancelled at most once.
Expire(r) ==
  /\ pc[r] \in {"preparing", "starting", "publishing", "checking", "waiting", "draining"}
  /\ ctx[r] = "live"
  /\ ctx' = [ctx EXCEPT ![r] = "expired"]
  /\ UNCHANGED <<storeVars, disk, pc, pgid, group, registered, cancel, owed, main,
                 deleter, crashes>>

\* What a run whose context has ended is recorded as.
RecordEnd(r) == IF ctx[r] = "expired" THEN Record(r, "failed") ELSE CancelRecord(r)

\* The working directory is missing, or the PATH probe ends: endEarly for a context that
\* has ended by then.
Prepare(r) ==
  /\ pc[r] = "preparing"
  /\ \/ Record(r, "failed") /\ Goto(r, "saving")
     \/ ctx[r] # "live" /\ RecordEnd(r) /\ Goto(r, "saving")
     \/ ctx[r] = "live" /\ UNCHANGED status /\ Goto(r, "starting")
  /\ UNCHANGED <<order, disk, runVars, registered, cancel, owed, main, deleter, crashes>>

StartFails(r) ==
  /\ pc[r] = "starting"
  /\ Record(r, "failed") /\ Goto(r, "saving")
  /\ UNCHANGED <<order, disk, runVars, registered, cancel, owed, main, deleter,
                 crashes>>

StartProcess(r) ==
  /\ pc[r] = "starting"
  /\ group' = [group EXCEPT ![r] = {"leader"}]
  /\ Goto(r, "publishing")
  /\ UNCHANGED <<storeVars, disk, ctx, pgid, registered, cancel, owed, main, deleter,
                 crashes>>

SetPgid(r) ==
  /\ pc[r] = "publishing"
  /\ pgid' = pgid \cup {r} /\ Goto(r, "checking")
  /\ UNCHANGED <<storeVars, disk, ctx, group, registered, cancel, owed, main, deleter,
                 crashes>>

\* Mutation: only the leader is killed.
KillLeader(r) == group' = [group EXCEPT ![r] = IF r \in pgid THEN @ \ {"leader"} ELSE @]

\* killGroup: the whole group, if its id is known yet.
KillGroup(r) == group' = [group EXCEPT ![r] = IF r \in pgid THEN {} ELSE @]

\* A cancel that came too early to find the group is made good here.
CheckContext(r) ==
  /\ pc[r] = "checking"
  /\ IF ctx[r] = "live" THEN UNCHANGED group ELSE KillGroup(r)
  /\ Goto(r, "waiting")
  /\ UNCHANGED <<storeVars, disk, ctx, pgid, registered, cancel, owed, main, deleter,
                 crashes>>

\* The select: cmd.Wait returned ...
CmdDone(r) ==
  /\ pc[r] = "waiting" /\ "leader" \notin group[r]
  /\ Goto(r, "draining")
  /\ UNCHANGED <<storeVars, disk, runVars, registered, cancel, owed, main, deleter,
                 crashes>>

\* ... or the context ended, and the whole group is killed.
ContextDone(r) ==
  /\ pc[r] = "waiting" /\ ctx[r] # "live"
  /\ KillGroup(r) /\ Goto(r, "draining")
  /\ UNCHANGED <<storeVars, disk, ctx, pgid, registered, cancel, owed, main, deleter,
                 crashes>>

\* The PTY reads EOF when no process has it open; then the verdict is recorded.
Verdict(r) ==
  /\ pc[r] = "draining" /\ group[r] = {}
  /\ IF ctx[r] = "live" THEN \E to \in {"completed", "failed"} : Record(r, to) ELSE RecordEnd(r)
  /\ Goto(r, "saving")
  /\ UNCHANGED <<order, disk, runVars, registered, cancel, owed, main, deleter,
                 crashes>>

\* The deferred calls: save, cancel the context, unregister.  Only Cancel looks at
\* registered, and a run that has its final status is the same to it either way.
Leave(r) ==
  /\ pc[r] = "saving"
  /\ SaveRuns
  /\ ctx' = [ctx EXCEPT ![r] = IF @ = "live" THEN "cancelled" ELSE @]
  /\ registered' = registered \ {r} /\ Goto(r, "done")
  /\ UNCHANGED <<storeVars, pgid, group, cancel, owed, main, deleter, crashes>>

\* The command may leave a child behind, and exits; so may the child.
Fork(r) ==
  /\ "leader" \in group[r]
  /\ group' = [group EXCEPT ![r] = @ \cup {"child"}]
  /\ UNCHANGED <<storeVars, disk, pc, ctx, pgid, registered, cancel, owed, main,
                 deleter, crashes>>

Exit(r) ==
  /\ \E p \in group[r] : group' = [group EXCEPT ![r] = @ \ {p}]
  /\ UNCHANGED <<storeVars, disk, pc, ctx, pgid, registered, cancel, owed, main,
                 deleter, crashes>>

-----------------------------------------------------------------------------
(* Executor.Cancel and Executor.Close *)

Step(k, to) == cancel' = [cancel EXCEPT ![k] = to]

\* A run that is not registered is cancelled in the store, if there is anything to cancel.
CancelCall(r) ==
  /\ r \in CancelRuns /\ cancel[<<"call", r>>] = "no" /\ main \notin {"load", "stopped"}
  /\ pc[r] \notin {"new", "found", "refused", "lost"}
  /\ IF r \in registered
     THEN Step(<<"call", r>>, "store") /\ UNCHANGED <<status, owed>>
     ELSE /\ CancelRecord(r) /\ Step(<<"call", r>>, "refused")
          /\ owed' = IF status[r] \in Active THEN owed + 1 ELSE owed
  /\ UNCHANGED <<order, disk, pc, runVars, registered, main, deleter, crashes>>

\* Close goes through the registered runs one by one.
CancelStore(k) ==
  /\ cancel[k] = "store"
  /\ k[1] = "close" => \A r \in Runs : cancel[<<"close", r>>] \notin {"context", "kill"}
  /\ CancelRecord(k[2]) /\ Step(k, "context")
  /\ UNCHANGED <<order, disk, pc, runVars, registered, owed, main, deleter, crashes>>

CancelContext(k) ==
  /\ cancel[k] = "context"
  /\ ctx' = [ctx EXCEPT ![k[2]] = IF @ = "live" THEN "cancelled" ELSE @]
  /\ Step(k, "kill")
  /\ UNCHANGED <<storeVars, disk, pc, pgid, group, registered, owed, main, deleter,
                 crashes>>

CancelKill(k) ==
  /\ cancel[k] = "kill"
  /\ KillGroup(k[2]) /\ Step(k, "returned")
  /\ owed' = IF k[1] = "call" THEN owed + 1 ELSE owed
  /\ UNCHANGED <<storeVars, disk, pc, ctx, pgid, registered, main, deleter, crashes>>

\* Close refuses new runs and takes a snapshot of the registered ones.
Close ==
  /\ main = "open"
  /\ main' = "closing"
  /\ cancel' = [k \in Cancellers |->
       IF k[1] = "close" /\ k[2] \in registered THEN "store" ELSE cancel[k]]
  /\ UNCHANGED <<storeVars, disk, pc, runVars, registered, owed, deleter, crashes>>

\* All are cancelled; Close waits for the goroutines, or gives up after 3 s.
EndCancels ==
  /\ main = "closing"
  /\ \A r \in Runs : cancel[<<"close", r>>] \in {"no", "returned"}
  /\ main' = "waiting"
  /\ UNCHANGED <<storeVars, disk, pc, runVars, registered, cancel, owed, deleter,
                 crashes>>

\* Server.stop saves the store once Close has returned.
SaveStopped ==
  /\ main = "waiting"
  /\ SaveRuns /\ main' = "stopped"
  /\ UNCHANGED <<storeVars, pc, runVars, registered, cancel, owed, deleter,
                 crashes>>

-----------------------------------------------------------------------------
(* TaskService.Delete, crash and restart *)

DeleteTask ==
  /\ deleter = "no" /\ main \notin {"load", "stopped"}
  /\ deleter' = "runs"
  /\ UNCHANGED <<storeVars, disk, pc, runVars, registered, cancel, owed, main, crashes>>

DeleteRuns ==
  /\ deleter = "runs"
  /\ status' = [r \in Runs |-> "none"] /\ order' = <<>>
  /\ deleter' = "saveTask"
  /\ UNCHANGED <<disk, pc, runVars, registered, cancel, owed, main, crashes>>

SaveDeletedTask ==
  /\ deleter = "saveTask"
  /\ deleter' = "saveRuns"
  /\ UNCHANGED <<storeVars, disk, pc, runVars, registered, cancel, owed, main, crashes>>

SaveDeletedRuns ==
  /\ deleter = "saveRuns"
  /\ SaveRuns /\ deleter' = "deleted"
  /\ UNCHANGED <<storeVars, pc, runVars, registered, cancel, owed, main, crashes>>

\* The daemon dies and the processes of its runs with it.
Crash ==
  /\ crashes < MaxCrashes /\ main # "load"
  /\ crashes' = crashes + 1 /\ main' = "load"
  /\ pc' = [r \in Runs |-> IF pc[r] \in {"new", "done"} THEN pc[r] ELSE "lost"]
  /\ ctx' = [r \in Runs |-> "live"] /\ pgid' = {} /\ group' = [r \in Runs |-> {}]
  /\ registered' = {} /\ owed' = 0 /\ cancel' = [k \in Cancellers |-> "no"]
  /\ deleter' = IF deleter \in {"saveRuns", "deleted"} THEN "deleted" ELSE "no"
  /\ UNCHANGED <<storeVars, disk>>

\* RunStore.Load: what was saved pending or running has failed.
Load ==
  /\ main = "load"
  /\ status' = [r \in Runs |-> IF disk.status[r] \in Active THEN "failed" ELSE disk.status[r]]
  /\ order' = disk.order /\ main' = "open"
  /\ UNCHANGED <<disk, pc, runVars, registered, cancel, owed, deleter, crashes>>

-----------------------------------------------------------------------------
(* The specification *)

Execute(r) ==
  \/ MarkRunning(r) \/ Prepare(r) \/ StartFails(r) \/ StartProcess(r)
  \/ SetPgid(r) \/ CheckContext(r) \/ CmdDone(r) \/ ContextDone(r) \/ Verdict(r)
  \/ Leave(r)

Cancelling(k) == CancelStore(k) \/ CancelContext(k) \/ CancelKill(k)

Closing == EndCancels \/ SaveStopped \/ Load

Deleting == DeleteRuns \/ SaveDeletedTask \/ SaveDeletedRuns

Next ==
  \/ \E r \in Runs : LookUp(r) \/ Register(r) \/ Execute(r) \/ Expire(r) \/ Fork(r) \/ Exit(r)
                     \/ CancelCall(r)
  \/ \E k \in Cancellers : Cancelling(k)
  \/ SaveCall \/ Close \/ Closing \/ DeleteTask \/ Deleting \/ Crash

\* Goroutines that can run do.  Calls, expiry and the exit of a process may not come.
Fairness ==
  /\ \A r \in Runs : WF_vars(Execute(r))
  /\ \A k \in Cancellers : WF_vars(Cancelling(k))
  /\ WF_vars(Closing) /\ WF_vars(Deleting)

Spec == Init /\ [][Next]_vars /\ Fairness
-----------------------------------------------------------------------------
(* Properties *)

Steps == {"new", "found", "refused", "begin", "preparing", "starting", "publishing",
          "checking", "waiting", "draining", "saving", "done", "lost"}

Statuses == {"none", "pending", "running", "completed", "failed", "cancelled"}

Listed(s) == {s[i] : i \in 1 .. Len(s)}

\* Types, and the two indexes of the run store agree: byTask lists each stored run once
\* and never more than maxRunsPerTask (runs.go:56-62, 357-379).
TypeOK ==
  /\ status \in [Runs -> Statuses] /\ disk.status \in [Runs -> Statuses]
  /\ order \in Seq(Runs) /\ disk.order \in Seq(Runs)
  /\ Len(order) <= MaxRuns /\ Cardinality(Listed(order)) = Len(order)
  /\ Listed(order) = {r \in Runs : status[r] # "none"}
  /\ pc \in [Runs -> Steps]
  /\ ctx \in [Runs -> {"live", "cancelled", "expired"}]
  /\ pgid \subseteq Runs /\ registered \subseteq Runs
  /\ group \in [Runs -> SUBSET {"leader", "child"}]
  /\ cancel \in [Cancellers -> {"no", "store", "context", "kill", "returned", "refused"}]
  /\ owed \in Nat
  /\ main \in {"load", "open", "closing", "waiting", "stopped"}
  /\ deleter \in {"no", "runs", "saveTask", "saveRuns", "deleted"}
  /\ crashes \in 0 .. MaxCrashes

Executing == {"begin", "preparing", "starting", "publishing", "checking", "waiting", "draining"}

\* Until it is deleted, a task has one run at most that is under way and has not been
\* cancelled, pending ones included; one that was pruned from the store would count too
\* (executor.go:142-158, runs.go:328-331).
OneActiveRun ==
  TaskStored =>
    Cardinality({r \in Runs : /\ pc[r] \in Executing
                              /\ \A k \in Cancellers : k[2] = r => cancel[k] \in {"no", "store"}}) <= 1

\* An active run has a goroutine that will end it: otherwise it "would block its task
\* (GetRunning) forever" (runs.go:120-128).
ActiveIsExecuting ==
  \A r \in ActiveRuns : main # "load" =>
    r \in registered /\ pc[r] \in Executing

\* Once Close has been through the registered runs none is active, whatever the waiting
\* for their goroutines brings (executor.go:447-467).
StoppedIsIdle == main \in {"waiting", "stopped"} => ActiveRuns = {}

\* A task never has two runs under way, and a stopped executor has none.
RunsAreAccounted == OneActiveRun /\ StoppedIsIdle

\* A final status is final until the record goes: a cancellation that was reported is not
\* replaced by the verdict on the killed process (runs.go:240-266).  (A crash goes back to
\* what was last saved.)
FinalIsFinal ==
  [][main # "load" =>
       \A r \in Runs : status[r] \in {"completed", "failed", "cancelled"} =>
                         status'[r] \in {status[r], "none"}]_status

\* A cancellation takes its run all the way down: no process is left, not even one that
\* was started or forked while the cancel was under way, and the goroutine has recorded
\* the end and gone (executor.go:186-206, 310-316, 374-391).
CancelCompletes ==
  \A k \in Cancellers : cancel[k] = "returned" ~>
    \/ cancel[k] = "no"  \* after a crash
    \/ group[k[2]] = {} /\ pc[k[2]] = "done"

\* "Timeout or cancelled -- kill the entire process group" (executor.go:374): a run whose
\* timeout has passed is over in the end.
TimeoutEndsRun == \A r \in Runs : ctx[r] = "expired" ~> status[r] \notin Active
=============================================================================
