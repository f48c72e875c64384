--------------------------- MODULE SessionManager ---------------------------
(***************************************************************************)
(* The session manager (internal/session/manager.go) and the session store *)
(* it persists (internal/session/store.go): Create and Kill calls, the     *)
(* cleanup loop, Manager.Close, and crashes with the restart that follows. *)
(*                                                                         *)
(* Actor s makes the Create call whose session gets id s and, later, a     *)
(* Kill call on it.  "cleanup" is the loop and "main" the goroutine that   *)
(* opens and closes the manager.  holder is the owner of sessionsMu;       *)
(* Store.mu is held for reading by every actor that is writing the file.   *)
(***************************************************************************)
EXTENDS Naturals, FiniteSets

CONSTANTS
  Sessions,    (* session ids: fresh UUIDs, so each is used once            *)
  MaxSessions, (* the configured limit of live sessions                     *)
  MaxCrashes   (* bound of the model: crashes that may happen               *)

ASSUME ManagerAssumption ==
  /\ IsFiniteSet(Sessions)
  /\ Sessions \cap {"cleanup", "main", "nobody"} = {}
  /\ MaxSessions \in Nat \ {0}
  /\ MaxCrashes \in Nat

VARIABLES
  pc,        (* program counter of each actor                               *)
  holder,    (* owner of sessionsMu, or "nobody"                            *)
  sessions,  (* Manager.sessions                                            *)
  life,      (* each session: none, live, ended, closing or closed          *)
  closed,    (* Manager.closed                                              *)
  batch,     (* sessions the cleanup loop took out and has still to close   *)
  toMark,    (* sessions Manager.Close has closed and has still to mark     *)
  records,   (* Store.records: the status of each session, or "none"        *)
  deleted,   (* sessions whose log file retention has deleted               *)
  toDelete,  (* sessions whose log it is about to delete                    *)
  snap,      (* what each actor's Save has marshalled                       *)
  disk,      (* sessions.json                                               *)
  crashes    (* crashes so far                                              *)

memVars   == <<holder, sessions, life, closed>>
loopVars  == <<batch, toMark, toDelete>>
storeVars == <<records, snap, disk>>
vars == <<pc, memVars, loopVars, storeVars, deleted, crashes>>

Actors == Sessions \cup {"cleanup", "main"}

Goto(a, to) == pc' = [pc EXCEPT ![a] = to]

Init ==
  /\ pc = [a \in Actors |-> IF a = "main" THEN "load" ELSE "new"]
  /\ holder = "nobody" /\ sessions = {} /\ closed = FALSE
  /\ life = [s \in Sessions |-> "none"]
  /\ batch = {} /\ toMark = {} /\ toDelete = {} /\ deleted = {}
  /\ records = [s \in Sessions |-> "none"]
  /\ disk = records /\ snap = [a \in Actors |-> records]
  /\ crashes = 0

-----------------------------------------------------------------------------
(* The store *)

\* Where each Save call goes on: the write, and what follows it.
Write == [createSave |-> "createWrite", killSave |-> "killWrite", batchSave |-> "batchWrite",
          retentionSave |-> "retentionWrite", againSave |-> "againWrite",
          bootSave |-> "bootWrite", closeSave |-> "closeWrite"]

Written == [createWrite |-> "created", killWrite |-> "killed", batchWrite |-> "retention",
            retentionWrite |-> "againSave", againWrite |-> "waiting",
            bootWrite |-> "startLoop", closeWrite |-> "stopped"]

\* Mutation: Save gives Store.mu back once it has marshalled the records.
AlwaysMayUpdate == TRUE

\* A change to the records needs Store.mu for itself.
MayUpdate == \A a \in Actors : pc[a] \notin DOMAIN Written

\* Store.MarkEnded: a record that is not there stays away.
MarkEnded(ids) ==
  /\ MayUpdate
  /\ records' = [s \in Sessions |->
       IF s \in ids /\ records[s] # "none" THEN "ended" ELSE records[s]]

\* Store.Save takes the read lock and marshals ...
BeginSave(a) ==
  /\ pc[a] \in DOMAIN Write
  /\ snap' = [snap EXCEPT ![a] = records]
  /\ Goto(a, Write[pc[a]])
  /\ UNCHANGED <<memVars, loopVars, records, disk, deleted, crashes>>

\* ... and renames the new file into place.  Create returns here, which frees sessionsMu.
EndSave(a) ==
  /\ pc[a] \in DOMAIN Written
  /\ disk' = snap[a]
  /\ Goto(a, Written[pc[a]])
  /\ holder' = IF holder = a THEN "nobody" ELSE holder
  /\ UNCHANGED <<sessions, life, closed, loopVars, records, snap, deleted, crashes>>

-----------------------------------------------------------------------------
(* Create and Kill *)

Live == {s \in sessions : life[s] = "live"}

Booted == pc["main"] \notin {"load", "stale", "bootSave", "bootWrite", "startLoop"}

\* Mutation: the checks are made without the lock.
CheckUnlocked(s) ==
  /\ pc[s] = "new" /\ Booted
  /\ IF closed \/ Cardinality(Live) >= MaxSessions
     THEN Goto(s, "refused") ELSE Goto(s, "starting")
  /\ UNCHANGED <<memVars, loopVars, storeVars, deleted, crashes>>

\* Create locks sessionsMu, which it keeps to the end, and makes its checks.
LockForCreate(s) ==
  /\ pc[s] = "new" /\ Booted
  /\ holder = "nobody"
  /\ IF closed \/ Cardinality(Live) >= MaxSessions
     THEN Goto(s, "refused") /\ UNCHANGED holder
     ELSE Goto(s, "starting") /\ holder' = s
  /\ UNCHANGED <<sessions, life, closed, loopVars, storeVars, deleted, crashes>>

\* StartPTY fails: nothing is registered.
StartFails(s) ==
  /\ pc[s] = "starting"
  /\ Goto(s, "refused") /\ holder' = "nobody"
  /\ UNCHANGED <<sessions, life, closed, loopVars, storeVars, deleted, crashes>>

\* Mutation: sessionsMu is released once the session is in the map.
StartAndUnlock(s) ==
  /\ pc[s] = "starting"
  /\ life' = [life EXCEPT ![s] = "live"]
  /\ sessions' = sessions \cup {s} /\ holder' = "nobody"
  /\ Goto(s, "adding")
  /\ UNCHANGED <<closed, loopVars, storeVars, deleted, crashes>>

StartSession(s) ==
  /\ pc[s] = "starting"
  /\ life' = [life EXCEPT ![s] = "live"]
  /\ sessions' = sessions \cup {s}
  /\ Goto(s, "adding")
  /\ UNCHANGED <<holder, closed, loopVars, storeVars, deleted, crashes>>

AddRecord(s) ==
  /\ pc[s] = "adding" /\ MayUpdate
  /\ records' = [records EXCEPT ![s] = "idle"]
  /\ Goto(s, "createSave")
  /\ UNCHANGED <<memVars, loopVars, snap, disk, deleted, crashes>>

\* The process exits by itself: the reader calls markDone.
ProcessExits(s) ==
  /\ life[s] = "live"
  /\ life' = [life EXCEPT ![s] = "ended"]
  /\ UNCHANGED <<pc, holder, sessions, closed, loopVars, storeVars, deleted, crashes>>

\* Kill takes the session out of the map, unless somebody else did.
Kill(s) ==
  /\ pc[s] = "created" /\ holder = "nobody"
  /\ sessions' = sessions \ {s}
  /\ Goto(s, IF s \in sessions THEN "killing" ELSE "notFound")
  /\ UNCHANGED <<holder, life, closed, loopVars, storeVars, deleted, crashes>>

KillMark(s) ==
  /\ pc[s] = "killing" /\ life[s] = "closed"
  /\ MarkEnded({s})
  /\ Goto(s, "killSave")
  /\ UNCHANGED <<memVars, loopVars, snap, disk, deleted, crashes>>

-----------------------------------------------------------------------------
(* Session.Close *)

\* The sessions somebody has called Close on: Kill, the loop (one at a time) and
\* Manager.Close (all of the map).
Doomed ==
  {s \in Sessions : pc[s] = "killing"}
    \cup (IF \E s \in batch : life[s] \in {"closing", "closed"} THEN {} ELSE batch)
    \cup (IF pc["main"] = "sweeping" THEN sessions ELSE {})

\* closeOnce: the first caller does the work, the others wait for it.
BeginClose(s) ==
  /\ s \in Doomed /\ life[s] \in {"live", "ended"}
  /\ life' = [life EXCEPT ![s] = "closing"]
  /\ UNCHANGED <<pc, holder, sessions, closed, loopVars, storeVars, deleted, crashes>>

\* The reader is gone or given up, the channels and the log are closed.
FinishClose(s) ==
  /\ life[s] = "closing"
  /\ life' = [life EXCEPT ![s] = "closed"]
  /\ UNCHANGED <<pc, holder, sessions, closed, loopVars, storeVars, deleted, crashes>>

-----------------------------------------------------------------------------
(* The cleanup loop *)

\* Mutation: only the idle timeout is looked at.
TimedOutOnly == {idle \in SUBSET sessions : \A s \in idle : life[s] = "live"}

\* What a tick may take out: the ended sessions, and any that have been idle too long.
Reapable == {out \in SUBSET sessions : \A s \in sessions : life[s] # "live" => s \in out}

Tick ==
  /\ pc["cleanup"] = "waiting"
  /\ Goto("cleanup", "locking")
  /\ UNCHANGED <<memVars, loopVars, storeVars, deleted, crashes>>

TakeOut ==
  /\ pc["cleanup"] = "locking" /\ holder = "nobody"
  /\ batch' \in Reapable
  /\ sessions' = sessions \ batch'
  /\ Goto("cleanup", IF batch' = {} THEN "retention" ELSE "batch")
  /\ UNCHANGED <<holder, life, closed, toMark, toDelete, storeVars, deleted, crashes>>

BatchMark(s) ==
  /\ pc["cleanup"] = "batch" /\ s \in batch /\ life[s] = "closed"
  /\ MarkEnded({s})
  /\ batch' = batch \ {s}
  /\ Goto("cleanup", IF batch' = {} THEN "batchSave" ELSE "batch")
  /\ UNCHANGED <<memVars, toMark, toDelete, snap, disk, deleted, crashes>>

\* Store.Cleanup forgets ended records that are old enough ...
Retention ==
  /\ pc["cleanup"] = "retention" /\ MayUpdate
  /\ toDelete' \in SUBSET {s \in Sessions : records[s] = "ended"}
  /\ records' = [s \in Sessions |-> IF s \in toDelete' THEN "none" ELSE records[s]]
  /\ Goto("cleanup", IF toDelete' = {} THEN "waiting" ELSE "deleting")
  /\ UNCHANGED <<memVars, batch, toMark, snap, disk, deleted, crashes>>

\* ... and deletes their logs outside the lock, before it saves.
DeleteLogs ==
  /\ pc["cleanup"] = "deleting"
  /\ deleted' = deleted \cup toDelete /\ toDelete' = {}
  /\ Goto("cleanup", "retentionSave")
  /\ UNCHANGED <<memVars, batch, toMark, storeVars, crashes>>

\* The loop sees m.done; a tick that is ready at the same time may win the select.
LoopExits ==
  /\ pc["cleanup"] = "waiting" /\ closed
  /\ Goto("cleanup", "exited")
  /\ UNCHANGED <<memVars, loopVars, storeVars, deleted, crashes>>

-----------------------------------------------------------------------------
(* Opening, closing, crashing *)

Load ==
  /\ pc["main"] = "load"
  /\ records' = disk
  /\ Goto("main", "stale")
  /\ UNCHANGED <<memVars, loopVars, snap, disk, deleted, crashes>>

\* Mutation: the records of the previous daemon are left as they are.
KeepStale ==
  /\ pc["main"] = "stale"
  /\ Goto("main", "bootSave")
  /\ UNCHANGED <<memVars, loopVars, storeVars, deleted, crashes>>

\* Whatever the previous daemon left running or idle has ended.
MarkStale ==
  /\ pc["main"] = "stale"
  /\ MarkEnded(Sessions)
  /\ Goto("main", "bootSave")
  /\ UNCHANGED <<memVars, loopVars, snap, disk, deleted, crashes>>

StartLoop ==
  /\ pc["main"] = "startLoop"
  /\ pc' = [pc EXCEPT !["main"] = "serving", !["cleanup"] = "waiting"]
  /\ UNCHANGED <<memVars, loopVars, storeVars, deleted, crashes>>

\* Manager.Close: closed is set and m.done closed.
CloseManager ==
  /\ pc["main"] = "serving"
  /\ closed' = TRUE
  /\ Goto("main", "waitLoop")
  /\ UNCHANGED <<holder, sessions, life, loopVars, storeVars, deleted, crashes>>

\* Mutation: the loop is not waited for.
SweepAtOnce ==
  /\ pc["main"] = "waitLoop" /\ holder = "nobody"
  /\ holder' = "main" /\ Goto("main", "sweeping")
  /\ UNCHANGED <<sessions, life, closed, loopVars, storeVars, deleted, crashes>>

\* wg.Wait, then sessionsMu for as long as the sessions take to close.
Sweep ==
  /\ pc["main"] = "waitLoop" /\ pc["cleanup"] = "exited" /\ holder = "nobody"
  /\ holder' = "main" /\ Goto("main", "sweeping")
  /\ UNCHANGED <<sessions, life, closed, loopVars, storeVars, deleted, crashes>>

\* All are closed; they stay in the map.
EndSweep ==
  /\ pc["main"] = "sweeping" /\ \A s \in sessions : life[s] = "closed"
  /\ holder' = "nobody" /\ toMark' = sessions
  /\ Goto("main", "marking")
  /\ UNCHANGED <<sessions, life, closed, batch, toDelete, storeVars, deleted, crashes>>

MarkSwept ==
  /\ pc["main"] = "marking"
  /\ IF toMark = {}
     THEN Goto("main", "closeSave") /\ UNCHANGED <<records, toMark>>
     ELSE \E s \in toMark : MarkEnded({s}) /\ toMark' = toMark \ {s} /\ UNCHANGED pc
  /\ UNCHANGED <<memVars, batch, toDelete, snap, disk, deleted, crashes>>

\* The daemon dies, its children with it; a new one starts from the file.
Crash ==
  /\ crashes < MaxCrashes
  /\ crashes' = crashes + 1
  /\ pc' = [a \in Actors |->
       CASE a = "main" -> "load"
         [] a = "cleanup" -> "new"
         [] OTHER -> IF pc[a] \in {"new", "killed"} THEN pc[a] ELSE "lost"]
  /\ holder' = "nobody" /\ sessions' = {} /\ closed' = FALSE
  /\ life' = [s \in Sessions |-> IF life[s] = "none" THEN "none" ELSE "closed"]
  /\ batch' = {} /\ toMark' = {} /\ toDelete' = {}
  /\ records' = [s \in Sessions |-> "none"]
  /\ UNCHANGED <<snap, disk, deleted>>

-----------------------------------------------------------------------------
(* The specification *)

Cleanup == Tick \/ TakeOut \/ (\E s \in Sessions : BatchMark(s)) \/ Retention \/ DeleteLogs \/ LoopExits

Main == Load \/ MarkStale \/ StartLoop \/ Sweep \/ EndSweep \/ MarkSwept

Call(s) ==
  \/ StartFails(s) \/ StartSession(s) \/ AddRecord(s) \/ KillMark(s)
  \/ BeginClose(s) \/ FinishClose(s)

Next ==
  \/ Cleanup \/ Main \/ CloseManager \/ Crash
  \/ \E s \in Sessions : LockForCreate(s) \/ ProcessExits(s) \/ Kill(s) \/ Call(s)
  \/ \E a \in Actors : BeginSave(a) \/ EndSave(a)

\* Started work goes on, the ticker ticks, and the loop does not miss m.done for ever:
\* the ticker is stopped before it closes.  Calls and exits may never come.
Fairness ==
  /\ WF_vars(Main) /\ WF_vars(Cleanup) /\ SF_vars(LoopExits)
  /\ \A s \in Sessions : WF_vars(Call(s))
  /\ \A a \in Actors : WF_vars(BeginSave(a) \/ EndSave(a))

Spec == Init /\ [][Next]_vars /\ Fairness
-----------------------------------------------------------------------------
(* Properties *)

CallSteps == {"new", "refused", "starting", "adding", "createSave", "createWrite", "created",
              "killing", "notFound", "killSave", "killWrite", "killed", "lost"}

LoopSteps == {"new", "waiting", "locking", "batch", "batchSave", "batchWrite", "retention",
              "deleting", "retentionSave", "retentionWrite", "againSave", "againWrite", "exited"}

MainSteps == {"load", "stale", "bootSave", "bootWrite", "startLoop", "serving", "waitLoop",
              "sweeping", "marking", "closeSave", "closeWrite", "stopped"}

StoreContent == [Sessions -> {"none", "idle", "ended"}]

\* Types, and who owns sessionsMu: a Create from its checks to its return, or
\* Manager.Close while it closes every session (manager.go:230-307, 543-559).
TypeOK ==
  /\ pc \in [Actors -> CallSteps \cup LoopSteps \cup MainSteps]
  /\ \A s \in Sessions : pc[s] \in CallSteps
  /\ pc["cleanup"] \in LoopSteps /\ pc["main"] \in MainSteps
  /\ holder \in Actors \cup {"nobody"}
  /\ \A s \in Sessions :
       holder = s <=> pc[s] \in {"starting", "adding", "createSave", "createWrite"}
  /\ holder = "main" <=> pc["main"] = "sweeping"
  /\ sessions \subseteq Sessions
  /\ life \in [Sessions -> {"none", "live", "ended", "closing", "closed"}]
  /\ closed \in BOOLEAN
  /\ batch \subseteq Sessions /\ toMark \subseteq Sessions /\ toDelete \subseteq Sessions
  /\ records \in StoreContent /\ disk \in StoreContent
  /\ snap \in [Actors -> StoreContent]
  /\ deleted \subseteq Sessions
  /\ crashes \in 0 .. MaxCrashes

\* The limit counts live sessions, however many Create calls race (manager.go:239-258).
LiveWithinLimit == Cardinality(Live) <= MaxSessions

\* A session is either rejected at Create or included in Close's sweep, "never leaked"
\* (manager.go:234-236); a Kill already under way closes its own.
NothingLeaks ==
  pc["main"] \in {"marking", "closeSave", "closeWrite", "stopped"} =>
    \A s \in Sessions : life[s] \in {"live", "ended", "closing"} => pc[s] = "killing"

\* A record says a session is not over only while somebody who will mark it still has
\* it: the map, the loop, a Kill, the sweep.  Then no record stays open for ever, not
\* even one a crashed daemon left (manager.go:101-111, 282-291, 454-490).
OpenRecordHasOwner ==
  \A s \in Sessions : Booted /\ records[s] = "idle" =>
    \/ s \in sessions /\ pc["main"] \notin {"closeSave", "closeWrite", "stopped"}
    \/ s \in batch \/ s \in toMark \/ pc[s] = "killing"

\* Retention deletes a log only after the session that writes it was closed, though it
\* looks at nothing but the record (store.go:250-281, manager.go:185-192).
LogsOutliveSessions ==
  \A s \in deleted \cup toDelete : life[s] = "closed"

\* No session and no record is left without somebody who will end it, and no session is
\* left without the log it writes.
EverySessionHasOwner == NothingLeaks /\ OpenRecordHasOwner /\ LogsOutliveSessions

\* Saves by several goroutines never put an older state over a newer one: on disk a
\* session that has ended never runs again (store.go:99-125).
DiskNeverGoesBack ==
  [][\A s \in Sessions : disk[s] = "ended" => disk'[s] # "idle"]_disk

\* What Kill has reported survives: its record is ended on disk, in every later daemon
\* too, until retention forgets it (manager.go:478-488).
KillIsDurable == \A s \in Sessions : pc[s] = "killed" => disk[s] # "idle"

\* A stopped daemon leaves no session that seems to run (manager.go:551-566).
StopIsDurable ==
  pc["main"] = "stopped" =>
    \A s \in Sessions : disk[s] = "idle" => pc[s] \in {"killing", "killSave", "killWrite"}

\* No session that was ended, by one Kill or by the stop of all, seems to run later.
EndIsDurable == KillIsDurable /\ StopIsDurable

\* A session whose process is gone leaves the map at a later tick (manager.go:142-182).
EndedIsRemoved ==
  \A s \in Sessions : s \in sessions /\ life[s] = "ended" ~> s \notin sessions \/ closed

\* Manager.Close returns: it waits for the loop before it takes the lock the loop
\* needs (manager.go:532-543).
CloseReturns == pc["main"] = "waitLoop" ~> pc["main"] \in {"stopped", "load"}

\* The cleanup loop gets its work done, and does not stop Close from doing its own.
ManagerGetsOn == EndedIsRemoved /\ CloseReturns
=============================================================================
