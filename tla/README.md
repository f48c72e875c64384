# A TLA+ development of hqsshd

hqsshd is a daemon that runs interactive AI-tool sessions and batch tasks on
PTYs and serves them over gRPC: to a CLI, `hqssh`, through a Unix socket and to a
mobile app through a TCP port that is tunnelled over SSH. This directory models
the daemon and the parts of the CLI that have something to get wrong in TLA+,
checks the models with TLC on small instances and proves theorems about
most of them with TLAPS. Source lines below are relative to `src/`;
`PROJECT.json` maps every definition to the lines it stands for.

## 1. Inventory

The daemon (paths under `internal/`):

| Component | State | Operations | Modelled in |
|---|---|---|---|
| Output of a session (`session/session.go`, `pty.go`, Attach in `server/server.go`) | scrollback, clients and their channels, gap flags, status, `done` | read the PTY, broadcast, attach, deliver, detach, close | `OutputStream`, which implements `OutputPromise`; `OutputStreamProofs` |
| Its terminal (`session/pty.go`, `manager.go`) | size, pending repaint | Resize, attach, SignalRepaint, repaint after a gap | `Repaint` |
| Its process (`session/pty.go`) | process group, PTY, reader, escalation | Create, Input, Kill, Close | `SessionProcess` |
| Session manager and store (`session/manager.go`, `store.go`) | map of sessions, `closed`, `sessions.json` | Create, Kill, cleanup loop, retention, Close, load | `SessionManager` |
| Session log (`session/logger.go`) | buffer, log and `.gz` | Write, flush, Close, compress, DeleteLog, GetSessionLog | `SessionLog` |
| Bells and modes (`session/bell.go`, `modes.go`) | automata over output | process, preamble | `BellDetector`, `ModeTracker` |
| Event hub (`session/events.go`), WatchEvents, webhook (`notify/webhook.go`) | subscribers, channels | Publish, Subscribe, Unsubscribe, Close; the order of Stop | `EventHub` |
| Task executor and run store (`task/executor.go`, `runs.go`) | runs, contexts, process groups, `task_runs.json` | Run, CancelRun, Delete, execute, Close, load | `TaskExecutor` |
| Task definitions (`task/store.go`) | tasks, `tasks.json` | Create, Update, Delete, project removal | `TaskDefinitions` |
| Projects (`project/`) | registry, removed paths, scan roots, two files | List with rescan, Discover, Add, Remove, load, save | `Projects` |
| Lifecycle (`server/lifecycle.go`, `pidfile`, `cmd/hqsshd/main.go`) | pidfile and its lock, socket path, TCP port, `Server.mu` | start, Listen, Serve, retryTCP, Stop | `Daemon` |
| Atomic files (`fsutil/atomic.go`) | temp files, target | write, sync, rename, sweep | `AtomicFile`, which implements `Register` |
| Tool detector (`tools/detector.go`) | cache, detection in flight | DetectAll, Warm | `ToolDetector` |
| External sessions (`procscan/`) | the process table | scan, verified kill | `ExternalSessions` |

The command line (`internal/cli`, `doctor`, `servicemgr`):

| Component | State | Operations | Modelled in |
|---|---|---|---|
| Settings and authentication (`cli/config`, `cli/client`) | sources of each setting | Resolve, buildSSHConfig | `Connection` |
| SSH tunnel (`cli/client/client.go`) | SSH client, listener, connections | connect with retry, forward, copy, Close | `Tunnel` |
| Attach (`cli/cmd/helpers.go`) | two goroutines, the chord scanner | keys, detach, end | `AttachCommand` |
| run, cancel, kill (`cli/cmd`) | one call or a polling loop | resolve, act, wait, interrupt | `RunCommand` |
| Service control (`servicemgr`) | launchd's job in two domains | start, stop, restart | `ServiceControl` |
| Doctor (`doctor/`) | what checks found | fourteen checks | `Doctor` |
| Other listings, daemon configuration, logging, scripts | none that is shared | sequential | not modelled |

How they interact. The server owns one session manager, one executor, one event
hub and the stores, and `Stop` closes them in order. Each live session has a
reader goroutine, which feeds the log, the bell detector and the mode tracker and
broadcasts to the channels of attached clients; each Attach call is a gRPC
handler that drains one such channel. The cleanup loop, `Kill` and
`Manager.Close` all end sessions through `Session.Close`, and a session's end is
an event of the hub. A run of a task is a goroutine, a process group and a
record. All stores save through `WriteFileAtomic`. Processes of hqsshd itself
meet at the pidfile, the socket path and the port, where the doctor looks for
them and launchd starts them.

What is hard here: a bounded channel that may drop output but must say so, in
the right place; values read under one lock and used under another
(`RemoveClient`, `broadcast`, a rescan's filter, an Update's validation); closing
while everything still runs; saves of one file by several goroutines; crashes
between a change and its save; cancelling a process that is just being started;
two daemons that start and stop at the same time; external state (launchd, the
process table, another daemon) that changes between two looks. `PROJECT.json`
lists each hazard at its line, with the properties that cover it or the reason
that none does.

## 2. The modules

Every action is one step of a goroutine or process that others can observe: what
the code does under one lock is one action unless another goroutine can act in
between without that lock. Program counters carry the names of the steps.
Definitions under a `Mutation:` comment are plausible bugs, each written before
the definition it would replace and used by no specification.

### The session

**OutputStream.** The reader's broadcast is split at every point where it can be
overtaken: append, check of `done` (`CheckDone`), `clientsMu` (`LockClients`), and
for each client the marker, its timeout, the clearing of `gapPending` and the
data. A handler is split at the lookup (`Admit`), the registration with its
snapshot (`AttachClient`), the status change (`NoteAttached`), replay, deliver,
gap check, and the three steps of a detach. `Session.Close` is `CloseMarksDone`,
`ClosePTY`, `SweepClients`, `Closed`. A chunk is its number, so that order and
loss can be stated; the scrollback is an interval of numbers, since trimming
drops the oldest. No lock variable is needed: the reader is the only goroutine
that keeps a lock over several steps. Timeouts (`MarkerTimeout`, `DataTimeout`)
may happen whenever the channel is full.

**OutputPromise.** What an attach promises, without reader, channels, flags or
locks: the last `Depth` chunks at the time of the attach in one piece, then later
chunks in order, one behind a hole only when more markers than holes have been
sent. `ImplementsPromise` maps `OutputStream` to it: `written` is `appended`,
`window` the snapshot, `received` what the handler has sent. It says nothing of
what is never sent; that is `DrainIsComplete` and the liveness properties.

**Repaint.** What OutputStream leaves out: `ptySizeMu` over the two steps of a
resize, the kernel's SIGWINCH on a change of size only, the attach that signals
by itself, and the repaint that the handler asks for after a gap once the queue
is drained, at most once per interval. Output is an item that changes the screen
or a frame that redraws it; a screen is whole or stale.

**SessionProcess.** From the request (validation, directory, argument vector)
through the process group to the last signal. Processes may ignore SIGTERM and
SIGHUP or belong to another user; a PTY's close may or may not wake a reader or
writer that is in the kernel; the daemon may exit during the grace period. A
terminal reads as hung up when nobody has it open (Linux), or as soon as its
session leader has gone (`revokes`: macOS); `HungUp` has both, as the build has
one or the other.

**SessionManager.** Actors are the Create calls (one per session id, followed
perhaps by a Kill), the cleanup loop and the goroutine that opens and closes the
manager. `sessionsMu` is a variable because Create keeps it through the start of
the PTY and the save. A save is two steps, marshal (`BeginSave`) and rename
(`EndSave`), and `Store.mu` is held for reading between them. `Crash` loses memory
and keeps the disk; `Load` and `MarkStale` are what the next start does. Time is
abstracted: a tick may find any session idle for too long.

**SessionLog.** The writer with its buffer, Close with the steps of the
compression (create, copy, close, remove the source), DeleteLog in two steps and
GetSessionLog calls that pick a file, open it and read it. An unlinked file
stays readable for whoever has it open. A flush may fail, and then has written
some of the buffer or none; the buffer's error is sticky (`broken`), so no later
flush writes any more, and Close compresses what there is.

**BellDetector, ModeTracker.** The automata as functions of state and token. The
first keeps the whole output beside the state and is compared with a reading of
it that looks at positions only; the second is compared with what a fresh
terminal makes of preamble and replay, wherever the replay was cut.

### The daemon

**EventHub.** Each operation of the hub is one action, except that Unsubscribe
closes the channel after it released the mutex. Channels have a fourth state,
`"panic"`. WatchEvents handlers, the webhook, sessions that ring and end, and
`Server.stop` from the webhook to the drained server use it.

**TaskExecutor.** One task and the Run calls on it. The steps of `executeTask`
are separate up to the publication of the process group, so that a cancel can
land anywhere: before the start, between fork and `SetPgid`, before
`CheckContext`, during the wait. A process group is a leader and a child that it
may leave behind. Cancel has the store's, the context's and the process group's
step, for CancelRun and for `Executor.Close`. A save is one step here, because
`RunStore.Save` has the structure that SessionManager interleaves.

**TaskDefinitions.** An Update reads the task and the registry, validates, and
merges what it was given into the task it then finds. A task is its scope, its
project and the number of changes, so that an answered change can be looked for
on the disk.

**Projects.** A project is its path, a sequence of names, so that the walk
(`Walked`) can be compared with a definition by prefix and length. The calls are
sequences of steps on the registry and the discovery state, each of which has a
mutex of its own; a save may fail, and a crash may come anywhere.

**Daemon.** Processes that share a data directory. Inodes are named by the
process that made them, so "the path now leads to another file" is visible:
`Open` and `Flock` are two steps, and so are `Unlink` and the close of the
descriptor. `main`, the signal goroutine (`Stop`) and the goroutine that serves
TCP have a program counter each and share `Server.mu`. `Crash` leaves the paths
and frees locks, listeners and port, as the kernel does. Whatever another process
can see is a step: the probe of a socket and the removal of a stale one; bind,
listen, chmod and stat, of which chmod may fail; the close of a listener and the
removal of its path, which `removeSocketIfOwned` first compares (`Owns`) with what
stat noted (`info`) and then removes. A path refuses connections between bind and
listen, between close and removal, and after a kill. `blind` is a history
variable: one of several processes that had the lock has removed a file it had
found stale (section 6, 4). `OneServes` and `ServingIsReachable` hold until then
(`Guarded`), however often the lock was had and whoever was killed.

**AtomicFile, Register.** The temp file, its steps and the sweep, with two
faults: the process dies, or the power fails and takes with it what was not
synced and perhaps the last rename. `Register` is what every store relies on: a
write happens at once or not at all. `ImplementsRegister` maps one to the other.

**ToolDetector, ExternalSessions.** The single flight with its cache; and the
scan of a process table with the two verified signals of Kill, while processes
end and their numbers are used again. The model's `Settled` says that a number
is not used again between a look and the signal that follows at once. The climb
through ancestors stops after `MaxAncestors` of them (128 in the code), and what
is said of the scan is said of the processes it reaches the top from
(`WithinReach`).

### The command line

**Connection.** A setting's value is where it comes from (an entry, the
environment, a flag, the default), so "whose secret is this" can be asked of it.
Which place wins is as in the code: a flag before all, the entry that `--host`
names before the environment, the environment before any other entry. The steps
of authentication and of the host key follow the code; no property is about
them. **Tunnel.** Retries, the forwarder, two copies per connection, gRPC's
keepalive, a daemon that ends and a link that goes silent. **AttachCommand.**
The input and the output goroutine, keys that arrive in reads cut anywhere, and
the detach chord. **RunCommand.** The prefix that must name one thing, the call
that may be lost on either way, the polling loop and the interrupt. `ssh.Dial`
takes no context: over a stalled link it ends, if at all, by itself
(`DialTimesOut`, with no fairness). cancel and kill have a deadline, run and
attach only the interrupt. **ServiceControl.** launchctl's commands one by one,
with launchd, logins and another hqssh acting in between; macOS only.
**Doctor.** The checks in their order, each of which comes to a set of verdicts,
while daemons start, end and take the port.

### Compositions

`Services`, `Host` and `Session` instantiate several modules, one of which is
extended and the others named; `MCServices`, `MCHost` and `MCSession` have the
values of their small instances. A variable `part`, chosen at the start, says
whose module moves, and the others keep their initial state. That is sound
because those modules share no variables: an interleaving of two of them would
show each one nothing new, and the composition has the behaviours of every part
and no others. What does interact is one module: sessions, hub, webhook and
shutdown in `EventHub`; reader, handlers and Close in `OutputStream`; run store,
processes and Close in `TaskExecutor`; doctor and daemons in `Doctor`.
`OutputStreamProofs`, `SessionManagerProofs`, `DaemonProofs`, `ServicesProofs`,
`TerminalProofs`, `HostProofs`, `SessionProofs` and `Iteration` hold theorems
(section 5).

## 3. The runs

| Run | Instance | What it shows |
|---|---|---|
| `output_stream` | two clients, one of which may stall; 5 chunks for one client or 1 for two; channel 1, scrollback 2 | what a client is sent is what an attach promises (`ImplementsPromise`); `NothingIsLostSilently` (in order, losses are flagged, the end is drained), `ReplayCoversModes`, `SendsOnOpenChannels`, `RunningHasAClient`; the reader always gets back to the PTY and Close ends although a client never reads (`StallIsBounded`); every handler returns once the session has ended (`HandlersLeave`) |
| `session_manager` | two sessions, limit 1, one crash | `LiveWithinLimit`; no session, record or log without somebody to end it (`EverySessionHasOwner`); what Kill and Close report is on disk and stays (`EndIsDurable`, `DiskNeverGoesBack`); ended sessions leave the map and Close returns (`ManagerGetsOn`) |
| `session` | two sizes, two resizes, one write before a channel of two; a shell and a child; five commands, two things to name | one size for session and kernel, a full screen after every attach (`TerminalIsKept`); the tool that was asked for runs, and nothing of its group outlives Close (`ProcessIsKept`); commands act on the one thing they name, say what is so and return, but for a stalled dial (`CommandKeepsItsWord`) |
| `task_executor` | two runs, one kept in the store, a CancelRun, Delete, Close | one active run, none after Close (`RunsAreAccounted`), `FinalIsFinal` |
| `services` | two watchers, one stalled, the webhook, a session that rings once; one run, two cancels, a crash; three keys; three connects, two connections | no channel panics; ends are told before the hub closes, the webhook is quiet, Stop returns (`ShutdownIsOrderly`); active runs have a goroutine and cancelled runs end (`RunsEnd`); `ChordIsHonoured`; `TunnelLetsGo` |
| `host` | three writers and a power loss; a log of two chunks, two readers; three repositories; one task, two updates, a crash; six tokens of output; three detector calls; four processes; two service commands; two daemons under the doctor; three hosts | `ImplementsRegister`, `LogIsWhole`, `AnswersAreKept`, `OutputIsUnderstood`, `OneDetection`, `ToolsAreTheirOwn`, `ReportsAreTrue` (service), `ReportIsTrue` (doctor), `SettingsReachTheirHost` |
| `daemon` | three processes, one killed, the port taken at first | `OneServes`, `SocketTellsTheTruth`: one daemon serves, at the socket, and leaves none behind, with the exception `Guarded` |
| `output_idle`, `task_timeout`, `daemon_stop`, `daemon_instance`, `project_rescan` | as small as the behaviour allows | statements of the code's comments that the code does not keep (section 6) |

Bounds. Every bound is a constant or a guard with a comment.

- Chunks: a first chunk dropped, a marker that does not fit, a second drop, a
  marker that does, and a tail after it need five chunks; scrollback 2 makes the
  trim happen and channel 1 makes every send meet a full channel. Chunks are
  interchangeable but for their order, so more of them repeat these cases.
- Clients: the reader visits one client at a time and shares no state between
  two visits but the lock; two clients give attach against detach against close,
  which is where status and map can disagree, and need one chunk. `LittleForTwo`
  bounds only reading and admission, of which no fairness is assumed.
- Sessions: two with a limit of one race for the last place. One crash: a second
  finds the disk as the first could have left it, since the state after a start
  is a state of a first start with those records.
- Runs: two calls race for one task; `MaxRuns` 1 makes pruning happen. The crash
  is explored with one run, which no second run of a new daemon can reach.
- Processes: one that leaves, one that opened its pidfile before that and one
  that starts afterwards are needed for the unlinked inode, and suffice for a
  wrong removal of a socket that is bound and not listened on yet (without
  `Guarded`, TLC finds it in this instance with no kill). The theorems of
  section 5 hold for any number. Processes are symmetric, and `daemon` and
  `daemon_instance` use that; they check invariants only.
- Hub: capacity 1 and a bell before the end fill the channel; of two watchers
  one is stalled in Send.
- Files: three writers make "rename, rename, undo the last" different from "undo
  both"; the sweep lists several. Log: two chunks tell a part from the whole.
- Projects: one repository at the depth limit, one beyond it and one behind an
  excluded name; one of them is added and removed.
- Output: six tokens hold an OSC sequence with a payload longer than its limit of
  two, an escape and an end. Modes: two that exclude each other, one that is on
  by default; five tokens kept cut every sequence at every place.
- Doctor: two daemons and two events are a restart, or a start beside another.
- External sessions: four processes and a climb of two ancestors, so that some
  processes are within its reach and others are not.
- Connection: an entry that is the default, another, and a bare host.

All runs turn off TLC's deadlock check: the system may stop (a session closed
with all handlers gone, a daemon that has exited). Liveness properties do that
work instead, under the fairness below.

## 4. Fairness

- OutputStream: weak fairness of the broadcast (its sends have a timeout), of
  the read error once the PTY is closed, of Close, and of every handler whose
  client is not in `Stalled`. The process need not write, clients need not come,
  hang up or read: none of that is fair.
- Repaint: of whoever holds `ptySizeMu`, of the attach that has begun, the
  process's redraw, the handler, and the passing of the interval.
- SessionProcess: signals that are not ignored arrive, the reader, the write,
  Close and the timer of the escalation go on; processes need not exit. So a child
  that Kill cannot end may keep the terminal open for ever: the shell is then not
  reaped and an Input that was blocked in the write waits (`Withheld`).
- SessionManager: weak fairness of every goroutine that has begun. The loop's
  exit (`LoopExits`) is strongly fair: `select` picks at random among ready
  cases (manager.go:132-137), so it cannot take the tick for ever. Calls,
  signals and crashes are free.
- EventHub: handlers whose client reads, the webhook (a POST has a timeout),
  the end of a session that is being closed, and the steps of Stop.
- TaskExecutor: weak fairness of each run's goroutine, of a cancel that has
  begun, of Close and of a Delete that has begun. Processes need not exit: the
  code may rely on that only after a kill.
- AttachCommand: both goroutines; users, sessions and links are free. Tunnel:
  the forwarder, the copies and gRPC's pings, which the dial options order.
- RunCommand: the command, once it has connected; the deadline of 30 seconds of
  cancel and kill, which the others do not have; and the end of a run that was
  cancelled, which TaskExecutor shows. The end of a dial over a stalled link is not
  fair, and `CommandReturns` excepts a command that is in one (`Dialing`).
- The remaining modules state safety only.

## 5. What is proved

`OutputStreamProofs` proves, for every set of clients, every channel capacity and
scrollback size and every number of chunks (assumption `StreamAssumption`: the
capacities are positive naturals and `Stalled` is a subset of `Clients`):

- `TypeCorrect`: `Spec => []TypeOK`, with the bound of each channel;
- `Invariance`: `Spec => []StreamInv`;
- `OpenChannels`, `ReplayIsComplete`, `RunningIsWatched`: the invariants
  `SendsOnOpenChannels`, `ReplayCoversModes` and `RunningHasAClient`;
- `StreamInOrder`: `Spec => []InOrder`, a part of `NothingIsLostSilently`;
- `LossIsMarked`: `Spec => []NothingIsLostSilently`;
- `StreamKeepsPromise`: `Spec => ImplementsPromise`, the refinement of
  `OutputPromise`.

`StreamInv` is inductive where its parts alone are not. The reader sends only to
registered clients because the loop's clients were registered when it took
`clientsMu` and nobody can leave meanwhile; that needs `LoopIsEmptyOutside` (the
loop's variables are empty when the lock is not held). The replay covers the
modes because the tracker lags by the one chunk whose broadcast is under way
(`TrackedFollows`) and that chunk is in the buffer. A Running session has a
client because a handler that is about to note its attach is still registered
(`NotingIsRegistered`), unless the session has ended, which the status shows
(`EndIsMarked`).

`StreamInOrder` adds two invariants: a handler outside its serving steps has sent
nothing (`FreshIsEmpty`), and what a client has or will get is ordered and no
later than what the reader has offered to it (`StreamIsOrdered`). The second half
is the point: the order of what was sent says nothing of the next chunk, while
"at most `Offered(c)`" does, at registration (the snapshot ends at `appended`,
and the reader is outside its loop) as at each send. The proof has one lemma for
the reader (`OrderReader`), one for the handlers (`OrderHandler`) and small ones
on sequences: appending, moving the head from queue to client, inserting a
marker between the two, losing an item.

`LossIsMarked` counts: up to every place of what a client was sent and has queued
there are at least as many markers, sent or owed, as holes. `TakeOutputGap` may put
a marker before chunks that were queued earlier, so a marker need not stand next to
its hole; and a `MarkerTimeout` after the handler took the flag is covered because
the marker is then sent twice. `LossInv` is inductive: besides `StreamInv` and
`FreshIsEmpty`, that what is queued ends where the reader has come to
(`EndsInOrder`), that no flag is up for the chunk being sent (`NotPendingAtData`),
that a snapshot is behind (`SnapBehind`), the count itself (`Debts`), and
`DrainIsComplete`. TLC checked it first, over 421,946 states.

`StreamKeepsPromise` maps every step to one of `OutputPromise` or to a stutter: a
read is a `Write`, AttachClient an `Attach`, the replay a `Replay`, a marker a
`Mark` and a delivered chunk a `Send` (`StepKeepsPromise`). What a `Send` needs is
where the concrete steps have to earn it: that the replay came whole before
(`ReplayIsGiven`), that the chunk is later than all before it (`StreamIsOrdered`)
and that, if the one before is missing, a marker has *already* been sent for this
hole (`SpareAtHole`). The last follows from the count of `LossInv` at the position
of the chunk, where only what was sent counts; it has to hold for clients that have
left the map too, whose queue is still being emptied (`FlagsStay`). `Attach` needs
that the buffer holds exactly the last `MaxScrollback` chunks (`KeptIsExact`).

`SessionManagerProofs` (any finite set of sessions, any limit, any number of
crashes; `ManagerAssumption`) proves every safety property of its run:

- `TypeCorrect`, which says besides the types who owns `sessionsMu`;
- `LimitHolds`: `LiveWithinLimit`. Counting under the lock is not enough by
  itself; the strengthening is that while a Create stands between its checks and
  the start there is room (`StartingHasRoom`), and only StartSession brings a
  session to life (`OnlyStartGrows`), of which the lock allows one;
- `OwnersStay`: `EverySessionHasOwner`. `OwnerInv` is inductive: how far the
  manager has come (`Phases`: before the loop starts there is nothing, once Close
  sweeps nobody creates and the loop is gone), who has each session until it is
  closed (`Owned`) and what its record may say meanwhile (`Recorded`);
- `EndsAreDurable` and `DiskKeepsOrder`: `EndIsDurable`, `DiskNeverGoesBack`.
  They rest on `DiskInv`: the records stand still while somebody writes the file,
  because every writer has `Store.mu` for reading, so what any of them is about
  to rename into place is what the store holds.

`DaemonProofs` (any number of processes and kills; `DaemonAssumption`) proves every
invariant of its run: `TypeCorrect`, `SocketIsTrue` (`SocketTellsTheTruth`) and
`NeverTwoServe` (`OneServes`). Main and Stop of one process keep out of each
other's way (`StopFitsMain`); a process past its flock has the lock until it gives
it back (`LockHeld`); a socket file belongs to a process that has bound and not
removed it, or was killed, and once that process has looked it knows the file for
its own (`SocketHeld`). A process that has bound thus has the lock, so whoever
removes its file, having found it stale, is not alone with the lock, and from then
on `Guarded` is false. Until then a bound socket stays where it is, up to the step
in which its own process removes it, and nobody takes another's file for its own
(`BoundIsReachable`). The exception is about what was removed and by whom; how the
file came to look stale plays no part in the proof.

`ServicesProofs` begins with the executor (any finite set of runs, any
`MaxRuns`, any number of crashes; `ExecutorAssumption`), every safety property
of its run:

- `TypeCorrect`: types, and that the two indexes of the run store agree, in memory
  and on disk. `CreateIndexes` shows it for Create with its pruning, from what
  `SubSeq` does at each place of the list; `ListCounts` turns "no repetition" into
  the number of entries;
- `RunsStayAccounted`: `RunsAreAccounted`. A run that is under way and was not
  cancelled has an active record until its task is deleted (`RecordIsKept`), an
  active record has a goroutine (`ActiveIsExecuting`), there is one at most, and
  once Close has begun it is one that Close will come to (`OneActiveRecord`);
- `FinalStays`: `FinalIsFinal`. A goroutine that may still give a verdict finds
  its run running, cancelled or deleted (`StatusFitsStep`).

It goes on with the safety of the `services` run for any value of the constants
(`ServicesAssumption`, `ExecutorAssumption`), one part at a time:

- `ServicesTypeCorrect` (`ServicesTypeOK`): among the types, the attempts to
  connect stay within `maxRetries` (`LinkInv`: the loop backs off only before the
  last);
- `RunsHaveGoroutines` (`ActiveIsExecuting`, a part of `RunsEnd`);
- `ChannelsNeverPanic` (`NoChannelPanics`): a registered subscriber has an open
  channel, and whoever is about to close one has taken it out of the map, so nobody
  else will; `NoEndIsLost` (`EndsAreTold`, a part of `ShutdownIsOrderly`):
  `doneOnce` stands between a session and a second end, and the hub is closed after
  the sessions have told; and `WebhookGoesFirst` (`WebhookIsQuiet`, another part);
- `KeysArrive` (`KeysArriveInOrder`, a part of `ChordIsHonoured`): the scanner, fed
  in reads cut anywhere, against a reading of all that was typed. Prefixes pair up
  from the left of their run, which is a statement about the whole run
  (`RunBefore`); `OpensNext` turns it into one about two neighbours, and
  `ScanForwards` follows the scanner through one read. `AttachInv` is inductive: the
  scanner stands where the keys that were read leave it (`ScannerAgrees`), what was
  given, is on its way and is sent next is all that is due (`AllUnderWay`), and when
  the stream breaks what is lost is the end of it (`NothingElse`).

`HostProofs`, with `TerminalProofs` that it extends, proves every invariant of
the `host` run, for any value of the constants (`HostAssumption`,
`ModesAssumption`, `DiskAssumption`, `ProcessAssumption`, `FileAssumption`).
Each part has an inductive invariant of its own, which says nothing while
another part moves:

- `HostTypeCorrect`: `HostTypeOK`. The tracker's parameters and the bell detector's
  buffer stay within their limits whatever bytes come;
- `FileImplementsRegister`: `AtomicFile` implements `Register`, the abstract file that
  is written at once or not at all, for any writers and losses of power.
  `FileInvariant` is what the mapping rests on: the path, and the rename that a loss
  of power may undo, lead to files whose write is over and whose content is synced,
  so no step before the rename can be seen and the rename is the register's write;
- `LogStaysWhole` (`LogIsWhole`): how far the logger has come is seen in the
  files (`LoggerFits`), and what a reader is owed stays flushed. Of a log whose
  flush has failed it says that what reached the file stays;
- `AnswersStay` (`AnswersAreKept`): for a change that is not on the disk a call
  has still to save, or a save has failed (`SavesAreDue`), a removal that was
  answered for has its tombstone, and a task's file is behind the store only by
  calls that are still to save. That a scan finds every repository down to the
  depth is `LevelsAreWithin`;
- `DetectionIsAlone` (`OneDetection`): `refresh` is set exactly while one probes;
- `ToolsStayTheirOwn` (`ToolsAreTheirOwn`). That the process table is a forest
  (`Forest`) is stated without paths: every set of live processes that is not empty
  has one whose parent is outside. So there is a top-most process of a tool
  (`OneTop`), and the walk upwards meets nobody twice, hence meets all ancestors of a
  process that has no more of them than the walk may take steps
  (`ScanReachesTheTop`). Nothing is assumed of the size of the table: what is said of
  the scan is said of processes within its reach (`WithinReach`), and the code's
  reach is 128;
- `ReportsStayTrue` (`ReportsAreTrue`): the job is in one domain unless it was seen
  in both, and a restart knows the only old process that may be left (`OldIsKnown`);
- `DoctorTellsTheTruth` (`ReportIsTrue`): each finding is what was so at one moment,
  or a later event explains it (`FindingsHold`, `TransportsAnswered`);
- `SettingsStayHome` (`SettingsReachTheirHost`): by cases on who names the host. Of
  precedence it says what the code does, an entry named by `--host` included
  (section 6).

`TerminalProofs` proves `OutputStaysUnderstood` (`OutputIsUnderstood`), for output of
any length, any limits and any groups of modes (`ModesAssumption`: no mode is in two
groups or is what another token stands for, and a sequence for one mode fits into
the parameters). Its halves are about two automata that are fed one token at a time,
compared with what is only seen in the whole:

- Bells and notifications (`SignalsAlways`). The reading looks back from each
  token: whether it is escaped depends on the run of escapes before it
  (`EscapedNext`), and which sequence it ends on the last opening that nothing
  has closed (`OpeningNext`). `FoundInv` is inductive: the detector stands where
  this reading of the output so far leaves it, with its escape, its opening and
  the part of the payload that is kept (`PayloadNext`, with the limit); so both
  judge the next token alike (`ReadingNext`), and a longer text changes nothing
  of what was read before (`EscapedAlike`, `MarksAlike`, `ContentsAlike`).
- The replay to a client that attaches (`ModesAlways`). It is not enough that the
  preamble sets the right modes (`PreambleSets`): the scrollback that is sent after it
  begins anywhere, perhaps within a sequence, and must not undo them. `ReplayInv` is
  inductive: a terminal that reads *any* end of the scrollback, not just all of it, ends
  with each mode as it was before or as the session has it, and its parser stands where
  the session's does or has not begun (`Follows`). With any end, trimming from the front
  changes nothing (`EndOfTail`); with "as before or as the session has it", a setting
  need not be in what is left, and after the preamble both are the same. A new token
  does the same to two parsers that stand alike (`Alike`, `ATokenIsReadAlike`) and
  nothing to one that has not begun (`ATokenFollows`).

`SessionProofs` proves the safety of the `session` run, for any value of the
constants (`SessionAssumption`), again one part at a time:

- `SessionTypeCorrect` (`SessionTypeOK`): what a broadcast puts into a client's
  channel, with the marker that is due, fits there (`BroadcastTyped`);
- `SizesStayTogether`: whoever has recorded a size and not yet set it is alone, and
  the size is his (`OneHasTheLock`), while an attach does both under the lock;
- `SessionsRunAsAsked`: what was started is the command of an acceptable request
  (`StartedAsAsked`), and what stands behind the words of a positional command is
  what was asked for (`PositionalIs`, from what `SubSeq` does to a concatenation);
- `CommandsTellTheTruth`: what a command has found out by each phase (`PhaseFits`).

`Iteration` stands in for induction, which the library offers only with an operator
as parameter: `Climb`, induction along an interval, by counting (a set that is
closed under +1 below N and lacks N could be mapped one-to-one into itself without
0), `ClimbAll` for every place of the interval, `StepsIterate`, that a recursion over
an interval has a function, and `StepsAgree`, that two of them which begin alike and
step alike are alike. With them `Levels` (how deep a scan goes), `Generations` (how
far up), `Processed` and `Applied` (a run of output, and the modes of one sequence),
`BoolPreambles`, `Contents` (the payload of a title), `Scan` and `Forwarded` (the keys
of an attach) are what their recursive definitions say.

Failing proofs changed how the model is written, and nothing of what it does. `CASE`
arms that could both apply, where TLA+ promises neither, became IF and ELSE in the
order of the Go switch; folds over generations, levels, parameters and keys became
functions over an interval; `Resolve` of `RunCommand` names the only match
without counting and choosing; `SessionProcess` leaves out the quotes around the
shell's `"$@"`.

Every invariant that a passing run checks is a theorem. Only model-checked are the
properties that say something must happen (`StallIsBounded`, `HandlersLeave`,
`ManagerGetsOn`), and those that join a promise of safety with one of liveness, of
which the theorems above state the first half at most: `TerminalIsKept`,
`ProcessIsKept`, `CommandKeepsItsWord`, `RunsEnd`, `ShutdownIsOrderly`,
`ChordIsHonoured`, `TunnelLetsGo`. Liveness under fairness and `ENABLED` are beyond
the prover. So are `RECURSIVE` operators, which no module here uses, and the
library's induction theorems, for which `Iteration` stands in.

## 6. What the runs refute

1. `task_timeout`: a run whose command exits but leaves a background child on
   the PTY outlives its timeout. After `cmdDone` the code waits for the end of
   the output without watching the context (executor.go:353).
2. `daemon_stop`: Stop holds `Server.mu` and waits for the TCP goroutine, which
   waits for `Server.mu` when its pending port came free at that moment
   (lifecycle.go:281, 390).
3. `output_idle`: a detach decides under `clientsMu` that it was the last and
   sets Idle after giving it up; a client that attached in between watches an
   Idle session, which the cleanup loop may close (session.go:389).
4. `daemon_instance`: a pidfile opened before and locked after its unlink
   protects nothing; two daemons load the stores. The socket is then all that
   keeps them apart, and it does not: three processes suffice for two to serve,
   none of them killed. The first gives up (chmod of its socket fails, say) and
   unlinks the pidfile between the second's open and flock; the third makes a new
   one, so the second and the third both have a lock. The second binds the socket;
   before it listens, the third's probe is refused, which reads as "stale socket"
   (lifecycle.go:455), and the third removes the file. The second then listens on a
   socket without a path, and the third binds its own and serves too. Between the
   close of a listener and the removal of its path, and after a kill, the probe is
   refused in the same way. `Guarded` leaves out what follows once one of
   several that had the lock has removed such a file; `NeverTwoServe` shows that
   nothing else lets two serve.
5. `project_rescan`: a rescan that was filtered before a Remove and is merged
   after it registers the project again, although rescans "never re-add" removed
   ones (state.go:29-33, server.go:328, 407-413).

Refuted with the same models, without a run that is kept:

- The drain at the end of a session does not look for a gap flagged after its
  last chunk, so the client is not told that the tail is missing
  (server.go:694-707).
- A repaint that is due within a second of another is looked at again only after
  a later delivery; if the process falls silent the screen stays stale, against
  "otherwise two gaps inside the interval followed by quiescence leave a
  diff-rendering TUI stale" (server.go:647-656).
- Two Updates of one task, each valid by the task it read, leave a task of scope
  project without a project (`ProjectScopeHasProject`; task/store.go:43,
  server.go:1188-1274).
- When a session ends while the user types nothing, attach has nothing more to
  show but waits in `inputWg.Wait` for its input goroutine, which sits in a read
  of the terminal; the next key ends it (helpers.go:304-347).

- "CLI flag > environment variable > config file > default" (config.go:100, and
  likewise :44 and :139), "Environment variables also work (override config file)"
  (cmd/root.go:75): with `--host alias` the values of the alias's entry, its user,
  port, key and token, come before `HQSSH_USER` and the others
  (config.go:180-208). config_test.go:63-66 wants it so of the daemon's port. A
  default host, or one that the environment names, is resolved as the comments say.
  `Connection` states the promise as `EnvironmentWins`, which TLC refutes;
  `NearerWins`, which holds, says what the code does.

Met while modelling:

- An SSH handshake that stalls is ended by nothing that
  hqssh does: `ssh.Dial` takes no context and `ClientConfig.Timeout` bounds the TCP
  connect alone (client.go:91), so neither an interrupt nor the 30 seconds of
  cancel and kill end it. `hqssh attach` has no deadline at all (attach.go:49).
- A flush of the log that fails is only logged (logger.go:107-113, 153-158,
  228-235). `bufio.Writer` keeps the error: whatever is written later is lost too,
  and Close compresses the shorter log and removes the original. Of such a log
  `LogIsWhole` says only that what reached the file stays and is what is read.
- A `.gz` that a crash has left incomplete is preferred to the whole log next to it
  from then on (logger.go:341-347), and each read of it ends with an error.
  `LogIsNeverLost` says that the whole log is there all the same.
- On Linux a terminal is hung up when no process has it open, not when its session
  leader ends. A child that Kill cannot signal and that keeps the terminal open
  keeps the daemon's reader, hence `Wait`, from going on: the shell stays a zombie,
  and a blocked Input waits (pty.go:157-181, 228-239), unless closing the master
  wakes them.

- `wait`, Stop and Restart take a launchctl print that fails for a job that is
  not loaded (ops.go:135, 192, 325); `ReportsAreTrue` excepts it.
- An interrupt while `hqssh run` is inside Run or GetRun ends the command without
  CancelRun, after it has printed "Cancelling..." (run.go:66-119).
- The 30 seconds of `hqssh kill` include the wait for its y/N prompt (kill.go:55).
- A session that ignores SIGTERM and SIGHUP survives the daemon's shutdown: the
  SIGKILL is due after the grace period, in a goroutine that has died by then
  (pty.go:322-335).
- A restart between the doctor's look at the socket and its look at the port
  reads as two daemons; `KillsTheOther`, which says nothing once a daemon has ended
  meanwhile, does not catch it. With no pid known the hint is
  "kill 0" (checks.go:469).
- A marker may be queued just before or after the place of a loss, when
  `TakeOutputGap` meets a broadcast that clears the same flag; Serve returns an
  error and main exits with code 1 when Stop drains the gRPC server just before
  `grpcServer.Serve`; a deleted task's process loses its record; runs are pruned
  by the wall clock; an unreadable `sessions.json` is replaced by an empty one.

## 7. Not modelled, and why

- Failed saves of sessions and runs: the code logs and goes on; the next save
  writes everything. (Projects has them, since their callers are told.)
- The wall clock: expiry, idle timeouts and retention are free choices.
- A pidfile that cannot be locked: the code logs it and goes on with the socket
  probe as its only protection. TCP turned off: fewer steps of the same kind.
- systemd and the installation of service definitions: one command of systemctl
  each, or the writing of a file. The process list of macOS: `ps`, parsed.
- Jobs that a shell moves to process groups of their own; Kill does not reach
  them by design. As far as the terminal goes they are like the children of another
  user that the model has.
- The error of the `.gz` file's last close: the code ignores it (logger.go:296),
  and nothing syncs log or `.gz`, so a loss of power may take either.
- Listings of the CLI, daemon configuration, logging, scripts: sequential code
  without state. Generated code (`proto/`).

## 8. Plan

Done: every component of section 1 but the last row. To come:

1. systemd in `ServiceControl`;
2. failed saves in `SessionManager`.

## 9. Running it

    tlc -workers 2 -config OutputStream.cfg MCOutputStream
    tlapm OutputStreamProofs.tla
    tlapm SessionManagerProofs.tla
    tlapm DaemonProofs.tla
    tlapm ServicesProofs.tla
    tlapm TerminalProofs.tla
    tlapm HostProofs.tla
    tlapm SessionProofs.tla
    tlapm Iteration.tla

`MCOutputStream`, `MCSessionManager`, `MCTaskExecutor`, `MCDaemon` and
`MCProjects` declare the model values of their configurations, `MCHost`,
`MCSession` and `MCServices` those of `Host`, `Session` and `Services`, which
compose. Every `.cfg` names the instance in its first lines. `PROJECT.json`
pairs runs, configurations, properties and mutants.
