----------------------------- MODULE SessionLog -----------------------------
(* The log of one session (internal/session/logger.go): the reader of the    *)
(* PTY writes it through a buffer, Close compresses it in steps that readers *)
(* and crashes fall between, and GetSessionLog reads whichever file it finds *)
(* (internal/server/server.go).                                              *)
(*                                                                           *)
(* Output is a number of chunks. A file that is unlinked stays readable for  *)
(* who has it open, so what the two files hold outlives their names.         *)
EXTENDS Naturals

CONSTANTS
  Readers,    \* GetSessionLog calls
  MaxChunks   \* bound: chunks of output

VARIABLES
  written,   \* chunks that Write has accepted
  flushed,   \* chunks in the .log file
  broken,    \* a flush has failed: the buffer keeps that error for good
  log,       \* the name of the .log file is there
  gzip,      \* what the .gz file holds: "none", "empty", "partial" or "whole"
  gz,        \* the name of the .gz file is there
  logger,    \* the step of the logger, from "open" to "done", or "crashed"
  retention, \* Store.Cleanup: "no", "half" (the .gz is gone) or "deleted"
  pc,        \* the step of each reader
  owed,      \* chunks that were in the .log file when the reader began
  got        \* chunks a reader that ended well has read

fileVars == <<flushed, log, gzip, gz>>
readerVars == <<pc, owed, got>>
vars == <<written, broken, fileVars, logger, retention, readerVars>>

Init ==
  /\ written = 0 /\ flushed = 0 /\ broken = FALSE
  /\ log = TRUE /\ gzip = "none" /\ gz = FALSE
  /\ logger = "open" /\ retention = "no"
  /\ pc = [r \in Readers |-> "idle"]
  /\ owed = [r \in Readers |-> 0]
  /\ got = [r \in Readers |-> 0]

-----------------------------------------------------------------------------
(* The logger. Write, the flush timer and the first half of Close hold its mutex. *)

\* A buffer that is broken accepts nothing: Write returns the error.
Write ==
  /\ logger = "open" /\ written < MaxChunks /\ ~broken
  /\ written' = written + 1
  /\ UNCHANGED <<broken, fileVars, logger, retention, readerVars>>

\* bufio's Flush. A failing one may have written a part; it is only logged.
Flush ==
  \/ ~broken /\ flushed' = written /\ UNCHANGED broken
  \/ ~broken /\ flushed' \in flushed..written - 1 /\ broken' = TRUE
  \/ broken /\ UNCHANGED <<flushed, broken>>

\* By the timer, or because the buffer is nearly full.
FlushBuffer ==
  /\ logger = "open" /\ flushed < written
  /\ Flush
  /\ UNCHANGED <<written, log, gzip, gz, logger, retention, readerVars>>

\* Close: no more writes, the timer stopped, the buffer flushed; whether or not that
\* works, the file is closed and compressed.
CloseLogger ==
  /\ logger = "open"
  /\ Flush /\ logger' = "closed"
  /\ UNCHANGED <<written, log, gzip, gz, retention, readerVars>>

\* compressLog creates the .gz under its final name.
CreateGzip ==
  /\ logger = "closed"
  /\ logger' = "copy" /\ gz' = TRUE /\ gzip' = "empty"
  /\ UNCHANGED <<written, broken, flushed, log, retention, readerVars>>

CopyLog ==
  /\ logger = "copy" /\ gzip = "empty"
  /\ gzip' = "partial"
  /\ UNCHANGED <<written, broken, flushed, log, gz, logger, retention, readerVars>>

\* The gzip writer is closed: its trailer makes the file whole.
CloseGzip ==
  /\ logger = "copy"
  /\ logger' = "copied" /\ gzip' = "whole"
  /\ UNCHANGED <<written, broken, flushed, log, gz, retention, readerVars>>

\* Mutation: the partial file is left behind.
KeepPartialGzip ==
  /\ logger = "copy"
  /\ logger' = "done"
  /\ UNCHANGED <<written, broken, fileVars, retention, readerVars>>

\* Copying or closing failed: the partial file is removed, the .log stays.
DropGzip ==
  /\ logger = "copy"
  /\ logger' = "done" /\ gz' = FALSE
  /\ UNCHANGED <<written, broken, flushed, log, gzip, retention, readerVars>>

\* The source is removed last; that may fail, and so may creating the .gz.
RemoveSource ==
  /\ logger = "copied"
  /\ logger' = "done" /\ log' \in {TRUE, FALSE}
  /\ UNCHANGED <<written, broken, flushed, gzip, gz, retention, readerVars>>

NoGzip ==
  /\ logger = "closed"
  /\ logger' = "done"
  /\ UNCHANGED <<written, broken, fileVars, retention, readerVars>>

\* The daemon dies. Nothing takes up the compression again after the restart.
Crash ==
  /\ logger \notin {"done", "crashed"}
  /\ logger' = "crashed"
  /\ pc' = [r \in Readers |-> "idle"]
  /\ UNCHANGED <<written, broken, fileVars, retention, owed, got>>

\* DeleteLog, days later: first the .gz, then the .log.
DeleteGzip ==
  /\ retention = "no" /\ logger \in {"done", "crashed"}
  /\ retention' = "half" /\ gz' = FALSE
  /\ UNCHANGED <<written, broken, flushed, log, gzip, logger, readerVars>>

DeleteSource ==
  /\ retention = "half"
  /\ retention' = "deleted" /\ log' = FALSE
  /\ UNCHANGED <<written, broken, flushed, gzip, gz, logger, readerVars>>

-----------------------------------------------------------------------------
(* GetSessionLog. Every reader may call once more after it has ended. *)

Goto(r, step) == pc' = [pc EXCEPT ![r] = step]
LeaveFiles == UNCHANGED <<written, broken, fileVars, logger, retention>>

\* ReadLog looks for the compressed file first.
LookForGzip(r) ==
  /\ pc[r] \notin {"openGzip", "openLog", "readGzip", "readLog"}
  /\ Goto(r, IF gz THEN "openGzip" ELSE "openLog")
  /\ owed' = [owed EXCEPT ![r] = IF retention = "no" THEN flushed ELSE 0]
  /\ got' = [got EXCEPT ![r] = 0]
  /\ LeaveFiles

\* A file without the gzip header is an error of ReadLog. The caller then sends
\* the scrollback if the session is still there.
OpenGzip(r) ==
  /\ pc[r] = "openGzip"
  /\ Goto(r, IF gz /\ gzip # "empty" THEN "readGzip" ELSE "failed")
  /\ UNCHANGED <<owed, got>> /\ LeaveFiles

OpenLog(r) ==
  /\ pc[r] = "openLog"
  /\ Goto(r, IF log THEN "readLog" ELSE "failed")
  /\ UNCHANGED <<owed, got>> /\ LeaveFiles

\* A gzip stream that ends too early is an error of the call.
ReadGzip(r) ==
  /\ pc[r] = "readGzip"
  /\ IF gzip = "whole"
     THEN Goto(r, "ok") /\ got' = [got EXCEPT ![r] = flushed]
     ELSE Goto(r, "failed") /\ UNCHANGED got
  /\ UNCHANGED owed /\ LeaveFiles

ReadSource(r) ==
  /\ pc[r] = "readLog"
  /\ Goto(r, "ok") /\ got' = [got EXCEPT ![r] = flushed]
  /\ UNCHANGED owed /\ LeaveFiles

-----------------------------------------------------------------------------
LoggerStep ==
  \/ Write \/ FlushBuffer \/ CloseLogger \/ CreateGzip \/ CopyLog \/ CloseGzip
  \/ DropGzip \/ RemoveSource \/ NoGzip

Read(r) ==
  LookForGzip(r) \/ OpenGzip(r) \/ OpenLog(r) \/ ReadGzip(r) \/ ReadSource(r)

Next ==
  \/ LoggerStep \/ Crash
  \/ DeleteGzip \/ DeleteSource
  \/ \E r \in Readers : Read(r)

Spec == Init /\ [][Next]_vars

-----------------------------------------------------------------------------
TypeOK ==
  /\ written \in 0..MaxChunks /\ flushed \in 0..written /\ broken \in BOOLEAN
  /\ log \in BOOLEAN /\ gz \in BOOLEAN
  /\ gzip \in {"none", "empty", "partial", "whole"}
  /\ logger \in {"open", "closed", "copy", "copied", "done", "crashed"}
  /\ retention \in {"no", "half", "deleted"}
  /\ pc \in [Readers ->
       {"idle", "openGzip", "openLog", "readGzip", "readLog", "ok", "failed"}]
  /\ owed \in [Readers -> 0..MaxChunks] /\ got \in [Readers -> 0..MaxChunks]

\* At no moment, and after no crash, is what is in the .log in neither file; and what
\* Write accepted before an orderly Close is in the one that remains unless a flush
\* has failed (logger.go:141-187, 242-327).
LogIsNeverLost ==
  /\ retention = "no" => log \/ (gz /\ gzip = "whole")
  /\ logger \notin {"open", "crashed"} /\ ~broken => flushed = written

\* Once Close has returned, the file that readers prefer is whole; after a crash
\* in the middle of the compression it may not be (logger.go:262-284, 346-361).
PreferredIsWhole == logger \in {"open", "done"} /\ gz => gzip = "whole"

\* A call that ends well has sent at least what the log held when it began:
\* compression, failure, crash or retention in the meantime make it fail, never
\* end early (logger.go:341-371, server.go:855-908).
ReadsAreWhole == \A r \in Readers : pc[r] = "ok" => got[r] >= owed[r]

\* However the end of the session, the readers, a crash and retention fall
\* together, a whole copy of the log is there to be read, and is what is read.
LogIsWhole == LogIsNeverLost /\ PreferredIsWhole /\ ReadsAreWhole
=============================================================================
