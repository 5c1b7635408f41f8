------------------------------ MODULE ScanRun ------------------------------
(***************************************************************************)
(* One scan process: the walker (main thread), the scan workers, the        *)
(* cancellation watcher and the heartbeat thread of YaraScanner,            *)
(* `mode=cancel` run beside them, and run() / main(), which turn what is    *)
(* left into a lifecycle row, a result line and a summary.                  *)
(*                                                                          *)
(* The two editions share walker, workers and watcher.  The XDR edition     *)
(* writes lifecycle rows and handles signals; the XSIAM edition consumes    *)
(* the cancel flag and sends its terminal status after the report.          *)
(***************************************************************************)
EXTENDS Naturals, FiniteSets

CONSTANTS
    Files,        \* directory entries the walk may come across
    Excluded,     \* those the skip list or the junction test rules out
    Unreadable,   \* those whose DirEntry cannot be read
    Workers,      \* config.max_workers threads
    QueueSize,    \* config.scan_queue_size
    Endless,      \* may the disk grow new files as fast as they are scanned?
    MaxCancels,   \* `mode=cancel` invocations
    MaxFaults     \* threads that die, targets or reports that raise

ASSUME ScanAssumption ==
    /\ IsFiniteSet(Files) /\ IsFiniteSet(Workers) /\ Workers # {}
    /\ Excluded \subseteq Files /\ Unreadable \subseteq Files \ Excluded
    /\ QueueSize \in Nat \ {0} /\ Endless \in BOOLEAN
    /\ MaxCancels \in Nat /\ MaxFaults \in Nat

VARIABLES
    edition,    \* "xdr" or "xsiam"
    mpc,        \* where the main thread is
    active,     \* scan_active
    cancelled,  \* cancel_requested
    failed,     \* scan_failed
    flag,       \* cancel.flag, and how old it is
    unjudged,   \* did the look at a leftover flag, or its removal, raise?
    watcher,    \* the watcher: "off", "test", "look"
    beat,       \* the heartbeat thread: "off", "test", "due"
    work,       \* [Workers -> ...]: where each worker is
    hold,       \* [Workers -> ...]: the file it scans
    place,      \* [Files -> Places]
    sentinels,  \* None items in scan_queue
    toPut,      \* sentinels still to put
    gaveUp,     \* did a join time out, or a target's walk raise?
    row,        \* terminal status: lifecycle row (xdr), status event (xsiam)
    late,       \* "running" rows sent after the terminal row
    result,     \* what the returned line says
    outcome,    \* what the summary JSON says
    cancels, faults     \* bounds

status == <<active, cancelled, failed>>
threads == <<work, hold>>
queue == <<place, sentinels, toPut>>
report == <<row, late, result, outcome>>
bounds == <<cancels, faults>>
vars == <<edition, mpc, status, flag, unjudged, watcher, beat, threads, queue,
          gaveUp, report, bounds>>

None == "none"
Xdr == edition = "xdr"
Places == {"disk", "queue", "held", "scanned", "skipped", "dropped"}
Verdicts == {"completed", "cancelled", "failed"}

Queued == Cardinality({f \in Files : place[f] = "queue"}) + sentinels
MaxLate == 2     \* rows after the terminal one are counted up to here
Starting == mpc \in {"compile", "judge", "stale"}
Alive == ~Starting /\ mpc # "exited"

(* The order in which every reader of the flags looks at them. *)
Verdict == IF cancelled THEN "cancelled" ELSE IF failed THEN "failed" ELSE "completed"

(* A new process.  All that a scan leaves to the next one is its cancel.flag *)
(* (an XDR scan never removes the one it honoured): older than this process *)
(* by more than the two seconds of tolerance, or by less ("near").  A flag   *)
(* written for this process is "fresh", or "early" if it is older than       *)
(* _process_started_at by more than the tolerance.                           *)
Init ==
    /\ edition \in {"xdr", "xsiam"}
    /\ flag \in {None, "old", "near"}
    /\ mpc = "compile" /\ active = TRUE /\ cancelled = FALSE /\ failed = FALSE
    /\ unjudged = FALSE
    /\ watcher = "off" /\ beat = "off"
    /\ work = [w \in Workers |-> "off"] /\ hold = [w \in Workers |-> None]
    /\ place = [f \in Files |-> "disk"] /\ sentinels = 0 /\ toPut = 0
    /\ gaveUp = FALSE
    /\ row = None /\ late = 0 /\ result = None /\ outcome = None
    /\ cancels = 0 /\ faults = 0

-----------------------------------------------------------------------------
(* `mode=cancel`: a process of its own, which writes the flag whether or not *)
(* a scan seems to run (running.json, which only its reply reads).           *)
Cancel ==
    /\ mpc # "exited" /\ cancels < MaxCancels
    /\ cancels' = cancels + 1 /\ flag' = "fresh"
    /\ UNCHANGED <<edition, mpc, status, unjudged, watcher, beat, threads, queue,
                   gaveUp, report, faults>>

(* SIGTERM and SIGINT: the handler sets the flags and nothing else. *)
Signal ==
    /\ Xdr /\ Alive /\ cancels < MaxCancels
    /\ cancels' = cancels + 1
    /\ cancelled' = TRUE /\ active' = FALSE
    /\ UNCHANGED <<edition, mpc, failed, flag, unjudged, watcher, beat, threads, queue,
                   gaveUp, report, faults>>

-----------------------------------------------------------------------------
(* scan_system. *)

(* The rules are compiled.  XSIAM took _process_started_at when the module   *)
(* was imported; XDR takes it here, so that what was written meanwhile may  *)
(* be older than it by more than the tolerance.                              *)
Aged ==
    CASE Xdr /\ flag = "fresh" -> {"fresh", "early"}
      [] Xdr /\ flag = "near"  -> {"near", "old"}
      [] OTHER -> {flag}

Compiled ==
    /\ mpc = "compile" /\ mpc' = "judge"
    /\ flag' \in Aged
    /\ UNCHANGED <<edition, status, unjudged, watcher, beat, threads, queue, gaveUp,
                   report, bounds>>

StartThreads ==
    /\ mpc' = "walk" /\ watcher' = "test" /\ beat' = "test"
    /\ work' = [w \in Workers |-> "get"]

(* Seeded fault: no flag is taken for a leftover. *)
NoFlagIsStale == FALSE

(* The mtime of the flag against _process_started_at. *)
StaleFlag == flag \in {"old", "early"}

JudgeFlag ==
    /\ mpc = "judge"
    /\ IF StaleFlag THEN mpc' = "stale" /\ UNCHANGED <<watcher, beat, work>>
                    ELSE StartThreads
    /\ UNCHANGED <<edition, status, flag, unjudged, hold, queue, gaveUp, report, bounds>>

(* By name: a flag written since the look goes with it. *)
RemoveFlag ==
    /\ mpc = "stale" /\ StartThreads
    /\ flag' = None
    /\ UNCHANGED <<edition, status, unjudged, hold, queue, gaveUp, report, bounds>>

Fault == faults < MaxFaults /\ faults' = faults + 1

(* getmtime or remove raises: logged, the flag stays. *)
JudgeRaises ==
    /\ mpc \in {"judge", "stale"} /\ flag # None /\ Fault
    /\ unjudged' = TRUE
    /\ StartThreads
    /\ UNCHANGED <<edition, status, flag, hold, queue, gaveUp, report, cancels>>

(* What the walk makes of an entry: dropped without a count (the entry      *)
(* cannot be read, XDR), counted as skipped, or given to the workers.       *)
DropsEntry(f) == Xdr /\ f \in Unreadable
SkipsEntry(f) == f \in Excluded

Meet(f) ==
    /\ mpc = "walk" /\ active /\ place[f] = "disk"
    /\ \/ /\ DropsEntry(f)
          /\ place' = [place EXCEPT ![f] = "dropped"]
       \/ /\ SkipsEntry(f)
          /\ place' = [place EXCEPT ![f] = "skipped"]
       \/ /\ ~DropsEntry(f) /\ ~SkipsEntry(f)
          /\ Queued < QueueSize           \* _enqueue_scan_path waits for room
          /\ place' = [place EXCEPT ![f] = "queue"]
    /\ UNCHANGED <<edition, mpc, status, flag, unjudged, watcher, beat, threads,
                   sentinels, toPut, gaveUp, report, bounds>>

(* New files turn up while the walk goes on. *)
Appear(f) ==
    /\ Endless /\ mpc = "walk" /\ f \notin Excluded \cup Unreadable
    /\ place[f] \in {"scanned", "skipped"}
    /\ place' = [place EXCEPT ![f] = "disk"]
    /\ UNCHANGED <<edition, mpc, status, flag, unjudged, watcher, beat, threads,
                   sentinels, toPut, gaveUp, report, bounds>>

GoCleanUp == mpc' = "sentinels" /\ toPut' = Cardinality(Workers)

(* Seeded fault: the walk does not look at scan_active. *)
WalkToTheEnd ==
    /\ mpc = "walk" /\ \A f \in Files : place[f] # "disk"
    /\ GoCleanUp
    /\ UNCHANGED <<edition, status, flag, unjudged, watcher, beat, threads, place,
                   sentinels, gaveUp, report, bounds>>

WalkEnds ==
    /\ mpc = "walk"
    /\ ~active \/ \A f \in Files : place[f] # "disk"
    /\ GoCleanUp
    /\ UNCHANGED <<edition, status, flag, unjudged, watcher, beat, threads, place,
                   sentinels, gaveUp, report, bounds>>

(* Seeded fault: the scan is stopped and the failure not recorded. *)
StopOnly == active' = FALSE /\ UNCHANGED <<cancelled, failed>>

MarkScanFailed == failed' = TRUE /\ active' = FALSE /\ UNCHANGED cancelled

(* An exception while a target is walked is logged, and the rest of the     *)
(* target left alone.                                                        *)
TargetRaises ==
    /\ mpc = "walk" /\ Fault
    /\ GoCleanUp /\ gaveUp' = TRUE
    /\ UNCHANGED <<edition, status, flag, unjudged, watcher, beat, threads, place, sentinels,
                   report, cancels>>

WalkRaises ==
    /\ mpc = "walk" /\ Fault
    /\ MarkScanFailed /\ GoCleanUp
    /\ UNCHANGED <<edition, flag, unjudged, watcher, beat, threads, place, sentinels,
                   gaveUp, report, cancels>>

-----------------------------------------------------------------------------
(* _worker. *)
Frame(w) == UNCHANGED <<edition, mpc, flag, unjudged, watcher, beat, toPut, gaveUp,
                        report, cancels>>

(* The loop's test, made as the previous round ends: back to queue.get, or *)
(* out of the loop.                                                          *)
NextRound == IF active THEN "get" ELSE "gone"

Take(w, f) ==
    /\ mpc # "exited" /\ work[w] = "get" /\ place[f] = "queue"
    /\ place' = [place EXCEPT ![f] = "held"]
    /\ hold' = [hold EXCEPT ![w] = f] /\ work' = [work EXCEPT ![w] = "busy"]
    /\ UNCHANGED <<status, sentinels, faults>> /\ Frame(w)

FilesQueued == \E f \in Files : place[f] = "queue"

(* The queue is in order: the sentinels come after every file. *)
TakeSentinel(w) ==
    /\ mpc # "exited" /\ work[w] = "get" /\ sentinels > 0 /\ ~FilesQueued
    /\ sentinels' = sentinels - 1
    /\ work' = [work EXCEPT ![w] = "gone"]
    /\ UNCHANGED <<status, hold, place, faults>> /\ Frame(w)

GetTimesOut(w) ==
    /\ mpc # "exited" /\ work[w] = "get" /\ Queued = 0 /\ ~active
    /\ work' = [work EXCEPT ![w] = NextRound]
    /\ UNCHANGED <<status, hold, place, sentinels, faults>> /\ Frame(w)

(* scan_file says scanned, or one of its many reasons to skip; either way   *)
(* the file is counted.                                                      *)
ScanFile(w) ==
    /\ mpc # "exited" /\ work[w] = "busy"
    /\ \E p \in {"scanned", "skipped"} :
          /\ hold[w] \in Unreadable => p = "skipped"
          /\ place' = [place EXCEPT ![hold[w]] = p]
    /\ hold' = [hold EXCEPT ![w] = None] /\ work' = [work EXCEPT ![w] = NextRound]
    /\ UNCHANGED <<status, sentinels, faults>> /\ Frame(w)

(* An exception that the loop's own handler does not survive. *)
WorkerDies(w) ==
    /\ mpc # "exited" /\ work[w] = "busy" /\ Fault
    /\ work' = [work EXCEPT ![w] = "gone"]
    /\ MarkScanFailed
    /\ UNCHANGED <<hold, place, sentinels>> /\ Frame(w)

-----------------------------------------------------------------------------
(* _cancellation_watcher: the loop's test, then a look at the flag; between *)
(* the two the scan may end.                                                 *)
WatcherTest ==
    /\ Alive /\ watcher = "test"
    /\ watcher' = IF active /\ ~cancelled THEN "look" ELSE "off"
    /\ UNCHANGED <<edition, mpc, status, flag, unjudged, beat, threads, queue,
                   gaveUp, report, bounds>>

(* _request_cancel. *)
RequestCancel == cancelled' = TRUE /\ active' = FALSE /\ UNCHANGED failed

WatcherLook ==
    /\ Alive /\ watcher = "look"
    /\ IF flag # None
       THEN RequestCancel /\ watcher' = "off"
       ELSE watcher' = "test" /\ UNCHANGED status
    /\ UNCHANGED <<edition, mpc, flag, unjudged, beat, threads, queue, gaveUp,
                   report, bounds>>

(* The heartbeat thread: the loop's test, then, if the interval is over, a   *)
(* "running" row, if this edition writes rows.                               *)
BeatTest ==
    /\ Alive /\ beat = "test"
    /\ beat' = IF active THEN "due" ELSE "off"
    /\ UNCHANGED <<edition, mpc, status, flag, unjudged, watcher, threads, queue, gaveUp,
                   report, bounds>>

BeatNotDue ==
    /\ Alive /\ beat = "due" /\ beat' = "test"
    /\ UNCHANGED <<edition, mpc, status, flag, unjudged, watcher, threads, queue, gaveUp,
                   report, bounds>>

Late == IF Xdr /\ row # None /\ late < MaxLate THEN late + 1 ELSE late

BeatRow ==
    /\ Alive /\ beat = "due" /\ beat' = "test"
    /\ late' = Late
    /\ UNCHANGED <<edition, mpc, status, flag, unjudged, watcher, threads, queue, gaveUp,
                   row, result, outcome, bounds>>

-----------------------------------------------------------------------------
(* _perform_enhanced_cleanup. *)
Main(from, to) == mpc = from /\ mpc' = to

PutSentinel ==
    /\ mpc = "sentinels" /\ toPut > 0 /\ Queued < QueueSize
    /\ toPut' = toPut - 1 /\ sentinels' = sentinels + 1
    /\ UNCHANGED <<edition, mpc, status, flag, unjudged, watcher, beat, threads, place,
                   gaveUp, report, bounds>>

(* The queue stayed full for a second: the sentinel is given up. *)
PutTimesOut ==
    /\ mpc = "sentinels" /\ toPut > 0 /\ Queued >= QueueSize
    /\ toPut' = toPut - 1
    /\ UNCHANGED <<edition, mpc, status, flag, unjudged, watcher, beat, threads, place,
                   sentinels, gaveUp, report, bounds>>

(* Each worker is waited for, five seconds at most. *)
JoinWorkers ==
    /\ toPut = 0 /\ Main("sentinels", "joined")
    /\ gaveUp' = (gaveUp \/ \E w \in Workers : work[w] # "gone")
    /\ UNCHANGED <<edition, status, flag, unjudged, watcher, beat, threads, queue,
                   report, bounds>>

(* XSIAM: the flag is consumed before the end. *)
ConsumeFlag ==
    /\ ~Xdr /\ Main("joined", "consumed")
    /\ flag' = IF cancelled THEN None ELSE flag
    /\ UNCHANGED <<edition, status, unjudged, watcher, beat, threads, queue, gaveUp,
                   report, bounds>>

Deactivate ==
    /\ \/ Xdr /\ Main("joined", "row")
       \/ ~Xdr /\ Main("consumed", "closing")
    /\ active' = FALSE
    /\ UNCHANGED <<edition, cancelled, failed, flag, unjudged, watcher, beat, threads,
                   queue, gaveUp, report, bounds>>

(* XDR: the terminal lifecycle row, sent inline. *)
EmitTerminalRow ==
    /\ Main("row", "closing")
    /\ row' = Verdict
    /\ UNCHANGED <<edition, status, flag, unjudged, watcher, beat, threads, queue,
                   gaveUp, late, result, outcome, bounds>>

(* _log_final_results goes through dictionaries that a worker nobody waits  *)
(* for any more may still be changing; what it raises is a failed scan.     *)
Crash == failed' = TRUE /\ result' = "failed" /\ UNCHANGED <<active, cancelled>>

FinalLogRaises ==
    /\ Main("closing", "summary") /\ Fault
    /\ \E w \in Workers : work[w] = "busy"
    /\ Crash
    /\ row' = IF Xdr THEN row ELSE "failed"      \* status "error"
    /\ UNCHANGED <<edition, flag, unjudged, watcher, beat, threads, queue, gaveUp, late,
                   outcome, cancels>>

-----------------------------------------------------------------------------
(* run() and main(). *)

(* XDR: cancelled and failed are looked at again for the result line. *)
Conclude ==
    /\ Xdr /\ Main("closing", "summary")
    /\ result' = Verdict
    /\ UNCHANGED <<edition, status, flag, unjudged, watcher, beat, threads, queue,
                   gaveUp, row, late, outcome, bounds>>

(* XSIAM: a failure ends here, with a status of its own. *)
ConcludeFailed ==
    /\ ~Xdr /\ failed /\ Main("closing", "summary")
    /\ row' = "failed" /\ result' = "failed"
    /\ UNCHANGED <<edition, status, flag, unjudged, watcher, beat, threads, queue,
                   gaveUp, late, outcome, bounds>>

(* XSIAM: the report; _was_cancelled is read in it, unless the statistics   *)
(* before it raise.  mpc remembers what was read.                            *)
Report ==
    /\ ~Xdr /\ ~failed /\ mpc = "closing"
    /\ mpc' = IF cancelled THEN "saysCancelled" ELSE "saysCompleted"
    /\ UNCHANGED <<edition, status, flag, unjudged, watcher, beat, threads, queue,
                   gaveUp, report, bounds>>

ReportRaises ==
    /\ ~Xdr /\ ~failed /\ Main("closing", "saysNothing") /\ Fault
    /\ UNCHANGED <<edition, status, flag, unjudged, watcher, beat, threads, queue,
                   gaveUp, report, cancels>>

(* The result line reads cancel_requested again; the status goes by what    *)
(* the report read, and without it the name is unbound and nothing is sent. *)
ConcludeReported ==
    /\ mpc \in {"saysCancelled", "saysCompleted", "saysNothing"} /\ mpc' = "summary"
    /\ result' = IF cancelled THEN "cancelled" ELSE "completed"
    /\ row' = CASE mpc = "saysCancelled" -> "cancelled"
                [] mpc = "saysCompleted" -> "completed"
                [] OTHER -> None
    /\ UNCHANGED <<edition, status, flag, unjudged, watcher, beat, threads, queue,
                   gaveUp, late, outcome, bounds>>

(* The process exits and its daemon threads with it. *)
Exit ==
    /\ Main("summary", "exited")
    /\ watcher' = "off" /\ beat' = "off"
    /\ work' = [w \in Workers |-> "off"] /\ hold' = [w \in Workers |-> None]
    /\ UNCHANGED <<edition, status, flag, unjudged, queue, gaveUp, row, late, result, bounds>>

(* Seeded fault: a failure outranks the operator's cancellation. *)
FailedFirst == IF failed THEN "failed" ELSE IF cancelled THEN "cancelled" ELSE "completed"
WriteSummaryFailedFirst ==
    /\ outcome' = FailedFirst
    /\ Exit

(* The summary JSON, in the finally block, looks a last time. *)
WriteSummary ==
    /\ outcome' = Verdict
    /\ Exit

AllDone == mpc = "exited" /\ UNCHANGED vars

-----------------------------------------------------------------------------
MainStep ==
    \/ Compiled \/ JudgeFlag \/ RemoveFlag
    \/ WalkEnds \/ PutSentinel \/ PutTimesOut \/ JoinWorkers \/ ConsumeFlag
    \/ Deactivate \/ EmitTerminalRow \/ Conclude \/ ConcludeFailed
    \/ Report \/ ConcludeReported \/ WriteSummary
    \/ \E f \in Files : Meet(f)

WorkerStep(w) ==
    \/ TakeSentinel(w) \/ GetTimesOut(w) \/ ScanFile(w)
    \/ \E f \in Files : Take(w, f)

WatcherStep == WatcherTest \/ WatcherLook
BeatStep == BeatTest \/ BeatNotDue \/ BeatRow

Next ==
    \/ MainStep \/ WatcherStep \/ BeatStep
    \/ \E w \in Workers : WorkerStep(w) \/ WorkerDies(w)
    \/ \E f \in Files : Appear(f)
    \/ JudgeRaises \/ TargetRaises \/ WalkRaises \/ FinalLogRaises \/ ReportRaises
    \/ Cancel \/ Signal \/ AllDone

Spec == Init /\ [][Next]_vars

(* Threads are scheduled; nothing else is assumed. *)
FairSpec == Spec /\ WF_vars(MainStep) /\ WF_vars(WatcherStep)
                 /\ \A w \in Workers : WF_vars(WorkerStep(w))

-----------------------------------------------------------------------------
FlagsOK ==
    /\ edition \in {"xdr", "xsiam"}
    /\ mpc \in {"compile", "judge", "stale", "walk", "sentinels", "joined", "consumed", "row",
                "closing", "saysCancelled", "saysCompleted", "saysNothing", "summary",
                "exited"}
    /\ active \in BOOLEAN /\ cancelled \in BOOLEAN /\ failed \in BOOLEAN
    /\ flag \in {None, "old", "near", "early", "fresh"} /\ unjudged \in BOOLEAN
    /\ watcher \in {"off", "test", "look"} /\ beat \in {"off", "test", "due"}
    /\ gaveUp \in BOOLEAN
    /\ row \in Verdicts \cup {None} /\ result \in Verdicts \cup {None}
    /\ outcome \in Verdicts \cup {None}

DataOK ==
    /\ work \in [Workers -> {"off", "get", "busy", "gone"}]
    /\ hold \in [Workers -> Files \cup {None}]
    /\ place \in [Files -> Places]
    /\ sentinels \in Nat /\ toPut \in Nat /\ sentinels + toPut <= Cardinality(Workers)
    /\ Queued <= QueueSize
    /\ late \in 0..MaxLate /\ cancels \in 0..MaxCancels /\ faults \in 0..MaxFaults

TypeOK == FlagsOK /\ DataOK

Unfinished == {f \in Files : place[f] \in {"disk", "queue", "held"}}

(* A scan whose terminal status is "completed" has been through every file: *)
(* nothing is left on disk, in the queue or in a worker's hands, provided   *)
(* every worker was gone when the wait for it ended and no target raised.   *)
DrainedIsComplete == row = "completed" /\ ~gaveUp => Unfinished = {}

(* A flag from before this process started, honoured by an earlier scan or  *)
(* not, never cancels it, unless its age could not be read or its removal   *)
(* failed: then the watcher takes it for this scan's.                        *)
OldFlagIgnored ==
    [][WatcherLook /\ ~cancelled /\ cancelled' => flag # "old" \/ unjudged]_vars

(* The three statuses of a scan are read at different moments.  What a      *)
(* later one says is never better than an earlier one: a run whose summary  *)
(* says "completed", which is what lets the host cleanup remove its files,  *)
(* has no other status anywhere.  After the terminal row one "running" row  *)
(* may follow: the one the heartbeat thread had already decided on.          *)
SummaryNeverRosier ==
    /\ outcome = "completed" => result = "completed" /\ row \in {"completed", None}
    /\ row = "cancelled" => outcome \in {"cancelled", None}
    /\ result = "cancelled" => outcome \in {"cancelled", None}
    /\ late <= 1

(* The cancels that reach the watcher: any, once it runs; one written since  *)
(* the process started and before its flag is judged, if the reference is   *)
(* the start of the process (XSIAM) or was taken by then (XDR).  Not those  *)
(* of an XDR scan that still compiles, nor one that comes between the look  *)
(* at a leftover flag and its removal.                                       *)
Heard ==
    /\ flag # None
    /\ mpc = "walk" \/ (flag = "fresh" /\ (mpc = "judge" \/ (~Xdr /\ mpc = "compile")))

(* A scan that was cancelled or has failed comes to its end, although the   *)
(* disk may never run out of files and workers may have died with the queue *)
(* full.                                                                     *)
StopEnds ==
    /\ Heard ~> (mpc = "exited")
    /\ (mpc # "exited" /\ failed) ~> (mpc = "exited")
=============================================================================
