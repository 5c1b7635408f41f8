---------------------------- MODULE ScanRunProofs ----------------------------
(***************************************************************************)
(* Theorems about ScanRun, for any disk, skip list, number of workers,      *)
(* queue size, cancels and faults: what a "completed" scan has been         *)
(* through, and that its three statuses never contradict each other.        *)
(***************************************************************************)
EXTENDS ScanRun, FiniteSetTheorems, TLAPS

-----------------------------------------------------------------------------
PastWait == ~Starting /\ mpc \notin {"walk", "sentinels"}
PastStop == mpc \in {"row", "closing", "saysCancelled", "saysCompleted", "saysNothing",
                     "summary", "exited"}
Unspoiled == ~cancelled /\ ~failed

(* The statuses come one after the other, and each knows what the flags say. *)
StatusInv ==
    /\ active \/ PastStop \/ ~Unspoiled
    /\ PastStop => ~active
    /\ row # None => mpc \in {"summary", "exited"} \/ (Xdr /\ mpc = "closing")
    /\ mpc = "row" => Xdr
    /\ row = "cancelled" \/ mpc = "saysCancelled" => cancelled
    /\ row = "failed" => failed
    /\ result = "cancelled" => cancelled
    /\ result = "failed" => failed
    /\ result = None <=> mpc \notin {"summary", "exited"}
    /\ outcome = IF mpc = "exited" THEN Verdict ELSE None

(* A flag from before the process is gone when the watcher starts to look,  *)
(* or nobody knows how old it is.                                            *)
FlagInv ==
    /\ flag = "old" => Starting \/ unjudged
    /\ Starting => watcher = "off"

(* The heartbeat thread sends one more row at most: the one that was due. *)
BeatInv == late <= 1 /\ (late > 0 => row # None /\ beat # "due")

(* As long as nothing was cancelled or failed, a worker leaves for a         *)
(* sentinel only, and so after every file; what is held is being scanned.    *)
WorkInv ==
    /\ Starting => \A w \in Workers : work[w] = "off"
    /\ sentinels > 0 => ~Starting /\ mpc # "walk"
    /\ Unspoiled /\ ~PastWait =>
          \A w \in Workers : work[w] = "gone" => mpc = "sentinels" /\ ~FilesQueued
    /\ ~failed /\ mpc # "exited" =>
          \A f \in Files : place[f] = "held" =>
              \E w \in Workers : work[w] = "busy" /\ hold[w] = f
    /\ mpc = "sentinels" /\ ~gaveUp /\ Unspoiled => \A f \in Files : place[f] # "disk"

DrainInv ==
    /\ row = "completed" => PastWait
    /\ /\ ~gaveUp
       /\ (PastWait /\ Unspoiled) \/ mpc = "saysCompleted" \/ row = "completed"
       => Unfinished = {}

RInv == TypeOK /\ StatusInv /\ FlagInv /\ BeatInv /\ WorkInv /\ DrainInv

-----------------------------------------------------------------------------
LEMMA WorkersCounted == Cardinality(Workers) \in Nat
  BY ScanAssumption, FS_CardinalityType

(* The files in the queue, counted. *)
InQueue(p) == {f \in Files : p[f] = "queue"}

LEMMA QueueFinite ==
    ASSUME NEW p
    PROVE  IsFiniteSet(InQueue(p)) /\ Cardinality(InQueue(p)) \in Nat
<1>1. IsFiniteSet(InQueue(p))
  BY ScanAssumption, FS_Subset DEF InQueue
<1> QED BY <1>1, FS_CardinalityType

(* Moving one file changes the number in the queue by one at most. *)
LEMMA MoveCounts ==
    ASSUME NEW p \in [Files -> Places], NEW f \in Files, NEW x \in Places
    PROVE  LET q == [p EXCEPT ![f] = x]
           IN  /\ x # "queue" => Cardinality(InQueue(q)) <= Cardinality(InQueue(p))
               /\ Cardinality(InQueue(q)) <= Cardinality(InQueue(p)) + 1
<1> DEFINE q == [p EXCEPT ![f] = x]
<1>1. IsFiniteSet(InQueue(p)) /\ Cardinality(InQueue(p)) \in Nat
  BY QueueFinite
<1>2. IsFiniteSet(InQueue(q)) /\ Cardinality(InQueue(q)) \in Nat
  BY QueueFinite
<1>3. InQueue(q) \subseteq InQueue(p) \cup {f}
  BY DEF InQueue
<1>4. x # "queue" => InQueue(q) \subseteq InQueue(p)
  BY DEF InQueue
<1>5. x # "queue" => Cardinality(InQueue(q)) <= Cardinality(InQueue(p))
  BY <1>1, <1>4, FS_Subset
<1>6. /\ IsFiniteSet(InQueue(p) \cup {f})
      /\ Cardinality(InQueue(p) \cup {f}) \in {Cardinality(InQueue(p)), Cardinality(InQueue(p)) + 1}
  BY <1>1, FS_AddElement
<1>7. Cardinality(InQueue(q)) <= Cardinality(InQueue(p) \cup {f})
  BY <1>3, <1>6, FS_Subset
<1>8. Cardinality(InQueue(q)) <= Cardinality(InQueue(p)) + 1
  BY <1>1, <1>2, <1>6, <1>7
<1> QED BY <1>5, <1>8

LEMMA QueuedIs == Queued = Cardinality(InQueue(place)) + sentinels
  BY DEF Queued, InQueue

-----------------------------------------------------------------------------
LEMMA RInit == Init => RInv
<1> SUFFICES ASSUME Init PROVE RInv
  OBVIOUS
<1> USE DEF Init
<1>1. FlagsOK
  BY DEF FlagsOK, None
<1>2. DataOK
  <2>1. InQueue(place) = {}
    BY DEF InQueue
  <2>2. Queued = 0
    BY <2>1, QueuedIs, FS_EmptySet
  <2> QED BY <2>2, WorkersCounted, ScanAssumption DEF DataOK, Places, MaxLate
<1>3. StatusInv /\ FlagInv
  BY DEF StatusInv, PastStop, Unspoiled, FlagInv, Starting, None
<1>4. BeatInv /\ WorkInv
  BY DEF BeatInv, WorkInv
<1>5. DrainInv
  BY DEF DrainInv, PastWait, Starting, None
<1> QED BY <1>1, <1>2, <1>3, <1>4, <1>5 DEF RInv, TypeOK

LEMMA VerdictType == Verdict \in Verdicts
  BY DEF Verdict, Verdicts

(* Every action of the threads by what it does to the flags. *)
LEMMA FlagsStep ==
    ASSUME FlagsOK, [Next]_vars
    PROVE  FlagsOK'
<1> USE VerdictType DEF FlagsOK, Verdicts, None, status, report, Main
<1>1. CASE Cancel \/ Signal
  BY <1>1 DEF Cancel, Signal
<1>2. CASE Compiled
  BY <1>2 DEF Compiled, Aged
<1>20. CASE JudgeFlag \/ RemoveFlag \/ JudgeRaises
  BY <1>20 DEF JudgeFlag, RemoveFlag, JudgeRaises, StartThreads
<1>3. CASE \E f \in Files : Meet(f) \/ Appear(f)
  BY <1>3 DEF Meet, Appear
<1>4. CASE WalkEnds \/ TargetRaises \/ WalkRaises
  BY <1>4 DEF WalkEnds, TargetRaises, WalkRaises, GoCleanUp, MarkScanFailed
<1>5. CASE \E w \in Workers : WorkerStep(w) \/ WorkerDies(w)
  BY <1>5 DEF WorkerStep, WorkerDies, Take, TakeSentinel, GetTimesOut, ScanFile, Frame,
              MarkScanFailed
<1>6. CASE WatcherStep
  BY <1>6 DEF WatcherStep, WatcherTest, WatcherLook, RequestCancel
<1>7. CASE BeatStep
  BY <1>7 DEF BeatStep, BeatTest, BeatNotDue, BeatRow
<1>8. CASE PutSentinel \/ PutTimesOut
  BY <1>8 DEF PutSentinel, PutTimesOut
<1>9. CASE JoinWorkers
  BY <1>9 DEF JoinWorkers
<1>10. CASE ConsumeFlag \/ Deactivate \/ EmitTerminalRow \/ Conclude
  BY <1>10 DEF ConsumeFlag, Deactivate, EmitTerminalRow, Conclude
<1>11. CASE FinalLogRaises
  BY <1>11 DEF FinalLogRaises, Crash
<1>12. CASE ConcludeFailed \/ Report \/ ReportRaises \/ ConcludeReported
  BY <1>12 DEF ConcludeFailed, Report, ReportRaises, ConcludeReported
<1>13. CASE WriteSummary
  BY <1>13 DEF WriteSummary, Exit
<1>14. CASE AllDone \/ UNCHANGED vars
  BY <1>14 DEF AllDone, vars
<1> QED
  BY <1>1, <1>2, <1>20, <1>3, <1>4, <1>5, <1>6, <1>7, <1>8, <1>9, <1>10, <1>11, <1>12, <1>13,
     <1>14 DEF Next, MainStep

(* The queue never grows past its size. *)
LEMMA QueueBound ==
    ASSUME DataOK,
           NEW f \in Files, NEW x \in Places, place' = [place EXCEPT ![f] = x],
           sentinels' = sentinels, x = "queue" => Queued < QueueSize
    PROVE  Queued' <= QueueSize
<1>1. place \in [Files -> Places] /\ sentinels \in Nat /\ Queued <= QueueSize /\ QueueSize \in Nat
  BY ScanAssumption DEF DataOK
<1>2. /\ x # "queue" => Cardinality(InQueue(place')) <= Cardinality(InQueue(place))
      /\ Cardinality(InQueue(place')) <= Cardinality(InQueue(place)) + 1
  BY <1>1, MoveCounts
<1>3. Cardinality(InQueue(place)) \in Nat /\ Cardinality(InQueue(place')) \in Nat
  BY QueueFinite
<1>4. /\ Queued = Cardinality(InQueue(place)) + sentinels
      /\ Queued' = Cardinality(InQueue(place')) + sentinels'
  BY QueuedIs DEF Queued, InQueue
<1> QED BY <1>1, <1>2, <1>3, <1>4

LEMMA DataStep ==
    ASSUME DataOK, WorkInv, [Next]_vars
    PROVE  DataOK'
<1> USE WorkersCounted, ScanAssumption DEF DataOK
<1>0. ASSUME UNCHANGED <<place, sentinels>> PROVE Queued' <= QueueSize
  BY <1>0 DEF Queued
<1>01. ASSUME Fault PROVE faults' \in 0..MaxFaults
  BY <1>01 DEF Fault
<1>1. CASE Cancel \/ Signal
  BY <1>1, <1>0 DEF Cancel, Signal, queue, threads, report
<1>2. CASE Compiled \/ JudgeFlag \/ RemoveFlag \/ JudgeRaises
  <2>1. UNCHANGED <<hold, place, sentinels, toPut, late, cancels>> /\ faults' \in 0..MaxFaults
    BY <1>2, <1>01 DEF Compiled, JudgeFlag, RemoveFlag, JudgeRaises, queue, bounds, report, threads
  <2>2. work' = work \/ work' = [w \in Workers |-> "get"]
    BY <1>2 DEF Compiled, JudgeFlag, RemoveFlag, JudgeRaises, StartThreads, threads
  <2> QED BY <2>1, <2>2, <1>0
<1>3. ASSUME NEW f \in Files, Meet(f) \/ Appear(f) PROVE DataOK'
  <2>1. PICK x \in Places : place' = [place EXCEPT ![f] = x] /\ (x = "queue" => Queued < QueueSize)
    BY <1>3 DEF Meet, Appear, Places
  <2>2. UNCHANGED <<work, hold, sentinels, toPut, late, cancels, faults>>
    BY <1>3 DEF Meet, Appear, threads, report, bounds
  <2>3. Queued' <= QueueSize
    BY <2>1, <2>2, QueueBound
  <2> QED BY <2>1, <2>2, <2>3
<1>4. CASE WalkEnds \/ TargetRaises \/ WalkRaises
  <2>1. sentinels = 0
    BY <1>4 DEF WalkEnds, TargetRaises, WalkRaises, WorkInv
  <2>2. faults' \in 0..MaxFaults
    BY <1>4, <1>01 DEF WalkEnds, TargetRaises, WalkRaises, bounds
  <2> QED BY <1>4, <2>1, <2>2, <1>0
          DEF WalkEnds, TargetRaises, WalkRaises, GoCleanUp, threads, report, bounds
<1>5. ASSUME NEW w \in Workers, NEW f \in Files, Take(w, f) PROVE DataOK'
  <2>1. place' = [place EXCEPT ![f] = "held"] /\ UNCHANGED <<sentinels, toPut, late, cancels, faults>>
    BY <1>5 DEF Take, Frame, report
  <2>2. Queued' <= QueueSize
    BY <2>1, QueueBound DEF Places
  <2> QED BY <1>5, <2>1, <2>2 DEF Take, Places
<1>6. ASSUME NEW w \in Workers, TakeSentinel(w) PROVE DataOK'
  <2>1. Cardinality(InQueue(place)) \in Nat
    BY QueueFinite
  <2>2. sentinels' = sentinels - 1 /\ sentinels > 0 /\ place' = place
    BY <1>6 DEF TakeSentinel
  <2>3. Queued' <= QueueSize
    BY <2>1, <2>2 DEF Queued, InQueue
  <2> QED BY <1>6, <2>2, <2>3 DEF TakeSentinel, Frame, report
<1>7. ASSUME NEW w \in Workers, GetTimesOut(w) \/ WorkerDies(w) PROVE DataOK'
  <2>1. faults' \in 0..MaxFaults
    BY <1>7, <1>01 DEF GetTimesOut, WorkerDies
  <2> QED BY <1>7, <2>1, <1>0 DEF GetTimesOut, WorkerDies, NextRound, Frame, report
<1>8. ASSUME NEW w \in Workers, ScanFile(w) PROVE DataOK'
  <2>1. PICK x \in {"scanned", "skipped"} : place' = [place EXCEPT ![hold[w]] = x]
    BY <1>8 DEF ScanFile
  <2>2. UNCHANGED <<sentinels, toPut, late, cancels, faults>>
    BY <1>8 DEF ScanFile, Frame, report
  <2>3. Queued' <= QueueSize
    <3>1. CASE hold[w] \in Files
      BY <2>1, <2>2, <3>1, QueueBound DEF Places
    <3>2. CASE hold[w] \notin Files
      BY <2>1, <2>2, <3>2, <1>0
    <3> QED BY <3>1, <3>2
  <2> QED BY <1>8, <2>1, <2>2, <2>3 DEF ScanFile, NextRound, Places
<1>9. CASE WatcherStep \/ BeatTest \/ BeatNotDue
  BY <1>9, <1>0 DEF WatcherStep, WatcherTest, WatcherLook, BeatTest, BeatNotDue, queue, threads,
                    report, bounds
<1>10. CASE BeatRow
  BY <1>10, <1>0 DEF BeatRow, Late, MaxLate, queue, threads, bounds
<1>11. CASE PutSentinel
  <2>1. Cardinality(InQueue(place)) \in Nat
    BY QueueFinite
  <2>2. toPut' = toPut - 1 /\ toPut > 0 /\ sentinels' = sentinels + 1 /\ place' = place
        /\ Queued < QueueSize
    BY <1>11 DEF PutSentinel
  <2>3. Queued' <= QueueSize
    BY <2>1, <2>2 DEF Queued, InQueue
  <2> QED BY <1>11, <2>2, <2>3 DEF PutSentinel, threads, report, bounds
<1>12. CASE PutTimesOut \/ JoinWorkers
  BY <1>12, <1>0 DEF PutTimesOut, JoinWorkers, queue, threads, report, bounds
<1>13. CASE ConsumeFlag \/ Deactivate \/ EmitTerminalRow \/ Conclude \/ ConcludeFailed
            \/ Report \/ ConcludeReported
  BY <1>13, <1>0 DEF ConsumeFlag, Deactivate, EmitTerminalRow, Conclude, ConcludeFailed, Report,
                     ConcludeReported, queue, threads, report, bounds
<1>14. CASE FinalLogRaises \/ ReportRaises
  BY <1>14, <1>0, <1>01 DEF FinalLogRaises, ReportRaises, queue, threads, report
<1>15. CASE WriteSummary
  BY <1>15, <1>0 DEF WriteSummary, Exit, queue, bounds
<1>16. CASE AllDone \/ UNCHANGED vars
  BY <1>16, <1>0 DEF AllDone, vars, queue, threads, report, bounds
<1> QED
  BY <1>1, <1>2, <1>3, <1>4, <1>5, <1>6, <1>7, <1>8, <1>9, <1>10, <1>11, <1>12, <1>13, <1>14,
     <1>15, <1>16 DEF Next, MainStep, WorkerStep, BeatStep

-----------------------------------------------------------------------------
LEMMA StatusStep ==
    ASSUME FlagsOK, StatusInv, [Next]_vars
    PROVE  StatusInv'
<1> USE DEF FlagsOK, StatusInv, Xdr, PastStop, Unspoiled, None, status, report, Main, Verdict, Verdicts
<1>1. CASE Cancel \/ Signal
  BY <1>1 DEF Cancel, Signal, Alive
<1>2. CASE Compiled \/ JudgeFlag \/ RemoveFlag \/ JudgeRaises
  BY <1>2 DEF Compiled, JudgeFlag, RemoveFlag, JudgeRaises, StartThreads
<1>3. CASE \E f \in Files : Meet(f) \/ Appear(f)
  BY <1>3 DEF Meet, Appear
<1>4. CASE WalkEnds \/ TargetRaises \/ WalkRaises
  BY <1>4 DEF WalkEnds, TargetRaises, WalkRaises, GoCleanUp, MarkScanFailed
<1>5. CASE \E w \in Workers : WorkerStep(w) \/ WorkerDies(w)
  BY <1>5 DEF WorkerStep, WorkerDies, Take, TakeSentinel, GetTimesOut, ScanFile, Frame,
              MarkScanFailed
<1>6. CASE WatcherStep
  BY <1>6 DEF WatcherStep, WatcherTest, WatcherLook, RequestCancel, Alive
<1>7. CASE BeatStep
  BY <1>7 DEF BeatStep, BeatTest, BeatNotDue, BeatRow
<1>8. CASE PutSentinel \/ PutTimesOut
  BY <1>8 DEF PutSentinel, PutTimesOut
<1>9. CASE JoinWorkers
  BY <1>9 DEF JoinWorkers
<1>10. CASE ConsumeFlag
  BY <1>10 DEF ConsumeFlag
<1>11. CASE Deactivate
  BY <1>11 DEF Deactivate
<1>12. CASE EmitTerminalRow \/ Conclude
  BY <1>12 DEF EmitTerminalRow, Conclude
<1>13. CASE FinalLogRaises
  BY <1>13 DEF FinalLogRaises, Crash
<1>14. CASE ConcludeFailed \/ Report \/ ReportRaises
  BY <1>14 DEF ConcludeFailed, Report, ReportRaises
<1>15. CASE ConcludeReported
  BY <1>15 DEF ConcludeReported
<1>16. CASE WriteSummary
  BY <1>16 DEF WriteSummary, Exit
<1>17. CASE AllDone \/ UNCHANGED vars
  BY <1>17 DEF AllDone, vars
<1> QED
  BY <1>1, <1>2, <1>3, <1>4, <1>5, <1>6, <1>7, <1>8, <1>9, <1>10, <1>11, <1>12, <1>13, <1>14,
     <1>15, <1>16, <1>17 DEF Next, MainStep

LEMMA LeftoverStep ==
    ASSUME FlagInv, [Next]_vars
    PROVE  FlagInv'
<1> USE DEF FlagInv, Starting, Main, None
<1>1. CASE MainStep
  BY <1>1 DEF MainStep, Compiled, Aged, JudgeFlag, StaleFlag, RemoveFlag, StartThreads, WalkEnds, PutSentinel, PutTimesOut, JoinWorkers,
              ConsumeFlag, Deactivate, EmitTerminalRow, Conclude, ConcludeFailed, Report,
              ConcludeReported, WriteSummary, Exit, Meet, GoCleanUp
<1>2. CASE WatcherStep \/ BeatStep
  BY <1>2 DEF WatcherStep, WatcherTest, WatcherLook, Alive, BeatStep, BeatTest, BeatNotDue, BeatRow
<1>3. CASE \E w \in Workers : WorkerStep(w) \/ WorkerDies(w)
  BY <1>3 DEF WorkerStep, WorkerDies, Take, TakeSentinel, GetTimesOut, ScanFile, Frame
<1>4. CASE \/ \E f \in Files : Appear(f)
           \/ JudgeRaises \/ TargetRaises \/ WalkRaises \/ FinalLogRaises \/ ReportRaises
  BY <1>4 DEF Appear, JudgeRaises, StartThreads, TargetRaises, WalkRaises, FinalLogRaises, ReportRaises, GoCleanUp
<1>5. CASE Cancel \/ Signal \/ AllDone \/ UNCHANGED vars
  BY <1>5 DEF Cancel, Signal, AllDone, vars
<1> QED BY <1>1, <1>2, <1>3, <1>4, <1>5 DEF Next

(* Past the terminal row the heartbeat thread finds the scan inactive. *)
LEMMA BeatStepInv ==
    ASSUME FlagsOK, DataOK, StatusInv, BeatInv, [Next]_vars
    PROVE  BeatInv'
<1> USE DEF BeatInv, None
<1>1. CASE BeatTest
  <2>1. row # None => ~active
    BY DEF StatusInv, PastStop
  <2>2. UNCHANGED <<row, late>> /\ (beat' = "due" => active)
    BY <1>1 DEF BeatTest, report
  <2> QED BY <2>1, <2>2
<1>2. CASE BeatNotDue
  BY <1>2 DEF BeatNotDue, report
<1>3. CASE BeatRow
  <2>1. beat = "due" /\ beat' = "test" /\ row' = row /\ late = 0
    BY <1>3 DEF BeatRow, DataOK, MaxLate
  <2>2. late' \in {0, 1} /\ (late' = 1 => row # None)
    BY <1>3, <2>1 DEF BeatRow, Late
  <2> QED BY <2>1, <2>2
<1>4. CASE UNCHANGED <<late, row>> /\ beat' \in {beat, "off"}
  BY <1>4
<1>5. ASSUME late = 0, late' = late PROVE BeatInv'
  BY <1>5
<1>6. CASE \E w \in Workers : WorkerStep(w) \/ WorkerDies(w)
  BY <1>6, <1>4 DEF WorkerStep, WorkerDies, Take, TakeSentinel, GetTimesOut, ScanFile, Frame, report
<1>7. CASE \/ \E f \in Files : Meet(f) \/ Appear(f)
           \/ WatcherStep \/ Cancel \/ Signal \/ TargetRaises \/ WalkRaises \/ WalkEnds
           \/ PutSentinel \/ PutTimesOut \/ JoinWorkers \/ ConsumeFlag \/ Deactivate \/ Conclude
           \/ Report \/ ReportRaises
  BY <1>7, <1>4 DEF Meet, Appear, WatcherStep, WatcherTest, WatcherLook, Cancel, Signal,
                    TargetRaises, WalkRaises, WalkEnds, PutSentinel, PutTimesOut, JoinWorkers,
                    ConsumeFlag, Deactivate, Conclude, Report, ReportRaises, report
<1>8. CASE EmitTerminalRow \/ ConcludeFailed \/ ConcludeReported
  <2>1. row # None => ~(ConcludeFailed \/ ConcludeReported)
    BY DEF StatusInv, Main, ConcludeFailed, ConcludeReported
  <2>2. UNCHANGED <<late, beat>>
    BY <1>8 DEF EmitTerminalRow, ConcludeFailed, ConcludeReported
  <2>3. EmitTerminalRow => row' # None
    BY VerdictType DEF EmitTerminalRow, Verdicts
  <2> QED BY <1>8, <2>1, <2>2, <2>3
<1>9. CASE FinalLogRaises
  BY <1>9 DEF FinalLogRaises
<1>10. CASE WriteSummary \/ AllDone \/ UNCHANGED vars
  BY <1>10, <1>4 DEF WriteSummary, Exit, AllDone, vars, report
<1>11. CASE Compiled
  BY <1>11 DEF Compiled, report
<1>12. CASE JudgeFlag \/ RemoveFlag \/ JudgeRaises
  BY <1>12 DEF JudgeFlag, RemoveFlag, JudgeRaises, StartThreads, report
<1> QED
  BY <1>1, <1>2, <1>3, <1>6, <1>7, <1>8, <1>9, <1>10, <1>11, <1>12 DEF Next, MainStep, BeatStep

-----------------------------------------------------------------------------
(* The steps that touch neither the files nor the workers. *)
Aside ==
    \/ Cancel \/ Signal \/ WatcherStep \/ BeatStep \/ AllDone \/ UNCHANGED vars
    \/ FinalLogRaises \/ ReportRaises
    \/ ConsumeFlag \/ Deactivate \/ EmitTerminalRow \/ Conclude \/ ConcludeFailed
    \/ Report \/ ConcludeReported

LEMMA AsideFrame ==
    ASSUME FlagsOK, Aside
    PROVE  /\ UNCHANGED <<work, hold, place, sentinels, gaveUp>>
           /\ Unspoiled' => Unspoiled
           /\ ~failed' => ~failed
           /\ mpc' = mpc \/ (PastWait /\ PastWait' /\ mpc # "exited" /\ mpc' # "exited")
<1> USE DEF FlagsOK, PastWait, Starting, Unspoiled, Main, status, threads, queue
<1>1. CASE Cancel \/ Signal \/ AllDone \/ UNCHANGED vars
  BY <1>1 DEF Cancel, Signal, AllDone, vars
<1>2. CASE WatcherStep \/ BeatStep
  BY <1>2 DEF WatcherStep, WatcherTest, WatcherLook, RequestCancel, BeatStep, BeatTest,
              BeatNotDue, BeatRow
<1>3. CASE FinalLogRaises \/ ReportRaises
  BY <1>3 DEF FinalLogRaises, ReportRaises, Crash
<1>4. CASE ConsumeFlag \/ Deactivate \/ EmitTerminalRow \/ Conclude \/ ConcludeFailed
  BY <1>4 DEF ConsumeFlag, Deactivate, EmitTerminalRow, Conclude, ConcludeFailed
<1>5. CASE Report \/ ConcludeReported
  BY <1>5 DEF Report, ConcludeReported
<1> QED BY <1>1, <1>2, <1>3, <1>4, <1>5 DEF Aside

LEMMA WorkStep ==
    ASSUME FlagsOK, DataOK, StatusInv, WorkInv, [Next]_vars
    PROVE  WorkInv'
<1> USE DEF WorkInv, DataOK, FilesQueued, PastWait, Starting
<1>0. mpc \in {"walk", "sentinels"} /\ Unspoiled => active
  BY DEF StatusInv, PastStop
<1>1. CASE Aside
  <2>1. UNCHANGED <<work, hold, place, sentinels, gaveUp>>
    BY <1>1, AsideFrame
  <2>2. (Unspoiled' => Unspoiled) /\ (~failed' => ~failed)
    BY <1>1, AsideFrame
  <2>3. mpc' = mpc \/ (PastWait /\ PastWait' /\ mpc # "exited" /\ mpc' # "exited")
    BY <1>1, AsideFrame
  <2> QED BY <2>1, <2>2, <2>3 DEF PastWait
<1>2. CASE Compiled \/ JudgeFlag \/ RemoveFlag \/ JudgeRaises
  <2>1. Starting /\ mpc # "exited" /\ mpc # "sentinels"
    BY <1>2 DEF Compiled, JudgeFlag, RemoveFlag, JudgeRaises, Starting
  <2>2. \A f \in Files : ~failed => place[f] # "held"
    BY <2>1
  <2>3. UNCHANGED <<failed, hold, place, sentinels>> /\ ~(sentinels > 0)
    BY <1>2, <2>1
       DEF Compiled, JudgeFlag, RemoveFlag, JudgeRaises, status, queue, threads
  <2>4. \/ mpc' \in {"judge", "stale"} /\ work' = work
        \/ mpc' = "walk" /\ work' = [w \in Workers |-> "get"]
    BY <1>2 DEF Compiled, JudgeFlag, RemoveFlag, JudgeRaises, StartThreads, threads
  <2> QED BY <2>1, <2>2, <2>3, <2>4 DEF Starting, PastWait
<1>3. ASSUME NEW f \in Files, Meet(f) \/ Appear(f) PROVE WorkInv'
  <2>1. PICK x \in Places \ {"held"} : place' = [place EXCEPT ![f] = x]
    BY <1>3 DEF Meet, Appear, Places
  <2>2. UNCHANGED <<mpc, active, cancelled, failed, work, hold, sentinels, gaveUp>> /\ mpc = "walk"
    BY <1>3 DEF Meet, Appear, threads, status
  <2> QED BY <2>1, <2>2 DEF Unspoiled
<1>4. CASE WalkEnds \/ TargetRaises \/ WalkRaises
  <2>1. mpc = "walk" /\ mpc' = "sentinels" /\ UNCHANGED <<work, hold, place, sentinels>>
    BY <1>4 DEF WalkEnds, TargetRaises, WalkRaises, GoCleanUp, threads
  <2>2. (Unspoiled' => Unspoiled) /\ (~failed' => ~failed)
    BY <1>4 DEF WalkEnds, TargetRaises, WalkRaises, MarkScanFailed, status, Unspoiled, FlagsOK
  <2>3. ~gaveUp' /\ Unspoiled' => \A f \in Files : place[f] # "disk"
    BY <1>0, <1>4, <2>1, <2>2
       DEF WalkEnds, TargetRaises, WalkRaises, MarkScanFailed, Unspoiled
  <2> QED BY <2>1, <2>2, <2>3
<1>5. ASSUME NEW w \in Workers, NEW f \in Files, Take(w, f) PROVE WorkInv'
  <2>1. /\ work[w] = "get" /\ place[f] = "queue"
        /\ place' = [place EXCEPT ![f] = "held"] /\ hold' = [hold EXCEPT ![w] = f]
        /\ work' = [work EXCEPT ![w] = "busy"]
        /\ UNCHANGED <<mpc, cancelled, failed, sentinels, gaveUp>>
    BY <1>5 DEF Take, Frame, status
  <2>2. ~failed /\ mpc # "exited" =>
            \A g \in Files : place'[g] = "held" => \E v \in Workers : work'[v] = "busy" /\ hold'[v] = g
    <3> SUFFICES ASSUME ~failed, mpc # "exited", NEW g \in Files, place'[g] = "held"
                 PROVE  \E v \in Workers : work'[v] = "busy" /\ hold'[v] = g
      OBVIOUS
    <3>1. CASE g = f
      BY <2>1, <3>1
    <3>2. CASE g # f
      <4>1. PICK v \in Workers : work[v] = "busy" /\ hold[v] = g
        BY <2>1, <3>2
      <4> QED BY <2>1, <4>1
    <3> QED BY <3>1, <3>2
  <2> QED BY <2>1, <2>2 DEF Unspoiled
<1>6. ASSUME NEW w \in Workers, TakeSentinel(w) \/ GetTimesOut(w) PROVE WorkInv'
  <2>1. /\ work[w] = "get" /\ work'[w] \in {"get", "gone"} /\ sentinels' <= sentinels
        /\ \A v \in Workers \ {w} : work'[v] = work[v]
        /\ UNCHANGED <<mpc, cancelled, failed, gaveUp, place, hold>>
    BY <1>6 DEF TakeSentinel, GetTimesOut, NextRound, Frame, status
  <2>2. work'[w] = "gone" => ~active \/ (sentinels > 0 /\ ~FilesQueued)
    BY <1>6 DEF TakeSentinel, GetTimesOut, NextRound
  <2>3. ~Starting
    BY <2>1
  <2>4. sentinels' \in Nat /\ (sentinels' > 0 => sentinels > 0)
    BY <1>6 DEF TakeSentinel, GetTimesOut
  <2> QED BY <1>0, <2>1, <2>2, <2>3, <2>4 DEF Unspoiled
<1>7. ASSUME NEW w \in Workers, ScanFile(w) PROVE WorkInv'
  <2>1. PICK x \in {"scanned", "skipped"} : place' = [place EXCEPT ![hold[w]] = x]
    BY <1>7 DEF ScanFile
  <2>2. /\ work[w] = "busy" /\ work'[w] \in {"get", "gone"} /\ (work'[w] = "gone" => ~active)
        /\ \A v \in Workers \ {w} : work'[v] = work[v] /\ hold'[v] = hold[v]
        /\ UNCHANGED <<mpc, cancelled, failed, gaveUp, sentinels>>
    BY <1>7 DEF ScanFile, NextRound, Frame, status
  <2>3. ~Starting
    BY <2>2
  <2>4. \A g \in Files : /\ place'[g] \in {place[g], "scanned", "skipped"}
                         /\ place'[g] = "held" => g # hold[w]
    BY <2>1
  <2> QED BY <1>0, <2>2, <2>3, <2>4 DEF Unspoiled
<1>8. ASSUME NEW w \in Workers, WorkerDies(w) PROVE WorkInv'
  <2>1. /\ failed' /\ UNCHANGED <<mpc, sentinels>> /\ work[w] = "busy"
    BY <1>8 DEF WorkerDies, MarkScanFailed, Frame
  <2> QED BY <2>1 DEF Unspoiled
<1>9. CASE PutSentinel \/ PutTimesOut
  BY <1>9 DEF PutSentinel, PutTimesOut, threads, status, Unspoiled
<1>10. CASE JoinWorkers
  BY <1>10 DEF JoinWorkers, Main, threads, queue, status, Unspoiled
<1>11. CASE WriteSummary
  BY <1>11 DEF WriteSummary, Exit, Main, queue
<1> QED
  BY <1>1, <1>2, <1>3, <1>4, <1>5, <1>6, <1>7, <1>8, <1>9, <1>10, <1>11
     DEF Next, MainStep, WorkerStep, Aside

(* Once there is nothing left to do, there never is. *)
LEMMA StaysDone ==
    ASSUME DataOK, PastWait, Unfinished = {}, [Next]_vars, FlagsOK
    PROVE  Unfinished' = {}
<1> USE DEF Unfinished, DataOK
<1>1. CASE Aside
  BY <1>1, AsideFrame
<1>2. CASE \/ Compiled \/ JudgeFlag \/ RemoveFlag \/ JudgeRaises
           \/ WalkEnds \/ TargetRaises \/ WalkRaises
           \/ (\E f \in Files : Meet(f) \/ Appear(f))
           \/ PutSentinel \/ PutTimesOut \/ JoinWorkers
  BY <1>2 DEF Compiled, JudgeFlag, RemoveFlag, JudgeRaises, WalkEnds, TargetRaises, WalkRaises,
              Meet, Appear, PutSentinel, PutTimesOut, JoinWorkers, Main, PastWait, Starting
<1>3. CASE \E w \in Workers, f \in Files : Take(w, f)
  BY <1>3 DEF Take
<1>4. CASE \E w \in Workers : TakeSentinel(w) \/ GetTimesOut(w) \/ WorkerDies(w)
  BY <1>4 DEF TakeSentinel, GetTimesOut, WorkerDies
<1>5. ASSUME NEW w \in Workers, ScanFile(w) PROVE Unfinished' = {}
  BY <1>5 DEF ScanFile
<1>6. CASE WriteSummary
  BY <1>6 DEF WriteSummary, Exit, queue
<1> QED BY <1>1, <1>2, <1>3, <1>4, <1>5, <1>6 DEF Next, MainStep, WorkerStep, Aside

Due == (PastWait /\ Unspoiled) \/ mpc = "saysCompleted" \/ row = "completed"

(* But for the wait for the workers, no step makes a scan answer for its     *)
(* files that did not answer for them before.                                *)
LEMMA DueStep ==
    ASSUME FlagsOK, StatusInv, row = "completed" => PastWait, ~JoinWorkers, [Next]_vars
    PROVE  /\ PastWait <=> PastWait'
           /\ Due' => Due
           /\ ~gaveUp' => ~gaveUp
<1> USE DEF FlagsOK, Due, PastWait, Starting, Unspoiled, Main, status, report
<1>1. CASE Cancel \/ Signal \/ AllDone \/ UNCHANGED vars
  BY <1>1 DEF Cancel, Signal, AllDone, vars
<1>2. CASE WatcherStep
  BY <1>2 DEF WatcherStep, WatcherTest, WatcherLook, RequestCancel
<1>3. CASE BeatStep
  BY <1>3 DEF BeatStep, BeatTest, BeatNotDue, BeatRow
<1>4. CASE FinalLogRaises
  BY <1>4 DEF FinalLogRaises, Crash
<1>5. CASE ConsumeFlag \/ Deactivate \/ Conclude \/ ReportRaises
  BY <1>5 DEF ConsumeFlag, Deactivate, Conclude, ReportRaises
<1>6. CASE EmitTerminalRow
  BY <1>6 DEF EmitTerminalRow, Verdict
<1>7. CASE ConcludeFailed \/ Report
  BY <1>7 DEF ConcludeFailed, Report
<1>8. CASE ConcludeReported
  <2>1. row' = "completed" => mpc = "saysCompleted"
    BY <1>8 DEF ConcludeReported, None
  <2>2. /\ mpc \in {"saysCancelled", "saysCompleted", "saysNothing"} /\ mpc' = "summary"
        /\ UNCHANGED <<cancelled, failed, gaveUp>>
    BY <1>8 DEF ConcludeReported
  <2> QED BY <2>1, <2>2
<1>13. CASE Compiled \/ JudgeFlag \/ RemoveFlag \/ JudgeRaises
  BY <1>13 DEF Compiled, JudgeFlag, RemoveFlag, JudgeRaises, StartThreads
<1>9. CASE WalkEnds \/ TargetRaises \/ WalkRaises
  BY <1>9 DEF WalkEnds, TargetRaises, WalkRaises, GoCleanUp, MarkScanFailed
<1>10. CASE (\E f \in Files : Meet(f) \/ Appear(f)) \/ PutSentinel \/ PutTimesOut
  BY <1>10 DEF Meet, Appear, PutSentinel, PutTimesOut
<1>11. CASE \E w \in Workers : WorkerStep(w) \/ WorkerDies(w)
  BY <1>11 DEF WorkerStep, WorkerDies, Take, TakeSentinel, GetTimesOut, ScanFile, Frame,
               MarkScanFailed
<1>12. CASE WriteSummary
  BY <1>12 DEF WriteSummary, Exit
<1> QED
  BY <1>1, <1>2, <1>3, <1>4, <1>5, <1>6, <1>7, <1>8, <1>9, <1>10, <1>11, <1>12, <1>13
     DEF Next, MainStep

LEMMA DrainStep ==
    ASSUME FlagsOK, DataOK, StatusInv, WorkInv, DrainInv, [Next]_vars
    PROVE  DrainInv'
<1>1. CASE JoinWorkers
  <2>1. mpc = "sentinels" /\ mpc' = "joined" /\ UNCHANGED <<row, work, hold, place, cancelled, failed>>
    BY <1>1 DEF JoinWorkers, Main, report, threads, queue, status
  <2>2. row # "completed"
    BY <2>1 DEF DrainInv, PastWait
  <2>3. ASSUME ~gaveUp', Due' PROVE Unfinished' = {}
    <3>0. Unspoiled' /\ ~gaveUp
      BY <1>1, <2>1, <2>2, <2>3 DEF JoinWorkers, Due, FlagsOK
    <3>1. Unspoiled /\ ~gaveUp
      BY <2>1, <3>0 DEF Unspoiled
    <3>2. \A w \in Workers : work[w] = "gone"
      BY <1>1, <2>3 DEF JoinWorkers
    <3>3. \A f \in Files : place[f] # "disk" /\ place[f] # "held"
      BY <2>1, <3>1, <3>2 DEF WorkInv, Unspoiled
    <3>4. ~FilesQueued
      BY <2>1, <3>1, <3>2, ScanAssumption DEF WorkInv, PastWait
    <3> QED BY <2>1, <3>3, <3>4 DEF Unfinished, FilesQueued
  <2> QED BY <2>1, <2>2, <2>3 DEF DrainInv, Due, PastWait
<1>2. CASE ~JoinWorkers
  <2>1. (PastWait <=> PastWait') /\ (Due' => Due) /\ (~gaveUp' => ~gaveUp)
    BY <1>2, DueStep DEF DrainInv
  <2>2. Due => PastWait
    BY DEF Due, DrainInv, PastWait, Starting
  <2>3. ASSUME ~gaveUp', Due' PROVE Unfinished' = {}
    <3>1. PastWait /\ Unfinished = {}
      BY <2>1, <2>2, <2>3 DEF DrainInv, Due
    <3> QED BY <3>1, StaysDone
  <2>4. row' = "completed" => PastWait'
    BY <2>1, <2>2 DEF Due
  <2> QED BY <2>3, <2>4 DEF DrainInv, Due
<1> QED BY <1>1, <1>2

-----------------------------------------------------------------------------
(* RInv is inductive: whatever the threads interleave, the flags, the queue  *)
(* and the statuses agree (scan_system, _worker, run and main).              *)
THEOREM RunInductive == Spec => []RInv
<1>1. RInv /\ [Next]_vars => RInv'
  BY FlagsStep, DataStep, StatusStep, LeftoverStep, BeatStepInv, WorkStep, DrainStep DEF RInv, TypeOK
<1> QED BY <1>1, RInit, PTL DEF Spec

(* Every variable keeps its type; the queue never holds more than its size,  *)
(* nor more sentinels than there are workers.                                *)
THEOREM RunTyped == Spec => []TypeOK
<1>1. RInv => TypeOK
  BY DEF RInv
<1> QED BY <1>1, RunInductive, PTL

(* A scan that says "completed" has been through every file, if the workers  *)
(* were gone in time and no target raised (_perform_enhanced_cleanup).       *)
THEOREM CompletedIsComplete == Spec => []DrainedIsComplete
<1>1. RInv => DrainedIsComplete
  BY DEF RInv, DrainInv, DrainedIsComplete
<1> QED BY <1>1, RunInductive, PTL

(* The lifecycle row, the result line and the summary are read at three      *)
(* moments; a later one is never better than an earlier one, and one late    *)
(* "running" row at most follows the terminal one.                           *)
THEOREM StatusesAgree == Spec => []SummaryNeverRosier
<1>1. RInv => SummaryNeverRosier
  <2> SUFFICES ASSUME RInv PROVE SummaryNeverRosier
    OBVIOUS
  <2>1. late <= 1
    BY DEF RInv, BeatInv
  <2>2. outcome # None => mpc = "exited" /\ outcome = Verdict
    BY DEF RInv, StatusInv
  <2>3. outcome = "completed" => ~cancelled /\ ~failed /\ mpc = "exited"
    BY <2>2 DEF Verdict, None
  <2>4. outcome = "completed" => result = "completed" /\ row \in {"completed", None}
    BY <2>3 DEF RInv, TypeOK, FlagsOK, StatusInv, Verdicts
  <2>5. (row = "cancelled" \/ result = "cancelled") => outcome \in {"cancelled", None}
    BY <2>2 DEF RInv, StatusInv, Verdict
  <2> QED BY <2>1, <2>4, <2>5 DEF SummaryNeverRosier
<1> QED BY <1>1, RunInductive, PTL

(* A cancel.flag older than the process never cancels its scan, unless the   *)
(* look at its age or its removal raised (_start_cancellation_watcher: both  *)
(* come before the watcher is started).                                      *)
THEOREM LeftoverIgnored == Spec => OldFlagIgnored
<1>1. RInv /\ [Next]_vars =>
        [WatcherLook /\ ~cancelled /\ cancelled' => flag # "old" \/ unjudged]_vars
  BY DEF RInv, FlagInv, WatcherLook, Alive
<1> QED BY <1>1, RunInductive, PTL DEF Spec, OldFlagIgnored
=============================================================================
