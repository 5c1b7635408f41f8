------------------------------ MODULE Delivery ------------------------------
(***************************************************************************)
(* The uploaders: a queue, one daemon worker that sends what is in it in    *)
(* batches, and stop(), which gives the backlog a bounded window, raises    *)
(* the flag, puts the sentinel, waits for the worker and closes the books.  *)
(*                                                                          *)
(* Four channels are built this way and differ in the details below:        *)
(*   "alerts"     ResultsUploader, XDR: storm cap, rollups, requeue         *)
(*   "matches"    ResultsUploader, XSIAM                                    *)
(*   "telemetry"  WebhookUploader, XSIAM: circuit breaker                   *)
(*   "logs"       LogManager, XSIAM: one attempt, critical messages         *)
(* A behaviour is about one of them.  The XDR dataset channel is the module *)
(* LookupUploader.                                                          *)
(***************************************************************************)
EXTENDS Naturals, FiniteSets

CONSTANTS
    Findings,       \* pairs of a rule and a path; for the others, any event
    Cap,            \* CONFIG_ALERT_MAX_PER_SCAN; 0: no cap
    BatchSize,      \* ALERT_BATCH_SIZE, UPLOAD_BATCH_MAX_EVENTS
    Retries,        \* MAX_RETRIES_PER_ITEM
    Threshold,      \* CIRCUIT_FAILURE_THRESHOLD
    Unbuildable,    \* items _alert_dict cannot make an alert of (XDR)
    Orphans         \* may a scan worker outlive the five seconds it is waited for?

ASSUME DeliveryAssumption ==
    /\ IsFiniteSet(Findings)
    /\ \A f \in Findings : f = <<f[1], f[2]>> /\ f[2] # "rollup"
    /\ Cap \in Nat /\ BatchSize \in Nat \ {0} /\ Retries \in Nat \ {0}
    /\ Threshold \in Nat \ {0} /\ Orphans \in BOOLEAN

VARIABLES
    channel,
    seen, suppressed,     \* findings added; those beyond the cap
    pending,              \* items on their way into the queue
    put,                  \* items the channel has taken charge of
    uncounted,            \* those alerts_queued does not have yet (XDR)
    ahead, behind,        \* the queue before, and after, the sentinel
    sentinel,             \* "unput", "queued", "taken"
    wpc, batch, leaving,  \* the worker; is the batch its last?
    attempt, limited,     \* of the batch; was the last answer a rate limit?
    lapsed,               \* is the time for requeuing over (_deliver_deadline)?
    circuit, fails,       \* CircuitBreaker
    spc, toRoll,          \* stop(); rules whose rollup is still to be queued
    flag,                 \* stop_upload_thread
    landed,               \* what the server has
    ok, failed, undelivered,    \* upload_stats
    short, cleaned        \* the shortfall, and what the host cleanup did

findings == <<seen, suppressed, pending>>
queue == <<ahead, behind, sentinel>>
worker == <<wpc, batch, leaving, attempt, limited>>
breaker == <<circuit, fails>>
books == <<ok, failed, undelivered>>
stopping == <<spc, toRoll, flag>>
ending == <<short, cleaned>>
items == <<put, uncounted>>
vars == <<channel, findings, items, queue, worker, lapsed, breaker, stopping,
          landed, books, ending>>

Rules == {f[1] : f \in Findings}
Rollup(r) == <<r, "rollup">>
Items == Findings \cup {Rollup(r) : r \in Rules}
Alerts == channel = "alerts"
Flagged == channel \in {"alerts", "matches"}   \* the flag is looked at every round
Waiting == ahead \cup behind
Counting(i) == IF Alerts THEN uncounted' = uncounted \cup {i} ELSE UNCHANGED uncounted

Init ==
    /\ channel \in {"alerts", "matches", "telemetry", "logs"}
    /\ seen = {} /\ suppressed = {} /\ pending = {}
    /\ put = {} /\ uncounted = {}
    /\ ahead = {} /\ behind = {} /\ sentinel = "unput"
    /\ wpc = "test" /\ batch = {} /\ leaving = FALSE /\ attempt = 0 /\ limited = FALSE
    /\ lapsed = FALSE /\ circuit = "closed" /\ fails = 0
    /\ spc = "idle" /\ toRoll = {} /\ flag = FALSE
    /\ landed = {} /\ ok = 0 /\ failed = 0 /\ undelivered = 0
    /\ short = FALSE /\ cleaned = "no"

-----------------------------------------------------------------------------
(* The scan workers.  But for telemetry nothing is queued for a worker that  *)
(* is not alive; the test, the put and its count are three moments.          *)
Adding == spc = "idle" \/ (Orphans /\ spc # "exited")

(* Under _findings_lock: beyond the cap a finding is only counted. *)
OverCap == Alerts /\ Cap > 0 /\ Cardinality(seen \ suppressed) >= Cap

AddMatch(f) ==
    /\ Adding /\ f \in Findings \ seen
    /\ wpc # "gone" \/ channel = "telemetry"
    /\ seen' = seen \cup {f}
    /\ IF OverCap
       THEN suppressed' = suppressed \cup {f} /\ UNCHANGED pending
       ELSE pending' = pending \cup {f} /\ UNCHANGED suppressed
    /\ UNCHANGED <<channel, items, queue, worker, lapsed, breaker, stopping, landed,
                   books, ending>>

(* queue.put: what is put goes to the end. *)
Append(S) ==
    IF sentinel = "unput" THEN ahead' = ahead \cup S /\ UNCHANGED behind
                          ELSE behind' = behind \cup S /\ UNCHANGED ahead

Enqueue(f) ==
    /\ f \in pending /\ spc # "exited"
    /\ pending' = pending \ {f} /\ put' = put \cup {f} /\ Counting(f)
    /\ Append({f})
    /\ UNCHANGED <<channel, seen, suppressed, sentinel, worker, lapsed, breaker,
                   stopping, landed, books, ending>>

(* alerts_queued += 1, after the put: the item may be delivered by then. *)
CountQueued(f) ==
    /\ f \in uncounted /\ spc # "exited"
    /\ uncounted' = uncounted \ {f}
    /\ UNCHANGED <<channel, findings, put, queue, worker, lapsed, breaker, stopping, landed,
                   books, ending>>

(* _log_critical: the message is sent at once; if no clean answer came, the *)
(* queue has it as well, whether or not the server does.                     *)
LogCritical(f) ==
    /\ channel = "logs" /\ spc = "idle" /\ f \in Findings \ seen
    /\ seen' = seen \cup {f} /\ put' = put \cup {f}
    /\ \/ landed' = landed \cup {f} /\ ok' = ok + 1
          /\ UNCHANGED <<ahead, behind, failed>>
       \/ /\ landed' \in {landed, landed \cup {f}}
          /\ UNCHANGED ok
          /\ IF wpc # "gone" THEN Append({f}) /\ UNCHANGED failed
                             ELSE failed' = failed + 1 /\ UNCHANGED <<ahead, behind>>
    /\ UNCHANGED <<channel, suppressed, pending, uncounted, sentinel, worker, lapsed,
                   breaker, stopping, undelivered, ending>>

-----------------------------------------------------------------------------
(* The worker. *)
WorkerFrame == UNCHANGED <<channel, findings, items, lapsed, stopping, undelivered, ending>>

Send == wpc' = IF channel = "telemetry" THEN "allow" ELSE "send"
Leave == IF batch = {} THEN wpc' = "gone" /\ UNCHANGED leaving
                       ELSE Send /\ leaving' = TRUE

(* Seeded fault: the flag is looked at only when the queue is empty. *)
NoTest ==
    /\ wpc = "test" /\ wpc' = "get" /\ UNCHANGED leaving
    /\ UNCHANGED <<batch, attempt, limited, queue, breaker, landed, ok, failed>>
    /\ WorkerFrame

(* The flag comes before the queue, which may never be empty. *)
Test ==
    /\ wpc = "test"
    /\ IF Flagged /\ flag THEN Leave ELSE wpc' = "get" /\ UNCHANGED leaving
    /\ UNCHANGED <<batch, attempt, limited, queue, breaker, landed, ok, failed>>
    /\ WorkerFrame

(* XDR: one item at a time, until the batch is full. *)
Take(i) ==
    /\ Alerts /\ wpc = "get" /\ i \in ahead
    /\ ahead' = ahead \ {i} /\ batch' = batch \cup {i}
    /\ wpc' = IF Cardinality(batch') >= BatchSize THEN "send" ELSE "test"
    /\ UNCHANGED <<behind, sentinel, leaving, attempt, limited, breaker, landed, ok, failed>>
    /\ WorkerFrame

(* XSIAM: all that is there, up to a number of events and of bytes. *)
CollectBatch(S) ==
    /\ ~Alerts /\ wpc = "get"
    /\ S # {} /\ S \subseteq ahead /\ Cardinality(S) <= BatchSize
    /\ ahead' = ahead \ S /\ batch' = S
    /\ \/ UNCHANGED <<sentinel, leaving>>           \* a cap was reached, or no sentinel
       \/ /\ S = ahead /\ Cardinality(S) < BatchSize /\ sentinel = "queued"
          /\ sentinel' = "taken" /\ leaving' = TRUE
    /\ Send
    /\ UNCHANGED <<behind, attempt, limited, breaker, landed, ok, failed>>
    /\ WorkerFrame

GetSentinel ==
    /\ wpc = "get" /\ ahead = {} /\ sentinel = "queued"
    /\ sentinel' = "taken"
    /\ Leave
    /\ UNCHANGED <<ahead, behind, batch, attempt, limited, breaker, landed, ok, failed>>
    /\ WorkerFrame

(* Nothing came for a while. *)
Quiet ==
    /\ wpc = "get" /\ Waiting = {} /\ sentinel = "unput"
    /\ \/ flag /\ Leave
       \/ ~flag /\ batch # {} /\ Send /\ UNCHANGED leaving
       \/ ~flag /\ wpc' = "test" /\ UNCHANGED leaving
    /\ UNCHANGED <<batch, attempt, limited, queue, breaker, landed, ok, failed>>
    /\ WorkerFrame

(* CircuitBreaker.allow: an open circuit lets nothing through before its    *)
(* time is over.                                                             *)
Allow ==
    /\ wpc = "allow"
    /\ \/ circuit # "open" /\ wpc' = "send" /\ UNCHANGED circuit
       \/ circuit = "open" /\ wpc' = "send" /\ circuit' = "half_open"
       \/ circuit = "open" /\ wpc' = "back" /\ UNCHANGED circuit
    /\ UNCHANGED <<batch, leaving, attempt, limited, queue, fails, landed, ok, failed>>
    /\ WorkerFrame

OnSuccess == circuit' = "closed" /\ fails' = 0
OnFailure ==
    /\ fails' = IF fails < Threshold THEN fails + 1 ELSE fails
    /\ circuit' = IF circuit = "half_open" \/ fails' >= Threshold THEN "open" ELSE circuit

BatchDone ==
    /\ batch' = {} /\ attempt' = 0 /\ limited' = FALSE
    /\ wpc' = (IF leaving THEN "gone" ELSE "test") /\ UNCHANGED leaving

(* An alert that cannot be built is skipped, and no book has it. *)
Unbooked == IF Alerts THEN Unbuildable ELSE {}
Built == batch \ Unbooked
Posting == wpc = "send" /\ Built # {}

NothingBuilt ==
    /\ wpc = "send" /\ Built = {}
    /\ BatchDone
    /\ UNCHANGED <<queue, breaker, landed, ok, failed>> /\ WorkerFrame

ReplyOk ==
    /\ Posting
    /\ landed' = landed \cup Built /\ ok' = ok + Cardinality(Built)
    /\ IF channel = "telemetry" THEN OnSuccess ELSE UNCHANGED breaker
    /\ BatchDone
    /\ UNCHANGED <<queue, failed>> /\ WorkerFrame

(* A status that is not worth a retry, the body `false`, or an error nobody *)
(* expected: the batch may have landed in this attempt or an earlier one.   *)
ReplyRefused ==
    /\ Posting
    /\ landed' \in {landed, landed \cup Built}
    /\ failed' = failed + Cardinality(Built)
    /\ IF channel = "telemetry" THEN OnFailure ELSE UNCHANGED breaker
    /\ BatchDone
    /\ UNCHANGED <<queue, ok>> /\ WorkerFrame

(* Seeded fault: one attempt too many. *)
OneMoreAttempt == channel = "logs" \/ attempt + 1 > Retries

LastAttempt == channel = "logs" \/ attempt + 1 >= Retries

(* No answer, or one that asks to come back: 408, 429, 5xx. *)
Retry(lim) ==
    /\ Posting /\ ~LastAttempt
    /\ attempt' = attempt + 1 /\ limited' = lim
    /\ landed' \in IF lim THEN {landed} ELSE {landed, landed \cup Built}
    /\ UNCHANGED <<wpc, batch, leaving, queue, breaker, ok, failed>> /\ WorkerFrame

(* The attempts are used up; the breaker is not told.  XDR: a batch that     *)
(* only met the rate limit goes back into the queue, whole.                  *)
Exhausted(lim) ==
    /\ Posting /\ LastAttempt
    /\ landed' \in IF lim THEN {landed} ELSE {landed, landed \cup Built}
    /\ IF Alerts /\ lim /\ ~flag /\ ~lapsed
       THEN wpc' = "back" /\ UNCHANGED <<batch, leaving, attempt, limited, failed>>
       ELSE failed' = failed + Cardinality(Built) /\ BatchDone
    /\ UNCHANGED <<queue, breaker, ok>> /\ WorkerFrame

(* One by one, to the end of the queue, which may by now be behind the      *)
(* sentinel.                                                                 *)
PutBack(i) ==
    /\ wpc = "back" /\ i \in batch
    /\ Append({i}) /\ batch' = batch \ {i}
    /\ UNCHANGED <<sentinel, wpc, leaving, attempt, limited, breaker, landed, ok, failed>>
    /\ WorkerFrame

PutBackDone ==
    /\ wpc = "back" /\ batch = {}
    /\ BatchDone
    /\ UNCHANGED <<queue, breaker, landed, ok, failed>> /\ WorkerFrame

Lapse ==
    /\ Alerts /\ ~lapsed /\ lapsed' = TRUE
    /\ UNCHANGED <<channel, findings, items, queue, worker, breaker, stopping, landed,
                   books, ending>>

-----------------------------------------------------------------------------
(* stop(), stop_uploader(), stop_logging(). *)
StopFrame == UNCHANGED <<channel, findings, worker, lapsed, breaker, landed, ok, failed>>

(* Seeded fault: only one rule gets its rollup. *)
OneRollup == IF suppressed = {} THEN {} ELSE {(CHOOSE f \in suppressed : TRUE)[1]}

Suppressing == {f[1] : f \in suppressed}

(* Called when the scan workers are gone, or were waited for in vain. *)
BeginStop ==
    /\ spc = "idle" /\ (Orphans \/ (pending = {} /\ uncounted = {}))
    /\ spc' = "rollup" /\ toRoll' = Suppressing
    /\ UNCHANGED <<items, queue, flag, undelivered, ending>> /\ StopFrame

(* One rule after the other: put, then counted. *)
Uncounted(r) == Rollup(r) \in uncounted

QueueRollup(r) ==
    /\ spc = "rollup" /\ r \in toRoll /\ \A q \in Rules : ~Uncounted(q)
    /\ toRoll' = toRoll \ {r} /\ put' = put \cup {Rollup(r)} /\ Counting(Rollup(r))
    /\ Append({Rollup(r)})
    /\ UNCHANGED <<spc, sentinel, flag, undelivered, ending>> /\ StopFrame

CountRollup(r) ==
    /\ spc = "rollup" /\ Uncounted(r)
    /\ uncounted' = uncounted \ {Rollup(r)}
    /\ UNCHANGED <<put, queue, spc, toRoll, flag, undelivered, ending>> /\ StopFrame

RollupsQueued ==
    /\ spc = "rollup" /\ toRoll = {} /\ \A r \in Rules : ~Uncounted(r)
    /\ spc' = "drain"
    /\ UNCHANGED <<items, queue, toRoll, flag, undelivered, ending>> /\ StopFrame

(* Seeded fault: the drain has no deadline. *)
DrainUntilEmpty ==
    /\ spc = "drain" /\ (Waiting = {} \/ wpc = "gone") /\ spc' = "flag"
    /\ UNCHANGED <<items, queue, toRoll, flag, undelivered, ending>> /\ StopFrame

(* The backlog has its window: until it is empty or the window is over. *)
Drain ==
    /\ spc = "drain" /\ spc' = "flag"
    /\ UNCHANGED <<items, queue, toRoll, flag, undelivered, ending>> /\ StopFrame

RaiseFlag ==
    /\ spc = "flag" /\ spc' = "sentinel" /\ flag' = TRUE
    /\ UNCHANGED <<items, queue, toRoll, undelivered, ending>> /\ StopFrame

PutSentinel ==
    /\ spc = "sentinel" /\ spc' = "join" /\ sentinel' = "queued"
    /\ UNCHANGED <<items, ahead, behind, toRoll, flag, undelivered, ending>> /\ StopFrame

(* Sixty seconds: with the flag looked at every round, only a request and   *)
(* its retries take that long.                                               *)
Join ==
    /\ spc = "join" /\ spc' = "count"
    /\ wpc = "gone" \/ wpc = "send" \/ ~Flagged
    /\ UNCHANGED <<items, queue, toRoll, flag, undelivered, ending>> /\ StopFrame

QueueSize == Cardinality(Waiting) + (IF sentinel = "queued" THEN 1 ELSE 0)
LessSentinel(n) == IF n > 0 THEN n - 1 ELSE 0

(* What is left is counted, exactly if the worker is gone; telemetry counts *)
(* the sentinel too, and the log channel nothing.                            *)
CloseBooks ==
    /\ spc = "count" /\ spc' = "summary"
    /\ IF Flagged /\ wpc = "gone"
       THEN /\ undelivered' = Cardinality(Waiting)
            /\ ahead' = {} /\ behind' = {} /\ sentinel' = "taken"
       ELSE /\ undelivered' = CASE Flagged -> LessSentinel(QueueSize)
                                [] channel = "telemetry" -> QueueSize
                                [] OTHER -> 0
            /\ UNCHANGED queue
    /\ UNCHANGED <<items, toRoll, flag, ending>> /\ StopFrame

-----------------------------------------------------------------------------
(* The summary, and the host cleanup of a run that completed. *)

(* Seeded fault: the shortfall is what the books call failed or undelivered. *)
BookedLoss == failed + undelivered > 0

(* _delivery_shortfall: everything counted as queued and not booked as      *)
(* delivered.                                                                *)
AlertsQueued == Cardinality(put \ uncounted)
Shortfall == AlertsQueued - ok > 0

Summarise ==
    /\ spc = "summary" /\ spc' = "clean" /\ short' = Shortfall
    /\ UNCHANGED <<items, queue, toRoll, flag, undelivered, cleaned>> /\ StopFrame

(* XDR: CONFIG_HOST_CLEANUP is off, on_delivery or always.  Then the process *)
(* ends, and the worker with it.                                             *)
HostCleanup ==
    /\ spc = "clean" /\ spc' = "exited"
    /\ cleaned' \in {"no"} \cup (IF Alerts THEN {"always"} ELSE {})
                           \cup (IF Alerts /\ ~short THEN {"on_delivery"} ELSE {})
    /\ wpc' = "gone" /\ batch' = {} /\ leaving' = FALSE /\ attempt' = 0 /\ limited' = FALSE
    /\ UNCHANGED <<channel, findings, items, queue, lapsed, breaker, toRoll, flag, landed,
                   books, short>>

AllDone == spc = "exited" /\ UNCHANGED vars

-----------------------------------------------------------------------------
WorkerStep ==
    \/ Test \/ GetSentinel \/ Quiet \/ Allow \/ NothingBuilt \/ ReplyOk \/ ReplyRefused
    \/ PutBackDone
    \/ \E i \in Items : Take(i) \/ PutBack(i)
    \/ \E S \in SUBSET ahead : CollectBatch(S)
    \/ \E lim \in BOOLEAN : Retry(lim) \/ Exhausted(lim)

StopStep ==
    \/ RollupsQueued \/ Drain \/ RaiseFlag \/ PutSentinel \/ Join
    \/ CloseBooks \/ Summarise \/ HostCleanup
    \/ \E r \in Rules : QueueRollup(r) \/ CountRollup(r)

Next ==
    \/ spc # "exited" /\ WorkerStep
    \/ BeginStop \/ StopStep \/ Lapse \/ AllDone
    \/ \E f \in Findings : AddMatch(f) \/ Enqueue(f) \/ CountQueued(f) \/ LogCritical(f)

Spec == Init /\ [][Next]_vars

(* The threads run, a request is answered or times out, and stop() is not   *)
(* interrupted.  Neither the collector's answers nor the breaker's clock is *)
(* assumed to be kind.                                                       *)
FairSpec == Spec /\ WF_vars(spc # "exited" /\ WorkerStep) /\ WF_vars(StopStep)

-----------------------------------------------------------------------------
TypeOK ==
    /\ channel \in {"alerts", "matches", "telemetry", "logs"}
    /\ seen \subseteq Findings /\ suppressed \subseteq seen /\ pending \subseteq seen
    /\ put \subseteq Items /\ uncounted \subseteq put /\ landed \subseteq put
    /\ ahead \subseteq put /\ behind \subseteq put /\ batch \subseteq put
    /\ sentinel \in {"unput", "queued", "taken"}
    /\ wpc \in {"test", "get", "allow", "send", "back", "gone"}
    /\ leaving \in BOOLEAN /\ attempt \in 0..(Retries - 1) /\ limited \in BOOLEAN
    /\ lapsed \in BOOLEAN /\ flag \in BOOLEAN /\ short \in BOOLEAN
    /\ circuit \in {"closed", "open", "half_open"} /\ fails \in 0..Threshold
    /\ spc \in {"idle", "rollup", "drain", "flag", "sentinel", "join", "count",
                "summary", "clean", "exited"}
    /\ toRoll \subseteq Rules
    /\ ok \in Nat /\ failed \in Nat /\ undelivered \in Nat
    /\ cleaned \in {"no", "always", "on_delivery"}

(* "ok + failed + undelivered must be <= alerts_queued"                      *)
(* (xdr/docs/CAPABILITIES.md:3279): no item is in two books, although the    *)
(* worker may outlive stop(), and by the summary alerts_queued has every     *)
(* item; and once the worker is gone every item that could be sent is in one *)
(* book.                                                                     *)
BooksBalance ==
    Flagged =>
        /\ ok + failed + undelivered <= Cardinality(put)
        /\ spc \in {"summary", "clean"} /\ ~Orphans =>
               /\ AlertsQueued = Cardinality(put)
               /\ wpc = "gone" =>
                     ok + failed + undelivered >= Cardinality(put \ Unbooked)

(* A storm is bounded and told in full: at most Cap findings have an alert  *)
(* of their own, and when the drain begins each of the others is covered by *)
(* its rule's rollup.                                                        *)
StormIsTold ==
    /\ Alerts /\ Cap > 0 => Cardinality(put \cap Findings) <= Cap
    /\ spc \notin {"idle", "rollup"} /\ ~Orphans =>
           \A f \in seen : f \in put \/ Rollup(f[1]) \in put

(* With CONFIG_HOST_CLEANUP=on_delivery a run's local record is removed     *)
(* only if XDR has each finding, or the rollup that stands for it.          *)
OnlyCopyIsKept ==
    cleaned = "on_delivery" /\ ~Orphans =>
        \A f \in seen : f \in landed \/ Rollup(f[1]) \in landed

(* stop() returns and the process ends, whatever the collector answers. *)
StopReturns == (spc # "idle") ~> (spc = "exited")
=============================================================================
