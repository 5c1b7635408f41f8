--------------------------- MODULE LookupUploader ---------------------------
(***************************************************************************)
(* LookupDatasetUploader of xdr/xdr_yara_scanner.py: scan threads queue     *)
(* rows, one worker batches them per dataset and posts the batches, the     *)
(* main thread posts the terminal row itself, stops the worker, closes the  *)
(* books, and removes the local copy of the findings if the books say that  *)
(* everything was delivered.                                                *)
(*                                                                          *)
(* The queue is the rows waiting before the sentinel and the rows behind    *)
(* it; which of the waiting rows the worker gets next is left open.         *)
(***************************************************************************)
EXTENDS Naturals, FiniteSets

CONSTANTS
    Matches,      \* match records the scan threads may produce
    Beats,        \* queued lifecycle rows (heartbeats)
    End,          \* the terminal lifecycle row
    Skippable,    \* rows add_data skips silently
    BatchSize,    \* LOOKUP_DATASET_BATCH_SIZE
    MaxTries,     \* LOOKUP_ADD_DATA_MAX_RETRIES
    MaxTimeouts,  \* LOOKUP_TIMEOUT_MAX_ATTEMPTS
    Late,         \* may a thread queue rows after the cleanup stopped waiting?
    Slow          \* may stop() give up on the worker within its budget?

Rows == Matches \cup Beats \cup {End}
Datasets == {"matches", "scans"}
DatasetOf(r) == IF r \in Matches THEN "matches" ELSE "scans"

(* Who posts: the worker, the main thread, and one drain thread per dataset. *)
Senders == {"worker", "main"} \cup Datasets

ASSUME UploaderAssumption ==
    /\ IsFiniteSet(Matches) /\ IsFiniteSet(Beats)
    /\ Matches \cap Beats = {} /\ End \notin Matches \cup Beats
    /\ Skippable \subseteq Rows
    /\ BatchSize \in Nat \ {0} /\ MaxTries \in Nat /\ MaxTimeouts \in Nat \ {0}
    /\ Late \in BOOLEAN /\ Slow \in BOOLEAN

VARIABLES
    at,         \* [Rows -> Places]: where the row is
    fate,       \* [Rows -> Fates]: the counter that has it ("uncounted": none)
    copies,     \* [Matches -> Nat]: how often the dataset has the match
    post,       \* [Senders -> ...]: the rows being posted, and the tries
    due,        \* datasets whose flush interval is over
    flushing,   \* datasets the worker is still to flush on this timeout
    wpc,        \* where the worker is
    mpc,        \* where the main thread is
    sentinel,   \* "unsent", "queued" or "taken"
    stopFlag,   \* stop_flag
    local       \* are the run's findings still on the endpoint?

rows == <<at, fate, copies>>
worker == <<due, flushing, wpc>>
main == <<mpc, stopFlag, local>>
vars == <<rows, post, worker, main, sentinel>>

Places == {"unborn", "checked", "queue", "behind", "batch", "flight", "settled"}
Fates == {"none", "added", "skipped", "uncounted", "unconfirmed", "failed", "undelivered",
          "dropped"}
NoPost == [rows |-> {}, tries |-> 0, timeouts |-> 0]

Batch(d) == {r \in Rows : at[r] = "batch" /\ DatasetOf(r) = d}
Waiting == {r \in Rows : at[r] \in {"queue", "behind"}}
Queued == {r \in Rows : at[r] \notin {"unborn", "checked"} /\ fate[r] # "dropped"}
Landed == {r \in Rows : fate[r] \in {"added", "skipped"}}

Running == mpc # "exited"
Busy(s) == post[s].rows # {}
Alive == wpc # "dead"

(* at or fate of a set of rows. *)
All(f, S, v) == [r \in Rows |-> IF r \in S THEN v ELSE f[r]]

Init ==
    /\ at = [r \in Rows |-> "unborn"]
    /\ fate = [r \in Rows |-> "none"]
    /\ copies = [r \in Matches |-> 0]
    /\ post = [s \in Senders |-> NoPost]
    /\ due = {} /\ flushing = {} /\ wpc = "loop"
    /\ mpc = "scan" /\ stopFlag = FALSE /\ local = TRUE
    /\ sentinel = "unsent"

-----------------------------------------------------------------------------
(* _enqueue, on a scan thread or the heartbeat thread: a look at the worker, *)
(* then the put.  A row for a dead worker is counted and dropped.            *)
Check(r) ==
    /\ Running /\ r # End /\ at[r] = "unborn"
    /\ Late \/ mpc = "scan"
    /\ at' = [at EXCEPT ![r] = IF Alive THEN "checked" ELSE "settled"]
    /\ fate' = [fate EXCEPT ![r] = IF Alive THEN "none" ELSE "dropped"]
    /\ UNCHANGED <<copies, post, worker, main, sentinel>>

Put(r) ==
    /\ Running /\ at[r] = "checked"
    /\ at' = [at EXCEPT ![r] = IF sentinel = "queued" THEN "behind" ELSE "queue"]
    /\ UNCHANGED <<fate, copies, post, worker, main, sentinel>>

(* Findings are many and the model has few: a delivered finding gives its   *)
(* place to the next one.                                                   *)
Again(r) ==
    /\ Running /\ r \in Matches /\ fate[r] = "added"
    /\ at' = [at EXCEPT ![r] = "unborn"]
    /\ fate' = [fate EXCEPT ![r] = "none"]
    /\ copies' = [copies EXCEPT ![r] = 0]
    /\ UNCHANGED <<post, worker, main, sentinel>>

-----------------------------------------------------------------------------
(* _worker. *)
Ready(step) == Running /\ wpc = step /\ ~Busy("worker")

StartPost(s, S) ==
    /\ post' = [post EXCEPT ![s] = [NoPost EXCEPT !.rows = S]]
    /\ at' = All(at, S, "flight")

Get(r) ==
    /\ Ready("loop") /\ at[r] = "queue"
    /\ LET d == DatasetOf(r)
           b == Batch(d) \cup {r} IN
       IF Cardinality(b) >= BatchSize
       THEN StartPost("worker", b) /\ due' = due \ {d}
       ELSE at' = [at EXCEPT ![r] = "batch"] /\ UNCHANGED <<post, due>>
    /\ UNCHANGED <<fate, copies, flushing, wpc, main, sentinel>>

(* flush_interval has passed since the first row of a batch. *)
Expire(d) ==
    /\ Running /\ Batch(d) # {} /\ d \notin due
    /\ due' = due \cup {d}
    /\ UNCHANGED <<rows, post, flushing, wpc, main, sentinel>>

QueueEmpty == Waiting = {} /\ sentinel # "queued"

(* Seeded fault: the timers are looked at and nothing is flushed. *)
EmptyWithoutFlush ==
    /\ Ready("loop") /\ QueueEmpty
    /\ wpc' = "flush" /\ flushing' = {}
    /\ UNCHANGED <<rows, post, due, main, sentinel>>

(* queue.get timed out: the batches whose own timer is over are flushed. *)
Empty ==
    /\ Ready("loop") /\ QueueEmpty
    /\ wpc' = "flush" /\ flushing' = due
    /\ UNCHANGED <<rows, post, due, main, sentinel>>

FlushDue(d) ==
    /\ Ready("flush") /\ d \in flushing
    /\ StartPost("worker", Batch(d))
    /\ flushing' = flushing \ {d} /\ due' = due \ {d}
    /\ UNCHANGED <<fate, copies, wpc, main, sentinel>>

NoBatches == \A d \in Datasets : Batch(d) = {}

ExitTest ==
    /\ Ready("flush") /\ flushing = {}
    /\ wpc' = IF stopFlag /\ NoBatches /\ QueueEmpty THEN "drain" ELSE "loop"
    /\ UNCHANGED <<rows, post, due, flushing, main, sentinel>>

GetSentinel ==
    /\ Ready("loop") /\ sentinel = "queued"
    /\ \A r \in Rows : at[r] # "queue"
    /\ sentinel' = "taken" /\ wpc' = "drain"
    /\ UNCHANGED <<rows, post, due, flushing, main>>

Pending == {d \in Datasets : Batch(d) # {}}

(* Seeded fault: the final drain flushes one dataset only. *)
DrainOne ==
    /\ Ready("drain")
    /\ wpc' = "join" /\ due' = {}
    /\ IF Pending = {} THEN UNCHANGED <<at, post>>
       ELSE StartPost("worker", Batch(CHOOSE d \in Pending : TRUE))
    /\ UNCHANGED <<fate, copies, flushing, main, sentinel>>

(* The final drain: one batch is posted by the worker, two by two threads. *)
Drain ==
    /\ Ready("drain")
    /\ wpc' = "join" /\ due' = {}
    /\ IF Cardinality(Pending) <= 1
       THEN StartPost("worker", UNION {Batch(d) : d \in Pending})
       ELSE /\ post' = [s \in Senders |->
                          IF s \in Datasets THEN [NoPost EXCEPT !.rows = Batch(s)] ELSE post[s]]
            /\ at' = All(at, UNION {Batch(d) : d \in Pending}, "flight")
    /\ UNCHANGED <<fate, copies, flushing, main, sentinel>>

Joined ==
    /\ Ready("join") /\ \A d \in Datasets : ~Busy(d)
    /\ wpc' = "dead"
    /\ UNCHANGED <<rows, post, due, flushing, main, sentinel>>

-----------------------------------------------------------------------------

MayTry(s) == Running /\ Busy(s) /\ post[s].tries < MaxTries

Settle(s, outcome) ==
    /\ fate' = [r \in Rows |-> IF r \in post[s].rows THEN outcome[r] ELSE fate[r]]
    /\ at' = All(at, post[s].rows, "settled")
    /\ post' = [post EXCEPT ![s] = NoPost]

SettleAll(s, f) == Settle(s, [r \in Rows |-> f])

Commit(s) ==
    copies' = [r \in Matches |->
                 IF r \in post[s].rows \ Skippable THEN copies[r] + 1 ELSE copies[r]]

PostAccepted(s) ==
    /\ MayTry(s) /\ Commit(s)
    /\ Settle(s, [r \in Rows |-> IF r \in Skippable THEN "skipped" ELSE "added"])
    /\ UNCHANGED <<worker, main, sentinel>>

(* 2xx with a body that cannot be read: the rows are added and no counter   *)
(* says so.                                                                 *)
PostUncounted(s) ==
    /\ MayTry(s) /\ Commit(s)
    /\ SettleAll(s, "uncounted")
    /\ UNCHANGED <<worker, main, sentinel>>

(* 408, 429, 5xx or no connection: the server has nothing, try again.  400  *)
(* "not found": recreate the dataset and try again (once, a bound that the  *)
(* other retries hide).                                                     *)
PostRetried(s) ==
    /\ MayTry(s)
    /\ post' = [post EXCEPT ![s].tries = @ + 1]
    /\ UNCHANGED <<rows, worker, main, sentinel>>

(* Any other status or exception: one send_failure for the batch. *)
PostRefused(s) ==
    /\ MayTry(s)
    /\ SettleAll(s, "failed")
    /\ UNCHANGED <<copies, worker, main, sentinel>>

(* A read timeout: the merge may have happened.  After MaxTimeouts of them  *)
(* the rows are unconfirmed.                                                *)
PostTimesOut(s) ==
    /\ MayTry(s)
    /\ Commit(s) \/ UNCHANGED copies
    /\ IF post[s].timeouts + 1 >= MaxTimeouts
       THEN SettleAll(s, "unconfirmed")
       ELSE /\ post' = [post EXCEPT ![s].tries = @ + 1, ![s].timeouts = @ + 1]
            /\ UNCHANGED <<at, fate>>
    /\ UNCHANGED <<worker, main, sentinel>>

(* The retries are used up, or the next one would outlive the drain budget. *)
PostAbandoned(s) ==
    /\ Running /\ Busy(s)
    /\ post[s].tries > 0 \/ MaxTries = 0
    /\ SettleAll(s, "failed")
    /\ UNCHANGED <<copies, worker, main, sentinel>>

-----------------------------------------------------------------------------
(* The main thread: the terminal row is posted inline, ahead of the drain.  *)
(* The workers have been waited for (Late: not all of them have finished).  *)
SendEnd ==
    /\ mpc = "scan"
    /\ Late \/ \A r \in Rows : at[r] # "checked"
    /\ mpc' = "ending"
    /\ StartPost("main", {End})
    /\ UNCHANGED <<fate, copies, worker, stopFlag, local, sentinel>>

Stop ==
    /\ mpc = "ending" /\ ~Busy("main")
    /\ mpc' = "stopping" /\ stopFlag' = TRUE
    /\ UNCHANGED <<rows, post, worker, local, sentinel>>

PutSentinel ==
    /\ mpc = "stopping"
    /\ mpc' = "waiting" /\ sentinel' = "queued"
    /\ UNCHANGED <<rows, post, worker, stopFlag, local>>

(* The worker has gone: what is left in the queue is counted, row by row. *)
StopJoined ==
    /\ mpc = "waiting" /\ ~Alive
    /\ mpc' = "joined"
    /\ fate' = All(fate, Waiting, "undelivered")
    /\ at' = All(at, Waiting, "settled")
    /\ UNCHANGED <<copies, post, worker, stopFlag, local, sentinel>>

(* Seeded fault: a row that may have landed taken for one that has. *)
DoubtIsLanded == Queued \subseteq Landed \cup {r \in Rows : fate[r] = "unconfirmed"}

(* _delivery_shortfall is "": queued - (added + updated + skipped) <= 0. *)
AllClear == Queued \subseteq Landed

(* The summary, and HostCleanup(on_delivery) on a completed scan, once      *)
(* stop() has returned: the worker has gone, or the budget has (the qsize() *)
(* less one it then adds to undelivered decides nothing).  The process      *)
(* exits and its daemon threads with it.                                    *)
Finish ==
    /\ mpc = "joined" \/ (mpc = "waiting" /\ Alive /\ Slow)
    /\ mpc' = "exited" /\ wpc' = "dead"
    /\ \E completed \in BOOLEAN : local' = ~(completed /\ AllClear)
    /\ post' = [s \in Senders |-> NoPost] /\ due' = {} /\ flushing' = {}
    /\ UNCHANGED <<rows, stopFlag, sentinel>>

-----------------------------------------------------------------------------
WorkerStep ==
    \/ \E r \in Rows : Get(r)
    \/ Empty \/ (\E d \in Datasets : FlushDue(d)) \/ ExitTest
    \/ GetSentinel \/ Drain \/ Joined

PostStep(s) ==
    \/ PostAccepted(s) \/ PostUncounted(s) \/ PostRetried(s)
    \/ PostRefused(s) \/ PostTimesOut(s) \/ PostAbandoned(s)

MainStep == Stop \/ PutSentinel \/ StopJoined \/ Finish

Next ==
    \/ \E r \in Rows : Check(r) \/ Put(r) \/ Again(r) \/ Get(r)
    \/ \E d \in Datasets : Expire(d) \/ FlushDue(d)
    \/ Empty \/ ExitTest \/ GetSentinel \/ Drain \/ Joined
    \/ \E s \in Senders : PostStep(s)
    \/ SendEnd \/ MainStep

Spec == Init /\ [][Next]_vars

(* Threads run and POSTs return; flush intervals pass.  Nothing makes the   *)
(* scan threads find anything or the scan end.                              *)
Fairness ==
    /\ WF_vars(WorkerStep) /\ WF_vars(MainStep)
    /\ \A r \in Rows : WF_vars(Put(r))
    /\ \A d \in Datasets : WF_vars(Expire(d))
    /\ \A s \in Senders : WF_vars(PostStep(s))

FairSpec == Spec /\ Fairness

-----------------------------------------------------------------------------
Posts == [rows : SUBSET Rows, tries : 0..MaxTries, timeouts : 0..MaxTimeouts]

TypeOK ==
    /\ at \in [Rows -> Places] /\ fate \in [Rows -> Fates]
    /\ copies \in [Matches -> Nat]
    /\ post \in [Senders -> Posts]
    /\ due \subseteq Datasets /\ flushing \subseteq due
    /\ wpc \in {"loop", "flush", "drain", "join", "dead"}
    /\ mpc \in {"scan", "ending", "stopping", "waiting", "joined", "exited"}
    /\ sentinel \in {"unsent", "queued", "taken"}
    /\ stopFlag \in BOOLEAN /\ local \in BOOLEAN

(* A row in flight is in one POST.                                          *)
PostsInv ==
    /\ \A s \in Senders : \A r \in post[s].rows : at[r] = "flight"
    /\ Running => \A r \in Rows : at[r] = "flight" => \E s \in Senders : r \in post[s].rows
    /\ \A s, t \in Senders : s # t => post[s].rows \cap post[t].rows = {}

(* A row has a fate when it is settled, and copies once it has been posted. *)
RowsInv ==
    /\ \A r \in Rows : at[r] = "settled" <=> fate[r] # "none"
    /\ \A r \in Matches : at[r] \notin {"flight", "settled"} => copies[r] = 0
    /\ \A r \in Matches : fate[r] = "added" => copies[r] > 0
    /\ \A r \in Matches : copies[r] <= MaxTimeouts
    /\ \A r \in Rows : fate[r] = "skipped" => r \in Skippable
    /\ \A s \in Senders : \A r \in post[s].rows \cap Matches : copies[r] <= post[s].timeouts
    /\ \A s \in Senders : Busy(s) => post[s].timeouts < MaxTimeouts

(* Who may have a POST under way, or a dataset to flush.                    *)
ThreadsInv ==
    /\ wpc # "flush" => flushing = {}
    /\ mpc = "scan" => at[End] = "unborn"
    /\ mpc # "ending" => ~Busy("main")
    /\ wpc # "join" => \A d \in Datasets : ~Busy(d)
    /\ wpc = "dead" => ~Busy("worker")
    /\ wpc \in {"join", "dead"} /\ Running => \A r \in Rows : at[r] # "batch"

(* What stopping relies on when no thread queues after the wait.            *)
StopInv ==
    /\ mpc # "scan" => \A r \in Rows : at[r] # "checked"
    /\ stopFlag = (mpc \notin {"scan", "ending"})
    /\ sentinel = "unsent" <=> mpc \in {"scan", "ending", "stopping"}
    /\ wpc \in {"drain", "join", "dead"} => stopFlag
    /\ wpc \in {"drain", "join", "dead"} /\ Running => \A r \in Rows : at[r] # "queue"
    /\ mpc = "joined" => wpc = "dead"
    /\ \A r \in Rows : at[r] # "behind" /\ fate[r] \notin {"undelivered", "dropped"}

(* The deployment in which the books can be trusted: the scan threads have  *)
(* finished when the wait for them is over, and every record fits the       *)
(* matches dataset's schema.                                                *)
TrustedBooks == ~Late /\ Matches \cap Skippable = {}

UploaderInv == TypeOK /\ PostsInv /\ RowsInv /\ ThreadsInv /\ (Late \/ StopInv)

(* "Honest books": when stop() returns with the worker gone, each queued    *)
(* row has been posted or counted; none is still in a batch or a POST.      *)
HonestBooks == mpc = "joined" => \A r \in Queued : fate[r] # "none"

(* The incident the exit test records: a worker that stops within its       *)
(* budget leaves no row behind in the queue.                                *)
NothingStranded == mpc = "joined" => \A r \in Rows : fate[r] # "undelivered"

(* A match is in the dataset at most as often as read timeouts allow.       *)
BoundedDuplicates == \A r \in Matches : copies[r] <= MaxTimeouts

(* A finding that was queued is in the dataset or still on the endpoint     *)
(* when the run is over: cleanup follows delivery.                          *)
FindingSurvives ==
    mpc = "exited" => local \/ \A r \in Matches : at[r] # "unborn" => copies[r] > 0

BatchPosted(d) == Batch(d) # {} ~> (Batch(d) = {} \/ ~Running)

(* A batch of findings is posted, by size, by timer or by the final drain,  *)
(* though the scan may never end.                                           *)
FindingsPosted == BatchPosted("matches")
=============================================================================
