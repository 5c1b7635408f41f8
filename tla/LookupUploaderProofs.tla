------------------------ MODULE LookupUploaderProofs ------------------------
(***************************************************************************)
(* The invariant of the lookup uploader and what follows from it, for any  *)
(* rows, batch size and retry limits.                                      *)
(***************************************************************************)
EXTENDS LookupUploader, TLAPS

(* The initial state satisfies the inductive invariant. *)
LEMMA InitUploader == Init => UploaderInv
<1> SUFFICES ASSUME Init PROVE UploaderInv
  OBVIOUS
<1> USE UploaderAssumption DEF UploaderAssumption, Init
<1>1. TypeOK
  <2>1. NoPost \in Posts
    BY DEF Posts, NoPost
  <2>2. post \in [Senders -> Posts]
    BY <2>1
  <2> QED
    BY <2>2 DEF TypeOK, Places, Fates
<1>2. PostsInv
  BY DEF PostsInv, NoPost
<1>3. RowsInv
  BY DEF RowsInv, NoPost, Busy, Rows
<1>4. ThreadsInv
  BY DEF ThreadsInv, NoPost, Busy, Rows, Datasets, Senders
<1>5. StopInv
  BY DEF StopInv
<1> QED
  BY <1>1, <1>2, <1>3, <1>4, <1>5 DEF UploaderInv

(* The two datasets, and whose rows go where. *)
LEMMA RowsOfDatasets ==
    /\ \A r \in Rows : DatasetOf(r) \in Datasets
    /\ Datasets \subseteq Senders /\ "worker" \in Senders /\ "main" \in Senders
    /\ "worker" \notin Datasets /\ "main" \notin Datasets
  BY DEF DatasetOf, Datasets, Senders

(* Starting a POST for a sender that has none, with rows nobody posts yet. *)
LEMMA StartPostKeeps ==
    ASSUME UploaderInv, NEW s \in Senders, ~Busy(s), NEW S \in SUBSET Rows,
           \A r \in S : at[r] \notin {"flight", "settled"}, Running,
           StartPost(s, S), UNCHANGED <<fate, copies>>,
           mpc' # "exited"
    PROVE  /\ post' \in [Senders -> Posts] /\ at' \in [Rows -> Places]
           /\ fate' \in [Rows -> Fates] /\ copies' \in [Matches -> Nat]
           /\ PostsInv' /\ RowsInv'
           /\ \A r \in Rows : at'[r] = IF r \in S THEN "flight" ELSE at[r]
           /\ \A t \in Senders \ {s} : post'[t] = post[t]
           /\ post'[s].rows = S
<1> USE UploaderAssumption DEF UploaderAssumption, UploaderInv
<1>1. /\ post' = [post EXCEPT ![s] = [NoPost EXCEPT !.rows = S]]
      /\ at' = [r \in Rows |-> IF r \in S THEN "flight" ELSE at[r]]
  BY DEF StartPost, All
<1>2. [NoPost EXCEPT !.rows = S] = [rows |-> S, tries |-> 0, timeouts |-> 0]
  BY DEF NoPost
<1>3. /\ post' = [post EXCEPT ![s] = [rows |-> S, tries |-> 0, timeouts |-> 0]]
      /\ post \in [Senders -> Posts]
  BY <1>1, <1>2 DEF TypeOK
<1> HIDE DEF UploaderInv
<1>4. [rows |-> S, tries |-> 0, timeouts |-> 0] \in Posts
  BY DEF Posts
<1>5. /\ \A t \in Senders \ {s} : post'[t] = post[t]
      /\ post'[s].rows = S /\ post'[s].timeouts = 0
      /\ post' \in [Senders -> Posts]
  BY <1>3, <1>4
<1> USE DEF UploaderInv
<1>6. /\ at' \in [Rows -> Places] /\ fate' \in [Rows -> Fates] /\ copies' \in [Matches -> Nat]
      /\ \A r \in Rows : at'[r] = IF r \in S THEN "flight" ELSE at[r]
  BY <1>1 DEF TypeOK, Places
<1>7. PostsInv'
  <2> USE <1>5, <1>6
  <2>1. \A t \in Senders : \A r \in post'[t].rows : at'[r] = "flight" /\ r \in Rows
    BY DEF PostsInv, TypeOK, Posts
  <2>2. \A r \in Rows : at'[r] = "flight" => \E t \in Senders : r \in post'[t].rows
    BY DEF PostsInv, Busy
  <2>3. \A t, u \in Senders : t # u => post'[t].rows \cap post'[u].rows = {}
    BY DEF PostsInv, TypeOK, Posts
  <2> QED
    BY <2>1, <2>2, <2>3 DEF PostsInv
<1>8. RowsInv'
  BY <1>5, <1>6 DEF RowsInv, PostsInv, TypeOK, Posts, Busy, Rows
<1> QED
  BY <1>5, <1>6, <1>7, <1>8

(* Settling the rows of a POST.                                             *)
LEMMA SettleKeeps ==
    ASSUME UploaderInv, Running, NEW s \in Senders, Busy(s),
           NEW outcome \in [Rows -> Fates \ {"none", "undelivered", "dropped"}],
           Settle(s, outcome), copies' \in [Matches -> Nat],
           \A r \in Matches \ post[s].rows : copies'[r] = copies[r],
           \A r \in post[s].rows \cap Matches : copies'[r] <= MaxTimeouts,
           \A r \in post[s].rows \cap Matches : outcome[r] = "added" => copies'[r] > 0,
           \A r \in post[s].rows : outcome[r] = "skipped" => r \in Skippable,
           mpc' = mpc
    PROVE  /\ post' \in [Senders -> Posts] /\ at' \in [Rows -> Places]
           /\ fate' \in [Rows -> Fates]
           /\ PostsInv' /\ RowsInv'
           /\ \A r \in Rows : at'[r] = IF r \in post[s].rows THEN "settled" ELSE at[r]
           /\ \A r \in Rows : fate'[r] = IF r \in post[s].rows THEN outcome[r] ELSE fate[r]
           /\ \A t \in Senders \ {s} : post'[t] = post[t]
           /\ post'[s].rows = {}
<1> USE UploaderAssumption DEF UploaderAssumption
<1>1. NoPost \in Posts /\ NoPost.rows = {}
  BY DEF NoPost, Posts
<1>2. /\ post' = [post EXCEPT ![s] = NoPost]
      /\ at' = [r \in Rows |-> IF r \in post[s].rows THEN "settled" ELSE at[r]]
      /\ fate' = [r \in Rows |-> IF r \in post[s].rows THEN outcome[r] ELSE fate[r]]
  BY DEF Settle, All
<1>3. post \in [Senders -> Posts] /\ at \in [Rows -> Places] /\ fate \in [Rows -> Fates]
  BY DEF UploaderInv, TypeOK
<1>4. /\ \A t \in Senders \ {s} : post'[t] = post[t]
      /\ post'[s].rows = {}
      /\ post' \in [Senders -> Posts]
  BY <1>1, <1>2, <1>3
<1>5. /\ at' \in [Rows -> Places] /\ fate' \in [Rows -> Fates]
      /\ \A r \in Rows : at'[r] = IF r \in post[s].rows THEN "settled" ELSE at[r]
      /\ \A r \in Rows : fate'[r] = IF r \in post[s].rows THEN outcome[r] ELSE fate[r]
  BY <1>2, <1>3 DEF Places
<1>6. PostsInv'
  <2>1. \A t \in Senders : \A r \in post'[t].rows : at'[r] = "flight"
    BY <1>3, <1>4, <1>5 DEF UploaderInv, PostsInv, Posts
  <2>2. \A r \in Rows : at'[r] = "flight" => \E t \in Senders : r \in post'[t].rows
    BY <1>4, <1>5 DEF UploaderInv, PostsInv
  <2>3. \A t, u \in Senders : t # u => post'[t].rows \cap post'[u].rows = {}
    BY <1>4 DEF UploaderInv, PostsInv
  <2> QED
    BY <2>1, <2>2, <2>3 DEF PostsInv
<1>7. RowsInv'
  <2>1. \A t \in Senders : \A r \in post'[t].rows :
            /\ t # s /\ r \in Rows /\ r \notin post[s].rows
            /\ r \in post[t].rows /\ post'[t] = post[t]
    BY <1>3, <1>4 DEF UploaderInv, PostsInv, Posts
  <2>2. \A t \in Senders : \A r \in post'[t].rows \cap Matches : copies'[r] <= post'[t].timeouts
    BY <2>1 DEF UploaderInv, RowsInv
  <2>6. \A t \in Senders : Busy(t)' => post'[t].timeouts < MaxTimeouts
    BY <2>1, <1>4 DEF UploaderInv, RowsInv, Busy
  <2>3. \A r \in Rows : at'[r] = "settled" <=> fate'[r] # "none"
    BY <1>3, <1>5 DEF UploaderInv, RowsInv
  <2>4. \A r \in Matches : at'[r] \notin {"flight", "settled"} => copies'[r] = 0
    BY <1>5 DEF UploaderInv, RowsInv, Rows
  <2>5. \A r \in Matches : copies'[r] <= MaxTimeouts
    BY <1>5 DEF UploaderInv, RowsInv
  <2>7. \A r \in Rows : fate'[r] = "skipped" => r \in Skippable
    BY <1>5 DEF UploaderInv, RowsInv
  <2>8. \A r \in Matches : fate'[r] = "added" => copies'[r] > 0
    BY <1>5 DEF UploaderInv, RowsInv, Rows
  <2> QED
    BY <2>2, <2>3, <2>4, <2>5, <2>6, <2>7, <2>8 DEF RowsInv
<1> QED
  BY <1>4, <1>5, <1>6, <1>7

(* _enqueue keeps the invariant: rows move, POSTs do not.                   *)
LEMMA EnqueueKeeps ==
    ASSUME UploaderInv, NEW r \in Rows, Check(r) \/ Put(r) \/ Again(r)
    PROVE  UploaderInv'
<1> USE UploaderAssumption DEF UploaderAssumption, UploaderInv
<1>1. CASE Check(r)
  <2> USE <1>1 DEF Check, worker, main
  <2>1. TypeOK'
    BY DEF TypeOK, Places, Fates
  <2>2. at[r] = "unborn" /\ fate[r] = "none" /\ (r \in Matches => copies[r] = 0)
    BY DEF RowsInv
  <2>3. PostsInv'
    BY <2>2 DEF PostsInv, TypeOK, Posts, Running
  <2>4. RowsInv'
    BY <2>2 DEF RowsInv, TypeOK, Busy, Rows
  <2>5. ThreadsInv'
    BY DEF ThreadsInv, TypeOK, Busy, Running
  <2>6. ~Late => StopInv'
    BY DEF StopInv, TypeOK, Alive, Running
  <2> QED
    BY <2>1, <2>3, <2>4, <2>5, <2>6
<1>2. CASE Put(r)
  <2> USE <1>2 DEF Put, worker, main
  <2>1. TypeOK'
    BY DEF TypeOK, Places
  <2>2. fate[r] = "none" /\ (r \in Matches => copies[r] = 0)
    BY DEF RowsInv, TypeOK
  <2>3. PostsInv'
    BY DEF PostsInv, TypeOK, Posts, Running
  <2>4. RowsInv'
    BY <2>2 DEF RowsInv, TypeOK, Busy, Rows
  <2>5. ThreadsInv'
    BY DEF ThreadsInv, TypeOK, Busy, Running
  <2>6. ~Late => StopInv'
    BY DEF StopInv, TypeOK, Running
  <2> QED
    BY <2>1, <2>3, <2>4, <2>5, <2>6
<1>3. CASE Again(r)
  <2> USE <1>3 DEF Again, worker, main
  <2>1. TypeOK'
    BY DEF TypeOK, Places, Fates
  <2>2. at[r] = "settled"
    BY DEF RowsInv
  <2>3. PostsInv'
    BY <2>2 DEF PostsInv, TypeOK, Posts, Running
  <2>4. RowsInv'
    BY <2>2 DEF RowsInv, PostsInv, TypeOK, Busy, Rows
  <2>5. ThreadsInv'
    BY DEF ThreadsInv, TypeOK, Busy, Running
  <2>6. ~Late => StopInv'
    BY DEF StopInv, TypeOK
  <2> QED
    BY <2>1, <2>3, <2>4, <2>5, <2>6
<1> QED
  BY <1>1, <1>2, <1>3

(* The steps of the worker that start a POST.                               *)
LEMMA BatchKeeps ==
    ASSUME UploaderInv,
           \/ \E r \in Rows : Get(r)
           \/ \E d \in Datasets : FlushDue(d)
    PROVE  UploaderInv'
<1> USE UploaderAssumption DEF UploaderAssumption
<1>1. ASSUME NEW r \in Rows, Get(r)
      PROVE  UploaderInv'
  <2> DEFINE b == Batch(DatasetOf(r)) \cup {r}
  <2> USE <1>1 DEF Get, Ready, main
  <2>1. CASE Cardinality(b) >= BatchSize
    <3>1. /\ StartPost("worker", b) /\ due' = due \ {DatasetOf(r)}
          /\ UNCHANGED <<fate, copies, flushing, wpc, mpc, stopFlag, local, sentinel>>
      BY <2>1
    <3>2. b \in SUBSET Rows /\ \A q \in b : at[q] \in {"queue", "batch"}
      BY DEF Batch
    <3>3. Running /\ wpc = "loop" /\ ~Busy("worker") /\ mpc' # "exited"
      BY <3>1 DEF Running
    <3> HIDE DEF b, Get
    <3>4. /\ post' \in [Senders -> Posts] /\ at' \in [Rows -> Places]
          /\ fate' \in [Rows -> Fates] /\ copies' \in [Matches -> Nat]
          /\ PostsInv' /\ RowsInv'
          /\ \A q \in Rows : at'[q] = IF q \in b THEN "flight" ELSE at[q]
          /\ \A t \in Senders \ {"worker"} : post'[t] = post[t]
      BY <3>1, <3>2, <3>3, StartPostKeeps, RowsOfDatasets
    <3>5. TypeOK'
      <4>1. flushing' \subseteq due'
        BY <3>1, <3>3 DEF UploaderInv, TypeOK, ThreadsInv
      <4> QED
        BY <3>1, <3>4, <4>1 DEF UploaderInv, TypeOK
    <3>6. ThreadsInv'
      BY <3>1, <3>2, <3>3, <3>4, RowsOfDatasets
      DEF UploaderInv, TypeOK, ThreadsInv, Busy, Rows, Running
    <3>7. ~Late => StopInv'
      BY <3>1, <3>2, <3>3, <3>4 DEF UploaderInv, StopInv, Running
    <3> QED
      BY <3>4, <3>5, <3>6, <3>7 DEF UploaderInv
  <2>2. CASE ~(Cardinality(b) >= BatchSize)
    <3> USE <2>2 DEF UploaderInv
    <3>1. TypeOK'
      BY DEF TypeOK, Places
    <3>2. PostsInv'
      BY DEF PostsInv, TypeOK, Posts, Running
    <3>3. RowsInv'
      BY DEF RowsInv, TypeOK, Busy, Rows
    <3>4. ThreadsInv'
      BY DEF ThreadsInv, TypeOK, Busy, Rows, Running
    <3>5. ~Late => StopInv'
      BY DEF StopInv, TypeOK, Running
    <3> QED
      BY <3>1, <3>2, <3>3, <3>4, <3>5
  <2> QED
    BY <2>1, <2>2
<1>2. ASSUME NEW d \in Datasets, FlushDue(d)
      PROVE  UploaderInv'
  <2>1. /\ StartPost("worker", Batch(d))
        /\ flushing' = flushing \ {d} /\ due' = due \ {d}
        /\ UNCHANGED <<fate, copies, wpc, mpc, stopFlag, local, sentinel>>
        /\ Running /\ wpc = "flush" /\ ~Busy("worker") /\ mpc' # "exited"
    BY <1>2 DEF FlushDue, Ready, main, Running
  <2>2. Batch(d) \in SUBSET Rows /\ \A q \in Batch(d) : at[q] = "batch"
    BY DEF Batch
  <2>3. /\ post' \in [Senders -> Posts] /\ at' \in [Rows -> Places]
        /\ fate' \in [Rows -> Fates] /\ copies' \in [Matches -> Nat]
        /\ PostsInv' /\ RowsInv'
        /\ \A q \in Rows : at'[q] = IF q \in Batch(d) THEN "flight" ELSE at[q]
        /\ \A t \in Senders \ {"worker"} : post'[t] = post[t]
    BY <2>1, <2>2, StartPostKeeps, RowsOfDatasets
  <2>4. TypeOK'
    BY <2>1, <2>3 DEF UploaderInv, TypeOK
  <2>5. ThreadsInv'
    BY <2>1, <2>2, <2>3, RowsOfDatasets
    DEF UploaderInv, TypeOK, ThreadsInv, Busy, Rows, Running
  <2>6. ~Late => StopInv'
    BY <2>1, <2>2, <2>3 DEF UploaderInv, StopInv, Running
  <2> QED
    BY <2>3, <2>4, <2>5, <2>6 DEF UploaderInv
<1> QED
  BY <1>1, <1>2

(* The final drain, by the worker or by two threads.                        *)
LEMMA DrainKeeps == UploaderInv /\ Drain => UploaderInv'
<1> SUFFICES ASSUME UploaderInv, Drain PROVE UploaderInv'
  OBVIOUS
<1> USE UploaderAssumption DEF UploaderAssumption
<1> DEFINE S == UNION {Batch(d) : d \in Pending}
<1>1. /\ Running /\ wpc = "drain" /\ ~Busy("worker") /\ mpc' = mpc /\ mpc' # "exited"
      /\ wpc' = "join" /\ due' = {}
      /\ UNCHANGED <<fate, copies, flushing, mpc, stopFlag, local, sentinel>>
  BY DEF Drain, Ready, main, Running
<1>2. S \in SUBSET Rows /\ \A q \in Rows : q \in S <=> at[q] = "batch"
  BY RowsOfDatasets DEF Batch, Pending
<1>3. /\ post' \in [Senders -> Posts] /\ at' \in [Rows -> Places]
      /\ fate' \in [Rows -> Fates] /\ copies' \in [Matches -> Nat]
      /\ PostsInv' /\ RowsInv'
      /\ \A q \in Rows : at'[q] = IF q \in S THEN "flight" ELSE at[q]
      /\ post'["main"] = post["main"]
  <2>1. CASE Cardinality(Pending) <= 1
    <3>1. StartPost("worker", S)
      BY <2>1 DEF Drain
    <3> QED
      BY <1>1, <1>2, <3>1, StartPostKeeps, RowsOfDatasets
  <2>2. CASE ~(Cardinality(Pending) <= 1)
    <3>1. /\ post' = [s \in Senders |->
                        IF s \in Datasets THEN [rows |-> Batch(s), tries |-> 0, timeouts |-> 0]
                                          ELSE post[s]]
          /\ at' = [q \in Rows |-> IF q \in S THEN "flight" ELSE at[q]]
      BY <2>2 DEF Drain, NoPost, All
    <3>2. \A d \in Datasets : [rows |-> Batch(d), tries |-> 0, timeouts |-> 0] \in Posts
      BY DEF Batch, Posts
    <3>3. post \in [Senders -> Posts] /\ at \in [Rows -> Places]
      BY DEF UploaderInv, TypeOK
    <3>4. /\ post' \in [Senders -> Posts] /\ at' \in [Rows -> Places]
          /\ \A s \in Senders \ Datasets : post'[s] = post[s]
          /\ \A d \in Datasets : post'[d].rows = Batch(d) /\ post'[d].timeouts = 0
          /\ \A q \in Rows : at'[q] = IF q \in S THEN "flight" ELSE at[q]
      BY <3>1, <3>2, <3>3, RowsOfDatasets DEF Places
    <3>5. PostsInv'
      <4>1. \A s \in Senders : \A r \in post'[s].rows : at'[r] = "flight"
        <5>1. \A s \in Senders \ Datasets : \A r \in post[s].rows : r \in Rows
          BY <3>3 DEF Posts
        <5> QED
          BY <1>2, <3>4, <5>1 DEF UploaderInv, PostsInv, Batch
      <4>2. \A r \in Rows : at'[r] = "flight" => \E s \in Senders : r \in post'[s].rows
        BY <1>1, <1>2, <3>4, RowsOfDatasets
        DEF UploaderInv, PostsInv, ThreadsInv, Batch, Busy
      <4>3. \A s, t \in Senders : s # t => post'[s].rows \cap post'[t].rows = {}
        BY <3>4 DEF UploaderInv, PostsInv, Batch
      <4> QED
        BY <4>1, <4>2, <4>3 DEF PostsInv
    <3>6. RowsInv'
      <4>1. /\ \A s \in Senders : \A r \in post'[s].rows \cap Matches :
                   copies'[r] <= post'[s].timeouts
            /\ \A s \in Senders : Busy(s)' => post'[s].timeouts < MaxTimeouts
        <5>1. \A r \in Matches : at[r] = "batch" => copies[r] = 0
          BY DEF UploaderInv, RowsInv
        <5> QED
          BY <1>1, <3>4, <5>1 DEF UploaderInv, RowsInv, Batch, Busy
      <4>2. \A r \in Rows : at'[r] = "settled" <=> fate'[r] # "none"
        BY <1>1, <1>2, <3>4 DEF UploaderInv, RowsInv
      <4>3. \A r \in Matches : at'[r] \notin {"flight", "settled"} => copies'[r] = 0
        BY <1>1, <3>4 DEF UploaderInv, RowsInv, Rows
      <4>4. /\ \A r \in Matches : copies'[r] <= MaxTimeouts
            /\ \A r \in Matches : fate'[r] = "added" => copies'[r] > 0
            /\ \A r \in Rows : fate'[r] = "skipped" => r \in Skippable
        BY <1>1 DEF UploaderInv, RowsInv
      <4> QED
        BY <4>1, <4>2, <4>3, <4>4 DEF RowsInv
    <3> QED
      BY <1>1, <3>4, <3>5, <3>6, RowsOfDatasets DEF UploaderInv, TypeOK
  <2> QED
    BY <2>1, <2>2
<1>4. TypeOK'
  BY <1>1, <1>3 DEF UploaderInv, TypeOK, ThreadsInv
<1>5. ThreadsInv'
  BY <1>1, <1>2, <1>3 DEF UploaderInv, ThreadsInv, Busy, Rows, Running
<1>6. ~Late => StopInv'
  BY <1>1, <1>2, <1>3 DEF UploaderInv, StopInv, Running
<1> QED
  BY <1>3, <1>4, <1>5, <1>6 DEF UploaderInv

(* The steps of the worker that move no row.                                *)
LEMMA WorkerControlKeeps ==
    ASSUME UploaderInv,
           \/ \E d \in Datasets : Expire(d)
           \/ Empty \/ ExitTest \/ GetSentinel \/ Joined
    PROVE  UploaderInv'
<1> USE UploaderAssumption DEF UploaderAssumption, UploaderInv
<1>1. UNCHANGED <<at, fate, copies, post, mpc, stopFlag, local>> /\ Running
  BY DEF Expire, Empty, ExitTest, GetSentinel, Joined, rows, main, Ready
<1>2. PostsInv' /\ RowsInv'
  BY <1>1 DEF PostsInv, RowsInv, Busy, Running
<1>3. CASE \E d \in Datasets : Expire(d)
  <2> USE <1>3 DEF Expire, main
  <2>1. TypeOK'
    BY <1>1 DEF TypeOK
  <2>2. ThreadsInv' /\ (~Late => StopInv')
    BY <1>1 DEF ThreadsInv, StopInv, Busy, Running
  <2> QED
    BY <1>2, <2>1, <2>2
<1>4. CASE Empty
  <2> USE <1>4 DEF Empty, Ready, main
  <2>1. TypeOK'
    BY <1>1 DEF TypeOK
  <2>2. ThreadsInv' /\ (~Late => StopInv')
    BY <1>1 DEF ThreadsInv, StopInv, Busy, Running
  <2> QED
    BY <1>2, <2>1, <2>2
<1>5. CASE ExitTest
  <2> USE <1>5 DEF ExitTest, Ready, main
  <2>1. TypeOK'
    BY <1>1 DEF TypeOK
  <2>2. ThreadsInv'
    BY <1>1 DEF ThreadsInv, Busy, Running
  <2>3. ~Late => StopInv'
    BY <1>1 DEF StopInv, QueueEmpty, Waiting, Running
  <2> QED
    BY <1>2, <2>1, <2>2, <2>3
<1>6. CASE GetSentinel
  <2> USE <1>6 DEF GetSentinel, Ready, main
  <2>1. TypeOK'
    BY <1>1 DEF TypeOK
  <2>2. ThreadsInv'
    BY <1>1 DEF ThreadsInv, Busy, Running
  <2>3. ~Late => StopInv'
    <3> SUFFICES ASSUME ~Late PROVE StopInv'
      OBVIOUS
    <3>1. mpc \notin {"scan", "ending", "stopping"} /\ stopFlag
      BY DEF StopInv
    <3>2. \A r \in Rows : at[r] # "queue"
      OBVIOUS
    <3>3. wpc' = "drain" /\ sentinel' = "taken" /\ mpc # "joined"
      BY DEF StopInv
    <3>4. /\ stopFlag' = (mpc' \notin {"scan", "ending"})
          /\ sentinel' = "unsent" <=> mpc' \in {"scan", "ending", "stopping"}
      BY <1>1, <3>1, <3>3 DEF StopInv
    <3>5. /\ mpc' # "scan" => \A r \in Rows : at'[r] # "checked"
          /\ \A r \in Rows : at'[r] # "behind" /\ fate'[r] \notin {"undelivered", "dropped"}
      BY <1>1 DEF StopInv
    <3> QED
      BY <1>1, <3>1, <3>2, <3>3, <3>4, <3>5 DEF StopInv
  <2> QED
    BY <1>2, <2>1, <2>2, <2>3
<1>7. CASE Joined
  <2> USE <1>7 DEF Joined, Ready, main
  <2>1. TypeOK'
    BY <1>1 DEF TypeOK
  <2>2. ThreadsInv'
    BY <1>1 DEF ThreadsInv, Busy, Running
  <2>3. ~Late => StopInv'
    BY <1>1 DEF StopInv, Running
  <2> QED
    BY <1>2, <2>1, <2>2, <2>3
<1> QED
  BY <1>3, <1>4, <1>5, <1>6, <1>7

(* The steps of a POST.                                                     *)
LEMMA PostKeeps == ASSUME UploaderInv, NEW s \in Senders, PostStep(s) PROVE UploaderInv'
<1> USE UploaderAssumption DEF UploaderAssumption
<1>1. /\ UNCHANGED <<due, flushing, wpc, mpc, stopFlag, local, sentinel>>
      /\ Running /\ Busy(s) /\ mpc' # "exited"
  BY DEF PostStep, PostAccepted, PostUncounted, PostRetried, PostRefused, PostTimesOut,
         PostAbandoned, MayTry, worker, main, Running
<1>2. /\ post \in [Senders -> Posts] /\ copies \in [Matches -> Nat]
      /\ at \in [Rows -> Places] /\ fate \in [Rows -> Fates]
      /\ post[s].rows \in SUBSET Rows /\ post[s].tries \in Nat /\ post[s].timeouts \in Nat
  BY DEF UploaderInv, TypeOK, Posts
<1>3. ASSUME Commit(s)
      PROVE  /\ copies' \in [Matches -> Nat]
             /\ \A r \in Matches \ post[s].rows : copies'[r] = copies[r]
             /\ \A r \in post[s].rows \cap Matches :
                   copies'[r] = IF r \in Skippable THEN copies[r] ELSE copies[r] + 1
  BY <1>2, <1>3 DEF Commit
<1>4. ASSUME NEW outcome \in [Rows -> Fates \ {"none", "undelivered", "dropped"}],
             Settle(s, outcome), copies' \in [Matches -> Nat],
             \A r \in Matches \ post[s].rows : copies'[r] = copies[r],
             \A r \in post[s].rows \cap Matches : copies'[r] <= MaxTimeouts,
             \A r \in post[s].rows \cap Matches : outcome[r] = "added" => copies'[r] > 0,
             \A r \in post[s].rows : outcome[r] = "skipped" => r \in Skippable
      PROVE  UploaderInv'
  <2>1. /\ post' \in [Senders -> Posts] /\ at' \in [Rows -> Places]
        /\ fate' \in [Rows -> Fates]
        /\ PostsInv' /\ RowsInv'
        /\ \A r \in Rows : at'[r] = IF r \in post[s].rows THEN "settled" ELSE at[r]
        /\ \A r \in Rows : fate'[r] = IF r \in post[s].rows THEN outcome[r] ELSE fate[r]
        /\ \A t \in Senders \ {s} : post'[t] = post[t]
        /\ post'[s].rows = {}
    BY <1>1, <1>4, SettleKeeps
  <2>2. TypeOK'
    BY <1>1, <1>4, <2>1 DEF UploaderInv, TypeOK
  <2>3. ThreadsInv'
    <3>1. \A r \in post[s].rows : at[r] = "flight"
      BY DEF UploaderInv, PostsInv
    <3>2. \A t \in Senders : post'[t].rows # {} => post[t].rows # {}
      BY <2>1
    <3>3. mpc = "scan" => at'[End] = "unborn"
      BY <2>1, <3>1 DEF UploaderInv, ThreadsInv, Rows
    <3> QED
      BY <1>1, <2>1, <3>2, <3>3, RowsOfDatasets DEF UploaderInv, ThreadsInv, Busy, Running
  <2>4. ~Late => StopInv'
    BY <1>1, <1>4, <2>1 DEF UploaderInv, StopInv, Running
  <2> QED
    BY <2>1, <2>2, <2>3, <2>4 DEF UploaderInv
<1>5. ASSUME NEW f \in {"uncounted", "unconfirmed", "failed"}, SettleAll(s, f),
             copies' \in [Matches -> Nat], \A r \in Matches \ post[s].rows : copies'[r] = copies[r],
             \A r \in post[s].rows \cap Matches : copies'[r] <= MaxTimeouts
      PROVE  UploaderInv'
  <2> DEFINE outcome == [r \in Rows |-> f]
  <2>1. outcome \in [Rows -> Fates \ {"none", "undelivered", "dropped"}]
    BY DEF Fates
  <2>2. Settle(s, outcome)
    BY <1>5 DEF SettleAll
  <2>3. \A r \in post[s].rows : outcome[r] = f
    BY <1>2
  <2> HIDE DEF outcome
  <2> QED
    BY <1>4, <1>5, <2>1, <2>2, <2>3
<1>6. ASSUME post' = [post EXCEPT ![s].tries = @ + 1] \/
             post' = [post EXCEPT ![s].tries = @ + 1, ![s].timeouts = @ + 1],
             post[s].tries < MaxTries,
             post'[s].timeouts < MaxTimeouts,
             UNCHANGED <<at, fate>>, copies' \in [Matches -> Nat],
             \A r \in Matches \ post[s].rows : copies'[r] = copies[r],
             \A r \in post[s].rows \cap Matches : copies'[r] <= post'[s].timeouts
      PROVE  UploaderInv'
  <2>1. post'[s].rows = post[s].rows /\ \A t \in Senders \ {s} : post'[t] = post[t]
    BY <1>2, <1>6 DEF Posts
  <2>2. post' \in [Senders -> Posts]
    <3>1. post[s].tries + 1 \in 0..MaxTries
      BY <1>2, <1>6
    <3>2. CASE post' = [post EXCEPT ![s].tries = @ + 1]
      BY <1>2, <3>1, <3>2 DEF Posts
    <3>3. CASE post' = [post EXCEPT ![s].tries = @ + 1, ![s].timeouts = @ + 1]
      <4>1. post[s].timeouts + 1 \in 0..MaxTimeouts
        BY <1>2, <1>6, <3>3 DEF Posts
      <4> QED
        BY <1>2, <3>1, <3>3, <4>1 DEF Posts
    <3> QED
      BY <1>6, <3>2, <3>3
  <2>3. TypeOK'
    BY <1>1, <1>6, <2>2 DEF UploaderInv, TypeOK
  <2>4. \A t \in Senders : post'[t].rows = post[t].rows
    BY <2>1
  <2>5. PostsInv'
    BY <1>1, <1>6, <2>4 DEF UploaderInv, PostsInv, Running
  <2>6. RowsInv'
    <3>1. \A t \in Senders \ {s} : \A r \in post[t].rows : r \in Rows /\ r \notin post[s].rows
      BY <1>2 DEF UploaderInv, PostsInv, Posts
    <3>2. /\ \A t \in Senders : \A r \in post'[t].rows \cap Matches :
                 copies'[r] <= post'[t].timeouts
          /\ \A t \in Senders : Busy(t)' => post'[t].timeouts < MaxTimeouts
      BY <1>6, <2>1, <3>1 DEF UploaderInv, RowsInv, Busy
    <3>6. \A r \in Matches : copies'[r] <= MaxTimeouts
      <4>1. post'[s].timeouts \in Nat /\ copies' \in [Matches -> Nat]
        BY <1>6, <2>2 DEF Posts
      <4> QED
        BY <1>2, <1>6, <4>1 DEF UploaderInv, RowsInv
    <3>3. \A r \in post[s].rows : at[r] = "flight" /\ fate[r] = "none"
      BY <1>2 DEF UploaderInv, PostsInv, RowsInv
    <3>4. \A r \in Matches : at'[r] \notin {"flight", "settled"} => copies'[r] = 0
      BY <1>6, <3>3 DEF UploaderInv, RowsInv
    <3>5. \A r \in Matches : fate'[r] = "added" => copies'[r] > 0
      BY <1>6, <3>3 DEF UploaderInv, RowsInv
    <3> QED
      BY <1>6, <3>2, <3>4, <3>5, <3>6 DEF UploaderInv, RowsInv
  <2>7. ThreadsInv' /\ (~Late => StopInv')
    BY <1>1, <1>6, <2>4, RowsOfDatasets DEF UploaderInv, ThreadsInv, StopInv, Busy, Running
  <2> QED
    BY <2>3, <2>5, <2>6, <2>7 DEF UploaderInv
<1>7. \A r \in post[s].rows \cap Matches : copies[r] <= post[s].timeouts
  BY DEF UploaderInv, RowsInv
<1>8. \A r \in post[s].rows \cap Matches : copies[r] < MaxTimeouts /\ copies[r] \in Nat
  BY <1>1, <1>2, <1>7 DEF UploaderInv, RowsInv
<1>9. CASE PostAccepted(s)
  <2> DEFINE outcome == [r \in Rows |-> IF r \in Skippable THEN "skipped" ELSE "added"]
  <2>1. outcome \in [Rows -> Fates \ {"none", "undelivered", "dropped"}]
    BY DEF Fates
  <2>2. Settle(s, outcome) /\ Commit(s)
    BY <1>9 DEF PostAccepted
  <2>3. \A r \in post[s].rows : /\ outcome[r] = "added" => r \notin Skippable
                                /\ outcome[r] = "skipped" => r \in Skippable
    BY <1>2
  <2>4. \A r \in post[s].rows \cap Matches : outcome[r] = "added" => copies'[r] > 0
    BY <1>2, <1>3, <2>2, <2>3
  <2>5. \A r \in post[s].rows \cap Matches : copies'[r] <= MaxTimeouts
    BY <1>2, <1>3, <1>8, <2>2
  <2> HIDE DEF outcome
  <2> QED
    BY <1>3, <1>4, <2>1, <2>2, <2>3, <2>4, <2>5
<1>10. CASE PostUncounted(s)
  <2>1. Commit(s) /\ SettleAll(s, "uncounted")
    BY <1>10 DEF PostUncounted
  <2>2. \A r \in post[s].rows \cap Matches : copies'[r] <= MaxTimeouts
    BY <1>2, <1>3, <1>8, <2>1
  <2> QED
    BY <1>3, <1>5, <2>1, <2>2
<1>11. CASE PostRetried(s)
  <2>1. /\ post' = [post EXCEPT ![s].tries = @ + 1] /\ post[s].tries < MaxTries
        /\ UNCHANGED <<at, fate, copies>>
    BY <1>11 DEF PostRetried, MayTry, rows
  <2>2. post'[s].timeouts = post[s].timeouts
    BY <1>2, <2>1 DEF Posts
  <2>3. post[s].timeouts < MaxTimeouts
    BY <1>1 DEF UploaderInv, RowsInv
  <2> QED
    BY <1>2, <1>6, <1>7, <2>1, <2>2, <2>3
<1>12. CASE PostRefused(s)
  BY <1>2, <1>5, <1>12, <1>8 DEF PostRefused
<1>13. CASE PostTimesOut(s)
  <2>1. /\ copies' \in [Matches -> Nat]
        /\ \A r \in Matches \ post[s].rows : copies'[r] = copies[r]
        /\ \A r \in post[s].rows \cap Matches : copies'[r] <= copies[r] + 1
    <3>1. CASE Commit(s)
      BY <1>2, <1>3, <3>1
    <3>2. CASE UNCHANGED copies
      BY <1>2, <3>2
    <3> QED
      BY <1>13, <3>1, <3>2 DEF PostTimesOut
  <2>2. CASE post[s].timeouts + 1 >= MaxTimeouts
    <3>1. \A r \in post[s].rows \cap Matches : copies'[r] <= MaxTimeouts
      BY <1>2, <1>8, <2>1
    <3> QED
      BY <1>5, <1>13, <2>1, <2>2, <3>1 DEF PostTimesOut
  <2>3. CASE ~(post[s].timeouts + 1 >= MaxTimeouts)
    <3>1. /\ post' = [post EXCEPT ![s].tries = @ + 1, ![s].timeouts = @ + 1]
          /\ post[s].tries < MaxTries /\ UNCHANGED <<at, fate>>
      BY <1>13, <2>3 DEF PostTimesOut, MayTry
    <3>2. post'[s].timeouts = post[s].timeouts + 1
      BY <1>2, <3>1 DEF Posts
    <3>3. \A r \in post[s].rows \cap Matches : copies'[r] <= post'[s].timeouts
      <4> SUFFICES ASSUME NEW r \in post[s].rows \cap Matches PROVE copies'[r] <= post'[s].timeouts
        OBVIOUS
      <4>1. copies[r] \in Nat /\ copies'[r] \in Nat
        BY <1>2, <2>1
      <4> QED
        BY <1>2, <1>7, <2>1, <3>2, <4>1
    <3>4. post'[s].timeouts < MaxTimeouts
      BY <1>2, <2>3, <3>2
    <3> QED
      BY <1>6, <2>1, <3>1, <3>3, <3>4
  <2> QED
    BY <2>2, <2>3
<1>14. CASE PostAbandoned(s)
  BY <1>2, <1>5, <1>14, <1>8 DEF PostAbandoned
<1> QED
  BY <1>9, <1>10, <1>11, <1>12, <1>13, <1>14 DEF PostStep

(* The main thread.                                                         *)
LEMMA SendEndKeeps == UploaderInv /\ SendEnd => UploaderInv'
<1> SUFFICES ASSUME UploaderInv, SendEnd PROVE UploaderInv'
  OBVIOUS
<1> USE UploaderAssumption DEF UploaderAssumption
<1>1. /\ mpc = "scan" /\ mpc' = "ending" /\ StartPost("main", {End})
      /\ UNCHANGED <<fate, copies, due, flushing, wpc, stopFlag, local, sentinel>>
      /\ ~Late => \A r \in Rows : at[r] # "checked"
  BY DEF SendEnd, worker
<1>2. /\ Running /\ ~Busy("main") /\ {End} \in SUBSET Rows
      /\ \A r \in {End} : at[r] = "unborn"
  BY <1>1 DEF UploaderInv, ThreadsInv, Running, Rows
<1>3. /\ post' \in [Senders -> Posts] /\ at' \in [Rows -> Places]
      /\ fate' \in [Rows -> Fates] /\ copies' \in [Matches -> Nat]
      /\ PostsInv' /\ RowsInv'
      /\ \A r \in Rows : at'[r] = IF r \in {End} THEN "flight" ELSE at[r]
      /\ \A t \in Senders \ {"main"} : post'[t] = post[t]
  BY <1>1, <1>2, StartPostKeeps, RowsOfDatasets
<1>4. TypeOK'
  BY <1>1, <1>3 DEF UploaderInv, TypeOK
<1>5. ThreadsInv'
  BY <1>1, <1>3, RowsOfDatasets DEF UploaderInv, ThreadsInv, Busy, Running
<1>6. ~Late => StopInv'
  BY <1>1, <1>3 DEF UploaderInv, StopInv, Running
<1> QED
  BY <1>3, <1>4, <1>5, <1>6 DEF UploaderInv

LEMMA MainKeeps == UploaderInv /\ MainStep => UploaderInv'
<1> SUFFICES ASSUME UploaderInv, MainStep PROVE UploaderInv'
  OBVIOUS
<1> USE UploaderAssumption DEF UploaderAssumption, UploaderInv
<1>1. CASE Stop
  <2> USE <1>1 DEF Stop, rows, worker
  <2>1. TypeOK'
    BY DEF TypeOK
  <2>2. PostsInv' /\ RowsInv'
    BY DEF PostsInv, RowsInv, Busy, Running
  <2>3. ThreadsInv'
    BY DEF ThreadsInv, Busy, Running
  <2>4. ~Late => StopInv'
    BY DEF StopInv, Running
  <2> QED
    BY <2>1, <2>2, <2>3, <2>4
<1>2. CASE PutSentinel
  <2> USE <1>2 DEF PutSentinel, rows, worker
  <2>1. TypeOK'
    BY DEF TypeOK
  <2>2. PostsInv' /\ RowsInv'
    BY DEF PostsInv, RowsInv, Busy, Running
  <2>3. ThreadsInv'
    BY DEF ThreadsInv, Busy, Running
  <2>4. ~Late => StopInv'
    BY DEF StopInv, Running
  <2> QED
    BY <2>1, <2>2, <2>3, <2>4
<1>3. CASE StopJoined
  <2>1. /\ mpc = "waiting" /\ mpc' = "joined" /\ wpc = "dead"
        /\ at' = [r \in Rows |-> IF r \in Waiting THEN "settled" ELSE at[r]]
        /\ fate' = [r \in Rows |-> IF r \in Waiting THEN "undelivered" ELSE fate[r]]
        /\ UNCHANGED <<copies, post, due, flushing, wpc, stopFlag, local, sentinel>>
    BY <1>3 DEF StopJoined, Alive, All, worker
  <2>2. \A r \in Waiting : at[r] \in {"queue", "behind"} /\ fate[r] = "none"
    BY DEF Waiting, RowsInv
  <2>3. \A s \in Senders : \A r \in post[s].rows : r \in Rows /\ r \notin Waiting
    BY DEF PostsInv, Waiting, TypeOK, Posts
  <2>4. TypeOK'
    BY <2>1 DEF TypeOK, Places, Fates
  <2>5. PostsInv'
    BY <2>1, <2>3 DEF PostsInv, Running
  <2>6. RowsInv'
    BY <2>1, <2>2 DEF RowsInv, Busy, Rows
  <2>7. ThreadsInv'
    BY <2>1 DEF ThreadsInv, Busy, Running
  <2>8. ~Late => StopInv'
    <3> SUFFICES ASSUME ~Late PROVE StopInv'
      OBVIOUS
    <3>1. Waiting = {}
      BY <2>1 DEF StopInv, Waiting, Running
    <3>2. \A r \in Rows : at'[r] = at[r] /\ fate'[r] = fate[r]
      BY <2>1, <3>1
    <3> QED
      BY <2>1, <3>2 DEF StopInv, Running
  <2> QED
    BY <2>4, <2>5, <2>6, <2>7, <2>8
<1>4. CASE Finish
  <2>1. /\ mpc' = "exited" /\ wpc' = "dead" /\ due' = {} /\ flushing' = {}
        /\ mpc \in {"joined", "waiting"} /\ local' \in BOOLEAN
        /\ UNCHANGED <<at, fate, copies, stopFlag, sentinel>>
        /\ post' = [s \in Senders |-> NoPost]
    BY <1>4 DEF Finish, rows
  <2>2. NoPost \in Posts /\ NoPost.rows = {}
    BY DEF NoPost, Posts
  <2>3. \A s \in Senders : post'[s].rows = {}
    BY <2>1, <2>2
  <2>4. TypeOK'
    BY <2>1, <2>2 DEF TypeOK
  <2>5. PostsInv' /\ RowsInv'
    BY <2>1, <2>3 DEF PostsInv, RowsInv, Busy, Running
  <2>6. ThreadsInv'
    BY <2>1, <2>3, RowsOfDatasets DEF ThreadsInv, Busy, Running
  <2>7. ~Late => StopInv'
    BY <2>1 DEF StopInv, Running
  <2> QED
    BY <2>4, <2>5, <2>6, <2>7
<1> QED
  BY <1>1, <1>2, <1>3, <1>4 DEF MainStep

(* UploaderInv is an invariant: rows, POSTs, threads and stopping, for any  *)
(* numbers of rows and any limits.  Code: LookupDatasetUploader.            *)
THEOREM UploaderInductive == Spec => []UploaderInv
<1>1. Init => UploaderInv
  BY InitUploader
<1>2. UploaderInv /\ [Next]_vars => UploaderInv'
  <2> SUFFICES ASSUME UploaderInv, [Next]_vars PROVE UploaderInv'
    OBVIOUS
  <2>1. CASE UNCHANGED vars
    BY <2>1 DEF vars, rows, worker, main, UploaderInv, TypeOK, PostsInv, RowsInv, ThreadsInv,
                StopInv, Busy, Running
  <2>2. CASE Next
    BY <2>2, EnqueueKeeps, BatchKeeps, DrainKeeps, WorkerControlKeeps, PostKeeps, SendEndKeeps,
       MainKeeps
    DEF Next
  <2> QED
    BY <2>1, <2>2
<1> QED
  BY <1>1, <1>2, PTL DEF Spec


(* Type correctness of the uploader.                                        *)
THEOREM UploaderTyped == Spec => []TypeOK
<1>1. UploaderInv => TypeOK
  BY DEF UploaderInv
<1> QED
  BY <1>1, UploaderInductive, PTL

(* Whatever the POSTs answer, a row is in the dataset at most as often as   *)
(* LOOKUP_TIMEOUT_MAX_ATTEMPTS allows.  Code: _send_batch.                  *)
THEOREM DuplicatesBounded == Spec => []BoundedDuplicates
<1>1. UploaderInv => BoundedDuplicates
  BY DEF UploaderInv, RowsInv, BoundedDuplicates
<1> QED
  BY <1>1, UploaderInductive, PTL

(* When stop() returns with the worker gone, no queued row is unposted and  *)
(* uncounted.  Code: _worker's exits and final drain, stop.                 *)
THEOREM BooksHonest == ASSUME ~Late PROVE Spec => []HonestBooks
<1>1. UploaderInv => HonestBooks
  <2> SUFFICES ASSUME UploaderInv, mpc = "joined", NEW r \in Queued PROVE fate[r] # "none"
    BY DEF HonestBooks
  <2>1. wpc = "dead" /\ Running /\ r \in Rows /\ at[r] \in Places
    BY DEF UploaderInv, StopInv, TypeOK, Running, Queued
  <2>2. \A s \in Senders : post[s].rows = {}
    BY <2>1 DEF UploaderInv, ThreadsInv, Busy, Senders
  <2>3. at[r] \notin {"unborn", "checked"}
    BY DEF Queued
  <2>4. at[r] # "flight"
    BY <2>1, <2>2 DEF UploaderInv, PostsInv
  <2>5. at[r] \notin {"queue", "behind", "batch"}
    BY <2>1 DEF UploaderInv, StopInv, ThreadsInv
  <2>6. at[r] = "settled"
    BY <2>1, <2>3, <2>4, <2>5 DEF Places
  <2> QED
    BY <2>1, <2>6 DEF UploaderInv, RowsInv
<1> QED
  BY <1>1, UploaderInductive, PTL

(* A worker that stops within its budget leaves no row in the queue: the    *)
(* exit test and the sentinel both come after every row.  Code: _worker.    *)
THEOREM NoneStranded == ASSUME ~Late PROVE Spec => []NothingStranded
<1>1. UploaderInv => NothingStranded
  BY DEF UploaderInv, StopInv, NothingStranded
<1> QED
  BY <1>1, UploaderInductive, PTL

(* Host cleanup removes the local copy of no finding that the dataset does  *)
(* not have.  Code: _delivery_shortfall, HostCleanup.should_run.            *)
THEOREM FindingsSurvive == ASSUME TrustedBooks PROVE Spec => []FindingSurvives
<1> USE DEF TrustedBooks
<1>1. Init => FindingSurvives
  BY DEF Init, FindingSurvives
<1>2. UploaderInv /\ FindingSurvives /\ [Next]_vars => FindingSurvives'
  <2> SUFFICES ASSUME UploaderInv, FindingSurvives, [Next]_vars, mpc' = "exited"
               PROVE  local' \/ \A r \in Matches : at'[r] # "unborn" => copies'[r] > 0
    BY DEF FindingSurvives
  <2>1. CASE Finish
    <3> SUFFICES ASSUME ~local', NEW r \in Matches, at[r] # "unborn" PROVE copies[r] > 0
      BY <2>1 DEF Finish, rows
    <3>1. AllClear /\ r \in Rows /\ mpc \in {"joined", "waiting"}
      BY <2>1 DEF Finish, Rows
    <3>2. r \in Queued
      BY <3>1 DEF Queued, UploaderInv, StopInv
    <3>3. fate[r] \in {"added", "skipped"}
      BY <3>1, <3>2 DEF AllClear, Landed
    <3>4. r \notin Skippable
      OBVIOUS
    <3> QED
      BY <3>1, <3>3, <3>4 DEF UploaderInv, RowsInv
  <2>2. CASE UNCHANGED vars
    BY <2>2 DEF vars, rows, main, FindingSurvives
  <2>3. ASSUME Next, ~Finish PROVE FALSE
    <3>1. Running => mpc' # "exited"
      BY <2>3 DEF Next, Check, Put, Again, Get, Expire, FlushDue, Empty, ExitTest, GetSentinel,
                  Drain, Joined, PostStep, PostAccepted, PostUncounted, PostRetried, PostRefused,
                  PostTimesOut, PostAbandoned, SendEnd, MainStep, Stop, PutSentinel, StopJoined,
                  main, Running
    <3>2. Running
      BY <2>3 DEF Next, Check, Put, Again, Get, Expire, FlushDue, Empty, ExitTest, GetSentinel,
                  Drain, Joined, PostStep, PostAccepted, PostUncounted, PostRetried, PostRefused,
                  PostTimesOut, PostAbandoned, SendEnd, MainStep, Stop, PutSentinel, StopJoined,
                  Ready, MayTry, Running
    <3> QED
      BY <3>1, <3>2
  <2> QED
    BY <2>1, <2>2, <2>3
<1> QED
  BY <1>1, <1>2, UploaderInductive, PTL DEF Spec
=============================================================================
