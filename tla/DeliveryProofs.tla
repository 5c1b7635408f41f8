--------------------------- MODULE DeliveryProofs ---------------------------
(***************************************************************************)
(* Theorems about Delivery, for any findings, cap, batch size, retries and  *)
(* answers of the collector: the books of a channel balance, a storm is     *)
(* told in full, and the host cleanup removes no only copy.                 *)
(***************************************************************************)
EXTENDS Delivery, FiniteSetTheorems, TLAPS

-----------------------------------------------------------------------------
(* What is queued or in the worker's hands; what is past both; and what of   *)
(* that the server has.                                                      *)
InHand == Waiting \cup batch
Settled == put \ InHand
Safe == landed \ InHand
Closed == {"summary", "clean", "exited"}

(* An item is in one place, and comes from a finding, or a rollup, once. *)
SetsInv ==
    /\ IsFiniteSet(put)
    /\ ahead \cap behind = {} /\ Waiting \cap batch = {}
    /\ put \cap Findings \subseteq seen \ suppressed /\ pending \subseteq seen \ suppressed
    /\ pending \cap put = {} /\ seen \subseteq suppressed \cup pending \cup put
    /\ spc = "idle" => \A r \in Rules : Rollup(r) \notin put
    /\ toRoll # {} => spc = "rollup"
    /\ \A r \in toRoll : Rollup(r) \notin put

StormInv ==
    /\ Alerts /\ Cap > 0 => Cardinality(seen \ suppressed) <= Cap
    /\ ~Orphans /\ spc # "idle" =>
          /\ pending = {}
          /\ \A f \in suppressed : f[1] \in toRoll \/ Rollup(f[1]) \in put

(* The scan workers, then the rollups, count what they have put. *)
CountInv ==
    /\ spc \notin {"idle", "rollup"} /\ ~Orphans => uncounted = {}
    /\ spc = "rollup" /\ ~Orphans => \A i \in uncounted : \E r \in Rules : i = Rollup(r)

(* Once the flag is up the worker takes nothing any more, and what is behind *)
(* the sentinel stays there.                                                 *)
ThreadInv ==
    /\ flag <=> spc \in {"sentinel", "join", "count"} \cup Closed
    /\ sentinel # "unput" <=> spc \in {"join", "count"} \cup Closed
    /\ behind # {} => sentinel # "unput"
    /\ wpc = "gone" => batch = {}
    /\ wpc \in {"test", "get"} => Alerts \/ batch = {}
    /\ Flagged =>
          /\ ~Orphans /\ wpc = "get" => behind = {}
          /\ sentinel = "taken" /\ spc \in {"join", "count"} =>
                /\ wpc = "gone" \/ (wpc = "send" /\ leaving)
                /\ ~Orphans => wpc = "gone" \/ Waiting = {}
          /\ spc \in {"count", "summary", "clean"} =>
                wpc \in {"gone", "send"} \/ (wpc = "test" /\ batch = {})

BookInv ==
    Flagged =>
        /\ spc \notin Closed => undelivered = 0 /\ ok + failed = Cardinality(Settled \ Unbooked)
        /\ spc \in Closed => ok + failed + undelivered + Cardinality(batch) <= Cardinality(put)
        /\ spc \in {"summary", "clean"} /\ ~Orphans =>
              ok + failed + undelivered + Cardinality(Built) >= Cardinality(put \ Unbooked)
        /\ ok <= Cardinality(Safe)

KeepInv ==
    /\ cleaned = "on_delivery" => Alerts /\ ~short /\ spc = "exited"
    /\ Alerts /\ ~Orphans /\ ~short /\ spc \in {"clean", "exited"} => put \subseteq landed

DInv == TypeOK /\ SetsInv /\ StormInv /\ CountInv /\ ThreadInv /\ BookInv /\ KeepInv

-----------------------------------------------------------------------------
LEMMA RollupFacts ==
    /\ \A r \in Rules : Rollup(r) \in Items /\ Rollup(r) \notin Findings
    /\ \A r, q \in Rules : Rollup(r) = Rollup(q) => r = q
    /\ \A f \in Findings : f[1] \in Rules /\ f \in Items
<1>1. \A r \in Rules : Rollup(r)[2] = "rollup" /\ Rollup(r)[1] = r
  BY DEF Rollup
<1>2. \A f \in Findings : f[2] # "rollup"
  BY DeliveryAssumption
<1> QED BY <1>1, <1>2 DEF Items, Rules

LEMMA DInit == Init => DInv
<1> SUFFICES ASSUME Init PROVE DInv
  OBVIOUS
<1> USE DEF Init
<1>1. TypeOK
  <2>1. attempt \in 0..(Retries - 1) /\ fails \in 0..Threshold
    BY DeliveryAssumption
  <2> QED BY <2>1 DEF TypeOK
<1>2. SetsInv
  BY FS_EmptySet DEF SetsInv, Waiting
<1>3. StormInv /\ ThreadInv /\ KeepInv /\ CountInv
  BY FS_EmptySet, DeliveryAssumption
     DEF StormInv, ThreadInv, KeepInv, CountInv, Closed, Waiting
<1>4. BookInv
  <2>1. Settled \ Unbooked = {} /\ Safe = {}
    BY DEF Settled, Safe
  <2> QED BY <2>1, FS_EmptySet DEF BookInv, Closed
<1> QED BY <1>1, <1>2, <1>3, <1>4 DEF DInv

-----------------------------------------------------------------------------
(* What a step of the worker does to the items: it moves them between the    *)
(* queue and its batch, or is done with the batch.                           *)
Moves ==
    /\ InHand' = InHand /\ UNCHANGED <<ok, failed>>
    /\ (ahead \cap behind = {} /\ Waiting \cap batch = {} =>
            (ahead \cap behind)' = {} /\ (Waiting \cap batch)' = {})
    /\ landed \subseteq landed' /\ landed' \subseteq landed \cup batch

Finishes ==
    /\ batch' = {} /\ UNCHANGED <<ahead, behind>>
    /\ \/ ok' = ok + Cardinality(Built) /\ landed' = landed \cup Built /\ UNCHANGED failed
       \/ failed' = failed + Cardinality(Built) /\ landed' \in {landed, landed \cup Built}
          /\ UNCHANGED ok
       \/ Built = {} /\ UNCHANGED <<ok, failed, landed>>

LEMMA WorkerMoves ==
    ASSUME WorkerStep, ThreadInv
    PROVE  /\ UNCHANGED <<channel, findings, items, lapsed, stopping, undelivered, ending>>
           /\ Moves \/ Finishes
<1>1. UNCHANGED <<channel, findings, items, lapsed, stopping, undelivered, ending>>
  BY DEF WorkerStep, Test, GetSentinel, Quiet, Allow, NothingBuilt, ReplyOk, ReplyRefused, PutBackDone, Take,
         PutBack, CollectBatch, Retry, Exhausted, WorkerFrame
<1> USE DEF Moves, Finishes, InHand, Waiting
<1>2. ASSUME Test \/ GetSentinel \/ Quiet \/ Allow PROVE Moves
  <2>1. UNCHANGED <<ahead, behind, batch, landed, ok, failed>>
    BY <1>2 DEF Test, GetSentinel, Quiet, Allow, queue
  <2> QED BY <2>1
<1>11. ASSUME NothingBuilt PROVE Finishes
  BY <1>11 DEF NothingBuilt, BatchDone, queue
<1>3. ASSUME ReplyOk PROVE Finishes
  BY <1>3 DEF ReplyOk, BatchDone, queue
<1>10. ASSUME ReplyRefused PROVE Finishes
  BY <1>10 DEF ReplyRefused, BatchDone, queue
<1>4. ASSUME PutBackDone PROVE Moves
  <2>1. UNCHANGED <<ahead, behind, landed, ok, failed>> /\ batch = {} /\ batch' = {}
    BY <1>4 DEF PutBackDone, BatchDone, queue
  <2> QED BY <2>1
<1>5. ASSUME NEW i \in Items, Take(i) PROVE Moves
  BY <1>5 DEF Take
<1>6. ASSUME NEW i \in Items, PutBack(i) PROVE Moves
  BY <1>6 DEF PutBack, Append
<1>7. ASSUME NEW S \in SUBSET ahead, CollectBatch(S) PROVE Moves
  <2>1. batch = {} /\ batch' = S /\ ahead' = ahead \ S /\ UNCHANGED <<behind, landed, ok, failed>>
    BY <1>7 DEF CollectBatch, ThreadInv
  <2> QED BY <2>1
<1>8. ASSUME NEW lim \in BOOLEAN, Retry(lim) PROVE Moves
  BY <1>8 DEF Retry, Built, queue
<1>9. ASSUME NEW lim \in BOOLEAN, Exhausted(lim) PROVE Moves \/ Finishes
  BY <1>9 DEF Exhausted, BatchDone, Built, queue
<1> QED BY <1>1, <1>2, <1>3, <1>4, <1>5, <1>6, <1>7, <1>8, <1>9, <1>10, <1>11 DEF WorkerStep

-----------------------------------------------------------------------------
(* The same batch, the alerts of which can be built. *)
LEMMA BuiltIs == Built \subseteq batch
  BY DEF Built

LEMMA DisjointCards ==
    ASSUME NEW A, NEW B, IsFiniteSet(A), IsFiniteSet(B), A \cap B = {}
    PROVE  /\ IsFiniteSet(A \cup B) /\ Cardinality(A) \in Nat /\ Cardinality(B) \in Nat
           /\ Cardinality(A \cup B) = Cardinality(A) + Cardinality(B)
<1>1. Cardinality(A \cup B) = Cardinality(A) + Cardinality(B) - Cardinality({})
  BY FS_Union
<1>2. IsFiniteSet(A \cup B)
  BY FS_Union
<1>3. Cardinality({}) = 0
  BY FS_EmptySet
<1>4. Cardinality(A) \in Nat /\ Cardinality(B) \in Nat
  BY FS_CardinalityType
<1> QED BY <1>1, <1>2, <1>3, <1>4

(* All the sets of items are finite. *)
LEMMA AllFinite ==
    ASSUME TypeOK, IsFiniteSet(put)
    PROVE  \A S : S \subseteq put \/ S \subseteq Findings =>
                     IsFiniteSet(S) /\ Cardinality(S) \in Nat
<1> SUFFICES ASSUME NEW S, S \subseteq put \/ S \subseteq Findings
             PROVE  IsFiniteSet(S) /\ Cardinality(S) \in Nat
  OBVIOUS
<1>1. IsFiniteSet(Findings)
  BY DeliveryAssumption
<1>2. IsFiniteSet(S)
  BY <1>1, FS_Subset
<1> QED BY <1>2, FS_CardinalityType

(* The items put are those done with, those queued and those in the batch.  *)
LEMMA Division ==
    ASSUME TypeOK, SetsInv, NEW X
    PROVE  /\ Cardinality(put \ X)
                = Cardinality(Settled \ X) + Cardinality(Waiting \ X) + Cardinality(batch \ X)
           /\ Cardinality(Settled \ X) \in Nat /\ Cardinality(Waiting \ X) \in Nat
           /\ Cardinality(batch \ X) \in Nat /\ Cardinality(put \ X) \in Nat
<1>1. /\ IsFiniteSet(Settled \ X) /\ IsFiniteSet(Waiting \ X) /\ IsFiniteSet(batch \ X)
      /\ IsFiniteSet(put \ X)
  BY AllFinite DEF SetsInv, TypeOK, Settled, Waiting
<1>2. (Waiting \ X) \cap (batch \ X) = {}
  BY DEF SetsInv
<1>3. /\ IsFiniteSet(InHand \ X)
      /\ Cardinality(InHand \ X) = Cardinality(Waiting \ X) + Cardinality(batch \ X)
  <2>1. InHand \ X = (Waiting \ X) \cup (batch \ X)
    BY DEF InHand
  <2> QED BY <1>1, <1>2, <2>1, DisjointCards
<1>4. (Settled \ X) \cap (InHand \ X) = {} /\ put \ X = (Settled \ X) \cup (InHand \ X)
  BY DEF Settled, InHand, Waiting, TypeOK
<1>5. Cardinality(put \ X) = Cardinality(Settled \ X) + Cardinality(InHand \ X)
  BY <1>1, <1>3, <1>4, DisjointCards
<1>6. /\ Cardinality(Settled \ X) \in Nat /\ Cardinality(Waiting \ X) \in Nat
      /\ Cardinality(batch \ X) \in Nat /\ Cardinality(put \ X) \in Nat
  BY <1>1, FS_CardinalityType
<1> QED BY <1>3, <1>5, <1>6

(* With all of them, and with those that can be sent. *)
LEMMA Divisions ==
    ASSUME TypeOK, SetsInv
    PROVE  /\ Cardinality(put) = Cardinality(Settled) + Cardinality(Waiting) + Cardinality(batch)
           /\ Cardinality(put \ Unbooked)
                 = Cardinality(Settled \ Unbooked) + Cardinality(Waiting \ Unbooked)
                   + Cardinality(Built)
           /\ Cardinality(Settled \ Unbooked) <= Cardinality(Settled)
           /\ Cardinality(Waiting \ Unbooked) <= Cardinality(Waiting)
           /\ Cardinality(Built) <= Cardinality(batch)
           /\ Cardinality(Settled) \in Nat /\ Cardinality(Waiting) \in Nat
           /\ Cardinality(batch) \in Nat /\ Cardinality(put) \in Nat
           /\ Cardinality(Settled \ Unbooked) \in Nat /\ Cardinality(Waiting \ Unbooked) \in Nat
           /\ Cardinality(Built) \in Nat /\ Cardinality(put \ Unbooked) \in Nat
<1>1. put \ {} = put /\ Settled \ {} = Settled /\ Waiting \ {} = Waiting /\ batch \ {} = batch
  OBVIOUS
<1>2. Built = batch \ Unbooked
  BY DEF Built
<1>3. /\ Cardinality(put) = Cardinality(Settled) + Cardinality(Waiting) + Cardinality(batch)
      /\ Cardinality(Settled) \in Nat /\ Cardinality(Waiting) \in Nat
      /\ Cardinality(batch) \in Nat /\ Cardinality(put) \in Nat
  <2>1. /\ Cardinality(put \ {})
              = Cardinality(Settled \ {}) + Cardinality(Waiting \ {}) + Cardinality(batch \ {})
        /\ Cardinality(Settled \ {}) \in Nat /\ Cardinality(Waiting \ {}) \in Nat
        /\ Cardinality(batch \ {}) \in Nat /\ Cardinality(put \ {}) \in Nat
    BY Division
  <2> QED BY <1>1, <2>1
<1>4. /\ Cardinality(put \ Unbooked) = Cardinality(Settled \ Unbooked)
            + Cardinality(Waiting \ Unbooked) + Cardinality(batch \ Unbooked)
      /\ Cardinality(Settled \ Unbooked) \in Nat /\ Cardinality(Waiting \ Unbooked) \in Nat
      /\ Cardinality(batch \ Unbooked) \in Nat /\ Cardinality(put \ Unbooked) \in Nat
  BY Division
<1>5. IsFiniteSet(Settled) /\ IsFiniteSet(Waiting) /\ IsFiniteSet(batch)
  BY AllFinite DEF SetsInv, TypeOK, Settled, Waiting
<1>6. /\ Cardinality(Settled \ Unbooked) <= Cardinality(Settled)
      /\ Cardinality(Waiting \ Unbooked) <= Cardinality(Waiting)
      /\ Cardinality(Built) <= Cardinality(batch)
  BY <1>2, <1>5, FS_Subset
<1> QED BY <1>2, <1>3, <1>4, <1>6

-----------------------------------------------------------------------------
(* The steps of the worker. *)
LEMMA WorkerTyped ==
    ASSUME TypeOK, IsFiniteSet(put), WorkerStep, ThreadInv
    PROVE  TypeOK'
<1> USE DEF TypeOK
<1>1. UNCHANGED <<channel, seen, suppressed, pending, put, uncounted, lapsed, spc, toRoll, flag,
                  undelivered, short, cleaned>>
  BY WorkerMoves DEF findings, items, stopping, ending
<1>2. /\ ahead' \subseteq put' /\ behind' \subseteq put' /\ batch' \subseteq put'
      /\ landed' \subseteq put' /\ ok' \in Nat /\ failed' \in Nat
  <2>1. Cardinality(Built) \in Nat /\ Built \subseteq batch
    BY AllFinite, BuiltIs
  <2>2. CASE Moves
    BY <1>1, <2>2 DEF Moves, InHand, Waiting
  <2>3. CASE Finishes
    BY <1>1, <2>1, <2>3 DEF Finishes
  <2> QED BY <2>2, <2>3, WorkerMoves
<1>3. /\ sentinel' \in {"unput", "queued", "taken"}
      /\ wpc' \in {"test", "get", "allow", "send", "back", "gone"}
      /\ leaving' \in BOOLEAN /\ limited' \in BOOLEAN
  BY DEF WorkerStep, Test, GetSentinel, Quiet, Allow, NothingBuilt, ReplyOk, ReplyRefused, PutBackDone, Take,
         PutBack, CollectBatch, Retry, Exhausted, WorkerFrame, Leave, Send, BatchDone, queue
<1>4. attempt' \in 0..(Retries - 1)
  <2>1. 0 \in 0..(Retries - 1)
    BY DeliveryAssumption
  <2>2. ASSUME NEW lim \in BOOLEAN, Retry(lim) PROVE attempt' \in 0..(Retries - 1)
    BY <2>2, DeliveryAssumption DEF Retry, LastAttempt
  <2> QED
    BY <2>1, <2>2
    DEF WorkerStep, Test, GetSentinel, Quiet, Allow, NothingBuilt, ReplyOk, ReplyRefused, PutBackDone, Take,
        PutBack, CollectBatch, Exhausted, WorkerFrame, BatchDone
<1>5. circuit' \in {"closed", "open", "half_open"} /\ fails' \in 0..Threshold
  <2>1. CASE OnFailure
    BY <2>1, DeliveryAssumption DEF OnFailure
  <2>2. CASE OnSuccess
    BY <2>2, DeliveryAssumption DEF OnSuccess
  <2>3. CASE Allow
    BY <2>3 DEF Allow
  <2>4. CASE UNCHANGED breaker
    BY <2>4 DEF breaker
  <2>5. OnFailure \/ OnSuccess \/ Allow \/ UNCHANGED breaker
    BY DEF WorkerStep, Test, GetSentinel, Quiet, NothingBuilt, ReplyOk, ReplyRefused, PutBackDone, Take,
           PutBack, CollectBatch, Retry, Exhausted, breaker
  <2> QED BY <2>1, <2>2, <2>3, <2>4, <2>5
<1> QED BY <1>1, <1>2, <1>3, <1>4, <1>5

LEMMA WorkerSets ==
    ASSUME TypeOK, SetsInv, StormInv, ThreadInv, WorkerStep
    PROVE  SetsInv' /\ StormInv' /\ (CountInv => CountInv')
<1>1. UNCHANGED <<channel, seen, suppressed, pending, put, uncounted, spc, toRoll>>
  BY WorkerMoves DEF findings, items, stopping
<1>2. (ahead \cap behind)' = {} /\ (Waiting \cap batch)' = {}
  <2>1. CASE Moves
    BY <2>1 DEF Moves, SetsInv
  <2>2. CASE Finishes
    BY <2>2 DEF Finishes, SetsInv
  <2> QED BY <2>1, <2>2, WorkerMoves
<1> QED BY <1>1, <1>2 DEF SetsInv, StormInv, CountInv, Alerts, Waiting

LEMMA WorkerThread ==
    ASSUME TypeOK, ThreadInv, WorkerStep, spc # "exited"
    PROVE  ThreadInv'
<1>1. UNCHANGED <<channel, spc, flag>>
  BY WorkerMoves DEF stopping
<1> USE DEF ThreadInv, Flagged, Alerts, Closed, Waiting, TypeOK
<1>2. CASE Test
  BY <1>1, <1>2 DEF Test, Leave, Send, queue, WorkerFrame
<1>3. CASE GetSentinel
  BY <1>1, <1>3 DEF GetSentinel, Leave, Send, WorkerFrame
<1>4. CASE Quiet
  BY <1>1, <1>4 DEF Quiet, Leave, Send, queue, WorkerFrame
<1>5. CASE Allow
  BY <1>1, <1>5 DEF Allow, queue, WorkerFrame
<1>14. CASE NothingBuilt
  BY <1>1, <1>14 DEF NothingBuilt, BatchDone, queue, WorkerFrame
<1>6. CASE ReplyOk
  BY <1>1, <1>6 DEF ReplyOk, Posting, BatchDone, queue, WorkerFrame
<1>7. CASE ReplyRefused
  BY <1>1, <1>7 DEF ReplyRefused, Posting, BatchDone, queue, WorkerFrame
<1>8. CASE PutBackDone
  BY <1>1, <1>8 DEF PutBackDone, BatchDone, queue, WorkerFrame
<1>9. ASSUME NEW i \in Items, Take(i) PROVE ThreadInv'
  BY <1>1, <1>9 DEF Take, WorkerFrame
<1>10. ASSUME NEW i \in Items, PutBack(i) PROVE ThreadInv'
  BY <1>1, <1>10 DEF PutBack, Append, WorkerFrame
<1>11. ASSUME NEW S \in SUBSET ahead, CollectBatch(S) PROVE ThreadInv'
  BY <1>1, <1>11 DEF CollectBatch, Send, WorkerFrame
<1>12. ASSUME NEW lim \in BOOLEAN, Retry(lim) PROVE ThreadInv'
  BY <1>1, <1>12 DEF Retry, Posting, queue, WorkerFrame
<1>13. ASSUME NEW lim \in BOOLEAN, Exhausted(lim) PROVE ThreadInv'
  BY <1>1, <1>13 DEF Exhausted, Posting, BatchDone, queue, WorkerFrame
<1> QED
  BY <1>2, <1>3, <1>4, <1>5, <1>6, <1>7, <1>8, <1>9, <1>10, <1>11, <1>12, <1>13, <1>14
     DEF WorkerStep

(* Done with a batch, the worker has as many more items settled.            *)
LEMMA WorkerBooks ==
    ASSUME TypeOK, SetsInv, ThreadInv, BookInv, WorkerStep, spc # "exited"
    PROVE  BookInv'
<1> SUFFICES ASSUME Flagged PROVE BookInv'
  BY WorkerMoves DEF BookInv, Flagged
<1>1. UNCHANGED <<channel, put, spc, undelivered>> /\ Unbooked' = Unbooked
  BY WorkerMoves DEF stopping, items, Unbooked, Alerts
<1> USE DEF InHand, Waiting
<1>2. CASE Moves
  <2>1. Settled' = Settled
    BY <1>1, <1>2 DEF Moves, Settled
  <2>2. /\ Cardinality(Safe)' >= Cardinality(Safe)
        /\ Cardinality(Safe) \in Nat /\ Cardinality(Safe') \in Nat
    <3>1. Safe \subseteq Safe' /\ Safe' \subseteq put
      BY <1>2, <1>1 DEF Moves, Safe, TypeOK
    <3>2. IsFiniteSet(Safe') /\ Cardinality(Safe) \in Nat /\ Cardinality(Safe') \in Nat
      BY <3>1, AllFinite DEF SetsInv
    <3> QED BY <3>1, <3>2, FS_Subset
  <2>3. spc \in Closed => batch' = batch
    <3>1. ASSUME spc \in Closed PROVE wpc = "send" \/ wpc = "gone" \/ (wpc = "test" /\ flag)
      BY <3>1 DEF ThreadInv, Closed
    <3>2. ASSUME NothingBuilt \/ ReplyOk \/ ReplyRefused \/ \E lim \in BOOLEAN : Exhausted(lim)
          PROVE  batch' = batch
      BY <1>2, <3>2
      DEF NothingBuilt, ReplyOk, ReplyRefused, Exhausted, BatchDone, Moves, SetsInv, queue
    <3>3. ASSUME Test \/ \E lim \in BOOLEAN : Retry(lim) PROVE batch' = batch
      BY <3>3 DEF Test, Retry
    <3> QED
      BY <3>1, <3>2, <3>3
      DEF WorkerStep, GetSentinel, Quiet, Allow, PutBackDone, Take, PutBack, CollectBatch
  <2>4. ok' = ok /\ failed' = failed
    BY <1>2 DEF Moves
  <2>5. ok <= Cardinality(Safe)'
    BY <2>2 DEF BookInv, TypeOK, SetsInv
  <2>6. spc \in Closed => Built' = Built
    BY <1>1, <2>3 DEF Built
  <2> QED
    BY <1>1, <2>1, <2>3, <2>4, <2>5, <2>6 DEF BookInv, Flagged, Closed
<1>3. CASE Finishes
  <2>0. Built \subseteq batch
    BY BuiltIs
  <2>1. /\ IsFiniteSet(Settled \ Unbooked) /\ IsFiniteSet(batch) /\ IsFiniteSet(Built)
        /\ IsFiniteSet(Safe) /\ IsFiniteSet(Safe')
    <3>1. /\ Settled \ Unbooked \subseteq put /\ batch \subseteq put /\ Built \subseteq put
          /\ Safe \subseteq put /\ Safe' \subseteq put
      BY <1>1, <1>3, <2>0 DEF Settled, Safe, TypeOK, Finishes
    <3> QED BY <3>1, AllFinite DEF SetsInv
  <2>2. /\ (Settled \ Unbooked)' = (Settled \ Unbooked) \cup Built
        /\ (Settled \ Unbooked) \cap Built = {} /\ Safe \cap Built = {}
    BY <1>1, <1>3 DEF Finishes, Settled, Safe, Built, TypeOK, SetsInv
  <2>3. /\ Cardinality((Settled \ Unbooked)') = Cardinality(Settled \ Unbooked) + Cardinality(Built)
        /\ Cardinality(Settled \ Unbooked) \in Nat /\ Cardinality(Built) \in Nat
    BY <2>1, <2>2, DisjointCards
  <2>4. /\ Cardinality(batch') = 0 /\ Cardinality(Built') = 0
        /\ Cardinality(batch) \in Nat /\ Cardinality(Built) <= Cardinality(batch)
    <3>1. batch' = {} /\ Built' = {}
      BY <1>3 DEF Finishes, Built
    <3>2. Cardinality(batch) \in Nat /\ Cardinality(Built) <= Cardinality(batch)
      BY <2>0, <2>1, FS_CardinalityType, FS_Subset
    <3> QED BY <3>1, <3>2, FS_EmptySet
  <2>5. ok' + failed' = ok + failed + Cardinality(Built)
    <3>1. Built = {} => Cardinality(Built) = 0
      BY FS_EmptySet
    <3> QED BY <1>3, <2>3, <3>1 DEF Finishes, TypeOK
  <2>6. ok' <= Cardinality(Safe)'
    <3>1. CASE ok' = ok + Cardinality(Built) /\ landed' = landed \cup Built
      <4>1. Safe \cup Built \subseteq Safe'
        BY <1>3, <2>0, <3>1 DEF Finishes, Safe, SetsInv, TypeOK
      <4>2. /\ IsFiniteSet(Safe \cup Built)
            /\ Cardinality(Safe \cup Built) = Cardinality(Safe) + Cardinality(Built)
            /\ Cardinality(Safe) \in Nat
        BY <2>1, <2>2, DisjointCards
      <4>3. Cardinality(Safe \cup Built) <= Cardinality(Safe') /\ Cardinality(Safe') \in Nat
        BY <2>1, <4>1, FS_Subset, FS_CardinalityType
      <4>4. ok <= Cardinality(Safe)
        BY DEF BookInv
      <4> QED BY <3>1, <2>3, <4>2, <4>3, <4>4 DEF TypeOK
    <3>2. CASE ok' = ok /\ landed \subseteq landed'
      <4>1. Safe \subseteq Safe'
        BY <1>3, <3>2 DEF Finishes, Safe
      <4>2. Cardinality(Safe) <= Cardinality(Safe') /\ Cardinality(Safe) \in Nat
            /\ Cardinality(Safe') \in Nat
        BY <2>1, <4>1, FS_Subset, FS_CardinalityType
      <4>3. ok <= Cardinality(Safe)
        BY DEF BookInv
      <4> QED BY <3>2, <4>2, <4>3 DEF TypeOK
    <3> QED BY <1>3, <3>1, <3>2 DEF Finishes
  <2>7. ok' \in Nat /\ failed' \in Nat /\ undelivered \in Nat
    BY <1>3, <2>3 DEF Finishes, TypeOK
  <2>8. spc' \notin Closed =>
            undelivered' = 0 /\ ok' + failed' = Cardinality((Settled \ Unbooked)')
    BY <1>1, <2>3, <2>5 DEF BookInv, TypeOK
  <2>9. /\ ok' + failed' + undelivered' + Cardinality(batch)'
              <= ok + failed + undelivered + Cardinality(batch)
        /\ ok' + failed' + undelivered' + Cardinality(Built)'
              = ok + failed + undelivered + Cardinality(Built)
    BY <1>1, <2>3, <2>4, <2>5, <2>7 DEF TypeOK
  <2>10. Cardinality(put) \in Nat /\ Cardinality(put \ Unbooked) \in Nat
    BY Divisions
  <2>11. spc' \in Closed =>
            ok' + failed' + undelivered' + Cardinality(batch)' <= Cardinality(put)'
    BY <1>1, <2>3, <2>4, <2>7, <2>9, <2>10 DEF BookInv, TypeOK
  <2>12. spc' \in {"summary", "clean"} /\ ~Orphans =>
            ok' + failed' + undelivered' + Cardinality(Built)' >= Cardinality((put \ Unbooked)')
    BY <1>1, <2>9 DEF BookInv
  <2> QED
    BY <1>1, <2>6, <2>8, <2>11, <2>12 DEF BookInv, Flagged
<1> QED BY <1>2, <1>3, WorkerMoves

LEMMA WorkerKeeps == DInv /\ WorkerStep /\ spc # "exited" => DInv'
<1> SUFFICES ASSUME DInv, WorkerStep, spc # "exited" PROVE DInv'
  OBVIOUS
<1> USE DEF DInv
<1>1. TypeOK' /\ SetsInv' /\ StormInv' /\ CountInv' /\ ThreadInv' /\ BookInv'
  BY WorkerTyped, WorkerSets, WorkerThread, WorkerBooks DEF SetsInv
<1>2. KeepInv'
  <2>1. UNCHANGED <<channel, put, spc, short, cleaned>> /\ landed \subseteq landed'
    BY WorkerMoves DEF Moves, Finishes, items, stopping, ending
  <2> QED BY <2>1 DEF KeepInv, Alerts
<1> QED BY <1>1, <1>2

-----------------------------------------------------------------------------
(* The scan workers. *)
LEMMA AddMatchKeeps == ASSUME DInv, NEW f \in Findings, AddMatch(f) PROVE DInv'
<1> USE DEF DInv
<1>1. /\ UNCHANGED <<channel, put, uncounted, queue, worker, lapsed, breaker, stopping, landed,
                     books, ending>>
      /\ f \notin seen /\ seen' = seen \cup {f} /\ (spc = "idle" \/ Orphans)
  BY DEF AddMatch, Adding, items
<1>2. suppressed' \subseteq suppressed \cup {f} /\ suppressed \subseteq suppressed'
      /\ pending' \subseteq pending \cup {f} /\ pending \subseteq pending'
      /\ (f \in suppressed' \/ f \in pending') /\ ~(f \in suppressed' /\ f \in pending')
  BY <1>1 DEF AddMatch, TypeOK
<1> USE <1>1, <1>2 DEF queue, worker, breaker, stopping, books, ending
<1>3. TypeOK'
  BY DEF TypeOK
<1>4. SetsInv'
  BY DEF SetsInv, TypeOK, Waiting
<1>5. StormInv'
  <2>1. ASSUME Alerts, Cap > 0 PROVE Cardinality(seen \ suppressed)' <= Cap
    <3>1. CASE OverCap
      <4>1. (seen \ suppressed)' = seen \ suppressed
        BY <3>1 DEF AddMatch, TypeOK
      <4> QED BY <2>1, <4>1 DEF StormInv
    <3>2. CASE ~OverCap
      <4>1. (seen \ suppressed)' = (seen \ suppressed) \cup {f}
        BY <3>2 DEF AddMatch, TypeOK
      <4>2. IsFiniteSet(seen \ suppressed) /\ Cardinality(seen \ suppressed) \in Nat
        BY AllFinite DEF TypeOK, SetsInv
      <4>3. Cardinality(seen \ suppressed)' = Cardinality(seen \ suppressed) + 1
        BY <4>1, <4>2, FS_AddElement
      <4>4. Cardinality(seen \ suppressed) < Cap
        BY <2>1, <3>2, <4>2, DeliveryAssumption DEF OverCap
      <4> QED BY <4>2, <4>3, <4>4, DeliveryAssumption
    <3> QED BY <3>1, <3>2
  <2> QED BY <2>1 DEF StormInv, Alerts
<1>6. ThreadInv' /\ KeepInv' /\ CountInv'
  BY DEF ThreadInv, KeepInv, CountInv, Flagged, Alerts, Waiting
<1>7. BookInv'
  BY DEF BookInv, Flagged, Alerts, Unbooked, Built, Settled, Safe, InHand, Waiting
<1> QED BY <1>3, <1>4, <1>5, <1>6, <1>7

(* An item nobody had put yet is added to the queue. *)
LEMMA PuttingBalances ==
    ASSUME TypeOK, SetsInv, BookInv, NEW i, i \notin put, Append({i}), put' = put \cup {i},
           UNCHANGED <<channel, spc, batch, landed, ok, failed, undelivered>>,
           spc \in {"summary", "clean"} => Orphans
    PROVE  IsFiniteSet(put') /\ (ahead \cap behind)' = {} /\ (Waiting \cap batch)' = {} /\ BookInv'
<1>1. /\ Waiting' = Waiting \cup {i} /\ ahead' \cap behind' = {}
      /\ i \notin Waiting \cup batch \cup landed
  BY DEF Append, Waiting, TypeOK, SetsInv
<1>2. Settled' = Settled /\ Safe' = Safe
  BY <1>1 DEF Settled, Safe, InHand
<1>3. IsFiniteSet(put') /\ Cardinality(put') = Cardinality(put) + 1 /\ Cardinality(put) \in Nat
  BY FS_AddElement, FS_CardinalityType DEF SetsInv
<1>4. Cardinality(batch) \in Nat
  BY AllFinite DEF SetsInv, TypeOK
<1>5. BookInv'
  <2>1. Flagged' = Flagged /\ Unbooked' = Unbooked
    BY DEF Flagged, Unbooked, Alerts
  <2>2. ok + failed + undelivered + Cardinality(batch) <= Cardinality(put)
            => ok + failed + undelivered + Cardinality(batch) <= Cardinality(put')
    BY <1>3, <1>4 DEF TypeOK
  <2>3. (Settled \ Unbooked)' = Settled \ Unbooked
    BY <1>2, <2>1
  <2>4. spc' = spc /\ batch' = batch /\ ok' = ok /\ failed' = failed
        /\ undelivered' = undelivered /\ Safe' = Safe
    BY <1>2
  <2>5. ASSUME Flagged'
        PROVE  /\ (spc \notin Closed => undelivered = 0 /\ ok + failed = Cardinality(Settled \ Unbooked))'
               /\ (spc \in Closed => ok + failed + undelivered + Cardinality(batch) <= Cardinality(put))'
               /\ ok' <= Cardinality(Safe')
    <3>1. (spc \notin Closed => undelivered = 0 /\ ok + failed = Cardinality(Settled \ Unbooked))'
      BY <2>1, <2>3, <2>4, <2>5 DEF BookInv
    <3>2. (spc \in Closed => ok + failed + undelivered + Cardinality(batch) <= Cardinality(put))'
      BY <2>1, <2>2, <2>4, <2>5 DEF BookInv
    <3>3. ok' <= Cardinality(Safe')
      BY <2>1, <2>4, <2>5 DEF BookInv
    <3> QED BY <3>1, <3>2, <3>3
  <2>6. ~(spc' \in {"summary", "clean"} /\ ~Orphans)
    BY <2>4
  <2> QED BY <2>5, <2>6 DEF BookInv
<1> QED BY <1>1, <1>3, <1>5 DEF SetsInv

LEMMA EnqueueKeeps == ASSUME DInv, NEW f \in Findings, Enqueue(f) PROVE DInv'
<1> USE DEF DInv
<1>1. /\ UNCHANGED <<channel, seen, suppressed, sentinel, worker, lapsed, breaker, stopping,
                     landed, books, ending>>
      /\ f \in pending /\ pending' = pending \ {f} /\ put' = put \cup {f} /\ Append({f})
      /\ f \notin put /\ f \in Items
      /\ uncounted \subseteq uncounted' /\ uncounted' \subseteq uncounted \cup {f}
  BY RollupFacts DEF Enqueue, Counting, SetsInv
<1>2. \A r \in Rules : Rollup(r) # f
  BY RollupFacts
<1>3. (spc # "idle" => Orphans) /\ (spc = "idle" => sentinel = "unput")
  BY <1>1 DEF StormInv, ThreadInv, Closed, TypeOK
<1> USE <1>1, <1>2, <1>3 DEF worker, breaker, stopping, books, ending
<1>4. TypeOK'
  BY DEF TypeOK, Append
<1>5. /\ IsFiniteSet(put') /\ (ahead \cap behind)' = {} /\ (Waiting \cap batch)' = {}
      /\ BookInv'
  BY PuttingBalances
<1>6. SetsInv'
  BY <1>5 DEF SetsInv, TypeOK
<1>7. StormInv' /\ KeepInv' /\ CountInv'
  BY DEF StormInv, KeepInv, CountInv, Alerts
<1>8. ThreadInv'
  BY DEF ThreadInv, Flagged, Alerts, Append, Waiting
<1> QED BY <1>4, <1>5, <1>6, <1>7, <1>8

LEMMA CountQueuedKeeps == ASSUME DInv, NEW f \in Findings, CountQueued(f) PROVE DInv'
<1> USE DEF DInv
<1>1. /\ UNCHANGED <<channel, findings, put, queue, worker, lapsed, breaker, stopping, landed,
                     books, ending>>
      /\ uncounted' \subseteq uncounted
  BY DEF CountQueued
<1> USE <1>1 DEF findings, queue, worker, breaker, stopping, books, ending
<1>2. TypeOK' /\ SetsInv' /\ StormInv' /\ CountInv'
  BY DEF TypeOK, SetsInv, StormInv, CountInv, Alerts, Waiting
<1>3. ThreadInv' /\ KeepInv'
  BY DEF ThreadInv, KeepInv, Alerts, Flagged, Waiting
<1>4. BookInv'
  BY DEF BookInv, Flagged, Alerts, Unbooked, Built, Settled, Safe, InHand, Waiting
<1> QED BY <1>2, <1>3, <1>4

LEMMA LogCriticalKeeps == ASSUME DInv, NEW f \in Findings, LogCritical(f) PROVE DInv'
<1> USE DEF DInv
<1>1. /\ UNCHANGED <<channel, suppressed, pending, uncounted, sentinel, worker, lapsed, breaker,
                     stopping, undelivered, ending>>
      /\ channel = "logs" /\ spc = "idle" /\ f \notin seen /\ f \notin put
      /\ seen' = seen \cup {f} /\ put' = put \cup {f} /\ f \in Items
      /\ landed' \subseteq landed \cup {f}
  BY RollupFacts DEF LogCritical, SetsInv
<1>2. Append({f}) \/ UNCHANGED <<ahead, behind>>
  BY DEF LogCritical
<1>3. ok' \in Nat /\ failed' \in Nat
  BY DEF LogCritical, TypeOK
<1>4. sentinel = "unput" /\ \A r \in Rules : Rollup(r) # f
  BY <1>1, RollupFacts DEF ThreadInv, Closed, TypeOK
<1> USE <1>1, <1>2, <1>3, <1>4 DEF worker, breaker, stopping, ending
<1>5. TypeOK'
  BY DEF TypeOK, Append
<1>6. SetsInv'
  BY FS_AddElement DEF SetsInv, TypeOK, Append, Waiting
<1>7. StormInv' /\ KeepInv' /\ BookInv' /\ CountInv'
  BY DEF StormInv, KeepInv, BookInv, CountInv, Flagged, Alerts
<1>8. ThreadInv'
  BY DEF ThreadInv, Flagged, Alerts, Append, Waiting
<1> QED BY <1>5, <1>6, <1>7, <1>8

-----------------------------------------------------------------------------
(* stop(). *)
LEMMA BeginStopKeeps == ASSUME DInv, BeginStop PROVE DInv'
<1> USE DEF DInv
<1>1. /\ UNCHANGED <<channel, findings, worker, lapsed, breaker, landed, ok, failed, put, uncounted,
                     queue, flag, undelivered, ending>>
      /\ spc = "idle" /\ spc' = "rollup" /\ toRoll' = Suppressing
      /\ ~Orphans => pending = {} /\ uncounted = {}
  BY DEF BeginStop, StopFrame, items
<1>2. Suppressing \subseteq Rules /\ \A f \in suppressed : f[1] \in Suppressing
  BY DEF Suppressing, Rules, TypeOK
<1> USE <1>1, <1>2 DEF findings, worker, breaker, queue, ending
<1>3. TypeOK'
  BY DEF TypeOK
<1>4. SetsInv' /\ StormInv' /\ KeepInv' /\ CountInv'
  BY DEF SetsInv, StormInv, KeepInv, CountInv, Waiting, Alerts
<1>5. ThreadInv' /\ BookInv'
  BY DEF ThreadInv, BookInv, Flagged, Alerts, Unbooked, Built, Closed, Waiting, Settled, Safe, InHand
<1> QED BY <1>3, <1>4, <1>5

LEMMA QueueRollupKeeps == ASSUME DInv, NEW r \in Rules, QueueRollup(r) PROVE DInv'
<1> USE DEF DInv
<1>1. /\ UNCHANGED <<channel, findings, worker, lapsed, breaker, landed, ok, failed, spc,
                     sentinel, flag, undelivered, ending>>
      /\ spc = "rollup" /\ r \in toRoll /\ toRoll' = toRoll \ {r}
      /\ put' = put \cup {Rollup(r)} /\ Append({Rollup(r)})
      /\ Rollup(r) \notin put /\ sentinel = "unput"
      /\ uncounted \subseteq uncounted' /\ uncounted' \subseteq uncounted \cup {Rollup(r)}
  BY DEF QueueRollup, Counting, StopFrame, SetsInv, ThreadInv, Closed
<1>2. /\ Rollup(r) \in Items /\ Rollup(r) \notin Findings
      /\ \A q \in Rules : Rollup(q) = Rollup(r) => q = r
  BY RollupFacts
<1> USE <1>1, <1>2 DEF findings, worker, breaker, ending
<1>3. TypeOK'
  BY DEF TypeOK, Append
<1>4. /\ IsFiniteSet(put') /\ (ahead \cap behind)' = {} /\ (Waiting \cap batch)' = {}
      /\ BookInv'
  BY PuttingBalances
<1>5. SetsInv'
  BY <1>4 DEF SetsInv, TypeOK
<1>6. StormInv' /\ KeepInv' /\ CountInv'
  BY DEF StormInv, KeepInv, CountInv, Alerts, TypeOK
<1>7. ThreadInv'
  BY DEF ThreadInv, Flagged, Alerts, Append, Waiting
<1> QED BY <1>3, <1>4, <1>5, <1>6, <1>7

LEMMA CountRollupKeeps == ASSUME DInv, NEW r \in Rules, CountRollup(r) PROVE DInv'
<1> USE DEF DInv
<1>1. /\ UNCHANGED <<channel, findings, worker, lapsed, breaker, landed, ok, failed, put, queue, spc,
                     toRoll, flag, undelivered, ending>>
      /\ uncounted' \subseteq uncounted
  BY DEF CountRollup, StopFrame
<1> USE <1>1 DEF findings, queue, worker, breaker, ending
<1>2. TypeOK' /\ SetsInv' /\ StormInv' /\ CountInv'
  BY DEF TypeOK, SetsInv, StormInv, CountInv, Alerts, Waiting
<1>3. ThreadInv' /\ KeepInv'
  BY DEF ThreadInv, KeepInv, Alerts, Flagged, Waiting
<1>4. BookInv'
  BY DEF BookInv, Flagged, Alerts, Unbooked, Built, Settled, Safe, InHand, Waiting
<1> QED BY <1>2, <1>3, <1>4

LEMMA WaitingKeeps ==
    ASSUME DInv, RollupsQueued \/ Drain \/ RaiseFlag \/ PutSentinel \/ Join
    PROVE  DInv'
<1> USE DEF DInv
<1>1. UNCHANGED <<channel, findings, worker, lapsed, breaker, landed, ok, failed, put, uncounted,
                  ahead, behind, toRoll, undelivered, ending>>
  BY DEF RollupsQueued, Drain, RaiseFlag, PutSentinel, Join, StopFrame, items, queue
<1> USE <1>1 DEF findings, worker, breaker, ending, RollupsQueued, Drain, RaiseFlag, PutSentinel,
                 Join, queue
<1>2. TypeOK'
  <2>1. /\ spc' \in {"drain", "flag", "sentinel", "join", "count"}
        /\ flag' \in BOOLEAN /\ sentinel' \in {"unput", "queued", "taken"}
    BY DEF TypeOK
  <2> QED BY <1>1, <2>1 DEF TypeOK
<1>3. SetsInv' /\ StormInv' /\ KeepInv' /\ CountInv'
  BY DEF SetsInv, StormInv, KeepInv, CountInv, Uncounted, Waiting, Alerts
<1>4. ThreadInv'
  BY DEF ThreadInv, Flagged, Alerts, Closed, Waiting, TypeOK
<1>5. BookInv'
  BY DEF BookInv, Flagged, Alerts, Unbooked, Built, Closed, Waiting, Settled, Safe, InHand
<1> QED BY <1>2, <1>3, <1>4, <1>5

(* What is left is counted: with what is settled and in the batch, all.     *)
LEMMA CloseBooksKeeps == ASSUME DInv, CloseBooks PROVE DInv'
<1> USE DEF DInv
<1>1. /\ UNCHANGED <<channel, findings, worker, lapsed, breaker, landed, ok, failed, put, uncounted,
                     toRoll, flag, ending>>
      /\ spc = "count" /\ spc' = "summary"
      /\ (ahead' = {} /\ behind' = {} /\ sentinel' = "taken") \/ UNCHANGED queue
      /\ flag
  BY DEF CloseBooks, StopFrame, ThreadInv, items
<1>2. /\ Cardinality(put) = Cardinality(Settled) + Cardinality(Waiting) + Cardinality(batch)
      /\ Cardinality(put \ Unbooked)
            = Cardinality(Settled \ Unbooked) + Cardinality(Waiting \ Unbooked) + Cardinality(Built)
      /\ Cardinality(Settled \ Unbooked) <= Cardinality(Settled)
      /\ Cardinality(Waiting \ Unbooked) <= Cardinality(Waiting)
      /\ Cardinality(Settled) \in Nat /\ Cardinality(Waiting) \in Nat
      /\ Cardinality(batch) \in Nat /\ Cardinality(put) \in Nat
      /\ Cardinality(Settled \ Unbooked) \in Nat /\ Cardinality(Waiting \ Unbooked) \in Nat
      /\ Cardinality(Built) \in Nat
  BY Divisions
<1>3. undelivered' \in Nat
  BY <1>2 DEF CloseBooks, QueueSize, LessSentinel
<1> USE <1>1 DEF findings, worker, breaker, ending, queue
<1>4. TypeOK'
  BY <1>3 DEF TypeOK
<1>5. SetsInv' /\ StormInv' /\ KeepInv' /\ CountInv'
  BY DEF SetsInv, StormInv, KeepInv, CountInv, Waiting, Alerts
<1>6. ThreadInv'
  BY DEF ThreadInv, Flagged, Alerts, Closed, Waiting, CloseBooks
<1>7. ASSUME Flagged
      PROVE  /\ undelivered' <= Cardinality(Waiting)
             /\ ~Orphans => undelivered' = Cardinality(Waiting)
  <2>1. CASE wpc = "gone"
    BY <1>2, <1>7, <2>1 DEF CloseBooks
  <2>2. CASE wpc # "gone" /\ sentinel = "queued"
    BY <1>2, <1>7, <2>2 DEF CloseBooks, QueueSize, LessSentinel, Flagged
  <2>3. CASE wpc # "gone" /\ sentinel # "queued"
    <3>1. undelivered' = LessSentinel(Cardinality(Waiting) + 0)
      BY <1>7, <2>3 DEF CloseBooks, QueueSize, Flagged
    <3>2. ~Orphans => Cardinality(Waiting) = 0
      <4>1. sentinel = "taken"
        BY <2>3 DEF ThreadInv, Closed, TypeOK
      <4> QED BY <1>7, <2>3, <4>1, FS_EmptySet DEF ThreadInv
    <3> QED BY <1>2, <3>1, <3>2 DEF LessSentinel
  <2> QED BY <2>1, <2>2, <2>3
<1>8. ASSUME Flagged
      PROVE  ok <= Cardinality(Safe')
  <2>1. Safe \subseteq Safe' /\ Safe' \subseteq put
    BY DEF Safe, InHand, Waiting, TypeOK
  <2>2. Cardinality(Safe) <= Cardinality(Safe') /\ Cardinality(Safe) \in Nat
        /\ Cardinality(Safe') \in Nat
    BY <2>1, AllFinite, FS_Subset DEF SetsInv
  <2>3. ok <= Cardinality(Safe)
    BY <1>8 DEF BookInv
  <2> QED BY <2>2, <2>3 DEF TypeOK
<1>9. ASSUME Flagged
      PROVE  ok + failed = Cardinality(Settled \ Unbooked) /\ ok \in Nat /\ failed \in Nat
  BY <1>9 DEF BookInv, Closed, TypeOK
<1>10. BookInv'
  <2>1. SUFFICES ASSUME Flagged PROVE BookInv'
    BY DEF BookInv, Flagged
  <2>2. ok + failed + undelivered' + Cardinality(batch) <= Cardinality(put)
    BY <1>2, <1>3, <1>7, <1>9, <2>1
  <2>3. ~Orphans =>
            ok + failed + undelivered' + Cardinality(Built) >= Cardinality(put \ Unbooked)
    BY <1>2, <1>3, <1>7, <1>9, <2>1
  <2> QED BY <2>1, <2>2, <2>3, <1>8 DEF BookInv, Closed, Unbooked, Built, Alerts
<1> QED BY <1>4, <1>5, <1>6, <1>10

(* No shortfall: as many as were put are safe on the server, so all are.    *)
LEMMA SummariseKeeps == ASSUME DInv, Summarise PROVE DInv'
<1> USE DEF DInv
<1>1. /\ UNCHANGED <<channel, findings, worker, lapsed, breaker, landed, ok, failed, put, uncounted,
                     queue, toRoll, flag, undelivered, cleaned>>
      /\ spc = "summary" /\ spc' = "clean" /\ short' = (Cardinality(put \ uncounted) - ok > 0)
  BY DEF Summarise, StopFrame, Shortfall, AlertsQueued, items
<1> USE <1>1 DEF findings, worker, breaker, queue
<1>2. TypeOK'
  BY DEF TypeOK
<1>3. SetsInv' /\ StormInv' /\ CountInv'
  BY DEF SetsInv, StormInv, CountInv, Waiting, Alerts
<1>4. ThreadInv' /\ BookInv'
  BY DEF ThreadInv, BookInv, Flagged, Alerts, Unbooked, Built, Closed, Waiting, Settled, Safe, InHand
<1>5. ASSUME Alerts, ~Orphans, ~short' PROVE put \subseteq landed
  <2>0. put \ uncounted = put
    BY <1>5 DEF CountInv
  <2>1. ok <= Cardinality(Safe) /\ ok \in Nat
    BY <1>5 DEF BookInv, Flagged, Alerts, TypeOK
  <2>2. Safe \subseteq put /\ IsFiniteSet(put)
    BY DEF Safe, TypeOK, SetsInv
  <2>3. Cardinality(Safe) \in Nat /\ Cardinality(put) \in Nat /\ Cardinality(Safe) <= Cardinality(put)
    BY <2>2, AllFinite, FS_Subset
  <2>6. ~(Cardinality(put) - ok > 0)
    BY <1>5, <2>0
  <2>4. Cardinality(Safe) = Cardinality(put)
    BY <2>1, <2>3, <2>6
  <2>5. Safe = put
    BY <2>2, <2>4, FS_Subset
  <2> QED BY <2>5 DEF Safe
<1>6. KeepInv'
  BY <1>5 DEF KeepInv, Alerts
<1> QED BY <1>2, <1>3, <1>4, <1>6

LEMMA HostCleanupKeeps == ASSUME DInv, HostCleanup PROVE DInv'
<1> USE DEF DInv
<1>1. /\ UNCHANGED <<channel, findings, put, uncounted, queue, lapsed, breaker, toRoll, flag, landed,
                     books, short>>
      /\ spc = "clean" /\ spc' = "exited" /\ batch' = {} /\ wpc' = "gone"
      /\ cleaned' \in {"no", "always", "on_delivery"}
      /\ cleaned' = "on_delivery" => Alerts /\ ~short
      /\ leaving' = FALSE /\ attempt' = 0 /\ limited' = FALSE
  BY DEF HostCleanup, items
<1> USE <1>1 DEF findings, breaker, queue, books
<1>2. TypeOK'
  <2>1. 0 \in 0..(Retries - 1)
    BY DeliveryAssumption
  <2> QED BY <1>1, <2>1 DEF TypeOK
<1>3. SetsInv' /\ StormInv' /\ KeepInv' /\ CountInv'
  BY DEF SetsInv, StormInv, KeepInv, CountInv, Waiting, Alerts
<1>4. ThreadInv'
  BY DEF ThreadInv, Flagged, Alerts, Closed, Waiting
<1>5. ASSUME Flagged
      PROVE  /\ ok <= Cardinality(Safe')
             /\ ok + failed + undelivered + 0 <= Cardinality(put)
  <2>1. Safe \subseteq Safe' /\ Safe' \subseteq put
    BY DEF Safe, InHand, Waiting, TypeOK
  <2>2. Cardinality(Safe) <= Cardinality(Safe') /\ Cardinality(Safe) \in Nat
        /\ Cardinality(Safe') \in Nat /\ Cardinality(batch) \in Nat /\ Cardinality(put) \in Nat
    BY <2>1, AllFinite, FS_Subset DEF SetsInv, TypeOK
  <2>3. ok <= Cardinality(Safe) /\ ok + failed + undelivered + Cardinality(batch) <= Cardinality(put)
    BY <1>5 DEF BookInv, Closed
  <2> QED BY <2>2, <2>3 DEF TypeOK
<1>6. BookInv'
  BY <1>5, FS_EmptySet DEF BookInv, Flagged, Closed
<1> QED BY <1>2, <1>3, <1>4, <1>6

-----------------------------------------------------------------------------
LEMMA DStep == DInv /\ [Next]_vars => DInv'
<1>1. ASSUME DInv, Lapse \/ UNCHANGED vars PROVE DInv'
  <2>1. /\ UNCHANGED <<channel, findings, put, uncounted, queue, worker, breaker, stopping, landed,
                       books, ending>>
        /\ lapsed' \in BOOLEAN
    BY <1>1 DEF Lapse, items, vars, DInv, TypeOK
  <2> USE <2>1 DEF findings, queue, worker, breaker, stopping, books, ending
  <2>2. TypeOK' /\ SetsInv' /\ StormInv' /\ CountInv'
    BY <1>1 DEF DInv, TypeOK, SetsInv, StormInv, CountInv, Alerts, Waiting
  <2>3. ThreadInv' /\ KeepInv'
    BY <1>1 DEF DInv, ThreadInv, KeepInv, Alerts, Flagged, Waiting
  <2>4. BookInv'
    BY <1>1 DEF DInv, BookInv, Flagged, Alerts, Unbooked, Built, Settled, Safe, InHand, Waiting
  <2> QED BY <2>2, <2>3, <2>4 DEF DInv
<1>2. ASSUME DInv, StopStep PROVE DInv'
  BY <1>2, WaitingKeeps, CloseBooksKeeps, SummariseKeeps, HostCleanupKeeps, QueueRollupKeeps,
     CountRollupKeeps DEF StopStep
<1>3. ASSUME DInv, NEW f \in Findings, AddMatch(f) \/ Enqueue(f) \/ CountQueued(f) \/ LogCritical(f)
      PROVE  DInv'
  BY <1>3, AddMatchKeeps, EnqueueKeeps, CountQueuedKeeps, LogCriticalKeeps
<1> QED
  BY <1>1, <1>2, <1>3, WorkerKeeps, BeginStopKeeps DEF Next, AllDone

LEMMA DAlways == Spec => []DInv
  BY DInit, DStep, PTL DEF Spec

(* Every variable of a channel keeps its type; in particular nothing is in  *)
(* the queue, the batch or the collector that was not put.                  *)
THEOREM DeliveryTyped == Spec => []TypeOK
<1>1. DInv => TypeOK
  BY DEF DInv
<1> QED BY <1>1, DAlways, PTL

(* The books of an uploader with a flag never claim more than was put, even *)
(* when its worker outlives stop(), and once it is gone they claim all of it *)
(* that could be sent.                                                       *)
THEOREM BooksAlwaysBalance == Spec => []BooksBalance
<1>1. DInv => BooksBalance
  <2> SUFFICES ASSUME DInv, Flagged PROVE BooksBalance
    BY DEF BooksBalance
  <2> USE DEF DInv
  <2>1. /\ Cardinality(put) = Cardinality(Settled) + Cardinality(Waiting) + Cardinality(batch)
        /\ Cardinality(Settled) \in Nat /\ Cardinality(Waiting) \in Nat
        /\ Cardinality(batch) \in Nat /\ Cardinality(put) \in Nat
        /\ Cardinality(Settled \ Unbooked) \in Nat
        /\ Cardinality(Settled \ Unbooked) <= Cardinality(Settled)
    BY Divisions
  <2>2. ok + failed + undelivered <= Cardinality(put)
    <3>1. CASE spc \in Closed
      BY <2>1, <3>1 DEF BookInv, TypeOK
    <3>2. CASE spc \notin Closed
      BY <2>1, <3>2 DEF BookInv, TypeOK
    <3> QED BY <3>1, <3>2
  <2>3. wpc = "gone" => Cardinality(Built) = 0
    BY FS_EmptySet DEF ThreadInv, Built
  <2>4. spc \in {"summary", "clean"} /\ ~Orphans => AlertsQueued = Cardinality(put)
    <3>1. spc \in {"summary", "clean"} /\ ~Orphans => put \ uncounted = put
      BY DEF CountInv
    <3> QED BY <3>1 DEF AlertsQueued
  <2>5. spc \in {"summary", "clean"} /\ ~Orphans /\ wpc = "gone" =>
            ok + failed + undelivered >= Cardinality(put \ Unbooked)
    BY <2>3 DEF BookInv, TypeOK
  <2> QED BY <2>2, <2>4, <2>5 DEF BooksBalance
<1> QED BY <1>1, DAlways, PTL

(* However many findings a rule storm has, at most Cap of them get an alert *)
(* of their own, and each other one its rule's rollup before the drain.     *)
THEOREM StormsAreTold == Spec => []StormIsTold
<1>1. DInv => StormIsTold
  <2> SUFFICES ASSUME DInv PROVE StormIsTold
    OBVIOUS
  <2> USE DEF DInv
  <2>1. ASSUME Alerts, Cap > 0 PROVE Cardinality(put \cap Findings) <= Cap
    <3>1. put \cap Findings \subseteq seen \ suppressed /\ seen \ suppressed \subseteq Findings
          /\ put \cap Findings \subseteq Findings
      BY DEF SetsInv, TypeOK
    <3>2. /\ IsFiniteSet(seen \ suppressed)
          /\ Cardinality(seen \ suppressed) \in Nat /\ Cardinality(put \cap Findings) \in Nat
      BY <3>1, AllFinite DEF SetsInv
    <3>3. Cardinality(put \cap Findings) <= Cardinality(seen \ suppressed)
      BY <3>1, <3>2, FS_Subset
    <3>4. Cardinality(seen \ suppressed) <= Cap
      BY <2>1 DEF StormInv
    <3> QED BY <3>2, <3>3, <3>4, DeliveryAssumption
  <2>2. ASSUME spc \notin {"idle", "rollup"}, ~Orphans, NEW f \in seen
        PROVE  f \in put \/ Rollup(f[1]) \in put
    BY <2>2 DEF SetsInv, StormInv
  <2> QED BY <2>1, <2>2 DEF StormIsTold
<1> QED BY <1>1, DAlways, PTL

(* CONFIG_HOST_CLEANUP=on_delivery removes no only copy: with no shortfall   *)
(* each finding, or the rollup that stands for it, is in XDR.                *)
THEOREM OnlyCopiesAreKept == Spec => []OnlyCopyIsKept
<1>1. DInv => OnlyCopyIsKept
  BY DEF DInv, OnlyCopyIsKept, KeepInv, SetsInv, StormInv
<1> QED BY <1>1, DAlways, PTL
=============================================================================
