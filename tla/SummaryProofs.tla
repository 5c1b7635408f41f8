---------------------------- MODULE SummaryProofs ----------------------------
(***************************************************************************)
(* Theorems about Summary, for any fleet, rulesets, caps and faults: no     *)
(* row is in a target twice, and what a pass takes out of a target it puts  *)
(* back, unless the host's later scan has superseded it or a read was cut.  *)
(***************************************************************************)
EXTENDS Summary, FiniteSetTheorems, TLAPS

-----------------------------------------------------------------------------
(* Facts about the constants and the helpers. *)
LEMMA RowFacts ==
    \A r \in Rows : /\ ScanOf(r) \in Scans /\ r[1] \in Hosts
                    /\ r[2] \in Nat \ {0} /\ r[3] \in Nat
                    /\ ScanOf(r)[1] = r[1] /\ ScanOf(r)[2] = r[2]
<1> SUFFICES ASSUME NEW s \in Scans, NEW i \in 1..RowCount[s], NEW r, r = <<s[1], s[2], i>>
             PROVE  /\ ScanOf(r) \in Scans /\ r[1] \in Hosts
                    /\ r[2] \in Nat \ {0} /\ r[3] \in Nat
                    /\ ScanOf(r)[1] = r[1] /\ ScanOf(r)[2] = r[2]
  BY DEF Rows
<1>1. s = <<s[1], s[2]>> /\ s[2] \in Nat \ {0} /\ RowCount[s] \in Nat
  BY SummaryAssumption
<1>2. ScanOf(r) = <<s[1], s[2]>> /\ r[1] = s[1] /\ r[2] = s[2] /\ r[3] = i
  BY DEF ScanOf
<1> QED BY <1>1, <1>2 DEF Hosts

(* A function takes finitely many values on a finite set. *)
LEMMA ImageFinite ==
    ASSUME NEW S, IsFiniteSet(S), NEW f
    PROVE  IsFiniteSet({f[x] : x \in S})
<1> DEFINE T == {f[x] : x \in S}
           g == [x \in S |-> f[x]]
<1>1. g \in Surjection(S, T)
  BY DEF Surjection
<1>2. IsFiniteSet(T)
  BY <1>1, FS_Surjection
<1> QED BY <1>2

(* There are finitely many rows. *)
LEMMA RowsOfScanFinite ==
    ASSUME NEW s \in Scans
    PROVE  IsFiniteSet({<<s[1], s[2], i>> : i \in 1..RowCount[s]})
<1> DEFINE I == 1..RowCount[s]
           G == [i \in I |-> <<s[1], s[2], i>>]
<1>1. IsFiniteSet(I)
  <2>1. RowCount[s] \in Int /\ 1 \in Int
    BY SummaryAssumption
  <2> QED BY <2>1, FS_Interval
<1>2. {<<s[1], s[2], i>> : i \in I} = {G[i] : i \in I}
  OBVIOUS
<1> HIDE DEF G, I
<1>3. IsFiniteSet({G[i] : i \in I})
  BY <1>1, ImageFinite
<1> QED BY <1>2, <1>3 DEF I

LEMMA RowsFinite == IsFiniteSet(Rows)
<1> DEFINE F == [s \in Scans |-> {<<s[1], s[2], i>> : i \in 1..RowCount[s]}]
<1>1. \A s \in Scans : IsFiniteSet(F[s])
  BY RowsOfScanFinite
<1>2. Rows = UNION {F[s] : s \in Scans}
  BY DEF Rows
<1> HIDE DEF F
<1>3. IsFiniteSet({F[s] : s \in Scans})
  BY SummaryAssumption, ImageFinite
<1>4. \A T \in {F[s] : s \in Scans} : IsFiniteSet(T)
  BY <1>1
<1>5. IsFiniteSet(UNION {F[s] : s \in Scans})
  BY <1>3, <1>4, FS_UNION
<1> QED BY <1>2, <1>5

(* A query that returns less than its cap has returned everything. *)
LEMMA ReadBelowCap ==
    ASSUME NEW R \in SUBSET Rows, NEW Q \in Reads(R), ~(Cardinality(Q) >= ReadCap)
    PROVE  Q = R
<1>1. IsFiniteSet(R)
  BY RowsFinite, FS_Subset
<1>2. Q \in SUBSET R /\ Cardinality(Q) = Smaller(ReadCap, Cardinality(R))
  BY DEF Reads
<1>3. Cardinality(R) \in Nat /\ Cardinality(Q) \in Nat
  BY <1>1, <1>2, FS_Subset, FS_CardinalityType
<1>4. Cardinality(R) = Cardinality(Q)
  BY <1>2, <1>3, SummaryAssumption DEF Smaller
<1> QED BY <1>1, <1>2, <1>4, FS_Subset

-----------------------------------------------------------------------------
(* What add_data appends was cleared before. *)
ClearedInv == NoDoubles /\ \A r \in adding : tgt[r] = 0

(* Rows of a host's latest scan are in its dataset, as long as there is one. *)
SourceInv ==
    /\ \A r \in posted : r[2] <= cur[r[1]]
    /\ \A r \in posted : r[2] = cur[r[1]] /\ r[1] \in present => r \in src

(* A pass retires nothing itself, so that all it has listed is there. *)
Busy == pc \in {"lifecycle", "read", "stale", "add"}
ListingInv ==
    /\ Busy => listed \subseteq present
    /\ pc = "lifecycle" => got = {}
    /\ \A r \in got : r[1] \notin todo
    /\ Busy => \A r \in got : r[1] \in present

(* Unless a read was cut at its cap, a row of a latest scan that a target    *)
(* holds was read, if its host was, or if any row of the scan was.           *)
ReadInv ==
    Busy /\ ~short =>
        \A r \in Rows :
            /\ tgt[r] > 0 /\ r[2] = cur[r[1]] /\ r[1] \notin todo
            /\ (complete /\ r[1] \in listed) \/ ScanOf(r) \in ScansIn(got)
            => r \in got

(* What is about to be dropped was superseded. *)
StaleInv ==
    /\ stale # {} => pc = "stale"
    /\ short \/ \A s \in stale : s[2] < cur[s[1]]

SInv == TypeOK /\ ClearedInv /\ SourceInv /\ ListingInv /\ ReadInv /\ StaleInv

-----------------------------------------------------------------------------
LEMMA SInit == Init => SInv
<1> SUFFICES ASSUME Init PROVE SInv
  OBVIOUS
<1> USE DEF Init
<1>1. DataOK
  BY SummaryAssumption DEF DataOK
<1>1a. FlagsOK
  BY DEF FlagsOK
<1>2. ClearedInv /\ SourceInv /\ StaleInv
  BY DEF ClearedInv, NoDoubles, SourceInv, StaleInv
<1>3. ListingInv /\ ReadInv
  BY DEF ListingInv, ReadInv, Busy
<1> QED BY <1>1, <1>1a, <1>2, <1>3 DEF SInv, TypeOK

LEMMA DataStep == SInv /\ [Next]_vars => DataOK'
<1> SUFFICES ASSUME DataOK, ListingInv, [Next]_vars PROVE DataOK'
  BY DEF SInv, TypeOK
<1> USE SummaryAssumption DEF DataOK, FleetFrame, ReadFrame, WriteFrame, NoFault, Fault, fleet,
        reading, writing
<1>1. ASSUME NEW h \in Hosts, BeginScan(h) PROVE DataOK'
  <2>1. \A r \in RowsAt(h, src) : r \in src /\ r[1] = h
    BY DEF RowsAt
  <2> QED BY <1>1, <2>1 DEF BeginScan
<1>2. ASSUME NEW h \in Hosts, Retire(h) PROVE DataOK'
  BY <1>2 DEF Retire, RowsAt
<1>3. ASSUME NEW r \in Rows, PostRow(r) PROVE DataOK'
  BY <1>3 DEF PostRow
<1>4. ASSUME NEW s \in Scans, EndScan(s) \/ Settle(s) \/ Abandon(s) PROVE DataOK'
  BY <1>4 DEF EndScan, Settle, Abandon
<1>5. ASSUME NEW b \in Bounds, StartPass(b) PROVE DataOK'
  BY <1>5 DEF StartPass, Slice
<1>6. CASE ReadLifecycle
  BY <1>6 DEF ReadLifecycle
<1>7. CASE ReadFleet
  BY <1>7 DEF ReadFleet, Reads, ListingInv
<1>8. ASSUME NEW h \in Hosts, ReadShard(h) PROVE DataOK'
  <2>1. got \subseteq got' /\ got' \subseteq posted
    BY <1>8 DEF ReadShard, Reads, RowsAt
  <2>2. faults' \in 0..MaxFaults
    BY <1>8 DEF ReadShard
  <2> QED BY <1>8, <2>1, <2>2 DEF ReadShard
<1>9. ASSUME NEW g \in Rulesets, NextGroup(g) PROVE DataOK'
  <2>1. tgt' \in [Rows -> 0..2] /\ \A r \in Rows : tgt'[r] > 0 => tgt[r] > 0
    BY <1>9 DEF NextGroup, Without
  <2>2. stale' \subseteq Scans
    BY <1>9, RowFacts DEF NextGroup, Stale, Held, OfRuleset, ScansIn
  <2>3. adding' \subseteq got
    BY <1>9 DEF NextGroup, AddRows
  <2> QED BY <1>9, <2>1, <2>2, <2>3 DEF NextGroup
<1>10. CASE DropStale
  <2>1. tgt' \in [Rows -> 0..2] /\ \A r \in Rows : tgt'[r] > 0 => tgt[r] > 0
    BY <1>10 DEF DropStale, Without
  <2> QED BY <1>10, <2>1 DEF DropStale
<1>11. CASE AddBatch
  <2>1. PICK B \in SUBSET adding, K \in SUBSET adding :
            /\ K \subseteq B /\ tgt' = Plus(K)
            /\ adding' = adding \ B \/ adding' = {}
            /\ dropped' = dropped \cup (B \ K) \/ dropped' = dropped
    BY <1>11 DEF AddBatch
  <2>2. tgt' \in [Rows -> 0..2]
    BY <2>1 DEF Plus, Smaller
  <2>3. \A r \in Rows : tgt'[r] > 0 => r \in posted
    BY <2>1 DEF Plus
  <2>4. faults' \in 0..MaxFaults /\ pc' \in {"read", "add"}
    BY <1>11 DEF AddBatch, Overlooked
  <2> QED BY <1>11, <2>1, <2>2, <2>3, <2>4 DEF AddBatch
<1>12. CASE EndGroup \/ EndPass \/ Killed
  BY <1>12 DEF EndGroup, EndPass, Killed
<1>13. CASE UNCHANGED vars
  BY <1>13 DEF vars
<1> QED
  BY <1>1, <1>2, <1>3, <1>4, <1>5, <1>6, <1>7, <1>8, <1>9, <1>10, <1>11, <1>12, <1>13
     DEF Next

LEMMA FlagStep == SInv /\ [Next]_vars => FlagsOK'
<1> SUFFICES ASSUME FlagsOK, [Next]_vars PROVE FlagsOK'
  BY DEF SInv, TypeOK
<1> USE DEF FlagsOK
<1>1. CASE \/ \E h \in Hosts : BeginScan(h) \/ Retire(h)
           \/ \E r \in Rows : PostRow(r)
           \/ \E s \in Scans : EndScan(s) \/ Settle(s) \/ Abandon(s)
  BY <1>1 DEF BeginScan, Retire, PostRow, EndScan, Settle, Abandon, FleetFrame, NoFault, reading
<1>2. CASE \E b \in Bounds : StartPass(b)
  BY <1>2 DEF StartPass
<1>3. CASE ReadLifecycle
  BY <1>3 DEF ReadLifecycle, NoFault, Fault
<1>4. CASE ReadFleet
  BY <1>4 DEF ReadFleet, ReadFrame, NoFault
<1>5. CASE \E h \in Hosts : ReadShard(h)
  BY <1>5 DEF ReadShard, NoFault, Fault
<1>6. CASE (\E g \in Rulesets : NextGroup(g)) \/ DropStale \/ AddBatch
  BY <1>6 DEF NextGroup, DropStale, AddBatch, NoFault, Fault, Overlooked, WriteFrame, reading
<1>7. CASE EndGroup \/ EndPass \/ Killed
  BY <1>7 DEF EndGroup, EndPass, Killed, NoFault, Fault, WriteFrame, reading
<1>8. CASE UNCHANGED vars
  BY <1>8 DEF vars, reading
<1> QED BY <1>1, <1>2, <1>3, <1>4, <1>5, <1>6, <1>7, <1>8 DEF Next

LEMMA TypeStep == SInv /\ [Next]_vars => TypeOK'
  BY DataStep, FlagStep DEF TypeOK

-----------------------------------------------------------------------------
(* Only writing touches the targets, and it leaves a cleared row to add. *)
LEMMA ClearedStep == SInv /\ [Next]_vars => ClearedInv'
<1> SUFFICES ASSUME DataOK, ClearedInv, [Next]_vars PROVE ClearedInv'
  BY DEF SInv, TypeOK
<1> USE DEF ClearedInv, NoDoubles
<1>1. CASE \/ \E h \in Hosts : BeginScan(h) \/ Retire(h)
           \/ \E r \in Rows : PostRow(r)
           \/ \E s \in Scans : EndScan(s) \/ Settle(s) \/ Abandon(s)
  BY <1>1 DEF BeginScan, Retire, PostRow, EndScan, Settle, Abandon, FleetFrame, writing
<1>2. CASE (\E b \in Bounds : StartPass(b)) \/ ReadLifecycle
  BY <1>2 DEF StartPass, ReadLifecycle, writing
<1>3. CASE ReadFleet \/ \E h \in Hosts : ReadShard(h)
  BY <1>3 DEF ReadFleet, ReadShard, ReadFrame, writing
<1>4. ASSUME NEW g \in Rulesets, NextGroup(g) PROVE ClearedInv'
  <2>1. CASE tgt' = Without(Refreshed(g)) /\ adding' = AddRows(g)
    <3>1. \A r \in Rows : tgt'[r] = 0 \/ tgt'[r] = tgt[r]
      BY <2>1 DEF Without
    <3>2. ASSUME NEW r \in adding' PROVE tgt'[r] = 0
      <4>1. r \in Rows /\ ScanOf(r) \in Fresh(g)
        BY <2>1, <3>2 DEF AddRows, DataOK
      <4>2. CASE ScanOf(r) \in Held(g)
        BY <2>1, <4>1, <4>2 DEF Without, Refreshed
      <4>3. CASE ScanOf(r) \notin Held(g)
        <5>1. ScanOf(r) \notin ScansIn({q \in Rows : tgt[q] > 0})
          BY <4>1, <4>3 DEF Held, OfRuleset, Fresh, Desired
        <5>2. ~(tgt[r] > 0)
          BY <4>1, <5>1 DEF ScansIn
        <5>3. tgt[r] = 0
          BY <4>1, <5>2 DEF DataOK
        <5> QED BY <3>1, <4>1, <5>3
      <4> QED BY <4>2, <4>3
    <3> QED BY <3>1, <3>2
  <2>2. CASE tgt' \in {tgt, Without(Refreshed(g))} /\ UNCHANGED adding
    BY <2>2 DEF Without, DataOK
  <2> QED BY <1>4, <2>1, <2>2 DEF NextGroup
<1>5. CASE DropStale
  <2>1. \A r \in Rows : tgt'[r] = 0 \/ tgt'[r] = tgt[r]
    BY <1>5 DEF DropStale, Without
  <2>2. adding' \subseteq adding /\ adding \subseteq Rows
    BY <1>5 DEF DropStale, DataOK
  <2> QED BY <2>1, <2>2
<1>6. CASE AddBatch
  <2>1. PICK B \in SUBSET adding, K \in SUBSET adding :
            K \subseteq B /\ tgt' = Plus(K) /\ (adding' = adding \ B \/ adding' = {})
    BY <1>6 DEF AddBatch
  <2>2. \A r \in Rows : tgt'[r] = tgt[r] \/ (r \in B /\ tgt'[r] = 1)
    BY <2>1 DEF Plus, Smaller
  <2>3. \A r \in adding \ B : tgt'[r] = tgt[r]
    BY <2>1 DEF DataOK, Plus
  <2> QED BY <2>1, <2>2, <2>3
<1>7. CASE EndGroup \/ EndPass
  BY <1>7 DEF EndGroup, EndPass, writing
<1>8. CASE Killed
  BY <1>8 DEF Killed
<1>9. CASE UNCHANGED vars
  BY <1>9 DEF vars, writing
<1> QED BY <1>1, <1>2, <1>3, <1>4, <1>5, <1>6, <1>7, <1>8, <1>9 DEF Next

(* A scan that begins makes the host's earlier ones no longer the latest;   *)
(* retiring a dataset leaves none.                                           *)
LEMMA SourceStep == SInv /\ [Next]_vars => SourceInv'
<1> SUFFICES ASSUME DataOK, SourceInv, [Next]_vars PROVE SourceInv'
  BY DEF SInv, TypeOK
<1> USE DEF SourceInv
<1>1. ASSUME NEW h \in Hosts, BeginScan(h) PROVE SourceInv'
  <2>1. \A r \in posted : r \in Rows /\ r[1] \in Hosts /\ r[2] \in Nat /\ cur[r[1]] \in Nat
    BY RowFacts DEF DataOK
  <2>2. /\ cur' = [cur EXCEPT ![h] = @ + 1] /\ present' = present \cup {h} /\ posted' = posted
        /\ \A r \in src \ src' : r[1] = h
    BY <1>1 DEF BeginScan, RowsAt
  <2>3. \A r \in posted : cur'[r[1]] = IF r[1] = h THEN cur[r[1]] + 1 ELSE cur[r[1]]
    BY <2>1, <2>2 DEF DataOK
  <2>4. \A r \in posted : r[2] <= cur'[r[1]]
    BY <2>1, <2>3
  <2>5. \A r \in posted : r[1] = h => r[2] # cur'[r[1]]
    BY <2>1, <2>3
  <2>6. ASSUME NEW r \in posted, r[2] = cur'[r[1]], r[1] \in present' PROVE r \in src'
    BY <2>2, <2>3, <2>5, <2>6
  <2> QED BY <2>2, <2>4, <2>6
<1>2. ASSUME NEW h \in Hosts, Retire(h) PROVE SourceInv'
  BY <1>2 DEF Retire, RowsAt
<1>3. ASSUME NEW r \in Rows, PostRow(r) PROVE SourceInv'
  <2>1. r[2] = cur[r[1]] /\ cur[r[1]] \in Nat
    BY <1>3, RowFacts DEF PostRow, Latest, DataOK
  <2> QED BY <1>3, <2>1 DEF PostRow
<1>4. CASE \E s \in Scans : EndScan(s) \/ Settle(s) \/ Abandon(s)
  BY <1>4 DEF EndScan, Settle, Abandon
<1>5. CASE \/ \E b \in Bounds : StartPass(b)
           \/ ReadLifecycle \/ ReadFleet \/ \E h \in Hosts : ReadShard(h)
  BY <1>5 DEF StartPass, ReadLifecycle, ReadFleet, ReadShard, ReadFrame, fleet
<1>6. CASE \/ \E g \in Rulesets : NextGroup(g)
           \/ DropStale \/ AddBatch \/ EndGroup \/ EndPass \/ Killed
  BY <1>6 DEF NextGroup, DropStale, AddBatch, EndGroup, EndPass, Killed, WriteFrame, fleet
<1>7. CASE UNCHANGED vars
  BY <1>7 DEF vars, fleet
<1> QED BY <1>1, <1>2, <1>3, <1>4, <1>5, <1>6, <1>7 DEF Next

LEMMA ListingStep == SInv /\ [Next]_vars => ListingInv'
<1> SUFFICES ASSUME DataOK, ListingInv, [Next]_vars PROVE ListingInv'
  BY DEF SInv, TypeOK
<1> USE DEF ListingInv, Busy
<1>1. CASE \/ \E h \in Hosts : BeginScan(h) \/ Retire(h)
           \/ \E r \in Rows : PostRow(r)
           \/ \E s \in Scans : EndScan(s) \/ Settle(s) \/ Abandon(s)
  BY <1>1 DEF BeginScan, Retire, PostRow, EndScan, Settle, Abandon, FleetFrame, reading
<1>2. CASE \E b \in Bounds : StartPass(b)
  BY <1>2 DEF StartPass, fleet
<1>3. CASE ReadLifecycle
  BY <1>3 DEF ReadLifecycle, fleet
<1>4. CASE ReadFleet
  <2>1. \A r \in got' : r \in src
    BY <1>4 DEF ReadFleet, Reads
  <2>2. \A r \in got' : r[1] \in present
    BY <2>1 DEF DataOK
  <2> QED BY <1>4, <2>2 DEF ReadFleet, ReadFrame, fleet
<1>5. ASSUME NEW h \in Hosts, ReadShard(h) PROVE ListingInv'
  <2>1. \A r \in got' : r \in got \/ (r \in src /\ r[1] = h)
    BY <1>5 DEF ReadShard, Reads, RowsAt
  <2>2. pc = "read" /\ \A r \in src : r[1] \in present
    BY <1>5 DEF DataOK, ReadShard
  <2>3. \A r \in got' : r[1] \in present
    BY <2>1, <2>2
  <2>4. \A r \in got' : r[1] \notin todo'
    BY <1>5, <2>1 DEF ReadShard
  <2> QED BY <1>5, <2>3, <2>4 DEF ReadShard, ReadFrame, fleet
<1>6. CASE \/ \E g \in Rulesets : NextGroup(g)
           \/ DropStale \/ AddBatch \/ EndGroup \/ EndPass \/ Killed
  BY <1>6 DEF NextGroup, DropStale, AddBatch, EndGroup, EndPass, Killed, WriteFrame, fleet, reading
<1>7. CASE UNCHANGED vars
  BY <1>7 DEF vars, fleet, reading
<1> QED BY <1>1, <1>2, <1>3, <1>4, <1>5, <1>6, <1>7 DEF Next

(* Two rows of one scan are of one host. *)
LEMMA SameScan ==
    ASSUME NEW r \in Rows, NEW R \in SUBSET Rows, ScanOf(r) \in ScansIn(R)
    PROVE  \E q \in R : q[1] = r[1] /\ ScanOf(q) = ScanOf(r)
<1>1. PICK q \in R : ScanOf(q) = ScanOf(r)
  BY DEF ScansIn
<1>2. ScanOf(q)[1] = q[1] /\ ScanOf(r)[1] = r[1]
  BY RowFacts
<1> QED BY <1>1, <1>2

(* Whoever reads a host's dataset sees the rows of its latest scan. *)
LEMMA ReadStep == SInv /\ [Next]_vars => ReadInv'
<1> SUFFICES ASSUME DataOK, SourceInv, ListingInv, ReadInv, FlagsOK, [Next]_vars,
                    Busy', ~short', NEW r \in Rows, tgt'[r] > 0, r[2] = cur'[r[1]],
                    r[1] \notin todo',
                    (complete' /\ r[1] \in listed') \/ ScanOf(r) \in ScansIn(got')
             PROVE  r \in got'
  BY DEF SInv, TypeOK, ReadInv, Rows
<1>0. r[1] \in Hosts /\ r[2] \in Nat /\ cur[r[1]] \in Nat
  BY RowFacts DEF DataOK
<1> DEFINE Stands == tgt[r] > 0 /\ r[2] = cur[r[1]]
<1>01. got \subseteq Rows /\ src \subseteq Rows /\ (tgt[r] > 0 => r \in posted)
  BY DEF DataOK
<1>02. Stands /\ r[1] \in present => r \in src
  BY <1>01 DEF SourceInv
<1>03. \A q \in src : q[1] \in present
  BY DEF DataOK
<1>1. ASSUME NEW h \in Hosts, BeginScan(h) PROVE r \in got'
  <2>1. /\ UNCHANGED <<tgt, pc, listed, todo, got, complete, short>>
        /\ cur' = [cur EXCEPT ![h] = @ + 1]
    BY <1>1 DEF BeginScan, FleetFrame, reading
  <2>2. r[2] <= cur[r[1]]
    BY <2>1, <1>01 DEF SourceInv
  <2>3. r[1] # h /\ cur'[r[1]] = cur[r[1]]
    BY <2>1, <2>2, <1>0 DEF DataOK
  <2> QED BY <2>1, <2>3 DEF ReadInv, Busy
<1>2. CASE \E h \in Hosts : Retire(h)
  BY <1>2 DEF Retire, FleetFrame, Busy
<1>3. CASE \/ \E q \in Rows : PostRow(q)
           \/ \E s \in Scans : EndScan(s) \/ Settle(s) \/ Abandon(s)
  BY <1>3 DEF PostRow, EndScan, Settle, Abandon, FleetFrame, reading, ReadInv, Busy
<1>4. ASSUME NEW b \in Bounds, StartPass(b) PROVE r \in got'
  <2>1. got' = {} /\ listed' = present /\ (complete' => todo' = present)
    BY <1>4 DEF StartPass
  <2> QED BY <2>1 DEF ScansIn
<1>5. CASE ReadLifecycle
  BY <1>5 DEF ReadLifecycle, ReadInv, Busy, fleet
<1>6. CASE ReadFleet
  <2>1. /\ got' \in Reads(src) /\ short' = (Cardinality(got') >= ReadCap)
        /\ (complete' => complete) /\ UNCHANGED <<tgt, cur, listed, pc>>
    BY <1>6 DEF ReadFleet, ReadFrame, fleet
  <2>2. got' = src
    BY <2>1, <1>01, ReadBelowCap
  <2>3. Stands /\ listed \subseteq present
    BY <2>1 DEF ListingInv, Busy
  <2>4. r[1] \in present
    <3>1. CASE r[1] \in listed'
      BY <2>1, <2>3, <3>1
    <3>2. CASE ScanOf(r) \in ScansIn(got')
      BY <2>2, <3>2, <1>01, <1>03, SameScan
    <3> QED BY <3>1, <3>2
  <2> QED BY <1>02, <2>2, <2>3, <2>4
<1>7. ASSUME NEW h \in Hosts, ReadShard(h) PROVE r \in got'
  <2>1. /\ pc = "read" /\ h \in todo /\ todo' = todo \ {h} /\ UNCHANGED <<tgt, cur, listed>>
        /\ listed \subseteq present /\ Stands /\ \A q \in got : q[1] # h
    BY <1>7 DEF ReadShard, ReadFrame, fleet, ListingInv, Busy
  <2>2. CASE \E Q \in Reads(RowsAt(h, src)) :
                /\ got' = got \cup Q /\ short' = (short \/ Cardinality(Q) >= ReadCap)
                /\ complete' = complete
    <3>1. PICK Q \in Reads(RowsAt(h, src)) :
                got' = got \cup Q /\ short' = (short \/ Cardinality(Q) >= ReadCap)
      BY <2>2
    <3>2. ~short /\ Q = RowsAt(h, src)
      <4>1. RowsAt(h, src) \in SUBSET Rows /\ ~(Cardinality(Q) >= ReadCap)
        BY <3>1, <1>01 DEF RowsAt
      <4> QED BY <3>1, <4>1, ReadBelowCap
    <3>3. got' \subseteq Rows /\ \A q \in Q : q \in src /\ q[1] = h
      BY <3>1, <3>2, <1>01 DEF RowsAt
    <3>4. CASE r[1] = h
      <4>1. h \in present
        <5>1. CASE complete' /\ r[1] \in listed'
          BY <2>1, <3>4, <5>1
        <5>2. CASE ScanOf(r) \in ScansIn(got')
          <6>1. PICK q \in got' : q[1] = r[1]
            BY <3>3, <5>2, SameScan
          <6> QED BY <6>1, <3>1, <3>3, <3>4, <2>1, <1>03
        <5> QED BY <5>1, <5>2
      <4>2. r \in RowsAt(h, src)
        BY <4>1, <3>4, <2>1, <1>02 DEF RowsAt
      <4> QED BY <4>2, <3>1, <3>2
    <3>5. CASE r[1] # h
      <4>1. ScanOf(r) \in ScansIn(got') => ScanOf(r) \in ScansIn(got)
        <5> SUFFICES ASSUME ScanOf(r) \in ScansIn(got') PROVE ScanOf(r) \in ScansIn(got)
          OBVIOUS
        <5>1. PICK q \in got' : q[1] = r[1] /\ ScanOf(q) = ScanOf(r)
          BY <3>3, SameScan
        <5> QED BY <5>1, <3>1, <3>3, <3>5 DEF ScansIn
      <4>2. r[1] \notin todo
        BY <2>1, <3>5
      <4>3. r \in got
        BY <4>1, <4>2, <2>1, <2>2, <3>2 DEF ReadInv, Busy
      <4> QED BY <4>3, <3>1
    <3> QED BY <3>4, <3>5
  <2>3. CASE complete' = FALSE /\ UNCHANGED <<got, short>>
    <3>1. ScanOf(r) \in ScansIn(got)
      BY <2>3
    <3>2. r[1] # h
      BY <3>1, <2>1, <1>01, SameScan
    <3>3. r[1] \notin todo
      BY <3>2, <2>1
    <3> QED BY <3>1, <3>3, <2>1, <2>3 DEF ReadInv, Busy
  <2> QED BY <1>7, <2>2, <2>3 DEF ReadShard
<1>8. CASE (\E g \in Rulesets : NextGroup(g)) \/ DropStale
  <2>1. /\ UNCHANGED <<cur, listed, todo, got, complete, short>> /\ Busy
    BY <1>8 DEF NextGroup, DropStale, WriteFrame, fleet, reading, Busy
  <2>2. tgt[r] > 0
    BY <1>8 DEF NextGroup, DropStale, Without
  <2> QED BY <2>1, <2>2 DEF ReadInv
<1>9. CASE AddBatch
  <2>1. /\ UNCHANGED <<cur, listed, todo, got, complete, short>> /\ Busy
    BY <1>9 DEF AddBatch, WriteFrame, fleet, reading, Busy
  <2>2. tgt[r] > 0 \/ r \in adding
    BY <1>9 DEF AddBatch, Plus
  <2> QED BY <2>1, <2>2 DEF ReadInv, DataOK
<1>10. CASE EndGroup
  BY <1>10 DEF EndGroup, WriteFrame, fleet, reading, ReadInv, Busy
<1>11. CASE EndPass \/ Killed
  BY <1>11 DEF EndPass, Killed, Busy
<1>12. CASE UNCHANGED vars
  BY <1>12 DEF vars, fleet, reading, ReadInv, Busy
<1> QED BY <1>1, <1>2, <1>3, <1>4, <1>5, <1>6, <1>7, <1>8, <1>9, <1>10, <1>11, <1>12 DEF Next

LEMMA StaleStep == SInv /\ [Next]_vars => StaleInv'
<1> SUFFICES ASSUME DataOK, FlagsOK, SourceInv, ReadInv, StaleInv, [Next]_vars PROVE StaleInv'
  BY DEF SInv, TypeOK
<1> USE DEF StaleInv
<1>1. ASSUME NEW h \in Hosts, BeginScan(h) PROVE StaleInv'
  <2>1. /\ UNCHANGED <<pc, stale, short>> /\ cur' = [cur EXCEPT ![h] = @ + 1]
    BY <1>1 DEF BeginScan, FleetFrame, reading, writing
  <2>2. \A s \in stale : s[1] \in Hosts /\ s[2] \in Nat
    BY SummaryAssumption DEF DataOK, Hosts
  <2>3. \A s \in stale : cur[s[1]] \in Nat /\ cur'[s[1]] \in {cur[s[1]], cur[s[1]] + 1}
    BY <2>1, <2>2 DEF DataOK
  <2> QED BY <2>1, <2>2, <2>3
<1>2. CASE \/ \E h \in Hosts : Retire(h)
           \/ \E q \in Rows : PostRow(q)
           \/ \E s \in Scans : EndScan(s) \/ Settle(s) \/ Abandon(s)
  BY <1>2 DEF Retire, PostRow, EndScan, Settle, Abandon, FleetFrame, reading, writing
<1>3. CASE (\E b \in Bounds : StartPass(b)) \/ DropStale \/ Killed
  BY <1>3 DEF StartPass, DropStale, Killed
<1>4. CASE ReadLifecycle \/ ReadFleet \/ \E h \in Hosts : ReadShard(h)
  BY <1>4 DEF ReadLifecycle, ReadFleet, ReadShard, ReadFrame, writing
<1>5. ASSUME NEW g \in Rulesets, NextGroup(g) PROVE StaleInv'
  <2>1. pc = "read" /\ todo = {} /\ UNCHANGED <<cur, short>>
    BY <1>5 DEF NextGroup, WriteFrame, fleet, reading
  <2>2. CASE stale' = Stale(g) /\ pc' = "stale"
    <3>1. ASSUME ~short, NEW s \in Stale(g) PROVE s[2] < cur[s[1]]
      <4>1. complete /\ s \in Held(g) /\ s \notin ScansIn(got) /\ s[1] \in listed
        BY <3>1 DEF Stale
      <4>2. PICK r \in Rows : tgt[r] > 0 /\ ScanOf(r) = s
        BY <4>1 DEF Held, OfRuleset, ScansIn
      <4>3. r[1] = s[1] /\ r[2] = s[2] /\ r[2] \in Nat /\ r[1] \in Hosts
        BY <4>2, RowFacts
      <4>4. r \notin got
        BY <4>1, <4>2 DEF ScansIn
      <4>5. r[2] # cur[r[1]]
        BY <4>1, <4>2, <4>3, <4>4, <2>1, <3>1 DEF ReadInv, Busy
      <4>6. r[2] <= cur[r[1]] /\ cur[r[1]] \in Nat
        BY <4>2, <4>3 DEF SourceInv, DataOK
      <4> QED BY <4>3, <4>5, <4>6
    <3> QED BY <2>1, <2>2, <3>1
  <2>3. CASE UNCHANGED <<pc, stale>>
    BY <2>1, <2>3
  <2> QED BY <1>5, <2>2, <2>3 DEF NextGroup
<1>6. CASE AddBatch \/ EndGroup \/ EndPass
  BY <1>6 DEF AddBatch, EndGroup, EndPass, WriteFrame, fleet, reading, writing
<1>7. CASE UNCHANGED vars
  BY <1>7 DEF vars, fleet, reading, writing
<1> QED BY <1>1, <1>2, <1>3, <1>4, <1>5, <1>6, <1>7 DEF Next

-----------------------------------------------------------------------------
(* What a pass none of whose calls has failed has made of the groups it has  *)
(* been through: of the scans it wrote, a target holds what was read, or is  *)
(* about to.  Nothing it has read is stale.                                  *)
Group(r) == RulesetOf[ScanOf(r)]
Written(r) == ScanOf(r) \in ScansIn(got) \cap ready /\ Group(r) \in done
RepairInv ==
    clean => \A r \in Rows :
        Written(r) => (tgt[r] > 0 \/ r \in adding <=> r \in got \ dropped)
GroupInv ==
    /\ adding # {} => pc \in {"stale", "add"}
    /\ \A s \in stale : s \notin ScansIn(got)
    /\ \A r \in adding \cup dropped : Group(r) \in done
    /\ adding \cap dropped = {}
    /\ pc = "lifecycle" \/ todo # {} => done = {} \/ pc = "idle"
    /\ pc = "over" => \A g \in Rulesets \ done : Desired(g) = {}
PassInv == GroupInv /\ RepairInv

LEMMA GroupStep == SInv /\ GroupInv /\ [Next]_vars => GroupInv'
<1> SUFFICES ASSUME DataOK, StaleInv, GroupInv, [Next]_vars PROVE GroupInv'
  BY DEF SInv, TypeOK
<1> USE DEF GroupInv
<1>1. CASE \/ \E h \in Hosts : BeginScan(h) \/ Retire(h)
           \/ \E r \in Rows : PostRow(r)
           \/ \E s \in Scans : EndScan(s) \/ Settle(s) \/ Abandon(s)
  BY <1>1 DEF BeginScan, Retire, PostRow, EndScan, Settle, Abandon, FleetFrame, reading, writing,
        Desired, OfRuleset
<1>2. CASE \E b \in Bounds : StartPass(b)
  BY <1>2 DEF StartPass
<1>3. CASE ReadLifecycle
  BY <1>3 DEF ReadLifecycle, writing
<1>4. CASE ReadFleet
  <2>1. listed # {}
    BY <1>4, FS_EmptySet DEF ReadFleet
  <2>2. pc = "read" /\ pc' = "read" /\ done = {} /\ adding = {} /\ todo' = {}
    BY <1>4, <2>1 DEF ReadFleet
  <2>3. stale = {}
    BY <2>2 DEF StaleInv
  <2> QED BY <1>4, <2>2, <2>3 DEF ReadFleet, ReadFrame, writing
<1>5. ASSUME NEW h \in Hosts, ReadShard(h) PROVE GroupInv'
  <2>1. pc = "read" /\ pc' = "read" /\ done = {} /\ adding = {} /\ stale = {}
    BY <1>5 DEF ReadShard, StaleInv
  <2> QED BY <1>5, <2>1 DEF ReadShard, ReadFrame, writing
<1>6. ASSUME NEW g \in Rulesets, NextGroup(g) PROVE GroupInv'
  <2>1. CASE stale' = Stale(g) /\ adding' = AddRows(g) /\ pc' = "stale"
    <3>1. \A r \in AddRows(g) : Group(r) = g
      BY DEF AddRows, Fresh, Desired, OfRuleset, Group
    <3>2. \A s \in Stale(g) : s \notin ScansIn(got)
      BY DEF Stale
    <3> QED BY <1>6, <2>1, <3>1, <3>2 DEF NextGroup, WriteFrame, reading, Group
  <2>2. CASE UNCHANGED <<pc, stale, adding>>
    BY <1>6, <2>2 DEF NextGroup, WriteFrame, reading, Group
  <2> QED BY <1>6, <2>1, <2>2 DEF NextGroup
<1>7. CASE DropStale \/ AddBatch \/ EndGroup \/ Killed
  BY <1>7 DEF DropStale, AddBatch, EndGroup, Killed, WriteFrame, reading, writing, Group
<1>8. CASE EndPass
  BY <1>8 DEF EndPass, WriteFrame, reading, writing, Group, Desired, OfRuleset
<1>9. CASE UNCHANGED vars
  BY <1>9 DEF vars, reading, writing, Group, Desired, OfRuleset
<1> QED BY <1>1, <1>2, <1>3, <1>4, <1>5, <1>6, <1>7, <1>8, <1>9 DEF Next

LEMMA RepairStep == SInv /\ PassInv /\ [Next]_vars => RepairInv'
<1> SUFFICES ASSUME DataOK, ClearedInv, StaleInv, ListingInv, GroupInv, RepairInv, [Next]_vars, clean',
                    NEW r \in Rows, Written(r)'
             PROVE  (tgt[r] > 0 \/ r \in adding <=> r \in got \ dropped)'
  BY DEF SInv, TypeOK, PassInv, RepairInv
<1> USE DEF Written, Group
<1>1. CASE \/ \E h \in Hosts : BeginScan(h) \/ Retire(h)
           \/ \E q \in Rows : PostRow(q)
           \/ \E s \in Scans : EndScan(s) \/ Settle(s) \/ Abandon(s)
  <2>1. UNCHANGED <<tgt, adding, got, ready, done, dropped, clean>>
    BY <1>1 DEF BeginScan, Retire, PostRow, EndScan, Settle, Abandon, FleetFrame, reading, writing,
          NoFault
  <2> QED BY <2>1 DEF RepairInv
<1>2. CASE (\E b \in Bounds : StartPass(b)) \/ ReadLifecycle
  <2>1. done' = {}
    BY <1>2 DEF StartPass, ReadLifecycle, writing, GroupInv
  <2> QED BY <2>1
<1>3. CASE ReadFleet \/ \E h \in Hosts : ReadShard(h)
  <2>1. todo # {}
    BY <1>3, FS_EmptySet DEF ReadFleet, ReadShard
  <2>2. done' = {}
    BY <1>3, <2>1 DEF ReadFleet, ReadShard, ReadFrame, writing, GroupInv
  <2> QED BY <2>2
<1>4. ASSUME NEW g \in Rulesets, NextGroup(g)
      PROVE  (tgt[r] > 0 \/ r \in adding <=> r \in got \ dropped)'
  <2>1. /\ tgt' = Without(Refreshed(g)) /\ adding' = AddRows(g) /\ clean /\ adding = {}
        /\ UNCHANGED <<got, ready, dropped>> /\ done' = done \cup {g} /\ g \notin done
    BY <1>4 DEF NextGroup, Fault, NoFault, WriteFrame, reading, GroupInv
  <2>2. ScanOf(r) \in ScansIn(got) \cap ready /\ RulesetOf[ScanOf(r)] \in done \cup {g}
    BY <2>1
  <2>3. CASE RulesetOf[ScanOf(r)] = g
    <3>1. ScanOf(r) \in Fresh(g)
      BY <2>2, <2>3 DEF Fresh, Desired, OfRuleset
    <3>2. ~(tgt'[r] > 0)
      <4>1. CASE ScanOf(r) \in Held(g)
        BY <2>1, <3>1, <4>1 DEF Without, Refreshed
      <4>2. CASE ScanOf(r) \notin Held(g)
        <5>1. ScanOf(r) \notin ScansIn({q \in Rows : tgt[q] > 0})
          BY <2>3, <3>1, <4>2 DEF Held, OfRuleset, Fresh, Desired
        <5>2. ~(tgt[r] > 0) /\ ScanOf(r) \notin Refreshed(g)
          BY <4>2, <5>1 DEF ScansIn, Refreshed
        <5> QED BY <2>1, <5>2 DEF Without
      <4> QED BY <4>1, <4>2
    <3>3. r \in adding' <=> r \in got \ dropped'
      BY <2>1, <2>3, <3>1 DEF AddRows, GroupInv
    <3> QED BY <2>1, <3>2, <3>3
  <2>4. CASE RulesetOf[ScanOf(r)] # g
    <3>1. ScanOf(r) \notin Fresh(g)
      BY <2>4 DEF Fresh, Desired, OfRuleset
    <3>2. tgt'[r] = tgt[r] /\ r \notin adding'
      BY <2>1, <3>1 DEF Without, Refreshed, AddRows
    <3>3. tgt[r] > 0 <=> r \in got \ dropped
      BY <2>1, <2>2, <2>4 DEF RepairInv
    <3> QED BY <2>1, <3>2, <3>3
  <2> QED BY <2>3, <2>4
<1>5. CASE DropStale
  <2>1. clean /\ tgt' = Without(stale) /\ UNCHANGED <<adding, got, ready, done, dropped>>
    BY <1>5 DEF DropStale, Fault, NoFault, WriteFrame, reading
  <2>2. tgt'[r] = tgt[r]
    BY <2>1 DEF Without, GroupInv
  <2> QED BY <2>1, <2>2 DEF RepairInv
<1>6. CASE AddBatch
  <2>1. PICK B \in SUBSET adding, K \in SUBSET adding :
            /\ K \subseteq B /\ tgt' = Plus(K) /\ adding' = adding \ B
            /\ dropped' = dropped \cup (B \ K) /\ clean
    BY <1>6 DEF AddBatch, Fault, NoFault, Overlooked
  <2>2. UNCHANGED <<got, ready, done>>
    BY <1>6 DEF AddBatch, WriteFrame, reading
  <2>3. tgt[r] \in 0..2 /\ (tgt'[r] > 0 <=> tgt[r] > 0 \/ r \in K)
    BY <2>1 DEF DataOK, Plus, Smaller
  <2>4. tgt[r] > 0 \/ r \in adding <=> r \in got \ dropped
    BY <2>1, <2>2 DEF RepairInv
  <2>5. CASE r \in B
    <3>1. tgt[r] = 0 /\ r \in got \ dropped
      BY <2>1, <2>4, <2>5 DEF ClearedInv
    <3> QED BY <2>1, <2>2, <2>3, <2>5, <3>1
  <2>6. CASE r \notin B
    BY <2>1, <2>2, <2>3, <2>4, <2>6
  <2> QED BY <2>5, <2>6
<1>7. CASE EndGroup \/ EndPass
  <2>1. UNCHANGED <<tgt, adding, got, ready, done, dropped, clean>>
    BY <1>7 DEF EndGroup, EndPass, WriteFrame, reading, writing, NoFault
  <2> QED BY <2>1 DEF RepairInv
<1>8. CASE Killed
  BY <1>8 DEF Killed, Fault
<1>9. CASE UNCHANGED vars
  <2>1. UNCHANGED <<tgt, adding, got, ready, done, dropped, clean>>
    BY <1>9 DEF vars, reading, writing
  <2> QED BY <2>1 DEF RepairInv
<1> QED BY <1>1, <1>2, <1>3, <1>4, <1>5, <1>6, <1>7, <1>8, <1>9 DEF Next

-----------------------------------------------------------------------------
(* SInv is inductive: it is what a pass may rely on while the hosts scan    *)
(* on (consolidate_summary, from the listing to the last batch).            *)
THEOREM SummaryInductive == Spec => []SInv
<1>1. SInv /\ [Next]_vars => SInv'
  BY TypeStep, ClearedStep, SourceStep, ListingStep, ReadStep, StaleStep DEF SInv
<1> QED BY <1>1, SInit, PTL DEF Spec

(* Every variable keeps its type; a target holds only rows that hosts have  *)
(* posted (consolidate_summary, its reads and its writes).                  *)
THEOREM SummaryTyped == Spec => []TypeOK
<1>1. SInv => TypeOK
  BY DEF SInv
<1> QED BY <1>1, SummaryInductive, PTL

(* However passes are stopped and repeated, and whatever reply is lost, no   *)
(* row is in a target twice: what add_data appends was cleared before.       *)
THEOREM NothingDoubled == Spec => []NoDoubles
<1>1. SInv => NoDoubles
  BY DEF SInv, ClearedInv
<1> QED BY <1>1, SummaryInductive, PTL

(* A row leaves a target superseded by the host's later scan, or because a   *)
(* query returned no more than its cap; otherwise its host's dataset still   *)
(* has it, and the group writes it again or the pass reports a failure, even *)
(* if the clearing raised after it was carried out (_supersedable, and the   *)
(* refresh before the write).                                                *)
THEOREM NothingElseRemoved == Spec => OnlySupersededRemoved
<1> DEFINE Removed == \A r \in Rows : tgt[r] > 0 /\ tgt'[r] = 0 =>
                          \/ r \in src' /\ (r \in adding' \/ ~clean')
                          \/ ~Latest(ScanOf(r)) \/ short
<1>1. SInv /\ [Next]_vars => [Removed]_vars
  <2> SUFFICES ASSUME SInv, Next, NEW r \in Rows, tgt[r] > 0, tgt'[r] = 0,
                      Latest(ScanOf(r)), ~short
               PROVE  r \in src' /\ (r \in adding' \/ ~clean')
    OBVIOUS
  <2>0. tgt[r] \in 0..2 /\ tgt' # tgt /\ r[2] = cur[r[1]]
    BY RowFacts DEF SInv, TypeOK, DataOK, Latest
  <2>1. CASE \/ \E h \in Hosts : BeginScan(h) \/ Retire(h)
             \/ \E q \in Rows : PostRow(q)
             \/ \E s \in Scans : EndScan(s) \/ Settle(s) \/ Abandon(s)
    BY <2>0, <2>1 DEF BeginScan, Retire, PostRow, EndScan, Settle, Abandon, FleetFrame
  <2>2. CASE \/ \E b \in Bounds : StartPass(b)
             \/ ReadLifecycle \/ ReadFleet \/ \E h \in Hosts : ReadShard(h)
    BY <2>0, <2>2 DEF StartPass, ReadLifecycle, ReadFleet, ReadShard, ReadFrame
  <2>3. ASSUME NEW g \in Rulesets, NextGroup(g)
        PROVE  r \in src' /\ (r \in adding' \/ ~clean')
    <3>1. /\ pc = "read" /\ todo = {} /\ tgt' = Without(Refreshed(g))
          /\ adding' = AddRows(g) \/ ~clean'
          /\ UNCHANGED src
      BY <2>0, <2>3 DEF NextGroup, Fault, WriteFrame, fleet
    <3>2. ScanOf(r) \in Refreshed(g)
      BY <2>0, <3>1 DEF Without
    <3>3. ScanOf(r) \in Fresh(g) /\ ScanOf(r) \in ScansIn(got)
      BY <3>2 DEF Refreshed, Fresh, Desired, OfRuleset
    <3>4. r \in got
      BY <2>0, <3>1, <3>3 DEF SInv, ReadInv, Busy
    <3>5. r \in posted /\ r[1] \in present
      BY <3>1, <3>4 DEF SInv, TypeOK, DataOK, ListingInv, Busy
    <3>6. r \in src
      BY <2>0, <3>5 DEF SInv, SourceInv
    <3> QED BY <3>1, <3>3, <3>4, <3>6 DEF AddRows
  <2>4. CASE DropStale
    <3>1. ScanOf(r) \in stale
      BY <2>0, <2>4 DEF DropStale, Without
    <3>2. ScanOf(r)[2] < cur[ScanOf(r)[1]]
      BY <3>1 DEF SInv, StaleInv
    <3> QED BY <3>2, <2>0, RowFacts DEF SInv, TypeOK, DataOK
  <2>5. CASE AddBatch
    <3>1. tgt'[r] >= 1
      BY <2>0, <2>5 DEF AddBatch, Plus, Smaller
    <3> QED BY <3>1
  <2>6. CASE EndGroup \/ EndPass \/ Killed
    BY <2>0, <2>6 DEF EndGroup, EndPass, Killed
  <2> QED BY <2>1, <2>2, <2>3, <2>4, <2>5, <2>6 DEF Next
<1> QED BY <1>1, SummaryInductive, PTL DEF Spec, OnlySupersededRemoved

(* A pass that reports no failure leaves each scan it was eligible to write  *)
(* exactly as it read it, whatever broken writes of earlier passes had left, *)
(* but for the rows a batch that was answered had dropped: every ruleset with *)
(* such a scan had its turn, the rows a target held of them were cleared,    *)
(* and no stale scan is one the pass has read.                               *)
THEOREM CleanPassesRepair == Spec => []CleanPassRepairs
<1>1. Init => PassInv
  <2>1. Init => GroupInv
    BY DEF Init, GroupInv
  <2>2. Init => RepairInv
    BY DEF Init, RepairInv, Written
  <2> QED BY <2>1, <2>2 DEF PassInv
<1>2. SInv /\ PassInv /\ [Next]_vars => PassInv'
  BY GroupStep, RepairStep DEF PassInv
<1>3. SInv /\ PassInv => CleanPassRepairs
  <2> SUFFICES ASSUME DataOK, GroupInv, RepairInv, pc = "over", clean,
                      NEW r \in Rows, ScanOf(r) \in ScansIn(got) \cap ready
               PROVE  tgt[r] > 0 <=> r \in got \ dropped
    BY DEF SInv, TypeOK, PassInv, CleanPassRepairs
  <2>1. Group(r) \in Rulesets
    BY RowFacts, SummaryAssumption DEF Group
  <2>2. ScanOf(r) \in Desired(Group(r))
    BY DEF Desired, OfRuleset, Group
  <2>3. Written(r)
    BY <2>1, <2>2 DEF GroupInv, Written
  <2>4. adding = {}
    BY DEF GroupInv
  <2> QED BY <2>3, <2>4 DEF RepairInv
<1> QED BY <1>1, <1>2, <1>3, SummaryInductive, PTL DEF Spec
=============================================================================
