------------------------ MODULE FullConsolidationProofs ------------------------
(***************************************************************************)
(* Theorems about FullConsolidation, for any fleet, rulesets, limits and     *)
(* faults: a pass loses no row of a host's latest scan but those that went   *)
(* unread with a retired dataset, came after their scan had been copied, or  *)
(* are of a scan that a read cut short; and, reads cut short aside, it takes *)
(* nothing out of a target that the host's later scan has not overwritten.   *)
(***************************************************************************)
EXTENDS FullConsolidation, FiniteSetTheorems, TLAPS

-----------------------------------------------------------------------------
(* Facts about the constants and the helpers. *)
LEMMA RowFacts ==
    \A r \in Rows : /\ ScanOf(r) \in Scans /\ r[1] \in Hosts
                    /\ r[2] \in Nat \ {0} /\ r[3] \in Nat
                    /\ ScanOf(r)[1] = r[1] /\ ScanOf(r)[2] = r[2]
<1> SUFFICES ASSUME NEW s \in Scans, NEW i \in 1..RowCount[s], NEW r, r = <<s[1], s[2], i>>
             PROVE  /\ ScanOf(r) \in Scans /\ r[1] \in Hosts
                    /\ r[2] \in Nat \ {0} /\ r[3] \in Nat
                    /\ ScanOf(r)[1] = r[1] /\ ScanOf(r)[2] = r[2]
  BY DEF Rows
<1>1. s = <<s[1], s[2]>> /\ s[2] \in Nat \ {0} /\ RowCount[s] \in Nat
  BY FullAssumption
<1>2. ScanOf(r) = <<s[1], s[2]>> /\ r[1] = s[1] /\ r[2] = s[2] /\ r[3] = i
  BY DEF ScanOf
<1> QED BY <1>1, <1>2 DEF Hosts

LEMMA ScanFacts == \A s \in Scans : s[1] \in Hosts /\ s[2] \in Nat
  BY FullAssumption DEF Hosts

(* A scan delivers finitely many rows. *)
LEMMA RowsOfScanFinite ==
    ASSUME NEW s \in Scans, NEW R \in SUBSET Rows
    PROVE  IsFiniteSet(RowsOf(s, R))
<1> DEFINE I == 1..RowCount[s]
           G == [i \in I |-> <<s[1], s[2], i>>]
           T == {G[i] : i \in I}
<1>1. IsFiniteSet(I)
  <2>1. RowCount[s] \in Int /\ 1 \in Int
    BY FullAssumption
  <2> QED BY <2>1, FS_Interval
<1>2. G \in Surjection(I, T)
  BY DEF Surjection
<1>3. IsFiniteSet(T)
  <2> HIDE DEF I, G, T
  <2> QED BY <1>1, <1>2, FS_Surjection
<1>4. RowsOf(s, R) \subseteq T
  <2> SUFFICES ASSUME NEW r \in R, ScanOf(r) = s PROVE r \in T
    BY DEF RowsOf
  <2>0. PICK q \in Scans : \E i \in 1..RowCount[q] : r = <<q[1], q[2], i>>
    BY DEF Rows
  <2>1. PICK i \in 1..RowCount[q] : r = <<q[1], q[2], i>>
    BY <2>0
  <2>2. q = <<q[1], q[2]>> /\ ScanOf(r) = <<q[1], q[2]>>
    BY <2>1, FullAssumption DEF ScanOf
  <2>3. q = s
    BY <2>2
  <2> QED BY <2>1, <2>3
<1> QED BY <1>3, <1>4, FS_Subset

(* Two rows of one scan are of one host. *)
LEMMA SameScan ==
    ASSUME NEW r \in Rows, NEW R \in SUBSET Rows, ScanOf(r) \in ScansIn(R)
    PROVE  \E q \in R : q[1] = r[1] /\ ScanOf(q) = ScanOf(r)
<1>1. PICK q \in R : ScanOf(q) = ScanOf(r)
  BY DEF ScansIn
<1>2. ScanOf(q)[1] = q[1] /\ ScanOf(r)[1] = r[1]
  BY RowFacts
<1> QED BY <1>1, <1>2

-----------------------------------------------------------------------------
(* A scanner posts rows of its own scan and removes what earlier ones left.  *)
HostInv ==
    /\ \A r \in posted : r[2] <= cur[r[1]]
    /\ \A h \in Hosts : \A s \in stale[h] : s[1] = h /\ s[2] # cur[h]
    /\ \A h \in Hosts : spc[h] # "idle" => Scan(h) \in Scans

(* R shows that row r is there, or its scan by nothing but later rows. *)
Shown(r, R) ==
    \/ r \in R
    \/ ScanOf(r) \in ScansIn(R) /\ RowsOf(ScanOf(r), R) \subseteq late

(* Rows of a latest scan that were copied, or are about to be, are in the    *)
(* dataset for as long as it is there; when it was deleted and a straggler   *)
(* has brought it back, it holds rows that came late.                        *)
SourceInv ==
    \A r \in tgt \cup {q \in got : ScanOf(q) \in ready} :
        r[2] = cur[r[1]] /\ r[1] \in present => Shown(r, src)

(* What is written was read, and is of a scan that the gate let through. *)
PassInv ==
    /\ apc \in {"idle", "plan"} => got = {}
    /\ todo # {} => apc = "read" /\ listed \subseteq present
    /\ todo # {} => \A r \in got : r[1] \in listed \ todo
    /\ apc = "plan" => listed \subseteq present
    /\ retire # {} => apc = "retire"
    /\ ready \subseteq ScansIn(got) /\ ScansIn(adding) \subseteq claimed

(* A scan that a target holds, the host's latest and never cut short, was    *)
(* read if its host was in a complete read; and what was read of it shows    *)
(* the rows that the target holds.                                           *)
ReadInv ==
    apc \in {"read", "add", "retire"} =>
        \A r \in tgt :
            r[2] = cur[r[1]] /\ ScanOf(r) \notin cut =>
                /\ complete /\ r[1] \in listed \ todo => ScanOf(r) \in ScansIn(got)
                /\ ScanOf(r) \in ScansIn(got) => Shown(r, got)

(* What was read from a dataset about to go has been copied, unless it came  *)
(* late or its scan was cut short.                                           *)
RetireInv ==
    apc = "retire" =>
        \A h \in retire : \A r \in got :
            r[1] = h /\ r[2] = cur[r[1]] => (r \in tgt \cup late \/ ScanOf(r) \in cut)

FInv ==
    /\ TypeOK /\ HostInv /\ SourceInv /\ PassInv /\ ReadInv /\ RetireInv
    /\ NothingElseLost

(* The steps that leave the pass alone. *)
Elsewhere == Settle \/ Age \/ \E h \in Hosts : HostStep(h)

-----------------------------------------------------------------------------
LEMMA FInit == Init => FInv
<1> SUFFICES ASSUME Init PROVE FInv
  OBVIOUS
<1> USE DEF Init
<1>1. DataOK
  BY FullAssumption DEF DataOK
<1>2. FlagsOK
  BY DEF FlagsOK
<1>3. HostInv /\ SourceInv /\ NothingElseLost
  BY DEF HostInv, SourceInv, NothingElseLost
<1>4. PassInv /\ ReadInv /\ RetireInv
  BY DEF PassInv, ReadInv, RetireInv, ScansIn
<1> QED BY <1>1, <1>2, <1>3, <1>4 DEF FInv, TypeOK

LEMMA ElsewhereFrame ==
    Elsewhere => /\ UNCHANGED <<bound, tgt, apc, reading, writing, unseen, cut>>
                 /\ late \subseteq late'
  BY DEF Elsewhere, HostStep, EnsureOne, ListScanIds, PostRow, SendScanRowNow, End,
         RemoveScanId, Settle, Age, HostFrame, TimeFrame

(* A host's scans are numbered one after the other. *)
LEMMA CurStep ==
    ASSUME DataOK, Elsewhere, NEW h \in Hosts
    PROVE  cur'[h] \in {cur[h], cur[h] + 1}
<1>1. ASSUME NEW k \in Hosts, EnsureOne(k) PROVE cur'[h] \in {cur[h], cur[h] + 1}
  BY <1>1 DEF EnsureOne, DataOK
<1>2. CASE ~\E k \in Hosts : EnsureOne(k)
  <2>1. UNCHANGED cur
    BY <1>2 DEF Elsewhere, HostStep, ListScanIds, PostRow, SendScanRowNow, End,
                RemoveScanId, Settle, Age, TimeFrame, host
  <2> QED BY <2>1
<1> QED BY <1>1, <1>2

LEMMA PassFrames ==
    PassStep \/ Killed => UNCHANGED <<bound, cur, spc, stale, posted, ended, late>>
  BY DEF PassStep, Killed, Forget, StartPass, PlanPass, FaninRows, RowsOfShard, NextGroup,
         AddBatch, Verify, DeleteDataset, Retired, EndPass, PassFrame, host

LEMMA FaultCount ==
    ASSUME faults \in 0..MaxFaults, Fault
    PROVE  faults' \in 0..MaxFaults
  BY FullAssumption DEF Fault

(* A scanner's steps, and time. *)
LEMMA HostData ==
    ASSUME DataOK, HostInv, Elsewhere
    PROVE  DataOK'
<1> USE FullAssumption DEF DataOK
<1>0. UNCHANGED <<bound, tgt, listed, terminal, ready, todo, got, done, claimed, adding,
                  retire, unseen, cut>>
  BY ElsewhereFrame DEF reading, writing
<1>1. ASSUME NEW h \in Hosts, EnsureOne(h) PROVE DataOK'
  <2>1. faults' \in 0..MaxFaults
    BY <1>1, FaultCount DEF EnsureOne
  <2> QED BY <1>0, <1>1, <2>1 DEF EnsureOne, clock
<1>2. ASSUME NEW h \in Hosts, ListScanIds(h) PROVE DataOK'
  <2>1. faults' \in 0..MaxFaults
    BY <1>2, FaultCount DEF ListScanIds
  <2>2. ScansIn(RowsAt(h, src)) \subseteq Scans
    BY RowFacts DEF ScansIn, RowsAt
  <2>3. /\ UNCHANGED <<cur, present, src, posted, ended, recent, aged, late>>
        /\ FlushOn(h, ScansIn(RowsAt(h, src)) \ {Scan(h)}) \/ FlushOn(h, {})
    BY <1>2 DEF ListScanIds, clock
  <2>4. \E S \in SUBSET Scans : FlushOn(h, S)
    BY <2>2, <2>3
  <2>5. PICK S \in SUBSET Scans : FlushOn(h, S)
    BY <2>4
  <2>6. /\ spc' \in [Hosts -> {"idle", "list", "flush", "scan"}]
        /\ stale' \in [Hosts -> SUBSET Scans]
        /\ \A k \in Hosts : spc'[k] = "flush" <=> stale'[k] # {}
    BY <2>5 DEF FlushOn
  <2> QED BY <1>0, <2>1, <2>3, <2>6
<1>3. ASSUME NEW h \in Hosts, NEW s \in Scans, RemoveScanId(h, s) PROVE DataOK'
  <2>1. faults' \in 0..MaxFaults
    BY <1>3, FaultCount DEF RemoveScanId
  <2>2. src' \subseteq src /\ recent' \subseteq src' /\ aged' \subseteq src'
    BY <1>3 DEF RemoveScanId, Drop
  <2> QED BY <1>0, <1>3, <2>1, <2>2 DEF RemoveScanId, FlushOn
<1>4. ASSUME NEW h \in Hosts, PostRow(h) PROVE DataOK'
  <2>1. PICK r \in Rows : /\ ScanOf(r) = Scan(h) /\ src' = src \cup {r}
                          /\ posted' = posted \cup {r} /\ late' \subseteq late \cup {r}
                          /\ recent' \subseteq recent \cup {r}
    BY <1>4 DEF PostRow
  <2>2. r[1] = h
    BY <2>1 DEF ScanOf, Scan
  <2> QED BY <1>0, <1>4, <2>1, <2>2 DEF PostRow, Recreated, host
<1>5. ASSUME NEW h \in Hosts, SendScanRowNow(h) PROVE DataOK'
  <2>1. Scan(h) \in Scans
    BY <1>5 DEF SendScanRowNow, HostInv
  <2> QED BY <1>0, <1>5, <2>1 DEF SendScanRowNow, host
<1>6. ASSUME NEW h \in Hosts, End(h) PROVE DataOK'
  <2>1. faults' \in 0..MaxFaults
    BY <1>6, FaultCount DEF End
  <2> QED BY <1>0, <1>6, <2>1 DEF End, clock
<1>7. CASE Settle \/ Age
  BY <1>0, <1>7 DEF Settle, Age, Unfinished, TimeFrame, host
<1> QED BY <1>1, <1>2, <1>3, <1>4, <1>5, <1>6, <1>7 DEF Elsewhere, HostStep

(* What a read returns is in the dataset; the gate chooses among its scans. *)
LEMMA ReadsGot ==
    ASSUME NEW h \in Hosts, NEW R \in Reads(h)
    PROVE  R \subseteq RowsAt(h, src)
  BY DEF Reads

LEMMA GatedScans == \A R : Gated(R) \subseteq ScansIn(R)
  BY DEF Gated

(* One read for all hosts is the first. *)
LEMMA WholeFleetUnread ==
    ASSUME PassInv, DataOK, FaninRows
    PROVE  got = {} /\ adding = {}
<1>1. todo = listed /\ Cardinality(listed) > 1
  BY DEF FaninRows
<1>2. ASSUME todo = {} PROVE FALSE
  <2>1. Cardinality(todo) = 0 /\ Cardinality(todo) > 1
    BY <1>1, <1>2, FS_EmptySet, Zenon
  <2> QED BY <2>1
<1> QED BY <1>1, <1>2 DEF PassInv, DataOK

(* A pass's steps. *)
LEMMA PassData ==
    ASSUME DataOK, PassInv, PassStep \/ Killed
    PROVE  DataOK'
<1> USE FullAssumption DEF DataOK
<1>0. UNCHANGED <<bound, cur, spc, stale, posted, ended, late>>
  BY PassFrames
<1>1. CASE StartPass
  BY <1>0, <1>1 DEF StartPass, Stamps, writing, PassInv
<1>2. CASE PlanPass
  <2>1. faults' \in 0..MaxFaults
    BY <1>2, FaultCount DEF PlanPass
  <2>2. todo' \subseteq listed
    BY <1>2 DEF PlanPass, Plans
  <2> QED BY <1>0, <1>2, <2>1, <2>2 DEF PlanPass, Stamps, writing
<1>3. CASE FaninRows
  <2>1. adding = {} /\ got = {}
    BY <1>3, WholeFleetUnread
  <2>2. ready' = ready \cup Gated(src) /\ got' = src /\ terminal' \subseteq terminal
    BY <1>3, <2>1 DEF FaninRows, Absorb
  <2>3. ScansIn(src) \subseteq Scans
    BY RowFacts DEF ScansIn
  <2> QED BY <1>0, <1>3, <2>1, <2>2, <2>3, GatedScans DEF FaninRows, Stamps, writing
<1>4. ASSUME NEW h \in Hosts, RowsOfShard(h) PROVE DataOK'
  <2>1. faults' \in 0..MaxFaults
    BY <1>4, FaultCount DEF RowsOfShard
  <2>2. PICK R \in SUBSET src : Absorb(R)
    BY <1>4, ReadsGot DEF RowsOfShard, RowsAt
  <2>3. got \subseteq got' /\ got' \subseteq posted /\ terminal' \subseteq terminal
        /\ ready' = ready \cup Gated(R)
    BY <2>2 DEF Absorb
  <2>4. ScansIn(R) \subseteq Scans /\ ScansIn(src) \subseteq Scans
    BY RowFacts DEF ScansIn
  <2>5. cut' \subseteq cut \cup ScansIn(src)
    BY <1>4 DEF RowsOfShard, ScansIn, RowsAt
  <2> QED BY <1>0, <1>4, <2>1, <2>3, <2>4, <2>5, GatedScans DEF RowsOfShard, Stamps, writing
<1>5. ASSUME NEW g \in Rulesets, NextGroup(g) PROVE DataOK'
  <2>1. faults' \in 0..MaxFaults
    BY <1>5, FaultCount DEF NextGroup
  <2>2. claimed' \subseteq ready
    BY <1>5 DEF NextGroup, Claims, Fresh, Desired, OfRuleset
  <2>3. adding' \subseteq got
    BY <1>5 DEF NextGroup, AddRows
  <2>4. tgt' \subseteq tgt
    BY <1>5 DEF NextGroup, Without
  <2> QED BY <1>0, <1>5, <2>1, <2>2, <2>3, <2>4 DEF NextGroup, Stamps, reading
<1>6. ASSUME NEW B \in SUBSET adding, AddBatch(B) PROVE DataOK'
  <2>1. faults' \in 0..MaxFaults
    BY <1>6, FaultCount DEF AddBatch
  <2>2. tgt' \subseteq tgt \cup B /\ adding' \subseteq adding /\ claimed' \subseteq claimed
    BY <1>6 DEF AddBatch
  <2> QED BY <1>0, <1>6, <2>1, <2>2 DEF AddBatch, Stamps, reading
<1>7. CASE Verify
  <2>1. faults' \in 0..MaxFaults
    BY <1>7, FaultCount DEF Verify
  <2>2. retire' \subseteq listed
    BY <1>7 DEF Verify, RetireSet
  <2> QED BY <1>0, <1>7, <2>1, <2>2 DEF Verify, Stamps, reading
<1>8. ASSUME NEW h \in Hosts, DeleteDataset(h) PROVE DataOK'
  <2>1. faults' \in 0..MaxFaults
    BY <1>8, FaultCount DEF DeleteDataset
  <2>2. /\ present' \subseteq Hosts /\ src' \subseteq posted /\ \A r \in src' : r[1] \in present'
        /\ recent' \subseteq src' /\ aged' \subseteq src'
    BY <1>8 DEF DeleteDataset, Drop, RowsAt, Stamps
  <2>3. unseen' \subseteq posted
    BY <1>8 DEF DeleteDataset, RowsAt
  <2> QED BY <1>0, <1>8, <2>1, <2>2, <2>3 DEF DeleteDataset, reading
<1>9. CASE Retired
  BY <1>0, <1>9 DEF Retired, Stamps, reading, writing
<1>10. CASE EndPass \/ Killed
  <2>1. faults' \in 0..MaxFaults
    BY <1>10, FaultCount DEF EndPass, Killed
  <2> QED BY <1>0, <1>10, <2>1 DEF EndPass, Killed, Forget, Stamps
<1> QED BY <1>1, <1>2, <1>3, <1>4, <1>5, <1>6, <1>7, <1>8, <1>9, <1>10 DEF PassStep

LEMMA FlagsStep ==
    ASSUME FlagsOK, [Next]_vars
    PROVE  FlagsOK'
<1> USE DEF FlagsOK
<1>1. CASE Elsewhere
  BY <1>1, ElsewhereFrame DEF reading
<1>2. CASE StartPass
  BY <1>2 DEF StartPass
<1>3. CASE PlanPass
  BY <1>3 DEF PlanPass
<1>4. CASE FaninRows
  BY <1>4 DEF FaninRows
<1>5. CASE \E h \in Hosts : RowsOfShard(h)
  BY <1>5 DEF RowsOfShard
<1>6. CASE (\E g \in Rulesets : NextGroup(g)) \/ \E B \in SUBSET adding : AddBatch(B)
  BY <1>6 DEF NextGroup, AddBatch, reading
<1>7. CASE Verify
  BY <1>7 DEF Verify, reading
<1>8. CASE \E h \in Hosts : DeleteDataset(h)
  BY <1>8 DEF DeleteDataset, reading
<1>9. CASE Retired \/ EndPass \/ Killed
  BY <1>9 DEF Retired, EndPass, Killed, Forget, reading
<1>10. CASE UNCHANGED vars
  BY <1>10 DEF vars, reading
<1> QED BY <1>1, <1>2, <1>3, <1>4, <1>5, <1>6, <1>7, <1>8, <1>9, <1>10
     DEF Next, PassStep, Elsewhere

-----------------------------------------------------------------------------
LEMMA HostStepInv ==
    ASSUME DataOK, HostInv, PassInv, [Next]_vars
    PROVE  HostInv'
<1> USE DEF HostInv
<1>1. ASSUME NEW h \in Hosts, EnsureOne(h) PROVE HostInv'
  <2>1. /\ cur' = [cur EXCEPT ![h] = @ + 1] /\ UNCHANGED <<stale, posted>>
        /\ spc' \in {[spc EXCEPT ![h] = "list"], [spc EXCEPT ![h] = "scan"]}
        /\ <<h, cur[h] + 1>> \in Scans /\ spc[h] = "idle"
    BY <1>1 DEF EnsureOne
  <2>2. \A k \in Hosts : /\ cur[k] \in Nat /\ cur'[k] = IF k = h THEN cur[k] + 1 ELSE cur[k]
                         /\ k # h => spc'[k] = spc[k]
    BY <2>1 DEF DataOK
  <2>3. \A r \in posted : r[1] \in Hosts /\ r[2] \in Nat
    BY RowFacts DEF DataOK
  <2>4. \A r \in posted' : r[2] <= cur'[r[1]]
    BY <2>1, <2>2, <2>3
  <2>5. stale[h] = {}
    BY <2>1 DEF DataOK
  <2>6. \A k \in Hosts : \A s \in stale'[k] : s[1] = k /\ s[2] # cur'[k]
    BY <2>1, <2>2, <2>5
  <2>7. \A k \in Hosts : spc'[k] # "idle" => Scan(k)' \in Scans
    BY <2>1, <2>2 DEF Scan
  <2> QED BY <2>4, <2>6, <2>7
<1>2. ASSUME NEW h \in Hosts, ListScanIds(h) PROVE HostInv'
  <2>1. PICK S \in {{}, ScansIn(RowsAt(h, src)) \ {Scan(h)}} : FlushOn(h, S)
    BY <1>2 DEF ListScanIds
  <2>2. \A s \in S : s[1] = h /\ s[2] # cur[h]
    <3> SUFFICES ASSUME NEW r \in RowsAt(h, src), ScanOf(r) # Scan(h)
                 PROVE  ScanOf(r)[1] = h /\ ScanOf(r)[2] # cur[h]
      BY <2>1 DEF ScansIn
    <3>1. r \in Rows /\ r[1] = h
      BY DEF RowsAt, DataOK
    <3> QED BY <3>1, RowFacts DEF ScanOf, Scan
  <2>3. UNCHANGED <<cur, posted>> /\ spc[h] = "list"
    BY <1>2 DEF ListScanIds
  <2>4. \A k \in Hosts : /\ k # h => spc'[k] = spc[k] /\ stale'[k] = stale[k]
                         /\ stale'[h] = S
    BY <2>1 DEF FlushOn, DataOK
  <2> QED BY <2>2, <2>3, <2>4 DEF Scan, DataOK
<1>3. ASSUME NEW h \in Hosts, NEW s \in Scans, RemoveScanId(h, s) PROVE HostInv'
  <2>1. FlushOn(h, stale[h] \ {s}) /\ spc[h] = "flush" /\ UNCHANGED <<cur, posted>>
    BY <1>3 DEF RemoveScanId
  <2>2. \A k \in Hosts : /\ k # h => spc'[k] = spc[k]
                         /\ stale'[k] \subseteq stale[k]
    BY <2>1 DEF FlushOn, DataOK
  <2> QED BY <2>1, <2>2 DEF Scan, DataOK
<1>4. ASSUME NEW h \in Hosts, PostRow(h) PROVE HostInv'
  <2>1. PICK r \in Rows : posted' = posted \cup {r} /\ ScanOf(r) = Scan(h)
    BY <1>4 DEF PostRow
  <2>2. r[1] = h /\ r[2] = cur[h] /\ cur[h] \in Nat /\ UNCHANGED <<cur, spc, stale>>
    BY <1>4, <2>1 DEF ScanOf, Scan, PostRow, host, DataOK
  <2> QED BY <2>1, <2>2 DEF Scan
<1>5. ASSUME NEW h \in Hosts, SendScanRowNow(h) PROVE HostInv'
  BY <1>5 DEF SendScanRowNow, host, Scan
<1>6. ASSUME NEW h \in Hosts, End(h) PROVE HostInv'
  BY <1>6 DEF End, Scan, DataOK
<1>7. CASE Settle \/ Age
  BY <1>7 DEF Settle, Age, TimeFrame, host, Scan
<1>8. CASE PassStep \/ Killed
  BY <1>8, PassFrames DEF Scan
<1>9. CASE UNCHANGED vars
  BY <1>9 DEF vars, host, Scan
<1> QED BY <1>1, <1>2, <1>3, <1>4, <1>5, <1>6, <1>7, <1>8, <1>9 DEF Next, HostStep

(* A row that its host has posted since shows nothing new of another scan,   *)
(* and of a scan that is being copied it came late.                          *)
LEMMA ShownAfterPost ==
    ASSUME DataOK, NEW h \in Hosts, PostRow(h), NEW r \in Rows,
           r[1] \in present => Shown(r, src),
           r[1] = h \/ r[1] \in present, ScanOf(r) = Scan(h) => Taken(ScanOf(r)),
           r[2] = cur[r[1]]
    PROVE  Shown(r, src)'
<1>1. PICK q \in Rows : /\ ScanOf(q) = Scan(h) /\ src' = src \cup {q}
                        /\ late' = late \cup {p \in {q} : Taken(Scan(h))}
  BY DEF PostRow
<1>2. ScanOf(q) = ScanOf(r) => q \in late'
  BY <1>1
<1>3. RowsOf(ScanOf(r), src') \subseteq
          RowsOf(ScanOf(r), src) \cup {p \in {q} : ScanOf(p) = ScanOf(r)}
  BY <1>1 DEF RowsOf
<1>4. CASE r[1] \in present
  BY <1>1, <1>2, <1>3, <1>4 DEF Shown, ScansIn
<1>5. CASE r[1] \notin present
  <2>1. r[1] = h /\ ScanOf(r) = Scan(h)
    BY <1>5 DEF ScanOf, Scan
  <2>2. RowsOf(ScanOf(r), src) = {}
    <3> SUFFICES ASSUME NEW p \in src, ScanOf(p) = ScanOf(r) PROVE FALSE
      BY DEF RowsOf
    <3>1. p[1] = r[1] /\ p[1] \in present
      BY RowFacts DEF DataOK
    <3> QED BY <3>1, <1>5
  <2>3. ScanOf(r) \in ScansIn(src')
    BY <2>1, <1>1 DEF ScansIn
  <2> QED BY <1>2, <1>3, <2>2, <2>3 DEF Shown
<1> QED BY <1>4, <1>5

(* What was read or copied of a scan is changed by a later scan, or goes     *)
(* with its dataset.                                                         *)
LEMMA SourceStepInv ==
    ASSUME DataOK, HostInv, SourceInv, PassInv, [Next]_vars
    PROVE  SourceInv'
<1> DEFINE Kept == tgt \cup {q \in got : ScanOf(q) \in ready}
<1>0. \A r \in Kept : /\ r \in posted /\ r[1] \in Hosts /\ r[2] \in Nat /\ cur[r[1]] \in Nat
                       /\ ScanOf(r)[1] = r[1] /\ ScanOf(r)[2] = r[2]
                       /\ r[2] <= cur[r[1]] /\ r \in Rows
  <2>1. \A r \in Kept : r \in posted /\ r \in Rows
    BY DEF DataOK
  <2>2. \A r \in Kept : r[1] \in Hosts /\ r[2] \in Nat
                        /\ ScanOf(r)[1] = r[1] /\ ScanOf(r)[2] = r[2]
    BY <2>1, RowFacts
  <2> QED BY <2>1, <2>2 DEF HostInv, DataOK
<1>00. \A r \in Kept : Taken(ScanOf(r))
  BY DEF Taken, ScansIn
<1>1. CASE Elsewhere
  <2>1. Kept' = Kept /\ late \subseteq late'
    BY <1>1, ElsewhereFrame DEF reading
  <2> HIDE DEF Kept
  <2> SUFFICES ASSUME NEW r \in Kept, r[2] = cur'[r[1]], r[1] \in present'
               PROVE  Shown(r, src)'
    BY <2>1 DEF SourceInv, Kept
  <2>2. r[2] = cur[r[1]] /\ r[1] \in present => Shown(r, src)
    BY DEF SourceInv, Kept
  <2>3. src' = src /\ Shown(r, src) => Shown(r, src)'
    BY <2>1 DEF Shown
  <2>4. ASSUME NEW h \in Hosts, EnsureOne(h) PROVE Shown(r, src)'
    <3>1. cur' = [cur EXCEPT ![h] = @ + 1] /\ present' \subseteq present \cup {h} /\ src' = src
      BY <2>4 DEF EnsureOne
    <3>2. r[1] # h
      BY <3>1, <1>0 DEF DataOK
    <3> QED BY <3>1, <3>2, <1>0, <2>2, <2>3 DEF DataOK
  <2>5. ASSUME NEW h \in Hosts, PostRow(h) PROVE Shown(r, src)'
    <3>1. UNCHANGED cur /\ present' = present \cup {h}
      BY <2>5 DEF PostRow, host, Recreated
    <3> QED BY <3>1, <2>2, <2>5, <1>0, <1>00, ShownAfterPost
  <2>6. ASSUME NEW h \in Hosts, NEW s \in Scans, RemoveScanId(h, s) PROVE Shown(r, src)'
    <3>1. UNCHANGED <<cur, present, late>> /\ s \in stale[h]
          /\ src' \in {src, src \ RowsOf(s, src)}
      BY <2>6 DEF RemoveScanId, Drop
    <3>2. ScanOf(r) # s
      BY <3>1, <1>0 DEF HostInv
    <3> QED BY <3>1, <3>2, <2>2 DEF RowsOf, Shown, ScansIn
  <2>7. CASE Settle \/ Age \/ \E h \in Hosts : ListScanIds(h) \/ SendScanRowNow(h) \/ End(h)
    BY <2>2, <2>3, <2>7 DEF ListScanIds, SendScanRowNow, End, Settle, Age, TimeFrame, host
  <2> QED BY <1>1, <2>4, <2>5, <2>6, <2>7 DEF Elsewhere, HostStep
<1>2. CASE PassStep \/ Killed
  <2>1. UNCHANGED <<cur, posted, late>>
    BY <1>2, PassFrames
  <2> SUFFICES ASSUME NEW r \in Kept', r[2] = cur[r[1]], r[1] \in present'
               PROVE  Shown(r, src')
    BY <2>1 DEF SourceInv, Shown
  <2>2. r \in Kept /\ r[1] \in present => Shown(r, src)
    BY DEF SourceInv
  <2>3. r \in src => Shown(r, src)
    BY DEF Shown
  <2>4. CASE StartPass \/ Verify \/ Retired
    BY <2>2, <2>4 DEF StartPass, Verify, Retired, reading
  <2>5. CASE PlanPass
    BY <2>2, <2>5 DEF PlanPass, PassInv
  <2>6. CASE FaninRows
    <3>1. UNCHANGED <<tgt, src, present>> /\ got' = src
      BY <2>6, WholeFleetUnread DEF FaninRows, Absorb
    <3> QED BY <2>2, <2>3, <3>1
  <2>7. ASSUME NEW h \in Hosts, RowsOfShard(h) PROVE Shown(r, src')
    <3>1. PICK R \in SUBSET RowsAt(h, src) : Absorb(R)
      BY <2>7, ReadsGot DEF RowsOfShard
    <3>2. /\ UNCHANGED <<tgt, src, present>> /\ got' = got \cup R
          /\ ready' = ready \cup Gated(R)
      BY <2>7, <3>1 DEF RowsOfShard, Absorb
    <3>3. CASE r \in src
      BY <2>3, <3>2, <3>3
    <3>4. CASE r \notin src
      <4>1. r \in tgt \/ (r \in got /\ ScanOf(r) \in ready \cup ScansIn(R))
        BY <3>1, <3>2, <3>4, GatedScans DEF RowsAt
      <4>2. r \in got => ScanOf(r) \notin ScansIn(R)
        <5> SUFFICES ASSUME r \in got, NEW q \in R, ScanOf(q) = ScanOf(r) PROVE FALSE
          BY DEF ScansIn
        <5>1. q[1] = h /\ q \in Rows /\ r \in Rows
          BY <3>1 DEF RowsAt, DataOK
        <5>2. r[1] = h
          BY <5>1, RowFacts
        <5>3. r[1] \in listed \ todo /\ h \in todo
          BY <2>7 DEF RowsOfShard, PassInv
        <5> QED BY <5>2, <5>3
      <4> QED BY <2>2, <3>2, <4>1, <4>2
    <3> QED BY <3>3, <3>4
  <2>8. CASE \E g \in Rulesets : NextGroup(g)
    BY <2>2, <2>8 DEF NextGroup, Without, reading
  <2>9. ASSUME NEW B \in SUBSET adding, AddBatch(B) PROVE Shown(r, src')
    <3>1. \A q \in B : q \in got /\ ScanOf(q) \in ready
      BY DEF PassInv, ScansIn, DataOK
    <3>2. tgt' \subseteq tgt \cup B /\ UNCHANGED <<got, ready, src, present>>
      BY <2>9 DEF AddBatch, reading
    <3> QED BY <2>2, <3>1, <3>2
  <2>10. ASSUME NEW h \in Hosts, DeleteDataset(h) PROVE Shown(r, src')
    <3>1. r \in Kept /\ present' \subseteq present
      BY <2>10 DEF DeleteDataset, reading
    <3>2. CASE src' = src
      BY <2>2, <3>1, <3>2
    <3>3. CASE src' = src \ RowsAt(h, src) /\ present' = present \ {h}
      <4>1. r \in Rows /\ src \subseteq Rows /\ r[1] # h
        BY <3>1, <3>3, <1>0 DEF DataOK
      <4>2. RowsOf(ScanOf(r), src') = RowsOf(ScanOf(r), src)
        BY <4>1, <3>3, RowFacts DEF RowsOf, RowsAt
      <4>3. ScanOf(r) \in ScansIn(src) => ScanOf(r) \in ScansIn(src')
        BY <4>2 DEF RowsOf, ScansIn
      <4> QED BY <2>2, <3>1, <3>3, <4>1, <4>2, <4>3 DEF Shown, RowsAt
    <3> QED BY <2>10, <3>2, <3>3 DEF DeleteDataset, Drop
  <2>11. CASE EndPass \/ Killed
    BY <2>2, <2>11 DEF EndPass, Killed, Forget
  <2> QED BY <1>2, <2>4, <2>5, <2>6, <2>7, <2>8, <2>9, <2>10, <2>11 DEF PassStep
<1>3. CASE UNCHANGED vars
  BY <1>3 DEF vars, reading, SourceInv, Shown, host
<1> QED BY <1>1, <1>2, <1>3 DEF Next, Elsewhere

LEMMA PassStepInv ==
    ASSUME DataOK, PassInv, [Next]_vars
    PROVE  PassInv'
<1> USE DEF PassInv
<1>1. CASE Elsewhere
  <2>1. UNCHANGED <<tgt, apc, reading, writing>>
    BY <1>1, ElsewhereFrame
  <2>2. present \subseteq present'
    BY <1>1 DEF Elsewhere, HostStep, EnsureOne, ListScanIds, PostRow, SendScanRowNow, End,
                RemoveScanId, Settle, Age, TimeFrame, Recreated
  <2> QED BY <2>1, <2>2 DEF reading, writing, ScansIn
<1>2. CASE PassStep \/ Killed
  <2>1. CASE StartPass
    BY <2>1 DEF StartPass, writing, ScansIn
  <2>2. CASE PlanPass
    BY <2>2 DEF PlanPass, writing, ScansIn
  <2>3. CASE FaninRows
    <3>1. got = {} /\ ready = {} /\ adding = {} /\ claimed = {}
      BY <2>3, WholeFleetUnread DEF ScansIn, DataOK
    <3>2. ready' \subseteq ScansIn(got')
      BY <2>3, <3>1, GatedScans DEF FaninRows, Absorb
    <3> QED BY <2>3, <3>1, <3>2 DEF FaninRows, writing, ScansIn
  <2>4. ASSUME NEW h \in Hosts, RowsOfShard(h) PROVE PassInv'
    <3>1. PICK R \in SUBSET RowsAt(h, src) : Absorb(R)
      BY <2>4, ReadsGot DEF RowsOfShard
    <3>2. got' = got \cup R /\ ready' \subseteq ready \cup ScansIn(R)
      BY <3>1, GatedScans DEF Absorb
    <3>3. ready' \subseteq ScansIn(got')
      BY <3>2 DEF ScansIn
    <3>4. h \in todo /\ todo' = todo \ {h} /\ todo \subseteq listed
          /\ UNCHANGED <<listed, tgt, writing, apc, present>>
      BY <2>4 DEF RowsOfShard, DataOK
    <3>5. \A r \in got' : r[1] \in listed' \ todo'
      <4>1. \A r \in R : r[1] = h
        BY DEF RowsAt
      <4> HIDE DEF RowsAt
      <4> QED BY <3>2, <3>4, <4>1
    <3> QED BY <3>3, <3>4, <3>5, <2>4 DEF RowsOfShard, writing, ScansIn
  <2>5. ASSUME NEW g \in Rulesets, NextGroup(g) PROVE PassInv'
    <3>1. CASE claimed' = Claims(g) /\ adding' = AddRows(g)
      <4>1. ScansIn(AddRows(g)) \subseteq Claims(g)
        BY DEF Claims, AddRows, ScansIn
      <4> QED BY <2>5, <3>1, <4>1 DEF NextGroup, reading, ScansIn
    <3>2. CASE UNCHANGED <<claimed, adding>>
      BY <2>5, <3>2 DEF NextGroup, reading, ScansIn
    <3> QED BY <2>5, <3>1, <3>2 DEF NextGroup
  <2>6. ASSUME NEW B \in SUBSET adding, AddBatch(B) PROVE PassInv'
    <3>1. \/ adding' \subseteq adding /\ claimed' = claimed
          \/ adding' = {} /\ claimed' = {}
      BY <2>6 DEF AddBatch
    <3>2. ScansIn(adding') \subseteq claimed'
      BY <3>1 DEF ScansIn
    <3> QED BY <2>6, <3>2 DEF AddBatch, reading
  <2>7. CASE Verify
    BY <2>7 DEF Verify, reading
  <2>8. ASSUME NEW h \in Hosts, DeleteDataset(h) PROVE PassInv'
    <3>1. todo = {} /\ apc = "retire"
      BY <2>8 DEF DeleteDataset
    <3> QED BY <2>8, <3>1 DEF DeleteDataset, reading
  <2>9. CASE Retired
    BY <2>9 DEF Retired, reading, writing
  <2>10. CASE EndPass \/ Killed
    BY <2>10 DEF EndPass, Killed, Forget, ScansIn
  <2> QED BY <1>2, <2>1, <2>2, <2>3, <2>4, <2>5, <2>6, <2>7, <2>8, <2>9, <2>10 DEF PassStep
<1>3. CASE UNCHANGED vars
  BY <1>3 DEF vars, reading, writing
<1> QED BY <1>1, <1>2, <1>3 DEF Next, Elsewhere

(* Reading a dataset shows the rows of its latest scan that were copied. *)
LEMMA ReadStepInv ==
    ASSUME DataOK, HostInv, SourceInv, PassInv, ReadInv, [Next]_vars
    PROVE  ReadInv'
<1> SUFFICES ASSUME apc' \in {"read", "add", "retire"}, NEW r \in tgt', r[2] = cur'[r[1]],
                    ScanOf(r) \notin cut'
             PROVE  /\ complete' /\ r[1] \in listed' \ todo' => ScanOf(r) \in ScansIn(got')
                    /\ ScanOf(r) \in ScansIn(got') => Shown(r, got)'
  BY DEF ReadInv
<1> DEFINE Good == /\ complete /\ r[1] \in listed \ todo => ScanOf(r) \in ScansIn(got)
                   /\ ScanOf(r) \in ScansIn(got) => Shown(r, got)
<1> SUFFICES Good'
  OBVIOUS
<1>1. CASE Elsewhere
  <2>1. UNCHANGED <<tgt, apc, complete, listed, todo, got, cut>> /\ late \subseteq late'
    BY <1>1, ElsewhereFrame DEF reading
  <2>2. r \in posted /\ r[1] \in Hosts /\ r[2] \in Nat /\ cur[r[1]] \in Nat /\ r[2] <= cur[r[1]]
    BY <2>1, RowFacts DEF DataOK, HostInv
  <2>3. cur'[r[1]] \in {cur[r[1]], cur[r[1]] + 1}
    BY <1>1, <2>2, CurStep
  <2>4. r[2] = cur[r[1]]
    BY <2>2, <2>3
  <2> QED BY <2>1, <2>4 DEF ReadInv, Shown
<1>2. CASE PassStep \/ Killed
  <2>0. UNCHANGED <<cur, posted, late>> /\ cut \subseteq cut'
    BY <1>2, PassFrames DEF PassStep, Killed, Forget, StartPass, PlanPass, FaninRows,
       RowsOfShard, NextGroup, AddBatch, Verify, DeleteDataset, Retired, EndPass
  <2>01. r \in tgt /\ apc \in {"read", "add", "retire"} => Good
    BY <2>0 DEF ReadInv
  <2>02. r \in tgt /\ r[1] \in present => Shown(r, src)
    BY <2>0 DEF SourceInv
  <2>03. r \in tgt => r \in Rows
    BY DEF DataOK
  <2>1. CASE StartPass \/ EndPass \/ Killed
    BY <2>1 DEF StartPass, EndPass, Killed, Forget
  <2>2. CASE PlanPass
    <3>1. got' = {} /\ listed' = listed /\ (complete' <=> todo' = listed)
      BY <2>2 DEF PlanPass, PassInv
    <3> QED BY <3>1 DEF ScansIn
  <2>3. CASE FaninRows
    <3>1. /\ got' = src /\ listed \subseteq present /\ r \in tgt /\ listed' = listed
      BY <2>3, WholeFleetUnread, FS_EmptySet DEF FaninRows, Absorb, PassInv
    <3>2. ScanOf(r) \in ScansIn(src) => r[1] \in present
      <4>1. src \subseteq Rows
        BY DEF DataOK
      <4> QED BY <4>1, <3>1, <2>03, SameScan DEF DataOK
    <3>3. r[1] \in present => ScanOf(r) \in ScansIn(src) /\ Shown(r, src)
      BY <3>1, <2>02 DEF Shown, ScansIn
    <3> QED BY <3>1, <3>2, <3>3, <2>0 DEF Shown
  <2>4. ASSUME NEW h \in Hosts, RowsOfShard(h) PROVE Good'
    <3>1. /\ apc = "read" /\ h \in todo /\ todo' = todo \ {h} /\ h \in present
          /\ UNCHANGED <<tgt, listed>>
      BY <2>4 DEF RowsOfShard, PassInv, DataOK
    <3>2. PICK R \in SUBSET RowsAt(h, src) :
              /\ got' = got \cup R /\ (complete' => complete)
              /\ \/ cut' = cut \cup ScansIn(RowsAt(h, src) \ R)
                 \/ ~complete' /\ R = {}
      <4>1. CASE \E R \in Reads(h) : /\ Absorb(R) /\ complete' = complete
                                     /\ cut' = cut \cup ScansIn(RowsAt(h, src) \ R)
        <5>1. PICK R \in Reads(h) : /\ Absorb(R) /\ complete' = complete
                                    /\ cut' = cut \cup ScansIn(RowsAt(h, src) \ R)
          BY <4>1
        <5>2. R \subseteq RowsAt(h, src)
          BY ReadsGot
        <5> QED BY <5>1, <5>2 DEF Absorb
      <4>2. CASE Absorb({}) /\ complete' = FALSE
        BY <4>2 DEF Absorb
      <4> QED BY <2>4, <4>1, <4>2 DEF RowsOfShard
    <3>3. /\ got \subseteq Rows /\ src \subseteq Rows /\ (\A q \in got : q[1] # h)
          /\ \A q \in R : q \in src /\ q[1] = h
      BY <3>1 DEF DataOK, PassInv, RowsAt
    <3>4. r[1] \in Hosts /\ ScanOf(r)[1] = r[1]
      BY <2>03, <3>1, RowFacts
    <3>5. CASE r[1] = h
      <4>1. Shown(r, src)
        BY <3>1, <3>5, <2>02
      <4>2. RowsOf(ScanOf(r), src) \subseteq RowsAt(h, src)
        BY <3>3, <3>4, <3>5, RowFacts DEF RowsOf, RowsAt
      <4>3. ScanOf(r) \notin ScansIn(got)
        BY <3>3, <3>4, <3>5, RowFacts DEF ScansIn
      <4>4. CASE cut' = cut \cup ScansIn(RowsAt(h, src) \ R)
        <5>1. RowsOf(ScanOf(r), R) = RowsOf(ScanOf(r), src)
          BY <4>2, <4>4, <3>3 DEF RowsOf, ScansIn
        <5>2. RowsOf(ScanOf(r), got') = RowsOf(ScanOf(r), src)
          BY <5>1, <4>3, <3>2 DEF RowsOf, ScansIn
        <5>3. ScanOf(r) \in ScansIn(got') /\ (r \in src => r \in got')
          BY <5>2, <4>1 DEF Shown, RowsOf, ScansIn
        <5> QED BY <5>2, <5>3, <4>1, <2>0 DEF Shown
      <4>5. CASE ~complete' /\ R = {}
        BY <4>5, <4>3, <3>2
      <4> QED BY <3>2, <4>4, <4>5
    <3>6. CASE r[1] # h
      <4>1. ScanOf(r) \notin ScansIn(R)
        BY <3>3, <3>4, <3>6, RowFacts DEF ScansIn
      <4>2. /\ ScanOf(r) \in ScansIn(got') <=> ScanOf(r) \in ScansIn(got)
            /\ RowsOf(ScanOf(r), got') = RowsOf(ScanOf(r), got)
        BY <3>2, <4>1 DEF RowsOf, ScansIn
      <4> QED BY <4>2, <3>1, <3>2, <3>6, <2>0, <2>01 DEF Shown
    <3> QED BY <3>5, <3>6
  <2>5. CASE \E g \in Rulesets : NextGroup(g)
    BY <2>5, <2>0, <2>01 DEF NextGroup, Without, reading, Shown
  <2>6. ASSUME NEW B \in SUBSET adding, AddBatch(B) PROVE Good'
    <3>1. tgt' \subseteq tgt \cup B /\ B \subseteq got /\ apc = "add" /\ UNCHANGED reading
      BY <2>6 DEF AddBatch, DataOK
    <3>2. CASE r \in got
      BY <3>1, <3>2 DEF reading, Shown, ScansIn
    <3>3. CASE r \in tgt
      BY <3>1, <3>3, <2>0, <2>01 DEF reading, Shown
    <3> QED BY <3>1, <3>2, <3>3
  <2>7. CASE Verify \/ Retired \/ \E h \in Hosts : DeleteDataset(h)
    BY <2>7, <2>0, <2>01 DEF Verify, Retired, DeleteDataset, reading, Shown
  <2> QED BY <1>2, <2>1, <2>2, <2>3, <2>4, <2>5, <2>6, <2>7 DEF PassStep
<1>3. CASE UNCHANGED vars
  BY <1>3 DEF vars, reading, host, ReadInv, Shown
<1> QED BY <1>1, <1>2, <1>3 DEF Next, Elsewhere

(* A verified scan's rows are in the target row by row, or came late. *)
LEMMA VerifiedCopied ==
    ASSUME DataOK, ReadInv, PassInv, apc = "add",
           NEW r \in got, r[2] = cur[r[1]], ScanOf(r) \in Verified, ScanOf(r) \notin cut
    PROVE  r \in tgt \cup late
<1> DEFINE s == ScanOf(r)
<1>1. s \in ScansIn(got) /\ s \in Scans
  BY DEF Verified, PassInv, DataOK
<1>2. got \subseteq Rows /\ tgt \subseteq Rows
  BY DEF DataOK
<1>3. \A q \in RowsOf(s, tgt) : Shown(q, got)
  <2> SUFFICES ASSUME NEW q \in tgt, ScanOf(q) = s PROVE Shown(q, got)
    BY DEF RowsOf
  <2>1. q[1] = r[1] /\ q[2] = r[2]
    BY <1>2, RowFacts
  <2> QED BY <1>1, <2>1 DEF ReadInv
<1>4. CASE RowsOf(s, tgt) \subseteq got
  <2>1. RowsOf(s, tgt) \subseteq RowsOf(s, got)
    BY <1>4 DEF RowsOf
  <2>2. IsFiniteSet(RowsOf(s, got)) /\ IsFiniteSet(RowsOf(s, tgt))
    BY <1>1, <1>2, RowsOfScanFinite
  <2>3. Cardinality(RowsOf(s, tgt)) >= Cardinality(RowsOf(s, got))
    BY DEF Verified
  <2>4. /\ Cardinality(RowsOf(s, tgt)) <= Cardinality(RowsOf(s, got))
        /\ Cardinality(RowsOf(s, tgt)) = Cardinality(RowsOf(s, got)) =>
               RowsOf(s, tgt) = RowsOf(s, got)
    BY <2>1, <2>2, FS_Subset
  <2>5. Cardinality(RowsOf(s, tgt)) \in Nat /\ Cardinality(RowsOf(s, got)) \in Nat
    BY <2>2, FS_CardinalityType
  <2>6. RowsOf(s, tgt) = RowsOf(s, got)
    BY <2>3, <2>4, <2>5
  <2>7. r \in RowsOf(s, got)
    BY DEF RowsOf
  <2> QED BY <2>6, <2>7 DEF RowsOf
<1>5. ASSUME NEW q \in RowsOf(s, tgt), q \notin got PROVE r \in late
  <2>1. ScanOf(q) = s /\ RowsOf(ScanOf(q), got) \subseteq late
    BY <1>3, <1>5 DEF Shown, RowsOf
  <2> QED BY <2>1 DEF RowsOf
<1> QED BY <1>4, <1>5

LEMMA RetireStepInv ==
    ASSUME DataOK, HostInv, PassInv, ReadInv, RetireInv, [Next]_vars
    PROVE  RetireInv'
<1> SUFFICES ASSUME apc' = "retire", NEW h \in retire', NEW r \in got',
                    r[1] = h, r[2] = cur'[r[1]]
             PROVE  r \in tgt' \cup late' \/ ScanOf(r) \in cut'
  BY DEF RetireInv
<1>1. CASE Elsewhere
  <2>1. UNCHANGED <<tgt, apc, retire, got, cut>> /\ late \subseteq late'
    BY <1>1, ElsewhereFrame DEF reading, writing
  <2>2. r \in posted /\ r[1] \in Hosts /\ r[2] \in Nat /\ cur[r[1]] \in Nat /\ r[2] <= cur[r[1]]
    BY <2>1, RowFacts DEF DataOK, HostInv
  <2>3. cur'[r[1]] \in {cur[r[1]], cur[r[1]] + 1}
    BY <1>1, <2>2, CurStep
  <2>4. r[2] = cur[r[1]]
    BY <2>2, <2>3
  <2> QED BY <2>1, <2>4 DEF RetireInv
<1>2. CASE PassStep \/ Killed
  <2>0. UNCHANGED <<cur, late>>
    BY <1>2, PassFrames
  <2>1. CASE Verify
    <3>1. /\ apc = "add" /\ retire' = RetireSet
          /\ got' = got /\ tgt' = tgt /\ cut' = cut
      BY <2>1 DEF Verify, reading
    <3>2. ScanOf(r) \in Verified
      BY <3>1 DEF RetireSet, RowsAt, ScansIn
    <3> QED BY <3>1, <3>2, <2>0, VerifiedCopied
  <2>2. CASE \E k \in Hosts : DeleteDataset(k)
    BY <2>0, <2>2 DEF DeleteDataset, reading, RetireInv
  <2>3. CASE ~Verify /\ ~\E k \in Hosts : DeleteDataset(k)
    <3>1. apc' # "retire"
      BY <1>2, <2>3 DEF PassStep, Killed, Forget, StartPass, PlanPass, FaninRows, RowsOfShard,
                        NextGroup, AddBatch, Retired, EndPass
    <3> QED BY <3>1
  <2> QED BY <2>1, <2>2, <2>3
<1>3. CASE UNCHANGED vars
  BY <1>3 DEF vars, reading, writing, host, RetireInv
<1> QED BY <1>1, <1>2, <1>3 DEF Next, Elsewhere

(* What a group takes out of its target was overwritten by a later scan, or  *)
(* is of a scan that a read cut short.                                       *)
LEMMA StaleOverwritten ==
    ASSUME DataOK, ReadInv, NEW g \in Rulesets, NextGroup(g),
           NEW r \in tgt, ScanOf(r) \in Stale(g)
    PROVE  r[2] # cur[r[1]] \/ ScanOf(r) \in cut
<1>1. apc = "read" /\ todo = {}
  BY DEF NextGroup
<1>2. complete /\ ScanOf(r) \notin ScansIn(got) /\ ScanOf(r)[1] \in listed
  <2>1. ScanOf(r) \in Scans /\ ScanOf(r) \in Supersedable(Held(g) \ Observed(g)) /\ complete
    BY RowFacts DEF Stale, DataOK
  <2>2. ScanOf(r) \in Held(g)  /\ ScanOf(r) \notin Observed(g) /\ ScanOf(r)[1] \in listed
    BY <2>1 DEF Supersedable
  <2> QED BY <2>1, <2>2 DEF Held, Observed, OfRuleset
<1>3. r[1] \in listed
  BY <1>2, RowFacts DEF DataOK
<1> QED BY <1>1, <1>2, <1>3 DEF ReadInv

LEMMA GroupRemoves ==
    ASSUME NEW g \in Rulesets, NextGroup(g), NEW r \in tgt, r \notin tgt'
    PROVE  ScanOf(r) \in Stale(g)
  BY DEF NextGroup, Without

LEMMA LostStep ==
    ASSUME DataOK, DataOK', HostInv, PassInv, ReadInv, RetireInv, NothingElseLost, [Next]_vars
    PROVE  NothingElseLost'
<1> DEFINE Known(r) == r \in src \cup tgt \cup unseen \cup late \/ ScanOf(r) \in cut
<1> SUFFICES ASSUME NEW r \in posted', r[2] = cur'[r[1]]
             PROVE  Known(r)'
  <2>1. \A r \in posted' : r \in Rows
    BY DEF DataOK
  <2> QED BY <2>1, RowFacts DEF NothingElseLost, Latest
<1>0. \A q \in posted : /\ q[1] \in Hosts /\ q[2] \in Nat
                        /\ cur[q[1]] \in Nat /\ q[2] <= cur[q[1]]
                        /\ q[2] = cur[q[1]] => Known(q)
  BY RowFacts DEF DataOK, HostInv, NothingElseLost, Latest
<1>1. CASE Elsewhere
  <2>1. UNCHANGED <<tgt, unseen, cut>> /\ late \subseteq late'
    BY <1>1, ElsewhereFrame
  <2>2. ASSUME NEW h \in Hosts, EnsureOne(h) PROVE Known(r)'
    <3>1. cur' = [cur EXCEPT ![h] = @ + 1] /\ src' = src /\ posted' = posted
      BY <2>2 DEF EnsureOne
    <3>2. r[2] = cur[r[1]]
      BY <3>1, <1>0 DEF DataOK
    <3> QED BY <3>1, <3>2, <2>1, <1>0
  <2>3. ASSUME NEW h \in Hosts, NEW s \in Scans, RemoveScanId(h, s)
        PROVE  Known(r)'
    <3>1. UNCHANGED <<cur, posted>> /\ s \in stale[h] /\ src' \in {src, src \ RowsOf(s, src)}
      BY <2>3 DEF RemoveScanId, Drop
    <3>2. ScanOf(r) # s
      BY <3>1, RowFacts DEF HostInv, DataOK
    <3> QED BY <3>1, <3>2, <2>1, <1>0 DEF RowsOf
  <2>4. ASSUME NEW h \in Hosts, PostRow(h) PROVE Known(r)'
    <3>1. UNCHANGED cur /\ \E q \in Rows : src' = src \cup {q} /\ posted' = posted \cup {q}
      BY <2>4 DEF PostRow, host
    <3> QED BY <3>1, <2>1, <1>0
  <2>5. CASE Settle \/ Age \/ \E h \in Hosts : ListScanIds(h) \/ SendScanRowNow(h) \/ End(h)
    BY <2>1, <2>5, <1>0 DEF ListScanIds, SendScanRowNow, End, Settle, Age, TimeFrame, host
  <2> QED BY <1>1, <2>2, <2>3, <2>4, <2>5 DEF Elsewhere, HostStep
<1>2. CASE PassStep \/ Killed
  <2>0. UNCHANGED <<cur, posted, late>>
    BY <1>2, PassFrames
  <2>1. ASSUME NEW g \in Rulesets, NextGroup(g) PROVE Known(r)'
    <3>1. UNCHANGED <<src, unseen, cut>>
      BY <2>1 DEF NextGroup
    <3>2. r \in tgt \ tgt' => ScanOf(r) \in cut
      BY <2>0, <2>1, GroupRemoves, StaleOverwritten
    <3> QED BY <3>1, <3>2, <2>0, <1>0
  <2>2. ASSUME NEW h \in Hosts, DeleteDataset(h) PROVE Known(r)'
    <3>1. CASE /\ src' = src \ RowsAt(h, src) /\ tgt' = tgt /\ cut' = cut
               /\ unseen' = unseen \cup (RowsAt(h, src) \ (got \cup late))
      <4>1. r \in RowsAt(h, src) \cap got => (r \in tgt \cup late \/ ScanOf(r) \in cut)
        BY <2>0, <2>2 DEF DeleteDataset, RetireInv, RowsAt
      <4> QED BY <2>0, <3>1, <4>1, <1>0
    <3>2. CASE UNCHANGED <<src, tgt, unseen, cut>>
      BY <2>0, <3>2, <1>0
    <3> QED BY <2>2, <3>1, <3>2 DEF DeleteDataset, Drop
  <2>3. CASE ~(\E g \in Rulesets : NextGroup(g)) /\ ~\E h \in Hosts : DeleteDataset(h)
    <3>1. UNCHANGED <<src, unseen>> /\ tgt \subseteq tgt' /\ cut \subseteq cut'
      BY <1>2, <2>3 DEF PassStep, Killed, Forget, StartPass, PlanPass, FaninRows, RowsOfShard,
                        AddBatch, Verify, Retired, EndPass
    <3> QED BY <3>1, <2>0, <1>0
  <2> QED BY <2>1, <2>2, <2>3
<1>3. CASE UNCHANGED vars
  BY <1>3, <1>0 DEF vars, host
<1> QED BY <1>1, <1>2, <1>3 DEF Next, Elsewhere

-----------------------------------------------------------------------------
(* FInv is inductive: it ties what a pass has listed, read and written to    *)
(* the datasets that the hosts go on writing (consolidate_full).             *)
THEOREM FullInductive == Spec => []FInv
<1>1. FInv /\ [Next]_vars => FInv'
  <2> SUFFICES ASSUME FInv, [Next]_vars PROVE FInv'
    OBVIOUS
  <2>1. DataOK /\ HostInv /\ PassInv /\ SourceInv /\ ReadInv /\ RetireInv /\ NothingElseLost
    BY DEF FInv, TypeOK
  <2>2. FlagsOK /\ FlagsOK'
    BY FlagsStep DEF FInv, TypeOK
  <2>3. DataOK'
    <3>1. CASE UNCHANGED vars
      BY <2>1, <3>1 DEF vars, host, clock, reading, writing, DataOK
    <3> QED BY <2>1, <3>1, HostData, PassData DEF Next, Elsewhere
  <2> QED
    BY <2>1, <2>2, <2>3, HostStepInv, SourceStepInv, PassStepInv, ReadStepInv, RetireStepInv,
       LostStep DEF FInv, TypeOK
<1> QED BY <1>1, FInit, PTL DEF Spec

(* Every variable keeps its type; sources and targets hold only rows that a  *)
(* scanner has posted (consolidate_full and _ensure_one).                    *)
THEOREM FullTyped == Spec => []TypeOK
<1>1. FInv => TypeOK
  BY DEF FInv
<1> QED BY <1>1, FullInductive, PTL

(* No failed call, killed pass, half-written group or failed flush loses a   *)
(* row of a host's latest scan; a retired dataset takes rows the pass had    *)
(* not read, and scans copied too early or cut short lose what was left out  *)
(* (_retire_consolidated_sources).                                           *)
THEOREM LatestKept == Spec => []NothingElseLost
<1>1. FInv => NothingElseLost
  BY DEF FInv
<1> QED BY <1>1, FullInductive, PTL

(* What a target loses, the host's later scan has overwritten, whatever the  *)
(* pass retired before and however it read the fleet, unless a read at the   *)
(* row limit left the scan out (_supersedable, _rows_of).                    *)
THEOREM OnlyOverwrittenRemoved == Spec => OnlySupersededRemoved
<1> DEFINE Removed == \A r \in tgt \ tgt' : ~Latest(ScanOf(r)) \/ ScanOf(r) \in cut
<1>1. FInv /\ [Next]_vars => [Removed]_vars
  <2> SUFFICES ASSUME FInv, Next, NEW r \in tgt, r \notin tgt'
               PROVE  ~Latest(ScanOf(r)) \/ ScanOf(r) \in cut
    OBVIOUS
  <2>1. r[2] # cur[r[1]] \/ ScanOf(r) \in cut
    <3>1. CASE Elsewhere
      BY <3>1, ElsewhereFrame
    <3>2. ASSUME NEW g \in Rulesets, NextGroup(g) PROVE r[2] # cur[r[1]] \/ ScanOf(r) \in cut
      BY <3>2, GroupRemoves, StaleOverwritten DEF FInv, TypeOK
    <3>3. CASE (PassStep \/ Killed) /\ ~\E g \in Rulesets : NextGroup(g)
      BY <3>3 DEF PassStep, Killed, Forget, StartPass, PlanPass, FaninRows, RowsOfShard,
                  AddBatch, Verify, Retired, EndPass, DeleteDataset
    <3> QED BY <3>1, <3>2, <3>3 DEF Next, Elsewhere
  <2> QED BY <2>1, RowFacts DEF FInv, TypeOK, DataOK, Latest
<1> QED BY <1>1, FullInductive, PTL DEF Spec, OnlySupersededRemoved
=============================================================================
