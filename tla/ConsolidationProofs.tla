------------------------ MODULE ConsolidationProofs ------------------------
(***************************************************************************)
(* Theorems about the consolidation of the per-scan pipeline, for any      *)
(* scans, hosts, faults and knobs: the pass (Consolidation), and the guard *)
(* that keeps two passes apart (ConsolidationLock).                        *)
(***************************************************************************)
EXTENDS Consolidation, ConsolidationLock, FiniteSetTheorems, TLAPS

LEMMA CardinalityComplete ==
    ASSUME NEW A, NEW B, IsFiniteSet(B), A \subseteq B, Cardinality(A) >= Cardinality(B)
    PROVE  A = B
  <1>1. IsFiniteSet(A) /\ Cardinality(A) <= Cardinality(B)
    BY FS_Subset
  <1>2. Cardinality(A) \in Nat /\ Cardinality(B) \in Nat
    BY <1>1, FS_CardinalityType
  <1> QED BY <1>1, <1>2, FS_Subset

LEMMA InitInv == Init => IInv
  <1> SUFFICES ASSUME Init PROVE IInv
    OBVIOUS
  <1>1. TypeOK
    BY ConstantsAssumption DEF Init, TypeOK, Kinds, Fresh, Quiet, Abandoned, AnyScan
  <1>2. TenantInv
    BY DEF Init, TenantInv, OneSideWhole, Whole, Punctual, Target
  <1>3. SnapshotInv
    BY DEF Init, SnapshotInv
  <1>4. VerifiedIsComplete /\ ProgressInv
    BY DEF Init, VerifiedIsComplete, ProgressInv
  <1> QED BY <1>1, <1>2, <1>3, <1>4 DEF IInv

LEMMA DrainEndsInv ==
    ASSUME IInv, NEW s \in Scans, DrainEnds(s) PROVE IInv'
  <1> USE DEF IInv, DrainEnds, tenant, local, bounds
  <1>1. TypeOK'
    BY DEF TypeOK
  <1>2. TenantInv'
    BY DEF TypeOK, TenantInv, OneSideWhole, Whole, Punctual, Mixed, Target, Closed
  <1>3. SnapshotInv'
    BY DEF TypeOK, SnapshotInv, Counted, Members, Closed, Target
  <1>4. VerifiedIsComplete' /\ ProgressInv'
    BY DEF VerifiedIsComplete, Whole, Punctual, Mixed, Target, ProgressInv, Counted, Members
  <1> QED BY <1>1, <1>2, <1>3, <1>4

LEMMA AgeInv ==
    ASSUME IInv, NEW s \in Scans, NEW k \in Kinds, Age(s, k) PROVE IInv'
  <1> USE DEF IInv, Age, tenant, local, bounds
  <1>1. TypeOK'
    BY DEF TypeOK, Fresh, Quiet, Abandoned
  <1>2. \A t \in Scans, j \in Kinds : Closed(t, j) => Closed(t, j)'
    BY DEF TypeOK, Closed, Fresh, Quiet, Abandoned
  <1>3. TenantInv'
    BY <1>2 DEF TypeOK, TenantInv, OneSideWhole, Whole, Punctual, Mixed, Target
  <1>4. SnapshotInv'
    BY <1>2 DEF TypeOK, SnapshotInv, Counted, Members, Target
  <1>5. VerifiedIsComplete' /\ ProgressInv'
    BY DEF VerifiedIsComplete, Whole, Punctual, Mixed, Target, ProgressInv, Counted, Members
  <1> QED BY <1>1, <1>3, <1>4, <1>5

(* A closed group stays closed when a row comes: it is late. *)
LEMMA HostWriteKeepsClosed ==
    ASSUME TypeOK, NEW r \in Rows, HostWrite(r), NEW t \in Scans, NEW j \in Kinds, Closed(t, j)
    PROVE  Closed(t, j)'
  <1> DEFINE s == ScanOf[r]
             k == RowKind(r)
  <1> USE DEF HostWrite
  <1>1. s \in Scans /\ k \in Kinds /\ r \in Group(k, s)
    BY ConstantsAssumption DEF RowKind, Group
  <1>2. CASE t = s /\ j = k
    <2>1. phase[s] = "draining" /\ r \in late'
      BY <1>1, <1>2 DEF Closed, MayArrive, TypeOK, Abandoned
    <2>2. phase'[s] = "draining"
      BY <1>1, <2>1, ConstantsAssumption DEF TypeOK
    <2> QED BY <1>1, <1>2, <2>1, <2>2 DEF Closed
  <1>3. CASE ~(t = s /\ j = k)
    <2>1. silence'[t][j] = silence[t][j] /\ late \cap Group(j, t) \subseteq late' \cap Group(j, t)
      BY <1>1, <1>3 DEF TypeOK
    <2>2. phase'[t] = phase[t] \/ (phase[t] = "running" /\ phase'[t] = "draining")
      BY <1>1 DEF TypeOK, MayArrive
    <2> QED BY <2>1, <2>2 DEF Closed
  <1> QED BY <1>2, <1>3

(* A closed group stays closed, and what still comes to it is late: the rows *)
(* it may count on, and whether it is whole, do not change any more.         *)
LEMMA HostWriteInv ==
    ASSUME IInv, NEW r \in Rows, HostWrite(r) PROVE IInv'
  <1> DEFINE s == ScanOf[r]
             k == RowKind(r)
  <1> USE DEF IInv, HostWrite, tenant, local, bounds
  <1>0. s \in Scans /\ k \in Kinds /\ ShardOf[r] \in Shards /\ r \in Group(k, s) /\ r \notin sent
    BY ConstantsAssumption DEF RowKind, Group, MayArrive
  <1>1. TypeOK'
    BY <1>0 DEF TypeOK, Fresh, Quiet, Abandoned
  <1>2. late \subseteq late' /\ late' \subseteq late \cup {r} /\ (Closed(s, k) => r \in late')
    OBVIOUS
  <1>3. \A t \in Scans, j \in Kinds : Closed(t, j) => Closed(t, j)'
    BY HostWriteKeepsClosed
  <1>4. ASSUME NEW t \in Scans, NEW j \in Kinds
        PROVE  /\ Closed(t, j) => Punctual(j, t)' = Punctual(j, t)
               /\ Punctual(j, t)' \subseteq Punctual(j, t) \cup {r}
               /\ Mixed(j, t) => Mixed(j, t)'
    <2>1. r \in Group(j, t) => t = s /\ j = k
      BY DEF Group
    <2> QED BY <1>0, <1>2, <2>1 DEF Punctual, Mixed, Target
  <1>5. TenantInv'
    <2>1. /\ held' \subseteq sent' /\ merged' \subseteq sent' /\ overrun' \subseteq sent' \ held'
          /\ (overrun \cap merged \subseteq late)'
      BY <1>0, <1>2 DEF TenantInv
    <2>2. ASSUME NEW t \in Scans, NEW j \in Kinds
          PROVE  Whole(j, t)' \/ Punctual(j, t)' \subseteq held'
      <3>1. CASE Punctual(j, t) \subseteq held
        BY <1>4, <3>1
      <3>2. CASE Mixed(j, t)
        BY <1>4, <3>2 DEF Whole
      <3>3. CASE Punctual(j, t) \subseteq merged /\ ~(Punctual(j, t) \subseteq held)
        <4>1. Target(j, t) # {}
          BY <3>3 DEF Punctual, Target
        <4>2. Closed(t, j)
          BY <4>1 DEF TenantInv
        <4> QED BY <1>4, <3>3, <4>2 DEF Whole
      <3> QED BY <3>1, <3>2, <3>3 DEF TenantInv, OneSideWhole, Whole
    <2>3. (\A q \in sent \cap TerminalRows : phase[ScanOf[q]] # "running")'
      BY <1>0, ConstantsAssumption DEF TenantInv, TypeOK
    <2>4. (\A t \in Scans, j \in Kinds : Target(j, t) # {} => Closed(t, j))'
      BY <1>3 DEF TenantInv, Target
    <2> QED BY <2>1, <2>2, <2>3, <2>4 DEF TenantInv, OneSideWhole
  <1>6. SnapshotInv'
    <2>1. (\A t \in passed : Closed(t, kind))'
      BY <1>3 DEF SnapshotInv, TypeOK
    <2>2. ASSUME NEW q \in held' \ (snap \cup late'), RowKind(q) = kind, snap # {}
          PROVE  ScanOf[q] \notin passed /\ Target(kind, ScanOf[q]) = {}
      <3>1. CASE q = r
        BY <1>0, <1>2, <2>2, <3>1 DEF SnapshotInv, TenantInv
      <3>2. CASE q # r
        BY <1>2, <2>2, <3>2 DEF SnapshotInv
      <3> QED BY <3>1, <3>2
    <2> QED BY <2>1, <2>2 DEF SnapshotInv, Counted, TypeOK, Target
  <1>7. VerifiedIsComplete'
    <2> SUFFICES ASSUME NEW t \in verified PROVE Whole(kind, t)'
      BY DEF VerifiedIsComplete, Whole, Punctual, Mixed, Target
    <2>1. Closed(t, kind) /\ t \in Scans /\ kind \in Kinds
      BY DEF SnapshotInv, TypeOK
    <2> QED BY <1>4, <2>1 DEF VerifiedIsComplete, Whole
  <1>8. ProgressInv'
    <2>1. pc = "write" => Punctual(kind, cur)' = Punctual(kind, cur)
      BY <1>4 DEF ProgressInv, SnapshotInv, TypeOK
    <2> QED BY <1>2, <2>1 DEF ProgressInv, Counted, Members, Target, Punctual
  <1> QED BY <1>1, <1>5, <1>6, <1>7, <1>8

-----------------------------------------------------------------------------
(* Steps of the pass that leave the tenant alone. *)

(* A terminal status is read only of a scan that has sent its terminal row. *)
LEMMA TerminalHasEnded ==
    ASSUME TypeOK, TenantInv, NEW T \in TerminalMaps, NEW s \in T
    PROVE  s \in Scans /\ phase[s] # "running"
  <1>1. s \in Scans
    BY DEF TerminalMaps
  <1>2. PICK d \in LifecycleShards(s) : ReadsTerminal(s, d)
    BY <1>1 DEF TerminalMaps
  <1>3. PICK r \in held \cap TerminalRows : ScanOf[r] = s
    BY <1>2 DEF ReadsTerminal, NewestIsTerminal, ShardRows, Group
  <1> QED BY <1>1, <1>3 DEF TenantInv

(* The gate opens only on a closed group. *)
LEMMA GateMeansClosed ==
    ASSUME TypeOK, NEW T, NEW s \in Scans, NEW k \in Kinds, GateOpen(s, k, T),
           s \in T => phase[s] # "running"
    PROVE  Closed(s, k)
  <1>1. CASE silence[s][k] = Abandoned
    BY <1>1 DEF Closed
  <1>2. CASE s \in T
    <2>1. silence[s][k] # Fresh
      BY DEF GateOpen, TypeOK, Fresh, Quiet, Abandoned
    <2> QED BY <1>2, <2>1 DEF Closed, TypeOK
  <1> QED BY <1>1, <1>2 DEF GateOpen

LEMMA StartPassInv ==
    ASSUME IInv, StartPass PROVE IInv'
  <1> USE DEF IInv, StartPass, host, tenant, bounds
  <1>1. wanted' \subseteq Scans
    BY DEF Eligible, FirstN
  <1>2. TypeOK'
    BY <1>1 DEF TypeOK, Kinds
  <1>3. TenantInv'
    BY DEF TenantInv, OneSideWhole, Whole, Punctual, Mixed, Target, Closed
  <1>4. SnapshotInv'
    BY DEF ProgressInv, SnapshotInv, Counted, Members, Closed, Target
  <1>5. VerifiedIsComplete' /\ ProgressInv'
    BY DEF VerifiedIsComplete, Whole, Punctual, Mixed, Target, ProgressInv, Counted, Members
  <1> QED BY <1>2, <1>3, <1>4, <1>5

LEMMA ReadLifecycleInv ==
    ASSUME IInv, ReadLifecycle PROVE IInv'
  <1> USE DEF IInv, ReadLifecycle, host, tenant, bounds
  <1>1. \A s \in terminal' : s \in Scans /\ phase[s] # "running"
    BY TerminalHasEnded
  <1>2. TypeOK'
    BY <1>1 DEF TypeOK
  <1>3. TenantInv'
    BY DEF TenantInv, OneSideWhole, Whole, Punctual, Mixed, Target, Closed
  <1>4. SnapshotInv'
    BY <1>1 DEF SnapshotInv, Counted, Members, Closed, Target
  <1>5. VerifiedIsComplete' /\ ProgressInv'
    BY DEF VerifiedIsComplete, Whole, Punctual, Mixed, Target, ProgressInv, Counted, Members
  <1> QED BY <1>2, <1>3, <1>4, <1>5

LEMMA SnapshotStepInv ==
    ASSUME IInv, Snapshot PROVE IInv'
  <1> USE DEF IInv, Snapshot, Decide, host, tenant, bounds
  <1>1. PICK T : (\A s \in T : phase[s] # "running") /\ Decide(T)
    BY TerminalHasEnded DEF SnapshotInv
  <1>2. todo' \subseteq Scans /\ passed' \subseteq todo' /\ snap' \subseteq held
    BY <1>1, ConstantsAssumption DEF TypeOK
  <1>3. TypeOK'
    BY <1>2 DEF TypeOK
  <1>4. TenantInv'
    BY DEF TenantInv, OneSideWhole, Whole, Punctual, Mixed, Target, Closed
  <1>5. SnapshotInv'
    <2>1. (\A r \in snap : RowKind(r) = kind)'
      BY DEF RowKind
    <2>3. (\A s \in passed : Closed(s, kind))'
      <3> SUFFICES ASSUME NEW s \in passed' PROVE Closed(s, kind)
        BY DEF Closed
      <3>1. GateOpen(s, kind, T)
        BY <1>1
      <3> QED BY <1>1, <1>2, <3>1, GateMeansClosed DEF TypeOK
    <2>4. (\A s \in todo : Counted(s) # {})'
      BY DEF Counted, Group, RowKind, TypeOK
    <2>5. (\A s \in todo : Counted(s) \subseteq held)'
      BY <1>2 DEF Counted
    <2>2. \A r \in held' : RowKind(r) = kind' => r \in snap'
      BY DEF RowKind
    <2>6. (\A s \in terminal : phase[s] # "running")' /\ (verified \subseteq passed)'
      BY DEF ProgressInv
    <2> QED BY <2>1, <2>2, <2>3, <2>4, <2>5, <2>6 DEF SnapshotInv
  <1>6. VerifiedIsComplete' /\ ProgressInv'
    BY DEF VerifiedIsComplete, Whole, Punctual, Mixed, Target, ProgressInv, Counted, Members
  <1> QED BY <1>3, <1>4, <1>5, <1>6

(* Leaving a scan out of the rest of the loop. *)
LEMMA SkipInv ==
    ASSUME IInv, NEW s \in Scans, SkipScan(s) \/ Mismatch(s) PROVE IInv'
  <1> USE DEF IInv, SkipScan, Mismatch, IsNext, host, tenant, bounds
  <1>1. TypeOK'
    BY DEF TypeOK
  <1>2. TenantInv'
    BY DEF TenantInv, OneSideWhole, Whole, Punctual, Mixed, Target, Closed
  <1>3. SnapshotInv'
    BY DEF SnapshotInv, Counted, Members, Closed, Target
  <1>4. VerifiedIsComplete' /\ ProgressInv'
    BY DEF VerifiedIsComplete, Whole, Punctual, Mixed, Target, ProgressInv, Counted, Members
  <1> QED BY <1>1, <1>2, <1>3, <1>4

(* A gated scan whose target counts no fewer rows than its sources is whole *)
(* in the target: PATH A and PATH A2.                                       *)
LEMMA CountedIsComplete ==
    ASSUME IInv, NEW s \in todo \cap passed,
           Cardinality(Target(kind, s)) >= Cardinality(Counted(s))
    PROVE  Whole(kind, s)
  <1> USE DEF IInv
  <1>1. s \in Scans /\ kind \in Kinds
    BY DEF TypeOK
  <1> SUFFICES ASSUME ~Mixed(kind, s), Punctual(kind, s) \subseteq held
               PROVE  Punctual(kind, s) \subseteq merged
    BY <1>1 DEF TenantInv, OneSideWhole, Whole
  <1>2. Punctual(kind, s) \subseteq Counted(s)
    <2> SUFFICES ASSUME NEW r \in Punctual(kind, s), r \notin snap PROVE FALSE
      BY DEF Counted, Punctual
    <2>1. r \in held \ (snap \cup late) /\ RowKind(r) = kind /\ ScanOf[r] = s
      BY DEF Punctual, Group
    <2>2. snap # {}
      BY DEF SnapshotInv, Counted
    <2> QED BY <2>1, <2>2 DEF SnapshotInv
  <1>3. Target(kind, s) \subseteq Punctual(kind, s)
    BY DEF TenantInv, Target, Mixed, Punctual
  <1>4. IsFiniteSet(Counted(s))
    BY ConstantsAssumption, FS_Subset DEF Counted, TypeOK
  <1>5. Target(kind, s) = Counted(s)
    BY <1>2, <1>3, <1>4, CardinalityComplete
  <1> QED BY <1>2, <1>5 DEF Target

LEMMA AlreadyMergedInv ==
    ASSUME IInv, NEW s \in Scans, AlreadyMerged(s) PROVE IInv'
  <1> USE DEF IInv, AlreadyMerged, IsNext, Refused, host, tenant, bounds
  <1>1. Sources(s) \subseteq Shards
    BY ConstantsAssumption DEF Sources, Counted, TypeOK
  <1>2. TypeOK'
    BY <1>1 DEF TypeOK, Verify
  <1>3. TenantInv'
    BY DEF TenantInv, OneSideWhole, Whole, Punctual, Mixed, Target, Closed
  <1>4. SnapshotInv'
    BY DEF SnapshotInv, Counted, Members, Closed, Target, Verify
  <1>5. Whole(kind, s)
    BY CountedIsComplete
  <1>6. VerifiedIsComplete'
    BY <1>5 DEF VerifiedIsComplete, Verify, Whole, Punctual, Mixed, Target
  <1>7. ProgressInv'
    BY DEF ProgressInv, SnapshotInv, Counted, Members, Verify
  <1> QED BY <1>2, <1>3, <1>4, <1>6, <1>7

-----------------------------------------------------------------------------
(* The write path. *)
LEMMA StartWriteInv ==
    ASSUME IInv, NEW s \in Scans, StartWrite(s) PROVE IInv'
  <1> USE DEF IInv, StartWrite, IsNext, Refused, host, tenant, bounds
  <1>1. Sources(s) \subseteq Shards
    BY ConstantsAssumption DEF Sources, Counted, TypeOK
  <1>2. TypeOK'
    BY <1>1 DEF TypeOK
  <1>3. TenantInv'
    BY DEF TenantInv, OneSideWhole, Whole, Punctual, Mixed, Target, Closed
  <1>4. SnapshotInv'
    BY DEF SnapshotInv, Counted, Members, Closed, Target
  <1>5. VerifiedIsComplete'
    BY DEF VerifiedIsComplete, Whole, Punctual, Mixed, Target
  <1>6. Counted(s) # {} /\ Counted(s) \subseteq held /\ snap # {} /\ s \in passed
    BY DEF SnapshotInv, Counted
  <1>7. Punctual(kind, s) \subseteq Counted(s)
    <2>1. Punctual(kind, s) \subseteq held
      BY DEF TenantInv, OneSideWhole, Whole, Mixed, Punctual, Target, TypeOK
    <2>2. ASSUME NEW r \in Punctual(kind, s) PROVE r \in snap
      <3>1. r \in held \ late /\ RowKind(r) = kind /\ ScanOf[r] = s
        BY <2>1 DEF Punctual, Group
      <3> QED BY <1>6, <3>1 DEF SnapshotInv
    <2> QED BY <2>2 DEF Counted, Punctual
  <1>8. ProgressInv'
    BY <1>6, <1>7 DEF ProgressInv, Counted, Members, Punctual, Target, TypeOK
  <1> QED BY <1>2, <1>3, <1>4, <1>5, <1>8

(* What is pulled was counted, or came since and is late. *)
LEMMA PullInv ==
    ASSUME IInv, NEW d \in Shards, Pull(d) PROVE IInv'
  <1> USE DEF IInv, Pull, host, tenant, bounds
  <1>1. pending' \subseteq held \cap Group(kind, cur)
    BY DEF ShardRows
  <1>2. TypeOK'
    BY <1>1 DEF TypeOK
  <1>3. TenantInv'
    BY DEF TenantInv, OneSideWhole, Whole, Punctual, Mixed, Target, Closed
  <1>4. SnapshotInv'
    BY DEF SnapshotInv, Counted, Members, Closed, Target
  <1>5. VerifiedIsComplete'
    BY DEF VerifiedIsComplete, Whole, Punctual, Mixed, Target
  <1>6. pending' \subseteq Counted(cur) \cup late
    <2> SUFFICES ASSUME NEW r \in pending', r \notin late PROVE r \in Counted(cur)
      OBVIOUS
    <2>1. r \in held /\ RowKind(r) = kind /\ ScanOf[r] = cur /\ r \in Group(kind, cur)
      BY <1>1 DEF Group
    <2>2. cur \in passed /\ snap # {}
      BY DEF ProgressInv, Counted
    <2> QED BY <2>1, <2>2 DEF SnapshotInv, Counted
  <1>7. ProgressInv'
    BY <1>1, <1>6 DEF ProgressInv, Counted, Members, Punctual, Target
  <1> QED BY <1>2, <1>3, <1>4, <1>5, <1>7

LEMMA WholeStays ==
    ASSUME merged \subseteq merged', UNCHANGED <<sent, late, overrun>>,
           NEW s, NEW k, Whole(k, s)
    PROVE  Whole(k, s)'
  BY DEF Whole, Punctual, Mixed, Target

(* A batch goes to the target of a closed group, which loses nothing by it. *)
LEMMA AddBatchInv ==
    ASSUME IInv, AddBatch PROVE IInv'
  <1> USE DEF IInv, AddBatch, host, bounds
  <1>1. PICK batch \in SUBSET pending :
           /\ merged' = merged \cup (batch \ Skippable)
           /\ pending' = pending \ batch
    OBVIOUS
  <1>2. cur \in passed /\ pending \subseteq held \cap Group(kind, cur)
    BY DEF ProgressInv
  <1>3. TypeOK'
    BY <1>1 DEF TypeOK
  <1>4. TenantInv'
    <2>1. (held \subseteq sent /\ merged \subseteq sent)'
      BY <1>1, <1>2 DEF TenantInv
    <2>5. (overrun \cap merged \subseteq late)'
      BY <1>1 DEF TenantInv, ProgressInv
    <2>2. OneSideWhole'
      BY <1>1, WholeStays DEF TenantInv, OneSideWhole, Punctual
    <2>3. (\A r \in sent \cap TerminalRows : phase[ScanOf[r]] # "running")'
      BY DEF TenantInv
    <2>4. ASSUME NEW s \in Scans, NEW k \in Kinds, Target(k, s)' # {}
          PROVE  Closed(s, k)'
      <3>1. Closed(s, k)' = Closed(s, k)
        BY DEF Closed
      <3>2. CASE Target(k, s) # {}
        BY <3>1, <3>2 DEF TenantInv
      <3>3. CASE Target(k, s) = {}
        <4>1. PICK r \in batch : r \in Group(k, s)
          BY <1>1, <2>4, <3>3 DEF Target
        <4>2. k = kind /\ s = cur
          BY <1>2, <4>1 DEF Group
        <4> QED BY <1>2, <3>1, <4>2 DEF SnapshotInv
      <3> QED BY <3>2, <3>3
    <2> QED BY <2>1, <2>2, <2>3, <2>4, <2>5 DEF TenantInv
  <1>5. SnapshotInv'
    <2>1. ASSUME NEW r \in held \ (snap \cup late), RowKind(r) = kind, snap # {}
          PROVE  ScanOf[r] \notin passed /\ Target(kind, ScanOf[r])' = {}
      <3>1. ScanOf[r] \notin passed /\ Target(kind, ScanOf[r]) = {}
        BY <2>1 DEF SnapshotInv
      <3> QED BY <1>1, <1>2, <3>1 DEF Target, Group
    <2> QED BY <2>1 DEF SnapshotInv, Counted, Closed
  <1>6. VerifiedIsComplete'
    BY <1>1, WholeStays DEF VerifiedIsComplete
  <1>7. ProgressInv'
    BY <1>1 DEF ProgressInv, Counted, Members, Punctual, Target
  <1> QED BY <1>3, <1>4, <1>5, <1>6, <1>7

(* An equal count proves the copy whole: a target without late rows holds   *)
(* only rows that were counted, among which are all that came in time.      *)
LEMMA EqualCountIsComplete ==
    ASSUME IInv, pc = "write", Cardinality(Target(kind, cur)) = Cardinality(Counted(cur))
    PROVE  Whole(kind, cur)
  <1> USE DEF IInv
  <1> SUFFICES ASSUME ~Mixed(kind, cur) PROVE Punctual(kind, cur) \subseteq merged
    BY DEF Whole
  <1>1. Punctual(kind, cur) \subseteq Counted(cur)
    BY DEF ProgressInv
  <1>2. Target(kind, cur) \subseteq Counted(cur)
    BY DEF ProgressInv, Mixed
  <1>3. IsFiniteSet(Counted(cur))
    BY ConstantsAssumption, FS_Subset DEF Counted, TypeOK
  <1>4. Cardinality(Target(kind, cur)) >= Cardinality(Counted(cur))
    BY <1>2, <1>3, FS_Subset, FS_CardinalityType
  <1>5. Target(kind, cur) = Counted(cur)
    BY <1>2, <1>3, <1>4, CardinalityComplete
  <1> QED BY <1>1, <1>5 DEF Target

LEMMA CountTargetInv ==
    ASSUME IInv, CountTarget PROVE IInv'
  <1> USE DEF IInv, CountTarget, host, tenant, bounds
  <1>1. Sources(cur) \subseteq Shards
    BY ConstantsAssumption DEF Sources, Counted, TypeOK
  <1>2. TypeOK'
    BY <1>1 DEF TypeOK, Verify
  <1>3. TenantInv'
    BY DEF TenantInv, OneSideWhole, Whole, Punctual, Mixed, Target, Closed
  <1>4. SnapshotInv'
    BY DEF SnapshotInv, ProgressInv, Counted, Members, Closed, Target, Verify
  <1>5. VerifiedIsComplete'
    BY EqualCountIsComplete DEF VerifiedIsComplete, Verify, Whole, Punctual, Mixed, Target
  <1>6. ProgressInv'
    BY DEF ProgressInv, Counted, Members, Verify
  <1> QED BY <1>2, <1>3, <1>4, <1>5, <1>6

-----------------------------------------------------------------------------
(* The steps that destroy rows. *)

(* Rows of verified groups may go, their other side is whole; and so may, in *)
(* the sense of NoRowLost, what is overrun.                                  *)
LEMMA DroppedIsWhole ==
    ASSUME IInv, held' \subseteq held, overrun \subseteq overrun', UNCHANGED <<sent, late, merged>>,
           \A r \in held \ held' : r \in overrun' \/ (RowKind(r) = kind /\ ScanOf[r] \in verified)
    PROVE  OneSideWhole' /\ \A s, k : Whole(k, s) => Whole(k, s)'
  <1>1. ASSUME NEW s, NEW k
        PROVE  /\ Punctual(k, s)' \subseteq Punctual(k, s)
               /\ Whole(k, s) => Whole(k, s)'
    BY DEF Whole, Punctual, Mixed, Target
  <1>2. ASSUME NEW s \in Scans, NEW k \in Kinds, ~Whole(k, s)
        PROVE  Punctual(k, s)' \subseteq held'
    <2>1. Punctual(k, s) \subseteq held
      BY <1>2 DEF IInv, TenantInv, OneSideWhole
    <2>2. ~(k = kind /\ s \in verified)
      BY <1>2 DEF IInv, VerifiedIsComplete
    <2> QED BY <1>1, <2>1, <2>2 DEF Group, Punctual
  <1> QED BY <1>1, <1>2 DEF OneSideWhole

LEMMA StripSourceInv ==
    ASSUME IInv, NEW d \in Shards, StripSource(d) PROVE IInv'
  <1> USE DEF IInv, StripSource, host
  <1>1. held' \subseteq held /\ \A r \in held \ held' : r \in Group(kind, cur)
    BY DEF ShardRows
  <1>2. cur \in verified /\ cur \notin todo
    BY DEF ProgressInv
  <1>3. TypeOK'
    BY <1>1, ConstantsAssumption DEF TypeOK
  <1>0. OneSideWhole' /\ \A s, k : Whole(k, s) => Whole(k, s)'
    BY <1>1, <1>2, DroppedIsWhole DEF Group
  <1>4. TenantInv'
    BY <1>1, <1>0 DEF TenantInv, Target, Closed
  <1>5. SnapshotInv'
    <2>1. (\A s \in todo : Counted(s) \subseteq held)'
      BY <1>1, <1>2 DEF SnapshotInv, Counted, Group
    <2> QED BY <1>1, <2>1 DEF SnapshotInv, Counted, Closed, Target
  <1>6. VerifiedIsComplete'
    BY <1>0 DEF VerifiedIsComplete
  <1>7. ProgressInv'
    BY DEF ProgressInv, Counted, Members, Target, Punctual
  <1> QED BY <1>3, <1>4, <1>5, <1>6, <1>7

LEMMA CleanupDoneInv ==
    ASSUME IInv, CleanupDone PROVE IInv'
  <1> USE DEF IInv, CleanupDone, host, tenant, bounds
  <1>1. TypeOK'
    BY DEF TypeOK
  <1>2. TenantInv'
    BY DEF TenantInv, OneSideWhole, Whole, Punctual, Mixed, Target, Closed
  <1>3. SnapshotInv'
    BY DEF SnapshotInv, Counted, Members, Closed, Target
  <1>4. VerifiedIsComplete' /\ ProgressInv'
    BY DEF VerifiedIsComplete, Whole, Punctual, Mixed, Target, ProgressInv, Counted, Members
  <1> QED BY <1>1, <1>2, <1>3, <1>4

LEMMA StartDeleteInv ==
    ASSUME IInv, StartDelete PROVE IInv'
  <1> USE DEF IInv, StartDelete, host, tenant, bounds
  <1>1. TypeOK'
    BY DEF TypeOK
  <1>2. TenantInv'
    BY DEF TenantInv, OneSideWhole, Whole, Punctual, Mixed, Target, Closed
  <1>3. SnapshotInv'
    BY DEF SnapshotInv, Counted, Members, Closed, Target
  <1>4. VerifiedIsComplete' /\ ProgressInv'
    BY DEF VerifiedIsComplete, Whole, Punctual, Mixed, Target, ProgressInv, Counted, Members
  <1> QED BY <1>1, <1>2, <1>3, <1>4

(* What a deleted shard held when it was counted belongs to verified scans. *)
LEMMA DeletedIsVerified ==
    ASSUME IInv, NEW d \in toDelete, NEW r \in ShardRows(d), r \in snap
    PROVE  RowKind(r) = kind /\ ScanOf[r] \in verified
  <1>1. Members(d) \subseteq verified
    BY DEF IInv, ProgressInv
  <1> QED BY <1>1 DEF IInv, SnapshotInv, ShardRows, Members

(* What came since and is not late was never copied. *)
LEMMA OverrunIsUncopied ==
    ASSUME IInv, NEW d \in toDelete, NEW r \in ShardRows(d) \ snap, r \notin late
    PROVE  r \notin merged
  <1>1. PICK q \in snap : ShardOf[q] = d
    BY DEF IInv, ProgressInv, Members
  <1>2. r \in held /\ ShardOf[r] = d /\ r \in Rows
    BY DEF IInv, TypeOK, ShardRows
  <1>3. RowKind(r) = kind
    BY <1>1, <1>2 DEF IInv, SnapshotInv, RowKind
  <1>4. Target(kind, ScanOf[r]) = {}
    BY <1>1, <1>2, <1>3 DEF IInv, SnapshotInv
  <1> QED BY <1>2, <1>3, <1>4 DEF Target, Group

LEMMA DeleteShardInv ==
    ASSUME IInv, NEW d \in Shards, DeleteShard(d) PROVE IInv'
  <1> USE DEF IInv, DeleteShard, host
  <1>1. /\ held' \subseteq held /\ overrun \subseteq overrun'
        /\ \A r \in held \ held' : r \in ShardRows(d) /\ (r \in snap \/ r \in overrun')
        /\ overrun' \subseteq overrun \cup (ShardRows(d) \ snap)
    OBVIOUS
  <1>2. \A r \in held \ held' : r \in overrun' \/ (RowKind(r) = kind /\ ScanOf[r] \in verified)
    BY <1>1, DeletedIsVerified
  <1>3. todo = {} /\ pc # "write"
    BY DEF ProgressInv
  <1>4. TypeOK'
    BY <1>1, ConstantsAssumption DEF TypeOK, ShardRows
  <1>0. OneSideWhole' /\ \A s, k : Whole(k, s) => Whole(k, s)'
    BY <1>1, <1>2, DroppedIsWhole
  <1>5. TenantInv'
    <2>1. (overrun \subseteq sent \ held /\ overrun \cap merged \subseteq late)'
      BY <1>1, OverrunIsUncopied DEF TenantInv, ShardRows
    <2> QED BY <1>1, <1>0, <2>1 DEF TenantInv, Target, Closed
  <1>6. SnapshotInv'
    BY <1>1, <1>3 DEF SnapshotInv, Counted, Closed, Target
  <1>7. VerifiedIsComplete'
    BY <1>0 DEF VerifiedIsComplete
  <1>8. ProgressInv'
    BY <1>3 DEF ProgressInv, Members
  <1> QED BY <1>4, <1>5, <1>6, <1>7, <1>8

-----------------------------------------------------------------------------
(* The ends of a run: finished, raised or killed. *)
LEMMA ForgetRunInv ==
    ASSUME IInv, EndKind \/ RunRaises \/ Abort PROVE IInv'
  <1> USE DEF IInv, EndKind, RunRaises, Abort, ForgetRun, host, tenant
  <1>1. pc' \in {"idle", "snapshot"} /\ kind' \in Kinds /\ wanted' \subseteq Scans
    BY DEF NextKind, Kinds, TypeOK
  <1>2. aborts' \in 0..MaxAborts /\ failures' = failures
    BY ConstantsAssumption DEF TypeOK, bounds
  <1>3. TypeOK'
    BY <1>1, <1>2, ConstantsAssumption DEF TypeOK, AnyScan
  <1>4. TenantInv'
    BY DEF TenantInv, OneSideWhole, Whole, Punctual, Mixed, Target, Closed
  <1>5. SnapshotInv'
    BY DEF SnapshotInv
  <1>6. VerifiedIsComplete' /\ ProgressInv'
    BY <1>1 DEF VerifiedIsComplete, ProgressInv
  <1> QED BY <1>3, <1>4, <1>5, <1>6

LEMMA StutterInv ==
    ASSUME IInv, UNCHANGED vars PROVE IInv'
  <1> USE DEF IInv, vars, host, tenant, local, bounds
  <1>1. TypeOK'
    BY DEF TypeOK
  <1>2. TenantInv'
    BY DEF TenantInv, OneSideWhole, Whole, Punctual, Mixed, Target, Closed
  <1>3. SnapshotInv'
    BY DEF SnapshotInv, Counted, Members, Closed, Target
  <1>4. VerifiedIsComplete' /\ ProgressInv'
    BY DEF VerifiedIsComplete, Whole, Punctual, Mixed, Target, ProgressInv, Counted, Members
  <1> QED BY <1>1, <1>2, <1>3, <1>4

LEMMA NextInv ==
    ASSUME IInv, [Next]_vars PROVE IInv'
  <1>1. CASE HostStep
    BY <1>1, HostWriteInv, DrainEndsInv, AgeInv DEF HostStep
  <1>2. CASE PassStep
    <2>1. CASE \E s \in Scans : ScanStep(s)
      BY <2>1, SkipInv, AlreadyMergedInv, StartWriteInv DEF ScanStep
    <2>2. CASE \E d \in Shards : Pull(d) \/ StripSource(d) \/ DeleteShard(d)
      BY <2>2, PullInv, StripSourceInv, DeleteShardInv
    <2>3. CASE StartPass \/ ReadLifecycle \/ Snapshot \/ AddBatch \/ CountTarget
      BY <2>3, StartPassInv, ReadLifecycleInv, SnapshotStepInv, AddBatchInv, CountTargetInv
    <2>4. CASE CleanupDone \/ StartDelete \/ EndKind
      BY <2>4, CleanupDoneInv, StartDeleteInv, ForgetRunInv
    <2> QED BY <1>2, <2>1, <2>2, <2>3, <2>4 DEF PassStep
  <1>3. CASE RunRaises \/ Abort
    BY <1>3, ForgetRunInv
  <1>4. CASE UNCHANGED vars
    BY <1>4, StutterInv
  <1> QED BY <1>1, <1>2, <1>3, <1>4 DEF Next

-----------------------------------------------------------------------------
(* The theorems. *)

(* In every state the pass can reach, from any set of scans, shards and rows *)
(* and with any number of aborts, failures and skipped rows, IInv holds.     *)
THEOREM Inductive == Spec => []IInv
  <1>1. Init => IInv
    BY InitInv
  <1>2. IInv /\ [Next]_vars => IInv'
    BY NextInv
  <1> QED BY <1>1, <1>2, PTL DEF Spec

(* Every variable keeps its type; the code's bounds on ages and failures hold. *)
THEOREM TypeCorrect == Spec => []TypeOK
  <1>1. IInv => TypeOK
    BY DEF IInv
  <1> QED BY <1>1, Inductive, PTL

(* No row the tenant accepted is lost by a pass (run_consolidation with its *)
(* cleanup and deletion), killed or not, but what came too late to count.   *)
THEOREM NothingLost == Spec => []NoRowLost
  <1>1. IInv => NoRowLost
    BY DEF IInv, TenantInv, OneSideWhole, Whole, NoRowLost
  <1> QED BY <1>1, Inductive, PTL

(* Counting is enough: whatever add_data skipped and whatever an earlier    *)
(* pass left in the target, a scan called verified is in its target whole.  *)
THEOREM VerifiedComplete == Spec => []VerifiedIsComplete
  <1>1. IInv => VerifiedIsComplete
    BY DEF IInv
  <1> QED BY <1>1, Inductive, PTL

(* What steps do to the tenant's rows: they count, copy rows of gated scans, *)
(* strip rows of verified scans, or delete a shard they have counted.        *)
Counts == snap' \in {{}, {r \in held : RowKind(r) = kind}} /\ UNCHANGED <<tenant, sent, late>>

Copies ==
    /\ merged \subseteq merged' /\ merged' \ merged \subseteq held
    /\ \A r \in merged' \ merged : RowKind(r) = kind /\ ScanOf[r] \in passed
    /\ UNCHANGED <<sent, late, held, snap, overrun>>

Strips ==
    /\ held' \subseteq held
    /\ \A r \in held \ held' : RowKind(r) = kind /\ ScanOf[r] \in verified
    /\ UNCHANGED <<sent, late, merged, snap, overrun>>

Deletes(d) ==
    /\ d \in toDelete /\ held' = held \ ShardRows(d)
    /\ overrun' = overrun \cup (ShardRows(d) \ snap)
    /\ UNCHANGED <<sent, late, merged, snap>>

LEMMA TenantSteps ==
    ASSUME IInv, [Next]_vars
    PROVE  \/ \E r \in Rows : HostWrite(r)
           \/ Counts \/ Copies \/ Strips \/ \E d \in Shards : Deletes(d)
           \/ UNCHANGED <<tenant, snap, sent, late>>
  <1>1. CASE HostStep
    BY <1>1 DEF HostStep, Age, DrainEnds, local
  <1>2. CASE AddBatch
    <2>1. cur \in passed /\ pending \subseteq held \cap Group(kind, cur)
      BY <1>2 DEF IInv, ProgressInv, AddBatch
    <2> QED BY <1>2, <2>1 DEF AddBatch, Group, Copies, host
  <1>3. ASSUME NEW d \in Shards, StripSource(d) PROVE Strips
    <2>1. cur \in verified
      BY <1>3 DEF IInv, ProgressInv, StripSource
    <2> QED BY <1>3, <2>1 DEF StripSource, Group, Strips, host
  <1>4. ASSUME NEW d \in Shards, DeleteShard(d) PROVE Deletes(d) \/ UNCHANGED <<tenant, snap, sent, late>>
    BY <1>4 DEF DeleteShard, Deletes, host, tenant
  <1>5. CASE PassStep
    <2>1. CASE \E s \in Scans : ScanStep(s)
      BY <2>1 DEF ScanStep, SkipScan, AlreadyMerged, Mismatch, StartWrite, host
    <2>2. CASE \E d \in Shards : Pull(d)
      BY <2>2 DEF Pull, host
    <2>3. CASE StartPass \/ ReadLifecycle \/ CountTarget \/ CleanupDone \/ StartDelete
      BY <2>3 DEF StartPass, ReadLifecycle, CountTarget, CleanupDone, StartDelete, host
    <2>4. CASE Snapshot \/ EndKind
      BY <2>4 DEF Snapshot, Decide, EndKind, ForgetRun, Counts, host
    <2> QED BY <1>2, <1>3, <1>4, <1>5, <2>1, <2>2, <2>3, <2>4 DEF PassStep
  <1>6. CASE RunRaises \/ Abort
    BY <1>6 DEF RunRaises, Abort, ForgetRun, Counts, host
  <1>7. CASE UNCHANGED vars
    BY <1>7 DEF vars, host, local
  <1> QED BY <1>1, <1>5, <1>6, <1>7 DEF Next

(* A scan that has not ended and is not abandoned is never copied, and of its *)
(* rows only those are removed that no count of the pass saw.                 *)
THEOREM RunningProtected == Spec => RunningScanUntouched
  <1>1. ASSUME IInv, [Next]_vars, NEW s \in Scans, NEW k \in Kinds,
               phase[s] = "running", silence[s][k] < Abandoned
        PROVE  /\ Group(k, s) \cap merged' \subseteq merged
               /\ Group(k, s) \cap (held \ held') \subseteq overrun' \ snap
    <2>1. ~Closed(s, k)
      BY <1>1 DEF Closed, Abandoned, IInv, TypeOK, Fresh, Quiet
    <2>2. ~(k = kind /\ (s \in passed \/ s \in verified))
      BY <1>1, <2>1 DEF IInv, SnapshotInv
    <2>3. CASE \E r \in Rows : HostWrite(r)
      BY <2>3 DEF HostWrite
    <2>4. CASE Copies
      BY <2>2, <2>4 DEF Copies, Group
    <2>5. CASE Strips
      BY <2>2, <2>5 DEF Strips, Group
    <2>6. ASSUME NEW d \in Shards, Deletes(d)
          PROVE  Group(k, s) \cap (held \ held') \subseteq overrun' \ snap
      <3> SUFFICES ASSUME NEW r \in ShardRows(d), r \in snap, r \in Group(k, s) PROVE FALSE
        BY <2>6 DEF Deletes
      <3> QED BY <1>1, <2>2, <2>6, DeletedIsVerified DEF Deletes, Group
    <2>7. CASE Counts \/ UNCHANGED <<tenant, snap, sent, late>>
      BY <2>7 DEF Counts, tenant
    <2> QED BY <1>1, <2>3, <2>4, <2>5, <2>6, <2>7, TenantSteps DEF Deletes
  <1>2. IInv /\ [Next]_vars =>
          [\A s \in Scans, k \in Kinds :
             (phase[s] = "running" /\ silence[s][k] < Abandoned) =>
                /\ Group(k, s) \cap merged' \subseteq merged
                /\ Group(k, s) \cap (held \ held') \subseteq overrun' \ snap]_vars
    BY <1>1
  <1> QED BY <1>2, Inductive, PTL DEF Spec, RunningScanUntouched

(* A group once closed stays closed. *)
LEMMA ClosedStays ==
    ASSUME IInv, [Next]_vars, NEW s \in Scans, NEW k \in Kinds, Closed(s, k)
    PROVE  Closed(s, k)'
  <1>1. ASSUME NEW r \in Rows, HostWrite(r) PROVE Closed(s, k)'
    BY <1>1, HostWriteKeepsClosed DEF IInv
  <1>2. CASE \E t \in Scans : DrainEnds(t)
    BY <1>2 DEF DrainEnds, Closed, IInv, TypeOK
  <1>3. CASE \E t \in Scans, j \in Kinds : Age(t, j)
    BY <1>3 DEF Age, Closed, IInv, TypeOK, Fresh, Quiet, Abandoned
  <1>4. CASE UNCHANGED host
    BY <1>4 DEF host, Closed
  <1>5. CASE PassStep
    <2>1. CASE \E t \in Scans : ScanStep(t)
      BY <1>4, <2>1 DEF ScanStep, SkipScan, AlreadyMerged, Mismatch, StartWrite
    <2>2. CASE \E d \in Shards : Pull(d) \/ StripSource(d) \/ DeleteShard(d)
      BY <1>4, <2>2 DEF Pull, StripSource, DeleteShard
    <2> QED BY <1>4, <1>5, <2>1, <2>2 DEF PassStep, StartPass, ReadLifecycle, Snapshot, AddBatch,
               CountTarget, CleanupDone, StartDelete, EndKind
  <1> QED BY <1>1, <1>2, <1>3, <1>4, <1>5 DEF Next, HostStep, RunRaises, Abort, vars

(* Each step of the pass and of the hosts is a step of the abstract store,  *)
(* or changes nothing a reader of the datasets sees.                        *)
THEOREM Implements == Spec => ImplementsStore
  <1> DEFINE G == [r \in Rows |-> <<RowKind(r), ScanOf[r]>>]
             Over == {g \in Kinds \X Scans : Closed(g[2], g[1])}
  <1>1. ASSUME Init PROVE Store!Init
    BY <1>1 DEF Init, Store!Init, Closed, Fresh, Abandoned
  <1>2. ASSUME IInv, [Next]_vars PROVE [Store!Next]_(Store!store)
    <2>0. /\ sent \subseteq Rows /\ late \subseteq Rows /\ held \subseteq Rows
          /\ merged \subseteq Rows /\ snap \subseteq Rows /\ merged' \subseteq Rows /\ kind \in Kinds
      BY <1>2, NextInv DEF IInv, TypeOK
    <2>1. \A r \in Rows : G[r] = <<RowKind(r), ScanOf[r]>> /\ G[r] \in Kinds \X Scans
      BY ConstantsAssumption DEF RowKind
    <2>2. \A s \in Scans, k \in Kinds : Closed(s, k) <=> <<k, s>> \in Over
      OBVIOUS
    <2>3. Over \subseteq Over' /\ Over' \subseteq Kinds \X Scans
      BY <1>2, ClosedStays
    <2>4. ASSUME NEW r \in Rows, RowKind(r) = kind, ScanOf[r] \in verified
          PROVE  Store!Whole(G[r])
      <3>1. Whole(kind, ScanOf[r])
        BY <1>2, <2>4 DEF IInv, VerifiedIsComplete
      <3>2. \A q \in Rows : q \in Group(kind, ScanOf[r]) <=> G[q] = G[r]
        BY <2>1, <2>4 DEF Group
      <3> QED BY <2>0, <3>1, <3>2 DEF Whole, Mixed, Punctual, Target, Store!Whole
    <2>5. CASE \E r \in Rows : HostWrite(r)
      <3>1. PICK r \in Rows : HostWrite(r)
        BY <2>5
      <3>2. Closed(ScanOf[r], RowKind(r)) <=> G[r] \in Over
        BY <2>1, <2>2, ConstantsAssumption DEF RowKind
      <3>3. Store!Arrive(r)
        BY <3>1, <3>2 DEF HostWrite, MayArrive, Store!Arrive, local
      <3> QED BY <2>3, <3>3 DEF Store!Next
    <2>6. CASE Counts
      <3> DEFINE D == IF snap' = {} THEN {} ELSE {d \in Shards : KindOf[d] = kind}
      <3>1. snap' = {r \in held : ShardOf[r] \in D}
        BY <2>0, <2>6, ConstantsAssumption DEF Counts, RowKind
      <3>2. Store!Count(D)
        BY <2>6, <3>1 DEF Counts, Store!Count, tenant
      <3>3. D \in SUBSET Shards
        OBVIOUS
      <3> QED BY <2>3, <3>2, <3>3 DEF Store!Next
    <2>7. CASE Copies
      <3>1. ASSUME NEW r \in merged' \ merged PROVE G[r] \in Over
        BY <1>2, <2>0, <2>1, <2>2, <2>7, <3>1 DEF Copies, IInv, SnapshotInv, TypeOK
      <3>2. Store!Copy(merged' \ merged)
        BY <2>7, <3>1 DEF Copies, Store!Copy
      <3> QED BY <2>0, <2>3, <3>2 DEF Store!Next
    <2>8. CASE Strips
      <3>1. Store!Strip(held \ held')
        BY <2>0, <2>4, <2>8 DEF Strips, Store!Strip
      <3> QED BY <2>0, <2>3, <3>1 DEF Store!Next
    <2>9. ASSUME NEW d \in Shards, Deletes(d) PROVE Store!Next
      <3>1. \E r \in snap : ShardOf[r] = d
        BY <1>2, <2>9 DEF Deletes, IInv, ProgressInv, Members
      <3>2. \A r \in ShardRows(d) \cap snap : Store!Whole(G[r])
        BY <1>2, <2>0, <2>4, <2>9, DeletedIsVerified DEF Deletes
      <3>3. Store!Delete(d)
        BY <2>9, <3>1, <3>2 DEF Deletes, Store!Delete, ShardRows
      <3> QED BY <2>3, <3>3 DEF Store!Next
    <2>10. CASE UNCHANGED <<tenant, snap, sent, late>>
      BY <2>3, <2>10 DEF Store!Next, tenant
    <2> QED BY <1>2, <2>5, <2>6, <2>7, <2>8, <2>9, <2>10, TenantSteps
  <1> QED BY <1>1, <1>2, Inductive, PTL DEF Spec, ImplementsStore, Store!Spec

-----------------------------------------------------------------------------
(***************************************************************************)
(* The overlap guard in the deployments it is sound in (SoundDeployment),  *)
(* for any number of runners, any windows longer than the task timeout and *)
(* any number of deaths where acquisitions do not overlap.                 *)
(***************************************************************************)
(* The initial state satisfies the inductive invariant. *)
LEMMA InitLock == LockInit => LockInv
<1> SUFFICES ASSUME LockInit PROVE LockInv
  OBVIOUS
<1> USE LockAssumption DEF LockAssumption, LockInit
<1>1. LockTypeOK
  <2>1. age \in [Runners -> 0..Horizon]
    OBVIOUS
  <2>2. deaths \in 0..MaxDeaths /\ lost \in 0..MaxLost
    OBVIOUS
  <2> QED
    BY <2>1, <2>2 DEF LockTypeOK, Steps, Acquiring
<1>2. OneOwner /\ OneAcquirer /\ OwnerInv /\ MarkerInv
  BY DEF OneOwner, OneAcquirer, OwnerInv, MarkerInv, Owning, Acquiring
<1> QED
  BY <1>1, <1>2 DEF LockInv

(* A row's age and a runner's age stay within the horizon, and what is one *)
(* timeout old or less is never capped.                                    *)
LEMMA OlderInRange ==
    ASSUME NEW n \in 0..Horizon
    PROVE  /\ Older(n) \in 0..Horizon
           /\ n < Horizon => Older(n) = n + 1
  BY LockAssumption DEF LockAssumption, Older

(* Nobody mistakes the marker of a living runner for a stale one: its row  *)
(* is as old as its writer, which is within the timeout, and every window  *)
(* is longer.                                                              *)
LEMMA LiveMarkerIsHeld ==
    ASSUME LockInv, NEW r \in Runners, NEW w \in Runners, where[w] = "work"
    PROVE  ~LooksStale(r)
<1>1. stamps = {age[w]} /\ age[w] <= TaskTimeout
  BY DEF LockInv, OwnerInv
<1>2. age[w] \in Nat /\ age[r] \in Nat
  BY LockAssumption DEF LockAssumption, LockInv, LockTypeOK
<1>3. TaskTimeout < StaleAfter[r] /\ StaleAfter[r] \in Nat /\ TaskTimeout \in Nat
  BY LockAssumption DEF LockAssumption
<1>4. Within(r, age[w])
  BY <1>1, <1>2, <1>3 DEF Within
<1> QED
  BY <1>1, <1>4 DEF LooksStale

(* Time passes. *)
LEMMA TickStep ==
    ASSUME SoundDeployment, LockInv, Tick
    PROVE  LockInv'
<1> USE LockAssumption DEF LockAssumption, LockInv
<1>1. \A r \in Runners : where[r] # "idle" => age[r] < TaskTimeout
  BY DEF Tick, Overdue, SoundDeployment, LockTypeOK
<1>2. LockTypeOK'
  <2>1. stamps' \subseteq 0..Horizon
    BY OlderInRange DEF LockTypeOK, Tick
  <2>2. age' \in [Runners -> 0..Horizon]
    BY OlderInRange DEF LockTypeOK, Tick
  <2> QED
    BY <2>1, <2>2 DEF LockTypeOK, Tick
<1>3. OneOwner' /\ OneAcquirer'
  BY DEF OneOwner, OneAcquirer, Tick
<1>4. OwnerInv'
  <2> SUFFICES ASSUME NEW r \in Runners
               PROVE  /\ where[r] # "release"
                      /\ where[r] = "recreate" => ~exists
                      /\ where[r] = "stamp" => exists /\ stamps' = {}
                      /\ where[r] = "work" => exists /\ stamps' = {age'[r]}
                      /\ where[r] # "idle" => age'[r] <= TaskTimeout
    BY DEF OwnerInv, Tick
  <2>1. where[r] # "idle" => age'[r] = Older(age[r]) /\ age'[r] = age[r] + 1
    <3>1. where[r] # "idle" => age[r] < Horizon
      BY <1>1 DEF LockTypeOK
    <3> QED
      BY <3>1, OlderInRange DEF LockTypeOK, Tick
  <2>2. where[r] # "idle" => age'[r] <= TaskTimeout
    BY <1>1, <2>1 DEF LockTypeOK
  <2>3. where[r] = "work" => stamps' = {age'[r]}
    BY <2>1 DEF OwnerInv, Tick
  <2> QED
    BY <2>2, <2>3 DEF OwnerInv, Tick
<1>5. MarkerInv'
  BY DEF MarkerInv, Tick
<1> QED
  BY <1>2, <1>3, <1>4, <1>5

(* A runner asks for the lock, is refused it, or dies: it owns nothing      *)
(* before or nothing after, and the marker is as it was.                   *)
LEMMA AskStep ==
    ASSUME SoundDeployment, LockInv, NEW r \in Runners, Ask(r)
    PROVE  LockInv'
<1> USE LockAssumption DEF LockAssumption, LockInv, Ask, Goto, marker
<1>1. LockTypeOK'
  BY DEF LockTypeOK, Steps, Acquiring
<1>2. OneOwner'
  BY DEF OneOwner, Owning, LockTypeOK
<1>3. OneAcquirer'
  BY DEF OneAcquirer, Acquiring, LockTypeOK
<1>4. OwnerInv'
  BY DEF OwnerInv, LockTypeOK
<1>5. MarkerInv'
  BY DEF MarkerInv, LockTypeOK
<1> QED
  BY <1>1, <1>2, <1>3, <1>4, <1>5

LEMMA GiveUpStep ==
    ASSUME SoundDeployment, LockInv, NEW r \in Runners,
           StandDown(r) \/ ReadRaises(r) \/ StampRaises(r) \/ Die(r)
    PROVE  LockInv'
<1> USE LockAssumption DEF LockAssumption, LockInv, StandDown, ReadRaises, StampRaises, Die, Goto, marker
<1>1. /\ where' = [where EXCEPT ![r] = "idle"]
      /\ UNCHANGED <<exists, stamps, age, lost, alone>>
  OBVIOUS
<1>2. LockTypeOK'
  <2>1. deaths' \in 0..MaxDeaths
    BY DEF LockTypeOK
  <2>2. where' \in [Runners -> Steps]
    BY <1>1 DEF LockTypeOK, Steps
  <2> QED
    BY <1>1, <2>1, <2>2 DEF LockTypeOK
<1>3. OneOwner' /\ OneAcquirer'
  BY <1>1 DEF OneOwner, OneAcquirer, Owning, Acquiring, LockTypeOK
<1>4. OwnerInv'
  BY <1>1 DEF OwnerInv, LockTypeOK
<1>5. MarkerInv'
  <2>1. CASE alone
    BY <1>1, <2>1 DEF MarkerInv
  <2>2. CASE ~alone
    <3>1. where[r] \notin {"stamp", "work"}
      BY <2>2 DEF SoundDeployment, OwnerInv, LockTypeOK
    <3> QED
      BY <1>1, <3>1 DEF MarkerInv, LockTypeOK
  <2> QED
    BY <2>1, <2>2
<1> QED
  BY <1>2, <1>3, <1>4, <1>5

(* Create: a fresh marker makes its creator the owner; nobody owned one     *)
(* that was not there, because a living owner keeps its marker.            *)
LEMMA CreateStep ==
    ASSUME SoundDeployment, LockInv, NEW r \in Runners,
           CreateFresh(r) \/ CreateFinds(r)
    PROVE  LockInv'
<1> USE LockAssumption DEF LockAssumption, LockInv, Goto, marker
<1>1. CASE CreateFinds(r)
  <2> USE <1>1 DEF CreateFinds
  <2>1. LockTypeOK'
    BY DEF LockTypeOK, Steps, Acquiring
  <2>2. OneOwner' /\ OneAcquirer'
    BY DEF OneOwner, OneAcquirer, Owning, Acquiring, LockTypeOK
  <2>3. OwnerInv'
    BY DEF OwnerInv, LockTypeOK
  <2>4. MarkerInv'
    BY DEF MarkerInv, LockTypeOK
  <2> QED
    BY <2>1, <2>2, <2>3, <2>4
<1>2. CASE CreateFresh(r)
  <2> USE <1>2 DEF CreateFresh
  <2>1. \A s \in Runners : where[s] \notin Owning
    <3> SUFFICES ASSUME NEW s \in Runners, where[s] \in {"takeover", "recreate"}
                 PROVE  FALSE
      BY DEF Owning, OwnerInv
    <3>1. alone
      BY DEF MarkerInv
    <3> QED
      BY <3>1 DEF OneAcquirer, Acquiring
  <2>2. LockTypeOK'
    BY DEF LockTypeOK, Steps, Acquiring
  <2>3. OneOwner' /\ OneAcquirer'
    BY <2>1 DEF OneOwner, OneAcquirer, Owning, Acquiring, LockTypeOK
  <2>4. OwnerInv'
    BY <2>1 DEF OwnerInv, MarkerInv, Owning, LockTypeOK
  <2>5. MarkerInv'
    BY DEF MarkerInv, LockTypeOK
  <2> QED
    BY <2>2, <2>3, <2>4, <2>5
<1> QED
  BY <1>1, <1>2

(* Taking over: only where acquisitions do not overlap, and only when no    *)
(* runner works (LiveMarkerIsHeld).                                        *)
LEMMA TakeOverStep ==
    ASSUME SoundDeployment, LockInv, NEW r \in Runners, TakeOver(r)
    PROVE  LockInv'
<1> USE LockAssumption DEF LockAssumption, LockInv, Goto, marker, TakeOver
<1>1. \A s \in Runners : where[s] # "work"
  BY LiveMarkerIsHeld
<1>2. alone
  <2> SUFFICES ASSUME ~alone PROVE FALSE
    OBVIOUS
  <2>1. PICK w \in Runners : where[w] \in {"stamp", "work"}
    BY DEF MarkerInv
  <2>2. stamps = {} /\ Careful = Runners
    BY <1>1, <2>1 DEF OwnerInv, SoundDeployment
  <2> QED
    BY <2>2 DEF LooksStale, UnreadableIsFree
<1>3. \A s \in Runners : where[s] \notin Owning
  BY <1>1, <1>2 DEF OneAcquirer, Acquiring, Owning
<1>4. LockTypeOK'
  BY DEF LockTypeOK, Steps, Acquiring
<1>5. OneOwner' /\ OneAcquirer'
  BY <1>3 DEF OneOwner, OneAcquirer, Owning, Acquiring, LockTypeOK
<1>6. OwnerInv'
  BY DEF OwnerInv, LockTypeOK
<1>7. MarkerInv'
  BY <1>2 DEF MarkerInv, LockTypeOK
<1> QED
  BY <1>4, <1>5, <1>6, <1>7

(* The owner deletes and recreates the marker, and writes its row. *)
LEMMA OwnerStep ==
    ASSUME SoundDeployment, LockInv, NEW r \in Runners,
           DeleteStale(r) \/ Recreate(r) \/ Stamp(r)
    PROVE  LockInv'
<1> USE LockAssumption DEF LockAssumption, LockInv, Goto, marker
<1>1. \A s \in Runners : s # r => where[s] \notin Owning
  BY DEF OneOwner, Owning, DeleteStale, Recreate, Stamp
<1>2. PICK next \in {"recreate", "stamp", "work"} :
         /\ where' = [where EXCEPT ![r] = next]
         /\ next # "work" => where[r] \in {"takeover", "recreate"}
         /\ next = "recreate" => ~exists' /\ stamps' = {}
         /\ next = "stamp" => exists' /\ stamps' = {}
         /\ next = "work" => exists' /\ stamps' = {age[r]} /\ where[r] = "stamp"
         /\ UNCHANGED <<age, deaths, lost, alone>> /\ exists' \in BOOLEAN
  <2>1. CASE DeleteStale(r)
    <3>1. lost' = lost /\ where' = [where EXCEPT ![r] = "recreate"]
      BY <2>1 DEF DeleteStale, Delete, SoundDeployment, LockTypeOK
    <3> QED
      BY <2>1, <3>1 DEF DeleteStale, Delete
  <2>2. CASE Recreate(r)
    BY <2>2 DEF Recreate, OwnerInv, MarkerInv
  <2>3. CASE Stamp(r)
    BY <2>3 DEF Stamp, OwnerInv
  <2> QED
    BY <2>1, <2>2, <2>3
<1>3. LockTypeOK'
  <2>1. stamps' \subseteq 0..Horizon
    BY <1>2 DEF LockTypeOK
  <2> QED
    BY <1>2, <2>1 DEF LockTypeOK, Steps, Acquiring
<1>4. OneOwner' /\ OneAcquirer'
  BY <1>1, <1>2 DEF OneOwner, OneAcquirer, Owning, Acquiring, LockTypeOK
<1>5. OwnerInv'
  <2> SUFFICES ASSUME NEW s \in Runners
               PROVE  /\ where'[s] # "release"
                      /\ where'[s] = "recreate" => ~exists'
                      /\ where'[s] = "stamp" => exists' /\ stamps' = {}
                      /\ where'[s] = "work" => exists' /\ stamps' = {age'[s]}
                      /\ where'[s] # "idle" => age'[s] <= TaskTimeout
    BY DEF OwnerInv
  <2>1. CASE s = r
    BY <1>2, <2>1 DEF OwnerInv, LockTypeOK
  <2>2. CASE s # r
    BY <1>1, <1>2, <2>2 DEF OwnerInv, Owning, LockTypeOK
  <2> QED
    BY <2>1, <2>2
<1>6. MarkerInv'
  BY <1>2 DEF MarkerInv, LockTypeOK
<1> QED
  BY <1>3, <1>4, <1>5, <1>6

(* The owner lets go: its delete is not repeated, so it is its own. *)
LEMMA ReleaseStep ==
    ASSUME SoundDeployment, LockInv, NEW r \in Runners, Release(r)
    PROVE  LockInv'
<1> USE LockAssumption DEF LockAssumption, LockInv, Goto, marker
<1>1. /\ where[r] = "work" /\ where' = [where EXCEPT ![r] = "idle"]
      /\ exists' = FALSE /\ stamps' = {}
      /\ UNCHANGED <<age, deaths, lost, alone>>
  <2>1. where[r] = "work"
    BY DEF Release, OwnerInv
  <2> QED
    BY <2>1 DEF Release, Delete, SoundDeployment, LockTypeOK
<1>2. \A s \in Runners : s # r => where[s] \notin Owning
  BY <1>1 DEF OneOwner, Owning
<1>3. LockTypeOK'
  BY <1>1 DEF LockTypeOK, Steps, Acquiring
<1>4. OneOwner' /\ OneAcquirer'
  BY <1>1 DEF OneOwner, OneAcquirer, Owning, Acquiring, LockTypeOK
<1>5. OwnerInv'
  BY <1>1, <1>2 DEF OwnerInv, Owning, LockTypeOK
<1>6. MarkerInv'
  BY <1>1 DEF MarkerInv, LockTypeOK
<1> QED
  BY <1>3, <1>4, <1>5, <1>6

(* In a sound deployment LockInv is an invariant: the working runner is the *)
(* one owner of the marker that acquire_consolidation_lock and              *)
(* release_consolidation_lock create, take over and delete.                 *)
THEOREM LockInductive == LockSpec => [](SoundDeployment => LockInv)
<1>1. LockInit => (SoundDeployment => LockInv)
  BY InitLock
<1>2. (SoundDeployment => LockInv) /\ [LockNext]_lockVars => (SoundDeployment => LockInv)'
  <2> SUFFICES ASSUME SoundDeployment => LockInv, [LockNext]_lockVars, SoundDeployment'
               PROVE  LockInv'
    OBVIOUS
  <2>1. alone' = alone
    BY DEF LockNext, Step, lockVars, Tick, Ask, CreateFresh, CreateFinds, StandDown, ReadRaises,
           TakeOver, DeleteStale, Delete, Recreate, Stamp, StampRaises, Release, Die
  <2>2. SoundDeployment /\ LockInv
    BY <2>1 DEF SoundDeployment
  <2>3. CASE Tick
    BY <2>2, <2>3, TickStep
  <2>4. ASSUME NEW r \in Runners, Ask(r) \/ Step(r) \/ Die(r) PROVE LockInv'
    BY <2>2, <2>4, AskStep, GiveUpStep, CreateStep, TakeOverStep, OwnerStep, ReleaseStep
       DEF Step
  <2>5. CASE UNCHANGED lockVars
    BY <2>2, <2>5
       DEF lockVars, marker, LockInv, LockTypeOK, OneOwner, OneAcquirer, OwnerInv, MarkerInv
  <2> QED
    BY <2>3, <2>4, <2>5 DEF LockNext
<1> QED
  BY <1>1, <1>2, PTL DEF LockSpec

(* Two runners never write at once, whatever the number of runners, the     *)
(* windows and the deaths: consolidate_all runs its passes inside the lock. *)
THEOREM LockExcludes == LockSpec => []MutualExclusion
<1>1. (SoundDeployment => LockInv) => MutualExclusion
  BY DEF LockInv, OneOwner, Owning, MutualExclusion
<1> QED
  BY <1>1, LockInductive, PTL

(* The marker of a working runner is its own and stays until it deletes it: *)
(* nothing acquire or release does on behalf of another removes it.         *)
THEOREM MarkerStays == LockSpec => [](SoundDeployment => MarkerIsTheWorkers)
<1>1. (SoundDeployment => LockInv) => (SoundDeployment => MarkerIsTheWorkers)
  BY DEF LockInv, OwnerInv, MarkerIsTheWorkers
<1> QED
  BY <1>1, LockInductive, PTL

(* A marker judged stale is a dead runner's: stale_after_secs exceeds the   *)
(* task timeout.                                                            *)
THEOREM TakeoverIsFromTheDead == LockSpec => [](SoundDeployment => TakeoverOnlyFromTheDead)
<1>1. (SoundDeployment => LockInv) => (SoundDeployment => TakeoverOnlyFromTheDead)
  <2> SUFFICES ASSUME LockInv, NEW r \in Runners, where[r] \in {"takeover", "recreate"},
                      NEW s \in Runners, where[s] = "work"
               PROVE  FALSE
    BY DEF TakeoverOnlyFromTheDead
  <2> QED
    BY DEF LockInv, OneOwner, Owning
<1> QED
  BY <1>1, LockInductive, PTL
=============================================================================
