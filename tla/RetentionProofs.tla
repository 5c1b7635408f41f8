---------------------------- MODULE RetentionProofs ----------------------------
(***************************************************************************)
(* Theorems about Retention, for any names, hosts, scans, windows and       *)
(* faults: a pruning pass deletes no row's only copy that it could have     *)
(* known of, and accounts for every dataset it has listed.                  *)
(***************************************************************************)
EXTENDS Retention, TLAPS

-----------------------------------------------------------------------------
(* A target is of the contract like its shard, and never a shard itself. *)
LEMMA TargetFacts ==
    ASSUME NEW n \in Shards, NEW s \in Scans
    PROVE  /\ TargetName(n, s).scan = s /\ TargetName(n, s).scan # NoScan
           /\ TargetName(n, s) \notin Shards
           /\ Parsed(TargetName(n, s)) <=> Parsed(n)
<1>1. n = NameOf(n.prefix, n.kind, n.version, n.host, n.month, n.scan) /\ s # NoScan
  BY RetentionAssumption
<1>2. /\ TargetName(n, s).scan = s /\ TargetName(n, s).prefix = n.prefix
      /\ TargetName(n, s).kind = n.kind /\ TargetName(n, s).version = n.version
  BY <1>1 DEF TargetName, NameOf
<1> QED BY <1>1, <1>2, RetentionAssumption DEF Parsed

LEMMA RowFacts == \A r \in Rows : r[1] \in Scans /\ r[2] \in Shards
  BY DEF Rows

LEMMA ShardsNamed == Shards \subseteq Names
  BY DEF Names

-----------------------------------------------------------------------------
Pending == six \cup seven \cup chosen

(* No per-scan target of the contract is ever selected, nor a dataset that   *)
(* is overwritten in place and never merged.                                 *)
NameInv == \A n \in Pending : Parsed(n) => n.scan = NoScan /\ ~Overwrite(n)

(* A row is in its shard, or in its scan's target. *)
RowInv ==
    \A n \in Names : \A r \in rows[n] :
        r[2] = n \/ (n = TargetName(r[2], r[1]) /\ Parsed(r[2]))

(* With its scan's target there, a row of a shard was written after the      *)
(* merge, or is in the target, or was until somebody deleted that.           *)
MergedInv ==
    \A x \in Shards : \A r \in rows[x] :
        Parsed(x) /\ ~Overwrite(x) /\ TargetName(x, r[1]) \in present =>
            r \in late \cup gone \cup rows[TargetName(x, r[1])]

(* What rail 7 has seen of a dataset it chose is in the target for as long   *)
(* as it is in the dataset, or was deleted by somebody else, or is late and  *)
(* counted alike.                                                            *)
SeenInv ==
    \A r \in seen :
        /\ r[2] \in chosen
        /\ r \in gone \/ \E n \in Names : r \in rows[n]
        /\ Parsed(r[2]) /\ r \in rows[r[2]] =>
              r \in (alike \cap late) \cup gone \cup rows[TargetName(r[2], r[1])]

(* What the selections made so far have disposed of. *)
Covered ==
    CASE path = "none" -> Bucket("newer")
      [] path = "retention" -> Bucket("newer") \cup Bucket("current")
      [] path = "legacy" -> Named

KeptOK(n) == Rail(kept[n]) = 4 <=> Schema(n, ver) = "newer"

PendingOK(n) == ReportState(n, ver, Bucket("current")) \in {"rotated", "legacy"}

(* The legacy path is refused when it is taken beside a newer schema. *)
RefusedOK ==
    /\ path # "legacy" => ~refused
    /\ path = "legacy" => (refused <=> legacy /\ Bucket("newer") # {})

BookInv ==
    /\ pc \in {"lock", "list"} =>
          listed = {} /\ DOMAIN kept = {} /\ path = "none" /\ Pending = {} /\ failed = {}
          /\ ~refused
    /\ pc \in {"paths", "delete", "release", "done"} =>
          /\ pc = "paths" => Pending \cup DOMAIN kept = Covered
          /\ pc # "paths" => chosen \cup DOMAIN kept = Named /\ (path = "legacy" \/ listed = {})
          /\ RefusedOK
          /\ Pending \cap DOMAIN kept = {} /\ deleted \cap failed = {}
          /\ path = "none" => Pending = {}
          /\ path = "retention" => window # NoWindow
          /\ \A n \in Pending : PendingOK(n)
          /\ \A n \in DOMAIN kept : KeptOK(n)
          /\ pc \in {"release", "done"} => chosen \subseteq deleted \cup failed

PInv == TypeOK /\ NameInv /\ RowInv /\ MergedInv /\ SeenInv /\ BookInv

-----------------------------------------------------------------------------
LEMMA PInit == Init => PInv
<1> SUFFICES ASSUME Init PROVE PInv
  OBVIOUS
<1> USE DEF Init
<1>1. DataOK
  BY RetentionAssumption DEF DataOK, Names, Free
<1>2. FlagsOK
  BY DEF FlagsOK
<1>3. NameInv /\ RowInv /\ MergedInv /\ SeenInv
  BY ShardsNamed DEF NameInv, Pending, RowInv, MergedInv, SeenInv
<1>4. BookInv
  BY DEF BookInv
<1> QED BY <1>1, <1>2, <1>3, <1>4 DEF PInv, TypeOK

LEMMA FaultCount ==
    ASSUME faults \in 0..MaxFaults, Fault
    PROVE  faults' \in 0..MaxFaults
  BY RetentionAssumption DEF Fault

LEMMA LockTypes ==
    ASSUME NEW o \in {"prune", "wipe", "other"}
    PROVE  {Free, Marker(o)} \subseteq [owner : {"none", "prune", "wipe", "other"}, age : 0..2]
  BY DEF Free, Marker

LEMMA TenantData ==
    ASSUME DataOK, Tenant
    PROVE  DataOK'
<1> USE RetentionAssumption DEF DataOK
<1>0. UNCHANGED <<args, prune, wipe, passes, seen, alike, lost, gone, faults>>
  BY DEF history, Tenant, Frame, Write, Hush, NextMonth, Merge, OtherRun, LockAges
<1>1. ASSUME NEW s \in Scans, NEW n \in Shards, Write(s, n) PROVE DataOK'
  <2>1. PICK i \in 1..MaxRows :
            /\ rows' = [rows EXCEPT ![n] = @ \cup {<<s, n, i>>}]
            /\ late' \subseteq late \cup {<<s, n, i>>}
    BY <1>1 DEF Write
  <2>2. <<s, n, i>> \in Rows
    BY DEF Rows
  <2>3. rows' \in [Names -> SUBSET Rows] /\ \A x \in Names \ present' : rows'[x] = {}
    BY <1>1, <2>1, <2>2, ShardsNamed DEF Write
  <2>4. late' \subseteq Rows
    BY <2>1, <2>2
  <2> QED BY <1>0, <1>1, <2>3, <2>4, ShardsNamed DEF Write, args, prune, wipe
<1>2. ASSUME NEW s \in Scans, NEW n \in Shards, Merge(s, n) PROVE DataOK'
  <2> DEFINE t == TargetName(n, s)
  <2>1. t \in Names
    BY <1>2 DEF Merge, Sources, Targets, Names
  <2>2. /\ Sources(t, s) \subseteq Shards /\ Moved(t, s) \subseteq Shards
        /\ \A x \in Names : OfScan(s, x) \subseteq rows[x]
    BY DEF Sources, Moved, OfScan
  <2>3. Copied(t, s) \subseteq Rows
    BY <2>2, ShardsNamed DEF Copied
  <2>4. rows' \in [Names -> SUBSET Rows] /\ \A x \in Names \ present' : rows'[x] = {}
    <3>1. /\ present' = present \cup {t}
          /\ rows' = [x \in Names |-> IF x = t THEN Copied(t, s)
                                     ELSE IF x \in Moved(t, s) THEN rows[x] \ OfScan(s, x)
                                     ELSE rows[x]]
      BY <1>2 DEF Merge
    <3> HIDE DEF t
    <3> QED BY <2>3, <3>1
  <2> QED BY <1>0, <1>2, <2>1, <2>4 DEF Merge, args, prune, wipe, history
<1>3. ASSUME NEW n \in Shards, Hush(n) PROVE DataOK'
  BY <1>0, <1>3 DEF Hush, args, prune, wipe, history
<1>4. CASE NextMonth
  BY <1>0, <1>4 DEF NextMonth, args, prune, wipe, history
<1>5. CASE OtherRun
  BY <1>0, <1>5, LockTypes DEF OtherRun, args, prune, wipe, history
<1>6. CASE LockAges
  <2>1. lock' \in [owner : {"none", "prune", "wipe", "other"}, age : 0..2]
    BY <1>6 DEF LockAges
  <2> QED BY <1>0, <1>6, <2>1 DEF LockAges, args, prune, wipe, history
<1> QED BY <1>1, <1>2, <1>3, <1>4, <1>5, <1>6 DEF Tenant

LEMMA WipeData ==
    ASSUME DataOK, Wipe
    PROVE  DataOK'
<1> USE RetentionAssumption DEF DataOK
<1>0. UNCHANGED <<passes, age, month, args, prune, seen, late, alike, lost>>
  BY DEF Wipe, StartWipe, WipeLock, WipeRelease, WipeKilled, WipeDelete, WipeFrame
<1>1. faults' \in 0..MaxFaults
  BY FaultCount DEF Wipe, StartWipe, WipeLock, WipeRelease, WipeKilled, WipeDelete, StandsDown
<1>2. lock' \in [owner : {"none", "prune", "wipe", "other"}, age : 0..2]
  BY LockTypes DEF Wipe, StartWipe, WipeLock, WipeRelease, WipeKilled, WipeDelete, StandsDown,
                   Acquires
<1>3. CASE StartWipe
  BY <1>0, <1>1, <1>2, <1>3 DEF StartWipe, args, prune
<1>4. CASE WipeLock \/ WipeRelease \/ WipeKilled
  BY <1>0, <1>1, <1>2, <1>4 DEF WipeLock, WipeRelease, WipeKilled, args, prune
<1>5. ASSUME NEW n \in Names, WipeDelete(n) PROVE DataOK'
  <2>1. CASE Drop(n)
    BY <1>0, <1>1, <1>2, <1>5, <2>1 DEF Drop, WipeDelete, args, prune
  <2>2. CASE UNCHANGED <<present, rows, gone>>
    BY <1>0, <1>1, <1>2, <1>5, <2>2 DEF WipeDelete, args, prune
  <2> QED BY <1>5, <2>1, <2>2 DEF WipeDelete
<1> QED BY <1>3, <1>4, <1>5 DEF Wipe

(* A selection disposes of names of the listing only. *)
LEMMA WhyDomain ==
    ASSUME NEW p \in {"retention", "legacy"}, NEW L
    PROVE  DOMAIN Why(p, L) =
               IF p = "retention" THEN {n \in L : Schema(n, ver) = "current"}
               ELSE IF Refuses(p, L) THEN {} ELSE {n \in L : Schema(n, ver) = "legacy"}
  BY DEF Why

LEMMA SelectDomains ==
    ASSUME NEW p \in {"retention", "legacy"}, Select(p, listed)
    PROVE  /\ six' \subseteq DOMAIN Why(p, listed)
           /\ DOMAIN kept' = DOMAIN kept \cup (DOMAIN Why(p, listed) \ six')
           /\ path' = p /\ refused' = Refuses(p, listed)
  BY DEF Select, Keeps

LEMMA PathSteps ==
    ASSUME NextPath
    PROVE  \/ path = "none" /\ window # NoWindow /\ Select("retention", listed) /\ pc' = pc
           \/ /\ path = "retention" \/ (path = "none" /\ window = NoWindow)
              /\ legacy /\ Select("legacy", listed) /\ pc' = pc
           \/ /\ path = "retention" \/ (path = "none" /\ window = NoWindow)
              /\ ~legacy /\ path' = "legacy" /\ UNCHANGED <<six, refused>> /\ pc' = pc
              /\ kept' = Keeps([n \in Bucket("legacy") |-> "legacy_not_requested"],
                               Bucket("legacy"))
           \/ path = "legacy" /\ pc' = "delete" /\ UNCHANGED <<path, six, kept, refused>>
  BY DEF NextPath

LEMMA PruneData ==
    ASSUME DataOK, FlagsOK, BookInv, Prune
    PROVE  DataOK'
<1> USE RetentionAssumption DEF DataOK
<1>0. UNCHANGED <<month, age, wipe>>
  BY DEF Prune, StartPrune, PruneLock, ListDatasets, NextPath, RailSix, RailSeven, PruneDelete,
         EndDeletes, PruneRelease, PruneKilled, PruneFrame
<1>1. faults' \in 0..MaxFaults
  BY FaultCount DEF Prune, StartPrune, PruneLock, ListDatasets, NextPath, RailSix, RailSeven,
         PruneDelete, EndDeletes, PruneRelease, PruneKilled, StandsDown, history
<1>2. lock' \in [owner : {"none", "prune", "wipe", "other"}, age : 0..2]
  BY LockTypes DEF Prune, StartPrune, PruneLock, ListDatasets, NextPath, RailSix, RailSeven,
         PruneDelete, EndDeletes, PruneRelease, PruneKilled, StandsDown, Acquires
<1>3. ASSUME NEW w \in Windows \cup {NoWindow}, NEW l \in BOOLEAN, NEW q \in QuietHours,
             StartPrune(w, l, q)
      PROVE  DataOK'
  <2>1. Clamped(w) \in {NoWindow} \cup Nat /\ Floored(q) \in Nat \ {0}
    BY DEF Clamped, Floored
  <2>2. passes' \in 0..MaxPasses
    BY <1>3 DEF StartPrune
  <2>3. listed' = {} /\ six' = {} /\ seven' = {} /\ chosen' = {} /\ deleted' = {} /\ failed' = {}
        /\ DOMAIN kept' = {} /\ seen' = {} /\ alike' = {}
    BY <1>3 DEF StartPrune
  <2> QED BY <1>0, <1>1, <1>2, <1>3, <2>1, <2>2, <2>3 DEF StartPrune, wipe
<1>4. CASE PruneLock \/ EndDeletes \/ PruneRelease \/ PruneKilled
  BY <1>0, <1>1, <1>2, <1>4 DEF PruneLock, EndDeletes, PruneRelease, PruneKilled, wipe, args,
                                history
<1>5. CASE ListDatasets
  <2>1. Pending = {} /\ listed = {} /\ DOMAIN kept = {}
    BY <1>5 DEF ListDatasets, BookInv
  <2>2. listed' \subseteq Names /\ DOMAIN kept' \subseteq listed'
    BY <1>5, <2>1 DEF ListDatasets
  <2> QED BY <1>0, <1>1, <1>2, <1>5, <2>1, <2>2 DEF ListDatasets, wipe, args, history, Pending
<1>6. CASE NextPath
  <2>1. seven = {} /\ UNCHANGED <<listed, seven, chosen, deleted, failed>>
        /\ six = {} /\ UNCHANGED <<present, rows, args, passes, history>>
    BY <1>6 DEF NextPath
  <2>2. six' \subseteq listed /\ six' \cap chosen = {} /\ DOMAIN kept' \subseteq listed
    <3>1. ASSUME NEW p \in {"retention", "legacy"}, Select(p, listed), p = "legacy" \/ path = "none",
                 path # "legacy"
          PROVE  six' \subseteq listed /\ six' \cap chosen = {} /\ DOMAIN kept' \subseteq listed
      <4>0. DOMAIN Why(p, listed) \subseteq
                IF p = "retention" THEN {n \in listed : Schema(n, ver) = "current"}
                ELSE {n \in listed : Schema(n, ver) = "legacy"}
        <5>1. DOMAIN Why(p, listed) =
                  IF p = "retention" THEN {n \in listed : Schema(n, ver) = "current"}
                  ELSE IF Refuses(p, listed) THEN {} ELSE {n \in listed : Schema(n, ver) = "legacy"}
          BY WhyDomain, Zenon
        <5> QED BY <5>1
      <4>1. DOMAIN Why(p, listed) \subseteq listed
        BY <4>0
      <4>2. six' \subseteq listed /\ DOMAIN kept' \subseteq listed
        BY <3>1, <4>1, SelectDomains
      <4>3. \A n \in chosen : n \notin DOMAIN Why(p, listed)
        <5>1. pc = "paths" /\ path \in {"none", "retention"}
          BY <1>6, <3>1 DEF NextPath, FlagsOK
        <5>2. path = "none" => chosen = {}
          BY <5>1 DEF BookInv, Pending
        <5>3. path = "retention" => p = "legacy" /\ chosen \subseteq Bucket("newer") \cup Bucket("current")
          BY <5>1, <3>1 DEF BookInv, Pending, Covered
        <5> QED BY <5>1, <5>2, <5>3, <4>0 DEF Bucket
      <4> QED BY <3>1, <4>2, <4>3, SelectDomains
    <3>2. CASE UNCHANGED six /\ DOMAIN kept' \subseteq DOMAIN kept \cup Bucket("legacy")
      BY <2>1, <3>2 DEF Bucket
    <3> QED BY <1>6, <3>1, <3>2, PathSteps DEF Keeps
  <2> QED BY <1>0, <1>1, <1>2, <2>1, <2>2 DEF wipe, args, history
<1>7. ASSUME NEW n \in Names, RailSix(n) PROVE DataOK'
  <2>1. DOMAIN kept' \subseteq listed /\ six' = six \ {n} /\ seven' \subseteq seven \cup {n} /\ n \in six
    BY <1>7 DEF RailSix, Keep, Keeps
  <2> QED BY <1>0, <1>1, <1>2, <1>7, <2>1 DEF RailSix, wipe, args, history
<1>8. ASSUME NEW n \in Names, RailSeven(n) PROVE DataOK'
  <2>1. DOMAIN kept' \subseteq listed /\ seven' = seven \ {n} /\ chosen' \subseteq chosen \cup {n}
        /\ n \in seven /\ chosen \subseteq chosen' /\ UNCHANGED six
    BY <1>8 DEF RailSeven, Keep, Keeps
  <2>2. seen' \subseteq Rows /\ alike' \subseteq Rows
    <3>1. rows[n] \subseteq Rows /\ CountedAlike(n) \subseteq Rows
      BY DEF CountedAlike, Unmerged
    <3> QED BY <1>8, <3>1 DEF RailSeven
  <2> QED BY <1>0, <1>1, <1>2, <1>8, <2>1, <2>2 DEF RailSeven, wipe, args
<1>9. ASSUME NEW n \in Names, PruneDelete(n) PROVE DataOK'
  <2>0. deleted' \cup failed' \subseteq chosen /\ UNCHANGED chosen
    BY <1>9 DEF PruneDelete, RecordFailure
  <2>1. CASE Drop(n) /\ lost' = lost \cup (IF Parsed(n) THEN Unmerged(n) ELSE {})
    <3>1. lost' \subseteq Rows /\ gone' \subseteq Rows
      BY <2>1 DEF Unmerged, Drop
    <3>2. rows' \in [Names -> SUBSET Rows] /\ \A x \in Names \ present' : rows'[x] = {}
      BY <2>1 DEF Drop
    <3>3. present' \subseteq Names
      BY <2>1 DEF Drop
    <3> QED BY <1>0, <1>1, <1>2, <1>9, <2>0, <3>1, <3>2, <3>3 DEF PruneDelete, wipe, args
  <2>2. CASE UNCHANGED <<present, rows, lost, gone>>
    BY <1>0, <1>1, <1>2, <1>9, <2>0, <2>2 DEF PruneDelete, wipe, args
  <2> QED BY <1>9, <2>1, <2>2 DEF PruneDelete
<1> QED BY <1>3, <1>4, <1>5, <1>6, <1>7, <1>8, <1>9 DEF Prune

LEMMA FlagsStep ==
    ASSUME FlagsOK, [Next]_vars
    PROVE  FlagsOK'
<1> USE DEF FlagsOK
<1>1. CASE Tenant
  BY <1>1 DEF Tenant, Frame, Write, Hush, NextMonth, Merge, OtherRun, LockAges, args, prune, wipe
<1>2. CASE Wipe
  BY <1>2 DEF Wipe, StartWipe, WipeLock, WipeRelease, WipeKilled, WipeDelete, WipeFrame, args, prune
<1>3. CASE \E w \in Windows \cup {NoWindow}, l \in BOOLEAN, q \in QuietHours : StartPrune(w, l, q)
  BY <1>3 DEF StartPrune, PruneFrame, wipe
<1>4. CASE PruneLock \/ ListDatasets \/ EndDeletes \/ PruneRelease \/ PruneKilled
  BY <1>4 DEF PruneLock, ListDatasets, EndDeletes, PruneRelease, PruneKilled, PruneFrame, wipe, args
<1>5. CASE NextPath
  BY <1>5 DEF NextPath, Select, Refuses, PruneFrame, wipe, args
<1>6. CASE \E n \in Names : RailSix(n) \/ RailSeven(n) \/ PruneDelete(n)
  BY <1>6 DEF RailSix, RailSeven, PruneDelete, RecordFailure, PruneFrame, wipe, args
<1>7. CASE UNCHANGED vars
  BY <1>7 DEF vars, args, prune, wipe
<1> QED BY <1>1, <1>2, <1>3, <1>4, <1>5, <1>6, <1>7 DEF Next, Prune

-----------------------------------------------------------------------------
(* What the names alone decide. *)
LEMMA RetentionReasons ==
    ASSUME NEW n, NEW c, NEW w, NEW now
    PROVE  /\ Retention(n, c, w, now) = "candidate" =>
                 Parsed(n) /\ n.scan = NoScan /\ ~Overwrite(n) /\ n.month # 0
           /\ Retention(n, c, w, now) # "candidate" => Rail(Retention(n, c, w, now)) # 4
<1>1. Retention(n, c, w, now) \in
          {"candidate", "pack_output", "not_yara_name", "retired_scan_target", "overwrite_dataset",
           "unrotated_frozen", "unrotated_growing", "current_month", "future_month",
           "inside_window"}
  BY DEF Retention, Dated
<1>2. Retention(n, c, w, now) # "candidate" => Rail(Retention(n, c, w, now)) # 4
  <2> DEFINE x == Retention(n, c, w, now)
  <2> HIDE DEF x
  <2>1. x \in {"candidate", "pack_output", "not_yara_name", "retired_scan_target",
               "overwrite_dataset", "unrotated_frozen", "unrotated_growing", "current_month",
               "future_month", "inside_window"}
    BY <1>1 DEF x
  <2>2. x # "candidate" => Rail(x) # 4
    BY <2>1 DEF Rail
  <2> QED BY <2>2 DEF x
<1>3. Retention(n, c, w, now) = "candidate" =>
          Parsed(n) /\ n.scan = NoScan /\ ~Overwrite(n) /\ n.month # 0
  BY DEF Retention
<1> QED BY <1>2, <1>3

LEMMA LegacyReasons ==
    ASSUME NEW n, NEW now
    PROVE  /\ Legacy(n, now) = "candidate" =>
                 n.prefix # "yara_scanner" \/ (n.scan = NoScan /\ n.month # 0)
           /\ Legacy(n, now) # "candidate" => Rail(Legacy(n, now)) # 4
<1>1. Legacy(n, now) \in {"candidate", "retired_scan_target", "legacy_unsuffixed",
                          "current_month", "future_month"}
  BY DEF Legacy, Dated
<1>2. Legacy(n, now) # "candidate" => Rail(Legacy(n, now)) # 4
  <2> DEFINE x == Legacy(n, now)
  <2> HIDE DEF x
  <2>1. x \in {"candidate", "retired_scan_target", "legacy_unsuffixed", "current_month",
               "future_month"}
    BY <1>1 DEF x
  <2>2. x # "candidate" => Rail(x) # 4
    BY <2>1 DEF Rail
  <2> QED BY <2>2 DEF x
<1>3. Legacy(n, now) = "candidate" =>
          n.prefix # "yara_scanner" \/ (n.scan = NoScan /\ n.month # 0)
  BY DEF Legacy
<1> QED BY <1>2, <1>3

(* A selection picks only what the report shows as rotated or legacy, and    *)
(* none of the reasons it gives for the rest is of rail 4.                   *)
LEMMA Selected ==
    ASSUME NEW p \in {"retention", "legacy"}, Select(p, listed)
    PROVE  /\ \A n \in six' :
                 PendingOK(n) /\ (Parsed(n) => n.scan = NoScan /\ ~Overwrite(n))
           /\ \A n \in DOMAIN kept' \ (DOMAIN Why(p, listed) \ six') : kept'[n] = kept[n]
           /\ \A n \in DOMAIN Why(p, listed) \ six' :
                 Rail(kept'[n]) # 4 /\ Schema(n, ver) # "newer"
<1> DEFINE why == Why(p, listed)
<1>1. /\ six' = {n \in DOMAIN why : why[n] = "candidate"}
      /\ kept' = Keeps(why, DOMAIN why \ six')
  BY DEF Select
<1>2. /\ \A n \in DOMAIN why \ six' : kept'[n] = why[n] /\ why[n] # "candidate"
      /\ \A n \in DOMAIN kept' \ (DOMAIN why \ six') : kept'[n] = kept[n]
  BY <1>1 DEF Keeps
<1>3. CASE p = "retention"
  <2>1. why = [n \in Bucket("current") |-> Retention(n, Bucket("current"), window, month)]
    BY <1>3 DEF Why, Bucket
  <2>2. \A n \in DOMAIN why : Schema(n, ver) = "current"
                /\ why[n] = Retention(n, Bucket("current"), window, month)
    BY <2>1 DEF Bucket
  <2>3. ASSUME NEW n \in six' PROVE PendingOK(n) /\ (Parsed(n) => n.scan = NoScan /\ ~Overwrite(n))
    <3>1. Schema(n, ver) = "current" /\ Parsed(n) /\ n.scan = NoScan /\ ~Overwrite(n) /\ n.month # 0
      BY <1>1, <2>2, <2>3, RetentionReasons
    <3> QED BY <3>1 DEF PendingOK, ReportState
  <2>4. ASSUME NEW n \in DOMAIN why \ six' PROVE Rail(kept'[n]) # 4 /\ Schema(n, ver) = "current"
    BY <1>2, <2>2, <2>4, RetentionReasons
  <2> QED BY <1>2, <2>3, <2>4
<1>4. CASE p = "legacy"
  <2>1. why = [n \in IF Refuses(p, listed) THEN {} ELSE Bucket("legacy") |-> Legacy(n, month)]
    BY <1>4 DEF Why, Bucket
  <2>2. \A n \in DOMAIN why : Schema(n, ver) = "legacy" /\ why[n] = Legacy(n, month)
    BY <2>1 DEF Bucket
  <2>3. ASSUME NEW n \in six' PROVE PendingOK(n) /\ (Parsed(n) => n.scan = NoScan /\ ~Overwrite(n))
    <3>1. Schema(n, ver) = "legacy" /\ Legacy(n, month) = "candidate"
      BY <1>1, <2>2, <2>3
    <3>2. n.prefix # "yara_scanner" \/ (n.scan = NoScan /\ n.month # 0)
      BY <3>1, LegacyReasons
    <3> QED BY <3>1, <3>2 DEF PendingOK, ReportState, Parsed, Overwrite
  <2>4. ASSUME NEW n \in DOMAIN why \ six' PROVE Rail(kept'[n]) # 4 /\ Schema(n, ver) = "legacy"
    BY <1>2, <2>2, <2>4, LegacyReasons
  <2> QED BY <1>2, <1>4, <2>3, <2>4
<1> QED BY <1>3, <1>4

LEMMA NameStep ==
    ASSUME NameInv, [Next]_vars
    PROVE  NameInv'
<1> USE DEF NameInv, Pending
<1>1. CASE Tenant \/ Wipe \/ UNCHANGED vars
  BY <1>1 DEF Tenant, Frame, Write, Hush, NextMonth, Merge, OtherRun, LockAges, prune, vars,
              Wipe, StartWipe, WipeLock, WipeRelease, WipeKilled, WipeDelete, WipeFrame
<1>2. CASE \E w \in Windows \cup {NoWindow}, l \in BOOLEAN, q \in QuietHours : StartPrune(w, l, q)
  BY <1>2 DEF StartPrune
<1>3. CASE PruneLock \/ ListDatasets \/ EndDeletes \/ PruneRelease \/ PruneKilled
  BY <1>3 DEF PruneLock, ListDatasets, EndDeletes, PruneRelease, PruneKilled
<1>4. CASE NextPath
  <2>1. UNCHANGED <<seven, chosen>>
    BY <1>4 DEF NextPath
  <2>2. UNCHANGED six \/ \A n \in six' : Parsed(n) => n.scan = NoScan /\ ~Overwrite(n)
    BY <1>4, PathSteps, Selected
  <2> QED BY <2>1, <2>2
<1>5. CASE \E n \in Names : RailSix(n) \/ RailSeven(n) \/ PruneDelete(n)
  BY <1>5 DEF RailSix, RailSeven, PruneDelete
<1> QED BY <1>1, <1>2, <1>3, <1>4, <1>5 DEF Next, Prune

-----------------------------------------------------------------------------
(* But for writing and merging, rows leave with a dataset that is deleted. *)
Fewer == UNCHANGED <<present, rows, gone>> \/ \E n \in Names : Drop(n)

LEMMA FewerSteps ==
    ASSUME \/ \E n \in Shards : Hush(n)
           \/ NextMonth \/ OtherRun \/ LockAges \/ Prune \/ Wipe \/ UNCHANGED vars
    PROVE  Fewer
<1> USE DEF Fewer, Drop, history
<1>1. CASE (\E n \in Shards : Hush(n)) \/ NextMonth \/ OtherRun \/ LockAges \/ UNCHANGED vars
  BY <1>1 DEF Hush, NextMonth, OtherRun, LockAges, vars
<1>2. CASE Wipe
  BY <1>2 DEF Wipe, StartWipe, WipeLock, WipeRelease, WipeKilled, WipeDelete
<1>3. CASE Prune
  BY <1>3 DEF Prune, StartPrune, PruneLock, ListDatasets, NextPath, RailSix, RailSeven,
              PruneDelete, EndDeletes, PruneRelease, PruneKilled
<1> QED BY <1>1, <1>2, <1>3

LEMMA RowStep ==
    ASSUME DataOK, RowInv, [Next]_vars
    PROVE  RowInv'
<1> USE DEF RowInv, DataOK
<1>1. ASSUME NEW s \in Scans, NEW n \in Shards, Write(s, n) PROVE RowInv'
  <2>1. PICK i \in 1..MaxRows : rows' = [rows EXCEPT ![n] = @ \cup {<<s, n, i>>}]
    BY <1>1 DEF Write
  <2> QED BY <2>1
<1>2. ASSUME NEW s \in Scans, NEW n \in Shards, Merge(s, n) PROVE RowInv'
  <2> DEFINE t == TargetName(n, s)
  <2>1. rows' = [x \in Names |-> IF x = t THEN Copied(t, s)
                                ELSE IF x \in Moved(t, s) THEN rows[x] \ OfScan(s, x)
                                ELSE rows[x]]
    BY <1>2 DEF Merge
  <2>2. ASSUME NEW r \in Copied(t, s)
        PROVE  t = TargetName(r[2], r[1]) /\ Parsed(r[2])
    <3>1. PICK x \in Sources(t, s) : r \in OfScan(s, x)
      BY <2>2 DEF Copied
    <3>2. x \in Shards /\ x \in Names /\ Parsed(x) /\ TargetName(x, s) = t
      BY <3>1, ShardsNamed DEF Sources
    <3>3. r[1] = s /\ r \in rows[x] /\ r \in Rows
      BY <3>1, <3>2 DEF OfScan
    <3>4. r[2] = x
      <4>1. x # TargetName(r[2], r[1])
        BY <3>2, <3>3, RowFacts, TargetFacts
      <4> QED BY <3>2, <3>3, <4>1
    <3> QED BY <3>2, <3>3, <3>4
  <2>3. \A x \in Names : \A r \in rows'[x] : r \in rows[x] \/ (x = t /\ r \in Copied(t, s))
    <3> HIDE DEF t
    <3> QED BY <2>1
  <2> QED BY <2>2, <2>3
<1>3. CASE Fewer
  BY <1>3 DEF Fewer, Drop
<1> QED BY <1>1, <1>2, <1>3, FewerSteps DEF Next, Tenant

LEMMA MergedStep ==
    ASSUME DataOK, MergedInv, [Next]_vars
    PROVE  MergedInv'
<1> USE DEF MergedInv, DataOK
<1>1. ASSUME NEW s \in Scans, NEW n \in Shards, Write(s, n) PROVE MergedInv'
  <2>1. PICK i \in 1..MaxRows :
            /\ rows' = [rows EXCEPT ![n] = @ \cup {<<s, n, i>>}]
            /\ late' = IF TargetName(n, s) \in present THEN late \cup {<<s, n, i>>} ELSE late
    BY <1>1 DEF Write
  <2>2. present' = present \cup {n} /\ UNCHANGED gone
    BY <1>1 DEF Write
  <2> SUFFICES ASSUME NEW x \in Shards, NEW r \in rows'[x], Parsed(x), ~Overwrite(x),
                      TargetName(x, r[1]) \in present'
               PROVE  r \in late' \cup gone \cup rows'[TargetName(x, r[1])]
    BY <2>2
  <2>3. CASE r \in rows[x]
    <3>1. r[1] \in Scans
      BY <2>3, ShardsNamed, RowFacts
    <3>2. TargetName(x, r[1]) \notin Shards
      BY <3>1, TargetFacts
    <3>3. TargetName(x, r[1]) \in present /\ TargetName(x, r[1]) # n
      BY <2>2, <3>2
    <3>4. rows'[TargetName(x, r[1])] = rows[TargetName(x, r[1])]
      BY <2>1, <3>3
    <3>5. late \subseteq late'
      BY <2>1
    <3> QED BY <2>3, <3>3, <3>4, <3>5
  <2>4. CASE x = n /\ r = <<s, n, i>>
    <3>1. TargetName(n, s) \in present
      BY <2>2, <2>4, TargetFacts
    <3> QED BY <2>1, <2>4, <3>1
  <2>5. r \in rows[x] \/ (x = n /\ r = <<s, n, i>>)
    BY <2>1, ShardsNamed
  <2> QED BY <2>3, <2>4, <2>5
<1>2. ASSUME NEW s \in Scans, NEW n \in Shards, Merge(s, n) PROVE MergedInv'
  <2> DEFINE t == TargetName(n, s)
  <2>1. /\ rows' = [x \in Names |-> IF x = t THEN Copied(t, s)
                                   ELSE IF x \in Moved(t, s) THEN rows[x] \ OfScan(s, x)
                                   ELSE rows[x]]
        /\ present' = present \cup {t} /\ UNCHANGED <<late, gone>>
        /\ Moved(t, s) \subseteq Shards /\ t \notin Shards /\ t.scan = s
        /\ t \in Names /\ t \notin present
    BY <1>2, TargetFacts DEF Merge, history, Moved, Sources, Names, Targets
  <2> HIDE DEF t
  <2> SUFFICES ASSUME NEW x \in Shards, NEW r \in rows'[x], Parsed(x), ~Overwrite(x),
                      TargetName(x, r[1]) \in present'
               PROVE  r \in late \cup gone \cup rows'[TargetName(x, r[1])]
    BY <2>1
  <2>2. r \in rows[x] /\ x \in Names /\ r[1] \in Scans
    BY <2>1, ShardsNamed, RowFacts
  <2>3. TargetName(x, r[1]) \notin Shards /\ TargetName(x, r[1]).scan = r[1]
    BY <2>2, TargetFacts
  <2>4. CASE TargetName(x, r[1]) = t
    <3>1. r[1] = s /\ r \in OfScan(s, x) /\ x \in Sources(t, s)
      BY <2>1, <2>2, <2>3, <2>4 DEF OfScan, Sources
    <3>2. r \in Copied(t, s)
      BY <3>1 DEF Copied
    <3> QED BY <2>1, <2>4, <3>2
  <2>5. CASE TargetName(x, r[1]) # t
    <3>1. TargetName(x, r[1]) \in present
      BY <2>1, <2>5
    <3>2. rows'[TargetName(x, r[1])] = rows[TargetName(x, r[1])]
      BY <2>1, <2>3, <2>5, <3>1
    <3> QED BY <2>2, <3>1, <3>2
  <2> QED BY <2>4, <2>5
<1>3. ASSUME Fewer, late \subseteq late' PROVE MergedInv'
  <2>1. CASE UNCHANGED <<present, rows, gone>>
    BY <1>3, <2>1
  <2>2. ASSUME NEW n \in Names, Drop(n) PROVE MergedInv'
    <3>1. /\ \A x \in Names \ {n} : rows'[x] = rows[x]
          /\ rows'[n] = {} /\ gone' = gone \cup rows[n] /\ present' = present \ {n}
      BY <2>2 DEF Drop
    <3> SUFFICES ASSUME NEW x \in Shards, NEW r \in rows'[x], Parsed(x), ~Overwrite(x),
                        TargetName(x, r[1]) \in present'
                 PROVE  r \in late' \cup gone' \cup rows'[TargetName(x, r[1])]
      BY DEF MergedInv
    <3>2. r \in rows[x] /\ TargetName(x, r[1]) \in present
      BY <3>1, ShardsNamed
    <3>3. TargetName(x, r[1]) \in Names
      BY <3>2
    <3>4. r \in late \cup gone \cup rows[TargetName(x, r[1])]
      BY <3>2
    <3> QED BY <1>3, <3>1, <3>3, <3>4
  <2> QED BY <1>3, <2>1, <2>2 DEF Fewer
<1>4. CASE \/ \E n \in Shards : Hush(n)
           \/ NextMonth \/ OtherRun \/ LockAges \/ Prune \/ Wipe \/ UNCHANGED vars
  <2>1. Fewer
    BY <1>4, FewerSteps
  <2>2. UNCHANGED late
    BY <1>4 DEF Hush, NextMonth, OtherRun, LockAges, history, vars, Wipe, StartWipe, WipeLock,
                WipeRelease, WipeKilled, WipeDelete, WipeFrame, Prune, StartPrune, PruneLock,
                ListDatasets, NextPath, RailSix, RailSeven, PruneDelete, EndDeletes, PruneRelease,
                PruneKilled
  <2> QED BY <1>3, <2>1, <2>2
<1> QED BY <1>1, <1>2, <1>4 DEF Next, Tenant

(* Rail 7 chooses a dataset with its rows in the targets, by the count. *)
LEMMA ChosenSeen ==
    ASSUME DataOK, RowInv, NameInv, MergedInv, NEW n \in seven, Stuck(n) = {}, NEW r \in rows[n]
    PROVE  /\ r[2] = n
           /\ Parsed(n) =>
                 r \in (CountedAlike(n) \cap late) \cup gone \cup rows[TargetName(n, r[1])]
<1>1. n \in Names /\ r \in Rows /\ r[1] \in Scans /\ r[2] \in Shards
  BY RowFacts DEF DataOK
<1>2. r[2] = n
  <2>1. ASSUME n = TargetName(r[2], r[1]), Parsed(r[2]) PROVE FALSE
    BY <1>1, <2>1, TargetFacts DEF NameInv, Pending
  <2> QED BY <1>1, <2>1 DEF RowInv
<1>3. ASSUME Parsed(n), r \notin gone, r \notin rows[TargetName(n, r[1])]
      PROVE  r \in CountedAlike(n) \cap late
  <2>1. r \in Unmerged(n)
    BY <1>3 DEF Unmerged
  <2>2. OfScan(r[1], n) # {}
    BY DEF OfScan
  <2>3. SameCount(r[1], n)
    BY <1>1, <1>3, <2>2 DEF Stuck
  <2>4. r \in late
    BY <1>1, <1>2, <1>3, <2>3 DEF SameCount, MergedInv, NameInv, Pending
  <2> QED BY <2>1, <2>3, <2>4 DEF SameCount, CountedAlike
<1> QED BY <1>2, <1>3

LEMMA SeenStep ==
    ASSUME DataOK, RowInv, NameInv, MergedInv, SeenInv, [Next]_vars
    PROVE  SeenInv'
<1>0. /\ seen \subseteq Rows
      /\ \A r \in seen : /\ r[2] \in Shards /\ r[1] \in Scans /\ r[2] \in Names
                         /\ TargetName(r[2], r[1]) \notin Shards
  BY RowFacts, TargetFacts, ShardsNamed DEF DataOK
<1>1. ASSUME NEW s \in Scans, NEW n \in Shards, Write(s, n) PROVE SeenInv'
  <2>1. PICK i \in 1..MaxRows :
            /\ rows' = [rows EXCEPT ![n] = @ \cup {<<s, n, i>>}]
            /\ \A x \in Names : <<s, n, i>> \notin rows[x]
            /\ <<s, n, i>> \notin gone
    BY <1>1 DEF Write
  <2>2. UNCHANGED <<seen, alike, gone, chosen>> /\ late \subseteq late'
    BY <1>1 DEF Write, Frame, prune
  <2>3. <<s, n, i>> \notin seen
    BY <2>1 DEF SeenInv
  <2>4. \A x \in Names : rows[x] \subseteq rows'[x] /\ rows'[x] \subseteq rows[x] \cup {<<s, n, i>>}
    BY <2>1 DEF DataOK
  <2> SUFFICES ASSUME NEW r \in seen
               PROVE  /\ r[2] \in chosen
                      /\ r \in gone \/ \E x \in Names : r \in rows'[x]
                      /\ Parsed(r[2]) /\ r \in rows'[r[2]] =>
                            r \in (alike \cap late') \cup gone \cup rows'[TargetName(r[2], r[1])]
    BY <2>2 DEF SeenInv
  <2>5. r \in gone \/ \E x \in Names : r \in rows'[x]
    BY <2>4 DEF SeenInv
  <2>6. r \in rows[TargetName(r[2], r[1])] => r \in rows'[TargetName(r[2], r[1])]
    <3>1. n # TargetName(r[2], r[1])
      BY <1>0
    <3> QED BY <2>1, <3>1 DEF DataOK
  <2>7. r \in rows'[r[2]] => r \in rows[r[2]]
    BY <1>0, <2>3, <2>4
  <2> QED BY <2>2, <2>5, <2>6, <2>7 DEF SeenInv
<1>2. ASSUME NEW s \in Scans, NEW n \in Shards, Merge(s, n) PROVE SeenInv'
  <2> DEFINE t == TargetName(n, s)
  <2>1. /\ rows' = [x \in Names |-> IF x = t THEN Copied(t, s)
                                   ELSE IF x \in Moved(t, s) THEN rows[x] \ OfScan(s, x)
                                   ELSE rows[x]]
        /\ Moved(t, s) \subseteq Sources(t, s) /\ Sources(t, s) \subseteq Shards
        /\ t \in Names /\ t \notin Shards /\ rows[t] = {}
        /\ UNCHANGED <<seen, late, alike, gone, chosen>>
    <3>1. t \in Names
      BY <1>2 DEF Merge, Targets, Names, Sources
    <3> QED BY <1>2, <3>1, TargetFacts DEF Merge, Frame, prune, history, DataOK, Moved, Sources
  <2> HIDE DEF t
  <2>2. /\ \A x \in Names \ {t} : rows'[x] \subseteq rows[x]
        /\ \A x \in Names \ Shards : x # t => rows'[x] = rows[x]
        /\ \A x \in Names : \A r \in rows[x] : r \in rows'[x] \cup rows'[t]
    <3>1. \A x \in Moved(t, s) : OfScan(s, x) \subseteq Copied(t, s)
      BY <2>1 DEF Copied
    <3>2. rows'[t] = Copied(t, s)
      BY <2>1
    <3>3. ASSUME NEW x \in Names, NEW r \in rows[x] PROVE r \in rows'[x] \cup rows'[t]
      <4>1. CASE x = t
        BY <2>1, <3>3, <4>1
      <4>2. CASE x # t /\ x \in Moved(t, s)
        BY <2>1, <3>1, <3>2, <3>3, <4>2
      <4>3. CASE x # t /\ x \notin Moved(t, s)
        BY <2>1, <3>3, <4>3
      <4> QED BY <4>1, <4>2, <4>3
    <3> QED BY <2>1, <3>3
  <2> SUFFICES ASSUME NEW r \in seen
               PROVE  /\ r[2] \in chosen
                      /\ r \in gone \/ \E x \in Names : r \in rows'[x]
                      /\ Parsed(r[2]) /\ r \in rows'[r[2]] =>
                            r \in (alike \cap late') \cup gone \cup rows'[TargetName(r[2], r[1])]
    BY <2>1 DEF SeenInv
  <2>3. r \in gone \/ \E x \in Names : r \in rows'[x]
    BY <2>1, <2>2 DEF SeenInv
  <2>4. r \in rows'[r[2]] => r \in rows[r[2]]
    BY <1>0, <2>1, <2>2
  <2>5. ASSUME Parsed(r[2]), r \in rows[TargetName(r[2], r[1])]
        PROVE  r \in rows'[TargetName(r[2], r[1])]
    <3>1. TargetName(r[2], r[1]) \notin Shards
      BY <1>0
    <3>2. TargetName(r[2], r[1]) # t
      BY <2>1, <2>5
    <3>3. TargetName(r[2], r[1]) \in Names
      BY <1>0, <2>5 DEF Names, Targets
    <3> QED BY <2>2, <2>5, <3>1, <3>2, <3>3
  <2> QED BY <2>1, <2>3, <2>4, <2>5 DEF SeenInv
<1>3. CASE Fewer /\ UNCHANGED <<seen, late, alike, chosen>>
  <2> SUFFICES ASSUME NEW r \in seen
               PROVE  /\ r[2] \in chosen
                      /\ r \in gone' \/ \E x \in Names : r \in rows'[x]
                      /\ Parsed(r[2]) /\ r \in rows'[r[2]] =>
                            r \in (alike \cap late') \cup gone' \cup rows'[TargetName(r[2], r[1])]
    BY <1>3 DEF SeenInv
  <2>1. CASE UNCHANGED <<present, rows, gone>>
    BY <1>3, <2>1 DEF SeenInv
  <2>2. ASSUME NEW n \in Names, Drop(n) PROVE
                      /\ r[2] \in chosen
                      /\ r \in gone' \/ \E x \in Names : r \in rows'[x]
                      /\ Parsed(r[2]) /\ r \in rows'[r[2]] =>
                            r \in (alike \cap late') \cup gone' \cup rows'[TargetName(r[2], r[1])]
    <3>1. /\ \A x \in Names \ {n} : rows'[x] = rows[x]
          /\ rows'[n] = {} /\ gone' = gone \cup rows[n]
      BY <2>2 DEF Drop, DataOK
    <3>2. rows[TargetName(r[2], r[1])] \subseteq gone' \cup rows'[TargetName(r[2], r[1])]
      BY <2>2, <3>1 DEF Drop, DataOK
    <3>3. r \in rows'[r[2]] => r \in rows[r[2]]
      BY <1>0, <3>1
    <3>4. r \in gone' \/ \E x \in Names : r \in rows'[x]
      BY <3>1 DEF SeenInv
    <3> QED BY <1>3, <3>1, <3>2, <3>3, <3>4 DEF SeenInv
  <2> QED BY <1>3, <2>1, <2>2 DEF Fewer
<1>4. CASE \E w \in Windows \cup {NoWindow}, l \in BOOLEAN, q \in QuietHours : StartPrune(w, l, q)
  BY <1>4 DEF StartPrune, SeenInv
<1>5. ASSUME NEW n \in Names, RailSeven(n) PROVE SeenInv'
  <2>1. UNCHANGED <<rows, late, gone>> /\ n \in seven
    BY <1>5 DEF RailSeven
  <2>2. CASE UNCHANGED <<chosen, seen, alike>>
    BY <2>1, <2>2 DEF SeenInv
  <2>3. CASE /\ Stuck(n) = {} /\ chosen' = chosen \cup {n} /\ seen' = seen \cup rows[n]
             /\ alike' = IF Parsed(n) THEN alike \cup CountedAlike(n) ELSE alike
    <3>1. \A r \in rows[n] : /\ r[2] = n
                             /\ Parsed(n) =>
                                    r \in (CountedAlike(n) \cap late) \cup gone
                                             \cup rows[TargetName(n, r[1])]
      BY <2>1, <2>3, ChosenSeen
    <3> QED BY <1>5, <2>1, <2>3, <3>1 DEF SeenInv
  <2> QED BY <1>5, <2>2, <2>3 DEF RailSeven
<1>6. CASE \/ \E n \in Shards : Hush(n)
           \/ NextMonth \/ OtherRun \/ LockAges \/ Wipe \/ UNCHANGED vars
  <2>1. UNCHANGED <<seen, late, alike, chosen>>
    BY <1>6 DEF Hush, NextMonth, OtherRun, LockAges, Frame, prune, history, vars, Wipe, StartWipe,
                WipeLock, WipeRelease, WipeKilled, WipeDelete, WipeFrame
  <2>2. Fewer
    BY <1>6, FewerSteps
  <2> QED BY <1>3, <2>1, <2>2
<1>7. CASE \/ PruneLock \/ ListDatasets \/ NextPath \/ EndDeletes \/ PruneRelease \/ PruneKilled
           \/ \E n \in Names : RailSix(n) \/ PruneDelete(n)
  <2>1. UNCHANGED <<seen, late, alike, chosen>>
    BY <1>7 DEF PruneLock, ListDatasets, NextPath, EndDeletes, PruneRelease, PruneKilled, RailSix,
                PruneDelete, history
  <2>2. Fewer
    BY <1>7, FewerSteps DEF Prune
  <2> QED BY <1>3, <2>1, <2>2
<1> QED BY <1>1, <1>2, <1>4, <1>5, <1>6, <1>7 DEF Next, Tenant, Prune
-----------------------------------------------------------------------------
(* What the books say of the listing depends on these alone. *)
LEMMA BookFrame ==
    ASSUME BookInv, UNCHANGED <<args, prune>>
    PROVE  BookInv'
  BY DEF BookInv, RefusedOK, Pending, Covered, Named, Asked, Bucket, KeptOK, PendingOK, args, prune

LEMMA Schemas ==
    ASSUME NEW n
    PROVE  Schema(n, ver) \in {"current", "newer", "legacy"}
  BY DEF Schema

(* What a selection has let through is of no newer schema. *)
LEMMA LaterRails ==
    ASSUME NEW n, PendingOK(n)
    PROVE  Schema(n, ver) # "newer"
  BY DEF PendingOK, ReportState

LEMMA RailNumbers ==
    /\ Rail("newer_schema") = 4 /\ Rail("legacy_not_requested") # 4
    /\ Rail("within_quiet_period") # 4 /\ Rail("recency_check_failed") # 4
    /\ Rail("unconsolidated_scans") # 4 /\ Rail("consolidation_check_failed") # 4
  BY DEF Rail

LEMMA ListBook ==
    ASSUME DataOK, BookInv, ListDatasets
    PROVE  BookInv'
<1>1. /\ pc = "list" /\ listed = {} /\ DOMAIN kept = {} /\ path = "none" /\ Pending = {}
      /\ failed = {} /\ deleted = {}
      /\ ~refused /\ UNCHANGED <<args, path, six, seven, chosen, deleted, failed, refused>>
  BY DEF ListDatasets, BookInv, DataOK, Pending
<1>2. CASE /\ pc' = "paths"
           /\ kept' = [n \in {x \in listed' : Schema(x, ver) = "newer"} |-> "newer_schema"]
  <2>1. DOMAIN kept' = Bucket("newer")' /\ \A n \in DOMAIN kept' : kept'[n] = "newer_schema"
    BY <1>1, <1>2 DEF Bucket, args
  <2>2. \A n \in DOMAIN kept' : KeptOK(n)'
    BY <1>1, <2>1, RailNumbers DEF KeptOK, Bucket, args
  <2> QED BY <1>1, <1>2, <2>1, <2>2 DEF BookInv, RefusedOK, Pending, Covered
<1>3. CASE pc' = "release" /\ UNCHANGED <<listed, kept>>
  BY <1>1, <1>3 DEF BookInv, RefusedOK, Pending, Named, Asked, Bucket, args
<1> QED BY <1>2, <1>3 DEF ListDatasets

LEMMA SelectBook ==
    ASSUME DataOK, BookInv, NextPath,
           NEW p \in {"retention", "legacy"}, Select(p, listed), pc' = pc,
           p = "retention" => path = "none" /\ window # NoWindow,
           p = "legacy" => legacy /\ (path = "retention" \/ (path = "none" /\ window = NoWindow))
    PROVE  BookInv'
<1>1. /\ pc = "paths" /\ six = {} /\ seven = {} /\ pc' = "paths" /\ path' = p
      /\ UNCHANGED <<args, listed, seven, chosen, deleted, failed>>
  BY SelectDomains DEF NextPath
<1>2. /\ refused' <=> p = "legacy" /\ Bucket("newer") # {}
      /\ DOMAIN Why(p, listed) = IF p = "retention" THEN Bucket("current")
                                 ELSE IF refused' THEN {} ELSE Bucket("legacy")
  <2>1. refused' = Refuses(p, listed)
    BY SelectDomains
  <2>2. DOMAIN Why(p, listed) =
            IF p = "retention" THEN {n \in listed : Schema(n, ver) = "current"}
            ELSE IF Refuses(p, listed) THEN {} ELSE {n \in listed : Schema(n, ver) = "legacy"}
    BY WhyDomain, Zenon
  <2>3. Refuses(p, listed) <=> p = "legacy" /\ Bucket("newer") # {}
    BY DEF Refuses, Bucket
  <2> QED BY <2>1, <2>2, <2>3 DEF Bucket
<1>3. /\ six' \subseteq DOMAIN Why(p, listed)
      /\ DOMAIN kept' = DOMAIN kept \cup (DOMAIN Why(p, listed) \ six')
  BY SelectDomains
<1>4. chosen \cup DOMAIN kept = Covered /\ chosen \cap DOMAIN kept = {} /\ deleted \cap failed = {}
  BY <1>1 DEF BookInv, Pending
<1>5. /\ listed = Bucket("newer") \cup Bucket("current") \cup Bucket("legacy")
      /\ Bucket("newer") \cap Bucket("current") = {}
      /\ Bucket("legacy") \cap (Bucket("newer") \cup Bucket("current")) = {}
  BY Schemas DEF Bucket
<1>6. Covered \cap DOMAIN Why(p, listed) = {}
  BY <1>2, <1>5 DEF Covered
<1>7. Covered' = Covered \cup DOMAIN Why(p, listed)
  <2>1. \A b : Bucket(b)' = Bucket(b)
    BY <1>1 DEF Bucket, args
  <2>2. CASE p = "retention"
    BY <1>1, <1>2, <2>1, <2>2 DEF Covered
  <2>3. CASE p = "legacy"
    <3>1. Covered' = IF refused' THEN Asked' \ Bucket("legacy") ELSE Asked'
      BY <1>1, <2>1, <2>3 DEF Covered, Named
    <3>2. Asked' = IF window = NoWindow THEN listed \ Bucket("current") ELSE listed
      BY <1>1, <2>1 DEF Asked, args
    <3>3. CASE path = "retention"
      <4>1. window # NoWindow
        BY <1>1, <3>3 DEF BookInv
      <4>2. Covered = Bucket("newer") \cup Bucket("current")
        BY <3>3 DEF Covered
      <4> QED BY <1>2, <1>5, <2>3, <3>1, <3>2, <4>1, <4>2
    <3>4. CASE path = "none" /\ window = NoWindow
      <4>1. Covered = Bucket("newer")
        BY <3>4 DEF Covered
      <4> QED BY <1>2, <1>5, <2>3, <3>1, <3>2, <3>4, <4>1
    <3> QED BY <2>3, <3>3, <3>4
  <2> QED BY <2>2, <2>3
<1>8. /\ Pending' = six' \cup chosen
      /\ Pending' \cup DOMAIN kept' = Covered' /\ Pending' \cap DOMAIN kept' = {}
  <2>1. Pending' = six' \cup chosen
    BY <1>1 DEF Pending
  <2> QED BY <1>3, <1>4, <1>6, <1>7, <2>1
<1>9. \A n \in Pending' : PendingOK(n)'
  <2>1. \A n \in chosen \cup six' : PendingOK(n)
    BY <1>1, Selected DEF BookInv, Pending
  <2> QED BY <1>1, <1>8, <2>1 DEF PendingOK, Bucket, args
<1>10. \A n \in DOMAIN kept' : KeptOK(n)'
  <2>1. ASSUME NEW n \in DOMAIN kept'
        PROVE  Rail(kept'[n]) = 4 <=> Schema(n, ver) = "newer"
    <3>1. CASE n \in DOMAIN Why(p, listed) \ six'
      BY <3>1, Selected
    <3>2. CASE n \notin DOMAIN Why(p, listed) \ six'
      <4>1. n \in DOMAIN kept /\ kept'[n] = kept[n]
        BY <1>3, <2>1, <3>2, Selected
      <4> QED BY <1>1, <4>1 DEF BookInv, KeptOK
    <3> QED BY <3>1, <3>2
  <2> QED BY <1>1, <2>1 DEF KeptOK, Bucket, args
<1>11. path' = "retention" => window' # NoWindow
  BY <1>1 DEF args
<1>12. RefusedOK'
  BY <1>1, <1>2 DEF RefusedOK, Bucket, args
<1> QED BY <1>1, <1>4, <1>8, <1>9, <1>10, <1>11, <1>12 DEF BookInv

LEMMA PathBook ==
    ASSUME DataOK, BookInv, NextPath
    PROVE  BookInv'
<1>1. /\ pc = "paths" /\ six = {} /\ seven = {}
      /\ UNCHANGED <<args, listed, seven, chosen, deleted, failed>>
  BY DEF NextPath
<1>2. CASE path = "none" /\ window # NoWindow /\ Select("retention", listed) /\ pc' = pc
  BY <1>2, SelectBook
<1>3. CASE /\ path = "retention" \/ (path = "none" /\ window = NoWindow)
           /\ legacy /\ Select("legacy", listed) /\ pc' = pc
  BY <1>3, SelectBook
<1>4. CASE /\ path = "retention" \/ (path = "none" /\ window = NoWindow)
           /\ ~legacy /\ path' = "legacy" /\ UNCHANGED <<six, refused>> /\ pc' = pc
           /\ kept' = Keeps([n \in Bucket("legacy") |-> "legacy_not_requested"],
                            Bucket("legacy"))
  <2>0. ~refused /\ ~refused' /\ RefusedOK'
    BY <1>1, <1>4 DEF BookInv, RefusedOK, args
  <2>1. \A b : Bucket(b)' = Bucket(b)
    BY <1>1 DEF Bucket, args
  <2>2. /\ DOMAIN kept' = DOMAIN kept \cup Bucket("legacy")
        /\ \A n \in Bucket("legacy") : kept'[n] = "legacy_not_requested"
        /\ \A n \in DOMAIN kept \ Bucket("legacy") : kept'[n] = kept[n]
    BY <1>4 DEF Keeps
  <2>3. chosen \cup DOMAIN kept = Covered /\ Covered \cap Bucket("legacy") = {}
    BY <1>1, <1>4 DEF BookInv, Pending, Covered, Bucket
  <2>4. Covered' = Covered \cup Bucket("legacy")
    <3>1. listed = Bucket("newer") \cup Bucket("current") \cup Bucket("legacy")
          /\ Bucket("legacy") \cap Bucket("current") = {}
          /\ Bucket("newer") \cap Bucket("current") = {}
      BY Schemas DEF Bucket
    <3>2. Covered' = IF window = NoWindow THEN listed \ Bucket("current") ELSE listed
      BY <1>1, <1>4, <2>0, <2>1 DEF Covered, Named, Asked, args
    <3>3. CASE path = "retention"
      <4>1. window # NoWindow /\ Covered = Bucket("newer") \cup Bucket("current")
        BY <1>1, <3>3 DEF BookInv, Covered
      <4> QED BY <3>1, <3>2, <4>1
    <3>4. CASE path = "none" /\ window = NoWindow
      <4>1. Covered = Bucket("newer")
        BY <3>4 DEF Covered
      <4> QED BY <3>1, <3>2, <3>4, <4>1
    <3> QED BY <1>4, <3>3, <3>4
  <2>5. Pending' = chosen /\ Pending' \cup DOMAIN kept' = Covered' /\ Pending' \cap DOMAIN kept' = {}
    <3>1. Pending' = chosen /\ chosen \cap DOMAIN kept = {}
      BY <1>1, <1>4 DEF Pending, BookInv
    <3> QED BY <2>2, <2>3, <2>4, <3>1
  <2>6. \A n \in Pending' : PendingOK(n)'
    BY <1>1, <2>1, <2>5 DEF BookInv, Pending, PendingOK, args
  <2>7. \A n \in DOMAIN kept' : KeptOK(n)'
    <3>1. \A n \in Bucket("legacy") : ~legacy /\ Schema(n, ver) = "legacy"
      BY <1>4 DEF Bucket
    <3>2. \A n \in DOMAIN kept : KeptOK(n)
      BY <1>1 DEF BookInv
    <3> QED BY <1>1, <2>1, <2>2, <3>1, <3>2, RailNumbers DEF KeptOK, args
  <2> QED BY <1>1, <1>4, <2>0, <2>5, <2>6, <2>7 DEF BookInv
<1>5. CASE path = "legacy" /\ pc' = "delete" /\ UNCHANGED <<path, six, kept, refused>>
  <2>1. \A b : Bucket(b)' = Bucket(b)
    BY <1>1 DEF Bucket, args
  <2>2. Pending' = Pending /\ Named' = Named /\ RefusedOK'
    BY <1>1, <1>5, <2>1 DEF Pending, Named, Asked, BookInv, RefusedOK, args
  <2>3. chosen \cup DOMAIN kept = Named
    BY <1>1, <1>5 DEF BookInv, Pending, Covered
  <2>4. \A n \in Pending' : PendingOK(n)'
    BY <1>1, <2>1, <2>2 DEF BookInv, PendingOK, args
  <2>5. \A n \in DOMAIN kept' : KeptOK(n)'
    BY <1>1, <1>5, <2>1 DEF BookInv, KeptOK, args
  <2> QED BY <1>1, <1>5, <2>2, <2>3, <2>4, <2>5 DEF BookInv
<1> QED BY <1>2, <1>3, <1>4, <1>5, PathSteps

(* A rail moves a dataset on, or keeps it for a reason of its own. *)
LEMMA RailBook ==
    ASSUME BookInv, NEW n \in Pending, pc = "paths", pc' = pc,
           UNCHANGED <<args, listed, path, deleted, failed, refused>>,
           \/ Pending' = Pending /\ UNCHANGED kept
           \/ /\ Pending' = Pending \ {n}
              /\ \E x \in {"within_quiet_period", "recency_check_failed", "unconsolidated_scans",
                           "consolidation_check_failed"} : Keep(n, x)
    PROVE  BookInv'
<1>1. \A b : Bucket(b)' = Bucket(b)
  BY DEF Bucket, args
<1>2. path \in {"none", "retention", "legacy"} => Covered' = Covered
  BY <1>1 DEF Covered, Named, Asked, args
<1>3. /\ Pending \cup DOMAIN kept = Covered /\ Pending \cap DOMAIN kept = {}
      /\ \A x \in Pending : PendingOK(x)
      /\ \A x \in DOMAIN kept : KeptOK(x)
      /\ path = "none" => Pending = {}
      /\ path = "retention" => window # NoWindow
  BY DEF BookInv
<1>4. /\ Pending' \cup DOMAIN kept' = Pending \cup DOMAIN kept /\ Pending' \cap DOMAIN kept' = {}
      /\ Pending' \subseteq Pending
  BY <1>3 DEF Keep, Keeps
<1>5. \A x \in DOMAIN kept' : KeptOK(x)'
  <2>1. CASE UNCHANGED kept
    BY <1>1, <1>3, <2>1 DEF KeptOK, args
  <2>2. ASSUME NEW y \in {"within_quiet_period", "recency_check_failed", "unconsolidated_scans",
                          "consolidation_check_failed"}, Keep(n, y)
        PROVE  \A x \in DOMAIN kept' : KeptOK(x)'
    <3>1. DOMAIN kept' = DOMAIN kept \cup {n} /\ kept'[n] = y
          /\ \A x \in DOMAIN kept \ {n} : kept'[x] = kept[x]
      BY <2>2 DEF Keep, Keeps
    <3>2. Rail(kept'[n]) # 4
      BY <3>1, RailNumbers
    <3>3. KeptOK(n)'
      BY <1>1, <1>3, <3>2, LaterRails DEF KeptOK, args
    <3> QED BY <1>1, <1>3, <3>1, <3>3 DEF KeptOK, args
  <2> QED BY <2>1, <2>2
<1>6. \A x \in Pending' : PendingOK(x)'
  BY <1>1, <1>3, <1>4 DEF PendingOK, args
<1>7. Covered' = Covered
  BY <1>1 DEF Covered, Named, Asked, args
<1>8. RefusedOK'
  BY <1>1 DEF BookInv, RefusedOK, args
<1> QED BY <1>3, <1>4, <1>5, <1>6, <1>7, <1>8 DEF BookInv, args

LEMMA BookStep ==
    ASSUME DataOK, BookInv, [Next]_vars
    PROVE  BookInv'
<1>1. CASE Tenant \/ Wipe \/ UNCHANGED vars
  <2>1. UNCHANGED <<args, prune>>
    BY <1>1 DEF Tenant, Frame, Write, Hush, NextMonth, Merge, OtherRun, LockAges, vars,
                Wipe, StartWipe, WipeLock, WipeRelease, WipeKilled, WipeDelete, WipeFrame
  <2> QED BY <2>1, BookFrame
<1>2. CASE \E w \in Windows \cup {NoWindow}, l \in BOOLEAN, q \in QuietHours : StartPrune(w, l, q)
  <2>1. pc' = "lock" /\ listed' = {} /\ DOMAIN kept' = {} /\ path' = "none" /\ Pending' = {}
        /\ failed' = {} /\ ~refused'
    BY <1>2 DEF StartPrune, Pending
  <2> QED BY <2>1 DEF BookInv
<1>3. CASE PruneLock
  BY <1>3 DEF PruneLock, BookInv, Pending
<1>4. CASE ListDatasets
  BY <1>4, ListBook
<1>5. CASE NextPath
  BY <1>5, PathBook
<1>6. ASSUME NEW n \in Names, RailSix(n) PROVE BookInv'
  <2>1. n \in Pending /\ pc = "paths" /\ pc' = pc
        /\ UNCHANGED <<args, listed, path, deleted, failed, refused>>
    BY <1>6 DEF RailSix, Pending
  <2>2. \/ Pending' = Pending /\ UNCHANGED kept
        \/ /\ Pending' = Pending \ {n}
           /\ \E x \in {"within_quiet_period", "recency_check_failed", "unconsolidated_scans",
                        "consolidation_check_failed"} : Keep(n, x)
    BY <1>6 DEF RailSix, Pending, DataOK
  <2> QED BY <2>1, <2>2, RailBook
<1>7. ASSUME NEW n \in Names, RailSeven(n) PROVE BookInv'
  <2>1. n \in Pending /\ pc = "paths" /\ pc' = pc
        /\ UNCHANGED <<args, listed, path, deleted, failed, refused>>
    BY <1>7 DEF RailSeven, Pending
  <2>2. \/ Pending' = Pending /\ UNCHANGED kept
        \/ /\ Pending' = Pending \ {n}
           /\ \E x \in {"within_quiet_period", "recency_check_failed", "unconsolidated_scans",
                        "consolidation_check_failed"} : Keep(n, x)
    BY <1>7 DEF RailSeven, Pending, DataOK
  <2> QED BY <2>1, <2>2, RailBook
<1>8. CASE (\E n \in Names : PruneDelete(n)) \/ EndDeletes \/ PruneRelease
  <2>1. /\ pc \in {"delete", "release"} /\ pc' \in {"delete", "release", "done"}
        /\ UNCHANGED <<args, listed, path, six, seven, chosen, kept, refused>>
    BY <1>8 DEF PruneDelete, RecordFailure, EndDeletes, PruneRelease
  <2>2. /\ deleted' \cap failed' = {}
        /\ pc' \in {"release", "done"} => chosen \subseteq deleted' \cup failed'
    BY <1>8 DEF PruneDelete, RecordFailure, EndDeletes, PruneRelease, BookInv
  <2> QED BY <2>1, <2>2 DEF BookInv, RefusedOK, Pending, Named, Asked, Bucket, KeptOK, PendingOK, args
<1>9. CASE PruneKilled
  BY <1>9 DEF PruneKilled, BookInv
<1> QED BY <1>1, <1>2, <1>3, <1>4, <1>5, <1>6, <1>7, <1>8, <1>9 DEF Next, Prune

-----------------------------------------------------------------------------
LEMMA DataStep ==
    ASSUME DataOK, FlagsOK, BookInv, [Next]_vars
    PROVE  DataOK'
<1>1. CASE UNCHANGED vars
  BY <1>1 DEF DataOK, vars, args, prune, wipe, history
<1> QED BY <1>1, TenantData, WipeData, PruneData DEF Next

(* The inductive invariant of a pass: what is selected is outside the        *)
(* retired targets, rows are in their shard or their target, what rail 7 saw *)
(* stays covered, and the books of the listing balance.                      *)
THEOREM PruneInductive == Spec => []PInv
<1>1. PInv /\ [Next]_vars => PInv'
  <2> SUFFICES ASSUME PInv, [Next]_vars PROVE PInv'
    OBVIOUS
  <2>1. DataOK /\ FlagsOK /\ NameInv /\ RowInv /\ MergedInv /\ SeenInv /\ BookInv
    BY DEF PInv, TypeOK
  <2>2. DataOK' /\ FlagsOK'
    BY <2>1, DataStep, FlagsStep
  <2>3. NameInv' /\ RowInv' /\ MergedInv'
    BY <2>1, NameStep, RowStep, MergedStep
  <2>4. SeenInv' /\ BookInv'
    BY <2>1, SeenStep, BookStep
  <2> QED BY <2>2, <2>3, <2>4 DEF PInv, TypeOK
<1> QED BY <1>1, PInit, PTL DEF Spec

(* The types and ranges of a pass hold whatever names, hosts and runs there  *)
(* are around it.                                                            *)
THEOREM PruneTyped == Spec => []TypeOK
<1>1. PInv => TypeOK
  BY DEF PInv
<1> QED BY <1>1, PruneInductive, PTL

(* A finished pass accounts, exactly once and by name, for every dataset of  *)
(* its listing that it was asked about; but for the legacy ones when it      *)
(* refuses the legacy path beside a newer schema, of which it tried none.    *)
THEOREM AllAccounted == Spec => []Accounted
<1>1. PInv => Accounted
  <2> SUFFICES ASSUME DataOK, BookInv, pc = "done" PROVE Accounted
    BY DEF PInv, TypeOK, Accounted
  <2>1. chosen = deleted \cup failed
    BY DEF BookInv, DataOK
  <2>2. Named = chosen \cup DOMAIN kept /\ chosen \cap DOMAIN kept = {} /\ deleted \cap failed = {}
    BY DEF BookInv, Pending
  <2>3. \A n \in chosen : PendingOK(n)
    BY DEF BookInv, Pending
  <2>4. \A n \in DOMAIN kept : KeptOK(n)
    BY DEF BookInv
  <2>5. refused <=> legacy /\ Bucket("newer") # {}
    BY DEF BookInv, RefusedOK, Bucket
  <2> QED BY <2>1, <2>2, <2>3, <2>4, <2>5 DEF Accounted, PendingOK, KeptOK
<1> QED BY <1>1, PruneInductive, PTL

(* A row a pruned shard takes with it is in its scan's target (or somebody   *)
(* wiped it from there), unless it was written after rail 7 had counted; or  *)
(* after the merge, and the counts merely coincided.                         *)
THEOREM OnlyCopyKept == Spec => OnlyCopySurvives
<1>1. PInv /\ [Next]_vars => [\A r \in lost' \ lost : r \notin seen \/ r \in late \cap alike]_vars
  <2> SUFFICES ASSUME PInv, Next, NEW r \in lost' \ lost, r \in seen PROVE r \in late \cap alike
    BY DEF vars
  <2>1. PICK n \in Names : PruneDelete(n) /\ lost' = lost \cup (IF Parsed(n) THEN Unmerged(n) ELSE {})
    BY DEF Next, Tenant, Frame, Write, Hush, NextMonth, Merge, OtherRun, LockAges, history,
           Wipe, StartWipe, WipeLock, WipeRelease, WipeKilled, WipeDelete, WipeFrame,
           Prune, StartPrune, PruneLock, ListDatasets, NextPath, RailSix, RailSeven, PruneDelete,
           EndDeletes, PruneRelease, PruneKilled
  <2>2. Parsed(n) /\ r \in rows[n] /\ r \notin gone /\ r \notin rows[TargetName(n, r[1])]
    BY <2>1 DEF Unmerged
  <2>3. n.scan = NoScan /\ r \in Rows
    BY <2>1, <2>2 DEF PInv, TypeOK, DataOK, NameInv, Pending, PruneDelete
  <2>4. r[2] = n
    <3>1. TargetName(r[2], r[1]).scan # NoScan
      BY <2>3, RowFacts, TargetFacts
    <3> QED BY <2>2, <2>3, <3>1 DEF PInv, RowInv
  <2> QED BY <2>2, <2>4 DEF PInv, SeenInv
<1> QED BY <1>1, PruneInductive, PTL DEF Spec, OnlyCopySurvives
=============================================================================
