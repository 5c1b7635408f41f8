----------------------------- MODULE Retention -----------------------------
(***************************************************************************)
(* YaraCleanup (prune_datasets) and YaraWipeAllDatasets (wipe_all) against  *)
(* the scanners that go on writing and the retired per-scan merge that      *)
(* copies a scan's rows to a target of its own.  A pruning pass queries a   *)
(* candidate twice (is it quiet? is every scan of it in its target?) and    *)
(* deletes it later; months end and hosts write in between.                 *)
(*                                                                          *)
(* Consolidation and ConsolidationLock model the merge and the lock: here   *)
(* the merge is one step, and the lock a marker with an owner and an age.   *)
(***************************************************************************)
EXTENDS DatasetNames, FiniteSets

CONSTANTS
    Shards,         \* the names that hosts write to
    Others,         \* names nothing writes to any more
    Scans,
    ShardOf,        \* function from Scans: the names a scan writes to
    MaxRows,        \* bound: rows of one scan in one shard
    Windows,        \* values of older_than_months; NoWindow: not given
    NoWindow,
    Ages,           \* how long a dataset may have been quiet: hours told apart
    QuietHours,     \* values of min_quiet_hours
    Versions,       \* values of schema_version
    MaxDeletes,     \* values of max_deletes; 0: no cap
    MaxMonth, MaxPasses, MaxWipes, MaxFaults      \* bounds

Targets == {TargetName(n, s) : n \in {x \in Shards : Parsed(x)}, s \in Scans}
Names == Shards \cup Others \cup Targets
Rows == {<<s, n, i>> : s \in Scans, n \in Shards, i \in 1..MaxRows}

ASSUME RetentionAssumption ==
    /\ IsFiniteSet(Shards) /\ IsFiniteSet(Others) /\ IsFiniteSet(Scans)
    /\ \A n \in Shards \cup Others :
          n = NameOf(n.prefix, n.kind, n.version, n.host, n.month, n.scan)
    /\ \A n \in Shards : n.scan = NoScan
    /\ ShardOf \in [Scans -> SUBSET Shards] /\ NoScan \notin Scans
    /\ Versions \subseteq Nat /\ MaxDeletes \subseteq Nat /\ QuietHours \subseteq Nat
    /\ Windows \subseteq Int /\ NoWindow \notin Int /\ 0 \in Ages /\ Ages \subseteq Nat
    /\ MaxRows \in Nat /\ MaxMonth \in Nat /\ MaxPasses \in Nat
    /\ MaxWipes \in Nat /\ MaxFaults \in Nat

VARIABLES
    present, rows,          \* datasets there are, and the rows of each
    age,                    \* hours since a dataset's newest row
    month,
    lock,                   \* the marker: [owner, age], see below
    window, legacy, quiet, ver,         \* what the pass was asked
    pc, listed, path, six, seven, chosen, deleted, failed, kept,
    refused,                \* is the legacy path refused as a whole?
    wipes, wpc, found, cap, wdeleted, wfailed,
    passes, faults,
    seen, late, alike, lost, gone   \* history: see the properties

args == <<window, legacy, quiet, ver>>
prune == <<pc, listed, path, six, seven, chosen, deleted, failed, kept, refused>>
wipe == <<wipes, wpc, found, cap, wdeleted, wfailed>>
history == <<seen, late, alike, lost, gone>>
vars == <<present, rows, age, month, lock, args, prune, wipe, passes, faults, history>>

(* The lock's marker.  Its age is 0, 1 (past DEFAULT_LOCK_STALE_SECS, twenty *)
(* minutes) or 2 (past PRUNE_LOCK_STALE_SECS, six hours).                    *)
Free == [owner |-> "none", age |-> 0]
Marker(o) == [owner |-> o, age |-> 0]

Fault == faults < MaxFaults /\ faults' = faults + 1

Init ==
    /\ present = Others /\ rows = [n \in Names |-> {}]
    /\ age = [n \in Names |-> 0] /\ month = 1 /\ lock = Free
    /\ window = NoWindow /\ legacy = FALSE /\ quiet = 24 /\ ver \in Versions
    /\ pc = "idle" /\ listed = {} /\ path = "none" /\ six = {} /\ seven = {}
    /\ chosen = {} /\ deleted = {} /\ failed = {} /\ kept = <<>>
    /\ refused = FALSE
    /\ wipes = 0 /\ wpc = "idle" /\ found = {} /\ cap = 0 /\ wdeleted = {} /\ wfailed = {}
    /\ passes = 0 /\ faults = 0
    /\ seen = {} /\ late = {} /\ alike = {} /\ lost = {} /\ gone = {}

-----------------------------------------------------------------------------
(* The tenant around a pass. *)
Frame == UNCHANGED <<args, prune, wipe, passes>>

(* A host adds a row to its shard, which is created (again) if need be.      *)
(* The name was built when the scan started, whatever month it is now.       *)
Write(s, n) ==
    /\ n \in ShardOf[s]
    /\ \E i \in 1..MaxRows :
        LET r == <<s, n, i>> IN
        /\ \A x \in Names : r \notin rows[x]
        /\ r \notin lost \cup gone
        /\ i > 1 => <<s, n, i - 1>> \in UNION {rows[x] : x \in Names} \cup lost \cup gone
        /\ rows' = [rows EXCEPT ![n] = @ \cup {r}]
        /\ late' = IF TargetName(n, s) \in present THEN late \cup {r} ELSE late
    /\ present' = present \cup {n} /\ age' = [age EXCEPT ![n] = 0]
    /\ UNCHANGED <<month, lock, faults, seen, alike, lost, gone>> /\ Frame

(* Hours go by without a row. *)
Hush(n) ==
    /\ n \in present \cap Shards
    /\ \E a \in Ages : a > age[n] /\ age' = [age EXCEPT ![n] = a]
    /\ UNCHANGED <<present, rows, month, lock, faults, history>> /\ Frame

NextMonth ==
    /\ month < MaxMonth /\ month' = month + 1
    /\ UNCHANGED <<present, rows, age, lock, faults, history>> /\ Frame

OfScan(s, n) == {r \in rows[n] : r[1] = s}

(* The retired merge: a scan's rows, of all its shards of a kind, to the     *)
(* scan's target, once; and, of the kind matches, out of the shards.         *)
Sources(t, s) == {x \in Shards : Parsed(x) /\ ~Overwrite(x) /\ TargetName(x, s) = t}
Copied(t, s) == UNION {OfScan(s, x) : x \in Sources(t, s)}
Moved(t, s) == {x \in Sources(t, s) : x.kind = "matches"}

Merge(s, n) ==
    LET t == TargetName(n, s) IN
    /\ lock.owner = "other" /\ n \in Sources(t, s)
    /\ t \notin present /\ OfScan(s, n) # {}
    /\ present' = present \cup {t}
    /\ rows' = [x \in Names |-> IF x = t THEN Copied(t, s)
                               ELSE IF x \in Moved(t, s) THEN rows[x] \ OfScan(s, x)
                               ELSE rows[x]]
    /\ UNCHANGED <<age, month, lock, faults, history>> /\ Frame

OtherRun ==
    /\ \/ (lock = Free \/ lock.age >= 1) /\ lock' = Marker("other")
       \/ lock.owner = "other" /\ lock' = Free
    /\ UNCHANGED <<present, rows, age, month, faults, history>> /\ Frame

LockAges ==
    /\ lock.owner \in {"prune", "wipe"} /\ lock.age < 2 /\ lock' = [lock EXCEPT !.age = @ + 1]
    /\ UNCHANGED <<present, rows, age, month, faults, history>> /\ Frame

(* acquire_consolidation_lock, unreadable_is_held.  A marker whose row       *)
(* cannot be read (or not yet) is held; one older than `stale` is taken.     *)
Acquires(o, stale) == (lock = Free \/ lock.age >= stale) /\ lock' = Marker(o)
StandsDown(stale) ==
    /\ lock # Free /\ UNCHANGED lock
    /\ \/ lock.age < stale /\ UNCHANGED faults
       \/ Fault

-----------------------------------------------------------------------------
(* prune_datasets *)
PruneFrame == UNCHANGED <<month, age, wipe>>

(* main: a negative window is 0, a quiet period under an hour is an hour.    *)
(* With neither a window nor delete_legacy nothing is asked and nothing done. *)
Clamped(w) == IF w = NoWindow \/ w >= 0 THEN w ELSE 0

Floored(q) == IF q < 1 THEN 1 ELSE q

StartPrune(w, l, q) ==
    /\ pc \in {"idle", "done"} /\ passes < MaxPasses /\ passes' = passes + 1
    /\ w # NoWindow \/ l
    /\ window' = Clamped(w) /\ legacy' = l /\ quiet' = Floored(q) /\ UNCHANGED ver
    /\ pc' = "lock" /\ listed' = {} /\ path' = "none" /\ six' = {} /\ seven' = {}
    /\ chosen' = {} /\ deleted' = {} /\ failed' = {} /\ kept' = <<>> /\ refused' = FALSE
    /\ seen' = {} /\ alike' = {}
    /\ UNCHANGED <<present, rows, lock, faults, late, lost, gone>> /\ PruneFrame

PruneLock ==
    /\ pc = "lock"
    /\ \/ Acquires("prune", 2) /\ pc' = "list" /\ UNCHANGED faults
       \/ StandsDown(2) /\ pc' = "idle"
    /\ UNCHANGED <<present, rows, args, listed, path, six, seven, chosen, deleted, failed,
                   kept, refused, passes, history>> /\ PruneFrame

Bucket(b) == {n \in listed : Schema(n, ver) = b}
Keeps(reason, S) == [n \in DOMAIN kept \cup S |-> IF n \in S THEN reason[n] ELSE kept[n]]

(* The two selections from names alone: why[n] for the names of a path.      *)
(* With a newer schema about, the legacy one says nothing of any name.       *)
Refuses(p, L) == p = "legacy" /\ \E n \in L : Schema(n, ver) = "newer"

Why(p, L) ==
    LET in(b) == {n \in L : Schema(n, ver) = b} IN
    IF p = "retention"
    THEN [n \in in("current") |-> Retention(n, in("current"), window, month)]
    ELSE [n \in IF Refuses(p, L) THEN {} ELSE in("legacy") |-> Legacy(n, month)]

(* One selection: its candidates go to rail 6, the others are kept.  The     *)
(* refusal of the legacy path is one record, which names no dataset.         *)
Select(p, L) ==
    LET why == Why(p, L)
        cand == {n \in DOMAIN why : why[n] = "candidate"}
    IN  /\ path' = p /\ six' = cand
        /\ kept' = Keeps(why, DOMAIN why \ cand)
        /\ refused' = Refuses(p, L)

(* classify_yara_datasets; the newer bucket is kept at once (rail 4).  A     *)
(* listing that fails ends the pass, in the finally.                         *)
ListDatasets ==
    /\ pc = "list"
    /\ \/ /\ listed' = {n \in present : Owned(n)} /\ pc' = "paths" /\ UNCHANGED faults
          /\ kept' = [n \in {x \in listed' : Schema(x, ver) = "newer"} |-> "newer_schema"]
       \/ Fault /\ pc' = "release" /\ UNCHANGED <<listed, kept>>
    /\ UNCHANGED <<present, rows, lock, args, path, six, seven, chosen, deleted, failed,
                   refused, passes, history>> /\ PruneFrame

NextPath ==
    /\ pc = "paths" /\ six = {} /\ seven = {}
    /\ \/ path = "none" /\ window # NoWindow /\ Select("retention", listed) /\ UNCHANGED pc
       \/ /\ \/ path = "retention"
             \/ path = "none" /\ window = NoWindow
          /\ IF legacy THEN Select("legacy", listed)
             ELSE /\ path' = "legacy" /\ UNCHANGED <<six, refused>>
                  /\ kept' = Keeps([n \in Bucket("legacy") |-> "legacy_not_requested"],
                                   Bucket("legacy"))
          /\ UNCHANGED pc
       \/ path = "legacy" /\ pc' = "delete" /\ UNCHANGED <<path, six, kept, refused>>
    /\ UNCHANGED <<present, rows, lock, args, listed, seven, chosen, deleted, failed, passes,
                   faults, history>> /\ PruneFrame

Keep(n, reason) == kept' = Keeps([x \in {n} |-> reason], {n})

(* filter_recently_written.  An empty dataset has no newest row. *)
Quiet(n) == rows[n] = {} \/ age[n] >= quiet

RailSix(n) ==
    /\ pc = "paths" /\ n \in six /\ six' = six \ {n}
    /\ \/ Quiet(n) /\ seven' = seven \cup {n} /\ UNCHANGED <<kept, faults>>
       \/ ~Quiet(n) /\ Keep(n, "within_quiet_period") /\ UNCHANGED <<seven, faults>>
       \/ Fault /\ Keep(n, "recency_check_failed") /\ UNCHANGED seven
    /\ UNCHANGED <<present, rows, lock, args, pc, listed, path, chosen, deleted, failed,
                   refused, passes, history>> /\ PruneFrame

(* Seeded fault: a target that is not there has nothing to compare. *)
NothingToCompare(s, n) ==
    TargetName(n, s) \in present =>
        Cardinality(rows[TargetName(n, s)]) = Cardinality(OfScan(s, n))

SameCount(s, n) ==
    /\ TargetName(n, s) \in present
    /\ Cardinality(rows[TargetName(n, s)]) = Cardinality(OfScan(s, n))

(* filter_unconsolidated: the scans of the dataset whose target does not     *)
(* have as many rows as it has; a name outside the contract is not gated.    *)
Stuck(n) == {s \in Scans : Parsed(n) /\ OfScan(s, n) # {} /\ ~SameCount(s, n)}

(* History: the rows the rail has seen, and those it takes for merged only   *)
(* because the target happens to have their number.                          *)
Unmerged(n) == {r \in rows[n] \ gone : r \notin rows[TargetName(n, r[1])]}
CountedAlike(n) ==
    {r \in Unmerged(n) : Cardinality(rows[TargetName(n, r[1])]) = Cardinality(OfScan(r[1], n))}

RailSeven(n) ==
    /\ pc = "paths" /\ six = {} /\ n \in seven /\ seven' = seven \ {n}
    /\ \/ Stuck(n) = {} /\ chosen' = chosen \cup {n} /\ UNCHANGED <<kept, faults>>
          /\ seen' = seen \cup rows[n]
          /\ alike' = IF Parsed(n) THEN alike \cup CountedAlike(n) ELSE alike
       \/ Stuck(n) # {} /\ Keep(n, "unconsolidated_scans")
          /\ UNCHANGED <<chosen, faults, seen, alike>>
       \/ Fault /\ Keep(n, "consolidation_check_failed") /\ UNCHANGED <<chosen, seen, alike>>
    /\ UNCHANGED <<present, rows, lock, args, pc, listed, path, six, deleted, failed, refused,
                   passes, late, lost, gone>> /\ PruneFrame

(* Seeded fault: a delete that raises ends the loop unrecorded. *)
StopAtFailure(n) == pc' = "release" /\ UNCHANGED failed

RecordFailure(n) == failed' = failed \cup {n} /\ UNCHANGED pc

(* delete_dataset; a dataset that is not there is deleted already. *)
Drop(n) ==
    /\ present' = present \ {n} /\ rows' = [rows EXCEPT ![n] = {}]
    /\ gone' = gone \cup rows[n]

(* One dataset after another; one that fails does not strand the rest, and   *)
(* it may have been deleted, if it was the answer that was lost.             *)
PruneDelete(n) ==
    /\ pc = "delete" /\ n \in chosen \ (deleted \cup failed)
    /\ \/ /\ Drop(n) /\ lost' = lost \cup (IF Parsed(n) THEN Unmerged(n) ELSE {})
          /\ deleted' = deleted \cup {n} /\ UNCHANGED <<pc, failed, faults>>
       \/ /\ Fault /\ RecordFailure(n) /\ UNCHANGED deleted
          /\ \/ Drop(n) /\ lost' = lost \cup (IF Parsed(n) THEN Unmerged(n) ELSE {})
             \/ UNCHANGED <<present, rows, gone, lost>>
    /\ UNCHANGED <<lock, args, listed, path, six, seven, chosen, kept, refused, passes, seen,
                   late, alike>> /\ PruneFrame

EndDeletes ==
    /\ pc = "delete" /\ chosen \subseteq deleted \cup failed /\ pc' = "release"
    /\ UNCHANGED <<present, rows, lock, args, listed, path, six, seven, chosen, deleted,
                   failed, kept, refused, passes, faults, history>> /\ PruneFrame

(* release_consolidation_lock deletes the marker, whoever put it there. *)
PruneRelease ==
    /\ pc = "release" /\ pc' = "done"
    /\ \/ lock' = Free /\ UNCHANGED faults
       \/ Fault /\ UNCHANGED lock
    /\ UNCHANGED <<present, rows, args, listed, path, six, seven, chosen, deleted, failed,
                   kept, refused, passes, history>> /\ PruneFrame

(* The task is killed: the marker stays. *)
PruneKilled ==
    /\ pc \in {"list", "paths", "delete", "release"} /\ Fault /\ pc' = "idle"
    /\ UNCHANGED <<present, rows, lock, args, listed, path, six, seven, chosen, deleted,
                   failed, kept, refused, passes, history>> /\ PruneFrame

-----------------------------------------------------------------------------
(* wipe_all.  The candidates are listed before the lock is taken. *)
WipeFrame == UNCHANGED <<passes, age, month, args, prune, seen, late, alike, lost>>
Preserved == {n \in Names : n.kind = "log"}

StartWipe ==
    /\ wpc = "idle" /\ wipes < MaxWipes /\ wipes' = wipes + 1
    /\ found' = {n \in present : n.prefix = "yara_scanner"} \ Preserved
    /\ cap' \in MaxDeletes /\ wpc' = "lock" /\ wdeleted' = {} /\ wfailed' = {}
    /\ UNCHANGED <<present, rows, lock, faults, gone>> /\ WipeFrame

WipeLock ==
    /\ wpc = "lock"
    /\ \/ Acquires("wipe", 1) /\ wpc' = "delete" /\ UNCHANGED faults
       \/ StandsDown(1) /\ wpc' = "idle"
    /\ UNCHANGED <<present, rows, wipes, found, cap, wdeleted, wfailed, gone>> /\ WipeFrame

(* _delete_all, as many as the cap lets: 0 for none. *)
Attempted == wdeleted \cup wfailed
WithinCap == cap = 0 \/ Cardinality(Attempted) < cap

WipeDelete(n) ==
    /\ wpc = "delete" /\ n \in found \ Attempted /\ WithinCap
    /\ \/ Drop(n) /\ wdeleted' = wdeleted \cup {n} /\ UNCHANGED <<wfailed, faults>>
       \/ /\ Fault /\ wfailed' = wfailed \cup {n} /\ UNCHANGED wdeleted
          /\ Drop(n) \/ UNCHANGED <<present, rows, gone>>
    /\ UNCHANGED <<wpc, wipes, lock, found, cap>> /\ WipeFrame

(* All attempted, or the cap reached: what is left is owed to another pass.  *)
WipeRelease ==
    /\ wpc = "delete" /\ (found \subseteq Attempted \/ ~WithinCap)
    /\ wpc' = "idle"
    /\ \/ lock' = Free /\ UNCHANGED faults
       \/ Fault /\ UNCHANGED lock
    /\ UNCHANGED <<present, rows, wipes, found, cap, wdeleted, wfailed, gone>> /\ WipeFrame

WipeKilled ==
    /\ wpc = "delete" /\ Fault /\ wpc' = "idle"
    /\ UNCHANGED <<present, rows, lock, wipes, found, cap, wdeleted, wfailed, gone>> /\ WipeFrame

Tenant ==
    \/ \E s \in Scans, n \in Shards : Write(s, n) \/ Merge(s, n)
    \/ \E n \in Shards : Hush(n)
    \/ NextMonth \/ OtherRun \/ LockAges

Prune ==
    \/ \E w \in Windows \cup {NoWindow}, l \in BOOLEAN, q \in QuietHours : StartPrune(w, l, q)
    \/ PruneLock \/ ListDatasets \/ NextPath
    \/ \E n \in Names : RailSix(n) \/ RailSeven(n) \/ PruneDelete(n)
    \/ EndDeletes \/ PruneRelease \/ PruneKilled

Wipe ==
    \/ StartWipe \/ WipeLock \/ WipeRelease \/ WipeKilled
    \/ \E n \in Names : WipeDelete(n)

Next == Tenant \/ Prune \/ Wipe
Spec == Init /\ [][Next]_vars

-----------------------------------------------------------------------------
(* Types and ranges: selections lie in the listing, and a pass never waits   *)
(* on both rails for one dataset.                                            *)
DataOK ==
    /\ present \subseteq Names /\ rows \in [Names -> SUBSET Rows]
    /\ \A n \in Names \ present : rows[n] = {}
    /\ age \in [Names -> Ages] /\ month \in Nat
    /\ lock \in [owner : {"none", "prune", "wipe", "other"}, age : 0..2]
    /\ window \in {NoWindow} \cup Nat /\ quiet \in Nat \ {0} /\ ver \in Versions
    /\ listed \subseteq Names /\ six \cup seven \cup chosen \subseteq listed
    /\ six \cap seven = {} /\ (six \cup seven) \cap chosen = {}
    /\ deleted \cup failed \subseteq chosen /\ DOMAIN kept \subseteq listed
    /\ found \subseteq Names /\ cap \in MaxDeletes \cup {0} /\ wdeleted \cup wfailed \subseteq found
    /\ seen \cup late \cup alike \cup lost \cup gone \subseteq Rows
    /\ passes \in 0..MaxPasses /\ wipes \in 0..MaxWipes /\ faults \in 0..MaxFaults

FlagsOK ==
    /\ legacy \in BOOLEAN /\ refused \in BOOLEAN
    /\ pc \in {"idle", "lock", "list", "paths", "delete", "release", "done"}
    /\ path \in {"none", "retention", "legacy"}
    /\ wpc \in {"idle", "lock", "delete"}

TypeOK == DataOK /\ FlagsOK

(* Pruning deletes no row's only copy: a row that a pruned shard of the      *)
(* naming contract takes with it is in the scan's target (or somebody wiped  *)
(* it from there), unless it was written after rail 7 had counted the shard; *)
(* or, a count being all that the rail compares, after the merge, if as many *)
(* such rows are in the shard as the target has.                             *)
OnlyCopySurvives == [][\A r \in lost' \ lost : r \notin seen \/ r \in late \cap alike]_vars

(* Every dataset the pass has listed is accounted for, once: deleted,        *)
(* failed, or kept for a reason, by name.  What goes unnamed is what the     *)
(* pass was not asked about (current names when no window was given) and,    *)
(* when there is a schema newer than the pass knows, all legacy names: the   *)
(* report then has one refusal for the path instead, and none of them was    *)
(* tried.  Nothing was tried but what an inventory shows as rotated or       *)
(* legacy (SKIP_REASONS, prune_datasets).                                    *)
Asked == IF window = NoWindow THEN listed \ Bucket("current") ELSE listed
Named == IF refused THEN Asked \ Bucket("legacy") ELSE Asked
Accounted ==
    pc = "done" =>
        /\ Named = deleted \cup failed \cup DOMAIN kept
        /\ deleted \cap failed = {} /\ (deleted \cup failed) \cap DOMAIN kept = {}
        /\ refused <=> legacy /\ Bucket("newer") # {}
        /\ \A n \in deleted \cup failed :
              ReportState(n, ver, Bucket("current")) \in {"rotated", "legacy"}
        /\ \A n \in DOMAIN kept : Rail(kept[n]) = 4 <=> Schema(n, ver) = "newer"
=============================================================================
