--------------------------- MODULE Consolidation ---------------------------
(***************************************************************************)
(* The per-scan consolidation pass of xdr/xdr_consolidate.py, racing the   *)
(* hosts that write the shards it reads.                                   *)
(*                                                                         *)
(* A scanner appends rows to a per-host, per-month SHARD of one of two     *)
(* kinds, "matches" and "scans" (lifecycle rows).  A scan id carries its   *)
(* host's name, so a scan has one host.  A pass copies the rows            *)
(* of every finished scan into one TARGET dataset per (kind, scan), checks *)
(* the copy by COUNTING, strips the copied rows (matches only) and deletes *)
(* the shards all of whose scans were verified.  A pass can be killed at   *)
(* any step (the 900 s task timeout) and the next one starts from what the *)
(* tenant holds.                                                           *)
(*                                                                         *)
(* A row belongs to one scan and one shard, so "the rows now in their      *)
(* shard" and "the rows now in their target" are two sets of rows, and the *)
(* content of a dataset is the part of one of them that belongs to it.     *)
(* This is sound for ONE writer per target: a target is written only when  *)
(* it is empty, each row pulled once.  Two passes at once are the subject  *)
(* of module ConsolidationLock.                                            *)
(***************************************************************************)
EXTENDS Naturals, FiniteSets

CONSTANTS
    Scans,         \* scan ids, numbers in the order sorted() gives them
    Shards,        \* per-host shards of one schema version
    Rows,          \* rows the hosts may author, numbered by event_timestamp_ms
    KindOf,        \* [Shards -> Kinds]: parse_shard(name)["kind"]
    ScanOf,        \* [Rows -> Scans]: the row's scan_id column
    ShardOf,       \* [Rows -> Shards]: the dataset the scanner sends it to
    TerminalRows,  \* lifecycle rows whose status is completed/cancelled/failed
    Skippable,     \* rows add_data silently skips (a value its schema refuses)
    RowCeiling,    \* row_ceiling
    WriteBatch,    \* _WRITE_BATCH
    PullLimit,     \* limit of _rows_for_scan
    MaxScans,      \* max_scans of consolidate_all; 0 is None
    MaxAborts,     \* bound: passes killed or failed part-way
    MaxFailures    \* bound: remove_lookup_data / delete_dataset calls that fail

Kinds == {"matches", "scans"}

ASSUME ConstantsAssumption ==
    /\ Scans \subseteq Nat /\ IsFiniteSet(Scans) /\ Scans # {}
    /\ Rows \subseteq Nat /\ IsFiniteSet(Rows)
    /\ KindOf \in [Shards -> Kinds]
    /\ ScanOf \in [Rows -> Scans]
    /\ ShardOf \in [Rows -> Shards]
    /\ TerminalRows \subseteq {r \in Rows : KindOf[ShardOf[r]] = "scans"}
    /\ Skippable \subseteq Rows
    /\ RowCeiling \in Nat /\ MaxScans \in Nat
    /\ WriteBatch \in Nat \ {0} /\ PullLimit \in Nat \ {0}
    /\ MaxAborts \in Nat /\ MaxFailures \in Nat

VARIABLES
    phase,     \* [Scans -> ...]: where the scan is on its host
    silence,   \* [Scans -> [Kinds -> 0..2]]: age class of its newest row
    sent,      \* history: every row the tenant ever accepted from a host
    late,      \* history: those that came once their group was Closed
    held,      \* rows now in their shard
    live,      \* shards that exist as datasets
    merged,    \* rows now in their per-scan target
    overrun,   \* history: rows a deleted shard got after it was counted
    pc,        \* where the pass is
    kind,      \* the kind run_consolidation is called for
    wanted,    \* only_scan_ids
    terminal,  \* scans the lifecycle rows it read call finished
    snap,      \* shard rows of this kind when the pass counted them
    passed,    \* scans of snap the gate lets through
    todo,      \* groups still to process
    verified,  \* scans whose target was verified by this run_consolidation
    cur,       \* the scan being processed
    srcs,      \* its source shards still to read or to strip
    pending,   \* rows pulled from a source and not yet sent to the target
    toDelete,  \* shards the deletion pass has still to try
    aborts, failures

host == <<phase, silence, sent, late>>
tenant == <<held, live, merged, overrun>>
local == <<pc, kind, wanted, terminal, snap, passed, todo, verified, cur, srcs, pending, toDelete>>
bounds == <<aborts, failures>>
vars == <<host, tenant, local, bounds>>

-----------------------------------------------------------------------------
(* Age classes: below the quiet period, past it, past the abandoned cutoff. *)
Fresh == 0
Quiet == 1
Abandoned == 2

RowKind(r) == KindOf[ShardOf[r]]
Group(k, s) == {r \in Rows : RowKind(r) = k /\ ScanOf[r] = s}
AnyScan == CHOOSE s \in Scans : TRUE

(* The rows a shard or a target holds. *)
ShardRows(d) == {r \in held : ShardOf[r] = d}
Target(k, s) == merged \cap Group(k, s)

(* The counts and memberships a pass took when it read the shards. *)
Counted(s) == snap \cap Group(kind, s)
Sources(s) == {ShardOf[r] : r \in Counted(s)}
Members(d) == {ScanOf[r] : r \in {q \in snap : ShardOf[q] = d}}

Init ==
    /\ phase = [s \in Scans |-> "running"]
    /\ silence = [s \in Scans |-> [k \in Kinds |-> Fresh]]
    /\ sent = {} /\ late = {} /\ held = {} /\ live = {} /\ merged = {} /\ overrun = {}
    /\ pc = "idle" /\ kind = "matches" /\ wanted = {} /\ terminal = {}
    /\ snap = {} /\ passed = {}
    /\ todo = {} /\ verified = {} /\ cur = AnyScan
    /\ srcs = {} /\ pending = {} /\ toDelete = {}
    /\ aborts = 0 /\ failures = 0

-----------------------------------------------------------------------------
(* The hosts.  A scan writes while it runs; its terminal row is sent inline, *)
(* BEFORE the uploaders drain, and what was queued arrives after it.  The    *)
(* cutoff (24 h) exceeds the script timeout (6 h): no row comes past it.     *)
MayArrive(r) ==
    LET s == ScanOf[r] IN
    /\ r \notin sent
    /\ phase[s] \in {"running", "draining"}
    /\ r \in TerminalRows => phase[s] = "running"
    /\ silence[s][RowKind(r)] < Abandoned

(* What the gate takes for the end of (s, k): it is over, silent for good,  *)
(* or was quiet already when the terminal row came.  In the last case the   *)
(* drain may yet bring rows.                                                *)
Closed(s, k) ==
    \/ phase[s] = "ended"
    \/ silence[s][k] = Abandoned
    \/ phase[s] = "draining" /\ (silence[s][k] # Fresh \/ late \cap Group(k, s) # {})

HostWrite(r) ==
    /\ MayArrive(r)
    /\ sent' = sent \cup {r}
    /\ late' = IF Closed(ScanOf[r], RowKind(r)) THEN late \cup {r} ELSE late
    /\ held' = held \cup {r}
    /\ live' = live \cup {ShardOf[r]}
    /\ phase' = IF r \in TerminalRows
                THEN [phase EXCEPT ![ScanOf[r]] = "draining"] ELSE phase
    /\ silence' = [silence EXCEPT ![ScanOf[r]][RowKind(r)] = Fresh]
    /\ UNCHANGED <<merged, overrun, local, bounds>>

DrainEnds(s) ==
    /\ phase[s] = "draining"
    /\ phase' = [phase EXCEPT ![s] = "ended"]
    /\ UNCHANGED <<silence, sent, late, tenant, local, bounds>>

(* Time passes with no new row of this scan and kind.  The drain is bounded *)
(* (600 s) below the quiet period (900 s), so no class is crossed during it. *)
Age(s, k) ==
    /\ sent \cap Group(k, s) # {}
    /\ silence[s][k] < Abandoned
    /\ phase[s] # "draining"
    /\ silence' = [silence EXCEPT ![s][k] = @ + 1]
    /\ UNCHANGED <<phase, sent, late, tenant, local, bounds>>

-----------------------------------------------------------------------------
(* The gate.  Terminality is read shard by shard: build_terminal_map keeps, *)
(* for one (scan, host), the newest status of the shard it visited LAST.    *)
LifecycleShards(s) == {ShardOf[r] : r \in held \cap Group("scans", s)}
NewestIsTerminal(S) == \E r \in S \cap TerminalRows : \A q \in S : q <= r
ReadsTerminal(s, d) == NewestIsTerminal(ShardRows(d) \cap Group("scans", s))

TerminalMaps ==
    {T \in SUBSET Scans :
        \A s \in Scans :
            LET D == LifecycleShards(s) IN
            IF s \in T THEN \E d \in D : ReadsTerminal(s, d)
                       ELSE D = {} \/ \E d \in D : ~ReadsTerminal(s, d)}

(* Seeded faults: a gate that ignores the lifecycle, and one that waits for *)
(* a terminal row for ever.                                                 *)
GateOnQuietOnly(s, k, T) == silence[s][k] >= Quiet
GateOnTerminalOnly(s, k, T) == silence[s][k] >= Quiet /\ s \in T

GateOpen(s, k, T) ==
    /\ silence[s][k] >= Quiet
    /\ s \in T \/ silence[s][k] = Abandoned

(* check_consolidation_status: every kind must agree the scan is ready. *)
Eligible(T) ==
    {s \in Scans :
        /\ \E k \in Kinds : held \cap Group(k, s) # {}
        /\ \A k \in Kinds : held \cap Group(k, s) # {} =>
              /\ GateOpen(s, k, T)
              /\ Cardinality(held \cap Group(k, s)) <= RowCeiling}

FirstN(S, n) == {s \in S : Cardinality({t \in S : t < s}) < n}

(* consolidate_all under the lock: choose the scans of this pass. *)
StartPass ==
    /\ pc = "idle"
    /\ pc' = "snapshot"
    /\ kind' = "matches"
    /\ IF MaxScans = 0 THEN wanted' = Scans
       ELSE \E T \in TerminalMaps : wanted' = FirstN(Eligible(T), MaxScans)
    /\ UNCHANGED <<host, tenant, terminal, snap, passed, todo, verified, cur, srcs, pending,
                   toDelete, bounds>>

(* run_consolidation reads the lifecycle rows first, for either kind... *)
ReadLifecycle ==
    /\ pc = "snapshot" /\ kind = "matches"
    /\ pc' = "count"
    /\ terminal' \in TerminalMaps
    /\ UNCHANGED <<host, tenant, kind, wanted, snap, passed, todo, verified, cur, srcs,
                   pending, toDelete, bounds>>

(* ...and decides on the counts and ages it then reads, before any write. *)
(* Lifecycle shards are counted on the rows already read.                 *)
Decide(T) ==
    /\ snap' = {r \in held : RowKind(r) = kind}
    /\ todo' = {ScanOf[r] : r \in snap'} \cap wanted
    /\ passed' = {s \in todo' : GateOpen(s, kind, T)}

Snapshot ==
    /\ \/ pc = "count" /\ Decide(terminal)
       \/ pc = "snapshot" /\ kind = "scans" /\ \E T \in TerminalMaps : Decide(T)
    /\ pc' = "scan"
    /\ terminal' = {}
    /\ UNCHANGED <<host, tenant, kind, wanted, verified, cur, srcs, pending, toDelete,
                   bounds>>

-----------------------------------------------------------------------------
(* The loop over the scans of the snapshot, in sorted order. *)
IsNext(s) == pc = "scan" /\ s \in todo /\ \A t \in todo : s <= t
Refused(s) == s \notin passed \/ Cardinality(Counted(s)) > RowCeiling

(* Deferred by the gate, or above the row ceiling. *)
SkipScan(s) ==
    /\ IsNext(s)
    /\ Refused(s)
    /\ todo' = todo \ {s}
    /\ UNCHANGED <<host, tenant, pc, kind, wanted, terminal, snap, passed, verified, cur, srcs,
                   pending, toDelete, bounds>>

(* A verified scan: strip its rows from its sources (matches), or go on. *)
Verify(s) ==
    /\ verified' = verified \cup {s}
    /\ IF kind = "matches"
       THEN pc' = "cleanup" /\ srcs' = Sources(s) /\ cur' = s
       ELSE pc' = "scan" /\ srcs' = {} /\ cur' = cur

(* Seeded fault: a finished target is recognised but not counted as verified. *)
MergedNotVerified(s) ==
    /\ IsNext(s)
    /\ ~Refused(s)
    /\ Cardinality(Target(kind, s)) >= Cardinality(Counted(s))
    /\ todo' = todo \ {s}
    /\ UNCHANGED <<host, tenant, pc, kind, wanted, terminal, snap, passed, verified, cur, srcs,
                   pending, toDelete, bounds>>

(* PATH A and A2: the target holds as many rows as the sources, or more. *)
AlreadyMerged(s) ==
    /\ IsNext(s)
    /\ ~Refused(s)
    /\ Cardinality(Target(kind, s)) >= Cardinality(Counted(s))
    /\ todo' = todo \ {s}
    /\ Verify(s)
    /\ UNCHANGED <<host, tenant, kind, wanted, terminal, snap, passed, pending, toDelete, bounds>>

(* A target that is neither empty nor complete is reported, never touched. *)
Mismatch(s) ==
    /\ IsNext(s)
    /\ ~Refused(s)
    /\ Target(kind, s) # {}
    /\ Cardinality(Target(kind, s)) < Cardinality(Counted(s))
    /\ todo' = todo \ {s}
    /\ UNCHANGED <<host, tenant, pc, kind, wanted, terminal, snap, passed, verified, cur, srcs,
                   pending, toDelete, bounds>>

StartWrite(s) ==
    /\ IsNext(s)
    /\ ~Refused(s)
    /\ Target(kind, s) = {}
    /\ pc' = "write"
    /\ cur' = s
    /\ srcs' = Sources(s)
    /\ todo' = todo \ {s}
    /\ UNCHANGED <<host, tenant, kind, wanted, terminal, snap, passed, verified, pending, toDelete,
                   bounds>>

(* _rows_for_scan: this scan's rows NOW in the source, at most PullLimit. *)
Pull(d) ==
    /\ pc = "write" /\ pending = {} /\ d \in srcs
    /\ srcs' = srcs \ {d}
    /\ LET found == ShardRows(d) \cap Group(kind, cur) IN
       pending' \in {P \in SUBSET found :
                        Cardinality(P) = IF Cardinality(found) <= PullLimit
                                         THEN Cardinality(found) ELSE PullLimit}
    /\ UNCHANGED <<host, tenant, pc, kind, wanted, terminal, snap, passed, todo, verified, cur,
                   toDelete, bounds>>

(* One add_data call; it skips rows without failing. *)
AddBatch ==
    /\ pc = "write" /\ pending # {}
    /\ \E batch \in SUBSET pending :
         /\ Cardinality(batch) = IF Cardinality(pending) <= WriteBatch
                                 THEN Cardinality(pending) ELSE WriteBatch
         /\ merged' = merged \cup (batch \ Skippable)
         /\ pending' = pending \ batch
    /\ UNCHANGED <<host, held, live, overrun, pc, kind, wanted, terminal, snap, passed, todo, verified, cur,
                   srcs, toDelete, bounds>>

(* plan_consolidation after the settle: verified only on an equal count. *)
CountTarget ==
    /\ pc = "write" /\ pending = {} /\ srcs = {}
    /\ IF Cardinality(Target(kind, cur)) = Cardinality(Counted(cur))
       THEN Verify(cur)
       ELSE pc' = "scan" /\ UNCHANGED <<verified, srcs, cur>>
    /\ UNCHANGED <<host, tenant, kind, wanted, terminal, snap, passed, todo, pending, toDelete, bounds>>

(* Seeded fault: the removal is not restricted to the verified scan. *)
StripEveryScan(d) ==
    /\ pc = "cleanup" /\ d \in srcs
    /\ srcs' = srcs \ {d}
    /\ held' = held \ ShardRows(d)
    /\ UNCHANGED <<host, live, merged, overrun, pc, kind, wanted, terminal, snap, passed, todo, verified, cur,
                   pending, toDelete, bounds>>

(* _cleanup_verified_scan_rows, one source at a time; a failure is logged. *)
StripSource(d) ==
    /\ pc = "cleanup" /\ d \in srcs
    /\ srcs' = srcs \ {d}
    /\ \/ held' = held \ (ShardRows(d) \cap Group(kind, cur)) /\ UNCHANGED failures
       \/ failures < MaxFailures /\ failures' = failures + 1 /\ UNCHANGED held
    /\ UNCHANGED <<host, live, merged, overrun, pc, kind, wanted, terminal, snap, passed, todo, verified, cur,
                   pending, toDelete, aborts>>

CleanupDone ==
    /\ pc = "cleanup" /\ srcs = {}
    /\ pc' = "scan"
    /\ UNCHANGED <<host, tenant, kind, wanted, terminal, snap, passed, todo, verified, cur, srcs,
                   pending, toDelete, bounds>>

-----------------------------------------------------------------------------
(* Seeded fault: one verified scan is enough to delete a shared shard. *)
DeleteOnAnyVerified ==
    /\ pc = "scan" /\ todo = {}
    /\ pc' = "delete"
    /\ toDelete' = {d \in Shards : Members(d) \cap verified # {}}
    /\ UNCHANGED <<host, tenant, kind, wanted, terminal, snap, passed, todo, verified, cur, srcs,
                   pending, bounds>>

(* The deletion pass: the shards every scan OF THE SNAPSHOT of which is *)
(* verified.  Deletes run concurrently; each may fail.                  *)
StartDelete ==
    /\ pc = "scan" /\ todo = {}
    /\ pc' = "delete"
    /\ toDelete' = {d \in Shards : Members(d) # {} /\ Members(d) \subseteq verified}
    /\ UNCHANGED <<host, tenant, kind, wanted, terminal, snap, passed, todo, verified, cur, srcs,
                   pending, bounds>>

DeleteShard(d) ==
    /\ pc = "delete" /\ d \in toDelete
    /\ toDelete' = toDelete \ {d}
    /\ \/ /\ live' = live \ {d} /\ held' = held \ ShardRows(d)
          /\ overrun' = overrun \cup (ShardRows(d) \ snap)
          /\ UNCHANGED failures
       \/ failures < MaxFailures /\ failures' = failures + 1 /\ UNCHANGED <<live, held, overrun>>
    /\ UNCHANGED <<host, merged, pc, kind, wanted, terminal, snap, passed, todo, verified, cur, srcs,
                   pending, aborts>>

(* What a run_consolidation call leaves behind: nothing but the tenant. *)
ForgetRun ==
    /\ terminal' = {} /\ snap' = {} /\ passed' = {} /\ todo' = {} /\ verified' = {}
    /\ srcs' = {} /\ pending' = {} /\ toDelete' = {} /\ cur' = AnyScan

NextKind ==
    IF kind = "matches" THEN pc' = "snapshot" /\ kind' = "scans" /\ wanted' = wanted
                        ELSE pc' = "idle" /\ kind' = "matches" /\ wanted' = {}

EndKind ==
    /\ pc = "delete" /\ toDelete = {}
    /\ ForgetRun /\ NextKind
    /\ UNCHANGED <<host, tenant, bounds>>

(* A call that raises: the CLI (_run_consolidate) reports the error and goes *)
(* on with the next kind.                                                    *)
RunRaises ==
    /\ pc \in {"snapshot", "count", "scan", "write"} /\ aborts < MaxAborts
    /\ aborts' = aborts + 1
    /\ ForgetRun /\ NextKind
    /\ UNCHANGED <<host, tenant, failures>>

(* The task is killed, or consolidate_all lets an exception through. *)
Abort ==
    /\ pc # "idle" /\ aborts < MaxAborts
    /\ aborts' = aborts + 1
    /\ ForgetRun /\ pc' = "idle" /\ kind' = "matches" /\ wanted' = {}
    /\ UNCHANGED <<host, tenant, failures>>

-----------------------------------------------------------------------------
HostStep ==
    \/ \E r \in Rows : HostWrite(r)
    \/ \E s \in Scans : DrainEnds(s)
    \/ \E s \in Scans, k \in Kinds : Age(s, k)

ScanStep(s) == SkipScan(s) \/ AlreadyMerged(s) \/ Mismatch(s) \/ StartWrite(s)

PassStep ==
    \/ StartPass \/ ReadLifecycle \/ Snapshot
    \/ \E s \in Scans : ScanStep(s)
    \/ \E d \in Shards : Pull(d) \/ StripSource(d) \/ DeleteShard(d)
    \/ AddBatch \/ CountTarget \/ CleanupDone \/ StartDelete \/ EndKind

Next == HostStep \/ PassStep \/ RunRaises \/ Abort

Spec == Init /\ [][Next]_vars

(* Passes keep being started and run on; time passes; a drain is bounded. *)
(* Nothing makes a host send a row, and nothing makes a kill happen.      *)
Fairness ==
    /\ WF_vars(PassStep)
    /\ \A s \in Scans : WF_vars(DrainEnds(s))
    /\ \A s \in Scans, k \in Kinds : WF_vars(Age(s, k))

FairSpec == Spec /\ Fairness

-----------------------------------------------------------------------------
TypeOK ==
    /\ phase \in [Scans -> {"running", "draining", "ended"}]
    /\ silence \in [Scans -> [Kinds -> {Fresh, Quiet, Abandoned}]]
    /\ sent \subseteq Rows /\ late \subseteq Rows
    /\ held \subseteq Rows /\ merged \subseteq Rows /\ overrun \subseteq Rows
    /\ live \subseteq Shards
    /\ pc \in {"idle", "snapshot", "count", "scan", "write", "cleanup", "delete"}
    /\ kind \in Kinds
    /\ wanted \subseteq Scans /\ terminal \subseteq Scans /\ passed \subseteq Scans
    /\ snap \subseteq Rows
    /\ todo \subseteq Scans /\ verified \subseteq Scans /\ cur \in Scans
    /\ srcs \subseteq Shards /\ pending \subseteq Rows /\ toDelete \subseteq Shards
    /\ aborts \in 0..MaxAborts /\ failures \in 0..MaxFailures

(* What a group may count on: the rows that came in time and that no shard  *)
(* took with it unread.                                                     *)
Punctual(k, s) == (sent \cap Group(k, s)) \ (late \cup overrun)

(* A late row was copied, so counts no longer tell which rows were. *)
Mixed(k, s) == late \cap Target(k, s) # {}

(* No row the tenant accepted is lost, whatever was skipped, truncated,     *)
(* killed, retried or left half-cleaned: it is in its shard or in its       *)
(* scan's target.  Lost can be, and nothing else: a row that came after its *)
(* group was closed, with it the group if it was copied; and a row that     *)
(* came into a shard between the count and the deletion.                    *)
NoRowLost ==
    \A s \in Scans, k \in Kinds : Mixed(k, s) \/ Punctual(k, s) \subseteq held \cup merged

(* A (kind, scan) is never split with neither side whole: the shards hold  *)
(* all its rows until the target does (why a half-built target is never    *)
(* mistaken for a finished one, and why PATH A2 may trust a larger count). *)
Whole(k, s) == Mixed(k, s) \/ Punctual(k, s) \subseteq merged
OneSideWhole ==
    \A s \in Scans, k \in Kinds : Whole(k, s) \/ Punctual(k, s) \subseteq held

(* Counting is enough: what a run calls verified is in the target whole. *)
VerifiedIsComplete == \A s \in verified : Whole(kind, s)

(* Of a scan whose lifecycle never ended and whose rows are younger than the *)
(* abandoned cutoff, no row is copied, and none is removed that the pass had *)
(* counted.                                                                  *)
RunningScanUntouched ==
    [][\A s \in Scans, k \in Kinds :
         (phase[s] = "running" /\ silence[s][k] < Abandoned) =>
            /\ Group(k, s) \cap merged' \subseteq merged
            /\ Group(k, s) \cap (held \ held') \subseteq overrun' \ snap]_vars

(* The pass implements the abstract store: only closed groups are copied,    *)
(* and rows leave their shards once their group is whole in its target, or   *)
(* unread with a shard that was counted before.                              *)
Store == INSTANCE FindingsStore
             WITH Groups <- Kinds \X Scans,
                  GroupOf <- [r \in Rows |-> <<RowKind(r), ScanOf[r]>>],
                  closed <- {g \in Kinds \X Scans : Closed(g[2], g[1])},
                  arrived <- sent, counted <- snap, inShard <- held, inTarget <- merged

ImplementsStore == Store!Spec

-----------------------------------------------------------------------------
(* Liveness, under FairSpec. *)
Delivered(s) == \A k \in Kinds : sent \cap Group(k, s) \subseteq merged \cup overrun

(* Every row a host ever delivered ends up in its scan's target, unless its *)
(* shard took it along unread; but late rows can block the cap for ever.    *)
EventuallyDelivered == <>[](late = {} => \A s \in Scans : Delivered(s))

(* No row remains in a shard, whatever strip or deletion failed before, and *)
(* no shard if none did (one that was stripped and not deleted has no scan   *)
(* left that a later pass would choose it for), unless late rows make counts *)
(* disagree.                                                                 *)
ShardsEventuallyGone ==
    <>[](late = {} => held = {} /\ (failures = 0 => live = {}))

-----------------------------------------------------------------------------
TenantInv ==
    /\ held \subseteq sent /\ merged \subseteq sent /\ overrun \subseteq sent \ held
    /\ overrun \cap merged \subseteq late
    /\ OneSideWhole
    /\ \A r \in sent \cap TerminalRows : phase[ScanOf[r]] # "running"
    /\ \A s \in Scans, k \in Kinds : Target(k, s) # {} => Closed(s, k)

(* What a run knows of the groups it has counted: what came since is late, *)
(* or belongs to a group the run leaves alone.                             *)
SnapshotInv ==
    /\ \A r \in snap : RowKind(r) = kind
    /\ \A s \in terminal : phase[s] # "running"
    /\ verified \subseteq passed
    /\ \A s \in passed : Closed(s, kind)
    /\ \A s \in todo : Counted(s) # {}
    /\ \A s \in todo : Counted(s) \subseteq held
    /\ snap # {} =>
         \A r \in held \ (snap \cup late) :
            RowKind(r) = kind => ScanOf[r] \notin passed /\ Target(kind, ScanOf[r]) = {}

ProgressInv ==
    /\ pc \in {"idle", "snapshot", "count"} =>
         snap = {} /\ passed = {} /\ todo = {} /\ verified = {}
    /\ pc \in {"write", "cleanup"} => cur \in passed /\ cur \notin todo
    /\ pc = "write" =>
         /\ Counted(cur) # {}
         /\ Punctual(kind, cur) \subseteq Counted(cur)
         /\ Target(kind, cur) \cup pending \subseteq Counted(cur) \cup late
         /\ pending \subseteq held \cap Group(kind, cur)
    /\ pc = "cleanup" => cur \in verified
    /\ pc = "delete" => todo = {}
    /\ pc # "write" => pending = {}
    /\ pc # "delete" => toDelete = {}
    /\ \A d \in toDelete : Members(d) # {} /\ Members(d) \subseteq verified

(* The inductive invariant behind NoRowLost. *)
IInv == TypeOK /\ TenantInv /\ SnapshotInv /\ VerifiedIsComplete /\ ProgressInv
=============================================================================
