------------------------------ MODULE Summary ------------------------------
(***************************************************************************)
(* YaraConsolidateSummary: one dataset per ruleset with a row for each      *)
(* (scan, host, rule), rewritten by every pass from the hosts' permanent    *)
(* matches datasets.  add_data appends, so a pass clears the rows of the    *)
(* scans it is about to write, and anything may stop it in between.         *)
(*                                                                          *)
(* The hosts go on scanning, and full consolidation retires their datasets  *)
(* (FullConsolidation models both); passes exclude each other               *)
(* (ConsolidationLock).                                                     *)
(***************************************************************************)
EXTENDS Naturals, FiniteSets

CONSTANTS
    Scans,          \* pairs <<host, n>>: the host's n-th scan, from 1
    RowCount,       \* function from Scans: (host, rule) pairs a scan may find
    Rulesets, RulesetOf,
    Bounds,         \* values of max_datasets; 0: not given
    ReadCap,        \* _SUMMARY_LIMIT: rows one query returns
    WriteBatch,     \* _WRITE_BATCH
    MaxPasses, MaxFaults        \* bounds

Hosts == {s[1] : s \in Scans}
Rows == UNION {{<<s[1], s[2], i>> : i \in 1..RowCount[s]} : s \in Scans}
ScanOf(r) == <<r[1], r[2]>>
ScansIn(R) == {ScanOf(r) : r \in R}
RowsAt(h, R) == {r \in R : r[1] = h}

ASSUME SummaryAssumption ==
    /\ IsFiniteSet(Scans) /\ \A s \in Scans : s = <<s[1], s[2]>> /\ s[2] \in Nat \ {0}
    /\ RowCount \in [Scans -> Nat] /\ RulesetOf \in [Scans -> Rulesets]
    /\ Bounds \subseteq Nat /\ ReadCap \in Nat \ {0} /\ WriteBatch \in Nat \ {0}
    /\ MaxPasses \in Nat /\ MaxFaults \in Nat

VARIABLES
    cur,                    \* per host: its latest scan, 0 before the first
    present, src, posted,   \* matches datasets, their rows, rows ever written
    ended, calm, aged,      \* scans: terminal row; past quiet_secs; past retention_hours
    tgt,                    \* function from Rows: how often the targets hold a row
    pc, bound, listed, hushed, ready, todo, got, complete, short,
    done, rh, stale, adding,
    dropped,                \* rows of answered batches the platform left out
    passes, faults, clean

fleet == <<cur, present, src, posted, ended, calm, aged>>
reading == <<bound, listed, hushed, ready, todo, got, complete, short>>
writing == <<done, rh, stale, adding, dropped>>
vars == <<fleet, tgt, pc, reading, writing, passes, faults, clean>>

Init ==
    /\ cur = [h \in Hosts |-> 0] /\ present = {} /\ src = {} /\ posted = {}
    /\ ended = {} /\ calm = {} /\ aged = {} /\ tgt = [r \in Rows |-> 0]
    /\ pc = "idle" /\ bound = 0 /\ listed = {} /\ hushed = {} /\ ready = {} /\ todo = {} /\ got = {}
    /\ complete = TRUE /\ short = FALSE
    /\ done = {} /\ rh \in Rulesets /\ stale = {} /\ adding = {} /\ dropped = {}
    /\ passes = 0 /\ faults = 0 /\ clean = TRUE

Fault == faults < MaxFaults /\ faults' = faults + 1 /\ clean' = FALSE
NoFault == UNCHANGED <<faults, clean>>

-----------------------------------------------------------------------------
(* The fleet. *)
Latest(s) == s[2] = cur[s[1]]
FleetFrame == UNCHANGED <<tgt, pc, reading, writing, passes>> /\ NoFault

(* A scan begins: its host's dataset is made, or emptied; a flush that fails *)
(* leaves the earlier scans' rows.                                           *)
BeginScan(h) ==
    /\ <<h, cur[h] + 1>> \in Scans /\ (cur[h] = 0 \/ <<h, cur[h]>> \in ended \cup aged)
    /\ cur' = [cur EXCEPT ![h] = @ + 1] /\ present' = present \cup {h}
    /\ src' \in {src, src \ RowsAt(h, src)}
    /\ UNCHANGED <<posted, ended, calm, aged>> /\ FleetFrame

PostRow(r) ==
    /\ Latest(ScanOf(r)) /\ ScanOf(r) \notin calm \cup aged /\ r \notin posted
    /\ r[3] > 1 => <<r[1], r[2], r[3] - 1>> \in posted
    /\ r[1] \in present /\ src' = src \cup {r} /\ posted' = posted \cup {r}
    /\ UNCHANGED <<cur, present, ended, calm, aged>> /\ FleetFrame

(* The terminal row; the quiet period; the retention after which a scan      *)
(* without a terminal row is taken for abandoned.                            *)
EndScan(s) ==
    /\ Latest(s) /\ s \notin ended \cup aged /\ ended' = ended \cup {s}
    /\ UNCHANGED <<cur, present, src, posted, calm, aged>> /\ FleetFrame
Settle(s) ==
    /\ s \in ended \ calm /\ calm' = calm \cup {s}
    /\ UNCHANGED <<cur, present, src, posted, ended, aged>> /\ FleetFrame
Abandon(s) ==
    /\ Latest(s) /\ s \notin ended \cup aged /\ aged' = aged \cup {s}
    /\ UNCHANGED <<cur, present, src, posted, ended, calm>> /\ FleetFrame

(* Full consolidation has verified the host's scans and retires its dataset. *)
Retire(h) ==
    /\ pc \in {"idle", "over"} /\ h \in present
    /\ \A r \in RowsAt(h, src) : ScanOf(r) \in calm
    /\ present' = present \ {h} /\ src' = src \ RowsAt(h, src)
    /\ UNCHANGED <<cur, posted, ended, calm, aged>> /\ FleetFrame

-----------------------------------------------------------------------------
(* A pass of main, under the lock. *)
Smaller(a, b) == IF a < b THEN a ELSE b

(* max_datasets. *)
Slice(b) ==
    {T \in SUBSET present : Cardinality(T) = IF b = 0 THEN Cardinality(present)
                                             ELSE Smaller(b, Cardinality(present))}

(* The listing, and which datasets a bounded pass reads.  "Last Updated"     *)
(* orders them; the order is left open.                                      *)
StartPass(b) ==
    /\ pc \in {"idle", "over"} /\ passes < MaxPasses /\ passes' = passes + 1
    /\ bound' = b /\ listed' = present
    /\ todo' \in Slice(b)
    /\ complete' = (todo' = present) /\ short' = FALSE /\ got' = {}
    /\ hushed' = calm /\ ready' = aged
    /\ pc' = "lifecycle" /\ done' = {} /\ stale' = {} /\ adding' = {} /\ dropped' = {} /\ clean' = TRUE
    /\ UNCHANGED <<fleet, tgt, rh, faults>>

(* _lifecycle_state: one query, or one for each shard; a shard that cannot   *)
(* be read leaves its scans unknown.  Ready is a scan that is terminal and   *)
(* was quiet when the pass began, or then silent for retention_hours.        *)
ReadLifecycle ==
    /\ pc = "lifecycle" /\ pc' = "read"
    /\ \/ ready' = ready \cup hushed /\ NoFault
       \/ \E h \in Hosts : ready' = ready \cup {s \in hushed : s[1] # h} /\ Fault
    /\ UNCHANGED <<fleet, tgt, bound, listed, hushed, todo, got, complete, short, writing, passes>>

(* A query returns no more than ReadCap rows. *)
Reads(R) == {Q \in SUBSET R : Cardinality(Q) = Smaller(ReadCap, Cardinality(R))}
ReadFrame == UNCHANGED <<fleet, tgt, bound, listed, hushed, ready, writing, passes>>

(* _fanin_source: one query for all, if the pass reads all there is.  At its *)
(* cap the sources count as incomplete.  Failed or empty, it gives way to    *)
(* one query for each.                                                       *)
ReadFleet ==
    /\ pc = "read" /\ got = {} /\ todo = listed /\ Cardinality(listed) > 1
    /\ got' \in Reads(src) /\ got' # {} /\ todo' = {} /\ UNCHANGED pc
    /\ short' = (Cardinality(got') >= ReadCap) /\ complete' = (complete /\ ~short')
    /\ ReadFrame /\ NoFault

(* summarise_shard for one dataset: unlike the fleet's, a read at the cap    *)
(* leaves `complete` as it is.                                               *)
ReadShard(h) ==
    /\ pc = "read" /\ h \in todo /\ todo' = todo \ {h} /\ UNCHANGED pc
    /\ \/ /\ \E Q \in Reads(RowsAt(h, src)) :
                /\ got' = got \cup Q /\ short' = (short \/ Cardinality(Q) >= ReadCap)
          /\ UNCHANGED complete /\ NoFault
       \/ Fault /\ complete' = FALSE /\ UNCHANGED <<got, short>>
    /\ ReadFrame

OfRuleset(g, S) == {s \in S : RulesetOf[s] = g}

Desired(g) == OfRuleset(g, ScansIn(got) \cap ready)
Held(g) == OfRuleset(g, ScansIn({r \in Rows : tgt[r] > 0}))

(* Seeded fault: what no source holds is superseded. *)
NoSourceHolds(g) == IF complete THEN Held(g) \ ScansIn(got) ELSE {}

(* _supersedable, and only if every source was read. *)
Stale(g) ==
    IF complete THEN {s \in Held(g) \ ScansIn(got) : s[1] \in listed} ELSE {}

(* Seeded fault: what the target has is left as it is. *)
OnlyMissing(g) == Desired(g) \ Held(g)

(* Every scan of the pass is written anew, whether or not the target has it. *)
Fresh(g) == Desired(g)

AddRows(g) == {r \in got : ScanOf(r) \in Fresh(g)}
WriteFrame == UNCHANGED <<fleet, reading, passes>>
Without(S) == [r \in Rows |-> IF ScanOf(r) \in S THEN 0 ELSE tgt[r]]

(* Seeded fault: nothing is cleared. *)
ClearNothing(g) == {}

Refreshed(g) == Fresh(g) \cap Held(g)

(* A ruleset in turn.  Its target cannot be read or made, and nothing is     *)
(* written; or the clearing of the refreshed scans raises, which it may do   *)
(* after it was carried out, and nothing is written either; or they are      *)
(* cleared.                                                                  *)
NextGroup(g) ==
    /\ pc = "read" /\ todo = {} /\ g \notin done /\ Desired(g) # {}
    /\ done' = done \cup {g} /\ rh' = g
    /\ \/ tgt' \in {tgt, Without(Refreshed(g))} /\ Fault /\ UNCHANGED <<pc, stale, adding>>
       \/ /\ tgt' = Without(Refreshed(g)) /\ NoFault
          /\ stale' = Stale(g) /\ adding' = AddRows(g) /\ pc' = "stale"
    /\ UNCHANGED dropped /\ WriteFrame

(* The stale scans go; if that raises, carried out or not, the group ends    *)
(* with what was cleared still missing.                                      *)
DropStale ==
    /\ pc = "stale"
    /\ \/ tgt' = Without(stale) /\ pc' = "add" /\ NoFault /\ UNCHANGED adding
       \/ /\ stale # {} /\ tgt' \in {tgt, Without(stale)}
          /\ Fault /\ pc' = "read" /\ adding' = {}
    /\ stale' = {} /\ UNCHANGED <<done, rh, dropped>> /\ WriteFrame

Plus(K) == [r \in Rows |-> IF r \in K THEN Smaller(tgt[r] + 1, 2) ELSE tgt[r]]

(* The platform answers a batch with fewer rows than it was sent. *)
Overlooked == faults < MaxFaults /\ faults' = faults + 1 /\ UNCHANGED clean

(* A batch B, of which K is added.  An answer with any row at all counts as  *)
(* the whole batch; one with none, or none, ends the group.                  *)
AddBatch ==
    /\ pc = "add" /\ adding # {}
    /\ \E B \in SUBSET adding : \E K \in SUBSET B :
        /\ Cardinality(B) = Smaller(WriteBatch, Cardinality(adding))
        /\ tgt' = Plus(K)
        /\ \/ /\ K # {} /\ adding' = adding \ B /\ dropped' = dropped \cup (B \ K)
              /\ IF K = B THEN NoFault ELSE Overlooked
              /\ UNCHANGED pc
           \/ adding' = {} /\ Fault /\ pc' = "read" /\ UNCHANGED dropped
    /\ UNCHANGED <<done, rh, stale>> /\ WriteFrame

EndGroup ==
    /\ pc = "add" /\ adding = {} /\ pc' = "read"
    /\ UNCHANGED <<tgt, writing>> /\ WriteFrame /\ NoFault

EndPass ==
    /\ pc = "read" /\ todo = {} /\ \A g \in Rulesets \ done : Desired(g) = {}
    /\ pc' = "over" /\ UNCHANGED <<tgt, writing>> /\ WriteFrame /\ NoFault

(* The platform kills the task. *)
Killed ==
    /\ pc \notin {"idle", "over"} /\ Fault /\ pc' = "idle" /\ stale' = {} /\ adding' = {}
    /\ UNCHANGED <<tgt, done, rh, dropped>> /\ WriteFrame

Next ==
    \/ \E h \in Hosts : BeginScan(h) \/ Retire(h) \/ ReadShard(h)
    \/ \E r \in Rows : PostRow(r)
    \/ \E s \in Scans : EndScan(s) \/ Settle(s) \/ Abandon(s)
    \/ \E b \in Bounds : StartPass(b)
    \/ \E g \in Rulesets : NextGroup(g)
    \/ ReadLifecycle \/ ReadFleet \/ DropStale \/ AddBatch \/ EndGroup \/ EndPass \/ Killed

Spec == Init /\ [][Next]_vars

-----------------------------------------------------------------------------
DataOK ==
    /\ cur \in [Hosts -> Nat] /\ present \subseteq Hosts
    /\ src \subseteq {r \in posted : r[1] \in present} /\ posted \subseteq Rows
    /\ calm \subseteq ended /\ ended \cup aged \subseteq Scans
    /\ tgt \in [Rows -> 0..2] /\ \A r \in Rows : tgt[r] > 0 => r \in posted
    /\ pc \in {"idle", "lifecycle", "read", "stale", "add", "over"}
    /\ bound \in Bounds \cup {0}
    /\ todo \subseteq listed /\ listed \subseteq Hosts
    /\ hushed \subseteq calm /\ ready \subseteq calm \cup aged /\ got \subseteq posted
    /\ adding \cup dropped \subseteq Rows /\ adding \subseteq got
    /\ done \subseteq Rulesets /\ rh \in Rulesets /\ stale \subseteq Scans
    /\ passes \in 0..MaxPasses /\ faults \in 0..MaxFaults
FlagsOK == complete \in BOOLEAN /\ short \in BOOLEAN /\ clean \in BOOLEAN
TypeOK == DataOK /\ FlagsOK

(* However passes are stopped and repeated, no (scan, host, rule) is in a    *)
(* target twice: what add_data appends was cleared before.                   *)
NoDoubles == \A r \in Rows : tgt[r] <= 1

(* A pass that reports no failure leaves each scan it was eligible to write  *)
(* exactly as it read it, whatever broken writes of earlier passes had left, *)
(* but for the rows that the platform dropped from a batch it answered:      *)
(* those are missing, and the pass has nothing on record against itself.     *)
CleanPassRepairs ==
    pc = "over" /\ clean =>
        \A r \in Rows : ScanOf(r) \in ScansIn(got) \cap ready =>
            (tgt[r] > 0 <=> r \in got \ dropped)

(* A row leaves a target only while its host's dataset still has it, so that *)
(* a later pass can put it back, and then the same group is about to write   *)
(* it again or the pass reports a failure; or the host's later scan has      *)
(* superseded it; or the pass read no more than a query returns, and the row *)
(* was not among it.                                                         *)
OnlySupersededRemoved ==
    [][\A r \in Rows : tgt[r] > 0 /\ tgt'[r] = 0 =>
            \/ r \in src' /\ (r \in adding' \/ ~clean')
            \/ ~Latest(ScanOf(r)) \/ short]_vars
=============================================================================
