------------------------- MODULE FullConsolidation -------------------------
(***************************************************************************)
(* Full consolidation (schema v4).  Each host has one permanent matches     *)
(* dataset that its next scan overwrites; YaraConsolidateApply copies every *)
(* finished scan's rows into one target per ruleset, drops from the target  *)
(* what the hosts have superseded and, with                                 *)
(* CONFIG_RETIRE_SOURCES_AFTER_FULL, deletes the sources it has verified.   *)
(*                                                                          *)
(* The hosts scan while the pass runs: it works from a clock, a listing, a  *)
(* lifecycle map and rows that it has read at four different moments.  Only *)
(* one pass runs at a time, which is what ConsolidationLock is about.       *)
(***************************************************************************)
EXTENDS Naturals, FiniteSets

CONSTANTS
    Scans,          \* pairs <<host, n>>: the host's n-th scan, from 1
    RowCount,       \* function from Scans: how many rows a scan may deliver
    Rulesets,
    RulesetOf,      \* function from Scans: the hash at the end of the scan_id
    Bounds,         \* values of the argument max_datasets; 0: not given
    RowBudget,      \* CONFIG_ROWS_PER_PASS
    RowCeiling,     \* the argument row_ceiling
    ReadLimit,      \* the most rows the read of one dataset returns
    FaninCap,       \* _FANIN_ROW_CAP
    WriteBatch,     \* _WRITE_BATCH
    Retiring,       \* CONFIG_RETIRE_SOURCES_AFTER_FULL
    MaxFaults       \* bound: calls that fail

Hosts == {s[1] : s \in Scans}
Rows == UNION {{<<s[1], s[2], i>> : i \in 1..RowCount[s]} : s \in Scans}
ScanOf(r) == <<r[1], r[2]>>
ScansIn(R) == {ScanOf(r) : r \in R}
RowsOf(s, R) == {r \in R : ScanOf(r) = s}
RowsAt(h, R) == {r \in R : r[1] = h}

ASSUME FullAssumption ==
    /\ IsFiniteSet(Scans) /\ \A s \in Scans : s = <<s[1], s[2]>> /\ s[2] \in Nat \ {0}
    /\ \A s \in Scans : s[2] > 1 => <<s[1], s[2] - 1>> \in Scans
    /\ RowCount \in [Scans -> Nat] /\ RulesetOf \in [Scans -> Rulesets]
    /\ Bounds \subseteq Nat /\ RowBudget \in Nat /\ RowCeiling \in Nat
    /\ ReadLimit \in Nat /\ FaninCap \in Nat /\ WriteBatch \in Nat \ {0}
    /\ Retiring \in BOOLEAN /\ MaxFaults \in Nat

VARIABLES
    bound,
    cur, spc, stale,      \* per host: its scan, where it stands, scan_ids to remove
    present,              \* hosts whose matches dataset exists
    src,                  \* the rows in those datasets
    posted,               \* rows ever added to a source
    ended,                \* scans whose terminal row has landed
    recent, aged,         \* rows of src stamped within quiet_secs; over 24 h ago
    tgt,                  \* the rows in the targets, one per ruleset
    apc, listed, terminal, ready, todo, complete, reliable, got,
    done, claimed, adding, retire,    \* the pass
    faults,
    unseen,               \* other rows deleted with a source the pass had not read
    late,                 \* rows posted when their scan was being, or had been, copied
    cut                   \* scans that a read has cut short

host == <<cur, spc, stale>>
clock == <<ended, recent, aged>>
reading == <<listed, terminal, ready, todo, complete, reliable, got>>
writing == <<done, claimed, adding, retire>>
vars == <<bound, host, present, src, posted, clock, tgt, apc, reading, writing, faults,
          unseen, late, cut>>

Init ==
    /\ bound \in Bounds
    /\ cur = [h \in Hosts |-> 0] /\ spc = [h \in Hosts |-> "idle"]
    /\ stale = [h \in Hosts |-> {}]
    /\ present = {} /\ src = {} /\ posted = {}
    /\ ended = {} /\ recent = {} /\ aged = {} /\ tgt = {}
    /\ apc = "idle" /\ listed = {} /\ terminal = {} /\ ready = {} /\ todo = {}
    /\ complete = TRUE /\ reliable = TRUE /\ got = {}
    /\ done = {} /\ claimed = {} /\ adding = {} /\ retire = {}
    /\ faults = 0 /\ unseen = {} /\ late = {} /\ cut = {}

Fault == faults < MaxFaults /\ faults' = faults + 1

-----------------------------------------------------------------------------
(* The scanner on a host: one process at a time. *)
Scan(h) == <<h, cur[h]>>
HostFrame == UNCHANGED <<bound, tgt, apc, reading, writing, unseen, cut>>

(* _ensure_one: the dataset is created if it is not there.  When that cannot *)
(* be told (the calls fail), it passes for a new one and is not flushed.     *)
EnsureOne(h) ==
    /\ spc[h] = "idle" /\ <<h, cur[h] + 1>> \in Scans
    /\ cur' = [cur EXCEPT ![h] = @ + 1]
    /\ \/ h \in present /\ spc' = [spc EXCEPT ![h] = "list"] /\ UNCHANGED <<present, faults>>
       \/ h \notin present /\ present' = present \cup {h}
          /\ spc' = [spc EXCEPT ![h] = "scan"] /\ UNCHANGED faults
       \/ Fault /\ spc' = [spc EXCEPT ![h] = "scan"] /\ UNCHANGED present
    /\ UNCHANGED <<stale, src, posted, clock, late>> /\ HostFrame

(* Rows leave a dataset, and their stamps with them. *)
Drop(R) == src' = src \ R /\ recent' = recent \ R /\ aged' = aged \ R

FlushOn(h, S) ==
    /\ stale' = [stale EXCEPT ![h] = S]
    /\ spc' = [spc EXCEPT ![h] = IF S = {} THEN "scan" ELSE "flush"]

(* _matches_scan_ids, less the current one. *)
ListScanIds(h) ==
    /\ spc[h] = "list"
    /\ \/ FlushOn(h, ScansIn(RowsAt(h, src)) \ {Scan(h)}) /\ UNCHANGED faults
       \/ FlushOn(h, {}) /\ Fault
    /\ UNCHANGED <<cur, present, src, posted, clock, late>> /\ HostFrame

(* _remove_scan_id, one scan_id at a time; a failure leaves its rows, and    *)
(* so does a budget that is spent.                                           *)
RemoveScanId(h, s) ==
    /\ spc[h] = "flush" /\ s \in stale[h]
    /\ FlushOn(h, stale[h] \ {s})
    /\ \/ Drop(RowsOf(s, src)) /\ UNCHANGED faults
       \/ Fault /\ UNCHANGED <<src, recent, aged>>
    /\ UNCHANGED <<cur, present, posted, ended, late>> /\ HostFrame

Recreated(h) == present \cup {h}

(* The scan is being copied, or has been. *)
Taken(s) == s \in ready \cup ScansIn(tgt)

(* A batch reaches the dataset, which is created again if it is gone.  Its   *)
(* stamp is of the match: a row that was long in the queue is not recent.    *)
PostRow(h) ==
    /\ spc[h] = "scan"
    /\ \E r \in Rows \ posted :
        /\ ScanOf(r) = Scan(h)
        /\ r[3] > 1 => <<h, cur[h], r[3] - 1>> \in posted
        /\ src' = src \cup {r} /\ posted' = posted \cup {r}
        /\ recent' \in {recent, recent \cup {r}}
        /\ late' = late \cup {q \in {r} : Taken(Scan(h))}
    /\ present' = Recreated(h)
    /\ UNCHANGED <<host, ended, aged, faults>> /\ HostFrame

(* The terminal row, before the rows still queued. *)
SendScanRowNow(h) ==
    /\ spc[h] = "scan" /\ Scan(h) \notin ended
    /\ ended' = ended \cup {Scan(h)}
    /\ UNCHANGED <<host, present, src, posted, recent, aged, faults, late>> /\ HostFrame

(* The process is over; if its terminal row was lost, or never sent, that    *)
(* took a fault.                                                             *)
End(h) ==
    /\ spc[h] = "scan" /\ spc' = [spc EXCEPT ![h] = "idle"]
    /\ \/ Scan(h) \in ended /\ UNCHANGED faults
       \/ Scan(h) \notin ended /\ Fault
    /\ UNCHANGED <<cur, stale, present, src, posted, clock, late>> /\ HostFrame

(* Time, between passes: a pass has one clock reading, taken when it starts. *)
(* quiet_secs go by without a row, then the rest of a day; for scans that    *)
(* have their terminal row the day makes no difference.                      *)
TimeFrame == HostFrame /\ UNCHANGED <<host, present, src, posted, ended, faults, late>>

Unfinished == {r \in src : ScanOf(r) \notin ended}

Settle ==
    /\ apc = "idle" /\ recent # {} /\ recent' = {} /\ UNCHANGED aged /\ TimeFrame
Age ==
    /\ apc = "idle" /\ recent = {} /\ ~(Unfinished \subseteq aged)
    /\ aged' = aged \cup Unfinished /\ UNCHANGED recent /\ TimeFrame

-----------------------------------------------------------------------------
(* consolidate_full *)
PassFrame == UNCHANGED <<bound, host, posted, ended, late>>
Stamps == <<recent, aged>>

(* The clock is read, the lock taken and the datasets listed. *)
StartPass ==
    /\ apc = "idle" /\ apc' = "plan"
    /\ listed' = present
    /\ UNCHANGED <<present, src, Stamps, tgt, terminal, ready, todo, complete, reliable,
                   got, writing, faults, unseen, cut>> /\ PassFrame

Smaller(a, b) == IF a < b THEN a ELSE b

(* _plan_pass: max_datasets, or what the row budget allows, at least one;    *)
(* everything when the sizes are not known.  Which ones come first is left   *)
(* open ("Last Updated").                                                    *)
Plans ==
    IF bound > 0
    THEN {T \in SUBSET listed : Cardinality(T) = Smaller(bound, Cardinality(listed))}
    ELSE {T \in SUBSET listed :
            LET Size(S) == Cardinality({r \in src : r[1] \in S})
            IN  /\ Cardinality(T) > 1 => Size(T) <= RowBudget
                /\ \/ T = listed
                   \/ T # {} /\ \E h \in listed \ T : Size(T \cup {h}) > RowBudget}

(* _terminal_map_from_rows, then the plan. *)
PlanPass ==
    /\ apc = "plan" /\ apc' = "read"
    /\ terminal' = ended
    /\ \/ todo' \in Plans /\ UNCHANGED faults
       \/ bound = 0 /\ Fault /\ todo' = listed
    /\ complete' = (todo' = listed)
    /\ UNCHANGED <<present, src, Stamps, tgt, listed, ready, reliable, got, writing,
                   unseen, cut>> /\ PassFrame

(* Seeded fault: a scan without a terminal row is waited for, for ever. *)
NoFallback(R) == {s \in ScansIn(R) : s \in terminal /\ RowsOf(s, R) \cap recent = {}}

(* The gate, on the rows that were read: finished and quiet, or so old that  *)
(* the scan must be over.                                                    *)
Gated(R) ==
    {s \in ScansIn(R) :
        \/ s \in terminal /\ RowsOf(s, R) \cap recent = {}
        \/ RowsOf(s, R) \subseteq aged}

(* Rows join what was read.  The gate is the code's next step, on times and  *)
(* a map that are fixed by now; after the last read the map has served.      *)
Absorb(R) ==
    /\ got' = got \cup R /\ ready' = ready \cup Gated(R)
    /\ terminal' = IF todo' = {} THEN {} ELSE terminal

(* One read for all hosts, if that is what was planned: discarded when it    *)
(* comes back at its cap...                                                  *)
FaninRows ==
    /\ apc = "read" /\ todo = listed /\ src # {} /\ Cardinality(listed) > 1
    /\ Cardinality(src) < FaninCap
    /\ todo' = {} /\ Absorb(src)
    /\ UNCHANGED <<present, src, Stamps, tgt, apc, listed, complete, reliable,
                   writing, faults, unseen, cut>> /\ PassFrame

(* What a read returns: nobody notices that it stopped at the limit. *)
Reads(h) ==
    IF Cardinality(RowsAt(h, src)) <= ReadLimit THEN {RowsAt(h, src)}
    ELSE {R \in SUBSET RowsAt(h, src) : Cardinality(R) = ReadLimit}

(* ...or one for each. *)
RowsOfShard(h) ==
    /\ apc = "read" /\ h \in todo /\ todo' = todo \ {h}
    /\ \/ /\ \E R \in Reads(h) :
               Absorb(R) /\ cut' = cut \cup ScansIn(RowsAt(h, src) \ R)
          /\ UNCHANGED <<complete, reliable, faults>>
       \/ Fault /\ Absorb({}) /\ complete' = FALSE /\ reliable' = FALSE /\ UNCHANGED cut
    /\ UNCHANGED <<present, src, Stamps, tgt, apc, listed, writing, unseen>>
    /\ PassFrame

OfRuleset(g, S) == {s \in S : RulesetOf[s] = g}
Desired(g) == OfRuleset(g, ready)
Observed(g) == OfRuleset(g, ScansIn(got))
Held(g) == OfRuleset(g, ScansIn(tgt))
Fresh(g) == Desired(g) \ Held(g)

(* Seeded fault: a scan no source holds is superseded, whatever its source. *)
AnyAbsent(missing) == missing

(* _supersedable: the source must be there to show that it lacks the scan.   *)
Supersedable(missing) == {s \in missing : s[1] \in listed}

Stale(g) == IF complete THEN Supersedable(Held(g) \ Observed(g)) ELSE {}

TooLarge(g) == Cardinality({r \in got : ScanOf(r) \in Desired(g)}) > RowCeiling

AddRows(g) == {r \in got : ScanOf(r) \in Fresh(g)}

(* What is handed to the verification: the scans written, or all of the      *)
(* group when the target was current.  When the group only lost stale rows   *)
(* nothing is.                                                               *)
Claims(g) == IF Stale(g) = {} /\ Fresh(g) = {} THEN Desired(g) ELSE Fresh(g)

Without(S) == tgt \ {r \in tgt : ScanOf(r) \in S}

(* A ruleset in turn: refused, its target unreadable, or reconciled.  The    *)
(* stale rows go first, then the fresh ones are added; a removal that raises *)
(* ends the group, whether it was carried out or not.                        *)
NextGroup(g) ==
    /\ apc = "read" /\ todo = {} /\ g \notin done /\ Desired(g) # {}
    /\ done' = done \cup {g}
    /\ \/ TooLarge(g) /\ UNCHANGED <<apc, tgt, claimed, adding, faults>>
       \/ ~TooLarge(g) /\ Fault /\ tgt' \in {tgt, Without(Stale(g))}
          /\ UNCHANGED <<apc, claimed, adding>>
       \/ /\ ~TooLarge(g) /\ apc' = "add" /\ tgt' = Without(Stale(g))
          /\ claimed' = Claims(g) /\ adding' = AddRows(g)
          /\ UNCHANGED faults
    /\ UNCHANGED <<present, src, Stamps, reading, retire, unseen, cut>> /\ PassFrame

(* A batch.  It counts as written as soon as a row of it is answered for; an *)
(* answer of none, or a call that raises, ends the group.                    *)
AddBatch(B) ==
    /\ apc = "add" /\ B \subseteq adding
    /\ Cardinality(B) = Smaller(WriteBatch, Cardinality(adding)) /\ B # {}
    /\ \/ tgt' = tgt \cup B /\ adding' = adding \ B /\ UNCHANGED <<apc, claimed, faults>>
       \/ \E L \in SUBSET B :
            /\ Fault /\ tgt' = tgt \cup L
            /\ \/ adding' = {} /\ claimed' = {} /\ apc' = "read"
               \/ L # {} /\ adding' = adding \ B /\ UNCHANGED <<apc, claimed>>
    /\ UNCHANGED <<present, src, Stamps, reading, done, retire, unseen, cut>> /\ PassFrame

(* Seeded fault: a scan is verified as soon as the target has a row of it. *)
AnyRowVerifies == {s \in claimed : RowsOf(s, tgt) # {}}

(* Read back: the target holds as many rows as were read for the scan. *)
Verified ==
    {s \in claimed : Cardinality(RowsOf(s, tgt)) >= Cardinality(RowsOf(s, got))}

(* A source goes only if each scan it gave to this pass is verified. *)
RetireSet ==
    {h \in listed : RowsAt(h, got) # {} /\ ScansIn(RowsAt(h, got)) \subseteq Verified}

Verify ==
    /\ apc = "add" /\ adding = {}
    /\ \/ /\ Retiring /\ reliable /\ apc' = "retire" /\ retire' = RetireSet
          /\ UNCHANGED faults
       \/ ~(Retiring /\ reliable) /\ apc' = "read" /\ UNCHANGED <<retire, faults>>
       \/ Fault /\ apc' = "read" /\ UNCHANGED retire
    /\ UNCHANGED <<present, src, Stamps, tgt, reading, done, claimed, adding, unseen, cut>>
    /\ PassFrame

(* _retire_consolidated_sources: the dataset goes as it is by now, also when *)
(* it is the reply that is lost.                                             *)
DeleteDataset(h) ==
    /\ apc = "retire" /\ h \in retire /\ retire' = retire \ {h}
    /\ \/ /\ present' = present \ {h} /\ Drop(RowsAt(h, src))
          /\ unseen' = unseen \cup (RowsAt(h, src) \ (got \cup late))
          /\ (UNCHANGED faults \/ Fault)
       \/ Fault /\ UNCHANGED <<present, src, Stamps, unseen>>
    /\ UNCHANGED <<tgt, apc, reading, done, claimed, adding, cut>> /\ PassFrame

Retired ==
    /\ apc = "retire" /\ retire = {} /\ apc' = "read"
    /\ UNCHANGED <<present, src, Stamps, tgt, reading, writing, faults, unseen, cut>> /\ PassFrame

(* The end of a pass, or a task the platform kills at any point. *)
Forget ==
    /\ apc' = "idle" /\ listed' = {} /\ terminal' = {} /\ ready' = {} /\ todo' = {}
    /\ complete' = TRUE /\ reliable' = TRUE /\ got' = {}
    /\ done' = {} /\ claimed' = {} /\ adding' = {} /\ retire' = {}
    /\ UNCHANGED <<present, src, Stamps, tgt, unseen, cut>> /\ PassFrame

EndPass ==
    /\ apc = "read" /\ todo = {} /\ \A g \in Rulesets \ done : Desired(g) = {}
    /\ Forget /\ UNCHANGED faults
Killed == apc # "idle" /\ Fault /\ Forget

-----------------------------------------------------------------------------
HostStep(h) ==
    \/ EnsureOne(h) \/ ListScanIds(h) \/ PostRow(h) \/ SendScanRowNow(h) \/ End(h)
    \/ \E s \in Scans : RemoveScanId(h, s)

PassStep ==
    \/ StartPass \/ PlanPass \/ FaninRows \/ Verify \/ Retired \/ EndPass
    \/ \E h \in Hosts : RowsOfShard(h) \/ DeleteDataset(h)
    \/ \E g \in Rulesets : NextGroup(g)
    \/ \E B \in SUBSET adding : AddBatch(B)

Next == PassStep \/ Killed \/ Settle \/ Age \/ \E h \in Hosts : HostStep(h)

Spec == Init /\ [][Next]_vars

(* A pass is started again and again and its calls return; time passes, also *)
(* when it is seen between two passes only.                                  *)
FairSpec == Spec /\ WF_vars(PassStep) /\ SF_vars(Settle \/ Age)

-----------------------------------------------------------------------------
DataOK ==
    /\ bound \in Bounds /\ cur \in [Hosts -> Nat]
    /\ spc \in [Hosts -> {"idle", "list", "flush", "scan"}]
    /\ stale \in [Hosts -> SUBSET Scans]
    /\ \A h \in Hosts : spc[h] = "flush" <=> stale[h] # {}
    /\ present \subseteq Hosts /\ posted \subseteq Rows
    /\ src \subseteq posted /\ \A r \in src : r[1] \in present
    /\ ended \subseteq Scans /\ terminal \subseteq ended /\ ready \subseteq Scans
    /\ recent \subseteq src /\ aged \subseteq src
    /\ tgt \subseteq posted /\ got \subseteq posted
    /\ unseen \subseteq posted /\ late \subseteq posted /\ cut \subseteq Scans
    /\ todo \subseteq listed /\ listed \subseteq Hosts /\ done \subseteq Rulesets
    /\ claimed \subseteq ready /\ adding \subseteq got /\ retire \subseteq listed
    /\ faults \in 0..MaxFaults

FlagsOK ==
    /\ apc \in {"idle", "plan", "read", "add", "retire"}
    /\ complete \in BOOLEAN /\ reliable \in BOOLEAN

TypeOK == DataOK /\ FlagsOK

Latest(s) == s[2] = cur[s[1]]

(* Rows that a host's latest scan delivered are in its dataset or in the     *)
(* target: no failed call, killed pass, half-written group or failed flush   *)
(* loses one.  What a pass does lose went unread with the dataset it         *)
(* retired, came after its scan had been copied, or is of a scan that a read *)
(* at the row limit cut short.                                               *)
NothingElseLost ==
    \A r \in posted :
        Latest(ScanOf(r)) => (r \in src \cup tgt \cup unseen \cup late \/ ScanOf(r) \in cut)

(* A target loses only rows of scans that the host's later scan overwrote,   *)
(* however the pass read the fleet, short of the row limit, and whatever it  *)
(* retired before ("retirement delays a host's reconciliation until its next *)
(* scan", YaraConsolidateApply.py:701).                                      *)
OnlySupersededRemoved ==
    [][\A r \in tgt \ tgt' : ~Latest(ScanOf(r)) \/ ScanOf(r) \in cut]_vars

(* Some of a scan's rows are in the target and some are not. *)
Partly(s) == RowsOf(s, tgt) # {} /\ ~(RowsOf(s, posted) \subseteq tgt)

(* What a scan delivered before it was copied reaches its target, unless the *)
(* host's next scan comes first, a write broke, a read was cut short, or it  *)
(* fell to a retired source; for passes that take the whole fleet and groups *)
(* below the ceiling.                                                        *)
EventuallyGrouped ==
    \A s \in Scans :
        (bound = 0 /\ RowsOf(s, posted) # {} /\ Latest(s)) ~>
            \/ RowsOf(s, posted) \subseteq tgt \cup late
            \/ ~Latest(s) \/ (Partly(s) /\ faults > 0)
            \/ s \in cut \/ RowsOf(s, unseen) # {}

(* "Delete the per-host source datasets whose rows are now PROVEN to be in   *)
(* `target`" (YaraConsolidateApply.py:721).                                  *)
RetiredIsProven ==
    [][\A h \in present \ present' : RowsAt(h, src) \subseteq tgt]_vars
=============================================================================
