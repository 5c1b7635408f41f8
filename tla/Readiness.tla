------------------------------ MODULE Readiness ------------------------------
(***************************************************************************)
(* What a playbook asks before it consolidates: has the wave it dispatched  *)
(* started (YaraScanVerify), and which scans are ready (the preview of      *)
(* YaraConsolidateStatus, whose list goes into YaraConsolidateApply, which  *)
(* gates again for itself)?                                                 *)
(***************************************************************************)
EXTENDS Integers, FiniteSets

CONSTANTS
    Quiet, Retention, SkewTolerance,    \* in units of one clock
    Norm        \* name -> what strip().lower() makes of it

ASSUME ReadinessAssumption ==
    Quiet \in Nat \ {0} /\ Retention \in Nat /\ Quiet < Retention /\ SkewTolerance \in Nat

TerminalLifecycle == {"completed", "cancelled", "failed"}
StartedStates == {"initiated", "running"} \cup TerminalLifecycle

(* A scan on the tenant.  ruleset: the one its dataset is named after;      *)
(* life: its lifecycle rows [shard, host, status, at], no two of them at one *)
(* moment; stamps: those of its match rows, Unstamped for a row without one; *)
(* hashed: does its scan_id end with a ruleset hash?                         *)
Unstamped == 0
Latest(rows) == CHOOSE r \in rows : \A q \in rows : q.at <= r.at

(* Seeded fault: every status a shard ever had. *)
EverReported(life) == {r.status : r \in life}
(* build_terminal_map: the latest status on every scans shard;               *)
(* _terminal_map_from_rows: that for every host.                             *)
ByShard(life) == {Latest({r \in life : r.shard = q.shard}).status : q \in life}
ByHost(life) == {Latest({r \in life : r.host = q.host}).status : q \in life}

(* All that report the scan report it over. *)
IsTerminal(statuses) == statuses # {} /\ statuses \subseteq TerminalLifecycle

Newest(stamps) == CHOOSE s \in stamps \cup {Unstamped} : \A q \in stamps : q <= s
Stamped(t) == Newest(t.stamps) # Unstamped
Age(t, now) == now - Newest(t.stamps)

(* The gate of check_readiness... *)
Ready(t, now) ==
    /\ Stamped(t)
    /\ \/ IsTerminal(ByShard(t.life)) /\ Age(t, now) >= Quiet
       \/ Age(t, now) >= Retention

(* ...and why a scan is pending: the first that applies.                     *)
Reason(t, now) ==
    IF ~Stamped(t) THEN "no_timestamp"
    ELSE IF Age(t, now) < -SkewTolerance THEN "clock_skew"
    ELSE IF t.life = {} THEN "no_lifecycle_row"
    ELSE IF ~IsTerminal(ByShard(t.life)) THEN "scan_in_progress" ELSE "quiet_period"
SelfClearing == {"no_lifecycle_row", "quiet_period", "scan_in_progress"}

(* The gate of consolidate_full, over one read of the fleet (fanned) or     *)
(* shard by shard.                                                           *)
Taken(t, now, fanned) ==
    LET over == IF fanned THEN IsTerminal(ByHost(t.life)) ELSE IsTerminal(ByShard(t.life))
        since(n) == Newest(t.stamps) > 0 /\ now - Newest(t.stamps) >= n
    IN t.hashed /\ ((over /\ since(Quiet)) \/ since(Retention))

(* The datasets the preview names, and those Apply writes.  A scan without  *)
(* a hash is counted in a group for which there is no dataset.               *)
NoTarget == "none"
PreviewTargets(T, now) ==
    {IF t.hashed THEN t.ruleset ELSE NoTarget : t \in {u \in T : Ready(u, now)}} \ {NoTarget}
Written(T, now, fanned) == {t.ruleset : t \in {u \in T : Taken(u, now, fanned)}}

-----------------------------------------------------------------------------
(* A wave.  wanted: the names dispatched to; at: when; rows: the lifecycle  *)
(* rows [name, status, at, of], of being a previous scan ("old") or the one *)
(* that was dispatched ("new"), which no row tells; at is by the host's     *)
(* clock; matches: names with match rows since; down: the queries that fail. *)
Keys(w) == {Norm[n] : n \in w.wanted}

(* Seeded fault: the moment of the dispatch counts as after it. *)
NotBefore(w, r) == r.at >= w.at
Since(w, r) == r.at > w.at

Seen(w) == {Norm[r.name] : r \in {q \in w.rows : Since(w, q) /\ q.status \in StartedStates}}
              \cap Keys(w)

(* verify_wave: [verdict, started, not_started, evidence]. *)
VerifyWave(w) ==
    IF "lifecycle" \in w.down
    THEN [verdict |-> "unknown", started |-> {}, not_started |-> {}, evidence |-> "not_attempted"]
    ELSE [verdict |-> IF Seen(w) = {} THEN "wave_dead"
                      ELSE IF Seen(w) = Keys(w) THEN "ok" ELSE "partial",
          started |-> Seen(w), not_started |-> Keys(w) \ Seen(w),
          evidence |-> IF "match" \in w.down THEN "unavailable"
                       ELSE IF Keys(w) \cap {Norm[n] : n \in w.matches} # {} THEN "observed"
                       ELSE "none_yet"]

(* main: a wave dispatched to nobody is refused. *)
Verify(w) ==
    IF w.wanted = {}
    THEN [verdict |-> "refused", started |-> {}, not_started |-> {}, evidence |-> "not_attempted"]
    ELSE VerifyWave(w)

-----------------------------------------------------------------------------
(* "The gate must stay identical to consolidate_full's" (check_readiness):  *)
(* what is previewed as ready is what Apply takes, however it reads, and    *)
(* into the datasets named.                                                  *)
SameGate(T, now) ==
    \A fanned \in BOOLEAN :
        /\ \A t \in T : Taken(t, now, fanned) <=> Ready(t, now) /\ t.hashed
        /\ Written(T, now, fanned) = PreviewTargets(T, now)

(* A reason said to clear by itself does within the retention, if only time *)
(* passes; a scan without a stamp never gets ready, and one stamped in the   *)
(* future not before that time has come (SELF_CLEARING_PENDING_REASONS).     *)
Clears(t, now) ==
    ~Ready(t, now) =>
        LET why == Reason(t, now)
        IN  /\ why \in SelfClearing => Ready(t, now + Retention + SkewTolerance)
            /\ why \notin SelfClearing =>
                   \A later \in now..(now + Retention) :
                       Ready(t, later) => why = "clock_skew" /\ later >= Newest(t.stamps) + Quiet

(* A scan that had ended by the dispatch starts no wave, however late its    *)
(* rows arrive, and a new scan that reports is never missed: the hosts       *)
(* counted as started are those whose new scan told, but for the ones whose  *)
(* clock has it begin before the dispatch, and those whose previous scan     *)
(* outlasted the dispatch, which a heartbeat of it makes pass for started.   *)
(* The verdict is "ok" when that is all of them and "wave_dead" when it is   *)
(* none, never either without the query ("a query failing is not evidence a  *)
(* scan failed", verify_wave; "a wave dispatched to nobody ... must not      *)
(* report ok", main).                                                        *)
JudgedByTheLiving(w) ==
    LET v == Verify(w)
        own == {q \in w.rows : q.of = "new"}
        told == {Norm[r.name] : r \in own}
        behind == told \ {Norm[r.name] : r \in {q \in own : q.at > w.at}}
        overrun == {Norm[r.name] : r \in {q \in w.rows \ own : q.at > w.at}}
    IN /\ v.verdict \in {"ok", "wave_dead"} => Keys(w) # {} /\ "lifecycle" \notin w.down
       /\ Keys(w) # {} /\ "lifecycle" \notin w.down =>
             /\ (told \ behind) \cap Keys(w) \subseteq v.started
             /\ v.started \subseteq told \cup overrun
             /\ v.verdict = "ok" => Keys(w) \subseteq told \cup overrun
             /\ v.verdict = "wave_dead" => Keys(w) \cap told \subseteq behind
             /\ Keys(w) \subseteq told \ behind => v.verdict = "ok"
             /\ Keys(w) \cap (told \cup overrun) = {} => v.verdict = "wave_dead"
       /\ v.not_started = IF "lifecycle" \in w.down THEN {} ELSE Keys(w) \ v.started
=============================================================================
