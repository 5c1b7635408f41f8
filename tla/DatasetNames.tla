---------------------------- MODULE DatasetNames ----------------------------
(***************************************************************************)
(* What the name of a lookup dataset says about it: the part of YaraCleanup *)
(* that decides from names alone.  A name is a record of what its parsers   *)
(* read from it: the prefix, the kind, the schema version (0: no _v<N>      *)
(* segment), the host, the month it rotates on (0: none) and the scan a     *)
(* per-scan target is for.                                                  *)
(***************************************************************************)
EXTENDS Integers

CONSTANT NoScan          \* the scan of a name that is no per-scan target

NameOf(prefix, kind, version, host, month, scan) ==
    [prefix |-> prefix, kind |-> kind, version |-> version, host |-> host,
     month |-> month, scan |-> scan]

(* target_name *)
TargetName(n, s) == [n EXCEPT !.host = "none", !.month = 0, !.scan = s]

(* NAME_RE and parse_dataset_name: the naming contract. *)
Parsed(n) == n.prefix = "yara_scanner" /\ n.kind \in {"matches", "scans"} /\ n.version > 0

Overwrite(n) == n.kind = "matches" /\ n.version >= 4 /\ n.month = 0 /\ n.scan = NoScan

PackOutput(n) == n.prefix = "yara_scanner" /\ n.kind \in {"summary", "full"} /\ n.version > 0

(* YARA_OWNED_RE: the lock and the run logs are not among them. *)
Owned(n) ==
    n.kind \in {"matches", "scans"} \cup
        (IF n.prefix = "yara_scanner" THEN {"summary", "full"} ELSE {})

(* classify_yara_datasets *)
Schema(n, ver) ==
    IF n.version = ver /\ n.prefix = "yara_scanner" THEN "current"
    ELSE IF n.version > ver THEN "newer" ELSE "legacy"

HasRotatedSibling(n, all) ==
    \E s \in all : s.month # 0 /\ [s EXCEPT !.month = 0] = n

(* The rails on a month label: 1 and 2. *)
Dated(month, now, else) ==
    IF month = now THEN "current_month" ELSE IF month > now THEN "future_month" ELSE else

(* select_rotated_for_deletion, one name: why it is kept, or "candidate". *)
Retention(n, current, window, now) ==
    IF ~Parsed(n) THEN (IF PackOutput(n) THEN "pack_output" ELSE "not_yara_name")
    ELSE IF n.scan # NoScan THEN "retired_scan_target"
    ELSE IF Overwrite(n) THEN "overwrite_dataset"
    ELSE IF n.month = 0
         THEN (IF HasRotatedSibling(n, current) THEN "unrotated_frozen" ELSE "unrotated_growing")
    ELSE Dated(n.month, now,
               IF now - n.month <= window THEN "inside_window" ELSE "candidate")

(* select_legacy_for_deletion, one name.  Of a name outside the contract     *)
(* nothing is inferred, and it is a candidate.                               *)
Legacy(n, now) ==
    IF n.prefix # "yara_scanner" THEN "candidate"
    ELSE IF n.scan # NoScan THEN "retired_scan_target"
    ELSE IF n.month = 0 THEN "legacy_unsuffixed"
    ELSE Dated(n.month, now, "candidate")

(* report_datasets: the state an inventory gives a name. *)
ReportState(n, ver, current) ==
    IF Schema(n, ver) # "current" THEN Schema(n, ver)
    ELSE IF ~Parsed(n) THEN (IF PackOutput(n) THEN "pack_output" ELSE "unrecognised")
    ELSE IF n.scan # NoScan THEN "consolidated"
    ELSE IF Overwrite(n) THEN "overwrite"
    ELSE IF n.month # 0 THEN "rotated"
    ELSE IF HasRotatedSibling(n, current) THEN "frozen" ELSE "not_rotated"

(* SKIP_RAILS, numbered as the reasons are; 0: a guard without a number. *)
Rail(reason) ==
    CASE reason = "current_month" -> 1
      [] reason = "future_month" -> 2
      [] reason \in {"unrotated_frozen", "unrotated_growing", "legacy_unsuffixed"} -> 3
      [] reason = "newer_schema" -> 4
      [] reason \in {"pack_output", "not_yara_name"} -> 5
      [] reason \in {"recency_check_failed", "within_quiet_period"} -> 6
      [] reason \in {"consolidation_check_failed", "unconsolidated_scans"} -> 7
      [] reason \in {"retired_scan_target", "overwrite_dataset", "inside_window",
                     "legacy_not_requested"} -> 0
=============================================================================
