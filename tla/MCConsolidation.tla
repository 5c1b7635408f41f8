-------------------------- MODULE MCConsolidation --------------------------
EXTENDS Consolidation

(* Two scans sharing a matches shard.  The first has a second shard of its  *)
(* own, which group_shards_by_scan provides for (a scanner names its shards *)
(* once, when it starts), and sends a terminal row.                         *)
MCScans == {1, 2}
MCShards == {"m1", "m2", "c1"}
MCRows == 1..4
MCKindOf == [d \in MCShards |-> IF d = "c1" THEN "scans" ELSE "matches"]
MCScanOf == [r \in MCRows |-> IF r = 3 THEN 2 ELSE 1]
MCShardOf == [r \in MCRows |-> CASE r \in {1, 3} -> "m1" [] r = 2 -> "m2" [] OTHER -> "c1"]
MCTerminalRows == {4}

(* One shard of each kind: scan 1 has two matches and a terminal row, scan 2 *)
(* has one match and sends no terminal row.  Small enough for liveness.      *)
SmallShards == {"m1", "c1"}
SmallRows == 1..4
SmallKindOf == [d \in SmallShards |-> IF d = "c1" THEN "scans" ELSE "matches"]
SmallScanOf == [r \in SmallRows |-> IF r \in {1, 2, 4} THEN 1 ELSE 2]
SmallShardOf == [r \in SmallRows |-> IF r <= 3 THEN "m1" ELSE "c1"]
SmallTerminalRows == {4}
=============================================================================
