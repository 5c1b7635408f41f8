--------------------------- MODULE FindingsStore ---------------------------
(***************************************************************************)
(* What consolidation promises a reader of the tenant, row by row.  A row  *)
(* arrives in its shard and is copied to its target once its group (one    *)
(* scan, one kind) is closed; it never moves back.  Rows leave their       *)
(* shards when EVERY row of the group that arrived before it closed is in  *)
(* the target.  Two things are not promised: what becomes of a group after *)
(* a late row was copied with it, and of a row that arrives in a shard     *)
(* which was counted before and is deleted on that count.                  *)
(***************************************************************************)
CONSTANTS
    Rows, Shards, Groups,
    ShardOf,    \* [Rows -> Shards]
    GroupOf     \* [Rows -> Groups]: the (kind, scan) a row belongs to

VARIABLES
    inShard, inTarget,
    arrived,    \* every row that arrived
    closed,     \* groups that are over
    late,       \* rows that arrived in a closed group
    counted,    \* the rows of some shards, as they were once read
    overrun     \* rows that left uncounted, with a shard that was counted

store == <<inShard, inTarget, arrived, closed, late, counted, overrun>>

Whole(g) ==
    \/ \E r \in late \cap inTarget : GroupOf[r] = g
    \/ \A r \in arrived \ (late \cup overrun) : GroupOf[r] = g => r \in inTarget

Init ==
    /\ inShard = {} /\ inTarget = {} /\ arrived = {} /\ closed = {}
    /\ late = {} /\ counted = {} /\ overrun = {}

Arrive(r) ==
    /\ r \notin arrived
    /\ arrived' = arrived \cup {r}
    /\ inShard' = inShard \cup {r}
    /\ late' = IF GroupOf[r] \in closed THEN late \cup {r} ELSE late
    /\ UNCHANGED <<inTarget, counted, overrun>>

Count(D) ==
    /\ counted' = {r \in inShard : ShardOf[r] \in D}
    /\ UNCHANGED <<inShard, inTarget, arrived, late, overrun>>

Copy(S) ==
    /\ S \subseteq inShard /\ \A r \in S : GroupOf[r] \in closed
    /\ inTarget' = inTarget \cup S
    /\ UNCHANGED <<inShard, arrived, late, counted, overrun>>

(* Rows of whole groups are dropped. *)
Strip(S) ==
    /\ S \subseteq inShard /\ \A r \in S : Whole(GroupOf[r])
    /\ inShard' = inShard \ S
    /\ UNCHANGED <<inTarget, arrived, late, counted, overrun>>

(* So is a whole shard, whatever came into it since it was counted. *)
Delete(d) ==
    LET S == {r \in inShard : ShardOf[r] = d} IN
    /\ \E r \in counted : ShardOf[r] = d
    /\ \A r \in S \cap counted : Whole(GroupOf[r])
    /\ inShard' = inShard \ S
    /\ overrun' = overrun \cup (S \ counted)
    /\ UNCHANGED <<inTarget, arrived, late, counted>>

Next ==
    /\ closed \subseteq closed' /\ closed' \subseteq Groups
    /\ \/ \E r \in Rows : Arrive(r)
       \/ \E D \in SUBSET Shards : Count(D)
       \/ \E S \in SUBSET Rows : Copy(S) \/ Strip(S)
       \/ \E d \in Shards : Delete(d)
       \/ UNCHANGED <<inShard, inTarget, arrived, late, counted, overrun>>

Spec == Init /\ [][Next]_store
=============================================================================
