------------------------ MODULE MCConsolidationLock ------------------------
EXTENDS ConsolidationLock, TLC

CONSTANTS a, b, c
MCRunners == {a, b, c}

(* 900 s and 20 minutes; the prune's window is longer than the others'.    *)
MCStaleAfter == [r \in MCRunners |-> IF r = c THEN 4 ELSE 3]
Careful2 == {b, c}

Alike == Permutations(MCRunners)
=============================================================================
