---------------------------- MODULE RuleLoading ----------------------------
(***************************************************************************)
(* The rules of one scan after the other on one host (XDR): the compiled    *)
(* set is kept on disk under a key made of the rules, the modules and the   *)
(* versions, with the counts of the compilation in a sidecar file.  The     *)
(* process may die between any two steps of saving, saving may fail, the    *)
(* agent may be upgraded between two scans, and a file may rot.             *)
(***************************************************************************)
EXTENDS RulePack, SequencesExt

CONSTANTS
    Packs,          \* rules files
    Engines,        \* what agents provide: sets of modules
    MaxFiles,       \* RULE_CACHE_MAX_FILES
    MaxLoads        \* bound: scans

ASSUME LoadingAssumption == MaxFiles \in Nat /\ MaxLoads \in Nat

VARIABLES
    engine,     \* what this host's agent provides
    cache,      \* the bundles, most recently used first
    sidecar,    \* key -> the counts kept with it; a torn file is as good as none
    last        \* what the last scan loaded, and what it reports

None == "none"

(* Seeded fault: the key names the rules alone. *)
RulesAlone(t) == <<t>>

(* _rule_cache_key: the rules, and all else that a compilation depends on. *)
Key(t) == <<t, XdrAvailable(engine, t)>>
CacheKeys(c) == {c[i].key : i \in 1..Len(c)}
(* A key names one file. *)
Without(c, k) ==
    LET I == {i \in 1..Len(c) : c[i].key = k}
    IN  IF I = {} THEN c ELSE RemoveAt(c, CHOOSE i \in I : TRUE)
BundleOf(c, k) == (CHOOSE e \in {c[i] : i \in 1..Len(c)} : e.key = k).rules
Counts(out) == [valid |-> Cardinality(out.valid), failed |-> Cardinality(out.failed),
                skipped |-> Cardinality(out.skipped)]
Forget(f, K) == [k \in DOMAIN f \ K |-> f[k]]
Keep(f, k, v) == [x \in DOMAIN f \cup {k} |-> IF x = k THEN v ELSE f[x]]

loaded == <<engine, cache, sidecar, last>>

LoadingInit ==
    /\ engine \in Engines /\ cache = <<>> /\ sidecar = <<>>
    /\ last = [scans |-> 0, pack |-> None]

Count == last.scans < MaxLoads
Loaded(t, how, rules, counts) ==
    last' = [scans |-> last.scans + 1, pack |-> t, from |-> how, rules |-> rules,
             counts |-> counts]

(* _restore_cache_meta: without a sidecar the bundle itself tells how many   *)
(* rules it holds, and the others are not known.                             *)
RestoreMeta(k) ==
    IF k \in DOMAIN sidecar THEN sidecar[k]
    ELSE [valid |-> Cardinality(BundleOf(cache, k)), failed |-> 0, skipped |-> 0]

(* A hit: the bundle loads, and is the most recently used from now on. *)
CacheHit(t) ==
    /\ Count /\ Key(t) \in CacheKeys(cache)
    /\ Loaded(t, "cache", BundleOf(cache, Key(t)), RestoreMeta(Key(t)))
    /\ cache' = <<[key |-> Key(t), rules |-> BundleOf(cache, Key(t))]>>
                  \o Without(cache, Key(t))
    /\ UNCHANGED <<engine, sidecar>>

(* _prune_rule_cache: the least recently used go, with their sidecars. *)
Pruned(c) == SubSeq(c, 1, IF Len(c) < MaxFiles THEN Len(c) ELSE MaxFiles)

(* _save_rule_cache: the bundle is replaced in one step, the sidecar written *)
(* after it; it stops where a call fails or the process dies, and a sidecar  *)
(* that was not finished cannot be read.                                     *)
Save(k, out, c, side, upto) ==
    LET new == <<[key |-> k, rules |-> out.valid]>> \o c
    IN  CASE upto = "nothing" -> cache' = c /\ sidecar' = side
          [] upto = "bundle" -> cache' = new /\ sidecar' = side
          [] upto = "all" ->
                /\ cache' = Pruned(new)
                /\ sidecar' = Forget(Keep(side, k, Counts(out)), CacheKeys(new) \ CacheKeys(Pruned(new)))

(* _load_or_compile_rules, when nothing usable is there: a bundle that does   *)
(* not load is removed first.  A compilation that raises saves nothing.       *)
Compile(t, rotten) ==
    LET out == XdrCompile(t, engine)
        c == Without(cache, Key(t))
        side == Forget(sidecar, {Key(t)})
    IN  /\ Count /\ (rotten <=> Key(t) \in CacheKeys(cache))
        /\ IF out.raises = "no"
           THEN /\ Loaded(t, "fresh", out.valid, Counts(out))
                /\ \E upto \in {"nothing", "bundle", "all"} :
                      Save(Key(t), out, c, side, upto)
           ELSE /\ Loaded(t, out.raises, {}, Counts(out))
                /\ cache' = c /\ sidecar' = side
        /\ UNCHANGED engine

Upgrade ==
    /\ Count /\ engine' \in Engines \ {engine}
    /\ last' = [scans |-> last.scans + 1, pack |-> None]
    /\ UNCHANGED <<cache, sidecar>>

LoadingNext ==
    \/ \E t \in Packs : CacheHit(t) \/ \E rotten \in BOOLEAN : Compile(t, rotten)
    \/ Upgrade

-----------------------------------------------------------------------------
(* A cached set is what a compilation would give on this agent now; and     *)
(* whatever happened to its sidecar, the scan reports as many valid rules as *)
(* it runs, and never books as failed or skipped what was not.               *)
CacheIsCompile ==
    last.pack # None =>
        LET now == XdrCompile(last.pack, engine) counts == Counts(now)
        IN  /\ last.rules = (IF last.from \in {"fresh", "cache"} THEN now.valid ELSE {})
            /\ last.counts \in {counts, [valid |-> counts.valid, failed |-> 0, skipped |-> 0]}
=============================================================================
