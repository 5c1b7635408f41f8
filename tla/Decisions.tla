------------------------------ MODULE Decisions ------------------------------
(***************************************************************************)
(* What is decided around a scan: whether it starts and how (ScanOptions),  *)
(* the rules it runs (RulePack, RuleLoading), the files it looks at          *)
(* (SkipRules), how it slows itself down (Governor), and on the tenant       *)
(* whether the wave has begun and which scans are ready (Readiness).         *)
(* Rules are loaded and the governor samples step by step; each of the other *)
(* decisions is one question with one answer.                                *)
(***************************************************************************)
EXTENDS RuleLoading, SkipRules, ScanOptions, Governor, Readiness

CONSTANTS
    RuleFiles,      \* rules files the gate is asked about
    Starts,         \* what scans are started with: [edition, given]
    Walks,          \* [edition, system, own, chunks, wanted, world, files]
    Tenants,        \* scans whose readiness is asked for,
    Beside,         \* those beside each of them,
    Now,            \* and when
    Waves           \* waves that were dispatched

AllTenants == Tenants \cup Beside

(* What libyara finds undefined is a module or a rule, never both. *)
ASSUME FilesAssumption ==
    \A t \in RuleFiles :
        /\ Len(t) \in Nat
        /\ \A i \in Lines(t, "import") :
              /\ t[i].mod # SyntaxError
              /\ \A j \in Lines(t, "rule") : t[i].mod \notin t[j].calls

ASSUME StartsAssumption ==
    \A s \in Starts :
        /\ s.given.options \in Seq([key : STRING, val : STRING])
        /\ \A k \in {"create_alerts", "write_dataset"} : s.given.args[k] \in Yes \cup No

ASSUME WalksAssumption ==
    \A w \in Walks :
        /\ w.own \in Seq(Names) \ {<<>>} /\ w.chunks \subseteq Seq(Names)
        /\ IsFiniteSet(w.files) /\ w.files \subseteq Seq(Names) \ {<<>>}
        /\ LET targets == ScanTargets(w.system, w.wanted, w.world)
           IN IsFiniteSet(targets) /\ targets \subseteq Seq(Names)

(* Each host writes its own shard, and stamps count from 1. *)
ASSUME TenantsAssumption ==
    /\ Now \in Nat
    /\ \A t \in AllTenants :
          /\ t.ruleset # NoTarget /\ \A r \in t.life : r.shard = r.host
          /\ IsFiniteSet(t.stamps) /\ t.stamps \subseteq Nat

(* The statuses that scans report. *)
ASSUME WavesAssumption == \A w \in Waves : \A r \in w.rows : r.status \in StartedStates

VARIABLE asked      \* what is decided in this behaviour

decided == <<loaded, governor, asked>>

(* scan_system over what the configuration makes of the lists and targets. *)
Walk(w) ==
    LET R == Policy(w.edition, w.system, w.own, w.chunks)
        targets == ScanTargets(w.system, w.wanted, w.world)
    IN  [of |-> "walk", rules |-> R, targets |-> targets, files |-> w.files,
         books |-> Books(R, targets, w.files)]

NoScan == ~governing /\ set = CHOOSE s \in Settings : TRUE
Idle == NoScan /\ engine = CHOOSE e \in Engines : TRUE
DecisionInit ==
    /\ LoadingInit /\ GovernorInit
    /\ \/ NoScan /\ asked = [of |-> "loading"]
       \/ asked = [of |-> "governor"] /\ engine = CHOOSE e \in Engines : TRUE
       \/ Idle /\ asked \in [of : {"rules"}, file : RuleFiles, agent : Engines]
       \/ Idle /\ asked \in [of : {"start"}, start : Starts]
       \/ Idle /\ \E w \in Walks : asked = Walk(w)
       \/ Idle /\ asked \in [of : {"ready"}, scan : Tenants]
       \/ Idle /\ asked \in [of : {"wave"}, wave : Waves]

Load == asked.of = "loading" /\ LoadingNext /\ UNCHANGED <<governor, asked>>
Sampled == asked.of = "governor" /\ Sample /\ UNCHANGED <<loaded, asked>>
Blinded == asked.of = "governor" /\ CannotRead /\ UNCHANGED <<loaded, asked>>
DecisionNext == Load \/ Sampled \/ Blinded
(* A scan goes on to read the CPU as long as it has files to scan. *)
DecisionSpec == DecisionInit /\ [][DecisionNext]_decided /\ WF_decided(Sampled)

-----------------------------------------------------------------------------
(* Of a file that has passed the gate, every sound rule runs; and nothing is *)
(* booked as the agent's limit that is not (RulePack).                       *)
RuleStandsAlone ==
    asked.of = "rules" =>
        StandsAlone(asked.file, asked.agent) /\ SkippedNeeds(asked.file, asked.agent)

(* What the result line says of targets, which files the carve-outs save,    *)
(* and that the books account for every file (SkipRules).                    *)
ExcludedTargetIsTold ==
    asked.of = "walk" => ExcludedIsTold(asked.rules, asked.targets, asked.files, asked.books)
CarveOutIsScanned ==
    asked.of = "walk" => ForcedIsScanned(asked.rules, asked.targets, asked.files, asked.books)
WalkIsInTheBooks ==
    asked.of = "walk" => BooksReconcile(asked.rules, asked.targets, asked.files, asked.books)

(* No scan starts whose findings could not be delivered (ScanOptions). *)
NoScanInVain == asked.of = "start" => NothingInVain(asked.start.edition, asked.start.given)

(* The preview is Apply's gate, and pending reasons mean what they say       *)
(* (Readiness).                                                              *)
PreviewIsTrue ==
    asked.of = "ready" => SameGate({asked.scan} \cup Beside, Now) /\ Clears(asked.scan, Now)

(* No scan that had ended makes a wave pass for started, and none that has   *)
(* begun is missed (Readiness).                                              *)
EndedScansStartNoWave == asked.of = "wave" => JudgedByTheLiving(asked.wave)

(* A scan is slowed further only for its own share, and once it keeps below  *)
(* its target it sleeps no longer (Governor).                                *)
OnlySlowedForCause == [][SlowedForCause]_governor
NotSleptForEver == asked.of = "governor" => SleepsNoLonger
=============================================================================
