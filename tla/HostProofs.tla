------------------------------ MODULE HostProofs ------------------------------
(***************************************************************************)
(* Theorems about what a scan leaves on its host (HostArtefacts) and about  *)
(* what is decided around it (Decisions).                                   *)
(*                                                                          *)
(* HostArtefacts, for any rules, paths, policies and clock: type            *)
(* correctness; that no finding is alerted without its row in the dataset,  *)
(* whatever vanishes while the file is being reported; that the evidence    *)
(* collected is whole and the run's own; and that nothing is removed from   *)
(* the host but by those who may.                                           *)
(*                                                                          *)
(* Decisions, for any rules files, lists, targets, files, options, settings *)
(* and rows: every property of the decisions but the one of liveness.  Most *)
(* of them are about one answer, so that what is proved is a fact about     *)
(* operators; the cache of compiled rules and the governor have invariants. *)
(***************************************************************************)
EXTENDS HostArtefacts, Decisions, FiniteSetTheorems, WellFoundedInduction, SequenceTheorems, TLAPS

(* A run in progress has a stamp; without it the ZIP would have no name.    *)
TypeInv == TypeOK /\ (pc # "idle" => run \in used)

(* What is kept of the logs is some of those there are, and the run's own.  *)
LEMMA KeptIsSome ==
    ASSUME NEW ids, NEW own, own \in ids
    PROVE  Kept(ids, own) \subseteq ids /\ own \in Kept(ids, own)
  BY DEF Kept

LEMMA CleanupTyped ==
    ASSUME TypeInv, NEW own \in RunIds, InitialCleanup(own), used' = used \cup {own}
    PROVE  /\ logs' \cup summaries' \subseteq used'
           /\ texts' \subseteq texts /\ alerts' \subseteq alerts /\ zips' = <<>>
  BY DEF InitialCleanup, PruneLogs, TypeInv, TypeOK

LEMMA RenameTyped ==
    ASSUME TypeInv, Rename
    PROVE  texts' \cup alerts' \subseteq Entries
  BY DEF Rename, TypeInv, TypeOK

(* The names of entries are rules. *)
LEMMA NamesAreRules ==
    ASSUME NEW E \in SUBSET Entries
    PROVE  NamedBy(E) \subseteq Rules
  BY DEF NamedBy, Entries

LEMMA TypeInit == Init => TypeInv
  BY DEF Init, TypeInv, TypeOK, Entries

LEMMA TypeStep == TypeInv /\ [Next]_vars => TypeInv'
<1> SUFFICES ASSUME TypeInv, [Next]_vars PROVE TypeInv'
  OBVIOUS
<1> USE DEF TypeInv, TypeOK
<1>1. CASE Refused
  <2>1. PICK own \in RunIds \ used : Refuse(own) /\ used' = used \cup {own}
    BY <1>1 DEF Refused
  <2>2. CASE edition = "xsiam"
    <3>1. InitialCleanup(own)
      BY <2>1, <2>2 DEF Refuse
    <3>2. /\ logs' \cup summaries' \subseteq used'
          /\ texts' \subseteq texts /\ alerts' \subseteq alerts /\ zips' = <<>>
      BY <2>1, <3>1, CleanupTyped
    <3> QED BY <1>1, <2>1, <3>2 DEF Refused, At, fixed, scan, timer
  <2>3. CASE edition # "xsiam"
    BY <1>1, <2>1, <2>3 DEF Refused, Refuse, At, fixed, scan, dir, timer
  <2> QED BY <2>2, <2>3
<1>2. CASE Start
  <2>1. PICK own \in RunIds \ used :
            InitialCleanup(own) /\ run' = own /\ used' = used \cup {own}
    BY <1>2 DEF Start
  <2>2. /\ logs' \cup summaries' \subseteq used'
        /\ texts' \subseteq texts /\ alerts' \subseteq alerts /\ zips' = <<>>
    BY <2>1, CleanupTyped
  <2> QED BY <1>2, <2>1, <2>2 DEF Start, At, fixed, timer
<1>3. CASE EndScan
  BY <1>3 DEF EndScan, fixed, scan, dir, zipping, timer, books
<1>4. CASE MapFiles
  BY <1>4 DEF MapFiles, At, fixed, dir, timer, books
<1>5. CASE ListTexts
  BY <1>5, NamesAreRules DEF ListTexts, At, fixed, scan, dir, timer, books
<1>6. CASE AddMapping
  BY <1>6 DEF AddMapping, Collected, fixed, scan, dir, timer, books
<1>7. CASE Schedule
  <2>1. texts' \cup alerts' \subseteq Entries
    BY <1>7, RenameTyped DEF Schedule, dir
  <2> QED BY <1>7, <2>1 DEF Schedule, At, fixed, scan, zipping, books
<1>8. CASE RunScript
  BY <1>8, RenameTyped DEF RunScript, fixed, scan, zipping, books
<1>9. CASE WriteSummary
  BY <1>9 DEF WriteSummary, SummaryFile, At, fixed, scan, dir, zipping, timer
<1>10. CASE HostCleanup
  BY <1>10 DEF HostCleanup, At, fixed, scan, dir, books, timer
<1>11. CASE Crash
  BY <1>11 DEF Crash, fixed, scan, dir, zipping, books
<1>12. CASE Boot
  BY <1>12 DEF Boot, fixed, scan, dir, zipping, books
<1>13. ASSUME NEW p \in Paths, Match(p) PROVE TypeInv'
  <2>1. PICK hits \in SUBSET Rules \ {{}}, done \in SUBSET Rules, written \in SUBSET Rules,
             hash \in BOOLEAN :
          /\ gone' = IF done # hits \/ ~hash THEN gone \cup {p} ELSE gone
          /\ Report(p, done, written)
          /\ rows' = IF edition = "xdr" THEN rows \cup RowOf(p, hits, done) ELSE rows
          /\ matched' = IF done = hits THEN matched \cup {p} ELSE matched
          /\ hashed' = IF done = hits /\ hash THEN hashed \cup {p} ELSE hashed
    BY <1>13 DEF Match
  <2>2. texts' \subseteq Entries /\ found' \subseteq Rules \X Paths
    BY <1>13, <2>1 DEF Report, Entries, Match
  <2>3. rows' \subseteq Paths \X SUBSET Rules
    BY <2>1 DEF RowOf
  <2> QED BY <1>13, <2>1, <2>2, <2>3 DEF Match, fixed, zipping, timer, books
<1>14. ASSUME NEW p \in Paths, Clean(p) PROVE TypeInv'
  BY <1>14 DEF Clean, fixed, dir, zipping, timer, books
<1>15. ASSUME NEW p \in Paths, CopyFile(p) PROVE TypeInv'
  BY <1>15, ArtefactsAssumption DEF CopyFile, MarkPackaged, fixed, scan, dir, timer, books
<1>16. ASSUME NEW p \in Paths, Vanish(p) PROVE TypeInv'
  BY <1>16 DEF Vanish, fixed, scan, dir, zipping, timer, books
<1>17. ASSUME NEW r \in Rules, AddText(r) PROVE TypeInv'
  BY <1>17 DEF AddText, Collected, fixed, scan, dir, timer, books
<1>18. CASE UNCHANGED vars
  BY <1>18 DEF vars, fixed, scan, dir, zipping, timer, books
<1> QED
  BY <1>1, <1>2, <1>3, <1>4, <1>5, <1>6, <1>7, <1>8, <1>9, <1>10, <1>11, <1>12, <1>13,
     <1>14, <1>15, <1>16, <1>17, <1>18 DEF Next

(* Every variable keeps its type, and nothing is logged, summarised or      *)
(* packaged for a run that never was (CleanupManager, EvidenceCollector).   *)
THEOREM ArtefactsTyped == Spec => []TypeOK
<1>1. TypeInv => TypeOK
  BY DEF TypeInv
<1> QED BY <1>1, TypeInit, TypeStep, PTL DEF Spec

-----------------------------------------------------------------------------
(* A file that is still to be scanned has neither findings nor a row: this  *)
(* is why a file gets one row, with all that was found.                      *)
RowInv ==
    /\ \A f \in found : f[2] \notin todo
    /\ \A w \in rows : w[1] \notin todo
    /\ EveryAlertHasItsRow

LEMMA RowInit == Init => RowInv
  BY DEF Init, RowInv, EveryAlertHasItsRow

LEMMA RowsUntouched ==
    ASSUME RowInv, todo' \subseteq todo,
           UNCHANGED <<edition, found, rows>>
    PROVE  RowInv'
  BY DEF RowInv, EveryAlertHasItsRow

LEMMA RowStep == TypeInv /\ RowInv /\ [Next]_vars => RowInv'
<1> SUFFICES ASSUME TypeInv, RowInv, [Next]_vars PROVE RowInv'
  OBVIOUS
<1>1. CASE Start
  BY <1>1 DEF Start, RowInv, EveryAlertHasItsRow
<1>2. ASSUME NEW p \in Paths, Match(p) PROVE RowInv'
  <2>1. PICK hits \in SUBSET Rules \ {{}}, done \in SUBSET Rules, written \in SUBSET Rules :
          /\ Report(p, done, written)
          /\ rows' = IF edition = "xdr" THEN rows \cup RowOf(p, hits, done) ELSE rows
    BY <1>2 DEF Match
  <2>2. p \in todo /\ todo' = todo \ {p} /\ edition' = edition
    BY <1>2 DEF Match, fixed
  <2>3. \A f \in found' : f \in found \/ (f[2] = p /\ f[1] \in done)
    BY <2>1 DEF Report
  <2>4. \A w \in rows' : w \in rows \/ (w = <<p, done>> /\ done # {})
    BY <2>1 DEF RowOf
  <2>5. ASSUME edition = "xdr", NEW f \in found'
        PROVE  \E w \in rows' : w[1] = f[2] /\ f[1] \in w[2]
    <3>1. CASE f \in found
      BY <2>1, <2>5, <3>1 DEF RowInv, EveryAlertHasItsRow
    <3>2. CASE f[2] = p /\ f[1] \in done
      <4>1. <<p, done>> \in rows'
        BY <2>1, <2>5, <3>2 DEF RowOf
      <4> QED BY <3>2, <4>1
    <3> QED BY <2>3, <3>1, <3>2
  <2>6. ASSUME edition = "xdr", NEW v \in rows', NEW w \in rows', v[1] = w[1]
        PROVE  v = w
    <3>1. CASE v \in rows /\ w \in rows
      BY <2>6, <3>1 DEF RowInv, EveryAlertHasItsRow
    <3>2. CASE ~(v \in rows /\ w \in rows)
      BY <2>2, <2>4, <2>6, <3>2 DEF RowInv
    <3> QED BY <3>1, <3>2
  <2>7. \A f \in found' : f[2] \notin todo'
    BY <2>2, <2>3 DEF RowInv
  <2>8. \A w \in rows' : w[1] \notin todo'
    BY <2>2, <2>4 DEF RowInv
  <2> QED BY <2>2, <2>5, <2>6, <2>7, <2>8 DEF RowInv, EveryAlertHasItsRow
<1>3. CASE \E p \in Paths : Clean(p)
  BY <1>3, RowsUntouched DEF Clean, fixed
<1>4. CASE EndScan \/ ListTexts \/ AddMapping \/ Schedule \/ RunScript
  BY <1>4, RowsUntouched DEF EndScan, ListTexts, AddMapping, Schedule, RunScript, fixed, scan
<1>5. CASE Refused \/ WriteSummary \/ HostCleanup \/ Crash \/ Boot
  BY <1>5, RowsUntouched DEF Refused, WriteSummary, HostCleanup, Crash, Boot, fixed, scan
<1>6. CASE MapFiles \/ \E r \in Rules : AddText(r)
  BY <1>6, RowsUntouched DEF MapFiles, AddText, fixed, scan
<1>7. CASE \E p \in Paths : CopyFile(p) \/ Vanish(p)
  BY <1>7, RowsUntouched DEF CopyFile, Vanish, fixed, scan
<1>8. CASE UNCHANGED vars
  BY <1>8, RowsUntouched DEF vars, fixed, scan
<1> QED BY <1>1, <1>2, <1>3, <1>4, <1>5, <1>6, <1>7, <1>8 DEF Next

(* Whatever vanishes or cannot be written while a file is reported, every   *)
(* alert of the run has its file's row, and a file has one (_write_alerts). *)
THEOREM AlertsHaveRows == Spec => []EveryAlertHasItsRow
<1>1. RowInv => EveryAlertHasItsRow
  BY DEF RowInv
<1> QED BY <1>1, TypeInit, TypeStep, RowInit, RowStep, PTL DEF Spec

-----------------------------------------------------------------------------
(* What a run has of the evidence, stage by stage.                          *)
Packages == [texts : SUBSET Entries, copies : SUBSET Paths, listed : SUBSET Paths,
             mapped : BOOLEAN]

(* Before the script runs there are no renamed texts, and after it no others;*)
(* and while the directory is the run's own, so are the texts in it, each of *)
(* a file that is known to match or to have vanished.                        *)
DirInv ==
    ~muddled =>
        /\ texts = {} \/ alerts = {}
        /\ pc \notin {"idle", "tail", "cleanup"} => alerts = {}
        /\ pc # "idle" => \A f \in texts \cup alerts : f[3] = run /\ f[2] \in matched \cup gone

ZipInv ==
    /\ zips \in [DOMAIN zips -> Packages] /\ EvidenceIsOwn
    /\ pc \in {"scanning", "mapping"} => DOMAIN zips = {}
    /\ pc \in {"copying", "zipping", "scheduling"} => run \in DOMAIN zips

(* The copies: a file that has been tried is in the ZIP by its content, or   *)
(* gone.                                                                     *)
CopyInv ==
    /\ pc \in {"scanning", "mapping"} => tried = {} /\ packaged = {}
    /\ pc \in {"copying", "zipping", "scheduling", "tail"} /\ run \in DOMAIN zips =>
        /\ matched \ gone \subseteq zips[run].listed \cap hashed
        /\ packaged \subseteq zips[run].copies
        /\ \A p \in tried : p \in gone \/ Content[p] \in zips[run].copies
        /\ pc # "copying" /\ policy.copies => hashed \subseteq tried

(* The texts: those not listed any more are packaged. *)
TextInv ==
    /\ pc = "copying" => zips[run].texts = {}
    /\ pc = "zipping" /\ ~muddled =>
            listing \subseteq NamedBy(texts) /\ zips[run].texts = {f \in texts : f[1] \notin listing}
    /\ CollectedNow => zips[run].mapped /\ zips[run].texts = texts \cup alerts

EInv == TypeInv /\ DirInv /\ ZipInv /\ CopyInv /\ TextInv

LEMMA EInit == Init => EInv
<1> SUFFICES ASSUME Init PROVE EInv
  OBVIOUS
<1>1. zips = <<>> /\ DOMAIN zips = {} /\ zips \in [{} -> Packages]
  BY DEF Init
<1> QED
  BY <1>1, TypeInit
  DEF Init, EInv, DirInv, ZipInv, CopyInv, TextInv, CollectedNow, EvidenceIsOwn

(* A start, or the XSIAM edition's start that is refused, empties the         *)
(* directories, or knows that it has not.                                    *)
LEMMA CleanupEmpties ==
    ASSUME NEW own, InitialCleanup(own)
    PROVE  /\ DOMAIN zips' = {} /\ zips' \in [{} -> Packages]
           /\ ~muddled' => texts' = {} /\ alerts' = {}
<1>1. zips' = <<>>
  BY DEF InitialCleanup
<1>2. DOMAIN zips' = {} /\ zips' \in [{} -> Packages]
  BY <1>1
<1> QED BY <1>2 DEF InitialCleanup

LEMMA EmptyIsEvidence ==
    ASSUME DOMAIN zips' = {}, zips' \in [{} -> Packages], ~muddled' => texts' = {} /\ alerts' = {},
           pc' = "idle" \/ (pc' = "scanning" /\ tried' = {} /\ packaged' = {})
    PROVE  DirInv' /\ ZipInv' /\ CopyInv' /\ TextInv'
<1>1. DirInv' /\ CopyInv' /\ TextInv'
  BY DEF DirInv, CopyInv, TextInv, CollectedNow
<1>2. ZipInv'
  BY DEF ZipInv, EvidenceIsOwn
<1> QED BY <1>1, <1>2

LEMMA StartGathers == ASSUME EInv, Refused \/ Start PROVE DirInv' /\ ZipInv' /\ CopyInv' /\ TextInv'
<1>1. CASE Start
  <2>1. PICK own : InitialCleanup(own)
    BY <1>1 DEF Start
  <2> QED BY <1>1, <2>1, CleanupEmpties, EmptyIsEvidence DEF Start, At
<1>2. CASE Refused
  <2>1. PICK own : Refuse(own)
    BY <1>2 DEF Refused
  <2>2. CASE edition = "xsiam"
    BY <1>2, <2>1, <2>2, CleanupEmpties, EmptyIsEvidence DEF Refused, Refuse, At
  <2>3. CASE edition # "xsiam"
    <3>1. UNCHANGED <<fixed, pc, run, outcome, gone, scan, dir, zipping, muddled>>
      BY <1>2, <2>1, <2>3 DEF Refused, Refuse, At, zipping
    <3>2. DirInv' /\ CopyInv'
      BY <3>1 DEF EInv, DirInv, CopyInv, fixed, scan, dir, zipping
    <3>3. ZipInv' /\ TextInv'
      BY <3>1 DEF EInv, ZipInv, TextInv, CollectedNow, EvidenceIsOwn, fixed, scan, dir, zipping
    <3> QED BY <3>2, <3>3
  <2> QED BY <2>2, <2>3
<1> QED BY <1>1, <1>2

(* While the files are scanned there is no ZIP; what is reported of a file   *)
(* is reported of one that is then known to match, or gone.                  *)
LEMMA ScanGathers ==
    ASSUME EInv, EndScan \/ \E p \in Paths : Match(p) \/ Clean(p) \/ Vanish(p)
    PROVE  DirInv' /\ ZipInv' /\ CopyInv' /\ TextInv'
<1> USE DEF EInv
<1>1. CASE EndScan
  <2>1. UNCHANGED <<fixed, run, gone, scan, dir, zipping, muddled>> /\ pc = "scanning"
        /\ pc' \in {"tail", "mapping"}
    BY <1>1 DEF EndScan
  <2>2. DirInv' /\ CopyInv'
    BY <2>1 DEF DirInv, ZipInv, CopyInv, fixed, scan, dir, zipping
  <2>3. ZipInv' /\ TextInv'
    BY <2>1 DEF ZipInv, TextInv, CollectedNow, EvidenceIsOwn, fixed, scan, dir, zipping
  <2> QED BY <2>2, <2>3
<1>2. ASSUME NEW p \in Paths, Match(p) PROVE DirInv' /\ ZipInv' /\ CopyInv' /\ TextInv'
  <2>1. PICK hits \in SUBSET Rules \ {{}}, done \in SUBSET Rules, written \in SUBSET Rules,
             hash \in BOOLEAN :
          /\ written \subseteq done /\ done \subseteq hits
          /\ gone' = IF done # hits \/ ~hash THEN gone \cup {p} ELSE gone
          /\ Report(p, done, written)
          /\ matched' = IF done = hits THEN matched \cup {p} ELSE matched
    BY <1>2 DEF Match
  <2>2. UNCHANGED <<pc, run, alerts, zipping, muddled>> /\ pc = "scanning"
    BY <1>2 DEF Match
  <2>3. /\ p \in matched' \cup gone'
        /\ matched \subseteq matched' /\ gone \subseteq gone'
        /\ texts' = texts \cup {<<r, p, run>> : r \in written}
    BY <2>1 DEF Report
  <2>4. DirInv'
    BY <2>2, <2>3 DEF DirInv
  <2>5. ZipInv' /\ CopyInv' /\ TextInv'
    BY <2>2 DEF ZipInv, CopyInv, TextInv, CollectedNow, EvidenceIsOwn, zipping
  <2> QED BY <2>4, <2>5
<1>3. ASSUME NEW p \in Paths, Clean(p) PROVE DirInv' /\ ZipInv' /\ CopyInv' /\ TextInv'
  <2>1. UNCHANGED <<pc, run, gone, matched, dir, zipping, muddled>> /\ pc = "scanning"
    BY <1>3 DEF Clean
  <2> QED
    BY <2>1 DEF DirInv, ZipInv, CopyInv, TextInv, CollectedNow, EvidenceIsOwn, dir, zipping
<1>4. ASSUME NEW p \in Paths, Vanish(p) PROVE DirInv' /\ ZipInv' /\ CopyInv' /\ TextInv'
  <2>1. UNCHANGED <<fixed, pc, run, scan, dir, zipping, muddled>> /\ gone \subseteq gone'
    BY <1>4 DEF Vanish
  <2>2. DirInv' /\ CopyInv'
    BY <2>1 DEF DirInv, CopyInv, fixed, scan, dir, zipping
  <2>3. ZipInv' /\ TextInv'
    BY <2>1 DEF ZipInv, TextInv, CollectedNow, EvidenceIsOwn, dir, zipping
  <2> QED BY <2>2, <2>3
<1> QED BY <1>1, <1>2, <1>3, <1>4

LEMMA MapGathers == ASSUME EInv, MapFiles PROVE DirInv' /\ ZipInv' /\ CopyInv' /\ TextInv'
<1> USE DEF EInv
<1> DEFINE z == [texts |-> {}, copies |-> {}, listed |-> matched \ gone, mapped |-> FALSE]
<1>1. /\ UNCHANGED <<fixed, run, gone, todo, matched, dir, tried, packaged, listing, muddled>>
      /\ pc = "mapping" /\ pc' = "copying" /\ hashed' = hashed \cup (matched \ gone)
      /\ zips' = [i \in DOMAIN zips \cup {run} |-> z]
  BY DEF MapFiles, At
<1>2. DOMAIN zips' = {run} /\ zips'[run] = z /\ z \in Packages
  BY <1>1 DEF ZipInv, Packages, TypeInv, TypeOK
<1>3. zips' \in [DOMAIN zips' -> Packages]
  BY <1>1, <1>2
<1>4. DirInv'
  BY <1>1 DEF DirInv, dir
<1>5. ZipInv' /\ TextInv'
  BY <1>1, <1>2, <1>3 DEF ZipInv, TextInv, CollectedNow, EvidenceIsOwn
<1>6. CopyInv'
  BY <1>1, <1>2 DEF CopyInv
<1> QED BY <1>4, <1>5, <1>6

LEMMA CopyGathers ==
    ASSUME EInv, NEW p \in Paths, CopyFile(p)
    PROVE  DirInv' /\ ZipInv' /\ CopyInv' /\ TextInv'
<1> USE DEF EInv
<1>1. /\ UNCHANGED <<fixed, pc, run, gone, scan, dir, listing, muddled>>
      /\ pc = "copying" /\ tried' = tried \cup {p} /\ run \in DOMAIN zips
      /\ Content[p] \in Paths
  BY ArtefactsAssumption DEF CopyFile, ZipInv
<1>2. zips[run] \in Packages
  BY <1>1 DEF ZipInv
<1>3. DirInv'
  BY <1>1 DEF DirInv, fixed, scan, dir
<1>4. CASE Content[p] \in packaged
  <2>1. UNCHANGED <<packaged, zips>>
    BY <1>4 DEF CopyFile
  <2>2. ZipInv' /\ TextInv'
    BY <1>1, <2>1 DEF ZipInv, TextInv, CollectedNow, EvidenceIsOwn, scan, dir
  <2>3. CopyInv'
    BY <1>1, <1>4, <2>1 DEF CopyInv, fixed, scan
  <2> QED BY <1>3, <2>2, <2>3
<1>5. CASE Content[p] \notin packaged /\ p \in gone
  <2>1. zips' = zips /\ packaged' = packaged
    BY <1>5 DEF CopyFile, MarkPackaged
  <2>2. ZipInv' /\ TextInv'
    BY <1>1, <2>1 DEF ZipInv, TextInv, CollectedNow, EvidenceIsOwn, scan, dir
  <2>3. CopyInv'
    BY <1>1, <1>5, <2>1 DEF CopyInv, fixed, scan
  <2> QED BY <1>3, <2>2, <2>3
<1>6. CASE Content[p] \notin packaged /\ p \notin gone
  <2>1. /\ zips' = [zips EXCEPT ![run].copies = @ \cup {Content[p]}]
        /\ packaged' \subseteq packaged \cup {Content[p]}
    BY <1>6 DEF CopyFile, MarkPackaged
  <2>2. /\ DOMAIN zips' = DOMAIN zips /\ zips' \in [DOMAIN zips' -> Packages]
        /\ zips'[run].copies = zips[run].copies \cup {Content[p]}
        /\ zips'[run].texts = zips[run].texts /\ zips'[run].listed = zips[run].listed
    BY <1>1, <1>2, <2>1 DEF ZipInv, Packages
  <2>3. \A i \in DOMAIN zips' : zips'[i].texts = zips[i].texts
    BY <1>1, <2>2 DEF ZipInv, EvidenceIsOwn
  <2>4. ZipInv' /\ TextInv'
    BY <1>1, <2>2, <2>3 DEF ZipInv, TextInv, CollectedNow, EvidenceIsOwn, scan, dir
  <2>5. CopyInv'
    BY <1>1, <2>1, <2>2 DEF CopyInv, fixed, scan
  <2> QED BY <1>3, <2>4, <2>5
<1> QED BY <1>4, <1>5, <1>6

LEMMA ListGathers == ASSUME EInv, ListTexts PROVE DirInv' /\ ZipInv' /\ CopyInv' /\ TextInv'
<1> USE DEF EInv
<1>1. /\ UNCHANGED <<fixed, run, gone, scan, dir, zips, tried, packaged, muddled>>
      /\ pc = "copying" /\ pc' = "zipping" /\ listing' = NamedBy(texts)
      /\ (policy.copies => hashed \subseteq tried)
  BY DEF ListTexts, At
<1>2. zips[run].texts = {f \in texts : f[1] \notin NamedBy(texts)}
  BY <1>1 DEF TextInv, NamedBy
<1>3. DirInv' /\ CopyInv'
  BY <1>1 DEF DirInv, CopyInv, fixed, scan, dir
<1>4. ZipInv' /\ TextInv'
  BY <1>1, <1>2 DEF ZipInv, TextInv, CollectedNow, EvidenceIsOwn, NamedBy, dir
<1> QED BY <1>3, <1>4

(* While the directory is the run's own, every text that is listed is there. *)
LEMMA TextGathers ==
    ASSUME EInv, NEW r \in Rules, AddText(r)
    PROVE  DirInv' /\ ZipInv' /\ CopyInv' /\ TextInv'
<1> USE DEF EInv
<1>1. /\ UNCHANGED <<fixed, run, gone, scan, dir, tried, packaged, muddled>>
      /\ pc = "zipping" /\ r \in listing /\ run \in DOMAIN zips
      /\ pc' \in {"zipping", "tail", "scheduling"}
  BY DEF AddText, ZipInv, Collected
<1>2. zips[run] \in Packages /\ texts \subseteq Entries
  BY <1>1 DEF ZipInv, TypeInv, TypeOK
<1>3. DirInv'
  BY <1>1 DEF DirInv, fixed, scan, dir
<1>4. CASE r \in NamedBy(texts)
  <2> DEFINE more == {f \in texts : f[1] = r}
  <2>1. /\ zips' = [zips EXCEPT ![run].texts = @ \cup more]
        /\ listing' = listing \ {r} /\ pc' = pc
    BY <1>4 DEF AddText
  <2>2. /\ DOMAIN zips' = DOMAIN zips /\ zips' \in [DOMAIN zips' -> Packages]
        /\ zips'[run].texts = zips[run].texts \cup more
        /\ zips'[run].listed = zips[run].listed /\ zips'[run].copies = zips[run].copies
    BY <1>1, <1>2, <2>1 DEF ZipInv, Packages
  <2>3. EvidenceIsOwn'
    <3>1. DOMAIN zips' \subseteq {run'}
      BY <1>1, <2>2 DEF ZipInv, EvidenceIsOwn
    <3>2. ~muddled => \A f \in zips'[run].texts : f[3] = run
      BY <1>1, <2>2 DEF ZipInv, EvidenceIsOwn, DirInv
    <3> QED BY <1>1, <3>1, <3>2 DEF EvidenceIsOwn
  <2>4. ZipInv' /\ CopyInv'
    BY <1>1, <2>1, <2>2, <2>3 DEF ZipInv, CopyInv, fixed, scan
  <2>5. ASSUME ~muddled
        PROVE  zips'[run].texts = {f \in texts : f[1] \notin listing'}
    BY <1>1, <2>1, <2>2, <2>5 DEF TextInv
  <2>6. TextInv'
    BY <1>1, <2>1, <2>5 DEF TextInv, CollectedNow, dir
  <2> QED BY <1>3, <2>4, <2>6
<1>5. CASE r \notin NamedBy(texts)
  <2>1. muddled /\ zips' = zips /\ pc' # "zipping" /\ pc' # "copying"
    BY <1>1, <1>5 DEF AddText, TextInv, Collected
  <2>2. ZipInv' /\ CopyInv' /\ TextInv'
    BY <1>1, <2>1 DEF ZipInv, CopyInv, TextInv, CollectedNow, EvidenceIsOwn, fixed, scan, dir
  <2> QED BY <1>3, <2>2
<1> QED BY <1>4, <1>5

LEMMA MappingGathers == ASSUME EInv, AddMapping PROVE DirInv' /\ ZipInv' /\ CopyInv' /\ TextInv'
<1> USE DEF EInv
<1>1. /\ UNCHANGED <<fixed, run, gone, scan, dir, tried, packaged, listing, muddled>>
      /\ pc = "zipping" /\ listing = {} /\ run \in DOMAIN zips
      /\ pc' \in {"tail", "scheduling"}
      /\ zips' = [zips EXCEPT ![run].mapped = TRUE]
  BY DEF AddMapping, ZipInv, Collected
<1>2. zips[run] \in Packages
  BY <1>1 DEF ZipInv
<1>3. /\ DOMAIN zips' = DOMAIN zips /\ zips' \in [DOMAIN zips' -> Packages]
      /\ zips'[run].texts = zips[run].texts /\ zips'[run].mapped
      /\ zips'[run].listed = zips[run].listed /\ zips'[run].copies = zips[run].copies
  BY <1>1, <1>2 DEF ZipInv, Packages
<1>4. \A i \in DOMAIN zips' : zips'[i].texts = zips[i].texts
  BY <1>1, <1>3 DEF ZipInv, EvidenceIsOwn
<1>5. DirInv' /\ CopyInv'
  BY <1>1, <1>3 DEF DirInv, CopyInv, fixed, scan, dir
<1>6. ZipInv'
  BY <1>1, <1>3, <1>4 DEF ZipInv, EvidenceIsOwn
<1>7. ~muddled => zips'[run].texts = texts \cup alerts
  BY <1>1, <1>3 DEF TextInv, DirInv
<1>8. TextInv'
  BY <1>1, <1>3, <1>7 DEF TextInv, CollectedNow, dir
<1> QED BY <1>5, <1>6, <1>8

-----------------------------------------------------------------------------
(* Where there are only texts, or only alerts, the script loses none.        *)
LEMMA RenameMoves ==
    ASSUME Rename, texts = {} \/ alerts = {}
    PROVE  texts' = {} /\ alerts' = texts \cup alerts
  BY DEF Rename, NamedBy

LEMMA ScheduleGathers == ASSUME EInv, Schedule PROVE DirInv' /\ ZipInv' /\ CopyInv' /\ TextInv'
<1> USE DEF EInv
<1>1. /\ UNCHANGED <<fixed, run, outcome, gone, scan, zipping, muddled>>
      /\ pc = "scheduling" /\ pc' = "tail" /\ run \in DOMAIN zips
      /\ Rename \/ UNCHANGED dir
  BY DEF Schedule, At, ZipInv
<1>2. ~muddled => texts' \cup alerts' = texts \cup alerts /\ (texts' = {} \/ alerts' = {})
  BY <1>1, RenameMoves DEF DirInv, dir
<1>3. DirInv'
  BY <1>1, <1>2 DEF DirInv, scan
<1>4. ZipInv' /\ CopyInv'
  BY <1>1 DEF ZipInv, CopyInv, EvidenceIsOwn, fixed, scan, zipping
<1>5. TextInv'
  BY <1>1, <1>2 DEF TextInv, CollectedNow, zipping
<1> QED BY <1>3, <1>4, <1>5

LEMMA ScriptGathers == ASSUME EInv, RunScript PROVE DirInv' /\ ZipInv' /\ CopyInv' /\ TextInv'
<1> USE DEF EInv
<1>1. /\ UNCHANGED <<fixed, pc, run, outcome, gone, scan, zipping>> /\ Rename
      /\ (muddled => muddled') /\ (pc # "idle" => muddled')
  BY DEF RunScript
<1>2. ~muddled => texts' = {} \/ alerts' = {}
  BY <1>1, RenameMoves DEF DirInv
<1>3. muddled' => muddled \/ pc # "idle"
  BY DEF RunScript
<1>4. DirInv'
  BY <1>1, <1>2 DEF DirInv
<1>5. ZipInv' /\ CopyInv'
  BY <1>1 DEF ZipInv, CopyInv, EvidenceIsOwn, fixed, scan, zipping
<1>6. TextInv'
  BY <1>1 DEF TextInv, CollectedNow, zipping
<1> QED BY <1>4, <1>5, <1>6

(* A run that is over: nothing more is claimed of it than whose texts its    *)
(* ZIP has.                                                                  *)
LEMMA EndGathers ==
    ASSUME EInv, WriteSummary \/ HostCleanup \/ Crash \/ Boot
    PROVE  DirInv' /\ ZipInv' /\ CopyInv' /\ TextInv'
<1> USE DEF EInv
<1>1. /\ UNCHANGED <<fixed, run, gone, scan, tried, packaged, listing, muddled>>
      /\ pc' \in {"idle", "cleanup"} /\ (pc' = "cleanup" => pc = "tail")
      /\ (texts' = {} /\ alerts' = {}) \/ UNCHANGED dir
      /\ zips' = <<>> \/ UNCHANGED zips
  BY DEF WriteSummary, HostCleanup, Crash, Boot, At, zipping
<1>2. DirInv'
  BY <1>1 DEF DirInv, scan, dir
<1>3. CopyInv' /\ TextInv'
  BY <1>1 DEF CopyInv, TextInv, CollectedNow
<1>4. ZipInv'
  <2>1. CASE zips' = <<>>
    <3>1. DOMAIN zips' = {} /\ zips' \in [{} -> Packages]
      BY <2>1
    <3> QED BY <1>1, <3>1 DEF ZipInv, EvidenceIsOwn
  <2>2. CASE UNCHANGED zips
    BY <1>1, <2>2 DEF ZipInv, EvidenceIsOwn
  <2> QED BY <1>1, <2>1, <2>2
<1> QED BY <1>2, <1>3, <1>4

LEMMA EStep == EInv /\ [Next]_vars => EInv'
<1> SUFFICES ASSUME EInv, [Next]_vars PROVE DirInv' /\ ZipInv' /\ CopyInv' /\ TextInv'
  BY TypeStep DEF EInv
<1>1. CASE UNCHANGED vars
  <2>1. UNCHANGED <<fixed, pc, run, gone, scan, dir, zipping, muddled>>
    BY <1>1 DEF vars
  <2>2. DirInv' /\ CopyInv'
    BY <2>1 DEF EInv, DirInv, CopyInv, fixed, scan, dir, zipping
  <2>3. ZipInv' /\ TextInv'
    BY <2>1 DEF EInv, ZipInv, TextInv, CollectedNow, EvidenceIsOwn, dir, zipping
  <2> QED BY <2>2, <2>3
<1> QED
  BY <1>1, StartGathers, ScanGathers, MapGathers, CopyGathers, ListGathers, TextGathers,
     MappingGathers, ScheduleGathers, ScriptGathers, EndGathers DEF Next

LEMMA EAlways == Spec => []EInv
  BY EInit, EStep, PTL DEF Spec

(* A ZIP holds only texts of the run it is named after, and once collected   *)
(* all of them, the mapping of every file they name that is still there, and *)
(* its content, for any rules, paths, equal contents and vanishing files.    *)
THEOREM EvidenceComplete == Spec => []EvidenceIsComplete
<1>1. EInv => EvidenceIsComplete
  <2> SUFFICES ASSUME EInv, CollectedNow
               PROVE  LET z == zips[run] there == {f[2] : f \in z.texts} \ gone
                      IN  /\ z.mapped /\ z.texts = texts \cup alerts
                          /\ there \subseteq z.listed
                          /\ policy.copies => {Content[p] : p \in there} \subseteq z.copies
    BY DEF EInv, ZipInv, EvidenceIsComplete
  <2> USE DEF EInv, CollectedNow
  <2>1. zips[run].mapped /\ zips[run].texts = texts \cup alerts
    BY DEF TextInv
  <2>2. \A f \in zips[run].texts : f[2] \in gone \/ f[2] \in matched
    BY <2>1 DEF DirInv
  <2>3. \A f \in zips[run].texts : f[2] \notin gone => f[2] \in zips[run].listed \cap hashed
    BY <2>2 DEF CopyInv
  <2>4. policy.copies =>
            \A f \in zips[run].texts : f[2] \notin gone => Content[f[2]] \in zips[run].copies
    BY <2>3 DEF CopyInv
  <2> QED BY <2>1, <2>3, <2>4
<1> QED BY <1>1, EAlways, PTL

-----------------------------------------------------------------------------
(* What pruning does not keep, at least KEEP_SCANS newer scans have outdone. *)
LEMMA PrunedIsOld ==
    ASSUME NEW ids, IsFiniteSet(ids), NEW own, NEW i \in ids, i \notin Kept(ids, own)
    PROVE  Cardinality({j \in ids : j > i}) >= KeepScans
<1>1. IsFiniteSet({j \in ids : j > i})
  BY FS_Subset
<1>2. Cardinality({j \in ids : j > i}) \in Nat
  BY <1>1, FS_CardinalityType
<1>3. ~(Cardinality({j \in ids : j > i}) < IF KeepScans > 1 THEN KeepScans ELSE 1)
  BY DEF Kept
<1> QED BY <1>2, <1>3, ArtefactsAssumption

LEMMA CleanupKeepsLogs ==
    ASSUME TypeInv, NEW own \in RunIds \ used, InitialCleanup(own), used' = used \cup {own}
    PROVE  LogsOutlive
<1> DEFINE ids == logs \cup summaries \cup {own}
<1>1. logs' = (logs \cup {own}) \cap Kept(ids, own) /\ summaries' = summaries \cap Kept(ids, own)
  BY DEF InitialCleanup, PruneLogs
<1>2. own \in Kept(ids, own)
  BY DEF Kept
<1>3. used' \ used = {own}
  OBVIOUS
<1>4. IsFiniteSet(ids)
  <2>1. ids \subseteq RunIds
    BY DEF TypeInv, TypeOK
  <2> QED BY <2>1, FS_Subset, ArtefactsAssumption
<1>5. ASSUME NEW i \in (logs \cup summaries) \ (logs' \cup summaries')
      PROVE  Cardinality({j \in ids : j > i}) >= KeepScans
  <2>1. i \in ids /\ i \notin Kept(ids, own)
    BY <1>1, <1>5
  <2> HIDE DEF ids
  <2> QED BY <1>4, <2>1, PrunedIsOld
<1>6. \A i \in used' \ used : i \in logs'
  BY <1>1, <1>2, <1>3
<1> QED BY <1>3, <1>5, <1>6 DEF LogsOutlive

LEMMA RemovedStep == EInv /\ [Next]_vars => [RecordStays /\ LogsOutlive]_vars
<1> SUFFICES ASSUME EInv, Next PROVE RecordStays /\ LogsOutlive
  BY DEF vars
<1> USE DEF EInv
<1>1. CASE Refused
  <2>1. PICK own \in RunIds \ used : Refuse(own) /\ used' = used \cup {own}
    BY <1>1 DEF Refused
  <2>2. used' # used /\ pc = "idle"
    BY <1>1, <2>1 DEF Refused, At
  <2>3. CASE edition = "xsiam"
    <3>1. LogsOutlive
      BY <2>1, <2>3, CleanupKeepsLogs DEF Refuse
    <3>2. edition # "xdr"
      BY <2>3
    <3> QED BY <2>2, <3>1, <3>2 DEF RecordStays
  <2>4. CASE edition # "xsiam"
    <3>1. logs' = logs \cup {own} /\ UNCHANGED <<summaries, dir>>
      BY <2>1, <2>4 DEF Refuse
    <3> QED BY <2>1, <3>1 DEF RecordStays, LogsOutlive, dir
  <2> QED BY <2>3, <2>4
<1>2. CASE Start
  <2>1. PICK own \in RunIds \ used : InitialCleanup(own) /\ used' = used \cup {own}
    BY <1>2 DEF Start
  <2>2. LogsOutlive
    BY <2>1, CleanupKeepsLogs
  <2> QED BY <1>2, <2>1, <2>2 DEF RecordStays, Start, At
<1>3. CASE Schedule
  <2>1. UNCHANGED <<used, muddled, books>> /\ (Rename \/ UNCHANGED dir)
    BY <1>3 DEF Schedule
  <2>2. ~muddled => texts' \cup alerts' = texts \cup alerts
    BY <2>1, RenameMoves DEF DirInv, dir
  <2> QED BY <2>1, <2>2 DEF RecordStays, LogsOutlive, books
<1>4. CASE RunScript
  <2>1. UNCHANGED <<used, books>> /\ Rename
    BY <1>4 DEF RunScript
  <2>2. ~muddled => texts' \cup alerts' = texts \cup alerts
    BY <2>1, RenameMoves DEF DirInv
  <2> QED BY <2>1, <2>2 DEF RecordStays, LogsOutlive, books
<1>5. CASE HostCleanup
  <2>1. UNCHANGED <<used, shortfall>> /\ pc = "cleanup"
    BY <1>5 DEF HostCleanup, At
  <2>2. CASE ShouldRun /\ run \in summaries
    <3>1. \A i \in (logs \cup summaries) \ (logs' \cup summaries') : i = run
      BY <1>5, <2>2 DEF HostCleanup
    <3>2. policy.mode = "always" \/ ~Undelivered
      BY <2>2 DEF ShouldRun, Undelivered
    <3> QED BY <2>1, <2>2, <3>1, <3>2 DEF RecordStays, LogsOutlive
  <2>3. CASE ~(ShouldRun /\ run \in summaries)
    <3>1. UNCHANGED <<books, dir>>
      BY <1>5, <2>3 DEF HostCleanup
    <3> QED BY <2>1, <3>1 DEF RecordStays, LogsOutlive, books, dir
  <2> QED BY <2>2, <2>3
<1>6. ASSUME UNCHANGED used, logs \cup summaries \subseteq logs' \cup summaries',
             texts \cup alerts \subseteq texts' \cup alerts'
      PROVE  RecordStays /\ LogsOutlive
  BY <1>6 DEF RecordStays, LogsOutlive
<1>7. CASE EndScan \/ MapFiles \/ ListTexts \/ AddMapping \/ WriteSummary
  BY <1>6, <1>7 DEF EndScan, MapFiles, ListTexts, AddMapping, WriteSummary, SummaryFile, dir, books
<1>8. CASE Crash \/ Boot \/ \E r \in Rules : AddText(r)
  BY <1>6, <1>8 DEF Crash, Boot, AddText, dir, books
<1>9. CASE \E p \in Paths : Match(p) \/ Clean(p) \/ CopyFile(p) \/ Vanish(p)
  BY <1>6, <1>9 DEF Match, Report, Clean, CopyFile, Vanish, dir, books
<1> QED BY <1>1, <1>2, <1>3, <1>4, <1>5, <1>7, <1>8, <1>9 DEF Next

(* Only a later scan's start, or the cleanup after a delivered one, removes  *)
(* what was found from the host; logs and summaries go as older ones only    *)
(* (_prune_old_scan_logs, HostCleanup, schedule_final_cleanup).              *)
THEOREM OnlyExpectedGoes == Spec => OnlyExpectedRemoved
  BY EAlways, RemovedStep, PTL DEF Spec, OnlyExpectedRemoved

-----------------------------------------------------------------------------
(* What is asked does not change. *)
LEMMA AskedFrame == [DecisionNext]_decided => UNCHANGED asked
  BY DEF DecisionNext, decided, Load, Sampled, Blinded

(* Sets of naturals have a least element, and finite ones a greatest. *)
LEMMA NatMin ==
    ASSUME NEW T \in SUBSET Nat, T # {}
    PROVE  \E x \in T : \A y \in T : x <= y
<1> DEFINE R == OpToRel(<, Nat)
<1>1. \A x, y \in Nat : <<x, y>> \in R <=> x < y
  BY DEF OpToRel
<1>2. IsWellFoundedOn(R, Nat)
  BY NatLessThanWellFounded
<1> HIDE DEF R
<1>3. PICK x \in T : \A y \in T : ~(<<y, x>> \in R)
  BY <1>2, WFMin
<1>4. ASSUME NEW y \in T PROVE x <= y
  <2>1. x \in Nat /\ y \in Nat
    OBVIOUS
  <2>2. ~(y < x)
    BY <1>1, <1>3, <2>1
  <2> QED BY <2>1, <2>2
<1> QED BY <1>4

LEMMA NatMax ==
    ASSUME NEW n \in Nat, NEW T \in SUBSET (0..n), T # {}
    PROVE  \E x \in T : \A y \in T : y <= x
<1> DEFINE U == {n - x : x \in T}
<1>0. \A x \in T : x \in Nat /\ n - x \in Nat
  <2>1. \A x \in T : x \in 0..n
    OBVIOUS
  <2> QED BY <2>1
<1>1. U \in SUBSET Nat /\ U # {}
  BY <1>0
<1>2. PICK u \in U : \A v \in U : u <= v
  BY <1>1, NatMin
<1>3. PICK x \in T : u = n - x
  OBVIOUS
<1>4. ASSUME NEW y \in T PROVE y <= x
  <2>1. n - x <= n - y /\ x \in Nat /\ y \in Nat
    BY <1>0, <1>2, <1>3
  <2> QED BY <2>1
<1> QED BY <1>4

(* Of the finite sets without one, take the smallest. *)
LEMMA FiniteMax ==
    ASSUME NEW T \in SUBSET Nat, T # {}, IsFiniteSet(T)
    PROVE  \E x \in T : \A y \in T : y <= x
<1> DEFINE Bad(S) == S # {} /\ IsFiniteSet(S) /\ ~\E x \in S : \A y \in S : y <= x
           Sizes == {n \in Nat : \E S \in SUBSET Nat : Bad(S) /\ Cardinality(S) = n}
<1>1. SUFFICES ASSUME Bad(T) PROVE FALSE
  OBVIOUS
<1>2. Cardinality(T) \in Sizes
  BY <1>1, FS_CardinalityType
<1>3. PICK n \in Sizes : \A m \in Sizes : n <= m
  <2>1. Sizes \in SUBSET Nat /\ Sizes # {}
    BY <1>2
  <2> HIDE DEF Sizes
  <2> QED BY <2>1, NatMin
<1>4. PICK S \in SUBSET Nat : Bad(S) /\ Cardinality(S) = n
  OBVIOUS
<1>5. PICK x \in S : TRUE
  BY <1>4
<1>6. /\ IsFiniteSet(S \ {x}) /\ Cardinality(S \ {x}) = n - 1 /\ n \in Nat
      /\ Cardinality(S \ {x}) \in Nat
  BY <1>4, FS_RemoveElement, FS_CardinalityType
<1>7. ~Bad(S \ {x})
  <2>1. n - 1 \notin Sizes
    <3> HIDE DEF Sizes
    <3> QED BY <1>3, <1>6
  <2> QED BY <2>1, <1>6
<1>8. CASE S \ {x} = {}
  <2>1. \A y \in S : y <= x
    BY <1>8
  <2> QED BY <2>1, <1>4
<1>9. CASE S \ {x} # {}
  <2>1. PICK z \in S \ {x} : \A y \in S \ {x} : y <= z
    BY <1>6, <1>7, <1>9
  <2>2. x \in Nat /\ z \in Nat
    OBVIOUS
  <2>3. CASE x <= z
    <3>1. \A y \in S : y <= z
      BY <2>1, <2>3
    <3> QED BY <3>1, <1>4
  <2>4. CASE z <= x
    <3>1. \A y \in S : y <= x
      BY <2>1, <2>2, <2>4
    <3> QED BY <3>1, <1>4
  <2> QED BY <2>2, <2>3, <2>4
<1> QED BY <1>8, <1>9

-----------------------------------------------------------------------------
(* Readiness. *)
LEMMA NewestIs ==
    ASSUME NEW stamps \in SUBSET Nat, IsFiniteSet(stamps)
    PROVE  Newest(stamps) \in Nat
<1>1. IsFiniteSet(stamps \cup {Unstamped}) /\ stamps \cup {Unstamped} \in SUBSET Nat
  BY FS_AddElement DEF Unstamped
<1>2. \E s \in stamps \cup {Unstamped} : \A q \in stamps : q <= s
  BY <1>1, FiniteMax
<1>3. Newest(stamps) \in stamps \cup {Unstamped}
  BY <1>2 DEF Newest
<1> QED BY <1>1, <1>3

LEMMA OneGate ==
    ASSUME NEW t \in AllTenants, NEW fanned \in BOOLEAN
    PROVE  Taken(t, Now, fanned) <=> Ready(t, Now) /\ t.hashed
<1>1. Newest(t.stamps) \in Nat
  BY NewestIs, TenantsAssumption
<1>2. ByHost(t.life) = ByShard(t.life)
  <2>1. \A r \in t.life : r.shard = r.host
    BY TenantsAssumption
  <2>2. \A q \in t.life : {r \in t.life : r.shard = q.shard} = {r \in t.life : r.host = q.host}
    BY <2>1
  <2> QED BY <2>2 DEF ByHost, ByShard
<1> QED
  BY <1>1, <1>2, ReadinessAssumption, TenantsAssumption DEF Taken, Ready, Stamped, Unstamped, Age

LEMMA GateIsSame ==
    ASSUME NEW T \in SUBSET AllTenants
    PROVE  SameGate(T, Now)
<1> SUFFICES ASSUME NEW fanned \in BOOLEAN
             PROVE  /\ \A t \in T : Taken(t, Now, fanned) <=> Ready(t, Now) /\ t.hashed
                    /\ Written(T, Now, fanned) = PreviewTargets(T, Now)
  BY DEF SameGate
<1>1. \A t \in T : Taken(t, Now, fanned) <=> Ready(t, Now) /\ t.hashed
  BY OneGate
<1>2. Written(T, Now, fanned) \subseteq PreviewTargets(T, Now)
  BY <1>1, TenantsAssumption DEF Written, PreviewTargets
<1>3. PreviewTargets(T, Now) \subseteq Written(T, Now, fanned)
  BY <1>1 DEF Written, PreviewTargets
<1> QED BY <1>1, <1>2, <1>3

LEMMA PendingClears ==
    ASSUME NEW t \in AllTenants
    PROVE  Clears(t, Now)
<1>1. Newest(t.stamps) \in Nat /\ Now \in Nat
  BY NewestIs, TenantsAssumption
<1> SUFFICES ASSUME ~Ready(t, Now)
             PROVE  /\ Reason(t, Now) \in SelfClearing =>
                          Ready(t, Now + Retention + SkewTolerance)
                    /\ Reason(t, Now) \notin SelfClearing =>
                          \A later \in Now..(Now + Retention) :
                              Ready(t, later) => Reason(t, Now) = "clock_skew"
                                                 /\ later >= Newest(t.stamps) + Quiet
  BY DEF Clears
<1> USE ReadinessAssumption DEF Ready, Reason, SelfClearing, Age
<1>2. CASE ~Stamped(t)
  BY <1>2
<1>3. CASE Stamped(t) /\ Now - Newest(t.stamps) < -SkewTolerance
  <2>1. Reason(t, Now) = "clock_skew"
    BY <1>3
  <2>2. ASSUME NEW later \in Now..(Now + Retention), Ready(t, later)
        PROVE  later >= Newest(t.stamps) + Quiet
    <3>1. later \in Int /\ (later - Newest(t.stamps) >= Quiet \/ later - Newest(t.stamps) >= Retention)
      BY <1>1, <2>2
    <3> QED BY <3>1, <1>1
  <2> QED BY <2>1, <2>2
<1>4. CASE Stamped(t) /\ ~(Now - Newest(t.stamps) < -SkewTolerance)
  <2>1. Reason(t, Now) \in SelfClearing
    BY <1>4
  <2>2. Now + Retention + SkewTolerance - Newest(t.stamps) >= Retention
    BY <1>1, <1>4
  <2>3. Age(t, Now + Retention + SkewTolerance) >= Retention
    BY <1>1, <2>2
  <2> HIDE DEF Age
  <2>4. Ready(t, Now + Retention + SkewTolerance)
    BY <2>3, <1>4
  <2> HIDE DEF Ready, Reason, SelfClearing
  <2> QED BY <2>1, <2>4
<1> QED BY <1>2, <1>3, <1>4

-----------------------------------------------------------------------------
(* Waves. *)
LEMMA LivingJudgement ==
    ASSUME NEW w \in Waves
    PROVE  JudgedByTheLiving(w)
<1> DEFINE own == {q \in w.rows : q.of = "new"}
           after == {Norm[r.name] : r \in {q \in w.rows : q.at > w.at}}
           told == {Norm[r.name] : r \in own}
           behind == told \ {Norm[r.name] : r \in {q \in own : q.at > w.at}}
           overrun == {Norm[r.name] : r \in {q \in w.rows \ own : q.at > w.at}}
<1>1. Seen(w) = after \cap Keys(w)
  BY WavesAssumption DEF Seen, Since
<1>2. told \ behind \subseteq after /\ after \subseteq told \cup overrun
  BY WavesAssumption
<1>3. w.wanted = {} <=> Keys(w) = {}
  BY DEF Keys
<1> HIDE DEF after, told, behind, overrun
<1>4. CASE Keys(w) = {}
  BY <1>3, <1>4 DEF JudgedByTheLiving, Verify
<1>5. CASE Keys(w) # {} /\ "lifecycle" \in w.down
  BY <1>3, <1>5 DEF JudgedByTheLiving, Verify, VerifyWave
<1>6. CASE Keys(w) # {} /\ "lifecycle" \notin w.down
  <2>1. Verify(w) = VerifyWave(w) /\ Verify(w).started = Seen(w)
        /\ Verify(w).not_started = Keys(w) \ Seen(w)
        /\ Verify(w).verdict = (IF Seen(w) = {} THEN "wave_dead"
                                ELSE IF Seen(w) = Keys(w) THEN "ok" ELSE "partial")
    BY <1>3, <1>6 DEF Verify, VerifyWave
  <2> DEFINE v == Verify(w)
  <2> HIDE DEF v
  <2>2. /\ (told \ behind) \cap Keys(w) \subseteq v.started
        /\ v.started \subseteq told \cup overrun
        /\ v.verdict = "ok" => Keys(w) \subseteq told \cup overrun
        /\ v.verdict = "wave_dead" => Keys(w) \cap told \subseteq behind
        /\ Keys(w) \subseteq told \ behind => v.verdict = "ok"
        /\ Keys(w) \cap (told \cup overrun) = {} => v.verdict = "wave_dead"
        /\ v.not_started = Keys(w) \ v.started
    BY <1>1, <1>2, <1>6, <2>1 DEF v
  <2> QED BY <1>6, <2>2 DEF v, JudgedByTheLiving, told, behind, overrun
<1> QED BY <1>4, <1>5, <1>6

(* The loops over the options: what counts is the last chunk with a key. *)
LEMMA LastCounts ==
    ASSUME NEW s \in Starts, NEW k \in {"create_alerts", "write_dataset"}
    PROVE  SaidOf(s.given, k) = Pick(Migrated(Parsed(s.given.options)), s.given.args, k)
<1> DEFINE chunks == s.given.options
           I == {i \in DOMAIN chunks : chunks[i].key = k}
           opts == Parsed(chunks)
<1>1. chunks \in Seq([key : STRING, val : STRING])
  BY StartsAssumption
<1>2. DOMAIN chunks = 1..Len(chunks) /\ Len(chunks) \in Nat
  BY <1>1
<1>3. k \in OptionKeys
  BY DEF OptionKeys
<1>4. k \in DOMAIN opts <=> I # {}
  BY DEF Parsed
<1>5. k \in DOMAIN Migrated(opts) <=> I # {}
  BY <1>3, <1>4 DEF Migrated
<1>6. CASE I = {}
  BY <1>5, <1>6 DEF SaidOf, Pick
<1>7. CASE I # {}
  <2>1. I \in SUBSET (0..Len(chunks))
    BY <1>2
  <2>2. \E i \in I : \A j \in I : j <= i
    BY <1>2, <1>7, <2>1, NatMax
  <2> DEFINE m == CHOOSE i \in I : \A j \in I : j <= i
  <2>3. m \in I /\ \A j \in I : j <= m
    BY <2>2
  <2>4. m = LastOf(chunks, k)
    <3>1. \A i \in DOMAIN chunks :
              (chunks[i].key = k /\ \A j \in DOMAIN chunks : j > i => chunks[j].key # k)
              <=> i = m
      <4> HIDE DEF m
      <4> QED BY <1>2, <2>3
    <3> HIDE DEF m, I, chunks
    <3> QED BY <3>1, <2>3 DEF LastOf, I
  <2>5. opts[k] = chunks[m].val
    BY <1>4, <1>7, <2>4 DEF Parsed
  <2>6. Migrated(opts)[k] = opts[k]
    BY <1>3, <1>4, <1>7 DEF Migrated
  <2> QED BY <1>5, <1>7, <2>5, <2>6 DEF SaidOf, Pick
<1> QED BY <1>6, <1>7

LEMMA StartsForReason ==
    ASSUME NEW s \in Starts
    PROVE  NothingInVain(s.edition, s.given)
<1> DEFINE text(k) == Pick(Migrated(Parsed(s.given.options)), s.given.args, k)
           c == XdrConfig(s.given)
<1> SUFFICES ASSUME s.edition = "xdr"
             PROVE  LET local == \A k \in {"create_alerts", "write_dataset"} :
                                     SaidOf(s.given, k) \in No
                    IN  /\ StartUp("xdr", s.given) = "scans" => s.given.creds \/ local
                        /\ StartUp("xdr", s.given) = "aborted" => ~s.given.creds /\ ~local
  BY DEF NothingInVain
<1>1. \A k \in {"create_alerts", "write_dataset"} : SaidOf(s.given, k) = text(k)
  BY LastCounts
<1>2. c.ok => /\ \A k \in {"create_alerts", "write_dataset"} : text(k) \in Yes \cup No
              /\ c.alerts = (text("create_alerts") \in Yes)
              /\ c.dataset = (text("write_dataset") \in Yes)
  BY DEF XdrConfig, Raised
<1>3. Delivers("xdr", s.given) <=> c.alerts \/ c.dataset
  BY DEF Delivers, Config
<1>4. Yes \cap No = {}
  BY DEF Yes, No
<1>5. StartUp("xdr", s.given) \in {"scans", "aborted"} => c.ok
  BY DEF StartUp, Config
<1>6. StartUp("xdr", s.given) = "scans" => s.given.creds \/ ~Delivers("xdr", s.given)
  BY DEF StartUp
<1>7. StartUp("xdr", s.given) = "aborted" => ~s.given.creds /\ Delivers("xdr", s.given)
  BY DEF StartUp
<1> HIDE DEF text, c
<1> QED BY <1>1, <1>2, <1>3, <1>4, <1>5, <1>6, <1>7

-----------------------------------------------------------------------------
(* The governor. *)
GovernorInv == set \in Settings /\ ratio \in 0..RatioMax

LEMMA GovernorStep ==
    ASSUME GovernorInv, [DecisionNext]_decided
    PROVE  GovernorInv' /\ [SlowedForCause]_governor
<1> USE DEF GovernorInv
<1>1. CASE Sampled
  <2>1. PICK own \in Shares, host \in Shares :
            /\ own <= host /\ reading' = [own |-> own, system |-> host]
            /\ Update(Raw(own), host) /\ UNCHANGED <<set, governing>>
    BY <1>1 DEF Sampled, Sample
  <2>2. /\ own \in Int /\ host \in Int /\ RatioMax \in Nat /\ ratio \in Int
        /\ set.cores \in Nat \ {0} /\ set.budget \in Int /\ set.floor \in Int
        /\ set.headroom \in Int
    <3>1. own \in Int /\ host \in Int /\ RatioMax \in Nat /\ ratio \in Int
      BY GovernorAssumption
    <3>2. set \in [policy : {"headroom", "budget", "none"}, headroom : Int, budget : Int,
                   floor : Int, cores : Nat \ {0}]
      BY GovernorAssumption
    <3> QED BY <3>1, <3>2
  <2>3. NormaliseOwn(Raw(own)) = own
    BY <2>2 DEF NormaliseOwn, Raw
  <2>4. ratio' = NewRatio(own, host - own)
    <3>1. Most(0, host - own) = host - own
      BY <2>1, <2>2 DEF Most
    <3> QED BY <2>1, <2>3, <3>1 DEF Update
  <2>5. Target(host - own) \in Int
    BY <2>2 DEF Target, Most
  <2>6. ratio' \in 0..RatioMax /\ (ratio' > ratio => own > Target(host - own))
    BY <2>2, <2>4, <2>5 DEF NewRatio, Most, Least
  <2>7. own > Target(host - own) =>
            IF set.policy = "budget" THEN own > set.budget
            ELSE own > set.floor /\ host > 100 - set.headroom
    BY <2>1, <2>2 DEF Target, Most
  <2>8. SlowedForCause
    BY <2>1, <2>6, <2>7 DEF SlowedForCause
  <2> QED BY <2>1, <2>6, <2>8
<1>2. CASE UNCHANGED governor
  BY <1>2 DEF governor
<1>3. CASE Blinded
  BY <1>3 DEF Blinded, CannotRead, SlowedForCause
<1>4. CASE Load \/ UNCHANGED decided
  BY <1>4, <1>2 DEF Load, decided
<1> QED BY <1>1, <1>3, <1>4 DEF DecisionNext

-----------------------------------------------------------------------------
(* The cache of compiled rules.  What an engine makes of a file depends on   *)
(* nothing of it but the modules that are in the key.                        *)
LEMMA KeyTellsCompile ==
    ASSUME NEW t, NEW g, NEW h, XdrAvailable(g, t) = XdrAvailable(h, t)
    PROVE  XdrCompile(t, g) = XdrCompile(t, h)
<1>1. ASSUME NEW b PROVE XdrFate(t, g, b) = XdrFate(t, h, b)
  <2> DEFINE avail == XdrAvailable(g, t)
             imports == (XdrImports(t) \cap avail) \cup Inject(b, avail)
  <2>1. CASE XdrUnavailable(b, avail) # {}
    BY <2>1 DEF XdrFate
  <2>2. CASE XdrUnavailable(b, avail) = {}
    <3>1. imports \subseteq avail /\ LiveImports(b) \subseteq avail
      BY <2>2 DEF Inject, LiveImports, XdrUnavailable, ModsAt
    <3>2. avail \subseteq g /\ avail \subseteq h
      BY DEF XdrAvailable
    <3>3. Defects(g, imports, b) = Defects(h, imports, b)
      BY <3>1, <3>2 DEF Defects
    <3> HIDE DEF avail
    <3> QED BY <3>3 DEF XdrFate, avail
  <2> QED BY <2>1, <2>2
<1>2. [x \in XdrSplit(t) |-> XdrFate(t, g, x[2])] = [x \in XdrSplit(t) |-> XdrFate(t, h, x[2])]
  BY <1>1
<1> QED BY <1>2 DEF XdrCompile

Compilations ==
    {[key |-> <<x[1], XdrAvailable(x[2], x[1])>>, rules |-> XdrCompile(x[1], x[2]).valid] :
        x \in Packs \X Engines}
CacheInv ==
    /\ engine \in Engines /\ cache \in Seq(Compilations)
    /\ DOMAIN sidecar \subseteq {<<x[1], XdrAvailable(x[2], x[1])>> : x \in Packs \X Engines}
    /\ \A t \in Packs, g \in Engines :
          <<t, XdrAvailable(g, t)>> \in DOMAIN sidecar =>
              sidecar[<<t, XdrAvailable(g, t)>>] = Counts(XdrCompile(t, g))
    /\ CacheIsCompile

LEMMA WithoutSome ==
    ASSUME NEW S, NEW c \in Seq(S), NEW k
    PROVE  Without(c, k) \in Seq(S)
<1> DEFINE I == {i \in 1..Len(c) : c[i].key = k}
           i == CHOOSE i \in I : TRUE
<1>1. CASE I = {}
  BY <1>1 DEF Without
<1>2. CASE I # {}
  <2>1. i \in 1..Len(c) /\ Without(c, k) = SubSeq(c, 1, i - 1) \o SubSeq(c, i + 1, Len(c))
    BY <1>2 DEF Without, RemoveAt
  <2> HIDE DEF i
  <2>2. SubSeq(c, 1, i - 1) \in Seq(S) /\ SubSeq(c, i + 1, Len(c)) \in Seq(S)
    BY <2>1
  <2> QED BY <2>1, <2>2
<1> QED BY <1>1, <1>2

LEMMA BundleIsCompile ==
    ASSUME CacheInv, NEW t \in Packs, Key(t) \in CacheKeys(cache)
    PROVE  /\ BundleOf(cache, Key(t)) = XdrCompile(t, engine).valid
           /\ [key |-> Key(t), rules |-> BundleOf(cache, Key(t))] \in Compilations
<1> DEFINE E == {cache[i] : i \in 1..Len(cache)}
           e == CHOOSE e \in E : e.key = Key(t)
<1>1. e \in E /\ e.key = Key(t)
  BY DEF CacheKeys
<1>2. E \subseteq Compilations
  BY DEF CacheInv
<1> HIDE DEF e, E
<1>3. PICK u \in Packs, g \in Engines :
          e = [key |-> <<u, XdrAvailable(g, u)>>, rules |-> XdrCompile(u, g).valid]
  BY <1>1, <1>2 DEF Compilations
<1>4. u = t /\ XdrAvailable(g, t) = XdrAvailable(engine, t)
  BY <1>1, <1>3 DEF Key
<1>5. e.rules = XdrCompile(t, engine).valid
  BY <1>3, <1>4, KeyTellsCompile
<1>6. e = [key |-> Key(t), rules |-> e.rules]
  BY <1>3, <1>4 DEF Key
<1> QED BY <1>1, <1>2, <1>5, <1>6 DEF BundleOf, e, E

LEMMA HitKeeps ==
    ASSUME CacheInv, NEW t \in Packs, CacheHit(t)
    PROVE  CacheInv'
<1> DEFINE new == [key |-> Key(t), rules |-> BundleOf(cache, Key(t))]
<1>1. /\ Key(t) \in CacheKeys(cache) /\ cache' = <<new>> \o Without(cache, Key(t))
      /\ Loaded(t, "cache", BundleOf(cache, Key(t)), RestoreMeta(Key(t)))
      /\ UNCHANGED <<engine, sidecar>>
  BY DEF CacheHit
<1>2. BundleOf(cache, Key(t)) = XdrCompile(t, engine).valid /\ new \in Compilations
  BY <1>1, BundleIsCompile
<1> HIDE DEF new
<1>3. cache' \in Seq(Compilations)
  BY <1>1, <1>2, WithoutSome DEF CacheInv
<1>4. RestoreMeta(Key(t)) \in
          LET counts == Counts(XdrCompile(t, engine))
          IN  {counts, [valid |-> counts.valid, failed |-> 0, skipped |-> 0]}
  <2>1. CASE Key(t) \in DOMAIN sidecar
    <3>1. sidecar[Key(t)] = Counts(XdrCompile(t, engine))
      BY <2>1 DEF CacheInv, Key
    <3> QED BY <2>1, <3>1 DEF RestoreMeta
  <2>2. CASE Key(t) \notin DOMAIN sidecar
    <3>1. RestoreMeta(Key(t)) = [valid |-> Cardinality(XdrCompile(t, engine).valid),
                                 failed |-> 0, skipped |-> 0]
      BY <1>2, <2>2 DEF RestoreMeta
    <3> QED BY <3>1 DEF Counts
  <2> QED BY <2>1, <2>2
<1>5. CacheIsCompile'
  BY <1>1, <1>2, <1>4 DEF CacheIsCompile, Loaded
<1> QED BY <1>1, <1>3, <1>5 DEF CacheInv

LEMMA CompileKeeps ==
    ASSUME CacheInv, NEW t \in Packs, NEW rotten \in BOOLEAN, Compile(t, rotten)
    PROVE  CacheInv'
<1> DEFINE out == XdrCompile(t, engine)
           c == Without(cache, Key(t))
           side == Forget(sidecar, {Key(t)})
           new == <<[key |-> Key(t), rules |-> out.valid]>> \o c
           More(s) ==
               /\ DOMAIN s \subseteq {<<x[1], XdrAvailable(x[2], x[1])>> : x \in Packs \X Engines}
               /\ \A u \in Packs, g \in Engines :
                     <<u, XdrAvailable(g, u)>> \in DOMAIN s =>
                         s[<<u, XdrAvailable(g, u)>>] = Counts(XdrCompile(u, g))
<1>1. c \in Seq(Compilations) /\ More(sidecar) /\ engine \in Engines
  BY WithoutSome DEF CacheInv
<1>2. [key |-> Key(t), rules |-> out.valid] \in Compilations
  <2>1. <<t, engine>> \in Packs \X Engines
    BY <1>1
  <2> DEFINE x == <<t, engine>>
  <2>2. [key |-> Key(t), rules |-> out.valid]
            = [key |-> <<x[1], XdrAvailable(x[2], x[1])>>, rules |-> XdrCompile(x[1], x[2]).valid]
    BY DEF Key
  <2> QED BY <2>1, <2>2 DEF Compilations
<1>3. new \in Seq(Compilations)
  BY <1>1, <1>2
<1>4. Pruned(new) \in Seq(Compilations)
  <2> HIDE DEF new
  <2> QED BY <1>3, LoadingAssumption DEF Pruned
<1>5. More(side)
  BY <1>1 DEF Forget
<1>6. More(Keep(side, Key(t), Counts(out)))
  <2>1. ASSUME NEW u \in Packs, NEW g \in Engines, <<u, XdrAvailable(g, u)>> = Key(t)
        PROVE  Counts(XdrCompile(u, g)) = Counts(out)
    <3>1. u = t /\ XdrAvailable(g, t) = XdrAvailable(engine, t)
      BY <2>1 DEF Key
    <3> QED BY <3>1, KeyTellsCompile
  <2>2. Key(t) \in {<<x[1], XdrAvailable(x[2], x[1])>> : x \in Packs \X Engines}
    <3>1. <<t, engine>> \in Packs \X Engines
      BY <1>1
    <3> QED BY <3>1 DEF Key
  <2> HIDE DEF side, out
  <2> QED BY <1>5, <2>1, <2>2 DEF Keep
<1>7. \A s, K : More(s) => More(Forget(s, K))
  BY DEF Forget
<1> HIDE DEF new, c, side
<1>8. CASE out.raises = "no"
  <2>1. Loaded(t, "fresh", out.valid, Counts(out)) /\ UNCHANGED engine
    BY <1>8 DEF Compile
  <2>2. PICK upto \in {"nothing", "bundle", "all"} : Save(Key(t), out, c, side, upto)
    BY <1>8 DEF Compile, c, side
  <2>3. cache' \in {c, new, Pruned(new)}
    BY <2>2 DEF Save, new
  <2>4. \/ sidecar' = side
        \/ sidecar' = Forget(Keep(side, Key(t), Counts(out)),
                             CacheKeys(new) \ CacheKeys(Pruned(new)))
    BY <2>2 DEF Save, new
  <2>5. More(sidecar')
    <3> HIDE DEF More
    <3> QED BY <1>5, <1>6, <1>7, <2>4
  <2>6. CacheIsCompile'
    BY <2>1 DEF CacheIsCompile, Loaded
  <2> QED BY <1>1, <1>3, <1>4, <2>1, <2>3, <2>5, <2>6 DEF CacheInv
<1>9. CASE out.raises # "no"
  <2>1. /\ Loaded(t, out.raises, {}, Counts(out)) /\ cache' = c /\ sidecar' = side
        /\ UNCHANGED engine
    BY <1>9 DEF Compile, c, side
  <2>2. out.raises \notin {"fresh", "cache"}
    BY DEF XdrCompile, Outcome
  <2>3. CacheIsCompile'
    BY <2>1, <2>2 DEF CacheIsCompile, Loaded
  <2> QED BY <1>1, <1>5, <2>1, <2>3 DEF CacheInv
<1> QED BY <1>8, <1>9

LEMMA CacheStep ==
    ASSUME CacheInv, [DecisionNext]_decided
    PROVE  CacheInv'
<1>1. CASE Load
  <2>1. CASE Upgrade
    BY <2>1 DEF Upgrade, CacheInv, CacheIsCompile
  <2> QED BY <1>1, <2>1, HitKeeps, CompileKeeps DEF Load, LoadingNext
<1>2. CASE UNCHANGED loaded
  BY <1>2 DEF loaded, CacheInv, CacheIsCompile
<1> QED BY <1>1, <1>2 DEF DecisionNext, Sampled, Blinded, decided

-----------------------------------------------------------------------------
(* Paths and the entries of the lists. *)
LEMMA FoldOf ==
    ASSUME NEW p \in Seq(Names)
    PROVE  /\ Fold(p) \in Seq(Names) /\ Len(Fold(p)) = Len(p) /\ Len(p) \in Nat
           /\ \A k \in 1..Len(p) : Fold(p)[k] = Lower(p[k])
           /\ Fold(Fold(p)) = Fold(p)
<1>1. \A n \in Names : Lower(n) \in Names /\ Lower(Lower(n)) = Lower(n)
  BY SkipAssumption DEF Lower
<1>2. DOMAIN p = 1..Len(p) /\ Len(p) \in Nat /\ \A k \in 1..Len(p) : p[k] \in Names
  OBVIOUS
<1>3. Fold(p) \in [1..Len(p) -> Names] /\ \A k \in 1..Len(p) : Fold(p)[k] = Lower(p[k])
  BY <1>1, <1>2 DEF Fold
<1>4. Fold(p) \in Seq(Names) /\ Len(Fold(p)) = Len(p)
  BY <1>2, <1>3
<1>5. Fold(Fold(p)) \in [1..Len(p) -> Names]
      /\ \A k \in 1..Len(p) : Fold(Fold(p))[k] = Fold(p)[k]
  BY <1>1, <1>2, <1>3 DEF Fold
<1>6. Fold(Fold(p)) = Fold(p)
  BY <1>3, <1>5
<1> QED BY <1>2, <1>3, <1>4, <1>6

LEMMA UnderFolded ==
    ASSUME NEW t \in Seq(Names), NEW p \in Seq(Names), Under(t, p)
    PROVE  Under(Fold(t), Fold(p))
<1>1. Len(t) <= Len(p) /\ \A k \in 1..Len(t) : p[k] = t[k]
  BY DEF Under, PartAt
<1>2. \A k \in 1..Len(t) : k \in 1..Len(p)
  BY <1>1
<1> QED BY <1>1, <1>2, FoldOf DEF Under, PartAt

LEMMA FrontIs ==
    ASSUME NEW p \in Seq(Names), p # <<>>
    PROVE  /\ Front(p) \in Seq(Names) /\ Len(Front(p)) = Len(p) - 1 /\ Len(p) \in Nat \ {0}
           /\ Under(Front(p), p) /\ Last(p) = p[Len(p)] /\ Last(p) \in Names
           /\ \A k \in 1..(Len(p) - 1) : Front(p)[k] = p[k]
           /\ Last(Fold(p)) = Lower(Last(p))
<1>1. Len(p) \in Nat \ {0} /\ Front(p) = SubSeq(p, 1, Len(p) - 1) /\ Last(p) = p[Len(p)]
  BY DEF Front, Last
<1> DEFINE m == Len(p) - 1
           f == SubSeq(p, 1, m)
<1>m. m \in Nat /\ Len(p) = m + 1
  BY <1>1
<1> HIDE DEF m
<1>2. f \in Seq(Names) /\ Len(f) = m /\ \A k \in 1..m : f[k] = p[k]
  <2>1. \A k \in 1..m : p[k] \in Names
    BY <1>m
  <2>2. /\ f \in Seq(Names) /\ Len(f) = IF 1 <= m THEN m - 1 + 1 ELSE 0
        /\ \A k \in 1..(m - 1 + 1) : f[k] = p[1 + k - 1]
    BY <1>m, <2>1, SubSeqProperties
  <2> HIDE DEF f
  <2>3. m - 1 + 1 = m /\ \A k \in 1..m : 1 + k - 1 = k
    BY <1>m
  <2>4. Len(f) = m
    BY <1>m, <2>2
  <2>5. \A k \in 1..m : f[k] = p[k]
    <3>1. \A k \in 1..m : f[k] = p[1 + k - 1]
      BY <2>2, <2>3
    <3> QED BY <3>1, <2>3
  <2> QED BY <2>2, <2>4, <2>5
<1> HIDE DEF f
<1>3. Last(Fold(p)) = Lower(Last(p))
  BY <1>1, FoldOf DEF Last
<1>4. Last(p) \in Names
  BY <1>1
<1>5. \A k \in 1..Len(f) : p[0 + k] = f[k]
  BY <1>m, <1>2
<1>6. Under(f, p)
  BY <1>m, <1>2, <1>5 DEF Under, PartAt
<1>7. f = Front(p) /\ m = Len(p) - 1
  BY <1>1 DEF f, m
<1> QED BY <1>1, <1>2, <1>3, <1>4, <1>6, <1>7

(* What occurs in a path occurs in those below it, and what occurs in a path *)
(* and not in its directory is at its tail.                                  *)
LEMMA OccursBelow ==
    ASSUME NEW t \in Seq(Names), NEW p \in Seq(Names), Under(t, p),
           NEW f, Len(f) \in Nat \ {0}, Occurs(f, t)
    PROVE  Occurs(f, p)
<1>1. Len(t) \in Nat /\ Len(p) \in Nat /\ Len(t) <= Len(p) /\ \A k \in 1..Len(t) : p[k] = t[k]
  BY DEF Under, PartAt
<1>2. PICK i \in 0..(Len(t) - Len(f)) : PartAt(f, t, i)
  <2>1. CASE Inside(f, t)
    BY <1>1, <2>1 DEF Inside
  <2>2. CASE AtTail(f, t)
    <3>1. Len(t) - Len(f) \in 0..(Len(t) - Len(f))
      BY <1>1, <2>2 DEF AtTail
    <3> QED BY <2>2, <3>1 DEF AtTail
  <2> QED BY <2>1, <2>2 DEF Occurs
<1>3. \A k \in 1..Len(f) : i + k \in 1..Len(t)
  BY <1>1
<1>4. PartAt(f, p, i)
  BY <1>1, <1>2, <1>3 DEF PartAt
<1>5. i \in Nat /\ i <= Len(p) - Len(f)
  BY <1>1
<1>6. CASE i = Len(p) - Len(f)
  BY <1>1, <1>4, <1>5, <1>6 DEF Occurs, AtTail
<1>7. CASE i # Len(p) - Len(f)
  <2>1. i \in 0..(Len(p) - Len(f) - 1)
    BY <1>1, <1>5, <1>7
  <2> QED BY <1>4, <2>1 DEF Occurs, Inside
<1> QED BY <1>6, <1>7

LEMMA OccursAbove ==
    ASSUME NEW t \in Seq(Names), NEW p \in Seq(Names), Under(t, p), Len(p) = Len(t) + 1,
           NEW f, Len(f) \in Nat \ {0}, Occurs(f, p), ~AtTail(f, p)
    PROVE  Occurs(f, t)
<1>1. Len(t) \in Nat /\ \A k \in 1..Len(t) : p[k] = t[k]
  BY DEF Under, PartAt
<1>2. PICK i \in 0..(Len(p) - Len(f) - 1) : PartAt(f, p, i)
  BY DEF Occurs, Inside
<1>3. i \in Nat /\ i + Len(f) <= Len(t) /\ \A k \in 1..Len(f) : i + k \in 1..Len(t)
  BY <1>1
<1>4. PartAt(f, t, i)
  BY <1>1, <1>2, <1>3 DEF PartAt
<1>5. CASE i = Len(t) - Len(f)
  BY <1>1, <1>3, <1>4, <1>5 DEF Occurs, AtTail
<1>6. CASE i # Len(t) - Len(f)
  <2>1. i \in 0..(Len(t) - Len(f) - 1)
    BY <1>1, <1>3, <1>6
  <2> QED BY <1>4, <2>1 DEF Occurs, Inside
<1> QED BY <1>5, <1>6

LEMMA TailEnds ==
    ASSUME NEW p \in Seq(Names), NEW f, Len(f) \in Nat \ {0}, AtTail(f, p)
    PROVE  Len(p) \in Nat \ {0} /\ p[Len(p)] = f[Len(f)]
<1>1. Len(p) \in Nat /\ Len(f) <= Len(p) /\ PartAt(f, p, Len(p) - Len(f))
  BY DEF AtTail
<1>2. Len(f) \in 1..Len(f) /\ Len(p) - Len(f) + Len(f) = Len(p)
  BY <1>1
<1> QED BY <1>1, <1>2 DEF PartAt

(* An entry of a list, and what it matches. *)
Entry(e) ==
    /\ e.shape \in {"anchor", "fragment", "bundle", "text"} /\ e.of \in Seq(Names)
    /\ e.of # <<>>

LEMMA EntryFacts ==
    ASSUME NEW e, Entry(e)
    PROVE  Len(e.of) \in Nat \ {0} /\ Front(e.of) \in Seq(Names) /\ Last(e.of) = e.of[Len(e.of)]
           /\ Len(Front(e.of)) = Len(e.of) - 1
  BY FrontIs DEF Entry

LEMMA MatchesBelow ==
    ASSUME NEW e, Entry(e), NEW t \in Seq(Names), NEW p \in Seq(Names), Under(t, p),
           Matches(e, t)
    PROVE  Matches(e, p)
<1>1. Len(t) \in Nat /\ Len(p) \in Nat /\ Len(t) <= Len(p) /\ \A k \in 1..Len(t) : p[k] = t[k]
  BY DEF Under, PartAt
<1>2. /\ Len(e.of) \in Nat \ {0} /\ Len(Front(e.of)) = Len(e.of) - 1
      /\ e.shape \in {"anchor", "fragment", "bundle", "text"}
  BY EntryFacts DEF Entry
<1>3. CASE e.shape = "anchor"
  <2>1. Under(e.of, t)
    BY <1>3 DEF Matches
  <2>2. Under(e.of, p)
    BY <1>1, <1>2, <2>1 DEF Under, PartAt
  <2> QED BY <1>3, <2>2 DEF Matches
<1>4. CASE e.shape = "fragment"
  <2>1. Occurs(e.of, t)
    BY <1>4 DEF Matches
  <2> QED BY <1>2, <1>4, <2>1, OccursBelow DEF Matches
<1>5. CASE e.shape = "bundle"
  <2>1. PICK i \in 1..(Len(t) - Len(e.of) - 1) : t[i] \in Bundles /\ PartAt(e.of, t, i)
    BY <1>5 DEF Matches
  <2>2. i \in 1..(Len(p) - Len(e.of) - 1) /\ i \in 1..Len(t)
    BY <1>1, <1>2
  <2>3. \A k \in 1..Len(e.of) : i + k \in 1..Len(t)
    BY <1>1, <1>2, <2>2
  <2>4. p[i] \in Bundles /\ PartAt(e.of, p, i)
    BY <1>1, <2>1, <2>2, <2>3 DEF PartAt
  <2> QED BY <1>5, <2>2, <2>4 DEF Matches
<1>6. CASE e.shape = "text"
  <2>1. /\ Len(t) >= Len(e.of) /\ Under(Front(e.of), t)
        /\ t[Len(e.of)] = Last(e.of) \/ <<Last(e.of), t[Len(e.of)]>> \in Begins
    BY <1>6 DEF Matches
  <2>2. Len(p) >= Len(e.of) /\ p[Len(e.of)] = t[Len(e.of)]
    BY <1>1, <1>2, <2>1
  <2>3. Under(Front(e.of), p)
    BY <1>1, <1>2, <2>1 DEF Under, PartAt
  <2> QED BY <1>6, <2>1, <2>2, <2>3 DEF Matches
<1> QED BY <1>2, <1>3, <1>4, <1>5, <1>6

LEMMA MatchesAbove ==
    ASSUME NEW e, Entry(e), NEW t \in Seq(Names), NEW p \in Seq(Names), Under(t, p),
           Len(p) = Len(t) + 1, Matches(e, p), e.shape # "bundle",
           p[Len(p)] # Last(e.of), <<Last(e.of), p[Len(p)]>> \notin Begins
    PROVE  Matches(e, t)
<1>1. Len(t) \in Nat /\ \A k \in 1..Len(t) : p[k] = t[k]
  BY DEF Under, PartAt
<1>2. /\ Len(e.of) \in Nat \ {0} /\ Len(Front(e.of)) = Len(e.of) - 1
      /\ Last(e.of) = e.of[Len(e.of)] /\ e.shape \in {"anchor", "fragment", "text"}
  BY EntryFacts DEF Entry
<1>3. CASE e.shape = "anchor"
  <2>1. Under(e.of, p)
    BY <1>3 DEF Matches
  <2>2. Len(e.of) # Len(p)
    BY <1>2, <2>1 DEF Under, PartAt
  <2>3. Under(e.of, t)
    BY <1>1, <1>2, <2>1, <2>2 DEF Under, PartAt
  <2> QED BY <1>3, <2>3 DEF Matches
<1>4. CASE e.shape = "fragment"
  <2>1. Occurs(e.of, p)
    BY <1>4 DEF Matches
  <2>2. ~AtTail(e.of, p)
    BY <1>2, TailEnds
  <2> QED BY <1>2, <1>4, <2>1, <2>2, OccursAbove DEF Matches
<1>5. CASE e.shape = "text"
  <2>1. /\ Len(p) >= Len(e.of) /\ Under(Front(e.of), p)
        /\ p[Len(e.of)] = Last(e.of) \/ <<Last(e.of), p[Len(e.of)]>> \in Begins
    BY <1>5 DEF Matches
  <2>2. Len(e.of) # Len(p)
    BY <2>1
  <2>3. Len(t) >= Len(e.of) /\ t[Len(e.of)] = p[Len(e.of)]
    BY <1>1, <1>2, <2>1, <2>2
  <2>4. Under(Front(e.of), t)
    BY <1>1, <1>2, <2>1, <2>3 DEF Under, PartAt
  <2> QED BY <1>5, <2>1, <2>3, <2>4 DEF Matches
<1> QED BY <1>2, <1>3, <1>4, <1>5

(* What an entry matches as the operator typed it, it matches in lower case. *)
LEMMA MatchesFolded ==
    ASSUME NEW e, Entry(e), e.shape \in {"anchor", "text"}, Fold(e.of) = e.of,
           NEW t \in Seq(Names), Matches(e, t)
    PROVE  Matches(e, Fold(t))
<1>1. /\ Len(e.of) \in Nat \ {0} /\ Len(Front(e.of)) = Len(e.of) - 1
      /\ Last(e.of) = e.of[Len(e.of)] /\ e.of \in Seq(Names)
  BY EntryFacts DEF Entry
<1>2. \A k \in 1..Len(e.of) : Lower(e.of[k]) = e.of[k]
  BY <1>1, FoldOf
<1>3. Len(t) \in Nat /\ Len(Fold(t)) = Len(t) /\ \A k \in 1..Len(t) : Fold(t)[k] = Lower(t[k])
  BY FoldOf
<1>4. CASE e.shape = "anchor"
  <2>1. Under(e.of, t)
    BY <1>4 DEF Matches
  <2>2. Under(e.of, Fold(t))
    BY <1>1, <2>1, UnderFolded
  <2> QED BY <1>4, <2>2 DEF Matches
<1>5. CASE e.shape = "text"
  <2>1. /\ Len(t) >= Len(e.of) /\ Under(Front(e.of), t)
        /\ t[Len(e.of)] = Last(e.of) \/ <<Last(e.of), t[Len(e.of)]>> \in Begins
    BY <1>5 DEF Matches
  <2>2. \A k \in 1..(Len(e.of) - 1) : Front(e.of)[k] = e.of[k]
    BY <1>1, FrontIs DEF Entry
  <2>3. \A k \in 1..(Len(e.of) - 1) : Fold(t)[k] = Front(e.of)[k]
    BY <1>1, <1>2, <1>3, <2>1, <2>2 DEF Under, PartAt
  <2>4. Under(Front(e.of), Fold(t))
    BY <1>1, <1>3, <2>1, <2>3 DEF Under, PartAt
  <2>5. Fold(t)[Len(e.of)] = Lower(t[Len(e.of)]) /\ Lower(Last(e.of)) = Last(e.of)
    BY <1>1, <1>2, <1>3, <2>1
  <2>6. CASE t[Len(e.of)] = Last(e.of)
    BY <1>3, <1>5, <2>1, <2>4, <2>5, <2>6 DEF Matches
  <2>7. CASE <<Last(e.of), t[Len(e.of)]>> \in Begins
    <3>1. \/ Lower(t[Len(e.of)]) = Last(e.of)
          \/ <<Last(e.of), Lower(t[Len(e.of)])>> \in Begins
      BY <2>5, <2>7, SkipAssumption
    <3> QED BY <1>3, <1>5, <2>1, <2>4, <2>5, <3>1 DEF Matches
  <2> QED BY <2>1, <2>6, <2>7
<1> QED BY <1>4, <1>5

(* What the lists of a walk are made of. *)
ListsHold(R) ==
    /\ \A f \in R.fragments \cup R.forced \cup R.never : Len(f) \in Nat \ {0}
    /\ \A e \in R.places : Entry(e) /\ (R.system # "Linux" => Fold(e.of) = e.of)

LEMMA FoldNotEmpty ==
    ASSUME NEW c \in Seq(Names) \ {<<>>}
    PROVE  Fold(c) \in Seq(Names) /\ Fold(c) # <<>> /\ Fold(Fold(c)) = Fold(c)
<1>1. Len(c) # 0
  OBVIOUS
<1> QED BY <1>1, FoldOf

LEMMA ListsSound ==
    ASSUME NEW w \in Walks
    PROVE  ListsHold(Policy(w.edition, w.system, w.own, w.chunks))
<1> DEFINE R == Policy(w.edition, w.system, w.own, w.chunks)
<1>1. w.own \in Seq(Names) \ {<<>>} /\ w.chunks \subseteq Seq(Names)
  BY WalksAssumption
<1>2. /\ R.system = w.system /\ R.never = {<<"volumes">>, <<"media">>}
      /\ R.forced = {<<"library", "caches", "firefox">>}
      /\ R.fragments = {<<"node_modules">>, <<"library", "caches">>}
                            \cup ExtraFragments(w.chunks)
      /\ R.places \in {XdrPlaces(w.system, w.own), XsiamPlaces(w.system, w.own)}
  BY DEF Policy
<1>3. \A f \in ExtraFragments(w.chunks) : Len(f) \in Nat \ {0}
  <2>1. ASSUME NEW c \in w.chunks, Fold(c) # <<>> PROVE Len(Fold(c)) \in Nat \ {0}
    <3>1. Fold(c) \in Seq(Names)
      BY <1>1, FoldOf
    <3> QED BY <2>1, <3>1
  <2> QED BY <2>1 DEF ExtraFragments
<1>4. \A f \in R.fragments \cup R.forced \cup R.never : Len(f) \in Nat \ {0}
  <2>1. /\ Len(<<"node_modules">>) \in Nat \ {0} /\ Len(<<"library", "caches">>) \in Nat \ {0}
        /\ Len(<<"library", "caches", "firefox">>) \in Nat \ {0}
        /\ Len(<<"volumes">>) \in Nat \ {0} /\ Len(<<"media">>) \in Nat \ {0}
    OBVIOUS
  <2> QED BY <1>2, <1>3, <2>1
<1>5. ASSUME w.system = "Windows", NEW c \in Listed[w.system] \cup {w.own}
      PROVE  /\ Entry(Text(Fold(c))) /\ Entry(Anchor(Fold(c)))
             /\ Fold(Text(Fold(c)).of) = Text(Fold(c)).of
             /\ Fold(Anchor(Fold(c)).of) = Anchor(Fold(c)).of
  <2>1. c \in Seq(Names) \ {<<>>}
    BY <1>1, <1>5, SkipAssumption
  <2> QED BY <2>1, FoldNotEmpty DEF Entry, Text, Anchor
<1>6. ASSUME w.system = "Linux", NEW c \in Listed[w.system] \cup {w.own}
      PROVE  Entry(Anchor(c))
  <2>1. c \in Seq(Names) \ {<<>>}
    BY <1>1, <1>6, SkipAssumption
  <2> QED BY <2>1 DEF Entry, Anchor
<1>7. ASSUME w.system = "Darwin", NEW e \in Listed[w.system] \cup {Anchor(w.own)}
      PROVE  LET d == [e EXCEPT !.of = Fold(e.of)] IN Entry(d) /\ Fold(d.of) = d.of
  <2>1. e \in [shape : {"anchor", "fragment", "bundle"}, of : Seq(Names) \ {<<>>}]
    BY <1>1, <1>7, SkipAssumption DEF Anchor
  <2>2. e.of \in Seq(Names) \ {<<>>} /\ e.shape \in {"anchor", "fragment", "bundle"}
    BY <2>1
  <2>3. LET d == [e EXCEPT !.of = Fold(e.of)] IN d.of = Fold(e.of) /\ d.shape = e.shape
    BY <2>1
  <2> QED BY <2>2, <2>3, FoldNotEmpty DEF Entry
<1>8. \A e \in R.places : Entry(e) /\ (R.system # "Linux" => Fold(e.of) = e.of)
  <2> HIDE DEF R
  <2>1. CASE w.system = "Windows"
    BY <1>2, <1>5, <2>1 DEF XdrPlaces, XsiamPlaces
  <2>2. CASE w.system = "Linux"
    BY <1>2, <1>6, <2>2 DEF XdrPlaces, XsiamPlaces
  <2>3. CASE w.system = "Darwin"
    <3>1. R.places =
            {[e EXCEPT !.of = Fold(e.of)] : e \in Listed[w.system] \cup {Anchor(w.own)}}
      BY <1>2, <2>3 DEF XdrPlaces, XsiamPlaces
    <3>2. ASSUME NEW d \in R.places PROVE Entry(d) /\ Fold(d.of) = d.of
      <4>1. PICK e \in Listed[w.system] \cup {Anchor(w.own)} :
                d = [e EXCEPT !.of = Fold(e.of)]
        BY <3>1
      <4> QED BY <1>7, <2>3, <4>1
    <3> QED BY <3>2
  <2>4. CASE w.system \notin {"Windows", "Linux", "Darwin"}
    BY <1>2, <2>4 DEF XdrPlaces, XsiamPlaces
  <2> QED BY <2>1, <2>2, <2>3, <2>4
<1> QED BY <1>4, <1>8 DEF ListsHold

(* What is excluded or carved out at a directory is so below it. *)
LEMMA ExcludedBelow ==
    ASSUME NEW R, ListsHold(R), NEW t \in Seq(Names), NEW p \in Seq(Names), Under(t, p)
    PROVE  /\ \A f \in R.fragments \cup R.forced \cup R.never :
                  Occurs(f, Fold(t)) => Occurs(f, Fold(p))
           /\ InPlace(R, t) => InPlace(R, p)
<1>1. /\ Fold(t) \in Seq(Names) /\ Fold(p) \in Seq(Names) /\ Under(Fold(t), Fold(p))
  BY FoldOf, UnderFolded
<1>2. \A f \in R.fragments \cup R.forced \cup R.never :
          Occurs(f, Fold(t)) => Occurs(f, Fold(p))
  BY <1>1, OccursBelow DEF ListsHold
<1>3. ASSUME NEW e \in R.places
      PROVE  /\ Matches(e, t) => Matches(e, p)
             /\ Matches(e, Fold(t)) => Matches(e, Fold(p))
  BY <1>1, MatchesBelow DEF ListsHold
<1> QED BY <1>2, <1>3 DEF InPlace

(* A file is carved out where its directory is, and where it is and its own  *)
(* name says nothing the directory is.                                       *)
LEMMA ForcedBelow ==
    ASSUME NEW R, ListsHold(R), NEW p \in Seq(Names) \ {<<>>}, Forced(R, Front(p)),
           \A b \in R.never : ~AtTail(b, Fold(p))
    PROVE  Forced(R, p)
<1> DEFINE t == Front(p)
<1>1. /\ t \in Seq(Names) /\ Len(p) = Len(t) + 1 /\ Under(t, p)
      /\ Len(t) \in Nat /\ Len(p) \in Nat
  BY FrontIs
<1>2. /\ Fold(t) \in Seq(Names) /\ Fold(p) \in Seq(Names) /\ Under(Fold(t), Fold(p))
      /\ Len(Fold(p)) = Len(Fold(t)) + 1
  BY <1>1, FoldOf, UnderFolded
<1> HIDE DEF t
<1>3. \A b \in R.never : Occurs(b, Fold(p)) => Occurs(b, Fold(t))
  BY <1>2, OccursAbove DEF ListsHold
<1>4. \A f \in R.forced : Occurs(f, Fold(t)) => Occurs(f, Fold(p))
  BY <1>1, ExcludedBelow
<1>5. Forced(R, t)
  BY DEF t
<1> QED BY <1>3, <1>4, <1>5 DEF Forced

LEMMA CarveOuts ==
    ASSUME NEW R, ListsHold(R), NEW targets, NEW files, files \subseteq Seq(Names) \ {<<>>}
    PROVE  ForcedIsScanned(R, targets, files, Books(R, targets, files))
<1> DEFINE booked == [x \in {y \in targets \X files : Reached(R, y[1], Front(y[2]))} |->
                          Booked(R, x[2])]
<1>1. Books(R, targets, files).scanned
          = {x[2] : x \in {y \in DOMAIN booked : booked[y] \in {"scanned"}}}
  BY DEF Books
<1>2. ASSUME NEW p \in files, Forced(R, Front(p)), ~ByName(Front(p)), ~ByName(p),
             ~SkipsJunction(p), Last(p) \notin DOMAIN Fact,
             \A b \in R.never : ~AtTail(b, Fold(p)),
             NEW t \in targets, Reached(R, t, Front(p))
      PROVE  p \in Books(R, targets, files).scanned
  <2>1. ~IsSpecial(R, Front(p))
    BY <1>2 DEF IsSpecial
  <2>2. Forced(R, p)
    BY <1>2, ForcedBelow
  <2>3. ~IsSpecial(R, p)
    BY <1>2, <2>2 DEF IsSpecial
  <2>4. ScanFile(R, p) = "scanned"
    BY <1>2, <2>3 DEF ScanFile
  <2>5. Booked(R, p) = "scanned"
    BY <1>2, <2>1, <2>3, <2>4 DEF Booked
  <2> DEFINE x == <<t, p>>
  <2>6. x \in targets \X files /\ x[1] = t /\ x[2] = p
    OBVIOUS
  <2>7. x \in {y \in targets \X files : Reached(R, y[1], Front(y[2]))}
    BY <1>2, <2>6
  <2>8. x \in DOMAIN booked /\ booked[x] = "scanned"
    BY <2>5, <2>6, <2>7
  <2> HIDE DEF x, booked
  <2> QED BY <1>1, <2>6, <2>8
<1> QED BY <1>2 DEF ForcedIsScanned

LEMMA Reconcile ==
    ASSUME NEW R, NEW targets, NEW files, IsFiniteSet(targets), IsFiniteSet(files),
           targets \subseteq Seq(Names), files \subseteq Seq(Names) \ {<<>>}
    PROVE  BooksReconcile(R, targets, files, Books(R, targets, files))
<1> DEFINE All == targets \X files
           D == {y \in All : Reached(R, y[1], Front(y[2]))}
           booked == [x \in D |-> Booked(R, x[2])]
           Skips == {"Skipped directory", "Junction/symlink skip", "Special system file",
                     "File does not exist", "No read permission", "Not a regular file",
                     "File too large", "error"}
           S == {x \in D : booked[x] \in {"scanned"}}
           T == {x \in D : booked[x] \in Skips}
           below == {x \in All : Under(x[1], Front(x[2]))}
           past == {x \in below : \E n \in (Len(x[1]) + 1)..(Len(x[2]) - 1) :
                       Fold(x[2])[n] \in Junctions}
<1>1. /\ Books(R, targets, files).files_scanned = Cardinality(S)
      /\ Books(R, targets, files).files_skipped = Cardinality(T)
  BY DEF Books
<1>2. IsFiniteSet(All)
  BY FS_Product
<1>3. \A x \in D : booked[x] \in {"scanned"} \cup Skips
  BY DEF Booked, ScanFile
<1> HIDE DEF booked
<1>4. D = S \cup T /\ S \cap T = {}
  BY <1>3
<1>5. D \subseteq below
  BY DEF Reached
<1>6. below \ past \subseteq D
  <2> SUFFICES ASSUME NEW x \in below \ past PROVE Reached(R, x[1], Front(x[2]))
    OBVIOUS
  <2> DEFINE t == x[1]
             p == x[2]
             q == Front(p)
  <2>1. t \in Seq(Names) /\ p \in Seq(Names) \ {<<>>} /\ Under(t, q)
    OBVIOUS
  <2>2. \A n \in (Len(t) + 1)..(Len(p) - 1) : Fold(p)[n] \notin Junctions
    OBVIOUS
  <2> HIDE DEF t, p
  <2>3. /\ q \in Seq(Names) /\ Len(q) = Len(p) - 1 /\ Len(p) \in Nat \ {0} /\ Len(t) \in Nat
        /\ \A k \in 1..(Len(p) - 1) : q[k] = p[k]
    BY <2>1, FrontIs
  <2> HIDE DEF q
  <2>4. ASSUME NEW n \in (Len(t) + 1)..Len(q) PROVE Descends(R, SubSeq(q, 1, n))
    <3> DEFINE s == SubSeq(q, 1, n)
    <3>1. n \in Nat \ {0} /\ n \in 1..Len(p) /\ n \in 1..Len(q) /\ n \in 1..(Len(p) - 1)
      BY <2>3
    <3>2. \A k \in 1..n : q[k] \in Names
      BY <2>3, <3>1
    <3>3. /\ s \in Seq(Names) /\ Len(s) = IF 1 <= n THEN n - 1 + 1 ELSE 0
          /\ \A k \in 1..(n - 1 + 1) : s[k] = q[1 + k - 1]
      BY <3>1, <3>2, SubSeqProperties
    <3> HIDE DEF s
    <3>4. n - 1 + 1 = n /\ 1 + n - 1 = n /\ 1 <= n /\ n \in 1..n
      BY <3>1
    <3>5. Len(s) = n /\ s[n] = q[n]
      BY <3>3, <3>4
    <3>6. Last(Fold(s)) = Fold(p)[n]
      <4>1. s # <<>> /\ Last(s) = q[n]
        BY <3>1, <3>3, <3>5 DEF Last
      <4>2. Last(Fold(s)) = Lower(q[n])
        BY <3>3, <4>1, FrontIs
      <4> QED BY <2>1, <2>3, <3>1, <4>2, FoldOf
    <3>7. Last(Fold(s)) \notin Junctions
      BY <2>2, <2>3, <3>6
    <3>8. Descends(R, s)
      BY <3>7, SkipAssumption DEF Descends, SkipsJunction
    <3> QED BY <3>8 DEF s
  <2>5. Reached(R, t, q)
    BY <2>1, <2>4 DEF Reached
  <2> QED BY <2>5 DEF t, q, p
<1>7. /\ IsFiniteSet(below) /\ IsFiniteSet(D) /\ IsFiniteSet(S) /\ IsFiniteSet(T)
      /\ IsFiniteSet(below \ past)
  <2>1. /\ below \subseteq All /\ D \subseteq All /\ S \subseteq All /\ T \subseteq All
        /\ below \ past \subseteq All
    OBVIOUS
  <2> QED BY <1>2, <2>1, FS_Subset
<1> DEFINE total == Cardinality(S) + Cardinality(T)
<1> HIDE DEF D, S, T, below, past, All, Skips
<1>8. Cardinality(D) = total
  <2>1. Cardinality(S \cup T) = Cardinality(S) + Cardinality(T) - Cardinality(S \cap T)
    BY <1>7, FS_Union
  <2>2. Cardinality(S) \in Nat /\ Cardinality(T) \in Nat /\ Cardinality(S \cap T) = 0
    BY <1>4, <1>7, FS_CardinalityType, FS_EmptySet
  <2> QED BY <1>4, <2>1, <2>2
<1>9. Cardinality(D) <= Cardinality(below) /\ Cardinality(D) >= Cardinality(below \ past)
  <2>1. Cardinality(D) <= Cardinality(below)
    BY <1>5, <1>7, FS_Subset
  <2>2. Cardinality(below \ past) <= Cardinality(D)
    BY <1>6, <1>7, FS_Subset
  <2>3. Cardinality(D) \in Nat /\ Cardinality(below \ past) \in Nat
    BY <1>7, FS_CardinalityType
  <2> QED BY <2>1, <2>2, <2>3
<1> DEFINE B == Books(R, targets, files)
<1>10. /\ B.files_scanned + B.files_skipped <= Cardinality(below)
       /\ B.files_scanned + B.files_skipped >= Cardinality(below \ past)
  BY <1>1, <1>8, <1>9
<1> HIDE DEF B
<1> QED BY <1>10 DEF BooksReconcile, below, past, All, B

(* Where only its own name could tell a file from its directory, and does    *)
(* not, the directory is excluded as the file is.                            *)
LEMMA ExcludedAbove ==
    ASSUME NEW R, ListsHold(R), NEW p \in Seq(Names) \ {<<>>}, Neutral(R, Last(p)),
           ByPlace(R, p), ~Forced(R, p),
           \A e \in R.places : e.shape = "bundle" => ~Matches(e, Fold(p)),
           R.system = "Linux" => \A e \in R.places : e.shape # "bundle"
    PROVE  ByPlace(R, Front(p)) /\ ~Forced(R, Front(p))
<1> DEFINE t == Front(p)
           ends == {Last(f) : f \in R.fragments \cup R.never \cup {e.of : e \in R.places}}
<1>1. /\ t \in Seq(Names) /\ Len(p) = Len(t) + 1 /\ Under(t, p) /\ Last(p) = p[Len(p)]
      /\ Len(t) \in Nat /\ Len(p) \in Nat \ {0} /\ Last(Fold(p)) = Lower(Last(p))
  BY FrontIs
<1>2. /\ Fold(t) \in Seq(Names) /\ Fold(p) \in Seq(Names) /\ Under(Fold(t), Fold(p))
      /\ Len(Fold(p)) = Len(Fold(t)) + 1 /\ Len(Fold(p)) = Len(p)
      /\ Fold(p)[Len(p)] = Lower(Last(p))
  BY <1>1, FoldOf, UnderFolded
<1>3. /\ Last(p) \notin ends \cup Doubles /\ Lower(Last(p)) \notin ends \cup Doubles
      /\ \A d \in ends : <<d, Last(p)>> \notin Begins /\ <<d, Lower(Last(p))>> \notin Begins
  BY DEF Neutral
<1>4. \A f \in R.fragments \cup R.never : ~AtTail(f, Fold(p))
  <2> SUFFICES ASSUME NEW f \in R.fragments \cup R.never, AtTail(f, Fold(p)) PROVE FALSE
    OBVIOUS
  <2>1. Len(f) \in Nat \ {0} /\ Last(f) \in ends
    BY DEF ListsHold
  <2>2. Fold(p)[Len(p)] = Last(f)
    BY <1>2, <2>1, TailEnds DEF Last
  <2> QED BY <1>2, <1>3, <2>1, <2>2
<1>5. \A e \in R.places : Last(e.of) \in ends
  OBVIOUS
<1> HIDE DEF t, ends
<1>6. \A f \in R.fragments \cup R.never : Occurs(f, Fold(p)) => Occurs(f, Fold(t))
  BY <1>2, <1>4, OccursAbove DEF ListsHold
<1>7. \A f \in R.forced : Occurs(f, Fold(t)) => Occurs(f, Fold(p))
  BY <1>1, ExcludedBelow
<1>8. ASSUME Forced(R, t) PROVE FALSE
  <2>1. \A b \in R.never : ~AtTail(b, Fold(p))
    BY <1>4
  <2> QED BY <1>8, <2>1, ForcedBelow DEF t
<1>9. InPlace(R, p) => InPlace(R, t)
  <2>1. CASE R.system = "Linux"
    <3>1. ASSUME NEW e \in R.places, Matches(e, p) PROVE Matches(e, t)
      <4>1. e.shape # "bundle" /\ Entry(e)
        BY <2>1 DEF ListsHold
      <4>2. p[Len(p)] # Last(e.of) /\ <<Last(e.of), p[Len(p)]>> \notin Begins
        BY <1>1, <1>3, <1>5
      <4> QED BY <1>1, <3>1, <4>1, <4>2, MatchesAbove
    <3> QED BY <2>1, <3>1 DEF InPlace
  <2>2. CASE R.system # "Linux"
    <3>1. ASSUME NEW e \in R.places, Matches(e, Fold(p)) PROVE Matches(e, Fold(t))
      <4>1. e.shape # "bundle" /\ Entry(e)
        BY <3>1 DEF ListsHold
      <4>2. /\ Fold(p)[Len(Fold(p))] # Last(e.of)
            /\ <<Last(e.of), Fold(p)[Len(Fold(p))]>> \notin Begins
        BY <1>2, <1>3, <1>5
      <4> QED BY <1>2, <3>1, <4>1, <4>2, MatchesAbove
    <3> QED BY <2>2, <3>1 DEF InPlace
  <2> QED BY <2>1, <2>2
<1>10. ~IsDouble(R, p)
  BY <1>1, <1>3 DEF IsDouble
<1>11. ByPlace(R, t)
  BY <1>6, <1>9, <1>10 DEF ByPlace
<1> QED BY <1>8, <1>11 DEF t

LEMMA Told ==
    ASSUME NEW R, ListsHold(R), R.system = "Linux" => \A e \in R.places : e.shape # "bundle",
           NEW targets, NEW files,
           targets \subseteq Seq(Names), files \subseteq Seq(Names) \ {<<>>}
    PROVE  ExcludedIsTold(R, targets, files, Books(R, targets, files))
<1> DEFINE D == {y \in targets \X files : Reached(R, y[1], Front(y[2]))}
           booked == [x \in D |-> Booked(R, x[2])]
           B == Books(R, targets, files)
<1>1. /\ B.scanned = {x[2] : x \in {y \in D : booked[y] \in {"scanned"}}}
      /\ B.excluded_targets = {t \in targets : t # <<>> /\ IsSpecial(R, t)}
  BY DEF Books
<1>2. \A p \in B.scanned : Booked(R, p) = "scanned"
  BY <1>1
<1> HIDE DEF B, D, booked
<1>3. ASSUME NEW t \in targets \ {<<>>}, NEW p \in files, Under(t, p),
             Front(p) = t, Neutral(R, Last(p)), ByPlace(R, p), ~Forced(R, p),
             \A e \in R.places : e.shape = "bundle" => ~Matches(e, Fold(p))
      PROVE  t \in B.excluded_targets
  <2>1. ByPlace(R, t) /\ ~Forced(R, t)
    BY <1>3, ExcludedAbove
  <2> QED BY <1>1, <2>1 DEF IsSpecial
<1>4. ASSUME NEW t \in targets \ {<<>>}, Warned(R, t), ~Forced(R, t)
      PROVE  t \in B.excluded_targets
  <2>1. PICK e \in R.places : e.shape \in {"anchor", "text"} /\ Matches(e, t)
    BY <1>4 DEF Warned
  <2>2. Entry(e) /\ (R.system # "Linux" => Fold(e.of) = e.of)
    BY DEF ListsHold
  <2>3. R.system # "Linux" => Matches(e, Fold(t))
    BY <2>1, <2>2, MatchesFolded
  <2>4. InPlace(R, t)
    BY <2>1, <2>3 DEF InPlace
  <2> QED BY <1>1, <1>4, <2>4 DEF IsSpecial, ByPlace
<1>5. ASSUME NEW t \in B.excluded_targets, ~ByName(t), ~IsDouble(R, t),
             NEW p \in files, Under(t, p), p \in B.scanned
      PROVE  Forced(R, p)
  <2>1. t \in Seq(Names) /\ p \in Seq(Names) /\ IsSpecial(R, t)
    BY <1>1
  <2>2. (\E f \in R.fragments : Occurs(f, Fold(t))) \/ InPlace(R, t)
    BY <1>5, <2>1 DEF IsSpecial, ByPlace
  <2>3. ByPlace(R, p)
    BY <1>5, <2>1, <2>2, ExcludedBelow DEF ByPlace
  <2>4. ~IsSpecial(R, p)
    BY <1>2, <1>5 DEF Booked
  <2> QED BY <2>3, <2>4 DEF IsSpecial
<1> QED BY <1>3, <1>4, <1>5 DEF ExcludedIsTold, B

LEMMA LinuxHasNoBundles ==
    ASSUME NEW w \in Walks
    PROVE  LET R == Policy(w.edition, w.system, w.own, w.chunks)
           IN  R.system = "Linux" => \A e \in R.places : e.shape # "bundle"
<1> DEFINE R == Policy(w.edition, w.system, w.own, w.chunks)
<1>1. /\ R.system = w.system
      /\ R.places \in {XdrPlaces(w.system, w.own), XsiamPlaces(w.system, w.own)}
  BY DEF Policy
<1> HIDE DEF R
<1>2. ASSUME w.system = "Linux" PROVE \A e \in R.places : e.shape # "bundle"
  BY <1>1, <1>2 DEF XdrPlaces, XsiamPlaces, Anchor
<1> QED BY <1>1, <1>2 DEF R

LEMMA WalkKeepsItsWord ==
    ASSUME NEW w \in Walks
    PROVE  LET W == Walk(w)
           IN  /\ ExcludedIsTold(W.rules, W.targets, W.files, W.books)
               /\ ForcedIsScanned(W.rules, W.targets, W.files, W.books)
               /\ BooksReconcile(W.rules, W.targets, W.files, W.books)
<1> DEFINE R == Policy(w.edition, w.system, w.own, w.chunks)
           T == ScanTargets(w.system, w.wanted, w.world)
           B == Books(R, T, w.files)
<1>1. /\ Walk(w).rules = R /\ Walk(w).targets = T /\ Walk(w).files = w.files
      /\ Walk(w).books = B
  BY DEF Walk
<1>2. ListsHold(R) /\ (R.system = "Linux" => \A e \in R.places : e.shape # "bundle")
  BY ListsSound, LinuxHasNoBundles
<1>3. /\ IsFiniteSet(T) /\ T \subseteq Seq(Names)
      /\ IsFiniteSet(w.files) /\ w.files \subseteq Seq(Names) \ {<<>>}
  BY WalksAssumption
<1> HIDE DEF R, T
<1>4. /\ ExcludedIsTold(R, T, w.files, B) /\ ForcedIsScanned(R, T, w.files, B)
      /\ BooksReconcile(R, T, w.files, B)
  BY <1>2, <1>3, Told, CarveOuts, Reconcile
<1> HIDE DEF B
<1> QED BY <1>1, <1>4

-----------------------------------------------------------------------------
(* One rule's block, as the XSIAM edition cuts it, looks like the file it    *)
(* was cut from: the rule itself is the only one in it that is not commented *)
(* out, and no import is.                                                    *)
BlockOf(t, i) == Cut(t, i, TopLevel(t))

LEMMA CutIs ==
    ASSUME NEW t, Len(t) \in Nat, NEW i \in Statements(t, "rule")
    PROVE  \E m \in (i + 1)..(Len(t) + 1) :
              /\ m = Len(t) + 1 \/ m \in TopLevel(t)
              /\ \A j \in (i + 1)..(m - 1) : j \notin TopLevel(t)
              /\ Len(BlockOf(t, i)) = m - i
              /\ \A k \in 1..(m - i) : BlockOf(t, i)[k] = t[i + k - 1]
<1> DEFINE T == {j \in TopLevel(t) : j > i} \cup {Len(t) + 1}
           m == Min(T)
<1>1. i \in 1..Len(t) /\ TopLevel(t) \subseteq 1..Len(t)
  BY DEF Statements, TopLevel, Lines
<1>2. T \subseteq (i + 1)..(Len(t) + 1) /\ T \in SUBSET Nat /\ T # {}
  BY <1>1
<1>3. \E x \in T : \A y \in T : x <= y
  BY <1>2, NatMin
<1>4. m \in T /\ \A y \in T : m <= y
  BY <1>3 DEF Min
<1>5. BlockOf(t, i) = SubSeq(t, i, m - 1)
  BY DEF BlockOf, Cut
<1> HIDE DEF m
<1>6. m \in (i + 1)..(Len(t) + 1) /\ (m = Len(t) + 1 \/ m \in TopLevel(t))
  BY <1>2, <1>4
<1>7. \A j \in (i + 1)..(m - 1) : j \notin TopLevel(t)
  BY <1>1, <1>4, <1>6
<1> DEFINE S == {t[j] : j \in i..(m - 1)}
           b == SubSeq(t, i, m - 1)
<1>8. i \in Int /\ m - 1 \in Int /\ i <= m - 1 /\ (m - 1) - i + 1 = m - i
  BY <1>1, <1>6
<1>9. \A j \in i..(m - 1) : t[j] \in S
  OBVIOUS
<1> HIDE DEF S
<1>10. Len(b) = (IF i <= m - 1 THEN m - 1 - i + 1 ELSE 0)
       /\ \A k \in 1..(m - 1 - i + 1) : b[k] = t[i + k - 1]
  BY <1>8, <1>9, SubSeqProperties
<1>11. Len(b) = m - i /\ \A k \in 1..(m - i) : b[k] = t[i + k - 1]
  BY <1>8, <1>10
<1> QED BY <1>5, <1>6, <1>7, <1>11

LEMMA BlockComments ==
    ASSUME NEW t, Len(t) \in Nat, NEW i \in Statements(t, "rule"),
           NEW m \in (i + 1)..(Len(t) + 1),
           NEW b, Len(b) = m - i, \A k \in 1..(m - i) : b[k] = t[i + k - 1],
           NEW k \in 1..(m - i)
    PROVE  InComment(b, k) <=> InComment(t, i + k - 1)
<1> DEFINE x == i + k - 1
<1>i. i \in 1..Len(t)
  BY DEF Statements, TopLevel, Lines
<1>n. i \in Nat /\ 1 <= i /\ m \in Nat /\ m <= Len(t) + 1 /\ k \in Nat /\ 1 <= k /\ k <= m - i
  BY <1>i
<1>x. x \in i..Len(t) /\ k = x - i + 1 /\ i \in 1..Len(t) /\ m \in Nat /\ x \in 1..Len(t)
  BY <1>n
<1>1. t[i].is = "rule" /\ ~InComment(t, i)
  BY DEF Statements, TopLevel, Lines
<1> SUFFICES InComment(b, k) <=> InComment(t, x)
  OBVIOUS
<1> HIDE DEF x
<1>2. ASSUME InComment(b, k) PROVE InComment(t, x)
  <2>1. PICK j \in 1..(k - 1) :
            b[j].is = "open" /\ \A n \in (j + 1)..(k - 1) : b[n].is # "close"
    BY <1>2 DEF InComment
  <2> DEFINE q == i + j - 1
  <2>2. j \in 1..(m - i) /\ q \in 1..(x - 1) /\ j = q - i + 1
    BY <1>x
  <2>3. t[q].is = "open"
    BY <2>1, <2>2
  <2> HIDE DEF q
  <2>4. ASSUME NEW n \in (q + 1)..(x - 1) PROVE t[n].is # "close"
    <3> DEFINE o == n - i + 1
    <3>1. o \in (j + 1)..(k - 1) /\ o \in 1..(m - i) /\ n = i + o - 1
      BY <1>x, <2>2
    <3> HIDE DEF o
    <3> QED BY <2>1, <3>1
  <2> QED BY <2>2, <2>3, <2>4 DEF InComment
<1>3. ASSUME InComment(t, x) PROVE InComment(b, k)
  <2>1. PICK j \in 1..(x - 1) :
            t[j].is = "open" /\ \A n \in (j + 1)..(x - 1) : t[n].is # "close"
    BY <1>3 DEF InComment
  <2>2. j > i
    <3>1. CASE j < i
      <4>1. j \in 1..(i - 1) /\ \A n \in (j + 1)..(i - 1) : n \in (j + 1)..(x - 1)
        BY <1>x, <3>1
      <4>2. InComment(t, i)
        BY <2>1, <4>1 DEF InComment
      <4> QED BY <1>1, <4>2
    <3>2. j # i
      BY <1>1, <2>1
    <3> QED BY <1>x, <3>1, <3>2
  <2> DEFINE o == j - i + 1
  <2>9. j \in Nat /\ j <= x - 1 /\ i \in Nat /\ x \in Nat /\ k \in Nat /\ m \in Nat
        /\ k <= m - i
    BY <1>x
  <2>3. o \in 1..(k - 1) /\ o \in 1..(m - i) /\ j = i + o - 1
    BY <1>x, <2>2, <2>9
  <2> HIDE DEF o
  <2>4. b[o].is = "open"
    BY <2>1, <2>3
  <2>5. ASSUME NEW n \in (o + 1)..(k - 1) PROVE b[n].is # "close"
    <3> DEFINE y == i + n - 1
    <3>1. n \in 1..(m - i) /\ y \in (j + 1)..(x - 1)
      BY <1>x, <2>3
    <3>2. b[n] = t[y]
      BY <3>1
    <3> HIDE DEF y
    <3> QED BY <2>1, <3>1, <3>2
  <2> QED BY <2>3, <2>4, <2>5 DEF InComment
<1> QED BY <1>2, <1>3

LEMMA BlockIsOneRule ==
    ASSUME NEW t, Len(t) \in Nat, NEW i \in Statements(t, "rule")
    PROVE  LET b == BlockOf(t, i)
           IN  /\ 1 \in Live(b) /\ b[1] = t[i]
               /\ t[i].closed => Live(b) = {1} /\ LiveImports(b) = {}
               /\ Statements(b, "import") = {}
               /\ ~Torn(t) => ~Torn(b)
<1> DEFINE b == BlockOf(t, i)
<1>1. PICK m \in (i + 1)..(Len(t) + 1) :
          /\ m = Len(t) + 1 \/ m \in TopLevel(t)
          /\ \A j \in (i + 1)..(m - 1) : j \notin TopLevel(t)
          /\ Len(b) = m - i
          /\ \A k \in 1..(m - i) : b[k] = t[i + k - 1]
  BY CutIs
<1> HIDE DEF b
<1>2. /\ i \in 1..Len(t) /\ t[i].is = "rule" /\ ~InComment(t, i) /\ m \in Nat /\ i \in Nat
      /\ \A j \in 1..(i - 1) : t[j].is = "rule" /\ ~InComment(t, j) => t[j].closed
  BY DEF Statements, TopLevel, Lines
<1>3. \A k \in 1..(m - i) : InComment(b, k) <=> InComment(t, i + k - 1)
  BY <1>1, BlockComments
<1>4. b[1] = t[i] /\ 1 \in 1..Len(b) /\ ~InComment(b, 1)
  <2>1. 1 \in 1..(m - i) /\ i + 1 - 1 = i
    BY <1>2
  <2> QED BY <1>1, <1>2, <1>3, <2>1
<1>5. 1 \in Live(b)
  BY <1>2, <1>4 DEF Live, Lines
<1>6. ASSUME t[i].closed,
             NEW k \in 2..(m - i), b[k].is \in {"import", "rule"}, ~InComment(b, k)
      PROVE  FALSE
  <2> DEFINE K == {n \in 2..(m - i) : b[n].is \in {"import", "rule"} /\ ~InComment(b, n)}
  <2>1. K \in SUBSET Nat /\ K # {}
    BY <1>2, <1>6
  <2>2. PICK n \in K : \A o \in K : n <= o
    BY <2>1, NatMin
  <2>3. n \in 2..(m - i) /\ b[n].is \in {"import", "rule"} /\ ~InComment(b, n)
    OBVIOUS
  <2>4. \A o \in 2..(m - i) : o < n => ~(b[o].is \in {"import", "rule"} /\ ~InComment(b, o))
    BY <1>2, <2>2, <2>3
  <2> HIDE DEF K
  <2> DEFINE j == i + n - 1
  <2>9. n \in Nat /\ 2 <= n /\ n <= m - i /\ i \in Nat /\ 1 <= i /\ m \in Nat
        /\ m <= Len(t) + 1
    BY <1>1, <1>2, <2>3
  <2>5. j \in (i + 1)..(m - 1) /\ j \in 1..Len(t) /\ n \in 1..(m - i) /\ n = j - i + 1
    BY <2>9
  <2>6. t[j].is \in {"import", "rule"} /\ ~InComment(t, j)
    BY <1>1, <1>3, <2>3, <2>5
  <2> HIDE DEF j
  <2>7. ASSUME NEW q \in 1..(j - 1), t[q].is = "rule", ~InComment(t, q) PROVE t[q].closed
    <3>1. CASE q < i
      <4>1. q \in 1..(i - 1)
        BY <1>2, <3>1
      <4> QED BY <1>2, <2>7, <4>1
    <3>2. CASE q = i
      BY <1>6, <3>2
    <3>3. CASE q > i
      <4> DEFINE o == q - i + 1
      <4>1. o \in 2..(m - i) /\ o < n /\ o \in 1..(m - i) /\ i + o - 1 = q
        BY <1>2, <2>3, <2>5, <3>3
      <4> HIDE DEF o
      <4>2. b[o].is = "rule" /\ ~InComment(b, o)
        BY <1>1, <1>3, <2>7, <4>1
      <4> QED BY <2>4, <4>1, <4>2
    <3> QED BY <1>2, <3>1, <3>2, <3>3
  <2>8. j \in TopLevel(t)
    BY <2>5, <2>6, <2>7 DEF TopLevel, Lines
  <2> QED BY <1>1, <2>5, <2>8
<1>7. ASSUME t[i].closed PROVE Live(b) = {1} /\ LiveImports(b) = {}
  <2>1. \A k \in 1..Len(b) : k = 1 \/ k \in 2..(m - i)
    BY <1>1, <1>2
  <2>2. \A k \in 1..Len(b) : b[k].is = "rule" /\ ~InComment(b, k) => k = 1
    BY <1>6, <1>7, <2>1
  <2>3. \A k \in 1..Len(b) : b[k].is = "import" /\ ~InComment(b, k) => FALSE
    BY <1>2, <1>4, <1>6, <1>7, <2>1
  <2>4. {k \in Lines(b, "import") : ~InComment(b, k)} = {}
    BY <2>3 DEF Lines
  <2>5. LiveImports(b) = {}
    BY <2>4 DEF LiveImports, ModsAt
  <2> QED BY <1>5, <2>2, <2>5 DEF Live, Lines
<1>8. Statements(b, "import") = {}
  <2> SUFFICES ASSUME NEW k \in 1..Len(b), b[k].is = "import", ~InComment(b, k),
                      \A j \in 1..(k - 1) :
                          b[j].is = "rule" /\ ~InComment(b, j) => b[j].closed
               PROVE  FALSE
    BY DEF Statements, TopLevel, Lines
  <2>1. k # 1
    BY <1>2, <1>4
  <2>2. k \in 2..(m - i) /\ 1 \in 1..(k - 1)
    BY <1>1, <1>2, <2>1
  <2>3. t[i].closed
    BY <1>2, <1>4, <2>2
  <2> QED BY <1>6, <2>2, <2>3
<1>9. ASSUME ~Torn(t) PROVE ~Torn(b)
  <2>1. /\ \A o \in Lines(t, "open") : \E j \in (o + 1)..Len(t) : t[j].is = "close"
        /\ \A c \in Lines(t, "close") : InComment(t, c)
    BY <1>9 DEF Torn
  <2>2. ASSUME NEW k \in Lines(b, "open")
        PROVE  \E j \in (k + 1)..Len(b) : b[j].is = "close"
    <3> DEFINE o == i + k - 1
    <3>1. k \in 1..(m - i) /\ o \in 1..Len(t) /\ o \in i..(m - 1) /\ t[o].is = "open"
      BY <1>1, <1>2 DEF Lines
    <3>2. o \in Lines(t, "open")
      BY <3>1 DEF Lines
    <3>3. PICK j \in (o + 1)..Len(t) : t[j].is = "close"
      BY <2>1, <3>2
    <3>7. o = i + k - 1
      OBVIOUS
    <3> HIDE DEF o
    <3>4. \E c \in (o + 1)..(m - 1) : t[c].is = "close"
      <4>1. CASE m = Len(t) + 1
        BY <3>3, <4>1
      <4>2. CASE m \in TopLevel(t)
        <5>1. ~InComment(t, m)
          BY <4>2 DEF TopLevel
        <5>2. o \in 1..(m - 1)
          BY <1>2, <3>1
        <5> QED BY <3>1, <5>1, <5>2 DEF InComment
      <4> QED BY <1>1, <4>1, <4>2
    <3>5. PICK c \in (o + 1)..(m - 1) : t[c].is = "close"
      BY <3>4
    <3> DEFINE d == c - i + 1
    <3>8. /\ k \in Nat /\ 1 <= k /\ i \in Nat /\ m \in Nat /\ o \in Nat
          /\ c \in Nat /\ o + 1 <= c /\ c <= m - 1
      BY <1>2, <3>1, <3>5
    <3>6. d \in (k + 1)..(m - i) /\ d \in 1..(m - i) /\ i + d - 1 = c
      BY <3>7, <3>8
    <3> HIDE DEF d
    <3> QED BY <1>1, <3>5, <3>6
  <2>3. ASSUME NEW k \in Lines(b, "close") PROVE InComment(b, k)
    <3>1. k \in 1..(m - i) /\ i + k - 1 \in 1..Len(t) /\ t[i + k - 1].is = "close"
      BY <1>1, <1>2 DEF Lines
    <3>2. InComment(t, i + k - 1)
      BY <2>1, <3>1 DEF Lines
    <3> QED BY <1>3, <3>1, <3>2
  <2> QED BY <2>2, <2>3 DEF Torn
<1> QED BY <1>4, <1>5, <1>7, <1>8, <1>9 DEF b

LEMMA GateTells ==
    ASSUME NEW t, Len(t) \in Nat, Validated(t)
    PROVE  \A i \in Lines(t, "rule") : t[i].cond /\ (~InComment(t, i) => t[i].closed)
<1> DEFINE N == Lines(t, "rule")
           C == {i \in N : t[i].cond}
           U == {i \in N : ~InComment(t, i) /\ ~t[i].closed}
<1>1. Cardinality(U) = 0 /\ ~(Cardinality(C) < Cardinality(N))
  BY DEF Validated, Verdict, BraceBalance
<1>2. IsFiniteSet(1..Len(t)) /\ N \subseteq 1..Len(t)
  BY FS_Interval DEF Lines
<1>3. IsFiniteSet(N)
  BY <1>2, FS_Subset
<1>4. C \subseteq N /\ U \subseteq N
  OBVIOUS
<1> HIDE DEF N
<1>5. IsFiniteSet(C) /\ IsFiniteSet(U) /\ Cardinality(C) <= Cardinality(N)
      /\ (Cardinality(N) = Cardinality(C) => N = C)
  BY <1>3, <1>4, FS_Subset
<1> HIDE DEF C, U
<1>6. Cardinality(C) \in Nat /\ Cardinality(N) \in Nat
  BY <1>3, <1>5, FS_CardinalityType
<1>7. C = N /\ U = {}
  <2>1. Cardinality(N) = Cardinality(C)
    BY <1>1, <1>5, <1>6
  <2> QED BY <1>1, <1>5, <2>1, FS_EmptySet
<1>8. \A i \in N : t[i].cond
  BY <1>7 DEF C
<1>9. \A i \in N : ~InComment(t, i) => t[i].closed
  BY <1>7 DEF U
<1> QED BY <1>8, <1>9 DEF N

(* What is wrong with a rule, of a file cut by the XSIAM edition. *)
LEMMA DefectsOfOne ==
    ASSUME NEW t, Len(t) \in Nat, NEW i \in Statements(t, "rule"), NEW g,
           NEW imports, imports \subseteq g
    PROVE  LET b == BlockOf(t, i)
               D == Defects(g, imports, b)
           IN  /\ \/ D = {SyntaxError}
                  \/ D = (t[i].uses \ imports) \cup t[i].calls
               /\ ~Torn(t) /\ t[i].ok /\ t[i].cond /\ t[i].closed
                     => D = (t[i].uses \ imports) \cup t[i].calls
<1> DEFINE b == BlockOf(t, i)
<1>1. /\ 1 \in Live(b) /\ b[1] = t[i]
      /\ t[i].closed => Live(b) = {1} /\ LiveImports(b) = {}
      /\ ~Torn(t) => ~Torn(b)
  BY BlockIsOneRule
<1> HIDE DEF b
<1> DEFINE Bad == \/ Torn(b)
                  \/ \E r \in Live(b) : ~(b[r].ok /\ b[r].cond /\ b[r].closed)
                  \/ ~(imports \cup LiveImports(b) \subseteq g)
<1>2. Bad => Defects(g, imports, b) = {SyntaxError}
  BY DEF Defects
<1>3. ASSUME ~Bad
      PROVE  Defects(g, imports, b) = (t[i].uses \ imports) \cup t[i].calls
  <2>1. Live(b) = {1} /\ LiveImports(b) = {}
    BY <1>1, <1>3
  <2>2. {b[j].name : j \in {k \in Live(b) : k < 1}} = {}
    BY <2>1
  <2> DEFINE F(r) == (b[r].uses \ (imports \cup LiveImports(b)))
                      \cup (b[r].calls \ {b[j].name : j \in {k \in Live(b) : k < r}})
  <2>3. Defects(g, imports, b) = UNION {F(r) : r \in Live(b)}
    BY <1>3 DEF Defects
  <2>4. F(1) = (t[i].uses \ imports) \cup t[i].calls
    BY <1>1, <2>1, <2>2
  <2> HIDE DEF F
  <2>5. {F(r) : r \in Live(b)} = {F(1)}
    BY <2>1
  <2> QED BY <2>3, <2>4, <2>5
<1>4. ~Torn(t) /\ t[i].ok /\ t[i].cond /\ t[i].closed => ~Bad
  BY <1>1
<1> HIDE DEF Bad
<1>5. LET D == Defects(g, imports, b)
      IN  /\ D = {SyntaxError} \/ D = (t[i].uses \ imports) \cup t[i].calls
          /\ ~Torn(t) /\ t[i].ok /\ t[i].cond /\ t[i].closed
                => D = (t[i].uses \ imports) \cup t[i].calls
  BY <1>2, <1>3, <1>4
<1> QED BY <1>5 DEF b

LEMMA FateOfOne ==
    ASSUME NEW t \in RuleFiles, NEW i \in Statements(t, "rule"), NEW g
    PROVE  LET fate == XsiamFate(t, g, BlockOf(t, i))
           IN  /\ ~Torn(t) /\ t[i].cond /\ t[i].closed /\ Sound(t, g, i) => fate = "valid"
               /\ fate = "skipped" => ~(t[i].uses \subseteq g)
               /\ /\ fate = "failed" /\ t[i].uses \subseteq XsiamImports(t)
                  /\ t[i].closed /\ t[i].cond
                  => Torn(t) \/ ~t[i].ok \/ t[i].calls # {}
<1> DEFINE b == BlockOf(t, i)
           avail == XsiamAvailable(g, t)
           imports == (XsiamImports(t) \cap avail) \cup Inject(b, avail)
           D == Defects(g, imports, b)
           fate == XsiamFate(t, g, b)
<1>1. /\ Len(t) \in Nat /\ i \in Lines(t, "rule")
      /\ \A x \in XsiamImports(t) : x # SyntaxError /\ x \notin t[i].calls
  BY FilesAssumption DEF XsiamImports, ModsAt, Statements
<1>2. XsiamUnavailable(b, avail) = {}
  <2>1. Statements(b, "import") = {}
    BY <1>1, BlockIsOneRule
  <2> QED BY <2>1 DEF XsiamUnavailable, ModsAt
<1>3. /\ fate \in {"valid", "skipped", "failed"}
      /\ fate = "valid" <=> D = {}
      /\ fate = "skipped" => (D \cap XsiamImports(t)) \ avail # {}
      /\ fate = "failed" => (D \cap XsiamImports(t)) \ avail = {}
  BY <1>2 DEF XsiamFate, XsiamMissing
<1>4. /\ avail \subseteq g /\ imports \subseteq g /\ g \cap XsiamImports(t) \subseteq imports
      /\ XsiamImports(t) \cap g \subseteq avail
  BY DEF XsiamAvailable, Inject
<1> HIDE DEF imports, avail, b
<1>5. /\ D = {SyntaxError} \/ D = (t[i].uses \ imports) \cup t[i].calls
      /\ ~Torn(t) /\ t[i].ok /\ t[i].cond /\ t[i].closed
            => D = (t[i].uses \ imports) \cup t[i].calls
  BY <1>1, <1>4, DefectsOfOne DEF b
<1> HIDE DEF D, fate
<1>6. ASSUME ~Torn(t), t[i].cond, t[i].closed, Sound(t, g, i) PROVE fate = "valid"
  <2>1. t[i].ok /\ t[i].calls = {} /\ t[i].uses \subseteq g \cap XsiamImports(t)
    BY <1>6 DEF Sound
  <2>2. D = (t[i].uses \ imports) \cup t[i].calls
    BY <1>5, <1>6, <2>1
  <2>3. D = {}
    BY <1>4, <2>1, <2>2
  <2> QED BY <1>3, <2>3
<1>7. ASSUME fate = "skipped" PROVE ~(t[i].uses \subseteq g)
  <2>1. PICK x \in D : x \in XsiamImports(t) /\ x \notin avail
    BY <1>3, <1>7
  <2>2. x # SyntaxError /\ x \notin t[i].calls /\ x \notin g
    BY <1>1, <1>4, <2>1
  <2>3. x \in t[i].uses
    BY <1>5, <2>1, <2>2
  <2> QED BY <2>2, <2>3
<1>8. ASSUME fate = "failed", t[i].uses \subseteq XsiamImports(t), t[i].closed, t[i].cond,
             ~Torn(t), t[i].ok, t[i].calls = {}
      PROVE  FALSE
  <2>1. D = t[i].uses \ imports
    BY <1>5, <1>8
  <2>2. D # {}
    BY <1>3, <1>8
  <2>3. PICK x \in D : TRUE
    BY <2>2
  <2>4. x \in XsiamImports(t) /\ x \notin imports
    BY <1>8, <2>1, <2>3
  <2>5. x \notin avail
    BY <1>4, <2>4
  <2> QED BY <1>3, <1>8, <2>3, <2>4, <2>5
<1> QED BY <1>6, <1>7, <1>8 DEF fate, b

LEMMA RuleAlone ==
    ASSUME NEW t \in RuleFiles, NEW g
    PROVE  StandsAlone(t, g) /\ SkippedNeeds(t, g)
<1> DEFINE S == XsiamSplit(t)
           fates == [x \in S |-> XsiamFate(t, g, x[2])]
           out == XsiamCompile(t, g)
           Of(i) == <<i, BlockOf(t, i)>>
           I == Statements(t, "rule")
<1>1. S = {Of(i) : i \in I}
  BY DEF XsiamSplit, BlockOf
<1>2. /\ out.valid = {x[1] : x \in {y \in S : fates[y] = "valid"}}
      /\ out.failed = {x[1] : x \in {y \in S : fates[y] = "failed"}}
      /\ out.skipped = {x[1] : x \in {y \in S : fates[y] = "skipped"}}
  BY DEF XsiamCompile, Outcome
<1>3. \A x \in S : fates[x] = XsiamFate(t, g, x[2])
  OBVIOUS
<1> HIDE DEF S, fates, out
<1>4. ASSUME NEW i \in I
      PROVE  LET f == XsiamFate(t, g, BlockOf(t, i))
             IN  /\ Of(i) \in S /\ fates[Of(i)] = f /\ Of(i)[1] = i
                 /\ f = "valid" => i \in out.valid
  BY <1>1, <1>2, <1>3
<1>5. ASSUME NEW f \in {"failed", "skipped"}, NEW i,
             i \in {x[1] : x \in {y \in S : fates[y] = f}}
      PROVE  i \in I /\ XsiamFate(t, g, BlockOf(t, i)) = f
  <2>1. PICK x \in S : fates[x] = f /\ x[1] = i
    BY <1>5
  <2>2. PICK j \in I : x = Of(j)
    BY <1>1
  <2>3. x[1] = j /\ x[2] = BlockOf(t, j)
    BY <2>2
  <2> QED BY <1>3, <2>1, <2>3
<1>6. StandsAlone(t, g)
  <2> SUFFICES ASSUME NEW how \in Carriers, DecodeRules(how, t, TRUE).ok, ~Torn(t),
                      NEW i \in I, Sound(t, g, i)
               PROVE  /\ XsiamDecodes(how, t) /\ i \in out.valid
                      /\ ~t[i].hidden => XdrDecodes(how, t)
    BY DEF StandsAlone, out
  <2>1. how = "plain" /\ Validated(t)
    BY DEF DecodeRules, DecodeB64
  <2>2. B64ToText(how, t) = t
    BY <2>1 DEF B64ToText
  <2>3. Len(t) \in Nat /\ i \in Lines(t, "rule") /\ ~InComment(t, i)
    BY FilesAssumption DEF Statements, TopLevel
  <2>4. t[i].cond /\ t[i].closed
    BY <2>1, <2>3, GateTells
  <2>5. XsiamFate(t, g, BlockOf(t, i)) = "valid"
    BY <2>4, FateOfOne
  <2>6. i \in out.valid
    BY <1>4, <2>5
  <2>7. XsiamDecodes(how, t)
    BY <2>2 DEF XsiamDecodes
  <2>8. ~t[i].hidden => XdrDecodes(how, t)
    BY <2>2, <2>3 DEF XdrDecodes, XdrStarts
  <2> QED BY <2>6, <2>7, <2>8
<1>7. SkippedNeeds(t, g)
  <2>1. ASSUME NEW i \in out.skipped PROVE ~(t[i].uses \subseteq g)
    <3>1. i \in I /\ XsiamFate(t, g, BlockOf(t, i)) = "skipped"
      BY <1>2, <1>5
    <3> QED BY <3>1, FateOfOne
  <2>2. ASSUME NEW i \in out.failed, t[i].uses \subseteq XsiamImports(t), t[i].closed,
               t[i].cond
        PROVE  Torn(t) \/ ~t[i].ok \/ t[i].calls # {}
    <3>1. i \in I /\ XsiamFate(t, g, BlockOf(t, i)) = "failed"
      BY <1>2, <1>5
    <3> QED BY <2>2, <3>1, FateOfOne
  <2> QED BY <2>1, <2>2 DEF SkippedNeeds, out
<1> QED BY <1>6, <1>7

-----------------------------------------------------------------------------
(* The theorems. *)
Judged ==
    /\ asked.of = "walk" =>
          /\ ExcludedIsTold(asked.rules, asked.targets, asked.files, asked.books)
          /\ ForcedIsScanned(asked.rules, asked.targets, asked.files, asked.books)
          /\ BooksReconcile(asked.rules, asked.targets, asked.files, asked.books)
    /\ RuleStandsAlone /\ NoScanInVain /\ PreviewIsTrue /\ EndedScansStartNoWave

LEMMA JudgedFromTheStart ==
    DecisionInit => Judged
<1> SUFFICES ASSUME DecisionInit PROVE Judged
  OBVIOUS
<1> USE DEF Judged, RuleStandsAlone, NoScanInVain, PreviewIsTrue, EndedScansStartNoWave
<1>0. CASE asked = [of |-> "loading"] \/ asked = [of |-> "governor"]
  BY <1>0
<1>1. CASE asked \in [of : {"rules"}, file : RuleFiles, agent : Engines]
  <2>1. asked.of = "rules" /\ asked.file \in RuleFiles
    BY <1>1
  <2> QED BY <2>1, RuleAlone
<1>2. CASE asked \in [of : {"start"}, start : Starts]
  <2>1. asked.of = "start" /\ asked.start \in Starts
    BY <1>2
  <2>2. NoScanInVain
    BY <2>1, StartsForReason
  <2> QED BY <2>1, <2>2
<1>3. CASE \E w \in Walks : asked = Walk(w)
  <2>1. PICK w \in Walks : asked = Walk(w)
    BY <1>3
  <2>2. asked.of = "walk"
    BY <2>1 DEF Walk
  <2> QED BY <2>1, <2>2, WalkKeepsItsWord
<1>4. CASE asked \in [of : {"ready"}, scan : Tenants]
  <2>1. asked.of = "ready" /\ asked.scan \in Tenants
    BY <1>4
  <2>2. {asked.scan} \cup Beside \subseteq AllTenants /\ asked.scan \in AllTenants
    BY <2>1 DEF AllTenants
  <2>3. PreviewIsTrue
    BY <2>2, GateIsSame, PendingClears
  <2> QED BY <2>1, <2>3
<1>5. CASE asked \in [of : {"wave"}, wave : Waves]
  <2>1. asked.of = "wave" /\ asked.wave \in Waves
    BY <1>5
  <2>2. EndedScansStartNoWave
    BY <2>1, LivingJudgement
  <2> QED BY <2>1, <2>2
<1> QED BY <1>0, <1>1, <1>2, <1>3, <1>4, <1>5 DEF DecisionInit

LEMMA JudgedForGood == DecisionSpec => []Judged
<1>1. DecisionInit => Judged
  BY JudgedFromTheStart
<1>2. Judged /\ [DecisionNext]_decided => Judged'
  <2> SUFFICES ASSUME Judged, UNCHANGED asked PROVE Judged'
    BY AskedFrame
  <2> QED BY DEF Judged, RuleStandsAlone, NoScanInVain, PreviewIsTrue, EndedScansStartNoWave
<1> QED BY <1>1, <1>2, PTL DEF DecisionSpec

(* Of a rules file that has passed the gate, whatever its rules are, however *)
(* it travels and whatever the agent lacks, each rule that the agent can run *)
(* compiles, and only what it lacks is booked as skipped                     *)
(* (_compile_yara_rules of the XSIAM edition).                               *)
THEOREM RulesStandAlone == DecisionSpec => []RuleStandsAlone
<1>1. Judged => RuleStandsAlone
  BY DEF Judged
<1> QED BY <1>1, JudgedForGood, PTL

(* A target that is excluded is named on the result line, and below one that *)
(* is named only carve-outs are scanned, for whatever lists, names and       *)
(* fragments (_is_special_file, scan_system).                                *)
THEOREM ExcludedTargetsAreTold == DecisionSpec => []ExcludedTargetIsTold
<1>1. Judged => ExcludedTargetIsTold
  BY DEF Judged, ExcludedTargetIsTold
<1> QED BY <1>1, JudgedForGood, PTL

(* What force_scan_fragments saves is scanned, however deep (scan_system,    *)
(* _is_special_file).                                                        *)
THEOREM CarveOutsAreScanned == DecisionSpec => []CarveOutIsScanned
<1>1. Judged => CarveOutIsScanned
  BY DEF Judged, CarveOutIsScanned
<1> QED BY <1>1, JudgedForGood, PTL

(* files_scanned and files_skipped add up to the files below the targets,    *)
(* those behind links at most left out (scan_system, _process_file_worker).  *)
THEOREM WalksReconcile == DecisionSpec => []WalkIsInTheBooks
<1>1. Judged => WalkIsInTheBooks
  BY DEF Judged, WalkIsInTheBooks
<1> QED BY <1>1, JudgedForGood, PTL

(* Whatever options a scan is started with, it scans only if findings can be *)
(* delivered or were said to stay here (main, the options' parsing).         *)
THEOREM StartsNeverInVain == DecisionSpec => []NoScanInVain
<1>1. Judged => NoScanInVain
  BY DEF Judged
<1> QED BY <1>1, JudgedForGood, PTL

(* Preview, status and Apply agree on which rulesets are ready, and what one *)
(* of them calls pending does get ready (YaraConsolidateSummary's preview,   *)
(* YaraConsolidateApply's gate).                                             *)
THEOREM PreviewIsApplysGate == DecisionSpec => []PreviewIsTrue
<1>1. Judged => PreviewIsTrue
  BY DEF Judged
<1> QED BY <1>1, JudgedForGood, PTL

(* A wave is called started, or dead, by the hosts that report since the     *)
(* dispatch: a scan that had ended counts for nothing, one that goes on from *)
(* before does, and a new one is missed only where the clock is behind       *)
(* (YaraScanVerify).                                                         *)
THEOREM WavesAreJudgedByTheLiving == DecisionSpec => []EndedScansStartNoWave
<1>1. Judged => EndedScansStartNoWave
  BY DEF Judged
<1> QED BY <1>1, JudgedForGood, PTL

(* What a scan loads from the cache is what compiling would give it now,     *)
(* after any number of scans, upgrades, crashes and rotten files             *)
(* (_load_or_compile_rules, _save_rule_cache).                               *)
THEOREM CacheIsAlwaysCompile == DecisionSpec => []CacheIsCompile
<1>1. DecisionInit => CacheInv
  BY DEF DecisionInit, LoadingInit, CacheInv, CacheIsCompile
<1>2. CacheInv /\ [DecisionNext]_decided => CacheInv'
  BY CacheStep
<1>3. CacheInv => CacheIsCompile
  BY DEF CacheInv
<1> QED BY <1>1, <1>2, <1>3, PTL DEF DecisionSpec

(* The governor slows a scan down further only for what the scan itself uses *)
(* (CpuGovernor.update), whatever its settings and the host's load.          *)
THEOREM SlowedOnlyForCause == DecisionSpec => OnlySlowedForCause
<1>1. DecisionInit => GovernorInv
  BY GovernorAssumption DEF DecisionInit, GovernorInit, GovernorInv
<1>2. GovernorInv /\ [DecisionNext]_decided => GovernorInv' /\ [SlowedForCause]_governor
  BY GovernorStep
<1> QED BY <1>1, <1>2, PTL DEF DecisionSpec, OnlySlowedForCause
===============================================================================
