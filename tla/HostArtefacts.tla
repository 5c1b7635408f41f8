---------------------------- MODULE HostArtefacts ----------------------------
(***************************************************************************)
(* What scans leave on the host they run on: the alert texts, the evidence  *)
(* ZIP, logs and summaries; who writes them, renames them and removes them. *)
(* YaraScanner._write_alerts, EvidenceCollector, CleanupManager, the script *)
(* it schedules, HostCleanup, and the part of run() / main() that calls     *)
(* them, in either edition.                                                 *)
(*                                                                          *)
(* One scan runs after another.  Beside them act the users of the host, who *)
(* delete files, and the scheduler, which runs the rename script when it is *)
(* due, in whatever scan that falls.                                        *)
(***************************************************************************)
EXTENDS Naturals, FiniteSets

CONSTANTS
    Rules, Paths,
    Content,      \* [Paths -> contents]: two paths may hold the same bytes
    Policies,     \* [mode, keep, copies, channel]: how the scans are configured
    KeepScans,    \* LOG_KEEP_SCANS
    RunIds,       \* time stamps of runs; the clock of a host may be set back
    MaxFaults     \* files that vanish or cannot be written, crashes, boots

ASSUME ArtefactsAssumption ==
    /\ IsFiniteSet(RunIds) /\ RunIds \subseteq Nat \ {0}
    /\ Content \in [Paths -> Paths] /\ KeepScans \in Nat /\ MaxFaults \in Nat

VARIABLES
    edition, system, policy,
    pc,         \* where the run is: "idle" between two
    run, used,  \* its stamp (the last one's when idle), and those given
    outcome,    \* of the run
    todo,       \* files not yet scanned
    gone,       \* files deleted since the scan began
    found,      \* <<rule, file>> findings queued as alerts
    rows,       \* <<file, rules>> rows queued for the dataset
    matched,    \* EvidenceCollector.matched_files
    hashed,     \* file_hashes
    texts,      \* <<rule, file, run>> entries of <rule>.txt in alert_dir
    alerts,     \* entries of <rule>.alert
    zips,       \* stamp -> evidence ZIP
    tried,      \* files the ZIP loop has been at
    packaged,   \* packaged_hashes
    listing,    \* .txt files listed for the ZIP and not yet added
    due,        \* the rename script is to run
    atBoot,     \* a unit runs it at every boot
    logs, summaries,
    shortfall,  \* findings are known not to have been delivered
    muddled,    \* alert_dir could not be emptied, or was renamed under this run
    faults      \* bound

scan == <<todo, found, rows, matched, hashed>>
zipping == <<zips, tried, packaged, listing>>
dir == <<texts, alerts>>
timer == <<due, atBoot>>
books == <<logs, summaries>>
fixed == <<edition, system, policy>>
vars == <<fixed, pc, run, used, outcome, gone, scan, dir, zipping, timer, books,
          shortfall, muddled, faults>>

Entries == Rules \X Paths \X RunIds
NamedBy(entries) == {f[1] : f \in entries}
Fault == faults < MaxFaults /\ faults' = faults + 1
At(here, there) == pc = here /\ pc' = there

Init ==
    /\ policy \in Policies
    /\ \/ edition = "xdr" /\ system \in {"Windows", "Linux", "Darwin"}
       \/ edition = "xsiam" /\ system \in {"Windows", "Linux"}
    /\ pc = "idle" /\ run = 0 /\ used = {} /\ outcome = "none" /\ todo = Paths /\ gone = {}
    /\ found = {} /\ rows = {} /\ matched = {} /\ hashed = {}
    /\ texts = {} /\ alerts = {} /\ zips = <<>> /\ tried = {} /\ packaged = {} /\ listing = {}
    /\ due = FALSE /\ atBoot = FALSE /\ logs = {} /\ summaries = {}
    /\ shortfall = FALSE /\ muddled = FALSE /\ faults = 0

-----------------------------------------------------------------------------
(* _prune_old_scan_logs: the newest LOG_KEEP_SCANS, at least one, and the   *)
(* current.                                                                  *)
Kept(ids, own) ==
    {own} \cup
    {i \in ids : Cardinality({j \in ids : j > i}) < IF KeepScans > 1 THEN KeepScans ELSE 1}

PruneLogs(own) ==
    LET kept == Kept(logs \cup summaries \cup {own}, own)
    IN logs' = (logs \cup {own}) \cap kept /\ summaries' = summaries \cap kept

(* Seeded fault: the texts of the scan before are kept with its logs.       *)
KeepsTexts(own) ==
    /\ logs' = logs \cup {own} /\ zips' = <<>> /\ muddled' = FALSE
    /\ UNCHANGED <<summaries, dir, faults>>
(* initial_cleanup: alert_dir, where an entry in use ends the removal of the *)
(* directory, and evidence_dir; then the logs.                               *)
InitialCleanup(own) ==
    /\ PruneLogs(own)
    /\ \/ /\ texts' = {} /\ alerts' = {} /\ zips' = <<>> /\ muddled' = FALSE
          /\ UNCHANGED faults
       \/ /\ \E left \in SUBSET NamedBy(texts \cup alerts) \ {{}} :
                /\ texts' = {f \in texts : f[1] \in left}
                /\ alerts' = {f \in alerts : f[1] \in left}
          /\ zips' = <<>> /\ muddled' = TRUE /\ Fault

(* run() refuses to scan without credentials to deliver with.  The XSIAM    *)
(* main() has cleaned up by then.                                            *)
Refuse(own) ==
    IF edition = "xsiam" THEN InitialCleanup(own)
    ELSE logs' = logs \cup {own} /\ UNCHANGED <<summaries, dir, zips, muddled, faults>>

Refused ==
    /\ At("idle", "idle") /\ policy.channel
    /\ \E own \in RunIds \ used : Refuse(own) /\ used' = used \cup {own}
    /\ UNCHANGED <<fixed, run, outcome, gone, scan, tried, packaged, listing, timer, shortfall>>

Start ==
    /\ At("idle", "scanning")
    /\ \E own \in RunIds \ used :
          InitialCleanup(own) /\ run' = own /\ used' = used \cup {own}
    /\ outcome' = "none" /\ todo' = Paths /\ gone' = {}
    /\ found' = {} /\ rows' = {} /\ matched' = {} /\ hashed' = {}
    /\ tried' = {} /\ packaged' = {} /\ listing' = {} /\ shortfall' = FALSE
    /\ UNCHANGED <<fixed, timer>>

(* Seeded fault: the row is queued after the loop.                          *)
RowIfAll(p, hits, done) == IF done = hits THEN {<<p, done>>} ELSE {}
(* add_file_matches in the finally: the file's row, with the rules met.     *)
RowOf(p, hits, done) == IF done # {} THEN {<<p, done>>} ELSE {}

(* Rule by rule an alert and an entry in the rule's text, which may not be  *)
(* written.                                                                  *)
Report(p, done, written) ==
    /\ found' = found \cup {<<r, p>> : r \in done}
    /\ texts' = texts \cup {<<r, p, run>> : r \in written}

(* _write_alerts of a matching file; if the file vanishes on the way it     *)
(* raises, and the file is not added to the evidence.                        *)
Match(p) ==
    /\ pc = "scanning" /\ p \in todo \ gone /\ todo' = todo \ {p}
    /\ \E hits \in SUBSET Rules \ {{}}, done, written \in SUBSET Rules, hash \in BOOLEAN :
          /\ written \subseteq done /\ done \subseteq hits /\ (~hash => written = hits)
          /\ IF written = hits /\ hash THEN UNCHANGED faults ELSE Fault
          /\ gone' = IF done # hits \/ ~hash THEN gone \cup {p} ELSE gone
          /\ Report(p, done, written)
          /\ rows' = IF edition = "xdr" THEN rows \cup RowOf(p, hits, done) ELSE rows
          /\ matched' = IF done = hits THEN matched \cup {p} ELSE matched
          /\ hashed' = IF done = hits /\ hash THEN hashed \cup {p} ELSE hashed
    /\ UNCHANGED <<fixed, pc, run, used, outcome, alerts, zipping, timer, books, shortfall, muddled>>

Clean(p) ==
    /\ pc = "scanning" /\ p \in todo /\ todo' = todo \ {p}
    /\ UNCHANGED <<fixed, pc, run, used, outcome, gone, found, rows, matched, hashed, dir,
                   zipping, timer, books, shortfall, muddled, faults>>

(* scan_system returns, or raises.  A cancelled XDR scan collects nothing.  *)
EndScan ==
    /\ pc = "scanning"
    /\ \E o \in {"completed", "cancelled", "failed", "crashed"} :
          /\ o = "completed" => todo = {}
          /\ outcome' = o
          /\ pc' = IF o = "crashed" \/ (o = "cancelled" /\ edition = "xdr") THEN "tail" ELSE "mapping"
    /\ UNCHANGED <<fixed, run, used, gone, scan, dir, zipping, timer, books, shortfall, muddled, faults>>

(* _process_matched_files: what still exists is listed and hashed.  The ZIP *)
(* is opened next.                                                           *)
MapFiles ==
    /\ At("mapping", "copying")
    /\ hashed' = hashed \cup (matched \ gone)
    /\ zips' = [i \in DOMAIN zips \cup {run} |->
                   [texts |-> {}, copies |-> {}, listed |-> matched \ gone, mapped |-> FALSE]]
    /\ UNCHANGED <<fixed, run, used, outcome, gone, todo, found, rows, matched, dir, tried,
                   packaged, listing, timer, books, shortfall, muddled, faults>>

(* Seeded fault: a content counts as packaged before it is written.         *)
MarkFirst(p) == packaged' = packaged \cup {Content[p]}
MarkPackaged(p) == packaged' = packaged \cup ({Content[p]} \ {Content[q] : q \in gone \cap {p}})

CopyFile(p) ==
    /\ pc = "copying" /\ policy.copies /\ p \in hashed \ tried /\ tried' = tried \cup {p}
    /\ IF Content[p] \in packaged THEN UNCHANGED <<packaged, zips>>
       ELSE /\ MarkPackaged(p)
            /\ zips' = IF p \in gone THEN zips
                       ELSE [zips EXCEPT ![run].copies = @ \cup {Content[p]}]
    /\ UNCHANGED <<fixed, pc, run, used, outcome, gone, scan, dir, listing, timer, books,
                   shortfall, muddled, faults>>

ListTexts ==
    /\ At("copying", "zipping") /\ (policy.copies => hashed \subseteq tried)
    /\ listing' = NamedBy(texts)
    /\ UNCHANGED <<fixed, run, used, outcome, gone, scan, dir, zips, tried, packaged, timer,
                   books, shortfall, muddled, faults>>

(* Who comes after the evidence: a failed scan schedules no rename. *)
Collected == pc' = IF outcome = "failed" THEN "tail" ELSE "scheduling"

AddText(r) ==
    /\ pc = "zipping" /\ r \in listing
    /\ IF r \in NamedBy(texts)
       THEN /\ zips' = [zips EXCEPT ![run].texts = @ \cup {f \in texts : f[1] = r}]
            /\ listing' = listing \ {r} /\ UNCHANGED pc
       ELSE Collected /\ listing' = {} /\ UNCHANGED zips     \* renamed: the collection raises
    /\ UNCHANGED <<fixed, run, used, outcome, gone, scan, dir, tried, packaged, timer, books,
                   shortfall, muddled, faults>>

AddMapping ==
    /\ pc = "zipping" /\ listing = {} /\ Collected
    /\ zips' = [zips EXCEPT ![run].mapped = TRUE]
    /\ UNCHANGED <<fixed, run, used, outcome, gone, scan, dir, tried, packaged, listing, timer,
                   books, shortfall, muddled, faults>>

-----------------------------------------------------------------------------
(* The script: ren does not replace a file, mv does.                        *)
Rename ==
    LET moved == IF system = "Windows" THEN NamedBy(texts) \ NamedBy(alerts) ELSE NamedBy(texts)
    IN  /\ texts' = {f \in texts : f[1] \notin moved}
        /\ alerts' = {f \in alerts : f[1] \notin moved} \cup {f \in texts : f[1] \in moved}

(* schedule_final_cleanup: systemctl start waits for the script, schtasks   *)
(* has it run a minute later, launchctl as soon as it likes; without the    *)
(* rights for it nothing is scheduled.                                       *)
Schedule ==
    /\ At("scheduling", "tail")
    /\ \/ texts # {} /\ system = "Linux" /\ Rename /\ atBoot' = TRUE /\ UNCHANGED due
       \/ texts # {} /\ system # "Linux" /\ due' = TRUE /\ UNCHANGED dir
          /\ atBoot' = (atBoot \/ system = "Darwin")
       \/ UNCHANGED <<dir, timer>>
    /\ UNCHANGED <<fixed, run, used, outcome, gone, scan, zipping, books, shortfall, muddled, faults>>

RunScript ==
    /\ due /\ due' = FALSE /\ Rename
    /\ muddled' = (muddled \/ pc # "idle")
    /\ UNCHANGED <<fixed, pc, run, used, outcome, gone, scan, zipping, atBoot, books, shortfall, faults>>

(* write_scan_summary: whole, or not at all. *)
SummaryFile ==
    \/ summaries' = summaries \cup {run} /\ UNCHANGED faults
    \/ UNCHANGED summaries /\ Fault

(* The uploaders are drained, then the summary is written: both editions.   *)
WriteSummary ==
    /\ At("tail", IF edition = "xdr" /\ outcome = "completed" THEN "cleanup" ELSE "idle")
    /\ \E lost \in BOOLEAN : shortfall' = (lost /\ found # {} /\ policy.channel)
    /\ SummaryFile
    /\ UNCHANGED <<fixed, run, used, outcome, gone, scan, dir, zipping, timer, logs, muddled>>

(* Seeded fault: no channel is taken for no shortfall.                      *)
NoneIsEnough ==
    \/ policy.mode = "always"
    \/ policy.mode = "on_delivery" /\ ~shortfall
ShouldRun ==
    \/ policy.mode = "always"
    \/ policy.mode = "on_delivery" /\ policy.channel /\ ~shortfall

(* HostCleanup.run: only if the summary is there.                           *)
HostCleanup ==
    /\ At("cleanup", "idle")
    /\ IF ShouldRun /\ run \in summaries
       THEN /\ logs' = logs \ {run}
            /\ summaries' = IF policy.keep = "nothing" THEN summaries \ {run} ELSE summaries
            /\ texts' = {} /\ alerts' = {}
            /\ zips' = IF policy.keep = "evidence" THEN zips ELSE <<>>
       ELSE UNCHANGED <<books, dir, zips>>
    /\ UNCHANGED <<fixed, run, used, outcome, gone, scan, tried, packaged, listing, timer,
                   shortfall, muddled, faults>>

Vanish(p) ==
    /\ pc # "idle" /\ p \notin gone /\ gone' = gone \cup {p} /\ Fault
    /\ UNCHANGED <<fixed, pc, run, used, outcome, scan, dir, zipping, timer, books, shortfall, muddled>>

(* The process is killed, or the host goes down with it; a host that comes  *)
(* back runs the script.                                                     *)
Crash ==
    /\ pc # "idle" /\ pc' = "idle" /\ outcome' = "crashed" /\ Fault
    /\ due' \in {due, atBoot}
    /\ UNCHANGED <<fixed, run, used, gone, scan, dir, zipping, atBoot, books, shortfall, muddled>>

Boot ==
    /\ pc = "idle" /\ atBoot /\ ~due /\ due' = TRUE /\ Fault
    /\ UNCHANGED <<fixed, pc, run, used, outcome, gone, scan, dir, zipping, atBoot, books,
                   shortfall, muddled>>

Next ==
    \/ Refused \/ Start \/ EndScan \/ MapFiles \/ ListTexts \/ AddMapping
    \/ Schedule \/ RunScript \/ WriteSummary \/ HostCleanup \/ Crash \/ Boot
    \/ \E p \in Paths : Match(p) \/ Clean(p) \/ CopyFile(p) \/ Vanish(p)
    \/ \E r \in Rules : AddText(r)

Spec == Init /\ [][Next]_vars

-----------------------------------------------------------------------------
TypeOK ==
    /\ texts \cup alerts \subseteq Entries /\ DOMAIN zips \subseteq RunIds
    /\ found \subseteq Rules \X Paths /\ rows \subseteq Paths \X SUBSET Rules
    /\ matched \cup hashed \cup tried \cup gone \cup todo \subseteq Paths
    /\ logs \cup summaries \subseteq used /\ used \subseteq RunIds /\ run \in used \cup {0}
    /\ packaged \subseteq Paths /\ listing \subseteq Rules

(* The rule texts a ZIP packages are of the run it is named after, and the  *)
(* ZIP of an earlier run is not left beside it (initial_cleanup, before     *)
(* collect_evidence).                                                        *)
EvidenceIsOwn ==
    /\ DOMAIN zips \subseteq {run}
    /\ ~muddled => \A i \in DOMAIN zips : \A f \in zips[i].texts : f[3] = i

(* Once collected, the evidence is whole, and the run's own: every text of  *)
(* the run; every file these name that still exists, in file_mapping.txt;   *)
(* and its content, under whichever path it could be read ("another path    *)
(* with the same content still deserves a try", _create_evidence_zip).       *)
CollectedNow == pc \in {"scheduling", "tail"} /\ ~muddled /\ run \in DOMAIN zips
EvidenceIsComplete ==
    /\ EvidenceIsOwn
    /\ CollectedNow =>
            LET z == zips[run] there == {f[2] : f \in z.texts} \ gone
            IN  /\ z.mapped /\ z.texts = texts \cup alerts
                /\ there \subseteq z.listed
                /\ policy.copies => {Content[p] : p \in there} \subseteq z.copies

(* No finding is alerted without being in its file's row, not even when the *)
(* file vanishes between two of its rules ("must not cost the detail        *)
(* already gathered for the earlier rules", _write_alerts); one row a file.  *)
EveryAlertHasItsRow ==
    edition = "xdr" =>
        /\ \A f \in found : \E w \in rows : w[1] = f[2] /\ f[1] \in w[2]
        /\ \A v, w \in rows : v[1] = w[1] => v = w

(* What was found stays to be read on the host until another scan begins or *)
(* all of it was delivered, its summary kept (HostCleanup): a run that is    *)
(* refused removes nothing (xdr).                                            *)
Undelivered == shortfall \/ (found # {} /\ ~policy.channel)
RecordStays ==
    \A f \in texts \cup alerts :
        f \in texts' \cup alerts' \/ muddled' \/ muddled
            \/ (pc = "idle" /\ used' # used /\ (edition = "xdr" => pc' = "scanning"))
            \/ (pc = "cleanup" /\ run \in summaries /\ (policy.mode = "always" \/ ~Undelivered))

(* A run's logs and summary are removed only as one of the older ones, by a *)
(* later start, and never that start's own ("Never touches a DIFFERENT run's *)
(* logs", HostCleanup.run; keep_run_ids.add, _prune_old_scan_logs).          *)
LogsOutlive ==
    /\ \A i \in used' \ used : i \in logs'
    /\ \A i \in (logs \cup summaries) \ (logs' \cup summaries') :
          \/ pc = "cleanup" /\ i = run
          \/ Cardinality({j \in logs \cup summaries \cup (used' \ used) : j > i}) >= KeepScans
OnlyExpectedRemoved == [][RecordStays /\ LogsOutlive]_vars
=============================================================================
