# Formal verification of yarascanner

TLA+ models of yarascanner: the scan process and what it leaves on the host, the uploaders, the
tools that consolidate, summarise and clean up datasets on the tenant, and the decisions taken
before and between scans. TLC checks the models on small instances; TLAPS proves their safety
properties for every instance.

Files: `X.tla` is a model, `MCX.tla` its instances, `MCX*.cfg` the TLC runs, `XProofs.tla` the
proofs (`ConsolidationProofs` also holds those of the lock, `HostProofs` those of `HostArtefacts` and
`Decisions`). `PROJECT.json` maps every definition to the lines it models and lists components, runs,
mutants, findings, hazards and theorems. Definitions marked *seeded fault* are the mutants: plausible
bugs that the properties catch when they take the place of the definition next to them.

    tlc -config MCConsolidation.cfg MCConsolidation      # one run
    tlapm ConsolidationProofs.tla                        # its proofs

In this text C is `xdr/xdr_consolidate.py`, S `xdr/xdr_yara_scanner.py`, X
`xsiam/xsiam_yara_scanner.py`, and AP, SU, YC, CU, VE the scripts `YaraConsolidateApply`,
`YaraConsolidateSummary`, `YaraConsolidateStatus`, `YaraCleanup` and `YaraScanVerify` of the pack
`xdr/Packs/YaraDatasetManagement`; `S:4836` is a line.

## 1. The system

A scanner runs on each endpoint, started by Action Center. The XDR edition writes findings
("matches") and lifecycle rows ("scans") into lookup datasets of its own, because `add_data` loses
rows when two writers share a dataset, and raises alerts; the XSIAM edition posts to HTTP collectors.
Server-side tools then fold the per-host *shards* into one dataset per scan (v3) or per ruleset (v4),
summarise them, and clean old datasets up.

| part | source | state | operations | hard behaviour | module |
|---|---|---|---|---|---|
| Per-scan pass | C | the tenant's datasets; per run: counts, memberships, verified scans | gate, copy, count, strip, delete | hosts write meanwhile; killed at any step; calls fail; rows skipped silently | `Consolidation` |
| Overlap lock | C:111-181 | a dataset and its one row | acquire, take over, release | create, then row; staleness; release by one who lost it | `ConsolidationLock` |
| Lookup uploader | S `LookupDatasetUploader` | queue, a batch per dataset, counters | enqueue, worker, send, stop | stop against worker; retry of an accepted batch; cleanup that trusts the counters | `LookupUploader` |
| Other uploaders | S, X `ResultsUploader`, X `WebhookUploader`, `LogManager` | queue, batch, circuit, books | add, cap, send, retry, requeue, stop | storms; requeuing against the wait of stop; a request that outlives it | `Delivery` |
| Scan process | S, X `YaraScanner`, `run`, `main` | flags, queue, threads, statuses | walk, scan, watch, beat, finish | cancel against completion; late heartbeat; dying and outliving workers | `ScanRun` |
| Full consolidation, matches flush | AP, S `_flush_stale_matches` | permanent host datasets, a target per ruleset | flush, write; read, regroup, verify, retire | each host overwrites its dataset with its next scan | `FullConsolidation` |
| Summary | SU | a summary target | read, clear, refresh, write | passes that die between clearing and writing | `Summary` |
| Retention, wipe | CU, `YaraWipeAllDatasets.py` | selection of datasets, lock | select, query, delete | a dataset judged quiet and merged is deleted later | `DatasetNames`, `Retention` |
| Artefacts | S, X | alert texts, evidence ZIP, logs, summaries | write, collect, rename, prune, clean up | files that vanish, crashes, the rename task | `HostArtefacts` |
| Rules | S, X, `encode_rules.py`, two pack scripts | rules file, compiled set, cache | gate, transport, cut, compile, cache | one bad rule; upgrades; torn files | `RulePack`, `RuleLoading` |
| Scan scope | S, X | skip lists, carve-outs, targets | decide, walk, count | exceptions below exclusions | `SkipRules` |
| Start-up, governor | S, X | settings; sleep ratio | parse, override, refuse; sample | four places a setting comes from; a target share below zero | `ScanOptions`, `Governor` |
| Previews | YC, VE | none | judge readiness, judge a wave | the gate is written twice; clocks ahead | `Readiness` |
| CLI, reports, Action Center client, build tools | see `PROJECT.json` | | | read-only, I/O, or earlier copies | |

How they meet. A scanner and a server-side pass meet only in the tenant, through dataset names and
row columns (`scan_id`, `event_timestamp_ms`, `status`), with no lock between them: a pass protects
itself by reading lifecycle rows and waiting for a quiet period. Passes are kept apart by the overlap
lock. Within a scanner the threads of `ScanRun` feed the queues of `LookupUploader` and `Delivery`,
and the books of these decide in `HostArtefacts` whether the local record may go.

What makes each part correct: no accepted row is lost; a running scan is not touched; each row
reaches its target in the end, and once; every queued item is accounted for exactly once; the
statuses of one scan agree; what is removed had to be; and what the operator is told is what happens.

## 2. Structure of the development

| module | composes with | run | proofs |
|---|---|---|---|
| `Consolidation` | implements `FindingsStore` | `pass_safety`, `pass_live` | `ConsolidationProofs` |
| `ConsolidationLock` | | `lock_alone` | `ConsolidationProofs` |
| `LookupUploader` | | `upload_pass` | `LookupUploaderProofs` |
| `ScanRun` | | `scan_pass` | `ScanRunProofs` |
| `Delivery` | | `delivery` | `DeliveryProofs` |
| `FullConsolidation` | | `full`, `full_race` | `FullConsolidationProofs` |
| `Retention` | extends `DatasetNames` | `retention` | `RetentionProofs` |
| `Summary` | | `summary` | `SummaryProofs` |
| `RuleLoading` (extends `RulePack`), `SkipRules`, `ScanOptions`, `Governor`, `Readiness` | `Decisions` | `decisions` | `HostProofs` |
| `HostArtefacts` | | `artefacts` | `HostProofs` |

Only components whose interleaving matters are composed into one state machine: the merge, its hosts
and a wipe in `Retention`, the hosts and the pass in `FullConsolidation`, the rename script and the
scans in `HostArtefacts`. Elsewhere a neighbour is its promise: the merge is one step for
`Retention`, the lock is "one pass at a time" for `Consolidation` and `FullConsolidation`, delivery is
one Boolean for `HostArtefacts`.

One run is expected to fail, `full_race`: it states a comment of the code that the code does not keep.
Where a passing run holds only because of the value of a constant, the text says which value breaks
it; these are facts about the code as well.

## 3. `Consolidation`

### State

A row belongs to one scan and one shard and is in at most two places, so the tenant is two sets:
`held` (rows in their shard) and `merged` (rows in their scan's target). `live` is the set of shards
that exist; `sent` remembers every row the tenant accepted, `late` those that came once the gate took
their group for over, and `overrun` those a deleted shard took along without the pass having counted
them. A dataset's content is derived:
`ShardRows(d)`, `Target(k, s)`. A scan id carries its host's name (S:3103), so a scan has one host,
whose progress is `phase` (running, draining, ended).

Time is the age *class* of the newest row of each (scan, kind): below the quiet period, past it,
past the abandoned cutoff (`silence`). This is all `_gate_scan` distinguishes; the clock arithmetic
of `_newest_ms`, its skew guards and its week-long backstop are not in this module.

The rest is the local state of `run_consolidation`: the lifecycle statuses read (`terminal`), the
rows counted (`snap`), the scans the gate lets through (`passed`), the loop (`todo`, `cur`, `srcs`,
`pending`), `verified` and `toDelete`. All of it is forgotten when the call returns, raises or is
killed; only the tenant survives.

### Actions

| action | code |
|---|---|
| `HostWrite`, `DrainEnds` | the scanner's `_send_batch` and `stop`: the terminal row is sent inline, *before* the uploaders drain |
| `Age` | time without a new row |
| `StartPass` | `consolidate_all`: with a cap, the first `MaxScans` eligible scans in sorted order |
| `ReadLifecycle`, `Snapshot` | the lifecycle rows, then the counts and ages; two reads for matches, one for lifecycle shards |
| `SkipScan` | deferred by the gate or above the row ceiling |
| `AlreadyMerged` | PATH A and A2: the target already counts as many rows as the sources, or more |
| `Mismatch` | a target with some of the rows: reported, not touched |
| `StartWrite`, `Pull`, `AddBatch`, `CountTarget` | the copy, source by source and batch by batch, and PATH B |
| `StripSource`, `CleanupDone` | `_cleanup_verified_scan_rows` (matches only); one call may fail |
| `StartDelete`, `DeleteShard` | the deletion pass; each delete may fail |
| `EndKind`, `RunRaises`, `Abort` | the next kind; a raising call reported by the CLI, which goes on; the 900 s kill |

What the tenant does without saying so is a choice: `add_data` skips the rows in `Skippable`; a pull
returns any `PullLimit` of the rows.

`build_terminal_map` keeps one entry per (scan, host) and fills it shard by shard in listing order:
with rows in two lifecycle shards the last one visited would decide. A scanner names its lifecycle
dataset once, when it starts (S:4297-4312), so its scan has one; `TerminalMaps`, the set of the
results the listing orders can give, covers both.

### Environment

Nothing stops a host from writing during a pass, and nothing does in the model: any running or
draining scan may write to any of its shards at any moment, one the pass has counted and not seen it
in included. Only two arrivals are ruled out: a scan silent past the abandoned cutoff writes no more
(cutoff 24 h, script timeout 6 h), and no age class is crossed during a drain (at most 600 s, below the
quiet period of 900 s).

The code takes two things for granted that hosts do not keep to, and the properties say what each
costs instead of excluding it:

* *Late rows.* The terminal row is sent ahead of the drain (C:1039). A matches shard that was quiet
  before it passes the gate at once (`Closed`), although the drain may bring rows (`late`). Such a row
  is stripped without having been copied (C:808); or it is copied, and from then on equal counts no
  longer mean equal sets (`Mixed`). The header says the quiet period is there "so the uploader has
  finished draining" (C:24-25).
* *Overrun rows.* A host that starts its next scan writes into a shard that the pass has counted; the
  deletion pass goes by the membership counted then (C:818) and deletes the shard with those rows in it
  (`overrun`). C:705 says "only once EVERY scan in it has been consolidated".

`NoRowLost` says that nothing else is lost. `RunningScanUntouched` says that a running scan loses no
row that the pass had counted, and that none of its rows is copied. `FindingsStore`, the abstract
store, does not promise these two kinds of row either; everything else it does.

### Runs

| run | question |
|---|---|
| `pass_safety` | nothing is lost (`NoRowLost`), a running scan is not touched (`RunningScanUntouched`), and the pass implements `FindingsStore` (`ImplementsStore`) |
| `pass_live` | every row is delivered (`EventuallyDelivered`), every shard removed (`ShardsEventuallyGone`) |

What else the code does not give shows by one constant of `MCConsolidationLive.cfg`:

* `MaxScans = 1` violates `EventuallyDelivered`: the cap takes the first scans of a sorted list (C:914),
  and a scan that is done but whose shard cannot go yet is taken again.
* `MaxAborts = 1` violates it as well: a half-built target is reported as a mismatch and never
  redone, though `test_writer_discipline_and_recovery.py:140` keeps the sources "for a later pass to
  redo the merge from".

Two exemptions of the liveness properties are facts of the same kind. Both are asked of runs without
late rows only, since a group with a late row may block the cap for ever. And a shard whose *delete*
fails after its strip succeeded stays for ever, empty: a shard is a candidate for deletion only while
the snapshot finds rows in it. So with a failure (`MaxFailures = 1` in that run) `ShardsEventuallyGone`
promises that every row has left the shards, and without one that the shards are gone as well.

The tests do not reach these because they drive one pass at a time over datasets that do not change,
and seed each scan with shards of its own.

Bounds. `MCConsolidation`: two scans share a matches shard and a lifecycle shard, and the first has a
second matches shard; four rows, one of which `add_data` skips; batches of one row, so that a kill
falls between two batches; one kill or raise, one failed call. That is enough for each way a pass
can leave a target or a source half-done and a later pass to meet it, with a second scan in the same
shard. `Small*` drops the second matches shard, for liveness.

Fairness (`FairSpec`): passes keep being scheduled and go on (`WF` of the pass, the scheduled Job);
time passes (`WF` of each `Age`); a drain ends (its budget is bounded). No fairness on hosts sending
rows, on kills or on failures.

### Proofs (`ConsolidationProofs`)

For every finite set of scans and rows, any shards, any skipped rows, batch size, pull limit,
ceiling, cap, any bound on kills and failures, and hosts that write whenever they like, assuming
`ConstantsAssumption` only:

| theorem | statement |
|---|---|
| `Inductive` | `Spec => []IInv` |
| `TypeCorrect`, `NothingLost`, `VerifiedComplete` | `TypeOK`, `NoRowLost`, and that a verified scan is whole in its target (`VerifiedIsComplete`) |
| `RunningProtected` | `RunningScanUntouched` |
| `Implements` | `Spec => Store!Spec` |

`NoRowLost` is not inductive: a strip removes rows because a *count* agreed earlier. The invariant
that carries it is `OneSideWhole`: at every moment, the punctual rows of a (kind, scan) are all in the
shards or all in the target, or a late one was copied. A copy is only started while the shards are
whole, and rows are only removed once the target is. Equal counts then prove equal sets, because the
target never holds a row that was not counted (`CardinalityComplete`), and a larger target count
(PATH A2) can only mean that the target is the whole side. What arrives in a group after the gate
has let it through is late, by the definition of `Closed`; `SnapshotInv` says so of every row the
snapshot does not have, and that the groups the gate holds back have no target yet. With
`ProgressInv` it says what the run's stale reads are still good for.

### Not modelled here

Two passes at once (section 4), clock skew, several schema versions, row coercion (a row that cannot
be coerced is skippable), the Action Center state (no shipped caller passes `action_state_for`),
dry runs other than the eligibility check, and the non-atomicity of listing datasets.

## 4. `ConsolidationLock`

### State and actions

The lock is a dataset that exists or not (`exists`) and its `started_ms` rows, kept as their ages
(`stamps`; a set, because nothing prevents two). A runner has a program counter (`where`) and an `age` since
it read `now_ms`. The row carries its writer's `now_ms`, so it is written with its writer's age.

| action | code |
|---|---|
| `Ask`, `CreateFresh`, `CreateFinds` | entry; `create_lookup_dataset` tells fresh from existing |
| `StandDown`, `ReadRaises`, `TakeOver` | `_read_lock` and the two tests of its result |
| `DeleteStale`, `Recreate`, `Stamp`, `StampRaises` | take over; the reply of the second create is not looked at, so an existing marker is kept |
| `Release` | deletes by name, whoever's marker it is |
| `Delete` | `delete_dataset`: "not found" is success, and a call whose reply was lost is sent again |
| `Die` | killed, or a call of acquire or release raised: `consolidate_all` acquires outside its `try` |
| `Tick` | time; nobody is inside acquire, and no `Bounded` runner works, past the task timeout |

The callers differ in constants: `Careful` runners pass `unreadable_is_held=True` (the v4 pack's
merge, prune and wipe), the others do not (`consolidate_all`, the CLI); the prune's `StaleAfter` is
longer; the CLI is not `Bounded`. Two schedules are told apart by the constant variable `alone`: TRUE
says that two runners never overlap *inside* acquire (seconds), which a Job that starts no second
instance gives; their *passes* (minutes) may.

### Run

`lock_alone` takes both schedules. `MutualExclusion`: in a `SoundDeployment` no two runners write at
once. `LockRecovers`: somebody gets to work again after every death, whatever the schedule.

`acquire_consolidation_lock` calls itself best-effort; the model says what that means.
`SoundDeployment` requires that nobody outlives the timeout, that no delete is repeated, and that
acquisitions do not overlap or else nobody dies and everybody is careful. Each is needed:

* overlapping acquisitions with a death: two runners find one dead marker stale; the second deletes
  the first one's fresh marker. `unreadable_is_held` does not help.
* a run beyond the timeout (the CLI has none) loses its marker while it works.
  `Operations_Deep_Dive.md:603` knows this; the comment at C:101 rules it out.
* a release whose reply was lost is sent again and deletes the next holder's marker (C:179,
  `Operations_Deep_Dive.md:588`).

And `Careful <- MCRunners` violates `LockRecovers`: a runner that dies between the create and the row
blocks the lock for ever, since all of the v4 pack stands down on an unreadable marker whatever its
age. The pack's README (line 693) has the manual cure; `Operations_Deep_Dive.md:613` says to wait 20
minutes.

Bounds: three runners, windows of three and four ticks over a timeout of two, so that a marker can be
alive, expired for one runner and not for another, or expired for all; up to three deaths. Ages at or
past `Horizon` (largest window plus timeout) behave alike.

Fairness: a started runner goes on, time passes, and each runner is started again and again whatever
the others do (`SF` of `Ask`: a schedule of its own).

### Proofs (second part of `ConsolidationProofs`)

For any set of runners, any windows longer than the timeout and any number of deaths, in a
`SoundDeployment`: `LockExcludes`, `MarkerStays` and `TakeoverIsFromTheDead`. Mutual exclusion of
the *working* runners is not inductive; `LockInv` extends it to OWNERS, a runner being one from the
moment it decides to take over or its create is fresh. `LiveMarkerIsHeld` is the timing argument: a
working runner's row is as old as the runner, so no older than the timeout, so within every window.
Recovery is model-checked only. Two *careless* runners that overlap can keep deleting each other's
marker before its row is written, each then raising in `add_lookup_data`; the instance has one
careless runner, which a careful one ends.

## 5. `LookupUploader`

### State

A row (a match, a heartbeat, the terminal row `End`) is somewhere (`at`: unborn, checked, in the
queue, behind the sentinel, in a batch, in flight, settled), has the counter that booked it (`fate`)
and a match is in the matches dataset `copies` times. `post` is the POST each sender has under way:
the worker, the main thread (terminal row), one drain thread per dataset. `wpc`, `mpc`, `stopFlag` and
`sentinel` are the control of worker and main thread; `due` and `flushing` the flush timers; `local`
says whether the run's findings are still on the endpoint.

The queue is unbounded (`Queue()`), so a put never fails. Its order is abstracted to "before or
behind the sentinel". A record that was delivered gives its place to a new one (`Again`), so three
rows stand for a scan of any length.

### Actions

| action | code |
|---|---|
| `Check`, `Put` | `_enqueue`: is the worker alive, then the put; two steps, since the worker may go in between |
| `Get`, `Empty`, `FlushDue`, `ExitTest`, `GetSentinel` | `_worker`: a row completes a batch or joins it; a second without rows; the timers; the two exits |
| `Drain`, `Joined` | the final drain, in one thread or two |
| `PostAccepted`, `PostUncounted`, `PostRetried`, `PostRefused`, `PostTimesOut`, `PostAbandoned` | `_send_batch`, one attempt at a time; a read timeout may or may not have committed |
| `SendEnd` | `_perform_enhanced_cleanup` and `send_scan_row_now`: the terminal row, inline |
| `Stop`, `PutSentinel`, `StopJoined` | `stop` |
| `Finish` | `_delivery_shortfall`, the summary, `HostCleanup` in mode `on_delivery` (the default is `off`), process exit |

Assumed of the service: an attempt that fails otherwise than by a read timeout has committed nothing,
and 2xx means the rows were added or skipped. `Late` says whether a scan thread may still queue rows
after the wait for it (5 s each) is over, `Slow` whether the drain may exceed its budget.

### Run

`upload_pass`: every queued row is posted or counted when `stop` returns (`HonestBooks`); cleanup
removes no finding the dataset lacks (`FindingSurvives`); a batch of findings is posted though the
scan may never end (`FindingsPosted`). By changing one constant of `MCLookupUploader.cfg`:

* `Skippable = {m1}` violates `FindingSurvives`: a record the tenant skips counts as landed
  (`_delivery_shortfall`, S:7905), and cleanup removes its only copy.
* `Late = TRUE` violates `FindingSurvives` and `HonestBooks`: a record not queued yet, or dropped for a
  dead worker, is in no shortfall; a row queued after the leftovers were counted is in no counter.

Two more consequences of the code are visible in the model and stated by no run. Flush timers are
looked at only when the queue runs empty (S:4836), so while matches keep coming a heartbeat waits,
although S:4837 means to prevent that. And the terminal row is posted by the main thread while the
worker posts heartbeats to the same dataset (S:4779), although `add_data` wants one writer (S:4289).

Bounds: two matches and one heartbeat with batches of two, so that a batch can fill, time out or be
left for the drain, in one dataset or in both; three attempts and two read timeouts, so that a
timeout can be retried and can be final and a third copy would show.

Fairness: threads run, POSTs return (they have timeouts), flush intervals pass. None on findings or
on the end of the scan.

### Proofs (`LookupUploaderProofs`)

For any matches, heartbeats, batch size and limits: `DuplicatesBounded` (always: a match is in the
dataset at most as often as read timeouts allow), `BooksHonest` and `NoneStranded` (`~Late`),
`FindingsSurvive` (`TrustedBooks`: also no match is skipped; the first fact above shows it is needed).
They rest on `UploaderInv`: `PostsInv`, a row in flight is in exactly one POST; `RowsInv`, settled
rows and only they have a fate, and copies in flight never exceed the read timeouts so far;
`ThreadsInv`, who can have a POST under way where; `StopInv`, once the worker is past its exit no row
is in the queue and none can come. The lemmas `StartPostKeeps` and `SettleKeeps` carry the two ways a
POST begins and ends. Liveness is model-checked only.

Not modelled here: creating the datasets and the start-of-scan flush (section 8), jitter and delays,
the text of log lines, and the alert channel of `_delivery_shortfall` (section 7).

## 6. `ScanRun`

### State and actions

One scan process of either edition (`edition`). `mpc` is the main thread, from compiling the rules to
the exit; `active`, `cancelled` and `failed` are the flags all threads read (`scan_active`,
`cancel_requested`, `scan_failed`); `flag` is the cancel file and its age: "old" or "near" if it is from
before the process, by more than the two seconds of tolerance or by less, "fresh" if it was written
since, "early" if it was written since and is all the same older than `_process_started_at` by more
than the tolerance; `unjudged` says that its age could not be read or its removal failed. Each
file has a `place`, each worker a program counter (`work`) and a file (`hold`); `row`, `result` and
`outcome` are the three statuses: terminal lifecycle row, result line, summary.

| action | code |
|---|---|
| `Cancel`, `Signal` | `mode=cancel` beside the scan, which writes the flag; SIGTERM (XDR) |
| `Compiled` | the rules are compiled; XSIAM took `_process_started_at` at import (X:204), XDR takes it now (S:5789) |
| `JudgeFlag`, `RemoveFlag`, `JudgeRaises` | `_start_cancellation_watcher`: the flag's mtime, its removal by name, and the `except` that leaves it where it is; then the threads start |
| `Meet`, `WalkEnds`, `TargetRaises`, `WalkRaises` | the walk: an entry is excluded, unreadable, or put into the bounded queue as soon as there is room |
| `Take`, `TakeSentinel`, `GetTimesOut`, `ScanFile`, `WorkerDies` | a scan worker; after the stop flag it leaves the rest of the queue |
| `WatcherTest`, `WatcherLook` | the cancellation watcher: first the flag of the scan, then the file |
| `BeatTest`, `BeatNotDue`, `BeatRow` | the heartbeat thread, which decides and emits in two steps |
| `PutSentinel`, `PutTimesOut`, `JoinWorkers` | the end of the walk: sentinels with a timeout, joins of five seconds |
| `ConsumeFlag`, `Deactivate`, `EmitTerminalRow`, `FinalLogRaises`, `Conclude`, `Report`, `ReportRaises`, `WriteSummary`, `Exit` | `_perform_enhanced_cleanup`, `run`, `main` |

### Run (`scan_pass`)

A row that says "completed" means every file was gone through, if every worker was gone when the wait
for it ended (`DrainedIsComplete`); a later status is never rosier than an earlier one, and at most
one "running" row follows the terminal one (`SummaryNeverRosier`); an old flag that could be judged
cancels nothing (`OldFlagIgnored`); a scan whose cancel is heard, or that failed, comes to its end (`StopEnds`).

Which cancels are heard is told by `Heard`, and it is fewer than the comments say:

* XDR loses a cancel written while the rules compile. They are compiled at S:5719, and
  `_process_started_at` is taken at S:5789, after it; a flag written more than two seconds before that
  is removed as a leftover (S:5853) and the scan goes on. S:5787 calls the stamp the "Earliest baseline
  (construction time) used to distinguish a genuinely stale cancel flag from one delivered during the
  pre-scan compile phase", and S:5846-5848 say such a flag "is deliberately preserved". XSIAM takes the
  stamp when the module is imported, before anything is compiled (X:204, and the comment at X:197-203),
  and does keep it.
* In both editions a cancel that comes between the look at a leftover flag and its removal goes with it,
  as the removal is by name (S:5854).
* When `getmtime` or `remove` raises (S:5856) the old flag stays and the watcher takes it for this
  scan's: hence `unjudged` in `OldFlagIgnored`.

The conditions are what the code leaves open. Workers that are past the 5 s join leave queued files
unscanned under a completed row (S:7508), and so does a target whose walk raises: both set `gaveUp`.
Row, result line and summary are computed at three moments and may differ when the watcher or a
signal fires between them; only the order of "rosier" is kept. An unreadable directory entry is
dropped uncounted in XDR. In the XSIAM edition a report that raises leaves the scan without a
terminal status (X:6764).

Bounds: three files, one of each kind (plain, unreadable, excluded), appearing again as fast as they
are scanned (`Endless`), two workers, a queue of one, so that both walker and sentinel can find it
full; one cancel and one fault, on top of the flag an earlier scan may have left. Fairness: `WF` of the main thread, the watcher and each worker;
none on the heartbeat, cancels, or faults.

### Proofs (`ScanRunProofs`)

For any files, workers, queue size and bounds: `CompletedIsComplete`, `StatusesAgree` and
`LeftoverIgnored`, from `RInv`: `StatusInv` (which status can be set where, and from which flags),
`FlagInv` (an old flag is gone before the watcher starts, or could not be judged), `BeatInv` (only one beat can be due when the
terminal row goes out), `WorkInv` (a file that is held is being scanned; as long as nothing was
cancelled or failed a worker leaves at a sentinel only, and so behind every file), `DrainInv` (so once
the wait is over and nobody gave up, nothing is unfinished). `StopEnds` is model-checked only.

Not modelled: what a file's scan yields (section 11), delivery (5 and 7), `running.json`, which only
the reply of `mode=cancel` reads.

## 7. `Delivery`

### State and actions

The other uploaders: `ResultsUploader` of XDR ("alerts") and of XSIAM ("matches"), `WebhookUploader`
("telemetry") and `LogManager` ("logs"). They share a queue, one worker and the stages of `stop()`,
and differ in guards; a behaviour is about one `channel`. `ahead` and `behind` are the queue before and
behind the sentinel, `batch` what the worker holds, `circuit` and `fails` the breaker, `ok`, `failed` and
`undelivered` the books, `put` what the channel has taken charge of, `landed` what the server has.
`uncounted` are the items put and not yet counted in `alerts_queued`: put and count are two statements,
and the worker may deliver the item in between (`successful_uploads` is then ahead for a moment).

| action | code |
|---|---|
| `AddMatch`, `Enqueue`, `CountQueued`, `LogCritical` | `add_match` with the alert cap: beyond it a finding is suppressed and only its rule remembered; the put, and its count. All channels but telemetry look first whether their worker is alive |
| `Test`, `Take`, `CollectBatch`, `GetSentinel`, `Quiet` | the worker's loop |
| `Allow` | `CircuitBreaker.allow_request`, and an open circuit |
| `NothingBuilt`, `ReplyOk`, `ReplyRefused`, `Retry`, `Exhausted` | one attempt: accepted, refused, rate-limited, lost or ambiguous; of a batch only what could be built is sent and booked (`Built`) |
| `PutBack`, `PutBackDone`, `Lapse` | requeuing until the delivery deadline |
| `BeginStop`, `QueueRollup`, `CountRollup`, `RollupsQueued`, `Drain`, `RaiseFlag`, `PutSentinel`, `Join`, `CloseBooks` | `stop()`: one rollup alert per suppressed rule, the window for the backlog, the flag, the sentinel, the wait, the leftovers counted |
| `Summarise`, `HostCleanup` | the shortfall and the cleanup that trusts it |

### Run (`delivery`)

No item is in two books, although the worker may outlive `stop()`; by the summary `alerts_queued` has
every item that was put; and once the worker is gone every item that could be sent is
in a book (`BooksBalance`, from `CAPABILITIES.md:3279`); at most `Cap` findings have an alert of their own
and each other finding is covered by its rule's rollup (`StormIsTold`); the host's record goes only
if the server has each finding or its rollup (`OnlyCopyIsKept`); `stop()` returns (`StopReturns`).

`CAPABILITIES.md:3279` also says that the counter of delivered items must not move after the books are
closed: a request that outlives the wait of 60 s can still move it (`wpc` is then not "gone").
An alert that fails to build is skipped with a log line and is in no book (S:3681-3691): it is
counted as queued, so `_delivery_shortfall` still sees it missing and the host keeps its record.
Exhausted retries do not open the breaker of the XSIAM matches channel. A suppressed finding counts
as delivered once its rollup is.

Bounds: three findings of two rules with a cap of one, so that a rule is suppressed wholly or in
part; one of them cannot be built; batches of two; two attempts; a breaker that opens at the first
failure. Fairness: `WF` of the
worker and of `stop()`. Not modelled: the 150,000 entries of `_seen_findings`, and `upload_results`,
which nothing calls.

### Proofs (`DeliveryProofs`)

For any channel, findings, rules, cap, batch size, number of attempts and answers: `DeliveryTyped`,
`BooksAlwaysBalance`, `StormsAreTold` and `OnlyCopiesAreKept`, from the invariant `DInv`. Its parts:
`SetsInv`, an item is in one place only, and each finding is suppressed, pending or put; `ThreadInv`,
which stage of `stop()` goes with which of the worker's, and that nothing behind the sentinel is
taken any more; `BookInv`, what is booked and what the worker still holds is never more than was put, and
what is booked as delivered the server has; `StormInv`, the cap and the rollups still owed; `CountInv`, what is put and not counted yet when; `KeepInv`,
with no shortfall the server has all that was put. A request that outlives the wait is not assumed
away: the invariants carry the late worker and its batch. That `stop()` returns is model-checked only.

## 8. `FullConsolidation`

### State and actions

A scan is a pair of host and number. Each host has a stage `spc` for its current scan `cur`; `src` are
the rows in the permanent datasets (`present`), `tgt` those in the targets, `posted` all ever written.
A scan has `ended` when its terminal row has landed. Ages are those of rows, by the stamp of the match and
not of its arrival: `recent` is within the quiet period, `aged` past 24 h; a row may arrive that is not
recent any more. A pass reads its clock once, so time passes between passes. The pass has its lifecycle
map (`terminal`), what it read (`got`), the scans the gate let through (`ready`), the rulesets it has
`done`, and what it is to add, claim and retire.

A read of one dataset returns at most `ReadLimit` rows (AP:465, 50,000) and nothing tells that it was cut;
the fan-in, which is discarded at its cap (AP:612-640), is not. Three variables say what a pass may lose:
`unseen`, rows that were deleted with a source the pass had not read them from; `late`, rows posted
when their scan was being copied, or had been; `cut`, scans that a read has cut short.

| action | code |
|---|---|
| `EnsureOne`, `ListScanIds`, `RemoveScanId`, `Recreated`, `PostRow`, `SendScanRowNow`, `End` | a scan: the flush of the previous scan's rows with its failures and its budget, rows, the dataset created anew when it is gone in mid-scan |
| `StartPass`, `PlanPass`, `FaninRows`, `RowsOfShard` | the lifecycle map, the plan, and one query for all hosts or one per host |
| `Settle`, `Age` | the quiet period, the day, between two passes |
| `NextGroup`, `AddBatch`, `Verify` | a ruleset: what is stale, fresh and too large; the batches; the read back, per scan. A removal may raise after it was carried out. A batch counts as written when any row of it is answered for (AP:2775), so part of one may be missing unnoticed |
| `DeleteDataset`, `EndPass`, `Killed` | retirement, by name, carried out or not when the call raises; the task timeout |

### Runs

`full` holds: rows of a host's latest scan are in its dataset or in the target, unless they are `unseen`
or `late` or of a scan that was `cut` (`NothingElseLost`); a target loses only what a later scan
overwrote, cut scans aside (`OnlySupersededRemoved`); a finished scan reaches its target, but for late
rows, unless its host's next scan comes first, a write broke (`Partly`), a read was cut or its rows fell to a retired
source (`EventuallyGrouped`).

Each of the three exceptions is what the code does. `unseen`: see `full_race`. `late`: the terminal row is
sent before the uploaders drain, and a scan that was quiet before is copied at once; its id is then
in `held`, so what comes later is never fresh (the comment at AP:2629-2640 says as much), and goes when
the source does. `cut`: verification compares the target with the rows that were *read*, so a dataset
with more rows than one read returns is verified by those and retired with the rest; and a scan none
of whose rows were in what a cut read returned is absent from `observed`, so that its rows in the target
count as superseded.

`full_race` is violated: AP:721 says the pass deletes "the per-host source datasets whose rows are now
PROVEN to be in `target`" (and AP:741 that they are safe there), but what was proven is what the pass
read; the dataset is deleted by name at AP:803, with whatever the host's next scan has put there since.

Met on the way, and part of the model: a half-written scan is never completed, because "fresh" is
decided by scan_id (AP:2722, `Partly` in the property); a ruleset none of whose scans is eligible keeps
its superseded rows; a bounded pass whose oldest dataset is empty or torn stands still there (AP:571);
the comments that sources are never deleted (`YaraConsolidateApply.yml:136`, AP:2445, xdr/README.md:161)
are older than `CONFIG_RETIRE_SOURCES_AFTER_FULL = True` (AP:2240).

Bounds: host a scans twice, with two rows and then with none, host b once with one row; a read of one dataset
returns one row, the fan-in is discarded at three, a batch is two rows; one failed call or kill. Two
scans of one host are what overwriting needs; two rows what a late row, a cut read and a batch that
lands in part need; a second host what a fan-in needs. 428,000 states. Passes with
`max_datasets` are left to the proofs, which cover any `Bounds`. Fairness: the pass is scheduled and
goes on (`WF`); time passes (`SF`, as it is seen only between two passes, of which there are
always more); none on hosts or faults.

### Proofs (`FullConsolidationProofs`)

For any scans, rulesets, row counts, bounds, budgets, limits and ceiling, with and without retirement: `LatestKept`
and `OnlyOverwrittenRemoved`, from `FInv`: `HostInv` (a scanner posts rows of its own scan and removes only
what earlier ones left), `SourceInv` (rows of a latest scan that were copied, or are about to be, are in the
dataset while there is one, or the dataset was brought back and holds of the scan only late rows:
`Shown`), `PassInv` (what is written was read and let through by the gate), `ReadInv` (a scan that a
target holds, its host's latest and never cut, was read if its host was in a complete read, and then
what was read shows the rows the target holds; so reconciliation does not take it for superseded), `RetireInv` (what
was read from a dataset about to go has been copied, came late or was cut short). `EventuallyGrouped` is
model-checked only.

Not modelled: dry runs, the rendered report, the difference in row ceiling between preview and pass,
a target of which the read back returns less than it holds.

## 9. `DatasetNames` and `Retention`

`DatasetNames` is the naming contract: what parses, what is owned, current, rotated, legacy or newer,
and rails 1 to 5 on names. `Retention` runs a pruning pass and a wipe over a tenant in which a host
goes on writing (`Write`), a month ends (`NextMonth`), time passes (`Hush`), and the merge copies a scan to
its target and removes what it copied (`Merge`).

| action | code |
|---|---|
| `StartPrune`, `PruneLock`, `ListDatasets` | `main`'s coercion of its arguments (a negative window becomes 0, a quiet period under an hour an hour), the lock, the listing and rails 1-5 |
| `RailSix`, `RailSeven` | is it quiet; has every scan of it as many rows in its target |
| `RecordFailure`, `PruneDelete`, `EndDeletes`, `PruneRelease`, `PruneKilled` | the deletes, one after the other, each of which may fail, before or after it was carried out |
| `StartWipe`, `WipeLock`, `WipeDelete`, `WipeRelease`, `WipeKilled` | `wipe_all`, which lists its candidates before it has the lock |
| `OtherRun`, `LockAges` | another holder; the age classes of the marker (20 minutes, 6 hours) |

The run `retention` holds: pruning takes no row's only copy, unless it was written after rail 7 had
counted, or the target has as many *other* rows, since a count is all the rail compares
(`OnlyCopySurvives`; the two cases are `seen` and `alike`, and a row that is counted alike has come
after the merge, `late`); and every listed dataset is deleted,
failed or kept for a reason, and nothing tried that the report would not call rotated or legacy
(`Accounted`).

What is accounted for is accounted for by name, with one exception: when a dataset of a newer schema is
listed, the legacy selection refuses as a whole (CU:1098-1102), and its reason becomes one record
without a dataset (CU:1582-1585, CU:1687). The legacy names then appear nowhere in the report. The model
has that record as `refused`, and `Named` leaves them out.

Part of the model: deleting a dataset that is not there is a success (`already_deleted`, CU:2153-2154 and
YW:327-331), so a prune and a wipe may both report it. A delete that was carried out and whose reply was
lost three times is recorded as failed, though the dataset is gone; the docstring of `_failed_record`
(CU:1771) has it that such a record means the dataset was not deleted. The wipe's window of 20 minutes lets
it take over from a prune, whose own is six hours, that still runs; a killed prune or wipe leaves no audit
row; legacy names without version are not held up by rail 7; `Platform_Behaviours.md:533` gives a window of
2 h and says unreadable is free, where the v4 code has 20 minutes and takes unreadable for held.

Bounds: one lifecycle shard of version 3, one legacy name, one scan of up to two rows, pack versions two
and three, so that the shard is current or newer; one pass, one wipe, one fault, a negative window. The merge
leaves lifecycle rows where they are, so that shard and target can agree, as rail 7 wants, and
differ by what comes later.

### Proofs (`RetentionProofs`)

For any shards, legacy names, scans, windows, versions, caps and bounds: `OnlyCopyKept`, `AllAccounted`,
`PruneTyped`. `PInv` adds to the type invariant: `NameInv`, no per-scan target of the contract is ever
selected; `RowInv`, a row is nowhere but in its shard or its scan's target; `MergedInv`, with its scan's target
there a row of a shard is in it, came after the merge, or was in a dataset that somebody deleted; `SeenInv`, what rail
7 saw of a dataset it chose is in the target as long as it is in the dataset, or is late and `alike`,
or was deleted by somebody else; `BookInv`, what has been selected or kept is at each stage exactly
what the selections so far were asked about (`Covered`), and the legacy path is refused exactly if it
was taken beside a newer schema (`RefusedOK`).

## 10. `Summary`

Hosts scan, settle, abandon and retire; a pass (`StartPass`, `ReadLifecycle`, `ReadFleet`, `ReadShard`) reads
the fleet dataset and shards, of which one query returns at most `ReadCap` rows, then per ruleset
drops what is stale, clears what it will rewrite and appends in batches (`NextGroup`, `DropStale`,
`AddBatch`); any call may fail and the pass be killed. `tgt` counts how often a row is in the targets.

A removal that raises may have been carried out (SU:2727-2735, SU:2768): the group ends, the failure is on
record, and what was cleared is missing until the next pass. A batch of which the platform adds some
rows counts as written, as only an answer of none is looked at (SU:2752-2756): the rows it left out are
`dropped`, and the pass calls itself clean.

The run `summary` holds: no (scan, host, rule) twice (`NoDoubles`); a pass with no failure on record leaves
each scan it may write exactly as read, whatever earlier ones left, but for `dropped` rows
(`CleanPassRepairs`); a row disappears only if it was superseded, is past what a query returns, or is
still in its source and either about to be written again or covered by a failure on record
(`OnlySupersededRemoved`). That last exception is real: a
shard read at its limit is not marked incomplete (SU:1929, whose comment at SU:1947 says otherwise).
And where a refresh fails half-way and the source is retired before the next pass, its rows are gone.

Bounds: as in section 8, with a read cap of three, batches of two, so that one can land in part, bounded
and unbounded passes, two of them, one fault.

Proofs (`SummaryProofs`), for any instance: `NothingDoubled` and `NothingElseRemoved`, from `SInv`, whose
core is `ClearedInv` (what is about to be added is not in the target), `ReadInv` (a row of a latest scan
that a target holds was read, unless a read was cut at its cap) and `StaleInv` (what is about to be
dropped was superseded), with `SourceInv` and `ListingInv` (what was read from a listed dataset is still
there). `CleanPassesRepair` needs more: `RepairInv`, which follows a pass that had no
fault row by row, says of each scan whose group is done, or in work, that a row is in the target or
about to be added exactly if it was read and not dropped; `GroupInv` says that groups come one at a time, that no
stale scan is among those read, and that a pass is over only when every ruleset with a scan to write
had its turn. What a failed write of an earlier pass left is therefore gone or written again.

## 11. `HostArtefacts`

One scan after the other on one host, in either edition. A run is refused or starts
(`Refuse`, `Refused`, `Start` with `InitialCleanup` and `PruneLogs`), matches files (`Match`: alert texts
rule by rule, the row of the file at the end), ends, collects the evidence (`MapFiles`, `CopyFile`, `ListTexts`,
`AddText`, `AddMapping`, `Collected`), renames (`Rename`, or `Schedule` and later `RunScript`), writes its
summary and cleans up (`HostCleanup`). Files vanish, writes fail, the process crashes, the host boots.

The run `artefacts` holds: the ZIP has every text of its own run, each file these name and the
content of each, and no earlier ZIP lies beside it (`EvidenceIsComplete`); each alerted finding is in
the one row of its file (`EveryAlertHasItsRow`); what was found stays until the next scan begins or
all was delivered, and logs go only as older ones (`OnlyExpectedRemoved`).

The exceptions are in the code. `muddled`: the rename script fires in mid-scan, so that texts miss the
ZIP, and on POSIX a second move overwrites the `.alert` file of the first. A cancelled XDR scan leaves no ZIP
(documented); an aborted XSIAM run wipes the evidence of the previous one, an XDR run does not. The
comment at S:5673 says the directory of failed rules is wiped at the next start; `initial_cleanup`
(S:5379) does not. Logs of refused runs count towards the number kept, and an unknown `keep` acts as
"summary".

Bounds: two rules, two paths with equal content, two run stamps that may go backwards, one log kept,
four configurations, one fault (two faults were checked as well, with 15 million states). Rules are
symmetric. A behaviour ends when the stamps are used up, so deadlock is not checked.

Proofs (`HostProofs`, first part), for any instance: `ArtefactsTyped` and `AlertsHaveRows`, from `TypeInv`
and `RowInv`; `EvidenceComplete` and `OnlyExpectedGoes`, from `EInv`. The latter follows the evidence
stage by stage: `DirInv`, the texts in the directory are the run's own, each of a file known to match
or to have vanished, unless the script fired in mid-scan (`muddled`); `ZipInv`, which ZIPs there are and
what is in them; `CopyInv`, a file that was tried is in the ZIP by its content or gone; `TextInv`, a text
no longer to be packaged is in it. Not modelled: partial deletion errors of `HostCleanup`.

## 12. Decisions

Five modules describe functions more than processes. `Decisions` asks them: a behaviour is about one
question (`asked`), which is in the initial state together with its answer, or about one of the two
that have a state of their own, which run on (`Load`; `Sampled`, `Blinded`). The questions are constants
(`RuleFiles`, `Starts`, `Walks`, `Tenants`, `Waves`); `MCDecisions` gives them bounded sets. Run `decisions`:

| module | what | property |
|---|---|---|
| `RulePack` | the gate (`validate_rules`), the transport, the cut by lines (XDR) or by words outside strings, comments and braces (XSIAM), probing of modules, compilation rule by rule | `RuleStandsAlone`: a sound rule survives whatever else is in the file, and only what lacks a module is booked as skipped |
| `RuleLoading` | the compiled set kept on disk, with its sidecar, saved in steps that may be cut short; upgrades of the agent; files that rot | `CacheIsCompile`: what is loaded and reported is what a compilation would give now |
| `SkipRules` | skip lists, carve-outs, junctions, targets, the walk and its counters | `ExcludedTargetIsTold`, `CarveOutIsScanned`, `WalkIsInTheBooks` |
| `ScanOptions` | options string, arguments, constants, environment | `NoScanInVain`: a scan that can deliver nowhere does not start, however that came about, and no other is refused for it |
| `Governor` | the sleep ratio under its policies | `OnlySlowedForCause`, `NotSleptForEver` |
| `Readiness` | `check_readiness`, `verify_wave`, the gate of the passes | `PreviewIsTrue`; `EndedScansStartNoWave`: a scan that had ended by the dispatch starts no wave, and a new scan that reports is not missed |

`NotSleptForEver` needs that a scan goes on reading the CPU (`WF` of the sample); the property's
premise is that the scanner stays below its target.

Inputs are chosen so that each rule of the code meets its exceptions: rules files of up to four items
of thirteen kinds, with three agents; directory chains of up to two names (three or four
for those that occur in longer entries) that are listed, look like a listed one, or differ in case; option strings of up to two chunks; readings at and around floor,
budget and headroom, on one core and four; scans with up to two lifecycle rows and two stamps on
either side of each threshold; waves whose hosts differ in case, with rows of old and new scans before, at and
after the dispatch, and queries that are down.

Differences between what is said and what is done that the definitions keep, and the properties
exempt where they would fail:

* rules: XDR refuses a pack of private or global rules only, contrary to `YaraRulesFromFile.py:7`;
  `CAPABILITIES.md:248` documents that these are no rule starts, and that block comments can cost a
  neighbour.
* scope: overlapping targets are scanned twice (`track_real_paths` is always False); subdirectories of
  an excluded root are visited for the carve-outs, so "nothing under them was scanned" (S:7628) is
  untrue there; a target inside an app bundle is not named as excluded; Windows entries are text
  prefixes in XDR and whole names in XSIAM; `win_skip_patterns` never matches; the warning at
  configuration misses by case (`CAPABILITIES.md:772`).
* start-up: the environment beats the options string (documented); options are parsed outside the
  `try` of `run()`, so a bad one ends without a status; a floor of 150 silences the governor.
* scope, met while proving: a *file* that is itself called `media` or `volumes` inside a carve-out is
  not scanned, because the probe for the boundary appends a separator to a file's path as well (S:7007), so
  that the file counts as under it; a target that has one of the skipped names, or on macOS begins
  with `._`, is reported as excluded although what is in its subdirectories is scanned.
* previews: `check_readiness` "mirrors the gate BOTH consolidation modes apply" (YC:887), but the
  summary's accepts any terminal row, the pass's `int()` raises on an ISO stamp that the preview
  reads, scans without a hash are counted in a group the pass skips, and an empty preview wired to
  the pass's `scan_id` means "all".
* waves: VE:380-383 says a row of a previous scan counted as this wave starting is "the one error this gate
  must not make", and the only test is of the time: a previous scan that still runs at the dispatch
  sends a heartbeat after it and its host counts as started (`overrun` in the property, which says
  that nothing but these and the hosts whose new scan told is counted). A host whose clock is behind
  reads as not started (`behind`). No row tells which scan it is of in a way `verify_wave` looks at.

### Proofs (`HostProofs`, second part)

Every property of the decisions but `NotSleptForEver` is a theorem, for any questions that satisfy the
assumptions named in the modules. Those on what the program is given are in `Decisions`: paths are
sequences of names and disks finite (`WalksAssumption`); the caller's `create_alerts` and `write_dataset`
are yes or no, as the automation's arguments are (`StartsAssumption`; what the options string says of them
is free); stamps are numbers and each host writes its own shard (`TenantsAssumption`); lifecycle rows
have a status that scans report (`WavesAssumption`; of which scan a row is, and when, is free); and what libyara reports as undefined is a module or a rule but never both, since it refuses a rule that
is named like an imported module (`FilesAssumption`). `SkipAssumption` says of spelling that lower case is
idempotent and that a prefix in lower case stays one when the name is put in lower case.

* Most of these theorems are facts about one answer, proved of the operators (`JudgedFromTheStart`) and kept
  because the question does not change (`AskedFrame`).
* Paths: what occurs in a path occurs in every path below it (`OccursBelow`, `MatchesBelow`), and what
  occurs in a path and not in its directory ends with its last name (`OccursAbove`, `MatchesAbove`). The
  first gives the carve-outs and what is scanned under an excluded target; the second, for a file
  whose name ends no entry (`Neutral`), that the target is excluded as the file is. Proving it showed that an
  entry for what is inside an app is the exception: it wants something after it.
* Books: outcomes are disjoint and complete, so counters add up to the number of (target, file) pairs the walk
  reaches; a file is not reached only if a name between it and its target is that of a link.
* Rules: a block of the XSIAM cut looks like the file it was cut from. `BlockComments`: a line is
  commented out in the block exactly if it is in the file. `BlockIsOneRule`: the rule itself is the only one in its block
  that is not commented out, and no import is; the argument takes the first line that would be an
  exception, and shows it at top level of the file, where the cut would have ended. `DefectsOfOne` then
  gives all that libyara can find in it.
* The cache: `CacheInv`, every bundle is what compiling its key's rules gives on any agent with that key
  (`KeyTellsCompile`: the key names all a compilation depends on), and so is every sidecar.
* The governor: for a ratio within bounds the error's sign decides.

Least elements are found by well-founded induction on the naturals (`NatMin`), maxima by a least
bound (`NatMax`, `FiniteMax`); nothing is proved by induction over data. Not modelled: two processes
on one cache, tenant ids and keys that only set sizes, the process priority.

## 13. What is proved and what is only checked

TLAPS proves, for all values of the constants, every invariant and every safety property of a step
that a passing run checks, and the refinement of `FindingsStore`. The assumptions are those named in the modules
(`ConstantsAssumption`, `ScanAssumption`, ...), and for two results one on the environment, stated in
the theorem: `~Late` and `TrustedBooks`. In `ConsolidationLock` it is in the property
(`SoundDeployment`). Where the code does not keep what a property asks, the property names the case (`late`,
`overrun`, `unseen`, `cut`, `dropped`, `alike`, `unjudged`, `refused`, `Unbooked`) in a variable or definition that
says exactly when it occurs, and the theorem holds of everything else; no assumption excludes it.

Model-checked only, on the instances given, is liveness (`EventuallyDelivered`, `ShardsEventuallyGone`,
`LockRecovers`, `FindingsPosted`, `StopEnds`, `StopReturns`, `EventuallyGrouped`, `NotSleptForEver`):
fairness and ENABLED are not supported by the prover. What `full_race` refutes stays a counterexample.

## 14. Not modelled

* The Action Center client: HTTP with polling; its calls are the steps of the models above, and where
  its retry matters (`delete_dataset`, `Delete` in `ConsolidationLock`) it is in them.
* The retention mode of the command line (`xdr_data_management.py`): an earlier form of the pack's,
  without lock, cap or schema version; its consolidation mode is in `Consolidation`.
* `YaraReport`, the tables of `YaraConsolidateStatus`, the entry points that read a file from the war
  room: they render what they read.
* Set-up code, paths, platform detection, report texts, log wording, process priority.
* The build tools: they make files from files.
