# A verification of education-pipeline in TLA+

`education-pipeline` drives a course through stages (spec, outline, draft, qa,
factcheck, repair ...). Each stage is a prompt, a model's response and, where the
pipeline asks for judgment, a person's approval. All state is files in a
workspace. A daemon per workspace queues and runs the provider CLIs, a cockpit in
the browser and a command line talk to it, and the command line also works on the
files directly. What is hard in it is concurrency over those files: worker
threads, HTTP threads, completion hooks, other processes, provider subprocesses,
and a daemon that may die between any two writes.

This directory holds TLA+ modules translated from that code, TLC
configurations that check them on small instances, and proofs checked by TLAPS.

## Inventory

Paths are under `src/education_pipeline/`.

| component | state it keeps | operations | interacts with | hard behaviour | what makes it correct |
|---|---|---|---|---|---|
| worker pool (`daemon/jobs.py`) | `job.json` records and logs on disk; queue, admission order, claims, slots and cancel events in memory | enqueue, cancel, cancel_batch, stop, thread loop, execute/spawn, reconcile | called by HTTP threads; spawns providers; ingests into the run store; calls the completion hook | threads against cancels, head-of-line admission, deaths between any two writes, orphaned providers | one batch at a time, no job lost, records final and truthful, one announcement, everything settles, shutdown drains |
| draft fan-out and chained runs (`daemon/server.py`, `orchestrate.py`) | chain flag, batch id and continuation on records; `_chain_lock` | continue route, `POST /v1/jobs`, fan-out loop, completion hook | enqueues into the pool from HTTP threads and, through the hook, from worker threads | admissions that race, jobs that end during their fan-out, partial fan-outs, stall guard on a text | no unit drafted twice at once, a batch continues once and from its last job, chains do not just stop |
| workspace lock (`workspace_lock.py`) | one flock, a depth counter per process | enter (poll with timeout), leave | around every manifest mutation of daemon and CLI | reentrancy over threads, releases in any order, death inside a block | blocks of two processes never overlap |
| run stages (`runs.py`, `run_core.py`, `run_modes.py`, `stage_graph.py`) | prompts, responses, approvals, `manifest.json` | write prompt, ingest, edit, approve, advance, archive | called by everything; approvals bind hashes of their sources | staleness through chains of sources, grandfathered repair, two writers of one manifest | the next action never skips a judgment, a stale stage is never taken as current |
| draft units (`runs_draft_units.py`) | skeleton and module prompts, responses, assembly | ingest, edit (guarded by a hash), repair, assemble | ingest assembles the stage response | edits against jobs, units that become stale or orphaned | assembled draft equals its units; a saved response is never clobbered unforced |
| orchestration loop and queue (`orchestrate.py`, `course_queue.py`) | `queue/courses.json` | run until judgment, add/remove/run entries | drives the run store; blocks on the daemon | step cap, stalls, dying half-way through an entry | stops at every judgment; entries are not lost |
| finalize and export (`runs_finalize.py`, `export.py`) | `final/`, exports | finalize, export | binds approved repair, validation, waivers | crash between the artifacts of one transaction | derived finality is never claimed for changed inputs |
| reports and waivers (`runs_reports.py`, `runs_waivers.py`) | phase reports, `validation-waivers.json` | validate, record/remove waiver | gate finalize | reports and waivers that outlive the bytes they judged | a waiver never applies to another finding's bytes |
| personalization and audit (`runs_personalization.py`, `guides/personalization.py`, `guides/audit.py`, `privacy.py`) | profile snapshot, guide contract, audit artifacts | attach, compile, audit | audit is a stage with its own refusals | profile changed under a run | private values stay private; contract immutable |
| discovery (`daemon/lifecycle.py`, `daemon/__init__.py`, `client.py`, `ui.py`) | the discovery file | claim, publish, remove, autostart | CLI and daemon processes | two starters, stale files, pids reused, death between create and write | at most one daemon owns the workspace |
| change events (`daemon/events.py`) | last scan, subscribers | subscribe, scan, publish, close | one pump thread, one HTTP thread per stream | subscribers joining between scans, pumps starting and stopping | no change is missed, one scanner |
| HTTP routes (`daemon/server.py`, `read_api.py`, `write_api.py`) | none of their own | guards before each mutation, compare-and-swap of plans and responses | everything above | checks that are stale when the mutation runs | refusals instead of lost updates |
| stores (`workspace.py`, `topics.py`, `profiles.py`, `registry.py`, `config.py`, `atomic_io.py`) | one file each | load, save, list | CLI and daemon | replace against crash, retry on Windows | readers see the old or the new file |
| providers and cost (`providers/`, `profile_draft.py`, `cost.py`) | none | build argv, parse answer, estimate | used by the pool | bounded capture of output | |
| guide documents (`guides/`) | none (pure) | parse, validate, splice, project, render | prompts, validation, export | reachability, splices that keep ids | checked against a reference definition |
| guide runtime (`guide_runtime/assets/runtime.js`) | progress in local storage | answer, page, reset, print | none | restore of an older state | progress never claims an unanswered question |
| cockpit (`web/src`) | query state | poll, stream, guarded action | the HTTP API | a poll racing a notice, unmount during a fetch | one fetch in flight, no lost refresh |

The hazards of this code, each at its line with the properties that catch it, are
listed in `PROJECT.json`.

## The modules

| module | role |
|---|---|
| `JobRecords` | abstract: what the pool promises about records, starts and announcements |
| `WorkerPool` | the pool in detail; implements `JobRecords` |
| `WorkerPoolInvariant` | its inductive invariant, checked by TLC as well |
| `WorkerPoolProofs` | theorems of the pool |
| `FanoutChain` | draft fan-outs, chained runs, the completion hook |
| `FanoutChainProofs` | its theorems |
| `DraftUnits` | the draft stage of a run: skeleton, module prompts and responses, edits, assembly |
| `DraftUnitsProofs` | its theorems |
| `CourseQueue` | the course queue and the loop that drives a run to its next judgment |
| `ProcessExclusion` | abstract: blocks of two processes never overlap |
| `WorkspaceLock` | the flock with its depth counter; implements `ProcessExclusion` |
| `WorkspaceStores` | profiles, topics, plans, the registry and the manifest under their locks; composes `WorkspaceLock` |
| `WorkspaceStoresProofs` | theorems of the lock and of the stores |
| `Discovery` | who is the daemon of a workspace |
| `EventHub` | change notices: streams, scanner generations, fingerprints |
| `DaemonProofs` | theorems of `Discovery` and of `EventHub` |
| `RunStages` | the stages of one run: prompts, approvals and their hashes, validation, finalizing, next action |
| `RunStagesProofs` | its theorems |
| `Release` | reports, waivers, finalize, export and the personalization audit, and what reads as current of them |
| `ReleaseProofs` | its theorems |
| `GuideDocument` | pure: the guide schema, the rules of the parser, splice and assembly |
| `GuideFindings` | pure: the findings of a report, goal annotations, traces, audit answers |
| `GuidePipeline` | the documents of a run from its contract to the audit; uses the two above |
| `CourseProofs` | theorems of `CourseQueue` and of `GuidePipeline` |
| `MC...` | constants of the instances that a cfg cannot spell; `Discovery` and `EventHub` need none |

### WorkerPool

One step is one critical section of `Worker._lock`, one record write or one
interaction with the provider: those are the places where threads interleave and
where a crash can be noticed. `status`, `pidrec`, `child` and `ingested` survive a
crash (records, provider processes, responses); `queue`, `waiting`, `cancels`,
`claimed`, `running` and the threads' positions do not. A loop thread goes
`get -> claim -> read -> park` and then either takes a slot and executes
(`start -> running -> spawned -> await -> ingest`, then one of the last writes),
or drops a canceled job; it releases slot and claim *before* it notifies, as the
`finally` of `_loop` does. A cancelling client reads outside the lock, decides under
it whether the job is its own to finish (queued and unclaimed), sets the event,
forgets the waiter, and announces. `Stop` puts its sentinels one at a time, because
enqueues may come between them. `Crash` clears the memory; `Restart` and the two
passes of `reconcile` interrupt running records and requeue the queued ones in any
order, since ids made within one second are ordered by random bytes.

Left out: log capping, cost stamping, salvage of rejected output, the identity check
of a recorded pid (its outcome is a choice), and record writes of the loop that fail
(except `SpawnError`, `SaveRefused` and `StartFailed`). An id is enqueued once.

### FanoutChain

One run at its draft stage. An attempt is a call that may enqueue draft jobs: a
request or the continuation a hook runs. They are threads of one daemon, where the
workspace lock is reentrant, so each read (`Guard`, `Status`, `Admit`, `Check`,
`Select`) and each pass of the fan-out loop (`Save`) is a step of its own. The pool
appears as what `JobRecords` and `EveryJobSettles` promise: a live job ends and is
announced once. A cancel of the batch is a job that fails. The first unit is the skeleton, an ordinary job; then the modules, a
batch. The stall guard compares the *number* of saved responses, which is all the
next action's text shows. A job may end while its fan-out is still being saved; `early`
is history and remembers that one has.

Left out: archived runs, plan errors, stale and orphaned modules, failing assembly,
stages after the draft, death of the daemon (covered by `WorkerPool`). Slots for
attempts are an artefact: instances have one for every client call and for every
fan-out a hook can start after them. When a module reads as stale, and what is saved and
assembled of the units, is `DraftUnits`.

### DraftUnits

The draft stage of one run, from an outline that may be approved anew to an assembled
stage response. What a module prompt embeds is a pair of its contract entry and its
stub (`InputsOf`), and so is what its latest event hashed; a response remembers the pair
it was made from. `UnitState`, `Outstanding`, `Superseded`, `Assembly` and `NextAction`
are derived from the files as the code derives them. Saving and assembling are steps
under `_draft_unit_lock`; building the inputs (`Orphan`, `WriteContract`,
`RecordDrafted`, `WriteSkeletonPrompt`), rebuilding prompts for a fan-out and writing
the stage response by hand happen outside it. `Paste`, `EditSkeleton` and `EditModule`
are guarded by force or by the base the editor has loaded; `Break` kills the daemon
between any two writes.

`rebuilt`, `lagging` and `cut` are history and say when a promise may fail, and the
model contains those cases: a fan-out rewrites the prompt of a stale module before its
new response exists, so the old response reads as current for a moment; a prompt or a
contract is written after the assembly has read it; the daemon dies between the stage
response and its event. `lagging` covers two cases that the proof of
`StageFollowsUnits` found and no run had shown: an outline may be approved anew, and a
prompt event appended, between the look of an assembly and its write, so that the stage
response is older than the units although none of them was saved again.

### CourseQueue

`queue run` as a process that takes the pending list once, marks an entry running,
drives its course with `run_until_judgment` and marks it stopped, each transition applied
to the file as it stands; `queue add` and `queue remove` load and save without the
workspace lock, so they may overwrite each other. A run is its position in a
sequence of next actions (`RunStages` says which); `Stuck` are steps that clear nothing.
The loop is `ReadStatus`, `Advance`, `Validate`, `StartJob`, `JobEnds`, `Waited`,
`Stop`, with the cap (`OutOfSteps`) and the stall guard. `advance` does whatever step
the run is on by then, so a status read too early may make it finalize: `JudgesNothing`
states exactly that exception. The instance has `MaxSteps = 2` where the code has 12,
which lets the cap be met by a course of three actions.

### WorkspaceLock

A block is one activation of the context manager. `Join`, `Win` and `Refuse` are the
three ways one pass of the poll loop can end under `_STATE_LOCK`; a pass that fails
before the deadline changes nothing. The kernel's release of a dead process's flock
is external.

### WorkspaceStores

A call reads a file, decides and replaces it whole. What lies around these three steps is
the point: topics, the plan, the overrides and the registry hold nothing; profiles hold a lock of
their process and compare with the base the client sent; a manifest is written in a
section, a lock of the process and then the workspace lock (`WorkspaceLock`, whose
actions this module uses as its own); a command holds the workspace lock from its guard
on (`Guarded`). A content is who wrote it; a manifest is its contract, blueprint, events
and archive flag. `Advance` takes two sections, as `create_run` and the event of a
step do. A killed process leaves the old or the new file, never a part of one.

The model contains what the code accepts: two processes can lose an edit of a profile,
and files without a lock lose one of two writes that overlap.

### Discovery

One step is one call on `daemon.json`. `file` is absent or says which process created
it and how far it is written (`empty` placeholder, `claim` with a pid, `full` record).
A daemon goes `reading -> (removing ->) creating -> writing -> starting -> serving ->
stopping -> exited`, or is `refused`; a KeyboardInterrupt takes it through
`interrupted` and `unwinding`, which remove the file once each. A client
(`ensure_daemon`) reads the file, spawns at most one daemon and polls. A command is a
run of `daemon stop`, `workspace check --fix` or `ui` before it starts.

A daemon may be killed (`MaxDeaths`) or fail to start (`MaxFailures`) anywhere, and
commands and KeyboardInterrupts come when they like. Two history variables remember
what has happened: `overlapped` (two daemons were claiming at once) and `meddled` (a
command or an unwinding handler may have removed a file that was not its own). The
protocol keeps its promise while `Orderly` holds: `OneDaemon` is claimed under it, and
`NothingLeftBehind` always. What the model contains beyond it, and no run forbids:
a process killed between creating the file and writing its pid leaves a placeholder
that is never stale and blocks every start until a command tidies up; after Ctrl-C the
file is removed by the `finally` and again by the handler; `workspace check --fix`
takes the placeholder of a starting daemon for a stale record. Pids are not reused, and
a pid that is alive answers on its port as soon as it serves.

### EventHub

`_scan_lock` is the variable `lock`; one step is one section under `_lock`, or one key
of a scan, because a scan stats one entry after the other while the workspace changes.
`disk[k]` counts the changes of an entry and a fingerprint copies it: two stats of one
entry are equal only when it did not change in between. `Keys` are the keys that the edits of an
instance can change. `due` is history: what each open stream has to be told, by the
pages an edit concerns (`Concerns`, from the endpoint's design), which is stated
separately from what a changed key is told as (`NoticesOf`, from `diff_fingerprints`).
A stream that reconnects is another member of `Streams`.

### RunStages

One interactive-guide run from its approved outline on. A text stands for its bytes and
for their hash; a prompt is what it embeds, a function from sources to texts; an event
of the manifest is the hashes it recorded. `Stale`, `Reported`, `Finalized`,
`PromptOutdated` and `NextAction` are the derived readings of the code and are computed
from files and events as it does, with nothing stored.

An operation is a request of the daemon, a command line or a provider job, and takes
several steps, one per file or event it reads or writes: `Compile`, `WritePrompt`,
`RecordPrompt` for a prompt (the event hashes the sources when it is appended, not
when the prompt was compiled); `ReadResponse`, `WriteApproved`, `BindSources`,
`RecordApproval` for an approval; `Judge`, `Report`; `Assemble`, `WriteJson`,
`WriteMarkdown`, `RecordFinal`; `Open`, `SaveResponse` for a job. A request looks for
active jobs when it begins (`Guard`) and then works without a lock, except while it
appends an event; a command holds the workspace lock throughout; a job is admitted and
opened under that lock. `Break` ends an operation anywhere: the process dies, a lock is
not to be had, a provider does not answer. The validations of one daemon exclude each
other; a `validate` on the command line has no guard.

`Reviewer` is the request of a person who follows the next action; every other
operation costs one of `MaxMeddling`. `answers[s]` and `built[s]` are history: what the
prompt embedded that the response, or the approved text, of `s` answers. `orderly` says
that operations have not overlapped, that none was cut off between a file and its
event, and that no response to an earlier prompt was approved. Those are the cases in
which the recorded hashes may be wrong, and the model contains them all:

* an upstream stage approved between `Compile` and `RecordPrompt` makes the event claim
  sources the prompt does not embed;
* an approval is bound to the latest prompt, whichever prompt its response answers;
* a process that dies between the approved file and its event leaves a new text under
  the old binding, or under none, which reads as current;
* a repair approved while `finalize` writes is recorded as the source of a guide that
  was made from the old one.

`StaleIsTrue` and `FinalIsApproved` are claimed of orderly runs; `CommandsSpared`
and `Converges` of every run.

Left out: the spec and outline stages and the draft's own prompt, draft units (they are
in `FanoutChain`), scoped repair, profiles and traces, waivers and blocking findings,
malformed guides, archived runs, `edit_response`, responses dropped into the directory
by hand, the legacy Markdown mode. A client asks to overwrite when there is something
to overwrite.

### Release

From the approved repair on: validation, waivers, finalize, export, the audit. A guide
stands for its bytes, their hash and its rendering; `Found[g][p]` is what validating it
for a profile finds. An operation of a request thread or a command takes one step per
lock, file and event: `Compute`, `WriteReport`, `WriteTrace`, `RecordValidated`;
`Waive`, `SaveWaiver`; `Finalize`, `WriteFinal`, `RecordFinalized`; `TakeProfile`,
`Render`, `WriteHtml`, `WriteSidecar`; `Prepare`, `WritePrompt`, `RecordPrompt`;
`ReadResponse`, `BeginApproval`, `WriteApproved`, `WriteProjection`, `RecordApproval`.
Threads of the daemon share the profile lock, and a command has one of its own, so a
profile can be replaced under an operation of the other; the section has one holder
among all processes. What reads as current (`ReportCurrent`, `TraceCurrent`,
`PromptCurrent`, `AuditState`, `ExportCurrent`) is computed from the files and events,
and those readings are what the properties are about.

### GuideDocument, GuideFindings, GuidePipeline

The two pure modules translate the parser, the diagram rules, the splice and the assembly
(`GuideDocument`), and the report, the annotation index, the trace and the audit's rules
(`GuideFindings`), as operators over documents. A document is the JSON value of an
answer: sequences of modules, sections and blocks, and of a diagram its nodes, edges,
events, items, criteria and their values, with texts reduced to the set of signs a rule
looks for (and the ids they link to) and wrong keys and scalars to the set of codes they
are reported under. What is inside a diagram has no id of the guide's namespace, but its
details and values are Markdown whose links are checked (`Drawn`), and all its strings
are read by the rules about content (`DiagramStrings`). The walk over ids and references
does not see a block of unknown type (`Understood`); `Elements` lists ids in the order
of the document, which decides whom a refused assembly blames.
`GuidePipeline` is the machine that sends documents through them: spec and
outline blocks, the contract, assembled or pasted drafts, reports, whole and scoped
repairs, audits. A draft or a repair may be pasted before there is a prompt for it, as in
the code; a repair without a scoped prompt is a whole one (`RepairScope`). `MaxRedo`
bounds the documents that replace another one or come before their prompt. Its inputs
hold a good guide, one of an older version, one that repeats a protected word in its ids
and texts, one that holds it only in a value of a comparison, one with an outcome
nobody teaches and a node its diagram does not reach, and one with a text that is too
long; one fragment brings the word in on the label of an edge.

`ReportsSound` has three parts. Nothing a report shows holds a protected word, and what
the audit shows is the same for two answers that differ in their narratives alone. An
open gate is of a guide that parses, keeps the blueprint, is traced and publishes no
protected word in any id or text, or of one whose texts are too long and which has no
other defect (see "What the violation shows"). What is published is said by `Published`,
which lists what carries a text and does not use the walk of the rules (`Strings`); the
mutant is a walk that stops at a diagram. The protected words are those `validate_guide`
looks for: a private value of less than five characters, or a generic one, is not
(`validation.py:749-753`), and nothing is claimed of it. A text stands for the
set of the words it contains and an id for one word, where the code looks for a substring
in both. An approved audit assesses every goal and facet once, on evidence that is in
the guide.

The approval of a repair is one step. The code reads the events twice in it, for the
scope and for the hash of the draft; a prompt written between the two is not covered.

## Runs

Deadlock is checked in no run: a daemon whose jobs are all terminal, a run whose
requests are used up, daemons that have exited, streams that are gone and operations
that are bounded really stop. That no operation waits for ever is a property instead
(`EveryJobSettles`, `ChainContinues`, `SomebodyGoesOn`, `EveryCourseStops`).

| run | instance | shows |
|---|---|---|
| `pool_safety` | an ordinary job and a batch of two, 2 threads, 1 client, 1 death | `OneBatchAtATime`, `NothingLost`, `RecordTellsTruth`, `HookOnce`, and that the pool implements `JobRecords` (`ImplementsRecords`) |
| `pool_liveness` | an ordinary job and one of a batch, 1 client, both kinds of shutdown and no death, fair | the inductive invariant `PoolInv` (with `PoolMoves` and `HookOwed`), `EveryJobSettles` (terminal and announced), `ShutdownDrains` |
| `fanout_races` | skeleton and 2 modules, 2 client calls of any form, 5 attempts, fair | `OneLivePerUnit`, `LastUnlessEarly`, `OutcomesStand`, `ChainContinues` |
| `workspace_stores` | 2 daemon threads and 2 commands, 3 calls, 1 death | `ImplementsExclusion` (the lock, in this use, implements `ProcessExclusion`), `LocksKeepWrites`, `RunStands` |
| `discovery` | 3 clients and daemons, 1 command, 1 death, 1 failed start, fair | `OneDaemon`, `NothingLeftBehind`, `SomeoneServes` |
| `discovery_stale` | 3 daemons, 1 death | **violated**: `OneOwner` |
| `events` | 2 streams, cap 2, 3 generations, 1 edit of two keys, fair | `NothingLost`, `StaleNeverScans`, `Told` |
| `run_stages` | draft, fact check and repair; 2 requests, 1 command, 1 job; 1 operation out of turn, 1 cut off; fair | `StaleIsTrue`, `FinalIsApproved`, `CommandsSpared`, `Converges` |
| `drafting` | 2 modules, 2 outlines, 3 skeletons, 3 texts (one malformed), 1 request, 3 jobs; 2 operations out of turn, 1 death; fair | `UnitsInv`, `StageFollowsUnits`, `HandWorkStands`, `Converges` |
| `course_queue` | 2 courses (one never clears its validation), 2 drivers, 1 editor, 2 edits, 1 fault, fair | `QueueTypeOK`, `PassesKeepToTheirCourse`, `EveryCourseStops` |
| `release` | 2 guides, 2 profiles, 2 findings, 2 threads, 1 command; 5 operations, 1 change, 1 death | `CurrentIsTrue`, `GateIsHonest`, `WaiversStand`, `SomebodyGoesOn` |
| `guide_pipeline` | guides of two modules, their damaged variants, 4 module answers, 3 fragments, 3 specs, 1 profile, 1 document replaced or early | `GuideInv`, `ReportsSound`, `RepairIsLocal`, `AssemblyLosesNothing` |

Bounds. Two threads and three jobs are the smallest pool with a job running, one
parked behind the head and one still queued; one ordinary job and two of a batch are
every pair of kinds the admission rule tells apart. Two clients are needed for two
cancels of one job. One death already reaches every pair of adjacent writes, because
it may come at any step. Two modules are the smallest batch with a sibling left to
save when the first job ends; two client calls are the smallest race of admissions,
and hooks add further attempts. Each call of `workspace_stores` has an
outer and an inner block, so two threads of the daemon nest and overlap in the depth
counter, and three calls are the least in which two overlap and the third reads what
they left. Two daemons race for one file; the third is the one
whose death leaves it stale; a fourth would only repeat what the third does, and the
theorems hold for any number. Two streams are the least with one that leaves while
another stays; `MaxGen` bounds how often the hub goes from no stream to one (a third
generation can meet threads of both older ones), `MaxEdits` how often the workspace
changes: one edit of two keys already falls before, between and after the reads of a
scan. Draft, fact check and repair are the smallest chain in which a source has a source,
and hold the stage that may be missing; the qa stage would be a second one between
them. Two texts tell "changed" from "unchanged". One operation out of turn is one
upstream approval at any point of the reviewer's work, and one `Break` falls at any step
of any operation; a run starts from nothing, before the repair, at the end or without a
fact check, each with a draft that may have been written anew. The safety properties
of the run were also explored, not exhausted, with up to five operations out of turn.
Two modules, of which the second outline drops one and changes the other, give every
way a unit can become stale or orphaned; a malformed text makes the assembly fail. Two
courses and two drivers are the least in which a pass overlaps another one and an edit
of another course. In `release` two guides and two profiles tell "as it was" from
"replaced", one of the profiles has goals, and five operations are enough for a
validation, a waiver, a finalize and an export with one operation across them; the
theorems hold for any number of all of these. The threads of a process may be exchanged
there and in `pool_safety` and `workspace_stores`, which check only safety. The guides
of `guide_pipeline` hold every kind of block and three of the four kinds of diagram, in
valid and in damaged form.

Fairness. In the pool every loop thread is weakly fair: it runs whenever it is not
blocked. The provider owes nothing; of an awaited run only the deadline in
`_spawn`'s poll loop is certain (`Timeout`). Clients finish a cancel they began, and
`stop` puts the sentinels it owes. In the chain an attempt that can move does, jobs
end (that is `EveryJobSettles`), and one of the threads waiting for `_chain_lock`
gets it; nothing is assumed about which one. Daemons that started claiming run on;
nobody has to start, fail or be killed. Hub threads run and their waits end; a scan
that fails is retried for ever by the code, so `FairSpec` assumes that it does not
fail for ever (`<>[]` no `Fail`). In a run the threads of the daemon run on, and
`Followed` says that somebody takes the next action, running a job when it asks for a
response. That is an assumption about a person or the orchestration loop, not about
the scheduler: `Converges` says that the next action never leads in a circle. Approving
anew what has been run anew is strongly fair (`Reapproved`), because jobs for the same
stage may be admitted in between: the next action goes on asking for a response until
the stage is approved. In the draft stage threads run on and get the unit lock (strongly
fair: others may take it in between), a job that is queued is taken up, and the next
action is followed (`Follow`), again an assumption about a person or the loop. A provider
that is asked again and again gives a usable answer in the end (`Useful`): without that
no retry helps, and no code could promise more. In the queue a driver that has begun runs on, a job ends, and somebody starts
`queue run` again and again while courses are pending; nobody has to judge, edit or
rework anything. `release` and `guide_pipeline` state no liveness: their operations are
begun by people at will, and `SomebodyGoesOn` says that none can block the others: one of
them waits for no lock (`NobodyIsStuck`), and an operation that waits for no lock has a
step (`StepIsDue` names it).

What the violation shows, and what the models contain besides.

* `discovery_stale`: two claimants both judge the file stale; the second unlinks the
  claim that the first has created meanwhile, and both return `True`, against "False
  if a live daemon (or an in-flight claimant) already owns it".

One more disagreement was met while proving `OpenGateIsSound`, and the property says
what the code does. `content.excessive_length` is a diagnostic of the parser
(`guides/parse.py:144`) and, in a report, a warning that blocks nothing
(`guides/validation.py:160`). A repair whose only defects are texts that are too long
does not parse, so no document is built and its published content is never scanned; yet its
final report has no blocking finding and the gate is open. The plan
`docs/superpowers/plans/2026-07-12-deterministic-release-gates.md:776` says that "a
`None` document implies blocking findings, which the gate already refused", and a
comment in `runs_finalize.py:277` that "an open waiver gate guarantees ... the checked
document and its guide are present". Nothing is released by it: `finalize` parses again
and refuses (`runs_finalize.py:141`), and `export` guards against the missing document
(`runs_finalize.py:276`).

Cases the models contain, and the properties are worded around:

* the hook is "called exactly once per job that reaches a terminal status" only without
  a restart: `reconcile` makes running records `interrupted` without it, and a death
  between the last save and the hook loses the call. `HookOnce` says never twice;
  `EveryJobSettles` says once, in an instance without a death.
* the hook judges a batch by the records that exist. When the first module job ends
  before the loop has saved the second (a provider that is not installed fails at
  once), the run continues from, or is reported failed for, a batch of one. It cannot
  happen to a fan-out that a hook starts, since the hook holds `_chain_lock` until the
  loop is done. `LastUnlessEarly` and the theorem `FromLast` say that this is the only
  cause.
* a waiver of a finding of an older guide that is saved late replaces the waivers of the
  newer one; `WaiversStand` is about one guide. Load, change and save are one step there,
  since they are one block under the manifest section: that two of them do not
  interleave is what the section gives, not what this run finds out.

Close to it: two HTTP threads are inside the workspace lock together, both
pass `active_for`, both fan out. `OneLivePerUnit` still holds, by the check in
`Worker.enqueue`; but a module that one fan-out has finished may be run again by the
other, whose response is then refused.

## Proofs

TLC shows each property on an instance; the theorems hold for every value of the
constants that satisfies the assumption named in the module (`PoolAssumption`,
`ChainAssumption`, `LockAssumption`, `DiscoveryAssumption`, `HubAssumption`,
`StagesAssumption`, `DraftAssumption`, `QueueAssumption`, `PipelineAssumption`,
`StoresAssumption`, `ReleaseAssumption` and `NoFileAssumption`: finiteness, distinct
sentinel values, bounds that are numbers, paths of a run that end in `done`).

* `WorkerPoolProofs`. `TypeCorrect`; `Invariance` of `PoolInv`, from which `OneBatch`,
  `AnnouncedOnce`, `NoneLost` and `TruthIsTold` follow; `Implementation`: every step is a step of `JobRecords` or
  a stutter, and `Final` from it. `HookOnce` and `OneBatchAtATime` are not inductive:
  the first needs to know who may announce a job (`OneAnnouncer`: the thread that holds
  it past its last write, or the client that decided the cancel, never both, because a
  cancel owns only unclaimed jobs), the second that the records saying `running` are
  among the slots in memory and that the slots hold one batch (`Slots`,
  `HeldRecord`), which a crash must not break although it clears the slots
  (`reconcile` runs before any thread). `RecordTellsTruth` needs `Traces`: a job that has
  not started has no provider and no response, and the thread that executes it knows at
  each point which of the two there are. `NothingLost` holds because a thread lets go
  only of a terminal record (`HeldRecord`) and the requeued order is a surjection on
  the queued records (`RequeueType`).
  `NeverStuck` (of `PoolMoves`) is the safety core of `EveryJobSettles` and
  `ShutdownDrains`: while a thread is parked some thread has a step. A slot that is taken
  has its thread (`SlotsHeld`); without one, the head of the admission order is in a
  thread's hands, because what waits behind a job that is still on the queue is behind it
  on the queue too (`AdmissionOrder`), and that thread is admitted or was woken. In a
  shutdown the sentinels on the queue, those still owed and the threads that have exited
  are as many as the threads (`SentinelForEach`). `NoneUnannounced` (of `HookOwed`)
  is the other half of "exactly once": until a daemon dies whoever made a job terminal
  has announced it or still has to.
* `FanoutChainProofs`. `ChainInvariance` of `ChainInv`, then `NoDoubleDraft`,
  `ContinuesOnce` and `FromLast`; of `OutcomeInv`, then `OutcomesHold`. `ContinuedOnce` needs `Settled` (only terminal jobs
  hold the chain lock or have continued) and that needs `Fresh` (an attempt saves a
  job at most once, so no terminal record is overwritten). `FromLast` (of
  `LastUnlessEarly`) needs `Unhurried` while `early` is false: a job that got anywhere
  belongs to a saved fan-out, and saved, settled batches no longer change
  (`BatchStable`); `early` stays true once it is (`EarlyStays`). `OutcomesHold` (of
  `OutcomesStand`) compares two counts of responses by their sets: what an attempt saw
  stays drafted, a chained attempt selects only what it did not see (`Gaining`), and the
  one hook that holds the chain lock holds it for a job that succeeded (`Holding`), so
  that its batch has added a unit (`NeverStalled`).
  `LockIsServed` (of `LockGoesOn`) and `ChainIsRemembered` (of `NeverForgotten`) are the
  safety core of `ChainContinues`. While the chain lock is taken a continuation is under
  way (`Served`) and, inside its fan-out, a least unit is left to save (`FirstUnit`, by
  the well-founded order of the numbers). Once every job of a chained fan-out is over, one
  of them is due, has the lock, or has its continuation recorded: a hook that returns
  without continuing leaves either the lock to another or a sibling that is still to end
  (`HookOwes`, `StepOwes`).
* `DraftUnitsProofs`. `UnitsCorrect` (of `UnitsInv`), `StageFollows` (of
  `StageFollowsUnits`) and `HandStands` (of `HandWorkStands`) from `DraftInv`. That a
  current unit answers its prompt needs that no job runs and no other fan-out is under way
  while a fan-out recompiles (`FanoutAlone`) and that a response was made from the prompt
  that stands over it, unless it is marked (`AnswersPrompt`). `StageFollowsUnits` speaks
  of the moment when nobody assembles; it is inductive with what an assembly in progress
  knows (`SnapshotStands`: what is about to be written is still the assembly of what is
  saved, since whoever saves a unit needs the lock) and who has the lock (`LockHeld`).
* `WorkspaceStoresProofs`. Of the lock, `DepthCorrect` (the counter is the cardinality of
  the blocks inside and the file is locked exactly while it is positive) and `Excludes`
  (refinement of `ProcessExclusion`). Of the stores, `StoresUseTheLock`: every step of the stores is a step of
  `WorkspaceLock` or leaves its variables, so what is proved of the lock holds of the
  workspace (`StoresExclude`, and `DepthIsExact` in what follows). `StoresInvariance` of
  `StoresInv`, then `WritesKept` and `RunsStand`. `LocksKeepWrites` needs three parts: one
  call of a process at a time has the lock on a file (`HoldsOnce`), who rewrites the
  manifest is inside its section (`InSection`), and therefore what a call has decided on is
  still there, or was replaced by another process where only threads are locked out
  (`SeenNow`). `RunStands` needs in addition that a command that moves a run is inside
  its guard and the run is active (`GuardHeld`): the flag is written by the daemon alone,
  from inside its own section. `Steps` says once what a step does to its call and that it
  leaves the others alone; each part is then preserved from that. The theorem needs of the
  constants that `None` is no content and no manifest.
* `DaemonProofs`. Of discovery, `DiscoveryInvariance` of `DiscoveryInv`; from it `Released`, under
  every fault, and `OneDaemonAtATime`, under `Orderly`. `ClaimsHold` is the
  strengthening: a file about to be removed as stale stays stale, because nobody else
  claims meanwhile.
  Of the events, `HubInvariance` of `HubInv`, then `NoNoticeLost`, `EveryStreamWatched`,
  `OnlyCurrentScans`. `LocksHeld` says who may scan; `NothingLost` is inductive only
  with `fp <= disk` and `walk <= disk`: a fingerprint never runs ahead of the
  workspace, so a change that a scan has passed by still differs at the next one.
* `CourseProofs`. Of the queue, `QueueTyped` (of `QueueTypeOK`) and `PassesKeep` (of
  `PassesKeepToTheirCourse`) from `QueueInv`: every queue that is on disk or about to be
  saved is sound (no course twice, a stop for what has stopped), and a pass has each of
  its courses once. `NthOfSet` counts: the sequence of
  pending topics a pass takes, in the order of the file, has each of them once.
  `EntryStep` and `JudgmentStep` then look at the steps of one pass. `PassesEnd` (of
  `PassesRunOut`) is the safety core of `EveryCourseStops`: `StepsLeft`, four steps for each
  iteration that the cap still allows and seven more for each course of the pass, falls
  with every step of a pass (`DriveShortens`), and no edit, job, rework or other pass
  raises it (`OthersSpare`).
  Of the documents, `DocumentsFit` (of `GuideInv`), `ReportsAreSound` and
  `RepairsAreLocal` from `PipelineInv`, which adds that the spec is of the version of the
  run and that the final trace is that of its guide. The weight is in the operators.
  `ParserSays`: every diagnostic of the parser has one of its codes, rule by rule;
  `LoudCodes`: all of them but the one of over-long texts block. `PublishedIsRead`: the walk
  of the rules misses nothing that is published, the inside of a diagram included
  (`DiagramIsRead`). `FindingsClean`: what a
  report is made of has been sanitized, whatever rule raised it. `OpenMeansAdvice`: a rule
  named in an open report is an advice; hence `FinalGateSound`. `SplicedParses` shows that
  a splice keeps what is outside of the scope, from the shape that a guide which parses
  has (`ParsedShape`): the same fields before and after, and modules in the same order.
  `AssemblyKeepsEverything` (of `AssemblyLosesNothing`) is about skeletons and answers of
  any length. The assembly walks over the modules, and for each over the lists it gives;
  both walks are recursive functions on a prefix (`Taken`, `Contributed`). That their
  definitions have solutions (`TakenDef`, `ContributedDef`), and what a prefix has kept
  (`TakenKeeps`, `ContributedKeeps`), is proved by the least prefix of which it would not
  hold (`LeastOf`, `EveryPrefix`). It needs of the constants that an outline has a list of
  modules, that a skeleton has lists where the guide has them, and that an answer for a
  module gives lists: the shapes their parsers enforce before anything is assembled. That
  the other arrays of an answer are sequences is assumed with them; no proof uses it.
  The theorems need of the constants that the value for an absent
  file is no spec and no outline, and that every answer is of one of the four kinds.
* `RunStagesProofs`. `TypeCorrect`; `NoJobUnderACommand`, from the types alone, because
  a command looks for jobs and a job is admitted under one lock; `StagesInvariance` of
  `StagesInv`, then `StaleIsTold` and `FinalIsTrue`. While a run is orderly one
  operation is under way, so the invariant is a statement about that one (`Orderly(a)`
  in the proofs): what it has in hand is so (`InHand`), the latest prompt event says
  what the prompt embeds unless it is just being written, and a binding keeps every hash
  of the prompt its text was made from (`Keeps`). `StaleIsTrue` needs in addition that a
  hash in an event belongs to a stage that is approved and stays so (`Known`).

* `ReleaseProofs`. `Invariance` of `IInv`, then `CurrentStaysTrue`, `GateStaysHonest` and
  `WaiversAreKept`. `CurrentIsTrue` is not inductive: an event is appended after the
  file it names, by an operation that computed its content before. The invariant
  therefore says of each operation what it knows where it is (`OpOK`: an operation
  inside the section knows what the file it has written says, since nobody else writes
  there, `Frame`), and of the files what they say for ever (`Facts`: an event about a
  report names the profile it was computed for; an event of a prompt names its guide
  and trace; an approval names the projection of its guide; a sidecar is clean in
  itself). That a current export is clean today follows from equality of the sidecar
  with what would be written now. A prompt's event hashes the profile as it stands
  when it is appended; that this cannot hide another profile needs traces of two
  profiles to differ, which is the definition of `Trace`.
  `LocksNeverBlockAll` (of `NobodyIsStuck`, in `OneIsDue`) follows from the order in which locks are
  taken (`LockOrder`): who has a profile lock is past the place where it is waited for, a
  thread that has the section waits for nothing, and a command, which may have it from the
  start, has a profile lock of its own. Every step is one of five ways to move an
  operation (`MovesOne`), and each keeps that order.
  `OneCanGoOn` (of `OneIsDue`) adds that an operation which waits for no lock is at a
  place where its code goes on, by the places an operation can be at (`Places`, in `IInv`).

Model-checked only: that an operation which `OneIsDue` names is ENABLED, which is what is
left of `SomebodyGoesOn`, and all liveness (`EveryJobSettles`, `ShutdownDrains`,
`ChainContinues`, `SomeoneServes`, `Told`, `Converges` of runs and of drafts,
`EveryCourseStops`). ENABLED and liveness under fairness are beyond the prover. What could
go wrong with several of them without fairness being in doubt is proved, though: a job that
nobody works on, an announcement nobody owes, a pool in which every thread is parked, a
chain that is forgotten or locked for good, a pass that goes round in circles, a
notification that nothing owes (`NoneLost`, `NoneUnannounced`, `NeverStuck`,
`ChainIsRemembered`, `LockIsServed`, `PassesEnd`, `NoNoticeLost`); TLC adds that,
scheduled as stated, the steps that are due are taken. The library's induction theorems
take an operator as a parameter, which the provers cannot instantiate; induction is
therefore done through a least counterexample (`NatLessThanWellFounded`, `WFMin`). The
models declare no recursive operators, only recursive functions.

`DepthCorrect`, `ContinuesOnce`, `LockIsServed`, `ChainIsRemembered`, `PassesEnd`,
`EveryStreamWatched`, `Final`, the type theorems and the invariances state properties that no run repeats; TLC has checked each of these formulas
on the instances above before it was proved.

## Not modelled

* Rendering, prompt texts, the Markdown projection, canonical bytes, TOML and argument
  parsing, payload building, static files, the reveal command: they keep no state, or
  only format it. Where a model needs what they do (a prompt embeds its sources, equal
  guides have equal bytes) it says so as a function of values.
* The legacy Markdown mode: its stages are those of `RunStages` without contract,
  units, reports and waivers.
* Provider adapters: building an argv and parsing an answer. The process they start is in
  `WorkerPool`, and any answer may come of it.
* The cache of a manifest within one request (`manifest_read_scope`): one thread reads
  through it and never writes from it.
* `os.replace` under Windows sharing, with its retries: a write is one step.
* The guide runtime and the cockpit: programs of the reader's and the author's browser,
  with no shared state but the HTTP API; any stream may come and go in `EventHub`, any
  request at any time in the other modules.
* Reuse of process ids, and clocks that go backwards.

What could follow: the spec and outline stages as stages of `RunStages` (their contracts are in
`GuidePipeline`); the profile drafting job.
