------------------------------ MODULE Release ------------------------------
(***************************************************************************)
(* From the approved repair of an interactive guide to its export          *)
(* (education_pipeline/runs_reports.py, runs_waivers.py, runs_finalize.py, *)
(* runs_personalization.py): the final validation report and its event,    *)
(* waivers bound to the hash of a guide, the attached learner profile and  *)
(* the trace of a guide to it, the personalization audit, the final guide, *)
(* the export and its quality report, and what reads as current of these.  *)
(*                                                                         *)
(* A guide stands for its bytes, their hash and its rendering. Threads of  *)
(* the daemon share one profile lock; a command line has one of its own.   *)
(* The section is the topic's manifest lock together with the workspace    *)
(* lock: one holder among all processes. How a repair is approved and a    *)
(* run is finalized file by file is RunStages.                             *)
(***************************************************************************)
EXTENDS Naturals, FiniteSets

CONSTANTS
    Guides,      \* what the approved repair may say
    Profiles,    \* learner profiles that may be attached
    Goals,       \* profiles with learning goals
    Found,       \* Found[g][p]: the blocking findings of g for the profile p
    Waivable,    \* findings that may be waived
    Threads,     \* request threads of the daemon
    Commands,    \* command lines, processes of their own
    None,
    MaxOps,      \* bound: operations
    MaxChanges,  \* bound: repairs approved anew and profiles attached
    MaxDeaths    \* bound: deaths of a process

Actors   == Threads \cup Commands
Attached == Profiles \cup {None}

ASSUME ReleaseAssumption ==
    /\ IsFiniteSet(Guides) /\ None \notin Guides \cup Profiles \cup Actors
    /\ "never" \notin Attached
    /\ Goals \subseteq Profiles
    /\ \A g \in Guides, p \in Attached : IsFiniteSet(Found[g][p])
    /\ Threads \cap Commands = {}
    /\ {MaxOps, MaxChanges, MaxDeaths} \subseteq Nat

\* None stands for a file that is not there.
ASSUME NoFileAssumption ==
    \A g \in Guides, f \in SUBSET Waivable : [guide |-> g, found |-> f] # None

VARIABLES
    approved,  \* the approved repair
    profile,   \* inputs/profile.toml
    report,    \* reports/final-validation.json
    trace,     \* reports/personalization-trace.json
    validated, \* validated[r]: the profile of the latest event about report r
    waivers,   \* reports/validation-waivers.json
    final,     \* final/guide.json
    finalized, \* the source of the latest finalized event
    html,      \* final/guide.html
    sidecar,   \* final/guide.report.json
    audit,     \* the files and events of the audit
    profiling, \* who holds a profile lock
    section,   \* who holds the section
    op,        \* op[a]: the operation a is in the middle of
    granted,   \* history: what people waived, by guide
    ops, changes, deaths

release == <<final, finalized>>
export  == <<html, sidecar>>
reports == <<report, trace, validated>>
locks   == <<profiling, section>>
bounds  == <<ops, changes, deaths>>
vars    == <<approved, profile, reports, waivers, release, export, audit, locks, op, granted, bounds>>

NoOp    == [kind |-> "none", at |-> "idle", guide |-> None, profile |-> None, finding |-> None, made |-> None]
Report(g, p) == [guide |-> g, found |-> Found[g][p]]
Reports == {Report(g, p) : g \in Guides, p \in Attached}

\* Two profiles never have the same trace of a guide.
Trace(g, p) == IF p = None THEN None ELSE <<g, p>>
Binding(g, p) == [guide |-> g, profile |-> p, trace |-> Trace(g, p)]

NoAudit == [prompt |-> None, prompted |-> None, response |-> None,
            approved |-> None, projection |-> None, approval |-> None, later |-> FALSE]

Init ==
    /\ approved \in Guides /\ profile \in Attached
    /\ report = None /\ trace = None /\ validated = [r \in Reports |-> "never"]
    /\ waivers = None
    /\ final = None /\ finalized = None /\ html = None /\ sidecar = None
    /\ audit = NoAudit
    /\ profiling = {} /\ section = None
    /\ op = [a \in Actors |-> NoOp]
    /\ granted = {}
    /\ ops = 0 /\ changes = 0 /\ deaths = 0

-----------------------------------------------------------------------------
\* What reads as current.

\* report_state: the guide of the report, and the profile of its latest event.
ReportCurrent ==
    /\ report # None /\ report.guide = approved
    /\ validated[report] = profile

\* personalization_trace_state.
TraceCurrent == trace # None /\ trace = Trace(approved, profile)

\* apply_waivers: waivers of another guide, and of what is not waivable, do not
\* count.
Waived(g) == IF waivers # None /\ waivers.guide = g THEN waivers.found \cap Waivable ELSE {}
GateOpen(g, p) == Found[g][p] \subseteq Waived(g)

\* is_finalized.
Finalized == final # None /\ finalized # None /\ finalized = approved

\* _current_audit_inputs.
AuditReady == profile # None /\ ReportCurrent /\ TraceCurrent
AuditInputs == Binding(approved, profile)

\* audit_prompt_is_current: the event binds the bytes of the prompt and the
\* inputs of today.
PromptCurrent ==
    /\ audit.prompt # None /\ audit.prompted # None
    /\ AuditReady
    /\ audit.prompted = [prompt |-> audit.prompt, of |-> AuditInputs]

\* Mutant: an audit is current while its files are as they were approved.
AuditStateOfFiles(inputs) ==
    IF audit.approval = None THEN "not_run"
    ELSE IF /\ ~audit.later
            /\ audit.approval.approved = audit.approved
            /\ audit.approval.projection = audit.projection
    THEN "current" ELSE "stale"

\* _public_audit_snapshot_locked: every file and input of the approval as it
\* was, and nothing later that does not preserve it.
AuditState(inputs) ==
    IF audit.approval = None THEN "not_run"
    ELSE IF /\ ~audit.later
            /\ audit.approval = [prompt |-> audit.prompt, approved |-> audit.approved,
                                 projection |-> audit.projection, of |-> inputs]
    THEN "current" ELSE "stale"

\* The inputs an export compares the audit with: its own guide, not the report.
ExportAudit ==
    IF profile # None /\ trace # None THEN AuditState(Binding(final, profile))
    ELSE IF AuditReady THEN AuditState(AuditInputs)
    ELSE IF audit.approval = None THEN "not_run" ELSE "stale"

\* Mutant: the quality report does not say what was waived.
QualityWithoutWaivers ==
    [html |-> final, report |-> Report(final, profile), persisted |-> report,
     waived |-> {}, stale |-> FALSE,
     audit |-> ExportAudit, projection |-> IF ExportAudit = "current" THEN audit.projection ELSE None,
     trace |-> IF profile = None THEN None ELSE trace]

\* _quality_report_bytes: what an export publishes beside the document.
Quality ==
    [html |-> final, report |-> Report(final, profile), persisted |-> report,
     waived |-> Waived(final), stale |-> waivers # None /\ waivers.guide # final,
     audit |-> ExportAudit, projection |-> IF ExportAudit = "current" THEN audit.projection ELSE None,
     trace |-> IF profile = None THEN None ELSE trace]

\* _safe_trace_projection_bytes: a trace that is there, or due, is the one of
\* the final guide.
TraceFits == profile \in Goals \/ (profile # None /\ trace # None) => trace = Trace(final, profile)

\* export_state; the document is compared through its hash in the sidecar.
ExportCurrent ==
    /\ html # None /\ sidecar # None
    /\ Finalized /\ TraceFits /\ report # None
    /\ sidecar = [Quality EXCEPT !.html = html]

-----------------------------------------------------------------------------
\* Locks and operations.

\* One thread of the daemon, and any command line, each in its own process.
ProfileFree(a) == a \in Threads => profiling \cap Threads = {}
SectionFree(a) == section \in {None, a}

\* A command line holds the workspace lock all along, unless it validates.
Guarded(a, kind) == a \in Commands /\ kind # "validate"

Begin(a, o) ==
    /\ op[a] = NoOp /\ ops < MaxOps /\ ops' = ops + 1
    /\ Guarded(a, o.kind) => section = None
    /\ section' = IF Guarded(a, o.kind) THEN a ELSE section
    /\ op' = [op EXCEPT ![a] = o]
    /\ UNCHANGED <<changes, deaths>>

At(a, kind, at) == op[a].kind = kind /\ op[a].at = at
Move(a, at) == op' = [op EXCEPT ![a].at = at]

\* The end of an operation, in whatever state, gives its locks back.
Leave(a) ==
    /\ op' = [op EXCEPT ![a] = NoOp]
    /\ profiling' = profiling \ {a}
    /\ section' = IF section = a THEN None ELSE section

\* Who waits for the section of another process gives up.
Refuse(a) ==
    /\ op[a].at = "section" /\ section # None
    /\ ~ {a, section} \subseteq Threads
    /\ Leave(a)
    /\ UNCHANGED <<approved, profile, reports, waivers, release, export, audit, granted, bounds>>

-----------------------------------------------------------------------------
\* validate_and_gate.

Validate(a) ==
    /\ Begin(a, [NoOp EXCEPT !.kind = "validate", !.at = "profile"])
    /\ UNCHANGED <<approved, profile, reports, waivers, release, export, audit, profiling, granted>>

\* The report is computed once the profile can no longer be replaced.
Compute(a) ==
    /\ At(a, "validate", "profile") /\ ProfileFree(a)
    /\ profiling' = profiling \cup {a}
    /\ op' = [op EXCEPT ![a].guide = approved, ![a].profile = profile, ![a].at = "section"]
    /\ UNCHANGED <<approved, profile, reports, waivers, release, export, audit, section, granted, bounds>>

WriteReport(a) ==
    /\ At(a, "validate", "section") /\ SectionFree(a)
    /\ section' = a
    /\ report' = Report(op[a].guide, op[a].profile)
    /\ Move(a, "trace")
    /\ UNCHANGED <<approved, profile, trace, validated, waivers, release, export, audit, profiling, granted, bounds>>

WriteTrace(a) ==
    /\ At(a, "validate", "trace")
    /\ trace' = IF op[a].profile = None THEN trace ELSE Trace(op[a].guide, op[a].profile)
    /\ Move(a, "event")
    /\ UNCHANGED <<approved, profile, report, validated, waivers, release, export, audit, locks, granted, bounds>>

RecordValidated(a) ==
    /\ At(a, "validate", "event")
    /\ validated' = [validated EXCEPT ![report] = op[a].profile]
    /\ Leave(a)
    /\ UNCHANGED <<approved, profile, report, trace, waivers, release, export, audit, granted, bounds>>

-----------------------------------------------------------------------------
\* record_waiver and remove_waiver: what is waived is computed afresh, outside
\* the section; the daemon also wants the current report to say it.

Waive(a, f) ==
    /\ f \in Found[approved][profile] \cap Waivable
    /\ a \in Threads => ReportCurrent /\ f \in report.found
    /\ Begin(a, [NoOp EXCEPT !.kind = "waive", !.at = "section", !.guide = approved, !.finding = f])
    /\ granted' = granted \cup {<<approved, f>>}
    /\ UNCHANGED <<approved, profile, reports, waivers, release, export, audit, profiling>>

Unwaive(a, f) ==
    /\ Begin(a, [NoOp EXCEPT !.kind = "unwaive", !.at = "section", !.guide = approved, !.finding = f])
    /\ UNCHANGED <<approved, profile, reports, waivers, release, export, audit, profiling, granted>>

\* Mutant: a new waiver starts a new set.
ItemsForgotten(g) == {}

\* _current_waiver_items_locked: a set that is bound to another guide is dropped.
Items(g) == IF waivers # None /\ waivers.guide = g THEN waivers.found ELSE {}

SaveWaiver(a) ==
    /\ At(a, "waive", "section") /\ SectionFree(a)
    /\ waivers' = [guide |-> op[a].guide, found |-> Items(op[a].guide) \cup {op[a].finding}]
    /\ Leave(a)
    /\ UNCHANGED <<approved, profile, reports, release, export, audit, granted, bounds>>

\* Nothing to remove leaves the file alone, the last one takes it away.
DropWaiver(a) ==
    LET items == Items(op[a].guide)
        rest  == items \ {op[a].finding}
    IN /\ At(a, "unwaive", "section") /\ SectionFree(a)
       /\ waivers' = IF rest = items THEN waivers
                     ELSE IF rest = {} THEN None ELSE [guide |-> op[a].guide, found |-> rest]
       /\ Leave(a)
       /\ UNCHANGED <<approved, profile, reports, release, export, audit, granted, bounds>>

-----------------------------------------------------------------------------
\* _finalize_guide_v1: the checks hold no lock.

Finalize(a) ==
    /\ ReportCurrent
    /\ profile \in Goals => TraceCurrent
    /\ GateOpen(approved, profile)
    /\ Begin(a, [NoOp EXCEPT !.kind = "finalize", !.at = "files", !.guide = approved])
    /\ UNCHANGED <<approved, profile, reports, waivers, release, export, audit, profiling, granted>>

WriteFinal(a) ==
    /\ At(a, "finalize", "files")
    /\ final' = op[a].guide
    /\ Move(a, "section")
    /\ UNCHANGED <<approved, profile, reports, waivers, finalized, export, audit, locks, granted, bounds>>

\* The event hashes the approved repair as it stands.
RecordFinalized(a) ==
    /\ At(a, "finalize", "section") /\ SectionFree(a)
    /\ finalized' = approved
    /\ Leave(a)
    /\ UNCHANGED <<approved, profile, reports, waivers, final, export, audit, granted, bounds>>

-----------------------------------------------------------------------------
\* _export_guide_v1: everything under both locks.

Export(a) ==
    /\ Begin(a, [NoOp EXCEPT !.kind = "export", !.at = "profile"])
    /\ UNCHANGED <<approved, profile, reports, waivers, release, export, audit, profiling, granted>>

\* Mutant: the section is taken before the profile lock.
TakeSectionFirst(a) ==
    /\ At(a, "export", "profile")
    /\ \/ /\ section # a /\ SectionFree(a) /\ section' = a
          /\ UNCHANGED <<profiling, op>>
       \/ /\ section = a /\ ProfileFree(a) /\ profiling' = profiling \cup {a}
          /\ Move(a, "section") /\ UNCHANGED section
    /\ UNCHANGED <<approved, profile, reports, waivers, release, export, audit, granted, bounds>>

TakeProfile(a) ==
    /\ At(a, "export", "profile") /\ ProfileFree(a)
    /\ profiling' = profiling \cup {a}
    /\ Move(a, "section")
    /\ UNCHANGED <<approved, profile, reports, waivers, release, export, audit, section, granted, bounds>>

Exportable == Finalized /\ ReportCurrent /\ GateOpen(final, profile) /\ TraceFits

Render(a) ==
    /\ At(a, "export", "section") /\ SectionFree(a)
    /\ IF Exportable
       THEN section' = a /\ op' = [op EXCEPT ![a].made = Quality, ![a].at = "html"] /\ UNCHANGED profiling
       ELSE Leave(a)
    /\ UNCHANGED <<approved, profile, reports, waivers, release, export, audit, granted, bounds>>

WriteHtml(a) ==
    /\ At(a, "export", "html")
    /\ html' = op[a].made.html
    /\ Move(a, "sidecar")
    /\ UNCHANGED <<approved, profile, reports, waivers, release, sidecar, audit, locks, granted, bounds>>

WriteSidecar(a) ==
    /\ At(a, "export", "sidecar")
    /\ sidecar' = op[a].made
    /\ Leave(a)
    /\ UNCHANGED <<approved, profile, reports, waivers, release, html, audit, granted, bounds>>
-----------------------------------------------------------------------------
\* The personalization audit.

\* prepare_personalization_audit reads its inputs, then looks again inside the
\* section. The event hashes the profile and the trace as they stand.
Prepare(a) ==
    /\ AuditReady
    /\ Begin(a, [NoOp EXCEPT !.kind = "prepare", !.at = "section", !.made = AuditInputs])
    /\ UNCHANGED <<approved, profile, reports, waivers, release, export, audit, profiling, granted>>

\* The same prompt as the approved one preserves a current approval.
Preserves(prompt) == AuditState(AuditInputs) = "current" /\ audit.approval.prompt = prompt

\* _prompt_preserves_approval: named by its event, and bound to the same files.
Preserved(a, now) == op[a].finding /\ now = audit.approval.of

WritePrompt(a) ==
    /\ At(a, "prepare", "section") /\ SectionFree(a)
    /\ IF AuditReady /\ AuditInputs = op[a].made
       THEN /\ section' = a
            /\ op' = [op EXCEPT ![a].at = "event", ![a].finding = Preserves(AuditInputs)]
            /\ audit' = [audit EXCEPT !.prompt = AuditInputs]
            /\ UNCHANGED profiling
       ELSE Leave(a) /\ UNCHANGED audit
    /\ UNCHANGED <<approved, profile, reports, waivers, release, export, granted, bounds>>

RecordPrompt(a) ==
    LET now == [guide |-> op[a].made.guide, profile |-> profile, trace |-> trace]
    IN /\ At(a, "prepare", "event")
       /\ audit' = [audit EXCEPT !.prompted = [prompt |-> audit.prompt, of |-> now],
                     !.later = @ \/ (audit.approval # None /\ ~Preserved(a, now))]
       /\ Leave(a)
       /\ UNCHANGED <<approved, profile, reports, waivers, release, export, granted, bounds>>

\* A response to the prompt is refused once the prompt is stale.
Answer ==
    /\ PromptCurrent /\ ops < MaxOps /\ ops' = ops + 1
    /\ audit' = [audit EXCEPT !.response = audit.prompt]
    /\ UNCHANGED <<approved, profile, reports, waivers, release, export, locks, op, granted, changes, deaths>>

\* _approve_personalization_audit: under both locks, and a mark before the
\* files are replaced.
ApproveAudit(a) ==
    /\ audit.response # None
    /\ Begin(a, [NoOp EXCEPT !.kind = "approve", !.at = "profile"])
    /\ UNCHANGED <<approved, profile, reports, waivers, release, export, audit, profiling, granted>>

ReadResponse(a) ==
    /\ At(a, "approve", "profile") /\ ProfileFree(a)
    /\ IF PromptCurrent
       THEN /\ profiling' = profiling \cup {a}
            /\ op' = [op EXCEPT ![a].at = "section", ![a].made = AuditInputs, ![a].finding = audit.response]
            /\ UNCHANGED section
       ELSE Leave(a)
    /\ UNCHANGED <<approved, profile, reports, waivers, release, export, audit, granted, bounds>>

BeginApproval(a) ==
    /\ At(a, "approve", "section") /\ SectionFree(a)
    /\ IF PromptCurrent /\ AuditInputs = op[a].made /\ audit.response = op[a].finding
       THEN /\ section' = a /\ Move(a, "files") /\ UNCHANGED profiling
            /\ audit' = [audit EXCEPT !.later = audit.approval # None]
       ELSE Leave(a) /\ UNCHANGED audit
    /\ UNCHANGED <<approved, profile, reports, waivers, release, export, granted, bounds>>

WriteApproved(a) ==
    /\ At(a, "approve", "files")
    /\ audit' = [audit EXCEPT !.approved = op[a].finding]
    /\ Move(a, "projection")
    /\ UNCHANGED <<approved, profile, reports, waivers, release, export, locks, granted, bounds>>

\* The projection is made from the response and the guide it was checked with.
WriteProjection(a) ==
    /\ At(a, "approve", "projection")
    /\ audit' = [audit EXCEPT !.projection = <<op[a].finding, op[a].made.guide>>]
    /\ Move(a, "event")
    /\ UNCHANGED <<approved, profile, reports, waivers, release, export, locks, granted, bounds>>

RecordApproval(a) ==
    /\ At(a, "approve", "event")
    /\ audit' = [audit EXCEPT !.later = FALSE,
                  !.approval = [prompt |-> audit.prompt, approved |-> audit.approved,
                                projection |-> audit.projection,
                                of |-> [guide |-> op[a].made.guide, profile |-> profile, trace |-> trace]]]
    /\ Leave(a)
    /\ UNCHANGED <<approved, profile, reports, waivers, release, export, granted, bounds>>

-----------------------------------------------------------------------------
\* What is beside: another repair is approved, a profile is attached, a process
\* dies.

Change == changes < MaxChanges /\ changes' = changes + 1 /\ UNCHANGED <<ops, deaths>>

\* approve_stage of the repair holds no lock in the daemon.
Approve(a, g) ==
    /\ Change
    /\ a \in Commands => section = None
    /\ approved' = g
    /\ UNCHANGED <<profile, reports, waivers, release, export, audit, locks, op, granted>>

Attach(a, p) ==
    /\ Change /\ ProfileFree(a)
    /\ profile' = p
    /\ UNCHANGED <<approved, reports, waivers, release, export, audit, locks, op, granted>>

Die(process) ==
    /\ deaths < MaxDeaths /\ deaths' = deaths + 1
    /\ \E a \in process : op[a] # NoOp
    /\ op' = [a \in Actors |-> IF a \in process THEN NoOp ELSE op[a]]
    /\ profiling' = profiling \ process
    /\ section' = IF section \in process THEN None ELSE section
    /\ UNCHANGED <<approved, profile, reports, waivers, release, export, audit, granted, ops, changes>>

Start(a) ==
    \/ Validate(a) \/ Finalize(a) \/ Export(a) \/ Prepare(a) \/ ApproveAudit(a)
    \/ \E f \in Waivable : Waive(a, f) \/ Unwaive(a, f)

Step(a) ==
    \/ Compute(a) \/ WriteReport(a) \/ WriteTrace(a) \/ RecordValidated(a)
    \/ SaveWaiver(a) \/ DropWaiver(a)
    \/ WriteFinal(a) \/ RecordFinalized(a)
    \/ TakeProfile(a) \/ Render(a) \/ WriteHtml(a) \/ WriteSidecar(a)
    \/ WritePrompt(a) \/ RecordPrompt(a)
    \/ ReadResponse(a) \/ BeginApproval(a) \/ WriteApproved(a) \/ WriteProjection(a) \/ RecordApproval(a)

Next ==
    \/ \E a \in Actors : Start(a) \/ Step(a) \/ Refuse(a)
    \/ \E a \in Actors : (\E g \in Guides : Approve(a, g)) \/ (\E p \in Profiles : Attach(a, p))
    \/ Answer
    \/ Die(Threads) \/ \E a \in Commands : Die({a})

Spec == Init /\ [][Next]_vars

-----------------------------------------------------------------------------
\* Properties

\* Whoever is inside a locked part of an operation has its locks, and no other
\* does.
TypeOK ==
    /\ approved \in Guides /\ profile \in Attached
    /\ report \in Reports \cup {None}
    /\ waivers # None => waivers.guide \in Guides /\ waivers.found \subseteq Waivable /\ waivers.found # {}
    /\ Cardinality(profiling \cap Threads) <= 1
    /\ \A a \in Actors :
          /\ op[a].at \in {"trace", "html", "sidecar", "projection"} => section = a
          /\ op[a].kind = "export" /\ op[a].at # "profile" => a \in profiling

\* A report that reads as current says what validating the approved repair with
\* the attached profile would say, whatever was replaced while it was made
\* (report_state).
CurrentReportTrue == ReportCurrent => report = Report(approved, profile)

\* A waiver on file was given by a person for that very guide (_record_waiver).
WaiversAreGranted == waivers # None => \A f \in waivers.found : <<waivers.guide, f>> \in granted

\* The waivers of a guide are lost to a removal of theirs, or to one who waives
\* a finding of another guide, and to nobody else (_record_waiver).
WaiversStand ==
    [][\A a \in Actors, f \in Waivable :
          (/\ op[a].kind \in {"waive", "unwaive"} /\ op'[a] = NoOp /\ deaths' = deaths
           /\ waivers # None /\ f \in waivers.found /\ waivers.guide = op[a].guide
           /\ waivers' # waivers /\ (waivers' = None \/ f \notin waivers'.found)) =>
              op[a].kind = "unwaive" /\ op[a].finding = f]_vars

\* A document whose export reads as current is the final guide, and what blocks
\* it is waived today (export_state, _quality_report_bytes).
CurrentExportIsClean == ExportCurrent => html = final /\ GateOpen(final, profile)

\* What lets a guide pass was granted for it and holds today.
GateIsHonest == WaiversAreGranted /\ CurrentExportIsClean

\* An audit that reads as current was approved for the approved repair and the
\* attached profile, and its public findings were made from that guide
\* (_public_audit_snapshot_locked, _approve_personalization_audit).
CurrentAuditIsAboutThis ==
    AuditReady /\ AuditState(AuditInputs) = "current" =>
        /\ audit.projection = <<audit.approved, approved>>
        /\ audit.approval.of = AuditInputs

\* A prompt of the audit that reads as current embeds the approved repair, the
\* attached profile and their trace, although its event hashes the files after
\* the prompt was written (prepare_personalization_audit).
CurrentPromptIsAboutThis == PromptCurrent => audit.prompt = AuditInputs

\* What reads as current is about the guide and the profile of today.
CurrentIsTrue ==
    TypeOK /\ CurrentReportTrue /\ CurrentAuditIsAboutThis /\ CurrentPromptIsAboutThis

\* The operation of a waits for no lock that another one has.
CanGoOn(a) ==
    /\ op[a] # NoOp
    /\ op[a].at = "profile" => ProfileFree(a)
    /\ op[a].at = "section" => SectionFree(a)

\* While an operation is under way, one of them waits for nobody, so that none
\* has to give up for another to end (_profile_generation_lock).
NobodyIsStuck == (\E a \in Actors : op[a] # NoOp) => \E a \in Actors : CanGoOn(a)

\* What comes next in the operation of a, when no lock holds it up: the guards of
\* Step, by the place the operation is at.
StepIsDue(a) ==
    \/ /\ op[a].at = "profile" /\ ProfileFree(a)
       /\ op[a].kind \in {"validate", "export", "approve"}
    \/ /\ op[a].at = "section" /\ SectionFree(a)
       /\ op[a].kind \in {"validate", "waive", "unwaive", "finalize", "export", "prepare", "approve"}
    \/ op[a].kind = "validate" /\ op[a].at \in {"trace", "event"}
    \/ op[a].kind = "finalize" /\ op[a].at = "files"
    \/ op[a].kind = "export" /\ op[a].at \in {"html", "sidecar"}
    \/ op[a].kind = "prepare" /\ op[a].at = "event"
    \/ op[a].kind = "approve" /\ op[a].at \in {"files", "projection", "event"}

\* While an operation is under way one of them waits for no lock, and one that
\* waits for no lock is at a place its code goes on from.
OneIsDue == NobodyIsStuck /\ \A a \in Actors : CanGoOn(a) => StepIsDue(a)

\* Whatever locks are held, some operation can go on: only locks hold one up, and
\* a step that is due can be taken.
SomebodyGoesOn ==
    /\ OneIsDue
    /\ \A a \in Actors : StepIsDue(a) => ENABLED Step(a)
=============================================================================
