----------------------------- MODULE GuidePipeline -----------------------------
(***************************************************************************)
(* The documents of one interactive-guide run on their way from the        *)
(* contract blocks of the spec and the outline (guides/contract.py) to a   *)
(* validated and audited guide (runs.py, runs_reports.py,                  *)
(* runs_personalization.py). A step approves, writes or validates one      *)
(* document; what a provider or a person answered is an input of the step  *)
(* that takes the answer. Which answers are on disk, and what is current   *)
(* by its hash, is RunStages, DraftUnits and Release.                      *)
(***************************************************************************)
EXTENDS GuideFindings

CONSTANTS
    Specs, Outlines, Skeletons, Units, Guides, Fragments, Answers, Profiles, \* inputs
    Blueprint,    \* the run's blueprint: its id and the interactions it requires
    RunVersion,   \* the schema version of the run's content contract
    Setting,      \* what calibration compares a guide with
    MaxRedo       \* bound: documents that replace one or come before their prompt

None == [kind |-> "absent"]

AnswerKinds == {"guide", "module", "section", "text"}    \* what an answer may be

IsArray(s) == s \in Seq(ToSet(s))    \* a JSON array

(* What a drafted module gives, it gives in the two lists.                 *)
GivesLists(m) == DOMAIN m.gives \subseteq Lists /\ \A key \in DOMAIN m.gives : IsArray(m.gives[key])

ASSUME PipelineAssumption ==
    /\ MaxRedo \in Nat /\ RunVersion \in SupportedVersions
    /\ None \notin Specs \cup Outlines
    /\ \A g \in Guides : g.kind \in AnswerKinds
    /\ \A x \in Guides \cup Skeletons \cup Units \cup Fragments :
          \A key \in {"modules", "sections", "blocks"} \cap DOMAIN x : IsArray(x[key])
    /\ \A o \in Outlines : IsArray(o.modules)
    /\ \A s \in Skeletons : s.kind = "guide" => \A key \in Lists : IsArray(s[key])
    /\ \A u \in Units : u.kind = "module" => GivesLists(u)

VARIABLES
    spec, outline,   \* the approved contract blocks
    contract,        \* inputs/guide-contract.json
    profile,         \* the attached profile snapshot
    drafted, draft,  \* the response of the draft stage, and the approved one
    report,          \* the report of the draft: its guide, profile and findings
    reviewed,        \* the draft the approved qa and fact check were made from
    prompt,          \* the latest repair prompt: its scope and the draft it embeds
    repair,          \* the approved repair, with the scope its event records
    final,           \* the report of the repair, with its trace
    audit,           \* the approved audit answer, with its guide and trace
    redone           \* documents that did so far

early == <<spec, outline, contract>>
late  == <<prompt, repair, final, audit>>
vars  == <<early, profile, drafted, draft, report, reviewed, late, redone>>
-----------------------------------------------------------------------------
(* Contract blocks. A spec lists outcomes and interactions; an outline is  *)
(* a sequence of module plans, in the order of its JSON object. `faults`   *)
(* are the missing or repeated fences and the wrong keys and scalars.      *)

SpecFits(s) ==
    /\ s.faults = {}
    /\ s.schema \in SupportedVersions
    /\ s.minutes \in 5 .. 10000
    /\ Len(s.outcomes) \in 1 .. 20 /\ ~ Repeats(s.outcomes)
    /\ BadId \notin ToSet(s.outcomes)
    /\ s.interactions /= <<>> /\ ~ Repeats(s.interactions)
    /\ ToSet(s.interactions) \subseteq Interactive

Echoes(s) == s.blueprint = Blueprint.id /\ Blueprint.requires \subseteq ToSet(s.interactions)

OutlineFits(o) ==
    /\ o.faults = {}
    /\ o.modules /= <<>>
    /\ \A m \in ToSet(o.modules) :
          /\ m.id /= BadId
          /\ m.outcomes /= <<>> /\ BadId \notin ToSet(m.outcomes)
          /\ m.minutes \in 1 .. 1000
          /\ ToSet(m.types) \subseteq BlockTypes

Agree(s, o) == \A m \in ToSet(o.modules) : ToSet(m.outcomes) \subseteq ToSet(s.outcomes)

\* Mutant: the blocks were compared when the outline was approved.
BuildableApart(s, o) == SpecFits(s) /\ OutlineFits(o)

Buildable(s, o) == SpecFits(s) /\ OutlineFits(o) /\ Agree(s, o)

Summary(p) == IF p = NoProfile THEN "" ELSE p.publishes

(* build_guide_contract: the file is an object, without an order.          *)
Contract(s, o, summary) ==
    [schema |-> s.schema, blueprint |-> s.blueprint, minutes |-> s.minutes,
     outcomes |-> s.outcomes, interactions |-> s.interactions,
     modules |-> ToSet(o.modules), summary |-> summary]
-----------------------------------------------------------------------------
(* Scopes of a repair.                                                     *)
Whole                 == [module |-> "", section |-> ""]
OfModule(m)           == [module |-> m, section |-> ""]
OfSection(m, s)       == [module |-> m, section |-> s]

(* The targets that the prompt compilers find in a draft.                  *)
Targets(g) ==
    {OfModule(m.id) : m \in ToSet(g.modules)} \cup
    UNION {{OfSection(m.id, s.id) : s \in ToSet(m.sections)} : m \in ToSet(g.modules)}

Spliced(base, scope, text) ==
    IF scope.section = "" THEN SpliceModule(base, scope.module, text)
    ELSE SpliceSection(base, scope.module, scope.section, text)

Report(g) ==
    [guide |-> g, profile |-> profile,
     findings |-> Findings(g, profile, Setting) \cup TraceFinding(g, profile)]

FinalReport(g) ==
    [guide |-> g, profile |-> profile, trace |-> Trace(g, profile),
     findings |-> Report(g).findings \cup StaticFindings(g)]

Of(r, g) == r /= None /\ r.guide = g /\ r.profile = profile    \* report_state
-----------------------------------------------------------------------------
Init ==
    /\ spec = None /\ outline = None /\ contract = None /\ profile = NoProfile
    /\ drafted = None /\ draft = None /\ report = None /\ reviewed = None
    /\ prompt = None /\ repair = None /\ final = None /\ audit = None
    /\ redone = 0

(* The first document of its kind, at its place in the order of the run,   *)
(* or one that replaces it (overwrite) or is pasted before its prompt.     *)
Redo(fresh) == \/ fresh /\ redone' = redone
               \/ ~ fresh /\ redone < MaxRedo /\ redone' = redone + 1

ApproveSpec(s) ==
    /\ SpecFits(s) /\ Echoes(s) /\ s.schema = RunVersion
    /\ spec' = s /\ s /= spec /\ Redo(spec = None)
    /\ UNCHANGED <<outline, contract, profile, drafted, draft, report, reviewed, late>>

ApproveOutline(o) ==
    /\ spec /= None
    /\ OutlineFits(o) /\ SpecFits(spec) /\ Agree(spec, o)
    /\ outline' = o /\ o /= outline /\ Redo(outline = None)
    /\ UNCHANGED <<spec, contract, profile, drafted, draft, report, reviewed, late>>

(* The contract file is kept when it is the same, replaced on overwrite.   *)
WriteDraftPrompt ==
    /\ spec /= None /\ outline /= None
    /\ Buildable(spec, outline)
    /\ LET new == Contract(spec, outline, Summary(profile)) IN
       /\ contract' = new
       /\ IF contract = new THEN redone' = redone ELSE Redo(contract = None)
    /\ UNCHANGED <<spec, outline, profile, drafted, draft, report, reviewed, late>>

AttachProfile(p) ==
    /\ profile' = p /\ p /= profile /\ Redo(draft = None /\ contract = None)
    /\ UNCHANGED <<early, drafted, draft, report, reviewed, late>>

(* The saved units, a skeleton and an answer for each module of the        *)
(* outline, become the response of the stage.                              *)
AssembleDraft(s, answers) ==
    /\ contract /= None /\ Redo(drafted = None)
    /\ LET whole == Assemble(s, answers, Ids(outline.modules)) IN
       /\ whole.ok
       /\ drafted' = whole.guide /\ drafted' /= drafted
    /\ UNCHANGED <<early, profile, draft, report, reviewed, late>>

(* A response may be pasted before there is a prompt for it.               *)
AnswerDraft(g) ==
    /\ drafted' = g /\ g /= drafted /\ Redo(drafted = None /\ contract /= None)
    /\ UNCHANGED <<early, profile, draft, report, reviewed, late>>

(* Another supported version is refused; every other defect is left to     *)
(* validation.                                                             *)
VersionFits(g) == g.kind = "guide" /\ g.version \in SupportedVersions => g.version = RunVersion

ApproveDraft ==
    /\ drafted /= None /\ VersionFits(drafted)
    /\ draft' = drafted /\ draft' /= draft
    /\ UNCHANGED <<early, profile, drafted, report, reviewed, late, redone>>

(* A second validation of the same guide and profile changes nothing.      *)
ValidateDraft ==
    /\ draft /= None /\ ~ Of(report, draft)
    /\ report' = Report(draft)
    /\ UNCHANGED <<early, profile, drafted, draft, reviewed, late, redone>>

(* Both prompts embed the normalized draft and the findings of its report. *)
Reviewable == draft /= None /\ Of(report, draft) /\ Parses(draft)

Review ==
    /\ reviewed /= draft /\ Reviewable
    /\ reviewed' = draft
    /\ UNCHANGED <<early, profile, drafted, draft, report, late, redone>>

(* _require_repair_ready.                                                  *)
RepairReady == reviewed = draft /\ contract /= None /\ Reviewable

WriteRepairPrompt(scope) ==
    /\ prompt' = [scope |-> scope, draft |-> draft]
    /\ prompt' /= prompt /\ Redo(prompt = None)
    /\ RepairReady
    /\ scope \in {Whole} \cup Targets(draft)
    /\ UNCHANGED <<early, profile, drafted, draft, report, reviewed, repair, final, audit>>

(* repair_scope: without a prompt, or after one for the whole guide, the   *)
(* answer is the repair.                                                   *)
RepairScope == IF prompt = None THEN Whole ELSE prompt.scope

\* Mutant: the answer is spliced into the draft of today.
BaseFound == draft /= None

(* The draft a scoped answer is spliced into is the one the prompt embeds. *)
BaseStands == draft = prompt.draft

ApproveWhole(text) == RepairScope = Whole /\ repair' = [guide |-> text, scope |-> Whole]

ApproveScoped(text) ==
    /\ RepairScope /= Whole
    /\ BaseStands
    /\ LET merged == Spliced(draft, RepairScope, text) IN
       merged.ok /\ repair' = [guide |-> merged.guide, scope |-> RepairScope]

ApproveRepair(text) ==
    /\ VersionFits(text) /\ Redo(repair = None /\ prompt /= None)
    /\ ApproveWhole(text) \/ ApproveScoped(text)
    /\ repair' /= repair
    /\ UNCHANGED <<early, profile, drafted, draft, report, reviewed, prompt, final, audit>>

ValidateFinal ==
    /\ repair /= None
    /\ final = None \/ ~ Of(final, repair.guide)
    /\ final' = FinalReport(repair.guide)
    /\ UNCHANGED <<early, profile, drafted, draft, report, reviewed, prompt, repair,
                   audit, redone>>

Open(r) == Blocking(r.findings) = {}

ApproveAudit(a) ==
    /\ repair /= None /\ Of(final, repair.guide) /\ final.trace /= NoTrace
    /\ AnswerFits(a, repair.guide, final.trace, Protected(profile))
    /\ audit' = [answer |-> a, trace |-> final.trace]
    /\ audit' /= audit /\ Redo(audit = None)
    /\ UNCHANGED <<early, profile, drafted, draft, report, reviewed, prompt, repair, final>>

Saved == IF outline = None THEN {} ELSE [ToSet(Ids(outline.modules)) -> Units]

Next ==
    \/ \E s \in Specs : ApproveSpec(s)
    \/ \E o \in Outlines : ApproveOutline(o)
    \/ WriteDraftPrompt
    \/ \E p \in Profiles : AttachProfile(p)
    \/ \E s \in Skeletons, answers \in Saved : AssembleDraft(s, answers)
    \/ \E g \in Guides : AnswerDraft(g)
    \/ ApproveDraft
    \/ ValidateDraft
    \/ Review
    \/ \E scope \in IF draft = None \/ reviewed /= draft THEN {} ELSE {Whole} \cup Targets(draft) :
          WriteRepairPrompt(scope)
    \/ \E text \in Guides \cup Fragments : ApproveRepair(text)
    \/ ValidateFinal
    \/ \E a \in Answers : ApproveAudit(a)

Spec == Init /\ [][Next]_vars
-----------------------------------------------------------------------------
(* What must hold.                                                         *)

Documents == {draft, drafted} \ {None}

(* The documents keep their shape, and what is derived from another one is *)
(* never there without it, but for the pasted (write_draft_prompt,         *)
(* _require_repair_ready, approve_stage).                                  *)
TypeOK ==
    /\ spec \in Specs \cup {None} /\ outline \in Outlines \cup {None}
    /\ profile \in Profiles \cup {NoProfile}
    /\ outline /= None => spec /= None
    /\ \A g \in Documents : g.kind \in AnswerKinds
    /\ redone \in 0 .. MaxRedo
    /\ audit /= None => final /= None
    /\ final /= None => repair /= None
    /\ prompt /= None => contract /= None /\ draft /= None /\ prompt.draft /= None

(* guide-contract.json never plans an outcome it does not define, though   *)
(* the spec may be approved anew after the outline was held against the    *)
(* older one (build_guide_contract, contract.py 337-341).                  *)
ContractClosed ==
    contract /= None =>
        /\ \A m \in contract.modules : ToSet(m.outcomes) \subseteq ToSet(contract.outcomes)
        /\ contract.schema = RunVersion

(* Whatever path a guide took into the draft or the repair, assembled,     *)
(* pasted or spliced, a guide that the parser accepts has the version of   *)
(* the run (_validate_guide_version, runs.py 2013-2037).                   *)
OneVersion ==
    \A g \in ({draft} \ {None}) \cup (IF repair = None THEN {} ELSE {repair.guide}) :
        g.kind = "guide" => g.version \notin SupportedVersions \ {RunVersion}

(* The documents of a run fit together: they keep their shape, and the     *)
(* contract and the guides are of one course, however often one of them    *)
(* was approved anew.                                                      *)
GuideInv == TypeOK /\ ContractClosed /\ OneVersion

(* The guide without what a scope names.                                   *)
OutsideSection(m, sid) ==
    [m EXCEPT !.sections = [j \in DOMAIN @ |-> IF @[j].id = sid THEN sid ELSE @[j]]]

Outside(g, scope) ==
    IF scope.section = ""
    THEN [g EXCEPT !.modules = [i \in DOMAIN @ |->
             IF @[i].id = scope.module THEN scope.module ELSE @[i]]]
    ELSE [g EXCEPT !.modules = [i \in DOMAIN @ |->
             IF @[i].id /= scope.module THEN @[i] ELSE OutsideSection(@[i], scope.section)]]

(* A scoped repair is the draft its prompt embedded but for the module or  *)
(* the section it was asked for, and it parses (_spliced_scoped_repair,    *)
(* canonical.py splice_module, splice_section).                            *)
RepairIsLocal ==
    [][repair' /= repair /\ RepairScope /= Whole =>
          /\ Parses(repair'.guide)
          /\ Outside(repair'.guide, RepairScope) = Outside(prompt.draft, RepairScope)]_vars

(* An assembled draft has the modules of the outline in its order, each    *)
(* the body that was answered, and every glossary entry and source that    *)
(* the skeleton or a module gave (canonical.py assemble_guide).            *)
Keeps(answers, g) ==
    /\ Parses(g)
    /\ Ids(g.modules) = Ids(outline.modules)
    /\ \A m \in ToSet(g.modules) : [answers[m.id] EXCEPT !.gives = <<>>] = m
    /\ \A m \in DOMAIN answers : \A key \in DOMAIN answers[m].gives :
          ToSet(answers[m].gives[key]) \subseteq ToSet(g[key])

AssemblyLosesNothing ==
    [][drafted' /= drafted =>
          \A s \in Skeletons, answers \in Saved :
             AssembleDraft(s, answers) => Keeps(answers, drafted')]_vars

(* The words that findings show people, and what a judgment says beside    *)
(* its narrative.                                                          *)
Shown(findings) == UNION {UNION {f.says[s] : s \in Surfaces} : f \in findings}

Verdict(x) == <<x.id, x.verdict>>
Mark(f)    == <<f.rule, f.reason, f.at>>

SaidAlike(a, b) ==
    /\ \A k \in {"goals", "facets"} : {Verdict(x) : x \in ToSet(a[k])} = {Verdict(x) : x \in ToSet(b[k])}
    /\ {Mark(f) : f \in ToSet(a.flags)} = {Mark(f) : f \in ToSet(b.flags)}

(* No finding of a report repeats a protected word of the profile it was   *)
(* made with, even where the guide does, in its texts or its ids; the      *)
(* narratives of an approved audit repeat none, and what is shown of it is *)
(* the same whatever they say (_diagnostic_finding, _sanitize_finding,     *)
(* _narrative, safe_audit_findings).                                       *)
NothingPrivateShown ==
    /\ \A r \in {report, final} \ {None} : Shown(r.findings) \cap Protected(r.profile) = {}
    /\ audit /= None =>
          LET a == audit.answer IN
          /\ \A k \in {"goals", "facets", "flags"} : \A x \in ToSet(a[k]) :
                x.text \cap Protected(audit.trace.profile) = {}
          /\ a.text \cap Protected(audit.trace.profile) = {}
          /\ \A b \in Answers : SaidAlike(a, b) => SafeAudit(a) = SafeAudit(b)

(* What a guide publishes, whatever walk the rules take: the ids and texts *)
(* of its course, of its lists, and of each module the sections, blocks    *)
(* and parts, and what the nodes, edges, events, items, criteria and       *)
(* values of a diagram say.                                                *)
Said(elements) == UNION {Own(x) : x \in elements}

InDiagram(b) ==
    {b.hub} \cup
    Said(ToSet(b.nodes) \cup ToSet(b.events) \cup ToSet(b.items) \cup ToSet(b.criteria)) \cup
    (UNION {{e.from, e.to} \cup e.text : e \in ToSet(b.edges)}) \cup
    UNION {v.text : v \in UNION {ToSet(c.values) : c \in ToSet(b.criteria)}}

InBlock(b) == Said({b} \cup ToSet(Parts(b))) \cup IF b.type = "diagram" THEN InDiagram(b) ELSE {}

InModule(m) == Said({m} \cup ToSet(m.sections)) \cup UNION {InBlock(b) : b \in ToSet(Blocks(m))}

Published(g) ==
    {g.course.blueprint} \cup
    Said({g.course} \cup ToSet(g.outcomes) \cup ToSet(g.glossary) \cup ToSet(g.sources)) \cup
    UNION {InModule(m) : m \in ToSet(g.modules)}

(* A repair whose report blocks nothing parses, but for texts that are too *)
(* long, which the report takes for a warning; if it does, it keeps the    *)
(* blueprint of the run, is traced when a profile is attached, and         *)
(* publishes no protected word, in its prose, its diagrams or its ids      *)
(* (validate_guide, gate_result).                                          *)
OpenGateIsSound ==
    final /= None /\ Open(final) =>
        LET public == Projection(final.guide) IN
        /\ \A e \in Check(final.guide, FALSE) : e.code = "content.excessive_length"
        /\ Parses(final.guide) =>
              /\ Setting.blueprint \in {"", public.course.blueprint}
              /\ final.profile /= NoProfile => final.trace /= NoTrace
              /\ Published(public) \cap Protected(final.profile) = {}

(* An approved audit assesses every goal and facet of the profile it was   *)
(* traced for once, on evidence that is in that guide                      *)
(* (parse_audit_response, _parse_assessments).                             *)
AuditIsComplete ==
    audit /= None =>
        LET a == audit.answer
            g == audit.trace.guide IN
        /\ ToSet(Ids(a.goals)) = Goals(audit.trace.profile)
        /\ ToSet(Ids(a.facets)) = audit.trace.profile.facets
        /\ \A x \in ToSet(a.goals) \cup ToSet(a.facets) :
              /\ x.verdict /= "missing" => x.evidence /= <<>>
              /\ \A r \in ToSet(x.evidence) :
                    r.id \in ToSet(Ids(g.outcomes)) \cup ToSet(Ids(g.modules))

(* What a report and an audit say is about the guide they name, is all of  *)
(* it, and shows nothing of the learner.                                   *)
ReportsSound == NothingPrivateShown /\ OpenGateIsSound /\ AuditIsComplete
=============================================================================
