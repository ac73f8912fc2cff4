---------------------------- MODULE GuideFindings ----------------------------
(***************************************************************************)
(* What is said of a guide: the findings of a validation report            *)
(* (guides/validation.py), the index of its goal annotations and the       *)
(* private trace made from it (guides/personalization.py), and what an     *)
(* audit answer may say and what of it leaves the workspace                *)
(* (guides/audit.py). A finding has four surfaces that people read, its    *)
(* name, place, message and related ids, each the set of the words of the  *)
(* document or of the profile that it repeats.                             *)
(*                                                                         *)
(* A profile is a record: the ids of its goals by position, its protected  *)
(* words (those that validate_guide looks for: of five characters or more  *)
(* and not generic), its active facets, whether it declares attention constraints,    *)
(* and the level its skill text maps to (3: it maps to none).              *)
(***************************************************************************)
EXTENDS GuideDocument

CONSTANT NoProfile

Surfaces == {"name", "place", "message", "related"}

(* RULES: what does not block, and what a person may waive.                *)
Advisory ==
    {"privacy.possible_identifier", "personalization.no_visible_connection",
     "personalization.goal_uncovered", "personalization.no_annotations",
     "personalization.unexpected_annotations", "personalization.no_profile",
     "time.module_total_mismatch", "content.excessive_length",
     "source.missing_for_required_claim", "blueprint.unknown",
     "time.budget_exceeded", "time.budget_underrun", "time.estimate_implausible",
     "time.module_overrun", "difficulty.learner_mismatch"}

Waivables ==
    {"privacy.exact_private_value", "privacy.possible_identifier",
     "content.prompt_leak", "content.placeholder", "outcome.unassigned",
     "outcome.untaught", "outcome.unassessed", "module.no_interaction",
     "interaction.missing_required_type", "worked_reveal.too_few_steps",
     "personalization.no_visible_connection", "personalization.goal_uncovered",
     "personalization.no_annotations", "personalization.unexpected_annotations",
     "time.module_total_mismatch", "content.excessive_length",
     "source.missing_for_required_claim", "markdown.invalid_heading_level",
     "markdown.unclosed_fence", "a11y.heading_order", "a11y.color_only_instruction",
     "blueprint.contract_mismatch"}

Finding(rule, name, place, message, related) ==
    [rule |-> rule, blocking |-> rule \notin Advisory, waivable |-> rule \in Waivables,
     says |-> [name |-> name, place |-> place, message |-> message, related |-> related]]

About(rule, id) == Finding(rule, {id}, {}, {}, {id})    \* one element of the guide
Plain(rule)     == Finding(rule, {}, {}, {}, {})

(* _diagnostic_finding: the rule a diagnostic is reported under, the       *)
(* message without private values, and the id taken from that message.     *)
ReportedAs(code) ==
    CASE code = "link.unsafe_target"    -> "link.unsafe_scheme"
      [] code \in {"schema.invalid_goal_id", "skeleton.missing_module",
                   "skeleton.extra_module", "skeleton.module_order",
                   "skeleton.sections_not_empty"} -> "schema.invalid_value"
      [] OTHER -> code

NamedByQuote ==
    {"outcome.unassigned", "outcome.untaught", "outcome.unassessed",
     "interaction.missing_required_type", "schema.unknown_reference"}

FromDiagnostic(e, private) ==
    LET quoted == {e.says} \ ({""} \cup private) IN
    Finding(ReportedAs(e.code), IF e.code \in NamedByQuote THEN quoted ELSE {}, {},
            quoted, {})

(* _sanitize_finding: a surface that repeats a protected word loses it.    *)
Sanitized(f, private) == [f EXCEPT !.says = [s \in Surfaces |-> @[s] \ private]]
-----------------------------------------------------------------------------
(* index_personalization_annotations.                                      *)

Serving(elements, goal) == {e.id : e \in {x \in ToSet(elements) : goal \in ToSet(x.serves)}}

(* Repetition inside one element, or of an exclusion, and unknown goals.   *)
Violations(g, goals) ==
    LET faults(refs, kind, id) ==
            {[code |-> "duplicate_goal_ref", kind |-> kind, id |-> id, goal |-> x] :
                x \in {x \in ToSet(refs) : Occurs(refs, x) > 1}} \cup
            {[code |-> "dangling_goal_ref", kind |-> kind, id |-> id, goal |-> x] :
                x \in ToSet(refs) \ goals} IN
    SumUp(LAMBDA o : faults(o.serves, "outcome", o.id), g.outcomes) \cup
    SumUp(LAMBDA m : faults(m.serves, "module", m.id), g.modules) \cup
    faults(ExcludedGoals(g.course), "exclusion", "course")

GoalIndex(g, goals) ==
    [x \in goals |-> [modules  |-> Serving(g.modules, x),
                      outcomes |-> Serving(g.outcomes, x),
                      excluded |-> {e \in ToSet(g.course.exclusions) : e.goal = x}]]

Covered(entry) == entry.modules \cup entry.outcomes /= {} \/ entry.excluded /= {}

Annotated(g) == \/ g.course.exclusions /= <<>>
                \/ \E o \in ToSet(g.outcomes) : o.serves /= <<>>
                \/ \E m \in ToSet(g.modules) : m.serves /= <<>>

Goals(profile) == ToSet(profile.goals)

PersonalizationFindings(g, profile) ==
    IF profile = NoProfile
    THEN {Plain("personalization.no_profile")} \cup
         IF Annotated(g) THEN {Plain("personalization.unexpected_annotations")} ELSE {}
    ELSE (IF Goals(profile) /= {} /\ ~ Annotated(g)
          THEN {Plain("personalization.no_annotations")} ELSE {}) \cup
         {Finding("personalization." \o v.code, {v.id, v.goal}, {}, {}, {v.id, v.goal}) :
             v \in Violations(g, Goals(profile))} \cup
         {About("personalization.goal_uncovered", x) :
             x \in {x \in Goals(profile) : ~ Covered(GoalIndex(g, Goals(profile))[x])}}
-----------------------------------------------------------------------------
(* _calibration_findings. A setting has the blueprint of the run, the ones *)
(* that are registered, and the time budget of the topic (0: none). Every  *)
(* element holds WordsEach words, those inside a diagram too.              *)

WordsEach == 40

BlockSeconds == [rich_text |-> 0, callout |-> 0, knowledge_check |-> 45,
                 worked_reveal |-> 90, scenario |-> 60, reflection |-> 60, diagram |-> 30]

SumOf(f(_), s) == FoldLeft(LAMBDA n, x : n + f(x), 0, s)

DiagramSize(b) ==
    IF b.type /= "diagram" THEN 0
    ELSE Len(b.nodes \o b.events \o b.items \o b.criteria) + Len(b.edges) +
         SumOf(LAMBDA c : Len(c.values), b.criteria)

ElementCount(g) ==
    1 + Len(g.outcomes \o g.glossary \o g.sources) +
    SumOf(LAMBDA m : Len(Elements(m)) + SumOf(DiagramSize, Blocks(m)), g.modules)

(* At 200 words a minute.                                                  *)
ReadingSeconds(g) ==
    ((ElementCount(g) * WordsEach * 60) \div 200) +
    SumOf(LAMBDA m : SumOf(LAMBDA b : BlockSeconds[b.type], Blocks(m)), g.modules)

Level == [introductory |-> 0, intermediate |-> 1, advanced |-> 2]

AboutIf(fires, rule, id) == IF fires THEN {About(rule, id)} ELSE {}

CalibrationFindings(g, profile, setting) ==
    LET c == g.course
        when(fires, rule) == AboutIf(fires, rule, c.id)
        far(a, b) == a >= b + 2 \/ b >= a + 2 IN
    when(setting.blueprint = "" /\ c.blueprint \notin setting.registered, "blueprint.unknown") \cup
    when(setting.blueprint \notin {"", c.blueprint}, "blueprint.contract_mismatch") \cup
    when(setting.budget /= 0 /\ 10 * c.minutes > 11 * setting.budget, "time.budget_exceeded") \cup
    when(setting.budget /= 0 /\ 2 * c.minutes < setting.budget, "time.budget_underrun") \cup
    when(\/ 60 * c.minutes > 2 * ReadingSeconds(g)
         \/ 120 * c.minutes < ReadingSeconds(g), "time.estimate_implausible") \cup
    (IF profile /= NoProfile /\ profile.attention
     THEN {About("time.module_overrun", m.id) : m \in {m \in ToSet(g.modules) : m.minutes > 45}}
     ELSE {}) \cup
    when(/\ profile /= NoProfile /\ profile.level \in 0 .. 2
         /\ c.difficulty \in DOMAIN Level /\ far(Level[c.difficulty], profile.level),
         "difficulty.learner_mismatch")
-----------------------------------------------------------------------------
(* validate_guide.                                                         *)

(* _text_fields: every string of a guide, its ids, references and labels   *)
(* among them, and of a criterion's values the texts, not the keys.        *)
Own(e) == {e.id} \cup e.text

DiagramStrings(b) ==
    {b.kind, b.hub} \cup
    SumUp(Own, b.nodes) \cup SumUp(Own, b.events) \cup SumUp(Own, b.items) \cup SumUp(Own, b.criteria) \cup
    SumUp(LAMBDA e : {e.from, e.to} \cup e.text, b.edges) \cup
    SumUp(LAMBDA c : SumUp(LAMBDA v : v.text, c.values), b.criteria)

\* Mutant: the walk stops at a diagram.
BlockStringsFlat(b) ==
    Own(b) \cup {b.type} \cup ToSet(b.outcomes) \cup ToSet(b.sources) \cup SumUp(Own, Parts(b))

BlockStrings(b) ==
    Own(b) \cup {b.type} \cup ToSet(b.outcomes) \cup ToSet(b.sources) \cup SumUp(Own, Parts(b)) \cup
    CASE b.type = "knowledge_check" -> {b.mode}
      [] b.type = "scenario"        -> {b.choices[i].quality : i \in DOMAIN b.choices}
      [] b.type = "diagram"         -> DiagramStrings(b)
      [] OTHER                      -> {}

ModuleStrings(m) ==
    Own(m) \cup ToSet(m.outcomes) \cup ToSet(m.serves) \cup
    SumUp(Own, m.sections) \cup SumUp(BlockStrings, Blocks(m))

Strings(g) ==
    {g.version, g.course.blueprint, g.course.difficulty} \cup Own(g.course) \cup
    SumUp(LAMBDA x : {x.goal} \cup x.text, g.course.exclusions) \cup
    SumUp(LAMBDA o : Own(o) \cup ToSet(o.serves), g.outcomes) \cup
    SumUp(Own, g.glossary) \cup SumUp(Own, g.sources) \cup SumUp(ModuleStrings, g.modules)

(* The Markdown fields that a learner reads as prose: no text of a diagram *)
(* is one of them.                                                         *)
Prose(g) ==
    g.course.text \cup SumUp(LAMBDA e : e.text, g.glossary \o g.sources \o g.modules) \cup
    SumUp(LAMBDA m : SumUp(LAMBDA b :
              (IF b.type = "diagram" THEN {} ELSE b.text) \cup
              (IF b.type = "worked_reveal" THEN SumUp(LAMBDA e : e.text, b.steps) ELSE {}),
              Blocks(m)), g.modules)

ContentMarks == [contact |-> "privacy.possible_identifier", leak |-> "content.prompt_leak",
                 todo |-> "content.placeholder"]

ProseMarks == [fence |-> "markdown.unclosed_fence", title |-> "markdown.invalid_heading_level",
               colour |-> "a11y.color_only_instruction"]

(* What a mark of any string shows, what one of the prose shows, and what  *)
(* repeats a protected word (the finding has its fingerprint).             *)
ContentFindings(g, private) ==
    {Plain(ContentMarks[m]) : m \in Strings(g) \cap DOMAIN ContentMarks} \cup
    {Plain(ProseMarks[m]) : m \in Prose(g) \cap DOMAIN ProseMarks} \cup
    {Plain("privacy.exact_private_value") : w \in Strings(g) \cap private}

(* compute_static_checks: what the document that an export would ship      *)
(* lacks, when it can be assembled.                                        *)
StaticMarks == [unlabelled |-> "a11y.control_label_missing", skipping |-> "a11y.heading_order"]

StaticFindings(g) ==
    LET texts == Strings(Projection(g)) IN
    IF ~ Parses(g) THEN {}
    ELSE IF "unrenderable" \in texts THEN {Plain("runtime.render_failed")}
    ELSE {Plain(StaticMarks[m]) : m \in texts \cap DOMAIN StaticMarks}

Protected(profile) == IF profile = NoProfile THEN {} ELSE profile.private

Findings(g, profile, setting) ==
    LET private == Protected(profile)
        c == Projection(g).course IN
    IF ~ Parses(g)
    THEN {Sanitized(f, private) : f \in {FromDiagnostic(e, private) : e \in Check(g, FALSE)}
            \cup IF profile = NoProfile THEN {Plain("personalization.no_profile")} ELSE {}}
    ELSE {Sanitized(f, private) : f \in
            PersonalizationFindings(g, profile) \cup
            ContentFindings(Projection(g), private) \cup
            (IF SumOf(LAMBDA m : m.minutes, g.modules) = c.minutes THEN {}
             ELSE {About("time.module_total_mismatch", c.id)}) \cup
            (IF c.summary THEN {}
             ELSE {About("personalization.no_visible_connection", c.id)}) \cup
            CalibrationFindings(Projection(g), profile, setting)}

Blocking(findings) == {f \in findings : f.blocking}
-----------------------------------------------------------------------------
(* build_personalization_trace; the trace is not made when the reason of   *)
(* an exclusion has blanks around it, which its own parser refuses.        *)

NoTrace == [kind |-> "none"]

TraceIsSafe(g) == \A e \in ToSet(g.course.exclusions) : "padded" \notin e.text

Trace(g, profile) ==
    IF profile = NoProfile \/ ~ Parses(g) THEN NoTrace
    ELSE IF ~ TraceIsSafe(g) THEN NoTrace
    ELSE [kind |-> "trace", guide |-> g, profile |-> profile,
          goals |-> GoalIndex(g, Goals(profile)), facets |-> profile.facets]

TraceFinding(g, profile) ==
    IF profile /= NoProfile /\ Parses(g) /\ ~ TraceIsSafe(g)
    THEN {Plain("personalization.trace_integrity")} ELSE {}
-----------------------------------------------------------------------------
(* Audit answers: assessments of goals and of facets, flags on places of   *)
(* the guide, and narratives, whose words are `text`.                      *)

Verdicts == {"served", "weak", "missing"}

Reference(kind, id) == [kind |-> kind, id |-> id]

Locations(g) ==
    {Reference("course", g.course.id)} \cup
    {Reference("outcome", o.id) : o \in ToSet(g.outcomes)} \cup
    {Reference("module", m.id) : m \in ToSet(g.modules)} \cup
    (UNION {{Reference("section", s.id) : s \in ToSet(m.sections)} : m \in ToSet(g.modules)}) \cup
    UNION {{Reference("block", b.id) : b \in ToSet(Blocks(m))} : m \in ToSet(g.modules)}

AssessmentFits(a, g) ==
    /\ a.verdict \in Verdicts
    /\ ToSet(a.evidence) \subseteq {r \in Locations(g) : r.kind \in {"module", "outcome"}}
    /\ ~ Repeats(a.evidence)
    /\ (a.verdict = "missing") <=> (a.evidence = <<>>)

(* _parse_assessments: one assessment of each expected id.                 *)
AssessmentsFit(s, expected, g, private) ==
    /\ ToSet(Ids(s)) = expected /\ ~ Repeats(Ids(s))
    /\ \A a \in ToSet(s) : AssessmentFits(a, g) /\ a.text \cap private = {}

FlagsFit(s, g, private) ==
    /\ \A f \in ToSet(s) : f.at \in Locations(g) /\ f.text \cap private = {}
    /\ ~ Repeats([i \in DOMAIN s |-> <<s[i].at, s[i].reason>>])

AnswerFits(a, g, trace, private) ==
    /\ AssessmentsFit(a.goals, DOMAIN trace.goals, g, private)
    /\ AssessmentsFit(a.facets, trace.facets, g, private)
    /\ FlagsFit(a.flags, g, private)
    /\ a.text \cap private = {}

(* safe_audit_findings: fixed messages about what is not served and about  *)
(* the flagged places. None of them blocks, none can be waived.            *)
AuditFinding(rule, name, related) ==
    [Finding(rule, name, {}, {}, related) EXCEPT !.blocking = FALSE, !.waivable = FALSE]

SafeAudit(a) ==
    LET of(s, kind) ==
            {AuditFinding("audit." \o kind \o "_" \o x.verdict, {x.id}, {x.id}) :
                x \in {x \in ToSet(s) : x.verdict /= "served"}} IN
    of(a.goals, "goal") \cup of(a.facets, "facet") \cup
    {AuditFinding("audit." \o f.rule, {f.reason, f.at.id}, {f.at.id}) : f \in ToSet(a.flags)}
=============================================================================
