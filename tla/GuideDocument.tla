---------------------------- MODULE GuideDocument ----------------------------
(***************************************************************************)
(* The guide document of schema v1 (guides/model.py), what the parser says *)
(* of one (guides/parse.py, guides/diagrams.py), and the edits that build  *)
(* one guide from several answers (guides/canonical.py): the splice of a   *)
(* module or of a section, and the assembly of a skeleton with the         *)
(* responses of its modules.                                               *)
(*                                                                         *)
(* A document is the JSON value of an answer. The texts of an element are  *)
(* one set of marks and words, the defects and signs the rules look for,   *)
(* beside the set of fragments (#id) that its Markdown links to; `faults`  *)
(* are the marks of the keys and scalars of an element that have the wrong *)
(* name or type. A place is the part of the document a diagnostic points   *)
(* into.                                                                   *)
(***************************************************************************)
EXTENDS Naturals, Sequences, FiniteSets, SequencesExt

SupportedVersions  == {"1.0", "1.1", "1.2"}
AnnotationVersions == {"1.1", "1.2"}
DiagramVersions    == {"1.2"}

Interactive == {"knowledge_check", "worked_reveal", "scenario", "reflection"}
BlockTypes  == Interactive \cup {"rich_text", "callout"}

BadId == "Bad id"    \* a string that ID_RE and GOAL_ID_RE refuse
-----------------------------------------------------------------------------
(* The model.                                                              *)

Element(id) == [id |-> id, text |-> {}, links |-> {}, faults |-> {}]

Outcome(id, goals) == Element(id) @@ [serves |-> goals]

Block(id, type, outcomes) ==
    Element(id) @@ [type |-> type, outcomes |-> outcomes, sources |-> <<>>]

KnowledgeCheck(id, outcomes, mode, choices) ==
    Block(id, "knowledge_check", outcomes) @@ [mode |-> mode, choices |-> choices]

Choice(id, correct) == Element(id) @@ [correct |-> correct]

WorkedReveal(id, outcomes, steps) ==
    Block(id, "worked_reveal", outcomes) @@ [steps |-> steps]

Scenario(id, outcomes, choices) ==
    Block(id, "scenario", outcomes) @@ [choices |-> choices]

ScenarioChoice(id, quality) == Element(id) @@ [quality |-> quality]

Edge(from, to) == [from |-> from, to |-> to, text |-> {}]

(* One field of the object of a criterion, which is keyed by item.         *)
Value(key) == [key |-> key, text |-> {}, links |-> {}]

Criterion(id, values) == Element(id) @@ [values |-> values]

(* The arrays of the other kinds of diagram are empty.                     *)
Diagram(id, kind, hub, arrays) ==
    Block(id, "diagram", <<>>) @@ [kind |-> kind, hub |-> hub] @@ arrays @@
        [nodes |-> <<>>, edges |-> <<>>, events |-> <<>>,
         items |-> <<>>, criteria |-> <<>>]

Section(id, blocks) == Element(id) @@ [kind |-> "section", blocks |-> blocks]

(* `gives` holds the glossary and sources lists that a drafted module      *)
(* carries for the skeleton to take over; a module of a guide has none.    *)
Module(id, outcomes, goals, minutes, sections) ==
    Element(id) @@ [kind |-> "module", outcomes |-> outcomes, serves |-> goals,
                    minutes |-> minutes, sections |-> sections, gives |-> <<>>]

Course(id, blueprint, minutes, difficulty, summary, exclusions) ==
    Element(id) @@ [blueprint |-> blueprint, minutes |-> minutes,
                    difficulty |-> difficulty, summary |-> summary,
                    exclusions |-> exclusions]

Exclusion(goal, text) == [goal |-> goal, text |-> text]

Guide(version, course, outcomes, modules, glossary, sources) ==
    [kind |-> "guide", version |-> version, course |-> course,
     outcomes |-> outcomes, modules |-> modules, glossary |-> glossary,
     sources |-> sources, faults |-> {}]

NotJson == [kind |-> "text"]    \* an answer that json.loads refuses

(* Checker.obj: the keys of the objects that are told apart by them.       *)
ElementKeys == {"id", "text", "links", "faults"}

Keys == [guide   |-> {"kind", "version", "course", "outcomes", "modules", "glossary",
                      "sources", "faults"},
         module  |-> ElementKeys \cup {"kind", "outcomes", "serves", "minutes",
                                       "sections", "gives"},
         section |-> ElementKeys \cup {"kind", "blocks"}]

Shaped(x, kind) == x.kind = kind /\ DOMAIN x = Keys[kind]
-----------------------------------------------------------------------------
(* What the parser collects.                                               *)

(* A diagnostic, and the id its message quotes.                            *)
Quoting(code, at, id) == [code |-> code, at |-> at, says |-> id]
Error(code, at)       == Quoting(code, at, "")
Errors(codes, at)     == {Error(c, at) : c \in codes}

When(bad, code)   == IF bad THEN {code} ELSE {}
SumUp(F(_), s)    == UNION {F(s[i]) : i \in DOMAIN s}
Ids(s)            == [i \in DOMAIN s |-> s[i].id]
Occurs(s, x)      == Cardinality({i \in DOMAIN s : s[i] = x})
Repeats(s)        == \E x \in ToSet(s) : Occurs(s, x) > 1

Cardinal(s, least, most) ==
    When(Len(s) \notin least .. most, "schema.cardinality")

TextMarks == [empty |-> "content.empty", long |-> "content.excessive_length",
              html |-> "content.raw_html"]

MarkdownMarks == [image  |-> "link.image_not_supported",
                  unsafe |-> "link.unsafe_target"]

TextCodes(text, markdown) ==
    {TextMarks[m] : m \in text \cap DOMAIN TextMarks} \cup
    {MarkdownMarks[m] : m \in IF markdown THEN text \cap DOMAIN MarkdownMarks
                                          ELSE {}}

FaultMarks == [missing |-> "schema.missing_field", extra |-> "schema.unknown_field",
               type |-> "schema.invalid_type", value |-> "schema.invalid_value",
               url |-> "source.invalid_url"]

(* The mark "keyed", of a list of goals that is there and empty, is left   *)
(* to GoalCodes.                                                           *)
FaultCodes(faults) == {FaultMarks[m] : m \in faults \cap DOMAIN FaultMarks}

(* Checker.obj, Checker.identifier and Checker.text of one element.        *)
ElementCodes(e, markdown) ==
    FaultCodes(e.faults) \cup TextCodes(e.text, markdown) \cup
    When(e.id = BadId, "schema.invalid_id")

RefCodes(refs, least) ==
    Cardinal(refs, least, least + Len(refs)) \cup
    When(Repeats(refs), "schema.duplicate_reference")

(* Before annotations the key itself is refused, also of an empty list.    *)
GoalCodes(version, e, goals) ==
    IF version \in AnnotationVersions
    THEN When(BadId \in ToSet(goals), "schema.invalid_goal_id")
    ELSE When(goals /= <<>> \/ "keyed" \in e.faults, "schema.unknown_field")

ExcludedGoals(c) == [i \in DOMAIN c.exclusions |-> c.exclusions[i].goal]

CourseCodes(version, c) ==
    ElementCodes(c, TRUE) \cup GoalCodes(version, c, ExcludedGoals(c)) \cup
    SumUp(LAMBDA x : TextCodes(x.text, FALSE), c.exclusions) \cup
    When(\/ c.minutes \notin 5 .. 10000
         \/ c.difficulty \notin {"introductory", "intermediate", "advanced", "mixed"},
         "schema.invalid_value")

OutcomeCodes(version, o) ==
    ElementCodes(o, FALSE) \cup GoalCodes(version, o, o.serves)

EntryCodes(e) == ElementCodes(e, TRUE)   \* of the glossary or of the sources

KnowledgeCodes(b) ==
    LET right == Cardinality({i \in DOMAIN b.choices : b.choices[i].correct}) IN
    Cardinal(b.choices, 2, 8) \cup
    SumUp(LAMBDA c : ElementCodes(c, FALSE), b.choices) \cup
    When(b.mode \notin {"single", "multiple"}, "schema.invalid_value") \cup
    When(\/ b.mode = "single" /\ right /= 1
         \/ b.mode = "multiple" /\ right \in {0, Len(b.choices)},
         "knowledge_check.invalid_answer_set")

(* Reports rename this cardinality.                                        *)
StepCodes(b) ==
    When(Len(b.steps) \notin 2 .. 12, "worked_reveal.too_few_steps") \cup
    SumUp(LAMBDA s : ElementCodes(s, TRUE), b.steps)

ScenarioCodes(b) ==
    Cardinal(b.choices, 2, 6) \cup
    SumUp(LAMBDA c : ElementCodes(c, TRUE) \cup
              When(c.quality \notin {"best", "reasonable", "weak", "harmful"},
                   "schema.invalid_value"), b.choices) \cup
    When(Cardinality({i \in DOMAIN b.choices : b.choices[i].quality = "best"}) /= 1,
         "scenario.invalid_quality_set")

(* The diagram rules, which the parser applies once the shape is right.    *)
KindFields == [flow        |-> {"nodes", "edges"},
               concept_map |-> {"hub", "nodes", "edges"},
               timeline    |-> {"events"},
               comparison  |-> {"items", "criteria"}]

Has(b, field) == IF field = "hub" THEN b.hub /= "" ELSE b[field] /= <<>>

(* A key of another kind is refused, and nothing behind it is read.        *)
Array(b, field) == IF field \in KindFields[b.kind] THEN b[field] ELSE <<>>

ItemKeys(c) == {c.values[i].key : i \in DOMAIN c.values}

(* The details of nodes and events and the values are Markdown.            *)
DiagramShape(b) ==
    When(\E f \in (UNION {KindFields[k] : k \in DOMAIN KindFields}) \ KindFields[b.kind] :
            Has(b, f), "schema.unknown_field") \cup
    SumUp(LAMBDA e : FaultCodes(e.faults) \cup TextCodes(e.text, TRUE),
          Array(b, "nodes") \o Array(b, "events")) \cup
    SumUp(LAMBDA e : FaultCodes(e.faults) \cup TextCodes(e.text, FALSE),
          Array(b, "items") \o Array(b, "criteria")) \cup
    SumUp(LAMBDA e : TextCodes(e.text, FALSE), Array(b, "edges")) \cup
    SumUp(LAMBDA c :
        SumUp(LAMBDA v : TextCodes(v.text, TRUE), c.values) \cup
        When(~ (ItemKeys(c) \subseteq ToSet(Ids(b.items))), "diagram.unknown_value_key") \cup
        When(~ (ToSet(Ids(b.items)) \subseteq ItemKeys(c)), "diagram.missing_value"),
        b.criteria)

DiagramBounds(b) ==
    CASE b.kind = "flow"        -> Cardinal(b.nodes, 2, 12) \cup Cardinal(b.edges, 1, 16)
      [] b.kind = "concept_map" -> Cardinal(b.nodes, 2, 12) \cup Cardinal(b.edges, 1, 12)
      [] b.kind = "timeline"    -> Cardinal(b.events, 2, 10)
      [] b.kind = "comparison"  -> Cardinal(b.items, 2, 4) \cup Cardinal(b.criteria, 1, 8)

LocalIds(b) ==
    LET ids == Ids(b.nodes \o b.events \o b.items \o b.criteria) IN
    When(BadId \in ToSet(ids), "schema.invalid_id") \cup
    When(Repeats(ids), "diagram.duplicate_id")

DiagramTexts(b) ==
    LET marks == b.text \cup
                 SumUp(LAMBDA e : e.text, b.nodes \o b.events \o b.items \o b.criteria) \cup
                 SumUp(LAMBDA e : e.text, b.edges) \cup
                 SumUp(LAMBDA c : SumUp(LAMBDA v : v.text, c.values), b.criteria) IN
    When("overlong" \in marks, "diagram.text_too_long") \cup
    When("lines" \in marks, "diagram.multiline_text")

Ends(b) == UNION {{b.edges[i].from, b.edges[i].to} : i \in DOMAIN b.edges}

(* The nodes an undirected walk from the hub meets.                        *)
Reached(b) ==
    LET closed(S) == \A i \in DOMAIN b.edges :
                         (b.edges[i].from \in S) <=> (b.edges[i].to \in S)
        all == Ends(b) \cup {b.hub} IN
    {n \in all : \A S \in SUBSET all : b.hub \in S /\ closed(S) => n \in S}

EdgeCodes(b) ==
    LET nodes == ToSet(Ids(b.nodes))
        key(e) == IF b.kind = "flow" THEN <<e.from, e.to>> ELSE {e.from, e.to}
        proper == {i \in DOMAIN b.edges : b.edges[i].from /= b.edges[i].to} IN
    When(~ (Ends(b) \subseteq nodes), "diagram.unknown_node") \cup
    When(proper /= DOMAIN b.edges, "diagram.self_edge") \cup
    When(\E i, j \in proper : i < j /\ key(b.edges[i]) = key(b.edges[j]),
         "diagram.duplicate_edge") \cup
    IF b.kind = "flow"
    THEN When(~ (nodes \subseteq Ends(b)), "diagram.isolated_node")
    ELSE IF b.hub \notin nodes THEN {"diagram.unknown_node"}
         ELSE When(~ (nodes \subseteq Reached(b)), "diagram.disconnected")

DiagramCodes(b) ==
    DiagramBounds(b) \cup LocalIds(b) \cup DiagramTexts(b) \cup
    IF b.kind \in {"flow", "concept_map"} THEN EdgeCodes(b) ELSE {}

Known(version, b) ==
    b.type \in BlockTypes \cup IF version \in DiagramVersions THEN {"diagram"} ELSE {}

(* Nothing of a block of unknown type is read any further.                 *)
BlockCodes(version, b) ==
    LET common == ElementCodes(b, TRUE) \cup RefCodes(b.sources, 0) \cup
                  RefCodes(b.outcomes, IF b.type \in Interactive THEN 1 ELSE 0) IN
    CASE ~ Known(version, b)                       -> {"schema.unknown_block_type"}
      [] Known(version, b) /\ b.type = "diagram" ->
            IF b.kind \notin DOMAIN KindFields
            THEN common \cup {"schema.invalid_value"}
            ELSE LET shape == common \cup DiagramShape(b) IN
                 IF shape = {} THEN DiagramCodes(b) ELSE shape
      [] b.type = "knowledge_check"                -> common \cup KnowledgeCodes(b)
      [] b.type = "worked_reveal"                  -> common \cup StepCodes(b)
      [] b.type = "scenario"                       -> common \cup ScenarioCodes(b)
      [] b.type \in {"rich_text", "callout", "reflection"} -> common

SectionCodes(version, s) ==
    IF ~ Shaped(s, "section") THEN {"schema.missing_field", "schema.unknown_field"}
    ELSE ElementCodes(s, FALSE) \cup Cardinal(s.blocks, 1, 1 + Len(s.blocks)) \cup
         SumUp(LAMBDA b : BlockCodes(version, b), s.blocks)

ModuleCodes(version, m, skeleton) ==
    IF ~ Shaped(m, "module") THEN {"schema.missing_field", "schema.unknown_field"}
    ELSE ElementCodes(m, TRUE) \cup RefCodes(m.outcomes, 1) \cup
         GoalCodes(version, m, m.serves) \cup
         When(m.minutes \notin 1 .. 1000, "schema.invalid_value") \cup
         When(m.gives /= <<>>, "schema.unknown_field") \cup
         IF skeleton
         THEN When(m.sections /= <<>>, "skeleton.sections_not_empty")
         ELSE Cardinal(m.sections, 1, 1 + Len(m.sections)) \cup
              SumUp(LAMBDA s : SectionCodes(version, s), m.sections)
-----------------------------------------------------------------------------
(* One namespace, the references, and the coverage of the outcomes.        *)

Blocks(m) == IF m.kind = "module"
             THEN FlattenSeq([i \in DOMAIN m.sections |->
                    IF m.sections[i].kind = "section" THEN m.sections[i].blocks ELSE <<>>])
             ELSE <<>>

Parts(b) == CASE b.type \in {"knowledge_check", "scenario"} -> b.choices
              [] b.type = "worked_reveal" -> b.steps
              [] OTHER -> <<>>     \* the ids inside a diagram are its own

(* Every element of a module that has an id of the guide, in document      *)
(* order: each section before its blocks, each block before its parts.     *)
Elements(m) ==
    LET block(b)   == <<b>> \o Parts(b)
        section(s) == <<s>> \o IF s.kind /= "section" THEN <<>>
                               ELSE FlattenSeq([i \in DOMAIN s.blocks |-> block(s.blocks[i])]) IN
    <<m>> \o IF m.kind /= "module" THEN <<>>
             ELSE FlattenSeq([i \in DOMAIN m.sections |-> section(m.sections[i])])

(* What of a diagram's inside has Markdown, though no id of the guide.     *)
Drawn(b) ==
    IF b.type /= "diagram" \/ b.kind \notin DOMAIN KindFields THEN {}
    ELSE ToSet(Array(b, "nodes") \o Array(b, "events")) \cup
         UNION {ToSet(c.values) : c \in ToSet(b.criteria)}

(* The guide that the walk over ids and references sees.                   *)
Understood(g) ==
    LET section(s) == IF s.kind /= "section" THEN s
                      ELSE [s EXCEPT !.blocks = SelectSeq(@, LAMBDA b : Known(g.version, b))]
        module(m)  == IF m.kind /= "module" THEN m
                      ELSE [m EXCEPT !.sections = [i \in DOMAIN @ |-> section(@[i])]] IN
    [g EXCEPT !.modules = [i \in DOMAIN @ |-> module(@[i])]]

Place(i) == <<"modules", i>>

(* The ids in the order in which the parser meets them, with their places. *)
Declared(g) ==
    LET at(s, place) == [i \in DOMAIN s |-> [id |-> s[i].id, at |-> place]] IN
    at(<<g.course>>, <<"course">>) \o at(g.outcomes, <<"outcomes">>) \o
    FlattenSeq([i \in DOMAIN g.modules |-> at(Elements(g.modules[i]), Place(i))]) \o
    at(g.glossary, <<"glossary">>) \o at(g.sources, <<"sources">>)

DuplicateIds(g) ==
    LET d == Declared(g) IN
    {Error("schema.duplicate_id", d[i].at) :
        i \in {i \in DOMAIN d : \E j \in 1 .. i - 1 : d[j].id = d[i].id}}

(* Every outcome reference inside a module, and its source references.     *)
OutcomeRefs(m) == (IF m.kind = "module" THEN ToSet(m.outcomes) ELSE {}) \cup
                  SumUp(LAMBDA b : ToSet(b.outcomes), Blocks(m))
SourceRefs(m)  == SumUp(LAMBDA b : ToSet(b.sources), Blocks(m))

(* Reports name an unknown source apart.                                   *)
UnknownRefs(g) ==
    UNION {{Quoting("schema.unknown_reference", Place(i), r) :
                r \in OutcomeRefs(g.modules[i]) \ ToSet(Ids(g.outcomes))} \cup
           {Quoting("source.unknown_reference", Place(i), r) :
                r \in SourceRefs(g.modules[i]) \ ToSet(Ids(g.sources))} :
           i \in DOMAIN g.modules}

DanglingLinks(g) ==
    LET known == {d.id : d \in ToSet(Declared(g))}
        bad(elements, place) == {Quoting("link.unknown_internal_target", place, l) :
                                    l \in UNION {e.links : e \in elements} \ known} IN
    bad({g.course}, <<"course">>) \cup
    bad(ToSet(g.glossary), <<"glossary">>) \cup bad(ToSet(g.sources), <<"sources">>) \cup
    UNION {bad(ToSet(Elements(g.modules[i])) \cup UNION {Drawn(b) : b \in ToSet(Blocks(g.modules[i]))},
               Place(i)) : i \in DOMAIN g.modules}

Assigned(g)  == SumUp(LAMBDA m : IF m.kind = "module" THEN ToSet(m.outcomes) ELSE {},
                      g.modules)
Taught(m)    == SumUp(LAMBDA b : IF b.type \in {"rich_text", "callout", "diagram"}
                                 THEN ToSet(b.outcomes) ELSE {}, Blocks(m))
Practiced(m) == SumUp(LAMBDA b : IF b.type \in Interactive THEN ToSet(b.outcomes)
                                 ELSE {}, Blocks(m))
Types(m)     == {b.type : b \in ToSet(Blocks(m))}

Coverage(g) ==
    LET outcomes == ToSet(Ids(g.outcomes))
        codes(missing, code) == {Quoting(code, <<"outcomes">>, o) : o \in missing} IN
    {Error("module.no_interaction", Place(i)) :
        i \in {i \in DOMAIN g.modules : Types(g.modules[i]) \cap Interactive = {}}} \cup
    {Quoting("interaction.missing_required_type", <<"modules">>, t) :
        t \in Interactive \ SumUp(Types, g.modules)} \cup
    codes(outcomes \ SumUp(Taught, g.modules), "outcome.untaught") \cup
    codes(outcomes \ SumUp(Practiced, g.modules), "outcome.unassessed")

Unassigned(g) == {Quoting("outcome.unassigned", <<"outcomes">>, o) :
                     o \in ToSet(Ids(g.outcomes)) \ Assigned(g)}
-----------------------------------------------------------------------------
(* What the fields of a document say, each at its place.                   *)
FieldErrors(g, skeleton) ==
    Errors(FaultCodes(g.faults) \cup
           When(g.version \notin SupportedVersions, "schema.unsupported_version"), <<>>) \cup
    Errors(CourseCodes(g.version, g.course), <<"course">>) \cup
    Errors(Cardinal(g.outcomes, 1, 20) \cup
           SumUp(LAMBDA o : OutcomeCodes(g.version, o), g.outcomes), <<"outcomes">>) \cup
    Errors(Cardinal(g.modules, 1, 1 + Len(g.modules)), <<"modules">>) \cup
    Errors(SumUp(EntryCodes, g.glossary), <<"glossary">>) \cup
    Errors(SumUp(EntryCodes, g.sources), <<"sources">>) \cup
    UNION {Errors(ModuleCodes(g.version, g.modules[i], skeleton), Place(i)) :
               i \in DOMAIN g.modules}

(* Every diagnostic of a document; a skeleton is spared the completeness   *)
(* that a document without sections cannot have.                           *)
Check(g, skeleton) ==
    IF g.kind = "text" THEN {Error("json.invalid", <<>>)}
    ELSE IF ~ Shaped(g, "guide") THEN Errors({"schema.missing_field", "schema.unknown_field"}, <<>>)
    ELSE LET seen == Understood(g) IN
         FieldErrors(g, skeleton) \cup DuplicateIds(seen) \cup UnknownRefs(seen) \cup Unassigned(g) \cup
         IF skeleton THEN {} ELSE DanglingLinks(seen) \cup Coverage(g)

Parses(g) == Check(g, FALSE) = {}

CheckSkeleton(g, order) ==
    Check(g, TRUE) \cup
    IF g.kind /= "guide" \/ Ids(g.modules) = order THEN {}
    ELSE IF \A m \in ToSet(Ids(g.modules) \o order) :
                Occurs(Ids(g.modules), m) = Occurs(order, m)
         THEN {Error("skeleton.module_order", <<"modules">>)}
         ELSE {Error("skeleton.missing_module", <<"modules">>) :
                   m \in ToSet(order) \ ToSet(Ids(g.modules))} \cup
              {Error("skeleton.extra_module", <<"modules">>) :
                   m \in ToSet(Ids(g.modules)) \ ToSet(order)}
-----------------------------------------------------------------------------
(* Scoped edits. A result is a guide, or a refusal with the modules that   *)
(* the error names.                                                        *)

Merged(g)       == [ok |-> TRUE, guide |-> g]
Refused(blamed) == [ok |-> FALSE, blamed |-> blamed]

(* _scoped_fragment and _require_same_id: one object of the asked kind,    *)
(* with the id that was asked for. What carries `modules` is a guide, what *)
(* carries `sections` is a module.                                         *)
FragmentFits(f, kind, id) ==
    /\ f.kind \in IF kind = "module" THEN {"module", "section"} ELSE {"section"}
    /\ f.id = id

(* The place of an id, which a guide that parses has once.                 *)
Index(s, id) == CHOOSE i \in DOMAIN s : s[i].id = id

MergedOrRefused(g) == IF Parses(g) THEN Merged(g) ELSE Refused({})

SpliceModule(base, mid, f) ==
    IF ~ Parses(base) \/ ~ FragmentFits(f, "module", mid)
       \/ mid \notin ToSet(Ids(base.modules))
    THEN Refused({})
    ELSE MergedOrRefused([base EXCEPT !.modules[Index(base.modules, mid)] = f])

SpliceSection(base, mid, sid, f) ==
    IF ~ Parses(base) \/ ~ FragmentFits(f, "section", sid)
       \/ mid \notin ToSet(Ids(base.modules))
    THEN Refused({})
    ELSE LET i == Index(base.modules, mid)
             m == base.modules[i] IN
         IF sid \notin ToSet(Ids(m.sections)) THEN Refused({})
         ELSE MergedOrRefused(
                [base EXCEPT !.modules[i].sections[Index(m.sections, sid)] = f])
-----------------------------------------------------------------------------
(* Assembly. The state of the walk over the modules: who owns each id, who *)
(* contributed each entry and of which kind, the merged lists, the bodies, *)
(* and whether a refusal ended it, with the owners it names.               *)

TheSkeleton == "the skeleton"
Lists       == {"glossary", "sources"}

Owned(owners, id) == \E o \in owners : o.id = id
Owner(owners, id) == (CHOOSE o \in owners : o.id = id).by

AllIds(m) == Ids(Elements(m))

(* The first id of a body that is declared already, in it or before it.    *)
Clashes(owners, m) ==
    {i \in DOMAIN AllIds(m) : \/ Owned(owners, AllIds(m)[i])
                             \/ \E j \in 1 .. i - 1 : AllIds(m)[j] = AllIds(m)[i]}

ClashBlame(owners, m) ==
    LET ids == AllIds(m)
        i   == CHOOSE i \in Clashes(owners, m) : \A j \in Clashes(owners, m) : i <= j
        by  == IF Owned(owners, ids[i]) THEN Owner(owners, ids[i]) ELSE m.id IN
    {by, m.id} \ {TheSkeleton}

Stopped(walk, blamed) == [walk EXCEPT !.refused = TRUE, !.blamed = blamed]

\* Mutant: the first entry of an id stays.
ContributeFirst(walk, key, by, entry) ==
    IF walk.refused \/ \E c \in walk.given : c.entry.id = entry.id THEN walk
    ELSE [walk EXCEPT !.lists[key] = Append(@, entry),
                      !.given = @ \cup {[key |-> key, by |-> by, entry |-> entry]}]

(* _merge_contributions of one entry, after those before it.               *)
Contribute(walk, key, by, entry) ==
    LET earlier == {c \in walk.given : c.entry.id = entry.id} IN
    IF walk.refused THEN walk
    ELSE IF earlier = {}
         THEN [walk EXCEPT !.lists[key] = Append(@, entry),
                           !.given = @ \cup {[key |-> key, by |-> by, entry |-> entry]}]
         ELSE IF \E c \in earlier : c.key = key /\ c.entry = entry
              THEN walk
              ELSE Stopped(walk, {by} \cup {c.by : c \in earlier})

(* The walks after the first n entries of a list.                          *)
Contributed(walk, key, by, entries) ==
    LET after[n \in 0 .. Len(entries)] ==
            IF n = 0 THEN walk ELSE Contribute(after[n - 1], key, by, entries[n])
    IN  after

Give(walk, m, key) ==
    IF key \notin DOMAIN m.gives THEN walk
    ELSE Contributed(walk, key, m.id, m.gives[key])[Len(m.gives[key])]

(* A fragment of another shape would fail to parse at its own place.       *)
TakeModule(walk, mid, f) ==
    LET body == [f EXCEPT !.gives = <<>>] IN
    IF walk.refused THEN walk
    ELSE IF ~ FragmentFits(f, "module", mid) \/ f.kind /= "module"
         THEN Stopped(walk, {mid})
         ELSE IF Clashes(walk.owners, body) /= {}
              THEN Stopped(walk, ClashBlame(walk.owners, body))
              ELSE LET own == [walk EXCEPT
                               !.owners = @ \cup {[id |-> i, by |-> mid] : i \in ToSet(AllIds(body))},
                               !.modules = Append(@, body)] IN
                   Give(Give(own, f, "glossary"), f, "sources")

(* _implicated_modules: the modules the diagnostics point into.            *)
Implicated(g) == {g.modules[i].id : i \in {i \in DOMAIN g.modules :
                     \E e \in Check(g, FALSE) : e.at = Place(i)}}

(* The walks after the first n modules of the order.                       *)
Taken(start, fragments, order) ==
    LET after[n \in 0 .. Len(order)] ==
            IF n = 0 THEN start
            ELSE TakeModule(after[n - 1], order[n], fragments[order[n]])
    IN  after

(* What the skeleton owns and gave before the first module.                *)
Start(skeleton) ==
    LET outside == <<skeleton.course>> \o skeleton.outcomes
                       \o skeleton.glossary \o skeleton.sources
        entries(key) == {[key |-> key, by |-> TheSkeleton, entry |-> e] :
                            e \in ToSet(skeleton[key])} IN
    [owners  |-> {[id |-> outside[i].id, by |-> TheSkeleton] : i \in DOMAIN outside},
     given   |-> UNION {entries(key) : key \in Lists},
     lists   |-> [key \in Lists |-> skeleton[key]],
     modules |-> <<>>, refused |-> FALSE, blamed |-> {}]

Assemble(skeleton, fragments, order) ==
    IF CheckSkeleton(skeleton, order) /= {} THEN Refused({})
    ELSE IF DOMAIN fragments /= ToSet(order)
         THEN Refused((DOMAIN fragments \ ToSet(order)) \cup (ToSet(order) \ DOMAIN fragments))
    ELSE LET walk  == Taken(Start(skeleton), fragments, order)[Len(order)]
             whole == [skeleton EXCEPT !.modules = walk.modules,
                                       !.glossary = walk.lists["glossary"],
                                       !.sources = walk.lists["sources"]] IN
         IF walk.refused THEN Refused(walk.blamed)
         ELSE IF Parses(whole) THEN Merged(whole) ELSE Refused(Implicated(whole))
-----------------------------------------------------------------------------
(* public_guide_projection: what leaves the workspace.                     *)
Projection(g) ==
    [g EXCEPT !.course.exclusions = <<>>,
              !.outcomes = [i \in DOMAIN @ |-> [@[i] EXCEPT !.serves = <<>>]],
              !.modules = [i \in DOMAIN @ |-> [@[i] EXCEPT !.serves = <<>>]]]
=============================================================================
