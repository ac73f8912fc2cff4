--------------------------- MODULE MCGuidePipeline ---------------------------
\* A guide of two modules for one outcome, its damaged variants, and what may
\* be answered for parts of it. The profile's protected word is "ann".
EXTENDS GuidePipeline

Text(id, words) == [Block(id, "rich_text", <<"o1">>) EXCEPT !.text = words]

Checks == KnowledgeCheck("b2", <<"o1">>, "single", <<Choice("c1", TRUE), Choice("c2", FALSE)>>)
Worked == WorkedReveal("b3", <<"o1">>, <<Element("p1"), Element("p2")>>)
Acted  == Scenario("b5", <<"o1">>, <<ScenarioChoice("q1", "best"), ScenarioChoice("q2", "weak")>>)

Nodes(ids, label) == [nodes |-> [i \in DOMAIN ids |-> Element(ids[i])],
                      edges |-> <<[Edge("n1", "n2") EXCEPT !.text = label]>>]
Hub(ids)    == <<Diagram("b7", "concept_map", "n1", Nodes(ids, {}))>>
Flow(label) == <<Diagram("b7", "flow", "", Nodes(<<"n1", "n2">>, label))>>
Comparison(words) ==
    LET second == [Value("i2") EXCEPT !.text = words] IN
    Diagram("b8", "comparison", "", [items    |-> <<Element("i1"), Element("i2")>>,
                                     criteria |-> <<Criterion("k1", <<Value("i1"), second>>)>>])

S1(words, drawn) == Section("s1", <<Text("b1", words), Checks, Worked>> \o drawn)
S2(id, words) ==
    Section("s2", <<Text(id, {}), Acted, Comparison(words), Block("b6", "reflection", <<"o1">>)>>)
M1(words, drawn) == Module("m1", <<"o1">>, <<"g1">>, 4, <<S1(words, drawn)>>)
M2Of(id, words) == Module("m2", <<"o1">>, <<>>, 4, <<S2(id, words)>>)
M2(id) == M2Of(id, {})
TheHub == Hub(<<"n1", "n2">>)

TheCourse(id) == Course(id, "explainer", 8, "introductory", TRUE, <<>>)
Of2(version, course, m1, m2) ==
    Guide(version, course, <<Outcome("o1", <<>>)>>, <<m1, m2>>, <<>>, <<>>)

Good == Of2("1.2", TheCourse("course"), M1({}, TheHub), M2("b4"))
Named == Of2("1.2", TheCourse("ann"), M1({"ann"}, Flow({})), M2("b4"))
\* The word is in one value of the comparison and nowhere else.
Inner == Of2("1.2", TheCourse("course"), M1({}, TheHub), M2Of("b4", {"ann"}))
Old  == Of2("1.1", TheCourse("course"), M1({}, <<>>), M2("b4"))
\* An outcome nothing teaches, and a node its hub does not reach.
Broken == [Good EXCEPT !.outcomes = @ \o <<Outcome("ann", <<>>)>>,
                       !.modules[1] = M1({}, Hub(<<"n1", "n2", "n3">>))]

Term(text) == [Element("t1") EXCEPT !.text = text]
Gives(m, text) == [m EXCEPT !.gives = [glossary |-> <<Term(text)>>]]

Long   == [Good EXCEPT !.course.text = {"long"}]

TheGuides    == {Good, Named, Inner, Old, Broken, Long, NotJson}
TheSkeletons == {[Good EXCEPT !.modules = <<[M1({}, <<>>) EXCEPT !.sections = <<>>],
                                           [M2("b4") EXCEPT !.sections = <<>>]>>]}
TheUnits     == {Gives(M1({}, TheHub), {}), Gives(M2("b4"), {}), Gives(M2("b4"), {"other"}), M2("b2")}
TheFragments == {M2("b2"), M1({"word"}, Flow({"ann"})), S1({"new"}, Flow({}))}

Plan(id, outcomes) == [id |-> id, outcomes |-> outcomes, minutes |-> 4, types |-> <<"rich_text">>]
Planned(outcomes)  == [faults |-> {}, modules |-> <<Plan("m1", <<"o1">>), Plan("m2", outcomes)>>]
TheOutlines  == {Planned(<<"o1", "o2">>)}

Specified(outcomes, version) ==
    [faults |-> {}, schema |-> version, blueprint |-> "explainer", minutes |-> 8,
     outcomes |-> outcomes,
     interactions |-> <<"knowledge_check", "worked_reveal", "scenario", "reflection">>]
TheSpecs == {Specified(<<"o1">>, "1.2"), Specified(<<"o1", "o2">>, "1.2"),
             Specified(<<"o1">>, "1.1")}

TheProfiles == {[goals |-> <<"g1">>, private |-> {"ann"}, facets |-> {"f1"},
                 attention |-> TRUE, level |-> 0, publishes |-> ""]}

Judged(id, verdict, evidence) ==
    [id |-> id, verdict |-> verdict, evidence |-> evidence, text |-> {"fine"}]
Flag(at) == [at |-> at, reason |-> "could_apply_to_anyone", rule |-> "generic_section",
             text |-> {"dull"}]
Answer(goals, flags) ==
    [goals |-> goals, facets |-> <<Judged("f1", "missing", <<>>)>>, flags |-> flags,
     text |-> {"summary"}]
TheAnswers ==
    {Answer(<<Judged("g1", "served", <<Reference("module", "m1")>>)>>,
            <<Flag(Reference("block", "b1"))>>),
     Answer(<<Judged("g1", "served", <<Reference("module", "m9")>>)>>, <<>>),
     Answer(<<>>, <<>>)}

TheBlueprint == [id |-> "explainer", requires |-> {"scenario", "knowledge_check"}]
TheSetting   == [blueprint |-> "explainer", registered |-> {"explainer"}, budget |-> 5]
=============================================================================
