---------------------------- MODULE MCGeneration ----------------------------
(* Instances of Generation for TLC.                                        *)
EXTENDS Generation, TLC

\* Flashcards: a template for the age, one of riddles that must be asked for, one
\* for older children, one for younger children that is uploaded, and one that
\* only a fallback rule names.
Same(S) == [x \in S |-> x]
MCLabelKey == Same({"kg", "g1", "maths"})
MCDifficultyKey == Same({"easy"})
MCObjectiveKey == Same({"count", "add", "name"})
MCRelated == [o \in {"count"} |-> {"add"}]
Card_(groups, objectives, parts, text) ==
    [groups |-> groups, keywords |-> {}, tags |-> {}, requiresExplicitRequest |-> FALSE,
     objectives |-> objectives, subjects |-> {}, difficulties |-> {}, ageBounds |-> <<>>,
     version |-> [parts |-> parts, text |-> text]]
MCCatalog ==
    ("own" :> Card_({<<4, 6>>}, {"count"}, <<1, 2>>, 2))
    @@ ("riddle" :> [Card_({<<3, 8>>}, {"add"}, <<2>>, 3) EXCEPT
                        !.keywords = {"riddle"}, !.requiresExplicitRequest = TRUE])
    @@ ("older" :> [Card_({<<5, 10>>}, {"count"}, <<3, 1>>, 4) EXCEPT !.subjects = {"maths"}])
    @@ ("young" :> [Card_({<<2, 4>>}, {"name"}, <<1, 2>>, 2) EXCEPT !.ageBounds = <<2, 4>>])
    @@ ("spare" :> [Card_({}, {}, <<1>>, 1) EXCEPT !.difficulties = {"easy"}])
Rule(id, t, fallback) ==
    [id |-> id, template |-> t, templateActive |-> TRUE, priority |-> 100 - id, age |-> <<4, 6>>,
     grades |-> {}, subjects |-> {}, objectives |-> {}, difficulties |-> {}, isFallback |-> fallback]
MCRules == {[Rule(1, "own", FALSE) EXCEPT !.grades = {"kg"}], Rule(2, "riddle", FALSE),
            Rule(3, "own", FALSE), [Rule(4, "spare", TRUE) EXCEPT !.grades = {"kg"}]}
MCSynthetic == [t \in DOMAIN MCCatalog |-> CHOOSE n \in 10..14 :
                    n = CASE t = "own" -> 10 [] t = "riddle" -> 11 [] t = "older" -> 12
                          [] t = "young" -> 13 [] t = "spare" -> 14]

Flash(kind, group) ==
    [kind |-> kind, ai |-> TRUE, template |-> NoTemplate, group |-> group, age |-> <<4, 6>>,
     words |-> {"riddle"}, grade |-> "kg", subject |-> "maths", subjectConfidence |-> "explicit",
     difficulty |-> "easy", difficultyConfidence |-> "explicit", objective |-> "count",
     objectiveConfidence |-> "explicit"]
Choose == Flash("choose", <<4, 6>>)
WithoutModel == [Choose EXCEPT !.words = {}, !.grade = NoLabel, !.ai = FALSE]
Chooses == {Choose, WithoutModel,
            [Choose EXCEPT !.group = <<>>, !.objective = "name", !.words = {}],
            [Choose EXCEPT !.group = <<1, 2>>, !.words = {}],
            [Choose EXCEPT !.group = <<1, 2>>, !.grade = "g1"],
            [Choose EXCEPT !.objectiveConfidence = "age_default", !.objective = "add",
                           !.group = <<6, 8>>]}
Explicit == [Flash("explicit", <<>>) EXCEPT !.template = "young"]
NoFlash == Flash("none", <<>>)

\* Worksheets: three templates for four-year-olds and one for older children.
MCIndices == <<"0", "1">>
MCPhrases == {"apples", "a red apple", "counting", "a pear", "names"}
MCPhraseSame == Same(MCPhrases)
MCWorded == [f \in {"pear.png"} |-> ""]
MCInstruction == [k \in {"number_names"} |-> "names"]
MCRightText == [k \in {"number_names"} |-> [f \in {"0"} |-> "names"]]
MCSlotNames == <<>> :> "root"
Node(type) == [type |-> type, required |-> {}, closed |-> FALSE, sizes |-> {}, allowed |-> {}]
MCSchema(needed) ==
    (<<>> :> [Node("object") EXCEPT !.required = {needed}, !.closed = TRUE])
    @@ (<<"topic">> :> Node("string")) @@ (<<"image">> :> Node("object"))
    @@ (<<"items">> :> [Node("array") EXCEPT !.sizes = {1, 2}])
    @@ (<<"rows">> :> [Node("array") EXCEPT !.sizes = {1}])
    @@ (<<"pairs">> :> [Node("array") EXCEPT !.sizes = {1}])
    @@ (<<"pairs", "*", "left_image">> :> Node("string"))
Sheet_(place, ages, needed) ==
    [place |-> place, ages |-> ages, updated |-> place % 2, theme |-> "", topics |-> {},
     subTopics |-> {}, activities |-> {}, subjects |-> {}, grades |-> {}, difficulties |-> {},
     name |-> "", slug |-> "", slugWords |-> <<>>, profile |-> {}, schema |-> MCSchema(needed),
     lineart |-> FALSE, background |-> "blue", sample |-> "green"]
MCLibrary ==
    ("w1" :> [Sheet_(1, <<3, 5>>, "topic") EXCEPT !.topics = {"apples"}, !.grades = {"kg"}])
    @@ ("w2" :> [Sheet_(2, <<4, 4>>, "items") EXCEPT !.activities = {"counting"},
                     !.subjects = {"maths"}, !.profile = {"count"}, !.lineart = TRUE])
    @@ ("w3" :> [Sheet_(3, <<2, 6>>, "topic") EXCEPT !.slugWords = <<"count", "apple">>,
                     !.difficulties = {"easy"}, !.theme = "fruit"])
    @@ ("w4" :> [Sheet_(4, <<8, 9>>, "topic") EXCEPT !.sample = "red"])
    @@ ("w5" :> [Sheet_(5, <<>>, "topic") EXCEPT !.background = "red"])
Stem == [x \in {"apples", "counting apples", "counting", "count", "fruit", ""} |->
            CASE x = "apples" -> {"apple"} [] x = "counting apples" -> {"apple", "count"}
              [] x \in {"counting", "count"} -> {"count"} [] x = "fruit" -> {"fruit"}
              [] x = "" -> {}]
MCInside == {<<"counting", "counting apples">>, <<"apples", "counting apples">>}
MCGradeBand == [x \in {"kg"} |-> <<4, 5>>]
Intent(theme, activity) ==
    [theme |-> theme, subTopic |-> "", activity |-> activity, difficulty |-> "easy"]
MCIntents == {Intent("fruit", ""), Intent("", "counting apples")}

Obj(f) == (<<>> :> "{}") @@ f
Page(topic, query) ==
    Obj((<<"topic">> :> topic) @@ (<<"image">> :> "{}") @@ (<<"image", "imageQuery">> :> query))
List(a, b) == Put(Put(Leaf("[]"), <<"0">>, a), <<"1">>, b)
Paired(image) ==
    Obj((<<"topic">> :> "names") @@ (<<"pairs">> :> "[]") @@ (<<"pairs", "0">> :> "{}")
        @@ (<<"pairs", "0", "left_image">> :> image))
MCPayloads ==
    {Page("apples", "a pear"),
     List(Page("apples", "a pear"), Page("names", "a red apple")),
     Put(Leaf("{}"), <<"worksheets">>,
         List(Page("apples", "a pear") @@ (<<"image", "assetId">> :> "a3"), Page("<b>", "a pear"))),
     List(Page("names", "a pear") @@ (<<"image", "imageUrl">> :> "a1"), Paired("a pear")),
     Paired("pear.png"),
     List(Obj(<<"label">> :> "apples"), Obj(<<"imageQuery">> :> "a pear"))}

Want == [idle |-> FALSE, ai |-> TRUE, client |-> TRUE, template |-> None, age |-> 4,
         group |-> <<>>, grade |-> "", subject |-> "", topic |-> "apples", query |-> "",
         difficulty |-> "", count |-> 2, forbidden |-> FALSE,
         answers |-> {Page("apples", "a pear")}]
Wants == {Want, [Want EXCEPT !.age = NoAge, !.group = <<5, 4>>, !.query = "counting apples",
                             !.topic = "", !.count = 0],
          [Want EXCEPT !.age = NoAge, !.grade = "kg", !.subject = "maths", !.difficulty = "easy",
                       !.ai = FALSE]}
Odd == {[Want EXCEPT !.topic = ""], [Want EXCEPT !.forbidden = TRUE], [Want EXCEPT !.client = FALSE],
        [Want EXCEPT !.age = 1], [Want EXCEPT !.age = 2], [Want EXCEPT !.age = 8],
        [Want EXCEPT !.age = NoAge, !.group = <<9>>], [Want EXCEPT !.age = NoAge, !.ai = FALSE]}
Named(t) == [Want EXCEPT !.template = t, !.answers = MCPayloads]
Given(t) == [Want EXCEPT !.template = t]
NoOrder == [Want EXCEPT !.idle = TRUE]
Make(t) == [template |-> t, valid |-> TRUE, spoiled |-> {}, active |-> TRUE]
NoDraft == [Make(None) EXCEPT !.template = None]

Two(names, a, b) == [x \in names |-> IF x = CHOOSE y \in names : TRUE THEN a ELSE b]
Scenario(f1, f2, g1, g2, u, d1, d2) ==
    [flash |-> Two({"s1", "s2"}, f1, f2), orders |-> Two({"g1", "g2"}, g1, g2),
     uploads |-> [x \in {"u1"} |-> u], drafts |-> Two({"t1", "t2"}, d1, d2), folder |-> {}]
\* The image that is new lies in a folder too.
Filed(s) == [s EXCEPT !.folder = {"red"}]
Quiet(g1, g2, d1, d2) == Scenario(NoFlash, NoFlash, g1, g2, "none", d1, d2)
MCOneAuthor == {Filed(Quiet(NoOrder, NoOrder, Make("w4"), NoDraft))}
MCScenarios ==
    {Scenario(Choose, Choose, NoOrder, NoOrder, "none", NoDraft, NoDraft)}
    \cup {Scenario(f, NoFlash, NoOrder, NoOrder, "create", NoDraft, NoDraft)
            : f \in Chooses \cup {Explicit}}
    \cup {Quiet(g, NoOrder, NoDraft, NoDraft) : g \in Wants \cup Odd \cup {Named("w2"), Named("w3")}}
    \cup {Quiet(Given("w2"), Given("w3"), NoDraft, NoDraft)}
    \cup {Quiet(Named("w4"), NoOrder, Make("w4"), NoDraft)}
    \cup {Filed(Quiet(NoOrder, NoOrder, Make("w4"), d)) :
            d \in {Make("w4"), Make("w5"), [Make("w5") EXCEPT !.active = FALSE],
                   [Make("w5") EXCEPT !.valid = FALSE],
                   [Make("w5") EXCEPT !.spoiled = {"sample"}]}}
=============================================================================
