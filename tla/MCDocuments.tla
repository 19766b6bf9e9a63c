---------------------------- MODULE MCDocuments ----------------------------
(* Instances of Documents for TLC: a template with a title, one picture and *)
(* a list of labelled pictures, a deck of one text and one picture.         *)
EXTENDS Documents, TLC

MCIndices == <<"0", "1">>
MCPhrases == {"apples", "a red apple", "a pear", "names", "poison"}
MCWorded == [f \in {"pear.png"} |-> "a pear"]
Same == [p \in MCPhrases |-> p]
MCInstruction == [k \in {"number_names"} |-> "names"]
MCRightText == [k \in {"number_names"} |-> [f \in {"0"} |-> "names"]]
MCSlotNames == (<<"image">> :> "image") @@ (<<"items", "0">> :> "items[0]")
MCClients == ({"w1", "w2"} \X {0}) \cup ({"d1", "d2"} \X (1..4))

Node(type) == [type |-> type, required |-> {}, closed |-> FALSE, sizes |-> {}, allowed |-> {}]
MCTemplate ==
    [lineart |-> FALSE,
     editable |-> {<<"title">>, <<"items">>, <<"hints">>},
     schema |->
        (<<>> :> [Node("object") EXCEPT !.required = {"title", "image"}, !.closed = TRUE])
        @@ (<<"title">> :> Node("string"))
        @@ (<<"image">> :> Node("object"))
        @@ (<<"image", "imageQuery">> :> Node("string"))
        @@ (<<"items">> :> [Node("array") EXCEPT !.sizes = {1, 2}])
        @@ (<<"items", "*">> :> [Node("object") EXCEPT !.required = {"label"}, !.closed = TRUE])
        @@ (<<"items", "*", "label">> :> Node("string"))
        @@ (<<"items", "*", "imageQuery">> :> Node("string"))
        @@ (<<"hints">> :> [Node("array") EXCEPT !.sizes = {0, 1, 2}])
        @@ (<<"questions">> :> [Node("array") EXCEPT !.sizes = {1}])
        @@ (<<"questions", "*">> :> Node("object"))
        @@ (<<"questions", "*", "question">> :> Node("string"))]

Sheet(title, query) ==
    (<<>> :> "{}") @@ (<<"title">> :> title)
    @@ (<<"image">> :> "{}") @@ (<<"image", "imageQuery">> :> query)
    @@ (<<"hints">> :> "[]") @@ (<<"items">> :> "[]") @@ (<<"items", "0">> :> "{}")
    @@ (<<"items", "0", "label">> :> "apples")
MCStored == Sheet("apples", "a red apple") @@ (<<"image", "assetId">> :> "a1")
Asking(text) == (<<"questions">> :> "[]") @@ (<<"questions", "0">> :> "{}")
                @@ (<<"questions", "0", "question">> :> text)
\* A picture whose asset is itself an object with a query.
Nested(t, p) == t @@ (Append(p, "assetId") :> "{}")
                  @@ (p \o <<"assetId", "imageQuery">> :> "a red apple")
MCReplies == {Leaf("a pear"), Leaf("pear.png"), Leaf("<b>"),
              Nested((<<>> :> "{}") @@ (<<"imageQuery">> :> "a pear"), <<>>),
              (<<>> :> "{}") @@ (<<"value">> :> "a pear")}
Named(t, name) == Prune(t, {<<"image", "imageQuery">>}) @@ (<<"image", "image_name">> :> name)
MCAnswers == {Nested(Sheet("names", "a pear"), <<"image">>),
              Named(Sheet("names", "a pear"), "pear.png"),
              Sheet("names", "a pear") @@ (<<"image", "assetUrl">> :> "a1") @@ Asking("names"),
              Sheet("names", "pear.png"), Sheet("poison", "a pear"), Leaf("{}") @@ Asking("<b>")}

Path(p) == [alias |-> "", path |-> p]
Picture(p, asset, key) == [path |-> p, asset |-> asset, key |-> key]
Plainly(kind) == [kind |-> kind, temp |-> FALSE]
Edit(f) == Plainly("edit") @@ [field |-> f, text |-> "apples"]
Edits == <<Edit(Path(<<"image", "imageQuery">>)), Edit([alias |-> "item", path |-> <<"0">>]),
           Edit(Path(<<"image">>)), Edit(Path(<<"title">>))>>
Update(p, v) == Plainly("update") @@ [field |-> Path(p), value |-> v]
Updates == <<Update(<<"image", "imageQuery">>, "a pear"), Update(<<"title">>, "names")>>
Save(p, v, images) ==
    Plainly("save") @@ [fields |-> <<[path |-> p, value |-> v]>>, images |-> images]
Saves == <<Save(<<"title">>, "names", <<>>),
           Save(<<"title">>, "names", <<Picture(<<"image">>, "", "u1"),
                                        Picture(<<"items", "0">>, "a2", "")>>)>>
Replace(p, asset) == Plainly("replace") @@ [images |-> <<Picture(p, asset, "")>>]
Upload(p) == Plainly("upload") @@ [images |-> <<Picture(p, "", "u1")>>]
Regenerate(topic) == Plainly("regenerate") @@ [text |-> "names",
                                               fields |-> [topic |-> topic, matchType |-> ""]]
Temps == {[kind |-> "edit", temp |-> TRUE, sent |-> MCStored, text |-> "apples",
           field |-> Path(<<"image", "imageQuery">>)],
          [kind |-> "grammar", temp |-> TRUE, sent |-> MCStored @@ Asking("apples")],
          [kind |-> "renderPayload", temp |-> TRUE, sent |-> MCStored, format |-> "png",
           notify |-> TRUE]}
Refusals == {[Edit(Path(<<"title">>)) EXCEPT !.text = "poison"],
             Update(<<"title">>, "<b>"), Save(<<"none", "x">>, "names", <<>>),
             Save(<<"image", "imageQuery">>, "", <<>>),
             Save(<<"items", "1", "label">>, "names", <<>>),
             Save(<<"hints", "0">>, "names", <<>>), Save(<<"hints", "1">>, "names", <<>>),
             Save(<<"title">>, "names", <<Picture(<<"image">>, "a3", "")>>),
             Replace(<<"image">>, "a3"), Upload(<<"title">>)}
Renders == {Plainly("render") @@ [format |-> f] : f \in {"pdf", "png"}}
None == Plainly("none")
Writers == Edits \o Updates \o Saves
           \o <<Replace(<<"image">>, "a2"), Regenerate(""), Regenerate("names")>>
Each(q) == {q[i] : i \in DOMAIN q}

Component_(kind) == [kind |-> kind, content |-> IF kind = "text" THEN "apples" ELSE "none",
                    picture |-> NoPicture]
MCDeck(template) ==
    [template |-> template,
     cards |-> (<<"c1", "title">> :> Component_("text"))
               @@ (<<"c1", "picture">> :> [Component_("image") EXCEPT !.picture.signed = TRUE])]
MCFirstDeck == [MCDeck("t1") EXCEPT !.cards[<<"c1", "picture">>].picture =
                   [asset |-> "a1", key |-> "null", signed |-> FALSE]]
Slot_(name) == <<"c1", name>>
MCEditable == {Slot_("title"), Slot_("picture")}
Ask(kind) == [kind |-> kind, images |-> <<>>]
DeckEdits == {Ask("edit") @@ [slot |-> Slot_(n), text |-> "apples"] : n \in {"title", "picture"}}
DeckSaves == {[kind |-> "save", fields |-> <<[slot |-> Slot_("title"), value |-> "names"],
                                             [slot |-> Slot_("picture"), value |-> "names"]>>,
               images |-> <<[slot |-> Slot_("picture"), asset |-> a, key |-> k]>>]
                 : a \in {"a2"}, k \in {"", "u1"}}
DeckOthers == {Ask("saveGenerated") @@ [deck |-> MCDeck(t), existing |-> e]
                 : t \in {"t2", "t3"}, e \in BOOLEAN}
              \cup {Ask("uploadPicture") @@ [slot |-> Slot_(n)] : n \in {"title", "picture"}}
              \cup {Ask("edit") @@ [slot |-> Slot_("title"), text |-> "poison"],
                    [kind |-> "save", fields |-> <<>>,
                     images |-> <<[slot |-> Slot_("picture"), asset |-> "a3", key |-> ""]>>]}
Render(set) == Ask("render") @@ [set |-> set]
DeckRenders == {Render("g1"), Ask("download") @@ [format |-> "pdf"],
                Ask("download") @@ [format |-> "png"], Ask("notify")}
Nothing == Ask("none")

Two(R, a, b) == [r \in R |-> IF r \in {"w1", "d1"} THEN a ELSE b]
W(a, b) == Two({"w1", "w2"}, a, b)
D(a, b) == Two({"d1", "d2"}, a, b)
\* The last two: renders of one generation or of two at once, and of a deck with one
\* of the worksheet.
MCScenarios ==
    {[worksheet |-> W(Writers[x[1]], Writers[x[2]]), deck |-> D(Nothing, Nothing)]
        : x \in {y \in (DOMAIN Writers) \X (DOMAIN Writers) : y[1] <= y[2]}}
    \cup {[worksheet |-> W(a, b), deck |-> D(Nothing, Nothing)]
        : a \in Each(Writers), b \in Renders}
    \cup {[worksheet |-> W(a, b), deck |-> D(Nothing, Nothing)]
        : a \in Temps \cup {Upload(<<"image">>)}, b \in {None} \cup Renders}
    \cup {[worksheet |-> W(a, None), deck |-> D(Nothing, Nothing)] : a \in Refusals}
    \cup {[worksheet |-> W(a, b), deck |-> D(Nothing, Nothing)] : a, b \in Renders}
    \cup {[worksheet |-> W(None, None), deck |-> D(a, b)]
        : a \in DeckEdits \cup DeckSaves \cup DeckOthers, b \in DeckEdits \cup DeckSaves}
    \cup {[worksheet |-> W(None, None), deck |-> D(a, Nothing)] : a \in DeckRenders}
    \cup {[worksheet |-> W(None, None), deck |-> D(Render("g1"), Render(g))] : g \in {"g1", "g2"}}
    \cup {[worksheet |-> W(a, None), deck |-> D(b, Nothing)] : a \in Renders, b \in DeckRenders}
=============================================================================
