-------------------------- MODULE GenerationProofs --------------------------
(***************************************************************************)
(* Theorems about both generators, for every number of requests, templates *)
(* and authors.                                                            *)
(*                                                                         *)
(* A request is followed step by step: what its calls have told the        *)
(* circuit breaker and written as rows (CallsFollow), what is on its       *)
(* stream (StreamFollows), which stages are open (StagesFollow), what its  *)
(* sheets are (SheetsFollow).  The choice of a flashcard template asks the *)
(* model the way the choice of a worksheet template does, so its one call  *)
(* fits the same places (FlashCallFollows).                                *)
(*                                                                         *)
(* What a request has chosen is followed the same way (TInv): what it has  *)
(* read, ranked, scored and picked (ChoiceFits, RuleFits), and what the    *)
(* tables of the templates held when it read them (TemplatesFollow).       *)
(*                                                                         *)
(* The types need both: a place behind the choice has a template (picked), *)
(* and a sheet stays a structure through all that is done to it            *)
(* (SheetTyped, FlashTyped).                                               *)
(***************************************************************************)
EXTENDS Generation, StructureProofs, FiniteSetTheorems

Early == SelectionSteps \cup {"validate", "picked"}
Asking == {"request", "content", "contentRow", "contentCatch"}
Making == {"search", "compose", "drain"}
Over == {"done", "failed"}
Steps == Early \cup Asking \cup Making \cup Over \cup {"refused"}
Lines == [type : {"meta", "item", "done", "error"}, n : Nat]
SheetKinds == {"none", "malformed", "invalid_id", "low_confidence", "ok", "error"}

\* What the requests are written in.
OrderTypes ==
    /\ step \in [Orders -> Steps]
    /\ told \in [Orders -> [Calls -> Seq(BOOLEAN)]]
    /\ billed \in [Orders -> [Calls -> Seq(BOOLEAN)]]
    /\ answer \in [Orders -> [kind : SheetKinds, pick : DOMAIN Library \cup {None}]]
    /\ sent \in [Orders -> Seq(Lines)] /\ gone \in [Orders -> BOOLEAN]
    /\ open \in [Orders -> SUBSET Stages] /\ composed \in [Orders -> Nat]
    /\ DOMAIN sheets = Orders /\ DOMAIN payload = Orders /\ DOMAIN picked = Orders
    /\ \A g \in Orders : Len(sheets[g]) \in Nat /\ DOMAIN sheets[g] = 1..Len(sheets[g])
                            /\ composed[g] <= Len(sheets[g])

Unclassified == {"validate", "begin", "classify", "intent"}
Classifying == {"intentRow", "intentCatch"}
Unasked == (SelectionSteps \ {"askRow", "askCatch"}) \cup {"validate"}
Unwritten == Early \cup {"request", "content", "contentRow"}

\* What the calls of a request at a place have told the breaker and written: of
\* the classification, the choice, and the content.
ClassifyFits(p, t, b) ==
    /\ p \in Unclassified => t = <<>> /\ b = <<>>
    /\ p = "intentRow" => b = <<>> /\ t \in {<<TRUE>>, <<FALSE>>}
    /\ p = "intentCatch" => b = <<>> /\ t # <<TRUE>>
    /\ p \notin Unclassified \cup Classifying =>
          Len(b) <= 1 /\ (t # <<>> => (b = <<TRUE>> <=> t = <<TRUE>>))
SelectFits(p, t, b, k) ==
    /\ p \in Unasked => t = <<>> /\ b = <<>> /\ k = "none"
    /\ p = "askRow" => b = <<>> /\ k # "error" /\ t = IF k = "ok" THEN <<TRUE>> ELSE <<>>
    /\ p = "askCatch" => b = <<>> /\ k = "error" /\ t # <<>> /\ t[Len(t)] = FALSE
    /\ p \notin SelectionSteps \cup {"validate"} =>
          Account(b, t, k = "ok", k \in {"ok", "low_confidence"})
ContentFits(p, t, b) ==
    /\ p \in Unwritten => t = <<>> /\ b = <<>>
    /\ p = "contentCatch" => b = <<>> /\ t # <<TRUE>> /\ t # <<>>
    /\ p \notin Unwritten \cup {"contentCatch"} =>
          Len(b) <= 1 /\ (b = <<TRUE>> <=> t = <<TRUE>>)
CallsFollow(g) ==
    /\ ClassifyFits(step[g], told[g]["classify"], billed[g]["classify"])
    /\ SelectFits(step[g], told[g]["select"], billed[g]["select"], answer[g].kind)
    /\ ContentFits(step[g], told[g]["content"], billed[g]["content"])

\* What is on its stream, with so many of its sheets composed.
StreamFits(p, s, done, all, left, idle) ==
    /\ \A i \in DOMAIN s :
        /\ s[i].type \in {"done", "error"} => i = Len(s) /\ p \in Over
        /\ s[i].type = "meta" <=> i = 1 /\ s[i].type # "error"
        /\ s[i].type = "item" =>
            /\ s[i].n <= done
            /\ \A j \in 1..(i - 1) : s[j].type = "item" => s[j].n < s[i].n
    /\ p \in Early => s = <<>>
    /\ p \in Early \cup Asking \cup {"search"} => done = 0
    /\ p \in Asking \cup Making /\ ~left => s # <<>>
    /\ p = "compose" /\ ~left => \A n \in 1..done : \E i \in DOMAIN s : s[i] = Line("item", n)
    /\ p = "done" /\ ~left /\ ~idle =>
          /\ s # <<>> /\ s[Len(s)] = Line("done", all)
          /\ \A n \in 1..all : \E i \in DOMAIN s : s[i] = Line("item", n)
    /\ p = "failed" /\ ~left => s # <<>> /\ s[Len(s)].type = "error"
StreamFollows(g) ==
    StreamFits(step[g], sent[g], composed[g], Len(sheets[g]), gone[g], order[g].idle)

\* Which stages are open.
StagesFit(p, o, t) ==
    /\ p \in SelectionSteps \cup {"picked"} => o = {"TEMPLATE_SELECTION"}
    /\ p = "request" => o = {"LLM_CONTENT_GENERATION"}
    /\ p \in {"content", "contentRow"} => o = {"LLM_CONTENT_GENERATION", "LLM_REQUEST"}
    /\ p = "contentCatch" => o = {"LLM_CONTENT_GENERATION"}
    /\ p = "search" => o = {"IMAGE_RETRIEVAL"}
    /\ p \in {"validate", "compose", "drain", "done"} => o = {}
    /\ p \in {"refused", "failed"} /\ "LLM_REQUEST" \in o => t = <<>>
    /\ p = "failed" => o \subseteq {"LLM_REQUEST"}
StagesFollow(g) == StagesFit(step[g], open[g], told[g]["content"])

\* What its sheets are: structures, and no more than were asked for; once their
\* pictures are in, all that an answer has to be.
AnswerFits(g, t) ==
    /\ Valid(t, SchemaOf(g).schema, TRUE) /\ ~HasBadQuery(t)
    /\ \A p \in DOMAIN t \ {<<>>} : Key(p) \notin TransientKeys
SheetsFollow(g) ==
    /\ payload[g] \in Payloads \cup {Unreadable}
    /\ \A i \in DOMAIN sheets[g] : Paths(sheets[g][i])
    /\ step[g] \in Making \/ (step[g] = "done" /\ ~order[g].idle) => Len(sheets[g]) \in 1..Count(g)
    /\ step[g] \in {"compose", "drain", "done"} =>
          \A i \in DOMAIN sheets[g] : AnswerFits(g, sheets[g][i])

OrderFollows(g) ==
    CallsFollow(g) /\ StreamFollows(g) /\ StagesFollow(g) /\ SheetsFollow(g)
OrdersFollow == \A g \in Orders : OrderFollows(g)

\* The same for the choice of a flashcard template, whose one call goes the way
\* of the choice of a worksheet template.
CallTypes ==
    /\ at \in [Selections -> Places] /\ DOMAIN verdict = Selections
    /\ rows \in [Selections -> Seq(BOOLEAN)] /\ reports \in [Selections -> Seq(BOOLEAN)]
Counterpart(p) ==
    IF p \in {"read", "rank", "ai", "snapshot", "build", "store", "call"} THEN "ask"
    ELSE IF p = "row" THEN "askRow" ELSE IF p = "catch" THEN "askCatch" ELSE "picked"
FlashCallFollows(s) == SelectFits(Counterpart(at[s]), reports[s], rows[s], verdict[s].kind)
FlashCallsFollow == \A s \in Selections : FlashCallFollows(s)

\* What is asked for does not change.
AskedFor == \A g \in Orders : order[g].answers \subseteq Payloads /\ order[g].count \in Nat

CInv == AskedFor /\ OrderTypes /\ OrdersFollow /\ CallTypes /\ FlashCallsFollow

---------------------------------------------------------------------------
(* What the small operators of the actions do.                             *)

\* A request moves on, and no other does.
LEMMA GotoMoves ==
    ASSUME OrderTypes, NEW g \in Orders, NEW place \in Steps, Goto(g, place)
    PROVE  /\ step' \in [Orders -> Steps] /\ step'[g] = place
           /\ \A h \in Orders \ {g} : step'[h] = step[h]
BY DEF OrderTypes, Goto

\* The breaker is told of one call.
LEMMA ReportTells ==
    ASSUME OrderTypes, NEW g \in Orders, NEW c \in Calls, NEW good \in BOOLEAN,
           Report(g, c, good)
    PROVE  /\ told' \in [Orders -> [Calls -> Seq(BOOLEAN)]]
           /\ told'[g][c] = Append(told[g][c], good)
           /\ \A d \in Calls \ {c} : told'[g][d] = told[g][d]
           /\ \A h \in Orders \ {g} : told'[h] = told[h]
BY DEF OrderTypes, Report

\* A row of one call is written.
LEMMA BillWrites ==
    ASSUME OrderTypes, NEW g \in Orders, NEW c \in Calls, NEW good \in BOOLEAN,
           Bill(g, c, good)
    PROVE  /\ billed' \in [Orders -> [Calls -> Seq(BOOLEAN)]]
           /\ billed'[g][c] = Append(billed[g][c], good)
           /\ \A d \in Calls \ {c} : billed'[g][d] = billed[g][d]
           /\ \A h \in Orders \ {g} : billed'[h] = billed[h]
BY DEF OrderTypes, Bill

\* The model's pick is noted.
LEMMA AnsweredNotes ==
    ASSUME OrderTypes, NEW g \in Orders, NEW kind \in SheetKinds,
           NEW pick \in DOMAIN Library \cup {None}, Answered(g, kind, pick)
    PROVE  /\ answer' \in [Orders -> [kind : SheetKinds, pick : DOMAIN Library \cup {None}]]
           /\ answer'[g].kind = kind /\ answer'[g].pick = pick
           /\ \A h \in Orders \ {g} : answer'[h] = answer[h]
BY DEF OrderTypes, Answered

\* A line is sent, unless nobody listens.
LEMMA SendAppends ==
    ASSUME OrderTypes, NEW g \in Orders, NEW line \in Lines, Send(g, line)
    PROVE  /\ sent' \in [Orders -> Seq(Lines)]
           /\ gone[g] => sent'[g] = sent[g]
           /\ ~gone[g] => sent'[g] = Append(sent[g], line)
           /\ \A h \in Orders \ {g} : sent'[h] = sent[h]
BY DEF OrderTypes, Send

\* A stage begins.
LEMMA BeginOpens ==
    ASSUME OrderTypes, NEW g \in Orders, NEW stage \in Stages, Begin(g, stage)
    PROVE  /\ open' \in [Orders -> SUBSET Stages] /\ open'[g] = open[g] \cup {stage}
           /\ \A h \in Orders \ {g} : open'[h] = open[h]
BY DEF OrderTypes, Begin

\* A stage ends.
LEMMA EndCloses ==
    ASSUME OrderTypes, NEW g \in Orders, NEW stage, End(g, stage)
    PROVE  /\ open' \in [Orders -> SUBSET Stages] /\ open'[g] = open[g] \ {stage}
           /\ \A h \in Orders \ {g} : open'[h] = open[h]
BY DEF OrderTypes, End

---------------------------------------------------------------------------
(* Lists. *)

\* The function OnlyUpTo names exists, so it is what its equation says.
LEMMA OnlyUnfolds ==
    ASSUME NEW s, NEW S, Len(s) \in Nat
    PROVE  OnlyUpTo(s, S) = [n \in 0..Len(s) |->
              IF n = 0 THEN <<>>
              ELSE IF s[n] \in S THEN Append(OnlyUpTo(s, S)[n - 1], s[n])
                   ELSE OnlyUpTo(s, S)[n - 1]]
<1> DEFINE Then(t, n) == IF s[n] \in S THEN Append(t, s[n]) ELSE t
           Kept_(f, m) == f = [n \in 0..m |-> IF n = 0 THEN <<>> ELSE Then(f[n - 1], n)]
           T == {m \in Nat : \E f : Kept_(f, m)}
<1>0. OnlyUpTo(s, S) = CHOOSE f : Kept_(f, Len(s))
  BY DEF OnlyUpTo
<1> HIDE DEF Then
<1>1. 0 \in T
  <2>1. Kept_([n \in 0..0 |-> <<>>], 0)
    OBVIOUS
  <2> QED BY <2>1
<1>2. ASSUME NEW m \in Nat, m \in T PROVE m + 1 \in T
  <2>1. PICK f : Kept_(f, m)
    BY <1>2
  <2> DEFINE g == [n \in 0..m + 1 |-> IF n <= m THEN f[n] ELSE Then(f[m], m + 1)]
  <2>2. ASSUME NEW n \in 0..m + 1
        PROVE  g[n] = IF n = 0 THEN <<>> ELSE Then(g[n - 1], n)
    <3>1. CASE n = 0
      BY <2>1, <3>1
    <3>2. CASE n \in 1..m
      <4>1. g[n] = f[n] /\ g[n - 1] = f[n - 1]
        BY <3>2
      <4>2. f[n] = Then(f[n - 1], n)
        BY <2>1, <3>2
      <4> QED BY <3>2, <4>1, <4>2
    <3>3. CASE n = m + 1
      <4>1. g[n] = Then(f[m], m + 1) /\ g[n - 1] = f[m] /\ n # 0
        BY <3>3
      <4> QED BY <3>3, <4>1
    <3> QED BY <3>1, <3>2, <3>3
  <2>3. Kept_(g, m + 1)
    BY <2>2
  <2> HIDE DEF g
  <2>4. \E h : Kept_(h, m + 1)
    BY <2>3
  <2> HIDE DEF Kept_
  <2> QED BY <2>4
<1>3. Nat \subseteq T
  BY <1>1, <1>2, InductionOnSets
<1>4. \E f : Kept_(f, Len(s))
  BY <1>3
<1>5. Kept_(OnlyUpTo(s, S), Len(s))
  BY <1>0, <1>4
<1> QED BY <1>5 DEF Then

\* Filtering gives a list of what is in the set, and no longer one.
LEMMA OnlyKeeps ==
    ASSUME NEW E, NEW s \in Seq(E), NEW S
    PROVE  Only(s, S) \in Seq(E \cap S) /\ Len(Only(s, S)) <= Len(s)
<1> DEFINE K == OnlyUpTo(s, S)
           Fine(t, n) == t \in Seq(E \cap S) /\ Len(t) <= n
           T == {n \in Nat : n <= Len(s) => Fine(K[n], n)}
<1>0. Len(s) \in Nat /\ \A i \in 1..Len(s) : s[i] \in E
  OBVIOUS
<1>1. K[0] = <<>> /\ \A n \in 1..Len(s) : K[n] = IF s[n] \in S THEN Append(K[n - 1], s[n]) ELSE K[n - 1]
  <2>1. K = [n \in 0..Len(s) |->
              IF n = 0 THEN <<>>
              ELSE IF s[n] \in S THEN Append(K[n - 1], s[n]) ELSE K[n - 1]]
    BY <1>0, OnlyUnfolds
  <2> HIDE DEF K
  <2>2. \A n \in 0..Len(s) : K[n] = IF n = 0 THEN <<>>
              ELSE IF s[n] \in S THEN Append(K[n - 1], s[n]) ELSE K[n - 1]
    BY <2>1
  <2> QED BY <1>0, <2>2
<1>2. Only(s, S) = K[Len(s)]
  BY DEF Only
<1> HIDE DEF K
<1>3. 0 \in T
  <2>1. Fine(K[0], 0)
    BY <1>1
  <2> HIDE DEF Fine
  <2> QED BY <2>1
<1>4. ASSUME NEW n \in Nat, n \in T PROVE n + 1 \in T
  <2> SUFFICES ASSUME n + 1 <= Len(s) PROVE Fine(K[n + 1], n + 1)
    OBVIOUS
  <2>1. Fine(K[n], n) /\ n + 1 \in 1..Len(s) /\ (n + 1) - 1 = n
    BY <1>0, <1>4
  <2>2. s[n + 1] \in E /\ K[n + 1] = IF s[n + 1] \in S THEN Append(K[n], s[n + 1]) ELSE K[n]
    BY <1>0, <1>1, <2>1
  <2>3. CASE s[n + 1] \in S
    <3>1. K[n + 1] = Append(K[n], s[n + 1]) /\ s[n + 1] \in E \cap S
      BY <2>2, <2>3
    <3> QED BY <2>1, <3>1
  <2> QED BY <2>1, <2>2, <2>3
<1>5. Nat \subseteq T
  <2> HIDE DEF T
  <2> QED BY <1>3, <1>4, InductionOnSets
<1>6. Fine(K[Len(s)], Len(s))
  BY <1>0, <1>5
<1> QED BY <1>2, <1>6

---------------------------------------------------------------------------
(* The sheets a payload has in it. *)

\* What is searched for is still a structure.
LEMMA PreparedPaths ==
    ASSUME NEW g, NEW t, Paths(t) PROVE Paths(Prepared(g, t))
BY CoercePaths, AddQueriesPaths, PairImagesPaths, MascotPaths, ValidatedPaths
   DEF Prepared, Normalise

\* What the model may have answered.
Answerable(t) == Paths(t) /\ IsFiniteSet(DOMAIN t)

\* A list of structures.
AreSheets(s) == \E E : s \in Seq(E) /\ \A t \in E : Paths(t)

\* No sheet, and one.
LEMMA NoSheets == AreSheets(<<>>) /\ Len(<<>>) = 0
<1>1. PICK E : E = {}
  OBVIOUS
<1>2. <<>> \in Seq(E) /\ Len(<<>>) = 0 /\ \A t \in E : Paths(t)
  BY <1>1
<1> QED BY <1>2 DEF AreSheets
\* A structure is a list of one.
LEMMA OneSheet ==
    ASSUME NEW t, Paths(t) PROVE AreSheets(<<t>>) /\ Len(<<t>>) = 1
<1>1. PICK E : E = {t}
  OBVIOUS
<1>2. <<t>> \in Seq(E) /\ Len(<<t>>) = 1 /\ \A x \in E : Paths(x)
  BY <1>1
<1> QED BY <1>2 DEF AreSheets

\* The first of a list are as many as asked for, at most.
LEMMA FirstOfKeeps ==
    ASSUME NEW E, NEW s \in Seq(E), NEW n \in Nat
    PROVE  FirstOf(s, n) \in Seq(E) /\ Len(FirstOf(s, n)) <= n
BY DEF FirstOf

\* The elements of an array, as structures of their own.
LEMMA ListedAreSheets ==
    ASSUME NEW t, Answerable(t), NEW p, IsPath(p) PROVE AreSheets(Listed(t, p))
<1> DEFINE n == Cardinality(Elements(t, p))
           E == {Subtree(t, Append(p, Indices[i])) : i \in 1..n}
<1>1. n \in Nat
  <2>1. Elements(t, p) \subseteq DOMAIN t
    BY DEF Elements, Children
  <2>2. IsFiniteSet(Elements(t, p))
    BY <2>1, FS_Subset DEF Answerable
  <2> QED BY <2>2, FS_CardinalityType
<1>2. \A x \in E : Paths(x)
  BY AppendIsPath, SubtreePaths DEF Answerable
<1>3. Listed(t, p) = [i \in 1..n |-> Subtree(t, Append(p, Indices[i]))]
  BY DEF Listed
<1>4. Listed(t, p) \in [1..n -> E]
  BY <1>3
<1> HIDE DEF n, E
<1>5. Listed(t, p) \in Seq(E)
  BY <1>1, <1>4
<1> QED BY <1>2, <1>5 DEF AreSheets

\* A list without its sheet is given one.
LEMMA WrappedPaths ==
    ASSUME NEW t, Paths(t), NEW p, IsPath(p), NEW key
    PROVE  Paths(Wrapped(t, p, key))
<1>1. IsPath(<<key>>)
  <2>1. <<key>> \in Seq({key})
    OBVIOUS
  <2> QED BY <2>1, SequenceIsPath
<1>2. Paths(Put(Leaf("{}"), <<key>>, Leaf("[]")))
  BY <1>1, LeafPaths, PutPaths
<1> QED BY <1>1, <1>2, SubtreePaths, PutPaths DEF Wrapped

\* However the model writes its sheets, no more are taken than asked for.
LEMMA TakenAreSheets ==
    ASSUME NEW t, Answerable(t), NEW p, IsPath(p), NEW limit \in Nat \ {0}
    PROVE  AreSheets(takeWorksheets(t, p, limit)) /\ Len(takeWorksheets(t, p, limit)) <= limit
<1> DEFINE all == Listed(t, p)
           sheet == Only(all, {x \in Members(all) : looksLikeWorksheetStructure(x)})
           some == IF sheet = <<>> THEN all ELSE sheet
<1>1. PICK E : all \in Seq(E) /\ \A x \in E : Paths(x)
  BY ListedAreSheets DEF AreSheets
<1>2. sheet \in Seq(E)
  <2> DEFINE S == {x \in Members(all) : looksLikeWorksheetStructure(x)}
  <2> HIDE DEF all, S
  <2>1. Only(all, S) \in Seq(E \cap S)
    BY <1>1, OnlyKeeps
  <2>2. Only(all, S) \in Seq(E)
    BY <2>1
  <2> QED BY <2>2 DEF S
<1>3. some \in Seq(E)
  <2> HIDE DEF all, sheet
  <2> QED BY <1>1, <1>2
<1> HIDE DEF all, sheet, some
<1>4. FirstOf(some, limit) \in Seq(E) /\ Len(FirstOf(some, limit)) <= limit
  BY <1>3, FirstOfKeeps
<1>5. AreSheets(FirstOf(some, limit))
  BY <1>1, <1>4 DEF AreSheets
<1>6. AreSheets(<<>>) /\ Len(<<>>) <= limit
  BY NoSheets
<1>7. \A key : AreSheets(<<Wrapped(t, p, key)>>) /\ Len(<<Wrapped(t, p, key)>>) <= limit
  BY WrappedPaths, OneSheet DEF Answerable
<1>8. \/ takeWorksheets(t, p, limit) = <<>>
      \/ \E key : takeWorksheets(t, p, limit) = <<Wrapped(t, p, key)>>
      \/ takeWorksheets(t, p, limit) = FirstOf(some, limit)
  BY DEF takeWorksheets, all, sheet, some
<1> QED BY <1>4, <1>5, <1>6, <1>7, <1>8
\* The same of a whole payload.
LEMMA NormalizedAreSheets ==
    ASSUME NEW t, Answerable(t), NEW limit \in Nat \ {0}
    PROVE  /\ AreSheets(normalizeLlmWorksheetPayload(t, limit))
           /\ Len(normalizeLlmWorksheetPayload(t, limit)) <= limit
<1>1. IsPath(<<>>) /\ IsPath(<<"worksheets">>)
  <2>1. <<>> \in Seq({}) /\ <<"worksheets">> \in Seq({"worksheets"})
    OBVIOUS
  <2> QED BY <2>1, SequenceIsPath
<1>2. AreSheets(<<>>) /\ Len(<<>>) <= limit
  BY NoSheets
<1>3. AreSheets(<<t>>) /\ Len(<<t>>) <= limit
  BY OneSheet DEF Answerable
<1> QED BY <1>1, <1>2, <1>3, TakenAreSheets DEF normalizeLlmWorksheetPayload

\* A request is for one sheet at least.
LEMMA CountIsPositive ==
    ASSUME NEW g, order[g].count \in Nat PROVE Count(g) \in Nat \ {0}
BY GenerationAssumption DEF Count, Least

\* The sheets that are kept are no more than were asked for.
LEMMA KeptAreSheets ==
    ASSUME NEW g, order[g].count \in Nat, Answerable(payload[g])
    PROVE  /\ Len(Kept(g)) \in 0..Count(g) /\ DOMAIN Kept(g) = 1..Len(Kept(g))
           /\ \A i \in DOMAIN Kept(g) : Paths(Kept(g)[i])
<1> DEFINE raw == normalizeLlmWorksheetPayload(payload[g], Count(g))
           S == {w \in Members(raw) : IsRecord(w, <<>>) /\ Usable(g, w)}
           good == Only(raw, S)
           lineart == SchemaOf(g).lineart
<1>1. Count(g) \in Nat \ {0}
  BY CountIsPositive
<1>2. AreSheets(raw) /\ Len(raw) <= Count(g)
  BY <1>1, NormalizedAreSheets
<1>3. Kept(g) = [i \in DOMAIN good |-> Validated(good[i], lineart)]
  BY DEF Kept
<1> HIDE DEF raw, S
<1>4. PICK E : raw \in Seq(E) /\ \A t \in E : Paths(t)
  BY <1>2 DEF AreSheets
<1>5. good \in Seq(E \cap S) /\ Len(good) <= Len(raw)
  BY <1>4, OnlyKeeps
<1>6. good \in Seq(E) /\ Len(good) \in Nat /\ Len(raw) \in Nat
  BY <1>4, <1>5
<1> HIDE DEF good, lineart
<1>7. DOMAIN Kept(g) = 1..Len(good)
  BY <1>3, <1>6
<1>8. Len(Kept(g)) = Len(good)
  <2> DEFINE F == {Validated(good[i], lineart) : i \in 1..Len(good)}
  <2>1. Kept(g) \in [1..Len(good) -> F]
    BY <1>3, <1>6
  <2> HIDE DEF F
  <2> QED BY <1>6, <2>1
<1>9. \A i \in DOMAIN Kept(g) : Paths(Kept(g)[i])
  BY <1>3, <1>4, <1>6, <1>7, ValidatedPaths
<1> QED BY <1>1, <1>2, <1>5, <1>6, <1>7, <1>8, <1>9

---------------------------------------------------------------------------
(* The choice of a worksheet template, as the calls see it. *)

SelectionTypes ==
    /\ step \in [Orders -> Steps]
    /\ told \in [Orders -> [Calls -> Seq(BOOLEAN)]]
    /\ billed \in [Orders -> [Calls -> Seq(BOOLEAN)]]
    /\ answer \in [Orders -> [kind : SheetKinds, pick : DOMAIN Library \cup {None}]]

\* A request chooses on; nobody else does, and its content is not touched.
Chooses(g) ==
    /\ SelectionTypes' /\ order' = order
    /\ step[g] \in SelectionSteps /\ step'[g] \in SelectionSteps \cup {"picked", "refused"}
    /\ told'[g]["content"] = told[g]["content"] /\ billed'[g]["content"] = billed[g]["content"]
    /\ \A h \in Orders \ {g} : /\ step'[h] = step[h] /\ told'[h] = told[h]
                               /\ billed'[h] = billed[h] /\ answer'[h] = answer[h]

\* What a verdict on the model's pick may be.
LEMMA SheetVerdicts ==
    ASSUME NEW g, NEW pick \in DOMAIN Library \cup {None}, NEW sure \in BOOLEAN
    PROVE  JudgedSheet(g, pick, sure) \in {"malformed", "invalid_id", "low_confidence", "ok"}
BY DEF JudgedSheet

\* What may have changed: what one call told, or wrote, and the pick.
ToldBy(g, c) ==
    /\ told' \in [Orders -> [Calls -> Seq(BOOLEAN)]]
    /\ \A d \in Calls \ {c} : told'[g][d] = told[g][d]
    /\ \A h \in Orders \ {g} : told'[h] = told[h]
BilledBy(g, c) ==
    /\ billed' \in [Orders -> [Calls -> Seq(BOOLEAN)]]
    /\ \A d \in Calls \ {c} : billed'[g][d] = billed[g][d]
    /\ \A h \in Orders \ {g} : billed'[h] = billed[h]
PickedFor(g) ==
    /\ answer' \in [Orders -> [kind : SheetKinds, pick : DOMAIN Library \cup {None}]]
    /\ \A h \in Orders \ {g} : answer'[h] = answer[h]
WentTo(g, S) ==
    /\ step' \in [Orders -> Steps] /\ step'[g] \in S
    /\ \A h \in Orders \ {g} : step'[h] = step[h]

\* Every step of the choice is one.
LEMMA SelectionMoves ==
    ASSUME OrderTypes, NEW g \in Orders, SheetSelectionStep(g)
    PROVE  Chooses(g)
<1>0. /\ {"refused", "picked", "classify", "intent", "intentRow", "intentCatch", "rank",
          "select", "catalog", "ask", "askRow", "askCatch"} \subseteq Steps
      /\ "classify" \in Calls /\ "select" \in Calls /\ "content" \in Calls
  BY DEF Steps, Early, SelectionSteps, Calls
<1>e. TRUE \in BOOLEAN /\ FALSE \in BOOLEAN
  OBVIOUS
<1>1. CASE TakeExplicit(g)
  BY <1>0, <1>1, GotoMoves
     DEF TakeExplicit, Chooses, SelectionTypes, OrderTypes, calls, outcome,
         SelectionSteps, SheetKinds
<1>2. CASE ListActive(g)
  BY <1>0, <1>2, GotoMoves
     DEF ListActive, Chooses, SelectionTypes, OrderTypes, calls, outcome,
         SelectionSteps, SheetKinds
<1>3. CASE ListFails(g)
  BY <1>0, <1>3, GotoMoves
     DEF ListFails, Chooses, SelectionTypes, OrderTypes, calls, outcome,
         SelectionSteps, SheetKinds
<1>4. CASE Classify(g)
  BY <1>0, <1>4, GotoMoves
     DEF Classify, Chooses, SelectionTypes, OrderTypes, calls, outcome,
         SelectionSteps, SheetKinds
<1>5. CASE ModelClassifies(g)
  <2>1. WentTo(g, {"intentRow"})
    BY <1>0, <1>5, GotoMoves DEF ModelClassifies, WentTo
  <2>2. ToldBy(g, "classify")
    BY <1>0, <1>e, <1>5, ReportTells DEF ModelClassifies, ToldBy, OrderTypes, outcome, calls
  <2>3. BilledBy(g, "classify")
    BY <1>0, <1>e, <1>5 DEF ModelClassifies, BilledBy, OrderTypes, outcome, calls
  <2>4. PickedFor(g)
    BY <1>0, <1>5 DEF ModelClassifies, PickedFor, OrderTypes, outcome, SheetKinds
  <2>5. step[g] \in SelectionSteps /\ order' = order
    BY <1>5 DEF ModelClassifies, SelectionSteps
  <2> QED BY <1>0, <2>1, <2>2, <2>3, <2>4, <2>5
          DEF WentTo, ToldBy, BilledBy, PickedFor, Chooses, SelectionTypes, SelectionSteps
<1>6. CASE ClassifyRow(g)
  <2>1. WentTo(g, {"rank"})
    BY <1>0, <1>6, GotoMoves DEF ClassifyRow, WentTo
  <2>2. ToldBy(g, "classify")
    BY <1>0, <1>e, <1>6 DEF ClassifyRow, ToldBy, OrderTypes, outcome, calls
  <2>3. BilledBy(g, "classify")
    BY <1>0, <1>e, <1>6, BillWrites DEF ClassifyRow, BilledBy, OrderTypes, outcome, calls
  <2>4. PickedFor(g)
    BY <1>0, <1>6 DEF ClassifyRow, PickedFor, OrderTypes, outcome, SheetKinds
  <2>5. step[g] \in SelectionSteps /\ order' = order
    BY <1>6 DEF ClassifyRow, SelectionSteps
  <2> QED BY <1>0, <2>1, <2>2, <2>3, <2>4, <2>5
          DEF WentTo, ToldBy, BilledBy, PickedFor, Chooses, SelectionTypes, SelectionSteps
<1>7. CASE ClassifyFails(g)
  <2>1. WentTo(g, {"intentCatch"})
    BY <1>0, <1>7, GotoMoves DEF ClassifyFails, WentTo
  <2>2. ToldBy(g, "classify")
    BY <1>0, <1>e, <1>7, ReportTells DEF ClassifyFails, ToldBy, OrderTypes, outcome, calls
  <2>3. BilledBy(g, "classify")
    BY <1>0, <1>e, <1>7 DEF ClassifyFails, BilledBy, OrderTypes, outcome, calls
  <2>4. PickedFor(g)
    BY <1>0, <1>7 DEF ClassifyFails, PickedFor, OrderTypes, outcome, SheetKinds
  <2>5. step[g] \in SelectionSteps /\ order' = order
    BY <1>7 DEF ClassifyFails, SelectionSteps
  <2> QED BY <1>0, <2>1, <2>2, <2>3, <2>4, <2>5
          DEF WentTo, ToldBy, BilledBy, PickedFor, Chooses, SelectionTypes, SelectionSteps
<1>8. CASE ClassifyCatch(g)
  <2>1. WentTo(g, {"rank"})
    BY <1>0, <1>8, GotoMoves DEF ClassifyCatch, WentTo
  <2>2. ToldBy(g, "classify")
    BY <1>0, <1>e, <1>8 DEF ClassifyCatch, ToldBy, OrderTypes, outcome, calls
  <2>3. BilledBy(g, "classify")
    BY <1>0, <1>e, <1>8, BillWrites DEF ClassifyCatch, BilledBy, OrderTypes, outcome, calls
  <2>4. PickedFor(g)
    BY <1>0, <1>8 DEF ClassifyCatch, PickedFor, OrderTypes, outcome, SheetKinds
  <2>5. step[g] \in SelectionSteps /\ order' = order
    BY <1>8 DEF ClassifyCatch, SelectionSteps
  <2> QED BY <1>0, <2>1, <2>2, <2>3, <2>4, <2>5
          DEF WentTo, ToldBy, BilledBy, PickedFor, Chooses, SelectionTypes, SelectionSteps
<1>9. CASE Rerank(g)
  BY <1>0, <1>9, GotoMoves
     DEF Rerank, Chooses, SelectionTypes, OrderTypes, calls, outcome,
         SelectionSteps, SheetKinds
<1>10. CASE Select(g)
  BY <1>0, <1>10, GotoMoves
     DEF Select, Resolved, Chooses, SelectionTypes, OrderTypes, calls, outcome,
         SelectionSteps, SheetKinds
<1>11. CASE ListCatalog(g)
  BY <1>0, <1>11, GotoMoves
     DEF ListCatalog, Chooses, SelectionTypes, OrderTypes, calls, outcome,
         SelectionSteps, SheetKinds
<1>12. CASE ModelPicks(g)
  <2>1. WentTo(g, {"askRow"})
    BY <1>0, <1>12, GotoMoves DEF ModelPicks, WentTo
  <2>2. ToldBy(g, "select")
    BY <1>0, <1>e, <1>12, ReportTells DEF ModelPicks, ToldBy, OrderTypes, outcome, calls
  <2>3. BilledBy(g, "select")
    BY <1>0, <1>e, <1>12 DEF ModelPicks, BilledBy, OrderTypes, outcome, calls
  <2>4. PickedFor(g)
    <3>1. PICK pick \in DOMAIN Library \cup {None}, sure \in BOOLEAN :
              Answered(g, JudgedSheet(g, pick, sure),
                       IF JudgedSheet(g, pick, sure) = "ok" THEN pick ELSE None)
      BY <1>12 DEF ModelPicks
    <3>2. JudgedSheet(g, pick, sure) \in SheetKinds
      BY SheetVerdicts DEF SheetKinds
    <3>3. PICK kind \in SheetKinds, which \in DOMAIN Library \cup {None} : Answered(g, kind, which)
      BY <3>1, <3>2
    <3> QED BY <3>3, AnsweredNotes DEF PickedFor
  <2>5. step[g] \in SelectionSteps /\ order' = order
    BY <1>12 DEF ModelPicks, SelectionSteps
  <2> QED BY <1>0, <2>1, <2>2, <2>3, <2>4, <2>5
          DEF WentTo, ToldBy, BilledBy, PickedFor, Chooses, SelectionTypes, SelectionSteps
<1>13. CASE SelectRow(g)
  <2>1. WentTo(g, {"picked"})
    BY <1>0, <1>13, GotoMoves DEF SelectRow, Resolved, WentTo
  <2>2. ToldBy(g, "select")
    BY <1>0, <1>e, <1>13, ReportTells DEF SelectRow, ToldBy, OrderTypes, outcome, calls
  <2>3. BilledBy(g, "select")
    BY <1>0, <1>e, <1>13, BillWrites DEF SelectRow, BilledBy, OrderTypes, outcome, calls
  <2>4. PickedFor(g)
    BY <1>0, <1>13 DEF SelectRow, PickedFor, OrderTypes, outcome, SheetKinds
  <2>5. step[g] \in SelectionSteps /\ order' = order
    BY <1>13 DEF SelectRow, SelectionSteps
  <2> QED BY <1>0, <2>1, <2>2, <2>3, <2>4, <2>5
          DEF WentTo, ToldBy, BilledBy, PickedFor, Chooses, SelectionTypes, SelectionSteps
<1>14. CASE SelectFails(g)
  <2>1. WentTo(g, {"askCatch"})
    BY <1>0, <1>14, GotoMoves DEF SelectFails, WentTo
  <2>2. ToldBy(g, "select")
    BY <1>0, <1>e, <1>14, ReportTells DEF SelectFails, ToldBy, OrderTypes, outcome, calls
  <2>3. BilledBy(g, "select")
    BY <1>0, <1>e, <1>14 DEF SelectFails, BilledBy, OrderTypes, outcome, calls
  <2>4. PickedFor(g)
    BY <1>0, <1>14, AnsweredNotes, SheetVerdicts DEF SelectFails, PickedFor, OrderTypes, outcome, SheetKinds
  <2>5. step[g] \in SelectionSteps /\ order' = order
    BY <1>14 DEF SelectFails, SelectionSteps
  <2> QED BY <1>0, <2>1, <2>2, <2>3, <2>4, <2>5
          DEF WentTo, ToldBy, BilledBy, PickedFor, Chooses, SelectionTypes, SelectionSteps
<1>15. CASE SelectCatch(g)
  <2>1. WentTo(g, {"picked", "refused"})
    BY <1>0, <1>15, GotoMoves DEF SelectCatch, Resolved, WentTo
  <2>2. ToldBy(g, "select")
    BY <1>0, <1>e, <1>15 DEF SelectCatch, ToldBy, OrderTypes, outcome, calls
  <2>3. BilledBy(g, "select")
    BY <1>0, <1>e, <1>15, BillWrites DEF SelectCatch, BilledBy, OrderTypes, outcome, calls
  <2>4. PickedFor(g)
    BY <1>0, <1>15 DEF SelectCatch, PickedFor, OrderTypes, outcome, SheetKinds
  <2>5. step[g] \in SelectionSteps /\ order' = order
    BY <1>15 DEF SelectCatch, SelectionSteps
  <2> QED BY <1>0, <2>1, <2>2, <2>3, <2>4, <2>5
          DEF WentTo, ToldBy, BilledBy, PickedFor, Chooses, SelectionTypes, SelectionSteps
<1> QED BY <1>1, <1>2, <1>3, <1>4, <1>5, <1>6, <1>7, <1>8, <1>9, <1>10, <1>11, <1>12, <1>13, <1>14, <1>15 DEF SheetSelectionStep

---------------------------------------------------------------------------
(* How a call's record goes on: pure facts about places and notes. *)

\* A list with one more at its end.
LEMMA OneMore ==
    ASSUME NEW S, NEW s \in Seq(S), NEW x \in S
    PROVE  /\ Append(s, x) # <<>> /\ Append(s, x)[Len(Append(s, x))] = x
           /\ s = <<>> => Append(s, x) = <<x>> /\ Len(Append(s, x)) <= 1
           /\ Len(Append(s, x)) = Len(s) + 1
           /\ \A y : Append(s, x) = <<y>> => s = <<>> /\ x = y
<1>1. Append(s, x) # <<>> /\ Append(s, x)[Len(Append(s, x))] = x /\ Len(Append(s, x)) = Len(s) + 1
  BY AppendProperties
<1>2. s = <<>> => Append(s, x) = <<x>>
  OBVIOUS
<1>3. ASSUME NEW y, Append(s, x) = <<y>> PROVE s = <<>> /\ x = y
  <2>1. Len(s) + 1 = 1 /\ Len(s) \in Nat
    BY <1>1, <1>3
  <2>2. s = <<>>
    BY <2>1
  <2> QED BY <1>1, <1>3, <2>2
<1> QED BY <1>1, <1>2, <1>3
\* A single note is one thing, and says what was noted.
LEMMA NotedOnce ==
    ASSUME NEW b \in BOOLEAN
    PROVE  /\ Append(<<>>, b) = <<b>> /\ <<b>> # <<>> /\ Len(<<b>>) = 1
           /\ <<b>>[1] = b /\ (<<b>> = <<TRUE>> <=> b)
<1>1. Append(<<>>, b) = <<b>> /\ <<b>> # <<>> /\ Len(<<b>>) = 1
  OBVIOUS
<1>2. <<b>>[1] = b /\ <<TRUE>>[1] = TRUE /\ <<FALSE>>[1] = FALSE
  OBVIOUS
<1>3. CASE b = TRUE
  BY <1>1, <1>2, <1>3
<1>4. CASE b = FALSE
  <2>1. <<FALSE>> # <<TRUE>>
    BY <1>2
  <2> QED BY <1>1, <1>2, <1>4, <2>1
<1> QED BY <1>1, <1>3, <1>4
\* Nothing noted is not a note.
LEMMA NothingNoted == Len(<<>>) = 0 /\ Len(<<>>) <= 1 /\ <<>> # <<TRUE>> /\ <<>> # <<FALSE>>
OBVIOUS
\* After a failure the last note is one.
LEMMA NotedFailure ==
    ASSUME NEW s \in Seq(BOOLEAN)
    PROVE  /\ Append(s, FALSE) # <<TRUE>> /\ Append(s, FALSE) # <<>>
           /\ Append(s, FALSE)[Len(Append(s, FALSE))] = FALSE
<1>1. \A S : \A t \in Seq(S), x \in S : /\ Append(t, x) # <<>>
                                        /\ Append(t, x)[Len(Append(t, x))] = x
                                        /\ \A y : Append(t, x) = <<y>> => x = y
  BY OneMore
<1>2. FALSE \in BOOLEAN
  OBVIOUS
<1>3. /\ Append(s, FALSE) # <<>> /\ Append(s, FALSE)[Len(Append(s, FALSE))] = FALSE
      /\ \A y : Append(s, FALSE) = <<y>> => FALSE = y
  BY ONLY <1>1, <1>2, s \in Seq(BOOLEAN), Zenon
<1> QED BY <1>3, Zenon

\* Before and after the classification nothing is noted of it.
LEMMA ClassifyRests ==
    ASSUME NEW p, NEW q, NEW t, NEW b, ClassifyFits(p, t, b),
           p \in Unclassified \/ (p \notin Classifying /\ q \notin Unclassified),
           q \notin Classifying
    PROVE  ClassifyFits(q, t, b)
BY NothingNoted DEF ClassifyFits, Unclassified, Classifying
\* The breaker hears how the call ended; after a failure
LEMMA ClassifyTells ==
    ASSUME NEW t, NEW b, ClassifyFits("intent", t, b), NEW good \in BOOLEAN
    PROVE  ClassifyFits("intentRow", Append(t, good), b)
<1>1. t = <<>> /\ b = <<>>
  BY DEF ClassifyFits, Unclassified
<1>2. Append(t, good) = <<good>>
  BY <1>1, NotedOnce
<1>3. <<good>> \in {<<TRUE>>, <<FALSE>>}
  <2>1. CASE good = TRUE
    BY <2>1
  <2>2. CASE good = FALSE
    BY <2>2
  <2> QED BY <2>1, <2>2
<1> QED BY <1>1, <1>2, <1>3 DEF ClassifyFits, Unclassified, Classifying
\* it has not heard one success,
LEMMA ClassifyErrs ==
    ASSUME NEW p \in {"intent", "intentRow"}, NEW t \in Seq(BOOLEAN), NEW b, ClassifyFits(p, t, b)
    PROVE  ClassifyFits("intentCatch", Append(t, FALSE), b)
<1>1. b = <<>>
  BY DEF ClassifyFits, Unclassified
<1>2. Append(t, FALSE) # <<TRUE>>
  BY NotedFailure
<1> QED BY <1>1, <1>2 DEF ClassifyFits, Unclassified, Classifying
\* and the row says so, if it is written.
LEMMA ClassifyWrites ==
    ASSUME NEW t, NEW b, ClassifyFits("intentCatch", t, b)
    PROVE  ClassifyFits("rank", t, Append(b, FALSE)) /\ ClassifyFits("rank", t, b)
<1>1. b = <<>> /\ t # <<TRUE>>
  BY DEF ClassifyFits, Unclassified, Classifying
<1>2. Append(b, FALSE) = <<FALSE>> /\ Len(<<FALSE>>) = 1 /\ <<FALSE>> # <<TRUE>>
  BY <1>1, NotedOnce
<1>3. Len(Append(b, FALSE)) <= 1
  BY <1>2
<1>4. ClassifyFits("rank", t, Append(b, FALSE))
  BY <1>1, <1>2, <1>3, Zenon DEF ClassifyFits, Unclassified, Classifying
<1>5. ClassifyFits("rank", t, b)
  BY <1>1, NothingNoted DEF ClassifyFits, Unclassified, Classifying
<1> QED BY <1>4, <1>5
\* The row of a call that ended says what the breaker heard.
LEMMA ClassifyRecords ==
    ASSUME NEW t, NEW b, ClassifyFits("intentRow", t, b)
    PROVE  ClassifyFits("rank", t, Append(b, t = <<TRUE>>))
<1>1. b = <<>> /\ t \in {<<TRUE>>, <<FALSE>>}
  BY DEF ClassifyFits, Unclassified, Classifying
<1>2. PICK good \in BOOLEAN : good <=> t = <<TRUE>>
  OBVIOUS
<1>3. Append(b, good) = <<good>> /\ Len(<<good>>) = 1 /\ (<<good>> = <<TRUE>> <=> good)
  BY <1>1, NotedOnce
<1>4. Len(Append(b, good)) <= 1
  BY <1>3
<1>5. ClassifyFits("rank", t, Append(b, good))
  BY <1>2, <1>3, <1>4, Zenon DEF ClassifyFits, Unclassified, Classifying
<1>6. (t = <<TRUE>>) = good
  BY <1>2
<1> QED BY <1>5, <1>6
\* Until the model is asked which template to take, nothing is noted of it,
LEMMA SelectWaits ==
    ASSUME NEW p, NEW q, NEW t, NEW b, NEW k, SelectFits(p, t, b, k), p \in Unasked,
           q \notin {"askRow", "askCatch"}
    PROVE  SelectFits(q, t, b, k)
<1>1. t = <<>> /\ b = <<>> /\ k = "none"
  BY DEF SelectFits
<1>2. Account(<<>>, <<>>, k = "ok", k \in {"ok", "low_confidence"})
  BY <1>1, NothingNoted DEF Account
<1> QED BY <1>1, <1>2 DEF SelectFits
\* and when that is over nothing more.
LEMMA SelectRests ==
    ASSUME NEW p, NEW q, NEW t, NEW b, NEW k, SelectFits(p, t, b, k),
           p \notin SelectionSteps \cup {"validate"}, q \notin SelectionSteps \cup {"validate"}
    PROVE  SelectFits(q, t, b, k)
BY DEF SelectFits, Unasked, SelectionSteps
\* The breaker hears at once of an answer that counts.
LEMMA SelectTells ==
    ASSUME NEW t, NEW b, NEW j, SelectFits("ask", t, b, j), NEW k, k # "error"
    PROVE  /\ k = "ok" => SelectFits("askRow", Append(t, TRUE), b, k)
           /\ k # "ok" => SelectFits("askRow", t, b, k)
<1>1. t = <<>> /\ b = <<>>
  BY DEF SelectFits, Unasked, SelectionSteps
<1>2. Append(t, TRUE) = <<TRUE>>
  BY <1>1, NotedOnce
<1> QED BY <1>1, <1>2 DEF SelectFits, Unasked, SelectionSteps
\* Of another it hears when the row is written.
LEMMA SelectRecords ==
    ASSUME NEW t, NEW b, NEW k, SelectFits("askRow", t, b, k)
    PROVE  /\ k = "ok" => SelectFits("picked", t, Append(b, TRUE), k)
           /\ k = "low_confidence" => SelectFits("picked", Append(t, TRUE), Append(b, FALSE), k)
           /\ k \notin {"ok", "low_confidence"} =>
                 SelectFits("picked", Append(t, FALSE), Append(b, FALSE), k)
<1>1. b = <<>> /\ (k = "ok" => t = <<TRUE>>) /\ (k # "ok" => t = <<>>)
  BY DEF SelectFits, Unasked, SelectionSteps
<1>2. /\ Append(<<>>, TRUE) = <<TRUE>> /\ Append(<<>>, FALSE) = <<FALSE>> /\ <<FALSE>> # <<TRUE>>
      /\ Len(<<TRUE>>) = 1 /\ Len(<<FALSE>>) = 1 /\ <<TRUE>>[1] = TRUE /\ <<FALSE>>[1] = FALSE
  BY NotedOnce
<1>3. Len(<<TRUE>>) <= 1 /\ Len(<<FALSE>>) <= 1
  BY <1>2
<1>5. \A u, v : SelectFits("picked", u, v, k)
                  <=> Account(v, u, k = "ok", k \in {"ok", "low_confidence"})
  BY DEF SelectFits, Unasked, SelectionSteps
<1>6. ASSUME k = "ok" PROVE SelectFits("picked", t, Append(b, TRUE), k)
  <2>1. Account(<<TRUE>>, <<TRUE>>, k = "ok", k \in {"ok", "low_confidence"})
    BY <1>2, <1>3, <1>6 DEF Account
  <2> QED BY <1>1, <1>2, <1>5, <1>6, <2>1
<1>7. ASSUME k = "low_confidence"
      PROVE  SelectFits("picked", Append(t, TRUE), Append(b, FALSE), k)
  <2>1. Account(<<FALSE>>, <<TRUE>>, k = "ok", k \in {"ok", "low_confidence"})
    BY <1>2, <1>3, <1>7 DEF Account
  <2> QED BY <1>1, <1>2, <1>5, <1>7, <2>1
<1>8. ASSUME k \notin {"ok", "low_confidence"}
      PROVE  SelectFits("picked", Append(t, FALSE), Append(b, FALSE), k)
  <2>1. Account(<<FALSE>>, <<FALSE>>, k = "ok", k \in {"ok", "low_confidence"})
    <3>1. (k = "ok") = FALSE /\ (k \in {"ok", "low_confidence"}) = FALSE
      BY <1>8
    <3>2. Account(<<FALSE>>, <<FALSE>>, FALSE, FALSE)
      BY <1>2, <1>3 DEF Account
    <3> QED BY <3>1, <3>2
  <2> QED BY <1>1, <1>2, <1>5, <1>8, <2>1
<1> QED BY <1>6, <1>7, <1>8
\* A failure is the last it hears,
LEMMA SelectErrs ==
    ASSUME NEW p \in {"ask", "askRow"}, NEW t \in Seq(BOOLEAN), NEW b, NEW k, SelectFits(p, t, b, k)
    PROVE  SelectFits("askCatch", Append(t, FALSE), b, "error")
<1>1. b = <<>>
  BY DEF SelectFits, Unasked, SelectionSteps
<1>2. Append(t, FALSE) # <<>> /\ Append(t, FALSE)[Len(Append(t, FALSE))] = FALSE
  BY NotedFailure
<1> QED BY <1>1, <1>2 DEF SelectFits, Unasked, SelectionSteps
\* and its row says so, if it is written.
LEMMA SelectWrites ==
    ASSUME NEW t, NEW b, NEW k, SelectFits("askCatch", t, b, k)
    PROVE  SelectFits("picked", t, Append(b, FALSE), k) /\ SelectFits("refused", t, b, k)
<1>1. b = <<>> /\ k = "error" /\ t # <<>> /\ t[Len(t)] = FALSE
  BY DEF SelectFits, Unasked, SelectionSteps
<1>2. Append(b, FALSE) = <<FALSE>> /\ Len(<<FALSE>>) = 1 /\ <<FALSE>> # <<TRUE>>
  BY <1>1, NotedOnce
<1>3. Len(<<FALSE>>) <= 1
  BY <1>2
<1>4. /\ Account(<<FALSE>>, t, k = "ok", k \in {"ok", "low_confidence"})
      /\ Account(<<>>, t, k = "ok", k \in {"ok", "low_confidence"})
  <2>1. (k = "ok") = FALSE /\ (k \in {"ok", "low_confidence"}) = FALSE
    BY <1>1
  <2>2. Account(<<FALSE>>, t, FALSE, FALSE)
    BY <1>1, <1>2, <1>3 DEF Account
  <2>3. Account(<<>>, t, FALSE, FALSE)
    BY <1>1, NothingNoted DEF Account
  <2> QED BY <2>1, <2>2, <2>3
<1> QED BY <1>1, <1>2, <1>4 DEF SelectFits, Unasked, SelectionSteps

\* Of the content, too, nothing is noted before it is asked for and nothing
\* after.
LEMMA ContentRests ==
    ASSUME NEW p, NEW q, NEW t, NEW b, ContentFits(p, t, b), q # "contentCatch",
           p \in Unwritten \/ (p # "contentCatch" /\ q \notin Unwritten)
    PROVE  ContentFits(q, t, b)
BY NothingNoted DEF ContentFits
\* An answer is noted as a row and by the breaker,
LEMMA ContentRecords ==
    ASSUME NEW t, NEW b, ContentFits("contentRow", t, b), NEW q \in {"refused", "search"}
    PROVE  ContentFits(q, Append(t, TRUE), Append(b, TRUE))
<1>1. t = <<>> /\ b = <<>>
  BY DEF ContentFits, Unwritten
<1>2. Append(<<>>, TRUE) = <<TRUE>> /\ Len(<<TRUE>>) = 1
  BY NotedOnce
<1>3. Len(<<TRUE>>) <= 1
  BY <1>2
<1> QED BY <1>1, <1>2, <1>3 DEF ContentFits, Unwritten, Early, SelectionSteps
\* a failure by the breaker,
LEMMA ContentErrs ==
    ASSUME NEW p \in {"content", "contentRow"}, NEW t \in Seq(BOOLEAN), NEW b, ContentFits(p, t, b)
    PROVE  ContentFits("contentCatch", Append(t, FALSE), b)
<1>1. b = <<>>
  BY DEF ContentFits, Unwritten
<1>2. Append(t, FALSE) # <<>> /\ Append(t, FALSE) # <<TRUE>>
  BY NotedFailure
<1> QED BY <1>1, <1>2 DEF ContentFits, Unwritten, Early, SelectionSteps
\* and as a row, if it can be written.
LEMMA ContentWrites ==
    ASSUME NEW t, NEW b, ContentFits("contentCatch", t, b)
    PROVE  ContentFits("refused", t, Append(b, FALSE)) /\ ContentFits("refused", t, b)
<1>1. b = <<>> /\ t # <<>> /\ t # <<TRUE>>
  BY DEF ContentFits
<1>2. Append(b, FALSE) = <<FALSE>> /\ Len(<<FALSE>>) = 1 /\ <<FALSE>> # <<TRUE>>
  BY <1>1, NotedOnce
<1>3. Len(<<FALSE>>) <= 1
  BY <1>2
<1> QED BY <1>1, <1>2, <1>3, NothingNoted DEF ContentFits, Unwritten, Early, SelectionSteps

---------------------------------------------------------------------------
(* How a stream goes on. *)

\* What a line is, and how a list is longer by one.
LEMMA SentOneMore ==
    ASSUME NEW s \in Seq(Lines), NEW x \in Lines
    PROVE  /\ Len(s) \in Nat /\ DOMAIN s = 1..Len(s)
           /\ Len(Append(s, x)) = Len(s) + 1 /\ DOMAIN Append(s, x) = 1..(Len(s) + 1)
           /\ \A i \in 1..Len(s) : Append(s, x)[i] = s[i]
           /\ Append(s, x)[Len(s) + 1] = x /\ Append(s, x) # <<>>
           /\ \A i \in 1..Len(s) : s[i].n \in Nat
           /\ Append(s, x) \in Seq(Lines)
<1>1. /\ Len(Append(s, x)) = Len(s) + 1 /\ Append(s, x) # <<>> /\ Append(s, x) \in Seq(Lines)
      /\ \A i \in 1..Len(s) : Append(s, x)[i] = s[i]
      /\ Append(s, x)[Len(s) + 1] = x
  BY AppendProperties
<1>2. Len(s) \in Nat /\ DOMAIN s = 1..Len(s) /\ \A i \in 1..Len(s) : s[i] \in Lines
  OBVIOUS
<1>3. \A y \in Lines : y.n \in Nat
  BY DEF Lines
<1>4. DOMAIN Append(s, x) = 1..(Len(s) + 1)
  BY <1>1, <1>2
<1> QED BY <1>1, <1>2, <1>3, <1>4
\* A line is one.
LEMMA LineIsOne ==
    ASSUME NEW type \in {"meta", "item", "done", "error"}, NEW n \in Nat
    PROVE  Line(type, n) \in Lines /\ Line(type, n).type = type /\ Line(type, n).n = n
BY DEF Line, Lines

\* Nothing is sent before the template is chosen.
LEMMA StreamWaits ==
    ASSUME NEW p \in Early, NEW q \in Early \cup {"refused"}, NEW s, NEW done, NEW all, NEW left,
           NEW idle, StreamFits(p, s, done, all, left, idle)
    PROVE  StreamFits(q, s, done, all, left, idle)
<1>1. s = <<>> /\ done = 0
  BY DEF StreamFits
<1>2. DOMAIN s = {}
  BY <1>1
<1>3. q \notin Asking \cup Making \cup {"compose", "done", "failed"}
  BY DEF Early, Asking, Making, SelectionSteps
<1> QED BY <1>1, <1>2, <1>3 DEF StreamFits
\* It begins with what it is about.
LEMMA StreamOpens ==
    ASSUME NEW s \in Seq(Lines), NEW done, NEW all, NEW left \in BOOLEAN, NEW idle, NEW n \in Nat,
           StreamFits("picked", s, done, all, left, idle)
    PROVE  StreamFits("request", IF left THEN s ELSE Append(s, Line("meta", n)), done, all, left, idle)
<1>1. s = <<>> /\ done = 0
  BY DEF StreamFits, Early
<1>2. "request" \in Asking /\ "request" \notin Early \cup Over \cup {"compose", "done", "failed"}
  BY DEF Early, Asking, SelectionSteps, Over
<1>3. CASE left
  <2>1. DOMAIN s = {}
    BY <1>1
  <2> QED BY <1>1, <1>2, <1>3, <2>1 DEF StreamFits
<1>4. CASE ~left
  <2> DEFINE x == Line("meta", n)
  <2>1. x \in Lines /\ x.type = "meta"
    BY LineIsOne
  <2> HIDE DEF x
  <2>2. Append(s, x) = <<x>> /\ DOMAIN <<x>> = {1} /\ <<x>>[1] = x /\ <<x>> # <<>>
    BY <1>1
  <2>3. StreamFits("request", <<x>>, done, all, left, idle)
    BY <1>1, <1>2, <2>1, <2>2 DEF StreamFits
  <2> QED BY <1>4, <2>2, <2>3 DEF x
<1> QED BY <1>3, <1>4
\* A sheet is sent when it is composed,
LEMMA StreamSends ==
    ASSUME NEW p \in {"compose", "drain"}, NEW s \in Seq(Lines), NEW done \in Nat, NEW all,
           NEW left \in BOOLEAN, NEW idle, StreamFits(p, s, done, all, left, idle)
    PROVE  StreamFits(p, IF left THEN s ELSE Append(s, Line("item", done + 1)), done + 1, all,
                      left, idle)
<1>1. /\ p \notin Early \cup Asking \cup Over \cup {"search", "done", "failed"} /\ p \in Making
  BY DEF Early, Asking, SelectionSteps, Over, Making
<1>2. CASE left
  <2>1. \A i \in DOMAIN s : s[i].type = "item" => s[i].n <= done + 1
    BY SentOneMore, LineIsOne, <1>1 DEF StreamFits
  <2> QED BY <1>1, <1>2, <2>1 DEF StreamFits
<1>3. CASE ~left
  <2> DEFINE x == Line("item", done + 1)
  <2>1. x \in Lines /\ x.type = "item" /\ x.n = done + 1
    BY LineIsOne
  <2>2. x = Line("item", done + 1)
    OBVIOUS
  <2> HIDE DEF x
  <2> DEFINE r == Append(s, x)
             m == Len(s)
  <2>3. /\ m \in Nat /\ DOMAIN s = 1..m /\ Len(r) = m + 1 /\ DOMAIN r = 1..(m + 1)
        /\ \A i \in 1..m : r[i] = s[i]
        /\ r[m + 1] = x /\ r # <<>>
        /\ \A i \in 1..m : s[i].n \in Nat
    BY <2>1, SentOneMore
  <2>4. m # 0 /\ s # <<>>
    BY <1>1, <1>3 DEF StreamFits
  <2> HIDE DEF r, m
  <2>5. \A i \in 1..m :
            /\ s[i].type \notin {"done", "error"}
            /\ s[i].type = "meta" <=> i = 1 /\ s[i].type # "error"
            /\ s[i].type = "item" =>
                /\ s[i].n <= done
                /\ \A j \in 1..(i - 1) : s[j].type = "item" => s[j].n < s[i].n
    BY <1>1, <2>3 DEF StreamFits
  <2>6. ASSUME NEW i \in 1..(m + 1)
        PROVE  /\ r[i].type \notin {"done", "error"}
               /\ r[i].type = "meta" <=> i = 1 /\ r[i].type # "error"
               /\ r[i].type = "item" =>
                   /\ r[i].n <= done + 1
                   /\ \A j \in 1..(i - 1) : r[j].type = "item" => r[j].n < r[i].n
    <3>1. CASE i \in 1..m
      <4>1. r[i] = s[i] /\ \A j \in 1..(i - 1) : r[j] = s[j]
        BY <2>3, <3>1
      <4>2. s[i].n \in Nat
        BY <2>3, <3>1
      <4> QED BY <2>5, <3>1, <4>1, <4>2
    <3>2. CASE i = m + 1
      <4>1. \A j \in 1..m : r[j] = s[j] /\ (s[j].type = "item" => s[j].n < done + 1)
        <5> SUFFICES ASSUME NEW j \in 1..m
                     PROVE  r[j] = s[j] /\ (s[j].type = "item" => s[j].n < done + 1)
          OBVIOUS
        <5>1. r[j] = s[j] /\ s[j].n \in Nat
          BY <2>3
        <5>2. s[j].type = "item" => s[j].n <= done
          BY <2>5
        <5> QED BY <5>1, <5>2
      <4> QED BY <2>1, <2>3, <2>4, <3>2, <4>1
    <3>3. i \in 1..m \/ i = m + 1
      BY <2>3
    <3> QED BY <3>1, <3>2, <3>3
  <2>7. p = "compose" => \A n \in 1..(done + 1) : \E i \in 1..(m + 1) : r[i] = Line("item", n)
    <3> SUFFICES ASSUME p = "compose", NEW n \in 1..(done + 1)
                 PROVE  \E i \in 1..(m + 1) : r[i] = Line("item", n)
      OBVIOUS
    <3>1. CASE n = done + 1
      BY <2>2, <2>3, <3>1
    <3>2. CASE n \in 1..done
      <4>1. PICK i \in 1..m : s[i] = Line("item", n)
        BY <1>3, <2>3, <3>2 DEF StreamFits
      <4> QED BY <2>3, <4>1
    <3> QED BY <3>1, <3>2
  <2>8. StreamFits(p, r, done + 1, all, left, idle)
    BY <1>1, <1>3, <2>3, <2>6, <2>7 DEF StreamFits
  <2> QED BY <1>3, <2>8 DEF r, x
<1> QED BY <1>2, <1>3
\* but not if that fails, and then it is not the last to be tried.
LEMMA StreamDrains ==
    ASSUME NEW p \in {"compose", "drain"}, NEW s \in Seq(Lines), NEW done \in Nat, NEW all,
           NEW left \in BOOLEAN, NEW idle, StreamFits(p, s, done, all, left, idle)
    PROVE  StreamFits("drain", s, done + 1, all, left, idle)
<1>1. /\ p \notin Early \cup Asking \cup Over \cup {"search", "done", "failed"} /\ p \in Making
      /\ "drain" \notin Early \cup Asking \cup Over \cup {"compose", "search", "done", "failed"}
      /\ "drain" \in Making
  BY DEF Early, Asking, SelectionSteps, Over, Making
<1>2. \A i \in DOMAIN s : s[i].type = "item" => s[i].n <= done + 1
  BY SentOneMore, LineIsOne, <1>1 DEF StreamFits
<1> QED BY <1>1, <1>2 DEF StreamFits
\* The last line is the only one that is a last word.
LEMMA StreamEnds ==
    ASSUME NEW p \in Steps \ Over, NEW s \in Seq(Lines), NEW done, NEW all, NEW left, NEW idle,
           StreamFits(p, s, done, all, left, idle), NEW x \in Lines,
           x.type = "error" \/ (x.type = "done" /\ s # <<>>)
    PROVE  LET r == Append(s, x)
           IN  /\ r # <<>> /\ r[Len(r)] = x
               /\ \A i \in DOMAIN s : i \in DOMAIN r /\ r[i] = s[i]
               /\ \A i \in DOMAIN r :
                    /\ r[i].type \in {"done", "error"} => i = Len(r)
                    /\ r[i].type = "meta" <=> i = 1 /\ r[i].type # "error"
                    /\ r[i].type = "item" =>
                        /\ r[i].n <= done
                        /\ \A j \in 1..(i - 1) : r[j].type = "item" => r[j].n < r[i].n
<1> DEFINE r == Append(s, x)
           m == Len(s)
<1>3. /\ m \in Nat /\ DOMAIN s = 1..m /\ Len(r) = m + 1 /\ DOMAIN r = 1..(m + 1)
      /\ \A i \in 1..m : r[i] = s[i]
      /\ r[m + 1] = x /\ r # <<>>
      /\ \A i \in 1..m : s[i].n \in Nat
  BY SentOneMore
<1>4. x.type = "done" => m # 0
  OBVIOUS
<1> HIDE DEF r, m
<1>5. \A i \in 1..m :
          /\ s[i].type \notin {"done", "error"}
          /\ s[i].type = "meta" <=> i = 1 /\ s[i].type # "error"
          /\ s[i].type = "item" =>
              /\ s[i].n <= done
              /\ \A j \in 1..(i - 1) : s[j].type = "item" => s[j].n < s[i].n
  BY <1>3 DEF StreamFits
<1>6. ASSUME NEW i \in 1..(m + 1)
      PROVE  /\ r[i].type \in {"done", "error"} => i = m + 1
             /\ r[i].type = "meta" <=> i = 1 /\ r[i].type # "error"
             /\ r[i].type = "item" =>
                 /\ r[i].n <= done
                 /\ \A j \in 1..(i - 1) : r[j].type = "item" => r[j].n < r[i].n
  <2>1. CASE i \in 1..m
    <3>1. r[i] = s[i] /\ \A j \in 1..(i - 1) : r[j] = s[j]
      BY <1>3, <2>1
    <3> QED BY <1>5, <2>1, <3>1
  <2>2. CASE i = m + 1
    BY <1>3, <1>4, <2>2
  <2>3. i \in 1..m \/ i = m + 1
    BY <1>3
  <2> QED BY <2>1, <2>2, <2>3
<1> QED BY <1>3, <1>6 DEF r
\* A request ends well when every sheet has been sent,
LEMMA StreamFinishes ==
    ASSUME NEW s \in Seq(Lines), NEW done \in Nat, NEW left \in BOOLEAN, NEW idle,
           StreamFits("compose", s, done, done, left, idle)
    PROVE  StreamFits("done", IF left THEN s ELSE Append(s, Line("done", done)), done, done,
                      left, idle)
<1>1. /\ "compose" \in Steps \ Over /\ "compose" \in Making
      /\ "done" \notin Early \cup Asking \cup Making \cup {"compose", "search", "failed"}
      /\ "done" \in Over
  BY DEF Early, Asking, SelectionSteps, Over, Making, Steps
<1>2. CASE left
  BY <1>1, <1>2 DEF StreamFits
<1>3. CASE ~left
  <2> DEFINE x == Line("done", done)
             r == Append(s, x)
  <2>1. x \in Lines /\ x.type = "done"
    BY LineIsOne
  <2>2. s # <<>> /\ \A n \in 1..done : \E i \in DOMAIN s : s[i] = Line("item", n)
    BY <1>1, <1>3 DEF StreamFits
  <2>0. r[Len(r)] = Line("done", done) /\ Append(s, Line("done", done)) = r
    BY <2>1, SentOneMore
  <2> HIDE DEF x
  <2>3. /\ r # <<>> /\ r[Len(r)] = x
        /\ \A i \in DOMAIN s : i \in DOMAIN r /\ r[i] = s[i]
        /\ \A i \in DOMAIN r :
             /\ r[i].type \in {"done", "error"} => i = Len(r)
             /\ r[i].type = "meta" <=> i = 1 /\ r[i].type # "error"
             /\ r[i].type = "item" =>
                 /\ r[i].n <= done
                 /\ \A j \in 1..(i - 1) : r[j].type = "item" => r[j].n < r[i].n
    BY <1>1, <2>1, <2>2, StreamEnds
  <2> HIDE DEF r
  <2>4. \A n \in 1..done : \E i \in DOMAIN r : r[i] = Line("item", n)
    BY <2>2, <2>3
  <2>5. StreamFits("done", r, done, done, left, idle)
    BY <1>1, <2>0, <2>3, <2>4 DEF StreamFits
  <2> QED BY <1>3, <2>0, <2>5
<1> QED BY <1>2, <1>3
\* and with an error when it was given up.
LEMMA StreamFails ==
    ASSUME NEW p \in {"refused", "drain"}, NEW s \in Seq(Lines), NEW done, NEW all,
           NEW left \in BOOLEAN, NEW idle, StreamFits(p, s, done, all, left, idle)
    PROVE  StreamFits("failed", IF left THEN s ELSE Append(s, Line("error", 0)), done, all,
                      left, idle)
<1>1. /\ p \in Steps \ Over
      /\ "failed" \notin Early \cup Asking \cup Making \cup {"compose", "search", "done"}
      /\ "failed" \in Over
  BY DEF Early, Asking, SelectionSteps, Over, Making, Steps
<1>2. CASE left
  BY <1>1, <1>2 DEF StreamFits
<1>3. CASE ~left
  <2> DEFINE x == Line("error", 0)
             r == Append(s, x)
  <2>1. x \in Lines /\ x.type = "error"
    BY LineIsOne
  <2>0. Append(s, Line("error", 0)) = r
    OBVIOUS
  <2> HIDE DEF x
  <2>3. /\ r # <<>> /\ r[Len(r)] = x
        /\ \A i \in DOMAIN s : i \in DOMAIN r /\ r[i] = s[i]
        /\ \A i \in DOMAIN r :
             /\ r[i].type \in {"done", "error"} => i = Len(r)
             /\ r[i].type = "meta" <=> i = 1 /\ r[i].type # "error"
             /\ r[i].type = "item" =>
                 /\ r[i].n <= done
                 /\ \A j \in 1..(i - 1) : r[j].type = "item" => r[j].n < r[i].n
    BY <1>1, <2>1, StreamEnds
  <2> HIDE DEF r
  <2>5. StreamFits("failed", r, done, all, left, idle)
    BY <1>1, <2>1, <2>3 DEF StreamFits
  <2> QED BY <1>3, <2>0, <2>5
<1> QED BY <1>2, <1>3
\* Nothing is asked of a stream nobody listens to.
LEMMA StreamIsLeft ==
    ASSUME NEW p, NEW s, NEW done, NEW all, NEW left, NEW idle,
           StreamFits(p, s, done, all, left, idle)
    PROVE  StreamFits(p, s, done, all, TRUE, idle)
BY DEF StreamFits
---------------------------------------------------------------------------
(* The calls of the choice go on. *)

\* A call says nothing of another.
LEMMA ElseUntold ==
    ASSUME OrderTypes, NEW g \in Orders, NEW c \in Calls, NEW d \in Calls, d # c,
           told' = told \/ \E good : Report(g, c, good)
    PROVE  told'[g][d] = told[g][d]
BY DEF OrderTypes, Report
\* A row of a call is no row of another.
LEMMA ElseUnbilled ==
    ASSUME OrderTypes, NEW g \in Orders, NEW c \in Calls, NEW d \in Calls, d # c,
           billed' = billed \/ \E good : Bill(g, c, good)
    PROVE  billed'[g][d] = billed[g][d]
BY DEF OrderTypes, Bill

\* The words of a request are classified once, and the row says what the
\* breaker heard.
LEMMA ClassifyGoesOn ==
    ASSUME OrderTypes, NEW g \in Orders, SheetSelectionStep(g),
           ClassifyFits(step[g], told[g]["classify"], billed[g]["classify"])
    PROVE  ClassifyFits(step'[g], told'[g]["classify"], billed'[g]["classify"])
<1>t. told[g]["classify"] \in Seq(BOOLEAN) /\ step \in [Orders -> Steps]
  BY DEF OrderTypes, Calls
<1>c. /\ "classify" \in Calls /\ "select" \in Calls /\ "select" # "classify"
      /\ TRUE \in BOOLEAN /\ FALSE \in BOOLEAN
  BY DEF Calls
<1>1. CASE TakeExplicit(g)
  <2>1. step[g] \in {"begin"} /\ step'[g] \in {"picked", "refused"}
    BY <1>t, <1>1 DEF TakeExplicit, Goto
  <2>2. told'[g]["classify"] = told[g]["classify"] /\ billed'[g]["classify"] = billed[g]["classify"]
    <3>1. /\ told' = told \/ \E good : Report(g, "select", good)
          /\ billed' = billed \/ \E good : Bill(g, "select", good)
      BY <1>1 DEF TakeExplicit, calls
    <3> QED BY <1>c, <3>1, ElseUntold, ElseUnbilled
  <2>3. /\ step[g] \in Unclassified \/ (step[g] \notin Classifying /\ step'[g] \notin Unclassified)
        /\ step'[g] \notin Classifying
    BY <2>1 DEF Unclassified, Classifying
  <2> QED BY <2>2, <2>3, ClassifyRests
<1>2. CASE ListActive(g)
  <2>1. step[g] \in {"begin"} /\ step'[g] \in {"picked", "refused", "classify"}
    BY <1>t, <1>2 DEF ListActive, Goto
  <2>2. told'[g]["classify"] = told[g]["classify"] /\ billed'[g]["classify"] = billed[g]["classify"]
    <3>1. /\ told' = told \/ \E good : Report(g, "select", good)
          /\ billed' = billed \/ \E good : Bill(g, "select", good)
      BY <1>2 DEF ListActive, calls
    <3> QED BY <1>c, <3>1, ElseUntold, ElseUnbilled
  <2>3. /\ step[g] \in Unclassified \/ (step[g] \notin Classifying /\ step'[g] \notin Unclassified)
        /\ step'[g] \notin Classifying
    BY <2>1 DEF Unclassified, Classifying
  <2> QED BY <2>2, <2>3, ClassifyRests
<1>3. CASE ListFails(g)
  <2>1. step[g] \in {"begin"} /\ step'[g] \in {"refused"}
    BY <1>t, <1>3 DEF ListFails, Goto
  <2>2. told'[g]["classify"] = told[g]["classify"] /\ billed'[g]["classify"] = billed[g]["classify"]
    <3>1. /\ told' = told \/ \E good : Report(g, "select", good)
          /\ billed' = billed \/ \E good : Bill(g, "select", good)
      BY <1>3 DEF ListFails, calls
    <3> QED BY <1>c, <3>1, ElseUntold, ElseUnbilled
  <2>3. /\ step[g] \in Unclassified \/ (step[g] \notin Classifying /\ step'[g] \notin Unclassified)
        /\ step'[g] \notin Classifying
    BY <2>1 DEF Unclassified, Classifying
  <2> QED BY <2>2, <2>3, ClassifyRests
<1>4. CASE Classify(g)
  <2>1. step[g] \in {"classify"} /\ step'[g] \in {"rank", "intent"}
    BY <1>t, <1>4 DEF Classify, Goto
  <2>2. told'[g]["classify"] = told[g]["classify"] /\ billed'[g]["classify"] = billed[g]["classify"]
    <3>1. /\ told' = told \/ \E good : Report(g, "select", good)
          /\ billed' = billed \/ \E good : Bill(g, "select", good)
      BY <1>4 DEF Classify, calls
    <3> QED BY <1>c, <3>1, ElseUntold, ElseUnbilled
  <2>3. /\ step[g] \in Unclassified \/ (step[g] \notin Classifying /\ step'[g] \notin Unclassified)
        /\ step'[g] \notin Classifying
    BY <2>1 DEF Unclassified, Classifying
  <2> QED BY <2>2, <2>3, ClassifyRests
<1>5. CASE ModelClassifies(g)
  <2>1. step[g] = "intent" /\ step'[g] = "intentRow" /\ billed' = billed
    BY <1>t, <1>5 DEF ModelClassifies, Goto
  <2>2. PICK good \in BOOLEAN : Report(g, "classify", good)
    BY <1>c, <1>5 DEF ModelClassifies
  <2>3. told'[g]["classify"] = Append(told[g]["classify"], good)
    BY <1>c, <2>2, ReportTells
  <2> QED BY <2>1, <2>3, ClassifyTells
<1>6. CASE ClassifyRow(g)
  <2>1. step[g] = "intentRow" /\ step'[g] = "rank" /\ told' = told
    BY <1>t, <1>6 DEF ClassifyRow, Goto
  <2>2. Bill(g, "classify", told[g]["classify"] = <<TRUE>>)
    BY <1>6 DEF ClassifyRow
  <2>3. billed'[g]["classify"] = Append(billed[g]["classify"], told[g]["classify"] = <<TRUE>>)
    <3>1. (told[g]["classify"] = <<TRUE>>) \in BOOLEAN
      OBVIOUS
    <3> QED BY <1>c, <2>2, <3>1, BillWrites
  <2>4. ClassifyFits("intentRow", told[g]["classify"], billed[g]["classify"])
    BY <2>1
  <2>5. ClassifyFits("rank", told[g]["classify"],
                     Append(billed[g]["classify"], told[g]["classify"] = <<TRUE>>))
    BY <2>4, ClassifyRecords, Zenon
  <2> QED BY <2>1, <2>3, <2>5, Zenon
<1>7. CASE ClassifyFails(g)
  <2>1. step[g] \in {"intent", "intentRow"} /\ step'[g] = "intentCatch" /\ billed' = billed
    BY <1>t, <1>7 DEF ClassifyFails, Goto
  <2>2. told'[g]["classify"] = Append(told[g]["classify"], FALSE)
    BY <1>c, <1>7, ReportTells DEF ClassifyFails
  <2> QED BY <1>t, <2>1, <2>2, ClassifyErrs
<1>8. CASE ClassifyCatch(g)
  <2>1. step[g] = "intentCatch" /\ step'[g] = "rank" /\ told' = told
    BY <1>t, <1>8 DEF ClassifyCatch, Goto
  <2>2. \/ billed'[g]["classify"] = Append(billed[g]["classify"], FALSE)
        \/ billed'[g]["classify"] = billed[g]["classify"]
    BY <1>c, <1>8, BillWrites DEF ClassifyCatch
  <2> QED BY <2>1, <2>2, ClassifyWrites
<1>9. CASE Rerank(g)
  <2>1. step[g] \in {"rank"} /\ step'[g] \in {"picked", "select"}
    BY <1>t, <1>9 DEF Rerank, Goto
  <2>2. told'[g]["classify"] = told[g]["classify"] /\ billed'[g]["classify"] = billed[g]["classify"]
    <3>1. /\ told' = told \/ \E good : Report(g, "select", good)
          /\ billed' = billed \/ \E good : Bill(g, "select", good)
      BY <1>9 DEF Rerank, calls
    <3> QED BY <1>c, <3>1, ElseUntold, ElseUnbilled
  <2>3. /\ step[g] \in Unclassified \/ (step[g] \notin Classifying /\ step'[g] \notin Unclassified)
        /\ step'[g] \notin Classifying
    BY <2>1 DEF Unclassified, Classifying
  <2> QED BY <2>2, <2>3, ClassifyRests
<1>10. CASE Select(g)
  <2>1. step[g] \in {"select"} /\ step'[g] \in {"picked", "catalog"}
    BY <1>t, <1>10 DEF Select, Goto, Resolved
  <2>2. told'[g]["classify"] = told[g]["classify"] /\ billed'[g]["classify"] = billed[g]["classify"]
    <3>1. /\ told' = told \/ \E good : Report(g, "select", good)
          /\ billed' = billed \/ \E good : Bill(g, "select", good)
      BY <1>10 DEF Select, calls
    <3> QED BY <1>c, <3>1, ElseUntold, ElseUnbilled
  <2>3. /\ step[g] \in Unclassified \/ (step[g] \notin Classifying /\ step'[g] \notin Unclassified)
        /\ step'[g] \notin Classifying
    BY <2>1 DEF Unclassified, Classifying
  <2> QED BY <2>2, <2>3, ClassifyRests
<1>11. CASE ListCatalog(g)
  <2>1. step[g] \in {"catalog"} /\ step'[g] \in {"ask", "refused"}
    BY <1>t, <1>11 DEF ListCatalog, Goto
  <2>2. told'[g]["classify"] = told[g]["classify"] /\ billed'[g]["classify"] = billed[g]["classify"]
    <3>1. /\ told' = told \/ \E good : Report(g, "select", good)
          /\ billed' = billed \/ \E good : Bill(g, "select", good)
      BY <1>11 DEF ListCatalog, calls
    <3> QED BY <1>c, <3>1, ElseUntold, ElseUnbilled
  <2>3. /\ step[g] \in Unclassified \/ (step[g] \notin Classifying /\ step'[g] \notin Unclassified)
        /\ step'[g] \notin Classifying
    BY <2>1 DEF Unclassified, Classifying
  <2> QED BY <2>2, <2>3, ClassifyRests
<1>12. CASE ModelPicks(g)
  <2>1. step[g] \in {"ask"} /\ step'[g] \in {"askRow"}
    BY <1>t, <1>12 DEF ModelPicks, Goto
  <2>2. told'[g]["classify"] = told[g]["classify"] /\ billed'[g]["classify"] = billed[g]["classify"]
    <3>1. /\ told' = told \/ \E good : Report(g, "select", good)
          /\ billed' = billed \/ \E good : Bill(g, "select", good)
      BY <1>12 DEF ModelPicks, calls
    <3> QED BY <1>c, <3>1, ElseUntold, ElseUnbilled
  <2>3. /\ step[g] \in Unclassified \/ (step[g] \notin Classifying /\ step'[g] \notin Unclassified)
        /\ step'[g] \notin Classifying
    BY <2>1 DEF Unclassified, Classifying
  <2> QED BY <2>2, <2>3, ClassifyRests
<1>13. CASE SelectRow(g)
  <2>1. step[g] \in {"askRow"} /\ step'[g] \in {"picked"}
    BY <1>t, <1>13 DEF SelectRow, Goto, Resolved
  <2>2. told'[g]["classify"] = told[g]["classify"] /\ billed'[g]["classify"] = billed[g]["classify"]
    <3>1. /\ told' = told \/ \E good : Report(g, "select", good)
          /\ billed' = billed \/ \E good : Bill(g, "select", good)
      BY <1>13 DEF SelectRow, calls
    <3> QED BY <1>c, <3>1, ElseUntold, ElseUnbilled
  <2>3. /\ step[g] \in Unclassified \/ (step[g] \notin Classifying /\ step'[g] \notin Unclassified)
        /\ step'[g] \notin Classifying
    BY <2>1 DEF Unclassified, Classifying
  <2> QED BY <2>2, <2>3, ClassifyRests
<1>14. CASE SelectFails(g)
  <2>1. step[g] \in {"ask", "askRow"} /\ step'[g] \in {"askCatch"}
    BY <1>t, <1>14 DEF SelectFails, Goto
  <2>2. told'[g]["classify"] = told[g]["classify"] /\ billed'[g]["classify"] = billed[g]["classify"]
    <3>1. /\ told' = told \/ \E good : Report(g, "select", good)
          /\ billed' = billed \/ \E good : Bill(g, "select", good)
      BY <1>14 DEF SelectFails, calls
    <3> QED BY <1>c, <3>1, ElseUntold, ElseUnbilled
  <2>3. /\ step[g] \in Unclassified \/ (step[g] \notin Classifying /\ step'[g] \notin Unclassified)
        /\ step'[g] \notin Classifying
    BY <2>1 DEF Unclassified, Classifying
  <2> QED BY <2>2, <2>3, ClassifyRests
<1>15. CASE SelectCatch(g)
  <2>1. step[g] \in {"askCatch"} /\ step'[g] \in {"picked", "refused"}
    BY <1>t, <1>15 DEF SelectCatch, Goto, Resolved
  <2>2. told'[g]["classify"] = told[g]["classify"] /\ billed'[g]["classify"] = billed[g]["classify"]
    <3>1. /\ told' = told \/ \E good : Report(g, "select", good)
          /\ billed' = billed \/ \E good : Bill(g, "select", good)
      BY <1>15 DEF SelectCatch, calls
    <3> QED BY <1>c, <3>1, ElseUntold, ElseUnbilled
  <2>3. /\ step[g] \in Unclassified \/ (step[g] \notin Classifying /\ step'[g] \notin Unclassified)
        /\ step'[g] \notin Classifying
    BY <2>1 DEF Unclassified, Classifying
  <2> QED BY <2>2, <2>3, ClassifyRests
<1> QED BY <1>1, <1>2, <1>3, <1>4, <1>5, <1>6, <1>7, <1>8, <1>9, <1>10, <1>11, <1>12, <1>13, <1>14, <1>15
        DEF SheetSelectionStep
\* The model picks once, too.
LEMMA SelectGoesOn ==
    ASSUME OrderTypes, NEW g \in Orders, SheetSelectionStep(g),
           SelectFits(step[g], told[g]["select"], billed[g]["select"], answer[g].kind)
    PROVE  SelectFits(step'[g], told'[g]["select"], billed'[g]["select"], answer'[g].kind)
<1>t. told[g]["select"] \in Seq(BOOLEAN) /\ step \in [Orders -> Steps]
  BY DEF OrderTypes, Calls
<1>c. /\ "classify" \in Calls /\ "select" \in Calls /\ "select" # "classify"
      /\ TRUE \in BOOLEAN /\ FALSE \in BOOLEAN
  BY DEF Calls
<1>k. /\ {"malformed", "invalid_id", "low_confidence", "ok", "error"} \subseteq SheetKinds
      /\ None \in DOMAIN Library \cup {None}
  BY DEF SheetKinds
<1>1. CASE TakeExplicit(g)
  <2>1. step[g] \in {"begin"} /\ step'[g] \in {"picked", "refused"} /\ answer' = answer
    BY <1>t, <1>1 DEF TakeExplicit, Goto, outcome
  <2>2. told'[g]["select"] = told[g]["select"] /\ billed'[g]["select"] = billed[g]["select"]
    <3>1. /\ told' = told \/ \E good : Report(g, "classify", good)
          /\ billed' = billed \/ \E good : Bill(g, "classify", good)
      BY <1>1 DEF TakeExplicit, calls
    <3> QED BY <1>c, <3>1, ElseUntold, ElseUnbilled
  <2> QED BY <2>1, <2>2, SelectWaits DEF Unasked, SelectionSteps
<1>2. CASE ListActive(g)
  <2>1. step[g] \in {"begin"} /\ step'[g] \in {"picked", "refused", "classify"} /\ answer' = answer
    BY <1>t, <1>2 DEF ListActive, Goto, outcome
  <2>2. told'[g]["select"] = told[g]["select"] /\ billed'[g]["select"] = billed[g]["select"]
    <3>1. /\ told' = told \/ \E good : Report(g, "classify", good)
          /\ billed' = billed \/ \E good : Bill(g, "classify", good)
      BY <1>2 DEF ListActive, calls
    <3> QED BY <1>c, <3>1, ElseUntold, ElseUnbilled
  <2> QED BY <2>1, <2>2, SelectWaits DEF Unasked, SelectionSteps
<1>3. CASE ListFails(g)
  <2>1. step[g] \in {"begin"} /\ step'[g] \in {"refused"} /\ answer' = answer
    BY <1>t, <1>3 DEF ListFails, Goto, outcome
  <2>2. told'[g]["select"] = told[g]["select"] /\ billed'[g]["select"] = billed[g]["select"]
    <3>1. /\ told' = told \/ \E good : Report(g, "classify", good)
          /\ billed' = billed \/ \E good : Bill(g, "classify", good)
      BY <1>3 DEF ListFails, calls
    <3> QED BY <1>c, <3>1, ElseUntold, ElseUnbilled
  <2> QED BY <2>1, <2>2, SelectWaits DEF Unasked, SelectionSteps
<1>4. CASE Classify(g)
  <2>1. step[g] \in {"classify"} /\ step'[g] \in {"rank", "intent"} /\ answer' = answer
    BY <1>t, <1>4 DEF Classify, Goto, outcome
  <2>2. told'[g]["select"] = told[g]["select"] /\ billed'[g]["select"] = billed[g]["select"]
    <3>1. /\ told' = told \/ \E good : Report(g, "classify", good)
          /\ billed' = billed \/ \E good : Bill(g, "classify", good)
      BY <1>4 DEF Classify, calls
    <3> QED BY <1>c, <3>1, ElseUntold, ElseUnbilled
  <2> QED BY <2>1, <2>2, SelectWaits DEF Unasked, SelectionSteps
<1>5. CASE ModelClassifies(g)
  <2>1. step[g] \in {"intent"} /\ step'[g] \in {"intentRow"} /\ answer' = answer
    BY <1>t, <1>5 DEF ModelClassifies, Goto, outcome
  <2>2. told'[g]["select"] = told[g]["select"] /\ billed'[g]["select"] = billed[g]["select"]
    <3>1. /\ told' = told \/ \E good : Report(g, "classify", good)
          /\ billed' = billed \/ \E good : Bill(g, "classify", good)
      BY <1>5 DEF ModelClassifies, calls
    <3> QED BY <1>c, <3>1, ElseUntold, ElseUnbilled
  <2> QED BY <2>1, <2>2, SelectWaits DEF Unasked, SelectionSteps
<1>6. CASE ClassifyRow(g)
  <2>1. step[g] \in {"intentRow"} /\ step'[g] \in {"rank"} /\ answer' = answer
    BY <1>t, <1>6 DEF ClassifyRow, Goto, outcome
  <2>2. told'[g]["select"] = told[g]["select"] /\ billed'[g]["select"] = billed[g]["select"]
    <3>1. /\ told' = told \/ \E good : Report(g, "classify", good)
          /\ billed' = billed \/ \E good : Bill(g, "classify", good)
      BY <1>6 DEF ClassifyRow, calls
    <3> QED BY <1>c, <3>1, ElseUntold, ElseUnbilled
  <2> QED BY <2>1, <2>2, SelectWaits DEF Unasked, SelectionSteps
<1>7. CASE ClassifyFails(g)
  <2>1. step[g] \in {"intent", "intentRow"} /\ step'[g] \in {"intentCatch"} /\ answer' = answer
    BY <1>t, <1>7 DEF ClassifyFails, Goto, outcome
  <2>2. told'[g]["select"] = told[g]["select"] /\ billed'[g]["select"] = billed[g]["select"]
    <3>1. /\ told' = told \/ \E good : Report(g, "classify", good)
          /\ billed' = billed \/ \E good : Bill(g, "classify", good)
      BY <1>7 DEF ClassifyFails, calls
    <3> QED BY <1>c, <3>1, ElseUntold, ElseUnbilled
  <2> QED BY <2>1, <2>2, SelectWaits DEF Unasked, SelectionSteps
<1>8. CASE ClassifyCatch(g)
  <2>1. step[g] \in {"intentCatch"} /\ step'[g] \in {"rank"} /\ answer' = answer
    BY <1>t, <1>8 DEF ClassifyCatch, Goto, outcome
  <2>2. told'[g]["select"] = told[g]["select"] /\ billed'[g]["select"] = billed[g]["select"]
    <3>1. /\ told' = told \/ \E good : Report(g, "classify", good)
          /\ billed' = billed \/ \E good : Bill(g, "classify", good)
      BY <1>8 DEF ClassifyCatch, calls
    <3> QED BY <1>c, <3>1, ElseUntold, ElseUnbilled
  <2> QED BY <2>1, <2>2, SelectWaits DEF Unasked, SelectionSteps
<1>9. CASE Rerank(g)
  <2>1. step[g] \in {"rank"} /\ step'[g] \in {"picked", "select"} /\ answer' = answer
    BY <1>t, <1>9 DEF Rerank, Goto, outcome
  <2>2. told'[g]["select"] = told[g]["select"] /\ billed'[g]["select"] = billed[g]["select"]
    <3>1. /\ told' = told \/ \E good : Report(g, "classify", good)
          /\ billed' = billed \/ \E good : Bill(g, "classify", good)
      BY <1>9 DEF Rerank, calls
    <3> QED BY <1>c, <3>1, ElseUntold, ElseUnbilled
  <2> QED BY <2>1, <2>2, SelectWaits DEF Unasked, SelectionSteps
<1>10. CASE Select(g)
  <2>1. step[g] \in {"select"} /\ step'[g] \in {"picked", "catalog"} /\ answer' = answer
    BY <1>t, <1>10 DEF Select, Goto, Resolved, outcome
  <2>2. told'[g]["select"] = told[g]["select"] /\ billed'[g]["select"] = billed[g]["select"]
    <3>1. /\ told' = told \/ \E good : Report(g, "classify", good)
          /\ billed' = billed \/ \E good : Bill(g, "classify", good)
      BY <1>10 DEF Select, calls
    <3> QED BY <1>c, <3>1, ElseUntold, ElseUnbilled
  <2> QED BY <2>1, <2>2, SelectWaits DEF Unasked, SelectionSteps
<1>11. CASE ListCatalog(g)
  <2>1. step[g] \in {"catalog"} /\ step'[g] \in {"ask", "refused"} /\ answer' = answer
    BY <1>t, <1>11 DEF ListCatalog, Goto, outcome
  <2>2. told'[g]["select"] = told[g]["select"] /\ billed'[g]["select"] = billed[g]["select"]
    <3>1. /\ told' = told \/ \E good : Report(g, "classify", good)
          /\ billed' = billed \/ \E good : Bill(g, "classify", good)
      BY <1>11 DEF ListCatalog, calls
    <3> QED BY <1>c, <3>1, ElseUntold, ElseUnbilled
  <2> QED BY <2>1, <2>2, SelectWaits DEF Unasked, SelectionSteps
<1>12. CASE ModelPicks(g)
  <2>1. step[g] = "ask" /\ step'[g] = "askRow" /\ billed' = billed
    BY <1>t, <1>12 DEF ModelPicks, Goto
  <2>2. PICK pick \in DOMAIN Library \cup {None}, sure \in BOOLEAN :
            LET kind == JudgedSheet(g, pick, sure)
            IN  /\ Answered(g, kind, IF kind = "ok" THEN pick ELSE None)
                /\ IF kind = "ok" THEN Report(g, "select", TRUE) ELSE UNCHANGED <<told, tripped>>
    BY <1>12 DEF ModelPicks
  <2>3. JudgedSheet(g, pick, sure) \in SheetKinds \ {"error"}
    BY SheetVerdicts DEF SheetKinds
  <2>4. PICK kind \in SheetKinds \ {"error"}, which \in DOMAIN Library \cup {None} :
            /\ Answered(g, kind, which)
            /\ IF kind = "ok" THEN Report(g, "select", TRUE) ELSE UNCHANGED <<told, tripped>>
    BY <2>2, <2>3
  <2>5. answer'[g].kind = kind
    BY <2>4, AnsweredNotes
  <2>6. told'[g]["select"] = IF kind = "ok" THEN Append(told[g]["select"], TRUE) ELSE told[g]["select"]
    BY <1>c, <2>4, ReportTells
  <2> QED BY <2>1, <2>5, <2>6, SelectTells
<1>13. CASE SelectRow(g)
  <2> DEFINE k == answer[g].kind
  <2>1. step[g] = "askRow" /\ step'[g] = "picked" /\ answer' = answer
    BY <1>t, <1>13 DEF SelectRow, Resolved, Goto
  <2>2. billed'[g]["select"] = Append(billed[g]["select"], k = "ok")
    <3>1. (k = "ok") \in BOOLEAN
      OBVIOUS
    <3>2. Bill(g, "select", k = "ok")
      BY <1>13 DEF SelectRow
    <3> QED BY <1>c, <3>1, <3>2, BillWrites
  <2>3. IF k = "ok" THEN told' = told ELSE Report(g, "select", k = "low_confidence")
    BY <1>13 DEF SelectRow
  <2>4. CASE k = "ok"
    <3>1. (k = "ok") = TRUE
      BY <2>4
    <3>2. billed'[g]["select"] = Append(billed[g]["select"], TRUE) /\ told' = told
      BY <2>2, <2>3, <2>4, <3>1
    <3> HIDE DEF k
    <3>3. SelectFits("askRow", told[g]["select"], billed[g]["select"], k)
      BY <2>1 DEF k
    <3>4. SelectFits("picked", told[g]["select"], Append(billed[g]["select"], TRUE), k)
      BY <2>4, <3>3, SelectRecords
    <3> QED BY <2>1, <3>2, <3>4 DEF k
  <2>5. CASE k = "low_confidence"
    <3>1. (k = "ok") = FALSE /\ (k = "low_confidence") = TRUE
      BY <2>5
    <3>2. told'[g]["select"] = Append(told[g]["select"], TRUE)
      BY <1>c, <2>3, <2>5, <3>1, ReportTells
    <3>0. billed'[g]["select"] = Append(billed[g]["select"], FALSE)
      BY <2>2, <3>1
    <3> HIDE DEF k
    <3>3. SelectFits("askRow", told[g]["select"], billed[g]["select"], k)
      BY <2>1 DEF k
    <3>4. SelectFits("picked", Append(told[g]["select"], TRUE), Append(billed[g]["select"], FALSE), k)
      BY <2>5, <3>3, SelectRecords
    <3> QED BY <2>1, <3>0, <3>2, <3>4 DEF k
  <2>6. CASE k \notin {"ok", "low_confidence"}
    <3>1. (k = "ok") = FALSE /\ (k = "low_confidence") = FALSE
      BY <2>6
    <3>2. told'[g]["select"] = Append(told[g]["select"], FALSE)
      BY <1>c, <2>3, <2>6, <3>1, ReportTells
    <3>0. billed'[g]["select"] = Append(billed[g]["select"], FALSE)
      BY <2>2, <3>1
    <3> HIDE DEF k
    <3>3. SelectFits("askRow", told[g]["select"], billed[g]["select"], k)
      BY <2>1 DEF k
    <3>4. SelectFits("picked", Append(told[g]["select"], FALSE), Append(billed[g]["select"], FALSE), k)
      BY <2>6, <3>3, SelectRecords
    <3> QED BY <2>1, <3>0, <3>2, <3>4 DEF k
  <2> QED BY <2>4, <2>5, <2>6
<1>14. CASE SelectFails(g)
  <2>1. step[g] \in {"ask", "askRow"} /\ step'[g] = "askCatch" /\ billed' = billed
    BY <1>t, <1>14 DEF SelectFails, Goto
  <2>2. told'[g]["select"] = Append(told[g]["select"], FALSE)
    BY <1>c, <1>14, ReportTells DEF SelectFails
  <2>3. answer'[g].kind = "error"
    BY <1>k, <1>14, AnsweredNotes DEF SelectFails
  <2> QED BY <1>t, <2>1, <2>2, <2>3, SelectErrs
<1>15. CASE SelectCatch(g)
  <2>1. step[g] = "askCatch" /\ told' = told /\ answer' = answer
    BY <1>t, <1>15 DEF SelectCatch
  <2>2. \/ step'[g] = "picked" /\ billed'[g]["select"] = Append(billed[g]["select"], FALSE)
        \/ step'[g] = "refused" /\ billed' = billed
    BY <1>t, <1>c, <1>15, BillWrites DEF SelectCatch, Resolved, Goto
  <2> QED BY <2>1, <2>2, SelectWrites
<1> QED BY <1>1, <1>2, <1>3, <1>4, <1>5, <1>6, <1>7, <1>8, <1>9, <1>10, <1>11, <1>12, <1>13, <1>14, <1>15
        DEF SheetSelectionStep
---------------------------------------------------------------------------
(* Every step of a request keeps what is true of it. *)

\* Nothing of a request has changed.
Untouched(h) ==
    /\ step'[h] = step[h] /\ told'[h] = told[h] /\ billed'[h] = billed[h]
    /\ answer'[h] = answer[h] /\ picked'[h] = picked[h] /\ payload'[h] = payload[h]
    /\ sent'[h] = sent[h] /\ gone'[h] = gone[h] /\ open'[h] = open[h]
    /\ composed'[h] = composed[h] /\ sheets'[h] = sheets[h] /\ order'[h] = order[h]

\* Then what was true of it is.
LEMMA UntouchedFollows ==
    ASSUME NEW h \in Orders, Untouched(h), OrderFollows(h) PROVE OrderFollows(h)'
<1>1. CallsFollow(h)'
  BY DEF Untouched, OrderFollows, CallsFollow
<1>2. StreamFollows(h)' /\ StagesFollow(h)'
  BY DEF Untouched, OrderFollows, StreamFollows, StagesFollow
<1>3. SheetsFollow(h)'
  <2>1. SchemaOf(h)' = SchemaOf(h) /\ Count(h)' = Count(h)
    BY DEF Untouched, SchemaOf, Count
  <2>2. \A t : AnswerFits(h, t)' <=> AnswerFits(h, t)
    BY <2>1 DEF AnswerFits
  <2> QED BY <2>1, <2>2 DEF Untouched, OrderFollows, SheetsFollow
<1> QED BY <1>1, <1>2, <1>3 DEF OrderFollows

\* What is left of a step when it takes a request from one place to another.
Elsewhere(g) == \A h \in Orders \ {g} : Untouched(h)

\* No call is made, and none has just been.
LEMMA CallsRest ==
    ASSUME NEW g \in Orders, CallsFollow(g), told' = told, billed' = billed, answer' = answer,
           \/ step[g] = "validate" /\ step'[g] \in {"begin", "refused"}
           \/ /\ step[g] \notin SelectionSteps \cup {"validate", "contentCatch"}
              /\ step'[g] \notin SelectionSteps \cup {"validate", "contentCatch"}
              /\ step[g] \in Unwritten \/ step'[g] \notin Unwritten
    PROVE  CallsFollow(g)'
<1>1. CASE step[g] = "validate" /\ step'[g] \in {"begin", "refused"}
  <2>1. step[g] \in Unclassified /\ step'[g] \notin Classifying
    BY <1>1 DEF Unclassified, Classifying
  <2>2. step[g] \in Unasked /\ step'[g] \notin {"askRow", "askCatch"}
    BY <1>1 DEF Unasked
  <2>3. step[g] \in Unwritten /\ step'[g] # "contentCatch"
    BY <1>1 DEF Unwritten, Early
  <2> QED BY <2>1, <2>2, <2>3, ClassifyRests, SelectWaits, ContentRests DEF CallsFollow
<1>2. CASE /\ step[g] \notin SelectionSteps \cup {"validate", "contentCatch"}
           /\ step'[g] \notin SelectionSteps \cup {"validate", "contentCatch"}
           /\ step[g] \in Unwritten \/ step'[g] \notin Unwritten
  <2>1. step[g] \notin Classifying /\ step'[g] \notin Unclassified \cup Classifying
    BY <1>2 DEF Unclassified, Classifying, SelectionSteps
  <2>2. ClassifyFits(step'[g], told'[g]["classify"], billed'[g]["classify"])
    BY <2>1, ClassifyRests DEF CallsFollow
  <2>3. SelectFits(step'[g], told'[g]["select"], billed'[g]["select"], answer'[g].kind)
    BY <1>2, SelectRests DEF CallsFollow
  <2>4. ContentFits(step'[g], told'[g]["content"], billed'[g]["content"])
    BY <1>2, ContentRests DEF CallsFollow
  <2> QED BY <2>2, <2>3, <2>4 DEF CallsFollow
<1> QED BY <1>1, <1>2
\* Of the calls only that for the content is made.
LEMMA CallsOfContent ==
    ASSUME OrderTypes, NEW g \in Orders, CallsFollow(g), answer' = answer,
           told' = told \/ \E good : Report(g, "content", good),
           billed' = billed \/ \E good : Bill(g, "content", good),
           step[g] \in Asking, step'[g] \in Asking \cup {"refused", "search"},
           ContentFits(step'[g], told'[g]["content"], billed'[g]["content"])
    PROVE  CallsFollow(g)'
<1>1. /\ "content" \in Calls /\ "classify" \in Calls /\ "select" \in Calls
      /\ "select" # "content" /\ "classify" # "content"
  BY DEF Calls
<1>2. /\ told'[g]["classify"] = told[g]["classify"] /\ billed'[g]["classify"] = billed[g]["classify"]
      /\ told'[g]["select"] = told[g]["select"] /\ billed'[g]["select"] = billed[g]["select"]
  BY <1>1, ElseUntold, ElseUnbilled
<1>3. /\ step[g] \notin SelectionSteps \cup {"validate"}
      /\ step'[g] \notin SelectionSteps \cup {"validate"}
      /\ step[g] \notin Classifying /\ step'[g] \notin Unclassified \cup Classifying
  BY DEF Asking, SelectionSteps, Unclassified, Classifying
<1>4. ClassifyFits(step'[g], told'[g]["classify"], billed'[g]["classify"])
  BY <1>2, <1>3, ClassifyRests DEF CallsFollow
<1>5. SelectFits(step'[g], told'[g]["select"], billed'[g]["select"], answer'[g].kind)
  BY <1>2, <1>3, SelectRests DEF CallsFollow
<1> QED BY <1>4, <1>5 DEF CallsFollow

\* While its sheets are made nothing is sent.
LEMMA StreamKeeps ==
    ASSUME OrderTypes, NEW g \in Orders, StreamFollows(g), sent' = sent, gone' = gone,
           composed' = composed, order' = order, step[g] \in Asking \cup {"search"},
           step'[g] \in Asking \cup {"search", "refused", "compose"}
    PROVE  StreamFollows(g)'
<1> DEFINE p == step[g]
           q == step'[g]
           s == sent[g]
           done == composed[g]
<1>1. StreamFits(p, s, done, Len(sheets[g]), gone[g], order[g].idle)
  BY DEF StreamFollows
<1>2. done = 0 /\ (~gone[g] => s # <<>>) /\ 1..done = {}
  BY <1>1 DEF StreamFits, Making
<1>3. p \notin Over /\ q \notin Over \cup Early
  BY DEF Over, Asking, Early, SelectionSteps
<1>4. q \notin {"done", "failed"}
  BY <1>3 DEF Over
<1> HIDE DEF p, q, s, done
<1>5. StreamFits(q, s, done, Len(sheets'[g]), gone[g], order[g].idle)
  BY <1>1, <1>2, <1>3, <1>4 DEF StreamFits
<1> QED BY <1>5 DEF StreamFollows, q, s, done

\* The sheets stay what they are, on the way to where nothing more is asked of
\* them.
LEMMA SheetsRest ==
    ASSUME NEW g \in Orders, SheetsFollow(g), order' = order, picked' = picked, payload' = payload,
           sheets' = sheets,
           \/ step'[g] \notin Making \cup {"done"}
           \/ step[g] \in {"compose", "drain"} /\ step'[g] \in {"compose", "drain", "done"}
           \/ step[g] = "search" /\ step'[g] = "search"
    PROVE  SheetsFollow(g)'
<1>1. SchemaOf(g)' = SchemaOf(g) /\ Count(g)' = Count(g)
  BY DEF SchemaOf, Count
<1>2. \A t : AnswerFits(g, t)' <=> AnswerFits(g, t)
  BY <1>1 DEF AnswerFits
<1> QED BY <1>1, <1>2 DEF SheetsFollow, Making
\* The length of a list that is given by its elements.
LEMMA LengthOf ==
    ASSUME NEW n \in Nat, NEW f, f = [i \in 1..n |-> f[i]] PROVE Len(f) = n
<1>1. PICK E : E = {f[i] : i \in 1..n}
  OBVIOUS
<1>2. f \in [1..n -> E]
  BY <1>1
<1> QED BY <1>2

\* The choice of a template goes on with one that no other request has.
LEMMA PickedMoves ==
    ASSUME OrderTypes, NEW g \in Orders, SheetSelectionStep(g)
    PROVE  DOMAIN picked' = Orders /\ \A h \in Orders \ {g} : picked'[h] = picked[h]
<1>1. picked' = picked \/ \E x : picked' = [picked EXCEPT ![g] = x]
  <2>1. CASE TakeExplicit(g) \/ ListActive(g)
    BY <2>1 DEF TakeExplicit, ListActive
  <2>2. CASE ListFails(g) \/ Classify(g) \/ ModelClassifies(g) \/ ClassifyRow(g)
    BY <2>2 DEF ListFails, Classify, ModelClassifies, ClassifyRow, outcome
  <2>3. CASE ClassifyFails(g) \/ ClassifyCatch(g)
    BY <2>3 DEF ClassifyFails, ClassifyCatch, outcome
  <2>4. CASE Rerank(g) \/ Select(g)
    BY <2>4 DEF Rerank, Select, Resolved
  <2>5. CASE ListCatalog(g) \/ ModelPicks(g) \/ SelectFails(g)
    BY <2>5 DEF ListCatalog, ModelPicks, SelectFails, outcome
  <2>6. CASE SelectRow(g) \/ SelectCatch(g)
    BY <2>6 DEF SelectRow, SelectCatch, Resolved
  <2> QED BY <2>1, <2>2, <2>3, <2>4, <2>5, <2>6 DEF SheetSelectionStep
<1> QED BY <1>1 DEF OrderTypes

\* What a step of a request has to keep.
Continues(g) == OrderTypes' /\ Elsewhere(g) /\ OrderFollows(g)' /\ order' = order

\* The choice of a template.
LEMMA ChoiceContinues ==
    ASSUME OrderTypes, NEW g \in Orders, OrderFollows(g), SheetSelectionStep(g),
           UNCHANGED <<batch, open, stream>>
    PROVE  Continues(g)
<1>1. Chooses(g)
  BY SelectionMoves
<1>2. /\ order' = order /\ payload' = payload /\ sheets' = sheets /\ composed' = composed
      /\ open' = open /\ sent' = sent /\ gone' = gone
  BY <1>1 DEF Chooses, batch, stream
<1>3. DOMAIN picked' = Orders /\ \A h \in Orders \ {g} : picked'[h] = picked[h]
  BY PickedMoves
<1>4. OrderTypes'
  BY <1>1, <1>2, <1>3 DEF OrderTypes, Chooses, SelectionTypes
<1>5. Elsewhere(g)
  BY <1>1, <1>2, <1>3 DEF Elsewhere, Untouched, Chooses
<1>6. step[g] \in SelectionSteps /\ step'[g] \in SelectionSteps \cup {"picked", "refused"}
  BY <1>1 DEF Chooses
<1>7. CallsFollow(g)'
  <2>1. ClassifyFits(step'[g], told'[g]["classify"], billed'[g]["classify"])
    BY ClassifyGoesOn DEF OrderFollows, CallsFollow
  <2>2. SelectFits(step'[g], told'[g]["select"], billed'[g]["select"], answer'[g].kind)
    BY SelectGoesOn DEF OrderFollows, CallsFollow
  <2>3. told'[g]["content"] = told[g]["content"] /\ billed'[g]["content"] = billed[g]["content"]
    BY <1>1 DEF Chooses
  <2>4. step[g] \in Unwritten /\ step'[g] # "contentCatch"
    BY <1>6 DEF Unwritten, Early, SelectionSteps
  <2>5. ContentFits(step'[g], told'[g]["content"], billed'[g]["content"])
    BY <2>3, <2>4, ContentRests DEF OrderFollows, CallsFollow
  <2> QED BY <2>1, <2>2, <2>5 DEF CallsFollow
<1>8. StreamFollows(g)'
  <2>1. step[g] \in Early /\ step'[g] \in Early \cup {"refused"}
    BY <1>6 DEF Early
  <2> QED BY <1>2, <2>1, StreamWaits DEF OrderFollows, StreamFollows
<1>9. StagesFollow(g)'
  <2>1. open[g] = {"TEMPLATE_SELECTION"}
    BY <1>6 DEF OrderFollows, StagesFollow, StagesFit
  <2> QED BY <1>2, <1>6, <2>1 DEF StagesFollow, StagesFit, SelectionSteps
<1>10. SheetsFollow(g)'
  <2>1. step'[g] \notin Making \cup {"done"}
    BY <1>6 DEF Making, SelectionSteps
  <2> QED BY <1>2, <2>1 DEF OrderFollows, SheetsFollow, Making
<1> QED BY <1>2, <1>4, <1>5, <1>7, <1>8, <1>9, <1>10 DEF Continues, OrderFollows

\* A request moves on, with its lines and stages; its calls and sheets stay.
LEMMA QuietTypes ==
    ASSUME OrderTypes, NEW g \in Orders, NEW place \in Steps, Goto(g, place),
           told' = told, billed' = billed, answer' = answer, picked' = picked,
           payload' = payload, sheets' = sheets, gone' = gone,
           composed' \in [Orders -> Nat], \A h \in Orders \ {g} : composed'[h] = composed[h],
           composed'[g] <= Len(sheets[g]), order' = order,
           sent' \in [Orders -> Seq(Lines)], \A h \in Orders \ {g} : sent'[h] = sent[h],
           open' \in [Orders -> SUBSET Stages], \A h \in Orders \ {g} : open'[h] = open[h]
    PROVE  OrderTypes' /\ Elsewhere(g)
<1>1. step' \in [Orders -> Steps] /\ \A h \in Orders \ {g} : step'[h] = step[h]
  BY GotoMoves
<1>2. \A h \in Orders : composed'[h] <= Len(sheets[h])
  BY DEF OrderTypes
<1> QED BY <1>1, <1>2 DEF OrderTypes, Elsewhere, Untouched

\* The checks of the request.
LEMMA CheckRequestContinues ==
    ASSUME OrderTypes, NEW g \in Orders, OrderFollows(g), CheckRequest(g) PROVE Continues(g)
<1>0. {"begin", "refused"} \subseteq Steps /\ "TEMPLATE_SELECTION" \in Stages
  BY DEF Steps, Early, SelectionSteps, Stages
<1>1. /\ step[g] = "validate" /\ order' = order
      /\ told' = told /\ billed' = billed /\ answer' = answer /\ picked' = picked
      /\ payload' = payload /\ sheets' = sheets /\ composed' = composed
      /\ sent' = sent /\ gone' = gone
  BY DEF CheckRequest, outcome, calls, batch, stream
<1>2. PICK place \in {"begin", "refused"} :
          /\ Goto(g, place)
          /\ IF place = "begin" THEN Begin(g, "TEMPLATE_SELECTION") ELSE UNCHANGED open
  BY DEF CheckRequest
<1>3. step'[g] = place
  BY <1>0, <1>2, GotoMoves
<1>4. /\ open' \in [Orders -> SUBSET Stages] /\ \A h \in Orders \ {g} : open'[h] = open[h]
      /\ open'[g] = IF place = "begin" THEN open[g] \cup {"TEMPLATE_SELECTION"} ELSE open[g]
  BY <1>0, <1>2, BeginOpens DEF OrderTypes
<1>5. OrderTypes' /\ Elsewhere(g)
  BY <1>0, <1>1, <1>2, <1>4, QuietTypes DEF OrderTypes
<1>6. CallsFollow(g)'
  BY <1>1, <1>3, CallsRest DEF OrderFollows
<1>7. StreamFollows(g)'
  <2>1. step[g] \in Early /\ step'[g] \in Early \cup {"refused"}
    BY <1>1, <1>3 DEF Early, SelectionSteps
  <2> QED BY <1>1, <2>1, StreamWaits DEF OrderFollows, StreamFollows
<1>8. StagesFollow(g)'
  <2>1. open[g] = {}
    BY <1>1 DEF OrderFollows, StagesFollow, StagesFit
  <2> QED BY <1>1, <1>3, <1>4, <2>1 DEF StagesFollow, StagesFit, SelectionSteps
<1>9. SheetsFollow(g)'
  BY <1>1, <1>3, SheetsRest DEF OrderFollows, Making
<1> QED BY <1>1, <1>5, <1>6, <1>7, <1>8, <1>9 DEF Continues, OrderFollows

\* The content is begun.
LEMMA StartContentContinues ==
    ASSUME AskedFor, OrderTypes, NEW g \in Orders, OrderFollows(g), StartContent(g)
    PROVE  Continues(g)
<1>0. "request" \in Steps /\ {"LLM_CONTENT_GENERATION"} \subseteq Stages
  BY DEF Steps, Asking, Stages
<1>1. /\ step[g] = "picked" /\ order' = order /\ Goto(g, "request")
      /\ Send(g, Line("meta", Count(g)))
      /\ open' = [open EXCEPT ![g] = {"LLM_CONTENT_GENERATION"}]
      /\ told' = told /\ billed' = billed /\ answer' = answer /\ picked' = picked
      /\ payload' = payload /\ sheets' = sheets /\ composed' = composed /\ gone' = gone
  BY DEF StartContent, outcome, calls, batch
<1>2. Count(g) \in Nat /\ Line("meta", Count(g)) \in Lines
  BY CountIsPositive, LineIsOne DEF AskedFor
<1>3. step'[g] = "request"
  BY <1>0, <1>1, GotoMoves
<1>4. /\ open' \in [Orders -> SUBSET Stages] /\ \A h \in Orders \ {g} : open'[h] = open[h]
      /\ open'[g] = {"LLM_CONTENT_GENERATION"}
  BY <1>0, <1>1 DEF OrderTypes
<1>5. /\ sent' \in [Orders -> Seq(Lines)] /\ \A h \in Orders \ {g} : sent'[h] = sent[h]
      /\ sent'[g] = IF gone[g] THEN sent[g] ELSE Append(sent[g], Line("meta", Count(g)))
  BY <1>1, <1>2, SendAppends
<1>6. OrderTypes' /\ Elsewhere(g)
  BY <1>0, <1>1, <1>4, <1>5, QuietTypes DEF OrderTypes
<1>7. CallsFollow(g)'
  BY <1>1, <1>3, CallsRest DEF OrderFollows, SelectionSteps, Unwritten, Early
<1>8. StreamFollows(g)'
  <2>1. sent[g] \in Seq(Lines) /\ gone[g] \in BOOLEAN
    BY DEF OrderTypes
  <2> QED BY <1>1, <1>2, <1>3, <1>5, <2>1, StreamOpens DEF OrderFollows, StreamFollows
<1>9. StagesFollow(g)'
  BY <1>3, <1>4 DEF StagesFollow, StagesFit, SelectionSteps
<1>10. SheetsFollow(g)'
  BY <1>1, <1>3, SheetsRest DEF OrderFollows, Making
<1> QED BY <1>1, <1>6, <1>7, <1>8, <1>9, <1>10 DEF Continues, OrderFollows

\* The model is asked for it, or not.
LEMMA RequestContentContinues ==
    ASSUME OrderTypes, NEW g \in Orders, OrderFollows(g), RequestContent(g) PROVE Continues(g)
<1>0. {"content", "refused"} \subseteq Steps /\ "LLM_REQUEST" \in Stages
  BY DEF Steps, Asking, Stages
<1>1. /\ step[g] = "request" /\ order' = order
      /\ told' = told /\ billed' = billed /\ answer' = answer /\ picked' = picked
      /\ payload' = payload /\ sheets' = sheets /\ composed' = composed
      /\ sent' = sent /\ gone' = gone
  BY DEF RequestContent, outcome, calls, batch, stream
<1>2. PICK place \in {"content", "refused"} :
          Goto(g, place) /\ (Begin(g, "LLM_REQUEST") \/ (place = "refused" /\ UNCHANGED open))
  BY DEF RequestContent
<1>3. step'[g] = place
  BY <1>0, <1>2, GotoMoves
<1>4. /\ open' \in [Orders -> SUBSET Stages] /\ \A h \in Orders \ {g} : open'[h] = open[h]
      /\ \/ open'[g] = open[g] \cup {"LLM_REQUEST"}
         \/ place = "refused" /\ open'[g] = open[g]
  BY <1>0, <1>2, BeginOpens DEF OrderTypes
<1>5. OrderTypes' /\ Elsewhere(g)
  BY <1>0, <1>1, <1>2, <1>4, QuietTypes DEF OrderTypes
<1>6. CallsFollow(g)'
  BY <1>1, <1>3, CallsRest DEF OrderFollows, SelectionSteps, Unwritten, Early
<1>7. StreamFollows(g)'
  <2>1. step[g] \in Asking \cup {"search"}
    BY <1>1 DEF Asking
  <2>2. step'[g] \in Asking \cup {"search", "refused", "compose"}
    BY <1>3 DEF Asking
  <2> QED BY <1>1, <2>1, <2>2, StreamKeeps DEF OrderFollows
<1>8. StagesFollow(g)'
  <2>1. open[g] = {"LLM_CONTENT_GENERATION"}
    BY <1>1 DEF OrderFollows, StagesFollow, StagesFit
  <2>2. told[g]["content"] = <<>>
    BY <1>1 DEF OrderFollows, CallsFollow, ContentFits, Unwritten
  <2> QED BY <1>1, <1>3, <1>4, <2>1, <2>2 DEF StagesFollow, StagesFit, SelectionSteps
<1>9. SheetsFollow(g)'
  BY <1>1, <1>3, SheetsRest DEF OrderFollows, Making
<1> QED BY <1>1, <1>5, <1>6, <1>7, <1>8, <1>9 DEF Continues, OrderFollows

\* It answers.
LEMMA ContentAnswersContinues ==
    ASSUME AskedFor, OrderTypes, NEW g \in Orders, OrderFollows(g), ContentAnswers(g)
    PROVE  Continues(g)
<1>0. "contentRow" \in Steps
  BY DEF Steps, Asking
<1>1. /\ step[g] = "content" /\ order' = order /\ Goto(g, "contentRow")
      /\ told' = told /\ billed' = billed /\ answer' = answer /\ picked' = picked
      /\ sheets' = sheets /\ composed' = composed
      /\ sent' = sent /\ gone' = gone /\ open' = open
  BY DEF ContentAnswers, outcome, calls, stream
<1>2. PICK p \in order[g].answers \cup {Unreadable} : payload' = [payload EXCEPT ![g] = p]
  BY DEF ContentAnswers
<1>3. /\ step' \in [Orders -> Steps] /\ step'[g] = "contentRow"
      /\ \A h \in Orders \ {g} : step'[h] = step[h]
  BY <1>0, <1>1, GotoMoves
<1>4. /\ payload'[g] \in Payloads \cup {Unreadable} /\ DOMAIN payload' = Orders
      /\ \A h \in Orders \ {g} : payload'[h] = payload[h]
  BY <1>2 DEF OrderTypes, AskedFor
<1>5. OrderTypes' /\ Elsewhere(g)
  BY <1>1, <1>3, <1>4 DEF OrderTypes, Elsewhere, Untouched
<1>6. CallsFollow(g)'
  BY <1>1, <1>3, CallsRest DEF OrderFollows, SelectionSteps, Unwritten, Early
<1>7. StreamFollows(g)'
  <2>1. step[g] \in Asking /\ step'[g] \in Asking
    BY <1>1, <1>3 DEF Asking
  <2> QED BY <1>1, <2>1, StreamKeeps DEF OrderFollows
<1>8. StagesFollow(g)'
  BY <1>1, <1>3 DEF OrderFollows, StagesFollow, StagesFit, SelectionSteps
<1>9. SheetsFollow(g)'
  BY <1>1, <1>3, <1>4 DEF OrderFollows, SheetsFollow, Making
<1> QED BY <1>1, <1>5, <1>6, <1>7, <1>8, <1>9 DEF Continues, OrderFollows

\* Its answer is read: the row, the report, and the sheets that are kept.
LEMMA ReadContentContinues ==
    ASSUME AskedFor, OrderTypes, NEW g \in Orders, OrderFollows(g), Answerable(payload[g]),
           ReadContent(g)
    PROVE  Continues(g)
<1>0. /\ {"search", "refused"} \subseteq Steps /\ {"LLM_REQUEST", "IMAGE_RETRIEVAL"} \subseteq Stages
      /\ "content" \in Calls /\ TRUE \in BOOLEAN
  BY DEF Steps, Making, Stages, Calls
<1>1. /\ step[g] = "contentRow" /\ order' = order
      /\ Bill(g, "content", TRUE) /\ Report(g, "content", TRUE)
      /\ sheets' = [sheets EXCEPT ![g] = Kept(g)]
      /\ answer' = answer /\ picked' = picked /\ payload' = payload
      /\ composed' = composed /\ sent' = sent /\ gone' = gone
  BY DEF ReadContent, outcome, stream
<1>2. \/ Kept(g) = <<>> /\ Goto(g, "refused") /\ End(g, "LLM_REQUEST")
      \/ /\ Kept(g) # <<>> /\ Goto(g, "search")
         /\ open' = [open EXCEPT ![g] = {"IMAGE_RETRIEVAL"}]
  BY DEF ReadContent
<1>3. PICK place \in {"search", "refused"} :
          Goto(g, place) /\ (place = "search" => Kept(g) # <<>>)
  BY <1>2
<1>4. /\ step' \in [Orders -> Steps] /\ step'[g] = place
      /\ \A h \in Orders \ {g} : step'[h] = step[h]
  BY <1>0, <1>3, GotoMoves
<1>5. open[g] = {"LLM_CONTENT_GENERATION", "LLM_REQUEST"}
  BY <1>1 DEF OrderFollows, StagesFollow, StagesFit
<1>6. /\ open' \in [Orders -> SUBSET Stages] /\ \A h \in Orders \ {g} : open'[h] = open[h]
      /\ step'[g] = "search" => open'[g] = {"IMAGE_RETRIEVAL"}
      /\ step'[g] = "refused" => "LLM_REQUEST" \notin open'[g]
  <2>1. CASE Kept(g) = <<>> /\ Goto(g, "refused") /\ End(g, "LLM_REQUEST")
    <3>1. step'[g] = "refused"
      BY <1>0, <2>1, GotoMoves
    <3> QED BY <1>0, <2>1, <3>1, EndCloses
  <2>2. CASE Goto(g, "search") /\ open' = [open EXCEPT ![g] = {"IMAGE_RETRIEVAL"}]
    <3>1. step'[g] = "search"
      BY <1>0, <2>2, GotoMoves
    <3> QED BY <1>0, <2>2, <3>1 DEF OrderTypes
  <2> QED BY <1>2, <2>1, <2>2
<1>7. /\ told' \in [Orders -> [Calls -> Seq(BOOLEAN)]]
      /\ told'[g]["content"] = Append(told[g]["content"], TRUE)
      /\ \A h \in Orders \ {g} : told'[h] = told[h]
  BY <1>0, <1>1, ReportTells
<1>8. /\ billed' \in [Orders -> [Calls -> Seq(BOOLEAN)]]
      /\ billed'[g]["content"] = Append(billed[g]["content"], TRUE)
      /\ \A h \in Orders \ {g} : billed'[h] = billed[h]
  BY <1>0, <1>1, BillWrites
<1>9. /\ Len(Kept(g)) \in 0..Count(g) /\ DOMAIN Kept(g) = 1..Len(Kept(g))
      /\ \A i \in DOMAIN Kept(g) : Paths(Kept(g)[i])
  BY KeptAreSheets DEF AskedFor
<1>10. Count(g) \in Nat \ {0} /\ Count(g)' = Count(g)
  BY <1>1, CountIsPositive DEF AskedFor, Count
<1>11. /\ DOMAIN sheets' = Orders /\ sheets'[g] = Kept(g)
       /\ \A h \in Orders \ {g} : sheets'[h] = sheets[h]
  BY <1>1 DEF OrderTypes
<1>12. composed[g] = 0
  BY <1>1 DEF OrderFollows, StreamFollows, StreamFits, Asking
<1>13. OrderTypes'
  <2>1. Len(Kept(g)) \in Nat
    BY <1>9, <1>10
  <2>2. ASSUME NEW h \in Orders
        PROVE  /\ Len(sheets'[h]) \in Nat /\ DOMAIN sheets'[h] = 1..Len(sheets'[h])
               /\ composed[h] <= Len(sheets'[h])
    <3>1. CASE h = g
      BY <1>9, <1>11, <1>12, <2>1, <3>1
    <3>2. CASE h # g
      BY <1>11, <3>2 DEF OrderTypes
    <3> QED BY <3>1, <3>2
  <2> QED BY <1>1, <1>4, <1>6, <1>7, <1>8, <1>11, <2>2 DEF OrderTypes
<1>14. Elsewhere(g)
  BY <1>1, <1>4, <1>6, <1>7, <1>8, <1>11 DEF Elsewhere, Untouched
<1>15. CallsFollow(g)'
  <2>1. ContentFits("contentRow", told[g]["content"], billed[g]["content"])
    BY <1>1 DEF OrderFollows, CallsFollow
  <2>2. ContentFits(step'[g], told'[g]["content"], billed'[g]["content"])
    BY <1>4, <1>7, <1>8, <2>1, ContentRecords
  <2>3. step[g] \in Asking /\ step'[g] \in Asking \cup {"refused", "search"}
    BY <1>1, <1>4 DEF Asking
  <2> QED BY <1>1, <2>2, <2>3, CallsOfContent DEF OrderFollows
<1>16. StreamFollows(g)'
  <2>1. step[g] \in Asking \cup {"search"}
    BY <1>1 DEF Asking
  <2>2. step'[g] \in Asking \cup {"search", "refused", "compose"}
    BY <1>4 DEF Asking
  <2> QED BY <1>1, <2>1, <2>2, StreamKeeps DEF OrderFollows
<1>17. StagesFollow(g)'
  BY <1>4, <1>6 DEF StagesFollow, StagesFit, SelectionSteps
<1>18. SheetsFollow(g)'
  <2>1. step'[g] = "search" => Len(Kept(g)) \in 1..Count(g)
    <3>1. ASSUME step'[g] = "search" PROVE Len(Kept(g)) # 0
      <4>1. Kept(g) # <<>>
        BY <1>3, <1>4, <3>1
      <4>2. PICK E : E = {Kept(g)[i] : i \in DOMAIN Kept(g)}
        OBVIOUS
      <4>3. Kept(g) = [i \in DOMAIN Kept(g) |-> Kept(g)[i]]
        BY DEF Kept
      <4>4. Kept(g) \in Seq(E)
        <5>1. Len(Kept(g)) \in Nat
          BY <1>9, <1>10
        <5>2. Kept(g) \in [1..Len(Kept(g)) -> E]
          BY <1>9, <4>2, <4>3
        <5> QED BY <5>1, <5>2
      <4> QED BY <4>1, <4>4
    <3> QED BY <1>9, <1>10, <3>1
  <2>2. step'[g] \notin {"compose", "drain", "done"}
    BY <1>4
  <2> QED BY <1>1, <1>9, <1>10, <1>11, <2>1, <2>2 DEF OrderFollows, SheetsFollow, Making
<1> QED BY <1>1, <1>13, <1>14, <1>15, <1>16, <1>17, <1>18 DEF Continues, OrderFollows

\* The call fails.
LEMMA ContentFailsContinues ==
    ASSUME OrderTypes, NEW g \in Orders, OrderFollows(g), ContentFails(g) PROVE Continues(g)
<1>0. "contentCatch" \in Steps /\ "content" \in Calls /\ FALSE \in BOOLEAN
  BY DEF Steps, Asking, Calls
<1>1. /\ step[g] \in {"content", "contentRow"} /\ order' = order /\ Goto(g, "contentCatch")
      /\ Report(g, "content", FALSE) /\ End(g, "LLM_REQUEST")
      /\ billed' = billed /\ answer' = answer /\ picked' = picked /\ payload' = payload
      /\ sheets' = sheets /\ composed' = composed /\ sent' = sent /\ gone' = gone
  BY DEF ContentFails, outcome, batch, stream
<1>2. /\ step' \in [Orders -> Steps] /\ step'[g] = "contentCatch"
      /\ \A h \in Orders \ {g} : step'[h] = step[h]
  BY <1>0, <1>1, GotoMoves
<1>3. /\ open' \in [Orders -> SUBSET Stages] /\ open'[g] = open[g] \ {"LLM_REQUEST"}
      /\ \A h \in Orders \ {g} : open'[h] = open[h]
  BY <1>1, EndCloses
<1>4. /\ told' \in [Orders -> [Calls -> Seq(BOOLEAN)]]
      /\ told'[g]["content"] = Append(told[g]["content"], FALSE)
      /\ \A h \in Orders \ {g} : told'[h] = told[h]
  BY <1>0, <1>1, ReportTells
<1>5. OrderTypes'
  BY <1>1, <1>2, <1>3, <1>4 DEF OrderTypes
<1>6. Elsewhere(g)
  BY <1>1, <1>2, <1>3, <1>4 DEF Elsewhere, Untouched
<1>7. CallsFollow(g)'
  <2>1. told[g]["content"] \in Seq(BOOLEAN)
    BY <1>0 DEF OrderTypes
  <2>2. ContentFits(step'[g], told'[g]["content"], billed'[g]["content"])
    BY <1>1, <1>2, <1>4, <2>1, ContentErrs DEF OrderFollows, CallsFollow
  <2>3. step[g] \in Asking /\ step'[g] \in Asking \cup {"refused", "search"}
    BY <1>1, <1>2 DEF Asking
  <2> QED BY <1>1, <2>2, <2>3, CallsOfContent DEF OrderFollows
<1>8. StreamFollows(g)'
  <2>1. step[g] \in Asking \cup {"search"}
    BY <1>1 DEF Asking
  <2>2. step'[g] \in Asking \cup {"search", "refused", "compose"}
    BY <1>2 DEF Asking
  <2> QED BY <1>1, <2>1, <2>2, StreamKeeps DEF OrderFollows
<1>9. StagesFollow(g)'
  <2>1. open[g] = {"LLM_CONTENT_GENERATION", "LLM_REQUEST"}
    BY <1>1 DEF OrderFollows, StagesFollow, StagesFit
  <2> QED BY <1>2, <1>3, <2>1 DEF StagesFollow, StagesFit, SelectionSteps
<1>10. SheetsFollow(g)'
  BY <1>1, <1>2, SheetsRest DEF OrderFollows, Making
<1> QED BY <1>1, <1>5, <1>6, <1>7, <1>8, <1>9, <1>10 DEF Continues, OrderFollows

\* The row of the failure is written, or cannot be.
LEMMA ContentCatchContinues ==
    ASSUME OrderTypes, NEW g \in Orders, OrderFollows(g), ContentCatch(g) PROVE Continues(g)
<1>0. "refused" \in Steps /\ "content" \in Calls /\ FALSE \in BOOLEAN
  BY DEF Steps, Calls
<1>1. /\ step[g] = "contentCatch" /\ order' = order /\ Goto(g, "refused")
      /\ Bill(g, "content", FALSE) \/ billed' = billed
      /\ told' = told /\ answer' = answer /\ picked' = picked /\ payload' = payload
      /\ sheets' = sheets /\ composed' = composed /\ sent' = sent /\ gone' = gone /\ open' = open
  BY DEF ContentCatch, outcome, batch, stream
<1>2. /\ step' \in [Orders -> Steps] /\ step'[g] = "refused"
      /\ \A h \in Orders \ {g} : step'[h] = step[h]
  BY <1>0, <1>1, GotoMoves
<1>3. /\ billed' \in [Orders -> [Calls -> Seq(BOOLEAN)]]
      /\ \/ billed'[g]["content"] = Append(billed[g]["content"], FALSE)
         \/ billed'[g]["content"] = billed[g]["content"]
      /\ \A h \in Orders \ {g} : billed'[h] = billed[h]
  <2>1. CASE Bill(g, "content", FALSE)
    BY <1>0, <2>1, BillWrites
  <2>2. CASE billed' = billed
    BY <2>2 DEF OrderTypes
  <2> QED BY <1>1, <2>1, <2>2
<1>5. OrderTypes'
  BY <1>1, <1>2, <1>3 DEF OrderTypes
<1>6. Elsewhere(g)
  BY <1>1, <1>2, <1>3 DEF Elsewhere, Untouched
<1>7. CallsFollow(g)'
  <2>1. ContentFits("contentCatch", told[g]["content"], billed[g]["content"])
    BY <1>1 DEF OrderFollows, CallsFollow
  <2>2. ContentFits(step'[g], told'[g]["content"], billed'[g]["content"])
    BY <1>1, <1>2, <1>3, <2>1, ContentWrites
  <2>3. step[g] \in Asking /\ step'[g] \in Asking \cup {"refused", "search"}
    BY <1>1, <1>2 DEF Asking
  <2> QED BY <1>1, <2>2, <2>3, CallsOfContent DEF OrderFollows
<1>8. StreamFollows(g)'
  <2>1. step[g] \in Asking \cup {"search"}
    BY <1>1 DEF Asking
  <2>2. step'[g] \in Asking \cup {"search", "refused", "compose"}
    BY <1>2 DEF Asking
  <2> QED BY <1>1, <2>1, <2>2, StreamKeeps DEF OrderFollows
<1>9. StagesFollow(g)'
  BY <1>1, <1>2 DEF OrderFollows, StagesFollow, StagesFit, SelectionSteps
<1>10. SheetsFollow(g)'
  BY <1>1, <1>2, SheetsRest DEF OrderFollows, Making
<1> QED BY <1>1, <1>5, <1>6, <1>7, <1>8, <1>9, <1>10 DEF Continues, OrderFollows

\* The pictures are put in: every sheet is checked again.
LEMMA AttachKeeps ==
    ASSUME OrderTypes, NEW g \in Orders, SheetsFollow(g), NEW found, Attach(g, found)
    PROVE  /\ DOMAIN sheets' = Orders /\ \A h \in Orders \ {g} : sheets'[h] = sheets[h]
           /\ Len(sheets'[g]) = Len(sheets[g]) /\ DOMAIN sheets'[g] = 1..Len(sheets[g])
           /\ \A i \in DOMAIN sheets'[g] : Paths(sheets'[g][i])
           /\ \/ Goto(g, "refused") /\ sheets' = sheets /\ open' = open
              \/ /\ Goto(g, "compose") /\ End(g, "IMAGE_RETRIEVAL")
                 /\ \A i \in DOMAIN sheets'[g] : AnswerFits(g, sheets'[g][i])
<1> DEFINE next == Pictures(g, found)
           lineart == SchemaOf(g).lineart
           result == [i \in DOMAIN next |-> Validated(next[i], lineart)]
           n == Len(sheets[g])
<1>1. n \in Nat /\ DOMAIN sheets[g] = 1..n
  BY DEF OrderTypes
<1>2. DOMAIN next = 1..n /\ \A i \in 1..n : next[i] = Pictured(Prepared(g, sheets[g][i]), found, lineart)
  BY <1>1 DEF Pictures
<1>3. \A i \in 1..n : /\ Paths(next[i])
                      /\ \A p \in DOMAIN next[i] \ {<<>>} : Key(p) \notin TransientKeys
  BY <1>1, <1>2, PreparedPaths, PicturedIsStripped DEF SheetsFollow
<1>4. DOMAIN result = 1..n /\ \A i \in 1..n : result[i] = Validated(next[i], lineart)
  BY <1>2
<1>5. \/ Goto(g, "refused") /\ sheets' = sheets /\ open' = open
      \/ /\ \A i \in DOMAIN next : Usable(g, next[i])
         /\ sheets' = [sheets EXCEPT ![g] = result]
         /\ Goto(g, "compose") /\ End(g, "IMAGE_RETRIEVAL")
  BY DEF Attach
<1>6. Len(result) = n
  <2>1. result = [i \in 1..n |-> result[i]]
    BY <1>2
  <2> HIDE DEF result
  <2> QED BY <1>1, <2>1, LengthOf
<1>7. \A i \in 1..n : Paths(result[i]) /\ DOMAIN result[i] = DOMAIN next[i]
  <2> TAKE i \in 1..n
  <2>1. \A t : DOMAIN Validated(t, lineart) = DOMAIN t
    BY DEF Validated, StripLineart
  <2> QED BY <1>3, <1>4, <2>1, ValidatedPaths
<1>8. ASSUME NEW i \in 1..n, Usable(g, next[i]) PROVE AnswerFits(g, result[i])
  <2>1. Accepts(result[i], SchemaOf(g), TRUE)
    BY <1>4, <1>8 DEF Usable
  <2> HIDE DEF result, next
  <2>2. Valid(result[i], SchemaOf(g).schema, TRUE) /\ ~HasBadQuery(result[i])
    BY <2>1 DEF Accepts
  <2> QED BY <1>3, <1>7, <2>2 DEF AnswerFits
<1> HIDE DEF next, result
<1>9. CASE Goto(g, "refused") /\ sheets' = sheets /\ open' = open
  BY <1>1, <1>9 DEF OrderTypes, SheetsFollow
<1>10. CASE /\ \A i \in DOMAIN next : Usable(g, next[i])
            /\ sheets' = [sheets EXCEPT ![g] = result]
            /\ Goto(g, "compose") /\ End(g, "IMAGE_RETRIEVAL")
  <2>1. /\ DOMAIN sheets' = Orders /\ sheets'[g] = result
        /\ \A h \in Orders \ {g} : sheets'[h] = sheets[h]
    BY <1>10 DEF OrderTypes
  <2>2. \A i \in 1..n : AnswerFits(g, result[i])
    BY <1>2, <1>8, <1>10
  <2> QED BY <1>4, <1>6, <1>7, <1>10, <2>1, <2>2
<1> QED BY <1>5, <1>9, <1>10

\* The search ends, or goes on.
LEMMA SearchContinues ==
    ASSUME OrderTypes, NEW g \in Orders, OrderFollows(g), step[g] = "search",
           UNCHANGED <<order, outcome, calls, payload, composed, stream>>,
           \/ Goto(g, "refused") /\ UNCHANGED <<sheets, open>>
           \/ UNCHANGED <<step, sheets, open>>
           \/ \E found : Attach(g, found)
    PROVE  Continues(g)
<1>0. {"refused", "search", "compose"} \subseteq Steps /\ "IMAGE_RETRIEVAL" \in Stages
  BY DEF Steps, Making, Stages
<1>1. /\ order' = order /\ told' = told /\ billed' = billed /\ answer' = answer
      /\ picked' = picked /\ payload' = payload /\ composed' = composed
      /\ sent' = sent /\ gone' = gone
  BY DEF outcome, calls, stream
<1>2. open[g] = {"IMAGE_RETRIEVAL"} /\ composed[g] = 0 /\ Len(sheets[g]) \in 1..Count(g)
  BY DEF OrderFollows, StagesFollow, StagesFit, StreamFollows, StreamFits, SheetsFollow, Making
<1>3. /\ DOMAIN sheets' = Orders /\ \A h \in Orders \ {g} : sheets'[h] = sheets[h]
      /\ Len(sheets'[g]) = Len(sheets[g]) /\ DOMAIN sheets'[g] = 1..Len(sheets[g])
      /\ \A i \in DOMAIN sheets'[g] : Paths(sheets'[g][i])
      /\ \/ Goto(g, "refused") /\ open' = open
         \/ step' = step /\ open' = open
         \/ /\ Goto(g, "compose") /\ End(g, "IMAGE_RETRIEVAL")
            /\ \A i \in DOMAIN sheets'[g] : AnswerFits(g, sheets'[g][i])
  <2>1. CASE \E found : Attach(g, found)
    BY <2>1, AttachKeeps DEF OrderFollows
  <2>2. CASE UNCHANGED <<sheets, open>> /\ (Goto(g, "refused") \/ UNCHANGED step)
    BY <2>2 DEF OrderTypes, OrderFollows, SheetsFollow
  <2> QED BY <2>1, <2>2
<1>4. /\ step' \in [Orders -> Steps] /\ \A h \in Orders \ {g} : step'[h] = step[h]
      /\ open' \in [Orders -> SUBSET Stages] /\ \A h \in Orders \ {g} : open'[h] = open[h]
      /\ \/ step'[g] \in {"refused", "search"} /\ open'[g] = {"IMAGE_RETRIEVAL"}
         \/ /\ step'[g] = "compose" /\ open'[g] = {}
            /\ \A i \in DOMAIN sheets'[g] : AnswerFits(g, sheets'[g][i])
  <2>1. CASE Goto(g, "refused") /\ open' = open
    BY <1>0, <1>2, <2>1, GotoMoves DEF OrderTypes
  <2>2. CASE step' = step /\ open' = open
    BY <1>2, <2>2 DEF OrderTypes
  <2>3. CASE /\ Goto(g, "compose") /\ End(g, "IMAGE_RETRIEVAL")
             /\ \A i \in DOMAIN sheets'[g] : AnswerFits(g, sheets'[g][i])
    <3>1. open'[g] = {"IMAGE_RETRIEVAL"} \ {"IMAGE_RETRIEVAL"}
      BY <1>2, <2>3, EndCloses
    <3>2. open'[g] = {}
      BY <3>1
    <3> QED BY <1>0, <2>3, <3>2, GotoMoves, EndCloses
  <2> QED BY <1>3, <2>1, <2>2, <2>3
<1>5. OrderTypes'
  <2>1. ASSUME NEW h \in Orders
        PROVE  /\ Len(sheets'[h]) \in Nat /\ DOMAIN sheets'[h] = 1..Len(sheets'[h])
               /\ composed[h] <= Len(sheets'[h])
    BY <1>3 DEF OrderTypes
  <2> QED BY <1>1, <1>3, <1>4, <2>1 DEF OrderTypes
<1>6. Elsewhere(g)
  BY <1>1, <1>3, <1>4 DEF Elsewhere, Untouched
<1>7. CallsFollow(g)'
  <2>1. step[g] \notin Unwritten /\ step'[g] \notin Unwritten
    BY <1>4 DEF Unwritten, Early, SelectionSteps
  <2> QED BY <1>1, <1>4, <2>1, CallsRest DEF OrderFollows, SelectionSteps
<1>8. StreamFollows(g)'
  BY <1>1, <1>4, StreamKeeps DEF OrderFollows
<1>9. StagesFollow(g)'
  BY <1>4 DEF StagesFollow, StagesFit, SelectionSteps
<1>10. SheetsFollow(g)'
  <2>1. SchemaOf(g)' = SchemaOf(g) /\ Count(g)' = Count(g)
    BY <1>1 DEF SchemaOf, Count
  <2>2. \A t : AnswerFits(g, t)' <=> AnswerFits(g, t)
    BY <2>1 DEF AnswerFits
  <2>3. step'[g] \in {"compose", "drain", "done"} =>
            \A i \in DOMAIN sheets'[g] : AnswerFits(g, sheets'[g][i])
    BY <1>4
  <2> QED BY <1>1, <1>2, <1>3, <2>1, <2>2, <2>3 DEF OrderFollows, SheetsFollow
<1> QED BY <1>1, <1>5, <1>6, <1>7, <1>8, <1>9, <1>10 DEF Continues, OrderFollows

\* The search answers.
LEMMA SearchPicturesContinues ==
    ASSUME OrderTypes, NEW g \in Orders, OrderFollows(g), SearchPictures(g) PROVE Continues(g)
<1>1. /\ step[g] = "search"
      /\ UNCHANGED <<order, outcome, calls, payload, composed, stream>>
      /\ \/ Goto(g, "refused") /\ UNCHANGED <<sheets, open>>
         \/ \E found : Attach(g, found)
  BY DEF SearchPictures
<1> QED BY <1>1, SearchContinues
\* The search fails, and is tried again or found nothing.
LEMMA SearchFailsContinues ==
    ASSUME OrderTypes, NEW g \in Orders, OrderFollows(g), SearchFails(g) PROVE Continues(g)
<1>1. /\ step[g] = "search"
      /\ UNCHANGED <<order, outcome, calls, payload, composed, stream>>
      /\ \/ UNCHANGED <<step, sheets, open>>
         \/ \E found : Attach(g, found)
  BY DEF SearchFails
<1> QED BY <1>1, SearchContinues

\* A sheet is composed and sent.
LEMMA ComposeContinues ==
    ASSUME OrderTypes, NEW g \in Orders, OrderFollows(g), Compose(g) PROVE Continues(g)
<1>1. /\ step[g] \in {"compose", "drain"} /\ order' = order /\ step' = step
      /\ composed' = [composed EXCEPT ![g] = @ + 1] /\ composed[g] < Len(sheets[g])
      /\ Send(g, Line("item", composed[g] + 1))
      /\ told' = told /\ billed' = billed /\ answer' = answer /\ picked' = picked
      /\ payload' = payload /\ sheets' = sheets /\ gone' = gone /\ open' = open
  BY DEF Compose, outcome, calls
<1>2. /\ composed[g] \in Nat /\ Len(sheets[g]) \in Nat /\ sent[g] \in Seq(Lines)
      /\ gone[g] \in BOOLEAN
  BY DEF OrderTypes
<1>3. Line("item", composed[g] + 1) \in Lines
  BY <1>2, LineIsOne
<1>4. /\ sent' \in [Orders -> Seq(Lines)] /\ \A h \in Orders \ {g} : sent'[h] = sent[h]
      /\ sent'[g] = IF gone[g] THEN sent[g] ELSE Append(sent[g], Line("item", composed[g] + 1))
  BY <1>1, <1>3, SendAppends
<1>5. /\ composed' \in [Orders -> Nat] /\ composed'[g] = composed[g] + 1
      /\ \A h \in Orders \ {g} : composed'[h] = composed[h]
  BY <1>1 DEF OrderTypes
<1>6. composed'[g] <= Len(sheets[g])
  BY <1>1, <1>2, <1>5
<1>7. OrderTypes' /\ Elsewhere(g)
  <2>1. \A h \in Orders : composed'[h] <= Len(sheets'[h])
    BY <1>1, <1>5, <1>6 DEF OrderTypes
  <2>2. OrderTypes'
    BY <1>1, <1>4, <1>5, <2>1 DEF OrderTypes
  <2> QED BY <1>1, <1>4, <1>5, <2>2 DEF Elsewhere, Untouched
<1>8. CallsFollow(g)'
  BY <1>1, CallsRest DEF OrderFollows, SelectionSteps, Unwritten, Early
<1>9. StreamFollows(g)'
  <2>1. StreamFits(step[g], sent[g], composed[g], Len(sheets[g]), gone[g], order[g].idle)
    BY DEF OrderFollows, StreamFollows
  <2>2. StreamFits(step[g], sent'[g], composed[g] + 1, Len(sheets[g]), gone[g], order[g].idle)
    BY <1>1, <1>2, <1>4, <2>1, StreamSends
  <2> QED BY <1>1, <1>5, <2>2 DEF StreamFollows
<1>10. StagesFollow(g)'
  BY <1>1 DEF OrderFollows, StagesFollow
<1>11. SheetsFollow(g)'
  BY <1>1, SheetsRest DEF OrderFollows
<1> QED BY <1>1, <1>7, <1>8, <1>9, <1>10, <1>11 DEF Continues, OrderFollows

\* A sheet is not composed.
LEMMA ComposeThrowsContinues ==
    ASSUME OrderTypes, NEW g \in Orders, OrderFollows(g), ComposeThrows(g) PROVE Continues(g)
<1>0. "drain" \in Steps
  BY DEF Steps, Making
<1>1. /\ step[g] \in {"compose", "drain"} /\ order' = order /\ Goto(g, "drain")
      /\ composed' = [composed EXCEPT ![g] = @ + 1] /\ composed[g] < Len(sheets[g])
      /\ told' = told /\ billed' = billed /\ answer' = answer /\ picked' = picked
      /\ payload' = payload /\ sheets' = sheets /\ gone' = gone /\ open' = open /\ sent' = sent
  BY DEF ComposeThrows, outcome, calls, stream
<1>2. /\ composed[g] \in Nat /\ Len(sheets[g]) \in Nat /\ sent[g] \in Seq(Lines)
      /\ gone[g] \in BOOLEAN
  BY DEF OrderTypes
<1>3. step'[g] = "drain"
  BY <1>0, <1>1, GotoMoves
<1>5. /\ composed' \in [Orders -> Nat] /\ composed'[g] = composed[g] + 1
      /\ \A h \in Orders \ {g} : composed'[h] = composed[h]
  BY <1>1 DEF OrderTypes
<1>6. composed'[g] <= Len(sheets[g])
  BY <1>1, <1>2, <1>5
<1>7. OrderTypes' /\ Elsewhere(g)
  BY <1>0, <1>1, <1>5, <1>6, QuietTypes DEF OrderTypes
<1>8. CallsFollow(g)'
  BY <1>1, <1>3, CallsRest DEF OrderFollows, SelectionSteps, Unwritten, Early
<1>9. StreamFollows(g)'
  <2>1. StreamFits(step[g], sent[g], composed[g], Len(sheets[g]), gone[g], order[g].idle)
    BY DEF OrderFollows, StreamFollows
  <2>2. StreamFits("drain", sent[g], composed[g] + 1, Len(sheets[g]), gone[g], order[g].idle)
    BY <1>1, <1>2, <2>1, StreamDrains
  <2> QED BY <1>1, <1>3, <1>5, <2>2 DEF StreamFollows
<1>10. StagesFollow(g)'
  BY <1>1, <1>3 DEF OrderFollows, StagesFollow, StagesFit, SelectionSteps
<1>11. SheetsFollow(g)'
  BY <1>1, <1>3, SheetsRest DEF OrderFollows
<1> QED BY <1>1, <1>7, <1>8, <1>9, <1>10, <1>11 DEF Continues, OrderFollows

\* The last word of a request that ends well.
LEMMA FinishContinues ==
    ASSUME OrderTypes, NEW g \in Orders, OrderFollows(g), Finish(g) PROVE Continues(g)
<1>0. "done" \in Steps
  BY DEF Steps, Over
<1>1. /\ step[g] = "compose" /\ order' = order /\ Goto(g, "done")
      /\ composed[g] = Len(sheets[g]) /\ Send(g, Line("done", Len(sheets[g])))
      /\ told' = told /\ billed' = billed /\ answer' = answer /\ picked' = picked
      /\ payload' = payload /\ sheets' = sheets /\ composed' = composed
      /\ gone' = gone /\ open' = open
  BY DEF Finish, outcome, calls, batch
<1>2. /\ composed[g] \in Nat /\ sent[g] \in Seq(Lines) /\ gone[g] \in BOOLEAN
  BY DEF OrderTypes
<1>3. Line("done", Len(sheets[g])) \in Lines
  BY <1>1, <1>2, LineIsOne
<1>4. /\ sent' \in [Orders -> Seq(Lines)] /\ \A h \in Orders \ {g} : sent'[h] = sent[h]
      /\ sent'[g] = IF gone[g] THEN sent[g] ELSE Append(sent[g], Line("done", Len(sheets[g])))
  BY <1>1, <1>3, SendAppends
<1>5. step'[g] = "done"
  BY <1>0, <1>1, GotoMoves
<1>6. OrderTypes' /\ Elsewhere(g)
  BY <1>0, <1>1, <1>4, QuietTypes DEF OrderTypes
<1>7. CallsFollow(g)'
  BY <1>1, <1>5, CallsRest DEF OrderFollows, SelectionSteps, Unwritten, Early
<1>8. StreamFollows(g)'
  <2>1. StreamFits("compose", sent[g], composed[g], composed[g], gone[g], order[g].idle)
    BY <1>1 DEF OrderFollows, StreamFollows
  <2>2. StreamFits("done", sent'[g], composed[g], composed[g], gone[g], order[g].idle)
    BY <1>1, <1>2, <1>4, <2>1, StreamFinishes
  <2> QED BY <1>1, <1>5, <2>2 DEF StreamFollows
<1>9. StagesFollow(g)'
  BY <1>1, <1>5 DEF OrderFollows, StagesFollow, StagesFit, SelectionSteps
<1>10. SheetsFollow(g)'
  BY <1>1, <1>5, SheetsRest DEF OrderFollows
<1> QED BY <1>1, <1>6, <1>7, <1>8, <1>9, <1>10 DEF Continues, OrderFollows

\* The last word of one that was given up.
LEMMA EndWithErrorContinues ==
    ASSUME OrderTypes, NEW g \in Orders, OrderFollows(g), EndWithError(g) PROVE Continues(g)
<1>0. "failed" \in Steps /\ Line("error", 0) \in Lines
  BY LineIsOne DEF Steps, Over
<1>1. /\ step[g] \in {"refused", "drain"} /\ order' = order /\ Goto(g, "failed")
      /\ Send(g, Line("error", 0)) /\ open' = [open EXCEPT ![g] = @ \ Tracked]
      /\ told' = told /\ billed' = billed /\ answer' = answer /\ picked' = picked
      /\ payload' = payload /\ sheets' = sheets /\ composed' = composed /\ gone' = gone
  BY DEF EndWithError, outcome, calls, batch
<1>2. /\ sent[g] \in Seq(Lines) /\ gone[g] \in BOOLEAN /\ open[g] \subseteq Stages
  BY DEF OrderTypes
<1>4. /\ sent' \in [Orders -> Seq(Lines)] /\ \A h \in Orders \ {g} : sent'[h] = sent[h]
      /\ sent'[g] = IF gone[g] THEN sent[g] ELSE Append(sent[g], Line("error", 0))
  BY <1>0, <1>1, SendAppends
<1>5. step'[g] = "failed"
  BY <1>0, <1>1, GotoMoves
<1>6. /\ open' \in [Orders -> SUBSET Stages] /\ open'[g] = open[g] \ Tracked
      /\ \A h \in Orders \ {g} : open'[h] = open[h]
  BY <1>1 DEF OrderTypes
<1>7. OrderTypes' /\ Elsewhere(g)
  BY <1>0, <1>1, <1>4, <1>6, QuietTypes DEF OrderTypes
<1>8. CallsFollow(g)'
  BY <1>1, <1>5, CallsRest DEF OrderFollows, SelectionSteps, Unwritten, Early
<1>9. StreamFollows(g)'
  <2>1. StreamFits(step[g], sent[g], composed[g], Len(sheets[g]), gone[g], order[g].idle)
    BY DEF OrderFollows, StreamFollows
  <2>2. StreamFits("failed", sent'[g], composed[g], Len(sheets[g]), gone[g], order[g].idle)
    BY <1>1, <1>2, <1>4, <2>1, StreamFails
  <2> QED BY <1>1, <1>5, <2>2 DEF StreamFollows
<1>10. StagesFollow(g)'
  <2>1. "LLM_REQUEST" \in open[g] => told[g]["content"] = <<>>
    BY <1>1 DEF OrderFollows, StagesFollow, StagesFit
  <2>2. open'[g] \subseteq {"LLM_REQUEST"} /\ open'[g] \subseteq open[g]
    BY <1>2, <1>6 DEF Tracked
  <2> QED BY <1>1, <1>5, <2>1, <2>2 DEF StagesFollow, StagesFit, SelectionSteps
<1>11. SheetsFollow(g)'
  BY <1>1, <1>5, SheetsRest DEF OrderFollows, Making
<1> QED BY <1>1, <1>7, <1>8, <1>9, <1>10, <1>11 DEF Continues, OrderFollows

\* The client leaves.
LEMMA ClientLeavesContinues ==
    ASSUME OrderTypes, NEW g \in Orders, OrderFollows(g), ClientLeaves(g) PROVE Continues(g)
<1>1. /\ order' = order /\ gone' = [gone EXCEPT ![g] = TRUE]
      /\ told' = told /\ billed' = billed /\ answer' = answer /\ picked' = picked
      /\ payload' = payload /\ sheets' = sheets /\ composed' = composed
      /\ step' = step /\ open' = open /\ sent' = sent
  BY DEF ClientLeaves, sheetSelectionVars, outcome, calls, batch
<1>2. /\ gone' \in [Orders -> BOOLEAN] /\ gone'[g] = TRUE
      /\ \A h \in Orders \ {g} : gone'[h] = gone[h]
  BY <1>1 DEF OrderTypes
<1>3. OrderTypes' /\ Elsewhere(g)
  BY <1>1, <1>2 DEF OrderTypes, Elsewhere, Untouched
<1>4. CallsFollow(g)' /\ StagesFollow(g)'
  BY <1>1 DEF OrderFollows, CallsFollow, StagesFollow
<1>5. StreamFollows(g)'
  BY <1>1, <1>2, StreamIsLeft DEF OrderFollows, StreamFollows
<1>6. SheetsFollow(g)'
  <2>1. SchemaOf(g)' = SchemaOf(g) /\ Count(g)' = Count(g)
    BY <1>1 DEF SchemaOf, Count
  <2>2. \A t : AnswerFits(g, t)' <=> AnswerFits(g, t)
    BY <2>1 DEF AnswerFits
  <2> QED BY <1>1, <2>1, <2>2 DEF OrderFollows, SheetsFollow
<1> QED BY <1>1, <1>3, <1>4, <1>5, <1>6 DEF Continues, OrderFollows

---------------------------------------------------------------------------
(* The call for a flashcard template. *)

\* Nothing of a selection's call has changed.
Uncalled(r) ==
    at'[r] = at[r] /\ reports'[r] = reports[r] /\ rows'[r] = rows[r] /\ verdict'[r] = verdict[r]
\* What a step of a selection has to keep.
CallContinues(s) ==
    CallTypes' /\ FlashCallFollows(s)' /\ \A r \in Selections \ {s} : Uncalled(r)

\* A selection moves on.
LEMMA MoveMoves ==
    ASSUME CallTypes, NEW s \in Selections, NEW place \in Places, Move(s, place)
    PROVE  /\ at' \in [Selections -> Places] /\ at'[s] = place
           /\ \A r \in Selections \ {s} : at'[r] = at[r]
BY DEF CallTypes, Move
\* The breaker is told.
LEMMA TellTells ==
    ASSUME CallTypes, NEW s \in Selections, NEW good \in BOOLEAN, Tell(s, good)
    PROVE  /\ reports' \in [Selections -> Seq(BOOLEAN)]
           /\ reports'[s] = Append(reports[s], good)
           /\ \A r \in Selections \ {s} : reports'[r] = reports[r]
BY DEF CallTypes, Tell
\* A row is written.
LEMMA RowIsWritten ==
    ASSUME CallTypes, NEW s \in Selections, NEW good \in BOOLEAN,
           rows' = [rows EXCEPT ![s] = Append(@, good)]
    PROVE  /\ rows' \in [Selections -> Seq(BOOLEAN)]
           /\ rows'[s] = Append(rows[s], good)
           /\ \A r \in Selections \ {s} : rows'[r] = rows[r]
BY DEF CallTypes
\* A verdict is noted.
LEMMA VerdictIsNoted ==
    ASSUME CallTypes, NEW s \in Selections, NEW kind, NEW pick,
           verdict' = [verdict EXCEPT ![s] = [kind |-> kind, pick |-> pick]]
    PROVE  /\ DOMAIN verdict' = Selections /\ verdict'[s].kind = kind
           /\ \A r \in Selections \ {s} : verdict'[r] = verdict[r]
BY DEF CallTypes

\* A step that is neither the call nor its row.
LEMMA CallWaits ==
    ASSUME CallTypes, NEW s \in Selections, FlashCallFollows(s), NEW place \in Places,
           Move(s, place), UNCHANGED <<verdict, rows, reports>>,
           \/ Counterpart(at[s]) = "ask" /\ Counterpart(place) \in {"ask", "picked"}
           \/ Counterpart(at[s]) = "picked" /\ Counterpart(place) = "picked"
    PROVE  CallContinues(s)
<1>1. /\ at' \in [Selections -> Places] /\ at'[s] = place
      /\ \A r \in Selections \ {s} : at'[r] = at[r]
  BY MoveMoves
<1>2. SelectFits(Counterpart(at[s]), reports[s], rows[s], verdict[s].kind)
  BY DEF FlashCallFollows
<1>3. SelectFits(Counterpart(place), reports[s], rows[s], verdict[s].kind)
  <2>1. "ask" \in Unasked /\ "picked" \notin SelectionSteps \cup {"validate"}
    BY DEF Unasked, SelectionSteps
  <2> QED BY <1>2, <2>1, SelectWaits, SelectRests
<1>4. FlashCallFollows(s)'
  BY <1>1, <1>3 DEF FlashCallFollows
<1> QED BY <1>1, <1>4 DEF CallContinues, CallTypes, Uncalled
\* The call or its row fails.
LEMMA CallErrs ==
    ASSUME CallTypes, NEW s \in Selections, FlashCallFollows(s), at[s] \in {"call", "row"},
           Failure(s)
    PROVE  CallContinues(s)
<1>1. /\ at' \in [Selections -> Places] /\ at'[s] = "catch"
      /\ \A r \in Selections \ {s} : at'[r] = at[r]
  BY MoveMoves DEF Failure, Places
<1>2. /\ reports' \in [Selections -> Seq(BOOLEAN)] /\ reports'[s] = Append(reports[s], FALSE)
      /\ \A r \in Selections \ {s} : reports'[r] = reports[r]
  <2>1. FALSE \in BOOLEAN
    OBVIOUS
  <2> QED BY <2>1, TellTells DEF Failure
<1>3. /\ DOMAIN verdict' = Selections /\ verdict'[s].kind = "error"
      /\ \A r \in Selections \ {s} : verdict'[r] = verdict[r]
  BY VerdictIsNoted DEF Failure
<1>4. rows' = rows
  BY DEF Failure
<1>5. FlashCallFollows(s)'
  <2>1. Counterpart(at[s]) \in {"ask", "askRow"} /\ Counterpart("catch") = "askCatch"
    BY DEF Counterpart
  <2>2. SelectFits(Counterpart(at[s]), reports[s], rows[s], verdict[s].kind)
    BY DEF FlashCallFollows
  <2>3. reports[s] \in Seq(BOOLEAN)
    BY DEF CallTypes
  <2>4. SelectFits("askCatch", Append(reports[s], FALSE), rows[s], "error")
    BY <2>1, <2>2, <2>3, SelectErrs
  <2> QED BY <1>1, <1>2, <1>3, <1>4, <2>1, <2>4 DEF FlashCallFollows
<1> QED BY <1>1, <1>2, <1>3, <1>4, <1>5 DEF CallContinues, CallTypes, Uncalled

\* Every step of a selection.
LEMMA SelectionContinues ==
    ASSUME CallTypes, NEW s \in Selections, FlashCallFollows(s), SelectionStep(s)
    PROVE  CallContinues(s)
<1>0. /\ Places = {"read", "rank", "ai", "snapshot", "build", "store", "call", "row",
                   "catch", "load", "done", "failed"}
      /\ TRUE \in BOOLEAN /\ FALSE \in BOOLEAN
  BY DEF Places
<1>m. SelectFits(Counterpart(at[s]), reports[s], rows[s], verdict[s].kind)
  BY DEF FlashCallFollows
<1>1. CASE ReadRules(s)
  <2>1. PICK place \in {"rank", "read"} : Move(s, place)
    BY <1>1 DEF ReadRules
  <2>2. at[s] \in {"read"} /\ UNCHANGED <<verdict, rows, reports>>
    BY <1>1 DEF ReadRules, progress, account
  <2>3. Counterpart(at[s]) = "ask" /\ Counterpart(place) \in {"ask", "picked"}
    BY <2>1, <2>2 DEF Counterpart
  <2> QED BY <1>0, <2>1, <2>2, <2>3, CallWaits
<1>2. CASE ReadTemplates(s)
  <2>1. PICK place \in {"rank", "read"} : Move(s, place)
    BY <1>2 DEF ReadTemplates
  <2>2. at[s] \in {"read"} /\ UNCHANGED <<verdict, rows, reports>>
    BY <1>2 DEF ReadTemplates, progress, account
  <2>3. Counterpart(at[s]) = "ask" /\ Counterpart(place) \in {"ask", "picked"}
    BY <2>1, <2>2 DEF Counterpart
  <2> QED BY <1>0, <2>1, <2>2, <2>3, CallWaits
<1>3. CASE Rank(s)
  <2>1. PICK place \in {"ai", "failed"} : Move(s, place)
    BY <1>3 DEF Rank
  <2>2. at[s] \in {"rank"} /\ UNCHANGED <<verdict, rows, reports>>
    BY <1>3 DEF Rank, progress, account
  <2>3. Counterpart(at[s]) = "ask" /\ Counterpart(place) \in {"ask", "picked"}
    BY <2>1, <2>2 DEF Counterpart
  <2> QED BY <1>0, <2>1, <2>2, <2>3, CallWaits
<1>4. CASE AskAi(s)
  <2>1. PICK place \in {"load", "snapshot"} : Move(s, place)
    BY <1>4 DEF AskAi
  <2>2. at[s] \in {"ai"} /\ UNCHANGED <<verdict, rows, reports>>
    BY <1>4 DEF AskAi, progress, account
  <2>3. Counterpart(at[s]) = "ask" /\ Counterpart(place) \in {"ask", "picked"}
    BY <2>1, <2>2 DEF Counterpart
  <2> QED BY <1>0, <2>1, <2>2, <2>3, CallWaits
<1>5. CASE TakeSnapshot(s)
  <2>1. PICK place \in {"call", "build"} : Move(s, place)
    BY <1>5 DEF TakeSnapshot
  <2>2. at[s] \in {"snapshot"} /\ UNCHANGED <<verdict, rows, reports>>
    BY <1>5 DEF TakeSnapshot, progress, account
  <2>3. Counterpart(at[s]) = "ask" /\ Counterpart(place) \in {"ask", "picked"}
    BY <2>1, <2>2 DEF Counterpart
  <2> QED BY <1>0, <2>1, <2>2, <2>3, CallWaits
<1>6. CASE BuildSnapshot(s)
  <2>1. PICK place \in {"store"} : Move(s, place)
    BY <1>6 DEF BuildSnapshot
  <2>2. at[s] \in {"build"} /\ UNCHANGED <<verdict, rows, reports>>
    BY <1>6 DEF BuildSnapshot, progress, account
  <2>3. Counterpart(at[s]) = "ask" /\ Counterpart(place) \in {"ask", "picked"}
    BY <2>1, <2>2 DEF Counterpart
  <2> QED BY <1>0, <2>1, <2>2, <2>3, CallWaits
<1>7. CASE BuildFails(s)
  <2>1. PICK place \in {"failed"} : Move(s, place)
    BY <1>7 DEF BuildFails
  <2>2. at[s] \in {"build"} /\ UNCHANGED <<verdict, rows, reports>>
    BY <1>7 DEF BuildFails, progress, account
  <2>3. Counterpart(at[s]) = "ask" /\ Counterpart(place) \in {"ask", "picked"}
    BY <2>1, <2>2 DEF Counterpart
  <2> QED BY <1>0, <2>1, <2>2, <2>3, CallWaits
<1>8. CASE StoreSnapshot(s)
  <2>1. PICK place \in {"call"} : Move(s, place)
    BY <1>8 DEF StoreSnapshot
  <2>2. at[s] \in {"store"} /\ UNCHANGED <<verdict, rows, reports>>
    BY <1>8 DEF StoreSnapshot, progress, account
  <2>3. Counterpart(at[s]) = "ask" /\ Counterpart(place) \in {"ask", "picked"}
    BY <2>1, <2>2 DEF Counterpart
  <2> QED BY <1>0, <2>1, <2>2, <2>3, CallWaits
<1>9. CASE ModelAnswers(s)
  <2>1. at[s] = "call" /\ Move(s, "row") /\ rows' = rows
    BY <1>9 DEF ModelAnswers
  <2>2. PICK pick \in DOMAIN Catalog \cup {NoTemplate}, sure \in BOOLEAN :
            LET kind == Judged(s, pick, sure)
            IN  /\ verdict' = [verdict EXCEPT ![s] =
                       [kind |-> kind, pick |-> IF kind = "ok" THEN pick ELSE NoTemplate]]
                /\ IF kind = "ok" THEN Tell(s, TRUE) ELSE UNCHANGED <<breaker, reports>>
    BY <1>9 DEF ModelAnswers
  <2>3. PICK kind : kind = Judged(s, pick, sure)
    OBVIOUS
  <2>4. kind # "error"
    BY <2>3 DEF Judged
  <2>5. /\ DOMAIN verdict' = Selections /\ verdict'[s].kind = kind
        /\ \A r \in Selections \ {s} : verdict'[r] = verdict[r]
    BY <2>2, <2>3, VerdictIsNoted
  <2>6. /\ reports' \in [Selections -> Seq(BOOLEAN)]
        /\ reports'[s] = IF kind = "ok" THEN Append(reports[s], TRUE) ELSE reports[s]
        /\ \A r \in Selections \ {s} : reports'[r] = reports[r]
    <3>1. CASE kind = "ok"
      BY <1>0, <2>2, <2>3, <3>1, TellTells
    <3>2. CASE kind # "ok"
      BY <2>2, <2>3, <3>2 DEF CallTypes
    <3> QED BY <3>1, <3>2
  <2>7. /\ at' \in [Selections -> Places] /\ at'[s] = "row"
        /\ \A r \in Selections \ {s} : at'[r] = at[r]
    BY <1>0, <2>1, MoveMoves
  <2>8. Counterpart(at[s]) = "ask" /\ Counterpart("row") = "askRow"
    BY <2>1 DEF Counterpart
  <2>9. SelectFits("askRow", reports'[s], rows[s], kind)
    BY <1>m, <2>4, <2>6, <2>8, SelectTells
  <2>10. FlashCallFollows(s)'
    BY <2>1, <2>5, <2>7, <2>8, <2>9 DEF FlashCallFollows
  <2> QED BY <2>1, <2>5, <2>6, <2>7, <2>10 DEF CallContinues, CallTypes, Uncalled
<1>10. CASE CallFails(s)
  BY <1>10, CallErrs DEF CallFails
<1>11. CASE WriteRow(s)
  <2> DEFINE k == verdict[s].kind
  <2>1. at[s] = "row" /\ Move(s, "load") /\ verdict' = verdict
    BY <1>11 DEF WriteRow
  <2>2. /\ rows' = [rows EXCEPT ![s] = Append(@, k = "ok")]
        /\ IF k = "ok" THEN reports' = reports ELSE Tell(s, k = "low_confidence")
    BY <1>11 DEF WriteRow
  <2>3. /\ at' \in [Selections -> Places] /\ at'[s] = "load"
        /\ \A r \in Selections \ {s} : at'[r] = at[r]
    BY <1>0, <2>1, MoveMoves
  <2>4. Counterpart(at[s]) = "askRow" /\ Counterpart("load") = "picked"
    BY <2>1 DEF Counterpart
  <2>5. SelectFits("askRow", reports[s], rows[s], k)
    BY <1>m, <2>4
  <2>6. CASE k = "ok"
    <3>1. (k = "ok") = TRUE
      BY <2>6
    <3>2. rows' = [rows EXCEPT ![s] = Append(@, TRUE)] /\ reports' = reports
      BY <2>2, <2>6, <3>1
    <3> HIDE DEF k
    <3>3. SelectFits("picked", reports[s], Append(rows[s], TRUE), k)
      BY <2>5, <2>6, SelectRecords
    <3>4. FlashCallFollows(s)'
      BY <1>0, <2>1, <2>3, <2>4, <3>2, <3>3, RowIsWritten DEF FlashCallFollows, k
    <3>5. rows' \in [Selections -> Seq(BOOLEAN)] /\ \A r \in Selections \ {s} : rows'[r] = rows[r]
      BY <1>0, <3>2, RowIsWritten
    <3> QED BY <2>1, <2>3, <3>2, <3>4, <3>5 DEF CallContinues, CallTypes, Uncalled
  <2>7. CASE k # "ok"
    <3>1. PICK good \in BOOLEAN : good <=> k = "low_confidence"
      OBVIOUS
    <3>2. (k = "ok") = FALSE /\ (k = "low_confidence") = good
      BY <2>7, <3>1
    <3>3. rows' = [rows EXCEPT ![s] = Append(@, FALSE)] /\ Tell(s, good)
      BY <2>2, <2>7, <3>2
    <3> HIDE DEF k
    <3>4. SelectFits("picked", Append(reports[s], good), Append(rows[s], FALSE), k)
      <4>1. CASE good = TRUE
        BY <2>5, <3>1, <4>1, SelectRecords
      <4>2. CASE good = FALSE
        BY <2>5, <2>7, <3>1, <4>2, SelectRecords
      <4> QED BY <4>1, <4>2
    <3>5. /\ rows' \in [Selections -> Seq(BOOLEAN)] /\ rows'[s] = Append(rows[s], FALSE)
          /\ \A r \in Selections \ {s} : rows'[r] = rows[r]
      BY <1>0, <3>3, RowIsWritten
    <3>6. /\ reports' \in [Selections -> Seq(BOOLEAN)] /\ reports'[s] = Append(reports[s], good)
          /\ \A r \in Selections \ {s} : reports'[r] = reports[r]
      BY <3>3, TellTells
    <3>7. FlashCallFollows(s)'
      BY <2>1, <2>3, <2>4, <3>4, <3>5, <3>6 DEF FlashCallFollows, k
    <3> QED BY <2>1, <2>3, <3>5, <3>6, <3>7 DEF CallContinues, CallTypes, Uncalled
  <2> QED BY <2>6, <2>7
<1>12. CASE RowFails(s)
  BY <1>12, CallErrs DEF RowFails
<1>13. CASE CatchRow(s)
  <2>1. at[s] = "catch" /\ verdict' = verdict /\ reports' = reports
    BY <1>13 DEF CatchRow, progress
  <2>2. Counterpart(at[s]) = "askCatch" /\ Counterpart("load") = "picked" /\ Counterpart("failed") = "picked"
    BY <2>1 DEF Counterpart
  <2>3. /\ SelectFits("picked", reports[s], Append(rows[s], FALSE), verdict[s].kind)
        /\ SelectFits("refused", reports[s], rows[s], verdict[s].kind)
    BY <1>m, <2>2, SelectWrites
  <2>4. SelectFits("picked", reports[s], rows[s], verdict[s].kind)
    BY <2>3, SelectRests DEF SelectionSteps
  <2>5. CASE Move(s, "load") /\ rows' = [rows EXCEPT ![s] = Append(@, FALSE)]
    <3>1. /\ at' \in [Selections -> Places] /\ at'[s] = "load"
          /\ \A r \in Selections \ {s} : at'[r] = at[r]
      BY <1>0, <2>5, MoveMoves
    <3>2. /\ rows' \in [Selections -> Seq(BOOLEAN)] /\ rows'[s] = Append(rows[s], FALSE)
          /\ \A r \in Selections \ {s} : rows'[r] = rows[r]
      BY <1>0, <2>5, RowIsWritten
    <3>3. FlashCallFollows(s)'
      BY <2>1, <2>2, <2>3, <3>1, <3>2 DEF FlashCallFollows
    <3> QED BY <2>1, <3>1, <3>2, <3>3 DEF CallContinues, CallTypes, Uncalled
  <2>6. CASE Move(s, "failed") /\ rows' = rows
    <3>1. /\ at' \in [Selections -> Places] /\ at'[s] = "failed"
          /\ \A r \in Selections \ {s} : at'[r] = at[r]
      BY <1>0, <2>6, MoveMoves
    <3>2. FlashCallFollows(s)'
      BY <2>1, <2>2, <2>4, <2>6, <3>1 DEF FlashCallFollows
    <3> QED BY <2>1, <2>6, <3>1, <3>2 DEF CallContinues, CallTypes, Uncalled
  <2> QED BY <1>13, <2>5, <2>6 DEF CatchRow
<1>14. CASE Load(s)
  <2>1. PICK place \in {"done", "failed"} : Move(s, place)
    BY <1>14 DEF Load
  <2>2. at[s] \in {"load"} /\ UNCHANGED <<verdict, rows, reports>>
    BY <1>14 DEF Load, progress, account
  <2>3. Counterpart(at[s]) = "picked" /\ Counterpart(place) = "picked"
    BY <2>1, <2>2 DEF Counterpart
  <2> QED BY <1>0, <2>1, <2>2, <2>3, CallWaits
<1>15. CASE SelectionFails(s)
  <2>1. PICK place \in {"failed"} : Move(s, place)
    BY <1>15 DEF SelectionFails
  <2>2. at[s] \in {"read", "load"} /\ UNCHANGED <<verdict, rows, reports>>
    BY <1>15 DEF SelectionFails, progress, account
  <2>3. Counterpart(at[s]) \in {"ask", "picked"} /\ Counterpart(place) = "picked"
    BY <2>1, <2>2 DEF Counterpart
  <2> QED BY <1>0, <2>1, <2>2, <2>3, CallWaits
<1> QED BY <1>1, <1>2, <1>3, <1>4, <1>5, <1>6, <1>7, <1>8, <1>9, <1>10, <1>11, <1>12, <1>13, <1>14, <1>15
        DEF SelectionStep

---------------------------------------------------------------------------
(* Every step of both generators. *)

\* What the model answered with is a structure.
LEMMA PayloadsAreTrees ==
    ASSUME NEW t \in Payloads \cup {Unreadable} PROVE IsTree(t)
<1>1. ASSUME t = Unreadable PROVE IsTree(t)
  BY <1>1, LeafHangs, Zenon DEF Unreadable
<1> QED BY <1>1, GenerationAssumption
\* So it can be read.
LEMMA PayloadsAreAnswerable ==
    ASSUME NEW t \in Payloads \cup {Unreadable} PROVE Answerable(t)
<1>1. Hangs(t)
  BY PayloadsAreTrees, Zenon DEF IsTree
<1>2. DOMAIN t \subseteq Seq(STRING) /\ IsFiniteSet(DOMAIN t)
  BY <1>1, Zenon DEF Hangs
<1> QED BY <1>2, SequenceIsPath DEF Answerable, Paths

\* A step of a request keeps what is true of it.
LEMMA RequestContinues ==
    ASSUME AskedFor, OrderTypes, NEW g \in Orders, OrderFollows(g),
           GenerationStep(g) \/ ClientLeaves(g)
    PROVE  Continues(g)
<1>1. CASE CheckRequest(g) \/ StartContent(g) \/ RequestContent(g) \/ ContentAnswers(g)
  BY <1>1, CheckRequestContinues, StartContentContinues, RequestContentContinues,
     ContentAnswersContinues
<1>2. CASE SheetSelectionStep(g) /\ UNCHANGED <<batch, open, stream>>
  BY <1>2, ChoiceContinues
<1>3. CASE ReadContent(g)
  <2>1. Answerable(payload[g])
    BY PayloadsAreAnswerable DEF OrderFollows, SheetsFollow
  <2> QED BY <1>3, <2>1, ReadContentContinues
<1>4. CASE ContentFails(g) \/ ContentCatch(g) \/ SearchPictures(g) \/ SearchFails(g)
  BY <1>4, ContentFailsContinues, ContentCatchContinues, SearchPicturesContinues,
     SearchFailsContinues
<1>5. CASE Compose(g) \/ ComposeThrows(g) \/ Finish(g) \/ EndWithError(g) \/ ClientLeaves(g)
  BY <1>5, ComposeContinues, ComposeThrowsContinues, FinishContinues, EndWithErrorContinues,
     ClientLeavesContinues
<1> QED BY <1>1, <1>2, <1>3, <1>4, <1>5 DEF GenerationStep

\* Every request is left alone.
OrdersRest ==
    /\ order' = order /\ step' = step /\ told' = told /\ billed' = billed
    /\ answer' = answer /\ picked' = picked /\ payload' = payload /\ sent' = sent
    /\ gone' = gone /\ open' = open /\ composed' = composed /\ sheets' = sheets
\* Requests that are left alone stay as they were.
LEMMA RestingOrdersFollow ==
    ASSUME AskedFor, OrderTypes, OrdersFollow, OrdersRest
    PROVE  AskedFor' /\ OrderTypes' /\ OrdersFollow'
<1>1. AskedFor' /\ OrderTypes'
  BY DEF OrdersRest, AskedFor, OrderTypes
<1>2. ASSUME NEW h \in Orders PROVE OrderFollows(h)'
  BY <1>2, UntouchedFollows DEF OrdersRest, Untouched, OrdersFollow
<1> QED BY <1>1, <1>2 DEF OrdersFollow

\* The selections are left alone.
LEMMA RestingCallsFollow ==
    ASSUME CallTypes, FlashCallsFollow, UNCHANGED <<at, rows, reports, verdict>>
    PROVE  CallTypes' /\ FlashCallsFollow'
BY DEF CallTypes, FlashCallsFollow, FlashCallFollows

\* The catalogue changes without them.
LEMMA CatalogLeavesCalls ==
    ASSUME CatalogStep PROVE UNCHANGED <<at, rows, reports, verdict>>
BY DEF CatalogStep, CreateTemplate, Invalidate, SnapshotExpires, Withdraw, progress, account

\* A step of a request.
LEMMA SheetStepKeeps ==
    ASSUME AskedFor, OrderTypes, OrdersFollow, SheetStep
    PROVE  AskedFor' /\ OrderTypes' /\ OrdersFollow'
<1>1. CASE \E g \in Orders : GenerationStep(g) \/ ClientLeaves(g)
  <2>1. PICK g \in Orders : GenerationStep(g) \/ ClientLeaves(g)
    BY <1>1
  <2>2. Continues(g)
    BY <2>1, RequestContinues DEF OrdersFollow
  <2>3. ASSUME NEW h \in Orders \ {g} PROVE OrderFollows(h)'
    BY <2>2, <2>3, UntouchedFollows DEF Continues, Elsewhere, OrdersFollow
  <2> QED BY <2>2, <2>3 DEF Continues, OrdersFollow, AskedFor
<1>2. CASE \E t \in library : Retire(t) /\ UNCHANGED <<batch, open, stream>>
  <2>1. OrdersRest
    BY <1>2 DEF Retire, OrdersRest, outcome, calls, batch, stream
  <2> QED BY <2>1, RestingOrdersFollow
<1> QED BY <1>1, <1>2 DEF SheetStep

\* What holds at first.
LEMMA FirstInv == Init => CInv
<1> SUFFICES ASSUME Init PROVE CInv
  OBVIOUS
<1>1. SelectionInit /\ SheetInit
  BY DEF Init
<1>2. AskedFor
  BY ScenarioAssumption DEF Init, AskedFor
<1>3. /\ step \in [Orders -> {"done", "validate"}]
      /\ \A g \in Orders :
            /\ step[g] = IF order[g].idle THEN "done" ELSE "validate"
            /\ answer[g] = NoAnswer /\ payload[g] = Unreadable /\ sheets[g] = <<>>
            /\ told[g] = [c \in Calls |-> <<>>] /\ billed[g] = [c \in Calls |-> <<>>]
            /\ sent[g] = <<>> /\ gone[g] = FALSE /\ open[g] = {} /\ composed[g] = 0
  BY <1>1 DEF SheetInit
<1>4. OrderTypes
  <2>1. {"done", "validate"} \subseteq Steps /\ <<>> \in Seq(BOOLEAN) /\ <<>> \in Seq(Lines)
    BY DEF Steps, Early, Over
  <2>2. told = [g \in Orders |-> [c \in Calls |-> <<>>]] /\ billed = told
    BY <1>1 DEF SheetInit
  <2>3. told \in [Orders -> [Calls -> Seq(BOOLEAN)]] /\ billed \in [Orders -> [Calls -> Seq(BOOLEAN)]]
    BY <2>1, <2>2
  <2>4. NoAnswer \in [kind : SheetKinds, pick : DOMAIN Library \cup {None}]
    BY DEF NoAnswer, SheetKinds
  <2>5. /\ answer \in [Orders -> [kind : SheetKinds, pick : DOMAIN Library \cup {None}]]
        /\ sent \in [Orders -> Seq(Lines)] /\ gone \in [Orders -> BOOLEAN]
        /\ open \in [Orders -> SUBSET Stages] /\ composed \in [Orders -> Nat]
        /\ DOMAIN sheets = Orders /\ DOMAIN payload = Orders /\ DOMAIN picked = Orders
    BY <1>1, <2>1, <2>4 DEF SheetInit
  <2>6. Len(<<>>) = 0 /\ DOMAIN <<>> = 1..0
    OBVIOUS
  <2> QED BY <1>3, <2>1, <2>3, <2>5, <2>6 DEF OrderTypes
<1>5. ASSUME NEW g \in Orders PROVE OrderFollows(g)
  <2>1. /\ told[g]["classify"] = <<>> /\ told[g]["select"] = <<>> /\ told[g]["content"] = <<>>
        /\ billed[g]["classify"] = <<>> /\ billed[g]["select"] = <<>> /\ billed[g]["content"] = <<>>
    BY <1>3 DEF Calls
  <2>2. answer[g].kind = "none"
    BY <1>3 DEF NoAnswer
  <2>3. step[g] \in {"done", "validate"} /\ (step[g] = "done" => order[g].idle)
    BY <1>3
  <2>4. ClassifyFits(step[g], <<>>, <<>>)
    BY <2>3, NothingNoted DEF ClassifyFits, Unclassified, Classifying
  <2>5. SelectFits("validate", <<>>, <<>>, "none")
    BY DEF SelectFits, Unasked
  <2>6. SelectFits(step[g], <<>>, <<>>, "none")
    <3>1. "validate" \in Unasked /\ step[g] \notin {"askRow", "askCatch"}
      BY <2>3 DEF Unasked
    <3> QED BY <2>5, <3>1, SelectWaits
  <2>7. ContentFits(step[g], <<>>, <<>>)
    BY <2>3, NothingNoted DEF ContentFits, Unwritten
  <2>8. CallsFollow(g)
    BY <2>1, <2>2, <2>4, <2>6, <2>7 DEF CallsFollow
  <2>9. StreamFollows(g)
    <3>1. sent[g] = <<>> /\ composed[g] = 0 /\ DOMAIN sent[g] = {}
      BY <1>3
    <3>2. step[g] \notin Asking \cup Making \cup {"compose", "failed"}
      BY <2>3 DEF Asking, Making
    <3> QED BY <2>3, <3>1, <3>2 DEF StreamFollows, StreamFits
  <2>10. StagesFollow(g)
    BY <1>3, <2>3 DEF StagesFollow, StagesFit, SelectionSteps
  <2>11. SheetsFollow(g)
    <3>1. DOMAIN sheets[g] = {}
      BY <1>3
    <3>2. step[g] \notin Making
      BY <2>3 DEF Making
    <3> QED BY <1>3, <2>3, <3>1, <3>2 DEF SheetsFollow
  <2> QED BY <2>8, <2>9, <2>10, <2>11 DEF OrderFollows
<1>6. /\ at \in [Selections -> {"done", "load", "read"}] /\ DOMAIN verdict = Selections
      /\ rows = [s \in Selections |-> <<>>] /\ reports = rows
      /\ \A s \in Selections : verdict[s].kind = "none"
  BY <1>1 DEF SelectionInit
<1>7. CallTypes
  <2>1. <<>> \in Seq(BOOLEAN)
    OBVIOUS
  <2> QED BY <1>6, <2>1 DEF CallTypes, Places
<1>8. ASSUME NEW s \in Selections PROVE FlashCallFollows(s)
  <2>1. SelectFits("validate", <<>>, <<>>, "none")
    BY DEF SelectFits, Unasked
  <2>2. Counterpart(at[s]) \in {"ask", "picked"}
    BY <1>6 DEF Counterpart
  <2>3. SelectFits(Counterpart(at[s]), <<>>, <<>>, "none")
    <3>1. "validate" \in Unasked
      BY DEF Unasked
    <3> QED BY <2>1, <2>2, <3>1, SelectWaits
  <2> QED BY <1>6, <2>3 DEF FlashCallFollows
<1> QED BY <1>2, <1>4, <1>5, <1>7, <1>8 DEF CInv, OrdersFollow, FlashCallsFollow

\* Every step keeps it.
LEMMA NextInv == CInv /\ [Next]_vars => CInv'
<1> SUFFICES ASSUME CInv, [Next]_vars PROVE CInv'
  OBVIOUS
<1>0. AskedFor /\ OrderTypes /\ OrdersFollow /\ CallTypes /\ FlashCallsFollow
  BY DEF CInv
<1>1. CASE \E s \in Selections : SelectionStep(s) /\ UNCHANGED <<sheetVars, authorVars>>
  <2>1. PICK s \in Selections : SelectionStep(s) /\ UNCHANGED <<sheetVars, authorVars>>
    BY <1>1
  <2>2. OrdersRest
    BY <2>1 DEF OrdersRest, sheetVars, sheetSelectionVars, batch, stream, outcome, calls
  <2>3. CallContinues(s)
    BY <1>0, <2>1, SelectionContinues DEF FlashCallsFollow
  <2>4. CallTypes' /\ FlashCallsFollow'
    BY <1>0, <2>3 DEF CallContinues, Uncalled, FlashCallsFollow, FlashCallFollows
  <2> QED BY <1>0, <2>2, <2>4, RestingOrdersFollow DEF CInv
<1>2. CASE CatalogStep /\ UNCHANGED <<sheetVars, authorVars>>
  <2>1. OrdersRest
    BY <1>2 DEF OrdersRest, sheetVars, sheetSelectionVars, batch, stream, outcome, calls
  <2>2. UNCHANGED <<at, rows, reports, verdict>>
    BY <1>2, CatalogLeavesCalls
  <2> QED BY <1>0, <2>1, <2>2, RestingOrdersFollow, RestingCallsFollow DEF CInv
<1>3. CASE SheetStep /\ UNCHANGED <<flashVars, authorVars>>
  <2>1. UNCHANGED <<at, rows, reports, verdict>>
    BY <1>3 DEF flashVars, selectionVars, progress, account
  <2> QED BY <1>0, <1>3, <2>1, SheetStepKeeps, RestingCallsFollow DEF CInv
<1>4. CASE \E u \in Authors : AuthorStep(u)
             /\ UNCHANGED <<flashVars, order, step, outcome, calls, batch, open, stream>>
  <2>1. OrdersRest
    BY <1>4 DEF OrdersRest, batch, stream, outcome, calls
  <2>2. UNCHANGED <<at, rows, reports, verdict>>
    BY <1>4 DEF flashVars, selectionVars, progress, account
  <2> QED BY <1>0, <2>1, <2>2, RestingOrdersFollow, RestingCallsFollow DEF CInv
<1>5. CASE FolderStep /\ UNCHANGED <<flashVars, sheetVars>>
  <2>1. OrdersRest
    BY <1>5 DEF OrdersRest, sheetVars, sheetSelectionVars, batch, stream, outcome, calls
  <2>2. UNCHANGED <<at, rows, reports, verdict>>
    BY <1>5 DEF flashVars, selectionVars, progress, account
  <2> QED BY <1>0, <2>1, <2>2, RestingOrdersFollow, RestingCallsFollow DEF CInv
<1>6. CASE UNCHANGED vars
  <2>1. OrdersRest
    BY <1>6 DEF vars, OrdersRest, sheetVars, sheetSelectionVars, batch, stream, outcome, calls
  <2>2. UNCHANGED <<at, rows, reports, verdict>>
    BY <1>6 DEF vars, selectionVars, progress, account
  <2> QED BY <1>0, <2>1, <2>2, RestingOrdersFollow, RestingCallsFollow DEF CInv
<1> QED BY <1>1, <1>2, <1>3, <1>4, <1>5, <1>6 DEF Next

\* Always: every request, and every choice of a template, is where what it has
\* told, written and sent says it is.
THEOREM RequestsAreFollowed == Spec => []CInv
BY FirstInv, NextInv, PTL DEF Spec

\* The calls of both generators are accounted for: one row at most, which says
\* whether the answer was used, and a last report that says whether it was fine.
LEMMA FollowedCallsAreAccounted == CInv => CallsAccounted
<1> SUFFICES ASSUME CInv PROVE CallsAccounted
  OBVIOUS
<1>1. ASSUME NEW s \in Selections, at[s] \in {"load", "done", "failed"}
      PROVE  Account(rows[s], reports[s], verdict[s].kind = "ok",
                     verdict[s].kind \in {"ok", "low_confidence"})
  <2>1. Counterpart(at[s]) = "picked"
    BY <1>1 DEF Counterpart
  <2>2. SelectFits("picked", reports[s], rows[s], verdict[s].kind)
    BY <2>1 DEF CInv, FlashCallsFollow, FlashCallFollows
  <2>3. "picked" \notin SelectionSteps \cup {"validate"}
    BY DEF SelectionSteps
  <2> QED BY <2>2, <2>3 DEF SelectFits
<1>2. ASSUME NEW g \in Orders PROVE CallsFollow(g) /\ step[g] \in Steps
  BY DEF CInv, OrdersFollow, OrderFollows, OrderTypes
<1>3. ASSUME NEW g \in Orders,
             step[g] \notin {"validate", "begin", "classify", "intent", "intentRow", "intentCatch"},
             told[g]["classify"] # <<>>
      PROVE  /\ Len(billed[g]["classify"]) <= 1
             /\ billed[g]["classify"] = <<TRUE>> <=> told[g]["classify"] = <<TRUE>>
  BY <1>2, <1>3 DEF CallsFollow, ClassifyFits, Unclassified, Classifying
<1>4. ASSUME NEW g \in Orders, step[g] \notin SelectionSteps \cup {"validate"}
      PROVE  Account(billed[g]["select"], told[g]["select"], answer[g].kind = "ok",
                     answer[g].kind \in {"ok", "low_confidence"})
  BY <1>2, <1>4 DEF CallsFollow, SelectFits
<1>5. ASSUME NEW g \in Orders, step[g] \in {"search", "compose", "drain", "done", "failed"}
      PROVE  /\ Len(billed[g]["content"]) <= 1
             /\ billed[g]["content"] = <<TRUE>> <=> told[g]["content"] = <<TRUE>>
  BY <1>2, <1>5 DEF CallsFollow, ContentFits, Unwritten, Early, SelectionSteps
<1> QED BY <1>1, <1>3, <1>4, <1>5 DEF CallsAccounted

\* The circuit breaker and the usage table agree on every call.
THEOREM CallsAlwaysAccounted == Spec => []CallsAccounted
BY RequestsAreFollowed, FollowedCallsAreAccounted, PTL

\* What is on a stream is in its order and true.
LEMMA FollowedStreamsAreTrue == CInv => StreamTellsTheTruth
<1> SUFFICES ASSUME CInv, NEW g \in Orders
             PROVE  LET s == sent[g]
                        last == s[Len(s)]
                    IN  /\ \A i \in DOMAIN s :
                            /\ s[i].type \in {"done", "error"} => i = Len(s)
                            /\ s[i].type = "meta" <=> i = 1 /\ s[i].type # "error"
                            /\ s[i].type = "item" => \A j \in 1..(i - 1) :
                                   s[j].type = "item" => s[j].n < s[i].n
                        /\ step[g] = "done" /\ ~gone[g] /\ ~order[g].idle =>
                            /\ last = Line("done", Len(sheets[g]))
                            /\ \A n \in DOMAIN sheets[g] : \E i \in DOMAIN s : s[i] = Line("item", n)
                        /\ step[g] = "failed" /\ ~gone[g] => last.type = "error"
                        /\ step[g] \in {"done", "failed"} /\ open[g] # {} =>
                            open[g] = {"LLM_REQUEST"} /\ told[g]["content"] = <<>>
  BY DEF StreamTellsTheTruth
<1>1. StreamFollows(g) /\ StagesFollow(g) /\ DOMAIN sheets[g] = 1..Len(sheets[g])
  BY DEF CInv, OrdersFollow, OrderFollows, OrderTypes
<1>2. step[g] \in {"done", "failed"} /\ open[g] # {} =>
          open[g] = {"LLM_REQUEST"} /\ told[g]["content"] = <<>>
  BY <1>1 DEF StagesFollow, StagesFit
<1>3. \A i \in DOMAIN sent[g] :
          /\ sent[g][i].type \in {"done", "error"} => i = Len(sent[g])
          /\ sent[g][i].type = "meta" <=> i = 1 /\ sent[g][i].type # "error"
          /\ sent[g][i].type = "item" => \A j \in 1..(i - 1) :
                 sent[g][j].type = "item" => sent[g][j].n < sent[g][i].n
  BY <1>1 DEF StreamFollows, StreamFits
<1>4. step[g] = "done" /\ ~gone[g] /\ ~order[g].idle =>
          /\ sent[g][Len(sent[g])] = Line("done", Len(sheets[g]))
          /\ \A n \in DOMAIN sheets[g] : \E i \in DOMAIN sent[g] : sent[g][i] = Line("item", n)
  BY <1>1 DEF StreamFollows, StreamFits
<1>5. step[g] = "failed" /\ ~gone[g] => sent[g][Len(sent[g])].type = "error"
  BY <1>1 DEF StreamFollows, StreamFits
<1> QED BY <1>2, <1>3, <1>4, <1>5
\* Whoever reads a stream to its end can believe it: the sheets in their order,
\* all of them before "done", and one last word.
THEOREM StreamsAlwaysTellTheTruth == Spec => []StreamTellsTheTruth
BY RequestsAreFollowed, FollowedStreamsAreTrue, PTL

---------------------------------------------------------------------------
(* Orders, and what comes first in them. *)

\* A finite set has a first member in a strict order of all its members.
LEMMA FirstExists ==
    ASSUME NEW S, IsFiniteSet(S), S # {}, NEW R,
           \A a \in S : <<a, a>> \notin R,
           \A a, b \in S : a # b => <<a, b>> \in R \/ <<b, a>> \in R,
           \A a, b, c \in S : <<a, b>> \in R /\ <<b, c>> \in R => <<a, c>> \in R
    PROVE  \E a \in S : \A b \in S \ {a} : <<a, b>> \in R
<1> DEFINE Above(a) == {b \in S : <<b, a>> \in R}
           size == [a \in S |-> Cardinality(Above(a))]
           Counts == {size[a] : a \in S}
<1>1. ASSUME NEW a \in S
      PROVE  IsFiniteSet(Above(a)) /\ size[a] = Cardinality(Above(a)) /\ size[a] \in Nat
  <2>1. IsFiniteSet(Above(a))
    BY FS_Subset
  <2> QED BY <2>1, FS_CardinalityType
<1> HIDE DEF size
<1>2. PICK a \in S : \A b \in S : size[a] <= size[b]
  <2>0. \A a \in S : size[a] \in Nat
    BY <1>1
  <2>1. Counts \in SUBSET Nat
    BY <2>0
  <2>3. Counts # {}
    OBVIOUS
  <2>2. PICK m \in Counts : \A n \in Counts : m <= n
    <3> HIDE DEF Counts
    <3> QED BY <2>1, <2>3, LeastNatural
  <2> QED BY <2>2
<1>4. ASSUME NEW b \in S \ {a} PROVE <<a, b>> \in R
  <2>1. SUFFICES ASSUME <<b, a>> \in R PROVE FALSE
    OBVIOUS
  <2>2. Above(b) \in SUBSET Above(a) /\ b \in Above(a) /\ b \notin Above(b)
    BY <2>1
  <2>3. Cardinality(Above(b)) <= Cardinality(Above(a)) /\ Cardinality(Above(b)) # Cardinality(Above(a))
    BY <1>1, <2>2, FS_Subset
  <2>4. Cardinality(Above(a)) <= Cardinality(Above(b))
    BY <1>1, <1>2
  <2> QED BY <1>1, <2>3, <2>4
<1> QED BY <1>4

\* What is ahead at the first place where two differ is a strict order.
LEMMA AheadOrders ==
    ASSUME NEW n \in Nat, NEW a \in [1..n -> Int], NEW b \in [1..n -> Int], NEW c \in [1..n -> Int]
    PROVE  /\ ~Ahead(a, a)
           /\ a # b => Ahead(a, b) \/ Ahead(b, a)
           /\ Ahead(a, b) /\ Ahead(b, c) => Ahead(a, c)
<1>1. ~Ahead(a, a)
  BY DEF Ahead
<1>2. ASSUME a # b PROVE Ahead(a, b) \/ Ahead(b, a)
  <2> DEFINE D == {i \in 1..n : a[i] # b[i]}
  <2>1. D \in SUBSET Nat
    OBVIOUS
  <2>4. D # {}
    <3>1. ASSUME \A i \in 1..n : a[i] = b[i] PROVE a = b
      BY <3>1
    <3>2. PICK i \in 1..n : a[i] # b[i]
      BY <1>2, <3>1
    <3>3. i \in D
      BY <3>2
    <3> QED BY <3>3
  <2>2. PICK m \in D : \A i \in D : m <= i
    <3> HIDE DEF D
    <3> QED BY <2>1, <2>4, LeastNatural
  <2>3. m \in 1..n /\ a[m] # b[m] /\ \A j \in 1..(m - 1) : a[j] = b[j]
    BY <2>2
  <2>5. a[m] > b[m] \/ b[m] > a[m]
    BY <2>3
  <2> QED BY <2>3, <2>5 DEF Ahead
<1>3. ASSUME Ahead(a, b), Ahead(b, c) PROVE Ahead(a, c)
  <2>1. PICK i \in 1..n : a[i] > b[i] /\ \A j \in 1..(i - 1) : a[j] = b[j]
    BY <1>3 DEF Ahead
  <2>2. PICK k \in 1..n : b[k] > c[k] /\ \A j \in 1..(k - 1) : b[j] = c[j]
    BY <1>3 DEF Ahead
  <2>3. CASE i <= k
    <3>1. a[i] > c[i]
      <4>1. CASE i = k
        <5>1. a[i] > b[i] /\ b[i] > c[i] /\ a[i] \in Int /\ b[i] \in Int /\ c[i] \in Int
          BY <2>1, <2>2, <4>1
        <5> QED BY <5>1
      <4>2. CASE i < k
        <5>1. i \in 1..(k - 1)
          BY <4>2
        <5> QED BY <2>1, <2>2, <5>1
      <4> QED BY <2>3, <4>1, <4>2
    <3>2. \A j \in 1..(i - 1) : a[j] = c[j]
      BY <2>1, <2>2, <2>3
    <3> QED BY <3>1, <3>2 DEF Ahead
  <2>4. CASE k < i
    <3>1. a[k] > c[k]
      BY <2>1, <2>2, <2>4
    <3>2. \A j \in 1..(k - 1) : a[j] = c[j]
      BY <2>1, <2>2, <2>4
    <3> QED BY <3>1, <3>2 DEF Ahead
  <2> QED BY <2>3, <2>4
<1> QED BY <1>1, <1>2, <1>3

---------------------------------------------------------------------------
(* The score of a worksheet template. *)

\* A score is a number of points.
LEMMA ScoreIsNat ==
    ASSUME NEW t, NEW q, NEW h PROVE score(t, q, h) \in Nat
<1> DEFINE m == Library[t]
           difficulty == IF h.difficulty # "" THEN h.difficulty ELSE q.difficulty
           c1 == matchesThemeOrSubTopic(m, q, h)
           c2 == \/ h.activity # "" /\ matchesActivity(m, h.activity)
                 \/ matchesActivityIdentity(m, q, h)
           c3 == q.subject # "" /\ q.subject \in m.subjects
           c4 == q.grade # "" /\ q.grade \in m.grades
           c5 == difficulty # "" /\ difficulty \in m.difficulties
           c6 == matchesSelectionProfileTopics(m, q)
<1>1. score(t, q, h) = If(c1, 12) + If(c2, 10) + If(c3, 8) + If(c4, 6) + If(c5, 4) + If(c6, 6)
  BY DEF score
<1> HIDE DEF c1, c2, c3, c4, c5, c6
<1> QED BY <1>1 DEF If

\* The order of the ranking is strict and of all templates.
LEMMA HigherOrders ==
    ASSUME NEW q, NEW h, NEW t \in DOMAIN Library, NEW u \in DOMAIN Library, NEW v \in DOMAIN Library
    PROVE  /\ ~Higher(t, t, q, h)
           /\ t # u => Higher(t, u, q, h) \/ Higher(u, t, q, h)
           /\ Higher(t, u, q, h) /\ Higher(u, v, q, h) => Higher(t, v, q, h)
<1>1. PICK a, b, c \in Nat : a = score(t, q, h) /\ b = score(u, q, h) /\ c = score(v, q, h)
  BY ScoreIsNat
<1>2. /\ Library[t].updated \in Int /\ Library[u].updated \in Int /\ Library[v].updated \in Int
      /\ Library[t].place \in Int /\ Library[u].place \in Int /\ Library[v].place \in Int
      /\ t # u => Library[t].place # Library[u].place
  BY LibraryAssumption
<1> QED BY <1>1, <1>2 DEF Higher

\* The best of some templates is one of them, and none has a higher score.
LEMMA BestIsBest ==
    ASSUME NEW S \in SUBSET DOMAIN Library, S # {}, NEW q, NEW h
    PROVE  Best(S, q, h) \in S /\ \A t \in S : score(t, q, h) <= score(Best(S, q, h), q, h)
<1> DEFINE R == {e \in S \X S : Higher(e[1], e[2], q, h)}
<1>1. \A t, u \in S : <<t, u>> \in R <=> Higher(t, u, q, h)
  OBVIOUS
<1>2. IsFiniteSet(S)
  BY LibraryAssumption, FS_Subset
<1>3. /\ \A t \in S : <<t, t>> \notin R
      /\ \A t, u \in S : t # u => <<t, u>> \in R \/ <<u, t>> \in R
      /\ \A t, u, v \in S : <<t, u>> \in R /\ <<u, v>> \in R => <<t, v>> \in R
  <2> HIDE DEF R
  <2> QED BY <1>1, HigherOrders
<1>4. PICK t \in S : \A u \in S \ {t} : <<t, u>> \in R
  <2> HIDE DEF R
  <2> QED BY <1>2, <1>3, FirstExists
<1>5. Ahead_(S, t, q, h) = {}
  BY <1>1, <1>4, HigherOrders DEF Ahead_
<1>6. Best(S, q, h) \in S /\ Ahead_(S, Best(S, q, h), q, h) = {}
  BY <1>5 DEF Best
<1>7. PICK b \in S : b = Best(S, q, h) /\ \A u \in S : ~Higher(u, b, q, h)
  BY <1>6 DEF Ahead_
<1>8. ASSUME NEW u \in S PROVE score(u, q, h) <= score(b, q, h)
  <2>1. ~(score(u, q, h) > score(b, q, h))
    BY <1>7 DEF Higher
  <2> QED BY <2>1, ScoreIsNat
<1> QED BY <1>7, <1>8

\* Where the score does not decide it is low, or another is close.
LEMMA NotDecisive ==
    ASSUME NEW S \in SUBSET DOMAIN Library, Cardinality(S) > 1, NEW q, NEW h, ~Decisive(S, q, h)
    PROVE  \E t \in S \ {Best(S, q, h)} :
               \/ score(Best(S, q, h), q, h) = 0
               \/ score(Best(S, q, h), q, h) - score(t, q, h) < Margin
<1>1. PICK b \in S : b = Best(S, q, h)
  <2>1. S # {}
    BY FS_EmptySet
  <2> QED BY <2>1, BestIsBest
<1>2. PICK t \in S : t # b
  <2>1. IsFiniteSet(S)
    BY LibraryAssumption, FS_Subset
  <2>2. S # {b}
    BY FS_Singleton
  <2> QED BY <2>2
<1>3. \A u \in S : score(u, q, h) \in Nat
  BY ScoreIsNat
<1>4. Margin \in Nat
  BY LibraryAssumption
<1>5. \/ ~(score(b, q, h) > 0)
      \/ \E u \in S \ {b} : ~(score(b, q, h) - score(u, q, h) >= Margin)
  BY <1>1 DEF Decisive
<1>6. \/ score(b, q, h) = 0
      \/ \E u \in S \ {b} : score(b, q, h) - score(u, q, h) < Margin
  BY <1>3, <1>4, <1>5
<1> QED BY <1>1, <1>2, <1>6

---------------------------------------------------------------------------
(* The age of a worksheet template. *)

\* A band is a range of years.
Band(b) == b = NoBand \/ (b \in Nat \X Nat /\ b[1] <= b[2])

\* The first numbers of an age group.
LEMMA GroupNumbers ==
    ASSUME NEW s \in Seq(Nat), s # <<>>
    PROVE  s[1] \in Nat /\ (Len(s) # 1 => s[2] \in Nat)
<1>1. PICK l \in Nat : l = Len(s) /\ l # 0
  OBVIOUS
<1>2. 1 \in 1..l /\ (l # 1 => 2 \in 1..l)
  BY <1>1
<1> QED BY <1>1, <1>2
\* What is made of a request is one.
LEMMA BandIsRange ==
    ASSUME NEW q, q.age \in Nat \cup {NoAge}, q.group \in Seq(Nat) PROVE Band(resolveAgeBand(q))
<1>1. CASE q.age # NoAge
  BY <1>1 DEF resolveAgeBand, Band
<1>2. CASE q.age = NoAge /\ q.group # <<>>
  <2> DEFINE n == q.group
             m == IF Len(n) = 1 THEN n[1] ELSE n[2]
  <2>1. n[1] \in Nat /\ m \in Nat
    BY <1>2, GroupNumbers
  <2>2. resolveAgeBand(q) = IF n[1] <= m THEN <<n[1], m>> ELSE <<m, n[1]>>
    BY <1>2 DEF resolveAgeBand
  <2> HIDE DEF n, m
  <2> QED BY <2>1, <2>2 DEF Band
<1>3. CASE q.age = NoAge /\ q.group = <<>>
  BY <1>3, LibraryAssumption DEF resolveAgeBand, Band
<1> QED BY <1>1, <1>2, <1>3

\* A template that passes the filter is for a year that is asked for.
LEMMA PassingHasYear ==
    ASSUME NEW t \in DOMAIN Library, NEW b, Band(b), passesAgeHardFilter(t, b), b # NoBand,
           Library[t].ages[1] <= Library[t].ages[2]
    PROVE  \E n \in Library[t].ages[1]..Library[t].ages[2] : n \in b[1]..b[2]
<1>1. Library[t].ages \in Int \X Int
  BY LibraryAssumption DEF passesAgeHardFilter
<1>2. PICK i, j \in Int : i = Library[t].ages[1] /\ j = Library[t].ages[2]
  BY <1>1
<1>3. PICK k, l \in Nat : k = b[1] /\ l = b[2] /\ k <= l
  BY DEF Band
<1>4. i <= l /\ j >= k /\ i <= j
  BY <1>2, <1>3 DEF passesAgeHardFilter, overlaps
<1>5. \E n \in i..j : n \in k..l
  <2>1. CASE i <= k
    <3>1. k \in i..j /\ k \in k..l
      BY <1>3, <1>4, <2>1
    <3> QED BY <3>1
  <2>2. CASE k < i
    <3>1. i \in i..j /\ i \in k..l
      BY <1>3, <1>4, <2>2
    <3> QED BY <3>1
  <2> QED BY <2>1, <2>2
<1> QED BY <1>2, <1>3, <1>5

---------------------------------------------------------------------------
(* The choice of a worksheet template. *)

\* Where it is made of the templates for the age, where of no decisive score,
\* and where it has been made.
Narrowing == SelectionSteps \ {"begin"}
Undecided == {"select", "catalog", "ask", "askRow", "askCatch"}
Decided == {"picked"} \cup Asking \cup Making

\* What a request at a place has chosen from, what the model has picked, and
\* what the choice is, with so many templates in the table.
ChoiceFits(p, q, F, h, a, k, made) ==
    /\ F \subseteq made /\ \A t \in F : passesAgeHardFilter(t, resolveAgeBand(q))
    /\ p \in Narrowing => F # {} /\ q.template = None
    /\ p \in Undecided => ~Decisive(F, q, h)
    /\ a.kind = "ok" => a.pick \in Top(F, q, h)
    /\ p = "picked" /\ q.template = None =>
          /\ k \in F
          /\ Cardinality(F) > 1 =>
                \/ k = Best(F, q, h)
                \/ a.kind = "ok" /\ a.pick = k /\ ~Decisive(F, q, h)
    /\ p \in Decided \/ (p = "done" /\ ~q.idle) => k \in made

\* A request that goes on with its choice, or without any.
LEMMA ChoiceKept ==
    ASSUME NEW p, NEW q, NEW F, NEW h, NEW a, NEW k, NEW made, ChoiceFits(p, q, F, h, a, k, made),
           NEW r, NEW more, made \subseteq more,
           \/ r = p
           \/ r \in {"begin", "refused", "failed"}
           \/ p \in Decided /\ r \in Asking \cup Making \cup {"done"}
           \/ p \in Narrowing /\ r \in Narrowing \ Undecided
           \/ p \in Undecided /\ r \in Undecided
    PROVE  ChoiceFits(r, q, F, h, a, k, more)
<1>1. /\ {"begin", "refused", "failed"} \cap (Narrowing \cup Decided \cup {"done", "picked"}) = {}
      /\ (Asking \cup Making \cup {"done"}) \cap (Narrowing \cup {"picked"}) = {}
      /\ Narrowing \cap (Decided \cup {"done"}) = {} /\ Undecided \subseteq Narrowing
      /\ "picked" \notin Narrowing
  BY DEF Narrowing, Decided, Asking, Making, Undecided, SelectionSteps
<1> HIDE DEF Narrowing, Decided, Asking, Making, Undecided
<1> QED BY <1>1 DEF ChoiceFits

\* The templates for the age are read.
LEMMA ChoiceListed ==
    ASSUME NEW q, NEW F, NEW h, NEW a, NEW k, NEW made, ChoiceFits("begin", q, F, h, a, k, made),
           a.kind = "none", q.template = None,
           NEW G \in SUBSET made, \A t \in G : passesAgeHardFilter(t, resolveAgeBand(q))
    PROVE  /\ G = {} => ChoiceFits("refused", q, G, h, a, k, made)
           /\ G # {} => ChoiceFits("classify", q, G, h, a, k, made)
           /\ \A t : G = {t} => ChoiceFits("picked", q, G, h, a, t, made)
<1>1. /\ "refused" \notin Narrowing \cup Decided \cup Undecided
      /\ "classify" \notin Decided \cup Undecided
      /\ "picked" \notin Narrowing \cup Undecided
  BY DEF Narrowing, Decided, Asking, Making, Undecided, SelectionSteps
<1>2. \A t : Cardinality({t}) = 1
  BY FS_Singleton
<1> HIDE DEF Narrowing, Decided, Asking, Making, Undecided
<1>3. ASSUME G = {} PROVE ChoiceFits("refused", q, G, h, a, k, made)
  BY <1>1, <1>3 DEF ChoiceFits
<1>4. ASSUME G # {} PROVE ChoiceFits("classify", q, G, h, a, k, made)
  BY <1>1, <1>4 DEF ChoiceFits
<1>5. ASSUME NEW t, G = {t} PROVE ChoiceFits("picked", q, G, h, a, t, made)
  <2>0. Cardinality({t}) = 1
    BY <1>2
  <2>1. ~(Cardinality(G) > 1)
    BY <1>5, <2>0
  <2> QED BY <1>1, <1>5, <2>1 DEF ChoiceFits
<1> QED BY <1>3, <1>4, <1>5

\* A template that is asked for by name is looked up.
LEMMA ChoiceNamed ==
    ASSUME NEW q, NEW F, NEW h, NEW a, NEW k, NEW made, ChoiceFits("begin", q, F, h, a, k, made),
           q.template # None, q.template \in made
    PROVE  ChoiceFits("picked", q, F, h, a, q.template, made)
BY DEF ChoiceFits, Narrowing, Decided, Asking, Making, Undecided, SelectionSteps

\* What the words mean is settled before the model picks.
LEMMA ChoiceHinted ==
    ASSUME NEW p \in Narrowing, NEW q, NEW F, NEW h, NEW a, NEW k, NEW made,
           ChoiceFits(p, q, F, h, a, k, made), a.kind = "none",
           NEW r \in Narrowing \ Undecided, NEW i
    PROVE  ChoiceFits(r, q, F, i, a, k, made)
<1>1. r \notin Decided /\ r \notin {"picked", "done"}
  BY DEF Narrowing, Decided, Asking, Making, Undecided, SelectionSteps
<1> QED BY <1>1 DEF ChoiceFits

\* The score decides,
LEMMA ChoiceDecided ==
    ASSUME NEW q, NEW F \in SUBSET DOMAIN Library, NEW h, NEW a, NEW k, NEW made,
           ChoiceFits("rank", q, F, h, a, k, made)
    PROVE  ChoiceFits("picked", q, F, h, a, Best(F, q, h), made)
<1>1. "rank" \in Narrowing /\ "picked" \notin Narrowing \cup Undecided
  BY DEF Narrowing, Undecided, SelectionSteps
<1>2. Best(F, q, h) \in F
  BY <1>1, BestIsBest DEF ChoiceFits
<1> QED BY <1>1, <1>2 DEF ChoiceFits
\* or it does not.
LEMMA ChoiceOpen ==
    ASSUME NEW q, NEW F, NEW h, NEW a, NEW k, NEW made,
           ChoiceFits("rank", q, F, h, a, k, made), ~Decisive(F, q, h)
    PROVE  ChoiceFits("select", q, F, h, a, k, made)
BY DEF ChoiceFits, Narrowing, Decided, Asking, Making, Undecided, SelectionSteps

\* The model picks one of the first,
LEMMA ChoicePicked ==
    ASSUME NEW p \in Undecided, NEW q, NEW F, NEW h, NEW a, NEW k, NEW made,
           ChoiceFits(p, q, F, h, a, k, made), NEW r \in Undecided,
           NEW b, b.kind = "ok" => b.pick \in Top(F, q, h)
    PROVE  ChoiceFits(r, q, F, h, b, k, made)
<1>1. /\ Undecided \subseteq Narrowing /\ Undecided \cap (Decided \cup {"picked", "done"}) = {}
  BY DEF Narrowing, Decided, Asking, Making, Undecided, SelectionSteps
<1> QED BY <1>1 DEF ChoiceFits
\* and its pick counts, or else the score does.
LEMMA ChoiceResolved ==
    ASSUME NEW p \in Undecided, NEW q, NEW F \in SUBSET DOMAIN Library, NEW h, NEW a, NEW k, NEW made,
           ChoiceFits(p, q, F, h, a, k, made)
    PROVE  ChoiceFits("picked", q, F, h, a,
                      IF a.kind = "ok" THEN a.pick ELSE Best(F, q, h), made)
<1>1. p \in Narrowing /\ "picked" \notin Narrowing \cup Undecided
  BY DEF Narrowing, Undecided, SelectionSteps
<1>2. Best(F, q, h) \in F
  BY <1>1, BestIsBest DEF ChoiceFits
<1>3. Top(F, q, h) \subseteq F
  BY DEF Top
<1>4. CASE a.kind = "ok"
  BY <1>1, <1>3, <1>4 DEF ChoiceFits
<1>5. CASE a.kind # "ok"
  BY <1>1, <1>2, <1>5 DEF ChoiceFits
<1> QED BY <1>4, <1>5

---------------------------------------------------------------------------
(* A request goes on with its choice. *)

ChoiceFollows(g) ==
    ChoiceFits(step[g], order[g], fitting[g], hints[g], answer[g], picked[g], rowsMade)
ChoiceTypes ==
    /\ DOMAIN fitting = Orders /\ DOMAIN hints = Orders
    /\ library \subseteq rowsMade /\ rowsMade \subseteq DOMAIN Library

\* What a step leaves of the others.
ChoosesFor(g) ==
    /\ DOMAIN fitting' = Orders /\ DOMAIN hints' = Orders
    /\ \A h \in Orders \ {g} : /\ fitting'[h] = fitting[h] /\ hints'[h] = hints[h]
                               /\ picked'[h] = picked[h]

\* A request that is not narrowing its choice leaves it as it is.
LEMMA ChoiceStays ==
    ASSUME NEW g \in Orders, ChoiceTypes, ChoiceFollows(g), order' = order, rowsMade' = rowsMade,
           UNCHANGED outcome,
           \/ step'[g] = step[g]
           \/ step'[g] \in {"begin", "refused", "failed"}
           \/ step[g] \in Decided /\ step'[g] \in Asking \cup Making \cup {"done"}
           \/ step[g] \in Narrowing /\ step'[g] \in Narrowing \ Undecided
           \/ step[g] \in Undecided /\ step'[g] \in Undecided
    PROVE  ChoiceFollows(g)' /\ ChoosesFor(g)
<1>1. order'[g] = order[g] /\ fitting' = fitting /\ hints' = hints /\ answer' = answer /\ picked' = picked
  BY DEF outcome
<1>2. ChoosesFor(g)
  BY <1>1 DEF ChoosesFor, ChoiceTypes
<1> DEFINE p == step[g]  r == step'[g]
<1>3. ChoiceFits(p, order[g], fitting[g], hints[g], answer[g], picked[g], rowsMade)
  BY DEF ChoiceFollows
<1>4. \/ r = p
      \/ r \in {"begin", "refused", "failed"}
      \/ p \in Decided /\ r \in Asking \cup Making \cup {"done"}
      \/ p \in Narrowing /\ r \in Narrowing \ Undecided
      \/ p \in Undecided /\ r \in Undecided
  OBVIOUS
<1> HIDE DEF p, r
<1>5. ChoiceFits(r, order[g], fitting[g], hints[g], answer[g], picked[g], rowsMade)
  BY <1>3, <1>4, ChoiceKept
<1> QED BY <1>1, <1>2, <1>5 DEF ChoiceFollows, r

\* Every step of the choice keeps it among what the rules allow.
LEMMA ChoiceNarrows ==
    ASSUME OrderTypes, ChoiceTypes, NEW g \in Orders, ChoiceFollows(g), CallsFollow(g),
           SheetSelectionStep(g), rowsMade' = rowsMade
    PROVE  ChoiceFollows(g)' /\ ChoosesFor(g)
<1>0. /\ order' = order /\ step' \in [Orders -> Steps]
      /\ step[g] \in Unasked => answer[g].kind = "none"
  <2>1. Chooses(g)
    BY SelectionMoves
  <2> QED BY <2>1 DEF Chooses, SelectionTypes, CallsFollow, SelectFits
<1>k. /\ {"classify", "intent", "intentRow", "intentCatch", "rank"} \subseteq Narrowing \ Undecided
      /\ {"begin", "classify", "intent", "intentRow", "intentCatch", "rank", "select",
          "catalog", "ask"} \subseteq Unasked
      /\ {"select", "catalog", "ask", "askRow", "askCatch"} \subseteq Undecided
      /\ {"begin", "refused", "picked"} \subseteq Steps /\ Narrowing \subseteq Steps
      /\ Undecided \subseteq Steps
  BY DEF Narrowing, Undecided, Unasked, SelectionSteps, Steps, Early
<1>f. /\ ChoiceFits(step[g], order[g], fitting[g], hints[g], answer[g], picked[g], rowsMade)
      /\ fitting[g] \in SUBSET rowsMade /\ fitting[g] \in SUBSET DOMAIN Library
  BY DEF ChoiceFollows, ChoiceTypes, ChoiceFits
<1>t. DOMAIN step = Orders /\ DOMAIN picked = Orders /\ DOMAIN answer = Orders
      /\ DOMAIN fitting = Orders /\ DOMAIN hints = Orders
  BY DEF OrderTypes, ChoiceTypes
\* To what the state has become.
<1>c. ASSUME ChoosesFor(g),
             ChoiceFits(step'[g], order[g], fitting'[g], hints'[g], answer'[g], picked'[g], rowsMade)
      PROVE  ChoiceFollows(g)' /\ ChoosesFor(g)
  BY <1>0, <1>c DEF ChoiceFollows
<1>1. CASE TakeExplicit(g)
  <2>1. /\ step[g] = "begin" /\ order[g].template # None
        /\ fitting' = fitting /\ hints' = hints /\ answer' = answer
    BY <1>1 DEF TakeExplicit
  <2>2. CASE order[g].template \in library
    <3>1. /\ step'[g] = "picked" /\ picked' = [picked EXCEPT ![g] = order[g].template]
          /\ order[g].template \in rowsMade
      BY <1>1, <1>t, <2>2 DEF TakeExplicit, Goto, ChoiceTypes
    <3>2. ChoosesFor(g) /\ picked'[g] = order[g].template
      BY <1>t, <2>1, <3>1 DEF ChoosesFor
    <3>3. ChoiceFits("picked", order[g], fitting[g], hints[g], answer[g], order[g].template, rowsMade)
      BY <1>f, <2>1, <3>1, ChoiceNamed
    <3> QED BY <1>c, <2>1, <3>1, <3>2, <3>3
  <2>3. CASE order[g].template \notin library
    <3>1. step'[g] = "refused" /\ picked' = picked
      BY <1>1, <1>t, <2>3 DEF TakeExplicit, Goto
    <3> QED BY <1>0, <2>1, <3>1, ChoiceStays DEF outcome
  <2> QED BY <2>2, <2>3
<1>2. CASE ListActive(g)
  <2> DEFINE G == {t \in library : passesAgeHardFilter(t, resolveAgeBand(order[g]))}
  <2>1. /\ step[g] = "begin" /\ order[g].template = None
        /\ fitting' = [fitting EXCEPT ![g] = G] /\ hints' = hints /\ answer' = answer
        /\ answer[g].kind = "none"
    BY <1>0, <1>k, <1>2 DEF ListActive
  <2>2. G \in SUBSET rowsMade /\ \A t \in G : passesAgeHardFilter(t, resolveAgeBand(order[g]))
    BY DEF ChoiceTypes
  <2>3. /\ Cardinality(G) = 1 =>
              /\ step'[g] = "picked" /\ picked' = [picked EXCEPT ![g] = CHOOSE t \in G : TRUE]
        /\ Cardinality(G) # 1 /\ G = {} => step'[g] = "refused" /\ picked' = picked
        /\ Cardinality(G) # 1 /\ G # {} => step'[g] = "classify" /\ picked' = picked
    BY <1>2, <1>t DEF ListActive, Goto
  <2>4. IsFiniteSet(G)
    BY LibraryAssumption, FS_Subset DEF ChoiceTypes
  <2> HIDE DEF G
  <2>5. ChoosesFor(g) /\ fitting'[g] = G
    BY <1>t, <2>1, <2>3 DEF ChoosesFor
  <2>6. CASE Cardinality(G) = 1
    <3>1. PICK t : G = {t}
      BY <2>4, <2>6, FS_Singleton
    <3>2. (CHOOSE u \in G : TRUE) = t
      BY <3>1
    <3>3. picked'[g] = t /\ step'[g] = "picked"
      BY <1>t, <2>3, <2>6, <3>2
    <3>4. ChoiceFits("picked", order[g], G, hints[g], answer[g], t, rowsMade)
      BY <1>f, <2>1, <2>2, <3>1, ChoiceListed
    <3> QED BY <1>c, <2>1, <2>5, <3>3, <3>4
  <2>7. CASE Cardinality(G) # 1 /\ G = {}
    <3>1. ChoiceFits("refused", order[g], G, hints[g], answer[g], picked[g], rowsMade)
      BY <1>f, <2>1, <2>2, <2>7, ChoiceListed
    <3> QED BY <1>c, <2>1, <2>3, <2>5, <2>7, <3>1
  <2>8. CASE Cardinality(G) # 1 /\ G # {}
    <3>1. ChoiceFits("classify", order[g], G, hints[g], answer[g], picked[g], rowsMade)
      BY <1>f, <2>1, <2>2, <2>8, ChoiceListed
    <3> QED BY <1>c, <2>1, <2>3, <2>5, <2>8, <3>1
  <2> QED BY <2>6, <2>7, <2>8
<1>3. CASE ListFails(g)
  <2>1. step'[g] = "refused" /\ UNCHANGED outcome
    BY <1>3, <1>t DEF ListFails, Goto
  <2> QED BY <1>0, <2>1, ChoiceStays
\* The steps that settle what the words mean.
<1>4. ASSUME NEW r \in Narrowing \ Undecided, step[g] \in Narrowing \ Undecided, step'[g] = r,
             answer[g].kind = "none", fitting' = fitting, answer' = answer, picked' = picked,
             \E i : hints' = [hints EXCEPT ![g] = i]
      PROVE  ChoiceFollows(g)' /\ ChoosesFor(g)
  <2>1. ChoosesFor(g)
    BY <1>4, <1>t DEF ChoosesFor
  <2>2. ChoiceFits(r, order[g], fitting[g], hints'[g], answer[g], picked[g], rowsMade)
    BY <1>f, <1>4, ChoiceHinted
  <2> QED BY <1>c, <1>4, <2>1, <2>2
<1>5. CASE Classify(g)
  <2>1. /\ step[g] = "classify" /\ step'[g] \in {"rank", "intent"} /\ UNCHANGED <<fitting, answer, picked>>
        /\ \E i : hints' = [hints EXCEPT ![g] = i]
    BY <1>5, <1>t DEF Classify, Goto, Hint
  <2> QED BY <1>0, <1>k, <1>4, <2>1
<1>6. CASE ModelClassifies(g)
  <2>1. /\ step[g] = "intent" /\ step'[g] = "intentRow" /\ UNCHANGED <<fitting, answer, picked>>
        /\ hints' = hints \/ \E i : hints' = [hints EXCEPT ![g] = i]
    BY <1>6, <1>t DEF ModelClassifies, Goto, Hint
  <2>2. CASE hints' = hints
    BY <1>0, <1>k, <2>1, <2>2, ChoiceStays DEF outcome
  <2>3. CASE \E i : hints' = [hints EXCEPT ![g] = i]
    BY <1>0, <1>k, <1>4, <2>1, <2>3
  <2> QED BY <2>1, <2>2, <2>3
<1>7. CASE ClassifyRow(g)
  <2>1. step[g] = "intentRow" /\ step'[g] = "rank" /\ UNCHANGED outcome
    BY <1>7, <1>t DEF ClassifyRow, Goto
  <2> QED BY <1>0, <1>k, <2>1, ChoiceStays
<1>8. CASE ClassifyFails(g)
  <2>1. /\ step[g] \in {"intent", "intentRow"} /\ step'[g] = "intentCatch"
        /\ UNCHANGED <<fitting, answer, picked>> /\ \E i : hints' = [hints EXCEPT ![g] = i]
    BY <1>8, <1>t DEF ClassifyFails, Goto, Hint
  <2> QED BY <1>0, <1>k, <1>4, <2>1
<1>9. CASE ClassifyCatch(g)
  <2>1. step[g] = "intentCatch" /\ step'[g] = "rank" /\ UNCHANGED outcome
    BY <1>9, <1>t DEF ClassifyCatch, Goto
  <2> QED BY <1>0, <1>k, <2>1, ChoiceStays
<1>10. CASE Rerank(g)
  <2>1. step[g] = "rank" /\ UNCHANGED <<fitting, hints, answer>>
    BY <1>10 DEF Rerank
  <2>2. CASE Decisive(fitting[g], order[g], hints[g])
    <3>1. step'[g] = "picked" /\ picked' = [picked EXCEPT ![g] = Best(fitting[g], order[g], hints[g])]
      BY <1>10, <1>t, <2>2 DEF Rerank, Goto, BestOf
    <3>2. ChoosesFor(g) /\ picked'[g] = Best(fitting[g], order[g], hints[g])
      BY <1>t, <2>1, <3>1 DEF ChoosesFor
    <3>3. ChoiceFits("picked", order[g], fitting[g], hints[g], answer[g],
                     Best(fitting[g], order[g], hints[g]), rowsMade)
      BY <1>f, <2>1, ChoiceDecided
    <3> QED BY <1>c, <2>1, <3>1, <3>2, <3>3
  <2>3. CASE ~Decisive(fitting[g], order[g], hints[g])
    <3>1. step'[g] = "select" /\ picked' = picked
      BY <1>10, <1>t, <2>3 DEF Rerank, Goto
    <3>2. ChoosesFor(g)
      BY <1>t, <2>1, <3>1 DEF ChoosesFor
    <3>3. ChoiceFits("select", order[g], fitting[g], hints[g], answer[g], picked[g], rowsMade)
      BY <1>f, <2>1, <2>3, ChoiceOpen
    <3> QED BY <1>c, <2>1, <3>1, <3>2, <3>3
  <2> QED BY <2>2, <2>3
\* The three steps that end the choice.
<1>11. ASSUME step[g] \in Undecided, Resolved(g, "picked"), fitting' = fitting, hints' = hints, answer' = answer
       PROVE  ChoiceFollows(g)' /\ ChoosesFor(g)
  <2> DEFINE k == IF answer[g].kind = "ok" THEN answer[g].pick ELSE Best(fitting[g], order[g], hints[g])
  <2>1. step'[g] = "picked" /\ picked' = [picked EXCEPT ![g] = k]
    BY <1>11, <1>t DEF Resolved, Goto, BestOf
  <2>2. ChoiceFits("picked", order[g], fitting[g], hints[g], answer[g], k, rowsMade)
    BY <1>f, <1>11, ChoiceResolved
  <2> HIDE DEF k
  <2>3. ChoosesFor(g) /\ picked'[g] = k
    BY <1>t, <1>11, <2>1 DEF ChoosesFor
  <2> QED BY <1>c, <1>11, <2>1, <2>2, <2>3
<1>12. CASE Select(g)
  <2>1. step[g] = "select" /\ UNCHANGED <<fitting, hints, answer>>
    BY <1>12 DEF Select
  <2>2. CASE Resolved(g, "picked")
    BY <1>k, <1>11, <2>1, <2>2
  <2>3. CASE Goto(g, "catalog") /\ picked' = picked
    <3>1. step'[g] = "catalog"
      BY <1>t, <2>3 DEF Goto
    <3> QED BY <1>0, <1>k, <2>1, <2>3, <3>1, ChoiceStays DEF outcome
  <2> QED BY <1>12, <2>2, <2>3 DEF Select
<1>13. CASE ListCatalog(g)
  <2>1. step[g] = "catalog" /\ step'[g] \in {"ask", "refused"} /\ UNCHANGED outcome
    BY <1>13, <1>t DEF ListCatalog, Goto
  <2> QED BY <1>0, <1>k, <2>1, ChoiceStays
\* The steps that note what the model answered.
<1>14. ASSUME NEW r \in Undecided, step[g] \in Undecided, step'[g] = r,
              fitting' = fitting, hints' = hints, picked' = picked,
              NEW kind, NEW pick, Answered(g, kind, pick),
              kind = "ok" => pick \in Top(fitting[g], order[g], hints[g])
       PROVE  ChoiceFollows(g)' /\ ChoosesFor(g)
  <2>1. ChoosesFor(g)
    BY <1>14, <1>t DEF ChoosesFor
  <2>2. answer'[g].kind = kind /\ answer'[g].pick = pick
    BY <1>14, <1>t DEF Answered
  <2>3. ChoiceFits(r, order[g], fitting[g], hints[g], answer'[g], picked[g], rowsMade)
    BY <1>f, <1>14, <2>2, ChoicePicked
  <2> QED BY <1>c, <1>14, <2>1, <2>3
<1>15. CASE ModelPicks(g)
  <2>1. step[g] = "ask" /\ step'[g] = "askRow" /\ UNCHANGED <<fitting, hints, picked>>
    BY <1>15, <1>t DEF ModelPicks, Goto
  <2>2. PICK pick \in DOMAIN Library \cup {None}, sure \in BOOLEAN :
            Answered(g, JudgedSheet(g, pick, sure), IF JudgedSheet(g, pick, sure) = "ok" THEN pick ELSE None)
    BY <1>15 DEF ModelPicks
  <2>3. JudgedSheet(g, pick, sure) = "ok" => pick \in Top(fitting[g], order[g], hints[g])
    BY DEF JudgedSheet, TopOf
  <2>4. PICK kind, which : Answered(g, kind, which) /\ (kind = "ok" => which \in Top(fitting[g], order[g], hints[g]))
    BY <2>2, <2>3
  <2> QED BY <1>k, <1>14, <2>1, <2>4
<1>16. CASE SelectRow(g)
  <2>1. step[g] = "askRow" /\ UNCHANGED <<fitting, hints, answer>> /\ Resolved(g, "picked")
    BY <1>16 DEF SelectRow
  <2> QED BY <1>k, <1>11, <2>1
<1>17. CASE SelectFails(g)
  <2>1. /\ step[g] \in {"ask", "askRow"} /\ step'[g] = "askCatch" /\ UNCHANGED <<fitting, hints, picked>>
        /\ Answered(g, "error", None)
    BY <1>17, <1>t DEF SelectFails, Goto
  <2>2. "error" # "ok"
    OBVIOUS
  <2> QED BY <1>k, <1>14, <2>1, <2>2
<1>18. CASE SelectCatch(g)
  <2>1. step[g] = "askCatch" /\ UNCHANGED <<fitting, hints, answer>>
    BY <1>18 DEF SelectCatch
  <2>2. CASE Resolved(g, "picked")
    BY <1>k, <1>11, <2>1, <2>2
  <2>3. CASE Goto(g, "refused") /\ picked' = picked
    <3>1. step'[g] = "refused"
      BY <1>t, <2>3 DEF Goto
    <3> QED BY <1>0, <2>1, <2>3, <3>1, ChoiceStays DEF outcome
  <2> QED BY <1>18, <2>2, <2>3 DEF SelectCatch
<1> QED BY <1>1, <1>2, <1>3, <1>5, <1>6, <1>7, <1>8, <1>9, <1>10, <1>12, <1>13, <1>15,
           <1>16, <1>17, <1>18 DEF SheetSelectionStep

---------------------------------------------------------------------------
(* A request behind its choice goes on with it. *)

\* Every step of a request keeps its choice.
LEMMA ChoiceGoesOn ==
    ASSUME OrderTypes, ChoiceTypes, NEW g \in Orders, ChoiceFollows(g), CallsFollow(g),
           GenerationStep(g) \/ ClientLeaves(g), rowsMade' = rowsMade
    PROVE  ChoiceFollows(g)' /\ ChoosesFor(g) /\ library' = library
<1>t. DOMAIN step = Orders /\ {"picked"} \cup Asking \cup Making = Decided
  BY DEF OrderTypes, Decided
<1>1. ASSUME order' = order, UNCHANGED outcome, library' = library,
             \/ step'[g] = step[g] \/ step'[g] \in {"begin", "refused", "failed"}
             \/ step[g] \in Decided /\ step'[g] \in Asking \cup Making \cup {"done"}
      PROVE  ChoiceFollows(g)' /\ ChoosesFor(g) /\ library' = library
  BY <1>1, ChoiceStays
<1>2. CASE CheckRequest(g)
  <2>1. order' = order /\ UNCHANGED outcome /\ library' = library /\ step'[g] \in {"begin", "refused"}
    BY <1>2, <1>t DEF CheckRequest, Goto
  <2> QED BY <1>1, <2>1
<1>3. CASE SheetSelectionStep(g)
  <2>1. library' = library
    BY <1>3 DEF SheetSelectionStep, TakeExplicit, ListActive, ListFails, Classify, ModelClassifies,
                ClassifyRow, ClassifyFails, ClassifyCatch, Rerank, Select, ListCatalog, ModelPicks,
                SelectRow, SelectFails, SelectCatch
  <2> QED BY <1>3, <2>1, ChoiceNarrows
<1>4. CASE StartContent(g)
  <2>1. /\ order' = order /\ UNCHANGED outcome /\ library' = library
        /\ step[g] = "picked" /\ step'[g] = "request"
    BY <1>4, <1>t DEF StartContent, Goto
  <2> QED BY <1>1, <2>1 DEF Decided, Asking
<1>5. CASE RequestContent(g)
  <2>1. /\ order' = order /\ UNCHANGED outcome /\ library' = library
        /\ step[g] = "request" /\ step'[g] \in {"content", "refused"}
    BY <1>5, <1>t DEF RequestContent, Goto
  <2> QED BY <1>1, <2>1 DEF Decided, Asking
<1>6. CASE ContentAnswers(g)
  <2>1. /\ order' = order /\ UNCHANGED outcome /\ library' = library
        /\ step[g] = "content" /\ step'[g] = "contentRow"
    BY <1>6, <1>t DEF ContentAnswers, Goto
  <2> QED BY <1>1, <2>1 DEF Decided, Asking
<1>7. CASE ReadContent(g)
  <2>1. /\ order' = order /\ UNCHANGED outcome /\ library' = library
        /\ step[g] = "contentRow" /\ step'[g] \in {"refused", "search"}
    BY <1>7, <1>t DEF ReadContent, Goto
  <2> QED BY <1>1, <2>1 DEF Decided, Asking, Making
<1>8. CASE ContentFails(g)
  <2>1. /\ order' = order /\ UNCHANGED outcome /\ library' = library
        /\ step[g] \in {"content", "contentRow"} /\ step'[g] = "contentCatch"
    BY <1>8, <1>t DEF ContentFails, Goto
  <2> QED BY <1>1, <2>1 DEF Decided, Asking
<1>9. CASE ContentCatch(g)
  <2>1. order' = order /\ UNCHANGED outcome /\ library' = library /\ step'[g] = "refused"
    BY <1>9, <1>t DEF ContentCatch, Goto
  <2> QED BY <1>1, <2>1
<1>10. CASE SearchPictures(g) \/ SearchFails(g)
  <2>1. /\ order' = order /\ UNCHANGED outcome /\ library' = library /\ step[g] = "search"
    BY <1>10 DEF SearchPictures, SearchFails
  <2>2. \A found : Attach(g, found) => step'[g] \in {"compose", "refused"}
    BY <1>t DEF Attach, Goto
  <2>3. step'[g] \in {"search", "compose", "refused"}
    BY <1>10, <1>t, <2>1, <2>2 DEF SearchPictures, SearchFails, Goto
  <2> QED BY <1>1, <2>1, <2>3 DEF Decided, Making
<1>11. CASE Compose(g)
  <2>1. order' = order /\ UNCHANGED outcome /\ library' = library /\ step' = step
    BY <1>11 DEF Compose
  <2> QED BY <1>1, <2>1
<1>12. CASE ComposeThrows(g)
  <2>1. /\ order' = order /\ UNCHANGED outcome /\ library' = library
        /\ step[g] \in {"compose", "drain"} /\ step'[g] = "drain"
    BY <1>12, <1>t DEF ComposeThrows, Goto
  <2> QED BY <1>1, <2>1 DEF Decided, Making
<1>13. CASE Finish(g)
  <2>1. /\ order' = order /\ UNCHANGED outcome /\ library' = library
        /\ step[g] = "compose" /\ step'[g] = "done"
    BY <1>13, <1>t DEF Finish, Goto
  <2> QED BY <1>1, <2>1 DEF Decided, Making
<1>14. CASE EndWithError(g)
  <2>1. order' = order /\ UNCHANGED outcome /\ library' = library /\ step'[g] = "failed"
    BY <1>14, <1>t DEF EndWithError, Goto
  <2> QED BY <1>1, <2>1
<1>15. CASE ClientLeaves(g)
  <2>1. order' = order /\ UNCHANGED outcome /\ library' = library /\ step' = step
    BY <1>15 DEF ClientLeaves, sheetSelectionVars
  <2> QED BY <1>1, <2>1
<1> QED BY <1>2, <1>3, <1>4, <1>5, <1>6, <1>7, <1>8, <1>9, <1>10, <1>11, <1>12, <1>13,
           <1>14, <1>15 DEF GenerationStep

---------------------------------------------------------------------------
(* Templates are created once, and whole. *)

AuthorFollows(u) ==
    /\ making[u] \in {"begin", "images", "row"} => draft[u].template \in DOMAIN Library
    /\ making[u] \in {"images", "row"} => draft[u].valid
    /\ making[u] = "row" => \A r \in Roles : part[u][r] = "ready"
    /\ \A r \in Roles : part[u][r] \in {"store", "insert", "ready"} => r \notin draft[u].spoiled
TemplatesFollow ==
    /\ AuthorTypeOK /\ Released \subseteq rowsMade /\ TemplatesAreCreatedWhole
    /\ \A u \in Authors : AuthorFollows(u)

\* What a step of an author comes to.
Adds(u) ==
    /\ making' \in [Authors -> {"begin", "images", "row", "done", "failed"}]
    /\ part' \in [Authors -> [Roles -> {"look", "store", "insert", "ready", "lost"}]]
    /\ draft' = draft /\ stored' \subseteq assetRows'
    /\ \A v \in Authors \ {u} : making'[v] = making[v] /\ part'[v] = part[v]
    /\ rowsMade \subseteq rowsMade'

\* A place noted for one image leaves the others.
LEMMA BecomesOne ==
    ASSUME AuthorTypeOK, NEW u \in Authors, NEW r \in Roles,
           NEW place \in {"look", "store", "insert", "ready", "lost"}, Becomes(u, r, place)
    PROVE  /\ part' \in [Authors -> [Roles -> {"look", "store", "insert", "ready", "lost"}]]
           /\ part'[u][r] = place /\ \A q \in Roles \ {r} : part'[u][q] = part[u][q]
           /\ \A v \in Authors \ {u} : part'[v] = part[v]
BY DEF AuthorTypeOK, Becomes
\* An author moves on, and no other does.
LEMMA ProceedMoves ==
    ASSUME AuthorTypeOK, NEW u \in Authors,
           NEW place \in {"begin", "images", "row", "done", "failed"}, Proceed(u, place)
    PROVE  /\ making' \in [Authors -> {"begin", "images", "row", "done", "failed"}]
           /\ making'[u] = place /\ \A v \in Authors \ {u} : making'[v] = making[v]
BY DEF AuthorTypeOK, Proceed

\* The others are where they were.
LEMMA OthersFollow ==
    ASSUME TemplatesFollow, NEW u \in Authors, Adds(u), NEW v \in Authors \ {u}
    PROVE  AuthorFollows(v)' /\ (Created(v)' <=> Created(v)) /\ part'[v] = part[v]
BY DEF TemplatesFollow, Adds, AuthorFollows, Created

\* A step that creates nothing, of an author who has created nothing.
LEMMA NothingCreated ==
    ASSUME TemplatesFollow, NEW u \in Authors, Adds(u), AuthorFollows(u)',
           UNCHANGED <<rowsMade, library>>, ~Created(u), ~Created(u)'
    PROVE  TemplatesFollow'
<1>1. draft' = draft /\ \A v \in Authors : Created(v)' <=> Created(v)
  BY OthersFollow DEF Adds
<1>2. \A v \in Authors : Created(v) => part'[v] = part[v]
  BY OthersFollow
<1>3. TemplatesAreCreatedWhole'
  BY <1>1, <1>2 DEF TemplatesFollow, TemplatesAreCreatedWhole
<1>4. AuthorTypeOK' /\ Released \subseteq rowsMade'
  BY DEF TemplatesFollow, AuthorTypeOK, Adds
<1> QED BY <1>3, <1>4, OthersFollow DEF TemplatesFollow

\* An author whose images are still worked on has created nothing.
LEMMA UnfinishedCreatesNothing ==
    ASSUME TemplatesFollow, NEW u \in Authors, NEW r \in Roles, part[u][r] # "ready"
    PROVE  ~Created(u)
BY DEF TemplatesFollow, TemplatesAreCreatedWhole

\* Every step of an author keeps what is there.
LEMMA AuthorAdds ==
    ASSUME TemplatesFollow, NEW u \in Authors, AuthorStep(u)
    PROVE  TemplatesFollow' /\ Adds(u)
<1>1. AuthorTypeOK /\ AuthorFollows(u)
  BY DEF TemplatesFollow
<1>2. CASE Draft(u)
  <2>1. UNCHANGED <<draft, part, assetVars, rowsMade, library>> /\ making[u] = "begin"
    BY <1>2 DEF Draft
  <2>2. PICK place \in {"images", "failed"} :
            Proceed(u, place) /\ (place = "images" => draft[u].valid)
    BY <1>2 DEF Draft
  <2>3. Adds(u) /\ making'[u] = place
    BY <1>1, <2>1, <2>2, ProceedMoves DEF Adds, AuthorTypeOK, assetVars
  <2>4. AuthorFollows(u)' /\ ~Created(u) /\ ~Created(u)'
    BY <1>1, <2>1, <2>2, <2>3 DEF AuthorFollows, Created
  <2> QED BY <2>1, <2>3, <2>4, NothingCreated
<1>3. CASE ImagesEnd(u)
  <2>1. UNCHANGED <<draft, part, assetVars, rowsMade, library>> /\ making[u] = "images"
    BY <1>3 DEF ImagesEnd
  <2>2. PICK place \in {"row", "failed"} :
            Proceed(u, place) /\ (place = "row" => \A r \in Roles : part[u][r] = "ready")
    BY <1>3 DEF ImagesEnd
  <2>3. Adds(u) /\ making'[u] = place
    BY <1>1, <2>1, <2>2, ProceedMoves DEF Adds, AuthorTypeOK, assetVars
  <2>4. AuthorFollows(u)' /\ ~Created(u) /\ ~Created(u)'
    BY <1>1, <2>1, <2>2, <2>3 DEF AuthorFollows, Created
  <2> QED BY <2>1, <2>3, <2>4, NothingCreated
<1>4. CASE CreateRow(u)
  <2>1. UNCHANGED <<draft, part, assetVars>> /\ making[u] = "row"
    BY <1>4 DEF CreateRow
  <2>2. ~Created(u)
    BY <2>1 DEF Created
  <2>3. CASE Proceed(u, "failed") /\ UNCHANGED <<rowsMade, library>>
    <3>1. Adds(u) /\ making'[u] = "failed"
      BY <1>1, <2>1, <2>3, ProceedMoves DEF Adds, AuthorTypeOK, assetVars
    <3>2. AuthorFollows(u)' /\ ~Created(u)'
      BY <1>1, <2>1, <3>1 DEF AuthorFollows, Created
    <3> QED BY <2>2, <2>3, <3>1, <3>2, NothingCreated
  <2>4. CASE /\ draft[u].template \notin rowsMade
             /\ Proceed(u, "done") /\ rowsMade' = rowsMade \cup {draft[u].template}
             /\ library' \subseteq library \cup {draft[u].template}
    <3>1. Adds(u) /\ making'[u] = "done"
      BY <1>1, <2>1, <2>4, ProceedMoves DEF Adds, AuthorTypeOK, assetVars
    <3>2. /\ draft[u].template \in DOMAIN Library /\ draft[u].valid
          /\ \A r \in Roles : r \notin draft[u].spoiled /\ part[u][r] = "ready"
      BY <1>1, <2>1 DEF AuthorFollows
    <3>3. AuthorFollows(u)'
      BY <1>1, <2>1, <3>1 DEF AuthorFollows
    <3>4. AuthorTypeOK' /\ Released \subseteq rowsMade'
      BY <1>1, <2>4, <3>1, <3>2 DEF AuthorTypeOK, Adds, TemplatesFollow
    <3>5. \A v \in Authors \ {u} :
              (Created(v)' <=> Created(v)) /\ part'[v] = part[v] /\ AuthorFollows(v)'
      BY <3>1, OthersFollow
    <3>6. \A v \in Authors : Created(v) => /\ draft[v].template \in rowsMade
                                           /\ draft[v].template # draft[u].template
      BY <2>4 DEF TemplatesFollow, TemplatesAreCreatedWhole
    <3>7. Created(u)' => draft[u].template \notin Released
      BY <2>4 DEF TemplatesFollow
    <3>8. ASSUME NEW t \in rowsMade' \ Released
          PROVE  \E v \in Authors : Created(v)' /\ draft'[v].template = t
      <4>1. CASE t \in rowsMade
        <5>1. PICK v \in Authors : Created(v) /\ draft[v].template = t
          BY <3>8, <4>1 DEF TemplatesFollow, TemplatesAreCreatedWhole
        <5>2. v # u
          BY <2>2, <5>1
        <5> QED BY <2>1, <3>5, <5>1, <5>2
      <4>2. CASE t = draft[u].template
        <5>1. Created(u)'
          BY <2>1, <3>1, <3>2, LibraryAssumption DEF Created
        <5> QED BY <2>1, <4>2, <5>1
      <4> QED BY <2>4, <4>1, <4>2
    <3>9. ASSUME NEW v \in Authors, Created(v)'
          PROVE  /\ draft'[v].template \in rowsMade' \ Released /\ draft'[v].valid
                 /\ \A r \in Roles : r \notin draft'[v].spoiled /\ part'[v][r] = "ready"
                 /\ \A w \in Authors \ {v} : Created(w)' => draft'[w].template # draft'[v].template
      <4>1. CASE v = u
        BY <2>1, <2>4, <3>2, <3>5, <3>6, <3>7, <3>9, <4>1
      <4>2. CASE v # u
        <5>1. Created(v) /\ part'[v] = part[v]
          BY <3>5, <3>9, <4>2
        <5>2. /\ draft[v].template \in rowsMade \ Released /\ draft[v].valid
              /\ \A r \in Roles : r \notin draft[v].spoiled /\ part[v][r] = "ready"
              /\ \A w \in Authors \ {v} : Created(w) => draft[w].template # draft[v].template
          BY <5>1 DEF TemplatesFollow, TemplatesAreCreatedWhole
        <5>3. \A w \in Authors \ {v} : Created(w)' => draft[w].template # draft[v].template
          BY <3>5, <3>6, <5>1, <5>2
        <5> QED BY <2>1, <2>4, <5>1, <5>2, <5>3
      <4> QED BY <4>1, <4>2
    <3>10. TemplatesAreCreatedWhole'
      BY <3>8, <3>9 DEF TemplatesAreCreatedWhole
    <3> QED BY <3>1, <3>3, <3>4, <3>5, <3>10 DEF TemplatesFollow
  <2> QED BY <1>4, <2>3, <2>4 DEF CreateRow
\* The steps of one image.
<1>5. ASSUME NEW r \in Roles, NEW place \in {"look", "store", "insert", "ready", "lost"},
             part[u][r] \in {"look", "store", "insert"}, Becomes(u, r, place),
             place \in {"store", "insert", "ready"} => r \notin draft[u].spoiled,
             UNCHANGED <<draft, making, rowsMade, library>>, stored' \subseteq assetRows',
             making[u] # "row"
      PROVE  TemplatesFollow' /\ Adds(u)
  <2>1. /\ part' \in [Authors -> [Roles -> {"look", "store", "insert", "ready", "lost"}]]
        /\ part'[u][r] = place /\ \A q \in Roles \ {r} : part'[u][q] = part[u][q]
        /\ \A v \in Authors \ {u} : part'[v] = part[v]
    BY <1>1, <1>5, BecomesOne
  <2>2. Adds(u)
    BY <1>1, <1>5, <2>1 DEF Adds, AuthorTypeOK
  <2>3. AuthorFollows(u)'
    BY <1>1, <1>5, <2>1 DEF AuthorFollows
  <2>4. ~Created(u) /\ ~Created(u)'
    BY <1>5, UnfinishedCreatesNothing DEF Created
  <2> QED BY <1>5, <2>2, <2>3, <2>4, NothingCreated
<1>6. ASSUME NEW r \in Roles, part[u][r] # "ready" PROVE making[u] # "row"
  BY <1>1, <1>6 DEF AuthorFollows
<1>7. ASSUME NEW r \in Roles, LookUp(u, r) PROVE TemplatesFollow' /\ Adds(u)
  <2>1. UNCHANGED <<draft, making, assetVars, rowsMade, library>> /\ part[u][r] = "look"
    BY <1>7 DEF LookUp
  <2>2. PICK place \in {"lost", "ready", "store"} :
            Becomes(u, r, place) /\ (place # "lost" => r \notin draft[u].spoiled)
    BY <1>7 DEF LookUp
  <2> QED BY <1>1, <1>5, <1>6, <2>1, <2>2 DEF assetVars, AuthorTypeOK
<1>8. ASSUME NEW r \in Roles, StoreBlob(u, r) PROVE TemplatesFollow' /\ Adds(u)
  <2>1. UNCHANGED <<draft, making, assetVars, rowsMade, library>> /\ part[u][r] = "store"
    BY <1>8 DEF StoreBlob
  <2>2. PICK place \in {"insert", "lost"} : Becomes(u, r, place)
    BY <1>8 DEF StoreBlob
  <2> QED BY <1>1, <1>5, <1>6, <2>1, <2>2 DEF assetVars, AuthorTypeOK, AuthorFollows
<1>9. ASSUME NEW r \in Roles, InsertAsset(u, r) PROVE TemplatesFollow' /\ Adds(u)
  <2>1. UNCHANGED <<draft, making, rowsMade, library>> /\ part[u][r] = "insert"
    BY <1>9 DEF InsertAsset
  <2>2. stored' \subseteq assetRows'
    BY <1>1, <1>9 DEF InsertAsset, assetVars, AuthorTypeOK
  <2>3. PICK place \in {"ready", "lost"} : Becomes(u, r, place)
    BY <1>9 DEF InsertAsset
  <2> QED BY <1>1, <1>5, <1>6, <2>1, <2>2, <2>3 DEF AuthorFollows
<1> QED BY <1>2, <1>3, <1>4, <1>7, <1>8, <1>9 DEF AuthorStep

\* What the ingestion does with the rows of assets is nothing to the templates.
LEMMA FoldersLeaveTemplates ==
    ASSUME TemplatesFollow, FolderStep
    PROVE  TemplatesFollow' /\ UNCHANGED <<rowsMade, library>>
<1>1. UNCHANGED <<draft, making, part, rowsMade, library>>
  BY DEF FolderStep, IngestRow, IngestFile, CleanUp, requestVars
<1>2. stored' \subseteq assetRows'
  BY DEF FolderStep, IngestRow, IngestFile, CleanUp, TemplatesFollow, AuthorTypeOK
<1> QED BY <1>1, <1>2 DEF TemplatesFollow, AuthorTypeOK, AuthorFollows, TemplatesAreCreatedWhole,
                         Created

---------------------------------------------------------------------------
(* The order of the rules for flashcards. *)

\* Every rule there may be.
Rules == RuleRows \cup {SyntheticRule(t) : t \in DOMAIN Catalog}

\* What a function makes of a finite set is finite.
LEMMA ImageIsFinite ==
    ASSUME NEW S, IsFiniteSet(S), NEW f, DOMAIN f = S, f = [x \in S |-> f[x]]
    PROVE  IsFiniteSet({f[x] : x \in S})
<1> DEFINE T == {f[x] : x \in S}
<1>1. f \in Surjection(S, T)
  BY DEF Surjection
<1> HIDE DEF T
<1>2. IsFiniteSet(T)
  BY <1>1, FS_Surjection
<1> QED BY <1>2 DEF T

\* What a rule says of itself.
LEMMA RulesAre ==
    /\ IsFiniteSet(Rules)
    /\ \A r \in Rules : r.template \in DOMAIN Catalog /\ r.id \in Int /\ r.priority \in Int
    /\ \A r, s \in Rules : r.id = s.id => r = s
<1> DEFINE Synthetic == {SyntheticRule(t) : t \in DOMAIN Catalog}
<1>1. ASSUME NEW t \in DOMAIN Catalog
      PROVE  /\ SyntheticRule(t).template = t /\ SyntheticRule(t).id = SyntheticId[t]
             /\ SyntheticRule(t).priority = 50
  BY DEF SyntheticRule
<1>2. IsFiniteSet(Synthetic)
  <2> DEFINE f == [t \in DOMAIN Catalog |-> SyntheticRule(t)]
  <2>1. IsFiniteSet(DOMAIN Catalog)
    BY RankingAssumption
  <2>2. Synthetic = {f[t] : t \in DOMAIN Catalog}
    OBVIOUS
  <2>3. DOMAIN f = DOMAIN Catalog /\ f = [t \in DOMAIN Catalog |-> f[t]]
    OBVIOUS
  <2> HIDE DEF f, Synthetic
  <2> QED BY <2>1, <2>2, <2>3, ImageIsFinite
<1>3. \A r \in Synthetic : \E t \in DOMAIN Catalog : r = SyntheticRule(t)
  OBVIOUS
<1> HIDE DEF Synthetic
<1>4. IsFiniteSet(Rules)
  BY <1>2, SelectionAssumption, FS_Union DEF Rules, Synthetic
<1>5. ASSUME NEW r \in Rules PROVE r.template \in DOMAIN Catalog /\ r.id \in Int /\ r.priority \in Int
  <2>1. CASE r \in RuleRows
    BY <2>1, SelectionAssumption
  <2>2. CASE r \in Synthetic
    <3>1. PICK t \in DOMAIN Catalog : r = SyntheticRule(t)
      BY <1>3, <2>2
    <3> QED BY <1>1, <3>1, SelectionAssumption
  <2> QED BY <2>1, <2>2 DEF Rules, Synthetic
<1>6. ASSUME NEW r \in Rules, NEW s \in Rules, r.id = s.id PROVE r = s
  <2>1. r \in RuleRows \/ \E t \in DOMAIN Catalog : r = SyntheticRule(t)
    BY <1>3 DEF Rules, Synthetic
  <2>2. s \in RuleRows \/ \E t \in DOMAIN Catalog : s = SyntheticRule(t)
    BY <1>3 DEF Rules, Synthetic
  <2>3. CASE r \in RuleRows /\ s \in RuleRows
    BY <1>6, <2>3, SelectionAssumption
  <2>4. CASE r \notin RuleRows /\ s \notin RuleRows
    <3>1. PICK t \in DOMAIN Catalog, u \in DOMAIN Catalog : r = SyntheticRule(t) /\ s = SyntheticRule(u)
      BY <2>1, <2>2, <2>4
    <3>2. SyntheticId[t] = SyntheticId[u]
      BY <1>1, <1>6, <3>1
    <3> QED BY <3>1, <3>2, SelectionAssumption
  <2>5. CASE r \in RuleRows /\ s \notin RuleRows
    <3>1. PICK u \in DOMAIN Catalog : s = SyntheticRule(u)
      BY <2>2, <2>5
    <3> QED BY <1>1, <1>6, <2>5, <3>1, SelectionAssumption
  <2>6. CASE r \notin RuleRows /\ s \in RuleRows
    <3>1. PICK u \in DOMAIN Catalog : r = SyntheticRule(u)
      BY <2>1, <2>6
    <3> QED BY <1>1, <1>6, <2>6, <3>1, SelectionAssumption
  <2> QED BY <2>3, <2>4, <2>5, <2>6
<1> QED BY <1>4, <1>5, <1>6

\* The tier of an age is a number.
LEMMA TierIsNat == ASSUME NEW r, NEW q PROVE Tier(r, q) \in Nat
<1>1. \A groups, band : AgeTier(groups, band) \in Nat
  BY DEF AgeTier
<1> QED BY <1>1 DEF Tier

\* A finite set of numbers that is not empty has a greatest.
LEMMA GreatestExists ==
    ASSUME NEW S, IsFiniteSet(S), S # {}, \A n \in S : n \in Nat
    PROVE  \E n \in S : \A m \in S : m <= n
<1> DEFINE R == {e \in S \X S : e[1] > e[2]}
<1>1. \A a, b \in S : <<a, b>> \in R <=> a > b
  OBVIOUS
<1> HIDE DEF R
<1>2. \A a \in S : <<a, a>> \notin R
  BY <1>1
<1>3. \A a, b \in S : a # b => <<a, b>> \in R \/ <<b, a>> \in R
  BY <1>1
<1>4. \A a, b, c \in S : <<a, b>> \in R /\ <<b, c>> \in R => <<a, c>> \in R
  BY <1>1
<1>5. \E n \in S : \A m \in S \ {n} : <<n, m>> \in R
  BY <1>2, <1>3, <1>4, FirstExists
<1>6. PICK n \in S : \A m \in S \ {n} : n > m
  BY <1>1, <1>5
<1>7. \A m \in S : m <= n
  BY <1>6
<1> QED BY <1>7

\* The end of a younger group is a number.
LEMMA YoungerMaxIsNat == ASSUME NEW r, r.template \in DOMAIN Catalog, NEW q PROVE YoungerMax(r, q) \in Nat
<1> DEFINE G == {g \in Template(r).groups : Younger(g, Requested(q))}
           ends == {g[2] : g \in G}
<1>1. YoungerMax(r, q) = IF ends = {} THEN 0 ELSE CHOOSE n \in ends : \A m \in ends : m <= n
  BY DEF YoungerMax
<1>2. IsFiniteSet(G) /\ \A g \in G : g[2] \in Nat
  <2>1. IsFiniteSet(Template(r).groups)
    BY RankingAssumption DEF Template
  <2>2. \A g \in G : g \in Template(r).groups /\ g # <<>>
    BY DEF Younger, Unread
  <2>3. G \in SUBSET Template(r).groups
    OBVIOUS
  <2> QED BY <2>1, <2>2, <2>3, RankingAssumption, FS_Subset DEF Template
<1> HIDE DEF G
<1>3. IsFiniteSet(ends) /\ ends \in SUBSET Nat
  <2> DEFINE f == [g \in G |-> g[2]]
  <2>1. ends = {f[g] : g \in G}
    OBVIOUS
  <2>2. ends \in SUBSET Nat
    BY <1>2
  <2>3. DOMAIN f = G /\ f = [g \in G |-> f[g]]
    OBVIOUS
  <2> HIDE DEF f, ends
  <2> QED BY <1>2, <2>1, <2>2, <2>3, ImageIsFinite
<1> HIDE DEF ends
<1>4. CASE ends # {}
  <2>1. \E n \in ends : \A m \in ends : m <= n
    BY <1>3, <1>4, GreatestExists
  <2> QED BY <1>1, <1>3, <1>4, <2>1
<1> QED BY <1>1, <1>4

\* So are the other keys of the sort.
LEMMA KeysAreInts ==
    ASSUME NEW r \in Rules, NEW q, NEW P
    PROVE  Fit(r, q, P) \in [1..8 -> Int] /\ Rest(r, q, P) \in [1..3 -> Int]
<1>0. r.template \in DOMAIN Catalog /\ r.id \in Int /\ r.priority \in Int
  BY RulesAre
<1>1. PICK tier \in Nat, younger \in Nat : tier = Tier(r, q) /\ younger = YoungerMax(r, q)
  BY <1>0, TierIsNat, YoungerMaxIsNat
<1>2. PICK objective \in Nat : objective = ObjectiveRank(r, q, P)
  <2>1. objectiveRelevance(r, q) \in Nat
    BY DEF objectiveRelevance
  <2> QED BY <2>1 DEF ObjectiveRank
<1>3. \A b : Flag(b) \in Nat
  BY DEF Flag
<1>4. PICK f1, f2, f3, f4, f5 \in Nat :
          /\ f1 = Flag(objectiveRelevance(r, q) = 3) /\ f2 = Flag(ExactAge(r, q))
          /\ f3 = Flag(Exact(r.grades, q.grade, LabelKey)) /\ f4 = Flag(ExactSubject(r, q))
          /\ f5 = Flag(ExactDifficulty(r, q))
  BY <1>3
<1>5. PICK boost \in Int : boost = ObjectiveBoost(r, q)
  BY DEF ObjectiveBoost
<1>6. Fit(r, q, P) = <<tier, younger, objective, f1, f2, f3, f4, f5>>
  BY <1>1, <1>2, <1>4 DEF Fit
<1>7. Score(r, q, P) = tier * 2000 + younger + objective * 1000 + f2 * 500 + f3 * 300 + f4 * 200
                       + f5 * 100 + r.priority + boost
  BY <1>1, <1>2, <1>4, <1>5 DEF Score
<1>8. PICK total \in Int : total = Score(r, q, P)
  BY <1>0, <1>7
<1>9. Rest(r, q, P) = <<-r.priority, total, -r.id>>
  BY <1>8 DEF Rest
<1> QED BY <1>0, <1>6, <1>9

---------------------------------------------------------------------------
(* The order of the versions, and of the rules. *)

Version(v) == v.parts \in Seq(Nat) /\ v.text \in Int
\* The first place at which one has the greater part.
GreaterAt(v, w, i) ==
    i \in Nat \ {0} /\ Part(v, i) > Part(w, i) /\ \A j \in 1..(i - 1) : Part(v, j) = Part(w, j)
EvenParts(v, w) == \A i \in Nat \ {0} : Part(v, i) = Part(w, i)

\* A part is a number, and zero behind the last.
LEMMA PartsAre ==
    ASSUME NEW v, Version(v), NEW i \in Nat \ {0}
    PROVE  Part(v, i) \in Nat /\ (i > Len(v.parts) => Part(v, i) = 0)
<1>1. PICK n \in Nat : n = Len(v.parts) /\ \A j \in 1..n : v.parts[j] \in Nat
  BY DEF Version
<1>2. i <= n => i \in 1..n
  OBVIOUS
<1> QED BY <1>1, <1>2 DEF Part

\* How far two versions are looked at does not matter.
LEMMA NewerMeans ==
    ASSUME NEW v, Version(v), NEW w, Version(w)
    PROVE  Newer(v, w) <=> (\E i : GreaterAt(v, w, i)) \/ (EvenParts(v, w) /\ v.text > w.text)
<1> DEFINE n == IF Len(v.parts) > Len(w.parts) THEN Len(v.parts) ELSE Len(w.parts)
           differ == {i \in 1..n : Part(v, i) # Part(w, i)}
<1>1. Newer(v, w) <=> \/ \E i \in differ : Part(v, i) > Part(w, i) /\ \A j \in differ : i <= j
                      \/ differ = {} /\ v.text > w.text
  BY DEF Newer
<1>2. n \in Nat /\ n >= Len(v.parts) /\ n >= Len(w.parts)
  BY DEF Version
<1>3. \A i \in Nat \ {0} : Part(v, i) \in Nat /\ Part(w, i) \in Nat /\ (i > n => Part(v, i) = Part(w, i))
  <2>1. Len(v.parts) \in Nat /\ Len(w.parts) \in Nat
    BY DEF Version
  <2> HIDE DEF n
  <2> SUFFICES ASSUME NEW i \in Nat \ {0}
               PROVE  Part(v, i) \in Nat /\ Part(w, i) \in Nat /\ (i > n => Part(v, i) = Part(w, i))
    OBVIOUS
  <2>2. i > n => i > Len(v.parts) /\ i > Len(w.parts)
    BY <1>2, <2>1
  <2> QED BY <2>2, PartsAre
<1> HIDE DEF n
<1>4. \A i : i \in differ <=> i \in Nat \ {0} /\ i <= n /\ Part(v, i) # Part(w, i)
  BY <1>2
<1> HIDE DEF differ
<1>5. differ = {} <=> EvenParts(v, w)
  <2>1. ASSUME differ = {}, NEW i \in Nat \ {0} PROVE Part(v, i) = Part(w, i)
    <3>1. i > n \/ i <= n
      BY <1>2
    <3>2. i \notin differ
      BY <2>1
    <3> QED BY <1>3, <1>4, <3>1, <3>2
  <2>2. ASSUME EvenParts(v, w) PROVE differ = {}
    BY <1>4, <2>2 DEF EvenParts
  <2> QED BY <2>1, <2>2 DEF EvenParts
<1>6. ASSUME NEW i \in differ, Part(v, i) > Part(w, i), \A j \in differ : i <= j PROVE GreaterAt(v, w, i)
  <2>1. i \in Nat \ {0} /\ i <= n
    BY <1>4
  <2>2. ASSUME NEW j \in 1..(i - 1) PROVE Part(v, j) = Part(w, j)
    <3>1. j \in Nat \ {0} /\ j < i /\ j <= n
      BY <1>2, <2>1
    <3> QED BY <1>4, <1>6, <2>1, <3>1
  <2> QED BY <1>6, <2>1, <2>2 DEF GreaterAt
<1>7. ASSUME NEW i, GreaterAt(v, w, i)
      PROVE  i \in differ /\ Part(v, i) > Part(w, i) /\ \A j \in differ : i <= j
  <2>1. i \in Nat \ {0} /\ Part(v, i) > Part(w, i) /\ \A j \in 1..(i - 1) : Part(v, j) = Part(w, j)
    BY <1>7 DEF GreaterAt
  <2>2. Part(v, i) # Part(w, i)
    BY <1>3, <2>1
  <2>3. i \in differ
    <3>1. i > n \/ i <= n
      BY <1>2, <2>1
    <3> QED BY <1>3, <1>4, <2>1, <2>2, <3>1
  <2>4. ASSUME NEW j \in differ, ~(i <= j) PROVE FALSE
    <3>1. j \in Nat \ {0} /\ Part(v, j) # Part(w, j)
      BY <1>4
    <3>2. j \in 1..(i - 1)
      BY <2>1, <2>4, <3>1
    <3> QED BY <2>1, <3>1, <3>2
  <2> QED BY <2>1, <2>3, <2>4
<1> QED BY <1>1, <1>5, <1>6, <1>7

\* Of two different versions one is newer; none is newer than itself.
LEMMA NewerOrders ==
    ASSUME NEW u, Version(u), NEW v, Version(v), NEW w, Version(w)
    PROVE  /\ ~Newer(u, u)
           /\ u.text # v.text => Newer(u, v) \/ Newer(v, u)
           /\ Newer(u, v) /\ Newer(v, w) => Newer(u, w)
<1>0. u.text \in Int /\ v.text \in Int /\ w.text \in Int
  BY DEF Version
<1>1. \A i \in Nat \ {0} : Part(u, i) \in Nat /\ Part(v, i) \in Nat /\ Part(w, i) \in Nat
  BY PartsAre
<1>2. ~Newer(u, u)
  <2>1. \A i : ~GreaterAt(u, u, i)
    BY <1>1 DEF GreaterAt
  <2> QED BY <1>0, <2>1, NewerMeans
<1>3. ASSUME u.text # v.text PROVE Newer(u, v) \/ Newer(v, u)
  <2>1. CASE EvenParts(u, v)
    <3>1. EvenParts(v, u) /\ (u.text > v.text \/ v.text > u.text)
      BY <1>0, <1>3, <2>1 DEF EvenParts
    <3> QED BY <2>1, <3>1, NewerMeans
  <2>2. CASE ~EvenParts(u, v)
    <3> DEFINE D == {i \in Nat \ {0} : Part(u, i) # Part(v, i)}
    <3>1. D \in SUBSET Nat
      OBVIOUS
    <3>2. D # {}
      <4>1. PICK i \in Nat \ {0} : Part(u, i) # Part(v, i)
        BY <2>2 DEF EvenParts
      <4>2. i \in D
        BY <4>1
      <4> QED BY <4>2
    <3>3. PICK m \in D : \A i \in D : m <= i
      <4> HIDE DEF D
      <4> QED BY <3>1, <3>2, LeastNatural
    <3>4. m \in Nat \ {0} /\ Part(u, m) # Part(v, m)
      OBVIOUS
    <3>5. ASSUME NEW j \in 1..(m - 1) PROVE Part(u, j) = Part(v, j)
      <4>1. j \in Nat \ {0} /\ ~(m <= j)
        BY <3>4
      <4> QED BY <3>3, <4>1
    <3>6. GreaterAt(u, v, m) \/ GreaterAt(v, u, m)
      BY <1>1, <3>4, <3>5 DEF GreaterAt
    <3> QED BY <3>6, NewerMeans
  <2> QED BY <2>1, <2>2
<1>4. ASSUME Newer(u, v), Newer(v, w) PROVE Newer(u, w)
  <2>1. CASE EvenParts(u, v) /\ EvenParts(v, w)
    <3>1. \A i : ~GreaterAt(u, v, i) /\ ~GreaterAt(v, w, i)
      BY <1>1, <2>1 DEF EvenParts, GreaterAt
    <3>2. u.text > v.text /\ v.text > w.text
      BY <1>4, <3>1, NewerMeans
    <3>3. EvenParts(u, w)
      BY <2>1 DEF EvenParts
    <3> QED BY <1>0, <3>2, <3>3, NewerMeans
  <2>2. ASSUME NEW i, GreaterAt(u, v, i), EvenParts(v, w) PROVE Newer(u, w)
    <3>1. i \in Nat \ {0} /\ \A j \in 1..(i - 1) : j \in Nat \ {0}
      BY <2>2 DEF GreaterAt
    <3>2. GreaterAt(u, w, i)
      BY <2>2, <3>1 DEF GreaterAt, EvenParts
    <3> QED BY <3>2, NewerMeans
  <2>3. ASSUME NEW i, GreaterAt(v, w, i), EvenParts(u, v) PROVE Newer(u, w)
    <3>1. i \in Nat \ {0} /\ \A j \in 1..(i - 1) : j \in Nat \ {0}
      BY <2>3 DEF GreaterAt
    <3>2. GreaterAt(u, w, i)
      BY <2>3, <3>1 DEF GreaterAt, EvenParts
    <3> QED BY <3>2, NewerMeans
  <2>4. ASSUME NEW i, GreaterAt(u, v, i), NEW k, GreaterAt(v, w, k) PROVE Newer(u, w)
    <3>1. i \in Nat \ {0} /\ Part(u, i) > Part(v, i) /\ \A j \in 1..(i - 1) : Part(u, j) = Part(v, j)
      BY <2>4 DEF GreaterAt
    <3>2. k \in Nat \ {0} /\ Part(v, k) > Part(w, k) /\ \A j \in 1..(k - 1) : Part(v, j) = Part(w, j)
      BY <2>4 DEF GreaterAt
    <3>3. CASE i = k
      <4>1. Part(u, i) > Part(w, i)
        BY <1>1, <3>1, <3>2, <3>3
      <4>2. \A j \in 1..(i - 1) : Part(u, j) = Part(w, j)
        BY <3>1, <3>2, <3>3
      <4> QED BY <3>1, <4>1, <4>2, NewerMeans DEF GreaterAt
    <3>4. CASE i < k
      <4>1. i \in 1..(k - 1) /\ \A j \in 1..(i - 1) : j \in 1..(k - 1)
        BY <3>1, <3>2, <3>4
      <4>2. GreaterAt(u, w, i)
        BY <3>1, <3>2, <4>1 DEF GreaterAt
      <4> QED BY <4>2, NewerMeans
    <3>5. CASE k < i
      <4>1. k \in 1..(i - 1) /\ \A j \in 1..(k - 1) : j \in 1..(i - 1)
        BY <3>1, <3>2, <3>5
      <4>2. GreaterAt(u, w, k)
        BY <3>1, <3>2, <4>1 DEF GreaterAt
      <4> QED BY <4>2, NewerMeans
    <3> QED BY <3>1, <3>2, <3>3, <3>4, <3>5
  <2>5. ((\E i : GreaterAt(u, v, i)) \/ EvenParts(u, v)) /\ ((\E i : GreaterAt(v, w, i)) \/ EvenParts(v, w))
    BY <1>4, NewerMeans
  <2> QED BY <2>1, <2>2, <2>3, <2>4, <2>5
<1> QED BY <1>2, <1>3, <1>4

\* So the rules are in a strict order, whatever pool they are in.
LEMMA BeforeOrders ==
    ASSUME NEW r \in Rules, NEW s \in Rules, NEW t \in Rules, NEW q, NEW P
    PROVE  /\ ~Before(r, r, q, P)
           /\ r # s => Before(r, s, q, P) \/ Before(s, r, q, P)
           /\ Before(r, s, q, P) /\ Before(s, t, q, P) => Before(r, t, q, P)
<1>1. PICK a \in [1..8 -> Int], b \in [1..8 -> Int], c \in [1..8 -> Int] :
          a = Fit(r, q, P) /\ b = Fit(s, q, P) /\ c = Fit(t, q, P)
  BY KeysAreInts
<1>2. PICK i \in [1..3 -> Int], j \in [1..3 -> Int], k \in [1..3 -> Int] :
          i = Rest(r, q, P) /\ j = Rest(s, q, P) /\ k = Rest(t, q, P)
  BY KeysAreInts
<1>3. PICK u, v, w : u = Template(r).version /\ v = Template(s).version /\ w = Template(t).version
  OBVIOUS
<1>4. Version(u) /\ Version(v) /\ Version(w) /\ (u.text = v.text => u = v)
  <2>1. r.template \in DOMAIN Catalog /\ s.template \in DOMAIN Catalog /\ t.template \in DOMAIN Catalog
    BY RulesAre
  <2> QED BY <1>3, <2>1, RankingAssumption DEF Version, Template
<1>5. /\ ~Ahead(a, a) /\ (a # b => Ahead(a, b) \/ Ahead(b, a))
      /\ (Ahead(a, b) /\ Ahead(b, c) => Ahead(a, c))
  <2>1. 8 \in Nat
    OBVIOUS
  <2> QED BY <2>1, AheadOrders
<1>6. /\ ~Ahead(i, i) /\ (i # j => Ahead(i, j) \/ Ahead(j, i))
      /\ (Ahead(i, j) /\ Ahead(j, k) => Ahead(i, k))
  <2>1. 3 \in Nat
    OBVIOUS
  <2> QED BY <2>1, AheadOrders
<1>7. ~Newer(u, u) /\ (u # v => Newer(u, v) \/ Newer(v, u)) /\ (Newer(u, v) /\ Newer(v, w) => Newer(u, w))
  BY <1>4, NewerOrders
<1>8. r # s => i # j
  <2>1. i[3] = -r.id /\ j[3] = -s.id /\ r.id \in Int /\ s.id \in Int
    BY <1>2, RulesAre DEF Rest
  <2> QED BY <2>1, RulesAre
<1>9. /\ Before(r, r, q, P) <=> Ahead(a, a) \/ Newer(u, u) \/ Ahead(i, i)
      /\ Before(r, s, q, P) <=> Ahead(a, b) \/ (a = b /\ Newer(u, v)) \/ (a = b /\ u = v /\ Ahead(i, j))
      /\ Before(s, r, q, P) <=> Ahead(b, a) \/ (b = a /\ Newer(v, u)) \/ (b = a /\ v = u /\ Ahead(j, i))
      /\ Before(s, t, q, P) <=> Ahead(b, c) \/ (b = c /\ Newer(v, w)) \/ (b = c /\ v = w /\ Ahead(j, k))
      /\ Before(r, t, q, P) <=> Ahead(a, c) \/ (a = c /\ Newer(u, w)) \/ (a = c /\ u = w /\ Ahead(i, k))
  BY <1>1, <1>2, <1>3 DEF Before
<1> QED BY <1>5, <1>6, <1>7, <1>8, <1>9

\* The first of some rules is one of them, and before every other.
LEMMA FirstIsFirst ==
    ASSUME NEW S \in SUBSET Rules, S # {}, NEW q, NEW P
    PROVE  First(S, q, P) \in S /\ \A s \in S \ {First(S, q, P)} : Before(First(S, q, P), s, q, P)
<1> DEFINE R == {e \in S \X S : Before(e[1], e[2], q, P)}
<1>1. \A r, s \in S : <<r, s>> \in R <=> Before(r, s, q, P)
  OBVIOUS
<1>2. IsFiniteSet(S)
  BY RulesAre, FS_Subset
<1> HIDE DEF R
<1>3. /\ \A r \in S : <<r, r>> \notin R
      /\ \A r, s \in S : r # s => <<r, s>> \in R \/ <<s, r>> \in R
      /\ \A r, s, t \in S : <<r, s>> \in R /\ <<s, t>> \in R => <<r, t>> \in R
  BY <1>1, BeforeOrders
<1>4. PICK r \in S : \A s \in S \ {r} : <<r, s>> \in R
  BY <1>2, <1>3, FirstExists
<1>5. \E r_1 \in S : \A s \in S \ {r_1} : Before(r_1, s, q, P)
  BY <1>1, <1>4
<1> QED BY <1>5 DEF First

\* Nobody is in a higher tier than the first.
LEMMA FirstFitsBest ==
    ASSUME NEW S \in SUBSET Rules, S # {}, NEW q, NEW P, NEW s \in S
    PROVE  Tier(s, q) <= Tier(First(S, q, P), q)
<1>1. PICK r \in S : r = First(S, q, P) /\ \A o \in S \ {r} : Before(r, o, q, P)
  BY FirstIsFirst
<1>2. Tier(r, q) \in Nat /\ Tier(s, q) \in Nat
  BY TierIsNat
<1>3. CASE s # r
  <2>1. PICK a \in [1..8 -> Int], b \in [1..8 -> Int] :
            /\ a = Fit(r, q, P) /\ b = Fit(s, q, P) /\ a[1] = Tier(r, q) /\ b[1] = Tier(s, q)
    <3>1. Fit(r, q, P) \in [1..8 -> Int] /\ Fit(s, q, P) \in [1..8 -> Int]
      BY KeysAreInts
    <3>2. Fit(r, q, P)[1] = Tier(r, q) /\ Fit(s, q, P)[1] = Tier(s, q)
      BY DEF Fit
    <3> QED BY <3>1, <3>2
  <2>2. Ahead(a, b) \/ a = b
    BY <1>1, <1>3, <2>1 DEF Before
  <2>3. ASSUME Ahead(a, b) PROVE a[1] >= b[1]
    <3>1. PICK i \in 1..8 : a[i] > b[i] /\ \A j \in 1..(i - 1) : a[j] = b[j]
      BY <2>3 DEF Ahead
    <3>2. i = 1 \/ 1 \in 1..(i - 1)
      OBVIOUS
    <3> QED BY <3>1, <3>2
  <2> QED BY <1>1, <1>2, <2>1, <2>2, <2>3
<1> QED BY <1>1, <1>2, <1>3

---------------------------------------------------------------------------
(* The choice of a rule for flashcards. *)

Consulting == {"ai", "snapshot", "build", "store", "call", "row", "catch"}
\* Rules a request may be answered by, all of them fallbacks or none.
Ranked(P, q) ==
    /\ \A r \in P : AgeEligible(r, q) /\ passesExplicitRequestGate(r, q)
    /\ \A r, o \in P : r.isFallback => o.isFallback

\* What a selection at a place has settled on, of which rules, and what it made
\* of the model's answer.
RuleFits(p, q, P, c, v) ==
    /\ P \subseteq Rules
    /\ p \in {"read", "rank"} => c = NoRule
    /\ p \in Consulting \/ c # NoRule =>
          /\ Ranked(P, q) /\ c \in P
          /\ v.kind # "ok" \/ p = "row" => \A o \in P : Tier(o, q) <= Tier(c, q)
    /\ p = "row" /\ v.kind = "ok" => \E r \in P : r.template = v.pick
RuleFollows(s) == RuleFits(at[s], request[s], pool[s], choice[s], verdict[s])
RuleTypes ==
    /\ DOMAIN pool = Selections /\ DOMAIN choice = Selections
    /\ active \subseteq templates /\ templates \subseteq DOMAIN Catalog
    /\ \A s \in Selections : Requested(request[s]) \in Nat \X Nat

\* What a step of a selection has to keep.
RuleContinues(s) ==
    /\ RuleFollows(s)' /\ request' = request /\ templates' = templates /\ active' = active
    /\ DOMAIN pool' = Selections /\ DOMAIN choice' = Selections
    /\ \A r \in Selections \ {s} : pool'[r] = pool[r] /\ choice'[r] = choice[r]

\* The rules that are left may answer.
LEMMA PoolIsRanked ==
    ASSUME NEW S, NEW q PROVE Pool(S, q) \subseteq S /\ Ranked(Pool(S, q), q)
<1>1. Pool(S, q) \subseteq S
  BY DEF Pool
<1>2. \E fallback : \A r \in Pool(S, q) : Eligible(r, q, fallback)
  <2> DEFINE others == {r \in S : Eligible(r, q, FALSE)}
  <2>1. CASE others # {}
    BY <2>1 DEF Pool
  <2>2. CASE others = {}
    <3>1. Pool(S, q) = {r \in S : Eligible(r, q, TRUE)}
      BY <2>2 DEF Pool
    <3>2. \A r \in Pool(S, q) : Eligible(r, q, TRUE)
      BY <3>1
    <3> QED BY <3>2
  <2> QED BY <2>1, <2>2
<1>3. PICK fallback : \A r \in Pool(S, q) : Eligible(r, q, fallback)
  BY <1>2
<1>4. ASSUME NEW r \in Pool(S, q)
      PROVE  r.isFallback = fallback /\ AgeEligible(r, q) /\ passesExplicitRequestGate(r, q)
  BY <1>3 DEF Eligible
<1> QED BY <1>1, <1>4 DEF Ranked

\* Every step of a selection keeps its rule among those that may answer.
LEMMA SelectionRanks ==
    ASSUME CallTypes, RuleTypes, NEW s \in Selections, RuleFollows(s), FlashCallFollows(s),
           SelectionStep(s)
    PROVE  RuleContinues(s)
<1>t. DOMAIN at = Selections /\ DOMAIN pool = Selections /\ DOMAIN choice = Selections
      /\ DOMAIN verdict = Selections
  BY DEF CallTypes, RuleTypes
<1>f. RuleFits(at[s], request[s], pool[s], choice[s], verdict[s])
  BY DEF RuleFollows
\* A step that changes no more than the place, and perhaps the verdict.
<1>1. ASSUME NEW place, Move(s, place), UNCHANGED <<request, pool, choice, templates, active>>,
             \/ verdict' = verdict
             \/ \E kind, pick : verdict' = [verdict EXCEPT ![s] = [kind |-> kind, pick |-> pick]],
             RuleFits(place, request[s], pool[s], choice[s], verdict'[s])
      PROVE  RuleContinues(s)
  <2>1. at'[s] = place
    BY <1>1, <1>t DEF Move
  <2> QED BY <1>1, <1>t, <2>1 DEF RuleContinues, RuleFollows
\* A step between two places of the same kind.
<1>2. ASSUME NEW place, Move(s, place), UNCHANGED <<request, pool, choice, templates, active, verdict>>,
             place \notin {"read", "rank", "row"},
             place \in Consulting => at[s] \in Consulting
      PROVE  RuleContinues(s)
  <2>1. RuleFits(place, request[s], pool[s], choice[s], verdict[s])
    BY <1>f, <1>2 DEF RuleFits
  <2> QED BY <1>1, <1>2, <2>1
<1>3. CASE ReadRules(s) \/ ReadTemplates(s)
  <2>1. at[s] = "read" /\ UNCHANGED <<request, choice, templates, active>>
    BY <1>3 DEF ReadRules, ReadTemplates, tables
  <2>2. \E P \in SUBSET Rules : pool' = [pool EXCEPT ![s] = P]
    <3>1. pool[s] \subseteq Rules /\ active \subseteq DOMAIN Catalog
      BY <1>f DEF RuleFits, RuleTypes
    <3>2. CASE ReadRules(s)
      <4> DEFINE read == {r \in RuleRows : r.template \in active}
                 own == {r.template : r \in read}
                 P == read \cup {r \in pool[s] : r.template \notin own}
      <4>1. pool' = [pool EXCEPT ![s] = P]
        BY <3>2, <1>t DEF ReadRules
      <4>2. P \subseteq Rules
        BY <3>1 DEF Rules
      <4> QED BY <4>1, <4>2
    <3>3. CASE ReadTemplates(s)
      <4> DEFINE P == pool[s] \cup {SyntheticRule(t) : t \in WithoutRules(s)}
      <4>1. pool' = [pool EXCEPT ![s] = P]
        BY <3>3, <1>t DEF ReadTemplates
      <4>2. P \subseteq Rules
        BY <3>1 DEF Rules, WithoutRules
      <4> QED BY <4>1, <4>2
    <3> QED BY <1>3, <3>2, <3>3
  <2>3. PICK P \in SUBSET Rules : pool' = [pool EXCEPT ![s] = P]
    BY <2>2
  <2>4. PICK place \in {"read", "rank"} : Move(s, place)
    BY <1>3 DEF ReadRules, ReadTemplates
  <2>5. at'[s] = place /\ pool'[s] = P /\ choice[s] = NoRule
    BY <1>t, <1>f, <2>1, <2>3, <2>4 DEF Move, RuleFits
  <2>6. place \notin Consulting /\ place # "row"
    BY <2>4 DEF Consulting
  <2>7. \A v : RuleFits(place, request[s], P, NoRule, v)
    BY <2>6 DEF RuleFits
  <2> QED BY <1>t, <2>1, <2>3, <2>5, <2>7 DEF RuleContinues, RuleFollows
<1>4. CASE Rank(s)
  <2> DEFINE P == Pool(pool[s], request[s])
  <2>1. /\ at[s] = "rank" /\ UNCHANGED <<request, verdict, templates, active>>
        /\ choice[s] = NoRule /\ pool[s] \subseteq Rules
    BY <1>4, <1>f DEF Rank, tables, RuleFits
  <2>2. P \in SUBSET Rules /\ Ranked(P, request[s])
    BY <2>1, PoolIsRanked
  <2>3. /\ P = {} => Move(s, "failed") /\ UNCHANGED <<pool, choice>>
        /\ P # {} => /\ Move(s, "ai") /\ pool' = [pool EXCEPT ![s] = P]
                     /\ choice' = [choice EXCEPT ![s] = First(P, request[s], P)]
    BY <1>4 DEF Rank
  <2> HIDE DEF P
  <2>4. CASE P = {}
    <3>1. "failed" \notin {"read", "rank", "row"} \cup Consulting
      BY DEF Consulting
    <3> QED BY <1>2, <2>1, <2>3, <2>4, <3>1
  <2>5. CASE P # {}
    <3>1. First(P, request[s], P) \in P
      BY <2>2, <2>5, FirstIsFirst
    <3>2. \A o \in P : Tier(o, request[s]) <= Tier(First(P, request[s], P), request[s])
      BY <2>2, <2>5, FirstFitsBest
    <3>3. RuleFits("ai", request[s], P, First(P, request[s], P), verdict[s])
      BY <2>2, <3>1, <3>2 DEF RuleFits
    <3>4. at'[s] = "ai" /\ pool'[s] = P /\ choice'[s] = First(P, request[s], P)
      BY <1>t, <2>3, <2>5 DEF Move
    <3> QED BY <1>t, <2>1, <2>3, <2>5, <3>3, <3>4 DEF RuleContinues, RuleFollows
  <2> QED BY <2>4, <2>5
<1>5. CASE AskAi(s)
  <2>1. at[s] = "ai" /\ UNCHANGED <<request, pool, choice, templates, active, verdict>>
    BY <1>5 DEF AskAi, progress, tables
  <2>2. PICK place \in {"load", "snapshot"} : Move(s, place)
    BY <1>5 DEF AskAi
  <2> QED BY <1>2, <2>1, <2>2 DEF Consulting
<1>6. CASE TakeSnapshot(s)
  <2>1. at[s] = "snapshot" /\ UNCHANGED <<request, pool, choice, templates, active, verdict>>
    BY <1>6 DEF TakeSnapshot, tables
  <2>2. PICK place \in {"call", "build"} : Move(s, place)
    BY <1>6 DEF TakeSnapshot
  <2> QED BY <1>2, <2>1, <2>2 DEF Consulting
<1>7. CASE BuildSnapshot(s)
  <2>1. at[s] = "build" /\ UNCHANGED <<request, pool, choice, templates, active, verdict>> /\ Move(s, "store")
    BY <1>7 DEF BuildSnapshot, tables
  <2> QED BY <1>2, <2>1 DEF Consulting
<1>8. CASE BuildFails(s)
  <2>1. at[s] = "build" /\ UNCHANGED <<request, pool, choice, templates, active, verdict>> /\ Move(s, "failed")
    BY <1>8 DEF BuildFails, progress, tables
  <2> QED BY <1>2, <2>1 DEF Consulting
<1>9. CASE StoreSnapshot(s)
  <2>1. at[s] = "store" /\ UNCHANGED <<request, pool, choice, templates, active, verdict>> /\ Move(s, "call")
    BY <1>9 DEF StoreSnapshot, progress
  <2> QED BY <1>2, <2>1 DEF Consulting
<1>10. CASE ModelAnswers(s)
  <2>1. /\ at[s] = "call" /\ UNCHANGED <<request, pool, choice, templates, active>> /\ Move(s, "row")
        /\ verdict[s].kind # "ok"
    <3>1. at[s] = "call" => Counterpart(at[s]) = "ask"
      BY DEF Counterpart
    <3>2. SelectFits("ask", reports[s], rows[s], verdict[s].kind) => verdict[s].kind = "none"
      BY DEF SelectFits, Unasked, SelectionSteps
    <3> QED BY <1>10, <3>1, <3>2 DEF ModelAnswers, tables, FlashCallFollows
  <2>2. PICK pick, sure :
            LET kind == Judged(s, pick, sure)
            IN  verdict' = [verdict EXCEPT ![s] =
                       [kind |-> kind, pick |-> IF kind = "ok" THEN pick ELSE NoTemplate]]
    BY <1>10 DEF ModelAnswers
  <2>3. Judged(s, pick, sure) = "ok" => \E r \in pool[s] : r.template = pick
    BY DEF Judged, Allowed
  <2>4. /\ verdict'[s].kind = "ok" => \E r \in pool[s] : r.template = verdict'[s].pick
        /\ \E kind, which : verdict' = [verdict EXCEPT ![s] = [kind |-> kind, pick |-> which]]
    BY <1>t, <2>2, <2>3
  <2>5. RuleFits("row", request[s], pool[s], choice[s], verdict'[s])
    BY <1>f, <2>1, <2>4 DEF RuleFits, Consulting
  <2> QED BY <1>1, <2>1, <2>4, <2>5
\* The call, or its row, fails.
<1>11. CASE at[s] \in {"call", "row"} /\ Failure(s)
  <2>1. /\ UNCHANGED <<request, pool, choice, templates, active>> /\ Move(s, "catch")
        /\ verdict' = [verdict EXCEPT ![s] = [kind |-> "error", pick |-> NoTemplate]]
        /\ at[s] = "call" => verdict[s].kind # "ok"
    <3>1. at[s] = "call" => Counterpart(at[s]) = "ask"
      BY DEF Counterpart
    <3>2. SelectFits("ask", reports[s], rows[s], verdict[s].kind) => verdict[s].kind = "none"
      BY DEF SelectFits, Unasked, SelectionSteps
    <3> QED BY <1>11, <3>1, <3>2 DEF Failure, tables, FlashCallFollows
  <2>2. RuleFits("catch", request[s], pool[s], choice[s], verdict'[s])
    BY <1>f, <1>11, <2>1 DEF RuleFits, Consulting
  <2>3. \E kind, pick : verdict' = [verdict EXCEPT ![s] = [kind |-> kind, pick |-> pick]]
    BY <2>1
  <2> QED BY <1>1, <2>1, <2>2, <2>3
<1>12. CASE WriteRow(s)
  <2>1. /\ at[s] = "row" /\ UNCHANGED <<request, pool, templates, active, verdict>> /\ Move(s, "load")
        /\ choice' = [choice EXCEPT ![s] = IF verdict[s].kind = "ok" THEN Match(s, verdict[s].pick) ELSE @]
    BY <1>12 DEF WriteRow, tables
  <2>2. at'[s] = "load"
    BY <1>t, <2>1 DEF Move
  <2>3. "load" \notin {"read", "rank", "row"} \cup Consulting /\ "row" \in Consulting
    BY DEF Consulting
  <2>4. CASE verdict[s].kind = "ok"
    <3> DEFINE of == {r \in pool[s] : r.template = verdict[s].pick}
    <3>1. of \in SUBSET Rules /\ of # {}
      BY <1>f, <2>1, <2>4 DEF RuleFits
    <3>2. First(of, request[s], pool[s]) \in of
      <4> HIDE DEF of
      <4> QED BY <3>1, FirstIsFirst
    <3>3. choice'[s] \in pool[s]
      BY <1>t, <2>1, <2>4, <3>2 DEF Match
    <3>4. RuleFits("load", request[s], pool[s], choice'[s], verdict[s])
      BY <1>f, <2>1, <2>3, <2>4, <3>3 DEF RuleFits
    <3> QED BY <1>t, <2>1, <2>2, <3>4 DEF RuleContinues, RuleFollows
  <2>5. CASE verdict[s].kind # "ok"
    <3>1. choice'[s] = choice[s]
      BY <1>t, <2>1, <2>5
    <3>2. RuleFits("load", request[s], pool[s], choice[s], verdict[s])
      BY <1>f, <2>1, <2>3, <2>5 DEF RuleFits
    <3> QED BY <1>t, <2>1, <2>2, <3>1, <3>2 DEF RuleContinues, RuleFollows
  <2> QED BY <2>4, <2>5
<1>13. CASE CatchRow(s)
  <2>1. at[s] = "catch" /\ UNCHANGED <<request, pool, choice, templates, active, verdict>>
    BY <1>13 DEF CatchRow, progress, tables
  <2>2. PICK place \in {"load", "failed"} : Move(s, place)
    BY <1>13 DEF CatchRow
  <2> QED BY <1>2, <2>1, <2>2 DEF Consulting
<1>14. CASE Load(s) \/ SelectionFails(s)
  <2>1. UNCHANGED <<request, pool, choice, templates, active, verdict>>
    BY <1>14 DEF Load, SelectionFails, progress, tables
  <2>2. PICK place \in {"done", "failed"} : Move(s, place)
    BY <1>14 DEF Load, SelectionFails
  <2> QED BY <1>2, <2>1, <2>2 DEF Consulting
<1> QED BY <1>3, <1>4, <1>5, <1>6, <1>7, <1>8, <1>9, <1>10, <1>11, <1>12, <1>13, <1>14
        DEF SelectionStep, CallFails, RowFails

---------------------------------------------------------------------------
(* Every choice, and what it is made of. *)

\* What is asked for can be chosen for.
AskedWell == \A g \in Orders : order[g].age \in Nat \cup {NoAge} /\ order[g].group \in Seq(Nat)

TInv ==
    /\ AskedWell /\ ChoiceTypes /\ TemplatesFollow /\ \A g \in Orders : ChoiceFollows(g)
    /\ RuleTypes /\ \A s \in Selections : RuleFollows(s)

\* The worksheets are left alone.
ChoicesRest ==
    /\ order' = order /\ step' = step /\ fitting' = fitting /\ hints' = hints
    /\ answer' = answer /\ picked' = picked
\* The choices for worksheets stay as they are, with more templates or not.
LEMMA RestingChoicesFollow ==
    ASSUME AskedWell, ChoiceTypes, \A g \in Orders : ChoiceFollows(g), ChoicesRest,
           rowsMade \subseteq rowsMade', library' \subseteq rowsMade', rowsMade' \subseteq DOMAIN Library
    PROVE  AskedWell' /\ ChoiceTypes' /\ \A g \in Orders : ChoiceFollows(g)'
<1>1. AskedWell' /\ ChoiceTypes'
  BY DEF AskedWell, ChoiceTypes, ChoicesRest
<1>2. ASSUME NEW g \in Orders PROVE ChoiceFollows(g)'
  <2>1. ChoiceFits(step[g], order[g], fitting[g], hints[g], answer[g], picked[g], rowsMade)
    BY DEF ChoiceFollows
  <2>2. ChoiceFits(step[g], order[g], fitting[g], hints[g], answer[g], picked[g], rowsMade')
    BY <2>1, ChoiceKept
  <2> QED BY <2>2 DEF ChoiceFollows, ChoicesRest
<1> QED BY <1>1, <1>2
\* The choices for flashcards stay as they are.
LEMMA RestingRulesFollow ==
    ASSUME RuleTypes, \A s \in Selections : RuleFollows(s),
           UNCHANGED <<request, at, pool, choice, verdict>>,
           active' \subseteq templates', templates' \subseteq DOMAIN Catalog
    PROVE  RuleTypes' /\ \A s \in Selections : RuleFollows(s)'
BY DEF RuleTypes, RuleFollows
\* The templates and their authors stay as they are.
LEMMA RestingTemplatesFollow ==
    ASSUME TemplatesFollow, UNCHANGED authorVars, library' \subseteq library
    PROVE  TemplatesFollow'
BY DEF TemplatesFollow, AuthorTypeOK, AuthorFollows, TemplatesAreCreatedWhole, Created,
       authorVars, requestVars, assetVars

\* A step for a worksheet.
LEMMA SheetStepChooses ==
    ASSUME OrderTypes, OrdersFollow, AskedWell, ChoiceTypes, \A g \in Orders : ChoiceFollows(g),
           SheetStep, AskedFor, rowsMade' = rowsMade
    PROVE  AskedWell' /\ ChoiceTypes' /\ (\A g \in Orders : ChoiceFollows(g)') /\ library' \subseteq library
<1>1. CASE \E g \in Orders : GenerationStep(g) \/ ClientLeaves(g)
  <2>1. PICK g \in Orders : GenerationStep(g) \/ ClientLeaves(g)
    BY <1>1
  <2>2. Continues(g)
    BY <2>1, RequestContinues DEF OrdersFollow
  <2>3. ChoiceFollows(g)' /\ ChoosesFor(g) /\ library' = library
    BY <2>1, ChoiceGoesOn DEF OrdersFollow, OrderFollows
  <2>4. order' = order /\ \A h \in Orders \ {g} : step'[h] = step[h] /\ answer'[h] = answer[h]
    BY <2>2 DEF Continues, Elsewhere, Untouched
  <2>5. ASSUME NEW h \in Orders \ {g} PROVE ChoiceFollows(h)'
    BY <2>3, <2>4 DEF ChoiceFollows, ChoosesFor
  <2>6. AskedWell' /\ ChoiceTypes'
    BY <2>3, <2>4 DEF AskedWell, ChoiceTypes, ChoosesFor
  <2> QED BY <2>3, <2>5, <2>6
<1>2. CASE \E t \in library : Retire(t) /\ UNCHANGED <<batch, open, stream>>
  <2>1. ChoicesRest /\ library' \subseteq library
    BY <1>2 DEF Retire, ChoicesRest, outcome
  <2> QED BY <2>1, RestingChoicesFollow DEF ChoiceTypes
<1> QED BY <1>1, <1>2 DEF SheetStep

\* What holds at first.
LEMMA FirstChoices == Init => TInv
<1> SUFFICES ASSUME Init PROVE TInv
  OBVIOUS
<1>1. SelectionInit /\ SheetInit /\ AuthorInit
  BY DEF Init
<1>2. PICK s \in Scenarios : request = s.flash /\ order = s.orders /\ draft = s.drafts
  BY DEF Init
<1>3. AskedWell
  BY <1>2, ScenarioAssumption DEF AskedWell
<1>4. ChoiceTypes
  BY <1>1, LibraryAssumption DEF ChoiceTypes, SheetInit, AuthorInit
<1>5. ASSUME NEW g \in Orders PROVE ChoiceFollows(g)
  <2>1. /\ step[g] \in {"done", "validate"} /\ (step[g] = "done" => order[g].idle)
        /\ fitting[g] = {} /\ answer[g].kind = "none"
    BY <1>1 DEF SheetInit, NoAnswer
  <2>2. step[g] \notin Narrowing \cup Undecided \cup Decided \cup {"picked"}
    BY <2>1 DEF Narrowing, Undecided, Decided, Asking, Making, SelectionSteps
  <2> QED BY <2>1, <2>2 DEF ChoiceFollows, ChoiceFits
<1>6. TemplatesFollow
  <2>1. /\ making \in [Authors -> {"begin", "done"}]
        /\ \A u \in Authors : making[u] = "begin" => draft[u].template # None
        /\ part = [u \in Authors |-> [r \in Roles |-> "look"]]
        /\ stored \subseteq assetRows /\ rowsMade = Released /\ library = Released
        /\ \A u \in Authors : making[u] = "done" => draft[u].template = None
    BY <1>1 DEF AuthorInit, SheetInit
  <2>2. AuthorTypeOK
    BY <2>1, LibraryAssumption DEF AuthorTypeOK
  <2>3. TemplatesAreCreatedWhole
    BY <2>1 DEF TemplatesAreCreatedWhole, Created
  <2>4. \A u \in Authors : draft[u].template \in DOMAIN Library \cup {None}
    BY <1>2, ScenarioAssumption
  <2>5. \A u \in Authors : AuthorFollows(u)
    BY <2>1, <2>4 DEF AuthorFollows
  <2> QED BY <2>1, <2>2, <2>3, <2>5 DEF TemplatesFollow
<1>7. RuleTypes
  <2>1. \A r \in Selections : Requested(request[r]) \in Nat \X Nat
    BY <1>2, ScenarioAssumption
  <2> QED BY <1>1, <2>1, SelectionAssumption DEF RuleTypes, SelectionInit
<1>8. ASSUME NEW r \in Selections PROVE RuleFollows(r)
  <2>1. at[r] \in {"done", "load", "read"} /\ pool[r] = {} /\ choice[r] = NoRule /\ verdict[r].kind = "none"
    BY <1>1 DEF SelectionInit
  <2> QED BY <2>1 DEF RuleFollows, RuleFits, Consulting
<1> QED BY <1>3, <1>4, <1>5, <1>6, <1>7, <1>8 DEF TInv

\* Every step keeps it.
LEMMA NextChoices == CInv /\ TInv /\ [Next]_vars => TInv'
<1> SUFFICES ASSUME CInv, TInv, [Next]_vars PROVE TInv'
  OBVIOUS
<1>0. /\ AskedFor /\ OrderTypes /\ OrdersFollow /\ CallTypes /\ FlashCallsFollow
      /\ AskedWell /\ ChoiceTypes /\ TemplatesFollow /\ RuleTypes
      /\ (\A g \in Orders : ChoiceFollows(g)) /\ \A s \in Selections : RuleFollows(s)
  BY DEF CInv, TInv
\* When nothing is done for a worksheet, or nothing for a flashcard.
<1>1. ASSUME UNCHANGED <<order, step, outcome, library, authorVars>>
      PROVE  AskedWell' /\ ChoiceTypes' /\ TemplatesFollow' /\ \A g \in Orders : ChoiceFollows(g)'
  <2>1. ChoicesRest /\ rowsMade' = rowsMade /\ library' = library
    BY <1>1 DEF ChoicesRest, outcome, authorVars
  <2> QED BY <1>0, <1>1, <2>1, RestingChoicesFollow, RestingTemplatesFollow DEF ChoiceTypes
<1>2. ASSUME UNCHANGED <<request, at, pool, choice, verdict, active, templates>>
      PROVE  RuleTypes' /\ \A s \in Selections : RuleFollows(s)'
  BY <1>0, <1>2, RestingRulesFollow DEF RuleTypes
<1>3. CASE \E s \in Selections : SelectionStep(s) /\ UNCHANGED <<sheetVars, authorVars>>
  <2>1. PICK s \in Selections : SelectionStep(s) /\ UNCHANGED <<sheetVars, authorVars>>
    BY <1>3
  <2>2. UNCHANGED <<order, step, outcome, library, authorVars>>
    BY <2>1 DEF sheetVars, sheetSelectionVars
  <2>3. RuleContinues(s) /\ CallContinues(s)
    BY <1>0, <2>1, SelectionRanks, SelectionContinues DEF FlashCallsFollow
  <2>4. ASSUME NEW r \in Selections \ {s} PROVE RuleFollows(r)'
    <3>1. /\ at'[r] = at[r] /\ request' = request /\ pool'[r] = pool[r] /\ choice'[r] = choice[r]
          /\ verdict'[r] = verdict[r]
      BY <2>3 DEF RuleContinues, CallContinues, Uncalled
    <3> QED BY <1>0, <3>1 DEF RuleFollows
  <2>5. RuleTypes' /\ \A r \in Selections : RuleFollows(r)'
    BY <1>0, <2>3, <2>4 DEF RuleContinues, RuleTypes
  <2> QED BY <1>1, <2>2, <2>5 DEF TInv
<1>4. CASE CatalogStep /\ UNCHANGED <<sheetVars, authorVars>>
  <2>1. UNCHANGED <<order, step, outcome, library, authorVars>>
    BY <1>4 DEF sheetVars, sheetSelectionVars
  <2>2. /\ UNCHANGED <<request, at, pool, choice, verdict>>
        /\ active' \subseteq templates' /\ templates' \subseteq DOMAIN Catalog
    BY <1>0, <1>4 DEF CatalogStep, CreateTemplate, Invalidate, SnapshotExpires, Withdraw, progress,
                      RuleTypes
  <2>3. RuleTypes' /\ \A s \in Selections : RuleFollows(s)'
    BY <1>0, <2>2, RestingRulesFollow
  <2> QED BY <1>1, <2>1, <2>3 DEF TInv
<1>5. CASE SheetStep /\ UNCHANGED <<flashVars, authorVars>>
  <2>1. UNCHANGED <<request, at, pool, choice, verdict, active, templates>>
    BY <1>5 DEF flashVars, selectionVars, progress, tables
  <2>2. rowsMade' = rowsMade
    BY <1>5 DEF authorVars
  <2>3. AskedWell' /\ ChoiceTypes' /\ (\A g \in Orders : ChoiceFollows(g)') /\ library' \subseteq library
    BY <1>0, <1>5, <2>2, SheetStepChooses
  <2>4. TemplatesFollow'
    BY <1>0, <1>5, <2>3, RestingTemplatesFollow
  <2> QED BY <1>2, <2>1, <2>3, <2>4 DEF TInv
<1>6. CASE \E u \in Authors : AuthorStep(u)
             /\ UNCHANGED <<flashVars, order, step, outcome, calls, batch, open, stream>>
  <2>1. PICK u \in Authors : AuthorStep(u)
             /\ UNCHANGED <<flashVars, order, step, outcome, calls, batch, open, stream>>
    BY <1>6
  <2>2. UNCHANGED <<request, at, pool, choice, verdict, active, templates>>
    BY <2>1 DEF flashVars, selectionVars, progress, tables
  <2>3. TemplatesFollow' /\ Adds(u) /\ ChoicesRest
    BY <1>0, <2>1, AuthorAdds DEF ChoicesRest, outcome
  <2>4. rowsMade \subseteq rowsMade' /\ library' \subseteq rowsMade' /\ rowsMade' \subseteq DOMAIN Library
    BY <2>3 DEF Adds, TemplatesFollow, AuthorTypeOK
  <2>5. AskedWell' /\ ChoiceTypes' /\ \A g \in Orders : ChoiceFollows(g)'
    BY <1>0, <2>3, <2>4, RestingChoicesFollow
  <2> QED BY <1>2, <2>2, <2>3, <2>5 DEF TInv
<1>7. CASE UNCHANGED vars
  <2>1. UNCHANGED <<request, at, pool, choice, verdict, active, templates>>
    BY <1>7 DEF vars, selectionVars, progress, tables
  <2>2. UNCHANGED <<order, step, outcome, library, authorVars>>
    BY <1>7 DEF vars, sheetVars, sheetSelectionVars
  <2> QED BY <1>1, <1>2, <2>1, <2>2 DEF TInv
<1>8. CASE FolderStep /\ UNCHANGED <<flashVars, sheetVars>>
  <2>1. UNCHANGED <<request, at, pool, choice, verdict, active, templates>>
    BY <1>8 DEF flashVars, selectionVars, progress, tables
  <2>2. TemplatesFollow' /\ rowsMade' = rowsMade /\ library' = library
    BY <1>0, <1>8, FoldersLeaveTemplates
  <2>3. ChoicesRest
    BY <1>8 DEF ChoicesRest, sheetVars, sheetSelectionVars, outcome
  <2>4. AskedWell' /\ ChoiceTypes' /\ \A g \in Orders : ChoiceFollows(g)'
    BY <1>0, <2>2, <2>3, RestingChoicesFollow DEF ChoiceTypes
  <2> QED BY <1>2, <2>1, <2>2, <2>4 DEF TInv
<1> QED BY <1>3, <1>4, <1>5, <1>6, <1>7, <1>8 DEF Next

\* Always: every choice is among what the rules allow, and every template that is
\* added was created whole.
THEOREM ChoicesAreFollowed == Spec => []TInv
<1>1. Init => TInv
  BY FirstChoices
<1>2. CInv /\ TInv /\ [Next]_vars => TInv'
  BY NextChoices
<1> QED BY <1>1, <1>2, RequestsAreFollowed, PTL DEF Spec

\* Every template that is added is one author's, who alone is told so, and has both
\* its images found or stored before; whoever fails has created none.
THEOREM TemplatesAreAlwaysCreatedWhole == Spec => []TemplatesAreCreatedWhole
<1>1. TInv => TemplatesAreCreatedWhole
  BY DEF TInv, TemplatesFollow
<1> QED BY <1>1, ChoicesAreFollowed, PTL

\* A rule for the age is not for older children only.
LEMMA AgeIsFor ==
    ASSUME NEW r, r.template \in DOMAIN Catalog, NEW q, Requested(q) \in Nat \X Nat, AgeEligible(r, q)
    PROVE  Template(r).groups = {} \/ \E g \in Template(r).groups \ {Unread} : g[1] <= Requested(q)[1]
<1> SUFFICES ASSUME Template(r).groups # {}
             PROVE  \E g \in Template(r).groups \ {Unread} : g[1] <= Requested(q)[1]
  OBVIOUS
<1>1. PICK a \in Nat, b \in Nat : Requested(q) = <<a, b>>
  OBVIOUS
<1>2. \A g \in Template(r).groups : g # Unread => g[1] \in Nat /\ g[2] \in Nat /\ g[1] <= g[2]
  BY RankingAssumption DEF Template, Unread
<1>3. AgeTier(Template(r).groups, Requested(q)) > 0
  BY DEF AgeEligible
<1>4. \E g \in Template(r).groups :
          Native(g, Requested(q)) \/ Covers(g, Requested(q)) \/ Younger(g, Requested(q))
  BY <1>3 DEF AgeTier
<1>5. PICK g \in Template(r).groups :
          Native(g, Requested(q)) \/ Covers(g, Requested(q)) \/ Younger(g, Requested(q))
  BY <1>4
<1>6. g # Unread /\ g[1] <= a
  <2>1. CASE Native(g, Requested(q))
    BY <1>1, <2>1 DEF Native, Unread
  <2>2. CASE Covers(g, Requested(q))
    BY <1>1, <2>2 DEF Covers
  <2>3. CASE Younger(g, Requested(q))
    <3>1. g # Unread /\ g[2] <= a
      BY <1>1, <2>3 DEF Younger
    <3>2. g[1] \in Nat /\ g[2] \in Nat /\ g[1] <= g[2]
      BY <1>2, <3>1
    <3> QED BY <3>1, <3>2
  <2> QED BY <1>5, <2>1, <2>2, <2>3
<1>7. Requested(q)[1] = a
  BY <1>1
<1> QED BY <1>6, <1>7

\* A choice is one of those the rules of the ranking allow.
LEMMA FollowedChoicesStand == CInv /\ TInv => ChoiceStands
<1> SUFFICES ASSUME CInv, TInv PROVE ChoiceStands
  OBVIOUS
<1>1. ASSUME NEW s \in Selections, choice[s] # NoRule PROVE FlashChoice(s)
  <2>1. /\ pool[s] \subseteq Rules /\ Ranked(pool[s], request[s]) /\ choice[s] \in pool[s]
        /\ verdict[s].kind # "ok" \/ at[s] = "row" =>
              \A o \in pool[s] : Tier(o, request[s]) <= Tier(choice[s], request[s])
        /\ Requested(request[s]) \in Nat \X Nat
    BY <1>1 DEF TInv, RuleFollows, RuleFits, RuleTypes
  <2>2. AgeEligible(choice[s], request[s]) /\ passesExplicitRequestGate(choice[s], request[s])
    BY <2>1 DEF Ranked
  <2>3. choice[s].template \in DOMAIN Catalog
    BY <2>1, RulesAre
  <2>4. \/ Template(choice[s]).groups = {}
        \/ \E g \in Template(choice[s]).groups \ {Unread} : g[1] <= Requested(request[s])[1]
    BY <2>1, <2>2, <2>3, AgeIsFor
  <2>5. choice[s].isFallback => \A other \in pool[s] : other.isFallback
    BY <2>1 DEF Ranked
  <2> QED BY <2>1, <2>2, <2>4, <2>5 DEF FlashChoice, passesExplicitRequestGate
<1>2. ASSUME NEW g \in Orders, step[g] = "picked", order[g].template = None PROVE SheetChoice(g)
  <2> DEFINE F == fitting[g]  q == order[g]  h == hints[g]  k == picked[g]
             best == Best(F, q, h)
  <2>1. /\ F \in SUBSET DOMAIN Library /\ passesAgeHardFilter(k, resolveAgeBand(q)) /\ k \in F
        /\ Cardinality(F) > 1 =>
              k = best \/ (answer[g].kind = "ok" /\ answer[g].pick = k /\ ~Decisive(F, q, h))
    BY <1>2 DEF TInv, ChoiceTypes, ChoiceFollows, ChoiceFits
  <2>2. Band(resolveAgeBand(q))
    BY BandIsRange DEF TInv, AskedWell
  <2>3. resolveAgeBand(q) # NoBand /\ Library[k].ages[1] <= Library[k].ages[2] =>
            \E n \in Library[k].ages[1]..Library[k].ages[2] :
                n \in resolveAgeBand(q)[1]..resolveAgeBand(q)[2]
    <3> DEFINE b == resolveAgeBand(q)
    <3> HIDE DEF b
    <3>1. k \in DOMAIN Library /\ Band(b) /\ passesAgeHardFilter(k, b)
      BY <2>1, <2>2 DEF b
    <3>2. b # NoBand /\ Library[k].ages[1] <= Library[k].ages[2] =>
              \E n \in Library[k].ages[1]..Library[k].ages[2] : n \in b[1]..b[2]
      BY <3>1, PassingHasYear
    <3> QED BY <3>2 DEF b
  <2>4. ASSUME Cardinality(F) > 1
        PROVE  \/ \A t \in F : score(t, q, h) <= score(k, q, h)
               \/ /\ answer[g] = [kind |-> "ok", pick |-> k]
                  /\ \E t \in F \ {best} :
                         score(best, q, h) = 0 \/ score(best, q, h) - score(t, q, h) < Margin
    <3>1. CASE k = best
      BY <2>1, <3>1, BestIsBest
    <3>2. CASE answer[g].kind = "ok" /\ answer[g].pick = k /\ ~Decisive(F, q, h)
      <4>1. answer[g] = [kind |-> "ok", pick |-> k]
        <5>1. answer[g] \in [kind : SheetKinds, pick : DOMAIN Library \cup {None}]
          BY DEF CInv, OrderTypes
        <5> QED BY <3>2, <5>1
      <4>2. \E t \in F \ {best} :
                score(best, q, h) = 0 \/ score(best, q, h) - score(t, q, h) < Margin
        BY <2>1, <2>4, <3>2, NotDecisive
      <4> QED BY <4>1, <4>2
    <3> QED BY <2>1, <2>4, <3>1, <3>2
  <2> QED BY <2>1, <2>3, <2>4 DEF SheetChoice, BestOf
<1> QED BY <1>1, <1>2 DEF ChoiceStands
\* However the model answers, fails or is refused, the template of a request is
\* one its rules allow, and a decisive score is not overruled.
THEOREM ChoicesAlwaysStand == Spec => []ChoiceStands
BY RequestsAreFollowed, ChoicesAreFollowed, FollowedChoicesStand, PTL

\* An answer is what was asked for.
LEMMA FollowedAnswersAreUsable == CInv /\ TInv => AnswerIsUsable
<1> SUFFICES ASSUME CInv, TInv, NEW g \in Orders, step[g] = "done", ~order[g].idle
             PROVE  /\ Len(sheets[g]) \in 1..Count(g)
                    /\ \A i \in DOMAIN sheets[g] :
                        /\ Valid(sheets[g][i], SchemaOf(g).schema, TRUE) /\ ~HasBadQuery(sheets[g][i])
                        /\ \A p \in DOMAIN sheets[g][i] \ {<<>>} : Key(p) \notin TransientKeys
  BY DEF AnswerIsUsable
<1>1. Len(sheets[g]) \in 1..Count(g) /\ \A i \in DOMAIN sheets[g] : AnswerFits(g, sheets[g][i])
  BY DEF CInv, OrdersFollow, OrderFollows, SheetsFollow
<1> QED BY <1>1 DEF AnswerFits
\* Every request that ends well can be used: as many sheets as were asked for at
\* most, each of them valid, without the search's working fields.
THEOREM AnswersAreAlwaysUsable == Spec => []AnswerIsUsable
BY RequestsAreFollowed, ChoicesAreFollowed, FollowedAnswersAreUsable, PTL

---------------------------------------------------------------------------
(* The types.  A sheet stays a structure: what the model writes is one, the *)
(* sheets are parts of it, and what is done to a sheet keeps it one.        *)

\* An array has an element at each place up to their number.
LEMMA ElementsAreAtPlaces ==
    ASSUME NEW t, IsTree(t), NEW p, NEW i \in 1..Cardinality(Elements(t, p))
    PROVE  Append(p, Indices[i]) \in DOMAIN t
<1> SUFFICES ASSUME Append(p, Indices[i]) \notin DOMAIN t PROVE FALSE
  OBVIOUS
<1> DEFINE E == Elements(t, p)
           n == Cardinality(E)
<1>1. Hangs(t) /\ Gapless(DOMAIN t)
  BY Zenon DEF IsTree
<1>2. E \subseteq DOMAIN t \ {<<>>} /\ \A q \in E : Parent(q) = p /\ IsArray(t, p)
  BY DEF Elements, Children
<1>3. DOMAIN t \subseteq Seq(STRING) /\ IsFiniteSet(DOMAIN t)
  BY <1>1, Zenon DEF Hangs
<1>4. IsFiniteSet(E) /\ n \in Nat
  <2>1. IsFiniteSet(E)
    BY <1>2, <1>3, FS_Subset
  <2> QED BY <2>1, FS_CardinalityType
<1>5. ASSUME NEW q \in E
      PROVE  q = Append(p, Key(q)) /\ Key(q) \in IndexKeys
  <2>1. q \in Seq(STRING) \ {<<>>} /\ Parent(q) = p
    BY <1>2, <1>3
  <2>2. q = Append(p, Key(q))
    BY <2>1, ParentMeans
  <2>3. HasPlace(t, q)
    BY <1>1, <1>2, Zenon DEF Hangs
  <2>4. ~IsRecord(t, p)
    BY <1>2, Zenon DEF IsArray, IsRecord
  <2>5. Key(q) \in IndexKeys
    BY <2>1, <2>3, <2>4, Zenon DEF HasPlace
  <2> QED BY <2>2, <2>5
<1>6. ASSUME NEW q \in E
      PROVE  Position(Key(q)) \in 1..(i - 1)
  <2>1. Key(q) \in IndexKeys /\ Parent(q) = p /\ q \in DOMAIN t \ {<<>>}
    BY <1>2, <1>5
  <2>2. \A m \in 1..Position(Key(q)) : Append(p, Indices[m]) \in DOMAIN t
    BY <1>1, <2>1, Zenon DEF Gapless
  <2>3. Position(Key(q)) \in DOMAIN Indices /\ DOMAIN Indices = 1..Len(Indices)
        /\ Position(Key(q)) \in Nat /\ Len(Indices) \in Nat
    BY <2>1, PositionMeans
  <2>4. i \notin 1..Position(Key(q))
    BY <2>2
  <2> QED BY <1>4, <2>3, <2>4
<1> DEFINE f == [q \in E |-> Position(Key(q))]
           B == 1..(i - 1)
<1>7. f \in [E -> B]
  BY <1>6
<1>8. IsFiniteSet(B) /\ Cardinality(B) = i - 1
  <2>1. i - 1 \in Nat
    BY <1>4
  <2> QED BY <2>1, FS_Interval
<1>9. Cardinality(B) < Cardinality(E)
  BY <1>4, <1>8
<1> HIDE DEF B, n
<1>10. \E x, y \in E : x # y /\ f[x] = f[y]
  <2> HIDE DEF f, E
  <2> QED BY <1>4, <1>7, <1>8, <1>9, FS_PigeonHole
<1>11. PICK x \in E, y \in E : x # y /\ f[x] = f[y]
  BY <1>10
<1>12. Key(x) = Key(y)
  <2>1. Position(Key(x)) = Position(Key(y))
    BY <1>11
  <2>2. Indices[Position(Key(x))] = Key(x) /\ Indices[Position(Key(y))] = Key(y)
    BY <1>5, PositionMeans
  <2> QED BY <2>1, <2>2
<1>13. x = Append(p, Key(x)) /\ y = Append(p, Key(y))
  BY <1>5
<1> QED BY <1>11, <1>12, <1>13

\* A list of structures.
AreTrees(s) == \E E : s \in Seq(E) /\ \A t \in E : IsTree(t)

\* No sheet, and one.
LEMMA NoTrees == AreTrees(<<>>)
<1>1. PICK E : E = {}
  OBVIOUS
<1>2. <<>> \in Seq(E) /\ \A t \in E : IsTree(t)
  BY <1>1
<1> QED BY <1>2 DEF AreTrees
\* A structure is a list of one.
LEMMA OneTree ==
    ASSUME NEW t, IsTree(t) PROVE AreTrees(<<t>>)
<1>1. PICK E : E = {t}
  OBVIOUS
<1>2. <<t>> \in Seq(E) /\ \A x \in E : IsTree(x)
  BY <1>1
<1> QED BY <1>2 DEF AreTrees

\* A part of a structure is one.
LEMMA SubtreeIsTree ==
    ASSUME NEW t, IsTree(t), NEW p \in DOMAIN t PROVE IsTree(Subtree(t, p))
<1>1. Hangs(t) /\ Gapless(DOMAIN t)
  BY Zenon DEF IsTree
<1>2. Hangs(Subtree(t, p)) /\ Gapless(DOMAIN Subtree(t, p))
  BY <1>1, SubtreeHangs
<1> QED BY <1>2, Zenon DEF IsTree

\* The elements of an array, as structures of their own.
LEMMA ListedAreTrees ==
    ASSUME NEW t, IsTree(t), NEW p PROVE AreTrees(Listed(t, p))
<1> DEFINE n == Cardinality(Elements(t, p))
           E == {Subtree(t, Append(p, Indices[i])) : i \in 1..n}
<1>1. n \in Nat
  <2>1. Elements(t, p) \subseteq DOMAIN t
    BY DEF Elements, Children
  <2>2. IsFiniteSet(DOMAIN t)
    BY Zenon DEF IsTree, Hangs
  <2> QED BY <2>1, <2>2, FS_Subset, FS_CardinalityType
<1>2. \A x \in E : IsTree(x)
  BY ElementsAreAtPlaces, SubtreeIsTree
<1>3. Listed(t, p) = [i \in 1..n |-> Subtree(t, Append(p, Indices[i]))]
  BY DEF Listed
<1>4. Listed(t, p) \in [1..n -> E]
  BY <1>3
<1> HIDE DEF n, E
<1>5. Listed(t, p) \in Seq(E)
  BY <1>1, <1>4
<1> QED BY <1>2, <1>5 DEF AreTrees

\* The key of a list is put at the root of a new sheet.
LEMMA KeyIsPut ==
    ASSUME NEW t, IsTree(t), IsRecord(t, <<>>), NEW key \in STRING \ IndexKeys, NEW v, IsTree(v)
    PROVE  IsTree(Put(t, <<key>>, v)) /\ IsRecord(Put(t, <<key>>, v), <<>>)
<1>1. Hangs(t) /\ Hangs(v) /\ Gapless(DOMAIN t) /\ Gapless(DOMAIN v)
  BY Zenon DEF IsTree
<1>2. KeepsTree(t, Put(t, Append(<<>>, key), v)) /\ IsRecord(Put(t, Append(<<>>, key), v), <<>>)
  BY <1>1, NamedPutKeepsTree
<1>3. Append(<<>>, key) = <<key>>
  OBVIOUS
<1>4. KeepsTree(t, Put(t, <<key>>, v)) /\ IsRecord(Put(t, <<key>>, v), <<>>)
  BY <1>2, <1>3, Zenon
<1> QED BY <1>1, <1>4, Zenon DEF KeepsTree, IsTree
\* A list without its sheet is given one.
LEMMA WrappedIsTree ==
    ASSUME NEW t, IsTree(t), NEW p \in DOMAIN t, NEW key \in STRING \ IndexKeys
    PROVE  IsTree(Wrapped(t, p, key))
<1> DEFINE root == Leaf("{}")
           list == Leaf("[]")
           sheet == Put(root, <<key>>, list)
<1>1. IsTree(root) /\ IsTree(list) /\ IsRecord(root, <<>>)
  BY LeafHangs, Zenon DEF IsRecord, Has
<1>2. Wrapped(t, p, key) = Put(sheet, <<key>>, Subtree(t, p))
  BY Zenon DEF Wrapped
<1> HIDE DEF root, list
<1>3. IsTree(sheet) /\ IsRecord(sheet, <<>>)
  BY <1>1, KeyIsPut
<1> HIDE DEF sheet
<1>4. IsTree(Put(sheet, <<key>>, Subtree(t, p)))
  BY <1>3, KeyIsPut, SubtreeIsTree
<1> QED BY <1>2, <1>4, Zenon

\* However the model writes its sheets, each of them is a structure.
LEMMA TakenAreTrees ==
    ASSUME NEW t, IsTree(t), NEW p, IsArray(t, p), NEW limit \in Nat \ {0}
    PROVE  AreTrees(takeWorksheets(t, p, limit))
<1> DEFINE all == Listed(t, p)
           S == {x \in Members(all) : looksLikeWorksheetStructure(x)}
           sheet == Only(all, S)
           some == IF sheet = <<>> THEN all ELSE sheet
<1>0. p \in DOMAIN t
  BY Zenon DEF IsArray, Has
<1>1. PICK E : all \in Seq(E) /\ \A x \in E : IsTree(x)
  BY ListedAreTrees DEF AreTrees
<1>2. sheet \in Seq(E)
  <2> HIDE DEF all, S
  <2>1. Only(all, S) \in Seq(E \cap S)
    BY <1>1, OnlyKeeps
  <2> QED BY <2>1
<1>3. some \in Seq(E)
  <2> HIDE DEF all, sheet
  <2> QED BY <1>1, <1>2
<1>8. \/ takeWorksheets(t, p, limit) = <<>>
      \/ \E key \in {"items", "rows"} : takeWorksheets(t, p, limit) = <<Wrapped(t, p, key)>>
      \/ takeWorksheets(t, p, limit) = FirstOf(some, limit)
  BY DEF takeWorksheets
<1> HIDE DEF all, sheet, some
<1>4. FirstOf(some, limit) \in Seq(E)
  BY <1>3, FirstOfKeeps
<1>5. AreTrees(FirstOf(some, limit))
  BY <1>1, <1>4 DEF AreTrees
<1>6. \A key \in {"items", "rows"} : key \in STRING \ IndexKeys
  <2>1. {"items", "rows"} \subseteq OwnNames
    BY DEF OwnNames
  <2>2. OwnNames \subseteq STRING \ IndexKeys
    BY LabelAssumption, Zenon
  <2> QED BY <2>1, <2>2
<1>7. \A key \in {"items", "rows"} : AreTrees(<<Wrapped(t, p, key)>>)
  BY <1>0, <1>6, WrappedIsTree, OneTree
<1> QED BY <1>5, <1>7, <1>8, NoTrees
\* The same of a whole payload.
LEMMA NormalizedAreTrees ==
    ASSUME NEW t, IsTree(t), NEW limit \in Nat \ {0}
    PROVE  AreTrees(normalizeLlmWorksheetPayload(t, limit))
BY TakenAreTrees, NoTrees, OneTree DEF normalizeLlmWorksheetPayload

\* What keeps the structure of a structure gives one.
LEMMA KeptIsTree ==
    ASSUME NEW t, IsTree(t), NEW v, KeepsTree(t, v) PROVE IsTree(v)
BY Zenon DEF KeepsTree, IsTree

\* The sheets that are kept are structures.
LEMMA KeptAreTrees ==
    ASSUME NEW g, order[g].count \in Nat, IsTree(payload[g])
    PROVE  \A i \in DOMAIN Kept(g) : IsTree(Kept(g)[i])
<1> DEFINE raw == normalizeLlmWorksheetPayload(payload[g], Count(g))
           S == {w \in Members(raw) : IsRecord(w, <<>>) /\ Usable(g, w)}
           good == Only(raw, S)
           lineart == SchemaOf(g).lineart
<1>1. AreTrees(raw)
  BY CountIsPositive, NormalizedAreTrees
<1>2. Kept(g) = [i \in DOMAIN good |-> Validated(good[i], lineart)]
  BY DEF Kept
<1> HIDE DEF raw, S
<1>3. PICK E : raw \in Seq(E) /\ \A t \in E : IsTree(t)
  BY <1>1 DEF AreTrees
<1>4. good \in Seq(E \cap S)
  BY <1>3, OnlyKeeps
<1> HIDE DEF good, lineart
<1>5. ASSUME NEW i \in DOMAIN good PROVE IsTree(Validated(good[i], lineart))
  <2>1. IsTree(good[i])
    BY <1>3, <1>4
  <2>2. Hangs(good[i])
    BY <2>1, Zenon DEF IsTree
  <2> QED BY <2>1, <2>2, ValidatedKeepsTree, KeptIsTree
<1> QED BY <1>2, <1>5


---------------------------------------------------------------------------
(* What a request is written in, beyond what it follows. *)

Services == {"selection", "content"}
\* The attempts at a search are counted while it lasts.
TriesFit(p, n) ==
    /\ p \in Early \cup Asking => n = 0
    /\ p = "search" => n < SearchAttempts
SheetTyped ==
    /\ picked \in [Orders -> DOMAIN Library \cup {None}]
    /\ tripped \in [Services -> 0..SheetThreshold]
    /\ tried \in [Orders -> 0..SearchAttempts]
    /\ \A g \in Orders : TriesFit(step[g], tried[g])
    /\ \A g \in Orders : \A i \in DOMAIN sheets[g] : IsTree(sheets[g][i])

\* A call of either kind is one of a service.
LEMMA ServicesAreCalled == \A c \in Calls : Service(c) \in Services
BY DEF Service, Services, Calls
\* What the breaker is told keeps its count.
LEMMA ReportCounts ==
    ASSUME tripped \in [Services -> 0..SheetThreshold], NEW g, NEW c \in Calls, NEW good,
           Report(g, c, good)
    PROVE  tripped' \in [Services -> 0..SheetThreshold]
<1>1. Service(c) \in Services
  BY ServicesAreCalled
<1>2. PICK s \in Services : s = Service(c)
  BY <1>1
<1>3. SheetThreshold \in Nat
  BY LibraryAssumption
<1> DEFINE n == tripped[s]
           m == IF good THEN 0 ELSE IF n < SheetThreshold THEN n + 1 ELSE n
<1>4. n \in 0..SheetThreshold
  BY <1>2
<1>5. m \in 0..SheetThreshold
  <2> HIDE DEF n
  <2> QED BY <1>3, <1>4
<1>6. tripped' = [tripped EXCEPT ![s] = m]
  BY <1>2 DEF Report
<1> HIDE DEF m
<1> QED BY <1>5, <1>6

\* While a template is chosen, the breaker and the choice are all that may change.
LEMMA ChoiceCounts ==
    ASSUME tripped \in [Services -> 0..SheetThreshold], NEW g \in Orders, SheetSelectionStep(g)
    PROVE  /\ tripped' \in [Services -> 0..SheetThreshold]
           /\ \/ picked' = picked
              \/ step' = [step EXCEPT ![g] = "picked"] /\ \E t : picked' = [picked EXCEPT ![g] = t]
<1>0. {"classify", "select"} \subseteq Calls
  BY DEF Calls
<1>1. CASE TakeExplicit(g) \/ ListActive(g)
  BY <1>1 DEF TakeExplicit, ListActive, calls, Goto
<1>2. CASE ListFails(g) \/ Classify(g) \/ ClassifyRow(g) \/ ClassifyCatch(g) \/ ListCatalog(g)
  BY <1>2 DEF ListFails, Classify, ClassifyRow, ClassifyCatch, ListCatalog, outcome, calls
<1>3. CASE ModelClassifies(g) \/ ClassifyFails(g)
  <2>1. picked' = picked /\ \E good : Report(g, "classify", good)
    BY <1>3 DEF ModelClassifies, ClassifyFails
  <2> QED BY <1>0, <2>1, ReportCounts
<1>4. CASE Rerank(g) \/ Select(g)
  BY <1>4 DEF Rerank, Select, Resolved, calls, Goto
<1>5. CASE ModelPicks(g) \/ SelectFails(g)
  <2>1. picked' = picked /\ (tripped' = tripped \/ \E good : Report(g, "select", good))
    BY <1>5 DEF ModelPicks, SelectFails
  <2> QED BY <1>0, <2>1, ReportCounts
<1>6. CASE SelectRow(g)
  <2>1. /\ step' = [step EXCEPT ![g] = "picked"] /\ \E t : picked' = [picked EXCEPT ![g] = t]
        /\ tripped' = tripped \/ \E good : Report(g, "select", good)
    BY <1>6 DEF SelectRow, Resolved, Goto
  <2> QED BY <1>0, <2>1, ReportCounts
<1>7. CASE SelectCatch(g)
  BY <1>7 DEF SelectCatch, Resolved, Goto
<1> QED BY <1>1, <1>2, <1>3, <1>4, <1>5, <1>6, <1>7 DEF SheetSelectionStep

\* The pictures are put in: a sheet stays a structure.
LEMMA AttachedAreTrees ==
    ASSUME OrderTypes, SheetTyped, NEW g \in Orders,
           NEW found \in [Queried(g) -> Assets \cup {"null"}], Attach(g, found)
    PROVE  \A h \in Orders : \A i \in DOMAIN sheets'[h] : IsTree(sheets'[h][i])
<1> DEFINE lineart == SchemaOf(g).lineart
           next == Pictures(g, found)
           result == [i \in DOMAIN next |-> Validated(next[i], lineart)]
<1>1. \A h \in Orders : \A i \in DOMAIN sheets[h] : IsTree(sheets[h][i])
  BY DEF SheetTyped
<1>2. sheets' = sheets \/ sheets' = [sheets EXCEPT ![g] = result]
  BY DEF Attach
<1>3. /\ DOMAIN next = DOMAIN sheets[g]
      /\ \A i \in DOMAIN sheets[g] : next[i] = Pictured(Prepared(g, sheets[g][i]), found, lineart)
  BY DEF Pictures
<1>4. \A i \in DOMAIN sheets[g] : Wanted(Prepared(g, sheets[g][i]), lineart) \subseteq Queried(g)
  BY DEF Queried
<1>5. \A x \in Queried(g) : found[x] \in Assets \cup {"null"}
  OBVIOUS
<1> HIDE DEF next, lineart
<1>6. ASSUME NEW i \in DOMAIN sheets[g] PROVE IsTree(Validated(next[i], lineart))
  <2> DEFINE t == sheets[g][i]
             n == Normalise(t)
             v == Prepared(g, t)
             w == Pictured(v, found, lineart)
  <2>1. IsTree(t)
    BY <1>1
  <2>2. v = Validated(n, lineart)
    BY DEF Prepared, lineart
  <2>3. \A x \in Wanted(v, lineart) : found[x] \in Assets \cup {"null"}
    BY <1>4, <1>5
  <2>4. next[i] = w
    BY <1>3
  <2> HIDE DEF t, n, v, w
  <2>5. Hangs(t)
    BY <2>1, Zenon DEF IsTree
  <2>6. IsTree(n) /\ Hangs(n)
    <3>1. KeepsTree(t, n)
      BY <2>5, NormaliseKeepsTree DEF n
    <3>2. IsTree(n)
      BY <2>1, <3>1, KeptIsTree
    <3> QED BY <3>2, Zenon DEF IsTree
  <2>7. IsTree(v) /\ Hangs(v)
    <3>1. KeepsTree(n, Validated(n, lineart))
      BY <2>6, ValidatedKeepsTree
    <3>2. KeepsTree(n, v)
      BY <2>2, <3>1, Zenon
    <3>3. IsTree(v)
      BY <2>6, <3>2, KeptIsTree
    <3> QED BY <3>3, Zenon DEF IsTree
  <2>8. IsTree(w) /\ Hangs(w)
    <3>1. KeepsTree(v, w)
      BY <2>3, <2>7, PicturedKeepsTree DEF w
    <3>2. IsTree(w)
      BY <2>7, <3>1, KeptIsTree
    <3> QED BY <3>2, Zenon DEF IsTree
  <2>9. IsTree(Validated(w, lineart))
    BY <2>8, ValidatedKeepsTree, KeptIsTree
  <2> QED BY <2>4, <2>9
<1>7. \A i \in DOMAIN result : IsTree(result[i])
  BY <1>3, <1>6
<1> HIDE DEF result
<1>8. DOMAIN sheets = Orders
  BY DEF OrderTypes
<1> QED BY <1>1, <1>2, <1>7, <1>8


\* The attempts stay within what a place allows.
LEMMA TriesGoOn ==
    ASSUME NEW p, NEW n, TriesFit(p, n), NEW q,
           q = p \/ p \in Early \cup Asking \/ q \notin Early \cup Asking \cup {"search"}
    PROVE  TriesFit(q, n)
<1>1. SearchAttempts \in Nat \ {0}
  BY GenerationAssumption
<1> QED BY <1>1 DEF TriesFit

\* A step that counts nothing and picks nothing.
LEMMA TypedRests ==
    ASSUME OrderTypes, SheetTyped, NEW g \in Orders, UNCHANGED <<picked, tried>>,
           tripped' \in [Services -> 0..SheetThreshold],
           \A h \in Orders \ {g} : step'[h] = step[h],
           \/ step'[g] = step[g] \/ step[g] \in Early \cup Asking
           \/ step'[g] \notin Early \cup Asking \cup {"search"},
           \A h \in Orders : \A i \in DOMAIN sheets'[h] : IsTree(sheets'[h][i])
    PROVE  SheetTyped'
<1>1. ASSUME NEW h \in Orders PROVE TriesFit(step'[h], tried'[h])
  <2>1. TriesFit(step[h], tried[h]) /\ tried' = tried
    BY DEF SheetTyped
  <2>2. CASE h = g
    BY <2>1, <2>2, TriesGoOn
  <2>3. CASE h # g
    BY <2>1, <2>3
  <2> QED BY <2>2, <2>3
<1> QED BY <1>1 DEF SheetTyped

\* A failed search is counted.
LEMMA SearchCounts ==
    ASSUME OrderTypes, SheetTyped, NEW g \in Orders, SearchFails(g),
           \A h \in Orders \ {g} : step'[h] = step[h]
    PROVE  SheetTyped'
<1> DEFINE found == [q \in Queried(g) |-> "null"]
<1>1. /\ step[g] = "search" /\ tried' = [tried EXCEPT ![g] = @ + 1]
      /\ picked' = picked /\ tripped' = tripped
      /\ \/ tried[g] + 1 < SearchAttempts /\ step' = step /\ sheets' = sheets
         \/ ~(tried[g] + 1 < SearchAttempts) /\ Attach(g, found)
  BY DEF SearchFails, outcome, calls
<1>2. found \in [Queried(g) -> Assets \cup {"null"}]
  OBVIOUS
<1> HIDE DEF found
<1>3. SearchAttempts \in Nat /\ tried[g] \in Nat /\ tried[g] < SearchAttempts
  <2>1. TriesFit(step[g], tried[g]) /\ tried \in [Orders -> 0..SearchAttempts]
    BY DEF SheetTyped
  <2>2. SearchAttempts \in Nat
    BY GenerationAssumption
  <2> QED BY <1>1, <2>1, <2>2 DEF TriesFit
<1>4. \A h \in Orders : \A i \in DOMAIN sheets'[h] : IsTree(sheets'[h][i])
  BY <1>1, <1>2, AttachedAreTrees DEF SheetTyped
<1>5. tried[g] + 1 \in 0..SearchAttempts
  BY <1>3
<1>6. /\ tried' \in [Orders -> 0..SearchAttempts] /\ tried'[g] = tried[g] + 1
      /\ \A h \in Orders \ {g} : tried'[h] = tried[h]
  BY <1>1, <1>5 DEF SheetTyped
<1>7. TriesFit(step'[g], tried'[g])
  <2>0. "search" \notin Early \cup Asking
    BY DEF Early, Asking, SelectionSteps
  <2>1. CASE tried[g] + 1 < SearchAttempts /\ step' = step
    BY <1>1, <1>6, <2>0, <2>1 DEF TriesFit
  <2>2. CASE Attach(g, found)
    <3>0. {"compose", "refused"} \subseteq Steps
      BY DEF Steps, Making
    <3>1. Goto(g, "compose") \/ Goto(g, "refused")
      BY <2>2 DEF Attach
    <3>2. step'[g] \in {"compose", "refused"}
      BY <3>0, <3>1, GotoMoves
    <3>3. step'[g] \notin Early \cup Asking \cup {"search"}
      BY <3>2 DEF Early, Asking, SelectionSteps
    <3> QED BY <3>3 DEF TriesFit
  <2> QED BY <1>1, <2>1, <2>2
<1>8. ASSUME NEW h \in Orders PROVE TriesFit(step'[h], tried'[h])
  <2>1. CASE h = g
    BY <1>7, <2>1
  <2>2. CASE h # g
    BY <1>6, <2>2 DEF SheetTyped
  <2> QED BY <2>1, <2>2
<1>9. picked' \in [Orders -> DOMAIN Library \cup {None}] /\ tripped' \in [Services -> 0..SheetThreshold]
  BY <1>1 DEF SheetTyped
<1> QED BY <1>4, <1>6, <1>8, <1>9 DEF SheetTyped

\* A step of a request keeps the types.
LEMMA RequestKeepsTypes ==
    ASSUME AskedFor, OrderTypes, OrdersFollow, ChoiceTypes, SheetTyped, NEW g \in Orders,
           ChoiceFollows(g), GenerationStep(g) \/ ClientLeaves(g), rowsMade' = rowsMade
    PROVE  SheetTyped'
<1>0. OrderFollows(g) /\ "content" \in Calls
  BY DEF OrdersFollow, Calls
<1>1. /\ OrderTypes' /\ DOMAIN step = Orders
      /\ \A h \in Orders \ {g} : step'[h] = step[h] /\ picked'[h] = picked[h]
  BY <1>0, RequestContinues DEF Continues, Elsewhere, Untouched, OrderTypes
<1>2. ChoiceFollows(g)'
  BY <1>0, ChoiceGoesOn DEF OrderFollows
<1>3. /\ tripped \in [Services -> 0..SheetThreshold]
      /\ \A h \in Orders : \A i \in DOMAIN sheets[h] : IsTree(sheets[h][i])
  BY DEF SheetTyped
\* Where no sheet is touched.
<1>4. ASSUME UNCHANGED <<picked, tried, sheets>>, tripped' \in [Services -> 0..SheetThreshold],
             \/ step'[g] = step[g] \/ step[g] \in Early \cup Asking
             \/ step'[g] \notin Early \cup Asking \cup {"search"}
      PROVE  SheetTyped'
  BY <1>1, <1>3, <1>4, TypedRests
<1>5. CASE CheckRequest(g) \/ StartContent(g) \/ RequestContent(g) \/ ContentAnswers(g)
  <2>1. step[g] \in {"validate", "picked", "request", "content"}
        /\ UNCHANGED <<picked, tried, sheets, tripped>>
    BY <1>5 DEF CheckRequest, StartContent, RequestContent, ContentAnswers, outcome, calls, batch
  <2>2. step[g] \in Early \cup Asking
    BY <2>1 DEF Early, Asking
  <2> QED BY <1>3, <1>4, <2>1, <2>2
<1>6. CASE ContentFails(g) \/ ContentCatch(g)
  <2>1. step[g] \in {"content", "contentRow", "contentCatch"}
        /\ UNCHANGED <<picked, tried, sheets>>
        /\ (tripped' = tripped \/ \E good : Report(g, "content", good))
    BY <1>6 DEF ContentFails, ContentCatch, outcome, batch
  <2>2. step[g] \in Early \cup Asking
    BY <2>1 DEF Early, Asking
  <2>3. tripped' \in [Services -> 0..SheetThreshold]
    BY <1>0, <1>3, <2>1, ReportCounts
  <2> QED BY <1>4, <2>1, <2>2, <2>3
<1>7. CASE Compose(g) \/ ComposeThrows(g) \/ Finish(g) \/ EndWithError(g) \/ ClientLeaves(g)
  <2>1. /\ UNCHANGED <<picked, tried, sheets, tripped>>
        /\ step' = step \/ Goto(g, "drain") \/ Goto(g, "done") \/ Goto(g, "failed")
    BY <1>7 DEF Compose, ComposeThrows, Finish, EndWithError, ClientLeaves, sheetSelectionVars,
                outcome, calls, batch
  <2>2. {"drain", "done", "failed"} \subseteq Steps
    BY DEF Steps, Making, Over
  <2>3. step'[g] = step[g] \/ step'[g] \in {"drain", "done", "failed"}
    BY <2>1, <2>2, GotoMoves
  <2>4. step'[g] = step[g] \/ step'[g] \notin Early \cup Asking \cup {"search"}
    BY <2>3 DEF Early, Asking, SelectionSteps
  <2> QED BY <1>3, <1>4, <2>1, <2>4
<1>8. CASE ReadContent(g)
  <2>1. /\ step[g] = "contentRow" /\ UNCHANGED <<picked, tried>>
        /\ Report(g, "content", TRUE) /\ sheets' = [sheets EXCEPT ![g] = Kept(g)]
    BY <1>8 DEF ReadContent, outcome
  <2>2. step[g] \in Early \cup Asking
    BY <2>1 DEF Asking
  <2>3. tripped' \in [Services -> 0..SheetThreshold]
    BY <1>0, <1>3, <2>1, ReportCounts
  <2>4. IsTree(payload[g]) /\ order[g].count \in Nat
    BY <1>0, PayloadsAreTrees DEF OrderFollows, SheetsFollow, AskedFor
  <2>5. \A i \in DOMAIN Kept(g) : IsTree(Kept(g)[i])
    BY <2>4, KeptAreTrees
  <2>6. DOMAIN sheets = Orders
    BY DEF OrderTypes
  <2>7. \A h \in Orders : \A i \in DOMAIN sheets'[h] : IsTree(sheets'[h][i])
    BY <1>3, <2>1, <2>5, <2>6
  <2> QED BY <1>1, <2>1, <2>2, <2>3, <2>7, TypedRests
<1>9. CASE SearchPictures(g)
  <2>1. /\ step[g] = "search" /\ UNCHANGED <<picked, tried, tripped>>
        /\ \/ Goto(g, "refused") /\ sheets' = sheets
           \/ \E found \in [Queried(g) -> Found \cup {"null"}] : Attach(g, found)
    BY <1>9 DEF SearchPictures, outcome, calls
  <2>2. \A found \in [Queried(g) -> Found \cup {"null"}] :
            found \in [Queried(g) -> Assets \cup {"null"}]
    BY GenerationAssumption
  <2>3. \A h \in Orders : \A i \in DOMAIN sheets'[h] : IsTree(sheets'[h][i])
    BY <1>3, <2>1, <2>2, AttachedAreTrees
  <2>4. Goto(g, "compose") \/ Goto(g, "refused")
    BY <2>1 DEF Attach
  <2>5. {"compose", "refused"} \subseteq Steps
    BY DEF Steps, Making
  <2>6. step'[g] \in {"compose", "refused"}
    BY <2>4, <2>5, GotoMoves
  <2>7. step'[g] \notin Early \cup Asking \cup {"search"}
    BY <2>6 DEF Early, Asking, SelectionSteps
  <2> QED BY <1>1, <1>3, <2>1, <2>3, <2>7, TypedRests
<1>10. CASE SearchFails(g)
  BY <1>1, <1>10, SearchCounts
<1>11. CASE SheetSelectionStep(g) /\ UNCHANGED <<batch, open, stream>>
  <2>1. /\ tripped' \in [Services -> 0..SheetThreshold]
        /\ \/ picked' = picked
           \/ step' = [step EXCEPT ![g] = "picked"] /\ \E t : picked' = [picked EXCEPT ![g] = t]
    BY <1>3, <1>11, ChoiceCounts
  <2>2. tried' = tried /\ sheets' = sheets
    BY <1>11 DEF batch
  <2>3. step[g] \in Early
    BY <1>11, SelectionMoves DEF Chooses, Early
  <2>4. CASE picked' = picked
    BY <1>4, <2>1, <2>2, <2>3, <2>4
  <2>5. CASE step' = [step EXCEPT ![g] = "picked"] /\ \E t : picked' = [picked EXCEPT ![g] = t]
    <3>1. PICK t : picked' = [picked EXCEPT ![g] = t]
      BY <2>5
    <3>2. step'[g] = "picked"
      BY <1>1, <2>5
    <3>3. picked'[g] \in DOMAIN Library
      BY <1>2, <3>2 DEF ChoiceFollows, ChoiceFits, Decided, ChoiceTypes
    <3>4. picked \in [Orders -> DOMAIN Library \cup {None}]
      BY DEF SheetTyped
    <3>5. picked' \in [Orders -> DOMAIN Library \cup {None}]
      BY <3>1, <3>3, <3>4
    <3>6. ASSUME NEW h \in Orders PROVE TriesFit(step'[h], tried'[h])
      <4>1. TriesFit(step[h], tried[h])
        BY DEF SheetTyped
      <4>2. step'[h] = step[h] \/ step[h] \in Early
        BY <1>1, <2>3
      <4> QED BY <2>2, <4>1, <4>2, TriesGoOn
    <3> QED BY <1>3, <2>1, <2>2, <3>5, <3>6 DEF SheetTyped
  <2> QED BY <2>1, <2>4, <2>5
<1> QED BY <1>5, <1>6, <1>7, <1>8, <1>9, <1>10, <1>11 DEF GenerationStep


---------------------------------------------------------------------------
(* What the selections for flashcards are written in, beyond what they follow. *)

Uploading == {"create", "invalidate", "done", "none"}
FlashTyped ==
    /\ shown \in [Selections -> SUBSET templates] /\ verdict \in [Selections -> Verdicts]
    /\ breaker \in 0..Threshold /\ cache.shown \subseteq templates
    /\ upload \in [Uploaders -> Uploading]

\* What the breaker is told keeps its count.
LEMMA TellCounts ==
    ASSUME breaker \in 0..Threshold, NEW s, NEW good, Tell(s, good)
    PROVE  breaker' \in 0..Threshold
<1>1. Threshold \in Nat
  BY SelectionAssumption
<1> QED BY <1>1 DEF Tell

\* A step of a selection keeps the types.
LEMMA SelectionKeepsTypes ==
    ASSUME RuleTypes, FlashTyped, NEW s \in Selections, SelectionStep(s) PROVE FlashTyped'
<1>0. /\ shown \in [Selections -> SUBSET templates] /\ verdict \in [Selections -> Verdicts]
      /\ breaker \in 0..Threshold /\ cache.shown \subseteq templates
      /\ upload \in [Uploaders -> Uploading]
  BY DEF FlashTyped
<1>1. CASE UNCHANGED <<shown, verdict, breaker, tables>>
  BY <1>1 DEF FlashTyped, tables
<1>2. CASE \/ ReadRules(s) \/ ReadTemplates(s) \/ Rank(s) \/ AskAi(s) \/ BuildFails(s)
           \/ CatchRow(s) \/ Load(s) \/ SelectionFails(s)
  <2>1. UNCHANGED <<shown, verdict, breaker, tables>>
    BY <1>2 DEF ReadRules, ReadTemplates, Rank, AskAi, BuildFails, CatchRow, Load, SelectionFails,
                progress, account
  <2> QED BY <1>1, <2>1
<1>3. CASE TakeSnapshot(s) \/ BuildSnapshot(s)
  <2>1. /\ UNCHANGED <<verdict, breaker, tables>>
        /\ \/ shown' = shown \/ shown' = [shown EXCEPT ![s] = cache.shown]
           \/ shown' = [shown EXCEPT ![s] = active]
    BY <1>3 DEF TakeSnapshot, BuildSnapshot, account
  <2>2. active \subseteq templates
    BY DEF RuleTypes
  <2>3. shown' \in [Selections -> SUBSET templates]
    BY <1>0, <2>1, <2>2
  <2> QED BY <1>0, <2>1, <2>3 DEF FlashTyped, tables
<1>4. CASE StoreSnapshot(s)
  <2>1. /\ UNCHANGED <<shown, verdict, breaker, templates, upload>>
        /\ cache' = [shown |-> shown[s], built |-> TRUE]
    BY <1>4 DEF StoreSnapshot, progress, account
  <2>2. cache'.shown = shown[s]
    BY <2>1
  <2> QED BY <1>0, <2>1, <2>2 DEF FlashTyped
<1>5. CASE ModelAnswers(s)
  <2>1. PICK pick \in DOMAIN Catalog \cup {NoTemplate}, sure \in BOOLEAN :
            /\ verdict' = [verdict EXCEPT ![s] =
                   [kind |-> Judged(s, pick, sure),
                    pick |-> IF Judged(s, pick, sure) = "ok" THEN pick ELSE NoTemplate]]
            /\ (\E good : Tell(s, good)) \/ breaker' = breaker
    BY <1>5 DEF ModelAnswers
  <2>2. UNCHANGED <<shown, tables>>
    BY <1>5 DEF ModelAnswers
  <2>3. Judged(s, pick, sure) \in {"malformed", "invalid_id", "low_confidence", "ok"}
    BY DEF Judged
  <2>4. verdict' \in [Selections -> Verdicts]
    <3> DEFINE v == [kind |-> Judged(s, pick, sure),
                     pick |-> IF Judged(s, pick, sure) = "ok" THEN pick ELSE NoTemplate]
    <3>1. v \in Verdicts
      BY <2>3 DEF Verdicts
    <3> HIDE DEF v
    <3> QED BY <1>0, <2>1, <3>1 DEF v
  <2>5. breaker' \in 0..Threshold
    BY <1>0, <2>1, TellCounts
  <2> QED BY <1>0, <2>2, <2>4, <2>5 DEF FlashTyped, tables
<1>6. CASE CallFails(s) \/ RowFails(s)
  <2>1. /\ UNCHANGED <<shown, tables>> /\ Tell(s, FALSE)
        /\ verdict' = [verdict EXCEPT ![s] = [kind |-> "error", pick |-> NoTemplate]]
    BY <1>6 DEF CallFails, RowFails, Failure
  <2>2. [kind |-> "error", pick |-> NoTemplate] \in Verdicts
    BY DEF Verdicts
  <2>3. verdict' \in [Selections -> Verdicts]
    BY <1>0, <2>1, <2>2
  <2>4. breaker' \in 0..Threshold
    BY <1>0, <2>1, TellCounts
  <2> QED BY <1>0, <2>1, <2>3, <2>4 DEF FlashTyped, tables
<1>7. CASE WriteRow(s)
  <2>1. /\ UNCHANGED <<shown, verdict, tables>>
        /\ (\E good : Tell(s, good)) \/ breaker' = breaker
    BY <1>7 DEF WriteRow
  <2>2. breaker' \in 0..Threshold
    BY <1>0, <2>1, TellCounts
  <2> QED BY <1>0, <2>1, <2>2 DEF FlashTyped, tables
<1> QED BY <1>2, <1>3, <1>4, <1>5, <1>6, <1>7 DEF SelectionStep

\* So does the catalogue.
LEMMA CatalogKeepsTypes == ASSUME FlashTyped, CatalogStep PROVE FlashTyped'
<1>0. /\ shown \in [Selections -> SUBSET templates] /\ verdict \in [Selections -> Verdicts]
      /\ breaker \in 0..Threshold /\ cache.shown \subseteq templates
      /\ upload \in [Uploaders -> Uploading]
  BY DEF FlashTyped
<1>1. /\ UNCHANGED <<shown, verdict, breaker>> /\ templates \subseteq templates'
      /\ cache' = cache \/ cache' = NoSnapshot
      /\ \/ upload' = upload
         \/ \E u \in Uploaders, x \in {"invalidate", "done"} : upload' = [upload EXCEPT ![u] = x]
  BY DEF CatalogStep, CreateTemplate, Invalidate, SnapshotExpires, Withdraw, progress, account
<1>2. shown' \in [Selections -> SUBSET templates']
  BY <1>0, <1>1
<1>3. cache'.shown \subseteq templates'
  <2>1. NoSnapshot.shown = {}
    BY DEF NoSnapshot
  <2> QED BY <1>0, <1>1, <2>1
<1>4. upload' \in [Uploaders -> Uploading]
  BY <1>0, <1>1 DEF Uploading
<1> QED BY <1>0, <1>1, <1>2, <1>3, <1>4 DEF FlashTyped

---------------------------------------------------------------------------
(* Every step of both generators keeps the types. *)

\* What holds at first.
LEMMA FirstTypes == Init => SheetTyped /\ FlashTyped
<1> SUFFICES ASSUME Init PROVE SheetTyped /\ FlashTyped
  OBVIOUS
<1>1. SelectionInit /\ SheetInit
  BY DEF Init
<1>2. SheetTyped
  <2>1. /\ picked = [g \in Orders |-> None] /\ tried = [g \in Orders |-> 0]
        /\ tripped = [b \in Services |-> 0] /\ \A g \in Orders : sheets[g] = <<>>
    BY <1>1 DEF SheetInit, Services
  <2>2. SheetThreshold \in Nat /\ SearchAttempts \in Nat \ {0}
    BY LibraryAssumption, GenerationAssumption
  <2>3. \A g \in Orders : tried[g] = 0
    BY <2>1
  <2>4. \A g \in Orders : TriesFit(step[g], tried[g])
    BY <2>2, <2>3 DEF TriesFit
  <2>5. \A g \in Orders : DOMAIN sheets[g] = {}
    BY <2>1
  <2> QED BY <2>1, <2>2, <2>4, <2>5 DEF SheetTyped
<1>3. FlashTyped
  <2>1. /\ shown = [s \in Selections |-> {}] /\ templates = Initial /\ cache = NoSnapshot
        /\ verdict = [s \in Selections |-> [kind |-> "none", pick |-> NoTemplate]] /\ breaker = 0
    BY <1>1 DEF SelectionInit
  <2>2. [kind |-> "none", pick |-> NoTemplate] \in Verdicts /\ NoSnapshot.shown = {}
    BY DEF Verdicts, NoSnapshot
  <2>3. Threshold \in Nat
    BY SelectionAssumption
  <2>4. PICK s \in Scenarios : upload = s.uploads
    BY DEF Init
  <2>5. upload \in [Uploaders -> {"create", "none"}]
    BY <2>4, ScenarioAssumption
  <2>6. upload \in [Uploaders -> Uploading]
    BY <2>5 DEF Uploading
  <2> QED BY <2>1, <2>2, <2>3, <2>6 DEF FlashTyped
<1> QED BY <1>2, <1>3

\* Every step keeps it.
LEMMA NextTypes ==
    CInv /\ TInv /\ SheetTyped /\ FlashTyped /\ [Next]_vars => SheetTyped' /\ FlashTyped'
<1> SUFFICES ASSUME CInv, TInv, SheetTyped, FlashTyped, [Next]_vars
             PROVE  SheetTyped' /\ FlashTyped'
  OBVIOUS
<1>0. /\ AskedFor /\ OrderTypes /\ OrdersFollow /\ ChoiceTypes /\ RuleTypes
      /\ \A g \in Orders : ChoiceFollows(g)
  BY DEF CInv, TInv
<1>1. ASSUME UNCHANGED <<step, picked, tripped, tried, sheets>> PROVE SheetTyped'
  BY <1>1 DEF SheetTyped
<1>2. ASSUME UNCHANGED flashVars PROVE FlashTyped'
  BY <1>2 DEF FlashTyped, flashVars, selectionVars, progress, account, tables
<1>3. CASE (\E s \in Selections : SelectionStep(s) /\ UNCHANGED <<sheetVars, authorVars>>)
           \/ (CatalogStep /\ UNCHANGED <<sheetVars, authorVars>>)
  <2>1. UNCHANGED <<step, picked, tripped, tried, sheets>>
    BY <1>3 DEF sheetVars, sheetSelectionVars, outcome, calls, batch
  <2>2. FlashTyped'
    BY <1>0, <1>3, SelectionKeepsTypes, CatalogKeepsTypes
  <2> QED BY <1>1, <2>1, <2>2
<1>4. CASE SheetStep /\ UNCHANGED <<flashVars, authorVars>>
  <2>1. rowsMade' = rowsMade
    BY <1>4 DEF authorVars
  <2>2. CASE \E g \in Orders : GenerationStep(g) \/ ClientLeaves(g)
    BY <1>0, <1>2, <1>4, <2>1, <2>2, RequestKeepsTypes
  <2>3. CASE \E t \in library : Retire(t) /\ UNCHANGED <<batch, open, stream>>
    <3>1. UNCHANGED <<step, picked, tripped, tried, sheets>>
      BY <2>3 DEF Retire, outcome, calls, batch
    <3> QED BY <1>1, <1>2, <1>4, <3>1
  <2> QED BY <1>4, <2>2, <2>3 DEF SheetStep
<1>5. CASE \E u \in Authors : AuthorStep(u)
             /\ UNCHANGED <<flashVars, order, step, outcome, calls, batch, open, stream>>
  <2>1. UNCHANGED flashVars /\ UNCHANGED <<step, picked, tripped, tried, sheets>>
    BY <1>5 DEF outcome, calls, batch
  <2> QED BY <1>1, <1>2, <2>1
<1>6. CASE FolderStep /\ UNCHANGED <<flashVars, sheetVars>>
  <2>1. UNCHANGED <<step, picked, tripped, tried, sheets>>
    BY <1>6 DEF sheetVars, sheetSelectionVars, outcome, calls, batch
  <2> QED BY <1>1, <1>2, <1>6, <2>1
<1>7. CASE UNCHANGED vars
  <2>1. UNCHANGED flashVars /\ UNCHANGED <<step, picked, tripped, tried, sheets>>
    BY <1>7 DEF vars, flashVars, sheetVars, sheetSelectionVars, outcome, calls, batch
  <2> QED BY <1>1, <1>2, <2>1
<1> QED BY <1>3, <1>4, <1>5, <1>6, <1>7 DEF Next

\* A request that goes on has a template.
LEMMA TypesFollow == CInv /\ TInv /\ SheetTyped /\ FlashTyped => TypeOK
<1> SUFFICES ASSUME CInv, TInv, SheetTyped, FlashTyped PROVE TypeOK
  OBVIOUS
<1>0. /\ OrderTypes /\ CallTypes /\ ChoiceTypes /\ TemplatesFollow /\ RuleTypes
      /\ (\A g \in Orders : ChoiceFollows(g)) /\ \A s \in Selections : RuleFollows(s)
  BY DEF CInv, TInv
<1>1. SelectionTypeOK
  <2>1. \A s \in Selections : choice[s] # NoRule => choice[s] \in pool[s]
    BY <1>0 DEF RuleFollows, RuleFits
  <2>2. \A s \in Selections : shown[s] \subseteq DOMAIN Catalog /\ verdict[s] \in Verdicts
    BY <1>0 DEF RuleTypes, FlashTyped
  <2> QED BY <1>0, <2>1, <2>2 DEF SelectionTypeOK, CallTypes, RuleTypes, FlashTyped, Uploading
<1>2. SheetTypeOK
  <2>1. step \in [Orders -> SelectionSteps \cup {"validate", "picked", "request", "content",
                     "contentRow", "contentCatch", "search", "compose", "drain", "refused",
                     "done", "failed"}]
    BY <1>0 DEF OrderTypes, Steps, Early, Asking, Making, Over
  <2>2. ASSUME NEW g \in Orders, picked[g] = None
        PROVE  step[g] \in SelectionSteps \cup {"validate", "refused", "done", "failed"}
    <3>1. step[g] \notin Decided
      <4>1. None \notin rowsMade
        BY <1>0, LibraryAssumption DEF ChoiceTypes
      <4> QED BY <1>0, <2>2, <4>1 DEF ChoiceFollows, ChoiceFits
    <3> QED BY <2>1, <3>1 DEF Decided, Asking, Making
  <2>3. \A b \in DOMAIN tripped : tripped[b] \in 0..SheetThreshold
    BY DEF SheetTyped
  <2>4. \A g \in Orders : composed[g] \in 0..Len(sheets[g]) /\ tried[g] \in 0..SearchAttempts
    BY <1>0 DEF OrderTypes, SheetTyped
  <2>5. /\ \A g \in Orders : picked[g] \in DOMAIN Library \cup {None} /\ open[g] \subseteq Stages
        /\ \A g \in Orders, c \in Calls : told[g][c] \in Seq(BOOLEAN) /\ billed[g][c] \in Seq(BOOLEAN)
    BY <1>0 DEF OrderTypes, SheetTyped
  <2>6. \A g \in Orders : \A i \in DOMAIN sheets[g] : IsTree(sheets[g][i])
    BY DEF SheetTyped
  <2> QED BY <2>1, <2>2, <2>3, <2>4, <2>5, <2>6 DEF SheetTypeOK
<1>3. AuthorTypeOK
  BY <1>0 DEF TemplatesFollow
<1> QED BY <1>1, <1>2, <1>3 DEF TypeOK

\* Always, for every number of requests, selections, templates and authors: the state
\* of both generators is of its types.  Above all, a sheet stays a structure on
\* its way from the model's payload to the answer, every place past the choice
\* has a template, no search is tried more often than it may be, and neither
\* circuit breaker counts past its threshold.
THEOREM GeneratorsAreTyped == Spec => []TypeOK
<1>1. Init => SheetTyped /\ FlashTyped
  BY FirstTypes
<1>2. CInv /\ TInv /\ SheetTyped /\ FlashTyped /\ [Next]_vars => SheetTyped' /\ FlashTyped'
  BY NextTypes
<1>3. CInv /\ TInv /\ SheetTyped /\ FlashTyped => TypeOK
  BY TypesFollow
<1> QED BY <1>1, <1>2, <1>3, RequestsAreFollowed, ChoicesAreFollowed, PTL DEF Spec
=============================================================================
