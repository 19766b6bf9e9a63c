--------------------------- MODULE MCAssetSearch ---------------------------
(* A small library: a kite, a capital A, and an Aa that shows both cases.   *)
EXTENDS AssetSearch, TLC

CONSTANTS kite, a1, a2, k1

Text(words, anchor, caseWords) ==
    [words |-> words, anchor |-> anchor, letter |-> IF anchor = "none" THEN NoLetter ELSE "A",
     caseWords |-> caseWords, aboutObject |-> FALSE]
KiteQuery == Text({kite}, "none", {})
CapitalQuery == Text({}, "letter", {"upper"})

MCMetadata ==
    (k1 :> [styles |-> {"line"}, objects |-> {<<"kite">>}])
    @@ (a1 :> [styles |-> {"photo"}, objects |-> {Label("upper", "A")}])
    @@ (a2 :> [styles |-> {"line"}, objects |-> {Label("upper", "A"), Label("lower", "A")}])
MCRank ==
    (KiteQuery :> <<k1, a2, a1>>) @@ (CapitalQuery :> <<a2, k1, a1>>)

NoFilter == [styles |-> {}]
Photos == [styles |-> {"photo"}]
Ask(queries, limit, filters) ==
    [queries |-> queries, limit |-> limit, filters |-> filters, country |-> "none",
     bypass |-> FALSE, retrieval |-> FALSE, candidates |-> 0]
MCRequests ==
    {[Ask(<<KiteQuery>>, 1, Photos) EXCEPT !.country = "IN"],
     Ask(<<CapitalQuery>>, 1, Photos),
     [Ask(<<CapitalQuery, KiteQuery>>, 1, NoFilter) EXCEPT !.retrieval = TRUE]}
MCKeys == UNION {{KeyOf(r, q) : q \in Queries(r)} : r \in MCRequests}

\* The letters may be on their way.
Complete == [a \in Assets |-> "embedded"]
OnTheirWay == [Complete EXCEPT ![a1] = "described", ![a2] = "absent"]

\* The calls and the other events that meet in one behaviour.
Among(n, kinds, times) ==
    [kind \in {"calls", "edits", "restarts", "outages", "flushes", "changes", "faults"} |->
        IF kind = "calls" THEN n ELSE IF kind \in kinds THEN times ELSE 0]
From(start, occasions) == {o @@ [library |-> start] : o \in occasions}
MCOccasions ==
    From(Complete, {Among(1, {"edits"}, 2), Among(2, {"edits"}, 1)})
    \cup UNION {From(start, {Among(1, {"edits", "restarts"}, 1), Among(2, {"outages", "faults"}, 1),
                             Among(2, {"changes"}, 1), Among(1, {"changes", "faults"}, 1),
                             Among(2, {"flushes"}, 1), Among(1, {"outages", "flushes"}, 1)})
                    : start \in {Complete, OnTheirWay}}

MCCountries == {"IN"}
MCDefaults == {[term |-> kite, country |-> "IN", severity |-> "RESTRICTED"]}
=============================================================================
