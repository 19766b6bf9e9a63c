---------------------------- MODULE AssetSearch ----------------------------
(***************************************************************************)
(* Searching the library of assets: the guard against restricted words,    *)
(* the cache of answers, one embedding for all queries the cache does not  *)
(* answer, and for each of them the vector search, the read of the assets  *)
(* it found, the filters, and for a letter the match of its labels with a  *)
(* lookup of its own when nothing matched.  Between those awaits assets    *)
(* are described, embedded and removed, other searches write the cache,    *)
(* it is flushed, and administrators edit the restricted words.            *)
(*                                                                         *)
(* search and searchMany are one operation here: a search is a batch of a  *)
(* single query.                                                           *)
(***************************************************************************)
EXTENDS ContentRestrictions, SearchCache, LetterSearch, Lists

CONSTANTS
    Assets,
    Metadata,       \* the record each asset is described with
    Rank,           \* the assets in order of similarity to each query
    Callers,        \* calls in flight at a time
    Requests,       \* what a call may ask
    NoRequest,
    DefaultCountry, \* flashcards.defaultCountryCode, or Global when not set
    CandidateMultiplier, MinimumCandidates, LetterCandidates,
    LookupMultiplier, MinimumLookup,
    Concurrency,    \* queries of a batch searched at a time
    MaxCalls, MaxChanges, MaxFaults, MaxRestarts,   \* bounds
    Occasions       \* bound: which calls, edits, outages, flushes, changes, faults and
                    \* restarts a behaviour may see together, and with which library

ASSUME SearchAssumption ==
    /\ NoRequest \notin Requests
    /\ DefaultCountry \in Scopes
    /\ IsFiniteSet(Assets)
    /\ \A r \in Requests :
          /\ r.limit \in Nat \ {0} /\ r.candidates \in Nat
          /\ r.queries # <<>> /\ r.queries \in Seq(ToSet(r.queries))
          /\ \A q \in ToSet(r.queries) : Rank[q] \in SetToSeqs(Assets)
    /\ {CandidateMultiplier, MinimumCandidates, LetterCandidates,
        LookupMultiplier, MinimumLookup, Concurrency} \subseteq Nat \ {0}
    /\ {MaxCalls, MaxChanges, MaxFaults, MaxRestarts} \subseteq Nat

VARIABLES
    library,        \* how far each asset has come
    call,           \* each caller's search: its request, step and lanes
    steady,         \* history: the assets that were there all through a call
    calls, changes, faults, restarts

searchVars == <<library, call, steady, calls, changes, faults, restarts>>
vars == <<searchVars, cacheVars, restrictionVars>>

(* ------------------------------- a request ------------------------------ *)
\* resolveRequestCountryCode: the requested code when it is one.
CountryOf(r) == IF r.country \in Countries THEN r.country ELSE DefaultCountry

Queries(r) == ToSet(r.queries)
Forbidden(terms, r) == \E q \in Queries(r) : q.words \cap terms # {}

\* Mutant: the filters are left out of the key.
KeyByQuery(r, q) == [query |-> q, limit |-> r.limit, filters |-> <<>>]
KeyOf(r, q) == [query |-> q, limit |-> r.limit, filters |-> r.filters]
ASSUME KeysAssumption == \A r \in Requests : \A q \in Queries(r) : KeyOf(r, q) \in Keys

Least(a, b) == IF a < b THEN a ELSE b
Most(a, b) == IF a < b THEN b ELSE a

\* resolveCandidateLimit: how many neighbours the vector search returns.
CandidateLimit(r, q) ==
    LET isLetter == Detect(q) # NoLetter
    IN  IF r.candidates > 0 THEN r.candidates
        ELSE IF r.retrieval
        THEN IF isLetter THEN Most(r.limit, LetterCandidates) ELSE r.limit
        ELSE Most(r.limit * CandidateMultiplier,
                  IF isLetter THEN LetterCandidates ELSE MinimumCandidates)

First(s, n) == SubSeq(s, 1, Least(n, Len(s)))

(* ------------------------------- the library ---------------------------- *)
Described(a) == library[a] \in {"described", "embedded"}
Embedded(a) == library[a] = "embedded"

Fits(a, r) == Described(a) /\ MatchesFilters(Metadata[a], r.filters)
FitsLetter(a, q) ==
    Detect(q) = NoLetter \/ MatchesLetter(Metadata[a].objects, Detect(q))
Fitting(r, q) == {a \in Assets : Fits(a, r) /\ FitsLetter(a, q)}

(* -------------------------------- a call -------------------------------- *)
NoCall == [at |-> "idle", request |-> NoRequest, lanes |-> <<>>]
LaneOf(q) == [at |-> "get", query |-> q, hits |-> <<>>, answer |-> <<>>]
Running == {"embed", "vectors", "load", "lookup", "store"}

Begun(c) == call[c].at \in {"get", "embed", "run"}
Lanes(c) == DOMAIN call[c].lanes
IsOver(c) == ~ Begun(c) /\ \A i \in Lanes(c) : call[c].lanes[i].at \notin Running

SearchInit ==
    /\ library \in [Assets -> {"absent", "described", "embedded"}]
    /\ call = [c \in Callers |-> NoCall]
    /\ steady = [c \in Callers |-> {}]
    /\ calls \in 0..MaxCalls
    /\ changes \in 0..MaxChanges /\ faults \in 0..MaxFaults /\ restarts \in 0..MaxRestarts

\* The guard runs before the cache is read; asking it compiles the country.
Begin(c) ==
    /\ IsOver(c)
    /\ calls < MaxCalls
    /\ calls' = calls + 1
    /\ \E r \in Requests :
          /\ call' = [call EXCEPT ![c] =
                [at |-> IF Forbidden(AllTerms(CountryOf(r)), r) THEN "refused" ELSE "get",
                 request |-> r,
                 lanes |-> [i \in DOMAIN r.queries |-> LaneOf(r.queries[i])]]]
          /\ Compile(CountryOf(r))
    /\ steady' = [steady EXCEPT ![c] = {a \in Assets : Embedded(a)}]
    /\ UNCHANGED <<library, changes, faults, restarts, rows, registry, admin, edits, behind, cacheVars>>

InCall(c, i, lane, at) ==
    call' = [call EXCEPT ![c].lanes[i] = lane, ![c].at = at]

\* The next query of the batch is looked up in the cache, unless the request
\* bypasses it.
ReadCache(c, i) ==
    /\ call[c].at = "get"
    /\ call[c].lanes[i].at = "get"
    /\ \A j \in 1..i - 1 : call[c].lanes[j].at # "get"
    /\ LET r == call[c].request
           lane == call[c].lanes[i]
           uncached == \E j \in 1..i - 1 : call[c].lanes[j].at = "embed"
           last == i = Len(call[c].lanes)
           entry == IF r.bypass THEN Nothing ELSE Cached(KeyOf(r, lane.query))
       IN  IF entry = Nothing
           THEN InCall(c, i, [lane EXCEPT !.at = "embed"], IF last THEN "embed" ELSE "get")
           ELSE InCall(c, i, [lane EXCEPT !.at = "cached", !.answer = entry],
                       IF ~ last THEN "get" ELSE IF uncached THEN "embed" ELSE "answered")
    /\ UNCHANGED <<library, steady, calls, changes, faults, restarts, cacheVars, restrictionVars>>

\* generateEmbeddings: one call for the queries the cache did not answer.
EmbedQueries(c) ==
    /\ call[c].at = "embed"
    /\ call' = [call EXCEPT ![c].at = "run", ![c].lanes =
          [i \in Lanes(c) |->
              IF call[c].lanes[i].at = "embed"
              THEN [call[c].lanes[i] EXCEPT !.at = "vectors"]
              ELSE call[c].lanes[i]]]
    /\ UNCHANGED <<library, steady, calls, changes, faults, restarts, cacheVars, restrictionVars>>

\* The provider throws: the call fails before a lane has run.
EmbedFails(c) ==
    /\ call[c].at = "embed"
    /\ faults < MaxFaults
    /\ faults' = faults + 1
    /\ call' = [call EXCEPT ![c].at = "failed", ![c].lanes = <<>>]
    /\ UNCHANGED <<library, steady, calls, changes, restarts, cacheVars, restrictionVars>>

(* -------------------------------- a lane -------------------------------- *)
\* mapWithConcurrency: a lane starts when a worker is free; a worker whose lane
\* threw takes no other.
Stored(c) == {i \in Lanes(c) : call[c].lanes[i].at = "done"}
Scheduled(c, i) ==
    Cardinality({j \in 1..i - 1 : call[c].lanes[j].at # "cached"})
      < Cardinality(Stored(c)) + Concurrency

LaneAt(c, i, at) == i \in Lanes(c) /\ call[c].lanes[i].at = at
StepLane(c, i, lane) == call' = [call EXCEPT ![c].lanes[i] = lane]
LaneUnchanged ==
    UNCHANGED <<library, steady, calls, changes, faults, restarts, cacheVars, restrictionVars>>

\* searchSimilar: the nearest assets that have a vector.
SearchSimilar(c, i) ==
    /\ LaneAt(c, i, "vectors")
    /\ Scheduled(c, i)
    /\ LET lane == call[c].lanes[i]
           near == Only(Rank[lane.query], {a \in Assets : Embedded(a)})
       IN  \E hits \in {First(near, CandidateLimit(call[c].request, lane.query))} :
              StepLane(c, i, [lane EXCEPT !.hits = hits,
                 !.at = IF hits = <<>> /\ Detect(lane.query) = NoLetter
                        THEN "store" ELSE "load"])
    /\ LaneUnchanged

\* Mutant: the limit is applied before the filters.
LoadLimited(c, i) ==
    /\ LaneAt(c, i, "load")
    /\ LET r == call[c].request
           lane == call[c].lanes[i]
           fitting == Only(First(lane.hits, r.limit), Fitting(r, lane.query))
       IN  StepLane(c, i, [lane EXCEPT !.hits = <<>>, !.answer = fitting,
              !.at = IF fitting = <<>> /\ Detect(lane.query) # NoLetter
                     THEN "lookup" ELSE "store"])
    /\ LaneUnchanged

\* loadAssetsWithMetadata: of the hits, the assets that are still there and fit
\* the filters and the letter; no match for a letter asks for a lookup.
LoadAssets(c, i) ==
    /\ LaneAt(c, i, "load")
    /\ LET r == call[c].request
           lane == call[c].lanes[i]
       IN  \E fitting \in {Only(lane.hits, Fitting(r, lane.query))} :
              StepLane(c, i, [lane EXCEPT !.hits = <<>>, !.answer = First(fitting, r.limit),
                 !.at = IF fitting = <<>> /\ Detect(lane.query) # NoLetter
                        THEN "lookup" ELSE "store"])
    /\ LaneUnchanged

\* findByCanonicalObjects: of the assets described with the labels of the letter,
\* with a vector or without, so many as its window takes, in the order of the table,
\* and of those the ones that fit.
LookupWindow(r) == Most(r.limit * LookupMultiplier, MinimumLookup)
FindByCanonicalObjects(c, i) ==
    /\ LaneAt(c, i, "lookup")
    /\ LET r == call[c].request
           lane == call[c].lanes[i]
           labelled == {a \in Assets : /\ Described(a)
                                       /\ HasObjects(Metadata[a].objects, Detect(lane.query))}
       IN  \E order \in SetToSeqs(labelled) :
              LET found == Only(First(order, LookupWindow(r)), Fitting(r, lane.query))
              IN  StepLane(c, i, [lane EXCEPT !.at = "store", !.answer = First(found, r.limit)])
    /\ LaneUnchanged

\* Mutant: a call with a cached answer is never complete.
IsLastStored(c, i) ==
    \A j \in Lanes(c) \ {i} : call[c].lanes[j].at = "done"
IsLast(c, i) ==
    \A j \in Lanes(c) \ {i} : call[c].lanes[j].at \in {"done", "cached"}

\* The answer is cached, also for a call that another lane has failed.
StoreAnswer(c, i) ==
    /\ LaneAt(c, i, "store")
    /\ Put(KeyOf(call[c].request, call[c].lanes[i].query), call[c].lanes[i].answer)
    /\ InCall(c, i, [call[c].lanes[i] EXCEPT !.at = "done"],
              IF call[c].at = "run" /\ IsLast(c, i) THEN "answered" ELSE call[c].at)
    /\ UNCHANGED <<library, steady, calls, changes, faults, restarts, restrictionVars>>
    /\ UNCHANGED <<up, sweep, flushing, outages, flushes>>

\* A read throws: the call fails at once, its other lanes go on.
LaneFails(c, i) ==
    /\ i \in Lanes(c)
    /\ call[c].lanes[i].at \in {"vectors", "load", "lookup"}
    /\ Scheduled(c, i)
    /\ faults < MaxFaults
    /\ faults' = faults + 1
    /\ InCall(c, i, [LaneOf(call[c].lanes[i].query) EXCEPT !.at = "failed"], "failed")
    /\ UNCHANGED <<library, steady, calls, changes, restarts, cacheVars, restrictionVars>>

(* ------------------------------ around a call --------------------------- *)
\* The pipeline describes an asset and stores its vector; a cleanup removes it
\* with all that hangs on it.
Advance(a) ==
    /\ \/ library[a] = "absent" /\ library' = [library EXCEPT ![a] = "described"]
       \/ library[a] = "described" /\ library' = [library EXCEPT ![a] = "embedded"]
    /\ UNCHANGED steady
RemoveAsset(a) ==
    /\ library[a] # "removed"
    /\ library' = [library EXCEPT ![a] = "removed"]
    /\ steady' = [c \in Callers |-> steady[c] \ {a}]
LibraryChanges ==
    /\ changes < MaxChanges
    /\ changes' = changes + 1
    /\ \E a \in Assets : Advance(a) \/ RemoveAsset(a)
    /\ UNCHANGED <<call, calls, faults, restarts, cacheVars, restrictionVars>>

\* The process starts again: calls and operations are gone, Redis is not.
Restart ==
    /\ restarts < MaxRestarts
    /\ restarts' = restarts + 1
    /\ Startup
    /\ call' = [c \in Callers |-> NoCall]
    /\ steady' = [c \in Callers |-> {}]
    /\ sweep' = {} /\ flushing' = FALSE
    /\ UNCHANGED <<library, calls, changes, faults, cache, up, outages, flushes>>

Lane(c, i) ==
    \/ SearchSimilar(c, i)
    \/ LoadAssets(c, i)
    \/ FindByCanonicalObjects(c, i)
    \/ StoreAnswer(c, i)
    \/ LaneFails(c, i)

Searching ==
    \E c \in Callers :
        \/ \E i \in Lanes(c) : ReadCache(c, i) \/ Lane(c, i)
        \/ EmbedQueries(c)
        \/ EmbedFails(c)

\* What a behaviour may still see is drawn at its start.
Drawn == \E o \in Occasions :
    /\ library = o.library
    /\ calls = MaxCalls - o.calls
    /\ edits = MaxEdits - o.edits /\ restarts = MaxRestarts - o.restarts
    /\ outages = MaxOutages - o.outages /\ flushes = MaxFlushes - o.flushes
    /\ changes = MaxChanges - o.changes /\ faults = MaxFaults - o.faults
Init == RestrictionsInit /\ CacheInit /\ SearchInit /\ Drawn

Next ==
    \/ Searching
    \/ \E c \in Callers : Begin(c)
    \/ LibraryChanges
    \/ RestrictionStep /\ UNCHANGED <<searchVars, cacheVars>>
    \/ CacheStep /\ UNCHANGED <<searchVars, restrictionVars>>
    \/ Restart

Spec == Init /\ [][Next]_vars

\* Every await of a search returns or throws in the end.
FairSpec == Spec /\ WF_vars(Searching)

(* ------------------------------ properties ------------------------------ *)
AllQueries == UNION {Queries(r) : r \in Requests}
LaneAts == Running \cup {"get", "cached", "done", "failed"}
LaneType ==
    [at : LaneAts, query : AllQueries, hits : Seq(Assets), answer : Seq(Assets)]
CallAts == {"idle", "refused", "get", "embed", "run", "answered", "failed"}
CallType ==
    [at : CallAts, request : Requests \cup {NoRequest}, lanes : Seq(LaneType)]

TypeOK ==
    /\ RestrictionsTyped
    /\ CacheTyped(Seq(Assets))
    /\ library \in [Assets -> {"absent", "described", "embedded", "removed"}]
    /\ call \in [Callers -> CallType]
    /\ steady \in [Callers -> SUBSET Assets]
    /\ calls \in 0..MaxCalls /\ changes \in 0..MaxChanges
    /\ faults \in 0..MaxFaults /\ restarts \in 0..MaxRestarts

\* One list holds elements of another, in its order.
InOrderOf(s, t) ==
    /\ ToSet(s) \subseteq ToSet(t)
    /\ \A i, j \in DOMAIN s : i < j =>
          \E m, n \in DOMAIN t : m < n /\ s[i] = t[m] /\ s[j] = t[n]

\* What an answer to a query under a limit and filters may hold: no asset
\* twice, no more than asked for, only assets that fit the filters and show the
\* letter asked for, and without a letter in the order of the query's own
\* neighbours.
IsAnswer(q, limit, filters, answer) ==
    /\ Len(answer) <= limit
    /\ \A i, j \in DOMAIN answer : answer[i] = answer[j] => i = j
    /\ \A a \in ToSet(answer) : MatchesFilters(Metadata[a], filters) /\ FitsLetter(a, q)
    /\ Detect(q) = NoLetter => InOrderOf(answer, Rank[q])

\* Every answer is one to its own question, wherever it came from: the answers
\* of a batch to their queries, the entries of the cache to every request that
\* may read them, whichever request stored them.
AnswersFit ==
    /\ \A c \in Callers : call[c].at = "answered" =>
          LET r == call[c].request
          IN  \A i \in Lanes(c) :
                 IsAnswer(call[c].lanes[i].query, r.limit, r.filters, call[c].lanes[i].answer)
    /\ \A r \in Requests : \A q \in Queries(r) : cache[KeyOf(r, q)] # Nothing =>
          IsAnswer(q, r.limit, r.filters, cache[KeyOf(r, q)])

\* A search over all candidates does not miss what was there all the time: an
\* asset embedded before the call and not removed during it, that fits, is in
\* the answer, or the answer is full; assets that come and go between the
\* vector search, the read and the lookup take nobody's place.
IsWide(r) == ~ r.retrieval /\ r.candidates = 0
NothingFittingMissed ==
    \A c \in Callers : \A i \in Lanes(c) :
        LET r == call[c].request
            lane == call[c].lanes[i]
        IN  lane.at = "done" /\ IsWide(r) =>
              \/ Len(lane.answer) = r.limit
              \/ steady[c] \cap Fitting(r, lane.query) \subseteq ToSet(lane.answer)

\* The guard follows the table: while no operation has written a row that it
\* has not loaded yet, a search is refused exactly when an active row forbids a
\* word of it in its country, whatever was compiled, cached or asked before.
Began(c) == call'[c] # call[c] /\ call'[c].at \in {"get", "refused"} /\ ~ Begun(c)
GuardFollowsTheTable ==
    [][Settled => \A c \in Callers : Began(c) =>
          LET r == call'[c].request
          IN  (call'[c].at = "refused")
                = Forbidden(Applicable(Active, CountryOf(r)), r)]_vars

\* Liveness: every search is answered or fails, whatever Redis and the other
\* lanes of its batch do.
EverySearchEnds == \A c \in Callers : []<>(~ Begun(c))

---------------------------------------------------------------------------
(* What the documents claim and the code does not keep.                    *)

\* "Search only returns assets that have both metadata and an embedding": the
\* lookup of a letter does not ask for the embedding.
FreshAnswersAreEmbedded ==
    [][\A c \in Callers : \A i \in Lanes(c) :
          LaneAt(c, i, "lookup") /\ call'[c].lanes # <<>> =>
              \A a \in ToSet(call'[c].lanes[i].answer) : Embedded(a)]_vars

\* The cache is transparent: a wide request does not get the answer of a narrow
\* one, whose window is not part of the key.
CacheIsTransparent ==
    \A c \in Callers : \A i \in Lanes(c) :
        LET r == call[c].request
            lane == call[c].lanes[i]
        IN  lane.at = "cached" /\ IsWide(r) /\ MaxChanges = 0 =>
              \/ Len(lane.answer) = r.limit
              \/ steady[c] \cap Fitting(r, lane.query) \subseteq ToSet(lane.answer)
=============================================================================
