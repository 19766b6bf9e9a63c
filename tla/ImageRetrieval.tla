--------------------------- MODULE ImageRetrieval ---------------------------
(***************************************************************************)
(* The IMAGE_RETRIEVAL stage of one flashcard generation.  Every image     *)
(* component of every card is a slot; a slot is searched for once, claims  *)
(* the best hit no other slot of the set has claimed, signs its URL and    *)
(* loads its colours.  Two nested pools run the slots: CardConcurrency     *)
(* cards at a time and ImageConcurrency slots of each.                     *)
(*                                                                         *)
(* A pool hands out its items in order, so after d of n items are done it  *)
(* has started the first d + workers: no further state is needed for it.   *)
(* A search answers with any of Rankings, hits in order of similarity.     *)
(***************************************************************************)
EXTENDS Integers, FiniteSets, Sequences

CONSTANTS
    NCards,             \* cards of the set, 1..NCards
    NImages,            \* image components of a card, 1..NImages
    CardConcurrency,    \* flashcards.cardConcurrency
    ImageConcurrency,   \* flashcards.imageConcurrency
    MaxAttempts,        \* flashcards.imageEmbeddingMaxAttempts
    NoQuery,            \* the slots the model wrote no search query for
    Assets,             \* the library
    NoAsset,            \* not an asset
    Rankings,           \* what a search may answer
    ColorsMayFail       \* whether reading the colours may throw

Slots == (1..NCards) \X (1..NImages)

ASSUME PoolAssumption ==
    /\ {NCards, NImages, CardConcurrency, ImageConcurrency, MaxAttempts} \subseteq Nat \ {0}
    /\ NoQuery \subseteq Slots
ASSUME LibraryAssumption ==
    /\ NoAsset \notin Assets
    /\ Rankings \subseteq Seq(Assets)
    /\ ColorsMayFail \in BOOLEAN

VARIABLES
    reached,    \* where each slot is
    attempt,    \* searches a slot has tried
    results,    \* the hits a slot works with
    used,       \* usedAssetIds, shared by all slots
    claimed,    \* the asset a slot has claimed
    reference,  \* the asset reference returned for a slot
    record      \* the image-search record telemetry keeps for a slot

retrievalVars == <<reached, attempt, results, used, claimed, reference, record>>

SlotSteps == {"waiting", "search", "claim", "sign", "colors", "done"}
Statuses == {"none", "found", "IMAGE_NOT_FOUND", "error"}
References == [status : Statuses, asset : Assets \cup {NoAsset}]
Records == [state : {"none", "started", "completed", "failed"}, asset : Assets \cup {NoAsset}]

RetrievalTypeOK ==
    /\ reached \in [Slots -> SlotSteps]
    /\ attempt \in [Slots -> 0..MaxAttempts]
    /\ results \in [Slots -> Seq(Assets)]
    /\ used \subseteq Assets
    /\ claimed \in [Slots -> Assets \cup {NoAsset}]
    /\ reference \in [Slots -> References]
    /\ record \in [Slots -> Records]

RetrievalInit ==
    /\ reached = [s \in Slots |-> "waiting"]
    /\ attempt = [s \in Slots |-> 0]
    /\ results = [s \in Slots |-> <<>>]
    /\ used = {}
    /\ claimed = [s \in Slots |-> NoAsset]
    /\ reference = [s \in Slots |-> [status |-> "none", asset |-> NoAsset]]
    /\ record = [s \in Slots |-> [state |-> "none", asset |-> NoAsset]]

(* ------------------------------ the pools ------------------------------ *)
\* Mutant: a slot that ended in an error keeps its worker.
DoneWithoutError(c) ==
    {s \in Slots : s[1] = c /\ reached[s] = "done" /\ reference[s].status # "error"}

DoneOf(c) == {s \in Slots : s[1] = c /\ reached[s] = "done"}
DoneCards == {c \in 1..NCards : Cardinality(DoneOf(c)) = NImages}

\* A worker of both pools is free for the slot.
Scheduled(s) ==
    /\ s[1] <= Cardinality(DoneCards) + CardConcurrency
    /\ s[2] <= Cardinality(DoneOf(s[1])) + ImageConcurrency

(* -------------------------------- a slot ------------------------------- *)
Return(s, status, asset) ==
    /\ reached' = [reached EXCEPT ![s] = "done"]
    /\ reference' = [reference EXCEPT ![s] = [status |-> status, asset |-> asset]]

Recorded(s, state, asset) ==
    record' = [record EXCEPT ![s] = [state |-> state, asset |-> asset]]

\* A slot without a query is answered without a search.
RetrieveForCard(s) ==
    /\ reached[s] = "waiting"
    /\ Scheduled(s)
    /\ IF s \in NoQuery
       THEN /\ Return(s, "IMAGE_NOT_FOUND", NoAsset)
            /\ UNCHANGED record
       ELSE /\ reached' = [reached EXCEPT ![s] = "search"]
            /\ Recorded(s, "started", NoAsset)
            /\ UNCHANGED reference
    /\ UNCHANGED <<attempt, results, used, claimed>>

SearchAnswers(s) ==
    /\ reached[s] = "search"
    /\ \E r \in Rankings : results' = [results EXCEPT ![s] = r]
    /\ reached' = [reached EXCEPT ![s] = "claim"]
    /\ UNCHANGED <<attempt, used, claimed, reference, record>>

\* The search throws and the same query is tried again.
SearchAgain(s) ==
    /\ reached[s] = "search"
    /\ attempt[s] + 1 < MaxAttempts
    /\ attempt' = [attempt EXCEPT ![s] = @ + 1]
    /\ UNCHANGED <<reached, results, used, claimed, reference, record>>

\* The last attempt throws, or any attempt with a client error.
SearchGivesUp(s) ==
    /\ reached[s] = "search"
    /\ attempt' = [attempt EXCEPT ![s] = @ + 1]
    /\ Return(s, "error", NoAsset)
    /\ Recorded(s, "failed", NoAsset)
    /\ UNCHANGED <<results, used, claimed>>

\* The first hit of a ranking no slot has used.
IsTopUnused(r, i) == r[i] \notin used /\ \A j \in 1..i - 1 : r[j] \in used

\* Mutants of the next action: the hit is not taken out of the pool; any
\* unused hit is taken.
ClaimWithoutUse(s) ==
    /\ reached[s] = "claim"
    /\ \E i \in DOMAIN results[s] :
          /\ IsTopUnused(results[s], i)
          /\ claimed' = [claimed EXCEPT ![s] = results[s][i]]
    /\ reached' = [reached EXCEPT ![s] = "sign"]
    /\ UNCHANGED <<attempt, results, used, reference, record>>
ClaimAnyUnused(s) ==
    /\ reached[s] = "claim"
    /\ \E i \in DOMAIN results[s] :
          /\ results[s][i] \notin used
          /\ used' = used \cup {results[s][i]}
          /\ claimed' = [claimed EXCEPT ![s] = results[s][i]]
    /\ reached' = [reached EXCEPT ![s] = "sign"]
    /\ UNCHANGED <<attempt, results, reference, record>>

\* claimHit: test and claim happen in one turn of the promise chain.
Claim(s) ==
    /\ reached[s] = "claim"
    /\ \E i \in DOMAIN results[s] :
          /\ IsTopUnused(results[s], i)
          /\ used' = used \cup {results[s][i]}
          /\ claimed' = [claimed EXCEPT ![s] = results[s][i]]
    /\ reached' = [reached EXCEPT ![s] = "sign"]
    /\ UNCHANGED <<attempt, results, reference, record>>

NothingToClaim(s) ==
    /\ reached[s] = "claim"
    /\ \A i \in DOMAIN results[s] : results[s][i] \in used
    /\ Return(s, "IMAGE_NOT_FOUND", NoAsset)
    /\ Recorded(s, "completed", NoAsset)
    /\ UNCHANGED <<attempt, results, used, claimed>>

\* The URL is signed or not, a failure is only logged; the search is recorded.
Sign(s) ==
    /\ reached[s] = "sign"
    /\ reached' = [reached EXCEPT ![s] = "colors"]
    /\ Recorded(s, "completed", claimed[s])
    /\ UNCHANGED <<attempt, results, used, claimed, reference>>

LoadColors(s) ==
    /\ reached[s] = "colors"
    /\ Return(s, "found", claimed[s])
    /\ UNCHANGED <<attempt, results, used, claimed, record>>

\* The query for the colours throws: the slot is an error, its claim stays.
LoadColorsFails(s) ==
    /\ ColorsMayFail
    /\ reached[s] = "colors"
    /\ Return(s, "error", NoAsset)
    /\ Recorded(s, "failed", NoAsset)
    /\ UNCHANGED <<attempt, results, used, claimed>>

Slot(s) ==
    \/ RetrieveForCard(s)
    \/ SearchAnswers(s)
    \/ SearchAgain(s)
    \/ SearchGivesUp(s)
    \/ Claim(s)
    \/ NothingToClaim(s)
    \/ Sign(s)
    \/ LoadColors(s)
    \/ LoadColorsFails(s)

RetrievalNext == \E s \in Slots : Slot(s)

RetrievalSpec == RetrievalInit /\ [][RetrievalNext]_retrievalVars

\* Every await of the stage returns or throws in the end.
FairRetrieval == RetrievalSpec /\ WF_retrievalVars(RetrievalNext)

(* ------------------------------ properties ----------------------------- *)
Found(s) == reference[s].status = "found"

\* No image appears twice in a set, although its slots search, claim and
\* finish in any order.
NeverReused ==
    \A s, t \in Slots : s # t /\ Found(s) /\ Found(t) => reference[s].asset # reference[t].asset

\* A slot only passes over a hit that another slot has claimed.
BestOfTheRest ==
    \A s \in Slots : claimed[s] # NoAsset =>
        \E i \in DOMAIN results[s] :
            /\ results[s][i] = claimed[s]
            /\ \A j \in 1..i - 1 : \E t \in Slots \ {s} : claimed[t] = results[s][j]

\* What telemetry says a search selected is what the card shows.
RecordsTellTheTruth ==
    \A s \in Slots : reached[s] = "done" => record[s].asset = reference[s].asset

\* Liveness: one failing slot never keeps the set from being answered.
EverySlotAnswered == <>(\A s \in Slots : reached[s] = "done")

---------------------------------------------------------------------------
(* What the documents claim and the code does not keep.                    *)

\* IMAGE_NOT_FOUND: no query, no results, or every hit is on another card.
NotFoundMeansUsed ==
    (\A s \in Slots : reached[s] = "done") =>
        \A s \in Slots : reference[s].status = "IMAGE_NOT_FOUND" =>
            \A i \in DOMAIN results[s] : \E t \in Slots : reference[t].asset = results[s][i]
=============================================================================
