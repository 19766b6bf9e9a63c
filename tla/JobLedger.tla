----------------------------- MODULE JobLedger -----------------------------
(* What an ingestion job promises about its files, with no queues, retries *)
(* or handlers: the first file with a given content owns the asset, the    *)
(* asset is made ready once on its behalf, every other file with that      *)
(* content is a duplicate of it, and each file is counted exactly once.    *)
EXTENDS Naturals

CONSTANTS Files, Hashes, HashOf, NoFile

VARIABLES
    owner,   \* owner[h]: the file whose ingestion created the asset
    ready,   \* assets that can be found by search
    totals   \* what each file has added to the totals of its job

Zero == [successful |-> 0, duplicate |-> 0, failed |-> 0]
Pending(f) == totals[f] = Zero
Owner(f) == owner[HashOf[f]]

Init == /\ owner = [h \in Hashes |-> NoFile]
        /\ ready = {}
        /\ totals = [f \in Files |-> Zero]

Claim(f) == /\ Pending(f) /\ Owner(f) = NoFile
            /\ owner' = [owner EXCEPT ![HashOf[f]] = f]
            /\ UNCHANGED <<ready, totals>>

Prepare(f) == /\ Pending(f) /\ Owner(f) = f
              /\ ready' = ready \cup {HashOf[f]}
              /\ UNCHANGED <<owner, totals>>

Succeed(f) == /\ Pending(f) /\ Owner(f) = f /\ HashOf[f] \in ready
              /\ totals' = [totals EXCEPT ![f].successful = 1]
              /\ UNCHANGED <<owner, ready>>

LinkDuplicate(f) == /\ Pending(f) /\ Owner(f) \notin {NoFile, f}
                    /\ totals' = [totals EXCEPT ![f].successful = 1,
                                                ![f].duplicate = 1]
                    /\ UNCHANGED <<owner, ready>>

Fail(f) == /\ Pending(f)
           /\ totals' = [totals EXCEPT ![f].failed = 1]
           /\ UNCHANGED <<owner, ready>>

Next == \E f \in Files :
           \/ Claim(f) \/ Prepare(f) \/ Succeed(f) \/ LinkDuplicate(f) \/ Fail(f)

Spec == Init /\ [][Next]_<<owner, ready, totals>>
===========================================================================
