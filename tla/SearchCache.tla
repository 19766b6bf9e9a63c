---------------------------- MODULE SearchCache ----------------------------
(***************************************************************************)
(* The Redis cache of search answers.  Every operation survives a Redis    *)
(* that is away: a read misses, a write or a deletion does nothing.  A     *)
(* flush scans the keys and deletes them one at a time, while searches     *)
(* read and write others.                                                  *)
(***************************************************************************)
EXTENDS Naturals

CONSTANTS
    Keys,           \* the cache keys there may be
    Nothing,        \* no entry
    MaxOutages,     \* bound: times Redis goes away
    MaxFlushes      \* bound: flushes and expired entries in all

ASSUME CacheAssumption == MaxOutages \in Nat /\ MaxFlushes \in Nat

VARIABLES
    cache,          \* the entry under each key
    up,             \* whether the client is ready
    sweep,          \* keys the running flush has scanned and not deleted
    flushing,       \* whether a flush runs
    outages, flushes

cacheVars == <<cache, up, sweep, flushing, outages, flushes>>

CacheTyped(Entries) ==
    /\ cache \in [Keys -> Entries \cup {Nothing}]
    /\ up \in BOOLEAN
    /\ sweep \subseteq Keys
    /\ flushing \in BOOLEAN
    /\ outages \in 0..MaxOutages
    /\ flushes \in 0..MaxFlushes

CacheInit ==
    /\ cache = [k \in Keys |-> Nothing]
    /\ up = TRUE
    /\ sweep = {}
    /\ flushing = FALSE
    /\ outages \in 0..MaxOutages
    /\ flushes \in 0..MaxFlushes

\* get: the entry, when Redis is ready and has one.
Cached(k) == IF up THEN cache[k] ELSE Nothing
\* set: written when Redis is ready; a failed write is only logged.
Put(k, entry) == cache' = IF up THEN [cache EXCEPT ![k] = entry] ELSE cache

Present == {k \in Keys : cache[k] # Nothing}

\* flushByPattern: a scan returns every key that is there from start to end.
Flush ==
    /\ ~ flushing
    /\ flushes < MaxFlushes
    /\ flushes' = flushes + 1
    /\ flushing' = up
    /\ sweep' = IF up THEN Present ELSE {}
    /\ UNCHANGED <<cache, up, outages>>
FlushKey ==
    /\ flushing
    /\ up
    /\ \E k \in sweep :
          /\ cache' = [cache EXCEPT ![k] = Nothing]
          /\ sweep' = sweep \ {k}
    /\ UNCHANGED <<up, flushing, outages, flushes>>
\* The cursor is back at the start, or Redis has gone away.
FlushEnds ==
    /\ flushing
    /\ sweep = {} \/ ~ up
    /\ flushing' = FALSE
    /\ sweep' = {}
    /\ UNCHANGED <<cache, up, outages, flushes>>

\* The time to live of an entry is over; the connection closes and comes back.
Expire ==
    /\ flushes < MaxFlushes
    /\ flushes' = flushes + 1
    /\ \E k \in Present : cache' = [cache EXCEPT ![k] = Nothing]
    /\ UNCHANGED <<up, sweep, flushing, outages>>
GoAway ==
    /\ up
    /\ outages < MaxOutages
    /\ up' = FALSE
    /\ outages' = outages + 1
    /\ UNCHANGED <<cache, sweep, flushing, flushes>>
ComeBack ==
    /\ ~ up
    /\ up' = TRUE
    /\ UNCHANGED <<cache, sweep, flushing, outages, flushes>>

CacheStep == Flush \/ FlushKey \/ FlushEnds \/ Expire \/ GoAway \/ ComeBack
=============================================================================
