------------------------- MODULE AssetSearchProofs -------------------------
(***************************************************************************)
(* Proofs about searches: the guard follows the table of restricted words, *)
(* every answer is one to its own question, and a search misses nothing    *)
(* that was there all the time; for any terms, rows, library, requests and *)
(* callers.                                                                *)
(*                                                                         *)
(* Two stages of memory lie between the table and the guard, and the       *)
(* invariant ties each to the one before it: while every operation that    *)
(* wrote a row has loaded it, the registry is the active rows; and what is *)
(* compiled for a country is what the registry says now.  A third part     *)
(* keeps a refused call from ever being taken for one that begins.         *)
(*                                                                         *)
(* Answers need another invariant, SearchInv: what a lane holds at each    *)
(* await, what an entry of the cache is whoever wrote it, and that what    *)
(* was there since a call began is there still.                            *)
(***************************************************************************)
EXTENDS AssetSearch, FiniteSetTheorems, WellFoundedInduction, SequenceTheorems, TLAPS

\* The registry holds the active rows as long as nobody has left it behind.
RegistryFollows == Settled => registry = Active

\* Remembered terms are never those of an earlier registry.
CompiledFollows ==
    /\ DOMAIN compiled = Scopes
    /\ \A c \in Scopes :
          compiled[c] # NotCompiled => compiled[c] = Applicable(registry, c)

\* A refused call has searched for nothing.
RefusedIsIdle ==
    /\ DOMAIN call = Callers
    /\ \A c \in Callers : call[c].at = "refused" =>
          \A i \in Lanes(c) : call[c].lanes[i].at = "get"

TableTyped == DOMAIN admin = Admins /\ rows \in [RowIds -> Row \cup {NoRow}]

IInv == TableTyped /\ RegistryFollows /\ CompiledFollows /\ RefusedIsIdle

---------------------------------------------------------------------------
(* The table and the registry. *)

\* A table without rows is seeded with the defaults and nothing else.
LEMMA SeededWithDefaults ==
    ASSUME NEW r \in [RowIds -> Row \cup {NoRow}], Seeds([i \in RowIds |-> NoRow], r)
    PROVE  ActiveIn(r) = Defaults
<1> DEFINE added == {i \in RowIds : r[i] # NoRow}
<1>1. \A i \in added : r[i].active /\ r[i].entry \in Defaults
  BY DEF Seeds
<1>2. \A e \in Defaults : \E i \in added : r[i].entry = e
  BY DEF Seeds
<1> QED BY <1>1, <1>2 DEF ActiveIn

\* The service starts with the registry the table calls for.
LEMMA RestrictionsStart == RestrictionsInit => registry = Active
<1> SUFFICES ASSUME RestrictionsInit PROVE registry = Active
  OBVIOUS
<1>1. rows \in [RowIds -> Row \cup {NoRow}] /\ Seeds([i \in RowIds |-> NoRow], rows)
  BY SeedsAssumption DEF RestrictionsInit
<1>2. ActiveIn(rows) = Defaults
  BY <1>1, SeededWithDefaults
<1> QED BY <1>2 DEF RestrictionsInit, Active

\* An operation that has written a row, or reads the rows, is not settled
\* before it has hydrated; one that hydrates says whether it was overtaken.
LEMMA OperationFollows ==
    ASSUME IInv, RestrictionStep
    PROVE  TableTyped' /\ RegistryFollows'
<1>1. PICK a \in Admins :
          Create(a) \/ RequireById(a) \/ Update(a) \/ RemoveRow(a)
          \/ ReadActive(a) \/ ReadActiveFails(a) \/ HydrateRead(a)
  BY DEF RestrictionStep
<1>2. TableTyped /\ (Settled => registry = Active)
  BY DEF IInv, RegistryFollows
<1> USE DEF TableTyped
<1>3. DOMAIN admin' = Admins
  BY <1>1, <1>2 DEF Create, RequireById, Update, RemoveRow, ReadActive, ReadActiveFails,
                    HydrateRead, To
<1>6. rows' \in [RowIds -> Row \cup {NoRow}]
  <2>1. \A i, e, on : e \in Entry /\ on \in BOOLEAN =>
            [rows EXCEPT ![i] = [entry |-> e, active |-> on]] \in [RowIds -> Row \cup {NoRow}]
    BY <1>2 DEF Row
  <2>2. CASE Create(a)
    BY <1>2, <2>1, <2>2 DEF Create
  <2>3. CASE Update(a)
    BY <1>2, <2>1, <2>3 DEF Update
  <2>4. CASE ~ Create(a) /\ ~ Update(a)
    BY <1>1, <1>2, <2>4 DEF RequireById, RemoveRow, ReadActive, ReadActiveFails, HydrateRead
  <2> QED BY <2>2, <2>3, <2>4
<1>4. CASE admin'[a].pc \in {"read", "hydrate"}
  BY <1>3, <1>4, <1>6 DEF RegistryFollows, Settled
<1>5. CASE admin'[a].pc \notin {"read", "hydrate"}
  <2>1. CASE HydrateRead(a)
    <3>1. registry' = admin[a].read /\ behind' = (admin[a].read # Active) /\ rows' = rows
      BY <2>1 DEF HydrateRead, Hydrate
    <3>2. ~ behind' => registry' = Active
      BY <3>1
    <3>3. Active' = Active
      BY <3>1 DEF Active
    <3> QED BY <1>3, <1>6, <3>2, <3>3 DEF RegistryFollows, Settled
  <2>2. CASE ReadActiveFails(a)
    <3>1. behind' = TRUE
      BY <2>2 DEF ReadActiveFails
    <3> QED BY <1>3, <1>6, <3>1 DEF RegistryFollows, Settled
  <2>3. CASE ReadActive(a)
    BY <1>2, <1>5, <2>3 DEF ReadActive, Idle
  <2>4. CASE Create(a) \/ RequireById(a) \/ Update(a) \/ RemoveRow(a)
    <3>0. registry' = registry /\ behind' = behind
      BY <2>4 DEF Create, RequireById, Update, RemoveRow
    <3>1. rows' = rows
      BY <1>2, <1>5, <2>4 DEF Create, RequireById, Update, RemoveRow, To, Idle
    <3>2. admin[a].pc \notin {"read", "hydrate"}
      BY <2>4 DEF Create, RequireById, Update, RemoveRow
    <3>3. \A b \in Admins \ {a} : admin'[b] = admin[b]
      BY <1>2, <2>4 DEF Create, RequireById, Update, RemoveRow, To
    <3>4. Settled' => Settled
      BY <3>0, <3>2, <3>3 DEF Settled
    <3>5. Active' = Active
      BY <3>1 DEF Active
    <3> QED BY <1>2, <1>3, <1>6, <3>0, <3>4, <3>5 DEF RegistryFollows
  <2> QED BY <1>1, <2>1, <2>2, <2>3, <2>4
<1> QED BY <1>4, <1>5

\* A new process has seeded the table and loaded it.
LEMMA StartupFollows ==
    ASSUME Startup
    PROVE  TableTyped' /\ RegistryFollows'
BY DEF Startup, TableTyped, RegistryFollows, Active

---------------------------------------------------------------------------
(* The registry and the compiled terms. *)

\* Hydrating forgets what was compiled before.
LEMMA HydrateForgets ==
    ASSUME NEW entries, Hydrate(entries)
    PROVE  CompiledFollows'
BY DEF Hydrate, CompiledFollows

\* No edit of a row touches the registry, but for the one that hydrates it.
LEMMA OperationCompiles ==
    ASSUME CompiledFollows, RestrictionStep
    PROVE  CompiledFollows'
<1>1. CASE \E a \in Admins : HydrateRead(a)
  BY <1>1, HydrateForgets DEF HydrateRead
<1>2. CASE ~ \E a \in Admins : HydrateRead(a)
  <2>1. UNCHANGED <<registry, compiled>>
    BY <1>2 DEF RestrictionStep, Create, RequireById, Update, RemoveRow, ReadActive,
                ReadActiveFails
  <2> QED BY <2>1 DEF CompiledFollows
<1> QED BY <1>1, <1>2

\* The country of a request is one the terms are compiled for.
LEMMA CountryInScope ==
    ASSUME NEW r
    PROVE  CountryOf(r) \in Scopes
BY SearchAssumption DEF CountryOf, Scopes

\* The terms a guard reads are those of the registry, remembered or not.
LEMMA TermsAreCurrent ==
    ASSUME CompiledFollows, NEW country \in Scopes
    PROVE  AllTerms(country) = Applicable(registry, country)
BY DEF CompiledFollows, AllTerms

---------------------------------------------------------------------------
(* The calls. *)

\* Nothing a search does after it began touches the restricted words, and a
\* call that is changed goes on, ends, or had begun.
LEMMA SearchingGoesOn ==
    ASSUME RefusedIsIdle, Searching
    PROVE  /\ UNCHANGED restrictionVars
           /\ RefusedIsIdle'
           /\ \A c \in Callers : ~ Began(c)
<1> USE DEF RefusedIsIdle
<1> DEFINE GoesOn(c) ==
        /\ DOMAIN call' = Callers
        /\ \A d \in Callers \ {c} : call'[d] = call[d]
        /\ call'[c].at # "refused"
        /\ call'[c].at = "get" => call[c].at = "get"
<1>1. ASSUME NEW c \in Callers, NEW i \in Lanes(c), ReadCache(c, i)
      PROVE  UNCHANGED restrictionVars /\ GoesOn(c)
  <2>1. PICK lane, at : InCall(c, i, lane, at) /\ at \in {"get", "embed", "answered"}
    BY <1>1 DEF ReadCache
  <2>2. UNCHANGED restrictionVars /\ call[c].at = "get"
    BY <1>1 DEF ReadCache
  <2> QED BY <2>1, <2>2 DEF InCall
<1>2. ASSUME NEW c \in Callers, EmbedQueries(c) \/ EmbedFails(c)
      PROVE  UNCHANGED restrictionVars /\ GoesOn(c)
  <2>1. UNCHANGED restrictionVars
    BY <1>2 DEF EmbedQueries, EmbedFails
  <2>2. PICK lanes, at :
            /\ call' = [call EXCEPT ![c].at = at, ![c].lanes = lanes]
            /\ at \in {"run", "failed"}
    BY <1>2 DEF EmbedQueries, EmbedFails
  <2> QED BY <2>1, <2>2
<1>3. ASSUME NEW c \in Callers, NEW i \in Lanes(c), Lane(c, i)
      PROVE  UNCHANGED restrictionVars /\ GoesOn(c)
  <2>1. UNCHANGED restrictionVars
    BY <1>3 DEF Lane, SearchSimilar, LoadAssets, FindByCanonicalObjects, StoreAnswer, LaneFails,
                LaneUnchanged
  <2>2. call[c].lanes[i].at # "get"
    BY <1>3 DEF Lane, SearchSimilar, LoadAssets, FindByCanonicalObjects, StoreAnswer, LaneFails,
                LaneAt
  <2>3. call[c].at # "refused"
    BY <2>2
  <2>4. CASE SearchSimilar(c, i) \/ LoadAssets(c, i) \/ FindByCanonicalObjects(c, i)
    <3>1. \E lane : StepLane(c, i, lane)
      <4>1. CASE SearchSimilar(c, i)
        BY <4>1 DEF SearchSimilar
      <4>2. CASE LoadAssets(c, i)
        BY <4>2 DEF LoadAssets
      <4>3. CASE FindByCanonicalObjects(c, i)
        BY <4>3 DEF FindByCanonicalObjects
      <4> QED BY <2>4, <4>1, <4>2, <4>3
    <3> QED BY <2>1, <2>3, <3>1 DEF StepLane
  <2>5. CASE StoreAnswer(c, i)
    <3>1. PICK lane, at : InCall(c, i, lane, at) /\ at \in {"answered", call[c].at}
      BY <2>5 DEF StoreAnswer
    <3> QED BY <2>1, <2>3, <3>1 DEF InCall
  <2>6. CASE LaneFails(c, i)
    BY <2>1, <2>6 DEF LaneFails, InCall
  <2> QED BY <1>3, <2>1, <2>4, <2>5, <2>6 DEF Lane
<1>4. PICK c \in Callers : UNCHANGED restrictionVars /\ GoesOn(c)
  BY <1>1, <1>2, <1>3 DEF Searching
<1>5. RefusedIsIdle'
  BY <1>4 DEF Lanes
<1>6. \A d \in Callers : ~ Began(d)
  BY <1>4 DEF Began, Begun
<1> QED BY <1>4, <1>5, <1>6

\* A call that begins is refused for the terms the guard read, and has read
\* nothing else yet.
LEMMA BeginAsksTheGuard ==
    ASSUME RefusedIsIdle, NEW c \in Callers, Begin(c)
    PROVE  /\ (call'[c].at = "refused")
                = Forbidden(AllTerms(CountryOf(call'[c].request)), call'[c].request)
           /\ Compile(CountryOf(call'[c].request))
           /\ \A d \in Callers \ {c} : call'[d] = call[d]
           /\ RefusedIsIdle'
<1> USE DEF RefusedIsIdle
<1>1. PICK r \in Requests :
          /\ call' = [call EXCEPT ![c] =
                [at |-> IF Forbidden(AllTerms(CountryOf(r)), r) THEN "refused" ELSE "get",
                 request |-> r,
                 lanes |-> [i \in DOMAIN r.queries |-> LaneOf(r.queries[i])]]]
          /\ Compile(CountryOf(r))
  BY DEF Begin
<1>2. /\ call'[c].request = r
      /\ call'[c].at = IF Forbidden(AllTerms(CountryOf(r)), r) THEN "refused" ELSE "get"
      /\ call'[c].lanes = [i \in DOMAIN r.queries |-> LaneOf(r.queries[i])]
  BY <1>1
<1>3. \A i \in DOMAIN call'[c].lanes : call'[c].lanes[i].at = "get"
  BY <1>2 DEF LaneOf
<1>4. (call'[c].at = "refused") = Forbidden(AllTerms(CountryOf(r)), r)
  BY <1>2 DEF Forbidden
<1>5. RefusedIsIdle'
  BY <1>1, <1>3 DEF Lanes
<1> QED BY <1>1, <1>2, <1>4, <1>5

\* Compiling for a country remembers what the registry says.
LEMMA CompileFollows ==
    ASSUME CompiledFollows, NEW country \in Scopes, Compile(country), UNCHANGED registry
    PROVE  CompiledFollows'
BY TermsAreCurrent DEF CompiledFollows, Compile

---------------------------------------------------------------------------
(* The service. *)

\* It holds in the beginning.
LEMMA SearchServiceInit == Init => IInv
<1> SUFFICES ASSUME Init PROVE IInv
  OBVIOUS
<1>1. TableTyped
  BY SeedsAssumption DEF Init, RestrictionsInit, TableTyped
<1>2. RegistryFollows
  BY RestrictionsStart DEF Init, RegistryFollows
<1>3. CompiledFollows
  BY DEF Init, RestrictionsInit, CompiledFollows
<1>4. RefusedIsIdle
  BY DEF Init, SearchInit, RefusedIsIdle, NoCall
<1> QED BY <1>1, <1>2, <1>3, <1>4 DEF IInv

\* Each step keeps the invariant; only the beginning of a call begins one, and
\* it is refused as the registry says.
LEMMA SearchServiceStep ==
    ASSUME IInv, [Next]_vars
    PROVE  /\ IInv'
           /\ \A c \in Callers : Began(c) =>
                 (call'[c].at = "refused")
                   = Forbidden(Applicable(registry, CountryOf(call'[c].request)), call'[c].request)
<1> DEFINE Guarded == \A c \in Callers : Began(c) =>
                 (call'[c].at = "refused")
                   = Forbidden(Applicable(registry, CountryOf(call'[c].request)), call'[c].request)
<1>0. TableTyped /\ RegistryFollows /\ CompiledFollows /\ RefusedIsIdle
  BY DEF IInv
<1>1. ASSUME UNCHANGED restrictionVars
      PROVE  TableTyped' /\ RegistryFollows' /\ CompiledFollows'
  BY <1>0, <1>1 DEF restrictionVars, TableTyped, RegistryFollows, CompiledFollows, Settled, Active
<1>2. ASSUME call' = call
      PROVE  RefusedIsIdle' /\ Guarded
  BY <1>0, <1>2 DEF RefusedIsIdle, Lanes, Began
<1>3. CASE Searching
  BY <1>0, <1>1, <1>3, SearchingGoesOn DEF IInv
<1>4. CASE \E c \in Callers : Begin(c)
  <2>1. PICK c \in Callers : Begin(c)
    BY <1>4
  <2> DEFINE r == call'[c].request
  <2>2. /\ (call'[c].at = "refused") = Forbidden(AllTerms(CountryOf(r)), r)
        /\ Compile(CountryOf(r))
        /\ \A d \in Callers \ {c} : call'[d] = call[d]
        /\ RefusedIsIdle'
    BY <1>0, <2>1, BeginAsksTheGuard
  <2>3. UNCHANGED <<rows, registry, admin, behind>>
    BY <2>1 DEF Begin
  <2>4. CountryOf(r) \in Scopes
    BY CountryInScope
  <2>5. CompiledFollows'
    BY <1>0, <2>2, <2>3, <2>4, CompileFollows
  <2>6. TableTyped' /\ RegistryFollows'
    BY <1>0, <2>3 DEF TableTyped, RegistryFollows, Settled, Active
  <2>7. AllTerms(CountryOf(r)) = Applicable(registry, CountryOf(r))
    BY <1>0, <2>4, TermsAreCurrent
  <2>8. \A d \in Callers \ {c} : ~ Began(d)
    BY <2>2 DEF Began
  <2>9. Guarded
    BY <2>2, <2>7, <2>8
  <2> QED BY <2>2, <2>5, <2>6, <2>9 DEF IInv
<1>5. CASE LibraryChanges
  BY <1>1, <1>2, <1>5 DEF LibraryChanges, IInv
<1>6. CASE RestrictionStep /\ UNCHANGED <<searchVars, cacheVars>>
  <2>1. TableTyped' /\ RegistryFollows' /\ CompiledFollows'
    BY <1>0, <1>6, OperationFollows, OperationCompiles
  <2> QED BY <1>2, <1>6, <2>1 DEF IInv, searchVars
<1>7. CASE CacheStep /\ UNCHANGED <<searchVars, restrictionVars>>
  BY <1>1, <1>2, <1>7 DEF IInv, searchVars
<1>8. CASE Restart
  <2>1. TableTyped' /\ RegistryFollows'
    BY <1>8, StartupFollows DEF Restart
  <2>2. CompiledFollows'
    BY <1>8 DEF Restart, Startup, CompiledFollows
  <2>3. call' = [c \in Callers |-> NoCall]
    BY <1>8 DEF Restart
  <2>4. RefusedIsIdle' /\ Guarded
    BY <2>3 DEF RefusedIsIdle, Lanes, Began, NoCall
  <2> QED BY <2>1, <2>2, <2>4 DEF IInv
<1>9. CASE UNCHANGED vars
  BY <1>1, <1>2, <1>9 DEF IInv, vars, searchVars
<1> QED BY <1>3, <1>4, <1>5, <1>6, <1>7, <1>8, <1>9 DEF Next

\* The memory of the guard never contradicts itself, whatever operations,
\* searches and restarts interleave.
THEOREM SearchServiceInvariance == Spec => []IInv
BY SearchServiceInit, SearchServiceStep, PTL DEF Spec

\* A search is refused exactly when an active row forbids a word of it in its
\* country, as long as no operation has left the registry behind.
THEOREM GuardAlwaysFollows == Spec => GuardFollowsTheTable
<1> DEFINE Follows == Settled => \A c \in Callers : Began(c) =>
          LET r == call'[c].request
          IN  (call'[c].at = "refused")
                = Forbidden(Applicable(Active, CountryOf(r)), r)
<1>1. IInv /\ [Next]_vars => [Follows]_vars
  BY SearchServiceStep DEF IInv, RegistryFollows
<1> QED BY <1>1, SearchServiceInvariance, PTL DEF Spec, GuardFollowsTheTable

---------------------------------------------------------------------------
(* Lists. *)

\* Every set of naturals that is not empty has a least element.
LEMMA LeastNatural ==
    ASSUME NEW T \in SUBSET Nat, T # {}
    PROVE  \E m \in T : \A n \in T : m <= n
<1> DEFINE R == {ss \in Nat \X Nat : ss[1] < ss[2]}
<1>1. IsWellFoundedOn(R, Nat)
  BY NatLessThanWellFounded DEF OpToRel
<1>2. \A m, n \in Nat : ~ (<<n, m>> \in R) => m <= n
  OBVIOUS
<1> HIDE DEF R
<1>3. \E m \in T : \A n \in T : ~ (<<n, m>> \in R)
  BY WFMin, <1>1
<1> QED BY <1>2, <1>3

\* Induction on the naturals, for a set in place of a predicate: what the
\* library's theorem says of a predicate no installed prover can instantiate.
LEMMA InductionOnSets ==
    ASSUME NEW T, 0 \in T, \A n \in Nat : n \in T => n + 1 \in T
    PROVE  Nat \subseteq T
<1> SUFFICES ASSUME Nat \ T # {} PROVE FALSE
  OBVIOUS
<1>1. PICK m \in Nat \ T : \A n \in Nat \ T : m <= n
  BY LeastNatural
<1>2. m # 0 /\ m - 1 \in Nat /\ m - 1 \in T
  BY <1>1
<1> QED BY <1>1, <1>2

\* The function OnlyUpTo names exists, so it is what its equation says.
LEMMA OnlyUnfolds ==
    ASSUME NEW s, NEW S, Len(s) \in Nat
    PROVE  OnlyUpTo(s, S) = [n \in 0..Len(s) |->
              IF n = 0 THEN <<>>
              ELSE IF s[n] \in S THEN Append(OnlyUpTo(s, S)[n - 1], s[n])
                   ELSE OnlyUpTo(s, S)[n - 1]]
<1> DEFINE Then(t, n) == IF s[n] \in S THEN Append(t, s[n]) ELSE t
           Kept(f, m) == f = [n \in 0..m |-> IF n = 0 THEN <<>> ELSE Then(f[n - 1], n)]
           T == {m \in Nat : \E f : Kept(f, m)}
<1>0. OnlyUpTo(s, S) = CHOOSE f : Kept(f, Len(s))
  BY DEF OnlyUpTo
<1> HIDE DEF Then
<1>1. 0 \in T
  <2>1. Kept([n \in 0..0 |-> <<>>], 0)
    OBVIOUS
  <2> QED BY <2>1
<1>2. ASSUME NEW m \in Nat, m \in T PROVE m + 1 \in T
  <2>1. PICK f : Kept(f, m)
    BY <1>2
  <2> DEFINE g == [n \in 0..m + 1 |-> IF n <= m THEN f[n] ELSE Then(f[m], m + 1)]
  <2>2. ASSUME NEW n \in 0..m + 1
        PROVE  g[n] = IF n = 0 THEN <<>> ELSE Then(g[n - 1], n)
    <3>1. CASE n = 0
      BY <2>1, <3>1
    <3>2. CASE n \in 1..m
      <4>1. g[n] = f[n] /\ g[n - 1] = f[n - 1]
        BY <3>2
      <4>2. f[n] = Then(f[n - 1], n)
        BY <2>1, <3>2
      <4> QED BY <3>2, <4>1, <4>2
    <3>3. CASE n = m + 1
      <4>1. g[n] = Then(f[m], m + 1) /\ g[n - 1] = f[m] /\ n # 0
        BY <3>3
      <4> QED BY <3>3, <4>1
    <3> QED BY <3>1, <3>2, <3>3
  <2>3. Kept(g, m + 1)
    BY <2>2
  <2> HIDE DEF g
  <2>4. \E h : Kept(h, m + 1)
    BY <2>3
  <2> HIDE DEF Kept
  <2> QED BY <2>4
<1>3. Nat \subseteq T
  BY <1>1, <1>2, InductionOnSets
<1>4. \E f : Kept(f, Len(s))
  BY <1>3
<1>5. Kept(OnlyUpTo(s, S), Len(s))
  BY <1>0, <1>4
<1> QED BY <1>5 DEF Then

\* Filtering keeps exactly what is in the set, and the order.
LEMMA OnlyKeeps ==
    ASSUME NEW E, NEW s \in Seq(E), NEW S
    PROVE  /\ Only(s, S) \in Seq(E)
           /\ ToSet(Only(s, S)) = ToSet(s) \cap S
           /\ InOrderOf(Only(s, S), s)
<1> DEFINE K == OnlyUpTo(s, S)
           Kept(t, n) ==
               /\ t \in Seq(E)
               /\ \A x : (\E i \in 1..Len(t) : t[i] = x) <=> x \in S /\ \E i \in 1..n : s[i] = x
               /\ \A i, j \in 1..Len(t) : i < j =>
                     \E a, b \in 1..n : a < b /\ t[i] = s[a] /\ t[j] = s[b]
           T == {n \in Nat : n <= Len(s) => Kept(K[n], n)}
<1>0. Len(s) \in Nat /\ \A i \in 1..Len(s) : s[i] \in E
  OBVIOUS
<1>1. /\ K[0] = <<>>
      /\ \A n \in 1..Len(s) : K[n] = IF s[n] \in S THEN Append(K[n - 1], s[n]) ELSE K[n - 1]
  <2>1. K = [n \in 0..Len(s) |->
              IF n = 0 THEN <<>>
              ELSE IF s[n] \in S THEN Append(K[n - 1], s[n]) ELSE K[n - 1]]
    BY <1>0, OnlyUnfolds
  <2> HIDE DEF K
  <2>2. \A n \in 0..Len(s) : K[n] = IF n = 0 THEN <<>>
              ELSE IF s[n] \in S THEN Append(K[n - 1], s[n]) ELSE K[n - 1]
    BY <2>1
  <2> QED BY <1>0, <2>2
<1>10. Only(s, S) = K[Len(s)]
  BY DEF Only
<1> HIDE DEF K
<1>2. 0 \in T
  <2>1. Kept(K[0], 0)
    BY <1>1
  <2> HIDE DEF Kept
  <2> QED BY <2>1
<1>3. ASSUME NEW n \in Nat, n \in T PROVE n + 1 \in T
  <2>0. SUFFICES ASSUME n + 1 <= Len(s) PROVE Kept(K[n + 1], n + 1)
    <3> HIDE DEF Kept
    <3> QED BY DEF T
  <2>1. Kept(K[n], n) /\ n + 1 \in 1..Len(s) /\ (n + 1) - 1 = n
    <3>1. n <= Len(s) /\ n + 1 \in 1..Len(s) /\ (n + 1) - 1 = n
      BY <1>0, <2>0
    <3> HIDE DEF Kept
    <3> QED BY <1>3, <3>1
  <2> DEFINE t == K[n]
  <2>2. /\ s[n + 1] \in E
        /\ K[n + 1] = IF s[n + 1] \in S THEN Append(t, s[n + 1]) ELSE t
    BY <1>0, <1>1, <2>1
  <2>3. \A i \in 1..n : i \in 1..n + 1
    OBVIOUS
  <2>4. \A i \in 1..n + 1 : i \in 1..n \/ i = n + 1
    OBVIOUS
  <2> HIDE DEF t
  <2>7. /\ t \in Seq(E)
        /\ \A x : (\E i \in 1..Len(t) : t[i] = x) <=> x \in S /\ \E i \in 1..n : s[i] = x
        /\ \A i, j \in 1..Len(t) : i < j =>
              \E a, b \in 1..n : a < b /\ t[i] = s[a] /\ t[j] = s[b]
    BY <2>1 DEF t
  <2>5. CASE s[n + 1] \notin S
    <3>1. K[n + 1] = t
      BY <2>2, <2>5
    <3>2. \A x : (\E i \in 1..Len(t) : t[i] = x) <=> x \in S /\ \E i \in 1..n + 1 : s[i] = x
      <4>1. \A x : x \in S => ((\E i \in 1..n + 1 : s[i] = x) <=> \E i \in 1..n : s[i] = x)
        BY <2>3, <2>4, <2>5
      <4> QED BY <2>7, <4>1
    <3>3. \A i, j \in 1..Len(t) : i < j =>
              \E a, b \in 1..n + 1 : a < b /\ t[i] = s[a] /\ t[j] = s[b]
      BY <2>7, <2>3
    <3>4. Kept(t, n + 1)
      BY <2>7, <3>2, <3>3
    <3> QED BY <3>1, <3>4
  <2>6. CASE s[n + 1] \in S
    <3>1. PICK u : u = Append(t, s[n + 1])
      OBVIOUS
    <3>2. /\ u \in Seq(E) /\ Len(t) \in Nat /\ Len(u) = Len(t) + 1
          /\ \A i \in 1..Len(t) : u[i] = t[i]
          /\ u[Len(t) + 1] = s[n + 1]
      BY <2>7, <2>2, <3>1
    <3>3. /\ \A i \in 1..Len(u) : i \in 1..Len(t) \/ i = Len(t) + 1
          /\ \A i \in 1..Len(t) : i \in 1..Len(u)
          /\ Len(t) + 1 \in 1..Len(u)
      BY <3>2
    <3>4. ASSUME NEW x
          PROVE  (\E i \in 1..Len(u) : u[i] = x) <=> x \in S /\ \E i \in 1..n + 1 : s[i] = x
      <4>1. (\E i \in 1..Len(u) : u[i] = x) <=> (\E i \in 1..Len(t) : t[i] = x) \/ x = s[n + 1]
        BY <3>2, <3>3
      <4>2. (\E i \in 1..n + 1 : s[i] = x) <=> (\E i \in 1..n : s[i] = x) \/ x = s[n + 1]
        BY <2>3, <2>4
      <4> QED BY <2>7, <2>6, <4>1, <4>2
    <3>5. ASSUME NEW i \in 1..Len(u), NEW j \in 1..Len(u), i < j
          PROVE  \E a, b \in 1..n + 1 : a < b /\ u[i] = s[a] /\ u[j] = s[b]
      <4>1. i \in 1..Len(t)
        BY <3>2, <3>5
      <4>2. CASE j \in 1..Len(t)
        <5>1. PICK a, b \in 1..n : a < b /\ t[i] = s[a] /\ t[j] = s[b]
          BY <2>7, <3>5, <4>1, <4>2
        <5>2. a \in 1..n + 1 /\ b \in 1..n + 1 /\ u[i] = s[a] /\ u[j] = s[b]
          BY <2>3, <3>2, <4>1, <4>2, <5>1
        <5> QED BY <5>1, <5>2
      <4>3. CASE j = Len(t) + 1
        <5>1. PICK a \in 1..n : s[a] = t[i]
          BY <2>7, <4>1
        <5>2. a \in 1..n + 1 /\ n + 1 \in 1..n + 1 /\ a < n + 1
          OBVIOUS
        <5> QED BY <3>2, <4>1, <4>3, <5>1, <5>2
      <4> QED BY <3>3, <4>2, <4>3
    <3>6. Kept(u, n + 1)
      BY <3>2, <3>4, <3>5
    <3> HIDE DEF Kept
    <3> QED BY <2>2, <2>6, <3>1, <3>6
  <2> QED BY <2>5, <2>6
<1>4. Nat \subseteq T
  <2> HIDE DEF T
  <2> QED BY <1>2, <1>3, InductionOnSets
<1>5. Kept(K[Len(s)], Len(s))
  <2>1. Len(s) \in T
    BY <1>0, <1>4
  <2> HIDE DEF Kept
  <2> QED BY <1>0, <2>1
<1>6. PICK t : t = Only(s, S)
  OBVIOUS
<1>7. /\ t \in Seq(E)
      /\ \A x : (\E i \in 1..Len(t) : t[i] = x) <=> x \in S /\ \E i \in 1..Len(s) : s[i] = x
      /\ \A i, j \in 1..Len(t) : i < j =>
            \E a, b \in 1..Len(s) : a < b /\ t[i] = s[a] /\ t[j] = s[b]
  <2>1. t = K[Len(s)]
    BY <1>6, <1>10
  <2>2. Kept(t, Len(s))
    <3> HIDE DEF Kept, K
    <3> QED BY <1>5, <2>1
  <2> QED BY <2>2
<1>8. DOMAIN t = 1..Len(t) /\ DOMAIN s = 1..Len(s)
  BY <1>7
<1>9. ToSet(t) = ToSet(s) \cap S
  <2>1. \A x : x \in ToSet(t) <=> \E i \in 1..Len(t) : t[i] = x
    BY <1>8 DEF ToSet
  <2>2. \A x : x \in ToSet(s) <=> \E i \in 1..Len(s) : s[i] = x
    BY <1>8 DEF ToSet
  <2>3. \A x : x \in ToSet(t) <=> x \in ToSet(s) /\ x \in S
    BY <1>7, <2>1, <2>2
  <2> QED BY <2>3
<1> QED BY <1>6, <1>7, <1>8, <1>9 DEF InOrderOf

\* The first elements of a list.
LEMMA FirstElements ==
    ASSUME NEW E, NEW s \in Seq(E), NEW n \in Nat
    PROVE  /\ First(s, n) \in Seq(E)
           /\ Len(First(s, n)) <= n
           /\ InOrderOf(First(s, n), s)
           /\ Len(First(s, n)) = n \/ ToSet(First(s, n)) = ToSet(s)
<1> DEFINE m == Least(n, Len(s))
<1>1. Len(s) \in Nat /\ m \in Nat /\ m <= n /\ m <= Len(s) /\ (m = n \/ m = Len(s))
  BY DEF Least
<1> HIDE DEF m
<1>2. PICK t : t = First(s, n)
  OBVIOUS
<1>3. t = SubSeq(s, 1, m)
  BY <1>2 DEF First, m
<1>4. t \in Seq(E) /\ Len(t) = m /\ \A i \in 1..m : t[i] = s[i]
  <2>1. \A i \in 1..m : s[i] \in E
    BY <1>1
  <2>2. /\ t \in Seq(E) /\ Len(t) = IF 1 <= m THEN m - 1 + 1 ELSE 0
        /\ \A i \in 1..m - 1 + 1 : t[i] = s[1 + i - 1]
    BY <1>1, <1>3, <2>1, SubSeqProperties
  <2>3. m - 1 + 1 = m /\ \A i \in 1..m : 1 + i - 1 = i
    BY <1>1
  <2>4. \A i \in 1..m : t[i] = s[i]
    BY <2>2, <2>3
  <2>5. Len(t) = m
    BY <1>1, <2>2
  <2> QED BY <2>2, <2>4, <2>5
<1>5. DOMAIN t = 1..m /\ DOMAIN s = 1..Len(s) /\ \A i \in 1..m : i \in 1..Len(s)
  BY <1>1, <1>4
<1>6. InOrderOf(t, s)
  <2>1. ToSet(t) \subseteq ToSet(s)
    BY <1>4, <1>5 DEF ToSet
  <2>2. \A i, j \in DOMAIN t : i < j =>
            \E a, b \in DOMAIN s : a < b /\ t[i] = s[a] /\ t[j] = s[b]
    BY <1>4, <1>5
  <2> QED BY <2>1, <2>2 DEF InOrderOf
<1>7. m = Len(s) => ToSet(t) = ToSet(s)
  BY <1>4, <1>5 DEF ToSet
<1> QED BY <1>1, <1>2, <1>4, <1>6, <1>7

\* What is in the order of a list that is in the order of another.
LEMMA InOrderOfTheSame ==
    ASSUME NEW s, NEW t, NEW u, InOrderOf(s, t), InOrderOf(t, u)
    PROVE  InOrderOf(s, u)
BY DEF InOrderOf

\* Nothing is twice in a list in the order of one without repetition.
LEMMA InOrderOnce ==
    ASSUME NEW E, NEW s \in Seq(E), NEW t \in Seq(E), InOrderOf(s, t),
           \A m, n \in DOMAIN t : t[m] = t[n] => m = n
    PROVE  \A i, j \in DOMAIN s : s[i] = s[j] => i = j
<1> SUFFICES ASSUME NEW i \in DOMAIN s, NEW j \in DOMAIN s, i < j PROVE s[i] # s[j]
  <2>1. DOMAIN s \subseteq Nat
    OBVIOUS
  <2> QED BY <2>1
<1>1. DOMAIN t \subseteq Nat
  OBVIOUS
<1> QED BY <1>1 DEF InOrderOf

\* An order of a finite set holds each of its elements once.
LEMMA OrdersHoldAll ==
    ASSUME NEW S, IsFiniteSet(S), NEW order \in SetToSeqs(S)
    PROVE  /\ order \in Seq(S)
           /\ Len(order) = Cardinality(S) /\ Cardinality(S) \in Nat
           /\ ToSet(order) = S
           /\ \A i, j \in DOMAIN order : order[i] = order[j] => i = j
<1>1. Cardinality(S) \in Nat
  BY FS_CardinalityType
<1> DEFINE D == 1..Cardinality(S)
<1>2. order \in [D -> S] /\ \A i, j \in D : i # j => order[i] # order[j]
  BY DEF SetToSeqs
<1>3. order \in Seq(S) /\ Len(order) = Cardinality(S) /\ DOMAIN order = D
  BY <1>1, <1>2
<1>4. IsFiniteSet(D) /\ Cardinality(D) = Cardinality(S)
  BY <1>1, FS_Interval
<1> HIDE DEF D
<1>5. ToSet(order) \subseteq S
  BY <1>2, <1>3 DEF ToSet
<1>6. order \in Bijection(D, ToSet(order))
  BY <1>2, <1>3 DEF Bijection, Injection, Surjection, IsInjective, ToSet
<1>7. Cardinality(ToSet(order)) = Cardinality(D)
  BY <1>4, <1>6, FS_Bijection DEF ExistsBijection
<1>8. ToSet(order) = S
  BY <1>4, <1>5, <1>7, FS_Subset
<1> QED BY <1>1, <1>2, <1>3, <1>8

---------------------------------------------------------------------------
(* What a lane knows. *)

\* Where the lanes of a call may be.
LanesAt(at) ==
    CASE at = "refused" -> {"get"}
      [] at = "get" -> {"get", "embed", "cached"}
      [] at = "embed" -> {"embed", "cached"}
      [] at = "run" -> Running \cup {"done", "cached"}
      [] at = "answered" -> {"done", "cached"}
      [] OTHER -> LaneAts

\* The windows of a wide search, and that of a lookup, hold the whole library.
WindowsHoldAll ==
    \A window \in {MinimumCandidates, LetterCandidates, MinimumLookup} :
        Cardinality(Assets) <= window

\* The assets that fit a request, described or not.
Suiting(r, q) ==
    {a \in Assets : MatchesFilters(Metadata[a], r.filters) /\ FitsLetter(a, q)}

IsFull(r, lane, there) ==
    Len(lane.answer) = r.limit \/ there \cap Suiting(r, lane.query) \subseteq ToSet(lane.answer)

\* What a lane holds, when `there' are the assets that were there all the time.
LaneGood(r, lane, there) ==
    /\ lane.query \in Queries(r)
    /\ lane.at \in {"get", "embed", "vectors", "load", "lookup"} => lane.answer = <<>>
    /\ lane.at = "load" => InOrderOf(lane.hits, Rank[lane.query])
    /\ lane.at = "lookup" => Detect(lane.query) # NoLetter
    /\ lane.at \in {"store", "done", "cached"} =>
           IsAnswer(lane.query, r.limit, r.filters, lane.answer)
    /\ WindowsHoldAll /\ IsWide(r) =>
           /\ lane.at = "load" => there \subseteq ToSet(lane.hits)
           /\ lane.at \in {"store", "done"} => IsFull(r, lane, there)

CallGood(made, there) ==
    /\ made \in CallType
    /\ made.lanes # <<>> => made.request \in Requests
    /\ \A i \in DOMAIN made.lanes :
          /\ made.lanes[i].at \in LanesAt(made.at)
          /\ LaneGood(made.request, made.lanes[i], there)

CallsGood ==
    /\ call \in [Callers -> CallType]
    /\ \A c \in Callers : CallGood(call[c], steady[c])

\* What was there all the time is there.
SteadyThere ==
    /\ steady \in [Callers -> SUBSET Assets]
    /\ DOMAIN library = Assets
    /\ \A c \in Callers : \A a \in steady[c] : Embedded(a)

EntryGood(k, entry) ==
    entry # Nothing => entry \in Seq(Assets) /\ IsAnswer(k.query, k.limit, k.filters, entry)
CacheGood == DOMAIN cache = Keys /\ \A k \in Keys : EntryGood(k, cache[k])

SearchInv == CallsGood /\ SteadyThere /\ CacheGood

---------------------------------------------------------------------------
(* Lanes. *)

\* The neighbours of a query are all assets, each once.
LEMMA RanksHoldAll ==
    ASSUME NEW r \in Requests, NEW q \in Queries(r)
    PROVE  /\ Rank[q] \in Seq(Assets)
           /\ Len(Rank[q]) = Cardinality(Assets) /\ Cardinality(Assets) \in Nat
           /\ ToSet(Rank[q]) = Assets
           /\ \A i, j \in DOMAIN Rank[q] : Rank[q][i] = Rank[q][j] => i = j
<1>1. IsFiniteSet(Assets) /\ Rank[q] \in SetToSeqs(Assets)
  BY SearchAssumption DEF Queries
<1> QED BY <1>1, OrdersHoldAll

\* A list of fitting assets without repetition, cut at the limit, is an answer.
LEMMA FirstIsAnAnswer ==
    ASSUME NEW r \in Requests, NEW q \in Queries(r), NEW s \in Seq(Assets),
           ToSet(s) \subseteq Suiting(r, q),
           \A i, j \in DOMAIN s : s[i] = s[j] => i = j,
           Detect(q) = NoLetter => InOrderOf(s, Rank[q])
    PROVE  /\ First(s, r.limit) \in Seq(Assets)
           /\ IsAnswer(q, r.limit, r.filters, First(s, r.limit))
           /\ Len(First(s, r.limit)) = r.limit \/ ToSet(First(s, r.limit)) = ToSet(s)
<1>1. r.limit \in Nat
  BY SearchAssumption
<1>2. PICK t : t = First(s, r.limit)
  OBVIOUS
<1>3. /\ t \in Seq(Assets) /\ Len(t) <= r.limit /\ InOrderOf(t, s)
      /\ Len(t) = r.limit \/ ToSet(t) = ToSet(s)
  BY <1>1, <1>2, FirstElements
<1>4. \A i, j \in DOMAIN t : t[i] = t[j] => i = j
  BY <1>3, InOrderOnce
<1>5. \A a \in ToSet(t) : MatchesFilters(Metadata[a], r.filters) /\ FitsLetter(a, q)
  BY <1>3 DEF InOrderOf, Suiting
<1>6. Detect(q) = NoLetter => InOrderOf(t, Rank[q])
  BY <1>3, InOrderOfTheSame
<1> QED BY <1>2, <1>3, <1>4, <1>5, <1>6 DEF IsAnswer

\* Nothing is an answer to everything.
LEMMA NothingIsAnAnswer ==
    ASSUME NEW r \in Requests, NEW q \in Queries(r)
    PROVE  IsAnswer(q, r.limit, r.filters, <<>>)
<1>1. r.limit \in Nat
  BY SearchAssumption
<1>2. DOMAIN <<>> = {} /\ Len(<<>>) = 0 /\ ToSet(<<>>) = {}
  BY DEF ToSet
<1>3. InOrderOf(<<>>, Rank[q])
  BY <1>2 DEF InOrderOf
<1> QED BY <1>1, <1>2, <1>3 DEF IsAnswer

\* An asset that shows a letter is in the index under its labels.
LEMMA LettersAreIndexed ==
    ASSUME NEW objects, NEW q, Detect(q) # NoLetter, MatchesLetter(objects, Detect(q))
    PROVE  HasObjects(objects, Detect(q))
<1>1. Detect(q).case \in Cases
  BY DEF Detect, CaseOf, Cases
<1>2. CanonicalObjects(Detect(q)) \subseteq objects
  BY DEF MatchesLetter
<1>3. Detect(q).case # "both" =>
          CanonicalObjects(Detect(q)) = {Label(Detect(q).case, Detect(q).letter)}
  BY DEF CanonicalObjects
<1> QED BY <1>1, <1>2, <1>3 DEF HasObjects

\* A step that moves one lane of a call, and may end the call.
LEMMA LaneMoves ==
    ASSUME SearchInv, NEW c \in Callers, NEW i \in Lanes(c), NEW lane \in LaneType,
           NEW at \in CallAts,
           call' = [call EXCEPT ![c].lanes[i] = lane, ![c].at = at],
           UNCHANGED <<library, steady>>, CacheGood',
           LaneGood(call[c].request, lane, steady[c]),
           lane.at \in LanesAt(at),
           \A j \in Lanes(c) \ {i} : call[c].lanes[j].at \in LanesAt(at)
    PROVE  SearchInv'
<1>1. /\ call \in [Callers -> CallType] /\ CallGood(call[c], steady[c])
      /\ \A d \in Callers : CallGood(call[d], steady[d])
  BY DEF SearchInv, CallsGood
<1>2. /\ call[c] \in CallType /\ call[c].lanes \in Seq(LaneType)
      /\ i \in DOMAIN call[c].lanes
  BY <1>1 DEF CallGood, CallType, Lanes
<1>3. PICK made, lanes :
          /\ lanes = [call[c].lanes EXCEPT ![i] = lane]
          /\ made = [call[c] EXCEPT !.lanes = lanes, !.at = at]
  OBVIOUS
<1>4. /\ lanes \in Seq(LaneType) /\ DOMAIN lanes = DOMAIN call[c].lanes
      /\ lanes[i] = lane
      /\ \A j \in DOMAIN lanes \ {i} : lanes[j] = call[c].lanes[j]
  BY <1>2, <1>3
<1>5. /\ made \in CallType /\ made.request = call[c].request
      /\ made.lanes = lanes /\ made.at = at
  BY <1>2, <1>3, <1>4 DEF CallType
<1>6. call' = [call EXCEPT ![c] = made]
  BY <1>1, <1>2, <1>3
<1>7. made.request \in Requests
  BY <1>1, <1>2, <1>5 DEF CallGood
<1>8. CallGood(made, steady[c])
  <2>1. ASSUME NEW j \in DOMAIN lanes
        PROVE  lanes[j].at \in LanesAt(at) /\ LaneGood(call[c].request, lanes[j], steady[c])
    BY <1>1, <1>4 DEF CallGood, Lanes
  <2> QED BY <1>5, <1>7, <2>1 DEF CallGood
<1>9. CallsGood'
  <2>1. call' \in [Callers -> CallType]
    BY <1>1, <1>5, <1>6
  <2>2. \A d \in Callers : CallGood(call'[d], steady[d])
    BY <1>1, <1>6, <1>8
  <2> QED BY <2>1, <2>2 DEF CallsGood
<1>10. SteadyThere'
  BY DEF SearchInv, SteadyThere, Embedded
<1> QED BY <1>9, <1>10 DEF SearchInv

\* The facts about the lane that moves.
LEMMA LaneFacts ==
    ASSUME SearchInv, NEW c \in Callers, NEW i \in Lanes(c)
    PROVE  /\ call[c] \in CallType /\ call[c].lanes[i] \in LaneType
           /\ call[c].request \in Requests
           /\ call[c].lanes[i].query \in Queries(call[c].request)
           /\ KeyOf(call[c].request, call[c].lanes[i].query) \in Keys
           /\ LaneGood(call[c].request, call[c].lanes[i], steady[c])
           /\ \A j \in Lanes(c) : call[c].lanes[j].at \in LanesAt(call[c].at)
<1>1. CallGood(call[c], steady[c])
  BY DEF SearchInv, CallsGood
<1>2. call[c] \in CallType /\ call[c].lanes \in Seq(LaneType) /\ i \in DOMAIN call[c].lanes
  BY <1>1 DEF CallGood, CallType, Lanes
<1>3. call[c].lanes[i] \in LaneType /\ call[c].lanes # <<>>
  BY <1>2
<1>4. /\ call[c].request \in Requests
      /\ call[c].lanes[i].query \in Queries(call[c].request)
      /\ LaneGood(call[c].request, call[c].lanes[i], steady[c])
      /\ \A j \in Lanes(c) : call[c].lanes[j].at \in LanesAt(call[c].at)
  BY <1>1, <1>3 DEF CallGood, LaneGood, Lanes
<1> QED BY <1>2, <1>3, <1>4, KeysAssumption

\* A lane past the cache runs in a call that runs or has failed.
LEMMA RunningLanes ==
    ASSUME SearchInv, NEW c \in Callers, NEW i \in Lanes(c),
           call[c].lanes[i].at \in Running \ {"embed"}
    PROVE  call[c].at \in {"run", "failed", "idle"} /\ LanesAt(call[c].at) \subseteq LaneAts
<1>1. call[c].lanes[i].at \in LanesAt(call[c].at) /\ call[c].at \in CallAts
  BY LaneFacts DEF CallType
<1> QED BY <1>1 DEF LanesAt, CallAts, Running, LaneAts

\* A step of a lane leaves its call where it is.
LEMMA StepLaneMoves ==
    ASSUME SearchInv, NEW c \in Callers, NEW i \in Lanes(c), NEW lane \in LaneType,
           StepLane(c, i, lane), LaneUnchanged,
           LaneGood(call[c].request, lane, steady[c]),
           call[c].lanes[i].at \in Running \ {"embed"}, lane.at \in Running
    PROVE  SearchInv'
<1>1. call[c] \in CallType /\ DOMAIN call = Callers
  BY LaneFacts DEF SearchInv, CallsGood
<1>2. PICK at : at = call[c].at
  OBVIOUS
<1>3. at \in CallAts
  BY <1>1, <1>2 DEF CallType
<1>4. call' = [call EXCEPT ![c].lanes[i] = lane, ![c].at = at]
  BY <1>1, <1>2 DEF StepLane, CallType
<1>5. lane.at \in LanesAt(at)
  BY <1>2, <1>3, RunningLanes DEF LanesAt, LaneAts, CallAts
<1>6. UNCHANGED <<library, steady, cache>>
  BY DEF LaneUnchanged, cacheVars
<1>7. CacheGood'
  BY <1>6 DEF SearchInv, CacheGood
<1>8. \A j \in Lanes(c) : call[c].lanes[j].at \in LanesAt(at)
  BY <1>2, LaneFacts
<1>9. LaneGood(call[c].request, lane, steady[c])
  OBVIOUS
<1> QED BY <1>3, <1>4, <1>5, <1>6, <1>7, <1>8, <1>9, LaneMoves

\* A list without repetition that is as long as the library holds all of it.
LEMMA LongListsHoldAll ==
    ASSUME NEW s \in Seq(Assets), Len(s) >= Cardinality(Assets),
           \A m, n \in DOMAIN s : s[m] = s[n] => m = n
    PROVE  ToSet(s) = Assets
<1>1. /\ IsFiniteSet(Assets) /\ Cardinality(Assets) \in Nat /\ Len(s) \in Nat
      /\ DOMAIN s = 1..Len(s)
  BY FS_CardinalityType, SearchAssumption
<1>2. s \in Bijection(1..Len(s), ToSet(s))
  BY <1>1 DEF Bijection, Injection, Surjection, IsInjective, ToSet
<1>3. Cardinality(ToSet(s)) = Len(s)
  <2>1. IsFiniteSet(1..Len(s)) /\ Cardinality(1..Len(s)) = Len(s)
    <3>1. 1 \in Int /\ Len(s) \in Int /\ Len(s) \in Nat
      BY <1>1
    <3>2. /\ IsFiniteSet(1..Len(s))
          /\ Cardinality(1..Len(s)) = IF 1 > Len(s) THEN 0 ELSE Len(s) - 1 + 1
      BY <3>1, FS_Interval
    <3> QED BY <3>1, <3>2
  <2>2. ExistsBijection(1..Len(s), ToSet(s))
    BY <1>2 DEF ExistsBijection
  <2> QED BY <2>1, <2>2, FS_Bijection
<1>4. ToSet(s) \subseteq Assets
  BY <1>1 DEF ToSet
<1> QED BY <1>1, <1>3, <1>4, FS_Subset

\* The vector search finds neighbours in their order, and all that are there
\* when its window holds the library.
LEMMA SearchSimilarGood ==
    ASSUME SearchInv, NEW c \in Callers, NEW i \in Lanes(c), SearchSimilar(c, i)
    PROVE  SearchInv'
<1>1. PICK r, lane, embedded, limit :
          /\ r = call[c].request /\ lane = call[c].lanes[i]
          /\ embedded = {a \in Assets : Embedded(a)}
          /\ limit = CandidateLimit(r, lane.query)
  OBVIOUS
<1>2. PICK hits : hits = First(Only(Rank[lane.query], embedded), limit)
  OBVIOUS
<1>3. PICK next : next = [lane EXCEPT !.hits = hits,
              !.at = IF hits = <<>> /\ Detect(lane.query) = NoLetter THEN "store" ELSE "load"]
  OBVIOUS
<1>4. /\ lane.at = "vectors" /\ StepLane(c, i, next) /\ LaneUnchanged
  BY <1>1, <1>2, <1>3 DEF SearchSimilar, LaneAt
<1>5. /\ lane \in LaneType /\ r \in Requests /\ lane.query \in Queries(r)
      /\ LaneGood(r, lane, steady[c])
  BY <1>1, LaneFacts
<1>6. limit \in Nat /\ (WindowsHoldAll /\ IsWide(r) => limit >= Cardinality(Assets))
  <2>1. /\ r.limit \in Nat \ {0} /\ r.candidates \in Nat
        /\ CandidateMultiplier \in Nat \ {0} /\ MinimumCandidates \in Nat \ {0}
        /\ LetterCandidates \in Nat \ {0}
    BY <1>5, SearchAssumption
  <2>2. r.limit * CandidateMultiplier \in Nat /\ Cardinality(Assets) \in Nat
    BY <1>5, <2>1, RanksHoldAll
  <2> QED BY <1>1, <2>1, <2>2 DEF CandidateLimit, Most, IsWide, WindowsHoldAll
<1>7. /\ hits \in Seq(Assets) /\ InOrderOf(hits, Rank[lane.query])
      /\ WindowsHoldAll /\ IsWide(r) => embedded \subseteq ToSet(hits)
  <2>1. PICK near : near = Only(Rank[lane.query], embedded)
    OBVIOUS
  <2>2. /\ near \in Seq(Assets) /\ ToSet(near) = ToSet(Rank[lane.query]) \cap embedded
        /\ InOrderOf(near, Rank[lane.query])
    BY <1>5, <2>1, RanksHoldAll, OnlyKeeps
  <2>3. /\ hits \in Seq(Assets) /\ InOrderOf(hits, near)
        /\ Len(hits) = limit \/ ToSet(hits) = ToSet(near)
    BY <1>2, <1>6, <2>1, <2>2, FirstElements
  <2>4. InOrderOf(hits, Rank[lane.query])
    BY <2>2, <2>3, InOrderOfTheSame
  <2>5. ASSUME Len(hits) >= Cardinality(Assets) PROVE ToSet(hits) = Assets
    <3>1. \A m, n \in DOMAIN hits : hits[m] = hits[n] => m = n
      BY <1>5, <2>3, <2>4, RanksHoldAll, InOrderOnce
    <3> QED BY <2>3, <2>5, <3>1, LongListsHoldAll
  <2>6. WindowsHoldAll /\ IsWide(r) => embedded \subseteq ToSet(hits)
    BY <1>1, <1>5, <1>6, <2>2, <2>3, <2>5, RanksHoldAll
  <2> QED BY <2>3, <2>4, <2>6
<1>8. steady[c] \subseteq embedded
  BY <1>1 DEF SearchInv, SteadyThere
<1>9. next \in LaneType /\ next.at \in Running
  BY <1>3, <1>5, <1>7 DEF LaneType, LaneAts, Running
<1>10. LaneGood(r, next, steady[c])
  <2>1. /\ next.query = lane.query /\ next.answer = <<>> /\ next.hits = hits
        /\ next.at \in {"store", "load"} /\ (next.at = "store" => hits = <<>>)
    BY <1>3, <1>4, <1>5 DEF LaneType, LaneGood
  <2>2. IsAnswer(lane.query, r.limit, r.filters, <<>>)
    BY <1>5, NothingIsAnAnswer
  <2>3. ToSet(<<>>) = {}
    BY DEF ToSet
  <2>4. next.at = "store" /\ WindowsHoldAll /\ IsWide(r) => IsFull(r, next, steady[c])
    BY <1>7, <1>8, <2>1, <2>3 DEF IsFull
  <2>5. next.at = "load" /\ WindowsHoldAll /\ IsWide(r) => steady[c] \subseteq ToSet(hits)
    BY <1>7, <1>8
  <2> QED BY <1>5, <1>7, <2>1, <2>2, <2>4, <2>5 DEF LaneGood
<1>11. call[c].lanes[i].at \in Running \ {"embed"}
  BY <1>1, <1>4 DEF Running
<1> QED BY <1>1, <1>4, <1>9, <1>10, <1>11, StepLaneMoves

\* The read keeps what is still there and fits, and everything that was there
\* all the time is.
LEMMA LoadAssetsGood ==
    ASSUME SearchInv, NEW c \in Callers, NEW i \in Lanes(c), LoadAssets(c, i)
    PROVE  SearchInv'
<1>1. PICK r, lane, fitting :
          /\ r = call[c].request /\ lane = call[c].lanes[i]
          /\ fitting = Only(lane.hits, Fitting(r, lane.query))
  OBVIOUS
<1>2. PICK next : next = [lane EXCEPT !.hits = <<>>, !.answer = First(fitting, r.limit),
              !.at = IF fitting = <<>> /\ Detect(lane.query) # NoLetter
                     THEN "lookup" ELSE "store"]
  OBVIOUS
<1>3. lane.at = "load" /\ StepLane(c, i, next) /\ LaneUnchanged
  BY <1>1, <1>2 DEF LoadAssets, LaneAt
<1>4. /\ lane \in LaneType /\ r \in Requests /\ lane.query \in Queries(r)
      /\ LaneGood(r, lane, steady[c])
  BY <1>1, LaneFacts
<1>5. /\ lane.hits \in Seq(Assets) /\ InOrderOf(lane.hits, Rank[lane.query])
      /\ WindowsHoldAll /\ IsWide(r) => steady[c] \subseteq ToSet(lane.hits)
  BY <1>3, <1>4 DEF LaneType, LaneGood
<1>6. /\ fitting \in Seq(Assets) /\ InOrderOf(fitting, lane.hits)
      /\ ToSet(fitting) = ToSet(lane.hits) \cap Fitting(r, lane.query)
  BY <1>1, <1>5, OnlyKeeps
<1>7. InOrderOf(fitting, Rank[lane.query])
  BY <1>5, <1>6, InOrderOfTheSame
<1>8. \A m, n \in DOMAIN fitting : fitting[m] = fitting[n] => m = n
  BY <1>4, <1>6, <1>7, RanksHoldAll, InOrderOnce
<1>9. ToSet(fitting) \subseteq Suiting(r, lane.query)
  BY <1>6 DEF Fitting, Fits, Suiting
<1>10. PICK answer : answer = First(fitting, r.limit)
  OBVIOUS
<1>11. /\ answer \in Seq(Assets)
       /\ IsAnswer(lane.query, r.limit, r.filters, answer)
       /\ Len(answer) = r.limit \/ ToSet(answer) = ToSet(fitting)
  BY <1>4, <1>6, <1>7, <1>8, <1>9, <1>10, FirstIsAnAnswer
<1>12. steady[c] \cap Suiting(r, lane.query) \subseteq Fitting(r, lane.query)
  BY DEF SearchInv, SteadyThere, Suiting, Fitting, Fits, Described, Embedded
<1>13. /\ next.query = lane.query /\ next.answer = answer
       /\ next.at = IF fitting = <<>> /\ Detect(lane.query) # NoLetter THEN "lookup" ELSE "store"
  BY <1>2, <1>4, <1>10 DEF LaneType
<1>14. next \in LaneType /\ next.at \in Running
  <2>1. <<>> \in Seq(Assets)
    OBVIOUS
  <2> QED BY <1>2, <1>4, <1>10, <1>11, <2>1 DEF LaneType, LaneAts, Running
<1>15. fitting = <<>> => answer = <<>>
  <2>1. fitting = <<>> => ToSet(fitting) = {}
    BY DEF ToSet
  <2>2. r.limit \in Nat \ {0}
    BY <1>4, SearchAssumption
  <2>3. InOrderOf(answer, fitting)
    BY <1>6, <1>10, <2>2, FirstElements
  <2>4. answer # <<>> => answer[1] \in ToSet(answer)
    BY <1>11 DEF ToSet
  <2> QED BY <2>1, <2>3, <2>4 DEF InOrderOf
<1>16. LaneGood(r, next, steady[c])
  <2>1. WindowsHoldAll /\ IsWide(r) => IsFull(r, next, steady[c])
    BY <1>5, <1>6, <1>11, <1>12, <1>13 DEF IsFull
  <2> QED BY <1>4, <1>11, <1>13, <1>15, <2>1 DEF LaneGood
<1>17. call[c].lanes[i].at \in Running \ {"embed"}
  BY <1>1, <1>3 DEF Running
<1> QED BY <1>1, <1>3, <1>14, <1>16, <1>17, StepLaneMoves

\* The lookup of a letter finds every asset with its labels, as far as its window
\* goes.
LEMMA LookupGood ==
    ASSUME SearchInv, NEW c \in Callers, NEW i \in Lanes(c), FindByCanonicalObjects(c, i)
    PROVE  SearchInv'
<1>1. PICK r, lane, labelled :
          /\ r = call[c].request /\ lane = call[c].lanes[i]
          /\ labelled = {a \in Assets : /\ Described(a)
                                        /\ HasObjects(Metadata[a].objects, Detect(lane.query))}
  OBVIOUS
<1>2. PICK order \in SetToSeqs(labelled) :
          StepLane(c, i, [lane EXCEPT !.at = "store",
              !.answer = First(Only(First(order, LookupWindow(r)), Fitting(r, lane.query)), r.limit)])
  BY <1>1 DEF FindByCanonicalObjects
<1>3. PICK taken, found, answer, next :
          /\ taken = First(order, LookupWindow(r))
          /\ found = Only(taken, Fitting(r, lane.query))
          /\ answer = First(found, r.limit)
          /\ next = [lane EXCEPT !.at = "store", !.answer = answer]
  OBVIOUS
<1>4. lane.at = "lookup" /\ StepLane(c, i, next) /\ LaneUnchanged
  BY <1>1, <1>2, <1>3 DEF FindByCanonicalObjects, LaneAt
<1>5. /\ lane \in LaneType /\ r \in Requests /\ lane.query \in Queries(r)
      /\ LaneGood(r, lane, steady[c])
  BY <1>1, LaneFacts
<1>6. labelled \subseteq Assets /\ IsFiniteSet(labelled)
  BY <1>1, FS_Subset, SearchAssumption
<1>7. /\ order \in Seq(Assets) /\ ToSet(order) = labelled
      /\ \A m, n \in DOMAIN order : order[m] = order[n] => m = n
  <2>1. order \in Seq(labelled)
    BY <1>6, OrdersHoldAll
  <2> QED BY <1>6, <2>1, OrdersHoldAll
<1>8. /\ LookupWindow(r) \in Nat
      /\ WindowsHoldAll => LookupWindow(r) >= Cardinality(Assets)
  <2>1. /\ r.limit \in Nat /\ LookupMultiplier \in Nat /\ MinimumLookup \in Nat
        /\ Cardinality(Assets) \in Nat
    BY <1>5, FS_CardinalityType, SearchAssumption
  <2>2. r.limit * LookupMultiplier \in Nat
    BY <2>1
  <2> QED BY <2>1, <2>2 DEF LookupWindow, Most, WindowsHoldAll
<1>9. /\ taken \in Seq(Assets) /\ InOrderOf(taken, order)
      /\ Len(taken) = LookupWindow(r) \/ ToSet(taken) = labelled
  BY <1>3, <1>7, <1>8, FirstElements
<1>10. \A m, n \in DOMAIN taken : taken[m] = taken[n] => m = n
  BY <1>7, <1>9, InOrderOnce
<1>11. WindowsHoldAll => labelled \subseteq ToSet(taken)
  <2>1. WindowsHoldAll /\ Len(taken) = LookupWindow(r) => ToSet(taken) = Assets
    BY <1>8, <1>9, <1>10, LongListsHoldAll
  <2> QED BY <1>6, <1>9, <2>1
<1>12. /\ found \in Seq(Assets) /\ InOrderOf(found, taken)
       /\ ToSet(found) = ToSet(taken) \cap Fitting(r, lane.query)
  BY <1>3, <1>9, OnlyKeeps
<1>13. \A m, n \in DOMAIN found : found[m] = found[n] => m = n
  BY <1>9, <1>10, <1>12, InOrderOnce
<1>14. ToSet(found) \subseteq Suiting(r, lane.query)
  BY <1>12 DEF Fitting, Fits, Suiting
<1>15. Detect(lane.query) # NoLetter
  BY <1>4, <1>5 DEF LaneGood
<1>16. /\ answer \in Seq(Assets)
       /\ IsAnswer(lane.query, r.limit, r.filters, answer)
       /\ Len(answer) = r.limit \/ ToSet(answer) = ToSet(found)
  BY <1>3, <1>5, <1>12, <1>13, <1>14, <1>15, FirstIsAnAnswer
<1>17. WindowsHoldAll => steady[c] \cap Suiting(r, lane.query) \subseteq ToSet(found)
  <2>1. steady[c] \cap Suiting(r, lane.query) \subseteq Fitting(r, lane.query)
    BY DEF SearchInv, SteadyThere, Suiting, Fitting, Fits, Described, Embedded
  <2>2. \A a \in Suiting(r, lane.query) : HasObjects(Metadata[a].objects, Detect(lane.query))
    BY <1>15, LettersAreIndexed DEF Suiting, FitsLetter
  <2>3. Fitting(r, lane.query) \cap Suiting(r, lane.query) \subseteq labelled
    BY <1>1, <2>2 DEF Fitting, Fits
  <2> QED BY <1>11, <1>12, <2>1, <2>3
<1>18. next \in LaneType /\ next.at = "store" /\ next.query = lane.query /\ next.answer = answer
  BY <1>3, <1>5, <1>16 DEF LaneType, LaneAts, Running
<1>19. LaneGood(r, next, steady[c])
  <2>1. WindowsHoldAll => IsFull(r, next, steady[c])
    BY <1>16, <1>17, <1>18 DEF IsFull
  <2> QED BY <1>5, <1>16, <1>18, <2>1 DEF LaneGood
<1>20. call[c].lanes[i].at \in Running \ {"embed"} /\ next.at \in Running
  BY <1>1, <1>4, <1>18 DEF Running
<1> QED BY <1>1, <1>4, <1>18, <1>19, <1>20, StepLaneMoves

\* A call to which nothing happens but that its lanes run out.
LEMMA CallMoves ==
    ASSUME SearchInv, NEW c \in Callers, NEW made,
           call' = [call EXCEPT ![c] = made],
           UNCHANGED <<library, cache>>, CallGood(made, steady'[c]),
           \A d \in Callers \ {c} : steady'[d] = steady[d], SteadyThere'
    PROVE  SearchInv'
<1>1. CallsGood'
  <2>1. call \in [Callers -> CallType] /\ \A d \in Callers : CallGood(call[d], steady[d])
    BY DEF SearchInv, CallsGood
  <2>2. made \in CallType
    BY DEF CallGood
  <2>3. call' \in [Callers -> CallType]
    BY <2>1, <2>2
  <2>4. \A d \in Callers : CallGood(call'[d], steady'[d])
    BY <2>1
  <2> QED BY <2>3, <2>4 DEF CallsGood
<1>2. CacheGood'
  BY DEF SearchInv, CacheGood
<1> QED BY <1>1, <1>2 DEF SearchInv

\* The answer stored is one to every request that may read it.
LEMMA StoreAnswerGood ==
    ASSUME SearchInv, NEW c \in Callers, NEW i \in Lanes(c), StoreAnswer(c, i)
    PROVE  SearchInv'
<1>1. PICK r, lane, next, at :
          /\ r = call[c].request /\ lane = call[c].lanes[i]
          /\ next = [lane EXCEPT !.at = "done"]
          /\ at = IF call[c].at = "run" /\ IsLast(c, i) THEN "answered" ELSE call[c].at
  OBVIOUS
<1>2. /\ lane.at = "store" /\ Put(KeyOf(r, lane.query), lane.answer)
      /\ call' = [call EXCEPT ![c].lanes[i] = next, ![c].at = at]
      /\ UNCHANGED <<library, steady>>
  BY <1>1 DEF StoreAnswer, LaneAt, InCall
<1>3. /\ lane \in LaneType /\ r \in Requests /\ lane.query \in Queries(r)
      /\ KeyOf(r, lane.query) \in Keys /\ LaneGood(r, lane, steady[c])
      /\ call[c] \in CallType
      /\ \A j \in Lanes(c) : call[c].lanes[j].at \in LanesAt(call[c].at)
  BY <1>1, LaneFacts
<1>4. IsAnswer(lane.query, r.limit, r.filters, lane.answer) /\ lane.answer \in Seq(Assets)
  BY <1>2, <1>3 DEF LaneGood, LaneType
<1>5. CacheGood'
  <2>1. PICK k : k = KeyOf(r, lane.query)
    OBVIOUS
  <2>2. k.query = lane.query /\ k.limit = r.limit /\ k.filters = r.filters
    BY <2>1 DEF KeyOf
  <2>3. EntryGood(k, lane.answer)
    BY <1>4, <2>2 DEF EntryGood
  <2>4. cache' = [cache EXCEPT ![k] = lane.answer] \/ cache' = cache
    BY <1>2, <2>1 DEF Put
  <2> QED BY <2>3, <2>4 DEF SearchInv, CacheGood
<1>6. /\ next \in LaneType /\ next.at = "done" /\ next.query = lane.query
      /\ next.answer = lane.answer
  BY <1>1, <1>3 DEF LaneType, LaneAts
<1>7. LaneGood(r, next, steady[c])
  BY <1>2, <1>3, <1>6 DEF LaneGood, IsFull
<1>8. call[c].at \in {"run", "failed", "idle"}
  BY <1>1, <1>2, RunningLanes DEF Running
<1>9. at \in CallAts /\ next.at \in LanesAt(at)
  <2>1. at \in {"run", "failed", "idle", "answered"}
    BY <1>1, <1>8
  <2>2. "done" \in LanesAt(at)
    BY <2>1 DEF LanesAt, LaneAts
  <2> QED BY <1>6, <2>1, <2>2 DEF CallAts
<1>10. \A j \in Lanes(c) \ {i} : call[c].lanes[j].at \in LanesAt(at)
  <2>1. CASE at = call[c].at
    BY <1>3, <2>1
  <2>2. CASE at # call[c].at
    <3>1. at = "answered" /\ IsLast(c, i)
      BY <1>1, <2>2
    <3> QED BY <3>1 DEF IsLast, LanesAt
  <2> QED BY <2>1, <2>2
<1> QED BY <1>1, <1>2, <1>5, <1>6, <1>7, <1>9, <1>10, LaneMoves

\* A lane that fails takes its call with it.
LEMMA LaneFailsGood ==
    ASSUME SearchInv, NEW c \in Callers, NEW i \in Lanes(c), LaneFails(c, i)
    PROVE  SearchInv'
<1>1. PICK r, lane, next :
          /\ r = call[c].request /\ lane = call[c].lanes[i]
          /\ next = [LaneOf(lane.query) EXCEPT !.at = "failed"]
  OBVIOUS
<1>2. /\ call' = [call EXCEPT ![c].lanes[i] = next, ![c].at = "failed"]
      /\ UNCHANGED <<library, steady, cache>>
  BY <1>1 DEF LaneFails, InCall, cacheVars
<1>3. /\ lane \in LaneType /\ lane.query \in Queries(r) /\ LaneGood(r, lane, steady[c])
  BY <1>1, LaneFacts
<1>4. /\ next.at = "failed" /\ next.query = lane.query
      /\ next = [at |-> "failed", query |-> lane.query, hits |-> <<>>, answer |-> <<>>]
  BY <1>1 DEF LaneOf
<1>5. next \in LaneType
  BY <1>3, <1>4 DEF LaneType, LaneAts
<1>6. LaneGood(r, next, steady[c])
  BY <1>3, <1>4 DEF LaneGood
<1>7. \A j \in Lanes(c) : call[c].lanes[j].at \in LanesAt("failed")
  <2>1. \A j \in Lanes(c) : call[c].lanes[j] \in LaneType
    BY LaneFacts
  <2> QED BY <2>1 DEF LanesAt, LaneType
<1>8. CacheGood'
  BY <1>2 DEF SearchInv, CacheGood
<1>9. "failed" \in CallAts /\ next.at \in LanesAt("failed")
  BY <1>4 DEF CallAts, LanesAt, LaneAts
<1> QED BY <1>1, <1>2, <1>5, <1>6, <1>7, <1>8, <1>9, LaneMoves

\* An entry of the cache is an answer to the query it is read for.
LEMMA ReadCacheGood ==
    ASSUME SearchInv, NEW c \in Callers, NEW i \in Lanes(c), ReadCache(c, i)
    PROVE  SearchInv'
<1>1. PICK r, lane, entry, last, uncached :
          /\ r = call[c].request /\ lane = call[c].lanes[i]
          /\ entry = (IF r.bypass THEN Nothing ELSE Cached(KeyOf(r, lane.query)))
          /\ last = (i = Len(call[c].lanes))
          /\ uncached = \E j \in 1..i - 1 : call[c].lanes[j].at = "embed"
  OBVIOUS
<1>2. /\ call[c].at = "get" /\ lane.at = "get"
      /\ \A j \in 1..i - 1 : call[c].lanes[j].at # "get"
      /\ UNCHANGED <<library, steady, cache>>
  BY <1>1 DEF ReadCache, cacheVars
<1>3. /\ lane \in LaneType /\ r \in Requests /\ lane.query \in Queries(r)
      /\ KeyOf(r, lane.query) \in Keys /\ LaneGood(r, lane, steady[c])
      /\ call[c] \in CallType
      /\ \A j \in Lanes(c) : call[c].lanes[j].at \in {"get", "embed", "cached"}
  BY <1>1, <1>2, LaneFacts DEF LanesAt
<1>4. /\ DOMAIN call[c].lanes = 1..Len(call[c].lanes) /\ Len(call[c].lanes) \in Nat
      /\ i \in 1..Len(call[c].lanes)
  BY <1>3 DEF CallType, Lanes
<1>5. CacheGood'
  BY <1>2 DEF SearchInv, CacheGood
<1>6. last => \A j \in Lanes(c) \ {i} : j \in 1..i - 1 /\ call[c].lanes[j].at \in {"embed", "cached"}
  <2> SUFFICES ASSUME last, NEW j \in Lanes(c) \ {i}
               PROVE  j \in 1..i - 1 /\ call[c].lanes[j].at \in {"embed", "cached"}
    OBVIOUS
  <2>1. j \in 1..Len(call[c].lanes) /\ j # i /\ i = Len(call[c].lanes)
    BY <1>1, <1>4 DEF Lanes
  <2>2. j \in 1..i - 1
    BY <1>4, <2>1
  <2> QED BY <1>2, <1>3, <2>2
<1>7. CASE entry = Nothing
  <2>1. PICK next, at : /\ next = [lane EXCEPT !.at = "embed"]
                        /\ at = IF last THEN "embed" ELSE "get"
    OBVIOUS
  <2>2. call' = [call EXCEPT ![c].lanes[i] = next, ![c].at = at]
    BY <1>1, <1>7, <2>1 DEF ReadCache, InCall
  <2>3. /\ next \in LaneType /\ next.at = "embed" /\ next.query = lane.query
        /\ next.answer = lane.answer
    BY <1>3, <2>1 DEF LaneType, LaneAts, Running
  <2>4. LaneGood(r, next, steady[c])
    BY <1>2, <1>3, <2>3 DEF LaneGood
  <2>5. at \in CallAts /\ next.at \in LanesAt(at)
    BY <2>1, <2>3 DEF CallAts, LanesAt
  <2>6. \A j \in Lanes(c) \ {i} : call[c].lanes[j].at \in LanesAt(at)
    BY <1>3, <1>6, <2>1 DEF LanesAt
  <2> QED BY <1>1, <1>2, <1>5, <2>2, <2>3, <2>4, <2>5, <2>6, LaneMoves
<1>8. CASE entry # Nothing
  <2>1. PICK next, at :
            /\ next = [lane EXCEPT !.at = "cached", !.answer = entry]
            /\ at = IF ~ last THEN "get" ELSE IF uncached THEN "embed" ELSE "answered"
    OBVIOUS
  <2>2. call' = [call EXCEPT ![c].lanes[i] = next, ![c].at = at]
    BY <1>1, <1>8, <2>1 DEF ReadCache, InCall
  <2>3. EntryGood(KeyOf(r, lane.query), entry)
    BY <1>1, <1>3, <1>8 DEF SearchInv, CacheGood, Cached
  <2>4. entry \in Seq(Assets) /\ IsAnswer(lane.query, r.limit, r.filters, entry)
    BY <1>8, <2>3 DEF EntryGood, KeyOf
  <2>5. /\ next \in LaneType /\ next.at = "cached" /\ next.query = lane.query
        /\ next.answer = entry
    BY <1>3, <2>1, <2>4 DEF LaneType, LaneAts
  <2>6. LaneGood(r, next, steady[c])
    BY <1>3, <2>4, <2>5 DEF LaneGood
  <2>7. at \in CallAts /\ next.at \in LanesAt(at)
    BY <2>1, <2>5 DEF CallAts, LanesAt
  <2>8. \A j \in Lanes(c) \ {i} : call[c].lanes[j].at \in LanesAt(at)
    BY <1>1, <1>3, <1>6, <2>1 DEF LanesAt
  <2> QED BY <1>1, <1>2, <1>5, <2>2, <2>5, <2>6, <2>7, <2>8, LaneMoves
<1> QED BY <1>7, <1>8

\* The queries the cache did not answer get their vectors together.
LEMMA EmbedQueriesGood ==
    ASSUME SearchInv, NEW c \in Callers, EmbedQueries(c)
    PROVE  SearchInv'
<1>1. CallGood(call[c], steady[c]) /\ DOMAIN call = Callers
  BY DEF SearchInv, CallsGood
<1>2. call[c] \in CallType /\ call[c].lanes \in Seq(LaneType)
  BY <1>1 DEF CallGood, CallType
<1>3. PICK lanes, made :
          /\ lanes = [i \in Lanes(c) |->
              IF call[c].lanes[i].at = "embed"
              THEN [call[c].lanes[i] EXCEPT !.at = "vectors"]
              ELSE call[c].lanes[i]]
          /\ made = [call[c] EXCEPT !.at = "run", !.lanes = lanes]
  OBVIOUS
<1>4. /\ call[c].at = "embed" /\ call' = [call EXCEPT ![c] = made]
      /\ UNCHANGED <<library, steady, cache>>
  BY <1>1, <1>2, <1>3 DEF EmbedQueries, cacheVars
<1>5. DOMAIN call[c].lanes = 1..Len(call[c].lanes) /\ Len(call[c].lanes) \in Nat
  BY <1>2
<1>6. \A i \in Lanes(c) :
          /\ call[c].lanes[i] \in LaneType /\ call[c].lanes[i].at \in {"embed", "cached"}
          /\ LaneGood(call[c].request, call[c].lanes[i], steady[c])
  BY <1>1, <1>2, <1>4 DEF CallGood, Lanes, LanesAt
<1>7. ASSUME NEW i \in Lanes(c)
      PROVE  /\ lanes[i] \in LaneType /\ lanes[i].at \in {"vectors", "cached"}
             /\ LaneGood(call[c].request, lanes[i], steady[c])
  <2>1. CASE call[c].lanes[i].at = "embed"
    <3>1. PICK lane, next : lane = call[c].lanes[i] /\ next = [lane EXCEPT !.at = "vectors"]
      OBVIOUS
    <3>2. lanes[i] = next
      BY <1>3, <2>1, <3>1
    <3>3. /\ next \in LaneType /\ next.at = "vectors" /\ next.query = lane.query
          /\ next.answer = lane.answer
      BY <1>6, <3>1 DEF LaneType, LaneAts, Running
    <3>4. LaneGood(call[c].request, next, steady[c])
      BY <1>6, <2>1, <3>1, <3>3 DEF LaneGood
    <3> QED BY <3>2, <3>3, <3>4
  <2>2. CASE call[c].lanes[i].at # "embed"
    <3>1. lanes[i] = call[c].lanes[i]
      BY <1>3, <2>2
    <3> QED BY <1>6, <2>2, <3>1
  <2> QED BY <2>1, <2>2
<1>8. /\ lanes \in Seq(LaneType) /\ DOMAIN lanes = Lanes(c)
      /\ (lanes # <<>> => call[c].lanes # <<>>)
  <2>1. DOMAIN lanes = Lanes(c) /\ Lanes(c) = 1..Len(call[c].lanes)
    BY <1>3, <1>5 DEF Lanes
  <2>2. lanes \in [1..Len(call[c].lanes) -> LaneType]
    BY <1>3, <1>7, <2>1
  <2>3. lanes \in Seq(LaneType) /\ Len(lanes) = Len(call[c].lanes)
    BY <1>5, <2>2
  <2> QED BY <1>2, <2>1, <2>3
<1>9. /\ made \in CallType /\ made.at = "run" /\ made.lanes = lanes
      /\ made.request = call[c].request
  BY <1>2, <1>3, <1>8 DEF CallType, CallAts
<1>10. CallGood(made, steady[c])
  <2>1. \A i \in DOMAIN lanes : lanes[i].at \in LanesAt("run")
    BY <1>7, <1>8 DEF LanesAt, Running
  <2> QED BY <1>1, <1>7, <1>8, <1>9, <2>1 DEF CallGood
<1>11. SteadyThere'
  BY <1>4 DEF SearchInv, SteadyThere, Embedded
<1> QED BY <1>4, <1>10, <1>11, CallMoves

\* A call that fails before its lanes have run has none.
LEMMA EmbedFailsGood ==
    ASSUME SearchInv, NEW c \in Callers, EmbedFails(c)
    PROVE  SearchInv'
<1>1. CallGood(call[c], steady[c]) /\ DOMAIN call = Callers
  BY DEF SearchInv, CallsGood
<1>2. call[c] \in CallType
  BY <1>1 DEF CallGood
<1>3. PICK made : made = [call[c] EXCEPT !.at = "failed", !.lanes = <<>>]
  OBVIOUS
<1>4. call' = [call EXCEPT ![c] = made] /\ UNCHANGED <<library, steady, cache>>
  BY <1>1, <1>2, <1>3 DEF EmbedFails, cacheVars
<1>5. made \in CallType /\ made.lanes = <<>>
  <2>1. <<>> \in Seq(LaneType) /\ "failed" \in CallAts
    BY DEF CallAts
  <2> QED BY <1>2, <1>3, <2>1 DEF CallType
<1>6. CallGood(made, steady[c])
  BY <1>5 DEF CallGood
<1>7. SteadyThere'
  BY <1>4 DEF SearchInv, SteadyThere, Embedded
<1> QED BY <1>4, <1>6, <1>7, CallMoves

\* A call that begins holds nothing, and knows what is there.
LEMMA BeginGood ==
    ASSUME SearchInv, NEW c \in Callers, Begin(c)
    PROVE  SearchInv'
<1>1. PICK r \in Requests, at \in {"refused", "get"} :
          call' = [call EXCEPT ![c] = [at |-> at, request |-> r,
              lanes |-> [i \in DOMAIN r.queries |-> LaneOf(r.queries[i])]]]
  BY DEF Begin
<1>2. /\ steady' = [steady EXCEPT ![c] = {a \in Assets : Embedded(a)}]
      /\ UNCHANGED <<library, cache>>
  BY DEF Begin, cacheVars
<1>3. PICK lanes, made :
          /\ lanes = [i \in DOMAIN r.queries |-> LaneOf(r.queries[i])]
          /\ made = [at |-> at, request |-> r, lanes |-> lanes]
  OBVIOUS
<1>4. call' = [call EXCEPT ![c] = made]
  BY <1>1, <1>3
<1>5. r.queries \in Seq(Queries(r)) /\ Queries(r) \subseteq AllQueries
  BY SearchAssumption DEF Queries, AllQueries
<1>6. /\ DOMAIN r.queries = 1..Len(r.queries) /\ Len(r.queries) \in Nat
      /\ DOMAIN lanes = 1..Len(r.queries)
      /\ \A i \in DOMAIN lanes : r.queries[i] \in Queries(r)
  BY <1>3, <1>5
<1>7. ASSUME NEW i \in DOMAIN lanes
      PROVE  /\ lanes[i] = [at |-> "get", query |-> r.queries[i], hits |-> <<>>, answer |-> <<>>]
             /\ lanes[i] \in LaneType
             /\ \A there : LaneGood(r, lanes[i], there)
  <2>1. lanes[i] = [at |-> "get", query |-> r.queries[i], hits |-> <<>>, answer |-> <<>>]
    BY <1>3, <1>6 DEF LaneOf
  <2>2. r.queries[i] \in Queries(r) /\ r.queries[i] \in AllQueries
    BY <1>5, <1>6
  <2>3. lanes[i] \in LaneType
    BY <2>1, <2>2 DEF LaneType, LaneAts
  <2> QED BY <2>1, <2>2, <2>3 DEF LaneGood
<1>8. lanes \in Seq(LaneType)
  <2>1. lanes \in [1..Len(r.queries) -> LaneType]
    BY <1>3, <1>6, <1>7
  <2> QED BY <1>6, <2>1
<1>9. made \in CallType
  BY <1>3, <1>8 DEF CallType, CallAts
<1>10. CallGood(made, steady'[c])
  <2>1. \A i \in DOMAIN lanes : lanes[i].at \in LanesAt(at)
    BY <1>7 DEF LanesAt
  <2> QED BY <1>3, <1>7, <1>9, <2>1 DEF CallGood
<1>11. SteadyThere'
  <2>1. steady \in [Callers -> SUBSET Assets] /\ \A d \in Callers : \A a \in steady[d] : Embedded(a)
    BY DEF SearchInv, SteadyThere
  <2>2. \A a \in Assets : Embedded(a) => Embedded(a)'
    BY <1>2 DEF Embedded
  <2> QED BY <1>2, <2>1, <2>2 DEF SearchInv, SteadyThere
<1>12. \A d \in Callers \ {c} : steady'[d] = steady[d]
  BY <1>2 DEF SearchInv, SteadyThere
<1> QED BY <1>2, <1>4, <1>10, <1>11, <1>12, CallMoves

\* Assets that come take nothing from what was there; one that goes is not
\* counted among it any more.
LEMMA LibraryChangesGood ==
    ASSUME SearchInv, LibraryChanges
    PROVE  SearchInv'
<1>1. PICK a \in Assets : Advance(a) \/ RemoveAsset(a)
  BY DEF LibraryChanges
<1>2. UNCHANGED <<call, cache>>
  BY DEF LibraryChanges, cacheVars
<1>3. /\ steady \in [Callers -> SUBSET Assets] /\ DOMAIN library = Assets
      /\ \A c \in Callers : \A b \in steady[c] : library[b] = "embedded"
  BY DEF SearchInv, SteadyThere, Embedded
<1>4. /\ steady' \in [Callers -> SUBSET Assets] /\ DOMAIN library' = Assets
      /\ \A c \in Callers : steady'[c] \subseteq steady[c]
      /\ \A c \in Callers : \A b \in steady'[c] : library'[b] = "embedded"
  <2>1. CASE Advance(a)
    <3>1. \A b \in Assets : library[b] = "embedded" => library'[b] = "embedded"
      BY <1>3, <2>1 DEF Advance
    <3>2. steady' = steady /\ DOMAIN library' = Assets
      BY <1>3, <2>1 DEF Advance
    <3> QED BY <1>3, <3>1, <3>2
  <2>2. CASE RemoveAsset(a)
    <3>1. /\ library' = [library EXCEPT ![a] = "removed"]
          /\ steady' = [c \in Callers |-> steady[c] \ {a}]
      BY <2>2 DEF RemoveAsset
    <3> QED BY <1>3, <3>1
  <2> QED BY <1>1, <2>1, <2>2
<1>5. \A c \in Callers : CallGood(call[c], steady[c]) => CallGood(call[c], steady'[c])
  BY <1>4 DEF CallGood, LaneGood, IsFull
<1>6. CallsGood'
  BY <1>2, <1>5 DEF SearchInv, CallsGood
<1>7. SteadyThere' /\ CacheGood'
  BY <1>2, <1>4 DEF SearchInv, SteadyThere, CacheGood, Embedded
<1> QED BY <1>6, <1>7 DEF SearchInv

\* The cache only loses entries on its own.
LEMMA CacheStepGood ==
    ASSUME SearchInv, CacheStep, UNCHANGED searchVars
    PROVE  SearchInv'
<1>1. CASE UNCHANGED cache
  BY <1>1 DEF SearchInv, CallsGood, SteadyThere, CacheGood, Embedded, searchVars
<1>2. CASE FlushKey \/ Expire
  <2>1. PICK k : cache' = [cache EXCEPT ![k] = Nothing]
    BY <1>2 DEF FlushKey, Expire
  <2>2. CacheGood'
    BY <2>1 DEF SearchInv, CacheGood, EntryGood
  <2> QED BY <2>2 DEF SearchInv, CallsGood, SteadyThere, Embedded, searchVars
<1> QED BY <1>1, <1>2 DEF CacheStep, Flush, FlushEnds, GoAway, ComeBack

\* Each step keeps what is known of calls, library and cache.
LEMMA SearchStep == SearchInv /\ [Next]_vars => SearchInv'
<1> SUFFICES ASSUME SearchInv, [Next]_vars PROVE SearchInv'
  OBVIOUS
<1>1. CASE Searching
  BY <1>1, ReadCacheGood, SearchSimilarGood, LoadAssetsGood, LookupGood, StoreAnswerGood,
     LaneFailsGood, EmbedQueriesGood, EmbedFailsGood DEF Searching, Lane
<1>2. CASE \E c \in Callers : Begin(c)
  BY <1>2, BeginGood
<1>3. CASE LibraryChanges
  BY <1>3, LibraryChangesGood
<1>4. ASSUME UNCHANGED <<library, call, steady, cache>> PROVE SearchInv'
  BY <1>4 DEF SearchInv, CallsGood, SteadyThere, CacheGood, Embedded
<1>5. CASE RestrictionStep /\ UNCHANGED <<searchVars, cacheVars>>
  BY <1>4, <1>5 DEF searchVars, cacheVars
<1>6. CASE CacheStep /\ UNCHANGED <<searchVars, restrictionVars>>
  BY <1>6, CacheStepGood
<1>7. CASE Restart
  <2>1. /\ call' = [c \in Callers |-> NoCall] /\ steady' = [c \in Callers |-> {}]
        /\ UNCHANGED <<library, cache>>
    BY <1>7 DEF Restart
  <2>2. CallGood(NoCall, {}) /\ NoCall \in CallType
    BY DEF CallGood, NoCall, CallType, CallAts
  <2>3. CallsGood'
    BY <2>1, <2>2 DEF CallsGood
  <2>4. SteadyThere' /\ CacheGood'
    BY <2>1 DEF SearchInv, SteadyThere, CacheGood
  <2> QED BY <2>3, <2>4 DEF SearchInv
<1>8. CASE UNCHANGED vars
  BY <1>4, <1>8 DEF vars, searchVars, cacheVars
<1> QED BY <1>1, <1>2, <1>3, <1>5, <1>6, <1>7, <1>8 DEF Next

\* It holds in the beginning, and so always.
LEMMA SearchInvariance == Spec => []SearchInv
<1>1. Init => SearchInv
  <2> SUFFICES ASSUME Init PROVE SearchInv
    OBVIOUS
  <2>1. /\ call = [c \in Callers |-> NoCall] /\ steady = [c \in Callers |-> {}]
        /\ DOMAIN library = Assets /\ cache = [k \in Keys |-> Nothing]
    BY DEF Init, SearchInit, CacheInit
  <2>2. CallGood(NoCall, {}) /\ NoCall \in CallType
    BY DEF CallGood, NoCall, CallType, CallAts
  <2>3. CallsGood
    BY <2>1, <2>2 DEF CallsGood
  <2>4. SteadyThere
    BY <2>1 DEF SteadyThere
  <2>5. CacheGood
    BY <2>1 DEF CacheGood, EntryGood
  <2> QED BY <2>3, <2>4, <2>5 DEF SearchInv
<1> QED BY <1>1, SearchStep, PTL DEF Spec

\* Every answer is one to its own question, whichever call, cache entry or
\* lookup it came from, for any library, requests, callers and faults.
THEOREM AnswersAlwaysFit == Spec => []AnswersFit
<1>1. SearchInv => AnswersFit
  <2> SUFFICES ASSUME SearchInv PROVE AnswersFit
    OBVIOUS
  <2>1. ASSUME NEW c \in Callers, call[c].at = "answered", NEW i \in Lanes(c)
        PROVE  IsAnswer(call[c].lanes[i].query, call[c].request.limit,
                        call[c].request.filters, call[c].lanes[i].answer)
    <3>1. call[c].lanes[i].at \in {"done", "cached"}
      BY <2>1, LaneFacts DEF LanesAt
    <3> QED BY <3>1, LaneFacts DEF LaneGood
  <2>2. ASSUME NEW r \in Requests, NEW q \in Queries(r), cache[KeyOf(r, q)] # Nothing
        PROVE  IsAnswer(q, r.limit, r.filters, cache[KeyOf(r, q)])
    <3>1. EntryGood(KeyOf(r, q), cache[KeyOf(r, q)])
      BY KeysAssumption DEF SearchInv, CacheGood
    <3> QED BY <2>2, <3>1 DEF EntryGood, KeyOf
  <2> QED BY <2>1, <2>2 DEF AnswersFit
<1> QED BY <1>1, SearchInvariance, PTL

\* Where the window of a wide search holds the library, an answer that is not
\* full misses nothing that was there from its start to its end.
THEOREM NothingFittingIsMissed ==
    ASSUME WindowsHoldAll
    PROVE  Spec => []NothingFittingMissed
<1>1. WindowsHoldAll /\ SearchInv => NothingFittingMissed
  <2> SUFFICES ASSUME WindowsHoldAll, SearchInv, NEW c \in Callers, NEW i \in Lanes(c),
                      call[c].lanes[i].at = "done", IsWide(call[c].request)
               PROVE  \/ Len(call[c].lanes[i].answer) = call[c].request.limit
                      \/ steady[c] \cap Fitting(call[c].request, call[c].lanes[i].query)
                             \subseteq ToSet(call[c].lanes[i].answer)
    BY DEF NothingFittingMissed
  <2>1. IsFull(call[c].request, call[c].lanes[i], steady[c])
    BY LaneFacts DEF LaneGood
  <2> QED BY <2>1 DEF IsFull, Fitting, Fits, Suiting
<1> QED BY <1>1, SearchInvariance, PTL

---------------------------------------------------------------------------
(* Types. *)

\* An operation of an administrator keeps the types of its service.
LEMMA OperationTyped ==
    ASSUME RestrictionsTyped, RestrictionStep
    PROVE  RestrictionsTyped'
<1> USE DEF RestrictionsTyped
<1>1. PICK a \in Admins :
          Create(a) \/ RequireById(a) \/ Update(a) \/ RemoveRow(a)
          \/ ReadActive(a) \/ ReadActiveFails(a) \/ HydrateRead(a)
  BY DEF RestrictionStep
<1>2. /\ Idle \in [pc : AdminSteps, id : RowIds \cup {NoRow}, read : SUBSET Entry]
      /\ Active \subseteq Entry /\ MaxEdits \in Nat
  BY RestrictionAssumption DEF Idle, AdminSteps, Active, ActiveIn, Row
<1>3. \A pc \in AdminSteps :
          To(a, pc) => admin' \in [Admins -> [pc : AdminSteps, id : RowIds \cup {NoRow},
                                              read : SUBSET Entry]]
  BY <1>2 DEF To
<1>4. \A i, e, on : e \in Entry /\ on \in BOOLEAN =>
          [rows EXCEPT ![i] = [entry |-> e, active |-> on]] \in [RowIds -> Row \cup {NoRow}]
  BY DEF Row
<1>5. CASE Create(a)
  <2>1. "read" \in AdminSteps
    BY DEF AdminSteps
  <2>2. edits' \in 0..MaxEdits /\ UNCHANGED <<registry, compiled, behind>>
    BY <1>2, <1>5 DEF Create
  <2>3. PICK i \in RowIds, e \in Entry, on \in BOOLEAN :
          \/ UNCHANGED <<rows, admin>>
          \/ rows' = [rows EXCEPT ![i] = [entry |-> e, active |-> on]] /\ To(a, "read")
    BY <1>5 DEF Create
  <2> QED BY <1>3, <1>4, <2>1, <2>2, <2>3
<1>6. CASE RequireById(a)
  <2>1. PICK i \in RowIds, pc \in {"update", "delete"} :
            admin' = [admin EXCEPT ![a] = [Idle EXCEPT !.pc = pc, !.id = i]]
    BY <1>6 DEF RequireById
  <2>2. pc \in AdminSteps
    BY DEF AdminSteps
  <2>3. [Idle EXCEPT !.pc = pc, !.id = i]
            \in [pc : AdminSteps, id : RowIds \cup {NoRow}, read : SUBSET Entry]
    BY <1>2, <2>2
  <2>4. edits' \in 0..MaxEdits /\ UNCHANGED <<rows, registry, compiled, behind>>
    BY <1>2, <1>6 DEF RequireById
  <2> QED BY <2>1, <2>3, <2>4
<1>7. CASE Update(a)
  <2>1. {"idle", "read"} \subseteq AdminSteps
    BY DEF AdminSteps
  <2>2. PICK e \in Entry, on \in BOOLEAN :
            \/ To(a, "idle") /\ UNCHANGED rows
            \/ To(a, "read") /\ rows' = [rows EXCEPT ![admin[a].id] = [entry |-> e, active |-> on]]
    BY <1>7 DEF Update
  <2>3. UNCHANGED <<registry, compiled, edits, behind>>
    BY <1>7 DEF Update
  <2> QED BY <1>3, <1>4, <2>1, <2>2, <2>3
<1>8. CASE RemoveRow(a)
  <2>1. {"idle", "read"} \subseteq AdminSteps
    BY DEF AdminSteps
  <2>2. rows' \in [RowIds -> Row \cup {NoRow}]
    BY <1>8 DEF RemoveRow
  <2>3. To(a, "idle") \/ To(a, "read")
    BY <1>8 DEF RemoveRow
  <2>4. UNCHANGED <<registry, compiled, edits, behind>>
    BY <1>8 DEF RemoveRow
  <2> QED BY <1>3, <2>1, <2>2, <2>3, <2>4
<1>9. CASE ReadActive(a)
  <2>1. "hydrate" \in AdminSteps
    BY DEF AdminSteps
  <2>2. [Idle EXCEPT !.pc = "hydrate", !.read = Active]
            \in [pc : AdminSteps, id : RowIds \cup {NoRow}, read : SUBSET Entry]
    BY <1>2, <2>1
  <2> QED BY <1>9, <2>2 DEF ReadActive
<1>10. CASE ReadActiveFails(a)
  <2>1. "idle" \in AdminSteps
    BY DEF AdminSteps
  <2> QED BY <1>3, <1>10, <2>1 DEF ReadActiveFails
<1>11. CASE HydrateRead(a)
  <2>1. "idle" \in AdminSteps
    BY DEF AdminSteps
  <2>2. admin[a].read \subseteq Entry
    OBVIOUS
  <2>3. /\ registry' = admin[a].read /\ compiled' = [c \in Scopes |-> NotCompiled]
        /\ To(a, "idle") /\ behind' \in BOOLEAN /\ UNCHANGED <<rows, edits>>
    BY <1>11 DEF HydrateRead, Hydrate
  <2> QED BY <1>3, <2>1, <2>2, <2>3
<1> QED BY <1>1, <1>5, <1>6, <1>7, <1>8, <1>9, <1>10, <1>11

\* So does compiling the terms of a country, and a new process.
LEMMA CompileTyped ==
    ASSUME RestrictionsTyped, NEW country, Compile(country),
           UNCHANGED <<rows, registry, admin, edits, behind>>, country \in Scopes
    PROVE  RestrictionsTyped'
<1>1. AllTerms(country) \in (SUBSET Terms) \cup {NotCompiled}
  BY DEF AllTerms, Applicable, RestrictionsTyped, Entry
<1> QED BY <1>1 DEF RestrictionsTyped, Compile

\* A new process starts from the rows.
LEMMA StartupTyped ==
    ASSUME RestrictionsTyped, Startup
    PROVE  RestrictionsTyped'
<1>1. Idle \in [pc : AdminSteps, id : RowIds \cup {NoRow}, read : SUBSET Entry]
  BY DEF Idle, AdminSteps
<1>2. \A r \in [RowIds -> Row \cup {NoRow}] : ActiveIn(r) \subseteq Entry
  BY DEF ActiveIn, Row
<1> QED BY <1>1, <1>2 DEF Startup, RestrictionsTyped

\* The cache on its own.
LEMMA CacheStepTyped ==
    ASSUME CacheTyped(Seq(Assets)), CacheStep
    PROVE  CacheTyped(Seq(Assets))'
<1> USE CacheAssumption DEF CacheTyped
<1>1. CASE Flush
  BY <1>1 DEF Flush, Present
<1>2. CASE FlushKey
  BY <1>2 DEF FlushKey
<1>3. CASE FlushEnds
  BY <1>3 DEF FlushEnds
<1>4. CASE Expire
  <2>1. flushes' \in 0..MaxFlushes /\ UNCHANGED <<up, sweep, flushing, outages>>
    BY <1>4 DEF Expire
  <2>2. PICK k : cache' = [cache EXCEPT ![k] = Nothing]
    BY <1>4 DEF Expire
  <2>3. cache' \in [Keys -> Seq(Assets) \cup {Nothing}]
    BY <2>2
  <2> QED BY <2>1, <2>3
<1>5. CASE GoAway
  <2>1. outages' \in 0..MaxOutages
    BY <1>5 DEF GoAway
  <2>2. up' \in BOOLEAN /\ UNCHANGED <<cache, sweep, flushing, flushes>>
    BY <1>5 DEF GoAway
  <2> QED BY <2>1, <2>2
<1>6. CASE ComeBack
  BY <1>6 DEF ComeBack
<1> QED BY <1>1, <1>2, <1>3, <1>4, <1>5, <1>6 DEF CacheStep

\* A call that begins compiles the terms of a country there are terms for.
LEMMA BeginTyped ==
    ASSUME RestrictionsTyped, NEW c \in Callers, Begin(c)
    PROVE  RestrictionsTyped'
<1>1. PICK r \in Requests : Compile(CountryOf(r))
  BY DEF Begin
<1>2. UNCHANGED <<rows, registry, admin, edits, behind>>
  BY DEF Begin
<1> QED BY <1>1, <1>2, CountryInScope, CompileTyped

\* What is counted stays within its bound.
CountersTyped ==
    /\ calls \in 0..MaxCalls /\ changes \in 0..MaxChanges
    /\ faults \in 0..MaxFaults /\ restarts \in 0..MaxRestarts

\* Of what is not the calls, a search touches a cache entry or the bound on
\* faults.
LEMMA SearchingTouches ==
    ASSUME Searching
    PROVE  /\ UNCHANGED <<library, calls, changes, restarts, restrictionVars>>
           /\ faults' = faults \/ (faults < MaxFaults /\ faults' = faults + 1)
           /\ \/ UNCHANGED cacheVars
              \/ \E c \in Callers : \E i \in Lanes(c) : StoreAnswer(c, i)
<1> DEFINE Touches ==
        /\ UNCHANGED <<library, calls, changes, restarts, restrictionVars>>
        /\ faults' = faults \/ (faults < MaxFaults /\ faults' = faults + 1)
<1>1. ASSUME NEW c \in Callers, EmbedQueries(c) \/ EmbedFails(c)
      PROVE  Touches /\ UNCHANGED cacheVars
  BY <1>1 DEF EmbedQueries, EmbedFails
<1>2. ASSUME NEW c \in Callers, NEW i \in Lanes(c), ReadCache(c, i)
      PROVE  Touches /\ UNCHANGED cacheVars
  BY <1>2 DEF ReadCache
<1>3. ASSUME NEW c \in Callers, NEW i \in Lanes(c),
             SearchSimilar(c, i) \/ LoadAssets(c, i) \/ FindByCanonicalObjects(c, i)
      PROVE  Touches /\ UNCHANGED cacheVars
  <2>1. LaneUnchanged
    BY <1>3 DEF SearchSimilar, LoadAssets, FindByCanonicalObjects
  <2> QED BY <2>1 DEF LaneUnchanged
<1>4. ASSUME NEW c \in Callers, NEW i \in Lanes(c), LaneFails(c, i)
      PROVE  Touches /\ UNCHANGED cacheVars
  BY <1>4 DEF LaneFails
<1>5. ASSUME NEW c \in Callers, NEW i \in Lanes(c), StoreAnswer(c, i)
      PROVE  Touches
  BY <1>5 DEF StoreAnswer
<1> HIDE DEF Touches
<1>6. /\ Touches
      /\ \/ UNCHANGED cacheVars
         \/ \E c \in Callers : \E i \in Lanes(c) : StoreAnswer(c, i)
  BY <1>1, <1>2, <1>3, <1>4, <1>5 DEF Searching, Lane
<1> QED BY <1>6 DEF Touches

\* A step counts at most one thing, and only below its bound.
LEMMA CountersStep ==
    ASSUME CountersTyped, [Next]_vars
    PROVE  CountersTyped'
<1> USE SearchAssumption DEF CountersTyped
<1>1. CASE Searching
  <2>1. faults' \in 0..MaxFaults
    BY <1>1, SearchingTouches
  <2> QED BY <1>1, <2>1, SearchingTouches
<1>2. CASE \E c \in Callers : Begin(c)
  <2>1. calls < MaxCalls /\ calls' = calls + 1 /\ UNCHANGED <<changes, faults, restarts>>
    BY <1>2 DEF Begin
  <2>2. calls' \in 0..MaxCalls
    BY <2>1
  <2> QED BY <2>1, <2>2
<1>3. CASE LibraryChanges
  <2>1. changes' \in 0..MaxChanges
    BY <1>3 DEF LibraryChanges
  <2> QED BY <1>3, <2>1 DEF LibraryChanges
<1>4. CASE Restart
  <2>1. restarts' \in 0..MaxRestarts
    BY <1>4 DEF Restart
  <2> QED BY <1>4, <2>1 DEF Restart
<1>5. CASE UNCHANGED searchVars
  BY <1>5 DEF searchVars
<1> QED BY <1>1, <1>2, <1>3, <1>4, <1>5 DEF Next, vars

\* An answer goes to the cache as the list it is.
LEMMA SearchingCacheTyped ==
    ASSUME SearchInv, CacheTyped(Seq(Assets)), Searching
    PROVE  CacheTyped(Seq(Assets))'
<1>1. CASE UNCHANGED cacheVars
  BY <1>1 DEF CacheTyped, cacheVars
<1>2. CASE \E c \in Callers : \E i \in Lanes(c) : StoreAnswer(c, i)
  <2>1. PICK c \in Callers : \E i \in Lanes(c) : StoreAnswer(c, i)
    BY <1>2
  <2>2. PICK i \in Lanes(c) : StoreAnswer(c, i)
    BY <2>1
  <2>3. PICK k, answer :
            /\ k = KeyOf(call[c].request, call[c].lanes[i].query)
            /\ answer = call[c].lanes[i].answer
    OBVIOUS
  <2>4. k \in Keys /\ answer \in Seq(Assets)
    BY <2>3, LaneFacts DEF LaneType
  <2>5. /\ cache' = cache \/ cache' = [cache EXCEPT ![k] = answer]
        /\ UNCHANGED <<up, sweep, flushing, outages, flushes>>
    BY <2>2, <2>3 DEF StoreAnswer, Put
  <2> QED BY <2>4, <2>5 DEF CacheTyped
<1> QED BY <1>1, <1>2, SearchingTouches

\* An asset is at one of its four stages.
LibraryTyped == library \in [Assets -> {"absent", "described", "embedded", "removed"}]
\* No step takes an asset to any other.
LEMMA LibraryStep ==
    ASSUME LibraryTyped, [Next]_vars
    PROVE  LibraryTyped'
<1>1. CASE LibraryChanges
  BY <1>1 DEF LibraryChanges, Advance, RemoveAsset, LibraryTyped
<1>2. CASE UNCHANGED library
  BY <1>2 DEF LibraryTyped
<1>3. [Next]_vars => LibraryChanges \/ UNCHANGED library
  BY SearchingTouches DEF Next, vars, searchVars, Begin, Restart
<1> QED BY <1>1, <1>2, <1>3

\* Each step keeps the types.
LEMMA TypesStep ==
    ASSUME SearchInv, SearchInv', TypeOK, [Next]_vars
    PROVE  TypeOK'
<1>1. RestrictionsTyped /\ CacheTyped(Seq(Assets)) /\ LibraryTyped /\ CountersTyped
  BY DEF TypeOK, LibraryTyped, CountersTyped
<1>2. CountersTyped' /\ LibraryTyped'
  BY <1>1, CountersStep, LibraryStep
<1>3. call' \in [Callers -> CallType] /\ steady' \in [Callers -> SUBSET Assets]
  BY DEF SearchInv, CallsGood, SteadyThere
<1>4. CASE Searching
  <2>1. UNCHANGED restrictionVars
    BY <1>4, SearchingTouches
  <2>2. RestrictionsTyped'
    BY <1>1, <2>1 DEF RestrictionsTyped, restrictionVars
  <2>3. CacheTyped(Seq(Assets))'
    BY <1>1, <1>4, SearchingCacheTyped
  <2> QED BY <1>2, <1>3, <2>2, <2>3 DEF TypeOK, LibraryTyped, CountersTyped
<1>5. ASSUME RestrictionsTyped', CacheTyped(Seq(Assets))' PROVE TypeOK'
  BY <1>2, <1>3, <1>5 DEF TypeOK, LibraryTyped, CountersTyped
<1>6. UNCHANGED cacheVars => CacheTyped(Seq(Assets))'
  BY <1>1 DEF CacheTyped, cacheVars
<1>7. UNCHANGED restrictionVars => RestrictionsTyped'
  BY <1>1 DEF RestrictionsTyped, restrictionVars
<1>8. CASE \E c \in Callers : Begin(c)
  <2>1. UNCHANGED cacheVars
    BY <1>8 DEF Begin
  <2> QED BY <1>1, <1>5, <1>6, <1>8, <2>1, BeginTyped
<1>9. CASE LibraryChanges
  BY <1>5, <1>6, <1>7, <1>9 DEF LibraryChanges
<1>10. CASE RestrictionStep /\ UNCHANGED <<searchVars, cacheVars>>
  BY <1>1, <1>5, <1>6, <1>10, OperationTyped
<1>11. CASE CacheStep /\ UNCHANGED <<searchVars, restrictionVars>>
  BY <1>1, <1>5, <1>7, <1>11, CacheStepTyped
<1>12. CASE Restart
  <2>1. Startup /\ sweep' = {} /\ flushing' = FALSE /\ UNCHANGED <<cache, up, outages, flushes>>
    BY <1>12 DEF Restart
  <2>2. CacheTyped(Seq(Assets))'
    BY <1>1, <2>1 DEF CacheTyped
  <2> QED BY <1>1, <1>5, <2>1, <2>2, StartupTyped
<1>13. CASE UNCHANGED vars
  BY <1>5, <1>6, <1>7, <1>13 DEF vars
<1> QED BY <1>4, <1>8, <1>9, <1>10, <1>11, <1>12, <1>13 DEF Next

\* The table of words, the cache, the library and every call hold what they
\* are meant to, for any constants.
THEOREM SearchTypeCorrect == Spec => []TypeOK
<1>1. Init => TypeOK
  <2> SUFFICES ASSUME Init PROVE TypeOK
    OBVIOUS
  <2>1. RestrictionsTyped
    <3>1. /\ rows \in [RowIds -> Row \cup {NoRow}] /\ registry \subseteq Entry
          /\ edits \in 0..MaxEdits /\ behind \in BOOLEAN
          /\ compiled = [c \in Scopes |-> NotCompiled] /\ admin = [a \in Admins |-> Idle]
      BY SeedsAssumption, RestrictionAssumption DEF Init, RestrictionsInit
    <3>2. Idle \in [pc : AdminSteps, id : RowIds \cup {NoRow}, read : SUBSET Entry]
      BY DEF Idle, AdminSteps
    <3> QED BY <3>1, <3>2 DEF RestrictionsTyped
  <2>2. CacheTyped(Seq(Assets))
    BY DEF Init, CacheInit, CacheTyped
  <2>3. NoCall \in CallType
    BY DEF NoCall, CallType, CallAts
  <2>4. /\ library \in [Assets -> {"absent", "described", "embedded", "removed"}]
        /\ call \in [Callers -> CallType] /\ steady \in [Callers -> SUBSET Assets]
        /\ calls \in 0..MaxCalls /\ changes \in 0..MaxChanges
        /\ faults \in 0..MaxFaults /\ restarts \in 0..MaxRestarts
    BY <2>3 DEF Init, SearchInit
  <2> QED BY <2>1, <2>2, <2>4 DEF TypeOK
<1>2. SearchInv /\ SearchInv' /\ TypeOK /\ [Next]_vars => TypeOK'
  BY TypesStep
<1> QED BY <1>1, <1>2, SearchInvariance, PTL DEF Spec
=============================================================================
