-------------------------- MODULE StructureProofs --------------------------
(***************************************************************************)
(* What the functions on worksheet structures keep, for every structure:   *)
(* the lemmas that the proofs of the generators and of the documents share.*)
(***************************************************************************)
EXTENDS WorksheetStructure, FiniteSetTheorems, SequenceTheorems, WellFoundedInduction, TLAPS

\* A path is a sequence of keys; a structure labels paths.
IsPath(p) == p \in Seq({p[i] : i \in DOMAIN p})
Paths(t) == \A p \in DOMAIN t : IsPath(p)

-----------------------------------------------------------------------------
(* Induction. *)

\* Every set of naturals that is not empty has a least element.
LEMMA LeastNatural ==
    ASSUME NEW T \in SUBSET Nat, T # {}
    PROVE  \E m \in T : \A n \in T : m <= n
<1> DEFINE R == {ss \in Nat \X Nat : ss[1] < ss[2]}
<1>1. IsWellFoundedOn(R, Nat)
  BY NatLessThanWellFounded DEF OpToRel
<1>2. \A m, n \in Nat : ~ (<<n, m>> \in R) => m <= n
  OBVIOUS
<1> HIDE DEF R
<1>3. \E m \in T : \A n \in T : ~ (<<n, m>> \in R)
  BY WFMin, <1>1
<1> QED BY <1>2, <1>3

\* Induction on the naturals, for a set in place of a predicate: what the
\* library's theorem says of a predicate no installed prover can instantiate.
LEMMA InductionOnSets ==
    ASSUME NEW T, 0 \in T, \A n \in Nat : n \in T => n + 1 \in T
    PROVE  Nat \subseteq T
<1> SUFFICES ASSUME Nat \ T # {} PROVE FALSE
  OBVIOUS
<1>1. PICK m \in Nat \ T : \A n \in Nat \ T : m <= n
  BY LeastNatural
<1>2. m # 0 /\ m - 1 \in Nat /\ m - 1 \in T
  BY <1>1
<1> QED BY <1>1, <1>2

-----------------------------------------------------------------------------
(* Structures: every path of one is a sequence of keys. *)

\* A path is a sequence, of whatever keys.
LEMMA SequenceIsPath ==
    ASSUME NEW S, NEW p \in Seq(S) PROVE IsPath(p)
BY DEF IsPath
\* A key behind a path makes a longer one.
LEMMA AppendIsPath ==
    ASSUME NEW p, IsPath(p), NEW k
    PROVE  IsPath(Append(p, k)) /\ Append(p, k) # <<>> /\ Key(Append(p, k)) = k
<1> DEFINE S == {p[i] : i \in DOMAIN p} \cup {k}
<1>1. p \in Seq(S) /\ k \in S
  BY DEF IsPath
<1> HIDE DEF S
<1>2. Append(p, k) \in Seq(S) /\ Append(p, k) # <<>> /\ Append(p, k)[Len(Append(p, k))] = k
  BY <1>1, AppendProperties
<1> QED BY <1>2, SequenceIsPath DEF Key
\* One path behind another is a path,
LEMMA ConcatIsPath ==
    ASSUME NEW p, IsPath(p), NEW q, IsPath(q)
    PROVE  IsPath(p \o q)
<1> DEFINE S == {p[i] : i \in DOMAIN p} \cup {q[i] : i \in DOMAIN q}
<1>1. p \in Seq(S) /\ q \in Seq(S)
  BY DEF IsPath
<1> HIDE DEF S
<1>2. p \o q \in Seq(S)
  BY <1>1
<1> QED BY <1>2, SequenceIsPath
\* and so is the rest of one.
LEMMA RestIsPath ==
    ASSUME NEW p, IsPath(p), NEW n \in Nat, n <= Len(p)
    PROVE  IsPath(SubSeq(p, n + 1, Len(p)))
<1> DEFINE S == {p[i] : i \in DOMAIN p}
<1>1. p \in Seq(S)
  BY DEF IsPath
<1> HIDE DEF S
<1>2. SubSeq(p, n + 1, Len(p)) \in Seq(S)
  BY <1>1
<1> QED BY <1>2, SequenceIsPath

\* Changing a structure leaves its paths paths.
LEMMA OverlayPaths ==
    ASSUME NEW t, NEW u, Paths(t), Paths(u) PROVE Paths(Overlay(t, u))
BY DEF Paths, Overlay
\* So does taking out a part.
LEMMA PrunePaths ==
    ASSUME NEW t, NEW P, Paths(t) PROVE Paths(Prune(t, P))
BY DEF Paths, Prune
\* The same of a value alone,
LEMMA LeafPaths ==
    ASSUME NEW v PROVE Paths(Leaf(v))
<1>1. <<>> \in Seq({})
  OBVIOUS
<1> QED BY <1>1, SequenceIsPath DEF Paths, Leaf
\* of a part on its own,
LEMMA SubtreePaths ==
    ASSUME NEW t, NEW p, IsPath(p), Paths(t) PROVE Paths(Subtree(t, p))
<1>1. ASSUME NEW r \in Below(t, p) PROVE IsPath(SubSeq(r, Len(p) + 1, Len(r)))
  <2>1. IsPath(r) /\ Len(p) \in Nat /\ Len(p) <= Len(r)
    BY DEF Below, Within, Paths, IsPath
  <2> QED BY <2>1, RestIsPath
<1> QED BY <1>1 DEF Subtree, Paths
\* and of one that has another put in.
LEMMA PutPaths ==
    ASSUME NEW t, NEW p, IsPath(p), NEW v, Paths(t), Paths(v)
    PROVE  Paths(Put(t, p, v))
<1> DEFINE u == [q \in {p \o r : r \in DOMAIN v} |-> v[SubSeq(q, Len(p) + 1, Len(q))]]
<1>1. Paths(u)
  <2>1. \A r \in DOMAIN v : IsPath(p \o r)
    BY ConcatIsPath DEF Paths
  <2> QED BY <2>1 DEF Paths
<1>2. Put(t, p, v) = Overlay(Prune(t, {p}), u)
  BY DEF Put
<1> HIDE DEF u
<1> QED BY <1>1, <1>2, PrunePaths, OverlayPaths

\* normalizeImageQueryFields and validateGeneratedStructure keep the paths.
LEMMA CoercePaths ==
    ASSUME NEW t, Paths(t) PROVE Paths(CoercePairAliases(t))
<1> DEFINE stray == {x \in Pairs(t, PairAlias) :
                        Field(t, x[1], PairAlias[x[2]]) \in Text \ {""}}
           image(x) == Append(x[1], PairImage[x[2]])
           empty == {x \in stray :
                        \/ Field(t, x[1], PairImage[x[2]]) \in {"absent", "null", ""}
                        \/ IsRecord(t, image(x)) /\ VisualQuery(t, image(x)) = ""}
           asked == {Append(image(x), "imageQuery") : x \in empty}
           side(q) == CHOOSE s \in PairSides : q[Len(q) - 1] = PairImage[s]
           a == Prune(t, {Append(x[1], PairAlias[x[2]]) : x \in stray})
           b == [q \in {image(x) : x \in empty} |-> "{}"]
           c == [q \in asked |-> Field(t, Parent(Parent(q)), PairAlias[side(q)])]
<1>1. \A x \in empty : IsPath(image(x))
  <2>1. \A x \in empty : x[1] \in DOMAIN t
    BY DEF Pairs
  <2> QED BY <2>1, AppendIsPath DEF Paths
<1>2. CoercePairAliases(t) = Overlay(Overlay(a, b), c)
  BY DEF CoercePairAliases
<1>3. Paths(b)
  BY <1>1 DEF Paths
<1>4. Paths(c)
  <2>1. \A x \in empty : IsPath(Append(image(x), "imageQuery"))
    BY <1>1, AppendIsPath
  <2> QED BY <2>1 DEF Paths
<1>5. Paths(a)
  BY PrunePaths
<1> HIDE DEF a, b, c
<1> QED BY <1>2, <1>3, <1>4, <1>5, OverlayPaths
\* The same of the queries it adds,
LEMMA AddQueriesPaths ==
    ASSUME NEW t, Paths(t) PROVE Paths(AddQueries(t))
<1> DEFINE wanting == {p \in DOMAIN t :
                       /\ t[p] = "{}" /\ Unskipped(p) /\ VisualQuery(t, p) # ""
                       /\ Field(t, p, "imageQuery") \notin Descriptions}
           u == [q \in {Append(p, "imageQuery") : p \in wanting} |-> VisualQuery(t, Parent(q))]
<1>2. Paths(u)
  <2>1. \A p \in wanting : IsPath(Append(p, "imageQuery"))
    BY AppendIsPath DEF Paths
  <2> HIDE DEF wanting
  <2> QED BY <2>1 DEF Paths
<1>3. AddQueries(t) = Overlay(t, u)
  BY DEF AddQueries
<1> HIDE DEF u
<1> QED BY <1>2, <1>3, OverlayPaths
\* of the records it makes of pair images,
LEMMA PairImagesPaths ==
    ASSUME NEW t, Paths(t) PROVE Paths(PairImagesAsRecords(t))
<1> DEFINE hint(x) == IF Field(t, x[1], PairHint[x[2]]) \in Text
                      THEN Field(t, x[1], PairHint[x[2]]) ELSE ""
           value(x) == Field(t, x[1], PairImage[x[2]])
           path(x) == Append(x[1], PairImage[x[2]])
           named == {x \in Pairs(t, PairImage) : value(x) \in Text \ {""}}
           hinted == {x \in Pairs(t, PairImage) :
                         value(x) \in {"null", ""} /\ hint(x) \in Descriptions}
           query(x) == IF hint(x) # "" THEN hint(x)
                       ELSE IF value(x) \in FileNames THEN Worded[value(x)] ELSE value(x)
           of(q) == CHOOSE x \in named \cup hinted : path(x) = Parent(q)
           D == {path(x) : x \in named \cup hinted}
                   \cup {Append(path(x), "imageQuery") : x \in named \cup hinted}
                   \cup {Append(path(x), "image_name") : x \in named}
           u == [q \in D |-> CASE Key(q) = "imageQuery" -> query(of(q))
                               [] Key(q) = "image_name" -> value(of(q))
                               [] OTHER -> "{}"]
<1>1. \A x \in named \cup hinted : IsPath(path(x))
  <2>1. \A x \in named \cup hinted : x[1] \in DOMAIN t
    BY DEF Pairs
  <2> QED BY <2>1, AppendIsPath DEF Paths
<1>2. PairImagesAsRecords(t) = Overlay(t, u)
  BY DEF PairImagesAsRecords
<1>3. \A q \in D : IsPath(q)
  <2> HIDE DEF path, named, hinted
  <2> QED BY <1>1, AppendIsPath
<1>4. DOMAIN u = D
  <2> HIDE DEF D
  <2> QED OBVIOUS
<1> HIDE DEF u, D
<1>5. Paths(u)
  BY <1>3, <1>4 DEF Paths
<1> QED BY <1>2, <1>5, OverlayPaths
\* of the shared picture,
LEMMA MascotPaths ==
    ASSUME NEW t, Paths(t) PROVE Paths(UnifyMascot(t))
<1> DEFINE placed == {p \in Items(t) : \E k \in SharedKeys : Filled(t, p, k)}
           queried == {p \in Items(t) : VisualQuery(t, p) # ""}
           from == IF placed # {} THEN placed ELSE queried
           first == CHOOSE p \in from : \A q \in from : Position(Key(p)) <= Position(Key(q))
           query == IF Filled(t, first, "imageQuery") THEN Field(t, first, "imageQuery")
                    ELSE VisualQuery(t, first)
           keys == {k \in SharedKeys \cup {"image_name"} : Filled(t, first, k)}
                       \cup (IF query = "" THEN {} ELSE {"imageQuery"})
           u == [q \in {Append(p, k) : p \in Items(t), k \in keys} |->
                            IF Key(q) = "imageQuery" THEN query
                            ELSE Field(t, first, Key(q))]
<1>1. UnifyMascot(t) = IF ~IsBeforeAfter(t) \/ from = {} THEN t ELSE Overlay(t, u)
  BY DEF UnifyMascot
<1>2. \A p \in Items(t), k \in keys : IsPath(Append(p, k))
  <2>1. Items(t) \subseteq DOMAIN t
    BY DEF Items, Elements, Children
  <2> HIDE DEF keys
  <2> QED BY <2>1, AppendIsPath DEF Paths
<1>3. Paths(u)
  <2> DEFINE D == {Append(p, k) : p \in Items(t), k \in keys}
  <2> HIDE DEF keys, query, first
  <2>1. DOMAIN u = D
    OBVIOUS
  <2>2. ASSUME NEW q \in D PROVE IsPath(q)
    <3>1. PICK p \in Items(t), k \in keys : q = Append(p, k)
      BY DEF D
    <3> HIDE DEF D
    <3> QED BY <1>2, <3>1
  <2> HIDE DEF D, u
  <2> QED BY <2>1, <2>2 DEF Paths
<1> HIDE DEF u, from
<1> QED BY <1>1, <1>3, OverlayPaths
\* and of the wording.
LEMMA ValidatedPaths ==
    ASSUME NEW t, NEW lineart, Paths(t) PROVE Paths(Validated(t, lineart))
BY DEF Paths, Validated, StripLineart

\* Nothing that was pictured still has an address of a picture.
LEMMA PicturedIsStripped ==
    ASSUME NEW t, NEW found, NEW lineart, Paths(t)
    PROVE  /\ Paths(Pictured(t, found, lineart))
           /\ \A p \in DOMAIN Pictured(t, found, lineart) \ {<<>>} : Key(p) \notin TransientKeys
<1> DEFINE asset(p) == found[WithLineart(VisualQuery(t, p), lineart)]
           slots == {p \in ImageRecords(t) : asset(p) # "null"}
           u == [q \in {Append(p, "assetId") : p \in slots} |-> asset(Parent(q))]
<1>1. Pictured(t, found, lineart) = StripTransient(Overlay(t, u))
  BY DEF Pictured
<1>2. Paths(u)
  <2>1. slots \subseteq DOMAIN t
    BY DEF ImageRecords
  <2> HIDE DEF slots
  <2> QED BY <2>1, AppendIsPath DEF Paths
<1> HIDE DEF u
<1> DEFINE v == Overlay(t, u)
           P == {p \in DOMAIN v : p # <<>> /\ Key(p) \in TransientKeys}
<1>3. Paths(v)
  BY <1>2, OverlayPaths
<1>4. StripTransient(v) = Prune(v, P)
  BY DEF StripTransient
<1>5. DOMAIN Prune(v, P) = {r \in DOMAIN v : ~\E p \in P : Within(p, r)}
  BY DEF Prune
<1>6. \A r \in DOMAIN v : Within(r, r)
  <2> TAKE r \in DOMAIN v
  <2>1. PICK S : r \in Seq(S)
    BY <1>3 DEF Paths, IsPath
  <2>2. Len(r) \in Nat /\ SubSeq(r, 1, Len(r)) = r
    BY <2>1
  <2> QED BY <2>2 DEF Within
<1> HIDE DEF v
<1>7. \A r \in DOMAIN Prune(v, P) \ {<<>>} : Key(r) \notin TransientKeys
  BY <1>5, <1>6
<1> QED BY <1>1, <1>3, <1>4, <1>7, PrunePaths DEF v

-----------------------------------------------------------------------------
(* What lies below a path. *)

\* A path is within another exactly if it begins with its keys.
LEMMA WithinMeans ==
    ASSUME NEW p, IsPath(p), NEW q, IsPath(q)
    PROVE  Within(p, q) <=> Len(p) <= Len(q) /\ \A i \in 1..Len(p) : q[i] = p[i]
<1> DEFINE S == {p[i] : i \in DOMAIN p} \cup {q[i] : i \in DOMAIN q}
<1>1. p \in Seq(S) /\ q \in Seq(S)
  BY DEF IsPath
<1> HIDE DEF S
<1>2. ASSUME Len(p) <= Len(q)
      PROVE  /\ SubSeq(q, 1, Len(p)) \in Seq(S) /\ Len(SubSeq(q, 1, Len(p))) = Len(p)
             /\ \A i \in 1..Len(p) : SubSeq(q, 1, Len(p))[i] = q[i]
  BY <1>1, <1>2
<1>3. ASSUME Len(p) <= Len(q), \A i \in 1..Len(p) : q[i] = p[i]
      PROVE  SubSeq(q, 1, Len(p)) = p
  BY <1>1, <1>2, <1>3, SeqEqual
<1> QED BY <1>2, <1>3 DEF Within

\* A path is within itself.
LEMMA WithinItself ==
    ASSUME NEW p, IsPath(p) PROVE Within(p, p)
<1>1. Len(p) \in Nat
  BY DEF IsPath
<1>2. Len(p) <= Len(p)
  BY <1>1
<1> QED BY <1>2, WithinMeans
\* What is within a path that is within another is within that one,
LEMMA WithinChain ==
    ASSUME NEW p, NEW q, NEW r, IsPath(p), IsPath(q), IsPath(r), Within(p, q), Within(q, r)
    PROVE  Within(p, r)
<1>1. Len(p) \in Nat /\ Len(q) \in Nat /\ Len(r) \in Nat
  BY DEF IsPath
<1>2. /\ Len(p) <= Len(q) /\ \A i \in 1..Len(p) : q[i] = p[i]
      /\ Len(q) <= Len(r) /\ \A i \in 1..Len(q) : r[i] = q[i]
  BY WithinMeans
<1>3. Len(p) <= Len(r) /\ \A i \in 1..Len(p) : r[i] = p[i]
  BY <1>1, <1>2
<1> QED BY <1>3, WithinMeans
\* and of two that a path is within the shorter has the longer within it.
LEMMA WithinBoth ==
    ASSUME NEW p, NEW q, NEW r, IsPath(p), IsPath(q), IsPath(r), Within(p, r), Within(q, r),
           Len(p) <= Len(q)
    PROVE  Within(p, q)
<1>1. Len(p) \in Nat /\ Len(q) \in Nat /\ Len(r) \in Nat
  BY DEF IsPath
<1>2. /\ \A i \in 1..Len(p) : r[i] = p[i]
      /\ \A i \in 1..Len(q) : r[i] = q[i]
  BY WithinMeans
<1>3. \A i \in 1..Len(p) : q[i] = p[i]
  BY <1>1, <1>2
<1> QED BY <1>3, WithinMeans
\* What is put behind a path is within it.
LEMMA WithinConcat ==
    ASSUME NEW p, NEW q, IsPath(p), IsPath(q)
    PROVE  IsPath(p \o q) /\ Within(p, p \o q)
<1> DEFINE S == {p[i] : i \in DOMAIN p} \cup {q[i] : i \in DOMAIN q}
<1>1. p \in Seq(S) /\ q \in Seq(S)
  BY DEF IsPath
<1> HIDE DEF S
<1>2. Len(p) <= Len(p \o q) /\ \A i \in 1..Len(p) : (p \o q)[i] = p[i]
  BY <1>1
<1> QED BY <1>2, ConcatIsPath, WithinMeans
\* So is what has one key more.
LEMMA WithinAppend ==
    ASSUME NEW p, IsPath(p), NEW k
    PROVE  /\ IsPath(Append(p, k)) /\ Within(p, Append(p, k))
           /\ Len(Append(p, k)) = Len(p) + 1 /\ Append(p, k)[Len(p) + 1] = k
<1> DEFINE S == {p[i] : i \in DOMAIN p} \cup {k}
<1>1. p \in Seq(S) /\ k \in S
  BY DEF IsPath
<1> HIDE DEF S
<1>2. /\ Len(Append(p, k)) = Len(p) + 1 /\ Append(p, k)[Len(p) + 1] = k
      /\ Len(p) <= Len(Append(p, k)) /\ \A i \in 1..Len(p) : Append(p, k)[i] = p[i]
  BY <1>1, AppendProperties
<1>3. IsPath(Append(p, k))
  BY AppendIsPath
<1>4. Within(p, Append(p, k))
  BY <1>2, <1>3, WithinMeans
<1> QED BY <1>2, <1>3, <1>4
\* Everything is within the whole.
LEMMA WithinWhole ==
    ASSUME NEW p, IsPath(p) PROVE IsPath(<<>>) /\ Within(<<>>, p)
<1>1. <<>> \in Seq({}) /\ Len(<<>>) = 0 /\ Len(p) \in Nat
  BY DEF IsPath
<1>2. IsPath(<<>>)
  BY <1>1, SequenceIsPath
<1> QED BY <1>1, <1>2, WithinMeans

-----------------------------------------------------------------------------
(* What a function on structures leaves alone. *)

\* Two structures are the same outside the given paths.
SameBut(t, u, T) ==
    \A q \in DOMAIN t \cup DOMAIN u :
        \/ Has(t, q) /\ Has(u, q) /\ t[q] = u[q]
        \/ \E p \in T : Within(p, q)
\* No address of an asset is in a structure.
Clean(t) == \A p \in DOMAIN t \ {<<>>} : Key(p) \notin TransientKeys

\* One change after the other,
LEMMA SameThrough ==
    ASSUME NEW t, NEW u, NEW v, NEW T, NEW S, SameBut(t, u, T), SameBut(u, v, S)
    PROVE  SameBut(t, v, T \cup S)
BY DEF SameBut, Has
\* the same one within fewer paths,
LEMMA SameWider ==
    ASSUME NEW t, NEW u, NEW T, NEW S, Paths(t), Paths(u), SameBut(t, u, T),
           \A p \in T : IsPath(p) /\ \E x \in S : IsPath(x) /\ Within(x, p)
    PROVE  SameBut(t, u, S)
<1> SUFFICES ASSUME NEW q \in DOMAIN t \cup DOMAIN u, NEW p \in T, Within(p, q)
             PROVE  \E x \in S : Within(x, q)
  BY DEF SameBut
<1>1. PICK x \in S : IsPath(p) /\ IsPath(x) /\ Within(x, p)
  OBVIOUS
<1>2. IsPath(q)
  BY DEF Paths
<1>3. Within(x, q)
  BY <1>1, <1>2, WithinChain
<1> QED BY <1>3
\* and no change.
LEMMA SameItself ==
    ASSUME NEW t, NEW T PROVE SameBut(t, t, T)
BY DEF SameBut, Has

\* Taking parts out,
LEMMA PruneChanges ==
    ASSUME NEW t, NEW P PROVE SameBut(t, Prune(t, P), P)
BY DEF SameBut, Prune, Has
\* putting one in,
LEMMA PutChanges ==
    ASSUME NEW t, NEW p, NEW v, Paths(t), Paths(v), IsPath(p)
    PROVE  SameBut(t, Put(t, p, v), {p})
<1> DEFINE w == Prune(t, {p})
           u == [q \in {p \o r : r \in DOMAIN v} |-> v[SubSeq(q, Len(p) + 1, Len(q))]]
<1>1. Put(t, p, v) = Overlay(w, u)
  BY DEF Put
<1>2. \A x \in DOMAIN u : IsPath(x) /\ Within(p, x)
  BY WithinConcat DEF Paths
<1>3. \A q \in DOMAIN t : ~Within(p, q) => q \in DOMAIN w /\ w[q] = t[q]
  BY DEF Prune
<1>4. DOMAIN w \subseteq DOMAIN t
  BY DEF Prune
<1> HIDE DEF u, w
<1>5. ASSUME NEW q \in DOMAIN t, ~Within(p, q)
      PROVE  q \in DOMAIN Overlay(w, u) /\ Overlay(w, u)[q] = t[q]
  <2>1. IsPath(q)
    BY DEF Paths
  <2>2. \A x \in DOMAIN u : ~Within(x, q)
    BY <1>2, <1>5, <2>1, WithinChain
  <2>3. q \notin DOMAIN u
    BY <1>2, <1>5
  <2> QED BY <1>3, <1>5, <2>2, <2>3 DEF Overlay, Has
<1>6. DOMAIN Overlay(w, u) \subseteq DOMAIN t \cup DOMAIN u
  BY <1>4 DEF Overlay
<1> QED BY <1>1, <1>2, <1>5, <1>6 DEF SameBut, Has
\* and taking the addresses out of what was changed in a structure without any.
LEMMA StripChanges ==
    ASSUME NEW t, NEW u, NEW T, SameBut(t, u, T), Clean(t), Paths(t), Paths(u),
           \A p \in T : IsPath(p)
    PROVE  SameBut(t, StripTransient(u), T)
<1> DEFINE P == {p \in DOMAIN u : p # <<>> /\ Key(p) \in TransientKeys}
<1>1. StripTransient(u) = Prune(u, P)
  BY DEF StripTransient
<1>2. SameBut(u, Prune(u, P), P)
  BY PruneChanges
<1>3. SameBut(t, Prune(u, P), T \cup P)
  BY <1>2, SameThrough
<1>4. Paths(Prune(u, P))
  BY PrunePaths
<1>5. ASSUME NEW p \in T \cup P PROVE IsPath(p) /\ \E x \in T : IsPath(x) /\ Within(x, p)
  <2>1. CASE p \in T
    BY <2>1, WithinItself
  <2>2. CASE p \in P
    <3>1. p \in DOMAIN u /\ ~Has(t, p) /\ IsPath(p)
      BY <2>2 DEF Clean, Has, Paths
    <3> QED BY <3>1 DEF SameBut
  <2> QED BY <2>1, <2>2
<1> HIDE DEF P
<1>6. SameBut(t, Prune(u, P), T)
  BY <1>3, <1>4, <1>5, SameWider
<1> QED BY <1>1, <1>6
\* No address is left.
LEMMA StripIsClean ==
    ASSUME NEW t, Paths(t)
    PROVE  Paths(StripTransient(t)) /\ Clean(StripTransient(t))
<1> DEFINE P == {p \in DOMAIN t : p # <<>> /\ Key(p) \in TransientKeys}
<1>1. StripTransient(t) = Prune(t, P)
  BY DEF StripTransient
<1>2. DOMAIN Prune(t, P) = {r \in DOMAIN t : ~\E p \in P : Within(p, r)}
  BY DEF Prune
<1>3. \A r \in DOMAIN t : Within(r, r)
  BY WithinItself DEF Paths
<1>4. Clean(Prune(t, P))
  BY <1>2, <1>3 DEF Clean
<1> QED BY <1>1, <1>4, PrunePaths

-----------------------------------------------------------------------------
(* What the services' functions change. *)

\* The paths of one picture, and of the index of the uploads.
PicturePaths(p) == {Append(p, "assetId"), Append(p, "userUploadedKey"), Uploads}
\* The index is at a path,
LEMMA UploadsIsPath == IsPath(Uploads)
<1>1. Uploads \in Seq({"userUploadedImages"})
  BY DEF Uploads
<1> QED BY <1>1, SequenceIsPath
\* and so are the others.
LEMMA PicturePathsArePaths ==
    ASSUME NEW p, IsPath(p) PROVE \A x \in PicturePaths(p) : IsPath(x)
BY AppendIsPath, UploadsIsPath DEF PicturePaths
\* One field of a picture set or taken away,
LEMMA PatchChanges ==
    ASSUME NEW t, Paths(t), NEW p, IsPath(p), NEW asset, NEW key
    PROVE  /\ Paths(PatchImage(t, p, asset, key))
           /\ SameBut(t, PatchImage(t, p, asset, key), PicturePaths(p))
<1> DEFINE uploaded == Append(p, "userUploadedKey")
           u == IF key = "" THEN Prune(t, {uploaded}) ELSE Put(t, uploaded, Leaf(key))
           v == Put(u, Append(p, "assetId"), Leaf(asset))
<1>1. PatchImage(t, p, asset, key) = v
  BY DEF PatchImage
<1>2. IsPath(uploaded) /\ IsPath(Append(p, "assetId"))
  BY AppendIsPath
<1> HIDE DEF uploaded
<1>3. \A x : Paths(Leaf(x))
  BY LeafPaths
<1>4. Paths(u) /\ SameBut(t, u, {uploaded})
  <2>1. CASE key = ""
    BY <2>1, PrunePaths, PruneChanges
  <2>2. CASE key # ""
    BY <1>2, <1>3, <2>2, PutPaths, PutChanges
  <2> QED BY <2>1, <2>2
<1> HIDE DEF u
<1>5. Paths(v) /\ SameBut(u, v, {Append(p, "assetId")})
  BY <1>2, <1>3, <1>4, PutPaths, PutChanges
<1> HIDE DEF v
<1>6. SameBut(t, v, {uploaded} \cup {Append(p, "assetId")})
  BY <1>4, <1>5, SameThrough
<1>7. SameBut(t, v, PicturePaths(p))
  BY <1>6 DEF SameBut, PicturePaths, uploaded
<1> QED BY <1>1, <1>5, <1>7
\* and the index of the uploads.
LEMMA IndexChanges ==
    ASSUME NEW t, Paths(t), NEW p, NEW key
    PROVE  Paths(IndexUpload(t, p, key)) /\ SameBut(t, IndexUpload(t, p, key), {Uploads})
<1> DEFINE name == Append(Uploads, SlotNames[p])
           cleared == Prune(t, {name})
           index == IF IsRecord(t, Uploads) THEN Subtree(t, Uploads) ELSE Leaf("{}")
           u == Put(t, Uploads, index)
           v == Put(u, name, Leaf(key))
<1>1. \/ IndexUpload(t, p, key) = v
      \/ IndexUpload(t, p, key) = Prune(t, {Uploads})
      \/ IndexUpload(t, p, key) = cleared
  BY DEF IndexUpload
<1>2. IsPath(name) /\ IsPath(Uploads) /\ Within(Uploads, name) /\ Within(Uploads, Uploads)
  BY UploadsIsPath, WithinAppend, WithinItself
<1> HIDE DEF name
<1>3. Paths(index)
  BY <1>2, SubtreePaths, LeafPaths
<1> HIDE DEF index
<1>4. Paths(u) /\ SameBut(t, u, {Uploads})
  BY <1>2, <1>3, PutPaths, PutChanges
<1> HIDE DEF u
<1>5. Paths(v) /\ SameBut(u, v, {name})
  BY <1>2, <1>4, LeafPaths, PutPaths, PutChanges
<1> HIDE DEF v
<1>6. SameBut(t, v, {Uploads} \cup {name})
  BY <1>4, <1>5, SameThrough
<1>7. SameBut(t, v, {Uploads})
  BY <1>2, <1>5, <1>6, SameWider
<1>8. Paths(Prune(t, {Uploads})) /\ SameBut(t, Prune(t, {Uploads}), {Uploads})
  BY PrunePaths, PruneChanges
<1>9. Paths(cleared) /\ SameBut(t, cleared, {name})
  BY PrunePaths, PruneChanges
<1>10. SameBut(t, cleared, {Uploads})
  BY <1>2, <1>9, SameWider
<1> QED BY <1>1, <1>5, <1>7, <1>8, <1>9, <1>10
\* So much for a picture; the addresses of others go with it.
LEMMA PictureChanges ==
    ASSUME NEW t, NEW u, NEW T, Paths(t), Paths(u), Clean(t), SameBut(t, u, T),
           \A x \in T : IsPath(x), NEW p, IsPath(p), NEW asset, NEW key,
           PicturePaths(p) \subseteq T
    PROVE  LET next == StripTransient(IndexUpload(PatchImage(u, p, asset, key), p, key))
           IN  Paths(next) /\ SameBut(t, next, T)
<1> DEFINE v == PatchImage(u, p, asset, key)
           w == IndexUpload(v, p, key)
<1>1. Paths(v) /\ SameBut(u, v, PicturePaths(p))
  BY PatchChanges
<1> HIDE DEF v
<1>2. Paths(w) /\ SameBut(v, w, {Uploads})
  BY <1>1, IndexChanges
<1> HIDE DEF w
<1>3. SameBut(t, v, T \cup PicturePaths(p))
  BY <1>1, SameThrough
<1>4. SameBut(t, w, (T \cup PicturePaths(p)) \cup {Uploads})
  BY <1>2, <1>3, SameThrough
<1>5. (T \cup PicturePaths(p)) \cup {Uploads} = T
  BY DEF PicturePaths
<1>6. SameBut(t, w, T)
  BY <1>4, <1>5
<1>7. SameBut(t, StripTransient(w), T) /\ Paths(StripTransient(w))
  BY <1>2, <1>6, StripChanges, StripIsClean
<1> QED BY <1>7 DEF v, w

-----------------------------------------------------------------------------
(* The queries of two structures. *)

\* Where the names a query is read from are the same, so is the query.
LEMMA SameQuery ==
    ASSUME NEW t, NEW u, NEW p,
           \A i \in DOMAIN AliasKeys : Field(t, p, AliasKeys[i]) = Field(u, p, AliasKeys[i])
    PROVE  VisualQuery(t, p) = VisualQuery(u, p)
<1>1. \A S : AliasesIn(t, p, S) = AliasesIn(u, p, S)
  BY DEF AliasesIn
<1>2. ASSUME NEW S, AliasesIn(t, p, S) # {}
      PROVE  FirstAlias(t, p, S) = FirstAlias(u, p, S)
  <2> DEFINE A == AliasesIn(t, p, S)
             first == CHOOSE i \in A : \A j \in A : i <= j
  <2>1. A \subseteq DOMAIN AliasKeys
    BY DEF AliasesIn
  <2>2. DOMAIN AliasKeys \subseteq Nat
    BY DEF AliasKeys
  <2>3. A \in SUBSET Nat /\ A # {}
    BY <1>2, <2>1, <2>2
  <2>4. \E i \in A : \A j \in A : i <= j
    BY <2>3, LeastNatural
  <2> HIDE DEF A
  <2>5. first \in A
    BY <2>4
  <2>6. first \in DOMAIN AliasKeys
    BY <2>1, <2>5
  <2>7. FirstAlias(t, p, S) = Field(t, p, AliasKeys[first])
    BY DEF FirstAlias, A
  <2>8. FirstAlias(u, p, S) = Field(u, p, AliasKeys[first])
    <3>1. AliasesIn(u, p, S) = A
      BY <1>1 DEF A
    <3> QED BY <3>1 DEF FirstAlias
  <2> QED BY <2>6, <2>7, <2>8
<1>3. AliasesIn(t, p, Descriptions) = AliasesIn(u, p, Descriptions)
  BY <1>1
<1>4. AliasesIn(t, p, FileNames) = AliasesIn(u, p, FileNames)
  BY <1>1
<1>5. AliasesIn(t, p, Descriptions) # {} => FirstAlias(t, p, Descriptions) = FirstAlias(u, p, Descriptions)
  BY <1>2
<1>6. AliasesIn(t, p, FileNames) # {} => FirstAlias(t, p, FileNames) = FirstAlias(u, p, FileNames)
  BY <1>2
<1> QED BY <1>3, <1>4, <1>5, <1>6 DEF VisualQuery

\* Assets written into records whose query has changed: whatever the order,
\* only records whose query is different in the end got one.
LEMMA ChangedArePictured ==
    ASSUME NEW b, NEW n, NEW f, NEW F, NEW D, Paths(b), Paths(n), Paths(f), IsPath(F),
           D \subseteq Changed(b, n), SameBut(b, n, {F}),
           SameBut(n, f, {Append(p, "assetId") : p \in D})
    PROVE  SameBut(b, f, {F} \cup {Append(p, "assetId") : p \in Changed(b, f)})
<1> DEFINE I == {Append(p, "assetId") : p \in D}
           C == {F} \cup {Append(p, "assetId") : p \in Changed(b, f)}
<1>1. SameBut(b, f, {F} \cup I)
  BY SameThrough
<1>2. D \subseteq DOMAIN n
  BY DEF Changed, ImageRecords
<1>3. \A p \in D : /\ IsPath(p) /\ IsPath(Append(p, "assetId")) /\ Within(p, Append(p, "assetId"))
                   /\ Len(Append(p, "assetId")) = Len(p) + 1
                   /\ Append(p, "assetId")[Len(p) + 1] = "assetId"
  BY <1>2, WithinAppend DEF Paths
<1>4. \A p \in D : Len(p) \in Nat
  BY <1>3 DEF IsPath
<1> SUFFICES ASSUME NEW q \in DOMAIN b \cup DOMAIN f, NEW o \in D, Within(Append(o, "assetId"), q)
             PROVE  \E x \in C : Within(x, q)
  <2>1. SameBut(b, f, C)
    BY <1>1 DEF SameBut
  <2> QED BY <2>1
<1> DEFINE N == {Len(p) : p \in {d \in D : Within(Append(d, "assetId"), q)}}
<1>5. \E m \in N : \A k \in N : m <= k
  <2>1. N \in SUBSET Nat
    BY <1>4
  <2>2. N # {}
    OBVIOUS
  <2> HIDE DEF N
  <2> QED BY <2>1, <2>2, LeastNatural
<1>6. PICK p \in D : /\ Within(Append(p, "assetId"), q)
                     /\ \A d \in D : Within(Append(d, "assetId"), q) => Len(p) <= Len(d)
  BY <1>5
<1>7. IsPath(q)
  BY DEF Paths
<1>8. ASSUME NEW x, IsPath(x), NEW d \in D, Within(Append(d, "assetId"), x), Within(x, q)
      PROVE  Len(x) >= Len(p) + 1
  <2>1. Within(Append(d, "assetId"), q)
    BY <1>3, <1>7, <1>8, WithinChain
  <2>2. Len(p) <= Len(d) /\ Len(Append(d, "assetId")) <= Len(x)
    BY <1>6, <1>8, <2>1 DEF Within
  <2> QED BY <1>3, <1>4, <1>8, <2>2 DEF IsPath
<1>9. Within(p, q)
  BY <1>3, <1>6, <1>7, WithinChain
<1>10. Has(f, p) /\ f[p] = n[p]
  <2>1. p \in DOMAIN n /\ IsPath(p) /\ Len(p) \in Nat
    BY <1>2, <1>3, <1>4
  <2>2. ASSUME NEW d \in D, Within(Append(d, "assetId"), p) PROVE FALSE
    <3>1. Len(p) >= Len(p) + 1
      BY <1>8, <1>9, <2>1, <2>2
    <3> QED BY <2>1, <3>1
  <2> QED BY <2>1, <2>2 DEF SameBut, Has
<1>11. ASSUME NEW i \in DOMAIN AliasKeys
       PROVE  Field(n, p, AliasKeys[i]) = Field(f, p, AliasKeys[i])
  <2> DEFINE a == Append(p, AliasKeys[i])
  <2>1. /\ IsPath(a) /\ Within(p, a) /\ Len(a) = Len(p) + 1 /\ a[Len(p) + 1] = AliasKeys[i]
        /\ AliasKeys[i] # "assetId"
    BY <1>3, WithinAppend DEF AliasKeys
  <2>2. ASSUME NEW d \in D, Within(Append(d, "assetId"), a) PROVE FALSE
    <3>1. Len(Append(d, "assetId")) <= Len(a)
      BY <2>2 DEF Within
    <3>2. Len(d) <= Len(p)
      BY <1>3, <1>4, <2>1, <3>1
    <3>3. CASE Len(d) = Len(p)
      <4>0. Len(d) + 1 \in 1..Len(Append(d, "assetId"))
        BY <1>3, <1>4
      <4>1. a[Len(d) + 1] = Append(d, "assetId")[Len(d) + 1]
        BY <1>3, <2>1, <2>2, <4>0, WithinMeans
      <4> QED BY <1>3, <2>1, <3>3, <4>1
    <3>4. CASE Len(d) # Len(p)
      <4>1. Len(Append(d, "assetId")) <= Len(p)
        BY <1>3, <1>4, <3>2, <3>4
      <4>2. Within(Append(d, "assetId"), p)
        BY <1>3, <2>1, <2>2, <4>1, WithinBoth
      <4> QED BY <1>3, <1>4, <1>8, <1>9, <4>2
    <3> QED BY <3>3, <3>4
  <2>3. ~\E x \in I : Within(x, a)
    BY <2>2
  <2> HIDE DEF a
  <2>4. a \in DOMAIN n \/ a \in DOMAIN f => Has(n, a) /\ Has(f, a) /\ n[a] = f[a]
    BY <2>3 DEF SameBut
  <2> QED BY <2>4 DEF Field, Has, a
<1>12. VisualQuery(n, p) = VisualQuery(f, p)
  BY <1>11, SameQuery
<1>13. p \in Changed(b, f)
  BY <1>2, <1>10, <1>12 DEF Changed, ImageRecords, Has
<1> QED BY <1>6, <1>13

\* An asset written into a record, or none, changes the id of that record.
LEMMA SlotChanges ==
    ASSUME NEW t, NEW u, NEW T, Paths(t), Paths(u), Clean(t), SameBut(t, u, T),
           \A x \in T : IsPath(x), NEW p, IsPath(p), Append(p, "assetId") \in T, NEW asset
    PROVE  Paths(ApplySlot(u, p, asset)) /\ SameBut(t, ApplySlot(u, p, asset), T)
<1> DEFINE id == Append(p, "assetId")
           v == IF asset = "null" THEN u ELSE Put(u, id, Leaf(asset))
<1>1. ApplySlot(u, p, asset) = StripTransient(v)
  BY DEF ApplySlot
<1>2. IsPath(id) /\ {id} \subseteq T
  OBVIOUS
<1> HIDE DEF id
<1>3. Paths(v) /\ SameBut(t, v, T)
  <2>1. CASE asset = "null"
    BY <2>1
  <2>2. CASE asset # "null"
    <3>1. Paths(v) /\ SameBut(u, v, {id})
      BY <1>2, <2>2, LeafPaths, PutPaths, PutChanges
    <3> HIDE DEF v
    <3>2. SameBut(t, v, T \cup {id}) /\ T \cup {id} = T
      BY <1>2, <3>1, SameThrough
    <3> QED BY <3>1, <3>2
  <2> QED BY <2>1, <2>2
<1> HIDE DEF v
<1> QED BY <1>1, <1>3, StripChanges, StripIsClean

\* A field that was there, written again, brings no address with it.
LEMMA LeafIsClean ==
    ASSUME NEW t, NEW p, NEW v, Paths(t), Clean(t), IsPath(p), Has(t, p)
    PROVE  Clean(Put(t, p, Leaf(v)))
<1> DEFINE u == [q \in {p \o r : r \in DOMAIN Leaf(v)} |-> Leaf(v)[SubSeq(q, Len(p) + 1, Len(q))]]
<1>1. Put(t, p, Leaf(v)) = Overlay(Prune(t, {p}), u)
  BY DEF Put
<1>2. DOMAIN u = {p \o <<>>} /\ p \o <<>> = p
  <2>1. DOMAIN Leaf(v) = {<<>>}
    BY DEF Leaf
  <2>2. PICK S : p \in Seq(S)
    BY DEF IsPath
  <2>3. p \o <<>> = p
    BY <2>2
  <2> QED BY <2>1, <2>3
<1> HIDE DEF u
<1>3. DOMAIN Overlay(Prune(t, {p}), u) \subseteq DOMAIN t \cup {p}
  BY <1>2 DEF Overlay, Prune
<1> QED BY <1>1, <1>3 DEF Clean, Has

\* The editor's name of a field stands for a path.
LEMMA FieldPathIsPath ==
    ASSUME NEW t, NEW f, f.path \in Seq(STRING)
    PROVE  IsPath(FieldPath(t, f))
<1>1. \A a, b, c : <<a, b, c>> \in Seq({a, b, c})
  OBVIOUS
<1>2. \A a, b, c, d, e : <<a, b, c, d, e>> \in Seq({a, b, c, d, e})
  OBVIOUS
<1>3. \A a, b, c : IsPath(<<a, b, c>>)
  BY <1>1, SequenceIsPath
<1>4. \A a, b, c, d, e : IsPath(<<a, b, c, d, e>>)
  BY <1>2, SequenceIsPath
<1>5. IsPath(f.path)
  BY SequenceIsPath
<1>6. \/ FieldPath(t, f) = f.path
      \/ \E a, b, c : FieldPath(t, f) = <<a, b, c>>
      \/ \E a, b, c, d, e : FieldPath(t, f) = <<a, b, c, d, e>>
  BY DEF FieldPath
<1> QED BY <1>3, <1>4, <1>5, <1>6

\* normalizeImageQueryFields and the overrides of a regeneration keep the paths.
LEMMA NormalisePaths ==
    ASSUME NEW t, Paths(t) PROVE Paths(Normalise(t))
<1>1. Paths(CoercePairAliases(t))
  BY CoercePaths
<1>2. Paths(AddQueries(CoercePairAliases(t)))
  BY <1>1, AddQueriesPaths
<1>3. Paths(PairImagesAsRecords(AddQueries(CoercePairAliases(t))))
  BY <1>2, PairImagesPaths
<1> QED BY <1>3, MascotPaths DEF Normalise
\* The same of the overrides.
LEMMA NumberMatchPaths ==
    ASSUME NEW t, NEW fields, Paths(t) PROVE Paths(NumberMatch(t, fields))
<1> DEFINE kind == IF fields.matchType \in DOMAIN MatchInstruction THEN fields.matchType
                   ELSE "number_names"
           number(p) == IF Field(t, p, "number") \in Figures THEN Field(t, p, "number") ELSE "0"
           named == (IF fields.topic = "" THEN {} ELSE {<<"topic">>})
                       \cup (IF fields.matchType \notin DOMAIN MatchInstruction THEN {}
                             ELSE {<<"instruction_text">>})
           root == [q \in named |->
                       IF q = <<"topic">> THEN fields.topic ELSE MatchInstruction[kind]]
           renamed == IF fields.matchType = "" \/ ~IsNumberName(t) THEN {}
                      ELSE {Append(p, "name") : p \in Elements(t, <<"pairs">>)}
           right == [q \in renamed |-> RightText[kind][number(Parent(q))]]
<1>1. NumberMatch(t, fields) = Overlay(Overlay(t, root), right)
  BY DEF NumberMatch
<1>2. \A q \in named : IsPath(q)
  <2>1. <<"topic">> \in Seq({"topic"}) /\ <<"instruction_text">> \in Seq({"instruction_text"})
    OBVIOUS
  <2>2. IsPath(<<"topic">>) /\ IsPath(<<"instruction_text">>)
    BY <2>1, SequenceIsPath
  <2> QED BY <2>2
<1>3. \A q \in renamed : IsPath(q)
  <2>1. Elements(t, <<"pairs">>) \subseteq DOMAIN t
    BY DEF Elements, Children
  <2> QED BY <2>1, AppendIsPath DEF Paths
<1>4. DOMAIN root = named /\ DOMAIN right = renamed
  <2> HIDE DEF named, renamed
  <2> QED OBVIOUS
<1> HIDE DEF root, right, named, renamed
<1>5. Paths(root) /\ Paths(right)
  BY <1>2, <1>3, <1>4 DEF Paths
<1> QED BY <1>1, <1>5, OverlayPaths

-----------------------------------------------------------------------------
(* What holds a value.  A structure hangs together when each of its values *)
(* is in an object or in an array.                                         *)

\* A path is what holds it and its last key,
LEMMA ParentMeans ==
    ASSUME NEW p \in Seq(STRING) \ {<<>>}
    PROVE  /\ Parent(p) \in Seq(STRING) /\ Key(p) \in STRING /\ p = Append(Parent(p), Key(p))
           /\ Len(p) = Len(Parent(p)) + 1 /\ Parent(p) # p /\ Within(Parent(p), p)
<1>1. Len(p) \in Nat /\ Len(p) > 0 /\ Len(p) - 1 \in Nat
  BY EmptySeq
<1>2. /\ Parent(p) \in Seq(STRING) /\ Len(Parent(p)) = Len(p) - 1
      /\ \A i \in 1..(Len(p) - 1) : Parent(p)[i] = p[i]
  <2>1. PICK n \in Nat : n = Len(p) - 1 /\ n \in Int /\ 1 \in Int
    BY <1>1
  <2>2. \A i \in 1..n : p[i] \in STRING
    BY <1>1, <2>1
  <2>3. /\ SubSeq(p, 1, n) \in Seq(STRING)
        /\ Len(SubSeq(p, 1, n)) = IF 1 <= n THEN n - 1 + 1 ELSE 0
        /\ \A i \in 1..(n - 1 + 1) : SubSeq(p, 1, n)[i] = p[1 + i - 1]
    BY <2>1, <2>2, SubSeqProperties
  <2>4. Parent(p) = SubSeq(p, 1, n)
    BY <2>1 DEF Parent
  <2>5. Len(SubSeq(p, 1, n)) = n /\ \A i \in 1..n : SubSeq(p, 1, n)[i] = p[i]
    BY <2>1, <2>3
  <2> QED BY <2>1, <2>3, <2>4, <2>5
<1>3. Key(p) \in STRING
  BY <1>1 DEF Key
<1>4. p = Append(Parent(p), Key(p))
  <2>1. /\ Append(Parent(p), Key(p)) \in Seq(STRING)
        /\ Len(Append(Parent(p), Key(p))) = Len(p)
        /\ \A i \in 1..(Len(p) - 1) : Append(Parent(p), Key(p))[i] = p[i]
        /\ Append(Parent(p), Key(p))[Len(p)] = Key(p)
    BY <1>1, <1>2, <1>3, AppendProperties
  <2>2. \A i \in 1..Len(p) : Append(Parent(p), Key(p))[i] = p[i]
    BY <1>1, <2>1 DEF Key
  <2> QED BY <2>1, <2>2, SeqEqual
<1>5. Len(p) = Len(Parent(p)) + 1 /\ Parent(p) # p
  BY <1>1, <1>2
<1>6. Within(Parent(p), p)
  BY <1>1, <1>2 DEF Within, Parent
<1> QED BY <1>2, <1>3, <1>4, <1>5, <1>6
\* and the other way round.
LEMMA ChildMeans ==
    ASSUME NEW p \in Seq(STRING), NEW k \in STRING
    PROVE  /\ Append(p, k) \in Seq(STRING) \ {<<>>}
           /\ Parent(Append(p, k)) = p /\ Key(Append(p, k)) = k
           /\ Len(Append(p, k)) = Len(p) + 1 /\ Within(p, Append(p, k))
<1>1. Append(p, k) \in Seq(STRING) /\ Append(p, k) # <<>> /\ Len(Append(p, k)) = Len(p) + 1
  BY AppendProperties
<1>2. Append(p, k) = Append(Parent(Append(p, k)), Key(Append(p, k)))
      /\ Parent(Append(p, k)) \in Seq(STRING) /\ Key(Append(p, k)) \in STRING
  BY <1>1, ParentMeans
<1>3. Parent(Append(p, k)) = p /\ Key(Append(p, k)) = k
  <2>1. PICK x \in Seq(STRING), y \in STRING :
           x = Parent(Append(p, k)) /\ y = Key(Append(p, k)) /\ Append(p, k) = Append(x, y)
    BY <1>2
  <2>2. /\ Len(Append(p, k)) = Len(p) + 1 /\ Append(p, k)[Len(p) + 1] = k
        /\ \A i \in 1..Len(p) : Append(p, k)[i] = p[i]
        /\ Len(Append(x, y)) = Len(x) + 1 /\ Append(x, y)[Len(x) + 1] = y
        /\ \A i \in 1..Len(x) : Append(x, y)[i] = x[i]
    <3>1. IsPath(p) /\ IsPath(x)
      BY SequenceIsPath
    <3>2. /\ IsPath(Append(p, k)) /\ Within(p, Append(p, k))
          /\ IsPath(Append(x, y)) /\ Within(x, Append(x, y))
      BY <3>1, WithinAppend
    <3>3. /\ Len(Append(p, k)) = Len(p) + 1 /\ Append(p, k)[Len(p) + 1] = k
          /\ Len(Append(x, y)) = Len(x) + 1 /\ Append(x, y)[Len(x) + 1] = y
      BY <3>1, WithinAppend
    <3> QED BY <3>1, <3>2, <3>3, WithinMeans
  <2>3. Len(p) \in Nat /\ Len(x) \in Nat
    OBVIOUS
  <2>5. Len(p) + 1 = Len(x) + 1
    BY <2>1, <2>2
  <2>6. Len(p) = Len(x)
    BY <2>3, <2>5
  <2>7. \A i \in 1..Len(p) : p[i] = x[i]
    BY <2>1, <2>2, <2>6
  <2>8. p = x
    BY <2>6, <2>7, SeqEqual
  <2>4. p = x /\ k = y
    BY <2>1, <2>2, <2>6, <2>8
  <2> QED BY <2>1, <2>4
<1>4. Within(p, Append(p, k))
  BY <1>1, <1>3, ParentMeans
<1> QED BY <1>1, <1>3, <1>4
\* What a path is below, what holds it is that or below it too.
LEMMA AboveMeans ==
    ASSUME NEW p \in Seq(STRING) \ {<<>>}, NEW x, IsPath(x), Within(x, p), x # p
    PROVE  Within(x, Parent(p))
<1>1. /\ IsPath(p) /\ IsPath(Parent(p)) /\ Within(Parent(p), p)
      /\ Len(p) = Len(Parent(p)) + 1
  BY ParentMeans, SequenceIsPath
<1>2. Len(x) \in Nat /\ Len(p) \in Nat /\ Len(Parent(p)) \in Nat
  BY <1>1 DEF IsPath
<1>3. Len(x) <= Len(p)
  BY DEF Within
<1>4. Len(x) # Len(p)
  <2>1. SubSeq(p, 1, Len(p)) = p
    OBVIOUS
  <2> QED BY <2>1 DEF Within
<1>5. Len(x) <= Len(Parent(p))
  BY <1>1, <1>2, <1>3, <1>4
<1> QED BY <1>1, <1>5, WithinBoth
\* Nothing but the whole holds the whole.
LEMMA WithinRoot ==
    ASSUME NEW p, IsPath(p), Within(p, <<>>) PROVE p = <<>>
<1>1. Len(p) \in Nat /\ Len(p) <= 0
  BY DEF IsPath, Within
<1>2. PICK S : p \in Seq(S)
  BY DEF IsPath
<1> QED BY <1>1, <1>2, EmptySeq

\* The position of a key of an array is one of its positions.
LEMMA PositionMeans ==
    ASSUME NEW k \in IndexKeys
    PROVE  /\ Position(k) \in DOMAIN Indices /\ Indices[Position(k)] = k
           /\ DOMAIN Indices = 1..Len(Indices) /\ Len(Indices) \in Nat
           /\ Position(k) \in Nat
           /\ \A i \in 1..Position(k) : Indices[i] \in STRING \cap IndexKeys
<1>1. PICK i \in DOMAIN Indices : Indices[i] = k
  BY DEF IndexKeys
<1>2. Position(k) \in DOMAIN Indices /\ Indices[Position(k)] = k
  BY <1>1 DEF Position
<1>0. Indices \in Seq(STRING)
  BY TextAssumption
<1>3. DOMAIN Indices = 1..Len(Indices) /\ Len(Indices) \in Nat
  BY <1>0
<1>4. \A j \in 1..Position(k) : j \in DOMAIN Indices
  BY <1>2, <1>3
<1>5. \A j \in DOMAIN Indices : Indices[j] \in STRING
  BY <1>0
<1> QED BY <1>2, <1>3, <1>4, <1>5 DEF IndexKeys

\* What is above a value of a structure is an object or an array.
IsHolder(t, p) == p \in DOMAIN t /\ t[p] \in {"{}", "[]"}
\* So is what holds it,
LEMMA HangsOnHolder ==
    ASSUME NEW t, Hangs(t), NEW p \in DOMAIN t \ {<<>>}
    PROVE  IsHolder(t, Parent(p)) /\ p \in Seq(STRING) \ {<<>>}
<1>1. HasPlace(t, p) /\ p \in Seq(STRING) \ {<<>>}
  BY DEF Hangs
<1>2. IsRecord(t, Parent(p)) \/ IsArray(t, Parent(p))
  BY <1>1 DEF HasPlace
<1>3. IsHolder(t, Parent(p))
  BY <1>2, Zenon DEF IsHolder, IsRecord, IsArray, Has
<1> QED BY <1>1, <1>3
\* and all that holds that.
LEMMA AboveIsHolder ==
    ASSUME NEW t, Hangs(t), NEW q \in DOMAIN t, NEW p, IsPath(p), Within(p, q), p # q
    PROVE  IsHolder(t, p)
<1> DEFINE Bad == {x \in DOMAIN t : Within(p, x) /\ p # x}
           N == {Len(x) : x \in Bad}
<1> SUFFICES ASSUME ~IsHolder(t, p) PROVE FALSE
  OBVIOUS
<1>1. DOMAIN t \subseteq Seq(STRING)
  BY DEF Hangs
<1>2. N \in SUBSET Nat /\ N # {}
  <2>1. q \in Bad
    OBVIOUS
  <2>2. \A x \in Bad : Len(x) \in Nat
    BY <1>1
  <2> HIDE DEF Bad
  <2> QED BY <2>1, <2>2
<1> HIDE DEF N
<1>3. \E m \in N : \A n \in N : m <= n
  BY <1>2, LeastNatural
<1>4. PICK x \in Bad : \A y \in Bad : Len(x) <= Len(y)
  BY <1>3 DEF N
<1>5. x # <<>> /\ x \in DOMAIN t /\ Within(p, x) /\ p # x
  BY <1>4, WithinRoot
<1>6. IsHolder(t, Parent(x)) /\ x \in Seq(STRING) \ {<<>>}
  BY <1>5, HangsOnHolder
<1>7. Within(p, Parent(x))
  BY <1>5, <1>6, AboveMeans
<1>8. Parent(x) # p
  BY <1>6
<1>9. Parent(x) \in Bad
  BY <1>6, <1>7, <1>8 DEF IsHolder
<1>10. Len(x) <= Len(Parent(x))
  BY <1>4, <1>9
<1>11. Parent(x) \in Seq(STRING) /\ Len(x) = Len(Parent(x)) + 1
  BY <1>6, ParentMeans
<1>12. Len(Parent(x)) \in Nat
  BY <1>11
<1> HIDE DEF Bad
<1> QED BY <1>10, <1>11, <1>12

-----------------------------------------------------------------------------
(* Overlays that keep a structure together. *)

\* What is written into a structure has a place there, or is in something that is
\* written with it, and no object takes the place of an array.
Joins(t, u) ==
    /\ DOMAIN u \subseteq Seq(STRING) \ {<<>>} /\ IsFiniteSet(DOMAIN u)
    /\ \A q \in DOMAIN u :
         /\ IF Has(u, Parent(q)) THEN IsHolder(u, Parent(q)) => HasPlace(u, q) ELSE HasPlace(t, q)
         /\ IsHolder(u, q) /\ IsHolder(t, q) => t[q] = u[q]

\* A value is where nothing is below.
LEMMA OverlayMeans ==
    ASSUME NEW t, NEW u
    PROVE  /\ \A o : o \in DOMAIN Overlay(t, u) <=>
                  /\ o \in DOMAIN t \cup DOMAIN u
                  /\ \A p \in DOMAIN u : IsHolder(u, p) \/ p = o \/ ~Within(p, o)
           /\ \A q \in DOMAIN Overlay(t, u) :
                  Overlay(t, u)[q] = IF q \in DOMAIN u THEN u[q] ELSE t[q]
<1> DEFINE values == {p \in DOMAIN u : u[p] \notin {"{}", "[]"}}
           D == {o \in DOMAIN t \cup DOMAIN u : ~\E p \in values : p # o /\ Within(p, o)}
<1>1. Overlay(t, u) = [q \in D |-> IF q \in DOMAIN u THEN u[q] ELSE t[q]]
  BY Zenon DEF Overlay, Has
<1>2. \A p : p \in values <=> p \in DOMAIN u /\ ~IsHolder(u, p)
  BY Zenon DEF IsHolder
<1> HIDE DEF values
<1>3. \A o : o \in D <=> /\ o \in DOMAIN t \cup DOMAIN u
                         /\ \A p \in DOMAIN u : IsHolder(u, p) \/ p = o \/ ~Within(p, o)
  BY <1>2, Zenon
<1> HIDE DEF D
<1> QED BY <1>1, <1>3

\* What holds a value that is left is left with it.
LEMMA OverlayLeaves ==
    ASSUME NEW t, NEW u, DOMAIN t \cup DOMAIN u \subseteq Seq(STRING),
           NEW q \in DOMAIN Overlay(t, u) \ {<<>>}, Parent(q) \in DOMAIN t \cup DOMAIN u
    PROVE  /\ Parent(q) \in DOMAIN Overlay(t, u)
           /\ Parent(q) \in DOMAIN u => IsHolder(u, Parent(q))
<1>0. \A o : o \in DOMAIN Overlay(t, u) <=>
                  /\ o \in DOMAIN t \cup DOMAIN u
                  /\ \A p \in DOMAIN u : IsHolder(u, p) \/ p = o \/ ~Within(p, o)
  BY OverlayMeans
<1>1. q \in DOMAIN t \cup DOMAIN u
  BY <1>0
<1>2. q \in Seq(STRING) \ {<<>>}
  BY <1>1
<1>3. Parent(q) \in Seq(STRING) /\ Within(Parent(q), q) /\ Parent(q) # q
  BY <1>2, ParentMeans
<1>4. ASSUME NEW x \in DOMAIN u, ~IsHolder(u, x), Within(x, Parent(q)) PROVE FALSE
  <2>1. x \in Seq(STRING)
    OBVIOUS
  <2>2. IsPath(x) /\ IsPath(q) /\ IsPath(Parent(q))
    BY <1>2, <1>3, <2>1, SequenceIsPath
  <2>3. Within(x, q)
    BY <1>3, <1>4, <2>2, WithinChain
  <2>4. x # q
    <3>1. Len(Parent(q)) \in Nat /\ Len(q) = Len(Parent(q)) + 1 /\ Len(x) <= Len(Parent(q))
      BY <1>2, <1>3, <1>4, ParentMeans DEF Within
    <3> QED BY <3>1
  <2> QED BY <1>0, <1>4, <2>3, <2>4
<1>5. Within(Parent(q), Parent(q))
  BY <1>3, SequenceIsPath, WithinItself
<1>6. Parent(q) \in DOMAIN Overlay(t, u)
  BY <1>0, <1>4
<1>7. Parent(q) \in DOMAIN u => IsHolder(u, Parent(q))
  BY <1>4, <1>5
<1> QED BY <1>6, <1>7

\* So a structure still hangs together.
LEMMA OverlayHangs ==
    ASSUME NEW t, Hangs(t), NEW u, Joins(t, u)
    PROVE  Hangs(Overlay(t, u)) /\ Overlay(t, u)[<<>>] = t[<<>>]
<1> DEFINE v == Overlay(t, u)
<1>1. DOMAIN t \cup DOMAIN u \subseteq Seq(STRING) /\ IsFiniteSet(DOMAIN t \cup DOMAIN u)
  BY FS_Union DEF Hangs, Joins
<1>2. DOMAIN v \in SUBSET (DOMAIN t \cup DOMAIN u)
  BY OverlayMeans
<1>3. DOMAIN v \subseteq Seq(STRING) /\ IsFiniteSet(DOMAIN v)
  BY <1>1, <1>2, FS_Subset
<1>6. \A q \in DOMAIN v : v[q] = IF q \in DOMAIN u THEN u[q] ELSE t[q]
  BY OverlayMeans
<1> HIDE DEF v
<1>4. <<>> \in DOMAIN v /\ v[<<>>] = t[<<>>]
  <2>1. <<>> \in DOMAIN t /\ <<>> \notin DOMAIN u
    BY DEF Hangs, Joins
  <2>2. \A x \in DOMAIN u : IsPath(x)
    BY <1>1, SequenceIsPath
  <2>3. \A x \in DOMAIN u : ~Within(x, <<>>)
    BY <2>1, <2>2, WithinRoot
  <2>4. <<>> \in DOMAIN v
    BY <2>1, <2>3, OverlayMeans DEF v
  <2> QED BY <2>1, <2>4, <1>6
<1>5. ASSUME NEW q \in DOMAIN v \ {<<>>} PROVE HasPlace(v, q)
  <2> DEFINE o == Parent(q)
  <2>1. q \in DOMAIN t \cup DOMAIN u
    BY <1>2
  <2>2. ASSUME o \in DOMAIN v, NEW w, o \in DOMAIN w, v[o] = w[o], HasPlace(w, q)
        PROVE  HasPlace(v, q)
    <3>1. (IsRecord(w, o) => IsRecord(v, o)) /\ (IsArray(w, o) => IsArray(v, o))
      BY <2>2, Zenon DEF IsRecord, IsArray, Has
    <3> QED BY <2>2, <3>1, Zenon DEF HasPlace
  <2>3. o \in DOMAIN t \cup DOMAIN u => /\ o \in DOMAIN v
                                        /\ o \in DOMAIN u => IsHolder(u, o)
    BY <1>1, <1>5, OverlayLeaves DEF v
  <2>4. \A w : HasPlace(w, q) => IsHolder(w, o)
    BY Zenon DEF HasPlace, IsRecord, IsArray, IsHolder, Has
  <2>5. CASE q \in DOMAIN u /\ o \in DOMAIN u
    <3>1. IsHolder(u, o) /\ o \in DOMAIN v
      BY <2>3, <2>5
    <3>2. HasPlace(u, q)
      BY <2>5, <3>1 DEF Joins, Has
    <3>3. v[o] = u[o]
      BY <2>5, <3>1, <1>6
    <3> QED BY <2>2, <2>5, <3>1, <3>2, <3>3
  <2>6. CASE q \in DOMAIN u /\ o \notin DOMAIN u
    <3>1. HasPlace(t, q)
      BY <2>6 DEF Joins, Has
    <3>2. o \in DOMAIN t /\ o \in DOMAIN v
      BY <2>3, <2>4, <3>1 DEF IsHolder
    <3>3. v[o] = t[o]
      BY <2>6, <3>2, <1>6
    <3> QED BY <2>2, <3>1, <3>2, <3>3
  <2>7. CASE q \notin DOMAIN u
    <3>1. q \in DOMAIN t \ {<<>>}
      BY <2>1, <2>7
    <3>2. HasPlace(t, q) /\ IsHolder(t, o)
      BY <2>4, <3>1 DEF Hangs
    <3>3. o \in DOMAIN t /\ o \in DOMAIN v
      BY <2>3, <3>2 DEF IsHolder
    <3>4. v[o] = t[o]
      <4>1. CASE o \in DOMAIN u
        <5>1. IsHolder(u, o)
          BY <2>3, <4>1
        <5>2. t[o] = u[o]
          BY <3>2, <4>1, <5>1 DEF Joins
        <5> QED BY <3>3, <4>1, <5>2, <1>6
      <4>2. CASE o \notin DOMAIN u
        BY <3>3, <4>2, <1>6
      <4> QED BY <4>1, <4>2
    <3> QED BY <2>2, <3>2, <3>3, <3>4
  <2> QED BY <2>5, <2>6, <2>7
<1> QED BY <1>3, <1>4, <1>5 DEF Hangs, v

\* An array loses its elements together.
LEMMA OverlayIsGapless ==
    ASSUME NEW t, NEW u, DOMAIN t \cup DOMAIN u \subseteq Seq(STRING),
           Gapless(DOMAIN t \cup DOMAIN u)
    PROVE  Gapless(DOMAIN Overlay(t, u))
<1> SUFFICES ASSUME NEW p \in DOMAIN Overlay(t, u) \ {<<>>}, Key(p) \in IndexKeys,
                    NEW i \in 1..Position(Key(p))
             PROVE  Append(Parent(p), Indices[i]) \in DOMAIN Overlay(t, u)
  BY DEF Gapless
<1> DEFINE s == Append(Parent(p), Indices[i])
<1>0. \A o : o \in DOMAIN Overlay(t, u) <=>
                  /\ o \in DOMAIN t \cup DOMAIN u
                  /\ \A x \in DOMAIN u : IsHolder(u, x) \/ x = o \/ ~Within(x, o)
  BY OverlayMeans
<1>1. p \in (DOMAIN t \cup DOMAIN u) \ {<<>>}
  BY <1>0
<1>2. s \in DOMAIN t \cup DOMAIN u
  BY <1>1 DEF Gapless
<1>3. p \in Seq(STRING) \ {<<>>} /\ Parent(p) \in Seq(STRING) /\ Indices[i] \in STRING
  BY <1>1, ParentMeans, PositionMeans
<1>4. s \in Seq(STRING) \ {<<>>} /\ Parent(s) = Parent(p)
  BY <1>3, ChildMeans
<1> HIDE DEF s
<1>5. ASSUME NEW x \in DOMAIN u, ~IsHolder(u, x), x # s, Within(x, s) PROVE FALSE
  <2>1. IsPath(x) /\ IsPath(p) /\ IsPath(Parent(p)) /\ Within(Parent(p), p)
    BY <1>3, SequenceIsPath, ParentMeans
  <2>2. Within(x, Parent(p))
    BY <1>4, <1>5, <2>1, AboveMeans
  <2>3. Within(x, p)
    BY <2>1, <2>2, WithinChain
  <2>4. x # p
    <3>1. Len(Parent(p)) \in Nat /\ Len(p) = Len(Parent(p)) + 1 /\ Len(x) <= Len(Parent(p))
      BY <1>3, <2>2, ParentMeans DEF Within
    <3> QED BY <3>1
  <2> QED BY <1>0, <1>5, <2>3, <2>4
<1>6. s \in DOMAIN Overlay(t, u)
  BY <1>0, <1>2, <1>5
<1> QED BY <1>6 DEF s

-----------------------------------------------------------------------------
(* What keeps a structure together, and its arrays without gaps. *)

KeepsTree(t, v) ==
    /\ Hangs(v) /\ (IsRecord(t, <<>>) => IsRecord(v, <<>>))
    /\ Gapless(DOMAIN t) => Gapless(DOMAIN v)
\* One function after the other keeps it.
LEMMA KeepsChain ==
    ASSUME NEW t, NEW u, NEW v, KeepsTree(t, u), KeepsTree(u, v) PROVE KeepsTree(t, v)
BY DEF KeepsTree
\* The root stays where it was.
LEMMA SameRoot ==
    ASSUME NEW t, NEW v, <<>> \in DOMAIN v, v[<<>>] = t[<<>>]
    PROVE  IsRecord(t, <<>>) => IsRecord(v, <<>>)
BY Zenon DEF IsRecord, Has

\* Fields with a name: each in an object, none an array, and no object where
\* there is an array.
AddsFields(t, u) ==
    /\ DOMAIN u \subseteq Seq(STRING) \ {<<>>} /\ IsFiniteSet(DOMAIN u)
    /\ \A q \in DOMAIN u :
         /\ Key(q) \notin IndexKeys /\ u[q] # "[]"
         /\ Parent(q) \in DOMAIN u \/ IsRecord(t, Parent(q))
         /\ u[q] = "{}" => ~IsArray(t, q)
\* Fields leave no gap.
LEMMA NamesLeaveNoGap ==
    ASSUME NEW D, NEW E, \A q \in E \ {<<>>} : Key(q) \notin IndexKeys, Gapless(D)
    PROVE  Gapless(D \cup E)
BY DEF Gapless
\* Fields written keep a structure together.
LEMMA FieldsKeepTree ==
    ASSUME NEW t, Hangs(t), NEW u, AddsFields(t, u)
    PROVE  KeepsTree(t, Overlay(t, u))
<1>1. ASSUME NEW q \in DOMAIN u, Has(u, Parent(q)), IsHolder(u, Parent(q)) PROVE HasPlace(u, q)
  <2>1. Key(q) \notin IndexKeys /\ u[Parent(q)] # "[]"
    BY <1>1 DEF AddsFields, Has
  <2>2. IsRecord(u, Parent(q))
    BY <1>1, <2>1, Zenon DEF IsRecord, IsHolder
  <2> QED BY <2>1, <2>2, Zenon DEF HasPlace
<1>2. ASSUME NEW q \in DOMAIN u, ~Has(u, Parent(q)) PROVE HasPlace(t, q)
  BY <1>2, Zenon DEF AddsFields, Has, HasPlace
<1>3. ASSUME NEW q \in DOMAIN u, IsHolder(u, q), IsHolder(t, q) PROVE t[q] = u[q]
  <2>1. u[q] # "[]" /\ (u[q] = "{}" => ~IsArray(t, q))
    BY Zenon DEF AddsFields
  <2> QED BY <1>3, <2>1, Zenon DEF IsHolder, IsArray, Has
<1>4. DOMAIN u \subseteq Seq(STRING) \ {<<>>} /\ IsFiniteSet(DOMAIN u)
      /\ \A q \in DOMAIN u : Key(q) \notin IndexKeys
  BY Zenon DEF AddsFields
<1>5. Joins(t, u)
  BY <1>1, <1>2, <1>3, <1>4, Zenon DEF Joins
<1>6. Hangs(Overlay(t, u)) /\ Overlay(t, u)[<<>>] = t[<<>>]
  BY <1>5, OverlayHangs
<1>7. ASSUME Gapless(DOMAIN t) PROVE Gapless(DOMAIN Overlay(t, u))
  <2>1. Gapless(DOMAIN t \cup DOMAIN u)
    BY <1>4, <1>7, NamesLeaveNoGap
  <2>2. DOMAIN t \cup DOMAIN u \subseteq Seq(STRING)
    BY <1>4 DEF Hangs
  <2> QED BY <2>1, <2>2, OverlayIsGapless
<1>8. IsRecord(t, <<>>) => IsRecord(Overlay(t, u), <<>>)
  BY <1>6, SameRoot DEF Hangs
<1> QED BY <1>6, <1>7, <1>8, Zenon DEF KeepsTree

\* Taking parts out,
LEMMA PruneHangs ==
    ASSUME NEW t, Hangs(t), NEW P, P \subseteq Seq(STRING) \ {<<>>}
    PROVE  /\ Hangs(Prune(t, P)) /\ Prune(t, P)[<<>>] = t[<<>>]
           /\ \A q \in DOMAIN Prune(t, P) : Prune(t, P)[q] = t[q]
           /\ \A q : q \in DOMAIN Prune(t, P) <=> q \in DOMAIN t /\ \A p \in P : ~Within(p, q)
<1> DEFINE v == Prune(t, P)
<1>1. \A q : q \in DOMAIN v <=> q \in DOMAIN t /\ \A p \in P : ~Within(p, q)
  BY DEF Prune
<1>2. \A q \in DOMAIN v : v[q] = t[q]
  BY DEF Prune
<1> HIDE DEF v
<1>3. DOMAIN t \subseteq Seq(STRING) /\ IsFiniteSet(DOMAIN t) /\ <<>> \in DOMAIN t
  BY DEF Hangs
<1>4. DOMAIN v \in SUBSET DOMAIN t
  BY <1>1
<1>5. DOMAIN v \subseteq Seq(STRING) /\ IsFiniteSet(DOMAIN v)
  BY <1>3, <1>4, FS_Subset
<1>6. <<>> \in DOMAIN v
  <2>1. \A p \in P : IsPath(p) /\ p # <<>>
    BY SequenceIsPath
  <2> QED BY <1>1, <1>3, <2>1, WithinRoot
<1>7. ASSUME NEW q \in DOMAIN v \ {<<>>} PROVE HasPlace(v, q)
  <2>1. q \in DOMAIN t \ {<<>>} /\ q \in Seq(STRING) \ {<<>>}
    BY <1>4, <1>5
  <2>2. IsHolder(t, Parent(q)) /\ HasPlace(t, q)
    BY <2>1, HangsOnHolder DEF Hangs
  <2>3. IsPath(q) /\ IsPath(Parent(q)) /\ Within(Parent(q), q)
    BY <2>1, ParentMeans, SequenceIsPath
  <2>4. \A p \in P : ~Within(p, Parent(q))
    <3>1. \A p \in P : IsPath(p)
      BY SequenceIsPath
    <3> QED BY <1>1, <2>3, <3>1, WithinChain
  <2>5. Parent(q) \in DOMAIN v /\ v[Parent(q)] = t[Parent(q)]
    BY <1>1, <1>2, <2>2, <2>4 DEF IsHolder
  <2> QED BY <2>2, <2>5, Zenon DEF HasPlace, IsRecord, IsArray, Has
<1>8. Hangs(v)
  BY <1>5, <1>6, <1>7 DEF Hangs
<1> QED BY <1>1, <1>2, <1>6, <1>8 DEF v
\* and fields with all they hold,
LEMMA PruneKeepsTree ==
    ASSUME NEW t, Hangs(t), NEW P, P \subseteq Seq(STRING) \ {<<>>},
           \A p \in P : Key(p) \notin IndexKeys
    PROVE  KeepsTree(t, Prune(t, P))
<1> DEFINE v == Prune(t, P)
<1>1. /\ Hangs(v) /\ v[<<>>] = t[<<>>]
      /\ \A q : q \in DOMAIN v <=> q \in DOMAIN t /\ \A p \in P : ~Within(p, q)
  BY PruneHangs
<1> HIDE DEF v
<1>2. IsRecord(t, <<>>) => IsRecord(v, <<>>)
  BY <1>1, SameRoot DEF Hangs
<1>3. ASSUME Gapless(DOMAIN t) PROVE Gapless(DOMAIN v)
  <2> SUFFICES ASSUME NEW q \in DOMAIN v \ {<<>>}, Key(q) \in IndexKeys,
                      NEW i \in 1..Position(Key(q))
               PROVE  Append(Parent(q), Indices[i]) \in DOMAIN v
    BY DEF Gapless
  <2> DEFINE s == Append(Parent(q), Indices[i])
  <2>1. q \in DOMAIN t \ {<<>>} /\ q \in Seq(STRING) \ {<<>>}
    BY <1>1 DEF Hangs
  <2>2. s \in DOMAIN t
    BY <1>3, <2>1 DEF Gapless
  <2>3. Indices[i] \in STRING \cap IndexKeys /\ Parent(q) \in Seq(STRING)
    BY <2>1, PositionMeans, ParentMeans
  <2>4. s \in Seq(STRING) \ {<<>>} /\ Parent(s) = Parent(q) /\ Key(s) \in IndexKeys
    BY <2>3, ChildMeans
  <2> HIDE DEF s
  <2>5. ASSUME NEW p \in P, Within(p, s) PROVE FALSE
    <3>1. IsPath(p) /\ IsPath(q) /\ IsPath(Parent(q)) /\ Within(Parent(q), q)
      BY <2>1, SequenceIsPath, ParentMeans
    <3>2. p # s
      BY <2>4
    <3>3. Within(p, Parent(q))
      BY <2>4, <2>5, <3>1, <3>2, AboveMeans
    <3>4. Within(p, q)
      BY <3>1, <3>3, WithinChain
    <3> QED BY <1>1, <3>4
  <2>6. s \in DOMAIN v
    BY <1>1, <2>2, <2>5
  <2> QED BY <2>6 DEF s
<1> QED BY <1>1, <1>2, <1>3, Zenon DEF KeepsTree, v

\* a value alone
LEMMA LeafHangs ==
    ASSUME NEW x PROVE IsTree(Leaf(x)) /\ DOMAIN Leaf(x) = {<<>>} /\ Leaf(x)[<<>>] = x
<1>1. DOMAIN Leaf(x) = {<<>>} /\ Leaf(x)[<<>>] = x
  BY DEF Leaf
<1>2. <<>> \in Seq(STRING) /\ IsFiniteSet({<<>>})
  <2>1. <<>> \in Seq(STRING)
    OBVIOUS
  <2>2. \A y : IsFiniteSet({y})
    BY FS_Singleton
  <2> QED BY <2>1, <2>2
<1>3. Hangs(Leaf(x))
  <2>1. DOMAIN Leaf(x) \ {<<>>} = {}
    BY <1>1
  <2>2. DOMAIN Leaf(x) \subseteq Seq(STRING) /\ IsFiniteSet(DOMAIN Leaf(x)) /\ <<>> \in DOMAIN Leaf(x)
    BY <1>1, <1>2
  <2> QED BY <2>1, <2>2, Zenon DEF Hangs
<1>4. Gapless(DOMAIN Leaf(x))
  BY <1>1 DEF Gapless
<1> QED BY <1>1, <1>3, <1>4 DEF IsTree

\* Keys behind a path, and before another.
LEMMA ConcatMeans ==
    ASSUME NEW p \in Seq(STRING), NEW r \in Seq(STRING)
    PROVE  /\ p \o r \in Seq(STRING) /\ Len(p \o r) = Len(p) + Len(r) /\ Within(p, p \o r)
           /\ SubSeq(p \o r, Len(p) + 1, Len(p \o r)) = r
           /\ r = <<>> => p \o r = p
           /\ r # <<>> => p \o r # <<>> /\ Parent(p \o r) = p \o Parent(r) /\ Key(p \o r) = Key(r)
<1>1. /\ p \o r \in Seq(STRING) /\ Len(p \o r) = Len(p) + Len(r)
      /\ Len(p) \in Nat /\ Len(r) \in Nat
      /\ \A i \in 1..Len(p) : (p \o r)[i] = p[i]
      /\ \A i \in 1..Len(r) : (p \o r)[Len(p) + i] = r[i]
  OBVIOUS
<1>2. Within(p, p \o r)
  BY SequenceIsPath, WithinConcat
<1>3. SubSeq(p \o r, Len(p) + 1, Len(p \o r)) = r
  BY <1>1
<1>4. r = <<>> => p \o r = p
  OBVIOUS
<1>5. ASSUME r # <<>> PROVE p \o r # <<>> /\ Parent(p \o r) = p \o Parent(r) /\ Key(p \o r) = Key(r)
  <2>1. Parent(r) \in Seq(STRING) /\ Key(r) \in STRING /\ r = Append(Parent(r), Key(r))
    BY <1>5, ParentMeans
  <2>2. p \o Append(Parent(r), Key(r)) = Append(p \o Parent(r), Key(r)) /\ p \o Parent(r) \in Seq(STRING)
    BY <2>1
  <2>3. p \o r = Append(p \o Parent(r), Key(r))
    BY <2>1, <2>2
  <2>4. \A x \in Seq(STRING), k \in STRING :
           Append(x, k) # <<>> /\ Parent(Append(x, k)) = x /\ Key(Append(x, k)) = k
    BY ChildMeans
  <2>5. PICK x \in Seq(STRING), k \in STRING :
           x = p \o Parent(r) /\ k = Key(r) /\ p \o r = Append(x, k)
    BY <2>1, <2>2, <2>3
  <2>6. Append(x, k) # <<>> /\ Parent(Append(x, k)) = x /\ Key(Append(x, k)) = k
    BY <2>4
  <2>7. p \o r # <<>> /\ Parent(p \o r) = x /\ Key(p \o r) = k
    BY <2>5, <2>6, Zenon
  <2> QED BY <2>5, <2>7, Zenon
<1> QED BY <1>1, <1>2, <1>3, <1>4, <1>5
\* What is within a path is that path and more.
LEMMA RestMeans ==
    ASSUME NEW p \in Seq(STRING), NEW q \in Seq(STRING), Within(p, q)
    PROVE  LET r == SubSeq(q, Len(p) + 1, Len(q)) IN r \in Seq(STRING) /\ p \o r = q
<1> DEFINE r == SubSeq(q, Len(p) + 1, Len(q))
<1>1. Len(p) \in Nat /\ Len(q) \in Nat /\ Len(p) <= Len(q) /\ SubSeq(q, 1, Len(p)) = p
  BY DEF Within
<1>2. r \in Seq(STRING) /\ Len(r) = Len(q) - Len(p) /\ Len(r) \in Nat
      /\ \A i \in 1..Len(r) : r[i] = q[Len(p) + i]
  BY <1>1
<1> HIDE DEF r
<1>3. \A i \in 1..Len(p) : q[i] = p[i]
  BY <1>1, SequenceIsPath, WithinMeans
<1>4. /\ p \o r \in Seq(STRING) /\ Len(p \o r) = Len(q)
      /\ \A i \in 1..Len(p) : (p \o r)[i] = p[i]
      /\ \A i \in 1..Len(r) : (p \o r)[Len(p) + i] = r[i]
  BY <1>1, <1>2
<1>5. ASSUME NEW i \in 1..Len(q) PROVE (p \o r)[i] = q[i]
  <2>1. CASE i <= Len(p)
    BY <1>1, <1>3, <1>4, <2>1
  <2>2. CASE i > Len(p)
    <3>1. PICK j \in 1..Len(r) : i = Len(p) + j
      <4>1. PICK m \in Nat, n \in Nat, l \in Nat : m = Len(p) /\ n = Len(q) /\ l = Len(r) /\ l = n - m
        BY <1>1, <1>2
      <4>2. i \in 1..n /\ i > m
        BY <2>2, <4>1
      <4>3. i - m \in 1..l /\ i = m + (i - m)
        BY <4>1, <4>2
      <4> QED BY <4>1, <4>3
    <3> QED BY <1>2, <1>4, <3>1
  <2>3. Len(p) \in Nat /\ i \in Nat
    BY <1>1
  <2>4. i <= Len(p) \/ i > Len(p)
    BY <2>3
  <2> QED BY <2>1, <2>2, <2>4, Zenon
<1>6. p \o r = q
  BY <1>4, <1>5, SeqEqual
<1> QED BY <1>2, <1>6 DEF r

\* a part on its own,
LEMMA SubtreeHangs ==
    ASSUME NEW t, Hangs(t), NEW p \in DOMAIN t
    PROVE  /\ Hangs(Subtree(t, p)) /\ Subtree(t, p)[<<>>] = t[p]
           /\ Gapless(DOMAIN t) => Gapless(DOMAIN Subtree(t, p))
           /\ \A r : r \in DOMAIN Subtree(t, p) <=> r \in Seq(STRING) /\ p \o r \in DOMAIN t
           /\ \A r \in DOMAIN Subtree(t, p) : Subtree(t, p)[r] = t[p \o r]
<1> DEFINE v == Subtree(t, p)
           rest(q) == SubSeq(q, Len(p) + 1, Len(q))
<1>0. DOMAIN t \subseteq Seq(STRING) /\ IsFiniteSet(DOMAIN t) /\ p \in Seq(STRING)
  BY DEF Hangs
<1>1. DOMAIN v = {rest(q) : q \in Below(t, p)} /\ \A r \in DOMAIN v : v[r] = t[p \o r]
  BY DEF Subtree
<1>2. ASSUME NEW q \in Below(t, p)
      PROVE  q \in DOMAIN t /\ rest(q) \in Seq(STRING) /\ p \o rest(q) = q
  <2>1. q \in DOMAIN t /\ q \in Seq(STRING) /\ Within(p, q)
    BY <1>0 DEF Below
  <2> QED BY <1>0, <2>1, RestMeans
<1>3. ASSUME NEW r \in Seq(STRING), p \o r \in DOMAIN t PROVE r \in DOMAIN v
  <2>1. p \o r \in Below(t, p) /\ rest(p \o r) = r
    BY <1>0, <1>3, ConcatMeans DEF Below
  <2> QED BY <1>1, <2>1
<1>4. \A r : r \in DOMAIN v <=> r \in Seq(STRING) /\ p \o r \in DOMAIN t
  BY <1>1, <1>2, <1>3
<1>5. IsFiniteSet(DOMAIN v)
  <2>1. IsFiniteSet(Below(t, p))
    BY <1>0, FS_Subset DEF Below
  <2> DEFINE f == [q \in Below(t, p) |-> rest(q)]
  <2>2. f \in Surjection(Below(t, p), DOMAIN v)
    BY <1>1 DEF Surjection
  <2> QED BY <2>1, <2>2, FS_Surjection
<1> HIDE DEF v
<1>6. <<>> \in DOMAIN v /\ v[<<>>] = t[p]
  <2>1. <<>> \in Seq(STRING) /\ p \o <<>> = p
    BY <1>0
  <2> QED BY <1>1, <1>4, <2>1
<1>7. ASSUME NEW r \in DOMAIN v \ {<<>>}
      PROVE  /\ r \in Seq(STRING) \ {<<>>} /\ p \o r \in DOMAIN t \ {<<>>}
             /\ Parent(p \o r) = p \o Parent(r) /\ Key(p \o r) = Key(r) /\ Parent(r) \in Seq(STRING)
  <2>1. r \in Seq(STRING) \ {<<>>} /\ p \o r \in DOMAIN t
    BY <1>4
  <2> QED BY <1>0, <2>1, ConcatMeans, ParentMeans
<1>8. ASSUME NEW r \in DOMAIN v \ {<<>>} PROVE HasPlace(v, r)
  <2>1. HasPlace(t, p \o r) /\ IsHolder(t, Parent(p \o r))
    BY <1>7, HangsOnHolder DEF Hangs
  <2>2. Parent(r) \in DOMAIN v /\ v[Parent(r)] = t[Parent(p \o r)]
    BY <1>1, <1>4, <1>7, <2>1 DEF IsHolder
  <2>3. Key(p \o r) = Key(r)
    BY <1>7
  <2> QED BY <2>1, <2>2, <2>3, Zenon DEF HasPlace, IsRecord, IsArray, Has
<1>9. Hangs(v)
  BY <1>4, <1>5, <1>6, <1>8 DEF Hangs
<1>10. ASSUME Gapless(DOMAIN t) PROVE Gapless(DOMAIN v)
  <2> SUFFICES ASSUME NEW r \in DOMAIN v \ {<<>>}, Key(r) \in IndexKeys,
                      NEW i \in 1..Position(Key(r))
               PROVE  Append(Parent(r), Indices[i]) \in DOMAIN v
    BY DEF Gapless
  <2>1. Append(Parent(p \o r), Indices[i]) \in DOMAIN t
    BY <1>7, <1>10 DEF Gapless
  <2>2. Indices[i] \in STRING
    BY PositionMeans
  <2>3. Append(p \o Parent(r), Indices[i]) = p \o Append(Parent(r), Indices[i])
        /\ Append(Parent(r), Indices[i]) \in Seq(STRING)
    <3>1. Parent(r) \in Seq(STRING)
      BY <1>7
    <3> QED BY <1>0, <2>2, <3>1
  <2> QED BY <1>4, <1>7, <2>1, <2>3
<1> QED BY <1>1, <1>4, <1>6, <1>9, <1>10 DEF v

\* and a part set where there is a place for it.  A new element of an array may
\* leave a gap before it.
LEMMA PutHangs ==
    ASSUME NEW t, Hangs(t), NEW p \in Seq(STRING), CanSet(t, p), NEW v, Hangs(v)
    PROVE  /\ Hangs(Put(t, p, v)) /\ Put(t, p, v)[<<>>] = t[<<>>]
           /\ Gapless(DOMAIN t) /\ Gapless(DOMAIN v) /\ (Has(t, p) \/ Key(p) \notin IndexKeys)
                  => Gapless(DOMAIN Put(t, p, v))
<1> DEFINE w == Prune(t, {p})
           u == [q \in {p \o r : r \in DOMAIN v} |-> v[SubSeq(q, Len(p) + 1, Len(q))]]
<1>0. Put(t, p, v) = Overlay(w, u)
  BY DEF Put
<1>1. p \in Seq(STRING) \ {<<>>} /\ HasPlace(t, p) /\ IsPath(p)
  BY SequenceIsPath DEF CanSet
<1>2. /\ Hangs(w) /\ w[<<>>] = t[<<>>] /\ \A q \in DOMAIN w : w[q] = t[q]
      /\ \A q : q \in DOMAIN w <=> q \in DOMAIN t /\ ~Within(p, q)
  <2>1. {p} \subseteq Seq(STRING) \ {<<>>}
    BY <1>1
  <2> QED BY <2>1, PruneHangs
<1>3. DOMAIN v \subseteq Seq(STRING) /\ IsFiniteSet(DOMAIN v) /\ <<>> \in DOMAIN v
  BY DEF Hangs
<1>4. DOMAIN u = {p \o r : r \in DOMAIN v}
  OBVIOUS
<1>5. ASSUME NEW r \in DOMAIN v
      PROVE  /\ p \o r \in Seq(STRING) \ {<<>>} /\ p \o r \in DOMAIN u /\ u[p \o r] = v[r]
             /\ Within(p, p \o r)
             /\ r = <<>> => p \o r = p
             /\ r # <<>> => /\ Parent(p \o r) = p \o Parent(r) /\ Key(p \o r) = Key(r)
                            /\ Parent(r) \in Seq(STRING) /\ Key(r) \in STRING
  <2>1. r \in Seq(STRING)
    BY <1>3
  <2>2. /\ p \o r \in Seq(STRING) /\ Within(p, p \o r)
        /\ SubSeq(p \o r, Len(p) + 1, Len(p \o r)) = r
        /\ r = <<>> => p \o r = p
        /\ r # <<>> => p \o r # <<>> /\ Parent(p \o r) = p \o Parent(r) /\ Key(p \o r) = Key(r)
    BY <2>1, ConcatMeans
  <2>3. p \o r \in DOMAIN u /\ u[p \o r] = v[r]
    BY <1>4, <2>2
  <2>4. r # <<>> => Parent(r) \in Seq(STRING) /\ Key(r) \in STRING
    BY <2>1, ParentMeans
  <2>5. p \o r # <<>>
    BY <1>1, <2>2
  <2> QED BY <2>2, <2>3, <2>4, <2>5
<1>6. IsFiniteSet(DOMAIN u)
  <2> DEFINE f == [r \in DOMAIN v |-> p \o r]
  <2>1. f \in Surjection(DOMAIN v, DOMAIN u)
    BY <1>4 DEF Surjection
  <2> QED BY <1>3, <2>1, FS_Surjection
<1> HIDE DEF u
<1>7. ASSUME NEW q \in DOMAIN u PROVE \E r \in DOMAIN v : q = p \o r
  BY <1>4
<1>8. \A q \in DOMAIN u : Within(p, q) /\ q \in Seq(STRING) \ {<<>>}
  <2> SUFFICES ASSUME NEW q \in DOMAIN u PROVE Within(p, q) /\ q \in Seq(STRING) \ {<<>>}
    OBVIOUS
  <2>1. PICK r \in DOMAIN v : q = p \o r
    BY <1>7
  <2>2. Within(p, p \o r) /\ p \o r \in Seq(STRING) \ {<<>>}
    BY <1>5
  <2> QED BY <2>1, <2>2, Zenon
<1>9. p \in DOMAIN u
  BY <1>3, <1>5
<1>10. /\ Parent(p) \in Seq(STRING) /\ ~Within(p, Parent(p)) /\ Within(Parent(p), p)
       /\ IsPath(Parent(p))
  <2>1. Parent(p) \in Seq(STRING) /\ Len(p) = Len(Parent(p)) + 1 /\ Within(Parent(p), p)
    BY <1>1, ParentMeans
  <2>2. Len(Parent(p)) \in Nat /\ ~(Len(p) <= Len(Parent(p)))
    BY <2>1
  <2> QED BY <2>1, <2>2, SequenceIsPath DEF Within
<1>11. Joins(w, u)
  <2>1. ASSUME NEW q \in DOMAIN u
        PROVE  IF Has(u, Parent(q)) THEN IsHolder(u, Parent(q)) => HasPlace(u, q)
               ELSE HasPlace(w, q)
    <3>1. PICK r \in DOMAIN v : q = p \o r
      BY <1>7
    <3>2. CASE r = <<>>
      <4>1. q = p /\ ~Has(u, Parent(p))
        BY <1>5, <1>8, <1>10, <3>1, <3>2 DEF Has
      <4>2. IsRecord(t, Parent(p)) \/ IsArray(t, Parent(p))
        BY <1>1 DEF HasPlace
      <4>3. Parent(p) \in DOMAIN t
        BY <4>2, Zenon DEF IsRecord, IsArray, Has
      <4>4. Parent(p) \in DOMAIN w /\ w[Parent(p)] = t[Parent(p)]
        BY <1>2, <1>10, <4>3
      <4>5. HasPlace(w, p)
        BY <1>1, <4>3, <4>4, Zenon DEF HasPlace, IsRecord, IsArray, Has
      <4> QED BY <4>1, <4>5
    <3>3. CASE r # <<>>
      <4>1. HasPlace(v, r) /\ IsHolder(v, Parent(r))
        BY <3>3, HangsOnHolder DEF Hangs
      <4>2. Parent(r) \in DOMAIN v
        BY <4>1 DEF IsHolder
      <4>3. Parent(q) = p \o Parent(r) /\ Key(q) = Key(r)
        BY <1>5, <3>1, <3>3
      <4>4. Parent(q) \in DOMAIN u /\ u[Parent(q)] = v[Parent(r)]
        BY <1>5, <4>2, <4>3
      <4>5. HasPlace(u, q)
        BY <4>1, <4>3, <4>4, Zenon DEF HasPlace, IsRecord, IsArray, Has
      <4> QED BY <4>4, <4>5 DEF Has
    <3> QED BY <3>2, <3>3
  <2>2. ASSUME NEW q \in DOMAIN u PROVE ~IsHolder(w, q)
    BY <1>2, <1>8 DEF IsHolder
  <2> QED BY <1>6, <1>8, <2>1, <2>2 DEF Joins
<1>12. Hangs(Put(t, p, v)) /\ Put(t, p, v)[<<>>] = t[<<>>]
  <2>1. Hangs(Overlay(w, u)) /\ Overlay(w, u)[<<>>] = w[<<>>]
    BY <1>2, <1>11, OverlayHangs
  <2> QED BY <1>0, <1>2, <2>1
<1>13. ASSUME Gapless(DOMAIN t), Gapless(DOMAIN v), Has(t, p) \/ Key(p) \notin IndexKeys
       PROVE  Gapless(DOMAIN Put(t, p, v))
  <2>1. DOMAIN w \cup DOMAIN u \subseteq Seq(STRING) /\ DOMAIN t \subseteq Seq(STRING)
    BY <1>2, <1>8 DEF Hangs
  <2>2. ASSUME NEW q \in (DOMAIN w \cup DOMAIN u) \ {<<>>}, Key(q) \in IndexKeys,
               NEW i \in 1..Position(Key(q))
        PROVE  Append(Parent(q), Indices[i]) \in DOMAIN w \cup DOMAIN u
    <3> DEFINE s == Append(Parent(q), Indices[i])
    <3>1. q \in Seq(STRING) \ {<<>>} /\ Indices[i] \in STRING
      BY <2>1, <2>2, PositionMeans
    <3>2. /\ Parent(q) \in Seq(STRING) /\ Within(Parent(q), q) /\ IsPath(q) /\ IsPath(Parent(q))
      BY <3>1, ParentMeans, SequenceIsPath
    <3>3. s \in Seq(STRING) \ {<<>>} /\ Parent(s) = Parent(q)
      BY <3>1, <3>2, ChildMeans
    <3>4. ASSUME q \in DOMAIN t, q = p \/ ~Within(p, q) PROVE s \in DOMAIN w \cup DOMAIN u
      <4>1. s \in DOMAIN t
        BY <1>13, <2>2, <3>4 DEF Gapless
      <4>2. ASSUME Within(p, s), s # p PROVE FALSE
        <5>1. Within(p, Parent(s))
          BY <1>1, <3>3, <4>2, AboveMeans
        <5>2. Within(p, Parent(q)) /\ q # p
          BY <1>10, <3>3, <5>1
        <5>3. Within(p, q)
          BY <1>1, <3>2, <5>2, WithinChain
        <5> QED BY <3>4, <5>2, <5>3
      <4>3. ~Within(p, s) => s \in DOMAIN w
        BY <1>2, <4>1
      <4> QED BY <1>9, <4>2, <4>3
    <3> HIDE DEF s
    <3>5. CASE q \in DOMAIN w
      BY <1>2, <3>4, <3>5 DEF s
    <3>6. CASE q = p
      <4>1. q \in DOMAIN t
        BY <1>13, <2>2, <3>6 DEF Has
      <4> QED BY <3>4, <3>6, <4>1 DEF s
    <3>7. CASE q \in DOMAIN u /\ q # p
      <4>1. PICK r \in DOMAIN v : q = p \o r
        BY <1>7, <3>7
      <4>2. /\ r # <<>> /\ Parent(q) = p \o Parent(r) /\ Key(q) = Key(r)
            /\ Parent(r) \in Seq(STRING)
        BY <1>5, <3>7, <4>1
      <4>3. Append(Parent(r), Indices[i]) \in DOMAIN v
        BY <1>13, <2>2, <4>2 DEF Gapless
      <4>4. p \o Append(Parent(r), Indices[i]) = Append(p \o Parent(r), Indices[i])
        BY <3>1, <4>2
      <4>5. p \o Append(Parent(r), Indices[i]) \in DOMAIN u
        BY <1>5, <4>3
      <4> QED BY <4>2, <4>4, <4>5
    <3> QED BY <3>5, <3>6, <3>7 DEF s
  <2>3. Gapless(DOMAIN w \cup DOMAIN u)
    BY <2>2 DEF Gapless
  <2>4. Gapless(DOMAIN Overlay(w, u))
    BY <2>1, <2>3, OverlayIsGapless
  <2> QED BY <1>0, <2>4
<1> QED BY <1>12, <1>13

-----------------------------------------------------------------------------
(* The names the code writes, and the labels it gives them.                *)

\* None of its names is a position.
LEMMA OwnNamesAreNames ==
    \A k \in {"imageQuery", "image_name", "imageUrl", "assetUrl", "signedUrl", "assetId",
              "userUploadedKey", "userUploadedImages", "left_image", "right_image",
              "left_imageQuery", "right_imageQuery", "topic", "instruction_text", "name",
              "question", "text", "pairs", "number"} : k \in STRING \ IndexKeys
<1>1. OwnNames \subseteq STRING \ IndexKeys
  BY LabelAssumption, Zenon
<1>2. {"left_image", "right_image", "left_imageQuery", "right_imageQuery"} \subseteq OwnNames
  <2>1. PairImage["left"] = "left_image" /\ PairImage["right"] = "right_image"
    BY DEF PairImage, PairSides
  <2>2. PairAlias["left"] = "left_imageQuery" /\ PairAlias["right"] = "right_imageQuery"
    BY DEF PairAlias, PairSides
  <2>3. /\ PairImage["left"] \in OwnNames /\ PairImage["right"] \in OwnNames
        /\ PairAlias["left"] \in OwnNames /\ PairAlias["right"] \in OwnNames
    BY DEF OwnNames, PairSides
  <2> QED BY <2>1, <2>2, <2>3
<1>3. {"imageQuery", "image_name"} \subseteq OwnNames
  <2>1. 1 \in DOMAIN AliasKeys /\ 2 \in DOMAIN AliasKeys
        /\ AliasKeys[1] = "imageQuery" /\ AliasKeys[2] = "image_name"
    BY DEF AliasKeys
  <2>2. AliasKeys[1] \in OwnNames /\ AliasKeys[2] \in OwnNames
    BY <2>1 DEF OwnNames
  <2> QED BY <2>1, <2>2
<1>4. {"imageUrl", "assetUrl", "signedUrl", "assetId", "userUploadedKey", "userUploadedImages",
       "topic", "instruction_text", "name", "question", "text", "pairs", "number"} \subseteq OwnNames
  BY DEF OwnNames, TransientKeys, EnrichmentKeys
<1>5. ASSUME NEW k \in OwnNames PROVE k \in STRING \ IndexKeys
  BY <1>1
<1> QED BY <1>1, <1>2, <1>3, <1>4
\* The fields of a pair have names.
LEMMA PairNames ==
    \A s \in PairSides : /\ PairImage[s] \in STRING \ IndexKeys
                         /\ PairAlias[s] \in STRING \ IndexKeys
                         /\ PairImage[s] # "imageQuery" /\ PairImage[s] # "image_name"
<1>1. PairImage["left"] = "left_image" /\ PairImage["right"] = "right_image"
  BY DEF PairImage, PairSides
<1>2. PairAlias["left"] = "left_imageQuery" /\ PairAlias["right"] = "right_imageQuery"
  BY DEF PairAlias, PairSides
<1> QED BY <1>1, <1>2, OwnNamesAreNames DEF PairSides
\* Nor has a field that is not stored a position for its name.
LEMMA TransientNames == TransientKeys \cap IndexKeys = {}
BY OwnNamesAreNames DEF TransientKeys

\* A text is not the label of an object or of an array,
LEMMA TextIsNoHolder ==
    ASSUME NEW t, NEW p, t[p] \in Text \cup Assets \cup UploadKeys \cup {"null"}
    PROVE  ~IsHolder(t, p)
<1>1. {"{}", "[]"} \cap (Text \cup Assets \cup UploadKeys) = {}
  BY LabelAssumption, Zenon
<1>2. "null" # "{}" /\ "null" # "[]"
  BY Zenon
<1> QED BY <1>1, <1>2, Zenon DEF IsHolder
\* nor of nothing.
LEMMA TextIsThere ==
    ASSUME NEW t, NEW p, NEW k, Field(t, p, k) \in Text \cup Assets \cup UploadKeys \cup {"null"}
    PROVE  Has(t, Append(p, k)) /\ t[Append(p, k)] = Field(t, p, k)
<1>1. "absent" \notin Text \cup Assets \cup UploadKeys
  BY LabelAssumption, Zenon
<1>2. "absent" # "null"
  OBVIOUS
<1>3. Field(t, p, k) # "absent"
  BY <1>1, <1>2
<1> QED BY <1>3 DEF Field
\* What is labelled as an object holds something.
LEMMA RecordMeans ==
    ASSUME NEW t, NEW p
    PROVE  IsRecord(t, p) <=> p \in DOMAIN t /\ t[p] = "{}"
BY Zenon DEF IsRecord, Has

\* What a file name says is a text,
LEMMA WordedIsText == \A x \in FileNames : Worded[x] \in Text
<1>1. Worded \in [FileNames -> Phrases \cup {""}]
  BY TextAssumption, Zenon
<1>2. Phrases \cup {""} \subseteq Text
  BY Zenon DEF Text
<1> DEFINE W == Phrases \cup {""}
<1>3. Worded \in [FileNames -> W] /\ W \subseteq Text
  BY <1>1, <1>2
<1> HIDE DEF W
<1> QED BY <1>3
\* so every query is one.
LEMMA VisualQueryIsText == \A t, p : VisualQuery(t, p) \in Text
<1> SUFFICES ASSUME NEW t, NEW p PROVE VisualQuery(t, p) \in Text
  OBVIOUS
<1>1. ASSUME NEW S, AliasesIn(t, p, S) # {} PROVE FirstAlias(t, p, S) \in S
  <2>1. AliasesIn(t, p, S) \in SUBSET Nat
    BY DEF AliasesIn, AliasKeys
  <2>2. \E m \in AliasesIn(t, p, S) : \A n \in AliasesIn(t, p, S) : m <= n
    BY <1>1, <2>1, LeastNatural
  <2> DEFINE i == CHOOSE m \in AliasesIn(t, p, S) : \A n \in AliasesIn(t, p, S) : m <= n
  <2>3. i \in AliasesIn(t, p, S)
    BY <2>2
  <2>4. FirstAlias(t, p, S) = Field(t, p, AliasKeys[i])
    BY DEF FirstAlias
  <2> HIDE DEF i
  <2> QED BY <2>3, <2>4 DEF AliasesIn
<1>2. Descriptions \subseteq Text
  BY Zenon DEF Descriptions, Text
<1>3. \A x \in FileNames : Worded[x] \in Text
  BY WordedIsText
<1>4. CASE AliasesIn(t, p, Descriptions) # {}
  <2>1. VisualQuery(t, p) = FirstAlias(t, p, Descriptions)
    BY <1>4, Zenon DEF VisualQuery
  <2> QED BY <1>1, <1>2, <1>4, <2>1
<1>5. CASE AliasesIn(t, p, Descriptions) = {} /\ AliasesIn(t, p, FileNames) # {}
  <2>1. VisualQuery(t, p) = Worded[FirstAlias(t, p, FileNames)]
    BY <1>5, Zenon DEF VisualQuery
  <2> QED BY <1>1, <1>3, <1>5, <2>1
<1>6. CASE AliasesIn(t, p, Descriptions) = {} /\ AliasesIn(t, p, FileNames) = {}
  <2>1. VisualQuery(t, p) = ""
    BY <1>6, Zenon DEF VisualQuery
  <2> QED BY <2>1, Zenon DEF Text
<1> QED BY <1>4, <1>5, <1>6, Zenon

-----------------------------------------------------------------------------
(* Fields written into objects.                                            *)

\* Six keys are finitely many.
LEMMA SixAreFinite == \A a, b, c, d, e, f : IsFiniteSet({a, b, c, d, e, f})
<1> SUFFICES ASSUME NEW a, NEW b, NEW c, NEW d, NEW e, NEW f
             PROVE  IsFiniteSet({a, b, c, d, e, f})
  OBVIOUS
<1>1. IsFiniteSet({a})
  BY FS_Singleton
<1>2. IsFiniteSet({a} \cup {b})
  BY <1>1, FS_AddElement
<1>3. IsFiniteSet({a} \cup {b} \cup {c})
  BY <1>2, FS_AddElement
<1>4. IsFiniteSet({a} \cup {b} \cup {c} \cup {d})
  BY <1>3, FS_AddElement
<1>5. IsFiniteSet({a} \cup {b} \cup {c} \cup {d} \cup {e})
  BY <1>4, FS_AddElement
<1>6. IsFiniteSet({a} \cup {b} \cup {c} \cup {d} \cup {e} \cup {f})
  BY <1>5, FS_AddElement
<1>7. {a} \cup {b} \cup {c} \cup {d} \cup {e} \cup {f} = {a, b, c, d, e, f}
  OBVIOUS
<1> QED BY <1>6, <1>7
\* The fields of some objects.
FieldsOf(P, K) == {Append(x[1], x[2]) : x \in P \X K}
\* Finitely many keys in finitely many objects are finitely many fields.
LEMMA FieldsAreFinite ==
    ASSUME NEW P, IsFiniteSet(P), NEW K, IsFiniteSet(K) PROVE IsFiniteSet(FieldsOf(P, K))
<1> DEFINE E == FieldsOf(P, K)
           f == [x \in P \X K |-> Append(x[1], x[2])]
<1>1. IsFiniteSet(P \X K)
  BY FS_Product
<1>2. ASSUME NEW e \in E PROVE \E x \in P \X K : f[x] = e
  BY DEF FieldsOf
<1>3. \A x \in P \X K : f[x] \in E
  BY DEF FieldsOf
<1> HIDE DEF E
<1>4. f \in [P \X K -> E]
  BY <1>3
<1>5. f \in Surjection(P \X K, E)
  BY <1>2, <1>4, Zenon DEF Surjection
<1>6. IsFiniteSet(E)
  BY <1>1, <1>5, FS_Surjection
<1> QED BY <1>6 DEF E
\* Values written under names into objects keep a structure together.
LEMMA ValuesKeepTree ==
    ASSUME NEW t, Hangs(t), NEW u, IsFiniteSet(DOMAIN u),
           \A q \in DOMAIN u : /\ q \in Seq(STRING) \ {<<>>} /\ Key(q) \notin IndexKeys
                               /\ IsRecord(t, Parent(q)) /\ ~IsHolder(u, q)
    PROVE  KeepsTree(t, Overlay(t, u))
<1>1. \A q \in DOMAIN u : u[q] # "[]" /\ u[q] # "{}"
  BY Zenon DEF IsHolder
<1>2. DOMAIN u \subseteq Seq(STRING) \ {<<>>}
  OBVIOUS
<1>3. AddsFields(t, u)
  BY <1>1, <1>2, Zenon DEF AddsFields
<1> QED BY <1>3, FieldsKeepTree
\* What a field of some objects is.
LEMMA FieldsOfMeans ==
    ASSUME NEW P, NEW K
    PROVE  /\ \A p \in P, k \in K : Append(p, k) \in FieldsOf(P, K)
           /\ P \subseteq Seq(STRING) /\ K \subseteq STRING =>
                  \A q \in FieldsOf(P, K) : /\ q \in Seq(STRING) \ {<<>>}
                                            /\ Parent(q) \in P /\ Key(q) \in K
<1>1. ASSUME NEW p \in P, NEW k \in K PROVE Append(p, k) \in FieldsOf(P, K)
  <2>1. <<p, k>> \in P \X K /\ <<p, k>>[1] = p /\ <<p, k>>[2] = k
    OBVIOUS
  <2> QED BY <2>1 DEF FieldsOf
<1>2. ASSUME P \subseteq Seq(STRING), K \subseteq STRING, NEW q \in FieldsOf(P, K)
      PROVE  q \in Seq(STRING) \ {<<>>} /\ Parent(q) \in P /\ Key(q) \in K
  <2>1. PICK x \in P \X K : q = Append(x[1], x[2])
    BY DEF FieldsOf
  <2>2. x[1] \in P /\ x[2] \in K /\ x[1] \in Seq(STRING) /\ x[2] \in STRING
    BY <1>2
  <2> QED BY <2>1, <2>2, ChildMeans
<1> QED BY <1>1, <1>2
\* Values in the fields of some objects keep a structure together.
LEMMA FieldsOfKeepTree ==
    ASSUME NEW t, Hangs(t), NEW P, \A p \in P : IsRecord(t, p),
           NEW K, IsFiniteSet(K), K \subseteq STRING \ IndexKeys,
           NEW u, DOMAIN u \subseteq FieldsOf(P, K), \A q \in DOMAIN u : ~IsHolder(u, q)
    PROVE  KeepsTree(t, Overlay(t, u))
<1>1. P \in SUBSET DOMAIN t
  BY Zenon DEF IsRecord, Has
<1>2. IsFiniteSet(DOMAIN t) /\ DOMAIN t \subseteq Seq(STRING)
  BY DEF Hangs
<1>3. IsFiniteSet(P)
  BY <1>1, <1>2, FS_Subset
<1>4. IsFiniteSet(DOMAIN u)
  <2>1. IsFiniteSet(FieldsOf(P, K))
    BY <1>3, FieldsAreFinite
  <2>2. DOMAIN u \in SUBSET FieldsOf(P, K)
    OBVIOUS
  <2> QED BY <2>1, <2>2, FS_Subset
<1>5. ASSUME NEW q \in DOMAIN u
      PROVE  q \in Seq(STRING) \ {<<>>} /\ Key(q) \notin IndexKeys /\ IsRecord(t, Parent(q))
  <2>0. q \in FieldsOf(P, K)
    OBVIOUS
  <2>1. P \subseteq Seq(STRING) /\ K \subseteq STRING
    BY <1>1, <1>2
  <2>2. q \in Seq(STRING) \ {<<>>} /\ Parent(q) \in P /\ Key(q) \in K
    BY <2>0, <2>1, FieldsOfMeans
  <2> QED BY <2>2
<1> QED BY <1>4, <1>5, ValuesKeepTree

-----------------------------------------------------------------------------
(* The code's own functions keep a structure together.                     *)

\* A structure is one of its own.
LEMMA KeepsItself == ASSUME NEW t, Hangs(t) PROVE KeepsTree(t, t)
BY DEF KeepsTree

\* Taking out the fields that are not stored,
LEMMA StripKeepsTree == ASSUME NEW t, Hangs(t) PROVE KeepsTree(t, StripTransient(t))
<1> DEFINE P == {p \in DOMAIN t : p # <<>> /\ Key(p) \in TransientKeys}
<1>1. StripTransient(t) = Prune(t, P)
  BY DEF StripTransient
<1>2. P \subseteq Seq(STRING) \ {<<>>}
  BY DEF Hangs
<1>3. \A p \in P : Key(p) \notin IndexKeys
  BY TransientNames
<1> HIDE DEF P
<1> QED BY <1>1, <1>2, <1>3, PruneKeepsTree

\* the word that is taken out of texts,
LEMMA ValidatedKeepsTree == ASSUME NEW t, Hangs(t), NEW l PROVE KeepsTree(t, Validated(t, l))
<1> DEFINE v == StripLineart(t)
<1>1. DOMAIN v = DOMAIN t
  BY DEF StripLineart
<1>2. ASSUME NEW p \in DOMAIN t PROVE IsHolder(t, p) => v[p] = t[p]
  <2>1. {"{}", "[]"} \cap Phrases = {}
    BY LabelAssumption, Zenon DEF Text
  <2>2. IsHolder(t, p) => t[p] \notin Phrases
    BY <2>1, Zenon DEF IsHolder
  <2>3. t[p] \notin Phrases => v[p] = t[p]
    BY DEF StripLineart
  <2> QED BY <2>2, <2>3
<1> HIDE DEF v
<1>3. ASSUME NEW p PROVE (IsRecord(t, p) => IsRecord(v, p)) /\ (IsArray(t, p) => IsArray(v, p))
  <2>1. IsRecord(t, p) \/ IsArray(t, p) => p \in DOMAIN t /\ IsHolder(t, p)
    BY Zenon DEF IsHolder, IsRecord, IsArray, Has
  <2>2. p \in DOMAIN t /\ v[p] = t[p] =>
            (IsRecord(t, p) => IsRecord(v, p)) /\ (IsArray(t, p) => IsArray(v, p))
    BY <1>1, Zenon DEF IsRecord, IsArray, Has
  <2> QED BY <1>2, <2>1, <2>2
<1>4. Hangs(v)
  <2>1. \A p \in DOMAIN v \ {<<>>} : HasPlace(v, p)
    BY <1>1, <1>3 DEF Hangs, HasPlace
  <2> QED BY <1>1, <2>1 DEF Hangs
<1>5. KeepsTree(t, v)
  BY <1>1, <1>3, <1>4 DEF KeepsTree
<1> QED BY <1>5, KeepsItself DEF Validated, v

\* the queries that are written beside the names,
LEMMA AddQueriesKeepsTree == ASSUME NEW t, Hangs(t) PROVE KeepsTree(t, AddQueries(t))
<1> DEFINE wanting == {p \in DOMAIN t :
                       /\ t[p] = "{}" /\ Unskipped(p) /\ VisualQuery(t, p) # ""
                       /\ Field(t, p, "imageQuery") \notin Descriptions}
           D == {Append(p, "imageQuery") : p \in wanting}
           u == [q \in D |-> VisualQuery(t, Parent(q))]
           K == {"imageQuery"}
<1>1. AddQueries(t) = Overlay(t, u)
  BY Zenon DEF AddQueries
<1>2. \A p \in wanting : IsRecord(t, p)
  BY Zenon DEF IsRecord, Has
<1> HIDE DEF wanting
<1>3. DOMAIN u = D
  OBVIOUS
<1>4. \A q \in DOMAIN u : u[q] = VisualQuery(t, Parent(q))
  OBVIOUS
<1> HIDE DEF u
<1>5. \A q \in DOMAIN u : ~IsHolder(u, q)
  BY <1>4, VisualQueryIsText, TextIsNoHolder
<1>6. DOMAIN u \subseteq FieldsOf(wanting, K)
  <2>1. \A p \in wanting : Append(p, "imageQuery") \in FieldsOf(wanting, K)
    BY FieldsOfMeans
  <2> HIDE DEF K
  <2> QED BY <1>3, <2>1
<1>7. IsFiniteSet(K) /\ K \subseteq STRING \ IndexKeys
  BY OwnNamesAreNames, FS_Singleton
<1> HIDE DEF K
<1>8. KeepsTree(t, Overlay(t, u))
  BY <1>2, <1>5, <1>6, <1>7, FieldsOfKeepTree
<1> QED BY <1>1, <1>8

\* the picture all items of a grid share,
LEMMA MascotKeepsTree == ASSUME NEW t, Hangs(t) PROVE KeepsTree(t, UnifyMascot(t))
<1> DEFINE placed == {p \in Items(t) : \E k \in SharedKeys : Filled(t, p, k)}
           queried == {p \in Items(t) : VisualQuery(t, p) # ""}
           from == IF placed # {} THEN placed ELSE queried
           first == CHOOSE p \in from : \A q \in from : Position(Key(p)) <= Position(Key(q))
           query == IF Filled(t, first, "imageQuery") THEN Field(t, first, "imageQuery")
                    ELSE VisualQuery(t, first)
           keys == {k \in SharedKeys \cup {"image_name"} : Filled(t, first, k)}
                       \cup (IF query = "" THEN {} ELSE {"imageQuery"})
           D == {Append(p, k) : p \in Items(t), k \in keys}
           u == [q \in D |-> IF Key(q) = "imageQuery" THEN query ELSE Field(t, first, Key(q))]
           K == {"assetId", "imageUrl", "assetUrl", "signedUrl", "image_name", "imageQuery"}
<1>1. UnifyMascot(t) = IF ~IsBeforeAfter(t) \/ from = {} THEN t ELSE Overlay(t, u)
  BY DEF UnifyMascot
<1>2. \A p \in Items(t) : IsRecord(t, p)
  <2>1. \A p \in Items(t) : p \in DOMAIN t /\ t[p] = "{}"
    BY Zenon DEF Items, Elements, Children
  <2> QED BY <2>1, Zenon DEF IsRecord, Has
<1>3. query \in Text \cup Assets \cup UploadKeys
  <2>1. Filled(t, first, "imageQuery") => Field(t, first, "imageQuery") \in Text \cup Assets \cup UploadKeys
    BY Zenon DEF Filled, IsText
  <2> HIDE DEF first
  <2> QED BY <2>1, VisualQueryIsText
<1>4. \A k \in keys : k \in K /\ (k # "imageQuery" => Field(t, first, k) \in Text \cup Assets \cup UploadKeys)
  <2>1. \A k : Filled(t, first, k) => Field(t, first, k) \in Text \cup Assets \cup UploadKeys
    BY Zenon DEF Filled, IsText
  <2>2. \A k \in keys : k = "imageQuery" \/ (k \in SharedKeys \cup {"image_name"} /\ Filled(t, first, k))
    BY Zenon
  <2> HIDE DEF first, keys
  <2> QED BY <2>1, <2>2 DEF SharedKeys, TransientKeys
<1> HIDE DEF keys, first, query
<1>5. DOMAIN u = D
  OBVIOUS
<1>6. \A q \in DOMAIN u : u[q] = IF Key(q) = "imageQuery" THEN query ELSE Field(t, first, Key(q))
  OBVIOUS
<1> HIDE DEF u
<1>7. \A q \in DOMAIN u : \E p \in Items(t), k \in keys : q = Append(p, k)
  BY <1>5
<1> HIDE DEF D
<1>8. ASSUME NEW q \in DOMAIN u
      PROVE  ~IsHolder(u, q) /\ q \in FieldsOf(Items(t), K)
  <2>1. PICK p \in Items(t), k \in keys : q = Append(p, k)
    BY <1>7
  <2>2. k \in K /\ k \in STRING
    BY <1>4, OwnNamesAreNames
  <2>3. p \in Seq(STRING)
    <3>1. p \in DOMAIN t
      BY <1>2, RecordMeans
    <3> QED BY <3>1 DEF Hangs
  <2>4. Key(q) = k
    BY <2>1, <2>2, <2>3, ChildMeans
  <2>5. u[q] \in Text \cup Assets \cup UploadKeys
    BY <1>3, <1>4, <1>6, <2>4
  <2> HIDE DEF K
  <2> QED BY <2>1, <2>2, <2>5, TextIsNoHolder, FieldsOfMeans
<1>9. IsFiniteSet(K) /\ K \subseteq STRING \ IndexKeys
  BY OwnNamesAreNames, SixAreFinite
<1> HIDE DEF K
<1>10. KeepsTree(t, Overlay(t, u))
  <2>1. DOMAIN u \subseteq FieldsOf(Items(t), K) /\ \A q \in DOMAIN u : ~IsHolder(u, q)
    BY <1>8
  <2> QED BY <1>2, <1>9, <2>1, FieldsOfKeepTree
<1> HIDE DEF from
<1> QED BY <1>1, <1>10, KeepsItself

\* A value has nothing below it.
LEMMA NothingBelow ==
    ASSUME NEW t, Hangs(t), NEW p, IsPath(p), NEW q \in DOMAIN t, IsHolder(t, q),
           ~IsHolder(t, p)
    PROVE  ~Within(p, q)
BY AboveIsHolder
\* the queries that become a picture's,
LEMMA CoerceKeepsTree == ASSUME NEW t, Hangs(t) PROVE KeepsTree(t, CoercePairAliases(t))
<1> DEFINE stray == {x \in Pairs(t, PairAlias) :
                        Field(t, x[1], PairAlias[x[2]]) \in Text \ {""}}
           image(x) == Append(x[1], PairImage[x[2]])
           empty == {x \in stray :
                        \/ Field(t, x[1], PairImage[x[2]]) \in {"absent", "null", ""}
                        \/ IsRecord(t, image(x)) /\ VisualQuery(t, image(x)) = ""}
           asked == {Append(image(x), "imageQuery") : x \in empty}
           side(q) == CHOOSE s \in PairSides : q[Len(q) - 1] = PairImage[s]
           A == {Append(x[1], PairAlias[x[2]]) : x \in stray}
           I == {image(x) : x \in empty}
           a == Prune(t, A)
           b == [q \in I |-> "{}"]
           c == [q \in asked |-> Field(t, Parent(Parent(q)), PairAlias[side(q)])]
<1>1. CoercePairAliases(t) = Overlay(Overlay(a, b), c)
  BY DEF CoercePairAliases
<1>2. ASSUME NEW x \in stray
      PROVE  /\ x[1] \in Seq(STRING) /\ x[2] \in PairSides /\ IsRecord(t, x[1])
             /\ Field(t, x[1], PairAlias[x[2]]) \in Text
  <2>1. x \in (DOMAIN t) \X PairSides /\ t[x[1]] = "{}"
    BY Zenon DEF Pairs
  <2>2. x[1] \in DOMAIN t /\ x[2] \in PairSides
    BY <2>1
  <2>3. IsRecord(t, x[1])
    BY <2>1, <2>2, RecordMeans, Zenon
  <2>4. Field(t, x[1], PairAlias[x[2]]) \in Text
    BY Zenon
  <2>5. x[1] \in Seq(STRING)
    BY <2>2 DEF Hangs
  <2> QED BY <2>2, <2>3, <2>4, <2>5
<1>3. ASSUME NEW x \in empty
      PROVE  x \in stray /\ (Has(t, image(x)) => ~IsArray(t, image(x)))
  <2>1. Field(t, x[1], PairImage[x[2]]) \in {"absent", "null", ""} \/ IsRecord(t, image(x))
    BY Zenon
  <2>2. Has(t, image(x)) => Field(t, x[1], PairImage[x[2]]) = t[image(x)]
    BY Zenon DEF Field
  <2>3. IsArray(t, image(x)) => Has(t, image(x)) /\ t[image(x)] = "[]"
    BY Zenon DEF IsArray
  <2>4. "[]" \notin {"absent", "null", ""} /\ "[]" # "{}"
    BY Zenon
  <2>5. IsRecord(t, image(x)) => t[image(x)] = "{}"
    BY Zenon DEF IsRecord
  <2> QED BY <2>1, <2>2, <2>3, <2>4, <2>5, Zenon
<1> HIDE DEF stray
<1>4. ASSUME NEW p \in A
      PROVE  p \in Seq(STRING) \ {<<>>} /\ Key(p) \notin IndexKeys /\ p \in DOMAIN t /\ ~IsHolder(t, p)
  <2>1. PICK x \in stray : p = Append(x[1], PairAlias[x[2]])
    OBVIOUS
  <2>2. PairAlias[x[2]] \in STRING \ IndexKeys
    BY <1>2, PairNames
  <2>3. p \in Seq(STRING) \ {<<>>} /\ Key(p) = PairAlias[x[2]]
    BY <1>2, <2>1, <2>2, ChildMeans
  <2>4. p \in DOMAIN t /\ t[p] \in Text
    BY <1>2, <2>1, TextIsThere DEF Has
  <2> QED BY <2>2, <2>3, <2>4, TextIsNoHolder
<1> HIDE DEF A
<1>5. KeepsTree(t, a)
  <2>1. A \subseteq Seq(STRING) \ {<<>>} /\ \A p \in A : Key(p) \notin IndexKeys
    BY <1>4
  <2> QED BY <2>1, PruneKeepsTree
<1>6. /\ Hangs(a) /\ \A q \in DOMAIN a : q \in DOMAIN t /\ a[q] = t[q]
      /\ \A q \in DOMAIN t : (\A p \in A : ~Within(p, q)) => q \in DOMAIN a
  <2>1. A \subseteq Seq(STRING) \ {<<>>}
    BY <1>4
  <2> QED BY <2>1, PruneHangs
<1> HIDE DEF a
<1>7. ASSUME NEW x \in stray PROVE IsRecord(a, x[1])
  <2>1. x[1] \in DOMAIN t /\ IsRecord(t, x[1])
    BY <1>2, RecordMeans
  <2>2. IsHolder(t, x[1])
    BY <2>1, Zenon DEF IsRecord, IsHolder
  <2>3. \A p \in A : ~Within(p, x[1])
    <3>1. \A p \in A : IsPath(p) /\ ~IsHolder(t, p)
      BY <1>4, SequenceIsPath
    <3> QED BY <2>1, <2>2, <3>1, NothingBelow
  <2>4. x[1] \in DOMAIN a /\ a[x[1]] = t[x[1]]
    BY <1>6, <2>1, <2>3
  <2> QED BY <2>1, <2>4, RecordMeans, Zenon
<1>8. \A x \in empty : x \in stray
  BY <1>3
<1> HIDE DEF empty
<1>9. ASSUME NEW x \in empty
      PROVE  /\ x[1] \in Seq(STRING) /\ x[2] \in PairSides
             /\ PairImage[x[2]] \in STRING \ IndexKeys
             /\ image(x) \in Seq(STRING) \ {<<>>} /\ Parent(image(x)) = x[1]
             /\ Key(image(x)) = PairImage[x[2]] /\ IsRecord(a, x[1])
  <2>1. x[1] \in Seq(STRING) /\ x[2] \in PairSides /\ IsRecord(a, x[1])
    BY <1>2, <1>7, <1>8
  <2>2. PairImage[x[2]] \in STRING \ IndexKeys
    BY <2>1, PairNames
  <2> QED BY <2>1, <2>2, ChildMeans
<1>10. DOMAIN b = I /\ \A q \in I : b[q] = "{}"
  BY Zenon
<1>11. \A q \in I : \E x \in empty : q = image(x)
  OBVIOUS
<1>12. \A x \in empty : image(x) \in I
  OBVIOUS
<1> HIDE DEF b, I
<1>13. ASSUME NEW q \in I
       PROVE  /\ q \in Seq(STRING) \ {<<>>} /\ Key(q) \notin IndexKeys /\ IsRecord(a, Parent(q))
              /\ b[q] # "[]" /\ ~IsArray(a, q) /\ IsHolder(b, q)
              /\ Parent(q) \in DOMAIN t /\ Key(q) \in {PairImage[s] : s \in PairSides}
  <2>1. PICK x \in empty : q = image(x)
    BY <1>11
  <2>2. b[q] # "[]" /\ IsHolder(b, q)
    BY <1>10, Zenon DEF IsHolder
  <2>3. ~IsArray(a, q)
    <3>1. Has(t, q) => ~IsArray(t, q)
      BY <1>3, <2>1 DEF empty
    <3>2. q \in DOMAIN a => q \in DOMAIN t /\ a[q] = t[q]
      BY <1>6
    <3> QED BY <3>1, <3>2, Zenon DEF IsArray, Has
  <2>4. Parent(q) \in DOMAIN t /\ Key(q) \in {PairImage[s] : s \in PairSides}
    <3>1. x[1] \in DOMAIN t
      BY <1>2, <1>8, RecordMeans
    <3> QED BY <1>9, <2>1, <3>1
  <2>5. q \in Seq(STRING) \ {<<>>} /\ Key(q) \notin IndexKeys /\ IsRecord(a, Parent(q))
    BY <1>9, <2>1
  <2> QED BY <2>2, <2>3, <2>4, <2>5
<1>14. IsFiniteSet(I)
  <2> DEFINE K == {PairImage[s] : s \in PairSides}
  <2>1. IsFiniteSet(K)
    <3>1. K = {PairImage["left"], PairImage["right"], PairImage["left"],
               PairImage["left"], PairImage["left"], PairImage["left"]}
      BY DEF PairSides
    <3> HIDE DEF K
    <3> QED BY <3>1, SixAreFinite
  <2> HIDE DEF K
  <2>2. IsFiniteSet(FieldsOf(DOMAIN t, K))
    BY <2>1, FieldsAreFinite DEF Hangs
  <2>3. ASSUME NEW q \in I PROVE q \in FieldsOf(DOMAIN t, K)
    <3>1. q \in Seq(STRING) \ {<<>>} /\ Parent(q) \in DOMAIN t /\ Key(q) \in K
      BY <1>13 DEF K
    <3>2. q = Append(Parent(q), Key(q))
      BY <3>1, ParentMeans
    <3>3. Append(Parent(q), Key(q)) \in FieldsOf(DOMAIN t, K)
      BY <3>1, FieldsOfMeans
    <3> QED BY <3>2, <3>3
  <2>4. I \in SUBSET FieldsOf(DOMAIN t, K)
    BY <2>3
  <2> QED BY <2>2, <2>4, FS_Subset
<1> DEFINE ab == Overlay(a, b)
<1>15. KeepsTree(a, ab)
  <2>1. \A q \in I : /\ Key(q) \notin IndexKeys /\ b[q] # "[]" /\ IsRecord(a, Parent(q))
                     /\ ~IsArray(a, q)
    BY <1>13
  <2>2. I \subseteq Seq(STRING) \ {<<>>}
    BY <1>13
  <2>3. AddsFields(a, b)
    BY <1>10, <1>14, <2>1, <2>2, Zenon DEF AddsFields
  <2> QED BY <1>6, <2>3, FieldsKeepTree
<1>16. ASSUME NEW p \in I PROVE IsRecord(ab, p)
  <2>1. \A x \in DOMAIN b : IsHolder(b, x)
    BY <1>10, <1>13
  <2>2. p \in DOMAIN ab /\ ab[p] = b[p]
    BY <1>10, <2>1, OverlayMeans
  <2> QED BY <1>10, <2>2, Zenon DEF IsRecord, Has
<1> HIDE DEF ab
<1>17. ASSUME NEW x \in empty
       PROVE  LET q == Append(image(x), "imageQuery")
              IN  Parent(Parent(q)) = x[1] /\ side(q) = x[2]
  <2> DEFINE q == Append(image(x), "imageQuery")
  <2>0. "imageQuery" \in STRING
    BY OwnNamesAreNames
  <2>1. Parent(q) = image(x) /\ Len(q) = Len(image(x)) + 1 /\ Within(image(x), q)
        /\ q \in Seq(STRING)
    BY <1>9, <2>0, ChildMeans
  <2>2. Len(image(x)) \in Nat /\ Len(image(x)) # 0
    BY <1>9, EmptySeq
  <2>3. q[Len(image(x))] = image(x)[Len(image(x))]
    <3>1. IsPath(image(x)) /\ IsPath(q)
      BY <1>9, <2>1, SequenceIsPath
    <3>2. Len(image(x)) \in 1..Len(image(x))
      BY <2>2
    <3> HIDE DEF image, q
    <3> QED BY <2>1, <3>1, <3>2, WithinMeans
  <2>4. q[Len(q) - 1] = PairImage[x[2]]
    <3>1. Len(q) - 1 = Len(image(x))
      BY <2>1, <2>2
    <3> HIDE DEF q, image
    <3> QED BY <1>9, <2>3, <3>1 DEF Key
  <2>5. \A s \in PairSides : PairImage[s] = PairImage[x[2]] => s = x[2]
    BY <1>9 DEF PairSides, PairImage
  <2> HIDE DEF q
  <2>6. side(q) = x[2]
    BY <1>9, <2>4, <2>5
  <2> HIDE DEF side
  <2> QED BY <1>9, <2>1, <2>6 DEF q
<1>18. \A x \in empty : Append(image(x), "imageQuery") \in asked
  OBVIOUS
<1>19. \A q \in asked : \E x \in empty : q = Append(image(x), "imageQuery")
  OBVIOUS
<1>20. DOMAIN c = asked
       /\ \A q \in asked : c[q] = Field(t, Parent(Parent(q)), PairAlias[side(q)])
  OBVIOUS
<1> DEFINE K == {"imageQuery"}
<1>21. IsFiniteSet(K) /\ K \subseteq STRING \ IndexKeys
  BY OwnNamesAreNames, FS_Singleton
<1>22. "imageQuery" \in K
  OBVIOUS
<1> HIDE DEF c, asked, K, side
<1>23. ASSUME NEW q \in DOMAIN c PROVE ~IsHolder(c, q) /\ q \in FieldsOf(I, K)
  <2>1. PICK x \in empty : q = Append(image(x), "imageQuery")
    BY <1>19, <1>20
  <2>2. c[q] = Field(t, x[1], PairAlias[x[2]])
    BY <1>17, <1>20, <2>1
  <2>3. c[q] \in Text
    BY <1>2, <1>8, <2>2
  <2>4. image(x) \in I
    BY <1>12
  <2>5. Append(image(x), "imageQuery") \in FieldsOf(I, K)
    <3> HIDE DEF image
    <3> QED BY <1>22, <2>4, FieldsOfMeans
  <2> QED BY <2>1, <2>3, <2>5, TextIsNoHolder
<1>24. KeepsTree(ab, Overlay(ab, c))
  <2>1. Hangs(ab) /\ \A p \in I : IsRecord(ab, p)
    BY <1>15, <1>16 DEF KeepsTree
  <2>2. DOMAIN c \subseteq FieldsOf(I, K) /\ \A q \in DOMAIN c : ~IsHolder(c, q)
    BY <1>23
  <2> QED BY <1>21, <2>1, <2>2, FieldsOfKeepTree
<1>25. KeepsTree(t, ab)
  BY <1>5, <1>15, KeepsChain
<1>26. KeepsTree(t, Overlay(ab, c))
  BY <1>24, <1>25, KeepsChain
<1> QED BY <1>1, <1>26 DEF ab

\* the records that are made of pair images,
LEMMA PairImagesKeepTree == ASSUME NEW t, Hangs(t) PROVE KeepsTree(t, PairImagesAsRecords(t))
<1> DEFINE hint(x) == IF Field(t, x[1], PairHint[x[2]]) \in Text
                      THEN Field(t, x[1], PairHint[x[2]]) ELSE ""
           value(x) == Field(t, x[1], PairImage[x[2]])
           path(x) == Append(x[1], PairImage[x[2]])
           named == {x \in Pairs(t, PairImage) : value(x) \in Text \ {""}}
           hinted == {x \in Pairs(t, PairImage) :
                         value(x) \in {"null", ""} /\ hint(x) \in Descriptions}
           query(x) == IF hint(x) # "" THEN hint(x)
                       ELSE IF value(x) \in FileNames THEN Worded[value(x)] ELSE value(x)
           all == named \cup hinted
           of(q) == CHOOSE x \in named \cup hinted : path(x) = Parent(q)
           D == {path(x) : x \in named \cup hinted}
                   \cup {Append(path(x), "imageQuery") : x \in named \cup hinted}
                   \cup {Append(path(x), "image_name") : x \in named}
           u == [q \in D |-> CASE Key(q) = "imageQuery" -> query(of(q))
                               [] Key(q) = "image_name" -> value(of(q))
                               [] OTHER -> "{}"]
           Word == Text \cup Assets \cup UploadKeys \cup {"null"}
           I == {path(x) : x \in all}
           K == {"imageQuery", "image_name"}
           S == {PairImage[s] : s \in PairSides}
<1>1. PairImagesAsRecords(t) = Overlay(t, u)
  BY DEF PairImagesAsRecords
<1>2. ASSUME NEW x \in all
      PROVE  /\ x[1] \in DOMAIN t /\ x[2] \in PairSides /\ IsRecord(t, x[1])
             /\ value(x) \in Word /\ query(x) \in Word
  <2>1. x \in (DOMAIN t) \X PairSides /\ t[x[1]] = "{}"
    BY Zenon DEF Pairs
  <2>2. x[1] \in DOMAIN t /\ x[2] \in PairSides
    BY <2>1
  <2>3. IsRecord(t, x[1])
    BY <2>1, <2>2, RecordMeans, Zenon
  <2>4. "" \in Text
    BY Zenon DEF Text
  <2>5. value(x) \in Word
    BY <2>4, Zenon
  <2>6. hint(x) \in Word
    BY <2>4, Zenon
  <2>7. value(x) \in FileNames => Worded[value(x)] \in Word
    BY WordedIsText, Zenon
  <2> HIDE DEF Word, value, hint
  <2>8. query(x) \in Word
    BY <2>5, <2>6, <2>7, Zenon
  <2> QED BY <2>2, <2>3, <2>5, <2>8
<1>3. D = I \cup {Append(path(x), "imageQuery") : x \in all}
            \cup {Append(path(x), "image_name") : x \in named}
      /\ named \subseteq all
  OBVIOUS
<1>4. \A q : (\E x \in all : path(x) = Parent(q)) => of(q) \in all
  OBVIOUS
<1>5. /\ DOMAIN u = D
      /\ \A q \in D : /\ Key(q) = "imageQuery" => u[q] = query(of(q))
                      /\ Key(q) # "imageQuery" /\ Key(q) = "image_name" => u[q] = value(of(q))
                      /\ Key(q) # "imageQuery" /\ Key(q) # "image_name" => u[q] = "{}"
  <2> HIDE DEF D, query, of, value
  <2> QED BY Zenon
<1> HIDE DEF D, named, all, query, hint, of, u
<1>6. ASSUME NEW x \in all
      PROVE  /\ path(x) \in Seq(STRING) \ {<<>>} /\ Parent(path(x)) = x[1]
             /\ Key(path(x)) \in S /\ path(x) \in I
             /\ Key(path(x)) \notin IndexKeys /\ Key(path(x)) \notin K
  <2>1. x[1] \in Seq(STRING)
    BY <1>2 DEF Hangs
  <2>2. PairImage[x[2]] \in (STRING \ IndexKeys) \ K
    BY <1>2, PairNames
  <2>3. PairImage[x[2]] \in S
    BY <1>2
  <2> HIDE DEF K
  <2> QED BY <2>1, <2>2, <2>3, ChildMeans
<1>7. ASSUME NEW p \in I
      PROVE  /\ p \in Seq(STRING) \ {<<>>} /\ Parent(p) \in DOMAIN t /\ IsRecord(t, Parent(p))
             /\ Key(p) \in S /\ Key(p) \notin IndexKeys /\ Key(p) \notin K
             /\ ~IsArray(t, p) /\ \E x \in all : path(x) = p
  <2>1. PICK x \in all : p = path(x)
    OBVIOUS
  <2>2. ~IsArray(t, p)
    <3>1. Has(t, path(x)) /\ t[path(x)] = value(x)
      BY <1>2, TextIsThere
    <3>2. ~IsHolder(t, p)
      BY <1>2, <2>1, <3>1, TextIsNoHolder
    <3> QED BY <3>2, Zenon DEF IsArray, IsHolder, Has
  <2> HIDE DEF path, K, S
  <2> QED BY <1>2, <1>6, <2>1, <2>2
<1>8. IsFiniteSet(S) /\ IsFiniteSet(K)
  <2>1. S = {PairImage["left"], PairImage["right"], PairImage["left"],
             PairImage["left"], PairImage["left"], PairImage["left"]}
    BY DEF PairSides
  <2>2. K = {"imageQuery", "image_name", "imageQuery", "imageQuery", "imageQuery", "imageQuery"}
    OBVIOUS
  <2> HIDE DEF S, K
  <2> QED BY <2>1, <2>2, SixAreFinite
<1>9. K \subseteq STRING \ IndexKeys
  BY OwnNamesAreNames
<1>10. ASSUME NEW q \in D
       PROVE  q \in I \/ q \in FieldsOf(I, K)
  <2>1. CASE q \in I
    BY <2>1
  <2>2. CASE \E x \in all : q = Append(path(x), "imageQuery") \/ q = Append(path(x), "image_name")
    <3>1. PICK x \in all : q = Append(path(x), "imageQuery") \/ q = Append(path(x), "image_name")
      BY <2>2
    <3>2. path(x) \in I /\ "imageQuery" \in K /\ "image_name" \in K
      BY <1>6
    <3> HIDE DEF path, K, I
    <3>3. /\ Append(path(x), "imageQuery") \in FieldsOf(I, K)
          /\ Append(path(x), "image_name") \in FieldsOf(I, K)
      BY <3>2, FieldsOfMeans
    <3> QED BY <3>1, <3>3, Zenon
  <2> HIDE DEF I, path
  <2>3. CASE q \in {Append(path(x), "imageQuery") : x \in all}
    BY <2>2, <2>3, Zenon
  <2>4. CASE q \in {Append(path(x), "image_name") : x \in named}
    BY <1>3, <2>2, <2>4, Zenon
  <2> QED BY <1>3, <2>1, <2>3, <2>4, Zenon
<1>11. I \subseteq D
  BY <1>3
<1> HIDE DEF I, path, S, K
<1>12. ASSUME NEW q \in FieldsOf(I, K)
       PROVE  q \in Seq(STRING) \ {<<>>} /\ Parent(q) \in I /\ Key(q) \in K
  <2>1. I \subseteq Seq(STRING) /\ K \subseteq STRING
    BY <1>7, <1>9
  <2> QED BY <2>1, FieldsOfMeans
<1>13. IsFiniteSet(D)
  <2>1. IsFiniteSet(FieldsOf(DOMAIN t, S))
    BY <1>8, FieldsAreFinite DEF Hangs
  <2>2. ASSUME NEW p \in I PROVE p \in FieldsOf(DOMAIN t, S)
    <3>1. Parent(p) \in DOMAIN t /\ Key(p) \in S /\ p = Append(Parent(p), Key(p))
      BY <1>7, ParentMeans
    <3>2. Append(Parent(p), Key(p)) \in FieldsOf(DOMAIN t, S)
      BY <3>1, FieldsOfMeans
    <3> QED BY <3>1, <3>2
  <2>3. IsFiniteSet(I)
    <3>1. I \in SUBSET FieldsOf(DOMAIN t, S)
      BY <2>2
    <3> QED BY <2>1, <3>1, FS_Subset
  <2>4. IsFiniteSet(I \cup FieldsOf(I, K))
    BY <1>8, <2>3, FieldsAreFinite, FS_Union
  <2>5. D \in SUBSET (I \cup FieldsOf(I, K))
    BY <1>10
  <2> QED BY <2>4, <2>5, FS_Subset
<1>14. ASSUME NEW q \in D
       PROVE  /\ q \in Seq(STRING) \ {<<>>} /\ Key(q) \notin IndexKeys /\ u[q] # "[]"
              /\ Parent(q) \in DOMAIN u \/ IsRecord(t, Parent(q))
              /\ u[q] = "{}" => ~IsArray(t, q)
  <2>1. CASE q \in I
    <3>1. /\ q \in Seq(STRING) \ {<<>>} /\ Key(q) \notin IndexKeys
          /\ IsRecord(t, Parent(q)) /\ ~IsArray(t, q)
      BY <1>7, <2>1
    <3>2. Key(q) # "imageQuery" /\ Key(q) # "image_name"
      BY <1>7, <2>1 DEF K
    <3>3. u[q] = "{}" /\ u[q] # "[]"
      BY <1>5, <3>2, Zenon
    <3> QED BY <3>1, <3>3, Zenon
  <2>2. CASE q \in FieldsOf(I, K)
    <3>1. q \in Seq(STRING) \ {<<>>} /\ Parent(q) \in I /\ Key(q) \in K
      BY <1>12, <2>2
    <3>2. of(q) \in all
      BY <1>4, <1>7, <3>1
    <3>3. u[q] = query(of(q)) \/ u[q] = value(of(q))
      <4>1. Key(q) = "imageQuery" \/ Key(q) = "image_name"
        BY <3>1 DEF K
      <4>2. "imageQuery" # "image_name"
        OBVIOUS
      <4> HIDE DEF value
      <4> QED BY <1>5, <4>1, <4>2, Zenon
    <3>4. u[q] \in Word
      <4> HIDE DEF value, Word
      <4> QED BY <1>2, <3>2, <3>3, Zenon
    <3>5. ~IsHolder(u, q) /\ q \in DOMAIN u
      BY <1>5, <3>4, TextIsNoHolder
    <3>6. u[q] # "[]" /\ u[q] # "{}"
      BY <3>5, Zenon DEF IsHolder
    <3>7. Key(q) \notin IndexKeys /\ Parent(q) \in DOMAIN u
      BY <1>5, <1>9, <1>11, <3>1
    <3> QED BY <3>1, <3>6, <3>7, Zenon
  <2> QED BY <1>10, <2>1, <2>2
<1>15. DOMAIN u = D
  BY <1>5
<1>16. D \subseteq Seq(STRING) \ {<<>>}
  BY <1>14
<1>17. AddsFields(t, u)
  BY <1>13, <1>14, <1>15, <1>16, Zenon DEF AddsFields
<1> QED BY <1>1, <1>17, FieldsKeepTree

\* so all of normalizeImageQueryFields does,
LEMMA NormaliseKeepsTree == ASSUME NEW t, Hangs(t) PROVE KeepsTree(t, Normalise(t))
<1> DEFINE a == CoercePairAliases(t)
           b == AddQueries(a)
           c == PairImagesAsRecords(b)
           d == UnifyMascot(c)
<1>1. KeepsTree(t, a) /\ Hangs(a)
  BY CoerceKeepsTree DEF KeepsTree
<1>2. KeepsTree(a, b) /\ Hangs(b)
  BY <1>1, AddQueriesKeepsTree DEF KeepsTree
<1>3. KeepsTree(b, c) /\ Hangs(c)
  BY <1>2, PairImagesKeepTree DEF KeepsTree
<1>4. KeepsTree(c, d)
  BY <1>3, MascotKeepsTree
<1>5. Normalise(t) = d
  BY DEF Normalise
<1> HIDE DEF a, b, c, d
<1>6. KeepsTree(t, b)
  BY <1>1, <1>2, KeepsChain
<1>7. KeepsTree(t, c)
  BY <1>3, <1>6, KeepsChain
<1> QED BY <1>4, <1>5, <1>7, KeepsChain

\* the assets a search finds,
LEMMA PicturedKeepsTree ==
    ASSUME NEW t, Hangs(t), NEW found, NEW l,
           \A q \in Wanted(t, l) : found[q] \in Assets \cup {"null"}
    PROVE  KeepsTree(t, Pictured(t, found, l))
<1> DEFINE asset(p) == found[WithLineart(VisualQuery(t, p), l)]
           slots == {p \in ImageRecords(t) : asset(p) # "null"}
           D == {Append(p, "assetId") : p \in slots}
           u == [q \in D |-> asset(Parent(q))]
           K == {"assetId"}
<1>1. Pictured(t, found, l) = StripTransient(Overlay(t, u))
  BY DEF Pictured
<1>2. \A p \in ImageRecords(t) : IsRecord(t, p)
  <2>1. \A p \in ImageRecords(t) : p \in DOMAIN t /\ t[p] = "{}"
    BY Zenon DEF ImageRecords
  <2> QED BY <2>1, RecordMeans, Zenon
<1>3. \A p \in slots : IsRecord(t, p) /\ p \in Seq(STRING) /\ asset(p) \in Assets \cup {"null"}
  <2> SUFFICES ASSUME NEW p \in slots
               PROVE  IsRecord(t, p) /\ p \in Seq(STRING) /\ asset(p) \in Assets \cup {"null"}
    OBVIOUS
  <2>1. p \in ImageRecords(t) /\ IsRecord(t, p)
    BY <1>2
  <2>2. WithLineart(VisualQuery(t, p), l) \in Wanted(t, l)
    BY <2>1 DEF Wanted
  <2>3. p \in DOMAIN t
    BY <2>1, RecordMeans
  <2> QED BY <2>1, <2>2, <2>3 DEF Hangs
<1>4. DOMAIN u = D /\ \A q \in D : u[q] = asset(Parent(q))
  OBVIOUS
<1> HIDE DEF slots, asset
<1>5. "assetId" \in K /\ "assetId" \in STRING
  BY OwnNamesAreNames
<1>6. \A p \in slots : Append(p, "assetId") \in FieldsOf(slots, K)
  BY <1>5, FieldsOfMeans
<1>7. ASSUME NEW q \in D PROVE q \in FieldsOf(slots, K) /\ Parent(q) \in slots
  <2>1. PICK p \in slots : q = Append(p, "assetId")
    OBVIOUS
  <2>2. Parent(q) = p
    BY <1>3, <1>5, <2>1, ChildMeans
  <2> QED BY <1>6, <2>1, <2>2
<1> HIDE DEF u, D
<1>8. IsFiniteSet(K) /\ K \subseteq STRING \ IndexKeys
  BY OwnNamesAreNames, FS_Singleton
<1> HIDE DEF K
<1>9. KeepsTree(t, Overlay(t, u))
  <2>1. DOMAIN u \subseteq FieldsOf(slots, K)
    BY <1>4, <1>7
  <2>2. \A q \in DOMAIN u : ~IsHolder(u, q)
    BY <1>3, <1>4, <1>7, TextIsNoHolder
  <2>3. \A p \in slots : IsRecord(t, p)
    BY <1>3
  <2> QED BY <1>8, <2>1, <2>2, <2>3, FieldsOfKeepTree
<1>10. KeepsTree(Overlay(t, u), StripTransient(Overlay(t, u)))
  BY <1>9, StripKeepsTree DEF KeepsTree
<1> QED BY <1>1, <1>9, <1>10, KeepsChain

\* what is put is there,
LEMMA PutSets ==
    ASSUME NEW t, NEW p \in Seq(STRING), NEW v, <<>> \in DOMAIN v, DOMAIN v \subseteq Seq(STRING)
    PROVE  p \in DOMAIN Put(t, p, v) /\ Put(t, p, v)[p] = v[<<>>]
<1> DEFINE u == [q \in {p \o r : r \in DOMAIN v} |-> v[SubSeq(q, Len(p) + 1, Len(q))]]
<1>1. Put(t, p, v) = Overlay(Prune(t, {p}), u)
  BY DEF Put
<1>2. DOMAIN u = {p \o r : r \in DOMAIN v}
  OBVIOUS
<1>3. p \o <<>> = p /\ SubSeq(p, Len(p) + 1, Len(p)) = <<>> /\ IsPath(p) /\ p \in DOMAIN u
  <2>1. <<>> \in Seq(STRING)
    OBVIOUS
  <2>2. p \o <<>> = p /\ SubSeq(p \o <<>>, Len(p) + 1, Len(p \o <<>>)) = <<>>
    BY <2>1, ConcatMeans
  <2> QED BY <1>2, <2>2, SequenceIsPath
<1>4. u[p] = v[<<>>]
  BY <1>2, <1>3
<1> HIDE DEF u
<1>5. ASSUME NEW x \in DOMAIN u, Within(x, p) PROVE x = p
  <2>1. PICK r \in DOMAIN v : x = p \o r
    BY <1>2
  <2>2. r \in Seq(STRING)
    OBVIOUS
  <2>3. x \in Seq(STRING) /\ Within(p, x) /\ Len(x) = Len(p) + Len(r)
    BY <2>1, <2>2, ConcatMeans
  <2>4. Len(p) \in Nat /\ Len(r) \in Nat /\ Len(x) <= Len(p)
    BY <1>5, <2>2 DEF Within
  <2>5. Len(r) = 0
    BY <2>3, <2>4
  <2> QED BY <1>3, <2>1, <2>2, <2>5, EmptySeq
<1>6. p \in DOMAIN Overlay(Prune(t, {p}), u)
  <2>1. \A x \in DOMAIN u : IsHolder(u, x) \/ x = p \/ ~Within(x, p)
    BY <1>5
  <2> QED BY <1>3, <2>1, OverlayMeans
<1>7. Overlay(Prune(t, {p}), u)[p] = u[p]
  BY <1>3, <1>6, OverlayMeans
<1> QED BY <1>1, <1>4, <1>6, <1>7
\* for which there is a place,
LEMMA NamedCanSet ==
    ASSUME NEW t, Hangs(t), NEW p, IsRecord(t, p), NEW k \in STRING \ IndexKeys
    PROVE  /\ p \in Seq(STRING) /\ Append(p, k) \in Seq(STRING) \ {<<>>} /\ CanSet(t, Append(p, k))
           /\ Parent(Append(p, k)) = p /\ Key(Append(p, k)) = k
<1>1. p \in DOMAIN t
  BY RecordMeans
<1>2. p \in Seq(STRING)
  BY <1>1 DEF Hangs
<1>3. Append(p, k) \in Seq(STRING) \ {<<>>} /\ Parent(Append(p, k)) = p /\ Key(Append(p, k)) = k
  BY <1>2, ChildMeans
<1> QED BY <1>2, <1>3 DEF CanSet, HasPlace
\* and which keeps a structure together,
LEMMA NamedPutKeepsTree ==
    ASSUME NEW t, Hangs(t), NEW p, IsRecord(t, p), NEW k \in STRING \ IndexKeys, NEW v,
           Hangs(v), Gapless(DOMAIN t) => Gapless(DOMAIN v)
    PROVE  /\ KeepsTree(t, Put(t, Append(p, k), v))
           /\ IsRecord(Put(t, Append(p, k), v), p)
           /\ IsRecord(v, <<>>) => IsRecord(Put(t, Append(p, k), v), Append(p, k))
<1> DEFINE q == Append(p, k)
<1>1. q \in Seq(STRING) \ {<<>>} /\ CanSet(t, q) /\ Parent(q) = p /\ Key(q) = k
  BY NamedCanSet
<1> HIDE DEF q
<1>2. /\ Hangs(Put(t, q, v)) /\ Put(t, q, v)[<<>>] = t[<<>>]
      /\ Gapless(DOMAIN t) => Gapless(DOMAIN Put(t, q, v))
  BY <1>1, PutHangs
<1>3. q \in DOMAIN Put(t, q, v) /\ Put(t, q, v)[q] = v[<<>>]
  BY <1>1, PutSets DEF Hangs
<1>4. IsRecord(Put(t, q, v), p)
  <2>1. HasPlace(Put(t, q, v), q)
    BY <1>1, <1>2, <1>3 DEF Hangs
  <2> QED BY <1>1, <2>1 DEF HasPlace
<1>5. KeepsTree(t, Put(t, q, v))
  <2>1. IsRecord(t, <<>>) => IsRecord(Put(t, q, v), <<>>)
    BY <1>2, SameRoot DEF Hangs
  <2> QED BY <1>2, <2>1 DEF KeepsTree
<1>6. IsRecord(v, <<>>) => IsRecord(Put(t, q, v), q)
  BY <1>3, Zenon DEF IsRecord, Has
<1> QED BY <1>4, <1>5, <1>6 DEF q

\* the asset of a slot,
LEMMA SlotKeepsTree ==
    ASSUME NEW t, Hangs(t), NEW p, NEW asset, asset = "null" \/ IsRecord(t, p)
    PROVE  KeepsTree(t, ApplySlot(t, p, asset))
<1> DEFINE v == IF asset = "null" THEN t ELSE Put(t, Append(p, "assetId"), Leaf(asset))
<1>1. ApplySlot(t, p, asset) = StripTransient(v)
  BY DEF ApplySlot
<1>2. KeepsTree(t, v)
  <2>1. CASE asset = "null"
    BY <2>1, KeepsItself
  <2>2. CASE asset # "null"
    <3>1. IsTree(Leaf(asset)) /\ "assetId" \in STRING \ IndexKeys /\ IsRecord(t, p)
      BY <2>2, LeafHangs, OwnNamesAreNames
    <3>2. KeepsTree(t, Put(t, Append(p, "assetId"), Leaf(asset)))
      BY <3>1, NamedPutKeepsTree DEF IsTree
    <3> QED BY <2>2, <3>2
  <2> QED BY <2>1, <2>2
<1> HIDE DEF v
<1>3. KeepsTree(v, StripTransient(v))
  BY <1>2, StripKeepsTree DEF KeepsTree
<1> QED BY <1>1, <1>2, <1>3, KeepsChain

\* the asset and the key of a picture,
LEMMA PatchKeepsTree ==
    ASSUME NEW t, Hangs(t), NEW p, IsRecord(t, p), NEW asset, NEW key
    PROVE  KeepsTree(t, PatchImage(t, p, asset, key))
<1> DEFINE v == IF key = "" THEN Prune(t, {Append(p, "userUploadedKey")})
                ELSE Put(t, Append(p, "userUploadedKey"), Leaf(key))
<1>0. "assetId" \in STRING \ IndexKeys /\ "userUploadedKey" \in STRING \ IndexKeys
  BY OwnNamesAreNames
<1>1. PatchImage(t, p, asset, key) = Put(v, Append(p, "assetId"), Leaf(asset))
  BY DEF PatchImage
<1>2. v = Prune(t, {Append(p, "userUploadedKey")}) \/ v = Put(t, Append(p, "userUploadedKey"), Leaf(key))
  BY Zenon
<1> HIDE DEF v
<1>3. \A x : Hangs(Leaf(x)) /\ Gapless(DOMAIN Leaf(x))
  BY LeafHangs DEF IsTree
<1>4. CASE v = Prune(t, {Append(p, "userUploadedKey")})
  <2> DEFINE k == Append(p, "userUploadedKey")
  <2>1. p \in Seq(STRING) /\ k \in Seq(STRING) \ {<<>>} /\ Key(k) \notin IndexKeys /\ Parent(k) = p
    BY <1>0, NamedCanSet
  <2> HIDE DEF k
  <2>2. {k} \subseteq Seq(STRING) \ {<<>>} /\ \A q \in {k} : Key(q) \notin IndexKeys
    BY <2>1
  <2>3. KeepsTree(t, Prune(t, {k}))
    BY <2>2, PruneKeepsTree
  <2>4. p \in DOMAIN t
    BY RecordMeans
  <2>5. ~Within(k, p)
    <3>1. Len(k) = Len(Parent(k)) + 1 /\ Len(Parent(k)) \in Nat
      BY <2>1, ParentMeans
    <3> QED BY <2>1, <3>1 DEF Within
  <2>6. p \in DOMAIN Prune(t, {k}) /\ Prune(t, {k})[p] = t[p]
    BY <2>2, <2>4, <2>5, PruneHangs
  <2>7. IsRecord(v, p) /\ KeepsTree(t, v)
    BY <1>4, <2>3, <2>6, RecordMeans, Zenon DEF k
  <2>8. KeepsTree(v, Put(v, Append(p, "assetId"), Leaf(asset)))
    BY <1>0, <1>3, <2>7, NamedPutKeepsTree DEF KeepsTree
  <2> QED BY <1>1, <2>7, <2>8, KeepsChain
<1>5. CASE v = Put(t, Append(p, "userUploadedKey"), Leaf(key))
  <2>1. KeepsTree(t, v) /\ IsRecord(v, p)
    BY <1>0, <1>3, <1>5, NamedPutKeepsTree
  <2>2. KeepsTree(v, Put(v, Append(p, "assetId"), Leaf(asset)))
    BY <1>0, <1>3, <2>1, NamedPutKeepsTree DEF KeepsTree
  <2> QED BY <1>1, <2>1, <2>2, KeepsChain
<1> QED BY <1>2, <1>4, <1>5
\* the index of the uploads,
LEMMA IndexKeepsTree ==
    ASSUME NEW t, Hangs(t), IsRecord(t, <<>>), NEW p \in DOMAIN SlotNames, NEW key
    PROVE  KeepsTree(t, IndexUpload(t, p, key))
<1> DEFINE name == Append(Uploads, SlotNames[p])
           index == IF IsRecord(t, Uploads) THEN Subtree(t, Uploads) ELSE Leaf("{}")
           a == Put(t, Uploads, index)
           written == Put(a, name, Leaf(key))
<1>1. SlotNames[p] \in STRING \ IndexKeys
  BY LabelAssumption, Zenon
<1>2. "userUploadedImages" \in STRING \ IndexKeys
  BY OwnNamesAreNames
<1>3. Uploads = Append(<<>>, "userUploadedImages")
  BY DEF Uploads
<1>4. /\ Uploads \in Seq(STRING) \ {<<>>} /\ Key(Uploads) \notin IndexKeys
      /\ name \in Seq(STRING) \ {<<>>} /\ Key(name) \notin IndexKeys
  <2>1. Uploads \in Seq(STRING) \ {<<>>} /\ Key(Uploads) \notin IndexKeys
    BY <1>2, <1>3, NamedCanSet
  <2> QED BY <1>1, <2>1, ChildMeans
<1>5. IndexUpload(t, p, key) \in {written, Prune(t, {name}), Prune(t, {Uploads})}
  BY Zenon DEF IndexUpload
<1>6. \A q \in {name, Uploads} : KeepsTree(t, Prune(t, {q}))
  <2> SUFFICES ASSUME NEW q \in {name, Uploads} PROVE KeepsTree(t, Prune(t, {q}))
    OBVIOUS
  <2>1. {q} \subseteq Seq(STRING) \ {<<>>} /\ \A x \in {q} : Key(x) \notin IndexKeys
    BY <1>4
  <2> HIDE DEF name
  <2> QED BY <2>1, PruneKeepsTree
<1>7. Hangs(index) /\ (Gapless(DOMAIN t) => Gapless(DOMAIN index)) /\ IsRecord(index, <<>>)
  <2>1. CASE IsRecord(t, Uploads)
    <3>1. Uploads \in DOMAIN t /\ t[Uploads] = "{}"
      BY <2>1, RecordMeans
    <3>2. /\ Hangs(Subtree(t, Uploads)) /\ Subtree(t, Uploads)[<<>>] = t[Uploads]
          /\ Gapless(DOMAIN t) => Gapless(DOMAIN Subtree(t, Uploads))
          /\ <<>> \in DOMAIN Subtree(t, Uploads)
      BY <3>1, SubtreeHangs DEF Hangs
    <3> QED BY <2>1, <3>1, <3>2, Zenon DEF IsRecord, Has
  <2>2. CASE ~IsRecord(t, Uploads)
    <3>1. PICK x : x = "{}"
      OBVIOUS
    <3>2. /\ Hangs(Leaf(x)) /\ Gapless(DOMAIN Leaf(x)) /\ Leaf(x)[<<>>] = x
          /\ <<>> \in DOMAIN Leaf(x)
      BY LeafHangs DEF IsTree, Hangs
    <3> QED BY <2>2, <3>1, <3>2, Zenon DEF IsRecord, Has
  <2> QED BY <2>1, <2>2
<1> HIDE DEF index
<1>8. KeepsTree(t, a) /\ IsRecord(a, Uploads)
  <2>1. <<>> \in Seq(STRING)
    OBVIOUS
  <2>2. PICK r \in Seq(STRING), k \in STRING \ IndexKeys : r = <<>> /\ k = "userUploadedImages"
    BY <1>2, <2>1, Zenon
  <2>3. Append(r, k) = Uploads /\ IsRecord(t, r)
    BY <1>3, <2>2
  <2>4. /\ KeepsTree(t, Put(t, Append(r, k), index))
        /\ IsRecord(index, <<>>) => IsRecord(Put(t, Append(r, k), index), Append(r, k))
    BY <1>7, <2>3, NamedPutKeepsTree
  <2> QED BY <1>7, <2>3, <2>4, Zenon
<1> HIDE DEF a
<1>9. KeepsTree(t, written)
  <2>1. Hangs(Leaf(key)) /\ Gapless(DOMAIN Leaf(key))
    BY LeafHangs DEF IsTree
  <2>2. KeepsTree(a, Put(a, Append(Uploads, SlotNames[p]), Leaf(key)))
    BY <1>1, <1>8, <2>1, NamedPutKeepsTree DEF KeepsTree
  <2> QED BY <1>8, <2>2, KeepsChain
<1> HIDE DEF written
<1> QED BY <1>5, <1>6, <1>9
\* both for the picture of a slot,
LEMMA PictureKeepsTree ==
    ASSUME NEW t, Hangs(t), IsRecord(t, <<>>), NEW p \in DOMAIN SlotNames, IsRecord(t, p),
           NEW asset, NEW key, NEW indexed
    PROVE  KeepsTree(t, StripTransient(IndexUpload(PatchImage(t, p, asset, key), p, indexed)))
<1> DEFINE a == PatchImage(t, p, asset, key)
           b == IndexUpload(a, p, indexed)
<1>1. KeepsTree(t, a)
  BY PatchKeepsTree
<1> HIDE DEF a
<1>2. KeepsTree(a, b)
  BY <1>1, IndexKeepsTree DEF KeepsTree
<1> HIDE DEF b
<1>3. KeepsTree(b, StripTransient(b))
  BY <1>2, StripKeepsTree DEF KeepsTree
<1>4. KeepsTree(t, b)
  BY <1>1, <1>2, KeepsChain
<1>5. KeepsTree(t, StripTransient(b))
  BY <1>3, <1>4, KeepsChain
<1> QED BY <1>5 DEF a, b
\* of the library or of the user,
LEMMA ImageKeepsTree ==
    ASSUME NEW t, Hangs(t), IsRecord(t, <<>>), NEW p \in DOMAIN SlotNames, IsRecord(t, p), NEW x
    PROVE  KeepsTree(t, ApplyLibraryImage(t, p, x)) /\ KeepsTree(t, ApplyUserUploadedImage(t, p, x))
<1>1. KeepsTree(t, StripTransient(IndexUpload(PatchImage(t, p, "null", x), p, x)))
  BY PictureKeepsTree
<1>2. PICK e : e = ""
  OBVIOUS
<1>3. KeepsTree(t, StripTransient(IndexUpload(PatchImage(t, p, x, e), p, e)))
  BY PictureKeepsTree
<1> QED BY <1>1, <1>2, <1>3, Zenon DEF ApplyLibraryImage, ApplyUserUploadedImage

\* the addresses a render adds,
LEMMA EnrichKeepsTree == ASSUME NEW t, Hangs(t) PROVE KeepsTree(t, EnrichForRender(t))
<1> DEFINE n == Normalise(t)
           own(p) == Filled(n, p, "assetId") \/ Field(n, p, "userUploadedKey") \in UploadKeys
           sent(p) == IF Filled(n, p, "imageUrl") THEN n[Append(p, "imageUrl")]
                      ELSE IF Filled(n, p, "assetUrl") THEN n[Append(p, "assetUrl")] ELSE ""
           url(p) == IF Filled(n, p, "assetId") THEN n[Append(p, "assetId")]
                     ELSE IF own(p) THEN n[Append(p, "userUploadedKey")] ELSE sent(p)
           bare == StripTransient(n)
           shown == {p \in DOMAIN bare : n[p] = "{}" /\ url(p) # ""}
           D == {Append(p, "assetUrl") : p \in shown}
                      \cup {Append(p, "imageUrl") : p \in {o \in shown : ~own(o)}}
           u == [q \in D |-> url(Parent(q))]
           K == {"assetUrl", "imageUrl"}
           Word == Text \cup Assets \cup UploadKeys
<1>1. EnrichForRender(t) = Overlay(bare, u)
  BY DEF EnrichForRender
<1>2. KeepsTree(t, n) /\ Hangs(n)
  BY NormaliseKeepsTree DEF KeepsTree
<1> HIDE DEF n
<1>3. KeepsTree(n, bare) /\ Hangs(bare)
  BY <1>2, StripKeepsTree DEF KeepsTree
<1>4. ASSUME NEW q \in DOMAIN bare PROVE bare[q] = n[q]
  BY DEF StripTransient, Prune
<1>5. ASSUME NEW p PROVE url(p) \in Word
  <2>1. "" \in Word
    BY Zenon DEF Text
  <2>2. ASSUME NEW k, Filled(n, p, k) PROVE n[Append(p, k)] \in Word
    <3>1. Field(n, p, k) \in Word
      BY <2>2, Zenon DEF Filled, IsText
    <3> QED BY <3>1, TextIsThere
  <2>3. Field(n, p, "userUploadedKey") \in UploadKeys => n[Append(p, "userUploadedKey")] \in Word
    BY TextIsThere
  <2> HIDE DEF Word
  <2>4. sent(p) \in Word
    BY <2>1, <2>2, Zenon
  <2> HIDE DEF sent
  <2> QED BY <2>2, <2>3, <2>4, Zenon
<1>6. DOMAIN u = D /\ \A q \in D : u[q] = url(Parent(q))
  <2> HIDE DEF D, url
  <2> QED OBVIOUS
<1>7. \A p \in shown : IsRecord(bare, p)
  <2>1. \A p \in shown : p \in DOMAIN bare /\ n[p] = "{}"
    BY Zenon
  <2> QED BY <1>4, <2>1, RecordMeans, Zenon
<1> HIDE DEF shown, own, url
<1>8. "assetUrl" \in K /\ "imageUrl" \in K
  OBVIOUS
<1> HIDE DEF K
<1>9. D \subseteq FieldsOf(shown, K)
  <2>1. \A p \in shown : /\ Append(p, "assetUrl") \in FieldsOf(shown, K)
                         /\ Append(p, "imageUrl") \in FieldsOf(shown, K)
    BY <1>8, FieldsOfMeans
  <2> QED BY <2>1, Zenon
<1>10. IsFiniteSet(K) /\ K \subseteq STRING \ IndexKeys
  <2>1. K = {"assetUrl", "imageUrl", "assetUrl", "assetUrl", "assetUrl", "assetUrl"}
    BY DEF K
  <2>2. K \subseteq STRING \ IndexKeys
    BY OwnNamesAreNames DEF K
  <2> QED BY <2>1, <2>2, SixAreFinite
<1> HIDE DEF u, D, bare
<1>11. \A q \in DOMAIN u : ~IsHolder(u, q)
  BY <1>5, <1>6, TextIsNoHolder
<1>12. KeepsTree(bare, Overlay(bare, u))
  <2>1. DOMAIN u \subseteq FieldsOf(shown, K)
    BY <1>6, <1>9
  <2> QED BY <1>3, <1>7, <1>10, <1>11, <2>1, FieldsOfKeepTree
<1>13. KeepsTree(t, bare)
  BY <1>2, <1>3, KeepsChain
<1>14. KeepsTree(t, Overlay(bare, u))
  BY <1>12, <1>13, KeepsChain
<1> QED BY <1>1, <1>14

\* what a regeneration writes over,
LEMMA NumberMatchKeepsTree ==
    ASSUME NEW t, Hangs(t), IsRecord(t, <<>>), NEW fields, fields.topic \in Text
    PROVE  KeepsTree(t, NumberMatch(t, fields))
<1> DEFINE kind == IF fields.matchType \in DOMAIN MatchInstruction THEN fields.matchType
                   ELSE "number_names"
           number(p) == IF Field(t, p, "number") \in Figures THEN Field(t, p, "number") ELSE "0"
           D == (IF fields.topic = "" THEN {} ELSE {<<"topic">>})
                       \cup (IF fields.matchType \notin DOMAIN MatchInstruction THEN {}
                             ELSE {<<"instruction_text">>})
           u == [q \in D |-> IF q = <<"topic">> THEN fields.topic ELSE MatchInstruction[kind]]
           E == IF fields.matchType = "" \/ ~IsNumberName(t) THEN {}
                ELSE {Append(p, "name") : p \in Elements(t, <<"pairs">>)}
           w == [q \in E |-> RightText[kind][number(Parent(q))]]
           P == IF IsNumberName(t) THEN Elements(t, <<"pairs">>) ELSE {}
           mid == Overlay(t, u)
           K == {"topic", "instruction_text"}
           L == {"name"}
<1>1. NumberMatch(t, fields) = Overlay(mid, w)
  BY DEF NumberMatch
<1>2. kind \in DOMAIN MatchInstruction /\ MatchInstruction[kind] \in Text
  <2>1. "number_names" \in DOMAIN MatchInstruction
    BY TextAssumption, Zenon
  <2>2. \A k \in DOMAIN MatchInstruction : MatchInstruction[k] \in Text
    BY LabelAssumption, Zenon
  <2>3. kind \in DOMAIN MatchInstruction
    BY <2>1, Zenon
  <2> HIDE DEF kind
  <2> QED BY <2>2, <2>3, Zenon
<1>3. \A f \in Figures : RightText[kind][f] \in Text
  <2>1. RightText \in [DOMAIN MatchInstruction -> [Figures -> Phrases]]
    BY TextAssumption, Zenon
  <2>2. Phrases \subseteq Text
    BY Zenon DEF Text
  <2> HIDE DEF kind
  <2> QED BY <1>2, <2>1, <2>2
<1>4. \A p : number(p) \in Figures
  <2>1. "0" \in Figures
    BY TextAssumption, Zenon
  <2> QED BY <2>1
<1>5. D \subseteq {<<"topic">>, <<"instruction_text">>}
  BY Zenon
<1>6. E \subseteq {Append(p, "name") : p \in P}
  <2>1. CASE IsNumberName(t)
    BY <2>1, Zenon
  <2>2. CASE ~IsNumberName(t)
    BY <2>2, Zenon
  <2> QED BY <2>1, <2>2
<1>7. ASSUME NEW p \in P
      PROVE  p \in DOMAIN t \ {<<>>} /\ Parent(p) = <<"pairs">> /\ IsRecord(t, p)
  <2>1. IsNumberName(t) /\ p \in Elements(t, <<"pairs">>)
    BY Zenon
  <2>2. p \in Children(t, <<"pairs">>)
    BY <2>1 DEF Elements
  <2>3. IsRecord(t, p)
    BY <2>1 DEF IsNumberName
  <2> QED BY <2>2, <2>3 DEF Children
<1>8. /\ DOMAIN u = D /\ \A q \in D : u[q] = fields.topic \/ u[q] = MatchInstruction[kind]
      /\ DOMAIN w = E /\ \A q \in E : w[q] = RightText[kind][number(Parent(q))]
  <2> HIDE DEF D, E, number, kind
  <2> QED OBVIOUS
<1> HIDE DEF u, w, D, E, P, number, kind
<1>9. <<"topic">> = Append(<<>>, "topic") /\ <<"instruction_text">> = Append(<<>>, "instruction_text")
  OBVIOUS
<1>10. /\ IsFiniteSet(K) /\ K \subseteq STRING \ IndexKeys
       /\ IsFiniteSet(L) /\ L \subseteq STRING \ IndexKeys
  <2>1. K = {"topic", "instruction_text", "topic", "topic", "topic", "topic"}
    OBVIOUS
  <2>2. K \subseteq STRING \ IndexKeys /\ L \subseteq STRING \ IndexKeys
    BY OwnNamesAreNames
  <2>3. IsFiniteSet(L)
    BY FS_Singleton
  <2> HIDE DEF K
  <2>4. IsFiniteSet(K)
    BY <2>1, SixAreFinite
  <2> QED BY <2>2, <2>3, <2>4
<1>11. D \subseteq FieldsOf({<<>>}, K)
  <2>1. PICK r : r = <<>>
    OBVIOUS
  <2>2. Append(r, "topic") \in FieldsOf({r}, K) /\ Append(r, "instruction_text") \in FieldsOf({r}, K)
    BY FieldsOfMeans
  <2>3. <<"topic">> = Append(r, "topic") /\ <<"instruction_text">> = Append(r, "instruction_text")
    BY <1>9, <2>1, Zenon
  <2>4. {<<"topic">>, <<"instruction_text">>} \subseteq FieldsOf({r}, K)
    BY <2>2, <2>3, Zenon
  <2> QED BY <1>5, <2>1, <2>4, Zenon
<1>12. KeepsTree(t, mid)
  <2>1. \A q \in DOMAIN u : ~IsHolder(u, q)
    BY <1>2, <1>8, TextIsNoHolder
  <2>2. PICK R : R = {<<>>}
    OBVIOUS
  <2>3. DOMAIN u \subseteq FieldsOf(R, K) /\ \A p \in R : IsRecord(t, p)
    BY <1>8, <1>11, <2>2
  <2> HIDE DEF K
  <2> QED BY <1>10, <2>1, <2>3, FieldsOfKeepTree
<1>13. ASSUME NEW p \in P PROVE IsRecord(mid, p)
  <2>1. p \in Seq(STRING) \ {<<>>} /\ IsPath(p)
    BY <1>7, SequenceIsPath DEF Hangs
  <2>2. \A x \in {<<"topic">>, <<"instruction_text">>} :
            IsPath(x) /\ Len(x) = 1 /\ x[1] # "pairs"
    BY DEF IsPath
  <2>3. Len(<<"pairs">>) = 1 /\ <<"pairs">>[1] = "pairs" /\ IsPath(<<"pairs">>)
    BY DEF IsPath
  <2>4. Len(p) = 2
    <3>1. Len(p) = Len(Parent(p)) + 1
      BY <2>1, ParentMeans
    <3>2. Len(Parent(p)) = 1
      BY <1>7, <2>3, Zenon
    <3> QED BY <3>1, <3>2
  <2>5. ASSUME NEW x \in {<<"topic">>, <<"instruction_text">>}, Within(x, p) PROVE FALSE
    <3>4. IsPath(x) /\ Len(x) = 1 /\ x[1] # "pairs"
      BY <2>2, Zenon
    <3>5. Len(x) # Len(p)
      BY <2>4, <3>4
    <3>1. x # p /\ IsPath(x) /\ Len(x) = 1 /\ x[1] # "pairs"
      BY <3>4, <3>5, Zenon
    <3>2. Within(x, <<"pairs">>)
      BY <1>7, <2>1, <2>5, <3>1, AboveMeans
    <3>3. <<"pairs">>[1] = x[1]
      <4>1. 1 \in 1..Len(x)
        BY <3>1
      <4> QED BY <2>3, <3>1, <3>2, <4>1, WithinMeans
    <3> QED BY <2>3, <3>1, <3>3
  <2>6. \A x \in DOMAIN u : ~Within(x, p)
    BY <1>5, <1>8, <2>5
  <2>7. p \in DOMAIN t
    BY <1>7
  <2>8. p \in DOMAIN mid
    BY <2>6, <2>7, OverlayMeans
  <2>9. p \notin DOMAIN u
    BY <2>1, <2>6, WithinItself
  <2>10. mid[p] = t[p]
    BY <2>8, <2>9, OverlayMeans
  <2> QED BY <1>7, <2>8, <2>10, RecordMeans, Zenon
<1> HIDE DEF mid
<1>14. E \subseteq FieldsOf(P, L)
  <2>1. \A p \in P : Append(p, "name") \in FieldsOf(P, L)
    BY FieldsOfMeans
  <2> HIDE DEF L
  <2> QED BY <1>6, <2>1, Zenon
<1>15. KeepsTree(mid, Overlay(mid, w))
  <2>1. \A q \in DOMAIN w : ~IsHolder(w, q)
    BY <1>3, <1>4, <1>8, TextIsNoHolder
  <2>2. DOMAIN w \subseteq FieldsOf(P, L) /\ \A p \in P : IsRecord(mid, p)
    BY <1>8, <1>13, <1>14
  <2> HIDE DEF L
  <2> QED BY <1>10, <1>12, <2>1, <2>2, FieldsOfKeepTree DEF KeepsTree
<1>16. KeepsTree(t, Overlay(mid, w))
  BY <1>12, <1>15, KeepsChain
<1> QED BY <1>1, <1>16

\* What can be set under a name is a path of names.
LEMMA NamedIsPath ==
    ASSUME NEW p, IsPath(p), p # <<>>, Parent(p) \in Seq(STRING), Key(p) \in STRING
    PROVE  p \in Seq(STRING)
<1>1. PICK S : p \in Seq(S)
  BY DEF IsPath
<1>2. PICK n \in Nat : n = Len(p) - 1 /\ n + 1 = Len(p) /\ n \in Int /\ 1 \in Int
  <2>1. Len(p) \in Nat /\ Len(p) > 0
    BY <1>1, EmptySeq
  <2>2. PICK m \in Nat : m = Len(p) /\ m > 0
    BY <2>1
  <2>3. m - 1 \in Nat /\ m - 1 + 1 = m /\ m - 1 \in Int /\ 1 \in Int
    BY <2>2
  <2> QED BY <2>2, <2>3
<1>3. \A i \in 1..n : p[i] \in S
  BY <1>1, <1>2
<1>4. /\ SubSeq(p, 1, n) \in Seq(S)
      /\ Len(SubSeq(p, 1, n)) = IF 1 <= n THEN n - 1 + 1 ELSE 0
      /\ \A i \in 1..(n - 1 + 1) : SubSeq(p, 1, n)[i] = p[1 + i - 1]
  BY <1>2, <1>3, SubSeqProperties
<1>5. Parent(p) = SubSeq(p, 1, n)
  BY <1>2 DEF Parent
<1>6. Len(Parent(p)) = n /\ \A i \in 1..n : Parent(p)[i] = p[i]
  <2>1. Len(SubSeq(p, 1, n)) = n /\ \A i \in 1..n : SubSeq(p, 1, n)[i] = p[i]
    BY <1>2, <1>4
  <2> QED BY <1>5, <2>1
<1>7. \A i \in 1..n : p[i] \in STRING
  <2>1. \A i \in 1..Len(Parent(p)) : Parent(p)[i] \in STRING
    OBVIOUS
  <2> QED BY <1>6, <2>1
<1>8. p[n + 1] \in STRING
  BY <1>2 DEF Key
<1>9. \A i \in 1..Len(p) : p[i] \in STRING
  BY <1>2, <1>7, <1>8
<1> QED BY <1>1, <1>9
\* The key of a text is one of those looked at.
LEMMA TextKeyMeans ==
    ASSUME NEW t, NEW p, NEW keys, DOMAIN keys \subseteq Nat, NEW default, NEW S,
           \A i \in DOMAIN keys : keys[i] \in S, default \in S
    PROVE  TextKey(t, p, keys, default) \in S
<1> DEFINE texts == {i \in DOMAIN keys : IsText(Field(t, p, keys[i]))}
           least == CHOOSE i \in texts : \A j \in texts : i <= j
<1>1. TextKey(t, p, keys, default) = IF texts = {} THEN default ELSE keys[least]
  BY DEF TextKey
<1>2. texts \in SUBSET Nat /\ texts \subseteq DOMAIN keys
  OBVIOUS
<1> HIDE DEF texts
<1>3. texts # {} => \E i \in texts : \A j \in texts : i <= j
  BY <1>2, LeastNatural
<1>4. texts # {} => least \in texts
  BY <1>3
<1> HIDE DEF least
<1> QED BY <1>1, <1>2, <1>4
\* The editor's name of a field that can be set stands for a path of names.
LEMMA FieldPathMeans ==
    ASSUME NEW t, Hangs(t), NEW f, f.path \in Seq(STRING), CanSet(t, FieldPath(t, f))
    PROVE  FieldPath(t, f) \in Seq(STRING) \ {<<>>}
<1> DEFINE p == FieldPath(t, f)
           item == TextKey(t, <<"items", f.path[1]>>, <<"caption", "label", "word", "text">>, "caption")
           word == TextKey(t, <<"items", f.path[1]>>, <<"word", "caption", "label">>, "word")
           Names == {"question", "text", "sentence", "letter", "caption", "label", "word"}
<1>1. IsPath(p) /\ p # <<>> /\ HasPlace(t, p)
  BY FieldPathIsPath DEF CanSet
<1>2. item \in Names /\ word \in Names
  <2>1. \A i \in DOMAIN <<"caption", "label", "word", "text">> :
            <<"caption", "label", "word", "text">>[i] \in Names
    OBVIOUS
  <2>2. \A i \in DOMAIN <<"word", "caption", "label">> : <<"word", "caption", "label">>[i] \in Names
    OBVIOUS
  <2>3. DOMAIN <<"caption", "label", "word", "text">> \subseteq Nat
        /\ DOMAIN <<"word", "caption", "label">> \subseteq Nat
    OBVIOUS
  <2>4. "caption" \in Names /\ "word" \in Names
    OBVIOUS
  <2>5. PICK four, three : /\ four = <<"caption", "label", "word", "text">>
                           /\ three = <<"word", "caption", "label">>
    OBVIOUS
  <2>6. /\ DOMAIN four \subseteq Nat /\ \A i \in DOMAIN four : four[i] \in Names
        /\ DOMAIN three \subseteq Nat /\ \A i \in DOMAIN three : three[i] \in Names
    BY <2>1, <2>2, <2>3, <2>5, Zenon
  <2> HIDE DEF Names
  <2>7. \A q : TextKey(t, q, four, "caption") \in Names /\ TextKey(t, q, three, "word") \in Names
    BY <2>4, <2>6, TextKeyMeans
  <2> QED BY <2>5, <2>7, Zenon
<1>3. Names \subseteq OwnNames
  BY DEF OwnNames
<1>4. Names \subseteq STRING
  <2>1. OwnNames \subseteq STRING \ IndexKeys
    BY LabelAssumption, Zenon
  <2> HIDE DEF Names
  <2> QED BY <1>3, <2>1
<1>5. Parent(p) \in Seq(STRING)
  <2>1. IsRecord(t, Parent(p)) \/ IsArray(t, Parent(p))
    BY <1>1 DEF HasPlace
  <2>2. Parent(p) \in DOMAIN t
    BY <2>1, Zenon DEF IsRecord, IsArray, Has
  <2> QED BY <2>2 DEF Hangs
<1>6. \/ p = f.path
      \/ \E a, b : \E c \in Names : p = <<a, b, c>>
      \/ \E a, b, c, d : \E e \in Names : p = <<a, b, c, d, e>>
  <2>1. {"question", "sentence", "letter", "text"} \subseteq Names
    OBVIOUS
  <2> HIDE DEF Names, item, word
  <2>2. \/ p = f.path
        \/ \E a, b : \E c \in {"question", "sentence", "letter", item, word} : p = <<a, b, c>>
        \/ \E a, b, c, d : p = <<a, b, c, d, "text">>
    BY DEF FieldPath, item, word
  <2> QED BY <1>2, <2>1, <2>2, Zenon
<1> HIDE DEF p, Names
<1>7. CASE p = f.path
  BY <1>1, <1>7 DEF p
<1>8. CASE \E a, b : \E c \in Names : p = <<a, b, c>>
  <2>1. PICK a, b, c : c \in Names /\ p = <<a, b, c>>
    BY <1>8
  <2>2. Key(p) = c
    BY <2>1 DEF Key
  <2> QED BY <1>1, <1>4, <1>5, <2>1, <2>2, NamedIsPath DEF p
<1>9. CASE \E a, b, c, d : \E e \in Names : p = <<a, b, c, d, e>>
  <2>1. PICK a, b, c, d, e : e \in Names /\ p = <<a, b, c, d, e>>
    BY <1>9
  <2>2. Key(p) = e
    BY <2>1 DEF Key
  <2> QED BY <1>1, <1>4, <1>5, <2>1, <2>2, NamedIsPath DEF p
<1> QED BY <1>6, <1>7, <1>8, <1>9
=============================================================================
