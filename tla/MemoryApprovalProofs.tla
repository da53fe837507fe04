------------------------ MODULE MemoryApprovalProofs ------------------------
(***************************************************************************)
(* Proofs about MemoryApproval, for any texts, items, proposals and        *)
(* requests.                                                               *)
(***************************************************************************)
EXTENDS MemoryApproval, FiniteSetTheorems, SequenceTheorems, WellFoundedInduction, TLAPS

-----------------------------------------------------------------------------
(* Induction and folds.  The induction theorems of the library take an     *)
(* operator; the forms below take a set or a function, which the provers   *)
(* can instantiate.                                                        *)

LEMMA Induction ==
    ASSUME NEW T, 0 \in T, \A n \in Nat : n \in T => n + 1 \in T
    PROVE  Nat \subseteq T
  <1> SUFFICES ASSUME Nat \ T # {} PROVE FALSE
    OBVIOUS
  <1> DEFINE U == Nat \ T
  <1>1. PICK n \in U : \A m \in U : ~ (<<m, n>> \in OpToRel(<, Nat))
    <2>1. U \subseteq Nat /\ U # {}
      OBVIOUS
    <2> DEFINE R == OpToRel(<, Nat)
    <2>2. IsWellFoundedOn(R, Nat)
      BY NatLessThanWellFounded, Zenon
    <2> HIDE DEF U, R
    <2>3. \E n \in U : \A m \in U : ~ (<<m, n>> \in R)
      BY <2>1, <2>2, WFMin, Zenon
    <2> QED
      BY <2>3, Zenon DEF R
  <1>2. \A m \in U : ~(m < n)
    BY <1>1 DEF OpToRel
  <1>3. n # 0 /\ n \in Nat
    OBVIOUS
  <1>4. n - 1 \in Nat /\ n - 1 < n /\ (n - 1) + 1 = n
    BY <1>3
  <1>5. n - 1 \in T
    BY <1>2, <1>4
  <1> QED
    BY <1>4, <1>5

(* A finite set of numbers that is not empty has a greatest.               *)
LEMMA MaxOfSet ==
    ASSUME NEW n \in Nat, NEW S \in SUBSET (1 .. n), S # {}
    PROVE  /\ Max(S) \in S
           /\ \A i \in S : Max(S) >= i
  <1> DEFINE Has(m) == \A R \in SUBSET (1 .. m) : R # {} => \E x \in R : \A y \in R : x >= y
             T == {m \in Nat : Has(m)}
  <1>1. Has(0)
    <2>1. \A R \in SUBSET (1 .. 0) : R = {}
      OBVIOUS
    <2> QED
      BY <2>1
  <1>2. ASSUME NEW m \in Nat, Has(m) PROVE Has(m + 1)
    <2> SUFFICES ASSUME NEW R \in SUBSET (1 .. m + 1), R # {}
                 PROVE  \E x \in R : \A y \in R : x >= y
      OBVIOUS
    <2>1. CASE m + 1 \in R
      BY <2>1
    <2>2. CASE m + 1 \notin R
      <3>1. R \in SUBSET (1 .. m)
        BY <2>2
      <3> QED
        BY <1>2, <3>1
    <2> QED
      BY <2>1, <2>2
  <1>3. Has(n)
    <2> HIDE DEF Has
    <2>1. 0 \in T
      BY <1>1
    <2>2. \A m \in Nat : m \in T => m + 1 \in T
      BY <1>2
    <2>3. n \in T
      <3> HIDE DEF T
      <3> QED
        BY <2>1, <2>2, Induction
    <2> QED
      BY <2>3
  <1>4. \E x \in S : \A y \in S : x >= y
    BY <1>3
  <1> QED
    BY <1>4 DEF Max

LEMMA MaxOfInterval ==
    ASSUME NEW i \in Nat, i # 0
    PROVE  Max(1 .. i) = i /\ (1 .. i) \ {i} = 1 .. (i - 1)
  <1>2. i \in 1 .. i /\ 1 .. i \in SUBSET (1 .. i) /\ 1 .. i # {}
    OBVIOUS
  <1>1. Max(1 .. i) \in 1 .. i /\ \A j \in 1 .. i : Max(1 .. i) >= j
    BY <1>2, MaxOfSet
  <1>3. (1 .. i) \ {i} = 1 .. (i - 1)
    OBVIOUS
  <1> QED
    BY <1>1, <1>2, <1>3

(* There is a function that folds every subset of 1 .. n from the left.    *)
IsFold(g, n, base, F) ==
    \A S \in SUBSET (1 .. n) :
        g[S] = IF S = {} THEN base ELSE F[<<g[S \ {Max(S)}], Max(S)>>]

LEMMA SetFold ==
    ASSUME NEW n \in Nat, NEW V, NEW base \in V, NEW F \in [V \X (1 .. n) -> V]
    PROVE  \E g \in [SUBSET (1 .. n) -> V] : IsFold(g, n, base, F)
  <1> DEFINE Folded(m) == \E g \in [SUBSET (1 .. m) -> V] : IsFold(g, m, base, F)
             Has(m) == m <= n => Folded(m)
             T == {m \in Nat : Has(m)}
  <1>1. Has(0)
    <2> DEFINE g == [S \in SUBSET (1 .. 0) |-> base]
    <2>1. \A S \in SUBSET (1 .. 0) : S = {}
      OBVIOUS
    <2>2. g \in [SUBSET (1 .. 0) -> V]
      OBVIOUS
    <2>3. \A S \in SUBSET (1 .. 0) : g[S] = base
      OBVIOUS
    <2>4. IsFold(g, 0, base, F)
      <3> HIDE DEF g
      <3> QED
        BY <2>1, <2>3 DEF IsFold
    <2> QED
      BY <2>2, <2>4
  <1>2. ASSUME NEW m \in Nat, Has(m) PROVE Has(m + 1)
    <2> SUFFICES ASSUME m + 1 <= n
                 PROVE  \E g \in [SUBSET (1 .. m + 1) -> V] : IsFold(g, m + 1, base, F)
      OBVIOUS
    <2>0. Folded(m)
      <3> HIDE DEF Folded
      <3> QED
        BY <1>2
    <2>1. PICK g \in [SUBSET (1 .. m) -> V] : IsFold(g, m, base, F)
      BY <2>0, Zenon
    <2>a. m + 1 \in 1 .. n
      OBVIOUS
    <2> DEFINE Put(S) == F[<<g[S \ {m + 1}], m + 1>>]
               h == [S \in SUBSET (1 .. m + 1) |-> IF m + 1 \in S THEN Put(S) ELSE g[S]]
    <2>2. ASSUME NEW S \in SUBSET (1 .. m + 1), m + 1 \in S
          PROVE  S \ {m + 1} \in SUBSET (1 .. m) /\ Put(S) \in V
      <3>1. S \ {m + 1} \in SUBSET (1 .. m)
        OBVIOUS
      <3>2. g[S \ {m + 1}] \in V
        BY <3>1
      <3> QED
        BY <3>1, <3>2, <2>a
    <2>3. ASSUME NEW S \in SUBSET (1 .. m + 1), m + 1 \notin S
          PROVE  S \in SUBSET (1 .. m) /\ g[S] \in V
      <3>1. S \in SUBSET (1 .. m)
        BY <2>3
      <3> QED
        BY <3>1
    <2>4. h \in [SUBSET (1 .. m + 1) -> V]
      <3> HIDE DEF Put
      <3> QED
        BY <2>2, <2>3
    <2>5. ASSUME NEW S \in SUBSET (1 .. m) PROVE S \in SUBSET (1 .. m + 1) /\ h[S] = g[S]
      <3>1. S \in SUBSET (1 .. m + 1) /\ m + 1 \notin S
        OBVIOUS
      <3> QED
        BY <3>1
    <2>6. ASSUME NEW S \in SUBSET (1 .. m + 1)
          PROVE  h[S] = IF S = {} THEN base ELSE F[<<h[S \ {Max(S)}], Max(S)>>]
      <3>1. CASE m + 1 \in S
        <4>1. Max(S) = m + 1
          <5> HIDE DEF h, Put
          <5>1. m + 1 \in Nat /\ S # {}
            BY <3>1
          <5>2. Max(S) \in S /\ \A i \in S : Max(S) >= i
            BY <5>1, MaxOfSet
          <5>3. Max(S) \in 1 .. m + 1 /\ Max(S) >= m + 1
            BY <3>1, <5>2
          <5> QED
            BY <5>3
        <4>2. h[S] = Put(S)
          BY <3>1
        <4>3. h[S \ {m + 1}] = g[S \ {m + 1}]
          <5> HIDE DEF h
          <5> QED
            BY <2>2, <2>5, <3>1
        <4> HIDE DEF h
        <4> QED
          BY <3>1, <4>1, <4>2, <4>3
      <3>2. CASE m + 1 \notin S
        <4>1. S \in SUBSET (1 .. m)
          BY <3>2
        <4>2. g[S] = IF S = {} THEN base ELSE F[<<g[S \ {Max(S)}], Max(S)>>]
          BY <2>1, <4>1 DEF IsFold
        <4>3. S \ {Max(S)} \in SUBSET (1 .. m)
          BY <4>1
        <4> HIDE DEF h
        <4>4. h[S] = g[S] /\ h[S \ {Max(S)}] = g[S \ {Max(S)}]
          BY <2>5, <4>1, <4>3
        <4> QED
          BY <4>2, <4>4
      <3> QED
        BY <3>1, <3>2
    <2> HIDE DEF h
    <2>7. IsFold(h, m + 1, base, F)
      BY <2>6 DEF IsFold
    <2> QED
      BY <2>4, <2>7
  <1>3. Has(n)
    <2> HIDE DEF Has
    <2>1. 0 \in T
      BY <1>1
    <2>2. \A m \in Nat : m \in T => m + 1 \in T
      BY <1>2
    <2>3. n \in T
      <3> HIDE DEF T
      <3> QED
        BY <2>1, <2>2, Induction
    <2> QED
      BY <2>3
  <1>4. Folded(n)
    <2> HIDE DEF Folded
    <2> QED
      BY <1>3
  <1> QED
    BY <1>4, Zenon

(* Induction up to a bound.                                                *)
LEMMA UpTo ==
    ASSUME NEW n \in Nat, NEW T, 0 \in T, \A i \in 1 .. n : i - 1 \in T => i \in T
    PROVE  \A i \in 0 .. n : i \in T
  <1> DEFINE U == {i \in Nat : i <= n => i \in T}
  <1>1. 0 \in U
    OBVIOUS
  <1>2. ASSUME NEW m \in Nat, m \in U PROVE m + 1 \in U
    <2>1. m + 1 <= n => m + 1 \in 1 .. n /\ (m + 1) - 1 = m /\ m <= n
      OBVIOUS
    <2> QED
      BY <1>2, <2>1
  <1>3. Nat \subseteq U
    <2> HIDE DEF U
    <2> QED
      BY <1>1, <1>2, Induction
  <1> QED
    BY <1>3

-----------------------------------------------------------------------------
(* Deduplication.                                                          *)

Kept(out, item) ==
    IF item = Blank \/ \E i \in DOMAIN out : Key[out[i]] = Key[item]
    THEN out ELSE Append(out, item)

DedupeOn(g, items) ==
    g = [S \in SUBSET DOMAIN items |->
            IF S = {} THEN <<>> ELSE Kept(g[S \ {Max(S)}], items[Max(S)])]

Unrolled(h, items) ==
    /\ h[0] = <<>>
    /\ \A i \in 1 .. Len(items) : h[i] = Kept(h[i - 1], items[i])

LEMMA KeptType ==
    ASSUME NEW out \in Seq(Items), NEW item \in Items \union {Blank}
    PROVE  Kept(out, item) \in Seq(Items)
  BY DEF Kept

(* Dedupe takes the items one after the other.                             *)
LEMMA DedupeUnrolled ==
    ASSUME NEW items \in Seq(Items \union {Blank})
    PROVE  \E h \in [0 .. Len(items) -> Seq(Items)] :
              Unrolled(h, items) /\ Dedupe(items) = h[Len(items)]
  <1> DEFINE n == Len(items)
             V == Seq(Items)
             F == [z \in V \X (1 .. n) |-> Kept(z[1], items[z[2]])]
             G == CHOOSE g : DedupeOn(g, items)
             h == [i \in 0 .. n |-> G[1 .. i]]
  <1>0. n \in Nat /\ DOMAIN items = 1 .. n /\ <<>> \in V
    OBVIOUS
  <1>1. Dedupe(items) = G[1 .. n]
    <2>1. Dedupe(items) = G[DOMAIN items]
      BY Zenon DEF Dedupe, FoldLeft, MapThenFoldSet, DedupeOn, Kept
    <2> QED
      BY <1>0, <2>1, Zenon
  <1>2. ASSUME NEW v \in V, NEW i \in 1 .. n
        PROVE  F[<<v, i>>] = Kept(v, items[i]) /\ Kept(v, items[i]) \in V
    BY KeptType
  <1>3. F \in [V \X (1 .. n) -> V]
    BY KeptType
  <1>4. PICK g \in [SUBSET (1 .. n) -> V] : IsFold(g, n, <<>>, F)
    <2> HIDE DEF n, V, F
    <2> QED
      BY <1>0, <1>3, SetFold
  <1>5. DedupeOn(g, items)
    <2>1. ASSUME NEW S \in SUBSET (1 .. n)
          PROVE  g[S] = IF S = {} THEN <<>> ELSE Kept(g[S \ {Max(S)}], items[Max(S)])
      <3> HIDE DEF F, n, V
      <3>1. S # {} => Max(S) \in 1 .. n
        BY <1>0, MaxOfSet
      <3>2. g[S \ {Max(S)}] \in V
        OBVIOUS
      <3>3. g[S] = IF S = {} THEN <<>> ELSE F[<<g[S \ {Max(S)}], Max(S)>>]
        BY <1>4 DEF IsFold
      <3> QED
        BY <1>2, <3>1, <3>2, <3>3
    <2> HIDE DEF n, V, F
    <2> QED
      BY <1>0, <1>4, <2>1 DEF DedupeOn
  <1>6. DedupeOn(G, items)
    BY <1>5, Zenon
  <1> HIDE DEF G
  <1>7. G[{}] = <<>>
    BY <1>6, <1>0 DEF DedupeOn
  <1>8. ASSUME NEW i \in 1 .. n PROVE G[1 .. i] = Kept(G[1 .. (i - 1)], items[i])
    <2>1. 1 .. i \in SUBSET DOMAIN items /\ 1 .. i # {}
      <3>1. i \in 1 .. i /\ 1 .. i \subseteq 1 .. n
        BY <1>0
      <3> QED
        BY <3>1, <1>0
    <2>2. Max(1 .. i) = i /\ (1 .. i) \ {i} = 1 .. (i - 1)
      BY MaxOfInterval
    <2>3. G[1 .. i] = Kept(G[(1 .. i) \ {Max(1 .. i)}], items[Max(1 .. i)])
      BY <1>6, <2>1 DEF DedupeOn
    <2> QED
      BY <2>2, <2>3
  <1>9. Unrolled(h, items)
    <2>1. h[0] = <<>>
      <3>1. 1 .. 0 = {}
        OBVIOUS
      <3> QED
        BY <1>7, <3>1, <1>0
    <2>2. ASSUME NEW i \in 1 .. n PROVE h[i] = Kept(h[i - 1], items[i])
      <3>1. i \in 0 .. n /\ i - 1 \in 0 .. n
        OBVIOUS
      <3> QED
        BY <1>8, <3>1
    <2> HIDE DEF h
    <2> QED
      BY <2>1, <2>2 DEF Unrolled
  <1>10. h \in [0 .. n -> V]
    <2> DEFINE T == {i \in 0 .. n : h[i] \in V}
    <2> HIDE DEF h
    <2>1. 0 \in T
      <3>1. 0 \in 0 .. n /\ h[0] \in V
        BY <1>9, <1>0 DEF Unrolled
      <3> QED
        BY <3>1
    <2>2. ASSUME NEW i \in 1 .. n, i - 1 \in T PROVE i \in T
      BY <2>2, <1>9, <1>0, KeptType DEF Unrolled
    <2>3. \A i \in 0 .. n : i \in T
      <3> HIDE DEF T, n
      <3> QED
        BY <1>0, <2>1, <2>2, UpTo
    <2> QED
      BY <2>3 DEF h
  <1> QED
    <2>1. Dedupe(items) = h[n]
      BY <1>1, <1>0
    <2> HIDE DEF h
    <2> QED
      BY <1>9, <1>10, <2>1

Distinct(items) == \A i, j \in DOMAIN items : Key[items[i]] = Key[items[j]] => i = j

LEMMA KeptFacts ==
    ASSUME NEW out \in Seq(Items), NEW item \in Items \union {Blank}
    PROVE  /\ Distinct(out) => Distinct(Kept(out, item))
           /\ Len(out) <= Len(Kept(out, item))
           /\ \A j \in DOMAIN out : Kept(out, item)[j] = out[j]
           /\ \A j \in DOMAIN Kept(out, item) :
                 j \in DOMAIN out \/ (item # Blank /\ Kept(out, item)[j] = item)
           /\ item # Blank => \E j \in DOMAIN Kept(out, item) :
                                 Key[Kept(out, item)[j]] = Key[item]
  <1>1. CASE item = Blank \/ \E i \in DOMAIN out : Key[out[i]] = Key[item]
    <2>1. Kept(out, item) = out
      BY <1>1 DEF Kept
    <2> QED
      BY <1>1, <2>1
  <1>2. CASE ~ (item = Blank \/ \E i \in DOMAIN out : Key[out[i]] = Key[item])
    <2>1. Kept(out, item) = Append(out, item)
      BY <1>2 DEF Kept
    <2> DEFINE app == Append(out, item)
    <2>2. /\ DOMAIN app = 1 .. Len(out) + 1
          /\ DOMAIN out = 1 .. Len(out)
          /\ Len(app) = Len(out) + 1
          /\ app[Len(out) + 1] = item
          /\ \A j \in DOMAIN out : app[j] = out[j]
          /\ Len(out) \in Nat
      OBVIOUS
    <2> HIDE DEF app
    <2>3. \A j \in DOMAIN app : j \in DOMAIN out \/ app[j] = item
      BY <2>2
    <2>4. Distinct(out) => Distinct(app)
      <3> SUFFICES ASSUME Distinct(out), NEW i \in DOMAIN app, NEW j \in DOMAIN app,
                          Key[app[i]] = Key[app[j]], i # j
                   PROVE  FALSE
        BY DEF Distinct
      <3>1. CASE i \in DOMAIN out /\ j \in DOMAIN out
        BY <2>2, <3>1 DEF Distinct
      <3>2. CASE i \notin DOMAIN out
        <4>1. j \in DOMAIN out /\ app[i] = item
          BY <2>2, <3>2
        <4> QED
          BY <4>1, <2>2, <1>2
      <3>3. CASE j \notin DOMAIN out
        <4>1. i \in DOMAIN out /\ app[j] = item
          BY <2>2, <3>3
        <4> QED
          BY <4>1, <2>2, <1>2
      <3> QED
        BY <3>1, <3>2, <3>3
    <2>5. \E j \in DOMAIN app : Key[app[j]] = Key[item]
      <3>1. Len(out) + 1 \in DOMAIN app
        BY <2>2
      <3> QED
        BY <3>1, <2>2
    <2>6. Kept(out, item) = app
      BY <2>1 DEF app
    <2>7. Len(out) <= Len(app)
      BY <2>2
    <2> QED
      BY <1>2, <2>2, <2>3, <2>4, <2>5, <2>6, <2>7
  <1> QED
    BY <1>1, <1>2

(* What has been kept of the first i items.                                *)
KeptSoFar(h, items, i) ==
    /\ Distinct(h[i])
    /\ \A j \in DOMAIN h[i] : \E m \in 1 .. i : items[m] # Blank /\ h[i][j] = items[m]
    /\ \A m \in 1 .. i :
          items[m] # Blank => \E j \in DOMAIN h[i] : Key[h[i][j]] = Key[items[m]]

LEMMA UnrolledFacts ==
    ASSUME NEW items \in Seq(Items \union {Blank}),
           NEW h \in [0 .. Len(items) -> Seq(Items)], Unrolled(h, items)
    PROVE  \A i \in 0 .. Len(items) : KeptSoFar(h, items, i)
  <1> DEFINE n == Len(items)
             T == {i \in 0 .. n : KeptSoFar(h, items, i)}
  <1>1. 0 \in T
    BY DEF KeptSoFar, Unrolled, Distinct
  <1>2. ASSUME NEW i \in 1 .. n, i - 1 \in T PROVE i \in T
    <2> DEFINE out == h[i - 1]
               item == items[i]
    <2>1. /\ i \in 0 .. n /\ i - 1 \in 0 .. n /\ i \in 1 .. i
          /\ \A m \in 1 .. i : m \in 1 .. i - 1 \/ m = i
          /\ \A m \in 1 .. i - 1 : m \in 1 .. i
          /\ KeptSoFar(h, items, i - 1)
          /\ h[i] = Kept(out, item)
          /\ out \in Seq(Items) /\ item \in Items \union {Blank}
      BY <1>2 DEF Unrolled
    <2> HIDE DEF out, item
    <2>2. /\ Distinct(out) => Distinct(h[i])
          /\ Len(out) <= Len(h[i])
          /\ \A j \in DOMAIN out : h[i][j] = out[j]
          /\ \A j \in DOMAIN h[i] : j \in DOMAIN out \/ (item # Blank /\ h[i][j] = item)
          /\ item # Blank => \E j \in DOMAIN h[i] : Key[h[i][j]] = Key[item]
      BY <2>1, KeptFacts
    <2>3. DOMAIN out \subseteq DOMAIN h[i]
      <3>1. h[i] \in Seq(Items)
        BY <2>1
      <3> QED
        BY <2>1, <2>2, <3>1
    <2>4. Distinct(h[i])
      BY <2>1, <2>2 DEF KeptSoFar, out
    <2>5. ASSUME NEW j \in DOMAIN h[i]
          PROVE  \E m \in 1 .. i : items[m] # Blank /\ h[i][j] = items[m]
      <3>1. CASE j \in DOMAIN out
        <4>1. \E m \in 1 .. i - 1 : items[m] # Blank /\ out[j] = items[m]
          BY <2>1, <3>1 DEF KeptSoFar, out
        <4> QED
          BY <4>1, <2>1, <2>2, <3>1
      <3>2. CASE j \notin DOMAIN out
        BY <2>1, <2>2, <3>2 DEF item
      <3> QED
        BY <3>1, <3>2
    <2>6. ASSUME NEW m \in 1 .. i, items[m] # Blank
          PROVE  \E j \in DOMAIN h[i] : Key[h[i][j]] = Key[items[m]]
      <3>1. CASE m = i
        BY <2>2, <2>6, <3>1 DEF item
      <3>2. CASE m \in 1 .. i - 1
        <4>1. PICK j \in DOMAIN out : Key[out[j]] = Key[items[m]]
          BY <2>1, <2>6, <3>2 DEF KeptSoFar, out
        <4> QED
          BY <4>1, <2>2, <2>3
      <3> QED
        BY <2>1, <3>1, <3>2
    <2>7. KeptSoFar(h, items, i)
      BY <2>4, <2>5, <2>6 DEF KeptSoFar
    <2> QED
      BY <2>1, <2>7
  <1>3. \A i \in 0 .. n : i \in T
    <2>1. n \in Nat
      OBVIOUS
    <2> HIDE DEF T, n
    <2> QED
      BY <1>1, <1>2, <2>1, UpTo
  <1> QED
    BY <1>3

(* Items that begin with distinct ones keep these in front.                *)
LEMMA PrefixIsKept ==
    ASSUME NEW items \in Seq(Items \union {Blank}), NEW k \in 0 .. Len(items),
           \A j \in 1 .. k : items[j] \in Items,
           \A j, m \in 1 .. k : Key[items[j]] = Key[items[m]] => j = m
    PROVE  /\ k <= Len(Dedupe(items))
           /\ \A j \in 1 .. k : Dedupe(items)[j] = items[j]
           /\ k = Len(items) => Len(Dedupe(items)) = k
  <1> DEFINE n == Len(items)
  <1>1. PICK h \in [0 .. n -> Seq(Items)] : Unrolled(h, items) /\ Dedupe(items) = h[n]
    BY DedupeUnrolled
  <1> DEFINE T == {i \in 0 .. n : /\ \A j \in 1 .. k : j <= i => j \in DOMAIN h[i] /\ h[i][j] = items[j]
                                  /\ i <= k => Len(h[i]) = i}
  <1>2. 0 \in T
    <2>1. h[0] = <<>> /\ 0 \in 0 .. n /\ \A j \in 1 .. k : ~(j <= 0)
      BY <1>1 DEF Unrolled
    <2> QED
      BY <2>1
  <1>3. ASSUME NEW i \in 1 .. n, i - 1 \in T PROVE i \in T
    <2> DEFINE out == h[i - 1]
               item == items[i]
    <2>1. /\ i \in 0 .. n /\ i - 1 \in 0 .. n
          /\ h[i] = Kept(out, item)
          /\ h[i] \in Seq(Items)
          /\ out \in Seq(Items) /\ item \in Items \union {Blank}
      <3>1. i \in 0 .. n /\ i - 1 \in 0 .. n /\ i \in 1 .. Len(items)
        OBVIOUS
      <3>2. h[i] = Kept(out, item)
        BY <1>1, <3>1 DEF Unrolled
      <3>3. h[i] \in Seq(Items) /\ out \in Seq(Items)
        BY <3>1
      <3>4. item \in Items \union {Blank}
        BY <3>1
      <3> QED
        BY <3>1, <3>2, <3>3, <3>4
    <2>2. /\ \A j \in 1 .. k : j <= i - 1 => j \in DOMAIN out /\ out[j] = items[j]
          /\ i - 1 <= k => Len(out) = i - 1
      BY <1>3
    <2> HIDE DEF out, T
    <2>3. Len(out) <= Len(h[i]) /\ \A j \in DOMAIN out : h[i][j] = out[j]
      <3>1. /\ Len(out) <= Len(Kept(out, item))
            /\ \A j \in DOMAIN out : Kept(out, item)[j] = out[j]
        BY <2>1, KeptFacts
      <3> QED
        BY <2>1, <3>1
    <2>4. ASSUME i <= k
          PROVE  Len(h[i]) = i /\ h[i][i] = items[i]
      <3>1. Len(out) = i - 1 /\ i \in 1 .. k /\ DOMAIN out = 1 .. i - 1
        BY <2>1, <2>2, <2>4
      <3>2. \A j \in DOMAIN out : Key[out[j]] # Key[item]
        BY <2>2, <2>4, <3>1
      <3>3. item # Blank
        BY <3>1, ItemsAssumption
      <3>4. h[i] = Append(out, item)
        BY <2>1, <3>2, <3>3 DEF Kept
      <3> QED
        BY <2>1, <3>1, <3>4
    <2>5. ASSUME NEW j \in 1 .. k, j <= i PROVE j \in DOMAIN h[i] /\ h[i][j] = items[j]
      <3>1. CASE j = i
        BY <2>1, <2>4, <2>5, <3>1
      <3>2. CASE j # i
        <4>1. j \in DOMAIN out /\ out[j] = items[j]
          BY <2>2, <2>5, <3>2
        <4> QED
          BY <2>1, <2>3, <4>1
      <3> QED
        BY <3>1, <3>2
    <2> QED
      BY <2>1, <2>4, <2>5 DEF T
  <1>4. n \in T
    <2>1. n \in Nat
      OBVIOUS
    <2>2. \A i \in 0 .. n : i \in T
      <3> HIDE DEF T, n
      <3> QED
        BY <1>2, <1>3, <2>1, UpTo
    <2> QED
      BY <2>1, <2>2
  <1>5. k = 0 \/ k \in 1 .. k
    OBVIOUS
  <1>6. h[n] \in Seq(Items)
    OBVIOUS
  <1>7. k <= Len(h[n])
    BY <1>4, <1>5, <1>6
  <1> QED
    BY <1>1, <1>4, <1>7

(* An item is among the first of its key.                                  *)
Fresh(items) == {i \in DOMAIN items :
                   /\ items[i] # Blank
                   /\ \A j \in 1 .. i - 1 :
                         items[j] # Blank => Key[items[j]] # Key[items[i]]}
FreshUpTo(items, i) == {j \in Fresh(items) : j <= i}
Rank(items, i)      == Cardinality(FreshUpTo(items, i))

Ranked(h, items, i) ==
    /\ Len(h[i]) = Rank(items, i)
    /\ \A m \in FreshUpTo(items, i) :
          Rank(items, m) \in DOMAIN h[i] /\ h[i][Rank(items, m)] = items[m]
    /\ \A k \in DOMAIN h[i] : \E m \in FreshUpTo(items, i) : Rank(items, m) = k

LEMMA UnrolledIsRanked ==
    ASSUME NEW items \in Seq(Items \union {Blank}),
           NEW h \in [0 .. Len(items) -> Seq(Items)], Unrolled(h, items)
    PROVE  \A i \in 0 .. Len(items) : Ranked(h, items, i)
  <1> DEFINE n == Len(items)
             T == {i \in 0 .. n : Ranked(h, items, i)}
  <1>0. n \in Nat /\ DOMAIN items = 1 .. n /\ Fresh(items) \subseteq 1 .. n
    BY DEF Fresh
  <1>f. ASSUME NEW i \in 0 .. n PROVE IsFiniteSet(FreshUpTo(items, i))
    <2>1. FreshUpTo(items, i) \in SUBSET (1 .. n)
      BY <1>0 DEF FreshUpTo
    <2>2. IsFiniteSet(1 .. n)
      BY <1>0, FS_Interval
    <2> QED
      BY <2>1, <2>2, FS_Subset
  <1>1. 0 \in T
    <2>1. h[0] = <<>> /\ 0 \in 0 .. n
      BY <1>0 DEF Unrolled
    <2>2. FreshUpTo(items, 0) = {}
      BY <1>0 DEF FreshUpTo
    <2>3. Rank(items, 0) = 0
      BY <2>2, FS_EmptySet DEF Rank
    <2>4. Ranked(h, items, 0)
      BY <2>1, <2>2, <2>3 DEF Ranked
    <2> QED
      BY <2>1, <2>4
  <1>2. ASSUME NEW i \in 1 .. n, i - 1 \in T PROVE i \in T
    <2> DEFINE out == h[i - 1]
               item == items[i]
    <2>1. /\ i \in 0 .. n /\ i - 1 \in 0 .. n
          /\ h[i] = Kept(out, item)
          /\ out \in Seq(Items) /\ item \in Items \union {Blank}
          /\ Ranked(h, items, i - 1)
      BY <1>2 DEF Unrolled
    <2>2. KeptSoFar(h, items, i - 1)
      BY <2>1, UnrolledFacts
    <2>3. i \in Fresh(items) <=> ~ (item = Blank \/ \E j \in DOMAIN out : Key[out[j]] = Key[item])
      BY <1>0, <2>1, <2>2 DEF Fresh, KeptSoFar
    <2>4. CASE i \notin Fresh(items)
      <3>1. h[i] = out
        BY <2>1, <2>3, <2>4 DEF Kept
      <3>2. FreshUpTo(items, i) = FreshUpTo(items, i - 1)
        BY <1>0, <2>4 DEF FreshUpTo
      <3>3. Ranked(h, items, i)
        BY <2>1, <3>1, <3>2 DEF Ranked, Rank
      <3> QED
        BY <2>1, <3>3
    <2>5. CASE i \in Fresh(items)
      <3>1. h[i] = Append(out, item)
        BY <2>1, <2>3, <2>5 DEF Kept
      <3>2. /\ FreshUpTo(items, i) = FreshUpTo(items, i - 1) \union {i}
            /\ i \notin FreshUpTo(items, i - 1)
        BY <1>0, <2>5 DEF FreshUpTo
      <3>3. Rank(items, i) = Rank(items, i - 1) + 1
        BY <1>f, <2>1, <3>2, FS_AddElement DEF Rank
      <3>4. Len(out) = Rank(items, i - 1)
        BY <2>1 DEF Ranked
      <3>5. /\ Len(h[i]) = Rank(items, i) /\ h[i][Rank(items, i)] = item
            /\ Rank(items, i) \in DOMAIN h[i]
            /\ \A j \in DOMAIN out : j \in DOMAIN h[i] /\ h[i][j] = out[j]
            /\ \A j \in DOMAIN h[i] : j \in DOMAIN out \/ j = Rank(items, i)
        BY <2>1, <3>1, <3>3, <3>4
      <3>6. ASSUME NEW m \in FreshUpTo(items, i)
            PROVE  Rank(items, m) \in DOMAIN h[i] /\ h[i][Rank(items, m)] = items[m]
        BY <2>1, <3>2, <3>5 DEF Ranked
      <3>7. ASSUME NEW k \in DOMAIN h[i]
            PROVE  \E m \in FreshUpTo(items, i) : Rank(items, m) = k
        BY <2>1, <3>2, <3>5 DEF Ranked
      <3>8. Ranked(h, items, i)
        BY <3>5, <3>6, <3>7 DEF Ranked
      <3> QED
        BY <2>1, <3>8
    <2> QED
      BY <2>4, <2>5
  <1>3. \A i \in 0 .. n : i \in T
    <2> HIDE DEF T, n
    <2> QED
      BY <1>0, <1>1, <1>2, UpTo
  <1> QED
    BY <1>3

(* What a section is after parsing.                                        *)
Tidy(items) == items \in Seq(Items) /\ Distinct(items) /\ Len(items) <= MaxItems

LEMMA DedupeFacts ==
    ASSUME NEW items \in Seq(Items \union {Blank})
    PROVE  /\ Dedupe(items) \in Seq(Items)
           /\ Distinct(Dedupe(items))
           /\ Fresh(items) \subseteq DOMAIN items
           /\ \A j \in DOMAIN Dedupe(items) : \E m \in Fresh(items) : Dedupe(items)[j] = items[m]
           /\ \A m \in Fresh(items) : \E j \in DOMAIN Dedupe(items) : Dedupe(items)[j] = items[m]
           /\ \A m \in DOMAIN items : items[m] # Blank =>
                 \E j \in DOMAIN Dedupe(items) : Key[Dedupe(items)[j]] = Key[items[m]]
  <1>1. PICK h \in [0 .. Len(items) -> Seq(Items)] :
            Unrolled(h, items) /\ Dedupe(items) = h[Len(items)]
    BY DedupeUnrolled
  <1>2. Len(items) \in 0 .. Len(items) /\ DOMAIN items = 1 .. Len(items)
    OBVIOUS
  <1>3. KeptSoFar(h, items, Len(items)) /\ h[Len(items)] \in Seq(Items)
    BY <1>1, <1>2, UnrolledFacts
  <1>4. Ranked(h, items, Len(items)) /\ FreshUpTo(items, Len(items)) = Fresh(items)
    BY <1>1, <1>2, UnrolledIsRanked DEF FreshUpTo, Fresh
  <1> DEFINE n == Len(items)
             d == h[n]
  <1>5. /\ Distinct(d)
        /\ \A m \in 1 .. n :
              items[m] # Blank => \E j \in DOMAIN d : Key[d[j]] = Key[items[m]]
    BY <1>3, Zenon DEF KeptSoFar
  <1>6. /\ \A m \in Fresh(items) : Rank(items, m) \in DOMAIN d /\ d[Rank(items, m)] = items[m]
        /\ \A k \in DOMAIN d : \E m \in Fresh(items) : Rank(items, m) = k
    BY <1>4, Zenon DEF Ranked
  <1>7. d = Dedupe(items) /\ d \in Seq(Items)
    BY <1>1, <1>3
  <1>8. Fresh(items) \subseteq DOMAIN items
    BY DEF Fresh
  <1> HIDE DEF d
  <1>9. /\ \A k \in DOMAIN d : \E m \in Fresh(items) : d[k] = items[m]
        /\ \A m \in Fresh(items) : \E k \in DOMAIN d : d[k] = items[m]
    BY <1>6, Zenon
  <1>10. \A m \in DOMAIN items :
            items[m] # Blank => \E j \in DOMAIN d : Key[d[j]] = Key[items[m]]
    BY <1>2, <1>5, Zenon
  <1> QED
    BY <1>5, <1>7, <1>8, <1>9, <1>10, Zenon

(* Capping keeps the front.                                                *)
LEMMA CappedFront ==
    ASSUME NEW items, Dedupe(items) \in Seq(Items)
    PROVE  /\ Capped(items) \in Seq(Items)
           /\ Len(Capped(items)) = IF Len(Dedupe(items)) > MaxItems THEN MaxItems
                                   ELSE Len(Dedupe(items))
           /\ \A j \in DOMAIN Capped(items) :
                 j \in DOMAIN Dedupe(items) /\ Capped(items)[j] = Dedupe(items)[j]
           /\ Len(Dedupe(items)) <= MaxItems => Capped(items) = Dedupe(items)
  <1> DEFINE d == Dedupe(items)
  <1> HIDE DEF d
  <1>1. d \in Seq(Items) /\ MaxItems \in Nat \ {0}
    BY MaxItemsAssumption DEF d
  <1>2. Capped(items) = IF Len(d) > MaxItems THEN SubSeq(d, 1, MaxItems) ELSE d
    BY DEF Capped, d
  <1>3. CASE Len(d) > MaxItems
    <2>1. /\ SubSeq(d, 1, MaxItems) \in Seq(Items)
          /\ Len(SubSeq(d, 1, MaxItems)) = MaxItems
          /\ \A j \in 1 .. MaxItems : SubSeq(d, 1, MaxItems)[j] = d[j]
          /\ 1 .. MaxItems \subseteq DOMAIN d
          /\ DOMAIN SubSeq(d, 1, MaxItems) = 1 .. MaxItems
      BY <1>1, <1>3
    <2> QED
      BY <1>1, <1>2, <1>3, <2>1 DEF d
  <1>4. CASE ~ (Len(d) > MaxItems)
    BY <1>1, <1>2, <1>4 DEF d
  <1> QED
    BY <1>3, <1>4

LEMMA CappedFacts ==
    ASSUME NEW items \in Seq(Items \union {Blank})
    PROVE  /\ Tidy(Capped(items))
           /\ Fresh(items) \subseteq DOMAIN items
           /\ \A j \in DOMAIN Capped(items) : \E m \in Fresh(items) : Capped(items)[j] = items[m]
           /\ \A m \in DOMAIN items : items[m] # Blank =>
                 \/ Len(Capped(items)) = MaxItems
                 \/ \E j \in DOMAIN Capped(items) : Key[Capped(items)[j]] = Key[items[m]]
  <1> DEFINE d == Dedupe(items)
             c == Capped(items)
  <1>1. /\ d \in Seq(Items) /\ Distinct(d)
        /\ Fresh(items) \subseteq DOMAIN items
        /\ \A j \in DOMAIN d : \E m \in Fresh(items) : d[j] = items[m]
        /\ \A m \in DOMAIN items : items[m] # Blank =>
              \E j \in DOMAIN d : Key[d[j]] = Key[items[m]]
    BY DedupeFacts
  <1>2. /\ c \in Seq(Items)
        /\ Len(c) = IF Len(d) > MaxItems THEN MaxItems ELSE Len(d)
        /\ \A j \in DOMAIN c : j \in DOMAIN d /\ c[j] = d[j]
        /\ Len(d) <= MaxItems => c = d
    BY <1>1, CappedFront
  <1> HIDE DEF c, d
  <1>3. MaxItems \in Nat /\ Len(d) \in Nat
    BY <1>1, MaxItemsAssumption
  <1>4. Tidy(c)
    <2>1. Distinct(c)
      BY <1>1, <1>2 DEF Distinct
    <2>2. Len(c) <= MaxItems
      BY <1>2, <1>3
    <2> QED
      BY <1>2, <2>1, <2>2 DEF Tidy
  <1>5. \A j \in DOMAIN c : \E m \in Fresh(items) : c[j] = items[m]
    BY <1>1, <1>2
  <1>6. ASSUME NEW m \in DOMAIN items, items[m] # Blank
        PROVE  Len(c) = MaxItems \/ \E j \in DOMAIN c : Key[c[j]] = Key[items[m]]
    <2>1. CASE Len(d) <= MaxItems
      <3>1. c = d
        BY <1>2, <2>1
      <3> QED
        BY <1>1, <1>6, <3>1
    <2>2. CASE Len(d) > MaxItems
      BY <1>2, <2>2
    <2> QED
      BY <1>3, <2>1, <2>2
  <1> QED
    BY <1>1, <1>4, <1>5, <1>6 DEF c

(* Items added behind a tidy section do not disturb it.                    *)
LEMMA CappedPrefix ==
    ASSUME NEW known, Tidy(known), NEW learned \in Seq(Items \union {Blank})
    PROVE  /\ Len(known) <= Len(Capped(known \o learned))
           /\ \A j \in DOMAIN known :
                 j \in DOMAIN Capped(known \o learned) /\ Capped(known \o learned)[j] = known[j]
  <1> DEFINE all == known \o learned
             k == Len(known)
  <1>1. /\ all \in Seq(Items \union {Blank}) /\ k \in 0 .. Len(all)
        /\ \A j \in 1 .. k : all[j] = known[j] /\ known[j] \in Items
        /\ DOMAIN known = 1 .. k /\ k \in Nat
    BY DEF Tidy
  <1> HIDE DEF all
  <1>2. \A j, m \in 1 .. k : Key[all[j]] = Key[all[m]] => j = m
    BY <1>1 DEF Tidy, Distinct
  <1>3. k <= Len(Dedupe(all)) /\ \A j \in 1 .. k : Dedupe(all)[j] = all[j]
    BY <1>1, <1>2, PrefixIsKept
  <1>4. /\ Capped(all) \in Seq(Items)
        /\ Len(Capped(all)) = IF Len(Dedupe(all)) > MaxItems THEN MaxItems
                              ELSE Len(Dedupe(all))
        /\ \A j \in DOMAIN Capped(all) : Capped(all)[j] = Dedupe(all)[j]
    BY <1>1, DedupeFacts, CappedFront
  <1>5. k <= Len(Capped(all))
    BY <1>3, <1>4 DEF Tidy
  <1>6. DOMAIN known \subseteq DOMAIN Capped(all)
    BY <1>1, <1>4, <1>5
  <1> QED
    BY <1>1, <1>3, <1>4, <1>5, <1>6 DEF all

LEMMA CappedOfTidy ==
    ASSUME NEW items, Tidy(items)
    PROVE  Capped(items) = items
  <1>1. /\ items \in Seq(Items) /\ items \in Seq(Items \union {Blank})
        /\ Len(items) \in 0 .. Len(items)
        /\ \A j \in 1 .. Len(items) : items[j] \in Items
        /\ \A j, m \in 1 .. Len(items) : Key[items[j]] = Key[items[m]] => j = m
        /\ Len(items) <= MaxItems
    BY DEF Tidy, Distinct
  <1>2. /\ Len(Dedupe(items)) = Len(items)
        /\ \A j \in 1 .. Len(items) : Dedupe(items)[j] = items[j]
    BY <1>1, PrefixIsKept
  <1>3. Dedupe(items) \in Seq(Items)
    BY <1>1, DedupeFacts
  <1>4. Dedupe(items) = items
    BY <1>1, <1>2, <1>3
  <1> QED
    BY <1>1, <1>2, <1>3, <1>4, CappedFront

(* The loop agrees with the definition by first occurrence.                *)
LEMMA CappedIsFirstDistinct ==
    ASSUME NEW items \in Seq(Items \union {Blank})
    PROVE  Capped(items) = FirstDistinct(items)
  <1> DEFINE d == Dedupe(items)
             c == Capped(items)
             new == Fresh(items)
             Place(k) == CHOOSE i \in new : Cardinality({j \in new : j <= i}) = k
             kept == Min({MaxItems, Cardinality(new)})
  <1>1. PICK h \in [0 .. Len(items) -> Seq(Items)] :
            Unrolled(h, items) /\ d = h[Len(items)]
    BY DedupeUnrolled
  <1>2. Ranked(h, items, Len(items)) /\ d \in Seq(Items)
    BY <1>1, UnrolledIsRanked
  <1>3. FreshUpTo(items, Len(items)) = new
    BY DEF FreshUpTo, Fresh
  <1>4. Len(d) = Cardinality(new)
    BY <1>1, <1>2, <1>3 DEF Ranked, Rank
  <1>5. ASSUME NEW k \in DOMAIN d PROVE d[k] = items[Place(k)]
    <2> HIDE DEF new
    <2>1. \E m \in new : Cardinality({j \in new : j <= m}) = k
      BY <1>1, <1>2, <1>3 DEF Ranked, Rank, FreshUpTo, new
    <2> DEFINE m == Place(k)
    <2>2. m \in new /\ Cardinality({j \in new : j <= m}) = k
      BY <2>1
    <2> HIDE DEF m
    <2>3. Rank(items, m) = k
      BY <2>2 DEF Rank, FreshUpTo, new
    <2> QED
      BY <1>1, <1>2, <1>3, <2>2, <2>3 DEF Ranked, m
  <1>6. /\ c \in Seq(Items)
        /\ Len(c) = IF Len(d) > MaxItems THEN MaxItems ELSE Len(d)
        /\ \A j \in DOMAIN c : j \in DOMAIN d /\ c[j] = d[j]
    BY <1>2, CappedFront
  <1>7. Len(c) = kept
    <2>1. MaxItems \in Nat /\ Len(d) \in Nat
      BY <1>2, MaxItemsAssumption
    <2> HIDE DEF d, c, new
    <2>2. \E x \in {MaxItems, Len(d)} : \A y \in {MaxItems, Len(d)} : x <= y
      BY <2>1
    <2>3. Min({MaxItems, Len(d)}) = IF Len(d) > MaxItems THEN MaxItems ELSE Len(d)
      BY <2>1, <2>2 DEF Min
    <2> QED
      BY <1>4, <1>6, <2>3
  <1>8. c = [k \in 1 .. kept |-> items[Place(k)]]
    <2> HIDE DEF c, d, new, kept, Place
    <2>1. c = [k \in 1 .. Len(c) |-> c[k]]
      BY <1>6
    <2>2. \A k \in 1 .. Len(c) : c[k] = items[Place(k)]
      BY <1>5, <1>6
    <2> QED
      BY <1>7, <2>1, <2>2
  <1>9. FirstDistinct(items) = [k \in 1 .. kept |-> items[Place(k)]]
    BY Zenon DEF FirstDistinct, Fresh
  <1> QED
    BY <1>8, <1>9, Zenon

-----------------------------------------------------------------------------
(* Parsing.                                                                *)

Readings == [under : Sections \union {"none"}, found : [Sections -> Seq(Items)]]

SectionFor(acc, line) == IF acc.under \in Sections THEN acc.under ELSE Class[line[2]]

ReadLine(acc, line) ==
    IF line[1] = "heading" THEN [acc EXCEPT !.under = line[2]]
    ELSE [acc EXCEPT !.found[SectionFor(acc, line)] = Append(@, line[2])]

NothingRead == [under |-> "none", found |-> NothingLearned]

ReadOn(g, text) ==
    g = [S \in SUBSET DOMAIN text |->
            IF S = {} THEN NothingRead ELSE ReadLine(g[S \ {Max(S)}], text[Max(S)])]

Reads(h, text) ==
    /\ h[0] = NothingRead
    /\ \A i \in 1 .. Len(text) : h[i] = ReadLine(h[i - 1], text[i])

LEMMA ReadHeading ==
    ASSUME NEW acc \in Readings, NEW s \in Sections \union {"none"}
    PROVE  /\ ReadLine(acc, <<"heading", s>>) \in Readings
           /\ ReadLine(acc, <<"heading", s>>).under = s
           /\ ReadLine(acc, <<"heading", s>>).found = acc.found
  <1>1. ReadLine(acc, <<"heading", s>>) = [acc EXCEPT !.under = s]
    BY DEF ReadLine
  <1> QED
    BY <1>1 DEF Readings

ItemSection(acc, item) == IF acc.under \in Sections THEN acc.under ELSE Class[item]

LEMMA ReadItem ==
    ASSUME NEW acc \in Readings, NEW item \in Items
    PROVE  /\ ItemSection(acc, item) \in Sections
           /\ ReadLine(acc, <<"item", item>>) \in Readings
           /\ ReadLine(acc, <<"item", item>>).under = acc.under
           /\ ReadLine(acc, <<"item", item>>).found =
                 [acc.found EXCEPT ![ItemSection(acc, item)] =
                    Append(acc.found[ItemSection(acc, item)], item)]
  <1> DEFINE s == ItemSection(acc, item)
             r == ReadLine(acc, <<"item", item>>)
  <1>1. s \in Sections
    BY ClassAssumption DEF ItemSection
  <1>2. SectionFor(acc, <<"item", item>>) = s
    BY DEF SectionFor, ItemSection
  <1>3. r = [acc EXCEPT !.found[s] = Append(@, item)]
    BY <1>2 DEF ReadLine
  <1> HIDE DEF s
  <1>4. r = [acc EXCEPT !.found = [acc.found EXCEPT ![s] = Append(acc.found[s], item)]]
    BY <1>3
  <1> HIDE DEF r
  <1>5. acc.found[s] \in Seq(Items) /\ acc.found \in [Sections -> Seq(Items)]
    BY <1>1 DEF Readings
  <1>6. Append(acc.found[s], item) \in Seq(Items)
    BY <1>5
  <1>7. [acc.found EXCEPT ![s] = Append(acc.found[s], item)] \in [Sections -> Seq(Items)]
    BY <1>5, <1>6
  <1>8. /\ r \in Readings /\ r.under = acc.under
        /\ r.found = [acc.found EXCEPT ![s] = Append(acc.found[s], item)]
    BY <1>4, <1>7 DEF Readings
  <1> QED
    BY <1>1, <1>8 DEF r, s

LEMMA LineForms ==
    ASSUME NEW line \in Lines
    PROVE  \/ \E s \in Sections \union {"none"} : line = <<"heading", s>>
           \/ \E i \in Items : line = <<"item", i>>
  BY DEF Lines

LEMMA ReadLineType ==
    ASSUME NEW acc \in Readings, NEW line \in Lines
    PROVE  ReadLine(acc, line) \in Readings
  BY LineForms, ReadHeading, ReadItem

LEMMA NothingReadType == NothingRead \in Readings
  BY DEF NothingRead, NothingLearned, Readings

(* Parse takes the lines one after the other.                              *)
LEMMA ParseUnrolled ==
    ASSUME NEW text \in Seq(Lines)
    PROVE  \E h \in [0 .. Len(text) -> Readings] :
              /\ Reads(h, text)
              /\ Parse(text) = [s \in Sections |-> Capped(h[Len(text)].found[s])]
  <1> DEFINE n == Len(text)
             V == Readings
             F == [z \in V \X (1 .. n) |-> ReadLine(z[1], text[z[2]])]
             G == CHOOSE g : ReadOn(g, text)
             h == [i \in 0 .. n |-> G[1 .. i]]
  <1>0. n \in Nat /\ DOMAIN text = 1 .. n /\ NothingRead \in V
    BY NothingReadType
  <1>1. Parse(text) = [s \in Sections |-> Capped(G[1 .. n].found[s])]
    <2>1. Parse(text) = [s \in Sections |-> Capped(G[DOMAIN text].found[s])]
      BY Zenon DEF Parse, FoldLeft, MapThenFoldSet, ReadOn, ReadLine, SectionFor, NothingRead
    <2> QED
      BY <1>0, <2>1, Zenon
  <1>2. ASSUME NEW v \in V, NEW i \in 1 .. n
        PROVE  F[<<v, i>>] = ReadLine(v, text[i]) /\ ReadLine(v, text[i]) \in V
    BY ReadLineType
  <1>3. F \in [V \X (1 .. n) -> V]
    BY ReadLineType
  <1>4. PICK g \in [SUBSET (1 .. n) -> V] : IsFold(g, n, NothingRead, F)
    <2> HIDE DEF n, V, F
    <2> QED
      BY <1>0, <1>3, SetFold
  <1>5. ReadOn(g, text)
    <2>1. ASSUME NEW S \in SUBSET (1 .. n)
          PROVE  g[S] = IF S = {} THEN NothingRead ELSE ReadLine(g[S \ {Max(S)}], text[Max(S)])
      <3> HIDE DEF F, n, V
      <3>1. S # {} => Max(S) \in 1 .. n
        BY <1>0, MaxOfSet
      <3>2. g[S \ {Max(S)}] \in V
        OBVIOUS
      <3>3. g[S] = IF S = {} THEN NothingRead ELSE F[<<g[S \ {Max(S)}], Max(S)>>]
        BY <1>4 DEF IsFold
      <3> QED
        BY <1>2, <3>1, <3>2, <3>3
    <2> HIDE DEF n, V, F
    <2> QED
      BY <1>0, <1>4, <2>1 DEF ReadOn
  <1>6. ReadOn(G, text)
    BY <1>5, Zenon
  <1> HIDE DEF G
  <1>7. G[{}] = NothingRead
    BY <1>6, <1>0 DEF ReadOn
  <1>8. ASSUME NEW i \in 1 .. n PROVE G[1 .. i] = ReadLine(G[1 .. (i - 1)], text[i])
    <2>1. 1 .. i \in SUBSET DOMAIN text /\ 1 .. i # {}
      <3>1. i \in 1 .. i /\ 1 .. i \subseteq 1 .. n
        BY <1>0
      <3> QED
        BY <3>1, <1>0
    <2>2. Max(1 .. i) = i /\ (1 .. i) \ {i} = 1 .. (i - 1)
      BY MaxOfInterval
    <2>3. G[1 .. i] = ReadLine(G[(1 .. i) \ {Max(1 .. i)}], text[Max(1 .. i)])
      BY <1>6, <2>1 DEF ReadOn
    <2> QED
      BY <2>2, <2>3
  <1>9. Reads(h, text)
    <2>1. h[0] = NothingRead
      <3>1. 1 .. 0 = {}
        OBVIOUS
      <3> QED
        BY <1>7, <3>1, <1>0
    <2>2. ASSUME NEW i \in 1 .. n PROVE h[i] = ReadLine(h[i - 1], text[i])
      <3>1. i \in 0 .. n /\ i - 1 \in 0 .. n
        OBVIOUS
      <3> QED
        BY <1>8, <3>1
    <2> HIDE DEF h
    <2> QED
      BY <2>1, <2>2 DEF Reads
  <1>10. h \in [0 .. n -> V]
    <2> DEFINE T == {i \in 0 .. n : h[i] \in V}
    <2> HIDE DEF h
    <2>1. 0 \in T
      <3>1. 0 \in 0 .. n /\ h[0] \in V
        BY <1>9, <1>0 DEF Reads
      <3> QED
        BY <3>1
    <2>2. ASSUME NEW i \in 1 .. n, i - 1 \in T PROVE i \in T
      <3>1. i \in 0 .. n /\ text[i] \in Lines /\ h[i - 1] \in V
        BY <2>2
      <3>2. h[i] = ReadLine(h[i - 1], text[i])
        BY <1>9 DEF Reads
      <3> QED
        BY <3>1, <3>2, ReadLineType
    <2>3. \A i \in 0 .. n : i \in T
      <3> HIDE DEF T, n
      <3> QED
        BY <1>0, <2>1, <2>2, UpTo
    <2> QED
      BY <2>3 DEF h
  <1> QED
    <2>1. Parse(text) = [s \in Sections |-> Capped(h[n].found[s])]
      BY <1>1, <1>0
    <2> HIDE DEF h
    <2> QED
      BY <1>9, <1>10, <2>1

(* A parsed text has tidy sections, all from its lines.                    *)
LEMMA ParseFacts ==
    ASSUME NEW text \in Seq(Lines)
    PROVE  /\ Parse(text) \in [Sections -> Seq(Items)]
           /\ \A s \in Sections : Tidy(Parse(text)[s])
           /\ \A s \in Sections : \A j \in DOMAIN Parse(text)[s] :
                 Parse(text)[s][j] \in ItemLines(text)
  <1> DEFINE n == Len(text)
  <1>1. PICK h \in [0 .. n -> Readings] :
              /\ Reads(h, text)
              /\ Parse(text) = [s \in Sections |-> Capped(h[n].found[s])]
    BY ParseUnrolled
  <1> DEFINE T == {i \in 0 .. n : \A s \in Sections : \A j \in DOMAIN h[i].found[s] :
                                     h[i].found[s][j] \in ItemLines(text)}
  <1>2. 0 \in T
    <2>1. h[0] = NothingRead /\ 0 \in 0 .. n
      BY <1>1 DEF Reads
    <2>2. \A s \in Sections : h[0].found[s] = <<>>
      BY <2>1 DEF NothingRead, NothingLearned
    <2> QED
      BY <2>1, <2>2
  <1>3. ASSUME NEW i \in 1 .. n, i - 1 \in T PROVE i \in T
    <2>1. /\ i \in 0 .. n /\ i - 1 \in 0 .. n
          /\ h[i - 1] \in Readings /\ text[i] \in Lines
      OBVIOUS
    <2>2. h[i] = ReadLine(h[i - 1], text[i])
      BY <1>1 DEF Reads
    <2> DEFINE acc == h[i - 1]
    <2>3. acc \in Readings /\ acc.found \in [Sections -> Seq(Items)]
      BY <2>1 DEF Readings
    <2>4. \A s \in Sections : \A j \in DOMAIN acc.found[s] : acc.found[s][j] \in ItemLines(text)
      BY <1>3
    <2> HIDE DEF acc
    <2>5. CASE \E s \in Sections \union {"none"} : text[i] = <<"heading", s>>
      <3>1. h[i].found = acc.found
        BY <2>2, <2>3, <2>5, ReadHeading DEF acc
      <3> QED
        BY <2>1, <2>4, <3>1
    <2>6. CASE \E x \in Items : text[i] = <<"item", x>>
      <3>1. PICK x \in Items : text[i] = <<"item", x>>
        BY <2>6
      <3>2. x \in ItemLines(text)
        BY <3>1 DEF ItemLines
      <3> DEFINE t == ItemSection(acc, x)
      <3>3. t \in Sections /\ h[i].found = [acc.found EXCEPT ![t] = Append(acc.found[t], x)]
        <4>1. h[i] = ReadLine(acc, <<"item", x>>)
          BY <2>2, <3>1 DEF acc
        <4>2. /\ t \in Sections
              /\ ReadLine(acc, <<"item", x>>).found =
                    [acc.found EXCEPT ![t] = Append(acc.found[t], x)]
          BY <2>3, ReadItem, Zenon
        <4> QED
          BY <4>1, <4>2, Zenon
      <3> HIDE DEF t
      <3>4. ASSUME NEW s \in Sections, NEW j \in DOMAIN h[i].found[s]
            PROVE  h[i].found[s][j] \in ItemLines(text)
        <4>1. CASE s = t
          <5>1. h[i].found[s] = Append(acc.found[s], x) /\ acc.found[s] \in Seq(Items)
            BY <2>3, <3>3, <4>1
          <5>2. \/ j \in DOMAIN acc.found[s] /\ h[i].found[s][j] = acc.found[s][j]
                \/ h[i].found[s][j] = x
            BY <5>1
          <5> QED
            BY <2>4, <3>2, <5>2
        <4>2. CASE s # t
          <5>1. h[i].found[s] = acc.found[s]
            BY <2>3, <3>3, <4>2
          <5> QED
            BY <2>4, <5>1
        <4> QED
          BY <4>1, <4>2
      <3> QED
        BY <2>1, <3>4
    <2> QED
      BY <2>1, <2>5, <2>6, LineForms
  <1>4. n \in T
    <2>1. n \in Nat
      OBVIOUS
    <2>2. \A i \in 0 .. n : i \in T
      <3> HIDE DEF T, n
      <3> QED
        BY <1>2, <1>3, <2>1, UpTo
    <2> QED
      BY <2>1, <2>2
  <1>5. h[n].found \in [Sections -> Seq(Items)]
    BY DEF Readings
  <1> DEFINE found == h[n].found
  <1>6. ASSUME NEW s \in Sections
        PROVE  /\ Tidy(Parse(text)[s])
               /\ \A j \in DOMAIN Parse(text)[s] : Parse(text)[s][j] \in ItemLines(text)
    <2>1. found[s] \in Seq(Items \union {Blank}) /\ Parse(text)[s] = Capped(found[s])
      BY <1>1, <1>5
    <2>2. \A j \in DOMAIN found[s] : found[s][j] \in ItemLines(text)
      BY <1>4
    <2> HIDE DEF found
    <2> QED
      BY <2>1, <2>2, CappedFacts
  <1>7. Parse(text) \in [Sections -> Seq(Items)]
    BY <1>1, <1>6 DEF Tidy
  <1> QED
    BY <1>6, <1>7

-----------------------------------------------------------------------------
(* Rendering.                                                              *)

Part(s, items) ==
    IF items = <<>> THEN <<>>
    ELSE <<<<"heading", s>>>> \o [i \in DOMAIN items |-> <<"item", items[i]>>]

(* A sequence put behind one element: where its own elements are.          *)
LEMMA HeadAndTail ==
    ASSUME NEW S, NEW x \in S, NEW tail \in Seq(S)
    PROVE  /\ <<x>> \o tail \in Seq(S)
           /\ Len(<<x>> \o tail) = Len(tail) + 1
           /\ (<<x>> \o tail)[1] = x
           /\ \A j \in 1 .. Len(tail) : (<<x>> \o tail)[j + 1] = tail[j]
  <1> DEFINE head == <<x>>
  <1>1. head \in Seq(S) /\ Len(head) = 1 /\ head[1] = x
    OBVIOUS
  <1> HIDE DEF head
  <1>2. /\ head \o tail \in Seq(S)
        /\ Len(head \o tail) = 1 + Len(tail)
        /\ \A i \in 1 .. 1 + Len(tail) :
              (head \o tail)[i] = IF i <= 1 THEN head[i] ELSE tail[i - 1]
    <2>1. /\ head \o tail \in Seq(S)
          /\ Len(head \o tail) = Len(head) + Len(tail)
          /\ \A i \in 1 .. Len(head) + Len(tail) :
                (head \o tail)[i] = IF i <= Len(head) THEN head[i] ELSE tail[i - Len(head)]
      BY <1>1, ConcatProperties, Zenon
    <2> QED
      BY <1>1, <2>1
  <1> HIDE DEF head
  <1> DEFINE all == head \o tail
  <1>3. /\ all \in Seq(S)
        /\ Len(all) = 1 + Len(tail)
        /\ \A i \in 1 .. 1 + Len(tail) : all[i] = IF i <= 1 THEN head[i] ELSE tail[i - 1]
    BY <1>2
  <1> HIDE DEF all
  <1>4. Len(tail) \in Nat
    OBVIOUS
  <1>5. all[1] = x
    BY <1>1, <1>3, <1>4
  <1>6. ASSUME NEW j \in 1 .. Len(tail) PROVE all[j + 1] = tail[j]
    <2>1. j + 1 \in 1 .. 1 + Len(tail) /\ ~ (j + 1 <= 1) /\ (j + 1) - 1 = j
      BY <1>4
    <2> QED
      BY <1>3, <2>1
  <1>7. Len(all) = Len(tail) + 1
    BY <1>3, <1>4
  <1> QED
    BY <1>3, <1>5, <1>6, <1>7 DEF all, head

LEMMA PartFacts ==
    ASSUME NEW s \in Sections, NEW items \in Seq(Items)
    PROVE  /\ Part(s, items) \in Seq(Lines)
           /\ Len(Part(s, items)) = IF items = <<>> THEN 0 ELSE Len(items) + 1
           /\ items # <<>> => Part(s, items)[1] = <<"heading", s>>
           /\ \A j \in 1 .. Len(items) : Part(s, items)[j + 1] = <<"item", items[j]>>
  <1> DEFINE tail == [i \in 1 .. Len(items) |-> <<"item", items[i]>>]
             head == <<<<"heading", s>>>>
  <1>1. CASE items = <<>>
    BY <1>1 DEF Part
  <1>2. CASE items # <<>>
    <2>1. Part(s, items) = head \o tail
      <3>1. DOMAIN items = 1 .. Len(items)
        OBVIOUS
      <3> QED
        BY <1>2, <3>1 DEF Part
    <2>2. tail \in Seq(Lines) /\ Len(tail) = Len(items)
          /\ \A j \in 1 .. Len(items) : tail[j] = <<"item", items[j]>>
      <3>1. \A j \in 1 .. Len(items) : <<"item", items[j]>> \in Lines
        BY DEF Lines
      <3> QED
        BY <3>1
    <2>3. <<"heading", s>> \in Lines
      BY DEF Lines
    <2> HIDE DEF tail
    <2>4. /\ head \o tail \in Seq(Lines) /\ Len(head \o tail) = Len(items) + 1
          /\ (head \o tail)[1] = <<"heading", s>>
      BY <2>2, <2>3, HeadAndTail
    <2>5. \A j \in 1 .. Len(items) : (head \o tail)[j + 1] = tail[j]
      BY <2>2, <2>3, HeadAndTail
    <2> HIDE DEF head
    <2> QED
      BY <1>2, <2>1, <2>2, <2>4, <2>5
  <1> QED
    BY <1>1, <1>2

PartAt(text, k, s, items) ==
    /\ k + Len(Part(s, items)) <= Len(text)
    /\ \A i \in 1 .. Len(Part(s, items)) : text[k + i] = Part(s, items)[i]

Placed(h, k, s, items) ==
    h[k + Len(Part(s, items))].found = [h[k].found EXCEPT ![s] = items]

(* Reading a rendered part of a text finds its items in their section.     *)
LEMMA PartIsRead ==
    ASSUME NEW text \in Seq(Lines),
           NEW h \in [0 .. Len(text) -> Readings], Reads(h, text),
           NEW k \in Nat, NEW s \in Sections, NEW items \in Seq(Items),
           PartAt(text, k, s, items), h[k].found[s] = <<>>
    PROVE  Placed(h, k, s, items)
  <1> SUFFICES h[k + Len(Part(s, items))].found = [h[k].found EXCEPT ![s] = items]
    BY DEF Placed
  <1> DEFINE n == Len(items)
             found == h[k].found
             len == Len(Part(s, items))
  <1>0. /\ n \in Nat /\ Len(text) \in Nat
        /\ len = IF items = <<>> THEN 0 ELSE n + 1
        /\ items # <<>> => Part(s, items)[1] = <<"heading", s>>
        /\ \A j \in 1 .. n : Part(s, items)[j + 1] = <<"item", items[j]>>
    BY PartFacts
  <1>a. k \in 0 .. Len(text) /\ h[k] \in Readings /\ found \in [Sections -> Seq(Items)]
    <2>1. k \in 0 .. Len(text)
      BY <1>0 DEF PartAt
    <2> QED
      BY <2>1 DEF Readings
  <1>b. k + len <= Len(text) /\ \A i \in 1 .. len : text[k + i] = Part(s, items)[i]
    BY DEF PartAt
  <1> HIDE DEF found, len, n
  <1>1. CASE items = <<>>
    <2>1. len = 0 /\ k + len = k
      BY <1>0, <1>1
    <2>2. [found EXCEPT ![s] = items] = found
      BY <1>a, <1>1 DEF found
    <2> QED
      BY <2>1, <2>2 DEF found, len
  <1>2. CASE items # <<>>
    <2> DEFINE T == {j \in 0 .. n :
                       /\ h[k + 1 + j].under = s
                       /\ h[k + 1 + j].found = [found EXCEPT ![s] = SubSeq(items, 1, j)]}
    <2>0. len = n + 1
      BY <1>0, <1>2
    <2>1. 0 \in T
      <3>1. 1 \in 1 .. len /\ k + 1 \in 1 .. Len(text) /\ (k + 1) - 1 = k
        BY <1>0, <1>b, <2>0
      <3>2. text[k + 1] = <<"heading", s>>
        BY <1>0, <1>b, <1>2, <3>1
      <3>3. h[k + 1] = ReadLine(h[k], <<"heading", s>>)
        BY <3>1, <3>2 DEF Reads
      <3>4. h[k + 1].under = s /\ h[k + 1].found = found
        BY <1>a, <3>3, ReadHeading DEF found
      <3>5. [found EXCEPT ![s] = SubSeq(items, 1, 0)] = found
        <4>1. SubSeq(items, 1, 0) = <<>>
          OBVIOUS
        <4> QED
          BY <4>1, <1>a DEF found
      <3>6. 0 \in 0 .. n /\ k + 1 + 0 = k + 1
        BY <1>0
      <3> QED
        BY <3>4, <3>5, <3>6
    <2>2. ASSUME NEW j \in 1 .. n, j - 1 \in T PROVE j \in T
      <3> DEFINE acc == h[k + j]
      <3>1. /\ j + 1 \in 1 .. len /\ k + 1 + j \in 1 .. Len(text)
            /\ (k + 1 + j) - 1 = k + j /\ k + (j + 1) = k + 1 + j
            /\ k + 1 + (j - 1) = k + j /\ k + j \in 0 .. Len(text)
            /\ j \in 0 .. n
        BY <1>0, <1>b, <2>0
      <3>2. text[k + 1 + j] = <<"item", items[j]>>
        BY <1>0, <1>b, <3>1
      <3>3. h[k + 1 + j] = ReadLine(acc, <<"item", items[j]>>)
        BY <3>1, <3>2 DEF Reads
      <3>4. /\ acc \in Readings /\ items[j] \in Items
            /\ acc.under = s
            /\ acc.found = [found EXCEPT ![s] = SubSeq(items, 1, j - 1)]
        BY <2>2, <3>1 DEF n
      <3> HIDE DEF acc
      <3>5. /\ h[k + 1 + j].under = s
            /\ h[k + 1 + j].found = [acc.found EXCEPT ![s] = Append(acc.found[s], items[j])]
        <4>1. ItemSection(acc, items[j]) = s
          BY <3>4 DEF ItemSection
        <4>2. /\ ReadLine(acc, <<"item", items[j]>>).under = acc.under
              /\ ReadLine(acc, <<"item", items[j]>>).found =
                    [acc.found EXCEPT ![ItemSection(acc, items[j])] =
                       Append(acc.found[ItemSection(acc, items[j])], items[j])]
          BY <3>4, ReadItem, Zenon
        <4> QED
          BY <3>3, <3>4, <4>1, <4>2, Zenon
      <3>6. acc.found[s] = SubSeq(items, 1, j - 1)
        BY <1>a, <3>4
      <3>7. Append(SubSeq(items, 1, j - 1), items[j]) = SubSeq(items, 1, j)
        BY <3>1 DEF n
      <3>8. h[k + 1 + j].found = [found EXCEPT ![s] = SubSeq(items, 1, j)]
        BY <1>a, <3>4, <3>5, <3>6, <3>7
      <3> QED
        BY <3>1, <3>5, <3>8
    <2>3. n \in T
      <3>1. \A j \in 0 .. n : j \in T
        <4> HIDE DEF T, n
        <4> QED
          BY <1>0, <2>1, <2>2, UpTo
      <3>2. n \in 0 .. n
        BY <1>0
      <3> HIDE DEF T
      <3> QED
        BY <3>1, <3>2
    <2>4. SubSeq(items, 1, n) = items /\ k + 1 + n = k + len
      BY <1>0, <2>0 DEF n
    <2> QED
      BY <2>3, <2>4 DEF found, len
  <1> QED
    BY <1>1, <1>2

CappedSections(sections) == [s \in Sections |-> Capped(sections[s])]

RenderedLines(c) ==
    Part("preferences", c["preferences"]) \o Part("rules", c["rules"]) \o Part("never", c["never"])

LEMMA CappedSectionsType ==
    ASSUME NEW sections \in Sectioned
    PROVE  /\ CappedSections(sections) \in [Sections -> Seq(Items)]
           /\ \A s \in Sections : Tidy(CappedSections(sections)[s])
  <1>1. \A s \in Sections : sections[s] \in Seq(Items \union {Blank})
    BY DEF Sectioned
  <1>2. \A s \in Sections : Tidy(Capped(sections[s]))
    BY <1>1, CappedFacts
  <1> QED
    BY <1>2 DEF CappedSections, Tidy

LEMMA RenderIsParts ==
    ASSUME NEW sections
    PROVE  LET lines == RenderedLines(CappedSections(sections))
           IN  Render(sections) = IF lines = <<>> THEN <<<<"item", Placeholder>>>> ELSE lines
  BY Zenon DEF Render, RenderedLines, CappedSections, Part, Sections

(* The parts of a text follow each other.                                  *)
LEMMA PartsFollow ==
    ASSUME NEW c \in [Sections -> Seq(Items)]
    PROVE  LET P == Part("preferences", c["preferences"])
               R == Part("rules", c["rules"])
               N == Part("never", c["never"])
               lines == RenderedLines(c)
           IN  /\ lines \in Seq(Lines)
               /\ Len(lines) = Len(P) + Len(R) + Len(N)
               /\ \A i \in 1 .. Len(P) : lines[i] = P[i]
               /\ \A i \in 1 .. Len(R) : lines[Len(P) + i] = R[i]
               /\ \A i \in 1 .. Len(N) : lines[Len(P) + Len(R) + i] = N[i]
  <1> DEFINE P == Part("preferences", c["preferences"])
             R == Part("rules", c["rules"])
             N == Part("never", c["never"])
  <1>1. P \in Seq(Lines) /\ R \in Seq(Lines) /\ N \in Seq(Lines)
    BY PartFacts DEF Sections
  <1>2. RenderedLines(c) = (P \o R) \o N
    BY DEF RenderedLines
  <1> HIDE DEF P, R, N
  <1> DEFINE PR == P \o R
  <1>3. /\ PR \in Seq(Lines) /\ Len(PR) = Len(P) + Len(R)
        /\ \A i \in 1 .. Len(P) + Len(R) : PR[i] = IF i <= Len(P) THEN P[i] ELSE R[i - Len(P)]
    BY <1>1, ConcatProperties
  <1> HIDE DEF PR
  <1>4. /\ PR \o N \in Seq(Lines) /\ Len(PR \o N) = Len(PR) + Len(N)
        /\ \A i \in 1 .. Len(PR) + Len(N) :
              (PR \o N)[i] = IF i <= Len(PR) THEN PR[i] ELSE N[i - Len(PR)]
    <2>1. PR \in Seq(Lines)
      BY <1>3
    <2> QED
      BY <1>1, <2>1, ConcatProperties, Zenon
  <1> DEFINE lines == PR \o N
  <1> HIDE DEF lines
  <1>5. Len(P) \in Nat /\ Len(R) \in Nat /\ Len(N) \in Nat
    BY <1>1
  <1>6. /\ lines \in Seq(Lines) /\ Len(lines) = Len(P) + Len(R) + Len(N)
        /\ \A i \in 1 .. Len(P) + Len(R) + Len(N) :
              lines[i] = IF i <= Len(P) + Len(R) THEN PR[i] ELSE N[i - (Len(P) + Len(R))]
    BY <1>3, <1>4, <1>5 DEF lines
  <1>7. ASSUME NEW i \in 1 .. Len(P) PROVE lines[i] = P[i]
    BY <1>3, <1>5, <1>6
  <1>8. ASSUME NEW i \in 1 .. Len(R) PROVE lines[Len(P) + i] = R[i]
    <2>1. Len(P) + i \in 1 .. Len(P) + Len(R) /\ (Len(P) + i) - Len(P) = i /\ ~(Len(P) + i <= Len(P))
      BY <1>5
    <2> QED
      BY <1>3, <1>5, <1>6, <2>1
  <1>9. ASSUME NEW i \in 1 .. Len(N) PROVE lines[Len(P) + Len(R) + i] = N[i]
    <2>1. /\ Len(P) + Len(R) + i \in 1 .. Len(P) + Len(R) + Len(N)
          /\ (Len(P) + Len(R) + i) - (Len(P) + Len(R)) = i
          /\ ~(Len(P) + Len(R) + i <= Len(P) + Len(R))
      BY <1>5
    <2> QED
      BY <1>6, <2>1
  <1>10. RenderedLines(c) = lines
    BY <1>2 DEF lines, PR
  <1> QED
    BY <1>6, <1>7, <1>8, <1>9, <1>10 DEF P, R, N

(* A text lists the items of its sections.                                 *)
LEMMA RenderFacts ==
    ASSUME NEW sections \in Sectioned
    PROVE  /\ Render(sections) \in Seq(Lines)
           /\ \A x \in InProfile(Render(sections)) :
                 \E s \in Sections : \E m \in Fresh(sections[s]) : sections[s][m] = x
  <1> DEFINE c == CappedSections(sections)
             lines == RenderedLines(c)
             P == Part("preferences", c["preferences"])
             R == Part("rules", c["rules"])
             N == Part("never", c["never"])
  <1>1. c \in [Sections -> Seq(Items)]
    BY CappedSectionsType
  <1>2. ASSUME NEW s \in Sections, NEW j \in DOMAIN c[s]
        PROVE  \E m \in Fresh(sections[s]) : sections[s][m] = c[s][j]
    <2>1. sections[s] \in Seq(Items \union {Blank}) /\ c[s] = Capped(sections[s])
      BY DEF Sectioned, CappedSections
    <2> QED
      BY <2>1, CappedFacts
  <1> HIDE DEF c
  <1>3. ASSUME NEW s \in Sections, NEW i \in 1 .. Len(Part(s, c[s])),
               Part(s, c[s])[i][1] = "item"
        PROVE  \E j \in DOMAIN c[s] : Part(s, c[s])[i][2] = c[s][j]
    <2>1. c[s] \in Seq(Items)
      BY <1>1
    <2>2. /\ Len(Part(s, c[s])) = IF c[s] = <<>> THEN 0 ELSE Len(c[s]) + 1
          /\ c[s] # <<>> => Part(s, c[s])[1] = <<"heading", s>>
          /\ \A j \in 1 .. Len(c[s]) : Part(s, c[s])[j + 1] = <<"item", c[s][j]>>
      BY <2>1, PartFacts
    <2>3. c[s] # <<>>
      BY <2>2
    <2>4. i # 1
      BY <1>3, <2>2, <2>3
    <2>5. i - 1 \in 1 .. Len(c[s]) /\ (i - 1) + 1 = i
      BY <2>1, <2>2, <2>3, <2>4
    <2>6. Part(s, c[s])[i] = <<"item", c[s][i - 1]>>
      BY <2>2, <2>5
    <2> QED
      BY <2>1, <2>5, <2>6
  <1>4. /\ lines \in Seq(Lines)
        /\ Len(lines) = Len(P) + Len(R) + Len(N)
        /\ \A i \in 1 .. Len(P) : lines[i] = P[i]
        /\ \A i \in 1 .. Len(R) : lines[Len(P) + i] = R[i]
        /\ \A i \in 1 .. Len(N) : lines[Len(P) + Len(R) + i] = N[i]
    BY <1>1, PartsFollow
  <1>5. Len(P) \in Nat /\ Len(R) \in Nat /\ Len(N) \in Nat
    BY <1>1, PartFacts DEF Sections
  <1>6. ASSUME NEW i \in 1 .. Len(lines), lines[i][1] = "item"
        PROVE  \E s \in Sections : \E j \in DOMAIN c[s] : lines[i][2] = c[s][j]
    <2>0. \A s \in {"preferences", "rules", "never"} : s \in Sections
      BY DEF Sections
    <2> HIDE DEF lines
    <2>1. CASE i <= Len(P)
      <3>1. i \in 1 .. Len(P) /\ lines[i] = P[i]
        BY <1>4, <1>5, <2>1
      <3> QED
        BY <1>3, <1>6, <2>0, <3>1
    <2>2. CASE i > Len(P) /\ i <= Len(P) + Len(R)
      <3>1. i - Len(P) \in 1 .. Len(R) /\ Len(P) + (i - Len(P)) = i
        BY <1>4, <1>5, <2>2
      <3>2. lines[i] = R[i - Len(P)]
        BY <1>4, <3>1
      <3> QED
        BY <1>3, <1>6, <2>0, <3>1, <3>2
    <2>3. CASE i > Len(P) + Len(R)
      <3>1. /\ i - (Len(P) + Len(R)) \in 1 .. Len(N)
            /\ Len(P) + Len(R) + (i - (Len(P) + Len(R))) = i
        BY <1>4, <1>5, <2>3
      <3>2. lines[i] = N[i - (Len(P) + Len(R))]
        BY <1>4, <3>1
      <3> QED
        BY <1>3, <1>6, <2>0, <3>1, <3>2
    <2> QED
      BY <1>4, <1>5, <2>1, <2>2, <2>3
  <1>7. Render(sections) = IF lines = <<>> THEN <<<<"item", Placeholder>>>> ELSE lines
    BY RenderIsParts DEF c
  <1> HIDE DEF lines
  <1>8. CASE lines = <<>>
    <2>1. Render(sections) = <<<<"item", Placeholder>>>>
      BY <1>7, <1>8
    <2>2. <<"item", Placeholder>> \in Lines
      BY ItemsAssumption DEF Lines
    <2>3. InProfile(<<<<"item", Placeholder>>>>) = {}
      BY DEF InProfile, ItemLines
    <2> QED
      BY <2>1, <2>2, <2>3
  <1>9. CASE lines # <<>>
    <2>1. Render(sections) = lines
      BY <1>7, <1>9
    <2>2. ASSUME NEW x \in InProfile(lines)
          PROVE  \E s \in Sections : \E m \in Fresh(sections[s]) : sections[s][m] = x
      <3>1. PICK i \in 1 .. Len(lines) : lines[i][1] = "item" /\ x = lines[i][2]
        BY <1>4 DEF InProfile, ItemLines
      <3> QED
        BY <1>2, <1>6, <3>1
    <2> QED
      BY <1>4, <2>1, <2>2
  <1> QED
    BY <1>8, <1>9

(* Parsing a rendered text finds the capped sections again, unless there   *)
(* was nothing to render.                                                  *)
THEOREM RoundTrip ==
    ASSUME NEW sections \in Sectioned, CappedSections(sections) # NothingLearned
    PROVE  Parse(Render(sections)) = CappedSections(sections)
  <1> DEFINE c == CappedSections(sections)
             text == RenderedLines(c)
             P == Part("preferences", c["preferences"])
             R == Part("rules", c["rules"])
             N == Part("never", c["never"])
  <1>1. c \in [Sections -> Seq(Items)] /\ \A s \in Sections : Tidy(c[s])
    BY CappedSectionsType
  <1>2. c # NothingLearned
    OBVIOUS
  <1>3. Render(sections) = IF text = <<>> THEN <<<<"item", Placeholder>>>> ELSE text
    BY RenderIsParts
  <1> HIDE DEF c
  <1>4. /\ text \in Seq(Lines)
        /\ Len(text) = Len(P) + Len(R) + Len(N)
        /\ \A i \in 1 .. Len(P) : text[i] = P[i]
        /\ \A i \in 1 .. Len(R) : text[Len(P) + i] = R[i]
        /\ \A i \in 1 .. Len(N) : text[Len(P) + Len(R) + i] = N[i]
    BY <1>1, PartsFollow
  <1> HIDE DEF text
  <1>5. /\ Len(P) = IF c["preferences"] = <<>> THEN 0 ELSE Len(c["preferences"]) + 1
        /\ Len(R) = IF c["rules"] = <<>> THEN 0 ELSE Len(c["rules"]) + 1
        /\ Len(N) = IF c["never"] = <<>> THEN 0 ELSE Len(c["never"]) + 1
        /\ Len(P) \in Nat /\ Len(R) \in Nat /\ Len(N) \in Nat
    <2>1. \A s \in Sections : c[s] \in Seq(Items) /\ Len(c[s]) \in Nat
      BY <1>1
    <2>2. \A s \in Sections : Len(Part(s, c[s])) = IF c[s] = <<>> THEN 0 ELSE Len(c[s]) + 1
      BY <2>1, PartFacts
    <2> QED
      BY <2>1, <2>2 DEF Sections
  <1>6. text # <<>>
    <2>1. PICK s \in Sections : c[s] # <<>>
      BY <1>1, <1>2 DEF NothingLearned
    <2>2. Len(text) # 0
      <3>1. \A t \in Sections : Len(c[t]) \in Nat
        BY <1>1
      <3> QED
        BY <1>4, <1>5, <2>1, <3>1 DEF Sections
    <2> QED
      BY <2>2
  <1>7. PICK h \in [0 .. Len(text) -> Readings] :
            /\ Reads(h, text)
            /\ Parse(text) = [s \in Sections |-> Capped(h[Len(text)].found[s])]
    BY <1>4, ParseUnrolled
  <1> DEFINE f0 == h[0].found
             f1 == h[Len(P)].found
             f2 == h[Len(P) + Len(R)].found
             f3 == h[Len(text)].found
  <1>8. f0 = NothingLearned /\ f0 \in [Sections -> Seq(Items)] /\ \A s \in Sections : f0[s] = <<>>
    BY <1>7 DEF Reads, NothingRead, NothingLearned
  <1>s. /\ "preferences" \in Sections /\ "rules" \in Sections /\ "never" \in Sections
        /\ c["preferences"] \in Seq(Items) /\ c["rules"] \in Seq(Items) /\ c["never"] \in Seq(Items)
    BY <1>1 DEF Sections
  <1>r. /\ text \in Seq(Lines) /\ h \in [0 .. Len(text) -> Readings] /\ Reads(h, text)
        /\ 0 \in Nat /\ Len(P) \in Nat
    BY <1>4, <1>5, <1>7
  <1>9. f1 = [f0 EXCEPT !["preferences"] = c["preferences"]]
    <2>1. PartAt(text, 0, "preferences", c["preferences"])
      BY <1>4, <1>5 DEF PartAt
    <2>2. h[0].found["preferences"] = <<>>
      BY <1>8, <1>s
    <2>3. Placed(h, 0, "preferences", c["preferences"])
      BY <1>r, <1>s, <2>1, <2>2, PartIsRead
    <2> QED
      BY <1>5, <2>3 DEF Placed
  <1>10. f2 = [f1 EXCEPT !["rules"] = c["rules"]]
    <2>1. PartAt(text, Len(P), "rules", c["rules"])
      BY <1>4, <1>5 DEF PartAt
    <2>2. f1["rules"] = <<>>
      BY <1>8, <1>9, <1>s
    <2>3. Placed(h, Len(P), "rules", c["rules"])
      BY <1>r, <1>s, <2>1, <2>2, PartIsRead
    <2> QED
      BY <2>3 DEF Placed
  <1>11. f3 = [f2 EXCEPT !["never"] = c["never"]]
    <2>1. PartAt(text, Len(P) + Len(R), "never", c["never"]) /\ Len(P) + Len(R) \in Nat
      BY <1>4, <1>5 DEF PartAt
    <2>2. f2["never"] = <<>>
      BY <1>8, <1>9, <1>10, <1>s
    <2>3. Placed(h, Len(P) + Len(R), "never", c["never"])
      BY <1>r, <1>s, <2>1, <2>2, PartIsRead
    <2> QED
      BY <1>4, <2>3 DEF Placed
  <1> HIDE DEF f0, f1, f2, f3
  <1>12. f3 = c
    <2>1. f3 \in [Sections -> Seq(Items)]
      BY <1>8, <1>9, <1>10, <1>11, <1>s
    <2>2. \A s \in Sections : f3[s] = c[s]
      BY <1>8, <1>9, <1>10, <1>11, <1>s DEF Sections
    <2> QED
      BY <1>1, <2>1, <2>2
  <1>13. Parse(text) = c
    <2>1. \A s \in Sections : Capped(f3[s]) = c[s]
      BY <1>1, <1>12, CappedOfTidy
    <2>2. Parse(text) = [s \in Sections |-> Capped(f3[s])]
      BY <1>7 DEF f3
    <2> QED
      BY <1>1, <2>1, <2>2
  <1> QED
    BY <1>3, <1>6, <1>13 DEF c

-----------------------------------------------------------------------------
(* Records.                                                                *)

MemoryRecords == [type : Types, item : Items]

Sorted(found, r) == [found EXCEPT ![SectionOfType(r.type)] = Append(@, r.item)]

SortedOn(g, records) ==
    g = [S \in SUBSET DOMAIN records |->
            IF S = {} THEN NothingLearned ELSE Sorted(g[S \ {Max(S)}], records[Max(S)])]

Sorts(h, records) ==
    /\ h[0] = NothingLearned
    /\ \A i \in 1 .. Len(records) : h[i] = Sorted(h[i - 1], records[i])

Founds == [Sections -> Seq(Items)]

LEMMA SectionOfTypeFacts ==
    /\ \A type \in Types : SectionOfType(type) \in Sections
    /\ SectionOfType("learned_preference") = "preferences"
    /\ SectionOfType("learned_rule") = "rules"
    /\ SectionOfType("never_rule") = "never"
  BY DEF SectionOfType, Types, Sections

LEMMA SortedFacts ==
    ASSUME NEW found \in Founds, NEW r \in MemoryRecords
    PROVE  /\ Sorted(found, r) \in Founds
           /\ SectionOfType(r.type) \in Sections
           /\ \A s \in Sections : Sorted(found, r)[s] =
                 IF s = SectionOfType(r.type) THEN Append(found[s], r.item) ELSE found[s]
  <1>1. SectionOfType(r.type) \in Sections /\ r.item \in Items
    BY SectionOfTypeFacts DEF MemoryRecords
  <1>2. \A s \in Sections : Append(found[s], r.item) \in Seq(Items)
    BY <1>1 DEF Founds
  <1> QED
    BY <1>1, <1>2 DEF Sorted, Founds

LEMMA NothingLearnedType == NothingLearned \in Founds
  BY DEF NothingLearned, Founds

(* BySection takes the records one after the other.                        *)
LEMMA BySectionUnrolled ==
    ASSUME NEW records \in Seq(MemoryRecords)
    PROVE  \E h \in [0 .. Len(records) -> Founds] :
              Sorts(h, records) /\ BySection(records) = h[Len(records)]
  <1> DEFINE n == Len(records)
             V == Founds
             F == [z \in V \X (1 .. n) |-> Sorted(z[1], records[z[2]])]
             G == CHOOSE g : SortedOn(g, records)
             h == [i \in 0 .. n |-> G[1 .. i]]
  <1>0. n \in Nat /\ DOMAIN records = 1 .. n /\ NothingLearned \in V
    BY NothingLearnedType
  <1>1. BySection(records) = G[1 .. n]
    <2>1. BySection(records) = G[DOMAIN records]
      BY Zenon DEF BySection, FoldLeft, MapThenFoldSet, SortedOn, Sorted
    <2> QED
      BY <1>0, <2>1, Zenon
  <1>2. ASSUME NEW v \in V, NEW i \in 1 .. n
        PROVE  F[<<v, i>>] = Sorted(v, records[i]) /\ Sorted(v, records[i]) \in V
    BY SortedFacts
  <1>3. F \in [V \X (1 .. n) -> V]
    BY SortedFacts
  <1>4. PICK g \in [SUBSET (1 .. n) -> V] : IsFold(g, n, NothingLearned, F)
    <2> HIDE DEF n, V, F
    <2> QED
      BY <1>0, <1>3, SetFold
  <1>5. SortedOn(g, records)
    <2>1. ASSUME NEW S \in SUBSET (1 .. n)
          PROVE  g[S] = IF S = {} THEN NothingLearned ELSE Sorted(g[S \ {Max(S)}], records[Max(S)])
      <3> HIDE DEF F, n, V
      <3>1. S # {} => Max(S) \in 1 .. n
        BY <1>0, MaxOfSet
      <3>2. g[S \ {Max(S)}] \in V
        OBVIOUS
      <3>3. g[S] = IF S = {} THEN NothingLearned ELSE F[<<g[S \ {Max(S)}], Max(S)>>]
        BY <1>4 DEF IsFold
      <3> QED
        BY <1>2, <3>1, <3>2, <3>3
    <2> HIDE DEF n, V, F
    <2> QED
      BY <1>0, <1>4, <2>1 DEF SortedOn
  <1>6. SortedOn(G, records)
    BY <1>5, Zenon
  <1> HIDE DEF G
  <1>7. G[{}] = NothingLearned
    BY <1>6, <1>0 DEF SortedOn
  <1>8. ASSUME NEW i \in 1 .. n PROVE G[1 .. i] = Sorted(G[1 .. (i - 1)], records[i])
    <2>1. 1 .. i \in SUBSET DOMAIN records /\ 1 .. i # {}
      <3>1. i \in 1 .. i /\ 1 .. i \subseteq 1 .. n
        BY <1>0
      <3> QED
        BY <3>1, <1>0
    <2>2. Max(1 .. i) = i /\ (1 .. i) \ {i} = 1 .. (i - 1)
      BY MaxOfInterval
    <2>3. G[1 .. i] = Sorted(G[(1 .. i) \ {Max(1 .. i)}], records[Max(1 .. i)])
      BY <1>6, <2>1 DEF SortedOn
    <2> QED
      BY <2>2, <2>3
  <1>9. Sorts(h, records)
    <2>1. h[0] = NothingLearned
      <3>1. 1 .. 0 = {}
        OBVIOUS
      <3> QED
        BY <1>7, <3>1, <1>0
    <2>2. ASSUME NEW i \in 1 .. n PROVE h[i] = Sorted(h[i - 1], records[i])
      <3>1. i \in 0 .. n /\ i - 1 \in 0 .. n
        OBVIOUS
      <3> QED
        BY <1>8, <3>1
    <2> HIDE DEF h
    <2> QED
      BY <2>1, <2>2 DEF Sorts
  <1>10. h \in [0 .. n -> V]
    <2> DEFINE T == {i \in 0 .. n : h[i] \in V}
    <2> HIDE DEF h
    <2>1. 0 \in T
      <3>1. 0 \in 0 .. n /\ h[0] \in V
        BY <1>9, <1>0 DEF Sorts
      <3> QED
        BY <3>1
    <2>2. ASSUME NEW i \in 1 .. n, i - 1 \in T PROVE i \in T
      <3>1. i \in 0 .. n /\ records[i] \in MemoryRecords /\ h[i - 1] \in V
        BY <2>2
      <3>2. h[i] = Sorted(h[i - 1], records[i])
        BY <1>9 DEF Sorts
      <3> QED
        BY <3>1, <3>2, SortedFacts
    <2>3. \A i \in 0 .. n : i \in T
      <3> HIDE DEF T, n
      <3> QED
        BY <1>0, <2>1, <2>2, UpTo
    <2> QED
      BY <2>3 DEF h
  <1> QED
    <2>1. BySection(records) = h[n]
      BY <1>1, <1>0
    <2> HIDE DEF h
    <2> QED
      BY <1>9, <1>10, <2>1

(* Every record is in its section, and nothing else is.                    *)
SortedSoFar(h, records, i) ==
    /\ \A s \in Sections : \A j \in DOMAIN h[i][s] :
          \E m \in 1 .. i : records[m].item = h[i][s][j] /\ SectionOfType(records[m].type) = s
    /\ \A m \in 1 .. i : \E j \in DOMAIN h[i][SectionOfType(records[m].type)] :
          h[i][SectionOfType(records[m].type)][j] = records[m].item

LEMMA BySectionFacts ==
    ASSUME NEW records \in Seq(MemoryRecords)
    PROVE  /\ BySection(records) \in Founds
           /\ \A s \in Sections : \A j \in DOMAIN BySection(records)[s] :
                 \E m \in DOMAIN records : /\ records[m].item = BySection(records)[s][j]
                                           /\ SectionOfType(records[m].type) = s
           /\ \A m \in DOMAIN records :
                 \E j \in DOMAIN BySection(records)[SectionOfType(records[m].type)] :
                    BySection(records)[SectionOfType(records[m].type)][j] = records[m].item
  <1> DEFINE n == Len(records)
  <1>1. PICK h \in [0 .. n -> Founds] : Sorts(h, records) /\ BySection(records) = h[n]
    BY BySectionUnrolled
  <1>0. n \in Nat /\ DOMAIN records = 1 .. n
    OBVIOUS
  <1> DEFINE T == {i \in 0 .. n : SortedSoFar(h, records, i)}
  <1>2. 0 \in T
    <2>1. h[0] = NothingLearned /\ 0 \in 0 .. n
      BY <1>1 DEF Sorts
    <2>2. \A s \in Sections : h[0][s] = <<>>
      BY <2>1 DEF NothingLearned
    <2>3. SortedSoFar(h, records, 0)
      BY <2>2 DEF SortedSoFar
    <2> QED
      BY <2>1, <2>3
  <1>3. ASSUME NEW i \in 1 .. n, i - 1 \in T PROVE i \in T
    <2> DEFINE old == h[i - 1]
               new == h[i]
               r   == records[i]
    <2>1. /\ i \in 0 .. n /\ i - 1 \in 0 .. n /\ i \in 1 .. i
          /\ \A m \in 1 .. i : m \in 1 .. i - 1 \/ m = i
          /\ \A m \in 1 .. i - 1 : m \in 1 .. i /\ m \in 1 .. n
          /\ old \in Founds /\ new \in Founds /\ r \in MemoryRecords
          /\ SortedSoFar(h, records, i - 1)
      BY <1>3
    <2>2. new = Sorted(old, r)
      BY <1>1 DEF Sorts
    <2>3. \A m \in 1 .. i : SectionOfType(records[m].type) \in Sections
      <3>1. \A m \in 1 .. i : records[m] \in MemoryRecords
        BY <2>1
      <3> QED
        BY <3>1, SectionOfTypeFacts DEF MemoryRecords
    <2> DEFINE t == SectionOfType(r.type)
    <2>4. /\ t \in Sections
          /\ \A s \in Sections : new[s] = IF s = t THEN Append(old[s], r.item) ELSE old[s]
      BY <2>1, <2>2, SortedFacts
    <2>5. /\ \A s \in Sections : \A j \in DOMAIN old[s] :
                \E m \in 1 .. i - 1 : /\ records[m].item = old[s][j]
                                       /\ SectionOfType(records[m].type) = s
          /\ \A m \in 1 .. i - 1 : \E j \in DOMAIN old[SectionOfType(records[m].type)] :
                old[SectionOfType(records[m].type)][j] = records[m].item
      BY <2>1, Zenon DEF SortedSoFar
    <2> HIDE DEF old, new, t
    <2>6. ASSUME NEW s \in Sections
          PROVE  /\ \A j \in DOMAIN old[s] : j \in DOMAIN new[s] /\ new[s][j] = old[s][j]
                 /\ \A j \in DOMAIN new[s] : \/ j \in DOMAIN old[s] /\ new[s][j] = old[s][j]
                                             \/ new[s][j] = r.item /\ s = t
      <3>1. old[s] \in Seq(Items)
        BY <2>1 DEF Founds
      <3>2. CASE s = t
        <4>1. new[s] = Append(old[s], r.item)
          BY <2>4, <3>2
        <4> DEFINE x == r.item
        <4>2. new[s] = Append(old[s], x)
          BY <4>1
        <4> HIDE DEF x
        <4>3. /\ \A j \in DOMAIN old[s] : j \in DOMAIN new[s] /\ new[s][j] = old[s][j]
              /\ \A j \in DOMAIN new[s] : \/ j \in DOMAIN old[s] /\ new[s][j] = old[s][j]
                                          \/ new[s][j] = x
          BY <3>1, <4>2
        <4> QED
          BY <3>2, <4>3 DEF x
      <3>3. CASE s # t
        BY <2>4, <3>3
      <3> QED
        BY <3>2, <3>3
    <2>7. \E j \in DOMAIN new[t] : new[t][j] = r.item
      <3>1. old[t] \in Seq(Items) /\ new[t] = Append(old[t], r.item)
        BY <2>1, <2>4 DEF Founds
      <3>2. Len(old[t]) + 1 \in DOMAIN new[t] /\ new[t][Len(old[t]) + 1] = r.item
        <4> HIDE DEF r
        <4> QED
          BY <3>1
      <3> QED
        BY <3>2
    <2>8. ASSUME NEW s \in Sections, NEW j \in DOMAIN new[s]
          PROVE  \E m \in 1 .. i : /\ records[m].item = new[s][j]
                                    /\ SectionOfType(records[m].type) = s
      <3>1. CASE j \in DOMAIN old[s] /\ new[s][j] = old[s][j]
        BY <2>1, <2>5, <3>1
      <3>2. CASE new[s][j] = r.item /\ s = t
        BY <2>1, <3>2 DEF t
      <3> QED
        BY <2>6, <3>1, <3>2
    <2>9. ASSUME NEW m \in 1 .. i
          PROVE  \E j \in DOMAIN new[SectionOfType(records[m].type)] :
                    new[SectionOfType(records[m].type)][j] = records[m].item
      <3>1. CASE m = i
        BY <2>7, <3>1 DEF t
      <3>2. CASE m \in 1 .. i - 1
        BY <2>3, <2>5, <2>6, <3>2
      <3> QED
        BY <2>1, <3>1, <3>2
    <2>10. SortedSoFar(h, records, i)
      BY <2>8, <2>9 DEF SortedSoFar, new
    <2> QED
      BY <2>1, <2>10
  <1>4. SortedSoFar(h, records, n)
    <2>1. \A i \in 0 .. n : i \in T
      <3> HIDE DEF T, n
      <3> QED
        BY <1>0, <1>2, <1>3, UpTo
    <2> QED
      BY <1>0, <2>1
  <1>5. h[n] \in Founds
    BY <1>0
  <1> DEFINE all == h[n]
  <1>6. /\ \A s \in Sections : \A j \in DOMAIN all[s] :
              \E m \in 1 .. n : /\ records[m].item = all[s][j]
                                 /\ SectionOfType(records[m].type) = s
        /\ \A m \in 1 .. n : \E j \in DOMAIN all[SectionOfType(records[m].type)] :
              all[SectionOfType(records[m].type)][j] = records[m].item
    BY <1>4, Zenon DEF SortedSoFar
  <1>7. BySection(records) = all /\ all \in Founds
    BY <1>1, <1>5
  <1> HIDE DEF all, n
  <1> QED
    BY <1>0, <1>6, <1>7, Zenon

RecordsOf(learned, type) ==
    [i \in DOMAIN Dedupe(learned[SectionOfType(type)]) |->
        [type |-> type, item |-> Dedupe(learned[SectionOfType(type)])[i]]]

LEMMA RecordsOfFacts ==
    ASSUME NEW learned \in Sectioned, NEW type \in Types
    PROVE  /\ RecordsOf(learned, type) \in Seq(MemoryRecords)
           /\ \A m \in Fresh(learned[SectionOfType(type)]) :
                 learned[SectionOfType(type)][m] \in ItemsOf(RecordsOf(learned, type))
  <1> DEFINE items == learned[SectionOfType(type)]
             d == Dedupe(items)
             rs == RecordsOf(learned, type)
  <1>1. items \in Seq(Items \union {Blank})
    BY SectionOfTypeFacts DEF Sectioned
  <1>2. d \in Seq(Items) /\ \A m \in Fresh(items) : \E j \in DOMAIN d : d[j] = items[m]
    BY <1>1, DedupeFacts
  <1>3. rs = [i \in DOMAIN d |-> [type |-> type, item |-> d[i]]]
    BY DEF RecordsOf
  <1> HIDE DEF d, rs
  <1>4. \A i \in DOMAIN d : [type |-> type, item |-> d[i]] \in MemoryRecords
    BY <1>2 DEF MemoryRecords
  <1>5. rs = [i \in 1 .. Len(d) |-> [type |-> type, item |-> d[i]]] /\ Len(d) \in Nat
    BY <1>2, <1>3
  <1>6. rs \in Seq(MemoryRecords)
    BY <1>2, <1>4, <1>5
  <1>7. \A i \in DOMAIN d : i \in DOMAIN rs /\ rs[i].item = d[i]
    BY <1>3
  <1>8. \A m \in Fresh(items) : items[m] \in ItemsOf(rs)
    BY <1>2, <1>7 DEF ItemsOf
  <1> QED
    BY <1>6, <1>8 DEF rs

LEMMA ItemsOfConcat ==
    ASSUME NEW s \in Seq(MemoryRecords), NEW t \in Seq(MemoryRecords)
    PROVE  /\ s \o t \in Seq(MemoryRecords)
           /\ ItemsOf(s) \subseteq ItemsOf(s \o t)
           /\ ItemsOf(t) \subseteq ItemsOf(s \o t)
  <1> DEFINE u == s \o t
  <1>1. /\ u \in Seq(MemoryRecords) /\ Len(u) = Len(s) + Len(t)
        /\ \A i \in 1 .. Len(s) + Len(t) : u[i] = IF i <= Len(s) THEN s[i] ELSE t[i - Len(s)]
    BY ConcatProperties
  <1> HIDE DEF u
  <1>2. /\ Len(s) \in Nat /\ Len(t) \in Nat
        /\ DOMAIN s = 1 .. Len(s) /\ DOMAIN t = 1 .. Len(t)
        /\ DOMAIN u = 1 .. Len(s) + Len(t)
    BY <1>1
  <1>3. \A i \in DOMAIN s : i \in DOMAIN u /\ u[i] = s[i]
    BY <1>1, <1>2
  <1>4. \A i \in DOMAIN t : Len(s) + i \in DOMAIN u /\ u[Len(s) + i] = t[i]
    <2> SUFFICES ASSUME NEW i \in DOMAIN t
                 PROVE  Len(s) + i \in DOMAIN u /\ u[Len(s) + i] = t[i]
      OBVIOUS
    <2>1. /\ Len(s) + i \in 1 .. Len(s) + Len(t) /\ ~(Len(s) + i <= Len(s))
          /\ (Len(s) + i) - Len(s) = i
      BY <1>2
    <2> QED
      BY <1>1, <1>2, <2>1
  <1>5. ItemsOf(s) \subseteq ItemsOf(u) /\ ItemsOf(t) \subseteq ItemsOf(u)
    BY <1>3, <1>4 DEF ItemsOf
  <1> QED
    BY <1>1, <1>5 DEF u

(* Everything extracted that is not blank or repeated becomes a record.    *)
LEMMA RecordsFacts ==
    ASSUME NEW learned \in Sectioned
    PROVE  /\ Records(learned) \in Seq(MemoryRecords)
           /\ \A s \in Sections : \A m \in Fresh(learned[s]) :
                 learned[s][m] \in ItemsOf(Records(learned))
  <1> DEFINE A == RecordsOf(learned, "learned_preference")
             B == RecordsOf(learned, "learned_rule")
             C == RecordsOf(learned, "never_rule")
  <1>1. Records(learned) = (A \o B) \o C
    BY Zenon DEF Records, RecordsOf
  <1>2. /\ "learned_preference" \in Types /\ "learned_rule" \in Types /\ "never_rule" \in Types
    BY DEF Types
  <1>3. A \in Seq(MemoryRecords) /\ B \in Seq(MemoryRecords) /\ C \in Seq(MemoryRecords)
    BY <1>2, RecordsOfFacts
  <1>4. /\ \A m \in Fresh(learned["preferences"]) : learned["preferences"][m] \in ItemsOf(A)
        /\ \A m \in Fresh(learned["rules"]) : learned["rules"][m] \in ItemsOf(B)
        /\ \A m \in Fresh(learned["never"]) : learned["never"][m] \in ItemsOf(C)
    BY <1>2, RecordsOfFacts, SectionOfTypeFacts
  <1> HIDE DEF A, B, C
  <1>5. A \o B \in Seq(MemoryRecords) /\ ItemsOf(A) \subseteq ItemsOf(A \o B)
        /\ ItemsOf(B) \subseteq ItemsOf(A \o B)
    BY <1>3, ItemsOfConcat
  <1>6. (A \o B) \o C \in Seq(MemoryRecords) /\ ItemsOf(A \o B) \subseteq ItemsOf((A \o B) \o C)
        /\ ItemsOf(C) \subseteq ItemsOf((A \o B) \o C)
    BY <1>3, <1>5, ItemsOfConcat
  <1>7. /\ Records(learned) \in Seq(MemoryRecords)
        /\ ItemsOf(A) \subseteq ItemsOf(Records(learned))
        /\ ItemsOf(B) \subseteq ItemsOf(Records(learned))
        /\ ItemsOf(C) \subseteq ItemsOf(Records(learned))
    BY <1>1, <1>5, <1>6, Zenon
  <1> QED
    BY <1>4, <1>7 DEF Sections

-----------------------------------------------------------------------------
(* Merging.                                                                *)

Joined(text, learned) == [s \in Sections |-> Parse(text)[s] \o learned[s]]

LEMMA JoinedType ==
    ASSUME NEW text \in Seq(Lines), NEW learned \in Sectioned
    PROVE  Joined(text, learned) \in Sectioned
  <1>1. \A s \in Sections : /\ Parse(text)[s] \in Seq(Items \union {Blank})
                            /\ learned[s] \in Seq(Items \union {Blank})
    BY ParseFacts DEF Sectioned, Tidy
  <1>2. \A s \in Sections : Parse(text)[s] \o learned[s] \in Seq(Items \union {Blank})
    BY <1>1, ConcatProperties
  <1> QED
    BY <1>2 DEF Joined, Sectioned

LEMMA JoinedItems ==
    ASSUME NEW known \in Seq(Items), NEW learned \in Seq(Items \union {Blank})
    PROVE  /\ known \o learned \in Seq(Items \union {Blank})
           /\ \A m \in DOMAIN learned : /\ Len(known) + m \in DOMAIN (known \o learned)
                                        /\ (known \o learned)[Len(known) + m] = learned[m]
           /\ \A m \in Fresh(known \o learned) :
                 \/ m \in DOMAIN known /\ (known \o learned)[m] = known[m]
                 \/ /\ m - Len(known) \in Fresh(learned)
                    /\ (known \o learned)[m] = learned[m - Len(known)]
  <1> DEFINE all == known \o learned
             k == Len(known)
             n == Len(learned)
  <1>1. /\ all \in Seq(Items \union {Blank}) /\ Len(all) = k + n
        /\ \A i \in 1 .. k + n : all[i] = IF i <= k THEN known[i] ELSE learned[i - k]
    <2>1. known \in Seq(Items \union {Blank})
      OBVIOUS
    <2> QED
      BY <2>1, ConcatProperties
  <1>2. /\ k \in Nat /\ n \in Nat /\ DOMAIN known = 1 .. k /\ DOMAIN learned = 1 .. n
        /\ DOMAIN all = 1 .. k + n
    BY <1>1
  <1> HIDE DEF all, k, n
  <1>3. ASSUME NEW m \in 1 .. n PROVE k + m \in DOMAIN all /\ all[k + m] = learned[m]
    <2>1. k + m \in 1 .. k + n /\ ~(k + m <= k) /\ (k + m) - k = m
      BY <1>2
    <2> QED
      BY <1>1, <1>2, <2>1
  <1>4. ASSUME NEW m \in Fresh(all)
        PROVE  \/ m \in DOMAIN known /\ all[m] = known[m]
               \/ m - k \in Fresh(learned) /\ all[m] = learned[m - k]
    <2>1. /\ m \in 1 .. k + n /\ all[m] # Blank
          /\ \A j \in 1 .. m - 1 : all[j] # Blank => Key[all[j]] # Key[all[m]]
      BY <1>2 DEF Fresh
    <2>2. CASE m <= k
      BY <1>1, <1>2, <2>1, <2>2
    <2>3. CASE m > k
      <3>1. m - k \in 1 .. n /\ k + (m - k) = m
        BY <1>2, <2>1, <2>3
      <3>2. all[m] = learned[m - k]
        BY <1>3, <3>1
      <3>3. ASSUME NEW j \in 1 .. (m - k) - 1, learned[j] # Blank
            PROVE  Key[learned[j]] # Key[learned[m - k]]
        <4>1. j \in 1 .. n /\ k + j \in 1 .. m - 1
          BY <1>2, <2>1, <3>1
        <4>2. all[k + j] = learned[j]
          BY <1>3, <4>1
        <4> QED
          BY <2>1, <3>2, <3>3, <4>1, <4>2
      <3>4. m - k \in Fresh(learned)
        BY <1>2, <2>1, <3>1, <3>2, <3>3 DEF Fresh
      <3> QED
        BY <3>2, <3>4
    <2> QED
      BY <1>2, <2>1, <2>2, <2>3
  <1> QED
    BY <1>1, <1>2, <1>3, <1>4 DEF all, k

(* A merged text holds only what the text or the new items say.            *)
LEMMA MergeFacts ==
    ASSUME NEW text \in Seq(Lines), NEW learned \in Sectioned
    PROVE  /\ Merge(text, learned) \in Seq(Lines)
           /\ \A x \in InProfile(Merge(text, learned)) :
                 \/ x \in InProfile(text)
                 \/ \E s \in Sections : \E m \in Fresh(learned[s]) : learned[s][m] = x
  <1> DEFINE sections == Joined(text, learned)
  <1>1. sections \in Sectioned
    BY JoinedType
  <1>2. Merge(text, learned) = Render(sections)
    BY Zenon DEF Merge, Joined
  <1>3. /\ Render(sections) \in Seq(Lines)
        /\ \A x \in InProfile(Render(sections)) :
              \E s \in Sections : \E m \in Fresh(sections[s]) : sections[s][m] = x
    BY <1>1, RenderFacts
  <1>4. ASSUME NEW x \in InProfile(Render(sections))
        PROVE  \/ x \in InProfile(text)
               \/ \E s \in Sections : \E m \in Fresh(learned[s]) : learned[s][m] = x
    <2>1. PICK s \in Sections : \E m \in Fresh(sections[s]) : sections[s][m] = x
      BY <1>3
    <2>2. PICK m \in Fresh(sections[s]) : sections[s][m] = x
      BY <2>1
    <2> DEFINE known == Parse(text)[s]
    <2>3. /\ known \in Seq(Items) /\ learned[s] \in Seq(Items \union {Blank})
          /\ \A j \in DOMAIN known : known[j] \in ItemLines(text)
      BY ParseFacts DEF Sectioned
    <2>4. sections[s] = known \o learned[s]
      BY DEF Joined
    <2>5. x # Placeholder
      BY DEF InProfile
    <2> HIDE DEF known, sections
    <2>6. \/ m \in DOMAIN known /\ x = known[m]
          \/ m - Len(known) \in Fresh(learned[s]) /\ x = learned[s][m - Len(known)]
      <3>1. m \in Fresh(known \o learned[s]) /\ (known \o learned[s])[m] = x
        BY <2>2, <2>4, Zenon
      <3>2. \/ m \in DOMAIN known /\ (known \o learned[s])[m] = known[m]
            \/ /\ m - Len(known) \in Fresh(learned[s])
               /\ (known \o learned[s])[m] = learned[s][m - Len(known)]
        BY <2>3, <3>1, JoinedItems, Zenon
      <3> QED
        BY <3>1, <3>2, Zenon
    <2> QED
      BY <2>3, <2>5, <2>6 DEF InProfile
  <1> QED
    BY <1>2, <1>3, <1>4

KnownOrFull(section, key) ==
    Len(section) = MaxItems \/ \E j \in DOMAIN section : Key[section[j]] = key

(* A merge forgets nothing, and what it adds is known afterwards, as far   *)
(* as there is room.                                                       *)
LEMMA MergeRemembers ==
    ASSUME NEW text \in Seq(Lines), NEW learned \in Sectioned, NEW s \in Sections
    PROVE  /\ \A key : KnownOrFull(Parse(text)[s], key)
                          => KnownOrFull(Parse(Merge(text, learned))[s], key)
           /\ \A m \in DOMAIN learned[s] : learned[s][m] # Blank =>
                 KnownOrFull(Parse(Merge(text, learned))[s], Key[learned[s][m]])
  <1> DEFINE sections == Joined(text, learned)
             c == CappedSections(sections)
             known == Parse(text)[s]
             new == learned[s]
             all == known \o new
  <1>1. sections \in Sectioned
    BY JoinedType
  <1>2. Merge(text, learned) = Render(sections)
    BY Zenon DEF Merge, Joined
  <1>3. Tidy(known) /\ new \in Seq(Items \union {Blank})
    BY ParseFacts DEF Sectioned
  <1>4. c[s] = Capped(all)
    BY DEF CappedSections, Joined
  <1>5. c[s] # <<>> => Parse(Merge(text, learned)) = c
    <2>1. c[s] # <<>> => c # NothingLearned
      BY DEF NothingLearned
    <2> QED
      BY <1>1, <1>2, <2>1, RoundTrip
  <1> HIDE DEF c, sections, known, new
  <1>6. /\ Len(known) <= Len(Capped(all))
        /\ \A j \in DOMAIN known : j \in DOMAIN Capped(all) /\ Capped(all)[j] = known[j]
    BY <1>3, CappedPrefix
  <1>7. /\ all \in Seq(Items \union {Blank})
        /\ \A m \in DOMAIN new : Len(known) + m \in DOMAIN all /\ all[Len(known) + m] = new[m]
    BY <1>3, JoinedItems DEF Tidy
  <1>8. /\ Tidy(Capped(all))
        /\ \A m \in DOMAIN all : all[m] # Blank => KnownOrFull(Capped(all), Key[all[m]])
    BY <1>7, CappedFacts DEF KnownOrFull
  <1> HIDE DEF all
  <1>9. MaxItems \in Nat \ {0}
    BY MaxItemsAssumption
  <1>10. \A key : KnownOrFull(c[s], key) => c[s] # <<>>
    BY <1>9 DEF KnownOrFull
  <1>11. ASSUME NEW key, KnownOrFull(known, key)
         PROVE  KnownOrFull(Capped(all), key)
    <2>1. CASE Len(known) = MaxItems
      <3>1. Len(Capped(all)) <= MaxItems /\ Len(Capped(all)) \in Nat
        BY <1>8 DEF Tidy
      <3> QED
        BY <1>6, <1>9, <2>1, <3>1 DEF KnownOrFull
    <2>2. CASE \E j \in DOMAIN known : Key[known[j]] = key
      BY <1>6, <2>2 DEF KnownOrFull
    <2> QED
      BY <1>11, <2>1, <2>2 DEF KnownOrFull
  <1>12. ASSUME NEW m \in DOMAIN new, new[m] # Blank
         PROVE  KnownOrFull(Capped(all), Key[new[m]])
    BY <1>7, <1>8, <1>12
  <1>13. \A key : KnownOrFull(Capped(all), key)
                     => KnownOrFull(Parse(Merge(text, learned))[s], key)
    BY <1>4, <1>5, <1>10
  <1> QED
    BY <1>11, <1>12, <1>13 DEF known, new

(* The merge agrees with its definition by first occurrence.               *)
THEOREM MergeIsFirstCome ==
    ASSUME NEW text \in Seq(Lines), NEW learned \in Sectioned
    PROVE  FirstComeFirstKept(text, learned)
  <1> DEFINE sections == Joined(text, learned)
             merged == [s \in Sections |-> FirstDistinct(Parse(text)[s] \o learned[s])]
  <1>1. sections \in Sectioned
    BY JoinedType
  <1>2. Merge(text, learned) = Render(sections)
    BY Zenon DEF Merge, Joined
  <1>3. CappedSections(sections) = merged
    <2>1. \A s \in Sections : /\ sections[s] \in Seq(Items \union {Blank})
                              /\ sections[s] = Parse(text)[s] \o learned[s]
      BY <1>1 DEF Sectioned, Joined
    <2>2. \A s \in Sections : Capped(sections[s]) = FirstDistinct(sections[s])
      BY <2>1, CappedIsFirstDistinct
    <2> QED
      BY <2>1, <2>2 DEF CappedSections
  <1>4. merged # NothingLearned => Parse(Merge(text, learned)) = merged
    <2> HIDE DEF sections, merged
    <2> QED
      BY <1>1, <1>2, <1>3, RoundTrip
  <1> QED
    BY <1>4, Zenon DEF FirstComeFirstKept

LEMMA RemoveAtFacts ==
    ASSUME NEW text \in Seq(Lines), NEW i \in DOMAIN text
    PROVE  /\ RemoveAt(text, i) \in Seq(Lines)
           /\ InProfile(RemoveAt(text, i)) \subseteq InProfile(text)
  <1> DEFINE n == Len(text)
             a == SubSeq(text, 1, i - 1)
             b == SubSeq(text, i + 1, n)
  <1>1. RemoveAt(text, i) = a \o b
    BY DEF RemoveAt
  <1>2. /\ n \in Nat /\ i \in 1 .. n /\ DOMAIN text = 1 .. n
        /\ \A j \in 1 .. n : text[j] \in Lines
    OBVIOUS
  <1>3. a \in Seq(Lines) /\ Len(a) = i - 1 /\ \A j \in 1 .. i - 1 : a[j] = text[j]
    BY <1>2
  <1>4. b \in Seq(Lines) /\ Len(b) = n - i /\ \A j \in 1 .. n - i : b[j] = text[i + j]
    <2> HIDE DEF n
    <2>1. i + 1 \in Int /\ n \in Int /\ \A j \in i + 1 .. n : text[j] \in Lines
      BY <1>2
    <2>2. /\ b \in Seq(Lines) /\ Len(b) = IF i + 1 <= n THEN n - (i + 1) + 1 ELSE 0
          /\ \A j \in 1 .. n - (i + 1) + 1 : b[j] = text[(i + 1) + j - 1]
      BY <2>1, SubSeqProperties
    <2>3. Len(b) = n - i /\ n - (i + 1) + 1 = n - i
      BY <1>2, <2>2
    <2>4. ASSUME NEW j \in 1 .. n - i PROVE b[j] = text[i + j]
      <3>1. (i + 1) + j - 1 = i + j /\ j \in 1 .. n - (i + 1) + 1
        BY <1>2
      <3> QED
        BY <2>2, <3>1
    <2> QED
      BY <2>2, <2>3, <2>4
  <1> HIDE DEF a, b, n
  <1>5. /\ a \o b \in Seq(Lines) /\ Len(a \o b) = Len(a) + Len(b)
        /\ \A j \in 1 .. Len(a) + Len(b) :
              (a \o b)[j] = IF j <= Len(a) THEN a[j] ELSE b[j - Len(a)]
    BY <1>3, <1>4, ConcatProperties
  <1> DEFINE c == a \o b
  <1> HIDE DEF c
  <1>6. ASSUME NEW j \in DOMAIN c
        PROVE  \E k \in DOMAIN text : c[j] = text[k]
    <2>1. /\ j \in 1 .. (i - 1) + (n - i)
          /\ c[j] = IF j <= i - 1 THEN a[j] ELSE b[j - (i - 1)]
      BY <1>2, <1>3, <1>4, <1>5 DEF c
    <2>2. CASE j <= i - 1
      <3>1. j \in 1 .. i - 1 /\ j \in 1 .. n
        BY <1>2, <2>1, <2>2
      <3> QED
        BY <1>2, <1>3, <2>1, <2>2, <3>1
    <2>3. CASE j > i - 1
      <3>1. j - (i - 1) \in 1 .. n - i /\ i + (j - (i - 1)) \in 1 .. n
        BY <1>2, <2>1, <2>3
      <3>2. c[j] = text[i + (j - (i - 1))]
        BY <1>2, <1>4, <2>1, <2>3, <3>1
      <3> QED
        BY <1>2, <3>1, <3>2
    <2> QED
      BY <1>2, <2>1, <2>2, <2>3
  <1>7. InProfile(c) \subseteq InProfile(text)
    BY <1>6 DEF InProfile, ItemLines
  <1> QED
    BY <1>1, <1>5, <1>7 DEF c

-----------------------------------------------------------------------------
(* What a text that knows the records of a proposal becomes by a merge.    *)

LEMMA KnowsForm ==
    ASSUME NEW text, NEW records
    PROVE  Knows(text, records) <=>
               \A i \in DOMAIN records :
                   KnownOrFull(Parse(text)[SectionOfType(records[i].type)],
                               Key[records[i].item])
  BY Zenon DEF Knows, KnownOrFull

LEMMA RecordFacts ==
    ASSUME NEW records \in Seq(MemoryRecords)
    PROVE  /\ BySection(records) \in Sectioned
           /\ \A i \in DOMAIN records : /\ SectionOfType(records[i].type) \in Sections
                                        /\ records[i].item \in Items
  <1>1. BySection(records) \in Founds
    BY BySectionFacts
  <1>2. BySection(records) \in Sectioned
    BY <1>1 DEF Founds, Sectioned
  <1>3. \A i \in DOMAIN records : records[i] \in MemoryRecords
    OBVIOUS
  <1>4. \A r \in MemoryRecords : SectionOfType(r.type) \in Sections /\ r.item \in Items
    BY SectionOfTypeFacts DEF MemoryRecords
  <1> QED
    BY <1>2, <1>3, <1>4

(* A merge keeps what a text knows.                                        *)
LEMMA MergeKeepsKnown ==
    ASSUME NEW text \in Seq(Lines), NEW learned \in Sectioned,
           NEW records \in Seq(MemoryRecords), Knows(text, records)
    PROVE  Knows(Merge(text, learned), records)
  <1> SUFFICES ASSUME NEW i \in DOMAIN records
               PROVE  KnownOrFull(Parse(Merge(text, learned))[SectionOfType(records[i].type)],
                                  Key[records[i].item])
    BY KnowsForm, Zenon
  <1> DEFINE s == SectionOfType(records[i].type)
             key == Key[records[i].item]
  <1>1. s \in Sections
    BY RecordFacts
  <1>2. KnownOrFull(Parse(text)[s], key)
    BY KnowsForm
  <1> HIDE DEF s, key
  <1>3. KnownOrFull(Parse(Merge(text, learned))[s], key)
    BY <1>1, <1>2, MergeRemembers
  <1> QED
    BY <1>3 DEF s, key

(* A merge of records teaches them.                                        *)
LEMMA MergeTeaches ==
    ASSUME NEW text \in Seq(Lines), NEW records \in Seq(MemoryRecords)
    PROVE  Knows(Merge(text, BySection(records)), records)
  <1> DEFINE learned == BySection(records)
  <1> SUFFICES ASSUME NEW i \in DOMAIN records
               PROVE  KnownOrFull(Parse(Merge(text, learned))[SectionOfType(records[i].type)],
                                  Key[records[i].item])
    BY KnowsForm, Zenon
  <1> DEFINE s == SectionOfType(records[i].type)
  <1>1. s \in Sections /\ records[i].item \in Items /\ learned \in Sectioned
    BY RecordFacts
  <1>2. PICK j \in DOMAIN learned[s] : learned[s][j] = records[i].item
    BY BySectionFacts
  <1>3. learned[s][j] # Blank
    BY <1>1, <1>2, ItemsAssumption
  <1> HIDE DEF s, learned
  <1>4. KnownOrFull(Parse(Merge(text, learned))[s], Key[learned[s][j]])
    BY <1>1, <1>3, MergeRemembers
  <1> QED
    BY <1>2, <1>4 DEF s

(* Nothing is added to a section that is full or knows all that is new.    *)
LEMMA CappedOfKnown ==
    ASSUME NEW known, Tidy(known), NEW new \in Seq(Items \union {Blank}),
           \A m \in DOMAIN new : new[m] # Blank => KnownOrFull(known, Key[new[m]])
    PROVE  Capped(known \o new) = known
  <1> DEFINE all == known \o new
             c   == Capped(all)
  <1>1. /\ Len(known) <= Len(c)
        /\ \A j \in DOMAIN known : j \in DOMAIN c /\ c[j] = known[j]
    BY CappedPrefix
  <1>2. all \in Seq(Items \union {Blank})
    BY JoinedItems DEF Tidy
  <1>3. /\ Tidy(c)
        /\ \A n \in DOMAIN c : \E m \in Fresh(all) : all[m] = c[n]
    BY <1>2, CappedFacts
  <1>4. known \in Seq(Items) /\ c \in Seq(Items) /\ MaxItems \in Nat
    BY <1>3, MaxItemsAssumption DEF Tidy
  <1> HIDE DEF c, all
  <1>5. ASSUME Len(c) > Len(known) PROVE FALSE
    <2> DEFINE n == Len(known) + 1
    <2>1. n \in DOMAIN c /\ n \notin DOMAIN known /\ Len(known) # MaxItems
      BY <1>3, <1>4, <1>5 DEF Tidy
    <2>2. PICK m \in Fresh(all) : all[m] = c[n]
      BY <1>3, <2>1
    <2> HIDE DEF n
    <2>3. \E j \in DOMAIN known : Key[known[j]] = Key[c[n]]
      <3>1. m \in Fresh(known \o new)
        BY DEF all
      <3>2. \/ m \in DOMAIN known /\ (known \o new)[m] = known[m]
            \/ /\ m - Len(known) \in Fresh(new)
               /\ (known \o new)[m] = new[m - Len(known)]
        BY <1>4, <3>1, JoinedItems, Zenon
      <3>3. CASE m \in DOMAIN known /\ (known \o new)[m] = known[m]
        BY <2>2, <3>3 DEF all
      <3>4. CASE m - Len(known) \in Fresh(new) /\ (known \o new)[m] = new[m - Len(known)]
        <4> DEFINE k == m - Len(known)
        <4>1. k \in DOMAIN new /\ new[k] # Blank /\ new[k] = c[n]
          BY <2>2, <3>4 DEF all, Fresh
        <4> HIDE DEF k
        <4>2. KnownOrFull(known, Key[c[n]])
          BY <4>1
        <4> QED
          BY <2>1, <4>2 DEF KnownOrFull
      <3> QED
        BY <3>2, <3>3, <3>4
    <2>4. PICK j \in DOMAIN known : Key[known[j]] = Key[c[n]]
      BY <2>3
    <2>5. j \in DOMAIN c /\ c[j] = known[j] /\ j # n
      BY <1>1, <2>1
    <2> QED
      BY <1>3, <2>1, <2>4, <2>5 DEF Tidy, Distinct
  <1>6. Len(c) = Len(known)
    BY <1>1, <1>4, <1>5
  <1> QED
    BY <1>1, <1>4, <1>6 DEF c, all

(* Merging records that a text knows leaves it with the sections it has.   *)
LEMMA MergeOfKnown ==
    ASSUME NEW text \in Seq(Lines), NEW records \in Seq(MemoryRecords), records # <<>>,
           Knows(text, records)
    PROVE  Parse(Merge(text, BySection(records))) = Parse(text)
  <1> DEFINE learned == BySection(records)
             sections == Joined(text, learned)
  <1>1. learned \in Sectioned /\ sections \in Sectioned
    BY RecordFacts, JoinedType
  <1>2. Merge(text, learned) = Render(sections)
    BY Zenon DEF Merge, Joined
  <1>3. \A s \in Sections : Capped(sections[s]) = Parse(text)[s]
    <2> SUFFICES ASSUME NEW s \in Sections PROVE Capped(Parse(text)[s] \o learned[s]) = Parse(text)[s]
      BY DEF Joined
    <2>1. Tidy(Parse(text)[s]) /\ learned[s] \in Seq(Items \union {Blank})
      BY <1>1, ParseFacts DEF Sectioned
    <2>2. ASSUME NEW m \in DOMAIN learned[s]
          PROVE  KnownOrFull(Parse(text)[s], Key[learned[s][m]])
      <3>1. PICK i \in DOMAIN records : /\ records[i].item = learned[s][m]
                                        /\ SectionOfType(records[i].type) = s
        BY BySectionFacts
      <3>2. KnownOrFull(Parse(text)[SectionOfType(records[i].type)], Key[records[i].item])
        BY KnowsForm
      <3> QED
        BY <3>1, <3>2
    <2> QED
      BY <2>1, <2>2, CappedOfKnown
  <1>4. CappedSections(sections) = Parse(text)
    <2>1. Parse(text) = [s \in Sections |-> Parse(text)[s]]
      BY DEF Parse
    <2> QED
      BY <1>3, <2>1 DEF CappedSections
  <1>5. Parse(text) # NothingLearned
    <2>1. 1 \in DOMAIN records
      OBVIOUS
    <2>2. KnownOrFull(Parse(text)[SectionOfType(records[1].type)], Key[records[1].item])
      BY <2>1, KnowsForm
    <2>3. SectionOfType(records[1].type) \in Sections
      BY <2>1, RecordFacts
    <2>4. MaxItems \in Nat \ {0}
      BY MaxItemsAssumption
    <2> QED
      BY <2>2, <2>3, <2>4 DEF KnownOrFull, NothingLearned
  <1> HIDE DEF sections
  <1> QED
    BY <1>1, <1>2, <1>4, <1>5, RoundTrip

-----------------------------------------------------------------------------
(* The invariant.  Beside the properties it says that decisions are about  *)
(* proposals that exist and hold something, that what a request has read   *)
(* holds only what is allowed, and that it knows what was approved before  *)
(* it was read and has not been overwritten.                               *)

Allowed ==
    ItemLines(first) \union OwnerItems \union UNION {ItemsOf(content[p]) : p \in Applied}

ReadHoldsOnlyApproved == \A q \in Requests : InProfile(read[q]) \subseteq Allowed

DecisionsExist ==
    /\ \A q \in Requests : op[q] \in {"approve", "reject"} =>
          target[q] \in Proposals /\ proposal[target[q]] # "absent"
    /\ \A p \in Applied : proposal[p] # "absent"
    /\ \A p \in Proposals : proposal[p] # "absent" => content[p] # <<>>

ReadIsKnown ==
    \A q \in Requests : pc[q] = "write" =>
        \A p \in Applied \ (since[q] \union overwritten) : Knows(read[q], content[p])

IInv == /\ TypeOK /\ DecisionsExist
        /\ ProfileHoldsOnlyApproved /\ ReadHoldsOnlyApproved
        /\ AppliedIsKnown /\ ReadIsKnown

LEMMA RecordsType ==
    ASSUME NEW l \in Learned \union OwnerLearned
    PROVE  l \in Sectioned /\ Records(l) \in Seq(MemoryRecords)
  BY LearnedAssumption, RecordsFacts

LEMMA InitInv == Init => IInv
  <1> SUFFICES ASSUME Init PROVE IInv
    OBVIOUS
  <1>1. TypeOK
    <2>1. profile \in Seq(Lines) /\ first \in Seq(Lines)
      BY TextsAssumption DEF Init
    <2>2. content \in [Proposals -> Seq([type : Types, item : Items])]
      BY DEF Init
    <2>3. read \in [Requests -> Seq(Lines)]
      BY DEF Init
    <2> QED
      BY <2>1, <2>2, <2>3 DEF Init, TypeOK, Operations
  <1>2. Applied = {}
    BY DEF Init, Applied
  <1>3. DecisionsExist
    BY <1>2 DEF Init, DecisionsExist
  <1>4. ProfileHoldsOnlyApproved
    BY DEF Init, ProfileHoldsOnlyApproved, InProfile
  <1>5. ReadHoldsOnlyApproved
    <2>1. \A q \in Requests : read[q] = <<>>
      BY DEF Init
    <2> QED
      BY <2>1 DEF ReadHoldsOnlyApproved, InProfile, ItemLines
  <1>6. AppliedIsKnown /\ ReadIsKnown
    BY <1>2 DEF AppliedIsKnown, ReadIsKnown
  <1> QED
    BY <1>1, <1>3, <1>4, <1>5, <1>6 DEF IInv

(* What is known stays known where a step adds no approval: the profile is *)
(* kept, or its new text knows what has not been overwritten.              *)
LEMMA KnownKept ==
    ASSUME IInv, content' = content, Applied' = Applied, overwritten \subseteq overwritten',
           \/ profile' = profile
           \/ \A p \in Applied \ overwritten' : Knows(profile', content[p]),
           \A r \in Requests : pc'[r] = "write" =>
               pc[r] = "write" /\ read'[r] = read[r] /\ since'[r] = since[r]
    PROVE  AppliedIsKnown' /\ ReadIsKnown'
  <1>1. \A p \in Applied \ overwritten' : Knows(profile', content[p])
    BY DEF IInv, AppliedIsKnown
  <1>2. AppliedIsKnown'
    BY <1>1 DEF AppliedIsKnown
  <1>3. ASSUME NEW r \in Requests, pc'[r] = "write",
               NEW p \in Applied \ (since'[r] \union overwritten')
        PROVE  Knows(read'[r], content[p])
    BY <1>3 DEF IInv, ReadIsKnown
  <1>4. ReadIsKnown'
    BY <1>3 DEF ReadIsKnown
  <1> QED
    BY <1>2, <1>4

-----------------------------------------------------------------------------
(* Steps that leave the tables alone.                                      *)

LEMMA TablesKept ==
    ASSUME IInv, UNCHANGED <<tables, overwritten>>
    PROVE  /\ profile' = profile /\ first' = first /\ proposal' = proposal
           /\ content' = content /\ entries' = entries /\ low' = low
           /\ overwritten' = overwritten
           /\ Allowed' = Allowed /\ Applied' = Applied
           /\ ProfileHoldsOnlyApproved'
  <1>1. /\ profile' = profile /\ first' = first /\ proposal' = proposal
        /\ content' = content /\ entries' = entries /\ low' = low
        /\ overwritten' = overwritten
    BY DEF tables
  <1>2. Applied' = Applied
    BY <1>1 DEF Applied
  <1>3. Allowed' = Allowed
    BY <1>1, <1>2 DEF Allowed
  <1>4. ProfileHoldsOnlyApproved'
    BY <1>1, <1>2 DEF IInv, ProfileHoldsOnlyApproved
  <1> QED
    BY <1>1, <1>2, <1>3, <1>4

LEMMA StartStep ==
    ASSUME IInv, NEW q \in Requests, NEW o \in Operations \ {"none"},
           NEW p \in Proposals \union {NoProposal}, Start(q, o, p)
    PROVE  IInv'
  <1>1. /\ UNCHANGED <<tables, overwritten>> /\ read' = read /\ since' = since
        /\ op' = [op EXCEPT ![q] = o] /\ target' = [target EXCEPT ![q] = p]
        /\ pc' = [pc EXCEPT ![q] = "read"]
    BY DEF Start, history
  <1>2. /\ profile' = profile /\ first' = first /\ proposal' = proposal
        /\ content' = content /\ entries' = entries /\ low' = low
        /\ overwritten' = overwritten
        /\ Allowed' = Allowed /\ Applied' = Applied /\ ProfileHoldsOnlyApproved'
    BY <1>1, TablesKept
  <1>3. TypeOK'
    BY <1>1, <1>2 DEF IInv, TypeOK
  <1>4. DecisionsExist'
    BY <1>1, <1>2 DEF IInv, TypeOK, DecisionsExist, Start
  <1>5. ReadHoldsOnlyApproved'
    BY <1>1, <1>2 DEF IInv, ReadHoldsOnlyApproved
  <1>6. \A r \in Requests : pc'[r] = "write" => pc[r] = "write"
    BY <1>1 DEF IInv, TypeOK
  <1>7. AppliedIsKnown' /\ ReadIsKnown'
    BY <1>1, <1>2, <1>6, KnownKept
  <1> QED
    BY <1>2, <1>3, <1>4, <1>5, <1>7 DEF IInv

LEMMA ReadStep ==
    ASSUME IInv, NEW q \in Requests, Read(q)
    PROVE  IInv'
  <1>1. /\ UNCHANGED <<tables, overwritten>> /\ op' = op /\ target' = target /\ since' = since
        /\ pc[q] = "read" /\ pc' = [pc EXCEPT ![q] = "write"]
        /\ read' = [read EXCEPT ![q] = profile]
    BY DEF Read, history
  <1>2. /\ profile' = profile /\ first' = first /\ proposal' = proposal
        /\ content' = content /\ entries' = entries /\ low' = low
        /\ overwritten' = overwritten
        /\ Allowed' = Allowed /\ Applied' = Applied /\ ProfileHoldsOnlyApproved'
    BY <1>1, TablesKept
  <1>3. TypeOK'
    BY <1>1, <1>2 DEF IInv, TypeOK
  <1>4. DecisionsExist'
    BY <1>1, <1>2 DEF IInv, DecisionsExist
  <1>5. /\ \A r \in Requests : r # q => read'[r] = read[r] /\ pc'[r] = pc[r]
        /\ read'[q] = profile
    BY <1>1 DEF IInv, TypeOK
  <1>6. ReadHoldsOnlyApproved'
    <2>1. InProfile(profile) \subseteq Allowed
      BY DEF IInv, ProfileHoldsOnlyApproved, Allowed
    <2> QED
      BY <1>2, <1>5, <2>1 DEF IInv, ReadHoldsOnlyApproved
  <1>7. AppliedIsKnown'
    BY <1>2 DEF IInv, AppliedIsKnown
  <1>8. ReadIsKnown'
    <2> SUFFICES ASSUME NEW r \in Requests, pc'[r] = "write",
                        NEW p \in Applied \ (since[r] \union overwritten)
                 PROVE  Knows(read'[r], content[p])
      BY <1>1, <1>2 DEF ReadIsKnown
    <2>1. CASE r = q
      BY <1>5, <2>1 DEF IInv, AppliedIsKnown
    <2>2. CASE r # q
      BY <1>5, <2>2 DEF IInv, ReadIsKnown
    <2> QED
      BY <2>1, <2>2
  <1> QED
    BY <1>2, <1>3, <1>4, <1>6, <1>7, <1>8 DEF IInv

LEMMA FailStep ==
    ASSUME IInv, NEW q \in Requests, Fail(q)
    PROVE  IInv'
  <1>1. /\ UNCHANGED <<tables, overwritten>> /\ op' = op /\ target' = target /\ read' = read
        /\ pc' = [pc EXCEPT ![q] = "done"] /\ since' = [since EXCEPT ![q] = {}]
    BY DEF Fail, Undecided
  <1>2. /\ profile' = profile /\ first' = first /\ proposal' = proposal
        /\ content' = content /\ entries' = entries /\ low' = low
        /\ overwritten' = overwritten
        /\ Allowed' = Allowed /\ Applied' = Applied /\ ProfileHoldsOnlyApproved'
    BY <1>1, TablesKept
  <1>3. TypeOK'
    BY <1>1, <1>2 DEF IInv, TypeOK
  <1>4. DecisionsExist' /\ ReadHoldsOnlyApproved'
    BY <1>1, <1>2 DEF IInv, DecisionsExist, ReadHoldsOnlyApproved
  <1>5. \A r \in Requests : pc'[r] = "write" => pc[r] = "write" /\ since'[r] = since[r]
    BY <1>1 DEF IInv, TypeOK
  <1>6. AppliedIsKnown' /\ ReadIsKnown'
    BY <1>1, <1>2, <1>5, KnownKept
  <1> QED
    BY <1>2, <1>3, <1>4, <1>6 DEF IInv

LEMMA UnchangedStep == ASSUME IInv, UNCHANGED vars PROVE IInv'
  <1>1. /\ UNCHANGED <<tables, overwritten>> /\ op' = op /\ target' = target /\ read' = read
        /\ pc' = pc /\ since' = since
    BY DEF vars, history
  <1>2. /\ profile' = profile /\ first' = first /\ proposal' = proposal
        /\ content' = content /\ entries' = entries /\ low' = low
        /\ overwritten' = overwritten
        /\ Allowed' = Allowed /\ Applied' = Applied /\ ProfileHoldsOnlyApproved'
    BY <1>1, TablesKept
  <1>3. TypeOK'
    BY <1>1, <1>2 DEF IInv, TypeOK
  <1>4. DecisionsExist' /\ ReadHoldsOnlyApproved'
    BY <1>1, <1>2 DEF IInv, DecisionsExist, ReadHoldsOnlyApproved
  <1>5. AppliedIsKnown' /\ ReadIsKnown'
    BY <1>1, <1>2, KnownKept
  <1> QED
    BY <1>2, <1>3, <1>4, <1>5 DEF IInv

-----------------------------------------------------------------------------
(* Messages from others than the owner.                                    *)

LEMMA ItemsOfType ==
    ASSUME NEW records \in Seq(MemoryRecords)
    PROVE  ItemsOf(records) \subseteq Items
  <1>1. \A i \in DOMAIN records : records[i] \in MemoryRecords
    OBVIOUS
  <1>2. \A r \in MemoryRecords : r.item \in Items
    BY DEF MemoryRecords
  <1> QED
    BY <1>1, <1>2 DEF ItemsOf

LEMMA StoreLowRiskStep ==
    ASSUME IInv, NEW l \in Learned, StoreLowRisk(l)
    PROVE  IInv'
  <1>1. /\ low' = low \union ItemsOf(Records(l))
        /\ profile' = profile /\ first' = first /\ proposal' = proposal
        /\ content' = content /\ entries' = entries
        /\ pc' = pc /\ op' = op /\ target' = target /\ read' = read
        /\ since' = since /\ overwritten' = overwritten
    BY DEF StoreLowRisk, history
  <1>2. Applied' = Applied
    BY <1>1 DEF Applied
  <1>3. Allowed' = Allowed
    BY <1>1, <1>2 DEF Allowed
  <1>4. TypeOK'
    <2>1. ItemsOf(Records(l)) \subseteq Items
      BY RecordsType, ItemsOfType
    <2> QED
      BY <1>1, <2>1 DEF IInv, TypeOK
  <1>5. DecisionsExist' /\ ReadHoldsOnlyApproved'
    BY <1>1, <1>2, <1>3 DEF IInv, DecisionsExist, ReadHoldsOnlyApproved
  <1>6. ProfileHoldsOnlyApproved'
    BY <1>1, <1>2 DEF IInv, ProfileHoldsOnlyApproved
  <1>7. AppliedIsKnown' /\ ReadIsKnown'
    BY <1>1, <1>2, KnownKept
  <1> QED
    BY <1>4, <1>5, <1>6, <1>7 DEF IInv

LEMMA ProposeStep ==
    ASSUME IInv, NEW p \in Proposals, NEW l \in Learned, Propose(p, l)
    PROVE  IInv'
  <1>1. /\ proposal[p] = "absent" /\ Records(l) # <<>>
        /\ proposal' = [proposal EXCEPT ![p] = "pending"]
        /\ content' = [content EXCEPT ![p] = Records(l)]
        /\ profile' = profile /\ first' = first
        /\ entries' = entries /\ low' = low
        /\ pc' = pc /\ op' = op /\ target' = target /\ read' = read
        /\ since' = since /\ overwritten' = overwritten
    BY DEF Propose, history
  <1>2. Applied' = Applied /\ p \notin Applied
    BY <1>1 DEF Applied, IInv, DecisionsExist
  <1>3. /\ \A a \in Applied : content'[a] = content[a]
        /\ \A a \in Proposals \ {p} : content'[a] = content[a] /\ proposal'[a] = proposal[a]
        /\ content'[p] # <<>> /\ proposal'[p] = "pending"
    BY <1>1, <1>2 DEF IInv, TypeOK, Applied
  <1>4. Allowed' = Allowed
    BY <1>1, <1>2, <1>3 DEF Allowed
  <1>5. TypeOK'
    <2>1. content' \in [Proposals -> Seq([type : Types, item : Items])]
      BY <1>1, RecordsType DEF IInv, TypeOK, MemoryRecords
    <2>2. proposal' \in [Proposals -> {"absent", "pending", "approved", "rejected"}]
      BY <1>1 DEF IInv, TypeOK
    <2> QED
      BY <1>1, <2>1, <2>2 DEF IInv, TypeOK
  <1>6. DecisionsExist'
    <2>1. \A a \in Proposals : proposal[a] # "absent" => proposal'[a] # "absent"
      BY <1>3
    <2>2. \A a \in Applied : a \in Proposals
      BY DEF Applied
    <2>3. \A a \in Proposals : proposal'[a] # "absent" => content'[a] # <<>>
      BY <1>3 DEF IInv, DecisionsExist
    <2> QED
      BY <1>1, <1>2, <2>1, <2>2, <2>3 DEF IInv, DecisionsExist
  <1>7. ReadHoldsOnlyApproved'
    BY <1>1, <1>4 DEF IInv, ReadHoldsOnlyApproved
  <1>8. ProfileHoldsOnlyApproved'
    BY <1>1, <1>4 DEF IInv, ProfileHoldsOnlyApproved, Allowed
  <1>9. AppliedIsKnown' /\ ReadIsKnown'
    <2>1. \A a \in Applied \ overwritten : Knows(profile, content'[a])
      BY <1>3 DEF IInv, AppliedIsKnown
    <2>2. ASSUME NEW r \in Requests, pc[r] = "write",
                 NEW a \in Applied \ (since[r] \union overwritten)
          PROVE  Knows(read[r], content'[a])
      BY <1>3, <2>2 DEF IInv, ReadIsKnown
    <2>3. AppliedIsKnown'
      BY <1>1, <1>2, <2>1 DEF AppliedIsKnown
    <2>4. ReadIsKnown'
      BY <1>1, <1>2, <2>2 DEF ReadIsKnown
    <2> QED
      BY <2>3, <2>4
  <1> QED
    BY <1>5, <1>6, <1>7, <1>8, <1>9 DEF IInv

-----------------------------------------------------------------------------
(* Commits.                                                                *)

LEMMA DoneFacts ==
    ASSUME IInv, NEW q \in Requests, NEW o \in Operations, Done(q, o)
    PROVE  /\ pc[q] = "write" /\ op[q] = o
           /\ pc' \in [Requests -> {"idle", "read", "write", "done"}]
           /\ \A r \in Requests : pc'[r] = "write" => pc[r] = "write" /\ r # q
           /\ \A r \in Requests \ {q} : pc'[r] = pc[r]
           /\ first' = first /\ content' = content /\ low' = low
           /\ op' = op /\ target' = target /\ read' = read
  BY DEF Done, IInv, TypeOK

(* What a commit that merges learned items into the text it has read does  *)
(* to the profile.                                                         *)
LEMMA MergeCommitted ==
    ASSUME IInv, NEW q \in Requests, NEW learned \in Sectioned,
           WriteProfile(q, Merge(read[q], learned))
    PROVE  /\ profile' \in Seq(Lines)
           /\ \A x \in InProfile(profile') :
                 \/ x \in Allowed
                 \/ \E s \in Sections : \E m \in Fresh(learned[s]) : learned[s][m] = x
           /\ profile' = IF Merge(read[q], learned) = read[q] THEN profile
                         ELSE Merge(read[q], learned)
  <1> DEFINE text == Merge(read[q], learned)
  <1>1. read[q] \in Seq(Lines) /\ profile \in Seq(Lines)
    BY DEF IInv, TypeOK
  <1>2. /\ text \in Seq(Lines)
        /\ \A x \in InProfile(text) :
              \/ x \in InProfile(read[q])
              \/ \E s \in Sections : \E m \in Fresh(learned[s]) : learned[s][m] = x
    BY <1>1, MergeFacts
  <1>3. InProfile(read[q]) \subseteq Allowed /\ InProfile(profile) \subseteq Allowed
    BY DEF IInv, ReadHoldsOnlyApproved, ProfileHoldsOnlyApproved, Allowed
  <1>4. profile' = IF text = read[q] THEN profile ELSE text
    BY Zenon DEF WriteProfile
  <1> HIDE DEF text
  <1>5. profile' = profile \/ profile' = text
    BY <1>4
  <1>6. /\ profile' \in Seq(Lines)
        /\ \A x \in InProfile(profile') :
              \/ x \in Allowed
              \/ \E s \in Sections : \E m \in Fresh(learned[s]) : learned[s][m] = x
    BY <1>1, <1>2, <1>3, <1>5
  <1> QED
    BY <1>4, <1>6 DEF text

LEMMA ContentFacts ==
    ASSUME IInv, NEW p \in Proposals
    PROVE  content[p] \in Seq(MemoryRecords) /\ BySection(content[p]) \in Sectioned
  <1>1. content[p] \in Seq(MemoryRecords)
    BY DEF IInv, TypeOK, MemoryRecords
  <1> QED
    BY <1>1, RecordFacts

LEMMA CommitApprovalStep ==
    ASSUME IInv, NEW q \in Requests, CommitApproval(q)
    PROVE  IInv'
  <1> DEFINE t == target[q]
             learned == BySection(content[t])
             text == Merge(read[q], learned)
  <1>1. /\ Done(q, "approve")
        /\ proposal' = [proposal EXCEPT ![t] = "approved"]
        /\ entries' = [entries EXCEPT ![t] = @ + 1]
        /\ since' = [r \in Requests |->
                        IF r # q /\ pc[r] = "write" THEN since[r] \union {t} ELSE {}]
    BY DEF CommitApproval
  <1>2. /\ pc[q] = "write" /\ op[q] = "approve"
        /\ pc' \in [Requests -> {"idle", "read", "write", "done"}]
        /\ \A r \in Requests : pc'[r] = "write" => pc[r] = "write" /\ r # q
        /\ first' = first /\ content' = content /\ low' = low
        /\ op' = op /\ target' = target /\ read' = read
    BY <1>1, DoneFacts DEF Operations
  <1>3. t \in Proposals
    BY <1>2 DEF IInv, DecisionsExist
  <1>4. WriteProfile(q, text)
    BY Zenon DEF CommitApproval, MergeRecords
  <1>5. overwritten' = IF text # read[q] THEN (overwritten \union since[q]) \ {t}
                       ELSE IF profile = read[q] THEN overwritten \ {t}
                       ELSE overwritten \union {t}
    BY Zenon DEF CommitApproval, MergeRecords
  <1> HIDE DEF t
  <1>6. /\ \A p \in Proposals : p # t => proposal'[p] = proposal[p] /\ entries'[p] = entries[p]
        /\ proposal'[t] = "approved" /\ entries'[t] = entries[t] + 1
        /\ \A p \in Proposals : entries[p] \in Nat
        /\ proposal' \in [Proposals -> {"absent", "pending", "approved", "rejected"}]
        /\ entries' \in [Proposals -> Nat]
    BY <1>1, <1>3 DEF IInv, TypeOK
  <1>7. Applied' = Applied \union {t}
    BY <1>3, <1>6 DEF Applied
  <1>8. content[t] \in Seq(MemoryRecords) /\ learned \in Sectioned
    BY <1>3, ContentFacts
  <1>9. Allowed \subseteq Allowed' /\ ItemsOf(content[t]) \subseteq Allowed'
    BY <1>2, <1>7 DEF Allowed
  <1>10. /\ profile' \in Seq(Lines)
         /\ \A x \in InProfile(profile') :
               \/ x \in Allowed
               \/ \E s \in Sections : \E m \in Fresh(learned[s]) : learned[s][m] = x
         /\ profile' = IF text = read[q] THEN profile ELSE text
    BY <1>4, <1>8, MergeCommitted
  <1>11. ASSUME NEW s \in Sections, NEW m \in Fresh(learned[s])
         PROVE  learned[s][m] \in ItemsOf(content[t])
    <2>1. m \in DOMAIN learned[s]
      BY DEF Fresh
    <2>2. PICK k \in DOMAIN content[t] : content[t][k].item = learned[s][m]
      BY <1>8, <2>1, BySectionFacts
    <2> QED
      BY <2>2 DEF ItemsOf
  <1>12. read[q] \in Seq(Lines)
    BY DEF IInv, TypeOK
  <1>13. Knows(text, content[t])
    BY <1>8, <1>12, MergeTeaches
  <1>14. ASSUME NEW p \in Proposals, Knows(read[q], content[p])
         PROVE  Knows(text, content[p])
    BY <1>8, <1>12, <1>14, ContentFacts, MergeKeepsKnown
  <1> HIDE DEF learned, text
  <1>15. InProfile(profile') \subseteq Allowed'
    BY <1>9, <1>10, <1>11
  <1>16. since' \in [Requests -> SUBSET Proposals] /\ overwritten' \subseteq Proposals
    BY <1>1, <1>3, <1>5 DEF IInv, TypeOK
  <1>17. TypeOK'
    BY <1>2, <1>6, <1>10, <1>16 DEF IInv, TypeOK
  <1>18. DecisionsExist'
    <2>1. \A p \in Proposals : proposal[p] # "absent" <=> proposal'[p] # "absent"
      <3>1. proposal[t] # "absent"
        BY <1>2 DEF IInv, DecisionsExist, t
      <3> QED
        BY <1>6, <3>1
    <2>2. \A p \in Applied : p \in Proposals
      BY DEF Applied
    <2> QED
      BY <1>2, <1>3, <1>6, <1>7, <2>1, <2>2 DEF IInv, DecisionsExist
  <1>19. ReadHoldsOnlyApproved'
    BY <1>2, <1>9 DEF IInv, ReadHoldsOnlyApproved
  <1>20. ProfileHoldsOnlyApproved'
    BY <1>15 DEF ProfileHoldsOnlyApproved, Allowed
  <1>21. AppliedIsKnown'
    <2> SUFFICES ASSUME NEW p \in Applied \union {t}, p \notin overwritten'
                 PROVE  Knows(profile', content[p])
      BY <1>2, <1>7 DEF AppliedIsKnown
    <2>1. p \in Proposals
      BY <1>3 DEF Applied
    <2>2. CASE text # read[q]
      <3>1. profile' = text /\ overwritten' = (overwritten \union since[q]) \ {t}
        BY <1>5, <1>10, <2>2
      <3>2. p = t \/ p \in Applied \ (since[q] \union overwritten)
        BY <3>1
      <3>3. CASE p = t
        BY <1>13, <3>1, <3>3
      <3>4. CASE p \in Applied \ (since[q] \union overwritten)
        <4>1. Knows(read[q], content[p])
          BY <1>2, <3>4 DEF IInv, ReadIsKnown
        <4> QED
          BY <1>14, <2>1, <3>1, <4>1
      <3> QED
        BY <3>2, <3>3, <3>4
    <2>3. CASE text = read[q] /\ profile = read[q]
      <3>1. profile' = text /\ overwritten' = overwritten \ {t}
        BY <1>5, <1>10, <2>3
      <3>2. p = t \/ p \in Applied \ overwritten
        BY <3>1
      <3> QED
        BY <1>13, <2>3, <3>1, <3>2 DEF IInv, AppliedIsKnown
    <2>4. CASE text = read[q] /\ profile # read[q]
      <3>1. profile' = profile /\ overwritten' = overwritten \union {t}
        BY <1>5, <1>10, <2>4
      <3>2. p \in Applied \ overwritten
        BY <3>1
      <3> QED
        BY <3>1, <3>2 DEF IInv, AppliedIsKnown
    <2> QED
      BY <2>2, <2>3, <2>4
  <1>22. ReadIsKnown'
    <2> SUFFICES ASSUME NEW r \in Requests, pc'[r] = "write", NEW p \in Applied \union {t},
                        p \notin since'[r], p \notin overwritten'
                 PROVE  Knows(read[r], content[p])
      BY <1>2, <1>7 DEF ReadIsKnown
    <2>1. r # q /\ pc[r] = "write" /\ since'[r] = since[r] \union {t}
      BY <1>1, <1>2
    <2>2. p # t /\ p \in Applied /\ p \notin since[r]
      BY <2>1
    <2>3. p \notin overwritten
      BY <1>5, <2>2
    <2> QED
      BY <2>1, <2>2, <2>3 DEF IInv, ReadIsKnown
  <1> QED
    BY <1>17, <1>18, <1>19, <1>20, <1>21, <1>22 DEF IInv

(* A commit that decides nothing: what is left to show is about the        *)
(* profile.                                                                *)
LEMMA ProfileCommit ==
    ASSUME IInv, NEW q \in Requests, NEW o \in Operations, Done(q, o), Undecided(q),
           proposal' = proposal, entries' = entries,
           profile' \in Seq(Lines), InProfile(profile') \subseteq Allowed,
           overwritten \subseteq overwritten', overwritten' \subseteq Proposals,
           \/ profile' = profile
           \/ \A p \in Applied \ overwritten' : Knows(profile', content[p])
    PROVE  IInv'
  <1>1. /\ pc' \in [Requests -> {"idle", "read", "write", "done"}]
        /\ \A r \in Requests : pc'[r] = "write" => pc[r] = "write" /\ r # q
        /\ first' = first /\ content' = content /\ low' = low
        /\ op' = op /\ target' = target /\ read' = read
    BY DoneFacts
  <1>2. since' \in [Requests -> SUBSET Proposals] /\ \A r \in Requests \ {q} : since'[r] = since[r]
    BY DEF Undecided, IInv, TypeOK
  <1>3. Applied' = Applied
    BY DEF Applied
  <1>4. Allowed' = Allowed
    BY <1>1, <1>3 DEF Allowed
  <1>5. TypeOK'
    BY <1>1, <1>2 DEF IInv, TypeOK
  <1>6. DecisionsExist' /\ ReadHoldsOnlyApproved'
    BY <1>1, <1>3, <1>4 DEF IInv, DecisionsExist, ReadHoldsOnlyApproved
  <1>7. ProfileHoldsOnlyApproved'
    BY <1>4 DEF ProfileHoldsOnlyApproved, Allowed
  <1>8. AppliedIsKnown' /\ ReadIsKnown'
    BY <1>1, <1>2, <1>3, KnownKept
  <1> QED
    BY <1>5, <1>6, <1>7, <1>8 DEF IInv

LEMMA CommitRejectionStep ==
    ASSUME IInv, NEW q \in Requests, CommitRejection(q)
    PROVE  IInv'
  <1> DEFINE t == target[q]
  <1>1. /\ Done(q, "reject") /\ Undecided(q)
        /\ proposal' = [proposal EXCEPT ![t] = "rejected"]
        /\ profile' = profile /\ entries' = entries /\ overwritten' = overwritten
    BY DEF CommitRejection
  <1>2. /\ op[q] = "reject"
        /\ pc' \in [Requests -> {"idle", "read", "write", "done"}]
        /\ \A r \in Requests : pc'[r] = "write" => pc[r] = "write" /\ r # q
        /\ first' = first /\ content' = content /\ low' = low
        /\ op' = op /\ target' = target /\ read' = read
    BY <1>1, DoneFacts DEF Operations
  <1>3. t \in Proposals /\ proposal[t] # "absent"
    BY <1>2 DEF IInv, DecisionsExist
  <1> HIDE DEF t
  <1>4. /\ \A p \in Proposals : p # t => proposal'[p] = proposal[p]
        /\ proposal'[t] = "rejected"
        /\ proposal' \in [Proposals -> {"absent", "pending", "approved", "rejected"}]
    BY <1>1, <1>3 DEF IInv, TypeOK
  <1>5. Applied' = Applied
    BY <1>1 DEF Applied
  <1>6. Allowed' = Allowed
    BY <1>2, <1>5 DEF Allowed
  <1>7. since' \in [Requests -> SUBSET Proposals] /\ \A r \in Requests \ {q} : since'[r] = since[r]
    BY <1>1 DEF Undecided, IInv, TypeOK
  <1>8. TypeOK'
    BY <1>1, <1>2, <1>4, <1>7 DEF IInv, TypeOK
  <1>9. DecisionsExist'
    <2>1. \A p \in Proposals : proposal[p] # "absent" <=> proposal'[p] # "absent"
      BY <1>3, <1>4
    <2>2. \A p \in Applied : p \in Proposals
      BY DEF Applied
    <2> QED
      BY <1>2, <1>5, <2>1, <2>2 DEF IInv, DecisionsExist
  <1>10. ReadHoldsOnlyApproved' /\ ProfileHoldsOnlyApproved'
    BY <1>1, <1>2, <1>6 DEF IInv, ReadHoldsOnlyApproved, ProfileHoldsOnlyApproved, Allowed
  <1>11. AppliedIsKnown' /\ ReadIsKnown'
    BY <1>1, <1>2, <1>5, <1>7, KnownKept
  <1> QED
    BY <1>8, <1>9, <1>10, <1>11 DEF IInv

LEMMA OwnerLearnsStep ==
    ASSUME IInv, NEW q \in Requests, NEW l \in OwnerLearned, OwnerLearns(q, l)
    PROVE  IInv'
  <1>1. /\ Done(q, "ownerChat") /\ Undecided(q) /\ proposal' = proposal /\ entries' = entries
    BY DEF OwnerLearns
  <1>2. /\ profile \in Seq(Lines) /\ InProfile(profile) \subseteq Allowed
        /\ read[q] \in Seq(Lines)
        /\ since[q] \subseteq Proposals /\ overwritten \subseteq Proposals
    BY DEF IInv, TypeOK, ProfileHoldsOnlyApproved, Allowed
  <1>3. CASE l = NothingLearned
    <2>1. profile' = profile /\ overwritten' = overwritten
      BY <1>3, Zenon DEF OwnerLearns, WriteProfile
    <2> QED
      BY <1>1, <1>2, <2>1, ProfileCommit DEF Operations
  <1>4. CASE l # NothingLearned
    <2> DEFINE text == Merge(read[q], l)
    <2>1. /\ WriteProfile(q, text)
          /\ overwritten' = IF text = read[q] THEN overwritten ELSE overwritten \union since[q]
      BY <1>4, Zenon DEF OwnerLearns
    <2>2. l \in Sectioned
      BY RecordsType
    <2>3. /\ profile' \in Seq(Lines)
          /\ \A x \in InProfile(profile') :
                \/ x \in Allowed
                \/ \E s \in Sections : \E m \in Fresh(l[s]) : l[s][m] = x
          /\ profile' = IF text = read[q] THEN profile ELSE text
      BY <2>1, <2>2, MergeCommitted
    <2>4. ASSUME NEW s \in Sections, NEW m \in Fresh(l[s])
          PROVE  l[s][m] \in Allowed
      <3>1. l[s][m] \in ItemsOf(Records(l))
        BY <2>2, RecordsFacts
      <3> QED
        BY <3>1 DEF Allowed, OwnerItems
    <2>5. InProfile(profile') \subseteq Allowed
      BY <2>3, <2>4
    <2>6. ASSUME NEW p \in Applied \ (since[q] \union overwritten)
          PROVE  Knows(text, content[p])
      <3>1. pc[q] = "write"
        BY <1>1, DoneFacts DEF Operations
      <3>2. Knows(read[q], content[p]) /\ p \in Proposals
        BY <3>1 DEF IInv, ReadIsKnown, Applied
      <3> QED
        BY <1>2, <2>2, <3>2, ContentFacts, MergeKeepsKnown
    <2> HIDE DEF text
    <2>7. \/ profile' = profile
          \/ \A p \in Applied \ overwritten' : Knows(profile', content[p])
      <3>1. CASE text = read[q]
        BY <2>3, <3>1
      <3>2. CASE text # read[q]
        <4>1. profile' = text /\ overwritten' = overwritten \union since[q]
          BY <2>1, <2>3, <3>2
        <4> QED
          BY <2>6, <4>1
      <3> QED
        BY <3>1, <3>2
    <2>8. overwritten \subseteq overwritten' /\ overwritten' \subseteq Proposals
      BY <1>2, <2>1
    <2> QED
      BY <1>1, <2>3, <2>5, <2>7, <2>8, ProfileCommit DEF Operations
  <1> QED
    BY <1>3, <1>4

LEMMA SaveEditStep ==
    ASSUME IInv, NEW q \in Requests, NEW i \in 1 .. Len(read[q]), SaveEdit(q, i)
    PROVE  IInv'
  <1>1. /\ Done(q, "edit") /\ i \in DOMAIN read[q] /\ Undecided(q)
        /\ profile' = RemoveAt(read[q], i)
        /\ proposal' = proposal /\ entries' = entries
        /\ overwritten' = overwritten \union Applied
    BY DEF SaveEdit
  <1>2. read[q] \in Seq(Lines) /\ InProfile(read[q]) \subseteq Allowed
    BY DEF IInv, TypeOK, ReadHoldsOnlyApproved
  <1>3. profile' \in Seq(Lines) /\ InProfile(profile') \subseteq Allowed
    BY <1>1, <1>2, RemoveAtFacts
  <1>4. overwritten \subseteq overwritten' /\ overwritten' \subseteq Proposals
    BY <1>1 DEF IInv, TypeOK, Applied
  <1>5. \A p \in Applied \ overwritten' : Knows(profile', content[p])
    BY <1>1
  <1> QED
    BY <1>1, <1>3, <1>4, <1>5, ProfileCommit DEF Operations

-----------------------------------------------------------------------------
(* The theorems.                                                           *)

LEMMA NextInv == IInv /\ [Next]_vars => IInv'
  <1> SUFFICES ASSUME IInv, [Next]_vars PROVE IInv'
    OBVIOUS
  <1>1. ASSUME NEW l \in Learned, StoreLowRisk(l) PROVE IInv'
    BY <1>1, StoreLowRiskStep
  <1>2. ASSUME NEW l \in Learned, NEW p \in Proposals, Propose(p, l) PROVE IInv'
    BY <1>2, ProposeStep
  <1>3. ASSUME NEW q \in Requests, Step(q) PROVE IInv'
    <2>1. CASE \E o \in Operations \ {"none"}, p \in Proposals \union {NoProposal} :
                  Start(q, o, p)
      BY <2>1, StartStep
    <2>2. CASE Read(q)
      BY <2>2, ReadStep
    <2>3. CASE CommitApproval(q)
      BY <2>3, CommitApprovalStep
    <2>4. CASE CommitRejection(q)
      BY <2>4, CommitRejectionStep
    <2>5. CASE \E l \in OwnerLearned : OwnerLearns(q, l)
      BY <2>5, OwnerLearnsStep
    <2>6. CASE \E i \in 1 .. Len(read[q]) : SaveEdit(q, i)
      BY <2>6, SaveEditStep
    <2>7. CASE Fail(q)
      BY <2>7, FailStep
    <2> QED
      BY <1>3, <2>1, <2>2, <2>3, <2>4, <2>5, <2>6, <2>7 DEF Step
  <1>4. CASE Quiescent
    BY <1>4, UnchangedStep DEF Quiescent
  <1>5. CASE UNCHANGED vars
    BY <1>5, UnchangedStep
  <1> QED
    BY <1>1, <1>2, <1>3, <1>4, <1>5 DEF Next

(* The inductive invariant holds in every reachable state of approve_memory*)
(* and reject_memory, the memory agent and the editor.                     *)
THEOREM Invariance == Spec => []IInv
  BY InitInv, NextInv, PTL DEF Spec

(* Every variable keeps its type: the profile is always a text of headings *)
(* and known items, and every stored proposal a sequence of records.       *)
THEOREM TypeCorrect == Spec => []TypeOK
  <1>1. IInv => TypeOK
    BY DEF IInv
  <1> QED
    BY <1>1, Invariance, PTL

(* However many requests read, decide, learn and edit at the same time, the*)
(* profile holds what the owner started with, told or approved, no more.   *)
THEOREM OnlyApproved == Spec => []ProfileHoldsOnlyApproved
  <1>1. IInv => ProfileHoldsOnlyApproved
    BY DEF IInv
  <1> QED
    BY <1>1, Invariance, PTL

(* However requests overlap, what was approved is in its section of the    *)
(* profile, unless the section is full or an edit or an overlap that       *)
(* overwritten names has come after it.                                    *)
THEOREM ApprovedIsRemembered == Spec => []AppliedIsKnown
  <1>1. IInv => AppliedIsKnown
    BY DEF IInv
  <1> QED
    BY <1>1, Invariance, PTL

(* approve_memory has no guard against a second approval, but the merge    *)
(* has: it leaves the sections as they are, or as the request read them.   *)
THEOREM SecondApprovalsTeachNothing == Spec => ApprovingAgainTeachesNothing
  <1> DEFINE Again ==
                 \A q \in Requests :
                     /\ CommitApproval(q)
                     /\ target[q] \in Applied \ (overwritten \union since[q])
                     => Parse(profile') \in {Parse(profile), Parse(read[q])}
  <1>1. IInv /\ [Next]_vars => [Again]_vars
    <2> SUFFICES ASSUME IInv, NEW q \in Requests, CommitApproval(q),
                        target[q] \in Applied \ (overwritten \union since[q])
                 PROVE  Parse(profile') \in {Parse(profile), Parse(read[q])}
      OBVIOUS
    <2> DEFINE t == target[q]
               text == Merge(read[q], BySection(content[t]))
    <2>1. t \in Proposals /\ proposal[t] # "absent" /\ pc[q] = "write"
      BY DEF CommitApproval, Done, IInv, DecisionsExist, Applied
    <2>2. read[q] \in Seq(Lines) /\ content[t] \in Seq(MemoryRecords) /\ content[t] # <<>>
      BY <2>1, ContentFacts DEF IInv, TypeOK, DecisionsExist
    <2>3. Knows(read[q], content[t])
      BY <2>1 DEF IInv, ReadIsKnown
    <2>4. Parse(text) = Parse(read[q])
      BY <2>2, <2>3, MergeOfKnown
    <2>5. WriteProfile(q, text)
      BY Zenon DEF CommitApproval, MergeRecords
    <2>6. profile' = IF text = read[q] THEN profile ELSE text
      BY <2>5, Zenon DEF WriteProfile
    <2> HIDE DEF text
    <2>7. profile' = profile \/ profile' = text
      BY <2>6
    <2> QED
      BY <2>4, <2>7
  <1> QED
    BY <1>1, Invariance, PTL DEF Spec, ApprovingAgainTeachesNothing

(* merge_profile_memory agrees with its definition by first occurrence, on *)
(* the profile of every reachable state.                                   *)
THEOREM MergeIsCorrect == Spec => []MergeAgrees
  <1>1. IInv => MergeAgrees
    <2>1. ASSUME IInv, NEW l \in Learned \union OwnerLearned
          PROVE  FirstComeFirstKept(profile, l)
      <3>1. profile \in Seq(Lines)
        BY <2>1 DEF IInv, TypeOK
      <3> QED
        BY <3>1, RecordsType, MergeIsFirstCome
    <2> QED
      BY <2>1 DEF MergeAgrees
  <1> QED
    BY <1>1, Invariance, PTL
=============================================================================
