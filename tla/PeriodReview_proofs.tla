------------------------ MODULE PeriodReview_proofs -------------------------
(***************************************************************************)
(* Proofs about PeriodReview, for every set of vouchers that can be        *)
(* entered, every set of workers, every length of the history and every    *)
(* policy of the client.                                                   *)
(*                                                                         *)
(* The first sections are about operators: sequences of sequences, sums,   *)
(* the median, what each rule emits, the table consolidation makes. What a *)
(* recursive definition computes is proved from a smallest counterexample, *)
(* because the induction theorems of the library take an operator. The     *)
(* invariant ReviewInv follows, then one lemma for each action, then the   *)
(* theorems.                                                               *)
(***************************************************************************)
EXTENDS PeriodReview, FiniteSetTheorems, WellFoundedInduction, TLAPS

-----------------------------------------------------------------------------
(* Induction *)

\* A set of naturals that is not empty has a smallest member.
LEMMA Smallest ==
  ASSUME NEW S \in SUBSET Nat, S # {}
  PROVE  \E m \in S : \A n \in S : m <= n
<1>1. IsWellFoundedOn(OpToRel(<, Nat), Nat)
  BY NatLessThanWellFounded, Zenon
<1>2. PICK m \in S : \A n \in S : ~(<<n, m>> \in OpToRel(<, Nat))
  BY <1>1, WFMin, Zenon
<1>3. ASSUME NEW n \in S PROVE m <= n
  <2>1. ~(<<n, m>> \in {s \in Nat \X Nat : s[1] < s[2]})
    BY <1>2, Zenon DEF OpToRel
  <2> QED
    BY <2>1
<1> QED
  BY <1>3

-----------------------------------------------------------------------------
(* Lists of lists *)

Entries(s) == {s[k] : k \in DOMAIN s}

\* A concatenation holds what its parts hold.
LEMMA Joins ==
  ASSUME NEW X, NEW s \in Seq(X), NEW t \in Seq(X)
  PROVE  s \o t \in Seq(X) /\ Entries(s \o t) = Entries(s) \cup Entries(t)
<1>1. /\ s \o t \in Seq(X) /\ Len(s) \in Nat /\ Len(t) \in Nat
      /\ DOMAIN s = 1 .. Len(s) /\ DOMAIN t = 1 .. Len(t)
      /\ DOMAIN (s \o t) = 1 .. Len(s) + Len(t)
      /\ \A k \in 1 .. Len(s) : (s \o t)[k] = s[k]
      /\ \A k \in 1 .. Len(t) : (s \o t)[k + Len(s)] = t[k]
  OBVIOUS
<1> DEFINE u == s \o t
<1>2. ASSUME NEW k \in DOMAIN u PROVE u[k] \in Entries(s) \cup Entries(t)
  <2>1. CASE k <= Len(s)
    BY <1>1, <2>1 DEF Entries
  <2>2. CASE k > Len(s)
    <3>1. k - Len(s) \in DOMAIN t /\ u[k] = t[k - Len(s)]
      BY <1>1, <2>2
    <3> QED
      BY <3>1 DEF Entries
  <2> QED
    BY <1>1, <2>1, <2>2
<1>3. ASSUME NEW k \in DOMAIN s PROVE s[k] \in Entries(u)
  <2>1. k \in DOMAIN u /\ u[k] = s[k]
    BY <1>1
  <2> QED
    BY <2>1 DEF Entries
<1>4. ASSUME NEW k \in DOMAIN t PROVE t[k] \in Entries(u)
  <2>1. k + Len(s) \in DOMAIN u /\ u[k + Len(s)] = t[k]
    BY <1>1
  <2> QED
    BY <2>1 DEF Entries
<1> HIDE DEF u
<1>5. Entries(u) = Entries(s) \cup Entries(t)
  BY <1>2, <1>3, <1>4 DEF Entries
<1> QED
  BY <1>1, <1>5 DEF u

\* The function FlattenSeq recurs with is there.
LEMMA FlattenFun ==
  ASSUME NEW ss, NEW n \in Nat \ {0}
  PROVE  \E f : f = [i \in 1 .. n |-> IF i = 1 THEN ss[i] ELSE f[i - 1] \o ss[i]]
<1> DEFINE Fun(f, m) == f = [i \in 1 .. m |-> IF i = 1 THEN ss[i] ELSE f[i - 1] \o ss[i]]
           Missing == {m \in Nat \ {0} : ~ \E f : Fun(f, m)}
<1>1. SUFFICES ASSUME Missing # {} PROVE FALSE
  OBVIOUS
<1>2. PICK m \in Missing : \A k \in Missing : m <= k
  BY <1>1, Smallest
<1>3. CASE m = 1
  <2>1. Fun([i \in 1 .. 1 |-> ss[i]], 1)
    OBVIOUS
  <2> QED
    BY <1>2, <1>3, <2>1
<1>4. CASE m # 1
  <2>1. m - 1 \in Nat \ {0} /\ m - 1 \notin Missing
    <3> HIDE DEF Missing
    <3>1. m \in Nat /\ m # 0 /\ m - 1 < m
      BY <1>2 DEF Missing
    <3> QED
      BY <1>2, <1>4, <3>1
  <2>2. PICK f : Fun(f, m - 1)
    BY <2>1
  <2> DEFINE g == [i \in 1 .. m |-> IF i = m THEN f[m - 1] \o ss[m] ELSE f[i]]
  <2>3. ASSUME NEW i \in 1 .. m
        PROVE  g[i] = IF i = 1 THEN ss[i] ELSE g[i - 1] \o ss[i]
    <3>1. CASE i = m
      <4>1. i # 1 /\ i - 1 \in 1 .. m /\ i - 1 # m
        BY <1>4, <2>1, <3>1
      <4>2. g[i] = f[m - 1] \o ss[m] /\ g[i - 1] = f[i - 1]
        BY <3>1, <4>1
      <4> QED
        BY <3>1, <4>1, <4>2
    <3>2. CASE i # m
      <4>1. i \in 1 .. m - 1
        BY <2>1, <3>2
      <4>2. f[i] = IF i = 1 THEN ss[i] ELSE f[i - 1] \o ss[i]
        BY <2>2, <4>1
      <4>3. i # 1 => i - 1 \in 1 .. m /\ i - 1 # m
        BY <2>1, <4>1
      <4> QED
        BY <3>2, <4>2, <4>3
    <3> QED
      BY <3>1, <3>2
  <2>4. Fun(g, m)
    BY <2>3
  <2> QED
    BY <1>2, <2>4
<1> QED
  BY <1>3, <1>4

\* FlattenSeq holds what its parts hold.
LEMMA Flattens ==
  ASSUME NEW X, NEW ss \in Seq(Seq(X))
  PROVE  /\ FlattenSeq(ss) \in Seq(X)
         /\ Entries(FlattenSeq(ss)) = UNION {Entries(ss[i]) : i \in DOMAIN ss}
<1> DEFINE n == Len(ss)
           Fun(f) == f = [i \in 1 .. n |-> IF i = 1 THEN ss[i] ELSE f[i - 1] \o ss[i]]
           f == CHOOSE f : Fun(f)
<1>1. n \in Nat /\ DOMAIN ss = 1 .. n /\ \A i \in 1 .. n : ss[i] \in Seq(X)
  OBVIOUS
<1>2. CASE n = 0
  <2>1. ss = << >> /\ FlattenSeq(ss) = ss
    BY <1>2 DEF FlattenSeq
  <2>2. << >> \in Seq(X) /\ DOMAIN << >> = {}
    OBVIOUS
  <2>3. Entries(<< >>) = {}
    BY <2>2 DEF Entries
  <2>4. UNION {Entries(ss[i]) : i \in DOMAIN ss} = {}
    BY <2>1, <2>2
  <2> QED
    BY <2>1, <2>2, <2>3, <2>4
<1>3. CASE n # 0
  <2>1. Fun(f)
    <3>1. n \in Nat \ {0}
      BY <1>1, <1>3
    <3>2. \E g : Fun(g)
      BY <3>1, FlattenFun
    <3> HIDE DEF Fun
    <3> QED
      BY <3>2
  <2>2. FlattenSeq(ss) = f[n]
    BY <1>3 DEF FlattenSeq
  <2> DEFINE Whole(i) == /\ f[i] \in Seq(X)
                         /\ Entries(f[i]) = UNION {Entries(ss[j]) : j \in 1 .. i}
             Wrongs == {i \in 1 .. n : ~Whole(i)}
  <2> HIDE DEF f
  <2>3. Wrongs = {}
    <3> SUFFICES ASSUME Wrongs # {} PROVE FALSE
      OBVIOUS
    <3>1. PICK i \in Wrongs : \A j \in Wrongs : i <= j
      <4>1. Wrongs \in SUBSET Nat
        BY <1>1
      <4> HIDE DEF Wrongs
      <4> QED
        BY <4>1, Smallest
    <3>0. i \in 1 .. n /\ ~Whole(i) /\ i \in Nat /\ n \in Nat
      BY <1>1, <3>1
    <3>2. CASE i = 1
      <4>1. f[1] = ss[1] /\ 1 .. 1 = {1}
        BY <1>1, <1>3, <2>1
      <4>2. UNION {Entries(ss[j]) : j \in {1}} = Entries(ss[1])
        OBVIOUS
      <4> QED
        BY <1>1, <3>0, <3>2, <4>1, <4>2
    <3>3. CASE i # 1
      <4>1. i - 1 \in 1 .. n /\ i - 1 \notin Wrongs
        <5> HIDE DEF Wrongs
        <5>1. i - 1 \in 1 .. n /\ ~(i <= i - 1)
          BY <3>0, <3>3
        <5> QED
          BY <3>1, <5>1
      <4>2. f[i] = f[i - 1] \o ss[i] /\ 1 .. i = (1 .. i - 1) \cup {i}
        <5>1. f[i] = f[i - 1] \o ss[i]
          BY <2>1, <3>0, <3>3
        <5>2. 1 .. i = (1 .. i - 1) \cup {i}
          BY <3>0
        <5> QED
          BY <5>1, <5>2
      <4>3. f[i] \in Seq(X) /\ Entries(f[i]) = Entries(f[i - 1]) \cup Entries(ss[i])
        BY <1>1, <4>1, <4>2, Joins
      <4>4. Whole(i - 1)
        BY <4>1
      <4>5. UNION {Entries(ss[j]) : j \in (1 .. i - 1) \cup {i}} =
              (UNION {Entries(ss[j]) : j \in 1 .. i - 1}) \cup Entries(ss[i])
        OBVIOUS
      <4> QED
        BY <3>0, <4>2, <4>3, <4>4, <4>5
    <3> QED
      BY <3>2, <3>3
  <2>4. n \in 1 .. n
    BY <1>1, <1>3
  <2>5. Whole(n)
    BY <2>3, <2>4
  <2> QED
    BY <1>1, <2>2, <2>5
<1> QED
  BY <1>2, <1>3

\* The same for a list that is made item by item.
-----------------------------------------------------------------------------
(* Sums *)

\* Among some subsets of a finite set there is one none of whose members can
\* be left out.
LEMMA SmallestSet ==
  ASSUME NEW S, IsFiniteSet(S), NEW W \in SUBSET SUBSET S, W # {}
  PROVE  \E s \in W : IsFiniteSet(s) /\ \A x \in s : s \ {x} \notin W
<1>1. \A s \in W : IsFiniteSet(s) /\ Cardinality(s) \in Nat
  BY FS_Subset, FS_CardinalityType
<1> DEFINE Sizes == {Cardinality(s) : s \in W}
<1>2. Sizes \in SUBSET Nat /\ Sizes # {}
  BY <1>1
<1>3. PICK m \in Sizes : \A n \in Sizes : m <= n
  <2> HIDE DEF Sizes
  <2> QED
    BY <1>2, Smallest
<1>4. PICK s \in W : Cardinality(s) = m
  BY <1>3
<1>5. ASSUME NEW x \in s PROVE s \ {x} \notin W
  <2>1. Cardinality(s \ {x}) = Cardinality(s) - 1
    BY <1>1, FS_RemoveElement
  <2>2. s \ {x} \in W => m <= Cardinality(s \ {x})
    BY <1>3
  <2> QED
    BY <1>1, <1>4, <2>1, <2>2
<1> QED
  BY <1>1, <1>5

Some(s) == CHOOSE x \in s : TRUE
Sums(iter, f, S) ==
  iter = [s \in SUBSET S |-> IF s = {} THEN 0 ELSE f[Some(s)] + iter[s \ {Some(s)}]]

\* The function SumFunction recurs with is there.
LEMMA SumsExist ==
  ASSUME NEW f, NEW S, IsFiniteSet(S)
  PROVE  \E iter : Sums(iter, f, S)
<1> DEFINE Upto(n) == {s \in SUBSET S : Cardinality(s) <= n}
           Body(g, s) == IF s = {} THEN 0 ELSE f[Some(s)] + g[s \ {Some(s)}]
           Fun(g, n) == g = [s \in Upto(n) |-> Body(g, s)]
           Missing == {n \in Nat : ~ \E g : Fun(g, n)}
<1>1. \A s \in SUBSET S : IsFiniteSet(s) /\ Cardinality(s) \in Nat
  BY FS_Subset, FS_CardinalityType
<1>2. \A s \in SUBSET S : s # {} => /\ Some(s) \in s
                                    /\ Cardinality(s \ {Some(s)}) = Cardinality(s) - 1
  <2> SUFFICES ASSUME NEW s \in SUBSET S, s # {}
               PROVE  Some(s) \in s /\ Cardinality(s \ {Some(s)}) = Cardinality(s) - 1
    OBVIOUS
  <2>1. Some(s) \in s
    BY DEF Some
  <2> QED
    BY <1>1, <2>1, FS_RemoveElement
<1>3. Missing = {}
  <2> SUFFICES ASSUME Missing # {} PROVE FALSE
    OBVIOUS
  <2>1. PICK m \in Missing : \A k \in Missing : m <= k
    <3>1. Missing \in SUBSET Nat
      OBVIOUS
    <3> HIDE DEF Missing
    <3> QED
      BY <3>1, Smallest
  <2>2. m \in Nat /\ ~ \E g : Fun(g, m)
    BY <2>1
  <2>3. CASE m = 0
    <3> DEFINE g == [s \in Upto(m) |-> 0]
    <3>1. ASSUME NEW s \in Upto(m) PROVE g[s] = Body(g, s)
      <4>1. Cardinality(s) = 0
        BY <1>1, <2>3, <3>1
      <4>2. s = {}
        BY <1>1, <4>1, FS_EmptySet
      <4> QED
        BY <4>2
    <3>2. Fun(g, m)
      BY <3>1
    <3> QED
      BY <2>2, <3>2
  <2>4. CASE m # 0
    <3>1. m - 1 \in Nat /\ ~(m <= m - 1)
      BY <2>2, <2>4
    <3>2. m - 1 \notin Missing
      <4> HIDE DEF Missing
      <4> QED
        BY <2>1, <3>1
    <3>3. PICK g : Fun(g, m - 1)
      BY <3>1, <3>2
    <3> DEFINE h == [s \in Upto(m) |-> Body(g, s)]
    <3>4. ASSUME NEW s \in Upto(m) PROVE Body(g, s) = Body(h, s)
      <4>1. CASE s # {}
        <5> DEFINE t == s \ {Some(s)}
        <5>1. t \in Upto(m - 1) /\ t \in Upto(m)
          <6>1. /\ t \in SUBSET S /\ Cardinality(t) = Cardinality(s) - 1
                /\ Cardinality(s) \in Nat /\ Cardinality(s) <= m
            BY <1>1, <1>2, <3>4, <4>1
          <6> HIDE DEF t
          <6> QED
            BY <2>2, <6>1
        <5>2. g[t] = Body(g, t) /\ h[t] = Body(g, t)
          <6> HIDE DEF Body
          <6> QED
            BY <3>3, <5>1
        <5> QED
          BY <5>2
      <4> QED
        BY <4>1
    <3>5. Fun(h, m)
      <4> HIDE DEF Body
      <4> QED
        BY <3>4
    <3> QED
      BY <2>2, <3>5
  <2> QED
    BY <2>3, <2>4
<1>4. PICK g : Fun(g, Cardinality(S))
  <2>1. Cardinality(S) \in Nat
    BY <1>1
  <2> QED
    BY <1>3, <2>1
<1>5. Upto(Cardinality(S)) = SUBSET S
  BY FS_Subset
<1>6. g = [s \in SUBSET S |-> IF s = {} THEN 0 ELSE f[Some(s)] + g[s \ {Some(s)}]]
  BY <1>4, <1>5
<1> QED
  BY <1>6 DEF Sums

\* SumFunction takes one member out after the other.
LEMMA SumOf ==
  ASSUME NEW f, IsFiniteSet(DOMAIN f)
  PROVE  \E iter : Sums(iter, f, DOMAIN f) /\ SumFunction(f) = iter[DOMAIN f]
<1> DEFINE S == DOMAIN f
           iter == CHOOSE iter : Sums(iter, f, S)
<1>1. Sums(iter, f, S)
  BY SumsExist
<1>2. SumFunction(f) = iter[S]
  BY DEF SumFunction, SumFunctionOnSet, FoldFunctionOnSet, MapThenFoldSet, Sums, Some
<1> QED
  BY <1>1, <1>2

\* A sum of integers is an integer.
LEMMA SumIsInt ==
  ASSUME NEW f, IsFiniteSet(DOMAIN f), \A x \in DOMAIN f : f[x] \in Int
  PROVE  SumFunction(f) \in Int
<1> DEFINE S == DOMAIN f
<1>1. PICK iter : Sums(iter, f, S) /\ SumFunction(f) = iter[S]
  BY SumOf
<1> DEFINE Wrongs == {s \in SUBSET S : iter[s] \notin Int}
<1>2. Wrongs = {}
  <2> SUFFICES ASSUME Wrongs # {} PROVE FALSE
    OBVIOUS
  <2>1. PICK s \in Wrongs : \A x \in s : s \ {x} \notin Wrongs
    <3>1. Wrongs \in SUBSET SUBSET S
      OBVIOUS
    <3> HIDE DEF Wrongs
    <3> QED
      BY <3>1, SmallestSet
  <2>2. iter[s] = IF s = {} THEN 0 ELSE f[Some(s)] + iter[s \ {Some(s)}]
    BY <1>1, <2>1 DEF Sums
  <2>3. s # {} => Some(s) \in s
    BY DEF Some
  <2> QED
    BY <2>1, <2>2, <2>3
<1> QED
  BY <1>1, <1>2

\* A sum of differences is the difference of the sums.
LEMMA SumOfDifferences ==
  ASSUME NEW f, NEW g, NEW h, IsFiniteSet(DOMAIN f),
         DOMAIN g = DOMAIN f, DOMAIN h = DOMAIN f,
         \A x \in DOMAIN f : f[x] \in Int /\ g[x] \in Int /\ h[x] = f[x] - g[x]
  PROVE  SumFunction(h) = SumFunction(f) - SumFunction(g)
<1> DEFINE S == DOMAIN f
<1>1. PICK F : Sums(F, f, S) /\ SumFunction(f) = F[S]
  BY SumOf
<1>2. PICK G : Sums(G, g, S) /\ SumFunction(g) = G[S]
  BY SumOf
<1>3. PICK H : Sums(H, h, S) /\ SumFunction(h) = H[S]
  BY SumOf
<1> DEFINE Wrongs == {s \in SUBSET S : ~(F[s] \in Int /\ G[s] \in Int /\ H[s] = F[s] - G[s])}
<1>4. Wrongs = {}
  <2> SUFFICES ASSUME Wrongs # {} PROVE FALSE
    OBVIOUS
  <2>1. PICK s \in Wrongs : \A x \in s : s \ {x} \notin Wrongs
    <3>1. Wrongs \in SUBSET SUBSET S
      OBVIOUS
    <3> HIDE DEF Wrongs
    <3> QED
      BY <3>1, SmallestSet
  <2>2. /\ F[s] = IF s = {} THEN 0 ELSE f[Some(s)] + F[s \ {Some(s)}]
        /\ G[s] = IF s = {} THEN 0 ELSE g[Some(s)] + G[s \ {Some(s)}]
        /\ H[s] = IF s = {} THEN 0 ELSE h[Some(s)] + H[s \ {Some(s)}]
    BY <1>1, <1>2, <1>3, <2>1 DEF Sums
  <2>3. s # {} => Some(s) \in s
    BY DEF Some
  <2>4. CASE s = {}
    BY <2>1, <2>2, <2>4
  <2>5. CASE s # {}
    <3> DEFINE t == s \ {Some(s)}
    <3>1. F[t] \in Int /\ G[t] \in Int /\ H[t] = F[t] - G[t]
      BY <2>1, <2>3, <2>5
    <3>2. /\ f[Some(s)] \in Int /\ g[Some(s)] \in Int
          /\ h[Some(s)] = f[Some(s)] - g[Some(s)]
      BY <2>1, <2>3, <2>5
    <3>3. /\ F[s] = f[Some(s)] + F[t] /\ G[s] = g[Some(s)] + G[t]
          /\ H[s] = h[Some(s)] + H[t]
      BY <2>2, <2>5
    <3> HIDE DEF t
    <3>4. F[s] \in Int /\ G[s] \in Int /\ H[s] = F[s] - G[s]
      BY <3>1, <3>2, <3>3
    <3> QED
      BY <2>1, <3>4
  <2> QED
    BY <2>4, <2>5
<1>5. S \in SUBSET S
  OBVIOUS
<1> HIDE DEF S
<1> QED
  BY <1>1, <1>2, <1>3, <1>4, <1>5

\* A sum of two is their sum.
LEMMA SumOfTwo ==
  ASSUME NEW f, DOMAIN f = {1, 2}, f[1] \in Int, f[2] \in Int
  PROVE  SumFunction(f) = f[1] + f[2]
<1>1. IsFiniteSet({1, 2})
  <2>1. IsFiniteSet({1}) /\ {1, 2} = {1} \cup {2}
    BY FS_Singleton
  <2> QED
    BY <2>1, FS_AddElement
<1>2. PICK iter : Sums(iter, f, {1, 2}) /\ SumFunction(f) = iter[{1, 2}]
  BY <1>1, SumOf
<1>3. \A s \in SUBSET {1, 2} :
        iter[s] = IF s = {} THEN 0 ELSE f[Some(s)] + iter[s \ {Some(s)}]
  BY <1>2 DEF Sums
<1>4. iter[{}] = 0
  BY <1>3
<1>5. \A x \in {1, 2} : iter[{x}] = f[x]
  <2> SUFFICES ASSUME NEW x \in {1, 2} PROVE iter[{x}] = f[x]
    OBVIOUS
  <2>1. Some({x}) = x /\ {x} \ {x} = {} /\ {x} # {} /\ {x} \in SUBSET {1, 2}
    BY DEF Some
  <2>2. iter[{x}] = f[x] + iter[{}]
    BY <1>3, <2>1
  <2> QED
    BY <1>4, <2>2
<1>6. iter[{1, 2}] = f[Some({1, 2})] + iter[{1, 2} \ {Some({1, 2})}]
  BY <1>3
<1>7. Some({1, 2}) \in {1, 2}
  BY DEF Some
<1>8. CASE Some({1, 2}) = 1
  <2>1. {1, 2} \ {1} = {2}
    OBVIOUS
  <2> QED
    BY <1>2, <1>5, <1>6, <1>8, <2>1
<1>9. CASE Some({1, 2}) = 2
  <2>1. {1, 2} \ {2} = {1}
    OBVIOUS
  <2>2. iter[{1, 2}] = f[2] + f[1]
    BY <1>5, <1>6, <1>9, <2>1
  <2> QED
    BY <1>2, <2>2
<1> QED
  BY <1>7, <1>8, <1>9

-----------------------------------------------------------------------------
(* Smallest and greatest, the median *)

\* A finite set of integers that is not empty has a least and a greatest member.
LEMMA LeastIs ==
  ASSUME NEW S \in SUBSET Int, S # {}, IsFiniteSet(S)
  PROVE  /\ \E x \in S : \A y \in S : x <= y
         /\ \E x \in S : \A y \in S : y <= x
<1> DEFINE Low(s) == \E x \in s : \A y \in s : x <= y
           High(s) == \E x \in s : \A y \in s : y <= x
           Wrongs == {s \in SUBSET S : s # {} /\ ~(Low(s) /\ High(s))}
<1>1. Wrongs = {}
  <2> SUFFICES ASSUME Wrongs # {} PROVE FALSE
    OBVIOUS
  <2>1. PICK s \in Wrongs : \A x \in s : s \ {x} \notin Wrongs
    <3>1. Wrongs \in SUBSET SUBSET S
      OBVIOUS
    <3> HIDE DEF Wrongs
    <3> QED
      BY <3>1, SmallestSet
  <2>2. PICK x : x \in s
    BY <2>1
  <2>3. s \in SUBSET S /\ x \in Int
    BY <2>1, <2>2
  <2>4. CASE s \ {x} = {}
    <3>1. s = {x} /\ x <= x
      BY <2>2, <2>3, <2>4
    <3>2. Low(s) /\ High(s)
      BY <3>1
    <3> QED
      BY <2>1, <3>2
  <2>5. CASE s \ {x} # {}
    <3>1. PICK y \in s \ {x} : \A z \in s \ {x} : y <= z
      BY <2>1, <2>2, <2>3, <2>5
    <3>2. Low(s)
      <4>1. CASE x <= y
        <5>1. \A z \in s : x <= z
          BY <2>2, <2>3, <3>1, <4>1
        <5> QED
          BY <2>2, <5>1
      <4>2. CASE ~(x <= y)
        <5>1. \A z \in s : y <= z
          BY <2>2, <2>3, <3>1, <4>2
        <5> QED
          BY <3>1, <5>1
      <4> QED
        BY <4>1, <4>2
    <3>3. PICK w \in s \ {x} : \A z \in s \ {x} : z <= w
      BY <2>1, <2>2, <2>3, <2>5
    <3>4. High(s)
      <4>1. CASE w <= x
        <5>1. \A z \in s : z <= x
          BY <2>2, <2>3, <3>3, <4>1
        <5> QED
          BY <2>2, <5>1
      <4>2. CASE ~(w <= x)
        <5>1. \A z \in s : z <= w
          BY <2>2, <2>3, <3>3, <4>2
        <5> QED
          BY <3>3, <5>1
      <4> QED
        BY <4>1, <4>2
    <3> QED
      BY <2>1, <3>2, <3>4
  <2> QED
    BY <2>4, <2>5
<1>2. S \notin Wrongs
  BY <1>1
<1> QED
  BY <1>2

\* Min is the least member.
LEMMA MinIs ==
  ASSUME NEW S \in SUBSET Int, S # {}, IsFiniteSet(S)
  PROVE  Min(S) \in S /\ \A y \in S : Min(S) <= y
BY LeastIs DEF Min

\* The median of integers is one, however many there are.
LEMMA MedianIsInt ==
  ASSUME NEW amounts \in Seq(Int)
  PROVE  median(amounts) \in Int
<1> DEFINE n == Len(amounts)
           UpTo(a) == {i \in DOMAIN amounts : amounts[i] <= a}
           From(k) == {a \in ToSet(amounts) : Cardinality(UpTo(a)) >= k}
           mid == n \div 2
<1>1. /\ n \in Nat /\ DOMAIN amounts = 1 .. n /\ \A i \in 1 .. n : amounts[i] \in Int
      /\ ToSet(amounts) \in SUBSET Int
      /\ \A i \in 1 .. n : amounts[i] \in ToSet(amounts)
  BY DEF ToSet, Range
<1>2. IsFiniteSet(ToSet(amounts))
  <2>1. amounts \in Surjection(1 .. n, ToSet(amounts))
    BY <1>1 DEF Surjection, ToSet, Range
  <2>2. IsFiniteSet(1 .. n)
    BY <1>1, FS_Interval
  <2> QED
    BY <2>1, <2>2, FS_Surjection
<1>3. ASSUME NEW k \in Nat, k <= n, n > 0 PROVE Min(From(k)) \in Int
  <2>1. ToSet(amounts) # {}
    <3>1. 1 \in 1 .. n
      BY <1>1, <1>3
    <3> QED
      BY <1>1, <3>1
  <2>2. PICK a \in ToSet(amounts) : \A b \in ToSet(amounts) : b <= a
    BY <1>1, <1>2, <2>1, LeastIs
  <2>3. UpTo(a) = 1 .. n
    BY <1>1, <2>2
  <2>4. Cardinality(UpTo(a)) = n
    <3>1. Cardinality(1 .. n) = n
      <4>1. n \in Int /\ 1 \in Int /\ ~(1 > n)
        BY <1>1, <1>3
      <4> HIDE DEF n
      <4>2. Cardinality(1 .. n) = n - 1 + 1
        BY <4>1, FS_Interval
      <4> QED
        BY <4>1, <4>2
    <3> QED
      BY <2>3, <3>1
  <2>5. From(k) # {} /\ From(k) \in SUBSET Int /\ From(k) \in SUBSET ToSet(amounts)
    <3>1. a \in From(k)
      BY <1>1, <1>3, <2>2, <2>4
    <3> QED
      BY <1>1, <3>1
  <2>6. IsFiniteSet(From(k))
    BY <1>2, <2>5, FS_Subset
  <2> HIDE DEF From
  <2> QED
    BY <2>5, <2>6, MinIs
<1>4. CASE n = 0
  BY <1>4 DEF median
<1>5. CASE n # 0
  <2>1. mid \in Nat /\ mid + 1 \in Nat /\ mid <= n /\ mid + 1 <= n /\ n > 0
    BY <1>1, <1>5
  <2>2. Min(From(mid)) \in Int /\ Min(From(mid + 1)) \in Int
    BY <1>3, <2>1
  <2>3. median(amounts) = IF n % 2 = 1 THEN Min(From(mid + 1))
                          ELSE (Min(From(mid)) + Min(From(mid + 1)) + 1) \div 2
    BY <1>5 DEF median
  <2> HIDE DEF From
  <2> QED
    BY <2>2, <2>3
<1> QED
  BY <1>4, <1>5

\* The members of a finite set, in some order.
LEMMA SeqOfSet ==
  ASSUME NEW S, IsFiniteSet(S)
  PROVE  SetToSeq(S) \in Seq(S)
<1> DEFINE n == Cardinality(S)
<1>1. n \in Nat /\ ExistsBijection(1 .. n, S)
  BY FS_CardinalityType
<1>2. PICK f : f \in Bijection(1 .. n, S)
  BY <1>1 DEF ExistsBijection
<1>3. f \in [1 .. n -> S] /\ IsInjective(f)
  BY <1>2 DEF Bijection, Injection, IsInjective
<1>4. SetToSeq(S) \in [1 .. n -> S]
  BY <1>3 DEF SetToSeq
<1> QED
  BY <1>1, <1>4

-----------------------------------------------------------------------------
(* The ledger *)

IsVoucher(v) == v.date \in Nat \ {0} /\ IsLedgerRows(v.rows)

\* The rows of a voucher have whole nets.
LEMMA RowsAre ==
  ASSUME NEW rows, IsLedgerRows(rows)
  PROVE  /\ IsFiniteSet(DOMAIN rows)
         /\ \A i \in DOMAIN rows : /\ rows[i].debit \in Int /\ rows[i].credit \in Int
                                   /\ Net(rows[i]) \in Int
                                   /\ Net(rows[i]) = rows[i].debit - rows[i].credit
<1>1. Len(rows) \in Int /\ DOMAIN rows = 1 .. Len(rows) /\ 1 \in Int
  BY DEF IsLedgerRows
<1>2. IsFiniteSet(DOMAIN rows)
  BY <1>1, FS_Interval
<1> QED
  BY <1>2 DEF IsLedgerRows, Net

\* A voucher is unbalanced by the sum of the nets of its rows.
LEMMA VoucherSums ==
  ASSUME NEW v, IsLedgerRows(v.rows)
  PROVE  /\ voucherTotalDebit(v) \in Int /\ voucherTotalCredit(v) \in Int
         /\ netOf(v) \in Int
         /\ voucherTotalDebit(v) - voucherTotalCredit(v) =
              SumFunction([i \in DOMAIN v.rows |-> Net(v.rows[i])])
<1> DEFINE d == [i \in DOMAIN v.rows |-> v.rows[i].debit]
           c == [i \in DOMAIN v.rows |-> v.rows[i].credit]
           n == [i \in DOMAIN v.rows |-> Net(v.rows[i])]
           o == [i \in costRows(v) |-> Net(v.rows[i])]
<1>1. /\ IsFiniteSet(DOMAIN v.rows) /\ IsFiniteSet(costRows(v))
      /\ costRows(v) \subseteq DOMAIN v.rows
  <2>1. IsFiniteSet(DOMAIN v.rows) /\ costRows(v) \in SUBSET DOMAIN v.rows
    BY RowsAre DEF costRows
  <2> QED
    BY <2>1, FS_Subset
<1>2. /\ DOMAIN d = DOMAIN v.rows /\ DOMAIN c = DOMAIN v.rows /\ DOMAIN n = DOMAIN v.rows
      /\ \A i \in DOMAIN v.rows : d[i] \in Int /\ c[i] \in Int /\ n[i] = d[i] - c[i]
      /\ DOMAIN o = costRows(v) /\ \A i \in costRows(v) : o[i] \in Int
  BY <1>1, RowsAre
<1>3. /\ SumFunction(d) \in Int /\ SumFunction(c) \in Int /\ SumFunction(o) \in Int
      /\ SumFunction(n) = SumFunction(d) - SumFunction(c)
  <2> HIDE DEF d, c, n, o
  <2> QED
    BY <1>1, <1>2, SumIsInt, SumOfDifferences
<1> QED
  BY <1>3 DEF voucherTotalDebit, voucherTotalCredit, netOf

-----------------------------------------------------------------------------
(* What a rule emits *)

Signals ==
  [documentCompleteness: Int, deterministicRuleMatch: Int, historicalConsistency: Int,
   counterpartyIdentityMatch: Int, amountConsistency: Int, vatConsistency: Int,
   dimensionConsistency: Int, duplicateRisk: Int, reconciliationImpact: Int,
   materiality: Int]

\* The subject of a key.
VoucherOf(key) == IF key[3] = "accounts" THEN 0 ELSE key[4]

\* A key tells the class of an issue and the voucher it is about.
LEMMA KeyTells ==
  ASSUME NEW period, NEW class, NEW subject
  PROVE  LET key == buildDeduplicationKey(period, class, subject)
         IN  key[2] = class /\ VoucherOf(key) = subject.voucher
<1> DEFINE key == buildDeduplicationKey(period, class, subject)
<1>1. CASE subject.row # 0
  <2>1. key = <<period, class, "row", subject.voucher, subject.row>>
    BY <1>1 DEF buildDeduplicationKey
  <2> QED
    BY <2>1 DEF VoucherOf
<1>2. CASE subject.row = 0 /\ subject.voucher # 0
  <2>1. key = <<period, class, "voucher", subject.voucher>>
    BY <1>2 DEF buildDeduplicationKey
  <2> QED
    BY <2>1 DEF VoucherOf
<1>3. CASE subject.row = 0 /\ subject.voucher = 0
  <2>1. key = <<period, class, "accounts", subject.supplier, subject.account>>
    BY <1>3 DEF buildDeduplicationKey
  <2> QED
    BY <1>3, <2>1 DEF VoucherOf
<1> QED
  BY <1>1, <1>2, <1>3

Emitted(d) ==
  /\ d.severity \in Int /\ d.amount \in Int /\ d.score \in Int
  /\ d.level \in Levels
  /\ d.consultant \in BOOLEAN /\ d.blocking \in BOOLEAN
  /\ d.blocking <=> isBlockingType(d.type)
  /\ VoucherOf(d.key) = d.subject.voucher

\* What is decided of an amount: automatic only when no gate is shut, the
\* period is open, and the amount immaterial and within the limit.
LEMMA AssessIs ==
  ASSUME NEW amount \in Int, NEW locked \in BOOLEAN, NEW signals \in Signals, NEW shut
  PROVE  /\ Assess(amount, locked, signals, shut).score \in Int
         /\ Assess(amount, locked, signals, shut).level \in Levels
         /\ Assess(amount, locked, signals, shut).level = "automatic" =>
              /\ shut = {} /\ ~locked /\ ~isMaterial(amount)
              /\ Abs(amount) <= AutomationAmountLimit
<1> DEFINE s == [signals EXCEPT !.materiality = materialitySignal(amount)]
           all == shut \cup AmountGates(amount) \cup LockGates(locked)
           score == computeDecisionScore(s)
<1>1. /\ MaterialityThreshold \in Nat /\ AutomationAmountLimit \in Nat
      /\ Abs(amount) \in Nat
  BY AmountsAssumption DEF Abs
<1>2. materialitySignal(amount) \in Int
  <2>1. CASE MaterialityThreshold = 0
    BY <2>1 DEF materialitySignal
  <2>2. CASE MaterialityThreshold # 0
    <3>1. (100 * Abs(amount)) \div MaterialityThreshold \in Int
      BY <1>1, <2>2
    <3> QED
      BY <2>2, <3>1 DEF materialitySignal, Greater
  <2> QED
    BY <2>1, <2>2
<1>3. s \in Signals
  BY <1>2 DEF Signals
<1> HIDE DEF s
<1>4. score \in Int
  BY <1>3 DEF Signals, computeDecisionScore
<1>5. Assess(amount, locked, signals, shut) = decide(s, all)
  BY DEF Assess, s
<1> HIDE DEF all
<1>6. /\ decide(s, all).score = score
      /\ decide(s, all).level \in Levels
      /\ decide(s, all).level = "automatic" => all = {}
  BY DEF decide, Levels
<1>7. ASSUME all = {}
      PROVE  shut = {} /\ ~locked /\ ~isMaterial(amount) /\ Abs(amount) <= AutomationAmountLimit
  <2>1. shut = {} /\ AmountGates(amount) = {} /\ LockGates(locked) = {}
    BY <1>7 DEF all
  <2>2. ~locked
    BY <2>1 DEF LockGates
  <2>3. ~isMaterial(amount) /\ ~(Abs(amount) > AutomationAmountLimit)
    BY <2>1 DEF AmountGates
  <2> QED
    BY <1>1, <2>1, <2>2, <2>3
<1> QED
  BY <1>4, <1>5, <1>6, <1>7

Emits(d, ctx, type, class, subject) ==
  /\ Emitted(d)
  /\ d.type = type /\ d.subject = subject
  /\ d.key = buildDeduplicationKey(ctx.period, class, subject)

\* What emitFinding makes of an observation.
LEMMA EmitIs ==
  ASSUME NEW ctx, NEW type, NEW class, NEW severity \in Int, NEW subject,
         NEW amount \in Int, NEW signals \in Signals, NEW shut
  PROVE  LET d == emitFinding(Env(ctx), [type |-> type, class |-> class, severity |-> severity,
                                         subject |-> subject, amount |-> amount,
                                         signals |-> signals, shut |-> shut])
         IN  Emits(d, ctx, type, class, subject)
<1> DEFINE input == [type |-> type, class |-> class, severity |-> severity,
                     subject |-> subject, amount |-> amount,
                     signals |-> signals, shut |-> shut]
           d == emitFinding(Env(ctx), input)
           outcome == Assess(amount, isPeriodLocked(ctx), signals, shut)
<1>1. isPeriodLocked(ctx) \in BOOLEAN
  BY DEF isPeriodLocked
<1>2. outcome.score \in Int /\ outcome.level \in Levels
  BY <1>1, AssessIs
<1>3. d = [type |-> type, severity |-> severity, subject |-> subject, amount |-> amount,
           level |-> outcome.level, score |-> outcome.score,
           consultant |-> outcome.level # "automatic",
           blocking |-> isBlockingType(type),
           key |-> buildDeduplicationKey(ctx.period, class, subject)]
  BY DEF emitFinding, Env
<1> HIDE DEF d, outcome
<1>4. isBlockingType(type) \in BOOLEAN
  BY DEF isBlockingType
<1>5. Emitted(d)
  BY <1>2, <1>3, <1>4, KeyTells DEF Emitted
<1> QED
  BY <1>3, <1>5 DEF Emits, d

\* A voucher is reported for an issue of some class.
Reported(list, type, class, v) ==
  \E d \in Entries(list) : d.type = type /\ d.key[2] = class /\ d.subject.voucher = v.id

\* An observation about a voucher or a row of it reports the voucher.
LEMMA EmitsReports ==
  ASSUME NEW ctx, NEW d, NEW type, NEW class, NEW v, NEW list, d \in Entries(list),
         \/ Emits(d, ctx, type, class, AboutVoucher(v))
         \/ \E i : Emits(d, ctx, type, class, AboutRow(v, i))
  PROVE  Reported(list, type, class, v)
<1>1. AboutVoucher(v).voucher = v.id /\ \A i : AboutRow(v, i).voucher = v.id
  BY DEF AboutVoucher, AboutRow, NoSubject
<1>2. d.type = type /\ d.subject.voucher = v.id /\ d.key[2] = class
  BY <1>1, KeyTells DEF Emits
<1> QED
  BY <1>2 DEF Reported

\* A list of findings.
Findings(list) ==
  list \in Seq(Entries(list)) /\ \A d \in Entries(list) : Emitted(d)

\* Two lists of findings make one.
LEMMA FindingsJoin ==
  ASSUME NEW s, NEW t, Findings(s), Findings(t)
  PROVE  Findings(s \o t) /\ Entries(s \o t) = Entries(s) \cup Entries(t)
<1> DEFINE X == Entries(s) \cup Entries(t)
<1>1. s \in Seq(X) /\ t \in Seq(X)
  BY DEF Findings
<1>2. s \o t \in Seq(X) /\ Entries(s \o t) = X
  BY <1>1, Joins
<1> QED
  BY <1>2 DEF Findings

\* The shortest lists of findings.
LEMMA NoneOrOne ==
  ASSUME NEW d
  PROVE  /\ Findings(<< >>) /\ Entries(<< >>) = {}
         /\ Emitted(d) => Findings(<<d>>)
         /\ Entries(<<d>>) = {d}
<1>1. /\ Entries(<<d>>) = {d} /\ Entries(<< >>) = {}
      /\ <<d>> \in Seq({d}) /\ << >> \in Seq({})
  BY DEF Entries
<1> QED
  BY <1>1 DEF Findings

\* Lists of findings, one after the other.
LEMMA EachFinds ==
  ASSUME NEW ss, NEW n, n \in Nat, ss = [i \in 1 .. n |-> ss[i]],
         \A i \in 1 .. n : Findings(ss[i])
  PROVE  /\ Findings(FlattenSeq(ss))
         /\ Entries(FlattenSeq(ss)) = UNION {Entries(ss[i]) : i \in 1 .. n}
<1> DEFINE X == UNION {Entries(ss[i]) : i \in 1 .. n}
<1>1. ASSUME NEW i \in 1 .. n PROVE ss[i] \in Seq(X)
  <2>1. ss[i] \in Seq(Entries(ss[i])) /\ Entries(ss[i]) \subseteq X
    BY DEF Findings
  <2> HIDE DEF X
  <2> QED
    BY <2>1
<1>2. FlattenSeq(ss) \in Seq(X) /\ Entries(FlattenSeq(ss)) = X
  <2> HIDE DEF X
  <2>1. ss \in Seq(Seq(X)) /\ DOMAIN ss = 1 .. n
    BY <1>1
  <2> QED
    BY <2>1, Flattens DEF X
<1>3. \A d \in X : Emitted(d)
  BY DEF Findings
<1> HIDE DEF X
<1>4. Findings(FlattenSeq(ss))
  BY <1>2, <1>3 DEF Findings
<1> QED
  BY <1>2, <1>4 DEF X

\* The same for a list that is made from the items of another.
LEMMA FindsForEach ==
  ASSUME NEW list, Len(list) \in Nat, DOMAIN list = 1 .. Len(list),
         NEW ss, ss = [i \in DOMAIN list |-> ss[i]],
         \A i \in DOMAIN list : Findings(ss[i])
  PROVE  /\ Findings(FlattenSeq(ss))
         /\ \A i \in DOMAIN list : Entries(ss[i]) \subseteq Entries(FlattenSeq(ss))
<1> DEFINE n == Len(list)
<1>1. ss = [i \in 1 .. n |-> ss[i]] /\ \A i \in 1 .. n : Findings(ss[i])
  OBVIOUS
<1>2. /\ Findings(FlattenSeq(ss))
      /\ Entries(FlattenSeq(ss)) = UNION {Entries(ss[i]) : i \in 1 .. n}
  <2> HIDE DEF n
  <2>1. n \in Nat
    BY DEF n
  <2> QED
    BY <1>1, <2>1, EachFinds
<1> QED
  BY <1>2

IsContext(ctx) ==
  /\ Len(ctx.current) \in Nat /\ DOMAIN ctx.current = 1 .. Len(ctx.current)
  /\ \A n \in DOMAIN ctx.current : IsVoucher(ctx.current[n])
  /\ Len(ctx.history) \in Nat /\ DOMAIN ctx.history = 1 .. Len(ctx.history)
  /\ \A n \in DOMAIN ctx.history : IsVoucher(ctx.history[n])

\* The signals and severities the rules use.
LEMMA NoRuleIs ==
  /\ NEUTRAL_SIGNALS \in Signals /\ NoRule \in Signals
  /\ low \in Int /\ medium \in Int /\ high \in Int /\ critical \in Int
  /\ \A n \in Int : Abs(n) \in Int
BY DEF NEUTRAL_SIGNALS, NoRule, Signals, low, medium, high, critical, Abs

\* What the rules compute of a voucher that a run loaded.
LEMMA ContextIs ==
  ASSUME NEW ctx, IsContext(ctx), NEW n \in DOMAIN ctx.current
  PROVE  LET v == ctx.current[n]
         IN  /\ voucherTotalDebit(v) \in Int /\ voucherTotalCredit(v) \in Int
             /\ netOf(v) \in Int
             /\ Len(v.rows) \in Nat /\ DOMAIN v.rows = 1 .. Len(v.rows)
             /\ \A i \in DOMAIN v.rows : /\ Abs(Net(v.rows[i])) \in Int
                                         /\ v.rows[i].debit \in Int
<1> DEFINE v == ctx.current[n]
<1>1. IsLedgerRows(v.rows)
  BY DEF IsContext, IsVoucher
<1> HIDE DEF v
<1>2. /\ voucherTotalDebit(v) \in Int /\ voucherTotalCredit(v) \in Int
      /\ netOf(v) \in Int
  BY <1>1, VoucherSums
<1>3. \A i \in DOMAIN v.rows : Abs(Net(v.rows[i])) \in Int /\ v.rows[i].debit \in Int
  BY <1>1, RowsAre, NoRuleIs
<1> QED
  BY <1>1, <1>2, <1>3 DEF v, IsLedgerRows

\* A rule that pushes a finding about the vouchers that hit it.
LEMMA VoucherRule ==
  ASSUME NEW ctx, IsContext(ctx), NEW type, NEW class, NEW shut,
         NEW hit, NEW severity, NEW amount, NEW signals, NEW list,
         \A n \in DOMAIN ctx.current :
           severity[n] \in Int /\ amount[n] \in Int /\ signals[n] \in Signals,
         list = FlattenSeq([n \in DOMAIN ctx.current |->
           Only(hit[n], emitFinding(Env(ctx),
             [type |-> type, class |-> class, severity |-> severity[n],
              subject |-> AboutVoucher(ctx.current[n]), amount |-> amount[n],
              signals |-> signals[n], shut |-> shut]))])
  PROVE  /\ Findings(list)
         /\ \A n \in DOMAIN ctx.current :
              hit[n] => Reported(list, type, class, ctx.current[n])
<1> DEFINE found(n) ==
             emitFinding(Env(ctx),
               [type |-> type, class |-> class, severity |-> severity[n],
                subject |-> AboutVoucher(ctx.current[n]), amount |-> amount[n],
                signals |-> signals[n], shut |-> shut])
           ss == [n \in DOMAIN ctx.current |-> Only(hit[n], found(n))]
           current == ctx.current
<1>1. ASSUME NEW n \in DOMAIN current
      PROVE  Emits(found(n), ctx, type, class, AboutVoucher(ctx.current[n]))
  BY EmitIs
<1>2. list = FlattenSeq(ss) /\ ss = [n \in DOMAIN current |-> ss[n]]
  OBVIOUS
<1>3. Len(current) \in Nat /\ DOMAIN current = 1 .. Len(current)
  BY DEF IsContext
<1> HIDE DEF found
<1>4. ASSUME NEW n \in DOMAIN current
      PROVE  Findings(ss[n]) /\ (hit[n] => found(n) \in Entries(ss[n]))
  <2>1. Emitted(found(n))
    BY <1>1, <1>4 DEF Emits
  <2>2. ss[n] = IF hit[n] THEN <<found(n)>> ELSE << >>
    BY <1>4 DEF Only
  <2> HIDE DEF ss, current
  <2>3. CASE hit[n]
    BY <2>1, <2>2, <2>3, NoneOrOne
  <2>4. CASE ~hit[n]
    BY <2>2, <2>4, NoneOrOne
  <2> QED
    BY <2>3, <2>4
<1>5. /\ Findings(list)
      /\ \A n \in DOMAIN current : Entries(ss[n]) \subseteq Entries(list)
  <2> HIDE DEF ss, current
  <2> QED
    BY <1>2, <1>3, <1>4, FindsForEach
<1>6. ASSUME NEW n \in DOMAIN current, hit[n] PROVE Reported(list, type, class, ctx.current[n])
  <2>1. found(n) \in Entries(list)
    BY <1>4, <1>5, <1>6
  <2> QED
    BY <1>1, <2>1, EmitsReports
<1> QED
  BY <1>5, <1>6

RowsReported(list, ctx, type, class, hits) ==
  /\ Findings(list)
  /\ \A n \in DOMAIN ctx.current :
       hits[n] # {} => Reported(list, type, class, ctx.current[n])

\* A rule that pushes a finding about the rows of a voucher that hit it.
LEMMA RowRule ==
  ASSUME NEW ctx, IsContext(ctx), NEW type, NEW class, NEW shut,
         NEW hits, NEW severity, NEW amount, NEW signals, NEW list,
         \A n \in DOMAIN ctx.current :
           /\ severity[n] \in Int /\ signals[n] \in Signals
           /\ hits[n] \subseteq DOMAIN ctx.current[n].rows
           /\ \A i \in DOMAIN ctx.current[n].rows : amount[n][i] \in Int,
         list = FlattenSeq([n \in DOMAIN ctx.current |->
           FlattenSeq([i \in DOMAIN ctx.current[n].rows |->
             Only(i \in hits[n], emitFinding(Env(ctx),
               [type |-> type, class |-> class, severity |-> severity[n],
                subject |-> AboutRow(ctx.current[n], i), amount |-> amount[n][i],
                signals |-> signals[n], shut |-> shut]))])])
  PROVE  RowsReported(list, ctx, type, class, hits)
<1> DEFINE found(n, i) ==
             emitFinding(Env(ctx),
               [type |-> type, class |-> class, severity |-> severity[n],
                subject |-> AboutRow(ctx.current[n], i), amount |-> amount[n][i],
                signals |-> signals[n], shut |-> shut])
           rows(n) == ctx.current[n].rows
           of(n) == [i \in DOMAIN rows(n) |-> Only(i \in hits[n], found(n, i))]
           ss == [n \in DOMAIN ctx.current |-> FlattenSeq(of(n))]
           current == ctx.current
<1>1. ASSUME NEW n \in DOMAIN current, NEW i \in DOMAIN rows(n)
      PROVE  Emits(found(n, i), ctx, type, class, AboutRow(ctx.current[n], i))
  BY EmitIs
<1>2. list = FlattenSeq(ss) /\ ss = [n \in DOMAIN current |-> ss[n]]
  OBVIOUS
<1>3. Len(current) \in Nat /\ DOMAIN current = 1 .. Len(current)
  BY DEF IsContext
<1> HIDE DEF found
<1>4. ASSUME NEW n \in DOMAIN current
      PROVE  /\ Findings(ss[n])
             /\ \A i \in hits[n] : found(n, i) \in Entries(ss[n])
  <2> DEFINE tt == of(n)
             list1 == rows(n)
  <2>1. \A i \in DOMAIN list1 : /\ tt[i] = IF i \in hits[n] THEN <<found(n, i)>> ELSE << >>
                                /\ Emitted(found(n, i))
    BY <1>1, <1>4 DEF Emits, Only
  <2>2. Len(list1) \in Nat /\ DOMAIN list1 = 1 .. Len(list1)
    BY <1>4, ContextIs
  <2>3. ss[n] = FlattenSeq(tt) /\ tt = [i \in DOMAIN list1 |-> tt[i]]
    BY <1>4
  <2>4. hits[n] \subseteq DOMAIN list1
    BY <1>4
  <2> HIDE DEF ss, current, tt, list1
  <2>5. ASSUME NEW i \in DOMAIN list1
        PROVE  Findings(tt[i]) /\ (i \in hits[n] => found(n, i) \in Entries(tt[i]))
    <3>1. CASE i \in hits[n]
      <4>1. tt[i] = <<found(n, i)>> /\ Emitted(found(n, i))
        BY <2>1, <3>1
      <4> QED
        BY <4>1, NoneOrOne
    <3>2. CASE i \notin hits[n]
      <4>1. tt[i] = << >>
        BY <2>1, <3>2
      <4> QED
        BY <3>2, <4>1, NoneOrOne
    <3> QED
      BY <3>1, <3>2
  <2>6. /\ Findings(FlattenSeq(tt))
        /\ \A i \in DOMAIN list1 : Entries(tt[i]) \subseteq Entries(FlattenSeq(tt))
    BY <2>2, <2>3, <2>5, FindsForEach
  <2> QED
    BY <2>3, <2>4, <2>5, <2>6
<1>5. /\ Findings(list)
      /\ \A n \in DOMAIN current : Entries(ss[n]) \subseteq Entries(list)
  <2> HIDE DEF ss, current
  <2> QED
    BY <1>2, <1>3, <1>4, FindsForEach
<1>6. ASSUME NEW n \in DOMAIN current, hits[n] # {}
      PROVE  Reported(list, type, class, ctx.current[n])
  <2>1. PICK i \in hits[n] : found(n, i) \in Entries(list)
    BY <1>4, <1>5, <1>6
  <2>2. i \in DOMAIN rows(n)
    BY <1>6, <2>1
  <2> QED
    BY <1>1, <1>6, <2>1, <2>2, EmitsReports
<1> QED
  BY <1>5, <1>6 DEF RowsReported

-----------------------------------------------------------------------------
(* The rules *)

\* validateBalanced finds every unbalanced voucher.
LEMMA Balanced ==
  ASSUME NEW ctx, IsContext(ctx)
  PROVE  /\ Findings(validateBalanced(ctx))
         /\ \A n \in DOMAIN ctx.current :
              LET v == ctx.current[n]
              IN  voucherTotalDebit(v) - voucherTotalCredit(v) # 0 =>
                    Reported(validateBalanced(ctx), "unbalanced_voucher",
                             "unbalanced_voucher", v)
<1> DEFINE D == DOMAIN ctx.current
           v(n) == ctx.current[n]
           hit == [n \in D |-> voucherTotalDebit(v(n)) - voucherTotalCredit(v(n)) # 0]
           severity == [n \in D |-> critical]
           amount == [n \in D |-> Abs(voucherTotalDebit(v(n)) - voucherTotalCredit(v(n)))]
           signals == [n \in D |-> [NoRule EXCEPT !.reconciliationImpact = 0]]
           shut == Failed
           type == "unbalanced_voucher"
           class == "unbalanced_voucher"
<1>1. ASSUME NEW n \in D
      PROVE  severity[n] \in Int /\ amount[n] \in Int /\ signals[n] \in Signals
  <2>1. signals[n] \in Signals
    <3>1. NoRule \in Signals
      BY NoRuleIs
    <3> QED
      BY <3>1 DEF Signals
  <2>2. severity[n] \in Int /\ amount[n] \in Int
    <3>1. voucherTotalDebit(v(n)) \in Int /\ voucherTotalCredit(v(n)) \in Int
      BY ContextIs
    <3>2. voucherTotalDebit(v(n)) - voucherTotalCredit(v(n)) \in Int
      BY <3>1
    <3> QED
      BY <3>2, NoRuleIs
  <2> QED
    BY <2>1, <2>2
<1>2. validateBalanced(ctx) =
     FlattenSeq([n \in DOMAIN ctx.current |->
       Only(hit[n], emitFinding(Env(ctx),
         [type |-> type, class |-> class,
          severity |-> severity[n], subject |-> AboutVoucher(ctx.current[n]),
          amount |-> amount[n], signals |-> signals[n],
          shut |-> shut]))])
  BY DEF validateBalanced, Each
<1> HIDE DEF hit, severity, amount, signals, shut, type, class
<1>3. PICK list : list = validateBalanced(ctx)
  OBVIOUS
<1>4. Findings(list)
  BY <1>1, <1>2, <1>3, VoucherRule
<1>5. ASSUME NEW n \in DOMAIN ctx.current, hit[n]
      PROVE  Reported(list, type, class, ctx.current[n])
  BY <1>1, <1>2, <1>3, <1>5, VoucherRule
<1>6. \A n \in DOMAIN ctx.current :
        hit[n] <=> (voucherTotalDebit(v(n)) - voucherTotalCredit(v(n)) # 0)
  BY DEF hit
<1> QED
  BY <1>3, <1>4, <1>5, <1>6 DEF type, class

\* validateAccounts finds every row on an account that is not active.
LEMMA Accounts ==
  ASSUME NEW ctx, IsContext(ctx)
  PROVE  /\ Findings(validateAccounts(ctx))
         /\ \A n \in DOMAIN ctx.current :
              LET v == ctx.current[n]
              IN  {i \in DOMAIN v.rows : v.rows[i].account \notin ActiveAccounts} # {} =>
                    Reported(validateAccounts(ctx), "unknown_or_inactive_account",
                             "invalid_account", v)
<1> DEFINE D == DOMAIN ctx.current
           v(n) == ctx.current[n]
           hits == [n \in D |->
             {i \in DOMAIN v(n).rows : v(n).rows[i].account \notin ActiveAccounts}]
           severity == [n \in D |-> critical]
           amount == [n \in D |-> [i \in DOMAIN v(n).rows |-> Abs(Net(v(n).rows[i]))]]
           signals == [n \in D |-> NoRule]
           shut == Failed
           type == "unknown_or_inactive_account"
           class == "invalid_account"
<1>1. ASSUME NEW n \in D
      PROVE  /\ severity[n] \in Int /\ signals[n] \in Signals
             /\ hits[n] \subseteq DOMAIN ctx.current[n].rows
             /\ \A i \in DOMAIN ctx.current[n].rows : amount[n][i] \in Int
  <2>1. signals[n] \in Signals
    <3>1. NoRule \in Signals
      BY NoRuleIs
    <3> QED
      BY <3>1 DEF Signals
  <2>2. /\ severity[n] \in Int /\ hits[n] \subseteq DOMAIN ctx.current[n].rows
        /\ \A i \in DOMAIN ctx.current[n].rows : amount[n][i] \in Int
    BY ContextIs, NoRuleIs
  <2> QED
    BY <2>1, <2>2
<1>2. validateAccounts(ctx) =
     FlattenSeq([n \in DOMAIN ctx.current |->
       FlattenSeq([i \in DOMAIN ctx.current[n].rows |->
         Only(i \in hits[n], emitFinding(Env(ctx),
           [type |-> type, class |-> class,
            severity |-> severity[n], subject |-> AboutRow(ctx.current[n], i),
            amount |-> amount[n][i], signals |-> signals[n],
            shut |-> shut]))])])
  BY DEF validateAccounts, Each, OnRows
<1> HIDE DEF hits, severity, amount, signals, shut, type, class
<1>3. PICK list : list = validateAccounts(ctx)
  OBVIOUS
<1>4. RowsReported(list, ctx, type, class, hits)
  BY <1>1, <1>2, <1>3, RowRule
<1>5. /\ Findings(list)
      /\ \A n \in DOMAIN ctx.current :
           hits[n] # {} => Reported(list, type, class, ctx.current[n])
  BY <1>4 DEF RowsReported
<1>6. \A n \in DOMAIN ctx.current :
        hits[n] # {} <=>
          {i \in DOMAIN v(n).rows : v(n).rows[i].account \notin ActiveAccounts} # {}
  BY DEF hits
<1> QED
  BY <1>3, <1>4, <1>5, <1>6 DEF type, class

\* validateFinancialYear finds every voucher outside the financial years.
LEMMA FinancialYear ==
  ASSUME NEW ctx, IsContext(ctx)
  PROVE  /\ Findings(validateFinancialYear(ctx))
         /\ \A n \in DOMAIN ctx.current :
              LET v == ctx.current[n]
              IN  ~InFinancialYear(v.date) =>
                    Reported(validateFinancialYear(ctx), "date_outside_financial_year",
                             "date_outside_financial_year", v)
<1> DEFINE D == DOMAIN ctx.current
           v(n) == ctx.current[n]
           hit == [n \in D |-> ~InFinancialYear(v(n).date)]
           severity == [n \in D |-> critical]
           amount == [n \in D |-> voucherTotalDebit(v(n))]
           signals == [n \in D |-> NoRule]
           shut == Failed \cup {"requiresProfessionalJudgement"}
           type == "date_outside_financial_year"
           class == "date_outside_financial_year"
<1>1. ASSUME NEW n \in D
      PROVE  severity[n] \in Int /\ amount[n] \in Int /\ signals[n] \in Signals
  <2>1. signals[n] \in Signals
    <3>1. NoRule \in Signals
      BY NoRuleIs
    <3> QED
      BY <3>1 DEF Signals
  <2>2. severity[n] \in Int /\ amount[n] \in Int
    BY ContextIs, NoRuleIs
  <2> QED
    BY <2>1, <2>2
<1>2. validateFinancialYear(ctx) =
     FlattenSeq([n \in DOMAIN ctx.current |->
       Only(hit[n], emitFinding(Env(ctx),
         [type |-> type, class |-> class,
          severity |-> severity[n], subject |-> AboutVoucher(ctx.current[n]),
          amount |-> amount[n], signals |-> signals[n],
          shut |-> shut]))])
  BY DEF validateFinancialYear, Each
<1> HIDE DEF hit, severity, amount, signals, shut, type, class
<1>3. PICK list : list = validateFinancialYear(ctx)
  OBVIOUS
<1>4. Findings(list)
  BY <1>1, <1>2, <1>3, VoucherRule
<1>5. ASSUME NEW n \in DOMAIN ctx.current, hit[n]
      PROVE  Reported(list, type, class, ctx.current[n])
  BY <1>1, <1>2, <1>3, <1>5, VoucherRule
<1>6. \A n \in DOMAIN ctx.current : hit[n] <=> (~InFinancialYear(v(n).date))
  BY DEF hit
<1> QED
  BY <1>3, <1>4, <1>5, <1>6 DEF type, class

\* validatePeriodNotLocked finds every voucher in a locked period.
LEMMA PeriodNotLocked ==
  ASSUME NEW ctx, IsContext(ctx)
  PROVE  /\ Findings(validatePeriodNotLocked(ctx))
         /\ \A n \in DOMAIN ctx.current :
              LET v == ctx.current[n]
              IN  ctx.lock # 0 /\ v.date <= ctx.lock =>
                    Reported(validatePeriodNotLocked(ctx), "period_locked",
                             "period_locked", v)
<1> DEFINE D == DOMAIN ctx.current
           v(n) == ctx.current[n]
           hit == [n \in D |-> ctx.lock # 0 /\ v(n).date <= ctx.lock]
           severity == [n \in D |-> critical]
           amount == [n \in D |-> voucherTotalDebit(v(n))]
           signals == [n \in D |-> NoRule]
           shut == Failed \cup {"periodNotOpen", "periodLocked"}
           type == "period_locked"
           class == "period_locked"
<1>1. ASSUME NEW n \in D
      PROVE  severity[n] \in Int /\ amount[n] \in Int /\ signals[n] \in Signals
  <2>1. signals[n] \in Signals
    <3>1. NoRule \in Signals
      BY NoRuleIs
    <3> QED
      BY <3>1 DEF Signals
  <2>2. severity[n] \in Int /\ amount[n] \in Int
    BY ContextIs, NoRuleIs
  <2> QED
    BY <2>1, <2>2
<1>2. validatePeriodNotLocked(ctx) =
     FlattenSeq([n \in DOMAIN ctx.current |->
       Only(hit[n], emitFinding(Env(ctx),
         [type |-> type, class |-> class,
          severity |-> severity[n], subject |-> AboutVoucher(ctx.current[n]),
          amount |-> amount[n], signals |-> signals[n],
          shut |-> shut]))])
  BY DEF validatePeriodNotLocked, Each
<1> HIDE DEF hit, severity, amount, signals, shut, type, class
<1>3. PICK list : list = validatePeriodNotLocked(ctx)
  OBVIOUS
<1>4. Findings(list)
  BY <1>1, <1>2, <1>3, VoucherRule
<1>5. ASSUME NEW n \in DOMAIN ctx.current, hit[n]
      PROVE  Reported(list, type, class, ctx.current[n])
  BY <1>1, <1>2, <1>3, <1>5, VoucherRule
<1>6. \A n \in DOMAIN ctx.current : hit[n] <=> (ctx.lock # 0 /\ v(n).date <= ctx.lock)
  BY DEF hit
<1> QED
  BY <1>3, <1>4, <1>5, <1>6 DEF type, class

\* validateVat makes findings.
LEMMA Vat ==
  ASSUME NEW ctx, IsContext(ctx)
  PROVE  Findings(validateVat(ctx))
<1> DEFINE D == DOMAIN ctx.current
           v(n) == ctx.current[n]
           hits == [n \in D |-> {i \in VatRow(v(n)) : ~PlausibleVat(v(n), i)}]
           severity == [n \in D |-> high]
           amount == [n \in D |-> [i \in DOMAIN v(n).rows |-> v(n).rows[i].debit]]
           signals == [n \in D |-> [NoRule EXCEPT !.vatConsistency = 0]]
           shut == Failed \cup {"vatTreatmentUncertain"}
           type == "implausible_vat"
           class == "implausible_vat"
<1>1. ASSUME NEW n \in D
      PROVE  /\ severity[n] \in Int /\ signals[n] \in Signals
             /\ hits[n] \subseteq DOMAIN ctx.current[n].rows
             /\ \A i \in DOMAIN ctx.current[n].rows : amount[n][i] \in Int
  <2>1. signals[n] \in Signals
    <3>1. NoRule \in Signals
      BY NoRuleIs
    <3> QED
      BY <3>1 DEF Signals
  <2>2. /\ severity[n] \in Int /\ hits[n] \subseteq DOMAIN ctx.current[n].rows
        /\ \A i \in DOMAIN ctx.current[n].rows : amount[n][i] \in Int
    BY ContextIs, NoRuleIs DEF VatRow
  <2> QED
    BY <2>1, <2>2
<1>2. validateVat(ctx) =
     FlattenSeq([n \in DOMAIN ctx.current |->
       FlattenSeq([i \in DOMAIN ctx.current[n].rows |->
         Only(i \in hits[n], emitFinding(Env(ctx),
           [type |-> type, class |-> class,
            severity |-> severity[n], subject |-> AboutRow(ctx.current[n], i),
            amount |-> amount[n][i], signals |-> signals[n],
            shut |-> shut]))])])
  BY DEF validateVat, Each, OnRows
<1> HIDE DEF hits, severity, amount, signals, shut, type, class
<1>3. RowsReported(validateVat(ctx), ctx, type, class, hits)
  BY <1>1, <1>2, RowRule
<1> QED
  BY <1>3 DEF RowsReported

\* validateInputVatDocumentation finds every input VAT without a document.
LEMMA InputVatDocumentation ==
  ASSUME NEW ctx, IsContext(ctx)
  PROVE  /\ Findings(validateInputVatDocumentation(ctx))
         /\ \A n \in DOMAIN ctx.current :
              LET v == ctx.current[n]
              IN  {i \in VatRow(v) : /\ requireDocumentationForInputVat
                                     /\ ~Documented(ctx, v)} # {} =>
                    Reported(validateInputVatDocumentation(ctx),
                             "input_vat_without_documentation", "missing_documentation", v)
<1> DEFINE D == DOMAIN ctx.current
           v(n) == ctx.current[n]
           hits == [n \in D |->
             {i \in VatRow(v(n)) : requireDocumentationForInputVat /\ ~Documented(ctx, v(n))}]
           severity == [n \in D |-> high]
           amount == [n \in D |-> [i \in DOMAIN v(n).rows |-> v(n).rows[i].debit]]
           signals == [n \in D |->
             [NoRule EXCEPT !.documentCompleteness = 0, !.vatConsistency = 20]]
           shut == Failed \cup {"documentationMissing", "vatTreatmentUncertain"}
           type == "input_vat_without_documentation"
           class == "missing_documentation"
<1>1. ASSUME NEW n \in D
      PROVE  /\ severity[n] \in Int /\ signals[n] \in Signals
             /\ hits[n] \subseteq DOMAIN ctx.current[n].rows
             /\ \A i \in DOMAIN ctx.current[n].rows : amount[n][i] \in Int
  <2>1. signals[n] \in Signals
    <3>1. PICK s \in Signals : s = NoRule
      BY NoRuleIs
    <3>2. [s EXCEPT !.documentCompleteness = 0] \in Signals
      BY DEF Signals
    <3>3. PICK t \in Signals : t = [s EXCEPT !.documentCompleteness = 0]
      BY <3>2
    <3>4. [t EXCEPT !.vatConsistency = 20] \in Signals
      BY DEF Signals
    <3>5. signals[n] = [t EXCEPT !.vatConsistency = 20]
      BY <3>1, <3>3
    <3> QED
      BY <3>4, <3>5
  <2>2. /\ severity[n] \in Int /\ hits[n] \subseteq DOMAIN ctx.current[n].rows
        /\ \A i \in DOMAIN ctx.current[n].rows : amount[n][i] \in Int
    BY ContextIs, NoRuleIs DEF VatRow
  <2> QED
    BY <2>1, <2>2
<1>2. validateInputVatDocumentation(ctx) =
     FlattenSeq([n \in DOMAIN ctx.current |->
       FlattenSeq([i \in DOMAIN ctx.current[n].rows |->
         Only(i \in hits[n], emitFinding(Env(ctx),
           [type |-> type, class |-> class,
            severity |-> severity[n], subject |-> AboutRow(ctx.current[n], i),
            amount |-> amount[n][i], signals |-> signals[n],
            shut |-> shut]))])])
  BY DEF validateInputVatDocumentation, Each, OnRows
<1> HIDE DEF hits, severity, amount, signals, shut, type, class
<1>3. PICK list : list = validateInputVatDocumentation(ctx)
  OBVIOUS
<1>4. RowsReported(list, ctx, type, class, hits)
  BY <1>1, <1>2, <1>3, RowRule
<1>5. /\ Findings(list)
      /\ \A n \in DOMAIN ctx.current :
           hits[n] # {} => Reported(list, type, class, ctx.current[n])
  BY <1>4 DEF RowsReported
<1>6. \A n \in DOMAIN ctx.current :
        hits[n] # {} <=>
          {i \in VatRow(v(n)) : /\ requireDocumentationForInputVat
                                /\ ~Documented(ctx, v(n))} # {}
  BY DEF hits
<1> QED
  BY <1>3, <1>4, <1>5, <1>6 DEF type, class

\* validateRequiredDimensions finds every row that misses a dimension.
LEMMA RequiredDimensions ==
  ASSUME NEW ctx, IsContext(ctx)
  PROVE  /\ Findings(validateRequiredDimensions(ctx))
         /\ \A n \in DOMAIN ctx.current :
              LET v == ctx.current[n]
              IN  {i \in DOMAIN v.rows : MissesDimension(v.rows[i])} # {} =>
                    Reported(validateRequiredDimensions(ctx), "missing_required_dimension",
                             "missing_dimension", v)
<1> DEFINE D == DOMAIN ctx.current
           v(n) == ctx.current[n]
           hits == [n \in D |-> {i \in DOMAIN v(n).rows : MissesDimension(v(n).rows[i])}]
           severity == [n \in D |-> medium]
           amount == [n \in D |-> [i \in DOMAIN v(n).rows |-> Abs(Net(v(n).rows[i]))]]
           signals == [n \in D |-> [NoRule EXCEPT !.dimensionConsistency = 0]]
           shut == Failed
           type == "missing_required_dimension"
           class == "missing_dimension"
<1>1. ASSUME NEW n \in D
      PROVE  /\ severity[n] \in Int /\ signals[n] \in Signals
             /\ hits[n] \subseteq DOMAIN ctx.current[n].rows
             /\ \A i \in DOMAIN ctx.current[n].rows : amount[n][i] \in Int
  <2>1. signals[n] \in Signals
    <3>1. NoRule \in Signals
      BY NoRuleIs
    <3> QED
      BY <3>1 DEF Signals
  <2>2. /\ severity[n] \in Int /\ hits[n] \subseteq DOMAIN ctx.current[n].rows
        /\ \A i \in DOMAIN ctx.current[n].rows : amount[n][i] \in Int
    BY ContextIs, NoRuleIs
  <2> QED
    BY <2>1, <2>2
<1>2. validateRequiredDimensions(ctx) =
     FlattenSeq([n \in DOMAIN ctx.current |->
       FlattenSeq([i \in DOMAIN ctx.current[n].rows |->
         Only(i \in hits[n], emitFinding(Env(ctx),
           [type |-> type, class |-> class,
            severity |-> severity[n], subject |-> AboutRow(ctx.current[n], i),
            amount |-> amount[n][i], signals |-> signals[n],
            shut |-> shut]))])])
  BY DEF validateRequiredDimensions, Each, OnRows
<1> HIDE DEF hits, severity, amount, signals, shut, type, class
<1>3. PICK list : list = validateRequiredDimensions(ctx)
  OBVIOUS
<1>4. RowsReported(list, ctx, type, class, hits)
  BY <1>1, <1>2, <1>3, RowRule
<1>5. /\ Findings(list)
      /\ \A n \in DOMAIN ctx.current :
           hits[n] # {} => Reported(list, type, class, ctx.current[n])
  BY <1>4 DEF RowsReported
<1>6. \A n \in DOMAIN ctx.current :
        hits[n] # {} <=> {i \in DOMAIN v(n).rows : MissesDimension(v(n).rows[i])} # {}
  BY DEF hits
<1> QED
  BY <1>3, <1>4, <1>5, <1>6 DEF type, class

\* validateDuplicateSourceRecords finds every invoice that was seen before.
LEMMA DuplicateSourceRecords ==
  ASSUME NEW ctx, IsContext(ctx)
  PROVE  /\ Findings(validateDuplicateSourceRecords(ctx))
         /\ \A n \in DOMAIN ctx.current :
              LET v == ctx.current[n]
              IN  v.invoice # "" /\ SourceRecordSeen(ctx, v) =>
                    Reported(validateDuplicateSourceRecords(ctx), "duplicate_source_record",
                             "duplicate_source_record", v)
<1> DEFINE D == DOMAIN ctx.current
           v(n) == ctx.current[n]
           hit == [n \in D |-> v(n).invoice # "" /\ SourceRecordSeen(ctx, v(n))]
           severity == [n \in D |-> critical]
           amount == [n \in D |-> voucherTotalDebit(v(n))]
           signals == [n \in D |->
             [NoRule EXCEPT !.duplicateRisk = 0, !.reconciliationImpact = 0]]
           shut == Failed
           type == "duplicate_source_record"
           class == "duplicate_source_record"
<1>1. ASSUME NEW n \in D
      PROVE  severity[n] \in Int /\ amount[n] \in Int /\ signals[n] \in Signals
  <2>1. signals[n] \in Signals
    <3>1. PICK s \in Signals : s = NoRule
      BY NoRuleIs
    <3>2. [s EXCEPT !.duplicateRisk = 0] \in Signals
      BY DEF Signals
    <3>3. PICK t \in Signals : t = [s EXCEPT !.duplicateRisk = 0]
      BY <3>2
    <3>4. [t EXCEPT !.reconciliationImpact = 0] \in Signals
      BY DEF Signals
    <3>5. signals[n] = [t EXCEPT !.reconciliationImpact = 0]
      BY <3>1, <3>3
    <3> QED
      BY <3>4, <3>5
  <2>2. severity[n] \in Int /\ amount[n] \in Int
    BY ContextIs, NoRuleIs
  <2> QED
    BY <2>1, <2>2
<1>2. validateDuplicateSourceRecords(ctx) =
     FlattenSeq([n \in DOMAIN ctx.current |->
       Only(hit[n], emitFinding(Env(ctx),
         [type |-> type, class |-> class,
          severity |-> severity[n], subject |-> AboutVoucher(ctx.current[n]),
          amount |-> amount[n], signals |-> signals[n],
          shut |-> shut]))])
  BY DEF validateDuplicateSourceRecords, Each
<1> HIDE DEF hit, severity, amount, signals, shut, type, class
<1>3. PICK list : list = validateDuplicateSourceRecords(ctx)
  OBVIOUS
<1>4. Findings(list)
  BY <1>1, <1>2, <1>3, VoucherRule
<1>5. ASSUME NEW n \in DOMAIN ctx.current, hit[n]
      PROVE  Reported(list, type, class, ctx.current[n])
  BY <1>1, <1>2, <1>3, <1>5, VoucherRule
<1>6. \A n \in DOMAIN ctx.current :
        hit[n] <=> (v(n).invoice # "" /\ SourceRecordSeen(ctx, v(n)))
  BY DEF hit
<1> QED
  BY <1>3, <1>4, <1>5, <1>6 DEF type, class

\* ruleUnusualAccountForSupplier makes findings.
LEMMA UnusualAccount ==
  ASSUME NEW ctx, IsContext(ctx)
  PROVE  Findings(ruleUnusualAccountForSupplier(ctx))
<1> DEFINE D == DOMAIN ctx.current
           v(n) == ctx.current[n]
           known(n) == Postings(ctx, v(n).supplier) # {}
           used(n) == {RowAt(ctx, at).account : at \in Postings(ctx, v(n).supplier)}
           hits == [n \in D |->
             {i \in costRows(v(n)) : v(n).supplier # "" /\ v(n).rows[i].account \notin used(n)}]
           severity == [n \in D |-> IF known(n) THEN medium ELSE low]
           amount == [n \in D |-> [i \in DOMAIN v(n).rows |-> Abs(Net(v(n).rows[i]))]]
           signals == [n \in D |->
             IF known(n) THEN [NoRule EXCEPT !.historicalConsistency = 10]
             ELSE [NoRule EXCEPT !.historicalConsistency = 30,
                                 !.counterpartyIdentityMatch = 30]]
           shut == Unruled
           type == "unusual_account_for_supplier"
           class == "unusual_account_for_supplier"
<1>1. ASSUME NEW n \in D
      PROVE  /\ severity[n] \in Int /\ signals[n] \in Signals
             /\ hits[n] \subseteq DOMAIN ctx.current[n].rows
             /\ \A i \in DOMAIN ctx.current[n].rows : amount[n][i] \in Int
  <2>1. signals[n] \in Signals
    <3>1. PICK s \in Signals : s = NoRule
      BY NoRuleIs
    <3>2. [s EXCEPT !.historicalConsistency = 30] \in Signals
      BY DEF Signals
    <3>3. PICK t \in Signals : t = [s EXCEPT !.historicalConsistency = 30]
      BY <3>2
    <3>4. /\ [s EXCEPT !.historicalConsistency = 10] \in Signals
          /\ [t EXCEPT !.counterpartyIdentityMatch = 30] \in Signals
      BY DEF Signals
    <3>5. signals[n] = IF known(n) THEN [s EXCEPT !.historicalConsistency = 10]
                       ELSE [t EXCEPT !.counterpartyIdentityMatch = 30]
      BY <3>1, <3>3
    <3> QED
      BY <3>4, <3>5
  <2>2. /\ severity[n] \in Int /\ hits[n] \subseteq DOMAIN ctx.current[n].rows
        /\ \A i \in DOMAIN ctx.current[n].rows : amount[n][i] \in Int
    BY ContextIs, NoRuleIs DEF costRows
  <2> QED
    BY <2>1, <2>2
<1>2. ruleUnusualAccountForSupplier(ctx) =
     FlattenSeq([n \in DOMAIN ctx.current |->
       FlattenSeq([i \in DOMAIN ctx.current[n].rows |->
         Only(i \in hits[n], emitFinding(Env(ctx),
           [type |-> type, class |-> class,
            severity |-> severity[n], subject |-> AboutRow(ctx.current[n], i),
            amount |-> amount[n][i], signals |-> signals[n],
            shut |-> shut]))])])
  BY DEF ruleUnusualAccountForSupplier, Each, OnRows
<1> HIDE DEF hits, severity, amount, signals, shut, type, class
<1>3. RowsReported(ruleUnusualAccountForSupplier(ctx), ctx, type, class, hits)
  BY <1>1, <1>2, RowRule
<1> QED
  BY <1>3 DEF RowsReported

\* ruleDeviatingVatCode makes findings.
LEMMA DeviatingVatCode ==
  ASSUME NEW ctx, IsContext(ctx)
  PROVE  Findings(ruleDeviatingVatCode(ctx))
<1> DEFINE D == DOMAIN ctx.current
           v(n) == ctx.current[n]
           hits == [n \in D |-> {i \in costRows(v(n)) :
             /\ v(n).rows[i].vat # ""
             /\ \E code \in dominantVatCode(ctx, v(n).rows[i].account) :
                  code # v(n).rows[i].vat}]
           severity == [n \in D |-> medium]
           amount == [n \in D |-> [i \in DOMAIN v(n).rows |-> Abs(Net(v(n).rows[i]))]]
           signals == [n \in D |->
             [NoRule EXCEPT !.vatConsistency = 15, !.historicalConsistency = 40]]
           shut == Unruled \cup {"vatTreatmentUncertain"}
           type == "deviating_vat_code"
           class == "deviating_vat_code"
<1>1. ASSUME NEW n \in D
      PROVE  /\ severity[n] \in Int /\ signals[n] \in Signals
             /\ hits[n] \subseteq DOMAIN ctx.current[n].rows
             /\ \A i \in DOMAIN ctx.current[n].rows : amount[n][i] \in Int
  <2>1. signals[n] \in Signals
    <3>1. PICK s \in Signals : s = NoRule
      BY NoRuleIs
    <3>2. [s EXCEPT !.vatConsistency = 15] \in Signals
      BY DEF Signals
    <3>3. PICK t \in Signals : t = [s EXCEPT !.vatConsistency = 15]
      BY <3>2
    <3>4. [t EXCEPT !.historicalConsistency = 40] \in Signals
      BY DEF Signals
    <3>5. signals[n] = [t EXCEPT !.historicalConsistency = 40]
      BY <3>1, <3>3
    <3> QED
      BY <3>4, <3>5
  <2>2. /\ severity[n] \in Int /\ hits[n] \subseteq DOMAIN ctx.current[n].rows
        /\ \A i \in DOMAIN ctx.current[n].rows : amount[n][i] \in Int
    BY ContextIs, NoRuleIs DEF costRows
  <2> QED
    BY <2>1, <2>2
<1>2. ruleDeviatingVatCode(ctx) =
     FlattenSeq([n \in DOMAIN ctx.current |->
       FlattenSeq([i \in DOMAIN ctx.current[n].rows |->
         Only(i \in hits[n], emitFinding(Env(ctx),
           [type |-> type, class |-> class,
            severity |-> severity[n], subject |-> AboutRow(ctx.current[n], i),
            amount |-> amount[n][i], signals |-> signals[n],
            shut |-> shut]))])])
  BY DEF ruleDeviatingVatCode, Each, OnRows
<1> HIDE DEF hits, severity, amount, signals, shut, type, class
<1>3. RowsReported(ruleDeviatingVatCode(ctx), ctx, type, class, hits)
  BY <1>1, <1>2, RowRule
<1> QED
  BY <1>3 DEF RowsReported

\* rulePossibleDuplicate makes findings.
LEMMA PossibleDuplicate ==
  ASSUME NEW ctx, IsContext(ctx)
  PROVE  Findings(rulePossibleDuplicate(ctx))
<1> DEFINE D == DOMAIN ctx.current
           v(n) == ctx.current[n]
           hit == [n \in D |->
             /\ v(n).supplier # ""
             /\ \E u \in Earlier(ctx, v(n)) : /\ u.supplier = v(n).supplier
                                              /\ u.date = v(n).date
                                              /\ voucherTotalDebit(u) = voucherTotalDebit(v(n))]
           severity == [n \in D |-> high]
           amount == [n \in D |-> voucherTotalDebit(v(n))]
           signals == [n \in D |->
             [NoRule EXCEPT !.duplicateRisk = 5, !.reconciliationImpact = 30]]
           shut == Unruled
           type == "possible_duplicate"
           class == "duplicate_source_record"
<1>1. ASSUME NEW n \in D
      PROVE  severity[n] \in Int /\ amount[n] \in Int /\ signals[n] \in Signals
  <2>1. signals[n] \in Signals
    <3>1. PICK s \in Signals : s = NoRule
      BY NoRuleIs
    <3>2. [s EXCEPT !.duplicateRisk = 5] \in Signals
      BY DEF Signals
    <3>3. PICK t \in Signals : t = [s EXCEPT !.duplicateRisk = 5]
      BY <3>2
    <3>4. [t EXCEPT !.reconciliationImpact = 30] \in Signals
      BY DEF Signals
    <3>5. signals[n] = [t EXCEPT !.reconciliationImpact = 30]
      BY <3>1, <3>3
    <3> QED
      BY <3>4, <3>5
  <2>2. severity[n] \in Int /\ amount[n] \in Int
    BY ContextIs, NoRuleIs
  <2> QED
    BY <2>1, <2>2
<1>2. rulePossibleDuplicate(ctx) =
     FlattenSeq([n \in DOMAIN ctx.current |->
       Only(hit[n], emitFinding(Env(ctx),
         [type |-> type, class |-> class,
          severity |-> severity[n], subject |-> AboutVoucher(ctx.current[n]),
          amount |-> amount[n], signals |-> signals[n],
          shut |-> shut]))])
  BY DEF rulePossibleDuplicate, Each
<1> HIDE DEF hit, severity, amount, signals, shut, type, class
<1> QED
  BY <1>1, <1>2, VoucherRule

\* ruleMissingDocumentation makes findings.
LEMMA MissingDocumentation ==
  ASSUME NEW ctx, IsContext(ctx)
  PROVE  Findings(ruleMissingDocumentation(ctx))
<1> DEFINE D == DOMAIN ctx.current
           v(n) == ctx.current[n]
           hit == [n \in D |-> v(n).sale = "" /\ ~Documented(ctx, v(n))]
           severity == [n \in D |-> high]
           amount == [n \in D |-> voucherTotalDebit(v(n))]
           signals == [n \in D |-> [NoRule EXCEPT !.documentCompleteness = 0]]
           shut == Unruled \cup {"documentationMissing"}
           type == "missing_documentation"
           class == "missing_documentation"
<1>1. ASSUME NEW n \in D
      PROVE  severity[n] \in Int /\ amount[n] \in Int /\ signals[n] \in Signals
  <2>1. signals[n] \in Signals
    <3>1. NoRule \in Signals
      BY NoRuleIs
    <3> QED
      BY <3>1 DEF Signals
  <2>2. severity[n] \in Int /\ amount[n] \in Int
    BY ContextIs, NoRuleIs
  <2> QED
    BY <2>1, <2>2
<1>2. ruleMissingDocumentation(ctx) =
     FlattenSeq([n \in DOMAIN ctx.current |->
       Only(hit[n], emitFinding(Env(ctx),
         [type |-> type, class |-> class,
          severity |-> severity[n], subject |-> AboutVoucher(ctx.current[n]),
          amount |-> amount[n], signals |-> signals[n],
          shut |-> shut]))])
  BY DEF ruleMissingDocumentation, Each
<1> HIDE DEF hit, severity, amount, signals, shut, type, class
<1> QED
  BY <1>1, <1>2, VoucherRule

\* ruleMissingDimension makes findings.
LEMMA MissingDimension ==
  ASSUME NEW ctx, IsContext(ctx)
  PROVE  Findings(ruleMissingDimension(ctx))
<1> DEFINE D == DOMAIN ctx.current
           v(n) == ctx.current[n]
           hits == [n \in D |-> {i \in costRows(v(n)) :
             /\ v(n).rows[i].account \in costCenterRequiredAccounts
             /\ v(n).rows[i].cc = ""}]
           severity == [n \in D |-> low]
           amount == [n \in D |-> [i \in DOMAIN v(n).rows |-> Abs(Net(v(n).rows[i]))]]
           signals == [n \in D |-> [NoRule EXCEPT !.dimensionConsistency = 10]]
           shut == Unruled
           type == "missing_cost_center_or_project"
           class == "missing_dimension"
<1>1. ASSUME NEW n \in D
      PROVE  /\ severity[n] \in Int /\ signals[n] \in Signals
             /\ hits[n] \subseteq DOMAIN ctx.current[n].rows
             /\ \A i \in DOMAIN ctx.current[n].rows : amount[n][i] \in Int
  <2>1. signals[n] \in Signals
    <3>1. NoRule \in Signals
      BY NoRuleIs
    <3> QED
      BY <3>1 DEF Signals
  <2>2. /\ severity[n] \in Int /\ hits[n] \subseteq DOMAIN ctx.current[n].rows
        /\ \A i \in DOMAIN ctx.current[n].rows : amount[n][i] \in Int
    BY ContextIs, NoRuleIs DEF costRows
  <2> QED
    BY <2>1, <2>2
<1>2. ruleMissingDimension(ctx) =
     FlattenSeq([n \in DOMAIN ctx.current |->
       FlattenSeq([i \in DOMAIN ctx.current[n].rows |->
         Only(i \in hits[n], emitFinding(Env(ctx),
           [type |-> type, class |-> class,
            severity |-> severity[n], subject |-> AboutRow(ctx.current[n], i),
            amount |-> amount[n][i], signals |-> signals[n],
            shut |-> shut]))])])
  BY DEF ruleMissingDimension, Each, OnRows
<1> HIDE DEF hits, severity, amount, signals, shut, type, class
<1>3. RowsReported(ruleMissingDimension(ctx), ctx, type, class, hits)
  BY <1>1, <1>2, RowRule
<1> QED
  BY <1>3 DEF RowsReported

\* ruleWrongPeriod makes findings.
LEMMA WrongPeriod ==
  ASSUME NEW ctx, IsContext(ctx)
  PROVE  Findings(ruleWrongPeriod(ctx))
<1> DEFINE D == DOMAIN ctx.current
           v(n) == ctx.current[n]
           hit == [n \in D |-> \E i \in ctx.invoices :
             /\ i.number = v(n).invoice
             /\ periodKeyOf(i.date) # periodKeyOf(v(n).date)]
           severity == [n \in D |-> medium]
           amount == [n \in D |-> voucherTotalDebit(v(n))]
           signals == [n \in D |->
             [NoRule EXCEPT !.historicalConsistency = 50, !.reconciliationImpact = 40]]
           shut == Unruled \cup {"requiresProfessionalJudgement"}
           type == "transaction_in_wrong_period"
           class == "transaction_in_wrong_period"
<1>1. ASSUME NEW n \in D
      PROVE  severity[n] \in Int /\ amount[n] \in Int /\ signals[n] \in Signals
  <2>1. signals[n] \in Signals
    <3>1. PICK s \in Signals : s = NoRule
      BY NoRuleIs
    <3>2. [s EXCEPT !.historicalConsistency = 50] \in Signals
      BY DEF Signals
    <3>3. PICK t \in Signals : t = [s EXCEPT !.historicalConsistency = 50]
      BY <3>2
    <3>4. [t EXCEPT !.reconciliationImpact = 40] \in Signals
      BY DEF Signals
    <3>5. signals[n] = [t EXCEPT !.reconciliationImpact = 40]
      BY <3>1, <3>3
    <3> QED
      BY <3>4, <3>5
  <2>2. severity[n] \in Int /\ amount[n] \in Int
    BY ContextIs, NoRuleIs
  <2> QED
    BY <2>1, <2>2
<1>2. ruleWrongPeriod(ctx) =
     FlattenSeq([n \in DOMAIN ctx.current |->
       Only(hit[n], emitFinding(Env(ctx),
         [type |-> type, class |-> class,
          severity |-> severity[n], subject |-> AboutVoucher(ctx.current[n]),
          amount |-> amount[n], signals |-> signals[n],
          shut |-> shut]))])
  BY DEF ruleWrongPeriod, Each
<1> HIDE DEF hit, severity, amount, signals, shut, type, class
<1> QED
  BY <1>1, <1>2, VoucherRule

\* ruleManualVoucherUnusual makes findings.
LEMMA ManualVoucher ==
  ASSUME NEW ctx, IsContext(ctx)
  PROVE  Findings(ruleManualVoucherUnusual(ctx))
<1> DEFINE D == DOMAIN ctx.current
           v(n) == ctx.current[n]
           rare(n) == {i \in costRows(v(n)) : accountUsage(ctx, v(n).rows[i].account) < 3}
           large(n) == voucherTotalDebit(v(n)) >= MaterialityThreshold
           hit == [n \in D |-> v(n).manual /\ (rare(n) # {} \/ large(n))]
           severity == [n \in D |-> IF large(n) THEN high ELSE medium]
           amount == [n \in D |-> voucherTotalDebit(v(n))]
           signals == [n \in D |->
             [NoRule EXCEPT !.historicalConsistency = IF rare(n) # {} THEN 20 ELSE 60]]
           shut == Unruled \cup {"requiresProfessionalJudgement"}
           type == "manual_voucher_unusual"
           class == "manual_voucher_unusual"
<1>1. ASSUME NEW n \in D
      PROVE  severity[n] \in Int /\ amount[n] \in Int /\ signals[n] \in Signals
  <2>1. signals[n] \in Signals
    <3>1. NoRule \in Signals
      BY NoRuleIs
    <3> QED
      BY <3>1 DEF Signals
  <2>2. severity[n] \in Int /\ amount[n] \in Int
    BY ContextIs, NoRuleIs
  <2> QED
    BY <2>1, <2>2
<1>2. ruleManualVoucherUnusual(ctx) =
     FlattenSeq([n \in DOMAIN ctx.current |->
       Only(hit[n], emitFinding(Env(ctx),
         [type |-> type, class |-> class,
          severity |-> severity[n], subject |-> AboutVoucher(ctx.current[n]),
          amount |-> amount[n], signals |-> signals[n],
          shut |-> shut]))])
  BY DEF ruleManualVoucherUnusual, Each
<1> HIDE DEF hit, severity, amount, signals, shut, type, class
<1> QED
  BY <1>1, <1>2, VoucherRule

\* ruleBalanceInsteadOfResult makes findings.
LEMMA BalanceInsteadOfResult ==
  ASSUME NEW ctx, IsContext(ctx)
  PROVE  Findings(ruleBalanceInsteadOfResult(ctx))
<1> DEFINE D == DOMAIN ctx.current
           v(n) == ctx.current[n]
           postings(n) == Postings(ctx, v(n).supplier)
           alwaysResult(n) == /\ v(n).supplier # "" /\ Cardinality(postings(n)) >= 3
                              /\ \A at \in postings(n) : isResultAccount(RowAt(ctx, at).account)
           hits == [n \in D |->
             {i \in costRows(v(n)) : alwaysResult(n) /\ ~isResultAccount(v(n).rows[i].account)}]
           severity == [n \in D |-> medium]
           amount == [n \in D |-> [i \in DOMAIN v(n).rows |-> Abs(Net(v(n).rows[i]))]]
           signals == [n \in D |->
             [NoRule EXCEPT !.historicalConsistency = 15, !.reconciliationImpact = 50]]
           shut == Unruled \cup {"requiresProfessionalJudgement"}
           type == "balance_account_where_history_uses_result_account"
           class == "balance_instead_of_result"
<1>1. ASSUME NEW n \in D
      PROVE  /\ severity[n] \in Int /\ signals[n] \in Signals
             /\ hits[n] \subseteq DOMAIN ctx.current[n].rows
             /\ \A i \in DOMAIN ctx.current[n].rows : amount[n][i] \in Int
  <2>1. signals[n] \in Signals
    <3>1. PICK s \in Signals : s = NoRule
      BY NoRuleIs
    <3>2. [s EXCEPT !.historicalConsistency = 15] \in Signals
      BY DEF Signals
    <3>3. PICK t \in Signals : t = [s EXCEPT !.historicalConsistency = 15]
      BY <3>2
    <3>4. [t EXCEPT !.reconciliationImpact = 50] \in Signals
      BY DEF Signals
    <3>5. signals[n] = [t EXCEPT !.reconciliationImpact = 50]
      BY <3>1, <3>3
    <3> QED
      BY <3>4, <3>5
  <2>2. /\ severity[n] \in Int /\ hits[n] \subseteq DOMAIN ctx.current[n].rows
        /\ \A i \in DOMAIN ctx.current[n].rows : amount[n][i] \in Int
    BY ContextIs, NoRuleIs DEF costRows
  <2> QED
    BY <2>1, <2>2
<1>2. ruleBalanceInsteadOfResult(ctx) =
     FlattenSeq([n \in DOMAIN ctx.current |->
       FlattenSeq([i \in DOMAIN ctx.current[n].rows |->
         Only(i \in hits[n], emitFinding(Env(ctx),
           [type |-> type, class |-> class,
            severity |-> severity[n], subject |-> AboutRow(ctx.current[n], i),
            amount |-> amount[n][i], signals |-> signals[n],
            shut |-> shut]))])])
  BY DEF ruleBalanceInsteadOfResult, Each, OnRows
<1> HIDE DEF hits, severity, amount, signals, shut, type, class
<1>3. RowsReported(ruleBalanceInsteadOfResult(ctx), ctx, type, class, hits)
  BY <1>1, <1>2, RowRule
<1> QED
  BY <1>3 DEF RowsReported

\* What a supplier was paid in the history is whole numbers.
LEMMA AmountsAre ==
  ASSUME NEW ctx, IsContext(ctx), NEW supplier
  PROVE  /\ netAmounts(ctx, supplier) \in Seq(Int)
         /\ median(netAmounts(ctx, supplier)) \in Int
<1> DEFINE list == ctx.history
           hit(v) == v.supplier = supplier /\ netOf(v) # 0
           ss == [n \in DOMAIN list |-> Only(hit(list[n]), netOf(list[n]))]
<1>1. netAmounts(ctx, supplier) = FlattenSeq(ss)
  BY DEF netAmounts, Each
<1>2. Len(list) \in Nat /\ DOMAIN list = 1 .. Len(list)
  BY DEF IsContext
<1>3. ASSUME NEW n \in DOMAIN list PROVE ss[n] \in Seq(Int)
  <2>1. netOf(list[n]) \in Int
    BY VoucherSums DEF IsContext, IsVoucher
  <2>2. ss[n] = IF hit(list[n]) THEN <<netOf(list[n])>> ELSE << >>
    BY DEF Only
  <2> HIDE DEF ss, hit
  <2>3. <<netOf(list[n])>> \in Seq(Int) /\ << >> \in Seq(Int)
    BY <2>1
  <2> QED
    BY <2>2, <2>3
<1>4. ss \in Seq(Seq(Int))
  <2>1. ss = [n \in 1 .. Len(list) |-> ss[n]]
    BY <1>2
  <2> HIDE DEF ss, list
  <2> QED
    BY <1>2, <1>3, <2>1
<1> HIDE DEF ss
<1> QED
  BY <1>1, <1>4, Flattens, MedianIsInt

\* ruleUnusualAmount makes findings.
LEMMA UnusualAmount ==
  ASSUME NEW ctx, IsContext(ctx)
  PROVE  Findings(ruleUnusualAmount(ctx))
<1> DEFINE D == DOMAIN ctx.current
           v(n) == ctx.current[n]
           amounts(n) == netAmounts(ctx, v(n).supplier)
           deviation(n) == relativeDeviation(netOf(v(n)), median(amounts(n)))
           hit == [n \in D |-> /\ v(n).supplier # "" /\ Len(amounts(n)) >= 3
                               /\ netOf(v(n)) # 0 /\ deviation(n) > amountDeviationThreshold]
           severity == [n \in D |-> IF deviation(n) > 200 THEN high ELSE medium]
           amount == [n \in D |-> netOf(v(n))]
           signals == [n \in D |-> [NoRule EXCEPT !.historicalConsistency = 35,
                         !.amountConsistency = Greater(0, 100 - deviation(n) \div 2)]]
           shut == Unruled
           type == "unusual_amount_for_supplier"
           class == "unusual_amount_for_supplier"
<1>1. ASSUME NEW n \in D
      PROVE  severity[n] \in Int /\ amount[n] \in Int /\ signals[n] \in Signals
  <2>1. deviation(n) \in Int /\ netOf(v(n)) \in Int
    <3>1. netOf(v(n)) \in Int /\ median(amounts(n)) \in Int
      BY ContextIs, AmountsAre
    <3> DEFINE actual == netOf(v(n))
               baseline == median(amounts(n))
    <3> HIDE DEF actual, baseline
    <3>2. actual \in Int /\ baseline \in Int
      BY <3>1 DEF actual, baseline
    <3>3. Abs(actual - baseline) \in Nat /\ Abs(baseline) \in Nat
          /\ (baseline # 0 => Abs(baseline) > 0)
      BY <3>2 DEF Abs
    <3>4. relativeDeviation(actual, baseline) \in Int
      <4>1. CASE baseline = 0
        BY <4>1 DEF relativeDeviation
      <4>2. CASE baseline # 0
        <5>1. (100 * Abs(actual - baseline)) \div Abs(baseline) \in Int
          BY <3>3, <4>2
        <5> QED
          BY <4>2, <5>1 DEF relativeDeviation
      <4> QED
        BY <4>1, <4>2
    <3> QED
      BY <3>1, <3>4 DEF actual, baseline
  <2> HIDE DEF deviation
  <2>2. signals[n] \in Signals
    <3>1. PICK s \in Signals : s = NoRule
      BY NoRuleIs
    <3>2. [s EXCEPT !.historicalConsistency = 35] \in Signals
      BY DEF Signals
    <3>3. PICK t \in Signals : t = [s EXCEPT !.historicalConsistency = 35]
      BY <3>2
    <3>4. PICK x \in Int : x = Greater(0, 100 - deviation(n) \div 2)
      BY <2>1 DEF Greater
    <3>5. [t EXCEPT !.amountConsistency = x] \in Signals
      BY DEF Signals
    <3>6. signals[n] = [t EXCEPT !.amountConsistency = x]
      BY <3>1, <3>3, <3>4
    <3> QED
      BY <3>5, <3>6
  <2>3. severity[n] \in Int /\ amount[n] \in Int
    BY <2>1, NoRuleIs
  <2> QED
    BY <2>2, <2>3
<1>2. ruleUnusualAmount(ctx) =
     FlattenSeq([n \in DOMAIN ctx.current |->
       Only(hit[n], emitFinding(Env(ctx),
         [type |-> type, class |-> class,
          severity |-> severity[n], subject |-> AboutVoucher(ctx.current[n]),
          amount |-> amount[n], signals |-> signals[n],
          shut |-> shut]))])
  BY DEF ruleUnusualAmount, Each
<1> HIDE DEF hit, severity, amount, signals, shut, type, class
<1> QED
  BY <1>1, <1>2, VoucherRule

\* There are finitely many recurring costs.
LEMMA CostsAreFinite ==
  ASSUME NEW ctx, IsContext(ctx)
  PROVE  IsFiniteSet(findRecurringCosts(ctx))
<1> DEFINE D == DOMAIN ctx.history
           Rows(n) == {n} \X DOMAIN ctx.history[n].rows
           S == {Rows(n) : n \in D}
<1>1. IsFiniteSet(D)
  <2>1. Len(ctx.history) \in Int /\ D = 1 .. Len(ctx.history) /\ 1 \in Int
    BY DEF IsContext
  <2> QED
    BY <2>1, FS_Interval
<1>2. IsFiniteSet(S)
  <2>1. [n \in D |-> Rows(n)] \in Surjection(D, S)
    BY DEF Surjection
  <2> QED
    BY <1>1, <2>1, FS_Surjection
<1>3. ASSUME NEW T \in S PROVE IsFiniteSet(T)
  <2>1. PICK n \in D : T = Rows(n)
    OBVIOUS
  <2>2. IsFiniteSet(DOMAIN ctx.history[n].rows)
    BY RowsAre DEF IsContext, IsVoucher
  <2>3. IsFiniteSet({n})
    BY FS_Singleton
  <2> QED
    BY <2>1, <2>2, <2>3, FS_Product
<1>4. IsFiniteSet(HistoryRows(ctx))
  <2>1. HistoryRows(ctx) = UNION S
    BY DEF HistoryRows
  <2> HIDE DEF S
  <2> QED
    BY <1>2, <1>3, <2>1, FS_UNION
<1> DEFINE cost(at) == [supplier |-> ctx.history[at[1]].supplier,
                        account |-> RowAt(ctx, at).account]
           costs == {cost(at) : at \in HistoryRows(ctx)}
<1>5. IsFiniteSet(costs)
  <2>1. [at \in HistoryRows(ctx) |-> cost(at)] \in Surjection(HistoryRows(ctx), costs)
    BY DEF Surjection
  <2> QED
    BY <1>4, <2>1, FS_Surjection
<1>6. findRecurringCosts(ctx) \in SUBSET costs
  BY DEF findRecurringCosts
<1> QED
  BY <1>5, <1>6, FS_Subset

\* What a recurring cost comes to is a whole number.
LEMMA MedianNetIs ==
  ASSUME NEW ctx, IsContext(ctx), NEW cost
  PROVE  medianNet(ctx, cost) \in Int
<1> DEFINE X == [date : Nat, net : Int]
           supplier == cost.supplier
           account == cost.account
           list == ctx.history
           hit(v, row) == /\ v.supplier = supplier
                          /\ row.account = account /\ CostRow(row) /\ Net(row) > 0
           entry(v, row) == [date |-> v.date, net |-> Net(row)]
           of(v) == [i \in DOMAIN v.rows |-> Only(hit(v, v.rows[i]), entry(v, v.rows[i]))]
           ss == [n \in DOMAIN list |-> FlattenSeq(of(list[n]))]
<1>1. RecurringRows(ctx, supplier, account) = FlattenSeq(ss)
  BY DEF RecurringRows, Each
<1>2. ASSUME NEW n \in DOMAIN list PROVE FlattenSeq(of(list[n])) \in Seq(X)
  <2> DEFINE v == list[n]
             tt == of(v)
  <2>1. v.date \in Nat /\ IsLedgerRows(v.rows)
    BY <1>2 DEF IsContext, IsVoucher
  <2> HIDE DEF v
  <2>2. \A i \in DOMAIN v.rows : tt[i] \in Seq(X)
    <3> SUFFICES ASSUME NEW i \in DOMAIN v.rows PROVE tt[i] \in Seq(X)
      OBVIOUS
    <3>1. entry(v, v.rows[i]) \in X
      BY <2>1, RowsAre
    <3>2. tt[i] = IF hit(v, v.rows[i]) THEN <<entry(v, v.rows[i])>> ELSE << >>
      BY DEF Only
    <3> HIDE DEF tt, hit, entry, X
    <3>3. <<entry(v, v.rows[i])>> \in Seq(X) /\ << >> \in Seq(X)
      BY <3>1
    <3> QED
      BY <3>2, <3>3
  <2>3. Len(v.rows) \in Nat /\ DOMAIN v.rows = 1 .. Len(v.rows)
    BY <2>1 DEF IsLedgerRows
  <2>4. tt \in Seq(Seq(X))
    <3>1. tt = [i \in 1 .. Len(v.rows) |-> tt[i]]
      BY <2>3
    <3> HIDE DEF tt, X
    <3> QED
      BY <2>2, <2>3, <3>1
  <2> HIDE DEF X
  <2>5. FlattenSeq(tt) \in Seq(X)
    <3> HIDE DEF tt
    <3> QED
      BY <2>4, Flattens
  <2> QED
    BY <2>5 DEF v
<1>3. FlattenSeq(ss) \in Seq(X)
  <2>1. ss = [n \in 1 .. Len(list) |-> ss[n]] /\ Len(list) \in Nat
        /\ DOMAIN list = 1 .. Len(list)
    BY DEF IsContext
  <2>2. \A n \in DOMAIN list : ss[n] \in Seq(X)
    <3> HIDE DEF of, X
    <3> QED
      BY <1>2
  <2> HIDE DEF ss, list, X
  <2>3. ss \in Seq(Seq(X))
    BY <2>1, <2>2
  <2> QED
    BY <2>3, Flattens
<1>4. PICK rows \in Seq(X) : rows = RecurringRows(ctx, cost.supplier, cost.account)
  <2> HIDE DEF ss, X
  <2> QED
    BY <1>1, <1>3
<1>5. [k \in DOMAIN rows |-> rows[k].net] \in Seq(Int)
  <2>1. /\ Len(rows) \in Nat /\ DOMAIN rows = 1 .. Len(rows)
        /\ \A k \in 1 .. Len(rows) : rows[k] \in X
    <3> HIDE DEF X
    <3> QED
      BY <1>4
  <2> QED
    BY <2>1
<1> HIDE DEF X
<1> QED
  BY <1>4, <1>5, MedianIsInt DEF medianNet

\* ruleMissingRecurringCost makes findings.
LEMMA MissingRecurringCost ==
  ASSUME NEW ctx, IsContext(ctx)
  PROVE  Findings(ruleMissingRecurringCost(ctx))
<1> DEFINE present == {v.supplier : v \in ToSet(ctx.current)}
           costs == {cost \in findRecurringCosts(ctx) : cost.supplier \notin present}
           missing == SetToSeq(costs)
           signals == [NoRule EXCEPT !.documentCompleteness = 20, !.historicalConsistency = 10,
                                     !.reconciliationImpact = 30]
           subject(cost) == [NoSubject EXCEPT !.supplier = cost.supplier,
                                              !.account = cost.account]
           shut == Unruled \cup {"documentationMissing"}
           type == "missing_recurring_cost"
           found(cost) ==
             emitFinding(Env(ctx),
               [type |-> type, class |-> type, severity |-> high, subject |-> subject(cost),
                amount |-> medianNet(ctx, cost), signals |-> signals, shut |-> shut])
           list == [k \in DOMAIN missing |-> found(missing[k])]
<1>1. ruleMissingRecurringCost(ctx) = list
  BY DEF ruleMissingRecurringCost
<1>2. missing \in Seq(costs)
  <2>1. costs \in SUBSET findRecurringCosts(ctx)
    OBVIOUS
  <2>2. IsFiniteSet(costs)
    BY <2>1, CostsAreFinite, FS_Subset
  <2> HIDE DEF costs
  <2> QED
    BY <2>2, SeqOfSet
<1>3. signals \in Signals
  <2>1. PICK s \in Signals : s = NoRule
    BY NoRuleIs
  <2>2. [s EXCEPT !.documentCompleteness = 20] \in Signals
    BY DEF Signals
  <2>3. PICK t \in Signals : t = [s EXCEPT !.documentCompleteness = 20]
    BY <2>2
  <2>4. [t EXCEPT !.historicalConsistency = 10] \in Signals
    BY DEF Signals
  <2>5. PICK u \in Signals : u = [t EXCEPT !.historicalConsistency = 10]
    BY <2>4
  <2>6. [u EXCEPT !.reconciliationImpact = 30] \in Signals
    BY DEF Signals
  <2>7. signals = [u EXCEPT !.reconciliationImpact = 30]
    BY <2>1, <2>3, <2>5
  <2> QED
    BY <2>6, <2>7
<1> HIDE DEF signals, subject, shut, type, missing, costs
<1>4. \A cost : Emitted(found(cost))
  <2>1. \A cost : medianNet(ctx, cost) \in Int
    BY MedianNetIs
  <2>2. high \in Int
    BY NoRuleIs
  <2> QED
    BY <1>3, <2>1, <2>2, EmitIs DEF Emits
<1> HIDE DEF found
<1>5. list \in Seq(Entries(list))
  <2>1. Len(missing) \in Nat /\ DOMAIN missing = 1 .. Len(missing)
    BY <1>2
  <2>2. list = [k \in 1 .. Len(missing) |-> list[k]]
        /\ \A k \in 1 .. Len(missing) : list[k] \in Entries(list)
    BY <2>1 DEF Entries
  <2> HIDE DEF list
  <2> QED
    BY <2>1, <2>2
<1>6. \A d \in Entries(list) : Emitted(d)
  BY <1>4 DEF Entries
<1> QED
  BY <1>1, <1>5, <1>6 DEF Findings

\* A step that is not implemented makes a finding.
LEMMA NotImplemented ==
  ASSUME NEW ctx, NEW step
  PROVE  Emitted(notImplementedFinding(ctx, step))
<1> DEFINE signals == [NoRule EXCEPT !.reconciliationImpact = 0]
           shut == Failed \cup {"requiresProfessionalJudgement"}
           type == "step_not_implemented"
           amount == 0
<1>1. signals \in Signals
  <2>1. NoRule \in Signals
    BY NoRuleIs
  <2> QED
    BY <2>1 DEF Signals
<1>2. high \in Int /\ amount \in Int
  BY NoRuleIs
<1>3. notImplementedFinding(ctx, step) =
        emitFinding(Env(ctx), [type |-> type, class |-> step, severity |-> high,
          subject |-> NoSubject, amount |-> amount, signals |-> signals, shut |-> shut])
  BY DEF notImplementedFinding
<1> DEFINE d == notImplementedFinding(ctx, step)
<1> HIDE DEF signals, shut, type, amount
<1>4. Emits(d, ctx, type, step, NoSubject)
  BY <1>1, <1>2, <1>3, EmitIs
<1> HIDE DEF d
<1>5. Emitted(d)
  BY <1>4 DEF Emits
<1> QED
  BY <1>5 DEF d

-----------------------------------------------------------------------------
(* All that a run finds *)

\* Four lists of findings make one.
LEMMA FourJoin ==
  ASSUME NEW s, NEW t, NEW u, NEW w, Findings(s), Findings(t),
         Findings(u), Findings(w)
  PROVE  LET all == s \o t \o u \o w
         IN  /\ Findings(all)
             /\ Entries(s) \subseteq Entries(all) /\ Entries(t) \subseteq Entries(all)
             /\ Entries(u) \subseteq Entries(all) /\ Entries(w) \subseteq Entries(all)
<1>1. Findings(s \o t) /\ Entries(s \o t) = Entries(s) \cup Entries(t)
  BY FindingsJoin
<1>2. PICK x : x = s \o t
  OBVIOUS
<1>3. Findings(x \o u) /\ Entries(x \o u) = Entries(x) \cup Entries(u)
  BY <1>1, <1>2, FindingsJoin
<1>4. PICK y : y = x \o u
  OBVIOUS
<1>5. Findings(y \o w) /\ Entries(y \o w) = Entries(y) \cup Entries(w)
  BY <1>3, <1>4, FindingsJoin
<1> QED
  BY <1>1, <1>2, <1>3, <1>4, <1>5

\* The rules of step 7.
LEMMA LedgerGroup ==
  ASSUME NEW ctx, IsContext(ctx)
  PROVE  LET all == LEDGER_GROUP(ctx)
         IN  /\ Findings(all)
             /\ Entries(validateBalanced(ctx)) \subseteq Entries(all)
             /\ Entries(validateAccounts(ctx)) \subseteq Entries(all)
             /\ Entries(validateFinancialYear(ctx)) \subseteq Entries(all)
             /\ Entries(validatePeriodNotLocked(ctx)) \subseteq Entries(all)
             /\ Entries(validateRequiredDimensions(ctx)) \subseteq Entries(all)
             /\ Entries(validateDuplicateSourceRecords(ctx)) \subseteq Entries(all)
<1> DEFINE s1 == validateBalanced(ctx)
           s2 == validateAccounts(ctx)
           s3 == validateFinancialYear(ctx)
           s4 == validatePeriodNotLocked(ctx)
           s5 == validateVat(ctx)
           s6 == validateRequiredDimensions(ctx)
           s7 == validateDuplicateSourceRecords(ctx)
           s8 == ruleUnusualAccountForSupplier(ctx)
           s9 == ruleDeviatingVatCode(ctx)
           s10 == ruleUnusualAmount(ctx)
           s11 == rulePossibleDuplicate(ctx)
           s12 == ruleMissingDimension(ctx)
           s13 == ruleManualVoucherUnusual(ctx)
           s14 == ruleBalanceInsteadOfResult(ctx)
<1>1. /\ Findings(s1) /\ Findings(s2) /\ Findings(s3)
      /\ Findings(s4) /\ Findings(s5) /\ Findings(s6)
      /\ Findings(s7)
  BY Balanced, Accounts, FinancialYear, PeriodNotLocked, Vat, RequiredDimensions,
     DuplicateSourceRecords
<1>2. /\ Findings(s8) /\ Findings(s9) /\ Findings(s10)
      /\ Findings(s11) /\ Findings(s12) /\ Findings(s13)
      /\ Findings(s14)
  BY UnusualAccount, DeviatingVatCode, UnusualAmount, PossibleDuplicate, MissingDimension,
     ManualVoucher, BalanceInsteadOfResult
<1>3. LEDGER_GROUP(ctx) =
        s1 \o s2 \o s3 \o s4 \o s5 \o s6 \o s7 \o s8 \o s9 \o s10 \o s11 \o s12 \o s13 \o s14
  BY DEF LEDGER_GROUP
<1> HIDE DEF s1, s2, s3, s4, s5, s6, s7, s8, s9, s10, s11, s12, s13, s14
<1>4. PICK x : x = s1 \o s2 \o s3 \o s4
  OBVIOUS
<1>5. /\ Findings(x) /\ Entries(s1) \subseteq Entries(x) /\ Entries(s2) \subseteq Entries(x)
      /\ Entries(s3) \subseteq Entries(x) /\ Entries(s4) \subseteq Entries(x)
  BY <1>1, <1>4, FourJoin
<1>6. PICK y : y = x \o s5 \o s6 \o s7
  OBVIOUS
<1>7. /\ Findings(y) /\ Entries(x) \subseteq Entries(y)
      /\ Entries(s6) \subseteq Entries(y) /\ Entries(s7) \subseteq Entries(y)
  BY <1>1, <1>5, <1>6, FourJoin
<1>8. PICK z : z = y \o s8 \o s9 \o s10
  OBVIOUS
<1>9. Findings(z) /\ Entries(y) \subseteq Entries(z)
  BY <1>2, <1>7, <1>8, FourJoin
<1>10. PICK w : w = z \o s11 \o s12 \o s13
  OBVIOUS
<1>11. Findings(w) /\ Entries(z) \subseteq Entries(w)
  BY <1>2, <1>9, <1>10, FourJoin
<1>12. Findings(w \o s14) /\ Entries(w) \subseteq Entries(w \o s14)
  BY <1>2, <1>11, FindingsJoin
<1>13. LEDGER_GROUP(ctx) = w \o s14
  BY <1>3, <1>4, <1>6, <1>8, <1>10
<1> QED
  BY <1>5, <1>7, <1>9, <1>11, <1>12, <1>13 DEF s1, s2, s3, s4, s6, s7

\* The rules of step 6.
LEMMA CompletenessGroup ==
  ASSUME NEW ctx, IsContext(ctx)
  PROVE  LET all == COMPLETENESS_GROUP(ctx)
         IN  /\ Findings(all)
             /\ Entries(validateInputVatDocumentation(ctx)) \subseteq Entries(all)
<1>1. /\ Findings(validateInputVatDocumentation(ctx))
      /\ Findings(ruleMissingDocumentation(ctx))
      /\ Findings(ruleMissingRecurringCost(ctx))
      /\ Findings(ruleWrongPeriod(ctx))
  BY InputVatDocumentation, MissingDocumentation, MissingRecurringCost, WrongPeriod
<1> QED
  BY <1>1, FourJoin DEF COMPLETENESS_GROUP

\* All that a run finds.
LEMMA RawFindings ==
  ASSUME NEW r, IsContext(RuleContext(r))
  PROVE  LET ctx == RuleContext(r)
             raw == rawFindings(r)
         IN  /\ Findings(raw)
             /\ Entries(LEDGER_GROUP(ctx)) \subseteq Entries(raw)
             /\ Entries(COMPLETENESS_GROUP(ctx)) \subseteq Entries(raw)
<1> DEFINE ctx == RuleContext(r)
           s == [k \in DOMAIN BlockingSteps |-> notImplementedFinding(ctx, BlockingSteps[k])]
           t == COMPLETENESS_GROUP(ctx)
           u == LEDGER_GROUP(ctx)
           last == notImplementedFinding(ctx, "balance_reconciliations")
<1>1. rawFindings(r) = s \o t \o u \o <<last>>
  BY DEF rawFindings
<1>2. Findings(s)
  <2>1. DOMAIN BlockingSteps = 1 .. 4
    BY DEF BlockingSteps
  <2>2. \A k \in DOMAIN s : Emitted(s[k])
    BY NotImplemented
  <2>3. s = [k \in 1 .. 4 |-> s[k]] /\ \A k \in 1 .. 4 : s[k] \in Entries(s)
    BY <2>1 DEF Entries
  <2> HIDE DEF s
  <2>4. s \in Seq(Entries(s))
    BY <2>3
  <2> QED
    BY <2>2, <2>4 DEF Findings, Entries
<1>3. Findings(t) /\ Findings(u)
  BY CompletenessGroup, LedgerGroup
<1>4. Findings(<<last>>)
  <2>1. Emitted(last)
    BY NotImplemented
  <2> HIDE DEF last
  <2> QED
    BY <2>1, NoneOrOne
<1> HIDE DEF s, t, u, last
<1> QED
  BY <1>1, <1>2, <1>3, <1>4, FourJoin DEF t, u

-----------------------------------------------------------------------------
(* Consolidation *)

\* The table after one more finding.
Consolidated(before, d) ==
  LET item == IF d.key \in DOMAIN before THEN Merge(before[d.key], d) ELSE Item(d)
  IN  [k \in DOMAIN before \cup {d.key} |-> IF k = d.key THEN item ELSE before[k]]

Tables(byKey, drafts, n) ==
  byKey = [i \in 0 .. n |-> IF i = 0 THEN << >> ELSE Consolidated(byKey[i - 1], drafts[i])]

\* The function consolidateFindings recurs with is there for every length.
LEMMA TablesExist ==
  ASSUME NEW drafts, NEW n \in Nat
  PROVE  \E byKey : Tables(byKey, drafts, n)
<1> DEFINE Missing == {m \in Nat : ~ \E byKey : Tables(byKey, drafts, m)}
<1>1. SUFFICES ASSUME Missing # {} PROVE FALSE
  OBVIOUS
<1>2. PICK m \in Missing : \A k \in Missing : m <= k
  <2>1. Missing \in SUBSET Nat
    OBVIOUS
  <2> HIDE DEF Missing
  <2> QED
    BY <1>1, <2>1, Smallest
<1>3. m \in Nat /\ ~ \E byKey : Tables(byKey, drafts, m)
  BY <1>2
<1>4. CASE m = 0
  <2>1. Tables([i \in 0 .. 0 |-> << >>], drafts, 0)
    BY DEF Tables
  <2> QED
    BY <1>3, <1>4, <2>1
<1>5. CASE m # 0
  <2>1. m - 1 \in Nat /\ ~(m <= m - 1)
    BY <1>3, <1>5
  <2>2. m - 1 \notin Missing
    <3> HIDE DEF Missing
    <3> QED
      BY <1>2, <2>1
  <2>3. PICK f : Tables(f, drafts, m - 1)
    BY <2>1, <2>2
  <2> DEFINE last == Consolidated(f[m - 1], drafts[m])
             g == [i \in 0 .. m |-> IF i = m THEN last ELSE f[i]]
  <2>4. ASSUME NEW i \in 0 .. m
        PROVE  g[i] = IF i = 0 THEN << >> ELSE Consolidated(g[i - 1], drafts[i])
    <3>1. CASE i = m
      <4>1. i # 0 /\ i - 1 \in 0 .. m /\ i - 1 # m
        BY <1>5, <2>1, <3>1
      <4>2. g[i] = last /\ g[i - 1] = f[m - 1]
        BY <3>1, <4>1
      <4> QED
        BY <3>1, <4>1, <4>2
    <3>2. CASE i # m
      <4>1. i \in 0 .. m - 1 /\ (i # 0 => i - 1 \in 0 .. m /\ i - 1 # m)
        BY <1>3, <3>2
      <4>2. f[i] = IF i = 0 THEN << >> ELSE Consolidated(f[i - 1], drafts[i])
        BY <2>3, <4>1 DEF Tables
      <4> QED
        BY <3>2, <4>1, <4>2
    <3> QED
      BY <3>1, <3>2
  <2>5. Tables(g, drafts, m)
    BY <2>4 DEF Tables
  <2> QED
    BY <1>3, <2>5
<1> QED
  BY <1>4, <1>5

ItemFields ==
  {"type", "severity", "subject", "amount", "level", "score", "consultant",
   "blocking", "key", "types", "occurrences"}

\* The issue that one finding opens.
LEMMA ItemIs ==
  ASSUME NEW d
  PROVE  LET m == Item(d)
         IN  /\ DOMAIN m = ItemFields
             /\ m.type = d.type /\ m.subject = d.subject /\ m.amount = d.amount
             /\ m.severity = d.severity /\ m.blocking = d.blocking
             /\ m.consultant = d.consultant /\ m.level = d.level /\ m.score = d.score
             /\ m.types = {d.type} /\ m.occurrences = 1
BY DEF Item, ItemFields

Indices(drafts, n, k) == {m \in 1 .. n : drafts[m].key = k}
OfIssue(drafts, n, k) == {drafts[m] : m \in Indices(drafts, n, k)}

\* An item stands for a set of findings, and speaks for the worst of them.
Stands(item, all) ==
  /\ DOMAIN item = ItemFields
  /\ \E d \in all : item.severity = d.severity
  /\ \A d \in all : d.severity <= item.severity
  /\ \E d \in all : item.level = d.level
  /\ \A d \in all : LevelRank[d.level] <= LevelRank[item.level]
  /\ \E d \in all : item.score = d.score
  /\ \A d \in all : item.score <= d.score
  /\ item.blocking \in BOOLEAN /\ item.consultant \in BOOLEAN
  /\ item.blocking <=> \E d \in all : isBlockingType(d.type)
  /\ item.consultant <=> \E d \in all : d.consultant
  /\ item.types = {d.type : d \in all}
  /\ \E d \in all : item.subject = d.subject /\ item.amount = d.amount /\ item.type = d.type

\* An issue of one finding stands for it.
LEMMA OneStands ==
  ASSUME NEW d, Emitted(d)
  PROVE  Stands(Item(d), {d})
<1>1. LevelRank[d.level] \in Int
  BY DEF Emitted, LevelRank, Levels
<1>2. PICK item : item = Item(d)
  OBVIOUS
<1>3. /\ DOMAIN item = ItemFields
      /\ item.type = d.type /\ item.subject = d.subject /\ item.amount = d.amount
      /\ item.severity = d.severity /\ item.blocking = d.blocking
      /\ item.consultant = d.consultant /\ item.level = d.level /\ item.score = d.score
      /\ item.types = {d.type}
  BY <1>2, ItemIs
<1>4. /\ d.severity \in Int /\ d.score \in Int
      /\ d.blocking \in BOOLEAN /\ d.consultant \in BOOLEAN
      /\ d.blocking <=> isBlockingType(d.type)
  BY DEF Emitted
<1> QED
  BY <1>1, <1>2, <1>3, <1>4 DEF Stands

\* A finding merged into an issue is stood for as well.
LEMMA MergedStands ==
  ASSUME NEW item, NEW all, NEW d, Stands(item, all), Emitted(d),
         \A e \in all : Emitted(e)
  PROVE  Stands(Merge(item, d), all \cup {d})
<1>1. \A e \in all \cup {d} :
        LevelRank[e.level] \in Int /\ e.severity \in Int /\ e.score \in Int
  BY DEF Emitted, LevelRank, Levels
<1>2. LevelRank[item.level] \in Int /\ item.severity \in Int /\ item.score \in Int
  BY <1>1 DEF Stands
<1>3. DOMAIN item = ItemFields
  BY DEF Stands
<1> DEFINE m == Merge(item, d)
<1>4. /\ DOMAIN m = ItemFields
      /\ m.type = item.type /\ m.subject = item.subject /\ m.amount = item.amount
      /\ m.severity = Greater(item.severity, d.severity)
      /\ m.blocking = (item.blocking \/ d.blocking)
      /\ m.consultant = (item.consultant \/ d.consultant)
      /\ m.level = (IF LevelRank[d.level] > LevelRank[item.level] THEN d.level ELSE item.level)
      /\ m.score = (IF d.score < item.score THEN d.score ELSE item.score)
      /\ m.types = item.types \cup {d.type}
  BY <1>3 DEF Merge, ItemFields
<1> HIDE DEF m
<1> DEFINE now == all \cup {d}
<1>5. (\E e \in now : m.severity = e.severity) /\ \A e \in now : e.severity <= m.severity
  BY <1>1, <1>2, <1>4 DEF Stands, Greater
<1>6. (\E e \in now : m.level = e.level)
      /\ \A e \in now : LevelRank[e.level] <= LevelRank[m.level]
  BY <1>1, <1>2, <1>4 DEF Stands
<1>7. (\E e \in now : m.score = e.score) /\ \A e \in now : m.score <= e.score
  BY <1>1, <1>2, <1>4 DEF Stands
<1>8. /\ m.blocking \in BOOLEAN /\ m.consultant \in BOOLEAN
      /\ m.blocking <=> \E e \in now : isBlockingType(e.type)
      /\ m.consultant <=> \E e \in now : e.consultant
  BY <1>4 DEF Stands, Emitted
<1>9. /\ m.types = {e.type : e \in now}
      /\ \E e \in now : m.subject = e.subject /\ m.amount = e.amount /\ m.type = e.type
  BY <1>4 DEF Stands
<1> QED
  BY <1>4, <1>5, <1>6, <1>7, <1>8, <1>9 DEF Stands, m

\* A table of the issues of the first n findings.
Table(items, drafts, n) ==
  /\ DOMAIN items = {drafts[m].key : m \in 1 .. n}
  /\ \A k \in DOMAIN items :
       /\ Stands(items[k], OfIssue(drafts, n, k))
       /\ items[k].occurrences = Cardinality(Indices(drafts, n, k))

\* One more finding belongs to one issue.
LEMMA IndicesGrow ==
  ASSUME NEW drafts, NEW n \in Nat \ {0}, NEW k
  PROVE  /\ IsFiniteSet(Indices(drafts, n, k))
         /\ Cardinality(Indices(drafts, n, k)) \in Nat
         /\ drafts[n].key # k =>
              /\ Indices(drafts, n, k) = Indices(drafts, n - 1, k)
              /\ OfIssue(drafts, n, k) = OfIssue(drafts, n - 1, k)
         /\ drafts[n].key = k =>
              /\ OfIssue(drafts, n, k) = OfIssue(drafts, n - 1, k) \cup {drafts[n]}
              /\ Cardinality(Indices(drafts, n, k)) = Cardinality(Indices(drafts, n - 1, k)) + 1
<1>1. 1 .. n = (1 .. n - 1) \cup {n} /\ n \notin 1 .. n - 1
  OBVIOUS
<1>2. \A i \in {n - 1, n} : IsFiniteSet(Indices(drafts, i, k))
  <2> SUFFICES ASSUME NEW i \in {n - 1, n} PROVE IsFiniteSet(Indices(drafts, i, k))
    OBVIOUS
  <2>1. i \in Int /\ 1 \in Int
    OBVIOUS
  <2>2. IsFiniteSet(1 .. i)
    BY <2>1, FS_Interval
  <2>3. Indices(drafts, i, k) \in SUBSET (1 .. i)
    BY DEF Indices
  <2> QED
    BY <2>2, <2>3, FS_Subset
<1>3. \A i \in {n - 1, n} : Cardinality(Indices(drafts, i, k)) \in Nat
  BY <1>2, FS_CardinalityType
<1>4. CASE drafts[n].key # k
  <2>1. Indices(drafts, n, k) = Indices(drafts, n - 1, k)
    BY <1>1, <1>4 DEF Indices
  <2> QED
    BY <1>2, <1>3, <1>4, <2>1 DEF OfIssue
<1>5. CASE drafts[n].key = k
  <2>1. /\ Indices(drafts, n, k) = Indices(drafts, n - 1, k) \cup {n}
        /\ n \notin Indices(drafts, n - 1, k)
    BY <1>1, <1>5 DEF Indices
  <2>2. Cardinality(Indices(drafts, n, k)) = Cardinality(Indices(drafts, n - 1, k)) + 1
    BY <1>2, <2>1, FS_AddElement
  <2>3. OfIssue(drafts, n, k) = OfIssue(drafts, n - 1, k) \cup {drafts[n]}
    BY <2>1 DEF OfIssue
  <2> QED
    BY <1>2, <1>3, <1>5, <2>2, <2>3
<1> QED
  BY <1>4, <1>5

\* One more finding keeps the table.
LEMMA TableGrows ==
  ASSUME NEW drafts, Findings(drafts),
         NEW n \in 1 .. Len(drafts), NEW items, Table(items, drafts, n - 1)
  PROVE  Table(Consolidated(items, drafts[n]), drafts, n)
<1> DEFINE d == drafts[n]
           item == IF d.key \in DOMAIN items THEN Merge(items[d.key], d) ELSE Item(d)
           now == Consolidated(items, d)
<1>1. /\ Len(drafts) \in Nat /\ DOMAIN drafts = 1 .. Len(drafts)
      /\ \A m \in 1 .. Len(drafts) : Emitted(drafts[m])
      /\ n \in Nat \ {0} /\ 1 .. n = (1 .. n - 1) \cup {n}
      /\ 1 .. n - 1 \subseteq 1 .. Len(drafts)
  <2>1. drafts \in Seq(Entries(drafts))
    BY DEF Findings
  <2>2. /\ Len(drafts) \in Nat /\ DOMAIN drafts = 1 .. Len(drafts)
        /\ n \in Nat \ {0} /\ 1 .. n = (1 .. n - 1) \cup {n}
        /\ 1 .. n - 1 \subseteq 1 .. Len(drafts)
    BY <2>1
  <2>3. \A m \in 1 .. Len(drafts) : Emitted(drafts[m])
    BY <2>2 DEF Findings, Entries
  <2> QED
    BY <2>2, <2>3
<1>2. /\ DOMAIN now = DOMAIN items \cup {d.key}
      /\ \A k \in DOMAIN now : now[k] = IF k = d.key THEN item ELSE items[k]
  BY DEF Consolidated
<1>3. DOMAIN now = {drafts[m].key : m \in 1 .. n}
  BY <1>1, <1>2 DEF Table
<1>4. ASSUME NEW k \in DOMAIN now, k # d.key
      PROVE  /\ Stands(now[k], OfIssue(drafts, n, k))
             /\ now[k].occurrences = Cardinality(Indices(drafts, n, k))
  <2>1. k \in DOMAIN items /\ now[k] = items[k]
    BY <1>2, <1>4
  <2>2. /\ Indices(drafts, n, k) = Indices(drafts, n - 1, k)
        /\ OfIssue(drafts, n, k) = OfIssue(drafts, n - 1, k)
    BY <1>1, <1>4, IndicesGrow
  <2> QED
    BY <2>1, <2>2 DEF Table
<1>5. CASE d.key \in DOMAIN items
  <2> DEFINE k == d.key
             old == OfIssue(drafts, n - 1, k)
  <2>1. /\ Stands(items[k], old)
        /\ items[k].occurrences = Cardinality(Indices(drafts, n - 1, k))
    BY <1>5 DEF Table
  <2>2. \A e \in old : Emitted(e)
    BY <1>1 DEF OfIssue, Indices
  <2>3. Emitted(d)
    BY <1>1
  <2> HIDE DEF now, item, old
  <2>4. Stands(Merge(items[k], d), old \cup {d})
    BY <2>1, <2>2, <2>3, MergedStands
  <2>5. Merge(items[k], d).occurrences = items[k].occurrences + 1
    <3>1. DOMAIN items[k] = ItemFields
      BY <2>1 DEF Stands
    <3> QED
      BY <3>1 DEF Merge, ItemFields
  <2>6. OfIssue(drafts, n, k) = old \cup {d}
        /\ Cardinality(Indices(drafts, n, k)) = Cardinality(Indices(drafts, n - 1, k)) + 1
    BY <1>1, IndicesGrow DEF old
  <2>7. now[k] = Merge(items[k], d)
    BY <1>2, <1>5 DEF item
  <2>8. /\ Stands(now[k], OfIssue(drafts, n, k))
        /\ now[k].occurrences = Cardinality(Indices(drafts, n, k))
    BY <2>1, <2>4, <2>5, <2>6, <2>7
  <2> HIDE DEF k
  <2>9. \A j \in DOMAIN now :
          j # k => /\ Stands(now[j], OfIssue(drafts, n, j))
                   /\ now[j].occurrences = Cardinality(Indices(drafts, n, j))
    BY <1>4 DEF k
  <2> QED
    BY <1>3, <2>8, <2>9 DEF Table, now
<1>6. CASE d.key \notin DOMAIN items
  <2> DEFINE k == d.key
  <2>1. OfIssue(drafts, n - 1, k) = {} /\ Indices(drafts, n - 1, k) = {}
    BY <1>6 DEF Table, OfIssue, Indices
  <2>2. Emitted(d)
    BY <1>1
  <2> HIDE DEF now, item
  <2>3. Stands(Item(d), {d}) /\ Item(d).occurrences = 1
    BY <2>2, OneStands, ItemIs
  <2>4. OfIssue(drafts, n, k) = {d} /\ Cardinality(Indices(drafts, n, k)) = 1
    <3>1. /\ OfIssue(drafts, n, k) = OfIssue(drafts, n - 1, k) \cup {d}
          /\ Cardinality(Indices(drafts, n, k)) = Cardinality(Indices(drafts, n - 1, k)) + 1
      BY <1>1, IndicesGrow
    <3>2. Cardinality({}) = 0
      BY FS_EmptySet
    <3>3. Cardinality(Indices(drafts, n - 1, k)) = 0
      BY <2>1, <3>2
    <3>4. Cardinality(Indices(drafts, n, k)) = 1
      BY <3>1, <3>3
    <3>5. OfIssue(drafts, n, k) = {d}
      BY <2>1, <3>1
    <3> QED
      BY <3>4, <3>5
  <2>5. now[k] = Item(d)
    BY <1>2, <1>6 DEF item
  <2>6. /\ Stands(now[k], OfIssue(drafts, n, k))
        /\ now[k].occurrences = Cardinality(Indices(drafts, n, k))
    BY <2>3, <2>4, <2>5
  <2> HIDE DEF k
  <2>7. \A j \in DOMAIN now :
          j # k => /\ Stands(now[j], OfIssue(drafts, n, j))
                   /\ now[j].occurrences = Cardinality(Indices(drafts, n, j))
    BY <1>4 DEF k
  <2> QED
    BY <1>3, <2>6, <2>7 DEF Table, now
<1> QED
  BY <1>5, <1>6

\* consolidateFindings makes a table of all the findings.
LEMMA ConsolidateIs ==
  ASSUME NEW drafts, Findings(drafts)
  PROVE  Table(consolidateFindings(drafts), drafts, Len(drafts))
<1> DEFINE n == Len(drafts)
           Fun(f) == f = [i \in 0 .. n |-> IF i = 0 THEN << >>
                                           ELSE Consolidated(f[i - 1], drafts[i])]
           byKey == CHOOSE f : Fun(f)
<1>1. n \in Nat
  BY DEF Findings
<1>2. Fun(byKey)
  <2>1. \E f : Fun(f)
    BY <1>1, TablesExist DEF Tables
  <2> HIDE DEF Fun
  <2> QED
    BY <2>1
<1>3. consolidateFindings(drafts) = byKey[n]
  BY DEF consolidateFindings, Consolidated
<1> HIDE DEF byKey
<1> DEFINE Wrongs == {i \in 0 .. n : ~Table(byKey[i], drafts, i)}
<1>4. Wrongs = {}
  <2> SUFFICES ASSUME Wrongs # {} PROVE FALSE
    OBVIOUS
  <2>1. PICK i \in Wrongs : \A j \in Wrongs : i <= j
    <3>1. Wrongs \in SUBSET Nat
      BY <1>1
    <3> HIDE DEF Wrongs
    <3> QED
      BY <3>1, Smallest
  <2>2. i \in 0 .. n /\ ~Table(byKey[i], drafts, i) /\ n \in Nat
    BY <1>1, <2>1
  <2>3. CASE i = 0
    <3>1. byKey[0] = << >>
      BY <1>1, <1>2
    <3>2. DOMAIN byKey[0] = {} /\ 1 .. 0 = {}
      BY <3>1
    <3>3. Table(byKey[0], drafts, 0)
      BY <3>2 DEF Table
    <3> QED
      BY <2>2, <2>3, <3>3
  <2>4. CASE i # 0
    <3>1. i - 1 \in 0 .. n /\ ~(i <= i - 1) /\ i \in 1 .. n
      BY <2>2, <2>4
    <3>2. i - 1 \notin Wrongs
      <4> HIDE DEF Wrongs
      <4> QED
        BY <2>1, <3>1
    <3>3. Table(byKey[i - 1], drafts, i - 1)
      BY <3>1, <3>2
    <3>4. byKey[i] = Consolidated(byKey[i - 1], drafts[i])
      BY <1>2, <2>2, <2>4
    <3>5. Table(byKey[i], drafts, i)
      BY <3>1, <3>3, <3>4, TableGrows
    <3> QED
      BY <2>2, <3>5
  <2> QED
    BY <2>3, <2>4
<1>5. n \in 0 .. n
  BY <1>1
<1> QED
  BY <1>3, <1>4, <1>5

-----------------------------------------------------------------------------
(* The invariant *)

\* The vouchers a run has in front of it, and the source key of a voucher.
Reviews(w) == In(run[w].period, run[w].upto)
InvoiceKey(n) == <<"supplier_invoice", books[n].invoice>>

\* A worker that has read the source keys, and has not filed.
Reviewing == {w \in Workers : run[w].pc \in {"listed", "reviewed"}}

Points(d, n) == d.type = "duplicate_source_record" /\ d.subject.voucher = n
PointedOut(w, n) == \E d \in Entries(run[w].raw) : Points(d, n)

RunFields ==
  {"pc", "period", "lock", "upto", "history", "processed", "raw", "overlapped", "id"}
OfferFields == {"run", "issue", "amount", "body", "level", "locked", "status"}

BooksAreVouchers ==
  /\ books \in Seq(Entries(books))
  /\ \A n \in DOMAIN books : IsVoucher(books[n]) /\ books[n].id = n

IsRun(r) ==
  /\ DOMAIN r = RunFields
  /\ r.upto \in Nat /\ r.upto <= Len(books)
  /\ r.history \subseteq DOMAIN books
  /\ r.lock \in Nat
RunsAreRuns ==
  /\ lock \in Nat
  /\ DOMAIN run = Workers
  /\ \A w \in Workers :
       /\ IsRun(run[w])
       /\ run[w].pc # "idle" => run[w].period \in Nat \ {0}

\* What a correction is made of, and when it may be approved by policy.
Earned(o) ==
  o.level = "automatic" =>
    /\ o.amount <= AutomationAmountLimit
    /\ ~isMaterial(o.amount)
    /\ ~o.locked
    /\ \A i \in DOMAIN o.body.rows :
         LET same == {j \in DOMAIN o.body.rows :
                        o.body.rows[j].account = o.body.rows[i].account}
         IN  SumFunction([j \in same |-> Net(o.body.rows[j])]) = 0

OffersAreEarned ==
  \A o \in offers :
    /\ DOMAIN o = OfferFields
    /\ o.body.date \in Nat \ {0} /\ IsLedgerRows(o.body.rows)
    /\ Earned(o)

\* A reviewed run has found what is wrong with its vouchers.
AllIsFound ==
  \A w \in Reviewed :
    /\ Findings(run[w].raw)
    /\ \A n \in Reviews(w) : \A c \in Wrong(run[w], books[n]) :
         \E d \in Entries(run[w].raw) :
           isBlockingType(d.type) /\ d.key[2] = c /\ d.subject.voucher = n

\* The keys of the vouchers that runs have been through are on record.
KeysAreRecorded ==
  /\ \A w \in Reviewed : \A n \in Reviews(w) :
       books[n].invoice # "" => InvoiceKey(n) \in processed
  /\ \A e \in filed :
       /\ e.voucher \in DOMAIN books
       /\ books[e.voucher].invoice # "" => InvoiceKey(e.voucher) \in processed

\* A run points out a voucher whose key it has read, and one of two vouchers of
\* its own with one invoice.
KeysArePointedOut ==
  \A w \in Reviewed : \A n \in Reviews(w) :
    books[n].invoice # "" =>
      /\ InvoiceKey(n) \in run[w].processed => PointedOut(w, n)
      /\ \A m \in Reviews(w) :
           m # n /\ books[m].invoice = books[n].invoice =>
             PointedOut(w, m) \/ PointedOut(w, n)

\* Of two runs that were not between reading and recording the keys at the same
\* time, one read what the other recorded.
ReadWhatWasFiled ==
  \A w \in Reviewing : \A n \in Reviews(w) : \A e \in filed :
    /\ n # e.voucher
    /\ books[n].invoice # "" /\ books[n].invoice = books[e.voucher].invoice
    /\ ~run[w].overlapped /\ ~e.overlapped
    => InvoiceKey(n) \in run[w].processed \/ e.flagged
OneReadTheOther ==
  \A w, u \in Reviewing : \A n \in Reviews(w) : \A m \in Reviews(u) :
    /\ w # u /\ n # m
    /\ books[n].invoice # "" /\ books[n].invoice = books[m].invoice
    /\ ~run[w].overlapped /\ ~run[u].overlapped
    => InvoiceKey(n) \in run[w].processed \/ InvoiceKey(n) \in run[u].processed

\* Of two filed vouchers with one invoice, one is flagged.
OneIsFlagged ==
  \A e, f \in filed :
    /\ e.voucher # f.voucher
    /\ books[e.voucher].invoice # ""
    /\ books[e.voucher].invoice = books[f.voucher].invoice
    /\ ~e.overlapped /\ ~f.overlapped
    => e.flagged \/ f.flagged

ReviewInv ==
  /\ BooksAreVouchers /\ RunsAreRuns /\ OffersAreEarned /\ AllIsFound
  /\ KeysAreRecorded /\ KeysArePointedOut
  /\ ReadWhatWasFiled /\ OneReadTheOther /\ OneIsFlagged

-----------------------------------------------------------------------------
(* What a run has in front of it *)

\* Vouchers gives the vouchers of a set of numbers, each once: no two have
\* one rank, so every rank up to their number is taken.
LEMMA VouchersAre ==
  ASSUME BooksAreVouchers, NEW numbers \in SUBSET DOMAIN books
  PROVE  LET vs == Vouchers(numbers)
         IN  /\ Len(vs) \in Nat /\ DOMAIN vs = 1 .. Len(vs)
             /\ Entries(vs) = {books[n] : n \in numbers}
<1> DEFINE Less(n) == {m \in numbers : Before(books[m], books[n])}
           Rank(n) == Cardinality(Less(n))
           c == Cardinality(numbers)
           rank == [n \in numbers |-> Rank(n)]
           ranks == 0 .. c - 1
           vs == Vouchers(numbers)
           Of(k) == CHOOSE n \in numbers : Rank(n) = k - 1
<1>1. /\ Len(books) \in Nat /\ DOMAIN books = 1 .. Len(books)
      /\ \A n \in numbers : books[n].date \in Nat /\ books[n].id = n /\ n \in Nat
  BY DEF BooksAreVouchers, IsVoucher
<1>2. IsFiniteSet(numbers) /\ c \in Nat
  <2>1. Len(books) \in Int /\ 1 \in Int
    BY <1>1
  <2>2. IsFiniteSet(1 .. Len(books)) /\ numbers \in SUBSET (1 .. Len(books))
    BY <1>1, <2>1, FS_Interval
  <2> QED
    BY <2>2, FS_Subset, FS_CardinalityType
<1>3. ASSUME NEW n \in numbers
      PROVE  IsFiniteSet(Less(n)) /\ Rank(n) \in ranks
  <2>1. Less(n) \in SUBSET (numbers \ {n})
    BY <1>1 DEF Before
  <2>2. IsFiniteSet(numbers \ {n}) /\ Cardinality(numbers \ {n}) = c - 1
    BY <1>2, FS_RemoveElement
  <2> HIDE DEF Less
  <2>3. /\ IsFiniteSet(Less(n)) /\ Cardinality(Less(n)) <= c - 1
        /\ Cardinality(Less(n)) \in Nat
    BY <2>1, <2>2, FS_Subset, FS_CardinalityType
  <2> QED
    BY <1>2, <2>3
<1>4. ASSUME NEW m \in numbers, NEW n \in numbers, Before(books[m], books[n])
      PROVE  Rank(m) # Rank(n)
  <2>1. Less(m) \in SUBSET Less(n) /\ m \in Less(n) /\ m \notin Less(m)
    BY <1>1, <1>4 DEF Before
  <2>2. IsFiniteSet(Less(n))
    BY <1>3
  <2> HIDE DEF Less
  <2> QED
    BY <2>1, <2>2, FS_Subset
<1>5. ASSUME NEW m \in numbers, NEW n \in numbers, Rank(m) = Rank(n)
      PROVE  m = n
  <2>1. ~Before(books[m], books[n]) /\ ~Before(books[n], books[m])
    BY <1>4, <1>5
  <2> QED
    BY <1>1, <2>1 DEF Before
<1> HIDE DEF Less
<1>6. \A k \in 1 .. c : \E n \in numbers : Rank(n) = k - 1
  <2>1. rank \in [numbers -> ranks]
    BY <1>3
  <2>2. \A m, n \in numbers : rank[m] = rank[n] => m = n
    BY <1>5
  <2> HIDE DEF Rank
  <2>3. rank \in Injection(numbers, ranks)
    BY <2>1, <2>2 DEF Injection, IsInjective
  <2>4. IsFiniteSet(ranks) /\ Cardinality(ranks) = c
    <3>1. 0 \in Int /\ c - 1 \in Int
      BY <1>2
    <3>2. IsFiniteSet(ranks) /\ Cardinality(ranks) = IF 0 > c - 1 THEN 0 ELSE c - 1 - 0 + 1
      <4> HIDE DEF c
      <4> QED
        BY <3>1, FS_Interval
    <3> QED
      BY <1>2, <3>2
  <2>5. rank \in Surjection(numbers, ranks)
    <3> HIDE DEF rank, ranks
    <3> QED
      BY <2>3, <2>4, FS_Injection
  <2>6. \A t \in ranks : \E n \in numbers : rank[n] = t
    <3> HIDE DEF rank, ranks
    <3> QED
      BY <2>5 DEF Surjection
  <2>7. \A k \in 1 .. c : k - 1 \in ranks
    BY <1>2
  <2> QED
    BY <2>6, <2>7
<1>7. vs = [k \in 1 .. c |-> books[Of(k)]]
  BY DEF Vouchers, Less
<1>8. \A k \in 1 .. c : Of(k) \in numbers /\ Rank(Of(k)) = k - 1
  <2> HIDE DEF Rank
  <2> QED
    BY <1>6
<1>9. \A n \in numbers : Rank(n) + 1 \in 1 .. c /\ Of(Rank(n) + 1) = n
  <2> SUFFICES ASSUME NEW n \in numbers PROVE Rank(n) + 1 \in 1 .. c /\ Of(Rank(n) + 1) = n
    OBVIOUS
  <2>1. Rank(n) + 1 \in 1 .. c /\ Rank(n) \in Int /\ Rank(n) + 1 - 1 = Rank(n)
    BY <1>2, <1>3
  <2> HIDE DEF Rank, Of
  <2>2. Of(Rank(n) + 1) \in numbers /\ Rank(Of(Rank(n) + 1)) = Rank(n)
    BY <1>8, <2>1
  <2> QED
    BY <1>5, <2>1, <2>2
<1> HIDE DEF vs, Of, Rank
<1>10. Len(vs) = c /\ DOMAIN vs = 1 .. c
  <2> HIDE DEF c
  <2> QED
    BY <1>2, <1>7
<1>11. Entries(vs) = {books[n] : n \in numbers}
  <2>1. ASSUME NEW k \in 1 .. c PROVE vs[k] \in {books[n] : n \in numbers}
    BY <1>7, <1>8
  <2>2. ASSUME NEW n \in numbers PROVE books[n] \in Entries(vs)
    BY <1>7, <1>9, <1>10 DEF Entries
  <2> QED
    BY <1>10, <2>1, <2>2 DEF Entries
<1> QED
  BY <1>2, <1>10, <1>11 DEF vs

\* What the rules see is the vouchers the run has in front of it.
LEMMA ReviewedVouchers ==
  ASSUME BooksAreVouchers, NEW r, IsRun(r)
  PROVE  LET ctx == RuleContext(r)
         IN  /\ IsContext(ctx)
             /\ Entries(ctx.current) = {books[n] : n \in In(r.period, r.upto)}
             /\ In(r.period, r.upto) \subseteq DOMAIN books
<1> DEFINE ctx == RuleContext(r)
           mine == In(r.period, r.upto)
<1>1. mine \in SUBSET DOMAIN books /\ r.history \in SUBSET DOMAIN books
  <2>1. Len(books) \in Nat /\ DOMAIN books = 1 .. Len(books)
    BY DEF BooksAreVouchers
  <2> QED
    BY <2>1 DEF In, IsRun
<1>2. ctx.current = Vouchers(mine) /\ ctx.history = Vouchers(r.history)
  BY DEF RuleContext
<1> HIDE DEF mine, ctx
<1>3. /\ Len(ctx.current) \in Nat /\ DOMAIN ctx.current = 1 .. Len(ctx.current)
      /\ Entries(ctx.current) = {books[n] : n \in mine}
  BY <1>1, <1>2, VouchersAre
<1>4. /\ Len(ctx.history) \in Nat /\ DOMAIN ctx.history = 1 .. Len(ctx.history)
      /\ Entries(ctx.history) = {books[n] : n \in r.history}
  BY <1>1, <1>2, VouchersAre
<1>5. \A n \in DOMAIN books : IsVoucher(books[n])
  BY DEF BooksAreVouchers
<1>6. /\ \A n \in DOMAIN ctx.current : IsVoucher(ctx.current[n])
      /\ \A n \in DOMAIN ctx.history : IsVoucher(ctx.history[n])
  BY <1>1, <1>3, <1>4, <1>5 DEF Entries
<1>7. IsContext(ctx)
  BY <1>3, <1>4, <1>6 DEF IsContext
<1> QED
  BY <1>1, <1>3, <1>7 DEF mine, ctx

\* A blocking finding of a class about a voucher.
Blocks(raw, class, v) ==
  \E d \in Entries(raw) :
    isBlockingType(d.type) /\ d.key[2] = class /\ d.subject.voucher = v.id

\* A validation that reports a voucher blocks.
LEMMA ReportedBlocks ==
  ASSUME NEW list, NEW raw, NEW type \in ValidationTypes, NEW class, NEW v,
         Reported(list, type, class, v), Entries(list) \subseteq Entries(raw)
  PROVE  Blocks(raw, class, v)
BY DEF Reported, Blocks, isBlockingType

\* The first VAT row is there when there is one at all.
LEMMA FirstVatRow ==
  ASSUME NEW v, IsLedgerRows(v.rows),
         NEW i \in DOMAIN v.rows, v.rows[i].account = INPUT_VAT, v.rows[i].debit > 0
  PROVE  VatRow(v) # {}
<1> DEFINE rows == {j \in DOMAIN v.rows : v.rows[j].account = INPUT_VAT /\ v.rows[j].debit > 0}
<1>1. rows # {} /\ rows \in SUBSET Nat
  BY DEF IsLedgerRows
<1>2. VatRow(v) = {k \in rows : \A j \in rows : k <= j}
  BY DEF VatRow
<1> HIDE DEF rows
<1> QED
  BY <1>1, <1>2, Smallest

\* Whatever is wrong with a voucher, a rule reports it and blocks.
LEMMA WhatIsWrong ==
  ASSUME BooksAreVouchers, NEW r, IsRun(r),
         NEW n \in In(r.period, r.upto), NEW c \in Wrong(r, books[n])
  PROVE  Blocks(rawFindings(r), c, books[n])
<1> DEFINE ctx == RuleContext(r)
           v == books[n]
           raw == rawFindings(r)
<1>1. /\ IsContext(ctx) /\ v \in Entries(ctx.current)
      /\ n \in DOMAIN books /\ IsVoucher(v)
  BY ReviewedVouchers DEF BooksAreVouchers
<1>2. PICK k \in DOMAIN ctx.current : ctx.current[k] = v
  BY <1>1 DEF Entries
<1>3. /\ ctx.lock = r.lock /\ r.lock \in Nat
      /\ ctx.invoices \subseteq SupplierInvoices
  BY DEF RuleContext, IsRun
<1>4. v.date \in Nat \ {0} /\ IsLedgerRows(v.rows)
  BY <1>1 DEF IsVoucher
<1>5. c \in {"unbalanced_voucher", "invalid_account", "date_outside_financial_year",
             "period_locked", "missing_dimension", "missing_documentation"}
  BY DEF Wrong
<1>6. /\ Entries(LEDGER_GROUP(ctx)) \subseteq Entries(raw)
      /\ Entries(COMPLETENESS_GROUP(ctx)) \subseteq Entries(raw)
  BY <1>1, RawFindings
<1>7. v.rows = books[n].rows
  OBVIOUS
<1>10. CASE c = "unbalanced_voucher"
  <2>1. SumFunction([i \in DOMAIN v.rows |-> Net(v.rows[i])]) # 0
    BY <1>10 DEF Wrong
  <2> HIDE DEF v, ctx, raw
  <2>2. voucherTotalDebit(v) - voucherTotalCredit(v) # 0
    BY <1>4, <2>1, VoucherSums
  <2>3. Reported(validateBalanced(ctx), "unbalanced_voucher", "unbalanced_voucher", v)
    BY <1>1, <1>2, <2>2, Balanced
  <2>4. Entries(validateBalanced(ctx)) \subseteq Entries(raw)
    BY <1>1, <1>6, LedgerGroup
  <2>5. "unbalanced_voucher" \in ValidationTypes
    BY DEF ValidationTypes
  <2> QED
    BY <1>10, <2>3, <2>4, <2>5, ReportedBlocks DEF v, raw
<1>11. CASE c = "invalid_account"
  <2>1. \E i \in DOMAIN v.rows : v.rows[i].account \notin ActiveAccounts
    BY <1>11 DEF Wrong
  <2>2. {i \in DOMAIN v.rows : v.rows[i].account \notin ActiveAccounts} # {}
    BY <2>1
  <2> HIDE DEF v, ctx, raw
  <2>3. Reported(validateAccounts(ctx), "unknown_or_inactive_account", "invalid_account", v)
    BY <1>1, <1>2, <2>2, Accounts
  <2>4. Entries(validateAccounts(ctx)) \subseteq Entries(raw)
    BY <1>1, <1>6, LedgerGroup
  <2>5. "unknown_or_inactive_account" \in ValidationTypes
    BY DEF ValidationTypes
  <2> QED
    BY <1>11, <2>3, <2>4, <2>5, ReportedBlocks DEF v, raw
<1>12. CASE c = "date_outside_financial_year"
  <2>1. \A y \in FinancialYears : v.date \notin y[1] .. y[2]
    BY <1>12 DEF Wrong
  <2> HIDE DEF v, ctx, raw
  <2>2. ~InFinancialYear(v.date)
    BY <1>4, <2>1, PolicyAssumption DEF InFinancialYear
  <2>3. Reported(validateFinancialYear(ctx), "date_outside_financial_year",
                 "date_outside_financial_year", v)
    BY <1>1, <1>2, <2>2, FinancialYear
  <2>4. Entries(validateFinancialYear(ctx)) \subseteq Entries(raw)
    BY <1>1, <1>6, LedgerGroup
  <2>5. "date_outside_financial_year" \in ValidationTypes
    BY DEF ValidationTypes
  <2> QED
    BY <1>12, <2>3, <2>4, <2>5, ReportedBlocks DEF v, raw
<1>13. CASE c = "period_locked"
  <2>1. v.date <= r.lock
    BY <1>13 DEF Wrong
  <2>2. ctx.lock # 0 /\ v.date <= ctx.lock
    BY <1>3, <1>4, <2>1
  <2> HIDE DEF v, ctx, raw
  <2>3. Reported(validatePeriodNotLocked(ctx), "period_locked", "period_locked", v)
    BY <1>1, <1>2, <2>2, PeriodNotLocked
  <2>4. Entries(validatePeriodNotLocked(ctx)) \subseteq Entries(raw)
    BY <1>1, <1>6, LedgerGroup
  <2>5. "period_locked" \in ValidationTypes
    BY DEF ValidationTypes
  <2> QED
    BY <1>13, <2>3, <2>4, <2>5, ReportedBlocks DEF v, raw
<1>14. CASE c = "missing_dimension"
  <2>1. \E i \in DOMAIN v.rows :
          \/ v.rows[i].account \in costCenterRequiredAccounts /\ v.rows[i].cc = ""
          \/ v.rows[i].account \in projectRequiredAccounts /\ v.rows[i].project = ""
    BY <1>14 DEF Wrong
  <2>2. {i \in DOMAIN v.rows : MissesDimension(v.rows[i])} # {}
    BY <2>1 DEF MissesDimension
  <2> HIDE DEF v, ctx, raw
  <2>3. Reported(validateRequiredDimensions(ctx), "missing_required_dimension",
                 "missing_dimension", v)
    BY <1>1, <1>2, <2>2, RequiredDimensions
  <2>4. Entries(validateRequiredDimensions(ctx)) \subseteq Entries(raw)
    BY <1>1, <1>6, LedgerGroup
  <2>5. "missing_required_dimension" \in ValidationTypes
    BY DEF ValidationTypes
  <2> QED
    BY <1>14, <2>3, <2>4, <2>5, ReportedBlocks DEF v, raw
<1>15. CASE c = "missing_documentation"
  <2>1. /\ requireDocumentationForInputVat
        /\ ~(v.file \/ \E s \in SupplierInvoices : s.number = v.invoice /\ s.file)
        /\ \E i \in DOMAIN v.rows : v.rows[i].account = INPUT_VAT /\ v.rows[i].debit > 0
    BY <1>15 DEF Wrong
  <2>2. ~Documented(ctx, v)
    BY <1>3, <2>1 DEF Documented
  <2> HIDE DEF v, ctx, raw
  <2>3. VatRow(v) # {}
    BY <1>4, <2>1, FirstVatRow
  <2>4. {i \in VatRow(v) : requireDocumentationForInputVat /\ ~Documented(ctx, v)} # {}
    BY <2>1, <2>2, <2>3
  <2>5. Reported(validateInputVatDocumentation(ctx), "input_vat_without_documentation",
                 "missing_documentation", v)
    BY <1>1, <1>2, <2>4, InputVatDocumentation
  <2>6. Entries(validateInputVatDocumentation(ctx)) \subseteq Entries(raw)
    BY <1>1, <1>6, CompletenessGroup
  <2>7. "input_vat_without_documentation" \in ValidationTypes
    BY DEF ValidationTypes
  <2> QED
    BY <1>15, <2>5, <2>6, <2>7, ReportedBlocks DEF v, raw
<1> QED
  BY <1>5, <1>10, <1>11, <1>12, <1>13, <1>14, <1>15

\* A voucher is pointed out whose source key the run read, and so is the later
\* of two vouchers of the period with one invoice.
LEMMA DuplicatesArePointedOut ==
  ASSUME BooksAreVouchers, NEW r, IsRun(r),
         NEW n \in In(r.period, r.upto), books[n].invoice # "",
         \/ InvoiceKey(n) \in r.processed
         \/ \E m \in In(r.period, r.upto) :
              Before(books[m], books[n]) /\ books[m].invoice = books[n].invoice
  PROVE  \E d \in Entries(rawFindings(r)) : Points(d, n)
<1> DEFINE ctx == RuleContext(r)
           v == books[n]
           raw == rawFindings(r)
<1>1. /\ IsContext(ctx) /\ v \in Entries(ctx.current)
      /\ n \in DOMAIN books /\ v.id = n
      /\ Entries(ctx.current) = {books[m] : m \in In(r.period, r.upto)}
  BY ReviewedVouchers DEF BooksAreVouchers
<1>2. PICK k \in DOMAIN ctx.current : ctx.current[k] = v
  BY <1>1 DEF Entries
<1>3. ctx.processed = r.processed
  BY DEF RuleContext
<1>4. ToSet(ctx.current) = Entries(ctx.current)
  BY DEF ToSet, Range, Entries
<1>5. SourceRecordSeen(ctx, v)
  <2>1. CASE InvoiceKey(n) \in r.processed
    BY <1>3, <2>1 DEF SourceRecordSeen, InvoiceKey
  <2>2. ASSUME NEW m \in In(r.period, r.upto),
               Before(books[m], books[n]), books[m].invoice = books[n].invoice
        PROVE  SourceRecordSeen(ctx, v)
    <3>1. books[m] \in Earlier(ctx, v)
      BY <1>1, <1>4, <2>2 DEF Earlier
    <3> QED
      BY <2>2, <3>1 DEF SourceRecordSeen
  <2> QED
    BY <2>1, <2>2
<1>6. v.invoice # ""
  OBVIOUS
<1>7. Entries(LEDGER_GROUP(ctx)) \subseteq Entries(raw)
  BY <1>1, RawFindings
<1> HIDE DEF ctx, v, raw
<1>8. Reported(validateDuplicateSourceRecords(ctx), "duplicate_source_record",
               "duplicate_source_record", v)
  BY <1>1, <1>2, <1>5, <1>6, DuplicateSourceRecords
<1>9. Entries(validateDuplicateSourceRecords(ctx)) \subseteq Entries(raw)
  BY <1>1, <1>7, LedgerGroup
<1>10. \E d \in Entries(raw) : d.type = "duplicate_source_record" /\ d.subject.voucher = n
  BY <1>1, <1>8, <1>9 DEF Reported
<1> QED
  BY <1>10 DEF Points, raw

-----------------------------------------------------------------------------
(* What the invariant says of the issues *)

\* A member that no other exceeds is the greatest, or the least.
LEMMA ExtremesAre ==
  ASSUME NEW S \in SUBSET Int, NEW x \in S
  PROVE  /\ (\A y \in S : y <= x) => Max(S) = x
         /\ (\A y \in S : x <= y) => Min(S) = x
<1>1. ASSUME \A y \in S : y <= x PROVE Max(S) = x
  <2>1. \E m \in S : \A y \in S : m >= y
    BY <1>1
  <2>2. Max(S) \in S /\ \A y \in S : Max(S) >= y
    BY <2>1 DEF Max
  <2>3. x \in Int /\ Max(S) \in Int /\ Max(S) <= x /\ Max(S) >= x
    BY <1>1, <2>2
  <2> QED
    BY <2>3
<1>2. ASSUME \A y \in S : x <= y PROVE Min(S) = x
  <2>1. \E m \in S : \A y \in S : m <= y
    BY <1>2
  <2>2. Min(S) \in S /\ \A y \in S : Min(S) <= y
    BY <2>1 DEF Min
  <2>3. x \in Int /\ Min(S) \in Int /\ Min(S) <= x /\ Min(S) >= x
    BY <1>2, <2>2
  <2> QED
    BY <2>3
<1> QED
  BY <1>1, <1>2

\* The findings of an issue.
FoundOf(raw, k) == {raw[n] : n \in {m \in DOMAIN raw : raw[m].key = k}}

\* An issue of a run stands for the findings with its key.
LEMMA IssuesAre ==
  ASSUME NEW r, Findings(r.raw), NEW k \in DOMAIN Issues(r)
  PROVE  /\ Stands(Issues(r)[k], FoundOf(r.raw, k))
         /\ Issues(r)[k].occurrences = Cardinality({n \in DOMAIN r.raw : r.raw[n].key = k})
         /\ \A d \in FoundOf(r.raw, k) : d \in Entries(r.raw) /\ d.key = k /\ Emitted(d)
<1> DEFINE raw == r.raw
           all == FoundOf(raw, k)
<1>1. DOMAIN raw = 1 .. Len(raw)
  BY DEF Findings
<1>2. Table(Issues(r), raw, Len(raw))
  BY ConsolidateIs DEF Issues
<1>3. /\ OfIssue(raw, Len(raw), k) = all
      /\ Indices(raw, Len(raw), k) = {n \in DOMAIN raw : raw[n].key = k}
  BY <1>1 DEF OfIssue, Indices, FoundOf
<1>4. \A d \in all : d \in Entries(raw) /\ d.key = k /\ Emitted(d)
  BY DEF Findings, Entries, FoundOf
<1> HIDE DEF all
<1> QED
  BY <1>2, <1>3, <1>4 DEF Table, all

\* There is an issue for each key.
LEMMA KeysAre ==
  ASSUME NEW r, Findings(r.raw)
  PROVE  DOMAIN Issues(r) = {r.raw[n].key : n \in DOMAIN r.raw}
<1>1. DOMAIN r.raw = 1 .. Len(r.raw)
  BY DEF Findings
<1> QED
  BY <1>1, ConsolidateIs DEF Issues, Table

\* The table of issues keeps the worst of the findings (findings.ts).
LEMMA WorstIsKept ==
  ASSUME ReviewInv
  PROVE  MergeKeepsTheWorst
<1> SUFFICES ASSUME NEW w \in Reviewed
             PROVE  LET raw == run[w].raw
                        items == Issues(run[w])
                        Of(k) == {raw[n] : n \in {m \in DOMAIN raw : raw[m].key = k}}
                    IN  /\ DOMAIN items = {raw[n].key : n \in DOMAIN raw}
                        /\ \A k \in DOMAIN items :
                             /\ items[k].severity = Max({d.severity : d \in Of(k)})
                             /\ LevelRank[items[k].level] =
                                  Max({LevelRank[d.level] : d \in Of(k)})
                             /\ items[k].score = Min({d.score : d \in Of(k)})
                             /\ items[k].blocking <=> \E d \in Of(k) : isBlockingType(d.type)
                             /\ items[k].consultant <=> \E d \in Of(k) : d.consultant
                             /\ items[k].types = {d.type : d \in Of(k)}
                             /\ items[k].occurrences =
                                  Cardinality({n \in DOMAIN raw : raw[n].key = k})
  BY DEF MergeKeepsTheWorst
<1> DEFINE raw == run[w].raw
           items == Issues(run[w])
           Of(k) == {raw[n] : n \in {m \in DOMAIN raw : raw[m].key = k}}
<1>1. Findings(raw)
  BY DEF ReviewInv, AllIsFound
<1>2. DOMAIN items = {raw[n].key : n \in DOMAIN raw}
  BY <1>1, KeysAre
<1>3. ASSUME NEW k \in DOMAIN items
      PROVE  /\ items[k].severity = Max({d.severity : d \in Of(k)})
             /\ LevelRank[items[k].level] = Max({LevelRank[d.level] : d \in Of(k)})
             /\ items[k].score = Min({d.score : d \in Of(k)})
             /\ items[k].blocking <=> \E d \in Of(k) : isBlockingType(d.type)
             /\ items[k].consultant <=> \E d \in Of(k) : d.consultant
             /\ items[k].types = {d.type : d \in Of(k)}
             /\ items[k].occurrences = Cardinality({n \in DOMAIN raw : raw[n].key = k})
  <2> DEFINE item == items[k]
             all == FoundOf(raw, k)
             severities == {d.severity : d \in all}
             ranks == {LevelRank[d.level] : d \in all}
             scores == {d.score : d \in all}
  <2>1. /\ Stands(item, all)
        /\ item.occurrences = Cardinality({n \in DOMAIN raw : raw[n].key = k})
        /\ \A d \in all : Emitted(d)
    <3>1. PICK r : r = run[w]
      OBVIOUS
    <3>2. Findings(r.raw) /\ k \in DOMAIN Issues(r)
      BY <1>1, <1>3, <3>1
    <3>3. /\ Stands(Issues(r)[k], FoundOf(r.raw, k))
          /\ Issues(r)[k].occurrences = Cardinality({n \in DOMAIN r.raw : r.raw[n].key = k})
          /\ \A d \in FoundOf(r.raw, k) : Emitted(d)
      BY <3>2, IssuesAre
    <3> QED
      BY <3>1, <3>3
  <2> HIDE DEF item, all
  <2>2. /\ severities \in SUBSET Int /\ scores \in SUBSET Int /\ ranks \in SUBSET Int
    <3>1. \A d \in all : d.severity \in Int /\ d.score \in Int /\ LevelRank[d.level] \in Int
      BY <2>1 DEF Emitted, LevelRank, Levels
    <3> QED
      BY <3>1
  <2>3. /\ item.severity \in severities /\ \A s \in severities : s <= item.severity
        /\ LevelRank[item.level] \in ranks /\ \A s \in ranks : s <= LevelRank[item.level]
        /\ item.score \in scores /\ \A s \in scores : item.score <= s
    BY <2>1 DEF Stands
  <2> HIDE DEF severities, ranks, scores
  <2>4. Max(severities) = item.severity /\ Max(ranks) = LevelRank[item.level]
        /\ Min(scores) = item.score
    BY <2>2, <2>3, ExtremesAre
  <2>5. /\ item.blocking <=> \E d \in all : isBlockingType(d.type)
        /\ item.consultant <=> \E d \in all : d.consultant
        /\ item.types = {d.type : d \in all}
    BY <2>1 DEF Stands
  <2> QED
    BY <2>1, <2>4, <2>5 DEF severities, ranks, scores, all, item, FoundOf
<1> QED
  BY <1>2, <1>3

\* A blocking finding blocks in the issue it was merged into.
LEMMA WhatIsFoundBlocks ==
  ASSUME ReviewInv
  PROVE  WrongBlocks
<1> SUFFICES ASSUME NEW w \in Reviewed, NEW n \in Reviews(w), NEW c \in Wrong(run[w], books[n])
             PROVE  LET items == Issues(run[w])
                    IN  \E k \in DOMAIN items :
                          k[2] = c /\ items[k].subject.voucher = n /\ items[k].blocking
  BY DEF WrongBlocks, Reviews
<1> DEFINE raw == run[w].raw
           items == Issues(run[w])
<1>1. Findings(raw)
  BY DEF ReviewInv, AllIsFound
<1>2. PICK d \in Entries(raw) : isBlockingType(d.type) /\ d.key[2] = c /\ d.subject.voucher = n
  BY DEF ReviewInv, AllIsFound
<1>3. PICK m \in DOMAIN raw : raw[m] = d
  BY <1>2 DEF Entries
<1> DEFINE k == d.key
           all == FoundOf(raw, k)
<1>4. k \in DOMAIN items /\ d \in all
  BY <1>1, <1>3, KeysAre DEF FoundOf
<1>5. Stands(items[k], all) /\ \A e \in all : e.key = k /\ Emitted(e)
  BY <1>1, <1>4, IssuesAre
<1> HIDE DEF all, items
<1>6. items[k].blocking
  BY <1>2, <1>4, <1>5 DEF Stands
<1>7. PICK e \in all : items[k].subject = e.subject
  BY <1>5 DEF Stands
<1>8. items[k].subject.voucher = n
  BY <1>2, <1>4, <1>5, <1>7 DEF Emitted
<1> QED
  BY <1>2, <1>4, <1>6, <1>8 DEF items

\* The two properties that are parts of the invariant.
LEMMA TheRestFollows ==
  ASSUME ReviewInv
  PROVE  NoInvoiceTwiceUnseen /\ AutomaticEarned
<1>1. NoInvoiceTwiceUnseen
  BY DEF ReviewInv, OneIsFlagged, NoInvoiceTwiceUnseen
<1>2. AutomaticEarned
  BY DEF ReviewInv, OffersAreEarned, Earned, AutomaticEarned
<1> QED
  BY <1>1, <1>2

-----------------------------------------------------------------------------
(* The steps *)

\* Vouchers are only ever added.
BooksAreKept ==
  /\ BooksAreVouchers'
  /\ Len(books) <= Len(books')
  /\ \A n \in DOMAIN books : n \in DOMAIN books' /\ books'[n] = books[n]

\* Booking a voucher keeps those that are booked.
LEMMA BooksGrow ==
  ASSUME BooksAreVouchers, NEW v, IsVoucher(v), Book(v)
  PROVE  BooksAreKept
<1> DEFINE new == [id |-> Len(books) + 1, date |-> v.date, manual |-> v.manual,
                   file |-> v.file, invoice |-> v.invoice, sale |-> v.sale,
                   supplier |-> v.supplier, rows |-> v.rows]
           X == Entries(books) \cup {new}
<1>1. /\ books \in Seq(Entries(books)) /\ Len(books) \in Nat
      /\ DOMAIN books = 1 .. Len(books)
      /\ \A n \in DOMAIN books : IsVoucher(books[n]) /\ books[n].id = n
  BY DEF BooksAreVouchers
<1>2. books' = Append(books, new)
  BY DEF Book
<1>3. new.id = Len(books) + 1 /\ IsVoucher(new)
  BY DEF IsVoucher
<1> HIDE DEF new
<1>4. books \in Seq(X)
  BY <1>1
<1>5. /\ books' \in Seq(X) /\ Len(books') = Len(books) + 1
      /\ DOMAIN books' = (1 .. Len(books)) \cup {Len(books) + 1}
      /\ \A n \in 1 .. Len(books) : books'[n] = books[n]
      /\ books'[Len(books) + 1] = new
  <2> HIDE DEF X
  <2>1. new \in X
    BY DEF X
  <2> QED
    BY <1>1, <1>2, <1>4, <2>1
<1>6. Entries(books') = X
  BY <1>1, <1>5 DEF Entries
<1>7. \A n \in DOMAIN books' : IsVoucher(books'[n]) /\ books'[n].id = n
  BY <1>1, <1>3, <1>5
<1>8. BooksAreVouchers'
  BY <1>5, <1>6, <1>7 DEF BooksAreVouchers
<1> QED
  BY <1>1, <1>5, <1>8 DEF BooksAreKept

\* So does leaving the books alone.
LEMMA BooksStay ==
  ASSUME BooksAreVouchers, books' = books
  PROVE  BooksAreKept
<1>1. BooksAreVouchers'
  BY DEF BooksAreVouchers
<1>2. Len(books) \in Nat
  BY DEF BooksAreVouchers
<1> QED
  BY <1>1, <1>2 DEF BooksAreKept

\* What a run has in front of it does not change when vouchers are added.
LEMMA InStays ==
  ASSUME BooksAreVouchers, BooksAreKept, NEW period, NEW upto \in Nat, upto <= Len(books)
  PROVE  In(period, upto)' = In(period, upto) /\ In(period, upto) \subseteq DOMAIN books
<1>1. Len(books) \in Nat /\ DOMAIN books = 1 .. Len(books)
  BY DEF BooksAreVouchers
<1>2. \A n \in 1 .. upto : n \in DOMAIN books /\ books'[n] = books[n]
  BY <1>1 DEF BooksAreKept
<1> QED
  BY <1>2 DEF In

\* Nothing but the books, the lock, the offers and the booked keys changes.
LEMMA RunsStay ==
  ASSUME ReviewInv, BooksAreKept, lock' \in Nat, processed \subseteq processed',
         UNCHANGED <<run, filed>>
  PROVE  /\ RunsAreRuns' /\ AllIsFound' /\ KeysAreRecorded' /\ KeysArePointedOut'
         /\ ReadWhatWasFiled' /\ OneReadTheOther' /\ OneIsFlagged'
<1>1. /\ BooksAreVouchers /\ RunsAreRuns
      /\ run' = run /\ filed' = filed
      /\ \A n \in DOMAIN books : n \in DOMAIN books' /\ books'[n] = books[n]
      /\ Len(books) <= Len(books') /\ Len(books) \in Nat /\ Len(books') \in Nat
  BY DEF ReviewInv, BooksAreKept, BooksAreVouchers
<1>2. \A w \in Workers : IsRun(run[w])
  BY <1>1 DEF RunsAreRuns
<1>3. ASSUME NEW w \in Workers
      PROVE  Reviews(w)' = Reviews(w) /\ Reviews(w) \subseteq DOMAIN books
  <2>1. run[w].upto \in Nat /\ run[w].upto <= Len(books)
    BY <1>2 DEF IsRun
  <2>2. PICK p, u : p = run[w].period /\ u = run[w].upto
    OBVIOUS
  <2>3. In(p, u)' = In(p, u) /\ In(p, u) \subseteq DOMAIN books
    BY <1>1, <2>1, <2>2, InStays
  <2>4. Reviews(w)' = In(p, u)'
    BY <1>1, <2>2 DEF Reviews, In
  <2> QED
    BY <2>2, <2>3, <2>4 DEF Reviews
<1>4. Reviewed' = Reviewed /\ Reviewing' = Reviewing
      /\ Reviewed \subseteq Workers /\ Reviewing \subseteq Workers
  BY <1>1 DEF Reviewed, Reviewing
<1>5. \A n \in DOMAIN books : InvoiceKey(n)' = InvoiceKey(n)
  BY <1>1 DEF InvoiceKey
<1>6. \A w, n : PointedOut(w, n)' <=> PointedOut(w, n)
  BY <1>1 DEF PointedOut
<1>7. RunsAreRuns'
  <2>1. ASSUME NEW w \in Workers PROVE IsRun(run[w])'
    BY <1>1, <1>2 DEF IsRun
  <2> QED
    BY <1>1, <2>1 DEF RunsAreRuns
<1>8. AllIsFound'
  BY <1>1, <1>3, <1>4 DEF ReviewInv, AllIsFound
<1>9. KeysAreRecorded'
  BY <1>1, <1>3, <1>4, <1>5 DEF ReviewInv, KeysAreRecorded
<1>10. KeysArePointedOut'
  <2>1. ASSUME NEW w \in Reviewed, NEW n \in Reviews(w), books'[n].invoice # ""
        PROVE  /\ InvoiceKey(n)' \in run'[w].processed => PointedOut(w, n)'
               /\ \A m \in Reviews(w) :
                    m # n /\ books'[m].invoice = books'[n].invoice =>
                      PointedOut(w, m)' \/ PointedOut(w, n)'
    <3>1. n \in DOMAIN books /\ \A m \in Reviews(w) : books'[m] = books[m]
      BY <1>1, <1>3, <1>4
    <3>2. /\ InvoiceKey(n) \in run[w].processed => PointedOut(w, n)
          /\ \A m \in Reviews(w) :
               m # n /\ books[m].invoice = books[n].invoice =>
                 PointedOut(w, m) \/ PointedOut(w, n)
      BY <2>1, <3>1 DEF ReviewInv, KeysArePointedOut
    <3> QED
      BY <1>1, <1>5, <1>6, <3>1, <3>2
  <2> QED
    BY <1>3, <1>4, <2>1 DEF KeysArePointedOut
<1>11. ReadWhatWasFiled' /\ OneReadTheOther'
  <2>1. \A w \in Reviewing : \A n \in Reviews(w) : books'[n] = books[n]
    BY <1>1, <1>3, <1>4
  <2>2. \A e \in filed : books'[e.voucher] = books[e.voucher]
    BY <1>1 DEF ReviewInv, KeysAreRecorded
  <2>3. \A w \in Reviewing : \A n \in Reviews(w) : InvoiceKey(n)' = InvoiceKey(n)
    BY <1>3, <1>4, <1>5
  <2>4. ASSUME NEW w \in Reviewing, NEW n \in Reviews(w), NEW e \in filed, n # e.voucher,
               books'[n].invoice # "", books'[n].invoice = books'[e.voucher].invoice,
               ~run'[w].overlapped, ~e.overlapped
        PROVE  InvoiceKey(n)' \in run'[w].processed \/ e.flagged
    <3>1. n \in DOMAIN books
      BY <1>3, <1>4
    <3>2. InvoiceKey(n) \in run[w].processed \/ e.flagged
      BY <1>1, <2>1, <2>2, <2>4, <3>1 DEF ReviewInv, ReadWhatWasFiled
    <3> QED
      BY <1>1, <2>3, <3>2
  <2>5. ASSUME NEW w \in Reviewing, NEW u \in Reviewing, NEW n \in Reviews(w),
               NEW m \in Reviews(u), w # u, n # m,
               books'[n].invoice # "", books'[n].invoice = books'[m].invoice,
               ~run'[w].overlapped, ~run'[u].overlapped
        PROVE  InvoiceKey(n)' \in run'[w].processed \/ InvoiceKey(n)' \in run'[u].processed
    <3>1. InvoiceKey(n) \in run[w].processed \/ InvoiceKey(n) \in run[u].processed
      BY <1>1, <2>1, <2>5 DEF ReviewInv, OneReadTheOther
    <3> QED
      BY <1>1, <2>3, <3>1
  <2>6. ReadWhatWasFiled'
    BY <1>1, <1>3, <1>4, <2>4 DEF ReadWhatWasFiled
  <2>7. OneReadTheOther'
    <3> SUFFICES ASSUME NEW w \in Reviewing', NEW u \in Reviewing', NEW n \in Reviews(w)',
                        NEW m \in Reviews(u)', w # u, n # m,
                        books'[n].invoice # "", books'[n].invoice = books'[m].invoice,
                        ~run'[w].overlapped, ~run'[u].overlapped
                 PROVE  \/ InvoiceKey(n)' \in run'[w].processed
                        \/ InvoiceKey(n)' \in run'[u].processed
      BY DEF OneReadTheOther
    <3>1. w \in Reviewing /\ u \in Reviewing /\ n \in Reviews(w) /\ m \in Reviews(u)
      BY <1>3, <1>4
    <3> QED
      BY <2>5, <3>1
  <2> QED
    BY <2>6, <2>7
<1>12. OneIsFlagged'
  BY <1>1 DEF ReviewInv, OneIsFlagged, KeysAreRecorded
<1> QED
  BY <1>7, <1>8, <1>9, <1>10, <1>11, <1>12

\* A worker starts a run, or is done with one.
Leaves(w, r) ==
  /\ w \in Workers /\ IsRun(r) /\ r.pc \in {"idle", "loaded"}
  /\ r.pc # "idle" => r.period \in Nat \ {0}
  /\ run' = [run EXCEPT ![w] = r]
  /\ books' = books /\ lock' = lock /\ processed' = processed

\* A worker that starts or ends a run leaves the other runs alone.
LEMMA OthersStay ==
  ASSUME ReviewInv, NEW w, NEW r, Leaves(w, r)
  PROVE  /\ Reviewed' = Reviewed \ {w} /\ Reviewing' = Reviewing \ {w}
         /\ run'[w] = r
         /\ \A u \in Workers \ {w} :
              /\ run'[u] = run[u] /\ Reviews(u)' = Reviews(u)
              /\ \A n : PointedOut(u, n)' <=> PointedOut(u, n)
         /\ \A n : InvoiceKey(n)' = InvoiceKey(n)
<1>1. DOMAIN run = Workers
  BY DEF ReviewInv, RunsAreRuns
<1>2. run'[w] = r /\ \A u \in Workers \ {w} : run'[u] = run[u]
  BY <1>1 DEF Leaves
<1>3. ASSUME NEW u \in Workers \ {w}
      PROVE  Reviews(u)' = Reviews(u) /\ \A n : PointedOut(u, n)' <=> PointedOut(u, n)
  <2>1. run'[u] = run[u] /\ books' = books
    BY <1>2, <1>3 DEF Leaves
  <2> QED
    BY <2>1 DEF Reviews, In, PointedOut
<1>4. \A n : InvoiceKey(n)' = InvoiceKey(n)
  BY DEF Leaves, InvoiceKey
<1>5. Reviewed' = Reviewed \ {w} /\ Reviewing' = Reviewing \ {w}
  BY <1>2 DEF Leaves, Reviewed, Reviewing
<1> QED
  BY <1>2, <1>3, <1>4, <1>5

\* What holds of the runs holds without the one that ends.
LEMMA RunLeaves ==
  ASSUME ReviewInv, NEW w, NEW r, Leaves(w, r)
  PROVE  /\ BooksAreVouchers' /\ RunsAreRuns' /\ AllIsFound'
         /\ KeysArePointedOut' /\ OneReadTheOther'
         /\ filed' = filed => KeysAreRecorded' /\ ReadWhatWasFiled' /\ OneIsFlagged'
<1>1. /\ BooksAreVouchers /\ RunsAreRuns
      /\ books' = books /\ lock' = lock /\ processed' = processed
  BY DEF ReviewInv, Leaves
<1>2. /\ Reviewed' = Reviewed \ {w} /\ Reviewing' = Reviewing \ {w}
      /\ Reviewed \subseteq Workers /\ Reviewing \subseteq Workers /\ w \in Workers
      /\ run'[w] = r
      /\ \A u \in Workers \ {w} :
           /\ run'[u] = run[u] /\ Reviews(u)' = Reviews(u)
           /\ \A n : PointedOut(u, n)' <=> PointedOut(u, n)
      /\ \A n : InvoiceKey(n)' = InvoiceKey(n)
  BY OthersStay DEF Reviewed, Reviewing, Leaves
<1>3. BooksAreVouchers'
  BY <1>1 DEF BooksAreVouchers
<1>4. RunsAreRuns'
  <2>1. ASSUME NEW u \in Workers
        PROVE  IsRun(run[u])' /\ (run'[u].pc # "idle" => run'[u].period \in Nat \ {0})
    <3>1. CASE u = w
      <4>1. IsRun(r) /\ (r.pc # "idle" => r.period \in Nat \ {0})
        BY DEF Leaves
      <4> QED
        BY <1>1, <1>2, <3>1, <4>1 DEF IsRun
    <3>2. CASE u # w
      <4>1. run'[u] = run[u] /\ IsRun(run[u])
            /\ (run[u].pc # "idle" => run[u].period \in Nat \ {0})
        BY <1>1, <1>2, <3>2 DEF RunsAreRuns
      <4> QED
        BY <1>1, <4>1 DEF IsRun
    <3> QED
      BY <3>1, <3>2
  <2>2. DOMAIN run' = Workers /\ lock' \in Nat
    BY <1>1 DEF RunsAreRuns, Leaves
  <2> QED
    BY <2>1, <2>2 DEF RunsAreRuns
<1>5. AllIsFound'
  <2>1. ASSUME NEW u \in Reviewed \ {w}
        PROVE  /\ Findings(run'[u].raw)
               /\ \A n \in Reviews(u)' : \A c \in Wrong(run'[u], books'[n]) :
                    \E d \in Entries(run'[u].raw) :
                      isBlockingType(d.type) /\ d.key[2] = c /\ d.subject.voucher = n
    BY <1>1, <1>2, <2>1 DEF ReviewInv, AllIsFound
  <2> QED
    BY <1>2, <2>1 DEF AllIsFound
<1>6. KeysArePointedOut'
  <2>1. ASSUME NEW u \in Reviewed', NEW n \in Reviews(u)', books'[n].invoice # ""
        PROVE  /\ InvoiceKey(n)' \in run'[u].processed => PointedOut(u, n)'
               /\ \A m \in Reviews(u)' :
                    m # n /\ books'[m].invoice = books'[n].invoice =>
                      PointedOut(u, m)' \/ PointedOut(u, n)'
    <3>1. u \in Reviewed /\ u \in Workers \ {w} /\ n \in Reviews(u) /\ books[n].invoice # ""
      BY <1>1, <1>2, <2>1
    <3>2. /\ InvoiceKey(n) \in run[u].processed => PointedOut(u, n)
          /\ \A m \in Reviews(u) :
               m # n /\ books[m].invoice = books[n].invoice =>
                 PointedOut(u, m) \/ PointedOut(u, n)
      BY <3>1 DEF ReviewInv, KeysArePointedOut
    <3> QED
      BY <1>1, <1>2, <3>1, <3>2
  <2> QED
    BY <2>1 DEF KeysArePointedOut
<1>7. OneReadTheOther'
  <2> SUFFICES ASSUME NEW v \in Reviewing', NEW u \in Reviewing', NEW n \in Reviews(v)',
                      NEW m \in Reviews(u)', v # u, n # m,
                      books'[n].invoice # "", books'[n].invoice = books'[m].invoice,
                      ~run'[v].overlapped, ~run'[u].overlapped
               PROVE  \/ InvoiceKey(n)' \in run'[v].processed
                      \/ InvoiceKey(n)' \in run'[u].processed
    BY DEF OneReadTheOther
  <2>1. /\ v \in Reviewing /\ u \in Reviewing /\ n \in Reviews(v) /\ m \in Reviews(u)
        /\ run'[v] = run[v] /\ run'[u] = run[u]
    BY <1>2
  <2>2. InvoiceKey(n) \in run[v].processed \/ InvoiceKey(n) \in run[u].processed
    BY <1>1, <2>1 DEF ReviewInv, OneReadTheOther
  <2> QED
    BY <1>2, <2>1, <2>2
<1>8. ASSUME filed' = filed
      PROVE  KeysAreRecorded' /\ ReadWhatWasFiled' /\ OneIsFlagged'
  <2>1. KeysAreRecorded'
    <3>1. \A u \in Reviewed' : \A n \in Reviews(u)' :
            books'[n].invoice # "" => InvoiceKey(n)' \in processed'
      BY <1>1, <1>2 DEF ReviewInv, KeysAreRecorded
    <3>2. \A e \in filed' :
            /\ e.voucher \in DOMAIN books'
            /\ books'[e.voucher].invoice # "" => InvoiceKey(e.voucher)' \in processed'
      BY <1>1, <1>2, <1>8 DEF ReviewInv, KeysAreRecorded
    <3> QED
      BY <3>1, <3>2 DEF KeysAreRecorded
  <2>2. ReadWhatWasFiled'
    <3> SUFFICES ASSUME NEW u \in Reviewing', NEW n \in Reviews(u)', NEW e \in filed',
                        n # e.voucher, books'[n].invoice # "",
                        books'[n].invoice = books'[e.voucher].invoice,
                        ~run'[u].overlapped, ~e.overlapped
                 PROVE  InvoiceKey(n)' \in run'[u].processed \/ e.flagged
      BY DEF ReadWhatWasFiled
    <3>1. /\ u \in Reviewing /\ n \in Reviews(u) /\ e \in filed
          /\ run'[u] = run[u]
      BY <1>2, <1>8
    <3>2. InvoiceKey(n) \in run[u].processed \/ e.flagged
      BY <1>1, <3>1 DEF ReviewInv, ReadWhatWasFiled
    <3> QED
      BY <1>2, <3>1, <3>2
  <2>3. OneIsFlagged'
    BY <1>1, <1>8 DEF ReviewInv, OneIsFlagged
  <2> QED
    BY <2>1, <2>2, <2>3
<1> QED
  BY <1>3, <1>4, <1>5, <1>6, <1>7, <1>8

\* A worker without a run.
LEMMA IdleIs ==
  ASSUME BooksAreVouchers
  PROVE  IsRun(Idle) /\ Idle.pc = "idle"
<1>1. Len(books) \in Nat
  BY DEF BooksAreVouchers
<1> QED
  BY <1>1 DEF IsRun, Idle, RunFields

\* Step 1 loads numbers of vouchers that are booked.
LEMMA AgentReadinessKeeps ==
  ASSUME ReviewInv, NEW w \in Workers, NEW period \in Periods, AgentReadiness(w, period)
  PROVE  ReviewInv'
<1> DEFINE locked == {p \in History(period) : lock # 0 /\ periodEnd(p) <= lock}
           Copies(p) == In(p, Len(books)) \cap cache
           Fetched(p) == IF p \in locked /\ Copies(p) # {} THEN Copies(p) ELSE In(p, Len(books))
           history == UNION {Fetched(p) : p \in History(period)}
           r == [Idle EXCEPT !.pc = "loaded", !.period = period, !.lock = lock,
                             !.upto = Len(books), !.id = runs + 1, !.history = history]
<1>1. /\ run' = [run EXCEPT ![w] = r]
      /\ UNCHANGED <<books, lock, processed, offers, filed>>
  BY DEF AgentReadiness
<1>2. Len(books) \in Nat /\ DOMAIN books = 1 .. Len(books) /\ lock \in Nat
  BY DEF ReviewInv, BooksAreVouchers, RunsAreRuns
<1>3. history \subseteq DOMAIN books
  <2>1. \A p : Fetched(p) \subseteq DOMAIN books
    BY <1>2 DEF In
  <2> HIDE DEF Fetched
  <2> QED
    BY <2>1
<1> HIDE DEF history
<1>4. /\ DOMAIN r = RunFields /\ r.pc = "loaded" /\ r.period = period /\ r.lock = lock
      /\ r.upto = Len(books) /\ r.history = history
  BY DEF Idle, RunFields
<1> HIDE DEF r
<1>5. IsRun(r) /\ r.pc = "loaded" /\ r.period \in Nat \ {0}
  BY <1>2, <1>3, <1>4, ReviewAssumption DEF IsRun
<1>6. Leaves(w, r) /\ filed' = filed
  BY <1>1, <1>5 DEF Leaves
<1>7. /\ BooksAreVouchers' /\ RunsAreRuns' /\ AllIsFound'
      /\ KeysArePointedOut' /\ OneReadTheOther'
      /\ KeysAreRecorded' /\ ReadWhatWasFiled' /\ OneIsFlagged'
  BY <1>6, RunLeaves
<1>8. OffersAreEarned'
  BY <1>1 DEF ReviewInv, OffersAreEarned
<1> QED
  BY <1>7, <1>8 DEF ReviewInv

\* A run that dies leaves what it recorded.
LEMMA CrashKeeps ==
  ASSUME ReviewInv, NEW w \in Workers, Crash(w)
  PROVE  ReviewInv'
<1>1. /\ run' = [run EXCEPT ![w] = Idle]
      /\ UNCHANGED <<books, lock, processed, offers, filed>>
  BY DEF Crash
<1>2. IsRun(Idle) /\ Idle.pc = "idle"
  BY IdleIs DEF ReviewInv
<1>3. Leaves(w, Idle) /\ filed' = filed
  BY <1>1, <1>2 DEF Leaves
<1>4. /\ BooksAreVouchers' /\ RunsAreRuns' /\ AllIsFound'
      /\ KeysArePointedOut' /\ OneReadTheOther'
      /\ KeysAreRecorded' /\ ReadWhatWasFiled' /\ OneIsFlagged'
  BY <1>3, RunLeaves
<1>5. OffersAreEarned'
  BY <1>1 DEF ReviewInv, OffersAreEarned
<1> QED
  BY <1>4, <1>5 DEF ReviewInv

\* Vouchers are entered, and a period is locked, in Fortnox.
LEMMA FortnoxKeeps ==
  ASSUME ReviewInv,
         \/ \E v \in Catalogue : Enter(v)
         \/ \E p \in Periods : Lock(p)
  PROVE  ReviewInv'
<1>1. BooksAreVouchers /\ lock \in Nat
  BY DEF ReviewInv, RunsAreRuns
<1>2. /\ BooksAreKept /\ lock' \in Nat
      /\ UNCHANGED <<processed, run, filed, offers>>
  <2>1. ASSUME NEW v \in Catalogue, Enter(v)
        PROVE  /\ BooksAreKept /\ lock' \in Nat
               /\ UNCHANGED <<processed, run, filed, offers>>
    <3>1. IsVoucher(v) /\ Book(v)
      BY <2>1, CatalogueAssumption DEF IsVoucher, Enter
    <3>2. BooksAreKept
      BY <1>1, <3>1, BooksGrow
    <3> QED
      BY <1>1, <2>1, <3>2 DEF Enter
  <2>2. ASSUME NEW p \in Periods, Lock(p)
        PROVE  /\ BooksAreKept /\ lock' \in Nat
               /\ UNCHANGED <<processed, run, filed, offers>>
    <3>1. periodEnd(p) \in Nat
      BY ReviewAssumption, DaysAssumption DEF periodEnd
    <3>2. BooksAreKept
      BY <1>1, <2>2, BooksStay DEF Lock
    <3> QED
      BY <2>2, <3>1, <3>2 DEF Lock
  <2> QED
    BY <2>1, <2>2
<1>3. /\ RunsAreRuns' /\ AllIsFound' /\ KeysAreRecorded' /\ KeysArePointedOut'
      /\ ReadWhatWasFiled' /\ OneReadTheOther' /\ OneIsFlagged'
  BY <1>2, RunsStay
<1>4. OffersAreEarned'
  BY <1>2 DEF ReviewInv, OffersAreEarned
<1> QED
  BY <1>2, <1>3, <1>4 DEF ReviewInv, BooksAreKept

\* A correction is booked as one more voucher, or found booked.
LEMMA SubmitKeeps ==
  ASSUME ReviewInv, NEW o \in offers, Submit(o)
  PROVE  ReviewInv'
<1> DEFINE Settle(status) == offers' = (offers \ {o}) \cup {[o EXCEPT !.status = status]}
           v == [date |-> o.body.date, manual |-> TRUE, file |-> FALSE,
                 invoice |-> "", sale |-> "", supplier |-> "", rows |-> o.body.rows]
<1>1. BooksAreVouchers /\ lock \in Nat
  BY DEF ReviewInv, RunsAreRuns
<1>2. /\ DOMAIN o = OfferFields
      /\ o.body.date \in Nat \ {0} /\ IsLedgerRows(o.body.rows)
      /\ Earned(o)
  BY DEF ReviewInv, OffersAreEarned
<1>3. lock' = lock /\ run' = run /\ filed' = filed
  BY DEF Submit
<1>4. (books' = books /\ processed' = processed)
      \/ (Book(v) /\ processed \subseteq processed')
  BY DEF Submit
<1>5. BooksAreKept /\ processed \subseteq processed'
  <2>1. CASE books' = books /\ processed' = processed
    BY <1>1, <2>1, BooksStay
  <2>2. CASE Book(v) /\ processed \subseteq processed'
    <3>1. IsVoucher(v)
      BY <1>2 DEF IsVoucher
    <3> HIDE DEF v
    <3> QED
      BY <1>1, <2>2, <3>1, BooksGrow
  <2> QED
    BY <1>4, <2>1, <2>2
<1>6. /\ RunsAreRuns' /\ AllIsFound' /\ KeysAreRecorded' /\ KeysArePointedOut'
      /\ ReadWhatWasFiled' /\ OneReadTheOther' /\ OneIsFlagged'
  BY <1>1, <1>3, <1>5, RunsStay
<1>7. \E status : Settle(status)
  BY DEF Submit
<1>8. OffersAreEarned'
  <2>1. PICK status : Settle(status)
    BY <1>7
  <2> DEFINE p == [o EXCEPT !.status = status]
  <2>2. /\ DOMAIN p = OfferFields /\ p.level = o.level /\ p.amount = o.amount
        /\ p.locked = o.locked /\ p.body = o.body
    BY <1>2 DEF OfferFields
  <2>3. offers' = (offers \ {o}) \cup {p}
    BY <2>1
  <2> HIDE DEF p
  <2>4. Earned(p)
    BY <1>2, <2>2 DEF Earned
  <2> QED
    BY <1>2, <2>2, <2>3, <2>4 DEF ReviewInv, OffersAreEarned
<1> QED
  BY <1>5, <1>6, <1>8 DEF ReviewInv, BooksAreKept

\* Step 7 reads the keys: of the runs that have recorded theirs it reads them,
\* and with the runs that have not it overlaps.
LEMMA ListKeeps ==
  ASSUME ReviewInv, NEW w \in Workers, ListProcessedSourceKeys(w)
  PROVE  ReviewInv'
<1> DEFINE others == {u \in Workers \ {w} : run[u].pc = "listed"}
<1>1. /\ run[w].pc = "loaded"
      /\ run' = [u \in Workers |->
           CASE u = w -> [run[u] EXCEPT !.pc = "listed", !.processed = processed,
                                        !.overlapped = others # {}]
             [] u \in others -> [run[u] EXCEPT !.overlapped = TRUE]
             [] OTHER -> run[u]]
      /\ UNCHANGED <<books, lock, cache, processed, offers, runs, filed>>
  BY DEF ListProcessedSourceKeys
<1>2. /\ BooksAreVouchers /\ RunsAreRuns
      /\ \A u \in Workers : IsRun(run[u]) /\ DOMAIN run[u] = RunFields
      /\ books' = books /\ lock' = lock /\ processed' = processed /\ filed' = filed
      /\ offers' = offers
  BY <1>1 DEF ReviewInv, RunsAreRuns, IsRun
<1>3. /\ run'[w].pc = "listed" /\ run'[w].processed = processed
      /\ run'[w].overlapped = (others # {})
      /\ run'[w].period = run[w].period /\ run'[w].upto = run[w].upto
      /\ run'[w].history = run[w].history /\ run'[w].lock = run[w].lock
      /\ DOMAIN run'[w] = RunFields
  <2>1. run'[w] = [run[w] EXCEPT !.pc = "listed", !.processed = processed,
                                 !.overlapped = others # {}]
    BY <1>1
  <2> HIDE DEF others
  <2> QED
    BY <1>2, <2>1 DEF RunFields
<1>4. ASSUME NEW u \in Workers \ {w}
      PROVE  /\ run'[u].pc = run[u].pc /\ run'[u].processed = run[u].processed
             /\ run'[u].period = run[u].period /\ run'[u].upto = run[u].upto
             /\ run'[u].history = run[u].history /\ run'[u].lock = run[u].lock
             /\ run'[u].raw = run[u].raw /\ DOMAIN run'[u] = RunFields
             /\ ~run'[u].overlapped => ~run[u].overlapped /\ run[u].pc # "listed"
  <2>1. CASE run[u].pc = "listed"
    <3>1. run'[u] = [run[u] EXCEPT !.overlapped = TRUE]
      BY <1>1, <1>4, <2>1
    <3> QED
      BY <1>2, <3>1 DEF RunFields
  <2>2. CASE run[u].pc # "listed"
    <3>1. run'[u] = run[u]
      BY <1>1, <1>4, <2>2
    <3> QED
      BY <1>2, <2>2, <3>1
  <2> QED
    BY <2>1, <2>2
<1> HIDE DEF others
<1>5. \A u \in Workers : Reviews(u)' = Reviews(u)
  BY <1>2, <1>3, <1>4 DEF Reviews, In
<1>6. /\ Reviewed' = Reviewed /\ w \notin Reviewed
      /\ Reviewing' = Reviewing \cup {w} /\ w \notin Reviewing
      /\ Reviewed \subseteq Workers /\ Reviewing \subseteq Workers
  <2>1. /\ run[w].pc = "loaded" /\ run'[w].pc = "listed"
        /\ \A u \in Workers \ {w} : run'[u].pc = run[u].pc
    BY <1>1, <1>3, <1>4
  <2>2. /\ Reviewed' = Reviewed /\ w \notin Reviewed
        /\ Reviewed \subseteq Workers /\ Reviewing \subseteq Workers
    BY <2>1 DEF Reviewed, Reviewing
  <2>3. w \in Reviewing' /\ w \notin Reviewing
    BY <2>1 DEF Reviewing
  <2>4. \A u \in Workers \ {w} : u \in Reviewing' <=> u \in Reviewing
    BY <2>1 DEF Reviewing
  <2>5. Reviewing' \subseteq Workers
    BY DEF Reviewing
  <2> QED
    BY <2>2, <2>3, <2>4, <2>5
<1>7. \A n : InvoiceKey(n)' = InvoiceKey(n)
  BY <1>2 DEF InvoiceKey
<1>8. BooksAreVouchers'
  BY <1>2 DEF BooksAreVouchers
<1>9. RunsAreRuns'
  <2>1. \A u \in Workers :
          IsRun(run[u])' /\ (run'[u].pc # "idle" => run'[u].period \in Nat \ {0})
    <3>1. \A u \in Workers : /\ run'[u].period = run[u].period
                             /\ run'[u].upto = run[u].upto
                             /\ run'[u].history = run[u].history
                             /\ run'[u].lock = run[u].lock
                             /\ DOMAIN run'[u] = RunFields
                             /\ run'[u].pc # "idle" => run[u].pc # "idle"
      BY <1>1, <1>3, <1>4
    <3> QED
      BY <1>2, <3>1 DEF RunsAreRuns, IsRun
  <2>2. DOMAIN run' = Workers /\ lock' \in Nat
    BY <1>1, <1>2 DEF RunsAreRuns
  <2> QED
    BY <2>1, <2>2 DEF RunsAreRuns
<1>10. AllIsFound'
  <2>1. ASSUME NEW u \in Reviewed
        PROVE  /\ Findings(run'[u].raw)
               /\ \A n \in Reviews(u)' : \A c \in Wrong(run'[u], books'[n]) :
                    \E d \in Entries(run'[u].raw) :
                      isBlockingType(d.type) /\ d.key[2] = c /\ d.subject.voucher = n
    <3>1. u \in Workers \ {w} /\ run'[u].raw = run[u].raw /\ run'[u].lock = run[u].lock
      BY <1>4, <1>6
    <3>2. \A n : Wrong(run'[u], books'[n]) = Wrong(run[u], books[n])
      BY <1>2, <3>1 DEF Wrong
    <3> QED
      BY <1>5, <3>1, <3>2 DEF ReviewInv, AllIsFound
  <2> QED
    BY <1>6, <2>1 DEF AllIsFound
<1>11. KeysAreRecorded'
  BY <1>2, <1>5, <1>6, <1>7 DEF ReviewInv, KeysAreRecorded
<1>12. KeysArePointedOut'
  <2>1. ASSUME NEW u \in Reviewed', NEW n \in Reviews(u)', books'[n].invoice # ""
        PROVE  /\ InvoiceKey(n)' \in run'[u].processed => PointedOut(u, n)'
               /\ \A m \in Reviews(u)' :
                    m # n /\ books'[m].invoice = books'[n].invoice =>
                      PointedOut(u, m)' \/ PointedOut(u, n)'
    <3>1. u \in Reviewed /\ u \in Workers \ {w} /\ n \in Reviews(u) /\ books[n].invoice # ""
      BY <1>2, <1>5, <1>6, <2>1
    <3>2. /\ InvoiceKey(n) \in run[u].processed => PointedOut(u, n)
          /\ \A m \in Reviews(u) :
               m # n /\ books[m].invoice = books[n].invoice =>
                 PointedOut(u, m) \/ PointedOut(u, n)
      BY <3>1 DEF ReviewInv, KeysArePointedOut
    <3>3. run'[u].raw = run[u].raw /\ run'[u].processed = run[u].processed
      BY <1>4, <3>1
    <3>4. \A m : PointedOut(u, m)' <=> PointedOut(u, m)
      BY <3>3 DEF PointedOut
    <3> QED
      BY <1>2, <1>5, <1>7, <3>1, <3>2, <3>3, <3>4
  <2> QED
    BY <2>1 DEF KeysArePointedOut
<1>13. ReadWhatWasFiled'
  <2> SUFFICES ASSUME NEW u \in Reviewing', NEW n \in Reviews(u)', NEW e \in filed',
                      n # e.voucher, books'[n].invoice # "",
                      books'[n].invoice = books'[e.voucher].invoice,
                      ~run'[u].overlapped, ~e.overlapped
               PROVE  InvoiceKey(n)' \in run'[u].processed \/ e.flagged
    BY DEF ReadWhatWasFiled
  <2>1. CASE u = w
    <3>1. InvoiceKey(e.voucher) \in processed
      BY <1>2 DEF ReviewInv, KeysAreRecorded
    <3>2. InvoiceKey(n) = InvoiceKey(e.voucher)
      BY <1>2 DEF InvoiceKey
    <3> QED
      BY <1>3, <1>7, <2>1, <3>1, <3>2
  <2>2. CASE u # w
    <3>1. /\ u \in Reviewing /\ u \in Workers \ {w} /\ n \in Reviews(u) /\ e \in filed
          /\ run'[u].processed = run[u].processed /\ ~run[u].overlapped
      BY <1>2, <1>4, <1>5, <1>6, <2>2
    <3>2. InvoiceKey(n) \in run[u].processed \/ e.flagged
      BY <1>2, <3>1 DEF ReviewInv, ReadWhatWasFiled
    <3> QED
      BY <1>7, <3>1, <3>2
  <2> QED
    BY <2>1, <2>2
<1>14. OneReadTheOther'
  \* What a reviewed run went through is on record when w reads.
  <2>1. ASSUME NEW u \in Reviewing', u # w, ~run'[u].overlapped,
               NEW n \in Reviews(u)', books'[n].invoice # ""
        PROVE  InvoiceKey(n) \in run'[w].processed
    <3>1. u \in Workers \ {w} /\ u \in Reviewing /\ n \in Reviews(u)
      BY <1>5, <1>6, <2>1
    <3>2. u \in Reviewed
      BY <1>4, <2>1, <3>1 DEF Reviewing, Reviewed
    <3>3. InvoiceKey(n) \in processed
      BY <1>2, <2>1, <3>1, <3>2 DEF ReviewInv, KeysAreRecorded
    <3> QED
      BY <1>3, <3>3
  <2> SUFFICES ASSUME NEW v \in Reviewing', NEW u \in Reviewing', NEW n \in Reviews(v)',
                      NEW m \in Reviews(u)', v # u, n # m,
                      books'[n].invoice # "", books'[n].invoice = books'[m].invoice,
                      ~run'[v].overlapped, ~run'[u].overlapped
               PROVE  \/ InvoiceKey(n)' \in run'[v].processed
                      \/ InvoiceKey(n)' \in run'[u].processed
    BY DEF OneReadTheOther
  <2>2. InvoiceKey(n) = InvoiceKey(m)
    BY <1>2 DEF InvoiceKey
  <2>3. CASE v = w
    BY <1>7, <2>1, <2>2, <2>3
  <2>4. CASE u = w
    BY <1>7, <2>1, <2>4
  <2>5. CASE v # w /\ u # w
    <3>1. /\ v \in Reviewing /\ v \in Workers \ {w} /\ n \in Reviews(v)
          /\ u \in Reviewing /\ u \in Workers \ {w} /\ m \in Reviews(u)
      BY <1>5, <1>6, <2>5
    <3>2. /\ run'[v].processed = run[v].processed /\ ~run[v].overlapped
          /\ run'[u].processed = run[u].processed /\ ~run[u].overlapped
      BY <1>4, <3>1
    <3>3. InvoiceKey(n) \in run[v].processed \/ InvoiceKey(n) \in run[u].processed
      BY <1>2, <3>1, <3>2 DEF ReviewInv, OneReadTheOther
    <3> QED
      BY <1>7, <3>2, <3>3
  <2> QED
    BY <2>3, <2>4, <2>5
<1>15. OneIsFlagged' /\ OffersAreEarned'
  BY <1>2 DEF ReviewInv, OneIsFlagged, OffersAreEarned
<1> QED
  BY <1>8, <1>9, <1>10, <1>11, <1>12, <1>13, <1>14, <1>15 DEF ReviewInv

\* Step 7 records the keys and the rules find what is wrong.
LEMMA RecordKeeps ==
  ASSUME ReviewInv, NEW w \in Workers, RecordProcessedSourceKeys(w)
  PROVE  ReviewInv'
<1> DEFINE keys == collectSourceKeys(RuleContext(run[w]))
           raw == rawFindings(run[w])
<1>1. /\ run[w].pc = "listed"
      /\ processed' = processed \cup keys
      /\ run' = [run EXCEPT ![w].pc = "reviewed", ![w].raw = raw]
      /\ UNCHANGED <<books, lock, cache, offers, runs, filed>>
  BY DEF RecordProcessedSourceKeys
<1>2. /\ BooksAreVouchers /\ RunsAreRuns /\ DOMAIN run = Workers
      /\ \A u \in Workers : IsRun(run[u]) /\ DOMAIN run[u] = RunFields
      /\ books' = books /\ lock' = lock /\ filed' = filed /\ offers' = offers
      /\ processed \subseteq processed'
  BY <1>1 DEF ReviewInv, RunsAreRuns, IsRun
<1> HIDE DEF keys, raw
<1>3. /\ run'[w].pc = "reviewed" /\ run'[w].raw = raw
      /\ run'[w].processed = run[w].processed /\ run'[w].overlapped = run[w].overlapped
      /\ run'[w].period = run[w].period /\ run'[w].upto = run[w].upto
      /\ run'[w].history = run[w].history /\ run'[w].lock = run[w].lock
      /\ DOMAIN run'[w] = RunFields
      /\ \A u \in Workers \ {w} : run'[u] = run[u]
  BY <1>1, <1>2 DEF RunFields
<1>4. \A u \in Workers : /\ run'[u].period = run[u].period /\ run'[u].upto = run[u].upto
                         /\ run'[u].history = run[u].history /\ run'[u].lock = run[u].lock
                         /\ run'[u].processed = run[u].processed
                         /\ run'[u].overlapped = run[u].overlapped
                         /\ DOMAIN run'[u] = RunFields
                         /\ run'[u].pc # "idle" => run[u].pc # "idle"
  BY <1>1, <1>2, <1>3
<1>5. \A u \in Workers : Reviews(u)' = Reviews(u)
  BY <1>2, <1>4 DEF Reviews, In
<1>6. /\ Reviewed' = Reviewed \cup {w} /\ w \notin Reviewed /\ w \in Reviewing
      /\ Reviewed \subseteq Workers /\ Reviewing \subseteq Workers
  BY <1>1, <1>3 DEF Reviewed, Reviewing
<1>7. Reviewing' = Reviewing
  <2>1. /\ run[w].pc = "listed" /\ run'[w].pc = "reviewed"
        /\ \A u \in Workers \ {w} : run'[u].pc = run[u].pc
    BY <1>1, <1>3
  <2> QED
    BY <2>1 DEF Reviewing
<1>8. \A n : InvoiceKey(n)' = InvoiceKey(n)
  BY <1>2 DEF InvoiceKey
<1>9. BooksAreVouchers'
  BY <1>2 DEF BooksAreVouchers
<1>10. RunsAreRuns'
  <2>1. \A u \in Workers :
          IsRun(run[u])' /\ (run'[u].pc # "idle" => run'[u].period \in Nat \ {0})
    BY <1>2, <1>4 DEF RunsAreRuns, IsRun
  <2>2. DOMAIN run' = Workers /\ lock' \in Nat
    BY <1>1, <1>2 DEF RunsAreRuns
  <2> QED
    BY <2>1, <2>2 DEF RunsAreRuns
\* What the step found.
<1>11. /\ IsContext(RuleContext(run[w]))
       /\ Entries(RuleContext(run[w]).current) = {books[n] : n \in Reviews(w)}
       /\ Reviews(w) \subseteq DOMAIN books
  BY <1>2, ReviewedVouchers DEF Reviews
<1>12. Findings(raw)
  BY <1>11, RawFindings DEF raw
<1>13. ASSUME NEW n \in Reviews(w), NEW c \in Wrong(run[w], books[n])
       PROVE  \E d \in Entries(raw) :
                isBlockingType(d.type) /\ d.key[2] = c /\ d.subject.voucher = n
  <2>1. Blocks(raw, c, books[n])
    BY <1>2, WhatIsWrong DEF Reviews, raw
  <2>2. books[n].id = n
    BY <1>2, <1>11 DEF BooksAreVouchers
  <2> QED
    BY <2>1, <2>2 DEF Blocks
<1>14. ASSUME NEW n \in Reviews(w), books[n].invoice # "",
              \/ InvoiceKey(n) \in run[w].processed
              \/ \E m \in Reviews(w) :
                   Before(books[m], books[n]) /\ books[m].invoice = books[n].invoice
       PROVE  PointedOut(w, n)'
  <2>1. \E d \in Entries(raw) : Points(d, n)
    BY <1>2, <1>14, DuplicatesArePointedOut DEF Reviews, raw
  <2> QED
    BY <1>3, <2>1 DEF PointedOut
<1>15. AllIsFound'
  <2>1. ASSUME NEW u \in Reviewed'
        PROVE  /\ Findings(run'[u].raw)
               /\ \A n \in Reviews(u)' : \A c \in Wrong(run'[u], books'[n]) :
                    \E d \in Entries(run'[u].raw) :
                      isBlockingType(d.type) /\ d.key[2] = c /\ d.subject.voucher = n
    <3>1. u \in Workers /\ run'[u].lock = run[u].lock
      BY <1>4, <1>6, <2>1
    <3>2. \A n : Wrong(run'[u], books'[n]) = Wrong(run[u], books[n])
      BY <1>2, <3>1 DEF Wrong
    <3>3. CASE u = w
      BY <1>3, <1>5, <1>12, <1>13, <3>2, <3>3
    <3>4. CASE u # w
      <4>1. u \in Reviewed /\ run'[u] = run[u]
        BY <1>3, <1>6, <2>1, <3>1, <3>4
      <4> QED
        BY <1>5, <3>1, <3>2, <4>1 DEF ReviewInv, AllIsFound
    <3> QED
      BY <3>3, <3>4
  <2> QED
    BY <2>1 DEF AllIsFound
<1>16. KeysAreRecorded'
  <2>1. ASSUME NEW n \in Reviews(w), books[n].invoice # ""
        PROVE  InvoiceKey(n) \in processed'
    <3>1. books[n] \in ToSet(RuleContext(run[w]).current)
      BY <1>11 DEF ToSet, Range, Entries
    <3>2. InvoiceKey(n) \in keys
      BY <2>1, <3>1 DEF keys, collectSourceKeys, InvoiceKey
    <3> QED
      BY <1>1, <3>2
  <2>2. \A u \in Reviewed' : \A n \in Reviews(u)' :
          books'[n].invoice # "" => InvoiceKey(n)' \in processed'
    BY <1>2, <1>5, <1>6, <1>8, <2>1 DEF ReviewInv, KeysAreRecorded
  <2>3. \A e \in filed' :
          /\ e.voucher \in DOMAIN books'
          /\ books'[e.voucher].invoice # "" => InvoiceKey(e.voucher)' \in processed'
    BY <1>2, <1>8 DEF ReviewInv, KeysAreRecorded
  <2> QED
    BY <2>2, <2>3 DEF KeysAreRecorded
<1>17. KeysArePointedOut'
  <2>1. ASSUME NEW u \in Reviewed', NEW n \in Reviews(u)', books'[n].invoice # ""
        PROVE  /\ InvoiceKey(n)' \in run'[u].processed => PointedOut(u, n)'
               /\ \A m \in Reviews(u)' :
                    m # n /\ books'[m].invoice = books'[n].invoice =>
                      PointedOut(u, m)' \/ PointedOut(u, n)'
    <3>1. u \in Workers /\ n \in Reviews(u) /\ books[n].invoice # ""
      BY <1>2, <1>5, <1>6, <2>1
    <3>2. CASE u = w
      <4>1. n \in Reviews(w) /\ Reviews(w)' = Reviews(w)
        BY <1>5, <3>1, <3>2
      <4>2. InvoiceKey(n)' \in run'[w].processed => PointedOut(w, n)'
        BY <1>3, <1>8, <1>14, <3>1, <4>1
      <4>3. ASSUME NEW m \in Reviews(w), m # n, books[m].invoice = books[n].invoice
            PROVE  PointedOut(w, m)' \/ PointedOut(w, n)'
        <5>1. Before(books[m], books[n]) \/ Before(books[n], books[m])
          <6>1. /\ books[m].id = m /\ books[n].id = n /\ m \in Nat /\ n \in Nat
                /\ books[m].date \in Nat /\ books[n].date \in Nat
            BY <1>2, <1>11, <4>1, <4>3 DEF BooksAreVouchers, IsVoucher
          <6> QED
            BY <4>3, <6>1 DEF Before
        <5>2. CASE Before(books[m], books[n])
          BY <1>14, <3>1, <4>1, <4>3, <5>2
        <5>3. CASE Before(books[n], books[m])
          BY <1>14, <3>1, <4>1, <4>3, <5>3
        <5> QED
          BY <5>1, <5>2, <5>3
      <4> QED
        BY <1>2, <3>2, <4>1, <4>2, <4>3
    <3>3. CASE u # w
      <4>1. u \in Reviewed /\ run'[u] = run[u]
        BY <1>3, <1>6, <2>1, <3>1, <3>3
      <4>2. /\ InvoiceKey(n) \in run[u].processed => PointedOut(u, n)
            /\ \A m \in Reviews(u) :
                 m # n /\ books[m].invoice = books[n].invoice =>
                   PointedOut(u, m) \/ PointedOut(u, n)
        BY <3>1, <4>1 DEF ReviewInv, KeysArePointedOut
      <4>3. \A m : PointedOut(u, m)' <=> PointedOut(u, m)
        BY <4>1 DEF PointedOut
      <4> QED
        BY <1>2, <1>5, <1>8, <3>1, <4>1, <4>2, <4>3
    <3> QED
      BY <3>2, <3>3
  <2> QED
    BY <2>1 DEF KeysArePointedOut
<1>18. ReadWhatWasFiled'
  <2> SUFFICES ASSUME NEW u \in Reviewing', NEW n \in Reviews(u)', NEW e \in filed',
                      n # e.voucher, books'[n].invoice # "",
                      books'[n].invoice = books'[e.voucher].invoice,
                      ~run'[u].overlapped, ~e.overlapped
               PROVE  InvoiceKey(n)' \in run'[u].processed \/ e.flagged
    BY DEF ReadWhatWasFiled
  <2>1. /\ u \in Reviewing /\ u \in Workers /\ n \in Reviews(u) /\ e \in filed
        /\ run'[u].processed = run[u].processed /\ ~run[u].overlapped
    BY <1>2, <1>4, <1>5, <1>6, <1>7
  <2>2. InvoiceKey(n) \in run[u].processed \/ e.flagged
    BY <1>2, <2>1 DEF ReviewInv, ReadWhatWasFiled
  <2> QED
    BY <1>8, <2>1, <2>2
<1>19. OneReadTheOther'
  <2> SUFFICES ASSUME NEW v \in Reviewing', NEW u \in Reviewing', NEW n \in Reviews(v)',
                      NEW m \in Reviews(u)', v # u, n # m,
                      books'[n].invoice # "", books'[n].invoice = books'[m].invoice,
                      ~run'[v].overlapped, ~run'[u].overlapped
               PROVE  \/ InvoiceKey(n)' \in run'[v].processed
                      \/ InvoiceKey(n)' \in run'[u].processed
    BY DEF OneReadTheOther
  <2>1. /\ v \in Reviewing /\ v \in Workers /\ n \in Reviews(v)
        /\ u \in Reviewing /\ u \in Workers /\ m \in Reviews(u)
    BY <1>5, <1>6, <1>7
  <2>2. /\ run'[v].processed = run[v].processed /\ ~run[v].overlapped
        /\ run'[u].processed = run[u].processed /\ ~run[u].overlapped
    BY <1>4, <2>1
  <2>3. InvoiceKey(n) \in run[v].processed \/ InvoiceKey(n) \in run[u].processed
    BY <1>2, <2>1, <2>2 DEF ReviewInv, OneReadTheOther
  <2> QED
    BY <1>8, <2>2, <2>3
<1>20. OneIsFlagged' /\ OffersAreEarned'
  BY <1>2 DEF ReviewInv, OneIsFlagged, OffersAreEarned
<1> QED
  BY <1>9, <1>10, <1>15, <1>16, <1>17, <1>18, <1>19, <1>20 DEF ReviewInv

-----------------------------------------------------------------------------
(* Corrections *)

\* The signals of an accrual.
LEMMA AccrueSignalsAre ==
  AccrueSignals \in Signals
<1>1. PICK s : s = NEUTRAL_SIGNALS
  OBVIOUS
<1>2. s \in Signals
  BY <1>1, NoRuleIs
<1>3. PICK t : t = [s EXCEPT !.documentCompleteness = 20]
  OBVIOUS
<1>4. t \in Signals
  BY <1>2, <1>3 DEF Signals
<1>5. [t EXCEPT !.amountConsistency = 60] \in Signals
  BY <1>4 DEF Signals
<1>6. AccrueSignals = [t EXCEPT !.amountConsistency = 60]
  BY <1>1, <1>3 DEF AccrueSignals
<1> QED
  BY <1>5, <1>6

\* The rows of a body move nothing between accounts.
Balances(rows) ==
  \A i \in DOMAIN rows :
    LET same == {j \in DOMAIN rows : rows[j].account = rows[i].account}
    IN  SumFunction([j \in same |-> Net(rows[j])]) = 0

\* A reclassification moves nothing between accounts.
LEMMA ReclassifyBalances ==
  ASSUME NEW ctx, NEW account, NEW amount \in Int
  PROVE  LET body == Reclassify(ctx, account, amount)
         IN  body.date = periodEnd(ctx.period) /\ IsLedgerRows(body.rows) /\ Balances(body.rows)
<1> DEFINE first == Row(account, amount, 0, DimensionRules[account])
           second == Row(account, 0, amount, "")
           rows == <<first, second>>
           body == Reclassify(ctx, account, amount)
<1>1. body.date = periodEnd(ctx.period) /\ body.rows = rows
  BY DEF Reclassify
<1>2. /\ first.account = account /\ first.debit = amount /\ first.credit = 0
      /\ second.account = account /\ second.debit = 0 /\ second.credit = amount
  BY DEF Row
<1> HIDE DEF first, second
<1>3. Len(rows) = 2 /\ DOMAIN rows = {1, 2} /\ rows[1] = first /\ rows[2] = second
  OBVIOUS
<1> HIDE DEF rows
<1>4. IsLedgerRows(rows)
  BY <1>2, <1>3 DEF IsLedgerRows
<1>5. Net(rows[1]) = amount /\ Net(rows[2]) = 0 - amount
  BY <1>2, <1>3 DEF Net
<1>6. Balances(rows)
  <2> SUFFICES ASSUME NEW i \in DOMAIN rows
               PROVE  SumFunction([j \in {j \in DOMAIN rows : rows[j].account = rows[i].account}
                                     |-> Net(rows[j])]) = 0
    BY DEF Balances
  <2> DEFINE same == {j \in DOMAIN rows : rows[j].account = rows[i].account}
             f == [j \in same |-> Net(rows[j])]
  <2>1. same = {1, 2}
    BY <1>2, <1>3
  <2>2. DOMAIN f = {1, 2} /\ f[1] = amount /\ f[2] = 0 - amount
    BY <1>5, <2>1
  <2> HIDE DEF f
  <2>3. SumFunction(f) = f[1] + f[2]
    BY <2>2, SumOfTwo
  <2>4. SumFunction(f) = 0
    BY <2>2, <2>3
  <2> QED
    BY <2>4 DEF f
<1> QED
  BY <1>1, <1>4, <1>6

\* An accrual is rows of whole amounts.
LEMMA AccrueIs ==
  ASSUME NEW ctx, NEW supplier, NEW account, NEW amount \in Int
  PROVE  LET body == Accrue(ctx, supplier, account, amount)
         IN  body.date = periodEnd(ctx.period) /\ IsLedgerRows(body.rows)
<1> DEFINE first == Row(account, amount, 0, "")
           second == Row(AccrualRules[<<supplier, account>>], 0, amount, "")
           rows == <<first, second>>
           body == Accrue(ctx, supplier, account, amount)
<1>1. body.date = periodEnd(ctx.period) /\ body.rows = rows
  BY DEF Accrue
<1>2. /\ first.debit = amount /\ first.credit = 0
      /\ second.debit = 0 /\ second.credit = amount
  BY DEF Row
<1> HIDE DEF first, second
<1>3. Len(rows) = 2 /\ DOMAIN rows = {1, 2} /\ rows[1] = first /\ rows[2] = second
  OBVIOUS
<1> HIDE DEF rows
<1>4. IsLedgerRows(rows)
  BY <1>2, <1>3 DEF IsLedgerRows
<1> QED
  BY <1>1, <1>4

\* A correction and its decision.
IsCorrection(ctx, p, amount) ==
  /\ p.body.date = periodEnd(ctx.period) /\ IsLedgerRows(p.body.rows)
  /\ p.decision.level = "automatic" =>
       /\ amount <= AutomationAmountLimit /\ ~isMaterial(amount)
       /\ ~isPeriodLocked(ctx) /\ Balances(p.body.rows)

\* A correction is automatic only when it is a reclassification within the
\* limits; an accrual never is, because its document is missing.
LEMMA CorrectionsAre ==
  ASSUME NEW ctx, NEW items, \A k \in DOMAIN items : items[k].amount \in Int,
         NEW k \in DOMAIN generateProposals(ctx, items)
  PROVE  /\ k \in DOMAIN items
         /\ IsCorrection(ctx, generateProposals(ctx, items)[k], Abs(items[k].amount))
<1> DEFINE item == items[k]
           amount == Abs(item.amount)
           locked == isPeriodLocked(ctx)
           reclassified ==
             [body |-> Reclassify(ctx, item.subject.account, amount),
              decision |-> Assess(amount, locked, NEUTRAL_SIGNALS, {})]
           accrued ==
             [body |-> Accrue(ctx, item.subject.supplier, item.subject.account, amount),
              decision |-> Assess(amount, locked, AccrueSignals, {"documentationMissing"})]
           p == generateProposals(ctx, items)[k]
<1>1. k \in DOMAIN items /\ (p = reclassified \/ p = accrued)
  BY DEF generateProposals
<1>2. amount \in Int /\ amount >= 0 /\ Abs(amount) = amount /\ locked \in BOOLEAN
  BY <1>1 DEF Abs, isPeriodLocked
<1> HIDE DEF amount, locked, p, item
<1>3. CASE p = reclassified
  <2>1. /\ p.body = Reclassify(ctx, item.subject.account, amount)
        /\ p.decision = Assess(amount, locked, NEUTRAL_SIGNALS, {})
    BY <1>3
  <2>2. NEUTRAL_SIGNALS \in Signals
    BY NoRuleIs
  <2>3. p.decision.level = "automatic" =>
          /\ ~locked /\ ~isMaterial(amount) /\ amount <= AutomationAmountLimit
    BY <1>2, <2>1, <2>2, AssessIs
  <2>4. /\ p.body.date = periodEnd(ctx.period) /\ IsLedgerRows(p.body.rows)
        /\ Balances(p.body.rows)
    BY <1>2, <2>1, ReclassifyBalances
  <2>5. IsCorrection(ctx, p, amount)
    BY <2>3, <2>4 DEF IsCorrection, locked
  <2> QED
    BY <1>1, <2>5 DEF p, amount, item
<1>4. CASE p = accrued
  <2>1. /\ p.body = Accrue(ctx, item.subject.supplier, item.subject.account, amount)
        /\ p.decision = Assess(amount, locked, AccrueSignals, {"documentationMissing"})
    BY <1>4
  <2>2. PICK shut : shut = {"documentationMissing"}
    OBVIOUS
  <2>3. Assess(amount, locked, AccrueSignals, shut).level # "automatic"
    BY <1>2, <2>2, AccrueSignalsAre, AssessIs
  <2>4. p.body.date = periodEnd(ctx.period) /\ IsLedgerRows(p.body.rows)
    BY <1>2, <2>1, AccrueIs
  <2>5. IsCorrection(ctx, p, amount)
    BY <2>1, <2>2, <2>3, <2>4 DEF IsCorrection
  <2> QED
    BY <1>1, <2>5 DEF p, amount, item
<1> QED
  BY <1>1, <1>3, <1>4

\* What step 10 offers is earned.
LEMMA OffersAre ==
  ASSUME NEW r, Findings(r.raw), r.period \in Nat \ {0}, NEW o \in Offers(r, Issues(r))
  PROVE  /\ DOMAIN o = OfferFields
         /\ o.body.date \in Nat \ {0} /\ IsLedgerRows(o.body.rows)
         /\ Earned(o)
<1> DEFINE ctx == RuleContext(r)
           items == Issues(r)
           proposals == generateProposals(ctx, items)
<1>1. \A k \in DOMAIN items : items[k].amount \in Int
  <2> SUFFICES ASSUME NEW k \in DOMAIN items PROVE items[k].amount \in Int
    OBVIOUS
  <2>1. /\ Stands(Issues(r)[k], FoundOf(r.raw, k))
        /\ \A d \in FoundOf(r.raw, k) : Emitted(d)
    BY IssuesAre
  <2> QED
    BY <2>1 DEF Stands, Emitted
<1>2. PICK k \in DOMAIN proposals :
        o = [run |-> r.id, issue |-> k, amount |-> Abs(items[k].amount),
             body |-> proposals[k].body, level |-> proposals[k].decision.level,
             locked |-> isPeriodLocked(ctx),
             status |-> StatusOf(r, proposals[k].body)]
  BY DEF Offers
<1>3. ctx.period = r.period
  BY DEF RuleContext
<1>4. periodEnd(r.period) \in Nat \ {0}
  BY DaysAssumption DEF periodEnd
<1> HIDE DEF items, ctx
<1>5. IsCorrection(ctx, proposals[k], Abs(items[k].amount))
  BY <1>1, <1>2, CorrectionsAre
<1> HIDE DEF proposals
<1>6. /\ DOMAIN o = OfferFields /\ o.amount = Abs(items[k].amount)
      /\ o.body = proposals[k].body /\ o.level = proposals[k].decision.level
      /\ o.locked = isPeriodLocked(ctx)
  BY <1>2 DEF OfferFields
<1>7. o.body.date \in Nat \ {0} /\ IsLedgerRows(o.body.rows)
  BY <1>3, <1>4, <1>5, <1>6 DEF IsCorrection
<1>8. Earned(o)
  BY <1>5, <1>6 DEF IsCorrection, Earned, Balances
<1> QED
  BY <1>6, <1>7, <1>8

-----------------------------------------------------------------------------
(* Filing *)

\* What a run points out reaches the issues, by class and voucher.
LEMMA PointedOutIsFlagged ==
  ASSUME NEW w, Findings(run[w].raw), NEW n, PointedOut(w, n)
  PROVE  LET items == Issues(run[w])
         IN  \E k \in DOMAIN items : /\ "duplicate_source_record" \in items[k].types
                                     /\ items[k].subject.voucher = n
<1> DEFINE raw == run[w].raw
           items == Issues(run[w])
<1>1. PICK d \in Entries(raw) : d.type = "duplicate_source_record" /\ d.subject.voucher = n
  BY DEF PointedOut, Points
<1>2. PICK m \in DOMAIN raw : raw[m] = d
  BY <1>1 DEF Entries
<1> DEFINE k == d.key
           all == FoundOf(raw, k)
<1>3. k \in DOMAIN items /\ d \in all
  BY <1>2, KeysAre DEF FoundOf
<1>4. PICK r : r = run[w]
  OBVIOUS
<1>5. Findings(r.raw) /\ k \in DOMAIN Issues(r)
  BY <1>3, <1>4
<1>6. /\ Stands(Issues(r)[k], FoundOf(r.raw, k))
      /\ \A e \in FoundOf(r.raw, k) : e.key = k /\ Emitted(e)
  BY <1>5, IssuesAre
<1>7. Stands(items[k], all) /\ \A e \in all : e.key = k /\ Emitted(e)
  BY <1>4, <1>6
<1> HIDE DEF all, items
<1>8. "duplicate_source_record" \in items[k].types
  BY <1>1, <1>3, <1>7 DEF Stands
<1>9. PICK e \in all : items[k].subject = e.subject
  BY <1>7 DEF Stands
<1>10. items[k].subject.voucher = n
  BY <1>1, <1>3, <1>7, <1>9 DEF Emitted
<1> QED
  BY <1>3, <1>8, <1>10 DEF items

\* Step 10 files what the run found.
LEMMA ConsolidateKeeps ==
  ASSUME ReviewInv, NEW w \in Workers, ConsolidateFindings(w)
  PROVE  ReviewInv'
<1> DEFINE items == Issues(run[w])
           duplicates == {items[k].subject.voucher :
             k \in {j \in DOMAIN items : "duplicate_source_record" \in items[j].types}}
           new == {[voucher |-> n, flagged |-> n \in duplicates,
                    overlapped |-> run[w].overlapped] : n \in Reviews(w)}
<1>1. /\ run[w].pc = "reviewed"
      /\ offers' = offers \cup Offers(run[w], items)
      /\ filed' = filed \cup new
      /\ run' = [run EXCEPT ![w] = Idle]
      /\ UNCHANGED <<books, lock, cache, processed, runs>>
  BY DEF ConsolidateFindings, Reviews
<1>2. /\ BooksAreVouchers /\ RunsAreRuns
      /\ books' = books /\ lock' = lock /\ processed' = processed
      /\ w \in Reviewed /\ w \in Reviewing
      /\ Findings(run[w].raw) /\ run[w].period \in Nat \ {0}
  BY <1>1 DEF ReviewInv, RunsAreRuns, AllIsFound, Reviewed, Reviewing
<1>3. Leaves(w, Idle)
  <2>1. IsRun(Idle) /\ Idle.pc = "idle"
    BY <1>2, IdleIs
  <2> QED
    BY <1>1, <2>1 DEF Leaves
<1>4. /\ BooksAreVouchers' /\ RunsAreRuns' /\ AllIsFound'
      /\ KeysArePointedOut' /\ OneReadTheOther'
  BY <1>3, RunLeaves
<1>5. /\ Reviewed' = Reviewed \ {w} /\ Reviewing' = Reviewing \ {w}
      /\ Reviewed \subseteq Workers /\ Reviewing \subseteq Workers
      /\ \A u \in Workers \ {w} : run'[u] = run[u] /\ Reviews(u)' = Reviews(u)
      /\ \A n : InvoiceKey(n)' = InvoiceKey(n)
  BY <1>3, OthersStay DEF Reviewed, Reviewing
<1>6. \A n : PointedOut(w, n) => n \in duplicates
  BY <1>2, PointedOutIsFlagged
<1> HIDE DEF duplicates
<1>7. \A e \in new : /\ e.voucher \in Reviews(w)
                     /\ e.overlapped = run[w].overlapped
                     /\ PointedOut(w, e.voucher) => e.flagged
  <2> SUFFICES ASSUME NEW e \in new
               PROVE  /\ e.voucher \in Reviews(w)
                      /\ e.overlapped = run[w].overlapped
                      /\ PointedOut(w, e.voucher) => e.flagged
    OBVIOUS
  <2>1. PICK n \in Reviews(w) : e = [voucher |-> n, flagged |-> n \in duplicates,
                                     overlapped |-> run[w].overlapped]
    OBVIOUS
  <2>2. PICK flagged : flagged = (n \in duplicates)
    OBVIOUS
  <2>3. e = [voucher |-> n, flagged |-> flagged, overlapped |-> run[w].overlapped]
    BY <2>1, <2>2
  <2>4. e.voucher = n /\ e.flagged = flagged /\ e.overlapped = run[w].overlapped
    BY <2>3
  <2>5. PointedOut(w, n) => flagged
    BY <1>6, <2>2
  <2> QED
    BY <2>4, <2>5
<1>8. Reviews(w) \subseteq DOMAIN books
  BY <1>2, ReviewedVouchers DEF RunsAreRuns, Reviews
<1> HIDE DEF new
<1>9. KeysAreRecorded'
  <2>1. \A u \in Reviewed' : \A n \in Reviews(u)' :
          books'[n].invoice # "" => InvoiceKey(n)' \in processed'
    BY <1>2, <1>5 DEF ReviewInv, KeysAreRecorded
  <2>2. \A e \in filed' :
          /\ e.voucher \in DOMAIN books'
          /\ books'[e.voucher].invoice # "" => InvoiceKey(e.voucher)' \in processed'
    BY <1>1, <1>2, <1>5, <1>7, <1>8 DEF ReviewInv, KeysAreRecorded
  <2> QED
    BY <2>1, <2>2 DEF KeysAreRecorded
\* A run that w and another one were at points out what w files now.
<1>10. ReadWhatWasFiled'
  <2> SUFFICES ASSUME NEW u \in Reviewing', NEW n \in Reviews(u)', NEW e \in filed',
                      n # e.voucher, books'[n].invoice # "",
                      books'[n].invoice = books'[e.voucher].invoice,
                      ~run'[u].overlapped, ~e.overlapped
               PROVE  InvoiceKey(n)' \in run'[u].processed \/ e.flagged
    BY DEF ReadWhatWasFiled
  <2>1. /\ u \in Reviewing /\ u # w /\ n \in Reviews(u)
        /\ run'[u] = run[u] /\ InvoiceKey(n)' = InvoiceKey(n)
    BY <1>5
  <2>2. CASE e \in filed
    <3>1. InvoiceKey(n) \in run[u].processed \/ e.flagged
      BY <1>2, <2>1, <2>2 DEF ReviewInv, ReadWhatWasFiled
    <3> QED
      BY <2>1, <3>1
  <2>3. CASE e \in new
    <3>1. /\ e.voucher \in Reviews(w) /\ ~run[w].overlapped
          /\ PointedOut(w, e.voucher) => e.flagged
      BY <1>7, <2>3
    <3>2. InvoiceKey(n) \in run[u].processed \/ InvoiceKey(n) \in run[w].processed
      BY <1>2, <2>1, <3>1 DEF ReviewInv, OneReadTheOther
    <3>3. InvoiceKey(e.voucher) = InvoiceKey(n)
      BY <1>2 DEF InvoiceKey
    <3>4. InvoiceKey(n) \in run[w].processed => PointedOut(w, e.voucher)
      BY <1>2, <3>1, <3>3 DEF ReviewInv, KeysArePointedOut
    <3> QED
      BY <2>1, <3>1, <3>2, <3>4
  <2> QED
    BY <1>1, <2>2, <2>3
<1>11. OneIsFlagged'
  <2>1. ASSUME NEW e \in new, NEW f \in filed, e.voucher # f.voucher,
               books[e.voucher].invoice # "",
               books[e.voucher].invoice = books[f.voucher].invoice,
               ~e.overlapped, ~f.overlapped
        PROVE  e.flagged \/ f.flagged
    <3>1. /\ e.voucher \in Reviews(w) /\ ~run[w].overlapped
          /\ PointedOut(w, e.voucher) => e.flagged
      BY <1>7, <2>1
    <3>2. InvoiceKey(e.voucher) \in run[w].processed \/ f.flagged
      BY <1>2, <2>1, <3>1 DEF ReviewInv, ReadWhatWasFiled
    <3>3. InvoiceKey(e.voucher) \in run[w].processed => PointedOut(w, e.voucher)
      BY <1>2, <2>1, <3>1 DEF ReviewInv, KeysArePointedOut
    <3> QED
      BY <3>1, <3>2, <3>3
  <2>2. ASSUME NEW e \in new, NEW f \in new, e.voucher # f.voucher,
               books[e.voucher].invoice # "",
               books[e.voucher].invoice = books[f.voucher].invoice
        PROVE  e.flagged \/ f.flagged
    <3>1. /\ e.voucher \in Reviews(w) /\ f.voucher \in Reviews(w)
          /\ PointedOut(w, e.voucher) => e.flagged
          /\ PointedOut(w, f.voucher) => f.flagged
      BY <1>7, <2>2
    <3>2. PointedOut(w, e.voucher) \/ PointedOut(w, f.voucher)
      BY <1>2, <2>2, <3>1 DEF ReviewInv, KeysArePointedOut
    <3> QED
      BY <3>1, <3>2
  <2> SUFFICES ASSUME NEW e \in filed', NEW f \in filed', e.voucher # f.voucher,
                      books'[e.voucher].invoice # "",
                      books'[e.voucher].invoice = books'[f.voucher].invoice,
                      ~e.overlapped, ~f.overlapped
               PROVE  e.flagged \/ f.flagged
    BY DEF OneIsFlagged
  <2>3. CASE e \in filed /\ f \in filed
    BY <1>2, <2>3 DEF ReviewInv, OneIsFlagged
  <2> QED
    BY <1>1, <1>2, <2>1, <2>2, <2>3
<1>12. OffersAreEarned'
  <2>1. \A o \in Offers(run[w], items) :
          /\ DOMAIN o = OfferFields
          /\ o.body.date \in Nat \ {0} /\ IsLedgerRows(o.body.rows)
          /\ Earned(o)
    <3>1. PICK r : r = run[w]
      OBVIOUS
    <3>2. /\ Findings(r.raw) /\ r.period \in Nat \ {0}
          /\ Offers(run[w], items) = Offers(r, Issues(r))
      BY <1>2, <3>1
    <3> HIDE DEF items
    <3> QED
      BY <3>2, OffersAre
  <2> HIDE DEF items
  <2> QED
    BY <1>1, <2>1 DEF ReviewInv, OffersAreEarned
<1> QED
  BY <1>4, <1>9, <1>10, <1>11, <1>12 DEF ReviewInv

-----------------------------------------------------------------------------
(* The theorems *)

\* The invariant holds of empty books.
LEMMA ReviewStarts ==
  Init => ReviewInv
<1> SUFFICES ASSUME Init PROVE ReviewInv
  OBVIOUS
<1>1. /\ books = << >> /\ lock = 0 /\ processed = {} /\ offers = {} /\ filed = {}
      /\ run = [w \in Workers |-> Idle]
  BY DEF Init
<1>2. BooksAreVouchers
  BY <1>1 DEF BooksAreVouchers, Entries
<1>3. RunsAreRuns
  <2>1. IsRun(Idle) /\ Idle.pc = "idle"
    BY <1>2, IdleIs
  <2> QED
    BY <1>1, <2>1 DEF RunsAreRuns
<1>4. Reviewed = {} /\ Reviewing = {}
  BY <1>1 DEF Reviewed, Reviewing, Idle
<1> QED
  BY <1>1, <1>2, <1>3, <1>4
  DEF ReviewInv, OffersAreEarned, AllIsFound, KeysAreRecorded, KeysArePointedOut,
      ReadWhatWasFiled, OneReadTheOther, OneIsFlagged

\* A step that changes nothing keeps it.
LEMMA ReviewStutters ==
  ASSUME ReviewInv, UNCHANGED vars
  PROVE  ReviewInv'
<1>1. /\ BooksAreVouchers /\ lock \in Nat /\ books' = books /\ lock' = lock
      /\ processed' = processed /\ offers' = offers /\ run' = run /\ filed' = filed
  BY DEF ReviewInv, RunsAreRuns, vars
<1>2. BooksAreKept
  BY <1>1, BooksStay
<1>3. /\ RunsAreRuns' /\ AllIsFound' /\ KeysAreRecorded' /\ KeysArePointedOut'
      /\ ReadWhatWasFiled' /\ OneReadTheOther' /\ OneIsFlagged'
  BY <1>1, <1>2, RunsStay
<1>4. OffersAreEarned'
  BY <1>1 DEF ReviewInv, OffersAreEarned
<1> QED
  BY <1>2, <1>3, <1>4 DEF ReviewInv, BooksAreKept

\* What the close runs of a client keep between them, whatever is entered and
\* whenever they run: the parts of ReviewInv.
THEOREM ReviewInvariant ==
  Spec => []ReviewInv
<1>1. ReviewInv /\ [Next]_vars => ReviewInv'
  <2> SUFFICES ASSUME ReviewInv, [Next]_vars PROVE ReviewInv'
    OBVIOUS
  <2>1. CASE \/ \E v \in Catalogue : Enter(v)
             \/ \E p \in Periods : Lock(p)
    BY <2>1, FortnoxKeeps
  <2>2. ASSUME NEW w \in Workers, NEW p \in Periods, AgentReadiness(w, p)
        PROVE  ReviewInv'
    BY <2>2, AgentReadinessKeeps
  <2>3. ASSUME NEW w \in Workers, ListProcessedSourceKeys(w)
        PROVE  ReviewInv'
    BY <2>3, ListKeeps
  <2>4. ASSUME NEW w \in Workers, RecordProcessedSourceKeys(w)
        PROVE  ReviewInv'
    BY <2>4, RecordKeeps
  <2>5. ASSUME NEW w \in Workers, ConsolidateFindings(w)
        PROVE  ReviewInv'
    BY <2>5, ConsolidateKeeps
  <2>6. ASSUME NEW w \in Workers, Crash(w)
        PROVE  ReviewInv'
    BY <2>6, CrashKeeps
  <2>7. ASSUME NEW o \in offers, Submit(o)
        PROVE  ReviewInv'
    BY <2>7, SubmitKeeps
  <2>8. CASE UNCHANGED vars
    BY <2>8, ReviewStutters
  <2> QED
    BY <2>1, <2>2, <2>3, <2>4, <2>5, <2>6, <2>7, <2>8 DEF Next
<1> QED
  BY ReviewStarts, <1>1, PTL DEF Spec

\* Consolidation (findings.ts) loses no observation and no severity: every
\* observation is in one issue, which is as severe, as restrictive, as blocking
\* and as unsure as the worst of its observations.
THEOREM WorstOfAnIssueIsKept ==
  Spec => []MergeKeepsTheWorst
BY ReviewInvariant, WorstIsKept, PTL

\* Whatever is wrong with a voucher of the period holds the period: the issue
\* about it blocks (analysis.ts, consolidate.ts).
THEOREM WhatIsWrongBlocks ==
  Spec => []WrongBlocks
BY ReviewInvariant, WhatIsFoundBlocks, PTL

\* An invoice booked by two vouchers is pointed out on one of them by the runs
\* that filed them, unless they overlapped (analysis.ts).
THEOREM DoubleInvoicesAreFlagged ==
  Spec => []NoInvoiceTwiceUnseen
<1>1. ReviewInv => NoInvoiceTwiceUnseen
  BY TheRestFollows
<1> QED
  BY ReviewInvariant, <1>1, PTL

\* A correction of level automatic is within the limits, was made in an open
\* period and moves nothing between accounts (proposals.ts, decision.ts).
THEOREM AutomaticIsEarned ==
  Spec => []AutomaticEarned
<1>1. ReviewInv => AutomaticEarned
  BY TheRestFollows
<1> QED
  BY ReviewInvariant, <1>1, PTL
=============================================================================
