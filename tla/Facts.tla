--------------------------------- MODULE Facts ---------------------------------
(***************************************************************************)
(* What the proofs need to know of natural numbers, maps and sums.         *)
(* Induction over data is written with sets: a set that has 0, and with a  *)
(* number the next, has them all.                                          *)
(***************************************************************************)
EXTENDS Maps, Integers, FiniteSetTheorems, WellFoundedInduction, TLAPS

-----------------------------------------------------------------------------
(* Natural numbers                                                         *)

LEMMA LeastNatural ==
  ASSUME NEW T \in SUBSET Nat, T # {}
  PROVE  \E x \in T : \A y \in T : x <= y
<1>1. PICK x \in T : \A y \in T : ~ (<<y, x>> \in OpToRel(<, Nat))
  BY NatLessThanWellFounded, WFMin
<1>2. \A y \in T : ~ (y < x) /\ x \in Nat /\ y \in Nat
  BY <1>1 DEF OpToRel
<1>3. \A y \in T : x <= y
  BY <1>2
<1> QED
  BY <1>3

LEMMA Induction ==
  ASSUME NEW n \in Nat, NEW S, 0 \in S, \A k \in 0 .. n - 1 : k \in S => k + 1 \in S
  PROVE  \A k \in 0 .. n : k \in S
<1> DEFINE T == {k \in 0 .. n : k \notin S}
<1> SUFFICES ASSUME T # {} PROVE FALSE
  OBVIOUS
<1>1. PICK x \in T : \A y \in T : x <= y
  <2>1. T \in SUBSET Nat
    OBVIOUS
  <2> HIDE DEF T
  <2> QED
    BY <2>1, LeastNatural
<1>2. x # 0 /\ x - 1 \in 0 .. n - 1 /\ x - 1 \notin T
  BY <1>1
<1>3. x - 1 \in S
  BY <1>2
<1> QED
  BY <1>2, <1>3

-----------------------------------------------------------------------------
(* Maps                                                                    *)

\* unordered_map::operator[]: the key of an inserted entry joins the others.
LEMMA InsertDomain ==
  ASSUME NEW map, NEW key, NEW entry
  PROVE  DOMAIN Insert(map, key, entry) = DOMAIN map \cup {key}
  BY DEF Insert

\* Its key maps to the entry.
LEMMA InsertKey ==
  ASSUME NEW map, NEW key, NEW entry
  PROVE  Insert(map, key, entry)[key] = entry
  BY DEF Insert

\* No other entry changes.
LEMMA InsertOther ==
  ASSUME NEW map, NEW key, NEW entry, NEW k \in DOMAIN map, k # key
  PROVE  Insert(map, key, entry)[k] = map[k]
  BY DEF Insert

\* unordered_map::erase: the key is gone.
LEMMA EraseDomain ==
  ASSUME NEW map, NEW key
  PROVE  DOMAIN Erase(map, key) = DOMAIN map \ {key}
  BY DEF Erase, Restrict

\* No other entry changes.
LEMMA EraseOther ==
  ASSUME NEW map, NEW key, NEW k \in DOMAIN map, k # key
  PROVE  Erase(map, key)[k] = map[k]
  BY DEF Erase, Restrict

\* A map of entries in a set stays one.
LEMMA InsertType ==
  ASSUME NEW S, NEW D, NEW map \in [D -> S], NEW key, NEW entry \in S
  PROVE  Insert(map, key, entry) \in [D \cup {key} -> S]
  BY DEF Insert

LEMMA EraseType ==
  ASSUME NEW S, NEW D, NEW map \in [D -> S], NEW key
  PROVE  Erase(map, key) \in [D \ {key} -> S]
  BY DEF Erase, Restrict

\* The empty map has no entry.
LEMMA EmptyMapDomain == DOMAIN EmptyMap = {}
  BY DEF EmptyMap

LEMMA EmptyMapType ==
  ASSUME NEW S
  PROVE  EmptyMap \in [{} -> S]
  BY DEF EmptyMap

-----------------------------------------------------------------------------
(* Sums                                                                    *)

\* The element a sum takes first.
One(s) == CHOOSE x \in s : TRUE

\* g[s] is the sum of f over s, for the subsets of a set with at most n elements.
SumsUpTo(g, f, S, n) ==
  g = [s \in {t \in SUBSET S : Cardinality(t) <= n} |->
         IF s = {} THEN 0 ELSE f[One(s)] + g[s \ {One(s)}]]

\* The function inside of SumFunctionOnSet.
IsSums(g, f, S) ==
  g = [s \in SUBSET S |->
         IF s = {} THEN 0 ELSE LET x == One(s) IN f[x] + g[s \ {x}]]

LEMMA Smaller ==
  ASSUME NEW s, IsFiniteSet(s), s # {}
  PROVE  /\ One(s) \in s
         /\ IsFiniteSet(s \ {One(s)})
         /\ Cardinality(s) \in Nat \ {0}
         /\ Cardinality(s \ {One(s)}) = Cardinality(s) - 1
<1> PICK c : c = One(s)
  OBVIOUS
<1>1. c \in s
  BY DEF One
<1>2. Cardinality(s) \in Nat /\ Cardinality(s) # 0
  BY FS_CardinalityType, FS_EmptySet
<1>3. IsFiniteSet(s \ {c}) /\ Cardinality(s \ {c}) = Cardinality(s) - 1
  BY <1>1, FS_RemoveElement
<1> QED
  BY <1>1, <1>2, <1>3

LEMMA SumsExist ==
  ASSUME NEW f, NEW S, IsFiniteSet(S)
  PROVE  \E g : IsSums(g, f, S)
<1> PICK n : n = Cardinality(S)
  OBVIOUS
<1>1. n \in Nat /\ \A s \in SUBSET S : IsFiniteSet(s) /\ Cardinality(s) \in 0 .. n
  BY FS_CardinalityType, FS_Subset
<1> DEFINE K == {k \in 0 .. n : \E g : SumsUpTo(g, f, S, k)}
<1>2. 0 \in K
  <2>1. SumsUpTo([s \in {t \in SUBSET S : Cardinality(t) <= 0} |-> 0], f, S, 0)
    <3>1. \A s \in SUBSET S : Cardinality(s) <= 0 => s = {}
      BY <1>1, FS_EmptySet
    <3> QED
      BY <3>1 DEF SumsUpTo
  <2> QED
    BY <1>1, <2>1
<1>3. ASSUME NEW k \in 0 .. n - 1, k \in K
      PROVE  k + 1 \in K
  <2>1. PICK g : SumsUpTo(g, f, S, k)
    BY <1>3
  <2> PICK D, E : /\ D = {t \in SUBSET S : Cardinality(t) <= k}
                  /\ E = {t \in SUBSET S : Cardinality(t) <= k + 1}
    OBVIOUS
  <2> DEFINE next(s) == IF s = {} THEN 0 ELSE f[One(s)] + g[s \ {One(s)}]
             h == [s \in E |-> next(s)]
  <2>2. \A s \in D : g[s] = next(s)
    BY <2>1 DEF SumsUpTo
  <2>3. D \subseteq E
    BY <1>1
  <2>4. \A s \in D : h[s] = g[s]
    BY <2>2, <2>3
  <2>5. \A s \in E : s # {} => s \ {One(s)} \in D
    BY <1>1, Smaller
  <2> HIDE DEF h
  <2>6. \A s \in E : next(s) = IF s = {} THEN 0
                               ELSE f[One(s)] + h[s \ {One(s)}]
    BY <2>4, <2>5
  <2>7. h = [s \in E |-> IF s = {} THEN 0 ELSE f[One(s)] + h[s \ {One(s)}]]
    BY <2>6 DEF h
  <2>8. SumsUpTo(h, f, S, k + 1)
    BY <2>7 DEF SumsUpTo
  <2>9. k + 1 \in 0 .. n /\ \E hh : SumsUpTo(hh, f, S, k + 1)
    BY <1>1, <2>8
  <2> QED
    BY <2>9
<1>4. n \in K
  <2> HIDE DEF K
  <2>1. \A k \in 0 .. n : k \in K
    BY <1>1, <1>2, <1>3, Induction
  <2> QED
    BY <1>1, <2>1
<1>5. PICK g : SumsUpTo(g, f, S, n)
  BY <1>4
<1>6. {t \in SUBSET S : Cardinality(t) <= n} = SUBSET S
  BY <1>1
<1>7. IsSums(g, f, S)
  BY <1>5, <1>6 DEF SumsUpTo, IsSums
<1> QED
  BY <1>7

\* Two sums of the same values agree, whatever the sets they were made for.
LEMMA SumsAgree ==
  ASSUME NEW f, NEW S, NEW g, IsFiniteSet(S), IsSums(g, f, S),
         NEW e, NEW T, NEW h, IsFiniteSet(T), IsSums(h, e, T),
         \A x \in S \cap T : f[x] = e[x]
  PROVE  \A s \in SUBSET (S \cap T) : g[s] = h[s]
<1> PICK n : n = Cardinality(S)
  OBVIOUS
<1>1. n \in Nat /\ \A s \in SUBSET S : IsFiniteSet(s) /\ Cardinality(s) \in 0 .. n
  BY FS_CardinalityType, FS_Subset
<1> DEFINE K == {k \in 0 .. n : \A s \in SUBSET (S \cap T) : Cardinality(s) <= k => g[s] = h[s]}
<1>2. \A s \in SUBSET (S \cap T) :
        /\ s = {} => g[s] = 0 /\ h[s] = 0
        /\ s # {} => /\ g[s] = f[One(s)] + g[s \ {One(s)}]
                     /\ h[s] = e[One(s)] + h[s \ {One(s)}]
  BY DEF IsSums
<1>3. 0 \in K
  <2>1. \A s \in SUBSET (S \cap T) : Cardinality(s) <= 0 => s = {}
    BY <1>1, FS_EmptySet
  <2>2. \A s \in SUBSET (S \cap T) : Cardinality(s) <= 0 => g[s] = h[s]
    BY <1>2, <2>1
  <2> QED
    BY <1>1, <2>2
<1>4. ASSUME NEW k \in 0 .. n - 1, k \in K
      PROVE  k + 1 \in K
  <2>1. ASSUME NEW s \in SUBSET (S \cap T), Cardinality(s) <= k + 1, s # {}
        PROVE  g[s] = h[s]
    <3> PICK c : c = One(s)
      OBVIOUS
    <3>1. c \in S \cap T /\ s \ {c} \in SUBSET (S \cap T) /\ Cardinality(s \ {c}) <= k
      BY <1>1, <2>1, Smaller
    <3>2. g[s \ {c}] = h[s \ {c}]
      BY <1>4, <3>1
    <3>3. g[s] = f[c] + g[s \ {c}] /\ h[s] = e[c] + h[s \ {c}]
      BY <1>2, <2>1
    <3> QED
      BY <3>1, <3>2, <3>3
  <2>2. \A s \in SUBSET (S \cap T) : Cardinality(s) <= k + 1 => g[s] = h[s]
    BY <1>2, <2>1
  <2> QED
    BY <1>1, <2>2
<1>5. \A k \in 0 .. n : k \in K
  <2> HIDE DEF K
  <2> QED
    BY <1>1, <1>3, <1>4, Induction
<1>6. n \in K
  BY <1>1, <1>5
<1> QED
  BY <1>1, <1>6

LEMMA SumIs ==
  ASSUME NEW f, NEW S, IsFiniteSet(S)
  PROVE  \E g : IsSums(g, f, S) /\ SumFunctionOnSet(f, S) = g[S]
<1> PICK g : g = CHOOSE iter : IsSums(iter, f, S)
  OBVIOUS
<1>1. IsSums(g, f, S)
  BY SumsExist
<1>2. SumFunctionOnSet(f, S) = g[S]
  BY DEF SumFunctionOnSet, FoldFunctionOnSet, MapThenFoldSet, IsSums, One
<1> QED
  BY <1>1, <1>2

\* The sum of nothing is 0.
LEMMA SumOfNone ==
  ASSUME NEW f
  PROVE  SumFunctionOnSet(f, {}) = 0
<1>1. IsFiniteSet({})
  BY FS_EmptySet
<1>2. PICK g : IsSums(g, f, {}) /\ SumFunctionOnSet(f, {}) = g[{}]
  BY <1>1, SumIs
<1> QED
  BY <1>2 DEF IsSums

\* A sum is one of its values and the sum of the others.
LEMMA SumOfSome ==
  ASSUME NEW f, NEW S, IsFiniteSet(S), S # {}
  PROVE  LET c == One(S)
         IN  SumFunctionOnSet(f, S) = f[c] + SumFunctionOnSet(f, S \ {c})
<1> PICK c : c = One(S)
  OBVIOUS
<1>1. c \in S /\ IsFiniteSet(S \ {c})
  BY Smaller
<1>2. PICK g : IsSums(g, f, S) /\ SumFunctionOnSet(f, S) = g[S]
  BY SumIs
<1>3. PICK h : IsSums(h, f, S \ {c}) /\ SumFunctionOnSet(f, S \ {c}) = h[S \ {c}]
  BY <1>1, SumIs
<1>4. g[S] = f[c] + g[S \ {c}]
  BY <1>2 DEF IsSums
<1>5. g[S \ {c}] = h[S \ {c}]
  BY <1>1, <1>2, <1>3, SumsAgree
<1> QED
  BY <1>2, <1>3, <1>4, <1>5

\* Sums of the same values are the same.
LEMMA SumOfSame ==
  ASSUME NEW f, NEW e, NEW S, IsFiniteSet(S), \A x \in S : f[x] = e[x]
  PROVE  SumFunctionOnSet(f, S) = SumFunctionOnSet(e, S)
<1>1. PICK g : IsSums(g, f, S) /\ SumFunctionOnSet(f, S) = g[S]
  BY SumIs
<1>2. PICK h : IsSums(h, e, S) /\ SumFunctionOnSet(e, S) = h[S]
  BY SumIs
<1>3. \A s \in SUBSET (S \cap S) : g[s] = h[s]
  BY <1>1, <1>2, SumsAgree
<1> QED
  BY <1>1, <1>2, <1>3

\* A sum of integers is one, and one more element adds its value.
LEMMA SumOfMore ==
  ASSUME NEW S, IsFiniteSet(S), NEW f, \A x \in S : f[x] \in Int
  PROVE  /\ SumFunctionOnSet(f, S) \in Int
         /\ \A x \in S : SumFunctionOnSet(f, S) = SumFunctionOnSet(f, S \ {x}) + f[x]
<1> PICK n : n = Cardinality(S)
  OBVIOUS
<1> DEFINE sum(s) == SumFunctionOnSet(f, s)
<1>1. n \in Nat /\ \A s \in SUBSET S : IsFiniteSet(s) /\ Cardinality(s) \in 0 .. n
  BY FS_CardinalityType, FS_Subset
<1> DEFINE K == {k \in 0 .. n : \A s \in SUBSET S : Cardinality(s) <= k =>
                   sum(s) \in Int /\ \A x \in s : sum(s) = sum(s \ {x}) + f[x]}
<1>2. \A s \in SUBSET S : s # {} => sum(s) = f[One(s)] + sum(s \ {One(s)})
  BY <1>1, SumOfSome
<1>3. sum({}) = 0
  BY SumOfNone
<1> HIDE DEF sum
<1>4. 0 \in K
  <2>1. \A s \in SUBSET S : Cardinality(s) <= 0 => s = {}
    BY <1>1, FS_EmptySet
  <2> QED
    BY <1>1, <1>3, <2>1
<1>5. ASSUME NEW k \in 0 .. n - 1, k \in K
      PROVE  k + 1 \in K
  <2>1. ASSUME NEW s \in SUBSET S, Cardinality(s) <= k + 1, s # {}
        PROVE  sum(s) \in Int /\ \A x \in s : sum(s) = sum(s \ {x}) + f[x]
    <3> PICK c : c = One(s)
      OBVIOUS
    <3>1. c \in s /\ sum(s) = f[c] + sum(s \ {c}) /\ f[c] \in Int
      BY <1>1, <1>2, <2>1, Smaller
    <3>2. \A x \in s : s \ {x} \in SUBSET S /\ Cardinality(s \ {x}) <= k
      BY <1>1, <2>1, FS_RemoveElement
    <3>3. \A x \in s : sum(s \ {x}) \in Int
      BY <1>5, <3>2
    <3>4. sum(s) \in Int
      BY <3>1, <3>3
    <3>5. ASSUME NEW x \in s, x # c
          PROVE  sum(s) = sum(s \ {x}) + f[x]
      <4> PICK t : t = (s \ {c}) \ {x}
        OBVIOUS
      <4>1. t = (s \ {x}) \ {c} /\ x \in s \ {c} /\ c \in s \ {x}
        BY <3>1, <3>5
      <4>2. sum(s \ {c}) = sum(t) + f[x] /\ sum(s \ {x}) = sum(t) + f[c]
        BY <1>5, <3>1, <3>2, <4>1
      <4>3. t \in SUBSET S /\ Cardinality(t) <= k
        <5>1. t \in SUBSET (s \ {x}) /\ t \in SUBSET S
          BY <4>1, <3>2
        <5>2. IsFiniteSet(s \ {x}) /\ Cardinality(s \ {x}) <= k
          BY <1>1, <3>2
        <5>3. Cardinality(t) <= Cardinality(s \ {x})
          BY <5>1, <5>2, FS_Subset
        <5>4. Cardinality(t) \in Int /\ Cardinality(s \ {x}) \in Int
          BY <1>1, <3>2, <5>1
        <5> QED
          BY <5>1, <5>2, <5>3, <5>4
      <4>4. sum(t) \in Int /\ f[x] \in Int
        BY <1>5, <4>3
      <4> QED
        BY <3>1, <4>2, <4>4
    <3>6. sum(s) = sum(s \ {c}) + f[c]
      BY <3>1, <3>3
    <3> QED
      BY <3>4, <3>5, <3>6
  <2>2. \A s \in SUBSET S : Cardinality(s) <= k + 1 =>
           sum(s) \in Int /\ \A x \in s : sum(s) = sum(s \ {x}) + f[x]
    <3> SUFFICES ASSUME NEW s \in SUBSET S, Cardinality(s) <= k + 1
                 PROVE  sum(s) \in Int /\ \A x \in s : sum(s) = sum(s \ {x}) + f[x]
      OBVIOUS
    <3>1. CASE s = {}
      BY <1>3, <3>1
    <3>2. CASE s # {}
      BY <2>1, <3>2
    <3> QED
      BY <3>1, <3>2
  <2> QED
    BY <1>1, <2>2
<1>6. \A k \in 0 .. n : k \in K
  <2> HIDE DEF K
  <2> QED
    BY <1>1, <1>4, <1>5, Induction
<1>7. n \in K
  BY <1>1, <1>6
<1>8. sum(S) \in Int /\ \A x \in S : sum(S) = sum(S \ {x}) + f[x]
  BY <1>1, <1>7
<1> QED
  BY <1>8 DEF sum

LEMMA SumOfAdded ==
  ASSUME NEW S, IsFiniteSet(S), NEW f, NEW e, \A x \in S : f[x] \in Int /\ e[x] = f[x],
         NEW y, y \notin S, e[y] \in Int
  PROVE  /\ SumFunctionOnSet(f, S) \in Int
         /\ SumFunctionOnSet(e, S \cup {y}) = SumFunctionOnSet(f, S) + e[y]
<1> PICK T : T = S \cup {y}
  OBVIOUS
<1>1. IsFiniteSet(T) /\ \A x \in T : e[x] \in Int
  BY FS_AddElement
<1>2. SumFunctionOnSet(e, T) = SumFunctionOnSet(e, T \ {y}) + e[y]
  BY <1>1, SumOfMore
<1>3. T \ {y} = S
  OBVIOUS
<1>4. SumFunctionOnSet(f, S) = SumFunctionOnSet(e, S) /\ SumFunctionOnSet(f, S) \in Int
  BY SumOfSame, SumOfMore
<1> QED
  BY <1>2, <1>3, <1>4

\* A sum over a part is bounded by a multiple of a sum over the whole when each value is.
LEMMA SumIsBounded ==
  ASSUME NEW T, IsFiniteSet(T), NEW S \in SUBSET T, NEW c \in Nat,
         NEW f, \A x \in S : f[x] \in Int,
         NEW w, \A x \in T : w[x] \in Nat,
         \A x \in S : f[x] <= c * w[x]
  PROVE  /\ SumFunctionOnSet(w, T) \in Nat
         /\ SumFunctionOnSet(f, S) <= c * SumFunctionOnSet(w, T)
<1> PICK n : n = Cardinality(T)
  OBVIOUS
<1> DEFINE part(s) == SumFunctionOnSet(f, s \cap S)
           whole(s) == SumFunctionOnSet(w, s)
           K == {k \in 0 .. n : \A s \in SUBSET T : Cardinality(s) <= k =>
                   part(s) \in Int /\ whole(s) \in Nat /\ part(s) <= c * whole(s)}
<1>1. n \in Nat /\ \A s \in SUBSET T : IsFiniteSet(s) /\ Cardinality(s) \in 0 .. n
  BY FS_CardinalityType, FS_Subset
<1>2. part({}) = 0 /\ whole({}) = 0
  <2>1. {} \cap S = {}
    OBVIOUS
  <2> QED
    BY <2>1, SumOfNone
<1>3. \A s \in SUBSET T : \A x \in s :
        /\ whole(s) = whole(s \ {x}) + w[x]
        /\ part(s) = IF x \in S THEN part(s \ {x}) + f[x] ELSE part(s \ {x})
  <2> SUFFICES ASSUME NEW s \in SUBSET T, NEW x \in s
               PROVE  /\ whole(s) = whole(s \ {x}) + w[x]
                      /\ part(s) = IF x \in S THEN part(s \ {x}) + f[x] ELSE part(s \ {x})
    OBVIOUS
  <2>1. \A y \in s : w[y] \in Int
    OBVIOUS
  <2>2. whole(s) = whole(s \ {x}) + w[x]
    BY <1>1, <2>1, SumOfMore
  <2>3. CASE x \notin S
    <3>1. s \cap S = (s \ {x}) \cap S
      BY <2>3
    <3> QED
      BY <2>2, <2>3, <3>1
  <2>4. CASE x \in S
    <3>1. (s \cap S) \ {x} = (s \ {x}) \cap S /\ x \in s \cap S /\ s \cap S \in SUBSET T
      BY <2>4
    <3>2. SumFunctionOnSet(f, s \cap S) = SumFunctionOnSet(f, (s \cap S) \ {x}) + f[x]
      BY <1>1, <3>1, SumOfMore
    <3> QED
      BY <2>2, <2>4, <3>1, <3>2
  <2> QED
    BY <2>3, <2>4
<1> HIDE DEF part, whole
<1>4. 0 \in K
  <2>1. \A s \in SUBSET T : Cardinality(s) <= 0 => s = {}
    BY <1>1, FS_EmptySet
  <2>2. c * 0 = 0
    OBVIOUS
  <2>3. \A s \in SUBSET T : Cardinality(s) <= 0 =>
          part(s) \in Int /\ whole(s) \in Nat /\ part(s) <= c * whole(s)
    <3> SUFFICES ASSUME NEW s \in SUBSET T, Cardinality(s) <= 0
                 PROVE  part(s) \in Int /\ whole(s) \in Nat /\ part(s) <= c * whole(s)
      OBVIOUS
    <3>1. part(s) = 0 /\ whole(s) = 0
      BY <1>2, <2>1
    <3> QED
      BY <2>2, <3>1
  <2> QED
    BY <1>1, <2>3
<1>5. ASSUME NEW k \in 0 .. n - 1, k \in K
      PROVE  k + 1 \in K
  <2>1. ASSUME NEW s \in SUBSET T, Cardinality(s) <= k + 1, s # {}
        PROVE  part(s) \in Int /\ whole(s) \in Nat /\ part(s) <= c * whole(s)
    <3> PICK x : x = One(s)
      OBVIOUS
    <3>1. x \in s /\ s \ {x} \in SUBSET T /\ Cardinality(s \ {x}) <= k
      BY <1>1, <2>1, Smaller
    <3> PICK p, q, v, y : p = part(s \ {x}) /\ q = whole(s \ {x}) /\ v = w[x] /\ y = f[x]
      OBVIOUS
    <3>2. p \in Int /\ q \in Nat /\ p <= c * q /\ v \in Nat
      BY <1>5, <3>1
    <3>3. whole(s) = q + v /\ part(s) = IF x \in S THEN p + y ELSE p
      BY <1>3, <3>1
    <3>4. x \in S => y \in Int /\ y <= c * v
      OBVIOUS
    <3>5. c * (q + v) = c * q + c * v /\ c * v \in Nat /\ c * q \in Nat
      BY <3>2
    <3>6. whole(s) \in Nat /\ c * whole(s) = c * q + c * v
      BY <3>2, <3>3, <3>5
    <3>7. part(s) \in Int /\ part(s) <= c * q + c * v
      BY <3>2, <3>3, <3>4, <3>5
    <3> QED
      BY <3>6, <3>7
  <2>2. \A s \in SUBSET T : Cardinality(s) <= k + 1 =>
           part(s) \in Int /\ whole(s) \in Nat /\ part(s) <= c * whole(s)
    <3> SUFFICES ASSUME NEW s \in SUBSET T, Cardinality(s) <= k + 1
                 PROVE  part(s) \in Int /\ whole(s) \in Nat /\ part(s) <= c * whole(s)
      OBVIOUS
    <3>1. CASE s = {}
      BY <1>2, <3>1
    <3>2. CASE s # {}
      BY <2>1, <3>2
    <3> QED
      BY <3>1, <3>2
  <2> QED
    BY <1>1, <2>2
<1>6. \A k \in 0 .. n : k \in K
  <2> HIDE DEF K
  <2> QED
    BY <1>1, <1>4, <1>5, Induction
<1>7. n \in K
  BY <1>1, <1>6
<1>8. part(T) \in Int /\ whole(T) \in Nat /\ part(T) <= c * whole(T)
  BY <1>1, <1>7
<1>9. T \cap S = S
  OBVIOUS
<1> QED
  BY <1>8, <1>9 DEF part, whole

\* A sum of natural numbers is one.
LEMMA SumIsNat ==
  ASSUME NEW S, IsFiniteSet(S), NEW f, \A x \in S : f[x] \in Nat
  PROVE  SumFunctionOnSet(f, S) \in Nat
<1>1. \A x \in {} : f[x] \in Int /\ f[x] <= 0 * f[x]
  OBVIOUS
<1> QED
  BY <1>1, SumIsBounded

LEMMA SumOfZeros ==
  ASSUME NEW S, IsFiniteSet(S), NEW f, \A x \in S : f[x] = 0
  PROVE  SumFunctionOnSet(f, S) = 0
<1>1. S \in SUBSET S /\ 0 \in Nat /\ \A x \in S : f[x] \in Int /\ f[x] \in Nat /\ f[x] <= 0 * f[x]
  OBVIOUS
<1>2. SumFunctionOnSet(f, S) \in Nat
  BY <1>1, SumIsNat
<1>3. SumFunctionOnSet(f, S) <= 0 * SumFunctionOnSet(f, S)
  BY <1>1, SumIsBounded
<1> QED
  BY <1>2, <1>3

\* A sum over a set is the sum of those over its parts: g says in which part an element is.
LEMMA SumByParts ==
  ASSUME NEW X, IsFiniteSet(X), NEW f, \A x \in X : f[x] \in Int,
         NEW S, IsFiniteSet(S), NEW g \in [X -> S]
  PROVE  SumFunctionOnSet([c \in S |-> SumFunctionOnSet(f, {x \in X : g[x] = c})], S)
           = SumFunctionOnSet(f, X)
<1> DEFINE n == Cardinality(X)
           part(s, c) == {x \in s : g[x] = c}
           sums(s) == [c \in S |-> SumFunctionOnSet(f, part(s, c))]
           K == {k \in 0 .. n : \A s \in SUBSET X : Cardinality(s) <= k =>
                   SumFunctionOnSet(sums(s), S) = SumFunctionOnSet(f, s)}
<1>1. n \in Nat /\ \A s \in SUBSET X : IsFiniteSet(s) /\ Cardinality(s) \in Nat /\ Cardinality(s) <= n
  BY FS_CardinalityType, FS_Subset
<1>2. \A s \in SUBSET X : \A c \in S : sums(s)[c] \in Int
  <2> TAKE s \in SUBSET X
  <2> TAKE c \in S
  <2>1. IsFiniteSet(part(s, c)) /\ \A x \in part(s, c) : f[x] \in Int
    BY <1>1, FS_Subset
  <2>2. SumFunctionOnSet(f, part(s, c)) \in Int
    BY <2>1, SumOfMore
  <2> QED
    BY <2>2
<1>3. 0 \in K
  <2> SUFFICES ASSUME NEW s \in SUBSET X, Cardinality(s) <= 0
               PROVE  SumFunctionOnSet(sums(s), S) = SumFunctionOnSet(f, s)
    BY <1>1
  <2>1. s = {}
    BY <1>1, FS_EmptySet
  <2>2. \A c \in S : part(s, c) = {}
    BY <2>1
  <2>3. \A c \in S : sums(s)[c] = 0
    BY <2>2, SumOfNone
  <2> HIDE DEF sums
  <2> QED
    BY <2>1, <2>3, SumOfZeros, SumOfNone
<1>4. ASSUME NEW k \in 0 .. n - 1, k \in K
      PROVE  k + 1 \in K
  <2> SUFFICES ASSUME NEW s \in SUBSET X, Cardinality(s) <= k + 1, s # {}
               PROVE  SumFunctionOnSet(sums(s), S) = SumFunctionOnSet(f, s)
    <3>1. \A s \in SUBSET X : s = {} => Cardinality(s) <= k
      BY <1>1, FS_EmptySet
    <3> QED
      BY <1>1, <1>4, <3>1
  <2> PICK y \in s : TRUE
    OBVIOUS
  <2> DEFINE t == s \ {y}
             d == g[y]
  <2>1. d \in S /\ t \in SUBSET X /\ Cardinality(t) = Cardinality(s) - 1 /\ IsFiniteSet(s)
    BY <1>1, FS_RemoveElement
  <2>2. SumFunctionOnSet(sums(t), S) = SumFunctionOnSet(f, t)
    BY <1>1, <1>4, <2>1
  <2>3. SumFunctionOnSet(f, s) = SumFunctionOnSet(f, t) + f[y] /\ SumFunctionOnSet(f, t) \in Int /\ f[y] \in Int
    <3>1. \A x \in s : f[x] \in Int
      OBVIOUS
    <3>2. IsFiniteSet(t) /\ \A x \in t : f[x] \in Int
      BY <1>1, <2>1
    <3> HIDE DEF t
    <3>3. SumFunctionOnSet(f, t) \in Int
      BY <3>2, SumOfMore
    <3> QED
      BY <2>1, <3>1, <3>3, SumOfMore DEF t
  <2>4. sums(s)[d] = sums(t)[d] + f[y]
    <3>1. part(t, d) = part(s, d) \ {y} /\ y \in part(s, d)
      OBVIOUS
    <3>2. IsFiniteSet(part(s, d)) /\ \A x \in part(s, d) : f[x] \in Int
      BY <2>1, FS_Subset
    <3>3. SumFunctionOnSet(f, part(s, d)) = SumFunctionOnSet(f, part(s, d) \ {y}) + f[y]
      <4> HIDE DEF part, t, d
      <4> QED
        BY <3>1, <3>2, SumOfMore
    <3>4. sums(s)[d] = SumFunctionOnSet(f, part(s, d)) /\ sums(t)[d] = SumFunctionOnSet(f, part(t, d))
      BY <2>1
    <3> HIDE DEF part, t, d, sums
    <3> QED
      BY <3>1, <3>3, <3>4
  <2>5. \A c \in S \ {d} : sums(s)[c] = sums(t)[c]
    <3>1. \A c \in S \ {d} : part(s, c) = part(t, c)
      OBVIOUS
    <3> QED
      BY <3>1
  <2>6. (\A c \in S : sums(s)[c] \in Int) /\ (\A c \in S : sums(t)[c] \in Int)
    BY <1>2, <2>1
  <2> HIDE DEF sums, t, d
  <2>7. SumFunctionOnSet(sums(s), S) = SumFunctionOnSet(sums(s), S \ {d}) + sums(s)[d]
    BY <2>1, <2>6, SumOfMore
  <2>8. SumFunctionOnSet(sums(t), S) = SumFunctionOnSet(sums(t), S \ {d}) + sums(t)[d]
    BY <2>1, <2>6, SumOfMore
  <2>9. IsFiniteSet(S \ {d})
    BY FS_Subset
  <2>10. SumFunctionOnSet(sums(s), S \ {d}) = SumFunctionOnSet(sums(t), S \ {d})
    BY <2>5, <2>9, SumOfSame
  <2>11. SumFunctionOnSet(sums(t), S \ {d}) \in Int /\ sums(t)[d] \in Int
    BY <2>1, <2>6, <2>9, SumOfMore
  <2> QED
    BY <2>2, <2>3, <2>4, <2>7, <2>8, <2>10, <2>11
<1>5. \A k \in 0 .. n : k \in K
  <2> HIDE DEF K, n
  <2> QED
    BY <1>1, <1>3, <1>4, Induction
<1>6. n \in K
  BY <1>1, <1>5
<1>7. SumFunctionOnSet(sums(X), S) = SumFunctionOnSet(f, X)
  BY <1>1, <1>6
<1> QED
  BY <1>7
=============================================================================
