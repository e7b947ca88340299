----------------------------- MODULE FiniteSums -----------------------------
(***************************************************************************)
(* Facts about sums of integers over finite sets, MapThenSumSet of the     *)
(* community modules, for the proofs about tables of buckets: a sum may be *)
(* taken apart in any order, and changes by what its terms change.         *)
(***************************************************************************)
EXTENDS Integers, FiniteSetsExt, FiniteSetTheorems, TLAPS

(* A non-empty set of naturals has a least element. *)
LEMMA LeastNat ==
  ASSUME NEW T, T \subseteq Nat, T # {}
  PROVE  \E m \in T : \A k \in T : m <= k
<1> DEFINE R == {ss \in Nat \X Nat : ss[1] < ss[2]}
<1>0. IsWellFoundedOn(R, Nat)
  BY NatLessThanWellFounded, Zenon DEF OpToRel
<1>1. PICK m \in T : \A k \in T : <<k, m>> \notin R
  BY <1>0, WFMin, Zenon
<1>2. ASSUME NEW k \in T, k < m
      PROVE  <<k, m>> \in R
  <2>1. <<k, m>> \in Nat \X Nat /\ <<k, m>>[1] = k /\ <<k, m>>[2] = m
    OBVIOUS
  <2> QED
    BY <1>2, <2>1
<1> HIDE DEF R
<1>3. \A k \in T : ~(k < m)
  BY <1>1, <1>2, Zenon
<1>4. \A k \in T : m <= k
  BY <1>3
<1> QED
  BY <1>4, Zenon

(* Induction up to n, for a set. *)
LEMMA UpTo ==
  ASSUME NEW n \in Nat, NEW S, 0 \in S,
         \A m \in Nat : m \in S /\ m + 1 <= n => m + 1 \in S
  PROVE  \A m \in 0 .. n : m \in S
<1> DEFINE T == {m \in 0 .. n : m \notin S}
<1> SUFFICES ASSUME T # {} PROVE FALSE
  OBVIOUS
<1>0. T \subseteq Nat
  OBVIOUS
<1>1. PICK m \in T : \A k \in T : m <= k
  <2> HIDE DEF T
  <2> QED
    BY <1>0, LeastNat
<1>2. m \in Nat /\ m # 0 /\ m <= n /\ m \notin S
  OBVIOUS
<1>3. m - 1 \in Nat /\ m - 1 \in 0 .. n /\ m - 1 \notin T
  BY <1>1, <1>2
<1>4. m - 1 \in S
  BY <1>3
<1>5. (m - 1) + 1 = m
  BY <1>2
<1> QED
  BY <1>2, <1>3, <1>4, <1>5

(* Induction over the subsets of a finite set. *)
LEMMA SubsetInduction ==
  ASSUME NEW S, IsFiniteSet(S), NEW F,
         \A s \in SUBSET S : (\A x \in s : s \ {x} \in F) => s \in F
  PROVE  \A s \in SUBSET S : s \in F
<1> DEFINE n == Cardinality(S)
           T == {m \in Nat : \A s \in SUBSET S : Cardinality(s) = m => s \in F}
<1>1. n \in Nat /\ \A s \in SUBSET S : IsFiniteSet(s) /\ Cardinality(s) \in 0 .. n
  BY FS_CardinalityType, FS_Subset
<1>2. 0 \in T
  <2>1. \A s \in SUBSET S : Cardinality(s) = 0 => s = {}
    BY <1>1, FS_EmptySet
  <2> QED
    BY <2>1
<1>3. ASSUME NEW m \in Nat, m \in T, m + 1 <= n
      PROVE  m + 1 \in T
  <2> SUFFICES ASSUME NEW s \in SUBSET S, Cardinality(s) = m + 1
               PROVE  s \in F
    OBVIOUS
  <2>1. ASSUME NEW x \in s
        PROVE  s \ {x} \in F
    <3>1. Cardinality(s \ {x}) = m
      BY <1>1, FS_RemoveElement
    <3> QED
      BY <1>3, <3>1
  <2> QED
    BY <2>1
<1> HIDE DEF T
<1>4. \A m \in 0 .. n : m \in T
  BY <1>1, <1>2, <1>3, UpTo
<1> USE DEF T
<1> QED
  BY <1>1, <1>4

----------------------------------------------------------------------------
(* Sums *)

(* The sum of a[x] for x in S. *)
SumOver(a, S) == MapThenSumSet(LAMBDA x : a[x], S)

Pick(s) == CHOOSE x \in s : TRUE

(* g holds the sums of a over the sets in D, which takes one element away  *)
(* after the other.                                                        *)
SumsOf(g, a, D) ==
  g = [s \in D |-> IF s = {} THEN 0 ELSE a[Pick(s)] + g[s \ {Pick(s)}]]

LEMMA PickIn == ASSUME NEW s, s # {} PROVE Pick(s) \in s
  BY DEF Pick

LEMMA SumOverIs ==
  ASSUME NEW S, NEW a, NEW g, SumsOf(g, a, SUBSET S)
  PROVE  \E h : SumsOf(h, a, SUBSET S) /\ SumOver(a, S) = h[S]
<1> DEFINE E(h) == [s \in SUBSET S |-> IF s = {} THEN 0
                      ELSE a[CHOOSE x \in s : TRUE] + h[s \ {CHOOSE x \in s : TRUE}]]
           i == CHOOSE h : h = E(h)
<1>1. g = E(g)
  BY DEF SumsOf, Pick
<1>2. i = E(i)
  <2> HIDE DEF E
  <2> QED
    BY <1>1
<1>3. SumOver(a, S) = i[S]
  BY DEF SumOver, MapThenSumSet, MapThenFoldSet
<1> HIDE DEF i
<1>4. SumsOf(i, a, SUBSET S)
  BY <1>2 DEF SumsOf, Pick
<1> QED
  BY <1>3, <1>4

(* There are such sums over all subsets of a finite set.                   *)
LEMMA SumsExist ==
  ASSUME NEW S, IsFiniteSet(S), NEW a
  PROVE  \E g : SumsOf(g, a, SUBSET S)
<1> DEFINE n == Cardinality(S)
           D(m) == {s \in SUBSET S : Cardinality(s) <= m}
           T == {m \in Nat : \E g : SumsOf(g, a, D(m))}
<1>1. n \in Nat /\ \A s \in SUBSET S : IsFiniteSet(s) /\ Cardinality(s) \in 0 .. n
  BY FS_CardinalityType, FS_Subset
<1>2. 0 \in T
  <2>1. D(0) = {{}}
    BY <1>1, FS_EmptySet
  <2>2. SumsOf([s \in {{}} |-> 0], a, {{}})
    BY DEF SumsOf
  <2> QED
    BY <2>1, <2>2
<1>3. ASSUME NEW m \in Nat, m \in T, m + 1 <= n
      PROVE  m + 1 \in T
  <2>1. PICK g : SumsOf(g, a, D(m))
    BY <1>3
  <2> DEFINE h == [s \in D(m + 1) |-> IF s = {} THEN 0 ELSE a[Pick(s)] + g[s \ {Pick(s)}]]
  <2>2. ASSUME NEW s \in D(m + 1), s # {}
        PROVE  s \ {Pick(s)} \in D(m) /\ s \ {Pick(s)} \in D(m + 1)
    <3>1. Pick(s) \in s
      BY <2>2, PickIn
    <3>2. s \ {Pick(s)} \in SUBSET S /\ Cardinality(s \ {Pick(s)}) = Cardinality(s) - 1
      BY <1>1, <3>1, FS_RemoveElement
    <3>3. Cardinality(s) \in Nat /\ Cardinality(s) <= m + 1
      BY <1>1
    <3> QED
      BY <3>2, <3>3
  <2>3. ASSUME NEW s \in D(m)
        PROVE  s \in D(m + 1) /\ h[s] = g[s]
    <3>1. s \in D(m + 1)
      BY <1>1
    <3>2. g[s] = IF s = {} THEN 0 ELSE a[Pick(s)] + g[s \ {Pick(s)}]
      <4> HIDE DEF D
      <4> QED
        BY <2>1 DEF SumsOf
    <3> HIDE DEF D
    <3> QED
      BY <3>1, <3>2
  <2>4. SumsOf(h, a, D(m + 1))
    <3> HIDE DEF D
    <3>1. ASSUME NEW s \in D(m + 1), s # {}
          PROVE  h[s] = a[Pick(s)] + h[s \ {Pick(s)}]
      <4>1. h[s \ {Pick(s)}] = g[s \ {Pick(s)}]
        BY <2>2, <2>3, <3>1
      <4>2. h[s] = a[Pick(s)] + g[s \ {Pick(s)}]
        BY <3>1
      <4> QED
        BY <4>1, <4>2
    <3>2. \A s \in D(m + 1) : h[s] = IF s = {} THEN 0 ELSE a[Pick(s)] + h[s \ {Pick(s)}]
      BY <3>1
    <3>3. h = [s \in D(m + 1) |-> h[s]]
      OBVIOUS
    <3> HIDE DEF h
    <3> QED
      BY <3>2, <3>3 DEF SumsOf
  <2> HIDE DEF h, D
  <2> QED
    BY <2>4
<1>4. n \in T
  <2> HIDE DEF T
  <2>1. \A m \in 0 .. n : m \in T
    BY <1>1, <1>2, <1>3, UpTo
  <2> QED
    BY <1>1, <2>1
<1>5. D(n) = SUBSET S
  BY <1>1
<1> QED
  BY <1>4, <1>5

(* They are determined by the terms.                                       *)
LEMMA SumsUnique ==
  ASSUME NEW S, IsFiniteSet(S), NEW a, NEW b, NEW g, NEW h, NEW T,
         S \subseteq T, SumsOf(g, a, SUBSET S), SumsOf(h, b, SUBSET T),
         \A x \in S : a[x] = b[x]
  PROVE  g[S] = h[S]
<1> DEFINE F == {s \in SUBSET S : g[s] = h[s]}
<1>1. ASSUME NEW s \in SUBSET S, \A x \in s : s \ {x} \in F
      PROVE  s \in F
  <2>1. /\ g[s] = IF s = {} THEN 0 ELSE a[Pick(s)] + g[s \ {Pick(s)}]
        /\ h[s] = IF s = {} THEN 0 ELSE b[Pick(s)] + h[s \ {Pick(s)}]
    BY DEF SumsOf
  <2>2. s # {} => Pick(s) \in s
    BY PickIn
  <2> QED
    BY <1>1, <2>1, <2>2
<1> HIDE DEF F
<1>2. S \in F
  BY <1>1, SubsetInduction
<1> QED
  BY <1>2 DEF F

(* Sums over the same terms are the same.                                  *)
LEMMA SumSame ==
  ASSUME NEW S, IsFiniteSet(S), NEW a, NEW b, \A x \in S : a[x] = b[x]
  PROVE  SumOver(a, S) = SumOver(b, S)
<1>1. PICK g : SumsOf(g, a, SUBSET S) /\ SumOver(a, S) = g[S]
  BY SumsExist, SumOverIs
<1>2. PICK h : SumsOf(h, b, SUBSET S) /\ SumOver(b, S) = h[S]
  BY SumsExist, SumOverIs
<1> QED
  BY <1>1, <1>2, SumsUnique

LEMMA SumEmpty ==
  ASSUME NEW a
  PROVE  SumOver(a, {}) = 0
<1>1. PICK h : SumsOf(h, a, SUBSET {}) /\ SumOver(a, {}) = h[{}]
  BY SumsExist, SumOverIs, FS_EmptySet
<1> QED
  BY <1>1 DEF SumsOf

LEMMA SumPicks ==
  ASSUME NEW S, IsFiniteSet(S), S # {}, NEW a
  PROVE  SumOver(a, S) = a[Pick(S)] + SumOver(a, S \ {Pick(S)})
<1>1. PICK h : SumsOf(h, a, SUBSET S) /\ SumOver(a, S) = h[S]
  BY SumsExist, SumOverIs
<1> DEFINE s == S \ {Pick(S)}
<1>2. IsFiniteSet(s) /\ s \subseteq S
  BY FS_RemoveElement
<1> HIDE DEF s
<1>3. PICK g : SumsOf(g, a, SUBSET s) /\ SumOver(a, s) = g[s]
  BY <1>2, SumsExist, SumOverIs
<1>4. g[s] = h[s]
  <2> DEFINE b == a
  <2>1. SumsOf(h, b, SUBSET S) /\ \A x \in s : a[x] = b[x]
    BY <1>1
  <2> HIDE DEF b
  <2> QED
    BY <1>2, <1>3, <2>1, SumsUnique
<1>5. h[S] = a[Pick(S)] + h[s]
  BY <1>1 DEF SumsOf, s
<1> QED
  BY <1>1, <1>3, <1>4, <1>5 DEF s

LEMMA SumInt ==
  ASSUME NEW S, IsFiniteSet(S), NEW a, \A x \in S : a[x] \in Int
  PROVE  SumOver(a, S) \in Int
<1> DEFINE F == {s \in SUBSET S : SumOver(a, s) \in Int}
<1>1. ASSUME NEW s \in SUBSET S, \A x \in s : s \ {x} \in F
      PROVE  s \in F
  <2>1. CASE s = {}
    BY <2>1, SumEmpty
  <2>2. CASE s # {}
    <3>1. Pick(s) \in s /\ IsFiniteSet(s)
      BY <2>2, PickIn, FS_Subset
    <3>2. SumOver(a, s) = a[Pick(s)] + SumOver(a, s \ {Pick(s)})
      BY <2>2, <3>1, SumPicks
    <3>3. SumOver(a, s \ {Pick(s)}) \in Int /\ a[Pick(s)] \in Int
      BY <1>1, <3>1
    <3> QED
      BY <3>2, <3>3
  <2> QED
    BY <2>1, <2>2
<1> HIDE DEF F
<1>2. \A s \in SUBSET S : s \in F
  <2>1. \A s \in SUBSET S : (\A x \in s : s \ {x} \in F) => s \in F
    BY <1>1
  <2> QED
    BY <2>1, SubsetInduction
<1> QED
  BY <1>2 DEF F

(* Any term may be taken out of a sum.                                     *)
LEMMA SumTake ==
  ASSUME NEW S, IsFiniteSet(S), NEW a, \A x \in S : a[x] \in Int, NEW y \in S
  PROVE  SumOver(a, S) = a[y] + SumOver(a, S \ {y})
<1> DEFINE F == {s \in SUBSET S : \A x \in s : SumOver(a, s) = a[x] + SumOver(a, s \ {x})}
<1>1. ASSUME NEW s \in SUBSET S, \A x \in s : s \ {x} \in F
      PROVE  s \in F
  <2> SUFFICES ASSUME NEW x \in s PROVE SumOver(a, s) = a[x] + SumOver(a, s \ {x})
    OBVIOUS
  <2> DEFINE p == Pick(s)
  <2>1. p \in s /\ IsFiniteSet(s)
    BY PickIn, FS_Subset
  <2>2. SumOver(a, s) = a[p] + SumOver(a, s \ {p})
    BY <2>1, SumPicks
  <2> HIDE DEF p
  <2>3. CASE p = x
    BY <2>2, <2>3
  <2>4. CASE p # x
    <3>1. s \ {p} \in F /\ s \ {x} \in F
      BY <1>1, <2>1
    <3> DEFINE r == (s \ {p}) \ {x}
    <3>2. SumOver(a, s \ {p}) = a[x] + SumOver(a, r)
      BY <2>4, <3>1
    <3>3. SumOver(a, s \ {x}) = a[p] + SumOver(a, r)
      <4>1. r = (s \ {x}) \ {p}
        OBVIOUS
      <4>2. SumOver(a, s \ {x}) = a[p] + SumOver(a, (s \ {x}) \ {p})
        BY <2>1, <2>4, <3>1
      <4> QED
        BY <4>1, <4>2
    <3>5. SumOver(a, r) \in Int
      <4>1. IsFiniteSet(r) /\ r \subseteq S
        BY FS_Subset
      <4> HIDE DEF r
      <4> QED
        BY <4>1, SumInt
    <3> HIDE DEF r
    <3>6. a[x] \in Int /\ a[p] \in Int
      BY <2>1
    <3> QED
      BY <2>2, <3>2, <3>3, <3>5, <3>6
  <2> QED
    BY <2>3, <2>4
<1> HIDE DEF F
<1>2. \A s \in SUBSET S : s \in F
  <2>1. \A s \in SUBSET S : (\A x \in s : s \ {x} \in F) => s \in F
    BY <1>1
  <2> QED
    BY <2>1, SubsetInduction
<1> QED
  BY <1>2 DEF F

(* Terms that are zero may be left out.                                    *)
LEMMA SumRestrict ==
  ASSUME NEW S, IsFiniteSet(S), NEW a, \A x \in S : a[x] \in Int,
         NEW T \in SUBSET S, \A x \in S \ T : a[x] = 0
  PROVE  SumOver(a, S) = SumOver(a, T)
<1> DEFINE F == {s \in SUBSET S : SumOver(a, s) = SumOver(a, s \cap T)}
<1>1. ASSUME NEW s \in SUBSET S, \A x \in s : s \ {x} \in F
      PROVE  s \in F
  <2>1. CASE s = {}
    BY <2>1
  <2>2. CASE s # {}
    <3>1. PICK x : x \in s
      BY <2>2
    <3>2. IsFiniteSet(s) /\ IsFiniteSet(s \cap T)
      BY FS_Subset
    <3>3. SumOver(a, s) = a[x] + SumOver(a, s \ {x})
      BY <3>1, <3>2, SumTake
    <3>4. SumOver(a, s \ {x}) = SumOver(a, (s \ {x}) \cap T)
      BY <1>1, <3>1
    <3> DEFINE r == (s \ {x}) \cap T
    <3>5. SumOver(a, r) \in Int
      <4>1. IsFiniteSet(r) /\ r \subseteq S
        BY FS_Subset
      <4> HIDE DEF r
      <4> QED
        BY <4>1, SumInt
    <3>6. CASE x \in T
      <4>1. (s \cap T) \ {x} = r
        OBVIOUS
      <4>2. SumOver(a, s \cap T) = a[x] + SumOver(a, (s \cap T) \ {x})
        BY <3>1, <3>2, <3>6, SumTake
      <4>3. SumOver(a, s \cap T) = SumOver(a, s)
        BY <3>3, <3>4, <4>1, <4>2
      <4> QED
        BY <4>3
    <3>7. CASE x \notin T
      <4>1. s \cap T = r /\ a[x] = 0
        BY <3>1, <3>7
      <4>2. SumOver(a, s) = a[x] + SumOver(a, r)
        BY <3>3, <3>4
      <4> HIDE DEF r
      <4>3. SumOver(a, s \cap T) = SumOver(a, r)
        BY <4>1, Zenon
      <4>4. SumOver(a, s) = SumOver(a, r)
        BY <3>5, <4>1, <4>2
      <4> QED
        BY <4>3, <4>4
    <3> QED
      BY <3>6, <3>7
  <2> QED
    BY <2>1, <2>2
<1> HIDE DEF F
<1>2. \A s \in SUBSET S : s \in F
  <2>1. \A s \in SUBSET S : (\A x \in s : s \ {x} \in F) => s \in F
    BY <1>1
  <2> QED
    BY <2>1, SubsetInduction
<1>3. S \cap T = T
  OBVIOUS
<1> QED
  BY <1>2, <1>3 DEF F

(* A sum of naturals is a natural, and none of its terms is larger.        *)
LEMMA SumNat ==
  ASSUME NEW S, IsFiniteSet(S), NEW a, \A x \in S : a[x] \in Nat
  PROVE  SumOver(a, S) \in Nat /\ \A x \in S : a[x] <= SumOver(a, S)
<1> DEFINE F == {s \in SUBSET S : SumOver(a, s) \in Nat}
<1>0. \A x \in S : a[x] \in Int
  OBVIOUS
<1>1. ASSUME NEW s \in SUBSET S, \A x \in s : s \ {x} \in F
      PROVE  s \in F
  <2>1. CASE s = {}
    BY <2>1, SumEmpty
  <2>2. CASE s # {}
    <3>1. Pick(s) \in s /\ IsFiniteSet(s)
      BY <2>2, PickIn, FS_Subset
    <3>2. SumOver(a, s) = a[Pick(s)] + SumOver(a, s \ {Pick(s)})
      BY <2>2, <3>1, SumPicks
    <3>3. SumOver(a, s \ {Pick(s)}) \in Nat /\ a[Pick(s)] \in Nat
      BY <1>1, <3>1
    <3> QED
      BY <3>2, <3>3
  <2> QED
    BY <2>1, <2>2
<1> HIDE DEF F
<1>2. \A s \in SUBSET S : s \in F
  <2>1. \A s \in SUBSET S : (\A x \in s : s \ {x} \in F) => s \in F
    BY <1>1
  <2> QED
    BY <2>1, SubsetInduction
<1>3. \A s \in SUBSET S : SumOver(a, s) \in Nat
  BY <1>2 DEF F
<1>4. ASSUME NEW x \in S
      PROVE  a[x] <= SumOver(a, S)
  <2>1. SumOver(a, S) = a[x] + SumOver(a, S \ {x})
    BY <1>0, SumTake
  <2>2. SumOver(a, S \ {x}) \in Nat /\ a[x] \in Nat
    BY <1>3
  <2> QED
    BY <2>1, <2>2
<1>5. SumOver(a, S) \in Nat
  BY <1>3
<1> QED
  BY <1>4, <1>5

(* Sums are monotone, and a sum of two sums is a sum.                      *)
LEMMA SumAtMost ==
  ASSUME NEW S, IsFiniteSet(S), NEW a, NEW b, NEW c,
         \A x \in S : /\ a[x] \in Nat /\ b[x] \in Nat /\ c[x] \in Nat
                      /\ c[x] <= a[x] + b[x]
  PROVE  SumOver(c, S) <= SumOver(a, S) + SumOver(b, S)
<1> DEFINE F == {s \in SUBSET S : SumOver(c, s) <= SumOver(a, s) + SumOver(b, s)}
<1>1. ASSUME NEW s \in SUBSET S, \A x \in s : s \ {x} \in F
      PROVE  s \in F
  <2>1. CASE s = {}
    BY <2>1, SumEmpty
  <2>2. CASE s # {}
    <3>1. PICK x \in s : TRUE
      BY <2>2
    <3> DEFINE r == s \ {x}
    <3>2. IsFiniteSet(s) /\ IsFiniteSet(r) /\ r \in SUBSET S
      BY FS_Subset
    <3>3. /\ SumOver(a, s) = a[x] + SumOver(a, r)
          /\ SumOver(b, s) = b[x] + SumOver(b, r)
          /\ SumOver(c, s) = c[x] + SumOver(c, r)
      <4>1. \A y \in s : a[y] \in Int /\ b[y] \in Int /\ c[y] \in Int
        OBVIOUS
      <4> QED
        BY <3>2, <4>1, SumTake
    <3>4. SumOver(a, r) \in Nat /\ SumOver(b, r) \in Nat /\ SumOver(c, r) \in Nat
      <4>1. \A y \in r : a[y] \in Nat /\ b[y] \in Nat /\ c[y] \in Nat
        OBVIOUS
      <4> HIDE DEF r
      <4> QED
        BY <3>2, <4>1, SumNat
    <3>5. SumOver(c, r) <= SumOver(a, r) + SumOver(b, r)
      BY <1>1
    <3>6. a[x] \in Nat /\ b[x] \in Nat /\ c[x] \in Nat /\ c[x] <= a[x] + b[x]
      OBVIOUS
    <3> HIDE DEF r
    <3> QED
      BY <3>3, <3>4, <3>5, <3>6
  <2> QED
    BY <2>1, <2>2
<1> HIDE DEF F
<1>2. \A s \in SUBSET S : s \in F
  <2>1. \A s \in SUBSET S : (\A x \in s : s \ {x} \in F) => s \in F
    BY <1>1
  <2> QED
    BY <2>1, SubsetInduction
<1> QED
  BY <1>2 DEF F

(* A sum changes by what one term, or two, change.                         *)
LEMMA SumChange ==
  ASSUME NEW S, IsFiniteSet(S), NEW a, NEW b,
         \A x \in S : a[x] \in Int /\ b[x] \in Int,
         NEW y \in S, \A x \in S \ {y} : a[x] = b[x]
  PROVE  SumOver(b, S) = SumOver(a, S) + b[y] - a[y]
<1> DEFINE r == S \ {y}
<1>1. IsFiniteSet(r) /\ r \subseteq S
  BY FS_Subset
<1>2. SumOver(a, S) = a[y] + SumOver(a, r) /\ SumOver(b, S) = b[y] + SumOver(b, r)
  BY SumTake
<1>3. \A x \in r : a[x] = b[x]
  OBVIOUS
<1> HIDE DEF r
<1>4. SumOver(a, r) = SumOver(b, r)
  BY <1>1, <1>3, SumSame
<1>5. SumOver(a, r) \in Int
  BY <1>1, SumInt
<1>6. a[y] \in Int /\ b[y] \in Int
  OBVIOUS
<1> QED
  BY <1>2, <1>4, <1>5, <1>6

LEMMA SumChangeTwo ==
  ASSUME NEW S, IsFiniteSet(S), NEW a, NEW b,
         \A x \in S : a[x] \in Int /\ b[x] \in Int,
         NEW y \in S, NEW z \in S, y # z, \A x \in S \ {y, z} : a[x] = b[x]
  PROVE  SumOver(b, S) = SumOver(a, S) + (b[y] - a[y]) + (b[z] - a[z])
<1> DEFINE r == S \ {z}
<1>1. IsFiniteSet(r) /\ r \subseteq S /\ y \in r
  BY FS_Subset
<1>2. SumOver(a, S) = a[z] + SumOver(a, r) /\ SumOver(b, S) = b[z] + SumOver(b, r)
  BY SumTake
<1>3. \A x \in r \ {y} : a[x] = b[x]
  OBVIOUS
<1> HIDE DEF r
<1>4. SumOver(b, r) = SumOver(a, r) + b[y] - a[y]
  BY <1>1, <1>3, SumChange
<1>5. SumOver(a, r) \in Int
  BY <1>1, SumInt
<1>6. a[y] \in Int /\ b[y] \in Int /\ a[z] \in Int /\ b[z] \in Int
  OBVIOUS
<1> QED
  BY <1>2, <1>4, <1>5, <1>6

(* A sum of zeros.                                                         *)
LEMMA SumZero ==
  ASSUME NEW S, IsFiniteSet(S), NEW a, \A x \in S : a[x] = 0
  PROVE  SumOver(a, S) = 0
<1>1. {} \in SUBSET S /\ \A x \in S \ {} : a[x] = 0
  OBVIOUS
<1>2. \A x \in S : a[x] \in Int
  OBVIOUS
<1>3. SumOver(a, S) = SumOver(a, {})
  BY <1>1, <1>2, SumRestrict
<1> QED
  BY <1>3, SumEmpty

(* A sum with one term that is not zero.                                   *)
LEMMA SumOnly ==
  ASSUME NEW S, IsFiniteSet(S), NEW a, NEW y \in S, a[y] \in Int,
         \A x \in S \ {y} : a[x] = 0
  PROVE  SumOver(a, S) = a[y]
<1> DEFINE r == S \ {y}
<1>1. IsFiniteSet(r) /\ \A x \in S : a[x] \in Int
  BY FS_RemoveElement
<1>2. SumOver(a, S) = a[y] + SumOver(a, r)
  BY <1>1, SumTake
<1>3. \A x \in r : a[x] = 0
  OBVIOUS
<1> HIDE DEF r
<1>4. SumOver(a, r) = 0
  BY <1>1, <1>3, SumZero
<1> QED
  BY <1>2, <1>4

(* A sum may be taken over other indices, f giving each of them once.      *)
LEMMA SumImage ==
  ASSUME NEW S, IsFiniteSet(S), NEW f, NEW a, NEW g,
         \A x \in S : a[x] \in Int /\ g[f[x]] = a[x],
         \A x, y \in S : f[x] = f[y] => x = y
  PROVE  /\ IsFiniteSet({f[x] : x \in S})
         /\ SumOver(g, {f[x] : x \in S}) = SumOver(a, S)
<1> DEFINE I(s) == {f[x] : x \in s}
           F == {s \in SUBSET S : IsFiniteSet(I(s)) /\ SumOver(g, I(s)) = SumOver(a, s)}
<1>1. ASSUME NEW s \in SUBSET S, \A x \in s : s \ {x} \in F
      PROVE  s \in F
  <2>1. CASE s = {}
    <3>1. I(s) = {}
      BY <2>1
    <3> HIDE DEF I
    <3> QED
      BY <2>1, <3>1, SumEmpty, FS_EmptySet
  <2>2. CASE s # {}
    <3>1. PICK x \in s : TRUE
      BY <2>2
    <3> DEFINE r == s \ {x}
    <3>2. /\ r \in SUBSET S /\ IsFiniteSet(I(r)) /\ SumOver(g, I(r)) = SumOver(a, r)
          /\ IsFiniteSet(s)
      BY <1>1, FS_Subset
    <3>3. I(s) = I(r) \cup {f[x]} /\ f[x] \notin I(r) /\ I(s) \ {f[x]} = I(r)
      OBVIOUS
    <3>4. \A z \in I(s) : g[z] \in Int
      OBVIOUS
    <3>5. a[x] \in Int /\ g[f[x]] = a[x] /\ \A z \in s : a[z] \in Int
      OBVIOUS
    <3> HIDE DEF I
    <3>6. IsFiniteSet(I(s))
      <4>1. IsFiniteSet(I(r) \cup {f[x]})
        BY <3>2, FS_AddElement
      <4> QED
        BY <3>3, <4>1
    <3>7. SumOver(g, I(s)) = g[f[x]] + SumOver(g, I(r))
      <4>1. f[x] \in I(s)
        BY <3>3
      <4>2. SumOver(g, I(s)) = g[f[x]] + SumOver(g, I(s) \ {f[x]})
        BY <3>4, <3>6, <4>1, SumTake
      <4> QED
        BY <3>3, <4>2
    <3>8. SumOver(a, s) = a[x] + SumOver(a, r)
      BY <3>2, <3>5, SumTake
    <3> QED
      BY <3>2, <3>5, <3>6, <3>7, <3>8
  <2> QED
    BY <2>1, <2>2
<1> HIDE DEF F
<1>2. \A s \in SUBSET S : s \in F
  <2>1. \A s \in SUBSET S : (\A x \in s : s \ {x} \in F) => s \in F
    BY <1>1
  <2> QED
    BY <2>1, SubsetInduction
<1> QED
  BY <1>2 DEF F

----------------------------------------------------------------------------
(* Tables: a key and a count per bucket *)

IsTable(t, B) == \A b \in B : t[b].count \in Nat

(* What a bucket counts for key y, and what the whole table does.          *)
Part(s, y) == IF s.key = y THEN s.count ELSE 0

Held(t, B, y) == MapThenSumSet(LAMBDA b : t[b].count, {b \in B : t[b].key = y})

LEMMA HeldIs ==
  ASSUME NEW B, IsFiniteSet(B), NEW t, IsTable(t, B), NEW y
  PROVE  Held(t, B, y) = SumOver([b \in B |-> Part(t[b], y)], B)
<1> DEFINE K == {b \in B : t[b].key = y}
           a == [b \in B |-> t[b].count]
           p == [b \in B |-> Part(t[b], y)]
           E(h) == [s \in SUBSET K |-> IF s = {} THEN 0
                      ELSE t[CHOOSE x \in s : TRUE].count + h[s \ {CHOOSE x \in s : TRUE}]]
           i == CHOOSE h : h = E(h)
<1>0. K \in SUBSET B /\ IsFiniteSet(K)
  BY FS_Subset
<1>1. PICK g : SumsOf(g, a, SUBSET K)
  <2> HIDE DEF K, a
  <2> QED
    BY <1>0, SumsExist
<1>2. \A s \in SUBSET K : s # {} => a[Pick(s)] = t[Pick(s)].count
  <2>1. \A s \in SUBSET K : s # {} => Pick(s) \in B
    BY PickIn
  <2> QED
    BY <2>1
<1>3. \A h : SumsOf(h, a, SUBSET K) <=> h = E(h)
  <2> HIDE DEF a, K
  <2> QED
    BY <1>2 DEF SumsOf, Pick
<1>4. i = E(i)
  <2> HIDE DEF E
  <2> QED
    BY <1>1, <1>3
<1>5. Held(t, B, y) = i[K]
  BY DEF Held, MapThenSumSet, MapThenFoldSet
<1> HIDE DEF i, E
<1>6. SumsOf(i, a, SUBSET K)
  BY <1>3, <1>4
<1>7. PICK h : SumsOf(h, a, SUBSET K) /\ SumOver(a, K) = h[K]
  <2> HIDE DEF K, a
  <2> QED
    BY <1>6, SumOverIs
<1>8. \A x \in K : a[x] = p[x]
  BY DEF Part
<1>9. \A x \in B : p[x] \in Int
  BY DEF Part, IsTable
<1>10. \A x \in B \ K : p[x] = 0
  BY DEF Part
<1>11. PICK q : SumsOf(q, p, SUBSET K) /\ SumOver(p, K) = q[K]
  <2> HIDE DEF K, p
  <2> QED
    BY <1>0, SumsExist, SumOverIs
<1> HIDE DEF K, a, p
<1>12. i[K] = q[K]
  BY <1>0, <1>6, <1>8, <1>11, SumsUnique
<1>13. SumOver(p, B) = SumOver(p, K)
  BY <1>0, <1>9, <1>10, SumRestrict
<1> QED
  BY <1>5, <1>11, <1>12, <1>13 DEF p

LEMMA HeldNat ==
  ASSUME NEW B, IsFiniteSet(B), NEW t, IsTable(t, B), NEW y
  PROVE  /\ Held(t, B, y) \in Nat
         /\ \A b \in B : Part(t[b], y) \in Nat /\ Part(t[b], y) <= Held(t, B, y)
<1> DEFINE p == [b \in B |-> Part(t[b], y)]
<1>1. \A b \in B : p[b] = Part(t[b], y) /\ p[b] \in Nat
  BY DEF Part, IsTable
<1>2. Held(t, B, y) = SumOver(p, B)
  BY HeldIs
<1> HIDE DEF p
<1>3. SumOver(p, B) \in Nat /\ \A b \in B : p[b] <= SumOver(p, B)
  BY <1>1, SumNat
<1> QED
  BY <1>1, <1>2, <1>3

(* The counts of a key change by what the changed buckets hold of it.      *)
LEMMA HeldChange ==
  ASSUME NEW B, IsFiniteSet(B), NEW t, IsTable(t, B), NEW u, IsTable(u, B),
         NEW d \in B, \A b \in B \ {d} : u[b] = t[b], NEW y
  PROVE  Held(u, B, y) = Held(t, B, y) + Part(u[d], y) - Part(t[d], y)
<1> DEFINE p == [b \in B |-> Part(t[b], y)]
           q == [b \in B |-> Part(u[b], y)]
<1>1. /\ \A b \in B : p[b] \in Int /\ q[b] \in Int
      /\ \A b \in B \ {d} : p[b] = q[b]
      /\ p[d] = Part(t[d], y) /\ q[d] = Part(u[d], y)
  BY DEF Part, IsTable
<1>2. Held(t, B, y) = SumOver(p, B) /\ Held(u, B, y) = SumOver(q, B)
  BY HeldIs
<1> HIDE DEF p, q
<1>3. SumOver(q, B) = SumOver(p, B) + q[d] - p[d]
  BY <1>1, SumChange
<1> QED
  BY <1>1, <1>2, <1>3

LEMMA HeldChangeTwo ==
  ASSUME NEW B, IsFiniteSet(B), NEW t, IsTable(t, B), NEW u, IsTable(u, B),
         NEW d \in B, NEW e \in B, d # e, \A b \in B \ {d, e} : u[b] = t[b], NEW y
  PROVE  Held(u, B, y) = Held(t, B, y) + (Part(u[d], y) - Part(t[d], y))
                                       + (Part(u[e], y) - Part(t[e], y))
<1> DEFINE p == [b \in B |-> Part(t[b], y)]
           q == [b \in B |-> Part(u[b], y)]
<1>1. /\ \A b \in B : p[b] \in Int /\ q[b] \in Int
      /\ \A b \in B \ {d, e} : p[b] = q[b]
      /\ p[d] = Part(t[d], y) /\ q[d] = Part(u[d], y)
      /\ p[e] = Part(t[e], y) /\ q[e] = Part(u[e], y)
  BY DEF Part, IsTable
<1>2. Held(t, B, y) = SumOver(p, B) /\ Held(u, B, y) = SumOver(q, B)
  BY HeldIs
<1> HIDE DEF p, q
<1>3. SumOver(q, B) = SumOver(p, B) + (q[d] - p[d]) + (q[e] - p[e])
  BY <1>1, SumChangeTwo
<1> QED
  BY <1>1, <1>2, <1>3

(* A table without counts counts nothing.                                  *)
LEMMA HeldNone ==
  ASSUME NEW B, IsFiniteSet(B), NEW t, \A b \in B : t[b].count = 0, NEW y
  PROVE  Held(t, B, y) = 0
<1> DEFINE p == [b \in B |-> Part(t[b], y)]
<1>1. \A b \in B : p[b] = 0
  BY DEF Part
<1>2. Held(t, B, y) = SumOver(p, B)
  BY HeldIs DEF IsTable
<1> HIDE DEF p
<1> QED
  BY <1>1, <1>2, SumZero

(* What a table counts for a key that sits in one bucket only, or in none. *)
LEMMA HeldNowhere ==
  ASSUME NEW B, IsFiniteSet(B), NEW t, IsTable(t, B), NEW y,
         \A b \in B : Part(t[b], y) = 0
  PROVE  Held(t, B, y) = 0
<1> DEFINE p == [b \in B |-> Part(t[b], y)]
<1>1. \A b \in B : p[b] = 0
  OBVIOUS
<1>2. Held(t, B, y) = SumOver(p, B)
  BY HeldIs
<1> HIDE DEF p
<1> QED
  BY <1>1, <1>2, SumZero

LEMMA HeldOnly ==
  ASSUME NEW B, IsFiniteSet(B), NEW t, IsTable(t, B), NEW y, NEW d \in B,
         \A b \in B \ {d} : Part(t[b], y) = 0
  PROVE  Held(t, B, y) = Part(t[d], y)
<1> DEFINE p == [b \in B |-> Part(t[b], y)]
<1>1. \A b \in B \ {d} : p[b] = 0
  OBVIOUS
<1>2. p[d] = Part(t[d], y) /\ p[d] \in Int
  BY DEF Part, IsTable
<1>3. Held(t, B, y) = SumOver(p, B)
  BY HeldIs
<1> HIDE DEF p
<1> QED
  BY <1>1, <1>2, <1>3, SumOnly

(* Buckets b and c are written, c = b included: b is given to x with count *)
(* n, and c set to s.                                                      *)
Writes(t, u, B, b, c, x, n, s) ==
  /\ b \in B /\ c \in B
  /\ u[b].key = x /\ u[b].count = n
  /\ c # b => u[c] = s
  /\ \A d \in B \ {b, c} : u[d] = t[d]

LEMMA WritesHeld ==
  ASSUME NEW B, IsFiniteSet(B), NEW t, IsTable(t, B), NEW u, IsTable(u, B),
         NEW b, NEW c, NEW x, NEW n, NEW s, Writes(t, u, B, b, c, x, n, s), NEW y
  PROVE  Held(u, B, y) = Held(t, B, y)
           + ((IF x = y THEN n ELSE 0) - Part(t[b], y))
           + (IF c = b THEN 0 ELSE Part(s, y) - Part(t[c], y))
<1>1. /\ b \in B /\ c \in B /\ (c # b => u[c] = s)
      /\ \A d \in B \ {b, c} : u[d] = t[d]
      /\ Part(u[b], y) = IF x = y THEN n ELSE 0
  BY DEF Writes, Part
<1>2. /\ Part(u[b], y) \in Int /\ Part(t[b], y) \in Int
      /\ Held(t, B, y) \in Int
  BY <1>1, HeldNat
<1>3. CASE c = b
  <2>1. Held(u, B, y) = Held(t, B, y) + Part(u[b], y) - Part(t[b], y)
    BY <1>1, <1>3, HeldChange
  <2>2. Held(u, B, y) = Held(t, B, y) + (Part(u[b], y) - Part(t[b], y)) + 0
    BY <1>2, <2>1
  <2> QED
    BY <1>1, <1>3, <2>2
<1>4. CASE c # b
  <2>1. Held(u, B, y) = Held(t, B, y) + (Part(u[b], y) - Part(t[b], y))
                                      + (Part(u[c], y) - Part(t[c], y))
    BY <1>1, <1>4, HeldChangeTwo
  <2> QED
    BY <1>1, <1>4, <2>1
<1> QED
  BY <1>3, <1>4

(* A packet of x with size v is recorded: x gains it and what it takes     *)
(* over; one other flow loses, and no more than that.                      *)
Recorded(t, u, B, K, x, v) ==
  LET gain == Held(u, B, x) - Held(t, B, x) - v
  IN  /\ gain >= 0
      /\ \A y \in K \ {x} :
           Held(u, B, y) \in Held(t, B, y) - gain .. Held(t, B, y) + Held(t, B, x)
      /\ \A y, w \in K \ {x} :
           Held(u, B, y) < Held(t, B, y) /\ Held(u, B, w) < Held(t, B, w) => y = w

(* The ways in which a sketch gives b to x: alone, or together with the    *)
(* bucket c that takes the flow of b, or gives up that of x.               *)
Moves(t, b, c, x, v, n, s) ==
  \/ c = b /\ n = t[b].count + v
  \/ /\ c # b
     /\ \/ /\ t[c].key = t[b].key /\ s.key = t[b].key
           /\ s.count = t[c].count + t[b].count
           /\ n = t[b].count + v
        \/ /\ t[c].key = x /\ s.key = t[b].key
           /\ s.count \in {t[b].count, t[b].count + t[c].count}
           /\ n = t[b].count + t[c].count + v
        \/ /\ t[c].key # x /\ t[c].count <= t[b].count
           /\ s = t[b]
           /\ n = t[b].count + v
        \/ /\ t[c].key = x /\ s.count = 0
           /\ n = t[b].count + t[c].count + v
        \/ s = t[c] /\ n = t[b].count + v

LEMMA MovesRecorded ==
  ASSUME NEW B, IsFiniteSet(B), NEW t, IsTable(t, B), NEW u, IsTable(u, B),
         NEW b, NEW c, NEW x, NEW v \in Nat, NEW n \in Nat, NEW s, s.count \in Nat,
         Writes(t, u, B, b, c, x, n, s), Moves(t, b, c, x, v, n, s), NEW K
  PROVE  Recorded(t, u, B, K, x, v)
<1> DEFINE kb == t[b].key
           nb == t[b].count
           kc == t[c].key
           nc == t[c].count
           e(y) == Held(t, B, y)
           f(y) == Held(u, B, y)
<1>1. nb \in Nat /\ nc \in Nat /\ s.count \in Nat
  BY DEF Writes, IsTable
<1>2. \A y : /\ e(y) \in Nat
             /\ kb = y => nb <= e(y)
             /\ kc = y => nc <= e(y)
  BY HeldNat DEF Part, Writes
<1>3. \A y : f(y) = e(y)
                + ((IF x = y THEN n ELSE 0) - (IF kb = y THEN nb ELSE 0))
                + (IF c = b THEN 0 ELSE (IF s.key = y THEN s.count ELSE 0)
                                        - (IF kc = y THEN nc ELSE 0))
  BY WritesHeld DEF Part
<1> DEFINE One   == c = b /\ n = nb + v
           Merge == /\ c # b /\ kc = kb /\ s.key = kb
                    /\ s.count = nc + nb /\ n = nb + v
           Pull  == /\ c # b /\ kc = x /\ s.key = kb
                    /\ s.count = nb \/ s.count = nb + nc
                    /\ n = nb + nc + v
           Push  == /\ c # b /\ kc # x /\ nc <= nb
                    /\ s.key = kb /\ s.count = nb /\ n = nb + v
           Clear == c # b /\ kc = x /\ s.count = 0 /\ n = nb + nc + v
           Stay  == c # b /\ s.key = kc /\ s.count = nc /\ n = nb + v
<1>4. One \/ Merge \/ Pull \/ Push \/ Clear \/ Stay
  BY DEF Moves
<1> SUFFICES /\ f(x) - e(x) - v >= 0
             /\ \A y \in K \ {x} : f(y) \in e(y) - (f(x) - e(x) - v) .. e(y) + e(x)
             /\ \A y, w \in K \ {x} : f(y) < e(y) /\ f(w) < e(w) => y = w
  BY DEF Recorded
<1> HIDE DEF e, f, kb, nb, kc, nc
<1>5. f(x) - e(x) - v >= 0
  BY <1>1, <1>2, <1>3, <1>4
<1>6. ASSUME NEW y \in K \ {x}
      PROVE  f(y) \in e(y) - (f(x) - e(x) - v) .. e(y) + e(x)
  <2>1. e(y) - (f(x) - e(x) - v) <= f(y)
    <3> DEFINE lost == (IF kb = y THEN nb ELSE 0)
                       - (IF c = b THEN 0 ELSE (IF s.key = y THEN s.count ELSE 0)
                                               - (IF kc = y THEN nc ELSE 0))
               gain == n - v - (IF kb = x THEN nb ELSE 0)
                       + (IF c = b THEN 0 ELSE (IF s.key = x THEN s.count ELSE 0)
                                               - (IF kc = x THEN nc ELSE 0))
    <3>1. f(y) = e(y) - lost /\ f(x) = e(x) + v + gain
      BY <1>1, <1>2, <1>3
    <3>2. lost \in Int /\ gain \in Int /\ e(x) \in Int /\ e(y) \in Int
      BY <1>1, <1>2
    <3>3. lost <= gain
      <4>1. CASE One
        BY <1>1, <4>1
      <4>2. CASE Merge
        BY <1>1, <4>2
      <4>3. CASE Pull
        BY <1>1, <4>3
      <4>4. CASE Push
        BY <1>1, <4>4
      <4>5. CASE Clear
        BY <1>1, <4>5
      <4>6. CASE Stay
        BY <1>1, <4>6
      <4> QED
        BY <1>4, <4>1, <4>2, <4>3, <4>4, <4>5, <4>6
    <3> HIDE DEF lost, gain
    <3> QED
      BY <3>1, <3>2, <3>3
  <2>2. f(y) <= e(y) + e(x)
    BY <1>1, <1>2, <1>3, <1>4
  <2>3. f(y) \in Int /\ f(x) \in Int /\ e(x) \in Int /\ e(y) \in Int
    BY <1>1, <1>2, <1>3
  <2> QED
    BY <2>1, <2>2, <2>3
<1>7. \E z : \A y \in K \ {x} : f(y) < e(y) => y = z
  <2>1. CASE Push
    <3>1. ASSUME NEW y \in K \ {x}, f(y) < e(y)
          PROVE  y = kc
      BY <1>1, <1>2, <1>3, <2>1, <3>1
    <3> QED
      BY <3>1
  <2>2. CASE ~Push
    <3>1. ASSUME NEW y \in K \ {x}, y # kb
          PROVE  f(y) >= e(y)
      <4>1. /\ e(y) \in Nat
            /\ f(y) = e(y) + (IF c = b THEN 0 ELSE (IF s.key = y THEN s.count ELSE 0)
                                                  - (IF kc = y THEN nc ELSE 0))
        BY <1>1, <1>2, <1>3, <3>1
      <4>2. kc = y => c = b \/ Stay
        BY <1>4, <2>2, <3>1
      <4>3. kc # y => c = b \/ (IF s.key = y THEN s.count ELSE 0) >= 0
        BY <1>1
      <4> QED
        BY <1>1, <4>1, <4>2, <4>3
    <3>2. \A y \in K \ {x} : f(y) < e(y) => y = kb
      BY <1>1, <1>2, <1>3, <3>1
    <3> QED
      BY <3>2
  <2> QED
    BY <2>1, <2>2
<1> QED
  BY <1>5, <1>6, <1>7

(* The counts of a table, the second parts of a set of pairs, summed.      *)
CountsOf(t, B) == [b \in B |-> t[b].count]

LEMMA CountsIs ==
  ASSUME NEW B, IsFiniteSet(B), NEW t
  PROVE  MapThenSumSet(LAMBDA b : t[b].count, B) = SumOver(CountsOf(t, B), B)
<1> DEFINE a == CountsOf(t, B)
           E(h) == [s \in SUBSET B |->
                      IF s = {} THEN 0
                      ELSE t[CHOOSE b \in s : TRUE].count + h[s \ {CHOOSE b \in s : TRUE}]]
           i == CHOOSE h : h = E(h)
<1>1. PICK g : SumsOf(g, a, SUBSET B)
  BY SumsExist
<1>2. ASSUME NEW s \in SUBSET B, s # {}
      PROVE  a[Pick(s)] = t[Pick(s)].count
  <2>1. Pick(s) \in B
    BY <1>2, PickIn
  <2> QED
    BY <2>1 DEF CountsOf
<1>3. \A h : SumsOf(h, a, SUBSET B) <=> h = E(h)
  <2> HIDE DEF a
  <2> QED
    BY <1>2 DEF SumsOf, Pick
<1>4. i = E(i)
  <2> HIDE DEF E
  <2> QED
    BY <1>1, <1>3
<1>5. MapThenSumSet(LAMBDA b : t[b].count, B) = i[B]
  BY DEF MapThenSumSet, MapThenFoldSet
<1> HIDE DEF i, E
<1>6. SumsOf(i, a, SUBSET B)
  BY <1>3, <1>4
<1>7. PICK h : SumsOf(h, a, SUBSET B) /\ SumOver(a, B) = h[B]
  BY <1>6, SumOverIs
<1>8. i[B] = h[B]
  <2> HIDE DEF a
  <2> QED
    BY <1>6, <1>7, SumsUnique
<1> QED
  BY <1>5, <1>7, <1>8

Seconds(Q) == [r \in Q |-> r[2]]

LEMMA SecondsIs ==
  ASSUME NEW Q, IsFiniteSet(Q)
  PROVE  MapThenSumSet(LAMBDA r : r[2], Q) = SumOver(Seconds(Q), Q)
<1> DEFINE a == Seconds(Q)
           E(h) == [s \in SUBSET Q |->
                      IF s = {} THEN 0
                      ELSE (CHOOSE r \in s : TRUE)[2] + h[s \ {CHOOSE r \in s : TRUE}]]
           i == CHOOSE h : h = E(h)
<1>1. PICK g : SumsOf(g, a, SUBSET Q)
  BY SumsExist
<1>2. ASSUME NEW s \in SUBSET Q, s # {}
      PROVE  a[Pick(s)] = Pick(s)[2]
  <2>1. Pick(s) \in Q
    BY <1>2, PickIn
  <2> QED
    BY <2>1 DEF Seconds
<1>3. \A h : SumsOf(h, a, SUBSET Q) <=> h = E(h)
  <2> HIDE DEF a
  <2> QED
    BY <1>2 DEF SumsOf, Pick
<1>4. i = E(i)
  <2> HIDE DEF E
  <2> QED
    BY <1>1, <1>3
<1>5. MapThenSumSet(LAMBDA r : r[2], Q) = i[Q]
  BY DEF MapThenSumSet, MapThenFoldSet
<1> HIDE DEF i, E
<1>6. SumsOf(i, a, SUBSET Q)
  BY <1>3, <1>4
<1>7. PICK h : SumsOf(h, a, SUBSET Q) /\ SumOver(a, Q) = h[Q]
  BY <1>6, SumOverIs
<1>8. i[Q] = h[Q]
  <2> HIDE DEF a
  <2> QED
    BY <1>6, <1>7, SumsUnique
<1> QED
  BY <1>5, <1>7, <1>8

(* Part of the terms add up to no more than all of them.                   *)
LEMMA SumWithin ==
  ASSUME NEW S, IsFiniteSet(S), NEW a, \A x \in S : a[x] \in Nat, NEW T \in SUBSET S
  PROVE  SumOver(a, T) <= SumOver(a, S)
<1> DEFINE c == [x \in S |-> IF x \in T THEN a[x] ELSE 0]
           o == [x \in S |-> 0]
<1>1. /\ \A x \in S : /\ c[x] \in Nat /\ a[x] \in Nat /\ o[x] \in Nat
                       /\ c[x] <= a[x] + o[x] /\ c[x] \in Int
      /\ \A x \in S \ T : c[x] = 0
      /\ \A x \in T : c[x] = a[x]
      /\ \A x \in S : o[x] = 0
  OBVIOUS
<1> HIDE DEF c, o
<1>2. IsFiniteSet(T)
  BY FS_Subset
<1>3. SumOver(c, S) = SumOver(c, T)
  BY <1>1, SumRestrict
<1>4. SumOver(c, T) = SumOver(a, T)
  BY <1>1, <1>2, SumSame
<1>5. SumOver(c, S) <= SumOver(a, S) + SumOver(o, S)
  BY <1>1, SumAtMost
<1>6. SumOver(o, S) = 0 /\ SumOver(a, S) \in Nat
  BY <1>1, SumZero, SumNat
<1> QED
  BY <1>3, <1>4, <1>5, <1>6

(* Terms of at most m add up to at most m for each.                        *)
LEMMA SumBounded ==
  ASSUME NEW S, IsFiniteSet(S), NEW m \in Nat, NEW a, \A x \in S : a[x] \in Nat /\ a[x] <= m
  PROVE  SumOver(a, S) <= Cardinality(S) * m
<1> DEFINE F == {s \in SUBSET S : SumOver(a, s) <= Cardinality(s) * m}
<1>1. ASSUME NEW s \in SUBSET S, \A x \in s : s \ {x} \in F
      PROVE  s \in F
  <2>0. IsFiniteSet(s)
    BY FS_Subset
  <2>1. CASE s = {}
    <3>1. SumOver(a, s) = 0 /\ Cardinality(s) = 0
      BY <2>1, SumEmpty, FS_EmptySet
    <3> QED
      BY <3>1
  <2>2. CASE s # {}
    <3>1. PICK x \in s : TRUE
      BY <2>2
    <3> DEFINE r == s \ {x}
               k == Cardinality(r)
    <3>2. IsFiniteSet(r) /\ x \notin r /\ r \cup {x} = s /\ r \in F
      BY <1>1, <2>0, <3>1, FS_Subset
    <3>3. k \in Nat /\ Cardinality(s) = k + 1
      <4> HIDE DEF r
      <4>1. Cardinality(r \cup {x}) = k + 1
        BY <3>2, FS_AddElement
      <4> QED
        BY <3>2, <4>1, FS_CardinalityType
    <3>4. SumOver(a, s) = a[x] + SumOver(a, r)
      BY <2>0, <3>1, SumTake
    <3>5. SumOver(a, r) <= k * m /\ SumOver(a, r) \in Nat /\ a[x] \in Nat /\ a[x] <= m
      <4>1. SumOver(a, r) <= k * m
        BY <3>2
      <4>2. SumOver(a, r) \in Nat
        <5>1. \A y \in r : a[y] \in Nat
          OBVIOUS
        <5> HIDE DEF r
        <5> QED
          BY <3>2, <5>1, SumNat
      <4> QED
        BY <3>1, <4>1, <4>2
    <3>6. (k + 1) * m = k * m + m /\ k * m \in Nat
      <4> HIDE DEF k
      <4> QED
        BY <3>3
    <3> HIDE DEF r, k
    <3> QED
      BY <3>3, <3>4, <3>5, <3>6
  <2> QED
    BY <2>1, <2>2
<1>2. \A s \in SUBSET S : (\A x \in s : s \ {x} \in F) => s \in F
  BY <1>1
<1>3. \A s \in SUBSET S : s \in F
  <2> HIDE DEF F
  <2> QED
    BY <1>2, SubsetInduction
<1> QED
  BY <1>3

(* Fewer than den / num terms of at most t each do not add up to a sum of  *)
(* which t, cut off and not 0, is the share num / den.                     *)
LEMMA ShareTooSmall ==
  ASSUME NEW num \in Nat, NEW den \in Nat \ {0}, NEW sum \in Nat, NEW n \in Nat, NEW t \in Nat,
         t = (num * sum) \div den, t > 0, sum <= n * t, n * num < den
  PROVE  FALSE
<1>1. den * t <= num * sum
  <2>1. num * sum \in Nat
    OBVIOUS
  <2> DEFINE m == num * sum
  <2>2. m = den * (m \div den) + (m % den) /\ m % den >= 0 /\ m \div den \in Int
    <3> HIDE DEF m
    <3> QED
      BY <2>1 DEF m
  <2>3. den * t \in Int /\ m % den \in Int
    <3> HIDE DEF m
    <3> QED
      BY <2>1 DEF m
  <2> HIDE DEF m
  <2> QED
    BY <2>1, <2>2, <2>3 DEF m
<1>2. num * sum <= num * (n * t)
  <2> DEFINE m == n * t
  <2>1. m \in Nat /\ sum <= m
    OBVIOUS
  <2> HIDE DEF m
  <2> QED
    BY <2>1 DEF m
<1>3. num * (n * t) = (n * num) * t
  OBVIOUS
<1>4. (n * num) * t + t <= den * t
  <2> DEFINE k == n * num
  <2>1. k \in Nat /\ k + 1 <= den
    OBVIOUS
  <2> HIDE DEF k
  <2>2. (k + 1) * t <= den * t
    BY <2>1
  <2>3. (k + 1) * t = k * t + t
    BY <2>1
  <2> QED
    BY <2>2, <2>3 DEF k
<1> DEFINE a == den * t
           b == num * sum
           c == (n * num) * t
<1>5. a \in Int /\ b \in Int /\ c \in Int /\ a <= b /\ b <= c /\ c + t <= a
  BY <1>1, <1>2, <1>3, <1>4
<1> HIDE DEF a, b, c
<1> QED
  BY <1>5

(* What a table holds of all keys is what its buckets count.               *)
LEMMA HeldTotal ==
  ASSUME NEW B, IsFiniteSet(B), NEW K, IsFiniteSet(K), NEW t, IsTable(t, B),
         \A b \in B : t[b].key \in K
  PROVE  SumOver([y \in K |-> Held(t, B, y)], K) = SumOver(CountsOf(t, B), B)
<1> DEFINE h(s) == [y \in K |-> Held(t, s, y)]
           a == CountsOf(t, B)
           F == {s \in SUBSET B : SumOver(h(s), K) = SumOver(a, s)}
<1>1. ASSUME NEW s \in SUBSET B, \A x \in s : s \ {x} \in F
      PROVE  s \in F
  <2>0. IsFiniteSet(s) /\ IsTable(t, s)
    BY FS_Subset DEF IsTable
  <2>1. CASE s = {}
    <3>1. \A y \in K : h(s)[y] = 0
      <4> SUFFICES ASSUME NEW y \in K PROVE Held(t, s, y) = 0
        OBVIOUS
      <4> QED
        BY <2>0, <2>1, HeldNone
    <3>2. SumOver(h(s), K) = 0
      <4> HIDE DEF h
      <4> QED
        BY <3>1, SumZero
    <3>3. SumOver(a, s) = 0
      BY <2>1, SumEmpty
    <3> HIDE DEF h, a
    <3> QED
      BY <3>2, <3>3
  <2>2. CASE s # {}
    <3>1. PICK x \in s : TRUE
      BY <2>2
    <3> DEFINE r == s \ {x}
               k == t[x].key
    <3>2. r \in F /\ k \in K /\ IsFiniteSet(r) /\ IsTable(t, r) /\ t[x].count \in Nat
      BY <1>1, <2>0, <3>1, FS_Subset DEF IsTable
    <3>3. ASSUME NEW y \in K
          PROVE  /\ Held(t, s, y) \in Int /\ Held(t, r, y) \in Int
                 /\ Held(t, s, y) = Held(t, r, y) + Part(t[x], y)
      <4> DEFINE p == [b \in s |-> Part(t[b], y)]
                 q == [b \in r |-> Part(t[b], y)]
      <4>1. /\ \A b \in s : p[b] \in Int
            /\ \A b \in r : p[b] = q[b]
            /\ p[x] = Part(t[x], y)
        BY <2>0, <3>1 DEF IsTable, Part
      <4>2. Held(t, s, y) = SumOver(p, s) /\ Held(t, r, y) = SumOver(q, r)
        BY <2>0, <3>2, HeldIs
      <4> HIDE DEF p, q, r
      <4>3. SumOver(p, s) = p[x] + SumOver(p, s \ {x})
        BY <2>0, <3>1, <4>1, SumTake
      <4>4. SumOver(p, r) = SumOver(q, r)
        BY <3>2, <4>1, SumSame
      <4>5. Held(t, s, y) \in Nat /\ Held(t, r, y) \in Nat
        BY <2>0, <3>2, HeldNat
      <4>6. Part(t[x], y) \in Int
        BY <3>2 DEF Part
      <4> QED
        BY <4>1, <4>2, <4>3, <4>4, <4>5, <4>6 DEF r
    <3>4. SumOver(h(s), K) = SumOver(h(r), K) + t[x].count
      <4>1. /\ \A y \in K : h(r)[y] \in Int /\ h(s)[y] \in Int
            /\ \A y \in K \ {k} : h(r)[y] = h(s)[y]
            /\ h(s)[k] = h(r)[k] + t[x].count
        <5> HIDE DEF r
        <5> QED
          BY <3>2, <3>3 DEF Part
      <4>2. SumOver(h(s), K) = SumOver(h(r), K) + h(s)[k] - h(r)[k]
        <5> HIDE DEF h, r, k
        <5> QED
          BY <3>2, <4>1, SumChange
      <4>3. SumOver(h(r), K) \in Int
        <5> HIDE DEF h, r
        <5> QED
          BY <4>1, SumInt
      <4> HIDE DEF h, r, k
      <4> QED
        BY <3>2, <4>1, <4>2, <4>3
    <3>5. SumOver(a, s) = t[x].count + SumOver(a, r)
      <4>1. \A b \in s : a[b] \in Int
        BY <2>0 DEF CountsOf, IsTable
      <4>2. a[x] = t[x].count
        BY <3>1 DEF CountsOf
      <4> HIDE DEF a
      <4> QED
        BY <2>0, <3>1, <4>1, <4>2, SumTake
    <3>6. SumOver(h(r), K) = SumOver(a, r)
      BY <3>2
    <3>7. SumOver(a, r) \in Int
      <4>1. \A b \in r : a[b] \in Int
        BY <3>2 DEF CountsOf, IsTable
      <4> HIDE DEF a, r
      <4> QED
        BY <3>2, <4>1, SumInt
    <3> HIDE DEF h, a, r
    <3> QED
      BY <3>2, <3>4, <3>5, <3>6, <3>7
  <2> QED
    BY <2>1, <2>2
<1>2. \A s \in SUBSET B : (\A x \in s : s \ {x} \in F) => s \in F
  BY <1>1
<1>3. \A s \in SUBSET B : s \in F
  <2> HIDE DEF F
  <2> QED
    BY <1>2, SubsetInduction
<1> QED
  BY <1>3
=============================================================================
