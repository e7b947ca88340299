--------------------------- MODULE MVSketchProofs ---------------------------
(***************************************************************************)
(* The estimates of MVSketch bracket every flow, for every shape of the    *)
(* table, every hash family, and merges of any number of sketches.         *)
(***************************************************************************)
EXTENDS MVSketch, FiniteSums

----------------------------------------------------------------------------
(* Sums over an array *)

(* Total is the last of the partial sums. *)
LEMMA TotalParts ==
  ASSUME NEW n \in Nat, NEW a, \A i \in 1 .. n : a[i] \in Int
  PROVE  \E part \in [0 .. n -> Int] :
           /\ part[0] = 0
           /\ \A i \in 1 .. n : part[i] = part[i - 1] + a[i]
           /\ Total(a, n) = part[n]
<1> DEFINE Sums(p, m) == /\ p \in [0 .. m -> Int]
                         /\ p[0] = 0
                         /\ \A i \in 1 .. m : p[i] = p[i - 1] + a[i]
           S == {m \in Nat : \E p : Sums(p, m)}
           Step(p) == [i \in 0 .. n |-> IF i = 0 THEN 0 ELSE p[i - 1] + a[i]]
           part == CHOOSE p : p = Step(p)
<1>1. 0 \in S
  <2>1. Sums([i \in 0 .. 0 |-> 0], 0)
    OBVIOUS
  <2> HIDE DEF Sums
  <2> QED
    BY <2>1
<1>2. ASSUME NEW m \in Nat, m \in S, m + 1 <= n
      PROVE  m + 1 \in S
  <2>1. PICK p : Sums(p, m)
    BY <1>2
  <2> DEFINE q == [i \in 0 .. m + 1 |-> IF i = m + 1 THEN p[m] + a[m + 1] ELSE p[i]]
  <2>2. a[m + 1] \in Int /\ p[m] \in Int
    BY <1>2, <2>1
  <2>3. q \in [0 .. m + 1 -> Int] /\ q[0] = 0
    BY <2>1, <2>2
  <2>4. ASSUME NEW i \in 1 .. m + 1
        PROVE  q[i] = q[i - 1] + a[i]
    <3>1. CASE i = m + 1
      BY <3>1
    <3>2. CASE i # m + 1
      BY <2>1, <3>2
    <3> QED
      BY <3>1, <3>2
  <2>5. Sums(q, m + 1)
    BY <2>3, <2>4
  <2> HIDE DEF Sums, q
  <2> QED
    BY <2>5
<1>3. n \in S
  <2> HIDE DEF S
  <2>1. \A m \in 0 .. n : m \in S
    BY <1>1, <1>2, UpTo
  <2> QED
    BY <2>1
<1>4. PICK p : Sums(p, n)
  BY <1>3
<1>5. p = Step(p)
  BY <1>4
<1>6. part = Step(part)
  <2> HIDE DEF Step
  <2> QED
    BY <1>5
<1>7. Total(a, n) = part[n]
  BY DEF Total
<1> HIDE DEF part
<1>8. part[0] = 0 /\ \A i \in 1 .. n : part[i] = part[i - 1] + a[i]
  BY <1>6
<1> DEFINE V == {m \in Nat : m <= n => part[m] \in Int}
<1>9. \A m \in 0 .. n : m \in V
  <2>1. 0 \in V
    BY <1>8
  <2>2. ASSUME NEW m \in Nat, m \in V, m + 1 <= n
        PROVE  m + 1 \in V
    <3>1. part[m + 1] = part[m] + a[m + 1]
      BY <1>8, <2>2
    <3> QED
      BY <2>2, <3>1
  <2> HIDE DEF V
  <2> QED
    BY <2>1, <2>2, UpTo
<1>10. part \in [0 .. n -> Int]
  BY <1>6, <1>9
<1> QED
  BY <1>7, <1>8, <1>10

LEMMA AddBoth ==
  ASSUME NEW p \in Int, NEW q \in Int, NEW r \in Int, NEW s \in Int,
         NEW a \in Int, NEW b \in Int, NEW c \in Int, NEW d \in Int,
         p + q <= r + s, a + b <= c + d
  PROVE  (p + a) + (q + b) <= (r + c) + (s + d)
  OBVIOUS

(* Sums compare as their terms do. *)
LEMMA TotalCompare ==
  ASSUME NEW n \in Nat, NEW a, NEW b, NEW c, NEW d,
         \A i \in 1 .. n : /\ a[i] \in Int /\ b[i] \in Int /\ c[i] \in Int /\ d[i] \in Int
                           /\ a[i] + b[i] <= c[i] + d[i]
  PROVE  /\ Total(a, n) \in Int /\ Total(b, n) \in Int
         /\ Total(c, n) \in Int /\ Total(d, n) \in Int
         /\ Total(a, n) + Total(b, n) <= Total(c, n) + Total(d, n)
<1>1. PICK pa \in [0 .. n -> Int] : /\ pa[0] = 0 /\ Total(a, n) = pa[n]
                                    /\ \A i \in 1 .. n : pa[i] = pa[i - 1] + a[i]
  BY TotalParts
<1>2. PICK pb \in [0 .. n -> Int] : /\ pb[0] = 0 /\ Total(b, n) = pb[n]
                                    /\ \A i \in 1 .. n : pb[i] = pb[i - 1] + b[i]
  BY TotalParts
<1>3. PICK pc \in [0 .. n -> Int] : /\ pc[0] = 0 /\ Total(c, n) = pc[n]
                                    /\ \A i \in 1 .. n : pc[i] = pc[i - 1] + c[i]
  BY TotalParts
<1>4. PICK pd \in [0 .. n -> Int] : /\ pd[0] = 0 /\ Total(d, n) = pd[n]
                                    /\ \A i \in 1 .. n : pd[i] = pd[i - 1] + d[i]
  BY TotalParts
<1> DEFINE S == {m \in Nat : m <= n => pa[m] + pb[m] <= pc[m] + pd[m]}
<1>5. 0 \in S
  BY <1>1, <1>2, <1>3, <1>4
<1>6. ASSUME NEW m \in Nat, m \in S, m + 1 <= n
      PROVE  m + 1 \in S
  <2>1. m + 1 \in 1 .. n /\ m \in 0 .. n /\ (m + 1) - 1 = m
    BY <1>6
  <2>2. /\ pa[m + 1] = pa[m] + a[m + 1] /\ pb[m + 1] = pb[m] + b[m + 1]
        /\ pc[m + 1] = pc[m] + c[m + 1] /\ pd[m + 1] = pd[m] + d[m + 1]
    BY <1>1, <1>2, <1>3, <1>4, <2>1
  <2>3. /\ pa[m] \in Int /\ pb[m] \in Int /\ pc[m] \in Int /\ pd[m] \in Int
        /\ a[m + 1] \in Int /\ b[m + 1] \in Int /\ c[m + 1] \in Int /\ d[m + 1] \in Int
        /\ a[m + 1] + b[m + 1] <= c[m + 1] + d[m + 1]
        /\ pa[m] + pb[m] <= pc[m] + pd[m]
    BY <1>6, <2>1
  <2>5. m + 1 \in Nat
    OBVIOUS
  <2>4. (pa[m] + a[m + 1]) + (pb[m] + b[m + 1]) <= (pc[m] + c[m + 1]) + (pd[m] + d[m + 1])
    BY <2>3, AddBoth, Zenon
  <2> QED
    BY <2>2, <2>4, <2>5, Zenon
<1>7. n \in S
  <2> HIDE DEF S
  <2>1. \A m \in 0 .. n : m \in S
    BY <1>5, <1>6, UpTo
  <2> QED
    BY <2>1
<1> QED
  BY <1>1, <1>2, <1>3, <1>4, <1>7

LEMMA TotalZero ==
  ASSUME NEW n \in Nat, NEW a, \A i \in 1 .. n : a[i] \in Int /\ a[i] = 0
  PROVE  Total(a, n) = 0
<1>0. \A i \in 1 .. n : a[i] \in Int
  OBVIOUS
<1>1. PICK p \in [0 .. n -> Int] : /\ p[0] = 0
                                   /\ \A i \in 1 .. n : p[i] = p[i - 1] + a[i]
                                   /\ Total(a, n) = p[n]
  BY <1>0, TotalParts, Zenon
<1> DEFINE S == {m \in Nat : m <= n => p[m] = 0}
<1>2. 0 \in S
  BY <1>1
<1>3. ASSUME NEW m \in Nat, m \in S, m + 1 <= n
      PROVE  m + 1 \in S
  <2>1. p[m + 1] = p[m] + a[m + 1] /\ p[m] = 0 /\ a[m + 1] = 0
    BY <1>1, <1>3
  <2> QED
    BY <2>1
<1>4. n \in S
  <2> HIDE DEF S
  <2>1. \A m \in 0 .. n : m \in S
    BY <1>2, <1>3, UpTo
  <2> QED
    BY <2>1
<1> QED
  BY <1>1, <1>4

(* A sum of naturals is a natural, and no less than any of its terms. *)
LEMMA TotalNat ==
  ASSUME NEW n \in Nat, NEW a, \A i \in 1 .. n : a[i] \in Nat
  PROVE  Total(a, n) \in Nat /\ \A j \in 1 .. n : a[j] <= Total(a, n)
<1>0. \A i \in 1 .. n : a[i] \in Int
  OBVIOUS
<1>1. PICK p \in [0 .. n -> Int] : /\ p[0] = 0 /\ Total(a, n) = p[n]
                                   /\ \A i \in 1 .. n : p[i] = p[i - 1] + a[i]
  BY <1>0, TotalParts
<1> DEFINE S == {m \in Nat : m <= n => p[m] >= 0 /\ \A j \in 1 .. m : a[j] <= p[m]}
<1>2. 0 \in S
  BY <1>1
<1>3. ASSUME NEW m \in Nat, m \in S, m + 1 <= n
      PROVE  m + 1 \in S
  <2>1. m + 1 \in 1 .. n /\ m \in 0 .. n /\ (m + 1) - 1 = m
    BY <1>3
  <2>2. p[m + 1] = p[m] + a[m + 1] /\ p[m] \in Int /\ p[m] >= 0 /\ a[m + 1] \in Nat
    BY <1>1, <1>3, <2>1
  <2>3. ASSUME NEW j \in 1 .. m + 1
        PROVE  a[j] <= p[m + 1]
    <3>1. CASE j = m + 1
      BY <2>2, <3>1
    <3>2. CASE j # m + 1
      <4>1. j \in 1 .. m /\ a[j] \in Nat /\ a[j] <= p[m]
        BY <1>3, <2>1, <3>2
      <4> QED
        BY <2>2, <4>1
    <3> QED
      BY <3>1, <3>2
  <2> QED
    BY <2>2, <2>3
<1>4. n \in S
  <2> HIDE DEF S
  <2>1. \A m \in 0 .. n : m \in S
    BY <1>2, <1>3, UpTo
  <2> QED
    BY <2>1
<1> QED
  BY <1>1, <1>4

----------------------------------------------------------------------------
(* Buckets *)

Bucket == [key : Keys, sum : Nat, count : Nat]

(* n counts no flow that begins with a zero byte and has its home in b.    *)
Clean(n, b) == \A y \in NulFirst : n[y] > 0 => b # Probe(y, b[1])

(* Bucket b with content e is a sound summary of the packets n: the lead   *)
(* is real and of a flow that belongs here, and no flow has more than the  *)
(* votes leave it.                                                         *)
Sound(e, n, b) ==
  /\ e.count <= e.sum
  /\ e.count <= n[e.key]
  /\ e.count > 0 => b = Probe(e.key, b[1])
  /\ Clean(n, b) =>
       \A x \in Keys : b = Probe(x, b[1]) =>
         2 * n[x] <= IF e.key = x THEN e.sum + e.count ELSE e.sum - e.count

IInv == TypeOK /\ \A s \in Sketches, b \in Buckets : Sound(mv[s][b], seen[s], b)

(* A packet of x keeps a bucket sound, be it in a home of x or not.        *)
LEMMA VotedSound ==
  ASSUME NEW e \in Bucket, NEW n \in [Keys -> Nat], NEW b \in Buckets, NEW x \in Keys,
         b = Probe(x, b[1]), Sound(e, n, b)
  PROVE  Voted(e, x) \in Bucket /\ Sound(Voted(e, x), [n EXCEPT ![x] = @ + 1], b)
<1> DEFINE m == [n EXCEPT ![x] = @ + 1]
           v == Voted(e, x)
<1>1. /\ m \in [Keys -> Nat] /\ m[x] = n[x] + 1
      /\ \A y \in Keys \ {x} : m[y] = n[y]
  OBVIOUS
<1>2. e.key \in Keys /\ e.sum \in Nat /\ e.count \in Nat /\ n[x] \in Nat /\ n[e.key] \in Nat
  BY DEF Bucket
<1>3. e.count <= e.sum /\ e.count <= n[e.key]
  BY DEF Sound
<1>4. Clean(m, b) => Clean(n, b) /\ x \notin NulFirst
  <2>1. NulFirst \subseteq Keys
    BY MVAssumption
  <2>2. \A y \in Keys : n[y] > 0 => m[y] > 0
    BY <1>1, <1>2
  <2>3. m[x] > 0
    BY <1>1, <1>2
  <2> HIDE DEF m
  <2> QED
    BY <2>1, <2>2, <2>3 DEF Clean
<1>5. CASE Replaces(e, x)
  <2>1. v.key = x /\ v.sum = e.sum + 1 /\ v.count = 1 /\ v \in Bucket
    BY <1>2, <1>5 DEF Voted, Bucket
  <2>2. v.count <= v.sum /\ v.count <= m[v.key]
    BY <1>1, <1>2, <2>1
  <2>3. ASSUME Clean(m, b), NEW y \in Keys, b = Probe(y, b[1])
        PROVE  2 * m[y] <= IF v.key = y THEN v.sum + v.count ELSE v.sum - v.count
    <3>1. 2 * n[y] <= IF e.key = y THEN e.sum + e.count ELSE e.sum - e.count
      BY <1>4, <2>3 DEF Sound
    <3>2. e.count = 0
      <4>1. CASE e.key \in NulFirst
        <5>1. n[e.key] > 0 /\ e.count > 0 => FALSE
          BY <1>4, <2>3, <4>1 DEF Clean, Sound
        <5> QED
          BY <1>2, <1>3, <5>1
      <4> QED
        BY <1>5, <4>1 DEF Replaces
    <3>3. 2 * n[y] <= e.sum /\ n[y] \in Nat
      BY <1>2, <3>1, <3>2
    <3> HIDE DEF m, v
    <3>4. CASE y = x
      BY <1>1, <1>2, <2>1, <3>3, <3>4
    <3>5. CASE y # x
      BY <1>1, <1>2, <2>1, <3>3, <3>5
    <3> QED
      BY <3>4, <3>5
  <2> HIDE DEF m, v
  <2>4. Sound(v, m, b)
    BY <2>1, <2>2, <2>3 DEF Sound
  <2> QED
    BY <2>1, <2>4 DEF m, v
<1>6. CASE ~Replaces(e, x) /\ e.key = x
  <2>1. v.key = x /\ v.sum = e.sum + 1 /\ v.count = e.count + 1 /\ v \in Bucket
    BY <1>2, <1>6 DEF Voted, Bucket
  <2>2. v.count <= v.sum /\ v.count <= m[v.key]
    BY <1>1, <1>2, <1>3, <1>6, <2>1
  <2>3. ASSUME Clean(m, b), NEW y \in Keys, b = Probe(y, b[1])
        PROVE  2 * m[y] <= IF v.key = y THEN v.sum + v.count ELSE v.sum - v.count
    <3>1. 2 * n[y] <= IF e.key = y THEN e.sum + e.count ELSE e.sum - e.count
      BY <1>4, <2>3 DEF Sound
    <3>2. n[y] \in Nat
      OBVIOUS
    <3> HIDE DEF m, v
    <3>3. CASE y = x
      BY <1>1, <1>2, <1>6, <2>1, <3>1, <3>2, <3>3
    <3>4. CASE y # x
      BY <1>1, <1>2, <1>6, <2>1, <3>1, <3>2, <3>4
    <3> QED
      BY <3>3, <3>4
  <2> HIDE DEF m, v
  <2>4. Sound(v, m, b)
    BY <2>1, <2>2, <2>3 DEF Sound
  <2> QED
    BY <2>1, <2>4 DEF m, v
<1>7. CASE ~Replaces(e, x) /\ e.key # x
  <2>1. e.count > 0
    BY <1>2, <1>7 DEF Replaces
  <2>2. v.key = e.key /\ v.sum = e.sum + 1 /\ v.count = e.count - 1 /\ v \in Bucket
    BY <1>2, <1>7, <2>1 DEF Voted, Bucket
  <2>3. v.count <= v.sum /\ v.count <= m[v.key]
    BY <1>1, <1>2, <1>3, <1>7, <2>2
  <2>4. b = Probe(v.key, b[1])
    BY <2>1, <2>2 DEF Sound
  <2>5. ASSUME Clean(m, b), NEW y \in Keys, b = Probe(y, b[1])
        PROVE  2 * m[y] <= IF v.key = y THEN v.sum + v.count ELSE v.sum - v.count
    <3>1. 2 * n[y] <= IF e.key = y THEN e.sum + e.count ELSE e.sum - e.count
      BY <1>4, <2>5 DEF Sound
    <3>2. n[y] \in Nat
      OBVIOUS
    <3> HIDE DEF m, v
    <3>3. CASE y = x
      BY <1>1, <1>2, <1>7, <2>2, <3>1, <3>2, <3>3
    <3>4. CASE y # x
      BY <1>1, <1>2, <1>7, <2>2, <3>1, <3>2, <3>4
    <3> QED
      BY <3>3, <3>4
  <2> HIDE DEF m, v
  <2>6. Sound(v, m, b)
    BY <2>2, <2>3, <2>4, <2>5 DEF Sound
  <2> QED
    BY <2>2, <2>6 DEF m, v
<1> QED
  BY <1>5, <1>6, <1>7

LEMMA OtherSound ==
  ASSUME NEW e \in Bucket, NEW n \in [Keys -> Nat], NEW b \in Buckets, NEW x \in Keys,
         b # Probe(x, b[1]), Sound(e, n, b)
  PROVE  Sound(e, [n EXCEPT ![x] = @ + 1], b)
<1> DEFINE m == [n EXCEPT ![x] = @ + 1]
<1>1. /\ m \in [Keys -> Nat]
      /\ \A y \in Keys : n[y] <= m[y] /\ (y # x => m[y] = n[y])
  OBVIOUS
<1>2. e.key \in Keys /\ e.count \in Nat
  BY DEF Bucket
<1>3. e.count <= m[e.key]
  <2>1. e.count <= n[e.key] /\ n[e.key] \in Nat /\ m[e.key] \in Nat /\ n[e.key] <= m[e.key]
    BY <1>1, <1>2 DEF Sound
  <2> HIDE DEF m
  <2> QED
    BY <1>2, <2>1
<1> HIDE DEF m
<1>4. Clean(m, b) => Clean(n, b)
  <2>1. NulFirst \subseteq Keys
    BY MVAssumption
  <2>2. \A y \in Keys : n[y] > 0 => m[y] > 0
    BY <1>1
  <2> QED
    BY <2>1, <2>2 DEF Clean
<1>5. \A y \in Keys : b = Probe(y, b[1]) => m[y] = n[y]
  BY <1>1
<1>6. Sound(e, m, b)
  BY <1>3, <1>4, <1>5 DEF Sound
<1> QED
  BY <1>6 DEF m

(* What the shares of bucket b say of its flows, sketch by sketch.         *)
LEMMA ShareFacts ==
  ASSUME NEW e \in Bucket, NEW n \in [Keys -> Nat], NEW b \in Buckets, Sound(e, n, b),
         NEW x \in Keys
  PROVE  /\ Share(e, x) \in Nat /\ e.sum \in Nat /\ n[x] \in Nat
         /\ Share(e, x) <= e.sum
         /\ 2 * Share(e, x) <= e.sum + n[x]
         /\ \A y \in Keys \ {x} : Share(e, x) + Share(e, y) <= e.sum
         /\ b # Probe(x, b[1]) => 2 * Share(e, x) <= e.sum
         /\ \A y \in Keys : e.key # x => Share(e, x) <= Share(e, y)
         /\ Clean(n, b) /\ b = Probe(x, b[1]) => n[x] <= Share(e, x)
<1>1. e.key \in Keys /\ e.sum \in Nat /\ e.count \in Nat /\ n[x] \in Nat
      /\ e.count <= e.sum /\ (e.key = x => e.count <= n[x])
  BY DEF Bucket, Sound
<1>2. \A y \in Keys : Share(e, y) = IF e.key = y THEN (e.sum + e.count) \div 2
                                     ELSE (e.sum - e.count) \div 2
  BY DEF Share
<1>3. /\ (e.sum + e.count) \div 2 \in Nat /\ (e.sum - e.count) \div 2 \in Nat
      /\ 2 * ((e.sum + e.count) \div 2) <= e.sum + e.count
      /\ 2 * ((e.sum - e.count) \div 2) <= e.sum - e.count
      /\ \A m \in Nat : /\ 2 * m <= e.sum + e.count => m <= (e.sum + e.count) \div 2
                        /\ 2 * m <= e.sum - e.count => m <= (e.sum - e.count) \div 2
  BY <1>1
<1>4. b # Probe(x, b[1]) /\ e.key = x => e.count = 0
  BY <1>1 DEF Sound
<1>5. Clean(n, b) /\ b = Probe(x, b[1]) =>
        2 * n[x] <= IF e.key = x THEN e.sum + e.count ELSE e.sum - e.count
  BY DEF Sound
<1> QED
  BY <1>1, <1>2, <1>3, <1>4, <1>5

(* Merging the tables of an array keeps bucket b sound, for the packets of *)
(* all its sketches together.                                              *)
LEMMA MergedSound ==
  ASSUME IInv, NEW arr \in Arrays, NEW b \in Buckets, NEW p \in DOMAIN arr,
         IsPointer(arr, b, p)
  PROVE  LET m == Merged(arr, b, mv[arr[p]][b].key)
             N == [x \in Keys |-> TotalOf(arr, LAMBDA s : seen[s][x])]
         IN  m \in Bucket /\ N \in [Keys -> Nat] /\ Sound(m, N, b)
<1> DEFINE L      == Len(arr)
           e(j)   == mv[arr[j]][b]
           k      == e(p).key
           m      == Merged(arr, b, k)
           N      == [x \in Keys |-> TotalOf(arr, LAMBDA s : seen[s][x])]
           Sums   == [j \in DOMAIN arr |-> mv[arr[j]][b].sum]
           Sh(x)  == [j \in DOMAIN arr |-> Share(mv[arr[j]][b], x)]
           Seen(x) == [j \in DOMAIN arr |-> seen[arr[j]][x]]
           Zero   == [j \in DOMAIN arr |-> 0]
           total  == Total(Sums, L)
           est(x) == Total(Sh(x), L)
<1>1. L \in Nat /\ DOMAIN arr = 1 .. L /\ \A j \in 1 .. L : arr[j] \in Sketches
  BY MVAssumption
<1>2. \A j \in 1 .. L : /\ mv[arr[j]][b] \in Bucket /\ seen[arr[j]] \in [Keys -> Nat]
                        /\ Sound(mv[arr[j]][b], seen[arr[j]], b)
  BY <1>1 DEF IInv, TypeOK, Bucket
<1>3. k \in Keys
  BY <1>1, <1>2 DEF Bucket
<1>4. \A x : Est(arr, b, x) = est(x) /\ (x \in Keys => N[x] = Total(Seen(x), L))
  BY DEF Est, TotalOf
<1>5. ASSUME NEW j \in 1 .. L, NEW x \in Keys
      PROVE  /\ Sh(x)[j] = Share(e(j), x) /\ Seen(x)[j] = seen[arr[j]][x]
             /\ Sums[j] = e(j).sum /\ Zero[j] = 0
             /\ Sh(x)[j] \in Nat /\ Seen(x)[j] \in Nat /\ Sums[j] \in Nat
             /\ Sh(x)[j] <= Sums[j]
             /\ 2 * Sh(x)[j] <= Sums[j] + Seen(x)[j]
             /\ \A y \in Keys \ {x} : Sh(x)[j] + Sh(y)[j] <= Sums[j]
             /\ b # Probe(x, b[1]) => 2 * Sh(x)[j] <= Sums[j]
             /\ \A y \in Keys : e(j).key # x => Sh(x)[j] <= Sh(y)[j]
             /\ Clean(seen[arr[j]], b) /\ b = Probe(x, b[1]) => Seen(x)[j] <= Sh(x)[j]
  <2>1. /\ Sh(x)[j] = Share(e(j), x) /\ Seen(x)[j] = seen[arr[j]][x]
        /\ Sums[j] = e(j).sum /\ Zero[j] = 0 /\ \A y : Sh(y)[j] = Share(e(j), y)
    BY <1>1
  <2>2. /\ Share(e(j), x) \in Nat /\ e(j).sum \in Nat /\ seen[arr[j]][x] \in Nat
        /\ Share(e(j), x) <= e(j).sum
        /\ 2 * Share(e(j), x) <= e(j).sum + seen[arr[j]][x]
        /\ \A y \in Keys \ {x} : Share(e(j), x) + Share(e(j), y) <= e(j).sum
        /\ b # Probe(x, b[1]) => 2 * Share(e(j), x) <= e(j).sum
        /\ \A y \in Keys : e(j).key # x => Share(e(j), x) <= Share(e(j), y)
        /\ Clean(seen[arr[j]], b) /\ b = Probe(x, b[1]) => seen[arr[j]][x] <= Share(e(j), x)
    <3>1. e(j) \in Bucket /\ seen[arr[j]] \in [Keys -> Nat] /\ Sound(e(j), seen[arr[j]], b)
      BY <1>2
    <3> HIDE DEF e
    <3> QED
      BY <3>1, ShareFacts, Zenon
  <2> HIDE DEF Sh, Seen, Sums, Zero, e
  <2> QED
    BY <2>1, <2>2
<1>10. \A j \in 1 .. L : Zero[j] \in Int /\ Zero[j] = 0
  BY <1>1
<1> HIDE DEF L, Sh, Seen, Sums, Zero, N
<1>11. Total(Zero, L) = 0
  BY <1>1, <1>10, TotalZero
<1>12. /\ total \in Nat
       /\ \A x \in Keys : est(x) \in Nat /\ Total(Seen(x), L) \in Nat
  <2>1. \A j \in 1 .. L : Sums[j] \in Nat
    BY <1>3, <1>5
  <2>2. \A x \in Keys : \A j \in 1 .. L : Sh(x)[j] \in Nat /\ Seen(x)[j] \in Nat
    BY <1>5
  <2> QED
    BY <1>1, <2>1, <2>2, TotalNat
<1> HIDE DEF e, k
<1>13. ASSUME NEW x \in Keys
       PROVE  est(x) <= total
  <2>1. \A j \in 1 .. L : /\ Sh(x)[j] \in Int /\ Zero[j] \in Int /\ Sums[j] \in Int
                          /\ Sh(x)[j] + Zero[j] <= Sums[j] + Zero[j]
    BY <1>5, <1>10
  <2>2. est(x) + Total(Zero, L) <= total + Total(Zero, L)
    BY <1>1, <2>1, TotalCompare
  <2> HIDE DEF est, total
  <2> QED
    BY <1>11, <1>12, <2>2
<1>14. ASSUME NEW x \in Keys
       PROVE  2 * est(x) <= total + Total(Seen(x), L)
  <2>1. \A j \in 1 .. L : /\ Sh(x)[j] \in Int /\ Seen(x)[j] \in Int /\ Sums[j] \in Int
                          /\ Sh(x)[j] + Sh(x)[j] <= Sums[j] + Seen(x)[j]
    BY <1>5
  <2>2. est(x) + est(x) <= total + Total(Seen(x), L)
    BY <1>1, <2>1, TotalCompare
  <2> HIDE DEF est, total
  <2> QED
    BY <1>12, <2>2
<1>15. ASSUME NEW x \in Keys, NEW y \in Keys, x # y
       PROVE  est(x) + est(y) <= total
  <2>1. \A j \in 1 .. L : /\ Sh(x)[j] \in Int /\ Sh(y)[j] \in Int /\ Sums[j] \in Int
                          /\ Zero[j] \in Int /\ Sh(x)[j] + Sh(y)[j] <= Sums[j] + Zero[j]
    BY <1>5, <1>10, <1>15
  <2>2. est(x) + est(y) <= total + Total(Zero, L)
    BY <1>1, <2>1, TotalCompare
  <2> HIDE DEF est, total
  <2> QED
    BY <1>11, <1>12, <2>2
<1>16. ASSUME NEW x \in Keys, b # Probe(x, b[1])
       PROVE  2 * est(x) <= total
  <2>1. \A j \in 1 .. L : /\ Sh(x)[j] \in Int /\ Sums[j] \in Int
                          /\ Zero[j] \in Int /\ Sh(x)[j] + Sh(x)[j] <= Sums[j] + Zero[j]
    BY <1>5, <1>10, <1>16
  <2>2. est(x) + est(x) <= total + Total(Zero, L)
    BY <1>1, <2>1, TotalCompare
  <2> HIDE DEF est, total
  <2> QED
    BY <1>11, <1>12, <2>2
<1>17. ASSUME NEW x \in Keys
       PROVE  est(x) <= est(k)
  <2>1. CASE \E q \in 1 .. L : x = e(q).key
    <3>1. PICK q \in 1 .. L : x = e(q).key
      BY <2>1
    <3>2. est(e(q).key) <= est(e(p).key)
      <4>1. Est(arr, b, e(q).key) < Est(arr, b, e(p).key)
            \/ Est(arr, b, e(q).key) = Est(arr, b, e(p).key)
        BY <1>1 DEF IsPointer, e
      <4>2. e(q).key \in Keys /\ e(p).key \in Keys
        BY <1>3, <3>1 DEF k
      <4> HIDE DEF est
      <4> QED
        BY <1>4, <1>12, <4>1, <4>2
    <3> QED
      BY <3>1, <3>2 DEF k
  <2>2. CASE \A q \in 1 .. L : x # e(q).key
    <3>1. \A j \in 1 .. L : /\ Sh(x)[j] \in Int /\ Sh(k)[j] \in Int
                            /\ Zero[j] \in Int /\ Sh(x)[j] + Zero[j] <= Sh(k)[j] + Zero[j]
      BY <1>3, <1>5, <1>10, <2>2
    <3>2. est(x) + Total(Zero, L) <= est(k) + Total(Zero, L)
      BY <1>1, <3>1, TotalCompare
    <3> HIDE DEF est
    <3> QED
      BY <1>3, <1>11, <1>12, <3>2
  <2> QED
    BY <2>1, <2>2
<1>18. ASSUME Clean(N, b), NEW x \in Keys, b = Probe(x, b[1])
       PROVE  N[x] <= est(x)
  <2>1. ASSUME NEW j \in 1 .. L
        PROVE  Clean(seen[arr[j]], b)
    <3>1. ASSUME NEW y \in NulFirst, seen[arr[j]][y] > 0
          PROVE  N[y] > 0
      <4>1. y \in Keys
        BY MVAssumption
      <4>2. \A i \in 1 .. L : Seen(y)[i] \in Nat
        BY <1>5, <4>1
      <4>3. Seen(y)[j] <= Total(Seen(y), L) /\ Seen(y)[j] > 0
        BY <1>1, <1>5, <3>1, <4>1, <4>2, TotalNat
      <4> QED
        BY <1>4, <1>12, <4>1, <4>2, <4>3
    <3> QED
      BY <1>18, <3>1 DEF Clean
  <2>2. \A j \in 1 .. L : /\ Seen(x)[j] \in Int /\ Sh(x)[j] \in Int
                          /\ Zero[j] \in Int /\ Seen(x)[j] + Zero[j] <= Sh(x)[j] + Zero[j]
    BY <1>5, <1>10, <1>18, <2>1
  <2>3. Total(Seen(x), L) + Total(Zero, L) <= est(x) + Total(Zero, L)
    BY <1>1, <2>2, TotalCompare
  <2> HIDE DEF est
  <2> QED
    BY <1>4, <1>11, <1>12, <2>3
<1>19. N \in [Keys -> Nat]
  <2>1. \A x \in Keys : N[x] \in Nat
    BY <1>4, <1>12
  <2>2. N = [x \in Keys |-> TotalOf(arr, LAMBDA s : seen[s][x])]
    BY DEF N
  <2> QED
    BY <2>1, <2>2
<1> DEFINE lead == 2 * est(k) - total
<1>20. m = IF lead > 0 THEN [key |-> k, sum |-> total, count |-> lead]
           ELSE [key |-> k, sum |-> 2 * est(k), count |-> 0]
  <2>1. Est(arr, b, k) = est(k) /\ TotalOf(arr, LAMBDA s : mv[s][b].sum) = total
    BY <1>4 DEF TotalOf, Sums, L
  <2>2. m = IF 2 * Est(arr, b, k) - TotalOf(arr, LAMBDA s : mv[s][b].sum) > 0
            THEN [key |-> k, sum |-> TotalOf(arr, LAMBDA s : mv[s][b].sum),
                  count |-> 2 * Est(arr, b, k) - TotalOf(arr, LAMBDA s : mv[s][b].sum)]
            ELSE [key |-> k, sum |-> 2 * Est(arr, b, k), count |-> 0]
    BY DEF Merged
  <2> HIDE DEF m, est, total
  <2> QED
    BY <2>1, <2>2
<1> HIDE DEF est, total, m
<1>21. est(k) \in Nat /\ total \in Nat /\ est(k) <= total /\ N[k] \in Nat
  BY <1>3, <1>12, <1>13, <1>19
<1>22. CASE lead > 0
  <2>1. m.key = k /\ m.sum = total /\ m.count = lead /\ m \in Bucket
    BY <1>3, <1>20, <1>21, <1>22 DEF Bucket
  <2>2. lead <= total /\ lead <= N[k]
    BY <1>3, <1>4, <1>14, <1>21
  <2>3. b = Probe(k, b[1])
    BY <1>3, <1>16, <1>21, <1>22
  <2>4. ASSUME Clean(N, b), NEW x \in Keys, b = Probe(x, b[1])
        PROVE  2 * N[x] <= IF k = x THEN total + lead ELSE total - lead
    <3>1. N[x] <= est(x) /\ N[x] \in Nat /\ est(x) \in Nat
      BY <1>12, <1>18, <1>19, <2>4
    <3>2. x # k => est(x) + est(k) <= total
      BY <1>3, <1>15
    <3> QED
      BY <1>21, <3>1, <3>2
  <2> HIDE DEF lead
  <2>5. Sound(m, N, b)
    BY <2>1, <2>2, <2>3, <2>4 DEF Sound
  <2> QED
    BY <1>19, <2>1, <2>5 DEF m, N, k, e
<1>23. CASE ~(lead > 0)
  <2>1. m.key = k /\ m.sum = 2 * est(k) /\ m.count = 0 /\ m \in Bucket
    BY <1>3, <1>20, <1>21, <1>23 DEF Bucket
  <2>2. ASSUME Clean(N, b), NEW x \in Keys, b = Probe(x, b[1])
        PROVE  2 * N[x] <= IF k = x THEN m.sum + m.count ELSE m.sum - m.count
    <3>1. N[x] <= est(x) /\ N[x] \in Nat /\ est(x) \in Nat /\ est(x) <= est(k)
      BY <1>12, <1>17, <1>18, <1>19, <2>2
    <3> QED
      BY <1>21, <2>1, <3>1
  <2>3. m.count <= m.sum /\ m.count <= N[m.key]
    BY <1>21, <2>1
  <2>5. Sound(m, N, b)
    BY <2>1, <2>2, <2>3 DEF Sound
  <2> QED
    BY <1>19, <2>1, <2>5 DEF m, N, k, e
<1> QED
  BY <1>22, <1>23

----------------------------------------------------------------------------
(* The invariant *)

LEMMA InitIInv == Init => IInv
<1> SUFFICES ASSUME Init PROVE IInv
  OBVIOUS
<1>1. ZeroKey \in Keys
  BY MVAssumption
<1>2. TypeOK
  BY <1>1 DEF Init, TypeOK, Empty
<1>3. ASSUME NEW s \in Sketches, NEW b \in Buckets
      PROVE  Sound(mv[s][b], seen[s], b)
  <2>1. mv[s][b] = Empty /\ \A x \in Keys : seen[s][x] = 0
    BY <1>3 DEF Init
  <2> QED
    BY <1>1, <2>1 DEF Sound, Empty
<1> QED
  BY <1>2, <1>3 DEF IInv

(* The hash functions stay, so a bucket stays sound. *)
LEMMA SoundStays ==
  ASSUME home' = home, \A s \in Sketches, b \in Buckets : Sound(mv'[s][b], seen'[s], b)
  PROVE  (\A s \in Sketches, b \in Buckets : Sound(mv[s][b], seen[s], b))'
<1>1. ASSUME NEW s \in Sketches, NEW b \in Buckets
      PROVE  Sound(mv[s][b], seen[s], b)'
  <2>1. Sound(mv'[s][b], seen'[s], b)
    OBVIOUS
  <2>2. \A x : Probe(x, b[1])' = Probe(x, b[1])
    BY DEF Probe
  <2>3. Clean(seen[s], b)' <=> Clean(seen'[s], b)
    BY <2>2 DEF Clean
  <2> QED
    BY <2>1, <2>2, <2>3 DEF Sound
<1> QED
  BY <1>1 DEF Buckets, Rows, Cols

LEMMA UpdateIInv ==
  ASSUME IInv, NEW s \in Sketches, NEW x \in Keys, Update(s, x)
  PROVE  IInv'
<1> DEFINE n == [seen[s] EXCEPT ![x] = @ + 1]
           row == [b \in Buckets |-> IF b = Probe(x, b[1]) THEN Voted(mv[s][b], x)
                                     ELSE mv[s][b]]
<1>1. /\ home \in HashFamily /\ mv \in [Sketches -> [Buckets -> Bucket]]
      /\ sum \in [Sketches -> Nat] /\ seen \in [Sketches -> [Keys -> Nat]]
  BY DEF IInv, TypeOK, Bucket
<1>2. \A b \in Buckets : row[b] \in Bucket /\ Sound(row[b], n, b)
  <2>1. ASSUME NEW b \in Buckets
        PROVE  row[b] \in Bucket /\ Sound(row[b], n, b)
    <3>1. mv[s][b] \in Bucket /\ seen[s] \in [Keys -> Nat] /\ Sound(mv[s][b], seen[s], b)
      BY <1>1 DEF IInv
    <3>2. CASE b = Probe(x, b[1])
      <4>1. row[b] = Voted(mv[s][b], x)
        BY <3>2
      <4> QED
        BY <3>1, <3>2, <4>1, VotedSound
    <3>3. CASE b # Probe(x, b[1])
      <4>1. row[b] = mv[s][b]
        BY <3>3
      <4> QED
        BY <3>1, <3>3, <4>1, OtherSound
    <3> QED
      BY <3>2, <3>3
  <2> QED
    BY <2>1
<1>3. row \in [Buckets -> Bucket]
  BY <1>2
<1>4. n \in [Keys -> Nat]
  BY <1>1
<1>5. /\ mv' = [mv EXCEPT ![s] = row] /\ sum' = [sum EXCEPT ![s] = @ + 1]
      /\ seen' = [seen EXCEPT ![s] = n] /\ home' = home
  BY DEF Update
<1> HIDE DEF n, row
<1>6. TypeOK'
  BY <1>1, <1>3, <1>4, <1>5 DEF TypeOK, Bucket
<1>7. \A q \in Sketches, b \in Buckets : Sound(mv'[q][b], seen'[q], b)
  <2>1. ASSUME NEW q \in Sketches, NEW b \in Buckets
        PROVE  Sound(mv'[q][b], seen'[q], b)
    <3>1. CASE q = s
      BY <1>1, <1>2, <1>5, <3>1
    <3>2. CASE q # s
      <4>1. mv'[q] = mv[q] /\ seen'[q] = seen[q]
        BY <1>1, <1>5, <3>2
      <4> QED
        BY <4>1 DEF IInv
    <3> QED
      BY <3>1, <3>2
  <2> QED
    BY <2>1
<1> QED
  BY <1>5, <1>6, <1>7, SoundStays DEF IInv

LEMMA ResetIInv ==
  ASSUME IInv, NEW s \in Sketches, Reset(s)
  PROVE  IInv'
<1> DEFINE n == [x \in Keys |-> 0]
           row == [b \in Buckets |-> Empty]
<1>1. /\ home \in HashFamily /\ mv \in [Sketches -> [Buckets -> Bucket]]
      /\ sum \in [Sketches -> Nat] /\ seen \in [Sketches -> [Keys -> Nat]]
  BY DEF IInv, TypeOK, Bucket
<1>2. ZeroKey \in Keys /\ Empty \in Bucket /\ Empty.count = 0 /\ Empty.sum = 0
      /\ Empty.key = ZeroKey
  BY MVAssumption DEF Empty, Bucket
<1>3. row \in [Buckets -> Bucket] /\ n \in [Keys -> Nat]
  BY <1>2
<1>4. \A b \in Buckets : Sound(row[b], n, b)
  <2>1. \A b \in Buckets : row[b] = Empty /\ \A x \in Keys : n[x] = 0
    OBVIOUS
  <2> HIDE DEF row, n
  <2> QED
    BY <1>2, <2>1 DEF Sound
<1>5. /\ mv' = [mv EXCEPT ![s] = row] /\ sum' = [sum EXCEPT ![s] = 0]
      /\ seen' = [seen EXCEPT ![s] = n] /\ home' = home
  BY DEF Reset
<1> HIDE DEF n, row
<1>6. TypeOK'
  BY <1>1, <1>3, <1>5 DEF TypeOK, Bucket
<1>7. \A q \in Sketches, b \in Buckets : Sound(mv'[q][b], seen'[q], b)
  BY <1>1, <1>4, <1>5 DEF IInv
<1> QED
  BY <1>5, <1>6, <1>7, SoundStays DEF IInv

LEMMA MergeAllIInv ==
  ASSUME IInv, NEW t \in Sketches, NEW arr \in Arrays, MergeAll(t, arr)
  PROVE  IInv'
<1>1. /\ home \in HashFamily /\ mv \in [Sketches -> [Buckets -> Bucket]]
      /\ sum \in [Sketches -> Nat] /\ seen \in [Sketches -> [Keys -> Nat]]
  BY DEF IInv, TypeOK, Bucket
<1>2. PICK pointer \in [Buckets -> DOMAIN arr] :
        /\ \A b \in Buckets : IsPointer(arr, b, pointer[b])
        /\ mv' = [mv EXCEPT ![t] =
                    [b \in Buckets |-> Merged(arr, b, mv[arr[pointer[b]]][b].key)]]
  BY DEF MergeAll
<1> DEFINE n == [x \in Keys |-> TotalOf(arr, LAMBDA s : seen[s][x])]
           row == [b \in Buckets |-> Merged(arr, b, mv[arr[pointer[b]]][b].key)]
<1>3. ASSUME NEW b \in Buckets
      PROVE  row[b] \in Bucket /\ n \in [Keys -> Nat] /\ Sound(row[b], n, b)
  <2>1. pointer[b] \in DOMAIN arr /\ IsPointer(arr, b, pointer[b])
    BY <1>2
  <2>2. /\ Merged(arr, b, mv[arr[pointer[b]]][b].key) \in Bucket
        /\ n \in [Keys -> Nat]
        /\ Sound(Merged(arr, b, mv[arr[pointer[b]]][b].key), n, b)
    BY <2>1, MergedSound
  <2>3. row[b] = Merged(arr, b, mv[arr[pointer[b]]][b].key)
    OBVIOUS
  <2> HIDE DEF n, row
  <2> QED
    BY <2>2, <2>3
<1>4. home' = home /\ sum' = sum /\ mv' = [mv EXCEPT ![t] = row]
      /\ seen' = [seen EXCEPT ![t] = n]
  BY <1>2 DEF MergeAll
<1>5. row \in [Buckets -> Bucket]
  <2>1. row = [b \in Buckets |-> row[b]]
    OBVIOUS
  <2> HIDE DEF row
  <2> QED
    BY <1>3, <2>1
<1>6. n \in [Keys -> Nat]
  <2>1. <<0, 0>> \in Buckets
    BY MVAssumption DEF Buckets, Rows, Cols
  <2> HIDE DEF n, row
  <2> QED
    BY <1>3, <2>1
<1> HIDE DEF n, row
<1>7. TypeOK'
  BY <1>1, <1>4, <1>5, <1>6 DEF TypeOK, Bucket
<1>8. \A q \in Sketches, b \in Buckets : Sound(mv'[q][b], seen'[q], b)
  BY <1>1, <1>3, <1>4 DEF IInv
<1> QED
  BY <1>4, <1>7, <1>8, SoundStays DEF IInv

LEMMA StepIInv == IInv /\ [Next]_vars => IInv'
<1> SUFFICES ASSUME IInv, [Next]_vars PROVE IInv'
  OBVIOUS
<1>1. ASSUME NEW s \in Sketches, NEW x \in Keys, Update(s, x)
      PROVE  IInv'
  BY <1>1, UpdateIInv
<1>2. ASSUME NEW s \in Sketches, Reset(s)
      PROVE  IInv'
  BY <1>2, ResetIInv
<1>3. ASSUME NEW t \in Sketches, NEW arr \in Arrays, MergeAll(t, arr)
      PROVE  IInv'
  BY <1>3, MergeAllIInv
<1>4. CASE UNCHANGED vars
  BY <1>4 DEF vars, IInv, TypeOK, Sound, Clean, Probe
<1> QED
  BY <1>1, <1>2, <1>3, <1>4 DEF Next

----------------------------------------------------------------------------
(* The estimates *)

(* Min is the least element, Max the largest one of a bounded set. *)
LEMMA MinNat ==
  ASSUME NEW T, T \subseteq Nat, T # {}
  PROVE  Min(T) \in T
<1>1. PICK m \in T : \A k \in T : m <= k
  BY LeastNat
<1> QED
  BY <1>1 DEF Min

LEMMA MaxNat ==
  ASSUME NEW T, T \subseteq Nat, T # {}, NEW n \in Nat, \A k \in T : k <= n
  PROVE  Max(T) \in T
<1> DEFINE U == {n - k : k \in T}
<1>1. U \subseteq Nat /\ U # {}
  <2>1. \A k \in T : k \in Nat /\ k <= n
    OBVIOUS
  <2>2. \A k \in T : n - k \in Nat
    BY <2>1
  <2>3. PICK k \in T : TRUE
    OBVIOUS
  <2>4. n - k \in U
    OBVIOUS
  <2> QED
    BY <2>2, <2>4
<1>2. PICK d \in U : \A k \in U : d <= k
  <2> HIDE DEF U
  <2> QED
    BY <1>1, LeastNat
<1>3. PICK m \in T : d = n - m
  OBVIOUS
<1>4. \A k \in T : m >= k
  <2>1. ASSUME NEW k \in T
        PROVE  m >= k
    <3>1. n - m <= n - k
      BY <1>2, <1>3
    <3>2. n \in Nat /\ m \in Nat /\ k \in Nat
      OBVIOUS
    <3> QED
      BY <3>1, <3>2
  <2> QED
    BY <2>1
<1> QED
  BY <1>4 DEF Max

(* What the homes of flow x say of it. *)
LEMMA HomeFacts ==
  ASSUME IInv, NEW s \in Sketches, NEW x \in Keys, NEW i \in Rows
  PROVE  LET e == mv[s][Probe(x, i)]
         IN  /\ LowAt(e, x) \in Nat /\ UpAt(e, x) \in Nat /\ seen[s][x] \in Nat
             /\ LowAt(e, x) <= seen[s][x]
             /\ Trusted(s, x) => /\ seen[s][x] <= UpAt(e, x)
                                 /\ seen[s][x] <= e.sum
                                 /\ 2 * seen[s][x] > e.sum => e.key = x
<1> DEFINE b == Probe(x, i)
           e == mv[s][b]
<1>1. b \in Buckets /\ b[1] = i
  BY MVAssumption DEF Probe, Buckets, IInv, TypeOK
<1>2. e \in Bucket /\ seen[s] \in [Keys -> Nat] /\ Sound(e, seen[s], b)
  BY <1>1 DEF IInv, TypeOK, Bucket
<1>3. e.key \in Keys /\ e.sum \in Nat /\ e.count \in Nat /\ seen[s][x] \in Nat
      /\ e.count <= e.sum /\ (e.key = x => e.count <= seen[s][x])
  BY <1>2 DEF Bucket, Sound
<1>4. ASSUME Trusted(s, x)
      PROVE  2 * seen[s][x] <= IF e.key = x THEN e.sum + e.count ELSE e.sum - e.count
  <2>1. Clean(seen[s], b)
    <3>1. ASSUME NEW y \in NulFirst, seen[s][y] > 0
          PROVE  b # Probe(y, b[1])
      <4>1. home[i][y] # home[i][x]
        BY <1>4, <3>1 DEF Trusted
      <4> QED
        BY <1>1, <4>1 DEF Probe
    <3> QED
      BY <3>1 DEF Clean
  <2>2. b = Probe(x, b[1])
    BY <1>1
  <2> HIDE DEF b, e
  <2> QED
    BY <1>2, <2>1, <2>2 DEF Sound
<1> HIDE DEF e
<1>5. LowAt(e, x) \in Nat /\ LowAt(e, x) <= seen[s][x] /\ UpAt(e, x) \in Nat
  BY <1>3 DEF LowAt, UpAt
<1>6. Trusted(s, x) => /\ seen[s][x] <= UpAt(e, x)
                       /\ seen[s][x] <= e.sum
                       /\ 2 * seen[s][x] > e.sum => e.key = x
  BY <1>3, <1>4 DEF UpAt
<1> QED
  BY <1>3, <1>5, <1>6 DEF e, b

LEMMA Bracket ==
  ASSUME IInv, NEW s \in Sketches, NEW x \in Keys
  PROVE  /\ Low_estimate(s, x) <= seen[s][x]
         /\ Trusted(s, x) => seen[s][x] <= Up_estimate(s, x)
<1> DEFINE Low == {LowAt(mv[s][Probe(x, i)], x) : i \in Rows}
           Up  == {UpAt(mv[s][Probe(x, i)], x) : i \in Rows}
<1>1. 0 \in Rows
  BY MVAssumption DEF Rows
<1>2. Low \subseteq Nat /\ Low # {} /\ Up \subseteq Nat /\ Up # {}
  BY <1>1, HomeFacts
<1>3. seen[s][x] \in Nat
  BY <1>1, HomeFacts
<1>4. \A k \in Low : k <= seen[s][x]
  BY HomeFacts
<1>5. Trusted(s, x) => \A k \in Up : seen[s][x] <= k
  BY HomeFacts
<1>6. Low_estimate(s, x) = Max(Low) /\ Up_estimate(s, x) = Min(Up)
  BY DEF Low_estimate, Up_estimate
<1> HIDE DEF Low, Up
<1>7. Max(Low) \in Low
  BY <1>2, <1>3, <1>4, MaxNat
<1>8. Min(Up) \in Up
  BY <1>2, MinNat
<1> QED
  BY <1>4, <1>5, <1>6, <1>7, <1>8

LEMMA Reported ==
  ASSUME IInv, NEW s \in Sketches, NEW x \in Keys, Trusted(s, x),
         NEW i \in Rows, 2 * seen[s][x] > mv[s][Probe(x, i)].sum,
         NEW thresh \in 0 .. seen[s][x] - 1
  PROVE  \E r \in Query(s, thresh) : r[1] = x /\ r[2] >= seen[s][x]
<1> DEFINE b == Probe(x, i)
<1>1. b \in Buckets
  BY MVAssumption DEF Probe, Buckets, IInv, TypeOK
<1>2. /\ seen[s][x] \in Nat /\ mv[s][b].sum \in Nat
      /\ seen[s][x] <= mv[s][b].sum /\ mv[s][b].key = x
  BY <1>1, HomeFacts DEF IInv, TypeOK
<1>3. seen[s][x] <= Up_estimate(s, x) /\ Up_estimate(s, x) \in Nat
  <2>1. {UpAt(mv[s][Probe(x, j)], x) : j \in Rows} \subseteq Nat
    BY HomeFacts
  <2>2. Up_estimate(s, x) \in {UpAt(mv[s][Probe(x, j)], x) : j \in Rows}
    BY <2>1, MinNat DEF Up_estimate
  <2> QED
    BY <2>1, <2>2, Bracket
<1>4. mv[s][b].sum > thresh /\ Up_estimate(s, x) > thresh
  BY <1>2, <1>3
<1>5. <<x, Up_estimate(s, x)>> \in Query(s, thresh)
  <2>1. x \in {mv[s][c].key : c \in {d \in Buckets : mv[s][d].sum > thresh}}
    BY <1>1, <1>2, <1>4
  <2> QED
    BY <1>4, <2>1 DEF Query
<1>6. <<x, Up_estimate(s, x)>>[1] = x /\ <<x, Up_estimate(s, x)>>[2] >= seen[s][x]
  BY <1>2, <1>3
<1> QED
  BY <1>5, <1>6

(* Types are preserved: the counts never fall below zero, however the      *)
(* votes of Update and the subtraction of MergeAll combine.                *)
THEOREM TypeCorrect == Spec => []TypeOK
<1>1. IInv => TypeOK
  BY DEF IInv
<1> QED
  BY <1>1, InitIInv, StepIInv, PTL DEF Spec

(* For every flow the low estimate is at most its packets, and the up      *)
(* estimate, unless its homes saw a flow that begins with a zero byte, at  *)
(* least them, also in sketches that MergeAll made.                        *)
THEOREM Bracketing == Spec => []EstimatesBracket
<1>1. IInv => EstimatesBracket
  BY Bracket DEF EstimatesBracket
<1> QED
  BY <1>1, InitIInv, StepIInv, PTL DEF Spec

(* A flow with the majority of one of its buckets is reported.             *)
THEOREM MajorityFound == Spec => []MajorityReported
<1>1. IInv => MajorityReported
  <2> SUFFICES ASSUME IInv, NEW s \in Sketches, NEW x \in Keys, Trusted(s, x),
                      NEW i \in Rows, 2 * seen[s][x] > mv[s][Probe(x, i)].sum,
                      NEW thresh \in 0 .. seen[s][x] - 1
               PROVE  \E r \in Query(s, thresh) : r[1] = x /\ r[2] >= seen[s][x]
    BY DEF MajorityReported
  <2> QED
    BY Reported
<1> QED
  BY <1>1, InitIInv, StepIInv, PTL DEF Spec
=============================================================================
