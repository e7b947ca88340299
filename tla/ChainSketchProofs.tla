------------------------- MODULE ChainSketchProofs -------------------------
(***************************************************************************)
(* Theorems about ChainSketch for every table size, chain length, set of   *)
(* flows and hash family.                                                  *)
(***************************************************************************)
EXTENDS ChainSketch, FiniteSums

(* The chain of a bucket stays inside the table, in the row of the bucket. *)
LEMMA CellInTable ==
  ASSUME NEW b \in Buckets, NEW j \in Nat
  PROVE  Cell(b, j) \in Buckets
<1>1. b[1] \in Rows /\ b[2] \in Cols
  BY DEF Buckets
<1>2. (b[2] + j) % Width \in Cols
  BY <1>1, TableAssumption DEF Cols
<1> QED
  BY <1>1, <1>2 DEF Cell, Buckets

LEMMA ProbeInTable ==
  ASSUME TypeOK, NEW x \in Keys, NEW i \in Rows
  PROVE  Probe(x, i) \in Buckets
<1>1. home \in [Rows -> [Keys -> Cols]]
  BY TableAssumption DEF TypeOK
<1> QED
  BY <1>1 DEF Probe, Buckets

LEMMA ScannedInTable ==
  ASSUME TypeOK, NEW x \in Keys, NEW n \in 0 .. Depth
  PROVE  Scanned(x, n) \subseteq Buckets \cup {NoLoc}
<1>1. Lightest(x, n) \subseteq Rows
  BY TableAssumption DEF Lightest, Rows
<1>2. \A i \in Lightest(x, n) : Probe(x, i) \in Buckets
  BY <1>1, ProbeInTable
<1> QED
  BY <1>2 DEF Scanned, TypeOK

(* When the scan of all rows chooses no victim, every home is saturated:   *)
(* otherwise the first of the lightest homes would have been chosen.       *)
LEMMA NoLightest ==
  ASSUME TypeOK, NEW x \in Keys, Lightest(x, Depth) = {}
  PROVE  Saturated(x)
<1> DEFINE n(i) == counts[Probe(x, i)].count
<1>1. \A i \in Rows : n(i) \in Nat
  BY ProbeInTable DEF TypeOK
<1>2. Depth \in Nat \ {0} /\ MinCap \in Nat /\ Rows = 0 .. Depth - 1
  BY TableAssumption DEF Rows
<1>3. Lightest(x, Depth) =
        {i \in Rows : /\ n(i) < MinCap
                      /\ \A j \in Rows : n(i) < n(j) \/ (n(i) = n(j) /\ i <= j)}
  BY <1>2 DEF Lightest
<1> HIDE DEF n
<1>4. ASSUME NEW i \in Rows, n(i) < MinCap
      PROVE  FALSE
  <2>1. PICK m \in {n(j) : j \in Rows} : \A k \in {n(j) : j \in Rows} : m <= k
    BY <1>1, <1>4, LeastNat
  <2>2. PICK f \in {j \in Rows : n(j) = m} :
          \A k \in {j \in Rows : n(j) = m} : f <= k
    <3>1. {j \in Rows : n(j) = m} # {}
      BY <2>1
    <3>2. {j \in Rows : n(j) = m} \subseteq Nat
      BY <1>2
    <3> QED
      BY <3>1, <3>2, LeastNat
  <2>3. n(f) < MinCap
    <3>1. n(f) = m /\ m <= n(i) /\ m \in Nat
      BY <1>1, <1>4, <2>1, <2>2
    <3> QED
      BY <1>1, <1>2, <1>4, <3>1
  <2>4. ASSUME NEW j \in Rows
        PROVE  n(f) < n(j) \/ (n(f) = n(j) /\ f <= j)
    <3>1. n(f) <= n(j) /\ n(f) \in Nat /\ n(j) \in Nat
      BY <1>1, <2>1, <2>2
    <3>2. n(f) = n(j) => f <= j
      BY <2>2
    <3> QED
      BY <3>1, <3>2
  <2>5. f \in Lightest(x, Depth)
    BY <1>3, <2>2, <2>3, <2>4
  <2> QED
    BY <2>5
<1>5. \A i \in Rows : n(i) >= MinCap
  BY <1>1, <1>2, <1>4
<1> QED
  BY <1>5 DEF Saturated, n

----------------------------------------------------------------------------
(* What a won contest does to the table *)

Bucket == [key : Keys, count : Nat]

(* Taken writes bucket c, then bucket b. *)
LEMMA TakenValue ==
  ASSUME TypeOK, NEW b \in Buckets, NEW c \in Buckets, NEW x \in Keys,
         NEW n \in Nat, NEW s \in Bucket
  PROVE  LET t == Taken(b, x, n, c, s)
         IN  /\ t \in [Buckets -> Bucket]
             /\ t[b] = [key |-> x, count |-> n]
             /\ c # b => t[c] = s
             /\ \A d \in Buckets \ {b, c} : t[d] = counts[d]
  BY DEF TypeOK, Taken, Bucket

(* A walk that goes past its first step had a victim with a count.         *)
LEMMA WalkHasCount ==
  ASSUME TypeOK, NEW b \in Buckets, NEW x \in Keys,
         NEW r \in Reached(b, x), r > 1
  PROVE  counts[b].count > 0
<1>1. 1 \in 1 .. r - 1 /\ r \in Nat
  BY TableAssumption DEF Reached
<1>2. Passes(b, x, 1)
  BY <1>1 DEF Reached
<1>3. Cell(b, 1) \in Buckets
  BY CellInTable
<1>4. counts[b].count \in Nat /\ counts[Cell(b, 1)].count \in Nat
  BY <1>3 DEF TypeOK
<1>5. ~Absorbs(b, x, 1)
  BY DEF Absorbs
<1>6. counts[b].count > counts[Cell(b, 1)].count
  BY <1>2, <1>4, <1>5 DEF Passes, Tries, Carried, Left
<1> QED
  BY <1>4, <1>6

(* The facts about a step of the walk that the branches below need.        *)
LEMMA WalkStep ==
  ASSUME TypeOK, NEW b \in Buckets, NEW x \in Keys, NEW r \in Reached(b, x)
  PROVE  /\ Cell(b, r) \in Buckets
         /\ Left(b, x, r) \in Nat /\ Carried(b, x, r) \in Nat
         /\ Carried(b, x, r) >= counts[b].count
         /\ Left(b, x, r) < counts[Cell(b, r)].count => counts[Cell(b, r)].key = x
         /\ Carried(b, x, r) < counts[Cell(b, r)].count /\ Tries(b, x, r)
              => counts[Cell(b, r)].key = x
         /\ Carried(b, x, r) > 0 => counts[b].count > 0
<1>1. r \in Nat
  BY TableAssumption DEF Reached
<1>2. Cell(b, r) \in Buckets
  BY <1>1, CellInTable
<1>3. counts[b].count \in Nat /\ counts[Cell(b, r)].count \in Nat
  BY <1>2 DEF TypeOK
<1>4. CASE Absorbs(b, x, r)
  <2>1. counts[b].count > 0
    BY <1>4, WalkHasCount DEF Absorbs
  <2>2. /\ Carried(b, x, r) = counts[b].count + counts[Cell(b, r)].count
        /\ Left(b, x, r) = 0
        /\ counts[Cell(b, r)].key = x
    BY <1>4 DEF Carried, Left, Absorbs
  <2> QED
    BY <1>2, <1>3, <2>1, <2>2
<1>5. CASE ~Absorbs(b, x, r)
  <2>1. /\ Carried(b, x, r) = counts[b].count
        /\ Left(b, x, r) = counts[Cell(b, r)].count
    BY <1>3, <1>5 DEF Carried, Left
  <2>2. Tries(b, x, r) => Carried(b, x, r) > Left(b, x, r)
    BY DEF Tries
  <2> QED
    BY <1>2, <1>3, <2>1, <2>2
<1> QED
  BY <1>4, <1>5

(* What every branch of the replacement guarantees: x has b and the count  *)
(* of b; only buckets that held x fall; no key is revived.                 *)
Replaced(b, x, v) ==
  /\ counts' \in [Buckets -> Bucket]
  /\ counts'[b].key = x /\ counts'[b].count >= counts[b].count + v
  /\ \A d \in Buckets : counts'[d].count < counts[d].count => counts[d].key = x
  /\ \A d \in Buckets : counts'[d].count > 0 =>
       \/ counts'[d].key = x
       \/ \E e \in Buckets : counts[e].count > 0 /\ counts[e].key = counts'[d].key

LEMMA TakenReplaces ==
  ASSUME TypeOK, NEW b \in Buckets, NEW c \in Buckets, NEW x \in Keys,
         NEW v \in Nat, NEW n \in Nat, NEW s \in Bucket,
         counts' = Taken(b, x, n, c, s),
         n >= counts[b].count + v,
         s.count < counts[c].count => counts[c].key = x,
         s.count > 0 => \E e \in Buckets : counts[e].count > 0 /\ counts[e].key = s.key
  PROVE  Replaced(b, x, v)
<1>1. /\ counts' \in [Buckets -> Bucket]
      /\ counts'[b] = [key |-> x, count |-> n]
      /\ c # b => counts'[c] = s
      /\ \A d \in Buckets \ {b, c} : counts'[d] = counts[d]
  BY TakenValue
<1>2. \A d \in Buckets : counts[d].count \in Nat
  BY DEF TypeOK
<1>3. counts'[b].key = x /\ counts'[b].count = n
  BY <1>1
<1>4. ASSUME NEW d \in Buckets, counts'[d].count < counts[d].count
      PROVE  counts[d].key = x
  <2>1. d # b
    BY <1>2, <1>3, <1>4
  <2>2. CASE d = c
    BY <1>1, <1>4, <2>1, <2>2
  <2>3. CASE d # c
    BY <1>1, <1>2, <1>4, <2>1, <2>3
  <2> QED
    BY <2>2, <2>3
<1>5. ASSUME NEW d \in Buckets, counts'[d].count > 0
      PROVE  \/ counts'[d].key = x
             \/ \E e \in Buckets : counts[e].count > 0 /\ counts[e].key = counts'[d].key
  <2>1. CASE d = b
    BY <1>3, <2>1
  <2>2. CASE d # b /\ d = c
    BY <1>1, <1>5, <2>2
  <2>3. CASE d \notin {b, c}
    BY <1>1, <1>5, <2>3
  <2> QED
    BY <2>1, <2>2, <2>3
<1> QED
  BY <1>1, <1>3, <1>4, <1>5 DEF Replaced

LEMMA ReplaceReplaces ==
  ASSUME TypeOK, NEW b \in Buckets, NEW x \in Keys, NEW v \in Nat,
         Replace(b, x, v)
  PROVE  Replaced(b, x, v)
<1>1. \A d \in Buckets : counts[d] \in Bucket
  BY DEF TypeOK, Bucket
<1>2. \A d \in Buckets : counts[d].count \in Nat /\ counts[d].key \in Keys
  BY <1>1 DEF Bucket
<1> DEFINE n == Cell(b, 1)
<1>3. n \in Buckets
  BY CellInTable
<1>4. CASE ReplaceAlone(b, x, v)
  <2>1. counts' = Taken(b, x, counts[b].count + v, b, counts[b])
    BY <1>4 DEF ReplaceAlone
  <2> QED
    BY <1>1, <1>2, <2>1, TakenReplaces
<1>5. CASE ReplaceMerge(b, x, v)
  <2> DEFINE s == [key |-> counts[b].key, count |-> counts[n].count + counts[b].count]
  <2>1. counts[n].key = counts[b].key
    BY <1>5 DEF ReplaceMerge
  <2>2. s = [counts[n] EXCEPT !.count = @ + counts[b].count]
    BY <1>1, <1>3, <2>1 DEF Bucket
  <2>3. counts' = Taken(b, x, counts[b].count + v, n, s)
    BY <1>5, <2>2 DEF ReplaceMerge
  <2>4. s \in Bucket /\ ~(s.count < counts[n].count)
    BY <1>2, <1>3 DEF Bucket
  <2>5. s.count > 0 =>
          \E e \in Buckets : counts[e].count > 0 /\ counts[e].key = s.key
    <3>1. s.count > 0 => counts[b].count > 0 \/ counts[n].count > 0
      BY <1>2, <1>3
    <3> QED
      BY <1>3, <2>1, <3>1
  <2>6. counts[b].count + v \in Nat
    BY <1>2
  <2> HIDE DEF s, n
  <2> QED
    BY <1>3, <2>3, <2>4, <2>5, <2>6, TakenReplaces
<1>6. CASE ReplaceSwap(b, x, v)
  <2>1. /\ counts[n].key = x
        /\ counts' = Taken(b, x, counts[b].count + counts[n].count + v, n, counts[b])
    BY <1>6 DEF ReplaceSwap
  <2>2. /\ counts[b].count + counts[n].count + v \in Nat
        /\ counts[b].count + counts[n].count + v >= counts[b].count + v
    BY <1>2, <1>3
  <2> HIDE DEF n
  <2> QED
    BY <1>1, <1>3, <2>1, <2>2, TakenReplaces
<1>7. CASE ReplaceRelocate(b, x, v)
  <2>1. PICK r \in Reached(b, x) :
          /\ Tries(b, x, r)
          /\ counts' = Taken(b, x, Carried(b, x, r) + v, Cell(b, r),
                            [key |-> counts[b].key, count |-> Carried(b, x, r)])
    BY <1>7 DEF ReplaceRelocate
  <2> DEFINE s == [key |-> counts[b].key, count |-> Carried(b, x, r)]
             c == Cell(b, r)
  <2>2. /\ c \in Buckets
        /\ Carried(b, x, r) \in Nat
        /\ Carried(b, x, r) >= counts[b].count
        /\ Carried(b, x, r) < counts[c].count => counts[c].key = x
        /\ Carried(b, x, r) > 0 => counts[b].count > 0
    BY <2>1, WalkStep
  <2>3. s \in Bucket /\ s.key = counts[b].key /\ s.count = Carried(b, x, r)
    BY <1>2, <2>2 DEF Bucket
  <2>4. Carried(b, x, r) + v \in Nat /\ Carried(b, x, r) + v >= counts[b].count + v
    BY <1>2, <2>2
  <2>5. counts' = Taken(b, x, Carried(b, x, r) + v, c, s)
    BY <2>1
  <2> HIDE DEF s, c
  <2> QED
    BY <2>2, <2>3, <2>4, <2>5, TakenReplaces
<1>8. CASE ReplaceExhaust(b, x, v)
  <2>1. PICK r \in Reached(b, x) :
          counts' = Taken(b, x, Carried(b, x, r) + v, Cell(b, r),
                          [counts[Cell(b, r)] EXCEPT !.count = Left(b, x, r)])
    BY <1>8 DEF ReplaceExhaust
  <2> DEFINE c == Cell(b, r)
             s == [key |-> counts[c].key, count |-> Left(b, x, r)]
  <2>2. /\ c \in Buckets
        /\ Left(b, x, r) \in Nat /\ Carried(b, x, r) \in Nat
        /\ Carried(b, x, r) >= counts[b].count
        /\ Left(b, x, r) < counts[c].count => counts[c].key = x
    BY WalkStep
  <2>3. s \in Bucket /\ s.key = counts[c].key /\ s.count = Left(b, x, r)
    BY <1>2, <2>2 DEF Bucket
  <2>4. Carried(b, x, r) + v \in Nat /\ Carried(b, x, r) + v >= counts[b].count + v
    BY <1>2, <2>2
  <2>5. counts' = Taken(b, x, Carried(b, x, r) + v, c, s)
    <3>1. [counts[c] EXCEPT !.count = Left(b, x, r)] = s
      BY <1>1, <2>2 DEF Bucket
    <3> QED
      BY <2>1, <3>1
  <2>6. s.count > 0 => counts[c].count > 0
    <3>1. Left(b, x, r) > 0 => Left(b, x, r) = counts[c].count
      BY DEF Left
    <3> QED
      BY <2>3, <3>1
  <2> HIDE DEF s, c
  <2> QED
    BY <2>2, <2>3, <2>4, <2>5, <2>6, TakenReplaces
<1> QED
  BY <1>4, <1>5, <1>6, <1>7, <1>8 DEF Replace

----------------------------------------------------------------------------
(* The actions *)

(* A bucket the scan leaves in loc is a home of x, unless x is saturated.  *)
LEMMA VictimIsHome ==
  ASSUME TypeOK, NEW x \in Keys, NEW b \in Scanned(x, Depth)
  PROVE  Saturated(x) \/ \E i \in Rows : b = Probe(x, i)
<1>1. Lightest(x, Depth) \subseteq Rows
  BY TableAssumption DEF Lightest, Rows
<1>2. CASE Lightest(x, Depth) = {}
  BY <1>2, NoLightest
<1>3. CASE Lightest(x, Depth) # {}
  BY <1>1, <1>3 DEF Scanned
<1> QED
  BY <1>2, <1>3

LEMMA HitReplaces ==
  ASSUME TypeOK, NEW x \in Keys, NEW v \in Vals, Hit(x, v)
  PROVE  \E i \in Rows : Replaced(Probe(x, i), x, v)
<1>1. PICK i \in Stops(x) :
        counts' = [counts EXCEPT ![Probe(x, i)] =
                    [key |-> x, count |-> counts[Probe(x, i)].count + v]]
  BY DEF Hit
<1> DEFINE b == Probe(x, i)
<1>2. i \in Rows /\ b \in Buckets /\ v \in Nat
  BY ProbeInTable, TableAssumption DEF Stops
<1>3. \A d \in Buckets : counts[d] \in Bucket /\ counts[d].count \in Nat
  BY DEF TypeOK, Bucket
<1>4. counts' = Taken(b, x, counts[b].count + v, b, counts[b])
  BY <1>1, <1>2 DEF Taken, TypeOK
<1>5. counts[b].count + v \in Nat
  BY <1>2, <1>3
<1> HIDE DEF b
<1>6. Replaced(b, x, v)
  BY <1>2, <1>3, <1>4, <1>5, TakenReplaces
<1> QED
  BY <1>2, <1>6 DEF b

LEMMA UpdateReplaces ==
  ASSUME TypeOK, NEW x \in Keys, NEW v \in Vals, Hit(x, v) \/ Win(x, v)
  PROVE  \E b \in Buckets : /\ Replaced(b, x, v)
                            /\ Saturated(x) \/ \E i \in Rows : b = Probe(x, i)
<1>1. CASE Hit(x, v)
  BY <1>1, HitReplaces, ProbeInTable
<1>2. CASE Win(x, v)
  <2>1. PICK b \in Scanned(x, Depth) \ {NoLoc} : Replace(b, x, v)
    BY <1>2 DEF Win
  <2>2. b \in Buckets
    BY ScannedInTable, TableAssumption
  <2>3. v \in Nat
    BY TableAssumption
  <2> QED
    BY <2>1, <2>2, <2>3, ReplaceReplaces, VictimIsHome
<1> QED
  BY <1>1, <1>2

(* An update brings no key into the table but that of the packet.          *)
LEMMA UpdateKeys ==
  ASSUME TypeOK, NEW x \in Keys, NEW v \in Vals, Hit(x, v) \/ Win(x, v), NEW d \in Buckets
  PROVE  counts'[d].key = x \/ \E e \in Buckets : counts'[d].key = counts[e].key
<1>1. \A e \in Buckets : counts[e] \in Bucket
  BY DEF TypeOK, Bucket
<1>2. ASSUME NEW b \in Buckets, NEW c \in Buckets, NEW n, NEW s,
             counts' = Taken(b, x, n, c, s), \E e \in Buckets : s.key = counts[e].key
      PROVE  counts'[d].key = x \/ \E e \in Buckets : counts'[d].key = counts[e].key
  <2>1. /\ counts'[b] = [key |-> x, count |-> n]
        /\ c # b => counts'[c] = s
        /\ \A e \in Buckets \ {b, c} : counts'[e] = counts[e]
    BY <1>2 DEF TypeOK, Taken
  <2>2. counts'[b].key = x
    BY <2>1
  <2> QED
    BY <1>2, <2>1, <2>2
<1>3. ASSUME NEW b \in Buckets, Replace(b, x, v)
      PROVE  counts'[d].key = x \/ \E e \in Buckets : counts'[d].key = counts[e].key
  <2>1. CASE ReplaceAlone(b, x, v)
    BY <1>2, <2>1 DEF ReplaceAlone
  <2>2. CASE ReplaceMerge(b, x, v)
    <3> DEFINE m == Cell(b, 1)
               s == [counts[m] EXCEPT !.count = @ + counts[b].count]
    <3>1. m \in Buckets
      BY CellInTable
    <3>2. s.key = counts[m].key
      BY <1>1, <3>1 DEF Bucket
    <3>3. counts' = Taken(b, x, counts[b].count + v, m, s)
      BY <2>2 DEF ReplaceMerge
    <3> HIDE DEF s, m
    <3> QED
      BY <1>2, <3>1, <3>2, <3>3
  <2>3. CASE ReplaceSwap(b, x, v)
    BY <1>2, <2>3, CellInTable DEF ReplaceSwap
  <2>4. \A r \in Reached(b, x) : Cell(b, r) \in Buckets
    BY CellInTable, TableAssumption DEF Reached
  <2>5. CASE ReplaceRelocate(b, x, v)
    <3>1. PICK r \in Reached(b, x) :
            counts' = Taken(b, x, Carried(b, x, r) + v, Cell(b, r),
                            [key |-> counts[b].key, count |-> Carried(b, x, r)])
      BY <2>5 DEF ReplaceRelocate
    <3> DEFINE s == [key |-> counts[b].key, count |-> Carried(b, x, r)]
    <3>2. s.key = counts[b].key /\ counts' = Taken(b, x, Carried(b, x, r) + v, Cell(b, r), s)
      BY <3>1
    <3> HIDE DEF s
    <3> QED
      BY <1>2, <2>4, <3>2
  <2>6. CASE ReplaceExhaust(b, x, v)
    <3>1. PICK r \in Reached(b, x) :
            counts' = Taken(b, x, Carried(b, x, r) + v, Cell(b, r),
                            [counts[Cell(b, r)] EXCEPT !.count = Left(b, x, r)])
      BY <2>6 DEF ReplaceExhaust
    <3> DEFINE s == [counts[Cell(b, r)] EXCEPT !.count = Left(b, x, r)]
    <3>2. s.key = counts[Cell(b, r)].key
      BY <1>1, <2>4 DEF Bucket
    <3>3. counts' = Taken(b, x, Carried(b, x, r) + v, Cell(b, r), s)
      BY <3>1
    <3> HIDE DEF s
    <3> QED
      BY <1>2, <2>4, <3>2, <3>3
  <2> QED
    BY <1>3, <2>1, <2>2, <2>3, <2>5, <2>6 DEF Replace
<1>4. CASE Hit(x, v)
  <2>1. PICK i \in Stops(x) :
          counts' = [counts EXCEPT ![Probe(x, i)] =
                      [key |-> x, count |-> counts[Probe(x, i)].count + v]]
    BY <1>4 DEF Hit
  <2>2. Probe(x, i) \in Buckets
    BY ProbeInTable DEF Stops
  <2> QED
    BY <2>1, <2>2 DEF TypeOK
<1>5. CASE Win(x, v)
  <2>1. PICK b \in Scanned(x, Depth) \ {NoLoc} : Replace(b, x, v)
    BY <1>5 DEF Win
  <2>2. b \in Buckets
    BY ScannedInTable, TableAssumption
  <2> QED
    BY <1>3, <2>1, <2>2
<1> QED
  BY <1>4, <1>5

IInv == TypeOK /\ NoPhantomFlow /\ CrashOnlySaturated

LEMMA InitIInv == Init => IInv
<1> SUFFICES ASSUME Init PROVE IInv
  OBVIOUS
<1>1. TypeOK
  BY TableAssumption DEF Init, TypeOK, Empty
<1>2. NoPhantomFlow
  BY DEF Init, NoPhantomFlow, Empty
<1> QED
  BY <1>1, <1>2 DEF Init, IInv, CrashOnlySaturated

(* A step that records a packet of x keeps the types and revives no flow.  *)
LEMMA RecordIInv ==
  ASSUME TypeOK, NoPhantomFlow, running, NEW x \in Keys, NEW v \in Vals,
         Hit(x, v) \/ Win(x, v)
  PROVE  IInv'
<1>1. PICK b \in Buckets : Replaced(b, x, v)
  BY UpdateReplaces
<1>2. /\ recorded' = [recorded EXCEPT ![x] = @ + v]
      /\ home' = home /\ running' = running
  BY DEF Hit, Win
<1>3. v \in Nat /\ v > 0
  BY TableAssumption
<1>4. /\ recorded' \in [Keys -> Nat]
      /\ recorded'[x] > 0
      /\ \A y \in Keys : recorded[y] > 0 => recorded'[y] > 0
  BY <1>2, <1>3 DEF TypeOK
<1>5. loc' \in Buckets \cup {NoLoc}
  <2>1. CASE Hit(x, v)
    <3>1. PICK i \in Stops(x) : loc' \in Scanned(x, i)
      BY <2>1 DEF Hit
    <3>2. i \in 0 .. Depth
      BY TableAssumption DEF Stops, Rows
    <3> QED
      BY <3>1, <3>2, ScannedInTable
  <2>2. CASE Win(x, v)
    <3>1. loc' \in Scanned(x, Depth)
      BY <2>2 DEF Win
    <3> QED
      BY <3>1, ScannedInTable, TableAssumption
  <2> QED
    BY <2>1, <2>2
<1>6. TypeOK'
  BY <1>1, <1>2, <1>4, <1>5 DEF TypeOK, Replaced, Bucket
<1>7. NoPhantomFlow'
  <2> SUFFICES ASSUME NEW d \in Buckets, counts'[d].count > 0
               PROVE  recorded'[counts'[d].key] > 0
    BY DEF NoPhantomFlow
  <2>1. CASE counts'[d].key = x
    BY <1>4, <2>1
  <2>2. CASE \E e \in Buckets : counts[e].count > 0 /\ counts[e].key = counts'[d].key
    <3>1. recorded[counts'[d].key] > 0 /\ counts'[d].key \in Keys
      BY <2>2 DEF NoPhantomFlow, TypeOK
    <3> QED
      BY <1>4, <3>1
  <2> QED
    BY <1>1, <2>1, <2>2 DEF Replaced
<1>8. CrashOnlySaturated'
  BY <1>2 DEF CrashOnlySaturated
<1> QED
  BY <1>6, <1>7, <1>8 DEF IInv

LEMMA UpdateIInv ==
  ASSUME IInv, NEW x \in Keys, NEW v \in Vals, Update(x, v)
  PROVE  IInv'
<1> USE DEF IInv
<1>1. CASE Hit(x, v) \/ Win(x, v)
  BY <1>1, RecordIInv DEF Update
<1>2. CASE Lose(x, v)
  <2>1. UNCHANGED <<home, counts, running, recorded>> /\ loc' \in Buckets
    BY <1>2, ScannedInTable, TableAssumption DEF Lose
  <2>2. running
    BY DEF Update
  <2> QED
    BY <2>1, <2>2 DEF TypeOK, NoPhantomFlow, CrashOnlySaturated
<1>3. CASE NoVictim(x, v)
  <2>1. /\ UNCHANGED <<home, counts, loc, recorded>> /\ running' = FALSE
        /\ Stops(x) = {} /\ NoLoc \in Scanned(x, Depth)
    BY <1>3 DEF NoVictim
  <2>2. loc = NoLoc /\ Lightest(x, Depth) = {}
    <3>1. \A i \in Lightest(x, Depth) : Probe(x, i) # NoLoc
      <4>1. \A i \in Lightest(x, Depth) : i \in Nat
        BY TableAssumption DEF Lightest
      <4> QED
        BY <4>1 DEF Probe, NoLoc
    <3> QED
      BY <2>1, <3>1 DEF Scanned
  <2>3. Saturated(x)
    BY <2>2, NoLightest
  <2>4. Saturated(x)' /\ Stops(x)' = {}
    BY <2>1, <2>3 DEF Saturated, Stops, Probe
  <2>5. CrashOnlySaturated'
    BY <2>1, <2>2, <2>4 DEF CrashOnlySaturated
  <2>6. TypeOK' /\ NoPhantomFlow'
    BY <2>1 DEF TypeOK, NoPhantomFlow
  <2> QED
    BY <2>5, <2>6
<1> QED
  BY <1>1, <1>2, <1>3 DEF Update

LEMMA ResetIInv ==
  ASSUME IInv, Reset
  PROVE  IInv'
<1>1. TypeOK'
  BY TableAssumption DEF IInv, Reset, TypeOK, Empty
<1>2. NoPhantomFlow'
  BY DEF Reset, NoPhantomFlow, Empty
<1>3. CrashOnlySaturated'
  BY DEF Reset, CrashOnlySaturated
<1> QED
  BY <1>1, <1>2, <1>3 DEF IInv

LEMMA StepIInv == IInv /\ [Next]_vars => IInv'
<1> SUFFICES ASSUME IInv, [Next]_vars PROVE IInv'
  OBVIOUS
<1>1. ASSUME NEW x \in Keys, NEW v \in Vals, Update(x, v)
      PROVE  IInv'
  BY <1>1, UpdateIInv
<1>2. CASE Reset
  BY <1>2, ResetIInv
<1>3. CASE UNCHANGED vars
  BY <1>3 DEF vars, IInv, TypeOK, NoPhantomFlow, CrashOnlySaturated, Stops, Saturated, Probe
<1> QED
  BY <1>1, <1>2, <1>3 DEF Next

----------------------------------------------------------------------------
(* The table keeps its type, whatever its size: indices stay in the table  *)
(* and counts never go below zero.                                         *)
THEOREM TypeCorrect == Spec => []TypeOK
<1>1. IInv => TypeOK
  BY DEF IInv
<1> QED
  BY <1>1, InitIInv, StepIInv, PTL DEF Spec

(* No bucket ever counts for a flow of which no packet was recorded since  *)
(* the last Reset.                                                         *)
THEOREM PhantomFree == Spec => []NoPhantomFlow
<1>1. IInv => NoPhantomFlow
  BY DEF IInv
<1> QED
  BY <1>1, InitIInv, StepIInv, PTL DEF Spec

(* counts[-1] is dereferenced only before any victim was ever chosen, on a *)
(* packet all of whose homes are saturated.                                *)
THEOREM CrashNeedsSaturation == Spec => []CrashOnlySaturated
<1>1. IInv => CrashOnlySaturated
  BY DEF IInv
<1> QED
  BY <1>1, InitIInv, StepIInv, PTL DEF Spec

(* An update that changes the table leaves its flow in a home bucket.      *)
THEOREM UpdateLandsHome == Spec => LandsHome
<1>1. TypeOK => [HomeStep]_vars
  <2> SUFFICES ASSUME TypeOK, NEW x \in Keys, NEW v \in Vals, Update(x, v)
               PROVE  \/ counts' = counts
                      \/ Saturated(x)
                      \/ \E i \in Rows : /\ counts'[Probe(x, i)].key = x
                                         /\ counts'[Probe(x, i)].count >= v
    BY DEF HomeStep
  <2>1. CASE Lose(x, v) \/ NoVictim(x, v)
    BY <2>1 DEF Lose, NoVictim
  <2>2. CASE Hit(x, v) \/ Win(x, v)
    <3>1. PICK b \in Buckets : /\ Replaced(b, x, v)
                               /\ Saturated(x) \/ \E i \in Rows : b = Probe(x, i)
      BY <2>2, UpdateReplaces
    <3>2. counts'[b].key = x /\ counts'[b].count >= v
      <4>1. counts'[b].count >= counts[b].count + v /\ counts'[b].key = x
        BY <3>1 DEF Replaced
      <4>2. counts[b].count \in Nat /\ v \in Nat /\ counts'[b].count \in Nat
        BY <3>1, TableAssumption DEF TypeOK, Replaced, Bucket
      <4> QED
        BY <4>1, <4>2
    <3> QED
      BY <3>1, <3>2
  <2> QED
    BY <2>1, <2>2 DEF Update
<1> QED
  BY <1>1, TypeCorrect, PTL DEF LandsHome

(* No update lowers a bucket, unless the bucket held the arriving flow.    *)
THEOREM UpdateNeverLowers == Spec => NeverLowered
<1>1. TypeOK => [LowersOnlyOwn]_vars
  <2> SUFFICES ASSUME TypeOK, NEW x \in Keys, NEW v \in Vals, Update(x, v),
                      NEW b \in Buckets, counts'[b].count < counts[b].count
               PROVE  counts[b].key = x
    BY DEF LowersOnlyOwn
  <2>1. CASE Lose(x, v) \/ NoVictim(x, v)
    <3>1. counts' = counts /\ counts[b].count \in Nat
      BY <2>1 DEF Lose, NoVictim, TypeOK
    <3> QED
      BY <3>1
  <2>2. CASE Hit(x, v) \/ Win(x, v)
    BY <2>2, UpdateReplaces DEF Replaced
  <2> QED
    BY <2>1, <2>2 DEF Update
<1> QED
  BY <1>1, TypeCorrect, PTL DEF NeverLowered

----------------------------------------------------------------------------
(* The estimates *)

LEMMA BucketsFinite == IsFiniteSet(Buckets)
<1>1. IsFiniteSet(Rows) /\ IsFiniteSet(Cols)
  BY TableAssumption, FS_Interval DEF Rows, Cols
<1> QED
  BY <1>1, FS_Product DEF Buckets

(* An estimate is what the buckets hold of the flow.                       *)
LEMMA EstIsHeld ==
  ASSUME NEW t, NEW y
  PROVE  EstIn(t, y) = Held(t, Buckets, y)
  BY DEF EstIn, Held

LEMMA EstNat ==
  ASSUME TypeOK, NEW y
  PROVE  /\ EstIn(counts, y) \in Nat
         /\ \A b \in Buckets : Part(counts[b], y) <= EstIn(counts, y)
<1>1. IsTable(counts, Buckets)
  BY DEF TypeOK, IsTable
<1> QED
  BY <1>1, BucketsFinite, EstIsHeld, HeldNat

LEMMA TakenWrites ==
  ASSUME TypeOK, NEW b \in Buckets, NEW c \in Buckets, NEW x \in Keys,
         NEW n \in Nat, NEW s \in Bucket, NEW t, t = Taken(b, x, n, c, s)
  PROVE  /\ IsTable(counts, Buckets) /\ IsTable(t, Buckets)
         /\ Writes(counts, t, Buckets, b, c, x, n, s)
<1>1. /\ t \in [Buckets -> Bucket]
      /\ t[b] = [key |-> x, count |-> n]
      /\ c # b => t[c] = s
      /\ \A d \in Buckets \ {b, c} : t[d] = counts[d]
  BY TakenValue
<1>2. t[b].key = x /\ t[b].count = n
  BY <1>1
<1> QED
  BY <1>1, <1>2 DEF TypeOK, IsTable, Bucket, Writes

LEMMA MovesRecords ==
  ASSUME TypeOK, NEW b \in Buckets, NEW c \in Buckets, NEW x \in Keys,
         NEW v \in Nat, NEW n \in Nat, NEW s \in Bucket,
         counts' = Taken(b, x, n, c, s), Moves(counts, b, c, x, v, n, s)
  PROVE  Recorded(counts, counts', Buckets, Keys, x, v)
<1>1. /\ IsTable(counts, Buckets) /\ IsTable(counts', Buckets)
      /\ Writes(counts, counts', Buckets, b, c, x, n, s)
  BY TakenWrites
<1>2. s.count \in Nat
  BY DEF Bucket
<1> QED
  BY <1>1, <1>2, BucketsFinite, MovesRecorded

(* A step of the walk that stays at b takes nothing up; one that absorbs   *)
(* the flow x, or does not meet it.                                        *)
LEMMA WalkShape ==
  ASSUME TypeOK, NEW b \in Buckets, NEW x \in Keys, NEW r \in Reached(b, x), Walks(b, x)
  PROVE  LET c == Cell(b, r)
         IN  \/ /\ c # b /\ counts[c].key = x
                /\ Carried(b, x, r) = counts[b].count + counts[c].count
                /\ Left(b, x, r) = 0
             \/ /\ c # b => counts[c].key # x
                /\ Carried(b, x, r) = counts[b].count
                /\ Left(b, x, r) = counts[c].count
<1>1. r \in Nat /\ r >= 1
  BY TableAssumption DEF Reached
<1>2. Cell(b, r) \in Buckets
  BY <1>1, CellInTable
<1>3. counts[b].count \in Nat /\ counts[Cell(b, r)].count \in Nat
  BY <1>2 DEF TypeOK
<1>4. CASE Absorbs(b, x, r)
  BY <1>4 DEF Absorbs, Carried, Left
<1>5. CASE ~Absorbs(b, x, r)
  <2>1. Cell(b, r) # b => counts[Cell(b, r)].key # x
    <3>1. CASE r = 1
      BY <3>1 DEF Walks
    <3>2. CASE r > 1
      BY <1>5, <3>2 DEF Absorbs
    <3> QED
      BY <1>1, <3>1, <3>2
  <2> QED
    BY <1>3, <1>5, <2>1 DEF Carried, Left
<1> QED
  BY <1>4, <1>5

LEMMA ReplaceRecords ==
  ASSUME TypeOK, NEW b \in Buckets, NEW x \in Keys, NEW v \in Nat, Replace(b, x, v)
  PROVE  Recorded(counts, counts', Buckets, Keys, x, v)
<1>1. \A d \in Buckets : counts[d] \in Bucket
  BY DEF TypeOK, Bucket
<1>0. \A d \in Buckets : counts[d].count \in Nat /\ counts[d].key \in Keys
  BY <1>1 DEF Bucket
<1> DEFINE nb == counts[b].count
           m == Cell(b, 1)
<1>2. m \in Buckets /\ counts[m].count \in Nat /\ nb \in Nat /\ nb + v \in Nat
  BY <1>0, CellInTable
<1>3. CASE ReplaceAlone(b, x, v)
  <2>1. counts' = Taken(b, x, nb + v, b, counts[b])
    BY <1>3 DEF ReplaceAlone
  <2>2. Moves(counts, b, b, x, v, nb + v, counts[b])
    BY DEF Moves
  <2> HIDE DEF nb
  <2> QED
    BY <1>1, <1>2, <2>1, <2>2, MovesRecords
<1>4. CASE ReplaceMerge(b, x, v)
  <2> DEFINE s == [key |-> counts[b].key, count |-> counts[m].count + nb]
  <2>1. counts[m].key = counts[b].key /\ m # b
    BY <1>4 DEF ReplaceMerge, Alone
  <2>2. s = [counts[m] EXCEPT !.count = @ + nb]
    BY <1>1, <1>2, <2>1 DEF Bucket
  <2>3. counts' = Taken(b, x, nb + v, m, s)
    BY <1>4, <2>2 DEF ReplaceMerge
  <2>4. s \in Bucket /\ s.key = counts[b].key /\ s.count = counts[m].count + nb
    BY <1>0, <1>2 DEF Bucket
  <2>5. Moves(counts, b, m, x, v, nb + v, s)
    BY <2>1, <2>4 DEF Moves
  <2> HIDE DEF s, m, nb
  <2> QED
    BY <1>2, <2>3, <2>4, <2>5, MovesRecords
<1>5. CASE ReplaceSwap(b, x, v)
  <2> DEFINE n == nb + counts[m].count + v
  <2>1. counts[m].key = x /\ m # b /\ counts' = Taken(b, x, n, m, counts[b])
    BY <1>5 DEF ReplaceSwap, Alone
  <2>2. n \in Nat /\ Moves(counts, b, m, x, v, n, counts[b])
    BY <1>2, <2>1 DEF Moves
  <2> HIDE DEF n, m, nb
  <2> QED
    BY <1>1, <1>2, <2>1, <2>2, MovesRecords
<1>6. ASSUME Walks(b, x), NEW r \in Reached(b, x),
             \/ /\ Tries(b, x, r)
                /\ counts' = Taken(b, x, Carried(b, x, r) + v, Cell(b, r),
                                  [key |-> counts[b].key, count |-> Carried(b, x, r)])
             \/ counts' = Taken(b, x, Carried(b, x, r) + v, Cell(b, r),
                                [counts[Cell(b, r)] EXCEPT !.count = Left(b, x, r)])
      PROVE  Recorded(counts, counts', Buckets, Keys, x, v)
  <2> DEFINE c == Cell(b, r)
             n == Carried(b, x, r) + v
             put == [key |-> counts[b].key, count |-> Carried(b, x, r)]
             rest == [key |-> counts[c].key, count |-> Left(b, x, r)]
  <2>1. /\ c \in Buckets /\ Carried(b, x, r) \in Nat /\ Left(b, x, r) \in Nat
        /\ n \in Nat
    BY WalkStep
  <2>2. put \in Bucket /\ rest \in Bucket /\ counts[c].count \in Nat
    BY <1>0, <2>1 DEF Bucket
  <2>3. \/ /\ c # b /\ counts[c].key = x
           /\ Carried(b, x, r) = nb + counts[c].count
           /\ Left(b, x, r) = 0
        \/ /\ c # b => counts[c].key # x
           /\ Carried(b, x, r) = nb
           /\ Left(b, x, r) = counts[c].count
    BY <1>6, WalkShape
  <2>4. CASE Tries(b, x, r) /\ counts' = Taken(b, x, n, c, put)
    <3>1. Carried(b, x, r) > Left(b, x, r)
      BY <2>4 DEF Tries
    <3>2. put.key = counts[b].key /\ put.count = Carried(b, x, r)
      OBVIOUS
    <3>3. Carried(b, x, r) = nb => put = counts[b]
      BY <1>1 DEF Bucket
    <3> HIDE DEF put, c
    <3>4. Moves(counts, b, c, x, v, n, put)
      BY <1>2, <2>1, <2>2, <2>3, <3>1, <3>2, <3>3 DEF Moves
    <3> HIDE DEF n
    <3> QED
      BY <2>1, <2>2, <2>4, <3>4, MovesRecords
  <2>5. CASE counts' = Taken(b, x, n, c, [counts[c] EXCEPT !.count = Left(b, x, r)])
    <3>1. rest = [counts[c] EXCEPT !.count = Left(b, x, r)]
      BY <1>1, <2>1 DEF Bucket
    <3>2. rest.key = counts[c].key /\ rest.count = Left(b, x, r)
      OBVIOUS
    <3>3. Left(b, x, r) = counts[c].count => rest = counts[c]
      BY <1>1, <2>1 DEF Bucket
    <3> HIDE DEF rest, c
    <3>4. Moves(counts, b, c, x, v, n, rest)
      BY <1>2, <2>1, <2>2, <2>3, <3>2, <3>3 DEF Moves
    <3> HIDE DEF n
    <3> QED
      BY <2>1, <2>2, <2>5, <3>1, <3>4, MovesRecords
  <2> QED
    BY <1>6, <2>4, <2>5
<1>7. CASE ReplaceRelocate(b, x, v)
  BY <1>6, <1>7 DEF ReplaceRelocate
<1>8. CASE ReplaceExhaust(b, x, v)
  BY <1>6, <1>8 DEF ReplaceExhaust
<1> QED
  BY <1>3, <1>4, <1>5, <1>7, <1>8 DEF Replace

LEMMA UpdateRecords ==
  ASSUME TypeOK, NEW x \in Keys, NEW v \in Vals, Hit(x, v) \/ Win(x, v)
  PROVE  Recorded(counts, counts', Buckets, Keys, x, v)
<1>0. v \in Nat
  BY TableAssumption
<1>1. CASE Hit(x, v)
  <2>1. PICK i \in Stops(x) :
          counts' = [counts EXCEPT ![Probe(x, i)] =
                      [key |-> x, count |-> counts[Probe(x, i)].count + v]]
    BY <1>1 DEF Hit
  <2> DEFINE b == Probe(x, i)
             n == counts[b].count + v
  <2>2. b \in Buckets
    BY ProbeInTable DEF Stops
  <2>3. counts[b] \in Bucket /\ n \in Nat
    BY <1>0, <2>2 DEF TypeOK, Bucket
  <2>4. counts' = Taken(b, x, n, b, counts[b])
    BY <2>1, <2>2 DEF Taken, TypeOK
  <2>5. Moves(counts, b, b, x, v, n, counts[b])
    BY DEF Moves
  <2> HIDE DEF b, n
  <2> QED
    BY <1>0, <2>2, <2>3, <2>4, <2>5, MovesRecords
<1>2. CASE Win(x, v)
  <2>1. PICK b \in Scanned(x, Depth) \ {NoLoc} : Replace(b, x, v)
    BY <1>2 DEF Win
  <2>2. b \in Buckets
    BY ScannedInTable, TableAssumption
  <2> QED
    BY <1>0, <2>1, <2>2, ReplaceRecords
<1> QED
  BY <1>1, <1>2

(* A step of the table is a step of FlowTable, or leaves it as it is.      *)
LEMMA FlowsInit == Init => Flows!Init
<1> SUFFICES ASSUME Init PROVE Flows!Init
  OBVIOUS
<1>1. \A b \in Buckets : counts[b].count = 0
  BY DEF Init, Empty
<1>2. \A y \in Keys : EstIn(counts, y) = 0
  BY <1>1, BucketsFinite, EstIsHeld, HeldNone
<1> QED
  BY <1>2 DEF Init, Flows!Init

LEMMA FlowsStep == TypeOK /\ [Next]_vars => [Flows!Next]_(Flows!flowVars)
<1> SUFFICES ASSUME TypeOK, [Next]_vars PROVE [Flows!Next]_(Flows!flowVars)
  OBVIOUS
<1>1. ASSUME counts' = counts, running' = running
      PROVE  UNCHANGED Flows!flowVars
  BY <1>1 DEF Flows!flowVars
<1>2. ASSUME NEW x \in Keys, NEW v \in Vals, Update(x, v)
      PROVE  Flows!Next \/ UNCHANGED Flows!flowVars
  <2>1. CASE Hit(x, v) \/ Win(x, v)
    <3>1. running /\ running' = running
      BY <1>2, <2>1 DEF Update, Hit, Win
    <3>2. Recorded(counts, counts', Buckets, Keys, x, v)
      BY <2>1, UpdateRecords
    <3>3. Flows!Record(x, v)
      BY <3>1, <3>2, EstIsHeld DEF Recorded, Flows!Record
    <3> QED
      BY <3>3 DEF Flows!Next
  <2>2. CASE Lose(x, v)
    BY <1>1, <2>2 DEF Lose
  <2>3. CASE NoVictim(x, v)
    <3>1. running /\ running' = FALSE /\ counts' = counts
      BY <1>2, <2>3 DEF Update, NoVictim
    <3>2. Flows!Die
      BY <3>1 DEF Flows!Die
    <3> QED
      BY <3>2 DEF Flows!Next
  <2> QED
    BY <1>2, <2>1, <2>2, <2>3 DEF Update
<1>3. CASE Reset
  <2>1. running /\ running' = running /\ \A b \in Buckets : counts'[b].count = 0
    BY <1>3 DEF Reset, Empty
  <2>2. \A y \in Keys : EstIn(counts', y) = 0
    BY <2>1, BucketsFinite, EstIsHeld, HeldNone
  <2>3. Flows!Reset
    BY <2>1, <2>2 DEF Flows!Reset
  <2> QED
    BY <2>3 DEF Flows!Next
<1>4. CASE UNCHANGED vars
  BY <1>1, <1>4 DEF vars
<1> QED
  BY <1>2, <1>3, <1>4 DEF Next

(* The table implements the estimates of FlowTable, whatever its size.     *)
THEOREM ImplementsFlowTable == Spec => RefinesFlowTable
<1>1. Spec => []TypeOK
  BY TypeCorrect
<1> QED
  BY <1>1, FlowsInit, FlowsStep, PTL DEF Spec, RefinesFlowTable, Flows!Spec

(* A victim whose next bucket is empty is moved there, or had no count.    *)
LEMMA FreeNeighbour ==
  ASSUME TypeOK, NEW b \in Buckets, NEW x \in Keys, NEW v \in Nat, Replace(b, x, v),
         ~Alone(b), counts[Cell(b, 1)].count = 0, NEW y
  PROVE  EstIn(counts', y) >= EstIn(counts, y)
<1> DEFINE m == Cell(b, 1)
<1>1. \A d \in Buckets : counts[d] \in Bucket
  BY DEF TypeOK, Bucket
<1>2. \A d \in Buckets : counts[d].count \in Nat /\ counts[d].key \in Keys
  BY <1>1 DEF Bucket
<1>3. m \in Buckets /\ m # b /\ counts[m].count = 0
  BY CellInTable DEF Alone
<1>4. \E n \in Nat, s \in Bucket :
        /\ counts' = Taken(b, x, n, m, s)
        /\ n >= counts[b].count
        /\ counts[b].count = 0 \/ (s.key = counts[b].key /\ s.count >= counts[b].count)
  <2> HIDE DEF m
  <2>1. CASE ReplaceMerge(b, x, v)
    <3> DEFINE n == counts[b].count + v
               s == [key |-> counts[b].key, count |-> counts[m].count + counts[b].count]
    <3>1. s = [counts[m] EXCEPT !.count = @ + counts[b].count]
      BY <1>1, <1>3, <2>1 DEF ReplaceMerge, Bucket, m
    <3>2. counts' = Taken(b, x, n, m, s)
      BY <2>1, <3>1 DEF ReplaceMerge, m
    <3>3. /\ n \in Nat /\ s \in Bucket /\ n >= counts[b].count
          /\ s.key = counts[b].key /\ s.count >= counts[b].count
      BY <1>2, <1>3 DEF Bucket
    <3> HIDE DEF n, s
    <3> QED
      BY <3>2, <3>3
  <2>2. CASE ReplaceSwap(b, x, v)
    <3> DEFINE n == counts[b].count + counts[m].count + v
    <3>1. counts' = Taken(b, x, n, m, counts[b])
      BY <2>2 DEF ReplaceSwap, m
    <3>2. n \in Nat /\ counts[b] \in Bucket /\ n >= counts[b].count
      BY <1>1, <1>2, <1>3
    <3> HIDE DEF n
    <3> QED
      BY <1>2, <3>1, <3>2
  <2>3. Left(b, x, 1) = 0 /\ Carried(b, x, 1) = counts[b].count
    BY <1>2, <1>3 DEF Left, Carried, Absorbs, m
  <2>4. \A r \in Reached(b, x) : r = 1
    <3> SUFFICES ASSUME NEW r \in Reached(b, x), r # 1 PROVE FALSE
      OBVIOUS
    <3>1. 1 \in 1 .. r - 1
      BY TableAssumption DEF Reached
    <3>2. Passes(b, x, 1)
      BY <3>1 DEF Reached
    <3> QED
      BY <2>3, <3>2 DEF Passes
  <2> DEFINE n == counts[b].count + v
  <2>5. n \in Nat /\ n >= counts[b].count
    BY <1>2
  <2>6. CASE ReplaceRelocate(b, x, v)
    <3> DEFINE s == [key |-> counts[b].key, count |-> counts[b].count]
    <3>1. counts' = Taken(b, x, n, m, s)
      BY <2>3, <2>4, <2>6 DEF ReplaceRelocate, m
    <3>2. s \in Bucket /\ s.key = counts[b].key /\ s.count >= counts[b].count
      BY <1>2 DEF Bucket
    <3> HIDE DEF n, s
    <3> QED
      BY <2>5, <3>1, <3>2
  <2>7. CASE ReplaceExhaust(b, x, v)
    <3> DEFINE s == [key |-> counts[m].key, count |-> 0]
    <3>1. counts' = Taken(b, x, n, m, [counts[m] EXCEPT !.count = 0]) /\ ~Tries(b, x, 1)
      BY <2>3, <2>4, <2>7 DEF ReplaceExhaust, m
    <3>2. s = [counts[m] EXCEPT !.count = 0]
      BY <1>1, <1>3 DEF Bucket
    <3>3. s \in Bucket
      BY <1>2, <1>3 DEF Bucket
    <3>4. counts[b].count = 0
      BY <1>2, <2>3, <3>1, TableAssumption DEF Tries
    <3> HIDE DEF n, s
    <3> QED
      BY <2>5, <3>1, <3>2, <3>3, <3>4
  <2>8. ~ReplaceAlone(b, x, v)
    BY DEF ReplaceAlone
  <2> QED
    BY <2>1, <2>2, <2>6, <2>7, <2>8 DEF Replace
<1>5. PICK n \in Nat, s \in Bucket :
        /\ counts' = Taken(b, x, n, m, s)
        /\ n >= counts[b].count
        /\ counts[b].count = 0 \/ (s.key = counts[b].key /\ s.count >= counts[b].count)
  BY <1>4
<1> HIDE DEF m
<1>6. EstIn(counts', y) = EstIn(counts, y)
        + ((IF x = y THEN n ELSE 0) - (IF counts[b].key = y THEN counts[b].count ELSE 0))
        + ((IF s.key = y THEN s.count ELSE 0) - 0)
  <2>1. /\ IsTable(counts, Buckets) /\ IsTable(counts', Buckets)
        /\ Writes(counts, counts', Buckets, b, m, x, n, s)
    BY <1>3, <1>5, TakenWrites
  <2> QED
    BY <1>3, <2>1, BucketsFinite, WritesHeld, EstIsHeld DEF Part
<1>7. EstIn(counts, y) \in Nat /\ s.count \in Nat /\ counts[b].count \in Nat
  BY <1>2, EstNat DEF Bucket
<1> QED
  BY <1>5, <1>6, <1>7

(* A flow that loses its bucket to another one keeps its estimate when the *)
(* bucket right behind it is empty, whatever the chain length.             *)
THEOREM FreeNeighbourKeeps == Spec => FreeNeighbourKeepsVictim
<1> DEFINE Keep == \A x \in Keys, v \in Vals :
                     Win(x, v) /\ ~Alone(loc') /\ counts[Cell(loc', 1)].count = 0 =>
                       \A y \in Keys : EstIn(counts', y) >= EstIn(counts, y)
<1>1. TypeOK => [Keep]_vars
  <2> SUFFICES ASSUME TypeOK, NEW x \in Keys, NEW v \in Vals, Win(x, v),
                      ~Alone(loc'), counts[Cell(loc', 1)].count = 0, NEW y \in Keys
               PROVE  EstIn(counts', y) >= EstIn(counts, y)
    OBVIOUS
  <2>1. PICK b \in Scanned(x, Depth) \ {NoLoc} : Replace(b, x, v) /\ loc' = b
    BY DEF Win
  <2>2. b \in Buckets /\ v \in Nat
    BY ScannedInTable, TableAssumption
  <2>3. ~Alone(b) /\ counts[Cell(b, 1)].count = 0
    BY <2>1 DEF Alone, Cell
  <2> QED
    BY <2>1, <2>2, <2>3, FreeNeighbour
<1> HIDE DEF Keep
<1>2. Spec => [][Keep]_vars
  BY <1>1, TypeCorrect, PTL
<1> QED
  BY <1>2 DEF Keep, FreeNeighbourKeepsVictim

----------------------------------------------------------------------------
(* Few flows *)

(* A flow with a count sits in the first of its homes that was free: those *)
(* in the rows above it are held by other flows.                           *)
AtHome ==
  \A b \in Buckets : counts[b].count > 0 =>
    /\ b = Probe(counts[b].key, b[1])
    /\ \A j \in Rows : j < b[1] =>
         /\ counts[Probe(counts[b].key, j)].count > 0
         /\ counts[Probe(counts[b].key, j)].key # counts[b].key

(* A recorded flow has a bucket with the whole of its count.               *)
InTable ==
  \A x \in Keys : recorded[x] > 0 =>
    \E b \in Buckets : counts[b].key = x /\ counts[b].count = recorded[x]

Few == Cardinality(FlowsOf(recorded)) <= Depth

Placed == Few => AtHome /\ InTable

LEMMA OnePlace ==
  ASSUME TypeOK, AtHome, NEW b \in Buckets, NEW d \in Buckets,
         counts[b].count > 0, counts[d].count > 0, counts[b].key = counts[d].key
  PROVE  b = d
<1> DEFINE k == counts[b].key
<1>1. b[1] \in Rows /\ d[1] \in Rows /\ b = Probe(k, b[1]) /\ d = Probe(k, d[1])
  BY DEF AtHome, Buckets
<1>2. ~(b[1] < d[1])
  BY <1>1 DEF AtHome
<1>3. ~(d[1] < b[1])
  BY <1>1 DEF AtHome
<1>4. b[1] = d[1]
  BY <1>1, <1>2, <1>3, TableAssumption DEF Rows
<1> QED
  BY <1>1, <1>4

(* Fewer other flows than rows cannot hold all the homes of a flow.        *)
LEMMA FewStops ==
  ASSUME TypeOK, NoPhantomFlow, AtHome, NEW x \in Keys,
         Cardinality(FlowsOf(recorded) \cup {x}) <= Depth
  PROVE  Stops(x) # {}
<1> SUFFICES ASSUME Stops(x) = {} PROVE FALSE
  OBVIOUS
<1> DEFINE T == FlowsOf(recorded) \ {x}
           f == [i \in Rows |-> counts[Probe(x, i)].key]
<1>1. \A i \in Rows : /\ Probe(x, i) \in Buckets
                      /\ counts[Probe(x, i)].count > 0 /\ counts[Probe(x, i)].key # x
                      /\ counts[Probe(x, i)].key \in Keys
  <2>1. \A i \in Rows : Probe(x, i) \in Buckets
    BY ProbeInTable
  <2>2. \A i \in Rows : counts[Probe(x, i)].count # 0 /\ counts[Probe(x, i)].key # x
    BY DEF Stops
  <2> QED
    BY <2>1, <2>2 DEF TypeOK
<1>2. f \in [Rows -> T]
  BY <1>1 DEF NoPhantomFlow, FlowsOf
<1>3. IsFiniteSet(Rows) /\ Cardinality(Rows) = Depth
  <2>1. 0 \in Int /\ Depth - 1 \in Int /\ Depth >= 1
    BY TableAssumption
  <2>2. /\ IsFiniteSet(0 .. Depth - 1)
        /\ Cardinality(0 .. Depth - 1) = IF 0 > Depth - 1 THEN 0 ELSE (Depth - 1) - 0 + 1
    BY <2>1, FS_Interval
  <2>3. (IF 0 > Depth - 1 THEN 0 ELSE (Depth - 1) - 0 + 1) = Depth
    BY <2>1, TableAssumption
  <2> QED
    BY <2>2, <2>3 DEF Rows
<1>4. IsFiniteSet(T) /\ Cardinality(T) < Depth
  <2>1. IsFiniteSet(T) /\ x \notin T /\ T \cup {x} = FlowsOf(recorded) \cup {x}
    BY TableAssumption, FS_Subset DEF FlowsOf
  <2>2. Cardinality(T \cup {x}) = Cardinality(T) + 1
    BY <2>1, FS_AddElement
  <2>3. Cardinality(T) \in Nat
    BY <2>1, FS_CardinalityType
  <2> HIDE DEF T
  <2>4. Cardinality(T) + 1 <= Depth
    BY <2>1, <2>2
  <2> QED
    BY <2>1, <2>3, <2>4, TableAssumption
<1>5. PICK i \in Rows, j \in Rows : i # j /\ f[i] = f[j]
  <2> HIDE DEF T, f
  <2> QED
    BY <1>2, <1>3, <1>4, FS_PigeonHole
<1>6. Probe(x, i) = Probe(x, j)
  BY <1>1, <1>5, OnePlace
<1> QED
  BY <1>5, <1>6 DEF Probe

(* A packet that finds a free home, or its own bucket, keeps the flows in  *)
(* place.                                                                  *)
LEMMA HitPlaced ==
  ASSUME TypeOK, NoPhantomFlow, AtHome, InTable,
         NEW x \in Keys, NEW v \in Vals, Hit(x, v)
  PROVE  AtHome' /\ InTable'
<1> DEFINE R == recorded
<1>0. v \in Nat /\ v > 0 /\ Depth \in Nat /\ Rows = 0 .. Depth - 1
  BY TableAssumption DEF Rows
<1>1. PICK i \in Stops(x) :
        /\ \A j \in Stops(x) : i <= j
        /\ counts' = [counts EXCEPT ![Probe(x, i)] =
                        [key |-> x, count |-> counts[Probe(x, i)].count + v]]
  BY DEF Hit
<1> DEFINE c == Probe(x, i)
<1>2. /\ recorded' = [recorded EXCEPT ![x] = @ + v] /\ home' = home
      /\ i \in Rows /\ c \in Buckets /\ c[1] = i
      /\ counts[c].count = 0 \/ counts[c].key = x
  BY ProbeInTable DEF Hit, Stops, Probe
<1>3. \A b \in Buckets : counts[b].count \in Nat /\ counts[b].key \in Keys
  BY DEF TypeOK
<1>4. /\ \A b \in Buckets \ {c} : counts'[b] = counts[b]
      /\ counts'[c].key = x /\ counts'[c].count = counts[c].count + v
      /\ counts'[c].count > 0
  BY <1>0, <1>1, <1>2, <1>3 DEF TypeOK
<1>5. \A y, j : Probe(y, j)' = Probe(y, j)
  BY <1>2 DEF Probe
<1>6. \A j \in Rows : j < i => counts[Probe(x, j)].count > 0 /\ counts[Probe(x, j)].key # x
  <2> SUFFICES ASSUME NEW j \in Rows, j < i
               PROVE  counts[Probe(x, j)].count > 0 /\ counts[Probe(x, j)].key # x
    OBVIOUS
  <2>1. j \notin Stops(x) /\ Probe(x, j) \in Buckets
    BY <1>0, <1>1, <1>2, ProbeInTable
  <2> QED
    BY <1>3, <2>1 DEF Stops
<1>7. \A b \in Buckets : counts[b].count > 0 /\ counts[b].key = x => b = c
  <2> SUFFICES ASSUME NEW b \in Buckets, counts[b].count > 0, counts[b].key = x
               PROVE  b = c
    OBVIOUS
  <2>1. b[1] \in Rows /\ b = Probe(x, b[1])
    BY DEF AtHome, Buckets
  <2>2. b[1] \in Stops(x) /\ i <= b[1]
    BY <1>1, <2>1 DEF Stops
  <2>3. CASE i = b[1]
    BY <2>1, <2>3
  <2>4. CASE i < b[1]
    <3>1. counts[c].count > 0 /\ counts[c].key # x
      BY <1>2, <2>4 DEF AtHome
    <3> QED
      BY <1>2, <3>1
  <2> QED
    BY <1>0, <1>2, <2>1, <2>2, <2>3, <2>4
<1>8. counts[c].count = recorded[x]
  <2>1. recorded[x] \in Nat
    BY DEF TypeOK
  <2>2. CASE recorded[x] > 0
    BY <1>7, <2>2 DEF InTable
  <2>3. CASE recorded[x] = 0
    <3>1. counts[c].count > 0 => FALSE
      BY <1>2, <2>3 DEF NoPhantomFlow
    <3> QED
      BY <1>2, <1>3, <2>3, <3>1
  <2> QED
    BY <2>1, <2>2, <2>3
<1> HIDE DEF c
<1>9. AtHome'
  <2> SUFFICES ASSUME NEW b \in Buckets, counts'[b].count > 0
               PROVE  /\ b = Probe(counts'[b].key, b[1])
                      /\ \A j \in Rows : j < b[1] =>
                           /\ counts'[Probe(counts'[b].key, j)].count > 0
                           /\ counts'[Probe(counts'[b].key, j)].key # counts'[b].key
    BY <1>5 DEF AtHome
  <2>1. CASE b = c
    <3>1. b = Probe(x, b[1]) /\ b[1] = i
      BY <1>2, <2>1 DEF c
    <3>2. ASSUME NEW j \in Rows, j < i
          PROVE  counts'[Probe(x, j)] = counts[Probe(x, j)]
      <4>1. Probe(x, j) \in Buckets
        BY ProbeInTable
      <4>2. Probe(x, j)[1] = j /\ j # i
        BY <1>0, <1>2, <3>2 DEF Probe
      <4>3. Probe(x, j) # c
        BY <1>2, <4>2
      <4> QED
        BY <1>4, <4>1, <4>3
    <3> QED
      BY <1>4, <1>6, <2>1, <3>1, <3>2
  <2>2. CASE b # c
    <3> DEFINE y == counts[b].key
    <3>1. counts'[b] = counts[b] /\ counts[b].count > 0 /\ y \in Keys
      BY <1>3, <1>4, <2>2
    <3>2. /\ b = Probe(y, b[1])
          /\ \A j \in Rows : j < b[1] => counts[Probe(y, j)].count > 0
                                         /\ counts[Probe(y, j)].key # y
      BY <3>1 DEF AtHome
    <3>3. y # x
      BY <1>7, <2>2, <3>1
    <3>4. ASSUME NEW j \in Rows, j < b[1]
          PROVE  counts'[Probe(y, j)].count > 0 /\ counts'[Probe(y, j)].key # y
      <4>1. Probe(y, j) \in Buckets
        BY <3>1, ProbeInTable
      <4>2. CASE Probe(y, j) = c
        BY <1>4, <3>3, <4>2
      <4>3. CASE Probe(y, j) # c
        BY <1>4, <3>2, <3>4, <4>1, <4>3
      <4> QED
        BY <4>2, <4>3
    <3> QED
      BY <3>1, <3>2, <3>4
  <2> QED
    BY <2>1, <2>2
<1>10. InTable'
  <2> SUFFICES ASSUME NEW y \in Keys, recorded'[y] > 0
               PROVE  \E b \in Buckets : counts'[b].key = y /\ counts'[b].count = recorded'[y]
    BY DEF InTable
  <2>1. CASE y = x
    <3>1. recorded'[x] = recorded[x] + v
      BY <1>2 DEF TypeOK
    <3> QED
      BY <1>2, <1>4, <1>8, <2>1, <3>1
  <2>2. CASE y # x
    <3>1. recorded'[y] = recorded[y]
      BY <1>2, <2>2 DEF TypeOK
    <3>2. PICK b \in Buckets : counts[b].key = y /\ counts[b].count = recorded[y]
      BY <3>1 DEF InTable
    <3>3. b # c
      BY <1>2, <1>3, <2>2, <3>1, <3>2
    <3> QED
      BY <1>4, <3>1, <3>2, <3>3
  <2> QED
    BY <2>1, <2>2
<1> QED
  BY <1>9, <1>10

LEMMA FlowsAdd ==
  ASSUME TypeOK, NEW x \in Keys, NEW v \in Vals,
         recorded' = [recorded EXCEPT ![x] = @ + v]
  PROVE  FlowsOf(recorded') = FlowsOf(recorded) \cup {x}
<1>1. v \in Nat /\ v > 0
  BY TableAssumption
<1>2. /\ recorded'[x] > 0
      /\ \A y \in Keys \ {x} : recorded'[y] = recorded[y]
  BY <1>1 DEF TypeOK
<1> QED
  BY <1>2 DEF FlowsOf

LEMMA FewerFew ==
  ASSUME NEW x \in Keys, Cardinality(FlowsOf(recorded) \cup {x}) <= Depth
  PROVE  Few
<1> DEFINE S == FlowsOf(recorded) \cup {x}
<1>1. IsFiniteSet(S) /\ FlowsOf(recorded) \in SUBSET S
  BY TableAssumption, FS_Subset DEF FlowsOf
<1>2. /\ Cardinality(FlowsOf(recorded)) <= Cardinality(S)
      /\ IsFiniteSet(FlowsOf(recorded))
  <2> HIDE DEF S
  <2> QED
    BY <1>1, FS_Subset
<1>3. Cardinality(S) \in Nat /\ Cardinality(FlowsOf(recorded)) \in Nat
  <2> HIDE DEF S
  <2> QED
    BY <1>1, <1>2, FS_CardinalityType
<1>4. Cardinality(S) <= Depth
  OBVIOUS
<1> HIDE DEF S
<1> QED
  BY <1>2, <1>3, <1>4, TableAssumption DEF Few

(* As long as the flows fit the rows, no packet contests a bucket.         *)
LEMMA FewHit ==
  ASSUME IInv, Placed, NEW x \in Keys, NEW v \in Vals, Update(x, v),
         Cardinality(FlowsOf(recorded) \cup {x}) <= Depth
  PROVE  Hit(x, v)
<1>1. TypeOK /\ NoPhantomFlow /\ AtHome
  BY FewerFew DEF IInv, Placed
<1>2. Stops(x) # {}
  BY <1>1, FewStops
<1> QED
  BY <1>2 DEF Update, Win, Lose, NoVictim

LEMMA UpdatePlaced ==
  ASSUME IInv, Placed, NEW x \in Keys, NEW v \in Vals, Update(x, v)
  PROVE  Placed'
<1> SUFFICES ASSUME Cardinality(FlowsOf(recorded')) <= Depth
             PROVE  AtHome' /\ InTable'
  BY DEF Placed, Few, FlowsOf
<1>1. CASE Hit(x, v) \/ Win(x, v)
  <2>1. Cardinality(FlowsOf(recorded) \cup {x}) <= Depth
    BY <1>1, FlowsAdd DEF IInv, Hit, Win
  <2>2. Hit(x, v) /\ Few
    BY <2>1, FewHit, FewerFew
  <2> QED
    BY <2>2, HitPlaced DEF IInv, Placed
<1>2. CASE Lose(x, v) \/ NoVictim(x, v)
  <2>1. UNCHANGED <<home, counts, recorded>>
    BY <1>2 DEF Lose, NoVictim
  <2> QED
    BY <2>1 DEF Placed, Few, FlowsOf, AtHome, InTable, Probe
<1> QED
  BY <1>1, <1>2 DEF Update

LEMMA ClearedPlaced ==
  ASSUME \A b \in Buckets : counts[b].count = 0, \A x \in Keys : recorded[x] = 0
  PROVE  Placed
  BY DEF Placed, AtHome, InTable

LEMMA StepPlaced == IInv /\ Placed /\ [Next]_vars => Placed'
<1> SUFFICES ASSUME IInv, Placed, [Next]_vars PROVE Placed'
  OBVIOUS
<1>1. ASSUME NEW x \in Keys, NEW v \in Vals, Update(x, v)
      PROVE  Placed'
  BY <1>1, UpdatePlaced
<1>2. CASE Reset
  BY <1>2 DEF Reset, Empty, Placed, AtHome, InTable
<1>3. CASE UNCHANGED vars
  BY <1>3 DEF vars, Placed, Few, FlowsOf, AtHome, InTable, Probe
<1> QED
  BY <1>1, <1>2, <1>3 DEF Next

(* Flows in place are counted exactly: nothing else holds their key with a *)
(* count.                                                                  *)
LEMMA PlacedExact ==
  ASSUME TypeOK, NoPhantomFlow, AtHome, InTable, NEW x \in Keys
  PROVE  EstIn(counts, x) = recorded[x]
<1>1. IsTable(counts, Buckets) /\ EstIn(counts, x) = Held(counts, Buckets, x)
  BY EstIsHeld DEF TypeOK, IsTable
<1>2. \A b \in Buckets : counts[b].count \in Nat
  BY DEF TypeOK
<1>3. CASE recorded[x] > 0
  <2>1. PICK d \in Buckets : counts[d].key = x /\ counts[d].count = recorded[x]
    BY <1>3 DEF InTable
  <2>2. \A b \in Buckets : counts[b].key = x /\ counts[b].count > 0 => b = d
    BY <1>3, <2>1, OnePlace
  <2>3. \A b \in Buckets \ {d} : Part(counts[b], x) = 0
    BY <1>2, <2>2 DEF Part
  <2>4. Held(counts, Buckets, x) = Part(counts[d], x)
    BY <1>1, <2>3, BucketsFinite, HeldOnly
  <2> QED
    BY <1>1, <2>1, <2>4 DEF Part
<1>4. CASE recorded[x] = 0
  <2>1. \A b \in Buckets : Part(counts[b], x) = 0
    BY <1>2, <1>4 DEF Part, NoPhantomFlow
  <2>2. Held(counts, Buckets, x) = 0
    BY <1>1, <2>1, BucketsFinite, HeldNowhere
  <2> QED
    BY <1>1, <1>4, <2>2
<1>5. recorded[x] \in Nat
  BY DEF TypeOK
<1> QED
  BY <1>3, <1>4, <1>5

(* While packets of no more flows than rows were recorded, every flow sits *)
(* in the first home that was free for it, nothing is displaced and every  *)
(* estimate is exact, for every hash family.                               *)
THEOREM FewFlows == Spec => []FewFlowsExact
<1>1. Init => Placed
  BY DEF Init, Empty, Placed, AtHome, InTable
<1>2. IInv /\ Placed => FewFlowsExact
  BY PlacedExact DEF IInv, Placed, Few, FewFlowsExact
<1> QED
  BY <1>1, <1>2, InitIInv, StepIInv, StepPlaced, PTL DEF Spec

----------------------------------------------------------------------------
(* One column *)

(* With one column a bucket is its own neighbour, and nothing is moved,    *)
(* copied or forgotten: the table counts what was recorded.                *)
Mass == Width = 1 => SumOver(CountsOf(counts, Buckets), Buckets) = SumOver(recorded, Keys)

LEMMA OneColumn ==
  ASSUME TypeOK, Width = 1, NEW x \in Keys, NEW v \in Vals, Hit(x, v) \/ Win(x, v)
  PROVE  \E b \in Buckets :
           counts' = [counts EXCEPT ![b] = [key |-> x, count |-> counts[b].count + v]]
<1>1. CASE Hit(x, v)
  <2>1. \A i \in Stops(x) : Probe(x, i) \in Buckets
    BY ProbeInTable DEF Stops
  <2> QED
    BY <1>1, <2>1 DEF Hit
<1>2. CASE Win(x, v)
  <2>1. PICK b \in Scanned(x, Depth) \ {NoLoc} : Replace(b, x, v)
    BY <1>2 DEF Win
  <2>2. b \in Buckets
    BY ScannedInTable, TableAssumption
  <2>3. Alone(b)
    <3>1. b[2] = 0 /\ b = <<b[1], b[2]>>
      BY <2>2 DEF Buckets, Cols
    <3>2. (b[2] + 1) % Width = 0
      BY <3>1
    <3> QED
      BY <3>1, <3>2 DEF Alone, Cell
  <2>4. counts' = Taken(b, x, counts[b].count + v, b, counts[b])
    BY <2>1, <2>3 DEF Replace, ReplaceAlone, ReplaceMerge, ReplaceSwap, ReplaceRelocate,
                      ReplaceExhaust, Walks
  <2>5. Taken(b, x, counts[b].count + v, b, counts[b])
          = [counts EXCEPT ![b] = [key |-> x, count |-> counts[b].count + v]]
    BY <2>2 DEF Taken, TypeOK
  <2> QED
    BY <2>2, <2>4, <2>5
<1> QED
  BY <1>1, <1>2

LEMMA UpdateMass ==
  ASSUME TypeOK, Mass, NEW x \in Keys, NEW v \in Vals, Update(x, v)
  PROVE  Mass'
<1> SUFFICES ASSUME Width = 1
             PROVE  SumOver(CountsOf(counts', Buckets), Buckets) = SumOver(recorded', Keys)
  BY DEF Mass, CountsOf, Buckets, Rows, Cols
<1>0. SumOver(CountsOf(counts, Buckets), Buckets) = SumOver(recorded, Keys) /\ v \in Nat
  BY TableAssumption DEF Mass
<1>1. CASE Hit(x, v) \/ Win(x, v)
  <2>1. PICK b \in Buckets :
          counts' = [counts EXCEPT ![b] = [key |-> x, count |-> counts[b].count + v]]
    BY <1>1, OneColumn
  <2>2. recorded' = [recorded EXCEPT ![x] = @ + v]
    BY <1>1 DEF Hit, Win
  <2> DEFINE p == CountsOf(counts, Buckets)
             q == CountsOf(counts', Buckets)
  <2>3. /\ \A d \in Buckets : p[d] \in Int /\ q[d] \in Int
        /\ \A d \in Buckets \ {b} : p[d] = q[d]
        /\ q[b] = p[b] + v
    BY <1>0, <2>1 DEF TypeOK, CountsOf
  <2>4. /\ \A y \in Keys : recorded[y] \in Int /\ recorded'[y] \in Int
        /\ \A y \in Keys \ {x} : recorded[y] = recorded'[y]
        /\ recorded'[x] = recorded[x] + v
    BY <1>0, <2>2 DEF TypeOK
  <2> HIDE DEF p, q
  <2>5. SumOver(q, Buckets) = SumOver(p, Buckets) + q[b] - p[b]
    BY <2>3, BucketsFinite, SumChange
  <2>6. SumOver(recorded', Keys) = SumOver(recorded, Keys) + recorded'[x] - recorded[x]
    BY <2>4, TableAssumption, SumChange
  <2>7. SumOver(recorded, Keys) \in Int
    BY <2>4, TableAssumption, SumInt
  <2>8. SumOver(p, Buckets) = SumOver(recorded, Keys)
    BY <1>0 DEF p
  <2>9. SumOver(q, Buckets) = SumOver(recorded', Keys)
    BY <1>0, <2>3, <2>4, <2>5, <2>6, <2>7, <2>8
  <2> QED
    BY <2>9 DEF q
<1>2. CASE Lose(x, v) \/ NoVictim(x, v)
  BY <1>0, <1>2 DEF Lose, NoVictim
<1> QED
  BY <1>1, <1>2 DEF Update

LEMMA ClearedMass ==
  ASSUME \A b \in Buckets : counts[b].count = 0, \A x \in Keys : recorded[x] = 0
  PROVE  Mass
<1>1. \A b \in Buckets : CountsOf(counts, Buckets)[b] = 0
  BY DEF CountsOf
<1>2. SumOver(CountsOf(counts, Buckets), Buckets) = 0 /\ SumOver(recorded, Keys) = 0
  BY <1>1, BucketsFinite, TableAssumption, SumZero
<1> QED
  BY <1>2 DEF Mass

(* What the estimates of some flows add up to.                             *)
LEMMA EstimatesWithin ==
  ASSUME TypeOK, NEW Q \in SUBSET Keys
  PROVE  SumOver([y \in Keys |-> EstIn(counts, y)], Q) <= SumOver(CountsOf(counts, Buckets), Buckets)
<1> DEFINE h == [y \in Keys |-> Held(counts, Buckets, y)]
           e == [y \in Keys |-> EstIn(counts, y)]
<1>1. IsTable(counts, Buckets) /\ \A b \in Buckets : counts[b].key \in Keys
  BY DEF TypeOK, IsTable
<1>2. \A y \in Keys : e[y] = h[y] /\ h[y] \in Nat
  BY <1>1, EstIsHeld, BucketsFinite, HeldNat
<1>3. SumOver(h, Keys) = SumOver(CountsOf(counts, Buckets), Buckets)
  BY <1>1, BucketsFinite, TableAssumption, HeldTotal
<1> HIDE DEF h, e
<1>4. SumOver(h, Q) <= SumOver(h, Keys)
  BY <1>2, TableAssumption, SumWithin
<1>5. IsFiniteSet(Q)
  BY TableAssumption, FS_Subset
<1>6. SumOver(e, Q) = SumOver(h, Q)
  BY <1>2, <1>5, SumSame
<1> QED
  BY <1>3, <1>4, <1>6 DEF e
=============================================================================
