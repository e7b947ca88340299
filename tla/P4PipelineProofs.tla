-------------------------- MODULE P4PipelineProofs --------------------------
(***************************************************************************)
(* Theorems about P4Pipeline for every number of flows, register size and  *)
(* hash family, with any number of packets between their passes.           *)
(***************************************************************************)
EXTENDS P4Pipeline, FiniteSums

Packet == [flow : Flows, minimal_loc : Locs \cup {1}]

IInv == TypeOK /\ VictimOccupied /\ FirstTwoMirror

(* The locations of a flow, the flow of a packet between its passes, and   *)
(* the row a second pass works on.                                         *)
LEMMA Located ==
  ASSUME TypeOK, NEW f \in Flows, NEW r \in Rows
  PROVE  home[r][f] \in Locs
  BY PipelineAssumption DEF TypeOK

LEMMA InFlight ==
  ASSUME recirc \in Seq(Packet), NEW i \in 1 .. Len(recirc)
  PROVE  recirc[i].flow \in Flows
<1>1. recirc[i] \in Packet
  OBVIOUS
<1> QED
  BY <1>1 DEF Packet

LEMMA RowOfRow == \A loc : RowOf(loc) \in Rows
  BY DEF RowOf, Rows

(* Crediting a packet to a bucket touches no other bucket, and no count    *)
(* falls.                                                                  *)
LEMMA CreditEffect ==
  ASSUME TypeOK, NEW f \in Flows, NEW r \in Rows
  PROVE  /\ Credit(f, r) \in [Rows -> [Locs -> [hi : Keys, lo : Nat]]]
         /\ \A q \in Rows, l \in Locs :
              Credit(f, r)[q][l].lo = IF q = r /\ l = home[r][f] THEN bucket[q][l].lo + 1
                                      ELSE bucket[q][l].lo
<1>1. /\ bucket \in [Rows -> [Locs -> [hi : Keys, lo : Nat]]]
      /\ home[r][f] \in Locs /\ KeyOf[f] \in Keys
  BY Located, PipelineAssumption DEF TypeOK
<1>2. DEFINE n == [hi |-> KeyOf[f], lo |-> bucket[r][home[r][f]].lo + 1]
<1>3. n \in [hi : Keys, lo : Nat] /\ n.lo = bucket[r][home[r][f]].lo + 1
  BY <1>1
<1>4. Credit(f, r) = [bucket EXCEPT ![r] = [bucket[r] EXCEPT ![home[r][f]] = n]]
  BY <1>1 DEF Credit
<1> HIDE DEF n
<1> QED
  BY <1>1, <1>3, <1>4

(* The empty registers satisfy the invariant.                              *)
LEMMA InitIInv == Init => IInv
  BY PipelineAssumption DEF Init, IInv, TypeOK, VictimOccupied, FirstTwoMirror, Mirrors, Rows

(* A packet counted in its first pass.                                     *)
LEMMA CountKeeps ==
  ASSUME IInv, NEW f \in Flows, Count(f)
  PROVE  IInv'
<1>0. TypeOK /\ recirc \in Seq(Packet)
  BY DEF IInv, TypeOK, Packet
<1>1. PICK r \in Rows :
        /\ bucket' = Credit(f, r)
        /\ data' = [data EXCEPT ![r][home[r][f]] = @ + 1]
        /\ arrived' = arrived + 1 /\ UNCHANGED <<home, recirc, lost>>
  BY DEF Count, Hits
<1>2. home[r][f] \in Locs
  BY <1>0, Located
<1>3. bucket' \in [Rows -> [Locs -> [hi : Keys, lo : Nat]]]
  BY <1>0, <1>1, CreditEffect
<1>4. \A q \in Rows, l \in Locs :
        /\ bucket'[q][l].lo = IF q = r /\ l = home[r][f] THEN bucket[q][l].lo + 1
                              ELSE bucket[q][l].lo
        /\ bucket[q][l].lo \in Nat
  BY <1>0, <1>1, CreditEffect DEF TypeOK
<1>5. /\ data' \in [Rows -> [Locs -> Nat]]
      /\ \A q \in Rows, l \in Locs :
           data'[q][l] = IF q = r /\ l = home[r][f] THEN data[q][l] + 1 ELSE data[q][l]
  BY <1>0, <1>1, <1>2 DEF TypeOK
<1>6. TypeOK'
  BY <1>0, <1>1, <1>3, <1>5 DEF TypeOK
<1>7. VictimOccupied'
  <2> SUFFICES ASSUME NEW i \in 1 .. Len(recirc), NEW q \in Rows
               PROVE  bucket'[q][home[q][recirc[i].flow]].lo > 0
    BY <1>1 DEF VictimOccupied, At
  <2>1. recirc[i].flow \in Flows
    BY <1>0, InFlight
  <2>2. home[q][recirc[i].flow] \in Locs
    BY <1>0, <2>1, Located
  <2>3. bucket[q][home[q][recirc[i].flow]].lo > 0
    BY DEF IInv, VictimOccupied, At
  <2> QED
    BY <1>4, <2>2, <2>3
<1>8. FirstTwoMirror'
  BY <1>4, <1>5 DEF IInv, FirstTwoMirror, Mirrors, Rows
<1> QED
  BY <1>6, <1>7, <1>8 DEF IInv

(* A packet that missed joins the recirculation: its three buckets are in  *)
(* use, or it would have hit.                                              *)
LEMMA MissKeeps ==
  ASSUME IInv, NEW f \in Flows, Miss(f)
  PROVE  IInv'
<1>0. TypeOK /\ recirc \in Seq(Packet)
  BY DEF IInv, TypeOK, Packet
<1>1. home[2][f] \in Locs /\ home[3][f] \in Locs
  BY <1>0, Located DEF Rows
<1>2. [flow |-> f, minimal_loc |-> MinimalLoc(f)] \in Packet
  BY <1>1 DEF MinimalLoc, Packet
<1> DEFINE p == [flow |-> f, minimal_loc |-> MinimalLoc(f)]
<1>3. /\ recirc' = Append(recirc, p) /\ Hits(f) = {} /\ arrived' = arrived + 1
      /\ UNCHANGED <<home, bucket, data, lost>>
  BY DEF Miss
<1>4. p.flow = f
  OBVIOUS
<1> HIDE DEF p
<1>5. TypeOK'
  BY <1>0, <1>2, <1>3 DEF TypeOK, Packet, p
<1>6. VictimOccupied'
  <2> SUFFICES ASSUME NEW i \in 1 .. Len(recirc'), NEW q \in Rows
               PROVE  bucket[q][home[q][recirc'[i].flow]].lo > 0
    BY <1>3 DEF VictimOccupied, At
  <2>1. CASE i = Len(recirc) + 1
    <3>1. recirc'[i] = p
      BY <1>0, <1>3, <2>1
    <3>2. bucket[q][home[q][f]].lo # 0
      BY <1>3 DEF Hits, At
    <3>3. bucket[q][home[q][f]].lo \in Nat
      BY <1>0, Located DEF TypeOK
    <3> QED
      BY <1>4, <3>1, <3>2, <3>3
  <2>2. CASE i # Len(recirc) + 1
    <3>1. i \in 1 .. Len(recirc) /\ recirc'[i] = recirc[i]
      BY <1>0, <1>3, <2>2
    <3> QED
      BY <3>1 DEF IInv, VictimOccupied, At
  <2> QED
    BY <2>1, <2>2
<1>7. FirstTwoMirror'
  BY <1>3 DEF IInv, FirstTwoMirror, Mirrors
<1> QED
  BY <1>5, <1>6, <1>7 DEF IInv

(* A packet that missed and was dropped leaves the registers alone.        *)
LEMMA DropKeeps ==
  ASSUME IInv, NEW f \in Flows, Drop(f)
  PROVE  IInv'
  BY DEF Drop, IInv, TypeOK, VictimOccupied, At, FirstTwoMirror, Mirrors

(* A second pass: row 3 credits its shadow elsewhere, rows 1 and 2 do not. *)
LEMMA SecondPassKeeps ==
  ASSUME IInv, SecondPass
  PROVE  IInv'
<1>0. TypeOK /\ recirc \in Seq(Packet) /\ recirc # <<>>
  BY DEF IInv, TypeOK, Packet, SecondPass
<1> DEFINE f == Head(recirc).flow
           r == RowOf(Head(recirc).minimal_loc)
<1>1. f \in Flows /\ r \in Rows
  <2>1. 1 \in 1 .. Len(recirc) /\ Head(recirc) = recirc[1]
    BY <1>0
  <2> QED
    BY <1>0, <2>1, InFlight, RowOfRow
<1>2. /\ bucket' = Credit(f, r) /\ data' = [data EXCEPT ![r][DataLoc(f, r)] = @ + 1]
      /\ recirc' = Tail(recirc) /\ UNCHANGED <<home, arrived, lost>>
  BY DEF SecondPass
<1> HIDE DEF f, r
<1>3. home[r][f] \in Locs /\ DataLoc(f, r) \in Locs
  BY <1>0, <1>1, Located DEF DataLoc, Rows
<1>4. bucket' \in [Rows -> [Locs -> [hi : Keys, lo : Nat]]]
  BY <1>0, <1>1, <1>2, CreditEffect
<1>5. \A q \in Rows, l \in Locs :
        /\ bucket'[q][l].lo = IF q = r /\ l = home[r][f] THEN bucket[q][l].lo + 1
                              ELSE bucket[q][l].lo
        /\ bucket[q][l].lo \in Nat
  BY <1>0, <1>1, <1>2, CreditEffect DEF TypeOK
<1>6. /\ data' \in [Rows -> [Locs -> Nat]]
      /\ \A q \in Rows, l \in Locs :
           data'[q][l] = IF q = r /\ l = DataLoc(f, r) THEN data[q][l] + 1 ELSE data[q][l]
  BY <1>0, <1>1, <1>2, <1>3 DEF TypeOK
<1>7. TypeOK'
  BY <1>0, <1>2, <1>4, <1>6 DEF TypeOK, Packet
<1>8. VictimOccupied'
  <2> SUFFICES ASSUME NEW i \in 1 .. Len(recirc'), NEW q \in Rows
               PROVE  bucket'[q][home[q][recirc'[i].flow]].lo > 0
    BY <1>2 DEF VictimOccupied, At
  <2>1. i + 1 \in 1 .. Len(recirc) /\ recirc'[i] = recirc[i + 1]
    BY <1>0, <1>2
  <2>2. recirc[i + 1].flow \in Flows
    BY <1>0, <2>1, InFlight
  <2>3. home[q][recirc[i + 1].flow] \in Locs
    BY <1>0, <2>2, Located
  <2>4. bucket[q][home[q][recirc[i + 1].flow]].lo > 0
    BY <2>1 DEF IInv, VictimOccupied, At
  <2> DEFINE l == home[q][recirc[i + 1].flow]
  <2>5. l \in Locs /\ bucket[q][l].lo > 0
    BY <2>3, <2>4
  <2>6. home[q][recirc'[i].flow] = l
    BY <2>1
  <2> HIDE DEF l
  <2>7. bucket'[q][l].lo > 0
    BY <1>5, <2>5
  <2> QED
    BY <2>6, <2>7
<1>9. FirstTwoMirror'
  <2> SUFFICES ASSUME NEW q \in {1, 2}, NEW l \in Locs
               PROVE  data'[q][l] = bucket'[q][l].lo
    BY DEF FirstTwoMirror, Mirrors
  <2>1. q \in Rows /\ data[q][l] = bucket[q][l].lo
    BY DEF IInv, FirstTwoMirror, Mirrors, Rows
  <2>2. q = r => DataLoc(f, r) = home[r][f]
    BY DEF DataLoc
  <2> QED
    BY <1>5, <1>6, <2>1, <2>2
<1> QED
  BY <1>7, <1>8, <1>9 DEF IInv

(* The invariant is inductive.                                             *)
LEMMA StepIInv == IInv /\ [Next]_vars => IInv'
<1> SUFFICES ASSUME IInv, [Next]_vars PROVE IInv'
  OBVIOUS
<1>1. ASSUME NEW f \in Flows, FirstPass(f) PROVE IInv'
  BY <1>1, CountKeeps, MissKeeps, DropKeeps DEF FirstPass
<1>2. CASE SecondPass
  BY <1>2, SecondPassKeeps
<1>3. CASE UNCHANGED vars
  BY <1>3 DEF vars, IInv, TypeOK, VictimOccupied, At, FirstTwoMirror, Mirrors
<1> QED
  BY <1>1, <1>2, <1>3 DEF Next

(* The invariant holds of every behaviour.                                 *)
LEMMA Invariant == Spec => []IInv
  BY InitIInv, StepIInv, PTL DEF Spec

(* A recirculating packet never overwrites an unused bucket, whichever row *)
(* its second pass works on and whatever came in between.                  *)
THEOREM VictimsOccupied == Spec => []VictimOccupied
<1>1. IInv => VictimOccupied
  BY DEF IInv
<1> QED
  BY <1>1, Invariant, PTL

(* The shadow registers of rows 1 and 2 hold the counts of their buckets   *)
(* (chainsketch.p4:269-271, 398-400); row 3 is the exception.              *)
THEOREM ShadowsOfFirstTwo == Spec => []FirstTwoMirror
<1>1. IInv => FirstTwoMirror
  BY DEF IInv
<1> QED
  BY <1>1, Invariant, PTL

----------------------------------------------------------------------------
(* The counts of the registers *)

Cells == Rows \X Locs

LEMMA CellsFinite == IsFiniteSet(Cells)
<1>1. IsFiniteSet(Rows) /\ IsFiniteSet(Locs)
  <2>1. Rows = 1 .. 3 /\ Locs = 0 .. Size - 1 /\ Size - 1 \in Int
    BY PipelineAssumption DEF Rows, Locs
  <2>2. IsFiniteSet(1 .. 3)
    <3>1. \A n \in Int : IsFiniteSet(1 .. n)
      BY FS_Interval
    <3>2. 3 \in Int
      OBVIOUS
    <3> QED
      BY <3>1, <3>2, Zenon
  <2>3. IsFiniteSet(0 .. Size - 1)
    BY <2>1, FS_Interval
  <2> QED
    BY <2>1, <2>2, <2>3
<1> QED
  BY <1>1, FS_Product DEF Cells

(* The sums of the model are sums of a function. *)
LEMMA LoSum ==
  ASSUME NEW c, NEW K, IsFiniteSet(K)
  PROVE  MapThenSumSet(LAMBDA p : c[p[1]][p[2]].lo, K)
           = SumOver([p \in K |-> c[p[1]][p[2]].lo], K)
<1> DEFINE a == [p \in K |-> c[p[1]][p[2]].lo]
           E(h) == [s \in SUBSET K |-> IF s = {} THEN 0
                      ELSE c[(CHOOSE x \in s : TRUE)[1]][(CHOOSE x \in s : TRUE)[2]].lo
                           + h[s \ {CHOOSE x \in s : TRUE}]]
           i == CHOOSE h : h = E(h)
<1>1. PICK g : SumsOf(g, a, SUBSET K) /\ SumOver(a, K) = g[K]
  <2> HIDE DEF a
  <2> QED
    BY SumsExist, SumOverIs
<1>2. \A s \in SUBSET K : s # {} => a[Pick(s)] = c[Pick(s)[1]][Pick(s)[2]].lo
  <2>1. \A s \in SUBSET K : s # {} => Pick(s) \in K
    BY PickIn
  <2> QED
    BY <2>1
<1>3. \A h : SumsOf(h, a, SUBSET K) <=> h = E(h)
  <2> HIDE DEF a
  <2> QED
    BY <1>2 DEF SumsOf, Pick
<1>4. i = E(i)
  <2> HIDE DEF E
  <2> QED
    BY <1>1, <1>3
<1>5. MapThenSumSet(LAMBDA p : c[p[1]][p[2]].lo, K) = i[K]
  BY DEF MapThenSumSet, MapThenFoldSet
<1> HIDE DEF i, E
<1>6. SumsOf(i, a, SUBSET K)
  BY <1>3, <1>4
<1> DEFINE b == a
<1>7. SumsOf(i, b, SUBSET K) /\ \A x \in K : a[x] = b[x]
  BY <1>6
<1> HIDE DEF a, b
<1>8. g[K] = i[K]
  BY <1>1, <1>7, SumsUnique
<1> QED
  BY <1>1, <1>5, <1>8 DEF a

(* The registers as a table of buckets. *)
TableOf(c) == [p \in Cells |-> [key |-> c[p[1]][p[2]].hi, count |-> c[p[1]][p[2]].lo]]

LEMMA EstIsHeld ==
  ASSUME NEW c \in [Rows -> [Locs -> [hi : Keys, lo : Nat]]], NEW k
  PROVE  IsTable(TableOf(c), Cells) /\ EstIn(c, k) = Held(TableOf(c), Cells, k)
<1> DEFINE t == TableOf(c)
           K == {p \in Cells : c[p[1]][p[2]].hi = k}
           a == [p \in K |-> c[p[1]][p[2]].lo]
           b == [p \in Cells |-> Part(t[p], k)]
<1>1. \A p \in Cells : /\ c[p[1]][p[2]].lo \in Nat
                       /\ t[p].key = c[p[1]][p[2]].hi
                       /\ t[p].count = c[p[1]][p[2]].lo
  <2>1. \A p \in Cells : p[1] \in Rows /\ p[2] \in Locs
    BY DEF Cells
  <2> QED
    BY <2>1 DEF TableOf
<1> HIDE DEF t
<1>2. IsTable(t, Cells)
  BY <1>1 DEF IsTable
<1>3. K \in SUBSET Cells /\ IsFiniteSet(K)
  BY CellsFinite, FS_Subset
<1>4. /\ \A p \in K : a[p] = b[p]
      /\ \A p \in Cells : b[p] \in Int
      /\ \A p \in Cells \ K : b[p] = 0
  BY <1>1 DEF Part
<1>5. EstIn(c, k) = MapThenSumSet(LAMBDA p : c[p[1]][p[2]].lo, K)
  BY DEF EstIn, Cells
<1>6. EstIn(c, k) = SumOver(a, K)
  <2> HIDE DEF K
  <2> QED
    BY <1>3, <1>5, LoSum
<1>7. Held(t, Cells, k) = SumOver(b, Cells)
  BY <1>2, CellsFinite, HeldIs
<1> HIDE DEF K, a, b
<1>8. SumOver(a, K) = SumOver(b, K)
  BY <1>3, <1>4, SumSame
<1>9. SumOver(b, Cells) = SumOver(b, K)
  BY <1>3, <1>4, CellsFinite, SumRestrict
<1> QED
  BY <1>2, <1>6, <1>7, <1>8, <1>9 DEF t

(* A credited bucket: the only one that changes.                           *)
LEMMA CreditBucket ==
  ASSUME TypeOK, NEW f \in Flows, NEW r \in Rows
  PROVE  LET d == <<r, home[r][f]>>
         IN  /\ d \in Cells
             /\ Credit(f, r) \in [Rows -> [Locs -> [hi : Keys, lo : Nat]]]
             /\ Credit(f, r)[d[1]][d[2]].hi = KeyOf[f]
             /\ Credit(f, r)[d[1]][d[2]].lo = bucket[d[1]][d[2]].lo + 1
             /\ \A p \in Cells \ {d} : Credit(f, r)[p[1]][p[2]] = bucket[p[1]][p[2]]
<1>1. /\ bucket \in [Rows -> [Locs -> [hi : Keys, lo : Nat]]]
      /\ home[r][f] \in Locs /\ KeyOf[f] \in Keys
  BY Located, PipelineAssumption DEF TypeOK
<1> DEFINE n == [hi |-> KeyOf[f], lo |-> bucket[r][home[r][f]].lo + 1]
<1>2. n.hi = KeyOf[f] /\ n.lo = bucket[r][home[r][f]].lo + 1
  OBVIOUS
<1>3. Credit(f, r) = [bucket EXCEPT ![r] = [bucket[r] EXCEPT ![home[r][f]] = n]]
  BY <1>1 DEF Credit
<1> HIDE DEF n
<1>3a. Credit(f, r)[r] = [bucket[r] EXCEPT ![home[r][f]] = n]
  BY <1>1, <1>3
<1>3b. \A q \in Rows : q # r => Credit(f, r)[q] = bucket[q]
  BY <1>1, <1>3
<1>4. /\ Credit(f, r)[r][home[r][f]] = n
      /\ \A q \in Rows, l \in Locs :
           q # r \/ l # home[r][f] => Credit(f, r)[q][l] = bucket[q][l]
  BY <1>1, <1>3a, <1>3b
<1>5. \A p \in Cells : p[1] \in Rows /\ p[2] \in Locs /\ p = <<p[1], p[2]>>
  BY DEF Cells
<1>6. Credit(f, r) \in [Rows -> [Locs -> [hi : Keys, lo : Nat]]]
  BY CreditEffect
<1>7. \A p \in Cells \ {<<r, home[r][f]>>} :
        Credit(f, r)[p[1]][p[2]] = bucket[p[1]][p[2]]
  BY <1>4, <1>5
<1> QED
  BY <1>1, <1>2, <1>4, <1>6, <1>7 DEF Cells

LEMMA TotalIs ==
  ASSUME NEW c
  PROVE  CountIn(c) = SumOver([p \in Cells |-> c[p[1]][p[2]].lo], Cells)
  BY CellsFinite, LoSum DEF CountIn, Cells

LEMMA CreditTotal ==
  ASSUME TypeOK, NEW f \in Flows, NEW r \in Rows, bucket' = Credit(f, r)
  PROVE  CountIn(bucket) \in Int /\ CountIn(bucket') = CountIn(bucket) + 1
<1> DEFINE a == [p \in Cells |-> bucket[p[1]][p[2]].lo]
           b == [p \in Cells |-> bucket'[p[1]][p[2]].lo]
           d == <<r, home[r][f]>>
<1>1. /\ d \in Cells /\ bucket' \in [Rows -> [Locs -> [hi : Keys, lo : Nat]]]
      /\ bucket'[d[1]][d[2]].lo = bucket[d[1]][d[2]].lo + 1
      /\ \A p \in Cells \ {d} : bucket'[p[1]][p[2]] = bucket[p[1]][p[2]]
  BY CreditBucket
<1>2. \A p \in Cells : p[1] \in Rows /\ p[2] \in Locs
  BY DEF Cells
<1>3. \A p \in Cells : a[p] \in Int /\ b[p] \in Int
  <2>1. \A q \in Rows, l \in Locs : bucket[q][l].lo \in Nat /\ bucket'[q][l].lo \in Nat
    BY <1>1 DEF TypeOK
  <2> QED
    BY <1>2, <2>1
<1>4. b[d] = a[d] + 1 /\ \A p \in Cells \ {d} : a[p] = b[p]
  <2> HIDE DEF d
  <2> QED
    BY <1>1
<1>5. CountIn(bucket) = SumOver(a, Cells)
  BY TotalIs
<1>6. CountIn(bucket') = SumOver(b, Cells)
  BY TotalIs
<1> HIDE DEF a, b, d
<1>7. SumOver(b, Cells) = SumOver(a, Cells) + b[d] - a[d]
  BY <1>1, <1>3, <1>4, CellsFinite, SumChange
<1>8. SumOver(a, Cells) \in Int
  BY <1>3, CellsFinite, SumInt
<1>9. a[d] \in Int /\ b[d] = a[d] + 1
  BY <1>1, <1>3, <1>4
<1> QED
  BY <1>5, <1>6, <1>7, <1>8, <1>9

LEMMA InitCounted == Init => CountedOnce
<1> SUFFICES ASSUME Init PROVE CountedOnce
  OBVIOUS
<1>1. \A p \in Cells : p[1] \in Rows /\ p[2] \in Locs
  BY DEF Cells
<1> DEFINE a == [p \in Cells |-> bucket[p[1]][p[2]].lo]
<1>2. \A p \in Cells : a[p] = 0
  BY <1>1 DEF Init
<1>3. CountIn(bucket) = SumOver(a, Cells)
  BY TotalIs
<1> HIDE DEF a
<1>4. CountIn(bucket) = 0
  BY <1>2, <1>3, CellsFinite, SumZero
<1> QED
  BY <1>4 DEF Init, CountedOnce

LEMMA StepCounted == IInv /\ CountedOnce /\ [Next]_vars => CountedOnce'
<1> SUFFICES ASSUME IInv, CountedOnce, [Next]_vars PROVE CountedOnce'
  OBVIOUS
<1>0. TypeOK /\ recirc \in Seq(Packet) /\ Len(recirc) \in Nat /\ arrived \in Nat /\ lost \in Nat
  BY DEF IInv, TypeOK, Packet
<1>1. CountIn(bucket) + Len(recirc) + lost = arrived
  BY DEF CountedOnce
<1>2. ASSUME CountIn(bucket') + Len(recirc') + lost' = arrived'
      PROVE  CountedOnce'
  BY <1>2 DEF CountedOnce
<1>3. ASSUME NEW f \in Flows, Count(f)
      PROVE  CountedOnce'
  <2>1. PICK r \in Rows : bucket' = Credit(f, r)
    BY <1>3 DEF Count, Hits
  <2>2. arrived' = arrived + 1 /\ lost' = lost /\ recirc' = recirc
    BY <1>3 DEF Count
  <2>3. CountIn(bucket) \in Int /\ CountIn(bucket') = CountIn(bucket) + 1
    BY <1>0, <2>1, CreditTotal
  <2>4. CountIn(bucket') + Len(recirc') + lost' = arrived'
    BY <1>0, <1>1, <2>2, <2>3
  <2> QED
    BY <1>2, <2>4
<1>4. ASSUME NEW f \in Flows, Miss(f) \/ Drop(f)
      PROVE  CountedOnce'
  <2>1. bucket' = bucket /\ arrived' = arrived + 1
    BY <1>4 DEF Miss, Drop
  <2>2. \/ Len(recirc') = Len(recirc) + 1 /\ lost' = lost
        \/ recirc' = recirc /\ lost' = lost + 1
    BY <1>0, <1>4 DEF Miss, Drop
  <2>3. CountIn(bucket') = CountIn(bucket) /\ CountIn(bucket) \in Int
    <3> DEFINE a == [p \in Cells |-> bucket[p[1]][p[2]].lo]
    <3>1. \A p \in Cells : p[1] \in Rows /\ p[2] \in Locs
      BY DEF Cells
    <3>2. \A p \in Cells : a[p] \in Int
      BY <1>0, <3>1 DEF TypeOK
    <3>3. CountIn(bucket) = SumOver(a, Cells)
      BY TotalIs
    <3> HIDE DEF a
    <3> QED
      BY <2>1, <3>2, <3>3, CellsFinite, SumInt
  <2>4. CountIn(bucket') + Len(recirc') + lost' = arrived'
    BY <1>0, <1>1, <2>1, <2>2, <2>3
  <2> QED
    BY <1>2, <2>4
<1>5. CASE SecondPass
  <2> DEFINE f == Head(recirc).flow
             r == RowOf(Head(recirc).minimal_loc)
  <2>1. recirc # <<>> /\ bucket' = Credit(f, r) /\ recirc' = Tail(recirc)
    BY <1>5 DEF SecondPass
  <2>2. arrived' = arrived /\ lost' = lost
    BY <1>5 DEF SecondPass
  <2>3. f \in Flows /\ r \in Rows
    <3>1. 1 \in 1 .. Len(recirc) /\ Head(recirc) = recirc[1]
      BY <1>0, <2>1
    <3> QED
      BY <1>0, <3>1, InFlight, RowOfRow
  <2> HIDE DEF f, r
  <2>4. CountIn(bucket) \in Int /\ CountIn(bucket') = CountIn(bucket) + 1
    BY <1>0, <2>1, <2>3, CreditTotal
  <2>5. Len(recirc') = Len(recirc) - 1
    BY <1>0, <2>1
  <2>6. CountIn(bucket') + Len(recirc') + lost' = arrived'
    BY <1>0, <1>1, <2>2, <2>4, <2>5
  <2> QED
    BY <1>2, <2>6
<1>6. CASE UNCHANGED vars
  BY <1>1, <1>2, <1>6 DEF vars
<1> QED
  BY <1>3, <1>4, <1>5, <1>6 DEF Next, FirstPass

(* Every packet that arrived is in a count, on its way, or was dropped.    *)
THEOREM PacketsCountedOnce == Spec => []CountedOnce
  BY InitCounted, StepCounted, Invariant, PTL DEF Spec

(* A credited packet is recorded in the estimates: the key it displaces    *)
(* loses what the key of the packet gains beyond it.                       *)
LEMMA CreditRecords ==
  ASSUME TypeOK, NEW f \in Flows, NEW r \in Rows, bucket' = Credit(f, r)
  PROVE  Estimates!Record(KeyOf[f], 1)
<1> DEFINE d == <<r, home[r][f]>>
           t == TableOf(bucket)
           u == TableOf(bucket')
           x == KeyOf[f]
           n == t[d].count
<1>1. /\ d \in Cells /\ bucket' \in [Rows -> [Locs -> [hi : Keys, lo : Nat]]]
      /\ bucket'[d[1]][d[2]].hi = x
      /\ bucket'[d[1]][d[2]].lo = bucket[d[1]][d[2]].lo + 1
      /\ \A p \in Cells \ {d} : bucket'[p[1]][p[2]] = bucket[p[1]][p[2]]
  BY CreditBucket
<1>2. x \in Keys /\ bucket \in [Rows -> [Locs -> [hi : Keys, lo : Nat]]]
  BY PipelineAssumption DEF TypeOK
<1> HIDE DEF d, x
<1>3. /\ \A p \in Cells \ {d} : u[p] = t[p]
      /\ u[d].key = x /\ u[d].count = n + 1
  BY <1>1 DEF TableOf
<1>4. /\ IsTable(t, Cells) /\ IsTable(u, Cells)
      /\ \A y : EstIn(bucket, y) = Held(t, Cells, y)
      /\ \A y : EstIn(bucket', y) = Held(u, Cells, y)
  BY <1>1, <1>2, EstIsHeld
<1> HIDE DEF t, u
<1>5. n \in Nat /\ n + 1 \in Nat /\ t[d].count \in Nat
  BY <1>1, <1>4 DEF IsTable
<1>6. Writes(t, u, Cells, d, d, x, n + 1, t[d]) /\ Moves(t, d, d, x, 1, n + 1, t[d])
  BY <1>1, <1>3 DEF Writes, Moves
<1> HIDE DEF n
<1>7. Recorded(t, u, Cells, Keys, x, 1)
  BY <1>1, <1>4, <1>5, <1>6, CellsFinite, MovesRecorded
<1>8. Estimates!Record(x, 1)
  BY <1>2, <1>4, <1>7 DEF Recorded, Estimates!Record
<1> QED
  BY <1>8 DEF x

LEMMA EstimatesInit == Init => Estimates!Init
<1> SUFFICES ASSUME Init PROVE Estimates!Init
  OBVIOUS
<1>1. \A p \in Cells : p[1] \in Rows /\ p[2] \in Locs
  BY DEF Cells
<1>2. bucket \in [Rows -> [Locs -> [hi : Keys, lo : Nat]]]
  BY PipelineAssumption DEF Init
<1>3. \A p \in Cells : TableOf(bucket)[p].count = 0
  BY <1>1 DEF Init, TableOf
<1>4. \A y : EstIn(bucket, y) = 0
  BY <1>2, <1>3, CellsFinite, EstIsHeld, HeldNone
<1> QED
  BY <1>4 DEF Estimates!Init, EstIn

LEMMA EstimatesStep == IInv /\ [Next]_vars => [Estimates!Next]_(Estimates!flowVars)
<1> SUFFICES ASSUME IInv, [Next]_vars PROVE [Estimates!Next]_(Estimates!flowVars)
  OBVIOUS
<1>0. TypeOK /\ recirc \in Seq(Packet)
  BY DEF IInv, TypeOK, Packet
<1>1. ASSUME NEW f \in Flows, NEW r \in Rows, bucket' = Credit(f, r)
      PROVE  Estimates!Next
  <2>1. Estimates!Record(KeyOf[f], 1) /\ KeyOf[f] \in Keys
    BY <1>0, <1>1, CreditRecords, PipelineAssumption
  <2> QED
    BY <2>1 DEF Estimates!Next
<1>2. ASSUME bucket' = bucket
      PROVE  UNCHANGED Estimates!flowVars
  BY <1>2 DEF Estimates!flowVars
<1>3. ASSUME NEW f \in Flows, FirstPass(f)
      PROVE  [Estimates!Next]_(Estimates!flowVars)
  <2>1. CASE Count(f)
    BY <1>1, <2>1 DEF Count, Hits
  <2>2. CASE Miss(f) \/ Drop(f)
    BY <1>2, <2>2 DEF Miss, Drop
  <2> QED
    BY <1>3, <2>1, <2>2 DEF FirstPass
<1>4. CASE SecondPass
  <2>1. 1 \in 1 .. Len(recirc) /\ Head(recirc) = recirc[1]
    BY <1>0, <1>4 DEF SecondPass
  <2>2. Head(recirc).flow \in Flows /\ RowOf(Head(recirc).minimal_loc) \in Rows
    BY <1>0, <2>1, InFlight, RowOfRow
  <2> QED
    BY <1>1, <1>4, <2>2 DEF SecondPass
<1>5. CASE UNCHANGED vars
  BY <1>2, <1>5 DEF vars
<1> QED
  BY <1>3, <1>4, <1>5 DEF Next

(* The registers implement the estimates of FlowTable, with any number of  *)
(* packets between their passes.                                           *)
THEOREM ImplementsFlowTable == Spec => RefinesFlowTable
  BY EstimatesInit, EstimatesStep, Invariant, PTL DEF Spec, RefinesFlowTable, Estimates!Spec
=============================================================================
