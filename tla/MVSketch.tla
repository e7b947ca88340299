------------------------------ MODULE MVSketch ------------------------------
(***************************************************************************)
(* The majority-vote sketch src/OVS/mvsketch.cpp: a bucket counts all its  *)
(* packets (sum) and keeps the candidate for their majority (key) with its *)
(* lead (count).  Sketches of the same shape have the same hash functions, *)
(* and MergeAll makes one the summary of several.                          *)
(***************************************************************************)
EXTENDS Integers, Sequences, FiniteSetsExt

CONSTANTS
  Keys,           \* flow keys, the all-zero key included
  ZeroKey,        \* the all-zero key, which is also the content of an unused bucket
  NulFirst,       \* the keys that begin with a zero byte
  Depth, Width,   \* rows, and buckets per row
  HashFamily,     \* the hash functions a run may be constructed with
  Sketches,       \* the sketches of the program
  Arrays,         \* arrays of sketches that MergeAll is given
  MaxArrivals     \* bound of the model: packets a sketch is updated with or stands for

Rows    == 0 .. Depth - 1
Cols    == 0 .. Width - 1
Buckets == Rows \X Cols

ASSUME MVAssumption ==
  /\ ZeroKey \in NulFirst /\ NulFirst \subseteq Keys
  /\ Depth \in Nat \ {0} /\ Width \in Nat \ {0} /\ MaxArrivals \in Nat
  /\ HashFamily \subseteq [Rows -> [Keys -> Cols]]
  /\ Arrays \subseteq Seq(Sketches) \ {<<>>}

VARIABLES
  home,           \* home[i][x]: column of flow x in row i, fixed by the seeds
  mv,             \* mv[s]: the table of sketch s
  sum,            \* sum[s]: its mv_.sum, what GetCount returns
  seen            \* ghost: seen[s][x], packets of x that s stands for

vars == <<home, mv, sum, seen>>

Empty == [key |-> ZeroKey, sum |-> 0, count |-> 0]

Init ==
  /\ home \in HashFamily
  /\ mv = [s \in Sketches |-> [b \in Buckets |-> Empty]]
  /\ sum = [s \in Sketches |-> 0]
  /\ seen = [s \in Sketches |-> [x \in Keys |-> 0]]

----------------------------------------------------------------------------
(* Update (43-65) *)

Probe(x, i) == <<i, home[i][x]>>

(* Variant: the candidate loses its last vote and stays. *)
VotedKeepsKey(e, x) ==
  [key   |-> IF e.key \in NulFirst THEN x ELSE e.key,
   sum   |-> e.sum + 1,
   count |-> IF e.key \in NulFirst \/ e.count = 0 THEN 1
             ELSE IF e.key = x THEN e.count + 1 ELSE e.count - 1]

(* A key that begins with a zero byte is taken for an unused bucket (52),  *)
(* whatever the count.                                                     *)
Replaces(e, x) == e.key \in NulFirst \/ (e.key # x /\ e.count = 0)

Voted(e, x) ==
  [key   |-> IF Replaces(e, x) THEN x ELSE e.key,
   sum   |-> e.sum + 1,
   count |-> IF Replaces(e, x) THEN 1
             ELSE IF e.key = x THEN e.count + 1 ELSE e.count - 1]

Update(s, x) ==
  /\ mv' = [mv EXCEPT ![s] = [b \in Buckets |-> IF b = Probe(x, b[1]) THEN Voted(@[b], x)
                                                ELSE @[b]]]
  /\ sum' = [sum EXCEPT ![s] = @ + 1]
  /\ seen' = [seen EXCEPT ![s][x] = @ + 1]
  /\ UNCHANGED home

Reset(s) ==                    \* 151-158
  /\ mv' = [mv EXCEPT ![s] = [b \in Buckets |-> Empty]]
  /\ sum' = [sum EXCEPT ![s] = 0]
  /\ seen' = [seen EXCEPT ![s] = [x \in Keys |-> 0]]
  /\ UNCHANGED home

----------------------------------------------------------------------------
(* MergeAll (171-213) *)

(* a[1] + ... + a[n] *)
Total(a, n) ==
  LET part[i \in 0 .. n] == IF i = 0 THEN 0 ELSE part[i - 1] + a[i] IN part[n]

TotalOf(arr, val(_)) == Total([j \in DOMAIN arr |-> val(arr[j])], Len(arr))

(* What bucket e says at most of flow k (196-200). *)
Share(e, k) == IF e.key = k THEN (e.sum + e.count) \div 2 ELSE (e.sum - e.count) \div 2

Est(arr, b, k) == TotalOf(arr, LAMBDA s : Share(mv[s][b], k))

(* The first of the array whose candidate has the largest estimate (202).  *)
IsPointer(arr, b, p) ==
  \A q \in DOMAIN arr :
    LET e(n) == Est(arr, b, mv[arr[n]][b].key) IN e(q) < e(p) \/ (e(q) = e(p) /\ p <= q)

(* Variant: the lead is the sum of the candidate's own counts.             *)
MergedLead(arr, b, k) ==
  [key |-> k, sum |-> TotalOf(arr, LAMBDA s : mv[s][b].sum),
   count |-> TotalOf(arr, LAMBDA s : IF mv[s][b].key = k THEN mv[s][b].count ELSE 0)]

(* Candidate k wins bucket b (204-210). *)
Merged(arr, b, k) ==
  LET est   == Est(arr, b, k)
      total == TotalOf(arr, LAMBDA s : mv[s][b].sum)
      lead  == 2 * est - total
  IN  IF lead > 0 THEN [key |-> k, sum |-> total, count |-> lead]
      ELSE [key |-> k, sum |-> 2 * est, count |-> 0]

MergeAll(t, arr) ==
  /\ \E pointer \in [Buckets -> DOMAIN arr] :
       /\ \A b \in Buckets : IsPointer(arr, b, pointer[b])
       /\ mv' = [mv EXCEPT ![t] =
                   [b \in Buckets |-> Merged(arr, b, mv[arr[pointer[b]]][b].key)]]
  /\ seen' = [seen EXCEPT ![t] = [x \in Keys |-> TotalOf(arr, LAMBDA s : seen[s][x])]]
  /\ UNCHANGED <<home, sum>>

StandsFor(s) == MapThenSumSet(LAMBDA x : seen[s][x], Keys)

Next ==
  \/ \E s \in Sketches, x \in Keys : /\ StandsFor(s) < MaxArrivals /\ sum[s] < MaxArrivals
                                   /\ Update(s, x)
  \/ \E s \in Sketches : Reset(s)
  \/ \E t \in Sketches, arr \in Arrays :
       TotalOf(arr, StandsFor) <= MaxArrivals /\ MergeAll(t, arr)

Spec == Init /\ [][Next]_vars

----------------------------------------------------------------------------
(* Queries *)

LowAt(e, x) == IF e.key = x THEN e.count ELSE 0

Low_estimate(s, x) == Max({LowAt(mv[s][Probe(x, i)], x) : i \in Rows})

UpAt(e, x) == (e.sum - e.count) \div 2 + (IF e.key = x THEN e.count ELSE 0)

Up_estimate(s, x) == Min({UpAt(mv[s][Probe(x, i)], x) : i \in Rows})

PointQuery(s, x) == (Up_estimate(s, x) + Low_estimate(s, x)) \div 2

(* Query (68-104) estimates as Up_estimate does. *)
Query(s, thresh) ==
  {<<x, Up_estimate(s, x)>> :
     x \in {y \in {mv[s][b].key : b \in {c \in Buckets : mv[s][c].sum > thresh}} :
              Up_estimate(s, y) > thresh}}

----------------------------------------------------------------------------
(* Properties *)

TypeOK ==
  /\ home \in HashFamily
  /\ mv \in [Sketches -> [Buckets -> [key : Keys, sum : Nat, count : Nat]]]
  /\ sum \in [Sketches -> Nat]
  /\ seen \in [Sketches -> [Keys -> Nat]]

(* s saw no flow that begins with a zero byte in a home of x: such a flow  *)
(* sets the count of its bucket back with every packet.                    *)
Trusted(s, x) ==
  \A y \in NulFirst, i \in Rows : seen[s][y] > 0 => home[i][y] # home[i][x]

(* The low estimate never exceeds the packets of a flow, in any sketch,    *)
(* however its table was merged; the up estimate of a trusted flow is      *)
(* never below them, so the point query is off by half their gap at most.  *)
EstimatesBracket ==
  \A s \in Sketches, x \in Keys :
    /\ Low_estimate(s, x) <= seen[s][x]
    /\ Trusted(s, x) => seen[s][x] <= Up_estimate(s, x)

(* A trusted flow with more than half the packets of one of its buckets    *)
(* and more than the threshold is reported, with no less than it has, also *)
(* by a sketch that was merged.                                            *)
MajorityReported ==
  \A s \in Sketches, x \in Keys :
    /\ Trusted(s, x)
    /\ \E i \in Rows : 2 * seen[s][x] > mv[s][Probe(x, i)].sum
    => \A thresh \in 0 .. seen[s][x] - 1 :
         \E r \in Query(s, thresh) : r[1] = x /\ r[2] >= seen[s][x]
=============================================================================
