--------------------------- MODULE OvsChainSketch ---------------------------
(***************************************************************************)
(* The bucket table that user_reader feeds, src/OVS/chainsketch.cpp.  It   *)
(* is not the table of ChainSketch: the victim is a local variable, a      *)
(* packet whose homes are all saturated is dropped, every packet counts    *)
(* one, and the walk along the chain has a guard that no table satisfies,  *)
(* so that a victim either stays in its row's next bucket by a merge or a  *)
(* swap, or is forgotten.                                                  *)
(***************************************************************************)
EXTENDS Integers, FiniteSetsExt

CONSTANTS
  Keys,           \* flow keys, the all-zero key included
  ZeroKey,        \* the all-zero key, which is also the content of an unused bucket
  NulFirst,       \* the keys that begin with a zero byte
  Depth, Width,   \* rows, and buckets per row
  MinCap,         \* 99999999: initial value of min in Update, of resval in Query
  HashFamily,     \* the hash functions a run may be constructed with
  MaxArrivals     \* bound of the model: packets between two Resets

Rows    == 0 .. Depth - 1
Cols    == 0 .. Width - 1
Buckets == Rows \X Cols

ASSUME OvsAssumption ==
  /\ ZeroKey \in NulFirst /\ NulFirst \subseteq Keys
  /\ Depth \in Nat \ {0} /\ Width \in Nat \ {0}
  /\ MinCap \in Nat \ {0} /\ MaxArrivals \in Nat
  /\ HashFamily \subseteq [Rows -> [Keys -> Cols]]

VARIABLES
  home,           \* home[i][x]: column of flow x in row i, fixed by the seeds
  counts,         \* the table
  sum,            \* coin_.sum
  seen            \* ghost: flows of which a packet came since the last Reset

vars == <<home, counts, sum, seen>>

Empty == [key |-> ZeroKey, count |-> 0]

Init ==
  /\ home \in HashFamily
  /\ counts = [b \in Buckets |-> Empty]
  /\ sum = 0 /\ seen = {}

----------------------------------------------------------------------------
(* Update: the scan of the rows (56-74) *)

Probe(x, i) == <<i, home[i][x]>>

Unused(b) == counts[b].key \in NulFirst /\ counts[b].count = 0

(* Variant: a row that holds x does not end the scan. *)
StopsUnusedOnly(x) == {i \in Rows : Unused(Probe(x, i))}

Stops(x) == {i \in Rows : Unused(Probe(x, i)) \/ counts[Probe(x, i)].key = x}

(* The first of the lightest homes; none when all are saturated. *)
Victims(x) ==
  {Probe(x, i) : i \in {i \in Rows :
     /\ counts[Probe(x, i)].count < MinCap
     /\ \A j \in Rows :
          \/ counts[Probe(x, i)].count < counts[Probe(x, j)].count
          \/ counts[Probe(x, i)].count = counts[Probe(x, j)].count /\ i <= j}}

(* Variant: without the break, every row that is free or holds x counts.   *)
HitEveryRow(x) ==
  /\ Stops(x) # {}
  /\ counts' = [b \in Buckets |-> IF \E i \in Stops(x) : b = Probe(x, i)
                                  THEN [key |-> x, count |-> counts[b].count + 1]
                                  ELSE counts[b]]

Hit(x) ==                      \* 60-68: an unused bucket or the flow's own
  \E i \in Stops(x) :
    /\ \A j \in Stops(x) : i <= j
    /\ counts' = [counts EXCEPT ![Probe(x, i)] =
                    [key |-> x, count |-> counts[Probe(x, i)].count + 1]]

----------------------------------------------------------------------------
(* Update: a won lottery (85-132), b the victim and n the bucket after it  *)

Cell(b, j) == <<b[1], (b[2] + j) % Width>>

ReplaceMerge(b, n, x) ==       \* 89-92
  /\ n # b /\ counts[n].key = counts[b].key
  /\ counts' = [counts EXCEPT ![n].count = @ + counts[b].count,
                              ![b] = [key |-> x, count |-> @.count + 1]]

ReplaceSwap(b, n, x) ==        \* 93-99
  /\ n # b /\ counts[n].key = x /\ counts[b].key # x
  /\ counts' = [counts EXCEPT ![n] = counts[b],
                              ![b] = [key |-> x, count |-> @.count + counts[n].count + 1]]

(* The guard of the walk (107). *)
WalkGoesOn(b, n) == counts[b].count > counts[n].count + counts[b].count

(* Variant: the arriving flow starts from one.                             *)
ReplaceForgetFresh(b, n, x) ==
  /\ n = b \/ counts[n].key \notin {x, counts[b].key}
  /\ counts' = [counts EXCEPT ![b] = [key |-> x, count |-> 1]]

ReplaceForget(b, n, x) ==      \* 101-130: the victim's flow is not kept
  /\ n = b \/ (counts[n].key \notin {x, counts[b].key} /\ ~WalkGoesOn(b, n))
  /\ counts' = [counts EXCEPT ![b] = [key |-> x, count |-> @.count + 1]]

Win(x) ==
  /\ Stops(x) = {}
  /\ \E b \in Victims(x) : \/ ReplaceMerge(b, Cell(b, 1), x)
                           \/ ReplaceSwap(b, Cell(b, 1), x)
                           \/ ReplaceForget(b, Cell(b, 1), x)

Lose(x) ==                     \* 82-83: rand() % (count + 1) < count
  /\ Stops(x) = {}
  /\ \E b \in Victims(x) : counts[b].count > 0
  /\ UNCHANGED counts

Drop(x) ==                     \* 75: loc is still -1
  /\ Stops(x) = {} /\ Victims(x) = {}
  /\ UNCHANGED counts

Update(x) ==
  /\ Hit(x) \/ Win(x) \/ Lose(x) \/ Drop(x)
  /\ sum' = sum + 1
  /\ seen' = seen \cup {x}
  /\ UNCHANGED home

Reset ==
  /\ counts' = [b \in Buckets |-> Empty]
  /\ sum' = 0 /\ seen' = {}
  /\ UNCHANGED home

Next == Reset \/ \E x \in Keys : sum < MaxArrivals /\ Update(x)

Spec == Init /\ [][Next]_vars

----------------------------------------------------------------------------
(* Queries *)

(* Variant: one bucket too many per row. *)
EstimateOneMore(x) ==
  MapThenSumSet(LAMBDA p : LET b == Cell(Probe(x, p[1]), p[2])
                           IN  IF counts[b].key = x THEN counts[b].count ELSE 0,
                Rows \X (0 .. 4))

(* The count of x in its home and the three buckets after it, every row    *)
(* (155-172).                                                              *)
Estimate(x) ==
  MapThenSumSet(LAMBDA p : LET b == Cell(Probe(x, p[1]), p[2])
                           IN  IF counts[b].key = x THEN counts[b].count ELSE 0,
                Rows \X (0 .. 3))

Query(thresh) ==
  {<<x, IF Estimate(x) # 0 THEN Estimate(x) ELSE MinCap>> :
     x \in {counts[b].key : b \in {c \in Buckets : counts[c].count > thresh}}}

(* counts[i], i a row: a bucket of the table read row by row. *)
Flat(i) == <<i \div Width, i % Width>>

(* PointQuery: the bucket after the home is added when it is counts[i],    *)
(* not that bucket, which holds x (203-207).                               *)
Low_estimate(x) ==
  MapThenSumSet(LAMBDA i : (IF counts[Probe(x, i)].key = x THEN counts[Probe(x, i)].count ELSE 0)
                  + (IF counts[Flat(i)].key = x THEN counts[Cell(Probe(x, i), 1)].count ELSE 0),
                Rows)

Up_estimate(x) ==
  IF Low_estimate(x) # 0 THEN Low_estimate(x)
  ELSE Min({counts[Probe(x, i)].count : i \in Rows})

----------------------------------------------------------------------------
(* Properties *)

TypeOK ==
  /\ home \in HashFamily
  /\ counts \in [Buckets -> [key : Keys, count : Nat]]
  /\ sum \in Nat
  /\ seen \subseteq Keys

(* As long as no packet has the all-zero key, a flow is in one bucket at   *)
(* most, although it has a home in every row: Query may compare single     *)
(* buckets with the threshold (145) and misses no flow whose estimate,     *)
(* which is a sum over the rows, exceeds it.                               *)
OneBucketPerFlow ==
  ZeroKey \notin seen =>
    \A b, c \in Buckets :
      counts[b].count > 0 /\ counts[c].count > 0 /\ counts[b].key = counts[c].key => b = c

(* Query reports every count of the table once, and all that it reports    *)
(* together is no more than the packets that came, whoever inherited whose *)
(* count.                                                                  *)
ReportsWithinStream ==
  Width > 3 /\ ZeroKey \notin seen =>
    LET reported == MapThenSumSet(LAMBDA r : r[2], Query(0))
    IN  /\ reported = MapThenSumSet(LAMBDA b : counts[b].count, Buckets)
        /\ reported <= sum

(* What a point query says agrees with what Query reports, except for the  *)
(* flows held in the first Depth buckets of the table, which also get the  *)
(* counts of other flows.                                                  *)
PointQueryAgrees ==
  Width > 3 /\ ZeroKey \notin seen =>
    \A x \in Keys \ {ZeroKey} :
      /\ Low_estimate(x) >= Estimate(x)
      /\ (\A i \in Rows : counts[Flat(i)].key # x) => Low_estimate(x) = Estimate(x)

(* All that table t counts for flow x. *)
EstIn(t, x) == MapThenSumSet(LAMBDA b : t[b].count, {b \in Buckets : t[b].key = x})

(* The table implements the estimates of FlowTable. *)
Flows == INSTANCE FlowTable WITH
  Vals    <- {1},
  running <- TRUE,
  est     <- [x \in Keys |-> EstIn(counts, x)]

RefinesFlowTable == Flows!Spec

(* README.md:3 and 14: "ChainSketch utilizes the hash chain", and OVS/ is   *)
(* its implementation on OVS.  A flow displaced from its bucket should then *)
(* move along the chain, at least when the bucket behind it is unused, and *)
(* keep its estimate.                                                      *)
DisplacedFlowChained ==
  [][\A x \in Keys : Win(x) =>
       \A b \in Buckets :
         /\ counts[b].count > 0 /\ counts'[b].key # counts[b].key
         /\ Cell(b, 1) # b /\ counts[Cell(b, 1)].count = 0
         => EstIn(counts', counts[b].key) >= EstIn(counts, counts[b].key)]_vars
=============================================================================
