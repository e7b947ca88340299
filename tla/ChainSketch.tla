---------------------------- MODULE ChainSketch ----------------------------
(***************************************************************************)
(* The bucket table of src/chainsketch.cpp.  Row i of the table holds      *)
(* Width buckets; a flow has one home bucket per row.  A flow that finds   *)
(* all of its homes taken contests the lightest of them (the victim) in a  *)
(* lottery; when it wins, the victim's flow is moved along the victim's    *)
(* row, at most ChainLength buckets far, or forgotten.                     *)
(***************************************************************************)
EXTENDS Integers, FiniteSetsExt

CONSTANTS
  Keys,           \* flow keys, the all-zero key included
  ZeroKey,        \* the all-zero key, which is also the content of an unused bucket
  Vals,           \* sizes an update may carry (the drivers always pass 1)
  Depth, Width,   \* rows, and buckets per row
  ChainLength,    \* the global chainlength (2)
  MinCap,         \* initial value of min in Update (99999999): heavier buckets
                  \* are never chosen as the victim
  HashFamily,     \* the hash functions a run may be constructed with
  MaxArrivals     \* bound of the model: packets between two Resets

Rows    == 0 .. Depth - 1
Cols    == 0 .. Width - 1
Buckets == Rows \X Cols
NoLoc   == <<-1, -1>>          \* the global loc before any bucket was chosen

ASSUME TableAssumption ==
  /\ ZeroKey \in Keys /\ IsFiniteSet(Keys)
  /\ Vals \subseteq Nat \ {0}
  /\ Depth \in Nat \ {0} /\ Width \in Nat \ {0} /\ ChainLength \in Nat \ {0}
  /\ MinCap \in Nat /\ MaxArrivals \in Nat
  /\ HashFamily \subseteq [Rows -> [Keys -> Cols]]

VARIABLES
  home,           \* home[i][x]: column of flow x in row i, fixed by the seeds
  counts,         \* the table: a flow and a count per bucket
  loc,            \* the global loc (with ii and bucket1): the last victim chosen
  running,        \* FALSE after Update dereferenced counts[-1]
  recorded        \* ghost: size of the packets of each flow not turned away
                  \* since the last Reset

vars == <<home, counts, loc, running, recorded>>

Empty == [key |-> ZeroKey, count |-> 0]

Init ==
  /\ home \in HashFamily
  /\ counts = [b \in Buckets |-> Empty]
  /\ loc = NoLoc
  /\ running = TRUE
  /\ recorded = [x \in Keys |-> 0]

----------------------------------------------------------------------------
(* The scan of the rows (lines 62-81) *)

Probe(x, i) == <<i, home[i][x]>>

(* Variant: only an unused bucket ends the scan. *)
StopsUnusedOnly(x) == {i \in Rows : counts[Probe(x, i)].count = 0}

(* Rows in which the scan ends: the bucket is unused or holds x. *)
Stops(x) == {i \in Rows : \/ counts[Probe(x, i)].count = 0
                          \/ counts[Probe(x, i)].key = x}

(* Variant: one saturated bucket makes the scan forget the others. *)
LightestAllBelow(x, n) ==
  {i \in 0 .. n - 1 : \A j \in 0 .. n - 1 :
     /\ counts[Probe(x, j)].count < MinCap
     /\ \/ counts[Probe(x, i)].count < counts[Probe(x, j)].count
        \/ counts[Probe(x, i)].count = counts[Probe(x, j)].count /\ i <= j}

(* Rows below n whose probed bucket is the first lightest one below MinCap. *)
Lightest(x, n) ==
  {i \in 0 .. n - 1 :
     /\ counts[Probe(x, i)].count < MinCap
     /\ \A j \in 0 .. n - 1 :
          \/ counts[Probe(x, i)].count < counts[Probe(x, j)].count
          \/ counts[Probe(x, i)].count = counts[Probe(x, j)].count /\ i <= j}

(* Variant: loc is chosen once and kept. *)
ScannedOnce(x, n) == IF Lightest(x, n) = {} \/ loc # NoLoc THEN {loc}
                     ELSE {Probe(x, i) : i \in Lightest(x, n)}

(* The global loc after rows 0 .. n-1 were scanned: it keeps the value an  *)
(* earlier update left when every bucket probed is saturated.              *)
Scanned(x, n) == IF Lightest(x, n) = {} THEN {loc}
                 ELSE {Probe(x, i) : i \in Lightest(x, n)}

Saturated(x) == \A i \in Rows : counts[Probe(x, i)].count >= MinCap

----------------------------------------------------------------------------
(* The victim b, its chain, and the state when b is overwritten with x *)

Cell(b, j) == <<b[1], (b[2] + j) % Width>>       \* j buckets after b in its row

Alone(b) == Cell(b, 1) = b                       \* index == loc: one column

(* x sits in the chain at step r > 1 and is taken out of it (121-126). *)
Absorbs(b, x, r) == r > 1 /\ Cell(b, r) # b /\ counts[Cell(b, r)].key = x

Carried(b, x, r) == counts[b].count
                    + (IF Absorbs(b, x, r) THEN counts[Cell(b, r)].count ELSE 0)

Left(b, x, r) == IF Absorbs(b, x, r) THEN 0 ELSE counts[Cell(b, r)].count

(* Variants: the walk does not compare the counts; a free bucket can lose  *)
(* the lottery.                                                            *)
TriesAnyCount(b, x, r) == r <= ChainLength

PassesFree(b, x, r) == r <= ChainLength /\ Carried(b, x, r) > Left(b, x, r)

(* The loop condition of line 101, and a lottery that can be lost (112): a *)
(* free bucket (po = 1) is always taken.                                   *)
Tries(b, x, r)  == r <= ChainLength /\ Carried(b, x, r) > Left(b, x, r)
Passes(b, x, r) == Tries(b, x, r) /\ Left(b, x, r) > 0

(* Steps the walk can reach: all lotteries before it were lost. *)
Reached(b, x) == {r \in 1 .. ChainLength + 1 :
                    \A j \in 1 .. r - 1 : Passes(b, x, j)}

(* The table with bucket c set to s and then b given to x with count n     *)
(* (133-134).                                                              *)
Taken(b, x, n, c, s) ==
  [counts EXCEPT ![c] = s, ![b] = [key |-> x, count |-> n]]

----------------------------------------------------------------------------
(* What a won contest for b does, one definition per branch of 88-132 *)

(* Variant: the arriving flow starts from its own value.                   *)
ReplaceAloneFresh(b, x, v) ==
  /\ Alone(b)
  /\ counts' = Taken(b, x, v, b, counts[b])

ReplaceAlone(b, x, v) ==       \* 98: one column, the walk has nowhere to go
  /\ Alone(b)
  /\ counts' = Taken(b, x, counts[b].count + v, b, counts[b])

(* Variants: the next bucket's own count is overwritten, not added to, or  *)
(* the victim's count is taken off it.                                     *)
ReplaceMergeOverwrites(b, x, v) ==
  LET n == Cell(b, 1) IN
  /\ ~Alone(b)
  /\ counts[n].key = counts[b].key
  /\ counts' = Taken(b, x, counts[b].count + v, n, counts[b])

ReplaceMergeDebits(b, x, v) ==
  LET n == Cell(b, 1) IN
  /\ ~Alone(b)
  /\ counts[n].key = counts[b].key
  /\ counts' = Taken(b, x, counts[b].count + v, n,
                     [counts[n] EXCEPT !.count = @ - counts[b].count])

ReplaceMerge(b, x, v) ==       \* the next bucket holds the victim's flow too
  LET n == Cell(b, 1) IN
  /\ ~Alone(b)
  /\ counts[n].key = counts[b].key
  /\ counts' = Taken(b, x, counts[b].count + v, n,
                     [counts[n] EXCEPT !.count = @ + counts[b].count])

ReplaceSwap(b, x, v) ==        \* the next bucket holds the arriving flow
  LET n == Cell(b, 1) IN
  /\ ~Alone(b)
  /\ counts[n].key = x /\ counts[n].key # counts[b].key
  /\ counts' = Taken(b, x, counts[b].count + counts[n].count + v, n, counts[b])

Walks(b, x) ==
  /\ ~Alone(b)
  /\ counts[Cell(b, 1)].key \notin {x, counts[b].key}

ReplaceRelocate(b, x, v) ==    \* the lottery of step r is won
  /\ Walks(b, x)
  /\ \E r \in Reached(b, x) :
       /\ Tries(b, x, r)
       /\ counts' = Taken(b, x, Carried(b, x, r) + v, Cell(b, r),
                          [key |-> counts[b].key, count |-> Carried(b, x, r)])

ReplaceExhaust(b, x, v) ==     \* the loop ends: the victim's flow is forgotten
  /\ Walks(b, x)
  /\ \E r \in Reached(b, x) :
       /\ ~Tries(b, x, r)
       /\ counts' = Taken(b, x, Carried(b, x, r) + v, Cell(b, r),
                          [counts[Cell(b, r)] EXCEPT !.count = Left(b, x, r)])

Replace(b, x, v) == \/ ReplaceAlone(b, x, v)
                    \/ ReplaceMerge(b, x, v)
                    \/ ReplaceSwap(b, x, v)
                    \/ ReplaceRelocate(b, x, v)
                    \/ ReplaceExhaust(b, x, v)

----------------------------------------------------------------------------
(* Update (57-141): one disjunct per way through the function *)

Hit(x, v) ==                   \* 66-74: an unused bucket or the flow's own
  \E i \in Stops(x) :
    /\ \A j \in Stops(x) : i <= j
    /\ counts' = [counts EXCEPT ![Probe(x, i)] =
                    [key |-> x, count |-> counts[Probe(x, i)].count + v]]
    /\ loc' \in Scanned(x, i)
    /\ recorded' = [recorded EXCEPT ![x] = @ + v]
    /\ UNCHANGED <<home, running>>

Win(x, v) ==                   \* 82-134: k <= val
  /\ Stops(x) = {}
  /\ \E b \in Scanned(x, Depth) \ {NoLoc} : Replace(b, x, v) /\ loc' = b
  /\ recorded' = [recorded EXCEPT ![x] = @ + v]
  /\ UNCHANGED <<home, running>>

Lose(x, v) ==                  \* k > val: possible when val <= count
  /\ Stops(x) = {}
  /\ \E b \in Scanned(x, Depth) \ {NoLoc} : v <= counts[b].count /\ loc' = b
  /\ UNCHANGED <<home, counts, running, recorded>>

NoVictim(x, v) ==              \* 82: counts[-1] is dereferenced
  /\ Stops(x) = {}
  /\ NoLoc \in Scanned(x, Depth)
  /\ running' = FALSE
  /\ UNCHANGED <<home, counts, loc, recorded>>

Update(x, v) ==
  /\ running
  /\ \/ Hit(x, v)
     \/ Win(x, v)
     \/ Lose(x, v)
     \/ NoVictim(x, v)

(* Variant: only the keys are cleared. *)
ResetKeysOnly ==
  /\ running
  /\ counts' = [b \in Buckets |-> [counts[b] EXCEPT !.key = ZeroKey]]
  /\ recorded' = [x \in Keys |-> 0]
  /\ UNCHANGED <<home, loc, running>>

Reset ==                       \* 191-196: the global loc survives
  /\ running
  /\ counts' = [b \in Buckets |-> Empty]
  /\ recorded' = [x \in Keys |-> 0]
  /\ UNCHANGED <<home, loc, running>>

Arrived == MapThenSumSet(LAMBDA x : recorded[x], Keys)

Next == \/ \E x \in Keys, v \in Vals : Arrived + v <= MaxArrivals /\ Update(x, v)
        \/ Reset

Spec == Init /\ [][Next]_vars

(* Query and Query2 (146-186): the counts of a flow summed over the table. *)
EstIn(t, x) == MapThenSumSet(LAMBDA b : t[b].count, {b \in Buckets : t[b].key = x})

Query2(t) == [x \in {t[b].key : b \in Buckets} |-> EstIn(t, x)]

Query(t, thresh) == {x \in DOMAIN Query2(t) : Query2(t)[x] >= thresh}

----------------------------------------------------------------------------
(* Properties *)

TypeOK ==
  /\ home \in HashFamily
  /\ counts \in [Buckets -> [key : Keys, count : Nat]]
  /\ loc \in Buckets \cup {NoLoc}
  /\ running \in BOOLEAN
  /\ recorded \in [Keys -> Nat]

(* A count that is not zero belongs to a flow of which a packet was        *)
(* recorded since the last Reset: moving, merging and absorbing buckets    *)
(* never revives a flow of an earlier epoch or the key of an unused bucket.*)
NoPhantomFlow ==
  \A b \in Buckets : counts[b].count > 0 => recorded[counts[b].key] > 0

(* As long as packets of at most Depth flows were recorded, every estimate *)
(* is exact, however the homes collide: each flow finds a row of its own   *)
(* and nothing is displaced.                                               *)
FlowsOf(n) == {x \in Keys : n[x] > 0}

FewFlowsExact ==
  Cardinality(FlowsOf(recorded)) <= Depth =>
    \A x \in Keys : EstIn(counts, x) = recorded[x]

(* The update crashes only in a process that never chose a victim before,  *)
(* on a packet whose homes are all saturated.                              *)
CrashOnlySaturated ==
  ~running => loc = NoLoc /\ \E x \in Keys : Stops(x) = {} /\ Saturated(x)

(* A packet that changes the table leaves its flow in one of its own home  *)
(* buckets; only a saturated probe (a stale loc) puts it anywhere else.    *)
HomeStep ==
  \A x \in Keys, v \in Vals : Update(x, v) =>
    \/ counts' = counts
    \/ Saturated(x)
    \/ \E i \in Rows : /\ counts'[Probe(x, i)].key = x
                       /\ counts'[Probe(x, i)].count >= v

LandsHome == [][HomeStep]_vars

(* Whatever branch an update takes, a bucket's count falls only if the     *)
(* bucket held the arriving flow (whose count moved to its home).          *)
LowersOnlyOwn ==
  \A x \in Keys, v \in Vals : Update(x, v) =>
    \A b \in Buckets : counts'[b].count < counts[b].count => counts[b].key = x

NeverLowered == [][LowersOnlyOwn]_vars

(* A victim with a free bucket right behind it is never forgotten: the     *)
(* lottery against an empty bucket cannot be lost, so no flow loses.       *)
FreeNeighbourKeepsVictim ==
  [][\A x \in Keys, v \in Vals : Win(x, v) /\ ~Alone(loc')
        /\ counts[Cell(loc', 1)].count = 0 =>
       \A y \in Keys : EstIn(counts', y) >= EstIn(counts, y)]_vars

(* The table implements the estimates of FlowTable. *)
Flows == INSTANCE FlowTable WITH est <- [x \in Keys |-> EstIn(counts, x)]

RefinesFlowTable == Flows!Spec
=============================================================================
