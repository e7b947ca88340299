----------------------------- MODULE P4Pipeline -----------------------------
(***************************************************************************)
(* The ingress of src/P4/chainsketch.p4: three rows of buckets (key and    *)
(* count in one register) with a second register per row that shadows the  *)
(* counts.  A packet that misses in all rows chooses its victim, travels   *)
(* through the recirculation port (68) and overwrites the victim in a      *)
(* second pass; other packets may come in between.  A packet crosses the   *)
(* stages in order and no two overtake each other, so a pass is one step.  *)
(***************************************************************************)
EXTENDS Integers, Sequences, FiniteSetsExt

CONSTANTS
  Flows,          \* 5-tuples, from which the three locations are computed
  Keys,           \* source addresses, the key a bucket stores
  KeyOf,          \* the source address of a flow
  NoKey,          \* content of an unused bucket: the key 0
  Size,           \* SKETCH_SIZE
  HashFamily,     \* the three hash functions
  MaxPackets      \* bound of the model: UDP packets that arrive

Rows == 1 .. 3
Locs == 0 .. Size - 1

ASSUME PipelineAssumption ==
  /\ NoKey \in Keys
  /\ KeyOf \in [Flows -> Keys]
  /\ Size \in Nat \ {0} /\ MaxPackets \in Nat
  /\ HashFamily \subseteq [Rows -> [Flows -> Locs]]

VARIABLES
  home,           \* home[r][f]: loc_r of flow f
  bucket,         \* bucket_array_r: hi (key) and lo (count)
  data,           \* bucket_array_r_data
  recirc,         \* packets on their way to the second pass
  arrived, lost   \* ghosts: packets that arrived, and that were dropped on the way

vars == <<home, bucket, data, recirc, arrived, lost>>

Init ==
  /\ home \in HashFamily
  /\ bucket = [r \in Rows |-> [l \in Locs |-> [hi |-> NoKey, lo |-> 0]]]
  /\ data = [r \in Rows |-> [l \in Locs |-> 0]]
  /\ recirc = <<>>
  /\ arrived = 0 /\ lost = 0

At(f, r) == bucket[r][home[r][f]]

(* Variant: the update does not take an unused bucket. *)
HitsKeyOnly(f) == {r \in Rows : At(f, r).hi = KeyOf[f]}

(* condition_lo or condition_hi of update_bucket_array_r: the bucket is    *)
(* unused or holds the key.                                                *)
Hits(f) == {r \in Rows : At(f, r).lo = 0 \/ At(f, r).hi = KeyOf[f]}

(* A bucket taken or counted up: the count always goes on from the old one.*)
Credit(f, r) == [bucket EXCEPT ![r][home[r][f]] = [hi |-> KeyOf[f], lo |-> @.lo + 1]]

(* Variant: the rows are not gated by the ones before. *)
CountEveryRow(f) ==
  /\ Hits(f) # {}
  /\ bucket' = [r \in Rows |-> IF r \in Hits(f) THEN Credit(f, r)[r] ELSE bucket[r]]
  /\ data' = [r \in Rows |-> IF r \in Hits(f) THEN [data[r] EXCEPT ![home[r][f]] = @ + 1]
                             ELSE data[r]]
  /\ arrived' = arrived + 1
  /\ UNCHANGED <<home, recirc, lost>>

Count(f) ==                     \* 839-869: the first row that hits counts the packet
  /\ \E r \in Hits(f) :
       /\ \A q \in Hits(f) : r <= q
       /\ bucket' = Credit(f, r)
       /\ data' = [data EXCEPT ![r][home[r][f]] = @ + 1]
  /\ arrived' = arrived + 1
  /\ UNCHANGED <<home, recirc, lost>>

(* assign1 .. assignloc3 (602-723, 848-858).  min takes the constants 2    *)
(* and 3, not the counts of rows 2 and 3, and minimal_loc receives the     *)
(* hash location of those rows, not their number.                          *)
MinimalLoc(f) ==
  LET count == [r \in Rows |-> data[r][home[r][f]]]
      two   == Min({count[1], 2})
      after == IF two = count[2] THEN home[2][f] ELSE 1
  IN  IF Min({two, 3}) = count[3] THEN home[3][f] ELSE after

Miss(f) ==                      \* 859-860
  /\ Hits(f) = {}
  /\ arrived' = arrived + 1
  /\ recirc' = Append(recirc, [flow |-> f, minimal_loc |-> MinimalLoc(f)])
  /\ UNCHANGED <<home, bucket, data, lost>>

Drop(f) ==                      \* dropped by ipv4_route, or in the port's queue
  /\ Hits(f) = {}
  /\ arrived' = arrived + 1
  /\ lost' = lost + 1
  /\ UNCHANGED <<home, bucket, data, recirc>>

FirstPass(f) == arrived < MaxPackets /\ (Count(f) \/ Miss(f) \/ Drop(f))

(* The row the second pass works on (875-884). *)
RowOf(loc) == IF loc \in {1, 2} THEN loc ELSE 3

(* Where replace_bucket_array_r_data counts: row 3 uses loc_1 (580). *)
DataLoc(f, r) == IF r = 3 THEN home[1][f] ELSE home[r][f]

(* Variants: the victim's count is not inherited; the shadow is not kept.  *)
SecondPassFresh ==
  /\ recirc # <<>>
  /\ LET f == Head(recirc).flow
         r == RowOf(Head(recirc).minimal_loc)
     IN  /\ bucket' = [bucket EXCEPT ![r][home[r][f]] = [hi |-> KeyOf[f], lo |-> 1]]
         /\ data' = [data EXCEPT ![r][DataLoc(f, r)] = @ + 1]
  /\ recirc' = Tail(recirc)
  /\ UNCHANGED <<home, arrived, lost>>

SecondPassNoData ==
  /\ recirc # <<>>
  /\ LET f == Head(recirc).flow
     IN  bucket' = Credit(f, RowOf(Head(recirc).minimal_loc))
  /\ recirc' = Tail(recirc)
  /\ UNCHANGED <<home, data, arrived, lost>>

(* 872-884.  The verdict can_replace is always in favour: no entry or      *)
(* default runs can_replace_action (804-808), so can_replace keeps its     *)
(* initial 0, and an unsigned number is never below 0 (243).               *)
SecondPass ==
  /\ recirc # <<>>
  /\ LET f == Head(recirc).flow
         r == RowOf(Head(recirc).minimal_loc)
     IN  /\ bucket' = Credit(f, r)
         /\ data' = [data EXCEPT ![r][DataLoc(f, r)] = @ + 1]
  /\ recirc' = Tail(recirc)
  /\ UNCHANGED <<home, arrived, lost>>

Next == (\E f \in Flows : FirstPass(f)) \/ SecondPass

Spec == Init /\ [][Next]_vars

----------------------------------------------------------------------------
(* Properties *)

TypeOK ==
  /\ home \in HashFamily
  /\ bucket \in [Rows -> [Locs -> [hi : Keys, lo : Nat]]]
  /\ data \in [Rows -> [Locs -> Nat]]
  /\ recirc \in Seq([flow : Flows, minimal_loc : Locs \cup {1}])
  /\ arrived \in Nat /\ lost \in Nat

(* All that the registers count, and what they count for key k.           *)
CountIn(b) == MapThenSumSet(LAMBDA p : b[p[1]][p[2]].lo, Rows \X Locs)

EstIn(b, k) == MapThenSumSet(LAMBDA p : b[p[1]][p[2]].lo,
                             {p \in Rows \X Locs : b[p[1]][p[2]].hi = k})

(* Whatever happens while a packet is between its passes, the bucket it    *)
(* will overwrite is in use: an unused bucket is never skipped.            *)
VictimOccupied ==
  \A i \in 1 .. Len(recirc) : \A r \in Rows : At(recirc[i].flow, r).lo > 0

(* Every packet is counted exactly once, in its first or its second pass,  *)
(* unless it was dropped in between.                                       *)
CountedOnce == CountIn(bucket) + Len(recirc) + lost = arrived

(* "the value is the same as the lower 32 bit of register bucket_array_r"  *)
(* (270, 399, 528), for rows 1 and 2 and for all rows.                     *)
Mirrors(r)    == \A l \in Locs : data[r][l] = bucket[r][l].lo
FirstTwoMirror == Mirrors(1) /\ Mirrors(2)
AllMirror      == \A r \in Rows : Mirrors(r)

(* The registers implement the estimates of FlowTable per source address:  *)
(* between its passes a packet has changed nothing, and a replacement      *)
(* takes from one key only what the arriving key inherits.                 *)
Estimates == INSTANCE FlowTable WITH
  Vals    <- {1},
  running <- TRUE,
  est     <- [k \in Keys |-> EstIn(bucket, k)]

RefinesFlowTable == Estimates!Spec
=============================================================================
