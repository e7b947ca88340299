----------------------------- MODULE MainHitter -----------------------------
(***************************************************************************)
(* The driver src/main_hitter.cpp: for every trace file it counts the      *)
(* flows, then feeds the same tuples to a new ChainSketch, and compares    *)
(* the flows the sketch reports with the count.                            *)
(***************************************************************************)
EXTENDS Integers, Sequences, FiniteSetsExt

CONSTANTS
  Keys, ZeroKey, Depth, Width, ChainLength, MinCap, HashFamily,   \* of ChainSketch
  MAX_CAPLEN,
  Packets,                \* the packets a file may hold
  ThreshNum, ThreshDen,   \* the fraction thresh (0.0007)
  MaxFiles,               \* trace files named in iptraces.txt
  MaxPackets              \* bound of the model: packets of one file

VARIABLES
  home, counts, loc, running, recorded,   \* of ChainSketch
  tuples, cur,                            \* of Adaptor
  pc,
  packets,        \* packets read of this file
  ground,         \* packets of each flow in this file
  numfile,
  results         \* what Query reported for this file

table  == <<home, counts, loc, running, recorded>>
trace  == <<tuples, cur>>
vars   == <<table, trace, pc, packets, ground, numfile, results>>

Chain == INSTANCE ChainSketch WITH Vals <- {1}, MaxArrivals <- 0
Trace == INSTANCE Adaptor

ASSUME HitterAssumption ==
  /\ ThreshNum \in Nat /\ ThreshDen \in Nat \ {0}
  /\ MaxFiles \in Nat /\ MaxPackets \in Nat
  /\ \A p \in Packets : p.flow \in Keys
  /\ Chain!TableAssumption

Total(n) == MapThenSumSet(LAMBDA x : n[x], Keys)

Init ==
  /\ Chain!Init /\ Trace!Init
  /\ pc = "open"
  /\ packets = 0
  /\ ground = [x \in Keys |-> 0]
  /\ numfile = 0
  /\ results = {}

Open ==                         \* 33-34, 38
  /\ pc = "open" /\ numfile < MaxFiles
  /\ Trace!New
  /\ ground' = [x \in Keys |-> 0]
  /\ packets' = 0 /\ results' = {}
  /\ pc' = "read"
  /\ UNCHANGED <<table, numfile>>

OpenFails ==                    \* adaptor.cpp:17-19: exit(-1)
  /\ pc = "open" /\ numfile < MaxFiles
  /\ pc' = "exit"
  /\ UNCHANGED <<table, trace, packets, ground, numfile, results>>

Read(p) ==
  /\ pc = "read" /\ packets < MaxPackets
  /\ Trace!Store(p)
  /\ packets' = packets + 1
  /\ UNCHANGED <<table, pc, ground, numfile, results>>

ReadDone ==                     \* 37
  /\ pc = "read"
  /\ Trace!Reset
  /\ pc' = "count"
  /\ UNCHANGED <<table, packets, ground, numfile, results>>

Count ==                        \* 41-51
  /\ pc = "count"
  /\ \E x \in Keys : Trace!GetNext(x) /\ ground' = [ground EXCEPT ![x] = @ + 1]
  /\ UNCHANGED <<table, pc, packets, numfile, results>>

(* Variant: the table of the last file is used again. *)
CountDoneKeepsTable ==
  /\ pc = "count" /\ ~Trace!HasNext
  /\ Trace!Reset
  /\ pc' = "feed"
  /\ UNCHANGED <<table, packets, ground, numfile, results>>

CountDone ==                    \* 54-55; the global loc survives
  /\ pc = "count" /\ ~Trace!HasNext
  /\ Chain!Reset
  /\ Trace!Reset
  /\ pc' = "feed"
  /\ UNCHANGED <<packets, ground, numfile, results>>

Feed ==                         \* 57-59
  /\ pc = "feed"
  /\ \E x \in Keys : Trace!GetNext(x) /\ Chain!Update(x, 1)
  /\ UNCHANGED <<pc, packets, ground, numfile, results>>

(* Variant: the share is rounded up. *)
ThresholdRoundedUp == (ThreshNum * Total(ground) + ThreshDen - 1) \div ThreshDen

(* thresh * sum, cut off to an integer (53). *)
Threshold == (ThreshNum * Total(ground)) \div ThreshDen

FeedDone ==                     \* 60-93
  /\ pc = "feed" /\ ~Trace!HasNext /\ running
  /\ results' = {<<x, Chain!EstIn(counts, x)>> : x \in Chain!Query(counts, Threshold)}
  /\ numfile' = numfile + 1
  /\ pc' = "open"
  /\ UNCHANGED <<table, trace, packets, ground>>

Next == \/ Open \/ OpenFails
        \/ (\E p \in Packets : Read(p)) \/ ReadDone
        \/ Count \/ CountDone
        \/ Feed \/ FeedDone

Spec == Init /\ [][Next]_vars

----------------------------------------------------------------------------
(* Properties *)

(* In particular GetNext never walks further than one tuple behind the     *)
(* last one stored.                                                        *)
TypeOK ==
  /\ Chain!TypeOK
  /\ tuples \in Seq(Keys) /\ cur \in 0 .. Len(tuples) + 1
  /\ pc \in {"open", "read", "count", "feed", "exit"}
  /\ packets \in 0 .. MaxPackets
  /\ ground \in [Keys -> Nat]
  /\ numfile \in 0 .. MaxFiles
  /\ results \subseteq Keys \X Nat

Evaluated == pc = "open" /\ numfile > 0

FlowsOf == {x \in Keys : ground[x] > 0}

(* line 65 *)
HeavyHitters == {x \in Keys : ground[x] > Threshold}

(* A file of at most Depth flows is reported exactly, however their homes  *)
(* collide and whatever the files before left behind: every flow with the  *)
(* threshold or more, and the true count.  So recall is 1 and the error 0  *)
(* (81-83); precision is below 1 only for flows that have the threshold    *)
(* and no packet more, which Query reports and line 65 does not count.     *)
SparseReport ==
  Evaluated /\ Cardinality(FlowsOf) <= Depth =>
    results = {<<x, ground[x]>> : x \in {y \in FlowsOf : ground[y] >= Threshold}}

(* A file of fewer than 1 / thresh flows has a heavy hitter, be it empty:  *)
(* cnt is not 0, and recall (82) is a number.                              *)
RecallDefined ==
  Evaluated /\ Cardinality(FlowsOf) * ThreshNum < ThreshDen => HeavyHitters # {}

(* With one column nothing can be moved, copied or forgotten: the table    *)
(* holds exactly the packets recorded, under whatever flows hold it now,   *)
(* and what a file reports adds up to no more than its tuples.             *)
ColumnMassExact ==
  Width = 1 =>
    /\ MapThenSumSet(LAMBDA b : counts[b].count, Chain!Buckets) = Chain!Arrived
    /\ Evaluated => MapThenSumSet(LAMBDA r : r[2], results) <= Total(ground)
=============================================================================
