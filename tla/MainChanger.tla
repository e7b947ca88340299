---------------------------- MODULE MainChanger ----------------------------
(***************************************************************************)
(* The driver src/main_changer.cpp: one epoch per trace file.  A file is   *)
(* read twice, once to count every flow and once to feed the current       *)
(* sketch; after every file but the first, the flows whose estimate        *)
(* changed most are reported.  Adaptor::GetNext hands out one tuple more   *)
(* than the file holds, the all-zero one.                                  *)
(***************************************************************************)
EXTENDS HeavyChanger

CONSTANTS
  ThreshNum, ThreshDen,   \* the fraction thresh (0.0008)
  MaxFiles,               \* trace files named in iptraces.txt
  MaxPackets              \* bound of the model: packets of one file

ASSUME DriverAssumption ==
  /\ ThreshNum \in Nat /\ ThreshDen \in Nat \ {0} /\ ThreshNum <= ThreshDen
  /\ MaxFiles \in Nat /\ MaxPackets \in Nat

VARIABLES
  pc,
  truth,          \* groundtmp: packets of a flow in this file and the one before
  left,           \* packets of this file GetNext has still to hand out
  numfile,
  results         \* what Query reported for this file

driver == <<pc, truth, left, numfile, results>>
vars   == <<tables, driver>>

Total(n) == MapThenSumSet(LAMBDA x : n[x], Keys)

(* The packets a file may hold; their order is chosen as they are fed.     *)
Files == {n \in [Keys -> 0 .. MaxPackets] : Total(n) <= MaxPackets}

(* GetNext over the whole file (adaptor.cpp:113-126, cur > cnt). *)
HandedOut(file) == [file EXCEPT ![ZeroKey] = @ + 1]

Init ==
  /\ InitTables
  /\ pc = "open"
  /\ truth = [now |-> [x \in Keys |-> 0], before |-> [x \in Keys |-> 0]]
  /\ left = [x \in Keys |-> 0]
  /\ numfile = 0
  /\ results = {}

(* Variant: the counts of the flows of the last file are kept. *)
OpenKeepsCounts ==
  /\ pc = "open" /\ numfile < MaxFiles
  /\ \E file \in Files :
       /\ truth' = [now |-> [x \in Keys |-> truth.now[x] + HandedOut(file)[x]],
                    before |-> truth.now]
       /\ left' = file
  /\ Reset
  /\ pc' = "feed" /\ results' = {}
  /\ UNCHANGED numfile

Open ==                         \* 33-74: count the file, rotate the sketches
  /\ pc = "open" /\ numfile < MaxFiles
  /\ \E file \in Files :
       /\ truth' = [now |-> HandedOut(file), before |-> truth.now]
       /\ left' = file
  /\ Reset
  /\ pc' = "feed" /\ results' = {}
  /\ UNCHANGED numfile

(* Variant: GetNext does not stop at the end of the file. *)
FeedPastEnd(x) ==
  /\ pc = "feed"
  /\ Update(x)
  /\ left' = [left EXCEPT ![x] = @ - 1]
  /\ UNCHANGED <<pc, truth, numfile, results>>

Feed(x) ==                      \* 75-77: a packet of the file
  /\ pc = "feed" /\ left[x] > 0
  /\ Update(x)
  /\ left' = [left EXCEPT ![x] = @ - 1]
  /\ UNCHANGED <<pc, truth, numfile, results>>

FeedLast ==                     \* the tuple after the last packet
  /\ pc = "feed" /\ Total(left) = 0
  /\ Update(ZeroKey)
  /\ pc' = "report"
  /\ UNCHANGED <<truth, left, numfile, results>>

Diff(x) == IF truth.before[x] > truth.now[x] THEN truth.before[x] - truth.now[x]
           ELSE truth.now[x] - truth.before[x]

(* Variant: the fraction is taken of the packets, not of the differences.  *)
ThresholdOfTotals ==
  (ThreshNum * Total([x \in Keys |-> truth.now[x] + truth.before[x]])) \div ThreshDen

(* thresh * diffsum, cut off to an integer (56-62, 81). *)
Threshold == (ThreshNum * Total([x \in Keys |-> Diff(x)])) \div ThreshDen

Report ==                       \* 78-101
  /\ pc = "report" /\ running
  /\ results' = IF numfile = 0 THEN {} ELSE Query(Threshold)
  /\ numfile' = numfile + 1
  /\ pc' = "open"
  /\ UNCHANGED <<tables, truth, left>>

Next == Open \/ (\E x \in Keys : Feed(x)) \/ FeedLast \/ Report

Spec == Init /\ [][Next]_vars

----------------------------------------------------------------------------
(* Properties *)

TypeOK ==
  /\ Cur!TypeOK
  /\ old \in [Cur!Buckets -> [key : Keys, count : Nat]]
  /\ pc \in {"open", "feed", "report"}
  /\ truth \in [now : [Keys -> Nat], before : [Keys -> Nat]]
  /\ left \in [Keys -> Nat]
  /\ numfile \in 0 .. MaxFiles
  /\ results \subseteq Keys \X Nat

(* Only a flow with packets in this file or the one before is reported to  *)
(* have changed: nothing of an older file is left in either table.         *)
NoGhostChange ==
  \A r \in results : truth.now[r[1]] + truth.before[r[1]] > 0

(* The flows a file has packets of. *)
FlowsOf(n) == {x \in Keys : n[x] > 0}

(* A pair of files of at most Depth flows each is reported exactly: no     *)
(* flow is ever displaced, however the homes collide, so precision and     *)
(* recall are 1 and the relative error is 0 (95-99).                       *)
SparseExact ==
  /\ pc = "open" /\ numfile > 1
  /\ Cardinality(FlowsOf(truth.now)) <= Depth
  /\ Cardinality(FlowsOf(truth.before)) <= Depth
  => results = {<<x, Diff(x)>> : x \in {y \in Keys : Diff(y) > Threshold}}

(* When two files differ, and in fewer than 1 / thresh flows, some flow    *)
(* changed by more than the threshold: cnt is not 0, and recall (98) is a  *)
(* number.  Two equal files have no such flow, and recall is then 0 / 0.   *)
ChangeExists ==
  /\ pc = "open" /\ numfile > 1
  /\ truth.now # truth.before
  /\ Cardinality({x \in Keys : Diff(x) > 0}) * ThreshNum < ThreshDen
  => \E x \in Keys : Diff(x) > Threshold

(* The driver with its two sketches is a change monitor. *)
Monitor == INSTANCE ChangeMonitor WITH
  Vals       <- {1},
  Thresholds <- 0 .. 2 * (MaxPackets + 1),
  est        <- [x \in Keys |-> Cur!EstIn(cur, x)],
  prev       <- [x \in Keys |-> Cur!EstIn(old, x)],
  reported   <- results

RefinesMonitor == Monitor!MonitorSpec
=============================================================================
