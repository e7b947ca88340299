--------------------------- MODULE ChangeMonitor ---------------------------
(***************************************************************************)
(* What a heavy changer promises: the estimates of the epoch before stay   *)
(* as they were when it ended while the current epoch is counted, and a    *)
(* report names every flow whose two estimates differ by more than the     *)
(* threshold, with the difference.                                         *)
(***************************************************************************)
EXTENDS FlowTable

CONSTANT Thresholds     \* the thresholds a report may be asked for

VARIABLES prev,         \* prev[x]: the estimate of x when the last epoch ended
          reported      \* the report, a set of <<flow, change>>; {} if there is none

monitorVars == <<est, running, prev, reported>>

Apart(m, n) == IF m > n THEN m - n ELSE n - m

Count == /\ \E x \in Keys, v \in Vals : Record(x, v)
         /\ UNCHANGED <<prev, reported>>

NextEpoch == /\ Reset
             /\ prev' = est
             /\ reported' = {}

Report == /\ \E th \in Thresholds :
               reported' = {<<x, Apart(est[x], prev[x])>> :
                              x \in {y \in Keys : Apart(est[y], prev[y]) > th}}
          /\ UNCHANGED <<est, running, prev>>

Crash == Die /\ UNCHANGED <<prev, reported>>

MonitorSpec ==
  /\ Init /\ prev = est /\ reported = {}
  /\ [][Count \/ NextEpoch \/ Report \/ Crash]_monitorVars
=============================================================================
