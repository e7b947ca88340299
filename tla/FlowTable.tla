----------------------------- MODULE FlowTable -----------------------------
(***************************************************************************)
(* What a user of ChainSketch may rely on, whatever the table looks like:  *)
(* an estimate per flow.  A packet either changes no estimate at all or    *)
(* is added to the estimate of its flow; the flow it displaces may lose,   *)
(* but it is one flow only, and it loses no more than the arriving flow    *)
(* gained beyond the packet itself.                                        *)
(***************************************************************************)
EXTENDS Integers

CONSTANTS Keys,         \* flow keys
          Vals          \* sizes an update may carry

VARIABLES est,          \* est[x]: what Query reports for flow x
          running       \* FALSE once the process has died

flowVars == <<est, running>>

Init == /\ est = [x \in Keys |-> 0]
        /\ running = TRUE

(* x inherits the count of the bucket it takes: c beyond its own v.  One   *)
(* other flow may lose, at most c; no other gains more than x had before.  *)
Record(x, v) ==
  /\ running
  /\ LET c == est'[x] - est[x] - v
     IN  /\ c >= 0
         /\ \A y \in Keys \ {x} : est'[y] \in est[y] - c .. est[y] + est[x]
         /\ \A y, w \in Keys \ {x} : est'[y] < est[y] /\ est'[w] < est[w] => y = w
  /\ UNCHANGED running

Reset == /\ running
         /\ est' = [x \in Keys |-> 0]
         /\ UNCHANGED running

Die == /\ running
       /\ running' = FALSE
       /\ UNCHANGED est

Next == \/ \E x \in Keys, v \in Vals : Record(x, v)
        \/ Reset
        \/ Die

Spec == Init /\ [][Next]_flowVars
=============================================================================
