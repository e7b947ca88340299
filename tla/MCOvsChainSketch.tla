-------------------------- MODULE MCOvsChainSketch --------------------------
(***************************************************************************)
(* Four flows for TLC, one of them all zero and one that begins with a     *)
(* zero byte.                                                              *)
(***************************************************************************)
EXTENDS OvsChainSketch

CONSTANTS f, g, h, z

MCKeys == {f, g, h, z}

MCNulFirst == {h, z}

(* All flows share both homes, or only the home in row 0, or some homes    *)
(* are neighbours: the bucket after the victim's is then a home as well.   *)
MCHashFamily ==
  {[i \in Rows |-> [x \in Keys |-> 0]],
   [i \in Rows |-> [x \in Keys |-> IF i = 0 \/ x = f THEN 0 ELSE 1]],
   [i \in Rows |-> [x \in Keys |-> IF x \in {f, h} THEN i ELSE i + 1]]}
=============================================================================
