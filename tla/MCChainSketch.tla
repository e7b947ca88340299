--------------------------- MODULE MCChainSketch ---------------------------
(***************************************************************************)
(* A small table for TLC: four flows that meet in their home buckets.      *)
(***************************************************************************)
EXTENDS ChainSketch

CONSTANTS f, g, h, z

MCKeys == {f, g, h, z}

(* In the first family every flow shares its home in row 0; in the second  *)
(* the homes overlap in part; in the third all flows share both homes.     *)
MCHashFamily ==
  LET col(n) == n % Width
  IN  {[i \in Rows |-> [x \in Keys |-> IF i = 0 \/ x \notin {f, z} THEN 0 ELSE col(1)]],
       [i \in Rows |-> [x \in Keys |-> IF x = f THEN col(i) ELSE IF x = g THEN 0 ELSE col(1)]],
       [i \in Rows |-> [x \in Keys |-> 0]]}
=============================================================================
