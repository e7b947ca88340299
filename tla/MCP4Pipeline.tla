---------------------------- MODULE MCP4Pipeline ----------------------------
(***************************************************************************)
(* Five flows of four sources for TLC: f1 and f2 share a source.           *)
(***************************************************************************)
EXTENDS P4Pipeline

CONSTANTS f1, f2, f3, f4, f5, A, B, C, D, none

MCFlows == {f1, f2, f3, f4, f5}
MCKeys  == {A, B, C, D, none}
MCKeyOf == [x \in MCFlows |-> IF x \in {f1, f2} THEN A ELSE IF x = f3 THEN B
                         ELSE IF x = f4 THEN C ELSE D]

(* In the first two families all flows meet, at locations 0 of rows 2 and  *)
(* 3 (no number of a row), or at locations 2 and 1; in the last, f1 does   *)
(* not meet the others in rows 2 and 3.                                    *)
MCHashFamily ==
  {[r \in Rows |-> [x \in Flows |-> IF r = 1 THEN 1 ELSE 0]],
   [r \in Rows |-> [x \in Flows |-> IF r = 1 THEN 0 ELSE IF r = 2 THEN 2 ELSE 1]],
   [r \in Rows |-> [x \in Flows |-> IF r = 1 THEN 0 ELSE IF x = f1 THEN r - 2 ELSE 2]]}
=============================================================================
