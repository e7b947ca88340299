--------------------------- MODULE MCMainChanger ---------------------------
(***************************************************************************)
(* Two or three flows over two or three files for TLC.                     *)
(***************************************************************************)
EXTENDS MainChanger

CONSTANTS f, g, z

MCKeys == {f, g, z}

(* All flows share their homes, or f has one of its own in row 0.          *)
MCHashFamily ==
  {[i \in 0 .. Depth - 1 |-> [x \in Keys |-> 0]],
   [i \in 0 .. Depth - 1 |-> [x \in Keys |-> IF x = f /\ i = 0 THEN Width - 1 ELSE 0]]}
=============================================================================
