----------------------------- MODULE MCMVSketch -----------------------------
(***************************************************************************)
(* Two sketches for TLC; both may be merged, in either order, into one of  *)
(* them.                                                                   *)
(***************************************************************************)
EXTENDS MVSketch

CONSTANTS f, g, z

MCKeys == {f, g, z}

MCNulFirst == {z}

MCArrays == {<<1, 2>>, <<2, 1>>}

(* All flows share their homes, or the zero flow has homes of its own.  *)
MCHashFamily ==
  {[i \in Rows |-> [x \in Keys |-> 0]],
   [i \in Rows |-> [x \in Keys |-> IF x = z THEN Width - 1 ELSE 0]]}
=============================================================================
