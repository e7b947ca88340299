---------------------------- MODULE HeavyChanger ----------------------------
(***************************************************************************)
(* HeavyChanger of src/heavy_changer.hpp: two tables of the same shape and *)
(* with the same hash seeds, one for the current epoch and one for the     *)
(* epoch before.  Both sketches work with the same globals (loc).          *)
(***************************************************************************)
EXTENDS Integers, FiniteSetsExt

CONSTANTS Keys, ZeroKey, Depth, Width, ChainLength, MinCap, HashFamily

VARIABLES
  home, loc, running,     \* as in ChainSketch, shared by the two sketches
  cur, old,               \* cur_sk and old_sk: their tables
  recorded                \* ghost of the current sketch

tables == <<home, loc, running, cur, old, recorded>>

Cur == INSTANCE ChainSketch WITH counts <- cur, Vals <- {1}, MaxArrivals <- 0

ASSUME ChangerAssumption ==
  /\ ZeroKey \in Keys /\ IsFiniteSet(Keys)
  /\ Depth \in Nat \ {0} /\ Width \in Nat \ {0} /\ ChainLength \in Nat \ {0}
  /\ MinCap \in Nat
  /\ HashFamily \subseteq [Cur!Rows -> [Keys -> Cur!Cols]]

InitTables == Cur!Init /\ old = cur

(* 47-50: the driver always passes 1. *)
Update(x) == Cur!Update(x, 1) /\ UNCHANGED old

(* Variant: the tables are swapped and the older one is not cleared.       *)
ResetSwapOnly ==
  /\ running
  /\ cur' = old /\ old' = cur
  /\ recorded' = [x \in Keys |-> 0]
  /\ UNCHANGED <<home, loc, running>>

(* 80-84: the older table is cleared and becomes the current one. *)
Reset == Cur!Reset /\ old' = cur

(* Variant: a flow that is not in the current table counts as unchanged.   *)
ChangeOfCurrent(x) ==
  LET now == Cur!EstIn(cur, x)
      was == Cur!EstIn(old, x)
  IN  IF x \notin DOMAIN Cur!Query2(cur) THEN 0
      ELSE IF was > now THEN was - now ELSE now - was

(* Query (52-76): |cur - old| for the flows of the current table; a flow   *)
(* that is only in the old one keeps its count as the change.              *)
Change(x) ==
  LET now == Cur!Query2(cur)
      was == Cur!EstIn(old, x)
  IN  IF x \notin DOMAIN now THEN was
      ELSE IF was > now[x] THEN was - now[x] ELSE now[x] - was

Query(thresh) ==
  {<<x, Change(x)>> : x \in {y \in DOMAIN Cur!Query2(cur) \cup DOMAIN Cur!Query2(old) :
                               Change(y) > thresh}}
=============================================================================
