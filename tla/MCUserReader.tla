---------------------------- MODULE MCUserReader ----------------------------
(***************************************************************************)
(* Two rings for TLC; the second, which may send a TERM, is created again. *)
(***************************************************************************)
EXTENDS UserReader

MCMaxCreations == [r \in Rings |-> r + 1]
=============================================================================
