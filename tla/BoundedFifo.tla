---------------------------- MODULE BoundedFifo ----------------------------
(***************************************************************************)
(* What the two ends of a packet ring may rely on: tuples come out whole,  *)
(* once each, in the order they went in, and at most Cap are in flight.    *)
(***************************************************************************)
EXTENDS Integers, Sequences

CONSTANTS Cap,           \* tuples that fit into the ring
          MaxSeq         \* tuples ever offered, numbered 1 .. MaxSeq

VARIABLES inFlight,      \* sequence of the tuples written and not yet read
          sent,          \* number of the last tuple written
          received       \* number of the last tuple read

fifoVars == <<inFlight, sent, received>>

Init == inFlight = <<>> /\ sent = 0 /\ received = 0

Put == /\ sent < MaxSeq
       /\ Len(inFlight) < Cap
       /\ sent' = sent + 1
       /\ inFlight' = Append(inFlight, sent')
       /\ UNCHANGED received

Get == /\ inFlight # <<>>
       /\ received' = Head(inFlight)
       /\ inFlight' = Tail(inFlight)
       /\ UNCHANGED sent

Next == Put \/ Get

Spec == Init /\ [][Next]_fifoVars
=============================================================================
