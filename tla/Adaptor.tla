------------------------------ MODULE Adaptor ------------------------------
(***************************************************************************)
(* The trace reader src/adaptor.cpp: the constructor stores a tuple for    *)
(* every packet of the file it accepts, GetNext hands the tuples out one   *)
(* by one, as often as Reset starts it over.  Of a tuple only the flow     *)
(* matters here; headers are what the code reads at their place, be it     *)
(* captured or left there by the packet before.                            *)
(***************************************************************************)
EXTENDS Integers, Sequences

CONSTANTS
  ZeroKey,        \* the flow of a tuple that was never stored (calloc, line 10)
  MAX_CAPLEN      \* 1500

VARIABLES
  tuples,         \* databuffer, as far as cnt says
  cur             \* data->cur (ptr moves along with it)

Init == tuples = <<>> /\ cur = 0

(* The file is opened: a new buffer. *)
New == tuples' = <<>> /\ cur' = 0

(* The tests of 45-71, with ETH_LEN and IP_CHECK 0.  The TCP header is as  *)
(* long as it says itself, any other protocol has none.                    *)
Accepted(p) ==
  LET len    == IF p.caplen < MAX_CAPLEN THEN p.caplen ELSE MAX_CAPLEN
      header == CASE p.ip_p = "tcp"            -> 4 * p.doff
                  [] p.ip_p \in {"udp", "icmp"} -> 8
                  [] OTHER                      -> 0
  IN  p.ip_v = 4 /\ len >= 4 * p.ip_hl + header

(* One turn of the loop 25-102. *)
Store(p) ==
  /\ tuples' = IF Accepted(p) THEN Append(tuples, p.flow) ELSE tuples
  /\ UNCHANGED cur

(* Variant: one more tuple.                                                *)
HasNextReadsOn == cur <= Len(tuples) + 1

(* cur > cnt (114) ends it: the tuple behind the last one is handed out.   *)
HasNext == cur <= Len(tuples)

GetNext(x) ==
  /\ HasNext
  /\ x = IF cur < Len(tuples) THEN tuples[cur + 1] ELSE ZeroKey
  /\ cur' = cur + 1
  /\ UNCHANGED tuples

Reset == cur' = 0 /\ UNCHANGED tuples
=============================================================================
