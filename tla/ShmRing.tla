------------------------------ MODULE ShmRing ------------------------------
(***************************************************************************)
(* The packet ring of src/OVS/ringbuffer_user.cpp, shared by one writer    *)
(* (an OVS thread) and one reader (user_reader).  Every load and every     *)
(* store of a word that the other side also accesses is a step of its own; *)
(* what a side does in between is part of the step before.  The one        *)
(* exception is the reader's store of nextReadIndex, which goes with the   *)
(* copy before it: the writer's side reads that word only in               *)
(* flush_ringbuffer.  Tuples are numbered in the order they are written,   *)
(* and a slot is two words that memcpy moves one after the other.  Memory  *)
(* is sequentially consistent.                                             *)
(***************************************************************************)
EXTENDS Integers

CONSTANTS N,        \* RB_SIZE
          B,        \* RB_BATCH
          Extras,   \* which function beside read and write the two programs call
          MaxSeq    \* bound of the model: tuples written

ASSUME RingAssumption ==
  /\ N \in Nat /\ B \in Nat \ {0} /\ 2 * B <= N
  /\ Extras \subseteq {"none", "complete", "flush"}
  /\ MaxSeq \in Nat

VARIABLES
  readIndex, writeIndex,                           \* RBMeta: global
  localWriteIndex, nextReadIndex, rBatchCount,     \* RBMeta: the reader's
  localReadIndex, nextWriteIndex, wBatchCount,     \* RBMeta: the writer's
  data,             \* the slots
  tuple,            \* the reader's buffer
  wpc, rpc,         \* where the writer and the reader are
  loaded,           \* what the writer's side loaded (239: readIndex, 215:
                    \* nextReadIndex) and is about to store; else 0
  extra,            \* what these two programs call, fixed
  written, got      \* ghosts: tuples written and read so far

global == <<readIndex, writeIndex, extra>>
rState == <<localWriteIndex, nextReadIndex, rBatchCount, tuple, got>>
wState == <<nextWriteIndex, wBatchCount, data, loaded, written>>
reader == <<rState, rpc>>
writer == <<wState, wpc>>
vars   == <<global, reader, writer, localReadIndex>>

Slots == 0 .. N - 1

(* ringbuffer.h:84 *)
NextVal(x) == IF x + 1 >= N THEN 0 ELSE x + 1

(* Slots from a up to b, walking forward. *)
Dist(a, b) == IF b >= a THEN b - a ELSE b - a + N

Init ==
  /\ readIndex = 0 /\ writeIndex = 0
  /\ localWriteIndex = 0 /\ nextReadIndex = 0 /\ rBatchCount = 0
  /\ localReadIndex = 0 /\ nextWriteIndex = 0 /\ wBatchCount = 0
  /\ data = [s \in Slots |-> [lo |-> 0, hi |-> 0]]
  /\ tuple = [lo |-> 0, hi |-> 0]
  /\ wpc = "idle" /\ rpc = "idle"
  /\ loaded = 0 /\ extra \in Extras
  /\ written = 0 /\ got = 0

----------------------------------------------------------------------------
(* write_ringbuffer (233-249; write_ringbuffer_block is the same code) *)

Full(x) == NextVal(nextWriteIndex) = x

WCall ==
  /\ wpc = "idle" /\ written < MaxSeq
  /\ wpc' = IF Full(localReadIndex) THEN "check" ELSE "copyLo"
  /\ UNCHANGED <<global, reader, localReadIndex, wState>>

(* Variant: the writer takes its stale copy for the only reason to be full.*)
WCheckNothing ==
  /\ wpc = "check"
  /\ wpc' = "reload"
  /\ UNCHANGED <<global, reader, localReadIndex, wState>>

WCheck ==                      \* 236-238: return -1 when it is still full
  /\ wpc = "check"
  /\ wpc' = IF Full(readIndex) THEN "idle" ELSE "reload"
  /\ UNCHANGED <<global, reader, localReadIndex, wState>>

(* Variant: the writer takes over how far the reader has read, not how far *)
(* it has published.                                                       *)
WLoadUnpublished ==
  /\ wpc = "reload"
  /\ loaded' = nextReadIndex
  /\ wpc' = "store"
  /\ UNCHANGED <<global, reader, localReadIndex, nextWriteIndex, wBatchCount,
                 data, written>>

WLoad ==                       \* 239 loads readIndex for the second time,
  /\ wpc = "reload"
  /\ loaded' = readIndex
  /\ wpc' = "store"
  /\ UNCHANGED <<global, reader, localReadIndex, nextWriteIndex, wBatchCount,
                 data, written>>

WStore ==                      \* and stores what it loaded, by now an old value
  /\ wpc = "store"
  /\ localReadIndex' = loaded
  /\ loaded' = 0
  /\ wpc' = "copyLo"
  /\ UNCHANGED <<global, reader, nextWriteIndex, wBatchCount, data, written>>

WCopyLo ==
  /\ wpc = "copyLo"
  /\ data' = [data EXCEPT ![nextWriteIndex].lo = written + 1]
  /\ wpc' = "copyHi"
  /\ UNCHANGED <<global, reader, localReadIndex, nextWriteIndex, wBatchCount,
                 loaded, written>>

(* Variant: a batch is published one tuple late. *)
WCopyHiLate ==
  /\ wpc = "copyHi"
  /\ data' = [data EXCEPT ![nextWriteIndex].hi = written + 1]
  /\ nextWriteIndex' = NextVal(nextWriteIndex)
  /\ wBatchCount' = wBatchCount + 1
  /\ written' = written + 1
  /\ wpc' = IF wBatchCount' > B THEN "publish" ELSE "idle"
  /\ UNCHANGED <<global, reader, localReadIndex, loaded>>

WCopyHi ==
  /\ wpc = "copyHi"
  /\ data' = [data EXCEPT ![nextWriteIndex].hi = written + 1]
  /\ nextWriteIndex' = NextVal(nextWriteIndex)
  /\ wBatchCount' = wBatchCount + 1
  /\ written' = written + 1
  /\ wpc' = IF wBatchCount' >= B THEN "publish" ELSE "idle"
  /\ UNCHANGED <<global, reader, localReadIndex, loaded>>

(* Variant: the batch count is not reset. *)
WPublishKeepsCount ==
  /\ wpc = "publish"
  /\ writeIndex' = nextWriteIndex
  /\ wpc' = "idle"
  /\ UNCHANGED <<extra, readIndex, reader, localReadIndex, wState>>

WPublish ==
  /\ wpc = "publish"
  /\ writeIndex' = nextWriteIndex
  /\ wBatchCount' = 0
  /\ wpc' = "idle"
  /\ UNCHANGED <<extra, readIndex, reader, localReadIndex, nextWriteIndex, data,
                 loaded, written>>

Write == WCall \/ WCheck \/ WLoad \/ WStore \/ WCopyLo \/ WCopyHi \/ WPublish

----------------------------------------------------------------------------
(* read_ringbuffer (271-287) *)

RCall ==
  /\ rpc = "idle"
  /\ rpc' = IF nextReadIndex = localWriteIndex THEN "check" ELSE "copyLo"
  /\ UNCHANGED <<global, writer, localReadIndex, rState>>

(* Variants: the reader looks only at its own copy of the writer's index;  *)
(* the reader does not look at all.                                        *)
RCheckLocal ==
  /\ rpc = "check"
  /\ rpc' = IF nextReadIndex = localWriteIndex THEN "idle" ELSE "reload"
  /\ UNCHANGED <<global, writer, localReadIndex, rState>>

RCheckNothing ==
  /\ rpc = "check"
  /\ rpc' = "reload"
  /\ UNCHANGED <<global, writer, localReadIndex, rState>>

RCheck ==                      \* 273-275: return -1 when it is still empty
  /\ rpc = "check"
  /\ rpc' = IF nextReadIndex = writeIndex THEN "idle" ELSE "reload"
  /\ UNCHANGED <<global, writer, localReadIndex, rState>>

RReload ==
  /\ rpc = "reload"
  /\ localWriteIndex' = writeIndex
  /\ rpc' = "copyLo"
  /\ UNCHANGED <<global, writer, localReadIndex, nextReadIndex, rBatchCount, tuple, got>>

RCopyLo ==
  /\ rpc = "copyLo"
  /\ tuple' = [tuple EXCEPT !.lo = data[nextReadIndex].lo]
  /\ rpc' = "copyHi"
  /\ UNCHANGED <<global, writer, localReadIndex, localWriteIndex, nextReadIndex,
                 rBatchCount, got>>

RCopyHi ==
  /\ rpc = "copyHi"
  /\ tuple' = [tuple EXCEPT !.hi = data[nextReadIndex].hi]
  /\ nextReadIndex' = NextVal(nextReadIndex)
  /\ rBatchCount' = rBatchCount + 1
  /\ got' = got + 1
  /\ rpc' = IF rBatchCount' >= B THEN "publish" ELSE "idle"
  /\ UNCHANGED <<global, writer, localReadIndex, localWriteIndex>>

(* Variant: only the batch count is reset. *)
RPublishNothing ==
  /\ rpc = "publish"
  /\ rBatchCount' = 0
  /\ rpc' = "idle"
  /\ UNCHANGED <<global, writer, localReadIndex, localWriteIndex, nextReadIndex, tuple, got>>

RPublish ==
  /\ rpc = "publish"
  /\ readIndex' = nextReadIndex
  /\ rBatchCount' = 0
  /\ rpc' = "idle"
  /\ UNCHANGED <<extra, writeIndex, writer, localReadIndex, localWriteIndex,
                 nextReadIndex, tuple, got>>

Read == RCall \/ RCheck \/ RReload \/ RCopyLo \/ RCopyHi \/ RPublish

----------------------------------------------------------------------------
(* The rest of the interface: read_complete_ringbuffer, called by the      *)
(* reader, stores into the writer's localReadIndex (218-221);              *)
(* flush_ringbuffer, called by the writer, stores into the reader's        *)
(* readIndex what it loaded from nextReadIndex before (213-216).           *)

RComplete ==
  /\ extra = "complete" /\ rpc = "idle"
  /\ readIndex' = nextReadIndex
  /\ rpc' = "complete"
  /\ UNCHANGED <<extra, writeIndex, writer, localReadIndex, rState>>

RCompleted ==
  /\ rpc = "complete"
  /\ localReadIndex' = nextReadIndex
  /\ rpc' = "idle"
  /\ UNCHANGED <<global, writer, rState>>

Flush ==
  /\ extra = "flush" /\ wpc = "idle"
  /\ writeIndex' = nextWriteIndex
  /\ wpc' = "load"
  /\ UNCHANGED <<extra, readIndex, reader, localReadIndex, wState>>

FlushLoad ==
  /\ wpc = "load"
  /\ loaded' = nextReadIndex
  /\ wpc' = "flush"
  /\ UNCHANGED <<global, reader, localReadIndex, nextWriteIndex, wBatchCount,
                 data, written>>

FlushStore ==
  /\ wpc = "flush"
  /\ readIndex' = loaded
  /\ loaded' = 0
  /\ wpc' = "idle"
  /\ UNCHANGED <<extra, writeIndex, reader, localReadIndex, nextWriteIndex,
                 wBatchCount, data, written>>

----------------------------------------------------------------------------
Next == Write \/ Read \/ RComplete \/ RCompleted \/ Flush \/ FlushLoad \/ FlushStore

Spec == Init /\ [][Next]_vars

(* user_reader polls for ever (user_reader.cpp:106) and calls no other     *)
(* function of the ring; nothing is assumed of the writer.                 *)
FairSpec == Spec /\ WF_vars(Read)

----------------------------------------------------------------------------
(* Properties *)

Word == [lo : Nat, hi : Nat]

TypeOK ==
  /\ readIndex \in Slots /\ writeIndex \in Slots
  /\ localWriteIndex \in Slots /\ nextReadIndex \in Slots /\ rBatchCount \in 0 .. B
  /\ localReadIndex \in Slots /\ nextWriteIndex \in Slots /\ wBatchCount \in 0 .. B
  /\ data \in [Slots -> Word] /\ tuple \in Word
  /\ wpc \in {"idle", "check", "reload", "store", "copyLo", "copyHi", "publish",
              "load", "flush"}
  /\ rpc \in {"idle", "check", "reload", "copyLo", "copyHi", "publish", "complete"}
  /\ loaded \in Slots /\ extra \in Extras
  /\ written \in Nat /\ got \in Nat

(* The order of the six indices that the diagram of ringbuffer.h:23-33     *)
(* shows, read around the ring from the writer's idea of the reader        *)
(* (local Read) to the next slot the writer fills.                         *)
PointerOrder ==
  Dist(localReadIndex, readIndex) + Dist(readIndex, nextReadIndex)
    + Dist(nextReadIndex, localWriteIndex) + Dist(localWriteIndex, writeIndex)
    + Dist(writeIndex, nextWriteIndex) = Dist(localReadIndex, nextWriteIndex)

(* How far each side's published index trails its own.                     *)
WriterLag == Dist(writeIndex, nextWriteIndex) <= B
ReaderLag == Dist(readIndex, nextReadIndex) <= B

(* "at most wBatch" and "at most rBatch" (ringbuffer.h:32), the latter     *)
(* while the writer's program does not call flush_ringbuffer.              *)
LagBounded == WriterLag /\ (extra # "flush" => ReaderLag)

(* The n-th tuple read is the n-th tuple written, and it is whole.         *)
InOrder == rpc # "copyHi" => tuple = [lo |-> got, hi |-> got]

(* Without flush_ringbuffer, the writer never finds the ring full while    *)
(* the reader finds it empty: the tuples and the free slots the two sides  *)
(* have not published yet never use up the ring.                           *)
NoStandoff ==
  ~ /\ extra # "flush"
    /\ wpc \in {"idle", "check"} /\ rpc \in {"idle", "check"}
    /\ Full(readIndex)
    /\ nextReadIndex = writeIndex

(* The ring implements a bounded first-in first-out queue.                 *)
Fifo == INSTANCE BoundedFifo WITH
          Cap      <- N - 1,
          inFlight <- [k \in 1 .. Dist(nextReadIndex, nextWriteIndex) |->
                         data[(nextReadIndex + k - 1) % N].hi],
          sent     <- written,
          received <- IF rpc = "copyHi" THEN got ELSE tuple.lo

RefinesFifo == Fifo!Spec

(* Every tuple that was published is read in the end.                      *)
PublishedIsRead ==
  \A n \in 1 .. MaxSeq :
    extra = "none" /\ got + Dist(nextReadIndex, writeIndex) >= n ~> got >= n

(* A ring the writer finds full does not stay full, whatever the writer    *)
(* does.                                                                   *)
FullDrains == extra = "none" /\ Full(readIndex) ~> ~Full(readIndex)
=============================================================================
