--------------------------- MODULE ShmRingProofs ---------------------------
(***************************************************************************)
(* Theorems about ShmRing for every ring size N, batch size B with         *)
(* 2 * B <= N, and number of tuples, and, at the end, about UserReader, the*)
(* programs that create, connect and poll the rings.                       *)
(*                                                                         *)
(* The invariant of a ring has three parts: where the indices are          *)
(* (OrderInv), how far the published indices trail (LagInv), and what the  *)
(* slots between the reader and the writer hold (DataInv).                 *)
(***************************************************************************)
EXTENDS ShmRing, UserReader, SequenceTheorems, TLAPS

(* A value that readIndex had is behind the other five indices: the writer *)
(* may store it over a later one of the reader and is then only cautious.  *)
OldOrder(x) ==
  Dist(x, readIndex) + Dist(readIndex, nextReadIndex)
    + Dist(nextReadIndex, localWriteIndex) + Dist(localWriteIndex, writeIndex)
    + Dist(writeIndex, nextWriteIndex) = Dist(x, nextWriteIndex)

OrderInv ==
  /\ PointerOrder
  /\ wpc = "reload" => ~Full(readIndex)
  /\ wpc = "store" => ~Full(loaded) /\ OldOrder(loaded)
  /\ wpc \in {"copyLo", "copyHi"} => ~Full(localReadIndex)
  /\ wpc \in {"load", "flush"} => extra = "flush"
  /\ wpc = "flush" => Dist(localReadIndex, loaded) + Dist(loaded, nextReadIndex)
                        = Dist(localReadIndex, nextReadIndex)
  /\ rpc = "reload" => nextReadIndex # writeIndex
  /\ rpc \in {"copyLo", "copyHi"} => nextReadIndex # localWriteIndex
  /\ rpc = "complete" => readIndex = nextReadIndex /\ extra = "complete"

LagInv ==
  /\ Dist(writeIndex, nextWriteIndex) <= wBatchCount
  /\ wpc # "publish" => wBatchCount < B
  /\ extra # "flush" => Dist(readIndex, nextReadIndex) <= rBatchCount
  /\ rpc # "publish" => rBatchCount < B

(* The slots from the reader to the writer hold the next tuples in order.  *)
Content ==
  \A s \in Slots :
    Dist(nextReadIndex, s) < Dist(nextReadIndex, nextWriteIndex) =>
      data[s] = [lo |-> got + 1 + Dist(nextReadIndex, s),
                 hi |-> got + 1 + Dist(nextReadIndex, s)]

DataInv ==
  /\ written = got + Dist(nextReadIndex, nextWriteIndex)
  /\ Content
  /\ wpc = "copyHi" => data[nextWriteIndex].lo = written + 1
  /\ rpc = "copyHi" => tuple.lo = got + 1
  /\ InOrder

IInv == TypeOK /\ OrderInv /\ LagInv /\ DataInv

ExtraSteps == RComplete \/ RCompleted \/ Flush \/ FlushLoad \/ FlushStore

(* The empty ring satisfies the invariant.                                 *)
LEMMA InitIInv == Init => IInv
<1> SUFFICES ASSUME Init PROVE IInv
  OBVIOUS
<1>1. TypeOK
  BY RingAssumption DEF Init, TypeOK, Slots, Word
<1>2. OrderInv /\ LagInv
  BY RingAssumption DEF Init, OrderInv, PointerOrder, LagInv, Dist
<1>3. DataInv
  BY RingAssumption DEF Init, DataInv, InOrder, Content, Dist, Slots
<1> QED
  BY <1>1, <1>2, <1>3 DEF IInv

(* How the distance around the ring behaves. *)
LEMMA DistRange ==
  ASSUME NEW a \in Slots, NEW b \in Slots
  PROVE  /\ Dist(a, b) \in Nat /\ Dist(a, b) < N
         /\ Dist(a, b) = 0 <=> a = b
         /\ NextVal(a) \in Slots
  BY RingAssumption DEF Dist, Slots, NextVal

(* One slot further on adds one, except when it closes the circle.         *)
LEMMA DistNext ==
  ASSUME NEW a \in Slots, NEW b \in Slots
  PROVE  /\ NextVal(b) # a => Dist(a, NextVal(b)) = Dist(a, b) + 1
         /\ NextVal(b) = a <=> Dist(a, b) = N - 1
         /\ a # b => Dist(NextVal(a), b) = Dist(a, b) - 1
  BY RingAssumption DEF Dist, Slots, NextVal

(* The way through a third slot is no shorter.                             *)
LEMMA DistTriangle ==
  ASSUME NEW a \in Slots, NEW b \in Slots, NEW c \in Slots
  PROVE  Dist(a, c) <= Dist(a, b) + Dist(b, c)
  BY RingAssumption DEF Dist, Slots

(* One lemma per part of the invariant: every step keeps it.               *)
LEMMA StepType == TypeOK /\ LagInv /\ [Next]_vars => TypeOK'
<1> SUFFICES ASSUME TypeOK, LagInv, [Next]_vars PROVE TypeOK'
  OBVIOUS
<1> USE RingAssumption DEF TypeOK, global, rState, wState
<1>1. NextVal(nextReadIndex) \in Slots /\ NextVal(nextWriteIndex) \in Slots /\ 0 \in Slots
  <2>1. 0 \in Slots
    BY DEF Slots
  <2> QED
    BY <2>1, DistRange
<1>2. CASE WCall \/ WCheck \/ WLoad \/ WStore
  BY <1>1, <1>2 DEF WCall, WCheck, WLoad, WStore, reader
<1>3. CASE WCopyLo
  BY <1>3 DEF WCopyLo, reader, Word
<1>4. CASE WCopyHi
  <2>1. wBatchCount < B
    BY <1>4 DEF WCopyHi, LagInv
  <2> QED
    BY <1>1, <1>4, <2>1 DEF WCopyHi, reader, Word
<1>5. CASE WPublish
  BY <1>5 DEF WPublish, reader
<1>6. CASE RCall \/ RCheck \/ RReload
  BY <1>6 DEF RCall, RCheck, RReload, writer
<1>7. CASE RCopyLo
  BY <1>7 DEF RCopyLo, writer, Word
<1>8. CASE RCopyHi
  <2>1. rBatchCount < B
    BY <1>8 DEF RCopyHi, LagInv
  <2> QED
    BY <1>1, <1>8, <2>1 DEF RCopyHi, writer, Word
<1>9. CASE RPublish
  BY <1>9 DEF RPublish, writer
<1>10. CASE ExtraSteps
  BY <1>1, <1>10 DEF ExtraSteps, RComplete, RCompleted, Flush, FlushLoad, FlushStore, reader, writer
<1>11. CASE UNCHANGED vars
  BY <1>11 DEF vars, reader, writer
<1> QED
  BY <1>2, <1>3, <1>4, <1>5, <1>6, <1>7, <1>8, <1>9, <1>10, <1>11
     DEF Next, Write, Read, ExtraSteps

(* A side's published index trails its own by no more than the batch       *)
(* counted so far.                                                         *)
LEMMA StepLag == TypeOK /\ LagInv /\ OrderInv /\ [Next]_vars => LagInv'
<1> SUFFICES ASSUME TypeOK, LagInv, OrderInv, [Next]_vars PROVE LagInv'
  OBVIOUS
<1> DEFINE wLag == Dist(writeIndex, nextWriteIndex)
           rLag == Dist(readIndex, nextReadIndex)
<1>0. wBatchCount \in Nat /\ rBatchCount \in Nat /\ B \in Nat /\ B > 0
  BY RingAssumption DEF TypeOK
<1>1. /\ wLag \in Nat /\ Dist(writeIndex, NextVal(nextWriteIndex)) \in Nat
      /\ rLag \in Nat /\ Dist(readIndex, NextVal(nextReadIndex)) \in Nat
      /\ Dist(writeIndex, NextVal(nextWriteIndex)) <= wLag + 1
      /\ Dist(readIndex, NextVal(nextReadIndex)) <= rLag + 1
      /\ Dist(nextWriteIndex, nextWriteIndex) = 0
      /\ Dist(nextReadIndex, nextReadIndex) = 0
  BY RingAssumption DEF TypeOK, Dist, NextVal, Slots
<1>2. /\ wLag <= wBatchCount /\ (wpc # "publish" => wBatchCount < B)
      /\ (extra # "flush" => rLag <= rBatchCount) /\ (rpc # "publish" => rBatchCount < B)
  BY DEF LagInv
<1> USE <1>0, <1>1, <1>2 DEF LagInv, global, rState, wState, reader, writer
<1>3. CASE WCall \/ WCheck \/ WLoad \/ WStore \/ WCopyLo
  BY <1>3 DEF WCall, WCheck, WLoad, WStore, WCopyLo
<1>4. CASE WCopyHi
  BY <1>4 DEF WCopyHi
<1>5. CASE WPublish
  BY <1>5 DEF WPublish
<1>6. CASE RCall \/ RCheck \/ RReload \/ RCopyLo
  BY <1>6 DEF RCall, RCheck, RReload, RCopyLo
<1>7. CASE RCopyHi
  BY <1>7 DEF RCopyHi
<1>8. CASE RPublish
  BY <1>8 DEF RPublish
<1>9. CASE RComplete \/ RCompleted
  BY <1>9 DEF RComplete, RCompleted
<1>10. CASE Flush \/ FlushLoad
  BY <1>10 DEF Flush, FlushLoad
<1>11. CASE FlushStore
  BY <1>11 DEF FlushStore, OrderInv
<1>12. CASE UNCHANGED vars
  BY <1>12 DEF vars
<1> QED
  BY <1>3, <1>4, <1>5, <1>6, <1>7, <1>8, <1>9, <1>10, <1>11, <1>12 DEF Next, Write, Read

(* No index overtakes the one in front of it.                              *)
LEMMA StepOrder == TypeOK /\ OrderInv /\ [Next]_vars => OrderInv'
<1> SUFFICES ASSUME TypeOK, OrderInv, [Next]_vars PROVE OrderInv'
  OBVIOUS
<1>0. /\ readIndex \in Slots /\ writeIndex \in Slots /\ localWriteIndex \in Slots
      /\ nextReadIndex \in Slots /\ localReadIndex \in Slots /\ nextWriteIndex \in Slots
      /\ loaded \in Slots /\ N \in Nat
  BY RingAssumption DEF TypeOK
<1> USE DEF OrderInv, PointerOrder, OldOrder, Full, global, rState, wState, reader, writer
<1>1. CASE WCall \/ WCheck
  BY <1>0, <1>1 DEF WCall, WCheck
<1>2. CASE WLoad
  BY <1>0, <1>2 DEF WLoad, Dist, Slots, NextVal
<1>17. CASE WStore
  BY <1>0, <1>17 DEF WStore
<1>3. CASE WCopyLo
  BY <1>0, <1>3 DEF WCopyLo
<1>4. CASE WCopyHi
  <2>1. /\ nextWriteIndex' = NextVal(nextWriteIndex) /\ wpc' \in {"publish", "idle"}
        /\ UNCHANGED <<global, reader, localReadIndex, loaded>>
    BY <1>4 DEF WCopyHi
  <2>2. NextVal(nextWriteIndex) # localReadIndex
    BY <1>4 DEF WCopyHi
  <2>3. Dist(localReadIndex, NextVal(nextWriteIndex)) = Dist(localReadIndex, nextWriteIndex) + 1
    BY <1>0, <2>2, DistNext
  <2>4. Dist(writeIndex, NextVal(nextWriteIndex)) = Dist(writeIndex, nextWriteIndex) + 1
    <3>1. /\ Dist(localReadIndex, nextWriteIndex) < N - 1
          /\ Dist(localReadIndex, nextWriteIndex) >= Dist(writeIndex, nextWriteIndex)
      BY <1>0, <2>2, DistRange, DistNext
    <3>2. NextVal(nextWriteIndex) # writeIndex
      BY <1>0, <3>1, DistNext, DistRange
    <3> QED
      BY <1>0, <3>2, DistNext
  <2>5. PointerOrder'
    <3>1. \A a, b \in Slots : Dist(a, b) \in Nat
      BY DistRange
    <3>2. /\ localReadIndex' = localReadIndex /\ readIndex' = readIndex
          /\ nextReadIndex' = nextReadIndex /\ localWriteIndex' = localWriteIndex
          /\ writeIndex' = writeIndex
      BY <2>1
    <3> QED
      BY <1>0, <2>1, <2>3, <2>4, <3>1, <3>2
  <2> QED
    BY <2>1, <2>5
<1>5. CASE WPublish
  BY <1>0, <1>5 DEF WPublish, Dist, Slots, NextVal
<1>6. CASE RCall \/ RCheck
  BY <1>0, <1>6 DEF RCall, RCheck
<1>7. CASE RReload
  BY <1>0, <1>7 DEF RReload, Dist, Slots, NextVal
<1>8. CASE RCopyLo
  BY <1>0, <1>8 DEF RCopyLo
<1>9. CASE RCopyHi
  <2>1. /\ nextReadIndex' = NextVal(nextReadIndex) /\ nextReadIndex # localWriteIndex
        /\ rpc' \in {"publish", "idle"}
        /\ UNCHANGED <<global, writer, localReadIndex, localWriteIndex>>
    BY <1>9 DEF RCopyHi
  <2>2. Dist(NextVal(nextReadIndex), localWriteIndex) = Dist(nextReadIndex, localWriteIndex) - 1
    BY <1>0, <2>1, DistNext
  <2>3. Dist(localReadIndex, readIndex) + Dist(readIndex, nextReadIndex) < N - 1
    <3>1. Dist(nextReadIndex, localWriteIndex) > 0
      BY <1>0, <2>1, DistRange
    <3>2. /\ Dist(localReadIndex, readIndex) \in Nat /\ Dist(readIndex, nextReadIndex) \in Nat
          /\ Dist(nextReadIndex, localWriteIndex) \in Nat
          /\ Dist(localWriteIndex, writeIndex) \in Nat
          /\ Dist(writeIndex, nextWriteIndex) \in Nat
          /\ Dist(localReadIndex, nextWriteIndex) \in Nat
          /\ Dist(localReadIndex, nextWriteIndex) < N
      BY <1>0, DistRange
    <3> QED
      BY <1>0, <3>1, <3>2
  <2>4. Dist(readIndex, NextVal(nextReadIndex)) = Dist(readIndex, nextReadIndex) + 1
    <3>1. Dist(readIndex, nextReadIndex) # N - 1
      BY <1>0, <2>3, DistRange
    <3> QED
      BY <1>0, <3>1, DistNext
  <2>5. ASSUME NEW x \in Slots, OldOrder(x)
        PROVE  Dist(x, readIndex) + Dist(readIndex, NextVal(nextReadIndex))
                 + Dist(NextVal(nextReadIndex), localWriteIndex)
                 + Dist(localWriteIndex, writeIndex)
                 + Dist(writeIndex, nextWriteIndex) = Dist(x, nextWriteIndex)
    <3>1. /\ Dist(nextReadIndex, localWriteIndex) \in Int /\ Dist(readIndex, nextReadIndex) \in Int
          /\ Dist(x, readIndex) \in Int /\ Dist(localWriteIndex, writeIndex) \in Int
          /\ Dist(writeIndex, nextWriteIndex) \in Int
      BY <1>0, DistRange
    <3> HIDE DEF PointerOrder, OrderInv
    <3> QED
      BY <2>2, <2>4, <2>5, <3>1
  <2>6. wpc = "flush" => Dist(localReadIndex, loaded) + Dist(loaded, NextVal(nextReadIndex))
                           = Dist(localReadIndex, NextVal(nextReadIndex))
    <3> SUFFICES ASSUME wpc = "flush"
                 PROVE  Dist(localReadIndex, loaded) + Dist(loaded, NextVal(nextReadIndex))
                          = Dist(localReadIndex, NextVal(nextReadIndex))
      OBVIOUS
    <3>1. Dist(localReadIndex, nextReadIndex) < N - 1
      <4>1. Dist(localReadIndex, nextReadIndex)
              <= Dist(localReadIndex, readIndex) + Dist(readIndex, nextReadIndex)
        BY <1>0, DistTriangle
      <4>2. /\ Dist(localReadIndex, nextReadIndex) \in Nat
            /\ Dist(localReadIndex, readIndex) \in Nat /\ Dist(readIndex, nextReadIndex) \in Nat
        BY <1>0, DistRange
      <4> QED
        BY <1>0, <2>3, <4>1, <4>2
    <3>2. Dist(localReadIndex, loaded) + Dist(loaded, nextReadIndex) = Dist(localReadIndex, nextReadIndex)
      OBVIOUS
    <3>3. Dist(loaded, nextReadIndex) # N - 1 /\ Dist(localReadIndex, nextReadIndex) # N - 1
      <4>1. Dist(localReadIndex, loaded) \in Nat /\ Dist(loaded, nextReadIndex) \in Nat
        BY <1>0, DistRange
      <4> QED
        BY <1>0, <3>1, <3>2, <4>1
    <3>4. /\ Dist(loaded, NextVal(nextReadIndex)) = Dist(loaded, nextReadIndex) + 1
          /\ Dist(localReadIndex, NextVal(nextReadIndex)) = Dist(localReadIndex, nextReadIndex) + 1
      BY <1>0, <3>3, DistNext
    <3> QED
      <4>1. Dist(localReadIndex, loaded) \in Nat /\ Dist(loaded, nextReadIndex) \in Nat
        BY <1>0, DistRange
      <4> QED
        BY <3>2, <3>4, <4>1
  <2>7. /\ wpc' = wpc /\ nextWriteIndex' = nextWriteIndex /\ loaded' = loaded
        /\ localReadIndex' = localReadIndex /\ readIndex' = readIndex /\ extra' = extra
        /\ localWriteIndex' = localWriteIndex /\ writeIndex' = writeIndex
    BY <2>1
  <2>8. PointerOrder'
    BY <1>0, <2>1, <2>5, <2>7
  <2>9. wpc = "store" => OldOrder(loaded)'
    BY <1>0, <2>1, <2>5, <2>7
  <2> QED
    BY <2>1, <2>6, <2>7, <2>8, <2>9
<1>10. CASE RPublish
  BY <1>0, <1>10 DEF RPublish, Dist, Slots, NextVal
<1>11. CASE RComplete
  <2>1. readIndex' = nextReadIndex /\ rpc' = "complete" /\ extra' = extra /\ extra = "complete"
        /\ UNCHANGED <<writeIndex, writer, localReadIndex, rState>>
    BY <1>11 DEF RComplete
  <2>2. ASSUME NEW x \in Slots, OldOrder(x)
        PROVE  Dist(x, nextReadIndex) + Dist(nextReadIndex, nextReadIndex)
                 + Dist(nextReadIndex, localWriteIndex) + Dist(localWriteIndex, writeIndex)
                 + Dist(writeIndex, nextWriteIndex) = Dist(x, nextWriteIndex)
    BY <1>0, <2>2 DEF Dist, Slots
  <2>3. OldOrder(localReadIndex)'
    BY <1>0, <2>1, <2>2
  <2>4. wpc = "store" => OldOrder(loaded)'
    BY <1>0, <2>1, <2>2
  <2>5. ~Full(readIndex) => ~Full(readIndex)'
    <3>1. OldOrder(readIndex)
      BY <1>0 DEF Dist, Slots
    <3>2. Dist(nextReadIndex, nextWriteIndex) <= Dist(readIndex, nextWriteIndex)
      BY <1>0, <3>1 DEF Dist, Slots
    <3>3. /\ Full(readIndex) <=> Dist(readIndex, nextWriteIndex) = N - 1
          /\ Full(nextReadIndex) <=> Dist(nextReadIndex, nextWriteIndex) = N - 1
          /\ Dist(readIndex, nextWriteIndex) \in Nat /\ Dist(nextReadIndex, nextWriteIndex) \in Nat
          /\ Dist(readIndex, nextWriteIndex) < N
      BY <1>0, DistRange, DistNext
    <3> QED
      BY <1>0, <2>1, <3>2, <3>3
  <2>6. /\ wpc' = wpc /\ nextWriteIndex' = nextWriteIndex /\ loaded' = loaded
        /\ wpc \notin {"load", "flush"}
    BY <2>1
  <2> QED
    BY <2>1, <2>3, <2>4, <2>5, <2>6
<1>12. CASE RCompleted
  BY <1>0, <1>12 DEF RCompleted, Dist, Slots, NextVal
<1>13. CASE Flush
  BY <1>0, <1>13 DEF Flush, Dist, Slots, NextVal
<1>14. CASE FlushLoad
  BY <1>0, <1>14 DEF FlushLoad, Dist, Slots, NextVal
<1>15. CASE FlushStore
  BY <1>0, <1>15 DEF FlushStore, Dist, Slots, NextVal
<1>16. CASE UNCHANGED vars
  BY <1>16 DEF vars
<1> QED
  BY <1>1, <1>2, <1>3, <1>4, <1>5, <1>6, <1>7, <1>8, <1>9, <1>10, <1>11, <1>12,
     <1>13, <1>14, <1>15, <1>16, <1>17 DEF Next, Write, Read

(* The unread tuples all lie between the reader and the slot the writer is *)
(* at, and there is one to read whenever the reader copies.                *)
LEMMA UnreadBetween ==
  ASSUME TypeOK, OrderInv
  PROVE  /\ Dist(nextReadIndex, nextWriteIndex) <= Dist(localReadIndex, nextWriteIndex)
         /\ Dist(nextReadIndex, localWriteIndex) <= Dist(nextReadIndex, nextWriteIndex)
<1>1. /\ readIndex \in Slots /\ writeIndex \in Slots /\ localWriteIndex \in Slots
      /\ nextReadIndex \in Slots /\ localReadIndex \in Slots /\ nextWriteIndex \in Slots
  BY DEF TypeOK
<1> QED
  BY <1>1, RingAssumption DEF OrderInv, PointerOrder, Dist, Slots

(* The slots from the reader to the writer hold the next tuples, whole.    *)
LEMMA StepData == TypeOK /\ OrderInv /\ DataInv /\ [Next]_vars => DataInv'
<1> SUFFICES ASSUME TypeOK, OrderInv, DataInv, [Next]_vars PROVE DataInv'
  OBVIOUS
<1> DEFINE unread == Dist(nextReadIndex, nextWriteIndex)
           At(s) == got + 1 + Dist(nextReadIndex, s)
<1>0. /\ nextReadIndex \in Slots /\ nextWriteIndex \in Slots /\ localReadIndex \in Slots
      /\ localWriteIndex \in Slots /\ written \in Nat /\ got \in Nat
      /\ data \in [Slots -> Word] /\ tuple \in Word
  BY DEF TypeOK
<1>1. /\ written = got + unread
      /\ \A s \in Slots : Dist(nextReadIndex, s) < unread =>
                            data[s] = [lo |-> At(s), hi |-> At(s)]
      /\ wpc = "copyHi" => data[nextWriteIndex].lo = written + 1
      /\ rpc = "copyHi" => tuple.lo = got + 1
      /\ rpc # "copyHi" => tuple = [lo |-> got, hi |-> got]
  BY DEF DataInv, InOrder, Content
<1>2. CASE WCopyLo
  <2>1. /\ data' = [data EXCEPT ![nextWriteIndex].lo = written + 1]
        /\ UNCHANGED <<nextReadIndex, nextWriteIndex, written, got, tuple, rpc>>
    BY <1>2 DEF WCopyLo, reader, rState
  <2>2. \A s \in Slots : s # nextWriteIndex => data'[s] = data[s]
    BY <1>0, <2>1
  <2>3. data'[nextWriteIndex].lo = written + 1
    BY <1>0, <2>1 DEF Word
  <2>4. Content'
    <3> SUFFICES ASSUME NEW s \in Slots, Dist(nextReadIndex, s) < unread
                 PROVE  data'[s] = [lo |-> At(s), hi |-> At(s)]
      BY <2>1 DEF Content
    <3>1. s # nextWriteIndex
      BY <1>0, DistRange
    <3> QED
      BY <1>1, <2>2, <3>1
  <2> QED
    BY <1>1, <2>1, <2>3, <2>4 DEF DataInv, InOrder
<1>3. CASE WCopyHi
  <2>1. /\ data' = [data EXCEPT ![nextWriteIndex].hi = written + 1]
        /\ nextWriteIndex' = NextVal(nextWriteIndex) /\ written' = written + 1
        /\ wpc = "copyHi" /\ wpc' # "copyHi"
        /\ UNCHANGED <<nextReadIndex, got, tuple, rpc>>
    BY <1>3 DEF WCopyHi, reader, rState
  <2>2. Dist(nextReadIndex, NextVal(nextWriteIndex)) = unread + 1
    <3>1. NextVal(nextWriteIndex) # localReadIndex
      BY <1>3 DEF WCopyHi, OrderInv, Full
    <3>2. /\ unread <= Dist(localReadIndex, nextWriteIndex)
          /\ Dist(localReadIndex, nextWriteIndex) # N - 1
          /\ Dist(localReadIndex, nextWriteIndex) \in Nat
          /\ Dist(localReadIndex, nextWriteIndex) < N
      BY <1>0, <3>1, UnreadBetween, DistNext, DistRange
    <3>3. unread # N - 1
      BY <1>0, <3>2, RingAssumption, DistRange
    <3> QED
      BY <1>0, <3>3, DistNext
  <2>3. ASSUME NEW s \in Slots, Dist(nextReadIndex, s) < unread + 1
        PROVE  data'[s] = [lo |-> At(s), hi |-> At(s)]
    <3>1. CASE s = nextWriteIndex
      <4>1. data[s] \in Word /\ data[s].lo = written + 1
        BY <1>0, <1>1, <2>1, <3>1
      <4>2. data'[s] = [lo |-> written + 1, hi |-> written + 1]
        BY <1>0, <2>1, <3>1, <4>1 DEF Word
      <4>3. At(s) = written + 1
        BY <1>0, <1>1, <3>1, DistRange
      <4> QED
        BY <4>2, <4>3
    <3>2. CASE s # nextWriteIndex
      <4>1. Dist(nextReadIndex, s) # unread
        BY <1>0, <3>2, RingAssumption DEF Dist, Slots
      <4>2. Dist(nextReadIndex, s) < unread
        BY <1>0, <2>3, <4>1, DistRange
      <4>3. data'[s] = data[s]
        BY <1>0, <2>1, <3>2
      <4> QED
        BY <1>1, <4>2, <4>3
    <3> QED
      BY <3>1, <3>2
  <2>4. Content'
    <3> SUFFICES ASSUME NEW s \in Slots, Dist(nextReadIndex, s) < unread + 1
                 PROVE  data'[s] = [lo |-> At(s), hi |-> At(s)]
      BY <2>1, <2>2 DEF Content
    <3> QED
      BY <2>3
  <2>5. written' = got' + Dist(nextReadIndex', nextWriteIndex')
    BY <1>0, <1>1, <2>1, <2>2, DistRange
  <2> QED
    BY <1>1, <2>1, <2>4, <2>5 DEF DataInv, InOrder
<1>4. CASE RCopyLo
  <2>1. /\ tuple' = [tuple EXCEPT !.lo = data[nextReadIndex].lo] /\ rpc' = "copyHi"
        /\ UNCHANGED <<nextReadIndex, nextWriteIndex, written, got, data, wpc>>
    BY <1>4 DEF RCopyLo, writer, wState
  <2>2. data[nextReadIndex].lo = got + 1
    <3>1. nextReadIndex # localWriteIndex
      BY <1>4 DEF RCopyLo, OrderInv
    <3>2. 0 < unread /\ Dist(nextReadIndex, nextReadIndex) = 0
      BY <1>0, <3>1, UnreadBetween, RingAssumption DEF Dist, Slots
    <3> QED
      BY <1>0, <1>1, <3>2
  <2> QED
    BY <1>0, <1>1, <2>1, <2>2 DEF DataInv, InOrder, Content, Word
<1>5. CASE RCopyHi
  <2>1. /\ tuple' = [tuple EXCEPT !.hi = data[nextReadIndex].hi]
        /\ nextReadIndex' = NextVal(nextReadIndex) /\ got' = got + 1
        /\ rpc = "copyHi" /\ rpc' # "copyHi"
        /\ UNCHANGED <<nextWriteIndex, written, data, wpc>>
    BY <1>5 DEF RCopyHi, writer, wState
  <2>2. 0 < unread /\ Dist(nextReadIndex, nextReadIndex) = 0
    <3>1. nextReadIndex # localWriteIndex
      BY <2>1 DEF OrderInv
    <3> QED
      BY <1>0, <3>1, UnreadBetween, RingAssumption DEF Dist, Slots
  <2>3. data[nextReadIndex].hi = got + 1
    BY <1>0, <1>1, <2>2
  <2>4. tuple' = [lo |-> got', hi |-> got']
    BY <1>0, <1>1, <2>1, <2>3 DEF Word
  <2>5. Dist(NextVal(nextReadIndex), nextWriteIndex) = unread - 1
    <3>1. nextReadIndex # nextWriteIndex
      BY <2>2
    <3> QED
      BY <1>0, <3>1, DistNext
  <2>6. ASSUME NEW s \in Slots, Dist(NextVal(nextReadIndex), s) < unread - 1
        PROVE  /\ Dist(nextReadIndex, s) < unread
               /\ At(s) = got + 1 + 1 + Dist(NextVal(nextReadIndex), s)
    <3>1. CASE s = nextReadIndex
      <4>1. Dist(NextVal(nextReadIndex), s) = N - 1
        BY <1>0, <3>1, RingAssumption DEF Dist, Slots, NextVal
      <4> QED
        BY <1>0, <2>6, <4>1, DistRange, RingAssumption
    <3>2. CASE s # nextReadIndex
      <4>1. Dist(NextVal(nextReadIndex), s) = Dist(nextReadIndex, s) - 1
        BY <1>0, <3>2, DistNext
      <4> QED
        BY <1>0, <2>6, <4>1, DistRange
    <3> QED
      BY <3>1, <3>2
  <2>7. Content'
    <3> SUFFICES ASSUME NEW s \in Slots, Dist(NextVal(nextReadIndex), s) < unread - 1
                 PROVE  data[s] = [lo |-> got + 1 + 1 + Dist(NextVal(nextReadIndex), s),
                                   hi |-> got + 1 + 1 + Dist(NextVal(nextReadIndex), s)]
      BY <2>1, <2>5 DEF Content
    <3> QED
      BY <1>1, <2>6
  <2>8. written' = got' + Dist(nextReadIndex', nextWriteIndex')
    BY <1>0, <1>1, <2>1, <2>5, DistRange
  <2>9. wpc' = "copyHi" => data'[nextWriteIndex'].lo = written' + 1
    BY <1>1, <2>1
  <2> QED
    BY <2>1, <2>4, <2>7, <2>8, <2>9 DEF DataInv, InOrder
<1>6. CASE WCall \/ WCheck \/ WLoad \/ WStore \/ WPublish
  BY <1>1, <1>6 DEF WCall, WCheck, WLoad, WStore, WPublish, DataInv, InOrder, Content, reader, rState, wState
<1>7. CASE RCall \/ RCheck \/ RReload \/ RPublish
  BY <1>1, <1>7 DEF RCall, RCheck, RReload, RPublish, DataInv, InOrder, Content, writer, rState, wState
<1>8. CASE ExtraSteps
  BY <1>1, <1>8 DEF ExtraSteps, RComplete, RCompleted, Flush, FlushLoad, FlushStore,
     DataInv, InOrder, Content, reader, writer, rState, wState
<1>9. CASE UNCHANGED vars
  BY <1>1, <1>9 DEF vars, DataInv, InOrder, Content, reader, writer, rState, wState
<1> QED
  BY <1>2, <1>3, <1>4, <1>5, <1>6, <1>7, <1>8, <1>9 DEF Next, Write, Read, ExtraSteps

(* The invariant is inductive, and so it holds of every behaviour.         *)
LEMMA StepIInv == IInv /\ [Next]_vars => IInv'
  BY StepType, StepLag, StepOrder, StepData DEF IInv

(* The invariant holds of every behaviour.                                 *)
LEMMA Invariant == Spec => []IInv
  BY InitIInv, StepIInv, PTL DEF Spec

----------------------------------------------------------------------------
(* The fields of RBMeta, the two program counters and the slots keep their *)
(* types; in particular both batch counts stay within RB_BATCH.            *)
THEOREM RingTypeCorrect == Spec => []TypeOK
  BY Invariant, PTL DEF IInv

(* The indices stay in the order of the diagram in ringbuffer.h:23-33,     *)
(* with either read_complete or flush in use.                              *)
THEOREM OrderCorrect == Spec => []PointerOrder
<1>1. IInv => PointerOrder
  BY DEF IInv, OrderInv
<1> QED
  BY <1>1, Invariant, PTL

(* writeIndex trails nextWriteIndex by at most RB_BATCH slots, and         *)
(* readIndex trails nextReadIndex by no more unless the writer's program   *)
(* calls flush_ringbuffer (ringbuffer.h:32).                               *)
THEOREM LagsBounded == Spec => []LagBounded
<1>1. IInv => LagBounded
  <2> SUFFICES ASSUME IInv PROVE LagBounded
    OBVIOUS
  <2>1. /\ writeIndex \in Slots /\ nextWriteIndex \in Slots /\ wBatchCount \in 0 .. B
        /\ readIndex \in Slots /\ nextReadIndex \in Slots /\ rBatchCount \in 0 .. B
    BY DEF IInv, TypeOK
  <2>2. Dist(writeIndex, nextWriteIndex) <= B
    <3>1. Dist(writeIndex, nextWriteIndex) <= wBatchCount
      BY DEF IInv, LagInv
    <3>2. Dist(writeIndex, nextWriteIndex) \in Nat
      BY <2>1, DistRange
    <3> QED
      BY <2>1, <3>1, <3>2, RingAssumption
  <2>3. ASSUME extra # "flush"
        PROVE  Dist(readIndex, nextReadIndex) <= B
    <3>1. Dist(readIndex, nextReadIndex) <= rBatchCount
      BY <2>3 DEF IInv, LagInv
    <3>2. Dist(readIndex, nextReadIndex) \in Nat
      BY <2>1, DistRange
    <3> QED
      BY <2>1, <3>1, <3>2, RingAssumption
  <2> QED
    BY <2>2, <2>3 DEF LagBounded, WriterLag, ReaderLag
<1> QED
  BY <1>1, Invariant, PTL

(* read_ringbuffer returns the tuples of write_ringbuffer in order, each   *)
(* once and none torn.                                                     *)
THEOREM TuplesInOrder == Spec => []InOrder
<1>1. IInv => InOrder
  BY DEF IInv, DataInv
<1> QED
  BY <1>1, Invariant, PTL

(* The unpublished batches of the two sides never use up the ring: the     *)
(* writer does not find it full while the reader finds it empty.  This is  *)
(* where 2 * RB_BATCH <= RB_SIZE is needed.                                *)
THEOREM NoStandoffEver == Spec => []NoStandoff
<1>1. IInv => NoStandoff
  <2> SUFFICES ASSUME IInv, extra # "flush",
                      wpc \in {"idle", "check"}, rpc \in {"idle", "check"},
                      Full(readIndex), nextReadIndex = writeIndex
               PROVE  FALSE
    BY DEF NoStandoff
  <2>1. /\ readIndex \in Slots /\ writeIndex \in Slots /\ localWriteIndex \in Slots
        /\ nextReadIndex \in Slots /\ localReadIndex \in Slots /\ nextWriteIndex \in Slots
        /\ rBatchCount \in 0 .. B /\ wBatchCount \in 0 .. B /\ extra # "flush"
    BY DEF IInv, TypeOK
  <2>2. /\ Dist(readIndex, nextReadIndex) \in Nat
        /\ Dist(writeIndex, nextWriteIndex) \in Nat
    BY <2>1, DistRange
  <2>3. /\ Dist(readIndex, nextReadIndex) <= B - 1
        /\ Dist(writeIndex, nextWriteIndex) <= B - 1
    <3>1. /\ Dist(readIndex, nextReadIndex) <= rBatchCount /\ rBatchCount < B
          /\ Dist(writeIndex, nextWriteIndex) <= wBatchCount /\ wBatchCount < B
      BY <2>1 DEF IInv, LagInv
    <3> QED
      BY <2>1, <2>2, <3>1, RingAssumption
  <2>4. Dist(readIndex, nextWriteIndex) = N - 1
    BY <2>1, DistNext DEF Full
  <2>5. Dist(readIndex, nextWriteIndex)
          = Dist(readIndex, nextReadIndex) + Dist(writeIndex, nextWriteIndex)
    BY <2>1, RingAssumption DEF IInv, OrderInv, PointerOrder, Dist, Slots
  <2> QED
    BY <2>2, <2>3, <2>4, <2>5, RingAssumption
<1> QED
  BY <1>1, Invariant, PTL
----------------------------------------------------------------------------
(* The ring implements BoundedFifo.  In every state of the invariant the   *)
(* slots from the reader to the writer are the queue of the numbers from   *)
(* got + 1 to written; only the second half of a copy changes it.          *)

Unread(a, b) == [k \in 1 .. b - a |-> a + k]

Flight == [k \in 1 .. Dist(nextReadIndex, nextWriteIndex) |->
             data[(nextReadIndex + k - 1) % N].hi]

Received == IF rpc = "copyHi" THEN got ELSE tuple.lo

(* A call of write is under way only for a tuple that is still to come.    *)
OfferInv == wpc \in {"check", "reload", "store", "copyLo", "copyHi"} => written < MaxSeq

LEMMA Around ==
  ASSUME NEW a \in Slots, NEW k \in 1 .. N - 1
  PROVE  (a + k - 1) % N \in Slots /\ Dist(a, (a + k - 1) % N) = k - 1
<1>0. N \in Nat /\ N > 0 /\ a \in 0 .. N - 1 /\ k \in 1 .. N - 1
  BY RingAssumption DEF Slots
<1>1. CASE a + k - 1 < N
  <2>1. (a + k - 1) % N = a + k - 1
    BY <1>0, <1>1
  <2> QED
    BY <1>0, <1>1, <2>1 DEF Slots, Dist
<1>2. CASE a + k - 1 >= N
  <2>1. (a + k - 1) % N = a + k - 1 - N
    BY <1>0, <1>2
  <2> QED
    BY <1>0, <1>2, <2>1 DEF Slots, Dist
<1> QED
  BY <1>0, <1>1, <1>2

FlightInv ==
  /\ Flight = Unread(got, written) /\ Received = got
  /\ written \in Nat /\ got \in Nat /\ got <= written /\ written - got < N

LEMMA FlightIsUnread == IInv => FlightInv
<1> SUFFICES ASSUME IInv PROVE FlightInv
  OBVIOUS
<1>0. /\ nextReadIndex \in Slots /\ nextWriteIndex \in Slots
      /\ written \in Nat /\ got \in Nat
  BY DEF IInv, TypeOK
<1> DEFINE d == Dist(nextReadIndex, nextWriteIndex)
<1>1. d \in Nat /\ d < N /\ written = got + d
  BY <1>0, DistRange DEF IInv, DataInv
<1>2. ASSUME NEW k \in 1 .. d
      PROVE  data[(nextReadIndex + k - 1) % N].hi = got + k
  <2>1. k \in 1 .. N - 1
    BY <1>1, RingAssumption
  <2> DEFINE s == (nextReadIndex + k - 1) % N
  <2>2. s \in Slots /\ Dist(nextReadIndex, s) = k - 1
    BY <1>0, <2>1, Around
  <2> HIDE DEF s
  <2>3. data[s].hi = got + 1 + (k - 1)
    <3>1. Dist(nextReadIndex, s) < d
      BY <1>1, <2>2
    <3>2. data[s] = [lo |-> got + 1 + Dist(nextReadIndex, s),
                     hi |-> got + 1 + Dist(nextReadIndex, s)]
      BY <2>2, <3>1 DEF IInv, DataInv, Content
    <3> QED
      BY <2>2, <3>2
  <2>4. got + 1 + (k - 1) = got + k
    BY <1>0, <2>1
  <2> QED
    BY <2>3, <2>4 DEF s
<1>3. Received = got
  BY <1>0 DEF IInv, DataInv, InOrder, Received
<1>4. d = written - got
  BY <1>0, <1>1
<1>5. Flight = [k \in 1 .. d |-> got + k]
  BY <1>2 DEF Flight
<1> HIDE DEF d
<1> QED
  BY <1>0, <1>1, <1>3, <1>4, <1>5 DEF Unread, FlightInv

LEMMA OfferStep == OfferInv /\ [Next]_vars => OfferInv'
  BY DEF OfferInv, Next, Write, Read, WCall, WCheck, WLoad, WStore, WCopyLo, WCopyHi, WPublish,
     RCall, RCheck, RReload, RCopyLo, RCopyHi, RPublish, RComplete, RCompleted,
     Flush, FlushLoad, FlushStore, vars, reader, writer, rState, wState

(* One more tuple at the end, one less at the front.                       *)
LEMMA UnreadPut ==
  ASSUME NEW a \in Nat, NEW b \in Nat, a <= b
  PROVE  /\ Len(Unread(a, b)) = b - a
         /\ Unread(a, b + 1) = Append(Unread(a, b), b + 1)
<1>1. b - a \in Nat /\ b + 1 - a = b - a + 1 /\ a + (b - a + 1) = b + 1
  OBVIOUS
<1>2. Unread(a, b) \in Seq(Nat) /\ Len(Unread(a, b)) = b - a
  BY <1>1 DEF Unread
<1>3. Append(Unread(a, b), b + 1) = [k \in 1 .. b - a + 1 |-> IF k <= b - a THEN a + k ELSE b + 1]
  BY <1>1, <1>2 DEF Unread
<1> QED
  BY <1>1, <1>2, <1>3 DEF Unread

LEMMA UnreadGet ==
  ASSUME NEW a \in Nat, NEW b \in Nat, a < b
  PROVE  /\ Unread(a, b) # <<>>
         /\ Head(Unread(a, b)) = a + 1
         /\ Tail(Unread(a, b)) = Unread(a + 1, b)
<1>1. b - a \in Nat /\ b - a > 0 /\ b - (a + 1) = b - a - 1 /\ b - (a + 1) \in Nat
  OBVIOUS
<1>2. Unread(a, b) \in Seq(Nat) /\ Len(Unread(a, b)) = b - a
  BY <1>1 DEF Unread
<1>3. Unread(a, b) # <<>>
  BY <1>1, <1>2, EmptySeq
<1>4. Head(Unread(a, b)) = a + 1
  BY <1>1, <1>2, <1>3 DEF Unread
<1>5. /\ Tail(Unread(a, b)) \in Seq(Nat) /\ Len(Tail(Unread(a, b))) = b - a - 1
      /\ \A i \in 1 .. b - a - 1 : Tail(Unread(a, b))[i] = Unread(a, b)[i + 1]
  BY <1>1, <1>2, <1>3, HeadTailProperties
<1>6. /\ Unread(a + 1, b) \in Seq(Nat) /\ Len(Unread(a + 1, b)) = b - a - 1
      /\ \A i \in 1 .. b - a - 1 : Unread(a + 1, b)[i] = Unread(a, b)[i + 1]
  BY <1>1 DEF Unread
<1> QED
  BY <1>3, <1>4, <1>5, <1>6, SeqEqual

LEMMA FifoInit == Init => Fifo!Init
<1> SUFFICES ASSUME Init PROVE Fifo!Init
  OBVIOUS
<1>1. Dist(nextReadIndex, nextWriteIndex) = 0
  BY DEF Init, Dist
<1>2. Flight = <<>>
  BY <1>1 DEF Flight
<1> QED
  BY <1>2 DEF Init, Fifo!Init, Flight

(* Only the second half of a copy moves a tuple in or out.                 *)
LEMMA FifoStep ==
  FlightInv /\ FlightInv' /\ OfferInv /\ [Next]_vars => [Fifo!Next]_(Fifo!fifoVars)
<1> SUFFICES ASSUME FlightInv, FlightInv', OfferInv, [Next]_vars
             PROVE  [Fifo!Next]_(Fifo!fifoVars)
  OBVIOUS
<1>1. /\ Flight = Unread(got, written) /\ Received = got
      /\ written \in Nat /\ got \in Nat /\ got <= written /\ written - got < N
  BY DEF FlightInv
<1>2. /\ Flight' = Unread(got', written') /\ Received' = got'
      /\ got' <= written' /\ written' - got' < N
  BY DEF FlightInv
<1>3. CASE WCopyHi
  <2>1. written' = written + 1 /\ got' = got /\ written < MaxSeq
    BY <1>3 DEF WCopyHi, OfferInv, reader, rState
  <2>2. /\ Len(Flight) = written - got
        /\ Flight' = Append(Flight, written + 1)
    BY <1>1, <1>2, <2>1, UnreadPut
  <2>3. written - got < N - 1
    BY <1>1, <1>2, <2>1, RingAssumption
  <2>4. Fifo!Put
    BY <1>1, <1>2, <2>1, <2>2, <2>3 DEF Fifo!Put, Flight, Received
  <2> QED
    BY <2>4 DEF Fifo!Next
<1>4. CASE RCopyHi
  <2>1. got' = got + 1 /\ written' = written
    BY <1>4 DEF RCopyHi, writer, wState
  <2>2. Flight # <<>> /\ Head(Flight) = got + 1 /\ Flight' = Tail(Flight)
    BY <1>1, <1>2, <2>1, UnreadGet
  <2>3. Fifo!Get
    BY <1>1, <1>2, <2>1, <2>2 DEF Fifo!Get, Flight, Received
  <2> QED
    BY <2>3 DEF Fifo!Next
<1>5. CASE UNCHANGED <<written, got>>
  <2>1. Flight' = Flight /\ Received' = Received /\ written' = written
    BY <1>1, <1>2, <1>5
  <2> QED
    BY <2>1 DEF Fifo!fifoVars, Flight, Received
<1>6. WCopyHi \/ RCopyHi \/ UNCHANGED <<written, got>>
  BY DEF Next, Write, Read, WCall, WCheck, WLoad, WStore, WCopyLo, WPublish,
     RCall, RCheck, RReload, RCopyLo, RPublish, RComplete, RCompleted,
     Flush, FlushLoad, FlushStore, vars, reader, writer, rState, wState
<1> QED
  BY <1>3, <1>4, <1>5, <1>6

(* write_ringbuffer and read_ringbuffer implement a bounded first-in       *)
(* first-out queue of RB_SIZE - 1 tuples, for all sizes with               *)
(* 2 * RB_BATCH <= RB_SIZE, also when read_complete or flush is called.    *)
THEOREM ImplementsFifo == Spec => RefinesFifo
<1>1. Init => OfferInv
  BY DEF Init, OfferInv
<1> QED
  BY <1>1, OfferStep, Invariant, FlightIsUnread, FifoInit, FifoStep, PTL DEF Spec, RefinesFifo, Fifo!Spec

----------------------------------------------------------------------------
(***************************************************************************)
(* The programs around the rings: theorems about UserReader for any number *)
(* of rings, any batch and ring size and any number of creations, wherever *)
(* creators die and readers connect.                                       *)
(***************************************************************************)

(* Names and mappings refer to creations that were made, and a creation    *)
(* that was not yet made is blank memory.                                  *)
MadeInv ==
  /\ DOMAIN obj = Rings
  /\ \A r \in Rings : DOMAIN obj[r] = Ids(r)
  /\ idx \in Rings
  /\ made \in [Rings -> Nat] /\ name \in [Rings -> Nat] /\ conn \in [Rings -> Nat]
  /\ creator \in [Rings -> {"down", "unlinked", "opened", "zeroed", "up"}]
  /\ \A r \in Rings :
       /\ made[r] <= MaxCreations[r] /\ name[r] <= made[r] /\ conn[r] <= made[r]
       /\ creator[r] = "unlinked" => made[r] < MaxCreations[r]
       /\ creator[r] \in {"opened", "zeroed", "up"} => made[r] > 0

FreshInv == \A r \in Rings : \A n \in Ids(r) : n > made[r] => obj[r][n] = Blank

ReaderInv == MadeInv /\ FreshInv /\ ZeroDiscardsNothing

LEMMA InitReaderInv == ReaderInit => ReaderInv
<1> SUFFICES ASSUME ReaderInit PROVE ReaderInv
  OBVIOUS
<1>1. 0 \in Rings /\ \A r \in Rings : MaxCreations[r] \in Nat \ {0}
  BY ReaderAssumption DEF Rings
<1>2. MadeInv
  BY <1>1 DEF ReaderInit, MadeInv
<1>3. FreshInv /\ ZeroDiscardsNothing
  BY DEF ReaderInit, FreshInv, ZeroDiscardsNothing
<1> QED
  BY <1>2, <1>3 DEF ReaderInv

(* What a step does to the memory of one ring, and to no other ring.       *)
LEMMA OnlyHere ==
  ASSUME MadeInv, NEW r \in Rings, NEW m \in Ids(r), NEW v
  PROVE  LET o == [obj EXCEPT ![r][m] = v] IN
         /\ DOMAIN o = Rings /\ \A q \in Rings : DOMAIN o[q] = Ids(q)
         /\ \A q \in Rings : \A n \in Ids(q) :
              o[q][n] = IF q = r /\ n = m THEN v ELSE obj[q][n]
  BY DEF MadeInv

LEMMA UnlinkKeeps ==
  ASSUME ReaderInv, NEW r \in Rings, Unlink(r)
  PROVE  ReaderInv'
<1>1. /\ DOMAIN obj' = Rings /\ \A q \in Rings : DOMAIN obj'[q] = Ids(q)
      /\ \A q \in Rings : q # r => obj'[q] = obj[q]
      /\ \A n \in Ids(r) : obj'[r][n] \in {obj[r][n], Blank}
  BY DEF ReaderInv, MadeInv, Unlink
<1>2. MadeInv'
  BY <1>1 DEF ReaderInv, MadeInv, Unlink, readerVars, Ids
<1>3. FreshInv'
  BY <1>1 DEF ReaderInv, FreshInv, Unlink
<1>4. ZeroDiscardsNothing'
  BY <1>1 DEF ReaderInv, MadeInv, ZeroDiscardsNothing, Unlink
<1> QED
  BY <1>2, <1>3, <1>4 DEF ReaderInv

(* The new object is one that was not made before, hence blank.            *)
LEMMA OpenKeeps ==
  ASSUME ReaderInv, NEW r \in Rings, Open(r)
  PROVE  ReaderInv'
<1>1. /\ made[r] + 1 \in Ids(r) /\ made[r] + 1 > made[r]
      /\ creator' = [creator EXCEPT ![r] = "opened"]
      /\ made' = [made EXCEPT ![r] = @ + 1] /\ obj' = obj
  <2>1. made[r] \in Nat /\ MaxCreations[r] \in Nat /\ made[r] < MaxCreations[r]
    BY ReaderAssumption DEF ReaderInv, MadeInv, Open
  <2>2. made[r] + 1 \in Ids(r) /\ made[r] + 1 > made[r]
    BY <2>1 DEF Ids
  <2> QED
    BY <2>2 DEF Open
<1>2. MadeInv'
  BY <1>1 DEF ReaderInv, MadeInv, Open, readerVars, Ids
<1>3. FreshInv'
  BY DEF ReaderInv, MadeInv, FreshInv, Open, Ids
<1>4. ZeroDiscardsNothing'
  <2> SUFFICES ASSUME NEW q \in Rings, creator'[q] \in {"opened", "zeroed"}
               PROVE  obj[q][made'[q]] = Blank
    BY <1>1 DEF ZeroDiscardsNothing
  <2>1. CASE q = r
    <3>1. made'[q] = made[r] + 1
      BY <1>1, <2>1 DEF ReaderInv, MadeInv
    <3> QED
      BY <1>1, <2>1, <3>1 DEF ReaderInv, FreshInv
  <2>2. CASE q # r
    BY <1>1, <2>2 DEF ReaderInv, MadeInv, ZeroDiscardsNothing
  <2> QED
    BY <2>1, <2>2
<1> QED
  BY <1>2, <1>3, <1>4 DEF ReaderInv

(* Steps that store into the creator's own object.                         *)
LEMMA OwnObject ==
  ASSUME ReaderInv, NEW r \in Rings, creator[r] \in {"opened", "zeroed", "up"}
  PROVE  made[r] \in Ids(r)
  BY ReaderAssumption DEF ReaderInv, MadeInv, Ids

LEMMA ZeroKeeps ==
  ASSUME ReaderInv, NEW r \in Rings, Zero(r)
  PROVE  ReaderInv'
<1>1. made[r] \in Ids(r) /\ creator' = [creator EXCEPT ![r] = "zeroed"]
      /\ obj' = [obj EXCEPT ![r][made[r]] = Blank] /\ UNCHANGED <<name, made, conn, idx>>
  BY OwnObject DEF Zero, readerVars
<1>2. /\ DOMAIN obj' = Rings /\ \A q \in Rings : DOMAIN obj'[q] = Ids(q)
      /\ \A q \in Rings : \A n \in Ids(q) :
           obj'[q][n] = IF q = r /\ n = made[r] THEN Blank ELSE obj[q][n]
  BY <1>1, OnlyHere DEF ReaderInv
<1>3. MadeInv'
  BY <1>1, <1>2 DEF ReaderInv, MadeInv, Ids
<1>4. FreshInv'
  BY <1>1, <1>2 DEF ReaderInv, FreshInv
<1>5. ZeroDiscardsNothing'
  BY <1>1, <1>2, ReaderAssumption DEF ReaderInv, MadeInv, ZeroDiscardsNothing, Ids, Zero
<1> QED
  BY <1>3, <1>4, <1>5 DEF ReaderInv

LEMMA UpKeeps ==
  ASSUME ReaderInv, NEW r \in Rings, Post(r) \/ WriteTuple(r)
  PROVE  ReaderInv'
<1>1. PICK v : obj' = [obj EXCEPT ![r][made[r]] = v]
  BY DEF Post, WriteTuple, creatorVars
<1>2. /\ made[r] \in Ids(r) /\ UNCHANGED <<name, made, conn, idx>>
      /\ creator' = [creator EXCEPT ![r] = "up"]
  BY OwnObject DEF Post, WriteTuple, creatorVars, readerVars, ReaderInv, MadeInv
<1>3. /\ DOMAIN obj' = Rings /\ \A q \in Rings : DOMAIN obj'[q] = Ids(q)
      /\ \A q \in Rings : \A n \in Ids(q) :
           obj'[q][n] = IF q = r /\ n = made[r] THEN v ELSE obj[q][n]
  BY <1>1, <1>2, OnlyHere DEF ReaderInv
<1>4. MadeInv'
  BY <1>2, <1>3 DEF ReaderInv, MadeInv, Ids
<1>5. FreshInv'
  BY <1>2, <1>3 DEF ReaderInv, MadeInv, FreshInv
<1>6. ZeroDiscardsNothing'
  BY <1>2, <1>3, ReaderAssumption DEF ReaderInv, MadeInv, ZeroDiscardsNothing, Ids
<1> QED
  BY <1>4, <1>5, <1>6 DEF ReaderInv

LEMMA DownKeeps ==
  ASSUME ReaderInv, NEW r \in Rings, Crash(r) \/ Close(r) \/ CreateFails(r)
  PROVE  ReaderInv'
<1>1. /\ creator' = [creator EXCEPT ![r] = "down"] /\ UNCHANGED <<obj, made, conn, idx>>
      /\ name' = name \/ name' = [name EXCEPT ![r] = 0]
  BY DEF Crash, Close, CreateFails, readerVars
<1>2. MadeInv'
  <2>1. /\ name' \in [Rings -> Nat]
        /\ \A q \in Rings : name'[q] \in {0, name[q]}
    BY <1>1 DEF ReaderInv, MadeInv
  <2>2. \A q \in Rings : name'[q] <= made[q]
    BY <2>1 DEF ReaderInv, MadeInv
  <2>3. /\ creator' \in [Rings -> {"down", "unlinked", "opened", "zeroed", "up"}]
        /\ \A q \in Rings : creator'[q] \in {"down", creator[q]}
    BY <1>1 DEF ReaderInv, MadeInv
  <2> QED
    BY <1>1, <2>1, <2>2, <2>3 DEF ReaderInv, MadeInv
<1>3. FreshInv' /\ ZeroDiscardsNothing'
  BY <1>1 DEF ReaderInv, MadeInv, FreshInv, ZeroDiscardsNothing
<1> QED
  BY <1>2, <1>3 DEF ReaderInv

LEMMA ConnectKeeps ==
  ASSUME ReaderInv, NEW r \in Rings, Connect(r)
  PROVE  ReaderInv'
<1>1. /\ conn' = [conn EXCEPT ![r] = name[r]]
      /\ UNCHANGED <<obj, name, made, creator, idx>>
  BY DEF Connect, creatorVars
<1>2. MadeInv'
  BY <1>1 DEF ReaderInv, MadeInv
<1>3. FreshInv' /\ ZeroDiscardsNothing'
  BY <1>1 DEF ReaderInv, FreshInv, ZeroDiscardsNothing
<1> QED
  BY <1>2, <1>3 DEF ReaderInv

LEMMA ConnectExitKeeps ==
  ASSUME ReaderInv, NEW r \in Rings, ConnectExit(r)
  PROVE  ReaderInv'
<1>1. /\ name' = [name EXCEPT ![r] = 0]
      /\ UNCHANGED <<obj, made, creator, conn, idx>>
  BY DEF ConnectExit
<1>2. /\ name' \in [Rings -> Nat]
      /\ \A q \in Rings : name'[q] \in {0, name[q]}
  BY <1>1 DEF ReaderInv, MadeInv
<1>3. MadeInv'
  BY <1>1, <1>2 DEF ReaderInv, MadeInv
<1>4. FreshInv' /\ ZeroDiscardsNothing'
  BY <1>1 DEF ReaderInv, FreshInv, ZeroDiscardsNothing
<1> QED
  BY <1>3, <1>4 DEF ReaderInv

(* The reader takes only from memory that is not blank, so not from a ring *)
(* that its creator has opened and not finished.                           *)
LEMMA TakeKeeps ==
  ASSUME ReaderInv, Take
  PROVE  ReaderInv'
<1> DEFINE m == conn[idx]
<1>1. m # 0 /\ obj[idx][m].pub # <<>>
  BY DEF Take, Pub
<1>2. m \in Ids(idx) /\ obj[idx][m] # Blank
  BY <1>1, ReaderAssumption DEF ReaderInv, MadeInv, Ids, Blank
<1>3. PICK v : obj' = [obj EXCEPT ![idx][m] = v]
  BY DEF Take
<1>4. UNCHANGED <<name, made, creator, conn, idx>>
  BY DEF Take, creatorVars
<1> HIDE DEF m
<1>5. /\ DOMAIN obj' = Rings /\ \A q \in Rings : DOMAIN obj'[q] = Ids(q)
      /\ \A q \in Rings : \A n \in Ids(q) :
           obj'[q][n] = IF q = idx /\ n = m THEN v ELSE obj[q][n]
  <2>1. MadeInv /\ idx \in Rings
    BY DEF ReaderInv, MadeInv
  <2> QED
    BY <1>2, <1>3, <2>1, OnlyHere
<1>6. MadeInv'
  BY <1>4, <1>5 DEF ReaderInv, MadeInv, Ids
<1>7. FreshInv'
  BY <1>2, <1>4, <1>5 DEF ReaderInv, FreshInv
<1>8. ZeroDiscardsNothing'
  <2> SUFFICES ASSUME NEW q \in Rings, creator[q] \in {"opened", "zeroed"}
               PROVE  obj'[q][made[q]] = Blank
    BY <1>4 DEF ZeroDiscardsNothing
  <2>1. made[q] \in Ids(q) /\ obj[q][made[q]] = Blank
    BY OwnObject DEF ReaderInv, ZeroDiscardsNothing
  <2> QED
    BY <1>2, <1>5, <2>1
<1> QED
  BY <1>6, <1>7, <1>8 DEF ReaderInv

(* The other steps of the reader and the signal handler store no index but   *)
(* idx, which stays a ring.                                                *)
LEMMA IdleKeeps ==
  ASSUME ReaderInv,
         \/ Test \/ Skip \/ Count \/ Feed \/ Alarm \/ UNCHANGED pathVars
         \/ \E r \in Rings : ConnectFails(r)
  PROVE  ReaderInv'
<1>1. UNCHANGED <<obj, name, made, creator, conn>>
  BY DEF Test, Skip, Count, Feed, Alarm, ConnectFails, pathVars, creatorVars, readerVars
<1>2. idx' = idx \/ idx' = (idx + 1) % NumRings
  BY DEF Test, Skip, Count, Feed, Alarm, ConnectFails, pathVars, readerVars
<1>3. idx' \in Rings
  <2>1. idx \in Rings /\ NumRings \in Nat \ {0} /\ idx + 1 \in Int
    BY ReaderAssumption DEF ReaderInv, MadeInv, Rings
  <2>2. (idx + 1) % NumRings \in 0 .. NumRings - 1
    BY <2>1
  <2> QED
    BY <1>2, <2>1, <2>2 DEF Rings
<1>4. MadeInv'
  BY <1>1, <1>3 DEF ReaderInv, MadeInv
<1>5. FreshInv' /\ ZeroDiscardsNothing'
  BY <1>1 DEF ReaderInv, FreshInv, ZeroDiscardsNothing
<1> QED
  BY <1>4, <1>5 DEF ReaderInv

LEMMA ReaderStep == ReaderInv /\ [ReaderNext]_pathVars => ReaderInv'
<1> SUFFICES ASSUME ReaderInv, [ReaderNext]_pathVars PROVE ReaderInv'
  OBVIOUS
<1>1. ASSUME NEW r \in Rings, Datapath(r) PROVE ReaderInv'
  BY <1>1, UnlinkKeeps, OpenKeeps, ZeroKeeps, UpKeeps, DownKeeps DEF Datapath
<1>2. CASE Reader
  BY <1>2, ConnectKeeps, ConnectExitKeeps, TakeKeeps, IdleKeeps DEF Reader, Loop
<1>3. CASE Alarm \/ UNCHANGED pathVars \/ \E r \in Rings : ConnectFails(r)
  BY <1>3, IdleKeeps
<1> QED
  BY <1>1, <1>2, <1>3 DEF ReaderNext

LEMMA ReaderInvariant == ReaderSpec => []ReaderInv
  BY InitReaderInv, ReaderStep, PTL DEF ReaderSpec

(* Initialising a ring (62-78) never discards a tuple, however early the   *)
(* reader connected and however often creators died.                       *)
THEOREM InitialisationHarmless == ReaderSpec => []ZeroDiscardsNothing
<1>1. ReaderInv => ZeroDiscardsNothing
  BY DEF ReaderInv
<1> QED
  BY <1>1, ReaderInvariant, PTL

----------------------------------------------------------------------------
(* A packet is counted before it is fed, and a signal between the two      *)
(* clears both: what the sketch may be behind is made up by that packet.   *)
ReportInv ==
  /\ counter \in Int /\ fed \in Int
  /\ counter - fed \in IF pc = "feed" THEN 0 .. 1 ELSE -1 .. 0

LEMMA ReportStep == ReportInv /\ [ReaderNext]_pathVars => ReportInv'
<1> SUFFICES ASSUME ReportInv, [ReaderNext]_pathVars PROVE ReportInv'
  OBVIOUS
<1>1. ASSUME NEW r \in Rings, Datapath(r) PROVE ReportInv'
  BY <1>1 DEF ReportInv, Datapath, Unlink, Open, Zero, Post, WriteTuple,
              CreateFails, Crash, Close, creatorVars, readerVars
<1>2. ASSUME NEW r \in Rings, Connect(r) \/ ConnectFails(r) \/ ConnectExit(r) PROVE ReportInv'
  BY <1>2 DEF ReportInv, Connect, ConnectFails, ConnectExit
<1>3. CASE Loop
  BY <1>3 DEF ReportInv, Loop, Test, Skip, Take, Count, Feed
<1>4. CASE Alarm
  BY <1>4 DEF ReportInv, Alarm
<1>5. CASE UNCHANGED pathVars
  BY <1>5 DEF ReportInv, pathVars, readerVars
<1> QED
  BY <1>1, <1>2, <1>3, <1>4, <1>5 DEF ReaderNext, Reader

(* Every report is at most one packet off, and errors do not add up.       *)
THEOREM ReportsExact == ReaderSpec => []ReportOffByOne
<1>1. ReaderInit => ReportInv
  BY DEF ReaderInit, ReportInv
<1>2. ReportInv => ReportOffByOne
  BY DEF ReportInv, ReportOffByOne
<1> QED
  BY <1>1, <1>2, ReportStep, PTL DEF ReaderSpec
=============================================================================
