--------------------------- MODULE BuffUartProofs ---------------------------
(***************************************************************************)
(* BuffUart for every ring size.  Transmit: the bytes leave in order, none *)
(* is stranded, and the ring implements a bounded FIFO.  Receive: bytes    *)
(* are read in order, and lost only when the ring is overrun.              *)
(***************************************************************************)
EXTENDS BuffUart, TLAPS

\* The mask advances an index by one and wraps it at the end of the ring.
LEMMA TxNextWraps ==
    ASSUME NEW i \in 0..TxSize-1
    PROVE  TxNext(i) = IF i + 1 = TxSize THEN 0 ELSE i + 1
BY TxSizeAssumption DEF TxNext

\* It stays inside the ring.
LEMMA TxNextInRing ==
    ASSUME NEW i \in 0..TxSize-1
    PROVE  TxNext(i) \in 0..TxSize-1
<1>1. TxNext(i) = IF i + 1 = TxSize THEN 0 ELSE i + 1
  BY TxNextWraps
<1>2. TxSize \in Nat /\ TxSize >= 2 /\ i \in Nat /\ i <= TxSize - 1
  BY TxSizeAssumption
<1> QED BY <1>1, <1>2

\* The receive ring's index stays inside the buffer.
LEMMA RxNextWraps ==
    ASSUME NEW i \in 0..RxSize-1
    PROVE  RxNext(i) \in 0..RxSize-1
BY RxSizeAssumption DEF RxNext

\* Ring indices, registers and histories start with their types.
LEMMA TypeInit == Init => TypeOK
BY TxSizeAssumption, RxSizeAssumption DEF Init, TypeOK, Bits, Locations

\* Every step of the driver, its interrupt handlers and the UART hardware
\* keeps them.
LEMMA TypeStep == TypeOK /\ [Next]_vars => TypeOK'
<1> SUFFICES ASSUME TypeOK, [Next]_vars PROVE TypeOK'
  OBVIOUS
<1> USE DEF TypeOK, Bits, Locations, txVars, rxVars, hwVars
<1>1. CASE TransmitCall
  <2>1. tmphead' \in 0..TxSize-1
    BY <1>1, TxNextInRing DEF TransmitCall
  <2> QED
    BY <1>1, <2>1 DEF TransmitCall
<1>2. CASE TransmitWait
  BY <1>2 DEF TransmitWait
<1>3. CASE TransmitStoreData
  BY <1>3 DEF TransmitStoreData
<1>4. CASE TransmitStoreHead
  BY <1>4 DEF TransmitStoreHead
<1>5. CASE TransmitLoadCtrl
  BY <1>5 DEF TransmitLoadCtrl
<1>6. CASE TransmitStoreCtrl
  BY <1>6 DEF TransmitStoreCtrl
<1>7. CASE ReceiveWait
  BY <1>7 DEF ReceiveWait
<1>8. CASE ReceiveStoreTail
  BY <1>8, RxNextWraps DEF ReceiveStoreTail
<1>9. CASE ReceiveReadData
  <2>1. RxBuf[RxTail] \in Nat
    OBVIOUS
  <2>2. received' \in Seq(Nat)
    BY <1>9, <2>1 DEF ReceiveReadData
  <2> QED BY <1>9, <2>2 DEF ReceiveReadData
<1>10. CASE UdreInterrupt
  <2>1. TxNext(TxTail) \in 0..TxSize-1
    BY TxNextInRing
  <2>2. TxBuf[TxNext(TxTail)] \in Nat
    BY <2>1
  <2>3. wire' \in Seq(Nat) /\ TxTail' \in 0..TxSize-1
    <3>1. CASE TxHead # TxTail
      <4>1. /\ wire' = Append(wire, TxBuf[TxNext(TxTail)])
            /\ TxTail' = TxNext(TxTail)
        BY <1>10, <3>1 DEF UdreInterrupt
      <4>2. wire \in Seq(Nat)
        OBVIOUS
      <4> HIDE DEF TypeOK
      <4> QED BY <2>1, <2>2, <4>1, <4>2
    <3>2. CASE TxHead = TxTail
      BY <1>10, <3>2 DEF UdreInterrupt
    <3> QED BY <3>1, <3>2
  <2>4. UCSR1B' \subseteq Bits /\ udrEmpty' \in BOOLEAN
    BY <1>10 DEF UdreInterrupt
  <2> QED BY <1>10, <2>3, <2>4 DEF UdreInterrupt
<1>11. CASE RxInterrupt
  <2>1. RxNext(RxHead) \in 0..RxSize-1 /\ arrived + 1 \in Nat
    BY RxNextWraps
  <2> QED BY <1>11, <2>1 DEF RxInterrupt
<1>12. CASE ShiftOut
  BY <1>12 DEF ShiftOut
<1>13. CASE UNCHANGED vars
  BY <1>13 DEF vars
<1> QED
  BY <1>1, <1>2, <1>3, <1>4, <1>5, <1>6, <1>7, <1>8, <1>9, <1>10, <1>11,
     <1>12, <1>13 DEF Next, Transmit, Receive

\* The ring indices of buffuart.c never leave the buffers, whatever the sizes
\* and wherever the handlers interrupt the main program.
THEOREM TypeCorrect == Spec => []TypeOK
BY TypeInit, TypeStep, PTL DEF Spec

-----------------------------------------------------------------------------
\* The inductive invariant of the transmit side.  TxInOrder alone is not
\* inductive: what the handler will send depends on the contents of the ring
\* and on the main program's progress through BuffUart_Transmit.
TxInv == TypeOK /\ TxRingExact /\ TxInOrder /\ NoLostWakeup

\* BuffUart_Setup leaves an empty ring.
LEMMA TxInit == Init => TxInv
<1> SUFFICES ASSUME Init PROVE TxInv
  OBVIOUS
<1>1. TypeOK
  BY TypeInit
<1>2. TxCount = 0
  BY DEF Init, TxCount
<1>3. wire = <<>> /\ Len(wire) = 0 /\ accepted = 0
  BY DEF Init
<1>4. TxRingExact
  BY <1>2, <1>3 DEF Init, TxRingExact
<1> QED BY <1>1, <1>3, <1>4 DEF TxInv, TxInOrder, NoLostWakeup, Init

\* A step that leaves the ring, the wire and the control register alone and
\* does not enter the protected part of BuffUart_Transmit keeps the invariant.
LEMMA TxFrame ==
    ASSUME TxInv, TypeOK',
           UNCHANGED <<TxHead, TxTail, TxBuf, tmphead, wire, accepted, UCSR1B>>,
           \/ pc' = pc
           \/ /\ pc \notin {"loadCtrl", "storeCtrl"}
              /\ pc' \in {"idle", "storeTail", "readData"}
    PROVE  TxInv'
<1> USE DEF TxInv
<1>1. TxCount' = TxCount /\ \A i : TxSlot(i)' = TxSlot(i)
  BY DEF TxCount, TxSlot
<1>2. TxRingExact'
  BY <1>1 DEF TxRingExact, TxNext
<1>3. TxInOrder' /\ NoLostWakeup'
  BY DEF TxInOrder, NoLostWakeup
<1> QED BY <1>2, <1>3

\* Every step of the driver, its handlers and the hardware keeps it.
LEMMA TxStep == TxInv /\ [Next]_vars => TxInv'
<1> SUFFICES ASSUME TxInv, [Next]_vars PROVE TxInv'
  OBVIOUS
<1> USE TxSizeAssumption
<1>0. TypeOK /\ TypeOK'
  BY TypeStep DEF TxInv
<1>i. /\ TxHead \in 0..TxSize-1 /\ TxTail \in 0..TxSize-1
      /\ tmphead \in 0..TxSize-1 /\ accepted \in Nat
      /\ TxBuf \in [0..TxSize-1 -> Nat] /\ wire \in Seq(Nat)
  BY <1>0 DEF TypeOK
<1>l. Len(wire) \in Nat
  BY <1>i
<1>n. /\ TxNext(TxHead) = IF TxHead + 1 = TxSize THEN 0 ELSE TxHead + 1
      /\ TxNext(TxTail) = IF TxTail + 1 = TxSize THEN 0 ELSE TxTail + 1
  BY <1>i, TxNextWraps
<1>c. TxCount \in 0..TxSize-1
  BY <1>i DEF TxCount
<1>1. CASE TransmitCall
  <2>1. TxCount' = TxCount /\ \A i : TxSlot(i)' = TxSlot(i)
    BY <1>1 DEF TransmitCall, TxCount, TxSlot
  <2>2. TxRingExact' /\ TxInOrder' /\ NoLostWakeup'
    BY <1>1, <2>1
       DEF TransmitCall, TxInv, TxRingExact, TxInOrder, NoLostWakeup, hwVars, TxNext
  <2> QED BY <1>0, <2>2 DEF TxInv
<1>2. CASE TransmitWait
  <2>1. TxCount' = TxCount /\ \A i : TxSlot(i)' = TxSlot(i)
    BY <1>2 DEF TransmitWait, TxCount, TxSlot, txVars
  <2>2. TxRingExact' /\ TxInOrder' /\ NoLostWakeup'
    BY <1>2, <2>1
       DEF TransmitWait, TxInv, TxRingExact, TxInOrder, NoLostWakeup, hwVars, txVars, TxNext
  <2> QED BY <1>0, <2>2 DEF TxInv
<1>3. CASE TransmitStoreData
  <2>1. TxCount' = TxCount /\ \A i : TxSlot(i)' = TxSlot(i)
    BY <1>3 DEF TransmitStoreData, TxCount, TxSlot
  <2>2. tmphead = TxNext(TxHead) /\ tmphead # TxTail
    BY <1>3 DEF TransmitStoreData, TxInv, TxRingExact
  <2>3. \A i \in 1..TxCount : TxSlot(i) # tmphead /\ TxSlot(i) \in 0..TxSize-1
    BY <1>i, <1>n, <2>2 DEF TxSlot, TxCount
  <2>4. TxRingExact'
    BY <1>3, <1>i, <2>1, <2>2, <2>3 DEF TransmitStoreData, TxInv, TxRingExact, TxNext
  <2>5. TxInOrder' /\ NoLostWakeup'
    BY <1>3 DEF TransmitStoreData, TxInv, TxInOrder, NoLostWakeup, hwVars
  <2> QED BY <1>0, <2>4, <2>5 DEF TxInv
<1>4. CASE TransmitStoreHead
  <2>1. tmphead = TxNext(TxHead) /\ tmphead # TxTail /\ TxBuf[tmphead] = accepted + 1
    BY <1>4 DEF TransmitStoreHead, TxInv, TxRingExact
  <2>2. TxCount' = TxCount + 1 /\ \A i : TxSlot(i)' = TxSlot(i)
    BY <1>4, <1>i, <1>n, <2>1 DEF TransmitStoreHead, TxCount, TxSlot
  <2>3. TxSlot(TxCount + 1) = tmphead
    BY <1>i, <1>n, <2>1 DEF TxCount, TxSlot
  <2>4. TxRingExact'
    <3>0. UNCHANGED <<TxBuf, wire>> /\ accepted' = accepted + 1
      BY <1>4 DEF TransmitStoreHead
    <3>a. /\ Len(wire) + TxCount = accepted
          /\ \A i \in 1..TxCount : TxBuf[TxSlot(i)] = Len(wire) + i
      BY DEF TxInv, TxRingExact
    <3>1. Len(wire') + TxCount' = accepted'
      BY <1>i, <1>l, <1>c, <2>2, <3>0, <3>a
    <3>2. \A i \in 1..TxCount' : TxBuf'[TxSlot(i)'] = Len(wire') + i
      <4> TAKE i \in 1..TxCount'
      <4>1. CASE i = TxCount + 1
        BY <1>l, <1>c, <2>1, <2>2, <2>3, <3>0, <3>a, <4>1
      <4>2. CASE i # TxCount + 1
        <5>1. i \in 1..TxCount
          BY <1>c, <2>2, <4>2
        <5> QED BY <2>2, <3>0, <3>a, <5>1
      <4> QED BY <4>1, <4>2
    <3> QED BY <1>4, <3>1, <3>2 DEF TransmitStoreHead, TxRingExact
  <2>5. TxInOrder' /\ NoLostWakeup'
    BY <1>4 DEF TransmitStoreHead, TxInv, TxInOrder, NoLostWakeup, hwVars
  <2> QED BY <1>0, <2>4, <2>5 DEF TxInv
<1>5. CASE TransmitLoadCtrl
  <2>1. TxCount' = TxCount /\ \A i : TxSlot(i)' = TxSlot(i)
    BY <1>5 DEF TransmitLoadCtrl, TxCount, TxSlot
  <2>2. TxRingExact' /\ TxInOrder' /\ NoLostWakeup'
    BY <1>5, <2>1 DEF TransmitLoadCtrl, TxInv, TxRingExact, TxInOrder, NoLostWakeup
  <2> QED BY <1>0, <2>2 DEF TxInv
<1>6. CASE TransmitStoreCtrl
  <2>1. TxCount' = TxCount /\ \A i : TxSlot(i)' = TxSlot(i)
    BY <1>6 DEF TransmitStoreCtrl, TxCount, TxSlot, txVars
  <2>2. TxRingExact' /\ TxInOrder'
    BY <1>6, <2>1 DEF TransmitStoreCtrl, TxInv, TxRingExact, TxInOrder, txVars
  <2>3. NoLostWakeup'
    BY <1>6 DEF TransmitStoreCtrl, NoLostWakeup
  <2> QED BY <1>0, <2>2, <2>3 DEF TxInv
<1>7. CASE Receive \/ RxInterrupt \/ ShiftOut \/ UNCHANGED vars
  BY <1>0, <1>7, TxFrame
     DEF Receive, ReceiveWait, ReceiveStoreTail, ReceiveReadData, RxInterrupt,
         ShiftOut, vars, txVars, hwVars
<1>8. CASE UdreInterrupt /\ TxHead # TxTail
  <2>1. TxTail' = TxNext(TxTail) /\ TxHead' = TxHead /\ pc' = pc
        /\ wire' = Append(wire, TxBuf[TxNext(TxTail)])
        /\ UNCHANGED <<TxBuf, tmphead, accepted, UCSR1B>>
    BY <1>8 DEF UdreInterrupt
  <2>2. TxCount >= 1 /\ TxCount' = TxCount - 1
    BY <1>8, <1>i, <1>n, <2>1 DEF TxCount
  <2>3. TxSlot(1) = TxNext(TxTail) /\ \A i \in 1..TxCount' : TxSlot(i)' = TxSlot(i + 1)
    BY <1>i, <1>c, <1>n, <2>1, <2>2 DEF TxSlot
  <2>4. TxBuf[TxNext(TxTail)] = Len(wire) + 1
    BY <1>i, <2>2, <2>3 DEF TxInv, TxRingExact
  <2>5. Len(wire') = Len(wire) + 1 /\ wire'[Len(wire) + 1] = Len(wire) + 1
        /\ \A i \in 1..Len(wire) : wire'[i] = wire[i]
    BY <1>i, <2>1, <2>4
  <2>6. TxInOrder'
    BY <1>i, <2>5, SMTT(30) DEF TxInv, TxInOrder
  <2>7. \A i \in 1..TxCount' : TxBuf'[TxSlot(i)'] = Len(wire') + i
    <3> TAKE i \in 1..TxCount'
    <3>1. i + 1 \in 1..TxCount
      BY <1>c, <2>2
    <3>2. TxBuf[TxSlot(i + 1)] = Len(wire) + (i + 1)
      BY <3>1 DEF TxInv, TxRingExact
    <3> QED BY <1>l, <1>c, <2>1, <2>2, <2>3, <2>5, <3>1, <3>2
  <2>8. pc \in {"storeData", "storeHead"} => tmphead # TxTail'
    BY <1>8, <1>i, <1>n, <2>1, SMTT(30) DEF TxInv, TxRingExact
  <2>9. TxRingExact'
    <3>1. Len(wire') + TxCount' = accepted'
      BY <1>i, <1>l, <1>c, <2>1, <2>2, <2>5 DEF TxInv, TxRingExact
    <3>2. TxNext(TxHead)' = TxNext(TxHead)
      BY <2>1 DEF TxNext
    <3> QED BY <2>1, <2>7, <2>8, <3>1, <3>2 DEF TxInv, TxRingExact
  <2>10. NoLostWakeup'
    BY <1>8, <2>1 DEF UdreInterrupt, NoLostWakeup
  <2> QED BY <1>0, <2>6, <2>9, <2>10 DEF TxInv
<1>9. CASE UdreInterrupt /\ TxHead = TxTail
  <2>1. UNCHANGED <<pc, TxHead, TxTail, TxBuf, tmphead, wire, accepted>>
    BY <1>9 DEF UdreInterrupt
  <2>2. TxCount' = TxCount /\ \A i : TxSlot(i)' = TxSlot(i)
    BY <2>1 DEF TxCount, TxSlot
  <2>3. TxRingExact' /\ TxInOrder' /\ NoLostWakeup'
    BY <1>9, <2>1, <2>2 DEF TxInv, TxRingExact, TxInOrder, NoLostWakeup, TxNext
  <2> QED BY <1>0, <2>3 DEF TxInv
<1> QED
  BY <1>1, <1>2, <1>3, <1>4, <1>5, <1>6, <1>7, <1>8, <1>9 DEF Next, Transmit

\* The invariant holds throughout.
LEMMA TxInvariant == Spec => []TxInv
BY TxInit, TxStep, PTL DEF Spec

\* UDR1 receives the bytes given to BuffUart_Transmit in order and each once.
THEOREM TxOrder == Spec => []TxInOrder
<1>1. TxInv => TxInOrder
  BY DEF TxInv
<1> QED BY <1>1, TxInvariant, PTL

\* No byte is left in the ring with the UDRE interrupt disabled.
THEOREM TxWakeup == Spec => []NoLostWakeup
<1>1. TxInv => NoLostWakeup
  BY DEF TxInv
<1> QED BY <1>1, TxInvariant, PTL

-----------------------------------------------------------------------------
\* The mapped queue is the run of numbers from the one after the last byte on
\* the wire up to the last accepted one.
QueueRun ==
    /\ TxCount \in 0..TxSize-1 /\ Len(wire) \in Nat
    /\ accepted = Len(wire) + TxCount
    /\ TxQueue = [i \in 1..TxCount |-> Len(wire) + i]

\* The invariant fixes what the abstract queue is.
LEMMA QueueIsRun == TxInv => QueueRun
<1> SUFFICES ASSUME TxInv PROVE QueueRun
  OBVIOUS
<1>1. TxHead \in 0..TxSize-1 /\ TxTail \in 0..TxSize-1 /\ wire \in Seq(Nat)
  BY DEF TxInv, TypeOK
<1>2. TxCount \in 0..TxSize-1
  BY <1>1, TxSizeAssumption DEF TxCount
<1>3. Len(wire) \in Nat
  BY <1>1
<1>4. accepted = Len(wire) + TxCount
  BY DEF TxInv, TxRingExact
<1>5. TxQueue = [i \in 1..TxCount |-> Len(wire) + i]
  BY DEF TxInv, TxRingExact, TxQueue
<1> QED BY <1>2, <1>3, <1>4, <1>5 DEF QueueRun

\* Steps that leave the ring and the wire alone are invisible to the channel.
LEMMA ChannelStutter ==
    ASSUME QueueRun, QueueRun', UNCHANGED <<TxHead, TxTail, wire, accepted>>
    PROVE  UNCHANGED Channel!vars
<1>1. TxCount' = TxCount /\ LastOnWire' = LastOnWire
  BY DEF TxCount, LastOnWire
<1>2. TxQueue' = TxQueue
  BY <1>1 DEF QueueRun
<1> QED BY <1>1, <1>2 DEF Channel!vars

\* The transmit ring, with the main program and the handler interleaved at
\* every access to shared state, implements the bounded FIFO channel.
THEOREM TxRefinement == Spec => ImplementsChannel
<1>1. Init => Channel!Init
  <2> SUFFICES ASSUME Init PROVE Channel!Init
    OBVIOUS
  <2>1. TxCount = 0
    BY DEF Init, TxCount
  <2>2. TxQueue = <<>>
    BY <2>1 DEF TxQueue
  <2> QED BY <2>2 DEF Channel!Init, Init, LastOnWire
<1>2. TxInv /\ TxInv' /\ QueueRun /\ QueueRun' /\ [Next]_vars
        => [Channel!Next]_(Channel!vars)
  <2> SUFFICES ASSUME TxInv, TxInv', QueueRun, QueueRun', [Next]_vars
               PROVE  [Channel!Next]_(Channel!vars)
    OBVIOUS
  <2>1. CASE TransmitStoreHead
    <3>1. /\ TxHead \in 0..TxSize-1 /\ TxTail \in 0..TxSize-1
          /\ tmphead = TxNext(TxHead) /\ tmphead # TxTail
      BY <2>1 DEF TransmitStoreHead, TxInv, TypeOK, TxRingExact
    <3>2. TxNext(TxHead) = IF TxHead + 1 = TxSize THEN 0 ELSE TxHead + 1
      BY <3>1, TxNextWraps
    <3>3. /\ TxHead' = tmphead /\ UNCHANGED <<TxTail, wire>>
          /\ accepted' = accepted + 1
      BY <2>1 DEF TransmitStoreHead
    <3>4. TxCount' = TxCount + 1
      BY <3>1, <3>2, <3>3, TxSizeAssumption DEF TxCount
    <3>5. Len(TxQueue) = TxCount /\ TxCount < TxSize - 1
      BY <3>4, TxSizeAssumption DEF QueueRun
    <3>6. TxQueue' = Append(TxQueue, accepted + 1)
      BY <3>3, <3>4 DEF QueueRun
    <3>7. LastOnWire' = LastOnWire
      BY <3>3 DEF LastOnWire
    <3> QED BY <3>3, <3>5, <3>6, <3>7 DEF Channel!Next, Channel!Put
  <2>2. CASE UdreInterrupt /\ TxHead # TxTail
    <3>1. /\ wire' = Append(wire, TxBuf[TxNext(TxTail)]) /\ accepted' = accepted
      BY <2>2 DEF UdreInterrupt
    <3>2. wire \in Seq(Nat) /\ wire' \in Seq(Nat)
      BY DEF TxInv, TypeOK
    <3>3. Len(wire') = Len(wire) + 1
      BY <3>1, <3>2
    <3>4. TxCount' = TxCount - 1 /\ TxCount >= 1
      BY <3>1, <3>3 DEF QueueRun
    <3>5. TxQueue # <<>> /\ Head(TxQueue) = Len(wire) + 1
      BY <3>4 DEF QueueRun
    <3>6. TxQueue' = Tail(TxQueue)
      BY <3>3, <3>4 DEF QueueRun
    <3>7. LastOnWire' = Len(wire) + 1
      <4>1. wire' # <<>> /\ Len(wire') \in 1..Len(wire')
        BY <3>2, <3>3
      <4>2. wire'[Len(wire')] = Len(wire')
        BY <4>1 DEF TxInv, TxInOrder
      <4> QED BY <3>3, <4>1, <4>2 DEF LastOnWire
    <3> QED BY <3>1, <3>5, <3>6, <3>7 DEF Channel!Next, Channel!Get
  <2>3. CASE UNCHANGED <<TxHead, TxTail, wire, accepted>>
    BY <2>3, ChannelStutter
  <2> QED
    BY <2>1, <2>2, <2>3
       DEF Next, Transmit, Receive, TransmitCall, TransmitWait,
           TransmitStoreData, TransmitLoadCtrl, TransmitStoreCtrl, ReceiveWait,
           ReceiveStoreTail, ReceiveReadData, UdreInterrupt, RxInterrupt,
           ShiftOut, vars, txVars
<1> QED
  BY <1>1, <1>2, TxInvariant, QueueIsRun, PTL DEF Spec, ImplementsChannel, Channel!Spec

-----------------------------------------------------------------------------
(* The receive side.  The handler never refuses a byte, so the number of   *)
(* bytes that have arrived since the last one read is the distance from    *)
(* the tail to the head only up to whole laps of the ring.                 *)

\* The bytes lost to whole laps of the receive ring
Laps == {RxSize * q : q \in Nat}

\* How far the receive head is ahead of the tail
RxGap == IF RxHead >= RxTail THEN RxHead - RxTail ELSE RxHead + RxSize - RxTail

\* The slot k places behind the receive head
RxBack(k) == IF RxHead >= k THEN RxHead - k ELSE RxHead + RxSize - k

\* The receive ring holds the last RxSize bytes that arrived, newest at the
\* head, overrun or not.
RxRingExact ==
    \A k \in 0..RxSize-1 : k < arrived => RxBuf[RxBack(k)] = arrived - k

\* What BuffUart_Receive has left to read: the gap and some whole laps.  Once
\* the tail is stored the byte it points at counts as read.
RxBehind ==
    /\ pc # "readData" => \E m \in Laps : arrived = LastRead + RxGap + m
    /\ pc = "readData" => \E m \in Laps : arrived = LastRead + 1 + RxGap + m
    /\ pc = "storeTail" => arrived > LastRead

\* The inductive invariant of the receive side.
RxInv == TypeOK /\ RxRingExact /\ RxBehind /\ RxInOrder

\* Laps are counted up and down by the size of the ring.
LEMMA LapsCount ==
    /\ 0 \in Laps /\ Laps \subseteq Nat
    /\ \A m \in Laps : m + RxSize \in Laps
    /\ \A m \in Laps : m # 0 => m >= RxSize /\ m - RxSize \in Laps
<1> USE RxSizeAssumption
<1>1. 0 \in Laps /\ Laps \subseteq Nat
  <2>1. RxSize * 0 = 0
    OBVIOUS
  <2> QED BY <2>1 DEF Laps
<1>2. ASSUME NEW m \in Laps PROVE m + RxSize \in Laps
  <2>1. PICK q \in Nat : m = RxSize * q
    BY DEF Laps
  <2>2. m + RxSize = RxSize * (q + 1) /\ q + 1 \in Nat
    BY <2>1
  <2> QED BY <2>2 DEF Laps
<1>3. ASSUME NEW m \in Laps, m # 0 PROVE m >= RxSize /\ m - RxSize \in Laps
  <2>1. PICK q \in Nat : m = RxSize * q
    BY DEF Laps
  <2>2. q # 0
    BY <1>3, <2>1
  <2>3. PICK r \in Nat : q = r + 1
    BY <2>2
  <2>4. m = RxSize * r + RxSize /\ RxSize * r \in Nat
    BY <2>1, <2>3
  <2>5. m >= RxSize /\ m - RxSize = RxSize * r
    BY <2>4
  <2> QED BY <2>5 DEF Laps
<1> QED BY <1>1, <1>2, <1>3

\* The slot under the tail is the one as far behind the head as the gap.
LEMMA GapIsBack ==
    ASSUME TypeOK
    PROVE  RxGap \in 0..RxSize-1 /\ RxBack(RxGap) = RxTail
BY RxSizeAssumption DEF TypeOK, RxGap, RxBack

\* The last byte read is a number.
LEMMA LastReadNat ==
    ASSUME TypeOK
    PROVE  LastRead \in Nat
BY DEF TypeOK, LastRead

\* BuffUart_Setup leaves the receive ring empty.
LEMMA RxInit == Init => RxInv
<1> SUFFICES ASSUME Init PROVE RxInv
  OBVIOUS
<1>1. TypeOK /\ arrived = 0 /\ RxGap = 0 /\ LastRead = 0 /\ Len(received) = 0
  BY TypeInit DEF Init, RxGap, LastRead
<1>2. RxBehind
  BY <1>1, LapsCount DEF Init, RxBehind
<1>3. RxRingExact /\ RxInOrder
  BY <1>1 DEF RxRingExact, RxInOrder
<1> QED BY <1>1, <1>2, <1>3 DEF RxInv

\* A step of the main program that leaves the receive ring alone.
LEMMA RxFrame ==
    ASSUME RxInv, TypeOK', UNCHANGED rxVars,
           pc' = "readData" <=> pc = "readData",
           pc' = "storeTail" => pc = "storeTail" \/ RxHead # RxTail
    PROVE  RxInv'
<1> USE DEF rxVars, RxInv
<1>1. LastRead' = LastRead /\ RxGap' = RxGap /\ \A k : RxBack(k)' = RxBack(k)
  BY DEF LastRead, RxGap, RxBack
<1>2. RxRingExact' /\ RxInOrder'
  BY <1>1 DEF RxRingExact, RxInOrder
<1>3. RxHead # RxTail => RxGap > 0
  BY RxSizeAssumption DEF TypeOK, RxGap
<1>4. pc' = "storeTail" => arrived > LastRead
  <2> SUFFICES ASSUME pc' = "storeTail", pc # "storeTail" PROVE arrived > LastRead
    BY DEF RxBehind
  <2>1. PICK m \in Laps : arrived = LastRead + RxGap + m
    BY DEF RxBehind
  <2>2. m \in Nat /\ LastRead \in Nat /\ RxGap \in Nat /\ RxGap > 0
    BY LapsCount, LastReadNat, GapIsBack, RxSizeAssumption, <1>3
  <2> QED BY <2>1, <2>2
<1>5. RxBehind'
  BY <1>1, <1>4 DEF RxBehind
<1> QED BY <1>2, <1>5

\* Storing the tail moves it towards the head; with the head on the tail the
\* gap grows from nothing to a whole ring less one, and a lap is used up.
LEMMA RxStoreTailStep ==
    ASSUME RxInv, TypeOK', ReceiveStoreTail
    PROVE  RxInv'
<1> USE RxSizeAssumption DEF RxInv
<1>1. /\ pc = "storeTail" /\ pc' = "readData" /\ RxTail' = RxNext(RxTail)
      /\ UNCHANGED <<RxHead, RxBuf, arrived, received>>
  BY DEF ReceiveStoreTail
<1>2. LastRead' = LastRead /\ \A k : RxBack(k)' = RxBack(k)
  BY <1>1 DEF LastRead, RxBack
<1>3. RxRingExact' /\ RxInOrder'
  BY <1>1, <1>2 DEF RxRingExact, RxInOrder
<1>4. PICK m \in Laps : arrived = LastRead + RxGap + m
  BY <1>1 DEF RxBehind
<1>5. /\ m \in Nat /\ LastRead \in Nat /\ RxGap \in 0..RxSize-1 /\ arrived \in Nat
      /\ arrived > LastRead
  BY <1>1, LapsCount, LastReadNat, GapIsBack DEF RxBehind, TypeOK
<1>6. \E n \in Laps : arrived = LastRead + 1 + RxGap' + n
  <2>1. CASE RxGap > 0
    <3>1. RxGap' = RxGap - 1
      BY <1>1, <2>1 DEF RxGap, RxNext, TypeOK
    <3> QED BY <1>4, <1>5, <3>1
  <2>2. CASE RxGap = 0
    <3>1. RxGap' = RxSize - 1
      BY <1>1, <2>2 DEF RxGap, RxNext, TypeOK
    <3>2. m # 0
      BY <1>4, <1>5, <2>2
    <3>3. m - RxSize \in Laps
      BY <3>2, LapsCount
    <3>4. arrived = LastRead + 1 + RxGap' + (m - RxSize)
      BY <1>4, <1>5, <2>2, <3>1
    <3> QED BY <3>3, <3>4
  <2> QED BY <1>5, <2>1, <2>2
<1> QED BY <1>1, <1>2, <1>3, <1>6 DEF RxBehind

\* The byte BuffUart_Receive returns is the next one, or later by the laps it
\* was overrun.
LEMMA RxReadValue ==
    ASSUME RxInv, ReceiveReadData
    PROVE  /\ \E m \in Laps : /\ arrived = LastRead + 1 + RxGap + m
                              /\ RxBuf[RxTail] = LastRead + 1 + m
           /\ received' = Append(received, RxBuf[RxTail])
           /\ LastRead' = RxBuf[RxTail]
           /\ UNCHANGED <<RxHead, RxTail, RxBuf, arrived>>
           /\ pc' = "idle"
<1> USE RxSizeAssumption DEF RxInv
<1>1. /\ pc = "readData" /\ pc' = "idle"
      /\ received' = Append(received, RxBuf[RxTail])
      /\ UNCHANGED <<RxHead, RxTail, RxBuf, arrived>>
  BY DEF ReceiveReadData
<1>2. PICK m \in Laps : arrived = LastRead + 1 + RxGap + m
  BY <1>1 DEF RxBehind
<1>3. /\ m \in Nat /\ LastRead \in Nat /\ RxGap \in 0..RxSize-1 /\ arrived \in Nat
      /\ RxBack(RxGap) = RxTail
  BY LapsCount, LastReadNat, GapIsBack DEF TypeOK
<1>4. RxGap < arrived
  BY <1>2, <1>3
<1>5. RxBuf[RxTail] = arrived - RxGap
  BY <1>3, <1>4 DEF RxRingExact
<1>6. RxBuf[RxTail] = LastRead + 1 + m
  BY <1>2, <1>3, <1>5
<1>7. LastRead' = RxBuf[RxTail]
  <2>1. received \in Seq(Nat) /\ RxBuf[RxTail] \in Nat
    BY DEF TypeOK
  <2>2. received' # <<>> /\ received'[Len(received')] = RxBuf[RxTail]
    BY <1>1, <2>1
  <2> QED BY <2>2 DEF LastRead
<1> QED BY <1>1, <1>2, <1>6, <1>7

\* Returning it keeps the order and leaves only the gap to read.
LEMMA RxReadDataStep ==
    ASSUME RxInv, TypeOK', ReceiveReadData
    PROVE  RxInv'
<1> USE RxSizeAssumption DEF RxInv
<1>1. PICK m \in Laps : /\ arrived = LastRead + 1 + RxGap + m
                        /\ RxBuf[RxTail] = LastRead + 1 + m
  BY RxReadValue
<1>2. /\ received' = Append(received, RxBuf[RxTail])
      /\ LastRead' = RxBuf[RxTail]
      /\ UNCHANGED <<RxHead, RxTail, RxBuf, arrived>>
      /\ pc' = "idle"
  BY RxReadValue
<1>3. m \in Nat /\ LastRead \in Nat /\ RxGap \in Nat /\ arrived \in Nat
  <2>1. TypeOK /\ arrived \in Nat /\ m \in Nat
    BY LapsCount DEF TypeOK
  <2> QED BY <2>1, LastReadNat, GapIsBack
<1>4. RxGap' = RxGap /\ \A k : RxBack(k)' = RxBack(k)
  BY <1>2 DEF RxGap, RxBack
<1>5. RxRingExact'
  BY <1>2, <1>4 DEF RxRingExact
<1>6. RxBehind'
  <2>1. arrived' = LastRead' + RxGap' + 0
    BY <1>1, <1>2, <1>3, <1>4
  <2> QED BY <1>2, <2>1, LapsCount DEF RxBehind
<1>7. RxInOrder'
  <2>0. received \in Seq(Nat) /\ RxBuf[RxTail] \in Nat
    BY DEF TypeOK
  <2>1. received \in Seq(Nat) /\ Len(received) \in Nat /\ RxBuf[RxTail] \in Nat
    BY <2>0
  <2>2. /\ Len(received') = Len(received) + 1
        /\ received'[Len(received) + 1] = RxBuf[RxTail]
        /\ \A i \in 1..Len(received) : received'[i] = received[i]
    BY <1>2, <2>1
  <2>3. RxBuf[RxTail] > LastRead
    BY <1>1, <1>3
  <2>4. ASSUME NEW i \in 1..Len(received')-1 PROVE received'[i] < received'[i+1]
    <3>1. CASE i < Len(received)
      <4>1. i \in 1..Len(received)-1 /\ i \in 1..Len(received) /\ i + 1 \in 1..Len(received)
        BY <2>1, <2>2, <3>1
      <4> QED BY <2>2, <4>1 DEF RxInOrder
    <3>2. CASE i = Len(received)
      <4>1. received # <<>> /\ received'[i] = received[Len(received)]
        BY <2>1, <2>2, <3>2
      <4>2. received'[i] = LastRead /\ received'[i+1] = RxBuf[RxTail]
        BY <2>2, <3>2, <4>1 DEF LastRead
      <4> QED BY <1>1, <1>3, <2>3, <4>2
    <3> QED BY <2>1, <2>2, <3>1, <3>2
  <2> QED BY <2>4 DEF RxInOrder
<1> QED BY <1>5, <1>6, <1>7

\* The handler stores the newest byte at the new head, and pushes every other
\* one a place back; at the last place a head that meets the tail adds a lap.
LEMMA RxInterruptStep ==
    ASSUME RxInv, TypeOK', RxInterrupt
    PROVE  RxInv'
<1> USE RxSizeAssumption DEF RxInv
<1>1. /\ RxHead' = RxNext(RxHead) /\ arrived' = arrived + 1
      /\ RxBuf' = [RxBuf EXCEPT ![RxNext(RxHead)] = arrived + 1]
      /\ UNCHANGED <<pc, RxTail, received>>
  BY DEF RxInterrupt
<1>2. /\ RxHead \in 0..RxSize-1 /\ RxTail \in 0..RxSize-1 /\ arrived \in Nat
      /\ RxBuf \in [0..RxSize-1 -> Nat]
  BY DEF TypeOK
<1>3. RxRingExact'
  <2> SUFFICES ASSUME NEW k \in 0..RxSize-1, k < arrived'
               PROVE  RxBuf'[RxBack(k)'] = arrived' - k
    BY DEF RxRingExact
  <2>1. CASE k = 0
    <3>1. RxBack(k)' = RxNext(RxHead) /\ RxNext(RxHead) \in 0..RxSize-1
      BY <1>1, <1>2, <2>1, RxNextWraps DEF RxBack
    <3> QED BY <1>1, <1>2, <2>1, <3>1
  <2>2. CASE k # 0
    <3>1. /\ k - 1 \in 0..RxSize-1 /\ k - 1 < arrived
          /\ arrived' - k = arrived - (k - 1)
      BY <1>1, <1>2, <2>2
    <3>2. RxBack(k)' = RxBack(k - 1)
      BY <1>1, <1>2, <2>2 DEF RxBack, RxNext
    <3>3. RxBack(k - 1) # RxNext(RxHead) /\ RxBack(k - 1) \in 0..RxSize-1
      BY <1>2, <2>2 DEF RxBack, RxNext
    <3>4. RxBuf'[RxBack(k - 1)] = RxBuf[RxBack(k - 1)]
      BY <1>1, <1>2, <3>3
    <3> QED BY <3>1, <3>2, <3>4 DEF RxRingExact
  <2> QED BY <2>1, <2>2
<1>4. LastRead' = LastRead /\ RxInOrder'
  BY <1>1 DEF LastRead, RxInOrder
<1>5. LastRead \in Nat /\ RxGap \in 0..RxSize-1
  BY LastReadNat, GapIsBack
<1>6. ASSUME NEW c \in Nat, NEW m \in Laps, arrived = c + RxGap + m
      PROVE  \E n \in Laps : arrived' = c + RxGap' + n
  <2>0. m \in Nat
    BY LapsCount
  <2>1. CASE RxGap < RxSize - 1
    <3>1. RxGap' = RxGap + 1
      BY <1>1, <1>2, <2>1 DEF RxGap, RxNext
    <3> QED BY <1>1, <1>5, <1>6, <2>0, <3>1
  <2>2. CASE RxGap = RxSize - 1
    <3>1. RxGap' = 0
      BY <1>1, <1>2, <2>2 DEF RxGap, RxNext
    <3>2. m + RxSize \in Laps /\ arrived' = c + RxGap' + (m + RxSize)
      BY <1>1, <1>5, <1>6, <2>0, <2>2, <3>1, LapsCount
    <3> QED BY <3>2
  <2> QED BY <1>5, <2>1, <2>2
<1>7. RxBehind'
  <2>1. pc # "readData" => \E n \in Laps : arrived' = LastRead + RxGap' + n
    BY <1>5, <1>6 DEF RxBehind
  <2>2. pc = "readData" => \E n \in Laps : arrived' = LastRead + 1 + RxGap' + n
    <3>1. LastRead + 1 \in Nat
      BY <1>5
    <3> QED BY <3>1, <1>6 DEF RxBehind
  <2>3. pc = "storeTail" => arrived' > LastRead
    BY <1>1, <1>2, <1>5 DEF RxBehind
  <2> QED BY <1>1, <1>4, <2>1, <2>2, <2>3 DEF RxBehind
<1> QED BY <1>3, <1>4, <1>7

\* Every step keeps the receive side's invariant.
LEMMA RxStep == RxInv /\ [Next]_vars => RxInv'
<1> SUFFICES ASSUME RxInv, [Next]_vars PROVE RxInv'
  OBVIOUS
<1>0. TypeOK'
  BY TypeStep DEF RxInv
<1>1. CASE ReceiveStoreTail
  BY <1>0, <1>1, RxStoreTailStep
<1>2. CASE ReceiveReadData
  BY <1>0, <1>2, RxReadDataStep
<1>3. CASE RxInterrupt
  BY <1>0, <1>3, RxInterruptStep
<1>4. CASE Transmit \/ ReceiveWait \/ UdreInterrupt \/ ShiftOut \/ UNCHANGED vars
  <2>1. UNCHANGED rxVars
    BY <1>4 DEF Transmit, TransmitCall, TransmitWait, TransmitStoreData,
                TransmitStoreHead, TransmitLoadCtrl, TransmitStoreCtrl,
                ReceiveWait, UdreInterrupt, ShiftOut, vars
  <2>2. /\ pc' = "readData" <=> pc = "readData"
        /\ pc' = "storeTail" => pc = "storeTail" \/ RxHead # RxTail
    BY <1>4 DEF Transmit, TransmitCall, TransmitWait, TransmitStoreData,
                TransmitStoreHead, TransmitLoadCtrl, TransmitStoreCtrl,
                ReceiveWait, DataInReceiveBuffer, UdreInterrupt, ShiftOut, vars
  <2> QED BY <1>0, <2>1, <2>2, RxFrame
<1> QED BY <1>1, <1>2, <1>3, <1>4 DEF Next, Receive

\* It holds throughout.
LEMMA RxInvariant == Spec => []RxInv
BY RxInit, RxStep, PTL DEF Spec

\* However far arrivals overrun the ring, and wherever they interrupt
\* BuffUart_Receive, it returns no byte twice and none out of order.
THEOREM RxOrder == Spec => []RxInOrder
<1>1. RxInv => RxInOrder
  BY DEF RxInv
<1> QED BY <1>1, RxInvariant, PTL

\* BuffUart_Receive skips a byte only when more than RxSize have arrived
\* since the last one it returned.
THEOREM RxNoLoss == Spec => RxLossless
<1>1. RxInv /\ [Next]_vars
        => [received' # received =>
              LastRead' = LastRead + 1 \/ arrived > LastRead + RxSize]_vars
  <2> SUFFICES ASSUME RxInv, Next, received' # received
               PROVE  LastRead' = LastRead + 1 \/ arrived > LastRead + RxSize
    OBVIOUS
  <2>1. ReceiveReadData
    BY DEF Next, Transmit, Receive, TransmitCall, TransmitWait,
           TransmitStoreData, TransmitStoreHead, TransmitLoadCtrl,
           TransmitStoreCtrl, ReceiveWait, ReceiveStoreTail, UdreInterrupt,
           RxInterrupt, ShiftOut, rxVars
  <2>2. PICK m \in Laps : /\ arrived = LastRead + 1 + RxGap + m
                          /\ LastRead' = LastRead + 1 + m
    BY <2>1, RxReadValue
  <2>3. /\ m \in Nat /\ LastRead \in Nat /\ RxGap \in Nat
        /\ m # 0 => m >= RxSize
    BY LapsCount, LastReadNat, GapIsBack, RxSizeAssumption DEF RxInv
  <2> QED BY <2>2, <2>3, RxSizeAssumption
<1> QED BY <1>1, RxInvariant, PTL DEF Spec, RxLossless
=============================================================================
