------------------------------ MODULE BuffUart ------------------------------
(***************************************************************************)
(* The interrupt-driven UART driver (LCD Test/buffuart.c): two ring        *)
(* buffers shared between the main program and two interrupt handlers.     *)
(* The main program can be interrupted between any two of its accesses to  *)
(* shared state; a handler runs to completion (interrupts stay disabled    *)
(* inside a SIGNAL).  The n-th byte of each direction is the number n.     *)
(***************************************************************************)
EXTENDS Naturals, Sequences

CONSTANTS TxSize,          \* UART_TX_BUFFER_SIZE, a power of two
          RxSize,          \* UART_RX_BUFFER_SIZE
          MaxTx,           \* bound: bytes handed to BuffUart_Transmit
          MaxRx            \* bound: bytes arriving on the wire

ASSUME TxSizeAssumption == TxSize \in Nat /\ TxSize >= 2
ASSUME RxSizeAssumption == RxSize \in Nat /\ RxSize >= 2
ASSUME BoundsAssumption ==
    MaxTx \in Nat /\ MaxRx \in Nat

VARIABLES
    pc,                    \* where the main program is inside the driver
    TxHead, TxTail, TxBuf, \* transmit ring
    tmphead,               \* BuffUart_Transmit's local
    UCSR1B,                \* control register, as its set of bits
    ucsr1bCopy,            \* the register loaded by |= before it is stored
    udrEmpty,              \* UDRE1: the data register can take a byte
    wire,                  \* everything written to UDR1
    accepted,              \* bytes whose head index has been published
    RxHead, RxTail, RxBuf, \* receive ring
    arrived,               \* bytes taken out of UDR1 by the handler
    received               \* bytes returned by BuffUart_Receive

txVars == <<TxHead, TxTail, TxBuf, tmphead, ucsr1bCopy, wire, accepted>>
rxVars == <<RxHead, RxTail, RxBuf, arrived, received>>
hwVars == <<UCSR1B, udrEmpty>>
vars == <<pc, txVars, rxVars, hwVars>>

Bits == {"RXCIE1", "RXEN1", "TXEN1", "UDRIE1"}
Locations == {"idle", "waitSpace", "storeData", "storeHead", "loadCtrl",
              "storeCtrl", "storeTail", "readData"}

\* Mutant: the mask is forgotten
TxNextUnmasked(i) == i + 1

\* ( index + 1 ) & UART_TX_BUFFER_MASK
TxNext(i) == (i + 1) % TxSize

\* index + 1, back to 0 at UART_RX_BUFFER_SIZE
RxNext(i) == IF i + 1 = RxSize THEN 0 ELSE i + 1

\* BuffUart_Setup: receiver, transmitter and receive interrupt on, rings empty
Init ==
    /\ pc = "idle"
    /\ TxHead = 0 /\ TxTail = 0 /\ TxBuf = [i \in 0..TxSize-1 |-> 0]
    /\ tmphead = 0
    /\ UCSR1B = {"RXCIE1", "RXEN1", "TXEN1"}
    /\ ucsr1bCopy = {"RXCIE1", "RXEN1", "TXEN1"}
    /\ udrEmpty = TRUE
    /\ wire = <<>>
    /\ accepted = 0
    /\ RxHead = 0 /\ RxTail = 0 /\ RxBuf = [i \in 0..RxSize-1 |-> 0]
    /\ arrived = 0
    /\ received = <<>>

-----------------------------------------------------------------------------
(* BuffUart_Transmit *)

\* tmphead = ( UART_TxHead + 1 ) & UART_TX_BUFFER_MASK
TransmitCall ==
    /\ pc = "idle" /\ accepted < MaxTx
    /\ tmphead' = TxNext(TxHead)
    /\ pc' = "waitSpace"
    /\ UNCHANGED <<TxHead, TxTail, TxBuf, ucsr1bCopy, wire, accepted>>
    /\ UNCHANGED <<rxVars, hwVars>>

\* Mutant: a full ring is not waited for
TransmitNoWait ==
    /\ pc = "waitSpace"
    /\ pc' = "storeData"
    /\ UNCHANGED <<txVars, rxVars, hwVars>>

\* while ( tmphead == UART_TxTail );
TransmitWait ==
    /\ pc = "waitSpace" /\ tmphead # TxTail
    /\ pc' = "storeData"
    /\ UNCHANGED <<txVars, rxVars, hwVars>>

TransmitStoreData ==
    /\ pc = "storeData"
    /\ TxBuf' = [TxBuf EXCEPT ![tmphead] = accepted + 1]
    /\ pc' = "storeHead"
    /\ UNCHANGED <<TxHead, TxTail, tmphead, ucsr1bCopy, wire, accepted>>
    /\ UNCHANGED <<rxVars, hwVars>>

TransmitStoreHead ==
    /\ pc = "storeHead"
    /\ TxHead' = tmphead
    /\ accepted' = accepted + 1
    /\ pc' = "loadCtrl"
    /\ UNCHANGED <<TxTail, TxBuf, tmphead, ucsr1bCopy, wire>>
    /\ UNCHANGED <<rxVars, hwVars>>

\* UCSR1B |= _BV(UDRIE1) is a load, an or and a store: the register is out
\* of the range of the single-instruction bit operations
TransmitLoadCtrl ==
    /\ pc = "loadCtrl"
    /\ ucsr1bCopy' = UCSR1B
    /\ pc' = "storeCtrl"
    /\ UNCHANGED <<TxHead, TxTail, TxBuf, tmphead, wire, accepted>>
    /\ UNCHANGED <<rxVars, hwVars>>

\* Mutant: the register is stored back without the interrupt enabled
TransmitStoreCtrlNoEnable ==
    /\ pc = "storeCtrl"
    /\ UCSR1B' = ucsr1bCopy
    /\ pc' = "idle"
    /\ UNCHANGED <<txVars, rxVars, udrEmpty>>

TransmitStoreCtrl ==
    /\ pc = "storeCtrl"
    /\ UCSR1B' = ucsr1bCopy \union {"UDRIE1"}
    /\ pc' = "idle"
    /\ UNCHANGED <<txVars, rxVars, udrEmpty>>

-----------------------------------------------------------------------------
(* BuffUart_Receive, called when BuffUart_DataInReceiveBuffer allows it *)

DataInReceiveBuffer == RxHead # RxTail

ReceiveWait ==
    /\ pc = "idle" /\ DataInReceiveBuffer
    /\ pc' = "storeTail"
    /\ UNCHANGED <<txVars, rxVars, hwVars>>

ReceiveStoreTail ==
    /\ pc = "storeTail"
    /\ RxTail' = RxNext(RxTail)
    /\ pc' = "readData"
    /\ UNCHANGED <<RxHead, RxBuf, arrived, received>>
    /\ UNCHANGED <<txVars, hwVars>>

\* tmptail still equals UART_RxTail, which only this function writes
ReceiveReadData ==
    /\ pc = "readData"
    /\ received' = Append(received, RxBuf[RxTail])
    /\ pc' = "idle"
    /\ UNCHANGED <<RxHead, RxTail, RxBuf, arrived>>
    /\ UNCHANGED <<txVars, hwVars>>

-----------------------------------------------------------------------------
(* Interrupt handlers and the hardware *)

\* Mutant: the interrupt is disabled after every byte
UdreInterruptOneShot ==
    /\ "UDRIE1" \in UCSR1B /\ udrEmpty
    /\ UCSR1B' = UCSR1B \ {"UDRIE1"}
    /\ IF TxHead # TxTail
         THEN /\ TxTail' = TxNext(TxTail)
              /\ wire' = Append(wire, TxBuf[TxNext(TxTail)])
              /\ udrEmpty' = FALSE
         ELSE UNCHANGED <<TxTail, wire, udrEmpty>>
    /\ UNCHANGED <<pc, TxHead, TxBuf, tmphead, ucsr1bCopy, accepted, rxVars>>

\* Mutant: the byte is read at the tail before it moves
UdreInterruptOldTail ==
    /\ "UDRIE1" \in UCSR1B /\ udrEmpty
    /\ IF TxHead # TxTail
         THEN /\ TxTail' = TxNext(TxTail)
              /\ wire' = Append(wire, TxBuf[TxTail])
              /\ udrEmpty' = FALSE
              /\ UNCHANGED UCSR1B
         ELSE /\ UCSR1B' = UCSR1B \ {"UDRIE1"}
              /\ UNCHANGED <<TxTail, wire, udrEmpty>>
    /\ UNCHANGED <<pc, TxHead, TxBuf, tmphead, ucsr1bCopy, accepted, rxVars>>

\* SIGNAL( USART1_UDRE_vect ), raised while the data register is empty
UdreInterrupt ==
    /\ "UDRIE1" \in UCSR1B /\ udrEmpty
    /\ IF TxHead # TxTail
         THEN /\ TxTail' = TxNext(TxTail)
              /\ wire' = Append(wire, TxBuf[TxNext(TxTail)])
              /\ udrEmpty' = FALSE
              /\ UNCHANGED UCSR1B
         ELSE /\ UCSR1B' = UCSR1B \ {"UDRIE1"}
              /\ UNCHANGED <<TxTail, wire, udrEmpty>>
    /\ UNCHANGED <<pc, TxHead, TxBuf, tmphead, ucsr1bCopy, accepted, rxVars>>

\* Mutant: the byte is stored at the head before it moves
RxInterruptOldHead ==
    /\ "RXCIE1" \in UCSR1B
    /\ arrived < MaxRx
    /\ RxHead' = RxNext(RxHead)
    /\ RxBuf' = [RxBuf EXCEPT ![RxHead] = arrived + 1]
    /\ arrived' = arrived + 1
    /\ UNCHANGED <<pc, RxTail, received, txVars, hwVars>>

\* Mutant: an overflow keeps the head but still stores the byte
RxInterruptKeepHead ==
    /\ "RXCIE1" \in UCSR1B
    /\ arrived < MaxRx
    /\ RxHead' = IF RxNext(RxHead) = RxTail THEN RxHead ELSE RxNext(RxHead)
    /\ RxBuf' = [RxBuf EXCEPT ![RxNext(RxHead)] = arrived + 1]
    /\ arrived' = arrived + 1
    /\ UNCHANGED <<pc, RxTail, received, txVars, hwVars>>

\* SIGNAL(USART1_RX_vect): a full ring is not refused, the head moves onto
\* and past the tail
RxInterrupt ==
    /\ "RXCIE1" \in UCSR1B
    /\ arrived < MaxRx
    /\ RxHead' = RxNext(RxHead)
    /\ RxBuf' = [RxBuf EXCEPT ![RxNext(RxHead)] = arrived + 1]
    /\ arrived' = arrived + 1
    /\ UNCHANGED <<pc, RxTail, received, txVars, hwVars>>

\* the shift register takes the byte out of UDR1
ShiftOut ==
    /\ ~udrEmpty
    /\ udrEmpty' = TRUE
    /\ UNCHANGED <<pc, txVars, rxVars, UCSR1B>>

Transmit ==
    \/ TransmitCall \/ TransmitWait \/ TransmitStoreData
    \/ TransmitStoreHead \/ TransmitLoadCtrl \/ TransmitStoreCtrl

Receive == ReceiveWait \/ ReceiveStoreTail \/ ReceiveReadData

Next == Transmit \/ Receive \/ UdreInterrupt \/ RxInterrupt \/ ShiftOut

Spec == Init /\ [][Next]_vars

\* The main program and the UART keep running, pending interrupts are served.
FairSpec ==
    /\ Spec
    /\ WF_vars(Transmit \/ Receive)
    /\ WF_vars(UdreInterrupt) /\ WF_vars(ShiftOut)

-----------------------------------------------------------------------------
(* The channel the transmit ring implements *)

\* How many bytes lie between tail and head
TxCount == IF TxHead >= TxTail THEN TxHead - TxTail
                               ELSE TxHead + TxSize - TxTail

\* The slot i places after the tail
TxSlot(i) == IF TxTail + i < TxSize THEN TxTail + i ELSE TxTail + i - TxSize

TxQueue == [i \in 1..TxCount |-> TxBuf[TxSlot(i)]]

LastOnWire == IF wire = <<>> THEN 0 ELSE wire[Len(wire)]

Channel == INSTANCE ByteFifo WITH
    Capacity <- TxSize - 1, queue <- TxQueue, last <- LastOnWire

-----------------------------------------------------------------------------
(* Properties *)

\* The ring indices stay inside the buffers and UCSR1B holds only its bits.
TypeOK ==
    /\ pc \in Locations
    /\ TxHead \in 0..TxSize-1 /\ TxTail \in 0..TxSize-1
    /\ tmphead \in 0..TxSize-1
    /\ TxBuf \in [0..TxSize-1 -> Nat]
    /\ UCSR1B \subseteq Bits /\ ucsr1bCopy \subseteq Bits
    /\ udrEmpty \in BOOLEAN
    /\ wire \in Seq(Nat) /\ accepted \in Nat
    /\ RxHead \in 0..RxSize-1 /\ RxTail \in 0..RxSize-1
    /\ RxBuf \in [0..RxSize-1 -> Nat]
    /\ arrived \in Nat /\ received \in Seq(Nat)

\* UDR1 gets the bytes given to BuffUart_Transmit in order, each once,
\* wherever the UDRE handler interrupts the main program.
TxInOrder == \A i \in 1..Len(wire) : wire[i] = i

\* The ring between tail and head holds exactly the bytes that are accepted
\* and not yet on the wire, and the slot being filled is outside it.
TxRingExact ==
    /\ Len(wire) + TxCount = accepted
    /\ \A i \in 1..TxCount : TxBuf[TxSlot(i)] = Len(wire) + i
    /\ pc \in {"waitSpace", "storeData", "storeHead"} => tmphead = TxNext(TxHead)
    /\ pc \in {"storeData", "storeHead"} => tmphead # TxTail
    /\ pc = "storeHead" => TxBuf[tmphead] = accepted + 1

\* A byte in the transmit ring is never stranded: unless the main program is
\* between storing the head and enabling the interrupt, a non-empty ring has
\* UDRIE1 set, in spite of the handler clearing it inside the main program's
\* load and store of UCSR1B.
NoLostWakeup ==
    TxHead # TxTail /\ pc \notin {"loadCtrl", "storeCtrl"} => "UDRIE1" \in UCSR1B

\* Even when arrivals overrun the receive ring, BuffUart_Receive never returns
\* a byte twice or an older byte after a newer one.
RxInOrder ==
    \A i \in 1..Len(received)-1 : received[i] < received[i+1]

\* The last byte the program has read
LastRead == IF received = <<>> THEN 0 ELSE received[Len(received)]

\* Nothing that arrives is lost before the ring is overrun: BuffUart_Receive
\* returns the byte after the last one it returned, unless more than RxSize
\* have arrived since.
RxLossless ==
    [][received' # received =>
         LastRead' = LastRead + 1 \/ arrived > LastRead + RxSize]_vars

\* The transmit ring refines a bounded FIFO of TxSize - 1 bytes: only a byte
\* whose head index is stored is handed over, and only from the front.
ImplementsChannel == Channel!Spec

\* Everything accepted reaches the wire, so a full ring never blocks
\* BuffUart_Transmit for good.
TxDrains == \A n \in 1..MaxTx : (accepted >= n) ~> (Len(wire) >= n)
=============================================================================
