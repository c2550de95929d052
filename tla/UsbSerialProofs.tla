-------------------------- MODULE UsbSerialProofs --------------------------
(***************************************************************************)
(* Theorems about UsbSerial for every size of the endpoints and every      *)
(* timeout, as long as usb_serial_write is called with single bytes (the   *)
(* display's program does not call it at all).                             *)
(***************************************************************************)
EXTENDS UsbSerial, TLAPS, SequenceTheorems

\* A call that transmits carries its one byte until it is stored
OneByte ==
    /\ pc \in {"enter", "loop", "wait", "online", "relock", "size", "fill"}
         => size = 1 /\ left = 1
    /\ pc = "seal" => size = 0

\* The room that was seen is still there; a bank is full only until sealed
Room ==
    /\ pc \in {"size", "fill", "seal"} /\ enabled => Len(txReady) < Banks
    /\ pc # "seal" => txFill < TxSize
    /\ Len(txReady) = Banks => txFill = 0

\* A handler interrupts only a caller with interrupts enabled
Handler == intbits # {} => I

\* Disabled endpoints are empty
Disabled == ~enabled => txFill = 0 /\ txReady = <<>> /\ rx = <<>>

IInv ==
    /\ TypeOK /\ OneByte /\ Room /\ Handler /\ Disabled /\ RegistersGuarded
    /\ TxExact /\ RxExact /\ FlushArmed /\ ShortPacketEnds /\ OfflineSeen

-----------------------------------------------------------------------------
(* The banks of an endpoint.                                               *)

\* A number of banks is 0, 1 or 2.
LEMMA BelowTwo == \A k \in Nat : k < 2 => k = 0 \/ k = 1
OBVIOUS
\* So is one that is not 0.
LEMMA UpToTwo == \A k \in Nat : k <= 2 /\ k # 0 => k \in 1..2
OBVIOUS

\* With no bank free both are waiting.
LEMMA AllTwo == \A k \in Nat : k <= 2 => k < 2 \/ k = 2
OBVIOUS

\* No packets hold no bytes.
LEMMA PacketsEmpty ==
    ASSUME NEW N \in Nat
    PROVE  <<>> \in Seq(0..N) /\ Len(<<>>) = 0 /\ PacketBytes(<<>>) = 0
BY DEF PacketBytes

\* The bytes of packets are a number.
LEMMA PacketsNat ==
    ASSUME NEW N \in Nat, NEW s \in Seq(0..N)
    PROVE  PacketBytes(s) \in Nat
<1>1. Len(s) \in Nat /\ \A i \in 1..Len(s) : s[i] \in Nat
  OBVIOUS
<1>2. (Len(s) > 0 => s[1] \in Nat) /\ (Len(s) > 1 => s[2] \in Nat)
  BY <1>1
<1> QED
  BY <1>2 DEF PacketBytes

\* A released packet adds its bytes.
LEMMA PacketsAppend ==
    ASSUME NEW N \in Nat, NEW s \in Seq(0..N), Len(s) < Banks, NEW n \in 0..N
    PROVE  /\ Append(s, n) \in Seq(0..N) /\ Len(Append(s, n)) = Len(s) + 1
           /\ Len(Append(s, n)) <= Banks
           /\ PacketBytes(Append(s, n)) = PacketBytes(s) + n
<1>1. /\ Append(s, n) \in Seq(0..N) /\ Len(Append(s, n)) = Len(s) + 1
      /\ \A i \in 1..Len(s) : Append(s, n)[i] = s[i]
      /\ Append(s, n)[Len(s) + 1] = n
  OBVIOUS
<1>2. Len(s) \in Nat /\ \A i \in 1..Len(s) : s[i] \in 0..N
  OBVIOUS
<1>3. Len(s) = 0 \/ (Len(s) = 1 /\ s[1] \in 0..N)
  <2>1. Len(s) = 0 \/ Len(s) = 1
    BY <1>2, BelowTwo DEF Banks
  <2> QED
    BY <1>2, <2>1
<1> QED
  BY <1>1, <1>3 DEF PacketBytes, Banks

\* A packet that goes takes its bytes with it.
LEMMA PacketsTail ==
    ASSUME NEW N \in Nat, NEW s \in Seq(0..N), s # <<>>, Len(s) <= Banks
    PROVE  /\ Tail(s) \in Seq(0..N) /\ Len(Tail(s)) = Len(s) - 1 /\ Len(Tail(s)) <= Banks
           /\ Head(s) \in 0..N
           /\ PacketBytes(Tail(s)) = PacketBytes(s) - Head(s)
<1>1. /\ Tail(s) \in Seq(0..N) /\ Len(Tail(s)) = Len(s) - 1 /\ Len(s) > 0
      /\ Head(s) = s[1]
      /\ \A i \in 1..(Len(s) - 1) : Tail(s)[i] = s[i + 1]
      /\ \A i \in 1..Len(s) : s[i] \in 0..N
  OBVIOUS
<1>2. Len(s) \in 1..2
  BY <1>1 DEF Banks
<1> QED
  BY <1>1, <1>2 DEF PacketBytes, Banks

\* A byte taken from the first packet leaves the others alone.
LEMMA PacketsTake ==
    ASSUME NEW N \in Nat, NEW s \in Seq(0..N), s # <<>>, Len(s) <= Banks, Head(s) > 1
    PROVE  /\ [s EXCEPT ![1] = @ - 1] \in Seq(0..N)
           /\ Len([s EXCEPT ![1] = @ - 1]) = Len(s)
           /\ PacketBytes([s EXCEPT ![1] = @ - 1]) = PacketBytes(s) - 1
<1> DEFINE t == [s EXCEPT ![1] = @ - 1]
<1>0. Len(s) \in Nat /\ Len(s) # 0 /\ Head(s) = s[1] /\ \A i \in 1..Len(s) : s[i] \in 0..N
  OBVIOUS
<1>1. Len(s) \in 1..2 /\ Head(s) = s[1] /\ \A i \in 1..Len(s) : s[i] \in 0..N
  BY <1>0, UpToTwo DEF Banks
<1>2. /\ t \in Seq(0..N) /\ Len(t) = Len(s) /\ t[1] = s[1] - 1
      /\ Len(s) = 2 => t[2] = s[2]
  BY <1>1
<1> QED
  BY <1>1, <1>2, SMTT(30) DEF PacketBytes

-----------------------------------------------------------------------------
(* The parts of the type invariant, and the release of a bank.             *)

DriverTypes ==
    /\ usb_configuration \in 0..1 /\ transmit_flush_timer \in 0..FlushTimeout
    /\ transmit_previous_timeout \in BOOLEAN
CallTypes ==
    /\ pc \in InMain /\ op \in {"none", "putchar", "nowait", "write"}
    /\ size \in Nat /\ left \in Nat /\ framesLeft \in 0..(FrameRange - 1)
InterruptTypes ==
    /\ I \in BOOLEAN /\ UENUM \in {0, ACM, RX, TX}
    /\ udint \in SUBSET Events /\ intbits \in SUBSET Events /\ resetLost \in BOOLEAN
    /\ enabled \in BOOLEAN /\ halted \in SUBSET {RX, TX}
    /\ polled \in BOOLEAN /\ events \in 0..MaxEvents
BankTypes ==
    /\ txFill \in 0..TxSize /\ txReady \in Seq(0..TxSize) /\ Len(txReady) <= Banks
    /\ lastFull \in BOOLEAN /\ skipped \in BOOLEAN
    /\ rx \in Seq(0..RxSize) /\ Len(rx) <= Banks
    /\ owed \in Int /\ due \in Int
\* Together they are the type invariant.
LEMMA TypeParts ==
    /\ TypeOK <=> DriverTypes /\ CallTypes /\ InterruptTypes /\ BankTypes
    /\ TypeOK' <=> DriverTypes' /\ CallTypes' /\ InterruptTypes' /\ BankTypes'
<1>1. TypeOK <=> DriverTypes /\ CallTypes /\ InterruptTypes /\ BankTypes
  BY Zenon DEF TypeOK, DriverTypes, CallTypes, InterruptTypes, BankTypes
<1>2. TypeOK' <=> DriverTypes' /\ CallTypes' /\ InterruptTypes' /\ BankTypes'
  BY Zenon DEF TypeOK, DriverTypes, CallTypes, InterruptTypes, BankTypes
<1> QED
  BY <1>1, <1>2

\* A reset endpoint has its types.
LEMMA EmptyBanks ==
    ASSUME txFill' = 0, txReady' = <<>>, rx' = <<>>, owed' = 0, due' = 0,
           lastFull' = FALSE, skipped' = FALSE
    PROVE  BankTypes'
<1>1. <<>> \in Seq(0..TxSize) /\ <<>> \in Seq(0..RxSize)
  BY PacketsEmpty, SizeAssumption
<1>2. txReady' \in Seq(0..TxSize) /\ rx' \in Seq(0..RxSize)
  BY <1>1
<1>3. Len(txReady') <= Banks /\ Len(rx') <= Banks
  BY DEF Banks
<1>4. txFill' \in 0..TxSize /\ owed' \in Int /\ due' \in Int
  BY SizeAssumption
<1>5. lastFull' \in BOOLEAN /\ skipped' \in BOOLEAN
  OBVIOUS
<1> QED
  BY <1>2, <1>3, <1>4, <1>5 DEF BankTypes

\* UEINTX = 0x3A loses no byte of the transmit endpoint.
LEMMA ReleaseTxExact ==
    ASSUME BankTypes, TxExact, enabled \in BOOLEAN, ReleaseTx, UNCHANGED owed
    PROVE  /\ txFill' \in 0..TxSize /\ txReady' \in Seq(0..TxSize) /\ Len(txReady') <= Banks
           /\ lastFull' \in BOOLEAN /\ skipped' \in BOOLEAN /\ TxExact'
           /\ TxCurrent => txFill' = 0 /\ lastFull' = (txFill = TxSize)
           /\ ~TxCurrent => UNCHANGED <<txFill, txReady, lastFull>> /\ skipped'
<1>1. CASE TxCurrent
  <2>1. Len(txReady) < Banks /\ txFill' = 0 /\ txReady' = Append(txReady, txFill)
        /\ lastFull' = (txFill = TxSize) /\ skipped' = FALSE
    BY <1>1 DEF TxCurrent, ReleaseTx
  <2>2. /\ Append(txReady, txFill) \in Seq(0..TxSize) /\ Len(Append(txReady, txFill)) <= Banks
        /\ PacketBytes(Append(txReady, txFill)) = PacketBytes(txReady) + txFill
    BY <2>1, PacketsAppend, SizeAssumption DEF BankTypes
  <2>3. PacketBytes(txReady') = PacketBytes(Append(txReady, txFill))
    BY <2>1
  <2>4. TxExact'
    <3>1. PacketBytes(txReady) \in Nat /\ txFill \in Nat
      BY PacketsNat, SizeAssumption DEF BankTypes
    <3> QED
      BY <2>1, <2>2, <2>3, <3>1 DEF TxExact
  <2>5. lastFull' \in BOOLEAN /\ skipped' \in BOOLEAN
    BY <2>1
  <2>6. txFill' \in 0..TxSize
    BY <2>1, SizeAssumption
  <2> QED
    BY <1>1, <2>1, <2>2, <2>4, <2>5, <2>6
<1>2. CASE ~TxCurrent
  BY <1>2 DEF BankTypes, TxExact, ReleaseTx
<1> QED
  BY <1>1, <1>2

\* Nor does a step that may release a bank.
LEMMA ReleaseBanks ==
    ASSUME IInv, ReleaseTx \/ UNCHANGED txBanks, UNCHANGED <<owed, rxBanks>>
    PROVE  BankTypes' /\ TxExact' /\ RxExact'
<1>1. BankTypes /\ TxExact /\ RxExact /\ enabled \in BOOLEAN
  BY TypeParts DEF IInv, InterruptTypes
<1>2. CASE ReleaseTx
  BY <1>1, <1>2, ReleaseTxExact DEF BankTypes, RxExact, rxBanks
<1>3. CASE UNCHANGED txBanks
  BY <1>1, <1>3 DEF BankTypes, TxExact, RxExact, txBanks, rxBanks
<1> QED
  BY <1>2, <1>3

\* What was not full before leaves an empty bank and no full packet behind.
LEMMA ReleaseEmpties ==
    ASSUME IInv, ReleaseTx
    PROVE  /\ txFill' = 0 /\ (pc # "seal" /\ lastFull' => skipped')
           /\ ~enabled => UNCHANGED txReady
<1>1. enabled \in BOOLEAN /\ txFill \in 0..TxSize /\ Len(txReady) \in Nat /\ Len(txReady) <= Banks
  BY DEF IInv, TypeOK
<1>2. CASE TxCurrent
  <2>1. txFill' = 0 /\ lastFull' = (txFill = TxSize) /\ enabled
    BY <1>2 DEF ReleaseTx, TxCurrent
  <2>2. pc # "seal" => txFill < TxSize
    BY DEF IInv, Room
  <2>3. pc # "seal" => txFill # TxSize
    BY <1>1, <2>2, SizeAssumption
  <2> QED
    BY <2>1, <2>3
<1>3. CASE ~TxCurrent
  <2>1. ~enabled \/ Len(txReady) = Banks
    BY <1>1, <1>3, AllTwo DEF TxCurrent, Banks
  <2> QED
    BY <1>3, <2>1 DEF ReleaseTx, IInv, Room, Disabled
<1> QED
  BY <1>2, <1>3

-----------------------------------------------------------------------------
(* Each action keeps the invariant.                                        *)

\* The test of usb_configuration starts a call with one byte.
LEMMA TransmitCallKeeps ==
    ASSUME IInv, NEW o \in {"putchar", "nowait", "write"}, TransmitCall(o, 1)
    PROVE  IInv'
BY SizeAssumption, TimeAssumption
   DEF TransmitCall, IInv, TypeOK, InMain, Events, ACM, RX, TX, Banks, OneByte, Room, Handler,
         Disabled, RegistersGuarded, TxExact, RxExact, FlushArmed, ShortPacketEnds, OfflineSeen,
         driver, args, interrupt, txBanks, rxBanks, host, Running

\* The prologue of putchar and write selects the endpoint with interrupts off.
LEMMA TransmitEnterKeeps ==
    ASSUME IInv, TransmitEnter
    PROVE  IInv'
<1> USE SizeAssumption, TimeAssumption
        DEF TransmitEnter, Return, TxRoom, TxCurrent, RwalSet, RwalClear, RxBytes, IInv,
            TypeOK, InMain, Events, ACM, RX, TX, Banks,
            driver, args, interrupt, txBanks, rxBanks, host, Running
<1>1. TypeOK'
  <2>1. DriverTypes'
    BY DEF DriverTypes
  <2>2. CallTypes'
    BY DEF CallTypes, OneByte
  <2>3. InterruptTypes'
    BY DEF InterruptTypes
  <2>4. BankTypes'
    BY DEF BankTypes
  <2> QED
    BY <2>1, <2>2, <2>3, <2>4, TypeParts
<1>2. OneByte' /\ Handler' /\ RegistersGuarded'
  BY DEF OneByte, Handler, RegistersGuarded
<1>3. Room' /\ Disabled'
  BY DEF OneByte, Room, Disabled, RegistersGuarded
<1>4. TxExact' /\ RxExact'
  BY DEF Room, RegistersGuarded, Disabled, TxExact, RxExact
<1>5. FlushArmed' /\ ShortPacketEnds' /\ OfflineSeen'
  BY DEF Room, RegistersGuarded, Disabled, FlushArmed, ShortPacketEnds, OfflineSeen
<1> QED
  BY <1>1, <1>2, <1>3, <1>4, <1>5

\* putchar_nowait goes on only with room.
LEMMA NowaitEnterKeeps ==
    ASSUME IInv, NowaitEnter
    PROVE  IInv'
<1> USE SizeAssumption, TimeAssumption
        DEF NowaitEnter, Return, Store, TxRoom, TxCurrent, RwalSet, RwalClear, RxBytes, IInv,
            TypeOK, InMain, Events, ACM, RX, TX, Banks,
            driver, args, interrupt, txBanks, rxBanks, host, Running
<1>1. TypeOK'
  <2>1. DriverTypes'
    BY DEF DriverTypes
  <2>2. CallTypes'
    BY DEF CallTypes, OneByte
  <2>3. InterruptTypes'
    BY DEF InterruptTypes
  <2>4. BankTypes'
    BY DEF BankTypes
  <2> QED
    BY <2>1, <2>2, <2>3, <2>4, TypeParts
<1>2. OneByte' /\ Handler' /\ RegistersGuarded'
  BY DEF OneByte, Handler, RegistersGuarded
<1>3. Room' /\ Disabled'
  BY DEF OneByte, Room, Disabled, RegistersGuarded
<1>4. TxExact' /\ RxExact'
  BY DEF Room, RegistersGuarded, Disabled, TxExact, RxExact
<1>5. FlushArmed' /\ ShortPacketEnds' /\ OfflineSeen'
  BY DEF Room, RegistersGuarded, Disabled, FlushArmed, ShortPacketEnds, OfflineSeen
<1> QED
  BY <1>1, <1>2, <1>3, <1>4, <1>5

\* The first look at the endpoint.
LEMMA TransmitLoopKeeps ==
    ASSUME IInv, TransmitLoop
    PROVE  IInv'
<1> USE SizeAssumption, TimeAssumption
        DEF TransmitLoop, Store, TxRoom, TxCurrent, RwalSet, RwalClear, RxBytes, IInv,
            TypeOK, InMain, Events, ACM, RX, TX, Banks,
            driver, args, interrupt, txBanks, rxBanks, host, Running
<1>1. TypeOK'
  <2>1. DriverTypes'
    BY DEF DriverTypes
  <2>2. CallTypes'
    BY DEF CallTypes, OneByte
  <2>3. InterruptTypes'
    BY DEF InterruptTypes
  <2>4. BankTypes'
    BY DEF BankTypes
  <2> QED
    BY <2>1, <2>2, <2>3, <2>4, TypeParts
<1>2. OneByte' /\ Handler' /\ RegistersGuarded'
  BY DEF OneByte, Handler, RegistersGuarded
<1>3. Room' /\ Disabled'
  BY DEF OneByte, Room, Disabled, RegistersGuarded
<1>4. TxExact' /\ RxExact'
  BY DEF Room, RegistersGuarded, Disabled, TxExact, RxExact
<1>5. FlushArmed' /\ ShortPacketEnds' /\ OfflineSeen'
  BY DEF Room, RegistersGuarded, Disabled, FlushArmed, ShortPacketEnds, OfflineSeen
<1> QED
  BY <1>1, <1>2, <1>3, <1>4, <1>5

\* The look at the clock.
LEMMA WaitTimeoutKeeps ==
    ASSUME IInv, WaitTimeout
    PROVE  IInv'
<1> USE SizeAssumption, TimeAssumption
        DEF WaitTimeout, Return, IInv, TypeOK, InMain, Events, ACM, RX, TX, Banks,
            driver, args, interrupt, txBanks, rxBanks, host, Running
<1>1. TypeOK'
  <2>1. DriverTypes'
    BY DEF DriverTypes
  <2>2. CallTypes'
    BY DEF CallTypes, OneByte
  <2>3. InterruptTypes'
    BY DEF InterruptTypes
  <2>4. BankTypes'
    BY DEF BankTypes
  <2> QED
    BY <2>1, <2>2, <2>3, <2>4, TypeParts
<1>2. OneByte' /\ Handler' /\ RegistersGuarded'
  BY DEF OneByte, Handler, RegistersGuarded
<1>3. Room' /\ Disabled'
  BY DEF OneByte, Room, Disabled, RegistersGuarded
<1>4. TxExact' /\ RxExact'
  BY DEF Room, RegistersGuarded, Disabled, TxExact, RxExact
<1>5. FlushArmed' /\ ShortPacketEnds' /\ OfflineSeen'
  BY DEF Room, RegistersGuarded, Disabled, FlushArmed, ShortPacketEnds, OfflineSeen
<1> QED
  BY <1>1, <1>2, <1>3, <1>4, <1>5

\* The look at the configuration.
LEMMA WaitOnlineKeeps ==
    ASSUME IInv, WaitOnline
    PROVE  IInv'
<1> USE SizeAssumption, TimeAssumption
        DEF WaitOnline, Return, IInv, TypeOK, InMain, Events, ACM, RX, TX, Banks,
            driver, args, interrupt, txBanks, rxBanks, host, Running
<1>1. TypeOK'
  <2>1. DriverTypes'
    BY DEF DriverTypes
  <2>2. CallTypes'
    BY DEF CallTypes, OneByte
  <2>3. InterruptTypes'
    BY DEF InterruptTypes
  <2>4. BankTypes'
    BY DEF BankTypes
  <2> QED
    BY <2>1, <2>2, <2>3, <2>4, TypeParts
<1>2. OneByte' /\ Handler' /\ RegistersGuarded'
  BY DEF OneByte, Handler, RegistersGuarded
<1>3. Room' /\ Disabled'
  BY DEF OneByte, Room, Disabled, RegistersGuarded
<1>4. TxExact' /\ RxExact'
  BY DEF Room, RegistersGuarded, Disabled, TxExact, RxExact
<1>5. FlushArmed' /\ ShortPacketEnds' /\ OfflineSeen'
  BY DEF Room, RegistersGuarded, Disabled, FlushArmed, ShortPacketEnds, OfflineSeen
<1> QED
  BY <1>1, <1>2, <1>3, <1>4, <1>5

\* The look at the endpoint in the wait loop.
LEMMA WaitReadyKeeps ==
    ASSUME IInv, WaitReady
    PROVE  IInv'
<1> USE SizeAssumption, TimeAssumption
        DEF WaitReady, Store, TxRoom, TxCurrent, RwalSet, RwalClear, RxBytes, IInv, TypeOK,
            InMain, Events, ACM, RX, TX, Banks,
            driver, args, interrupt, txBanks, rxBanks, host, Running
<1>1. TypeOK'
  <2>1. DriverTypes'
    BY DEF DriverTypes
  <2>2. CallTypes'
    BY DEF CallTypes, OneByte
  <2>3. InterruptTypes'
    BY DEF InterruptTypes
  <2>4. BankTypes'
    BY DEF BankTypes
  <2> QED
    BY <2>1, <2>2, <2>3, <2>4, TypeParts
<1>2. OneByte' /\ Handler' /\ RegistersGuarded'
  BY DEF OneByte, Handler, RegistersGuarded
<1>3. Room' /\ Disabled'
  BY DEF OneByte, Room, Disabled, RegistersGuarded
<1>4. TxExact' /\ RxExact'
  BY DEF Room, RegistersGuarded, Disabled, TxExact, RxExact
<1>5. FlushArmed' /\ ShortPacketEnds' /\ OfflineSeen'
  BY DEF Room, RegistersGuarded, Disabled, FlushArmed, ShortPacketEnds, OfflineSeen
<1> QED
  BY <1>1, <1>2, <1>3, <1>4, <1>5

\* The byte fits into the packet.
LEMMA PacketSizeKeeps ==
    ASSUME IInv, PacketSize
    PROVE  IInv'
BY SizeAssumption, TimeAssumption
   DEF PacketSize, UEBCLX, IInv, TypeOK, InMain, Events, ACM, RX, TX, Banks, OneByte, Room,
       Handler,
         Disabled, RegistersGuarded, TxExact, RxExact, FlushArmed, ShortPacketEnds, OfflineSeen,
         driver, args, interrupt, txBanks, rxBanks, host, Running

\* The byte goes into the current bank.
LEMMA StoreByteKeeps ==
    ASSUME IInv, StoreByte
    PROVE  IInv'
<1>0. PacketBytes(txReady) \in Nat /\ PacketBytes(txReady') = PacketBytes(txReady)
  BY PacketsNat, SizeAssumption DEF StoreByte, IInv, TypeOK
<1> USE SizeAssumption, TimeAssumption
        DEF StoreByte, TxRoom, TxCurrent, RwalSet, RwalClear, RxBytes, IInv, TypeOK, InMain,
            Events, ACM, RX, TX, Banks,
            driver, args, interrupt, txBanks, rxBanks, host, Running
<1>1. TypeOK'
  <2>1. DriverTypes'
    BY DEF DriverTypes
  <2>2. CallTypes'
    BY DEF CallTypes, OneByte
  <2>3. InterruptTypes'
    BY DEF InterruptTypes
  <2>4. BankTypes'
    BY DEF BankTypes
  <2> QED
    BY <2>1, <2>2, <2>3, <2>4, TypeParts
<1>2. OneByte' /\ Handler' /\ RegistersGuarded'
  BY DEF OneByte, Handler, RegistersGuarded
<1>3. Room' /\ Disabled'
  BY SMTT(30) DEF OneByte, Room, Disabled, RegistersGuarded
<1>4. TxExact' /\ RxExact'
  BY <1>0 DEF Room, RegistersGuarded, TxExact, RxExact
<1>5. FlushArmed' /\ ShortPacketEnds' /\ OfflineSeen'
  BY DEF Room, RegistersGuarded, Disabled, FlushArmed, ShortPacketEnds, OfflineSeen
<1> QED
  BY <1>1, <1>2, <1>3, <1>4, <1>5

\* A full bank is released.
LEMMA SealKeeps ==
    ASSUME IInv, Seal
    PROVE  IInv'
<1>0. /\ ReleaseTx \/ UNCHANGED txBanks
      /\ UNCHANGED <<owed, rxBanks>>
  BY DEF IInv, RegistersGuarded, Seal, Running, ReleaseBank, RX, TX, rxBanks
<1>a. BankTypes' /\ TxExact' /\ RxExact'
  BY <1>0, ReleaseBanks
<1> USE SizeAssumption, TimeAssumption
        DEF Seal, Return, ReleaseBank, ReleaseTx, TxRoom, TxCurrent, RwalSet, RwalClear,
            RxBytes, IInv, TypeOK, InMain, Events, ACM, RX, TX, Banks,
            driver, args, interrupt, txBanks, rxBanks, host, Running
<1>1. TypeOK'
  <2>1. DriverTypes'
    BY DEF DriverTypes
  <2>2. CallTypes'
    BY DEF CallTypes, OneByte
  <2>3. InterruptTypes'
    BY DEF InterruptTypes
  <2>4. BankTypes'
    BY <1>a
  <2> QED
    BY <2>1, <2>2, <2>3, <2>4, TypeParts
<1>2. OneByte' /\ Handler' /\ RegistersGuarded'
  BY DEF OneByte, Handler, RegistersGuarded
<1>3. Room' /\ Disabled'
  BY DEF OneByte, Room, Disabled, RegistersGuarded
<1>4. TxExact' /\ RxExact'
  BY <1>a
<1>5. FlushArmed' /\ ShortPacketEnds' /\ OfflineSeen'
  BY DEF Room, RegistersGuarded, Disabled, FlushArmed, ShortPacketEnds, OfflineSeen
<1> QED
  BY <1>1, <1>2, <1>3, <1>4, <1>5

\* flush_output releases what there is.
LEMMA FlushOutputKeeps ==
    ASSUME IInv, FlushOutput
    PROVE  IInv'
<1>b. /\ txFill' = 0 /\ (pc # "seal" /\ lastFull' => skipped')
      /\ ~enabled => UNCHANGED txReady
  BY ReleaseEmpties DEF FlushOutput
<1>a. BankTypes' /\ TxExact' /\ RxExact'
  BY ReleaseBanks DEF FlushOutput
<1> USE SizeAssumption, TimeAssumption
        DEF FlushOutput, IInv, TypeOK, InMain, Events, ACM, RX, TX, Banks,
            driver, args, interrupt, txBanks, rxBanks, host, Running
<1>1. TypeOK'
  <2>1. DriverTypes'
    BY DEF DriverTypes
  <2>2. CallTypes'
    BY DEF CallTypes, OneByte
  <2>3. InterruptTypes'
    BY DEF InterruptTypes
  <2>4. BankTypes'
    BY <1>a
  <2> QED
    BY <2>1, <2>2, <2>3, <2>4, TypeParts
<1>2. OneByte' /\ Handler' /\ RegistersGuarded'
  BY DEF OneByte, Handler, RegistersGuarded
<1>3. Room' /\ Disabled'
  BY <1>b DEF OneByte, Room, Disabled
<1>4. TxExact' /\ RxExact'
  BY <1>a
<1>5. FlushArmed' /\ ShortPacketEnds' /\ OfflineSeen'
  BY <1>b DEF FlushArmed, ShortPacketEnds, OfflineSeen
<1> QED
  BY <1>1, <1>2, <1>3, <1>4, <1>5

\* The notification leaves the data endpoints alone.
LEMMA SetControlKeeps ==
    ASSUME IInv, SetControl
    PROVE  IInv'
BY SizeAssumption, TimeAssumption
   DEF SetControl, IInv, TypeOK, InMain, Events, ACM, RX, TX, Banks, OneByte, Room, Handler,
         Disabled, RegistersGuarded, TxExact, RxExact, FlushArmed, ShortPacketEnds, OfflineSeen,
         driver, args, interrupt, txBanks, rxBanks, host, Running

\* A receiving call selects its endpoint with interrupts off.
LEMMA ReceiveEnterKeeps ==
    ASSUME IInv, NEW place \in {"getchar", "available"}, ReceiveEnter(place)
    PROVE  IInv'
<1> USE SizeAssumption, TimeAssumption
        DEF ReceiveEnter, IInv, TypeOK, InMain, Events, ACM, RX, TX, Banks,
            driver, args, interrupt, txBanks, rxBanks, host, Running
<1>1. TypeOK'
  <2>1. DriverTypes'
    BY DEF DriverTypes
  <2>2. CallTypes'
    BY DEF CallTypes, OneByte
  <2>3. InterruptTypes'
    BY DEF InterruptTypes
  <2>4. BankTypes'
    BY DEF BankTypes
  <2> QED
    BY <2>1, <2>2, <2>3, <2>4, TypeParts
<1>2. OneByte' /\ Handler' /\ RegistersGuarded'
  BY DEF OneByte, Handler, RegistersGuarded
<1>3. Room' /\ Disabled'
  BY DEF OneByte, Room, Disabled, RegistersGuarded
<1>4. TxExact' /\ RxExact'
  BY DEF Room, RegistersGuarded, Disabled, TxExact, RxExact
<1>5. FlushArmed' /\ ShortPacketEnds' /\ OfflineSeen'
  BY DEF Room, RegistersGuarded, Disabled, FlushArmed, ShortPacketEnds, OfflineSeen
<1> QED
  BY <1>1, <1>2, <1>3, <1>4, <1>5

\* An empty packet is given back.
LEMMA GetcharRetryKeeps ==
    ASSUME IInv, GetcharRetry
    PROVE  IInv'
BY SizeAssumption, TimeAssumption, PacketsTail
   DEF GetcharRetry, RxBytes, IInv, TypeOK, InMain, Events, ACM, RX, TX, Banks, OneByte,
       Room, Handler,
         Disabled, RegistersGuarded, TxExact, RxExact, FlushArmed, ShortPacketEnds, OfflineSeen,
         driver, args, interrupt, txBanks, rxBanks, host, Running

\* A byte is returned.
LEMMA GetcharTakeKeeps ==
    ASSUME IInv, GetcharTake
    PROVE  IInv'
<1>0. /\ rx' \in Seq(0..RxSize) /\ Len(rx') <= Banks
      /\ PacketBytes(rx') = PacketBytes(rx) - 1
  <2>0. rx # <<>> /\ rx \in Seq(0..RxSize) /\ Len(rx) <= Banks /\ Head(rx) > 0
        /\ RxBytes = Head(rx)
    BY DEF IInv, TypeOK, GetcharTake, RxBytes
  <2>1. CASE Head(rx) = 1
    <3>1. rx' = Tail(rx)
      BY <2>0, <2>1 DEF GetcharTake
    <3> QED
      BY <2>0, <2>1, <3>1, PacketsTail, SizeAssumption
  <2>2. CASE Head(rx) # 1
    <3>1. rx' = [rx EXCEPT ![1] = @ - 1]
      BY <2>0, <2>2 DEF GetcharTake
    <3>2. Head(rx) > 1
      BY <2>0, <2>2, PacketsTail, SizeAssumption
    <3> QED
      BY <2>0, <3>1, <3>2, PacketsTake, SizeAssumption
  <2> QED
    BY <2>1, <2>2
<1> USE SizeAssumption, TimeAssumption
        DEF GetcharTake, RxBytes, ReceiveDone, Return, IInv, TypeOK, InMain, Events, ACM, RX,
            TX, Banks,
            driver, args, interrupt, txBanks, rxBanks, host, Running
<1>1. TypeOK'
  <2>1. DriverTypes'
    BY DEF DriverTypes
  <2>2. CallTypes'
    BY DEF CallTypes, OneByte
  <2>3. InterruptTypes'
    BY DEF InterruptTypes
  <2>4. BankTypes'
    BY <1>0 DEF BankTypes
  <2> QED
    BY <2>1, <2>2, <2>3, <2>4, TypeParts
<1>2. OneByte' /\ Handler' /\ RegistersGuarded'
  BY DEF OneByte, Handler, RegistersGuarded
<1>3. Room' /\ Disabled'
  BY DEF OneByte, Room, Disabled, RegistersGuarded
<1>4. TxExact' /\ RxExact'
  BY <1>0, PacketsNat DEF TxExact, RxExact
<1>5. FlushArmed' /\ ShortPacketEnds' /\ OfflineSeen'
  BY DEF Room, RegistersGuarded, Disabled, FlushArmed, ShortPacketEnds, OfflineSeen
<1> QED
  BY <1>1, <1>2, <1>3, <1>4, <1>5

\* There is nothing to return.
LEMMA GetcharNoneKeeps ==
    ASSUME IInv, GetcharNone
    PROVE  IInv'
BY SizeAssumption, TimeAssumption
   DEF GetcharNone, ReceiveDone, Return, IInv, TypeOK, InMain, Events, ACM, RX, TX, Banks,
       OneByte, Room, Handler,
         Disabled, RegistersGuarded, TxExact, RxExact, FlushArmed, ShortPacketEnds, OfflineSeen,
         driver, args, interrupt, txBanks, rxBanks, host, Running

\* The count of usb_serial_available.
LEMMA AvailableCallKeeps ==
    ASSUME IInv, AvailableCall
    PROVE  IInv'
<1> USE SizeAssumption, TimeAssumption
        DEF AvailableCall, ReceiveEnter, IInv, TypeOK, InMain, Events, ACM, RX, TX, Banks,
            driver, args, interrupt, txBanks, rxBanks, host, Running
<1>1. TypeOK'
  <2>1. DriverTypes'
    BY DEF DriverTypes
  <2>2. CallTypes'
    BY DEF CallTypes, OneByte
  <2>3. InterruptTypes'
    BY DEF InterruptTypes
  <2>4. BankTypes'
    BY DEF BankTypes
  <2> QED
    BY <2>1, <2>2, <2>3, <2>4, TypeParts
<1>2. OneByte' /\ Handler' /\ RegistersGuarded'
  BY DEF OneByte, Handler, RegistersGuarded
<1>3. Room' /\ Disabled'
  BY DEF OneByte, Room, Disabled, RegistersGuarded
<1>4. TxExact' /\ RxExact'
  BY DEF Room, RegistersGuarded, Disabled, TxExact, RxExact
<1>5. FlushArmed' /\ ShortPacketEnds' /\ OfflineSeen'
  BY DEF Room, RegistersGuarded, Disabled, FlushArmed, ShortPacketEnds, OfflineSeen
<1> QED
  BY <1>1, <1>2, <1>3, <1>4, <1>5

\* The flags of usb_serial_available.
LEMMA AvailableReleaseKeeps ==
    ASSUME IInv, AvailableRelease
    PROVE  IInv'
<1> USE SizeAssumption, TimeAssumption, PacketsTail
        DEF AvailableRelease, RxBytes, ReceiveDone, Return, IInv, TypeOK, InMain, Events,
            ACM, RX, TX, Banks,
            driver, args, interrupt, txBanks, rxBanks, host, Running
<1>1. TypeOK'
  <2>1. DriverTypes'
    BY DEF DriverTypes
  <2>2. CallTypes'
    BY DEF CallTypes, OneByte
  <2>3. InterruptTypes'
    BY DEF InterruptTypes
  <2>4. BankTypes'
    BY DEF BankTypes
  <2> QED
    BY <2>1, <2>2, <2>3, <2>4, TypeParts
<1>2. OneByte' /\ Handler' /\ RegistersGuarded'
  BY DEF OneByte, Handler, RegistersGuarded
<1>3. Room' /\ Disabled'
  BY DEF OneByte, Room, Disabled, RegistersGuarded
<1>4. TxExact' /\ RxExact'
  BY DEF Room, RegistersGuarded, Disabled, TxExact, RxExact
<1>5. FlushArmed' /\ ShortPacketEnds' /\ OfflineSeen'
  BY DEF Room, RegistersGuarded, Disabled, FlushArmed, ShortPacketEnds, OfflineSeen
<1> QED
  BY <1>1, <1>2, <1>3, <1>4, <1>5

\* flush_input tests the configuration.
LEMMA FlushInputCallKeeps ==
    ASSUME IInv, FlushInputCall
    PROVE  IInv'
BY SizeAssumption, TimeAssumption
   DEF FlushInputCall, IInv, TypeOK, InMain, Events, ACM, RX, TX, Banks, OneByte, Room, Handler,
         Disabled, RegistersGuarded, TxExact, RxExact, FlushArmed, ShortPacketEnds, OfflineSeen,
         driver, args, interrupt, txBanks, rxBanks, host, Running

\* flush_input selects its endpoint with interrupts off.
LEMMA FlushInputEnterKeeps ==
    ASSUME IInv, FlushInputEnter
    PROVE  IInv'
<1> USE SizeAssumption, TimeAssumption
        DEF FlushInputEnter, IInv, TypeOK, InMain, Events, ACM, RX, TX, Banks,
            driver, args, interrupt, txBanks, rxBanks, host, Running
<1>1. TypeOK'
  <2>1. DriverTypes'
    BY DEF DriverTypes
  <2>2. CallTypes'
    BY DEF CallTypes, OneByte
  <2>3. InterruptTypes'
    BY DEF InterruptTypes
  <2>4. BankTypes'
    BY DEF BankTypes
  <2> QED
    BY <2>1, <2>2, <2>3, <2>4, TypeParts
<1>2. OneByte' /\ Handler' /\ RegistersGuarded'
  BY DEF OneByte, Handler, RegistersGuarded
<1>3. Room' /\ Disabled'
  BY DEF OneByte, Room, Disabled, RegistersGuarded
<1>4. TxExact' /\ RxExact'
  BY DEF Room, RegistersGuarded, Disabled, TxExact, RxExact
<1>5. FlushArmed' /\ ShortPacketEnds' /\ OfflineSeen'
  BY DEF Room, RegistersGuarded, Disabled, FlushArmed, ShortPacketEnds, OfflineSeen
<1> QED
  BY <1>1, <1>2, <1>3, <1>4, <1>5

\* A packet is discarded.
LEMMA FlushInputPacketKeeps ==
    ASSUME IInv, FlushInputPacket
    PROVE  IInv'
BY SizeAssumption, TimeAssumption, PacketsTail, SMTT(30)
   DEF FlushInputPacket, RxBytes, IInv, TypeOK, InMain, Events, ACM, RX, TX, Banks, OneByte,
       Room, Handler,
         Disabled, RegistersGuarded, TxExact, RxExact, FlushArmed, ShortPacketEnds, OfflineSeen,
         driver, args, interrupt, txBanks, rxBanks, host, Running

\* Nothing is left to discard.
LEMMA FlushInputDoneKeeps ==
    ASSUME IInv, FlushInputDone
    PROVE  IInv'
BY SizeAssumption, TimeAssumption
   DEF FlushInputDone, ReceiveDone, Return, IInv, TypeOK, InMain, Events, ACM, RX, TX, Banks,
       OneByte, Room, Handler,
         Disabled, RegistersGuarded, TxExact, RxExact, FlushArmed, ShortPacketEnds, OfflineSeen,
         driver, args, interrupt, txBanks, rxBanks, host, Running

\* The handler reads the flags.
LEMMA GenReadKeeps ==
    ASSUME IInv, GenRead
    PROVE  IInv'
BY SizeAssumption, TimeAssumption
   DEF GenRead, IInv, TypeOK, InMain, Events, ACM, RX, TX, Banks, OneByte, Room, Handler,
         Disabled, RegistersGuarded, TxExact, RxExact, FlushArmed, ShortPacketEnds, OfflineSeen,
         driver, args, interrupt, txBanks, rxBanks, host, Running

\* A bus reset is handled.
LEMMA GenResetKeeps ==
    ASSUME IInv, GenHandle, GenReset
    PROVE  IInv'
<1> USE SizeAssumption, TimeAssumption
        DEF GenHandle, GenReset, IInv, TypeOK, InMain, Events, ACM, RX, TX, Banks,
            driver, args, interrupt, txBanks, rxBanks, host, Running
<1>1. TypeOK'
  <2>1. DriverTypes'
    BY DEF DriverTypes
  <2>2. CallTypes'
    BY DEF CallTypes, OneByte
  <2>3. InterruptTypes'
    BY DEF InterruptTypes
  <2>4. BankTypes'
    BY DEF BankTypes
  <2> QED
    BY <2>1, <2>2, <2>3, <2>4, TypeParts
<1>2. OneByte' /\ Handler' /\ RegistersGuarded'
  BY DEF OneByte, Handler, RegistersGuarded
<1>3. Room' /\ Disabled'
  BY DEF OneByte, Room, Disabled, RegistersGuarded
<1>4. TxExact' /\ RxExact'
  BY DEF Room, RegistersGuarded, Disabled, TxExact, RxExact
<1>5. FlushArmed' /\ ShortPacketEnds' /\ OfflineSeen'
  BY DEF Room, RegistersGuarded, Disabled, FlushArmed, ShortPacketEnds, OfflineSeen
<1> QED
  BY <1>1, <1>2, <1>3, <1>4, <1>5

\* A frame is handled.
LEMMA GenFrameKeeps ==
    ASSUME IInv, GenHandle, GenFrame
    PROVE  IInv'
<1>b. \/ /\ txFill' = 0 /\ (pc # "seal" /\ lastFull' => skipped')
         /\ ~enabled => UNCHANGED txReady
      \/ UNCHANGED txBanks /\ (transmit_flush_timer' = 0 => transmit_flush_timer = 0 \/ usb_configuration = 0)
  BY ReleaseEmpties, TimeAssumption DEF GenHandle, GenFrame, IInv, TypeOK
<1>0. /\ ReleaseTx \/ UNCHANGED txBanks
      /\ UNCHANGED <<owed, rxBanks>>
  BY DEF GenHandle, GenFrame
<1>a. BankTypes' /\ TxExact' /\ RxExact'
  BY <1>0, ReleaseBanks
<1> USE SizeAssumption, TimeAssumption
        DEF GenHandle, GenFrame, IInv, TypeOK, InMain, Events, ACM, RX, TX, Banks,
            driver, args, interrupt, txBanks, rxBanks, host, Running
<1>1. TypeOK'
  <2>1. DriverTypes'
    BY DEF DriverTypes
  <2>2. CallTypes'
    BY DEF CallTypes, OneByte
  <2>3. InterruptTypes'
    BY DEF InterruptTypes
  <2>4. BankTypes'
    BY <1>a
  <2> QED
    BY <2>1, <2>2, <2>3, <2>4, TypeParts
<1>2. OneByte' /\ Handler' /\ RegistersGuarded'
  BY DEF OneByte, Handler, RegistersGuarded
<1>3. Room' /\ Disabled'
  BY <1>b DEF Room, Handler, Disabled, RegistersGuarded
<1>4. TxExact' /\ RxExact'
  BY <1>a
<1>5. FlushArmed' /\ ShortPacketEnds' /\ OfflineSeen'
  <2>1. FlushArmed'
    BY <1>b DEF FlushArmed
  <2>2. ShortPacketEnds'
    BY <1>b DEF ShortPacketEnds, Handler, RegistersGuarded
  <2>3. OfflineSeen'
    BY DEF OfflineSeen
  <2> QED
    BY <2>1, <2>2, <2>3
<1> QED
  BY <1>1, <1>2, <1>3, <1>4, <1>5

\* A configuration starts with empty endpoints.
LEMMA SetConfigurationKeeps ==
    ASSUME IInv, NEW value \in 0..1, SetConfiguration(value)
    PROVE  IInv'
<1>0. /\ <<>> \in Seq(0..TxSize) /\ <<>> \in Seq(0..RxSize) /\ Len(<<>>) = 0
      /\ PacketBytes(<<>>) = 0
  BY PacketsEmpty, SizeAssumption
<1>a. /\ txFill' = 0 /\ txReady' = <<>> /\ rx' = <<>> /\ owed' = 0 /\ due' = 0
      /\ lastFull' = FALSE /\ skipped' = FALSE
  BY DEF SetConfiguration, ClearTx, ClearRx
<1>b. BankTypes'
  BY <1>a, EmptyBanks
<1>c. halted' \subseteq {RX, TX}
  BY DEF SetConfiguration, IInv, TypeOK
<1>d. /\ enabled' \in BOOLEAN /\ resetLost' \in BOOLEAN /\ events' \in 0..MaxEvents
      /\ udint' \in SUBSET Events /\ UNCHANGED <<I, intbits, polled>>
  <2>1. enabled' \in BOOLEAN /\ resetLost' \in BOOLEAN
    BY DEF SetConfiguration, IInv, TypeOK
  <2>2. events' \in 0..MaxEvents
    BY TimeAssumption DEF SetConfiguration, Request, Count, IInv, TypeOK
  <2>3. udint' \in SUBSET Events /\ UNCHANGED <<I, intbits, polled>>
    BY DEF SetConfiguration, Request, IInv, TypeOK, Events
  <2> QED
    BY <2>1, <2>2, <2>3
<1> USE SizeAssumption, TimeAssumption
        DEF SetConfiguration, Request, Count, ClearTx, ClearRx, IInv, TypeOK, InMain, Events,
            ACM, RX, TX, Banks,
            driver, args, interrupt, txBanks, rxBanks, host, Running
<1>1. TypeOK'
  <2>1. DriverTypes'
    BY DEF DriverTypes
  <2>2. CallTypes'
    BY DEF CallTypes, OneByte
  <2>3. InterruptTypes'
    BY <1>c, <1>d DEF InterruptTypes
  <2>4. BankTypes'
    BY <1>b
  <2> QED
    BY <2>1, <2>2, <2>3, <2>4, TypeParts
<1>2. OneByte' /\ Handler' /\ RegistersGuarded'
  BY DEF OneByte, Handler, RegistersGuarded
<1>3. Room' /\ Disabled'
  BY DEF OneByte, Room, Disabled, RegistersGuarded
<1>4. TxExact' /\ RxExact'
  BY <1>0 DEF TxExact, RxExact
<1>5. FlushArmed' /\ ShortPacketEnds' /\ OfflineSeen'
  BY DEF Room, RegistersGuarded, Disabled, FlushArmed, ShortPacketEnds, OfflineSeen
<1> QED
  BY <1>1, <1>2, <1>3, <1>4, <1>5

\* A halt comes with interrupts on.
LEMMA SetHaltKeeps ==
    ASSUME IInv, NEW e \in {RX, TX}, SetHalt(e)
    PROVE  IInv'
BY SizeAssumption, TimeAssumption
   DEF SetHalt, Request, Count, IInv, TypeOK, InMain, Events, ACM, RX, TX, Banks, OneByte,
       Room, Handler,
         Disabled, RegistersGuarded, TxExact, RxExact, FlushArmed, ShortPacketEnds, OfflineSeen,
         driver, args, interrupt, txBanks, rxBanks, host, Running

\* The end of a halt empties the endpoint.
LEMMA ClearHaltKeeps ==
    ASSUME IInv, NEW e \in {RX, TX}, ClearHalt(e)
    PROVE  IInv'
<1>0. /\ <<>> \in Seq(0..TxSize) /\ <<>> \in Seq(0..RxSize) /\ Len(<<>>) = 0
      /\ PacketBytes(<<>>) = 0
  BY PacketsEmpty, SizeAssumption
<1>a. /\ \/ txFill' = 0 /\ txReady' = <<>> /\ owed' = 0
         \/ UNCHANGED <<txFill, txReady, owed>>
      /\ \/ rx' = <<>> /\ due' = 0
         \/ UNCHANGED <<rx, due>>
      /\ UNCHANGED <<lastFull, skipped>>
  BY DEF ClearHalt, ClearTx, ClearRx, rxBanks
<1>b. BankTypes'
  <2>1. BankTypes
    BY TypeParts DEF IInv
  <2>2. txFill' \in 0..TxSize /\ owed' \in Int /\ due' \in Int
    BY <1>a, <2>1, SizeAssumption DEF BankTypes
  <2>3. Len(txReady') <= Banks
    BY <1>0, <1>a, <2>1 DEF BankTypes, Banks
  <2>4. txReady' \in Seq(0..TxSize) /\ rx' \in Seq(0..RxSize)
    BY <1>0, <1>a, <2>1, Zenon DEF BankTypes
  <2>5. Len(rx') <= Banks
    BY <1>0, <1>a, <2>1 DEF BankTypes, Banks
  <2>6. lastFull' \in BOOLEAN /\ skipped' \in BOOLEAN
    BY <1>a, <2>1 DEF BankTypes
  <2> QED
    BY <2>2, <2>3, <2>4, <2>5, <2>6 DEF BankTypes
<1>c. halted' \subseteq {RX, TX}
  BY DEF ClearHalt, IInv, TypeOK
<1> USE SizeAssumption, TimeAssumption
        DEF ClearHalt, Request, Count, ClearTx, ClearRx, IInv, TypeOK, InMain, Events, ACM,
            RX, TX, Banks,
            driver, args, interrupt, txBanks, rxBanks, host, Running
<1>1. TypeOK'
  <2>1. DriverTypes'
    BY DEF DriverTypes
  <2>2. CallTypes'
    BY DEF CallTypes, OneByte
  <2>3. InterruptTypes'
    BY <1>c DEF InterruptTypes
  <2>4. BankTypes'
    BY <1>b
  <2> QED
    BY <2>1, <2>2, <2>3, <2>4, TypeParts
<1>2. OneByte' /\ Handler' /\ RegistersGuarded'
  BY DEF OneByte, Handler, RegistersGuarded
<1>3. Room' /\ Disabled'
  BY DEF OneByte, Room, Disabled, RegistersGuarded
<1>4. TxExact' /\ RxExact'
  BY <1>0 DEF TxExact, RxExact
<1>5. FlushArmed' /\ ShortPacketEnds' /\ OfflineSeen'
  BY DEF Room, RegistersGuarded, Disabled, FlushArmed, ShortPacketEnds, OfflineSeen
<1> QED
  BY <1>1, <1>2, <1>3, <1>4, <1>5

\* Other requests only select endpoint 0.
LEMMA OtherRequestKeeps ==
    ASSUME IInv, OtherRequest
    PROVE  IInv'
BY SizeAssumption, TimeAssumption
   DEF OtherRequest, Request, Count, IInv, TypeOK, InMain, Events, ACM, RX, TX, Banks,
       OneByte, Room, Handler,
         Disabled, RegistersGuarded, TxExact, RxExact, FlushArmed, ShortPacketEnds, OfflineSeen,
         driver, args, interrupt, txBanks, rxBanks, host, Running

\* A frame only moves the clock.
LEMMA FrameKeeps ==
    ASSUME IInv, Frame
    PROVE  IInv'
<1> USE SizeAssumption, TimeAssumption
        DEF Frame, Waiting, IInv, TypeOK, InMain, Events, ACM, RX, TX, Banks,
            driver, args, interrupt, txBanks, rxBanks, host, Running
<1>1. TypeOK'
  <2>1. DriverTypes'
    BY DEF DriverTypes
  <2>2. CallTypes'
    BY DEF CallTypes, OneByte
  <2>3. InterruptTypes'
    BY DEF InterruptTypes
  <2>4. BankTypes'
    BY DEF BankTypes
  <2> QED
    BY <2>1, <2>2, <2>3, <2>4, TypeParts
<1>2. OneByte' /\ Handler' /\ RegistersGuarded'
  BY DEF OneByte, Handler, RegistersGuarded
<1>3. Room' /\ Disabled'
  BY DEF OneByte, Room, Disabled, RegistersGuarded
<1>4. TxExact' /\ RxExact'
  BY DEF Room, RegistersGuarded, Disabled, TxExact, RxExact
<1>5. FlushArmed' /\ ShortPacketEnds' /\ OfflineSeen'
  BY DEF Room, RegistersGuarded, Disabled, FlushArmed, ShortPacketEnds, OfflineSeen
<1> QED
  BY <1>1, <1>2, <1>3, <1>4, <1>5

\* A bus reset empties the endpoints.
LEMMA BusResetKeeps ==
    ASSUME IInv, BusReset
    PROVE  IInv'
<1>0. /\ <<>> \in Seq(0..TxSize) /\ <<>> \in Seq(0..RxSize) /\ Len(<<>>) = 0
      /\ PacketBytes(<<>>) = 0
  BY PacketsEmpty, SizeAssumption
<1>b. BankTypes'
  BY <1>0, SizeAssumption DEF BusReset, ClearTx, ClearRx, IInv, TypeOK, BankTypes, Banks,
      txBanks, rxBanks
<1>c. halted' \subseteq {RX, TX}
  BY DEF BusReset, IInv, TypeOK
<1>d. /\ enabled' \in BOOLEAN /\ resetLost' \in BOOLEAN /\ events' \in 0..MaxEvents
      /\ udint' \in SUBSET Events /\ UNCHANGED <<I, intbits, polled>>
  <2>1. enabled' \in BOOLEAN /\ resetLost' \in BOOLEAN
    BY DEF BusReset, IInv, TypeOK
  <2>2. events' \in 0..MaxEvents
    BY TimeAssumption DEF BusReset, Request, Count, IInv, TypeOK
  <2>3. udint' \in SUBSET Events /\ UNCHANGED <<I, intbits, polled>>
    BY DEF BusReset, Request, IInv, TypeOK, Events
  <2> QED
    BY <2>1, <2>2, <2>3
<1> USE SizeAssumption, TimeAssumption
        DEF BusReset, Count, ClearTx, ClearRx, IInv, TypeOK, InMain, Events, ACM, RX, TX, Banks,
            driver, args, interrupt, txBanks, rxBanks, host, Running
<1>1. TypeOK'
  <2>1. DriverTypes'
    BY DEF DriverTypes
  <2>2. CallTypes'
    BY DEF CallTypes, OneByte
  <2>3. InterruptTypes'
    BY <1>c, <1>d DEF InterruptTypes
  <2>4. BankTypes'
    BY <1>b
  <2> QED
    BY <2>1, <2>2, <2>3, <2>4, TypeParts
<1>2. OneByte' /\ Handler' /\ RegistersGuarded'
  BY DEF OneByte, Handler, RegistersGuarded
<1>3. Room' /\ Disabled'
  BY DEF OneByte, Room, Disabled, RegistersGuarded
<1>4. TxExact' /\ RxExact'
  BY <1>0 DEF TxExact, RxExact
<1>5. FlushArmed' /\ ShortPacketEnds' /\ OfflineSeen'
  BY DEF Room, RegistersGuarded, Disabled, FlushArmed, ShortPacketEnds, OfflineSeen
<1> QED
  BY <1>1, <1>2, <1>3, <1>4, <1>5

\* The host takes a packet.
LEMMA HostReadKeeps ==
    ASSUME IInv, HostRead
    PROVE  IInv'
<1>0. /\ PacketBytes(txReady') = PacketBytes(txReady) - Head(txReady)
      /\ Head(txReady) \in 0..TxSize /\ PacketBytes(txReady) \in Nat
      /\ Len(txReady') = Len(txReady) - 1 /\ Len(txReady) \in Nat
  BY PacketsTail, PacketsNat, SizeAssumption DEF HostRead, IInv, TypeOK
<1>b. TxExact'
  <2>1. owed = txFill + PacketBytes(txReady) /\ owed' = owed - Head(txReady) /\ txFill' = txFill
        /\ txFill \in Nat
    BY SizeAssumption DEF IInv, TxExact, TypeOK, HostRead
  <2> QED
    BY <1>0, <2>1, SizeAssumption DEF TxExact
<1>c. Len(txReady') # Banks
  <2>1. Len(txReady) <= Banks
    BY DEF IInv, TypeOK
  <2>2. Len(txReady') = Len(txReady) - 1 /\ Len(txReady) \in Nat
    BY <1>0
  <2>3. \A k \in Nat : k <= 2 => k - 1 # 2
    OBVIOUS
  <2> QED
    BY <2>1, <2>2, <2>3 DEF Banks
<1> USE SizeAssumption, TimeAssumption, PacketsTail
        DEF HostRead, IInv, TypeOK, InMain, Events, ACM, RX, TX, Banks,
            driver, args, interrupt, txBanks, rxBanks, host, Running
<1>1. TypeOK'
  <2>1. DriverTypes'
    BY DEF DriverTypes
  <2>2. CallTypes'
    BY DEF CallTypes, OneByte
  <2>3. InterruptTypes'
    BY DEF InterruptTypes
  <2>4. BankTypes'
    BY DEF BankTypes
  <2> QED
    BY <2>1, <2>2, <2>3, <2>4, TypeParts
<1>2. OneByte' /\ Handler' /\ RegistersGuarded'
  BY DEF OneByte, Handler, RegistersGuarded
<1>3. Room' /\ Disabled'
  BY <1>0, <1>c, SMTT(30) DEF OneByte, Room, Disabled, RegistersGuarded
<1>4. TxExact' /\ RxExact'
  BY <1>b DEF RxExact
<1>5. FlushArmed' /\ ShortPacketEnds' /\ OfflineSeen'
  BY DEF Room, RegistersGuarded, Disabled, FlushArmed, ShortPacketEnds, OfflineSeen
<1> QED
  BY <1>1, <1>2, <1>3, <1>4, <1>5

\* The host sends a packet.
LEMMA HostSendKeeps ==
    ASSUME IInv, NEW n \in 0..RxSize, HostSend(n)
    PROVE  IInv'
<1> USE SizeAssumption, TimeAssumption, PacketsAppend
        DEF HostSend, Count, IInv, TypeOK, InMain, Events, ACM, RX, TX, Banks,
            driver, args, interrupt, txBanks, rxBanks, host, Running
<1>1. TypeOK'
  <2>1. DriverTypes'
    BY DEF DriverTypes
  <2>2. CallTypes'
    BY DEF CallTypes, OneByte
  <2>3. InterruptTypes'
    BY DEF InterruptTypes
  <2>4. BankTypes'
    BY DEF BankTypes
  <2> QED
    BY <2>1, <2>2, <2>3, <2>4, TypeParts
<1>2. OneByte' /\ Handler' /\ RegistersGuarded'
  BY DEF OneByte, Handler, RegistersGuarded
<1>3. Room' /\ Disabled'
  BY DEF OneByte, Room, Disabled, RegistersGuarded
<1>4. TxExact' /\ RxExact'
  BY DEF Room, RegistersGuarded, Disabled, TxExact, RxExact
<1>5. FlushArmed' /\ ShortPacketEnds' /\ OfflineSeen'
  BY DEF Room, RegistersGuarded, Disabled, FlushArmed, ShortPacketEnds, OfflineSeen
<1> QED
  BY <1>1, <1>2, <1>3, <1>4, <1>5

-----------------------------------------------------------------------------
(* The theorems.                                                           *)

\* After usb_init nothing is configured and the endpoints are empty.
LEMMA InitInv == Init => IInv
<1> SUFFICES ASSUME Init PROVE IInv
  OBVIOUS
<1> USE SizeAssumption, TimeAssumption DEF Init
<1>0. /\ <<>> \in Seq(0..TxSize) /\ <<>> \in Seq(0..RxSize) /\ Len(<<>>) = 0
      /\ PacketBytes(<<>>) = 0
  BY PacketsEmpty
<1>1. DriverTypes /\ CallTypes
  <2>1. usb_configuration \in 0..1 /\ transmit_flush_timer \in 0..FlushTimeout
    OBVIOUS
  <2>2. transmit_previous_timeout \in BOOLEAN
    OBVIOUS
  <2>3. framesLeft \in 0..(FrameRange - 1)
    OBVIOUS
  <2>4. size \in Nat /\ left \in Nat /\ pc \in InMain /\ op \in {"none", "putchar", "nowait",
  "write"}
    BY DEF InMain
  <2> QED
    BY <2>1, <2>2, <2>3, <2>4 DEF DriverTypes, CallTypes
<1>2. InterruptTypes
  <2>1. /\ I \in BOOLEAN /\ resetLost \in BOOLEAN /\ enabled \in BOOLEAN /\ polled \in BOOLEAN
    OBVIOUS
  <2>2. udint \in SUBSET Events /\ intbits \in SUBSET Events /\ halted \in SUBSET {RX, TX}
    OBVIOUS
  <2>3. events \in 0..MaxEvents /\ UENUM \in {0, ACM, RX, TX}
    OBVIOUS
  <2> QED
    BY <2>1, <2>2, <2>3 DEF InterruptTypes
<1>3. BankTypes
  <2>1. txReady \in Seq(0..TxSize) /\ rx \in Seq(0..RxSize)
    BY <1>0
  <2>2. Len(txReady) <= Banks /\ Len(rx) <= Banks
    BY DEF Banks
  <2>3. txFill \in 0..TxSize /\ owed \in Int /\ due \in Int
    OBVIOUS
  <2>4. lastFull \in BOOLEAN /\ skipped \in BOOLEAN
    OBVIOUS
  <2> QED
    BY <2>1, <2>2, <2>3, <2>4 DEF BankTypes
<1>4. OneByte /\ Room /\ Handler /\ Disabled /\ RegistersGuarded
  BY DEF OneByte, Room, Handler, Disabled, RegistersGuarded, Banks
<1>5. TxExact /\ RxExact
  BY <1>0 DEF TxExact, RxExact
<1>6. FlushArmed /\ ShortPacketEnds /\ OfflineSeen
  BY DEF FlushArmed, ShortPacketEnds, OfflineSeen
<1> QED
  BY <1>1, <1>2, <1>3, <1>4, <1>5, <1>6, TypeParts DEF IInv

\* A step that changes nothing keeps the invariant.
LEMMA StutterKeeps ==
    ASSUME IInv, UNCHANGED vars
    PROVE  IInv'
BY DEF vars, IInv, TypeOK, OneByte, Room, Handler, Disabled, RegistersGuarded, TxExact,
       RxExact, FlushArmed, ShortPacketEnds, OfflineSeen, TxCurrent,
       driver, args, interrupt, txBanks, rxBanks, host

\* Every step keeps the invariant while single bytes are written.
LEMMA NextKeeps ==
    ASSUME WriteSizes \subseteq {1}, IInv, [Next]_vars
    PROVE  IInv'
<1>1. CASE InCall
  BY <1>1, TransmitEnterKeeps, NowaitEnterKeeps, TransmitLoopKeeps, WaitTimeoutKeeps,
     WaitOnlineKeeps, WaitReadyKeeps, PacketSizeKeeps, StoreByteKeeps, SealKeeps,
     GetcharRetryKeeps, GetcharTakeKeeps, GetcharNoneKeeps, AvailableReleaseKeeps,
     FlushInputEnterKeeps, FlushInputPacketKeeps, FlushInputDoneKeeps
     DEF InCall
<1>2. CASE Call
  <2>1. CASE \E n \in WriteSizes : TransmitCall("write", n)
    BY <2>1, TransmitCallKeeps
  <2> QED
    BY <1>2, <2>1, TransmitCallKeeps, FlushOutputKeeps, SetControlKeeps, ReceiveEnterKeeps,
       AvailableCallKeeps, FlushInputCallKeeps
       DEF Call, GetcharCall
<1>3. CASE Interrupt
  <2>1. CASE GenHandle
    BY <2>1, GenResetKeeps, GenFrameKeeps DEF GenHandle
  <2> QED
    BY <1>3, <2>1, GenReadKeeps DEF Interrupt
<1>4. CASE Control
  BY <1>4, SetConfigurationKeeps, SetHaltKeeps, ClearHaltKeeps, OtherRequestKeeps DEF Control
<1>5. CASE Host
  BY <1>5, FrameKeeps, BusResetKeeps, HostReadKeeps, HostSendKeeps DEF Host
<1> QED
  BY <1>1, <1>2, <1>3, <1>4, <1>5, StutterKeeps DEF Next

\* The invariant holds in every behaviour of a program that writes single
\* bytes, for all endpoint sizes and timeouts.
LEMMA Invariance == ASSUME WriteSizes \subseteq {1} PROVE Spec => []IInv
<1>1. IInv /\ [Next]_vars => IInv'
  BY NextKeeps
<1> QED
  BY <1>1, InitInv, PTL DEF Spec

\* Every variable of the driver and the controller keeps its type; the flush
\* timer does not go below 0 and no packet exceeds its bank.
THEOREM TypeCorrect == ASSUME WriteSizes \subseteq {1} PROVE Spec => []TypeOK
<1>1. IInv => TypeOK
  BY DEF IInv
<1> QED
  BY <1>1, Invariance, PTL

\* No byte that a transmit function of usb_serial.c took is lost, and none
\* is sent twice.
THEOREM BytesSent == ASSUME WriteSizes \subseteq {1} PROVE Spec => []TxExact
<1>1. IInv => TxExact
  BY DEF IInv
<1> QED
  BY <1>1, Invariance, PTL

\* No byte the host sent is lost before a caller has taken or discarded it.
THEOREM BytesReceived == ASSUME WriteSizes \subseteq {1} PROVE Spec => []RxExact
<1>1. IInv => RxExact
  BY DEF IInv
<1> QED
  BY <1>1, Invariance, PTL

\* The flush timer runs whenever a partly filled packet waits.
THEOREM FlushTimerRuns == ASSUME WriteSizes \subseteq {1} PROVE Spec => []FlushArmed
<1>1. IInv => FlushArmed
  BY DEF IInv
<1> QED
  BY <1>1, Invariance, PTL

\* A full last packet is followed by a short one, unless both banks were
\* waiting when the flush timer ran out.
THEOREM TransferEnds == ASSUME WriteSizes \subseteq {1} PROVE Spec => []ShortPacketEnds
<1>1. IInv => ShortPacketEnds
  BY DEF IInv
<1> QED
  BY <1>1, Invariance, PTL

\* usb_configuration tells of every bus reset that did not fall between the
\* handler's read and clear of UDINT.
THEOREM ResetSeen == ASSUME WriteSizes \subseteq {1} PROVE Spec => []OfflineSeen
<1>1. IInv => OfflineSeen
  BY DEF IInv
<1> QED
  BY <1>1, Invariance, PTL

\* The endpoint registers are only used with interrupts off and the right
\* endpoint selected.
THEOREM RegistersSafe == ASSUME WriteSizes \subseteq {1} PROVE Spec => []RegistersGuarded
<1>1. IInv => RegistersGuarded
  BY DEF IInv
<1> QED
  BY <1>1, Invariance, PTL
=============================================================================
