----------------------------- MODULE UsbSerial -----------------------------
(***************************************************************************)
(* usb_serial.c: the USB serial driver of the display.  The main program   *)
(* calls the API, the interrupts USB_GEN (bus reset, start of frame) and   *)
(* USB_COM (control requests) run whenever interrupts are enabled, and the *)
(* host moves packets at any moment.                                       *)
(*                                                                         *)
(* The order of the bytes inside an endpoint is the controller's business, *)
(* so a packet is its number of bytes.  Both bulk endpoints have two banks:*)
(* txFill is the bank being filled and txReady the packets released to the *)
(* host; rx holds what is left of each received packet, 0 for a packet     *)
(* that is used up or was empty.  Two histories count what a caller is     *)
(* told: owed, the bytes written less those the host took or a reset of    *)
(* the endpoint dropped; due, the bytes the host sent less those returned  *)
(* to a caller, discarded on request or dropped by a reset.                *)
(***************************************************************************)
EXTENDS Integers, Sequences, FiniteSets

CONSTANTS
    TxSize, RxSize,     \* CDC_TX_SIZE, CDC_RX_SIZE
    FlushTimeout,       \* TRANSMIT_FLUSH_TIMEOUT, in frames
    Timeout,            \* TRANSMIT_TIMEOUT, in frames
    FrameRange,         \* values of UDFNUML
    WriteSizes,         \* sizes usb_serial_write is called with
    PromptPolls,        \* the wait loop tests UDFNUML in every frame
    MaxEvents           \* bound on requests, resets and packets of the host

ASSUME SizeAssumption == TxSize \in Nat \ {0} /\ RxSize \in Nat \ {0}
ASSUME TimeAssumption ==
    /\ FlushTimeout \in Nat \ {0} /\ FrameRange \in Nat /\ Timeout \in 1..(FrameRange - 1)
    /\ PromptPolls \in BOOLEAN /\ MaxEvents \in Nat
ASSUME WriteAssumption == WriteSizes \subseteq Nat \ {0}

ACM == 2
RX == 3
TX == 4
Banks == 2              \* EP_DOUBLE_BUFFER
Events == {"EORSTI", "SOFI"}

VARIABLES
    \* the driver's variables and the caller's place in the API
    usb_configuration, transmit_flush_timer, transmit_previous_timeout,
    pc, op, size, left, framesLeft,
    \* the controller
    I, UENUM, udint, intbits, enabled, halted, txFill, txReady, rx,
    \* histories, and what the host and the clock have done
    owed, due, lastFull, skipped, resetLost, polled, events

driver == <<usb_configuration, transmit_flush_timer, transmit_previous_timeout>>
args == <<op, size, left, framesLeft>>
interrupt == <<udint, intbits, resetLost>>
txBanks == <<txFill, txReady, lastFull, skipped>>
rxBanks == <<rx, due>>
host == <<enabled, halted, polled, events>>
vars == <<driver, pc, args, I, UENUM, interrupt, txBanks, owed, rxBanks, host>>

InMain == {"main", "enter", "loop", "wait", "online", "relock", "size", "fill", "seal",
           "getchar", "available", "flush", "discard"}
Waiting == {"wait", "online", "relock"}

TypeOK ==
    /\ usb_configuration \in 0..1
    /\ transmit_flush_timer \in 0..FlushTimeout
    /\ transmit_previous_timeout \in BOOLEAN
    /\ pc \in InMain /\ op \in {"none", "putchar", "nowait", "write"}
    /\ size \in Nat /\ left \in Nat /\ framesLeft \in 0..(FrameRange - 1)
    /\ I \in BOOLEAN /\ UENUM \in {0, ACM, RX, TX}
    /\ udint \in SUBSET Events /\ intbits \in SUBSET Events
    /\ enabled \in BOOLEAN /\ halted \in SUBSET {RX, TX}
    /\ txFill \in 0..TxSize /\ txReady \in Seq(0..TxSize) /\ Len(txReady) <= Banks
    /\ rx \in Seq(0..RxSize) /\ Len(rx) <= Banks
    /\ owed \in Int /\ due \in Int
    /\ lastFull \in BOOLEAN /\ skipped \in BOOLEAN /\ resetLost \in BOOLEAN
    /\ polled \in BOOLEAN /\ events \in 0..MaxEvents

\* The state after usb_init(): attached, not configured.
Init ==
    /\ usb_configuration = 0
    /\ transmit_flush_timer = 0 /\ transmit_previous_timeout = FALSE
    /\ pc = "main" /\ op = "none" /\ size = 0 /\ left = 0 /\ framesLeft = 0
    /\ I = TRUE /\ UENUM = 0 /\ udint = {} /\ intbits = {}
    /\ enabled = FALSE /\ halted = {} /\ txFill = 0 /\ txReady = <<>>
    /\ rx = <<>> /\ owed = 0 /\ due = 0
    /\ lastFull = FALSE /\ skipped = FALSE /\ resetLost = FALSE
    /\ polled = FALSE /\ events = 0

-----------------------------------------------------------------------------
(* The controller's registers.  RWAL of a bulk IN endpoint: a bank is      *)
(* current and not full; of an OUT endpoint: the current bank holds bytes. *)
(* What the other endpoints show is left open.                             *)

RxBytes == IF rx = <<>> THEN 0 ELSE Head(rx)
TxCurrent == enabled /\ Len(txReady) < Banks
TxRoom == TxCurrent /\ txFill < TxSize
RwalSet(e) == (e = TX => TxRoom) /\ (e = RX => RxBytes > 0)
RwalClear(e) == (e = TX => ~TxRoom) /\ (e = RX => RxBytes = 0)
UEBCLX(e) == IF e = TX THEN {txFill} ELSE 0..TxSize

\* UEINTX = 0x3A on the transmit endpoint: the current bank goes to the
\* host, whatever it holds; nothing happens when no bank is free.
ReleaseTx ==
    IF TxCurrent
    THEN /\ txReady' = Append(txReady, txFill) /\ txFill' = 0
         /\ lastFull' = (txFill = TxSize) /\ skipped' = FALSE
    ELSE /\ skipped' = TRUE
         /\ UNCHANGED <<txReady, txFill, lastFull>>
\* The same write when another endpoint is selected: an OUT endpoint gives
\* its bank back to the host.
ReleaseBank(e) ==
    /\ IF e = TX THEN ReleaseTx ELSE UNCHANGED txBanks
    /\ rx' = IF e = RX /\ rx # <<>> THEN Tail(rx) ELSE rx

\* All endpoint memories are reset.
ClearTx == txFill' = 0 /\ txReady' = <<>> /\ owed' = 0
ClearRx == rx' = <<>> /\ due' = 0

-----------------------------------------------------------------------------
(* Transmitting.  usb_serial_putchar and usb_serial_write share their      *)
(* prologue and their wait loop; usb_serial_putchar_nowait does not wait.  *)
(* The caller runs while no interrupt handler does.                        *)

Running(place) == intbits = {} /\ pc = place
Return ==
    /\ pc' = "main" /\ I' = TRUE
    /\ op' = "none" /\ size' = 0 /\ left' = 0 /\ framesLeft' = 0
Store == pc' = (IF op = "write" THEN "size" ELSE "fill")

\* The test of usb_configuration, made before interrupts are disabled.
TransmitCall(o, n) ==
    /\ Running("main") /\ usb_configuration # 0
    /\ op' = o /\ size' = n /\ left' = 1 /\ pc' = "enter"
    /\ UNCHANGED <<framesLeft, driver, I, UENUM, interrupt, txBanks, owed, rxBanks, host>>

\* cli(), the endpoint selected, and no second wait after a timeout.
TransmitEnter ==
    /\ Running("enter") /\ op # "nowait"
    /\ UENUM' = TX
    /\ \/ /\ transmit_previous_timeout /\ ~TxRoom
          /\ Return /\ UNCHANGED transmit_previous_timeout
       \/ /\ transmit_previous_timeout => TxRoom
          /\ transmit_previous_timeout' = FALSE
          /\ pc' = "loop" /\ I' = FALSE /\ UNCHANGED args
    /\ UNCHANGED <<usb_configuration, transmit_flush_timer, interrupt, txBanks, owed,
                   rxBanks, host>>

\* Mutant: the endpoint's room is not looked at
NowaitEnterUnchecked ==
    /\ Running("enter") /\ op = "nowait"
    /\ UENUM' = TX /\ Store /\ I' = FALSE
    /\ UNCHANGED <<args, driver, interrupt, txBanks, owed, rxBanks, host>>

NowaitEnter ==
    /\ Running("enter") /\ op = "nowait"
    /\ UENUM' = TX
    /\ \/ ~TxRoom /\ Return
       \/ TxRoom /\ Store /\ I' = FALSE /\ UNCHANGED args
    /\ UNCHANGED <<driver, interrupt, txBanks, owed, rxBanks, host>>

\* The start of a packet: the timeout is set and the first look taken.  For
\* the second packet of usb_serial_write interrupts are enabled here and the
\* endpoint is the one the last interrupt handler left selected.
TransmitLoop ==
    /\ Running("loop")
    /\ framesLeft' = Timeout /\ polled' = FALSE
    /\ \/ RwalSet(UENUM) /\ Store /\ UNCHANGED I
       \/ RwalClear(UENUM) /\ pc' = "wait" /\ I' = TRUE
    /\ UNCHANGED <<op, size, left, driver, UENUM, interrupt, txBanks, owed, rxBanks,
                   enabled, halted, events>>

\* UDFNUML == timeout, usb_configuration, then RWAL again: interrupts are
\* enabled until the last of the three.
WaitTimeout ==
    /\ Running("wait")
    /\ polled' = TRUE
    /\ \/ framesLeft = 0 /\ transmit_previous_timeout' = TRUE /\ Return
       \/ /\ framesLeft # 0 /\ pc' = "online"
          /\ UNCHANGED <<args, I, transmit_previous_timeout>>
    /\ UNCHANGED <<usb_configuration, transmit_flush_timer, UENUM, interrupt, txBanks,
                   owed, rxBanks, enabled, halted, events>>
WaitOnline ==
    /\ Running("online")
    /\ \/ usb_configuration = 0 /\ Return
       \/ usb_configuration # 0 /\ pc' = "relock" /\ UNCHANGED <<args, I>>
    /\ UNCHANGED <<driver, UENUM, interrupt, txBanks, owed, rxBanks, host>>
\* Mutant: the endpoint is not selected again after the wait
WaitReadyUnselected ==
    /\ Running("relock")
    /\ \/ RwalSet(UENUM) /\ Store /\ I' = FALSE
       \/ RwalClear(UENUM) /\ pc' = "wait" /\ I' = TRUE
    /\ UNCHANGED <<args, driver, UENUM, interrupt, txBanks, owed, rxBanks, host>>
\* Mutant: the timeout starts again in every round of the loop
WaitReadyRestarts ==
    /\ Running("relock")
    /\ UENUM' = TX
    /\ \/ TxRoom /\ Store /\ I' = FALSE
       \/ ~TxRoom /\ pc' = "wait" /\ I' = TRUE
    /\ framesLeft' = Timeout
    /\ UNCHANGED <<op, size, left, driver, interrupt, txBanks, owed, rxBanks, host>>
WaitReady ==
    /\ Running("relock")
    /\ UENUM' = TX
    /\ \/ TxRoom /\ Store /\ I' = FALSE
       \/ ~TxRoom /\ pc' = "wait" /\ I' = TRUE
    /\ UNCHANGED <<args, driver, interrupt, txBanks, owed, rxBanks, host>>

\* How many bytes of the buffer fit into the packet (usb_serial_write).
PacketSize ==
    /\ Running("size")
    /\ \E n \in UEBCLX(UENUM) :
         /\ left' = IF TxSize - n < size THEN TxSize - n ELSE size
         /\ pc' = IF left' = 0 THEN "seal" ELSE "fill"
    /\ UNCHANGED <<op, size, framesLeft, driver, I, UENUM, interrupt, txBanks, owed,
                   rxBanks, host>>

\* UEDATX = c: the byte goes to the endpoint that is selected.  A bus reset
\* that has just disabled the endpoints takes this byte with the others.
StoreByte ==
    /\ Running("fill")
    /\ txFill' = IF UENUM = TX /\ TxRoom THEN txFill + 1 ELSE txFill
    /\ owed' = IF enabled THEN owed + 1 ELSE owed
    /\ size' = size - 1 /\ left' = left - 1
    /\ pc' = IF left = 1 THEN "seal" ELSE "fill"
    /\ UNCHANGED <<op, framesLeft, driver, I, UENUM, interrupt, txReady, lastFull,
                   skipped, rxBanks, host>>

\* Mutant: the flush timer is only started for a packet that is released
SealLazy ==
    /\ Running("seal") /\ size = 0
    /\ \/ /\ RwalClear(UENUM) /\ ReleaseBank(UENUM)
          /\ transmit_flush_timer' = FlushTimeout
       \/ RwalSet(UENUM) /\ UNCHANGED <<txBanks, rx, transmit_flush_timer>>
    /\ Return
    /\ UNCHANGED <<usb_configuration, transmit_previous_timeout, UENUM, interrupt, owed,
                   due, host>>

\* A full packet is released, the flush timer starts again; then the next
\* packet of the buffer, or the return.
Seal ==
    /\ Running("seal")
    /\ \/ RwalClear(UENUM) /\ ReleaseBank(UENUM)
       \/ RwalSet(UENUM) /\ UNCHANGED <<txBanks, rx>>
    /\ transmit_flush_timer' = FlushTimeout
    /\ \/ size = 0 /\ Return
       \/ size # 0 /\ pc' = "loop" /\ I' = TRUE /\ UNCHANGED args
    /\ UNCHANGED <<usb_configuration, transmit_previous_timeout, UENUM, interrupt, owed,
                   due, host>>

\* usb_serial_flush_output
FlushOutput ==
    /\ Running("main") /\ transmit_flush_timer # 0
    /\ UENUM' = TX /\ ReleaseTx /\ transmit_flush_timer' = 0
    /\ UNCHANGED <<pc, args, usb_configuration, transmit_previous_timeout, I, interrupt,
                   owed, rxBanks, host>>

\* usb_serial_set_control; the notification it sends is not followed further.
SetControl ==
    /\ Running("main") /\ usb_configuration # 0
    /\ UENUM' = ACM
    /\ UNCHANGED <<pc, args, driver, I, interrupt, txBanks, owed, rxBanks, host>>

-----------------------------------------------------------------------------
(* Receiving.                                                              *)

\* cli(), the test of usb_configuration and the endpoint selected.
ReceiveEnter(place) ==
    /\ Running("main") /\ usb_configuration # 0
    /\ UENUM' = RX /\ I' = FALSE /\ pc' = place
    /\ UNCHANGED <<args, driver, interrupt, txBanks, owed, rxBanks, host>>
ReceiveDone ==
    /\ Return
    /\ UNCHANGED <<driver, UENUM, interrupt, txBanks, owed, host>>

GetcharCall == ReceiveEnter("getchar")
\* Mutant: an empty packet is taken for no packet
GetcharRetryGivesUp ==
    /\ Running("getchar") /\ rx # <<>> /\ RxBytes = 0
    /\ ReceiveDone /\ UNCHANGED rxBanks
\* A packet without bytes is given back, and the next one looked at.
GetcharRetry ==
    /\ Running("getchar") /\ rx # <<>> /\ RxBytes = 0
    /\ rx' = Tail(rx)
    /\ UNCHANGED <<pc, args, due, driver, I, UENUM, interrupt, txBanks, owed, host>>
\* One byte; the bank is given back with its last one.
GetcharTake ==
    /\ Running("getchar") /\ RxBytes > 0
    /\ rx' = IF RxBytes = 1 THEN Tail(rx) ELSE [rx EXCEPT ![1] = @ - 1]
    /\ due' = due - 1
    /\ ReceiveDone
GetcharNone ==
    /\ Running("getchar") /\ rx = <<>>
    /\ ReceiveDone /\ UNCHANGED rxBanks

\* usb_serial_available reads the count, and when it is 0 the flags: a
\* packet may arrive between the two.
AvailableCall ==
    \/ RxBytes = 0 /\ ReceiveEnter("available")
    \/ /\ Running("main") /\ usb_configuration # 0 /\ RxBytes > 0
       /\ UENUM' = RX
       /\ UNCHANGED <<pc, args, driver, I, interrupt, txBanks, owed, rxBanks, host>>
\* Mutant: the second look does not ask whether there are bytes by now
AvailableReleaseUnchecked ==
    /\ Running("available")
    /\ rx' = IF rx # <<>> THEN Tail(rx) ELSE rx
    /\ UNCHANGED due
    /\ ReceiveDone
AvailableRelease ==
    /\ Running("available")
    /\ rx' = IF rx # <<>> /\ RxBytes = 0 THEN Tail(rx) ELSE rx
    /\ UNCHANGED due
    /\ ReceiveDone

\* usb_serial_flush_input tests usb_configuration, then disables interrupts.
FlushInputCall ==
    /\ Running("main") /\ usb_configuration # 0
    /\ pc' = "flush"
    /\ UNCHANGED <<args, driver, I, UENUM, interrupt, txBanks, owed, rxBanks, host>>
FlushInputEnter ==
    /\ Running("flush")
    /\ UENUM' = RX /\ I' = FALSE /\ pc' = "discard"
    /\ UNCHANGED <<args, driver, interrupt, txBanks, owed, rxBanks, host>>
FlushInputPacket ==
    /\ Running("discard") /\ RxBytes > 0
    /\ rx' = Tail(rx) /\ due' = due - RxBytes
    /\ UNCHANGED <<pc, args, driver, I, UENUM, interrupt, txBanks, owed, host>>
FlushInputDone ==
    /\ Running("discard") /\ RxBytes = 0
    /\ ReceiveDone /\ UNCHANGED rxBanks

-----------------------------------------------------------------------------
(* USB_GEN_vect.  The flags are read, then all of them are cleared: one    *)
(* that comes up in between is lost.                                       *)

GenRead ==
    /\ I /\ intbits = {} /\ udint # {}
    /\ intbits' = udint
    /\ UNCHANGED <<pc, args, driver, I, UENUM, udint, resetLost, txBanks, owed, rxBanks,
                   host>>
\* Mutant: the configuration survives a bus reset
GenResetKeepsConfiguration ==
    /\ "EORSTI" \in intbits
    /\ UENUM' = 0 /\ resetLost' = FALSE
    /\ UNCHANGED <<usb_configuration, transmit_flush_timer, txBanks>>
GenReset ==
    /\ "EORSTI" \in intbits
    /\ UENUM' = 0 /\ usb_configuration' = 0
    /\ resetLost' = FALSE
    /\ UNCHANGED <<transmit_flush_timer, txBanks>>
\* Mutant: nothing is sent when the last packet was full
GenFrameNoEmptyPacket ==
    /\ intbits = {"SOFI"}
    /\ LET counting == usb_configuration # 0 /\ transmit_flush_timer # 0
           expires == counting /\ transmit_flush_timer = 1 /\ txFill > 0
       IN  /\ transmit_flush_timer' = IF counting THEN transmit_flush_timer - 1
                                                  ELSE transmit_flush_timer
           /\ UENUM' = IF expires THEN TX ELSE UENUM
           /\ IF expires THEN ReleaseTx ELSE UNCHANGED txBanks
    /\ resetLost' = (resetLost \/ "EORSTI" \in udint)
    /\ UNCHANGED usb_configuration
\* Mutant: the timer is counted down without a look at it
GenFrameUnderflow ==
    /\ intbits = {"SOFI"} /\ usb_configuration # 0
    /\ transmit_flush_timer' = transmit_flush_timer - 1
    /\ UENUM' = IF transmit_flush_timer = 1 THEN TX ELSE UENUM
    /\ IF transmit_flush_timer = 1 THEN ReleaseTx ELSE UNCHANGED txBanks
    /\ resetLost' = (resetLost \/ "EORSTI" \in udint)
    /\ UNCHANGED usb_configuration
GenFrame ==
    /\ intbits = {"SOFI"}
    /\ LET counting == usb_configuration # 0 /\ transmit_flush_timer # 0
           expires == counting /\ transmit_flush_timer = 1
       IN  /\ transmit_flush_timer' = IF counting THEN transmit_flush_timer - 1
                                                  ELSE transmit_flush_timer
           /\ UENUM' = IF expires THEN TX ELSE UENUM
           /\ IF expires THEN ReleaseTx ELSE UNCHANGED txBanks
    /\ resetLost' = (resetLost \/ "EORSTI" \in udint)
    /\ UNCHANGED usb_configuration
GenHandle ==
    /\ GenReset \/ GenFrame
    /\ udint' = {} /\ intbits' = {}
    /\ UNCHANGED <<pc, args, transmit_previous_timeout, I, owed, rxBanks, host>>

-----------------------------------------------------------------------------
(* USB_COM_vect: a control request of the host, handled in one go.  The    *)
(* vector of USB_GEN comes first.                                          *)

Count == events < MaxEvents /\ events' = events + 1
Request ==
    /\ I /\ intbits = {} /\ udint = {}
    /\ Count
    /\ UNCHANGED <<pc, args, transmit_previous_timeout, I, udint, intbits, polled>>

\* Any value is taken, 0 included; all endpoints are enabled and reset.
SetConfiguration(value) ==
    /\ Request
    /\ usb_configuration' = value
    /\ transmit_flush_timer' = 0 /\ UENUM' = TX
    /\ enabled' = TRUE /\ halted' = {} /\ resetLost' = FALSE
    /\ ClearTx /\ ClearRx /\ lastFull' = FALSE /\ skipped' = FALSE
\* SET_FEATURE and CLEAR_FEATURE of an endpoint leave that endpoint selected.
SetHalt(e) ==
    /\ Request /\ usb_configuration # 0 /\ enabled /\ e \notin halted
    /\ UENUM' = e /\ halted' = halted \cup {e}
    /\ UNCHANGED <<usb_configuration, transmit_flush_timer, resetLost, txBanks, owed,
                   rxBanks, enabled>>
ClearHalt(e) ==
    /\ Request /\ usb_configuration # 0 /\ enabled
    /\ UENUM' = e /\ halted' = halted \ {e}
    /\ IF e = TX THEN ClearTx ELSE UNCHANGED <<txFill, txReady, owed>>
    /\ IF e = RX THEN ClearRx ELSE UNCHANGED rxBanks
    /\ UNCHANGED <<usb_configuration, transmit_flush_timer, resetLost, lastFull, skipped,
                   enabled>>
\* Every other request: an answer or a stall on endpoint 0, or the halt of an
\* endpoint that carries no bytes.  The line coding and the control lines it
\* may set are only kept for callers to read.
OtherRequest ==
    /\ Request /\ UENUM' \in {0, ACM}
    /\ UNCHANGED <<usb_configuration, transmit_flush_timer, resetLost, txBanks, owed,
                   rxBanks, enabled, halted>>

-----------------------------------------------------------------------------
(* The host and the controller (external).                                 *)

\* A frame starts every millisecond while the PC is connected.
Frame ==
    /\ PromptPolls => (pc \in Waiting => polled)
    /\ udint' = udint \cup {"SOFI"}
    /\ framesLeft' = IF pc \in Waiting THEN (framesLeft - 1) % FrameRange ELSE framesLeft
    /\ polled' = FALSE
    /\ UNCHANGED <<pc, op, size, left, driver, I, UENUM, intbits, resetLost, txBanks,
                   owed, rxBanks, enabled, halted, events>>
\* The controller disables all endpoints but endpoint 0.
BusReset ==
    /\ Count /\ enabled
    /\ udint' = udint \cup {"EORSTI"}
    /\ enabled' = FALSE /\ halted' = {}
    /\ ClearTx /\ ClearRx
    /\ UNCHANGED <<pc, args, driver, I, UENUM, intbits, resetLost, lastFull, skipped,
                   polled>>
HostRead ==
    /\ enabled /\ usb_configuration # 0 /\ TX \notin halted /\ txReady # <<>>
    /\ txReady' = Tail(txReady) /\ owed' = owed - Head(txReady)
    /\ UNCHANGED <<pc, args, driver, I, UENUM, interrupt, txFill, lastFull, skipped,
                   rxBanks, host>>
HostSend(n) ==
    /\ enabled /\ usb_configuration # 0 /\ RX \notin halted /\ Len(rx) < Banks
    /\ Count /\ rx' = Append(rx, n) /\ due' = due + n
    /\ UNCHANGED <<pc, args, driver, I, UENUM, interrupt, txBanks, owed, enabled, halted,
                   polled>>

-----------------------------------------------------------------------------

\* The steps of a call under way, and the calls.
InCall ==
    \/ TransmitEnter \/ NowaitEnter \/ TransmitLoop
    \/ WaitTimeout \/ WaitOnline \/ WaitReady \/ PacketSize \/ StoreByte \/ Seal
    \/ GetcharRetry \/ GetcharTake \/ GetcharNone \/ AvailableRelease
    \/ FlushInputEnter \/ FlushInputPacket \/ FlushInputDone
Call ==
    \/ TransmitCall("putchar", 1) \/ TransmitCall("nowait", 1)
    \/ \E n \in WriteSizes : TransmitCall("write", n)
    \/ FlushOutput \/ SetControl \/ GetcharCall \/ AvailableCall \/ FlushInputCall
Interrupt == GenRead \/ GenHandle
Control ==
    \/ \E value \in 0..1 : SetConfiguration(value)
    \/ \E e \in {RX, TX} : SetHalt(e) \/ ClearHalt(e)
    \/ OtherRequest
Host ==
    \/ Frame \/ BusReset \/ HostRead
    \/ \E n \in 0..RxSize : HostSend(n)

Next == InCall \/ Call \/ Interrupt \/ Control \/ Host

Spec == Init /\ [][Next]_vars
\* A pending interrupt runs once interrupts are on; handlers leave time for the caller; the
\* main loop keeps polling; the PC stays connected.
Fairness ==
    /\ WF_vars(Frame) /\ SF_vars(Interrupt)
    /\ SF_vars(InCall) /\ SF_vars(GetcharCall)
FairSpec == Spec /\ Fairness

-----------------------------------------------------------------------------
(* Properties.                                                             *)

PacketBytes(s) == (IF Len(s) > 0 THEN s[1] ELSE 0) + (IF Len(s) > 1 THEN s[2] ELSE 0)

\* A byte that a transmit function has taken is in a bank of the endpoint
\* until the host takes it or resets the endpoint: UEDATX is never written
\* while another endpoint is selected or no bank is free.
TxExact == owed = txFill + PacketBytes(txReady)

\* A byte the host has sent is in a bank until it is returned to a caller or
\* discarded by usb_serial_flush_input: no function gives a bank back that
\* still holds bytes ("can not be lost because you weren't listening").
RxExact == due = PacketBytes(rx)

\* A partly filled packet never waits without the flush timer running: the
\* timer of every byte survives the races with reset and configuration.
FlushArmed ==
    usb_configuration # 0 /\ txFill > 0 /\ pc # "seal" /\ pc # "fill"
        => transmit_flush_timer > 0

\* After the last byte the host gets a packet that is not full ("this timeout
\* is used to send a zero length packet"), unless the timer ran out while
\* both banks were waiting.
ShortPacketEnds ==
    usb_configuration # 0 /\ transmit_flush_timer = 0 /\ lastFull /\ pc # "seal" => skipped

\* usb_configuration is "zero when we are not configured": after a bus reset
\* it is 0 as soon as the handler has run, unless the reset fell between the
\* handler's read and its clear of the flags.
OfflineSeen ==
    usb_configuration # 0 /\ ~enabled => "EORSTI" \in udint \/ "EORSTI" \in intbits \/ resetLost

\* "interrupts are disabled so these functions can be used from the main
\* program or interrupt context": the data and flag registers are only used
\* with interrupts off and the right endpoint selected.
RegistersGuarded ==
    /\ pc \in {"loop", "size", "fill", "seal"} => ~I /\ UENUM = TX
    /\ pc \in {"getchar", "available", "discard"} => ~I /\ UENUM = RX

\* Every call returns, although the host may never read: the wait ends at the
\* timeout.
CallsReturn == pc # "main" ~> pc = "main"

\* A partly filled packet is released, although no further byte completes it.
PartialSent ==
    (txFill > 0 /\ usb_configuration # 0) ~> (txFill = 0 \/ usb_configuration = 0)

\* Two received packets never block the host for ever, empty ones included.
RxDrains == (Len(rx) = Banks) ~> (Len(rx) < Banks)
=============================================================================
