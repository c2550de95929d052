-------------------------- MODULE ControlTransfer --------------------------
(***************************************************************************)
(* libusbtest: block transfers over control requests.  The firmware        *)
(* (firmware/main.c) answers requests through the software USB driver      *)
(* (usbdrv.c, polled by the main loop; asmcommon.inc, its interrupt, which *)
(* answers every packet of the host at once).  The host (commandline)      *)
(* makes one control transfer at a time and gives one up after a timeout.  *)
(*                                                                         *)
(* While a received packet waits for usbPoll the interrupt answers NAK to  *)
(* everything, and it leaves usbTxLen alone while that is a handshake: so  *)
(* usbProcessRx and usbBuildTxBlock are one step each.  A byte is the      *)
(* transfer and the place it comes from.                                   *)
(***************************************************************************)
EXTENDS Integers, Sequences

CONSTANTS
    Chunk,              \* bytes of a packet: 8
    BufferSize,         \* READ_WRITE_BUFFER_SIZE, 230
    ByteRange,          \* values of a uchar: 256
    EchoSize,           \* bytes of dataBuffer: 4
    Lengths,            \* wLength of the host's reads and writes
    Addresses,          \* addresses the host gives the device
    MaxTransfers,       \* bound on transfers
    MaxResets           \* bound on bus resets

ASSUME SizesAssumption ==
    /\ Chunk \in Nat \ {0} /\ EchoSize \in 1..Chunk
    /\ BufferSize \in Nat \ {0} /\ ByteRange \in Nat
    /\ BufferSize < ByteRange - 1 /\ Chunk < ByteRange - 1
ASSUME HostAssumption ==
    /\ Lengths \subseteq Nat \ {0} /\ Addresses \subseteq Nat \ {0}
    /\ MaxTransfers \in Nat /\ MaxResets \in Nat

Least(a, b) == IF a < b THEN a ELSE b
USB_NO_MSG == ByteRange - 1
None == [token |-> "none"]

VARIABLES
    \* the driver
    pc, usbRx, usbTxLen, usbTxBuf, usbMsgLen, usbMsgPtr, usbMsgFlags,
    usbDeviceAddr, usbNewDeviceAddr,
    \* the firmware
    dataBuffer, readWriteBuffer, currentPosition, bytesRemaining, led,
    \* the host and the bus
    phase, req, id, moved, got, toggle, ok, address, line, polls, resets

message == <<usbMsgLen, usbMsgPtr, usbMsgFlags>>
firmware == <<dataBuffer, readWriteBuffer, currentPosition, bytesRemaining, led>>
addresses == <<usbDeviceAddr, usbNewDeviceAddr>>
device == <<pc, usbRx, usbTxLen, usbTxBuf, message, addresses, firmware>>
transfer == <<phase, req, id, moved, got, toggle, ok, address>>
bus == <<line, polls, resets>>
vars == <<device, transfer, bus>>

Bytes == (0..MaxTransfers) \X Nat
Kinds == {"echo", "set", "get", "read", "write", "address"}
TypeOK ==
    /\ pc \in {"rx", "tx", "line"} /\ usbRx.token \in {"none", "SETUP", "OUT"}
    /\ usbTxLen \in {"NAK", "DATA"}
    /\ usbTxBuf.toggle \in 0..1 /\ Len(usbTxBuf.data) <= Chunk
    /\ usbMsgLen \in 0..USB_NO_MSG
    /\ usbMsgPtr.pos \in 0..(IF usbMsgPtr.src = "data" THEN EchoSize ELSE BufferSize)
    /\ usbMsgFlags \in BOOLEAN
    /\ usbDeviceAddr \in Addresses \cup {0} /\ usbNewDeviceAddr \in Addresses \cup {0}
    /\ readWriteBuffer \in [1..BufferSize -> Bytes]
    /\ currentPosition \in 0..BufferSize /\ bytesRemaining \in 0..(BufferSize - currentPosition)
    /\ phase \in {"idle", "setup", "out", "in", "statusIn", "statusOut"}
    /\ req.kind \in Kinds /\ id \in 0..MaxTransfers /\ toggle \in 0..1 /\ ok \in BOOLEAN
    /\ line \in {"J", "SE0"} /\ polls \in 0..2

\* After usbInit().
Init ==
    /\ pc = "rx" /\ usbRx = None
    /\ usbTxLen = "NAK" /\ usbTxBuf = [toggle |-> 0, data |-> <<>>]
    /\ usbMsgLen = USB_NO_MSG /\ usbMsgPtr = [src |-> "data", pos |-> 0] /\ usbMsgFlags = FALSE
    /\ usbDeviceAddr = 0 /\ usbNewDeviceAddr = 0
    /\ dataBuffer = [i \in 1..EchoSize |-> <<0, 0>>]
    /\ readWriteBuffer = [i \in 1..BufferSize |-> <<0, 0>>]
    /\ currentPosition = 0 /\ bytesRemaining = 0 /\ led = 0
    /\ phase = "idle" /\ req = [kind |-> "set", len |-> 0, value |-> 0] /\ id = 0
    /\ moved = 0 /\ got = <<>> /\ toggle = 1 /\ ok = FALSE /\ address = 0
    /\ line = "J" /\ polls = 0 /\ resets = 0

-----------------------------------------------------------------------------
(* The firmware's answers.                                                 *)

Echo(n) == [i \in 1..EchoSize |-> <<n, i>>]
Led(v) == <<0, v>>

\* What usbFunctionSetup and usbDriverSetup return.
ReplyLength(kind) ==
    CASE kind = "echo" -> EchoSize
      [] kind = "get" -> 1
      [] kind = "read" -> BufferSize
      [] kind = "write" -> USB_NO_MSG
      [] OTHER -> 0

\* A reply is cut to wLength; both are compared as bytes.
MessageLength(r) ==
    LET reply == ReplyLength(r.kind)
    IN  IF reply # USB_NO_MSG /\ r.len < ByteRange /\ reply > r.len THEN r.len ELSE reply

\* Mutant: a write goes on where the last one stopped
StartBlockAgain(r) ==
    /\ currentPosition' = IF r.kind = "read" THEN 0 ELSE currentPosition
    /\ bytesRemaining' = IF r.kind = "write" THEN Least(r.len % ByteRange, BufferSize)
                                             ELSE bytesRemaining
\* wLength is stored in a byte, then limited to the buffer.
StartBlock(r) ==
    /\ currentPosition' = IF r.kind \in {"read", "write"} THEN 0 ELSE currentPosition
    /\ bytesRemaining' = IF r.kind = "write" THEN Least(r.len % ByteRange, BufferSize)
                                             ELSE bytesRemaining
FunctionSetup(r, n) ==
    /\ dataBuffer' = CASE r.kind = "echo" -> Echo(n)
                       [] r.kind = "get" -> [dataBuffer EXCEPT ![1] = Led(led)]
                       [] OTHER -> dataBuffer
    /\ led' = IF r.kind = "set" THEN r.value ELSE led
    /\ StartBlock(r)
    /\ UNCHANGED readWriteBuffer

StoreChunk(data, len) ==
    /\ readWriteBuffer' = [i \in 1..BufferSize |->
                             IF i - currentPosition \in 1..len THEN data[i - currentPosition]
                                                      ELSE readWriteBuffer[i]]
    /\ currentPosition' = currentPosition + len
    /\ bytesRemaining' = (bytesRemaining - len) % ByteRange
    /\ UNCHANGED <<dataBuffer, led>>
\* Mutant: the chunk is stored as it comes
FunctionWriteUnlimited(data) ==
    /\ StoreChunk(data, Len(data))
    /\ usbMsgLen' = IF bytesRemaining' = 0 THEN 0 ELSE usbMsgLen
\* Mutant: the last chunk is the one after which nothing is expected
FunctionWriteLate(data) ==
    /\ StoreChunk(data, Least(Len(data), bytesRemaining))
    /\ usbMsgLen' = IF bytesRemaining = 0 THEN 0 ELSE usbMsgLen
\* usbFunctionWrite, and the empty packet that answers the last chunk.
FunctionWrite(data) ==
    /\ StoreChunk(data, Least(Len(data), bytesRemaining))
    /\ usbMsgLen' = IF bytesRemaining' = 0 THEN 0 ELSE usbMsgLen

-----------------------------------------------------------------------------
(* The driver's main loop: usbPoll.                                        *)

\* Mutant: a reply that waits for the host is not aborted
AbortReplyNot == usbTxBuf' = [usbTxBuf EXCEPT !.toggle = 0] /\ UNCHANGED usbTxLen
\* SETUP starts the data toggle and aborts what is still to be sent.
AbortReply == usbTxBuf' = [usbTxBuf EXCEPT !.toggle = 0] /\ usbTxLen' = "NAK"

\* It asks the firmware, or the driver itself for SET_ADDRESS.  Of a request
\* without a reply nothing is read through usbMsgPtr, so it may stay.
ProcessSetup(r, n) ==
    /\ AbortReply
    /\ FunctionSetup(r, n)
    /\ usbNewDeviceAddr' = IF r.kind = "address" THEN r.value ELSE usbNewDeviceAddr
    /\ usbMsgFlags' = (ReplyLength(r.kind) = USB_NO_MSG)
    /\ usbMsgLen' = MessageLength(r)
    /\ usbMsgPtr' = CASE r.kind = "read" -> [src |-> "buffer", pos |-> 0]
                      [] r.kind \in {"echo", "get"} -> [src |-> "data", pos |-> 0]
                      [] OTHER -> usbMsgPtr

\* usbProcessRx; then the receive buffer is free.
PollRx ==
    /\ pc = "rx" /\ pc' = "tx" /\ usbRx' = None
    /\ \/ /\ usbRx.token = "SETUP" /\ ProcessSetup(usbRx.req, usbRx.id)
          /\ UNCHANGED usbDeviceAddr
       \/ /\ usbRx.token = "OUT" /\ usbMsgFlags /\ FunctionWrite(usbRx.data)
          /\ UNCHANGED <<usbTxLen, usbTxBuf, usbMsgPtr, usbMsgFlags, addresses>>
       \/ /\ usbRx.token = "OUT" => ~usbMsgFlags
          /\ usbRx.token # "SETUP"
          /\ UNCHANGED <<usbTxLen, usbTxBuf, message, addresses, firmware>>
    /\ UNCHANGED <<transfer, bus>>

\* usbBuildTxBlock, when nothing waits to be sent and a message is left.  A
\* packet that is not full ends the message.
Source == IF usbMsgPtr.src = "data" THEN dataBuffer ELSE readWriteBuffer
BuildTxBlock ==
    LET len == Least(usbMsgLen, Chunk)
    IN  /\ usbTxBuf' = [toggle |-> 1 - usbTxBuf.toggle,
                        data |-> [i \in 1..len |-> Source[usbMsgPtr.pos + i]]]
        /\ usbTxLen' = "DATA"
        /\ usbMsgLen' = IF len < Chunk THEN USB_NO_MSG ELSE usbMsgLen - len
        /\ usbMsgPtr' = [usbMsgPtr EXCEPT !.pos = @ + len]
PollTx ==
    /\ pc = "tx" /\ pc' = "line"
    /\ IF usbTxLen = "NAK" /\ usbMsgLen # USB_NO_MSG
       THEN BuildTxBlock
       ELSE UNCHANGED <<usbTxBuf, usbTxLen, usbMsgLen, usbMsgPtr>>
    /\ UNCHANGED <<usbRx, usbMsgFlags, addresses, firmware, transfer, bus>>

\* Mutant: the address to come is not reset
PollLineKeepsNew ==
    /\ pc = "line" /\ pc' = "rx"
    /\ usbDeviceAddr' = IF line = "SE0" THEN 0 ELSE usbDeviceAddr
    /\ polls' = IF line = "SE0" THEN Least(polls + 1, 2) ELSE polls
    /\ UNCHANGED <<usbNewDeviceAddr, usbRx, usbTxLen, usbTxBuf, message, firmware, transfer,
                   line, resets>>
\* A bus reset is seen as SE0 that does not end.
PollLine ==
    /\ pc = "line" /\ pc' = "rx"
    /\ IF line = "SE0" THEN usbDeviceAddr' = 0 /\ usbNewDeviceAddr' = 0
                       ELSE UNCHANGED addresses
    /\ polls' = IF line = "SE0" THEN Least(polls + 1, 2) ELSE polls
    /\ UNCHANGED <<usbRx, usbTxLen, usbTxBuf, message, firmware, transfer, line, resets>>

-----------------------------------------------------------------------------
(* The driver's interrupt.  A packet for another address is ignored; NAK   *)
(* means that the host tries again, so it is no step.                      *)

Addressed == line = "J" /\ address = usbDeviceAddr
\* handleData: ACK, and the packet waits for usbPoll.  A packet without data
\* is only acknowledged.
HandleData(packet) ==
    /\ Addressed /\ usbRx = None
    /\ usbRx' = packet
    /\ UNCHANGED <<pc, usbTxLen, usbTxBuf, message, addresses, firmware>>
HandleEmpty ==
    /\ Addressed /\ usbRx = None
    /\ UNCHANGED device
\* At the end of a data packet the transmitter takes the new address over
AssignAddress == usbDeviceAddr' = usbNewDeviceAddr
\* Mutant: an unprocessed packet does not hold the data back
HandleInEager ==
    /\ Addressed /\ usbTxLen = "DATA"
    /\ usbTxLen' = "NAK" /\ AssignAddress
    /\ UNCHANGED <<pc, usbRx, usbTxBuf, message, usbNewDeviceAddr, firmware>>
\* handleIn: data is sent once, and not while a received packet waits.
HandleIn ==
    /\ Addressed /\ usbRx = None /\ usbTxLen = "DATA"
    /\ usbTxLen' = "NAK" /\ AssignAddress
    /\ UNCHANGED <<pc, usbRx, usbTxBuf, message, usbNewDeviceAddr, firmware>>

-----------------------------------------------------------------------------
(* The host (external): usbdevice_transmit asks for a control transfer,    *)
(* the USB stack makes it.                                                 *)

FromDevice == {"echo", "get", "read"}
Requests ==
    [kind : {"echo"}, len : {EchoSize}, value : {0}]
    \cup [kind : {"get"}, len : {1}, value : {0}]
    \cup [kind : {"set"}, len : {0}, value : 0..1]
    \cup [kind : {"read", "write"}, len : Lengths, value : {0}]
    \cup [kind : {"address"}, len : {0}, value : Addresses]

Start(r) ==
    /\ phase = "idle" /\ line = "J" /\ id < MaxTransfers
    /\ r.kind = "address" => address = 0
    /\ phase' = "setup" /\ req' = r /\ id' = id + 1
    /\ moved' = 0 /\ got' = <<>> /\ toggle' = 1 /\ ok' = FALSE
    /\ UNCHANGED <<device, address, bus>>
SetupPacket ==
    /\ phase = "setup"
    /\ HandleData([token |-> "SETUP", req |-> req, id |-> id])
    /\ phase' = CASE req.kind = "write" -> "out"
                  [] req.kind \in FromDevice -> "in"
                  [] OTHER -> "statusIn"
    /\ UNCHANGED <<req, id, moved, got, toggle, ok, address, bus>>
OutPacket ==
    /\ phase = "out"
    /\ LET n == Least(Chunk, req.len - moved)
       IN  /\ HandleData([token |-> "OUT", data |-> [i \in 1..n |-> <<id, moved + i>>]])
           /\ moved' = moved + n
    /\ phase' = IF moved' = req.len THEN "statusIn" ELSE "out"
    /\ UNCHANGED <<req, id, got, toggle, ok, address, bus>>
\* A packet with the wrong toggle is taken for a repetition and dropped.
InPacket ==
    /\ phase = "in" /\ HandleIn
    /\ IF usbTxBuf.toggle = toggle
       THEN /\ got' = got \o usbTxBuf.data /\ toggle' = 1 - toggle
            /\ phase' = IF Len(usbTxBuf.data) < Chunk \/ Len(got') >= req.len
                        THEN "statusOut" ELSE "in"
       ELSE UNCHANGED <<got, toggle, phase>>
    /\ UNCHANGED <<req, id, moved, ok, address, bus>>
StatusOut ==
    /\ phase = "statusOut" /\ HandleEmpty
    /\ phase' = "idle" /\ ok' = TRUE
    /\ UNCHANGED <<req, id, moved, got, toggle, address, bus>>
StatusIn ==
    /\ phase = "statusIn" /\ HandleIn
    /\ IF usbTxBuf.toggle = toggle
       THEN /\ phase' = "idle" /\ ok' = TRUE
            /\ address' = IF req.kind = "address" THEN req.value ELSE address
       ELSE UNCHANGED <<phase, ok, address>>
    /\ UNCHANGED <<req, id, moved, got, toggle, bus>>
\* The timeout.  An address that may have been given is taken back by a reset.
Abandon ==
    /\ phase # "idle" /\ req.kind # "address"
    /\ phase' = "idle"
    /\ UNCHANGED <<device, req, id, moved, got, toggle, ok, address, bus>>
\* A bus reset lasts for many rounds of the main loop.
ResetStart ==
    /\ line = "J" /\ resets < MaxResets
    /\ line' = "SE0" /\ polls' = 0 /\ resets' = resets + 1
    /\ phase' = "idle" /\ ok' = FALSE /\ address' = 0
    /\ UNCHANGED <<device, req, id, moved, got, toggle>>
ResetEnd ==
    /\ line = "SE0" /\ polls = 2
    /\ line' = "J"
    /\ UNCHANGED <<device, transfer, polls, resets>>

-----------------------------------------------------------------------------

Poll == PollRx \/ PollTx \/ PollLine
Transact == SetupPacket \/ OutPacket \/ InPacket \/ StatusOut \/ StatusIn
Next ==
    \/ Poll \/ Transact
    \/ \E r \in Requests : Start(r)
    \/ Abandon \/ ResetStart \/ ResetEnd

Spec == Init /\ [][Next]_vars
\* The main loop runs for ever, the host repeats what was answered with NAK
\* and ends a reset.
FairSpec == Spec /\ WF_vars(Poll) /\ SF_vars(Transact) /\ WF_vars(ResetEnd)

-----------------------------------------------------------------------------
(* Properties.                                                             *)

\* What the device is to send for the host's request.
Expected ==
    CASE req.kind = "echo" -> Echo(id)
      [] req.kind = "get" -> <<Led(led)>>
      [] req.kind = "read" -> SubSeq(readWriteBuffer, 1, Least(req.len, BufferSize))
      [] OTHER -> <<>>

\* A packet that the interrupt would send belongs to the host's request and is
\* the next one of its reply: nothing is left over from a transfer the host
\* gave up ("abort pending transmit", and no data "as long as the C code has
\* not processed the current input data").
ReplyCurrent ==
    phase \in {"in", "statusIn"} /\ Addressed /\ usbRx = None /\ usbTxLen = "DATA"
        => /\ usbTxBuf.toggle = toggle
           /\ LET sofar == got \o usbTxBuf.data
              IN  sofar = SubSeq(Expected, 1, Len(sofar))

\* A read that succeeded returned the whole buffer, or as much as the host
\* asked for; an echo returned what was sent.
ReadExact == ok /\ req.kind \in FromDevice => got = Expected

\* A write that succeeded is in the buffer, up to the size of the buffer.
WriteStored ==
    ok /\ req.kind = "write" =>
        \A i \in 1..Least(req.len, BufferSize) : readWriteBuffer[i] = <<id, i>>

\* The device answers to the address the host uses, whatever was given up or
\* reset in between: a new one counts from the end of its transfer.
AddressAgrees == line = "J" => usbDeviceAddr = address

\* Every transfer ends, without the timeout.
TransfersEnd == phase # "idle" ~> phase = "idle"
=============================================================================
