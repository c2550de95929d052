----------------------- MODULE ControlTransferProofs -----------------------
(***************************************************************************)
(* The libusbtest device for every packet size, buffer and choice of       *)
(* transfers: it has the host's address, its replies are those of the      *)
(* current request, and what was read and written is exact.                *)
(***************************************************************************)
EXTENDS ControlTransfer, TLAPS

Changing == phase = "statusIn" /\ req.kind = "address"
\* A SET_ADDRESS that waits for usbPoll
Waiting == usbRx.token = "SETUP" /\ usbRx.req.kind = "address"

\* The address to come is the one in use, or the one being given
NewAgrees ==
    line = "J" => usbNewDeviceAddr = address \/ (Changing /\ usbNewDeviceAddr = req.value)
\* The driver's place in a transfer that gives an address: the new address
\* is known before the empty packet that ends the transfer can be sent
InChange ==
    line = "J" /\ Changing =>
        \/ usbRx.token = "SETUP" /\ usbRx.req = req
        \/ /\ usbRx = None /\ usbNewDeviceAddr = req.value
           /\ \/ usbTxLen = "NAK" /\ usbTxBuf.toggle = 0 /\ usbMsgLen = 0
              \/ usbTxLen = "DATA" /\ usbTxBuf.toggle = 1
\* Only that transfer's request waits
WaitingIsCurrent == line = "J" /\ Waiting => Changing /\ usbRx.req = req
\* A reset outlasts a request that was waiting when it began
ResetClears ==
    line = "SE0" =>
        /\ address = 0 /\ phase = "idle"
        /\ polls = 1 /\ pc # "rx" => usbRx = None
        /\ polls = 2 => usbRx = None /\ usbDeviceAddr = 0 /\ usbNewDeviceAddr = 0
Shapes ==
    /\ pc \in {"rx", "tx", "line"} /\ line \in {"J", "SE0"} /\ polls \in 0..2
    /\ usbTxLen \in {"NAK", "DATA"} /\ toggle \in 0..1
    /\ Changing => toggle = 1
    /\ phase = "setup" => toggle = 1
    /\ phase = "out" => req.kind = "write"
    /\ req.kind = "address" => req.len = 0
    /\ usbRx.token = "none" => usbRx = None

AInv ==
    /\ Shapes /\ AddressAgrees /\ NewAgrees /\ InChange /\ WaitingIsCurrent /\ ResetClears

-----------------------------------------------------------------------------
(* Each action keeps the invariant.                                        *)

\* SET_ADDRESS is answered with an empty packet.
LEMMA AddressReply ==
    ASSUME NEW r, r.kind = "address", r.len = 0
    PROVE  MessageLength(r) = 0 /\ 0 # USB_NO_MSG
BY SizesAssumption DEF MessageLength, ReplyLength, USB_NO_MSG

\* A SETUP packet is processed: only SET_ADDRESS touches the address to come.
LEMMA PollRxKeeps ==
    ASSUME AInv, PollRx
    PROVE  AInv'
<1>1. CASE usbRx.token = "SETUP" /\ ProcessSetup(usbRx.req, usbRx.id) /\ UNCHANGED usbDeviceAddr
  <2>1. /\ pc = "rx" /\ pc' = "tx" /\ usbRx' = None /\ usbTxLen' = "NAK" /\ usbTxBuf'.toggle = 0
        /\ UNCHANGED <<transfer, bus>>
    BY <1>1 DEF PollRx, ProcessSetup, AbortReply
  <2>2. CASE Waiting
    <3>1. usbNewDeviceAddr' = usbRx.req.value /\ usbMsgLen' = MessageLength(usbRx.req)
      BY <1>1, <2>2 DEF Waiting, ProcessSetup
    <3>2. line = "J" => usbMsgLen' = 0 /\ Changing /\ usbRx.req = req
      BY <3>1, <2>2, AddressReply DEF AInv, WaitingIsCurrent, Shapes, Waiting
    <3> QED
      BY <1>1, <2>1, <2>2, <3>1, <3>2
         DEF AInv, Shapes, AddressAgrees, NewAgrees, InChange, WaitingIsCurrent, ResetClears,
             Changing, Waiting, None, transfer, bus
  <2>3. CASE ~Waiting
    <3>1. usbNewDeviceAddr' = usbNewDeviceAddr
      BY <1>1, <2>3 DEF Waiting, ProcessSetup
    <3>2. line = "J" => ~Changing
      BY <1>1, <2>3 DEF AInv, InChange, Waiting, Changing, None
    <3> QED
      BY <1>1, <2>1, <2>3, <3>1, <3>2
         DEF AInv, Shapes, AddressAgrees, NewAgrees, InChange, WaitingIsCurrent, ResetClears,
             Changing, Waiting, None, transfer, bus
  <2> QED
    BY <2>2, <2>3
<1>2. CASE usbRx.token # "SETUP" /\ UNCHANGED <<usbTxLen, usbTxBuf, addresses>>
  <2>1. /\ pc = "rx" /\ pc' = "tx" /\ usbRx' = None /\ UNCHANGED <<transfer, bus>>
    BY DEF PollRx
  <2>2. usbRx.token # "OUT" => usbMsgLen' = usbMsgLen
    BY <1>2 DEF PollRx, message
  <2>3. line = "J" /\ Changing => usbRx.token # "OUT"
    BY <1>2 DEF AInv, InChange, None
  <2> QED
    BY <1>2, <2>1, <2>2, <2>3
       DEF AInv, Shapes, AddressAgrees, NewAgrees, InChange, WaitingIsCurrent, ResetClears,
           Changing, Waiting, None, transfer, bus, addresses
<1> QED
  BY <1>1, <1>2 DEF PollRx

\* A block is built: the empty packet of SET_ADDRESS carries toggle 1.
LEMMA PollTxKeeps ==
    ASSUME AInv, PollTx
    PROVE  AInv'
<1>1. 0 # USB_NO_MSG
  BY SizesAssumption DEF USB_NO_MSG
<1>2. \/ /\ usbTxLen = "NAK" /\ usbMsgLen # USB_NO_MSG
         /\ usbTxLen' = "DATA" /\ usbTxBuf'.toggle = 1 - usbTxBuf.toggle
      \/ (usbTxLen # "NAK" \/ usbMsgLen = USB_NO_MSG) /\ UNCHANGED <<usbTxLen, usbTxBuf, usbMsgLen>>
  BY DEF PollTx, BuildTxBlock
<1>3. pc = "tx" /\ pc' = "line" /\ UNCHANGED <<usbRx, addresses, transfer, bus>>
  BY DEF PollTx
<1> QED
  BY <1>1, <1>2, <1>3
     DEF AInv, Shapes, AddressAgrees, NewAgrees, InChange, WaitingIsCurrent, ResetClears,
         Changing, Waiting, None, transfer, bus, addresses

\* A reset clears both addresses.
LEMMA PollLineKeeps ==
    ASSUME AInv, PollLine
    PROVE  AInv'
BY SMTT(20) DEF PollLine, Least, None, AInv, Shapes, AddressAgrees, NewAgrees, InChange, WaitingIsCurrent, ResetClears,
       Changing, Waiting,
       device, transfer, bus, message, firmware, addresses

\* A transfer starts with an address of its own or none.
LEMMA StartKeeps ==
    ASSUME AInv, NEW r \in Requests, Start(r)
    PROVE  AInv'
BY SMTT(20) DEF Start, Requests, None, AInv, Shapes, AddressAgrees, NewAgrees, InChange, WaitingIsCurrent, ResetClears,
       Changing, Waiting,
       device, transfer, bus, message, firmware, addresses

\* The request waits for usbPoll.
LEMMA SetupPacketKeeps ==
    ASSUME AInv, SetupPacket
    PROVE  AInv'
BY SMTT(20) DEF SetupPacket, HandleData, Addressed, FromDevice, None, AInv, Shapes, AddressAgrees, NewAgrees, InChange, WaitingIsCurrent, ResetClears,
       Changing, Waiting,
       device, transfer, bus, message, firmware, addresses

\* A chunk waits for usbPoll.
LEMMA OutPacketKeeps ==
    ASSUME AInv, OutPacket
    PROVE  AInv'
BY SMTT(20) DEF OutPacket, HandleData, Addressed, None, AInv, Shapes, AddressAgrees, NewAgrees, InChange, WaitingIsCurrent, ResetClears,
       Changing, Waiting,
       device, transfer, bus, message, firmware, addresses

\* A packet of a reply confirms the address.
LEMMA InPacketKeeps ==
    ASSUME AInv, InPacket
    PROVE  AInv'
BY SMTT(20) DEF InPacket, HandleIn, AssignAddress, Addressed, None, AInv, Shapes, AddressAgrees, NewAgrees, InChange, WaitingIsCurrent, ResetClears,
       Changing, Waiting,
       device, transfer, bus, message, firmware, addresses

\* The host ends a read.
LEMMA StatusOutKeeps ==
    ASSUME AInv, StatusOut
    PROVE  AInv'
BY SMTT(20) DEF StatusOut, HandleEmpty, None, AInv, Shapes, AddressAgrees, NewAgrees, InChange, WaitingIsCurrent, ResetClears,
       Changing, Waiting,
       device, transfer, bus, message, firmware, addresses

\* The empty packet makes the new address count on both sides.
LEMMA StatusInKeeps ==
    ASSUME AInv, StatusIn
    PROVE  AInv'
BY SMTT(20) DEF StatusIn, HandleIn, AssignAddress, Addressed, None, AInv, Shapes, AddressAgrees, NewAgrees, InChange, WaitingIsCurrent, ResetClears,
       Changing, Waiting,
       device, transfer, bus, message, firmware, addresses

\* The host gives up a transfer that gives no address.
LEMMA AbandonKeeps ==
    ASSUME AInv, Abandon
    PROVE  AInv'
BY SMTT(20) DEF Abandon, None, AInv, Shapes, AddressAgrees, NewAgrees, InChange, WaitingIsCurrent, ResetClears,
       Changing, Waiting,
       device, transfer, bus, message, firmware, addresses

\* A reset begins.
LEMMA ResetStartKeeps ==
    ASSUME AInv, ResetStart
    PROVE  AInv'
BY SMTT(20) DEF ResetStart, None, AInv, Shapes, AddressAgrees, NewAgrees, InChange, WaitingIsCurrent, ResetClears,
       Changing, Waiting,
       device, transfer, bus, message, firmware, addresses

\* A reset ends.
LEMMA ResetEndKeeps ==
    ASSUME AInv, ResetEnd
    PROVE  AInv'
BY SMTT(20) DEF ResetEnd, None, AInv, Shapes, AddressAgrees, NewAgrees, InChange, WaitingIsCurrent, ResetClears,
       Changing, Waiting,
       device, transfer, bus, message, firmware, addresses

-----------------------------------------------------------------------------

\* Before enumeration both sides use address 0.
LEMMA AddressInit == Init => AInv
BY DEF Init, AInv, Shapes, AddressAgrees, NewAgrees, InChange, WaitingIsCurrent, ResetClears,
       Changing, Waiting, None

\* Every step keeps the invariant.
LEMMA AddressNext == AInv /\ [Next]_vars => AInv'
<1> SUFFICES ASSUME AInv, [Next]_vars PROVE AInv'
  OBVIOUS
<1>1. CASE Next
  BY <1>1, PollRxKeeps, PollTxKeeps, PollLineKeeps, StartKeeps, SetupPacketKeeps,
     OutPacketKeeps, InPacketKeeps, StatusOutKeeps, StatusInKeeps, AbandonKeeps,
     ResetStartKeeps, ResetEndKeeps
     DEF Next, Poll, Transact
<1>2. CASE UNCHANGED vars
  BY <1>2 DEF vars, AInv, Shapes, AddressAgrees, NewAgrees, InChange, WaitingIsCurrent,
     ResetClears, Changing, Waiting, device, transfer, bus, message, addresses
<1> QED
  BY <1>1, <1>2

\* The device answers to the address the host uses, through transfers given
\* up at any point and bus resets, for every size of packets and buffer.
THEOREM AddressesAgree == Spec => []AddressAgrees
<1>1. AInv => AddressAgrees
  BY DEF AInv
<1> QED
  BY <1>1, AddressInit, AddressNext, PTL DEF Spec

-----------------------------------------------------------------------------
(* The data of the transfers.                                              *)

\* Everything has its type, what waits in usbRx and what is left of a message
\* included: a message never runs past the end of what it points at.
SourceSize == IF usbMsgPtr.src = "data" THEN EchoSize ELSE BufferSize
Setups == [token : {"SETUP"}, req : Requests, id : 0..MaxTransfers]
Chunks == [token : {"OUT"}, data : Seq(Bytes)]
DriverTypes ==
    /\ pc \in {"rx", "tx", "line"}
    /\ usbRx \in {None} \cup Setups \cup Chunks
    /\ usbRx.token = "OUT" => Len(usbRx.data) <= Chunk
    /\ usbTxLen \in {"NAK", "DATA"}
    /\ usbTxBuf \in [toggle : 0..1, data : Seq(Bytes)] /\ Len(usbTxBuf.data) <= Chunk
    /\ usbMsgPtr \in [src : {"data", "buffer"}, pos : Nat] /\ usbMsgPtr.pos <= SourceSize
    /\ usbMsgLen \in 0..USB_NO_MSG /\ usbMsgFlags \in BOOLEAN
    /\ usbMsgLen # USB_NO_MSG => usbMsgPtr.pos + usbMsgLen <= SourceSize
    /\ usbDeviceAddr \in Addresses \cup {0} /\ usbNewDeviceAddr \in Addresses \cup {0}
FirmwareTypes ==
    /\ dataBuffer \in [1..EchoSize -> Bytes] /\ readWriteBuffer \in [1..BufferSize -> Bytes]
    /\ currentPosition \in 0..BufferSize /\ bytesRemaining \in 0..(BufferSize - currentPosition)
    /\ led \in 0..1
HostTypes ==
    /\ phase \in {"idle", "setup", "out", "in", "statusIn", "statusOut"}
    /\ req \in Requests /\ id \in 0..MaxTransfers /\ moved \in Nat /\ got \in Seq(Bytes)
    /\ toggle \in 0..1 /\ ok \in BOOLEAN
    /\ line \in {"J", "SE0"} /\ polls \in 0..2
Types == DriverTypes /\ FirmwareTypes /\ HostTypes

\* The bytes a reply has, and which they are; the bytes a write may store
ReplySize == Least(ReplyLength(req.kind), req.len)
Reply(k) == CASE req.kind = "echo" -> <<id, k>>
              [] req.kind = "get" -> Led(led)
              [] OTHER -> readWriteBuffer[k]
WriteSize == Least(req.len % ByteRange, BufferSize)

\* The host's place in its transfer
HostPlace ==
    /\ phase = "setup" => moved = 0 /\ got = <<>> /\ toggle = 1
    /\ phase \in {"in", "statusOut"} => req.kind \in FromDevice
    /\ phase = "out" => req.kind = "write" /\ moved < req.len
    /\ phase = "statusIn" => req.kind \notin FromDevice /\ (req.kind = "write" => moved = req.len)
    /\ phase = "statusOut" => usbRx = None
    /\ ok => phase = "idle" /\ usbRx = None

\* A request that waits for usbPoll is the host's
SetupIsCurrent ==
    phase \in {"out", "in", "statusIn"} /\ usbRx.token = "SETUP" =>
        /\ usbRx.req = req /\ usbRx.id = id
        /\ moved = 0 /\ got = <<>> /\ toggle = 1

\* Once it is processed, what the host has got, what the next packet holds
\* and what is left of the message make up the reply.
ReplyGoes ==
    phase \in {"in", "statusIn"} /\ usbRx.token # "SETUP" /\ req.kind # "write" =>
        /\ usbRx = None
        /\ \A k \in 1..ReplySize : Source[k] = Reply(k)
        /\ Len(got) <= ReplySize /\ \A k \in 1..Len(got) : got[k] = Reply(k)
        /\ usbTxLen = "NAK" =>
             /\ usbTxBuf.toggle = 1 - toggle
             /\ usbMsgLen = ReplySize - Len(got)
             /\ req.kind \in FromDevice => usbMsgPtr.pos = Len(got)
        /\ usbTxLen = "DATA" =>
             LET n == Len(usbTxBuf.data)
             IN  /\ usbTxBuf.toggle = toggle
                 /\ n = Least(ReplySize - Len(got), Chunk)
                 /\ \A k \in 1..n : usbTxBuf.data[k] = Reply(Len(got) + k)
                 /\ usbMsgLen = IF n < Chunk THEN USB_NO_MSG ELSE ReplySize - Len(got) - n
                 /\ req.kind \in FromDevice => usbMsgPtr.pos = Len(got) + n

\* What the host has sent is stored, except the chunk that waits for usbPoll
\* and what is past the end of the buffer.
Waits == IF usbRx.token = "OUT" THEN Len(usbRx.data) ELSE 0
WriteGoes ==
    phase \in {"out", "statusIn"} /\ usbRx.token # "SETUP" /\ req.kind = "write" =>
        /\ usbMsgFlags /\ usbMsgLen \in {USB_NO_MSG, 0}
        /\ toggle = 1 /\ got = <<>>
        /\ usbTxLen = "NAK" => usbTxBuf.toggle = 0
        /\ usbTxLen = "DATA" => usbTxBuf.toggle = 1 /\ usbTxBuf.data = <<>>
        /\ Waits <= moved
        /\ currentPosition = Least(moved - Waits, WriteSize)
        /\ bytesRemaining = WriteSize - currentPosition
        /\ \A k \in 1..currentPosition : readWriteBuffer[k] = <<id, k>>
        /\ \A k \in 1..Waits : usbRx.data[k] = <<id, moved - Waits + k>>

\* A reply that ended is complete, and so is a block that was written
Finished ==
    /\ phase = "statusOut" \/ (ok /\ req.kind \in FromDevice) =>
         Len(got) = ReplySize /\ \A k \in 1..ReplySize : got[k] = Reply(k)
    /\ ok /\ req.kind = "write" => \A k \in 1..WriteSize : readWriteBuffer[k] = <<id, k>>

\* The inductive invariant of the data, with Types.
Flow == HostPlace /\ SetupIsCurrent /\ ReplyGoes /\ WriteGoes /\ Finished

-----------------------------------------------------------------------------
(* The sizes of requests and messages.                                     *)

\* A request has the length and the value of its kind.
LEMMA RequestShape ==
    ASSUME NEW r \in Requests
    PROVE  /\ r.kind \in Kinds /\ r.len \in Nat
           /\ r.kind = "echo" => r.len = EchoSize
           /\ r.kind = "get" => r.len = 1
           /\ r.kind \in {"set", "address"} => r.len = 0
           /\ r.kind \in {"read", "write"} => r.len \in Lengths /\ r.len > 0
           /\ r.kind = "set" => r.value \in 0..1
           /\ r.kind = "address" => r.value \in Addresses
<1>1. (\A n \in Lengths : n \in Nat /\ n > 0) /\ EchoSize \in Nat
  BY SizesAssumption, HostAssumption
<1>2. CASE r \in [kind : {"echo"}, len : {EchoSize}, value : {0}]
  BY <1>1, <1>2 DEF Kinds
<1>3. CASE r \in [kind : {"get"}, len : {1}, value : {0}]
  BY <1>3 DEF Kinds
<1>4. CASE r \in [kind : {"set"}, len : {0}, value : 0..1]
  BY <1>4 DEF Kinds
<1>5. CASE r \in [kind : {"read", "write"}, len : Lengths, value : {0}]
  <2>0. r.len \in Lengths /\ r.kind \in {"read", "write"}
    BY <1>5
  <2>1. r.len \in Nat /\ r.len > 0 /\ r.len \in Lengths /\ r.kind \in {"read", "write"}
    BY <1>1, <2>0
  <2> QED BY <2>1 DEF Kinds
<1>6. CASE r \in [kind : {"address"}, len : {0}, value : Addresses]
  BY <1>6 DEF Kinds
<1> QED BY <1>2, <1>3, <1>4, <1>5, <1>6 DEF Requests

\* USB_NO_MSG is the length of no message.
LEMMA ReplyLengths ==
    ASSUME NEW r \in Requests
    PROVE  /\ USB_NO_MSG \in Nat /\ USB_NO_MSG > 0
           /\ r.kind = "write" => ReplyLength(r.kind) = USB_NO_MSG
           /\ r.kind # "write" => ReplyLength(r.kind) \in 0..(USB_NO_MSG - 1)
           /\ r.kind = "read" => ReplyLength(r.kind) = BufferSize
           /\ r.kind \in {"echo", "get"} => ReplyLength(r.kind) \in 1..EchoSize
           /\ r.kind \in {"set", "address"} => ReplyLength(r.kind) = 0
<1>1. r.kind \in Kinds
  BY RequestShape
<1> QED BY <1>1, SizesAssumption DEF ReplyLength, Kinds, USB_NO_MSG

\* A reply is cut to what the host asked for; a write has none yet.
LEMMA MessageLengths ==
    ASSUME NEW r \in Requests
    PROVE  /\ r.kind = "write" => MessageLength(r) = USB_NO_MSG
           /\ r.kind # "write" =>
                /\ MessageLength(r) = Least(ReplyLength(r.kind), r.len)
                /\ MessageLength(r) \in 0..ReplyLength(r.kind)
                /\ MessageLength(r) # USB_NO_MSG
<1>1. r.len \in Nat
  BY RequestShape
<1>2. USB_NO_MSG = ByteRange - 1 /\ ByteRange \in Nat
  BY SizesAssumption DEF USB_NO_MSG
<1> QED BY <1>1, <1>2, ReplyLengths DEF MessageLength, Least

\* The buffer only takes what is left of it.
LEMMA ChunkFits ==
    ASSUME FirmwareTypes, NEW n \in Nat
    PROVE  LET len == Least(n, bytesRemaining)
           IN  /\ len \in 0..n /\ currentPosition + len \in 0..BufferSize
               /\ (bytesRemaining - len) % ByteRange = bytesRemaining - len
               /\ bytesRemaining - len \in 0..(BufferSize - (currentPosition + len))
<1> DEFINE len == Least(n, bytesRemaining)
<1>1. /\ currentPosition \in Nat /\ bytesRemaining \in Nat /\ BufferSize \in Nat
      /\ currentPosition + bytesRemaining <= BufferSize
      /\ ByteRange \in Nat /\ BufferSize < ByteRange
  BY SizesAssumption DEF FirmwareTypes
<1>2. len \in Nat /\ len <= n /\ len <= bytesRemaining
  BY <1>1 DEF Least
<1>3. bytesRemaining - len \in 0..ByteRange-1
  BY <1>1, <1>2
<1>4. (bytesRemaining - len) % ByteRange = bytesRemaining - len
  BY <1>1, <1>3
<1> HIDE DEF len
<1>5. /\ currentPosition + len \in 0..BufferSize
      /\ bytesRemaining - len \in 0..(BufferSize - (currentPosition + len))
      /\ len \in 0..n
  BY <1>1, <1>2
<1> QED BY <1>4, <1>5 DEF len

\* What waits for usbPoll is told from its token.
LEMMA RxKinds ==
    ASSUME DriverTypes
    PROVE  /\ usbRx.token \in {"none", "SETUP", "OUT"}
           /\ usbRx.token = "none" => usbRx = None
           /\ usbRx = None => usbRx.token = "none"
           /\ usbRx.token = "SETUP" => usbRx.req \in Requests /\ usbRx.id \in 0..MaxTransfers
           /\ usbRx.token = "OUT" => usbRx.data \in Seq(Bytes) /\ Len(usbRx.data) <= Chunk
BY DEF DriverTypes, None, Setups, Chunks

-----------------------------------------------------------------------------
(* Types.                                                                  *)

\* usbInit() and the host start with their types.
LEMMA TypesInit == Init => Types
<1> SUFFICES ASSUME Init PROVE Types
  OBVIOUS
<1>1. /\ 0 \in 0..MaxTransfers /\ <<0, 0>> \in Bytes /\ USB_NO_MSG \in Nat
      /\ EchoSize \in Nat /\ BufferSize \in Nat /\ Chunk \in Nat
  BY SizesAssumption, HostAssumption DEF Bytes, USB_NO_MSG
<1>2. DriverTypes
  <2>1. usbTxBuf \in [toggle : 0..1, data : Seq(Bytes)] /\ Len(usbTxBuf.data) = 0
    BY DEF Init
  <2>2. usbRx = None /\ None.token # "OUT"
    BY DEF Init, None
  <2>3. usbMsgPtr \in [src : {"data", "buffer"}, pos : Nat] /\ usbMsgPtr.pos <= SourceSize
    BY <1>1 DEF Init, SourceSize
  <2>4. /\ pc = "rx" /\ usbTxLen = "NAK" /\ usbMsgLen = USB_NO_MSG 
        /\ usbDeviceAddr = 0 /\ usbNewDeviceAddr = 0
    BY DEF Init
  <2>5. usbMsgFlags \in BOOLEAN
    BY DEF Init
  <2> QED BY <1>1, <2>1, <2>2, <2>3, <2>4, <2>5, SizesAssumption DEF DriverTypes
<1>3. FirmwareTypes
  BY <1>1 DEF Init, FirmwareTypes
<1>4. HostTypes
  <2>1. req \in [kind : {"set"}, len : {0}, value : 0..1]
    BY DEF Init
  <2>2. req \in Requests
    BY <2>1 DEF Requests
  <2>3. ok \in BOOLEAN
    BY DEF Init
  <2> QED BY <1>1, <2>2, <2>3 DEF Init, HostTypes
<1> QED BY <1>2, <1>3, <1>4 DEF Types

\* A request leaves the firmware and the message with their types.
LEMMA SetupTypes ==
    ASSUME DriverTypes, FirmwareTypes, NEW r \in Requests, NEW n \in 0..MaxTransfers,
           ProcessSetup(r, n), pc' \in {"rx", "tx", "line"}, usbRx' = None,
           UNCHANGED usbDeviceAddr
    PROVE  DriverTypes' /\ FirmwareTypes'
<1>1. /\ EchoSize \in Nat \ {0} /\ BufferSize \in Nat \ {0} /\ Chunk \in Nat
      /\ ByteRange \in Nat /\ BufferSize < ByteRange /\ MaxTransfers \in Nat
  BY SizesAssumption, HostAssumption
<1>2. FirmwareTypes'
  <2>1. FunctionSetup(r, n)
    BY DEF ProcessSetup
  <2>2. dataBuffer' \in [1..EchoSize -> Bytes]
    <3>1. Echo(n) \in [1..EchoSize -> Bytes]
      BY <1>1 DEF Echo, Bytes
    <3>2. Led(led) \in Bytes
      BY <1>1 DEF FirmwareTypes, Led, Bytes
    <3>3. [dataBuffer EXCEPT ![1] = Led(led)] \in [1..EchoSize -> Bytes]
      BY <3>2 DEF FirmwareTypes
    <3> QED BY <2>1, <3>1, <3>3 DEF FunctionSetup, FirmwareTypes
  <2>3. led' \in 0..1
    BY <2>1, RequestShape DEF FunctionSetup, FirmwareTypes
  <2>4. readWriteBuffer' \in [1..BufferSize -> Bytes]
    BY <2>1 DEF FunctionSetup, FirmwareTypes
  <2>5. /\ currentPosition' \in 0..BufferSize
        /\ bytesRemaining' \in 0..(BufferSize - currentPosition')
    <3>1. r.len % ByteRange \in Nat
      BY <1>1, RequestShape
    <3>2. Least(r.len % ByteRange, BufferSize) \in 0..BufferSize
      BY <1>1, <3>1 DEF Least
    <3>3. StartBlock(r)
      BY <2>1 DEF FunctionSetup
    <3> QED BY <1>1, <3>2, <3>3 DEF StartBlock, FirmwareTypes
  <2> QED BY <2>2, <2>3, <2>4, <2>5 DEF FirmwareTypes
<1>3. DriverTypes'
  <2>1. usbTxLen' = "NAK" /\ usbTxBuf' = [usbTxBuf EXCEPT !.toggle = 0]
    BY DEF ProcessSetup, AbortReply
  <2>2. /\ usbTxBuf' \in [toggle : 0..1, data : Seq(Bytes)]
        /\ Len(usbTxBuf'.data) <= Chunk
    BY <2>1 DEF DriverTypes
  <2>3. /\ usbMsgLen' = MessageLength(r) /\ usbMsgFlags' \in BOOLEAN
        /\ usbNewDeviceAddr' = IF r.kind = "address" THEN r.value ELSE usbNewDeviceAddr
        /\ usbMsgPtr' = CASE r.kind = "read" -> [src |-> "buffer", pos |-> 0]
                          [] r.kind \in {"echo", "get"} -> [src |-> "data", pos |-> 0]
                          [] OTHER -> usbMsgPtr
    BY DEF ProcessSetup
  <2>4. usbNewDeviceAddr' \in Addresses \cup {0}
    BY <2>3, RequestShape DEF DriverTypes
  <2>5. usbMsgLen' \in 0..USB_NO_MSG
    BY <2>3, MessageLengths, ReplyLengths
  <2>6. usbMsgPtr' \in [src : {"data", "buffer"}, pos : Nat]
    BY <2>3 DEF DriverTypes
  <2>7. /\ usbMsgPtr'.pos <= SourceSize'
        /\ usbMsgLen' # USB_NO_MSG => usbMsgPtr'.pos + usbMsgLen' <= SourceSize'
    <3>1. CASE r.kind = "read"
      BY <1>1, <2>3, <3>1, MessageLengths, ReplyLengths DEF SourceSize
    <3>2. CASE r.kind \in {"echo", "get"}
      BY <1>1, <2>3, <3>2, MessageLengths, ReplyLengths DEF SourceSize
    <3>3. CASE r.kind \in {"set", "address"}
      <4>1. usbMsgLen' = 0 /\ usbMsgPtr' = usbMsgPtr
        BY <2>3, <3>3, MessageLengths, ReplyLengths
      <4> QED BY <4>1 DEF DriverTypes, SourceSize
    <3>4. CASE r.kind = "write"
      <4>1. usbMsgLen' = USB_NO_MSG /\ usbMsgPtr' = usbMsgPtr
        BY <2>3, <3>4, MessageLengths
      <4> QED BY <4>1 DEF DriverTypes, SourceSize, USB_NO_MSG
    <3> QED BY <3>1, <3>2, <3>3, <3>4, RequestShape DEF Kinds
  <2>8. usbRx' \in {None} \cup Setups \cup Chunks /\ usbRx'.token # "OUT"
    BY DEF None
  <2> QED BY <2>1, <2>2, <2>3, <2>4, <2>5, <2>6, <2>7, <2>8 DEF DriverTypes, USB_NO_MSG
<1> QED BY <1>2, <1>3

\* A chunk is stored inside the buffer.
LEMMA WriteTypes ==
    ASSUME FirmwareTypes, NEW data \in Seq(Bytes), FunctionWrite(data)
    PROVE  FirmwareTypes' /\ usbMsgLen' \in {0, usbMsgLen}
<1> DEFINE len == Least(Len(data), bytesRemaining)
<1>1. Len(data) \in Nat
  OBVIOUS
<1>2. /\ len \in 0..Len(data) /\ currentPosition + len \in 0..BufferSize
      /\ (bytesRemaining - len) % ByteRange = bytesRemaining - len
      /\ bytesRemaining - len \in 0..(BufferSize - (currentPosition + len))
  BY <1>1, ChunkFits
<1>3. StoreChunk(data, len)
  BY DEF FunctionWrite
<1> HIDE DEF len
<1>4. readWriteBuffer' \in [1..BufferSize -> Bytes]
  <2>1. \A k \in 1..len : data[k] \in Bytes
    BY <1>1, <1>2
  <2> QED BY <1>3, <2>1 DEF StoreChunk, FirmwareTypes
<1> QED BY <1>2, <1>3, <1>4 DEF StoreChunk, FirmwareTypes, FunctionWrite

\* usbProcessRx keeps the types.
LEMMA TypesPollRx ==
    ASSUME Types, PollRx
    PROVE  Types'
<1>1. /\ pc' = "tx" /\ usbRx' = None /\ UNCHANGED <<transfer, bus>>
  BY DEF PollRx
<1>2. HostTypes'
  BY <1>1 DEF Types, HostTypes, transfer, bus
<1>3. CASE usbRx.token = "SETUP"
  <2>1. ProcessSetup(usbRx.req, usbRx.id) /\ UNCHANGED usbDeviceAddr
    BY <1>3 DEF PollRx
  <2>2. usbRx.req \in Requests /\ usbRx.id \in 0..MaxTransfers
    BY <1>3, RxKinds DEF Types
  <2> QED BY <1>1, <1>2, <2>1, <2>2, SetupTypes DEF Types
<1>4. CASE usbRx.token = "OUT" /\ usbMsgFlags
  <2>1. /\ FunctionWrite(usbRx.data)
        /\ UNCHANGED <<usbTxLen, usbTxBuf, usbMsgPtr, usbMsgFlags, addresses>>
    BY <1>4 DEF PollRx
  <2>2. usbRx.data \in Seq(Bytes)
    BY <1>4, RxKinds DEF Types
  <2>3. FirmwareTypes' /\ usbMsgLen' \in {0, usbMsgLen}
    BY <2>1, <2>2, WriteTypes DEF Types
  <2>4. DriverTypes'
    <3>1. usbMsgLen' \in 0..USB_NO_MSG
      BY <2>3, SizesAssumption DEF Types, DriverTypes, USB_NO_MSG
    <3>2. SourceSize' = SourceSize /\ SourceSize \in Nat
      BY <2>1, SizesAssumption DEF SourceSize
    <3>3. usbMsgLen' # USB_NO_MSG => usbMsgPtr'.pos + usbMsgLen' <= SourceSize'
      BY <2>1, <2>3, <3>2 DEF Types, DriverTypes
    <3> QED BY <1>1, <2>1, <3>1, <3>2, <3>3 DEF Types, DriverTypes, addresses, None, USB_NO_MSG
  <2> QED BY <1>2, <2>3, <2>4 DEF Types
<1>5. CASE UNCHANGED <<usbTxLen, usbTxBuf, message, addresses, firmware>>
  BY <1>1, <1>2, <1>5
     DEF Types, DriverTypes, FirmwareTypes, SourceSize, message, addresses, firmware, None
<1> QED BY <1>3, <1>4, <1>5 DEF PollRx

\* usbBuildTxBlock takes a packet from inside the message.
LEMMA TypesPollTx ==
    ASSUME Types, PollTx
    PROVE  Types'
<1>1. /\ pc' = "line" /\ UNCHANGED <<usbRx, usbMsgFlags, addresses, firmware, transfer, bus>>
  BY DEF PollTx
<1>2. HostTypes' /\ FirmwareTypes'
  BY <1>1 DEF Types, HostTypes, FirmwareTypes, transfer, bus, firmware
<1>3. CASE usbTxLen = "NAK" /\ usbMsgLen # USB_NO_MSG
  <2> DEFINE len == Least(usbMsgLen, Chunk)
  <2>1. BuildTxBlock
    BY <1>3 DEF PollTx
  <2>2. /\ usbMsgLen \in Nat /\ Chunk \in Nat \ {0} /\ usbMsgPtr.pos \in Nat
        /\ USB_NO_MSG \in Nat /\ usbMsgLen <= USB_NO_MSG
        /\ EchoSize \in Nat /\ BufferSize \in Nat
        /\ usbMsgPtr.pos + usbMsgLen <= SourceSize /\ SourceSize \in Nat
    BY <1>3, SizesAssumption DEF Types, DriverTypes, SourceSize, USB_NO_MSG
  <2>3. len \in Nat /\ len <= usbMsgLen /\ len <= Chunk
    BY <2>2 DEF Least
  <2>4. /\ usbTxBuf' = [toggle |-> 1 - usbTxBuf.toggle,
                        data |-> [k \in 1..len |-> Source[usbMsgPtr.pos + k]]]
        /\ usbTxLen' = "DATA"
        /\ usbMsgLen' = IF len < Chunk THEN USB_NO_MSG ELSE usbMsgLen - len
        /\ usbMsgPtr' = [usbMsgPtr EXCEPT !.pos = @ + len]
    BY <2>1 DEF BuildTxBlock
  <2> HIDE DEF len
  <2>5. \A k \in 1..len : Source[usbMsgPtr.pos + k] \in Bytes
    BY <2>2, <2>3 DEF Source, SourceSize, Types, FirmwareTypes
  <2>6. /\ [k \in 1..len |-> Source[usbMsgPtr.pos + k]] \in Seq(Bytes)
        /\ Len([k \in 1..len |-> Source[usbMsgPtr.pos + k]]) = len
    BY <2>3, <2>5
  <2>7. /\ usbTxBuf' \in [toggle : 0..1, data : Seq(Bytes)]
        /\ Len(usbTxBuf'.data) <= Chunk
    BY <2>3, <2>4, <2>6 DEF Types, DriverTypes
  <2>8. /\ usbMsgPtr' \in [src : {"data", "buffer"}, pos : Nat]
        /\ usbMsgPtr'.src = usbMsgPtr.src /\ usbMsgPtr'.pos = usbMsgPtr.pos + len
    BY <2>2, <2>3, <2>4 DEF Types, DriverTypes
  <2>9. /\ SourceSize' = SourceSize /\ usbMsgPtr'.pos <= SourceSize
        /\ usbMsgLen' \in 0..USB_NO_MSG
        /\ usbMsgLen' # USB_NO_MSG => usbMsgPtr'.pos + usbMsgLen' <= SourceSize
    <3>1. SourceSize' = SourceSize
      BY <2>8 DEF SourceSize
    <3> QED BY <2>2, <2>3, <2>4, <2>8, <3>1
  <2> QED
    BY <1>1, <1>2, <2>4, <2>7, <2>8, <2>9 DEF Types, DriverTypes, addresses, USB_NO_MSG
<1>4. CASE ~(usbTxLen = "NAK" /\ usbMsgLen # USB_NO_MSG)
  BY <1>1, <1>2, <1>4 DEF PollTx, Types, DriverTypes, SourceSize, addresses
<1> QED BY <1>3, <1>4

\* A packet of the host has its type.
LEMMA TypesTransact ==
    ASSUME Types, HostPlace, Transact
    PROVE  Types'
<1>1. CASE SetupPacket
  <2>1. [token |-> "SETUP", req |-> req, id |-> id] \in Setups
    BY DEF Types, HostTypes, Setups
  <2>2. /\ usbRx' = [token |-> "SETUP", req |-> req, id |-> id]
        /\ UNCHANGED <<pc, usbTxLen, usbTxBuf, message, addresses, firmware>>
        /\ UNCHANGED <<req, id, moved, got, toggle, ok, address, bus>>
        /\ phase' \in {"out", "in", "statusIn"}
    BY <1>1 DEF SetupPacket, HandleData
  <2>3. usbRx' \in Setups /\ usbRx'.token # "OUT"
    BY <2>1, <2>2
  <2> QED
    BY <2>2, <2>3 DEF Types, DriverTypes, FirmwareTypes, HostTypes, SourceSize,
       message, addresses, firmware, bus
<1>2. CASE OutPacket
  <2> DEFINE n == Least(Chunk, req.len - moved)
             d == [k \in 1..n |-> <<id, moved + k>>]
  <2>1. /\ usbRx' = [token |-> "OUT", data |-> d]
        /\ UNCHANGED <<pc, usbTxLen, usbTxBuf, message, addresses, firmware>>
        /\ UNCHANGED <<req, id, got, toggle, ok, address, bus>>
        /\ moved' = moved + n /\ phase' \in {"statusIn", "out"} /\ phase = "out"
    BY <1>2 DEF OutPacket, HandleData
  <2>2. /\ Chunk \in Nat /\ req.len \in Nat /\ moved \in Nat /\ id \in 0..MaxTransfers
        /\ MaxTransfers \in Nat
    BY SizesAssumption, HostAssumption, RequestShape DEF Types, HostTypes
  <2>3. n \in Nat /\ n <= Chunk
    BY <2>1, <2>2 DEF Least, HostPlace
  <2>4. \A k \in 1..n : <<id, moved + k>> \in Bytes
    BY <2>2, <2>3 DEF Bytes
  <2> HIDE DEF n
  <2>5. d \in Seq(Bytes) /\ Len(d) = n
    BY <2>3, <2>4
  <2> HIDE DEF d
  <2>6. usbRx' \in Chunks /\ Len(usbRx'.data) <= Chunk
    BY <2>1, <2>3, <2>5 DEF Chunks
  <2> QED
    BY <2>1, <2>2, <2>3, <2>6 DEF Types, DriverTypes, FirmwareTypes, HostTypes,
       SourceSize, message, addresses, firmware, bus
<1>3. CASE InPacket
  <2>1. /\ usbTxLen' = "NAK" /\ usbDeviceAddr' = usbNewDeviceAddr
        /\ UNCHANGED <<pc, usbRx, usbTxBuf, message, usbNewDeviceAddr, firmware>>
        /\ UNCHANGED <<req, id, moved, ok, address, bus>>
        /\ \/ /\ got' = got \o usbTxBuf.data /\ toggle' = 1 - toggle
              /\ phase' \in {"statusOut", "in"}
           \/ UNCHANGED <<got, toggle, phase>>
    BY <1>3 DEF InPacket, HandleIn, AssignAddress
  <2>2. got \in Seq(Bytes) /\ usbTxBuf.data \in Seq(Bytes) /\ toggle \in 0..1
    BY DEF Types, HostTypes, DriverTypes
  <2>3. got' \in Seq(Bytes) /\ toggle' \in 0..1
    <3>1. got \o usbTxBuf.data \in Seq(Bytes)
      BY <2>2
    <3>2. 1 - toggle \in 0..1
      BY <2>2
    <3> QED BY <2>1, <2>2, <3>1, <3>2
  <2> QED
    BY <2>1, <2>3 DEF Types, DriverTypes, FirmwareTypes, HostTypes, SourceSize,
       message, firmware, bus
<1>4. CASE StatusOut
  BY <1>4 DEF StatusOut, HandleEmpty, HandleIn, AssignAddress, Types, DriverTypes,
     FirmwareTypes, HostTypes, SourceSize, device, message, addresses, firmware, bus
<1>5. CASE StatusIn
  BY <1>5 DEF StatusIn, HandleEmpty, HandleIn, AssignAddress, Types, DriverTypes,
     FirmwareTypes, HostTypes, SourceSize, device, message, addresses, firmware, bus
<1> QED BY <1>1, <1>2, <1>3, <1>4, <1>5 DEF Transact

\* The host's decisions, the reset line and a round without a step change no
\* type.
LEMMA TypesHost ==
    ASSUME Types,
           \/ \E r \in Requests : Start(r)
           \/ Abandon \/ ResetStart \/ ResetEnd \/ PollLine \/ UNCHANGED vars
    PROVE  Types'
<1> USE DEF Types, DriverTypes, FirmwareTypes, HostTypes, SourceSize,
            device, transfer, bus, message, addresses, firmware
<1>1. ASSUME NEW r \in Requests, Start(r) PROVE Types'
  <2>1. id' \in 0..MaxTransfers
    BY <1>1, HostAssumption DEF Start
  <2>2. got' \in Seq(Bytes)
    BY <1>1 DEF Start
  <2>3. ok' \in BOOLEAN
    BY <1>1 DEF Start
  <2> QED BY <1>1, <2>1, <2>2, <2>3 DEF Start
<1>2. CASE Abandon
  BY <1>2 DEF Abandon
<1>3. CASE ResetStart
  <2>1. ok' \in BOOLEAN
    BY <1>3 DEF ResetStart
  <2> QED BY <1>3, <2>1 DEF ResetStart
<1>4. CASE ResetEnd
  BY <1>4 DEF ResetEnd
<1>5. CASE PollLine
  <2>1. polls' \in 0..2
    BY <1>5 DEF PollLine, Least
  <2> QED BY <1>5, <2>1 DEF PollLine
<1>6. CASE UNCHANGED vars
  BY <1>6 DEF vars
<1> QED BY <1>1, <1>2, <1>3, <1>4, <1>5, <1>6

-----------------------------------------------------------------------------
(* Where the bytes are.                                                    *)

\* The sizes of the current reply and of the current block
LEMMA CurrentSizes ==
    ASSUME Types
    PROVE  /\ req.len \in Nat /\ req.kind \in Kinds
           /\ req.kind = "write" => req.len > 0
           /\ WriteSize \in 0..BufferSize /\ WriteSize <= req.len
           /\ req.kind # "write" =>
                /\ ReplySize \in Nat /\ ReplySize <= req.len /\ ReplySize < USB_NO_MSG
                /\ MessageLength(req) = ReplySize
           /\ req.kind \in {"set", "address"} => ReplySize = 0
           /\ req.kind = "echo" => ReplySize = EchoSize
           /\ req.kind = "get" => ReplySize = 1
           /\ req.kind = "read" => ReplySize <= BufferSize
<1>1. req \in Requests
  BY DEF Types, HostTypes
<1>2. req.len \in Nat /\ req.kind \in Kinds
  BY <1>1, RequestShape
<1>3. WriteSize \in 0..BufferSize /\ WriteSize <= req.len
  <2>1. req.len % ByteRange \in Nat /\ req.len % ByteRange <= req.len
    BY <1>2, SizesAssumption
  <2> QED BY <1>2, <2>1, SizesAssumption DEF WriteSize, Least
<1>4. USB_NO_MSG \in Nat /\ EchoSize \in Nat \ {0} /\ BufferSize \in Nat
  BY SizesAssumption DEF USB_NO_MSG
<1>5. req.kind # "write" =>
        /\ ReplySize \in Nat /\ ReplySize <= req.len /\ ReplySize < USB_NO_MSG
        /\ MessageLength(req) = ReplySize
  BY <1>1, <1>2, <1>4, ReplyLengths, MessageLengths DEF ReplySize, Least
<1>6. /\ req.kind \in {"set", "address"} => ReplySize = 0
      /\ req.kind = "echo" => ReplySize = EchoSize
      /\ req.kind = "get" => ReplySize = 1
      /\ req.kind = "read" => ReplySize <= BufferSize
  BY <1>1, <1>2, <1>4, RequestShape DEF ReplySize, ReplyLength, Least
<1> QED BY <1>1, <1>2, <1>3, <1>5, <1>6, RequestShape

\* Nothing is being moved: before a request is made and after it was given up.
LEMMA FlowAtRest ==
    ASSUME phase' = "idle", ok' = FALSE
    PROVE  Flow'
BY DEF Flow, HostPlace, SetupIsCurrent, ReplyGoes, WriteGoes, Finished

\* A step that leaves the request, the bytes and what carries them alone.
LEMMA FlowFrame ==
    ASSUME Flow,
           UNCHANGED <<usbRx, usbTxLen, usbTxBuf, message, firmware, phase, req,
                       id, moved, got, toggle, ok>>
    PROVE  Flow'
<1>1. /\ ReplySize' = ReplySize /\ WriteSize' = WriteSize /\ Waits' = Waits
      /\ Source' = Source
      /\ \A k : Reply(k)' = Reply(k)
  BY DEF ReplySize, WriteSize, Waits, Source, Reply, message, firmware
<1>2. HostPlace' /\ SetupIsCurrent'
  BY DEF Flow, HostPlace, SetupIsCurrent
<1>3. ReplyGoes'
  BY <1>1 DEF Flow, ReplyGoes, message, firmware
<1>4. WriteGoes'
  BY <1>1 DEF Flow, WriteGoes, message, firmware
<1>5. Finished'
  BY <1>1 DEF Flow, Finished, firmware
<1> QED BY <1>2, <1>3, <1>4, <1>5 DEF Flow

\* A request that is processed starts its reply or its block from nothing.
LEMMA FlowSetup ==
    ASSUME Types, Types', Flow, PollRx, usbRx.token = "SETUP"
    PROVE  Flow'
<1>1. /\ ProcessSetup(usbRx.req, usbRx.id) /\ usbRx' = None /\ usbRx'.token = "none"
      /\ UNCHANGED <<phase, req, id, moved, got, toggle, ok>>
  BY DEF PollRx, transfer, None
<1>2. phase # "statusOut" /\ ~ok
  BY DEF Flow, HostPlace, None
<1>3. HostPlace' /\ SetupIsCurrent' /\ Finished'
  BY <1>1, <1>2 DEF Flow, HostPlace, SetupIsCurrent, Finished
<1>4. ASSUME phase \in {"out", "in", "statusIn"}
      PROVE  /\ ProcessSetup(req, id) /\ moved = 0 /\ got = <<>> /\ Len(got) = 0
             /\ toggle = 1 /\ usbTxLen' = "NAK" /\ usbTxBuf'.toggle = 0
             /\ usbMsgLen' = MessageLength(req)
  BY <1>1, <1>4 DEF Flow, SetupIsCurrent, ProcessSetup, AbortReply, Types, DriverTypes
<1>5. ReplyGoes'
  <2> SUFFICES ASSUME phase \in {"in", "statusIn"}, req.kind # "write" PROVE ReplyGoes'
    BY <1>1 DEF ReplyGoes
  <2>1. ReplySize' = ReplySize /\ FunctionSetup(req, id) /\ ReplySize \in Nat
        /\ MessageLength(req) = ReplySize
    BY <1>1, <1>4, CurrentSizes DEF ReplySize, ProcessSetup
  <2>2. ASSUME req.kind = "echo"
        PROVE  /\ \A k \in 1..ReplySize' : Source'[k] = Reply(k)'
               /\ req.kind \in FromDevice => usbMsgPtr'.pos = 0
    <3>1. usbMsgPtr' = [src |-> "data", pos |-> 0] /\ dataBuffer' = Echo(id)
      BY <1>4, <2>1, <2>2 DEF ProcessSetup, FunctionSetup
    <3>2. Source' = Echo(id) /\ ReplySize = EchoSize /\ \A k : Reply(k)' = <<id, k>>
      BY <1>1, <2>2, <3>1, CurrentSizes DEF Source, Reply
    <3>3. \A k \in 1..EchoSize : Echo(id)[k] = <<id, k>>
      BY DEF Echo
    <3> QED BY <1>4, <2>1, <3>1, <3>2, <3>3
  <2>3. ASSUME req.kind = "get"
        PROVE  /\ \A k \in 1..ReplySize' : Source'[k] = Reply(k)'
               /\ req.kind \in FromDevice => usbMsgPtr'.pos = 0
    <3>1. /\ usbMsgPtr' = [src |-> "data", pos |-> 0] /\ led' = led
          /\ dataBuffer' = [dataBuffer EXCEPT ![1] = Led(led)]
      BY <1>4, <2>1, <2>3 DEF ProcessSetup, FunctionSetup
    <3>2. Source'[1] = Led(led) /\ ReplySize = 1 /\ \A k : Reply(k)' = Led(led)
      BY <1>1, <2>3, <3>1, CurrentSizes, SizesAssumption
         DEF Source, Reply, Types, FirmwareTypes, Led
    <3> QED BY <1>4, <2>1, <3>1, <3>2
  <2>4. ASSUME req.kind = "read"
        PROVE  /\ \A k \in 1..ReplySize' : Source'[k] = Reply(k)'
               /\ req.kind \in FromDevice => usbMsgPtr'.pos = 0
    <3>1. usbMsgPtr' = [src |-> "buffer", pos |-> 0]
      BY <1>4, <2>4 DEF ProcessSetup
    <3>2. Source' = readWriteBuffer' /\ \A k : Reply(k)' = readWriteBuffer'[k]
      BY <1>1, <2>4, <3>1 DEF Source, Reply
    <3> QED BY <1>4, <2>1, <3>1, <3>2
  <2>5. ASSUME req.kind \in {"set", "address"}
        PROVE  /\ \A k \in 1..ReplySize' : Source'[k] = Reply(k)'
               /\ req.kind \in FromDevice => usbMsgPtr'.pos = 0
    <3>1. ReplySize = 0
      BY <2>5, CurrentSizes
    <3> QED BY <1>4, <2>1, <2>5, <3>1 DEF FromDevice
  <2>6. /\ \A k \in 1..ReplySize' : Source'[k] = Reply(k)'
        /\ req.kind \in FromDevice => usbMsgPtr'.pos = 0
    BY <2>2, <2>3, <2>4, <2>5, CurrentSizes DEF Kinds
  <2>7. usbMsgLen' = ReplySize' - Len(got') /\ Len(got') <= ReplySize' /\ 0 = 1 - toggle'
    BY <1>1, <1>4, <2>1
  <2>8. \A k \in 1..Len(got') : FALSE
    BY <1>1, <1>4
  <2> QED BY <1>1, <1>4, <2>6, <2>7, <2>8 DEF ReplyGoes
<1>6. WriteGoes'
  <2> SUFFICES ASSUME phase \in {"out", "statusIn"}, req.kind = "write" PROVE WriteGoes'
    BY <1>1 DEF WriteGoes
  <2>1. /\ usbMsgFlags' = (ReplyLength(req.kind) = USB_NO_MSG)
        /\ currentPosition' = 0 /\ bytesRemaining' = WriteSize
    BY <1>4 DEF ProcessSetup, FunctionSetup, StartBlock, WriteSize
  <2>2. ReplyLength(req.kind) = USB_NO_MSG /\ usbMsgLen' = USB_NO_MSG
    BY <1>4, ReplyLengths, MessageLengths DEF Types, HostTypes
  <2>3. WriteSize' = WriteSize /\ WriteSize \in Nat /\ Waits' = 0
    BY <1>1, CurrentSizes, SizesAssumption DEF WriteSize, Waits
  <2>4. 0 = Least(0, WriteSize)
    BY <2>3 DEF Least
  <2>5. usbMsgFlags'
    BY <2>1, <2>2
  <2> QED BY <1>1, <1>4, <2>1, <2>2, <2>3, <2>4, <2>5 DEF WriteGoes
<1> QED BY <1>3, <1>5, <1>6 DEF Flow

\* Storing d bytes and then w more, with room for b
LEMMA LeastTwice ==
    ASSUME NEW d \in Nat, NEW w \in Nat, NEW b \in Nat
    PROVE  LET c == Least(d, b)
               n == Least(w, b - c)
           IN  /\ c \in Nat /\ n \in Nat /\ n <= w
               /\ c + n = Least(d + w, b) /\ c + n <= b
               /\ n > 0 => c = d
BY DEF Least

\* A chunk that is processed moves from usbRx into the buffer.
LEMMA FlowChunk ==
    ASSUME Types, Types', Flow, PollRx, usbRx.token = "OUT"
    PROVE  Flow'
<1>1. /\ usbRx' = None /\ usbRx'.token = "none" /\ usbRx # None
      /\ UNCHANGED <<phase, req, id, moved, got, toggle, ok>>
  BY DEF PollRx, transfer, None
<1>2. /\ phase \notin {"statusOut", "in"} /\ ~ok
      /\ phase = "statusIn" => req.kind = "write"
  BY <1>1 DEF Flow, HostPlace, ReplyGoes, FromDevice
<1>3. HostPlace' /\ SetupIsCurrent' /\ Finished' /\ ReplyGoes'
  BY <1>1, <1>2 DEF Flow, HostPlace, SetupIsCurrent, Finished, ReplyGoes
<1>4. WriteGoes'
  <2> SUFFICES ASSUME phase \in {"out", "statusIn"}, req.kind = "write" PROVE WriteGoes'
    BY <1>1 DEF WriteGoes
  <2> DEFINE w == Len(usbRx.data)
             D == moved - w
             len == Least(w, bytesRemaining)
  <2>1. /\ usbMsgFlags /\ usbMsgLen \in {USB_NO_MSG, 0} /\ toggle = 1 /\ got = <<>>
        /\ usbTxLen = "NAK" => usbTxBuf.toggle = 0
        /\ usbTxLen = "DATA" => usbTxBuf.toggle = 1 /\ usbTxBuf.data = <<>>
        /\ w <= moved
        /\ currentPosition = Least(D, WriteSize)
        /\ bytesRemaining = WriteSize - currentPosition
        /\ \A k \in 1..currentPosition : readWriteBuffer[k] = <<id, k>>
        /\ \A k \in 1..w : usbRx.data[k] = <<id, D + k>>
    BY DEF Flow, WriteGoes, Waits
  <2>2. /\ FunctionWrite(usbRx.data)
        /\ UNCHANGED <<usbTxLen, usbTxBuf, usbMsgFlags>>
    BY <2>1 DEF PollRx
  <2>3. /\ usbRx.data \in Seq(Bytes) /\ w \in Nat /\ moved \in Nat
        /\ WriteSize \in 0..BufferSize /\ BufferSize \in Nat /\ D \in Nat
    BY <2>1, RxKinds, CurrentSizes, SizesAssumption DEF Types, HostTypes
  <2>4. /\ StoreChunk(usbRx.data, len) /\ usbMsgLen' \in {usbMsgLen, 0}
        /\ (bytesRemaining - len) % ByteRange = bytesRemaining - len
    BY <2>2, <2>3, ChunkFits DEF FunctionWrite, Types
  <2>5. /\ currentPosition' = currentPosition + len
        /\ bytesRemaining' = bytesRemaining - len
        /\ readWriteBuffer' = [k \in 1..BufferSize |->
                                 IF k - currentPosition \in 1..len
                                 THEN usbRx.data[k - currentPosition]
                                 ELSE readWriteBuffer[k]]
    BY <2>4 DEF StoreChunk
  <2>6. WriteSize' = WriteSize /\ Waits' = 0
    BY <1>1 DEF WriteSize, Waits
  <2>7. /\ currentPosition \in Nat /\ len \in Nat /\ len <= w
        /\ currentPosition + len = Least(moved, WriteSize)
        /\ currentPosition + len <= BufferSize
        /\ len > 0 => currentPosition = D
    <3>1. D + w = moved
      BY <2>3
    <3>2. WriteSize \in Nat /\ WriteSize <= BufferSize
      BY <2>3
    <3>3. /\ D \in Nat /\ w \in Nat /\ currentPosition = Least(D, WriteSize)
          /\ len = Least(w, WriteSize - Least(D, WriteSize))
      BY <2>1, <2>3
    <3> HIDE DEF D, w, len
    <3>4. LET c == Least(D, WriteSize)
              n == Least(w, WriteSize - c)
          IN  /\ c \in Nat /\ n \in Nat /\ n <= w
              /\ c + n = Least(D + w, WriteSize) /\ c + n <= WriteSize
              /\ n > 0 => c = D
      BY <3>2, <3>3, LeastTwice
    <3> QED BY <2>3, <3>1, <3>2, <3>3, <3>4
  <2>8. \A k \in 1..currentPosition' : readWriteBuffer'[k] = <<id, k>>
    <3> SUFFICES ASSUME NEW k \in 1..(currentPosition + len)
                 PROVE  readWriteBuffer'[k] = <<id, k>>
      BY <2>5
    <3> HIDE DEF len, w, D
    <3>1. k \in 1..BufferSize
      BY <2>3, <2>7
    <3>2. CASE k <= currentPosition
      <4>1. k - currentPosition \notin 1..len /\ k \in 1..currentPosition
        BY <2>7, <3>2
      <4> QED BY <2>1, <2>5, <3>1, <4>1
    <3>3. CASE k > currentPosition
      <4>1. k - currentPosition \in 1..len /\ k - currentPosition \in 1..w
        BY <2>3, <2>7, <3>3
      <4>2. currentPosition = D /\ D + (k - currentPosition) = k
        BY <2>3, <2>7, <3>3, <4>1
      <4>3. readWriteBuffer'[k] = usbRx.data[k - currentPosition]
        BY <2>5, <3>1, <4>1
      <4> QED BY <2>1, <4>1, <4>2, <4>3
    <3> QED BY <2>7, <3>2, <3>3
  <2>9. bytesRemaining' = WriteSize - currentPosition'
    BY <2>1, <2>3, <2>5, <2>7
  <2>10. currentPosition' = Least(moved' - Waits', WriteSize') /\ Waits' <= moved'
    BY <1>1, <2>3, <2>5, <2>6, <2>7
  <2>11. \A k \in 1..Waits' : FALSE
    BY <2>6
  <2>12. usbMsgLen' \in {USB_NO_MSG, 0}
    BY <2>1, <2>4
  <2> HIDE DEF len, w, D
  <2> QED BY <1>1, <2>1, <2>2, <2>6, <2>8, <2>9, <2>10, <2>11, <2>12 DEF WriteGoes
<1> QED BY <1>3, <1>4 DEF Flow

\* usbBuildTxBlock moves the next bytes of the reply into the packet; the
\* packet that ends a write is empty.
LEMMA FlowBuild ==
    ASSUME Types, Types', Flow, PollTx
    PROVE  Flow'
<1>1. UNCHANGED <<usbRx, usbMsgFlags, firmware, phase, req, id, moved, got, toggle, ok>>
  BY DEF PollTx, transfer
<1>2. CASE ~(usbTxLen = "NAK" /\ usbMsgLen # USB_NO_MSG)
  BY <1>1, <1>2, FlowFrame DEF PollTx, message
<1>3. CASE usbTxLen = "NAK" /\ usbMsgLen # USB_NO_MSG
  <2> DEFINE len == Least(usbMsgLen, Chunk)
  <2>1. /\ usbTxBuf' = [toggle |-> 1 - usbTxBuf.toggle,
                        data |-> [k \in 1..len |-> Source[usbMsgPtr.pos + k]]]
        /\ usbTxLen' = "DATA"
        /\ usbMsgLen' = IF len < Chunk THEN USB_NO_MSG ELSE usbMsgLen - len
        /\ usbMsgPtr' = [usbMsgPtr EXCEPT !.pos = @ + len]
    BY <1>3 DEF PollTx, BuildTxBlock
  <2>2. /\ usbMsgLen \in Nat /\ Chunk \in Nat \ {0} /\ usbMsgPtr.pos \in Nat
        /\ Len(got) \in Nat /\ toggle \in 0..1
    BY SizesAssumption DEF Types, DriverTypes, HostTypes, USB_NO_MSG
  <2>3. len \in Nat /\ len <= usbMsgLen /\ len <= Chunk
    BY <2>2 DEF Least
  <2>4. /\ ReplySize' = ReplySize /\ WriteSize' = WriteSize /\ Waits' = Waits
        /\ \A k : Reply(k)' = Reply(k)
    BY <1>1 DEF ReplySize, WriteSize, Waits, Reply, firmware
  <2>5. Source' = Source
    BY <1>1, <2>1 DEF Source, firmware, Types, DriverTypes
  <2>6. HostPlace' /\ SetupIsCurrent'
    BY <1>1 DEF Flow, HostPlace, SetupIsCurrent
  <2>7. Finished'
    BY <1>1, <2>4 DEF Flow, Finished, firmware
  <2>8. ReplyGoes'
    <3> SUFFICES ASSUME phase \in {"in", "statusIn"}, usbRx.token # "SETUP", req.kind # "write"
                 PROVE  ReplyGoes'
      BY <1>1 DEF ReplyGoes
    <3>1. /\ usbRx = None
          /\ \A k \in 1..ReplySize : Source[k] = Reply(k)
          /\ Len(got) <= ReplySize /\ \A k \in 1..Len(got) : got[k] = Reply(k)
          /\ usbTxBuf.toggle = 1 - toggle
          /\ usbMsgLen = ReplySize - Len(got)
          /\ req.kind \in FromDevice => usbMsgPtr.pos = Len(got)
      BY <1>3 DEF Flow, ReplyGoes
    <3>2. /\ ReplySize \in Nat
          /\ req.kind \notin FromDevice => ReplySize = 0
      BY CurrentSizes DEF Kinds, FromDevice
    <3> HIDE DEF len
    <3>3. /\ usbTxBuf'.toggle = toggle
          /\ usbTxBuf'.data = [k \in 1..len |-> Source[usbMsgPtr.pos + k]]
      BY <2>1, <2>2, <3>1
    <3>4. /\ Len(usbTxBuf'.data) = len
          /\ \A k \in 1..len : usbTxBuf'.data[k] = Source[usbMsgPtr.pos + k]
      BY <2>3, <3>3
    <3>5. len = Least(ReplySize - Len(got), Chunk)
      BY <3>1 DEF len
    <3>6. \A k \in 1..len : Source[usbMsgPtr.pos + k] = Reply(Len(got) + k)
      <4> TAKE k \in 1..len
      <4>1. Len(got) + k \in 1..ReplySize
        BY <2>2, <2>3, <3>1, <3>2
      <4>2. req.kind \in FromDevice
        BY <2>2, <3>2, <4>1
      <4> QED BY <3>1, <4>1, <4>2
    <3>7. usbMsgLen' = IF len < Chunk THEN USB_NO_MSG ELSE ReplySize - Len(got) - len
      BY <2>1, <3>1
    <3>8. req.kind \in FromDevice => usbMsgPtr'.pos = Len(got) + len
      BY <2>1, <3>1 DEF Types, DriverTypes
    <3>9. \A k \in 1..len : usbTxBuf'.data[k] = Reply(Len(got) + k)
      BY <3>4, <3>6
    <3> QED
      BY <1>1, <2>1, <2>4, <2>5, <3>1, <3>3, <3>4, <3>5, <3>7, <3>8, <3>9 DEF ReplyGoes
  <2>9. WriteGoes'
    <3> SUFFICES ASSUME phase \in {"out", "statusIn"}, usbRx.token # "SETUP", req.kind = "write"
                 PROVE  WriteGoes'
      BY <1>1 DEF WriteGoes
    <3>1. usbMsgLen = 0 /\ usbTxBuf.toggle = 0
      BY <1>3 DEF Flow, WriteGoes
    <3>2. len = 0
      BY <2>2, <3>1 DEF Least
    <3>3. usbTxBuf'.toggle = 1 /\ usbTxBuf'.data = <<>> /\ usbMsgLen' = USB_NO_MSG
      BY <2>1, <2>2, <3>1, <3>2
    <3> HIDE DEF len
    <3> QED BY <1>1, <2>1, <2>4, <3>3 DEF Flow, WriteGoes, firmware
  <2> QED BY <2>6, <2>7, <2>8, <2>9 DEF Flow
<1> QED BY <1>2, <1>3

\* The request is on its way.
LEMMA FlowSetupPacket ==
    ASSUME Types, Flow, SetupPacket
    PROVE  Flow'
<1>1. /\ phase = "setup" /\ usbRx' = [token |-> "SETUP", req |-> req, id |-> id]
      /\ UNCHANGED <<req, id, moved, got, toggle, ok>>
      /\ phase' = CASE req.kind = "write" -> "out"
                    [] req.kind \in FromDevice -> "in"
                    [] OTHER -> "statusIn"
  BY DEF SetupPacket, HandleData
<1>2. moved = 0 /\ got = <<>> /\ toggle = 1 /\ ~ok
  BY <1>1 DEF Flow, HostPlace
<1>3. HostPlace'
  BY <1>1, <1>2, CurrentSizes DEF HostPlace, FromDevice
<1>4. SetupIsCurrent'
  BY <1>1, <1>2 DEF SetupIsCurrent
<1>5. ReplyGoes' /\ WriteGoes'
  BY <1>1 DEF ReplyGoes, WriteGoes
<1>6. Finished'
  BY <1>1, <1>2 DEF Finished
<1> QED BY <1>3, <1>4, <1>5, <1>6 DEF Flow

\* The next chunk is on its way.
LEMMA FlowOutPacket ==
    ASSUME Types, Flow, OutPacket
    PROVE  Flow'
<1> DEFINE n == Least(Chunk, req.len - moved)
           d == [k \in 1..n |-> <<id, moved + k>>]
<1>1. /\ phase = "out" /\ usbRx = None /\ usbRx' = [token |-> "OUT", data |-> d]
      /\ UNCHANGED <<usbTxLen, usbTxBuf, message, firmware, req, id, got, toggle, ok>>
      /\ moved' = moved + n
      /\ phase' = IF moved' = req.len THEN "statusIn" ELSE "out"
  BY DEF OutPacket, HandleData
<1>2. req.kind = "write" /\ moved < req.len /\ ~ok /\ usbRx.token = "none"
  BY <1>1 DEF Flow, HostPlace, None
<1>3. /\ Chunk \in Nat \ {0} /\ moved \in Nat /\ req.len \in Nat
      /\ n \in Nat /\ moved + n <= req.len
  BY <1>2, CurrentSizes, SizesAssumption DEF Types, HostTypes, Least
<1> HIDE DEF n
<1>4. Len(d) = n /\ \A k \in 1..n : d[k] = <<id, moved + k>>
  BY <1>3
<1> HIDE DEF d
<1>5. usbRx'.token = "OUT" /\ usbRx'.data = d
  BY <1>1
<1>6. HostPlace'
  BY <1>1, <1>2, <1>3 DEF HostPlace, FromDevice
<1>7. SetupIsCurrent' /\ ReplyGoes' /\ Finished'
  BY <1>1, <1>2, <1>5 DEF SetupIsCurrent, ReplyGoes, Finished
<1>8. WriteGoes'
  <2>1. Waits = 0 /\ Waits' = n /\ WriteSize' = WriteSize /\ moved' - Waits' = moved
    BY <1>1, <1>2, <1>3, <1>4, <1>5 DEF Waits, WriteSize
  <2>2. /\ usbMsgFlags /\ usbMsgLen \in {USB_NO_MSG, 0} /\ toggle = 1 /\ got = <<>>
        /\ usbTxLen = "NAK" => usbTxBuf.toggle = 0
        /\ usbTxLen = "DATA" => usbTxBuf.toggle = 1 /\ usbTxBuf.data = <<>>
        /\ currentPosition = Least(moved - 0, WriteSize)
        /\ bytesRemaining = WriteSize - currentPosition
        /\ \A k \in 1..currentPosition : readWriteBuffer[k] = <<id, k>>
    BY <1>1, <1>2, <2>1 DEF Flow, WriteGoes
  <2>3. moved - 0 = moved /\ n <= moved + n
    BY <1>3
  <2> QED BY <1>1, <1>4, <1>5, <2>1, <2>2, <2>3 DEF WriteGoes, message, firmware
<1> QED BY <1>6, <1>7, <1>8 DEF Flow

\* The host takes the next packet of the reply.
LEMMA FlowInPacket ==
    ASSUME Types, Flow, InPacket
    PROVE  Flow'
<1>1. /\ phase = "in" /\ usbRx = None /\ usbTxLen = "DATA" /\ usbTxLen' = "NAK"
      /\ UNCHANGED <<usbRx, usbTxBuf, message, firmware, req, id, moved, ok>>
  BY DEF InPacket, HandleIn, AssignAddress
<1>2. req.kind \in FromDevice /\ req.kind # "write" /\ ~ok /\ usbRx.token # "SETUP"
  BY <1>1 DEF Flow, HostPlace, FromDevice, None
<1> DEFINE n == Len(usbTxBuf.data)
<1>3. /\ \A k \in 1..ReplySize : Source[k] = Reply(k)
      /\ Len(got) <= ReplySize /\ \A k \in 1..Len(got) : got[k] = Reply(k)
      /\ usbTxBuf.toggle = toggle
      /\ n = Least(ReplySize - Len(got), Chunk)
      /\ \A k \in 1..n : usbTxBuf.data[k] = Reply(Len(got) + k)
      /\ usbMsgLen = IF n < Chunk THEN USB_NO_MSG ELSE ReplySize - Len(got) - n
      /\ usbMsgPtr.pos = Len(got) + n
  BY <1>1, <1>2 DEF Flow, ReplyGoes
<1>4. /\ got' = got \o usbTxBuf.data /\ toggle' = 1 - toggle
      /\ phase' = IF n < Chunk \/ Len(got') >= req.len THEN "statusOut" ELSE "in"
  BY <1>3 DEF InPacket
<1>5. /\ got \in Seq(Bytes) /\ usbTxBuf.data \in Seq(Bytes) /\ toggle \in 0..1
      /\ Chunk \in Nat \ {0}
  BY SizesAssumption DEF Types, HostTypes, DriverTypes
<1>6. Len(got) \in Nat /\ n \in Nat /\ ReplySize \in Nat /\ req.len \in Nat /\ ReplySize <= req.len
  BY <1>2, <1>5, CurrentSizes
<1>7. /\ Len(got') = Len(got) + n
      /\ \A k \in 1..Len(got) : got'[k] = got[k]
      /\ \A k \in 1..n : got'[Len(got) + k] = usbTxBuf.data[k]
  BY <1>4, <1>5
<1> HIDE DEF n
<1>8. Len(got) + n <= ReplySize
  BY <1>3, <1>5, <1>6 DEF Least
<1>9. /\ ReplySize' = ReplySize /\ Source' = Source /\ \A k : Reply(k)' = Reply(k)
      /\ usbMsgLen' = usbMsgLen /\ usbMsgPtr' = usbMsgPtr
  BY <1>1 DEF ReplySize, Source, Reply, message, firmware
<1>10. \A k \in 1..Len(got') : got'[k] = Reply(k)'
  <2> SUFFICES ASSUME NEW k \in 1..(Len(got) + n) PROVE got'[k] = Reply(k)
    BY <1>7, <1>9
  <2>1. CASE k <= Len(got)
    <3>1. k \in 1..Len(got)
      BY <1>6, <2>1
    <3> QED BY <1>3, <1>7, <3>1
  <2>2. CASE k > Len(got)
    <3>1. k - Len(got) \in 1..n /\ Len(got) + (k - Len(got)) = k
      BY <1>6, <2>2
    <3> QED BY <1>3, <1>7, <3>1
  <2> QED BY <1>6, <2>1, <2>2
<1>11. HostPlace'
  BY <1>1, <1>2, <1>4 DEF HostPlace, FromDevice
<1>12. SetupIsCurrent' /\ WriteGoes'
  BY <1>1, <1>2 DEF SetupIsCurrent, WriteGoes
<1>13. ReplyGoes'
  <2> SUFFICES ASSUME phase' = "in" PROVE ReplyGoes'
    BY <1>4 DEF ReplyGoes
  <2>1. ~(n < Chunk)
    BY <1>4
  <2>2. /\ usbMsgLen' = ReplySize' - Len(got') /\ usbMsgPtr'.pos = Len(got')
        /\ Len(got') <= ReplySize' /\ usbTxBuf'.toggle = 1 - toggle'
    BY <1>1, <1>3, <1>4, <1>5, <1>6, <1>7, <1>8, <1>9, <2>1
  <2> QED BY <1>1, <1>3, <1>9, <1>10, <2>2 DEF ReplyGoes
<1>14. Finished'
  <2> SUFFICES ASSUME phase' = "statusOut" PROVE Finished'
    BY <1>1, <1>2 DEF Finished
  <2>1. n < Chunk \/ Len(got') >= req.len
    BY <1>4
  <2>2. Len(got') = ReplySize'
    BY <1>3, <1>5, <1>6, <1>7, <1>8, <1>9, <2>1 DEF Least
  <2> QED BY <1>1, <1>2, <1>10, <2>2 DEF Finished
<1> QED BY <1>11, <1>12, <1>13, <1>14 DEF Flow

\* The host confirms a reply.
LEMMA FlowStatusOut ==
    ASSUME Types, Flow, StatusOut
    PROVE  Flow'
<1>1. /\ phase = "statusOut" /\ phase' = "idle" /\ usbRx' = usbRx /\ usbRx = None
      /\ UNCHANGED <<firmware, req, id, got>>
  BY DEF StatusOut, HandleEmpty, device
<1>2. req.kind \in FromDevice /\ req.kind # "write"
  BY <1>1 DEF Flow, HostPlace, FromDevice
<1>3. ReplySize' = ReplySize /\ \A k : Reply(k)' = Reply(k)
  BY <1>1 DEF ReplySize, Reply, firmware
<1>4. Finished'
  BY <1>1, <1>2, <1>3 DEF Flow, Finished
<1>5. HostPlace' /\ SetupIsCurrent' /\ ReplyGoes' /\ WriteGoes'
  BY <1>1 DEF HostPlace, SetupIsCurrent, ReplyGoes, WriteGoes
<1> QED BY <1>4, <1>5 DEF Flow

\* The empty packet ends a write when everything sent is stored.
LEMMA FlowStatusIn ==
    ASSUME Types, Flow, StatusIn
    PROVE  Flow'
<1>1. /\ phase = "statusIn" /\ usbRx = None /\ usbRx' = usbRx /\ usbTxLen = "DATA"
      /\ UNCHANGED <<firmware, req, id, moved>>
  BY DEF StatusIn, HandleIn, AssignAddress
<1>2. usbRx.token = "none" /\ req.kind \notin FromDevice
  BY <1>1 DEF Flow, HostPlace, None
<1>3. usbTxBuf.toggle = toggle
  BY <1>1, <1>2 DEF Flow, ReplyGoes, WriteGoes
<1>4. phase' = "idle"
  BY <1>3 DEF StatusIn
<1>5. Finished'
  <2> SUFFICES ASSUME req.kind = "write"
               PROVE  \A k \in 1..WriteSize' : readWriteBuffer'[k] = <<id, k>>
    BY <1>1, <1>2, <1>4 DEF Finished
  <2>1. /\ moved = req.len /\ Waits = 0
        /\ currentPosition = Least(moved - 0, WriteSize)
        /\ \A k \in 1..currentPosition : readWriteBuffer[k] = <<id, k>>
    BY <1>1, <1>2 DEF Flow, HostPlace, WriteGoes, Waits
  <2>2. req.len \in Nat /\ WriteSize \in Nat /\ WriteSize <= req.len
    BY CurrentSizes, SizesAssumption
  <2>3. currentPosition = WriteSize
    BY <2>1, <2>2 DEF Least
  <2> QED BY <1>1, <2>1, <2>3 DEF WriteSize, firmware
<1>6. HostPlace' /\ SetupIsCurrent' /\ ReplyGoes' /\ WriteGoes'
  BY <1>1, <1>4 DEF HostPlace, SetupIsCurrent, ReplyGoes, WriteGoes
<1> QED BY <1>5, <1>6 DEF Flow

-----------------------------------------------------------------------------

\* Before the first transfer nothing moves.
LEMMA DataInit == Init => Types /\ Flow
<1> SUFFICES ASSUME Init PROVE Types /\ Flow
  OBVIOUS
<1>1. phase = "idle" /\ ok = FALSE
  BY DEF Init
<1>2. Flow
  BY <1>1 DEF Flow, HostPlace, SetupIsCurrent, ReplyGoes, WriteGoes, Finished
<1> QED BY <1>2, TypesInit

\* Every step of the main loop, the interrupt and the host keeps the types
\* and moves bytes as it should.
LEMMA DataNext == Types /\ Flow /\ [Next]_vars => Types' /\ Flow'
<1> SUFFICES ASSUME Types, Flow, [Next]_vars PROVE Types' /\ Flow'
  OBVIOUS
<1>1. CASE PollRx
  <2>1. Types'
    BY <1>1, TypesPollRx
  <2>2. CASE usbRx.token = "SETUP"
    BY <1>1, <2>1, <2>2, FlowSetup
  <2>3. CASE usbRx.token = "OUT"
    BY <1>1, <2>1, <2>3, FlowChunk
  <2>4. CASE usbRx.token = "none"
    <3>1. usbRx = None
      BY <2>4, RxKinds DEF Types
    <3>2. UNCHANGED <<usbRx, usbTxLen, usbTxBuf, message, firmware, phase, req,
                      id, moved, got, toggle, ok>>
      BY <1>1, <2>4, <3>1 DEF PollRx, transfer
    <3> QED BY <2>1, <3>2, FlowFrame
  <2> QED BY <2>2, <2>3, <2>4, RxKinds DEF Types
<1>2. CASE PollTx
  BY <1>2, TypesPollTx, FlowBuild
<1>3. CASE Transact
  BY <1>3, TypesTransact, FlowSetupPacket, FlowOutPacket, FlowInPacket,
     FlowStatusOut, FlowStatusIn DEF Transact, Flow
<1>4. ASSUME NEW r \in Requests, Start(r) PROVE Types' /\ Flow'
  <2>1. phase' = "setup" /\ moved' = 0 /\ got' = <<>> /\ toggle' = 1 /\ ok' = FALSE
    BY <1>4 DEF Start
  <2>2. Flow'
    BY <2>1 DEF Flow, HostPlace, SetupIsCurrent, ReplyGoes, WriteGoes, Finished
  <2> QED BY <1>4, <2>2, TypesHost
<1>5. CASE Abandon
  <2>1. phase' = "idle" /\ ok' = ok /\ ~ok
    BY <1>5 DEF Abandon, Flow, HostPlace
  <2>2. Flow'
    BY <2>1 DEF Flow, HostPlace, SetupIsCurrent, ReplyGoes, WriteGoes, Finished
  <2> QED BY <1>5, <2>2, TypesHost
<1>6. CASE ResetStart
  BY <1>6, TypesHost, FlowAtRest DEF ResetStart
<1>7. CASE ResetEnd \/ PollLine \/ UNCHANGED vars
  <2>1. UNCHANGED <<usbRx, usbTxLen, usbTxBuf, message, firmware, phase, req,
                    id, moved, got, toggle, ok>>
    BY <1>7 DEF ResetEnd, PollLine, vars, device, transfer
  <2> QED BY <1>7, <2>1, TypesHost, FlowFrame
<1> QED BY <1>1, <1>2, <1>3, <1>4, <1>5, <1>6, <1>7 DEF Next, Poll

\* The invariant holds throughout.
LEMMA DataInvariant == Spec => [](Types /\ Flow)
BY DataInit, DataNext, PTL DEF Spec

\* The driver's and the firmware's indices stay inside their buffers, for any
\* packet and buffer size and blocks of any length, given up at any point.
THEOREM TypesCorrect == Spec => []TypeOK
<1>1. Types => TypeOK
  <2> SUFFICES ASSUME Types PROVE TypeOK
    OBVIOUS
  <2>1. /\ usbRx.token \in {"none", "SETUP", "OUT"} /\ req.kind \in Kinds
    BY RxKinds, RequestShape DEF Types, HostTypes
  <2> QED
    BY <2>1, SizesAssumption
       DEF Types, DriverTypes, FirmwareTypes, HostTypes, TypeOK, SourceSize
<1> QED BY <1>1, DataInvariant, PTL

\* What Expected is, byte by byte.
LEMMA ExpectedIs ==
    ASSUME Types, req.kind \in FromDevice
    PROVE  Expected = [k \in 1..ReplySize |-> Reply(k)]
<1>1. CASE req.kind = "echo"
  BY <1>1, CurrentSizes DEF Expected, Echo, Reply
<1>2. CASE req.kind = "get"
  BY <1>2, CurrentSizes DEF Expected, Reply
<1>3. CASE req.kind = "read"
  <2>1. ReplySize = Least(req.len, BufferSize) /\ ReplySize \in 0..BufferSize
    BY <1>3, CurrentSizes, SizesAssumption DEF ReplySize, ReplyLength, Least
  <2>2. readWriteBuffer \in [1..BufferSize -> Bytes] /\ BufferSize \in Nat
    BY SizesAssumption DEF Types, FirmwareTypes
  <2>3. SubSeq(readWriteBuffer, 1, ReplySize) = [k \in 1..ReplySize |-> readWriteBuffer[k]]
    BY <2>1, <2>2
  <2> QED BY <1>3, <2>1, <2>3 DEF Expected, Reply
<1> QED BY <1>1, <1>2, <1>3 DEF FromDevice

\* Sequences with the same bytes are the same.
LEMMA SameBytes ==
    ASSUME NEW s \in Seq(Bytes), NEW n \in Nat, Len(s) = n, NEW e,
           e = [k \in 1..n |-> s[k]]
    PROVE  s = e
OBVIOUS

\* A transfer that succeeded returned what the device had to send: the whole
\* buffer or as much of it as was asked for, whatever was given up before.
THEOREM ReadsExact == Spec => []ReadExact
<1>1. Types /\ Flow => ReadExact
  <2> SUFFICES ASSUME Types, Flow, ok, req.kind \in FromDevice PROVE got = Expected
    BY DEF ReadExact
  <2>1. Len(got) = ReplySize /\ \A k \in 1..ReplySize : got[k] = Reply(k)
    BY DEF Flow, Finished
  <2>2. got \in Seq(Bytes)
    BY DEF Types, HostTypes
  <2>3. Expected = [k \in 1..Len(got) |-> got[k]]
    BY <2>1, ExpectedIs
  <2>4. Len(got) \in Nat
    BY <2>2
  <2> QED BY <2>2, <2>3, <2>4, SameBytes
<1> QED BY <1>1, DataInvariant, PTL

\* Nothing the interrupt can send is left over from another transfer.
THEOREM RepliesCurrent == Spec => []ReplyCurrent
<1>1. Types /\ Flow => ReplyCurrent
  <2> SUFFICES ASSUME Types, Flow, phase \in {"in", "statusIn"}, usbRx = None, usbTxLen = "DATA"
               PROVE  /\ usbTxBuf.toggle = toggle
                      /\ got \o usbTxBuf.data
                           = SubSeq(Expected, 1, Len(got \o usbTxBuf.data))
    BY DEF ReplyCurrent
  <2> DEFINE n == Len(usbTxBuf.data)
             sofar == got \o usbTxBuf.data
  <2>1. usbRx.token = "none"
    BY DEF None
  <2>2. got \in Seq(Bytes) /\ usbTxBuf.data \in Seq(Bytes)
    BY DEF Types, HostTypes, DriverTypes
  <2>3. /\ sofar \in Seq(Bytes) /\ Len(sofar) = Len(got) + n /\ Len(got) \in Nat /\ n \in Nat
        /\ \A k \in 1..Len(got) : sofar[k] = got[k]
        /\ \A k \in 1..n : sofar[Len(got) + k] = usbTxBuf.data[k]
    BY <2>2
  <2>4. CASE req.kind = "write"
    <3>1. phase = "statusIn"
      BY <2>4 DEF Flow, HostPlace, FromDevice
    <3>2. usbTxBuf.toggle = 1 /\ toggle = 1 /\ got = <<>> /\ usbTxBuf.data = <<>>
      BY <2>1, <2>4, <3>1 DEF Flow, WriteGoes
    <3>3. Expected = <<>>
      BY <2>4 DEF Expected
    <3>4. sofar = <<>> /\ Len(sofar) = 0
      BY <3>2
    <3> QED BY <3>2, <3>3, <3>4
  <2>5. CASE req.kind # "write"
    <3>1. /\ Len(got) <= ReplySize /\ \A k \in 1..Len(got) : got[k] = Reply(k)
          /\ usbTxBuf.toggle = toggle
          /\ n = Least(ReplySize - Len(got), Chunk)
          /\ \A k \in 1..n : usbTxBuf.data[k] = Reply(Len(got) + k)
      BY <2>1, <2>5 DEF Flow, ReplyGoes
    <3>2. ReplySize \in Nat /\ Chunk \in Nat
      BY <2>5, CurrentSizes, SizesAssumption
    <3> HIDE DEF n, sofar
    <3>3. Len(sofar) <= ReplySize /\ Len(sofar) \in Nat
      BY <2>3, <3>1, <3>2 DEF Least
    <3>4. Expected = [k \in 1..ReplySize |-> Reply(k)]
      <4>1. CASE req.kind \in FromDevice
        BY <4>1, ExpectedIs
      <4>2. CASE req.kind \notin FromDevice
        <5>1. ReplySize = 0 /\ Expected = <<>>
          BY <2>5, <4>2, CurrentSizes DEF Expected, FromDevice, Kinds
        <5> QED BY <5>1
      <4> QED BY <4>1, <4>2
    <3>5. ASSUME NEW k \in 1..Len(sofar) PROVE sofar[k] = Reply(k)
      <4>1. CASE k <= Len(got)
        <5>1. k \in 1..Len(got)
          BY <2>3, <4>1
        <5> QED BY <2>3, <3>1, <5>1
      <4>2. CASE k > Len(got)
        <5>1. k - Len(got) \in 1..n /\ Len(got) + (k - Len(got)) = k
          BY <2>3, <4>2
        <5> QED BY <2>3, <3>1, <5>1
      <4> QED BY <2>3, <4>1, <4>2
    <3>6. SubSeq(Expected, 1, Len(sofar)) = [k \in 1..Len(sofar) |-> Reply(k)]
      BY <3>2, <3>3, <3>4
    <3>7. SubSeq(Expected, 1, Len(sofar)) = [k \in 1..Len(sofar) |-> sofar[k]]
      BY <3>5, <3>6
    <3>8. sofar = SubSeq(Expected, 1, Len(sofar))
      BY <2>3, <3>3, <3>7, SameBytes
    <3> QED BY <3>1, <3>8 DEF sofar
  <2> QED BY <2>4, <2>5
<1> QED BY <1>1, DataInvariant, PTL

\* A block that was written is in the buffer as far as it fits, when its
\* length fits a byte as those of the command line do: usbFunctionSetup keeps
\* the lower byte of wLength only.
THEOREM WritesStored ==
    ASSUME \A n \in Lengths : n < ByteRange
    PROVE  Spec => []WriteStored
<1>1. Types /\ Flow => WriteStored
  <2> SUFFICES ASSUME Types, Flow, ok, req.kind = "write"
               PROVE  \A k \in 1..Least(req.len, BufferSize) : readWriteBuffer[k] = <<id, k>>
    BY DEF WriteStored
  <2>1. req.len \in Lengths /\ req.len \in Nat
    BY RequestShape DEF Types, HostTypes
  <2>2. req.len % ByteRange = req.len
    BY <2>1, SizesAssumption
  <2> QED BY <2>2 DEF Flow, Finished, WriteSize
<1> QED BY <1>1, DataInvariant, PTL
=============================================================================
