--------------------------- MODULE VncClientProofs ---------------------------
(***************************************************************************)
(* What holds of the client against any server whatever: VncClient's Spec  *)
(* lets the environment put any bytes into the stream, move the control    *)
(* lines and press buttons at any moment.                                  *)
(***************************************************************************)
EXTENDS VncClient, TLAPS, SequenceTheorems, FiniteSetTheorems

-----------------------------------------------------------------------------
(* The arithmetic of the program's registers *)

\* The largest 16-bit number. Cited for its value: with the definition itself
\* in sight the provers enumerate the interval of 16-bit numbers.
LEMMA UintMax == UINT_MAX \in Nat /\ UINT_MAX >= 65535 /\ UINT_MAX <= 65535
BY DEF UINT_MAX

\* Two bytes make a 16-bit number, in either order.
LEMMA TwoBytes ==
    ASSUME NEW a \in Byte, NEW b \in Byte
    PROVE  U16(a, b) \in Uints /\ LittlePixel(a, b) \in Colour
<1>1. /\ a \in Int /\ 0 <= a /\ a <= 255
      /\ b \in Int /\ 0 <= b /\ b <= 255
  BY DEF Byte
<1>2. U16(a, b) \in Uints
  BY <1>1, UintMax DEF U16, Uints
<1>3. LittlePixel(a, b) \in Colour
  BY <1>1, UintMax DEF LittlePixel, Colour
<1> QED
  BY <1>2, <1>3

\* unsigned int arithmetic stays within 16 bits.
LEMMA UintRange ==
    ASSUME NEW n \in Int
    PROVE  Uint(n) \in Uints
BY UintMax DEF Uint, Uints

\* unsigned long arithmetic stays within its range.
LEMMA UlongBounds ==
    ASSUME NEW n \in Nat
    PROVE  Ulong(n) \in Ulongs
BY UlongAssumption DEF Ulong, Ulongs

\* A 16-bit number is a natural number.
LEMMA UintNat == \A n \in Uints : n \in Nat
BY UintMax DEF Uints

\* The product of two sign-extended 16-bit numbers is taken modulo the range.
LEMMA ExtendedProduct ==
    ASSUME NEW a \in Uints, NEW b \in Uints
    PROVE  Ulong(Extended(a) * Extended(b)) \in Ulongs
<1>1. ASSUME NEW c \in Uints PROVE Extended(c) \in Nat
  <2>1. c \in Nat
    BY UintNat
  <2>2. UlongRange - 65536 \in Nat
    BY UlongAssumption
  <2> QED
    BY <2>1, <2>2 DEF Extended
<1>2. \A x, y \in Nat : x * y \in Nat
  OBVIOUS
<1>3. Extended(a) * Extended(b) \in Nat
  BY <1>1, <1>2
<1> QED
  BY <1>3, UlongBounds

\* The number of pixels of a tile, exact for tiles of at most 16 by 16.
LEMMA TilePixels ==
    ASSUME NEW a \in Byte, NEW b \in Byte, NEW n \in IntProduct(a, b)
    PROVE  /\ n \in Ulongs
           /\ a <= Tile /\ b <= Tile => n = a * b
<1>1. a * b \in Nat
  BY DEF Byte
<1>2. a <= Tile /\ b <= Tile => a * b <= 256
  <2> SUFFICES ASSUME a <= 16, b <= 16 PROVE a * b <= 256
    BY TileAssumption DEF Byte
  <2>1. a * b <= a * 16
    BY DEF Byte
  <2> QED
    BY <2>1 DEF Byte
<1> QED
  BY <1>1, <1>2, UlongAssumption DEF IntProduct, Ulongs

\* A tile's side fits in the unsigned char it is kept in.
LEMMA TileSideByte ==
    ASSUME NEW from \in Uints, NEW to \in Uints
    PROVE  TileSide(from, to) \in Byte
<1>1. to - from \in Int
  BY UintMax DEF Uints
<1>2. Uint(to - from) % 256 \in Byte
  BY <1>1 DEF Uint, Byte
<1>3. Tile \in Byte
  BY TileAssumption DEF Byte
<1> QED
  BY <1>2, <1>3 DEF TileSide

\* Taking n bytes from the front of the buffer leaves the others.
LEMMA ConsumeRest ==
    ASSUME buf \in Seq(Byte), NEW n \in Nat, n <= Len(buf)
    PROVE  /\ SubSeq(buf, n + 1, Len(buf)) \in Seq(Byte)
           /\ Len(SubSeq(buf, n + 1, Len(buf))) = Len(buf) - n
BY SubSeqProperties

\* A byte within the buffer is a byte.
LEMMA ByteInBuffer ==
    ASSUME buf \in Seq(Byte), NEW k \in 1..Len(buf)
    PROVE  buf[k] \in Byte
BY ElementOfSeq

\* The pixels taken are whole ones and in the buffer, and no more than are
\* expected.
LEMMA PixelsTakenRange ==
    ASSUME buf \in Seq(Byte), interPixelCount \in Ulongs
    PROVE  /\ PixelsTaken \in Nat /\ PixelsTaken * BYTES_PER_PIXEL <= Len(buf)
           /\ ~AllPixelsHere => PixelsTaken <= interPixelCount
           /\ (IF AllPixelsHere THEN 0 ELSE interPixelCount - PixelsTaken) \in Ulongs
<1>1. Len(buf) \in Nat /\ interPixelCount \in Nat
  BY LenProperties DEF Ulongs
<1>2. PixelBytesLeft \in Nat
  <2>1. interPixelCount * 2 \in Nat
    BY <1>1
  <2>2. Ulong(interPixelCount * 2) \in Nat
    BY <2>1, UlongBounds, SMTT(30) DEF Ulongs
  <2> QED
    BY <2>2 DEF PixelBytesLeft, BYTES_PER_PIXEL
<1>3. PixelBytesLeft <= interPixelCount * 2
  BY <1>1, UlongAssumption DEF PixelBytesLeft, BYTES_PER_PIXEL, Ulong
<1>4. CASE AllPixelsHere
  <2>1. PixelsTaken = PixelBytesLeft \div 2 /\ PixelBytesLeft <= Len(buf)
    BY <1>4 DEF PixelsTaken, AllPixelsHere, BYTES_PER_PIXEL
  <2> QED
    BY <1>1, <1>2, <1>4, <2>1, UlongAssumption DEF Ulongs, BYTES_PER_PIXEL
<1>5. CASE ~AllPixelsHere
  <2>1. PixelsTaken = Len(buf) \div 2 /\ Len(buf) < PixelBytesLeft
    BY <1>1, <1>2, <1>5 DEF PixelsTaken, AllPixelsHere, BYTES_PER_PIXEL
  <2>2. \A k \in Nat : k \div 2 \in Nat /\ (k \div 2) * 2 <= k
    OBVIOUS
  <2>3. PixelsTaken \in Nat /\ PixelsTaken * 2 <= Len(buf)
    BY <1>1, <2>1, <2>2
  <2>4. PixelsTaken <= interPixelCount
    BY <1>1, <1>2, <1>3, <2>1, <2>3
  <2>5. interPixelCount - PixelsTaken \in Ulongs
    BY <1>1, <2>3, <2>4, UlongAssumption DEF Ulongs
  <2> QED
    BY <1>5, <2>3, <2>4, <2>5 DEF BYTES_PER_PIXEL
<1> QED
  BY <1>4, <1>5

-----------------------------------------------------------------------------
(* Every step keeps the type invariant, part by part of the main loop *)

\* The states of the connection, spelled out.
LEMMA StateNames ==
    VNCSTATE = {"DEAD", "AUTHFAILED", "NOTCONNECTED", "WAITFORAUTHTYPE",
                "WAITFORVNCAUTHWORD", "WAITFORVNCAUTHRESPONSE",
                "SENTCLIENTINITMESSAGE", "WAITFORSERVERNAME", "CONNECTED",
                "CONNECTED_REFRESH", "WAITFORUPDATE", "PROCESSINGUPDATE"}
BY DEF VNCSTATE, Rank

\* The power-up state has its type.
LEMMA InitType == Init => TypeOK
<1> SUFFICES ASSUME Init PROVE TypeOK
  OBVIOUS
<1> USE DEF Init, ClientInit, LcdInit, lcd_initial, EnvironmentInit
<1>1. 0 \in Uints /\ 0 \in Ulongs /\ 0 \in Byte /\ 0 \in Colour /\ White \in Colour
  BY UlongAssumption, UintMax DEF Uints, Ulongs, Byte, Colour, White
<1>2. /\ pc \in Locations
      /\ rx \in Seq(Byte) /\ toServer \in Seq(Messages)
      /\ control \in 0..3 /\ lastControlState \in 0..3
      /\ pins \in SUBSET Keys
      /\ buf \in Seq(Byte) /\ Len(buf) <= VNC_BUFFER_MAX
  BY BufferAssumption, EmptySeq DEF Locations
<1>3. /\ VNCstate \in VNCSTATE /\ VNCsendState \in VNCSENDSTATE
      /\ VNCpixelProcessorState \in VNCPPSTATE /\ hextileState \in HEXTILESTATE
  BY StateNames DEF VNCSENDSTATE, VNCPPSTATE, HEXTILESTATE
<1>4. /\ rectangleCount \in Uints
      /\ interPixelCount \in Ulongs
      /\ updateWindow \in [x0 : Uints, y0 : Uints, x1 : Uints, y1 : Uints]
      /\ tile \in [x : Uints, y : Uints, w : Byte, h : Byte]
      /\ hex \in [bg : Colour, fg : Colour, sub : Byte, n : Byte]
  BY <1>1
<1>5. hextileBuffer \in [Cells -> Colour] /\ screen \in [Pixels -> Colour]
  BY <1>1
<1>6. lcd \in [x : Nat, y : Nat, w : Nat, h : Nat, pos : Nat]
  BY ScreenAssumption
<1>7. keypress \in Keys \union {"none"} /\ oneshot \in BOOLEAN
  OBVIOUS
<1> QED
  BY <1>2, <1>3, <1>4, <1>5, <1>6, <1>7 DEF TypeOK

\* The server connection: what is read fits in the buffer.
LEMMA GetDataType == TypeOK /\ VncServerGetData => TypeOK'
<1> SUFFICES ASSUME TypeOK, VncServerGetData PROVE TypeOK'
  OBVIOUS
<1> USE DEF TypeOK, envVars, connVars, rectVars, tileVars, lcdVars, keyVars, Locations
<1>1. CASE GetControlSame \/ GetControlChanged \/ GetDataConnected
  BY <1>1 DEF GetControlSame, GetControlChanged, GetDataConnected
<1>2. CASE LatchControl
  BY <1>2 DEF LatchControl
<1>3. CASE GetDataDisconnected
  <2>1. buf' \in Seq(Byte) /\ Len(buf') <= VNC_BUFFER_MAX
    BY <1>3, BufferAssumption, EmptySeq DEF GetDataDisconnected
  <2>2. VNCstate' \in VNCSTATE /\ VNCsendState' \in VNCSENDSTATE
    BY <1>3, StateNames DEF GetDataDisconnected, Vnc_ResetSystem, VNCSENDSTATE
  <2> QED
    BY <1>3, <2>1, <2>2 DEF GetDataDisconnected
<1>4. CASE ReadBytes
  <2>1. PICK n \in 0..Len(rx) :
          /\ n <= VNC_BUFFER_MAX - Len(buf)
          /\ buf' = buf \o SubSeq(rx, 1, n)
          /\ rx' = SubSeq(rx, n + 1, Len(rx))
    BY <1>4 DEF ReadBytes
  <2>2. /\ SubSeq(rx, 1, n) \in Seq(Byte) /\ Len(SubSeq(rx, 1, n)) = n
        /\ rx' \in Seq(Byte)
    <3>1. rx \in Seq(Byte) /\ Len(rx) \in Nat /\ n \in 0..Len(rx)
      BY <2>1, LenProperties
    <3>2. SubSeq(rx, 1, n) \in Seq(Byte) /\ Len(SubSeq(rx, 1, n)) = n
      BY <3>1, SubSeqProperties
    <3>3. SubSeq(rx, n + 1, Len(rx)) \in Seq(Byte)
      BY <3>1, SubSeqProperties
    <3> QED
      BY <2>1, <3>2, <3>3
  <2>3. buf' \in Seq(Byte) /\ Len(buf') = Len(buf) + n
    BY <2>1, <2>2, ConcatProperties
  <2>4. Len(buf') <= VNC_BUFFER_MAX
    BY <2>1, <2>3, LenProperties, BufferAssumption
  <2> QED
    BY <1>4, <2>2, <2>3, <2>4 DEF ReadBytes
<1> QED
  BY <1>1, <1>2, <1>3, <1>4 DEF VncServerGetData

\* The endpoint has some number of bytes left.
LEMMA RoomType == toServer \in Seq(Messages) => Room \in Int
<1> SUFFICES ASSUME toServer \in Seq(Messages) PROVE Room \in Int
  OBVIOUS
<1>1. Len(toServer) \in Int /\ MAXIMUM_VNCMESSAGE_SIZE \in Int
  BY LenProperties DEF MAXIMUM_VNCMESSAGE_SIZE
<1> DEFINE all == (1..Len(toServer)) \X (1..MAXIMUM_VNCMESSAGE_SIZE)
<1>2. IsFiniteSet(1..Len(toServer)) /\ IsFiniteSet(1..MAXIMUM_VNCMESSAGE_SIZE)
  BY <1>1, FS_Interval
<1>3. IsFiniteSet(all)
  BY <1>2, FS_Product
<1>4. QueuedBytes \in SUBSET all
  BY DEF QueuedBytes
<1> HIDE DEF all
<1>5. Cardinality(QueuedBytes) \in Nat
  BY <1>3, <1>4, FS_Subset, FS_CardinalityType
<1> QED
  BY <1>5, TxAssumption DEF Room

\* What is left of a message that is cut short.
LEMMA CutType ==
    ASSUME toServer \in Seq(Messages)
    PROVE  [i \in 1..Room |-> "byte"] \in Seq(Messages)
<1> DEFINE n == IF Room > 0 THEN Room ELSE 0
           cut == [i \in 1..Room |-> "byte"]
<1>1. n \in Nat /\ 1..n = 1..Room
  BY RoomType
<1>2. "byte" \in Messages
  BY DEF Messages, MessageSize
<1>3. cut \in [1..n -> Messages]
  BY <1>1, <1>2
<1> HIDE DEF n, cut
<1>4. cut \in Seq(Messages)
  BY <1>1, <1>3
<1> QED
  BY <1>4 DEF cut

\* Buttons and answers.
LEMMA AnswerType == TypeOK /\ (Buttons_Handler \/ SendResponse) => TypeOK'
<1> SUFFICES ASSUME TypeOK, Buttons_Handler \/ SendResponse PROVE TypeOK'
  OBVIOUS
<1> USE DEF TypeOK, envVars, connVars, rectVars, tileVars, lcdVars, keyVars, Locations
<1>1. CASE Buttons_Handler
  BY <1>1 DEF Buttons_Handler, Keys
<1>2. ASSUME NEW message \in Messages, VncServerSendResponse(message)
      PROVE  toServer' \in Seq(Messages)
  <2>1. toServer \in Seq(Messages)
    OBVIOUS
  <2> HIDE DEF TypeOK
  <2>2. Append(toServer, message) \in Seq(Messages)
    BY <2>1, AppendProperties
  <2>3. toServer \o [i \in 1..Room |-> "byte"] \in Seq(Messages)
    BY <2>1, CutType, ConcatProperties
  <2> QED
    BY <1>2, <2>1, <2>2, <2>3 DEF VncServerSendResponse
<1>3. ASSUME NEW from \in VNCSENDSTATE, NEW message \in Messages,
             NEW to \in VNCSENDSTATE, Respond(from, message, to)
      PROVE  TypeOK'
  <2>1. toServer' \in Seq(Messages)
    BY <1>2, <1>3 DEF Respond
  <2> QED
    BY <1>3, <2>1 DEF Respond
<1>4. CASE SendVersion \/ SendAuthWord \/ SendClientInit \/ SendPixelFormat
           \/ SendEncodings \/ SendFullRefresh
  BY <1>3, <1>4 DEF SendVersion, SendAuthWord, SendClientInit,
     SendPixelFormat, SendEncodings, SendFullRefresh, VNCSENDSTATE, Messages, MessageSize
<1>5. CASE SendRequest
  <2>1. (IF keypress # "none" THEN KeyOf[keypress] ELSE "refresh") \in Messages
    BY DEF Messages, MessageSize, KeyOf, Keys
  <2>2. toServer' \in Seq(Messages)
    BY <1>2, <1>5, <2>1 DEF SendRequest
  <2> QED
    BY <1>5, <2>2 DEF SendRequest
<1>6. CASE NothingToSend
  BY <1>6 DEF NothingToSend
<1> QED
  BY <1>1, <1>4, <1>5, <1>6 DEF SendResponse

\* The bytes taken from the buffer leave a buffer.
LEMMA ConsumeType ==
    ASSUME TypeOK, NEW n \in Nat, n <= Len(buf), Consume(n)
    PROVE  buf' \in Seq(Byte) /\ Len(buf') <= VNC_BUFFER_MAX
<1>1. buf \in Seq(Byte) /\ Len(buf) <= VNC_BUFFER_MAX /\ Len(buf) \in Nat
  BY LenProperties DEF TypeOK
<1>2. buf' = SubSeq(buf, n + 1, Len(buf))
  BY DEF Consume
<1>3. buf' \in Seq(Byte) /\ Len(buf') = Len(buf) - n
  BY <1>1, <1>2, ConsumeRest
<1> QED
  BY <1>1, <1>3, BufferAssumption

\* The registers outside the part of the program that parses the stream.
Outside == <<envVars, lastControlState, keyVars>>

\* Waiting for bytes changes only the program's place.
LEMMA WaitType ==
    ASSUME TypeOK, NEW n, WaitForBytes(n), UNCHANGED Outside
    PROVE  TypeOK'
BY DEF TypeOK, WaitForBytes, Return0, Outside, envVars, connVars, rectVars,
       tileVars, lcdVars, keyVars, Locations

\* A message of the handshake.
LEMMA HandshakeType ==
    ASSUME TypeOK, NEW n \in Nat, NEW next \in VNCSTATE, Handshake(n, next),
           UNCHANGED Outside
    PROVE  TypeOK'
<1>1. CASE WaitForBytes(n)
  BY <1>1, WaitType
<1>2. CASE ~WaitForBytes(n)
  <2>1. /\ Len(buf) >= n /\ VNCstate' = next /\ Consume(n) /\ Again
        /\ UNCHANGED <<VNCsendState, rectVars, tileVars, lcdVars>>
    BY <1>2 DEF Handshake
  <2>2. buf' \in Seq(Byte) /\ Len(buf') <= VNC_BUFFER_MAX
    BY <2>1, ConsumeType, LenProperties DEF TypeOK
  <2> QED
    BY <2>1, <2>2 DEF TypeOK, Again, Outside, envVars, rectVars, tileVars,
       lcdVars, keyVars, Locations
<1> QED
  BY <1>1, <1>2

\* The handshake, up to the request for the first update.
LEMMA ConnectType ==
    ASSUME TypeOK, UNCHANGED Outside,
           \/ NotConnected \/ WaitForAuthType \/ WaitForVncAuthWord
           \/ WaitForVncAuthResponse \/ SentClientInitMessage
           \/ WaitForServerName \/ Connected
    PROVE  TypeOK'
<1>1. CASE NotConnected \/ WaitForVncAuthWord \/ Connected
  <2>1. \E n \in Nat, next \in VNCSTATE : Handshake(n, next)
    BY <1>1, StateNames DEF NotConnected, WaitForVncAuthWord, Connected
  <2> QED
    BY <2>1, HandshakeType
<1>2. CASE WaitForVncAuthResponse
  <2>1. (IF buf[4] = 0 THEN "SENTCLIENTINITMESSAGE" ELSE "AUTHFAILED") \in VNCSTATE
    BY StateNames
  <2> QED
    BY <1>2, <2>1, HandshakeType DEF WaitForVncAuthResponse
<1>3. CASE WaitForServerName
  <2>1. interPixelCount \in Nat /\ "CONNECTED" \in VNCSTATE
    BY StateNames DEF TypeOK, Ulongs
  <2> QED
    BY <1>3, <2>1, HandshakeType DEF WaitForServerName
<1>4. CASE WaitForAuthType /\ ~WaitForBytes(4)
  <2>1. buf' \in Seq(Byte) /\ Len(buf') <= VNC_BUFFER_MAX
    BY <1>4, ConsumeType DEF WaitForAuthType
  <2>2. VNCstate' \in VNCSTATE /\ VNCsendState' \in VNCSENDSTATE
    BY <1>4, StateNames DEF WaitForAuthType, VNCSENDSTATE, TypeOK
  <2> QED
    BY <1>4, <2>1, <2>2 DEF WaitForAuthType, TypeOK, Again, Outside, envVars,
       rectVars, tileVars, lcdVars, keyVars, Locations
<1>5. CASE SentClientInitMessage /\ ~WaitForBytes(24)
  <2>1. Len(buf) >= 24
    BY <1>5 DEF SentClientInitMessage
  <2>2. buf' \in Seq(Byte) /\ Len(buf') <= VNC_BUFFER_MAX
    BY <1>5, <2>1, ConsumeType DEF SentClientInitMessage
  <2>3. interPixelCount' \in Ulongs
    <3>1. buf \in Seq(Byte) /\ Len(buf) \in Nat
      BY LenProperties DEF TypeOK
    <3>2. buf[21] \in Byte /\ buf[22] \in Byte /\ buf[23] \in Byte /\ buf[24] \in Byte
      BY <2>1, <3>1, ByteInBuffer
    <3>3. U16(buf[21], buf[22]) \in Nat /\ U16(buf[23], buf[24]) \in Nat
      <4>1. U16(buf[21], buf[22]) \in Uints /\ U16(buf[23], buf[24]) \in Uints
        BY <3>2, TwoBytes
      <4>2. Uints \subseteq Nat
        BY UintMax DEF Uints
      <4> QED
        BY <4>1, <4>2
    <3>4. U16(buf[21], buf[22]) * 65536 + U16(buf[23], buf[24]) \in Nat
      BY <3>3
    <3>5. interPixelCount' = Ulong(U16(buf[21], buf[22]) * 65536 + U16(buf[23], buf[24]))
      BY <1>5 DEF SentClientInitMessage
    <3> QED
      BY <3>4, <3>5, UlongBounds
  <2>4. VNCstate' \in VNCSTATE
    BY <1>5, StateNames DEF SentClientInitMessage
  <2> QED
    BY <1>5, <2>2, <2>3, <2>4, SMTT(30) DEF SentClientInitMessage, TypeOK, Again,
       Outside, envVars, tileVars, lcdVars, keyVars, Locations
<1> QED
  BY <1>1, <1>2, <1>3, <1>4, <1>5, WaitType
     DEF WaitForAuthType, SentClientInitMessage

\* The header of an update, and the states from which there is no way on.
LEMMA UpdateType ==
    ASSUME TypeOK, UNCHANGED Outside, WaitForUpdate \/ ProcessError
    PROVE  TypeOK'
<1>1. CASE ProcessError
  BY <1>1 DEF ProcessError, TypeOK, Outside, envVars, connVars, rectVars,
     tileVars, lcdVars, keyVars, Locations
<1>2. CASE WaitForUpdate /\ VNCstate' = "DEAD"
  <2>1. VNCstate' \in VNCSTATE
    BY <1>2, StateNames
  <2>2. pc' = "buttons" /\ buf' = buf
        /\ UNCHANGED <<VNCsendState, rectVars, tileVars, lcdVars>>
    BY <1>2 DEF WaitForUpdate, WaitForBytes, Return0, connVars
  <2> QED
    BY <2>1, <2>2 DEF TypeOK, Outside, envVars, rectVars, tileVars, lcdVars,
       keyVars, Locations
<1>3. CASE WaitForUpdate /\ VNCstate' = "PROCESSINGUPDATE"
  <2>1. /\ Len(buf) >= 4 /\ Consume(4) /\ Again
        /\ rectangleCount' = U16(buf[3], buf[4])
        /\ VNCpixelProcessorState' = "IDLE"
        /\ UNCHANGED <<VNCsendState, interPixelCount, updateWindow, tileVars, lcdVars>>
    BY <1>3 DEF WaitForUpdate, WaitForBytes, connVars
  <2>2. buf' \in Seq(Byte) /\ Len(buf') <= VNC_BUFFER_MAX
    BY <2>1, ConsumeType
  <2>3. rectangleCount' \in Uints
    <3>1. buf \in Seq(Byte) /\ Len(buf) \in Nat
      BY LenProperties DEF TypeOK
    <3>2. buf[3] \in Byte /\ buf[4] \in Byte
      BY <2>1, <3>1, ByteInBuffer
    <3> QED
      BY <2>1, <3>2, TwoBytes
  <2>4. VNCstate' \in VNCSTATE /\ VNCpixelProcessorState' \in VNCPPSTATE
    BY <1>3, <2>1, StateNames DEF VNCPPSTATE
  <2> QED
    BY <2>1, <2>2, <2>3, <2>4 DEF TypeOK, Again, Outside, envVars, tileVars,
       lcdVars, keyVars, Locations
<1> QED
  BY <1>1, <1>2, <1>3, WaitType DEF WaitForUpdate

\* A rectangle header, whatever its encoding.
LEMMA RectangleType ==
    ASSUME TypeOK, UNCHANGED Outside,
           BadEncoding \/ RawRectangle \/ CopyRectRectangle \/ HextileRectangle
    PROVE  TypeOK'
<1>1. RectangleHeader /\ Len(buf) >= 12
  BY DEF BadEncoding, RawRectangle, CopyRectRectangle, HextileRectangle, RectangleHeader
<1>2. buf \in Seq(Byte) /\ Len(buf) \in Nat
  BY LenProperties DEF TypeOK
<1> DEFINE x == U16(buf[1], buf[2])  y == U16(buf[3], buf[4])
           w == U16(buf[5], buf[6])  h == U16(buf[7], buf[8])
<1>3. x \in Uints /\ y \in Uints /\ w \in Uints /\ h \in Uints
  <2>1. \A k \in 1..8 : buf[k] \in Byte
    BY <1>1, <1>2, ByteInBuffer
  <2> QED
    BY <2>1, TwoBytes
<1>4. rectangleCount' \in Uints
  <2>1. rectangleCount \in Uints /\ rectangleCount # 0 /\ rectangleCount' = rectangleCount - 1
    BY <1>1 DEF RectangleHeader, TypeOK
  <2> QED
    BY <2>1, UintMax DEF Uints
<1>5. updateWindow' \in [x0 : Uints, y0 : Uints, x1 : Uints, y1 : Uints]
  <2>1. updateWindow' = [x0 |-> x, y0 |-> y, x1 |-> Uint(x + w), y1 |-> Uint(y + h)]
    BY <1>1 DEF RectangleHeader
  <2> HIDE DEF x, y, w, h
  <2>2. x + w \in Int /\ y + h \in Int
    <3>1. Uints \subseteq Int
      BY UintMax DEF Uints
    <3>2. x \in Int /\ y \in Int /\ w \in Int /\ h \in Int
      BY <1>3, <3>1
    <3> QED
      BY <3>2
  <2>3. Uint(x + w) \in Uints /\ Uint(y + h) \in Uints
    BY <2>2, UintRange
  <2> QED
    BY <1>3, <2>1, <2>3
<1>6. UNCHANGED <<connVars, tile, hex, hextileBuffer, lcdVars>>
  BY <1>1 DEF RectangleHeader
<1>7. interPixelCount' \in Ulongs
  <2>1. CASE RawRectangle
    <3>1. interPixelCount' = Ulong(Extended(w) * Extended(h))
      BY <2>1 DEF RawRectangle
    <3> QED
      BY <1>3, <3>1, ExtendedProduct
  <2> QED
    BY <2>1 DEF BadEncoding, CopyRectRectangle, HextileRectangle, TypeOK
<1>8. /\ VNCpixelProcessorState' \in VNCPPSTATE /\ hextileState' \in HEXTILESTATE
      /\ pc' \in Locations
  BY DEF BadEncoding, RawRectangle, CopyRectRectangle, HextileRectangle, TypeOK,
     VNCPPSTATE, HEXTILESTATE, Locations, Again, Return0
<1>9. buf' \in Seq(Byte) /\ Len(buf') <= VNC_BUFFER_MAX
  <2>1. buf' = buf \/ Consume(12)
    BY DEF BadEncoding, RawRectangle, CopyRectRectangle, HextileRectangle, Return0
  <2> QED
    BY <1>1, <2>1, ConsumeType DEF TypeOK
<1> QED
  BY <1>4, <1>5, <1>6, <1>7, <1>8, <1>9
     DEF TypeOK, Outside, envVars, connVars, lcdVars, keyVars

\* Pixels taken from the stream, drawn or not.
LEMMA TakePixelsType ==
    ASSUME TypeOK, NEW done, TakePixels(done)
    PROVE  /\ buf' \in Seq(Byte) /\ Len(buf') <= VNC_BUFFER_MAX
           /\ interPixelCount' \in Ulongs
<1>1. buf \in Seq(Byte) /\ interPixelCount \in Ulongs
  BY DEF TypeOK
<1>2. PixelsTaken * BYTES_PER_PIXEL \in Nat /\ PixelsTaken * BYTES_PER_PIXEL <= Len(buf)
  BY <1>1, PixelsTakenRange DEF BYTES_PER_PIXEL
<1>3. Consume(PixelsTaken * BYTES_PER_PIXEL)
  BY DEF TakePixels
<1>4. buf' \in Seq(Byte) /\ Len(buf') <= VNC_BUFFER_MAX
  BY <1>2, <1>3, ConsumeType
<1>5. interPixelCount' \in Ulongs
  BY <1>1, PixelsTakenRange DEF TakePixels
<1> QED
  BY <1>4, <1>5

\* The rest of pixelProcessor outside processHextile.
LEMMA PixelType ==
    ASSUME TypeOK, UNCHANGED Outside,
           UpdateDone \/ WaitForRectangle \/ DropRectangle \/ ProcessCopyRect
    PROVE  TypeOK'
<1>1. CASE UpdateDone
  <2>1. VNCstate' \in VNCSTATE
    BY <1>1, StateNames DEF UpdateDone
  <2> QED
    BY <1>1, <2>1 DEF UpdateDone, Return0, TypeOK, Outside, envVars, rectVars,
       tileVars, lcdVars, keyVars, Locations
<1>2. CASE WaitForRectangle
  BY <1>2, WaitType DEF WaitForRectangle
<1>3. CASE DropRectangle
  <2> DEFINE done == VNCpixelProcessorState' = "IDLE" /\ UNCHANGED hextileState
  <2>1. TakePixels(done) /\ UNCHANGED lcdVars
    BY <1>3 DEF DropRectangle, DropOutOfViewPixels
  <2>2. /\ buf' \in Seq(Byte) /\ Len(buf') <= VNC_BUFFER_MAX
        /\ interPixelCount' \in Ulongs
    <3> HIDE DEF done
    <3> QED
      BY <2>1, TakePixelsType
  <2>3. /\ VNCpixelProcessorState' \in VNCPPSTATE /\ hextileState' \in HEXTILESTATE
        /\ pc' \in Locations
    BY <2>1 DEF TakePixels, VNCPPSTATE, TypeOK, Locations, Again
  <2>4. UNCHANGED <<connVars, rectangleCount, updateWindow, tile, hex, hextileBuffer>>
    BY <2>1 DEF TakePixels
  <2> HIDE DEF done
  <2> QED
    BY <2>1, <2>2, <2>3, <2>4 DEF TypeOK, Outside, envVars, connVars, lcdVars, keyVars
<1>4. CASE ProcessCopyRect /\ ~WaitForBytes(4)
  <2>1. buf' \in Seq(Byte) /\ Len(buf') <= VNC_BUFFER_MAX
    BY <1>4, ConsumeType DEF ProcessCopyRect
  <2>2. VNCpixelProcessorState' \in VNCPPSTATE
    BY <1>4 DEF ProcessCopyRect, VNCPPSTATE
  <2> QED
    BY <1>4, <2>1, <2>2 DEF ProcessCopyRect, TypeOK, Again, Outside, envVars,
       connVars, tileVars, lcdVars, keyVars, Locations
<1> QED
  BY <1>1, <1>2, <1>3, <1>4, WaitType DEF ProcessCopyRect

-----------------------------------------------------------------------------
(* processHextile *)

\* The tile's registers and the LCD's, and what may be added to them.
LEMMA TileFields ==
    ASSUME TypeOK
    PROVE  /\ tile.x \in Uints /\ tile.y \in Uints /\ tile.w \in Byte /\ tile.h \in Byte
           /\ tile.x \in Nat /\ tile.y \in Nat /\ tile.w \in Nat /\ tile.h \in Nat
           /\ Uint(tile.x + tile.w) \in Uints /\ Uint(tile.y + tile.h) \in Uints
<1>1. tile.x \in Uints /\ tile.y \in Uints /\ tile.w \in Byte /\ tile.h \in Byte
  BY DEF TypeOK
<1>2. Uints \subseteq Nat /\ Byte \subseteq Nat
  BY UintMax DEF Uints, Byte
<1>3. tile.x \in Nat /\ tile.y \in Nat /\ tile.w \in Nat /\ tile.h \in Nat
  BY <1>1, <1>2
<1>4. tile.x + tile.w \in Int /\ tile.y + tile.h \in Int
  BY <1>3
<1> QED
  BY <1>1, <1>3, <1>4, UintRange

\* From tile to tile of a rectangle.
LEMMA NextTileType ==
    ASSUME TypeOK, UNCHANGED Outside,
           HextileInit \/ HextileLastTile \/ HextileNextTile
    PROVE  TypeOK'
<1>1. /\ updateWindow.x0 \in Uints /\ updateWindow.y0 \in Uints
      /\ updateWindow.x1 \in Uints /\ updateWindow.y1 \in Uints
  BY DEF TypeOK
<1>2. tile' \in [x : Uints, y : Uints, w : Byte, h : Byte]
  <2>1. CASE HextileInit
    <3>1. /\ TileSide(updateWindow.x0, updateWindow.x1) \in Byte
          /\ TileSide(updateWindow.y0, updateWindow.y1) \in Byte
      BY <1>1, TileSideByte
    <3> QED
      BY <1>1, <2>1, <3>1 DEF HextileInit
  <2>2. CASE HextileLastTile
    BY <1>1, <2>2 DEF HextileLastTile, TypeOK
  <2>3. CASE HextileNextTile
    <3> DEFINE x == IF LastColumn THEN updateWindow.x0 ELSE Uint(tile.x + tile.w)
               y == IF LastColumn THEN Uint(tile.y + tile.h) ELSE tile.y
    <3>1. x \in Uints /\ y \in Uints
      BY <1>1, TileFields
    <3>2. tile' = [x |-> x, y |-> y, w |-> TileSide(x, updateWindow.x1),
                   h |-> IF LastColumn THEN TileSide(y, updateWindow.y1) ELSE tile.h]
      BY <2>3 DEF HextileNextTile
    <3> HIDE DEF x, y
    <3>3. TileSide(x, updateWindow.x1) \in Byte /\ TileSide(y, updateWindow.y1) \in Byte
      BY <1>1, <3>1, TileSideByte
    <3>4. tile.h \in Byte
      BY TileFields
    <3> QED
      BY <3>1, <3>2, <3>3, <3>4
  <2> QED
    BY <2>1, <2>2, <2>3
<1>3. /\ VNCpixelProcessorState' \in VNCPPSTATE /\ hextileState' \in HEXTILESTATE
      /\ pc' \in Locations
  BY DEF HextileInit, HextileLastTile, HextileNextTile, VNCPPSTATE, HEXTILESTATE,
     Locations, Again, Return0, TypeOK, rectVars
<1>4. UNCHANGED <<buf, connVars, rectangleCount, interPixelCount, updateWindow,
                  hex, hextileBuffer, lcdVars>>
  BY DEF HextileInit, HextileLastTile, HextileNextTile, Return0, rectVars
<1> QED
  BY <1>2, <1>3, <1>4 DEF TypeOK, Outside, envVars, connVars, lcdVars, keyVars

\* The bytes of a header that is complete.
LEMMA HeaderBytesHere ==
    ASSUME TypeOK, HeaderComplete
    PROVE  /\ Len(buf) \in Nat /\ Len(buf) >= TileHeaderWait(buf[1])
           /\ \A k \in 1..Len(buf) : buf[k] \in Byte
           /\ Len(buf) >= 1
<1>1. buf \in Seq(Byte) /\ Len(buf) \in Nat /\ buf # <<>>
  BY LenProperties DEF TypeOK, HeaderComplete
<1>2. Len(buf) >= TileHeaderWait(buf[1])
  BY <1>1 DEF HeaderComplete
<1>3. \A k \in 1..Len(buf) : buf[k] \in Byte
  BY <1>1, ByteInBuffer
<1>4. Len(buf) # 0
  BY <1>1, EmptySeq
<1> QED
  BY <1>1, <1>2, <1>3, <1>4

\* The header of a tile.
LEMMA HeaderType ==
    ASSUME TypeOK, UNCHANGED Outside,
           HextileWaitHeader \/ HextileRawHeader \/ HextileHeader
    PROVE  TypeOK'
<1>1. CASE HextileWaitHeader
  <2>1. hex' \in [bg : Colour, fg : Colour, sub : Byte, n : Byte]
    <3>1. hex \in [bg : Colour, fg : Colour, sub : Byte, n : Byte]
      BY DEF TypeOK
    <3>2. buf # <<>> => buf[1] \in Byte
      BY ByteInBuffer, EmptySeq, LenProperties DEF TypeOK
    <3>3. hex' = IF buf = <<>> THEN hex ELSE [hex EXCEPT !.sub = buf[1]]
      BY <1>1 DEF HextileWaitHeader
    <3> QED
      BY <3>1, <3>2, <3>3
  <2> QED
    BY <1>1, <2>1 DEF HextileWaitHeader, Return0, TypeOK, Outside, envVars,
       connVars, rectVars, lcdVars, keyVars, Locations
<1>2. CASE HextileRawHeader
  <2>1. HeaderHere /\ HeaderComplete
    BY <1>2 DEF HextileRawHeader, HeaderHere
  <2>2. hex' \in [bg : Colour, fg : Colour, sub : Byte, n : Byte]
    <3>1. buf[1] \in Byte
      BY <2>1, HeaderBytesHere
    <3> QED
      BY <1>2, <3>1 DEF HextileRawHeader, TypeOK
  <2>3. interPixelCount' \in Ulongs
    BY <1>2, TileFields, TilePixels DEF HextileRawHeader
  <2>4. lcd' \in [x : Nat, y : Nat, w : Nat, h : Nat, pos : Nat]
    BY <1>2, TileFields, SMTT(30) DEF HextileRawHeader, SetupTile, TypeOK
  <2>5. buf' \in Seq(Byte) /\ Len(buf') <= VNC_BUFFER_MAX
    <3>1. Len(buf) >= 1 /\ Consume(1)
      BY <1>2, <2>1, HeaderBytesHere DEF HextileRawHeader
    <3> QED
      BY <3>1, ConsumeType
  <2>6. hextileState' \in HEXTILESTATE /\ UNCHANGED hextileBuffer
    BY <1>2 DEF HextileRawHeader, HEXTILESTATE
  <2>7. /\ pc' = "process"
        /\ UNCHANGED <<connVars, VNCpixelProcessorState, rectangleCount,
                       updateWindow, tile, screen>>
    BY <2>1 DEF HeaderHere, Again
  <2> QED
    BY <2>2, <2>3, <2>4, <2>5, <2>6, <2>7 DEF TypeOK, Outside, envVars,
       connVars, keyVars, Locations
<1>3. CASE HextileHeader
  <2> DEFINE b == buf[1]
             f == IF BackgroundSpecified(b) THEN 4 ELSE 2
             s == IF ForegroundSpecified(b) THEN f + 2 ELSE f
             bg == IF BackgroundSpecified(b) THEN LittlePixel(buf[2], buf[3]) ELSE hex.bg
             fg == IF ForegroundSpecified(b) THEN LittlePixel(buf[f], buf[f+1]) ELSE hex.fg
             n == IF AnySubrects(b) THEN buf[s] ELSE 0
             taken == IF AnySubrects(b) THEN s ELSE s - 1
  <2>1. HeaderHere /\ HeaderComplete
    BY <1>3 DEF HextileHeader, HeaderHere
  <2>2. /\ hex' = [bg |-> bg, fg |-> fg, sub |-> b, n |-> n]
        /\ hextileBuffer' = [c \in Cells |-> bg]
        /\ Consume(taken)
    BY <1>3 DEF HextileHeader
  <2>3. /\ hextileState' \in HEXTILESTATE
        /\ UNCHANGED <<interPixelCount, lcd>>
    BY <1>3 DEF HextileHeader, HEXTILESTATE
  <2>4. /\ pc' = "process"
        /\ UNCHANGED <<connVars, VNCpixelProcessorState, rectangleCount,
                       updateWindow, tile, screen>>
    BY <2>1 DEF HeaderHere, Again
  <2>5. hex.bg \in Colour /\ hex.fg \in Colour /\ 0 \in Byte
    BY DEF TypeOK, Byte
  <2>6. /\ Len(buf) \in Nat
        /\ \A k \in 1..Len(buf) : buf[k] \in Byte
        /\ 1 \in 1..Len(buf)
    BY <2>1, HeaderBytesHere
  <2>7. Len(buf) >= 1 + (IF BackgroundSpecified(b) THEN 2 ELSE 0)
                     + (IF ForegroundSpecified(b) THEN 2 ELSE 0)
                     + (IF AnySubrects(b) THEN 2 ELSE 0)
    BY <2>1, HeaderBytesHere DEF TileHeaderWait, BYTES_PER_PIXEL
  <2>8. /\ BackgroundSpecified(b) => 2 \in 1..Len(buf) /\ 3 \in 1..Len(buf)
        /\ ForegroundSpecified(b) => f \in 1..Len(buf) /\ f + 1 \in 1..Len(buf)
        /\ AnySubrects(b) => s \in 1..Len(buf)
        /\ taken \in Nat /\ taken <= Len(buf)
    <3> HIDE DEF b
    <3> QED
      BY <2>6, <2>7
  <2>9. bg \in Colour
    <3>1. CASE BackgroundSpecified(b)
      <4>1. buf[2] \in Byte /\ buf[3] \in Byte
        BY <2>6, <2>8, <3>1
      <4> QED
        BY <3>1, <4>1, TwoBytes
    <3> QED
      BY <2>5, <3>1
  <2>10. fg \in Colour
    <3>1. CASE ForegroundSpecified(b)
      <4> HIDE DEF f
      <4>1. buf[f] \in Byte /\ buf[f+1] \in Byte
        BY <2>6, <2>8, <3>1
      <4> QED
        BY <3>1, <4>1, TwoBytes
    <3> QED
      BY <2>5, <3>1
  <2>11. b \in Byte /\ n \in Byte
    <3> HIDE DEF s
    <3> QED
      BY <2>5, <2>6, <2>8
  <2> HIDE DEF b, bg, fg, n, taken
  <2>12. buf' \in Seq(Byte) /\ Len(buf') <= VNC_BUFFER_MAX
    BY <2>2, <2>8, ConsumeType
  <2>13. hex' \in [bg : Colour, fg : Colour, sub : Byte, n : Byte]
    BY <2>2, <2>9, <2>10, <2>11
  <2>14. hextileBuffer' \in [Cells -> Colour]
    BY <2>2, <2>9
  <2> QED
    BY <2>3, <2>4, <2>12, <2>13, <2>14 DEF TypeOK, Outside, envVars,
       connVars, keyVars, Locations
<1> QED
  BY <1>1, <1>2, <1>3

\* The pixels at the front of the buffer, as DrawRawTile sends them.
LEMMA FrontPixels ==
    ASSUME buf \in Seq(Byte), NEW n \in Nat, n * BYTES_PER_PIXEL <= Len(buf)
    PROVE  LET pixels == [i \in 1..n |-> LittlePixel(buf[2*i - 1], buf[2*i])]
           IN pixels \in [1..n -> Colour] /\ Len(pixels) = n
<1> DEFINE pixels == [i \in 1..n |-> LittlePixel(buf[2*i - 1], buf[2*i])]
<1>1. ASSUME NEW i \in 1..n PROVE LittlePixel(buf[2*i - 1], buf[2*i]) \in Colour
  <2>1. 2*i - 1 \in 1..Len(buf) /\ 2*i \in 1..Len(buf)
    BY LenProperties DEF BYTES_PER_PIXEL
  <2>2. buf[2*i - 1] \in Byte /\ buf[2*i] \in Byte
    BY <2>1, ByteInBuffer
  <2> QED
    BY <2>2, TwoBytes
<1>2. pixels \in [1..n -> Colour]
  BY <1>1
<1> HIDE DEF pixels
<1>3. pixels \in Seq(Colour) /\ Len(pixels) = n
  BY <1>2
<1> QED
  BY <1>2, <1>3 DEF pixels

\* Pixels written to the LCD change the screen and the write position.
LEMMA LcdWriteType ==
    ASSUME TypeOK, NEW n \in Nat, n * BYTES_PER_PIXEL <= Len(buf), DrawRawTile(n)
    PROVE  /\ screen' \in [Pixels -> Colour]
           /\ lcd' \in [x : Nat, y : Nat, w : Nat, h : Nat, pos : Nat]
           /\ lcd' = [lcd EXCEPT !.pos = lcd.pos + n]
<1> DEFINE pixels == [i \in 1..n |-> LittlePixel(buf[2*i - 1], buf[2*i])]
<1>1. pixels \in [1..n -> Colour] /\ Len(pixels) = n
  BY FrontPixels DEF TypeOK
<1>2. LcdWrite(pixels)
  BY DEF DrawRawTile
<1> HIDE DEF pixels
<1>3. lcd' = [lcd EXCEPT !.pos = lcd.pos + n]
  BY <1>1, <1>2 DEF LcdWrite
<1>4. lcd' \in [x : Nat, y : Nat, w : Nat, h : Nat, pos : Nat]
  <2>1. lcd \in [x : Nat, y : Nat, w : Nat, h : Nat, pos : Nat]
    BY DEF TypeOK
  <2>2. lcd.pos + n \in Nat
    BY <2>1
  <2> QED
    BY <1>3, <2>1, <2>2
<1>5. screen' \in [Pixels -> Colour]
  <2> DEFINE k(p) == (p[2] - lcd.y) * lcd.w + (p[1] - lcd.x)
             new(p) == IF /\ p[1] \in lcd.x .. lcd.x + lcd.w - 1
                          /\ p[2] \in lcd.y .. lcd.y + lcd.h - 1
                          /\ k(p) + 1 - lcd.pos \in DOMAIN pixels
                       THEN pixels[k(p) + 1 - lcd.pos] ELSE screen[p]
  <2>1. screen' = [p \in Pixels |-> new(p)]
    BY <1>2 DEF LcdWrite
  <2> HIDE DEF k
  <2>2. ASSUME NEW p \in Pixels PROVE new(p) \in Colour
    <3>1. screen[p] \in Colour
      BY DEF TypeOK
    <3>2. \A j \in DOMAIN pixels : pixels[j] \in Colour
      BY <1>1
    <3> QED
      BY <3>1, <3>2
  <2> HIDE DEF new
  <2> QED
    BY <2>1, <2>2
<1> QED
  BY <1>3, <1>4, <1>5

\* Raw tiles, drawn or dropped.
LEMMA RawTileType ==
    ASSUME TypeOK, UNCHANGED Outside, HextileDropRaw \/ HextileDrawRaw
    PROVE  TypeOK'
<1> DEFINE done == hextileState' = "DONE" /\ UNCHANGED VNCpixelProcessorState
<1>1. TakePixels(done)
  BY DEF HextileDropRaw, HextileDrawRaw, DropOutOfViewPixels
<1>2. /\ VNCpixelProcessorState' \in VNCPPSTATE /\ hextileState' \in HEXTILESTATE
      /\ pc' \in Locations
      /\ UNCHANGED <<connVars, rectangleCount, updateWindow, tile, hex, hextileBuffer>>
  BY <1>1 DEF TakePixels, HEXTILESTATE, TypeOK, Locations, Again
<1> HIDE DEF done
<1>3. /\ buf' \in Seq(Byte) /\ Len(buf') <= VNC_BUFFER_MAX
      /\ interPixelCount' \in Ulongs
  BY <1>1, TakePixelsType
<1>4. /\ screen' \in [Pixels -> Colour]
      /\ lcd' \in [x : Nat, y : Nat, w : Nat, h : Nat, pos : Nat]
  <2>1. CASE HextileDropRaw
    BY <2>1 DEF HextileDropRaw, DropOutOfViewPixels, lcdVars, TypeOK
  <2>2. CASE HextileDrawRaw
    <3>1. PixelsTaken \in Nat /\ PixelsTaken * BYTES_PER_PIXEL <= Len(buf)
      BY PixelsTakenRange DEF TypeOK
    <3>2. DrawRawTile(PixelsTaken)
      BY <2>2 DEF HextileDrawRaw
    <3> QED
      BY <3>1, <3>2, LcdWriteType
  <2> QED
    BY <2>1, <2>2
<1> QED
  BY <1>2, <1>3, <1>4 DEF TypeOK, Outside, envVars, connVars, keyVars

\* Subrectangles are filled into the tile buffer one by one.
LEMMA SubrectType ==
    ASSUME TypeOK, UNCHANGED Outside,
           \/ HextileSubrect \/ HextileSubrectOverrun
           \/ HextileWaitSubrect \/ HextileBufferFilled
    PROVE  TypeOK'
<1>1. CASE HextileSubrect
  <2> DEFINE colour == IF SubrectsColoured(hex.sub)
                         THEN LittlePixel(buf[1], buf[2]) ELSE hex.fg
  <2>1. /\ Len(buf) >= SubrectBytes /\ Consume(SubrectBytes) /\ hex.n # 0
        /\ hex' = [hex EXCEPT !.n = hex.n - 1]
        /\ hextileBuffer' = [c \in Cells |->
             IF c[1] \in SubrectColumns /\ c[2] \in SubrectRows
               THEN colour ELSE hextileBuffer[c]]
        /\ pc' = "process"
        /\ UNCHANGED <<connVars, rectVars, hextileState, tile, lcdVars>>
    BY <1>1 DEF HextileSubrect, Again
  <2>2. SubrectBytes \in Nat /\ SubrectBytes >= 2
    BY DEF SubrectBytes, BYTES_PER_PIXEL
  <2>3. buf' \in Seq(Byte) /\ Len(buf') <= VNC_BUFFER_MAX
    <3>1. Len(buf) \in Nat
      BY LenProperties DEF TypeOK
    <3> QED
      BY <2>1, <2>2, <3>1, ConsumeType
  <2>4. colour \in Colour
    <3>1. buf \in Seq(Byte) /\ Len(buf) \in Nat /\ hex.fg \in Colour
      BY LenProperties DEF TypeOK
    <3>2. buf[1] \in Byte /\ buf[2] \in Byte
      BY <2>1, <2>2, <3>1, ByteInBuffer
    <3> QED
      BY <3>1, <3>2, TwoBytes
  <2>5. hex' \in [bg : Colour, fg : Colour, sub : Byte, n : Byte]
    <3>1. hex.n \in Byte /\ hex \in [bg : Colour, fg : Colour, sub : Byte, n : Byte]
      BY DEF TypeOK
    <3>2. hex.n - 1 \in Byte
      BY <2>1, <3>1 DEF Byte
    <3> QED
      BY <2>1, <3>1, <3>2
  <2> HIDE DEF colour
  <2>6. hextileBuffer' \in [Cells -> Colour]
    BY <2>1, <2>4 DEF TypeOK
  <2> QED
    BY <2>1, <2>3, <2>5, <2>6 DEF TypeOK, Outside, envVars, connVars,
       rectVars, lcdVars, keyVars, Locations
<1>2. CASE HextileSubrectOverrun
  BY <1>2 DEF HextileSubrectOverrun, TypeOK, Outside, envVars, connVars,
     rectVars, tileVars, lcdVars, keyVars, Locations
<1>3. CASE HextileWaitSubrect
  BY <1>3, WaitType DEF HextileWaitSubrect
<1>4. CASE HextileBufferFilled
  BY <1>4 DEF HextileBufferFilled, HEXTILESTATE, Again, TypeOK, Outside, envVars,
     connVars, rectVars, lcdVars, keyVars, Locations
<1> QED
  BY <1>1, <1>2, <1>3, <1>4

\* A finished tile goes to the LCD, or nowhere.
LEMMA DrawTileType ==
    ASSUME TypeOK, UNCHANGED Outside, HextileDrawTile \/ HextileSkipTile
    PROVE  TypeOK'
<1>1. CASE HextileDrawTile
  <2>1. PICK behind \in BehindBuffer :
          screen' = [p \in Pixels |->
                      LET c == <<p[1] - tile.x, p[2] - tile.y>>
                      IN IF c \in (0 .. tile.w - 1) \X (0 .. tile.h - 1)
                           THEN IF c \in Cells THEN hextileBuffer[c] ELSE behind[p]
                           ELSE screen[p]]
    BY <1>1 DEF HextileDrawTile
  <2>2. behind \in [Pixels -> Colour]
    <3>1. [p \in Pixels |-> 0] \in [Pixels -> Colour]
      BY UintMax DEF Colour
    <3> QED
      BY <3>1 DEF BehindBuffer
  <2> DEFINE c(p) == <<p[1] - tile.x, p[2] - tile.y>>
             new(p) == IF c(p) \in (0 .. tile.w - 1) \X (0 .. tile.h - 1)
                         THEN IF c(p) \in Cells THEN hextileBuffer[c(p)] ELSE behind[p]
                         ELSE screen[p]
  <2>3. screen' = [p \in Pixels |-> new(p)]
    BY <2>1
  <2> HIDE DEF c
  <2>4. ASSUME NEW p \in Pixels PROVE new(p) \in Colour
    BY <2>2 DEF TypeOK
  <2> HIDE DEF new
  <2>5. screen' \in [Pixels -> Colour]
    BY <2>3, <2>4
  <2>6. lcd' \in [x : Nat, y : Nat, w : Nat, h : Nat, pos : Nat]
    <3>1. tile.w * tile.h \in Nat
      BY TileFields
    <3> QED
      BY <1>1, <3>1, TileFields DEF HextileDrawTile
  <2> QED
    BY <1>1, <2>5, <2>6 DEF HextileDrawTile, HEXTILESTATE, Again, TypeOK, Outside,
       envVars, connVars, rectVars, keyVars, Locations
<1>2. CASE HextileSkipTile
  BY <1>2 DEF HextileSkipTile, HEXTILESTATE, Again, TypeOK, Outside, envVars,
     connVars, rectVars, lcdVars, keyVars, Locations
<1> QED
  BY <1>1, <1>2

-----------------------------------------------------------------------------
(* Type correctness *)

\* The whole loop, and anything the environment does, keeps the types.
LEMMA StepType == TypeOK /\ [MainLoop \/ Environment]_vars => TypeOK'
<1> SUFFICES ASSUME TypeOK, [MainLoop \/ Environment]_vars PROVE TypeOK'
  OBVIOUS
<1>1. CASE VncServerGetData
  BY <1>1, GetDataType
<1>2. CASE Buttons_Handler \/ SendResponse
  BY <1>2, AnswerType
<1>3. CASE Vnc_StateMachine
  <2>1. UNCHANGED Outside
    BY <1>3 DEF Vnc_StateMachine, Outside
  <2>2. CASE ProcessHextile
    BY <2>1, <2>2, NextTileType, HeaderType, RawTileType, SubrectType, DrawTileType
       DEF ProcessHextile
  <2>3. CASE PixelProcessor /\ ~ProcessHextile
    BY <2>1, <2>3, PixelType, RectangleType DEF PixelProcessor
  <2> QED
    BY <1>3, <2>1, <2>2, <2>3, ConnectType, UpdateType DEF Vnc_StateMachine
<1>4. CASE Environment
  BY <1>4 DEF Environment, TypeOK, connVars, rectVars, tileVars, lcdVars, keyVars
<1>5. CASE UNCHANGED vars
  BY <1>5 DEF vars, TypeOK, envVars, connVars, rectVars, tileVars, lcdVars, keyVars
<1> QED
  BY <1>1, <1>2, <1>3, <1>4, <1>5 DEF MainLoop

\* Whatever the server sends and however the bytes are cut, the unparsed
\* bytes fit in vncBuffer (main.c's call of VncServerGetData leaves exactly
\* the room there is), every index into it is in range and every register of
\* vnc.c keeps its width.
THEOREM TypeCorrect == Spec => []TypeOK
<1>1. Init => TypeOK
  BY InitType
<1>2. TypeOK /\ [MainLoop \/ Environment]_vars => TypeOK'
  BY StepType
<1> QED
  BY <1>1, <1>2, PTL DEF Spec

-----------------------------------------------------------------------------
(* The order of the messages *)

\* The states past each of the gates of Vnc_LoadResponseBuffer.
PastName == {"CONNECTED", "CONNECTED_REFRESH", "WAITFORUPDATE", "PROCESSINGUPDATE"}
PastResponse == PastName \union {"SENTCLIENTINITMESSAGE", "WAITFORSERVERNAME"}
PastAuthWord == PastResponse \union {"WAITFORVNCAUTHRESPONSE"}
PastConnect == PastAuthWord \union {"WAITFORAUTHTYPE", "WAITFORVNCAUTHWORD"}

\* The messages sent are due in the given states of the connection.
Due(state, sent) ==
    state \notin {"DEAD", "AUTHFAILED"} =>
      /\ sent # "INIT" => state \in PastConnect
      /\ sent \notin {"INIT", "VERSIONSENT"} => state \in PastAuthWord
      /\ sent \notin {"INIT", "VERSIONSENT", "AUTHWORDSENT"} => state \in PastResponse
      /\ sent \in {"PIXELFORMATSENT", "ENCODINGTYPESENT", "PARTIALREFRESHSENT"}
           => state \in PastName

\* Vnc_LoadResponseBuffer's comparisons of VNCstate, spelled out.
LEMMA RankOrder ==
    ASSUME NEW state \in VNCSTATE
    PROVE  /\ Rank[state] > Rank["NOTCONNECTED"] <=> state \in PastConnect
           /\ Rank[state] > Rank["WAITFORVNCAUTHWORD"] <=> state \in PastAuthWord
           /\ Rank[state] > Rank["WAITFORVNCAUTHRESPONSE"] <=> state \in PastResponse
           /\ Rank[state] > Rank["WAITFORSERVERNAME"] <=> state \in PastName
BY StateNames DEF Rank, PastConnect, PastAuthWord, PastResponse, PastName

\* SendOrder is Due, now and after a step.
LEMMA OrderIsDue ==
    /\ TypeOK => (SendOrder <=> Due(VNCstate, VNCsendState))
    /\ TypeOK' => (SendOrder' <=> Due(VNCstate', VNCsendState'))
<1>1. TypeOK => (SendOrder <=> Due(VNCstate, VNCsendState))
  <2> SUFFICES ASSUME VNCstate \in VNCSTATE
               PROVE  SendOrder <=> Due(VNCstate, VNCsendState)
    BY DEF TypeOK
  <2> QED
    BY RankOrder DEF SendOrder, Due, Past
<1>2. TypeOK' => (SendOrder' <=> Due(VNCstate', VNCsendState'))
  <2> SUFFICES ASSUME VNCstate' \in VNCSTATE
               PROVE  SendOrder' <=> Due(VNCstate', VNCsendState')
    BY DEF TypeOK
  <2> QED
    BY RankOrder DEF SendOrder, Due, Past
<1> QED
  BY <1>1, <1>2

\* A message that is sent was due.
LEMMA RespondDue ==
    ASSUME TypeOK, Due(VNCstate, VNCsendState), SendResponse
    PROVE  Due(VNCstate', VNCsendState')
<1>1. VNCstate \in VNCSTATE /\ VNCsendState \in VNCSENDSTATE
  BY DEF TypeOK
<1>2. VNCstate' = VNCstate
  BY DEF SendResponse, SendVersion, SendAuthWord, SendClientInit, SendPixelFormat,
     SendEncodings, SendFullRefresh, SendRequest, NothingToSend, Respond, connVars
<1>3. CASE SendVersion
  <2>1. VNCstate \in PastConnect /\ VNCsendState' = "VERSIONSENT"
    BY <1>1, <1>3, RankOrder DEF SendVersion, Respond, Gate, Past
  <2> QED
    BY <1>2, <2>1 DEF Due
<1>4. CASE SendAuthWord
  <2>1. VNCstate \in PastAuthWord /\ VNCsendState' = "AUTHWORDSENT"
    BY <1>1, <1>4, RankOrder DEF SendAuthWord, Respond, Gate, Past
  <2> QED
    BY <1>2, <2>1 DEF Due, PastConnect
<1>5. CASE SendClientInit
  <2>1. VNCstate \in PastResponse /\ VNCsendState' = "CLIENTINITMESSAGESENT"
    BY <1>1, <1>5, RankOrder DEF SendClientInit, Respond, Gate, Past
  <2> QED
    BY <1>2, <2>1 DEF Due, PastConnect, PastAuthWord
<1>6. CASE SendPixelFormat \/ SendEncodings \/ SendFullRefresh
  <2>1. VNCstate \in PastName
    BY <1>1, <1>6, RankOrder DEF SendPixelFormat, SendEncodings, SendFullRefresh,
       Respond, Gate, Past
  <2> QED
    BY <1>2, <2>1 DEF Due, PastConnect, PastAuthWord, PastResponse
<1>7. CASE SendRequest \/ NothingToSend
  <2>1. VNCsendState' = VNCsendState
    BY <1>7 DEF SendRequest, NothingToSend, connVars
  <2> QED
    BY <1>2, <2>1
<1> QED
  BY <1>3, <1>4, <1>5, <1>6, <1>7 DEF SendResponse

\* The decoder of an update leaves the connection as it is until the update is
\* done.
LEMMA UpdateKeepsState ==
    ASSUME PixelProcessor, ~UpdateDone
    PROVE  UNCHANGED connVars
<1>1. CASE ProcessHextile
  BY <1>1 DEF ProcessHextile, HextileInit, HextileLastTile, HextileNextTile,
     HextileWaitHeader, HextileRawHeader, HextileHeader, HeaderHere,
     HextileDropRaw, HextileDrawRaw, DropOutOfViewPixels, TakePixels,
     HextileSubrect, HextileSubrectOverrun, HextileWaitSubrect,
     WaitForBytes, HextileBufferFilled, HextileDrawTile, HextileSkipTile
<1>2. CASE BadEncoding \/ RawRectangle \/ CopyRectRectangle \/ HextileRectangle
  BY <1>2 DEF BadEncoding, RawRectangle, CopyRectRectangle, HextileRectangle,
     RectangleHeader
<1>3. CASE WaitForRectangle \/ DropRectangle \/ ProcessCopyRect
  BY <1>3 DEF WaitForRectangle, WaitForBytes, DropRectangle,
     DropOutOfViewPixels, TakePixels, ProcessCopyRect
<1> QED
  BY <1>1, <1>2, <1>3 DEF PixelProcessor

\* Parsing the stream only makes more messages due.
LEMMA ParseDue ==
    ASSUME TypeOK, Due(VNCstate, VNCsendState), Vnc_StateMachine
    PROVE  Due(VNCstate', VNCsendState')
<1> USE DEF Due, PastConnect, PastAuthWord, PastResponse, PastName
<1>1. CASE NotConnected \/ WaitForVncAuthWord \/ WaitForVncAuthResponse
           \/ WaitForServerName \/ Connected
  BY <1>1 DEF NotConnected, WaitForVncAuthWord, WaitForVncAuthResponse,
     WaitForServerName, Connected, Handshake, WaitForBytes, Processing, connVars
<1>2. CASE WaitForAuthType
  BY <1>2 DEF WaitForAuthType, WaitForBytes, Processing, connVars
<1>3. CASE SentClientInitMessage
  BY <1>3 DEF SentClientInitMessage, WaitForBytes, Processing, connVars
<1>4. CASE WaitForUpdate \/ ProcessError
  BY <1>4 DEF WaitForUpdate, ProcessError, WaitForBytes, connVars
<1>5. CASE PixelProcessor /\ UpdateDone
  BY <1>5 DEF UpdateDone, PixelProcessing, Processing
<1>6. CASE PixelProcessor /\ ~UpdateDone
  BY <1>6, UpdateKeepsState DEF connVars
<1> QED
  BY <1>1, <1>2, <1>3, <1>4, <1>5, <1>6 DEF Vnc_StateMachine

\* Vnc_LoadResponseBuffer looks at VNCstate alone and not at what the server
\* said, yet whatever the server sends no message goes out before the client
\* has parsed the server's messages that come before it; a connection leads
\* back to the first message only through Vnc_ResetSystem.
THEOREM AnswersInOrder == Spec => []SendOrder
<1>1. Init => TypeOK /\ SendOrder
  BY InitType DEF Init, ClientInit, SendOrder
<1>2. TypeOK /\ SendOrder /\ [MainLoop \/ Environment]_vars => SendOrder'
  <2> SUFFICES ASSUME TypeOK, TypeOK', Due(VNCstate, VNCsendState),
                      [MainLoop \/ Environment]_vars
               PROVE  Due(VNCstate', VNCsendState')
    BY StepType, OrderIsDue
  <2>1. CASE VncServerGetData
    BY <2>1 DEF VncServerGetData, GetControlSame, GetControlChanged, LatchControl,
       GetDataDisconnected, GetDataConnected, ReadBytes, Vnc_ResetSystem, connVars, Due
  <2>2. CASE Buttons_Handler \/ Environment \/ UNCHANGED vars
    BY <2>2 DEF Buttons_Handler, Environment, vars, connVars
  <2>3. CASE Vnc_StateMachine
    BY <2>3, ParseDue
  <2>4. CASE SendResponse
    BY <2>4, RespondDue
  <2> QED
    BY <2>1, <2>2, <2>3, <2>4 DEF MainLoop
<1> QED
  BY <1>1, <1>2, TypeCorrect, PTL DEF Spec

-----------------------------------------------------------------------------
(* Raw tiles *)

\* However the pixels of a raw tile are cut by the stream, they go to the LCD
\* window of the tile, in order and as many as it has (HEXTILESTATE_DRAWRAW,
\* whose counter and LCD position live on across returns to the main loop).
THEOREM RawTiles == Spec => []RawTileExact
<1>1. Init => RawTileExact
  BY DEF Init, ClientInit, RawTileExact
<1>2. TypeOK /\ RawTileExact /\ [MainLoop \/ Environment]_vars => RawTileExact'
  <2> SUFFICES ASSUME TypeOK, RawTileExact, [MainLoop \/ Environment]_vars,
                      VNCstate' = "PROCESSINGUPDATE",
                      VNCpixelProcessorState' = "HEXTILE",
                      hextileState' = "DRAWRAW",
                      tile'.w <= Tile, tile'.h <= Tile
               PROVE  lcd'.pos + interPixelCount' = lcd'.w * lcd'.h
    BY DEF RawTileExact
  <2>1. CASE HextileRawHeader
    <3>1. tile' = tile /\ interPixelCount' = tile.w * tile.h
      BY <2>1, TileFields, TilePixels DEF HextileRawHeader, HeaderHere
    <3>2. lcd' = [x |-> tile.x, y |-> tile.y, w |-> tile.w, h |-> tile.h, pos |-> 0]
      BY <2>1 DEF HextileRawHeader, SetupTile
    <3>3. tile.w * tile.h \in Nat
      BY TileFields
    <3> QED
      BY <3>1, <3>2, <3>3
  <2>2. CASE HextileDrawRaw
    <3> DEFINE done == hextileState' = "DONE" /\ UNCHANGED VNCpixelProcessorState
    <3>1. TakePixels(done) /\ DrawRawTile(PixelsTaken)
      BY <2>2 DEF HextileDrawRaw
    <3>2. ~AllPixelsHere /\ interPixelCount' = interPixelCount - PixelsTaken /\ tile' = tile
      BY <3>1 DEF TakePixels
    <3>3. PixelsTaken \in Nat /\ PixelsTaken * BYTES_PER_PIXEL <= Len(buf)
      BY PixelsTakenRange DEF TypeOK
    <3>4. lcd' = [lcd EXCEPT !.pos = lcd.pos + PixelsTaken]
      BY <3>1, <3>3, LcdWriteType
    <3>5. lcd.pos + interPixelCount = lcd.w * lcd.h
      BY <2>2, <3>2 DEF RawTileExact, HextileDrawRaw, HextileProcessing,
         PixelProcessing, Processing
    <3>6. lcd \in [x : Nat, y : Nat, w : Nat, h : Nat, pos : Nat] /\ interPixelCount \in Nat
      BY DEF TypeOK, Ulongs
    <3>7. lcd'.pos = lcd.pos + PixelsTaken /\ lcd'.w = lcd.w /\ lcd'.h = lcd.h
      BY <3>4, <3>6
    <3> QED
      BY <3>2, <3>3, <3>5, <3>6, <3>7
  <2>3. CASE ~HextileRawHeader /\ ~HextileDrawRaw
    <3>1. /\ UNCHANGED <<lcd, interPixelCount, tile>>
          /\ VNCstate = "PROCESSINGUPDATE" /\ VNCpixelProcessorState = "HEXTILE"
          /\ hextileState = "DRAWRAW"
      <4>1. CASE VncServerGetData
        BY <4>1 DEF VncServerGetData, GetControlSame, GetControlChanged,
           LatchControl, GetDataDisconnected, GetDataConnected, ReadBytes,
           Vnc_ResetSystem, connVars, rectVars, tileVars, lcdVars
      <4>2. CASE Buttons_Handler \/ Environment \/ UNCHANGED vars
        BY <4>2 DEF Buttons_Handler, Environment, vars, connVars, rectVars,
           tileVars, lcdVars
      <4>3. CASE SendResponse
        BY <4>3 DEF SendResponse, SendVersion, SendAuthWord, SendClientInit,
           SendPixelFormat, SendEncodings, SendFullRefresh, Respond, SendRequest,
           NothingToSend, connVars, rectVars, tileVars, lcdVars
      <4>4. CASE NotConnected \/ WaitForAuthType \/ WaitForVncAuthWord
                 \/ WaitForVncAuthResponse \/ SentClientInitMessage
                 \/ WaitForServerName \/ Connected \/ WaitForUpdate \/ ProcessError
        BY <4>4 DEF NotConnected, WaitForAuthType, WaitForVncAuthWord,
           WaitForVncAuthResponse, SentClientInitMessage, WaitForServerName,
           Connected, WaitForUpdate, ProcessError, Handshake, WaitForBytes,
           Processing, connVars, rectVars, tileVars, lcdVars
      <4>5. CASE BadEncoding \/ RawRectangle \/ CopyRectRectangle \/ HextileRectangle
        BY <4>5 DEF BadEncoding, RawRectangle, CopyRectRectangle, HextileRectangle,
           RectangleHeader, PixelProcessing, Processing
      <4>6. CASE UpdateDone \/ WaitForRectangle \/ DropRectangle \/ ProcessCopyRect
        BY <4>6 DEF UpdateDone, WaitForRectangle, DropRectangle, ProcessCopyRect,
           WaitForBytes, DropOutOfViewPixels, TakePixels, PixelProcessing,
           Processing, connVars, rectVars, tileVars, lcdVars
      <4>7. CASE ProcessHextile
        BY <2>3, <4>7 DEF ProcessHextile, HextileInit, HextileLastTile,
           HextileNextTile, HextileWaitHeader, HextileHeader, HeaderHere,
           HextileDropRaw, DropOutOfViewPixels, TakePixels,
           HextileSubrect, HextileSubrectOverrun, HextileWaitSubrect,
           WaitForBytes, HextileBufferFilled, HextileDrawTile, HextileSkipTile,
           HextileProcessing, PixelProcessing, Processing, connVars, rectVars,
           tileVars, lcdVars
      <4> QED
        BY <4>1, <4>2, <4>3, <4>4, <4>5, <4>6, <4>7 DEF MainLoop,
           Vnc_StateMachine, PixelProcessor
    <3> QED
      BY <3>1 DEF RawTileExact
  <2> QED
    BY <2>1, <2>2, <2>3
<1> QED
  BY <1>1, <1>2, TypeCorrect, PTL DEF Spec
=============================================================================
