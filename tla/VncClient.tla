------------------------------ MODULE VncClient ------------------------------
(***************************************************************************)
(* microVNC, the VNC client of the display (LCD Test/vnc.c), with the main *)
(* loop that drives it (main.c), the server connection it reads and writes *)
(* (VncServerComms.c, the Teensy USB variant the build selects), the       *)
(* buttons (Buttons.c) and the tile writes it makes to the LCD (SpiLcd.c). *)
(*                                                                         *)
(* The program is a single loop.  Each action is one case of one of its    *)
(* state machines; pc says which part of the loop is running.  The bytes   *)
(* of the server reach it in pieces of any size.                           *)
(***************************************************************************)
EXTENDS Integers, Sequences, FiniteSets

CONSTANTS Tile,            \* 16: the side of a hextile
          SCREEN_WIDTH,    \* 128
          SCREEN_HEIGHT,   \* 160
          VNC_BUFFER_MAX,  \* 200: the size of vncBuffer
          UlongRange,      \* 2^32: how many values an unsigned long has
          TxBytes          \* 128: bytes the transmit endpoint holds, in two banks

ASSUME TileAssumption == Tile \in 1..16
ASSUME ScreenAssumption ==
    SCREEN_WIDTH \in Nat \ {0} /\ SCREEN_HEIGHT \in Nat \ {0}
ASSUME BufferAssumption == VNC_BUFFER_MAX \in Nat /\ VNC_BUFFER_MAX >= 24
ASSUME UlongAssumption == UlongRange \in Nat /\ UlongRange >= 65536
ASSUME TxAssumption == TxBytes \in Nat \ {0}

VARIABLES
    pc,                \* part of the main loop that runs next
    rx,                \* bytes of the server the program has not read yet
    toServer,          \* messages written and not yet read by the server
    control,           \* usb_serial_get_control(): the host's DTR and RTS
    lastControlState,
    pins,              \* the buttons that are held down
    buf,               \* vncBuffer[0 .. vncBufferSize-1]
    VNCstate, VNCsendState, VNCpixelProcessorState, hextileState,
    rectangleCount, interPixelCount,
    updateWindow,      \* updateWindowX0, Y0, X1, Y1
    tile,              \* tileX, tileY, tileW, tileH
    hex,               \* background, foreground, subencodingByte, numSubrects
    hextileBuffer,
    lcd,               \* the LCD's address window and its write position
    screen,            \* what the LCD shows
    keypress, oneshot

envVars == <<rx, toServer, control, pins>>
connVars == <<VNCstate, VNCsendState>>
rectVars == <<VNCpixelProcessorState, rectangleCount, interPixelCount, updateWindow>>
tileVars == <<hextileState, tile, hex, hextileBuffer>>
lcdVars == <<lcd, screen>>
keyVars == <<keypress, oneshot>>
vars == <<pc, envVars, lastControlState, buf, connVars, rectVars, tileVars,
          lcdVars, keyVars>>

Byte == 0..255
BYTES_PER_PIXEL == 2
UINT_MAX == 65535
Colour == 0..UINT_MAX
Keys == {"a", "b", "c"}

\* The order of the enumeration, which Vnc_LoadResponseBuffer compares by
Rank == [DEAD |-> 0, AUTHFAILED |-> 1, NOTCONNECTED |-> 2,
         WAITFORAUTHTYPE |-> 3, WAITFORVNCAUTHWORD |-> 4,
         WAITFORVNCAUTHRESPONSE |-> 5, SENTCLIENTINITMESSAGE |-> 6,
         WAITFORSERVERNAME |-> 7, CONNECTED |-> 8, CONNECTED_REFRESH |-> 9,
         WAITFORUPDATE |-> 10, PROCESSINGUPDATE |-> 11]
VNCSTATE == DOMAIN Rank

VNCSENDSTATE == {"INIT", "VERSIONSENT", "AUTHWORDSENT",
                 "CLIENTINITMESSAGESENT", "PIXELFORMATSENT",
                 "ENCODINGTYPESENT", "PARTIALREFRESHSENT"}
VNCPPSTATE == {"IDLE", "OUTBOUNDS", "HEXTILE", "COPYRECT"}
HEXTILESTATE == {"INIT", "DONE", "PARSEHEADER", "DRAWRAW", "DROPRAW",
                 "FILLBUFFER", "DRAWTILE"}
Locations == {"control", "latch", "answer", "read", "process", "buttons",
              "respond", "wild"}

Pixels == (0..SCREEN_WIDTH-1) \X (0..SCREEN_HEIGHT-1)
Cells == (0..Tile-1) \X (0..Tile-1)
White == 65535

U16(hi, lo) == hi * 256 + lo
Uint(n) == n % 65536               \* unsigned int has 16 bits
Uints == 0..UINT_MAX
Ulong(n) == n % UlongRange
Ulongs == 0 .. UlongRange - 1

\* A 16-bit int assigned to an unsigned long is sign-extended
Extended(n) == IF n <= 32767 THEN n ELSE UlongRange - 65536 + n

\* The product of two unsigned chars is an int; its overflow is undefined
IntProduct(a, b) == IF a * b <= 32767 THEN {a * b} ELSE Ulongs

LittlePixel(lo, hi) == lo + hi * 256
Bit(byte, mask) == (byte \div mask) % 2 = 1

\* The controller as lcd_initial programs it: the window is the whole panel
lcd_initial == [x |-> 0, y |-> 0, w |-> SCREEN_WIDTH, h |-> SCREEN_HEIGHT, pos |-> 0]

\* LcdInit fills the window twice, the second time in white: the write
\* position is back where it began
LcdInit == lcd = lcd_initial /\ screen = [p \in Pixels |-> White]

\* Power-up: statics are zero
ClientInit ==
    /\ pc = "control"
    /\ lastControlState = 0
    /\ buf = <<>>
    /\ VNCstate = "NOTCONNECTED"
    /\ VNCsendState = "INIT"
    /\ VNCpixelProcessorState = "IDLE"
    /\ hextileState = "INIT"
    /\ rectangleCount = 0
    /\ interPixelCount = 0
    /\ updateWindow = [x0 |-> 0, y0 |-> 0, x1 |-> 0, y1 |-> 0]
    /\ tile = [x |-> 0, y |-> 0, w |-> 0, h |-> 0]
    /\ hex = [bg |-> 0, fg |-> 0, sub |-> 0, n |-> 0]
    /\ hextileBuffer = [c \in Cells |-> 0]
    /\ LcdInit
    /\ keypress = "none"
    /\ oneshot = FALSE

-----------------------------------------------------------------------------
(* VncServerGetData: the control lines are compared, then read again, and  *)
(* the USB interrupt can change them in between                            *)

GetControlSame ==
    /\ pc = "control" /\ lastControlState = control
    /\ pc' = "read"
    /\ UNCHANGED <<envVars, lastControlState, buf, connVars, rectVars,
                   tileVars, lcdVars, keyVars>>

GetControlChanged ==
    /\ pc = "control" /\ lastControlState # control
    /\ pc' = "latch"
    /\ UNCHANGED <<envVars, lastControlState, buf, connVars, rectVars,
                   tileVars, lcdVars, keyVars>>

LatchControl ==
    /\ pc = "latch"
    /\ lastControlState' = control
    /\ pc' = "answer"
    /\ UNCHANGED <<envVars, buf, connVars, rectVars, tileVars, lcdVars, keyVars>>

\* Mutant: the session state survives the reset
VncResetSystemKeepsSend ==
    /\ VNCstate' = "NOTCONNECTED"
    /\ UNCHANGED VNCsendState

Vnc_ResetSystem ==
    /\ VNCstate' = "NOTCONNECTED"
    /\ VNCsendState' = "INIT"

\* Mutant: vncBufferSize is not cleared
GetDataDisconnectedKeepsBuffer ==
    /\ pc = "answer" /\ lastControlState = 0
    /\ Vnc_ResetSystem
    /\ pc' = "control"
    /\ UNCHANGED <<envVars, lastControlState, buf, rectVars, tileVars, lcdVars, keyVars>>

\* lastControlState == 0: return -1, and the loop resets and starts over
GetDataDisconnected ==
    /\ pc = "answer" /\ lastControlState = 0
    /\ buf' = <<>>
    /\ Vnc_ResetSystem
    /\ pc' = "control"
    /\ UNCHANGED <<envVars, lastControlState, rectVars, tileVars, lcdVars, keyVars>>

GetDataConnected ==
    /\ pc = "answer" /\ lastControlState # 0
    /\ pc' = "read"
    /\ UNCHANGED <<envVars, lastControlState, buf, connVars, rectVars,
                   tileVars, lcdVars, keyVars>>

\* Mutant: the room left is not what is already in the buffer
ReadBytesUnbounded ==
    /\ pc = "read"
    /\ \E n \in 0..Len(rx) :
         /\ n <= VNC_BUFFER_MAX
         /\ buf' = buf \o SubSeq(rx, 1, n)
         /\ rx' = SubSeq(rx, n + 1, Len(rx))
    /\ pc' = "process"
    /\ UNCHANGED <<toServer, control, pins, lastControlState, connVars,
                   rectVars, tileVars, lcdVars, keyVars>>

\* usb_serial_getchar until the endpoint is empty or the buffer is full.
\* The endpoint can run empty anywhere in the server's stream.
ReadBytes ==
    /\ pc = "read"
    /\ \E n \in 0..Len(rx) :
         /\ n <= VNC_BUFFER_MAX - Len(buf)
         /\ buf' = buf \o SubSeq(rx, 1, n)
         /\ rx' = SubSeq(rx, n + 1, Len(rx))
    /\ pc' = "process"
    /\ UNCHANGED <<toServer, control, pins, lastControlState, connVars,
                   rectVars, tileVars, lcdVars, keyVars>>

-----------------------------------------------------------------------------
(* Vnc_ProcessVncBuffer calls Vnc_StateMachine until it returns 0 or -1.   *)

Processing(state) == pc = "process" /\ VNCstate = state

\* dataPtr += n, dataSize -= n
Consume(n) == buf' = SubSeq(buf, n + 1, Len(buf))

\* return 1: the same loop goes round again
Again == pc' = "process"

\* return 0: the rest of the data stays for the next pass
Return0 ==
    /\ pc' = "buttons"
    /\ UNCHANGED buf

\* Waiting for n bytes of which fewer are here
WaitForBytes(n) ==
    /\ Len(buf) < n
    /\ Return0
    /\ UNCHANGED <<connVars, rectVars, tileVars, lcdVars>>

\* A handshake message of n bytes, after which the next state is next
Handshake(n, next) ==
    \/ /\ Len(buf) >= n
       /\ VNCstate' = next
       /\ Consume(n)
       /\ Again
       /\ UNCHANGED <<VNCsendState, rectVars, tileVars, lcdVars>>
    \/ WaitForBytes(n)

NotConnected ==
    /\ Processing("NOTCONNECTED")
    /\ Handshake(12, "WAITFORAUTHTYPE")

WaitForAuthType ==
    /\ Processing("WAITFORAUTHTYPE")
    /\ \/ WaitForBytes(4)
       \/ /\ Len(buf) >= 4
          /\ \/ /\ buf[4] = 2
                /\ VNCstate' = "WAITFORVNCAUTHWORD"
                /\ UNCHANGED VNCsendState
             \/ /\ buf[4] = 1
                /\ VNCstate' = "SENTCLIENTINITMESSAGE"
                /\ VNCsendState' = "AUTHWORDSENT"
             \/ /\ buf[4] \notin {1, 2}
                /\ VNCstate' = "AUTHFAILED"
                /\ UNCHANGED VNCsendState
          /\ Consume(4)
          /\ Again
          /\ UNCHANGED <<rectVars, tileVars, lcdVars>>

WaitForVncAuthWord ==
    /\ Processing("WAITFORVNCAUTHWORD")
    /\ Handshake(16, "WAITFORVNCAUTHRESPONSE")

\* Mutant: the server's verdict is not looked at
WaitForVncAuthResponseUnchecked ==
    /\ Processing("WAITFORVNCAUTHRESPONSE")
    /\ Handshake(4, "SENTCLIENTINITMESSAGE")

WaitForVncAuthResponse ==
    /\ Processing("WAITFORVNCAUTHRESPONSE")
    /\ Handshake(4, IF buf[4] = 0 THEN "SENTCLIENTINITMESSAGE" ELSE "AUTHFAILED")

SentClientInitMessage ==
    /\ Processing("SENTCLIENTINITMESSAGE")
    /\ \/ WaitForBytes(24)
       \/ /\ Len(buf) >= 24
          /\ interPixelCount' = Ulong(U16(buf[21], buf[22]) * 65536 + U16(buf[23], buf[24]))
          /\ VNCstate' = "WAITFORSERVERNAME"
          /\ Consume(24)
          /\ Again
          /\ UNCHANGED <<VNCsendState, VNCpixelProcessorState, rectangleCount,
                         updateWindow, tileVars, lcdVars>>

WaitForServerName ==
    /\ Processing("WAITFORSERVERNAME")
    /\ Handshake(interPixelCount, "CONNECTED")

Connected ==
    /\ Processing("CONNECTED")
    /\ Handshake(0, "WAITFORUPDATE")

\* VNCSTATE_CONNECTED_REFRESH and VNCSTATE_WAITFORUPDATE
WaitForUpdate ==
    /\ pc = "process" /\ VNCstate \in {"CONNECTED_REFRESH", "WAITFORUPDATE"}
    /\ \/ WaitForBytes(4)
       \/ /\ Len(buf) >= 4 /\ buf[1] # 0
          /\ VNCstate' = "DEAD"
          /\ Return0
          /\ UNCHANGED <<VNCsendState, rectVars, tileVars, lcdVars>>
       \/ /\ Len(buf) >= 4 /\ buf[1] = 0
          /\ rectangleCount' = U16(buf[3], buf[4])
          /\ VNCpixelProcessorState' = "IDLE"
          /\ VNCstate' = "PROCESSINGUPDATE"
          /\ Consume(4)
          /\ Again
          /\ UNCHANGED <<VNCsendState, interPixelCount, updateWindow, tileVars, lcdVars>>

\* default: return -1.  main compares the wrong, unsigned variable with 0, so
\* instead of resetting it copies (unsigned int)-1 bytes over the memory
\* behind vncBuffer: nothing is known of the program from here on.
ProcessError ==
    /\ pc = "process" /\ VNCstate \in {"DEAD", "AUTHFAILED"}
    /\ pc' = "wild"
    /\ UNCHANGED <<buf, connVars, rectVars, tileVars, lcdVars>>

-----------------------------------------------------------------------------
(* pixelProcessor, called in VNCSTATE_PROCESSINGUPDATE *)

PixelProcessing(state) ==
    Processing("PROCESSINGUPDATE") /\ VNCpixelProcessorState = state

\* VNCPPSTATE_IDLE, all rectangles done: the next request may go out
UpdateDone ==
    /\ PixelProcessing("IDLE") /\ rectangleCount = 0
    /\ VNCstate' = "CONNECTED_REFRESH"
    /\ Return0
    /\ UNCHANGED <<VNCsendState, rectVars, tileVars, lcdVars>>

WaitForRectangle ==
    /\ PixelProcessing("IDLE") /\ rectangleCount # 0
    /\ WaitForBytes(12)

\* The 12 bytes of a rectangle header are here: the rectangle is counted off
\* and its window set before the encoding is looked at
RectangleHeader ==
    /\ PixelProcessing("IDLE") /\ rectangleCount # 0 /\ Len(buf) >= 12
    /\ rectangleCount' = rectangleCount - 1
    /\ LET x == U16(buf[1], buf[2])  y == U16(buf[3], buf[4])
           w == U16(buf[5], buf[6])  h == U16(buf[7], buf[8])
       IN updateWindow' = [x0 |-> x, y0 |-> y,
                           x1 |-> Uint(x + w), y1 |-> Uint(y + h)]
    /\ UNCHANGED <<connVars, tile, hex, hextileBuffer, lcdVars>>

Encoding(e) == buf[9] = 0 /\ buf[10] = 0 /\ buf[11] = 0 /\ buf[12] = e

BadEncoding ==
    /\ RectangleHeader
    /\ ~ \E e \in {0, 1, 5} : Encoding(e)
    /\ Return0
    /\ UNCHANGED <<VNCpixelProcessorState, interPixelCount, hextileState>>

RawRectangle ==
    /\ RectangleHeader
    /\ Encoding(0)
    /\ interPixelCount' = Ulong(Extended(U16(buf[5], buf[6])) * Extended(U16(buf[7], buf[8])))
    /\ VNCpixelProcessorState' = "OUTBOUNDS"
    /\ Consume(12)
    /\ Again
    /\ UNCHANGED hextileState

CopyRectRectangle ==
    /\ RectangleHeader
    /\ Encoding(1)
    /\ VNCpixelProcessorState' = "COPYRECT"
    /\ Consume(12)
    /\ Again
    /\ UNCHANGED <<interPixelCount, hextileState>>

\* Mutant: a new rectangle goes on where an interrupted one stopped
HextileRectangleKeepsState ==
    /\ RectangleHeader
    /\ Encoding(5)
    /\ VNCpixelProcessorState' = "HEXTILE"
    /\ Consume(12)
    /\ Again
    /\ UNCHANGED <<interPixelCount, hextileState>>

HextileRectangle ==
    /\ RectangleHeader
    /\ Encoding(5)
    /\ VNCpixelProcessorState' = "HEXTILE"
    /\ hextileState' = "INIT"
    /\ Consume(12)
    /\ Again
    /\ UNCHANGED interPixelCount

\* The bytes of the pixels still expected, and whether all of them are here
PixelBytesLeft == Ulong(interPixelCount * BYTES_PER_PIXEL)
AllPixelsHere == Len(buf) >= PixelBytesLeft

\* How many pixels are taken from the buffer: all of them or the whole ones
\* that are there
PixelsTaken ==
    (IF AllPixelsHere THEN PixelBytesLeft ELSE Len(buf)) \div BYTES_PER_PIXEL

\* Mutant: a part of the pixels is taken and not counted off
TakePixelsUncounted(done) ==
    /\ interPixelCount' = IF AllPixelsHere THEN 0 ELSE interPixelCount
    /\ Consume(PixelsTaken * BYTES_PER_PIXEL)
    /\ \/ AllPixelsHere /\ done /\ Again
       \/ /\ ~AllPixelsHere
          /\ pc' = "buttons"
          /\ UNCHANGED <<VNCpixelProcessorState, hextileState>>
    /\ UNCHANGED <<connVars, rectangleCount, updateWindow, tile, hex,
                   hextileBuffer>>

\* Mutant: a pixel that is half here is taken with the others
TakePixelsHalf(done) ==
    /\ interPixelCount' = IF AllPixelsHere THEN 0 ELSE interPixelCount - PixelsTaken
    /\ Consume(IF AllPixelsHere THEN PixelBytesLeft ELSE Len(buf))
    /\ \/ AllPixelsHere /\ done /\ Again
       \/ /\ ~AllPixelsHere
          /\ pc' = "buttons"
          /\ UNCHANGED <<VNCpixelProcessorState, hextileState>>
    /\ UNCHANGED <<connVars, rectangleCount, updateWindow, tile, hex,
                   hextileBuffer>>

\* The pixels are counted off; done is what happens after the last one
TakePixels(done) ==
    /\ interPixelCount' = IF AllPixelsHere THEN 0 ELSE interPixelCount - PixelsTaken
    /\ Consume(PixelsTaken * BYTES_PER_PIXEL)
    /\ \/ AllPixelsHere /\ done /\ Again
       \/ /\ ~AllPixelsHere
          /\ pc' = "buttons"
          /\ UNCHANGED <<VNCpixelProcessorState, hextileState>>
    /\ UNCHANGED <<connVars, rectangleCount, updateWindow, tile, hex,
                   hextileBuffer>>

\* dropOutOfViewPixels
DropOutOfViewPixels(done) == TakePixels(done) /\ UNCHANGED lcdVars

\* VNCPPSTATE_OUTBOUNDS: raw rectangles are never drawn
DropRectangle ==
    /\ PixelProcessing("OUTBOUNDS")
    /\ DropOutOfViewPixels(VNCpixelProcessorState' = "IDLE" /\ UNCHANGED hextileState)

\* processCopyRect: the source position is read and nothing is drawn
ProcessCopyRect ==
    /\ PixelProcessing("COPYRECT")
    /\ \/ WaitForBytes(4)
       \/ /\ Len(buf) >= 4
          /\ VNCpixelProcessorState' = "IDLE"
          /\ Consume(4)
          /\ Again
          /\ UNCHANGED <<connVars, rectangleCount, interPixelCount,
                         updateWindow, tileVars, lcdVars>>

-----------------------------------------------------------------------------
(* processHextile.  A return of 0 here ends pixelProcessor and             *)
(* Vnc_StateMachine too, even when the rectangle is finished.              *)

HextileProcessing(state) == PixelProcessing("HEXTILE") /\ hextileState = state

\* The side of a tile that starts at from in a rectangle that ends before to
TileSide(from, to) == IF to < Uint(from + Tile) THEN Uint(to - from) % 256 ELSE Tile

HextileInit ==
    /\ HextileProcessing("INIT")
    /\ tile' = [x |-> updateWindow.x0, y |-> updateWindow.y0,
                w |-> TileSide(updateWindow.x0, updateWindow.x1),
                h |-> TileSide(updateWindow.y0, updateWindow.y1)]
    /\ hextileState' = "PARSEHEADER"
    /\ Again
    /\ UNCHANGED <<buf, connVars, rectVars, hex, hextileBuffer, lcdVars>>

\* The last tile of a row, the last row of tiles
LastColumn == Uint(tile.x + tile.w) = updateWindow.x1
LastRow == Uint(tile.y + tile.h) = updateWindow.y1

\* HEXTILESTATE_DONE after the last tile of the rectangle
HextileLastTile ==
    /\ HextileProcessing("DONE") /\ LastColumn /\ LastRow
    /\ tile' = [tile EXCEPT !.x = updateWindow.x1]
    /\ VNCpixelProcessorState' = "IDLE"
    /\ hextileState' = "INIT"
    /\ Return0
    /\ UNCHANGED <<connVars, rectangleCount, interPixelCount, updateWindow,
                   hex, hextileBuffer, lcdVars>>

\* HEXTILESTATE_DONE otherwise: right, or down to the start of the next row
HextileNextTile ==
    /\ HextileProcessing("DONE") /\ ~ (LastColumn /\ LastRow)
    /\ LET x == IF LastColumn THEN updateWindow.x0 ELSE Uint(tile.x + tile.w)
           y == IF LastColumn THEN Uint(tile.y + tile.h) ELSE tile.y
       IN tile' = [x |-> x, y |-> y, w |-> TileSide(x, updateWindow.x1),
                   h |-> IF LastColumn THEN TileSide(y, updateWindow.y1) ELSE tile.h]
    /\ hextileState' = "PARSEHEADER"
    /\ Again
    /\ UNCHANGED <<buf, connVars, rectVars, hex, hextileBuffer, lcdVars>>

\* Bits of the subencoding byte
Raw(b) == Bit(b, 1)
BackgroundSpecified(b) == Bit(b, 2)
ForegroundSpecified(b) == Bit(b, 4)
AnySubrects(b) == Bit(b, 8)
SubrectsColoured(b) == Bit(b, 16)

\* The bytes that have to be in the buffer before the header is parsed.  The
\* count of subrectangles takes one byte but is waited for as a pixel.
TileHeaderWait(b) ==
    1 + (IF BackgroundSpecified(b) THEN BYTES_PER_PIXEL ELSE 0)
      + (IF ForegroundSpecified(b) THEN BYTES_PER_PIXEL ELSE 0)
      + (IF AnySubrects(b) THEN BYTES_PER_PIXEL ELSE 0)

\* Mutant: a tile at the edge of the window is taken to be outside
TileInWindowStrict ==
    Uint(tile.x + tile.w) < SCREEN_WIDTH /\ Uint(tile.y + tile.h) < SCREEN_HEIGHT

\* Only tiles that lie completely in the local window are drawn
TileInWindow ==
    Uint(tile.x + tile.w) <= SCREEN_WIDTH /\ Uint(tile.y + tile.h) <= SCREEN_HEIGHT

HeaderComplete == IF buf = <<>> THEN FALSE ELSE Len(buf) >= TileHeaderWait(buf[1])

HextileWaitHeader ==
    /\ HextileProcessing("PARSEHEADER")
    /\ ~HeaderComplete
    /\ hex' = IF buf = <<>> THEN hex ELSE [hex EXCEPT !.sub = buf[1]]
    /\ Return0
    /\ UNCHANGED <<connVars, rectVars, hextileState, tile, hextileBuffer, lcdVars>>

\* SetupTile
SetupTile == lcd' = [x |-> tile.x, y |-> tile.y, w |-> tile.w, h |-> tile.h, pos |-> 0]

HeaderHere ==
    /\ HextileProcessing("PARSEHEADER") /\ HeaderComplete
    /\ Again
    /\ UNCHANGED <<connVars, VNCpixelProcessorState, rectangleCount,
                   updateWindow, tile, screen>>

HextileRawHeader ==
    /\ HeaderHere /\ Raw(buf[1])
    /\ hex' = [hex EXCEPT !.sub = buf[1]]
    /\ interPixelCount' \in IntProduct(tile.w, tile.h)
    /\ \/ TileInWindow /\ SetupTile /\ hextileState' = "DRAWRAW"
       \/ ~TileInWindow /\ UNCHANGED lcd /\ hextileState' = "DROPRAW"
    /\ Consume(1)
    /\ UNCHANGED hextileBuffer

\* Background, foreground and number of subrectangles follow where the byte
\* says so; the tile buffer is filled with the background
HextileHeader ==
    /\ HeaderHere /\ ~Raw(buf[1])
    /\ LET b == buf[1]
           f == IF BackgroundSpecified(b) THEN 4 ELSE 2
           s == IF ForegroundSpecified(b) THEN f + 2 ELSE f
           bg == IF BackgroundSpecified(b) THEN LittlePixel(buf[2], buf[3]) ELSE hex.bg
       IN /\ hex' = [bg |-> bg,
                     fg |-> IF ForegroundSpecified(b)
                              THEN LittlePixel(buf[f], buf[f+1]) ELSE hex.fg,
                     sub |-> b,
                     n |-> IF AnySubrects(b) THEN buf[s] ELSE 0]
          /\ hextileBuffer' = [c \in Cells |-> bg]
          /\ Consume(IF AnySubrects(b) THEN s ELSE s - 1)
    /\ hextileState' = "FILLBUFFER"
    /\ UNCHANGED <<interPixelCount, lcd>>

HextileDropRaw ==
    /\ HextileProcessing("DROPRAW")
    /\ DropOutOfViewPixels(hextileState' = "DONE" /\ UNCHANGED VNCpixelProcessorState)

\* The LCD takes pixels from its write position on, row by row
LcdWrite(pixels) ==
    /\ screen' = [p \in Pixels |->
                    LET k == (p[2] - lcd.y) * lcd.w + (p[1] - lcd.x)
                    IN IF /\ p[1] \in lcd.x .. lcd.x + lcd.w - 1
                          /\ p[2] \in lcd.y .. lcd.y + lcd.h - 1
                          /\ k + 1 - lcd.pos \in DOMAIN pixels
                       THEN pixels[k + 1 - lcd.pos] ELSE screen[p]]
    /\ lcd' = [lcd EXCEPT !.pos = lcd.pos + Len(pixels)]

\* DrawRawTile with the whole pixels at the front of the buffer
DrawRawTile(n) ==
    LcdWrite([i \in 1..n |-> LittlePixel(buf[2*i - 1], buf[2*i])])

\* HEXTILESTATE_DRAWRAW: the pixels that are here go straight to the LCD
HextileDrawRaw ==
    /\ HextileProcessing("DRAWRAW")
    /\ DrawRawTile(PixelsTaken)
    /\ TakePixels(hextileState' = "DONE" /\ UNCHANGED VNCpixelProcessorState)

SubrectBytes == IF SubrectsColoured(hex.sub) THEN 2 + BYTES_PER_PIXEL ELSE 2

\* Mutant: the one that is missing from the height as it is sent is added, and
\* the last row is drawn too
SubrectRowsLong ==
    LET y0 == buf[SubrectBytes - 1] % 16
    IN y0 .. y0 + (buf[SubrectBytes] % 16) + 1

\* The columns and rows of the subrectangle at the front of the buffer
SubrectColumns ==
    LET x0 == buf[SubrectBytes - 1] \div 16
    IN x0 .. x0 + (buf[SubrectBytes] \div 16)
SubrectRows ==
    LET y0 == buf[SubrectBytes - 1] % 16
    IN y0 .. y0 + (buf[SubrectBytes] % 16)

SubrectInBuffer == SubrectColumns \X SubrectRows \subseteq Cells

\* HEXTILESTATE_FILLBUFFER: one round of its loop for each subrectangle
HextileSubrect ==
    /\ HextileProcessing("FILLBUFFER") /\ hex.n # 0 /\ Len(buf) >= SubrectBytes
    /\ SubrectInBuffer
    /\ LET colour == IF SubrectsColoured(hex.sub)
                       THEN LittlePixel(buf[1], buf[2]) ELSE hex.fg
       IN hextileBuffer' = [c \in Cells |->
                              IF c[1] \in SubrectColumns /\ c[2] \in SubrectRows
                                THEN colour ELSE hextileBuffer[c]]
    /\ hex' = [hex EXCEPT !.n = hex.n - 1]
    /\ Consume(SubrectBytes)
    /\ Again
    /\ UNCHANGED <<connVars, rectVars, hextileState, tile, lcdVars>>

\* A subrectangle that leaves the tile is written over what lies behind
\* hextileBuffer
HextileSubrectOverrun ==
    /\ HextileProcessing("FILLBUFFER") /\ hex.n # 0 /\ Len(buf) >= SubrectBytes
    /\ ~SubrectInBuffer
    /\ pc' = "wild"
    /\ UNCHANGED <<buf, connVars, rectVars, tileVars, lcdVars>>

HextileWaitSubrect ==
    /\ HextileProcessing("FILLBUFFER") /\ hex.n # 0
    /\ WaitForBytes(SubrectBytes)

HextileBufferFilled ==
    /\ HextileProcessing("FILLBUFFER") /\ hex.n = 0
    /\ hextileState' = "DRAWTILE"
    /\ Again
    /\ UNCHANGED <<buf, connVars, rectVars, tile, hex, hextileBuffer, lcdVars>>

\* What DrawHextile finds outside hextileBuffer, for a tile that is larger
\* than it
BehindBuffer ==
    IF tile.w <= Tile /\ tile.h <= Tile THEN {[p \in Pixels |-> 0]} ELSE [Pixels -> Colour]

\* DrawHextile after SetupTile, for a tile that fits
HextileDrawTile ==
    /\ HextileProcessing("DRAWTILE") /\ TileInWindow
    /\ \E behind \in BehindBuffer :
         screen' = [p \in Pixels |->
                      LET c == <<p[1] - tile.x, p[2] - tile.y>>
                      IN IF c \in (0 .. tile.w - 1) \X (0 .. tile.h - 1)
                           THEN IF c \in Cells THEN hextileBuffer[c] ELSE behind[p]
                           ELSE screen[p]]
    /\ lcd' = [x |-> tile.x, y |-> tile.y, w |-> tile.w, h |-> tile.h,
               pos |-> tile.w * tile.h]
    /\ hextileState' = "DONE"
    /\ Again
    /\ UNCHANGED <<buf, connVars, rectVars, tile, hex, hextileBuffer>>

HextileSkipTile ==
    /\ HextileProcessing("DRAWTILE") /\ ~TileInWindow
    /\ hextileState' = "DONE"
    /\ Again
    /\ UNCHANGED <<buf, connVars, rectVars, tile, hex, hextileBuffer, lcdVars>>

ProcessHextile ==
    \/ HextileInit \/ HextileLastTile \/ HextileNextTile
    \/ HextileWaitHeader \/ HextileRawHeader \/ HextileHeader
    \/ HextileDropRaw \/ HextileDrawRaw
    \/ HextileSubrect \/ HextileSubrectOverrun \/ HextileWaitSubrect \/ HextileBufferFilled
    \/ HextileDrawTile \/ HextileSkipTile

PixelProcessor ==
    \/ UpdateDone \/ WaitForRectangle \/ BadEncoding
    \/ RawRectangle \/ CopyRectRectangle \/ HextileRectangle
    \/ DropRectangle \/ ProcessCopyRect \/ ProcessHextile

Vnc_StateMachine ==
    /\ \/ NotConnected \/ WaitForAuthType \/ WaitForVncAuthWord
       \/ WaitForVncAuthResponse \/ SentClientInitMessage
       \/ WaitForServerName \/ Connected \/ WaitForUpdate
       \/ PixelProcessor \/ ProcessError
    /\ UNCHANGED <<envVars, lastControlState, keyVars>>

-----------------------------------------------------------------------------
(* Buttons_Handler *)

\* Mutant: no one-shot, a held button is a press on every pass
ButtonsHandlerRepeating ==
    /\ pc = "buttons"
    /\ UNCHANGED oneshot
    /\ keypress' = CASE "c" \in pins -> "c" [] "b" \in pins -> "b"
                     [] "a" \in pins -> "a" [] OTHER -> keypress
    /\ pc' = "respond"
    /\ UNCHANGED <<envVars, lastControlState, buf, connVars, rectVars,
                   tileVars, lcdVars>>

\* After a press everything is ignored until all buttons are up.  The three
\* buttons are sampled together; of several the last one tested wins.
Buttons_Handler ==
    /\ pc = "buttons"
    /\ IF oneshot /\ pins # {}
         THEN UNCHANGED keyVars
         ELSE /\ oneshot' = (pins # {})
              /\ keypress' = CASE "c" \in pins -> "c" [] "b" \in pins -> "b"
                               [] "a" \in pins -> "a" [] OTHER -> keypress
    /\ pc' = "respond"
    /\ UNCHANGED <<envVars, lastControlState, buf, connVars, rectVars,
                   tileVars, lcdVars>>

-----------------------------------------------------------------------------
(* Vnc_LoadResponseBuffer and VncServerSendResponse: at most one message   *)
(* a pass, written whole                                                   *)

\* The key each button stands for at the server
KeyOf == [a |-> "r", b |-> "a", c |-> "b"]

\* The lengths of the messages; "byte" is a byte of one that was cut short
MessageSize ==
    [version |-> 12, authWord |-> 16, clientInit |-> 1, pixelFormat |-> 20,
     encodings |-> 12, fullRefresh |-> 10, refresh |-> 10, r |-> 8, a |-> 8,
     b |-> 8, byte |-> 1]
Messages == DOMAIN MessageSize
MAXIMUM_VNCMESSAGE_SIZE == 20

\* What is in the endpoint: byte j of message i
QueuedBytes ==
    {q \in (1..Len(toServer)) \X (1..MAXIMUM_VNCMESSAGE_SIZE) :
       q[2] <= MessageSize[toServer[q[1]]]}
Room == TxBytes - Cardinality(QueuedBytes)

\* The encodings that encodingTypeMessage asks for: CopyRect and hextile
encodingTypeMessage == {1, 5}

\* VNCstate has passed the given state
Past(state) == Rank[VNCstate] > Rank[state]

\* The state a send state waits to be passed
Gate == [INIT |-> "NOTCONNECTED", VERSIONSENT |-> "WAITFORVNCAUTHWORD",
         AUTHWORDSENT |-> "WAITFORVNCAUTHRESPONSE",
         CLIENTINITMESSAGESENT |-> "WAITFORSERVERNAME",
         PIXELFORMATSENT |-> "WAITFORSERVERNAME",
         ENCODINGTYPESENT |-> "WAITFORSERVERNAME"]

\* usb_serial_putchar gives up after a while when the host does not read, and
\* VncServerSendResponse does not look at its result: of a message for which
\* the endpoint has no room only the front goes out, or nothing
VncServerSendResponse(message) ==
    toServer' = IF MessageSize[message] <= Room THEN Append(toServer, message)
                ELSE toServer \o [i \in 1..Room |-> "byte"]

\* Mutant: messages do not wait for the server's
RespondUngated(from, message, to) ==
    /\ pc = "respond" /\ VNCsendState = from
    /\ VncServerSendResponse(message)
    /\ VNCsendState' = to
    /\ pc' = "control"
    /\ UNCHANGED <<rx, control, pins, lastControlState, buf, VNCstate,
                   rectVars, tileVars, lcdVars, keyVars>>

\* Vnc_LoadResponseBuffer in send state from: message goes out once VNCstate
\* is past the gate
Respond(from, message, to) ==
    /\ pc = "respond" /\ VNCsendState = from /\ Past(Gate[from])
    /\ VncServerSendResponse(message)
    /\ VNCsendState' = to
    /\ pc' = "control"
    /\ UNCHANGED <<rx, control, pins, lastControlState, buf, VNCstate,
                   rectVars, tileVars, lcdVars, keyVars>>

SendVersion == Respond("INIT", "version", "VERSIONSENT")
SendAuthWord == Respond("VERSIONSENT", "authWord", "AUTHWORDSENT")
SendClientInit == Respond("AUTHWORDSENT", "clientInit", "CLIENTINITMESSAGESENT")
SendPixelFormat ==
    Respond("CLIENTINITMESSAGESENT", "pixelFormat", "PIXELFORMATSENT")
SendEncodings == Respond("PIXELFORMATSENT", "encodings", "ENCODINGTYPESENT")
SendFullRefresh == Respond("ENCODINGTYPESENT", "fullRefresh", "PARTIALREFRESHSENT")

\* Mutant: a key press is forgotten to be cleared
SendRequestKeepsKey ==
    /\ pc = "respond" /\ VNCsendState = "PARTIALREFRESHSENT"
    /\ VNCstate = "CONNECTED_REFRESH"
    /\ VncServerSendResponse(IF keypress # "none" THEN KeyOf[keypress] ELSE "refresh")
    /\ pc' = "control"
    /\ UNCHANGED <<rx, control, pins, lastControlState, buf, connVars,
                   rectVars, tileVars, lcdVars, keyVars>>

\* VNCSENDSTATE_PARTIALREFRESHSENT: on every pass between two updates, a key
\* press if there is one and else a request for the next update
SendRequest ==
    /\ pc = "respond" /\ VNCsendState = "PARTIALREFRESHSENT"
    /\ VNCstate = "CONNECTED_REFRESH"
    /\ VncServerSendResponse(IF keypress # "none" THEN KeyOf[keypress] ELSE "refresh")
    /\ keypress' = "none"
    /\ pc' = "control"
    /\ UNCHANGED <<rx, control, pins, lastControlState, buf, connVars,
                   rectVars, tileVars, lcdVars, oneshot>>

NothingToSend ==
    /\ pc = "respond"
    /\ IF VNCsendState = "PARTIALREFRESHSENT"
         THEN VNCstate # "CONNECTED_REFRESH" ELSE ~Past(Gate[VNCsendState])
    /\ pc' = "control"
    /\ UNCHANGED <<envVars, lastControlState, buf, connVars, rectVars,
                   tileVars, lcdVars, keyVars>>

VncServerGetData ==
    \/ GetControlSame \/ GetControlChanged \/ LatchControl
    \/ GetDataDisconnected \/ GetDataConnected \/ ReadBytes

SendResponse ==
    \/ SendVersion \/ SendAuthWord \/ SendClientInit \/ SendPixelFormat
    \/ SendEncodings \/ SendFullRefresh \/ SendRequest \/ NothingToSend

\* The main loop
MainLoop == VncServerGetData \/ Vnc_StateMachine \/ Buttons_Handler \/ SendResponse

\* What the rest of the world may do to the program: nothing is assumed of
\* the bytes, the control lines or the buttons
Environment ==
    /\ rx' \in Seq(Byte)
    /\ toServer' \in Seq(Messages)
    /\ control' \in 0..3
    /\ pins' \in SUBSET Keys
    /\ UNCHANGED <<pc, lastControlState, buf, connVars, rectVars, tileVars,
                   lcdVars, keyVars>>

EnvironmentInit == rx = <<>> /\ toServer = <<>> /\ control = 0 /\ pins = {}

Init == ClientInit /\ EnvironmentInit

\* The client against any server whatever
Spec == Init /\ [][MainLoop \/ Environment]_vars

-----------------------------------------------------------------------------
(* Properties that hold whatever the server sends *)

\* The unparsed bytes always fit in vncBuffer, registers hold their widths.
TypeOK ==
    /\ pc \in Locations
    /\ rx \in Seq(Byte) /\ toServer \in Seq(Messages)
    /\ control \in 0..3 /\ lastControlState \in 0..3
    /\ pins \in SUBSET Keys
    /\ buf \in Seq(Byte) /\ Len(buf) <= VNC_BUFFER_MAX
    /\ VNCstate \in VNCSTATE /\ VNCsendState \in VNCSENDSTATE
    /\ VNCpixelProcessorState \in VNCPPSTATE /\ hextileState \in HEXTILESTATE
    /\ rectangleCount \in Uints
    /\ interPixelCount \in Ulongs
    /\ updateWindow \in [x0 : Uints, y0 : Uints, x1 : Uints, y1 : Uints]
    /\ tile \in [x : Uints, y : Uints, w : Byte, h : Byte]
    /\ hex \in [bg : Colour, fg : Colour, sub : Byte, n : Byte]
    /\ hextileBuffer \in [Cells -> Colour]
    /\ lcd \in [x : Nat, y : Nat, w : Nat, h : Nat, pos : Nat]
    /\ screen \in [Pixels -> Colour]
    /\ keypress \in Keys \union {"none"} /\ oneshot \in BOOLEAN

\* However the stream is cut, the client never answers a server message it
\* has not parsed: in every live state each message sent so far was due.
SendOrder ==
    VNCstate \notin {"DEAD", "AUTHFAILED"} =>
      /\ VNCsendState # "INIT" => Past("NOTCONNECTED")
      /\ VNCsendState \notin {"INIT", "VERSIONSENT"} => Past("WAITFORVNCAUTHWORD")
      /\ VNCsendState \notin {"INIT", "VERSIONSENT", "AUTHWORDSENT"}
            => Past("WAITFORVNCAUTHRESPONSE")
      /\ VNCsendState \in {"PIXELFORMATSENT", "ENCODINGTYPESENT", "PARTIALREFRESHSENT"}
            => Past("WAITFORSERVERNAME")

\* While a raw tile comes in, in however many pieces, the pixels already
\* written plus the pixels to come are exactly the LCD window that SetupTile
\* opened, so that a tile neither spills over nor stops short.  (Tiles larger
\* than 16 by 16 only come from rectangles that wrap round 65536.)
RawTileExact ==
    /\ VNCstate = "PROCESSINGUPDATE"
    /\ VNCpixelProcessorState = "HEXTILE" /\ hextileState = "DRAWRAW"
    /\ tile.w <= Tile /\ tile.h <= Tile
    => lcd.pos + interPixelCount = lcd.w * lcd.h
=============================================================================
