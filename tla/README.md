# Networked-Display: specification, model checks and proofs

The repository holds a small networked display: an AVR board with an LCD that
is a VNC client over a USB serial port (`LCD Test/`), a VNC server on a PC that
serves the pictures of a drawing program (`FrameServer/`, `Processing
Sketches/`), and several experiments around them, one of which transfers blocks
over USB control requests (`libusbtest/`). This directory models the
parts that carry the program's logic in TLA+, checks them with TLC on small
instances and proves the main results for every size with TLAPS.

    tlc -config VncDecode.cfg MCVncSystem      # a run: see the table below
    tlapm VncClientProofs.tla                  # a proof

## Inventory

| part | state | operations | interacts with |
|---|---|---|---|
| buffered UART (`buffuart.c`) | two rings with head and tail indices, UCSR1B | `BuffUart_Transmit`, `BuffUart_Receive`, `BuffUart_DataInReceiveBuffer`, the UDRE and RX interrupt handlers | main program and two interrupts share the rings; debug output goes through it |
| microVNC (`vnc.c`) | four state machines (`VNCstate`, `VNCsendState`, `VNCpixelProcessorState`, `hextileState`), counters, the update window, the current tile, colours, the tile buffer | `Vnc_ProcessVncBuffer`, `Vnc_LoadResponseBuffer`, `Vnc_ResetSystem` | called by the main loop; draws on the LCD, takes `keypress` |
| main loop (`main.c`) | `vncBuffer` and its size | read, process, keep the remainder, buttons, send | drives everything on the board |
| server connection (`VncServerComms.c`) | `lastControlState` | `VncServerGetData`, `VncServerSendResponse` | USB driver; the host's DTR and RTS |
| buttons (`Buttons.c`) | `keypress`, `oneshot` | `Buttons_Handler` | `vnc.c` reads and clears `keypress` |
| LCD (`SpiLcd.c`) | address window and write position in the controller | `SetupTile`, `DrawRawTile`, `DrawHextile` | called by `vnc.c` |
| frame server (`frameserver.c`) | `frameBuffer`, `savedkeypress`, `runonce` | main loop, `dokey`, client hooks | libvncserver's event thread; two files shared with the sketch |
| sketch (`MovingOnCurves.pde`) | its picture | `draw`, `saveFrameBuffer`, `checkKeypressFile` | the same two files |
| USB driver (`usb_serial.c`) | `usb_configuration`, `transmit_flush_timer`, `transmit_previous_timeout`; the controller's selected endpoint, banks and flags | `usb_serial_getchar`, `_available`, `_flush_input`, `_putchar`, `_putchar_nowait`, `_write`, `_flush_output`, `_set_control`; the handlers USB_GEN and USB_COM | called by the connection; shares the controller's registers with its own interrupts and with the host |
| libusb test (`libusbtest/`) | firmware: block buffer, position, remaining count; V-USB driver: received packet, `usbTxBuf`/`usbTxLen`, `usbMsgLen`/`usbMsgPtr`, two addresses | `usbFunctionSetup`, `usbFunctionWrite`, `usbPoll`; the interrupt that answers every packet | polled main loop, interrupt and host; the host gives a transfer up after a timeout |
| others | | | `RFBFileTest`, `ImageTool`, `SeeedEink`, `ParallelLcd.c`, LUFA: see "Not modelled" |

What is hard here:

* **Interrupts against the main program** (UART): a read-modify-write of
  UCSR1B inside which the handler changes the same bit; full and empty rings.
* **A stream cut anywhere** (client): every parser state has its own test for
  a complete message, and state survives returns to the main loop.
* **Sessions that end anywhere** (client): what is reset, what is left over,
  and when a disconnect is noticed at all.
* **Two state machines in step** (client): sending is gated by comparisons of
  the receiving machine's state.
* **Registers with a hidden index** (USB driver): UEDATX and UEINTX mean the
  endpoint that UENUM selects, which every handler changes; and a timer and a
  configuration that interrupts change between a test and its use.
* **Replies that nobody waits for any more** (libusb test): the host gives a
  transfer up or resets the bus at any packet, while the answer is already in
  the transmit buffer and the address half changed.
* **Threads and processes that share files and a buffer without locks**
  (frame server and sketch).
* **Arithmetic at the edges**: 16-bit sums that decide which tile is the last,
  products of chars, exclusive rectangle sides.

`PROJECT.json` lists these as hazards, each at its line with the properties
that watch it.

## Modules

| module | models |
|---|---|
| `BuffUart` | `buffuart.c`, one action per step that an interrupt can separate; the UART's data register and shift register |
| `ByteFifo` | abstract: a bounded FIFO of bytes. `BuffUart` implements it |
| `VncClient` | the program of the display: one action per case of each state machine, `pc` is the place in the main loop. `Spec` puts it against an environment of which nothing is assumed |
| `Rfb` | external: raw, CopyRect and hextile rectangles of the RFB protocol on the wire, and what the protocol makes of them on a picture, whether the client draws them or not |
| `VncSystem` | `VncClient` composed with a VNC server, the host's serial port and a user |
| `MCVncSystem` | the scripts of updates of the runs |
| `FrameDiff` | the search for the modified rectangle in `frameserver.c`, one step per round of its loops |
| `FrameServer` | `frameserver.c` with `FrameDiff` as part of its main loop, libvncserver's event thread (external) and the sketch |
| `UsbSerial` | `usb_serial.c`: each API function in the steps that an interrupt or the host can separate, both interrupt handlers; the controller's banks, the bus and the host (external) |
| `ControlTransfer` | `libusbtest`: the firmware's requests, V-USB's `usbPoll` and its interrupt; the host's control transfers, timeouts and bus resets |
| `BuffUartProofs`, `VncClientProofs`, `VncSystemProofs`, `VncTileProofs`, `VncFramingProofs`, `FrameServerProofs`, `UsbSerialProofs`, `ControlTransferProofs` | theorems |

### Correspondence with the code

*BuffUart.* `TransmitCall`, `TransmitWait`, `TransmitStoreData`,
`TransmitStoreHead`, `TransmitLoadCtrl`, `TransmitStoreCtrl` are the
statements of `BuffUart_Transmit`; the last two are the load and the store of
`UCSR1B |= _BV(UDRIE1)`. The handlers are atomic, as interrupts are on the AVR.
Bytes are numbered in the order they are given to the driver or arrive; `wire`
and `received` record what came out. `TxNext` is a remainder, which is the
mask of the code for its size of 32. `MaxTx` and `MaxRx` bound the bytes;
the reader may be as late as it likes.

*VncClient.* `buf` is `vncBuffer[0..vncBufferSize-1]`; the `memcpy` of the
remainder to the front is `Consume`. A return of 1 goes on processing
(`Again`), a return of 0 leaves to the buttons (`Return0`), and -1 leads to
`pc = "wild"`: `main` compares the wrong variable and copies with the error
code as a length, after which nothing is known. The model stops there: what is
said of a server that misbehaves holds up to that step, and nothing is claimed
of the program afterwards. Registers keep their widths:
16-bit `unsigned int` (`Uint`), `unsigned long` (`Ulong`, whose range is a
constant because TLC's integers have 32 bits), sign extension of an int product
(`Extended`), and any value where an int product overflows (`IntProduct`).
`lcd` is the controller's address window with its write position: the pixels
of a raw tile go straight there, across as many passes as it takes. Hextile
subrectangles that leave the 16 by 16 buffer also lead to `wild`, which
`TileBufferSafe` excludes as long as the server keeps to RFB. Colours are
not reset between tiles, rectangles or sessions, as in the code. A tile header
is parsed when one byte more than it has is in the buffer if it announces
subrectangles, because `processHextile` counts two bytes for their one-byte
number (`TileHeaderWait`, vnc.c:302, against the comment at vnc.c:305). An update that
ends in a tile with one subrectangle, as in `reconnect`, is still parsed to its
end (`AllShownEventually`); one that announces none there would be waited on.
`toServer` is what the host has not read yet, bounded in bytes: `MessageSize`
has the lengths of the messages and `TxBytes` what the endpoint holds, two banks
of 64 bytes on the board. `usb_serial_putchar` gives up when the host does not
read, and nobody looks at its result: of a message for which there is no room
only the front goes out (as single `"byte"`s), or nothing, while the send state
moves on. The buttons are sampled together, at one instant of the pass.

*VncSystem.* The server reads one message at a time and answers as RFB says;
the client's bytes are parsed against `ends`, the positions where the server's
messages end. `PatientHost`: the host keeps the port closed, or open, until
the program has polled it. `FifoSurvives`: bytes in the endpoint survive a
close of the port. `PromptHost`: the host reads before the driver's timeout,
so that there is room for the longest message whenever the program sends one.
They are assumptions of the passing runs and of the theorems
`ServerUnderstands`, `StreamAligned`, `PictureDrawn` and `TileBufferKept`, and
each is needed: without any one of them the server finds a message out of place
(without `PromptHost`: run `slow_host`; the other two: `NoProtocolError` with
the bounds of `reconnect` and the constant changed). With `FifoSurvives` the
`reconnect` run violates `Aligned`, because the reset in `main.c` does not flush
the endpoint; without `PatientHost` it does too, because `VncServerGetData` only
compares the lines at its polls. The last two depend on the host and contradict nothing the repository
says, so they are hazards here and not findings.

`Expected` is the picture that RFB makes of the updates (`Rfb!Painted`),
together with the pixels that are *stale*: those last sent in a form that the
client does not draw. There are three: it drops raw rectangles (which a server
may always send), it takes the four bytes of a CopyRect from the stream and
copies nothing (although it asks for that encoding), and it drops tiles that are
only partly on the display. `PictureExact` says that every other pixel is right,
also where a tile covers one that was stale; what it leaves out is not right,
and for CopyRect that is the finding of `copy_rect` (`RequestedShown`).

*FrameServer.* Copies between buffers and reads of the shared file take two
steps with any split of the pixels between them, so that the other threads may
look into the middle. `missed` is a history variable: pixels that changed
without being marked. Keys are numbered; 0 is the empty byte of the file.
`Locked` says that `fopen` fails while the sketch has the file mapped.
`InBudget` bounds pictures and keys together: a behaviour has `MaxFrames`
pictures or `MaxTyped` keys, or a mixture in proportion.

*UsbSerial.* `pc` is the caller's place in an API function, `I` the global
interrupt flag, `UENUM` the selected endpoint. `usb_serial_putchar` and
`usb_serial_write` have the same prologue and the same wait loop in the code
and are one set of actions here, told apart by `op`; `size` and `left` are the
bytes still to be written in all and in this packet. An action that uses
UEDATX, UEINTX or UEBCLX uses the endpoint that is selected, whichever that is:
if it is another than the code means, its flags may have any value and the byte
is gone. A packet is its number of bytes; `owed` and `due` count what was
promised to callers, so that a lost or an invented byte shows. `framesLeft` is
`timeout - UDFNUML` modulo `FrameRange`. USB_GEN has two steps, because it
reads UDINT and clears it in two instructions and the controller may set a flag
in between; a control request is one step of USB_COM.

*ControlTransfer.* `pc` is the place in `usbPoll`. While a received packet
waits, the interrupt answers NAK to everything, so `usbProcessRx` is one step
with what it calls; the packets that the interrupt does answer are the
host's actions, each with the handler (`HandleData`, `HandleEmpty`,
`HandleIn`) as a part; the new address takes effect in the assembler with the
data packet that answers an IN packet (`AssignAddress`). NAK leads to a repetition by the host and is no step.
A byte is the transfer and the position it was written with, `ByteRange` the
range of `uchar`. The host drops a packet with the wrong toggle. As for every
USB host, a transfer that sets an address is not just given up but followed by
a bus reset, and a reset is longer than a round of the main loop.

## Runs

| run | bounds | shows |
|---|---|---|
| `uart` | rings of 4 and 3, 9 bytes out, 8 in | every byte sent in order and once, ring contents exact, transmit interrupt never left off, FIFO refinement, everything drains; receive lossless until the ring is overrun, and in order and without repeats even then |
| `decode` | display 3x4, tiles 2x2, buffer 30 bytes; a script of four updates, and one with an unasked encoding and an oversized subrectangle; refusal, bell, two buttons | whatever the cuts of the stream: framing (`Aligned`) over raw, CopyRect and hextile rectangles; every pixel last sent in a tile that fits is what RFB makes of it (`PictureExact`), raw tiles come in whole (`RawTileExact`), no tile leaves its buffer (`TileBufferSafe`), messages are in order; the client sends only what the server's state allows (`NoProtocolError`) and no more key events than presses, also against a server that misbehaves, up to the step at which the program overwrites its memory |
| `reconnect` | two sessions, close at any byte, one press at any time | clean restart in spite of leftover state (`Aligned`, `PictureExact`), every update of the last session parsed, the key leaves and does not stop the updates |
| `frame_server` | 3x1 frame, one new picture or two keys, any start contents | upper left corner exact, lower right within its margin; what a client lacks is marked (or was left out by the search), torn pictures are repaired, no key is interpreted twice |
| `usb` | packets of 2 bytes, two banks, timers of 2 frames, three requests, resets or packets of the host | no byte lost or made up in either direction, registers used under guard, partial packets armed and sent, transfers ended by a short packet, resets seen, every call returns, empty packets do not block |
| `vusb` | packets of 2, buffer of 5, `uchar` of 8 values, three transfers, one bus reset, blocks shorter than, as long as and longer than the buffer | replies belong to the current request, reads and writes exact, addresses agree, every transfer ends |

Runs that are expected to violate their property; each is a finding:

| run | what the repository says | what the code does |
|---|---|---|
| `error_reset` | `main.c` "reset system" | the error test looks at an unsigned variable, no reset |
| `slow_host` | `main.c` "collect any data to send to the Vnc server and send it" | what does not fit in the endpoint is dropped: while the host does not read, requests pile up, twelve fill 120 of the 128 bytes, the next one goes out as its first 8 bytes, and the server finds a message cut short. The branch that would keep the rest ("TXfull") cannot run |
| `copy_rect` | `vnc.c` "requests hextile encoding only" | requests CopyRect too, and does not draw it: after a dot and a copy of it the display has only the dot |
| `scan_cover` | `frameserver.c` "covers all the modified pixels" | a pixel two columns or rows further is left out |
| `saved_key` | `frameserver.c` "record the press and write it to the file later" | a press recorded during the write is forgotten |
| `usb_write` | `usb_serial.c` "interrupts are disabled so these functions can be used from the main program or interrupt context" | `usb_serial_write` restores SREG inside its loop: from the second packet on they are enabled and the endpoint is not selected again |

**Why the bounds are enough.** The rings wrap at least twice. A 3x4 display
with 2x2 tiles has narrow, low and overhanging tiles and several rows of
tiles, which is every relation between a tile, its rectangle and the display;
the scripts contain each header form, each encoding and an empty update, and
every read may stop at every byte. `VNC_BUFFER_MAX` of 30 (25 in `reconnect`)
is above the longest message the client waits for as a whole (24) and below an
update, so that the buffer does fill up. `TxBytes` is 128 in `slow_host`, as on
the board; where the host is prompt the longest message (20 bytes) must fit
beside what is unread, and 20 (30 in `reconnect`) let the program run up to one
or two messages ahead of the server. In the script of `decode` a raw rectangle and
a CopyRect are followed by tiles over a part of them, so that pixels become stale
and are repaired. Two sessions show every leftover once; a third starts
from the same state as the second. Two columns or rows of distance are what
the search gets wrong: a row of 3 has that, and the 4x3 frame of `scan_cover`
has it in both directions. Two keys are one in the file and one saved or in
the hands of a thread. A packet of 2 bytes can be empty, partial and full; two
banks and three events are enough for a configuration, both banks in use and a
reset or a halt on top. In `vusb` a block of 7 is longer than the buffer, one of
5 ends in a partial packet and one of 2 in a full one; the third transfer meets what
two abandoned ones have left. The lengths stay below `ByteRange`: longer ones
are the hazard at `firmware/main.c:75`.

**Fairness.** UART: the program and the shift register go on and an enabled
interrupt is served. Client: the loop never blocks (the driver has a timeout),
USB delivers bytes to a program that keeps polling (strong fairness for a read
that takes something, since a poll may find nothing), the server reads and
answers, the port is opened. Presses, bells and closes are not fair. Frame
server: both loops and libvncserver's thread keep running; typing and
connecting are not fair. USB driver: a frame starts every millisecond, a
pending interrupt is served again and again while interrupts are enabled only
part of the time (strong fairness), a call goes on between interrupts
(strong), and the main loop keeps calling `usb_serial_getchar`; that the host
reads or sends is not assumed. `PromptPolls`: the wait loop sees every frame
number, since a round takes microseconds. libusb test: the main loop polls, the
host repeats a packet that was refused (strong, since the device may be ready
only between two polls) and ends a reset; that it gives up is not assumed.

**Deadlock** is checked except where the model stops by its bounds (`uart`:
no more bytes), by design (`scan_cover`: the search is over) or because nothing
is known of the program any more (`decode`, `error_reset`).

## Proofs

TLAPS proves, for every value of the constants under the named assumptions
(`TxSizeAssumption` and so on: sizes are positive naturals, a ring has at
least 2 slots, `VNC_BUFFER_MAX >= 24`, tiles are at most 16 wide, what the
server writes is bytes, an update that uses the encodings the client asked for
is one that RFB allows with less than 2^32 bytes per raw rectangle, a packet and the block buffer of `libusbtest` fit
a `uchar`):

* `BuffUartProofs`. `TypeCorrect`; `TxOrder` and `TxWakeup` from one inductive
  invariant: neither property is inductive alone. Order needs that the ring
  holds exactly the accepted bytes that are not on the wire (`TxRingExact`)
  and where the program is in its store sequence; the wakeup needs what the
  copy of UCSR1B between load and store can be. `TxRefinement`: each step of
  the driver is a step of `ByteFifo` or leaves its queue alone. `RxOrder` and
  `RxNoLoss` for the receive ring, which the handler may overrun any number of
  times: an index only says where a byte is modulo the size of the ring, so the
  invariant counts laps (`Laps`). Each slot holds the last byte that arrived
  there (`RxRingExact`), and the reader is behind the writer by the bytes
  between the indices and some whole rings (`RxGap`); so what it returns next
  is newer than what it returned, and the very next byte when no ring was lost.
* `FrameServerProofs`. For the search alone (`FrameDiff`), `UpperLeft` and
  `Margin` from the loop invariant: the rectangle is as stated for the modified pixels already passed, in the order
  of the two loops. `Margin` is the strongest form in which the search covers
  what it should; that it does not cover everything is the run `scan_cover`.
  For the server, `ServerUpperLeft` and `ServerMargin`: the same inside the
  server, whose other steps leave the search alone or start it anew.
  `StaleMarked` (`StaleIsMarked`) with the invariant that during and after the
  search `diff` is where the new picture and `frameBuffer` differ
  (`DiffCurrent`): memcpy then changes no pixel outside it. `KeyInterpretedOnce`
  (`KeyOnce`) with `KeyInv`: of the places a key can be in (saved, in the hands
  of the main loop or of the event thread, in the file, interpreted) those that
  are still to be interpreted hold different keys, none of them interpreted
  already, and all of them typed.
* `VncClientProofs`. Against any server, any cut of the stream and any control
  lines: `TypeCorrect` (every index into `vncBuffer` in range, every register
  within its width), `AnswersInOrder` (`SendOrder`: no message before the ones
  it answers have been parsed) and `RawTiles` (`RawTileExact`: the pixels
  written and to come of a raw tile are exactly its LCD window). The type
  invariant is inductive; the two others are inductive together with it.
  `SendOrder` excludes the dead states because the code can leave the send
  state ahead of them; only a reset leads out of those.
* `VncSystemProofs`. `SystemIsClient`: the client with its server, port and
  user implements `VncClient`'s `Spec`, so that those three theorems hold of the
  system (`ClientInSystem`). `OneKeyPerPress` (`KeyPerPress`), which becomes
  inductive when the press that is at the pins and not yet seen by
  `Buttons_Handler` is counted too (`PressesCounted`). `ServerUnderstands`
  (`NoProtocolError`) under `PromptHost`, `PatientHost` and `~FifoSurvives`. It
  needs two things. `Lines`: a session begins with a client that is reset and an
  empty buffer, and no reset falls into a session. `Session`: for each message
  the server may be waiting for, the states the client can be in, how many
  bytes it has still to parse (and the fourth of them, which is the server's
  verdict), and the messages between them; after the handshake the queue is the
  rest of the three setup messages followed by requests and keys only.
* `VncFramingProofs`, on top of `VncTileProofs`. Under the same three
  assumptions on the host, whatever updates the server sends, in rectangles and
  tiles of any number, and however the port cuts them up: wherever the client is
  between two messages, it is where one of the server's messages ends
  (`StreamAligned`, for `Aligned`), and every pixel that is not stale is what RFB
  makes of the updates parsed so far (`PictureDrawn`, for `PictureExact`); and
  the client never writes outside `hextileBuffer` (`TileBufferKept`, for
  `TileBufferSafe`). The assumption on the updates
  (`UpdateAssumption`) is `Rfb!WellFormedUpdate`, what the protocol asks of a
  sender: every tile of a rectangle is there, a raw tile has all its pixels, and
  a tile is drawn with colours that it or a tile before it has given. That last
  part is for the picture only, and needed for it: the client keeps the colours
  of the rectangle before, `Rfb` has none. The theorems come from one inductive
  invariant, `Framing`, in four layers.
  - The encodings are joins of sequences of any length; what lies where in them
    follows by induction on the number of parts (lemma `Induction`, stated for
    sets of numbers because no operator can be passed to a theorem here). The
    pictures after each rectangle and each update, the client's and RFB's, are
    unfolded the same way (`OnScreenIs`, `ViewsAre`, `ExpectedIs`).
  - The walk: the client's registers say how far it is into a tile, a rectangle
    and an update (`InTile`, `InRect`, `InUpdate`), and each step of
    `processHextile`, of `dropOutOfViewPixels` and of the header parser moves it on by the
    bytes it consumes or to the next part; the 16-bit sums by which the code
    tells the last column and the last row are shown to do so. With the place
    goes the picture (`Drawn`): the tiles before this one are on the display,
    and of this one the pixels that were parsed, on the LCD in the order of the
    address window (raw) or in `hextileBuffer` (background and the subrectangles
    so far, the later over the earlier), with the colours in the registers being
    the ones last given. A subrectangle that has come in whole is one of the
    tile's, so that it stays in the buffer (`NoOverrun`).
  - The stream: the updates lie in it one behind the other as they were encoded
    (`Carried`, `Ordered`), a message that is not an update does not begin like
    one (`Marked`), and the client is between two messages with the display up
    to date, or within the k-th update with the display on its way from
    `OnScreen[k - 1]` (`Walking`). This holds on top of `Session`, `Lines` and
    `SendOrder`.
  - The picture: `OnScreen` is what the client makes of the updates, in which
    raw, CopyRect and overhanging parts leave the picture alone. It and
    `Expected` are `Alike`, equal but for the stale pixels, after every
    rectangle (`RectAlike`), every update (`UpdateAlike`) and all of them
    (`ScreenAlike`).
* `UsbSerialProofs`. All seven safety properties of the `usb` run, for every
  packet size, timeout and frame range and any number of events:
  `BytesSent`, `BytesReceived`, `FlushTimerRuns`, `TransferEnds`, `ResetSeen`,
  `RegistersSafe`, `TypeCorrect`. They assume `WriteSizes \subseteq {1}`, that
  is calls of one byte, as the display makes them: for longer writes
  `RegistersGuarded` is false (run `usb_write`) and with it the others. One
  inductive invariant carries them all: a transmit that has passed its test
  still has room when it stores (`Room`), which holds because interrupts are
  off, so that only the host and the controller move, and they only make room
  or empty the endpoint; with the endpoints disabled nothing is in them
  (`Disabled`); a handler interrupts only a caller with interrupts
  enabled (`Handler`); a call has one byte (`OneByte`).
* `ControlTransferProofs`. `AddressesAgree`: outside a reset the device answers
  to the host's address. It needs where the new address can be ahead of the
  current one: only while the host is in the transfer that sets it, and the
  packet that takes it over is the one the host takes as its end.
  `TypesCorrect`, `ReadsExact`, `RepliesCurrent` and `WritesStored` from one
  invariant, `Types /\ Flow`: where the host is in its transfer and what the
  driver then has in `usbRx`, `usbTxBuf`, `usbMsgPtr` and the firmware's counters
  belong together, and whatever an abandoned transfer left is out of the way
  once the next SETUP packet is in. `WritesStored` assumes lengths below
  `ByteRange`, as those of the command line are: `usbFunctionSetup` keeps the
  low byte of `wLength`, and for longer blocks the property is false. The other
  three hold for every length.

Only model-checked: liveness and everything under fairness (`TxDrains`,
`AllShownEventually`, `KeyLeaves`, `FrameCopied`,
`CallsReturn`, `PartialSent`, `RxDrains`, `TransfersEnd`), which these provers do
not handle. Every invariant and every refinement of a passing run is a theorem.
The inductive invariants were checked with TLC before they were proved.

## Not modelled

* Of `usb_serial.c`: the stages of a control request (USB_COM waits for each in
  a loop without a timeout), the line coding and the control lines, and the
  notification of `usb_serial_set_control`.
* Of `libusbtest`: descriptors and the other standard requests, which neither
  change state that a transfer uses nor fail; the bit-level receiver; lost or
  damaged packets, of which the driver says that it "assumes error-free
  transfers"; the command line's search for the device.
* The LUFA and UART variants of `VncServerComms.c`, `Descriptors.c`: not in the
  build. LUFA itself is vendored, with its own demos, bootloaders, FAT file
  systems and IP stack; it is 95% of the lines of the repository
  and no program of this project, as built, calls it, so a count of modelled lines against
  all lines says little here.
* `ParallelLcd.c`, the initialisation and bit-banging of `SpiLcd.c`, `Debug.c`,
  `SeeedEink/`: output without state.
* `RFBFileTest/`: its `main` clears and refreshes the e-ink screen in an endless
  loop; the decoder of stored rectangles behind it (`hextile.c`) is never
  reached. Its UART and USB drivers are those of the display.
* `ImageTool/`: offline conversion; its viewer is a libvncserver example.
* What the sketch draws, and its own keyboard and mouse.

## Plan

Done, in this order: `BuffUart` with its refinement; `VncClient`, `Rfb`,
`VncSystem`; `FrameDiff`; `FrameServer`; `UsbSerial`; `ControlTransfer`; the
theorems above. To come:

1. The client's connection on top of `UsbSerial` instead of `toServer` and `rx`,
   with an abstract byte pipe between them.
2. The display and the frame server end to end: a key on the board to the
   sketch, a picture of the sketch to the LCD.
