----------------------------- MODULE FrameServer -----------------------------
(***************************************************************************)
(* The host side: FrameServer/frameserver.c, a VNC server with a main loop *)
(* and libvncserver's event thread, and the Processing sketch that draws   *)
(* (MovingOnCurves.pde), a process of its own.  The two share files:       *)
(* pixelbuffer.bin takes the pictures one way, vncinput.bin the keys the   *)
(* other way, one byte at a time.                                          *)
(*                                                                         *)
(* Keys are numbered in the order they are typed, 0 is the empty byte.     *)
(***************************************************************************)
EXTENDS FrameDiff, Sequences

CONSTANTS Colours,      \* pixel values
          MaxFrames,    \* bound: pictures the sketch draws
          MaxTyped      \* bound: keys that are typed, each in place of a picture

ASSUME ServerAssumption == MaxFrames \in Nat /\ MaxTyped \in Nat

VARIABLES
    mainPc, eventPc, sketchPc,
    pixelFile,        \* pixelbuffer.bin
    exists,           \* it has been created
    pixels, written,  \* the sketch's picture, and the pixels of it in the file
    frames,
    pixelbuffer, frameBuffer, runonce,
    modified,         \* libvncserver: what the client has still to be sent
    shown,            \* what the client shows
    connected,
    missed,           \* pixels that changed in frameBuffer and were not marked
    keyFile,          \* vncinput.bin
    savedkeypress,
    mainKey, eventKey,  \* the byte each thread has handed to fwrite
    typed,
    interpreted       \* the keys interpretKeypress was called with

frameVars == <<pixelFile, exists, pixels, written, frames, pixelbuffer,
               frameBuffer, runonce, modified, shown, connected, missed>>
keyVars == <<keyFile, savedkeypress, mainKey, eventKey, typed, interpreted>>
pcVars == <<mainPc, eventPc, sketchPc>>
serverVars == <<pcVars, scanVars, frameVars, keyVars>>

Pictures == [FramePixels -> Colours]
Blank == [p \in FramePixels |-> CHOOSE c \in Colours : TRUE]

\* The sketch has vncinput.bin open and mapped: fopen fails
Locked == sketchPc \in {"get", "clear", "close"}

Init ==
    /\ mainPc = "sleep" /\ eventPc = "idle" /\ sketchPc = "draw"
    /\ pixelFile = Blank /\ pixels = Blank /\ shown = Blank /\ pixelbuffer = Blank
    /\ frameBuffer \in Pictures      \* malloc
    /\ exists \in BOOLEAN
    /\ written = FramePixels
    /\ frames = 0
    /\ runonce = FALSE
    /\ modified = {} /\ missed = {} /\ connected = FALSE
    /\ keyFile = 0 /\ savedkeypress = 0 /\ mainKey = 0 /\ eventKey = 0
    /\ typed = 0 /\ interpreted = <<>>
    /\ ScanInit({})

Running == mainPc # "exit"

\* The bounds are a budget that pictures and keys share: all of the one, all
\* of the other, or a mixture
InBudget(f, t) == f * MaxTyped + t * MaxFrames <= MaxFrames * MaxTyped
                  /\ f <= MaxFrames /\ t <= MaxTyped

-----------------------------------------------------------------------------
(* The main loop, retrying a key *)

MainWake ==
    /\ mainPc = "sleep"
    /\ mainPc' = IF savedkeypress # 0 THEN "open" ELSE "read"
    /\ UNCHANGED <<eventPc, sketchPc, scanVars, frameVars, keyVars>>

\* fopen(filename, "wb") empties the file, or fails
MainOpenKey ==
    /\ mainPc = "open"
    /\ \/ /\ ~Locked
          /\ keyFile' = 0
          /\ mainPc' = "write"
       \/ /\ Locked
          /\ mainPc' = "read"
          /\ UNCHANGED keyFile
    /\ UNCHANGED <<eventPc, sketchPc, scanVars, frameVars, savedkeypress,
                   mainKey, eventKey, typed, interpreted>>

\* fwrite takes the byte, fclose puts it into the file
MainWriteKey ==
    /\ mainPc = "write"
    /\ mainKey' = savedkeypress
    /\ mainPc' = "flush"
    /\ UNCHANGED <<eventPc, sketchPc, scanVars, frameVars, keyFile,
                   savedkeypress, eventKey, typed, interpreted>>

MainCloseKey ==
    /\ mainPc = "flush"
    /\ keyFile' = mainKey
    /\ mainPc' = "forget"
    /\ UNCHANGED <<eventPc, sketchPc, scanVars, frameVars, savedkeypress,
                   mainKey, eventKey, typed, interpreted>>

MainForgetKey ==
    /\ mainPc = "forget"
    /\ savedkeypress' = 0
    /\ mainPc' = "read"
    /\ UNCHANGED <<eventPc, sketchPc, scanVars, frameVars, keyFile, mainKey,
                   eventKey, typed, interpreted>>

-----------------------------------------------------------------------------
(* The main loop, fetching a picture *)

\* fopen and fread; the sketch may be half through writing the file, and go
\* on writing it meanwhile
MainRead ==
    /\ mainPc = "read"
    /\ \/ /\ exists
          /\ pixelbuffer' = pixelFile
          /\ mainPc' = "readRest"
       \/ /\ ~exists
          /\ mainPc' = "exit"
          /\ UNCHANGED pixelbuffer
    /\ UNCHANGED <<eventPc, sketchPc, scanVars, pixelFile, exists, pixels,
                   written, frames, frameBuffer, runonce, modified, shown,
                   connected, missed, keyVars>>

\* The pixels that are read later than the others
MainReadRest ==
    /\ mainPc = "readRest"
    /\ \E late \in SUBSET FramePixels :
         pixelbuffer' = [p \in FramePixels |->
                           IF p \in late THEN pixelFile[p] ELSE pixelbuffer[p]]
    /\ mainPc' = IF runonce THEN "compare" ELSE "first"
    /\ UNCHANGED <<eventPc, sketchPc, scanVars, pixelFile, exists, pixels,
                   written, frames, frameBuffer, runonce, modified, shown,
                   connected, missed, keyVars>>

\* memcpy(frameBuffer, pixelbuffer) as far as it has come
CopyPart(part) ==
    frameBuffer' = [p \in FramePixels |->
                      IF p \in part THEN pixelbuffer[p] ELSE frameBuffer[p]]

\* The first picture is copied; there is then nothing to mark as modified
MainFirst ==
    /\ \/ /\ mainPc = "first"
          /\ mainPc' = "firstRest"
          /\ \E part \in SUBSET FramePixels : CopyPart(part)
       \/ /\ mainPc = "firstRest"
          /\ mainPc' = "compare"
          /\ CopyPart(FramePixels)
    /\ runonce' = TRUE
    /\ missed' = IF connected
                   THEN missed \union {p \in FramePixels : frameBuffer[p] # frameBuffer'[p]}
                   ELSE missed
    /\ UNCHANGED <<eventPc, sketchPc, scanVars, pixelFile, exists, pixels,
                   written, frames, pixelbuffer, modified, shown, connected,
                   keyVars>>

\* The loops start; nobody else writes the two buffers they compare
MainCompare ==
    /\ mainPc = "compare"
    /\ diff' = {p \in FramePixels : pixelbuffer[p] # frameBuffer[p]}
    /\ i' = 0 /\ j' = 0 /\ mod' = NoRectangle
    /\ mainPc' = "scan"
    /\ UNCHANGED <<eventPc, sketchPc, frameVars, keyVars>>

MainScan ==
    /\ mainPc = "scan"
    /\ ScanNext
    /\ UNCHANGED <<pcVars, frameVars, keyVars>>

MainScanned ==
    /\ mainPc = "scan" /\ ScanDone
    /\ mainPc' = IF mod.x0 >= 0 THEN "copy" ELSE "sleep"
    /\ UNCHANGED <<eventPc, sketchPc, scanVars, frameVars, keyVars>>

\* memcpy; the event thread may read frameBuffer in the middle of it
MainCopyPart ==
    /\ mainPc = "copy"
    /\ \E part \in SUBSET FramePixels : CopyPart(part)
    /\ mainPc' = "copyRest"
    /\ UNCHANGED <<eventPc, sketchPc, scanVars, pixelFile, exists, pixels,
                   written, frames, pixelbuffer, runonce, modified, shown,
                   connected, missed, keyVars>>

MainCopyRest ==
    /\ mainPc = "copyRest"
    /\ CopyPart(FramePixels)
    /\ mainPc' = "mark"
    /\ UNCHANGED <<eventPc, sketchPc, scanVars, pixelFile, exists, pixels,
                   written, frames, pixelbuffer, runonce, modified, shown,
                   connected, missed, keyVars>>

\* Mutant: the rectangle is marked without its last column
MainMarkShort ==
    /\ mainPc = "mark"
    /\ modified' = IF connected
                     THEN modified \union MarkedBy([mod EXCEPT !.x1 = mod.x1 - 1])
                     ELSE modified
    /\ missed' = IF connected THEN missed \union (diff \ MarkedBy(mod)) ELSE missed
    /\ mainPc' = "sleep"
    /\ UNCHANGED <<eventPc, sketchPc, scanVars, pixelFile, exists, pixels,
                   written, frames, pixelbuffer, frameBuffer, runonce, shown,
                   connected, keyVars>>

\* rfbMarkRectAsModified adds the rectangle to what each client must get
MainMark ==
    /\ mainPc = "mark"
    /\ modified' = IF connected THEN modified \union MarkedBy(mod) ELSE modified
    /\ missed' = IF connected THEN missed \union (diff \ MarkedBy(mod)) ELSE missed
    /\ mainPc' = "sleep"
    /\ UNCHANGED <<eventPc, sketchPc, scanVars, pixelFile, exists, pixels,
                   written, frames, pixelbuffer, frameBuffer, runonce, shown,
                   connected, keyVars>>

Main ==
    \/ MainWake \/ MainOpenKey \/ MainWriteKey \/ MainCloseKey \/ MainForgetKey
    \/ MainRead \/ MainReadRest \/ MainFirst \/ MainCompare \/ MainScan \/ MainScanned
    \/ MainCopyPart \/ MainCopyRest \/ MainMark

-----------------------------------------------------------------------------
(* The event thread of libvncserver (external), and dokey *)

\* A client that connects asks for the whole screen
Connect ==
    /\ Running /\ ~connected
    /\ connected' = TRUE
    /\ modified' = FramePixels
    /\ missed' = {}
    /\ UNCHANGED <<pcVars, scanVars, pixelFile, exists, pixels, written,
                   frames, pixelbuffer, frameBuffer, runonce, shown, keyVars>>

\* What is marked is sent as frameBuffer has it at that moment
SendUpdate ==
    /\ Running /\ connected /\ modified # {}
    /\ shown' = [p \in FramePixels |->
                   IF p \in modified THEN frameBuffer[p] ELSE shown[p]]
    /\ modified' = {}
    /\ missed' = missed \ modified
    /\ UNCHANGED <<pcVars, scanVars, pixelFile, exists, pixels, written,
                   frames, pixelbuffer, frameBuffer, runonce, connected, keyVars>>

\* dokey with one of a, b, c and r
DoKey ==
    /\ Running /\ eventPc = "idle" /\ connected /\ InBudget(frames, typed + 1)
    /\ typed' = typed + 1
    /\ \/ /\ ~Locked
          /\ keyFile' = 0
          /\ eventKey' = typed + 1
          /\ eventPc' = "flush"
          /\ UNCHANGED savedkeypress
       \/ /\ Locked
          /\ savedkeypress' = typed + 1
          /\ UNCHANGED <<keyFile, eventKey, eventPc>>
    /\ UNCHANGED <<mainPc, sketchPc, scanVars, frameVars, mainKey, interpreted>>

DoKeyClose ==
    /\ Running /\ eventPc = "flush"
    /\ keyFile' = eventKey
    /\ eventPc' = "idle"
    /\ UNCHANGED <<mainPc, sketchPc, scanVars, frameVars, savedkeypress,
                   mainKey, eventKey, typed, interpreted>>

\* dokey with Escape, or the client has gone
CloseClient ==
    /\ Running /\ eventPc = "idle" /\ connected
    /\ connected' = FALSE
    /\ modified' = {} /\ missed' = {}
    /\ UNCHANGED <<pcVars, scanVars, pixelFile, exists, pixels, written,
                   frames, pixelbuffer, frameBuffer, runonce, shown, keyVars>>

Event == Connect \/ SendUpdate \/ DoKey \/ DoKeyClose \/ CloseClient

-----------------------------------------------------------------------------
(* The sketch: draw() looks at the key file at the end of a path, and then *)
(* saves its picture                                                       *)

SketchDraw ==
    /\ sketchPc = "draw"
    /\ sketchPc' \in {"map", "save"}
    /\ UNCHANGED <<mainPc, eventPc, scanVars, frameVars, keyVars>>

SketchMap ==
    /\ sketchPc = "map"
    /\ sketchPc' = "get"
    /\ UNCHANGED <<mainPc, eventPc, scanVars, frameVars, keyVars>>

SketchGet ==
    /\ sketchPc = "get"
    /\ interpreted' = IF keyFile # 0 THEN Append(interpreted, keyFile) ELSE interpreted
    /\ sketchPc' = "clear"
    /\ UNCHANGED <<mainPc, eventPc, scanVars, frameVars, keyFile,
                   savedkeypress, mainKey, eventKey, typed>>

\* Mutant: the byte is left in the file
SketchClearKeeps ==
    /\ sketchPc = "clear"
    /\ sketchPc' = "close"
    /\ UNCHANGED <<mainPc, eventPc, scanVars, frameVars, keyVars>>

SketchClear ==
    /\ sketchPc = "clear"
    /\ keyFile' = 0
    /\ sketchPc' = "close"
    /\ UNCHANGED <<mainPc, eventPc, scanVars, frameVars, savedkeypress,
                   mainKey, eventKey, typed, interpreted>>

SketchClose ==
    /\ sketchPc = "close"
    /\ sketchPc' = "save"
    /\ UNCHANGED <<mainPc, eventPc, scanVars, frameVars, keyVars>>

\* saveFrameBuffer: the file is created, the new picture put into it piece by
\* piece
SketchSave ==
    /\ sketchPc = "save"
    /\ \/ /\ InBudget(frames + 1, typed)
          /\ frames' = frames + 1
          /\ pixels' \in Pictures
       \/ UNCHANGED <<frames, pixels>>
    /\ exists' = TRUE
    /\ written' = {}
    /\ sketchPc' = "put"
    /\ UNCHANGED <<mainPc, eventPc, scanVars, pixelFile, pixelbuffer,
                   frameBuffer, runonce, modified, shown, connected, missed,
                   keyVars>>

SketchPut ==
    /\ sketchPc = "put"
    /\ \E p \in FramePixels \ written :
         /\ \A q \in FramePixels \ written : p[2] < q[2] \/ (p[2] = q[2] /\ p[1] <= q[1])
         /\ pixelFile' = [pixelFile EXCEPT ![p] = pixels[p]]
         /\ written' = written \union {p}
    /\ sketchPc' = IF written' = FramePixels THEN "draw" ELSE "put"
    /\ UNCHANGED <<mainPc, eventPc, scanVars, exists, pixels, frames,
                   pixelbuffer, frameBuffer, runonce, modified, shown,
                   connected, missed, keyVars>>

Sketch ==
    \/ SketchDraw \/ SketchMap \/ SketchGet \/ SketchClear \/ SketchClose
    \/ SketchSave \/ SketchPut

ServerNext == Main \/ Event \/ Sketch

ServerSpec == Init /\ [][ServerNext]_serverVars

\* Every thread keeps running
FairServerSpec ==
    /\ ServerSpec
    /\ WF_serverVars(Main) /\ WF_serverVars(Sketch)
    /\ WF_serverVars(SendUpdate) /\ WF_serverVars(DoKeyClose)

-----------------------------------------------------------------------------
(* Properties *)

\* What the client shows and frameBuffer differ only in pixels that are
\* marked, that are about to be, or that the search left out: memcpy before
\* rfbMarkRectAsModified, against updates sent at any moment.
StaleIsMarked ==
    connected =>
      \A p \in FramePixels :
        shown[p] # frameBuffer[p] =>
          \/ p \in modified \union missed
          \/ mainPc \in {"copyRest", "mark"} /\ p \in diff

\* A key press is interpreted at most once, however the three programs'
\* accesses to the file interleave and however often it is retried.
KeyOnce ==
    \A a, b \in DOMAIN interpreted : interpreted[a] = interpreted[b] => a = b

\* Pictures torn by reading while the sketch writes are repaired: once the
\* sketch draws the same picture, frameBuffer is that picture.
FrameCopied == <>[](~Running \/ frameBuffer = pixels)

\* A saved key is only forgotten once it is in the file (frameserver.c:
\* "record the press and write it to the file later").
SavedKeyWritten == [][MainForgetKey => savedkeypress = mainKey]_serverVars
=============================================================================
