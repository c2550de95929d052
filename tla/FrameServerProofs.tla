-------------------------- MODULE FrameServerProofs --------------------------
(***************************************************************************)
(* What the search for the modified rectangle finds, for frames of every   *)
(* size and every set of modified pixels (FrameDiff), and FrameServer for  *)
(* every frame size, every set of colours and any number of pictures and   *)
(* keys: the search inside the running server, what is marked for the      *)
(* client, and the way of a key through the shared file.                   *)
(***************************************************************************)
EXTENDS FrameServer, TLAPS

-----------------------------------------------------------------------------
(* The search by itself *)


\* The pixels the loops have passed
Passed(p) == p[2] < j \/ (p[2] = j /\ p[1] < i)

\* The rectangle so far encloses, sides included, the modified pixels passed
Encloses ==
    \A p \in diff : Passed(p) =>
      /\ 0 <= mod.x0 /\ mod.x0 <= p[1] /\ p[1] <= mod.x1
      /\ 0 <= mod.y0 /\ mod.y0 <= p[2] /\ p[2] <= mod.y1

\* Each of its sides comes from one of these pixels
Tight ==
    \/ mod = NoRectangle
    \/ /\ \E p \in diff : Passed(p) /\ p[1] = mod.x0
       /\ \E p \in diff : Passed(p) /\ p[2] = mod.y0
       /\ \E p \in diff : Passed(p) /\ p[1] + 2 = mod.x1
       /\ \E p \in diff : Passed(p) /\ p[2] + 2 = mod.y1

ScanInv == ScanTypeOK /\ Encloses /\ Tight

-----------------------------------------------------------------------------

\* Before the first pixel nothing is passed and there is no rectangle.
LEMMA ScanStart ==
    ASSUME NEW D \in SUBSET FramePixels, ScanInit(D)
    PROVE  ScanInv
BY FrameAssumption
   DEF ScanInit, ScanInv, ScanTypeOK, Encloses, Tight, Passed, FramePixels, NoRectangle

\* A rectangle that has grown by a pixel of the frame encloses it and what it
\* enclosed before, and stays within two of the frame.
LEMMA GrowEncloses ==
    ASSUME ScanTypeOK, i < maxx, j < maxy
    PROVE  LET m == Grow(mod, i, j)
           IN /\ m \in [x0 : -1 .. maxx - 1, x1 : -1 .. maxx + 1,
                        y0 : -1 .. maxy - 1, y1 : -1 .. maxy + 1]
              /\ 0 <= m.x0 /\ m.x0 <= i /\ i <= m.x1
              /\ 0 <= m.y0 /\ m.y0 <= j /\ j <= m.y1
              /\ 0 <= mod.x0 => m.x0 <= mod.x0
              /\ 0 <= mod.y0 => m.y0 <= mod.y0
              /\ mod.x1 <= m.x1 /\ mod.y1 <= m.y1
              /\ m.x0 = i \/ (m.x0 = mod.x0 /\ 0 <= mod.x0)
              /\ m.y0 = j \/ (m.y0 = mod.y0 /\ 0 <= mod.y0)
              /\ m.x1 = i + 2 \/ (m.x1 = mod.x1 /\ i <= mod.x1)
              /\ m.y1 = j + 2 \/ (m.y1 = mod.y1 /\ j <= mod.y1)
<1>1. /\ i \in 0 .. maxx - 1 /\ j \in 0 .. maxy - 1
      /\ mod.x0 \in -1 .. maxx - 1 /\ mod.x1 \in -1 .. maxx + 1
      /\ mod.y0 \in -1 .. maxy - 1 /\ mod.y1 \in -1 .. maxy + 1
  BY FrameAssumption DEF ScanTypeOK
<1> QED
  BY <1>1, FrameAssumption DEF Grow

\* One round of the inner loop keeps the invariant.
LEMMA ScanPixelKeeps ==
    ASSUME ScanInv, ScanPixel
    PROVE  ScanInv'
<1> USE FrameAssumption
<1>1. /\ ScanTypeOK /\ j < maxy /\ i < maxx
      /\ i \in Int /\ j \in Int
      /\ i' = i + 1 /\ j' = j /\ diff' = diff
      /\ diff \in SUBSET FramePixels
  BY DEF ScanInv, ScanPixel, ScanTypeOK
<1>2. \A p \in FramePixels : p[1] \in Int /\ p[2] \in Int /\ p = <<p[1], p[2]>>
  BY DEF FramePixels
<1>3. \A p \in diff : Passed(p)' <=> (Passed(p) \/ p = <<i, j>>)
  <2> SUFFICES ASSUME NEW p \in diff
               PROVE  Passed(p)' <=> (Passed(p) \/ p = <<i, j>>)
    OBVIOUS
  <2>1. p[1] \in Int /\ p[2] \in Int /\ p = <<p[1], p[2]>>
    BY <1>1, <1>2
  <2>2. Passed(p)' <=> (p[2] < j \/ (p[2] = j /\ p[1] < i + 1))
    BY <1>1 DEF Passed
  <2>3. p = <<i, j>> <=> p[1] = i /\ p[2] = j
    BY <2>1
  <2> QED
    BY <1>1, <2>1, <2>2, <2>3 DEF Passed
<1>4. CASE <<i, j>> \notin diff
  <2>1. mod' = mod
    BY <1>4 DEF ScanPixel
  <2>2. \A p \in diff : Passed(p)' <=> Passed(p)
    BY <1>3, <1>4
  <2>3. ScanTypeOK'
    BY <1>1, <2>1 DEF ScanTypeOK
  <2>4. Encloses'
    BY <1>1, <2>1, <2>2 DEF ScanInv, Encloses
  <2>5. Tight'
    BY <1>1, <2>1, <2>2 DEF ScanInv, Tight
  <2> QED
    BY <2>3, <2>4, <2>5 DEF ScanInv
<1>5. CASE <<i, j>> \in diff
  <2> PICK q \in diff : q = <<i, j>>
    BY <1>5
  <2>0. mod' = Grow(mod, i, j)
    BY <1>5 DEF ScanPixel
  <2>1. /\ mod' \in [x0 : -1 .. maxx - 1, x1 : -1 .. maxx + 1,
                     y0 : -1 .. maxy - 1, y1 : -1 .. maxy + 1]
        /\ 0 <= mod'.x0 /\ mod'.x0 <= i /\ i <= mod'.x1
        /\ 0 <= mod'.y0 /\ mod'.y0 <= j /\ j <= mod'.y1
        /\ 0 <= mod.x0 => mod'.x0 <= mod.x0
        /\ 0 <= mod.y0 => mod'.y0 <= mod.y0
        /\ mod.x1 <= mod'.x1 /\ mod.y1 <= mod'.y1
        /\ mod'.x0 = i \/ (mod'.x0 = mod.x0 /\ 0 <= mod.x0)
        /\ mod'.y0 = j \/ (mod'.y0 = mod.y0 /\ 0 <= mod.y0)
        /\ mod'.x1 = i + 2 \/ (mod'.x1 = mod.x1 /\ i <= mod.x1)
        /\ mod'.y1 = j + 2 \/ (mod'.y1 = mod.y1 /\ j <= mod.y1)
    BY <1>1, <2>0, GrowEncloses
  <2>2. ScanTypeOK'
    BY <1>1, <2>1 DEF ScanTypeOK
  <2>3. /\ mod.x0 \in Int /\ mod.x1 \in Int /\ mod.y0 \in Int /\ mod.y1 \in Int
        /\ mod'.x0 \in Int /\ mod'.x1 \in Int /\ mod'.y0 \in Int /\ mod'.y1 \in Int
    BY <1>1, <2>1 DEF ScanTypeOK
  <2>4. q \in diff /\ q[1] = i /\ q[2] = j /\ Passed(q)'
    BY <1>3, <1>5
  <2>5. Encloses'
    <3> SUFFICES ASSUME NEW p \in diff, Passed(p) \/ p = <<i, j>>
                 PROVE  /\ 0 <= mod'.x0 /\ mod'.x0 <= p[1] /\ p[1] <= mod'.x1
                        /\ 0 <= mod'.y0 /\ mod'.y0 <= p[2] /\ p[2] <= mod'.y1
      BY <1>1, <1>3 DEF Encloses
    <3>1. CASE Passed(p)
      <4>1. /\ 0 <= mod.x0 /\ mod.x0 <= p[1] /\ p[1] <= mod.x1
            /\ 0 <= mod.y0 /\ mod.y0 <= p[2] /\ p[2] <= mod.y1
        BY <3>1 DEF ScanInv, Encloses
      <4>2. p[1] \in Int /\ p[2] \in Int
        BY <1>1, <1>2
      <4> QED
        BY <2>1, <2>3, <4>1, <4>2
    <3>2. CASE p = <<i, j>>
      BY <2>1, <2>4, <3>2
    <3> QED
      BY <3>1, <3>2
  <2>6. Tight'
    <3>1. CASE mod = NoRectangle
      <4>1. mod'.x0 = i /\ mod'.y0 = j /\ mod'.x1 = i + 2 /\ mod'.y1 = j + 2
        BY <1>1, <2>1, <3>1 DEF NoRectangle, ScanTypeOK
      <4> QED
        BY <1>1, <2>4, <4>1 DEF Tight
    <3>2. CASE mod # NoRectangle
      <4>1. PICK a \in diff : Passed(a) /\ a[1] = mod.x0
        BY <3>2 DEF ScanInv, Tight
      <4>2. PICK b \in diff : Passed(b) /\ b[2] = mod.y0
        BY <3>2 DEF ScanInv, Tight
      <4>3. PICK c \in diff : Passed(c) /\ c[1] + 2 = mod.x1
        BY <3>2 DEF ScanInv, Tight
      <4>4. PICK d \in diff : Passed(d) /\ d[2] + 2 = mod.y1
        BY <3>2 DEF ScanInv, Tight
      <4>5. /\ \E p \in diff : Passed(p)' /\ p[1] = mod'.x0
            /\ \E p \in diff : Passed(p)' /\ p[2] = mod'.y0
        BY <1>3, <2>1, <2>4, <4>1, <4>2
      <4>6. /\ \E p \in diff : Passed(p)' /\ p[1] + 2 = mod'.x1
            /\ \E p \in diff : Passed(p)' /\ p[2] + 2 = mod'.y1
        BY <1>3, <2>1, <2>4, <4>3, <4>4
      <4> QED
        BY <1>1, <4>5, <4>6 DEF Tight
    <3> QED
      BY <3>1, <3>2
  <2> QED
    BY <2>2, <2>5, <2>6 DEF ScanInv
<1> QED
  BY <1>4, <1>5

\* At the end of a row the same pixels have been passed.
LEMMA ScanRowKeeps ==
    ASSUME ScanInv, ScanRow
    PROVE  ScanInv'
<1> USE FrameAssumption
<1>1. /\ j < maxy /\ i = maxx /\ j \in Int
      /\ i' = 0 /\ j' = j + 1 /\ diff' = diff /\ mod' = mod
      /\ diff \in SUBSET FramePixels
  BY DEF ScanInv, ScanRow, ScanTypeOK
<1>2. \A p \in diff : Passed(p)' <=> Passed(p)
  <2> SUFFICES ASSUME NEW p \in diff PROVE Passed(p)' <=> Passed(p)
    OBVIOUS
  <2>1. p[1] \in 0 .. maxx - 1 /\ p[2] \in 0 .. maxy - 1
    BY <1>1 DEF FramePixels
  <2> QED
    BY <1>1, <2>1 DEF Passed
<1>3. ScanTypeOK'
  BY <1>1 DEF ScanInv, ScanTypeOK
<1>4. Encloses'
  BY <1>1, <1>2 DEF ScanInv, Encloses
<1>5. Tight'
  BY <1>1, <1>2 DEF ScanInv, Tight
<1> QED
  BY <1>3, <1>4, <1>5 DEF ScanInv

\* The invariant holds all through the search.
LEMMA ScanInvariant == ScanSpec => []ScanInv
<1>1. (\E D \in SUBSET FramePixels : ScanInit(D)) => ScanInv
  BY ScanStart
<1>2. ScanInv /\ [ScanNext]_scanVars => ScanInv'
  <2> SUFFICES ASSUME ScanInv, [ScanNext]_scanVars PROVE ScanInv'
    OBVIOUS
  <2>1. CASE ScanPixel
    BY <2>1, ScanPixelKeeps
  <2>2. CASE ScanRow
    BY <2>2, ScanRowKeeps
  <2>3. CASE UNCHANGED scanVars
    BY <2>3 DEF scanVars, ScanInv, ScanTypeOK, Encloses, Tight, Passed
  <2> QED
    BY <2>1, <2>2, <2>3 DEF ScanNext
<1> QED
  BY <1>1, <1>2, PTL DEF ScanSpec

\* When the loops are through, every modified pixel has been passed.
LEMMA AllPassed ==
    ASSUME ScanTypeOK, ScanDone
    PROVE  \A p \in diff : Passed(p)
<1> SUFFICES ASSUME NEW p \in diff PROVE p[2] < j
  BY DEF Passed
<1> QED
  BY FrameAssumption DEF ScanTypeOK, ScanDone, FramePixels

\* The invariant gives the upper left corner.
LEMMA ScanFindsUpperLeft == ScanInv => UpperLeftExact
<1> SUFFICES ASSUME ScanInv, ScanDone
             PROVE  \/ diff = {} /\ mod = NoRectangle
                    \/ /\ \A p \in diff : mod.x0 <= p[1] /\ mod.y0 <= p[2]
                       /\ \E p \in diff : p[1] = mod.x0
                       /\ \E p \in diff : p[2] = mod.y0
  BY DEF UpperLeftExact
<1>1. \A p \in diff : /\ 0 <= mod.x0 /\ mod.x0 <= p[1]
                      /\ 0 <= mod.y0 /\ mod.y0 <= p[2]
  BY AllPassed DEF ScanInv, Encloses
<1>2. CASE mod = NoRectangle
  BY <1>1, <1>2 DEF NoRectangle
<1>3. CASE mod # NoRectangle
  BY <1>1, <1>3 DEF ScanInv, Tight
<1> QED
  BY <1>2, <1>3

\* And the margin at the lower right one.
LEMMA ScanFindsMargin == ScanInv => CoveredWithMargin
<1> SUFFICES ASSUME ScanInv, ScanDone, diff # {}
             PROVE  /\ \A p \in diff : p[1] <= mod.x1 /\ p[2] <= mod.y1
                    /\ \E p \in diff : p[1] + 2 = mod.x1
                    /\ \E p \in diff : p[2] + 2 = mod.y1
  BY DEF CoveredWithMargin
<1>1. \A p \in diff : 0 <= mod.x0 /\ p[1] <= mod.x1 /\ p[2] <= mod.y1
  BY AllPassed DEF ScanInv, Encloses
<1>2. mod # NoRectangle
  BY <1>1 DEF NoRectangle
<1> QED
  BY <1>1, <1>2 DEF ScanInv, Tight

\* For every frame size and every set of modified pixels, the rectangle's
\* upper left corner is exact (modx0 and mody0 of frameserver.c).
THEOREM UpperLeft == ScanSpec => []UpperLeftExact
BY ScanFindsUpperLeft, ScanInvariant, PTL

\* For every frame size and every set of modified pixels, the rectangle with
\* one more column and row (modx1, mody1 inclusive) covers the modified
\* pixels, and it ends at most two past one of them.
THEOREM Margin == ScanSpec => []CoveredWithMargin
BY ScanFindsMargin, ScanInvariant, PTL

-----------------------------------------------------------------------------
(* The search: the main loop starts it over a set of pixels of the frame,  *)
(* takes its steps, and nobody else touches its variables.                 *)

\* The loops' invariant survives every step of the server.
LEMMA ServerScanStep == ScanInv /\ [ServerNext]_serverVars => ScanInv'
<1> SUFFICES ASSUME ScanInv, [ServerNext]_serverVars PROVE ScanInv'
  OBVIOUS
<1>1. CASE MainCompare
  <2>1. /\ diff' \in SUBSET FramePixels
        /\ i' = 0 /\ j' = 0 /\ mod' = NoRectangle
    BY <1>1 DEF MainCompare
  <2>2. \A p \in FramePixels : p[1] \in Nat /\ p[2] \in Nat
    BY FrameAssumption DEF FramePixels
  <2>3. ScanTypeOK'
    BY <2>1, FrameAssumption DEF ScanTypeOK, NoRectangle
  <2>4. \A p \in diff' : ~Passed(p)'
    BY <2>1, <2>2 DEF Passed
  <2> QED BY <2>1, <2>3, <2>4 DEF ScanInv, Encloses, Tight
<1>2. CASE MainScan
  BY <1>2, ScanPixelKeeps, ScanRowKeeps DEF MainScan, ScanNext
<1>3. CASE UNCHANGED scanVars
  BY <1>3 DEF scanVars, ScanInv, ScanTypeOK, Encloses, Tight, Passed
<1>4. \/ MainCompare \/ MainScan \/ UNCHANGED scanVars
  BY DEF ServerNext, Main, Event, Sketch, MainWake, MainOpenKey, MainWriteKey,
         MainCloseKey, MainForgetKey, MainRead, MainReadRest, MainFirst,
         MainScanned, MainCopyPart, MainCopyRest, MainMark, Connect,
         SendUpdate, DoKey, DoKeyClose, CloseClient, SketchDraw, SketchMap,
         SketchGet, SketchClear, SketchClose, SketchSave, SketchPut, serverVars
<1> QED BY <1>1, <1>2, <1>3, <1>4

\* It holds throughout the server's life.
LEMMA ServerScanInvariant == ServerSpec => []ScanInv
<1>1. Init => ScanInv
  <2> SUFFICES ASSUME Init PROVE ScanInv
    OBVIOUS
  <2>1. ScanInit({}) /\ {} \in SUBSET FramePixels
    BY DEF Init
  <2> QED BY <2>1, ScanStart
<1> QED BY <1>1, ServerScanStep, PTL DEF ServerSpec

\* In the running server too, with a new search for every picture, modx0 and
\* mody0 are exact when the loops are through.
THEOREM ServerUpperLeft == ServerSpec => []UpperLeftExact
BY ScanFindsUpperLeft, ServerScanInvariant, PTL

\* And modx1 and mody1 are on or past the last modified column and row, at
\* most two past a modified one.
THEOREM ServerMargin == ServerSpec => []CoveredWithMargin
BY ScanFindsMargin, ServerScanInvariant, PTL

-----------------------------------------------------------------------------
(* What the client shows.  StaleIsMarked alone is not inductive: memcpy    *)
(* may only disturb the pixels the search was started for.                 *)

\* From the start of the search to the end of memcpy, diff is what the copy
\* changes in frameBuffer.
DiffCurrent ==
    /\ mainPc \in {"scan", "copy"} =>
         diff = {p \in FramePixels : pixelbuffer[p] # frameBuffer[p]}
    /\ mainPc = "copyRest" =>
         \A p \in FramePixels \ diff : pixelbuffer[p] = frameBuffer[p]

\* The inductive invariant of the picture.
PictureInv == DiffCurrent /\ StaleIsMarked

\* A step that copies, sends and marks nothing.
LEMMA PictureFrame ==
    ASSUME PictureInv,
           UNCHANGED <<diff, pixelbuffer, frameBuffer, modified, shown,
                       connected, missed>>,
           \/ mainPc' = mainPc
           \/ /\ mainPc \notin {"copyRest", "mark"}
              /\ \/ mainPc' \notin {"scan", "copy", "copyRest"}
                 \/ mainPc = "scan" /\ mainPc' = "copy"
    PROVE  PictureInv'
BY DEF PictureInv, DiffCurrent, StaleIsMarked

\* Every step of the main loop, the event thread and the sketch keeps it.
LEMMA PictureStep == PictureInv /\ [ServerNext]_serverVars => PictureInv'
<1> SUFFICES ASSUME PictureInv, [ServerNext]_serverVars PROVE PictureInv'
  OBVIOUS
<1> USE DEF PictureInv
<1>1. CASE MainRead \/ MainReadRest
  <2>1. /\ UNCHANGED <<frameBuffer, modified, shown, connected, missed, diff>>
        /\ mainPc' \in {"readRest", "exit", "compare", "first"}
        /\ mainPc \in {"read", "readRest"}
    BY <1>1 DEF MainRead, MainReadRest, scanVars
  <2> QED BY <2>1 DEF DiffCurrent, StaleIsMarked
<1>2. CASE MainFirst
  <2>1. /\ UNCHANGED <<pixelbuffer, modified, shown, connected, diff>>
        /\ mainPc \in {"first", "firstRest"} /\ mainPc' \in {"firstRest", "compare"}
        /\ connected => missed' = missed \union {p \in FramePixels : frameBuffer[p] # frameBuffer'[p]}
    BY <1>2 DEF MainFirst, scanVars
  <2> QED BY <2>1 DEF DiffCurrent, StaleIsMarked
<1>3. CASE MainCompare
  BY <1>3 DEF MainCompare, frameVars, DiffCurrent, StaleIsMarked
<1>4. CASE MainScan
  <2>1. diff' = diff
    BY <1>4 DEF MainScan, ScanNext, ScanPixel, ScanRow
  <2> QED BY <1>4, <2>1, PictureFrame DEF MainScan, pcVars, frameVars
<1>5. CASE MainCopyPart
  <2>1. PICK part \in SUBSET FramePixels : CopyPart(part)
    BY <1>5 DEF MainCopyPart
  <2>2. /\ UNCHANGED <<pixelbuffer, modified, shown, connected, missed, diff>>
        /\ mainPc = "copy" /\ mainPc' = "copyRest"
    BY <1>5 DEF MainCopyPart, scanVars
  <2>3. \A p \in FramePixels \ diff : /\ pixelbuffer[p] = frameBuffer[p]
                                     /\ frameBuffer'[p] = frameBuffer[p]
    BY <2>1, <2>2 DEF CopyPart, DiffCurrent
  <2> QED BY <2>2, <2>3 DEF DiffCurrent, StaleIsMarked
<1>6. CASE MainCopyRest
  <2>1. CopyPart(FramePixels)
    BY <1>6 DEF MainCopyRest
  <2>2. /\ UNCHANGED <<pixelbuffer, modified, shown, connected, missed, diff>>
        /\ mainPc = "copyRest" /\ mainPc' = "mark"
    BY <1>6 DEF MainCopyRest, scanVars
  <2>3. \A p \in FramePixels \ diff : frameBuffer'[p] = frameBuffer[p]
    BY <2>1, <2>2 DEF CopyPart, DiffCurrent
  <2> QED BY <2>2, <2>3 DEF DiffCurrent, StaleIsMarked
<1>7. CASE MainMark
  <2>1. /\ UNCHANGED <<pixelbuffer, frameBuffer, shown, connected, diff>>
        /\ mainPc' = "sleep"
        /\ connected => /\ modified' = modified \union MarkedBy(mod)
                        /\ missed' = missed \union (diff \ MarkedBy(mod))
    BY <1>7 DEF MainMark, scanVars
  <2> QED BY <2>1 DEF DiffCurrent, StaleIsMarked
<1>8. CASE Connect
  BY <1>8 DEF Connect, pcVars, scanVars, DiffCurrent, StaleIsMarked
<1>9. CASE SendUpdate
  <2>1. /\ UNCHANGED <<pixelbuffer, frameBuffer, connected, diff, mainPc>>
        /\ shown' = [p \in FramePixels |->
                       IF p \in modified THEN frameBuffer[p] ELSE shown[p]]
        /\ modified' = {} /\ missed' = missed \ modified
    BY <1>9 DEF SendUpdate, scanVars, pcVars
  <2> QED BY <2>1 DEF DiffCurrent, StaleIsMarked
<1>10. CASE CloseClient
  BY <1>10 DEF CloseClient, pcVars, scanVars, DiffCurrent, StaleIsMarked
<1>11. CASE MainWake \/ MainOpenKey \/ MainWriteKey \/ MainCloseKey \/ MainForgetKey
  <2>1. /\ UNCHANGED <<diff, pixelbuffer, frameBuffer, modified, shown,
                       connected, missed>>
        /\ mainPc \in {"sleep", "open", "write", "flush", "forget"}
        /\ mainPc' \in {"open", "read", "write", "flush", "forget"}
    BY <1>11 DEF MainWake, MainOpenKey, MainWriteKey, MainCloseKey,
                 MainForgetKey, scanVars, frameVars
  <2> QED BY <2>1, PictureFrame
<1>12. CASE MainScanned
  <2>1. /\ UNCHANGED <<diff, pixelbuffer, frameBuffer, modified, shown,
                       connected, missed>>
        /\ mainPc = "scan" /\ mainPc' \in {"copy", "sleep"}
    BY <1>12 DEF MainScanned, scanVars, frameVars
  <2> QED BY <2>1, PictureFrame
<1>13. CASE DoKey \/ DoKeyClose \/ Sketch \/ UNCHANGED serverVars
  <2>1. UNCHANGED <<diff, pixelbuffer, frameBuffer, modified, shown,
                    connected, missed, mainPc>>
    BY <1>13 DEF DoKey, DoKeyClose, Sketch, SketchDraw, SketchMap, SketchGet,
                 SketchClear, SketchClose, SketchSave, SketchPut, serverVars,
                 pcVars, scanVars, frameVars
  <2> QED BY <2>1, PictureFrame
<1> QED
  BY <1>1, <1>2, <1>3, <1>4, <1>5, <1>6, <1>7, <1>8, <1>9, <1>10, <1>11,
     <1>12, <1>13 DEF ServerNext, Main, Event

\* Updates sent at any moment, in the middle of memcpy too, leave no pixel of
\* the client out of date that is not marked, about to be marked, or missed by
\* the search.
THEOREM StaleMarked == ServerSpec => []StaleIsMarked
<1>1. Init => PictureInv
  BY DEF Init, PictureInv, DiffCurrent, StaleIsMarked
<1>2. PictureInv => StaleIsMarked
  BY DEF PictureInv
<1> QED BY <1>1, <1>2, PictureStep, PTL DEF ServerSpec

-----------------------------------------------------------------------------
(* The way of a key.  Four places hold keys, and a key may be copied from  *)
(* one to the next before the first forgets it.  A place is live while its *)
(* key can still move on.                                                  *)

\* The saved key, until the main loop has taken it and will clear it
LiveSaved == IF mainPc \in {"flush", "forget"} THEN 0 ELSE savedkeypress

\* The byte the main loop has written and not closed
LiveMain == IF mainPc = "flush" THEN mainKey ELSE 0

\* The byte the event thread has written and not closed
LiveEvent == IF eventPc = "flush" THEN eventKey ELSE 0

\* The byte in the file, until the sketch has read it and will clear it
LiveFile == IF sketchPc = "clear" THEN 0 ELSE keyFile

\* A key that can still reach the sketch is in no other live place and was
\* not interpreted yet.
KeyFresh(k) == k # 0 => /\ k \in 1..typed
                        /\ \A a \in DOMAIN interpreted : interpreted[a] # k

KeysApart ==
    /\ LiveSaved # 0 => LiveSaved \notin {LiveMain, LiveEvent, LiveFile}
    /\ LiveMain # 0 => LiveMain \notin {LiveEvent, LiveFile}
    /\ LiveEvent # 0 => LiveEvent # LiveFile

\* The inductive invariant of the keys.
KeyInv ==
    /\ typed \in Nat /\ interpreted \in Seq(Nat)
    /\ \A a \in DOMAIN interpreted : interpreted[a] \in 1..typed
    /\ KeyFresh(LiveSaved) /\ KeyFresh(LiveMain)
    /\ KeyFresh(LiveEvent) /\ KeyFresh(LiveFile)
    /\ KeysApart
    /\ KeyOnce

\* No key is typed yet.
LEMMA KeyInit == Init => KeyInv
BY DEF Init, KeyInv, KeyFresh, KeysApart, KeyOnce, LiveSaved, LiveMain,
       LiveEvent, LiveFile

\* A step that moves keys between live places, or drops them.
LEMMA KeyMove ==
    ASSUME KeyInv, KeysApart', UNCHANGED <<typed, interpreted>>,
           \A k \in {LiveSaved', LiveMain', LiveEvent', LiveFile'} :
              k \in {0, LiveSaved, LiveMain, LiveEvent, LiveFile}
    PROVE  KeyInv'
<1>1. \A k : KeyFresh(k)' <=> KeyFresh(k)
  BY DEF KeyFresh
<1>2. \A k \in {LiveSaved', LiveMain', LiveEvent', LiveFile'} : KeyFresh(k)
  BY DEF KeyInv, KeyFresh
<1>3. /\ KeyFresh(LiveSaved)' /\ KeyFresh(LiveMain)'
      /\ KeyFresh(LiveEvent)' /\ KeyFresh(LiveFile)'
  BY <1>2 DEF KeyFresh
<1> QED BY <1>3 DEF KeyInv, KeyOnce

\* Every step keeps the keys apart.
LEMMA KeyStep == KeyInv /\ [ServerNext]_serverVars => KeyInv'
<1> SUFFICES ASSUME KeyInv, [ServerNext]_serverVars PROVE KeyInv'
  OBVIOUS
<1>0. KeysApart
  BY DEF KeyInv
<1> USE DEF LiveSaved, LiveMain, LiveEvent, LiveFile
<1>1. CASE MainOpenKey \/ MainWriteKey \/ MainCloseKey \/ MainForgetKey
  <2>1. /\ UNCHANGED <<eventPc, sketchPc, eventKey, typed, interpreted>>
        /\ \/ /\ mainPc = "open" /\ mainPc' \in {"write", "read"}
              /\ keyFile' \in {0, keyFile}
              /\ UNCHANGED <<savedkeypress, mainKey>>
           \/ /\ mainPc = "write" /\ mainPc' = "flush"
              /\ mainKey' = savedkeypress
              /\ UNCHANGED <<savedkeypress, keyFile>>
           \/ /\ mainPc = "flush" /\ mainPc' = "forget"
              /\ keyFile' = mainKey
              /\ UNCHANGED <<savedkeypress, mainKey>>
           \/ /\ mainPc = "forget" /\ mainPc' = "read"
              /\ savedkeypress' = 0
              /\ UNCHANGED <<mainKey, keyFile>>
    BY <1>1 DEF MainOpenKey, MainWriteKey, MainCloseKey, MainForgetKey
  <2>2. KeysApart'
    BY <1>0, <2>1 DEF KeysApart
  <2>3. \A k \in {LiveSaved', LiveMain', LiveEvent', LiveFile'} :
           k \in {0, LiveSaved, LiveMain, LiveEvent, LiveFile}
    BY <2>1
  <2> QED BY <2>1, <2>2, <2>3, KeyMove
<1>2. CASE \/ MainWake \/ MainRead \/ MainReadRest \/ MainFirst \/ MainCompare
           \/ MainScan \/ MainScanned \/ MainCopyPart \/ MainCopyRest \/ MainMark
           \/ Connect \/ SendUpdate \/ CloseClient \/ SketchDraw \/ SketchMap
           \/ SketchClose \/ SketchSave \/ SketchPut \/ UNCHANGED serverVars
  <2>1. /\ UNCHANGED <<keyVars, eventPc>>
        /\ mainPc' = mainPc \/ {mainPc, mainPc'} \cap {"flush", "forget"} = {}
        /\ (sketchPc # "clear" /\ sketchPc' # "clear") \/ sketchPc' = sketchPc
    BY <1>2 DEF MainWake, MainRead, MainReadRest, MainFirst, MainCompare,
                MainScan, MainScanned, MainCopyPart, MainCopyRest, MainMark,
                Connect, SendUpdate, CloseClient, SketchDraw, SketchMap,
                SketchClose, SketchSave, SketchPut, serverVars, pcVars
  <2>2. UNCHANGED <<LiveSaved, LiveMain, LiveEvent, LiveFile, typed, interpreted>>
    BY <2>1 DEF keyVars
  <2>3. KeysApart'
    BY <1>0, <2>2 DEF KeysApart
  <2> QED BY <2>2, <2>3, KeyMove
<1>3. CASE DoKey
  <2>1. /\ UNCHANGED <<mainPc, sketchPc, mainKey, interpreted>>
        /\ typed' = typed + 1 /\ eventPc = "idle"
        /\ \/ /\ keyFile' = 0 /\ eventKey' = typed + 1
              /\ eventPc' = "flush" /\ savedkeypress' = savedkeypress
           \/ /\ savedkeypress' = typed + 1
              /\ UNCHANGED <<keyFile, eventKey, eventPc>>
    BY <1>3 DEF DoKey
  <2>2. typed \in Nat /\ typed' \in Nat /\ interpreted' = interpreted
    BY <2>1 DEF KeyInv
  <2> PICK new : new = typed + 1
    OBVIOUS
  <2>3. ASSUME NEW k, KeyFresh(k) PROVE k # new /\ KeyFresh(k)'
    BY <2>1, <2>2, <2>3 DEF KeyFresh
  <2>4. KeyFresh(new)'
    BY <2>1, <2>2 DEF KeyInv, KeyFresh
  <2>5. KeyFresh(0)'
    BY DEF KeyFresh
  <2>6. KeyFresh(LiveSaved) /\ KeyFresh(LiveMain) /\ KeyFresh(LiveEvent) /\ KeyFresh(LiveFile)
    BY DEF KeyInv
  <2>7. /\ LiveSaved' \in {0, LiveSaved, new} /\ LiveMain' = LiveMain
        /\ LiveEvent' \in {LiveEvent, new} /\ LiveFile' \in {0, LiveFile}
        /\ LiveEvent' = new => LiveSaved' = LiveSaved
    BY <2>1, <2>2
  <2>8. KeyFresh(LiveSaved)' /\ KeyFresh(LiveMain)' /\ KeyFresh(LiveEvent)' /\ KeyFresh(LiveFile)'
    <3> HIDE DEF LiveSaved, LiveMain, LiveEvent, LiveFile
    <3>1. \A k \in {LiveSaved', LiveMain', LiveEvent', LiveFile'} : KeyFresh(k)'
      BY <2>3, <2>4, <2>5, <2>6, <2>7
    <3> QED BY <3>1
  <2>9. KeysApart'
    <3>1. new \notin {LiveSaved, LiveMain, LiveEvent, LiveFile}
      BY <2>3, <2>6
    <3> HIDE DEF LiveSaved, LiveMain, LiveEvent, LiveFile
    <3> QED BY <1>0, <2>2, <2>7, <3>1 DEF KeysApart
  <2>10. /\ \A a \in DOMAIN interpreted' : interpreted'[a] \in 1..typed'
         /\ KeyOnce' /\ interpreted' \in Seq(Nat)
    BY <2>1, <2>2 DEF KeyInv, KeyOnce
  <2> QED BY <2>2, <2>8, <2>9, <2>10 DEF KeyInv
<1>4. CASE DoKeyClose
  <2>1. /\ UNCHANGED <<mainPc, sketchPc, savedkeypress, mainKey, eventKey, typed, interpreted>>
        /\ eventPc = "flush" /\ eventPc' = "idle" /\ keyFile' = eventKey
    BY <1>4 DEF DoKeyClose
  <2>2. KeysApart'
    BY <1>0, <2>1 DEF KeysApart
  <2>3. \A k \in {LiveSaved', LiveMain', LiveEvent', LiveFile'} :
           k \in {0, LiveSaved, LiveMain, LiveEvent, LiveFile}
    BY <2>1
  <2> QED BY <2>1, <2>2, <2>3, KeyMove
<1>5. CASE SketchGet
  <2>1. /\ UNCHANGED <<mainPc, eventPc, keyFile, savedkeypress, mainKey, eventKey, typed>>
        /\ sketchPc = "get" /\ sketchPc' = "clear"
        /\ interpreted' = IF keyFile # 0 THEN Append(interpreted, keyFile) ELSE interpreted
    BY <1>5 DEF SketchGet
  <2>2. /\ LiveSaved' = LiveSaved /\ LiveMain' = LiveMain
        /\ LiveEvent' = LiveEvent /\ LiveFile' = 0 /\ LiveFile = keyFile
    BY <2>1
  <2> HIDE DEF LiveSaved, LiveMain, LiveEvent, LiveFile
  <2>3. KeysApart'
    BY <1>0, <2>2 DEF KeysApart
  <2>4. CASE keyFile = 0
    BY <2>1, <2>2, <2>3, <2>4, KeyMove
  <2>5. CASE keyFile # 0
    <3>1. interpreted' = Append(interpreted, keyFile)
      BY <2>1, <2>5
    <3>2. /\ interpreted \in Seq(Nat) /\ typed \in Nat /\ keyFile \in 1..typed
          /\ \A a \in DOMAIN interpreted : interpreted[a] # keyFile
      BY <2>2, <2>5 DEF KeyInv, KeyFresh
    <3>3. /\ interpreted' \in Seq(Nat)
          /\ Len(interpreted) \in Nat
          /\ DOMAIN interpreted = 1..Len(interpreted)
          /\ DOMAIN interpreted' = 1..Len(interpreted)+1
          /\ interpreted'[Len(interpreted)+1] = keyFile
          /\ \A a \in DOMAIN interpreted : interpreted'[a] = interpreted[a]
      BY <3>1, <3>2
    <3>4. \A a \in DOMAIN interpreted' :
             a \in DOMAIN interpreted \/ a = Len(interpreted) + 1
      BY <3>3
    <3>5. ASSUME NEW k, KeyFresh(k), k = 0 \/ k # keyFile PROVE KeyFresh(k)'
      <4> SUFFICES ASSUME k # 0, NEW a \in DOMAIN interpreted'
                   PROVE  interpreted'[a] # k
        BY <2>1, <3>5 DEF KeyFresh
      <4> QED BY <3>3, <3>4, <3>5 DEF KeyFresh
    <3>6. KeyFresh(LiveSaved)' /\ KeyFresh(LiveMain)' /\ KeyFresh(LiveEvent)' /\ KeyFresh(LiveFile)'
      <4>1. \A k \in {LiveSaved, LiveMain, LiveEvent} : KeyFresh(k) /\ (k = 0 \/ k # keyFile)
        BY <1>0, <2>2 DEF KeyInv, KeysApart
      <4>2. \A k \in {LiveSaved, LiveMain, LiveEvent, 0} : KeyFresh(k)'
        <5>1. KeyFresh(0)'
          BY DEF KeyFresh
        <5> QED BY <3>5, <4>1, <5>1
      <4>3. \A k \in {LiveSaved', LiveMain', LiveEvent', LiveFile'} : KeyFresh(k)'
        BY <2>2, <4>2
      <4> QED BY <4>3
    <3>7. KeyOnce'
      BY <3>2, <3>3, <3>4 DEF KeyInv, KeyOnce
    <3>8. \A a \in DOMAIN interpreted' : interpreted'[a] \in 1..typed'
      BY <2>1, <3>2, <3>3, <3>4 DEF KeyInv
    <3> QED BY <2>1, <2>3, <3>2, <3>3, <3>6, <3>7, <3>8 DEF KeyInv
  <2> QED BY <2>4, <2>5
<1>6. CASE SketchClear
  <2>1. /\ UNCHANGED <<mainPc, eventPc, savedkeypress, mainKey, eventKey, typed, interpreted>>
        /\ sketchPc = "clear" /\ sketchPc' = "close" /\ keyFile' = 0
    BY <1>6 DEF SketchClear
  <2>2. KeysApart'
    BY <1>0, <2>1 DEF KeysApart
  <2>3. \A k \in {LiveSaved', LiveMain', LiveEvent', LiveFile'} :
           k \in {0, LiveSaved, LiveMain, LiveEvent, LiveFile}
    BY <2>1
  <2> QED BY <2>1, <2>2, <2>3, KeyMove
<1> QED
  BY <1>1, <1>2, <1>3, <1>4, <1>5, <1>6 DEF ServerNext, Main, Event, Sketch

\* However the main loop's retries, the event thread and the sketch
\* interleave on vncinput.bin, no key press is interpreted twice.
THEOREM KeyInterpretedOnce == ServerSpec => []KeyOnce
<1>1. KeyInv => KeyOnce
  BY DEF KeyInv
<1> QED BY <1>1, KeyInit, KeyStep, PTL DEF ServerSpec
=============================================================================
