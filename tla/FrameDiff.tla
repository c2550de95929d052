------------------------------ MODULE FrameDiff ------------------------------
(***************************************************************************)
(* The search FrameServer/frameserver.c makes for the rectangle to send:   *)
(* two nested loops over the frame that widen modx0..mody1 at each pixel   *)
(* that differs from what the clients have.  One step is one round of a    *)
(* loop.                                                                   *)
(***************************************************************************)
EXTENDS Integers

CONSTANTS maxx, maxy

ASSUME FrameAssumption == maxx \in Nat \ {0} /\ maxy \in Nat \ {0}

VARIABLES
    diff,     \* the pixels in which pixelbuffer and frameBuffer differ
    i, j,     \* the loop counters
    mod       \* modx0, modx1, mody0, mody1

scanVars == <<diff, i, j, mod>>

FramePixels == (0..maxx-1) \X (0..maxy-1)
NoRectangle == [x0 |-> -1, x1 |-> -1, y0 |-> -1, y1 |-> -1]

ScanInit(modified) ==
    /\ diff = modified
    /\ i = 0 /\ j = 0
    /\ mod = NoRectangle

\* Mutant: the first modified pixel is not told from the others
GrowFromStart(m, x, y) ==
    [x0 |-> IF x < m.x0 THEN x ELSE m.x0,
     x1 |-> IF x > m.x1 THEN x + 2 ELSE m.x1,
     y0 |-> IF y < m.y0 THEN y ELSE m.y0,
     y1 |-> IF y > m.y1 THEN y + 2 ELSE m.y1]

\* Mutant: the margin is three wide
GrowWide(m, x, y) ==
    [x0 |-> IF m.x0 < 0 \/ x < m.x0 THEN x ELSE m.x0,
     x1 |-> IF x > m.x1 THEN x + 3 ELSE m.x1,
     y0 |-> IF m.y0 < 0 \/ y < m.y0 THEN y ELSE m.y0,
     y1 |-> IF y > m.y1 THEN y + 3 ELSE m.y1]

\* What one modified pixel does to the rectangle
Grow(m, x, y) ==
    [x0 |-> IF m.x0 < 0 \/ x < m.x0 THEN x ELSE m.x0,
     x1 |-> IF x > m.x1 THEN x + 2 ELSE m.x1,
     y0 |-> IF m.y0 < 0 \/ y < m.y0 THEN y ELSE m.y0,
     y1 |-> IF y > m.y1 THEN y + 2 ELSE m.y1]

\* Mutant: the last column is left out
ScanPixelShort ==
    /\ j < maxy /\ i < maxx
    /\ mod' = IF <<i, j>> \in diff /\ i < maxx - 1 THEN Grow(mod, i, j) ELSE mod
    /\ i' = i + 1
    /\ UNCHANGED <<diff, j>>

ScanPixel ==
    /\ j < maxy /\ i < maxx
    /\ mod' = IF <<i, j>> \in diff THEN Grow(mod, i, j) ELSE mod
    /\ i' = i + 1
    /\ UNCHANGED <<diff, j>>

ScanRow ==
    /\ j < maxy /\ i = maxx
    /\ i' = 0 /\ j' = j + 1
    /\ UNCHANGED <<diff, mod>>

ScanDone == j = maxy

ScanNext == ScanPixel \/ ScanRow

\* The search over any set of modified pixels
ScanSpec ==
    /\ \E D \in SUBSET FramePixels : ScanInit(D)
    /\ [][ScanNext]_scanVars

\* The pixels rfbMarkRectAsModified takes a rectangle for: its right and
\* bottom sides are exclusive
MarkedBy(m) == {p \in FramePixels : /\ m.x0 <= p[1] /\ p[1] < m.x1
                                    /\ m.y0 <= p[2] /\ p[2] < m.y1}

-----------------------------------------------------------------------------
(* Properties *)

\* The counters stay in the frame and the rectangle within two of it.
ScanTypeOK ==
    /\ diff \in SUBSET FramePixels
    /\ i \in 0..maxx /\ j \in 0..maxy
    /\ mod \in [x0 : -1 .. maxx - 1, x1 : -1 .. maxx + 1,
                y0 : -1 .. maxy - 1, y1 : -1 .. maxy + 1]

\* The upper left corner is that of the smallest rectangle around the
\* modified pixels, and there is one exactly if a pixel is modified.
UpperLeftExact ==
    ScanDone =>
      \/ diff = {} /\ mod = NoRectangle
      \/ /\ \A p \in diff : mod.x0 <= p[1] /\ mod.y0 <= p[2]
         /\ \E p \in diff : p[1] = mod.x0
         /\ \E p \in diff : p[2] = mod.y0

\* The lower right corner is past or on the last modified column and row, and
\* at most two past a modified one: grown by one column and one row, the
\* rectangle covers every modified pixel.
CoveredWithMargin ==
    ScanDone /\ diff # {} =>
      /\ \A p \in diff : p[1] <= mod.x1 /\ p[2] <= mod.y1
      /\ \E p \in diff : p[1] + 2 = mod.x1
      /\ \E p \in diff : p[2] + 2 = mod.y1

\* The rectangle that is marked covers all the modified pixels
\* (frameserver.c: "find the smallest (single) rectangle that covers all the
\* modified pixels").
CoversModified == ScanDone => diff \subseteq MarkedBy(mod)
=============================================================================
