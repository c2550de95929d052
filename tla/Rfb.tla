--------------------------------- MODULE Rfb ---------------------------------
(***************************************************************************)
(* The server's side of the RFB protocol (external: libvncserver, used by  *)
(* FrameServer): what an update looks like on the wire, and the picture it *)
(* stands for.                                                             *)
(*                                                                         *)
(* An update is a sequence of rectangles                                   *)
(*   [x, y, w, h, enc, pixels, source, tiles]                              *)
(* with enc 0 raw: its pixels row by row; 1 CopyRect: the corner source    *)
(* from which it is copied; 5 hextile; any other one without data.         *)
(* A hextile rectangle has its tiles row by row, each one                  *)
(*   [raw, bg, fg, coloured, subs]                                         *)
(* where raw is the sequence of pixels of a raw tile and <<>> otherwise,   *)
(* bg and fg are colours or None, and subs are subrectangles [x, y, w, h,  *)
(* c] relative to the tile.                                                *)
(***************************************************************************)
EXTENDS Integers, Sequences, SequencesExt

CONSTANT TileSize          \* 16 in RFB

None == -1

Word(n) == <<n \div 256, n % 256>>
PixelBytes(c) == IF c = None THEN <<>> ELSE <<c % 256, c \div 256>>
Zeros(n) == [i \in 1..n |-> 0]

\* "RFB 003.003\n"
ProtocolVersion == <<82, 70, 66, 32, 48, 48, 51, 46, 48, 48, 51, 10>>

SubrectEncoding(t, s) ==
    (IF t.coloured THEN PixelBytes(s.c) ELSE <<>>)
      \o <<16 * s.x + s.y, 16 * (s.w - 1) + (s.h - 1)>>

Subencoding(t) ==
    (IF t.raw # <<>> THEN 1 ELSE 0) + (IF t.bg # None THEN 2 ELSE 0)
      + (IF t.fg # None THEN 4 ELSE 0) + (IF t.subs # <<>> THEN 8 ELSE 0)
      + (IF t.coloured THEN 16 ELSE 0)

TileEncoding(t) ==
    IF t.raw # <<>>
      THEN <<1>> \o FlattenSeq([i \in DOMAIN t.raw |-> PixelBytes(t.raw[i])])
      ELSE <<Subencoding(t)>> \o PixelBytes(t.bg) \o PixelBytes(t.fg)
             \o (IF t.subs = <<>> THEN <<>> ELSE <<Len(t.subs)>>)
             \o FlattenSeq([i \in DOMAIN t.subs |-> SubrectEncoding(t, t.subs[i])])

RectEncoding(r) ==
    Word(r.x) \o Word(r.y) \o Word(r.w) \o Word(r.h)
      \o Word(r.enc \div 65536) \o Word(r.enc % 65536)
      \o CASE r.enc = 0 -> FlattenSeq([i \in DOMAIN r.pixels |-> PixelBytes(r.pixels[i])])
           [] r.enc = 1 -> Word(r.source[1]) \o Word(r.source[2])
           [] r.enc = 5 -> FlattenSeq([i \in DOMAIN r.tiles |-> TileEncoding(r.tiles[i])])
           [] OTHER -> <<>>

\* FramebufferUpdate
UpdateEncoding(u) ==
    <<0, 0>> \o Word(Len(u)) \o FlattenSeq([i \in DOMAIN u |-> RectEncoding(u[i])])

-----------------------------------------------------------------------------
(* What RFB asks of an update *)

\* A pixel has two bytes
MaxPixel == 65535
Pixel == 0..MaxPixel
Subrects == [x : 0 .. TileSize - 1, y : 0 .. TileSize - 1, w : 1..TileSize, h : 1..TileSize,
             c : Pixel \union {None}]
Tiles == [raw : Seq(Pixel), bg : Pixel \union {None}, fg : Pixel \union {None},
          coloured : BOOLEAN, subs : Seq(Subrects)]
Rectangles == [x : Nat, y : Nat, w : Nat, h : Nat, enc : Nat, pixels : Seq(Pixel),
               source : Nat \X Nat, tiles : Seq(Tiles)]

TilesAcross(r) == (r.w + TileSize - 1) \div TileSize
TilesDown(r) == (r.h + TileSize - 1) \div TileSize

\* The tiles are numbered row by row; those at the end of a row and of a column
\* are as large as what is left of the rectangle
TileNumber(r, col, row) == 1 + row * TilesAcross(r) + col
Side(n, i) == IF n - i * TileSize < TileSize THEN n - i * TileSize ELSE TileSize

\* A raw tile has pixels and nothing else; a coloured subrectangle has a colour
WellFormedTile(t) ==
    /\ t.raw # <<>> => t.bg = None /\ t.fg = None /\ ~t.coloured /\ t.subs = <<>>
    /\ t.coloured => \A n \in 1..Len(t.subs) : t.subs[n].c # None

\* One of the first k tiles of r gives field f (bg or fg) a colour
Given(r, k, f) == \E i \in 1..k : r.tiles[i][f] # None

\* A raw rectangle has all its pixels; a hextile rectangle is not empty, it has
\* all its tiles, a raw tile all its pixels, and any other tile the colours it is
\* drawn with, its own or those of a tile before it.  (No pixel is further from
\* the origin than an int reaches.)
WellFormedRectangle(r) ==
    /\ r.x + r.w <= 32767 /\ r.y + r.h <= 32767
    /\ r.enc = 0 => Len(r.pixels) = r.w * r.h
    /\ \A n \in 1..Len(r.tiles) : WellFormedTile(r.tiles[n])
    /\ r.enc = 5 =>
         /\ r.w > 0 /\ r.h > 0
         /\ Len(r.tiles) = TilesAcross(r) * TilesDown(r)
         /\ \A col \in 0 .. TilesAcross(r) - 1, row \in 0 .. TilesDown(r) - 1 :
              LET raw == r.tiles[TileNumber(r, col, row)].raw
              IN raw # <<>> => Len(raw) = Side(r.w, col) * Side(r.h, row)
         /\ \A n \in 1..Len(r.tiles) :
              LET t == r.tiles[n]
              IN t.raw = <<>> => /\ Given(r, n, "bg")
                                 /\ t.subs # <<>> /\ ~t.coloured => Given(r, n, "fg")

WellFormedUpdate(u) ==
    u \in Seq(Rectangles) /\ \A i \in 1..Len(u) : WellFormedRectangle(u[i])

\* Raw, which a server may always use, or an encoding the client announces
\* (CopyRect and hextile); subrectangles inside their tile
LawfulUpdate(u) ==
    \A i \in DOMAIN u :
      /\ u[i].enc \in {0, 1, 5}
      /\ \A k \in DOMAIN u[i].tiles : \A n \in DOMAIN u[i].tiles[k].subs :
           LET s == u[i].tiles[k].subs[n]
           IN s.x + s.w <= TileSize /\ s.y + s.h <= TileSize

-----------------------------------------------------------------------------
(* The picture *)

\* The number of the tile of r that pixel p is in, and p's place in the tile
TileOf(r, p) ==
    1 + ((p[2] - r.y) \div TileSize) * TilesAcross(r) + ((p[1] - r.x) \div TileSize)
InTile(r, p) == <<(p[1] - r.x) % TileSize, (p[2] - r.y) % TileSize>>

\* The last tile up to k that gives field f (bg or fg) a colour
LastGiven(r, k, f) ==
    LET given == {i \in 1..k : r.tiles[i][f] # None}
    IN r.tiles[CHOOSE i \in given : \A j \in given : j <= i][f]

Covers(s, q) == q[1] \in s.x .. s.x + s.w - 1 /\ q[2] \in s.y .. s.y + s.h - 1

\* What a hextile rectangle shows at p: the last subrectangle over it, or the
\* background, where both colours carry over from earlier tiles
HextileColour(r, p) ==
    LET k == TileOf(r, p)
        t == r.tiles[k]
        q == InTile(r, p)
        over == {i \in DOMAIN t.subs : Covers(t.subs[i], q)}
        top == CHOOSE i \in over : \A j \in over : j <= i
        left == p[1] - q[1]
        tileW == IF r.x + r.w - left < TileSize THEN r.x + r.w - left ELSE TileSize
    IN IF t.raw # <<>> THEN t.raw[1 + q[2] * tileW + q[1]]
       ELSE IF over = {} THEN LastGiven(r, k, "bg")
       ELSE IF t.coloured THEN t.subs[top].c ELSE LastGiven(r, k, "fg")

\* p is a pixel of rectangle r
Inside(r, p) == p[1] \in r.x .. r.x + r.w - 1 /\ p[2] \in r.y .. r.y + r.h - 1

\* The picture after rectangle r.  What lies outside pic cannot be copied into it.
Painted(pic, r) ==
    [p \in DOMAIN pic |->
       IF ~Inside(r, p) THEN pic[p]
       ELSE CASE r.enc = 0 -> r.pixels[1 + (p[2] - r.y) * r.w + (p[1] - r.x)]
              [] r.enc = 1 -> pic[<<r.source[1] + p[1] - r.x, r.source[2] + p[2] - r.y>>]
              [] r.enc = 5 -> HextileColour(r, p)
              [] OTHER -> pic[p]]
=============================================================================
