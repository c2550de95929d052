-------------------------- MODULE VncFramingProofs --------------------------
(***************************************************************************)
(* The client never loses its place in the server's stream, and draws what *)
(* it parses: however the bytes are cut into pieces on their way through   *)
(* the USB endpoint and vncBuffer, it looks for a message exactly where    *)
(* the server began one, and between two messages the display shows what   *)
(* RFB makes of the updates parsed, but for the pixels last sent in a form *)
(* that the client does not draw.                                          *)
(*                                                                         *)
(* The walk: a client that has parsed the first o bytes of an update that  *)
(* is drawn over picture pic is in a state that InUpdate(pic, o, u) allows *)
(* (where it is, what it has still to take, what the display shows), and   *)
(* every call of pixelProcessor takes it to such a state for the bytes it  *)
(* has then parsed.  The stream: Framing ties the client's place and the   *)
(* picture to the messages that are under way, whatever else happens.      *)
(* The picture: OnScreen is what the client makes of the updates, Expected *)
(* of VncSystem what RFB makes of them and which pixels are stale; the two *)
(* are Alike after every rectangle, and so after every update.             *)
(***************************************************************************)
EXTENDS VncTileProofs

-----------------------------------------------------------------------------
(* The client's walk through the bytes of a rectangle *)

\* What the buffer holds of the whole it holds of a piece.
LEMMA FrontPiece ==
    ASSUME TypeOK, NEW whole \in Seq(Int), NEW piece \in Seq(Int), NEW o \in Nat, NEW at \in Nat,
           at <= o, at + Len(piece) <= Len(whole),
           \A j \in 1..Len(piece) : whole[at + j] = piece[j],
           Front(o, whole)
    PROVE  Front(o - at, piece)
<1>1. Len(buf) \in Nat /\ Len(whole) \in Nat /\ Len(piece) \in Nat
  BY LenProperties DEF TypeOK
<1> SUFFICES ASSUME NEW i \in 1..Len(buf), (o - at) + i <= Len(piece)
             PROVE  buf[i] = piece[(o - at) + i]
  BY DEF Front
<1>2. (o - at) + i \in 1..Len(piece) /\ at + ((o - at) + i) = o + i /\ o + i <= Len(whole)
  <2>1. o \in Int /\ at \in Int /\ i \in Int /\ i >= 1 /\ o - at >= 0 /\ (o - at) + i <= Len(piece)
    BY <1>1
  <2>2. at + Len(piece) <= Len(whole)
    OBVIOUS
  <2> QED
    BY ONLY <1>1, <2>1, <2>2
<1>3. whole[at + ((o - at) + i)] = piece[(o - at) + i]
  BY <1>2
<1>4. buf[i] = whole[o + i]
  BY <1>2 DEF Front
<1> QED
  BY <1>2, <1>3, <1>4

\* The window of the update is that of rectangle r.
WindowIs(r) ==
    updateWindow = [x0 |-> r.x, y0 |-> r.y, x1 |-> r.x + r.w, y1 |-> r.y + r.h]

\* The client has parsed o bytes of the hextile rectangle r, the last of them
\* of the tile in column col and row row, and drawn what they say over pic.
AtTile(pic, o, r, col, row) ==
    LET n == Rfb!TileNumber(r, col, row)
    IN  /\ TileIs(r, col, row)
        /\ o - TileAt(r, n) \in Nat /\ InTile(o - TileAt(r, n), r.tiles[n])
        /\ Drawn(pic, r, col, row)

InHextile(pic, o, r) ==
    \/ hextileState = "INIT" /\ o = 12 /\ screen = pic
    \/ \E col \in 0 .. Count(r.w) - 1, row \in 0 .. Count(r.h) - 1 : AtTile(pic, o, r, col, row)

\* The first tile.
LEMMA FirstTile ==
    ASSUME TypeOK, NEW r \in Rfb!Rectangles, Rfb!WellFormedRectangle(r), r.enc = 5,
           WindowIs(r), NEW pic, IsPicture(pic), screen = pic, HextileInit
    PROVE  AtTile(pic, 12, r, 0, 0)' /\ 0 \in 0 .. Count(r.w) - 1 /\ 0 \in 0 .. Count(r.h) - 1
<1>1. r.x \in Nat /\ r.y \in Nat /\ r.w \in Nat /\ r.h \in Nat
  BY RectTypes
<1>2. r.w > 0 /\ r.h > 0 /\ r.x + r.w <= 32767 /\ r.y + r.h <= 32767
  BY DEF Rfb!WellFormedRectangle
<1>3. 0 \in 0 .. Count(r.w) - 1 /\ 0 \in 0 .. Count(r.h) - 1
  <2>1. \A m \in Nat : m > 0 => Count(m) \in Nat /\ Count(m) >= 1
    BY CountCovers
  <2> QED
    BY <1>1, <1>2, <2>1
<1>4. TileSide(r.x + 0 * Tile, r.x + r.w) = Rfb!Side(r.w, 0)
  BY <1>1, <1>2, <1>3, SideCut
<1>5. TileSide(r.y + 0 * Tile, r.y + r.h) = Rfb!Side(r.h, 0)
  BY <1>1, <1>2, <1>3, SideCut
<1>6. r.x + 0 * Tile = r.x /\ r.y + 0 * Tile = r.y
  BY <1>1, TileAssumption
<1>7. tile' = [x |-> r.x, y |-> r.y, w |-> TileSide(r.x, r.x + r.w), h |-> TileSide(r.y, r.y + r.h)]
  BY DEF HextileInit, WindowIs
<1>8. TileIs(r, 0, 0)'
  BY <1>4, <1>5, <1>6, <1>7 DEF TileIs
<1>9. Rfb!TileNumber(r, 0, 0) = 1
  <2>1. Rfb!TilesAcross(r) \in Nat
    BY <1>1, <1>2, CountCovers DEF Count, Rfb!TilesAcross
  <2> QED
    BY <2>1 DEF Rfb!TileNumber
<1>10. TileAt(r, 1) = 12
  BY TilePlaces
<1>11. hextileState' = "PARSEHEADER"
  BY DEF HextileInit
<1>12. InTile(12 - TileAt(r, 1), r.tiles[1])' /\ 12 - TileAt(r, 1) \in Nat
  BY <1>10, <1>11 DEF InTile
<1>13. Drawn(pic, r, 0, 0)'
  <2>1. screen' = UpTo(pic, r, 0)
    BY UpToNone DEF HextileInit, lcdVars
  <2>2. ~Rfb!Given(r, 0, "bg") /\ ~Rfb!Given(r, 0, "fg")
    BY DEF Rfb!Given
  <2>3. Colours(r, 0)'
    BY <2>2 DEF Colours
  <2>4. Rfb!TileNumber(r, 0, 0) - 1 = 0
    BY <1>9
  <2> QED
    BY <1>11, <2>1, <2>3, <2>4 DEF Drawn
<1> QED
  BY <1>3, <1>8, <1>9, <1>12, <1>13 DEF AtTile

\* Whether the tile is the last one of a row or of a column.
LEMMA LastOnes ==
    ASSUME TypeOK, NEW r \in Rfb!Rectangles, Rfb!WellFormedRectangle(r), r.enc = 5, WindowIs(r),
           NEW col \in 0 .. Count(r.w) - 1, NEW row \in 0 .. Count(r.h) - 1, TileIs(r, col, row)
    PROVE  /\ LastColumn <=> col = Count(r.w) - 1
           /\ LastRow <=> row = Count(r.h) - 1
           /\ ~LastColumn => /\ Uint(tile.x + tile.w) = r.x + (col + 1) * Tile
                             /\ col + 1 \in 0 .. Count(r.w) - 1
                             /\ TileSide(r.x + (col + 1) * Tile, r.x + r.w) = Rfb!Side(r.w, col + 1)
           /\ ~LastRow => /\ Uint(tile.y + tile.h) = r.y + (row + 1) * Tile
                          /\ row + 1 \in 0 .. Count(r.h) - 1
                          /\ TileSide(r.y + (row + 1) * Tile, r.y + r.h) = Rfb!Side(r.h, row + 1)
<1>1. r.x \in Nat /\ r.y \in Nat /\ r.w \in Nat /\ r.h \in Nat
  BY RectTypes
<1>2. r.w > 0 /\ r.h > 0 /\ r.x + r.w <= 32767 /\ r.y + r.h <= 32767
  BY DEF Rfb!WellFormedRectangle
<1>3. /\ tile.x = r.x + col * Tile /\ tile.w = Rfb!Side(r.w, col)
      /\ tile.y = r.y + row * Tile /\ tile.h = Rfb!Side(r.h, row)
  BY DEF TileIs
<1>4. LastColumn <=> Uint(tile.x + tile.w) = r.x + r.w
  BY DEF LastColumn, WindowIs
<1>5. LastRow <=> Uint(tile.y + tile.h) = r.y + r.h
  BY DEF LastRow, WindowIs
<1>6. /\ col = Count(r.w) - 1 => Uint(tile.x + tile.w) = r.x + r.w
      /\ col # Count(r.w) - 1 => /\ Uint(tile.x + tile.w) = r.x + (col + 1) * Tile
                                 /\ Uint(tile.x + tile.w) # r.x + r.w
                                 /\ col + 1 \in 0 .. Count(r.w) - 1
  BY <1>1, <1>2, <1>3, SideCut
<1>7. /\ row = Count(r.h) - 1 => Uint(tile.y + tile.h) = r.y + r.h
      /\ row # Count(r.h) - 1 => /\ Uint(tile.y + tile.h) = r.y + (row + 1) * Tile
                                 /\ Uint(tile.y + tile.h) # r.y + r.h
                                 /\ row + 1 \in 0 .. Count(r.h) - 1
  BY <1>1, <1>2, <1>3, SideCut
<1>8. ASSUME col + 1 \in 0 .. Count(r.w) - 1
      PROVE  TileSide(r.x + (col + 1) * Tile, r.x + r.w) = Rfb!Side(r.w, col + 1)
  BY <1>1, <1>2, <1>8, SideCut
<1>9. ASSUME row + 1 \in 0 .. Count(r.h) - 1
      PROVE  TileSide(r.y + (row + 1) * Tile, r.y + r.h) = Rfb!Side(r.h, row + 1)
  BY <1>1, <1>2, <1>9, SideCut
<1> QED
  BY <1>4, <1>5, <1>6, <1>7, <1>8, <1>9

\* From one tile to the next.
LEMMA NextTile ==
    ASSUME TypeOK, NEW r \in Rfb!Rectangles, Rfb!WellFormedRectangle(r), r.enc = 5, WindowIs(r),
           NEW o \in Nat, NEW col \in 0 .. Count(r.w) - 1, NEW row \in 0 .. Count(r.h) - 1,
           NEW pic, AtTile(pic, o, r, col, row), HextileNextTile
    PROVE  \E c \in 0 .. Count(r.w) - 1, w \in 0 .. Count(r.h) - 1 : AtTile(pic, o, r, c, w)'
<1> DEFINE n == Rfb!TileNumber(r, col, row)
<1>0. r.x \in Nat /\ r.y \in Nat /\ r.w \in Nat /\ r.h \in Nat
  BY RectTypes
<1>1. r.w > 0 /\ r.h > 0 /\ r.x + r.w <= 32767 /\ r.y + r.h <= 32767
  BY DEF Rfb!WellFormedRectangle
<1>2. TileIs(r, col, row) /\ InTile(o - TileAt(r, n), r.tiles[n])
  BY DEF AtTile
<1>3. /\ n \in 1..Len(r.tiles)
      /\ Rfb!TileNumber(r, col + 1, row) = n + 1
      /\ col = Count(r.w) - 1 => Rfb!TileNumber(r, 0, row + 1) = n + 1
  BY TileInRect
<1> HIDE DEF n
<1>4. hextileState = "DONE" /\ hextileState' = "PARSEHEADER" /\ ~(LastColumn /\ LastRow)
  BY DEF HextileNextTile, HextileProcessing
<1>5. o - TileAt(r, n) = TileLength(r.tiles[n])
  BY <1>2, <1>4 DEF InTile
<1>6. o = TileAt(r, n + 1) /\ TileAt(r, n + 1) \in Nat
  <2>1. /\ TileAt(r, n) \in Nat /\ TileLength(r.tiles[n]) \in Nat
        /\ TileAt(r, n + 1) = TileAt(r, n) + TileLength(r.tiles[n])
    <3>1. Len(r.tiles) \in Nat
      BY RectTypes
    <3>2. n \in 1..(Len(r.tiles) + 1)
      BY <1>3, <3>1
    <3> QED
      BY <1>3, <3>2, TilePlaces
  <2> QED
    BY <1>5, <2>1
<1>7. o - TileAt(r, n + 1) = 0
  BY <1>6
<1>8. o - TileAt(r, n + 1) \in Nat /\ InTile(o - TileAt(r, n + 1), r.tiles[n + 1])'
  BY <1>4, <1>7 DEF InTile
<1>9. ASSUME NEW c, NEW w, Rfb!TileNumber(r, c, w) = n + 1 PROVE Drawn(pic, r, c, w)'
  <2>1. screen = UpTo(pic, r, n) /\ Colours(r, n)
    BY <1>4 DEF AtTile, Drawn, n
  <2>2. hex' = hex /\ screen' = screen
    BY DEF HextileNextTile, lcdVars
  <2>3. (n + 1) - 1 = n
    BY <1>3
  <2>4. Colours(r, n)'
    BY <2>1, <2>2 DEF Colours
  <2> QED
    BY <1>4, <1>9, <2>1, <2>2, <2>3, <2>4 DEF Drawn
<1>10. /\ tile.x = r.x + col * Tile /\ tile.w = Rfb!Side(r.w, col)
      /\ tile.y = r.y + row * Tile /\ tile.h = Rfb!Side(r.h, row)
      /\ updateWindow.x0 = r.x /\ updateWindow.x1 = r.x + r.w /\ updateWindow.y1 = r.y + r.h
  BY <1>2 DEF TileIs, WindowIs
<1>11. CASE ~LastColumn
  <2>1. /\ Uint(tile.x + tile.w) = r.x + (col + 1) * Tile
        /\ col + 1 \in 0 .. Count(r.w) - 1
        /\ TileSide(r.x + (col + 1) * Tile, r.x + r.w) = Rfb!Side(r.w, col + 1)
    BY <1>2, <1>11, LastOnes
  <2>2. tile' = [x |-> Uint(tile.x + tile.w), y |-> tile.y,
                 w |-> TileSide(Uint(tile.x + tile.w), updateWindow.x1), h |-> tile.h]
    BY <1>11 DEF HextileNextTile
  <2>3. TileIs(r, col + 1, row)'
    BY <1>10, <2>1, <2>2 DEF TileIs
  <2>4. AtTile(pic, o, r, col + 1, row)'
    BY <1>3, <1>8, <1>9, <2>3 DEF AtTile
  <2> QED
    BY <2>1, <2>4
<1>12. CASE LastColumn
  <2>0. ~LastRow
    BY <1>4, <1>12
  <2>1. /\ Uint(tile.y + tile.h) = r.y + (row + 1) * Tile
        /\ row + 1 \in 0 .. Count(r.h) - 1
        /\ TileSide(r.y + (row + 1) * Tile, r.y + r.h) = Rfb!Side(r.h, row + 1)
        /\ col = Count(r.w) - 1
    BY <1>2, <1>12, <2>0, LastOnes
  <2>2. tile' = [x |-> updateWindow.x0, y |-> Uint(tile.y + tile.h),
                 w |-> TileSide(updateWindow.x0, updateWindow.x1),
                 h |-> TileSide(Uint(tile.y + tile.h), updateWindow.y1)]
    BY <1>12 DEF HextileNextTile
  <2>3. 0 \in 0 .. Count(r.w) - 1
    <3>1. Count(r.w) \in Nat /\ Count(r.w) >= 1
      BY <1>0, <1>1, CountCovers
    <3> QED
      BY <3>1
  <2>4. TileSide(r.x + 0 * Tile, r.x + r.w) = Rfb!Side(r.w, 0)
    BY <1>0, <1>1, <2>3, SideCut
  <2>5. r.x + 0 * Tile = r.x
    BY <1>0, TileAssumption
  <2>6. TileIs(r, 0, row + 1)'
    BY <1>10, <2>1, <2>2, <2>4, <2>5 DEF TileIs
  <2>7. AtTile(pic, o, r, 0, row + 1)'
    BY <1>3, <1>8, <1>9, <2>1, <2>6 DEF AtTile
  <2> QED
    BY <2>1, <2>3, <2>7
<1> QED
  BY <1>11, <1>12

\* The last tile ends where the rectangle does.
LEMMA LastTile ==
    ASSUME TypeOK, NEW r \in Rfb!Rectangles, Rfb!WellFormedRectangle(r), r.enc = 5, WindowIs(r),
           NEW o \in Nat, NEW col \in 0 .. Count(r.w) - 1, NEW row \in 0 .. Count(r.h) - 1,
           NEW pic, IsPicture(pic), AtTile(pic, o, r, col, row), HextileLastTile
    PROVE  o = RectLength(r) /\ screen' = Decoded(pic, r)
<1> DEFINE n == Rfb!TileNumber(r, col, row)
<1>1. hextileState = "DONE" /\ LastColumn /\ LastRow
  BY DEF HextileLastTile, HextileProcessing
<1>2. TileIs(r, col, row) /\ InTile(o - TileAt(r, n), r.tiles[n])
  BY DEF AtTile
<1>3. col = Count(r.w) - 1 /\ row = Count(r.h) - 1
  BY <1>1, <1>2, LastOnes
<1>4. n \in 1..Len(r.tiles) /\ n = Len(r.tiles)
  BY <1>3, TileInRect
<1> HIDE DEF n
<1>5. o - TileAt(r, n) = TileLength(r.tiles[n])
  BY <1>1, <1>2 DEF InTile
<1>6. Len(r.tiles) \in Nat
  BY RectTypes
<1>7. /\ TileAt(r, n) \in Nat /\ TileLength(r.tiles[n]) \in Nat
      /\ TileAt(r, n + 1) = TileAt(r, n) + TileLength(r.tiles[n])
      /\ TileAt(r, n + 1) = RectLength(r)
  <2>1. n \in 1..(Len(r.tiles) + 1)
    BY <1>4, <1>6
  <2> QED
    BY <1>4, <2>1, TilePlaces
<1>8. screen' = UpTo(pic, r, Len(r.tiles))
  BY <1>1, <1>4 DEF AtTile, Drawn, HextileLastTile, lcdVars, n
<1>9. screen' = Decoded(pic, r)
  BY <1>8, UpToAll
<1> QED
  BY <1>5, <1>7, <1>9

\* What the buffer holds of the tile that the client is at.
LEMMA FrontTile ==
    ASSUME TypeOK, NEW r \in Rfb!Rectangles, Rfb!WellFormedRectangle(r), r.enc = 5,
           NEW o \in Nat, NEW col \in 0 .. Count(r.w) - 1, NEW row \in 0 .. Count(r.h) - 1,
           NEW pic, AtTile(pic, o, r, col, row), Front(o, Rfb!RectEncoding(r)),
           NEW n, n = Rfb!TileNumber(r, col, row), NEW t, t = r.tiles[n]
    PROVE  /\ n \in 1..Len(r.tiles) /\ TileAt(r, n) \in Nat
           /\ t \in Rfb!Tiles /\ Rfb!WellFormedTile(t) /\ SameSize(t)
           /\ o - TileAt(r, n) \in Nat /\ InTile(o - TileAt(r, n), t)
           /\ Front(o - TileAt(r, n), Rfb!TileEncoding(t))
<1> DEFINE at == TileAt(r, n)
<1>1. TileIs(r, col, row) /\ o - at \in Nat /\ InTile(o - at, t) /\ Drawn(pic, r, col, row)
  BY DEF AtTile
<1>2. n \in 1..Len(r.tiles) /\ t \in Rfb!Tiles /\ Rfb!WellFormedTile(t) /\ SameSize(t)
  BY <1>1, TileInRect
<1>3. Len(r.tiles) \in Nat
  BY RectTypes
<1>4. n \in 1..(Len(r.tiles) + 1)
  BY <1>2, <1>3
<1>5. /\ at \in Nat /\ TileLength(t) \in Nat /\ at + TileLength(t) <= RectLength(r)
      /\ \A j \in 1..TileLength(t) : Rfb!RectEncoding(r)[at + j] = Rfb!TileEncoding(t)[j]
  <2>1. TileAt(r, n) \in Nat
    BY <1>4, TilePlaces
  <2>2. /\ TileLength(t) \in Nat /\ TileAt(r, n + 1) = at + TileLength(t)
        /\ TileAt(r, n + 1) <= RectLength(r)
        /\ \A j \in 1..TileLength(t) : Rfb!RectEncoding(r)[at + j] = Rfb!TileEncoding(t)[j]
    BY <1>2, TilePlaces
  <2> QED
    BY <2>1, <2>2
<1>6. Rfb!RectEncoding(r) \in Seq(Int) /\ Rfb!TileEncoding(t) \in Seq(Int)
  <2>1. Rfb!RectEncoding(r) \in Seq(Int)
    BY RectShape
  <2>2. CASE t.raw # <<>>
    BY <1>2, <2>1, <2>2, RawTileShape
  <2>3. CASE t.raw = <<>>
    <3>1. t.coloured => \A m \in 1..Len(t.subs) : t.subs[m].c # Rfb!None
      BY <1>2 DEF Rfb!WellFormedTile
    <3> QED
      BY <1>2, <2>1, <2>3, <3>1, HexTileShape
  <2> QED
    BY <2>2, <2>3
<1> HIDE DEF at
<1>7. at <= o
  BY <1>1, <1>5
<1>8. Front(o - at, Rfb!TileEncoding(t))
  <2> DEFINE whole == Rfb!RectEncoding(r)
             piece == Rfb!TileEncoding(t)
  <2>1. /\ whole \in Seq(Int) /\ piece \in Seq(Int) /\ at + Len(piece) <= Len(whole)
        /\ \A j \in 1..Len(piece) : whole[at + j] = piece[j]
        /\ Front(o, whole)
    BY <1>5, <1>6 DEF TileLength, RectLength
  <2> HIDE DEF whole, piece
  <2>2. Front(o - at, piece)
    BY <1>5, <1>7, <2>1, FrontPiece
  <2> QED
    BY <2>2 DEF piece
<1> QED
  BY <1>1, <1>2, <1>5, <1>8 DEF at

\* The next subrectangle of a tile whose subrectangles are inside it is written
\* inside hextileBuffer.
LEMMA SubrectInside ==
    ASSUME TypeOK, NEW r \in Rfb!Rectangles, Rfb!WellFormedRectangle(r), r.enc = 5,
           NEW o \in Nat, NEW col \in 0 .. Count(r.w) - 1, NEW row \in 0 .. Count(r.h) - 1,
           NEW pic, AtTile(pic, o, r, col, row), Front(o, Rfb!RectEncoding(r)),
           \A k \in DOMAIN r.tiles : \A i \in DOMAIN r.tiles[k].subs :
             LET s == r.tiles[k].subs[i] IN s.x + s.w <= Tile /\ s.y + s.h <= Tile,
           hextileState = "FILLBUFFER", hex.n # 0, Len(buf) >= SubrectBytes
    PROVE  SubrectInBuffer
<1> DEFINE n == Rfb!TileNumber(r, col, row)
           t == r.tiles[n]
           q == o - TileAt(r, n)
           m == Len(t.subs) - hex.n
           s == t.subs[m + 1]
<1>1. /\ n \in 1..Len(r.tiles) /\ t \in Rfb!Tiles /\ Rfb!WellFormedTile(t)
      /\ q \in Nat /\ InTile(q, t) /\ Front(q, Rfb!TileEncoding(t))
  BY FrontTile
<1>2. t.raw = <<>> /\ hex.sub = Rfb!Subencoding(t) /\ hex.n <= Len(t.subs)
  BY DEF AtTile, Drawn
<1>3. n \in DOMAIN r.tiles
  BY <1>1, RectTypes
<1>4. \A i \in DOMAIN t.subs : t.subs[i].x + t.subs[i].w <= Tile /\ t.subs[i].y + t.subs[i].h <= Tile
  BY <1>3
<1> HIDE DEF t, q, n
<1>5. /\ m + 1 \in 1..Len(t.subs) /\ SubrectBytes = SubrectLength(t)
      /\ \A j \in 1..SubrectBytes : buf[j] = Rfb!SubrectEncoding(t, s)[j]
  BY <1>1, <1>2, NextSubrect
<1>6. /\ t.subs \in Seq(Rfb!Subrects) /\ DOMAIN t.subs = 1..Len(t.subs)
      /\ (t.coloured => \A i \in 1..Len(t.subs) : t.subs[i].c # Rfb!None)
  BY <1>1, TileTypes DEF Rfb!WellFormedTile
<1>7. /\ s \in Rfb!Subrects /\ (t.coloured => s.c # Rfb!None)
      /\ s.x + s.w <= Tile /\ s.y + s.h <= Tile
  BY <1>4, <1>5, <1>6, ElementOfSeq
<1> HIDE DEF s, m
<1>8. SubrectColumns = s.x .. s.x + s.w - 1 /\ SubrectRows = s.y .. s.y + s.h - 1
  BY <1>1, <1>5, <1>7, SubrectCovers
<1>9. /\ s.x \in Nat /\ s.y \in Nat /\ s.w \in Nat /\ s.h \in Nat /\ Tile \in Nat
  <2>1. /\ s.x \in 0 .. Tile - 1 /\ s.y \in 0 .. Tile - 1 /\ s.w \in 1..Tile /\ s.h \in 1..Tile
    BY <1>7 DEF Rfb!Subrects
  <2> QED
    BY <2>1, TileAssumption
<1>10. SubrectColumns \subseteq 0 .. Tile - 1 /\ SubrectRows \subseteq 0 .. Tile - 1
  <2>1. ASSUME NEW i \in s.x .. s.x + s.w - 1 PROVE i \in 0 .. Tile - 1
    BY <1>7, <1>9
  <2>2. ASSUME NEW i \in s.y .. s.y + s.h - 1 PROVE i \in 0 .. Tile - 1
    BY <1>7, <1>9
  <2> QED
    BY <1>8, <2>1, <2>2
<1> QED
  BY <1>10 DEF SubrectInBuffer, Cells

\* Within a tile.
LEMMA WithinTile ==
    ASSUME TypeOK, NEW r \in Rfb!Rectangles, Rfb!WellFormedRectangle(r), r.enc = 5,
           NEW o \in Nat, NEW col \in 0 .. Count(r.w) - 1, NEW row \in 0 .. Count(r.h) - 1,
           NEW pic, AtTile(pic, o, r, col, row), Front(o, Rfb!RectEncoding(r)), TileActions, TakenFront,
           NEW o2, o2 = o + (Len(buf) - Len(buf'))
    PROVE  AtTile(pic, o2, r, col, row)' /\ TileKeeps
<1> DEFINE n == Rfb!TileNumber(r, col, row)
           t == r.tiles[n]
           at == TileAt(r, n)
<1>1. TileIs(r, col, row) /\ Drawn(pic, r, col, row)
  BY DEF AtTile
<1>2. /\ at \in Nat /\ t \in Rfb!Tiles /\ Rfb!WellFormedTile(t) /\ SameSize(t)
      /\ o - at \in Nat /\ InTile(o - at, t) /\ Front(o - at, Rfb!TileEncoding(t))
  BY FrontTile
<1> HIDE DEF n, t, at
<1>3. Len(buf) \in Nat /\ Len(buf') \in Nat /\ Len(buf') <= Len(buf)
  BY LenProperties DEF TypeOK, TakenFront
<1>4. o2 - at = (o - at) + (Len(buf) - Len(buf')) /\ o2 - at \in Nat
  BY <1>2, <1>3
<1>5. InTile(o2 - at, t)' /\ TileKeeps
  <2> DEFINE q == o - at
             q2 == o2 - at
  <2>1. q \in Nat /\ Front(q, Rfb!TileEncoding(t)) /\ InTile(q, t) /\ q2 = q + (Len(buf) - Len(buf'))
    BY <1>2, <1>4
  <2> HIDE DEF q, q2
  <2>2. InTile(q2, t)' /\ TileKeeps
    BY <1>2, <2>1, TileWalk
  <2> QED
    BY <2>2 DEF q2
<1>6. TileIs(r, col, row)'
  BY <1>1, <1>5 DEF TileIs, TileKeeps
<1>7. Drawn(pic, r, col, row)'
  <2> DEFINE q == o - at
  <2>1. q \in Nat /\ Front(q, Rfb!TileEncoding(t)) /\ InTile(q, t)
    BY <1>2
  <2>2. TileOfRect(r, col, row) /\ t = r.tiles[Rfb!TileNumber(r, col, row)]
    BY DEF TileOfRect, t, n
  <2> HIDE DEF q
  <2> QED
    BY <1>1, <2>1, <2>2, StepDraws
<1> QED
  BY <1>4, <1>5, <1>6, <1>7 DEF AtTile, n, t, at

\* However it is cut, a hextile rectangle is walked tile by tile to its end.
LEMMA HextileWalk ==
    ASSUME TypeOK, NEW r \in Rfb!Rectangles, Rfb!WellFormedRectangle(r), r.enc = 5, WindowIs(r),
           NEW pic, IsPicture(pic), NEW o \in Nat, InHextile(pic, o, r), Front(o, Rfb!RectEncoding(r)),
           VNCpixelProcessorState = "HEXTILE", ProcessHextile, TakenFront,
           NEW o2, o2 = o + (Len(buf) - Len(buf'))
    PROVE  /\ VNCstate' = VNCstate /\ rectangleCount' = rectangleCount
           /\ \/ /\ VNCpixelProcessorState' = "HEXTILE" /\ WindowIs(r)' /\ InHextile(pic, o2, r)'
              \/ /\ VNCpixelProcessorState' = "IDLE" /\ o2 = RectLength(r)
                 /\ screen' = Decoded(pic, r)
<1>0. Len(buf) \in Nat
  BY LenProperties DEF TypeOK
<1>1. ASSUME buf' = buf PROVE o2 = o
  BY <1>0, <1>1
<1>2. ASSUME hextileState # "INIT"
      PROVE  \E col \in 0 .. Count(r.w) - 1, row \in 0 .. Count(r.h) - 1 : AtTile(pic, o, r, col, row)
  BY <1>2 DEF InHextile
<1>3. CASE HextileInit
  <2>1. /\ hextileState = "INIT" /\ buf' = buf /\ VNCstate' = VNCstate
        /\ rectangleCount' = rectangleCount
        /\ VNCpixelProcessorState' = VNCpixelProcessorState /\ updateWindow' = updateWindow
    BY <1>3 DEF HextileInit, HextileProcessing, connVars, rectVars
  <2>2. o = 12 /\ o2 = 12 /\ screen = pic
    BY <1>1, <2>1 DEF InHextile, AtTile, InTile
  <2>3. InHextile(pic, 12, r)'
    BY <1>3, <2>2, FirstTile DEF InHextile
  <2>4. WindowIs(r)'
    BY <2>1 DEF WindowIs
  <2> QED
    BY <2>1, <2>2, <2>3, <2>4
<1>4. CASE HextileLastTile
  <2>1. /\ hextileState # "INIT" /\ buf' = buf /\ VNCstate' = VNCstate
        /\ rectangleCount' = rectangleCount /\ VNCpixelProcessorState' = "IDLE"
    BY <1>4 DEF HextileLastTile, HextileProcessing, Return0, connVars
  <2>2. o = RectLength(r) /\ screen' = Decoded(pic, r)
    BY <1>2, <1>4, <2>1, LastTile
  <2> QED
    BY <1>1, <2>1, <2>2
<1>5. CASE HextileNextTile
  <2>1. /\ hextileState # "INIT" /\ buf' = buf /\ VNCstate' = VNCstate
        /\ rectangleCount' = rectangleCount
        /\ VNCpixelProcessorState' = VNCpixelProcessorState /\ updateWindow' = updateWindow
    BY <1>5 DEF HextileNextTile, HextileProcessing, connVars, rectVars
  <2>2. InHextile(pic, o, r)'
    BY <1>2, <1>5, <2>1, NextTile DEF InHextile
  <2>3. WindowIs(r)'
    BY <2>1 DEF WindowIs
  <2> QED
    BY <1>1, <2>1, <2>2, <2>3
<1>6. CASE TileActions
  <2>1. hextileState # "INIT"
    BY <1>6 DEF TileActions, HextileWaitHeader, HextileRawHeader, HextileHeader, HeaderHere,
       HextileDropRaw, HextileDrawRaw, HextileSubrect, HextileSubrectOverrun,
       HextileWaitSubrect, HextileBufferFilled, HextileDrawTile, HextileSkipTile,
       HextileProcessing
  <2>2. PICK col \in 0 .. Count(r.w) - 1, row \in 0 .. Count(r.h) - 1 : AtTile(pic, o, r, col, row)
    BY <1>2, <2>1
  <2>3. AtTile(pic, o2, r, col, row)' /\ TileKeeps
    BY <1>6, <2>2, WithinTile
  <2>4. InHextile(pic, o2, r)'
    BY <2>3 DEF InHextile
  <2>5. WindowIs(r)'
    BY <2>3 DEF WindowIs, TileKeeps
  <2> QED
    BY <2>3, <2>4, <2>5 DEF TileKeeps
<1> QED
  BY <1>3, <1>4, <1>5, <1>6 DEF ProcessHextile, TileActions

\* The client has parsed o bytes of the rectangle r, its header and more, and
\* the display showed pic before.
InRect(pic, o, r) ==
    /\ IsPicture(pic)
    /\ \/ /\ r.enc = 0 /\ VNCpixelProcessorState = "OUTBOUNDS" /\ screen = pic
          /\ interPixelCount <= r.w * r.h /\ o + 2 * interPixelCount = RectLength(r)
       \/ /\ r.enc = 1 /\ VNCpixelProcessorState = "COPYRECT" /\ screen = pic
          /\ o + 4 = RectLength(r)
       \/ /\ r.enc = 5 /\ VNCpixelProcessorState = "HEXTILE"
          /\ WindowIs(r) /\ InHextile(pic, o, r)

\* A rectangle of an update that keeps to RFB and to what an unsigned long can
\* count.
FitRectangle(r) ==
    /\ r \in Rfb!Rectangles /\ Rfb!WellFormedRectangle(r) /\ r.enc \in {0, 1, 5}
    /\ 2 * (r.w * r.h) < UlongRange

\* The rest of a rectangle is taken to its end.
LEMMA RectWalk ==
    ASSUME TypeOK, NEW r, FitRectangle(r), NEW pic, NEW o \in Nat, InRect(pic, o, r),
           Front(o, Rfb!RectEncoding(r)), PixelProcessor, TakenFront,
           NEW o2, o2 = o + (Len(buf) - Len(buf'))
    PROVE  /\ VNCstate' = VNCstate /\ rectangleCount' = rectangleCount
           /\ \/ InRect(pic, o2, r)'
              \/ /\ VNCpixelProcessorState' = "IDLE" /\ o2 = RectLength(r)
                 /\ screen' = Decoded(pic, r)
<1>0. /\ r \in Rfb!Rectangles /\ Rfb!WellFormedRectangle(r) /\ r.enc \in {0, 1, 5}
      /\ 2 * (r.w * r.h) < UlongRange
  BY DEF FitRectangle
<1>1. Len(buf) \in Nat /\ interPixelCount \in Nat /\ Len(buf') \in Nat
  <2>1. buf \in Seq(Byte) /\ interPixelCount \in Ulongs /\ Ulongs \subseteq Nat
    BY DEF TypeOK, Ulongs
  <2> QED
    BY <2>1, LenProperties DEF TakenFront
<1>2. r.w \in Nat /\ r.h \in Nat /\ r.w * r.h \in Nat
  BY <1>0, RectTypes
<1>3. IsPicture(pic)
  BY DEF InRect
<1>4. ASSUME r.enc # 5 PROVE pic = Decoded(pic, r)
  BY <1>3, <1>4, PaintedNothing
<1>5. CASE r.enc = 0 /\ VNCpixelProcessorState = "OUTBOUNDS"
  <2>1. DropRectangle
    BY <1>5 DEF PixelProcessor, UpdateDone, WaitForRectangle, BadEncoding, RawRectangle,
       CopyRectRectangle, HextileRectangle, RectangleHeader, ProcessCopyRect, ProcessHextile,
       HextileInit, HextileLastTile, HextileNextTile, HextileWaitHeader, HextileRawHeader,
       HextileHeader, HeaderHere, HextileDropRaw, HextileDrawRaw, HextileSubrect,
       HextileSubrectOverrun, HextileWaitSubrect, HextileBufferFilled, HextileDrawTile,
       HextileSkipTile, HextileProcessing, PixelProcessing
  <2>2. TakePixels(VNCpixelProcessorState' = "IDLE" /\ UNCHANGED hextileState)
    BY <2>1 DEF DropRectangle, DropOutOfViewPixels
  <2>3. interPixelCount <= r.w * r.h /\ o + 2 * interPixelCount = RectLength(r) /\ screen = pic
    BY <1>5 DEF InRect
  <2>10. screen' = pic
    BY <2>1, <2>3 DEF DropRectangle, DropOutOfViewPixels, lcdVars
  <2>4. 2 * interPixelCount < UlongRange
    BY <1>0, <1>1, <1>2, <2>3, UlongAssumption
  <2>5. /\ interPixelCount' \in Nat /\ interPixelCount' <= interPixelCount
        /\ Len(buf) - Len(buf') = 2 * (interPixelCount - interPixelCount')
        /\ AllPixelsHere => interPixelCount' = 0
        /\ ~AllPixelsHere => UNCHANGED <<VNCpixelProcessorState, hextileState>>
    BY <2>2, <2>4, PixelsCounted
  <2>6. interPixelCount' <= r.w * r.h /\ o2 + 2 * interPixelCount' = RectLength(r)
    <3>1. o \in Nat /\ o2 = o + (Len(buf) - Len(buf'))
      OBVIOUS
    <3>2. /\ interPixelCount' \in Nat /\ interPixelCount' <= interPixelCount
          /\ o2 = o + 2 * (interPixelCount - interPixelCount')
      BY ONLY <2>5, <3>1
    <3>3. o2 + 2 * interPixelCount' = o + 2 * interPixelCount
      <4>1. PICK q \in Nat : q = interPixelCount'
        BY <3>2
      <4>2. o2 = o + 2 * (interPixelCount - q)
        BY <3>2, <4>1
      <4>3. o2 + 2 * q = o + 2 * interPixelCount
        BY <1>1, <4>2
      <4> QED
        BY <4>1, <4>3
    <3>4. interPixelCount' <= r.w * r.h
      BY ONLY <1>1, <1>2, <2>3, <3>2
    <3> QED
      BY <2>3, <3>3, <3>4
  <2>7. VNCstate' = VNCstate /\ rectangleCount' = rectangleCount
    BY <2>2 DEF TakePixels, connVars
  <2>8. CASE AllPixelsHere
    <3>1. VNCpixelProcessorState' = "IDLE" /\ interPixelCount' = 0
      BY <2>2, <2>5, <2>8 DEF TakePixels
    <3>2. o2 = RectLength(r)
      BY <1>1, <2>6, <3>1
    <3> QED
      BY <1>5, <1>4, <2>7, <2>10, <3>1, <3>2
  <2>9. CASE ~AllPixelsHere
    BY <1>5, <1>3, <2>5, <2>6, <2>7, <2>9, <2>10 DEF InRect
  <2> QED
    BY <2>8, <2>9
<1>6. CASE r.enc = 1 /\ VNCpixelProcessorState = "COPYRECT"
  <2>1. ProcessCopyRect
    BY <1>6 DEF PixelProcessor, UpdateDone, WaitForRectangle, BadEncoding, RawRectangle,
       CopyRectRectangle, HextileRectangle, RectangleHeader, DropRectangle, ProcessHextile,
       HextileInit, HextileLastTile, HextileNextTile, HextileWaitHeader, HextileRawHeader,
       HextileHeader, HeaderHere, HextileDropRaw, HextileDrawRaw, HextileSubrect,
       HextileSubrectOverrun, HextileWaitSubrect, HextileBufferFilled, HextileDrawTile,
       HextileSkipTile, HextileProcessing, PixelProcessing
  <2>2. o + 4 = RectLength(r) /\ screen = pic
    BY <1>6 DEF InRect
  <2>5. screen' = pic
    BY <2>1, <2>2 DEF ProcessCopyRect, WaitForBytes, Return0, lcdVars
  <2>3. CASE WaitForBytes(4)
    <3>1. /\ buf' = buf /\ VNCpixelProcessorState' = VNCpixelProcessorState
          /\ VNCstate' = VNCstate /\ rectangleCount' = rectangleCount
      BY <2>3 DEF WaitForBytes, Return0, connVars, rectVars
    <3>2. o2 = o
      BY <1>1, <3>1
    <3> QED
      BY <1>6, <1>3, <2>2, <2>5, <3>1, <3>2 DEF InRect
  <2>4. CASE ~WaitForBytes(4)
    <3>1. /\ Len(buf) >= 4 /\ VNCpixelProcessorState' = "IDLE" /\ Consume(4)
          /\ VNCstate' = VNCstate /\ rectangleCount' = rectangleCount
      BY <2>1, <2>4 DEF ProcessCopyRect, connVars
    <3>2. Len(buf') = Len(buf) - 4
      BY <1>1, <3>1, ConsumeFront
    <3>3. o2 = RectLength(r)
      BY <1>1, <2>2, <3>2
    <3> QED
      BY <1>6, <1>4, <2>5, <3>1, <3>3
  <2> QED
    BY <2>3, <2>4
<1>7. CASE r.enc = 5 /\ VNCpixelProcessorState = "HEXTILE"
  <2>1. ProcessHextile
    BY <1>7 DEF PixelProcessor, UpdateDone, WaitForRectangle, BadEncoding, RawRectangle,
       CopyRectRectangle, HextileRectangle, RectangleHeader, DropRectangle, ProcessCopyRect,
       PixelProcessing
  <2>2. WindowIs(r) /\ InHextile(pic, o, r)
    BY <1>7 DEF InRect
  <2>3. /\ VNCstate' = VNCstate /\ rectangleCount' = rectangleCount
        /\ \/ VNCpixelProcessorState' = "HEXTILE" /\ WindowIs(r)' /\ InHextile(pic, o2, r)'
           \/ /\ VNCpixelProcessorState' = "IDLE" /\ o2 = RectLength(r)
              /\ screen' = Decoded(pic, r)
    BY <1>0, <1>7, <1>3, <2>1, <2>2, HextileWalk
  <2> QED
    BY <1>7, <1>3, <2>3 DEF InRect
<1> QED
  BY <1>5, <1>6, <1>7 DEF InRect

\* The steps at the header of a rectangle that read it.
HeaderActions == BadEncoding \/ RawRectangle \/ CopyRectRectangle \/ HextileRectangle

\* A header of the server's starts the rectangle it announces.
LEMMA HeaderWalk ==
    ASSUME TypeOK, NEW r, FitRectangle(r), Front(0, Rfb!RectEncoding(r)), HeaderActions,
           NEW pic, screen = pic
    PROVE  /\ Len(buf') = Len(buf) - 12
           /\ VNCstate' = VNCstate /\ rectangleCount' = rectangleCount - 1
           /\ InRect(pic, 12, r)'
<1>0. /\ r \in Rfb!Rectangles /\ Rfb!WellFormedRectangle(r) /\ r.enc \in {0, 1, 5}
      /\ 2 * (r.w * r.h) < UlongRange
  BY DEF FitRectangle
<1>1. buf \in Seq(Byte) /\ Len(buf) \in Nat
  BY LenProperties DEF TypeOK
<1>2. /\ r.x \in Nat /\ r.y \in Nat /\ r.w \in Nat /\ r.h \in Nat /\ r.w * r.h \in Nat
      /\ r.x + r.w <= 32767 /\ r.y + r.h <= 32767
  BY <1>0, RectTypes DEF Rfb!WellFormedRectangle
<1> DEFINE e == Rfb!RectEncoding(r)
<1>3. RectangleHeader /\ Len(buf) >= 12
  BY DEF HeaderActions, BadEncoding, RawRectangle, CopyRectRectangle, HextileRectangle,
     RectangleHeader
<1>4. /\ U16(e[1], e[2]) = r.x /\ U16(e[3], e[4]) = r.y
      /\ U16(e[5], e[6]) = r.w /\ U16(e[7], e[8]) = r.h
      /\ e[9] = 0 /\ e[10] = 0 /\ e[11] = 0 /\ e[12] = r.enc
      /\ r.enc = 0 => Len(e) = 12 + 2 * (r.w * r.h)
      /\ r.enc = 1 => Len(e) = 16
      /\ r.enc = 5 => Len(e) >= 12
  <2>1. r.enc = 5 => Len(e) >= 12
    <3> SUFFICES ASSUME r.enc = 5 PROVE Len(e) >= 12
      OBVIOUS
    <3>1. Len(r.tiles) \in Nat /\ TileAt(r, 1) = 12
      BY <1>0, RectTypes, TilePlaces
    <3>2. /\ TileAt(r, Len(r.tiles) + 1) = Len(e)
          /\ \A n \in 1..Len(r.tiles) : TileAt(r, n + 1) <= Len(e) /\ TileAt(r, n + 1) \in Nat
                                        /\ TileLength(r.tiles[n]) \in Nat
                                        /\ TileAt(r, n + 1) = TileAt(r, n) + TileLength(r.tiles[n])
      <4>1. \A n \in 1..Len(r.tiles) : n + 1 \in 1..(Len(r.tiles) + 1)
        BY <3>1
      <4> QED
        BY <1>0, <4>1, TilePlaces DEF RectLength
    <3>3. Len(e) \in Nat
      BY <1>0, RectShape, LenProperties
    <3> HIDE DEF e
    <3>4. CASE Len(r.tiles) = 0
      BY <3>1, <3>2, <3>4
    <3>5. CASE Len(r.tiles) >= 1
      <4>1. 1 \in 1..Len(r.tiles) /\ 1 + 1 \in Int
        BY <3>1, <3>5
      <4> QED
        BY <3>1, <3>2, <3>3, <4>1
    <3> QED
      BY <3>1, <3>4, <3>5
  <2> QED
    BY <1>0, <2>1, RectShape
<1>5. Len(e) >= 12 /\ Len(e) \in Nat
  <2>1. Len(e) \in Nat
    BY <1>0, RectShape, LenProperties
  <2> HIDE DEF e
  <2>2. CASE r.enc = 0
    BY <1>2, <1>4, <2>1, <2>2
  <2>3. CASE r.enc = 1
    <3>1. Len(e) = 16
      BY <1>4, <2>3
    <3> QED
      BY ONLY <3>1
  <2>4. CASE r.enc = 5
    BY <1>4, <2>1, <2>4
  <2> QED
    BY <1>0, <2>2, <2>3, <2>4
<1>6. \A i \in 1..12 : buf[i] = e[i]
  <2> SUFFICES ASSUME NEW i \in 1..12 PROVE buf[i] = e[i]
    OBVIOUS
  <2>1. i \in 1..Len(buf) /\ 0 + i = i /\ i <= Len(e)
    BY <1>1, <1>3, <1>5
  <2> HIDE DEF e
  <2> QED
    BY <2>1 DEF Front, e
<1> HIDE DEF e
<1>7. /\ U16(buf[1], buf[2]) = r.x /\ U16(buf[3], buf[4]) = r.y
      /\ U16(buf[5], buf[6]) = r.w /\ U16(buf[7], buf[8]) = r.h
      /\ buf[9] = 0 /\ buf[10] = 0 /\ buf[11] = 0 /\ buf[12] = r.enc
  <2>1. /\ buf[1] = e[1] /\ buf[2] = e[2] /\ buf[3] = e[3] /\ buf[4] = e[4] /\ buf[5] = e[5]
        /\ buf[6] = e[6] /\ buf[7] = e[7] /\ buf[8] = e[8] /\ buf[9] = e[9]
        /\ buf[10] = e[10] /\ buf[11] = e[11] /\ buf[12] = e[12]
    BY ONLY <1>6
  <2> QED
    BY <1>4, <2>1, Zenon
<1>8. ~BadEncoding
  BY <1>0, <1>7 DEF BadEncoding, Encoding
<1>9. Consume(12) /\ Len(buf') = Len(buf) - 12
  <2>1. Consume(12)
    BY <1>8 DEF HeaderActions, RawRectangle, CopyRectRectangle, HextileRectangle
  <2> QED
    BY <1>1, <1>3, <2>1, ConsumeFront
<1>10. /\ VNCstate' = VNCstate /\ rectangleCount' = rectangleCount - 1
       /\ updateWindow' = [x0 |-> r.x, y0 |-> r.y, x1 |-> Uint(r.x + r.w), y1 |-> Uint(r.y + r.h)]
  BY <1>3, <1>7 DEF RectangleHeader, connVars
<1>11. \A n \in Nat : n <= 32767 => Uint(n) = n /\ Extended(n) = n
  BY DEF Uint, Extended
<1>12. WindowIs(r)'
  <2>1. Uint(r.x + r.w) = r.x + r.w /\ Uint(r.y + r.h) = r.y + r.h
    BY <1>2, <1>11
  <2> QED
    BY <1>10, <2>1 DEF WindowIs
<1>13. IsPicture(pic) /\ screen' = pic
  <2>1. screen \in [Pixels -> Colour]
    BY DEF TypeOK
  <2>2. screen' = screen
    BY <1>3 DEF RectangleHeader, lcdVars
  <2> QED
    BY <2>1, <2>2 DEF IsPicture
<1>14. CASE RawRectangle
  <2>1. /\ r.enc = 0 /\ VNCpixelProcessorState' = "OUTBOUNDS"
        /\ interPixelCount' = Ulong(Extended(r.w) * Extended(r.h))
    BY <1>0, <1>7, <1>14 DEF RawRectangle, Encoding
  <2>2. Extended(r.w) = r.w /\ Extended(r.h) = r.h
    <3>1. r.w <= 32767 /\ r.h <= 32767
      BY <1>2
    <3> QED
      BY <1>2, <1>11, <3>1
  <2>3. r.w * r.h < UlongRange
    BY <1>0, <1>2, UlongAssumption
  <2>4. interPixelCount' = r.w * r.h
    <3>1. interPixelCount' = (r.w * r.h) % UlongRange
      BY <2>1, <2>2 DEF Ulong
    <3> DEFINE m == r.w * r.h
    <3>2. m \in Nat /\ m < UlongRange /\ UlongRange \in Nat /\ interPixelCount' = m % UlongRange
      BY <1>2, <2>3, <3>1, UlongAssumption
    <3> HIDE DEF m
    <3>3. interPixelCount' = m
      BY ONLY <3>2
    <3> QED
      BY <3>3 DEF m
  <2>5. 12 + 2 * interPixelCount' = RectLength(r) /\ interPixelCount' <= r.w * r.h
    BY <1>2, <1>4, <2>1, <2>4 DEF RectLength, e
  <2> QED
    BY <1>9, <1>10, <1>13, <2>1, <2>5 DEF InRect
<1>15. CASE CopyRectRectangle
  <2>1. r.enc = 1 /\ VNCpixelProcessorState' = "COPYRECT"
    BY <1>0, <1>7, <1>15 DEF CopyRectRectangle, Encoding
  <2>2. RectLength(r) = 12 + 4
    BY <1>4, <2>1 DEF RectLength, e
  <2> QED
    BY <1>9, <1>10, <1>13, <2>1, <2>2 DEF InRect
<1>16. CASE HextileRectangle
  <2>1. r.enc = 5 /\ VNCpixelProcessorState' = "HEXTILE" /\ hextileState' = "INIT"
    BY <1>0, <1>7, <1>16 DEF HextileRectangle, Encoding
  <2>2. InHextile(pic, 12, r)'
    BY <1>13, <2>1 DEF InHextile
  <2> QED
    BY <1>9, <1>10, <1>12, <1>13, <2>1, <2>2 DEF InRect
<1> QED
  BY <1>8, <1>14, <1>15, <1>16 DEF HeaderActions

-----------------------------------------------------------------------------
(* The client's walk through the bytes of an update *)

\* An update that keeps to RFB and to what an unsigned long can count.
FitUpdate(u) ==
    /\ Rfb!WellFormedUpdate(u) /\ Rfb!LawfulUpdate(u)
    /\ \A i \in 1..Len(u) : 2 * (u[i].w * u[i].h) < UlongRange

\* The client has parsed o bytes of the update u: it is in front of a rectangle
\* (or behind the last) or within one, and the rectangles before are drawn over
\* pic.
InUpdate(pic, o, u) ==
    \E i \in 1..(Len(u) + 1) :
      \/ /\ VNCpixelProcessorState = "IDLE" /\ rectangleCount = Len(u) + 1 - i
         /\ o = RectAt(u, i) /\ screen = After(pic, u)[i - 1]
      \/ /\ i <= Len(u) /\ rectangleCount = Len(u) - i
         /\ o - RectAt(u, i) \in Nat /\ InRect(After(pic, u)[i - 1], o - RectAt(u, i), u[i])

\* A rectangle of an update, where it is and what the buffer has of it.
LEMMA RectInUpdate ==
    ASSUME TypeOK, NEW u, FitUpdate(u), NEW i \in 1..Len(u), NEW o \in Nat,
           Front(o, Rfb!UpdateEncoding(u)), RectAt(u, i) <= o
    PROVE  /\ FitRectangle(u[i]) /\ Front(o - RectAt(u, i), Rfb!RectEncoding(u[i]))
           /\ RectAt(u, i) \in Nat /\ RectLength(u[i]) \in Nat
           /\ RectAt(u, i + 1) = RectAt(u, i) + RectLength(u[i])
<1>0. Rfb!WellFormedUpdate(u) /\ Rfb!LawfulUpdate(u)
  BY DEF FitUpdate
<1>1. /\ Len(u) \in Nat /\ u[i] \in Rfb!Rectangles /\ Rfb!WellFormedRectangle(u[i])
      /\ u[i].enc \in {0, 1, 5} /\ Rfb!RectEncoding(u[i]) \in Seq(Int)
  BY <1>0, UpdateTypes
<1>2. FitRectangle(u[i])
  BY <1>1 DEF FitRectangle, FitUpdate
<1> DEFINE at == RectAt(u, i)
           whole == Rfb!UpdateEncoding(u)
           piece == Rfb!RectEncoding(u[i])
<1>3. at \in Nat
  <2>1. i \in 1..(Len(u) + 1)
    BY <1>1
  <2> QED
    BY <1>0, <2>1, RectPlaces
<1>4. /\ RectLength(u[i]) \in Nat /\ RectAt(u, i + 1) = at + RectLength(u[i])
      /\ RectAt(u, i + 1) <= UpdateLength(u)
      /\ \A j \in 1..RectLength(u[i]) : whole[at + j] = piece[j]
  BY <1>0, RectPlaces
<1>5. whole \in Seq(Int)
  BY <1>0, UpdateShape
<1>6. /\ piece \in Seq(Int) /\ at + Len(piece) <= Len(whole)
      /\ \A j \in 1..Len(piece) : whole[at + j] = piece[j]
      /\ Front(o, whole) /\ at <= o
  BY <1>1, <1>4 DEF RectLength, UpdateLength
<1> HIDE DEF at, whole, piece
<1>7. Front(o - at, piece)
  BY <1>3, <1>5, <1>6, FrontPiece
<1> QED
  BY <1>2, <1>3, <1>4, <1>7 DEF at, piece

\* Within an update that keeps to RFB no subrectangle leaves hextileBuffer.
LEMMA NoOverrun ==
    ASSUME TypeOK, NEW u, FitUpdate(u), NEW pic, NEW o \in Nat, InUpdate(pic, o, u),
           Front(o, Rfb!UpdateEncoding(u))
    PROVE  ~HextileSubrectOverrun
<1> SUFFICES ASSUME HextileSubrectOverrun PROVE FALSE
  OBVIOUS
<1>1. /\ VNCpixelProcessorState = "HEXTILE" /\ hextileState = "FILLBUFFER"
      /\ hex.n # 0 /\ Len(buf) >= SubrectBytes /\ ~SubrectInBuffer
  BY DEF HextileSubrectOverrun, HextileProcessing, PixelProcessing
<1>2. Rfb!WellFormedUpdate(u) /\ Rfb!LawfulUpdate(u) /\ Len(u) \in Nat /\ DOMAIN u = 1..Len(u)
  BY UpdateTypes DEF FitUpdate
<1>3. PICK i \in 1..Len(u) : /\ o - RectAt(u, i) \in Nat
                             /\ InRect(After(pic, u)[i - 1], o - RectAt(u, i), u[i])
  <2>1. PICK i \in 1..(Len(u) + 1) :
          /\ i <= Len(u) /\ o - RectAt(u, i) \in Nat
          /\ InRect(After(pic, u)[i - 1], o - RectAt(u, i), u[i])
    BY <1>1 DEF InUpdate
  <2>2. i \in 1..Len(u)
    BY <1>2, <2>1
  <2> QED
    BY <2>1, <2>2
<1> DEFINE r == u[i]
           at == RectAt(u, i)
           q == o - at
           old == After(pic, u)[i - 1]
<1>4. at \in Nat /\ at <= o
  <2>1. i \in 1..(Len(u) + 1)
    BY <1>2
  <2>2. at \in Nat
    BY <1>2, <2>1, RectPlaces
  <2> QED
    BY <1>3, <2>2
<1>5. FitRectangle(r) /\ Front(q, Rfb!RectEncoding(r))
  BY <1>4, RectInUpdate
<1>6. r \in Rfb!Rectangles /\ Rfb!WellFormedRectangle(r)
  BY <1>5 DEF FitRectangle
<1>7. \A k \in DOMAIN r.tiles : \A n \in DOMAIN r.tiles[k].subs :
        LET s == r.tiles[k].subs[n] IN s.x + s.w <= Tile /\ s.y + s.h <= Tile
  BY <1>2 DEF Rfb!LawfulUpdate
<1>8. r.enc = 5 /\ InHextile(old, q, r) /\ q \in Nat
  BY <1>1, <1>3 DEF InRect
<1> HIDE DEF r, q, old
<1>9. PICK col \in 0 .. Count(r.w) - 1, row \in 0 .. Count(r.h) - 1 : AtTile(old, q, r, col, row)
  BY <1>1, <1>8 DEF InHextile
<1>10. SubrectInBuffer
  BY <1>1, <1>5, <1>6, <1>7, <1>8, <1>9, SubrectInside
<1> QED
  BY <1>1, <1>10

\* The header of an update says how many rectangles there are.
LEMMA UpdateBegins ==
    ASSUME TypeOK, NEW u, FitUpdate(u), Front(0, Rfb!UpdateEncoding(u)),
           WaitForUpdate, VNCstate' = "PROCESSINGUPDATE",
           NEW pic, screen = pic
    PROVE  InUpdate(pic, 4, u)' /\ Len(buf) - Len(buf') = 4
<1>0. Rfb!WellFormedUpdate(u) /\ Rfb!LawfulUpdate(u)
  BY DEF FitUpdate
<1>1. /\ Len(buf) >= 4 /\ Consume(4) /\ rectangleCount' = U16(buf[3], buf[4])
      /\ VNCpixelProcessorState' = "IDLE"
  BY DEF WaitForUpdate, WaitForBytes, connVars
<1>2. Len(buf) \in Nat
  BY LenProperties DEF TypeOK
<1>3. Len(u) \in Nat /\ RectAt(u, 1) = 4
  BY <1>0, UpdateTypes, RectPlaces
<1> DEFINE e == Rfb!UpdateEncoding(u)
<1>4. U16(e[3], e[4]) = Len(u) /\ e \in Seq(Int) /\ Len(e) = 4 + Len(Rfb!FlattenSeq(RectPieces(u)))
  BY <1>0, UpdateShape
<1>5. Rfb!FlattenSeq(RectPieces(u)) \in Seq(Int)
  BY <1>0, UpdateTypes, Joined
<1> HIDE DEF e
<1>6. Len(e) >= 4 /\ Len(e) \in Nat
  BY <1>4, <1>5, LenProperties
<1>7. buf[3] = e[3] /\ buf[4] = e[4]
  <2>1. \A i \in 1..Len(buf) : 0 + i <= Len(e) => buf[i] = e[0 + i]
    BY DEF Front, e
  <2>2. 3 \in 1..Len(buf) /\ 4 \in 1..Len(buf) /\ 0 + 3 = 3 /\ 0 + 4 = 4
    BY <1>1, <1>2
  <2> QED
    BY <1>6, <2>1, <2>2
<1>8. rectangleCount' = Len(u)
  BY <1>1, <1>4, <1>7
<1>9. InUpdate(pic, 4, u)'
  <2>1. 1 \in 1..(Len(u) + 1) /\ rectangleCount' = Len(u) + 1 - 1 /\ 1 - 1 = 0
    BY <1>3, <1>8
  <2>2. screen' = After(pic, u)[0]
    <3>1. screen' = screen
      BY DEF WaitForUpdate, WaitForBytes, Return0, lcdVars
    <3> QED
      BY <1>3, <3>1, PicturesAre
  <2> QED
    BY <1>1, <1>3, <2>1, <2>2 DEF InUpdate
<1>10. Len(buf') = Len(buf) - 4
  BY <1>1, <1>2, ConsumeFront
<1> QED
  BY <1>2, <1>9, <1>10

\* However it is cut, an update is walked rectangle by rectangle to its end.
LEMMA UpdateWalk ==
    ASSUME TypeOK, NEW u, FitUpdate(u), NEW pic, NEW o \in Nat, InUpdate(pic, o, u),
           Front(o, Rfb!UpdateEncoding(u)), PixelProcessor, TakenFront,
           NEW o2, o2 = o + (Len(buf) - Len(buf'))
    PROVE  \/ VNCstate' = "PROCESSINGUPDATE" /\ InUpdate(pic, o2, u)'
           \/ /\ VNCstate' = "CONNECTED_REFRESH" /\ o2 = UpdateLength(u)
              /\ screen' = AfterUpdate(pic, u)
<1>0. Rfb!WellFormedUpdate(u) /\ Rfb!LawfulUpdate(u)
  BY DEF FitUpdate
<1>1. Len(buf) \in Nat /\ Len(buf') \in Nat /\ Len(buf') <= Len(buf) /\ Len(u) \in Nat
  <2>1. Len(buf) \in Nat
    BY LenProperties DEF TypeOK
  <2> QED
    BY <1>0, <2>1, UpdateTypes DEF TakenFront
<1>2. VNCstate = "PROCESSINGUPDATE"
  BY DEF PixelProcessor, UpdateDone, WaitForRectangle, BadEncoding, RawRectangle,
     CopyRectRectangle, HextileRectangle, RectangleHeader, DropRectangle, ProcessCopyRect,
     ProcessHextile, HextileInit, HextileLastTile, HextileNextTile, HextileWaitHeader,
     HextileRawHeader, HextileHeader, HeaderHere, HextileDropRaw, HextileDrawRaw, HextileSubrect,
     HextileSubrectOverrun, HextileWaitSubrect, HextileBufferFilled, HextileDrawTile,
     HextileSkipTile, HextileProcessing, PixelProcessing, Processing
<1>3. PICK i \in 1..(Len(u) + 1) :
        \/ /\ VNCpixelProcessorState = "IDLE" /\ rectangleCount = Len(u) + 1 - i
           /\ o = RectAt(u, i) /\ screen = After(pic, u)[i - 1]
        \/ /\ i <= Len(u) /\ rectangleCount = Len(u) - i
           /\ o - RectAt(u, i) \in Nat /\ InRect(After(pic, u)[i - 1], o - RectAt(u, i), u[i])
  BY DEF InUpdate
<1>4. RectAt(u, i) \in Nat
  BY <1>0, RectPlaces
<1>5. CASE /\ VNCpixelProcessorState = "IDLE" /\ rectangleCount = Len(u) + 1 - i
           /\ o = RectAt(u, i) /\ screen = After(pic, u)[i - 1]
  <2>1. UpdateDone \/ WaitForRectangle \/ HeaderActions
    BY <1>5 DEF PixelProcessor, HeaderActions, DropRectangle, ProcessCopyRect,
       ProcessHextile, HextileInit, HextileLastTile, HextileNextTile, HextileWaitHeader,
       HextileRawHeader, HextileHeader, HeaderHere, HextileDropRaw, HextileDrawRaw,
       HextileSubrect, HextileSubrectOverrun, HextileWaitSubrect, HextileBufferFilled,
       HextileDrawTile, HextileSkipTile, HextileProcessing, PixelProcessing
  <2>2. CASE UpdateDone
    <3>1. rectangleCount = 0 /\ VNCstate' = "CONNECTED_REFRESH" /\ buf' = buf /\ screen' = screen
      BY <2>2 DEF UpdateDone, Return0, lcdVars
    <3>2. i = Len(u) + 1
      BY <1>1, <1>5, <3>1
    <3>3. o = UpdateLength(u)
      BY <1>0, <1>5, <3>2, RectPlaces
    <3>4. o2 = o
      BY <1>1, <3>1
    <3>5. screen' = AfterUpdate(pic, u)
      <4>1. i - 1 = Len(u)
        BY <1>1, <3>2
      <4> QED
        BY <1>1, <1>5, <3>1, <4>1, PicturesAre
    <3> QED
      BY <3>1, <3>3, <3>4, <3>5
  <2>3. CASE WaitForRectangle
    <3>1. /\ VNCpixelProcessorState' = VNCpixelProcessorState /\ VNCstate' = VNCstate
          /\ rectangleCount' = rectangleCount /\ buf' = buf /\ screen' = screen
      BY <2>3 DEF WaitForRectangle, WaitForBytes, Return0, connVars, rectVars, lcdVars
    <3>2. o2 = o
      BY <1>1, <3>1
    <3> QED
      BY <1>2, <1>5, <3>1, <3>2 DEF InUpdate
  <2>4. CASE HeaderActions
    <3>1. rectangleCount # 0
      BY <2>4 DEF HeaderActions, BadEncoding, RawRectangle, CopyRectRectangle, HextileRectangle,
         RectangleHeader
    <3>2. i \in 1..Len(u)
      BY <1>1, <1>5, <3>1
    <3>3. RectAt(u, i) <= o /\ o - RectAt(u, i) = 0
      BY <1>4, <1>5
    <3>4. FitRectangle(u[i]) /\ Front(0, Rfb!RectEncoding(u[i]))
      BY <3>2, <3>3, RectInUpdate
    <3>5. /\ Len(buf') = Len(buf) - 12 /\ VNCstate' = VNCstate
          /\ rectangleCount' = rectangleCount - 1 /\ InRect(After(pic, u)[i - 1], 12, u[i])'
      BY <1>5, <2>4, <3>4, HeaderWalk
    <3>6. o2 - RectAt(u, i) = 12
      BY <1>1, <1>4, <1>5, <3>5
    <3>7. rectangleCount' = Len(u) - i /\ i <= Len(u)
      BY <1>1, <1>5, <3>2, <3>5
    <3>8. i \in 1..(Len(u) + 1) /\ 12 \in Nat
      OBVIOUS
    <3>9. InUpdate(pic, o2, u)'
      BY <3>5, <3>6, <3>7, <3>8, SMTT(30) DEF InUpdate
    <3> QED
      BY <1>2, <3>5, <3>9
  <2> QED
    BY <2>1, <2>2, <2>3, <2>4
<1>6. CASE /\ i <= Len(u) /\ rectangleCount = Len(u) - i
           /\ o - RectAt(u, i) \in Nat /\ InRect(After(pic, u)[i - 1], o - RectAt(u, i), u[i])
  <2> DEFINE at == RectAt(u, i)
             q == o - at
             q2 == o2 - at
             old == After(pic, u)[i - 1]
  <2>1. i \in 1..Len(u) /\ at <= o
    BY <1>1, <1>4, <1>6
  <2>2. /\ FitRectangle(u[i]) /\ Front(q, Rfb!RectEncoding(u[i])) /\ RectLength(u[i]) \in Nat
        /\ RectAt(u, i + 1) = at + RectLength(u[i])
    BY <2>1, RectInUpdate
  <2>3. q \in Nat /\ InRect(old, q, u[i])
    BY <1>6
  <2>4. q2 = q + (Len(buf) - Len(buf')) /\ q2 \in Nat
    BY <1>1, <1>4, <1>6
  <2> HIDE DEF q, q2, old
  <2>5. /\ VNCstate' = VNCstate /\ rectangleCount' = rectangleCount
        /\ \/ InRect(old, q2, u[i])'
           \/ /\ VNCpixelProcessorState' = "IDLE" /\ q2 = RectLength(u[i])
              /\ screen' = Decoded(old, u[i])
    BY <2>2, <2>3, <2>4, RectWalk
  <2>6. CASE InRect(old, q2, u[i])'
    BY <1>2, <1>6, <2>4, <2>5, <2>6 DEF InUpdate, q2, old
  <2>7. CASE /\ VNCpixelProcessorState' = "IDLE" /\ q2 = RectLength(u[i])
             /\ screen' = Decoded(old, u[i])
    <3>1. o2 = RectAt(u, i + 1)
      <4>1. o2 \in Int /\ o2 - at = RectLength(u[i])
        BY <1>1, <2>7 DEF q2
      <4> QED
        BY <1>4, <2>2, <4>1
    <3>2. i + 1 \in 1..(Len(u) + 1) /\ rectangleCount' = Len(u) + 1 - (i + 1)
      BY <1>1, <1>6, <2>1, <2>5
    <3>3. screen' = After(pic, u)[(i + 1) - 1]
      <4>1. (i + 1) - 1 = i
        BY <1>1
      <4> QED
        BY <1>1, <2>1, <2>7, <4>1, PicturesAre DEF old
    <3> QED
      BY <1>2, <2>5, <2>7, <3>1, <3>2, <3>3 DEF InUpdate
  <2> QED
    BY <2>5, <2>6, <2>7
<1> QED
  BY <1>3, <1>5, <1>6

-----------------------------------------------------------------------------
(* The stream and the client's place in it *)

\* A state of the walk depends on the parser's variables alone.
LEMMA InUpdateStays ==
    ASSUME NEW pic, NEW o, NEW u, InUpdate(pic, o, u), UNCHANGED <<rectVars, tileVars, lcdVars>>
    PROVE  InUpdate(pic, o, u)'
<1>0. UNCHANGED <<VNCpixelProcessorState, rectangleCount, interPixelCount, updateWindow, tile, hex,
                  hextileState, hextileBuffer, lcd, screen>>
  BY DEF rectVars, tileVars, lcdVars
<1>1. ASSUME NEW a, NEW t, InTile(a, t) PROVE InTile(a, t)'
  BY <1>0, <1>1 DEF InTile
<1>2. ASSUME NEW p, NEW r, NEW col, NEW row, Drawn(p, r, col, row) PROVE Drawn(p, r, col, row)'
  BY <1>0, <1>2 DEF Drawn, Colours, DrawingRaw, Buffered
<1>3. ASSUME NEW p, NEW a, NEW r, NEW col, NEW row, AtTile(p, a, r, col, row)
      PROVE  AtTile(p, a, r, col, row)'
  BY <1>0, <1>1, <1>2, <1>3 DEF AtTile, TileIs
<1>4. ASSUME NEW p, NEW a, NEW r, InHextile(p, a, r) PROVE InHextile(p, a, r)'
  BY <1>0, <1>3, <1>4 DEF InHextile
<1>5. ASSUME NEW p, NEW a, NEW r, InRect(p, a, r) PROVE InRect(p, a, r)'
  BY <1>0, <1>4, <1>5 DEF InRect, WindowIs
<1> QED
  BY <1>0, <1>5 DEF InUpdate

\* The server's account of the stream of a session: its length and the places
\* where messages end are numbers, and the last message is whole.
Stream ==
    /\ sent \in Int /\ ends \subseteq Int
    /\ sent \in ends /\ \A e \in ends : e <= sent

\* Where the messages of the handshake begin that the client has not parsed.
Marks ==
    /\ srv = "version" => sent - 12 \in ends
    /\ srv = "authWord" => sent - 20 \in ends /\ sent - 16 \in ends
    /\ srv \in {"clientInit", "refused"} => sent - 4 \in ends

\* The client has the initialisation message and the name to parse, the name
\* alone, or nothing.
InitPending ==
    /\ Holding("SENTCLIENTINITMESSAGE", 24 + NameLength)
    /\ (sent - 24) - NameLength \in ends /\ sent - NameLength \in ends
    /\ Ahead(buf, rx, 21) = 0 /\ Ahead(buf, rx, 22) = 0
    /\ U16(Ahead(buf, rx, 23), Ahead(buf, rx, 24)) = NameLength

NamePending ==
    /\ Holding("WAITFORSERVERNAME", NameLength)
    /\ interPixelCount = NameLength /\ sent - NameLength \in ends

Quiesced == VNCstate \in {"CONNECTED", "WAITFORUPDATE"} /\ Unread(buf, rx) = 0

\* What the client has to parse while the server waits for its set-up messages.
Naming ==
    /\ srv = "pixelFormat" => InitPending \/ NamePending \/ Quiesced
    /\ srv \in {"encodings", "fullRefresh"} => Quiesced

\* Where the k-th update begins.
Start(k) == updateEnds[k] - UpdateLength(updates[k])

\* The updates of the session are in the stream as the server encoded them, as
\* far as the client has not parsed them.
Carried ==
    /\ updateEnds \in Seq(Int) /\ Len(updateEnds) = updateNo /\ updateNo <= Len(updates)
    /\ srv # "running" => updateNo = 0
    /\ \A k \in 1..updateNo :
         /\ updateEnds[k] \in ends
         /\ Holds(Parsed, buf, rx, sent, Start(k), Rfb!UpdateEncoding(updates[k]))

\* They are in the order in which the server sent them.
Ordered == \A j, k \in 1..updateNo : j < k => updateEnds[j] <= Start(k)

\* A message that is not an update does not begin like one.
Marked ==
    srv = "running" =>
      \A e \in ends :
        Parsed <= e /\ e < sent =>
          (\E k \in 1..updateNo : e = Start(k)) \/ Ahead(buf, rx, (e + 1) - Parsed) # 0

\* The client has parsed the first n updates of the session.
HasParsed(n) == \A k \in 1..updateNo : updateEnds[k] <= Parsed <=> k <= n

\* What the client makes of the updates of the session, one after the other.
OnScreen ==
    LET after[k \in 0..Len(updates)] ==
          IF k = 0 THEN base ELSE AfterUpdate(after[k - 1], updates[k])
    IN after

\* The display shows what it makes of them.
Shown == \E n \in 0..updateNo : HasParsed(n) /\ screen = OnScreen[n]

\* The client is between two messages, and the display is up to date.
AtMessage ==
    /\ VNCstate \in {"CONNECTED", "CONNECTED_REFRESH", "WAITFORUPDATE"}
    /\ Parsed \in ends /\ Shown

\* The client has parsed a part of the k-th update, and the display shows what
\* that part makes of the picture the updates before it have left.
Within(k) ==
    Parsed - Start(k) \in Nat /\ InUpdate(OnScreen[k - 1], Parsed - Start(k), updates[k])

\* Where a client is whose server keeps to RFB: between two messages, in front
\* of one it does not know, or within an update.
Walking ==
    srv = "running" /\ Lawful =>
      \/ AtMessage
      \/ VNCstate = "DEAD"
      \/ VNCstate = "PROCESSINGUPDATE" /\ \E k \in 1..updateNo : Within(k)

\* Nothing is drawn before the server has been asked for a picture.
Blank == srv # "running" => screen = base

\* The invariant: the stream, the marks in it, the client's place and what it
\* has drawn.
Framing ==
    srv # "closed" =>
      Stream /\ Marks /\ Naming /\ Carried /\ Ordered /\ Marked /\ Blank /\ Walking

\* With the session, this is where the client looks for a message.
LEMMA FramingAligned ==
    ASSUME TypeOK, Session, Framing
    PROVE  Aligned
<1> SUFFICES ASSUME srv # "closed", Lawful,
                    VNCstate \notin {"PROCESSINGUPDATE", "DEAD", "AUTHFAILED"}
             PROVE  Parsed \in ends
  BY DEF Aligned
<1>1. Stream /\ Marks /\ Naming /\ Walking /\ sent \in Int /\ sent \in ends
  BY DEF Framing, Stream
<1>2. Len(buf) \in Nat /\ Len(rx) \in Nat
  BY LenProperties DEF TypeOK
<1>3. ASSUME NEW n \in Int, Unread(buf, rx) = n
      PROVE  Parsed = sent - n
  BY <1>1, <1>2, <1>3 DEF Parsed, Unread
<1>4. ASSUME Unread(buf, rx) = 0
      PROVE  Parsed \in ends
  <2>1. Parsed = sent - 0
    BY <1>3, <1>4
  <2> QED
    BY <1>1, <2>1
<1>5. CASE srv = "version"
  BY <1>1, <1>3, <1>4, <1>5 DEF Session, SetupRead, VersionStage, Holding, Marks
<1>6. CASE srv = "authWord"
  BY <1>1, <1>3, <1>4, <1>6 DEF Session, SetupRead, AuthWordStage, Holding, Marks
<1>7. CASE srv = "clientInit"
  BY <1>1, <1>3, <1>4, <1>7 DEF Session, SetupRead, ClientInitStage, Holding, Marks
<1>8. CASE srv = "refused"
  BY <1>1, <1>3, <1>4, <1>8 DEF Session, SetupRead, RefusedStage, Holding, Marks
<1>9. CASE srv \in {"pixelFormat", "encodings", "fullRefresh"}
  <2>0. NameLength \in Int
    BY ServerAssumption, UintNat
  <2>1. CASE InitPending
    <3>1. Parsed = sent - (24 + NameLength)
      BY <1>3, <2>0, <2>1 DEF InitPending, Holding
    <3>2. sent - (24 + NameLength) = (sent - 24) - NameLength
      BY <1>1, <2>0
    <3> QED
      BY <2>1, <3>1, <3>2 DEF InitPending
  <2>2. CASE NamePending
    BY <1>3, <2>0, <2>2 DEF NamePending, Holding
  <2>3. CASE Quiesced
    BY <1>4, <2>3 DEF Quiesced
  <2> QED
    BY <1>1, <1>9, <2>1, <2>2, <2>3 DEF Naming
<1>10. CASE srv = "running"
  BY <1>1, <1>10 DEF Walking, AtMessage
<1> QED
  BY <1>5, <1>6, <1>7, <1>8, <1>9, <1>10 DEF Session, SetupRead

\* The pictures after each of the first n updates of the session.
AreShown(f, n) ==
    f = [k \in 0..n |-> IF k = 0 THEN base
           ELSE AfterUpdate(f[k - 1], updates[k])]

\* There are such pictures for every number of updates.
LEMMA OnScreenExists == \A n \in Nat : \E f : AreShown(f, n)
<1> DEFINE S == {n \in Int : \E f : AreShown(f, n)}
<1>1. 0 \in S
  <2> DEFINE f == [k \in 0..0 |-> base]
  <2>1. AreShown(f, 0)
    BY DEF AreShown
  <2> QED
    BY <2>1
<1>2. ASSUME NEW n \in Int, n >= 0, n \in S PROVE n + 1 \in S
  <2>1. PICK f : AreShown(f, n)
    BY <1>2
  <2> DEFINE next == AfterUpdate(f[n], updates[n + 1])
             g == [k \in 0..n + 1 |-> IF k = n + 1 THEN next ELSE f[k]]
             h == [k \in 0..n + 1 |-> IF k = 0 THEN base
                      ELSE AfterUpdate(g[k - 1], updates[k])]
  <2>2. \A k \in 0..n : f[k] = IF k = 0 THEN base
                        ELSE AfterUpdate(f[k - 1], updates[k])
    BY <2>1 DEF AreShown
  <2>3. \A k \in 0..n : g[k] = f[k]
    <3> HIDE DEF next
    <3> QED
      BY <1>2
  <2>4. g[n + 1] = next
    BY <1>2
  <2>5. ASSUME NEW k \in 0..n + 1 PROVE g[k] = h[k]
    <3>1. CASE k = n + 1
      <4>1. (n + 1) - 1 = n /\ n \in 0..n /\ n + 1 # 0
        BY <1>2
      <4>2. g[(n + 1) - 1] = f[n]
        BY <2>3, <4>1
      <4> HIDE DEF g
      <4>3. h[k] = AfterUpdate(g[(n + 1) - 1], updates[n + 1])
        BY <3>1, <4>1
      <4> QED
        BY <2>4, <3>1, <4>2, <4>3
    <3>2. CASE k # n + 1
      <4>1. k \in 0..n /\ (k = 0 \/ k - 1 \in 0..n)
        BY <1>2, <3>2
      <4> HIDE DEF g
      <4> QED
        BY <2>2, <2>3, <4>1
    <3> QED
      BY <3>1, <3>2
  <2>6. AreShown(g, n + 1)
    <3>1. g = [k \in 0..n + 1 |-> g[k]] /\ h = [k \in 0..n + 1 |-> h[k]]
      OBVIOUS
    <3> HIDE DEF g, h
    <3>2. g = h
      BY <2>5, <3>1
    <3> QED
      BY <3>2 DEF AreShown, h
  <2> HIDE DEF g
  <2> QED
    BY <1>2, <2>6
<1> HIDE DEF S
<1>3. \A n \in Int : n >= 0 => n \in S
  BY <1>1, <1>2, Induction
<1> QED
  BY <1>3 DEF S

\* So OnScreen is what its recursion says.
LEMMA OnScreenIs ==
    ASSUME Len(updates) \in Nat
    PROVE  /\ OnScreen[0] = base
           /\ \A k \in 1..Len(updates) :
                OnScreen[k] = AfterUpdate(OnScreen[k - 1], updates[k])
<1>1. \E f : AreShown(f, Len(updates))
  BY OnScreenExists
<1>2. OnScreen = CHOOSE f : AreShown(f, Len(updates))
  BY DEF OnScreen, AreShown
<1>3. AreShown(OnScreen, Len(updates))
  BY <1>1, <1>2
<1> DEFINE g == OnScreen
<1> HIDE DEF g
<1>4. \A k \in 0..Len(updates) : g[k] = IF k = 0 THEN base
        ELSE AfterUpdate(g[k - 1], updates[k])
  BY <1>3 DEF AreShown, g
<1>5. 0 \in 0..Len(updates) /\ \A k \in 1..Len(updates) : k \in 0..Len(updates) /\ k # 0
  OBVIOUS
<1>6. g[0] = base /\ \A k \in 1..Len(updates) :
          g[k] = AfterUpdate(g[k - 1], updates[k])
  BY <1>4, <1>5
<1> QED
  BY <1>6 DEF g

\* It depends on the session and the script only.
LEMMA OnScreenStays == UNCHANGED <<base, updates>> => OnScreen' = OnScreen
BY DEF OnScreen

\* The encoding of an update of the script.
LEMMA ScriptUpdates ==
    ASSUME Counters
    PROVE  /\ Len(updates) \in Nat
           /\ \A k \in 1..Len(updates) :
                /\ Rfb!UpdateEncoding(updates[k]) \in Seq(Byte)
                /\ Rfb!UpdateEncoding(updates[k]) \in Seq(Int)
                /\ UpdateLength(updates[k]) \in Nat
                /\ Rfb!LawfulUpdate(updates[k]) => FitUpdate(updates[k])
<1>1. updates \in Scripts /\ Len(updates) \in Nat
  BY ServerAssumption DEF Counters
<1>2. ASSUME NEW k \in 1..Len(updates)
      PROVE  /\ Rfb!UpdateEncoding(updates[k]) \in Seq(Byte)
             /\ Rfb!UpdateEncoding(updates[k]) \in Seq(Int)
             /\ UpdateLength(updates[k]) \in Nat
             /\ Rfb!LawfulUpdate(updates[k]) => FitUpdate(updates[k])
  <2>1. Rfb!UpdateEncoding(updates[k]) \in Seq(Byte)
    BY <1>1, ServerAssumption
  <2>2. \A s \in Seq(Byte) : s \in Seq(Int) /\ Len(s) \in Nat
    <3>1. Byte \subseteq Int
      BY DEF Byte
    <3> QED
      BY <3>1, SeqMonotonic, LenProperties
  <2>3. Rfb!LawfulUpdate(updates[k]) => FitUpdate(updates[k])
    BY <1>1, UpdateAssumption DEF FitUpdate
  <2> QED
    BY <2>1, <2>2, <2>3 DEF UpdateLength
<1> QED
  BY <1>1, <1>2

\* Where an update begins is a number.
LEMMA StartInt ==
    ASSUME Counters, Carried
    PROVE  \A k \in 1..updateNo :
             /\ k \in 1..Len(updates) /\ updateEnds[k] \in Int
             /\ UpdateLength(updates[k]) \in Nat
             /\ Start(k) \in Int /\ Start(k) + UpdateLength(updates[k]) = updateEnds[k]
<1> SUFFICES ASSUME NEW k \in 1..updateNo
             PROVE  /\ k \in 1..Len(updates) /\ updateEnds[k] \in Int
                    /\ UpdateLength(updates[k]) \in Nat
                    /\ Start(k) \in Int /\ Start(k) + UpdateLength(updates[k]) = updateEnds[k]
  OBVIOUS
<1>1. updateEnds \in Seq(Int) /\ Len(updateEnds) = updateNo /\ updateNo <= Len(updates)
      /\ updateNo \in Nat /\ Len(updates) \in Nat
  BY ScriptUpdates DEF Carried, Counters
<1>2. k \in 1..Len(updates) /\ k \in 1..Len(updateEnds)
  BY <1>1
<1>3. updateEnds[k] \in Int
  BY <1>1, <1>2
<1>4. UpdateLength(updates[k]) \in Nat
  BY <1>2, ScriptUpdates
<1> QED
  BY <1>2, <1>3, <1>4 DEF Start

\* An update that keeps to RFB is not empty.
LEMMA UpdateNotEmpty ==
    ASSUME Counters, NEW k \in 1..Len(updates), Rfb!LawfulUpdate(updates[k])
    PROVE  UpdateLength(updates[k]) \in Nat /\ UpdateLength(updates[k]) > 0
<1>1. Rfb!WellFormedUpdate(updates[k])
  BY ScriptUpdates DEF FitUpdate
<1> DEFINE flat == Rfb!FlattenSeq(RectPieces(updates[k]))
<1>2. Len(Rfb!UpdateEncoding(updates[k])) = 4 + Len(flat)
  BY <1>1, UpdateShape
<1>3. flat \in Seq(Int)
  BY <1>1, UpdateTypes, Joined
<1> HIDE DEF flat
<1>4. Len(flat) \in Nat
  BY <1>3, LenProperties
<1> QED
  BY <1>2, <1>4 DEF UpdateLength

\* It ends behind its beginning.
LEMMA UpdateSpan ==
    ASSUME Counters, Carried, Lawful
    PROVE  \A k \in 1..updateNo :
             Start(k) \in Int /\ updateEnds[k] \in Int /\ Start(k) < updateEnds[k]
<1> SUFFICES ASSUME NEW k \in 1..updateNo
             PROVE  Start(k) \in Int /\ updateEnds[k] \in Int /\ Start(k) < updateEnds[k]
  OBVIOUS
<1>1. /\ k \in 1..Len(updates) /\ updateEnds[k] \in Int
      /\ Start(k) \in Int /\ Start(k) + UpdateLength(updates[k]) = updateEnds[k]
  BY StartInt
<1>2. UpdateLength(updates[k]) \in Nat /\ UpdateLength(updates[k]) > 0
  BY <1>1, UpdateNotEmpty DEF Lawful
<1> QED
  BY <1>1, <1>2

\* A client at the beginning of the k-th update has parsed the ones before.
LEMMA ParsedBefore ==
    ASSUME Counters, Carried, Ordered, Lawful, NEW k \in 1..updateNo, Parsed = Start(k),
           NEW n \in 0..updateNo, HasParsed(n)
    PROVE  n = k - 1
<1>1. Start(k) \in Int /\ updateEnds[k] \in Int /\ Start(k) < updateEnds[k] /\ updateNo \in Nat
  BY UpdateSpan DEF Counters
<1>2. ~(updateEnds[k] <= Parsed)
  BY <1>1
<1>3. ~(k <= n)
  BY <1>2 DEF HasParsed
<1>4. CASE k = 1
  BY <1>3, <1>4
<1>5. CASE k # 1
  <2>1. PICK j \in 1..updateNo : j = k - 1 /\ j < k
    BY <1>1, <1>5
  <2>2. updateEnds[j] <= Parsed
    BY <2>1 DEF Ordered
  <2>3. j <= n
    BY <2>2 DEF HasParsed
  <2> QED
    BY <1>1, <1>3, <2>1, <2>3
<1> QED
  BY <1>4, <1>5

\* At its end the client has parsed it, and none of the ones behind it.
LEMMA ParsedBehind ==
    ASSUME Counters, Carried, Ordered, Lawful, NEW k \in 1..updateNo
    PROVE  \A j \in 1..updateNo : updateEnds[j] <= updateEnds[k] <=> j <= k
<1> SUFFICES ASSUME NEW j \in 1..updateNo
             PROVE  updateEnds[j] <= updateEnds[k] <=> j <= k
  OBVIOUS
<1>1. /\ Start(k) \in Int /\ updateEnds[k] \in Int /\ Start(k) < updateEnds[k]
      /\ Start(j) \in Int /\ updateEnds[j] \in Int /\ Start(j) < updateEnds[j]
  BY UpdateSpan
<1>2. CASE j < k
  <2>1. updateEnds[j] <= Start(k)
    BY <1>2 DEF Ordered
  <2> QED
    BY <1>1, <1>2, <2>1
<1>3. CASE j = k
  BY <1>1, <1>3
<1>4. CASE k < j
  <2>1. updateEnds[k] <= Start(j)
    BY <1>4 DEF Ordered
  <2> QED
    BY <1>1, <1>4, <2>1
<1> QED
  BY <1>2, <1>3, <1>4 DEF Counters

\* The updates that are parsed to their end are the first n.
LEMMA ParsedCount ==
    ASSUME Counters, Carried, NEW n \in 0..updateNo, HasParsed(n)
    PROVE  UpdatesParsed = n
<1>1. updateNo \in Nat /\ updateEnds \in Seq(Int) /\ Len(updateEnds) = updateNo
  BY DEF Counters, Carried
<1>2. DOMAIN updateEnds = 1..updateNo
  BY <1>1, LenProperties
<1>3. {k \in DOMAIN updateEnds : updateEnds[k] <= Parsed} = 1..n
  <2>1. \A k \in 1..updateNo : updateEnds[k] <= Parsed <=> k <= n
    BY DEF HasParsed
  <2>2. {k \in DOMAIN updateEnds : updateEnds[k] <= Parsed} = {k \in 1..updateNo : k <= n}
    BY <1>2, <2>1
  <2>3. {k \in 1..updateNo : k <= n} = 1..n
    BY <1>1
  <2> QED
    BY <2>2, <2>3
<1>4. Cardinality(1..n) = n
  <2>1. 1 \in Int /\ n \in Int
    BY <1>1
  <2>2. Cardinality(1..n) = IF 1 > n THEN 0 ELSE n - 1 + 1
    BY <2>1, FS_Interval
  <2> QED
    BY <1>1, <2>2
<1> QED
  BY <1>3, <1>4 DEF UpdatesParsed

-----------------------------------------------------------------------------
(* What the client draws, and what there is to show *)

\* What there is to show before and after each rectangle of an update.
AreViews(f, view, u, n) ==
    f = [i \in 0..n |-> IF i = 0 THEN view
                        ELSE ToShow(f[i - 1], u[i])]

\* It exists for every number of rectangles.
LEMMA ViewsExist ==
    ASSUME NEW view, NEW u
    PROVE  \A n \in Nat : \E f : AreViews(f, view, u, n)
<1> DEFINE S == {n \in Int : \E f : AreViews(f, view, u, n)}
<1>1. 0 \in S
  <2> DEFINE f == [i \in 0..0 |-> view]
  <2>1. AreViews(f, view, u, 0)
    BY DEF AreViews
  <2> QED
    BY <2>1
<1>2. ASSUME NEW n \in Int, n >= 0, n \in S PROVE n + 1 \in S
  <2>1. PICK f : AreViews(f, view, u, n)
    BY <1>2
  <2> DEFINE next == ToShow(f[n], u[n + 1])
             g == [i \in 0..n + 1 |-> IF i = n + 1 THEN next ELSE f[i]]
             h == [i \in 0..n + 1 |-> IF i = 0 THEN view
                      ELSE ToShow(g[i - 1], u[i])]
  <2>2. \A i \in 0..n : f[i] = IF i = 0 THEN view
                        ELSE ToShow(f[i - 1], u[i])
    BY <2>1 DEF AreViews
  <2>3. \A i \in 0..n : g[i] = f[i]
    <3> HIDE DEF next
    <3> QED
      BY <1>2
  <2>4. g[n + 1] = next
    BY <1>2
  <2>5. ASSUME NEW i \in 0..n + 1 PROVE g[i] = h[i]
    <3>1. CASE i = n + 1
      <4>1. (n + 1) - 1 = n /\ n \in 0..n /\ n + 1 # 0
        BY <1>2
      <4>2. g[(n + 1) - 1] = f[n]
        BY <2>3, <4>1
      <4> HIDE DEF g
      <4>3. h[i] = ToShow(g[(n + 1) - 1], u[n + 1])
        BY <3>1, <4>1
      <4> QED
        BY <2>4, <3>1, <4>2, <4>3
    <3>2. CASE i # n + 1
      <4>1. i \in 0..n /\ (i = 0 \/ i - 1 \in 0..n)
        BY <1>2, <3>2
      <4> HIDE DEF g
      <4> QED
        BY <2>2, <2>3, <4>1
    <3> QED
      BY <3>1, <3>2
  <2>6. AreViews(g, view, u, n + 1)
    <3>1. g = [i \in 0..n + 1 |-> g[i]] /\ h = [i \in 0..n + 1 |-> h[i]]
      OBVIOUS
    <3> HIDE DEF g, h
    <3>2. g = h
      BY <2>5, <3>1
    <3> QED
      BY <3>2 DEF AreViews, h
  <2> HIDE DEF g
  <2> QED
    BY <1>2, <2>6
<1> HIDE DEF S
<1>3. \A n \in Int : n >= 0 => n \in S
  BY <1>1, <1>2, Induction
<1> QED
  BY <1>3 DEF S

\* So Views is what its recursion says.
LEMMA ViewsAre ==
    ASSUME NEW view, NEW u, Len(u) \in Nat
    PROVE  /\ Views(view, u)[0] = view
           /\ \A i \in 1..Len(u) :
                Views(view, u)[i]
                  = ToShow(Views(view, u)[i - 1], u[i])
<1>1. \E f : AreViews(f, view, u, Len(u))
  BY ViewsExist
<1>2. Views(view, u) = CHOOSE f : AreViews(f, view, u, Len(u))
  BY DEF Views, AreViews
<1>3. AreViews(Views(view, u), view, u, Len(u))
  BY <1>1, <1>2
<1> DEFINE g == Views(view, u)
<1> HIDE DEF g
<1>4. \A i \in 0..Len(u) : g[i] = IF i = 0 THEN view
                        ELSE ToShow(g[i - 1], u[i])
  BY <1>3 DEF AreViews, g
<1>5. 0 \in 0..Len(u) /\ \A i \in 1..Len(u) : i \in 0..Len(u) /\ i # 0
  OBVIOUS
<1>6. g[0] = view /\ \A i \in 1..Len(u) : 
          g[i] = ToShow(g[i - 1], u[i])
  BY <1>4, <1>5
<1> QED
  BY <1>6 DEF g

\* What there is to show after each of the first n updates of the session.
First == [picture |-> base, stale |-> {}]
AreExpected(f, n) ==
    f = [k \in 0..n |-> IF k = 0 THEN First
           ELSE Views(f[k - 1], updates[k])[Len(updates[k])]]

\* It exists for every number of updates.
LEMMA ExpectedExists == \A n \in Nat : \E f : AreExpected(f, n)
<1> DEFINE S == {n \in Int : \E f : AreExpected(f, n)}
<1>1. 0 \in S
  <2> DEFINE f == [k \in 0..0 |-> First]
  <2>1. AreExpected(f, 0)
    BY DEF AreExpected
  <2> QED
    BY <2>1
<1>2. ASSUME NEW n \in Int, n >= 0, n \in S PROVE n + 1 \in S
  <2>1. PICK f : AreExpected(f, n)
    BY <1>2
  <2> DEFINE next == Views(f[n], updates[n + 1])[Len(updates[n + 1])]
             g == [k \in 0..n + 1 |-> IF k = n + 1 THEN next ELSE f[k]]
             h == [k \in 0..n + 1 |-> IF k = 0 THEN First
                      ELSE Views(g[k - 1], updates[k])[Len(updates[k])]]
  <2>2. \A k \in 0..n : f[k] = IF k = 0 THEN First
                        ELSE Views(f[k - 1], updates[k])[Len(updates[k])]
    BY <2>1 DEF AreExpected
  <2>3. \A k \in 0..n : g[k] = f[k]
    <3> HIDE DEF next
    <3> QED
      BY <1>2
  <2>4. g[n + 1] = next
    BY <1>2
  <2>5. ASSUME NEW k \in 0..n + 1 PROVE g[k] = h[k]
    <3>1. CASE k = n + 1
      <4>1. (n + 1) - 1 = n /\ n \in 0..n /\ n + 1 # 0
        BY <1>2
      <4>2. g[(n + 1) - 1] = f[n]
        BY <2>3, <4>1
      <4> HIDE DEF g
      <4>3. h[k] = Views(g[(n + 1) - 1], updates[n + 1])[Len(updates[n + 1])]
        BY <3>1, <4>1
      <4> QED
        BY <2>4, <3>1, <4>2, <4>3
    <3>2. CASE k # n + 1
      <4>1. k \in 0..n /\ (k = 0 \/ k - 1 \in 0..n)
        BY <1>2, <3>2
      <4> HIDE DEF g
      <4> QED
        BY <2>2, <2>3, <4>1
    <3> QED
      BY <3>1, <3>2
  <2>6. AreExpected(g, n + 1)
    <3>1. g = [k \in 0..n + 1 |-> g[k]] /\ h = [k \in 0..n + 1 |-> h[k]]
      OBVIOUS
    <3> HIDE DEF g, h
    <3>2. g = h
      BY <2>5, <3>1
    <3> QED
      BY <3>2 DEF AreExpected, h
  <2> HIDE DEF g
  <2> QED
    BY <1>2, <2>6
<1> HIDE DEF S
<1>3. \A n \in Int : n >= 0 => n \in S
  BY <1>1, <1>2, Induction
<1> QED
  BY <1>3 DEF S

\* So Expected is what its recursion says.
LEMMA ExpectedIs ==
    ASSUME Len(updates) \in Nat
    PROVE  /\ Expected[0] = First
           /\ \A k \in 1..Len(updates) :
                Expected[k] = Views(Expected[k - 1], updates[k])[Len(updates[k])]
<1>1. \E f : AreExpected(f, Len(updates))
  BY ExpectedExists
<1>2. Expected = CHOOSE f : AreExpected(f, Len(updates))
  BY DEF Expected, AreExpected, First
<1>3. AreExpected(Expected, Len(updates))
  BY <1>1, <1>2
<1> DEFINE g == Expected
<1> HIDE DEF g
<1>4. \A k \in 0..Len(updates) : g[k] = IF k = 0 THEN First
        ELSE Views(g[k - 1], updates[k])[Len(updates[k])]
  BY <1>3 DEF AreExpected, g
<1>5. 0 \in 0..Len(updates) /\ \A k \in 1..Len(updates) : k \in 0..Len(updates) /\ k # 0
  OBVIOUS
<1>6. g[0] = First /\ \A k \in 1..Len(updates) :
          g[k] = Views(g[k - 1], updates[k])[Len(updates[k])]
  BY <1>4, <1>5
<1> QED
  BY <1>6 DEF g

\* A picture is what there is to show, but for what the client has not drawn.
Alike(pic, view) ==
    /\ DOMAIN view.picture = DOMAIN pic
    /\ \A p \in DOMAIN pic : p \in Pixels \ view.stale => pic[p] = view.picture[p]

\* It stays so when the client draws its part of a rectangle.
LEMMA RectAlike ==
    ASSUME NEW pic, NEW view, NEW r, Alike(pic, view)
    PROVE  Alike(Decoded(pic, r), ToShow(view, r))
<1> DEFINE next == Decoded(pic, r)
           shown == ToShow(view, r)
<1>1. /\ DOMAIN view.picture = DOMAIN pic
      /\ \A p \in DOMAIN pic : p \in Pixels \ view.stale => pic[p] = view.picture[p]
  BY DEF Alike
<1>2. /\ shown.picture = Rfb!Painted(view.picture, r)
      /\ shown.stale = {p \in Pixels : IF Rfb!Inside(r, p) THEN ~Draws(r, p) ELSE p \in view.stale}
  BY DEF ToShow
<1>3. DOMAIN next = DOMAIN pic /\ DOMAIN shown.picture = DOMAIN pic
  BY <1>1, <1>2 DEF Decoded, Rfb!Painted
<1>4. ASSUME NEW p \in DOMAIN pic, p \in Pixels \ shown.stale
      PROVE  next[p] = shown.picture[p]
  <2>1. next[p] = IF Rfb!Inside(r, p) /\ Draws(r, p) THEN Rfb!HextileColour(r, p) ELSE pic[p]
    BY DEF Decoded
  <2>2. CASE Rfb!Inside(r, p)
    <3>1. Draws(r, p) /\ r.enc = 5
      BY <1>2, <1>4, <2>2 DEF Draws
    <3>2. shown.picture[p] = Rfb!HextileColour(r, p)
      BY <1>1, <1>2, <2>2, <3>1 DEF Rfb!Painted
    <3> QED
      BY <2>1, <2>2, <3>1, <3>2
  <2>3. CASE ~Rfb!Inside(r, p)
    <3>1. p \notin view.stale
      BY <1>2, <1>4, <2>3
    <3>2. shown.picture[p] = view.picture[p]
      BY <1>1, <1>2, <2>3 DEF Rfb!Painted
    <3> QED
      BY <1>1, <1>4, <2>1, <2>3, <3>1, <3>2
  <2> QED
    BY <2>2, <2>3
<1> HIDE DEF next, shown
<1> QED
  BY <1>3, <1>4 DEF Alike, next, shown

\* And when it does so rectangle by rectangle.
LEMMA UpdateAlike ==
    ASSUME NEW pic, NEW view, NEW u, Len(u) \in Nat, Alike(pic, view)
    PROVE  Alike(AfterUpdate(pic, u), Views(view, u)[Len(u)])
<1> DEFINE S == {i \in Int : i <= Len(u) => Alike(After(pic, u)[i], Views(view, u)[i])}
<1>1. /\ After(pic, u)[0] = pic /\ AfterUpdate(pic, u) = After(pic, u)[Len(u)]
      /\ \A i \in 1..Len(u) : After(pic, u)[i] = Decoded(After(pic, u)[i - 1], u[i])
  BY PicturesAre
<1>2. /\ Views(view, u)[0] = view
      /\ \A i \in 1..Len(u) : Views(view, u)[i] = ToShow(Views(view, u)[i - 1], u[i])
  BY ViewsAre
<1>3. 0 \in S
  BY <1>1, <1>2
<1>4. ASSUME NEW i \in Int, i >= 0, i \in S PROVE i + 1 \in S
  <2> SUFFICES ASSUME i + 1 <= Len(u)
               PROVE  Alike(After(pic, u)[i + 1], Views(view, u)[i + 1])
    OBVIOUS
  <2>1. i + 1 \in 1..Len(u) /\ (i + 1) - 1 = i /\ i <= Len(u)
    BY <1>4
  <2>2. Alike(After(pic, u)[i], Views(view, u)[i])
    BY <1>4, <2>1
  <2>3. /\ After(pic, u)[i + 1] = Decoded(After(pic, u)[i], u[i + 1])
        /\ Views(view, u)[i + 1] = ToShow(Views(view, u)[i], u[i + 1])
    BY <1>1, <1>2, <2>1
  <2> QED
    BY <2>2, <2>3, RectAlike
<1> HIDE DEF S
<1>5. \A i \in Int : i >= 0 => i \in S
  BY <1>3, <1>4, Induction
<1>6. Len(u) \in S
  BY <1>5
<1> QED
  BY <1>1, <1>6 DEF S

\* And update by update, if each of them is an update of RFB.
LEMMA ScreenAlike ==
    ASSUME Len(updates) \in Nat, NEW n \in 0..Len(updates),
           \A k \in 1..n : Len(updates[k]) \in Nat
    PROVE  Alike(OnScreen[n], Expected[n])
<1> DEFINE S == {k \in Int : k <= n => Alike(OnScreen[k], Expected[k])}
<1>1. /\ OnScreen[0] = base
      /\ \A k \in 1..Len(updates) : OnScreen[k] = AfterUpdate(OnScreen[k - 1], updates[k])
  BY OnScreenIs
<1>2. /\ Expected[0] = First
      /\ \A k \in 1..Len(updates) :
           Expected[k] = Views(Expected[k - 1], updates[k])[Len(updates[k])]
  BY ExpectedIs
<1>3. 0 \in S
  BY <1>1, <1>2 DEF Alike, First
<1>4. ASSUME NEW k \in Int, k >= 0, k \in S PROVE k + 1 \in S
  <2> SUFFICES ASSUME k + 1 <= n PROVE Alike(OnScreen[k + 1], Expected[k + 1])
    OBVIOUS
  <2>1. k + 1 \in 1..Len(updates) /\ k + 1 \in 1..n /\ (k + 1) - 1 = k /\ k <= n
    BY <1>4
  <2>2. Alike(OnScreen[k], Expected[k]) /\ Len(updates[k + 1]) \in Nat
    BY <1>4, <2>1
  <2>3. /\ OnScreen[k + 1] = AfterUpdate(OnScreen[k], updates[k + 1])
        /\ Expected[k + 1] = Views(Expected[k], updates[k + 1])[Len(updates[k + 1])]
    BY <1>1, <1>2, <2>1
  <2> QED
    BY <2>2, <2>3, UpdateAlike
<1> HIDE DEF S
<1>5. \A k \in Int : k >= 0 => k \in S
  <2>1. \A k \in Int : k >= 0 /\ k \in S => k + 1 \in S
    BY <1>4
  <2>2. 0 \in Int
    OBVIOUS
  <2> QED
    BY ONLY <1>3, <2>1, <2>2, Induction
<1>6. n \in S
  BY <1>5
<1> QED
  BY <1>6 DEF S

-----------------------------------------------------------------------------
(* What follows from the invariant *)

\* So the display is up to date between two messages.
LEMMA FramingExact ==
    ASSUME TypeOK, Counters, Framing
    PROVE  PictureExact
<1> SUFFICES ASSUME UpToDate
             PROVE  \A p \in Pixels \ Expected[UpdatesParsed].stale :
                      screen[p] = Expected[UpdatesParsed].picture[p]
  BY DEF PictureExact
<1>0. /\ srv # "closed" /\ Lawful
      /\ VNCstate \in {"CONNECTED", "CONNECTED_REFRESH", "WAITFORUPDATE"}
  BY DEF UpToDate
<1>1. Carried /\ Blank /\ Walking
  BY <1>0 DEF Framing
<1>2. PICK n \in 0..updateNo : HasParsed(n) /\ screen = OnScreen[n]
  <2>1. CASE srv = "running"
    BY <1>0, <1>1, <2>1 DEF Walking, AtMessage, Shown
  <2>2. CASE srv # "running"
    <3>1. updateNo = 0 /\ screen = base
      BY <1>1, <2>2 DEF Carried, Blank
    <3>2. HasParsed(0)
      BY <3>1 DEF HasParsed
    <3>3. OnScreen[0] = base
      BY ScriptUpdates, OnScreenIs
    <3> QED
      BY <3>1, <3>2, <3>3
  <2> QED
    BY <2>1, <2>2
<1>3. UpdatesParsed = n
  BY <1>1, <1>2, ParsedCount
<1>4. Len(updates) \in Nat /\ n \in 0..Len(updates) /\ \A k \in 1..n : Len(updates[k]) \in Nat
  <2>1. Len(updates) \in Nat /\ updateNo \in Nat /\ updateNo <= Len(updates)
    BY <1>1, ScriptUpdates DEF Carried, Counters
  <2>2. ASSUME NEW k \in 1..n PROVE Len(updates[k]) \in Nat
    <3>1. k \in 1..updateNo /\ k \in 1..Len(updates)
      BY <2>1
    <3>2. Rfb!WellFormedUpdate(updates[k])
      BY <1>0, <3>1, ScriptUpdates DEF Lawful, FitUpdate
    <3> QED
      BY <3>2, UpdateTypes
  <2> QED
    BY <2>1, <2>2
<1>5. Alike(screen, Expected[n])
  BY <1>2, <1>4, ScreenAlike
<1>6. DOMAIN screen = Pixels
  BY DEF TypeOK
<1> QED
  BY <1>3, <1>5, <1>6 DEF Alike

\* A step that neither parses nor draws leaves the display up to date.
LEMMA ShownStays ==
    ASSUME Shown, UNCHANGED <<updates, updateNo, updateEnds, base, screen>>, Parsed' = Parsed
    PROVE  Shown'
<1>1. PICK n \in 0..updateNo : HasParsed(n) /\ screen = OnScreen[n]
  BY DEF Shown
<1>2. OnScreen' = OnScreen
  BY OnScreenStays
<1>3. HasParsed(n)'
  BY <1>1 DEF HasParsed
<1> QED
  BY <1>1, <1>2, <1>3 DEF Shown

\* A step that moves no byte in the stream and forgets no mark.
Onward ==
    /\ TypeOK /\ TypeOK' /\ Counters /\ Stream
    /\ UNCHANGED <<updates, updateNo, updateEnds>>
    /\ ends \subseteq ends' /\ ends' \subseteq Int /\ sent' \in Int
    /\ Kept(Parsed, buf, rx, sent, Parsed', buf', rx', sent')

\* The client's place, as a number.
LEMMA ParsedInt ==
    ASSUME TypeOK, sent \in Int
    PROVE  /\ Parsed \in Int /\ Parsed <= sent /\ Unread(buf, rx) = sent - Parsed
           /\ Parsed = Place(sent, buf, rx)
<1>1. Len(buf) \in Nat /\ Len(rx) \in Nat
  BY LenProperties DEF TypeOK
<1> QED
  BY <1>1 DEF Parsed, Unread, Place

\* The same after a step.
LEMMA ParsedIntNext ==
    ASSUME TypeOK', sent' \in Int
    PROVE  /\ Parsed' \in Int /\ Parsed' <= sent' /\ Unread(buf', rx') = sent' - Parsed'
           /\ Parsed' = Place(sent', buf', rx')
<1>1. Len(buf') \in Nat /\ Len(rx') \in Nat
  BY LenProperties DEF TypeOK
<1> QED
  BY <1>1 DEF Parsed, Unread, Place

\* It leaves the updates in their places.
LEMMA CarriedOn ==
    ASSUME Onward, Carried, srv' # "running" => updateNo = 0
    PROVE  Carried' /\ \A k \in 1..updateNo : Start(k)' = Start(k)
<1>0. TypeOK /\ TypeOK' /\ Counters /\ Stream /\ sent \in Int /\ sent' \in Int
  BY DEF Onward, Stream
<1>1. Parsed \in Int /\ Parsed' \in Int
  BY <1>0, ParsedInt, ParsedIntNext
<1>2. UNCHANGED <<updates, updateNo, updateEnds>> /\ ends \subseteq ends'
      /\ Kept(Parsed, buf, rx, sent, Parsed', buf', rx', sent')
  BY DEF Onward
<1>3. ASSUME NEW k \in 1..updateNo
      PROVE  /\ updateEnds[k]' \in ends'
             /\ Start(k)' = Start(k)
             /\ Holds(Parsed', buf', rx', sent', Start(k), Rfb!UpdateEncoding(updates[k]))
  <2>1. k \in 1..Len(updates) /\ Start(k) \in Int
    BY <1>0, StartInt
  <2>2. Rfb!UpdateEncoding(updates[k]) \in Seq(Int)
    BY <1>0, <2>1, ScriptUpdates
  <2>3. Holds(Parsed, buf, rx, sent, Start(k), Rfb!UpdateEncoding(updates[k]))
        /\ updateEnds[k] \in ends
    BY DEF Carried
  <2>4. Holds(Parsed', buf', rx', sent', Start(k), Rfb!UpdateEncoding(updates[k]))
    <3> DEFINE p == Parsed  p2 == Parsed'  b2 == buf'  r2 == rx'  s2 == sent'
               at == Start(k)  bytes == Rfb!UpdateEncoding(updates[k])
    <3>1. /\ p \in Int /\ sent \in Int /\ p2 \in Int /\ s2 \in Int /\ at \in Int /\ bytes \in Seq(Int)
          /\ Kept(p, buf, rx, sent, p2, b2, r2, s2) /\ Holds(p, buf, rx, sent, at, bytes)
      BY <1>0, <1>1, <1>2, <2>1, <2>2, <2>3
    <3> HIDE DEF p, p2, b2, r2, s2, at, bytes
    <3>2. Holds(p2, b2, r2, s2, at, bytes)
      BY <3>1, HoldsOn
    <3> QED
      BY <3>2 DEF p2, b2, r2, s2, at, bytes
  <2>5. Start(k)' = Start(k) /\ updateEnds[k]' \in ends'
    BY <1>2, <2>3 DEF Start
  <2> QED
    BY <2>4, <2>5
<1>4. Carried'
  <2>1. updateEnds' \in Seq(Int) /\ Len(updateEnds') = updateNo' /\ updateNo' <= Len(updates')
    BY <1>2 DEF Carried
  <2>2. \A k \in 1..updateNo' :
          /\ updateEnds'[k] \in ends'
          /\ Holds(Parsed', buf', rx', sent', Start(k)', Rfb!UpdateEncoding(updates'[k]))
    BY <1>2, <1>3
  <2>3. (srv # "running" => updateNo = 0)'
    BY <1>2
  <2> QED
    BY <2>1, <2>2, <2>3 DEF Carried
<1> QED
  BY <1>3, <1>4

\* A step of the client leaves the other messages where they are.
LEMMA MarkedOn ==
    ASSUME Onward, Carried, Marked, UNCHANGED <<srv, sent, ends>>
    PROVE  Marked'
<1>0. TypeOK /\ TypeOK' /\ Counters /\ sent \in Int /\ sent' \in Int /\ ends \subseteq Int
  BY DEF Onward, Stream
<1>1. Parsed \in Int /\ Parsed' \in Int
  BY <1>0, ParsedInt, ParsedIntNext
<1>2. /\ updateNo' = updateNo /\ Parsed <= Parsed'
      /\ \A x \in Int : Parsed' < x /\ x <= sent
           => Ahead(buf', rx', x - Parsed') = Ahead(buf, rx, x - Parsed)
  BY DEF Onward, Kept
<1>3. \A k \in 1..updateNo : Start(k)' = Start(k)
  BY DEF Onward, Start
<1>4. ASSUME srv = "running", NEW e \in ends, Parsed' <= e, e < sent
      PROVE  (\E k \in 1..updateNo : e = Start(k)') \/ Ahead(buf', rx', (e + 1) - Parsed') # 0
  <2>0. e \in Int /\ e + 1 \in Int /\ Parsed <= e /\ Parsed' < e + 1 /\ e + 1 <= sent
    BY <1>0, <1>1, <1>2, <1>4
  <2>1. (\E k \in 1..updateNo : e = Start(k)) \/ Ahead(buf, rx, (e + 1) - Parsed) # 0
    BY <1>4, <2>0 DEF Marked
  <2>2. Ahead(buf', rx', (e + 1) - Parsed') = Ahead(buf, rx, (e + 1) - Parsed)
    BY <1>2, <2>0
  <2> QED
    BY <1>3, <2>1, <2>2
<1> QED
  BY <1>2, <1>4 DEF Marked

\* A step of the client that leaves the parser alone.
LEMMA WalkingStays ==
    ASSUME Walking, Parsed' = Parsed, ends \subseteq ends',
           UNCHANGED <<srv, VNCstate, rectVars, tileVars, lcdVars, updates, updateNo, updateEnds,
                       base>>
    PROVE  Walking'
<1>0. screen' = screen /\ OnScreen' = OnScreen
  BY OnScreenStays DEF lcdVars
<1>1. ASSUME NEW k \in 1..updateNo, Within(k) PROVE Within(k)'
  <2>1. Start(k)' = Start(k)
    BY DEF Start
  <2> DEFINE o == Parsed - Start(k)
             u == updates[k]
  <2>2. (Parsed - Start(k))' = o /\ u' = u
    BY <2>1
  <2>3. o \in Nat /\ InUpdate(OnScreen[k - 1], o, u)
    BY <1>1 DEF Within
  <2>4. UNCHANGED <<rectVars, tileVars, lcdVars>>
    OBVIOUS
  <2> HIDE DEF o, u
  <2>5. \A p, a, v : InUpdate(p, a, v) => InUpdate(p, a, v)'
    BY <2>4, InUpdateStays
  <2>6. PICK p, a, v : p = OnScreen[k - 1] /\ a = o /\ v = u
    OBVIOUS
  <2>7. InUpdate(p, a, v)'
    BY <2>3, <2>5, <2>6
  <2>8. (Parsed - Start(k))' = a /\ updates'[k] = v /\ OnScreen'[k - 1] = p
    BY <1>0, <2>2, <2>6 DEF u
  <2> QED
    BY <2>3, <2>6, <2>7, <2>8 DEF Within, InUpdate
<1>2. AtMessage => AtMessage'
  BY <1>0, ShownStays DEF AtMessage
<1>3. Lawful' => Lawful
  BY DEF Lawful
<1> QED
  BY <1>1, <1>2, <1>3 DEF Walking

\* pixelProcessor is called in one state only.
LEMMA PixelState == PixelProcessor => VNCstate = "PROCESSINGUPDATE"
BY DEF PixelProcessor, UpdateDone, WaitForRectangle, BadEncoding, RawRectangle,
   CopyRectRectangle, HextileRectangle, RectangleHeader, DropRectangle, ProcessCopyRect,
   ProcessHextile, HextileInit, HextileLastTile, HextileNextTile, HextileWaitHeader,
   HextileRawHeader, HextileHeader, HeaderHere, HextileDropRaw, HextileDrawRaw,
   HextileSubrect, HextileSubrectOverrun, HextileWaitSubrect, HextileBufferFilled,
   HextileDrawTile, HextileSkipTile, HextileProcessing, PixelProcessing, Processing

\* A call of Vnc_StateMachine moves the client on by what it takes.
LEMMA ParseOnward ==
    ASSUME TypeOK, TypeOK', Counters, Stream, Vnc_StateMachine, UNCHANGED srvVars
    PROVE  Onward /\ TakenFront /\ Parsed' = Parsed + (Len(buf) - Len(buf'))
<1>1. rx' = rx /\ TakenFront
  BY ParseStep, MachineTakes
<1>2. UNCHANGED <<updates, updateNo, updateEnds, sent, ends>> /\ sent \in Int /\ sent' \in Int
      /\ ends \subseteq Int
  BY DEF srvVars, Stream
<1>3. Parsed = Place(sent, buf, rx) /\ Parsed' = Place(sent', buf', rx')
  BY <1>2, ParsedInt, ParsedIntNext
<1>4. PICK p, p2 : p = Parsed /\ p2 = Parsed'
  OBVIOUS
<1>5. p2 = p + (Len(buf) - Len(buf')) /\ Kept(p, buf, rx, sent, p2, buf', rx', sent')
  BY <1>1, <1>2, <1>3, <1>4, TakeKept
<1> QED
  BY <1>1, <1>2, <1>4, <1>5 DEF Onward

\* What is in vncBuffer where the client is within an update.
LEMMA FrontHere ==
    ASSUME TypeOK, Counters, Stream, Carried, NEW k \in 1..updateNo,
           NEW o \in Nat, o = Parsed - Start(k)
    PROVE  Front(o, Rfb!UpdateEncoding(updates[k]))
<1>1. k \in 1..Len(updates) /\ Start(k) \in Int
  BY StartInt
<1>2. sent \in Int /\ Parsed \in Int
  BY ParsedInt DEF Stream
<1> DEFINE bytes == Rfb!UpdateEncoding(updates[k])
           at == Start(k)
           place == Parsed
<1>3. bytes \in Seq(Int) /\ at \in Int /\ place \in Int /\ place >= at /\ o = place - at
      /\ buf \in Seq(Byte) /\ Holds(place, buf, rx, sent, at, bytes)
  BY <1>1, <1>2, ScriptUpdates DEF Carried, TypeOK
<1> HIDE DEF bytes, at, place
<1>4. \A i \in 1..Len(buf) : (place - at) + i <= Len(bytes) => buf[i] = bytes[(place - at) + i]
  BY <1>2, <1>3, HoldsHere
<1>5. Front(o, bytes)
  BY <1>3, <1>4 DEF Front
<1> QED
  BY <1>5 DEF bytes

\* Between two messages the client goes on with the next one: an update, or
\* something it does not know.
LEMMA MessageParse ==
    ASSUME TypeOK, TypeOK', Counters, Stream, Carried, Ordered, Marked, AtMessage, Lawful,
           srv = "running", Vnc_StateMachine, UNCHANGED srvVars
    PROVE  Walking'
<1>1. Onward /\ TakenFront /\ Parsed' = Parsed + (Len(buf) - Len(buf'))
  BY ParseOnward
<1>2. UNCHANGED <<srv, updates, updateNo, updateEnds, sent, ends, base>>
  BY DEF srvVars
<1>3. Len(buf) \in Nat /\ Len(rx) \in Nat /\ sent \in Int /\ Parsed \in Int
      /\ Parsed \in ends /\ Len(buf) + Len(rx) = sent - Parsed
  BY ParsedInt, LenProperties DEF TypeOK, Stream, AtMessage, Unread
<1>4. CASE /\ buf' = buf /\ UNCHANGED lcdVars
           /\ VNCstate' \in {"CONNECTED", "CONNECTED_REFRESH", "WAITFORUPDATE", "DEAD"}
  <2>1. Parsed' = Parsed
    BY <1>1, <1>3, <1>4
  <2>2. Shown'
    BY <1>2, <1>4, <2>1, ShownStays DEF AtMessage, lcdVars
  <2> QED
    BY <1>2, <1>3, <1>4, <2>1, <2>2 DEF Walking, AtMessage
<1>5. CASE Connected
  <2>1. VNCstate' \in {"CONNECTED", "WAITFORUPDATE"} /\ Len(buf') = Len(buf) /\ UNCHANGED lcdVars
    <3>1. CASE WaitForBytes(0)
      BY <1>3, <3>1 DEF WaitForBytes
    <3>2. CASE ~WaitForBytes(0)
      <4>1. VNCstate' = "WAITFORUPDATE" /\ Consume(0) /\ UNCHANGED lcdVars
        BY <1>5, <3>2 DEF Connected, Handshake
      <4> QED
        BY <1>3, <4>1, ConsumeFront
    <3> QED
      BY <3>1, <3>2
  <2>2. Parsed' = Parsed
    BY <1>1, <1>3, <2>1
  <2>3. Shown'
    BY <1>2, <2>1, <2>2, ShownStays DEF AtMessage, lcdVars
  <2> QED
    BY <1>2, <1>3, <2>1, <2>2, <2>3 DEF Walking, AtMessage
<1>6. CASE WaitForUpdate
  <2>1. CASE VNCstate' = "PROCESSINGUPDATE"
    <3>1. Len(buf) >= 4 /\ buf[1] = 0
      BY <1>6, <2>1 DEF WaitForUpdate, WaitForBytes, connVars
    <3>2. Ahead(buf, rx, 1) = 0 /\ Parsed < sent /\ (Parsed + 1) - Parsed = 1
      BY <1>3, <3>1 DEF Ahead
    <3>3. PICK k \in 1..updateNo : Parsed = Start(k)
      BY <1>3, <3>2 DEF Marked
    <3>4. k \in 1..Len(updates) /\ Start(k) \in Int
      BY StartInt
    <3>5. PICK u : u = updates[k]
      OBVIOUS
    <3>6. FitUpdate(u)
      BY <3>4, <3>5, ScriptUpdates DEF Lawful
    <3>7. Front(0, Rfb!UpdateEncoding(u))
      BY <1>3, <3>3, <3>5, FrontHere
    <3>8. screen = OnScreen[k - 1]
      <4>1. PICK n \in 0..updateNo : HasParsed(n) /\ screen = OnScreen[n]
        BY DEF AtMessage, Shown
      <4>2. n = k - 1
        BY <3>3, <4>1, ParsedBefore
      <4> QED
        BY <4>1, <4>2
    <3>9. PICK pic : pic = OnScreen[k - 1]
      OBVIOUS
    <3>10. InUpdate(pic, 4, u)' /\ Len(buf) - Len(buf') = 4
      BY <1>6, <2>1, <3>6, <3>7, <3>8, <3>9, UpdateBegins
    <3>11. Start(k)' = Start(k) /\ updates'[k] = u /\ OnScreen'[k - 1] = pic
      BY <1>2, <3>5, <3>9, OnScreenStays DEF Start
    <3>12. Parsed' - Start(k)' = 4
      BY <1>1, <1>3, <3>3, <3>4, <3>10, <3>11
    <3>13. Within(k)'
      BY <3>10, <3>11, <3>12 DEF Within, InUpdate
    <3> QED
      BY <1>2, <2>1, <3>13 DEF Walking
  <2>2. CASE VNCstate' # "PROCESSINGUPDATE"
    <3>1. /\ buf' = buf /\ UNCHANGED lcdVars
          /\ VNCstate' \in {"CONNECTED_REFRESH", "WAITFORUPDATE", "DEAD"}
      BY <1>6, <2>2 DEF WaitForUpdate, WaitForBytes, Return0, connVars
    <3> QED
      BY <1>4, <3>1
  <2> QED
    BY <2>1, <2>2
<1> QED
  <2>1. VNCstate \in {"CONNECTED", "CONNECTED_REFRESH", "WAITFORUPDATE"}
    BY DEF AtMessage
  <2>2. ~PixelProcessor
    BY <2>1, PixelState
  <2> QED
    BY <1>5, <1>6, <2>1, <2>2 DEF Vnc_StateMachine, NotConnected, WaitForAuthType,
       WaitForVncAuthWord, WaitForVncAuthResponse, SentClientInitMessage, WaitForServerName,
       ProcessError, Processing

\* Within an update the client goes on with it, or has come to its end.
LEMMA UpdateParse ==
    ASSUME TypeOK, TypeOK', Counters, Stream, Carried, Ordered, Lawful,
           VNCstate = "PROCESSINGUPDATE",
           NEW k \in 1..updateNo, Within(k),
           srv = "running", Vnc_StateMachine, UNCHANGED srvVars
    PROVE  Walking'
<1>1. Onward /\ TakenFront /\ Parsed' = Parsed + (Len(buf) - Len(buf'))
  BY ParseOnward
<1>2. UNCHANGED <<srv, updates, updateNo, updateEnds, sent, ends>> /\ OnScreen' = OnScreen
  BY OnScreenStays DEF srvVars
<1>3. Len(buf) \in Nat /\ Len(buf') \in Nat /\ sent \in Int /\ Parsed \in Int
  BY ParsedInt, LenProperties DEF TypeOK, Stream
<1>4. PixelProcessor
  BY DEF Vnc_StateMachine, NotConnected, WaitForAuthType, WaitForVncAuthWord,
     WaitForVncAuthResponse, SentClientInitMessage, WaitForServerName, Connected,
     WaitForUpdate, ProcessError, Processing
<1>5. /\ k \in 1..Len(updates) /\ Start(k) \in Int /\ updateEnds[k] \in ends
      /\ Start(k) + UpdateLength(updates[k]) = updateEnds[k]
  BY StartInt DEF Carried
<1>6. PICK pic, u, o : pic = OnScreen[k - 1] /\ u = updates[k] /\ o = Parsed - Start(k)
  OBVIOUS
<1>7. o \in Nat /\ InUpdate(pic, o, u)
  BY <1>6 DEF Within
<1>8. FitUpdate(u)
  BY <1>5, <1>6, ScriptUpdates DEF Lawful
<1>9. Front(o, Rfb!UpdateEncoding(u))
  BY <1>6, <1>7, FrontHere
<1>10. PICK o2 : o2 = o + (Len(buf) - Len(buf'))
  OBVIOUS
<1>11. \/ VNCstate' = "PROCESSINGUPDATE" /\ InUpdate(pic, o2, u)'
       \/ /\ VNCstate' = "CONNECTED_REFRESH" /\ o2 = UpdateLength(u)
          /\ screen' = AfterUpdate(pic, u)
  BY <1>1, <1>4, <1>7, <1>8, <1>9, <1>10, UpdateWalk
<1>12. Start(k)' = Start(k) /\ updates'[k] = u /\ Parsed' = o2 + Start(k)
       /\ Parsed' - Start(k)' = o2 /\ o2 \in Nat
  <2>1. Start(k)' = Start(k) /\ updates'[k] = u
    BY <1>2, <1>6 DEF Start
  <2>2. Len(buf') <= Len(buf)
    BY <1>1 DEF TakenFront
  <2>3. PICK p, p2, at, b, b2 :
          p = Parsed /\ p2 = Parsed' /\ at = Start(k) /\ b = Len(buf) /\ b2 = Len(buf')
    OBVIOUS
  <2>4. /\ p \in Int /\ at \in Int /\ b \in Nat /\ b2 \in Nat /\ b2 <= b /\ o \in Nat
        /\ p2 = p + (b - b2) /\ o = p - at /\ o2 = o + (b - b2)
    BY <1>1, <1>3, <1>5, <1>6, <1>7, <1>10, <2>2, <2>3
  <2>5. p2 = o2 + at /\ p2 - at = o2 /\ o2 \in Nat
    BY ONLY <2>4
  <2> QED
    BY <2>1, <2>3, <2>5
<1>13. CASE VNCstate' = "PROCESSINGUPDATE" /\ InUpdate(pic, o2, u)'
  <2>1. Within(k)'
    <3>1. OnScreen'[k - 1] = pic
      BY <1>2, <1>6
    <3> QED
      BY <1>12, <1>13, <3>1 DEF Within, InUpdate
  <2> QED
    BY <1>2, <1>13, <2>1 DEF Walking
<1>14. CASE /\ VNCstate' = "CONNECTED_REFRESH" /\ o2 = UpdateLength(u)
            /\ screen' = AfterUpdate(pic, u)
  <2>1. Parsed' = updateEnds[k]
    BY <1>5, <1>6, <1>12, <1>14
  <2>2. Parsed' \in ends'
    BY <1>2, <1>5, <2>1
  <2>3. HasParsed(k)'
    <3>1. \A j \in 1..updateNo : updateEnds[j] <= updateEnds[k] <=> j <= k
      BY ParsedBehind
    <3> QED
      BY <1>2, <2>1, <3>1 DEF HasParsed
  <2>4. screen' = OnScreen'[k]
    <3>1. OnScreen[k] = AfterUpdate(OnScreen[k - 1], updates[k])
      BY <1>5, ScriptUpdates, OnScreenIs
    <3> QED
      BY <1>2, <1>6, <1>14, <3>1
  <2>5. k \in 0..updateNo'
    BY <1>2
  <2>6. Shown'
    BY <2>3, <2>4, <2>5 DEF Shown
  <2> QED
    BY <1>2, <1>14, <2>2, <2>6 DEF Walking, AtMessage
<1> QED
  BY <1>11, <1>13, <1>14

\* So a call of Vnc_StateMachine keeps the client in its place.
LEMMA WalkingParse ==
    ASSUME TypeOK, TypeOK', Counters, Stream, Carried, Ordered, Marked, Walking,
           Vnc_StateMachine, UNCHANGED srvVars
    PROVE  Walking'
<1>1. UNCHANGED <<srv, updates, updateNo>>
  BY DEF srvVars
<1>2. CASE ~(srv = "running" /\ Lawful)
  BY <1>1, <1>2 DEF Walking, Lawful
<1>3. CASE srv = "running" /\ Lawful
  <2>1. CASE AtMessage
    BY <1>3, <2>1, MessageParse
  <2>2. CASE VNCstate = "DEAD"
    <3>1. ProcessError
      BY <2>2, PixelState DEF Vnc_StateMachine, NotConnected, WaitForAuthType,
         WaitForVncAuthWord, WaitForVncAuthResponse, SentClientInitMessage,
         WaitForServerName, Connected, WaitForUpdate, Processing
    <3>2. VNCstate' = "DEAD"
      BY <2>2, <3>1 DEF ProcessError, connVars
    <3> QED
      BY <3>2 DEF Walking
  <2>3. CASE VNCstate = "PROCESSINGUPDATE" /\ \E k \in 1..updateNo : Within(k)
    BY <1>3, <2>3, UpdateParse
  <2> QED
    BY <1>3, <2>1, <2>2, <2>3 DEF Walking
<1> QED
  BY <1>2, <1>3

\* The client takes the length of the name from the initialisation message,
\* and the name, and then waits for an update with nothing to parse.
LEMMA NamingParse ==
    ASSUME TypeOK, TypeOK', Counters, Stream, Naming, Vnc_StateMachine, UNCHANGED srvVars
    PROVE  Naming'
<1>1. UNCHANGED <<srv, sent, ends, rx>> /\ sent \in Int /\ NameLength \in Nat /\ NameLength < 65536
  <2>1. NameLength \in Uints
    BY ServerAssumption
  <2>2. NameLength \in Nat /\ NameLength < 65536
    BY <2>1, UintMax DEF Uints
  <2> QED
    BY <2>2, ParseStep DEF srvVars, Stream
<1>2. Len(buf) \in Nat /\ Len(rx) \in Nat
  BY LenProperties DEF TypeOK
<1> USE DEF Processing, NotConnected, WaitForAuthType, WaitForVncAuthWord, WaitForVncAuthResponse,
            ProcessError
<1>0. VNCstate # "PROCESSINGUPDATE" => ~PixelProcessor
  BY PixelState
<1>3. ASSUME InitPending
      PROVE  InitPending' \/ NamePending'
  <2>1. VNCstate = "SENTCLIENTINITMESSAGE" /\ Unread(buf, rx) = 24 + NameLength
    BY <1>3 DEF InitPending, Holding
  <2>2. SentClientInitMessage
    BY <1>0, <2>1 DEF Vnc_StateMachine, WaitForServerName, Connected, WaitForUpdate
  <2>3. CASE WaitForBytes(24)
    <3>1. buf' = buf /\ VNCstate' = VNCstate
      BY <2>3 DEF WaitForBytes, Return0, connVars
    <3> QED
      BY <1>1, <1>3, <3>1 DEF InitPending, Holding
  <2>4. CASE ~WaitForBytes(24)
    <3>1. /\ Len(buf) >= 24 /\ VNCstate' = "WAITFORSERVERNAME" /\ Consume(24)
          /\ interPixelCount' = Ulong(U16(buf[21], buf[22]) * 65536 + U16(buf[23], buf[24]))
      BY <2>2, <2>4 DEF SentClientInitMessage
    <3>2. Unread(buf', rx') = NameLength
      <4>1. Unread(buf', rx') = Unread(buf, rx) - 24
        BY <1>1, <3>1, ConsumeTakes
      <4> QED
        BY <1>1, <2>1, <4>1
    <3>3. buf[21] = 0 /\ buf[22] = 0 /\ U16(buf[23], buf[24]) = NameLength
      BY <1>2, <1>3, <3>1 DEF InitPending, Ahead
    <3>4. interPixelCount' = Ulong(U16(0, 0) * 65536 + NameLength)
      BY <3>1, <3>3
    <3>5. U16(0, 0) * 65536 + NameLength = NameLength
      BY <1>1 DEF U16
    <3>6. Ulong(NameLength) = NameLength
      BY <1>1, UlongAssumption DEF Ulong
    <3> QED
      BY <1>1, <1>3, <3>1, <3>2, <3>4, <3>5, <3>6 DEF NamePending, Holding, InitPending
  <2> QED
    BY <2>3, <2>4
<1>4. ASSUME NamePending
      PROVE  NamePending' \/ Quiesced'
  <2>1. VNCstate = "WAITFORSERVERNAME" /\ Unread(buf, rx) = NameLength
        /\ interPixelCount = NameLength
    BY <1>4 DEF NamePending, Holding
  <2>2. WaitForServerName
    BY <1>0, <2>1 DEF Vnc_StateMachine, SentClientInitMessage, Connected, WaitForUpdate
  <2>3. CASE WaitForBytes(interPixelCount)
    <3>1. buf' = buf /\ VNCstate' = VNCstate /\ interPixelCount' = interPixelCount
      BY <2>3 DEF WaitForBytes, Return0, connVars, rectVars
    <3> QED
      BY <1>1, <1>4, <3>1 DEF NamePending, Holding
  <2>4. CASE ~WaitForBytes(interPixelCount)
    <3>1. Len(buf) >= NameLength /\ VNCstate' = "CONNECTED" /\ Consume(NameLength)
      BY <2>1, <2>2, <2>4 DEF WaitForServerName, Handshake
    <3>2. Unread(buf', rx') = Unread(buf, rx) - NameLength
      BY <1>1, <3>1, ConsumeTakes
    <3>3. Unread(buf', rx') = 0
      BY <1>1, <2>1, <3>2
    <3> QED
      BY <3>1, <3>3 DEF Quiesced
  <2> QED
    BY <2>3, <2>4
<1>5. ASSUME Quiesced
      PROVE  Quiesced'
  <2>1. VNCstate \in {"CONNECTED", "WAITFORUPDATE"} /\ Len(buf) = 0 /\ Unread(buf, rx) = 0
    BY <1>2, <1>5 DEF Quiesced, Unread
  <2>2. CASE Connected
    <3>1. CASE WaitForBytes(0)
      BY <1>2, <3>1 DEF WaitForBytes
    <3>2. CASE ~WaitForBytes(0)
      <4>1. VNCstate' = "WAITFORUPDATE" /\ Consume(0) /\ Len(buf) >= 0
        BY <2>2, <3>2 DEF Connected, Handshake
      <4>2. Unread(buf', rx') = Unread(buf, rx) - 0
        BY <1>1, <4>1, ConsumeTakes
      <4> QED
        BY <2>1, <4>1, <4>2 DEF Quiesced
    <3> QED
      BY <3>1, <3>2
  <2>3. CASE WaitForUpdate
    BY <1>1, <2>1, <2>3 DEF WaitForUpdate, WaitForBytes, Return0, connVars, Quiesced
  <2> QED
    BY <1>0, <2>1, <2>2, <2>3 DEF Vnc_StateMachine, SentClientInitMessage, WaitForServerName
<1> QED
  BY <1>1, <1>3, <1>4, <1>5 DEF Naming

\* It draws nothing before the server has been asked for a picture.
LEMMA BlankParse ==
    ASSUME Session, Naming, Blank, srv # "closed", Vnc_StateMachine, UNCHANGED srvVars
    PROVE  Blank'
<1>1. UNCHANGED <<srv, base>>
  BY DEF srvVars
<1>2. CASE srv # "running"
  <2>1. VNCstate # "PROCESSINGUPDATE"
    <3>1. CASE srv \in {"version", "authWord", "clientInit", "refused"}
      BY <3>1 DEF Session, SetupRead, VersionStage, AuthWordStage, ClientInitStage, RefusedStage,
         Holding
    <3>2. CASE srv \in {"pixelFormat", "encodings", "fullRefresh"}
      BY <3>2 DEF Naming, InitPending, NamePending, Quiesced, Holding
    <3> QED
      BY <1>2, <3>1, <3>2 DEF Session, SetupRead
  <2>2. ~PixelProcessor
    BY <2>1, PixelState
  <2>3. UNCHANGED lcdVars
    BY <2>2 DEF Vnc_StateMachine, NotConnected, WaitForAuthType, WaitForVncAuthWord,
       WaitForVncAuthResponse, SentClientInitMessage, WaitForServerName, Connected,
       WaitForUpdate, ProcessError, Handshake, WaitForBytes
  <2> QED
    BY <1>1, <1>2, <2>3 DEF Blank, lcdVars
<1> QED
  BY <1>1, <1>2 DEF Blank

\* A step that leaves the unparsed bytes, the parser and the display alone,
\* wherever the bytes are.
LEMMA FramingStays ==
    ASSUME TypeOK, TypeOK', Counters, Framing, srv # "closed",
           UNCHANGED <<srv, sent, ends, updates, updateNo, updateEnds, base, VNCstate, rectVars,
                       tileVars, lcdVars>>,
           Unread(buf', rx') = Unread(buf, rx),
           \A i \in 1..Unread(buf, rx) : Ahead(buf', rx', i) = Ahead(buf, rx, i)
    PROVE  Framing'
<1>1. Stream /\ Marks /\ Naming /\ Carried /\ Ordered /\ Marked /\ Blank /\ Walking
  BY DEF Framing
<1>2. /\ sent \in Int /\ sent' \in Int /\ Parsed \in Int /\ Parsed' \in Int
      /\ Unread(buf, rx) = sent - Parsed /\ Unread(buf', rx') = sent' - Parsed'
      /\ Parsed' <= sent'
  BY <1>1, ParsedInt, ParsedIntNext DEF Stream
<1>3. Parsed' = Parsed
  BY <1>2
<1>4. Onward
  <2>1. ASSUME NEW x \in Int, Parsed' < x, x <= sent
        PROVE  Ahead(buf', rx', x - Parsed') = Ahead(buf, rx, x - Parsed)
    <3>1. x - Parsed \in 1..Unread(buf, rx)
      BY <1>2, <1>3, <2>1
    <3> QED
      BY <1>3, <3>1
  <2>2. Kept(Parsed, buf, rx, sent, Parsed', buf', rx', sent')
    BY <1>2, <1>3, <2>1 DEF Kept
  <2> QED
    BY <1>1, <1>2, <2>2 DEF Onward, Stream
<1>5. Carried' /\ Marked' /\ Walking'
  <2>1. srv' # "running" => updateNo = 0
    BY <1>1 DEF Carried
  <2> QED
    BY <1>1, <1>3, <1>4, <2>1, CarriedOn, MarkedOn, WalkingStays
<1>6. Naming'
  <2>0. NameLength \in Nat
    BY ServerAssumption, UintNat
  <2>1. ASSUME InitPending PROVE InitPending'
    <3>1. Unread(buf, rx) = 24 + NameLength
      BY <2>1 DEF InitPending, Holding
    <3>2. \A i \in {21, 22, 23, 24} : Ahead(buf', rx', i) = Ahead(buf, rx, i)
      BY <2>0, <3>1
    <3> QED
      BY <2>1, <3>2 DEF InitPending, Holding
  <2>2. NamePending => NamePending'
    BY DEF NamePending, Holding, rectVars
  <2>3. Quiesced => Quiesced'
    BY DEF Quiesced
  <2> QED
    BY <1>1, <2>1, <2>2, <2>3 DEF Naming
<1>7. Stream' /\ Marks' /\ Ordered' /\ Blank'
  BY <1>1 DEF Stream, Marks, Ordered, Start, Blank, lcdVars
<1> QED
  BY <1>5, <1>6, <1>7 DEF Framing

\* The program keeps its place in the stream.
LEMMA ClientFraming ==
    ASSUME TypeOK, TypeOK', Counters, PromptHost, Lines, Session, Framing, Client
    PROVE  Framing'
<1>1. MainLoop /\ UNCHANGED srvVars
  BY DEF Client
<1>2. UNCHANGED <<srv, sent, ends, updates, updateNo, updateEnds, base>>
  BY <1>1 DEF srvVars
<1>3. CASE srv = "closed"
  BY <1>2, <1>3 DEF Framing
<1>4. CASE srv # "closed"
  <2>1. CASE ReadBytes
    <3>1. UNCHANGED <<VNCstate, rectVars, tileVars, lcdVars>>
      BY <2>1 DEF ReadBytes, connVars
    <3> QED
      BY <1>2, <1>4, <2>1, <3>1, ReadAhead, FramingStays
  <2>2. CASE UNCHANGED <<rx, buf, VNCstate, rectVars, tileVars, lcdVars>>
    BY <1>2, <1>4, <2>2, FramingStays
  <2>3. CASE VncServerGetData
    <3>1. ~GetDataDisconnected
      BY <1>4 DEF Lines, GetDataDisconnected
    <3> QED
      BY <2>1, <2>2, <2>3, <3>1 DEF VncServerGetData, GetControlSame, GetControlChanged,
         LatchControl, GetDataConnected, envVars, connVars
  <2>4. CASE Vnc_StateMachine
    <3>1. Stream /\ Marks /\ Naming /\ Carried /\ Ordered /\ Marked /\ Blank /\ Walking
      BY <1>4 DEF Framing
    <3>2. Onward
      BY <1>1, <2>4, <3>1, ParseOnward
    <3>3. srv' # "running" => updateNo = 0
      BY <1>2, <3>1 DEF Carried
    <3>4. Carried' /\ Marked'
      BY <1>2, <3>1, <3>2, <3>3, CarriedOn, MarkedOn
    <3>5. Walking'
      BY <1>1, <2>4, <3>1, WalkingParse
    <3>6. Naming'
      BY <1>1, <2>4, <3>1, NamingParse
    <3>7. Stream' /\ Marks' /\ Ordered'
      BY <1>2, <3>1 DEF Stream, Marks, Ordered, Start
    <3>8. Blank'
      BY <1>1, <1>4, <2>4, <3>1, BlankParse
    <3> QED
      BY <3>4, <3>5, <3>6, <3>7, <3>8 DEF Framing
  <2>5. CASE Buttons_Handler
    BY <2>2, <2>5 DEF Buttons_Handler, envVars, connVars
  <2>6. CASE SendResponse
    BY <2>2, <2>6 DEF SendResponse, SendVersion, SendAuthWord, SendClientInit,
       SendPixelFormat, SendEncodings, SendFullRefresh, SendRequest, NothingToSend,
       Respond, envVars, connVars
  <2> QED
    BY <1>1, <2>3, <2>4, <2>5, <2>6 DEF MainLoop
<1> QED
  BY <1>3, <1>4

\* A session begins with the server's greeting, at the beginning of the stream.
LEMMA HostFraming ==
    ASSUME TypeOK, TypeOK', Counters, PatientHost, Lines, Framing,
           HostOpen \/ HostClose \/ Press \/ ReleaseButton
    PROVE  Framing'
<1>1. CASE HostOpen
  <2>1. /\ srv = "closed" /\ lastControlState = 0 /\ pc # "answer" /\ srv' = "version"
        /\ sent' = (Len(buf) + Len(rx)) + 12
        /\ ends' = {0, Len(buf) + Len(rx), (Len(buf) + Len(rx)) + 12}
        /\ updateNo' = 0 /\ updateEnds' = <<>> /\ updates' = updates
        /\ base' = screen /\ screen' = screen
    BY <1>1 DEF HostOpen, clientKept, lcdVars
  <2>2. rx = <<>> /\ buf = <<>>
    BY <2>1 DEF Lines
  <2>3. Len(buf) = 0 /\ Len(rx) = 0
    BY <2>2
  <2>4. sent' = 12 /\ ends' = {0, 12}
    BY <2>1, <2>3
  <2>5. Stream' /\ Marks'
    BY <2>1, <2>4 DEF Stream, Marks
  <2>6. Naming' /\ Marked' /\ Blank' /\ Walking'
    BY <2>1 DEF Naming, Marked, Blank, Walking
  <2>7. Carried' /\ Ordered'
    <3>1. Len(updates') \in Nat /\ <<>> \in Seq(Int) /\ Len(<<>>) = 0
      BY <2>1, ScriptUpdates
    <3>2. \A k \in 1..updateNo' : FALSE
      BY <2>1
    <3> QED
      BY <2>1, <3>1, <3>2 DEF Carried, Ordered
  <2> QED
    BY <2>5, <2>6, <2>7 DEF Framing
<1>2. CASE HostClose
  BY <1>2 DEF HostClose, Framing
<1>3. CASE Press \/ ReleaseButton
  <2>1. UNCHANGED <<srv, sent, ends, updates, updateNo, updateEnds, base, VNCstate, rectVars,
                    tileVars, lcdVars, rx, buf>>
    BY <1>3 DEF Press, ReleaseButton, srvVars, clientKept, connVars
  <2>2. CASE srv = "closed"
    BY <2>1, <2>2 DEF Framing
  <2>3. CASE srv # "closed"
    BY <2>1, <2>3, FramingStays
  <2> QED
    BY <2>2, <2>3
<1> QED
  BY <1>1, <1>2, <1>3

\* The server's initialisation message gives the length of the name that
\* follows it.
LEMMA InitShape ==
    LET e == Rfb!Zeros(20) \o <<0, 0>> \o Rfb!Word(NameLength) \o Rfb!Zeros(NameLength)
    IN  /\ e \in Seq(Byte) /\ Len(e) = 24 + NameLength
        /\ e[21] = 0 /\ e[22] = 0 /\ U16(e[23], e[24]) = NameLength
<1> DEFINE z == Rfb!Zeros(20)
           n == <<0, 0>>
           w == Rfb!Word(NameLength)
           name == Rfb!Zeros(NameLength)
           a == z \o n
           b == a \o w
           e == b \o name
<1>0. NameLength \in Nat
  BY ServerAssumption, UintNat
<1>1. /\ z \in Seq(Byte) /\ Len(z) = 20 /\ n \in Seq(Byte) /\ Len(n) = 2 /\ n[1] = 0 /\ n[2] = 0
      /\ w \in Seq(Byte) /\ Len(w) = 2 /\ U16(w[1], w[2]) = NameLength
      /\ name \in Seq(Byte) /\ Len(name) = NameLength
  <2>1. n \in Seq(Byte) /\ Len(n) = 2 /\ n[1] = 0 /\ n[2] = 0
    BY DEF Byte
  <2>2. U16(w[1], w[2]) = NameLength
    BY <1>0, WordBytes
  <2>3. z \in Seq(Byte) /\ Len(z) = 20 /\ name \in Seq(Byte) /\ Len(name) = NameLength
    BY <1>0, ServerBytes
  <2>4. w \in Seq(Byte) /\ Len(w) = 2
    BY ServerBytes
  <2> QED
    BY <2>1, <2>2, <2>3, <2>4
<1>2. e \in Seq(Byte) /\ a = z \o n /\ b = a \o w /\ e = b \o name
  BY InitMessage
<1> HIDE DEF z, n, w, name, a, b, e
<1>3. /\ a \in Seq(Byte) /\ Len(a) = Len(z) + Len(n)
      /\ \A i \in 1..Len(n) : a[Len(z) + i] = n[i]
  <2>1. z \in Seq(Byte) /\ n \in Seq(Byte) /\ a = z \o n
    BY <1>1, <1>2
  <2> QED
    BY ONLY <2>1, ConcatAt, SMT
<1>4. Len(a) = 22 /\ a[20 + 1] = 0 /\ a[20 + 2] = 0
  <2>1. 1 \in 1..Len(n) /\ 2 \in 1..Len(n)
    BY <1>1
  <2> QED
    BY <1>1, <1>3, <2>1
<1>5. /\ b \in Seq(Byte) /\ Len(b) = Len(a) + Len(w)
      /\ \A i \in 1..Len(a) : b[i] = a[i]
      /\ \A i \in 1..Len(w) : b[Len(a) + i] = w[i]
  <2>1. a \in Seq(Byte) /\ w \in Seq(Byte) /\ b = a \o w
    BY <1>1, <1>2, <1>3
  <2> QED
    BY ONLY <2>1, ConcatAt, SMT
<1>6. Len(b) = 24 /\ b[21] = 0 /\ b[22] = 0 /\ b[22 + 1] = w[1] /\ b[22 + 2] = w[2]
  <2>1. 21 \in 1..Len(a) /\ 22 \in 1..Len(a) /\ 1 \in 1..Len(w) /\ 2 \in 1..Len(w)
    BY <1>1, <1>4
  <2>2. b[21] = a[21] /\ b[22] = a[22] /\ b[Len(a) + 1] = w[1] /\ b[Len(a) + 2] = w[2]
    BY <1>5, <2>1
  <2>3. Len(b) = 22 + 2 /\ a[21] = 0 /\ a[22] = 0
    BY <1>1, <1>4, <1>5
  <2> QED
    BY <1>4, <2>2, <2>3
<1>7. /\ Len(e) = Len(b) + Len(name)
      /\ \A i \in 1..Len(b) : e[i] = b[i]
  <2>1. b \in Seq(Byte) /\ name \in Seq(Byte) /\ e = b \o name
    BY <1>1, <1>2, <1>5
  <2> QED
    BY ONLY <2>1, ConcatAt, SMT
<1>8. Len(e) = 24 + NameLength
  BY <1>0, <1>1, <1>6, <1>7
<1>9. e[21] = 0 /\ e[22] = 0 /\ e[23] = w[1] /\ e[24] = w[2]
  <2>1. 21 \in 1..Len(b) /\ 22 \in 1..Len(b) /\ 23 \in 1..Len(b) /\ 24 \in 1..Len(b)
    BY <1>6
  <2> QED
    BY <1>6, <1>7, <2>1, SMTT(30)
<1>10. U16(e[23], e[24]) = NameLength
  BY <1>1, <1>9
<1> QED
  BY <1>2, <1>8, <1>9, <1>10 DEF e, b, a, z, n, w, name

\* What a server sends during the handshake ends a message and is no update.
LEMMA GreetingFraming ==
    ASSUME TypeOK, TypeOK', Counters, Framing, srv \notin {"closed", "running"},
           srv' \notin {"closed", "running"}, NEW bytes \in Seq(Byte), NEW bounds \in SUBSET Int,
           Send(bytes, bounds), Len(bytes) \in bounds, \A b \in bounds : b <= Len(bytes),
           UNCHANGED <<updates, updateNo, updateEnds, base, screen>>
    PROVE  /\ sent \in Int /\ sent' \in Int /\ sent' = sent + Len(bytes) /\ sent \in ends'
           /\ \A b \in bounds : sent + b \in ends'
           /\ Stream' /\ Carried' /\ Ordered' /\ Marked' /\ Blank' /\ Walking'
<1>1. Stream /\ Carried /\ sent \in Int /\ Len(bytes) \in Nat
  BY LenProperties DEF Framing, Stream
<1>2. sent' = sent + Len(bytes) /\ ends' = ends \union {sent + b : b \in bounds}
  BY DEF Send
<1>3. Stream'
  <2>1. \A e \in ends' : e \in Int /\ e <= sent'
    <3>1. \A e \in ends : e \in Int /\ e <= sent
      BY <1>1 DEF Stream
    <3>2. \A b \in bounds : sent + b \in Int /\ sent + b <= sent + Len(bytes)
      BY <1>1
    <3> QED
      BY <1>1, <1>2, <3>1, <3>2
  <2>2. sent' \in Int /\ sent' \in ends'
    BY <1>1, <1>2
  <2> QED
    BY <2>1, <2>2 DEF Stream
<1>4. Carried' /\ Ordered'
  <2>1. updateNo = 0
    BY <1>1 DEF Carried
  <2> QED
    BY <1>1, <2>1 DEF Carried, Ordered
<1>5. Marked' /\ Blank' /\ Walking'
  BY DEF Marked, Walking, Framing, Blank
<1> QED
  BY <1>1, <1>2, <1>3, <1>4, <1>5 DEF Stream

\* The marks of the handshake.
LEMMA HandshakeFraming ==
    ASSUME TypeOK, TypeOK', Counters, Session, Framing,
           ServerVersion \/ ServerAuthWord \/ ServerClientInit
    PROVE  Framing'
<1>1. CASE ServerVersion
  <2>1. PICK t \in AuthTypes :
          /\ Receive("version", "version",
                     CASE t = 1 -> "clientInit" [] t = 2 -> "authWord" [] OTHER -> "refused")
          /\ IF t = 2 THEN Send(<<0, 0, 0, 2>> \o Rfb!Zeros(16), {4, 20})
                      ELSE Send(<<0, 0, 0, t>>, {4})
    BY <1>1 DEF ServerVersion
  <2>2. /\ srv = "version" /\ srv' = IF t = 1 THEN "clientInit" ELSE IF t = 2 THEN "authWord" ELSE "refused"
        /\ UNCHANGED <<updates, updateNo, updateEnds, base, screen>>
    BY <1>1, <2>1 DEF Receive, ServerVersion, Quiet, NoUpdate, clientKept, lcdVars
  <2>3. t \in Byte
    BY ServerAssumption
  <2>4. CASE t = 2
    <3> DEFINE bytes == <<0, 0, 0, 2>> \o Rfb!Zeros(16)
    <3>1. Send(bytes, {4, 20}) /\ bytes \in Seq(Byte) /\ Len(bytes) = 20
      BY <2>1, <2>4, AuthMessage
    <3> HIDE DEF bytes
    <3>2. {4, 20} \in SUBSET Int /\ Len(bytes) \in {4, 20} /\ \A b \in {4, 20} : b <= Len(bytes)
      BY <3>1
    <3>3. /\ sent \in Int /\ sent' = sent + Len(bytes) /\ sent \in ends' /\ sent + 4 \in ends'
          /\ Stream' /\ Carried' /\ Ordered' /\ Marked' /\ Blank' /\ Walking'
      BY <2>2, <2>4, <3>1, <3>2, GreetingFraming
    <3>4. sent' - 20 = sent /\ sent' - 16 = sent + 4
      BY <3>1, <3>3
    <3>5. Marks' /\ Naming'
      BY <2>2, <2>4, <3>3, <3>4 DEF Marks, Naming
    <3> QED
      BY <3>3, <3>5 DEF Framing
  <2>5. CASE t # 2
    <3> DEFINE bytes == <<0, 0, 0, t>>
    <3>1. Send(bytes, {4}) /\ bytes \in Seq(Byte) /\ Len(bytes) = 4
      BY <2>1, <2>3, <2>5, ServerBytes
    <3> HIDE DEF bytes
    <3>2. {4} \in SUBSET Int /\ Len(bytes) \in {4} /\ \A b \in {4} : b <= Len(bytes)
      BY <3>1
    <3>3. /\ sent \in Int /\ sent' = sent + Len(bytes) /\ sent \in ends'
          /\ Stream' /\ Carried' /\ Ordered' /\ Marked' /\ Blank' /\ Walking'
      BY <2>2, <2>5, <3>1, <3>2, GreetingFraming
    <3>4. sent' - 4 = sent
      BY <3>1, <3>3
    <3>5. Marks' /\ Naming'
      BY <2>2, <2>5, <3>3, <3>4 DEF Marks, Naming
    <3> QED
      BY <3>3, <3>5 DEF Framing
  <2> QED
    BY <2>4, <2>5
<1>2. CASE ServerAuthWord
  <2>1. PICK r \in AuthResults :
          /\ Receive("authWord", "authWord", IF r = 0 THEN "clientInit" ELSE "refused")
          /\ Send(<<0, 0, 0, r>>, {4})
    BY <1>2 DEF ServerAuthWord
  <2>2. /\ srv = "authWord" /\ srv' \in {"clientInit", "refused"}
        /\ UNCHANGED <<updates, updateNo, updateEnds, base, screen>> /\ r \in Byte
    BY <1>2, <2>1, ServerAssumption DEF Receive, ServerAuthWord, Quiet, NoUpdate, clientKept,
       lcdVars
  <2> DEFINE bytes == <<0, 0, 0, r>>
  <2>3. Send(bytes, {4}) /\ bytes \in Seq(Byte) /\ Len(bytes) = 4
    BY <2>1, <2>2, ServerBytes
  <2> HIDE DEF bytes
  <2>4. {4} \in SUBSET Int /\ Len(bytes) \in {4} /\ \A b \in {4} : b <= Len(bytes)
    BY <2>3
  <2>5. /\ sent \in Int /\ sent' = sent + Len(bytes) /\ sent \in ends'
        /\ Stream' /\ Carried' /\ Ordered' /\ Marked' /\ Blank' /\ Walking'
    BY <2>2, <2>3, <2>4, GreetingFraming
  <2>6. sent' - 4 = sent
    BY <2>3, <2>5
  <2>7. Marks' /\ Naming'
    BY <2>2, <2>5, <2>6 DEF Marks, Naming
  <2> QED
    BY <2>5, <2>7 DEF Framing
<1>3. CASE ServerClientInit
  <2> DEFINE bytes == Rfb!Zeros(20) \o <<0, 0>> \o Rfb!Word(NameLength) \o Rfb!Zeros(NameLength)
             bounds == {24, 24 + NameLength}
  <2>1. /\ srv = "clientInit" /\ srv' = "pixelFormat" /\ toServer # <<>>
        /\ UNCHANGED <<updates, updateNo, updateEnds, base, screen, buf, VNCstate>>
    BY <1>3 DEF Receive, ServerClientInit, Quiet, NoUpdate, clientKept, connVars, lcdVars
  <2>2. /\ Send(bytes, bounds) /\ bytes \in Seq(Byte) /\ Len(bytes) = 24 + NameLength
        /\ bytes[21] = 0 /\ bytes[22] = 0 /\ U16(bytes[23], bytes[24]) = NameLength
    BY <1>3, InitShape DEF ServerClientInit
  <2>3. NameLength \in Nat
    BY ServerAssumption, UintNat
  <2> HIDE DEF bytes
  <2>4. bounds \in SUBSET Int /\ Len(bytes) \in bounds /\ \A b \in bounds : b <= Len(bytes)
    BY <2>2, <2>3
  <2>5. /\ sent \in Int /\ sent' = sent + Len(bytes) /\ sent \in ends' /\ sent + 24 \in ends'
        /\ Stream' /\ Carried' /\ Ordered' /\ Marked' /\ Blank' /\ Walking'
    BY <2>1, <2>2, <2>4, GreetingFraming
  <2>6. (sent' - 24) - NameLength = sent /\ sent' - NameLength = sent + 24
    BY <2>2, <2>3, <2>5
  <2>7. Holding("SENTCLIENTINITMESSAGE", 0)
    BY <2>1 DEF Session, SetupRead, ClientInitStage, Said
  <2>8. VNCstate' = "SENTCLIENTINITMESSAGE" /\ Unread(buf, rx) = 0 /\ rx' = rx \o bytes
    BY <2>1, <2>2, <2>7 DEF Holding, Send
  <2>9. /\ Unread(buf', rx') = Unread(buf, rx) + Len(bytes)
        /\ \A j \in 1..Len(bytes) : Ahead(buf', rx', Unread(buf, rx) + j) = bytes[j]
    BY <2>1, <2>2, <2>8, SendAhead
  <2>10. Unread(buf', rx') = 24 + NameLength
    BY <2>2, <2>3, <2>8, <2>9
  <2>11. \A j \in {21, 22, 23, 24} : Ahead(buf', rx', j) = bytes[j]
    <3>1. \A j \in {21, 22, 23, 24} : j \in 1..Len(bytes) /\ 0 + j = j
      BY <2>2, <2>3
    <3> QED
      BY <2>8, <2>9, <3>1
  <2>12. InitPending'
    BY <2>2, <2>5, <2>6, <2>8, <2>10, <2>11 DEF InitPending, Holding
  <2>13. Naming' /\ Marks'
    BY <2>1, <2>12 DEF Naming, Marks
  <2> QED
    BY <2>5, <2>13 DEF Framing
<1> QED
  BY <1>1, <1>2, <1>3

\* A server that only reads leaves the stream alone.
LEMMA ReceiveFraming ==
    ASSUME TypeOK, TypeOK', Counters, SendOrder, Session, Framing,
           ServerSetup \/ ServerRequest \/ ServerKey
    PROVE  Framing'
<1>1. /\ UNCHANGED <<sent, ends, updates, updateNo, updateEnds, base, VNCstate, rectVars,
                      tileVars, lcdVars, rx, buf>>
      /\ toServer # <<>>
  BY DEF ServerSetup, ServerRequest, ServerKey, Receive, Quiet, NoUpdate, clientKept, connVars
<1>2. CASE srv = "running"
  <2>1. srv' = "running"
    BY <1>2 DEF ServerSetup, ServerRequest, ServerKey, Receive
  <2> QED
    BY <1>1, <1>2, <2>1, FramingStays
<1>3. CASE srv # "running"
  <2>1. \/ srv = "pixelFormat" /\ srv' = "encodings"
        \/ srv = "encodings" /\ srv' = "fullRefresh"
        \/ srv = "fullRefresh" /\ srv' = "running"
    BY <1>3 DEF ServerSetup, ServerRequest, ServerKey, Receive
  <2>2. Stream /\ Naming /\ Carried /\ updateNo = 0 /\ screen = base
    BY <2>1 DEF Framing, Carried, Blank
  <2>3. Quiesced
    <3>1. CASE srv = "pixelFormat"
      <4>1. SetupStage
        BY <3>1 DEF Session, SetupRead
      <4>2. VNCsendState # "CLIENTINITMESSAGESENT" /\ VNCsendState \in DOMAIN SetupSent
        <5>1. Len(toServer) \in Nat /\ Len(toServer) # 0
          BY <1>1, LenProperties, EmptySeq DEF TypeOK
        <5>2. VNCsendState = "CLIENTINITMESSAGESENT" => Len(toServer) = 0
          BY <3>1, <4>1 DEF SetupStage, SetupRead, SetupSent, Queued
        <5> QED
          BY <4>1, <5>1, <5>2 DEF SetupStage
      <4>3. VNCsendState \in {"PIXELFORMATSENT", "ENCODINGTYPESENT", "PARTIALREFRESHSENT"}
        BY <4>2 DEF SetupSent
      <4>4. VNCstate \notin {"SENTCLIENTINITMESSAGE", "WAITFORSERVERNAME"}
        BY <4>3 DEF SendOrder, Past, Rank
      <4> QED
        BY <2>2, <3>1, <4>4 DEF Naming, InitPending, NamePending, Holding
    <3> QED
      BY <2>1, <2>2, <3>1 DEF Naming
  <2>4. Quiesced'
    BY <1>1, <2>3 DEF Quiesced
  <2>5. Stream' /\ Marks' /\ Naming'
    BY <1>1, <2>1, <2>2, <2>4 DEF Stream, Marks, Naming
  <2>6. Carried' /\ Ordered' /\ Blank'
    BY <1>1, <2>2 DEF Carried, Ordered, Blank, lcdVars
  <2>7. Parsed' = sent' /\ sent' \in ends' /\ sent' \in Int
    BY <1>1, <2>2, <2>4, <2>5, ParsedIntNext DEF Quiesced, Stream
  <2>8. Marked'
    BY <2>5, <2>7 DEF Marked, Stream
  <2>9. Shown
    <3>1. OnScreen[0] = base
      BY ScriptUpdates, OnScreenIs
    <3>2. HasParsed(0) /\ 0 \in 0..updateNo
      BY <2>2 DEF HasParsed
    <3> QED
      BY <2>2, <3>1, <3>2 DEF Shown
  <2>10. Shown'
    <3>1. Parsed' = Parsed /\ screen' = screen
      BY <1>1 DEF Parsed, lcdVars
    <3> QED
      BY <1>1, <2>9, <3>1, ShownStays
  <2>11. Walking'
    BY <2>4, <2>7, <2>10 DEF Walking, AtMessage, Quiesced
  <2> QED
    BY <2>5, <2>6, <2>8, <2>11 DEF Framing
<1> QED
  BY <1>2, <1>3

\* A message that a connected server sends goes behind all others.
LEMMA SendOnward ==
    ASSUME TypeOK, TypeOK', Counters, Stream, NEW bytes \in Seq(Byte),
           Send(bytes, {Len(bytes)}), buf' = buf
    PROVE  /\ Stream' /\ sent' = sent + Len(bytes) /\ Parsed' = Parsed /\ Parsed <= sent
           /\ ends' = ends \union {sent + Len(bytes)}
           /\ Kept(Parsed, buf, rx, sent, Parsed', buf', rx', sent')
           /\ Holds(Parsed', buf', rx', sent', sent, bytes)
           /\ \A j \in 1..Len(bytes) : Ahead(buf', rx', (sent + j) - Parsed') = bytes[j]
<1>1. sent \in Int /\ Len(bytes) \in Nat
  BY LenProperties DEF Stream
<1>2. rx' = rx \o bytes /\ sent' = sent + Len(bytes) /\ ends' = ends \union {sent + Len(bytes)}
  BY DEF Send
<1>3. Stream'
  <2>1. \A e \in ends : e \in Int /\ e <= sent
    BY DEF Stream
  <2>2. \A e \in ends' : e \in Int /\ e <= sent'
    BY <1>1, <1>2, <2>1
  <2>3. sent' \in Int /\ sent' \in ends'
    BY <1>1, <1>2
  <2> QED
    BY <2>2, <2>3 DEF Stream
<1>4. PICK p, p2 : p = Parsed /\ p2 = Parsed'
  OBVIOUS
<1>5. p = Place(sent, buf, rx) /\ p2 = Place(sent', buf', rx')
  BY <1>1, <1>2, <1>3, <1>4, ParsedInt, ParsedIntNext
<1>6. /\ p2 = p /\ p2 <= sent /\ Kept(p, buf, rx, sent, p2, buf', rx', sent')
      /\ Holds(p2, buf', rx', sent', sent, bytes)
      /\ \A j \in 1..Len(bytes) : Ahead(buf', rx', (sent + j) - p2) = bytes[j]
  BY <1>1, <1>2, <1>5, SendKept
<1> QED
  BY <1>2, <1>3, <1>4, <1>6

\* Messages that were under way keep their first bytes.
LEMMA MarksKept ==
    ASSUME TypeOK, Stream, Marked, srv = "running", Parsed' = Parsed,
           Kept(Parsed, buf, rx, sent, Parsed', buf', rx', sent'),
           NEW e \in ends, Parsed' <= e, e < sent
    PROVE  (\E k \in 1..updateNo : e = Start(k)) \/ Ahead(buf', rx', (e + 1) - Parsed') # 0
<1>1. sent \in Int /\ e \in Int /\ Parsed \in Int
  BY ParsedInt DEF Stream
<1>2. e + 1 \in Int /\ Parsed' < e + 1 /\ e + 1 <= sent
  BY <1>1
<1>3. Ahead(buf', rx', (e + 1) - Parsed') = Ahead(buf, rx, (e + 1) - Parsed)
  BY <1>2 DEF Kept
<1> QED
  BY <1>3 DEF Marked

\* The bell does not look like an update.
LEMMA BellFraming ==
    ASSUME TypeOK, TypeOK', Counters, Framing, ServerBell
    PROVE  Framing'
<1>1. /\ UNCHANGED <<srv, updates, updateNo, updateEnds, base, VNCstate, rectVars, tileVars,
                      lcdVars, buf>>
      /\ srv = "running" /\ Send(<<2>>, {1})
  BY DEF ServerBell, NoUpdate, clientKept, connVars
<1>2. <<2>> \in Seq(Byte) /\ Len(<<2>>) = 1 /\ <<2>>[1] = 2
  BY DEF Byte
<1>3. Stream /\ Marks /\ Naming /\ Carried /\ Ordered /\ Marked /\ Blank /\ Walking
      /\ sent \in Int /\ Parsed \in Int
  BY <1>1, ParsedInt DEF Framing, Stream
<1>4. PICK bytes \in Seq(Byte) : bytes = <<2>>
  BY <1>2
<1>5. Send(bytes, {Len(bytes)}) /\ Len(bytes) = 1 /\ bytes[1] = 2
  BY <1>1, <1>2, <1>4
<1>6. /\ Stream' /\ sent' = sent + Len(bytes) /\ Parsed' = Parsed /\ Parsed <= sent
      /\ ends' = ends \union {sent + Len(bytes)}
      /\ Kept(Parsed, buf, rx, sent, Parsed', buf', rx', sent')
      /\ \A j \in 1..Len(bytes) : Ahead(buf', rx', (sent + j) - Parsed') = bytes[j]
  BY <1>1, <1>3, <1>5, SendOnward
<1>7. Onward
  BY <1>1, <1>3, <1>6 DEF Onward, Stream
<1>8. Carried' /\ \A k \in 1..updateNo : Start(k)' = Start(k)
  BY <1>1, <1>3, <1>7, CarriedOn
<1>9. Marked'
  <2>1. ASSUME NEW e \in ends', Parsed' <= e, e < sent'
        PROVE  (\E k \in 1..updateNo : e = Start(k)) \/ Ahead(buf', rx', (e + 1) - Parsed') # 0
    <3>1. e \in ends /\ e \in Int /\ (e < sent \/ e = sent)
      BY <1>3, <1>5, <1>6, <2>1 DEF Stream
    <3>2. CASE e < sent
      BY <1>1, <1>3, <1>6, <2>1, <3>1, <3>2, MarksKept
    <3>3. CASE e = sent
      <4>1. Ahead(buf', rx', (sent + 1) - Parsed') = 2
        BY <1>5, <1>6
      <4> QED
        BY <3>3, <4>1
    <3> QED
      BY <3>1, <3>2, <3>3
  <2> QED
    BY <1>1, <1>8, <2>1 DEF Marked
<1>10. Walking'
  BY <1>1, <1>3, <1>6, WalkingStays
<1>11. Marks' /\ Naming' /\ Ordered' /\ Blank'
  BY <1>1, <1>3 DEF Marks, Naming, Ordered, Start, Blank
<1> QED
  BY <1>6, <1>8, <1>9, <1>10, <1>11 DEF Framing

\* An update is in the stream as it is encoded, behind the last message.
LEMMA UpdateFraming ==
    ASSUME TypeOK, TypeOK', Counters, Framing, ServerUpdate
    PROVE  Framing'
<1>1. /\ UNCHANGED <<srv, updates, base, VNCstate, rectVars, tileVars, lcdVars, buf>>
      /\ srv = "running" /\ updateNo < Len(updates) /\ updateNo' = updateNo + 1
  BY DEF ServerUpdate, Quiet, clientKept, connVars
<1>2. updateNo \in Nat /\ Len(updates) \in Nat /\ updateNo + 1 \in 1..Len(updates)
  BY <1>1, ScriptUpdates DEF Counters
<1>3. PICK bytes, m : bytes = Rfb!UpdateEncoding(updates[m]) /\ m = updateNo + 1
  OBVIOUS
<1>4. /\ bytes \in Seq(Byte) /\ bytes \in Seq(Int) /\ Len(bytes) \in Nat
      /\ Len(bytes) = UpdateLength(updates[m])
  BY <1>2, <1>3, ScriptUpdates DEF UpdateLength
<1>5. Send(bytes, {Len(bytes)}) /\ updateEnds' = Append(updateEnds, sent + Len(bytes))
  BY <1>3 DEF ServerUpdate
<1>6. Stream /\ Marks /\ Naming /\ Carried /\ Ordered /\ Marked /\ Blank /\ Walking
      /\ sent \in Int /\ Parsed \in Int
  BY <1>1, ParsedInt DEF Framing, Stream
<1>7. /\ Stream' /\ sent' = sent + Len(bytes) /\ Parsed' = Parsed /\ Parsed <= sent
      /\ ends' = ends \union {sent + Len(bytes)}
      /\ Kept(Parsed, buf, rx, sent, Parsed', buf', rx', sent')
      /\ Holds(Parsed', buf', rx', sent', sent, bytes)
  BY <1>1, <1>4, <1>5, <1>6, SendOnward
<1>8. /\ updateEnds \in Seq(Int) /\ Len(updateEnds) = updateNo
      /\ sent + Len(bytes) \in Int
  BY <1>4, <1>6 DEF Carried
<1>9. /\ updateEnds' \in Seq(Int) /\ Len(updateEnds') = updateNo'
      /\ \A k \in 1..updateNo : updateEnds'[k] = updateEnds[k]
      /\ updateEnds'[m] = sent + Len(bytes)
  BY <1>1, <1>2, <1>3, <1>5, <1>8, AppendProperties
<1>10. ASSUME NEW k \in 1..updateNo
       PROVE  /\ Start(k)' = Start(k) /\ updateEnds'[k] \in ends'
              /\ Holds(Parsed', buf', rx', sent', Start(k), Rfb!UpdateEncoding(updates[k]))
  <2>1. Start(k)' = Start(k)
    BY <1>1, <1>9 DEF Start
  <2>2. k \in 1..Len(updates) /\ Start(k) \in Int
    BY <1>6, StartInt
  <2> DEFINE p == Parsed  p2 == Parsed'  b2 == buf'  r2 == rx'  s2 == sent'
             at == Start(k)  enc == Rfb!UpdateEncoding(updates[k])
  <2>3. /\ p \in Int /\ sent \in Int /\ p2 \in Int /\ s2 \in Int /\ at \in Int /\ enc \in Seq(Int)
        /\ Kept(p, buf, rx, sent, p2, b2, r2, s2) /\ Holds(p, buf, rx, sent, at, enc)
    BY <1>4, <1>6, <1>7, <2>2, ScriptUpdates DEF Carried
  <2> HIDE DEF p, p2, b2, r2, s2, at, enc
  <2>4. Holds(p2, b2, r2, s2, at, enc)
    BY <2>3, HoldsOn
  <2>5. Holds(Parsed', buf', rx', sent', Start(k), Rfb!UpdateEncoding(updates[k]))
    BY <2>4 DEF p2, b2, r2, s2, at, enc
  <2>6. updateEnds'[k] \in ends'
    BY <1>6, <1>7, <1>9 DEF Carried
  <2> QED
    BY <2>1, <2>5, <2>6
<1>11. /\ Start(m)' = sent /\ updateEnds'[m] \in ends'
       /\ Holds(Parsed', buf', rx', sent', sent, Rfb!UpdateEncoding(updates[m]))
  <2>1. Start(m)' = (sent + Len(bytes)) - Len(bytes)
    BY <1>1, <1>4, <1>9 DEF Start, UpdateLength
  <2>2. (sent + Len(bytes)) - Len(bytes) = sent
    BY <1>4, <1>6
  <2> QED
    BY <1>3, <1>7, <1>9, <2>1, <2>2
<1>12. \A k \in 1..updateNo' : k \in 1..updateNo \/ k = m
  BY <1>1, <1>2, <1>3
<1>13. Carried'
  <2>1. updateEnds' \in Seq(Int) /\ Len(updateEnds') = updateNo' /\ updateNo' <= Len(updates')
    BY <1>1, <1>2, <1>9
  <2>2. ASSUME NEW k \in 1..updateNo'
        PROVE  /\ updateEnds'[k] \in ends'
               /\ Holds(Parsed', buf', rx', sent', Start(k)', Rfb!UpdateEncoding(updates'[k]))
    <3>1. CASE k \in 1..updateNo
      BY <1>1, <1>10, <3>1
    <3>2. CASE k = m
      BY <1>1, <1>11, <3>2
    <3> QED
      BY <1>12, <3>1, <3>2
  <2>3. (srv # "running" => updateNo = 0)'
    BY <1>1
  <2> QED
    BY <2>1, <2>2, <2>3 DEF Carried
<1>14. Ordered'
  <2>1. ASSUME NEW j \in 1..updateNo', NEW k \in 1..updateNo', j < k
        PROVE  updateEnds'[j] <= Start(k)'
    <3>1. j \in 1..updateNo
      BY <1>1, <1>2, <2>1
    <3>2. CASE k \in 1..updateNo
      BY <1>6, <1>9, <1>10, <2>1, <3>1, <3>2 DEF Ordered
    <3>3. CASE k = m
      <4>1. updateEnds[j] <= sent
        BY <1>6, <3>1 DEF Carried, Stream
      <4> QED
        BY <1>9, <1>11, <3>1, <3>3, <4>1
    <3> QED
      BY <1>12, <3>2, <3>3
  <2> QED
    BY <2>1 DEF Ordered
<1>15. Marked'
  <2>1. ASSUME NEW e \in ends', Parsed' <= e, e < sent'
        PROVE  (\E k \in 1..updateNo' : e = Start(k)') \/ Ahead(buf', rx', (e + 1) - Parsed') # 0
    <3>1. e \in ends /\ e \in Int /\ (e < sent \/ e = sent)
      BY <1>4, <1>6, <1>7, <2>1 DEF Stream
    <3>2. CASE e < sent
      <4>1. (\E k \in 1..updateNo : e = Start(k)) \/ Ahead(buf', rx', (e + 1) - Parsed') # 0
        BY <1>1, <1>6, <1>7, <2>1, <3>1, <3>2, MarksKept
      <4>2. \A k \in 1..updateNo : k \in 1..updateNo'
        BY <1>1, <1>2
      <4> QED
        BY <1>10, <4>1, <4>2
    <3>3. CASE e = sent
      <4>1. m \in 1..updateNo'
        BY <1>1, <1>2, <1>3
      <4> QED
        BY <1>11, <3>3, <4>1
    <3> QED
      BY <3>1, <3>2, <3>3
  <2> QED
    BY <2>1 DEF Marked
<1>16. Walking'
  <2> SUFFICES ASSUME Lawful' PROVE Walking'
    BY DEF Walking
  <2>1. \A k \in 1..updateNo : k \in 1..updateNo'
    BY <1>1, <1>2
  <2>2. Lawful
    BY <1>1, <2>1 DEF Lawful
  <2>3. CASE AtMessage
    <3>1. PICK n \in 0..updateNo : HasParsed(n) /\ screen = OnScreen[n]
      BY <2>3 DEF AtMessage, Shown
    <3>2. ~(m <= n) /\ n \in 0..updateNo'
      BY <1>1, <1>2, <1>3
    <3>3. ~(updateEnds'[m] <= Parsed')
      <4>1. m \in 1..updateNo' /\ m \in 1..Len(updates)
        BY <1>1, <1>2, <1>3
      <4>2. Rfb!LawfulUpdate(updates[m])
        BY <1>1, <4>1 DEF Lawful
      <4>3. Len(bytes) > 0
        BY <1>4, <4>1, <4>2, UpdateNotEmpty
      <4> QED
        BY <1>4, <1>6, <1>7, <1>9, <4>3
    <3>4. HasParsed(n)'
      <4>1. ASSUME NEW k \in 1..updateNo'
            PROVE  updateEnds'[k] <= Parsed' <=> k <= n
        <5>1. CASE k \in 1..updateNo
          BY <1>7, <1>9, <3>1, <5>1 DEF HasParsed
        <5>2. CASE k = m
          BY <3>2, <3>3, <5>2
        <5> QED
          BY <1>12, <5>1, <5>2
      <4> QED
        BY <4>1 DEF HasParsed
    <3>5. Shown'
      BY <1>1, <3>1, <3>2, <3>4, OnScreenStays DEF Shown, lcdVars
    <3> QED
      BY <1>1, <1>7, <2>3, <3>5 DEF Walking, AtMessage
  <2>4. CASE VNCstate = "DEAD"
    BY <1>1, <2>4 DEF Walking
  <2>5. CASE VNCstate = "PROCESSINGUPDATE" /\ \E k \in 1..updateNo : Within(k)
    <3>1. PICK k \in 1..updateNo : Within(k)
      BY <2>5
    <3>2. PICK pic, o, u : pic = OnScreen[k - 1] /\ o = Parsed - Start(k) /\ u = updates[k]
      OBVIOUS
    <3>3. InUpdate(pic, o, u)'
      BY <1>1, <3>1, <3>2, InUpdateStays DEF Within
    <3>4. (Parsed - Start(k))' = o /\ updates'[k] = u /\ o \in Nat /\ OnScreen'[k - 1] = pic
      BY <1>1, <1>7, <1>10, <3>1, <3>2, OnScreenStays DEF Within
    <3>5. Within(k)'
      BY <3>3, <3>4 DEF Within, InUpdate
    <3> QED
      BY <1>1, <2>1, <2>5, <3>5 DEF Walking
  <2> QED
    BY <1>1, <1>6, <2>2, <2>3, <2>4, <2>5 DEF Walking
<1>17. Marks' /\ Naming' /\ Blank'
  BY <1>1, <1>6 DEF Marks, Naming, Blank
<1> QED
  BY <1>7, <1>13, <1>15, <1>16, <1>17, <1>14 DEF Framing

\* The invariant holds as long as the host reads in time, waits until a close
\* was noticed, and loses what the endpoint held.
LEMMA FramingHolds ==
    ASSUME PromptHost, PatientHost, ~FifoSurvives
    PROVE  SystemSpec => [](TypeOK /\ Counters /\ Session /\ Framing)
<1>1. SystemInit => Framing
  BY DEF SystemInit, Framing
<1>2. /\ TypeOK /\ TypeOK' /\ Counters /\ SendOrder /\ Lines /\ Session /\ Framing
      /\ [SystemNext]_allVars
      => Framing'
  <2> SUFFICES ASSUME TypeOK, TypeOK', Counters, SendOrder, Lines, Session, Framing,
                      [SystemNext]_allVars
               PROVE  Framing'
    OBVIOUS
  <2>1. CASE Client
    BY <2>1, ClientFraming
  <2>2. CASE Server \/ ServerBell
    BY <2>2, HandshakeFraming, ReceiveFraming, UpdateFraming, BellFraming DEF Server
  <2>3. CASE HostOpen \/ HostClose \/ Press \/ ReleaseButton
    BY <2>3, HostFraming
  <2>4. CASE UNCHANGED allVars
    <3>1. UNCHANGED <<srv, sent, ends, updates, updateNo, updateEnds, base, VNCstate, rectVars,
                      tileVars, lcdVars, rx, buf>>
      BY <2>4 DEF allVars, srvVars, vars, envVars, connVars
    <3>2. CASE srv = "closed"
      BY <3>1, <3>2 DEF Framing
    <3>3. CASE srv # "closed"
      BY <3>1, <3>3, FramingStays
    <3> QED
      BY <3>2, <3>3
  <2> QED
    BY <2>1, <2>2, <2>3, <2>4 DEF SystemNext
<1>3. SystemSpec => [](Lines /\ Session)
  BY SessionHolds
<1> QED
  BY <1>1, <1>2, <1>3, SystemTypes, ClientInSystem, PTL DEF SystemSpec

\* The program leaves the loop for what it does not know of, and never comes back.
LEMMA WildStep ==
    ASSUME MainLoop
    PROVE  /\ pc # "wild"
           /\ pc' = "wild" => HextileSubrectOverrun \/ ProcessError
<1>1. CASE ProcessHextile
  <2>1. CASE HextileInit \/ HextileLastTile \/ HextileNextTile
    BY <2>1 DEF HextileInit, HextileLastTile, HextileNextTile, Again, Return0,
       HextileProcessing, PixelProcessing, Processing
  <2>2. CASE HextileWaitHeader \/ HextileRawHeader \/ HextileHeader
    BY <2>2 DEF HextileWaitHeader, HextileRawHeader, HextileHeader, HeaderHere, WaitForBytes, Again,
       Return0, HextileProcessing, PixelProcessing, Processing
  <2>3. CASE HextileDropRaw \/ HextileDrawRaw
    BY <2>3 DEF HextileDropRaw, HextileDrawRaw, DropOutOfViewPixels, TakePixels, Again, Return0,
       HextileProcessing, PixelProcessing, Processing
  <2>4. CASE HextileSubrect \/ HextileSubrectOverrun \/ HextileWaitSubrect \/ HextileBufferFilled
    BY <2>4 DEF HextileSubrect, HextileSubrectOverrun, HextileWaitSubrect, HextileBufferFilled,
       WaitForBytes, Again, Return0, HextileProcessing, PixelProcessing, Processing
  <2>5. CASE HextileDrawTile \/ HextileSkipTile
    BY <2>5 DEF HextileDrawTile, HextileSkipTile, Again, Return0, HextileProcessing,
       PixelProcessing, Processing
  <2> QED
    BY <1>1, <2>1, <2>2, <2>3, <2>4, <2>5 DEF ProcessHextile
<1>2. CASE PixelProcessor
  <2>1. CASE UpdateDone \/ WaitForRectangle \/ BadEncoding
    BY <2>1 DEF UpdateDone, WaitForRectangle, BadEncoding, RectangleHeader, WaitForBytes, Again,
       Return0, PixelProcessing, Processing
  <2>2. CASE RawRectangle \/ CopyRectRectangle \/ HextileRectangle
    BY <2>2 DEF RawRectangle, CopyRectRectangle, HextileRectangle, RectangleHeader, Again,
       Return0, PixelProcessing, Processing
  <2>3. CASE DropRectangle \/ ProcessCopyRect
    BY <2>3 DEF DropRectangle, ProcessCopyRect, DropOutOfViewPixels, TakePixels, WaitForBytes,
       Again, Return0, PixelProcessing, Processing
  <2> QED
    BY <1>1, <1>2, <2>1, <2>2, <2>3 DEF PixelProcessor
<1>3. CASE NotConnected \/ WaitForAuthType \/ WaitForVncAuthWord \/ WaitForVncAuthResponse
  BY <1>3 DEF NotConnected, WaitForAuthType, WaitForVncAuthWord, WaitForVncAuthResponse,
     Handshake, WaitForBytes, Again, Return0, Processing
<1>4. CASE SentClientInitMessage \/ WaitForServerName \/ Connected \/ WaitForUpdate
  BY <1>4 DEF SentClientInitMessage, WaitForServerName, Connected, WaitForUpdate,
     Handshake, WaitForBytes, Again, Return0, Processing
<1>5. CASE ProcessError
  BY <1>5 DEF ProcessError
<1>6. CASE VncServerGetData
  BY <1>6 DEF VncServerGetData, GetControlSame, GetControlChanged, LatchControl,
     GetDataDisconnected, GetDataConnected, ReadBytes
<1>7. CASE Buttons_Handler \/ SendResponse
  BY <1>7 DEF Buttons_Handler, SendResponse, SendVersion, SendAuthWord, SendClientInit,
     SendPixelFormat, SendEncodings, SendFullRefresh, SendRequest, NothingToSend, Respond
<1> QED
  BY <1>2, <1>3, <1>4, <1>5, <1>6, <1>7 DEF MainLoop, Vnc_StateMachine

\* However the host and the main loop cut the stream into pieces, over any
\* number of updates of any size and over any number of sessions, the client
\* looks for the next message exactly where the server began one: as long as
\* the server keeps to RFB and to the encodings the client asked for, no byte
\* of a message is skipped and none is parsed twice (Vnc_StateMachine and
\* pixelProcessor, which keep what is left in vncBuffer for the next pass).
THEOREM StreamAligned ==
    ASSUME PromptHost, PatientHost, ~FifoSurvives
    PROVE  SystemSpec => []Aligned
<1>1. TypeOK /\ Session /\ Framing => Aligned
  BY FramingAligned
<1> QED
  BY <1>1, FramingHolds, PTL

\* Whenever the client of such a server is between two messages, every pixel of
\* the display is what RFB makes of it, except those last sent in a form that
\* the client does not draw (raw or CopyRect rectangle, tile partly outside):
\* every raw, filled or subdivided hextile that fits on the screen is drawn
\* whole and in its place with the colours it was given or left by the tiles
\* before it, wherever pixelProcessor had to stop for more bytes, it repairs
\* what was not drawn there before, and nothing outside it changes
\* (processHextile of vnc.c with SetupTile, DrawRawTile and DrawHextile of
\* SpiLcd.c).
THEOREM PictureDrawn ==
    ASSUME PromptHost, PatientHost, ~FifoSurvives
    PROVE  SystemSpec => []PictureExact
<1>1. TypeOK /\ Counters /\ Framing => PictureExact
  BY FramingExact
<1> QED
  BY <1>1, FramingHolds, PTL

\* Nothing that a server may send makes the client write outside hextileBuffer,
\* however the stream is cut: what processHextile of vnc.c takes for the corner
\* and the size of a subrectangle always are those of one, and are inside the
\* tile.  (It does not check them: with a server that sends larger ones it does
\* write behind the buffer.)
THEOREM TileBufferKept ==
    ASSUME PromptHost, PatientHost, ~FifoSurvives
    PROVE  SystemSpec => []TileBufferSafe
<1>1. SystemInit => TileBufferSafe
  BY DEF SystemInit, TileBufferSafe
<1>2. /\ TypeOK /\ Counters /\ Lines /\ Session /\ Framing /\ TileBufferSafe
      /\ [SystemNext]_allVars
      => TileBufferSafe'
  <2> SUFFICES ASSUME TypeOK, Counters, Lines, Session, Framing, TileBufferSafe,
                      [SystemNext]_allVars,
                      srv' # "closed", Lawful', VNCstate' = "PROCESSINGUPDATE", pc' = "wild"
               PROVE  FALSE
    BY DEF TileBufferSafe
  <2>1. CASE Client
    <3>1. MainLoop /\ UNCHANGED <<srv, updates, updateNo>>
      BY <2>1 DEF Client, srvVars
    <3>2. HextileSubrectOverrun \/ ProcessError
      BY <3>1, WildStep
    <3>3. VNCstate' = VNCstate
      BY <3>2 DEF HextileSubrectOverrun, ProcessError, connVars
    <3>4. HextileSubrectOverrun
      BY <3>2, <3>3 DEF ProcessError
    <3>5. srv # "closed" /\ Lawful /\ VNCstate = "PROCESSINGUPDATE"
      BY <3>1, <3>3 DEF Lawful
    <3>6. Stream /\ Naming /\ Carried /\ Walking
      BY <3>5 DEF Framing
    <3>7. srv = "running"
      BY <3>5, <3>6 DEF Session, SetupRead, VersionStage, AuthWordStage, ClientInitStage,
         RefusedStage, Naming, InitPending, NamePending, Quiesced, Holding
    <3>8. PICK k \in 1..updateNo : Within(k)
      BY <3>5, <3>6, <3>7 DEF Walking, AtMessage
    <3>9. PICK pic, u, o : pic = OnScreen[k - 1] /\ u = updates[k] /\ o = Parsed - Start(k)
      OBVIOUS
    <3>10. o \in Nat /\ InUpdate(pic, o, u)
      BY <3>8, <3>9 DEF Within
    <3>11. k \in 1..Len(updates)
      BY <3>6, StartInt
    <3>12. FitUpdate(u)
      BY <3>5, <3>9, <3>11, ScriptUpdates DEF Lawful
    <3>13. Front(o, Rfb!UpdateEncoding(u))
      BY <3>6, <3>9, <3>10, FrontHere
    <3> QED
      BY <3>4, <3>10, <3>12, <3>13, NoOverrun
  <2>2. CASE HostOpen
    <3>1. VNCstate = "NOTCONNECTED" /\ VNCstate' = VNCstate
      BY <2>2 DEF HostOpen, Lines, clientKept, connVars
    <3> QED
      BY <3>1
  <2>3. CASE Server \/ ServerBell
    <3>1. srv # "closed" /\ UNCHANGED <<pc, VNCstate, updates>>
      BY <2>3 DEF Server, ServerVersion, ServerAuthWord, ServerClientInit, ServerSetup,
         ServerRequest, ServerKey, ServerUpdate, ServerBell, Receive, Quiet, clientKept, connVars
    <3>2. updateNo' \in {updateNo, updateNo + 1} /\ updateNo \in Nat
      BY <2>3 DEF Server, ServerVersion, ServerAuthWord, ServerClientInit, ServerSetup,
         ServerRequest, ServerKey, ServerUpdate, ServerBell, NoUpdate, Counters
    <3>3. \A k \in 1..updateNo : k \in 1..updateNo'
      BY <3>2
    <3>4. Lawful
      BY <3>1, <3>3 DEF Lawful
    <3> QED
      BY <3>1, <3>4 DEF TileBufferSafe
  <2>4. CASE HostClose
    BY <2>4 DEF HostClose
  <2>5. CASE Press \/ ReleaseButton \/ UNCHANGED allVars
    <3>1. UNCHANGED <<pc, VNCstate, srv, updates, updateNo>>
      BY <2>5 DEF Press, ReleaseButton, allVars, vars, srvVars, clientKept, connVars
    <3> QED
      BY <3>1 DEF TileBufferSafe, Lawful
  <2> QED
    BY <2>1, <2>2, <2>3, <2>4, <2>5 DEF SystemNext
<1>3. SystemSpec => []Lines
  BY SessionHolds, PTL
<1> QED
  BY <1>1, <1>2, <1>3, FramingHolds, PTL DEF SystemSpec
=============================================================================
