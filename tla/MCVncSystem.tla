----------------------------- MODULE MCVncSystem -----------------------------
(***************************************************************************)
(* Scripts of updates for VncSystem.  Tiles are 2x2 on a 3x4 display, so   *)
(* that rectangles have edge tiles, tiles that only partly fit and several *)
(* rows of tiles.                                                          *)
(***************************************************************************)
EXTENDS VncSystem

T(raw, bg, fg, coloured, subs) ==
    [raw |-> raw, bg |-> bg, fg |-> fg, coloured |-> coloured, subs |-> subs]
S(x, y, w, h, c) == [x |-> x, y |-> y, w |-> w, h |-> h, c |-> c]
Rect(x, y, w, h, enc, pixels, source, tiles) ==
    [x |-> x, y |-> y, w |-> w, h |-> h, enc |-> enc, pixels |-> pixels,
     source |-> source, tiles |-> tiles]
R(x, y, w, h, enc, tiles) == Rect(x, y, w, h, enc, <<>>, <<0, 0>>, tiles)

None == Rfb!None

\* Two rows of tiles, a narrow right column, a low last row: plain
\* background, subrectangles in the foreground colour, a carried background,
\* a raw tile and coloured subrectangles
FullHextile ==
    R(0, 0, 3, 4, 5,
      << T(<<>>, 258, None, FALSE, <<>>),
         T(<<>>, None, 772, FALSE, <<S(0, 1, 1, 1, None)>>),
         T(<<1, 515, 3, 260>>, None, None, FALSE, <<>>),
         T(<<>>, 6, None, TRUE, <<S(0, 0, 1, 2, 777), S(0, 1, 1, 1, 300)>>) >>)

\* A rectangle whose second tile hangs over the right edge of the display
Overhang(tail) == R(1, 1, 4, 1, 5, << T(<<>>, 513, None, FALSE, <<>>), tail >>)

OverhangHex == Overhang(T(<<>>, None, None, FALSE, <<>>))
OverhangRaw == Overhang(T(<<9, 9>>, None, None, FALSE, <<>>))
RawRect == Rect(0, 2, 2, 1, 0, <<1027, 5>>, <<0, 0>>, <<>>)
CopyRect == Rect(1, 0, 1, 1, 1, <<>>, <<2, 3>>, <<>>)
\* A copy that a later rectangle of the same update covers
CopyOver == Rect(2, 2, 1, 2, 1, <<>>, <<1, 1>>, <<>>)
Dot == R(2, 3, 1, 1, 5, << T(<<>>, 4660, None, FALSE, <<>>) >>)
Corner == R(0, 0, 1, 1, 5, << T(<<>>, 513, 772, FALSE, <<S(0, 0, 1, 1, None)>>) >>)

Full == << <<FullHextile>>, <<RawRect, OverhangHex>>, <<OverhangRaw, CopyOver, Dot>>, <<>> >>
\* What a server must not send: an encoding the client did not ask for (its
\* header reads as three empty updates) and a subrectangle larger than a tile
Unasked == R(0, 0, 0, 0, 131072, <<>>)
TooLarge == R(0, 0, 2, 2, 5, << T(<<>>, 1, 2, FALSE, <<S(1, 0, 2, 1, None)>>) >>)

MCScriptsAll == {Full, << <<Unasked>>, <<TooLarge>> >>}
MCScriptsShort == {<< <<Dot, CopyRect, Corner>>, <<RawRect>> >>}
=============================================================================
