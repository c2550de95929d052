---------------------------- MODULE VncTileProofs ----------------------------
(***************************************************************************)
(* A client that parses a tile of a hextile rectangle and draws it.        *)
(*                                                                         *)
(* The bytes of an update are those of its rectangles, theirs those of     *)
(* their tiles, each piece at a place of its own.  FlattenSeq is a fold,   *)
(* so that this needs induction, which is done here on sets of numbers;    *)
(* the pictures an update's rectangles leave are unfolded the same way.    *)
(*                                                                         *)
(* InTile is the state a client must be in that has parsed the first bytes *)
(* of a tile, and Drawn what the display shows then: the tiles before it   *)
(* over the picture the rectangle began with, and of the tile itself what  *)
(* was parsed, on the LCD (raw) or in hextileBuffer (subrectangles).  The  *)
(* last lemma, StepDraws, is that every call of pixelProcessor within a    *)
(* tile keeps Drawn.                                                       *)
(***************************************************************************)
EXTENDS VncSystemProofs, WellFoundedInduction

-----------------------------------------------------------------------------
(* Joining sequences *)

\* A set of integers that has m, and with every later number the next one, has
\* all of them from m on.
LEMMA Induction ==
    ASSUME NEW S, NEW m \in Int, m \in S, \A n \in Int : n >= m /\ n \in S => n + 1 \in S
    PROVE  \A n \in Int : n >= m => n \in S
<1> SUFFICES ASSUME NEW n \in Int, n >= m, n \notin S PROVE FALSE
  OBVIOUS
<1> DEFINE T == {k \in Nat : m + k \notin S}
<1>1. n - m \in T
  BY DEF T
<1>2. T \subseteq Nat /\ T # {}
  BY <1>1
<1>3. \E x \in T : \A y \in T : ~ (<<y, x>> \in OpToRel(<, Nat))
  <2> HIDE DEF T
  <2> QED
    BY <1>2, NatLessThanWellFounded, WFMin
<1>4. PICK k \in T : \A y \in T : ~ (<<y, k>> \in OpToRel(<, Nat))
  BY <1>3
<1>5. \A y \in T : ~ (y < k)
  BY <1>4 DEF OpToRel
<1>6. k # 0
  BY DEF T
<1>7. k - 1 \in Nat /\ k - 1 \notin T
  BY <1>5, <1>6
<1>8. m + (k - 1) \in S /\ m + (k-1) >= m
  BY <1>7
<1>9. (m + (k - 1)) + 1 \in S
  BY <1>8
<1> QED
  BY <1>9

\* Joining the first n of the pieces
IsJoin(f, seqs, n) ==
    \A i \in 1..n : f[i] = IF i = 1 THEN seqs[i] ELSE f[i - 1] \o seqs[i]

\* Pieces can be joined one after the other.
LEMMA JoinsExist ==
    ASSUME NEW V, NEW seqs \in Seq(Seq(V))
    PROVE  \A n \in 0..Len(seqs) : \E f \in [1..n -> Seq(V)] : IsJoin(f, seqs, n)
<1> DEFINE S == {n \in Int : n <= Len(seqs) =>
                    \E f \in [1..n -> Seq(V)] : IsJoin(f, seqs, n)}
<1>0. Len(seqs) \in Nat /\ \A i \in 1..Len(seqs) : seqs[i] \in Seq(V)
  BY LenProperties
<1>1. 0 \in S
  <2> DEFINE e == [i \in 1..0 |-> <<>>]
  <2>1. e \in [1..0 -> Seq(V)]
    OBVIOUS
  <2>2. IsJoin(e, seqs, 0)
    BY DEF IsJoin
  <2>3. 0 \in Int
    OBVIOUS
  <2> HIDE DEF e
  <2> QED
    BY <2>1, <2>2, <2>3
<1>2. ASSUME NEW n \in Int, n >= 0, n \in S
      PROVE  n + 1 \in S
  <2> SUFFICES ASSUME n + 1 <= Len(seqs)
               PROVE  \E f \in [1..(n+1) -> Seq(V)] : IsJoin(f, seqs, n + 1)
    OBVIOUS
  <2>1. PICK f \in [1..n -> Seq(V)] : IsJoin(f, seqs, n)
    BY <1>0, <1>2
  <2> DEFINE new == IF n = 0 THEN seqs[1] ELSE f[n] \o seqs[n + 1]
             g == [i \in 1..(n + 1) |-> IF i <= n THEN f[i] ELSE new]
  <2>2. new \in Seq(V)
    <3>1. CASE n = 0
      BY <1>0, <3>1
    <3>2. CASE n # 0
      <4>1. f[n] \in Seq(V) /\ seqs[n + 1] \in Seq(V)
        BY <1>0, <1>2, <3>2
      <4> QED
        BY <3>2, <4>1, ConcatProperties
    <3> QED
      BY <3>1, <3>2
  <2>3. g \in [1..(n + 1) -> Seq(V)]
    BY <1>2, <2>2
  <2>4. IsJoin(g, seqs, n + 1)
    <3> SUFFICES ASSUME NEW i \in 1..(n + 1)
                 PROVE  g[i] = IF i = 1 THEN seqs[i] ELSE g[i - 1] \o seqs[i]
      BY DEF IsJoin
    <3>1. CASE i <= n
      <4>0. i \in 1..n
        BY <1>2, <3>1
      <4>1. f[i] = IF i = 1 THEN seqs[i] ELSE f[i - 1] \o seqs[i]
        BY <2>1, <4>0 DEF IsJoin
      <4>2. g[i] = f[i] /\ (i # 1 => g[i - 1] = f[i - 1])
        BY <1>2, <3>1
      <4> QED
        BY <4>1, <4>2
    <3>2. CASE i = n + 1
      <4>1. g[i] = new
        BY <1>2, <3>2
      <4>2. n # 0 => g[i - 1] = f[n]
        BY <1>2, <3>2
      <4> QED
        BY <1>2, <3>2, <4>1, <4>2
    <3> QED
      BY <1>2, <3>1, <3>2
  <2> QED
    BY <2>3, <2>4
<1>3. \A n \in Int : n >= 0 => n \in S
  <2> HIDE DEF S
  <2>1. 0 \in Int /\ 0 \in S /\ \A n \in Int : n >= 0 /\ n \in S => n + 1 \in S
    BY <1>1, <1>2
  <2> QED
    BY <2>1, Induction, Zenon
<1> QED
  BY <1>0, <1>3

\* Of the joins of the first pieces every one is the front of the next ones.
LEMMA JoinPieces ==
    ASSUME NEW V, NEW seqs \in Seq(Seq(V)), Len(seqs) >= 1,
           NEW f \in [1..Len(seqs) -> Seq(V)], IsJoin(f, seqs, Len(seqs))
    PROVE  /\ f[1] = seqs[1]
           /\ \A i \in 1..(Len(seqs) - 1) :
                /\ Len(f[i + 1]) = Len(f[i]) + Len(seqs[i + 1])
                /\ \A j \in 1..Len(f[i]) : f[i + 1][j] = f[i][j]
                /\ \A j \in 1..Len(seqs[i + 1]) :
                     f[i + 1][Len(f[i]) + j] = seqs[i + 1][j]
<1>0. Len(seqs) \in Nat /\ \A i \in 1..Len(seqs) : seqs[i] \in Seq(V)
  BY LenProperties
<1>1. f[1] = seqs[1]
  <2>1. 1 \in 1..Len(seqs)
    BY <1>0
  <2> QED
    BY <2>1 DEF IsJoin
<1>2. ASSUME NEW i \in 1..(Len(seqs) - 1)
      PROVE  /\ Len(f[i + 1]) = Len(f[i]) + Len(seqs[i + 1])
             /\ \A j \in 1..Len(f[i]) : f[i + 1][j] = f[i][j]
             /\ \A j \in 1..Len(seqs[i + 1]) :
                  f[i + 1][Len(f[i]) + j] = seqs[i + 1][j]
  <2> DEFINE s == f[i]  t == seqs[i + 1]  st == f[i + 1]
  <2>1. i + 1 \in 1..Len(seqs) /\ i \in 1..Len(seqs) /\ i + 1 # 1 /\ (i + 1) - 1 = i
    BY <1>0
  <2>2. s \in Seq(V) /\ t \in Seq(V) /\ st = s \o t
    BY <1>0, <2>1 DEF IsJoin
  <2> HIDE DEF s, t, st
  <2>3. /\ Len(st) = Len(s) + Len(t)
        /\ \A k \in 1 .. Len(s) + Len(t) : st[k] = IF k <= Len(s) THEN s[k] ELSE t[k - Len(s)]
    BY <2>2, ConcatProperties
  <2>4. Len(s) \in Nat /\ Len(t) \in Nat
    BY <2>2, LenProperties
  <2>5. \A j \in 1..Len(s) : st[j] = s[j]
    BY <2>3, <2>4
  <2>6. \A j \in 1..Len(t) : st[Len(s) + j] = t[j]
    <3> SUFFICES ASSUME NEW j \in 1..Len(t) PROVE st[Len(s) + j] = t[j]
      OBVIOUS
    <3>1. Len(s) + j \in 1 .. Len(s) + Len(t) /\ ~(Len(s) + j <= Len(s)) /\ Len(s) + j - Len(s) = j
      BY <2>4
    <3> QED
      BY <2>3, <3>1
  <2> QED
    BY <2>3, <2>5, <2>6 DEF s, t, st
<1> QED
  BY <1>1, <1>2

\* FlattenSeq is the last of the joins.
LEMMA FlattenIsJoin ==
    ASSUME NEW V, NEW seqs \in Seq(Seq(V)), Len(seqs) >= 1
    PROVE  \E f \in [1..Len(seqs) -> Seq(V)] :
              IsJoin(f, seqs, Len(seqs)) /\ Rfb!FlattenSeq(seqs) = f[Len(seqs)]
<1>0. Len(seqs) \in Nat /\ Len(seqs) # 0 /\ Len(seqs) \in 0..Len(seqs)
  BY LenProperties
<1>1. PICK f \in [1..Len(seqs) -> Seq(V)] : IsJoin(f, seqs, Len(seqs))
  BY <1>0, JoinsExist
<1> DEFINE P(g) == g = [i \in 1..Len(seqs) |-> IF i = 1 THEN seqs[i] ELSE g[i - 1] \o seqs[i]]
           c == CHOOSE g : P(g)
<1>2. P(f)
  BY <1>1 DEF IsJoin
<1>3. P(c)
  BY <1>2, Zenon
<1>4. Rfb!FlattenSeq(seqs) = c[Len(seqs)]
  BY <1>0 DEF Rfb!FlattenSeq
<1> HIDE DEF c
<1>5. DOMAIN c = 1..Len(seqs) /\ IsJoin(c, seqs, Len(seqs))
  BY <1>3 DEF IsJoin
<1> DEFINE S == {n \in Int : n <= Len(seqs) => c[n] \in Seq(V)}
<1>6. \A n \in Int : n >= 1 => n \in S
  <2>0. \A i \in 1..Len(seqs) : seqs[i] \in Seq(V)
    OBVIOUS
  <2>1. 1 \in S
    <3>1. 1 \in 1..Len(seqs) /\ 1 \in Int
      BY <1>0
    <3>2. c[1] = seqs[1]
      BY <1>5, <3>1 DEF IsJoin
    <3> QED
      BY <2>0, <3>1, <3>2
  <2>2. ASSUME NEW n \in Int, n >= 1, n \in S
        PROVE  n + 1 \in S
    <3> SUFFICES ASSUME n + 1 <= Len(seqs) PROVE c[n + 1] \in Seq(V)
      OBVIOUS
    <3>1. c[n] \in Seq(V)
      BY <1>0, <2>2
    <3>2. n + 1 \in 1..Len(seqs) /\ n + 1 # 1 /\ (n + 1) - 1 = n
      BY <1>0, <2>2
    <3>3. c[n + 1] = c[n] \o seqs[n + 1]
      BY <1>5, <3>2 DEF IsJoin
    <3> QED
      BY <2>0, <3>1, <3>2, <3>3, ConcatProperties
  <2> HIDE DEF S
  <2> QED
    BY <2>1, <2>2, Induction
<1>7. \A n \in 1..Len(seqs) : c[n] \in Seq(V)
  BY <1>0, <1>6
<1>8. c \in [1..Len(seqs) -> Seq(V)]
  <2>1. c = [n \in 1..Len(seqs) |-> c[n]]
    BY <1>3
  <2> QED
    BY <1>7, <2>1
<1> QED
  BY <1>4, <1>5, <1>8

AreCuts(off, seqs) ==
    /\ off \in [1..(Len(seqs) + 1) -> Nat]
    /\ off[1] = 0 /\ off[Len(seqs) + 1] = Len(Rfb!FlattenSeq(seqs))
    /\ \A i \in 1..Len(seqs) :
         /\ off[i + 1] = off[i] + Len(seqs[i])
         /\ off[i + 1] <= Len(Rfb!FlattenSeq(seqs))
         /\ \A j \in 1..Len(seqs[i]) : Rfb!FlattenSeq(seqs)[off[i] + j] = seqs[i][j]

Cuts(seqs) == CHOOSE off : AreCuts(off, seqs)

\* Each piece is in the whole between its cuts.
LEMMA Joined ==
    ASSUME NEW V, NEW seqs \in Seq(Seq(V))
    PROVE  Rfb!FlattenSeq(seqs) \in Seq(V) /\ AreCuts(Cuts(seqs), seqs)
<1>0. Len(seqs) \in Nat /\ \A i \in 1..Len(seqs) : seqs[i] \in Seq(V) /\ Len(seqs[i]) \in Nat
  <2>1. Len(seqs) \in Nat /\ \A i \in 1..Len(seqs) : seqs[i] \in Seq(V)
    BY LenProperties
  <2> QED
    BY <2>1, LenProperties
<1>1. SUFFICES Rfb!FlattenSeq(seqs) \in Seq(V) /\ \E off : AreCuts(off, seqs)
  BY <1>1, Zenon DEF Cuts
<1>2. CASE Len(seqs) = 0
  <2>1. Rfb!FlattenSeq(seqs) = <<>>
    BY <1>2, EmptySeq DEF Rfb!FlattenSeq
  <2> DEFINE off == [i \in 1..1 |-> 0]
  <2>2. AreCuts(off, seqs)
    BY <1>2, <2>1 DEF AreCuts
  <2> QED
    BY <2>1, <2>2
<1>3. CASE Len(seqs) >= 1
  <2> DEFINE n == Len(seqs)
  <2>1. PICK f \in [1..n -> Seq(V)] : IsJoin(f, seqs, n) /\ Rfb!FlattenSeq(seqs) = f[n]
    BY <1>3, FlattenIsJoin
  <2>2. \A i \in 1..n : f[i] \in Seq(V) /\ Len(f[i]) \in Nat
    <3>1. \A i \in 1..n : f[i] \in Seq(V)
      BY <2>1
    <3> QED
      BY <3>1, LenProperties
  <2>3. /\ f[1] = seqs[1]
        /\ \A i \in 1..(n - 1) :
                /\ Len(f[i + 1]) = Len(f[i]) + Len(seqs[i + 1])
                /\ \A j \in 1..Len(f[i]) : f[i + 1][j] = f[i][j]
                /\ \A j \in 1..Len(seqs[i + 1]) :
                     f[i + 1][Len(f[i]) + j] = seqs[i + 1][j]
    BY <1>3, <2>1, JoinPieces
  <2>4. ASSUME NEW i \in 1..n
        PROVE  Len(f[i]) <= Len(f[n]) /\ \A j \in 1..Len(f[i]) : f[n][j] = f[i][j]
    <3> DEFINE Front(m) == Len(f[i]) <= Len(f[m]) /\ \A j \in 1..Len(f[i]) : f[m][j] = f[i][j]
               S == {m \in Int : m <= n => Front(m)}
    <3>1. i \in S
      BY <1>0, <2>2
    <3>2. ASSUME NEW m \in Int, m >= i, m \in S
          PROVE  m + 1 \in S
      <4> SUFFICES ASSUME m + 1 <= n PROVE Front(m + 1)
        OBVIOUS
      <4>1. Front(m) /\ m \in 1..(n - 1) /\ m \in 1..n /\ m + 1 \in 1..n
        BY <1>0, <3>2
      <4>2. /\ Len(f[m]) \in Nat /\ Len(f[i]) \in Nat /\ Len(seqs[m + 1]) \in Nat
            /\ Len(f[m + 1]) = Len(f[m]) + Len(seqs[m + 1])
            /\ \A j \in 1..Len(f[m]) : f[m + 1][j] = f[m][j]
        BY <1>0, <2>2, <2>3, <4>1
      <4>3. Len(f[i]) <= Len(f[m + 1])
        BY <4>1, <4>2
      <4>4. ASSUME NEW j \in 1..Len(f[i]) PROVE f[m + 1][j] = f[i][j]
        <5>1. j \in 1..Len(f[m])
          BY <4>1, <4>2
        <5> QED
          BY <4>1, <4>2, <5>1
      <4> QED
        BY <4>3, <4>4
    <3>3. i \in Int /\ n \in Int /\ n >= i
      BY <1>0
    <3>4. n \in S
      <4> HIDE DEF S
      <4> QED
        BY <3>1, <3>2, <3>3, Induction
    <3> QED
      BY <3>3, <3>4
  <2> DEFINE off == [i \in 1..(n + 1) |-> IF i = 1 THEN 0 ELSE Len(f[i - 1])]
  <2>5. off \in [1..(n + 1) -> Nat] /\ off[1] = 0 /\ \A i \in 1..n : off[i + 1] = Len(f[i])
    BY <1>0, <2>2
  <2> HIDE DEF off
  <2>6. off[n + 1] = Len(Rfb!FlattenSeq(seqs))
    BY <1>0, <1>3, <2>1, <2>5
  <2>7. ASSUME NEW i \in 1..n
        PROVE  /\ off[i + 1] = off[i] + Len(seqs[i])
               /\ off[i + 1] <= Len(Rfb!FlattenSeq(seqs))
               /\ \A j \in 1..Len(seqs[i]) : Rfb!FlattenSeq(seqs)[off[i] + j] = seqs[i][j]
    <3>1. off[i + 1] = Len(f[i]) /\ off[i + 1] <= Len(Rfb!FlattenSeq(seqs))
      BY <2>1, <2>4, <2>5
    <3>2. off[i + 1] = off[i] + Len(seqs[i])
          /\ \A j \in 1..Len(seqs[i]) : f[i][off[i] + j] = seqs[i][j]
      <4>1. CASE i = 1
        BY <1>0, <2>3, <2>5, <4>1
      <4>2. CASE i # 1
        <5>1. i - 1 \in 1..(n - 1) /\ (i - 1) + 1 = i /\ i - 1 \in 1..n
          BY <1>0, <4>2
        <5>2. off[i] = Len(f[i - 1])
          BY <2>5, <5>1
        <5> DEFINE h == i - 1
        <5>3. /\ Len(f[h + 1]) = Len(f[h]) + Len(seqs[h + 1])
              /\ \A j \in 1..Len(seqs[h + 1]) :
                   f[h + 1][Len(f[h]) + j] = seqs[h + 1][j]
          BY <2>3, <5>1
        <5> QED
          BY <3>1, <5>1, <5>2, <5>3
      <4> QED
        BY <4>1, <4>2
    <3>3. ASSUME NEW j \in 1..Len(seqs[i]) PROVE Rfb!FlattenSeq(seqs)[off[i] + j] = seqs[i][j]
      <4>1. off[i] + j \in 1..Len(f[i])
        <5>1. off[i] \in Nat /\ Len(seqs[i]) \in Nat
          <6>1. i \in 1..(n + 1)
            BY <1>0
          <6> QED
            BY <1>0, <2>5, <6>1
        <5> QED
          BY <3>1, <3>2, <5>1
      <4> QED
        BY <2>1, <2>4, <3>2, <4>1
    <3> QED
      BY <3>1, <3>2, <3>3
  <2>8. AreCuts(off, seqs)
    BY <2>5, <2>6, <2>7 DEF AreCuts
  <2>9. Rfb!FlattenSeq(seqs) \in Seq(V)
    BY <1>0, <1>3, <2>1, <2>2
  <2> QED
    BY <2>8, <2>9
<1> QED
  BY <1>0, <1>2, <1>3

\* The cuts of pieces that are all of one length.
LEMMA EqualCuts ==
    ASSUME NEW V, NEW seqs \in Seq(Seq(V)), NEW L \in Nat,
           \A i \in 1..Len(seqs) : Len(seqs[i]) = L
    PROVE  \A i \in 1..(Len(seqs) + 1) : Cuts(seqs)[i] = L * (i - 1)
<1> DEFINE c == Cuts(seqs)
           S == {i \in Int : i <= Len(seqs) + 1 => c[i] = L * (i - 1)}
<1>0. Len(seqs) \in Nat /\ AreCuts(c, seqs)
  BY Joined, LenProperties
<1> HIDE DEF c
<1>1. 1 \in S
  BY <1>0 DEF AreCuts
<1>2. ASSUME NEW i \in Int, i >= 1, i \in S
      PROVE  i + 1 \in S
  <2> SUFFICES ASSUME i + 1 <= Len(seqs) + 1 PROVE c[i + 1] = L * ((i + 1) - 1)
    OBVIOUS
  <2>1. i \in 1..Len(seqs) /\ c[i] = L * (i - 1)
    BY <1>0, <1>2
  <2>2. c[i + 1] = L * (i - 1) + L
    BY <1>0, <2>1 DEF AreCuts
  <2>3. L * (i - 1) + L = L * ((i + 1) - 1)
    OBVIOUS
  <2> QED
    BY <2>2, <2>3
<1>3. \A i \in Int : i >= 1 => i \in S
  <2>1. \A i \in Int : i >= 1 /\ i \in S => i + 1 \in S
    BY <1>2
  <2>2. 1 \in Int
    OBVIOUS
  <2> HIDE DEF S
  <2> QED
    BY <1>1, <2>1, <2>2, Induction
<1> QED
  BY <1>0, <1>3 DEF c

-----------------------------------------------------------------------------
(* The encodings *)

\* Where the parts of two joined sequences are.
LEMMA ConcatAt ==
    ASSUME NEW V, NEW s \in Seq(V), NEW t \in Seq(V), NEW st, st = s \o t
    PROVE  /\ st \in Seq(V) /\ Len(s) \in Nat /\ Len(t) \in Nat
           /\ Len(st) = Len(s) + Len(t)
           /\ \A i \in 1..Len(s) : st[i] = s[i]
           /\ \A j \in 1..Len(t) : st[Len(s) + j] = t[j]
<1>1. /\ st \in Seq(V) /\ Len(st) = Len(s) + Len(t)
      /\ \A k \in 1 .. Len(s) + Len(t) : st[k] = IF k <= Len(s) THEN s[k] ELSE t[k - Len(s)]
  BY ConcatProperties
<1>2. Len(s) \in Nat /\ Len(t) \in Nat
  BY LenProperties
<1>3. \A i \in 1..Len(s) : st[i] = s[i]
  BY <1>1, <1>2
<1>4. ASSUME NEW j \in 1..Len(t) PROVE st[Len(s) + j] = t[j]
  <2>1. Len(s) + j \in 1 .. Len(s) + Len(t) /\ ~(Len(s) + j <= Len(s)) /\ Len(s) + j - Len(s) = j
    BY <1>2
  <2> QED
    BY <1>1, <2>1
<1> QED
  BY <1>1, <1>2, <1>3, <1>4

\* A word is two bytes, the high one first.
LEMMA WordBytes ==
    ASSUME NEW n \in Nat
    PROVE  /\ Rfb!Word(n) \in Seq(Int) /\ Len(Rfb!Word(n)) = 2
           /\ U16(Rfb!Word(n)[1], Rfb!Word(n)[2]) = n
<1>0. n \in Int /\ n >= 0
  OBVIOUS
<1>1. n \div 256 \in Int /\ n % 256 \in Int /\ (n % 256) + (n \div 256) * 256 = n
  BY <1>0
<1> QED
  BY <1>1 DEF Rfb!Word, U16

\* A pixel is two bytes, the low one first.
LEMMA PixelTwoBytes ==
    ASSUME NEW c \in Rfb!Pixel
    PROVE  /\ Rfb!PixelBytes(c) \in Seq(Int) /\ Len(Rfb!PixelBytes(c)) = 2
           /\ LittlePixel(Rfb!PixelBytes(c)[1], Rfb!PixelBytes(c)[2]) = c
<1>1. c \in Int /\ c >= 0
  <2>1. Rfb!MaxPixel \in Int
    BY DEF Rfb!MaxPixel
  <2> QED
    BY <2>1 DEF Rfb!Pixel
<1>2. c \div 256 \in Int /\ c % 256 \in Int /\ (c % 256) + (c \div 256) * 256 = c
  BY <1>1
<1>3. Rfb!PixelBytes(c) = <<c % 256, c \div 256>>
  BY <1>1 DEF Rfb!PixelBytes, Rfb!None
<1> QED
  BY <1>2, <1>3 DEF LittlePixel

\* The bytes of a subrectangle: its colour if it has one of its own, its
\* corner and its size.
SubrectLength(t) == IF t.coloured THEN 4 ELSE 2

\* The bytes of a subrectangle, by their place.
LEMMA SubrectShape ==
    ASSUME NEW t \in Rfb!Tiles, NEW s \in Rfb!Subrects, t.coloured => s.c # Rfb!None
    PROVE  LET e == Rfb!SubrectEncoding(t, s)
               l == SubrectLength(t)
           IN  /\ e \in Seq(Int) /\ Len(e) = l
               /\ t.coloured => LittlePixel(e[1], e[2]) = s.c
               /\ e[l - 1] = 16 * s.x + s.y
               /\ e[l] = 16 * (s.w - 1) + (s.h - 1)
<1> DEFINE place == <<16 * s.x + s.y, 16 * (s.w - 1) + (s.h - 1)>>
           colour == Rfb!PixelBytes(s.c)
           e == Rfb!SubrectEncoding(t, s)
<1>1. s.x \in Int /\ s.y \in Int /\ s.w \in Int /\ s.h \in Int
      /\ (s.c # Rfb!None => s.c \in Rfb!Pixel)
  BY TileAssumption DEF Rfb!Subrects
<1>2. place \in Seq(Int) /\ Len(place) = 2
      /\ place[1] = 16 * s.x + s.y /\ place[2] = 16 * (s.w - 1) + (s.h - 1)
  BY <1>1
<1>3. CASE t.coloured
  <2>1. colour \in Seq(Int) /\ Len(colour) = 2 /\ LittlePixel(colour[1], colour[2]) = s.c
    BY <1>1, <1>3, PixelTwoBytes
  <2>2. e = colour \o place
    BY <1>3 DEF Rfb!SubrectEncoding
  <2> HIDE DEF colour, place, e
  <2>3. /\ e \in Seq(Int) /\ Len(e) = 4 /\ e[1] = colour[1] /\ e[2] = colour[2]
        /\ e[2 + 1] = place[1] /\ e[2 + 2] = place[2]
    <3>1. /\ e \in Seq(Int) /\ Len(e) = Len(colour) + Len(place)
          /\ \A i \in 1..Len(colour) : e[i] = colour[i]
          /\ \A j \in 1..Len(place) : e[Len(colour) + j] = place[j]
      <4>1. colour \in Seq(Int) /\ place \in Seq(Int) /\ e = colour \o place
        BY <1>2, <2>1, <2>2
      <4> QED
        BY <4>1, ConcatAt, SMT
    <3> QED
      BY <1>2, <2>1, <3>1
  <2> QED
    BY <1>2, <1>3, <2>1, <2>3 DEF SubrectLength, e
<1>4. CASE ~t.coloured
  <2>1. e = place
    BY <1>2, <1>4, ConcatEmptySeq DEF Rfb!SubrectEncoding
  <2> HIDE DEF place, e
  <2> QED
    BY <1>2, <1>4, <2>1 DEF SubrectLength, e
<1> QED
  BY <1>3, <1>4

\* The bytes of a tile in front of its subrectangles.
ColourLength(c) == IF c = Rfb!None THEN 0 ELSE 2
HeaderLength(t) ==
    1 + ColourLength(t.bg) + ColourLength(t.fg) + (IF t.subs = <<>> THEN 0 ELSE 1)

SubrectPieces(t) == [i \in DOMAIN t.subs |-> Rfb!SubrectEncoding(t, t.subs[i])]
PixelPieces(px) == [i \in DOMAIN px |-> Rfb!PixelBytes(px[i])]

\* The fields of a tile.
LEMMA TileTypes ==
    ASSUME NEW t \in Rfb!Tiles
    PROVE  /\ t.raw \in Seq(Rfb!Pixel) /\ Len(t.raw) \in Nat /\ DOMAIN t.raw = 1..Len(t.raw)
           /\ t.bg # Rfb!None => t.bg \in Rfb!Pixel
           /\ t.fg # Rfb!None => t.fg \in Rfb!Pixel
           /\ t.coloured \in BOOLEAN
           /\ t.subs \in Seq(Rfb!Subrects) /\ Len(t.subs) \in Nat
           /\ DOMAIN t.subs = 1..Len(t.subs)
           /\ t.raw = <<>> <=> Len(t.raw) = 0
           /\ t.subs = <<>> <=> Len(t.subs) = 0
<1>1. /\ t.raw \in Seq(Rfb!Pixel) /\ t.subs \in Seq(Rfb!Subrects) /\ t.coloured \in BOOLEAN
      /\ t.bg # Rfb!None => t.bg \in Rfb!Pixel
      /\ t.fg # Rfb!None => t.fg \in Rfb!Pixel
  BY DEF Rfb!Tiles
<1>2. Len(t.raw) \in Nat /\ DOMAIN t.raw = 1..Len(t.raw)
      /\ Len(t.subs) \in Nat /\ DOMAIN t.subs = 1..Len(t.subs)
  BY <1>1, LenProperties
<1>3. (t.raw = <<>> <=> Len(t.raw) = 0) /\ (t.subs = <<>> <=> Len(t.subs) = 0)
  BY <1>1, EmptySeq
<1> QED
  BY <1>1, <1>2, <1>3

\* The bytes of a colour that may be missing.
LEMMA ColourBytes ==
    ASSUME NEW c, c # Rfb!None => c \in Rfb!Pixel
    PROVE  /\ Rfb!PixelBytes(c) \in Seq(Int) /\ Len(Rfb!PixelBytes(c)) = ColourLength(c)
           /\ c # Rfb!None => LittlePixel(Rfb!PixelBytes(c)[1], Rfb!PixelBytes(c)[2]) = c
<1>1. CASE c = Rfb!None
  BY <1>1 DEF Rfb!PixelBytes, ColourLength
<1>2. CASE c # Rfb!None
  BY <1>2, PixelTwoBytes DEF ColourLength
<1> QED
  BY <1>1, <1>2

\* Pieces of one length, one behind the other.
LEMMA EqualPieces ==
    ASSUME NEW n \in Nat, NEW l \in Nat, NEW p \in [1..n -> Seq(Int)],
           \A i \in 1..n : Len(p[i]) = l
    PROVE  LET flat == Rfb!FlattenSeq(p)
           IN  /\ flat \in Seq(Int) /\ Len(flat) = l * n
               /\ \A i \in 1..n, j \in 1..l : flat[l * (i - 1) + j] = p[i][j]
<1> DEFINE flat == Rfb!FlattenSeq(p)
<1>1. p \in Seq(Seq(Int)) /\ Len(p) = n
  BY LenProperties
<1>2. flat \in Seq(Int) /\ AreCuts(Cuts(p), p)
  BY <1>1, Joined
<1>3. \A i \in 1..(Len(p) + 1) : Cuts(p)[i] = l * (i - 1)
  BY <1>1, EqualCuts
<1>4. Len(flat) = l * n
  <2>1. Len(p) + 1 \in 1..(Len(p) + 1) /\ (Len(p) + 1) - 1 = n
    BY <1>1
  <2> QED
    BY <1>2, <1>3, <2>1 DEF AreCuts
<1>5. ASSUME NEW i \in 1..n, NEW j \in 1..l
      PROVE  flat[l * (i - 1) + j] = p[i][j]
  <2>1. i \in 1..Len(p) /\ i \in 1..(Len(p) + 1) /\ Len(p[i]) = l
    BY <1>1
  <2>2. flat[Cuts(p)[i] + j] = p[i][j]
    BY <1>2, <2>1 DEF AreCuts
  <2> QED
    BY <1>3, <2>1, <2>2
<1> QED
  BY <1>2, <1>4, <1>5

\* The subrectangles of a tile, one behind the other.
LEMMA SubrectsShape ==
    ASSUME NEW t \in Rfb!Tiles, t.coloured => \A n \in 1..Len(t.subs) : t.subs[n].c # Rfb!None
    PROVE  LET flat == Rfb!FlattenSeq(SubrectPieces(t))
               l == SubrectLength(t)
           IN  /\ flat \in Seq(Int) /\ Len(flat) = l * Len(t.subs)
               /\ \A n \in 1..Len(t.subs), j \in 1..l :
                    flat[l * (n - 1) + j] = Rfb!SubrectEncoding(t, t.subs[n])[j]
<1> DEFINE p == SubrectPieces(t)
           l == SubrectLength(t)
<1>1. Len(t.subs) \in Nat /\ DOMAIN t.subs = 1..Len(t.subs)
      /\ \A n \in 1..Len(t.subs) : t.subs[n] \in Rfb!Subrects
  BY TileTypes
<1>2. \A n \in 1..Len(t.subs) :
        Rfb!SubrectEncoding(t, t.subs[n]) \in Seq(Int)
        /\ Len(Rfb!SubrectEncoding(t, t.subs[n])) = l
  BY <1>1, SubrectShape
<1>3. p = [n \in 1..Len(t.subs) |-> Rfb!SubrectEncoding(t, t.subs[n])]
  BY <1>1 DEF SubrectPieces
<1>4. l \in Nat
  BY DEF SubrectLength
<1> HIDE DEF p, l
<1>5. p \in [1..Len(t.subs) -> Seq(Int)] /\ \A n \in 1..Len(t.subs) : Len(p[n]) = l
  BY <1>2, <1>3
<1>6. /\ Rfb!FlattenSeq(p) \in Seq(Int) /\ Len(Rfb!FlattenSeq(p)) = l * Len(t.subs)
      /\ \A n \in 1..Len(t.subs), j \in 1..l : Rfb!FlattenSeq(p)[l * (n - 1) + j] = p[n][j]
  BY <1>1, <1>4, <1>5, EqualPieces
<1> QED
  BY <1>3, <1>6 DEF p, l

\* Pixels, one behind the other.
LEMMA RawShape ==
    ASSUME NEW px \in Seq(Rfb!Pixel)
    PROVE  LET flat == Rfb!FlattenSeq(PixelPieces(px))
           IN  /\ flat \in Seq(Int) /\ Len(flat) = 2 * Len(px)
               /\ \A n \in 1..Len(px) : LittlePixel(flat[2 * n - 1], flat[2 * n]) = px[n]
<1> DEFINE p == PixelPieces(px)
           flat == Rfb!FlattenSeq(p)
<1>1. Len(px) \in Nat /\ DOMAIN px = 1..Len(px)
      /\ \A n \in 1..Len(px) : px[n] \in Rfb!Pixel
  BY LenProperties
<1>2. \A n \in 1..Len(px) :
        /\ Rfb!PixelBytes(px[n]) \in Seq(Int) /\ Len(Rfb!PixelBytes(px[n])) = 2
        /\ LittlePixel(Rfb!PixelBytes(px[n])[1], Rfb!PixelBytes(px[n])[2]) = px[n]
  BY <1>1, PixelTwoBytes
<1>3. p = [n \in 1..Len(px) |-> Rfb!PixelBytes(px[n])]
  BY <1>1 DEF PixelPieces
<1> HIDE DEF p
<1>4. p \in [1..Len(px) -> Seq(Int)] /\ \A n \in 1..Len(px) : Len(p[n]) = 2
  BY <1>2, <1>3
<1>5. /\ flat \in Seq(Int) /\ Len(flat) = 2 * Len(px)
      /\ \A n \in 1..Len(px), j \in 1..2 : flat[2 * (n - 1) + j] = p[n][j]
  <2> DEFINE l == 2  m == Len(px)
  <2>1. l \in Nat /\ m \in Nat /\ p \in [1..m -> Seq(Int)] /\ \A n \in 1..m : Len(p[n]) = l
    BY <1>1, <1>4
  <2> HIDE DEF l, m
  <2>2. /\ flat \in Seq(Int) /\ Len(flat) = l * m
        /\ \A n \in 1..m, j \in 1..l : flat[l * (n - 1) + j] = p[n][j]
    BY <2>1, EqualPieces
  <2> QED
    BY <2>2 DEF l, m
<1> HIDE DEF flat
<1>6. ASSUME NEW n \in 1..Len(px)
      PROVE  LittlePixel(flat[2 * n - 1], flat[2 * n]) = px[n]
  <2>1. flat[2 * (n - 1) + 1] = p[n][1] /\ flat[2 * (n - 1) + 2] = p[n][2]
    BY <1>5
  <2>2. 2 * (n - 1) + 1 = 2 * n - 1 /\ 2 * (n - 1) + 2 = 2 * n
    BY <1>1
  <2> QED
    BY <1>2, <1>3, <2>1, <2>2
<1> QED
  BY <1>5, <1>6 DEF p, flat

\* The subencoding byte says what the tile consists of.
LEMMA SubencodingBits ==
    ASSUME NEW t \in Rfb!Tiles
    PROVE  LET b == Rfb!Subencoding(t)
           IN  /\ b \in Int
               /\ Raw(b) <=> t.raw # <<>>
               /\ BackgroundSpecified(b) <=> t.bg # Rfb!None
               /\ ForegroundSpecified(b) <=> t.fg # Rfb!None
               /\ AnySubrects(b) <=> t.subs # <<>>
               /\ SubrectsColoured(b) <=> t.coloured
<1> DEFINE r == IF t.raw # <<>> THEN 1 ELSE 0
           g == IF t.bg # Rfb!None THEN 1 ELSE 0
           f == IF t.fg # Rfb!None THEN 1 ELSE 0
           s == IF t.subs # <<>> THEN 1 ELSE 0
           c == IF t.coloured THEN 1 ELSE 0
           b == r + 2 * g + 4 * f + 8 * s + 16 * c
<1>1. /\ r \in {0, 1} /\ g \in {0, 1} /\ f \in {0, 1} /\ s \in {0, 1} /\ c \in {0, 1}
      /\ r = 1 <=> t.raw # <<>>
      /\ g = 1 <=> t.bg # Rfb!None
      /\ f = 1 <=> t.fg # Rfb!None
      /\ s = 1 <=> t.subs # <<>>
      /\ c = 1 <=> t.coloured
  OBVIOUS
<1>2. Rfb!Subencoding(t) = b
  <2>1. 2 * g = IF t.bg # Rfb!None THEN 2 ELSE 0
    OBVIOUS
  <2>2. 4 * f = IF t.fg # Rfb!None THEN 4 ELSE 0
    OBVIOUS
  <2>3. 8 * s = IF t.subs # <<>> THEN 8 ELSE 0
    OBVIOUS
  <2>4. 16 * c = IF t.coloured THEN 16 ELSE 0
    OBVIOUS
  <2> QED
    BY <2>1, <2>2, <2>3, <2>4, Zenon DEF Rfb!Subencoding
<1> HIDE DEF r, g, f, s, c
<1>3. /\ b \in Int
      /\ Raw(b) <=> r = 1
      /\ BackgroundSpecified(b) <=> g = 1
      /\ ForegroundSpecified(b) <=> f = 1
      /\ AnySubrects(b) <=> s = 1
      /\ SubrectsColoured(b) <=> c = 1
  <2>1. b \in Int /\ b \div 1 = b /\ b % 2 = r
    BY <1>1
  <2>2. b \div 2 = g + 2 * f + 4 * s + 8 * c /\ (g + 2 * f + 4 * s + 8 * c) % 2 = g
    BY <1>1
  <2>3. b \div 4 = f + 2 * s + 4 * c /\ (f + 2 * s + 4 * c) % 2 = f
    BY <1>1
  <2>4. b \div 8 = s + 2 * c /\ (s + 2 * c) % 2 = s
    BY <1>1
  <2>5. b \div 16 = c /\ c % 2 = c
    BY <1>1
  <2> HIDE DEF b
  <2> QED
    BY <2>1, <2>2, <2>3, <2>4, <2>5
       DEF Raw, BackgroundSpecified, ForegroundSpecified, AnySubrects, SubrectsColoured, Bit
<1> QED
  BY <1>1, <1>2, <1>3

\* The bytes of a raw tile.
LEMMA RawTileShape ==
    ASSUME NEW t \in Rfb!Tiles, t.raw # <<>>
    PROVE  LET e == Rfb!TileEncoding(t)
           IN  /\ e \in Seq(Int) /\ Len(e) = 1 + 2 * Len(t.raw)
               /\ e[1] = 1
               /\ \A n \in 1..Len(t.raw) : LittlePixel(e[2 * n], e[2 * n + 1]) = t.raw[n]
<1> DEFINE e == Rfb!TileEncoding(t)
           flat == Rfb!FlattenSeq(PixelPieces(t.raw))
           one == <<1>>
<1>1. /\ flat \in Seq(Int) /\ Len(flat) = 2 * Len(t.raw)
      /\ \A n \in 1..Len(t.raw) : LittlePixel(flat[2 * n - 1], flat[2 * n]) = t.raw[n]
  <2>1. t.raw \in Seq(Rfb!Pixel)
    BY DEF Rfb!Tiles
  <2> QED
    BY <2>1, RawShape
<1>2. e = one \o flat
  BY DEF Rfb!TileEncoding, PixelPieces
<1>3. one \in Seq(Int) /\ Len(one) = 1 /\ one[1] = 1
  OBVIOUS
<1>4. Len(t.raw) \in Nat
  BY TileTypes
<1> HIDE DEF e, flat, one
<1>5. flat \in Seq(Int) /\ one \in Seq(Int) /\ e = one \o flat
  BY <1>1, <1>2, <1>3
<1>6. /\ e \in Seq(Int) /\ Len(e) = Len(one) + Len(flat)
      /\ \A i \in 1..Len(one) : e[i] = one[i]
      /\ \A j \in 1..Len(flat) : e[Len(one) + j] = flat[j]
  BY <1>5, ConcatAt, SMT
<1>7. ASSUME NEW n \in 1..Len(t.raw)
      PROVE  LittlePixel(e[2 * n], e[2 * n + 1]) = t.raw[n]
  <2>1. 2 * n - 1 \in 1..Len(flat) /\ 2 * n \in 1..Len(flat) /\ 1 + (2 * n - 1) = 2 * n
        /\ 1 + 2 * n = 2 * n + 1
    BY <1>1, <1>4
  <2>2. e[2 * n] = flat[2 * n - 1] /\ e[2 * n + 1] = flat[2 * n]
    BY <1>3, <1>6, <2>1
  <2> QED
    BY <1>1, <2>2
<1>8. e[1] = 1 /\ Len(e) = 1 + 2 * Len(t.raw)
  BY <1>1, <1>3, <1>6
<1> QED
  BY <1>6, <1>7, <1>8 DEF e

\* The bytes of another tile: the subencoding byte, the colours it gives, the
\* number of subrectangles and the subrectangles.
LEMMA HexTileShape ==
    ASSUME NEW t \in Rfb!Tiles, t.raw = <<>>,
           t.coloured => \A n \in 1..Len(t.subs) : t.subs[n].c # Rfb!None
    PROVE  LET e == Rfb!TileEncoding(t)
               f == 1 + ColourLength(t.bg)
               h == HeaderLength(t)
               l == SubrectLength(t)
           IN  /\ e \in Seq(Int) /\ Len(e) = h + l * Len(t.subs)
               /\ e[1] = Rfb!Subencoding(t)
               /\ t.bg # Rfb!None => LittlePixel(e[2], e[3]) = t.bg
               /\ t.fg # Rfb!None => LittlePixel(e[f + 1], e[f + 2]) = t.fg
               /\ t.subs # <<>> => e[h] = Len(t.subs)
               /\ \A n \in 1..Len(t.subs), j \in 1..l :
                    e[h + l * (n - 1) + j] = Rfb!SubrectEncoding(t, t.subs[n])[j]
<1> DEFINE e == Rfb!TileEncoding(t)
           flat == Rfb!FlattenSeq(SubrectPieces(t))
           sub == Rfb!Subencoding(t)
           one == <<sub>>
           bg == Rfb!PixelBytes(t.bg)
           fg == Rfb!PixelBytes(t.fg)
           n0 == IF t.subs = <<>> THEN <<>> ELSE <<Len(t.subs)>>
           e2 == one \o bg
           e3 == e2 \o fg
           e4 == e3 \o n0
           cn == IF t.subs = <<>> THEN 0 ELSE 1
           cb == ColourLength(t.bg)
           cf == ColourLength(t.fg)
           l == SubrectLength(t)
<1>1. e = e4 \o flat
  BY DEF Rfb!TileEncoding, SubrectPieces
<1>2. /\ flat \in Seq(Int) /\ Len(flat) = l * Len(t.subs)
      /\ \A n \in 1..Len(t.subs), j \in 1..l :
           flat[l * (n - 1) + j] = Rfb!SubrectEncoding(t, t.subs[n])[j]
  BY SubrectsShape
<1>3. one \in Seq(Int) /\ Len(one) = 1 /\ one[1] = sub
  BY SubencodingBits
<1>4. /\ bg \in Seq(Int) /\ Len(bg) = cb
      /\ t.bg # Rfb!None => cb = 2 /\ LittlePixel(bg[1], bg[2]) = t.bg
  BY TileTypes, ColourBytes DEF ColourLength
<1>5. /\ fg \in Seq(Int) /\ Len(fg) = cf
      /\ t.fg # Rfb!None => cf = 2 /\ LittlePixel(fg[1], fg[2]) = t.fg
  BY TileTypes, ColourBytes DEF ColourLength
<1>6. n0 \in Seq(Int) /\ Len(n0) = cn /\ (t.subs # <<>> => n0[1] = Len(t.subs))
  BY TileTypes
<1>7. HeaderLength(t) = 1 + cb + cf + cn /\ cb \in {0, 2} /\ cf \in {0, 2} /\ cn \in {0, 1}
      /\ (t.subs # <<>> <=> cn = 1) /\ l \in {2, 4} /\ Len(t.subs) \in Nat
  BY TileTypes DEF HeaderLength, ColourLength, SubrectLength
<1> HIDE DEF e, flat, sub, one, bg, fg, n0, cn, cb, cf, l
<1>8. /\ e2 \in Seq(Int) /\ Len(e2) = 1 + cb /\ e2[1] = sub
      /\ t.bg # Rfb!None => LittlePixel(e2[2], e2[3]) = t.bg
  <2>1. one \in Seq(Int) /\ bg \in Seq(Int)
    BY <1>3, <1>4
  <2>2. /\ e2 \in Seq(Int) /\ Len(e2) = Len(one) + Len(bg)
        /\ \A i \in 1..Len(one) : e2[i] = one[i]
        /\ \A j \in 1..Len(bg) : e2[Len(one) + j] = bg[j]
    BY <2>1, ConcatAt, SMT
  <2> HIDE DEF e2
  <2>3. e2[1] = sub /\ Len(e2) = 1 + cb
    BY <1>3, <1>4, <2>2
  <2>4. ASSUME t.bg # Rfb!None PROVE LittlePixel(e2[2], e2[3]) = t.bg
    <3>1. cb = 2 /\ 1 \in 1..Len(bg) /\ 2 \in 1..Len(bg) /\ Len(one) = 1
      BY <1>3, <1>4, <2>4
    <3>2. e2[1 + 1] = bg[1] /\ e2[1 + 2] = bg[2]
      BY <2>2, <3>1
    <3> QED
      BY <1>4, <2>4, <3>2
  <2> QED
    BY <2>2, <2>3, <2>4
<1> HIDE DEF e2
<1>9. /\ e3 \in Seq(Int) /\ Len(e3) = 1 + cb + cf
      /\ \A i \in 1 .. 1 + cb : e3[i] = e2[i]
      /\ t.fg # Rfb!None => LittlePixel(e3[1 + cb + 1], e3[1 + cb + 2]) = t.fg
  <2>1. e2 \in Seq(Int) /\ fg \in Seq(Int)
    BY <1>5, <1>8
  <2>2. /\ e3 \in Seq(Int) /\ Len(e3) = Len(e2) + Len(fg)
        /\ \A i \in 1..Len(e2) : e3[i] = e2[i]
        /\ \A j \in 1..Len(fg) : e3[Len(e2) + j] = fg[j]
    BY <2>1, ConcatAt, SMT
  <2> HIDE DEF e3
  <2>3. Len(e3) = 1 + cb + cf /\ \A i \in 1 .. 1 + cb : e3[i] = e2[i]
    BY <1>5, <1>7, <1>8, <2>2
  <2>4. ASSUME t.fg # Rfb!None PROVE LittlePixel(e3[1 + cb + 1], e3[1 + cb + 2]) = t.fg
    <3>1. cf = 2 /\ 1 \in 1..Len(fg) /\ 2 \in 1..Len(fg)
      BY <1>5, <2>4
    <3>2. e3[Len(e2) + 1] = fg[1] /\ e3[Len(e2) + 2] = fg[2]
      BY <2>2, <3>1
    <3> QED
      BY <1>5, <1>8, <2>4, <3>2
  <2> QED
    BY <2>2, <2>3, <2>4
<1> HIDE DEF e3
<1>10. /\ e4 \in Seq(Int) /\ Len(e4) = 1 + cb + cf + cn
       /\ \A i \in 1 .. 1 + cb + cf : e4[i] = e3[i]
       /\ t.subs # <<>> => e4[1 + cb + cf + 1] = Len(t.subs)
  <2>1. e3 \in Seq(Int) /\ n0 \in Seq(Int)
    BY <1>6, <1>9
  <2>2. /\ e4 \in Seq(Int) /\ Len(e4) = Len(e3) + Len(n0)
        /\ \A i \in 1..Len(e3) : e4[i] = e3[i]
        /\ \A j \in 1..Len(n0) : e4[Len(e3) + j] = n0[j]
    BY <2>1, ConcatAt, SMT
  <2> HIDE DEF e4
  <2>3. Len(e4) = 1 + cb + cf + cn /\ \A i \in 1 .. 1 + cb + cf : e4[i] = e3[i]
    BY <1>6, <1>7, <1>9, <2>2
  <2>4. ASSUME t.subs # <<>> PROVE e4[1 + cb + cf + 1] = Len(t.subs)
    <3>1. 1 \in 1..Len(n0)
      BY <1>6, <1>7, <2>4
    <3>2. e4[Len(e3) + 1] = n0[1]
      BY <2>2, <3>1
    <3> QED
      BY <1>6, <1>9, <2>4, <3>2
  <2> QED
    BY <2>2, <2>3, <2>4
<1> HIDE DEF e4
<1> DEFINE h == 1 + cb + cf + cn
<1>11. /\ e \in Seq(Int) /\ Len(e) = h + l * Len(t.subs)
       /\ \A i \in 1..h : e[i] = e4[i]
       /\ \A j \in 1..Len(flat) : e[h + j] = flat[j]
  <2>1. e4 \in Seq(Int) /\ flat \in Seq(Int) /\ e = e4 \o flat
    BY <1>1, <1>2, <1>10
  <2>2. /\ e \in Seq(Int) /\ Len(e) = Len(e4) + Len(flat)
        /\ \A i \in 1..Len(e4) : e[i] = e4[i]
        /\ \A j \in 1..Len(flat) : e[Len(e4) + j] = flat[j]
    BY <2>1, ConcatAt, SMT
  <2> QED
    BY <1>2, <1>10, <2>2
<1>12. e[1] = sub
  <2>1. 1 \in 1..h /\ 1 \in 1 .. 1 + cb + cf /\ 1 \in 1 .. 1 + cb
    BY <1>7
  <2> QED
    BY <1>8, <1>9, <1>10, <1>11, <2>1
<1>13. ASSUME t.bg # Rfb!None PROVE LittlePixel(e[2], e[3]) = t.bg
  <2>1. cb = 2
    BY <1>4, <1>13
  <2>2. /\ 2 \in 1..h /\ 2 \in 1 .. 1 + cb + cf /\ 2 \in 1 .. 1 + cb
        /\ 3 \in 1..h /\ 3 \in 1 .. 1 + cb + cf /\ 3 \in 1 .. 1 + cb
    BY <1>7, <2>1
  <2>3. e[2] = e2[2] /\ e[3] = e2[3]
    BY <1>9, <1>10, <1>11, <2>2
  <2> QED
    BY <1>8, <1>13, <2>3
<1>14. ASSUME t.fg # Rfb!None PROVE LittlePixel(e[1 + cb + 1], e[1 + cb + 2]) = t.fg
  <2>1. cf = 2
    BY <1>5, <1>14
  <2>2. /\ 1 + cb + 1 \in 1..h /\ 1 + cb + 1 \in 1 .. 1 + cb + cf
        /\ 1 + cb + 2 \in 1..h /\ 1 + cb + 2 \in 1 .. 1 + cb + cf
    BY <1>7, <2>1
  <2>3. e[1 + cb + 1] = e3[1 + cb + 1] /\ e[1 + cb + 2] = e3[1 + cb + 2]
    BY <1>10, <1>11, <2>2
  <2> QED
    BY <1>9, <1>14, <2>3
<1>15. ASSUME t.subs # <<>> PROVE e[h] = Len(t.subs)
  <2>1. h = 1 + cb + cf + 1 /\ h \in 1..h
    BY <1>7, <1>15
  <2>2. e[h] = e4[h] /\ e4[1 + cb + cf + 1] = Len(t.subs)
    BY <1>10, <1>11, <1>15, <2>1
  <2> QED
    BY <2>1, <2>2
<1>16. ASSUME NEW n \in 1..Len(t.subs), NEW j \in 1..l
       PROVE  e[h + l * (n - 1) + j] = Rfb!SubrectEncoding(t, t.subs[n])[j]
  <2> DEFINE k == l * (n - 1) + j
  <2>1. k \in 1..Len(flat) /\ h + k = h + l * (n - 1) + j
    <3>1. k \in Int /\ k >= 1 /\ k <= l * Len(t.subs)
      <4>1. CASE l = 2
        BY <1>7, <4>1
      <4>2. CASE l = 4
        BY <1>7, <4>2
      <4> QED
        BY <1>7, <4>1, <4>2
    <3>2. h \in Int /\ l * (n - 1) \in Int
      BY <1>7
    <3> QED
      BY <1>2, <3>1, <3>2
  <2> HIDE DEF h
  <2>2. e[h + k] = flat[k]
    BY <1>11, <2>1 DEF h
  <2> QED
    BY <1>2, <2>1, <2>2
<1> QED
  BY <1>7, <1>11, <1>12, <1>13, <1>14, <1>15, <1>16 DEF e, sub, cb, l

\* The pieces of a rectangle.
TilePieces(r) == [n \in DOMAIN r.tiles |-> Rfb!TileEncoding(r.tiles[n])]

\* The parts of a rectangle and their types.
LEMMA RectTypes ==
    ASSUME NEW r \in Rfb!Rectangles
    PROVE  /\ r.x \in Nat /\ r.y \in Nat /\ r.w \in Nat /\ r.h \in Nat /\ r.enc \in Nat
           /\ r.pixels \in Seq(Rfb!Pixel) /\ r.source[1] \in Nat /\ r.source[2] \in Nat
           /\ r.tiles \in Seq(Rfb!Tiles) /\ Len(r.tiles) \in Nat
           /\ DOMAIN r.tiles = 1..Len(r.tiles)
           /\ \A n \in 1..Len(r.tiles) : r.tiles[n] \in Rfb!Tiles
<1>1. /\ r.x \in Nat /\ r.y \in Nat /\ r.w \in Nat /\ r.h \in Nat /\ r.enc \in Nat
      /\ r.pixels \in Seq(Rfb!Pixel) /\ r.source[1] \in Nat /\ r.source[2] \in Nat
      /\ r.tiles \in Seq(Rfb!Tiles)
  BY DEF Rfb!Rectangles
<1> QED
  BY <1>1, LenProperties

\* The tiles of a rectangle are sequences of bytes, joined in their order.
LEMMA TilesJoined ==
    ASSUME NEW r \in Rfb!Rectangles, Rfb!WellFormedRectangle(r)
    PROVE  /\ TilePieces(r) \in Seq(Seq(Int)) /\ Len(TilePieces(r)) = Len(r.tiles)
           /\ \A n \in 1..Len(r.tiles) : TilePieces(r)[n] = Rfb!TileEncoding(r.tiles[n])
<1>1. /\ Len(r.tiles) \in Nat /\ DOMAIN r.tiles = 1..Len(r.tiles)
      /\ \A n \in 1..Len(r.tiles) : r.tiles[n] \in Rfb!Tiles
  BY RectTypes
<1>2. ASSUME NEW n \in 1..Len(r.tiles) PROVE Rfb!TileEncoding(r.tiles[n]) \in Seq(Int)
  <2>1. Rfb!WellFormedTile(r.tiles[n]) /\ r.tiles[n] \in Rfb!Tiles
    BY <1>1 DEF Rfb!WellFormedRectangle
  <2> QED
    BY <2>1, RawTileShape, HexTileShape DEF Rfb!WellFormedTile
<1> DEFINE p == TilePieces(r)
<1>3. p = [n \in 1..Len(r.tiles) |-> Rfb!TileEncoding(r.tiles[n])]
  BY <1>1 DEF TilePieces
<1> HIDE DEF p
<1>4. p \in [1..Len(r.tiles) -> Seq(Int)]
  BY <1>2, <1>3
<1>5. p \in Seq(Seq(Int)) /\ Len(p) = Len(r.tiles)
  BY <1>1, <1>4, LenProperties
<1> QED
  BY <1>3, <1>5 DEF p

\* A sequence of n bytes.
Bytes(w, n) == w \in Seq(Int) /\ Len(w) = n

\* st is s, of n0 bytes, with the word t behind it.
Longer(st, s, t, n0, n1, n2) ==
    /\ Bytes(st, n2) /\ \A i \in 1..n0 : st[i] = s[i]
    /\ st[n1] = t[1] /\ st[n2] = t[2]

\* A word behind other bytes.
LEMMA AddWord ==
    ASSUME NEW s, NEW t, NEW n0 \in Nat, Bytes(s, n0), Bytes(t, 2)
    PROVE  Longer(s \o t, s, t, n0, n0 + 1, n0 + 2)
<1> DEFINE st == s \o t
<1>0. s \in Seq(Int) /\ t \in Seq(Int) /\ Len(s) = n0 /\ Len(t) = 2
  BY DEF Bytes
<1>9. s \in Seq(Int) /\ t \in Seq(Int) /\ st = s \o t
  BY <1>0
<1> HIDE DEF st
<1>1. /\ st \in Seq(Int) /\ Len(st) = Len(s) + Len(t)
      /\ \A i \in 1..Len(s) : st[i] = s[i]
      /\ \A j \in 1..Len(t) : st[Len(s) + j] = t[j]
  BY ONLY <1>9, ConcatAt
<1>2. 1 \in 1..Len(t) /\ 2 \in 1..Len(t)
  BY <1>0
<1>3. Longer(st, s, t, n0, n0 + 1, n0 + 2)
  BY <1>0, <1>1, <1>2 DEF Bytes, Longer
<1> QED
  BY <1>3 DEF st

\* st is six words of two bytes each.
Words(st, s1, s2, s3, s4, s5, s6) ==
    /\ Bytes(st, 12)
    /\ st[1] = s1[1] /\ st[2] = s1[2] /\ st[3] = s2[1] /\ st[4] = s2[2]
    /\ st[5] = s3[1] /\ st[6] = s3[2] /\ st[7] = s4[1] /\ st[8] = s4[2]
    /\ st[9] = s5[1] /\ st[10] = s5[2] /\ st[11] = s6[1] /\ st[12] = s6[2]

\* Six words in front of some bytes.
LEMMA SixWords ==
    ASSUME NEW s1, NEW s2, NEW s3, NEW s4, NEW s5, NEW s6,
           Bytes(s1, 2), Bytes(s2, 2), Bytes(s3, 2), Bytes(s4, 2), Bytes(s5, 2), Bytes(s6, 2)
    PROVE  Words(s1 \o s2 \o s3 \o s4 \o s5 \o s6, s1, s2, s3, s4, s5, s6)
<1> DEFINE w2 == s1 \o s2  w3 == w2 \o s3  w4 == w3 \o s4  w5 == w4 \o s5  w6 == w5 \o s6
<1>2. Longer(w2, s1, s2, 2, 3, 4)
  <2>1. 2 \in Nat /\ 2 + 1 = 3 /\ 2 + 2 = 4
    OBVIOUS
  <2> QED
    BY <2>1, AddWord, Zenon
<1> HIDE DEF w2
<1>3. Longer(w3, w2, s3, 4, 5, 6)
  <2>1. 4 \in Nat /\ 4 + 1 = 5 /\ 4 + 2 = 6
    OBVIOUS
  <2>2. Bytes(w2, 4)
    BY <1>2 DEF Longer
  <2> QED
    BY <2>1, <2>2, AddWord, Zenon
<1> HIDE DEF w3
<1>4. Longer(w4, w3, s4, 6, 7, 8)
  <2>1. 6 \in Nat /\ 6 + 1 = 7 /\ 6 + 2 = 8
    OBVIOUS
  <2>2. Bytes(w3, 6)
    BY <1>3 DEF Longer
  <2> QED
    BY <2>1, <2>2, AddWord, Zenon
<1> HIDE DEF w4
<1>5. Longer(w5, w4, s5, 8, 9, 10)
  <2>1. 8 \in Nat /\ 8 + 1 = 9 /\ 8 + 2 = 10
    OBVIOUS
  <2>2. Bytes(w4, 8)
    BY <1>4 DEF Longer
  <2> QED
    BY <2>1, <2>2, AddWord, Zenon
<1> HIDE DEF w5
<1>6. Longer(w6, w5, s6, 10, 11, 12)
  <2>1. 10 \in Nat /\ 10 + 1 = 11 /\ 10 + 2 = 12
    OBVIOUS
  <2>2. Bytes(w5, 10)
    BY <1>5 DEF Longer
  <2> QED
    BY <2>1, <2>2, AddWord, Zenon
<1> HIDE DEF w6
<1>7. \A i \in 1..2 : w6[i] = s1[i]
  BY ONLY <1>2, <1>3, <1>4, <1>5, <1>6 DEF Longer
<1>8. w6[3] = s2[1] /\ w6[4] = s2[2] /\ w6[5] = s3[1] /\ w6[6] = s3[2]
  BY ONLY <1>2, <1>3, <1>4, <1>5, <1>6 DEF Longer
<1>9. w6[7] = s4[1] /\ w6[8] = s4[2] /\ w6[9] = s5[1] /\ w6[10] = s5[2]
  BY ONLY <1>4, <1>5, <1>6 DEF Longer
<1>10. w6[1] = s1[1] /\ w6[2] = s1[2]
  BY ONLY <1>7
<1>11. Bytes(w6, 12) /\ w6[11] = s6[1] /\ w6[12] = s6[2]
  BY ONLY <1>6 DEF Longer
<1> QED
  BY <1>8, <1>9, <1>10, <1>11, Zenon DEF w2, w3, w4, w5, w6, Words

\* The bytes of a rectangle.
LEMMA RectShape ==
    ASSUME NEW r \in Rfb!Rectangles, Rfb!WellFormedRectangle(r), r.enc \in {0, 1, 5}
    PROVE  LET e == Rfb!RectEncoding(r)
               flat == Rfb!FlattenSeq(TilePieces(r))
           IN  /\ e \in Seq(Int)
               /\ U16(e[1], e[2]) = r.x /\ U16(e[3], e[4]) = r.y
               /\ U16(e[5], e[6]) = r.w /\ U16(e[7], e[8]) = r.h
               /\ e[9] = 0 /\ e[10] = 0 /\ e[11] = 0 /\ e[12] = r.enc
               /\ r.enc = 0 => Len(e) = 12 + 2 * (r.w * r.h)
               /\ r.enc = 1 => Len(e) = 16
               /\ r.enc = 5 => /\ Len(e) = 12 + Len(flat)
                               /\ \A j \in 1..Len(flat) : e[12 + j] = flat[j]
<1> DEFINE e == Rfb!RectEncoding(r)
           flat == Rfb!FlattenSeq(TilePieces(r))
           x == Rfb!Word(r.x)  y == Rfb!Word(r.y)  w == Rfb!Word(r.w)  h == Rfb!Word(r.h)
           hi == Rfb!Word(r.enc \div 65536)  lo == Rfb!Word(r.enc % 65536)
           head == x \o y \o w \o h \o hi \o lo
           raw == Rfb!FlattenSeq(PixelPieces(r.pixels))
           from == Rfb!Word(r.source[1])
           at == Rfb!Word(r.source[2])
           data == CASE r.enc = 0 -> raw
                     [] r.enc = 1 -> from \o at
                     [] r.enc = 5 -> flat
                     [] OTHER -> <<>>
<1>1. e = head \o data
  BY DEF Rfb!RectEncoding, TilePieces, PixelPieces
<1>2. r.x \in Nat /\ r.y \in Nat /\ r.w \in Nat /\ r.h \in Nat
  BY RectTypes
<1>3. /\ x \in Seq(Int) /\ Len(x) = 2 /\ U16(x[1], x[2]) = r.x
      /\ y \in Seq(Int) /\ Len(y) = 2 /\ U16(y[1], y[2]) = r.y
      /\ w \in Seq(Int) /\ Len(w) = 2 /\ U16(w[1], w[2]) = r.w
      /\ h \in Seq(Int) /\ Len(h) = 2 /\ U16(h[1], h[2]) = r.h
  BY <1>2, WordBytes
<1>4. /\ hi \in Seq(Int) /\ Len(hi) = 2 /\ hi[1] = 0 /\ hi[2] = 0
      /\ lo \in Seq(Int) /\ Len(lo) = 2 /\ lo[1] = 0 /\ lo[2] = r.enc
  <2>1. r.enc \div 65536 = 0 /\ r.enc % 65536 = r.enc /\ r.enc \div 256 = 0 /\ r.enc % 256 = r.enc
    OBVIOUS
  <2>2. hi = <<0, 0>> /\ lo = <<0, r.enc>>
    <3>1. 0 \div 256 = 0 /\ 0 % 256 = 0
      OBVIOUS
    <3> QED
      BY <2>1, <3>1 DEF Rfb!Word
  <2>3. r.enc \in Int
    OBVIOUS
  <2> HIDE DEF hi, lo
  <2> QED
    BY ONLY <2>2, <2>3
<1>5. /\ data \in Seq(Int)
      /\ r.enc = 0 => Len(data) = 2 * (r.w * r.h)
      /\ r.enc = 1 => Len(data) = 4
      /\ r.enc = 5 => data = flat
  <2>1. CASE r.enc = 0
    <3>1. raw \in Seq(Int) /\ Len(raw) = 2 * Len(r.pixels)
      BY RectTypes, RawShape
    <3>2. Len(r.pixels) = r.w * r.h /\ data = raw
      BY <2>1 DEF Rfb!WellFormedRectangle
    <3>3. r.enc # 1 /\ r.enc # 5
      BY <2>1
    <3> HIDE DEF data, raw
    <3> QED
      BY <3>1, <3>2, <3>3, Zenon
  <2>2. CASE r.enc = 1
    <3>1. from \in Seq(Int) /\ Len(from) = 2 /\ at \in Seq(Int) /\ Len(at) = 2
      BY RectTypes, WordBytes
    <3>2. data = from \o at
      BY <2>2
    <3>3. r.enc # 0 /\ r.enc # 5
      BY <2>2
    <3> HIDE DEF data, from, at
    <3>4. data \in Seq(Int) /\ Len(data) = 4
      <4>1. data \in Seq(Int) /\ Len(data) = Len(from) + Len(at)
        BY ONLY <3>1, <3>2, ConcatProperties, Zenon
      <4> QED
        BY ONLY <3>1, <4>1
    <3> QED
      BY <3>3, <3>4, Zenon
  <2>3. CASE r.enc = 5
    <3>1. data = flat
      BY <2>3
    <3>2. flat \in Seq(Int)
      BY TilesJoined, Joined
    <3> QED
      BY <2>3, <3>1, <3>2
  <2> QED
    BY <2>1, <2>2, <2>3
<1> HIDE DEF e, flat, x, y, w, h, hi, lo, data
<1>6. /\ Bytes(head, 12)
      /\ head[1] = x[1] /\ head[2] = x[2] /\ head[3] = y[1] /\ head[4] = y[2]
      /\ head[5] = w[1] /\ head[6] = w[2] /\ head[7] = h[1] /\ head[8] = h[2]
      /\ head[9] = hi[1] /\ head[10] = hi[2] /\ head[11] = lo[1] /\ head[12] = lo[2]
  <2>1. /\ Bytes(x, 2) /\ Bytes(y, 2) /\ Bytes(w, 2) /\ Bytes(h, 2)
        /\ Bytes(hi, 2) /\ Bytes(lo, 2)
    BY <1>3, <1>4 DEF Bytes
  <2>2. head = x \o y \o w \o h \o hi \o lo
    OBVIOUS
  <2>3. Words(head, x, y, w, h, hi, lo)
    BY <2>1, <2>2, SixWords, Zenon
  <2> HIDE DEF head
  <2> QED
    BY ONLY <2>3 DEF Words
<1>10. head \in Seq(Int) /\ Len(head) = 12
  BY <1>6 DEF Bytes
<1> HIDE DEF head
<1>7. /\ e \in Seq(Int) /\ Len(e) = 12 + Len(data)
      /\ \A i \in 1..12 : e[i] = head[i]
      /\ \A j \in 1..Len(data) : e[12 + j] = data[j]
  <2>1. head \in Seq(Int) /\ data \in Seq(Int) /\ e = head \o data
    BY <1>1, <1>5, <1>10
  <2>2. /\ e \in Seq(Int) /\ Len(e) = Len(head) + Len(data)
        /\ \A i \in 1..Len(head) : e[i] = head[i]
        /\ \A j \in 1..Len(data) : e[Len(head) + j] = data[j]
    BY ONLY <2>1, ConcatAt
  <2>3. Len(head) = 12
    BY <1>10
  <2> QED
    BY ONLY <2>2, <2>3
<1>8. /\ U16(e[1], e[2]) = r.x /\ U16(e[3], e[4]) = r.y
      /\ U16(e[5], e[6]) = r.w /\ U16(e[7], e[8]) = r.h
      /\ e[9] = 0 /\ e[10] = 0 /\ e[11] = 0 /\ e[12] = r.enc
  <2>1. /\ e[1] = x[1] /\ e[2] = x[2] /\ e[3] = y[1] /\ e[4] = y[2]
        /\ e[5] = w[1] /\ e[6] = w[2] /\ e[7] = h[1] /\ e[8] = h[2]
        /\ e[9] = hi[1] /\ e[10] = hi[2] /\ e[11] = lo[1] /\ e[12] = lo[2]
    <3>1. /\ e[1] = head[1] /\ e[2] = head[2] /\ e[3] = head[3] /\ e[4] = head[4]
          /\ e[5] = head[5] /\ e[6] = head[6] /\ e[7] = head[7] /\ e[8] = head[8]
          /\ e[9] = head[9] /\ e[10] = head[10] /\ e[11] = head[11] /\ e[12] = head[12]
      BY ONLY <1>7
    <3> QED
      BY <1>6, <3>1, Zenon
  <2> QED
    BY <1>3, <1>4, <2>1, Zenon
<1>9. /\ r.enc = 0 => Len(e) = 12 + 2 * (r.w * r.h)
      /\ r.enc = 1 => Len(e) = 16
      /\ r.enc = 5 => /\ Len(e) = 12 + Len(flat)
                      /\ \A j \in 1..Len(flat) : e[12 + j] = flat[j]
  <2>1. r.enc = 0 => Len(e) = 12 + 2 * (r.w * r.h)
    BY <1>5, <1>7
  <2>2. ASSUME r.enc = 1 PROVE Len(e) = 16
    <3>1. Len(data) = 4
      BY <1>5, <2>2
    <3>2. Len(e) = 12 + Len(data)
      BY <1>7
    <3>3. Len(e) = 12 + 4
      BY <3>1, <3>2
    <3> QED
      BY <3>3
  <2>3. ASSUME r.enc = 5
        PROVE  Len(e) = 12 + Len(flat) /\ \A j \in 1..Len(flat) : e[12 + j] = flat[j]
    <3>1. data = flat
      BY <1>5, <2>3
    <3> QED
      BY ONLY <1>7, <3>1
  <2> QED
    BY <2>1, <2>2, <2>3
<1> QED
  BY <1>7, <1>8, <1>9 DEF e, flat

\* The pieces of an update.
RectPieces(u) == [i \in DOMAIN u |-> Rfb!RectEncoding(u[i])]

\* The rectangles of an update are sequences of bytes.
LEMMA UpdateTypes ==
    ASSUME NEW u, Rfb!WellFormedUpdate(u), Rfb!LawfulUpdate(u)
    PROVE  /\ Len(u) \in Nat /\ DOMAIN u = 1..Len(u)
           /\ \A i \in 1..Len(u) : /\ u[i] \in Rfb!Rectangles /\ Rfb!WellFormedRectangle(u[i])
                                   /\ u[i].enc \in {0, 1, 5}
                                   /\ Rfb!RectEncoding(u[i]) \in Seq(Int)
           /\ RectPieces(u) \in Seq(Seq(Int)) /\ Len(RectPieces(u)) = Len(u)
           /\ \A i \in 1..Len(u) : RectPieces(u)[i] = Rfb!RectEncoding(u[i])
<1>1. u \in Seq(Rfb!Rectangles) /\ \A i \in 1..Len(u) : Rfb!WellFormedRectangle(u[i])
  BY DEF Rfb!WellFormedUpdate
<1>2. /\ Len(u) \in Nat /\ DOMAIN u = 1..Len(u)
      /\ \A i \in 1..Len(u) : u[i] \in Rfb!Rectangles
  BY <1>1, LenProperties
<1>3. \A i \in 1..Len(u) : u[i].enc \in {0, 1, 5}
  BY <1>2 DEF Rfb!LawfulUpdate
<1>4. \A i \in 1..Len(u) : Rfb!RectEncoding(u[i]) \in Seq(Int)
  BY <1>1, <1>2, <1>3, RectShape
<1> DEFINE p == RectPieces(u)
<1>5. p = [i \in 1..Len(u) |-> Rfb!RectEncoding(u[i])]
  BY <1>2 DEF RectPieces
<1> HIDE DEF p
<1>6. p \in [1..Len(u) -> Seq(Int)]
  BY <1>4, <1>5
<1>7. p \in Seq(Seq(Int)) /\ Len(p) = Len(u)
  BY <1>2, <1>6, LenProperties
<1> QED
  BY <1>1, <1>2, <1>3, <1>4, <1>5, <1>7 DEF p

\* The bytes of an update: four of them in front of its rectangles.
LEMMA UpdateShape ==
    ASSUME NEW u, Rfb!WellFormedUpdate(u), Rfb!LawfulUpdate(u)
    PROVE  LET e == Rfb!UpdateEncoding(u)
               flat == Rfb!FlattenSeq(RectPieces(u))
           IN  /\ e \in Seq(Int) /\ Len(e) = 4 + Len(flat)
               /\ e[1] = 0 /\ U16(e[3], e[4]) = Len(u)
               /\ \A j \in 1..Len(flat) : e[4 + j] = flat[j]
<1> DEFINE e == Rfb!UpdateEncoding(u)
           flat == Rfb!FlattenSeq(RectPieces(u))
           s1 == <<0, 0>>
           s2 == Rfb!Word(Len(u))
           z == s1 \o s2
<1>1. e = z \o flat
  BY DEF Rfb!UpdateEncoding, RectPieces
<1>2. flat \in Seq(Int)
  BY UpdateTypes, Joined
<1>3. s2 \in Seq(Int) /\ Len(s2) = 2 /\ U16(s2[1], s2[2]) = Len(u)
  BY UpdateTypes, WordBytes
<1>4. s1 \in Seq(Int) /\ Len(s1) = 2 /\ s1[1] = 0
  OBVIOUS
<1> HIDE DEF e, flat, s1, s2
<1>5. /\ z \in Seq(Int) /\ Len(z) = 4 /\ z[1] = s1[1]
      /\ z[3] = s2[1] /\ z[4] = s2[2]
  <2>1. Bytes(s1, 2) /\ Bytes(s2, 2)
    BY <1>3, <1>4 DEF Bytes
  <2>2. 2 \in Nat /\ 2 + 1 = 3 /\ 2 + 2 = 4
    OBVIOUS
  <2>3. Longer(z, s1, s2, 2, 3, 4)
    BY <2>1, <2>2, AddWord, Zenon
  <2> HIDE DEF z
  <2> QED
    BY ONLY <2>3 DEF Longer, Bytes
<1> HIDE DEF z
<1>6. /\ e \in Seq(Int) /\ Len(e) = Len(z) + Len(flat)
      /\ \A i \in 1..Len(z) : e[i] = z[i]
      /\ \A j \in 1..Len(flat) : e[Len(z) + j] = flat[j]
  <2>1. z \in Seq(Int) /\ flat \in Seq(Int) /\ e = z \o flat
    BY <1>1, <1>2, <1>5
  <2> QED
    BY ONLY <2>1, ConcatAt
<1>7. Len(e) = 4 + Len(flat) /\ \A j \in 1..Len(flat) : e[4 + j] = flat[j]
  BY <1>5, <1>6
<1>8. e[1] = s1[1] /\ e[3] = s2[1] /\ e[4] = s2[2]
  <2>1. 1 \in 1..Len(z) /\ 3 \in 1..Len(z) /\ 4 \in 1..Len(z)
    BY <1>5
  <2> QED
    BY <1>5, <1>6, <2>1
<1> QED
  BY <1>3, <1>4, <1>6, <1>7, <1>8, Zenon DEF e, flat

\* Where the pieces are.
UpdateLength(u) == Len(Rfb!UpdateEncoding(u))
RectLength(r) == Len(Rfb!RectEncoding(r))
TileLength(t) == Len(Rfb!TileEncoding(t))
RectAt(u, i) == 4 + Cuts(RectPieces(u))[i]
TileAt(r, n) == 12 + Cuts(TilePieces(r))[n]

\* The rectangles of an update lie one behind the other.
LEMMA RectPlaces ==
    ASSUME NEW u, Rfb!WellFormedUpdate(u), Rfb!LawfulUpdate(u)
    PROVE  /\ \A i \in 1..(Len(u) + 1) : RectAt(u, i) \in Nat
           /\ RectAt(u, 1) = 4 /\ RectAt(u, Len(u) + 1) = UpdateLength(u)
           /\ \A i \in 1..Len(u) :
                /\ RectLength(u[i]) \in Nat
                /\ RectAt(u, i + 1) = RectAt(u, i) + RectLength(u[i])
                /\ RectAt(u, i + 1) <= UpdateLength(u)
                /\ \A j \in 1..RectLength(u[i]) :
                     Rfb!UpdateEncoding(u)[RectAt(u, i) + j] = Rfb!RectEncoding(u[i])[j]
<1> DEFINE e == Rfb!UpdateEncoding(u)
           p == RectPieces(u)
           flat == Rfb!FlattenSeq(p)
           c == Cuts(p)
<1>1. /\ Len(u) \in Nat /\ p \in Seq(Seq(Int)) /\ Len(p) = Len(u)
      /\ \A i \in 1..Len(u) : p[i] = Rfb!RectEncoding(u[i]) /\ p[i] \in Seq(Int)
  BY UpdateTypes
<1>2. e \in Seq(Int) /\ Len(e) = 4 + Len(flat) /\ \A j \in 1..Len(flat) : e[4 + j] = flat[j]
  BY UpdateShape
<1>3. flat \in Seq(Int) /\ AreCuts(c, p)
  BY <1>1, Joined
<1> HIDE DEF e, p, c
<1>4. /\ c \in [1..(Len(u) + 1) -> Nat] /\ c[1] = 0 /\ c[Len(u) + 1] = Len(flat)
      /\ \A i \in 1..Len(u) : /\ c[i + 1] = c[i] + Len(p[i]) /\ c[i + 1] <= Len(flat)
                              /\ \A j \in 1..Len(p[i]) : flat[c[i] + j] = p[i][j]
  BY <1>1, <1>3 DEF AreCuts
<1> HIDE DEF flat
<1>5. Len(flat) \in Nat
  BY <1>3, LenProperties
<1>6. ASSUME NEW i \in 1..Len(u)
      PROVE  /\ Len(p[i]) \in Nat
             /\ 4 + c[i + 1] = (4 + c[i]) + Len(p[i])
             /\ 4 + c[i + 1] <= Len(e)
             /\ \A j \in 1..Len(p[i]) : e[(4 + c[i]) + j] = p[i][j]
  <2>1. Len(p[i]) \in Nat
    BY <1>1, LenProperties
  <2>2. /\ c[i] \in Nat /\ c[i + 1] = c[i] + Len(p[i]) /\ c[i + 1] <= Len(flat)
        /\ \A j \in 1..Len(p[i]) : flat[c[i] + j] = p[i][j]
    <3>1. i \in 1..(Len(u) + 1)
      BY <1>1
    <3> QED
      BY <1>4, <3>1
  <2>3. ASSUME NEW j \in 1..Len(p[i]) PROVE e[(4 + c[i]) + j] = p[i][j]
    <3>1. c[i] + j \in 1..Len(flat) /\ 4 + (c[i] + j) = (4 + c[i]) + j
      BY <1>5, <2>1, <2>2
    <3>2. e[4 + (c[i] + j)] = flat[c[i] + j]
      BY <1>2, <3>1
    <3> QED
      BY <2>2, <3>1, <3>2
  <2>4. Len(e) = 4 + Len(flat)
    BY <1>2
  <2>5. 4 + c[i + 1] = (4 + c[i]) + Len(p[i]) /\ 4 + c[i + 1] <= Len(e)
    <3>1. c[i] \in Nat /\ c[i + 1] = c[i] + Len(p[i]) /\ c[i + 1] <= Len(flat)
      BY <2>2
    <3> QED
      BY ONLY <1>5, <2>1, <2>4, <3>1
  <2> QED
    BY <2>1, <2>3, <2>5
<1>7. ASSUME NEW i \in 1..(Len(u) + 1) PROVE 4 + c[i] \in Nat
  <2>1. c[i] \in Nat
    BY <1>4
  <2> QED
    BY <2>1
<1>8. 4 + c[1] = 4 /\ 4 + c[Len(u) + 1] = Len(e)
  BY <1>2, <1>4
<1> QED
  BY <1>1, <1>6, <1>7, <1>8 DEF RectAt, RectLength, UpdateLength, e, c, p

\* So do the tiles of a rectangle.
LEMMA TilePlaces ==
    ASSUME NEW r \in Rfb!Rectangles, Rfb!WellFormedRectangle(r), r.enc = 5
    PROVE  /\ \A n \in 1..(Len(r.tiles) + 1) : TileAt(r, n) \in Nat
           /\ TileAt(r, 1) = 12 /\ TileAt(r, Len(r.tiles) + 1) = RectLength(r)
           /\ \A n \in 1..Len(r.tiles) :
                /\ TileLength(r.tiles[n]) \in Nat
                /\ TileAt(r, n + 1) = TileAt(r, n) + TileLength(r.tiles[n])
                /\ TileAt(r, n + 1) <= RectLength(r)
                /\ \A j \in 1..TileLength(r.tiles[n]) :
                     Rfb!RectEncoding(r)[TileAt(r, n) + j] = Rfb!TileEncoding(r.tiles[n])[j]
<1> DEFINE e == Rfb!RectEncoding(r)
           p == TilePieces(r)
           m == Len(r.tiles)
           flat == Rfb!FlattenSeq(p)
           c == Cuts(p)
<1>1. /\ m \in Nat /\ p \in Seq(Seq(Int)) /\ Len(p) = m
      /\ \A i \in 1..m : p[i] = Rfb!TileEncoding(r.tiles[i]) /\ p[i] \in Seq(Int)
  <2>1. /\ m \in Nat /\ p \in Seq(Seq(Int)) /\ Len(p) = m
        /\ \A i \in 1..m : p[i] = Rfb!TileEncoding(r.tiles[i])
    BY RectTypes, TilesJoined
  <2> HIDE DEF p, m
  <2>2. \A i \in 1..m : p[i] \in Seq(Int)
    BY ONLY <2>1
  <2> QED
    BY <2>1, <2>2
<1>2. e \in Seq(Int) /\ Len(e) = 12 + Len(flat) /\ \A j \in 1..Len(flat) : e[12 + j] = flat[j]
  BY RectShape
<1>3. flat \in Seq(Int) /\ AreCuts(c, p)
  BY <1>1, Joined
<1> HIDE DEF e, p, c, m
<1>4. /\ c \in [1..(m + 1) -> Nat] /\ c[1] = 0 /\ c[m + 1] = Len(flat)
      /\ \A i \in 1..m : /\ c[i + 1] = c[i] + Len(p[i]) /\ c[i + 1] <= Len(flat)
                         /\ \A j \in 1..Len(p[i]) : flat[c[i] + j] = p[i][j]
  BY <1>1, <1>3 DEF AreCuts
<1> HIDE DEF flat
<1>5. Len(flat) \in Nat
  BY <1>3, LenProperties
<1>6. ASSUME NEW i \in 1..m
      PROVE  /\ Len(p[i]) \in Nat
             /\ 12 + c[i + 1] = (12 + c[i]) + Len(p[i])
             /\ 12 + c[i + 1] <= Len(e)
             /\ \A j \in 1..Len(p[i]) : e[(12 + c[i]) + j] = p[i][j]
  <2>1. Len(p[i]) \in Nat
    BY <1>1, LenProperties
  <2>2. /\ c[i] \in Nat /\ c[i + 1] = c[i] + Len(p[i]) /\ c[i + 1] <= Len(flat)
        /\ \A j \in 1..Len(p[i]) : flat[c[i] + j] = p[i][j]
    <3>1. i \in 1..(m + 1)
      BY <1>1
    <3> QED
      BY <1>4, <3>1
  <2>3. ASSUME NEW j \in 1..Len(p[i]) PROVE e[(12 + c[i]) + j] = p[i][j]
    <3>1. c[i] + j \in 1..Len(flat) /\ 12 + (c[i] + j) = (12 + c[i]) + j
      BY <1>5, <2>1, <2>2
    <3>2. e[12 + (c[i] + j)] = flat[c[i] + j]
      BY <1>2, <3>1
    <3> QED
      BY <2>2, <3>1, <3>2
  <2>4. Len(e) = 12 + Len(flat)
    BY <1>2
  <2>5. 12 + c[i + 1] = (12 + c[i]) + Len(p[i]) /\ 12 + c[i + 1] <= Len(e)
    <3>1. c[i] \in Nat /\ c[i + 1] = c[i] + Len(p[i]) /\ c[i + 1] <= Len(flat)
      BY <2>2
    <3> QED
      BY ONLY <1>5, <2>1, <2>4, <3>1
  <2> QED
    BY <2>1, <2>3, <2>5
<1>7. ASSUME NEW i \in 1..(m + 1) PROVE 12 + c[i] \in Nat
  <2>1. c[i] \in Nat
    BY <1>4
  <2> QED
    BY <2>1
<1>8. 12 + c[1] = 12 /\ 12 + c[m + 1] = Len(e)
  BY <1>2, <1>4
<1> QED
  BY <1>1, <1>6, <1>7, <1>8 DEF TileAt, RectLength, TileLength, e, c, p, m

-----------------------------------------------------------------------------
(* The stream *)

\* The i-th of the bytes the client has not parsed.
Ahead(b, r, i) == IF i <= Len(b) THEN b[i] ELSE r[i - Len(b)]

\* Reading moves bytes to the buffer and leaves them where they are in the
\* stream.
LEMMA ReadAhead ==
    ASSUME TypeOK, TypeOK', ReadBytes
    PROVE  /\ Unread(buf', rx') = Unread(buf, rx)
           /\ \A i \in 1..Unread(buf, rx) : Ahead(buf', rx', i) = Ahead(buf, rx, i)
<1>0. PICK n \in 0..Len(rx) :
        buf' = buf \o SubSeq(rx, 1, n) /\ rx' = SubSeq(rx, n + 1, Len(rx))
  BY DEF ReadBytes
<1>1. buf \in Seq(Byte) /\ rx \in Seq(Byte) /\ Len(buf) \in Nat /\ Len(rx) \in Nat
  BY LenProperties DEF TypeOK
<1> DEFINE front == SubSeq(rx, 1, n)
<1>2. front \in Seq(Byte) /\ Len(front) = n /\ \A i \in 1..n : front[i] = rx[i]
  BY <1>1
<1>3. buf' = buf \o front
  BY <1>0
<1>4. Len(rx') = Len(rx) - n /\ \A i \in 1..(Len(rx) - n) : rx'[i] = rx[n + i]
  BY <1>0, <1>1
<1> HIDE DEF front
<1>9. /\ Len(buf') = Len(buf) + n
      /\ \A i \in 1..(Len(buf) + n) :
           buf'[i] = IF i <= Len(buf) THEN buf[i] ELSE front[i - Len(buf)]
  <2>1. buf \in Seq(Byte) /\ front \in Seq(Byte) /\ Len(front) = n /\ buf' = buf \o front
    BY <1>1, <1>2, <1>3
  <2>2. /\ Len(buf \o front) = Len(buf) + Len(front)
        /\ \A i \in 1..(Len(buf) + Len(front)) :
             (buf \o front)[i] = IF i <= Len(buf) THEN buf[i] ELSE front[i - Len(buf)]
    BY ONLY <2>1, ConcatProperties
  <2> QED
    BY ONLY <2>1, <2>2
<1>5. /\ Len(buf') = Len(buf) + n
      /\ \A i \in 1..(Len(buf) + n) :
           buf'[i] = IF i <= Len(buf) THEN buf[i] ELSE rx[i - Len(buf)]
  BY <1>1, <1>2, <1>9
<1>6. Unread(buf', rx') = Unread(buf, rx)
  <2>1. Len(buf') = Len(buf) + n /\ Len(rx') = Len(rx) - n /\ n \in Int
    BY <1>4, <1>5
  <2>2. Len(buf') + Len(rx') = Len(buf) + Len(rx)
    BY ONLY <1>1, <2>1
  <2> QED
    BY <2>2 DEF Unread
<1>7. ASSUME NEW i \in 1..Unread(buf, rx)
      PROVE  Ahead(buf', rx', i) = Ahead(buf, rx, i)
  <2>0. i \in Int /\ i >= 1 /\ i <= Len(buf) + Len(rx)
    BY <1>1 DEF Unread
  <2>1. CASE i <= Len(buf)
    <3>1. i \in 1..(Len(buf) + n) /\ i <= Len(buf')
      BY <1>1, <1>5, <2>0, <2>1
    <3> QED
      BY <1>5, <2>1, <3>1 DEF Ahead
  <2>2. CASE Len(buf) < i /\ i <= Len(buf) + n
    <3>1. /\ i - Len(buf) \in 1..n /\ i \in 1..(Len(buf) + n)
          /\ ~(i <= Len(buf)) /\ i <= Len(buf')
      BY <1>1, <1>5, <2>0, <2>2
    <3>2. buf'[i] = rx[i - Len(buf)]
      BY <1>5, <3>1
    <3> QED
      BY <3>1, <3>2 DEF Ahead
  <2>3. CASE Len(buf) + n < i
    <3>1. /\ i - (Len(buf) + n) \in 1..(Len(rx) - n) /\ ~(i <= Len(buf)) /\ ~(i <= Len(buf'))
          /\ n + (i - (Len(buf) + n)) = i - Len(buf)
      BY <1>1, <1>5, <2>0, <2>3
    <3>2. rx'[i - (Len(buf) + n)] = rx[n + (i - (Len(buf) + n))]
      BY <1>4, <3>1
    <3> QED
      BY <1>5, <3>1, <3>2 DEF Ahead
  <2> QED
    BY <1>1, <2>0, <2>1, <2>2, <2>3
<1> QED
  BY <1>6, <1>7

\* Parsing takes bytes off the front.
LEMMA TakeAhead ==
    ASSUME NEW b \in Seq(Byte), NEW r \in Seq(Byte), NEW b2 \in Seq(Byte),
           Len(b2) <= Len(b),
           \A i \in 1..Len(b2) : b2[i] = b[(Len(b) - Len(b2)) + i]
    PROVE  /\ Unread(b2, r) = Unread(b, r) - (Len(b) - Len(b2))
           /\ \A i \in 1..Unread(b2, r) :
                Ahead(b2, r, i) = Ahead(b, r, (Len(b) - Len(b2)) + i)
<1>1. Len(b) \in Nat /\ Len(r) \in Nat /\ Len(b2) \in Nat
  BY LenProperties
<1> DEFINE n == Len(b) - Len(b2)
<1>2. Unread(b2, r) = Unread(b, r) - n
  BY <1>1 DEF Unread
<1>3. ASSUME NEW i \in 1..Unread(b2, r) PROVE Ahead(b2, r, i) = Ahead(b, r, n + i)
  <2>0. i \in Int /\ i >= 1 /\ i <= Len(b2) + Len(r) /\ n \in Nat /\ Len(b) = n + Len(b2)
    BY <1>1 DEF Unread
  <2>1. CASE i <= Len(b2)
    <3>1. i \in 1..Len(b2) /\ n + i <= Len(b)
      BY <1>1, <2>0, <2>1
    <3> QED
      BY <2>1, <3>1 DEF Ahead
  <2>2. CASE i > Len(b2)
    <3>1. ~(n + i <= Len(b)) /\ ~(i <= Len(b2)) /\ (n + i) - Len(b) = i - Len(b2)
      BY <1>1, <2>0, <2>2
    <3> QED
      BY <3>1 DEF Ahead
  <2> QED
    BY <1>1, <2>0, <2>1, <2>2
<1> QED
  BY <1>2, <1>3

\* What is sent goes behind everything else.
LEMMA SendAhead ==
    ASSUME TypeOK, NEW bytes \in Seq(Byte), rx' = rx \o bytes
    PROVE  /\ Unread(buf, rx') = Unread(buf, rx) + Len(bytes)
           /\ \A i \in 1..Unread(buf, rx) : Ahead(buf, rx', i) = Ahead(buf, rx, i)
           /\ \A j \in 1..Len(bytes) : Ahead(buf, rx', Unread(buf, rx) + j) = bytes[j]
<1>1. Len(buf) \in Nat /\ Len(rx) \in Nat /\ Len(bytes) \in Nat
  BY LenProperties DEF TypeOK
<1>2. /\ Len(rx') = Len(rx) + Len(bytes)
      /\ \A k \in 1..(Len(rx) + Len(bytes)) :
           rx'[k] = IF k <= Len(rx) THEN rx[k] ELSE bytes[k - Len(rx)]
  <2>1. rx \in Seq(Byte)
    BY DEF TypeOK
  <2> QED
    BY <2>1, ConcatProperties
<1>3. ASSUME NEW i \in 1..Unread(buf, rx) PROVE Ahead(buf, rx', i) = Ahead(buf, rx, i)
  <2>0. i \in Int /\ i >= 1 /\ i <= Len(buf) + Len(rx)
    BY <1>1 DEF Unread
  <2>1. CASE i <= Len(buf)
    BY <2>1 DEF Ahead
  <2>2. CASE ~(i <= Len(buf))
    <3>1. i - Len(buf) \in 1..(Len(rx) + Len(bytes)) /\ i - Len(buf) <= Len(rx)
      BY <1>1, <2>0, <2>2
    <3> QED
      BY <1>2, <2>2, <3>1 DEF Ahead
  <2> QED
    BY <2>1, <2>2
<1>4. ASSUME NEW j \in 1..Len(bytes) PROVE Ahead(buf, rx', Unread(buf, rx) + j) = bytes[j]
  <2> DEFINE i == Unread(buf, rx) + j
  <2>1. /\ i - Len(buf) \in 1..(Len(rx) + Len(bytes)) /\ ~(i - Len(buf) <= Len(rx))
        /\ (i - Len(buf)) - Len(rx) = j /\ ~(i <= Len(buf))
    BY <1>1 DEF Unread
  <2> HIDE DEF i
  <2>2. rx'[i - Len(buf)] = bytes[j]
    BY <1>2, <2>1
  <2>3. Ahead(buf, rx', i) = bytes[j]
    BY <2>1, <2>2 DEF Ahead
  <2> QED
    BY <2>3 DEF i
<1> QED
  BY <1>1, <1>2, <1>3, <1>4 DEF Unread

\* Between two states the unparsed bytes are the same where they are in both:
\* p is how much was parsed, s how much was sent.
Kept(p, b, r, s, p2, b2, r2, s2) ==
    /\ p <= p2 /\ s <= s2
    /\ \A x \in Int : p2 < x /\ x <= s => Ahead(b2, r2, x - p2) = Ahead(b, r, x - p)

\* The unparsed part of bytes that begin behind position start is under way.
Holds(p, b, r, s, start, bytes) ==
    \A j \in 1..Len(bytes) :
      start + j > p => start + j <= s /\ Ahead(b, r, (start + j) - p) = bytes[j]

\* What is under way stays under way.
LEMMA HoldsOn ==
    ASSUME NEW p \in Int, NEW s \in Int, NEW p2 \in Int, NEW s2 \in Int,
           NEW b, NEW r, NEW b2, NEW r2, NEW start \in Int, NEW bytes \in Seq(Int),
           Kept(p, b, r, s, p2, b2, r2, s2), Holds(p, b, r, s, start, bytes)
    PROVE  Holds(p2, b2, r2, s2, start, bytes)
<1> SUFFICES ASSUME NEW j \in 1..Len(bytes), start + j > p2
             PROVE  start + j <= s2 /\ Ahead(b2, r2, (start + j) - p2) = bytes[j]
  BY DEF Holds
<1>0. Len(bytes) \in Nat /\ j \in Int /\ start + j \in Int
  BY LenProperties
<1>1. p <= p2 /\ s <= s2
  BY DEF Kept
<1>2. start + j > p
  BY <1>0, <1>1
<1>3. start + j <= s /\ Ahead(b, r, (start + j) - p) = bytes[j]
  BY <1>2 DEF Holds
<1>4. Ahead(b2, r2, (start + j) - p2) = Ahead(b, r, (start + j) - p)
  BY <1>0, <1>3 DEF Kept
<1>5. start + j <= s2
  BY <1>0, <1>1, <1>3
<1> QED
  BY <1>3, <1>4, <1>5

\* What is in the buffer where the client has come to.
LEMMA HoldsHere ==
    ASSUME NEW p \in Int, NEW s \in Int, NEW b \in Seq(Byte), NEW r, NEW start \in Int,
           NEW bytes \in Seq(Int), Holds(p, b, r, s, start, bytes), p >= start
    PROVE  \A i \in 1..Len(b) : (p - start) + i <= Len(bytes) => b[i] = bytes[(p - start) + i]
<1>0. Len(b) \in Nat /\ Len(bytes) \in Nat
  BY LenProperties
<1> SUFFICES ASSUME NEW i \in 1..Len(b), (p - start) + i <= Len(bytes)
             PROVE  b[i] = bytes[(p - start) + i]
  OBVIOUS
<1> DEFINE j == (p - start) + i
<1>1. j \in 1..Len(bytes) /\ start + j > p /\ (start + j) - p = i /\ i <= Len(b)
  BY <1>0
<1> HIDE DEF j
<1>2. Ahead(b, r, (start + j) - p) = bytes[j]
  BY <1>1 DEF Holds
<1> QED
  BY <1>1, <1>2 DEF Ahead, j

\* Every call of Vnc_StateMachine takes some bytes off the front of vncBuffer.
TakenFront ==
    /\ Len(buf') \in Nat /\ Len(buf') <= Len(buf)
    /\ \A i \in 1..Len(buf') : buf'[i] = buf[(Len(buf) - Len(buf')) + i]

\* Consume takes as many bytes as it says.
LEMMA ConsumeFront ==
    ASSUME TypeOK, NEW n \in Nat, n <= Len(buf), Consume(n)
    PROVE  TakenFront /\ Len(buf') = Len(buf) - n
<1>1. buf \in Seq(Byte) /\ Len(buf) \in Nat
  BY LenProperties DEF TypeOK
<1>2. Len(buf') = Len(buf) - n
  BY <1>1, ConsumeRest DEF Consume
<1>3. \A i \in 1..(Len(buf) - n) : buf'[i] = buf[n + i]
  <2> SUFFICES ASSUME NEW i \in 1..(Len(buf) - n) PROVE buf'[i] = buf[n + i]
    OBVIOUS
  <2>1. n + 1 \in 1..(Len(buf) + 1) /\ i \in 1..((Len(buf) - (n + 1)) + 1)
    BY <1>1
  <2>2. buf' = SubSeq(buf, n + 1, Len(buf))
    BY DEF Consume
  <2> QED
    BY <1>1, <2>1, <2>2
<1>4. Len(buf) - Len(buf') = n
  BY <1>1, <1>2
<1> QED
  BY <1>1, <1>2, <1>3, <1>4 DEF TakenFront

\* A call that leaves vncBuffer alone takes none.
LEMMA NothingTaken ==
    ASSUME TypeOK, buf' = buf
    PROVE  TakenFront
<1>1. Len(buf) \in Nat
  BY LenProperties DEF TypeOK
<1>2. Len(buf) - Len(buf) = 0
  BY <1>1
<1> QED
  BY <1>1, <1>2 DEF TakenFront

\* The bytes of a tile header with the given subencoding byte
HeaderBytes(b) ==
    1 + (IF BackgroundSpecified(b) THEN BYTES_PER_PIXEL ELSE 0)
      + (IF ForegroundSpecified(b) THEN BYTES_PER_PIXEL ELSE 0)
      + (IF AnySubrects(b) THEN 1 ELSE 0)

\* The header of a tile that is not raw takes the bytes it consists of.
LEMMA HeaderTaken ==
    ASSUME TypeOK, HextileHeader
    PROVE  LET h == HeaderBytes(buf[1])
           IN  /\ h \in 1..Len(buf) /\ Consume(h)
               /\ hex'.sub = buf[1]
               /\ hex'.n = IF AnySubrects(buf[1]) THEN buf[h] ELSE 0
<1> DEFINE b == buf[1]
           f == IF BackgroundSpecified(b) THEN 4 ELSE 2
           s == IF ForegroundSpecified(b) THEN f + 2 ELSE f
           taken == IF AnySubrects(b) THEN s ELSE s - 1
<1>1. /\ hex'.sub = b /\ hex'.n = IF AnySubrects(b) THEN buf[s] ELSE 0
      /\ Consume(taken)
  BY DEF HextileHeader
<1>2. HeaderHere /\ HeaderComplete
  BY DEF HextileHeader, HeaderHere
<1>3. /\ Len(buf) \in Nat
      /\ Len(buf) >= 1 + (IF BackgroundSpecified(b) THEN 2 ELSE 0)
                       + (IF ForegroundSpecified(b) THEN 2 ELSE 0)
                       + (IF AnySubrects(b) THEN 2 ELSE 0)
  BY <1>2, HeaderBytesHere DEF TileHeaderWait, BYTES_PER_PIXEL
<1> HIDE DEF b
<1>4. HeaderBytes(b) = taken /\ (AnySubrects(b) => HeaderBytes(b) = s)
  BY DEF HeaderBytes, BYTES_PER_PIXEL
<1>5. taken \in 1..Len(buf)
  BY <1>3
<1> HIDE DEF taken, s
<1> QED
  BY <1>1, <1>4, <1>5 DEF b

\* Whole pixels are taken.
LEMMA PixelsFront ==
    ASSUME TypeOK, NEW done, TakePixels(done)
    PROVE  TakenFront /\ Len(buf') = Len(buf) - PixelsTaken * BYTES_PER_PIXEL
<1>1. buf \in Seq(Byte) /\ interPixelCount \in Ulongs
  BY DEF TypeOK
<1> DEFINE n == PixelsTaken * BYTES_PER_PIXEL
<1>2. PixelsTaken \in Nat /\ n <= Len(buf)
  BY <1>1, PixelsTakenRange
<1>3. n \in Nat
  BY <1>2 DEF BYTES_PER_PIXEL
<1>4. Consume(n)
  BY DEF TakePixels
<1> HIDE DEF n
<1>5. TakenFront /\ Len(buf') = Len(buf) - n
  BY <1>2, <1>3, <1>4, ConsumeFront
<1> QED
  BY <1>5 DEF n

\* Whatever state it is called in.
LEMMA MachineTakes ==
    ASSUME TypeOK, Vnc_StateMachine
    PROVE  TakenFront
<1>0. Len(buf) \in Nat /\ interPixelCount \in Nat
  BY LenProperties DEF TypeOK, Ulongs
<1>1. ASSUME NEW n \in Nat, NEW next, Handshake(n, next)
      PROVE  TakenFront
  <2>1. CASE WaitForBytes(n)
    BY <2>1, NothingTaken DEF WaitForBytes, Return0
  <2>2. CASE Len(buf) >= n /\ Consume(n)
    <3>1. n <= Len(buf) /\ Consume(n)
      BY <1>0, <2>2
    <3> QED
      BY <3>1, ConsumeFront
  <2> QED
    BY <1>1, <2>1, <2>2 DEF Handshake
<1>2. ASSUME NEW n \in Nat, Len(buf) >= n, Consume(n) PROVE TakenFront
  <2>1. n <= Len(buf)
    BY <1>0, <1>2
  <2> QED
    BY <1>2, <2>1, ConsumeFront
<1>3. ASSUME NEW n, WaitForBytes(n) PROVE TakenFront
  BY <1>3, NothingTaken DEF WaitForBytes, Return0
<1>4. CASE NotConnected \/ WaitForVncAuthWord \/ WaitForVncAuthResponse
           \/ WaitForServerName \/ Connected
  BY <1>0, <1>1, <1>4 DEF NotConnected, WaitForVncAuthWord, WaitForVncAuthResponse,
     WaitForServerName, Connected
<1>5. CASE WaitForAuthType \/ SentClientInitMessage
  BY <1>2, <1>3, <1>5 DEF WaitForAuthType, SentClientInitMessage
<1>6. CASE WaitForUpdate
  BY <1>2, <1>3, <1>6, NothingTaken DEF WaitForUpdate, Return0
<1>7. CASE ProcessError
  BY <1>7, NothingTaken DEF ProcessError
<1>8. CASE UpdateDone \/ WaitForRectangle \/ BadEncoding
  BY <1>3, <1>8, NothingTaken DEF UpdateDone, WaitForRectangle, BadEncoding, Return0
<1>9. CASE RawRectangle \/ CopyRectRectangle \/ HextileRectangle
  BY <1>2, <1>9 DEF RawRectangle, CopyRectRectangle, HextileRectangle, RectangleHeader
<1>10. CASE DropRectangle \/ HextileDropRaw \/ HextileDrawRaw
  <2>1. \E done : TakePixels(done)
    BY <1>10 DEF DropRectangle, HextileDropRaw, HextileDrawRaw, DropOutOfViewPixels
  <2> QED
    BY <2>1, PixelsFront
<1>11. CASE ProcessCopyRect
  BY <1>2, <1>3, <1>11 DEF ProcessCopyRect
<1>12. CASE HextileInit \/ HextileLastTile \/ HextileNextTile \/ HextileWaitHeader
            \/ HextileSubrectOverrun \/ HextileWaitSubrect \/ HextileBufferFilled
            \/ HextileDrawTile \/ HextileSkipTile
  BY <1>3, <1>12, NothingTaken DEF HextileInit, HextileLastTile, HextileNextTile,
     HextileWaitHeader, HextileSubrectOverrun, HextileWaitSubrect, HextileBufferFilled,
     HextileDrawTile, HextileSkipTile, Return0
<1>13. CASE HextileRawHeader
  <2>1. Len(buf) >= 1 /\ Consume(1)
    BY <1>13, HeaderBytesHere DEF HextileRawHeader, HeaderHere
  <2> QED
    BY <1>2, <2>1
<1>14. CASE HextileHeader
  <2> DEFINE h == HeaderBytes(buf[1])
  <2>1. h \in 1..Len(buf) /\ Consume(h)
    BY <1>14, HeaderTaken
  <2> HIDE DEF h
  <2> QED
    BY <1>0, <1>2, <2>1
<1>15. CASE HextileSubrect
  BY <1>2, <1>15 DEF HextileSubrect, SubrectBytes, BYTES_PER_PIXEL
<1> QED
  BY <1>4, <1>5, <1>6, <1>7, <1>8, <1>9, <1>10, <1>11, <1>12, <1>13, <1>14, <1>15
     DEF Vnc_StateMachine, PixelProcessor, ProcessHextile

\* How far the client has parsed the stream.
Place(s, b, r) == s - Len(r) - Len(b)

\* Reading keeps the bytes of the stream in their places.
LEMMA ReadKept ==
    ASSUME TypeOK, TypeOK', ReadBytes, sent \in Int, sent' = sent,
           NEW p, p = Place(sent, buf, rx), NEW p2, p2 = Place(sent', buf', rx')
    PROVE  p2 = p /\ p2 <= sent /\ Kept(p, buf, rx, sent, p2, buf', rx', sent')
<1>2. buf \in Seq(Byte) /\ rx \in Seq(Byte) /\ buf' \in Seq(Byte) /\ rx' \in Seq(Byte)
  BY DEF TypeOK
<1>3. Len(buf) \in Nat /\ Len(rx) \in Nat /\ Len(buf') \in Nat /\ Len(rx') \in Nat
  BY <1>2, LenProperties
<1>4. /\ Unread(buf', rx') = Unread(buf, rx)
      /\ \A i \in 1..Unread(buf, rx) : Ahead(buf', rx', i) = Ahead(buf, rx, i)
  BY ReadAhead
<1>5. Len(buf') + Len(rx') = Len(buf) + Len(rx)
  BY <1>4 DEF Unread
<1>6. p2 = p /\ p2 <= sent /\ p \in Int /\ sent - p = Unread(buf, rx)
  BY <1>3, <1>5 DEF Place, Unread
<1>7. ASSUME NEW x \in Int, p2 < x, x <= sent
      PROVE  Ahead(buf', rx', x - p2) = Ahead(buf, rx, x - p)
  <2>1. x - p \in 1..Unread(buf, rx)
    BY <1>3, <1>6, <1>7 DEF Unread
  <2> QED
    BY <1>4, <1>6, <2>1
<1> QED
  BY <1>6, <1>7 DEF Kept

\* So does parsing, which moves the client's place.
LEMMA TakeKept ==
    ASSUME TypeOK, TypeOK', TakenFront, sent \in Int, sent' = sent, rx' = rx,
           NEW p, p = Place(sent, buf, rx), NEW p2, p2 = Place(sent', buf', rx')
    PROVE  /\ p2 = p + (Len(buf) - Len(buf')) /\ p2 <= sent
           /\ Kept(p, buf, rx, sent, p2, buf', rx', sent')
<1>2. buf \in Seq(Byte) /\ rx \in Seq(Byte) /\ buf' \in Seq(Byte)
  BY DEF TypeOK
<1>3. Len(buf) \in Nat /\ Len(rx) \in Nat /\ Len(buf') \in Nat
  BY <1>2, LenProperties
<1> DEFINE n == Len(buf) - Len(buf')
<1>4. /\ Unread(buf', rx) = Unread(buf, rx) - n
      /\ \A i \in 1..Unread(buf', rx) : Ahead(buf', rx, i) = Ahead(buf, rx, n + i)
  BY <1>2, TakeAhead DEF TakenFront
<1>5. Len(buf') <= Len(buf)
  BY DEF TakenFront
<1>6. /\ p \in Int /\ n \in Nat /\ p2 = p + n /\ p2 <= sent
      /\ sent - p2 = Unread(buf', rx)
  BY <1>3, <1>5 DEF Place, Unread
<1>7. ASSUME NEW x \in Int, p2 < x, x <= sent
      PROVE  Ahead(buf', rx', x - p2) = Ahead(buf, rx, x - p)
  <2>1. x - p2 \in 1..Unread(buf', rx) /\ n + (x - p2) = x - p
    <3> HIDE DEF n
    <3>1. PICK m : m = Unread(buf', rx)
      OBVIOUS
    <3>2. x - p2 \in 1..m /\ n + (x - p2) = x - p
      BY <1>6, <1>7, <3>1
    <3> QED
      BY <3>1, <3>2
  <2> QED
    BY <1>4, <2>1
<1>8. p <= p2
  BY <1>6
<1> QED
  BY <1>6, <1>7, <1>8 DEF Kept

\* So does sending, which adds bytes at the end.
LEMMA SendKept ==
    ASSUME TypeOK, NEW bytes \in Seq(Byte), rx' = rx \o bytes, buf' = buf,
           sent \in Int, sent' = sent + Len(bytes),
           NEW p, p = Place(sent, buf, rx), NEW p2, p2 = Place(sent', buf', rx')
    PROVE  /\ p2 = p /\ p2 <= sent /\ Kept(p, buf, rx, sent, p2, buf', rx', sent')
           /\ Holds(p2, buf', rx', sent', sent, bytes)
           /\ \A j \in 1..Len(bytes) : Ahead(buf', rx', (sent + j) - p2) = bytes[j]
<1>2. buf \in Seq(Byte) /\ rx \in Seq(Byte)
  BY DEF TypeOK
<1>3. Len(buf) \in Nat /\ Len(rx) \in Nat /\ Len(bytes) \in Nat
  BY <1>2, LenProperties
<1>4. /\ Unread(buf, rx') = Unread(buf, rx) + Len(bytes)
      /\ \A i \in 1..Unread(buf, rx) : Ahead(buf, rx', i) = Ahead(buf, rx, i)
      /\ \A j \in 1..Len(bytes) : Ahead(buf, rx', Unread(buf, rx) + j) = bytes[j]
  BY SendAhead
<1>5. Len(rx') = Len(rx) + Len(bytes)
  BY <1>2, ConcatProperties
<1>6. p2 = p /\ p \in Int /\ p2 <= sent /\ sent - p = Unread(buf, rx) /\ sent <= sent'
  BY <1>3, <1>5 DEF Place, Unread
<1>7. ASSUME NEW x \in Int, p2 < x, x <= sent
      PROVE  Ahead(buf', rx', x - p2) = Ahead(buf, rx, x - p)
  <2>1. x - p \in 1..Unread(buf, rx)
    BY <1>3, <1>6, <1>7 DEF Unread
  <2> QED
    BY <1>4, <1>6, <2>1
<1>8. ASSUME NEW j \in 1..Len(bytes)
      PROVE  sent + j <= sent' /\ Ahead(buf', rx', (sent + j) - p2) = bytes[j]
  <2>1. (sent + j) - p2 = Unread(buf, rx) + j /\ sent + j <= sent'
    BY <1>3, <1>6
  <2> QED
    BY <1>4, <2>1
<1>9. Kept(p, buf, rx, sent, p2, buf', rx', sent')
  BY <1>6, <1>7 DEF Kept
<1>10. Holds(p2, buf', rx', sent', sent, bytes)
  BY <1>8 DEF Holds
<1> QED
  BY <1>6, <1>8, <1>9, <1>10

-----------------------------------------------------------------------------
(* The client's walk through the bytes of a tile *)

\* The bytes of a subrectangle under a subencoding byte.
SubBytes(b) == IF SubrectsColoured(b) THEN 4 ELSE 2

\* The subrectangles a header of h bytes announces.
Announced(e, h) == IF AnySubrects(e[1]) THEN e[h] ELSE 0

\* A raw tile is recognised by its first byte, and has two bytes for each pixel.
LEMMA RawTileBytes ==
    ASSUME NEW t \in Rfb!Tiles, t.raw # <<>>
    PROVE  /\ TileLength(t) \in Nat /\ TileLength(t) = 1 + 2 * Len(t.raw)
           /\ Raw(Rfb!TileEncoding(t)[1])
<1>1. Len(t.raw) \in Nat
  BY TileTypes
<1> DEFINE e == Rfb!TileEncoding(t)
<1>2. Len(e) = 1 + 2 * Len(t.raw) /\ e[1] = 1
  BY RawTileShape
<1> HIDE DEF e
<1>3. Raw(1)
  BY DEF Raw, Bit
<1>4. Raw(e[1])
  BY ONLY <1>2, <1>3
<1> QED
  BY <1>1, <1>2, <1>4 DEF TileLength, e

\* Any other tile is as long as its first byte and its count of subrectangles
\* say.
LEMMA HexTileBytes ==
    ASSUME NEW t \in Rfb!Tiles, Rfb!WellFormedTile(t), t.raw = <<>>
    PROVE  LET e == Rfb!TileEncoding(t)
               h == HeaderBytes(e[1])
           IN  /\ TileLength(t) \in Nat /\ h \in 1..TileLength(t)
               /\ ~Raw(e[1])
               /\ Announced(e, h) \in Nat
               /\ TileLength(t) = h + SubBytes(e[1]) * Announced(e, h)
<1> DEFINE e == Rfb!TileEncoding(t)
           b == Rfb!Subencoding(t)
           h == HeaderLength(t)
           m == Len(t.subs)
<1>1. m \in Nat /\ t.coloured \in BOOLEAN /\ (t.subs = <<>> <=> m = 0)
  BY TileTypes
<1>2. Len(e) = h + SubrectLength(t) * m /\ e[1] = b /\ (t.subs # <<>> => e[h] = m)
  <2>1. t.coloured => \A n \in 1..Len(t.subs) : t.subs[n].c # Rfb!None
    BY DEF Rfb!WellFormedTile
  <2> QED
    BY <2>1, HexTileShape
<1>3. /\ ~Raw(b)
      /\ BackgroundSpecified(b) <=> t.bg # Rfb!None
      /\ ForegroundSpecified(b) <=> t.fg # Rfb!None
      /\ AnySubrects(b) <=> t.subs # <<>>
      /\ SubrectsColoured(b) <=> t.coloured
  BY SubencodingBits
<1> HIDE DEF e, b, m
<1>4. HeaderBytes(b) = h /\ h \in Nat /\ h >= 1
  BY <1>3 DEF HeaderBytes, HeaderLength, ColourLength, BYTES_PER_PIXEL
<1>5. SubBytes(b) = SubrectLength(t) /\ SubBytes(b) \in Nat
  BY <1>1, <1>3 DEF SubBytes, SubrectLength
<1> HIDE DEF h
<1>6. Announced(e, h) = m
  <2>1. CASE t.subs = <<>>
    BY <1>1, <1>2, <1>3, <2>1 DEF Announced
  <2>2. CASE t.subs # <<>>
    BY <1>1, <1>2, <1>3, <2>2 DEF Announced
  <2> QED
    BY <2>1, <2>2
<1>7. Len(e) = h + SubBytes(b) * m /\ SubBytes(b) * m \in Nat
  BY <1>1, <1>2, <1>5
<1>8. Len(e) \in Nat /\ h \in 1..Len(e)
  BY <1>4, <1>7
<1>9. Announced(e, h) \in Nat /\ Len(e) = h + SubBytes(b) * Announced(e, h)
  BY <1>1, <1>6, <1>7
<1>10. e[1] = b /\ HeaderBytes(b) = h
  BY <1>2, <1>4
<1> QED
  BY <1>3, <1>8, <1>9, <1>10, Zenon DEF TileLength, e

\* The buffer holds bytes from behind the first o.
Front(o, bytes) == \A i \in 1..Len(buf) : o + i <= Len(bytes) => buf[i] = bytes[o + i]

\* The client has parsed o bytes of the tile t, and knows how many are left.
InTile(o, t) ==
    \/ hextileState = "PARSEHEADER" /\ o = 0
    \/ /\ hextileState \in {"DRAWRAW", "DROPRAW"}
       /\ interPixelCount <= 256 /\ o + 2 * interPixelCount = TileLength(t)
    \/ hextileState = "FILLBUFFER" /\ o + SubBytes(hex.sub) * hex.n = TileLength(t)
    \/ hextileState \in {"DRAWTILE", "DONE"} /\ o = TileLength(t)

\* Pixels whose bytes an unsigned long can count are counted exactly.
LEMMA PixelsCounted ==
    ASSUME TypeOK, 2 * interPixelCount < UlongRange, \E done : TakePixels(done)
    PROVE  /\ interPixelCount \in Nat /\ interPixelCount' \in Nat
           /\ interPixelCount' <= interPixelCount
           /\ Len(buf) - Len(buf') = 2 * (interPixelCount - interPixelCount')
           /\ AllPixelsHere => interPixelCount' = 0
           /\ ~AllPixelsHere => UNCHANGED <<VNCpixelProcessorState, hextileState>>
<1>0. PICK done : TakePixels(done)
  OBVIOUS
<1>1. buf \in Seq(Byte) /\ interPixelCount \in Ulongs
  BY DEF TypeOK
<1>2. Len(buf) \in Nat /\ interPixelCount \in Nat
  BY <1>1, LenProperties DEF Ulongs
<1>3. PixelBytesLeft = 2 * interPixelCount
  <2>1. interPixelCount * 2 \in 0 .. UlongRange - 1
    BY <1>2, UlongAssumption
  <2> QED
    BY <1>2, <2>1, UlongAssumption DEF PixelBytesLeft, Ulong, BYTES_PER_PIXEL
<1>4. Len(buf') = Len(buf) - PixelsTaken * 2
  BY <1>0, PixelsFront DEF BYTES_PER_PIXEL
<1>5. CASE AllPixelsHere
  <2>1. PixelsTaken = interPixelCount
    <3>1. PixelsTaken = (2 * interPixelCount) \div 2
      BY <1>3, <1>5 DEF PixelsTaken, BYTES_PER_PIXEL
    <3> QED
      BY <1>2, <3>1
  <2>2. interPixelCount' = 0
    BY <1>0, <1>5 DEF TakePixels
  <2>3. /\ interPixelCount' \in Nat /\ interPixelCount' <= interPixelCount
        /\ Len(buf) - Len(buf') = 2 * (interPixelCount - interPixelCount')
    BY ONLY <1>2, <1>4, <2>1, <2>2
  <2> QED
    BY ONLY <1>2, <1>5, <2>2, <2>3
<1>6. CASE ~AllPixelsHere
  <2>1. PixelsTaken \in Nat /\ PixelsTaken <= interPixelCount
    BY <1>1, <1>6, PixelsTakenRange
  <2>2. interPixelCount' = interPixelCount - PixelsTaken
    BY <1>0, <1>6 DEF TakePixels
  <2>3. UNCHANGED <<VNCpixelProcessorState, hextileState>>
    BY <1>0, <1>6 DEF TakePixels
  <2>4. /\ interPixelCount' \in Nat /\ interPixelCount' <= interPixelCount
        /\ Len(buf) - Len(buf') = 2 * (interPixelCount - interPixelCount')
    BY ONLY <1>2, <1>4, <2>1, <2>2
  <2> QED
    BY ONLY <1>2, <1>6, <2>3, <2>4
<1> QED
  BY <1>5, <1>6

\* What the parts of the machine for tiles leave alone.
TileKeeps ==
    /\ VNCstate' = VNCstate /\ VNCpixelProcessorState' = VNCpixelProcessorState
    /\ rectangleCount' = rectangleCount /\ updateWindow' = updateWindow /\ tile' = tile

\* The steps within a tile.
TileActions ==
    \/ HextileWaitHeader \/ HextileRawHeader \/ HextileHeader
    \/ HextileDropRaw \/ HextileDrawRaw
    \/ HextileSubrect \/ HextileSubrectOverrun \/ HextileWaitSubrect \/ HextileBufferFilled
    \/ HextileDrawTile \/ HextileSkipTile

\* A tile of the client's has the pixels that a raw tile of the server's has.
SameSize(t) ==
    t.raw # <<>> => tile.w <= Tile /\ tile.h <= Tile /\ Len(t.raw) = tile.w * tile.h

\* The client never takes more or fewer bytes than the tile has.
LEMMA TileWalk ==
    ASSUME TypeOK, NEW o \in Nat, NEW t \in Rfb!Tiles, Rfb!WellFormedTile(t), SameSize(t),
           Front(o, Rfb!TileEncoding(t)), InTile(o, t), TileActions,
           NEW o2, o2 = o + (Len(buf) - Len(buf'))
    PROVE  InTile(o2, t)' /\ TileKeeps
<1>1. /\ buf \in Seq(Byte) /\ Len(buf) \in Nat /\ interPixelCount \in Nat
      /\ hex.n \in Nat /\ hex.sub \in Byte /\ hex \in [bg : Colour, fg : Colour, sub : Byte, n : Byte]
  <2>1. /\ buf \in Seq(Byte) /\ interPixelCount \in Ulongs
        /\ hex \in [bg : Colour, fg : Colour, sub : Byte, n : Byte]
    BY DEF TypeOK
  <2>2. hex.n \in Byte /\ hex.sub \in Byte
    BY <2>1
  <2>3. Byte \subseteq Nat /\ Ulongs \subseteq Nat
    BY DEF Byte, Ulongs
  <2>4. Len(buf) \in Nat
    BY <2>1, LenProperties
  <2> QED
    BY <2>1, <2>2, <2>3, <2>4
<1>2. TileLength(t) \in Nat
  BY RawTileBytes, HexTileBytes
<1>3. ASSUME buf' = buf PROVE o2 = o
  BY <1>1, <1>3
<1>4. CASE HextileWaitHeader
  <2>1. hextileState = "PARSEHEADER" /\ hextileState' = hextileState /\ buf' = buf /\ TileKeeps
    BY <1>4 DEF HextileWaitHeader, HextileProcessing, Return0, connVars, rectVars, TileKeeps
  <2> QED
    BY <1>3, <2>1 DEF InTile
<1>5. CASE HextileRawHeader
  <2>1. /\ hextileState = "PARSEHEADER" /\ HeaderComplete /\ Raw(buf[1]) /\ Consume(1) /\ TileKeeps
        /\ hextileState' \in {"DRAWRAW", "DROPRAW"} /\ interPixelCount' \in IntProduct(tile.w, tile.h)
    BY <1>5 DEF HextileRawHeader, HeaderHere, HextileProcessing, connVars, TileKeeps
  <2>2. o = 0
    BY <2>1 DEF InTile
  <2>3. Len(buf) >= 1
    BY <2>1, HeaderBytesHere
  <2>4. Len(buf') = Len(buf) - 1
    BY <1>1, <2>1, <2>3, ConsumeFront
  <2>5. o2 = 1
    BY <1>1, <2>2, <2>4
  <2>6. t.raw # <<>>
    <3> SUFFICES ASSUME t.raw = <<>> PROVE FALSE
      OBVIOUS
    <3> DEFINE e == Rfb!TileEncoding(t)
    <3>1. Len(e) >= 1 /\ ~Raw(e[1])
      BY <1>2, HexTileBytes DEF TileLength
    <3> HIDE DEF e
    <3>2. buf[1] = e[0 + 1]
      BY <1>1, <2>2, <2>3, <3>1 DEF Front, e
    <3>3. buf[1] = e[1]
      BY <3>2
    <3> QED
      BY <2>1, <3>1, <3>3
  <2>7. TileLength(t) = 1 + 2 * (tile.w * tile.h) /\ tile.w <= Tile /\ tile.h <= Tile
    BY <2>6, RawTileBytes DEF SameSize
  <2>8. tile.w \in Byte /\ tile.h \in Byte
    BY DEF TypeOK
  <2>9. interPixelCount' = tile.w * tile.h
    BY <2>1, <2>7, <2>8, TilePixels
  <2>10. tile.w * tile.h <= 256 /\ tile.w * tile.h \in Nat
    <3>1. tile.w \in Nat /\ tile.h \in Nat /\ tile.w <= 16 /\ tile.h <= 16
      <4>1. tile.w \in Nat /\ tile.h \in Nat
        BY TileFields
      <4> QED
        BY ONLY <2>7, <4>1, TileAssumption
    <3> QED
      BY ONLY <3>1
  <2>11. interPixelCount' <= 256 /\ o2 + 2 * interPixelCount' = TileLength(t)
    BY <2>5, <2>7, <2>9, <2>10
  <2> QED
    BY <2>1, <2>11 DEF InTile
<1>6. CASE HextileHeader
  <2> DEFINE e == Rfb!TileEncoding(t)
             h == HeaderBytes(e[1])
  <2>1. /\ hextileState = "PARSEHEADER" /\ HeaderComplete /\ ~Raw(buf[1]) /\ TileKeeps
        /\ hextileState' = "FILLBUFFER"
    BY <1>6 DEF HextileHeader, HeaderHere, HextileProcessing, connVars, TileKeeps
  <2>2. o = 0
    BY <2>1 DEF InTile
  <2>3. Len(buf) >= 1
    BY <2>1, HeaderBytesHere
  <2>4. Len(e) >= 1 /\ Len(e) \in Nat
    BY <1>2, RawTileBytes, HexTileBytes DEF TileLength
  <2>5. \A i \in 1..Len(buf) : i <= Len(e) => buf[i] = e[i]
    <3> SUFFICES ASSUME NEW i \in 1..Len(buf), i <= Len(e) PROVE buf[i] = e[i]
      OBVIOUS
    <3>1. o + i = i
      BY <1>1, <2>2
    <3> HIDE DEF e
    <3> QED
      BY <3>1 DEF Front, e
  <2> HIDE DEF e
  <2>6. buf[1] = e[1]
    BY <1>1, <2>3, <2>4, <2>5
  <2>7. t.raw = <<>>
    BY <2>1, <2>6, RawTileBytes DEF e
  <2>8. /\ h \in 1..Len(e) /\ Announced(e, h) \in Nat
        /\ Len(e) = h + SubBytes(e[1]) * Announced(e, h)
    BY <2>7, HexTileBytes, Zenon DEF e, TileLength
  <2>9. /\ h \in 1..Len(buf) /\ Consume(h) /\ hex'.sub = e[1]
        /\ hex'.n = IF AnySubrects(e[1]) THEN buf[h] ELSE 0
    BY <1>6, <2>6, HeaderTaken
  <2> HIDE DEF h
  <2>10. hex'.n = Announced(e, h)
    BY <2>4, <2>5, <2>8, <2>9 DEF Announced
  <2>11. Len(buf') = Len(buf) - h
    BY <1>1, <2>9, ConsumeFront
  <2>12. o2 = h
    BY <1>1, <2>2, <2>9, <2>11
  <2>13. o2 + SubBytes(hex'.sub) * hex'.n = TileLength(t)
    BY <2>8, <2>9, <2>10, <2>12 DEF TileLength, e
  <2> QED
    BY <2>1, <2>13 DEF InTile
<1>7. CASE HextileDropRaw \/ HextileDrawRaw
  <2>1. /\ TakePixels(hextileState' = "DONE" /\ UNCHANGED VNCpixelProcessorState)
        /\ hextileState \in {"DRAWRAW", "DROPRAW"}
    BY <1>7 DEF HextileDropRaw, HextileDrawRaw, DropOutOfViewPixels, HextileProcessing
  <2>2. \E done : TakePixels(done)
    BY <2>1
  <2>3. interPixelCount <= 256 /\ o + 2 * interPixelCount = TileLength(t)
    BY <2>1 DEF InTile
  <2>4. 2 * interPixelCount < UlongRange
    BY <1>1, <2>3, UlongAssumption
  <2>5. /\ interPixelCount' \in Nat /\ interPixelCount' <= interPixelCount
        /\ Len(buf) - Len(buf') = 2 * (interPixelCount - interPixelCount')
        /\ AllPixelsHere => interPixelCount' = 0
        /\ ~AllPixelsHere => UNCHANGED <<VNCpixelProcessorState, hextileState>>
    BY <2>2, <2>4, PixelsCounted
  <2>6. interPixelCount' <= 256 /\ o2 + 2 * interPixelCount' = TileLength(t)
    <3>1. interPixelCount \in Nat /\ o \in Nat /\ o2 = o + (Len(buf) - Len(buf'))
      BY <1>1
    <3> QED
      BY ONLY <2>3, <2>5, <3>1
  <2>7. TileKeeps
    <3>1. VNCpixelProcessorState' = VNCpixelProcessorState
      BY <2>1 DEF TakePixels
    <3> QED
      BY <2>1, <3>1 DEF TakePixels, TileKeeps, connVars
  <2>8. CASE AllPixelsHere
    <3>1. hextileState' = "DONE" /\ interPixelCount' = 0
      BY <2>1, <2>5, <2>8 DEF TakePixels
    <3>2. o2 = TileLength(t)
      BY <1>1, <2>6, <3>1
    <3> QED
      BY <2>7, <3>1, <3>2 DEF InTile
  <2>9. CASE ~AllPixelsHere
    BY <2>1, <2>5, <2>6, <2>7, <2>9 DEF InTile
  <2> QED
    BY <2>8, <2>9
<1>8. CASE HextileSubrect
  <2>1. /\ hextileState = "FILLBUFFER" /\ hex.n # 0 /\ Len(buf) >= SubrectBytes
        /\ hex' = [hex EXCEPT !.n = hex.n - 1] /\ Consume(SubrectBytes) /\ TileKeeps
        /\ hextileState' = hextileState
    BY <1>8 DEF HextileSubrect, HextileProcessing, connVars, rectVars, TileKeeps
  <2> DEFINE n == SubBytes(hex.sub)
  <2>2. SubrectBytes = n /\ n \in Nat
    BY DEF SubrectBytes, SubBytes, BYTES_PER_PIXEL
  <2>3. hex'.sub = hex.sub /\ hex'.n = hex.n - 1
    BY <1>1, <2>1
  <2> HIDE DEF n
  <2>4. Len(buf') = Len(buf) - n
    BY <1>1, <2>1, <2>2, ConsumeFront
  <2>5. o + n * hex.n = TileLength(t)
    BY <2>1 DEF InTile, n
  <2>6. n * hex.n = n * hex'.n + n
    BY <1>1, <2>2, <2>3
  <2>7. n * hex'.n \in Int
    BY <1>1, <2>2, <2>3
  <2>8. o2 + n * hex'.n = TileLength(t)
    BY <1>1, <2>2, <2>4, <2>5, <2>6, <2>7
  <2> QED
    BY <2>1, <2>3, <2>8 DEF InTile, n
<1>9. CASE HextileSubrectOverrun \/ HextileWaitSubrect
  <2>1. /\ hextileState' = hextileState /\ hex' = hex /\ interPixelCount' = interPixelCount
        /\ buf' = buf /\ TileKeeps
    BY <1>9 DEF HextileSubrectOverrun, HextileWaitSubrect, WaitForBytes, Return0, connVars,
       rectVars, tileVars, TileKeeps
  <2> QED
    BY <1>3, <2>1 DEF InTile
<1>10. CASE HextileBufferFilled
  <2>1. /\ hextileState = "FILLBUFFER" /\ hex.n = 0 /\ buf' = buf /\ TileKeeps
        /\ hextileState' = "DRAWTILE"
    BY <1>10 DEF HextileBufferFilled, HextileProcessing, connVars, rectVars, TileKeeps
  <2>2. SubBytes(hex.sub) \in Nat
    BY DEF SubBytes
  <2>3. o = TileLength(t)
    BY <2>1, <2>2 DEF InTile
  <2> QED
    BY <1>3, <2>1, <2>3 DEF InTile
<1>11. CASE HextileDrawTile \/ HextileSkipTile
  <2>1. hextileState = "DRAWTILE" /\ buf' = buf /\ TileKeeps /\ hextileState' = "DONE"
    BY <1>11 DEF HextileDrawTile, HextileSkipTile, HextileProcessing, connVars, rectVars, TileKeeps
  <2>2. o = TileLength(t)
    BY <2>1 DEF InTile
  <2> QED
    BY <1>3, <2>1, <2>2 DEF InTile
<1> QED
  BY <1>4, <1>5, <1>6, <1>7, <1>8, <1>9, <1>10, <1>11 DEF TileActions

-----------------------------------------------------------------------------
(* The tiles of a rectangle, in the order of the client's *)

\* The tiles along a side of n pixels.
Count(n) == (n + Tile - 1) \div Tile

\* They cover the side, and the last one is needed.
LEMMA CountCovers ==
    ASSUME NEW n \in Nat, n > 0
    PROVE  /\ Count(n) \in Nat /\ Count(n) >= 1
           /\ (Count(n) - 1) * Tile < n /\ n <= Count(n) * Tile
<1>1. Tile \in Nat /\ Tile >= 1
  BY TileAssumption
<1> DEFINE m == n + Tile - 1
           a == m \div Tile
<1>2. m \in Nat /\ m >= Tile /\ m - Tile < n /\ n + Tile = m + 1
  BY <1>1
<1> HIDE DEF m
<1>3. a \in Int /\ Tile * a <= m /\ m < Tile * a + Tile
  BY <1>1, <1>2
<1> HIDE DEF a
<1>4. a >= 1
  <2> SUFFICES ASSUME a <= 0 PROVE FALSE
    BY <1>3
  <2>1. Tile * a <= 0
    BY <1>1, <1>3
  <2> QED
    BY <1>1, <1>2, <1>3, <2>1
<1>5. (a - 1) * Tile = Tile * a - Tile /\ a * Tile = Tile * a /\ Tile * a \in Int
  BY <1>1, <1>3
<1>6. (a - 1) * Tile < n /\ n <= a * Tile
  BY <1>1, <1>2, <1>3, <1>5
<1> QED
  BY <1>3, <1>4, <1>6 DEF Count, a, m

\* The client cuts a side that starts at from into the tiles it has, each as
\* long as it is.
LEMMA SideCut ==
    ASSUME NEW from \in Nat, NEW n \in Nat, n > 0, from + n <= 32767,
           NEW i \in 0 .. Count(n) - 1
    PROVE  LET at == from + i * Tile
               side == Rfb!Side(n, i)
           IN  /\ at \in Nat /\ side \in 1..Tile
               /\ TileSide(at, from + n) = side
               /\ i = Count(n) - 1 => Uint(at + side) = from + n
               /\ i # Count(n) - 1 => /\ Uint(at + side) = from + (i + 1) * Tile
                                      /\ Uint(at + side) # from + n
                                      /\ i + 1 \in 0 .. Count(n) - 1
<1>1. Tile \in Nat /\ Tile >= 1 /\ Tile <= 16
  BY TileAssumption
<1> DEFINE k == i * Tile
           a == Count(n)
<1>2. a \in Nat /\ a >= 1 /\ (a - 1) * Tile < n /\ n <= a * Tile
  BY CountCovers
<1> HIDE DEF a
<1>3. i \in Int /\ 0 <= i /\ i <= a - 1
  BY <1>2 DEF a
<1>4. k \in Nat /\ (i + 1) * Tile = k + Tile
  BY <1>1, <1>3
<1>5. i = a - 1 => k < n /\ n <= k + Tile
  <2> SUFFICES ASSUME i = a - 1 PROVE k < n /\ n <= k + Tile
    OBVIOUS
  <2>1. a = i + 1 /\ (a - 1) * Tile = k
    BY <1>2, <1>3
  <2>2. a * Tile = (i + 1) * Tile
    BY <2>1
  <2> QED
    BY <1>2, <1>4, <2>1, <2>2
<1>6. i # a - 1 => k + Tile < n /\ i + 1 \in 0 .. a - 1
  <2> SUFFICES ASSUME i # a - 1 PROVE k + Tile < n /\ i + 1 \in 0 .. a - 1
    OBVIOUS
  <2>1. i + 1 \in 0 .. a - 1 /\ i + 1 <= a - 1
    BY <1>2, <1>3
  <2>2. (i + 1) * Tile <= (a - 1) * Tile /\ (a - 1) * Tile \in Int
    BY <1>1, <1>2, <1>3, <2>1
  <2> QED
    BY <1>1, <1>2, <1>4, <2>1, <2>2
<1> HIDE DEF k
<1> DEFINE side == IF n - k < Tile THEN n - k ELSE Tile
<1>7. Rfb!Side(n, i) = side
  BY DEF Rfb!Side, k
<1>8. k < n
  BY <1>1, <1>4, <1>5, <1>6
<1>9. side \in 1..Tile
  BY <1>1, <1>4, <1>8
<1>10. \A x \in Nat : x < 65536 => Uint(x) = x
  BY DEF Uint
<1>11. TileSide(from + k, from + n) = side
  <2>1. Uint((from + k) + Tile) = (from + k) + Tile
    <3>1. (from + k) + Tile \in Nat /\ (from + k) + Tile < 65536
      BY <1>1, <1>4, <1>8
    <3> QED
      BY <1>10, <3>1
  <2>2. CASE n - k < Tile
    <3>1. (from + n) - (from + k) = n - k /\ n - k \in Nat /\ n - k < 65536 /\ n - k < 256
      BY <1>1, <1>4, <1>8, <2>2
    <3>2. Uint((from + n) - (from + k)) = n - k
      BY <1>10, <3>1
    <3>3. (n - k) % 256 = n - k
      BY <3>1
    <3>4. from + n < (from + k) + Tile
      BY <1>1, <1>4, <2>2
    <3> QED
      BY <2>1, <2>2, <3>2, <3>3, <3>4 DEF TileSide
  <2>3. CASE ~(n - k < Tile)
    <3>1. ~(from + n < (from + k) + Tile)
      BY <1>1, <1>4, <2>3
    <3> QED
      BY <2>1, <2>3, <3>1 DEF TileSide
  <2> QED
    BY <2>2, <2>3
<1>12. i = a - 1 => Uint((from + k) + side) = from + n
  <2> SUFFICES ASSUME i = a - 1 PROVE Uint((from + k) + side) = from + n
    OBVIOUS
  <2>1. (from + k) + side = from + n
    BY <1>1, <1>4, <1>5
  <2>2. from + n \in Nat /\ from + n < 65536
    OBVIOUS
  <2> QED
    BY <1>10, <2>1, <2>2
<1>13. i # a - 1 => /\ Uint((from + k) + side) = from + (i + 1) * Tile
                    /\ Uint((from + k) + side) # from + n
  <2> SUFFICES ASSUME i # a - 1
               PROVE  /\ Uint((from + k) + side) = from + (i + 1) * Tile
                      /\ Uint((from + k) + side) # from + n
    OBVIOUS
  <2>1. (from + k) + side = from + (k + Tile) /\ k + Tile < n
    BY <1>1, <1>4, <1>6
  <2>2. from + (k + Tile) \in Nat /\ from + (k + Tile) < 65536
    BY <1>1, <1>4, <2>1
  <2>3. Uint((from + k) + side) = from + (k + Tile)
    BY <1>10, <2>1, <2>2
  <2> QED
    BY <1>1, <1>4, <2>1, <2>3
<1>14. from + k \in Nat
  BY <1>4
<1> HIDE DEF side
<1> QED
  BY <1>6, <1>7, <1>9, <1>11, <1>12, <1>13, <1>14 DEF k, a

\* Tiles are numbered row by row without a gap.
Numbered(r, a, d, col, row) ==
    LET n == Rfb!TileNumber(r, col, row)
    IN  /\ n \in 1 .. a * d
        /\ Rfb!TileNumber(r, col + 1, row) = n + 1
        /\ col = a - 1 => Rfb!TileNumber(r, 0, row + 1) = n + 1
        /\ col = a - 1 /\ row = d - 1 => n = a * d

\* Tiles are numbered row by row.
LEMMA TileNumbers ==
    ASSUME NEW r, NEW a \in Nat, NEW d \in Nat, Rfb!TilesAcross(r) = a,
           NEW col \in 0 .. a - 1, NEW row \in 0 .. d - 1
    PROVE  Numbered(r, a, d, col, row)
<1> DEFINE k == row * a
<1>1. col \in Int /\ 0 <= col /\ col <= a - 1 /\ row \in Int /\ 0 <= row /\ row <= d - 1
  OBVIOUS
<1>2. k \in Nat /\ (row + 1) * a = k + a
  BY <1>1
<1>3. (row + 1) * a <= a * d /\ a * d \in Nat
  <2>1. row + 1 <= d /\ row + 1 \in Nat
    BY <1>1
  <2> QED
    BY <2>1
<1>4. row = d - 1 => k + a = a * d
  <2>1. row = d - 1 => row + 1 = d
    BY <1>1
  <2> QED
    BY <1>2, <2>1
<1> HIDE DEF k
<1>5. /\ Rfb!TileNumber(r, col, row) = 1 + k + col
      /\ Rfb!TileNumber(r, col + 1, row) = 1 + k + (col + 1)
      /\ Rfb!TileNumber(r, 0, row + 1) = 1 + (k + a) + 0
  BY <1>2 DEF Rfb!TileNumber, k
<1>6. 1 + k + col \in 1 .. a * d
  BY <1>1, <1>2, <1>3
<1> QED
  BY <1>1, <1>2, <1>4, <1>5, <1>6 DEF Numbered

\* The client is at the tile in column col and row row of rectangle r.
TileIs(r, col, row) ==
    tile = [x |-> r.x + col * Tile, y |-> r.y + row * Tile,
            w |-> Rfb!Side(r.w, col), h |-> Rfb!Side(r.h, row)]

\* The numbers and the places of a tile and of the one behind it.
LEMMA TileInRect ==
    ASSUME NEW r \in Rfb!Rectangles, Rfb!WellFormedRectangle(r), r.enc = 5,
           NEW col \in 0 .. Count(r.w) - 1, NEW row \in 0 .. Count(r.h) - 1
    PROVE  LET n == Rfb!TileNumber(r, col, row)
           IN  /\ n \in 1..Len(r.tiles)
               /\ Rfb!TileNumber(r, col + 1, row) = n + 1
               /\ col = Count(r.w) - 1 => Rfb!TileNumber(r, 0, row + 1) = n + 1
               /\ col = Count(r.w) - 1 /\ row = Count(r.h) - 1 => n = Len(r.tiles)
               /\ r.tiles[n] \in Rfb!Tiles /\ Rfb!WellFormedTile(r.tiles[n])
               /\ TileIs(r, col, row) => SameSize(r.tiles[n])
<1> DEFINE n == Rfb!TileNumber(r, col, row)
           a == Count(r.w)
           d == Count(r.h)
<1>0. /\ r.x \in Nat /\ r.y \in Nat /\ r.w \in Nat /\ r.h \in Nat
      /\ \A m \in 1..Len(r.tiles) : r.tiles[m] \in Rfb!Tiles
  BY RectTypes
<1>1. /\ r.w > 0 /\ r.h > 0 /\ r.x + r.w <= 32767 /\ r.y + r.h <= 32767
      /\ \A m \in 1..Len(r.tiles) : Rfb!WellFormedTile(r.tiles[m])
  BY DEF Rfb!WellFormedRectangle
<1>2. a \in Nat /\ d \in Nat
  <2>1. \A m \in Nat : m > 0 => Count(m) \in Nat
    BY CountCovers
  <2> QED
    BY <1>0, <1>1, <2>1
<1>3. Rfb!TilesAcross(r) = a /\ Rfb!TilesDown(r) = d
  BY DEF Rfb!TilesAcross, Rfb!TilesDown, Count
<1>4. Len(r.tiles) = a * d
  BY <1>3 DEF Rfb!WellFormedRectangle
<1>5. LET raw == r.tiles[n].raw
      IN  raw # <<>> => Len(raw) = Rfb!Side(r.w, col) * Rfb!Side(r.h, row)
  BY <1>3 DEF Rfb!WellFormedRectangle
<1> HIDE DEF a, d
<1>6. col \in 0 .. a - 1 /\ row \in 0 .. d - 1
  BY DEF a, d
<1>7. /\ n \in 1 .. a * d
      /\ Rfb!TileNumber(r, col + 1, row) = n + 1
      /\ col = a - 1 => Rfb!TileNumber(r, 0, row + 1) = n + 1
      /\ col = a - 1 /\ row = d - 1 => n = a * d
  <2>1. Numbered(r, a, d, col, row)
    BY <1>2, <1>3, <1>6, TileNumbers, Zenon
  <2> QED
    BY <2>1 DEF Numbered
<1> HIDE DEF n
<1>8. n \in 1..Len(r.tiles)
  BY <1>4, <1>7
<1>9. TileIs(r, col, row) => SameSize(r.tiles[n])
  <2> SUFFICES ASSUME TileIs(r, col, row) PROVE SameSize(r.tiles[n])
    OBVIOUS
  <2>1. tile.w = Rfb!Side(r.w, col) /\ tile.h = Rfb!Side(r.h, row)
    BY DEF TileIs
  <2>2. Rfb!Side(r.w, col) \in 1..Tile
    <3>1. r.x \in Nat /\ r.w \in Nat /\ r.w > 0 /\ r.x + r.w <= 32767
          /\ col \in 0 .. Count(r.w) - 1
      BY <1>0, <1>1
    <3> QED
      BY <3>1, SideCut, SMTT(30)
  <2>3. Rfb!Side(r.h, row) \in 1..Tile
    <3>1. r.y \in Nat /\ r.h \in Nat /\ r.h > 0 /\ r.y + r.h <= 32767
          /\ row \in 0 .. Count(r.h) - 1
      BY <1>0, <1>1
    <3> QED
      BY <3>1, SideCut, SMTT(30)
  <2>4. tile.w <= Tile /\ tile.h <= Tile
    BY <2>1, <2>2, <2>3, TileAssumption
  <2> QED
    BY <1>5, <2>1, <2>4 DEF SameSize
<1> QED
  BY <1>0, <1>1, <1>4, <1>7, <1>8, <1>9 DEF n, a, d

-----------------------------------------------------------------------------
(* The pictures of Rfb *)

\* A picture of the display's size.
IsPicture(pic) == pic = [p \in Pixels |-> pic[p]]

\* What the client makes of rectangle r: it draws those pixels that it draws at
\* all, and leaves the others.
Decoded(pic, r) ==
    [p \in DOMAIN pic |->
       IF Rfb!Inside(r, p) /\ Draws(r, p) THEN Rfb!HextileColour(r, p) ELSE pic[p]]

\* The pictures before and after each rectangle of an update.
ArePictures(f, pic, u, n) ==
    f = [i \in 0..n |-> IF i = 0 THEN pic
                        ELSE Decoded(f[i - 1], u[i])]

\* There are such pictures for every number of rectangles.
LEMMA PicturesExist ==
    ASSUME NEW pic, NEW u
    PROVE  \A n \in Nat : \E f : ArePictures(f, pic, u, n)
<1> DEFINE S == {n \in Int : \E f : ArePictures(f, pic, u, n)}
<1>1. 0 \in S
  <2> DEFINE f == [i \in 0..0 |-> pic]
  <2>1. ArePictures(f, pic, u, 0)
    BY DEF ArePictures
  <2> QED
    BY <2>1
<1>2. ASSUME NEW n \in Int, n >= 0, n \in S PROVE n + 1 \in S
  <2>1. PICK f : ArePictures(f, pic, u, n)
    BY <1>2
  <2> DEFINE next == Decoded(f[n], u[n + 1])
             g == [i \in 0..n + 1 |-> IF i = n + 1 THEN next ELSE f[i]]
             h == [i \in 0..n + 1 |-> IF i = 0 THEN pic
                      ELSE Decoded(g[i - 1], u[i])]
  <2>2. \A i \in 0..n : f[i] = IF i = 0 THEN pic
                        ELSE Decoded(f[i - 1], u[i])
    BY <2>1 DEF ArePictures
  <2>3. \A i \in 0..n : g[i] = f[i]
    <3> HIDE DEF next
    <3> QED
      BY <1>2
  <2>4. g[n + 1] = next
    BY <1>2
  <2>5. ASSUME NEW i \in 0..n + 1 PROVE g[i] = h[i]
    <3>1. CASE i = n + 1
      <4>1. (n + 1) - 1 = n /\ n \in 0..n /\ n + 1 # 0
        BY <1>2
      <4>2. g[(n + 1) - 1] = f[n]
        BY <2>3, <4>1
      <4> HIDE DEF g
      <4>3. h[i] = Decoded(g[(n + 1) - 1], u[n + 1])
        BY <3>1, <4>1
      <4> QED
        BY <2>4, <3>1, <4>2, <4>3
    <3>2. CASE i # n + 1
      <4>1. i \in 0..n /\ (i = 0 \/ i - 1 \in 0..n)
        BY <1>2, <3>2
      <4> HIDE DEF g
      <4> QED
        BY <2>2, <2>3, <4>1
    <3> QED
      BY <3>1, <3>2
  <2>6. ArePictures(g, pic, u, n + 1)
    <3>1. g = [i \in 0..n + 1 |-> g[i]] /\ h = [i \in 0..n + 1 |-> h[i]]
      OBVIOUS
    <3> HIDE DEF g, h
    <3>2. g = h
      BY <2>5, <3>1
    <3> QED
      BY <3>2 DEF ArePictures, h
  <2> HIDE DEF g
  <2> QED
    BY <1>2, <2>6
<1> HIDE DEF S
<1>3. \A n \in Int : n >= 0 => n \in S
  BY <1>1, <1>2, Induction
<1> QED
  BY <1>3 DEF S

\* What the client makes of an update, rectangle by rectangle.
After(pic, u) ==
    LET after[i \in 0..Len(u)] == IF i = 0 THEN pic ELSE Decoded(after[i - 1], u[i])
    IN after
AfterUpdate(pic, u) == After(pic, u)[Len(u)]

\* So the pictures are what their recursion says.
LEMMA PicturesAre ==
    ASSUME NEW pic, NEW u, Len(u) \in Nat
    PROVE  /\ After(pic, u)[0] = pic
           /\ \A i \in 1..Len(u) :
                After(pic, u)[i]
                  = Decoded(After(pic, u)[i - 1], u[i])
           /\ AfterUpdate(pic, u) = After(pic, u)[Len(u)]
<1>1. \E f : ArePictures(f, pic, u, Len(u))
  BY PicturesExist
<1>2. After(pic, u) = CHOOSE f : ArePictures(f, pic, u, Len(u))
  BY DEF After, ArePictures
<1>3. ArePictures(After(pic, u), pic, u, Len(u))
  BY <1>1, <1>2
<1> DEFINE g == After(pic, u)
<1> HIDE DEF g
<1>4. \A i \in 0..Len(u) : g[i] = IF i = 0 THEN pic
                        ELSE Decoded(g[i - 1], u[i])
  BY <1>3 DEF ArePictures, g
<1>5. 0 \in 0..Len(u) /\ \A i \in 1..Len(u) : i \in 0..Len(u) /\ i # 0
  OBVIOUS
<1>6. g[0] = pic /\ \A i \in 1..Len(u) : 
          g[i] = Decoded(g[i - 1], u[i])
  BY <1>4, <1>5
<1> QED
  BY <1>6 DEF g, After, AfterUpdate

-----------------------------------------------------------------------------
(* Where a pixel is in a rectangle *)

\* Position x on a side of n pixels from position from on is in tile i of that
\* side.
OnSide(from, n, i, x) == x \in from .. from + n - 1 /\ (x - from) \div Tile = i

SidePlaced(from, n, i, x) ==
    LET at == from + i * Tile
        side == Rfb!Side(n, i)
    IN  /\ OnSide(from, n, i, x) <=> x \in at .. at + side - 1
        /\ OnSide(from, n, i, x) => (x - from) % Tile = x - at

\* The tile of a position, and the position in the tile.
LEMMA SidePlace ==
    ASSUME NEW from \in Nat, NEW n \in Nat, NEW i \in Nat, NEW x \in Int
    PROVE  SidePlaced(from, n, i, x)
<1>1. Tile \in Nat /\ Tile >= 1
  BY TileAssumption
<1> DEFINE k == i * Tile
           y == x - from
           side == IF n - k < Tile THEN n - k ELSE Tile
<1>2. k \in Nat /\ y \in Int /\ x = from + y
  BY <1>1
<1>3. Rfb!Side(n, i) = side
  BY DEF Rfb!Side
<1>4. y \div Tile \in Int /\ y % Tile \in Int /\ 0 <= y % Tile /\ y % Tile < Tile
      /\ y = Tile * (y \div Tile) + (y % Tile)
  BY <1>1, <1>2
<1>5. y \div Tile = i <=> (k <= y /\ y < k + Tile)
  <2> DEFINE d == y \div Tile  m == y % Tile
  <2>0. d \in Int /\ m \in Int /\ 0 <= m /\ m < Tile /\ y = Tile * d + m
    BY <1>4
  <2> HIDE DEF d, m, y, k
  <2>1. ASSUME d = i PROVE k <= y /\ y < k + Tile
    <3>1. Tile * d = k
      BY <1>1, <2>1 DEF k
    <3> QED
      BY <1>1, <1>2, <2>0, <3>1
  <2>2. ASSUME d < i PROVE y < k
    <3>1. Tile * d <= Tile * (i - 1)
      BY <1>1, <2>0, <2>2
    <3>2. Tile * (i - 1) = k - Tile /\ Tile * d \in Int
      BY <1>1, <2>0 DEF k
    <3> QED
      BY <1>1, <1>2, <2>0, <3>1, <3>2
  <2>3. ASSUME d > i PROVE y >= k + Tile
    <3>1. Tile * (i + 1) <= Tile * d
      BY <1>1, <2>0, <2>3
    <3>2. Tile * (i + 1) = k + Tile /\ Tile * d \in Int
      BY <1>1, <2>0 DEF k
    <3> QED
      BY <1>1, <1>2, <2>0, <3>1, <3>2
  <2>4. d = i <=> (k <= y /\ y < k + Tile)
    BY <1>1, <1>2, <2>0, <2>1, <2>2, <2>3
  <2> QED
    BY <2>4 DEF d
<1>6. y \div Tile = i => y % Tile = y - k
  <2>1. Tile * i = k
    BY <1>1
  <2> HIDE DEF k, y
  <2> QED
    BY <1>1, <1>2, <1>4, <2>1
<1>7. x - (from + k) = y - k
  BY <1>2
<1>8. OnSide(from, n, i, x) <=> x \in (from + k) .. (from + k) + side - 1
  <2>1. OnSide(from, n, i, x) <=> 0 <= y /\ y < n /\ y \div Tile = i
    BY DEF OnSide
  <2>2. x \in (from + k) .. (from + k) + side - 1 <=> k <= y /\ y < k + side
    <3> HIDE DEF k
    <3>1. side \in Int
      BY <1>1, <1>2
    <3> HIDE DEF side
    <3> QED
      BY <1>2, <3>1
  <2>3. k <= y /\ y < k + side <=> 0 <= y /\ y < n /\ k <= y /\ y < k + Tile
    <3> HIDE DEF k, y
    <3> QED
      BY <1>1, <1>2
  <2> QED
    BY <1>5, <2>1, <2>2, <2>3
<1>9. OnSide(from, n, i, x) => y % Tile = x - (from + k)
  BY <1>6, <1>7 DEF OnSide
<1> HIDE DEF side
<1> QED
  BY <1>3, <1>8, <1>9 DEF SidePlaced

\* A position on the side is in one of its tiles.
LEMMA SideTile ==
    ASSUME NEW from \in Nat, NEW n \in Nat, NEW x \in from .. from + n - 1
    PROVE  (x - from) \div Tile \in 0 .. Count(n) - 1
<1>1. Tile \in Nat /\ Tile >= 1 /\ n > 0
  BY TileAssumption
<1> DEFINE y == x - from
           d == y \div Tile
           a == Count(n)
<1>2. a \in Nat /\ a >= 1 /\ n <= a * Tile
  BY <1>1, CountCovers
<1>3. y \in Nat /\ y < n
  BY <1>1
<1>4. d \in Int /\ Tile * d <= y /\ y < Tile * d + Tile
  BY <1>1, <1>3
<1> HIDE DEF y, d, a
<1>5. d >= 0
  <2> SUFFICES ASSUME d <= -1 PROVE FALSE
    BY <1>4
  <2>1. Tile * d <= Tile * (-1)
    BY <1>1, <1>4
  <2> QED
    BY <1>1, <1>3, <1>4, <2>1
<1>6. d < a
  <2> SUFFICES ASSUME d >= a PROVE FALSE
    BY <1>2, <1>4
  <2>1. Tile * a <= Tile * d
    BY <1>1, <1>2, <1>4
  <2>2. Tile * a = a * Tile /\ Tile * a \in Int /\ Tile * d \in Int
    BY <1>1, <1>2, <1>4
  <2> QED
    BY <1>2, <1>3, <1>4, <2>1, <2>2
<1> QED
  BY <1>2, <1>4, <1>5, <1>6 DEF y, d, a

\* Two tiles have different numbers.
LEMMA NumberTells ==
    ASSUME NEW a \in Nat, NEW i \in 0 .. a - 1, NEW j \in 0 .. a - 1, NEW m \in Int, NEW n \in Int,
           m * a + i = n * a + j
    PROVE  m = n /\ i = j
<1>1. i \in Int /\ j \in Int /\ i - j < a /\ j - i < a /\ a > 0
  OBVIOUS
<1>2. (m - n) * a = j - i
  BY <1>1
<1>3. m - n \in Int /\ ~(m - n >= 1) /\ ~(m - n <= -1)
  <2> DEFINE k == m - n
  <2>1. k \in Int /\ k * a = j - i
    BY <1>2
  <2> HIDE DEF k
  <2>2. k >= 1 => k * a >= a
    BY <1>1, <2>1
  <2>3. k <= -1 => k * a <= -a
    BY <1>1, <2>1
  <2>4. ~(k >= 1) /\ ~(k <= -1)
    BY <1>1, <2>1, <2>2, <2>3
  <2> QED
    BY <2>1, <2>4 DEF k
<1>4. m = n
  BY <1>3
<1> QED
  BY <1>1, <1>2, <1>4

\* Pixel p is in the rectangle; it is in the tile in column col and row row.
InWindow(r, p) == p[1] \in r.x .. r.x + r.w - 1 /\ p[2] \in r.y .. r.y + r.h - 1
Left(r, col) == r.x + col * Tile
Top(r, row) == r.y + row * Tile
InBox(r, col, row, p) ==
    /\ p[1] \in Left(r, col) .. Left(r, col) + Rfb!Side(r.w, col) - 1
    /\ p[2] \in Top(r, row) .. Top(r, row) + Rfb!Side(r.h, row) - 1

\* The tile lies wholly in the display.
BoxFits(r, col, row) ==
    /\ Left(r, col) + Rfb!Side(r.w, col) <= SCREEN_WIDTH
    /\ Top(r, row) + Rfb!Side(r.h, row) <= SCREEN_HEIGHT

Shows(r, p) == InWindow(r, p) /\ TileFits(r, p)

\* What Rfb says of a pixel, in terms of a tile.
PixelAt(r, col, row, p) ==
    /\ InBox(r, col, row, p) <=> InWindow(r, p) /\ Rfb!TileOf(r, p) = Rfb!TileNumber(r, col, row)
    /\ InBox(r, col, row, p) =>
         /\ Rfb!InTile(r, p) = <<p[1] - Left(r, col), p[2] - Top(r, row)>>
         /\ Shows(r, p) <=> BoxFits(r, col, row)

\* The pixels of a tile are those that Rfb has in it.
LEMMA PixelPlace ==
    ASSUME NEW r \in Rfb!Rectangles, r.w > 0, r.h > 0,
           NEW col \in 0 .. Count(r.w) - 1, NEW row \in 0 .. Count(r.h) - 1, NEW p \in Pixels
    PROVE  PixelAt(r, col, row, p)
<1>1. r.x \in Nat /\ r.y \in Nat /\ r.w \in Nat /\ r.h \in Nat /\ Tile \in Nat /\ Tile >= 1
  BY RectTypes, TileAssumption
<1>2. p[1] \in Int /\ p[2] \in Int
  BY ScreenAssumption DEF Pixels
<1> DEFINE a == Count(r.w)
           i == (p[1] - r.x) \div Tile
           j == (p[2] - r.y) \div Tile
<1>3. a \in Nat /\ Count(r.h) \in Nat
  BY <1>1, CountCovers
<1>4. col \in Nat /\ row \in Nat /\ col \in 0 .. a - 1
  BY <1>3
<1>5. /\ OnSide(r.x, r.w, col, p[1]) <=> p[1] \in Left(r, col) .. Left(r, col) + Rfb!Side(r.w, col) - 1
      /\ OnSide(r.x, r.w, col, p[1]) => (p[1] - r.x) % Tile = p[1] - Left(r, col)
  <2>1. SidePlaced(r.x, r.w, col, p[1])
    BY <1>1, <1>2, <1>4, SidePlace, Zenon
  <2> QED
    BY <2>1 DEF SidePlaced, Left
<1>6. /\ OnSide(r.y, r.h, row, p[2]) <=> p[2] \in Top(r, row) .. Top(r, row) + Rfb!Side(r.h, row) - 1
      /\ OnSide(r.y, r.h, row, p[2]) => (p[2] - r.y) % Tile = p[2] - Top(r, row)
  <2>1. SidePlaced(r.y, r.h, row, p[2])
    BY <1>1, <1>2, <1>4, SidePlace, Zenon
  <2> QED
    BY <2>1 DEF SidePlaced, Top
<1>7. InBox(r, col, row, p) <=> OnSide(r.x, r.w, col, p[1]) /\ OnSide(r.y, r.h, row, p[2])
  BY <1>5, <1>6 DEF InBox
<1>8. InBox(r, col, row, p) <=> InWindow(r, p) /\ i = col /\ j = row
  BY <1>7 DEF OnSide, InWindow
<1>9. Rfb!TileOf(r, p) = 1 + j * a + i /\ Rfb!TileNumber(r, col, row) = 1 + row * a + col
  BY DEF Rfb!TileOf, Rfb!TileNumber, Rfb!TilesAcross, Count
<1>10. ASSUME InWindow(r, p), 1 + j * a + i = 1 + row * a + col
       PROVE  i = col /\ j = row
  <2>1. i \in 0 .. a - 1 /\ j \in Int
    <3>1. p[1] \in r.x .. r.x + r.w - 1 /\ p[2] \in r.y .. r.y + r.h - 1
      BY <1>10 DEF InWindow
    <3>2. i \in 0 .. a - 1
      BY <1>1, <3>1, SideTile, Zenon
    <3> QED
      BY <1>1, <1>2, <3>2
  <2> HIDE DEF i, j, a
  <2>2. j * a \in Int /\ row * a \in Int
    BY <1>3, <1>4, <2>1
  <2>3. j * a + i = row * a + col
    BY <1>3, <1>4, <1>10, <2>1, <2>2
  <2> QED
    BY <1>3, <1>4, <2>1, <2>3, NumberTells
<1>11. InBox(r, col, row, p) <=> InWindow(r, p) /\ Rfb!TileOf(r, p) = Rfb!TileNumber(r, col, row)
  <2> HIDE DEF i, j, a
  <2> QED
    BY <1>8, <1>9, <1>10
<1>12. ASSUME InBox(r, col, row, p)
       PROVE  /\ Rfb!InTile(r, p) = <<p[1] - Left(r, col), p[2] - Top(r, row)>>
              /\ Shows(r, p) <=> BoxFits(r, col, row)
  <2>1. Rfb!InTile(r, p) = <<p[1] - Left(r, col), p[2] - Top(r, row)>>
    BY <1>5, <1>6, <1>7, <1>12 DEF Rfb!InTile
  <2> DEFINE l == Left(r, col)
             t == Top(r, row)
             W == SCREEN_WIDTH
             H == SCREEN_HEIGHT
  <2>2. l \in Nat /\ t \in Nat /\ W \in Nat /\ H \in Nat
    BY <1>1, <1>4, ScreenAssumption DEF Left, Top
  <2>3. TileFits(r, p) <=>
          /\ p[1] - (p[1] - l) + Tile <= W \/ r.x + r.w <= W
          /\ p[2] - (p[2] - t) + Tile <= H \/ r.y + r.h <= H
    BY <2>1 DEF TileFits
  <2>4. BoxFits(r, col, row) <=>
          /\ l + (IF r.w - col * Tile < Tile THEN r.w - col * Tile ELSE Tile) <= W
          /\ t + (IF r.h - row * Tile < Tile THEN r.h - row * Tile ELSE Tile) <= H
    BY DEF BoxFits, Rfb!Side
  <2>5. col * Tile \in Nat /\ row * Tile \in Nat /\ l = r.x + col * Tile /\ t = r.y + row * Tile
    BY <1>1, <1>4 DEF Left, Top
  <2> HIDE DEF l, t, W, H
  <2>6. p[1] - (p[1] - l) = l /\ p[2] - (p[2] - t) = t
    BY <1>2, <2>2
  <2>7. /\ l + Tile <= W \/ r.x + r.w <= W
           <=> l + (IF r.w - col * Tile < Tile THEN r.w - col * Tile ELSE Tile) <= W
        /\ t + Tile <= H \/ r.y + r.h <= H
           <=> t + (IF r.h - row * Tile < Tile THEN r.h - row * Tile ELSE Tile) <= H
    BY <1>1, <2>2, <2>5
  <2>8. InWindow(r, p)
    BY <1>11, <1>12
  <2> QED
    BY <2>1, <2>3, <2>4, <2>6, <2>7, <2>8 DEF Shows, W, H
<1> QED
  BY <1>11, <1>12 DEF PixelAt

\* Every pixel of a rectangle is in one of its tiles.
LEMMA WindowTile ==
    ASSUME NEW r \in Rfb!Rectangles, Rfb!WellFormedRectangle(r), r.enc = 5, NEW p \in Pixels,
           InWindow(r, p)
    PROVE  Rfb!TileOf(r, p) \in 1..Len(r.tiles)
<1>1. r.x \in Nat /\ r.y \in Nat /\ r.w \in Nat /\ r.h \in Nat
  BY RectTypes
<1> DEFINE i == (p[1] - r.x) \div Tile
           j == (p[2] - r.y) \div Tile
<1>2. p[1] \in r.x .. r.x + r.w - 1 /\ p[2] \in r.y .. r.y + r.h - 1
  BY DEF InWindow
<1>3. i \in 0 .. Count(r.w) - 1
  BY <1>1, <1>2, SideTile, Zenon
<1>4. j \in 0 .. Count(r.h) - 1
  BY <1>1, <1>2, SideTile, Zenon
<1>5. Rfb!TileOf(r, p) = Rfb!TileNumber(r, i, j)
  BY DEF Rfb!TileOf, Rfb!TileNumber
<1> HIDE DEF i, j
<1>6. Rfb!TileNumber(r, i, j) \in 1..Len(r.tiles)
  BY <1>3, <1>4, TileInRect
<1> QED
  BY <1>5, <1>6

\* The picture after the first n tiles of a rectangle.
UpTo(pic, r, n) ==
    [p \in Pixels |-> IF Shows(r, p) /\ Rfb!TileOf(r, p) <= n
                        THEN Rfb!HextileColour(r, p) ELSE pic[p]]

\* Before the first one nothing has changed.
LEMMA UpToNone ==
    ASSUME NEW r \in Rfb!Rectangles, Rfb!WellFormedRectangle(r), r.enc = 5,
           NEW pic, IsPicture(pic)
    PROVE  UpTo(pic, r, 0) = pic
<1>1. ASSUME NEW p \in Pixels PROVE ~(Shows(r, p) /\ Rfb!TileOf(r, p) <= 0)
  <2>1. InWindow(r, p) => Rfb!TileOf(r, p) \in 1..Len(r.tiles)
    BY WindowTile
  <2> QED
    BY <2>1 DEF Shows
<1>2. UpTo(pic, r, 0) = [p \in Pixels |-> pic[p]]
  BY <1>1 DEF UpTo
<1> QED
  BY <1>2 DEF IsPicture

\* After the last one it is the picture after the rectangle.
LEMMA UpToAll ==
    ASSUME NEW r \in Rfb!Rectangles, Rfb!WellFormedRectangle(r), r.enc = 5,
           NEW pic, IsPicture(pic)
    PROVE  UpTo(pic, r, Len(r.tiles)) = Decoded(pic, r)
<1>1. ASSUME NEW p \in Pixels PROVE Shows(r, p) => Rfb!TileOf(r, p) <= Len(r.tiles)
  <2>1. InWindow(r, p) => Rfb!TileOf(r, p) \in 1..Len(r.tiles)
    BY WindowTile
  <2>2. Len(r.tiles) \in Nat
    BY RectTypes
  <2> QED
    BY <2>1, <2>2 DEF Shows
<1>2. DOMAIN pic = Pixels
  BY DEF IsPicture
<1>3. Decoded(pic, r)
        = [p \in Pixels |-> IF Shows(r, p) THEN Rfb!HextileColour(r, p) ELSE pic[p]]
  BY <1>2 DEF Decoded, Draws, Rfb!Inside, Shows, InWindow
<1> QED
  BY <1>1, <1>3 DEF UpTo

\* A rectangle that is not drawn changes nothing.
LEMMA PaintedNothing ==
    ASSUME NEW r, r.enc # 5, NEW pic, IsPicture(pic)
    PROVE  Decoded(pic, r) = pic
<1>1. DOMAIN pic = Pixels
  BY DEF IsPicture
<1>2. Decoded(pic, r) = [p \in Pixels |-> pic[p]]
  BY <1>1 DEF Decoded, Draws
<1> QED
  BY <1>2 DEF IsPicture

\* One tile more: it replaces what was in its place, if it fits in the display.
LEMMA UpToNext ==
    ASSUME NEW r \in Rfb!Rectangles, Rfb!WellFormedRectangle(r), r.enc = 5,
           NEW col \in 0 .. Count(r.w) - 1, NEW row \in 0 .. Count(r.h) - 1, NEW pic,
           NEW n, n = Rfb!TileNumber(r, col, row)
    PROVE  UpTo(pic, r, n)
             = [p \in Pixels |-> IF InBox(r, col, row, p) /\ BoxFits(r, col, row)
                                   THEN Rfb!HextileColour(r, p) ELSE UpTo(pic, r, n - 1)[p]]
<1>1. r.w > 0 /\ r.h > 0
  BY DEF Rfb!WellFormedRectangle
<1>2. n \in 1..Len(r.tiles) /\ Len(r.tiles) \in Nat
  BY TileInRect, RectTypes
<1>3. ASSUME NEW p \in Pixels
      PROVE  (IF Shows(r, p) /\ Rfb!TileOf(r, p) <= n THEN Rfb!HextileColour(r, p) ELSE pic[p])
               = IF InBox(r, col, row, p) /\ BoxFits(r, col, row)
                   THEN Rfb!HextileColour(r, p)
                   ELSE IF Shows(r, p) /\ Rfb!TileOf(r, p) <= n - 1
                          THEN Rfb!HextileColour(r, p) ELSE pic[p]
  <2>1. PixelAt(r, col, row, p)
    BY <1>1, PixelPlace
  <2>2. InWindow(r, p) => Rfb!TileOf(r, p) \in 1..Len(r.tiles)
    BY WindowTile
  <2>3. CASE InBox(r, col, row, p)
    <3>1. Rfb!TileOf(r, p) = n /\ (Shows(r, p) <=> BoxFits(r, col, row))
      BY <2>1, <2>3 DEF PixelAt
    <3>2. n <= n /\ ~(n <= n - 1)
      BY <1>2
    <3> QED
      BY <2>3, <3>1, <3>2
  <2>4. CASE ~InBox(r, col, row, p)
    <3>1. InWindow(r, p) => Rfb!TileOf(r, p) # n
      BY <2>1, <2>4 DEF PixelAt
    <3>2. InWindow(r, p) => (Rfb!TileOf(r, p) <= n <=> Rfb!TileOf(r, p) <= n - 1)
      BY <1>2, <2>2, <3>1
    <3> QED
      BY <2>4, <3>2 DEF Shows
  <2> QED
    BY <2>3, <2>4
<1>4. \A p \in Pixels : UpTo(pic, r, n - 1)[p] = IF Shows(r, p) /\ Rfb!TileOf(r, p) <= n - 1
                          THEN Rfb!HextileColour(r, p) ELSE pic[p]
  BY DEF UpTo
<1> QED
  BY <1>3, <1>4 DEF UpTo

-----------------------------------------------------------------------------
(* The colours of a tile *)

\* The last of the first k tiles that gives a colour is the k-th one, if it
\* does, or the last one before.
LEMMA LastGivenNext ==
    ASSUME NEW r, NEW k \in Nat, NEW f
    PROVE  /\ r.tiles[k + 1][f] # Rfb!None => Rfb!LastGiven(r, k + 1, f) = r.tiles[k + 1][f]
           /\ r.tiles[k + 1][f] = Rfb!None => /\ Rfb!LastGiven(r, k + 1, f) = Rfb!LastGiven(r, k, f)
                                              /\ Rfb!Given(r, k + 1, f) <=> Rfb!Given(r, k, f)
<1> DEFINE given(m) == {i \in 1..m : r.tiles[i][f] # Rfb!None}
           last(m) == CHOOSE i \in given(m) : \A j \in given(m) : j <= i
<1>1. ASSUME NEW m \in Nat PROVE Rfb!LastGiven(r, m, f) = r.tiles[last(m)][f]
  BY DEF Rfb!LastGiven
<1>2. ASSUME r.tiles[k + 1][f] # Rfb!None PROVE last(k + 1) = k + 1
  <2>1. k + 1 \in given(k + 1) /\ \A j \in given(k + 1) : j \in Int /\ j <= k + 1
    BY <1>2
  <2> DEFINE G == given(k + 1)
             l == CHOOSE i \in G : \A j \in G : j <= i
  <2> HIDE DEF G
  <2>2. l \in G /\ \A j \in G : j <= l
    BY <2>1 DEF G
  <2>3. l = k + 1
    BY <2>1, <2>2 DEF G
  <2> QED
    BY <2>3 DEF G
<1>3. ASSUME r.tiles[k + 1][f] = Rfb!None PROVE given(k + 1) = given(k)
  <2>1. \A i \in 1..k + 1 : i \in 1..k \/ i = k + 1
    OBVIOUS
  <2>2. \A i \in 1..k : i \in 1..k + 1
    OBVIOUS
  <2> QED
    BY <1>3, <2>1, <2>2
<1>4. ASSUME NEW m \in Nat PROVE Rfb!Given(r, m, f) <=> given(m) # {}
  BY DEF Rfb!Given
<1>5. k + 1 \in Nat
  OBVIOUS
<1>6. r.tiles[k + 1][f] # Rfb!None => Rfb!LastGiven(r, k + 1, f) = r.tiles[k + 1][f]
  <2> HIDE DEF given
  <2> QED
    BY <1>1, <1>2, <1>5
<1>7. r.tiles[k + 1][f] = Rfb!None => /\ Rfb!LastGiven(r, k + 1, f) = Rfb!LastGiven(r, k, f)
                                      /\ Rfb!Given(r, k + 1, f) <=> Rfb!Given(r, k, f)
  <2> HIDE DEF given
  <2> QED
    BY <1>1, <1>3, <1>4, <1>5
<1> QED
  BY <1>6, <1>7

\* What place q of tile n has after the first m subrectangles.
SubColour(r, n, q, m) ==
    LET t == r.tiles[n]
        over == {i \in 1..m : Rfb!Covers(t.subs[i], q)}
        top == CHOOSE i \in over : \A j \in over : j <= i
    IN IF over = {} THEN Rfb!LastGiven(r, n, "bg")
       ELSE IF t.coloured THEN t.subs[top].c ELSE Rfb!LastGiven(r, n, "fg")

\* None of them leaves the background.
LEMMA SubColourNone ==
    ASSUME NEW r, NEW n, NEW q
    PROVE  SubColour(r, n, q, 0) = Rfb!LastGiven(r, n, "bg")
<1>1. {i \in 1..0 : Rfb!Covers(r.tiles[n].subs[i], q)} = {}
  OBVIOUS
<1> QED
  BY <1>1 DEF SubColour

\* The colour of a subrectangle.
OwnColour(r, n, m) ==
    IF r.tiles[n].coloured THEN r.tiles[n].subs[m].c ELSE Rfb!LastGiven(r, n, "fg")

\* A subrectangle covers those before it.
LEMMA SubColourNext ==
    ASSUME NEW r, NEW n, NEW q, NEW m \in Nat
    PROVE  SubColour(r, n, q, m + 1)
             = IF Rfb!Covers(r.tiles[n].subs[m + 1], q) THEN OwnColour(r, n, m + 1)
               ELSE SubColour(r, n, q, m)
<1> DEFINE over(k) == {i \in 1..k : Rfb!Covers(r.tiles[n].subs[i], q)}
           top(k) == CHOOSE i \in over(k) : \A j \in over(k) : j <= i
<1>1. ASSUME NEW k \in Nat
      PROVE  SubColour(r, n, q, k) = IF over(k) = {} THEN Rfb!LastGiven(r, n, "bg")
                                     ELSE OwnColour(r, n, top(k))
  BY DEF SubColour, OwnColour
<1>2. CASE Rfb!Covers(r.tiles[n].subs[m + 1], q)
  <2>1. m + 1 \in over(m + 1) /\ \A j \in over(m + 1) : j \in Int /\ j <= m + 1
    BY <1>2
  <2> DEFINE G == over(m + 1)
             l == CHOOSE i \in G : \A j \in G : j <= i
  <2> HIDE DEF G
  <2>2. l \in G /\ \A j \in G : j <= l
    BY <2>1 DEF G
  <2>3. l = m + 1
    BY <2>1, <2>2 DEF G
  <2>4. top(m + 1) = m + 1 /\ over(m + 1) # {}
    BY <2>1, <2>3 DEF G
  <2> HIDE DEF over
  <2>5. SubColour(r, n, q, m + 1) = OwnColour(r, n, m + 1)
    BY <1>1, <2>4
  <2> QED
    BY <1>2, <2>5
<1>3. CASE ~Rfb!Covers(r.tiles[n].subs[m + 1], q)
  <2>1. \A i \in 1..m + 1 : i \in 1..m \/ i = m + 1
    OBVIOUS
  <2>2. \A i \in 1..m : i \in 1..m + 1
    OBVIOUS
  <2>3. over(m + 1) = over(m)
    BY <1>3, <2>1, <2>2
  <2> HIDE DEF over
  <2>4. SubColour(r, n, q, m + 1) = SubColour(r, n, q, m)
    BY <1>1, <2>3
  <2> QED
    BY <1>3, <2>4
<1> QED
  BY <1>2, <1>3

\* All of them give the colour of a pixel.
LEMMA SubColourAll ==
    ASSUME NEW r, NEW p, NEW n, n = Rfb!TileOf(r, p), NEW q, q = Rfb!InTile(r, p),
           r.tiles[n] \in Rfb!Tiles, r.tiles[n].raw = <<>>
    PROVE  Rfb!HextileColour(r, p) = SubColour(r, n, q, Len(r.tiles[n].subs))
<1>1. DOMAIN r.tiles[n].subs = 1..Len(r.tiles[n].subs)
  BY TileTypes
<1> QED
  BY <1>1 DEF Rfb!HextileColour, SubColour

\* The pixels of a raw tile.
LEMMA RawColour ==
    ASSUME NEW r \in Rfb!Rectangles, Rfb!WellFormedRectangle(r), r.enc = 5,
           NEW col \in 0 .. Count(r.w) - 1, NEW row \in 0 .. Count(r.h) - 1,
           NEW p \in Pixels, InBox(r, col, row, p),
           NEW n, n = Rfb!TileNumber(r, col, row), r.tiles[n].raw # <<>>
    PROVE  Rfb!HextileColour(r, p)
             = r.tiles[n].raw[1 + (p[2] - Top(r, row)) * Rfb!Side(r.w, col) + (p[1] - Left(r, col))]
<1>1. r.w > 0 /\ r.h > 0
  BY DEF Rfb!WellFormedRectangle
<1>2. r.x \in Nat /\ r.w \in Nat /\ Tile \in Nat
  BY RectTypes, TileAssumption
<1>3. PixelAt(r, col, row, p)
  BY <1>1, PixelPlace
<1> DEFINE q == Rfb!InTile(r, p)
           left == p[1] - q[1]
<1>4. Rfb!TileOf(r, p) = n /\ q[1] = p[1] - Left(r, col) /\ q[2] = p[2] - Top(r, row)
  BY <1>3 DEF PixelAt
<1>5. p[1] \in Int /\ col \in Int
  BY ScreenAssumption DEF Pixels
<1>6. left = Left(r, col) /\ col * Tile \in Int /\ Left(r, col) = r.x + col * Tile
  <2>1. col * Tile \in Int
    BY <1>2, <1>5
  <2>2. Left(r, col) = r.x + col * Tile /\ Left(r, col) \in Int
    BY <1>2, <2>1 DEF Left
  <2> HIDE DEF q
  <2> QED
    BY <1>4, <1>5, <2>1, <2>2
<1>7. (IF r.x + r.w - left < Tile THEN r.x + r.w - left ELSE Tile) = Rfb!Side(r.w, col)
  <2> HIDE DEF left
  <2>1. r.x + r.w - left = r.w - col * Tile
    BY <1>2, <1>6
  <2> QED
    BY <2>1 DEF Rfb!Side
<1>8. Rfb!HextileColour(r, p)
        = r.tiles[n].raw[1 + q[2] * (IF r.x + r.w - left < Tile THEN r.x + r.w - left ELSE Tile) + q[1]]
  BY <1>4 DEF Rfb!HextileColour
<1> HIDE DEF q, left
<1> QED
  BY <1>4, <1>7, <1>8

-----------------------------------------------------------------------------
(* The client draws a tile *)

\* hex has the colours that the first k tiles of r gave.
Colours(r, k) ==
    /\ Rfb!Given(r, k, "bg") => hex.bg = Rfb!LastGiven(r, k, "bg")
    /\ Rfb!Given(r, k, "fg") => hex.fg = Rfb!LastGiven(r, k, "fg")

\* The place of pixel p in the order in which the pixels of a raw tile come.
PixelOrder(r, col, row, p) ==
    (p[2] - Top(r, row)) * Rfb!Side(r.w, col) + (p[1] - Left(r, col))

\* The picture with m pixels of a raw tile.
RawSoFar(pic, r, col, row, m) ==
    LET n == Rfb!TileNumber(r, col, row)
    IN  [p \in Pixels |-> IF InBox(r, col, row, p) /\ PixelOrder(r, col, row, p) < m
                            THEN r.tiles[n].raw[1 + PixelOrder(r, col, row, p)]
                            ELSE UpTo(pic, r, n - 1)[p]]

\* A raw tile that goes straight to the LCD.
DrawingRaw(pic, r, col, row) ==
    LET raw == r.tiles[Rfb!TileNumber(r, col, row)].raw
    IN  /\ BoxFits(r, col, row)
        /\ lcd.x = Left(r, col) /\ lcd.y = Top(r, row)
        /\ lcd.w = Rfb!Side(r.w, col) /\ lcd.h = Rfb!Side(r.h, row)
        /\ lcd.pos + interPixelCount = Len(raw)
        /\ screen = RawSoFar(pic, r, col, row, lcd.pos)

\* hextileBuffer has m subrectangles of tile n.
Buffered(r, n, m) == hextileBuffer = [c \in Cells |-> SubColour(r, n, c, m)]

\* What the client has drawn of the picture, and what it has ready, while it is
\* at a tile of r, when the display showed pic before r.
Drawn(pic, r, col, row) ==
    LET n == Rfb!TileNumber(r, col, row)
        t == r.tiles[n]
    IN  \/ /\ hextileState = "PARSEHEADER"
           /\ screen = UpTo(pic, r, n - 1) /\ Colours(r, n - 1)
        \/ /\ hextileState = "DROPRAW" /\ t.raw # <<>>
           /\ ~BoxFits(r, col, row) /\ screen = UpTo(pic, r, n - 1) /\ Colours(r, n - 1)
        \/ /\ hextileState = "DRAWRAW" /\ t.raw # <<>>
           /\ DrawingRaw(pic, r, col, row) /\ Colours(r, n - 1)
        \/ /\ hextileState = "FILLBUFFER" /\ t.raw = <<>>
           /\ hex.sub = Rfb!Subencoding(t) /\ hex.n <= Len(t.subs)
           /\ Buffered(r, n, Len(t.subs) - hex.n)
           /\ screen = UpTo(pic, r, n - 1) /\ Colours(r, n)
        \/ /\ hextileState = "DRAWTILE" /\ t.raw = <<>>
           /\ Buffered(r, n, Len(t.subs))
           /\ screen = UpTo(pic, r, n - 1) /\ Colours(r, n)
        \/ /\ hextileState = "DONE"
           /\ screen = UpTo(pic, r, n) /\ Colours(r, n)

\* A rectangle of tiles and one of them.
TileOfRect(r, col, row) ==
    /\ r \in Rfb!Rectangles /\ Rfb!WellFormedRectangle(r) /\ r.enc = 5
    /\ col \in 0 .. Count(r.w) - 1 /\ row \in 0 .. Count(r.h) - 1

\* What is known of a tile.
TileFacts(r, col, row, n) ==
    /\ n \in Nat /\ n >= 1 /\ n \in 1..Len(r.tiles) /\ n - 1 \in Nat /\ (n - 1) + 1 = n
    /\ r.tiles[n] \in Rfb!Tiles /\ Rfb!WellFormedTile(r.tiles[n])
    /\ r.tiles[n].raw = <<>> =>
         /\ Rfb!Given(r, n, "bg")
         /\ r.tiles[n].subs # <<>> /\ ~r.tiles[n].coloured => Rfb!Given(r, n, "fg")
    /\ Left(r, col) \in Nat /\ Top(r, row) \in Nat
    /\ Rfb!Side(r.w, col) \in Nat /\ Rfb!Side(r.h, row) \in Nat
    /\ 1 <= Rfb!Side(r.w, col) /\ Rfb!Side(r.w, col) <= Tile
    /\ 1 <= Rfb!Side(r.h, row) /\ Rfb!Side(r.h, row) <= Tile
    /\ Left(r, col) + Rfb!Side(r.w, col) <= 32767 /\ Top(r, row) + Rfb!Side(r.h, row) <= 32767
    /\ r.tiles[n].raw # <<>> =>
         Len(r.tiles[n].raw) = Rfb!Side(r.w, col) * Rfb!Side(r.h, row)

\* They hold of every tile of a rectangle that keeps to RFB.
LEMMA TileKnown ==
    ASSUME NEW r, NEW col, NEW row, TileOfRect(r, col, row),
           NEW n, n = Rfb!TileNumber(r, col, row)
    PROVE  TileFacts(r, col, row, n)
<1>1. /\ r \in Rfb!Rectangles /\ Rfb!WellFormedRectangle(r) /\ r.enc = 5
      /\ col \in 0 .. Count(r.w) - 1 /\ row \in 0 .. Count(r.h) - 1
  BY DEF TileOfRect
<1>2. /\ r.x \in Nat /\ r.y \in Nat /\ r.w \in Nat /\ r.h \in Nat /\ Len(r.tiles) \in Nat
      /\ r.w > 0 /\ r.h > 0 /\ r.x + r.w <= 32767 /\ r.y + r.h <= 32767
  BY <1>1, RectTypes DEF Rfb!WellFormedRectangle
<1>3. /\ n \in 1..Len(r.tiles) /\ r.tiles[n] \in Rfb!Tiles /\ Rfb!WellFormedTile(r.tiles[n])
  BY <1>1, TileInRect
<1>4. n \in Nat /\ n >= 1 /\ n - 1 \in Nat /\ (n - 1) + 1 = n
  BY <1>2, <1>3
<1>5. Left(r, col) \in Nat /\ Rfb!Side(r.w, col) \in 1..Tile
  BY <1>1, <1>2, SideCut DEF Left
<1>6. Top(r, row) \in Nat /\ Rfb!Side(r.h, row) \in 1..Tile
  BY <1>1, <1>2, SideCut DEF Top
<1>7. Left(r, col) + Rfb!Side(r.w, col) <= r.x + r.w /\ Top(r, row) + Rfb!Side(r.h, row) <= r.y + r.h
  <2>1. col * Tile \in Int /\ row * Tile \in Int /\ Tile \in Int
    BY <1>1, <1>2, CountCovers, TileAssumption
  <2> QED
    BY <1>2, <2>1 DEF Left, Top, Rfb!Side
<1>8. LET raw == r.tiles[n].raw
      IN  raw # <<>> => Len(raw) = Rfb!Side(r.w, col) * Rfb!Side(r.h, row)
  BY <1>1 DEF Rfb!WellFormedRectangle, Rfb!TilesAcross, Rfb!TilesDown, Count
<1>9. r.tiles[n].raw = <<>> =>
         /\ Rfb!Given(r, n, "bg")
         /\ r.tiles[n].subs # <<>> /\ ~r.tiles[n].coloured => Rfb!Given(r, n, "fg")
  BY <1>1, <1>3 DEF Rfb!WellFormedRectangle
<1>10. /\ Rfb!Side(r.w, col) \in Nat /\ Rfb!Side(r.h, row) \in Nat
       /\ 1 <= Rfb!Side(r.w, col) /\ Rfb!Side(r.w, col) <= Tile
       /\ 1 <= Rfb!Side(r.h, row) /\ Rfb!Side(r.h, row) <= Tile
  BY <1>5, <1>6, TileAssumption
<1>11. Left(r, col) + Rfb!Side(r.w, col) <= 32767 /\ Top(r, row) + Rfb!Side(r.h, row) <= 32767
  BY <1>2, <1>5, <1>6, <1>7, <1>10
<1> QED
  BY <1>3, <1>4, <1>5, <1>6, <1>8, <1>9, <1>10, <1>11 DEF TileFacts

\* The client's test whether a tile fits is the one of Rfb.
LEMMA WindowTest ==
    ASSUME NEW r, NEW col, NEW row, TileOfRect(r, col, row), TileIs(r, col, row)
    PROVE  /\ TileInWindow <=> BoxFits(r, col, row)
           /\ tile.x = Left(r, col) /\ tile.y = Top(r, row)
           /\ tile.w = Rfb!Side(r.w, col) /\ tile.h = Rfb!Side(r.h, row)
<1> DEFINE n == Rfb!TileNumber(r, col, row)
<1>1. TileFacts(r, col, row, n)
  BY TileKnown
<1>2. /\ tile.x = Left(r, col) /\ tile.y = Top(r, row)
      /\ tile.w = Rfb!Side(r.w, col) /\ tile.h = Rfb!Side(r.h, row)
  BY DEF TileIs, Left, Top
<1>3. \A x \in Nat : x <= 32767 => Uint(x) = x
  BY DEF Uint
<1>4. /\ Uint(Left(r, col) + Rfb!Side(r.w, col)) = Left(r, col) + Rfb!Side(r.w, col)
      /\ Uint(Top(r, row) + Rfb!Side(r.h, row)) = Top(r, row) + Rfb!Side(r.h, row)
  BY <1>1, <1>3 DEF TileFacts
<1> QED
  BY <1>2, <1>4 DEF TileInWindow, BoxFits

\* A tile replaces what was in its place.
Adds(pic, r, col, row) ==
    LET n == Rfb!TileNumber(r, col, row)
    IN  UpTo(pic, r, n)
          = [p \in Pixels |-> IF InBox(r, col, row, p) /\ BoxFits(r, col, row)
                                THEN Rfb!HextileColour(r, p) ELSE UpTo(pic, r, n - 1)[p]]

\* This holds of every tile of a rectangle.
LEMMA TileAdds ==
    ASSUME NEW pic, NEW r, NEW col, NEW row, TileOfRect(r, col, row)
    PROVE  Adds(pic, r, col, row)
BY UpToNext DEF TileOfRect, Adds

\* A tile that does not fit in the display changes nothing.
LEMMA UpToSkips ==
    ASSUME NEW pic, NEW r, NEW col, NEW row, TileOfRect(r, col, row), ~BoxFits(r, col, row),
           NEW n, n = Rfb!TileNumber(r, col, row)
    PROVE  UpTo(pic, r, n) = UpTo(pic, r, n - 1)
<1>1. UpTo(pic, r, n)
        = [p \in Pixels |-> IF InBox(r, col, row, p) /\ BoxFits(r, col, row)
                              THEN Rfb!HextileColour(r, p) ELSE UpTo(pic, r, n - 1)[p]]
  BY TileAdds DEF Adds
<1>2. UpTo(pic, r, n) = [p \in Pixels |-> UpTo(pic, r, n - 1)[p]]
  BY <1>1
<1>3. UpTo(pic, r, n - 1) = [p \in Pixels |-> UpTo(pic, r, n - 1)[p]]
  BY DEF UpTo
<1> QED
  BY <1>2, <1>3

\* The steps that take nothing from the buffer and draw nothing.
LEMMA WaitingDraws ==
    ASSUME TypeOK, NEW pic, NEW r, NEW col, NEW row, Drawn(pic, r, col, row),
           HextileWaitHeader \/ HextileSubrectOverrun \/ HextileWaitSubrect
    PROVE  Drawn(pic, r, col, row)'
<1>1. CASE HextileWaitHeader
  <2>1. hextileState = "PARSEHEADER" /\ hextileState' = hextileState /\ screen' = screen
    BY <1>1 DEF HextileWaitHeader, HextileProcessing, lcdVars
  <2>2. hex' = hex \/ hex' = [hex EXCEPT !.sub = buf[1]]
    BY <1>1 DEF HextileWaitHeader
  <2>3. hex'.bg = hex.bg /\ hex'.fg = hex.fg
    <3>1. hex \in [bg : Colour, fg : Colour, sub : Byte, n : Byte]
      BY DEF TypeOK
    <3> QED
      BY <2>2, <3>1
  <2> QED
    BY <2>1, <2>3 DEF Drawn, Colours
<1>2. CASE HextileSubrectOverrun \/ HextileWaitSubrect
  <2>1. /\ hextileState' = hextileState /\ hex' = hex /\ interPixelCount' = interPixelCount
        /\ hextileBuffer' = hextileBuffer /\ lcd' = lcd /\ screen' = screen
    BY <1>2 DEF HextileSubrectOverrun, HextileWaitSubrect, WaitForBytes, Return0, connVars,
       rectVars, tileVars, lcdVars
  <2> QED
    BY <2>1 DEF Drawn, Colours, DrawingRaw, Buffered
<1> QED
  BY <1>1, <1>2

\* The buffer is complete when all subrectangles are in it.
LEMMA FilledDraws ==
    ASSUME NEW pic, NEW r, NEW col, NEW row, TileOfRect(r, col, row), Drawn(pic, r, col, row),
           HextileBufferFilled
    PROVE  Drawn(pic, r, col, row)'
<1> DEFINE n == Rfb!TileNumber(r, col, row)
           t == r.tiles[n]
<1>1. /\ hextileState = "FILLBUFFER" /\ hex.n = 0 /\ hextileState' = "DRAWTILE" /\ hex' = hex
      /\ hextileBuffer' = hextileBuffer /\ screen' = screen
  BY DEF HextileBufferFilled, HextileProcessing, lcdVars
<1>2. /\ t.raw = <<>> /\ Buffered(r, n, Len(t.subs) - hex.n)
      /\ screen = UpTo(pic, r, n - 1) /\ Colours(r, n)
  BY <1>1 DEF Drawn
<1>3. Len(t.subs) - 0 = Len(t.subs)
  <2>1. t \in Rfb!Tiles
    BY TileKnown DEF TileFacts
  <2> QED
    BY <2>1, TileTypes
<1>4. Buffered(r, n, Len(t.subs))
  BY <1>1, <1>2, <1>3
<1>5. Buffered(r, n, Len(t.subs))' /\ Colours(r, n)'
  BY <1>1, <1>2, <1>4 DEF Buffered, Colours
<1> QED
  BY <1>1, <1>2, <1>5 DEF Drawn

\* A tile that does not fit is not drawn.
LEMMA SkipDraws ==
    ASSUME NEW pic, NEW r, NEW col, NEW row, TileOfRect(r, col, row), TileIs(r, col, row),
           Drawn(pic, r, col, row), HextileSkipTile
    PROVE  Drawn(pic, r, col, row)'
<1> DEFINE n == Rfb!TileNumber(r, col, row)
<1>1. /\ hextileState = "DRAWTILE" /\ ~TileInWindow /\ hextileState' = "DONE" /\ hex' = hex
      /\ screen' = screen
  BY DEF HextileSkipTile, HextileProcessing, lcdVars
<1>2. screen = UpTo(pic, r, n - 1) /\ Colours(r, n)
  BY <1>1 DEF Drawn
<1>3. ~BoxFits(r, col, row)
  BY <1>1, WindowTest
<1>4. UpTo(pic, r, n) = UpTo(pic, r, n - 1)
  BY <1>3, UpToSkips
<1>5. Colours(r, n)'
  BY <1>1, <1>2 DEF Colours
<1> QED
  BY <1>1, <1>2, <1>4, <1>5 DEF Drawn

\* The tile is drawn from the buffer.
LEMMA TileDraws ==
    ASSUME NEW pic, NEW r, NEW col, NEW row, TileOfRect(r, col, row), TileIs(r, col, row),
           Drawn(pic, r, col, row), HextileDrawTile
    PROVE  Drawn(pic, r, col, row)'
<1> DEFINE n == Rfb!TileNumber(r, col, row)
           t == r.tiles[n]
           left == Left(r, col)
           top == Top(r, row)
           w == Rfb!Side(r.w, col)
           h == Rfb!Side(r.h, row)
<1>1. /\ hextileState = "DRAWTILE" /\ TileInWindow /\ hextileState' = "DONE" /\ hex' = hex
  BY DEF HextileDrawTile, HextileProcessing
<1>2. t.raw = <<>> /\ Buffered(r, n, Len(t.subs)) /\ screen = UpTo(pic, r, n - 1) /\ Colours(r, n)
  BY <1>1 DEF Drawn
<1>3. BoxFits(r, col, row) /\ tile.x = left /\ tile.y = top /\ tile.w = w /\ tile.h = h
  BY <1>1, WindowTest
<1>4. TileFacts(r, col, row, n)
  BY TileKnown
<1>5. /\ left \in Nat /\ top \in Nat /\ w \in Nat /\ h \in Nat /\ w <= Tile /\ h <= Tile
      /\ t \in Rfb!Tiles /\ Tile \in Nat
  BY <1>4, TileAssumption DEF TileFacts
<1>6. PICK behind : screen' = [p \in Pixels |->
                      LET c == <<p[1] - tile.x, p[2] - tile.y>>
                      IN IF c \in (0 .. tile.w - 1) \X (0 .. tile.h - 1)
                           THEN IF c \in Cells THEN hextileBuffer[c] ELSE behind[p]
                           ELSE screen[p]]
  BY DEF HextileDrawTile
<1> HIDE DEF left, top, w, h, n
<1>7. ASSUME NEW p \in Pixels
      PROVE  screen'[p] = IF InBox(r, col, row, p) /\ BoxFits(r, col, row)
                            THEN Rfb!HextileColour(r, p) ELSE UpTo(pic, r, n - 1)[p]
  <2> DEFINE c == <<p[1] - left, p[2] - top>>
  <2>1. p[1] \in Int /\ p[2] \in Int
    BY ScreenAssumption DEF Pixels
  <2>2. InBox(r, col, row, p) <=> p[1] \in left .. left + w - 1 /\ p[2] \in top .. top + h - 1
    BY DEF InBox, left, top, w, h
  <2>3. c \in (0 .. w - 1) \X (0 .. h - 1)
          <=> p[1] - left \in 0 .. w - 1 /\ p[2] - top \in 0 .. h - 1
    OBVIOUS
  <2>4. InBox(r, col, row, p) <=> c \in (0 .. w - 1) \X (0 .. h - 1)
    <3>1. p[1] - left \in 0 .. w - 1 <=> p[1] \in left .. left + w - 1
      BY <1>5, <2>1
    <3>2. p[2] - top \in 0 .. h - 1 <=> p[2] \in top .. top + h - 1
      BY <1>5, <2>1
    <3> HIDE DEF c
    <3> QED
      BY <2>2, <2>3, <3>1, <3>2
  <2>5. InBox(r, col, row, p) => c \in Cells
    <3>1. p[1] - left \in 0 .. w - 1 => p[1] - left \in 0 .. Tile - 1
      BY <1>5, <2>1
    <3>2. p[2] - top \in 0 .. h - 1 => p[2] - top \in 0 .. Tile - 1
      BY <1>5, <2>1
    <3> QED
      BY <2>3, <2>4, <3>1, <3>2 DEF Cells
  <2>6. screen'[p] = IF c \in (0 .. w - 1) \X (0 .. h - 1)
                       THEN IF c \in Cells THEN hextileBuffer[c] ELSE behind[p] ELSE screen[p]
    BY <1>3, <1>6, Zenon
  <2>7. ASSUME InBox(r, col, row, p) PROVE hextileBuffer[c] = Rfb!HextileColour(r, p)
    <3>1. hextileBuffer[c] = SubColour(r, n, c, Len(t.subs))
      <4> HIDE DEF c
      <4> QED
        BY <1>2, <2>5, <2>7 DEF Buffered
    <3>2. PixelAt(r, col, row, p)
      <4>1. r \in Rfb!Rectangles /\ r.w > 0 /\ r.h > 0
        BY DEF TileOfRect, Rfb!WellFormedRectangle
      <4> QED
        BY <4>1, PixelPlace DEF TileOfRect
    <3>3. n = Rfb!TileOf(r, p) /\ c = Rfb!InTile(r, p)
      BY <2>7, <3>2 DEF PixelAt, n, left, top
    <3>4. Rfb!HextileColour(r, p) = SubColour(r, n, c, Len(t.subs))
      <4> HIDE DEF c
      <4> QED
        BY <1>2, <1>5, <3>3, SubColourAll
    <3> QED
      BY <3>1, <3>4
  <2> HIDE DEF c
  <2> QED
    BY <1>2, <1>3, <2>4, <2>5, <2>6, <2>7
<1>8. screen' = UpTo(pic, r, n)
  <2>1. UpTo(pic, r, n)
          = [p \in Pixels |-> IF InBox(r, col, row, p) /\ BoxFits(r, col, row)
                                THEN Rfb!HextileColour(r, p) ELSE UpTo(pic, r, n - 1)[p]]
    BY TileAdds DEF Adds, n
  <2>2. screen' = [p \in Pixels |-> screen'[p]]
    BY <1>6
  <2> QED
    BY <1>7, <2>1, <2>2
<1>9. Colours(r, n)'
  BY <1>1, <1>2 DEF Colours
<1> QED
  BY <1>1, <1>8, <1>9 DEF Drawn, n

\* A subrectangle's corner and size are read as they were written.
LEMMA CornerRead ==
    ASSUME NEW x \in Nat, NEW y \in Nat, x <= 15, y <= 15
    PROVE  (16 * x + y) \div 16 = x /\ (16 * x + y) % 16 = y
OBVIOUS

\* The subrectangle at the front of the buffer is the next one of the tile.
LEMMA NextSubrect ==
    ASSUME TypeOK, NEW o \in Nat, NEW t \in Rfb!Tiles, Rfb!WellFormedTile(t), t.raw = <<>>,
           Front(o, Rfb!TileEncoding(t)), InTile(o, t), hextileState = "FILLBUFFER",
           hex.sub = Rfb!Subencoding(t), hex.n <= Len(t.subs), hex.n # 0,
           Len(buf) >= SubrectBytes, NEW m, m = Len(t.subs) - hex.n
    PROVE  /\ m \in Nat /\ m + 1 \in 1..Len(t.subs) /\ SubrectBytes = SubrectLength(t)
           /\ \A j \in 1..SubrectBytes : buf[j] = Rfb!SubrectEncoding(t, t.subs[m + 1])[j]
<1> DEFINE e == Rfb!TileEncoding(t)
           l == SubrectLength(t)
           h == HeaderLength(t)
           k == Len(t.subs)
           c == hex.n
<1>1. Len(buf) \in Nat /\ c \in Nat
  <2>1. buf \in Seq(Byte) /\ hex \in [bg : Colour, fg : Colour, sub : Byte, n : Byte]
    BY DEF TypeOK
  <2>2. hex.n \in Byte
    BY <2>1
  <2>3. Len(buf) \in Nat
    BY <2>1, LenProperties
  <2>4. Byte \subseteq Nat
    BY DEF Byte
  <2> QED
    BY <2>2, <2>3, <2>4
<1>2. k \in Nat /\ t.coloured \in BOOLEAN
  BY TileTypes
<1>3. SubrectsColoured(hex.sub) <=> t.coloured
  BY SubencodingBits
<1>4. SubrectBytes = l /\ SubBytes(hex.sub) = l /\ l \in {2, 4}
  BY <1>2, <1>3 DEF SubrectBytes, SubBytes, SubrectLength, BYTES_PER_PIXEL
<1>5. t.coloured => \A i \in 1..Len(t.subs) : t.subs[i].c # Rfb!None
  BY DEF Rfb!WellFormedTile
<1>6. /\ Len(e) = h + l * k
      /\ \A i \in 1..k, j \in 1..l : e[h + l * (i - 1) + j] = Rfb!SubrectEncoding(t, t.subs[i])[j]
  BY <1>5, HexTileShape
<1>7. h \in Nat
  BY DEF HeaderLength, ColourLength
<1>8. o + l * c = Len(e)
  BY <1>4 DEF InTile, TileLength
<1> HIDE DEF e, l, h, k, c
<1>9. c <= k /\ c # 0 /\ m = k - c
  BY DEF c, k
<1>10. m \in Nat /\ m + 1 \in 1..k /\ (m + 1) - 1 = m
  BY <1>1, <1>2, <1>9
<1>11. l * m + l <= l * k /\ l * m \in Nat /\ l * k = l * m + l * c
  <2>1. l = 2 \/ l = 4
    BY <1>4
  <2>2. k = m + c /\ c >= 1
    BY <1>1, <1>2, <1>9, <1>10
  <2>3. CASE l = 2
    BY ONLY <1>1, <1>2, <1>10, <2>2, <2>3
  <2>4. CASE l = 4
    BY ONLY <1>1, <1>2, <1>10, <2>2, <2>4
  <2> QED
    BY <2>1, <2>3, <2>4
<1>12. o = h + l * m /\ o + l <= Len(e)
  <2>1. PICK a, b, d : a = l * m /\ b = l * k /\ d = l * c
    OBVIOUS
  <2>2. b \in Nat /\ d \in Nat /\ l \in Nat
    <3>1. l = 2 \/ l = 4
      BY <1>4
    <3> QED
      BY <1>1, <1>2, <2>1, <3>1
  <2>3. Len(e) = h + b /\ o + d = Len(e) /\ a + l <= b /\ a \in Nat /\ b = a + d
    BY <1>6, <1>8, <1>11, <2>1
  <2>4. o = h + a /\ o + l <= Len(e)
    BY <1>7, <2>2, <2>3
  <2> QED
    BY <2>1, <2>4
<1>13. ASSUME NEW j \in 1..l PROVE buf[j] = Rfb!SubrectEncoding(t, t.subs[m + 1])[j]
  <2>1. j \in 1..Len(buf) /\ o + j <= Len(e)
    <3>1. Len(buf) >= l /\ l \in Nat /\ Len(e) \in Int
      BY <1>4, <1>6, <1>7, <1>11, <1>2
    <3> QED
      BY <1>1, <1>12, <3>1
  <2>2. buf[j] = e[o + j]
    BY <2>1 DEF Front, e
  <2>3. o + j = h + l * ((m + 1) - 1) + j
    BY <1>10, <1>12
  <2>4. e[h + l * ((m + 1) - 1) + j] = Rfb!SubrectEncoding(t, t.subs[m + 1])[j]
    BY <1>6, <1>10
  <2> QED
    BY <2>2, <2>3, <2>4
<1> QED
  BY <1>4, <1>10, <1>13 DEF l, k

\* The columns and rows that the client fills are those that it covers.
LEMMA SubrectCovers ==
    ASSUME NEW t \in Rfb!Tiles, NEW s \in Rfb!Subrects, t.coloured => s.c # Rfb!None,
           SubrectBytes = SubrectLength(t),
           \A j \in 1..SubrectBytes : buf[j] = Rfb!SubrectEncoding(t, s)[j]
    PROVE  /\ SubrectColumns = s.x .. s.x + s.w - 1 /\ SubrectRows = s.y .. s.y + s.h - 1
           /\ t.coloured => LittlePixel(buf[1], buf[2]) = s.c
<1> DEFINE e == Rfb!SubrectEncoding(t, s)
           l == SubrectLength(t)
<1>1. /\ t.coloured => LittlePixel(e[1], e[2]) = s.c
      /\ e[l - 1] = 16 * s.x + s.y /\ e[l] = 16 * (s.w - 1) + (s.h - 1)
  BY SubrectShape
<1>2. l \in {2, 4} /\ (t.coloured => l = 4)
  BY DEF SubrectLength
<1> HIDE DEF e, l
<1>3. \A j \in 1..l : buf[j] = e[j]
  BY DEF e, l
<1>4. buf[l - 1] = e[l - 1] /\ buf[l] = e[l] /\ buf[1] = e[1] /\ buf[2] = e[2]
  <2>1. l - 1 \in 1..l /\ l \in 1..l /\ 1 \in 1..l /\ 2 \in 1..l
    BY <1>2
  <2> QED
    BY <1>3, <2>1
<1>5. /\ s.x \in Nat /\ s.y \in Nat /\ s.w - 1 \in Nat /\ s.h - 1 \in Nat /\ s.w \in Nat /\ s.h \in Nat
      /\ s.x <= 15 /\ s.y <= 15 /\ s.w - 1 <= 15 /\ s.h - 1 <= 15
  <2>1. /\ s.x \in 0 .. Tile - 1 /\ s.y \in 0 .. Tile - 1 /\ s.w \in 1..Tile /\ s.h \in 1..Tile
    BY DEF Rfb!Subrects
  <2> QED
    BY <2>1, TileAssumption
<1>6. buf[l - 1] \div 16 = s.x /\ buf[l - 1] % 16 = s.y
  <2> DEFINE x == s.x
             y == s.y
  <2>1. x \in Nat /\ y \in Nat /\ x <= 15 /\ y <= 15 /\ buf[l - 1] = 16 * x + y
    BY <1>1, <1>4, <1>5
  <2> HIDE DEF x, y
  <2>2. buf[l - 1] \div 16 = x /\ buf[l - 1] % 16 = y
    BY <2>1, CornerRead
  <2> QED
    BY <2>2 DEF x, y
<1>7. buf[l] \div 16 = s.w - 1 /\ buf[l] % 16 = s.h - 1
  <2> DEFINE x == s.w - 1
             y == s.h - 1
  <2>1. x \in Nat /\ y \in Nat /\ x <= 15 /\ y <= 15 /\ buf[l] = 16 * x + y
    BY <1>1, <1>4, <1>5
  <2> HIDE DEF x, y
  <2>2. buf[l] \div 16 = x /\ buf[l] % 16 = y
    BY <2>1, CornerRead
  <2> QED
    BY <2>2 DEF x, y
<1>8. s.x + (s.w - 1) = s.x + s.w - 1 /\ s.y + (s.h - 1) = s.y + s.h - 1
  BY <1>5
<1>9. SubrectBytes = l
  BY DEF l
<1> QED
  BY <1>1, <1>4, <1>6, <1>7, <1>8, <1>9 DEF SubrectColumns, SubrectRows

\* A subrectangle is drawn into the buffer, over those before it.
LEMMA SubrectDraws ==
    ASSUME TypeOK, NEW pic, NEW r, NEW col, NEW row, TileOfRect(r, col, row),
           Drawn(pic, r, col, row), NEW n, n = Rfb!TileNumber(r, col, row),
           NEW o \in Nat, InTile(o, r.tiles[n]), Front(o, Rfb!TileEncoding(r.tiles[n])),
           HextileSubrect
    PROVE  Drawn(pic, r, col, row)'
<1> DEFINE t == r.tiles[n]
           m == Len(t.subs) - hex.n
           s == t.subs[m + 1]
<1>1. /\ hextileState = "FILLBUFFER" /\ hex.n # 0 /\ Len(buf) >= SubrectBytes
      /\ hextileState' = "FILLBUFFER" /\ hex' = [hex EXCEPT !.n = hex.n - 1] /\ screen' = screen
  BY DEF HextileSubrect, HextileProcessing, lcdVars
<1>2. /\ t.raw = <<>> /\ hex.sub = Rfb!Subencoding(t) /\ hex.n <= Len(t.subs)
      /\ Buffered(r, n, m) /\ screen = UpTo(pic, r, n - 1) /\ Colours(r, n)
  BY <1>1 DEF Drawn
<1>3. TileFacts(r, col, row, n)
  BY TileKnown
<1>4. /\ t \in Rfb!Tiles /\ Rfb!WellFormedTile(t)
      /\ (t.subs # <<>> /\ ~t.coloured => Rfb!Given(r, n, "fg"))
  BY <1>2, <1>3 DEF TileFacts
<1>5. /\ m \in Nat /\ m + 1 \in 1..Len(t.subs) /\ SubrectBytes = SubrectLength(t)
      /\ \A j \in 1..SubrectBytes : buf[j] = Rfb!SubrectEncoding(t, s)[j]
  <2> HIDE DEF t
  <2> QED
    BY <1>1, <1>2, <1>4, NextSubrect DEF t
<1>6. /\ t.subs \in Seq(Rfb!Subrects) /\ Len(t.subs) \in Nat /\ (t.subs = <<>> <=> Len(t.subs) = 0)
  BY <1>4, TileTypes
<1>7. s \in Rfb!Subrects /\ (t.coloured => s.c # Rfb!None) /\ t.subs # <<>>
  <2>1. s \in Rfb!Subrects
    BY <1>5, <1>6, ElementOfSeq
  <2> QED
    BY <1>4, <1>5, <1>6, <2>1 DEF Rfb!WellFormedTile
<1>8. /\ SubrectColumns = s.x .. s.x + s.w - 1 /\ SubrectRows = s.y .. s.y + s.h - 1
      /\ t.coloured => LittlePixel(buf[1], buf[2]) = s.c
  <2> HIDE DEF s, t
  <2> QED
    BY <1>4, <1>5, <1>7, SubrectCovers
<1>9. SubrectsColoured(hex.sub) <=> t.coloured
  BY <1>2, <1>4, SubencodingBits
<1> DEFINE colour == IF SubrectsColoured(hex.sub) THEN LittlePixel(buf[1], buf[2]) ELSE hex.fg
<1>10. colour = OwnColour(r, n, m + 1)
  BY <1>2, <1>4, <1>7, <1>8, <1>9 DEF OwnColour, Colours
<1>11. hextileBuffer' = [c \in Cells |->
                           IF c[1] \in SubrectColumns /\ c[2] \in SubrectRows
                             THEN colour ELSE hextileBuffer[c]]
  BY DEF HextileSubrect
<1> HIDE DEF colour, s, m
<1>12. ASSUME NEW c \in Cells
       PROVE  (IF c[1] \in SubrectColumns /\ c[2] \in SubrectRows THEN colour ELSE hextileBuffer[c])
                = SubColour(r, n, c, m + 1)
  <2>1. SubColour(r, n, c, m + 1)
          = IF Rfb!Covers(s, c) THEN OwnColour(r, n, m + 1) ELSE SubColour(r, n, c, m)
    BY <1>5, SubColourNext DEF s
  <2>2. Rfb!Covers(s, c) <=> c[1] \in SubrectColumns /\ c[2] \in SubrectRows
    BY <1>8 DEF Rfb!Covers
  <2>3. hextileBuffer[c] = SubColour(r, n, c, m)
    BY <1>2 DEF Buffered
  <2> QED
    BY <1>10, <2>1, <2>2, <2>3
<1>13. hextileBuffer' = [c \in Cells |-> SubColour(r, n, c, m + 1)]
  BY <1>11, <1>12
<1>14. hex \in [bg : Colour, fg : Colour, sub : Byte, n : Byte] /\ hex.n \in Nat
  <2>1. hex \in [bg : Colour, fg : Colour, sub : Byte, n : Byte]
    BY DEF TypeOK
  <2>2. hex.n \in Byte
    BY <2>1
  <2> QED
    BY <2>1, <2>2 DEF Byte
<1>15. hex'.bg = hex.bg /\ hex'.fg = hex.fg /\ hex'.sub = hex.sub /\ hex'.n = hex.n - 1
  BY <1>1, <1>14
<1>16. Len(t.subs) - hex'.n = m + 1 /\ hex'.n <= Len(t.subs)
  BY <1>2, <1>6, <1>14, <1>15 DEF m
<1>17. Buffered(r, n, Len(t.subs) - hex.n)' /\ Colours(r, n)'
  BY <1>2, <1>13, <1>15, <1>16 DEF Buffered, Colours
<1> QED
  BY <1>1, <1>2, <1>15, <1>16, <1>17 DEF Drawn

\* A colour that tile n gives replaces the last one, and else that one stays.
LEMMA ColourKept ==
    ASSUME NEW r, NEW n, NEW f, n - 1 \in Nat, (n - 1) + 1 = n, NEW c, NEW c2,
           Rfb!Given(r, n - 1, f) => c = Rfb!LastGiven(r, n - 1, f),
           c2 = IF r.tiles[n][f] # Rfb!None THEN r.tiles[n][f] ELSE c
    PROVE  Rfb!Given(r, n, f) => c2 = Rfb!LastGiven(r, n, f)
<1> DEFINE k == n - 1
<1>1. k \in Nat /\ n = k + 1
  OBVIOUS
<1> HIDE DEF k
<1>2. /\ r.tiles[k + 1][f] # Rfb!None => Rfb!LastGiven(r, k + 1, f) = r.tiles[k + 1][f]
      /\ r.tiles[k + 1][f] = Rfb!None => /\ Rfb!LastGiven(r, k + 1, f) = Rfb!LastGiven(r, k, f)
                                         /\ Rfb!Given(r, k + 1, f) <=> Rfb!Given(r, k, f)
  BY <1>1, LastGivenNext
<1>3. Rfb!Given(r, k, f) => c = Rfb!LastGiven(r, k, f)
  BY DEF k
<1> QED
  BY <1>1, <1>2, <1>3

\* The header of a tile as the client reads it.
LEMMA HeaderRead ==
    ASSUME TypeOK, NEW t \in Rfb!Tiles, Rfb!WellFormedTile(t), Front(0, Rfb!TileEncoding(t)),
           HextileHeader
    PROVE  /\ t.raw = <<>>
           /\ hex'.sub = Rfb!Subencoding(t) /\ hex'.n = Len(t.subs)
           /\ hex'.bg = (IF t.bg # Rfb!None THEN t.bg ELSE hex.bg)
           /\ hex'.fg = (IF t.fg # Rfb!None THEN t.fg ELSE hex.fg)
           /\ hextileBuffer' = [c \in Cells |-> hex'.bg]
<1> DEFINE e == Rfb!TileEncoding(t)
           h == HeaderLength(t)
           k == Len(t.subs)
           b == Rfb!Subencoding(t)
<1>1. HeaderComplete /\ ~Raw(buf[1])
  BY DEF HextileHeader, HeaderHere
<1>2. /\ Len(buf) \in Nat /\ Len(buf) >= TileHeaderWait(buf[1]) /\ Len(buf) >= 1
  BY <1>1, HeaderBytesHere
<1>3. k \in Nat /\ t.coloured \in BOOLEAN /\ (t.subs = <<>> <=> k = 0)
  BY TileTypes
<1>4. Len(e) \in Nat /\ Len(e) >= 1
  BY RawTileBytes, HexTileBytes DEF TileLength
<1>5. \A i \in 1..Len(buf) : i <= Len(e) => buf[i] = e[i]
  <2> HIDE DEF e
  <2>1. \A i \in 1..Len(buf) : 0 + i = i
    BY <1>2
  <2> QED
    BY <2>1 DEF Front, e
<1>6. buf[1] = e[1]
  BY <1>2, <1>4, <1>5
<1>7. t.raw = <<>>
  BY <1>1, <1>6, RawTileBytes
<1>8. /\ Len(e) = h + SubrectLength(t) * k /\ e[1] = b
      /\ t.bg # Rfb!None => LittlePixel(e[2], e[3]) = t.bg
      /\ t.fg # Rfb!None => LittlePixel(e[(1 + ColourLength(t.bg)) + 1], e[(1 + ColourLength(t.bg)) + 2]) = t.fg
      /\ t.subs # <<>> => e[h] = k
  <2>1. t.coloured => \A n \in 1..Len(t.subs) : t.subs[n].c # Rfb!None
    BY DEF Rfb!WellFormedTile
  <2> QED
    BY <1>7, <2>1, HexTileShape
<1>9. /\ BackgroundSpecified(b) <=> t.bg # Rfb!None
      /\ ForegroundSpecified(b) <=> t.fg # Rfb!None
      /\ AnySubrects(b) <=> t.subs # <<>>
  BY SubencodingBits
<1> HIDE DEF e, b, k
<1>10. h = 1 + (IF BackgroundSpecified(b) THEN 2 ELSE 0) + (IF ForegroundSpecified(b) THEN 2 ELSE 0)
             + (IF AnySubrects(b) THEN 1 ELSE 0)
  BY <1>9 DEF HeaderLength, ColourLength
<1>11. Len(e) >= h
  <2>1. SubrectLength(t) * k \in Nat
    BY <1>3 DEF SubrectLength
  <2> HIDE DEF h
  <2>2. h \in Nat
    BY DEF h, HeaderLength, ColourLength
  <2> QED
    BY <1>8, <2>1, <2>2
<1>12. buf[1] = b
  BY <1>6, <1>8
<1>13. Len(buf) >= 1 + (IF BackgroundSpecified(b) THEN 2 ELSE 0)
                     + (IF ForegroundSpecified(b) THEN 2 ELSE 0)
                     + (IF AnySubrects(b) THEN 2 ELSE 0)
  BY <1>2, <1>12 DEF TileHeaderWait, BYTES_PER_PIXEL
<1> DEFINE f == IF BackgroundSpecified(b) THEN 4 ELSE 2
           s == IF ForegroundSpecified(b) THEN f + 2 ELSE f
           bg == IF BackgroundSpecified(b) THEN LittlePixel(buf[2], buf[3]) ELSE hex.bg
           fg == IF ForegroundSpecified(b) THEN LittlePixel(buf[f], buf[f + 1]) ELSE hex.fg
           count == IF AnySubrects(b) THEN buf[s] ELSE 0
<1>14. /\ hex' = [bg |-> bg, fg |-> fg, sub |-> b, n |-> count]
       /\ hextileBuffer' = [c \in Cells |-> bg]
  BY <1>12 DEF HextileHeader
<1>15. bg = IF t.bg # Rfb!None THEN t.bg ELSE hex.bg
  <2>1. ASSUME BackgroundSpecified(b) PROVE buf[2] = e[2] /\ buf[3] = e[3]
    <3>1. 2 \in 1..Len(buf) /\ 3 \in 1..Len(buf) /\ 2 <= Len(e) /\ 3 <= Len(e)
      BY <1>2, <1>4, <1>10, <1>11, <1>13, <2>1
    <3> QED
      BY <1>5, <3>1
  <2> QED
    BY <1>8, <1>9, <2>1
<1>16. fg = IF t.fg # Rfb!None THEN t.fg ELSE hex.fg
  <2>1. ASSUME ForegroundSpecified(b) PROVE buf[f] = e[f] /\ buf[f + 1] = e[f + 1]
    <3>1. f \in 1..Len(buf) /\ f + 1 \in 1..Len(buf) /\ f <= Len(e) /\ f + 1 <= Len(e)
      BY <1>2, <1>4, <1>10, <1>11, <1>13, <2>1
    <3> HIDE DEF f
    <3> QED
      BY <1>5, <3>1
  <2>2. (1 + ColourLength(t.bg)) + 1 = f /\ (1 + ColourLength(t.bg)) + 2 = f + 1
    BY <1>9 DEF ColourLength
  <2> HIDE DEF f
  <2> QED
    BY <1>8, <1>9, <2>1, <2>2 DEF fg
<1>17. count = k
  <2>1. CASE AnySubrects(b)
    <3>1. s = h /\ h \in 1..Len(buf) /\ h <= Len(e)
      BY <1>2, <1>4, <1>10, <1>11, <1>13, <2>1
    <3> HIDE DEF s, h
    <3>2. buf[s] = e[h]
      BY <1>5, <3>1
    <3> QED
      BY <1>8, <1>9, <2>1, <3>2 DEF count
  <2>2. CASE ~AnySubrects(b)
    BY <1>3, <1>9, <2>2
  <2> QED
    BY <2>1, <2>2
<1> HIDE DEF bg, fg, count
<1>18. hex'.bg = bg /\ hex'.fg = fg /\ hex'.sub = b /\ hex'.n = count
  BY <1>14
<1> QED
  BY <1>7, <1>14, <1>15, <1>16, <1>17, <1>18 DEF b, k

\* The header of a tile: the colours carry over and the buffer is background.
LEMMA HeaderDraws ==
    ASSUME TypeOK, NEW pic, NEW r, NEW col, NEW row, TileOfRect(r, col, row),
           Drawn(pic, r, col, row), NEW n, n = Rfb!TileNumber(r, col, row),
           Front(0, Rfb!TileEncoding(r.tiles[n])), HextileHeader
    PROVE  Drawn(pic, r, col, row)'
<1> DEFINE t == r.tiles[n]
<1>1. hextileState = "PARSEHEADER" /\ hextileState' = "FILLBUFFER" /\ screen' = screen
  BY DEF HextileHeader, HeaderHere, HextileProcessing
<1>2. screen = UpTo(pic, r, n - 1) /\ Colours(r, n - 1)
  BY <1>1 DEF Drawn
<1>3. TileFacts(r, col, row, n)
  BY TileKnown
<1>4. t \in Rfb!Tiles /\ Rfb!WellFormedTile(t) /\ n - 1 \in Nat /\ (n - 1) + 1 = n
  BY <1>3 DEF TileFacts
<1>5. /\ t.raw = <<>>
      /\ hex'.sub = Rfb!Subencoding(t) /\ hex'.n = Len(t.subs)
      /\ hex'.bg = (IF t.bg # Rfb!None THEN t.bg ELSE hex.bg)
      /\ hex'.fg = (IF t.fg # Rfb!None THEN t.fg ELSE hex.fg)
      /\ hextileBuffer' = [c \in Cells |-> hex'.bg]
  <2> HIDE DEF t
  <2> QED
    BY <1>4, HeaderRead DEF t
<1>6. t.bg = t["bg"] /\ t.fg = t["fg"]
  OBVIOUS
<1>7. Rfb!Given(r, n, "bg") => hex'.bg = Rfb!LastGiven(r, n, "bg")
  <2>1. Rfb!Given(r, n - 1, "bg") => hex.bg = Rfb!LastGiven(r, n - 1, "bg")
    BY <1>2 DEF Colours
  <2>2. PICK c, c2 : c = hex.bg /\ c2 = hex'.bg
    OBVIOUS
  <2>3. Rfb!Given(r, n, "bg") => c2 = Rfb!LastGiven(r, n, "bg")
    BY <1>4, <1>5, <1>6, <2>1, <2>2, ColourKept
  <2> QED
    BY <2>2, <2>3
<1>8. Rfb!Given(r, n, "fg") => hex'.fg = Rfb!LastGiven(r, n, "fg")
  <2>1. Rfb!Given(r, n - 1, "fg") => hex.fg = Rfb!LastGiven(r, n - 1, "fg")
    BY <1>2 DEF Colours
  <2>2. PICK c, c2 : c = hex.fg /\ c2 = hex'.fg
    OBVIOUS
  <2>3. Rfb!Given(r, n, "fg") => c2 = Rfb!LastGiven(r, n, "fg")
    BY <1>4, <1>5, <1>6, <2>1, <2>2, ColourKept
  <2> QED
    BY <2>2, <2>3
<1>9. Colours(r, n)'
  BY <1>7, <1>8 DEF Colours
<1>10. Rfb!Given(r, n, "bg") /\ Len(t.subs) \in Nat
  BY <1>3, <1>4, <1>5, TileTypes DEF TileFacts
<1>11. hextileBuffer' = [c \in Cells |-> SubColour(r, n, c, 0)]
  BY <1>5, <1>7, <1>10, SubColourNone
<1>12. Len(t.subs) - hex'.n = 0 /\ hex'.n <= Len(t.subs)
  BY <1>5, <1>10
<1>13. Buffered(r, n, Len(t.subs) - hex.n)'
  BY <1>11, <1>12 DEF Buffered
<1> QED
  BY <1>1, <1>2, <1>5, <1>9, <1>12, <1>13 DEF Drawn

\* A raw tile gives no colours to those behind it.
LEMMA RawGives ==
    ASSUME NEW r, NEW col, NEW row, NEW n, TileFacts(r, col, row, n), r.tiles[n].raw # <<>>,
           Colours(r, n - 1)
    PROVE  Colours(r, n)
<1> DEFINE t == r.tiles[n]
<1>1. t.bg = Rfb!None /\ t.fg = Rfb!None /\ n - 1 \in Nat /\ (n - 1) + 1 = n
  BY DEF TileFacts, Rfb!WellFormedTile
<1>2. t.bg = t["bg"] /\ t.fg = t["fg"]
  OBVIOUS
<1>3. PICK b, f : b = hex.bg /\ f = hex.fg
  OBVIOUS
<1>4. Rfb!Given(r, n, "bg") => b = Rfb!LastGiven(r, n, "bg")
  <2>1. Rfb!Given(r, n - 1, "bg") => b = Rfb!LastGiven(r, n - 1, "bg")
    BY <1>3 DEF Colours
  <2> QED
    BY <1>1, <1>2, <2>1, ColourKept
<1>5. Rfb!Given(r, n, "fg") => f = Rfb!LastGiven(r, n, "fg")
  <2>1. Rfb!Given(r, n - 1, "fg") => f = Rfb!LastGiven(r, n - 1, "fg")
    BY <1>3 DEF Colours
  <2>2. r.tiles[n]["fg"] = Rfb!None
    BY <1>1, <1>2
  <2> QED
    BY <1>1, <2>1, <2>2, ColourKept
<1> QED
  BY <1>3, <1>4, <1>5 DEF Colours

\* The order of a pixel of the tile.
LEMMA OrderInTile ==
    ASSUME NEW r, NEW col, NEW row, NEW n, TileFacts(r, col, row, n), NEW p \in Pixels
    PROVE  /\ PixelOrder(r, col, row, p) \in Int
           /\ InBox(r, col, row, p) =>
                /\ PixelOrder(r, col, row, p) >= 0
                /\ PixelOrder(r, col, row, p) < Rfb!Side(r.w, col) * Rfb!Side(r.h, row)
<1> DEFINE w == Rfb!Side(r.w, col)
           h == Rfb!Side(r.h, row)
           x == p[1] - Left(r, col)
           y == p[2] - Top(r, row)
<1>1. p[1] \in Int /\ p[2] \in Int
  BY ScreenAssumption DEF Pixels
<1>2. w \in Nat /\ h \in Nat /\ Left(r, col) \in Nat /\ Top(r, row) \in Nat
  BY DEF TileFacts
<1>3. x \in Int /\ y \in Int
  BY <1>1, <1>2
<1>4. InBox(r, col, row, p) => 0 <= x /\ x < w /\ 0 <= y /\ y < h
  BY <1>1, <1>2 DEF InBox
<1>5. PixelOrder(r, col, row, p) = y * w + x
  BY DEF PixelOrder
<1> HIDE DEF w, h, x, y
<1>6. y * w \in Int
  BY <1>2, <1>3
<1>7. ASSUME 0 <= x, x < w, 0 <= y, y < h PROVE y * w + x >= 0 /\ y * w + x < w * h
  <2>1. y * w >= 0
    BY <1>2, <1>3, <1>7
  <2>2. y * w <= (h - 1) * w
    BY <1>2, <1>3, <1>7
  <2>3. (h - 1) * w = w * h - w /\ w * h \in Int
    BY <1>2
  <2> QED
    BY <1>2, <1>3, <1>6, <1>7, <2>1, <2>2, <2>3
<1> QED
  BY <1>3, <1>4, <1>5, <1>6, <1>7 DEF w, h

\* A raw tile from its first pixel to its last.
LEMMA RawPictures ==
    ASSUME NEW pic, NEW r, NEW col, NEW row, TileOfRect(r, col, row),
           NEW n, n = Rfb!TileNumber(r, col, row), r.tiles[n].raw # <<>>
    PROVE  /\ RawSoFar(pic, r, col, row, 0) = UpTo(pic, r, n - 1)
           /\ BoxFits(r, col, row) =>
                RawSoFar(pic, r, col, row, Len(r.tiles[n].raw)) = UpTo(pic, r, n)
<1>1. TileFacts(r, col, row, n)
  BY TileKnown
<1>2. Len(r.tiles[n].raw) = Rfb!Side(r.w, col) * Rfb!Side(r.h, row)
  BY <1>1 DEF TileFacts
<1>3. RawSoFar(pic, r, col, row, 0) = UpTo(pic, r, n - 1)
  <2>1. ASSUME NEW p \in Pixels
        PROVE  ~(InBox(r, col, row, p) /\ PixelOrder(r, col, row, p) < 0)
    BY <1>1, OrderInTile
  <2>2. RawSoFar(pic, r, col, row, 0) = [p \in Pixels |-> UpTo(pic, r, n - 1)[p]]
    BY <2>1 DEF RawSoFar
  <2>3. UpTo(pic, r, n - 1) = [p \in Pixels |-> UpTo(pic, r, n - 1)[p]]
    BY DEF UpTo
  <2> QED
    BY <2>2, <2>3
<1>4. ASSUME BoxFits(r, col, row)
      PROVE  RawSoFar(pic, r, col, row, Len(r.tiles[n].raw)) = UpTo(pic, r, n)
  <2>1. UpTo(pic, r, n)
          = [p \in Pixels |-> IF InBox(r, col, row, p) /\ BoxFits(r, col, row)
                                THEN Rfb!HextileColour(r, p) ELSE UpTo(pic, r, n - 1)[p]]
    BY TileAdds DEF Adds
  <2>2. ASSUME NEW p \in Pixels, InBox(r, col, row, p)
        PROVE  /\ PixelOrder(r, col, row, p) < Len(r.tiles[n].raw)
               /\ Rfb!HextileColour(r, p) = r.tiles[n].raw[1 + PixelOrder(r, col, row, p)]
    <3>1. PixelOrder(r, col, row, p) < Len(r.tiles[n].raw) /\ PixelOrder(r, col, row, p) \in Int
      BY <1>1, <1>2, <2>2, OrderInTile
    <3> DEFINE a == (p[2] - Top(r, row)) * Rfb!Side(r.w, col)
               b == p[1] - Left(r, col)
    <3>2. Rfb!HextileColour(r, p) = r.tiles[n].raw[1 + a + b]
      BY <2>2, RawColour DEF TileOfRect
    <3>3. a \in Int /\ b \in Int
      <4>1. p[1] \in Int /\ p[2] \in Int
        BY ScreenAssumption DEF Pixels
      <4>2. Top(r, row) \in Nat /\ Left(r, col) \in Nat /\ Rfb!Side(r.w, col) \in Nat
        BY <1>1 DEF TileFacts
      <4> QED
        BY <4>1, <4>2
    <3>4. PixelOrder(r, col, row, p) = a + b
      BY DEF PixelOrder
    <3> HIDE DEF a, b
    <3>5. 1 + a + b = 1 + (a + b)
      BY <3>3
    <3> QED
      BY <3>1, <3>2, <3>4, <3>5
  <2> QED
    BY <1>4, <2>1, <2>2 DEF RawSoFar
<1> QED
  BY <1>3, <1>4

\* The header of a raw tile.
LEMMA RawHeaderDraws ==
    ASSUME TypeOK, NEW pic, NEW r, NEW col, NEW row, TileOfRect(r, col, row),
           TileIs(r, col, row), Drawn(pic, r, col, row), NEW n, n = Rfb!TileNumber(r, col, row),
           Front(0, Rfb!TileEncoding(r.tiles[n])), HextileRawHeader
    PROVE  Drawn(pic, r, col, row)'
<1> DEFINE t == r.tiles[n]
           e == Rfb!TileEncoding(t)
<1>1. /\ hextileState = "PARSEHEADER" /\ HeaderComplete /\ Raw(buf[1]) /\ screen' = screen
      /\ interPixelCount' \in IntProduct(tile.w, tile.h) /\ hex' = [hex EXCEPT !.sub = buf[1]]
      /\ \/ TileInWindow /\ SetupTile /\ hextileState' = "DRAWRAW"
         \/ ~TileInWindow /\ hextileState' = "DROPRAW"
  BY DEF HextileRawHeader, HeaderHere, HextileProcessing
<1>2. screen = UpTo(pic, r, n - 1) /\ Colours(r, n - 1)
  BY <1>1 DEF Drawn
<1>3. TileFacts(r, col, row, n)
  BY TileKnown
<1>4. t \in Rfb!Tiles /\ Rfb!WellFormedTile(t)
  BY <1>3 DEF TileFacts
<1>5. Len(buf) \in Nat /\ Len(buf) >= 1
  BY <1>1, HeaderBytesHere
<1>6. t.raw # <<>>
  <2> SUFFICES ASSUME t.raw = <<>> PROVE FALSE
    OBVIOUS
  <2>1. Len(e) \in Nat /\ Len(e) >= 1 /\ ~Raw(e[1])
    BY <1>4, HexTileBytes DEF TileLength
  <2> HIDE DEF e
  <2>2. buf[1] = e[0 + 1]
    BY <1>5, <2>1 DEF Front, e
  <2> QED
    BY <1>1, <2>1, <2>2
<1>7. /\ TileInWindow <=> BoxFits(r, col, row)
      /\ tile.x = Left(r, col) /\ tile.y = Top(r, row)
      /\ tile.w = Rfb!Side(r.w, col) /\ tile.h = Rfb!Side(r.h, row)
  BY WindowTest
<1>8. interPixelCount' = Len(t.raw)
  <2>1. tile.w \in Byte /\ tile.h \in Byte
    BY DEF TypeOK
  <2>2. tile.w <= Tile /\ tile.h <= Tile /\ Len(t.raw) = tile.w * tile.h
    BY <1>3, <1>6, <1>7 DEF TileFacts
  <2> QED
    BY <1>1, <2>1, <2>2, TilePixels
<1>9. Colours(r, n - 1)'
  <2>1. hex \in [bg : Colour, fg : Colour, sub : Byte, n : Byte]
    BY DEF TypeOK
  <2>2. hex'.bg = hex.bg /\ hex'.fg = hex.fg
    BY <1>1, <2>1
  <2> QED
    BY <1>2, <2>2 DEF Colours
<1>10. CASE hextileState' = "DROPRAW"
  <2>1. ~BoxFits(r, col, row)
    BY <1>1, <1>7, <1>10
  <2> QED
    BY <1>1, <1>2, <1>6, <1>9, <1>10, <2>1 DEF Drawn
<1>11. CASE hextileState' = "DRAWRAW"
  <2>1. BoxFits(r, col, row) /\ SetupTile
    BY <1>1, <1>7, <1>11
  <2>2. /\ lcd'.x = Left(r, col) /\ lcd'.y = Top(r, row)
        /\ lcd'.w = Rfb!Side(r.w, col) /\ lcd'.h = Rfb!Side(r.h, row) /\ lcd'.pos = 0
    BY <1>7, <2>1 DEF SetupTile
  <2>3. screen' = RawSoFar(pic, r, col, row, 0)
    BY <1>1, <1>2, <1>6, RawPictures
  <2>4. Len(t.raw) \in Nat
    BY <1>4, TileTypes
  <2>5. lcd'.pos + interPixelCount' = Len(t.raw)
    BY <1>8, <2>2, <2>4
  <2>6. DrawingRaw(pic, r, col, row)'
    BY <2>1, <2>2, <2>3, <2>5 DEF DrawingRaw
  <2> QED
    BY <1>6, <1>9, <1>11, <2>6 DEF Drawn
<1> QED
  BY <1>1, <1>10, <1>11

\* A raw tile that is out of view changes nothing.
LEMMA DropDraws ==
    ASSUME TypeOK, NEW pic, NEW r, NEW col, NEW row, TileOfRect(r, col, row),
           Drawn(pic, r, col, row), HextileDropRaw
    PROVE  Drawn(pic, r, col, row)'
<1> DEFINE n == Rfb!TileNumber(r, col, row)
           t == r.tiles[n]
<1>1. hextileState = "DROPRAW" /\ screen' = screen /\ hex' = hex
      /\ (hextileState' = "DONE" \/ hextileState' = "DROPRAW")
  BY DEF HextileDropRaw, HextileProcessing, DropOutOfViewPixels, TakePixels, lcdVars
<1>2. /\ t.raw # <<>> /\ ~BoxFits(r, col, row) /\ screen = UpTo(pic, r, n - 1)
      /\ Colours(r, n - 1)
  BY <1>1 DEF Drawn
<1>3. Colours(r, n)
  BY <1>2, TileKnown, RawGives
<1>4. UpTo(pic, r, n) = UpTo(pic, r, n - 1)
  BY <1>2, UpToSkips
<1>5. Colours(r, n)' /\ Colours(r, n - 1)'
  BY <1>1, <1>2, <1>3 DEF Colours
<1> QED
  BY <1>1, <1>2, <1>4, <1>5 DEF Drawn

\* The pixels at the front of the buffer are the next ones of a raw tile.
LEMMA NextPixels ==
    ASSUME TypeOK, NEW o \in Nat, NEW t \in Rfb!Tiles, t.raw # <<>>,
           Front(o, Rfb!TileEncoding(t)), InTile(o, t), hextileState = "DRAWRAW",
           NEW k \in Nat, k + interPixelCount = Len(t.raw),
           NEW m \in Nat, m <= interPixelCount, m * 2 <= Len(buf), NEW i \in 1..m
    PROVE  LittlePixel(buf[2*i - 1], buf[2*i]) = t.raw[k + i]
<1> DEFINE e == Rfb!TileEncoding(t)
           l == Len(t.raw)
           c == interPixelCount
<1>1. Len(buf) \in Nat /\ c \in Nat
  BY LenProperties DEF TypeOK, Ulongs
<1>2. l \in Nat
  BY TileTypes
<1>3. Len(e) = 1 + 2 * l /\ \A j \in 1..l : LittlePixel(e[2 * j], e[2 * j + 1]) = t.raw[j]
  BY RawTileShape
<1>4. o + 2 * c = Len(e)
  BY DEF InTile, TileLength
<1> HIDE DEF e, l, c
<1>5. k + c = l /\ m <= c
  BY DEF l, c
<1>6. o = 1 + 2 * k
  BY <1>1, <1>2, <1>3, <1>4, <1>5
<1>7. /\ 2 * i - 1 \in 1..Len(buf) /\ 2 * i \in 1..Len(buf) /\ k + i \in 1..l
      /\ o + (2 * i - 1) <= Len(e) /\ o + 2 * i <= Len(e)
      /\ o + (2 * i - 1) = 2 * (k + i) /\ o + 2 * i = 2 * (k + i) + 1
  BY <1>1, <1>2, <1>3, <1>5, <1>6
<1>8. buf[2 * i - 1] = e[2 * (k + i)] /\ buf[2 * i] = e[2 * (k + i) + 1]
  BY <1>7 DEF Front, e
<1>9. LittlePixel(e[2 * (k + i)], e[2 * (k + i) + 1]) = t.raw[k + i]
  BY <1>3, <1>7
<1> QED
  BY <1>8, <1>9

\* Some more pixels of a raw tile.
LEMMA RawMore ==
    ASSUME NEW pic, NEW r, NEW col, NEW row, NEW n, n = Rfb!TileNumber(r, col, row),
           TileFacts(r, col, row, n), DrawingRaw(pic, r, col, row),
           NEW k \in Nat, k = lcd.pos, NEW m \in Nat, NEW pixels, pixels = [i \in 1..m |-> pixels[i]],
           \A i \in 1..m : pixels[i] = r.tiles[n].raw[k + i], LcdWrite(pixels)
    PROVE  /\ screen' = RawSoFar(pic, r, col, row, k + m)
           /\ lcd' = [lcd EXCEPT !.pos = k + m]
<1>1. /\ lcd.x = Left(r, col) /\ lcd.y = Top(r, row)
      /\ lcd.w = Rfb!Side(r.w, col) /\ lcd.h = Rfb!Side(r.h, row)
      /\ screen = RawSoFar(pic, r, col, row, k)
  BY DEF DrawingRaw
<1>2. screen' = [p \in Pixels |-> IF InBox(r, col, row, p)
                                     /\ PixelOrder(r, col, row, p) + 1 - k \in 1..m
                                   THEN pixels[PixelOrder(r, col, row, p) + 1 - k] ELSE screen[p]]
  <2>1. DOMAIN pixels = 1..m
    OBVIOUS
  <2>2. screen' = [p \in Pixels |->
                    LET j == (p[2] - lcd.y) * lcd.w + (p[1] - lcd.x)
                    IN IF /\ p[1] \in lcd.x .. lcd.x + lcd.w - 1
                          /\ p[2] \in lcd.y .. lcd.y + lcd.h - 1
                          /\ j + 1 - lcd.pos \in DOMAIN pixels
                       THEN pixels[j + 1 - lcd.pos] ELSE screen[p]]
    BY DEF LcdWrite
  <2> QED
    BY <1>1, <2>1, <2>2, Zenon DEF InBox, PixelOrder
<1>3. ASSUME NEW p \in Pixels
      PROVE  screen'[p] = RawSoFar(pic, r, col, row, k + m)[p]
  <2> DEFINE j == PixelOrder(r, col, row, p)
             raw == r.tiles[n].raw
             in == InBox(r, col, row, p)
             old == UpTo(pic, r, n - 1)[p]
  <2>1. j \in Int
    BY OrderInTile
  <2>2. screen'[p] = IF in /\ j + 1 - k \in 1..m THEN pixels[j + 1 - k] ELSE screen[p]
    BY <1>2
  <2>3. screen[p] = IF in /\ j < k THEN raw[1 + j] ELSE old
    BY <1>1 DEF RawSoFar
  <2>4. RawSoFar(pic, r, col, row, k + m)[p] = IF in /\ j < k + m THEN raw[1 + j] ELSE old
    BY DEF RawSoFar
  <2> HIDE DEF j, raw, in, old
  <2>5. j + 1 - k \in 1..m => k + (j + 1 - k) = 1 + j /\ pixels[j + 1 - k] = raw[k + (j + 1 - k)]
    BY <2>1 DEF raw
  <2>6. j < k + m <=> j < k \/ j + 1 - k \in 1..m
    BY <2>1
  <2>7. ~(j < k /\ j + 1 - k \in 1..m)
    BY <2>1
  <2> QED
    BY <2>2, <2>3, <2>4, <2>5, <2>6, <2>7
<1>4. screen' = [p \in Pixels |-> screen'[p]]
  BY <1>2
<1>5. RawSoFar(pic, r, col, row, k + m) = [p \in Pixels |-> RawSoFar(pic, r, col, row, k + m)[p]]
  BY DEF RawSoFar
<1>6. screen' = RawSoFar(pic, r, col, row, k + m)
  BY <1>3, <1>4, <1>5
<1>7. Len(pixels) = m
  OBVIOUS
<1> QED
  BY <1>6, <1>7 DEF LcdWrite

\* The pixels of a raw tile go to the LCD as they come.
LEMMA RawDraws ==
    ASSUME TypeOK, NEW pic, NEW r, NEW col, NEW row, TileOfRect(r, col, row),
           Drawn(pic, r, col, row), NEW n, n = Rfb!TileNumber(r, col, row),
           NEW o \in Nat, InTile(o, r.tiles[n]), Front(o, Rfb!TileEncoding(r.tiles[n])),
           HextileDrawRaw
    PROVE  Drawn(pic, r, col, row)'
<1> DEFINE t == r.tiles[n]
<1>1. /\ hextileState = "DRAWRAW" /\ hex' = hex /\ DrawRawTile(PixelsTaken)
      /\ TakePixels(hextileState' = "DONE" /\ UNCHANGED VNCpixelProcessorState)
      /\ (AllPixelsHere => hextileState' = "DONE") /\ (~AllPixelsHere => hextileState' = "DRAWRAW")
  BY DEF HextileDrawRaw, HextileProcessing, TakePixels
<1>2. t.raw # <<>> /\ DrawingRaw(pic, r, col, row) /\ Colours(r, n - 1)
  BY <1>1 DEF Drawn
<1>3. TileFacts(r, col, row, n)
  BY TileKnown
<1>4. t \in Rfb!Tiles /\ Len(t.raw) \in Nat
  BY <1>3, TileTypes DEF TileFacts
<1>5. /\ BoxFits(r, col, row) /\ lcd.pos + interPixelCount = Len(t.raw)
  BY <1>2 DEF DrawingRaw
<1>6. /\ interPixelCount \in Nat /\ Len(buf) \in Nat /\ lcd.pos \in Nat
  BY LenProperties DEF TypeOK, Ulongs
<1>7. interPixelCount <= 256 /\ 2 * interPixelCount < UlongRange
  <2>1. interPixelCount <= 256
    BY <1>1 DEF InTile
  <2> QED
    BY <1>6, <2>1, UlongAssumption
<1> DEFINE taken == PixelsTaken
<1>8. /\ interPixelCount' \in Nat /\ Len(buf) - Len(buf') = 2 * (interPixelCount - interPixelCount')
      /\ interPixelCount' <= interPixelCount /\ (AllPixelsHere => interPixelCount' = 0)
  BY <1>1, <1>7, PixelsCounted
<1>9. taken \in Nat /\ taken * 2 <= Len(buf) /\ Len(buf') = Len(buf) - taken * 2
  <2>1. buf \in Seq(Byte) /\ interPixelCount \in Ulongs
    BY DEF TypeOK
  <2> QED
    BY <1>1, <2>1, PixelsTakenRange, PixelsFront DEF BYTES_PER_PIXEL
<1> HIDE DEF taken
<1>10. taken <= interPixelCount /\ interPixelCount' = interPixelCount - taken
  <2>1. PICK c : c = interPixelCount'
    OBVIOUS
  <2>2. PICK b : b = Len(buf')
    OBVIOUS
  <2>3. c \in Nat /\ c <= interPixelCount /\ Len(buf) - b = 2 * (interPixelCount - c)
    BY <1>8, <2>1, <2>2
  <2>4. b = Len(buf) - taken * 2
    BY <1>9, <2>2
  <2>5. taken <= interPixelCount /\ c = interPixelCount - taken
    BY <1>6, <1>9, <2>3, <2>4
  <2> QED
    BY <2>1, <2>5
<1>11. PICK k \in Nat : k = lcd.pos
  BY <1>6
<1> DEFINE px == [i \in 1..taken |-> LittlePixel(buf[2*i - 1], buf[2*i])]
<1>12. \A i \in 1..taken : px[i] = t.raw[k + i]
  <2> SUFFICES ASSUME NEW i \in 1..taken PROVE LittlePixel(buf[2*i - 1], buf[2*i]) = t.raw[k + i]
    OBVIOUS
  <2>1. k + interPixelCount = Len(t.raw)
    BY <1>5, <1>11
  <2> HIDE DEF t
  <2> QED
    BY <1>1, <1>2, <1>4, <1>9, <1>10, <2>1, NextPixels DEF t
<1>13. LcdWrite(px)
  BY <1>1 DEF DrawRawTile, taken
<1>14. px = [i \in 1..taken |-> px[i]]
  OBVIOUS
<1> HIDE DEF px
<1>15. screen' = RawSoFar(pic, r, col, row, k + taken) /\ lcd' = [lcd EXCEPT !.pos = k + taken]
  <2>1. PICK q, s : q = taken /\ s = px
    OBVIOUS
  <2>2. /\ q \in Nat /\ s = [i \in 1..q |-> s[i]] /\ LcdWrite(s)
        /\ \A i \in 1..q : s[i] = r.tiles[n].raw[k + i]
    BY <1>9, <1>12, <1>13, <1>14, <2>1
  <2>3. screen' = RawSoFar(pic, r, col, row, k + q) /\ lcd' = [lcd EXCEPT !.pos = k + q]
    BY <1>2, <1>3, <1>11, <2>2, RawMore, SMTT(30)
  <2> QED
    BY <2>1, <2>3
<1>16. Colours(r, n)' /\ Colours(r, n - 1)'
  <2>1. Colours(r, n)
    BY <1>2, <1>3, RawGives
  <2> QED
    BY <1>1, <1>2, <2>1 DEF Colours
<1>17. CASE AllPixelsHere
  <2>1. interPixelCount' = 0
    BY <1>8, <1>17
  <2>2. k + taken = Len(t.raw)
    BY <1>4, <1>5, <1>6, <1>9, <1>10, <1>11, <2>1
  <2>3. screen' = UpTo(pic, r, n)
    BY <1>2, <1>5, <1>15, <2>2, RawPictures
  <2> QED
    BY <1>1, <1>16, <1>17, <2>3 DEF Drawn
<1>18. CASE ~AllPixelsHere
  <2>1. lcd \in [x : Nat, y : Nat, w : Nat, h : Nat, pos : Nat]
    BY DEF TypeOK
  <2>2. /\ lcd'.x = lcd.x /\ lcd'.y = lcd.y /\ lcd'.w = lcd.w /\ lcd'.h = lcd.h /\ lcd'.pos = k + taken
    BY <1>15, <2>1
  <2>3. lcd'.pos + interPixelCount' = Len(t.raw)
    BY <1>4, <1>5, <1>6, <1>9, <1>10, <1>11, <2>2
  <2>4. DrawingRaw(pic, r, col, row)'
    BY <1>2, <1>15, <2>2, <2>3 DEF DrawingRaw
  <2> QED
    BY <1>1, <1>2, <1>16, <1>18, <2>4 DEF Drawn
<1> QED
  BY <1>17, <1>18

\* Whatever the step within a tile.
LEMMA StepDraws ==
    ASSUME TypeOK, NEW pic, NEW r, NEW col, NEW row, TileOfRect(r, col, row),
           TileIs(r, col, row), Drawn(pic, r, col, row), NEW t,
           t = r.tiles[Rfb!TileNumber(r, col, row)],
           NEW o \in Nat, InTile(o, t), Front(o, Rfb!TileEncoding(t)), TileActions
    PROVE  Drawn(pic, r, col, row)'
<1> DEFINE n == Rfb!TileNumber(r, col, row)
<1>1. t = r.tiles[n]
  OBVIOUS
<1> HIDE DEF n
<1>2. hextileState = "PARSEHEADER" => Front(0, Rfb!TileEncoding(t))
  BY DEF InTile
<1>3. CASE HextileWaitHeader \/ HextileSubrectOverrun \/ HextileWaitSubrect
  BY <1>3, WaitingDraws
<1>4. CASE HextileRawHeader
  <2>1. Front(0, Rfb!TileEncoding(t))
    BY <1>2, <1>4 DEF HextileRawHeader, HeaderHere, HextileProcessing
  <2> QED
    BY <1>1, <1>4, <2>1, RawHeaderDraws DEF n
<1>5. CASE HextileHeader
  <2>1. Front(0, Rfb!TileEncoding(t))
    BY <1>2, <1>5 DEF HextileHeader, HeaderHere, HextileProcessing
  <2> QED
    BY <1>1, <1>5, <2>1, HeaderDraws DEF n
<1>6. CASE HextileDropRaw
  BY <1>6, DropDraws
<1>7. CASE HextileDrawRaw
  BY <1>1, <1>7, RawDraws DEF n
<1>8. CASE HextileSubrect
  BY <1>1, <1>8, SubrectDraws DEF n
<1>9. CASE HextileBufferFilled
  BY <1>9, FilledDraws
<1>10. CASE HextileDrawTile
  BY <1>10, TileDraws
<1>11. CASE HextileSkipTile
  BY <1>11, SkipDraws
<1> QED
  BY <1>3, <1>4, <1>5, <1>6, <1>7, <1>8, <1>9, <1>10, <1>11 DEF TileActions
=============================================================================
