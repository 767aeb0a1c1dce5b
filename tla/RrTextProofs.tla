---------------------------- MODULE RrTextProofs ----------------------------
(***************************************************************************)
(* Drawing as text stays on the canvas, within each tile, over nothing     *)
(* that has been drawn, and ends where the next tile begins, for tiles of  *)
(* any number and depth whose parts have room in them.                     *)
(***************************************************************************)
EXTENDS RrText, SequenceTheorems, TLAPS

(***************************************************************************)
(* The invariant.                                                          *)
(***************************************************************************)
\* Positions of the canvas that drawing tile t from (px, py) may write to.
InTile(t, px, py, qx, qy) ==
  /\ px <= qx /\ qx < px + t.w
  /\ py - t.a <= qy /\ qy < py + t.d

\* Those that doing e at (px, py) may write to.
Covers(e, px, py, qx, qy) ==
  \/ /\ e.op = "print"
     /\ qy = py /\ px <= qx /\ qx < px + Len(e.s)
  \/ /\ e.op = "render"
     /\ InTile(e.tile, px, py, qx, qy)
  \/ /\ e.op = "justify"
     /\ px <= qx /\ qx < px + e.space
     /\ py - e.tile.a <= qy /\ qy < py + e.tile.d
  \/ /\ e.op = "bars"
     /\ qx = px \/ qx = px + e.w - 1
     /\ py <= qy /\ qy < py + e.k
  \/ /\ e.op = "row"
     /\ qy < py - FirstRow(e.tile) - Levels(e.tile)[e.j] + e.tile.a + e.tile.d
     /\ \/ py <= qy /\ px <= qx /\ qx < px + e.tile.w
        \/ py - e.tile.lines[e.j].a <= qy /\ px < qx /\ qx < px + e.tile.w - 1
  \/ /\ e.op = "part"
     /\ px <= qx /\ qx < px + e.tile.w - Columns(e.tile)[e.i]
     /\ py - e.tile.a <= qy /\ qy < py + e.tile.d

\* e fits where it is done, at (px, py), and leaves the cursor at (nx, ny).
Leads(e, px, py, nx, ny) ==
  \/ /\ e.op = "print" /\ Len(e.s) \in Nat /\ DOMAIN e.s = 1..Len(e.s)
     /\ nx = px + Len(e.s) /\ ny = py
  \/ /\ e.op = "at"
     /\ nx = e.x /\ ny = e.y
  \/ /\ e.op = "down"
     /\ nx = e.x /\ ny = py + 1
  \/ /\ e.op = "skip" /\ e.k \in Nat
     /\ nx = px + e.k /\ ny = e.y
  \/ /\ e.op = "render" /\ e.tile \in Parts /\ e.tile.a <= py
     /\ nx = px + e.tile.w /\ ny = py
  \/ /\ e.op = "justify" /\ e.tile \in Parts /\ e.tile.a <= py
     /\ e.space \in Nat /\ e.tile.w <= e.space
     /\ nx = px + e.space /\ ny = py
  \/ /\ e.op = "bars" /\ e.k \in Nat /\ e.w \in Nat /\ 2 <= e.w
     /\ nx = px /\ ny = py + e.k
  \/ /\ e.op = "row" /\ e.tile \in Parts /\ e.tile.type = "VLIST"
     /\ e.j \in DOMAIN e.tile.lines /\ e.x = px
     /\ FirstRow(e.tile) + Levels(e.tile)[e.j] <= py
     /\ nx = px + e.tile.w
     /\ ny = py - Levels(e.tile)[e.j] + Levels(e.tile)[Len(e.tile.lines)]
  \/ /\ e.op = "part" /\ e.tile \in Parts /\ e.tile.type = "HLIST"
     /\ e.i \in DOMAIN e.tile.tiles /\ e.tile.a <= py
     /\ nx = px + e.tile.w - Columns(e.tile)[e.i] /\ ny = py
  \/ /\ e.op = "return" /\ e.tile \in Parts /\ e.x \in Nat /\ e.y \in Nat
     /\ px = e.x + e.tile.w
     /\ nx = px /\ ny = e.y /\ (e.tile.type # "VLIST" => py = e.y)

\* e is done before f: they share no position, and what returns after e is
\* a tile around it.
Before(e, ex, ey, f, fx, fy) ==
  \A qx, qy \in Int :
    Covers(e, ex, ey, qx, qy) =>
      /\ ~Covers(f, fx, fy, qx, qy)
      /\ f.op = "return" => InTile(f.tile, f.x, f.y, qx, qy)

\* The stack s when the cursor is at (X[i], Y[i]) as s[i] is done.
Chain(s, X, Y) ==
  /\ s \in Seq({s[i] : i \in DOMAIN s})
  /\ X \in [1..Len(s) + 1 -> Nat] /\ Y \in [1..Len(s) + 1 -> Nat]
  /\ \A i \in 1..Len(s) : Leads(s[i], X[i], Y[i], X[i + 1], Y[i + 1])
  /\ \A i, j \in 1..Len(s) : i < j => Before(s[i], X[i], Y[i], s[j], X[j], Y[j])

\* What is still to be written is on the canvas, and not written to yet.
OnCanvas(X, Y) ==
  \A i \in 1..Len(todo) : \A qx, qy \in Int :
    Covers(todo[i], X[i], Y[i], qx, qy) =>
      /\ qx \in 0..Width - 1 /\ qy \in 0..Rows - 1
      /\ <<qx, qy>> \notin DOMAIN lines

\* Doing e at (px, py) writes c to (qx, qy).
Writes(e, px, py, qx, qy, c) ==
  \/ /\ e.op = "print"
     /\ qy = py /\ px <= qx /\ qx < px + Len(e.s) /\ e.s[qx - px + 1] = c
  \/ /\ e.op = "row"
     /\ LET t == e.tile
        IN  /\ e.j <= t.o + 1
            /\ qy = py - Levels(t)[e.j] + Levels(t)[t.o + 1]
            /\ \/ qx = px /\ c = Corners[t.b[t.o + 1]][1]
               \/ qx = px + t.w - 1 /\ c = Corners[t.b[t.o + 1]][2]

\* c is at (qx, qy), or will be before s[n] is done.
Sure(X, Y, n, qx, qy, c) ==
  \/ <<qx, qy>> \in DOMAIN lines /\ lines[<<qx, qy>>] = c
  \/ \E i \in 1..n - 1 : Writes(todo[i], X[i], Y[i], qx, qy, c)

CornersSure(X, Y) ==
  \A n \in 1..Len(todo) :
    LET r == todo[n]
        t == r.tile
    IN  r.op = "return" /\ t.type = "VLIST" /\ t.lines # <<>> =>
          /\ Sure(X, Y, n, r.x, r.y, Corners[t.b[t.o + 1]][1])
          /\ Sure(X, Y, n, r.x + t.w - 1, r.y, Corners[t.b[t.o + 1]][2])

Drawing(X, Y) ==
  /\ Chain(todo, X, Y) /\ X[1] = x /\ Y[1] = y
  /\ OnCanvas(X, Y) /\ CornersSure(X, Y)

LEMMA OneAndTwo ==
  ASSUME NEW e1, NEW e2, NEW e3
  PROVE  <<e1>> \o <<e2, e3>> = <<e1, e2, e3>>
<1>1. PICK S : S = {e1, e2, e3}
  OBVIOUS
<1>2. PICK s, t : s = <<e1>> \o <<e2, e3>> /\ t = <<e1, e2, e3>>
  OBVIOUS
<1>3. t \in Seq(S) /\ Len(t) = 3 /\ t[1] = e1 /\ t[2] = e2 /\ t[3] = e3
  BY <1>1, <1>2
<1>4. <<e1>> \in Seq(S) /\ <<e2, e3>> \in Seq(S)
  BY <1>1
<1>5. s \in Seq(S) /\ Len(s) = 3 /\ s[1] = e1 /\ s[2] = e2 /\ s[3] = e3
  BY <1>2, <1>4, ConcatProperties
<1>6. \A i \in 1..Len(s) : s[i] = t[i]
  BY <1>3, <1>5
<1> QED
  BY <1>2, <1>3, <1>5, <1>6, SeqEqual

LEMMA TileFacts ==
  ASSUME NEW t \in Parts
  PROVE  /\ t.w \in Nat /\ t.a \in Nat /\ t.d \in Nat /\ t.d > 0
         /\ t.type = "VLIST" => SizedVlist(t, Parts)
         /\ t.type = "HLIST" => SizedHlist(t, Parts)
         /\ t.type = "COMMENT" => SizedComment(t, Parts)
         /\ t.type \notin {"VLIST", "HLIST", "COMMENT"} =>
              Leaf(t) \in Seq(STRING) /\ Len(Leaf(t)) = t.w
<1>1. Sized(t, Parts)
  BY RrTextAssumption DEF AllSized
<1> QED
  BY <1>1 DEF Sized

\* The lines of a choice or loop, by the row of the tile they are drawn on.
LEMMA LineFacts ==
  ASSUME NEW t \in Parts, t.type = "VLIST", NEW j \in DOMAIN t.lines
  PROVE  /\ Len(t.lines) \in Nat /\ DOMAIN t.lines = 1..Len(t.lines)
         /\ 1 \in DOMAIN t.lines /\ Len(t.lines) \in DOMAIN t.lines
         /\ t.lines # <<>> /\ t.lines[j] \in Parts /\ t.b[j] \in DOMAIN Corners
         /\ FirstRow(t) \in Nat /\ Levels(t)[j] \in Nat /\ Levels(t)[1] = 0
         /\ t.lines[j].a <= FirstRow(t) + Levels(t)[j]
         /\ FirstRow(t) + Levels(t)[j] + t.lines[j].d <= t.a + t.d
         /\ t.lines[j].w + 2 <= t.w
         /\ t.o \in 0..1 /\ t.o + 1 \in DOMAIN t.lines /\ t.b[t.o + 1] \in DOMAIN Corners
         /\ FirstRow(t) + Levels(t)[t.o + 1] = t.a
<1>1. SizedVlist(t, Parts) /\ t.a \in Nat /\ t.d \in Nat
  BY TileFacts
<1>2. /\ Len(t.lines) \in Nat /\ DOMAIN t.lines = 1..Len(t.lines)
      /\ \A i \in DOMAIN t.lines : t.lines[i] \in Parts
  BY <1>1, LenProperties, ElementOfSeq DEF SizedVlist
<1>3. t.lines # <<>> /\ Len(t.lines) >= 1
  BY <1>2
<1>4. DEFINE row == Levels(t)
<1>5. /\ row \in [DOMAIN t.lines -> Nat] /\ row[1] = 0
      /\ \A k \in DOMAIN t.lines :
           /\ k + 1 \in DOMAIN t.lines =>
                row[k + 1] = row[k] + t.lines[k].d + 1 + t.lines[k + 1].a
           /\ FirstRow(t) + row[k] + t.lines[k].d <= t.a + t.d
           /\ t.lines[k].w + 2 <= t.w
      /\ t.lines[1].a <= FirstRow(t)
      /\ t.o + 1 \in DOMAIN t.lines /\ FirstRow(t) + row[t.o + 1] = t.a
  BY <1>1, <1>3 DEF SizedVlist
<1>6. t.o \in 0..1 /\ t.b \in [DOMAIN t.lines -> DOMAIN Corners]
  BY <1>1 DEF SizedVlist
<1>7. FirstRow(t) \in Nat
  BY <1>1 DEF FirstRow
<1>8. t.lines[j].a <= FirstRow(t) + row[j]
  <2>1. CASE j = 1
    BY <2>1, <1>5, <1>7
  <2>2. CASE j # 1
    <3>1. j - 1 \in DOMAIN t.lines /\ (j - 1) + 1 = j /\ j \in DOMAIN t.lines
      BY <1>2, <2>2
    <3>2. row[j] = row[j - 1] + t.lines[j - 1].d + 1 + t.lines[j].a
      BY <3>1, <1>5
    <3>3. row[j - 1] \in Nat /\ t.lines[j - 1].d \in Nat /\ t.lines[j].a \in Nat
      BY <3>1, <1>5, <1>2, TileFacts
    <3> QED
      BY <3>2, <3>3, <1>7
  <2> QED
    BY <2>1, <2>2
<1> QED
  BY SMTT(60), <1>2, <1>3, <1>5, <1>6, <1>7, <1>8

LEMMA NextLineFacts ==
  ASSUME NEW t \in Parts, t.type = "VLIST", NEW j \in DOMAIN t.lines, j # Len(t.lines)
  PROVE  /\ j + 1 \in DOMAIN t.lines
         /\ Levels(t)[j + 1] = Levels(t)[j] + t.lines[j].d + 1 + t.lines[j + 1].a
<1>1. SizedVlist(t, Parts) /\ t.lines # <<>>
  BY TileFacts, LineFacts
<1>2. j + 1 \in DOMAIN t.lines
  BY LineFacts
<1> QED
  BY <1>1, <1>2 DEF SizedVlist

\* The parts of a sequence, by the column of the tile they begin at.
LEMMA PartFacts ==
  ASSUME NEW t \in Parts, t.type = "HLIST"
  PROVE  /\ Len(t.tiles) \in Nat /\ DOMAIN t.tiles = 1..Len(t.tiles)
         /\ 1 \in DOMAIN t.tiles /\ Columns(t)[1] = 0
         /\ \A i \in DOMAIN t.tiles :
              /\ t.tiles[i] \in Parts /\ Columns(t)[i] \in Nat
              /\ t.tiles[i].a <= t.a /\ t.tiles[i].d <= t.d
              /\ Columns(t)[i] + t.tiles[i].w <= t.w
              /\ i = Len(t.tiles) => Columns(t)[i] + t.tiles[i].w = t.w
              /\ i # Len(t.tiles) => /\ i + 1 \in DOMAIN t.tiles
                                     /\ Columns(t)[i + 1] = Columns(t)[i] + t.tiles[i].w + 2
<1>1. SizedHlist(t, Parts)
  BY TileFacts
<1>2. /\ Len(t.tiles) \in Nat /\ DOMAIN t.tiles = 1..Len(t.tiles)
      /\ \A i \in DOMAIN t.tiles : t.tiles[i] \in Parts
  BY <1>1, LenProperties, ElementOfSeq DEF SizedHlist
<1>3. t.tiles # <<>> /\ Len(t.tiles) >= 1
  BY <1>1, <1>2 DEF SizedHlist
<1>4. /\ Columns(t) \in [DOMAIN t.tiles -> Nat] /\ Columns(t)[1] = 0
      /\ Columns(t)[Len(t.tiles)] + t.tiles[Len(t.tiles)].w = t.w
      /\ \A i \in DOMAIN t.tiles :
           /\ i + 1 \in DOMAIN t.tiles => Columns(t)[i + 1] = Columns(t)[i] + t.tiles[i].w + 2
           /\ Columns(t)[i] + t.tiles[i].w <= t.w
           /\ t.tiles[i].a <= t.a /\ t.tiles[i].d <= t.d
  BY <1>1 DEF SizedHlist
<1>5. \A i \in DOMAIN t.tiles : i # Len(t.tiles) => i + 1 \in DOMAIN t.tiles
  BY <1>2
<1> QED
  BY <1>2, <1>3, <1>4, <1>5

(***************************************************************************)
(* Stacks.                                                                 *)
(***************************************************************************)
LEMMA IsSeq ==
  ASSUME NEW S, NEW s \in Seq(S)
  PROVE  s \in Seq({s[i] : i \in DOMAIN s})
<1> DEFINE T == {s[i] : i \in DOMAIN s}
<1>1. Len(s) \in Nat /\ DOMAIN s = 1..Len(s) /\ s \in [1..Len(s) -> S]
  BY LenProperties
<1>2. s \in [1..Len(s) -> T]
  BY <1>1
<1> HIDE DEF T
<1>3. s \in Seq(T)
  BY <1>1, <1>2, SeqDef
<1> QED
  BY <1>3 DEF T

LEMMA TimesFacts ==
  ASSUME NEW k \in Nat, NEW c
  PROVE  Len(Times(k, c)) = k /\ DOMAIN Times(k, c) = 1..k
<1>1. Times(k, c) \in [1..k -> {c}]
  BY DEF Times
<1>2. Times(k, c) \in Seq({c})
  BY <1>1, SeqDef
<1>3. Len(Times(k, c)) \in Nat /\ DOMAIN Times(k, c) = 1..Len(Times(k, c))
  BY <1>2, LenProperties
<1>4. DOMAIN Times(k, c) = 1..k
  BY <1>1
<1>5. \A n \in Nat : 1..n = 1..k => n = k
  <2> SUFFICES ASSUME NEW n \in Nat, 1..n = 1..k PROVE n = k
    OBVIOUS
  <2>1. n <= k
    <3>1. CASE n = 0
      BY <3>1
    <3>2. CASE n # 0
      <4>1. n \in 1..n
        BY <3>2
      <4> QED
        BY <4>1
    <3> QED
      BY <3>1, <3>2
  <2>2. k <= n
    <3>1. CASE k = 0
      BY <3>1
    <3>2. CASE k # 0
      <4>1. k \in 1..k
        BY <3>2
      <4> QED
        BY <4>1
    <3> QED
      BY <3>1, <3>2
  <2> QED
    BY <2>1, <2>2
<1> QED
  BY <1>3, <1>4, <1>5

\* Where what follows the first n of a stack begins, when U is spliced in.
Spliced(U, n, X, m) == [i \in 1..n + m |-> IF i <= n THEN U[i] ELSE X[i - n + 1]]

\* The first of a stack is replaced by what is done where it is, and leads
\* where it leads.
LEMMA Replaced ==
  ASSUME NEW s, NEW X, NEW Y, Chain(s, X, Y), s # <<>>,
         NEW new, NEW U, NEW V, Chain(new, U, V),
         U[Len(new) + 1] = X[2], V[Len(new) + 1] = Y[2],
         \A i \in 1..Len(new) : \A qx, qy \in Int :
           Covers(new[i], U[i], V[i], qx, qy) => Covers(s[1], X[1], Y[1], qx, qy)
  PROVE  LET k == Len(new)
             r == new \o Tail(s)
             X2 == Spliced(U, k, X, Len(s))
             Y2 == Spliced(V, k, Y, Len(s))
         IN  /\ k \in Nat /\ Len(s) \in Nat /\ Len(s) > 0
             /\ Len(r) = k + Len(s) - 1
             /\ \A i \in 1..Len(r) : i \in 1..k \/ \E m \in 2..Len(s) : i = m + k - 1
             /\ \A i \in 1..k : r[i] = new[i] /\ X2[i] = U[i] /\ Y2[i] = V[i]
             /\ \A i \in 2..Len(s) : r[i + k - 1] = s[i] /\ X2[i + k - 1] = X[i]
                  /\ Y2[i + k - 1] = Y[i]
             /\ X2[1] = U[1] /\ Y2[1] = V[1]
             /\ Chain(r, X2, Y2)
<1> DEFINE k == Len(new)
           r == new \o Tail(s)
           S == {s[i] : i \in DOMAIN s} \union {new[i] : i \in DOMAIN new}
           X2 == Spliced(U, k, X, Len(s))
           Y2 == Spliced(V, k, Y, Len(s))
<1>1. s \in Seq(S) /\ new \in Seq(S)
  <2>1. s \in Seq({s[i] : i \in DOMAIN s}) /\ new \in Seq({new[i] : i \in DOMAIN new})
    BY DEF Chain
  <2> QED
    BY <2>1, SeqMonotonic
<1> HIDE DEF S
<1>2. k \in Nat /\ Len(s) \in Nat /\ Len(s) > 0
  BY <1>1, EmptySeq, LenProperties
<1>3. /\ Tail(s) \in Seq(S) /\ Len(Tail(s)) = Len(s) - 1
      /\ \A i \in 1..Len(s) - 1 : Tail(s)[i] = s[i + 1]
  BY <1>1, HeadTailProperties
<1>4. /\ r \in Seq(S) /\ Len(r) = k + (Len(s) - 1)
      /\ \A i \in 1..k + (Len(s) - 1) : r[i] = IF i <= k THEN new[i] ELSE Tail(s)[i - k]
  BY <1>1, <1>2, <1>3, ConcatProperties
<1> HIDE DEF k, r
<1>5. \A i \in 1..k : r[i] = new[i]
  BY <1>2, <1>4
<1>6. \A i \in 2..Len(s) : r[i + k - 1] = s[i]
  <2> SUFFICES ASSUME NEW i \in 2..Len(s) PROVE r[i + k - 1] = s[i]
    OBVIOUS
  <2>1. PICK j \in 1..k + (Len(s) - 1) : j = i + k - 1 /\ ~(j <= k) /\ j - k = i - 1
    BY <1>2
  <2>2. r[j] = Tail(s)[j - k]
    BY <1>4, <2>1
  <2>3. i - 1 \in 1..Len(s) - 1 /\ (i - 1) + 1 = i
    BY <1>2
  <2>4. Tail(s)[i - 1] = s[i]
    BY <1>3, <2>3
  <2> QED
    BY <2>1, <2>2, <2>4
<1>7. /\ X \in [1..Len(s) + 1 -> Nat] /\ Y \in [1..Len(s) + 1 -> Nat]
      /\ U \in [1..k + 1 -> Nat] /\ V \in [1..k + 1 -> Nat]
      /\ U[k + 1] = X[2] /\ V[k + 1] = Y[2]
  BY DEF Chain, k
<1>8. \A i \in 1..k : X2[i] = U[i] /\ Y2[i] = V[i]
  BY <1>2 DEF Spliced
<1>9. \A i \in 2..Len(s) + 1 : X2[i + k - 1] = X[i] /\ Y2[i + k - 1] = Y[i]
  <2> SUFFICES ASSUME NEW i \in 2..Len(s) + 1 PROVE X2[i + k - 1] = X[i] /\ Y2[i + k - 1] = Y[i]
    OBVIOUS
  <2>1. PICK j \in 1..k + Len(s) : j = i + k - 1 /\ ~(j <= k) /\ j - k + 1 = i
    BY <1>2
  <2>2. X2[j] = X[j - k + 1] /\ Y2[j] = Y[j - k + 1]
    BY <2>1 DEF Spliced
  <2> QED
    BY <2>1, <2>2
<1>10. /\ X2 \in [1..k + Len(s) -> Nat] /\ Y2 \in [1..k + Len(s) -> Nat]
  <2> SUFFICES ASSUME NEW i \in 1..k + Len(s)
               PROVE  /\ IF i <= k THEN U[i] \in Nat ELSE X[i - k + 1] \in Nat
                      /\ IF i <= k THEN V[i] \in Nat ELSE Y[i - k + 1] \in Nat
    BY DEF Spliced
  <2>1. CASE i <= k
    BY <2>1, <1>2, <1>7
  <2>2. CASE ~(i <= k)
    <3>1. i - k + 1 \in 1..Len(s) + 1
      BY <2>2, <1>2
    <3> QED
      BY <2>2, <3>1, <1>7
  <2> QED
    BY <2>1, <2>2
<1> HIDE DEF X2, Y2
<1>11. \A i \in 1..k + 1 : X2[i] = U[i] /\ Y2[i] = V[i]
  <2>1. X2[k + 1] = X[2] /\ Y2[k + 1] = Y[2]
    <3>1. 2 \in 2..Len(s) + 1 /\ 2 + k - 1 = k + 1
      BY <1>2
    <3> QED
      BY <3>1, <1>9
  <2> QED
    BY SMTT(60), <2>1, <1>2, <1>7, <1>8
<1>12. \A i \in 1..Len(r) : \/ i \in 1..k
                            \/ \E m \in 2..Len(s) : i = m + k - 1
  <2> SUFFICES ASSUME NEW i \in 1..Len(r), i \notin 1..k
               PROVE  \E m \in 2..Len(s) : i = m + k - 1
    OBVIOUS
  <2>1. i - k + 1 \in 2..Len(s) /\ i = (i - k + 1) + k - 1
    BY <1>2, <1>4
  <2> QED
    BY <2>1
<1>13. \A i \in 1..Len(r) : Leads(r[i], X2[i], Y2[i], X2[i + 1], Y2[i + 1])
  <2>1. ASSUME NEW i \in 1..k
        PROVE  Leads(r[i], X2[i], Y2[i], X2[i + 1], Y2[i + 1])
    <3>1. i + 1 \in 1..k + 1 /\ i \in 1..k + 1
      BY <1>2
    <3>2. Leads(new[i], U[i], V[i], U[i + 1], V[i + 1])
      BY DEF Chain, k
    <3> QED
      BY <3>1, <3>2, <1>5, <1>11
  <2>2. ASSUME NEW m \in 2..Len(s)
        PROVE  Leads(r[m + k - 1], X2[m + k - 1], Y2[m + k - 1], X2[m + k - 1 + 1],
          Y2[m + k - 1 + 1])
    <3>1. m \in 2..Len(s) + 1 /\ m + 1 \in 2..Len(s) + 1 /\ (m + 1) + k - 1 = m + k - 1 + 1
            /\ m \in 1..Len(s)
      BY <1>2
    <3>2. Leads(s[m], X[m], Y[m], X[m + 1], Y[m + 1])
      BY <3>1 DEF Chain
    <3> QED
      BY <3>1, <3>2, <1>6, <1>9
  <2> QED
    BY <2>1, <2>2, <1>12
<1>14. \A i, j \in 1..Len(r) : i < j => Before(r[i], X2[i], Y2[i], r[j], X2[j], Y2[j])
  <2>1. ASSUME NEW i \in 1..k, NEW j \in 1..k, i < j
        PROVE  Before(r[i], X2[i], Y2[i], r[j], X2[j], Y2[j])
    BY <2>1, <1>5, <1>8 DEF Chain, k
  <2>2. ASSUME NEW i \in 1..k, NEW m \in 2..Len(s)
        PROVE  Before(r[i], X2[i], Y2[i], r[m + k - 1], X2[m + k - 1], Y2[m + k - 1])
    <3>1. Before(s[1], X[1], Y[1], s[m], X[m], Y[m])
      <4>1. 1 \in 1..Len(s) /\ m \in 1..Len(s) /\ 1 < m
        BY <1>2
      <4> QED
        BY <4>1 DEF Chain
    <3>2. \A qx, qy \in Int :
            Covers(new[i], U[i], V[i], qx, qy) => Covers(s[1], X[1], Y[1], qx, qy)
      BY DEF k
    <3>3. Before(new[i], U[i], V[i], s[m], X[m], Y[m])
      BY <3>1, <3>2 DEF Before
    <3>4. m \in 2..Len(s) + 1
      BY <1>2
    <3> QED
      BY <3>3, <3>4, <1>5, <1>6, <1>8, <1>9
  <2>3. ASSUME NEW m \in 2..Len(s), NEW n \in 2..Len(s), m < n
        PROVE  Before(r[m + k - 1], X2[m + k - 1], Y2[m + k - 1], r[n + k - 1], X2[n + k - 1],
          Y2[n + k - 1])
    <3>1. m \in 2..Len(s) + 1 /\ n \in 2..Len(s) + 1 /\ m \in 1..Len(s) /\ n \in 1..Len(s)
      BY <1>2
    <3>2. Before(s[m], X[m], Y[m], s[n], X[n], Y[n])
      BY <2>3, <3>1 DEF Chain
    <3> QED
      BY <3>1, <3>2, <1>6, <1>9
  <2> SUFFICES ASSUME NEW i \in 1..Len(r), NEW j \in 1..Len(r), i < j
               PROVE  Before(r[i], X2[i], Y2[i], r[j], X2[j], Y2[j])
    OBVIOUS
  <2>4. CASE i \in 1..k /\ j \in 1..k
    BY <2>4, <2>1
  <2>5. CASE i \in 1..k /\ j \notin 1..k
    <3>1. PICK m \in 2..Len(s) : j = m + k - 1
      BY <2>5, <1>12
    <3> QED
      BY <2>2, <2>5, <3>1
  <2>6. CASE i \notin 1..k
    <3>1. PICK m \in 2..Len(s) : i = m + k - 1
      BY <2>6, <1>12
    <3>2. j \notin 1..k
      BY <1>2, <2>6
    <3>3. PICK n \in 2..Len(s) : j = n + k - 1
      BY <3>2, <1>12
    <3>4. m < n
      BY <3>1, <3>3, <1>2
    <3> QED
      BY <2>3, <3>1, <3>3, <3>4
  <2> QED
    BY <2>4, <2>5, <2>6
<1>15. r \in Seq({r[i] : i \in DOMAIN r})
  BY <1>4, IsSeq
<1>16. Len(r) + 1 = k + Len(s)
  BY <1>2, <1>4
<1>17. Chain(r, X2, Y2)
  BY <1>10, <1>13, <1>14, <1>15, <1>16 DEF Chain
<1>18. X2[1] = U[1] /\ Y2[1] = V[1]
  <2>1. 1 \in 1..k + 1
    BY <1>2
  <2> QED
    BY <2>1, <1>11
<1>19. \A i \in 2..Len(s) : X2[i + k - 1] = X[i] /\ Y2[i + k - 1] = Y[i]
  BY <1>2, <1>9
<1>20. Len(r) = k + Len(s) - 1
  BY <1>2, <1>4
<1> QED
  BY <1>2, <1>5, <1>6, <1>8, <1>12, <1>17, <1>18, <1>19, <1>20 DEF k, r, X2, Y2
(***************************************************************************)
(* What can be on the stack.                                               *)
(***************************************************************************)
NoReturn(e) == e.op # "return"
Quiet(e, px, py) == NoReturn(e) /\ \A qx, qy \in Int : ~Covers(e, px, py, qx, qy)

LEMMA QuietBefore ==
  ASSUME NEW e, NEW ex, NEW ey, NEW f, NEW fx, NEW fy,
         \/ \A qx, qy \in Int : ~Covers(e, ex, ey, qx, qy)
         \/ Quiet(f, fx, fy)
  PROVE  Before(e, ex, ey, f, fx, fy)
BY DEF Before, Quiet, NoReturn

(***************************************************************************)
(* Chains of so many.                                                      *)
(***************************************************************************)
LEMMA ChainOf0 ==
  ASSUME NEW u \in Nat, NEW v \in Nat
  PROVE  Chain(<<>>, <<u>>, <<v>>)
BY DEF Chain

LEMMA ChainOf1 ==
  ASSUME NEW e1,
         NEW u1 \in Nat, NEW u2 \in Nat,
         NEW v1 \in Nat, NEW v2 \in Nat,
         Leads(e1, u1, v1, u2, v2)
  PROVE  Chain(<<e1>>, <<u1, u2>>, <<v1, v2>>)
<1> DEFINE s == <<e1>>
           X == <<u1, u2>>
           Y == <<v1, v2>>
<1>1. /\ Len(s) = 1 /\ DOMAIN s = 1..1 /\ s \in Seq({e1})
      /\ s[1] = e1
  OBVIOUS
<1>2. /\ X \in [1..2 -> Nat] /\ X[1] = u1 /\ X[2] = u2
      /\ Y \in [1..2 -> Nat] /\ Y[1] = v1 /\ Y[2] = v2
  OBVIOUS
<1>3. s \in Seq({s[i] : i \in DOMAIN s})
  BY <1>1, IsSeq
<1> HIDE DEF s, X, Y
<1>4. /\ Leads(s[1], X[1], Y[1], X[2], Y[2])
  BY <1>1, <1>2
<1>5. \A i \in 1..1 : Leads(s[i], X[i], Y[i], X[i + 1], Y[i + 1])
  <2>1. \A i \in 1..1 : (i = 1 /\ i + 1 = 2)
    OBVIOUS
  <2> QED
    BY <1>4, <2>1, Zenon
<1>6. \A i, j \in 1..1 : i < j => Before(s[i], X[i], Y[i], s[j], X[j], Y[j])
  OBVIOUS
<1>7. Len(s) + 1 = 2
  BY <1>1
<1>8. Chain(s, X, Y)
  BY <1>1, <1>2, <1>3, <1>5, <1>6, <1>7 DEF Chain
<1> QED
  BY <1>8 DEF s, X, Y

LEMMA ChainOf2 ==
  ASSUME NEW e1, NEW e2,
         NEW u1 \in Nat, NEW u2 \in Nat, NEW u3 \in Nat,
         NEW v1 \in Nat, NEW v2 \in Nat, NEW v3 \in Nat,
         Leads(e1, u1, v1, u2, v2),
         Leads(e2, u2, v2, u3, v3),
         Before(e1, u1, v1, e2, u2, v2)
  PROVE  Chain(<<e1, e2>>, <<u1, u2, u3>>, <<v1, v2, v3>>)
<1> DEFINE s == <<e1, e2>>
           X == <<u1, u2, u3>>
           Y == <<v1, v2, v3>>
<1>1. /\ Len(s) = 2 /\ DOMAIN s = 1..2 /\ s \in Seq({e1, e2})
      /\ s[1] = e1 /\ s[2] = e2
  OBVIOUS
<1>2. /\ X \in [1..3 -> Nat] /\ X[1] = u1 /\ X[2] = u2 /\ X[3] = u3
      /\ Y \in [1..3 -> Nat] /\ Y[1] = v1 /\ Y[2] = v2 /\ Y[3] = v3
  OBVIOUS
<1>3. s \in Seq({s[i] : i \in DOMAIN s})
  BY <1>1, IsSeq
<1> HIDE DEF s, X, Y
<1>4. /\ Leads(s[1], X[1], Y[1], X[2], Y[2])
      /\ Leads(s[2], X[2], Y[2], X[3], Y[3])
  BY <1>1, <1>2
<1>5. \A i \in 1..2 : Leads(s[i], X[i], Y[i], X[i + 1], Y[i + 1])
  <2>1. \A i \in 1..2 : (i = 1 /\ i + 1 = 2) \/ (i = 2 /\ i + 1 = 3)
    OBVIOUS
  <2> QED
    BY <1>4, <2>1, Zenon
<1>6. \A i, j \in 1..2 : i < j => Before(s[i], X[i], Y[i], s[j], X[j], Y[j])
  <2>1. /\ Before(s[1], X[1], Y[1], s[2], X[2], Y[2])
    BY <1>1, <1>2
  <2>2. \A i, j \in 1..2 : i < j =>
          \/ i = 1 /\ j = 2
    OBVIOUS
  <2> QED
    BY <2>1, <2>2, Zenon
<1>7. Len(s) + 1 = 3
  BY <1>1
<1>8. Chain(s, X, Y)
  BY <1>1, <1>2, <1>3, <1>5, <1>6, <1>7 DEF Chain
<1> QED
  BY <1>8 DEF s, X, Y

LEMMA ChainOf3 ==
  ASSUME NEW e1, NEW e2, NEW e3,
         NEW u1 \in Nat, NEW u2 \in Nat, NEW u3 \in Nat, NEW u4 \in Nat,
         NEW v1 \in Nat, NEW v2 \in Nat, NEW v3 \in Nat, NEW v4 \in Nat,
         Leads(e1, u1, v1, u2, v2),
         Leads(e2, u2, v2, u3, v3),
         Leads(e3, u3, v3, u4, v4),
         Before(e1, u1, v1, e2, u2, v2),
         Before(e1, u1, v1, e3, u3, v3),
         Before(e2, u2, v2, e3, u3, v3)
  PROVE  Chain(<<e1, e2, e3>>, <<u1, u2, u3, u4>>, <<v1, v2, v3, v4>>)
<1> DEFINE s == <<e1, e2, e3>>
           X == <<u1, u2, u3, u4>>
           Y == <<v1, v2, v3, v4>>
<1>1. /\ Len(s) = 3 /\ DOMAIN s = 1..3 /\ s \in Seq({e1, e2, e3})
      /\ s[1] = e1 /\ s[2] = e2 /\ s[3] = e3
  OBVIOUS
<1>2. /\ X \in [1..4 -> Nat] /\ X[1] = u1 /\ X[2] = u2 /\ X[3] = u3 /\ X[4] = u4
      /\ Y \in [1..4 -> Nat] /\ Y[1] = v1 /\ Y[2] = v2 /\ Y[3] = v3 /\ Y[4] = v4
  OBVIOUS
<1>3. s \in Seq({s[i] : i \in DOMAIN s})
  BY <1>1, IsSeq
<1> HIDE DEF s, X, Y
<1>4. /\ Leads(s[1], X[1], Y[1], X[2], Y[2])
      /\ Leads(s[2], X[2], Y[2], X[3], Y[3])
      /\ Leads(s[3], X[3], Y[3], X[4], Y[4])
  BY <1>1, <1>2
<1>5. \A i \in 1..3 : Leads(s[i], X[i], Y[i], X[i + 1], Y[i + 1])
  <2>1. \A i \in 1..3 : (i = 1 /\ i + 1 = 2) \/ (i = 2 /\ i + 1 = 3) \/ (i = 3 /\ i + 1 = 4)
    OBVIOUS
  <2> QED
    BY <1>4, <2>1, Zenon
<1>6. \A i, j \in 1..3 : i < j => Before(s[i], X[i], Y[i], s[j], X[j], Y[j])
  <2>1. /\ Before(s[1], X[1], Y[1], s[2], X[2], Y[2])
        /\ Before(s[1], X[1], Y[1], s[3], X[3], Y[3])
        /\ Before(s[2], X[2], Y[2], s[3], X[3], Y[3])
    BY <1>1, <1>2
  <2>2. \A i, j \in 1..3 : i < j =>
          \/ i = 1 /\ j = 2
          \/ i = 1 /\ j = 3
          \/ i = 2 /\ j = 3
    OBVIOUS
  <2> QED
    BY <2>1, <2>2, Zenon
<1>7. Len(s) + 1 = 4
  BY <1>1
<1>8. Chain(s, X, Y)
  BY <1>1, <1>2, <1>3, <1>5, <1>6, <1>7 DEF Chain
<1> QED
  BY <1>8 DEF s, X, Y

LEMMA ChainOf5 ==
  ASSUME NEW e1, NEW e2, NEW e3, NEW e4, NEW e5,
         NEW u1 \in Nat, NEW u2 \in Nat, NEW u3 \in Nat, NEW u4 \in Nat, NEW u5 \in Nat,
         NEW u6 \in Nat,
         NEW v1 \in Nat, NEW v2 \in Nat, NEW v3 \in Nat, NEW v4 \in Nat, NEW v5 \in Nat,
         NEW v6 \in Nat,
         Leads(e1, u1, v1, u2, v2),
         Leads(e2, u2, v2, u3, v3),
         Leads(e3, u3, v3, u4, v4),
         Leads(e4, u4, v4, u5, v5),
         Leads(e5, u5, v5, u6, v6),
         Before(e1, u1, v1, e2, u2, v2),
         Before(e1, u1, v1, e3, u3, v3),
         Before(e1, u1, v1, e4, u4, v4),
         Before(e1, u1, v1, e5, u5, v5),
         Before(e2, u2, v2, e3, u3, v3),
         Before(e2, u2, v2, e4, u4, v4),
         Before(e2, u2, v2, e5, u5, v5),
         Before(e3, u3, v3, e4, u4, v4),
         Before(e3, u3, v3, e5, u5, v5),
         Before(e4, u4, v4, e5, u5, v5)
  PROVE  Chain(<<e1, e2, e3, e4, e5>>, <<u1, u2, u3, u4, u5, u6>>, <<v1, v2, v3, v4, v5, v6>>)
<1> DEFINE s == <<e1, e2, e3, e4, e5>>
           X == <<u1, u2, u3, u4, u5, u6>>
           Y == <<v1, v2, v3, v4, v5, v6>>
<1>1. /\ Len(s) = 5 /\ DOMAIN s = 1..5 /\ s \in Seq({e1, e2, e3, e4, e5})
      /\ s[1] = e1 /\ s[2] = e2 /\ s[3] = e3 /\ s[4] = e4 /\ s[5] = e5
  OBVIOUS
<1>2. /\ X \in [1..6 -> Nat] /\ X[1] = u1 /\ X[2] = u2 /\ X[3] = u3 /\ X[4] = u4
           /\ X[5] = u5 /\ X[6] = u6
      /\ Y \in [1..6 -> Nat] /\ Y[1] = v1 /\ Y[2] = v2 /\ Y[3] = v3 /\ Y[4] = v4
           /\ Y[5] = v5 /\ Y[6] = v6
  OBVIOUS
<1>3. s \in Seq({s[i] : i \in DOMAIN s})
  BY <1>1, IsSeq
<1> HIDE DEF s, X, Y
<1>4. /\ Leads(s[1], X[1], Y[1], X[2], Y[2])
      /\ Leads(s[2], X[2], Y[2], X[3], Y[3])
      /\ Leads(s[3], X[3], Y[3], X[4], Y[4])
      /\ Leads(s[4], X[4], Y[4], X[5], Y[5])
      /\ Leads(s[5], X[5], Y[5], X[6], Y[6])
  BY <1>1, <1>2
<1>5. \A i \in 1..5 : Leads(s[i], X[i], Y[i], X[i + 1], Y[i + 1])
  <2>1. \A i \in 1..5 : (i = 1 /\ i + 1 = 2) \/ (i = 2 /\ i + 1 = 3) \/ (i = 3 /\ i + 1 = 4)
          \/ (i = 4 /\ i + 1 = 5) \/ (i = 5 /\ i + 1 = 6)
    OBVIOUS
  <2> QED
    BY <1>4, <2>1, Zenon
<1>6. \A i, j \in 1..5 : i < j => Before(s[i], X[i], Y[i], s[j], X[j], Y[j])
  <2>1. /\ Before(s[1], X[1], Y[1], s[2], X[2], Y[2])
        /\ Before(s[1], X[1], Y[1], s[3], X[3], Y[3])
        /\ Before(s[1], X[1], Y[1], s[4], X[4], Y[4])
        /\ Before(s[1], X[1], Y[1], s[5], X[5], Y[5])
        /\ Before(s[2], X[2], Y[2], s[3], X[3], Y[3])
        /\ Before(s[2], X[2], Y[2], s[4], X[4], Y[4])
        /\ Before(s[2], X[2], Y[2], s[5], X[5], Y[5])
        /\ Before(s[3], X[3], Y[3], s[4], X[4], Y[4])
        /\ Before(s[3], X[3], Y[3], s[5], X[5], Y[5])
        /\ Before(s[4], X[4], Y[4], s[5], X[5], Y[5])
    BY <1>1, <1>2
  <2>2. \A i, j \in 1..5 : i < j =>
          \/ i = 1 /\ j = 2
          \/ i = 1 /\ j = 3
          \/ i = 1 /\ j = 4
          \/ i = 1 /\ j = 5
          \/ i = 2 /\ j = 3
          \/ i = 2 /\ j = 4
          \/ i = 2 /\ j = 5
          \/ i = 3 /\ j = 4
          \/ i = 3 /\ j = 5
          \/ i = 4 /\ j = 5
    OBVIOUS
  <2> QED
    BY <2>1, <2>2, Zenon
<1>7. Len(s) + 1 = 6
  BY <1>1
<1>8. Chain(s, X, Y)
  BY <1>1, <1>2, <1>3, <1>5, <1>6, <1>7 DEF Chain
<1> QED
  BY <1>8 DEF s, X, Y

LEMMA ChainOf6 ==
  ASSUME NEW e1, NEW e2, NEW e3, NEW e4, NEW e5, NEW e6,
         NEW u1 \in Nat, NEW u2 \in Nat, NEW u3 \in Nat, NEW u4 \in Nat, NEW u5 \in Nat,
         NEW u6 \in Nat, NEW u7 \in Nat,
         NEW v1 \in Nat, NEW v2 \in Nat, NEW v3 \in Nat, NEW v4 \in Nat, NEW v5 \in Nat,
         NEW v6 \in Nat, NEW v7 \in Nat,
         Leads(e1, u1, v1, u2, v2),
         Leads(e2, u2, v2, u3, v3),
         Leads(e3, u3, v3, u4, v4),
         Leads(e4, u4, v4, u5, v5),
         Leads(e5, u5, v5, u6, v6),
         Leads(e6, u6, v6, u7, v7),
         Before(e1, u1, v1, e2, u2, v2),
         Before(e1, u1, v1, e3, u3, v3),
         Before(e1, u1, v1, e4, u4, v4),
         Before(e1, u1, v1, e5, u5, v5),
         Before(e1, u1, v1, e6, u6, v6),
         Before(e2, u2, v2, e3, u3, v3),
         Before(e2, u2, v2, e4, u4, v4),
         Before(e2, u2, v2, e5, u5, v5),
         Before(e2, u2, v2, e6, u6, v6),
         Before(e3, u3, v3, e4, u4, v4),
         Before(e3, u3, v3, e5, u5, v5),
         Before(e3, u3, v3, e6, u6, v6),
         Before(e4, u4, v4, e5, u5, v5),
         Before(e4, u4, v4, e6, u6, v6),
         Before(e5, u5, v5, e6, u6, v6)
  PROVE  Chain(<<e1, e2, e3, e4, e5, e6>>, <<u1, u2, u3, u4, u5, u6, u7>>, <<v1, v2, v3, v4,
    v5, v6, v7>>)
<1> DEFINE s == <<e1, e2, e3, e4, e5, e6>>
           X == <<u1, u2, u3, u4, u5, u6, u7>>
           Y == <<v1, v2, v3, v4, v5, v6, v7>>
<1>1. /\ Len(s) = 6 /\ DOMAIN s = 1..6 /\ s \in Seq({e1, e2, e3, e4, e5, e6})
      /\ s[1] = e1 /\ s[2] = e2 /\ s[3] = e3 /\ s[4] = e4 /\ s[5] = e5 /\ s[6] = e6
  OBVIOUS
<1>2. /\ X \in [1..7 -> Nat] /\ X[1] = u1 /\ X[2] = u2 /\ X[3] = u3 /\ X[4] = u4
           /\ X[5] = u5 /\ X[6] = u6 /\ X[7] = u7
      /\ Y \in [1..7 -> Nat] /\ Y[1] = v1 /\ Y[2] = v2 /\ Y[3] = v3 /\ Y[4] = v4
           /\ Y[5] = v5 /\ Y[6] = v6 /\ Y[7] = v7
  OBVIOUS
<1>3. s \in Seq({s[i] : i \in DOMAIN s})
  BY <1>1, IsSeq
<1> HIDE DEF s, X, Y
<1>4. /\ Leads(s[1], X[1], Y[1], X[2], Y[2])
      /\ Leads(s[2], X[2], Y[2], X[3], Y[3])
      /\ Leads(s[3], X[3], Y[3], X[4], Y[4])
      /\ Leads(s[4], X[4], Y[4], X[5], Y[5])
      /\ Leads(s[5], X[5], Y[5], X[6], Y[6])
      /\ Leads(s[6], X[6], Y[6], X[7], Y[7])
  BY <1>1, <1>2
<1>5. \A i \in 1..6 : Leads(s[i], X[i], Y[i], X[i + 1], Y[i + 1])
  <2>1. \A i \in 1..6 : (i = 1 /\ i + 1 = 2) \/ (i = 2 /\ i + 1 = 3) \/ (i = 3 /\ i + 1 = 4)
          \/ (i = 4 /\ i + 1 = 5) \/ (i = 5 /\ i + 1 = 6) \/ (i = 6 /\ i + 1 = 7)
    OBVIOUS
  <2> QED
    BY <1>4, <2>1, Zenon
<1>6. \A i, j \in 1..6 : i < j => Before(s[i], X[i], Y[i], s[j], X[j], Y[j])
  <2>1. /\ Before(s[1], X[1], Y[1], s[2], X[2], Y[2])
        /\ Before(s[1], X[1], Y[1], s[3], X[3], Y[3])
        /\ Before(s[1], X[1], Y[1], s[4], X[4], Y[4])
        /\ Before(s[1], X[1], Y[1], s[5], X[5], Y[5])
        /\ Before(s[1], X[1], Y[1], s[6], X[6], Y[6])
        /\ Before(s[2], X[2], Y[2], s[3], X[3], Y[3])
        /\ Before(s[2], X[2], Y[2], s[4], X[4], Y[4])
        /\ Before(s[2], X[2], Y[2], s[5], X[5], Y[5])
        /\ Before(s[2], X[2], Y[2], s[6], X[6], Y[6])
        /\ Before(s[3], X[3], Y[3], s[4], X[4], Y[4])
        /\ Before(s[3], X[3], Y[3], s[5], X[5], Y[5])
        /\ Before(s[3], X[3], Y[3], s[6], X[6], Y[6])
        /\ Before(s[4], X[4], Y[4], s[5], X[5], Y[5])
        /\ Before(s[4], X[4], Y[4], s[6], X[6], Y[6])
        /\ Before(s[5], X[5], Y[5], s[6], X[6], Y[6])
    BY <1>1, <1>2
  <2>2. \A i, j \in 1..6 : i < j =>
          \/ i = 1 /\ j = 2
          \/ i = 1 /\ j = 3
          \/ i = 1 /\ j = 4
          \/ i = 1 /\ j = 5
          \/ i = 1 /\ j = 6
          \/ i = 2 /\ j = 3
          \/ i = 2 /\ j = 4
          \/ i = 2 /\ j = 5
          \/ i = 2 /\ j = 6
          \/ i = 3 /\ j = 4
          \/ i = 3 /\ j = 5
          \/ i = 3 /\ j = 6
          \/ i = 4 /\ j = 5
          \/ i = 4 /\ j = 6
          \/ i = 5 /\ j = 6
    OBVIOUS
  <2> QED
    BY <2>1, <2>2, Zenon
<1>7. Len(s) + 1 = 7
  BY <1>1
<1>8. Chain(s, X, Y)
  BY <1>1, <1>2, <1>3, <1>5, <1>6, <1>7 DEF Chain
<1> QED
  BY <1>8 DEF s, X, Y

(***************************************************************************)
(* Steps.  What is to be done first is replaced by new, done where it is;  *)
(* what it wrote, or was to write, is not written to by new.               *)
(***************************************************************************)
Kept(new, U, V) ==
  /\ \A q \in DOMAIN lines : q \in DOMAIN lines' /\ lines'[q] = lines[q]
  /\ \A qx, qy \in Int :
       <<qx, qy>> \in DOMAIN lines' =>
         \/ <<qx, qy>> \in DOMAIN lines
         \/ /\ Covers(Head(todo), x, y, qx, qy)
            /\ \A i \in 1..Len(new) : ~Covers(new[i], U[i], V[i], qx, qy)
  /\ \A qx, qy \in Int : \A c :
       Writes(Head(todo), x, y, qx, qy, c) =>
         \/ <<qx, qy>> \in DOMAIN lines' /\ lines'[<<qx, qy>>] = c
         \/ \E i \in 1..Len(new) : Writes(new[i], U[i], V[i], qx, qy, c)

SureOf(new, U, V) ==
  \A n \in 1..Len(new) :
    LET r == new[n]
        t == r.tile
    IN  r.op = "return" /\ t.type = "VLIST" /\ t.lines # <<>> =>
          /\ \E i \in 1..n - 1 : Writes(new[i], U[i], V[i], r.x, r.y, Corners[t.b[t.o + 1]][1])
          /\ \E i \in 1..n - 1 :
               Writes(new[i], U[i], V[i], r.x + t.w - 1, r.y, Corners[t.b[t.o + 1]][2])

LEMMA ReplaceStep ==
  ASSUME NEW X, NEW Y, Drawing(X, Y), todo # <<>>,
         NEW new, NEW U, NEW V, Chain(new, U, V),
         U[Len(new) + 1] = X[2], V[Len(new) + 1] = Y[2],
         \A i \in 1..Len(new) : \A qx, qy \in Int :
           Covers(new[i], U[i], V[i], qx, qy) => Covers(Head(todo), x, y, qx, qy),
         todo' = new \o Tail(todo), x' = U[1], y' = V[1], tnode' = tnode,
         Kept(new, U, V), SureOf(new, U, V)
  PROVE  \E X2, Y2 : Drawing(X2, Y2)'
<1>1. PICK s : s = todo
  OBVIOUS
<1>2. Chain(s, X, Y) /\ s # <<>> /\ X[1] = x /\ Y[1] = y
  BY <1>1 DEF Drawing
<1>3. Head(s) = s[1]
  <2>1. s \in Seq({s[i] : i \in DOMAIN s})
    BY <1>2 DEF Chain
  <2> QED
    BY <2>1, <1>2, HeadTailProperties
<1>4. PICK X2, Y2 : X2 = Spliced(U, Len(new), X, Len(s)) /\ Y2 = Spliced(V, Len(new), Y, Len(s))
  OBVIOUS
<1>5. PICK r : r = new \o Tail(s)
  OBVIOUS
<1>6. PICK k : k = Len(new)
  OBVIOUS
<1>7. \A i \in 1..Len(new) : \A qx, qy \in Int :
        Covers(new[i], U[i], V[i], qx, qy) => Covers(s[1], X[1], Y[1], qx, qy)
  BY <1>1, <1>2, <1>3
<1>8. /\ k \in Nat /\ Len(s) \in Nat /\ Len(s) > 0
      /\ Len(r) = k + Len(s) - 1
      /\ \A i \in 1..Len(r) : i \in 1..k \/ \E m \in 2..Len(s) : i = m + k - 1
      /\ \A i \in 1..k : r[i] = new[i] /\ X2[i] = U[i] /\ Y2[i] = V[i]
      /\ \A i \in 2..Len(s) : r[i + k - 1] = s[i] /\ X2[i + k - 1] = X[i] /\ Y2[i + k - 1] = Y[i]
      /\ X2[1] = U[1] /\ Y2[1] = V[1]
      /\ Chain(r, X2, Y2)
  <2>1. LET n == Len(new)
            z == new \o Tail(s)
            X3 == Spliced(U, n, X, Len(s))
            Y3 == Spliced(V, n, Y, Len(s))
        IN  /\ n \in Nat /\ Len(s) \in Nat /\ Len(s) > 0
            /\ Len(z) = n + Len(s) - 1
            /\ \A i \in 1..Len(z) : i \in 1..n \/ \E m \in 2..Len(s) : i = m + n - 1
            /\ \A i \in 1..n : z[i] = new[i] /\ X3[i] = U[i] /\ Y3[i] = V[i]
            /\ \A i \in 2..Len(s) : z[i + n - 1] = s[i] /\ X3[i + n - 1] = X[i]
                 /\ Y3[i + n - 1] = Y[i]
            /\ X3[1] = U[1] /\ Y3[1] = V[1]
            /\ Chain(z, X3, Y3)
    BY <1>2, <1>7, Replaced, Zenon
  <2> QED
    BY <2>1, <1>4, <1>5, <1>6, Zenon
<1>9. todo' = r
  BY <1>1, <1>5
<1>10. ASSUME NEW i \in 1..Len(r), NEW qx \in Int, NEW qy \in Int,
              Covers(r[i], X2[i], Y2[i], qx, qy)
       PROVE  qx \in 0..Width - 1 /\ qy \in 0..Rows - 1 /\ <<qx, qy>> \notin DOMAIN lines'
  <2>1. CASE i \in 1..k
    <3>1. Covers(new[i], U[i], V[i], qx, qy) /\ Covers(s[1], X[1], Y[1], qx, qy)
      BY <1>6, <1>7, <1>8, <1>10, <2>1
    <3>2. 1 \in 1..Len(todo)
      BY <1>1, <1>8
    <3>3. qx \in 0..Width - 1 /\ qy \in 0..Rows - 1 /\ <<qx, qy>> \notin DOMAIN lines
      BY <1>1, <3>1, <3>2 DEF Drawing, OnCanvas
    <3> QED
      BY <1>6, <2>1, <3>1, <3>3 DEF Kept
  <2>2. CASE i \notin 1..k
    <3>1. PICK m \in 2..Len(s) : i = m + k - 1
      BY <1>8, <2>2
    <3>2. Covers(s[m], X[m], Y[m], qx, qy)
      BY <1>8, <1>10, <3>1
    <3>3. m \in 1..Len(s) /\ 1 \in 1..Len(s) /\ 1 < m
      BY <1>8
    <3>4. qx \in 0..Width - 1 /\ qy \in 0..Rows - 1 /\ <<qx, qy>> \notin DOMAIN lines
      BY <1>1, <3>2, <3>3 DEF Drawing, OnCanvas
    <3>5. ~Covers(s[1], X[1], Y[1], qx, qy)
      BY <1>2, <3>2, <3>3 DEF Chain, Before
    <3> QED
      BY <1>1, <1>2, <1>3, <3>4, <3>5 DEF Kept
  <2> QED
    BY <2>1, <2>2
<1>11. OnCanvas(X2, Y2)'
  <2>1. Width' = Width /\ Rows' = Rows
    BY DEF Width, Rows
  <2> QED
    BY <1>9, <1>10, <2>1 DEF OnCanvas
<1>12. ASSUME NEW m \in 2..Len(s), NEW qx \in Int, NEW qy \in Int, NEW c, Sure(X, Y, m, qx, qy, c)
       PROVE  Sure(X2, Y2, m + k - 1, qx, qy, c)'
  <2>1. CASE <<qx, qy>> \in DOMAIN lines /\ lines[<<qx, qy>>] = c
    BY <2>1 DEF Sure, Kept
  <2>2. ASSUME NEW i \in 1..m - 1, Writes(s[i], X[i], Y[i], qx, qy, c)
        PROVE  Sure(X2, Y2, m + k - 1, qx, qy, c)'
    <3>1. CASE i = 1
      <4>1. Writes(Head(todo), x, y, qx, qy, c)
        BY <1>1, <1>2, <1>3, <2>2, <3>1
      <4>2. CASE \E j \in 1..Len(new) : Writes(new[j], U[j], V[j], qx, qy, c)
        <5>1. PICK j \in 1..k : Writes(new[j], U[j], V[j], qx, qy, c)
          BY <1>6, <4>2
        <5>2. Writes(r[j], X2[j], Y2[j], qx, qy, c)
          BY <1>8, <5>1
        <5>3. j \in 1..(m + k - 1) - 1
          BY <1>8
        <5> QED
          BY <1>9, <5>2, <5>3 DEF Sure
      <4>3. CASE <<qx, qy>> \in DOMAIN lines' /\ lines'[<<qx, qy>>] = c
        BY <4>3 DEF Sure
      <4> QED
        BY <4>1, <4>2, <4>3 DEF Kept
    <3>2. CASE i # 1
      <4>1. i \in 2..Len(s) /\ i + k - 1 \in 1..(m + k - 1) - 1
        BY <1>8, <3>2
      <4>2. Writes(r[i + k - 1], X2[i + k - 1], Y2[i + k - 1], qx, qy, c)
        BY <1>8, <2>2, <4>1
      <4> QED
        BY <1>9, <4>1, <4>2 DEF Sure
    <3> QED
      BY <3>1, <3>2
  <2> QED
    BY <1>1, <1>12, <2>1, <2>2 DEF Sure
<1>13. CornersSure(X2, Y2)'
  <2> SUFFICES ASSUME NEW n \in 1..Len(r), r[n].op = "return", r[n].tile.type = "VLIST",
                      r[n].tile.lines # <<>>
               PROVE  LET t == r[n].tile
                      IN  /\ Sure(X2, Y2, n, r[n].x, r[n].y, Corners[t.b[t.o + 1]][1])'
                          /\ Sure(X2, Y2, n, r[n].x + t.w - 1, r[n].y, Corners[t.b[t.o + 1]][2])'
    BY <1>9 DEF CornersSure
  <2>1. CASE n \in 1..k
    <3>1. r[n] = new[n]
      BY <1>8, <2>1
    <3> DEFINE t == r[n].tile
    <3>2. PICK i \in 1..n - 1 : Writes(new[i], U[i], V[i], r[n].x, r[n].y,
            Corners[t.b[t.o + 1]][1])
      BY <1>6, <2>1, <3>1 DEF SureOf
    <3>3. PICK j \in 1..n - 1 :
            Writes(new[j], U[j], V[j], r[n].x + t.w - 1, r[n].y, Corners[t.b[t.o + 1]][2])
      BY <1>6, <2>1, <3>1 DEF SureOf
    <3>4. i \in 1..k /\ j \in 1..k
      BY <1>8, <2>1
    <3>5. /\ Writes(r[i], X2[i], Y2[i], r[n].x, r[n].y, Corners[t.b[t.o + 1]][1])
          /\ Writes(r[j], X2[j], Y2[j], r[n].x + t.w - 1, r[n].y, Corners[t.b[t.o + 1]][2])
      BY <1>8, <3>2, <3>3, <3>4
    <3> QED
      BY <1>9, <3>5 DEF Sure
  <2>2. CASE n \notin 1..k
    <3>1. PICK m \in 2..Len(s) : n = m + k - 1
      BY <1>8, <2>2
    <3>2. r[n] = s[m] /\ m \in 1..Len(s)
      BY <1>8, <3>1
    <3> DEFINE t == r[n].tile
    <3>3. /\ Sure(X, Y, m, r[n].x, r[n].y, Corners[t.b[t.o + 1]][1])
          /\ Sure(X, Y, m, r[n].x + t.w - 1, r[n].y, Corners[t.b[t.o + 1]][2])
      BY <1>1, <3>2 DEF Drawing, CornersSure
    <3>4. r[n].x \in Int /\ r[n].y \in Int /\ r[n].x + t.w - 1 \in Int
      <4>1. Leads(s[m], X[m], Y[m], X[m + 1], Y[m + 1])
        BY <1>2, <3>2 DEF Chain
      <4>2. t \in Parts /\ r[n].x \in Nat /\ r[n].y \in Nat
        BY <3>2, <4>1 DEF Leads
      <4> QED
        BY SMTT(60), <4>2, TileFacts
    <3> QED
      BY <1>12, <3>1, <3>3, <3>4
  <2> QED
    BY <2>1, <2>2
<1>14. Drawing(X2, Y2)'
  BY <1>8, <1>9, <1>11, <1>13 DEF Drawing
<1> QED
  BY <1>14
LEMMA HeadFacts ==
  ASSUME NEW X, NEW Y, Drawing(X, Y), todo # <<>>
  PROVE  /\ x \in Nat /\ y \in Nat /\ X[2] \in Nat /\ Y[2] \in Nat
         /\ Head(todo) = todo[1] /\ Len(todo) \in Nat /\ Len(todo) > 0
         /\ Leads(Head(todo), x, y, X[2], Y[2])
<1>1. todo \in Seq({todo[i] : i \in DOMAIN todo})
  BY DEF Drawing, Chain
<1>2. Head(todo) = todo[1] /\ Len(todo) \in Nat /\ Len(todo) > 0
  BY <1>1, HeadTailProperties, EmptySeq, LenProperties
<1>3. 1 \in 1..Len(todo) /\ 1 \in 1..Len(todo) + 1 /\ 2 \in 1..Len(todo) + 1 /\ 1 + 1 = 2
  BY <1>2
<1>4. Leads(todo[1], X[1], Y[1], X[2], Y[2])
  BY <1>3 DEF Drawing, Chain
<1>5. X[1] \in Nat /\ Y[1] \in Nat /\ X[2] \in Nat /\ Y[2] \in Nat
  BY <1>3 DEF Drawing, Chain
<1> QED
  BY <1>2, <1>4, <1>5 DEF Drawing

\* A step that writes nothing, and does what no character depends on.
LEMMA KeptAsIs ==
  ASSUME NEW new, NEW U, NEW V, lines' = lines, Head(todo).op \notin {"print", "row"}
  PROVE  Kept(new, U, V)
BY DEF Kept, Writes

LEMMA SureOfNone ==
  ASSUME NEW new, NEW U, NEW V,
         \A n \in 1..Len(new) : new[n].op = "return" => new[n].tile.type # "VLIST"
  PROVE  SureOf(new, U, V)
BY DEF SureOf

(***************************************************************************)
(* The actions.                                                            *)
(***************************************************************************)
LEMMA BprintfStep ==
  ASSUME NEW X, NEW Y, Drawing(X, Y), Bprintf
  PROVE  \E X2, Y2 : Drawing(X2, Y2)'
<1>1. /\ todo # <<>> /\ Head(todo).op = "print" /\ todo' = <<>> \o Tail(todo)
      /\ y' = y /\ tnode' = tnode /\ x' = x + Len(Head(todo).s)
  BY DEF Bprintf, Do, Instead
<1>2. PICK s : s = Head(todo).s
  OBVIOUS
<1>3. /\ Len(s) \in Nat /\ DOMAIN s = 1..Len(s) /\ x \in Nat /\ y \in Nat
      /\ X[2] = x + Len(s) /\ Y[2] = y
  BY <1>1, <1>2, HeadFacts DEF Leads
<1>4. PICK f : f = [p \in {<<x + i - 1, y>> : i \in DOMAIN s} |-> s[p[1] - x + 1]]
  OBVIOUS
<1>5. DOMAIN f = {<<x + i - 1, y>> : i \in DOMAIN s}
  BY <1>4
<1>6. /\ DOMAIN lines' = DOMAIN f \union DOMAIN lines
      /\ \A q \in DOMAIN f : lines'[q] = f[q]
      /\ \A q \in DOMAIN lines : q \notin DOMAIN f => lines'[q] = lines[q]
  <2>1. lines' = [p \in DOMAIN lines \union DOMAIN f |->
                    IF p \in DOMAIN f THEN s[p[1] - x + 1] ELSE lines[p]]
    BY <1>2, <1>5 DEF Bprintf
  <2> QED
    BY <1>4, <1>5, <2>1
<1>7. \A qx, qy \in Int : Covers(Head(todo), x, y, qx, qy) <=>
                            qy = y /\ x <= qx /\ qx < x + Len(s)
  BY <1>1, <1>2 DEF Covers
<1>8. ASSUME NEW qx \in Int, NEW qy \in Int, Covers(Head(todo), x, y, qx, qy)
      PROVE  /\ <<qx, qy>> \in DOMAIN f /\ f[<<qx, qy>>] = s[qx - x + 1]
             /\ <<qx, qy>> \notin DOMAIN lines
  <2>1. qx - x + 1 \in DOMAIN s /\ x + (qx - x + 1) - 1 = qx /\ qy = y
    BY <1>3, <1>7, <1>8
  <2>2. <<qx, qy>> \in DOMAIN f
    BY <1>4, <2>1
  <2>3. f[<<qx, qy>>] = s[qx - x + 1]
    <3>1. <<qx, qy>>[1] = qx
      OBVIOUS
    <3> QED
      BY <1>4, <2>2, <3>1
  <2>4. todo[1] = Head(todo) /\ 1 \in 1..Len(todo) /\ X[1] = x /\ Y[1] = y
    BY <1>1, HeadFacts DEF Drawing
  <2>5. <<qx, qy>> \notin DOMAIN lines
    BY <1>8, <2>4 DEF Drawing, OnCanvas
  <2> QED
    BY <2>2, <2>3, <2>5
<1>9. ASSUME NEW q \in DOMAIN f
      PROVE  \E qx \in Int : q = <<qx, y>> /\ Covers(Head(todo), x, y, qx, y)
  <2>1. PICK i \in DOMAIN s : q = <<x + i - 1, y>>
    BY <1>4
  <2>2. x + i - 1 \in Int /\ x <= x + i - 1 /\ x + i - 1 < x + Len(s)
    BY <1>3
  <2> QED
    BY <1>3, <1>7, <2>1, <2>2
<1>10. \A q \in DOMAIN lines : q \notin DOMAIN f
  BY <1>3, <1>8, <1>9
<1>11. PICK new, U, V : new = <<>> /\ U = <<X[2]>> /\ V = <<Y[2]>>
  OBVIOUS
<1>12. Len(new) = 0 /\ 1..Len(new) = {} /\ U[1] = X[2] /\ V[1] = Y[2] /\ Len(new) + 1 = 1
  BY <1>11
<1>13. Chain(new, U, V)
  BY <1>1, <1>11, HeadFacts, ChainOf0
<1>14. Kept(new, U, V)
  <2>1. \A q \in DOMAIN lines : q \in DOMAIN lines' /\ lines'[q] = lines[q]
    BY <1>6, <1>10
  <2>2. ASSUME NEW qx \in Int, NEW qy \in Int, <<qx, qy>> \in DOMAIN lines'
        PROVE  <<qx, qy>> \in DOMAIN lines \/ Covers(Head(todo), x, y, qx, qy)
    <3>1. CASE <<qx, qy>> \in DOMAIN f
      <4>1. PICK px \in Int : <<qx, qy>> = <<px, y>> /\ Covers(Head(todo), x, y, px, y)
        BY <1>9, <3>1
      <4> QED
        BY <4>1
    <3> QED
      BY <1>6, <2>2, <3>1
  <2>3. ASSUME NEW qx \in Int, NEW qy \in Int, NEW c, Writes(Head(todo), x, y, qx, qy, c)
        PROVE  <<qx, qy>> \in DOMAIN lines' /\ lines'[<<qx, qy>>] = c
    <3>1. qy = y /\ x <= qx /\ qx < x + Len(s) /\ s[qx - x + 1] = c
      BY <1>1, <1>2, <2>3 DEF Writes
    <3> QED
      BY <1>6, <1>7, <1>8, <3>1
  <2> QED
    BY <1>12, <2>1, <2>2, <2>3 DEF Kept
<1>15. SureOf(new, U, V)
  BY <1>12 DEF SureOf
<1> QED
  BY <1>1, <1>2, <1>3, <1>11, <1>12, <1>13, <1>14, <1>15, ReplaceStep

LEMMA MoveStep ==
  ASSUME NEW X, NEW Y, Drawing(X, Y), Move \/ DoReturn
  PROVE  \E X2, Y2 : Drawing(X2, Y2)'
<1>1. /\ todo # <<>> /\ todo' = <<>> \o Tail(todo) /\ tnode' = tnode /\ lines' = lines
      /\ Head(todo).op \in {"at", "down", "skip", "return"}
  BY DEF Move, DoReturn, Do, Instead
<1>2. x' = X[2] /\ y' = Y[2]
  <2>1. Leads(Head(todo), x, y, X[2], Y[2])
    BY <1>1, HeadFacts
  <2>2. CASE Do("at")
    BY <2>1, <2>2 DEF Leads, Move, DoReturn, Do
  <2>3. CASE Do("down")
    BY <2>1, <2>3 DEF Leads, Move, DoReturn, Do
  <2>4. CASE Do("skip")
    BY <2>1, <2>4 DEF Leads, Move, DoReturn, Do
  <2>5. CASE DoReturn
    BY <2>1, <2>5 DEF Leads, DoReturn, Do
  <2> QED
    BY <2>2, <2>3, <2>4, <2>5 DEF Move
<1>3. PICK new, U, V : new = <<>> /\ U = <<X[2]>> /\ V = <<Y[2]>>
  OBVIOUS
<1>4. Len(new) = 0 /\ 1..Len(new) = {} /\ U[1] = X[2] /\ V[1] = Y[2] /\ Len(new) + 1 = 1
  BY <1>3
<1>5. Chain(new, U, V)
  BY <1>1, <1>3, HeadFacts, ChainOf0
<1>6. Kept(new, U, V) /\ SureOf(new, U, V)
  BY <1>1, <1>4, KeptAsIs, SureOfNone
<1> QED
  BY <1>1, <1>2, <1>3, <1>4, <1>5, <1>6, ReplaceStep

(***************************************************************************)
(* The same for so many, nothing being written.                            *)
(***************************************************************************)
\* e, done at (px, py), writes the corners that the return r is to find.
Corner(e, px, py, r) ==
  r.op = "return" /\ r.tile.type = "VLIST" /\ r.tile.lines # <<>> =>
    /\ Writes(e, px, py, r.x, r.y, Corners[r.tile.b[r.tile.o + 1]][1])
    /\ Writes(e, px, py, r.x + r.tile.w - 1, r.y, Corners[r.tile.b[r.tile.o + 1]][2])

Under(e, ex, ey, f, fx, fy) ==
  \A qx, qy \in Int : Covers(e, ex, ey, qx, qy) => Covers(f, fx, fy, qx, qy)

\* The step does new for what is first, writing nothing itself.
Replacing(new, U, V, X, Y) ==
  /\ Chain(new, U, V) /\ U[Len(new) + 1] = X[2] /\ V[Len(new) + 1] = Y[2]
  /\ \A i \in 1..Len(new) : Under(new[i], U[i], V[i], Head(todo), x, y)
  /\ todo' = new \o Tail(todo) /\ x' = U[1] /\ y' = V[1] /\ tnode' = tnode
  /\ Kept(new, U, V) /\ SureOf(new, U, V)

LEMMA ReplacingStep ==
  ASSUME NEW X, NEW Y, Drawing(X, Y), todo # <<>>,
         NEW new, NEW U, NEW V, Replacing(new, U, V, X, Y)
  PROVE  \E X2, Y2 : Drawing(X2, Y2)'
BY ReplaceStep DEF Replacing, Under

Does1(X, Y, e1, u1, u2, v1, v2) ==
  /\ Leads(e1, u1, v1, u2, v2)
  /\ Under(e1, u1, v1, Head(todo), x, y)
  /\ NoReturn(e1)
  /\ u2 = X[2] /\ v2 = Y[2] /\ x' = u1 /\ y' = v1
  /\ todo' = <<e1>> \o Tail(todo) /\ UNCHANGED <<tnode, lines>>
  /\ \A qx, qy \in Int : \A ch :
       Writes(Head(todo), x, y, qx, qy, ch) =>
         \/ Writes(e1, u1, v1, qx, qy, ch)

LEMMA ReplacedBy1 ==
  ASSUME NEW X, NEW Y, NEW e1, NEW u1 \in Nat, NEW u2 \in Nat, NEW v1 \in Nat, NEW v2 \in Nat,
         Does1(X, Y, e1, u1, u2, v1, v2)
  PROVE  Replacing(<<e1>>, <<u1, u2>>, <<v1, v2>>, X, Y)
<1>1. PICK new, U, V : new = <<e1>> /\ U = <<u1, u2>> /\ V = <<v1, v2>>
  OBVIOUS
<1>2. Chain(new, U, V)
  BY <1>1, ChainOf1 DEF Does1
<1>3. /\ Len(new) = 1 /\ new[1] = e1
      /\ U[1] = u1 /\ U[2] = u2
      /\ V[1] = v1 /\ V[2] = v2
  BY <1>1
<1>4. U[Len(new) + 1] = X[2] /\ V[Len(new) + 1] = Y[2]
  BY <1>3 DEF Does1
<1>5. \A i \in 1..Len(new) : i = 1
  BY <1>3
<1>6. \A i \in 1..Len(new) : Under(new[i], U[i], V[i], Head(todo), x, y)
  BY <1>3, <1>5, Zenon DEF Does1
<1>7. 1 \in 1..Len(new)
  BY <1>3
<1>8. Kept(new, U, V)
  <2>1. ASSUME NEW qx \in Int, NEW qy \in Int, NEW c, Writes(Head(todo), x, y, qx, qy, c)
        PROVE  \E i \in 1..Len(new) : Writes(new[i], U[i], V[i], qx, qy, c)
    BY <1>3, <1>7, <2>1, Zenon DEF Does1
  <2> QED
    BY <2>1 DEF Kept, Does1
<1>9. SureOf(new, U, V)
  BY <1>3, <1>5, SureOfNone DEF NoReturn, Does1
<1>10. x' = U[1] /\ y' = V[1]
  BY <1>3 DEF Does1
<1>11. todo' = new \o Tail(todo) /\ tnode' = tnode
  BY <1>1 DEF Does1
<1>12. Replacing(new, U, V, X, Y)
  BY <1>2, <1>4, <1>6, <1>8, <1>9, <1>10, <1>11 DEF Replacing
<1> QED
  BY <1>1, <1>12, Zenon

Does2(X, Y, e1, e2, u1, u2, u3, v1, v2, v3) ==
  /\ Leads(e1, u1, v1, u2, v2)
  /\ Leads(e2, u2, v2, u3, v3)
  /\ Before(e1, u1, v1, e2, u2, v2)
  /\ Under(e1, u1, v1, Head(todo), x, y)
  /\ Under(e2, u2, v2, Head(todo), x, y)
  /\ NoReturn(e1) /\ Corner(e1, u1, v1, e2)
  /\ u3 = X[2] /\ v3 = Y[2] /\ x' = u1 /\ y' = v1
  /\ todo' = <<e1, e2>> \o Tail(todo) /\ UNCHANGED <<tnode, lines>>
  /\ \A qx, qy \in Int : \A ch :
       Writes(Head(todo), x, y, qx, qy, ch) =>
         \/ Writes(e1, u1, v1, qx, qy, ch)
         \/ Writes(e2, u2, v2, qx, qy, ch)

LEMMA ReplacedBy2 ==
  ASSUME NEW X, NEW Y, NEW e1, NEW e2, NEW u1 \in Nat, NEW u2 \in Nat, NEW u3 \in Nat,
    NEW v1 \in Nat,
         NEW v2 \in Nat, NEW v3 \in Nat, Does2(X, Y, e1, e2, u1, u2, u3, v1, v2, v3)
  PROVE  Replacing(<<e1, e2>>, <<u1, u2, u3>>, <<v1, v2, v3>>, X, Y)
<1>1. PICK new, U, V : new = <<e1, e2>> /\ U = <<u1, u2, u3>> /\ V = <<v1, v2, v3>>
  OBVIOUS
<1>2. Chain(new, U, V)
  BY <1>1, ChainOf2 DEF Does2
<1>3. /\ Len(new) = 2 /\ new[1] = e1 /\ new[2] = e2
      /\ U[1] = u1 /\ U[2] = u2 /\ U[3] = u3
      /\ V[1] = v1 /\ V[2] = v2 /\ V[3] = v3
  BY <1>1
<1>4. U[Len(new) + 1] = X[2] /\ V[Len(new) + 1] = Y[2]
  BY <1>3 DEF Does2
<1>5. \A i \in 1..Len(new) : i = 1 \/ i = 2
  BY <1>3
<1>6. \A i \in 1..Len(new) : Under(new[i], U[i], V[i], Head(todo), x, y)
  BY <1>3, <1>5, Zenon DEF Does2
<1>7. 1 \in 1..Len(new) /\ 2 \in 1..Len(new)
  BY <1>3
<1>8. Kept(new, U, V)
  <2>1. ASSUME NEW qx \in Int, NEW qy \in Int, NEW c, Writes(Head(todo), x, y, qx, qy, c)
        PROVE  \E i \in 1..Len(new) : Writes(new[i], U[i], V[i], qx, qy, c)
    BY <1>3, <1>7, <2>1, Zenon DEF Does2
  <2> QED
    BY <2>1 DEF Kept, Does2
<1>9. SureOf(new, U, V)
  <2>1. Corner(new[1], U[1], V[1], new[2])
    BY <1>3 DEF Does2
  <2>2. \A i \in 1..Len(new) : new[i].op = "return" => i = 2
    BY <1>3, <1>5 DEF NoReturn, Does2
  <2>3. 1 \in 1..2 - 1
    OBVIOUS
  <2> QED
    BY <2>1, <2>2, <2>3 DEF Corner, SureOf
<1>10. x' = U[1] /\ y' = V[1]
  BY <1>3 DEF Does2
<1>11. todo' = new \o Tail(todo) /\ tnode' = tnode
  BY <1>1 DEF Does2
<1>12. Replacing(new, U, V, X, Y)
  BY <1>2, <1>4, <1>6, <1>8, <1>9, <1>10, <1>11 DEF Replacing
<1> QED
  BY <1>1, <1>12, Zenon

Does3(X, Y, e1, e2, e3, u1, u2, u3, u4, v1, v2, v3, v4) ==
  /\ Leads(e1, u1, v1, u2, v2)
  /\ Leads(e2, u2, v2, u3, v3)
  /\ Leads(e3, u3, v3, u4, v4)
  /\ Before(e1, u1, v1, e2, u2, v2)
  /\ Before(e1, u1, v1, e3, u3, v3)
  /\ Before(e2, u2, v2, e3, u3, v3)
  /\ Under(e1, u1, v1, Head(todo), x, y)
  /\ Under(e2, u2, v2, Head(todo), x, y)
  /\ Under(e3, u3, v3, Head(todo), x, y)
  /\ NoReturn(e1) /\ NoReturn(e2) /\ Corner(e1, u1, v1, e3)
  /\ u4 = X[2] /\ v4 = Y[2] /\ x' = u1 /\ y' = v1
  /\ todo' = <<e1, e2, e3>> \o Tail(todo) /\ UNCHANGED <<tnode, lines>>
  /\ \A qx, qy \in Int : \A ch :
       Writes(Head(todo), x, y, qx, qy, ch) =>
         \/ Writes(e1, u1, v1, qx, qy, ch)
         \/ Writes(e2, u2, v2, qx, qy, ch)
         \/ Writes(e3, u3, v3, qx, qy, ch)

LEMMA ReplacedBy3 ==
  ASSUME NEW X, NEW Y, NEW e1, NEW e2, NEW e3, NEW u1 \in Nat, NEW u2 \in Nat, NEW u3 \in Nat,
         NEW u4 \in Nat, NEW v1 \in Nat, NEW v2 \in Nat, NEW v3 \in Nat, NEW v4 \in Nat,
         Does3(X, Y, e1,
         e2, e3, u1, u2, u3, u4, v1, v2, v3, v4)
  PROVE  Replacing(<<e1, e2, e3>>, <<u1, u2, u3, u4>>, <<v1, v2, v3, v4>>, X, Y)
<1>1. PICK new, U, V : new = <<e1, e2, e3>> /\ U = <<u1, u2, u3, u4>> /\ V = <<v1, v2, v3, v4>>
  OBVIOUS
<1>2. Chain(new, U, V)
  BY <1>1, ChainOf3 DEF Does3
<1>3. /\ Len(new) = 3 /\ new[1] = e1 /\ new[2] = e2 /\ new[3] = e3
      /\ U[1] = u1 /\ U[2] = u2 /\ U[3] = u3 /\ U[4] = u4
      /\ V[1] = v1 /\ V[2] = v2 /\ V[3] = v3 /\ V[4] = v4
  BY <1>1
<1>4. U[Len(new) + 1] = X[2] /\ V[Len(new) + 1] = Y[2]
  BY <1>3 DEF Does3
<1>5. \A i \in 1..Len(new) : i = 1 \/ i = 2 \/ i = 3
  BY <1>3
<1>6. \A i \in 1..Len(new) : Under(new[i], U[i], V[i], Head(todo), x, y)
  BY <1>3, <1>5, Zenon DEF Does3
<1>7. 1 \in 1..Len(new) /\ 2 \in 1..Len(new) /\ 3 \in 1..Len(new)
  BY <1>3
<1>8. Kept(new, U, V)
  <2>1. ASSUME NEW qx \in Int, NEW qy \in Int, NEW c, Writes(Head(todo), x, y, qx, qy, c)
        PROVE  \E i \in 1..Len(new) : Writes(new[i], U[i], V[i], qx, qy, c)
    BY <1>3, <1>7, <2>1, Zenon DEF Does3
  <2> QED
    BY <2>1 DEF Kept, Does3
<1>9. SureOf(new, U, V)
  <2>1. Corner(new[1], U[1], V[1], new[3])
    BY <1>3 DEF Does3
  <2>2. \A i \in 1..Len(new) : new[i].op = "return" => i = 3
    BY <1>3, <1>5 DEF NoReturn, Does3
  <2>3. 1 \in 1..3 - 1
    OBVIOUS
  <2> QED
    BY <2>1, <2>2, <2>3 DEF Corner, SureOf
<1>10. x' = U[1] /\ y' = V[1]
  BY <1>3 DEF Does3
<1>11. todo' = new \o Tail(todo) /\ tnode' = tnode
  BY <1>1 DEF Does3
<1>12. Replacing(new, U, V, X, Y)
  BY <1>2, <1>4, <1>6, <1>8, <1>9, <1>10, <1>11 DEF Replacing
<1> QED
  BY <1>1, <1>12, Zenon

Does5(X, Y, e1, e2, e3, e4, e5, u1, u2, u3, u4, u5, u6, v1, v2, v3, v4, v5, v6) ==
  /\ Leads(e1, u1, v1, u2, v2)
  /\ Leads(e2, u2, v2, u3, v3)
  /\ Leads(e3, u3, v3, u4, v4)
  /\ Leads(e4, u4, v4, u5, v5)
  /\ Leads(e5, u5, v5, u6, v6)
  /\ Before(e1, u1, v1, e2, u2, v2)
  /\ Before(e1, u1, v1, e3, u3, v3)
  /\ Before(e1, u1, v1, e4, u4, v4)
  /\ Before(e1, u1, v1, e5, u5, v5)
  /\ Before(e2, u2, v2, e3, u3, v3)
  /\ Before(e2, u2, v2, e4, u4, v4)
  /\ Before(e2, u2, v2, e5, u5, v5)
  /\ Before(e3, u3, v3, e4, u4, v4)
  /\ Before(e3, u3, v3, e5, u5, v5)
  /\ Before(e4, u4, v4, e5, u5, v5)
  /\ Under(e1, u1, v1, Head(todo), x, y)
  /\ Under(e2, u2, v2, Head(todo), x, y)
  /\ Under(e3, u3, v3, Head(todo), x, y)
  /\ Under(e4, u4, v4, Head(todo), x, y)
  /\ Under(e5, u5, v5, Head(todo), x, y)
  /\ NoReturn(e1) /\ NoReturn(e2) /\ NoReturn(e3) /\ NoReturn(e4) /\ Corner(e1, u1, v1, e5)
  /\ u6 = X[2] /\ v6 = Y[2] /\ x' = u1 /\ y' = v1
  /\ todo' = <<e1, e2, e3, e4, e5>> \o Tail(todo) /\ UNCHANGED <<tnode, lines>>
  /\ \A qx, qy \in Int : \A ch :
       Writes(Head(todo), x, y, qx, qy, ch) =>
         \/ Writes(e1, u1, v1, qx, qy, ch)
         \/ Writes(e2, u2, v2, qx, qy, ch)
         \/ Writes(e3, u3, v3, qx, qy, ch)
         \/ Writes(e4, u4, v4, qx, qy, ch)
         \/ Writes(e5, u5, v5, qx, qy, ch)

LEMMA ReplacedBy5 ==
  ASSUME NEW X, NEW Y, NEW e1, NEW e2, NEW e3, NEW e4, NEW e5, NEW u1 \in Nat, NEW u2 \in Nat,
         NEW u3 \in Nat, NEW u4 \in Nat, NEW u5 \in Nat, NEW u6 \in Nat, NEW v1 \in Nat,
         NEW v2 \in Nat,
         NEW v3 \in Nat, NEW v4 \in Nat, NEW v5 \in Nat, NEW v6 \in Nat, Does5(X, Y, e1, e2,
         e3, e4,
         e5, u1, u2, u3, u4, u5, u6, v1, v2, v3, v4, v5, v6)
  PROVE  Replacing(<<e1, e2, e3, e4, e5>>, <<u1, u2, u3, u4, u5, u6>>, <<v1, v2, v3, v4, v5,
    v6>>, X, Y)
<1>1. PICK new, U, V : new = <<e1, e2, e3, e4, e5>> /\ U = <<u1, u2, u3, u4, u5, u6>>
        /\ V = <<v1, v2, v3, v4, v5, v6>>
  OBVIOUS
<1>2. Chain(new, U, V)
  BY <1>1, ChainOf5 DEF Does5
<1>3. /\ Len(new) = 5 /\ new[1] = e1 /\ new[2] = e2 /\ new[3] = e3 /\ new[4] = e4 /\ new[5] = e5
      /\ U[1] = u1 /\ U[2] = u2 /\ U[3] = u3 /\ U[4] = u4 /\ U[5] = u5 /\ U[6] = u6
      /\ V[1] = v1 /\ V[2] = v2 /\ V[3] = v3 /\ V[4] = v4 /\ V[5] = v5 /\ V[6] = v6
  BY <1>1
<1>4. U[Len(new) + 1] = X[2] /\ V[Len(new) + 1] = Y[2]
  BY <1>3 DEF Does5
<1>5. \A i \in 1..Len(new) : i = 1 \/ i = 2 \/ i = 3 \/ i = 4 \/ i = 5
  BY <1>3
<1>6. \A i \in 1..Len(new) : Under(new[i], U[i], V[i], Head(todo), x, y)
  BY <1>3, <1>5, Zenon DEF Does5
<1>7. 1 \in 1..Len(new) /\ 2 \in 1..Len(new) /\ 3 \in 1..Len(new) /\ 4 \in 1..Len(new)
        /\ 5 \in 1..Len(new)
  BY <1>3
<1>8. Kept(new, U, V)
  <2>1. ASSUME NEW qx \in Int, NEW qy \in Int, NEW c, Writes(Head(todo), x, y, qx, qy, c)
        PROVE  \E i \in 1..Len(new) : Writes(new[i], U[i], V[i], qx, qy, c)
    BY <1>3, <1>7, <2>1, Zenon DEF Does5
  <2> QED
    BY <2>1 DEF Kept, Does5
<1>9. SureOf(new, U, V)
  <2>1. Corner(new[1], U[1], V[1], new[5])
    BY <1>3 DEF Does5
  <2>2. \A i \in 1..Len(new) : new[i].op = "return" => i = 5
    BY <1>3, <1>5 DEF NoReturn, Does5
  <2>3. 1 \in 1..5 - 1
    OBVIOUS
  <2> QED
    BY <2>1, <2>2, <2>3 DEF Corner, SureOf
<1>10. x' = U[1] /\ y' = V[1]
  BY <1>3 DEF Does5
<1>11. todo' = new \o Tail(todo) /\ tnode' = tnode
  BY <1>1 DEF Does5
<1>12. Replacing(new, U, V, X, Y)
  BY <1>2, <1>4, <1>6, <1>8, <1>9, <1>10, <1>11 DEF Replacing
<1> QED
  BY <1>1, <1>12, Zenon

Does6(X, Y, e1, e2, e3, e4, e5, e6, u1, u2, u3, u4, u5, u6, u7, v1, v2, v3, v4, v5,
      v6, v7) ==
  /\ Leads(e1, u1, v1, u2, v2)
  /\ Leads(e2, u2, v2, u3, v3)
  /\ Leads(e3, u3, v3, u4, v4)
  /\ Leads(e4, u4, v4, u5, v5)
  /\ Leads(e5, u5, v5, u6, v6)
  /\ Leads(e6, u6, v6, u7, v7)
  /\ Before(e1, u1, v1, e2, u2, v2)
  /\ Before(e1, u1, v1, e3, u3, v3)
  /\ Before(e1, u1, v1, e4, u4, v4)
  /\ Before(e1, u1, v1, e5, u5, v5)
  /\ Before(e1, u1, v1, e6, u6, v6)
  /\ Before(e2, u2, v2, e3, u3, v3)
  /\ Before(e2, u2, v2, e4, u4, v4)
  /\ Before(e2, u2, v2, e5, u5, v5)
  /\ Before(e2, u2, v2, e6, u6, v6)
  /\ Before(e3, u3, v3, e4, u4, v4)
  /\ Before(e3, u3, v3, e5, u5, v5)
  /\ Before(e3, u3, v3, e6, u6, v6)
  /\ Before(e4, u4, v4, e5, u5, v5)
  /\ Before(e4, u4, v4, e6, u6, v6)
  /\ Before(e5, u5, v5, e6, u6, v6)
  /\ Under(e1, u1, v1, Head(todo), x, y)
  /\ Under(e2, u2, v2, Head(todo), x, y)
  /\ Under(e3, u3, v3, Head(todo), x, y)
  /\ Under(e4, u4, v4, Head(todo), x, y)
  /\ Under(e5, u5, v5, Head(todo), x, y)
  /\ Under(e6, u6, v6, Head(todo), x, y)
  /\ NoReturn(e1) /\ NoReturn(e2) /\ NoReturn(e3) /\ NoReturn(e4) /\ NoReturn(e5) /\ Corner(e1,
       u1, v1, e6)
  /\ u7 = X[2] /\ v7 = Y[2] /\ x' = u1 /\ y' = v1
  /\ todo' = <<e1, e2, e3, e4, e5, e6>> \o Tail(todo) /\ UNCHANGED <<tnode, lines>>
  /\ \A qx, qy \in Int : \A ch :
       Writes(Head(todo), x, y, qx, qy, ch) =>
         \/ Writes(e1, u1, v1, qx, qy, ch)
         \/ Writes(e2, u2, v2, qx, qy, ch)
         \/ Writes(e3, u3, v3, qx, qy, ch)
         \/ Writes(e4, u4, v4, qx, qy, ch)
         \/ Writes(e5, u5, v5, qx, qy, ch)
         \/ Writes(e6, u6, v6, qx, qy, ch)

LEMMA ReplacedBy6 ==
  ASSUME NEW X, NEW Y, NEW e1, NEW e2, NEW e3, NEW e4, NEW e5, NEW e6, NEW u1 \in Nat,
         NEW u2 \in Nat, NEW u3 \in Nat, NEW u4 \in Nat, NEW u5 \in Nat, NEW u6 \in Nat,
         NEW u7 \in Nat,
         NEW v1 \in Nat, NEW v2 \in Nat, NEW v3 \in Nat, NEW v4 \in Nat, NEW v5 \in Nat,
         NEW v6 \in Nat,
         NEW v7 \in Nat, Does6(X, Y, e1, e2, e3, e4, e5, e6, u1, u2, u3, u4, u5, u6, u7,
         v1, v2, v3, v4, v5, v6, v7)
  PROVE  Replacing(<<e1, e2, e3, e4, e5, e6>>, <<u1, u2, u3, u4, u5, u6, u7>>, <<v1, v2, v3,
    v4, v5, v6, v7>>, X, Y)
<1>1. PICK new, U, V : new = <<e1, e2, e3, e4, e5, e6>> /\ U = <<u1, u2, u3, u4, u5, u6,
        u7>> /\ V = <<v1, v2, v3, v4, v5, v6, v7>>
  OBVIOUS
<1>2. Chain(new, U, V)
  BY ZenonT(60), <1>1, ChainOf6 DEF Does6
<1>3. /\ Len(new) = 6 /\ new[1] = e1 /\ new[2] = e2 /\ new[3] = e3 /\ new[4] = e4
           /\ new[5] = e5 /\ new[6] = e6
      /\ U[1] = u1 /\ U[2] = u2 /\ U[3] = u3 /\ U[4] = u4 /\ U[5] = u5 /\ U[6] = u6 /\ U[7] = u7
      /\ V[1] = v1 /\ V[2] = v2 /\ V[3] = v3 /\ V[4] = v4 /\ V[5] = v5 /\ V[6] = v6 /\ V[7] = v7
  BY <1>1
<1>4. U[Len(new) + 1] = X[2] /\ V[Len(new) + 1] = Y[2]
  BY <1>3 DEF Does6
<1>5. \A i \in 1..Len(new) : i = 1 \/ i = 2 \/ i = 3 \/ i = 4 \/ i = 5 \/ i = 6
  BY <1>3
<1>6. \A i \in 1..Len(new) : Under(new[i], U[i], V[i], Head(todo), x, y)
  BY <1>3, <1>5, Zenon DEF Does6
<1>7. 1 \in 1..Len(new) /\ 2 \in 1..Len(new) /\ 3 \in 1..Len(new) /\ 4 \in 1..Len(new)
        /\ 5 \in 1..Len(new) /\ 6 \in 1..Len(new)
  BY <1>3
<1>8. Kept(new, U, V)
  <2>1. ASSUME NEW qx \in Int, NEW qy \in Int, NEW c, Writes(Head(todo), x, y, qx, qy, c)
        PROVE  \E i \in 1..Len(new) : Writes(new[i], U[i], V[i], qx, qy, c)
    BY <1>3, <1>7, <2>1, Zenon DEF Does6
  <2> QED
    BY <2>1 DEF Kept, Does6
<1>9. SureOf(new, U, V)
  <2>1. Corner(new[1], U[1], V[1], new[6])
    BY <1>3 DEF Does6
  <2>2. \A i \in 1..Len(new) : new[i].op = "return" => i = 6
    BY <1>3, <1>5 DEF NoReturn, Does6
  <2>3. 1 \in 1..6 - 1
    OBVIOUS
  <2> QED
    BY <2>1, <2>2, <2>3 DEF Corner, SureOf
<1>10. x' = U[1] /\ y' = V[1]
  BY <1>3 DEF Does6
<1>11. todo' = new \o Tail(todo) /\ tnode' = tnode
  BY <1>1 DEF Does6
<1>12. Replacing(new, U, V, X, Y)
  BY <1>2, <1>4, <1>6, <1>8, <1>9, <1>10, <1>11 DEF Replacing
<1> QED
  BY <1>1, <1>12, Zenon

LEMMA Aside ==
  ASSUME NEW e, NEW ex, NEW ey, NEW f, NEW fx, NEW fy, NoReturn(f),
         \A qx, qy \in Int : Covers(e, ex, ey, qx, qy) => ~Covers(f, fx, fy, qx, qy)
  PROVE  Before(e, ex, ey, f, fx, fy)
BY DEF Before, NoReturn

LEMMA BeforeReturn ==
  ASSUME Head(todo).op = "render", NEW e, NEW ex, NEW ey, Under(e, ex, ey, Head(todo), x, y),
         NEW f, f = Return(Head(todo).tile, x, y), NEW fx, NEW fy
  PROVE  Before(e, ex, ey, f, fx, fy)
BY ZenonT(60) DEF Before, Return, Covers, Under

LEMMA HeadWrites ==
  ASSUME Head(todo).op \notin {"print", "row"}
  PROVE  \A qx, qy \in Int : \A c : ~Writes(Head(todo), x, y, qx, qy, c)
BY DEF Writes

\* Nothing is left to do of what has been first.
LEMMA Removed ==
  ASSUME NEW X, NEW Y, Drawing(X, Y), todo # <<>>, Head(todo).op \notin {"print", "row"},
         todo' = <<>> \o Tail(todo), x' = X[2], y' = Y[2], UNCHANGED <<tnode, lines>>
  PROVE  \E X2, Y2 : Drawing(X2, Y2)'
<1>1. PICK new, U, V : new = <<>> /\ U = <<X[2]>> /\ V = <<Y[2]>>
  OBVIOUS
<1>2. Len(new) = 0 /\ 1..Len(new) = {} /\ U[1] = X[2] /\ V[1] = Y[2] /\ Len(new) + 1 = 1
  BY <1>1
<1>3. Chain(new, U, V)
  BY <1>1, HeadFacts, ChainOf0
<1>4. Kept(new, U, V) /\ SureOf(new, U, V)
  BY <1>2, KeptAsIs, SureOfNone
<1> QED
  BY <1>1, <1>2, <1>3, <1>4, ReplaceStep

LEMMA JustifyStep ==
  ASSUME NEW X, NEW Y, Drawing(X, Y), DoJustify
  PROVE  \E X2, Y2 : Drawing(X2, Y2)'
<1>1. todo # <<>> /\ Head(todo).op = "justify" /\ UNCHANGED <<tnode, x, y, lines>>
  BY DEF DoJustify, Do
<1>2. PICK t, k : t = Head(todo).tile /\ k = Head(todo).space
  OBVIOUS
<1>3. /\ x \in Nat /\ y \in Nat /\ t \in Parts /\ k \in Nat /\ t.a <= y /\ t.w <= k
      /\ X[2] = x + k /\ Y[2] = y
  BY <1>1, <1>2, HeadFacts DEF Leads
<1>4. PICK w \in Nat, a \in Nat, d \in Nat :
        w = t.w /\ a = t.a /\ d = t.d /\ d > 0 /\ w <= k /\ a <= y
  BY <1>3, TileFacts
<1>5. PICK l \in Nat, m \in Nat : l = (k - w) \div 2 /\ m = (k - w) - l /\ l + w + m = k
  <2>1. PICK j \in Nat : j = k - w
    BY <1>3, <1>4
  <2>2. j \div 2 \in Nat /\ j - (j \div 2) \in Nat
    BY <2>1
  <2> QED
    BY <1>3, <1>4, <2>1, <2>2
<1>6. PICK c, s1, s2 :
        /\ c = IF t.type = "ELLIPSIS" THEN "blank" ELSE "horizontal"
        /\ s1 = Times(l, c) /\ Len(s1) = l /\ DOMAIN s1 = 1..l
        /\ s2 = Times(m, c) /\ Len(s2) = m /\ DOMAIN s2 = 1..m
  BY TimesFacts
<1>7. PICK u1 \in Nat, u2 \in Nat, u3 \in Nat, u4 \in Nat, v1 \in Nat :
        /\ u1 = x /\ u2 = u1 + l /\ u3 = u2 + w /\ u4 = u3 + m /\ u4 = X[2]
        /\ v1 = y /\ v1 = Y[2] /\ a <= v1 /\ d > 0
  <2>1. x + l \in Nat /\ (x + l) + w \in Nat /\ ((x + l) + w) + m \in Nat
    BY <1>3
  <2>2. ((x + l) + w) + m = X[2]
    BY <1>3, <1>5
  <2> QED
    BY <1>3, <1>4, <2>1, <2>2
<1>8. \A qx, qy \in Int : Covers(Head(todo), x, y, qx, qy) <=>
         u1 <= qx /\ qx < u4 /\ v1 - a <= qy /\ qy < v1 + d
  <2>1. u4 = x + k
    BY <1>3, <1>7
  <2> QED
    BY <1>1, <1>2, <1>4, <1>7, <2>1 DEF Covers
<1>9. PICK e1, e2, e3 :
        /\ e1 = Puts(s1)
        /\ e2 = Render(t)
        /\ e3 = Puts(s2)
  OBVIOUS
<1>10. todo' = <<e1, e2, e3>> \o Tail(todo)
  BY <1>2, <1>4, <1>5, <1>6, <1>9 DEF DoJustify, Instead
<1>11. /\ NoReturn(e1) /\ Leads(e1, u1, v1, u2, v1)
       /\ \A qx, qy \in Int : Covers(e1, u1, v1, qx, qy) <=>
                        qy = v1 /\ u1 <= qx /\ qx < u2
  BY <1>7, <1>6, <1>9 DEF Puts, Leads, Covers, NoReturn
<1>12. /\ NoReturn(e2) /\ Leads(e2, u2, v1, u3, v1)
       /\ \A qx, qy \in Int : Covers(e2, u2, v1, qx, qy) <=>
                        u2 <= qx /\ qx < u3 /\ v1 - a <= qy /\ qy < v1 + d
  BY <1>7, <1>3, <1>4, <1>9 DEF Render, InTile, Leads, Covers, NoReturn
<1>13. /\ NoReturn(e3) /\ Leads(e3, u3, v1, u4, v1)
       /\ \A qx, qy \in Int : Covers(e3, u3, v1, qx, qy) <=>
                        qy = v1 /\ u3 <= qx /\ qx < u4
  BY <1>7, <1>6, <1>9 DEF Puts, Leads, Covers, NoReturn
<1>14. /\ Under(e1, u1, v1, Head(todo), x, y) /\ Under(e2, u2, v1, Head(todo), x, y)
       /\ Under(e3, u3, v1, Head(todo), x, y)
  <2>1. Under(e1, u1, v1, Head(todo), x, y)
    BY <1>7, <1>11, <1>8 DEF Under
  <2>2. Under(e2, u2, v1, Head(todo), x, y)
    BY <1>7, <1>12, <1>8 DEF Under
  <2>3. Under(e3, u3, v1, Head(todo), x, y)
    BY <1>7, <1>13, <1>8 DEF Under
  <2> QED
    BY <2>1, <2>2, <2>3
<1>15. /\ Before(e1, u1, v1, e2, u2, v1) /\ Before(e1, u1, v1, e3, u3, v1)
       /\ Before(e2, u2, v1, e3, u3, v1)
  <2>1. \A qx, qy \in Int :
          Covers(e1, u1, v1, qx, qy) => ~Covers(e2, u2, v1, qx, qy)
    BY <1>7, <1>11, <1>12
  <2>2. Before(e1, u1, v1, e2, u2, v1)
    BY <2>1, <1>12, Aside
  <2>3. \A qx, qy \in Int :
          Covers(e1, u1, v1, qx, qy) => ~Covers(e3, u3, v1, qx, qy)
    BY <1>7, <1>11, <1>13
  <2>4. Before(e1, u1, v1, e3, u3, v1)
    BY <2>3, <1>13, Aside
  <2>5. \A qx, qy \in Int :
          Covers(e2, u2, v1, qx, qy) => ~Covers(e3, u3, v1, qx, qy)
    BY <1>7, <1>12, <1>13
  <2>6. Before(e2, u2, v1, e3, u3, v1)
    BY <2>5, <1>13, Aside
  <2> QED
    BY <2>2, <2>4, <2>6
<1>16. Corner(e1, u1, v1, e3)
  BY <1>13 DEF Corner, NoReturn
<1>17. \A qx, qy \in Int : \A ch : ~Writes(Head(todo), x, y, qx, qy, ch)
  BY <1>1, HeadWrites
<1>18. \A qx, qy \in Int : \A ch :
         Writes(Head(todo), x, y, qx, qy, ch) =>
           \/ Writes(e1, u1, v1, qx, qy, ch)
           \/ Writes(e2, u2, v1, qx, qy, ch)
           \/ Writes(e3, u3, v1, qx, qy, ch)
  BY <1>17
<1>19. /\ x' = u1 /\ y' = v1 /\ UNCHANGED <<tnode, lines>>
       /\ u4 = X[2] /\ v1 = Y[2]
  BY <1>1, <1>7
<1>20. Does3(X, Y, e1, e2, e3, u1, u2, u3, u4, v1, v1, v1, v1)
  BY <1>10, <1>11, <1>12, <1>13, <1>14, <1>15, <1>16, <1>18, <1>19 DEF Does3
<1>21. Replacing(<<e1, e2, e3>>, <<u1, u2, u3, u4>>,
                 <<v1, v1, v1, v1>>, X, Y)
  BY <1>20, ReplacedBy3
<1> QED
  BY <1>1, <1>21, ReplacingStep

LEMMA BarsStep ==
  ASSUME NEW X, NEW Y, Drawing(X, Y), DoBars
  PROVE  \E X2, Y2 : Drawing(X2, Y2)'
<1>1. todo # <<>> /\ Head(todo).op = "bars" /\ UNCHANGED <<tnode, x, y, lines>>
  BY DEF DoBars, Do
<1>2. PICK k, w : k = Head(todo).k /\ w = Head(todo).w
  OBVIOUS
<1>3. /\ x \in Nat /\ y \in Nat /\ k \in Nat /\ w \in Nat /\ 2 <= w
      /\ X[2] = x /\ Y[2] = y + k
  BY <1>1, <1>2, HeadFacts DEF Leads
<1>4. CASE k = 0
  <2>1. todo' = <<>> \o Tail(todo)
    BY <1>2, <1>4 DEF DoBars, Instead
  <2>2. X[2] = x' /\ Y[2] = y'
    BY <1>1, <1>3, <1>4
  <2> QED
    BY <1>1, <2>1, <2>2, Removed
<1>5. CASE k # 0
  <2>1. PICK m \in Nat, l \in Nat : m = w - 2 /\ l = k - 1
    BY <1>3, <1>5
  <2>2. PICK u1 \in Nat, u2 \in Nat, u3 \in Nat, u4 \in Nat,
             v1 \in Nat, v5 \in Nat, v6 \in Nat :
          /\ u1 = x /\ u2 = u1 + 1 /\ u3 = u2 + m /\ u4 = u3 + 1 /\ u1 = X[2]
          /\ v1 = y /\ v5 = v1 + 1 /\ v6 = v5 + l /\ v6 = Y[2]
    BY <1>3, <2>1
  <2>3. PICK s : s = <<"vertical">>
    OBVIOUS
  <2>4. PICK n \in Nat : n = 1 /\ Len(s) = n /\ DOMAIN s = 1..n
    BY <2>3
  <2>5. \A qx, qy \in Int : Covers(Head(todo), x, y, qx, qy) <=>
           (qx = u1 \/ qx = u3) /\ v1 <= qy /\ qy < v6
    <3>1. u3 = x + w - 1 /\ v6 = y + k /\ u1 = x /\ v1 = y
      BY <1>3, <2>1, <2>2
    <3> QED
      BY <1>1, <1>2, <3>1 DEF Covers
  <2>6. w \in Nat /\ 2 <= w /\ u1 + w - 1 = u3
    BY <1>3, <2>1, <2>2
  <2>7. PICK e1, e2, e3, e4, e5 :
          /\ e1 = Puts(s)
          /\ e2 = Skip(m, v1)
          /\ e3 = Puts(s)
          /\ e4 = Down(u1)
          /\ e5 = Bars(l, w)
    OBVIOUS
  <2>8. todo' = <<e1, e2, e3, e4, e5>> \o Tail(todo)
    BY <1>2, <1>5, <2>1, <2>2, <2>3, <2>7 DEF DoBars, Instead
  <2>9. /\ NoReturn(e1) /\ Leads(e1, u1, v1, u2, v1)
        /\ \A qx, qy \in Int : Covers(e1, u1, v1, qx, qy) <=>
                         qy = v1 /\ u1 <= qx /\ qx < u2
    BY <2>2, <2>4, <2>7 DEF Puts, Leads, Covers, NoReturn
  <2>10. NoReturn(e2) /\ Leads(e2, u2, v1, u3, v1) /\ Quiet(e2, u2, v1)
    BY <2>2, <2>7 DEF Skip, Leads, Covers, NoReturn, Quiet
  <2>11. /\ NoReturn(e3) /\ Leads(e3, u3, v1, u4, v1)
         /\ \A qx, qy \in Int : Covers(e3, u3, v1, qx, qy) <=>
                          qy = v1 /\ u3 <= qx /\ qx < u4
    BY <2>2, <2>4, <2>7 DEF Puts, Leads, Covers, NoReturn
  <2>12. NoReturn(e4) /\ Leads(e4, u4, v1, u1, v5) /\ Quiet(e4, u4, v1)
    BY <2>2, <2>7 DEF Down, Leads, Covers, NoReturn, Quiet
  <2>13. /\ NoReturn(e5) /\ Leads(e5, u1, v5, u1, v6)
         /\ \A qx, qy \in Int : Covers(e5, u1, v5, qx, qy) <=>
                          (qx = u1 \/ qx = u3) /\ v5 <= qy /\ qy < v6
    BY <2>2, <2>6, <2>7 DEF Bars, Leads, Covers, NoReturn
  <2>14. /\ Under(e1, u1, v1, Head(todo), x, y) /\ Under(e2, u2, v1, Head(todo), x, y)
         /\ Under(e3, u3, v1, Head(todo), x, y) /\ Under(e4, u4, v1, Head(todo), x, y)
         /\ Under(e5, u1, v5, Head(todo), x, y)
    <3>1. Under(e1, u1, v1, Head(todo), x, y)
      BY <2>2, <2>9, <2>5 DEF Under
    <3>2. Under(e2, u2, v1, Head(todo), x, y)
      BY <2>10 DEF Under, Quiet
    <3>3. Under(e3, u3, v1, Head(todo), x, y)
      BY <2>2, <2>11, <2>5 DEF Under
    <3>4. Under(e4, u4, v1, Head(todo), x, y)
      BY <2>12 DEF Under, Quiet
    <3>5. Under(e5, u1, v5, Head(todo), x, y)
      BY <2>2, <2>13, <2>5 DEF Under
    <3> QED
      BY <3>1, <3>2, <3>3, <3>4, <3>5
  <2>15. /\ Before(e1, u1, v1, e2, u2, v1) /\ Before(e1, u1, v1, e3, u3, v1)
         /\ Before(e1, u1, v1, e4, u4, v1) /\ Before(e1, u1, v1, e5, u1, v5)
         /\ Before(e2, u2, v1, e3, u3, v1) /\ Before(e2, u2, v1, e4, u4, v1)
         /\ Before(e2, u2, v1, e5, u1, v5) /\ Before(e3, u3, v1, e4, u4, v1)
         /\ Before(e3, u3, v1, e5, u1, v5) /\ Before(e4, u4, v1, e5, u1, v5)
    <3>1. Before(e1, u1, v1, e2, u2, v1)
      BY <2>10, QuietBefore DEF Quiet
    <3>2. \A qx, qy \in Int :
            Covers(e1, u1, v1, qx, qy) => ~Covers(e3, u3, v1, qx, qy)
      BY <2>2, <2>9, <2>11
    <3>3. Before(e1, u1, v1, e3, u3, v1)
      BY <3>2, <2>11, Aside
    <3>4. Before(e1, u1, v1, e4, u4, v1)
      BY <2>12, QuietBefore DEF Quiet
    <3>5. \A qx, qy \in Int :
            Covers(e1, u1, v1, qx, qy) => ~Covers(e5, u1, v5, qx, qy)
      BY <2>2, <2>9, <2>13
    <3>6. Before(e1, u1, v1, e5, u1, v5)
      BY <3>5, <2>13, Aside
    <3>7. Before(e2, u2, v1, e3, u3, v1)
      BY <2>10, QuietBefore DEF Quiet
    <3>8. Before(e2, u2, v1, e4, u4, v1)
      BY <2>10, <2>12, QuietBefore DEF Quiet
    <3>9. Before(e2, u2, v1, e5, u1, v5)
      BY <2>10, QuietBefore DEF Quiet
    <3>10. Before(e3, u3, v1, e4, u4, v1)
      BY <2>12, QuietBefore DEF Quiet
    <3>11. \A qx, qy \in Int :
             Covers(e3, u3, v1, qx, qy) => ~Covers(e5, u1, v5, qx, qy)
      BY <2>2, <2>11, <2>13
    <3>12. Before(e3, u3, v1, e5, u1, v5)
      BY <3>11, <2>13, Aside
    <3>13. Before(e4, u4, v1, e5, u1, v5)
      BY <2>12, QuietBefore DEF Quiet
    <3> QED
      BY <3>1, <3>3, <3>4, <3>6, <3>7, <3>8, <3>9, <3>10, <3>12, <3>13
  <2>16. Corner(e1, u1, v1, e5)
    BY <2>13 DEF Corner, NoReturn
  <2>17. \A qx, qy \in Int : \A ch : ~Writes(Head(todo), x, y, qx, qy, ch)
    BY <1>1, HeadWrites
  <2>18. \A qx, qy \in Int : \A ch :
           Writes(Head(todo), x, y, qx, qy, ch) =>
             \/ Writes(e1, u1, v1, qx, qy, ch)
             \/ Writes(e2, u2, v1, qx, qy, ch)
             \/ Writes(e3, u3, v1, qx, qy, ch)
             \/ Writes(e4, u4, v1, qx, qy, ch)
             \/ Writes(e5, u1, v5, qx, qy, ch)
    BY <2>17
  <2>19. /\ x' = u1 /\ y' = v1 /\ UNCHANGED <<tnode, lines>>
         /\ u1 = X[2] /\ v6 = Y[2]
    BY <1>1, <2>2
  <2>20. Does5(X, Y, e1, e2, e3, e4, e5, u1, u2, u3, u4, u1, u1, v1, v1, v1, v1, v5, v6)
    BY <2>8, <2>9, <2>10, <2>11, <2>12, <2>13, <2>14, <2>15, <2>16, <2>18, <2>19 DEF Does5
  <2>21. Replacing(<<e1, e2, e3, e4, e5>>, <<u1, u2, u3, u4, u1, u1>>,
                   <<v1, v1, v1, v1, v5, v6>>, X, Y)
    BY <2>20, ReplacedBy5
  <2> QED
    BY <1>1, <2>21, ReplacingStep
<1> QED
  BY <1>4, <1>5

LEMMA VlistStep ==
  ASSUME NEW X, NEW Y, Drawing(X, Y), RenderVlist
  PROVE  \E X2, Y2 : Drawing(X2, Y2)'
<1>1. /\ todo # <<>> /\ Head(todo).op = "render" /\ Head(todo).tile.type = "VLIST"
      /\ UNCHANGED <<tnode, x, lines>>
  BY DEF RenderVlist, Rendering, Do
<1>2. PICK t : t = Head(todo).tile
  OBVIOUS
<1>3. /\ x \in Nat /\ y \in Nat /\ t \in Parts /\ t.type = "VLIST" /\ t.a <= y
      /\ X[2] = x + t.w /\ Y[2] = y
  BY <1>1, <1>2, HeadFacts DEF Leads
<1>4. PICK w \in Nat, a \in Nat, d \in Nat :
        w = t.w /\ a = t.a /\ d = t.d /\ d > 0 /\ a <= y
  BY <1>3, TileFacts
<1>5. PICK u1 \in Nat, u2 \in Nat, v3 \in Nat :
        u1 = x /\ u2 = u1 + w /\ u2 = X[2] /\ v3 = y /\ v3 = Y[2] /\ a <= v3 /\ d > 0
  BY <1>3, <1>4
<1>6. \A qx, qy \in Int : Covers(Head(todo), x, y, qx, qy) <=>
        u1 <= qx /\ qx < u2 /\ v3 - a <= qy /\ qy < v3 + d
  BY <1>1, <1>2, <1>4, <1>5 DEF Covers, InTile
<1>7. CASE t.lines = <<>>
  <2>1. PICK s : s = Track(w) /\ Len(s) = w /\ DOMAIN s = 1..w
    BY TimesFacts DEF Track
  <2>2. y' = y
    <3>1. t.o = 0
      BY <1>3, <1>7, TileFacts DEF SizedVlist
    <3> QED
      BY <1>2, <3>1 DEF RenderVlist
  <2>3. PICK e1, e2 :
          /\ e1 = Puts(s)
          /\ e2 = Return(t, x, y)
    OBVIOUS
  <2>4. todo' = <<e1, e2>> \o Tail(todo)
    BY <1>2, <1>4, <1>7, <2>1, <2>3 DEF RenderVlist, Instead
  <2>5. /\ NoReturn(e1) /\ Leads(e1, u1, v3, u2, v3)
        /\ \A qx, qy \in Int : Covers(e1, u1, v3, qx, qy) <=>
                         qy = v3 /\ u1 <= qx /\ qx < u2
    BY <1>5, <2>1, <2>3 DEF Puts, Leads, Covers, NoReturn
  <2>6. /\ e2.op = "return" /\ e2.tile = t /\ e2.x = x /\ e2.y = y
        /\ Leads(e2, u2, v3, u2, v3)
        /\ \A qx, qy \in Int : ~Covers(e2, u2, v3, qx, qy)
    BY <1>5, <1>3, <1>4, <2>3 DEF Return, Leads, Covers, NoReturn
  <2>7. Under(e1, u1, v3, Head(todo), x, y) /\ Under(e2, u2, v3, Head(todo), x, y)
    <3>1. Under(e1, u1, v3, Head(todo), x, y)
      BY <1>5, <2>5, <1>6 DEF Under
    <3>2. Under(e2, u2, v3, Head(todo), x, y)
      BY <2>6 DEF Under, Quiet
    <3> QED
      BY <3>1, <3>2
  <2>8. Before(e1, u1, v3, e2, u2, v3)
    BY <1>1, <1>2, <2>3, <2>7, BeforeReturn
  <2>9. Corner(e1, u1, v3, e2)
    BY <1>7, <2>6 DEF Corner
  <2>10. \A qx, qy \in Int : \A ch : ~Writes(Head(todo), x, y, qx, qy, ch)
    BY <1>1, <1>2, HeadWrites
  <2>11. \A qx, qy \in Int : \A ch :
           Writes(Head(todo), x, y, qx, qy, ch) =>
             \/ Writes(e1, u1, v3, qx, qy, ch)
             \/ Writes(e2, u2, v3, qx, qy, ch)
    BY <2>10
  <2>12. /\ x' = u1 /\ y' = v3 /\ UNCHANGED <<tnode, lines>>
         /\ u2 = X[2] /\ v3 = Y[2]
    BY <1>1, <1>2, <1>5, <2>2
  <2>13. Does2(X, Y, e1, e2, u1, u2, u2, v3, v3, v3)
    BY <2>4, <2>5, <2>6, <2>7, <2>8, <2>9, <2>11, <2>12 DEF Does2
  <2>14. Replacing(<<e1, e2>>, <<u1, u2, u2>>,
                   <<v3, v3, v3>>, X, Y)
    BY <2>13, ReplacedBy2
  <2> QED
    BY <1>1, <1>2, <2>14, ReplacingStep
<1>8. CASE t.lines # <<>>
  <2>1. /\ 1 \in DOMAIN t.lines /\ Len(t.lines) \in DOMAIN t.lines /\ t.o + 1 \in DOMAIN t.lines
        /\ t.lines[1] \in Parts /\ FirstRow(t) \in Nat /\ Levels(t)[1] = 0 /\ t.o \in 0..1
        /\ FirstRow(t) + Levels(t)[t.o + 1] = t.a
    <3>1. t.o + 1 \in DOMAIN t.lines
      BY <1>3, <1>8, TileFacts DEF SizedVlist
    <3> QED
      BY <1>3, <3>1, LineFacts
  <2>2. PICK f \in Nat, g \in Nat, z \in Nat, b \in Nat, o \in Nat :
          /\ f = FirstRow(t) /\ g = Levels(t)[t.o + 1] /\ z = Levels(t)[Len(t.lines)]
          /\ b = t.lines[1].a /\ b <= f /\ f + g = a /\ o = t.o
    <3>1. Levels(t)[t.o + 1] \in Nat /\ Levels(t)[Len(t.lines)] \in Nat
      BY <1>3, <2>1, LineFacts
    <3>2. t.lines[1].a \in Nat
      BY <2>1, TileFacts
    <3>3. t.lines[1].a <= FirstRow(t) + Levels(t)[1]
      BY <1>3, <2>1, LineFacts
    <3>4. t.lines[1].a <= FirstRow(t)
      BY <2>1, <3>2, <3>3
    <3>5. FirstRow(t) + Levels(t)[t.o + 1] = a /\ t.o \in Nat
      BY <1>4, <2>1
    <3> QED
      BY <2>1, <3>1, <3>2, <3>4, <3>5
  <2>3. PICK v1 \in Nat, v2 \in Nat : v1 = y' /\ v1 = v3 - g /\ v2 = v1 + z
    <3>1. FirstRow(t) = IF t.o = 1 THEN 0 ELSE a
      BY <1>4 DEF FirstRow
    <3>2. y' = v3 - g
      BY SMTT(60), <1>2, <1>4, <1>5, <2>1, <2>2, <3>1 DEF RenderVlist
    <3>3. g <= v3
      BY SMTT(60), <1>5, <2>2
    <3>4. PICK v \in Nat : v = v3 - g
      BY <3>3
    <3>5. v + z \in Nat
      OBVIOUS
    <3> QED
      BY <3>2, <3>4, <3>5
  <2>4. PICK l \in Nat : l = 0 /\ l = Levels(t)[1]
    BY <2>1
  <2>5. b <= f /\ f + g = a
    BY <2>2
  <2>6. v1 = v3 - g /\ v2 = v1 + z
    BY <2>3
  <2>7. u2 = u1 + w /\ a <= v3 /\ d > 0
    BY <1>5
  <2>8. /\ v1 - f - l + a + d = v3 + d /\ v2 = v1 - l + z /\ v3 = v1 - l + g
        /\ v3 - a <= v1 - b /\ u1 + w = u2 /\ f + l <= v1
    BY <2>4, <2>5, <2>6, <2>7
  <2>9. f = FirstRow(t) /\ g = Levels(t)[t.o + 1] /\ z = Levels(t)[Len(t.lines)]
          /\ b = t.lines[1].a
    BY <2>2
  <2>10. PICK e1, e2 :
           /\ e1 = Row(t, 1, u1)
           /\ e2 = Return(t, x, y)
    OBVIOUS
  <2>11. todo' = <<e1, e2>> \o Tail(todo)
    BY <1>2, <1>5, <1>8, <2>10 DEF RenderVlist, Instead
  <2>12. /\ NoReturn(e1) /\ Leads(e1, u1, v1, u2, v2) /\ e1.op = "row" /\ e1.tile = t /\ e1.j = 1
         /\ \A qx, qy \in Int : Covers(e1, u1, v1, qx, qy) <=>
                          /\ qy < v1 - f - l + a + d
                          /\ \/ v1 <= qy /\ u1 <= qx /\ qx < u1 + w
                             \/ v1 - b <= qy /\ u1 < qx /\ qx < u1 + w - 1
    <3>1. NoReturn(e1) /\ Leads(e1, u1, v1, u2, v2) /\ e1.op = "row" /\ e1.tile = t /\ e1.j = 1
      BY <2>7, <2>8, <1>3, <1>4, <2>1, <2>4, <2>9, <2>10 DEF Row, Leads, Covers, NoReturn
    <3>2. \A qx, qy \in Int : Covers(e1, u1, v1, qx, qy) <=>
                           /\ qy < v1 - f - l + a + d
                           /\ \/ v1 <= qy /\ u1 <= qx /\ qx < u1 + w
                              \/ v1 - b <= qy /\ u1 < qx /\ qx < u1 + w - 1
      BY ZenonT(60), <2>7, <2>8, <1>3, <1>4, <2>1, <2>4, <2>9, <2>10 DEF Row, Leads, Covers,
        NoReturn
    <3> QED
      BY <3>1, <3>2
  <2>13. /\ e2.op = "return" /\ e2.tile = t /\ e2.x = x /\ e2.y = y
         /\ Leads(e2, u2, v2, u2, v3)
         /\ \A qx, qy \in Int : ~Covers(e2, u2, v2, qx, qy)
    BY <2>7, <2>8, <1>3, <1>4, <1>5, <2>10 DEF Return, Leads, Covers, NoReturn
  <2>14. Under(e1, u1, v1, Head(todo), x, y) /\ Under(e2, u2, v2, Head(todo), x, y)
    <3>1. Under(e1, u1, v1, Head(todo), x, y)
      BY <2>7, <2>8, <2>12, <1>6 DEF Under
    <3>2. Under(e2, u2, v2, Head(todo), x, y)
      BY <2>13 DEF Under, Quiet
    <3> QED
      BY <3>1, <3>2
  <2>15. Before(e1, u1, v1, e2, u2, v2)
    BY <1>1, <1>2, <2>10, <2>14, BeforeReturn
  <2>16. Corner(e1, u1, v1, e2)
    <3>1. e2.x = u1 /\ e2.y = v1 - Levels(t)[1] + Levels(t)[t.o + 1]
      BY <1>5, <2>4, <2>8, <2>9, <2>13
    <3>2. 1 <= t.o + 1
      BY <2>1
    <3>3. Writes(e1, u1, v1, e2.x, e2.y, Corners[t.b[t.o + 1]][1])
      BY <2>12, <3>1, <3>2 DEF Writes
    <3>4. Writes(e1, u1, v1, e2.x + t.w - 1, e2.y, Corners[t.b[t.o + 1]][2])
      BY <2>12, <3>1, <3>2 DEF Writes
    <3> QED
      BY <2>13, <3>3, <3>4 DEF Corner
  <2>17. \A qx, qy \in Int : \A ch : ~Writes(Head(todo), x, y, qx, qy, ch)
    BY <1>1, <1>2, HeadWrites
  <2>18. \A qx, qy \in Int : \A ch :
           Writes(Head(todo), x, y, qx, qy, ch) =>
             \/ Writes(e1, u1, v1, qx, qy, ch)
             \/ Writes(e2, u2, v2, qx, qy, ch)
    BY <2>17
  <2>19. /\ x' = u1 /\ y' = v1 /\ UNCHANGED <<tnode, lines>>
         /\ u2 = X[2] /\ v3 = Y[2]
    BY <1>1, <1>2, <2>7, <2>8, <1>5, <2>3
  <2>20. Does2(X, Y, e1, e2, u1, u2, u2, v1, v2, v3)
    BY <2>11, <2>12, <2>13, <2>14, <2>15, <2>16, <2>18, <2>19 DEF Does2
  <2>21. Replacing(<<e1, e2>>, <<u1, u2, u2>>,
                   <<v1, v2, v3>>, X, Y)
    BY <2>20, ReplacedBy2
  <2> QED
    BY <1>1, <1>2, <2>21, ReplacingStep
<1> QED
  BY <1>7, <1>8

LEMMA HlistStep ==
  ASSUME NEW X, NEW Y, Drawing(X, Y), RenderHlist
  PROVE  \E X2, Y2 : Drawing(X2, Y2)'
<1>1. /\ todo # <<>> /\ Head(todo).op = "render" /\ Head(todo).tile.type = "HLIST"
      /\ UNCHANGED <<tnode, x, y, lines>>
  BY DEF RenderHlist, Rendering, Do
<1>2. PICK t : t = Head(todo).tile
  OBVIOUS
<1>3. /\ x \in Nat /\ y \in Nat /\ t \in Parts /\ t.type = "HLIST" /\ t.a <= y
      /\ X[2] = x + t.w /\ Y[2] = y
  BY <1>1, <1>2, HeadFacts DEF Leads
<1>4. PICK w \in Nat, a \in Nat, d \in Nat :
        /\ w = t.w /\ a = t.a /\ d = t.d /\ a <= y
        /\ 1 \in DOMAIN t.tiles /\ Columns(t)[1] = 0
  BY <1>3, TileFacts, PartFacts
<1>5. PICK u1 \in Nat, u2 \in Nat, v1 \in Nat :
        u1 = x /\ u2 = u1 + w /\ u2 = X[2] /\ v1 = y /\ v1 = Y[2] /\ a <= v1
  BY <1>3, <1>4
<1>6. \A qx, qy \in Int : Covers(Head(todo), x, y, qx, qy) <=>
        u1 <= qx /\ qx < u2 /\ v1 - a <= qy /\ qy < v1 + d
  BY <1>1, <1>2, <1>4, <1>5 DEF Covers, InTile
<1>7. PICK e1, e2 :
        /\ e1 = Part(t, 1)
        /\ e2 = Return(t, x, y)
  OBVIOUS
<1>8. todo' = <<e1, e2>> \o Tail(todo)
  BY <1>2, <1>7 DEF RenderHlist, Instead
<1>9. /\ NoReturn(e1) /\ Leads(e1, u1, v1, u2, v1)
      /\ \A qx, qy \in Int : Covers(e1, u1, v1, qx, qy) <=>
                       u1 <= qx /\ qx < u2 /\ v1 - a <= qy /\ qy < v1 + d
  BY <1>5, <1>3, <1>4, <1>7 DEF Part, Leads, Covers, NoReturn
<1>10. /\ e2.op = "return" /\ e2.tile = t /\ e2.x = x /\ e2.y = y
       /\ Leads(e2, u2, v1, u2, v1)
       /\ \A qx, qy \in Int : ~Covers(e2, u2, v1, qx, qy)
  BY <1>5, <1>3, <1>4, <1>7 DEF Return, Leads, Covers, NoReturn
<1>11. Under(e1, u1, v1, Head(todo), x, y) /\ Under(e2, u2, v1, Head(todo), x, y)
  <2>1. Under(e1, u1, v1, Head(todo), x, y)
    BY <1>5, <1>9, <1>6 DEF Under
  <2>2. Under(e2, u2, v1, Head(todo), x, y)
    BY <1>10 DEF Under, Quiet
  <2> QED
    BY <2>1, <2>2
<1>12. Before(e1, u1, v1, e2, u2, v1)
  BY <1>1, <1>2, <1>7, <1>11, BeforeReturn
<1>13. Corner(e1, u1, v1, e2)
  BY <1>3, <1>10 DEF Corner
<1>14. \A qx, qy \in Int : \A ch : ~Writes(Head(todo), x, y, qx, qy, ch)
  BY <1>1, <1>2, HeadWrites
<1>15. \A qx, qy \in Int : \A ch :
         Writes(Head(todo), x, y, qx, qy, ch) =>
           \/ Writes(e1, u1, v1, qx, qy, ch)
           \/ Writes(e2, u2, v1, qx, qy, ch)
  BY <1>14
<1>16. /\ x' = u1 /\ y' = v1 /\ UNCHANGED <<tnode, lines>>
       /\ u2 = X[2] /\ v1 = Y[2]
  BY <1>1, <1>2, <1>5
<1>17. Does2(X, Y, e1, e2, u1, u2, u2, v1, v1, v1)
  BY <1>8, <1>9, <1>10, <1>11, <1>12, <1>13, <1>15, <1>16 DEF Does2
<1>18. Replacing(<<e1, e2>>, <<u1, u2, u2>>,
                 <<v1, v1, v1>>, X, Y)
  BY <1>17, ReplacedBy2
<1> QED
  BY <1>1, <1>2, <1>18, ReplacingStep

LEMMA NoMore ==
  ASSUME NEW e
  PROVE  <<e>> \o <<>> = <<e>>
OBVIOUS

LEMMA PartStep ==
  ASSUME NEW X, NEW Y, Drawing(X, Y), DoPart
  PROVE  \E X2, Y2 : Drawing(X2, Y2)'
<1>1. todo # <<>> /\ Head(todo).op = "part" /\ UNCHANGED <<tnode, x, y, lines>>
  BY DEF DoPart, Do
<1>2. PICK t, i : t = Head(todo).tile /\ i = Head(todo).i
  OBVIOUS
<1>3. /\ x \in Nat /\ y \in Nat /\ t \in Parts /\ t.type = "HLIST" /\ t.a <= y
      /\ i \in DOMAIN t.tiles /\ X[2] = x + t.w - Columns(t)[i] /\ Y[2] = y
  BY <1>1, <1>2, HeadFacts DEF Leads
<1>4. PICK w \in Nat, a \in Nat, d \in Nat, c \in Nat :
        w = t.w /\ a = t.a /\ d = t.d /\ d > 0 /\ a <= y /\ c = Columns(t)[i]
  BY <1>3, TileFacts, PartFacts
<1>5. PICK p : p = t.tiles[i] /\ p \in Parts
  BY <1>3, PartFacts
<1>6. PICK pw \in Nat, pa \in Nat, pd \in Nat :
        pw = p.w /\ pa = p.a /\ pd = p.d /\ pa <= a /\ pd <= d /\ c + pw <= w
  BY <1>3, <1>4, <1>5, TileFacts, PartFacts
<1>7. PICK u1 \in Nat, u2 \in Nat, u4 \in Nat, v1 \in Nat :
        /\ u1 = x /\ u2 = u1 + pw /\ u4 = u1 + w - c /\ u4 = X[2] /\ u1 <= u2 /\ u2 <= u4
        /\ v1 = y /\ v1 = Y[2] /\ a <= v1 /\ d > 0 /\ pa <= a /\ pd <= d /\ pa <= v1
  BY SMTT(60), <1>3, <1>4, <1>6
<1>8. \A qx, qy \in Int : Covers(Head(todo), x, y, qx, qy) <=>
        u1 <= qx /\ qx < u4 /\ v1 - a <= qy /\ qy < v1 + d
  BY ZenonT(60), <1>1, <1>2, <1>4, <1>7 DEF Covers
<1>9. CASE i = Len(t.tiles)
  <2>1. u2 = u4
    <3>1. Columns(t)[i] + t.tiles[i].w = t.w
      BY <1>3, <1>9, PartFacts
    <3> QED
      BY <1>4, <1>5, <1>6, <1>7, <3>1
  <2>2. PICK e1 :
          /\ e1 = Render(p)
    OBVIOUS
  <2>3. todo' = <<e1>> \o Tail(todo)
    BY <1>2, <1>5, <1>9, NoMore, <2>2 DEF DoPart, Instead
  <2>4. /\ NoReturn(e1) /\ Leads(e1, u1, v1, u2, v1)
        /\ \A qx, qy \in Int : Covers(e1, u1, v1, qx, qy) <=>
                         u1 <= qx /\ qx < u2 /\ v1 - pa <= qy /\ qy < v1 + pd
    BY <1>7, <2>1, <1>5, <1>6, <2>2 DEF Render, InTile, Leads, Covers, NoReturn
  <2>5. Under(e1, u1, v1, Head(todo), x, y)
    BY <1>7, <2>1, <2>4, <1>8 DEF Under
  <2>6. \A qx, qy \in Int : \A ch : ~Writes(Head(todo), x, y, qx, qy, ch)
    BY <1>1, HeadWrites
  <2>7. \A qx, qy \in Int : \A ch :
          Writes(Head(todo), x, y, qx, qy, ch) =>
            \/ Writes(e1, u1, v1, qx, qy, ch)
    BY <2>6
  <2>8. /\ x' = u1 /\ y' = v1 /\ UNCHANGED <<tnode, lines>>
        /\ u2 = X[2] /\ v1 = Y[2]
    BY <1>1, <1>7, <2>1
  <2>9. Does1(X, Y, e1, u1, u2, v1, v1)
    BY <2>3, <2>4, <2>5, <2>7, <2>8 DEF Does1
  <2>10. Replacing(<<e1>>, <<u1, u2>>,
                   <<v1, v1>>, X, Y)
    BY <2>9, ReplacedBy1
  <2> QED
    BY <1>1, <2>10, ReplacingStep
<1>10. CASE i # Len(t.tiles)
  <2>1. PICK k \in Nat : k = 2
    OBVIOUS
  <2>2. PICK s : s = Track(k) /\ Len(s) = k /\ DOMAIN s = 1..k
    BY TimesFacts DEF Track
  <2>3. PICK j : j = i + 1
    OBVIOUS
  <2>4. j \in DOMAIN t.tiles /\ Columns(t)[j] = c + pw + 2 /\ c + pw + 2 <= w
    <3>1. i + 1 \in DOMAIN t.tiles /\ Columns(t)[i + 1] = Columns(t)[i] + t.tiles[i].w + 2
      BY <1>3, <1>10, PartFacts
    <3>2. /\ Columns(t)[i + 1] \in Nat /\ t.tiles[i + 1] \in Parts
          /\ Columns(t)[i + 1] + t.tiles[i + 1].w <= t.w
      BY <1>3, <3>1, PartFacts
    <3>3. t.tiles[i + 1].w \in Nat
      BY <3>2, TileFacts
    <3> QED
      BY <1>4, <1>5, <1>6, <2>3, <3>1, <3>2, <3>3
  <2>5. PICK u3 \in Nat : u3 = u2 + k /\ u4 = u3 + w - (c + pw + 2) /\ u1 <= u3 /\ u2 <= u3
          /\ u3 <= u4
    BY <1>7, <2>1, <2>4
  <2>6. PICK e1, e2, e3 :
          /\ e1 = Render(p)
          /\ e2 = Puts(s)
          /\ e3 = Part(t, j)
    OBVIOUS
  <2>7. todo' = <<e1, e2, e3>> \o Tail(todo)
    <3>1. todo' = (<<Render(p)>> \o <<Puts(Track(2)), Part(t, i + 1)>>) \o Tail(todo)
      BY <1>2, <1>5, <1>10 DEF DoPart, Instead
    <3>2. <<e1>> \o <<e2, e3>> = <<e1, e2, e3>>
      BY OneAndTwo
    <3>3. e1 = Render(p) /\ e2 = Puts(Track(2)) /\ e3 = Part(t, i + 1)
      BY <2>1, <2>2, <2>3, <2>6
    <3> QED
      BY <3>1, <3>2, <3>3
  <2>8. /\ NoReturn(e1) /\ Leads(e1, u1, v1, u2, v1)
        /\ \A qx, qy \in Int : Covers(e1, u1, v1, qx, qy) <=>
                         u1 <= qx /\ qx < u2 /\ v1 - pa <= qy /\ qy < v1 + pd
    BY <1>7, <2>5, <1>5, <1>6, <2>6 DEF Render, InTile, Leads, Covers, NoReturn
  <2>9. /\ NoReturn(e2) /\ Leads(e2, u2, v1, u3, v1)
        /\ \A qx, qy \in Int : Covers(e2, u2, v1, qx, qy) <=>
                         qy = v1 /\ u2 <= qx /\ qx < u3
    BY <1>7, <2>5, <2>2, <2>6 DEF Puts, Leads, Covers, NoReturn
  <2>10. /\ NoReturn(e3) /\ Leads(e3, u3, v1, u4, v1)
         /\ \A qx, qy \in Int : Covers(e3, u3, v1, qx, qy) <=>
                          u3 <= qx /\ qx < u4 /\ v1 - a <= qy /\ qy < v1 + d
    BY <1>7, <2>5, <1>3, <1>4, <2>4, <2>6 DEF Part, Leads, Covers, NoReturn
  <2>11. /\ Under(e1, u1, v1, Head(todo), x, y) /\ Under(e2, u2, v1, Head(todo), x, y)
         /\ Under(e3, u3, v1, Head(todo), x, y)
    <3>1. Under(e1, u1, v1, Head(todo), x, y)
      BY <1>7, <2>5, <2>8, <1>8 DEF Under
    <3>2. Under(e2, u2, v1, Head(todo), x, y)
      BY <1>7, <2>5, <2>9, <1>8 DEF Under
    <3>3. Under(e3, u3, v1, Head(todo), x, y)
      BY <1>7, <2>5, <2>10, <1>8 DEF Under
    <3> QED
      BY <3>1, <3>2, <3>3
  <2>12. /\ Before(e1, u1, v1, e2, u2, v1) /\ Before(e1, u1, v1, e3, u3, v1)
         /\ Before(e2, u2, v1, e3, u3, v1)
    <3>1. \A qx, qy \in Int :
            Covers(e1, u1, v1, qx, qy) => ~Covers(e2, u2, v1, qx, qy)
      BY <1>7, <2>5, <2>8, <2>9
    <3>2. Before(e1, u1, v1, e2, u2, v1)
      BY <3>1, <2>9, Aside
    <3>3. \A qx, qy \in Int :
            Covers(e1, u1, v1, qx, qy) => ~Covers(e3, u3, v1, qx, qy)
      BY <1>7, <2>5, <2>8, <2>10
    <3>4. Before(e1, u1, v1, e3, u3, v1)
      BY <3>3, <2>10, Aside
    <3>5. \A qx, qy \in Int :
            Covers(e2, u2, v1, qx, qy) => ~Covers(e3, u3, v1, qx, qy)
      BY <1>7, <2>5, <2>9, <2>10
    <3>6. Before(e2, u2, v1, e3, u3, v1)
      BY <3>5, <2>10, Aside
    <3> QED
      BY <3>2, <3>4, <3>6
  <2>13. Corner(e1, u1, v1, e3)
    BY <2>10 DEF Corner, NoReturn
  <2>14. \A qx, qy \in Int : \A ch : ~Writes(Head(todo), x, y, qx, qy, ch)
    BY <1>1, HeadWrites
  <2>15. \A qx, qy \in Int : \A ch :
           Writes(Head(todo), x, y, qx, qy, ch) =>
             \/ Writes(e1, u1, v1, qx, qy, ch)
             \/ Writes(e2, u2, v1, qx, qy, ch)
             \/ Writes(e3, u3, v1, qx, qy, ch)
    BY <2>14
  <2>16. /\ x' = u1 /\ y' = v1 /\ UNCHANGED <<tnode, lines>>
         /\ u4 = X[2] /\ v1 = Y[2]
    BY <1>1, <1>7, <2>5
  <2>17. Does3(X, Y, e1, e2, e3, u1, u2, u3, u4, v1, v1, v1, v1)
    BY <2>7, <2>8, <2>9, <2>10, <2>11, <2>12, <2>13, <2>15, <2>16 DEF Does3
  <2>18. Replacing(<<e1, e2, e3>>, <<u1, u2, u3, u4>>,
                   <<v1, v1, v1, v1>>, X, Y)
    BY <2>17, ReplacedBy3
  <2> QED
    BY <1>1, <2>18, ReplacingStep
<1> QED
  BY <1>9, <1>10

LEMMA NoMoreOfThree ==
  ASSUME NEW e, NEW f, NEW g
  PROVE  <<e, f, g>> \o <<>> = <<e, f, g>>
OBVIOUS

LEMMA ThreeAndThree ==
  ASSUME NEW e, NEW f, NEW g, NEW h, NEW i, NEW j
  PROVE  <<e, f, g>> \o <<h, i, j>> = <<e, f, g, h, i, j>>
<1>1. PICK S, s, r, z :
        /\ S = {e, f, g, h, i, j} /\ s = <<e, f, g>> /\ r = <<h, i, j>>
        /\ z = <<e, f, g, h, i, j>>
  OBVIOUS
<1>2. s \in Seq(S) /\ r \in Seq(S) /\ z \in Seq(S) /\ Len(s) = 3 /\ Len(r) = 3 /\ Len(z) = 6
  BY <1>1
<1>3. /\ s \o r \in Seq(S) /\ Len(s \o r) = 6
      /\ \A n \in 1..6 : (s \o r)[n] = IF n <= 3 THEN s[n] ELSE r[n - 3]
  <2>1. /\ s \o r \in Seq(S) /\ Len(s \o r) = Len(s) + Len(r)
        /\ \A n \in 1..Len(s) + Len(r) : (s \o r)[n] = IF n <= Len(s) THEN s[n] ELSE r[n - Len(s)]
    BY <1>2, ConcatProperties
  <2> QED
    BY <1>2, <2>1
<1>4. \A n \in 1..6 : (s \o r)[n] = z[n]
  <2>1. \A n \in 1..6 : n = 1 \/ n = 2 \/ n = 3 \/ n = 4 \/ n = 5 \/ n = 6
    OBVIOUS
  <2>2. /\ (s \o r)[1] = e /\ (s \o r)[2] = f /\ (s \o r)[3] = g
        /\ (s \o r)[4] = h /\ (s \o r)[5] = i /\ (s \o r)[6] = j
    BY <1>1, <1>3
  <2>3. z[1] = e /\ z[2] = f /\ z[3] = g /\ z[4] = h /\ z[5] = i /\ z[6] = j
    BY <1>1
  <2> QED
    BY <2>1, <2>2, <2>3
<1> QED
  BY <1>1, <1>2, <1>3, <1>4, SeqEqual

LEMMA RowStep ==
  ASSUME NEW X, NEW Y, Drawing(X, Y), DoRow
  PROVE  \E X2, Y2 : Drawing(X2, Y2)'
<1>1. todo # <<>> /\ Head(todo).op = "row" /\ UNCHANGED <<tnode, y, lines>>
  BY DEF DoRow, Do
<1>2. PICK t, j : t = Head(todo).tile /\ j = Head(todo).j
  OBVIOUS
<1>3. /\ x \in Nat /\ y \in Nat /\ t \in Parts /\ t.type = "VLIST" /\ j \in DOMAIN t.lines
      /\ Head(todo).x = x /\ FirstRow(t) + Levels(t)[j] <= y /\ X[2] = x + t.w
      /\ Y[2] = y - Levels(t)[j] + Levels(t)[Len(t.lines)] /\ Y[2] \in Nat
  BY <1>1, <1>2, HeadFacts DEF Leads
<1>4. PICK w \in Nat, a \in Nat, d \in Nat : w = t.w /\ a = t.a /\ d = t.d
  BY <1>3, TileFacts
<1>5. PICK p : p = t.lines[j] /\ p \in Parts
  BY <1>3, LineFacts
<1>6. PICK pw \in Nat, pa \in Nat, pd \in Nat : pw = p.w /\ pa = p.a /\ pd = p.d /\ pd > 0
  BY <1>5, TileFacts
<1>7. PICK f \in Nat, l \in Nat, z \in Nat, g \in Nat, h \in Nat :
        /\ f = FirstRow(t) /\ l = Levels(t)[j] /\ z = Levels(t)[Len(t.lines)]
        /\ h = t.o + 1 /\ h \in DOMAIN t.lines /\ g = Levels(t)[h]
  <2>1. Len(t.lines) \in DOMAIN t.lines /\ t.o + 1 \in DOMAIN t.lines /\ t.o + 1 \in Nat
    <3>1. Len(t.lines) \in DOMAIN t.lines /\ t.o + 1 \in DOMAIN t.lines /\ t.o \in 0..1
      BY <1>3, LineFacts
    <3> QED
      BY <3>1
  <2>2. /\ FirstRow(t) \in Nat /\ Levels(t)[j] \in Nat /\ Levels(t)[Len(t.lines)] \in Nat
        /\ Levels(t)[t.o + 1] \in Nat
    BY <1>3, <2>1, LineFacts
  <2> QED
    BY ZenonT(60), <2>1, <2>2
<1>8. pa <= f + l /\ f + l + pd <= a + d /\ pw + 2 <= w
  <2>1. /\ t.lines[j].a <= FirstRow(t) + Levels(t)[j] /\ t.lines[j].w + 2 <= t.w
        /\ FirstRow(t) + Levels(t)[j] + t.lines[j].d <= t.a + t.d
    BY <1>3, LineFacts
  <2> QED
    BY <1>4, <1>5, <1>6, <1>7, <2>1
<1>9. PICK m \in Nat, n \in Nat : m = w - 2 /\ n = 1 /\ pw <= m
  BY <1>8
<1>10. PICK u1 \in Nat, u2 \in Nat, u3 \in Nat, u4 \in Nat, v1 \in Nat :
         u1 = x /\ u2 = u1 + n /\ u3 = u2 + m /\ u4 = u3 + n /\ v1 = y
  BY <1>3
<1>11. /\ u2 = u1 + 1 /\ u3 = u1 + w - 1 /\ u4 = u1 + w /\ f + l <= v1 /\ pa <= v1
       /\ u2 = u1 + n /\ u3 = u2 + m /\ u4 = u3 + n /\ pd > 0 /\ f + l + pd <= a + d
  BY SMTT(60), <1>3, <1>6, <1>7, <1>8, <1>9, <1>10
<1>12. u4 = X[2] /\ Y[2] = v1 - l + z /\ x' = u1 /\ y' = v1
  <2>1. x' = x
    BY <1>3 DEF DoRow
  <2> QED
    BY <1>1, <1>3, <1>4, <1>7, <1>10, <1>11, <2>1
<1>13. \A qx, qy \in Int : Covers(Head(todo), x, y, qx, qy) <=>
          /\ qy < v1 - f - l + a + d
          /\ \/ v1 <= qy /\ u1 <= qx /\ qx < u1 + w
             \/ v1 - pa <= qy /\ u1 < qx /\ qx < u1 + w - 1
  BY ZenonT(60), <1>1, <1>2, <1>4, <1>5, <1>6, <1>7, <1>10 DEF Covers
<1>14. PICK s1, s3 :
         /\ s1 = <<Corners[t.b[j]][1]>> /\ Len(s1) = n /\ DOMAIN s1 = 1..n
         /\ s3 = <<Corners[t.b[j]][2]>> /\ Len(s3) = n /\ DOMAIN s3 = 1..n
  <2>1. PICK s1, s3 : s1 = <<Corners[t.b[j]][1]>> /\ s3 = <<Corners[t.b[j]][2]>>
    OBVIOUS
  <2>2. Len(s1) = 1 /\ DOMAIN s1 = 1..1 /\ Len(s3) = 1 /\ DOMAIN s3 = 1..1
    BY <2>1
  <2>3. n = 1
    BY <1>9
  <2> QED
    BY <2>1, <2>2, <2>3
<1>15. ASSUME NEW qx \in Int, NEW qy \in Int, NEW c, Writes(Head(todo), x, y, qx, qy, c)
       PROVE  /\ j <= h /\ qy = v1 - l + g
              /\ \/ qx = u1 /\ c = Corners[t.b[h]][1]
                 \/ qx = u3 /\ c = Corners[t.b[h]][2]
  <2>1. /\ j <= t.o + 1 /\ qy = y - Levels(t)[j] + Levels(t)[t.o + 1]
        /\ \/ qx = x /\ c = Corners[t.b[t.o + 1]][1]
           \/ qx = x + t.w - 1 /\ c = Corners[t.b[t.o + 1]][2]
    BY <1>1, <1>2, <1>15 DEF Writes
  <2> QED
    BY <1>4, <1>7, <1>10, <1>11, <2>1
<1>16. ASSUME NEW qx \in Int, NEW qy \in Int, NEW c, Writes(Head(todo), x, y, qx, qy, c), j = h,
              NEW e1, NEW e3, e1 = Puts(s1), e3 = Puts(s3)
       PROVE  Writes(e1, u1, v1, qx, qy, c) \/ Writes(e3, u3, v1, qx, qy, c)
  <2>1. qy = v1
    <3>1. l = g
      BY <1>7, <1>16
    <3>2. qy = v1 - l + g
      BY <1>15, <1>16
    <3> QED
      BY <3>1, <3>2
  <2>2. CASE qx = u1 /\ c = Corners[t.b[h]][1]
    <3>1. s1[qx - u1 + 1] = c /\ u1 <= qx /\ qx < u1 + Len(s1)
      BY <1>9, <1>14, <1>16, <2>2
    <3> QED
      BY <1>16, <2>1, <3>1 DEF Writes, Puts
  <2>3. CASE qx = u3 /\ c = Corners[t.b[h]][2]
    <3>1. s3[qx - u3 + 1] = c /\ u3 <= qx /\ qx < u3 + Len(s3)
      BY <1>9, <1>14, <1>16, <2>3
    <3> QED
      BY <1>16, <2>1, <3>1 DEF Writes, Puts
  <2> QED
    BY <1>15, <1>16, <2>2, <2>3
<1>17. CASE j = Len(t.lines)
  <2>1. j <= h => j = h
    <3>1. j \in 1..Len(t.lines) /\ h \in 1..Len(t.lines)
      BY <1>3, <1>7, LineFacts
    <3> QED
      BY <1>17, <3>1
  <2>2. v1 = Y[2]
    <3>1. l = z
      BY <1>7, <1>17
    <3>2. Y[2] = v1 - l + z
      BY <1>12
    <3> QED
      BY <3>1, <3>2
  <2>3. PICK e1, e2, e3 :
          /\ e1 = Puts(s1)
          /\ e2 = Justify(p, m)
          /\ e3 = Puts(s3)
    OBVIOUS
  <2>4. todo' = <<e1, e2, e3>> \o Tail(todo)
    <3>1. todo' = (<<Puts(<<Corners[t.b[j]][1]>>), Justify(t.lines[j], t.w - 2),
                      Puts(<<Corners[t.b[j]][2]>>)>> \o <<>>) \o Tail(todo)
      BY <1>2, <1>17 DEF DoRow, Instead
    <3>2. <<e1, e2, e3>> \o <<>> = <<e1, e2, e3>>
      BY NoMoreOfThree
    <3>3. /\ e1 = Puts(<<Corners[t.b[j]][1]>>) /\ e2 = Justify(t.lines[j], t.w - 2)
          /\ e3 = Puts(<<Corners[t.b[j]][2]>>)
      BY <1>4, <1>5, <1>9, <1>14, <2>3
    <3> QED
      BY <3>1, <3>2, <3>3
  <2>5. /\ NoReturn(e1) /\ Leads(e1, u1, v1, u2, v1)
        /\ \A qx, qy \in Int : Covers(e1, u1, v1, qx, qy) <=>
                         qy = v1 /\ u1 <= qx /\ qx < u2
    BY <1>11, <1>14, <2>3 DEF Puts, Leads, Covers, NoReturn
  <2>6. /\ NoReturn(e2) /\ Leads(e2, u2, v1, u3, v1)
        /\ \A qx, qy \in Int : Covers(e2, u2, v1, qx, qy) <=>
                         u2 <= qx /\ qx < u3 /\ v1 - pa <= qy /\ qy < v1 + pd
    <3>1. NoReturn(e2) /\ Leads(e2, u2, v1, u3, v1)
      BY <1>11, <1>5, <1>6, <1>9, <2>3 DEF Justify, Leads, Covers, NoReturn
    <3>2. \A qx, qy \in Int : Covers(e2, u2, v1, qx, qy) <=>
                           u2 <= qx /\ qx < u3 /\ v1 - pa <= qy /\ qy < v1 + pd
      BY <1>11, <1>5, <1>6, <1>9, <2>3 DEF Justify, Leads, Covers, NoReturn
    <3> QED
      BY <3>1, <3>2
  <2>7. /\ NoReturn(e3) /\ Leads(e3, u3, v1, u4, v1)
        /\ \A qx, qy \in Int : Covers(e3, u3, v1, qx, qy) <=>
                         qy = v1 /\ u3 <= qx /\ qx < u4
    BY <1>11, <1>14, <2>3 DEF Puts, Leads, Covers, NoReturn
  <2>8. /\ Under(e1, u1, v1, Head(todo), x, y) /\ Under(e2, u2, v1, Head(todo), x, y)
        /\ Under(e3, u3, v1, Head(todo), x, y)
    <3>1. Under(e1, u1, v1, Head(todo), x, y)
      BY <1>11, <2>5, <1>13 DEF Under
    <3>2. Under(e2, u2, v1, Head(todo), x, y)
      BY <1>11, <2>6, <1>13 DEF Under
    <3>3. Under(e3, u3, v1, Head(todo), x, y)
      BY <1>11, <2>7, <1>13 DEF Under
    <3> QED
      BY <3>1, <3>2, <3>3
  <2>9. /\ Before(e1, u1, v1, e2, u2, v1) /\ Before(e1, u1, v1, e3, u3, v1)
        /\ Before(e2, u2, v1, e3, u3, v1)
    <3>1. \A qx, qy \in Int :
            Covers(e1, u1, v1, qx, qy) => ~Covers(e2, u2, v1, qx, qy)
      BY <1>11, <2>5, <2>6
    <3>2. Before(e1, u1, v1, e2, u2, v1)
      BY <3>1, <2>6, Aside
    <3>3. \A qx, qy \in Int :
            Covers(e1, u1, v1, qx, qy) => ~Covers(e3, u3, v1, qx, qy)
      BY <1>11, <2>5, <2>7
    <3>4. Before(e1, u1, v1, e3, u3, v1)
      BY <3>3, <2>7, Aside
    <3>5. \A qx, qy \in Int :
            Covers(e2, u2, v1, qx, qy) => ~Covers(e3, u3, v1, qx, qy)
      BY <1>11, <2>6, <2>7
    <3>6. Before(e2, u2, v1, e3, u3, v1)
      BY <3>5, <2>7, Aside
    <3> QED
      BY <3>2, <3>4, <3>6
  <2>10. Corner(e1, u1, v1, e3)
    BY <2>7 DEF Corner, NoReturn
  <2>11. \A qx, qy \in Int : \A ch :
           Writes(Head(todo), x, y, qx, qy, ch) =>
             \/ Writes(e1, u1, v1, qx, qy, ch)
             \/ Writes(e2, u2, v1, qx, qy, ch)
             \/ Writes(e3, u3, v1, qx, qy, ch)
    BY <1>15, <1>16, <2>1, <2>3
  <2>12. /\ x' = u1 /\ y' = v1 /\ UNCHANGED <<tnode, lines>>
         /\ u4 = X[2] /\ v1 = Y[2]
    BY <1>1, <1>11, <1>12, <2>2
  <2>13. Does3(X, Y, e1, e2, e3, u1, u2, u3, u4, v1, v1, v1, v1)
    BY <2>4, <2>5, <2>6, <2>7, <2>8, <2>9, <2>10, <2>11, <2>12 DEF Does3
  <2>14. Replacing(<<e1, e2, e3>>, <<u1, u2, u3, u4>>,
                   <<v1, v1, v1, v1>>, X, Y)
    BY <2>13, ReplacedBy3
  <2> QED
    BY <1>1, <2>14, ReplacingStep
<1>18. CASE j # Len(t.lines)
  <2>1. PICK i : i = j + 1
    OBVIOUS
  <2>2. i \in DOMAIN t.lines /\ Levels(t)[i] = Levels(t)[j] + t.lines[j].d + 1 + t.lines[i].a
    BY <1>3, <1>18, <2>1, NextLineFacts
  <2>3. PICK r : r = t.lines[i] /\ r \in Parts
    BY <1>3, <2>2, LineFacts
  <2>4. PICK ra \in Nat, rd \in Nat, k \in Nat, l2 \in Nat :
          ra = r.a /\ rd = r.d /\ k = pd + ra /\ l2 = Levels(t)[i] /\ rd > 0
    <3>1. Levels(t)[i] \in Nat
      BY <1>3, <2>2, LineFacts
    <3>2. PICK ra \in Nat, rd \in Nat : ra = r.a /\ rd = r.d /\ rd > 0
      BY <2>3, TileFacts
    <3>3. pd + ra \in Nat
      OBVIOUS
    <3> QED
      BY <3>1, <3>2, <3>3
  <2>5. l2 = l + pd + 1 + ra
    BY <1>5, <1>6, <1>7, <2>2, <2>3, <2>4
  <2>6. f + l2 + rd <= a + d
    <3>1. FirstRow(t) + Levels(t)[i] + t.lines[i].d <= t.a + t.d
      BY <1>3, <2>2, LineFacts
    <3> QED
      BY <1>4, <1>7, <2>3, <2>4, <3>1
  <2>7. PICK v5 \in Nat, v6 \in Nat, v7 \in Nat : v5 = v1 + 1 /\ v6 = v5 + k
          /\ v7 = v1 - l + z /\ v7 = Y[2]
    <3>1. v1 + 1 \in Nat /\ v1 + 1 + k \in Nat
      OBVIOUS
    <3> QED
      BY <1>3, <1>12, <3>1
  <2>8. /\ v5 = v1 + 1 /\ v6 = v5 + k /\ k = pd + ra /\ l2 = l + pd + 1 + ra
        /\ f + l2 <= v6 /\ v7 = v6 - l2 + z /\ rd > 0 /\ f + l2 + rd <= a + d
        /\ w \in Nat /\ 2 <= w
    BY <1>8, <1>11, <2>4, <2>5, <2>6, <2>7
  <2>9. PICK e1, e2, e3, e4, e5, e6 :
          /\ e1 = Puts(s1)
          /\ e2 = Justify(p, m)
          /\ e3 = Puts(s3)
          /\ e4 = Down(u1)
          /\ e5 = Bars(k, w)
          /\ e6 = Row(t, i, u1)
    OBVIOUS
  <2>10. todo' = <<e1, e2, e3, e4, e5, e6>> \o Tail(todo)
    <3>1. todo' = (<<Puts(<<Corners[t.b[j]][1]>>), Justify(t.lines[j], t.w - 2),
                      Puts(<<Corners[t.b[j]][2]>>)>>
                      \o <<Down(Head(todo).x), Bars(t.lines[j].d + t.lines[j + 1].a, t.w),
                           Row(t, j + 1, Head(todo).x)>>) \o Tail(todo)
      BY <1>2, <1>18 DEF DoRow, Instead
    <3>2. <<e1, e2, e3>> \o <<e4, e5, e6>> = <<e1, e2, e3, e4, e5, e6>>
      BY ThreeAndThree
    <3>3. /\ e1 = Puts(<<Corners[t.b[j]][1]>>) /\ e2 = Justify(t.lines[j], t.w - 2)
          /\ e3 = Puts(<<Corners[t.b[j]][2]>>)
      BY <1>4, <1>5, <1>9, <1>14, <2>9
    <3>4. /\ e4 = Down(Head(todo).x) /\ e5 = Bars(t.lines[j].d + t.lines[j + 1].a, t.w)
          /\ e6 = Row(t, j + 1, Head(todo).x)
      BY <1>3, <1>4, <1>5, <1>6, <1>10, <2>1, <2>3, <2>4, <2>9
    <3> QED
      BY <3>1, <3>2, <3>3, <3>4
  <2>11. /\ NoReturn(e1) /\ Leads(e1, u1, v1, u2, v1)
         /\ \A qx, qy \in Int : Covers(e1, u1, v1, qx, qy) <=>
                          qy = v1 /\ u1 <= qx /\ qx < u2
    BY <1>11, <2>8, <1>14, <2>9 DEF Puts, Leads, Covers, NoReturn
  <2>12. /\ NoReturn(e2) /\ Leads(e2, u2, v1, u3, v1)
         /\ \A qx, qy \in Int : Covers(e2, u2, v1, qx, qy) <=>
                          u2 <= qx /\ qx < u3 /\ v1 - pa <= qy /\ qy < v1 + pd
    <3>1. NoReturn(e2) /\ Leads(e2, u2, v1, u3, v1)
      BY <1>11, <2>8, <1>5, <1>6, <1>9, <2>9 DEF Justify, Leads, Covers, NoReturn
    <3>2. \A qx, qy \in Int : Covers(e2, u2, v1, qx, qy) <=>
                           u2 <= qx /\ qx < u3 /\ v1 - pa <= qy /\ qy < v1 + pd
      BY <1>11, <2>8, <1>5, <1>6, <1>9, <2>9 DEF Justify, Leads, Covers, NoReturn
    <3> QED
      BY <3>1, <3>2
  <2>13. /\ NoReturn(e3) /\ Leads(e3, u3, v1, u4, v1)
         /\ \A qx, qy \in Int : Covers(e3, u3, v1, qx, qy) <=>
                          qy = v1 /\ u3 <= qx /\ qx < u4
    BY <1>11, <2>8, <1>14, <2>9 DEF Puts, Leads, Covers, NoReturn
  <2>14. NoReturn(e4) /\ Leads(e4, u4, v1, u1, v5) /\ Quiet(e4, u4, v1)
    BY <1>11, <2>8, <2>9 DEF Down, Leads, Covers, NoReturn, Quiet
  <2>15. /\ NoReturn(e5) /\ Leads(e5, u1, v5, u1, v6)
         /\ \A qx, qy \in Int : Covers(e5, u1, v5, qx, qy) <=>
                          (qx = u1 \/ qx = u1 + w - 1) /\ v5 <= qy /\ qy < v6
    BY <1>11, <2>8, <2>9 DEF Bars, Leads, Covers, NoReturn
  <2>16. /\ NoReturn(e6) /\ Leads(e6, u1, v6, u4, v7) /\ e6.op = "row" /\ e6.tile = t /\ e6.j = i
         /\ \A qx, qy \in Int : Covers(e6, u1, v6, qx, qy) <=>
                          /\ qy < v6 - f - l2 + a + d
                          /\ \/ v6 <= qy /\ u1 <= qx /\ qx < u1 + w
                             \/ v6 - ra <= qy /\ u1 < qx /\ qx < u1 + w - 1
    <3>1. NoReturn(e6) /\ Leads(e6, u1, v6, u4, v7) /\ e6.op = "row" /\ e6.tile = t /\ e6.j = i
      BY <1>11, <2>8, <1>3, <1>4, <1>7, <2>2, <2>3, <2>4, <2>9 DEF Row, Leads, Covers, NoReturn
    <3>2. \A qx, qy \in Int : Covers(e6, u1, v6, qx, qy) <=>
                           /\ qy < v6 - f - l2 + a + d
                           /\ \/ v6 <= qy /\ u1 <= qx /\ qx < u1 + w
                              \/ v6 - ra <= qy /\ u1 < qx /\ qx < u1 + w - 1
      BY ZenonT(60), <1>11, <2>8, <1>3, <1>4, <1>7, <2>2, <2>3, <2>4, <2>9 DEF Row, Leads,
        Covers, NoReturn
    <3> QED
      BY <3>1, <3>2
  <2>17. /\ Under(e1, u1, v1, Head(todo), x, y) /\ Under(e2, u2, v1, Head(todo), x, y)
         /\ Under(e3, u3, v1, Head(todo), x, y) /\ Under(e4, u4, v1, Head(todo), x, y)
         /\ Under(e5, u1, v5, Head(todo), x, y) /\ Under(e6, u1, v6, Head(todo), x, y)
    <3>1. Under(e1, u1, v1, Head(todo), x, y)
      BY <1>11, <2>8, <2>11, <1>13 DEF Under
    <3>2. Under(e2, u2, v1, Head(todo), x, y)
      BY <1>11, <2>8, <2>12, <1>13 DEF Under
    <3>3. Under(e3, u3, v1, Head(todo), x, y)
      BY <1>11, <2>8, <2>13, <1>13 DEF Under
    <3>4. Under(e4, u4, v1, Head(todo), x, y)
      BY <2>14 DEF Under, Quiet
    <3>5. Under(e5, u1, v5, Head(todo), x, y)
      BY <1>11, <2>8, <2>15, <1>13 DEF Under
    <3>6. Under(e6, u1, v6, Head(todo), x, y)
      BY <1>11, <2>8, <2>16, <1>13 DEF Under
    <3> QED
      BY <3>1, <3>2, <3>3, <3>4, <3>5, <3>6
  <2>18. /\ Before(e1, u1, v1, e2, u2, v1) /\ Before(e1, u1, v1, e3, u3, v1)
         /\ Before(e1, u1, v1, e4, u4, v1) /\ Before(e1, u1, v1, e5, u1, v5)
         /\ Before(e1, u1, v1, e6, u1, v6) /\ Before(e2, u2, v1, e3, u3, v1)
         /\ Before(e2, u2, v1, e4, u4, v1) /\ Before(e2, u2, v1, e5, u1, v5)
         /\ Before(e2, u2, v1, e6, u1, v6) /\ Before(e3, u3, v1, e4, u4, v1)
         /\ Before(e3, u3, v1, e5, u1, v5) /\ Before(e3, u3, v1, e6, u1, v6)
         /\ Before(e4, u4, v1, e5, u1, v5) /\ Before(e4, u4, v1, e6, u1, v6)
         /\ Before(e5, u1, v5, e6, u1, v6)
    <3>1. \A qx, qy \in Int :
            Covers(e1, u1, v1, qx, qy) => ~Covers(e2, u2, v1, qx, qy)
      BY <1>11, <2>8, <2>11, <2>12
    <3>2. Before(e1, u1, v1, e2, u2, v1)
      BY <3>1, <2>12, Aside
    <3>3. \A qx, qy \in Int :
            Covers(e1, u1, v1, qx, qy) => ~Covers(e3, u3, v1, qx, qy)
      BY <1>11, <2>8, <2>11, <2>13
    <3>4. Before(e1, u1, v1, e3, u3, v1)
      BY <3>3, <2>13, Aside
    <3>5. Before(e1, u1, v1, e4, u4, v1)
      BY <2>14, QuietBefore DEF Quiet
    <3>6. \A qx, qy \in Int :
            Covers(e1, u1, v1, qx, qy) => ~Covers(e5, u1, v5, qx, qy)
      BY <1>11, <2>8, <2>11, <2>15
    <3>7. Before(e1, u1, v1, e5, u1, v5)
      BY <3>6, <2>15, Aside
    <3>8. \A qx, qy \in Int :
            Covers(e1, u1, v1, qx, qy) => ~Covers(e6, u1, v6, qx, qy)
      BY <1>11, <2>8, <2>11, <2>16
    <3>9. Before(e1, u1, v1, e6, u1, v6)
      BY <3>8, <2>16, Aside
    <3>10. \A qx, qy \in Int :
             Covers(e2, u2, v1, qx, qy) => ~Covers(e3, u3, v1, qx, qy)
      BY <1>11, <2>8, <2>12, <2>13
    <3>11. Before(e2, u2, v1, e3, u3, v1)
      BY <3>10, <2>13, Aside
    <3>12. Before(e2, u2, v1, e4, u4, v1)
      BY <2>14, QuietBefore DEF Quiet
    <3>13. \A qx, qy \in Int :
             Covers(e2, u2, v1, qx, qy) => ~Covers(e5, u1, v5, qx, qy)
      BY <1>11, <2>8, <2>12, <2>15
    <3>14. Before(e2, u2, v1, e5, u1, v5)
      BY <3>13, <2>15, Aside
    <3>15. \A qx, qy \in Int :
             Covers(e2, u2, v1, qx, qy) => ~Covers(e6, u1, v6, qx, qy)
      BY <1>11, <2>8, <2>12, <2>16
    <3>16. Before(e2, u2, v1, e6, u1, v6)
      BY <3>15, <2>16, Aside
    <3>17. Before(e3, u3, v1, e4, u4, v1)
      BY <2>14, QuietBefore DEF Quiet
    <3>18. \A qx, qy \in Int :
             Covers(e3, u3, v1, qx, qy) => ~Covers(e5, u1, v5, qx, qy)
      BY <1>11, <2>8, <2>13, <2>15
    <3>19. Before(e3, u3, v1, e5, u1, v5)
      BY <3>18, <2>15, Aside
    <3>20. \A qx, qy \in Int :
             Covers(e3, u3, v1, qx, qy) => ~Covers(e6, u1, v6, qx, qy)
      BY <1>11, <2>8, <2>13, <2>16
    <3>21. Before(e3, u3, v1, e6, u1, v6)
      BY <3>20, <2>16, Aside
    <3>22. Before(e4, u4, v1, e5, u1, v5)
      BY <2>14, QuietBefore DEF Quiet
    <3>23. Before(e4, u4, v1, e6, u1, v6)
      BY <2>14, QuietBefore DEF Quiet
    <3>24. \A qx, qy \in Int :
             Covers(e5, u1, v5, qx, qy) => ~Covers(e6, u1, v6, qx, qy)
      BY <1>11, <2>8, <2>15, <2>16
    <3>25. Before(e5, u1, v5, e6, u1, v6)
      BY <3>24, <2>16, Aside
    <3> QED
      BY <3>2, <3>4, <3>5, <3>7, <3>9, <3>11, <3>12, <3>14, <3>16, <3>17, <3>19, <3>21, <3>22,
         <3>23, <3>25
  <2>19. Corner(e1, u1, v1, e6)
    BY <2>16 DEF Corner, NoReturn
  <2>20. \A qx, qy \in Int : \A ch :
           Writes(Head(todo), x, y, qx, qy, ch) =>
             \/ Writes(e1, u1, v1, qx, qy, ch)
             \/ Writes(e2, u2, v1, qx, qy, ch)
             \/ Writes(e3, u3, v1, qx, qy, ch)
             \/ Writes(e4, u4, v1, qx, qy, ch)
             \/ Writes(e5, u1, v5, qx, qy, ch)
             \/ Writes(e6, u1, v6, qx, qy, ch)
    <3>1. ASSUME NEW qx \in Int, NEW qy \in Int, NEW ch, Writes(Head(todo), x, y, qx, qy, ch), j # h
          PROVE  Writes(e6, u1, v6, qx, qy, ch)
      <4>1. i <= h
        <5>1. j \in 1..Len(t.lines) /\ h \in 1..Len(t.lines)
          BY <1>3, <1>7, LineFacts
        <5>2. j <= h
          BY <1>15, <3>1
        <5> QED
          BY <2>1, <3>1, <5>1, <5>2
      <4>2. qy = v6 - l2 + g
        BY <1>15, <2>8, <3>1
      <4>3. \/ qx = u1 /\ ch = Corners[t.b[h]][1]
            \/ qx = u1 + w - 1 /\ ch = Corners[t.b[h]][2]
        BY <1>11, <1>15, <3>1
      <4> QED
        BY <1>4, <1>7, <2>4, <2>16, <4>1, <4>2, <4>3 DEF Writes
    <3>2. ASSUME NEW qx \in Int, NEW qy \in Int, NEW ch, Writes(Head(todo), x, y, qx, qy, ch), j = h
          PROVE  Writes(e1, u1, v1, qx, qy, ch) \/ Writes(e3, u3, v1, qx, qy, ch)
      BY <1>16, <3>2, <2>9
    <3> QED
      BY <3>1, <3>2
  <2>21. /\ x' = u1 /\ y' = v1 /\ UNCHANGED <<tnode, lines>>
         /\ u4 = X[2] /\ v7 = Y[2]
    BY <1>1, <1>11, <2>8, <1>12, <2>7
  <2>22. Does6(X, Y, e1, e2, e3, e4, e5, e6, u1, u2, u3, u4, u1, u1, u4, v1, v1, v1, v1, v5, v6,
               v7)
    BY <2>10, <2>11, <2>12, <2>13, <2>14, <2>15, <2>16, <2>17, <2>18, <2>19, <2>20,
       <2>21
       DEF Does6
  <2>23. Replacing(<<e1, e2, e3, e4, e5, e6>>, <<u1, u2, u3, u4, u1, u1, u4>>,
                   <<v1, v1, v1, v1, v5, v6, v7>>, X, Y)
    BY <2>22, ReplacedBy6
  <2> QED
    BY <1>1, <2>23, ReplacingStep
<1> QED
  BY <1>17, <1>18

LEMMA CommentStep ==
  ASSUME NEW X, NEW Y, Drawing(X, Y), RenderComment
  PROVE  \E X2, Y2 : Drawing(X2, Y2)'
<1>1. /\ todo # <<>> /\ Head(todo).op = "render" /\ Head(todo).tile.type = "COMMENT"
      /\ UNCHANGED <<tnode, x, y, lines>>
  BY DEF RenderComment, Rendering, Do
<1>2. PICK t : t = Head(todo).tile
  OBVIOUS
<1>3. /\ x \in Nat /\ y \in Nat /\ t \in Parts /\ t.type = "COMMENT" /\ t.a <= y
      /\ X[2] = x + t.w /\ Y[2] = y
  BY <1>1, <1>2, HeadFacts DEF Leads
<1>4. PICK w \in Nat, a \in Nat, d \in Nat : w = t.w /\ a = t.a /\ d = t.d /\ d > 0 /\ a <= y
  BY <1>3, TileFacts
<1>5. PICK p, s : p = t.tile /\ s = t.text
  OBVIOUS
<1>6. /\ p \in Parts /\ p.w <= w /\ p.a <= a /\ p.d < d
      /\ s \in Seq(STRING) /\ Len(s) <= w
  BY <1>3, <1>4, <1>5, TileFacts DEF SizedComment
<1>7. PICK pw \in Nat, pa \in Nat, pd \in Nat :
        pw = p.w /\ pa = p.a /\ pd = p.d /\ pw <= w /\ pa <= a /\ pd < d
  BY <1>6, TileFacts
<1>8. PICK n \in Nat : n = Len(s) /\ DOMAIN s = 1..n /\ n <= w
  BY <1>6, LenProperties
<1>9. PICK l \in Nat, m \in Nat : l = (w - n) \div 2 /\ m = (w - n) - l /\ l + n + m = w
  <2>1. PICK j \in Nat : j = w - n
    BY <1>8
  <2>2. j \div 2 \in Nat /\ j - (j \div 2) \in Nat
    BY <2>1
  <2> QED
    BY <2>1, <2>2
<1>10. PICK u1 \in Nat, u2 \in Nat, u3 \in Nat, u4 \in Nat, v1 \in Nat, v2 \in Nat :
         u1 = x /\ u2 = u1 + w /\ u3 = u1 + l /\ u4 = u3 + n /\ v1 = y /\ v2 = v1 + d - 1
  <2>1. PICK u1 \in Nat, v1 \in Nat : u1 = x /\ v1 = y
    BY <1>3
  <2>2. u1 + w \in Nat /\ u1 + l \in Nat /\ u1 + l + n \in Nat /\ v1 + d - 1 \in Nat
    BY <1>4
  <2> QED
    BY <2>1, <2>2
<1>11. /\ u2 = u1 + w /\ u3 = u1 + l /\ u4 = u3 + n /\ u2 = u4 + m /\ v2 = v1 + d - 1
       /\ a <= v1 /\ d > 0 /\ pa <= a /\ pd < d
  BY <1>4, <1>7, <1>9, <1>10
<1>12. u2 = X[2] /\ v1 = Y[2] /\ u1 = x /\ v1 = y
  BY <1>3, <1>4, <1>10
<1>13. \A qx, qy \in Int : Covers(Head(todo), x, y, qx, qy) <=>
         u1 <= qx /\ qx < u2 /\ v1 - a <= qy /\ qy < v1 + d
  <2>1. \A qx, qy \in Int : Covers(Head(todo), x, y, qx, qy) <=>
          u1 <= qx /\ qx < u1 + w /\ v1 - a <= qy /\ qy < v1 + d
    BY <1>1, <1>2, <1>4, <1>12 DEF Covers, InTile
  <2> QED
    BY <1>11, <2>1
<1>14. PICK e1, e2, e3, e4, e5 :
         /\ e1 = Justify(p, w)
         /\ e2 = Goto(u3, v2)
         /\ e3 = Puts(s)
         /\ e4 = Skip(m, v1)
         /\ e5 = Return(t, x, y)
  OBVIOUS
<1>15. todo' = <<e1, e2, e3, e4, e5>> \o Tail(todo)
  <2>1. todo' = <<Justify(t.tile, t.w), Goto(x + l, y + d - 1), Puts(t.text), Skip(m, y),
          Return(t, x, y)>>
                  \o Tail(todo)
    BY <1>2, <1>4, <1>5, <1>8, <1>9 DEF RenderComment, Instead
  <2>2. x + l = u3 /\ y + d - 1 = v2 /\ y = v1
    BY <1>10
  <2> QED
    BY <1>4, <1>5, <2>1, <2>2, <1>14
<1>16. /\ NoReturn(e1) /\ Leads(e1, u1, v1, u2, v1)
       /\ \A qx, qy \in Int : Covers(e1, u1, v1, qx, qy) <=>
                        u1 <= qx /\ qx < u2 /\ v1 - pa <= qy /\ qy < v1 + pd
  <2>1. NoReturn(e1) /\ Leads(e1, u1, v1, u2, v1)
    BY SMTT(60), <1>11, <1>6, <1>7, <1>14 DEF Justify, Leads, Covers, NoReturn
  <2>2. \A qx, qy \in Int : Covers(e1, u1, v1, qx, qy) <=>
                         u1 <= qx /\ qx < u2 /\ v1 - pa <= qy /\ qy < v1 + pd
    BY <1>11, <1>6, <1>7, <1>14 DEF Justify, Leads, Covers, NoReturn
  <2> QED
    BY <2>1, <2>2
<1>17. NoReturn(e2) /\ Leads(e2, u2, v1, u3, v2) /\ Quiet(e2, u2, v1)
  BY <1>11, <1>14 DEF Goto, Leads, Covers, NoReturn, Quiet
<1>18. /\ NoReturn(e3) /\ Leads(e3, u3, v2, u4, v2)
       /\ \A qx, qy \in Int : Covers(e3, u3, v2, qx, qy) <=>
                        qy = v2 /\ u3 <= qx /\ qx < u4
  BY <1>11, <1>8, <1>14 DEF Puts, Leads, Covers, NoReturn
<1>19. NoReturn(e4) /\ Leads(e4, u4, v2, u2, v1) /\ Quiet(e4, u4, v2)
  BY <1>11, <1>14 DEF Skip, Leads, Covers, NoReturn, Quiet
<1>20. /\ e5.op = "return" /\ e5.tile = t /\ e5.x = x /\ e5.y = y
       /\ Leads(e5, u2, v1, u2, v1)
       /\ \A qx, qy \in Int : ~Covers(e5, u2, v1, qx, qy)
  BY <1>11, <1>3, <1>4, <1>12, <1>14 DEF Return, Leads, Covers, NoReturn
<1>21. /\ Under(e1, u1, v1, Head(todo), x, y) /\ Under(e2, u2, v1, Head(todo), x, y)
       /\ Under(e3, u3, v2, Head(todo), x, y) /\ Under(e4, u4, v2, Head(todo), x, y)
       /\ Under(e5, u2, v1, Head(todo), x, y)
  <2>1. Under(e1, u1, v1, Head(todo), x, y)
    BY <1>11, <1>16, <1>13 DEF Under
  <2>2. Under(e2, u2, v1, Head(todo), x, y)
    BY <1>17 DEF Under, Quiet
  <2>3. Under(e3, u3, v2, Head(todo), x, y)
    BY <1>11, <1>18, <1>13 DEF Under
  <2>4. Under(e4, u4, v2, Head(todo), x, y)
    BY <1>19 DEF Under, Quiet
  <2>5. Under(e5, u2, v1, Head(todo), x, y)
    BY <1>20 DEF Under, Quiet
  <2> QED
    BY <2>1, <2>2, <2>3, <2>4, <2>5
<1>22. /\ Before(e1, u1, v1, e2, u2, v1) /\ Before(e1, u1, v1, e3, u3, v2)
       /\ Before(e1, u1, v1, e4, u4, v2) /\ Before(e1, u1, v1, e5, u2, v1)
       /\ Before(e2, u2, v1, e3, u3, v2) /\ Before(e2, u2, v1, e4, u4, v2)
       /\ Before(e2, u2, v1, e5, u2, v1) /\ Before(e3, u3, v2, e4, u4, v2)
       /\ Before(e3, u3, v2, e5, u2, v1) /\ Before(e4, u4, v2, e5, u2, v1)
  <2>1. Before(e1, u1, v1, e2, u2, v1)
    BY <1>17, QuietBefore DEF Quiet
  <2>2. \A qx, qy \in Int :
          Covers(e1, u1, v1, qx, qy) => ~Covers(e3, u3, v2, qx, qy)
    BY <1>11, <1>16, <1>18
  <2>3. Before(e1, u1, v1, e3, u3, v2)
    BY <2>2, <1>18, Aside
  <2>4. Before(e1, u1, v1, e4, u4, v2)
    BY <1>19, QuietBefore DEF Quiet
  <2>5. Before(e1, u1, v1, e5, u2, v1)
    BY <1>1, <1>2, <1>14, <1>21, BeforeReturn
  <2>6. Before(e2, u2, v1, e3, u3, v2)
    BY <1>17, QuietBefore DEF Quiet
  <2>7. Before(e2, u2, v1, e4, u4, v2)
    BY <1>17, <1>19, QuietBefore DEF Quiet
  <2>8. Before(e2, u2, v1, e5, u2, v1)
    BY <1>17, QuietBefore DEF Quiet
  <2>9. Before(e3, u3, v2, e4, u4, v2)
    BY <1>19, QuietBefore DEF Quiet
  <2>10. Before(e3, u3, v2, e5, u2, v1)
    BY <1>1, <1>2, <1>14, <1>21, BeforeReturn
  <2>11. Before(e4, u4, v2, e5, u2, v1)
    BY <1>19, QuietBefore DEF Quiet
  <2> QED
    BY <2>1, <2>3, <2>4, <2>5, <2>6, <2>7, <2>8, <2>9, <2>10, <2>11
<1>23. Corner(e1, u1, v1, e5)
  BY <1>3, <1>20 DEF Corner
<1>24. \A qx, qy \in Int : \A ch : ~Writes(Head(todo), x, y, qx, qy, ch)
  BY <1>1, <1>2, HeadWrites
<1>25. \A qx, qy \in Int : \A ch :
         Writes(Head(todo), x, y, qx, qy, ch) =>
           \/ Writes(e1, u1, v1, qx, qy, ch)
           \/ Writes(e2, u2, v1, qx, qy, ch)
           \/ Writes(e3, u3, v2, qx, qy, ch)
           \/ Writes(e4, u4, v2, qx, qy, ch)
           \/ Writes(e5, u2, v1, qx, qy, ch)
  BY <1>24
<1>26. /\ x' = u1 /\ y' = v1 /\ UNCHANGED <<tnode, lines>>
       /\ u2 = X[2] /\ v1 = Y[2]
  BY <1>1, <1>2, <1>11, <1>12
<1>27. Does5(X, Y, e1, e2, e3, e4, e5, u1, u2, u3, u4, u2, u2, v1, v1, v2, v2, v1, v1)
  BY <1>15, <1>16, <1>17, <1>18, <1>19, <1>20, <1>21, <1>22, <1>23, <1>25, <1>26 DEF Does5
<1>28. Replacing(<<e1, e2, e3, e4, e5>>, <<u1, u2, u3, u4, u2, u2>>,
                 <<v1, v1, v2, v2, v1, v1>>, X, Y)
  BY <1>27, ReplacedBy5
<1> QED
  BY <1>1, <1>2, <1>28, ReplacingStep

LEMMA LeafStep ==
  ASSUME NEW X, NEW Y, Drawing(X, Y), RenderLeaf
  PROVE  \E X2, Y2 : Drawing(X2, Y2)'
<1>1. /\ todo # <<>> /\ Head(todo).op = "render"
      /\ Head(todo).tile.type \notin {"VLIST", "HLIST", "COMMENT"}
      /\ UNCHANGED <<tnode, x, y, lines>>
  BY DEF RenderLeaf, Do
<1>2. PICK t : t = Head(todo).tile
  OBVIOUS
<1>3. /\ x \in Nat /\ y \in Nat /\ t \in Parts /\ t.type \notin {"VLIST", "HLIST", "COMMENT"}
      /\ t.a <= y /\ X[2] = x + t.w /\ Y[2] = y
  BY <1>1, <1>2, HeadFacts DEF Leads
<1>4. PICK w \in Nat, a \in Nat, d \in Nat : w = t.w /\ a = t.a /\ d = t.d /\ d > 0 /\ a <= y
  BY <1>3, TileFacts
<1>5. PICK s : s = Leaf(t) /\ Len(s) = w /\ DOMAIN s = 1..w
  BY <1>3, <1>4, TileFacts, LenProperties
<1>6. PICK u1 \in Nat, u2 \in Nat, v1 \in Nat :
        u1 = x /\ u2 = u1 + w /\ u2 = X[2] /\ v1 = y /\ v1 = Y[2] /\ a <= v1 /\ d > 0
  BY <1>3, <1>4
<1>7. \A qx, qy \in Int : Covers(Head(todo), x, y, qx, qy) <=>
        u1 <= qx /\ qx < u2 /\ v1 - a <= qy /\ qy < v1 + d
  BY ZenonT(60), <1>1, <1>2, <1>4, <1>6 DEF Covers, InTile
<1>8. PICK e1, e2 :
        /\ e1 = Puts(s)
        /\ e2 = Return(t, x, y)
  OBVIOUS
<1>9. todo' = <<e1, e2>> \o Tail(todo)
  BY <1>2, <1>5, <1>8 DEF RenderLeaf, Instead
<1>10. /\ NoReturn(e1) /\ Leads(e1, u1, v1, u2, v1)
       /\ \A qx, qy \in Int : Covers(e1, u1, v1, qx, qy) <=>
                        qy = v1 /\ u1 <= qx /\ qx < u2
  BY <1>6, <1>5, <1>8 DEF Puts, Leads, Covers, NoReturn
<1>11. /\ e2.op = "return" /\ e2.tile = t /\ e2.x = x /\ e2.y = y
       /\ Leads(e2, u2, v1, u2, v1)
       /\ \A qx, qy \in Int : ~Covers(e2, u2, v1, qx, qy)
  BY <1>6, <1>3, <1>4, <1>8 DEF Return, Leads, Covers, NoReturn
<1>12. Under(e1, u1, v1, Head(todo), x, y) /\ Under(e2, u2, v1, Head(todo), x, y)
  <2>1. Under(e1, u1, v1, Head(todo), x, y)
    BY <1>6, <1>10, <1>7 DEF Under
  <2>2. Under(e2, u2, v1, Head(todo), x, y)
    BY <1>11 DEF Under, Quiet
  <2> QED
    BY <2>1, <2>2
<1>13. Before(e1, u1, v1, e2, u2, v1)
  BY <1>1, <1>2, <1>8, <1>12, BeforeReturn
<1>14. Corner(e1, u1, v1, e2)
  BY <1>3, <1>11 DEF Corner
<1>15. \A qx, qy \in Int : \A ch : ~Writes(Head(todo), x, y, qx, qy, ch)
  BY <1>1, <1>2, HeadWrites
<1>16. \A qx, qy \in Int : \A ch :
         Writes(Head(todo), x, y, qx, qy, ch) =>
           \/ Writes(e1, u1, v1, qx, qy, ch)
           \/ Writes(e2, u2, v1, qx, qy, ch)
  BY <1>15
<1>17. /\ x' = u1 /\ y' = v1 /\ UNCHANGED <<tnode, lines>>
       /\ u2 = X[2] /\ v1 = Y[2]
  BY <1>1, <1>2, <1>6
<1>18. Does2(X, Y, e1, e2, u1, u2, u2, v1, v1, v1)
  BY <1>9, <1>10, <1>11, <1>12, <1>13, <1>14, <1>16, <1>17 DEF Does2
<1>19. Replacing(<<e1, e2>>, <<u1, u2, u2>>,
                 <<v1, v1, v1>>, X, Y)
  BY <1>18, ReplacedBy2
<1> QED
  BY <1>1, <1>2, <1>19, ReplacingStep

\* The frame, and the tile in it.
LEMMA InitDrawing ==
  ASSUME Init
  PROVE  \E X, Y : Drawing(X, Y)
<1>1. tnode \in Parts /\ x = 0 /\ y = tnode.a /\ lines = <<>>
  BY RrTextAssumption DEF Init
<1>2. PICK w \in Nat, a \in Nat, d \in Nat : w = tnode.w /\ a = tnode.a /\ d = tnode.d /\ d > 0
  BY <1>1, TileFacts
<1>3. PICK n \in Nat, k \in Nat : n = 4 /\ k = 2
  OBVIOUS
<1>4. PICK s1, s3 :
        /\ s1 = <<"vertical", "entry">> \o Track(2) /\ Len(s1) = n /\ DOMAIN s1 = 1..n
        /\ s3 = Track(2) \o <<"exit", "vertical">> /\ Len(s3) = n /\ DOMAIN s3 = 1..n
  <2>1. PICK S : S = {"vertical", "entry", "exit", "horizontal"}
    OBVIOUS
  <2>2. /\ <<"vertical", "entry">> \in Seq(S) /\ Len(<<"vertical", "entry">>) = 2
        /\ <<"exit", "vertical">> \in Seq(S) /\ Len(<<"exit", "vertical">>) = 2
    BY <2>1
  <2>3. Track(2) \in Seq(S) /\ Len(Track(2)) = 2
    <3>1. Track(2) \in [1..2 -> S]
      BY <2>1 DEF Track, Times
    <3>2. Track(2) \in Seq(S) /\ DOMAIN Track(2) = 1..2
      BY <3>1, SeqDef
    <3> QED
      BY <3>2, LenProperties
  <2>4. /\ <<"vertical", "entry">> \o Track(2) \in Seq(S)
        /\ Len(<<"vertical", "entry">> \o Track(2)) = 2 + 2
        /\ Track(2) \o <<"exit", "vertical">> \in Seq(S)
        /\ Len(Track(2) \o <<"exit", "vertical">>) = 2 + 2
    BY SMTT(60), <2>2, <2>3, ConcatProperties
  <2>5. /\ DOMAIN (<<"vertical", "entry">> \o Track(2)) = 1..2 + 2
        /\ DOMAIN (Track(2) \o <<"exit", "vertical">>) = 1..2 + 2
    BY <2>4, LenProperties
  <2>6. 2 + 2 = n
    BY <1>3
  <2> QED
    BY <2>4, <2>5, <2>6
<1>5. PICK u1 \in Nat, u2 \in Nat, u3 \in Nat, u4 \in Nat, u5 \in Nat :
        u1 = 0 /\ u2 = 4 /\ u3 = w + 4 /\ u4 = w + 8 /\ u5 = u2 + w /\ u2 = u1 + n /\ u4 = u3 + n
  BY <1>3
<1>6. PICK e1, e2, e3, e4, e5 :
        /\ e1 = Puts(s1) /\ e2 = Goto(u3, a) /\ e3 = Puts(s3) /\ e4 = Goto(u2, a)
        /\ e5 = Render(tnode)
  OBVIOUS
<1>7. todo = <<e1, e2, e3, e4, e5>>
  <2>1. Width - 4 = u3 /\ 4 = u2
    BY <1>2, <1>5 DEF Width
  <2> QED
    BY <1>2, <1>4, <1>6, <2>1 DEF Init
<1>8. /\ NoReturn(e1) /\ Leads(e1, u1, a, u2, a)
      /\ \A qx, qy \in Int : Covers(e1, u1, a, qx, qy) <=> qy = a /\ u1 <= qx /\ qx < u2
  BY <1>4, <1>5, <1>6 DEF Puts, Leads, Covers, NoReturn
<1>9. NoReturn(e2) /\ Leads(e2, u2, a, u3, a) /\ Quiet(e2, u2, a)
  BY <1>6 DEF Goto, Leads, Covers, NoReturn, Quiet
<1>10. /\ NoReturn(e3) /\ Leads(e3, u3, a, u4, a)
       /\ \A qx, qy \in Int : Covers(e3, u3, a, qx, qy) <=> qy = a /\ u3 <= qx /\ qx < u4
  BY <1>4, <1>5, <1>6 DEF Puts, Leads, Covers, NoReturn
<1>11. NoReturn(e4) /\ Leads(e4, u4, a, u2, a) /\ Quiet(e4, u4, a)
  BY <1>6 DEF Goto, Leads, Covers, NoReturn, Quiet
<1>12. /\ NoReturn(e5) /\ Leads(e5, u2, a, u5, a)
       /\ \A qx, qy \in Int : Covers(e5, u2, a, qx, qy) <=>
                                u2 <= qx /\ qx < u5 /\ a - a <= qy /\ qy < a + d
  BY <1>1, <1>2, <1>5, <1>6 DEF Render, InTile, Leads, Covers, NoReturn
<1>13. /\ Before(e1, u1, a, e2, u2, a) /\ Before(e1, u1, a, e3, u3, a)
       /\ Before(e1, u1, a, e4, u4, a) /\ Before(e1, u1, a, e5, u2, a)
       /\ Before(e2, u2, a, e3, u3, a) /\ Before(e2, u2, a, e4, u4, a)
       /\ Before(e2, u2, a, e5, u2, a) /\ Before(e3, u3, a, e4, u4, a)
       /\ Before(e3, u3, a, e5, u2, a) /\ Before(e4, u4, a, e5, u2, a)
  <2>1. /\ Before(e1, u1, a, e2, u2, a) /\ Before(e1, u1, a, e4, u4, a)
        /\ Before(e3, u3, a, e4, u4, a)
    BY <1>9, <1>11, QuietBefore
  <2>2. /\ Before(e2, u2, a, e3, u3, a) /\ Before(e2, u2, a, e4, u4, a)
        /\ Before(e2, u2, a, e5, u2, a) /\ Before(e4, u4, a, e5, u2, a)
    BY <1>9, <1>11, QuietBefore DEF Quiet
  <2>3. \A qx, qy \in Int : Covers(e1, u1, a, qx, qy) => ~Covers(e3, u3, a, qx, qy)
    BY <1>5, <1>8, <1>10
  <2>4. \A qx, qy \in Int : Covers(e1, u1, a, qx, qy) => ~Covers(e5, u2, a, qx, qy)
    BY <1>5, <1>8, <1>12
  <2>5. \A qx, qy \in Int : Covers(e3, u3, a, qx, qy) => ~Covers(e5, u2, a, qx, qy)
    BY <1>5, <1>10, <1>12
  <2>6. Before(e1, u1, a, e3, u3, a)
    BY <1>10, <2>3, Aside
  <2>7. Before(e1, u1, a, e5, u2, a)
    BY <1>12, <2>4, Aside
  <2>8. Before(e3, u3, a, e5, u2, a)
    BY <1>12, <2>5, Aside
  <2> QED
    BY <2>1, <2>2, <2>6, <2>7, <2>8
<1>14. PICK X, Y : X = <<u1, u2, u3, u4, u2, u5>> /\ Y = <<a, a, a, a, a, a>>
  OBVIOUS
<1>15. Chain(todo, X, Y)
  <2>1. Chain(<<e1, e2, e3, e4, e5>>, <<u1, u2, u3, u4, u2, u5>>, <<a, a, a, a, a, a>>)
    BY <1>8, <1>9, <1>10, <1>11, <1>12, <1>13, ChainOf5
  <2> QED
    BY <1>7, <1>14, <2>1, Zenon
<1>16. /\ Len(todo) = 5 /\ todo[1] = e1 /\ todo[2] = e2 /\ todo[3] = e3 /\ todo[4] = e4
       /\ todo[5] = e5
       /\ X[1] = u1 /\ X[2] = u2 /\ X[3] = u3 /\ X[4] = u4 /\ X[5] = u2
       /\ Y[1] = a /\ Y[2] = a /\ Y[3] = a /\ Y[4] = a /\ Y[5] = a
  BY <1>7, <1>14
<1>17. \A i \in 1..Len(todo) : i = 1 \/ i = 2 \/ i = 3 \/ i = 4 \/ i = 5
  BY <1>16
<1>18. OnCanvas(X, Y)
  <2> SUFFICES ASSUME NEW i \in 1..Len(todo), NEW qx \in Int, NEW qy \in Int,
                      Covers(todo[i], X[i], Y[i], qx, qy)
               PROVE  0 <= qx /\ qx < w + 8 /\ 0 <= qy /\ qy < a + d
    BY SMTT(60), <1>1, <1>2 DEF OnCanvas, Width, Rows
  <2>1. d > 0 /\ u1 = 0 /\ u2 = 4 /\ u3 = w + 4 /\ u4 = w + 8
    BY <1>2, <1>5
  <2>2. CASE Covers(e1, u1, a, qx, qy)
    <3>1. qy = a /\ u1 <= qx /\ qx < u2
      BY <1>8, <2>2
    <3> QED
      BY <2>1, <3>1
  <2>3. CASE Covers(e3, u3, a, qx, qy)
    <3>1. qy = a /\ u3 <= qx /\ qx < u4
      BY <1>10, <2>3
    <3> QED
      BY <2>1, <3>1
  <2>4. CASE Covers(e5, u2, a, qx, qy)
    BY <1>5, <1>12, <2>4
  <2>5. ~Covers(e2, u2, a, qx, qy) /\ ~Covers(e4, u4, a, qx, qy)
    BY <1>9, <1>11 DEF Quiet
  <2> QED
    BY <1>16, <1>17, <2>2, <2>3, <2>4, <2>5, Zenon
<1>19. CornersSure(X, Y)
  BY <1>8, <1>9, <1>10, <1>11, <1>12, <1>16, <1>17 DEF CornersSure, NoReturn
<1>20. X[1] = x /\ Y[1] = y
  BY <1>1, <1>2, <1>5, <1>16
<1> QED
  BY <1>15, <1>18, <1>19, <1>20 DEF Drawing

(***************************************************************************)
(* The theorems.                                                           *)
(***************************************************************************)
Inv == tnode \in Tnodes /\ \E X, Y : Drawing(X, Y)

\* However much has been drawn, what is left to do fits where it will be
\* done: Inv holds at every step of render_rule.
THEOREM InvHolds == Spec => []Inv
<1>1. Init => Inv
  BY InitDrawing DEF Inv, Init
<1>2. Inv /\ [Next]_vars => Inv'
  <2> SUFFICES ASSUME tnode \in Tnodes, NEW X, NEW Y, Drawing(X, Y), [Next]_vars
               PROVE  tnode' \in Tnodes /\ \E X2, Y2 : Drawing(X2, Y2)'
    BY DEF Inv
  <2>1. tnode' = tnode
    BY DEF Next, vars, Terminated, Bprintf, Move, DoJustify, DoBars, RenderVlist, DoRow,
           RenderHlist, DoPart, RenderComment, RenderLeaf, DoReturn
  <2>2. ASSUME Bprintf PROVE \E X2, Y2 : Drawing(X2, Y2)'
    BY <2>2, BprintfStep
  <2>3. ASSUME Move \/ DoReturn PROVE \E X2, Y2 : Drawing(X2, Y2)'
    BY <2>3, MoveStep
  <2>4. ASSUME DoJustify PROVE \E X2, Y2 : Drawing(X2, Y2)'
    BY <2>4, JustifyStep
  <2>5. ASSUME DoBars PROVE \E X2, Y2 : Drawing(X2, Y2)'
    BY <2>5, BarsStep
  <2>6. ASSUME RenderVlist PROVE \E X2, Y2 : Drawing(X2, Y2)'
    BY <2>6, VlistStep
  <2>7. ASSUME DoRow PROVE \E X2, Y2 : Drawing(X2, Y2)'
    BY <2>7, RowStep
  <2>8. ASSUME RenderHlist PROVE \E X2, Y2 : Drawing(X2, Y2)'
    BY <2>8, HlistStep
  <2>9. ASSUME DoPart PROVE \E X2, Y2 : Drawing(X2, Y2)'
    BY <2>9, PartStep
  <2>10. ASSUME RenderComment PROVE \E X2, Y2 : Drawing(X2, Y2)'
    BY <2>10, CommentStep
  <2>11. ASSUME RenderLeaf PROVE \E X2, Y2 : Drawing(X2, Y2)'
    BY <2>11, LeafStep
  <2>12. ASSUME UNCHANGED vars PROVE \E X2, Y2 : Drawing(X2, Y2)'
    <3>1. Drawing(X, Y)'
      BY ZenonT(60), <2>12 DEF Drawing, Chain, OnCanvas, CornersSure, Sure, Width, Rows, vars
    <3> QED
      BY <3>1
  <2>13. \E X2, Y2 : Drawing(X2, Y2)'
    BY <2>2, <2>3, <2>4, <2>5, <2>6, <2>7, <2>8, <2>9, <2>10, <2>11, <2>12 DEF Next, Terminated
  <2> QED
    BY <2>1, <2>13
<1> QED
  BY <1>1, <1>2, PTL DEF Spec

LEMMA DrawingFacts ==
  ASSUME NEW X, NEW Y, Drawing(X, Y)
  PROVE  /\ Len(todo) \in Nat /\ DOMAIN todo = 1..Len(todo)
         /\ x \in Nat /\ y \in Nat /\ x = X[1] /\ y = Y[1]
         /\ \A i \in 1..Len(todo) :
              Leads(todo[i], X[i], Y[i], X[i + 1], Y[i + 1]) /\ X[i + 1] \in Nat
                /\ Y[i + 1] \in Nat
         /\ todo # <<>> => 1 \in 1..Len(todo) /\ Head(todo) = todo[1]
<1>1. todo \in Seq({todo[i] : i \in DOMAIN todo})
  BY DEF Drawing, Chain
<1>2. Len(todo) \in Nat /\ DOMAIN todo = 1..Len(todo)
  BY <1>1, LenProperties
<1>3. 1 \in 1..Len(todo) + 1 /\ \A i \in 1..Len(todo) : i + 1 \in 1..Len(todo) + 1
  BY <1>2
<1>4. X[1] \in Nat /\ Y[1] \in Nat
  BY <1>3 DEF Drawing, Chain
<1>5. todo # <<>> => Head(todo) = todo[1] /\ Len(todo) > 0
  BY <1>1, <1>2, HeadTailProperties, EmptySeq
<1>6. ASSUME NEW i \in 1..Len(todo)
      PROVE  /\ Leads(todo[i], X[i], Y[i], X[i + 1], Y[i + 1])
             /\ X[i + 1] \in Nat /\ Y[i + 1] \in Nat
  <2>1. Leads(todo[i], X[i], Y[i], X[i + 1], Y[i + 1])
    BY DEF Drawing, Chain
  <2>2. X[i + 1] \in Nat /\ Y[i + 1] \in Nat
    BY <1>3 DEF Drawing, Chain
  <2> QED
    BY <2>1, <2>2
<1>7. todo # <<>> => 1 \in 1..Len(todo)
  BY <1>2, <1>5
<1> QED
  BY <1>2, <1>4, <1>5, <1>6, <1>7 DEF Drawing

\* No position or size that render_rule computes wraps around, and what is
\* put in the middle of a space fits there.
THEOREM SizesAreNatural == Spec => []TypeOK
<1>1. Inv => TypeOK
  <2> SUFFICES ASSUME NEW X, NEW Y, Drawing(X, Y)
               PROVE  TypeOK
    BY DEF Inv
  <2>1. ASSUME NEW i \in DOMAIN todo, todo[i].op \in {"render", "justify", "row", "part",
          "return"}
        PROVE  {todo[i].tile.w, todo[i].tile.a, todo[i].tile.d} \subseteq Nat
    <3>1. todo[i].tile \in Parts
      BY <2>1, DrawingFacts DEF Leads
    <3> QED
      BY <3>1, TileFacts
  <2>2. ASSUME NEW i \in DOMAIN todo, todo[i].op = "at"
        PROVE  {todo[i].x, todo[i].y} \subseteq Nat
    <3>1. /\ Leads(todo[i], X[i], Y[i], X[i + 1], Y[i + 1])
          /\ X[i + 1] \in Nat /\ Y[i + 1] \in Nat
      BY DrawingFacts
    <3>2. X[i + 1] = todo[i].x /\ Y[i + 1] = todo[i].y
      BY <2>2, <3>1 DEF Leads
    <3> QED
      BY <3>1, <3>2
  <2>3. ASSUME NEW i \in DOMAIN todo, todo[i].op \in {"bars", "skip"}
        PROVE  todo[i].k \in Nat
    BY <2>3, DrawingFacts DEF Leads
  <2>4. ASSUME Do("justify")
        PROVE  Head(todo).tile.w <= Head(todo).space
    BY <2>4, DrawingFacts DEF Leads, Do
  <2>5. ASSUME Rendering("COMMENT")
        PROVE  Len(Head(todo).tile.text) <= Head(todo).tile.w
    <3>1. Head(todo).tile \in Parts /\ Head(todo).tile.type = "COMMENT"
      BY <2>5, DrawingFacts DEF Leads, Do, Rendering
    <3> QED
      BY <3>1, TileFacts DEF SizedComment
  <2>6. x \in Nat /\ y \in Nat
    BY DrawingFacts
  <2> QED
    BY <2>1, <2>2, <2>3, <2>4, <2>5, <2>6 DEF TypeOK
<1> QED
  BY <1>1, InvHolds, PTL

\* What bprintf is about to write, it covers.
LEMMA PendingFacts ==
  ASSUME NEW X, NEW Y, Drawing(X, Y), Do("print"), NEW p \in Pending
  PROVE  \E qx, qy \in Int : p = <<qx, qy>> /\ Covers(todo[1], X[1], Y[1], qx, qy)
<1>1. /\ todo # <<>> /\ Head(todo).op = "print" /\ Head(todo) = todo[1] /\ 1 \in 1..Len(todo)
      /\ x \in Nat /\ y \in Nat /\ x = X[1] /\ y = Y[1]
  BY DrawingFacts DEF Do
<1>2. PICK s : s = Head(todo).s
  OBVIOUS
<1>3. Len(s) \in Nat /\ DOMAIN s = 1..Len(s)
  BY <1>1, <1>2, DrawingFacts DEF Leads
<1>4. PICK i \in 1..Len(s) : p = <<x + i - 1, y>>
  BY <1>2, <1>3 DEF Pending
<1>5. x + i - 1 \in Int /\ x <= x + i - 1 /\ x + i - 1 < x + Len(s)
  BY <1>1, <1>3
<1>6. Covers(todo[1], X[1], Y[1], x + i - 1, y)
  BY <1>1, <1>2, <1>5 DEF Covers
<1> QED
  BY <1>1, <1>4, <1>5, <1>6

\* Memory safety: bprintf writes to the canvas alone, and to the area of each
\* tile it is drawing a part of.
THEOREM StaysWithinTile == Spec => []WithinTile
<1>1. Inv => WithinTile
  <2> SUFFICES ASSUME tnode \in Tnodes, NEW X, NEW Y, Drawing(X, Y), Do("print"),
        NEW p \in Pending
               PROVE  /\ p \in Area(0, 0, Width, 0, Rows)
                      /\ \A i \in DOMAIN todo :
                           todo[i].op = "return" =>
                             p \in Area(todo[i].x, todo[i].y, todo[i].tile.w, todo[i].tile.a,
                               todo[i].tile.d)
    BY DEF Inv, WithinTile
  <2>1. PICK qx \in Int, qy \in Int : p = <<qx, qy>> /\ Covers(todo[1], X[1], Y[1], qx, qy)
    BY PendingFacts
  <2>2. 1 \in 1..Len(todo) /\ DOMAIN todo = 1..Len(todo) /\ todo[1].op = "print"
          /\ Len(todo) \in Nat
    BY DrawingFacts DEF Do
  <2>3. Width \in Nat /\ Rows \in Nat
    BY RrTextAssumption, TileFacts DEF Width, Rows
  <2>4. p \in Area(0, 0, Width, 0, Rows)
    <3>1. qx \in 0..Width - 1 /\ qy \in 0..Rows - 1
      BY <2>1, <2>2 DEF Drawing, OnCanvas
    <3> QED
      BY <2>1, <2>3, <3>1 DEF Area
  <2>5. ASSUME NEW i \in DOMAIN todo, todo[i].op = "return"
        PROVE  p \in Area(todo[i].x, todo[i].y, todo[i].tile.w, todo[i].tile.a, todo[i].tile.d)
    <3>1. i \in 1..Len(todo) /\ 1 < i
      BY <2>2, <2>5
    <3>2. InTile(todo[i].tile, todo[i].x, todo[i].y, qx, qy)
      BY <2>1, <2>2, <2>5, <3>1 DEF Drawing, Chain, Before
    <3>3. todo[i].tile \in Parts /\ todo[i].x \in Nat /\ todo[i].y \in Nat
      BY <2>5, <3>1, DrawingFacts DEF Leads
    <3>4. todo[i].tile.w \in Nat /\ todo[i].tile.a \in Nat /\ todo[i].tile.d \in Nat
      BY <3>3, TileFacts
    <3> QED
      BY <2>1, <3>2, <3>3, <3>4 DEF Area, InTile
  <2> QED
    BY <2>4, <2>5
<1> QED
  BY <1>1, InvHolds, PTL

\* A tile's drawing ends its width to the right of where it began, on the same
\* row, and a choice or loop has its corners there.
THEOREM EndsWhereItBegan == Spec => []EndsLevel
<1>1. Inv => EndsLevel
  <2> SUFFICES ASSUME NEW X, NEW Y, Drawing(X, Y), Do("return")
               PROVE  EndsLevel
    BY DEF Inv, EndsLevel
  <2> DEFINE r == Head(todo)
             t == r.tile
  <2>1. /\ 1 \in 1..Len(todo) /\ todo[1] = r /\ r.op = "return"
        /\ t \in Parts /\ r.x \in Nat /\ r.y \in Nat
        /\ x = r.x + t.w /\ (t.type # "VLIST" => y = r.y)
    BY ZenonT(60), DrawingFacts DEF Do, Leads
  <2>2. x - 1 = r.x + t.w - 1
    BY <2>1, TileFacts
  <2>3. ASSUME t.type = "VLIST", t.lines # <<>>
        PROVE  /\ lines[<<r.x, r.y>>] = Corners[t.b[t.o + 1]][1]
               /\ lines[<<r.x + t.w - 1, r.y>>] = Corners[t.b[t.o + 1]][2]
    <3>1. /\ Sure(X, Y, 1, r.x, r.y, Corners[t.b[t.o + 1]][1])
          /\ Sure(X, Y, 1, r.x + t.w - 1, r.y, Corners[t.b[t.o + 1]][2])
      BY <2>1, <2>3 DEF Drawing, CornersSure
    <3>2. 1..1 - 1 = {}
      OBVIOUS
    <3> QED
      BY <3>1, <3>2 DEF Sure
  <2> QED
    BY <2>1, <2>2, <2>3 DEF EndsLevel
<1> QED
  BY <1>1, InvHolds, PTL

\* What has been written to a position of the canvas stays there.
THEOREM NothingDrawnOver == Spec => NoOverdraw
<1>1. Inv /\ [Next]_vars => [\A p \in DOMAIN lines : lines'[p] = lines[p]]_vars
  <2> SUFFICES ASSUME NEW X, NEW Y, Drawing(X, Y), Next
               PROVE  \A p \in DOMAIN lines : lines'[p] = lines[p]
    BY DEF Inv
  <2>1. CASE Bprintf
    <3> SUFFICES ASSUME NEW p \in DOMAIN lines
                 PROVE  lines'[p] = lines[p]
      OBVIOUS
    <3>1. Do("print")
      BY <2>1 DEF Bprintf
    <3>2. p \notin Pending
      <4> SUFFICES ASSUME p \in Pending
                   PROVE  FALSE
        OBVIOUS
      <4>1. PICK qx \in Int, qy \in Int : p = <<qx, qy>> /\ Covers(todo[1], X[1], Y[1], qx, qy)
        BY <3>1, PendingFacts
      <4>2. 1 \in 1..Len(todo)
        BY <3>1, DrawingFacts DEF Do
      <4> QED
        BY <4>1, <4>2 DEF Drawing, OnCanvas
    <3>3. PICK at, s : at = Pending /\ s = Head(todo).s
      OBVIOUS
    <3>4. lines' = [q \in DOMAIN lines \union at |->
                      IF q \in at THEN s[q[1] - x + 1] ELSE lines[q]]
      BY <2>1, <3>3 DEF Bprintf, Pending
    <3> QED
      BY <3>2, <3>3, <3>4
  <2>2. CASE ~Bprintf
    BY <2>2 DEF Next, vars, Terminated, Move, DoJustify, DoBars, RenderVlist, DoRow,
                RenderHlist, DoPart, RenderComment, RenderLeaf, DoReturn
  <2> QED
    BY <2>1, <2>2
<1> QED
  BY <1>1, InvHolds, PTL DEF Spec, NoOverdraw
=============================================================================
