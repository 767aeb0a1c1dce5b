------------------------------- MODULE RrText -------------------------------
(***************************************************************************)
(* render_rule (src/src/rrtext/output.c): the tiles of one production are  *)
(* drawn on a canvas that is allocated from the size of the outermost one. *)
(* Positions are unsigned in the code and not checked when written to.     *)
(*                                                                         *)
(* The C functions call each other over the tree of tiles; todo is their   *)
(* stack, what is still to be done, in order.  A step is one function's    *)
(* own work up to the calls it makes, one turn of a loop over tiles or     *)
(* rows, or one run of characters written.                                 *)
(***************************************************************************)
EXTENDS Integers, SequencesExt

CONSTANTS Tnodes,     \* the tiles of productions
          Parts       \* with all the tiles they are made of

(***************************************************************************)
(* A character of a text is written as itself, with a backslash, or as a   *)
(* backslash, an x and two digits.                                         *)
(***************************************************************************)
Quoted      == {"quote", "newline"}
Unprintable == {"nul"}

Escputc(c) ==
  IF c \in Quoted THEN <<"\\", c>>
  ELSE IF c \in Unprintable THEN <<"\\", "x", "0", "0">>
  ELSE <<c>>

RenderTxt(text) == FoldLeft(LAMBDA s, c : s \o Escputc(c), <<>>, text)

\* The characters of a tile with none inside.
Leaf(t) ==
  CASE t.type = "RTL_ARROW" -> <<"<">>
    [] t.type = "LTR_ARROW" -> <<">">>
    [] t.type = "ELLIPSIS"  -> <<":">>
    [] t.type = "CI"    -> <<" ", "\"">> \o RenderTxt(t.text) \o <<"\"", "/", "i", " ">>
    [] t.type = "CS"    -> <<" ", "\"">> \o RenderTxt(t.text) \o <<"\"", " ">>
    [] t.type = "PROSE" -> <<"?", " ">> \o RenderTxt(t.text) \o <<" ", "?">>
    [] t.type = "RULE"  -> <<" ">> \o RenderTxt(t.text) \o <<" ">>

(***************************************************************************)
(* The characters the track is drawn with, and the sides on which each     *)
(* goes on, as in the UTF-8 column of tile[].                              *)
(***************************************************************************)
Sides == [horizontal |-> {"left", "right"}, vertical |-> {"up", "down"},
          up_right |-> {"up", "right"},     up_left |-> {"up", "left"},
          down_right |-> {"down", "right"}, down_left |-> {"down", "left"},
          cross |-> {"left", "right", "up", "down"},
          entry |-> {"up", "down", "right"}, exit |-> {"up", "down", "left"}]

\* render_tline
Corners ==
  [A |-> <<"up_left", "up_right">>,     B |-> <<"down_right", "down_left">>,
   C |-> <<"down_left", "down_right">>, D |-> <<"cross", "cross">>,
   E |-> <<"up_right", "up_left">>,     F |-> <<"vertical", "vertical">>,
   G |-> <<"up_right", "up_left">>,     H |-> <<"down_right", "down_left">>,
   I |-> <<"up_right", "up_left">>,     J |-> <<"horizontal", "horizontal">>]

Times(k, c) == [i \in 1..k |-> c]
Track(k)    == Times(k, "horizontal")

(***************************************************************************)
(* How tiles are made: the parts of each have room in it, where the code   *)
(* draws them.  The levels of a choice or loop are those of its lines,     *)
(* from that of the first; the columns of a sequence are where its parts   *)
(* begin.                                                                  *)
(***************************************************************************)
Levels(t) ==
  FoldLeft(LAMBDA s, line : Append(s, s[Len(s)] + t.lines[Len(s)].d + 1 + line.a),
           <<0>>, Tail(t.lines))
Columns(t) ==
  FoldLeft(LAMBDA s, tile : Append(s, s[Len(s)] + t.tiles[Len(s)].w + 2),
           <<0>>, Tail(t.tiles))

\* The row of the tile that its first line is drawn on.
FirstRow(t) == IF t.o = 1 THEN 0 ELSE t.a

SizedVlist(t, all) ==
  /\ t.lines \in Seq(all) /\ t.o \in 0..1
  /\ t.b \in [DOMAIN t.lines -> DOMAIN Corners]
  /\ t.lines = <<>> => t.o = 0
  /\ t.lines # <<>> =>
       LET row == Levels(t)
       IN  /\ row \in [DOMAIN t.lines -> Nat] /\ row[1] = 0
           /\ \A j \in DOMAIN t.lines :
                /\ j + 1 \in DOMAIN t.lines =>
                     row[j + 1] = row[j] + t.lines[j].d + 1 + t.lines[j + 1].a
                /\ FirstRow(t) + row[j] + t.lines[j].d <= t.a + t.d
                /\ t.lines[j].w + 2 <= t.w
           /\ t.lines[1].a <= FirstRow(t)
           /\ t.o + 1 \in DOMAIN t.lines /\ FirstRow(t) + row[t.o + 1] = t.a

SizedHlist(t, all) ==
  /\ t.tiles \in Seq(all) /\ t.tiles # <<>>
  /\ LET column == Columns(t)
     IN  /\ column \in [DOMAIN t.tiles -> Nat] /\ column[1] = 0
         /\ column[Len(t.tiles)] + t.tiles[Len(t.tiles)].w = t.w
         /\ \A i \in DOMAIN t.tiles :
              /\ i + 1 \in DOMAIN t.tiles => column[i + 1] = column[i] + t.tiles[i].w + 2
              /\ column[i] + t.tiles[i].w <= t.w
              /\ t.tiles[i].a <= t.a /\ t.tiles[i].d <= t.d

SizedComment(t, all) ==
  /\ t.tile \in all /\ t.tile.w <= t.w /\ t.tile.a <= t.a /\ t.tile.d < t.d
  /\ t.text \in Seq(STRING) /\ Len(t.text) <= t.w

Sized(t, all) ==
  /\ t.w \in Nat /\ t.a \in Nat /\ t.d \in Nat \ {0}
  /\ CASE t.type = "VLIST"   -> SizedVlist(t, all)
       [] t.type = "HLIST"   -> SizedHlist(t, all)
       [] t.type = "COMMENT" -> SizedComment(t, all)
       [] OTHER -> Leaf(t) \in Seq(STRING) /\ Len(Leaf(t)) = t.w

AllSized(all) == \A t \in all : Sized(t, all)

ASSUME RrTextAssumption == Tnodes \subseteq Parts /\ AllSized(Parts)

VARIABLES
  tnode,     \* the outermost tile
  x, y,      \* ctx->x, ctx->y
  lines,     \* ctx->lines: a character for each position written to
  todo

vars == <<tnode, x, y, lines, todo>>

\* What can be on the stack.
Puts(s)           == [op |-> "print", s |-> s]              \* bprintf
Goto(px, py)      == [op |-> "at", x |-> px, y |-> py]      \* ctx->x = , ctx->y =
Down(px)          == [op |-> "down", x |-> px]              \* ctx->y++; ctx->x =
Skip(k, py)       == [op |-> "skip", k |-> k, y |-> py]     \* ctx->x +=; ctx->y =
Render(t)         == [op |-> "render", tile |-> t]          \* node_walk_render
Justify(t, space) == [op |-> "justify", tile |-> t, space |-> space]
Bars(k, w)        == [op |-> "bars", k |-> k, w |-> w]      \* k turns of the loop
\* The loops of render_vlist, which has begun at px, and of render_hlist.
Row(t, j, px)     == [op |-> "row", tile |-> t, j |-> j, x |-> px]
Part(t, i)        == [op |-> "part", tile |-> t, i |-> i]
\* The return from the drawing of a tile begun at px, py.
Return(t, px, py) == [op |-> "return", tile |-> t, x |-> px, y |-> py]

Width == tnode.w + 8
Rows  == tnode.a + tnode.d

Init ==
  /\ tnode \in Tnodes
  /\ x = 0
  /\ y = tnode.a
  /\ lines = <<>>
  /\ todo = <<Puts(<<"vertical", "entry">> \o Track(2)),
              Goto(Width - 4, tnode.a),
              Puts(Track(2) \o <<"exit", "vertical">>),
              Goto(4, tnode.a),
              Render(tnode)>>

Do(op) == todo # <<>> /\ Head(todo).op = op
Instead(ops) == todo' = ops \o Tail(todo)

\* memcpy to ctx->lines[ctx->y] + ctx->x
Bprintf ==
  /\ Do("print")
  /\ LET s  == Head(todo).s
         at == {<<x + i - 1, y>> : i \in DOMAIN s}
     IN  /\ lines' = [p \in DOMAIN lines \union at |->
                        IF p \in at THEN s[p[1] - x + 1] ELSE lines[p]]
         /\ x' = x + Len(s)
  /\ Instead(<<>>)
  /\ UNCHANGED <<tnode, y>>

Move ==
  /\ \/ Do("at")   /\ x' = Head(todo).x     /\ y' = Head(todo).y
     \/ Do("down") /\ x' = Head(todo).x     /\ y' = y + 1
     \/ Do("skip") /\ x' = x + Head(todo).k /\ y' = Head(todo).y
  /\ Instead(<<>>)
  /\ UNCHANGED <<tnode, lines>>

\* Mutant: what is left of the space is halved, and both halves rounded down.
DoJustifyEven ==
  /\ Do("justify")
  /\ LET t   == Head(todo).tile
         lhs == (Head(todo).space - t.w) \div 2
         c   == IF t.type = "ELLIPSIS" THEN "blank" ELSE "horizontal"
     IN  Instead(<<Puts(Times(lhs, c)), Render(t), Puts(Times(lhs, c))>>)
  /\ UNCHANGED <<tnode, x, y, lines>>

DoJustify ==
  /\ Do("justify")
  /\ LET t   == Head(todo).tile
         all == Head(todo).space - t.w
         lhs == all \div 2
         c   == IF t.type = "ELLIPSIS" THEN "blank" ELSE "horizontal"
     IN  Instead(<<Puts(Times(lhs, c)), Render(t), Puts(Times(all - lhs, c))>>)
  /\ UNCHANGED <<tnode, x, y, lines>>

DoBars ==
  /\ Do("bars")
  /\ LET bar == Puts(<<"vertical">>)
         k   == Head(todo).k
         w   == Head(todo).w
     IN  Instead(IF k = 0 THEN <<>>
                 ELSE <<bar, Skip(w - 2, y), bar, Down(x), Bars(k - 1, w)>>)
  /\ UNCHANGED <<tnode, x, y, lines>>

Rendering(type) == Do("render") /\ Head(todo).tile.type = type

\* Mutant: no choice is drawn from its own line downwards.
RenderVlistUp ==
  /\ Rendering("VLIST")
  /\ LET t == Head(todo).tile
     IN  /\ y' = y - t.a
         /\ Instead(<<IF t.lines = <<>> THEN Puts(Track(t.w)) ELSE Row(t, 1, x),
                      Return(t, x, y)>>)
  /\ UNCHANGED <<tnode, x, lines>>

RenderVlist ==
  /\ Rendering("VLIST")
  /\ LET t == Head(todo).tile
     IN  /\ y' = IF t.o = 1 THEN y - t.a ELSE y
         /\ Instead(<<IF t.lines = <<>> THEN Puts(Track(t.w)) ELSE Row(t, 1, x),
                      Return(t, x, y)>>)
  /\ UNCHANGED <<tnode, x, lines>>

\* Mutant: a row too many between two lines.
DoRowApart ==
  /\ Do("row")
  /\ LET t  == Head(todo).tile
         j  == Head(todo).j
         px == Head(todo).x
         corner(side) == Puts(<<Corners[t.b[j]][side]>>)
     IN  /\ x' = px
         /\ Instead(<<corner(1), Justify(t.lines[j], t.w - 2), corner(2)>>
                      \o IF j = Len(t.lines) THEN <<>>
                         ELSE <<Down(px), Bars(t.lines[j].d + t.lines[j + 1].a + 1, t.w),
                                Row(t, j + 1, px)>>)
  /\ UNCHANGED <<tnode, y, lines>>

DoRow ==
  /\ Do("row")
  /\ LET t  == Head(todo).tile
         j  == Head(todo).j
         px == Head(todo).x
         corner(side) == Puts(<<Corners[t.b[j]][side]>>)
     IN  /\ x' = px
         /\ Instead(<<corner(1), Justify(t.lines[j], t.w - 2), corner(2)>>
                      \o IF j = Len(t.lines) THEN <<>>
                         ELSE <<Down(px), Bars(t.lines[j].d + t.lines[j + 1].a, t.w),
                                Row(t, j + 1, px)>>)
  /\ UNCHANGED <<tnode, y, lines>>

RenderHlist ==
  /\ Rendering("HLIST")
  /\ Instead(<<Part(Head(todo).tile, 1), Return(Head(todo).tile, x, y)>>)
  /\ UNCHANGED <<tnode, x, y, lines>>

DoPart ==
  /\ Do("part")
  /\ LET t == Head(todo).tile
         i == Head(todo).i
     IN  Instead(<<Render(t.tiles[i])>>
                   \o IF i = Len(t.tiles) THEN <<>> ELSE <<Puts(Track(2)), Part(t, i + 1)>>)
  /\ UNCHANGED <<tnode, x, y, lines>>

\* Mutant: the label is written on the last row of the loop.
RenderCommentHigh ==
  /\ Rendering("COMMENT")
  /\ LET t   == Head(todo).tile
         all == t.w - Len(t.text)
         lhs == all \div 2
     IN  Instead(<<Justify(t.tile, t.w), Goto(x + lhs, y + t.d - 2), Puts(t.text),
                   Skip(all - lhs, y), Return(t, x, y)>>)
  /\ UNCHANGED <<tnode, x, y, lines>>

RenderComment ==
  /\ Rendering("COMMENT")
  /\ LET t   == Head(todo).tile
         all == t.w - Len(t.text)
         lhs == all \div 2
     IN  Instead(<<Justify(t.tile, t.w), Goto(x + lhs, y + t.d - 1), Puts(t.text),
                   Skip(all - lhs, y), Return(t, x, y)>>)
  /\ UNCHANGED <<tnode, x, y, lines>>

RenderLeaf ==
  /\ Do("render")
  /\ LET t == Head(todo).tile
     IN  /\ t.type \notin {"VLIST", "HLIST", "COMMENT"}
         /\ Instead(<<Puts(Leaf(t)), Return(t, x, y)>>)
  /\ UNCHANGED <<tnode, x, y, lines>>

\* Only render_vlist has something left to do; render_comment has done it.
DoReturn ==
  /\ Do("return")
  /\ y' = IF Head(todo).tile.type = "VLIST" THEN Head(todo).y ELSE y
  /\ Instead(<<>>)
  /\ UNCHANGED <<tnode, x, lines>>

\* The canvas is printed.
Terminated == todo = <<>> /\ UNCHANGED vars

Next ==
  \/ Bprintf \/ Move \/ DoJustify \/ DoBars
  \/ RenderVlist \/ DoRow \/ RenderHlist \/ DoPart
  \/ RenderComment \/ RenderLeaf \/ DoReturn
  \/ Terminated

Spec == Init /\ [][Next]_vars
-----------------------------------------------------------------------------
(***************************************************************************)
(* Sizes and positions are natural numbers: none of the subtractions of    *)
(* unsigned numbers wraps.  What is put in the middle of a space fits into *)
(* it, as centre() and render_comment() assert.                            *)
(***************************************************************************)
TypeOK ==
  /\ x \in Nat /\ y \in Nat
  /\ \A i \in DOMAIN todo :
       /\ todo[i].op \in {"render", "justify", "row", "part", "return"} =>
            {todo[i].tile.w, todo[i].tile.a, todo[i].tile.d} \subseteq Nat
       /\ todo[i].op = "at" => {todo[i].x, todo[i].y} \subseteq Nat
       /\ todo[i].op \in {"bars", "skip"} => todo[i].k \in Nat
  /\ Do("justify") => Head(todo).tile.w <= Head(todo).space
  /\ Rendering("COMMENT") => Len(Head(todo).tile.text) <= Head(todo).tile.w

Area(px, py, w, a, d) == (px..px + w - 1) \X (py - a..py + d - 1)
Pending == {<<x + i - 1, y>> : i \in DOMAIN Head(todo).s}

(***************************************************************************)
(* Memory safety, and more: all that is written while a tile is drawn lies *)
(* in the tile's own area, that of all the tiles around it, and on the     *)
(* canvas.                                                                 *)
(***************************************************************************)
WithinTile ==
  Do("print") =>
    /\ Pending \subseteq Area(0, 0, Width, 0, Rows)
    /\ \A i \in DOMAIN todo :
         todo[i].op = "return" =>
           LET r == todo[i] IN Pending \subseteq Area(r.x, r.y, r.tile.w, r.tile.a, r.tile.d)

(***************************************************************************)
(* Nothing is drawn over: no two tiles, bars or labels share a position.   *)
(***************************************************************************)
NoOverdraw == [][\A p \in DOMAIN lines : lines'[p] = lines[p]]_vars

(***************************************************************************)
(* A tile is as wide as what is drawn for it: its drawing ends w to the    *)
(* right of where it began, as render_comment asserts, and on the same     *)
(* line; a choice or loop begins and ends there with the corners of the    *)
(* line that is level with it, be that its first, its second or its last.  *)
(***************************************************************************)
EndsLevel ==
  Do("return") =>
    LET r == Head(todo)
        t == r.tile
    IN  /\ x = r.x + t.w
        /\ t.type = "VLIST" /\ t.lines # <<>> =>
             /\ lines[<<r.x, r.y>>] = Corners[t.b[t.o + 1]][1]
             /\ lines[<<x - 1, r.y>>] = Corners[t.b[t.o + 1]][2]
        /\ t.type # "VLIST" => y = r.y

(***************************************************************************)
(* No track ends in the middle of nowhere: wherever a character of it goes *)
(* on to, something is drawn.  The frame is but for its tracks open.       *)
(***************************************************************************)
Neighbour(p, side) ==
  CASE side = "left"  -> <<p[1] - 1, p[2]>>
    [] side = "right" -> <<p[1] + 1, p[2]>>
    [] side = "up"    -> <<p[1], p[2] - 1>>
    [] side = "down"  -> <<p[1], p[2] + 1>>

TracksJoined ==
  todo = <<>> =>
    \A p \in DOMAIN lines :
      p[1] \in 2..Width - 3 /\ lines[p] \in DOMAIN Sides =>
        \A side \in Sides[lines[p]] :
          LET q == Neighbour(p, side)
          IN  q \in DOMAIN lines /\ lines[q] # "blank"
=============================================================================
