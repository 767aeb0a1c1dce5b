------------------------------- MODULE SvgDraw ------------------------------
(***************************************************************************)
(* Drawing the tiles of a production (src/src/svg/output.c): where its     *)
(* texts are written, and the segments of its track.  Arrow heads, the     *)
(* dots of an ellipsis, stations and the markup are left out.              *)
(***************************************************************************)
EXTENDS RrdNode, SvgPath

(***************************************************************************)
(* The width of texts.  A character is represented by its width, in        *)
(* hundredths: 100, 293 or 400 in a literal, 30 to 150 elsewhere.  No text *)
(* may come to a whole number of units, because the code adds up doubles.  *)
(***************************************************************************)
Hundredths(text) == FoldLeft(LAMBDA n, c : n + c, 0, text)
Ceil(n) == (n + 99) \div 100

DimMonoTxt(text) == Ceil(Hundredths(text)) + 1

\* dim_prop_string; "even numbers only, for sake of visual rhythm".
DimPropString(text) == 2 * Ceil(Ceil(Hundredths(text)) * 50) + 1

\* times() and loop_label(), by the widths of what they write.
DigitsWidth(k) ==
  LET f[m \in Nat] == IF m = 0 THEN 0 ELSE f[m \div 10] + (IF m % 10 = 1 THEN 75 ELSE 80)
  IN  f[k]

TimesWidth(k) ==
  IF k <= 12 THEN <<400, 320, 375, 805, 730, 700, 650, 840, 775, 730, 645, 890, 895>>[k + 1]
  ELSE DigitsWidth(k) + 440

Label(min, max) ==
  IF min = 0 /\ max = 0 THEN <<>>
  ELSE IF max = min THEN <<TimesWidth(max) + (IF max <= 12 THEN 460 ELSE 110)>>
  ELSE IF min = 0 THEN <<TimesWidth(max) + 685>>
  ELSE IF max = 0 THEN <<TimesWidth(min) + 690>>
  ELSE <<DigitsWidth(min) + DigitsWidth(max) + 630>>

SvgDim == [literal_padding |-> 0, rule_padding |-> 0, prose_padding |-> 0, comment_height |-> 1,
           ci_marker |-> 2, ellipsis_depth |-> 0, text_ascender |-> 1]

Tiles == INSTANCE Tnode WITH
  dim <- SvgDim, LiteralTxt <- DimMonoTxt, RuleString <- DimPropString, LoopLabel <- Label

(***************************************************************************)
(* Drawing.  A context c has x and y, the segments collected, and boxes,   *)
(* where texts have been written.                                          *)
(***************************************************************************)
AddPath(c, q) == [c EXCEPT !.paths = <<q>> \o @]
Right(c, n)   == [c EXCEPT !.x = @ + n]
DrawH(c, n)   == Right(AddPath(c, PathH(c.x, c.y, n)), n)

\* svg_textbox and svg_prose; a comment's box is not on the track.
TextBox(c, w, onTrack) ==
  Right([c EXCEPT !.boxes = @ \union {[x |-> c.x, y |-> c.y, w |-> w, onTrack |-> onTrack]}], w)

\* render_tile
RenderTile(x, y, tile) ==
  CASE tile = "TL"    -> PathQ(x, y + 10, <<0, -10>>, 10, -10)
    [] tile = "BR"    -> PathQ(x, y, <<10, 0>>, 10, -10)
    [] tile = "TR"    -> PathQ(x, y, <<10, 0>>, 10, 10)
    [] tile = "LINE"  -> PathH(x, y, 10)
    [] tile = "BL_N1" -> PathQ(x, y - 10, <<0, 10>>, 10, 10)

\* render_tile_bm: all in the same place, by the number of the bit.
RenderTiles(c, tiles) ==
  Right([c EXCEPT !.paths = Reverse([i \in DOMAIN tiles |-> RenderTile(c.x, c.y, tiles[i])]) \o @], 10)

\* render_tline_inner and render_tline_outer, on the left and on the right.
Inner == [A |-> <<<<"LINE">>, <<"LINE">>>>, B |-> <<<<"TL">>, <<"TR">>>>,
          C |-> <<<<"LINE">>, <<"LINE">>>>, D |-> <<<<"LINE">>, <<"LINE">>>>,
          E |-> <<<<"BL_N1">>, <<"BR">>>>,  F |-> <<<<>>, <<>>>>,
          G |-> <<<<"BL_N1">>, <<"BR">>>>,
          H |-> <<<<"TL", "LINE">>, <<"TR", "LINE">>>>,
          I |-> <<<<"LINE", "BL_N1">>, <<"BR", "LINE">>>>,
          J |-> <<<<"LINE">>, <<"LINE">>>>]

Outer == [A |-> <<<<"BR", "LINE">>, <<"LINE", "BL_N1">>>>, B |-> <<<<>>, <<>>>>,
          C |-> <<<<"TR", "LINE">>, <<"TL", "LINE">>>>,
          D |-> <<<<"BR", "TR", "LINE">>, <<"TL", "LINE", "BL_N1">>>>,
          E |-> <<<<>>, <<>>>>, F |-> <<<<>>, <<>>>>, G |-> <<<<>>, <<>>>>,
          H |-> <<<<"LINE">>, <<"LINE">>>>, I |-> <<<<"LINE">>, <<"LINE">>>>,
          J |-> <<<<"LINE">>, <<"LINE">>>>]

Bars(c, n, w) == AddPath(AddPath(c, PathV(c.x, c.y, n)), PathV(c.x + w, c.y, n))

\* Mutant: the next line's ascender is forgotten.
GapShort(t, i) == IF i = Len(t.lines) THEN 0 ELSE (t.lines[i].d + 1) * 10

\* From line i of t to the next one.
Gap(t, i) == IF i = Len(t.lines) THEN 0 ELSE (t.lines[i].d + t.lines[i + 1].a + 1) * 10

Gaps(t, from, to) ==
  FoldLeft(LAMBDA h, i : h + Gap(t, from + i - 1), 0, [i \in 1..to - from + 1 |-> i])

\* Mutant: nothing is left for the corner pieces.
BarWhole(t, from, to) == Gaps(t, from, to)

\* "for the tline corner pieces"
Bar(t, from, to) == Gaps(t, from, to) - 20

\* The bars above the line and below it.
VlistBars(c, t, left, top, level) ==
  LET n  == Len(t.lines)
      at(k, y) == [k EXCEPT !.x = left + 10, !.y = y + 10]
      upper(k) == IF t.o = 0 THEN k ELSE Bars(at(k, top), Bar(t, 1, t.o), t.w * 10 - 20)
      lower(k) == IF n <= t.o + 1 THEN k ELSE Bars(at(k, level), Bar(t, t.o + 1, n), t.w * 10 - 20)
  IN  lower(upper(c))

\* How far above the lower end of a comment its text is; further if the
\* loop's way back is nothing but a line.
CommentOffset(t) ==
  IF t.type = "VLIST" /\ t.o = 0 /\ Len(t.lines) = 2
     /\ (Tiles!IsLine(t.lines[2]) \/ t.lines[2].type \in {"LTR_ARROW", "RTL_ARROW"})
  THEN 15 ELSE 5

RECURSIVE Draw(_, _)

\* Without a line on either side of an ellipsis.
Justify(c, t, space) ==
  LET all == space - t.w * 10
      lhs == all \div 2
      pad(k, w) == IF t.type = "ELLIPSIS" THEN Right(k, w) ELSE DrawH(k, w)
  IN  pad(Draw(pad(c, lhs), t), all - lhs)

RenderLine(c, t, i) ==
  LET b       == t.b[i]
      entered == RenderTiles(RenderTiles(c, Outer[b][1]), Inner[b][1])
      line    == Justify(entered, t.lines[i], t.w * 10 - 40)
  IN  [RenderTiles(RenderTiles(line, Inner[b][2]), Outer[b][2])
         EXCEPT !.x = c.x, !.y = @ + Max({Gap(t, i), 10})]

\* Mutant: the lines are drawn from the track down.
TopLevel(c, t) == c.y

\* Where the first line of a VLIST is.
Top(c, t) == IF t.o = 1 THEN c.y - t.a * 10 ELSE c.y

RenderVlist(c, t) ==
  LET top  == Top(c, t)
      rows == FoldLeft(LAMBDA k, i : RenderLine(k, t, i), [c EXCEPT !.y = top],
                       [i \in DOMAIN t.lines |-> i])
      done == IF t.lines = <<>> THEN (IF t.w > 0 THEN DrawH(c, t.w * 10) ELSE c)
              ELSE VlistBars(rows, t, c.x, top, c.y)
  IN  [done EXCEPT !.x = c.x + t.w * 10, !.y = c.y]

RenderHlist(c, t) ==
  FoldLeft(LAMBDA k, i : IF i = Len(t.tiles) THEN Draw(k, t.tiles[i])
                         ELSE DrawH(Draw(k, t.tiles[i]), 20),
           c, [i \in DOMAIN t.tiles |-> i])

RenderComment(c, t) ==
  LET label == TextBox([c EXCEPT !.y = @ + t.d * 10 - CommentOffset(t.tile)], t.w * 10, FALSE)
  IN  Justify([c EXCEPT !.boxes = label.boxes], t.tile, t.w * 10)

\* node_walk_render.  That k is bound to c has TLC evaluate it here, not
\* where the drawing is used.
Draw(c, t) ==
  LET draw(k) ==
        CASE t.type \in {"LTR_ARROW", "RTL_ARROW"} -> Right(AddPath(k, PathH(k.x, k.y, 10)), t.w * 10)
          [] t.type = "ELLIPSIS" -> Right(k, 10)
          [] t.type \in {"CI", "CS", "RULE", "PROSE"} -> TextBox(k, t.w * 10, TRUE)
          [] t.type = "COMMENT" -> RenderComment(k, t)
          [] t.type = "HLIST"   -> RenderHlist(k, t)
          [] t.type = "VLIST"   -> RenderVlist(k, t)
  IN  CHOOSE drawn \in {draw(k) : k \in {c}} : TRUE

Width(tile) == (tile.w + 8) * 10
Level(tile) == tile.a * 10 + 10

\* The context after the outermost tile has been drawn: the track between the
\* stations and that tile, and the tile.
Drawn(tile) ==
  LET ends == [x |-> 30, y |-> Level(tile), boxes |-> {},
               paths |-> <<PathH(Width(tile) - 50, Level(tile), 20), PathH(10, Level(tile), 20)>>]
  IN  Draw(ends, tile) @@ [tnode |-> tile]

\* All that svg_render_rule draws for a railroad diagram.
Drawing(n) == Drawn(Tiles!RrdToTnode(n))
=============================================================================
