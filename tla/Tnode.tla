------------------------------- MODULE Tnode --------------------------------
(***************************************************************************)
(* rrd_to_tnode (src/src/rrd/tnode.c): the tiles of a railroad diagram and *)
(* their sizes.  A tile is w wide; its line enters on the left and leaves  *)
(* on the right with a rows above it and d rows from it downwards.         *)
(*                                                                         *)
(* The list of a choice is what tnode_create_alt_list puts there (see      *)
(* AltRanges), in that order and with its ELLIPSIS nodes.  A node may have *)
(* an "invisible" field.  Left out is which way the arrows of a corner     *)
(* point: TLINE_A and TLINE_a have the same corners.                       *)
(***************************************************************************)
EXTENDS RrdNode, Integers

CONSTANTS dim,             \* the paddings and heights of an output
          LiteralTxt(_),   \* the width that dim->literal_txt
          RuleString(_),   \* and dim->rule_string give a text
          LoopLabel(_, _)  \* what loop_label() writes, <<>> for nothing

ELLIPSIS     == [type |-> "ELLIPSIS"]
Invisible(n) == "invisible" \in DOMAIN n

TextTile(type, text, width) ==
  [type |-> type, text |-> text, w |-> width, a |-> dim.text_ascender, d |-> 1]

\* A vlist of no lines is drawn as a horizontal line.
Line(w, a, d) ==
  [type |-> "VLIST", w |-> w, a |-> a, d |-> d, o |-> 0, lines |-> <<>>, b |-> <<>>]
IsLine(t) == t.type = "VLIST" /\ t.lines = <<>>

Arrow(t, rtl) ==
  [type |-> IF rtl THEN "RTL_ARROW" ELSE "LTR_ARROW", w |-> 1, a |-> t.a, d |-> t.d]

Ellipsis == [type |-> "ELLIPSIS", w |-> 1, a |-> 0, d |-> dim.ellipsis_depth]

Most(S) == Max(S \union {0})

Widest(tiles) == Most({t.w : t \in Range(tiles)})
Height(t) == t.a + t.d

\* Tiles one below the other, and a row between them.
Stacked(tiles) == FoldLeft(LAMBDA h, t : h + 1 + Height(t), 0, tiles) - 1

\* Mutant: the last line is drawn like one with another below it.
TlineCross(i, n, o, t) ==
  IF n = 1 THEN "J"
  ELSE IF i = o + 1 THEN (IF i = 1 THEN "C" ELSE "D")
  ELSE IF i = 1 THEN "B"
  ELSE IF i = n THEN "E"
  ELSE IF t.type = "ELLIPSIS" THEN "F"
  ELSE "G"

\* The corners on the left and the right of line i of n, the line numbered o
\* (from 0) being level with the entry of the choice.
Tline(i, n, o, t) ==
  IF n = 1 THEN "J"
  ELSE IF i = o + 1 THEN (IF i = n THEN "A" ELSE IF i = 1 THEN "C" ELSE "D")
  ELSE IF i = 1 THEN "B"
  ELSE IF i = n THEN "E"
  ELSE IF t.type = "ELLIPSIS" THEN "F"
  ELSE "G"

\* A choice hangs below its first line, but for a skip, which goes above.
Choice(lines, o) ==
  LET a == IF o = 0 THEN lines[1].a
           ELSE Height(lines[1]) + 1 + (IF Len(lines) > 1 THEN lines[2].a ELSE 0)
  IN  [type |-> "VLIST", w |-> Widest(lines) + 6, a |-> a, d |-> Stacked(lines) - a,
       o |-> o, lines |-> lines,
       b |-> [i \in DOMAIN lines |-> Tline(i, Len(lines), o, lines[i])]]

Hlist(tiles) ==
  [type |-> "HLIST", tiles |-> tiles,
   w |-> FoldLeft(LAMBDA w, t : w + t.w + 2, 0, tiles) - 2,
   a |-> Most({t.a : t \in Range(tiles)}),
   d |-> Most({t.d : t \in Range(tiles)})]

\* "An aesthetic optimisation": a low backward line goes above a deep forward
\* line, unless there is something big above the line already.
Lifted(f, b) == f.d >= 4 /\ Height(b) <= 2 /\ f.a <= 2 /\ f.d > f.a

LoopTile(f, b) ==
  LET back == IF IsLine(b.tile) THEN Arrow(b.tile, b.rtl) ELSE b.tile
      up   == Height(back) + 1
      w    == Max({f.w, back.w}) + 6
  IN  IF Lifted(f, back)
      THEN [type |-> "VLIST", w |-> w, a |-> f.a + up, d |-> Stacked(<<f, back>>) - f.a - up,
            o |-> 1, lines |-> <<back, f>>, b |-> <<"B", "I">>]
      ELSE [type |-> "VLIST", w |-> w, a |-> f.a, d |-> Stacked(<<f, back>>) - f.a,
            o |-> 0, lines |-> <<f, back>>, b |-> <<"H", "E">>]

Comment(t, label) ==
  [type |-> "COMMENT", text |-> label, tile |-> t,
   w |-> Max({t.w, RuleString(label)}),
   a |-> t.a + dim.text_ascender, d |-> t.d + dim.comment_height + 1]

Labelled(t, label) == IF label = <<>> THEN t ELSE Comment(t, label)

RECURSIVE CreateNode(_, _)
CreateVisible(n, rtl) ==
  LET each(list) == [i \in DOMAIN list |-> CreateNode(list[i], rtl)]
  IN  CASE n.type = "ELLIPSIS" -> Ellipsis
        [] n.type = "CI"    -> TextTile("CI", n.text, LiteralTxt(n.text) + dim.literal_padding + dim.ci_marker)
        [] n.type = "CS"    -> TextTile("CS", n.text, LiteralTxt(n.text) + dim.literal_padding)
        [] n.type = "RULE"  -> TextTile("RULE", n.name, RuleString(n.name) + dim.rule_padding)
        [] n.type = "PROSE" -> TextTile("PROSE", n.prose, RuleString(n.prose) + dim.prose_padding)
        [] n.type = "ALT"   -> Choice(each(n.list), 0)
        [] n.type = "SKIPPABLE" -> Choice(<<Arrow(Line(0, 0, 1), rtl)>> \o each(n.list), 1)
        [] n.type = "SEQ"   -> Hlist(each(IF rtl THEN Reverse(n.list) ELSE n.list))
        [] n.type = "LOOP"  ->
             Labelled(LoopTile(CreateNode(n.forward, rtl),
                               [tile |-> CreateNode(n.backward, ~rtl), rtl |-> ~rtl]),
                      LoopLabel(n.min, n.max))

\* tnode_create_node: what is invisible is a line of the same size.
CreateNode(n, rtl) ==
  IF n = NULL THEN Line(0, 0, 1)
  ELSE LET t == CreateVisible(n, rtl)
       IN  IF Invisible(n) THEN Line(t.w, t.a, t.d) ELSE t

RrdToTnode(n) == CreateNode(n, FALSE)
=============================================================================
