------------------------------ MODULE TextTiles -----------------------------
(***************************************************************************)
(* The tiles that rrtext_output and rrutf8_output (src/src/rrtext/output.c)*)
(* draw: a text is as wide as what is written for it.                      *)
(***************************************************************************)
EXTENDS RrdNode, RrText

\* dim_mono_txt
CharWidth(c) == IF c \in Quoted THEN 2 ELSE IF c \in Unprintable THEN 4 ELSE 1
DimMono(text) == FoldLeft(LAMBDA n, c : n + CharWidth(c), 2, text)

\* The struct dim of rrtext_output and rrutf8_output.
TextDim == [literal_padding |-> 2, rule_padding |-> 0, prose_padding |-> 2, comment_height |-> 0,
            ci_marker |-> 2, ellipsis_depth |-> 1, text_ascender |-> 0]

\* times() and loop_label(), of which only the length matters.
TimesLength(k) ==
  IF k <= 12 THEN <<5, 4, 5, 11, 10, 10, 9, 11, 11, 10, 9, 12, 12>>[k + 1]
  ELSE Len(ToString(k)) + Len(" times")

LabelLength(min, max) ==
  IF min = 0 /\ max = 0 THEN 0
  ELSE IF max = min THEN TimesLength(max) + (IF max <= 12 THEN Len("( only)") ELSE Len("()"))
  ELSE IF min = 0 THEN TimesLength(max) + Len("( at most)")
  ELSE IF max = 0 THEN TimesLength(min) + Len("(at least )")
  ELSE Len(ToString(min)) + Len(ToString(max)) + Len("(- times)")

Label(min, max) == [i \in 1..LabelLength(min, max) |-> "x"]

Tiles == INSTANCE Tnode WITH
  dim <- TextDim, LiteralTxt <- DimMono, RuleString <- DimMono, LoopLabel <- Label

RrdToTnode(n) == Tiles!RrdToTnode(n)

\* The tiles inside a tile, and some tiles with all those inside them.
Inside(t) == CASE t.type = "VLIST"   -> t.lines
               [] t.type = "HLIST"   -> t.tiles
               [] t.type = "COMMENT" -> <<t.tile>>
               [] OTHER -> <<>>

RECURSIVE WithParts(_)
WithParts(S) ==
  LET most   == Max({Len(Inside(t)) : t \in S} \union {0})
      at(k)  == {Inside(t)[k] : t \in {u \in S : k <= Len(Inside(u))}}
      inside == UNION {at(k) : k \in 1..most}
  IN  IF inside \subseteq S THEN S ELSE WithParts(S \union inside)
=============================================================================
