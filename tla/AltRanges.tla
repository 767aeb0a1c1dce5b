----------------------------- MODULE AltRanges ------------------------------
(***************************************************************************)
(* tnode_create_alt_list (src/src/rrd/tnode.c): the list of alternatives   *)
(* of a choice becomes a list of lines to draw.  Runs of single characters *)
(* are drawn as a first line, an ellipsis and a last line; everything else *)
(* is drawn as it is.  The characters still to be drawn are the bits of a  *)
(* bitmap (src/src/bitmap.c), here the set bm.                             *)
(*                                                                         *)
(* The loop has two cursors: p moves over the list, and hi over the        *)
(* bitmap.  What is drawn when p meets a character is the next run of the  *)
(* bitmap after hi, not the character at p.                                *)
(***************************************************************************)
EXTENDS Integers, Sequences, FiniteSets

CONSTANTS MaxChar,   \* UCHAR_MAX
          Classes,   \* isdigit, isupper and islower, each an interval
          Named,     \* the characters isnamed() is true of
          Other,     \* a node that is no case-sensitive literal of one character
          Lists      \* the alternatives that may be given

Char == 0..MaxChar

ASSUME MaxCharAssumption == MaxChar \in Nat
ASSUME OtherAssumption   == Other \notin Int
ASSUME ListsAssumption   == Lists \subseteq Seq(Char \union {Other})

\* A character 0 is in no class, and so the end of the bitmap, as a byte, is not.
ASSUME ClassesAssumption ==
  /\ \A K \in Classes : \E a, b \in Char : 0 < a /\ a <= b /\ K = a..b
  /\ \A K, L \in Classes : K # L => K \intersect L = {}

VARIABLES
  pc,     \* "loop" or "done"
  list,   \* the alternatives
  p,      \* the position in list
  bm,     \* the characters not yet output
  hi,     \* the end of the last run output, or -1
  out     \* the lines written to new.a, Len(out) = i

vars == <<pc, list, p, bm, hi, out>>

IsChar(i) == list[i] # Other
CharsOf(l) == {l[i] : i \in {j \in DOMAIN l : l[j] # Other}}

\* What a line shows: the alternative at a position, or a character found by
\* find_node, or the three lines of a range.
NodeLine(i) == [kind |-> "node", arg |-> i]
CharLine(c) == [kind |-> "char", arg |-> c]
Ellipsis    == [kind |-> "ellipsis", arg |-> 0]

\* Conversion of an int to unsigned char before the ctype functions.
Byte(h)    == h % (MaxChar + 1)
IsAlnum(h) == \E K \in Classes : Byte(h) \in K
IsNamed(h) == Byte(h) \in Named

\* Mutant: one past the end of the bitmap where there is none.
NextOfPastEnd(S, from) ==
  LET after == {c \in S : c > from}
  IN  IF after = {} THEN MaxChar + 2
      ELSE CHOOSE c \in after : \A d \in after : c <= d

\* bm_next(bm, from, value): the next character whose bit is value.
NextOf(S, from) ==
  LET after == {c \in S : c > from}
  IN  IF after = {} THEN MaxChar + 1
      ELSE CHOOSE c \in after : \A d \in after : c <= d

RangeStart == NextOf(bm, hi)
RangeStop  == NextOf(Char \ bm, RangeStart)

\* Mutant: the endpoint is left where it is.
UnclippedStop == RangeStop

\* "bring down endpoint, if it's past the end of the class"
ClippedStop ==
  LET lo == RangeStart
      K  == CHOOSE L \in Classes : lo \in L
  IN  IF IsAlnum(lo) /\ Byte(RangeStop) \notin K
      THEN 1 + CHOOSE c \in K : \A d \in K : d <= c
      ELSE RangeStop

Init ==
  /\ list \in Lists
  /\ pc = IF list = <<>> THEN "done" ELSE "loop"
  /\ p = 1
  /\ bm = CharsOf(list)
  /\ hi = -1
  /\ out = <<>>

InLoop == pc = "loop" /\ p <= Len(list)

\* The node at p is drawn by itself.
OutputNode ==
  /\ InLoop
  /\ ~IsChar(p)
  /\ out' = Append(out, NodeLine(p))
  /\ p' = p + 1
  /\ UNCHANGED <<pc, list, bm, hi>>

\* "already output"
SkipOutput ==
  /\ InLoop
  /\ IsChar(p)
  /\ list[p] \notin bm
  /\ p' = p + 1
  /\ UNCHANGED <<pc, list, bm, hi, out>>

Pending == InLoop /\ IsChar(p) /\ list[p] \in bm

\* "end of list"
Break ==
  /\ Pending
  /\ RangeStart > MaxChar
  /\ pc' = "done"
  /\ UNCHANGED <<list, p, bm, hi, out>>

\* The run lo up to stop, drawn as its first character only, because it
\* crosses into a class or touches a named character.
AloneByName(lo, stop) ==
  \/ ~IsAlnum(lo) /\ IsAlnum(stop)
  \/ IsNamed(lo)
  \/ IsNamed(stop)

OutputAlone ==
  /\ Pending
  /\ RangeStart <= MaxChar
  /\ AloneByName(RangeStart, RangeStop)
  /\ out' = Append(out, CharLine(RangeStart))
  /\ bm' = bm \ {RangeStart}
  /\ hi' = RangeStart
  /\ p' = p + 1
  /\ UNCHANGED <<pc, list>>

\* Mutant: p moves on.
OutputFirstMovesOn ==
  /\ Pending
  /\ RangeStart <= MaxChar
  /\ ~AloneByName(RangeStart, RangeStop)
  /\ ClippedStop - RangeStart <= 3
  /\ out' = Append(out, CharLine(RangeStart))
  /\ bm' = bm \ {RangeStart}
  /\ hi' = RangeStart
  /\ p' = p + 1
  /\ UNCHANGED <<pc, list>>

\* A run too short for an ellipsis: its first character; p stays.
OutputFirst ==
  /\ Pending
  /\ RangeStart <= MaxChar
  /\ ~AloneByName(RangeStart, RangeStop)
  /\ ClippedStop - RangeStart <= 3
  /\ out' = Append(out, CharLine(RangeStart))
  /\ bm' = bm \ {RangeStart}
  /\ hi' = RangeStart
  /\ UNCHANGED <<pc, list, p>>

\* Mutant: a run of two characters is long enough.
OutputRangeOfTwo ==
  /\ Pending
  /\ RangeStart <= MaxChar
  /\ ~AloneByName(RangeStart, RangeStop)
  /\ ClippedStop - RangeStart > 1
  /\ out' = out \o <<CharLine(RangeStart), Ellipsis, CharLine(ClippedStop - 1)>>
  /\ bm' = bm \ (RangeStart..ClippedStop - 1)
  /\ hi' = ClippedStop
  /\ UNCHANGED <<pc, list, p>>

\* A longer run: its first character, an ellipsis, its last one; p stays.
OutputRange ==
  /\ Pending
  /\ RangeStart <= MaxChar
  /\ ~AloneByName(RangeStart, RangeStop)
  /\ ClippedStop - RangeStart > 3
  /\ out' = out \o <<CharLine(RangeStart), Ellipsis, CharLine(ClippedStop - 1)>>
  /\ bm' = bm \ (RangeStart..ClippedStop - 1)
  /\ hi' = ClippedStop
  /\ UNCHANGED <<pc, list, p>>

\* while (p != NULL)
Return ==
  /\ pc = "loop"
  /\ p > Len(list)
  /\ pc' = "done"
  /\ UNCHANGED <<list, p, bm, hi, out>>

Terminated == pc = "done" /\ UNCHANGED vars

Next ==
  \/ OutputNode \/ SkipOutput \/ Break
  \/ OutputAlone \/ OutputFirst \/ OutputRange
  \/ Return \/ Terminated

Spec == Init /\ [][Next]_vars
-----------------------------------------------------------------------------
Lines == [kind : {"node", "char", "ellipsis"}, arg : Nat]

\* Every variable has its type; the code asserts hi > lo where lo is a byte.
TypeOK ==
  /\ pc \in {"loop", "done"}
  /\ list \in Seq(Char \union {Other})
  /\ p \in 1..Len(list) + 1
  /\ bm \subseteq CharsOf(list)
  /\ hi \in -1..MaxChar + 1
  /\ out \in Seq(Lines)

(***************************************************************************)
(* assert(i <= new.n): the lines fit the array of list_count(list)         *)
(* entries allocated before the loop, in every step and not only at the    *)
(* end, although ranges write three lines without moving p.                *)
(***************************************************************************)
Fits == Len(out) <= Len(list)

\* The alternatives before the k-th that are no characters.
NodesBefore(k) == {i \in 1..k - 1 : ~IsChar(i)}

(***************************************************************************)
(* Why the lines fit: a line has been paid for by a node p has passed or   *)
(* by a character that left the bitmap, and a range pays four for three.   *)
(***************************************************************************)
RoomLeft ==
  Len(out) + Cardinality(bm)
    <= Cardinality(NodesBefore(p)) + Cardinality(CharsOf(list))

\* The inductive invariant behind Fits.
IInv == TypeOK /\ RoomLeft

\* The characters a line stands for; an ellipsis stands for those between.
Shown(i) ==
  CASE out[i].kind = "char"     -> {out[i].arg}
    [] out[i].kind = "ellipsis" -> out[i - 1].arg + 1 .. out[i + 1].arg - 1
    [] OTHER                    -> {}

AllShown == UNION {Shown(i) : i \in DOMAIN out}

\* What has been drawn is what left the bitmap, and no character is drawn
\* twice or was not in the list.
ShownOnce ==
  /\ AllShown = CharsOf(list) \ bm
  /\ \A i, j \in DOMAIN out : i # j => Shown(i) \intersect Shown(j) = {}

\* The characters are drawn in ascending order, whatever their order in the list.
Ascending ==
  \A i, j \in DOMAIN out :
    i < j /\ out[i].kind = "char" /\ out[j].kind = "char" => out[i].arg < out[j].arg

\* A run of characters, first and then rest, ends within class K only if it
\* starts there.
NeverCuts(K, first, rest) ==
  IF first \in K THEN rest \subseteq K ELSE rest \intersect K = {} \/ K \subseteq rest

(***************************************************************************)
(* A range that starts on a letter or a digit stays within its class, and  *)
(* one that starts elsewhere, "/" say, and goes on into a class goes       *)
(* through the whole of it: no range ends within a class it did not start  *)
(* in.  "If the range begins or ends on any named item (e.g. <TAB>), the   *)
(* output would be confusing [...] So we elect to render the range as      *)
(* invidual elements instead" (src/src/rrd/tnode.c:277).  One that begins  *)
(* on a named character is never drawn.  One may well end on it: what      *)
(* AloneByName tests is the character after the end.                       *)
(***************************************************************************)
RangesReadable ==
  \A i \in DOMAIN out :
    out[i].kind = "ellipsis" =>
      /\ \A K \in Classes : NeverCuts(K, out[i - 1].arg, Shown(i) \union Shown(i + 1))
      /\ out[i - 1].arg \notin Named

(***************************************************************************)
(* The lines collected so far, in which the cursor over the list and the   *)
(* bitmap have to agree: each character once, in order, and ranges that a  *)
(* reader can complete.                                                    *)
(***************************************************************************)
LinesRight == ShownOnce /\ Ascending /\ RangesReadable

(***************************************************************************)
(* Every alternative of the list is drawn.                                 *)
(***************************************************************************)
EverythingShown ==
  pc = "done" =>
    /\ AllShown = CharsOf(list)
    /\ \A j \in DOMAIN list : ~IsChar(j) => \E i \in DOMAIN out : out[i] = NodeLine(j)

\* A range is cut off at the end of its class, where the list has the next
\* character too.
CutAtClassEnd(l) ==
  \E K \in Classes : \E c \in K :
    /\ c + 1 \notin K
    /\ c - 3..c + 1 \subseteq CharsOf(l)
    /\ c - 3 \in K

\* A character drawn alone makes p move on from whatever character it is at.
SomeAlone(l) ==
  \E c \in CharsOf(l) : AloneByName(c, NextOf(Char \ CharsOf(l), c))

InAscendingOrder(l) ==
  \A i, j \in DOMAIN l : i < j /\ l[i] # Other /\ l[j] # Other => l[i] <= l[j]

(***************************************************************************)
(* Every alternative is drawn, with two exceptions.  A range was cut off   *)
(* at the end of its class: hi is then the next character, bm_next skips   *)
(* it for good, and "end of list" is reached too soon.  Or a character     *)
(* drawn alone was not the one at p, and p passes over an alternative that *)
(* nothing comes back to.                                                  *)
(***************************************************************************)
EverythingShownOtherwise ==
  \/ CutAtClassEnd(list)
  \/ SomeAlone(list) /\ ~InAscendingOrder(list)
  \/ EverythingShown
=============================================================================
