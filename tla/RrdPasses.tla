----------------------------- MODULE RrdPasses ------------------------------
(***************************************************************************)
(* The rewriting passes of src/src/rrd/pretty_*.c.  Each is a function     *)
(*     rrd_pretty_X(int *changed, struct node **n)                         *)
(* that looks at one node (and its children) and may replace it.  Here a   *)
(* pass takes the node and the value of *changed, which all the visits of  *)
(* one walk share, and returns                                             *)
(*     node     what the visited pointer holds afterwards,                 *)
(*     changed  the new value of *changed,                                 *)
(*     crash    whether an assertion failed or NULL was dereferenced.      *)
(***************************************************************************)
EXTENDS RrdNode

LOCAL Same(n, ch) == [node |-> n, changed |-> ch,   crash |-> FALSE]
LOCAL Becomes(n)  == [node |-> n, changed |-> TRUE, crash |-> FALSE]
LOCAL Crash(n)    == [node |-> n, changed |-> TRUE, crash |-> TRUE]

(***************************************************************************)
(* pretty_collapse.c: an alt or a seq of one element is that element.      *)
(***************************************************************************)
Collapse(n, ch) ==
  IF n.type \in {"ALT", "SEQ"} /\ Len(n.list) = 1 THEN Becomes(n.list[1])
  ELSE Same(n, ch)

(***************************************************************************)
(* pretty_skippable.c: an alt with a skip in it becomes a skippable alt;   *)
(* skips inside a skippable alt or a seq are dropped.                      *)
(***************************************************************************)
SkippablePass(n, ch) ==
  IF IsList(n) /\ NULL \in Range(n.list)
  THEN IF n.type = "ALT" THEN Becomes(Skippable(n.list))
       ELSE Becomes([n EXCEPT !.list = SelectSeq(@, NotNull)])
  ELSE Same(n, ch)

(***************************************************************************)
(* pretty_redundant.c: of a skippable alt of two, one of them a loop with  *)
(* an empty half, the loop alone is kept, its body turned to the backward  *)
(* side; a loop around a loop is reduced to the inner one when the outer   *)
(* and the inner one have an empty half each.                              *)
(***************************************************************************)
RedundantAlt(n, ch) ==
  LET loops == {i \in DOMAIN n.list : IsLoop(n.list[i])}
      l == n.list[Max(loops)]
  IN  IF n.type # "SKIPPABLE" \/ Len(n.list) # 2 \/ loops = {} THEN Same(n, ch)
      ELSE IF l.forward = NULL THEN Becomes(l)
      ELSE IF l.backward = NULL THEN Becomes(LoopFlip(l))
      ELSE Same(n, ch)

RedundantLoop(n, ch) ==
  LET f == n.forward
      b == n.backward
  IN  CASE IsLoop(f) /\ b = NULL /\ NULL \in {f.forward, f.backward} -> Becomes(f)
        [] IsLoop(b) /\ f = NULL /\ b.forward = NULL  -> Becomes(b)
        [] IsLoop(b) /\ f = NULL /\ b.forward # NULL /\ b.backward = NULL ->
             Becomes(LoopFlip(b))
        [] OTHER -> Same(n, ch)

Redundant(n, ch) ==
  IF n.type \in {"ALT", "SKIPPABLE"} THEN RedundantAlt(n, ch)
  ELSE IF IsLoop(n) THEN RedundantLoop(n, ch)
  ELSE Same(n, ch)

(***************************************************************************)
(* pretty_nested.c: the elements of an alt inside an alt, or of a seq      *)
(* inside a seq, are spliced into the outer list; what is spliced in is    *)
(* looked at again.  A skippable alt is spliced into a plain one like any. *)
(***************************************************************************)
RECURSIVE Splice(_, _)
Splice(list, types) ==
  FlattenSeq([i \in DOMAIN list |->
                IF list[i].type \in types THEN Splice(list[i].list, types)
                ELSE <<list[i]>>])

\* Mutant: an alt takes up the plain alts in it only.
NestedPlain(n, ch) ==
  LET types == IF n.type = "SEQ" THEN {"SEQ"} ELSE {"ALT"}
  IN  IF IsList(n) /\ \E c \in Range(n.list) : c.type \in types
      THEN Becomes([n EXCEPT !.list = Splice(@, types)])
      ELSE Same(n, ch)

Nested(n, ch) ==
  LET types == IF n.type = "SEQ" THEN {"SEQ"} ELSE {"ALT", "SKIPPABLE"}
  IN  IF IsList(n) /\ \E c \in Range(n.list) : c.type \in types
      THEN Becomes([n EXCEPT !.list = Splice(@, types)])
      ELSE Same(n, ch)

(***************************************************************************)
(* pretty_ci.c: in an alt whose literals are all one character long, a     *)
(* case-insensitive letter becomes the lower-case letter, and the          *)
(* upper-case ones follow at the end of the list, last one first.          *)
(***************************************************************************)
CiAlt(n, ch) ==
  LET letter(c) == c.type = "CI" /\ IsAlpha(c.text[1])
      letters   == SelectSeq(n.list, letter)
      lower(c)  == CS(<<ToLower(c.text[1])>>)
      upper(c)  == CS(<<ToUpper(c.text[1])>>)
  IN  IF \/ \E c \in Range(n.list) : IsText(c) /\ Len(c.text) # 1
         \/ letters = <<>>
      THEN Same(n, ch)
      ELSE Becomes([n EXCEPT !.list =
             [i \in DOMAIN @ |-> IF letter(@[i]) THEN lower(@[i]) ELSE @[i]]
             \o Reverse([i \in DOMAIN letters |-> upper(letters[i])])])

CiPass(n, ch) ==
  IF n.type \in {"ALT", "SKIPPABLE"} THEN CiAlt(n, ch) ELSE Same(n, ch)

(***************************************************************************)
(* The next two passes look at the loops of a seq from left to right, try  *)
(* to absorb what stands before or after the loop, and leave the seq as    *)
(* soon as *changed is set, be it by this visit or by an earlier one.  An  *)
(* attempt returns the new list, whether it hit, and whether it crashed.   *)
(* A miss still leaves the loop's halves wrapped into seqs of one.         *)
(***************************************************************************)
LOCAL Miss(list, i, loop) ==
  [list |-> ReplaceAt(list, i, loop), hit |-> FALSE, crash |-> FALSE]
LOCAL BackWrapped(loop) == [loop EXCEPT !.backward = MakeSeq(@)]
LOCAL Hit(list) == [list |-> list, hit |-> TRUE, crash |-> FALSE]
LOCAL Failed(list) == [list |-> list, hit |-> FALSE, crash |-> TRUE]

\* The elements of list without those at positions from..to.
Cut(list, from, to) ==
  SubSeq(list, 1, from - 1) \o SubSeq(list, to + 1, Len(list))

\* Mutant: the emptied seq left in place.
SeqOrEmpty(list) == SeqOfNodes(list)

\* "we don't have empty lists": a seq that ran empty becomes a skip.
SeqOrNull(list) == IF list = <<>> THEN NULL ELSE SeqOfNodes(list)

WithoutLeadingSkip(list) == IF Head(list) = NULL THEN Tail(list) ELSE list

(***************************************************************************)
(* pretty_roll.c, roll_prefix and roll_suffix: the node before the loop at *)
(* i equals the last one on the way back (the node after it the first one):*)
(* that one moves to the front (the end) of the forward path, and the      *)
(* other is destroyed.                                                     *)
(***************************************************************************)
RollPrefix(list, i) ==
  LET loop == list[i]
      b == MakeSeq(loop.backward).list
      f == MakeSeq(loop.forward).list
  IN  IF b = <<>> \/ ~NodeCompare(list[i - 1], Last(b))
      THEN Miss(list, i, BackWrapped(loop))
      ELSE IF f = <<>> THEN Failed(list)
      ELSE Hit(Cut(ReplaceAt(list, i,
             [loop EXCEPT !.forward = SeqOfNodes(<<Last(b)>> \o WithoutLeadingSkip(f)),
                          !.backward = SeqOrNull(Front(b))]), i - 1, i - 1))

RollSuffix(list, i) ==
  LET loop == list[i]
      b == MakeSeq(loop.backward).list
      f == MakeSeq(loop.forward).list
  IN  IF b = <<>> \/ ~NodeCompare(list[i + 1], Head(b))
      THEN Miss(list, i, BackWrapped(loop))
      ELSE IF f = <<>> THEN Failed(list)
      ELSE Hit(Cut(ReplaceAt(list, i,
             [loop EXCEPT !.forward = SeqOfNodes(WithoutLeadingSkip(f) \o <<Head(b)>>),
                          !.backward = SeqOrNull(Tail(b))]), i + 1, i + 1))

(***************************************************************************)
(* pretty_affix.c: a whole turn of the loop spelled out just after it      *)
(* (backward then forward) or just before it (forward then backward) is    *)
(* deleted, and the loop's counts are incremented, those that are not 0.   *)
(* A match that runs to the end of the seq makes collapse_suffix read the  *)
(* node of a NULL list element.  Loops with no way back are left alone.    *)
(***************************************************************************)
\* Mutant: the deleted turn is not made up for.
LoopIncNone(loop) == loop

LoopInc(loop) ==
  [loop EXCEPT !.min = IF @ # 0 THEN @ + 1 ELSE 0,
               !.max = IF @ # 0 THEN @ + 1 ELSE 0]

LOCAL Wrapped(loop) ==
  IF loop.backward = NULL THEN loop
  ELSE [loop EXCEPT !.forward = MakeSeq(@), !.backward = MakeSeq(@)]

CollapseSuffix(list, i) ==
  LET loop == Wrapped(list[i])
      turn == loop.backward.list \o loop.forward.list
      last == i + Len(turn)
      matches == /\ last <= Len(list)
                 /\ \A j \in DOMAIN turn : /\ list[i + j] # NULL
                                          /\ NodeCompare(list[i + j], turn[j])
  IN  IF list[i].backward = NULL THEN Miss(list, i, loop)
      ELSE IF <<>> \in {loop.forward.list, loop.backward.list} THEN Failed(list)
      ELSE IF ~matches THEN Miss(list, i, loop)
      ELSE IF last = Len(list) THEN Failed(list)
      ELSE Hit(Cut(ReplaceAt(list, i, LoopInc(loop)), i + 1, last))

CollapsePrefix(list, i) ==
  LET loop == Wrapped(list[i])
      turn == loop.forward.list \o loop.backward.list
      first == i - Len(turn)
      matches == /\ first >= 1
                 /\ \A j \in DOMAIN turn : NodeCompare(list[first + j - 1], turn[j])
  IN  IF list[i].backward = NULL THEN Miss(list, i, loop)
      ELSE IF <<>> \in {loop.forward.list, loop.backward.list} THEN Failed(list)
      ELSE IF ~matches THEN Miss(list, i, loop)
      ELSE Hit(Cut(ReplaceAt(list, i, LoopInc(loop)), first, i - 1))

\* One sweep over the loops of a seq that have a side to look at, up to the
\* first attempt that ends it; the loops before that one are left wrapped.
Sweep(list, ch, sides, Wrap(_), Attempt(_, _)) ==
  LET loops == {i \in sides : IsLoop(list[i])}
      at(i) == [j \in 1..i - 1 |-> IF j \in loops THEN Wrap(list[j]) ELSE list[j]]
                 \o SubSeq(list, i, Len(list))
      ends  == {i \in loops : ch \/ Attempt(at(i), i).hit \/ Attempt(at(i), i).crash}
  IN  IF ends = {} THEN [list |-> at(Len(list) + 1), changed |-> ch, crash |-> FALSE]
      ELSE LET r == Attempt(at(Min(ends)), Min(ends))
           IN  [list |-> r.list, changed |-> ch \/ r.hit, crash |-> r.crash]

LOCAL Swept(s) == [node |-> SeqOfNodes(s.list), changed |-> s.changed, crash |-> s.crash]

Roll(n, ch) ==
  IF n.type # "SEQ" THEN Same(n, ch)
  ELSE LET r == Sweep(n.list, ch, 2..Len(n.list), BackWrapped, RollPrefix)
       IN  Swept(IF r.crash THEN r
                 ELSE Sweep(r.list, r.changed, 1..Len(r.list) - 1, BackWrapped, RollSuffix))

Affixes(n, ch) ==
  IF n.type # "SEQ" THEN Same(n, ch)
  ELSE LET r == Sweep(n.list, ch, DOMAIN n.list, Wrapped, CollapseSuffix)
       IN  Swept(IF r.crash THEN r
                 ELSE Sweep(r.list, r.changed, DOMAIN r.list, Wrapped, CollapsePrefix))

(***************************************************************************)
(* pretty_bottom.c: a loop whose only body is on the way back, and is more *)
(* than a plain symbol, is turned over and put beside a skip.  The list of *)
(* an alt on the way back is read without a test for skips.                *)
(***************************************************************************)
Bottom(n, ch) ==
  LET b == n.backward
      isAlt == b.type \in {"ALT", "SKIPPABLE"}
      compound(c) == IsList(c) \/ IsLoop(c)
  IN  IF ~IsLoop(n) THEN Same(n, ch)
      ELSE IF n.forward # NULL \/ b.type \in {"NULL", "LOOP", "CI", "CS", "RULE"}
      THEN Same(n, ch)
      ELSE IF isAlt /\ NULL \in Range(b.list) THEN Crash(n)
      ELSE IF isAlt /\ ~\E c \in Range(b.list) : compound(c) THEN Same(n, ch)
      ELSE Becomes(Alt(<<NULL, LoopFlip(n)>>))
=============================================================================
