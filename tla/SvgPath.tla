------------------------------ MODULE SvgPath -------------------------------
(***************************************************************************)
(* src/src/svg/path.c: segments of the track as they are put into a list,  *)
(* newest first.  A segment goes from (x, y) by dx and dy, to the right    *)
(* (H), down (V), or round a corner (Q, by way of a control point).        *)
(***************************************************************************)
EXTENDS Integers, SequencesExt, FiniteSetsExt

Segment(type, x, y, dx, dy, control) ==
  [type |-> type, x |-> x, y |-> y, dx |-> dx, dy |-> dy, control |-> control]

(***************************************************************************)
(* What is drawn is made of: all tiles are on a grid of ten units, and     *)
(* what is centred on one of five.                                         *)
(***************************************************************************)
Lengths == {n \in Nat : n % 5 = 0}

Segments ==
  [type : {"H"}, x : Int, y : Int, dx : Lengths, dy : {0}, control : {<<>>}]
    \union [type : {"V"}, x : Int, y : Int, dx : {0}, dy : Lengths, control : {<<>>}]
    \union [type : {"Q"}, x : Int, y : Int, dx : Int, dy : Int, control : Int \X Int]

PathH(x, y, n)        == Segment("H", x, y, n, 0, <<>>)
PathV(x, y, n)        == Segment("V", x, y, 0, n, <<>>)
PathQ(x, y, r, dx, dy) == Segment("Q", x, y, dx, dy, r)

Begins(p) == <<p.x, p.y>>
Ends(p)   == <<p.x + p.dx, p.y + p.dy>>     \* svg_path_move

None == 0

\* svg_path_find_following: the first segment that begins there.
FindFollowing(paths, at) ==
  LET found == {i \in DOMAIN paths : Begins(paths[i]) = at}
  IN  IF found = {} THEN None ELSE Min(found)

(***************************************************************************)
(* svg_path_find_start: the first segment to which none of the list after  *)
(* it leads.  That an earlier one may is not looked at, and the last of    *)
(* the list always qualifies.                                              *)
(***************************************************************************)
FindStart(paths) ==
  Min({i \in DOMAIN paths : ~\E j \in i + 1..Len(paths) : Ends(paths[j]) = Begins(paths[i])})

\* The first segment that the loop of svg_path_consolidate can append to the
\* one at p: others that begin where it ends are passed over.
FindMergeable(paths, p) ==
  LET found == {i \in DOMAIN paths \ {p} : /\ Begins(paths[i]) = Ends(paths[p])
                                           /\ paths[i].type = paths[p].type}
  IN  IF found = {} THEN None ELSE Min(found)

\* Mutant: the segment appended stays in the list.
MergeKept(paths, p, q) ==
  [paths EXCEPT ![p].dx = @ + paths[q].dx, ![p].dy = @ + paths[q].dy]

\* Mutant: the segment that remains is not made longer.
MergeShort(paths, p, q) == RemoveAt(paths, q)

\* svg_path_merge
Merge(paths, p, q) ==
  RemoveAt([paths EXCEPT ![p].dx = @ + paths[q].dx, ![p].dy = @ + paths[q].dy], q)

\* What a segment leaves on the paper, in pieces of five units.
Ink(p) ==
  CASE p.type = "H" -> {<<"H", p.x + 5 * k, p.y>> : k \in 0..p.dx \div 5 - 1}
    [] p.type = "V" -> {<<"V", p.x, p.y + 5 * k>> : k \in 0..p.dy \div 5 - 1}
    [] p.type = "Q" -> {<<"Q", p.x, p.y, p.dx, p.dy, p.control>>}

InkOf(paths) == UNION {Ink(paths[i]) : i \in DOMAIN paths}
=============================================================================
