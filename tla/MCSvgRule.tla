----------------------------- MODULE MCSvgRule ------------------------------
(***************************************************************************)
(* Small diagrams for SvgRule, and what is to be true of their drawings.   *)
(***************************************************************************)
EXTENDS SvgRule, SvgDraw

A == CS(<<100, 293>>)
I == CI(<<100, 293>>)
R == Name(<<80, 45>>)
P == Prose(<<125, 55, 80>>)
Hidden(n) == n @@ [invisible |-> TRUE]

\* Lists of nodes that weigh w together, and the nodes that weigh w.
RECURSIVE Weigh(_, _, _)
Weigh(w, atoms, counts) ==
  IF w = 0 THEN <<>>
  ELSE LET prev == Weigh(w - 1, atoms, counts)
           of   == IF w = 1 THEN {} ELSE prev[w - 1].lists
           nodes == IF w = 1 THEN atoms
                    ELSE {Alt(l) : l \in of} \union {Skippable(l) : l \in of}
                         \union {SeqOfNodes(l) : l \in of}
                         \union {Loop(l[1], l[2], c[1], c[2]) :
                                   l \in {m \in of : Len(m) = 2}, c \in counts}
           lists == {<<n>> : n \in nodes} \union
                    UNION {{<<n>> \o l : n \in prev[v].nodes, l \in prev[w - v].lists} : v \in 1..w - 1}
       IN  Append(prev, [nodes |-> nodes, lists |-> lists])

Some(w, atoms, counts) ==
  LET all == Weigh(w, atoms, counts) IN UNION {all[v].nodes : v \in 1..w}

\* A deep line going forward, so that what goes back may be lifted above it.
Deep(n) == Alt(<<n, A, NULL>>)
Backward == Some(2, {A, NULL}, {}) \union Some(3, {A}, {<<1, 0>>})
DeepLoops == {Loop(Deep(f), b, 0, hi) : f \in {A, Skippable(<<R>>), Hidden(R)}, b \in Backward, hi \in {0, 13}}
Ranges == {Alt(<<A, Tiles!ELLIPSIS, A>>), Skippable(<<R, A, Tiles!ELLIPSIS, A>>)}
HiddenNodes == {Hidden(n) : n \in Some(2, {I, R}, {<<2, 3>>})}

MCDiagrams ==
  Some(4, {R, NULL}, {<<0, 0>>})
    \union Some(3, {I, P, NULL}, {<<0, 0>>, <<2, 3>>})
    \union DeepLoops \union Ranges
    \union {SeqOfNodes(<<A, n>>) : n \in Ranges \union HiddenNodes}
    \union {Loop(n, m, 1, 1) : n \in Ranges \union HiddenNodes, m \in {NULL, R} \union HiddenNodes}

MCDrawings == {Drawing(n) : n \in MCDiagrams}

-----------------------------------------------------------------------------
tnode == drawing.tnode

AtFirst == pc = "consolidate" /\ paths = drawing.paths

(***************************************************************************)
(* What the viewport has been computed from is true: all that is drawn     *)
(* lies between the stations, within the rows of the tile, and the drawing *)
(* ends where the track to the station on the right begins.                *)
(* No length is negative, although "h -= 20" and the differences in        *)
(* centre() are unsigned: none of them wraps.                              *)
(***************************************************************************)
WithinRows ==
  AtFirst =>
    /\ drawing.x = Width(tnode) - 50 /\ drawing.y = Level(tnode)
    /\ \A q \in Range(drawing.paths) :
         /\ q.type # "Q" => {q.dx, q.dy} \subseteq Nat
         /\ {q.x, q.x + q.dx} \subseteq 10..Width(tnode) - 30
         /\ {q.y, q.y + q.dy} \subseteq 10..Level(tnode) + tnode.d * 10
    /\ \A b \in drawing.boxes : b.y - 10 >= 0 /\ b.y + 5 <= Level(tnode) + tnode.d * 10

(***************************************************************************)
(* No text is written over another, over the label of a loop, or over the  *)
(* track, and no piece of the track is drawn twice.  The box around a text *)
(* is 20 high, a label's text 10.                                          *)
(***************************************************************************)
Reach(b) == IF b.onTrack THEN 10 ELSE 5

Over(b, x1, x2, y1, y2) ==
  /\ x1 < b.x + b.w /\ x2 > b.x
  /\ y1 < b.y + Reach(b) /\ y2 > b.y - Reach(b)

Apart ==
  AtFirst =>
    /\ \A b \in drawing.boxes :
         /\ \A c \in drawing.boxes \ {b} : ~Over(b, c.x, c.x + c.w, c.y - Reach(c), c.y + Reach(c))
         /\ \A q \in Range(drawing.paths) :
              ~Over(b, q.x, q.x + q.dx, Min({q.y, q.y + q.dy}), Max({q.y, q.y + q.dy}))
    /\ \A i, j \in DOMAIN drawing.paths :
         i < j => Ink(drawing.paths[i]) \intersect Ink(drawing.paths[j]) = {}

(***************************************************************************)
(* The track leads from station to station without a gap: each segment     *)
(* begins and ends where another one does, on a bar, at a text or at a     *)
(* station, and each text has a segment on either side.                    *)
(***************************************************************************)
Joined ==
  AtFirst =>
    LET ends     == {Begins(q) : q \in Range(drawing.paths)} \union {Ends(q) : q \in Range(drawing.paths)}
        boxes    == {b \in drawing.boxes : b.onTrack}
        sides    == {<<b.x, b.y>> : b \in boxes} \union {<<b.x + b.w, b.y>> : b \in boxes}
        stations == {<<10, Level(tnode)>>, <<Width(tnode) - 30, Level(tnode)>>}
        touching(at) == {i \in DOMAIN drawing.paths :
                           LET q == drawing.paths[i]
                           IN  \/ at \in {Begins(q), Ends(q)}
                               \/ q.type = "V" /\ at[1] = q.x /\ at[2] \in q.y..q.y + q.dy}
    IN  /\ \A at \in ends \ (sides \union stations) : Cardinality(touching(at)) > 1
        /\ sides \union stations \subseteq ends

\* The same, unless the way back of a loop is lifted above it and has an
\* ascender of its own, which the tile's is counted with, and which nothing
\* is drawn for.
RECURSIVE LiftedHigh(_)
LiftedHigh(t) ==
  CASE t.type = "VLIST" -> \/ \E i \in DOMAIN t.lines : LiftedHigh(t.lines[i])
                           \/ t.b = <<"B", "I">> /\ t.lines[1].a > 0
    [] t.type = "HLIST" -> \E i \in DOMAIN t.tiles : LiftedHigh(t.tiles[i])
    [] t.type = "COMMENT" -> LiftedHigh(t.tile)
    [] OTHER -> FALSE

JoinedOtherwise == LiftedHigh(tnode) \/ Joined
=============================================================================
