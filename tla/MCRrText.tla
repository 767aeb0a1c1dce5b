------------------------------ MODULE MCRrText ------------------------------
(***************************************************************************)
(* Small diagrams for RrText: all nodes of a given weight over a few texts *)
(* of different kinds and widths, and some larger ones.                    *)
(***************************************************************************)
EXTENDS TextTiles

A  == CS(<<"a", "b">>)
Q  == CI(<<"quote", "nul">>)
R  == Name(<<"r">>)
P  == Prose(<<"p", "newline">>)
Hidden(n) == n @@ [invisible |-> TRUE]

\* Lists of nodes that weigh w together, and the nodes that weigh w.
RECURSIVE Weigh(_, _, _)
Weigh(w, atoms, counts) ==
  IF w = 0 THEN <<>>
  ELSE LET prev == Weigh(w - 1, atoms, counts)
           of   == IF w = 1 THEN {} ELSE prev[w - 1].lists
           nodes == IF w = 1 THEN atoms
                    ELSE {Alt(l) : l \in of} \union {Skippable(l) : l \in of}
                         \union {SeqOfNodes(l) : l \in of}
                         \union {Loop(l[1], l[2], c[1], c[2]) :
                                   l \in {m \in of : Len(m) = 2}, c \in counts}
           lists == {<<n>> : n \in nodes} \union
                    UNION {{<<n>> \o l : n \in prev[v].nodes, l \in prev[w - v].lists} : v \in 1..w - 1}
       IN  Append(prev, [nodes |-> nodes, lists |-> lists])

Some(w, atoms, counts) ==
  LET all == Weigh(w, atoms, counts) IN UNION {all[v].nodes : v \in 1..w}

\* A deep line going forward, with each small node on the way back; what is
\* drawn with an ellipsis; what is not drawn at all.
Deep(n) == Alt(<<n, A, NULL>>)
Backward == Some(3, {A, NULL}, {<<0, 0>>, <<1, 0>>})
DeepLoops == {Loop(Deep(f), b, 0, hi) : f \in {A, Skippable(<<R>>), Hidden(R)}, b \in Backward, hi \in {0, 13}}
Ranges == {Alt(<<A, Tiles!ELLIPSIS, A>>), Skippable(<<R, A, Tiles!ELLIPSIS, A>>)}
HiddenNodes == {Hidden(n) : n \in Some(2, {Q, R}, {<<2, 3>>})}

MCDiagrams ==
  Some(4, {A, R, NULL}, {<<0, 0>>})
    \union Some(3, {A, Q, P, R, NULL}, {<<0, 0>>, <<2, 3>>})
    \union Some(5, {R}, {<<3, 0>>})
    \union DeepLoops \union Ranges
    \union {SeqOfNodes(<<A, n>>) : n \in Ranges \union HiddenNodes}
    \union {Loop(n, m, 1, 1) : n \in Ranges \union HiddenNodes, m \in {NULL, R} \union HiddenNodes}

MCTnodes == {RrdToTnode(n) : n \in MCDiagrams}
MCParts  == WithParts(MCTnodes)
=============================================================================
