------------------------------ MODULE RrdNode -------------------------------
(***************************************************************************)
(* Railroad diagram nodes (src/src/rrd/node.c, node.h, list.c) as records, *)
(* and the language a node stands for, which is what the code must not     *)
(* change.  A node's "invisible" flag is abstracted away: no pass below    *)
(* branches on it except node_compare, where it only tells leaves apart.   *)
(***************************************************************************)
EXTENDS Naturals, SequencesExt

(***************************************************************************)
(* A literal's text is a sequence of letters.  Two letters have case, "1"  *)
(* stands for the characters that have none.                               *)
(***************************************************************************)
UpperOf == [a |-> "A", b |-> "B"]
Lower   == DOMAIN UpperOf
Upper   == Range(UpperOf)
IsAlpha(c) == c \in Lower \union Upper
ToUpper(c) == IF c \in Lower THEN UpperOf[c] ELSE c
ToLower(c) == IF c \in Upper THEN CHOOSE d \in Lower : UpperOf[d] = c ELSE c

NULL         == [type |-> "NULL"]               \* a NULL node pointer: skip
CS(s)        == [type |-> "CS", text |-> s]     \* case-sensitive literal
CI(s)        == [type |-> "CI", text |-> s]     \* case-insensitive literal
Name(r)      == [type |-> "RULE", name |-> r]
Prose(s)     == [type |-> "PROSE", prose |-> s]
Alt(l)       == [type |-> "ALT", list |-> l]
Skippable(l) == [type |-> "SKIPPABLE", list |-> l]
SeqOfNodes(l) == [type |-> "SEQ", list |-> l]

\* A loop is drawn "forward (backward forward)*"; min and max count the
\* passes through backward, and max = 0 is no upper bound.
Loop(f, b, lo, hi) ==
  [type |-> "LOOP", forward |-> f, backward |-> b, min |-> lo, max |-> hi]

IsText(n)  == n.type \in {"CS", "CI"}
IsList(n)  == n.type \in {"ALT", "SKIPPABLE", "SEQ"}
IsLoop(n)  == n.type = "LOOP"
NotNull(n) == n # NULL

LoopFlip(n) == [n EXCEPT !.forward = n.backward, !.backward = n.forward]

MakeSeq(n) == IF n.type = "SEQ" THEN n ELSE SeqOfNodes(<<n>>)

(***************************************************************************)
(* node_compare and list_compare: the same shape, literals of type CI      *)
(* compared without case, a loop's counts not compared at all.             *)
(***************************************************************************)
RECURSIVE Shape(_)
Shape(n) ==
  CASE IsList(n)     -> [n EXCEPT !.list = [i \in DOMAIN @ |-> Shape(@[i])]]
    [] IsLoop(n)     -> Loop(Shape(n.forward), Shape(n.backward), 0, 0)
    [] n.type = "CI" -> CI([i \in DOMAIN n.text |-> ToLower(n.text[i])])
    [] OTHER         -> n

NodeCompare(a, b) == Shape(a) = Shape(b)

(***************************************************************************)
(* Addressing a node inside a tree.  The children of a list node are       *)
(* numbered from 1; a loop's are forward (1) and backward (2).             *)
(***************************************************************************)
Children(n) ==
  CASE IsList(n) -> n.list
    [] IsLoop(n) -> <<n.forward, n.backward>>
    [] OTHER     -> <<>>

WithChild(n, i, c) ==
  CASE IsList(n) -> [n EXCEPT !.list[i] = c]
    [] IsLoop(n) -> IF i = 1 THEN [n EXCEPT !.forward = c]
                             ELSE [n EXCEPT !.backward = c]

At(n, path) == FoldLeft(LAMBDA m, i : Children(m)[i], n, path)

RECURSIVE Put(_, _, _)
Put(n, path, c) ==
  IF path = <<>> THEN c
  ELSE WithChild(n, Head(path), Put(Children(n)[Head(path)], Tail(path), c))

RECURSIVE Nodes(_)
Nodes(n) == {n} \union UNION {Nodes(c) : c \in Range(Children(n))}

(***************************************************************************)
(* The language of a node: the words of at most k symbols it stands for.   *)
(* A letter, a rule's name and a prose are one symbol each.                *)
(***************************************************************************)
Epsilon == {<<>>}

Concat(A, B, k) ==
  UNION {{u \o v : v \in {w \in B : Len(u) + Len(w) <= k}} : u \in A}

\* The words of base followed by lo..hi (hi = 0: any number) words of body.
\* k + lo rounds are enough for every word of at most k symbols.
RECURSIVE Rounds(_, _, _, _, _)
Rounds(base, body, lo, hi, k) ==
  LET more == Rounds(Concat(base, body, k), body, IF lo > 0 THEN lo - 1 ELSE 0,
                     hi - 1, k)
  IN  IF lo > 0 THEN more
      ELSE base \union (IF hi = 0 THEN {} ELSE more)

Repeat(base, body, lo, hi, k) ==
  Rounds(base, body, lo, IF hi = 0 THEN lo + k ELSE hi, k)

Spellings(n) ==
  IF n.type = "CS" THEN {n.text}
  ELSE {s \in TupleOf(Lower \union Upper \union {"1"}, Len(n.text)) :
          \A i \in DOMAIN s : ToLower(s[i]) = ToLower(n.text[i])}

RECURSIVE Lang(_, _)
Lang(n, k) ==
  CASE n.type = "NULL"      -> Epsilon
    [] IsText(n)            -> {s \in Spellings(n) : Len(s) <= k}
    [] n.type = "RULE"      -> {<<n.name>>}
    [] n.type = "PROSE"     -> {<<n.prose>>}
    [] n.type = "ALT"       -> UNION {Lang(c, k) : c \in Range(n.list)}
    [] n.type = "SKIPPABLE" -> Epsilon \union UNION {Lang(c, k) : c \in Range(n.list)}
    [] n.type = "SEQ"       -> FoldLeft(LAMBDA A, c : Concat(A, Lang(c, k), k),
                                        Epsilon, n.list)
    [] IsLoop(n)            -> LET f == Lang(n.forward, k)
                                   b == Lang(n.backward, k)
                               IN  Repeat(f, Concat(b, f, k), n.min, n.max, k)
=============================================================================
