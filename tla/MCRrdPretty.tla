---------------------------- MODULE MCRrdPretty -----------------------------
(***************************************************************************)
(* Small grammars for RrdPretty: all productions of a given weight over a  *)
(* few atoms, where an atom weighs one and a group one more than what is   *)
(* in it, and some larger productions aimed at one pass each.              *)
(***************************************************************************)
EXTENDS RrdPretty

A == Term("CS", <<"a">>, 1, 1)
B == Term("CS", <<"b">>, 1, 1)
C == Term("RULE", "c", 1, 1)
E == Term("EMPTY", "", 1, 1)
IA == Term("CI", <<"a">>, 1, 1)
IAB == Term("CI", <<"a", "b">>, 1, 1)
Group(alternatives, lo, hi) == Term("GROUP", alternatives, lo, hi)

RECURSIVE Weigh(_, _, _)
Weigh(w, atoms, counts) ==
  IF w = 0 THEN <<>>
  ELSE LET prev == Weigh(w - 1, atoms, counts)
           terms == IF w = 1 THEN atoms
                    ELSE {Group(a, q[1], q[2]) : a \in prev[w - 1].alts, q \in counts}
           seqs == {<<t>> : t \in terms} \union
                   UNION {{<<t>> \o s : t \in prev[v].terms, s \in prev[w - v].seqs} :
                            v \in 1..w - 1}
           alternatives == {<<s>> : s \in seqs} \union
                   UNION {{<<s>> \o a : s \in prev[v].seqs, a \in prev[w - v].alts} :
                            v \in 1..w - 1}
       IN  Append(prev, [terms |-> terms, seqs |-> seqs, alts |-> alternatives])

UpTo(w, atoms, counts) ==
  LET all == Weigh(w, atoms, counts) IN UNION {all[v].alts : v \in 1..w}

Once == <<1, 1>>
Opt  == <<0, 1>>
Star == <<0, 0>>
Plus == <<1, 0>>

(***************************************************************************)
(* RrdPretty_core: literals, groups, options and repetitions, as WSN and   *)
(* EBNF write them, with no empty term; and loops of two with something to *)
(* be rolled in on both sides.                                             *)
(***************************************************************************)
RollProductions ==
  {<< <<s, Group(<< <<t, u>> >>, 0, 0), v>> >> : s, t, u, v \in {A, B}}

\* Literals of either case, of up to three letters, with and without others.
CaseProductions ==
  UpTo(2, {A, Term("CI", <<"a", "1", "b">>, 1, 1), Term("CI", <<"b", "a", "a">>, 1, 1)}, {Once, Opt, Star})

CoreProductions == UpTo(4, {A, B}, {Once, Opt, Star}) \union RollProductions \union CaseProductions

(***************************************************************************)
(* RrdPretty_counts: counted repetitions and case-insensitive literals, as *)
(* in RBNF and ABNF, and empty terms.                                      *)
(***************************************************************************)
CountedProductions ==
  UpTo(3, {A, IA, IAB, C, E}, {Opt, Plus, <<2, 0>>, <<0, 2>>, <<2, 3>>})
    \union UpTo(3, {A, B, E}, {Once, Star})

\* Turns of a counted loop spelled out before and after it.  The shortest word
\* of such a production has seven symbols.
AtLeast(k, s) == Group(<<s>>, k, 0)
TurnProductions ==
  LET turns(y) == Group(<< <<A, AtLeast(2, <<y, A>>)>> >>, 1, 1)
  IN  {<< <<turns(y), y, A, t>> >> : y \in {A, B, C}, t \in {A, E}}
        \union {<< <<t, A, y, turns(y)>> >> : y \in {A, B, C}, t \in {A, E}}

\* More to roll into a loop than a limit of two has walks for, with work for
\* the later passes behind it.
Times(n, t) == [i \in 1..n |-> t]
LongProductions ==
  {<<Times(4, A) \o <<Group(<<Times(n, A)>>, 0, 0),
                      Group(<< <<B, Group(<< <<A, Group(<< <<A, B>> >>, 1, 1)>> >>, 1, 1)>> >>, 1, 1)>> >> :
     n \in 3..4}

CountsProductions == CountedProductions \union TurnProductions \union LongProductions

(***************************************************************************)
(* One production for each known disagreement.                             *)
(***************************************************************************)
OptionalOrLoop   == {<< <<E>>, <<Group(<< <<B>> >>, 0, 0)>>, <<C>> >>}
OptionInAlt      == {<< <<A>>, <<Group(<< <<B>> >>, 0, 1)>> >>}
TurnAfterLoop    == {<< <<Group(<< <<A, Group(<< <<B, A>> >>, 0, 0)>> >>, 1, 1), B, A, C>> >>}
TurnAtTheEnd     == {<< <<Group(<< <<A, Group(<< <<B, A>> >>, 0, 0)>> >>, 1, 1), B, A>> >>}
AtLeastTwoPairs  == {<< <<AtLeast(2, <<B, A>>)>> >>}
CountedInCounted == {<< <<Group(<< <<Group(<< <<B>> >>, 3, 3)>> >>, 2, 4)>> >>}
LoopBehindSkip   == {<< <<Group(<< <<E, Group(<< <<B, C>> >>, 0, 0)>> >>, 0, 0)>> >>}
LoopOfSkips      == {<< <<A, Group(<< <<E, E>> >>, 0, 0)>> >>}
=============================================================================
