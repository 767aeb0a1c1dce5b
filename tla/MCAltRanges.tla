---------------------------- MODULE MCAltRanges -----------------------------
(***************************************************************************)
(* A byte of 11 values laid out like ASCII in small: three control         *)
(* characters, a named one, "/", the digits 5..8, ":" and a letter.        *)
(* Four digits are the shortest run that is drawn with an ellipsis.        *)
(***************************************************************************)
EXTENDS AltRanges, SequencesExt

CONSTANT Chars   \* the characters that occur in the lists

MCClasses == {5..8, {10}}
MCNamed   == {3}

\* All lists of up to four alternatives, and every set of characters in its
\* order and in reverse, with another node first, last, or in the middle.
Sorted(S) == [i \in 1..Cardinality(S) |->
                CHOOSE c \in S : Cardinality({d \in S : d < c}) = i - 1]
Ordered == {Sorted(S) : S \in SUBSET Chars}
MCLists ==
  SeqOf(Chars \union {Other}, 4)
    \union Ordered \union {Reverse(s) : s \in Ordered}
    \union {Append(s, Other) : s \in Ordered}
    \union {<<Other>> \o s : s \in Ordered}
    \union {InsertAt(s, (Len(s) \div 2) + 1, Other) : s \in Ordered}
=============================================================================
