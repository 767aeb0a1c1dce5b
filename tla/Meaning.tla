------------------------------- MODULE Meaning ------------------------------
(***************************************************************************)
(* What a grammar means: the words each of its rules describes, up to a    *)
(* given length.  The letters of a word are characters, and references and *)
(* prose, which stand for themselves.                                      *)
(***************************************************************************)
EXTENDS Ast, SequencesExt

CONSTANT WordLength

ASSUME MeaningAssumption == WordLength \in Nat

Concatenated(L, M) == {w \in {u \o v : u \in L, v \in M} : Len(w) <= WordLength}

\* The words of L, min to max times; up to any number of times if max is 0.
Times(L, min, max) ==
  LET power[n \in 0..min + max + WordLength] ==
        IF n = 0 THEN {<<>>} ELSE Concatenated(power[n - 1], L)
  IN  UNION {power[n] : n \in min..(IF max = 0 THEN min + WordLength ELSE max)}

\* The letters of a literal of either case may each be of one or the other.
LiteralWords(t) ==
  LET ways(c) == IF t.type = "CI_LITERAL" THEN {tolower(c), toupper(c)} ELSE {c}
  IN  FoldLeft(LAMBDA L, c : Concatenated(L, {<<<<"CHAR", <<d>>>>>> : d \in ways(c)}), {<<>>}, t.v)

RECURSIVE Words(_)

TermWords(t) ==
  Times(CASE t.type = "GROUP" -> Words(t.alts)
          [] t.type = "EMPTY" -> {<<>>}
          [] t.type \in {"CS_LITERAL", "CI_LITERAL"} -> LiteralWords(t)
          [] OTHER -> {<<<<t.type, t.v>>>>},
        t.min, t.max)

\* A list of alternatives.
Words(alts) ==
  UNION {FoldLeft(LAMBDA L, t : Concatenated(L, TermWords(t)), {<<>>}, alts[i].terms) : i \in DOMAIN alts}

Means(rules) == [i \in DOMAIN rules |-> <<rules[i].name, Words(rules[i].alts)>>]
=============================================================================
