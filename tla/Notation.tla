------------------------------ MODULE Notation ------------------------------
(***************************************************************************)
(* What the notations of the dialects say: every way to spell a grammar in *)
(* one of them.  This is the reference that the parsers and the outputs    *)
(* are held against; it follows the grammars in src/src/<dialect>/         *)
(* parser.sid and the descriptions of repetition in src/src/ast.h, and not *)
(* the code of either.                                                     *)
(*                                                                         *)
(* A spelling is a sequence of lexemes: a token, with the text it stands   *)
(* for where it has one.  A literal, a name in angle brackets and prose    *)
(* are one lexeme each.                                                    *)
(***************************************************************************)
EXTENDS Ast, FiniteSets, SequencesExt

\* Any number of times, n times over, for n up to this one.
MaxTimes == 3

Lexeme(tok, v) == [tok |-> tok, v |-> v]
Plain(tok)     == <<Lexeme(tok, <<>>)>>

Cat(S, T) == {s \o t : s \in S, t \in T}

\* The concatenations of one member of each set, with one of sep between.
Joined(sets, sep) ==
  IF sets = <<>> THEN {<<>>}
  ELSE FoldLeft(LAMBDA all, next : Cat(Cat(all, sep), next), Head(sets), Tail(sets))

Between(opening, S, closing) == Cat({Plain(opening)}, Cat(S, {Plain(closing)}))

\* The limits a count and a star in front of an element of ABNF may spell.
AbnfRepeats(min, max) ==
  LET n(k) == <<Lexeme("COUNT", <<k>>)>>
      star == Plain("REP")
  IN  (IF max > 0 THEN {n(min) \o star \o n(max)} ELSE {n(min) \o star})
        \union (IF min > 0 THEN {} ELSE IF max > 0 THEN {star \o n(max)} ELSE {star})
        \union (IF min = max /\ max > 0 THEN {n(min)} ELSE {})
        \union (IF min = 1 /\ max = 1 THEN {<<>>} ELSE {})

\* The characters from one to another, if that is what a group has.
RangeSpellings(alts) ==
  IF /\ alts # <<>>
     /\ \A i \in DOMAIN alts :
          /\ Len(alts[i].terms) = 1
          /\ LET t == alts[i].terms[1]
             IN  t.type = "CS_LITERAL" /\ Len(t.v) = 1 /\ t.min = 1 /\ t.max = 1
                   /\ t.v[1] = alts[1].terms[1].v[1] - (i - 1)
  THEN {<<Lexeme("RANGE", <<alts[Len(alts)].terms[1].v[1], alts[1].terms[1].v[1]>>)>>}
  ELSE {}

RECURSIVE AltsSpellings(_, _)

\* A group once, at most once, and any number of times.
Once(d, t) ==
  IF t.alts = <<>> THEN {}
  ELSE Between("STARTGROUP", AltsSpellings(d, t.alts), "ENDGROUP")
         \union (IF d = "abnf" THEN RangeSpellings(t.alts) ELSE {})

Optional(d, t) ==
  IF t.alts = <<>> THEN {} ELSE Between("STARTOPT", AltsSpellings(d, t.alts), "ENDOPT")

Starred(d, t) ==
  IF t.alts = <<>> THEN {}
  ELSE IF d = "rbnf" THEN Between("STARTOPT", Cat(AltsSpellings(d, t.alts), {Plain("REP")}), "ENDOPT")
  ELSE Between("STARTSTAR", AltsSpellings(d, t.alts), "ENDSTAR")

\* Prose that says kgt:invisible or kgt:visible, each one character here.
Pragmas == {<<Lexeme("PROSE", <<256>>)>>, <<Lexeme("PROSE", <<257>>)>>}

\* A term, its repetition left aside.
ElementSpellings(d, t) ==
  CASE t.type = "EMPTY" ->
        (CASE d = "iso-ebnf"       -> {<<>>} \union Pragmas
           [] d = "abnf"           -> Pragmas
           [] d = "rbnf"           -> {}
           [] d \in {"wsn", "bnf"} -> {Plain("EMPTY")})
    [] t.type = "RULE" -> {<<Lexeme(IF d \in {"bnf", "rbnf"} THEN "NAME" ELSE "IDENT", t.v)>>}
    [] t.type = "CS_LITERAL" -> IF d = "rbnf" \/ (d \in {"wsn", "bnf"} /\ t.v = <<>>) THEN {}
                               ELSE {<<Lexeme("CS_LITERAL", t.v)>>}
    [] t.type = "CI_LITERAL" -> IF d = "abnf" THEN {<<Lexeme("CI_LITERAL", t.v)>>} ELSE {}
    [] t.type = "PROSE" -> IF d \in {"iso-ebnf", "abnf"} THEN {<<Lexeme("PROSE", t.v)>>} ELSE {}
    [] t.type = "GROUP" -> Once(d, t)

TermSpellings(d, t) ==
  LET times(n, S) == Cat({<<Lexeme("COUNT", <<n>>)>> \o Plain("STAR")}, S)
      group == t.type = "GROUP"
  IN  CASE d = "bnf" -> IF t.min = 1 /\ t.max = 1 /\ ~group THEN ElementSpellings(d, t) ELSE {}
        [] d = "abnf" ->
             Cat(AbnfRepeats(t.min, t.max), ElementSpellings(d, t))
               \union (IF group /\ t.min = 0 /\ t.max = 1 THEN Optional(d, t) ELSE {})
        [] d = "iso-ebnf" ->
             (IF t.min = 1 /\ t.max = 1 THEN ElementSpellings(d, t) ELSE {})
               \union (IF t.min = t.max /\ t.max > 0 THEN times(t.max, ElementSpellings(d, t)) ELSE {})
               \union (IF group /\ t.min = 0 /\ t.max = 1 THEN Optional(d, t) ELSE {})
               \union (IF group /\ t.min = 0 /\ t.max > 0 THEN times(t.max, Optional(d, t)) ELSE {})
               \union (IF group /\ t.min = 0 /\ t.max = 0
                       THEN Starred(d, t) \union UNION {times(n, Starred(d, t)) : n \in 1..MaxTimes}
                       ELSE {})
        [] OTHER ->
             CASE t.min = 1 /\ t.max = 1          -> ElementSpellings(d, t)
               [] group /\ t.min = 0 /\ t.max = 1 -> Optional(d, t)
               [] group /\ t.min = 0 /\ t.max = 0 -> Starred(d, t)
               [] OTHER                           -> {}

AltsSpellings(d, alts) ==
  LET terms(a) == Joined([i \in DOMAIN a.terms |-> TermSpellings(d, a.terms[i])],
                         {IF d = "iso-ebnf" THEN Plain("CAT") ELSE <<>>})
  IN  Joined([i \in DOMAIN alts |-> terms(alts[i])], {Plain("ALT")})

RuleSpellings(d, r) ==
  Cat({<<Lexeme(IF d \in {"bnf", "rbnf"} THEN "NAME" ELSE "IDENT", r.name), Lexeme("EQUALS", <<>>)>>},
      AltsSpellings(d, r.alts))

\* The last rule need not end in a separator, save in WSN and EBNF.
Spellings(d, rules) ==
  Cat(Joined([i \in DOMAIN rules |-> RuleSpellings(d, rules[i])], {Plain("SEP")}),
      IF d \in {"wsn", "iso-ebnf"} THEN {Plain("SEP")} ELSE {<<>>, Plain("SEP")})

\* What a spelling in tokens is in lexemes.
Closing == {"NAME", "CI_LITERAL", "CS_LITERAL", "PROSE"}

\* Numbers are another way to write a literal.
Base(tok) == CASE tok \in {"BINSTR", "DECSTR", "HEXSTR"}       -> "CS_LITERAL"
               [] tok \in {"BINRANGE", "DECRANGE", "HEXRANGE"} -> "RANGE"
               [] OTHER                                        -> tok

Lexemes(tokens) ==
  LET add(s, t) ==
        CASE t.tok \in {"CHAR", "ESC"} -> [s EXCEPT !.text = Append(@, t.buf[1])]
          [] t.tok \in Closing         -> [all |-> Append(s.all, Lexeme(t.tok, s.text)), text |-> <<>>]
          [] OTHER                     -> [s EXCEPT !.all = Append(@, Lexeme(Base(t.tok), t.buf))]
  IN  FoldLeft(add, [all |-> <<>>, text |-> <<>>], tokens).all
=============================================================================
