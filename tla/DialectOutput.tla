---------------------------- MODULE DialectOutput ---------------------------
(***************************************************************************)
(* The outputs that write a grammar in a dialect of BNF: output.c of wsn,  *)
(* bnf, rbnf, iso-ebnf and abnf under src/src.  What an output prints is   *)
(* given here by the tokens that the lexer of the same dialect makes of    *)
(* it.  An output that gives up ends in a token FAILS.                     *)
(*                                                                         *)
(* Names are of letters, and no literal has quotes of both kinds.  That a  *)
(* term is invisible makes no difference here: where the dialect does not  *)
(* have the pragma such terms have been removed (Kgt), and the others      *)
(* write them like any other.                                              *)
(***************************************************************************)
EXTENDS Ast, FiniteSetsExt, SequencesExt

Printed(tok, buf) == <<[tok |-> tok, buf |-> buf]>>
Symbol(tok)       == Printed(tok, <<>>)
Fails(how)        == Printed("FAILS", how)
Chars(v)          == [i \in DOMAIN v |-> [tok |-> "CHAR", buf |-> <<v[i]>>]]
Flat(f)           == FlattenSeq(f)

DoubleQuote == 34

(***************************************************************************)
(* The table of brackets that WSN, EBNF and RBNF have.  The first row that *)
(* fits is taken, the row of groups being for groups only; of the two      *)
(* comparisons in the code both are of the minimum.                        *)
(***************************************************************************)
Row(min, max, s, e) == [min |-> min, max |-> max, s |-> s, e |-> e]

Rows(star) ==
  <<Row(1, 1, Symbol("STARTGROUP"), Symbol("ENDGROUP")),
    Row(1, 1, <<>>, <<>>),
    Row(0, 1, Symbol("STARTOPT"), Symbol("ENDOPT")),
    star>>

Fitting(t, rows) ==
  {i \in DOMAIN rows : (i = 1 => t.type = "GROUP") /\ t.min = rows[i].min /\ t.min = rows[i].min}

Bracketed(t, rows, body) ==
  IF Fitting(t, rows) = {} THEN Fails("assert")
  ELSE LET row == rows[Min(Fitting(t, rows))] IN row.s \o body \o row.e

(***************************************************************************)
(* WSN.                                                                    *)
(***************************************************************************)
WsnRows == Rows(Row(0, 0, Symbol("STARTSTAR"), Symbol("ENDSTAR")))

\* A quote is doubled.  Two quotes are EMPTY, though, where no literal has
\* begun.
RECURSIVE wsn_literal(_)
wsn_literal(v) ==
  IF v = <<>> THEN Symbol("EMPTY")
  ELSE IF v[1] = DoubleQuote THEN Symbol("EMPTY") \o wsn_literal(Tail(v))
  ELSE [i \in DOMAIN v |-> [tok |-> IF v[i] = DoubleQuote THEN "ESC" ELSE "CHAR", buf |-> <<v[i]>>]]
         \o Symbol("CS_LITERAL")

RECURSIVE wsn_output_alt(_)

wsn_output_term(t) ==
  IF t.max > 1 THEN Fails("assert")
  ELSE Bracketed(t, WsnRows,
         CASE t.type = "EMPTY"      -> Symbol("EMPTY")
           [] t.type = "RULE"       -> Printed("IDENT", t.v)
           [] t.type = "CS_LITERAL" -> wsn_literal(t.v)
           [] t.type \in {"CI_LITERAL", "PROSE"} -> Fails("unimplemented")
           [] t.type = "GROUP"      -> IF t.alts = <<>> THEN Fails("assert")
                                       ELSE wsn_output_alt(t.alts[1]))

wsn_output_alt(alt) == Flat([i \in DOMAIN alt.terms |-> wsn_output_term(alt.terms[i])])

\* The alternatives, each as output makes it, with ALT between them.
Alternatives(alts, output(_)) ==
  Flat([i \in DOMAIN alts |-> (IF i > 1 THEN Symbol("ALT") ELSE <<>>) \o output(alts[i])])

wsn_output_rule(r) ==
  Printed("IDENT", r.name) \o Symbol("EQUALS") \o Alternatives(r.alts, wsn_output_alt) \o Symbol("SEP")

(***************************************************************************)
(* EBNF.  The terms of an alternative are separated by commas, those of    *)
(* one in a group are not.                                                 *)
(***************************************************************************)
IsoRows == WsnRows

\* A quote is doubled, and ends the literal as well as it begins the next.
iso_literal(v) ==
  [i \in DOMAIN v |-> IF v[i] = DoubleQuote THEN [tok |-> "CS_LITERAL", buf |-> <<>>]
                      ELSE [tok |-> "CHAR", buf |-> <<v[i]>>]]
    \o Symbol("CS_LITERAL")

RECURSIVE iso_output_group(_)

iso_output_term(t) ==
  Bracketed(t, IsoRows,
    CASE t.type = "EMPTY"      -> iso_literal(<<>>)
      [] t.type = "RULE"       -> Printed("IDENT", t.v)
      [] t.type = "CS_LITERAL" -> iso_literal(t.v)
      [] t.type = "CI_LITERAL" -> Fails("unimplemented")
      [] t.type = "PROSE"      -> Chars(<<32>> \o t.v \o <<32>>) \o Symbol("PROSE")
      [] t.type = "GROUP"      -> iso_output_group(t.alts))

iso_output_group_alt(alt) == Flat([i \in DOMAIN alt.terms |-> iso_output_term(alt.terms[i])])

iso_output_group(alts) == Alternatives(alts, iso_output_group_alt)

iso_output_alt(alt) ==
  Flat([i \in DOMAIN alt.terms |->
          iso_output_term(alt.terms[i]) \o (IF i < Len(alt.terms) THEN Symbol("CAT") ELSE <<>>)])

\* Names with only a space between them are one name to the lexer.
JoinNames(tokens) ==
  FoldLeft(LAMBDA done, t :
             IF done # <<>> /\ Last(done).tok = "IDENT" /\ t.tok = "IDENT"
             THEN Front(done) \o Printed("IDENT", Last(done).buf \o <<32>> \o t.buf)
             ELSE Append(done, t),
           <<>>, tokens)

iso_output_rule(r) ==
  JoinNames(Printed("IDENT", r.name) \o Symbol("EQUALS") \o Alternatives(r.alts, iso_output_alt)
              \o Symbol("SEP"))

(***************************************************************************)
(* RBNF, and BNF, which has neither groups nor repetition.                 *)
(***************************************************************************)
RbnfRows == Rows(Row(0, 0, Symbol("STARTOPT"), Symbol("REP") \o Symbol("ENDOPT")))

AngleName(v) == Chars(v) \o Symbol("NAME")

RECURSIVE rbnf_output_group(_)

\* What is written for an empty term is UNKNOWN to the lexer.
rbnf_output_term(t) ==
  Bracketed(t, RbnfRows,
    CASE t.type = "EMPTY" -> Symbol("UNKNOWN")
      [] t.type = "RULE"  -> AngleName(t.v)
      [] t.type \in {"CS_LITERAL", "CI_LITERAL", "PROSE"} -> Fails("unimplemented")
      [] t.type = "GROUP" -> rbnf_output_group(t.alts))

rbnf_output_alt(alt) == Flat([i \in DOMAIN alt.terms |-> rbnf_output_term(alt.terms[i])])

rbnf_output_group(alts) == Alternatives(alts, rbnf_output_alt)

rbnf_output_rule(r) ==
  AngleName(r.name) \o Symbol("EQUALS") \o Alternatives(r.alts, rbnf_output_alt) \o Symbol("SEP")

bnf_output_term(t) ==
  IF t.type = "GROUP" \/ t.min # 1 \/ t.max # 1 THEN Fails("assert")
  ELSE CASE t.type = "EMPTY"      -> Symbol("EMPTY")
         [] t.type = "RULE"       -> AngleName(t.v)
         [] t.type = "CS_LITERAL" -> IF t.v = <<>> THEN Symbol("EMPTY")
                                     ELSE Chars(t.v) \o Symbol("CS_LITERAL")
         [] t.type \in {"CI_LITERAL", "PROSE"} -> Fails("unimplemented")

bnf_output_alt(alt) == Flat([i \in DOMAIN alt.terms |-> bnf_output_term(alt.terms[i])])

bnf_output_rule(r) ==
  AngleName(r.name) \o Symbol("EQUALS") \o Alternatives(r.alts, bnf_output_alt) \o Symbol("SEP")

(***************************************************************************)
(* ABNF.                                                                   *)
(***************************************************************************)
needesc(c) == c \notin 32..126 \/ c = DoubleQuote

\* Mutant: without the numbers.
abnf_output_stringPlain(tok, v) ==
  IF \E i \in DOMAIN v : needesc(v[i]) THEN Fails("unsupported")
  ELSE Chars(v) \o Symbol(IF \E i \in DOMAIN v : isalpha(v[i]) THEN tok ELSE "CI_LITERAL")

\* tok is that of the prefix; without a prefix a literal is of either case.
abnf_output_string(tok, v) ==
  IF Len(v) = 1 /\ needesc(v[1]) THEN Printed("HEXSTR", v)
  ELSE IF \E i \in DOMAIN v : needesc(v[i]) THEN Fails("unsupported")
  ELSE Chars(v) \o Symbol(IF \E i \in DOMAIN v : isalpha(v[i]) THEN tok ELSE "CI_LITERAL")

\* An alternative of one character, of whatever repetition.
char_terminal(alt) ==
  /\ Len(alt.terms) = 1
  /\ alt.terms[1].type = "CS_LITERAL"
  /\ Len(alt.terms[1].v) = 1

RECURSIVE abnf_output_group(_)

atomic(t) == (t.min = 1 /\ t.max = 1) \/ t.type # "GROUP"

abnf_output_repetition(min, max) ==
  LET count(n) == Printed("COUNT", <<n>>)
  IN  IF min = 1 /\ max = 1 THEN <<>>
      ELSE IF min # 0 /\ min = max THEN count(min)
      ELSE (IF min > 0 THEN count(min) ELSE <<>>) \o Symbol("REP")
             \o (IF max > 0 THEN count(max) ELSE <<>>)

abnf_output_term(t) ==
  LET body == CASE t.type = "EMPTY"      -> Symbol("CI_LITERAL")
                [] t.type = "RULE"       -> Printed("IDENT", t.v)
                [] t.type \in {"CI_LITERAL", "CS_LITERAL"} -> abnf_output_string(t.type, t.v)
                [] t.type = "PROSE"      -> Chars(<<32>> \o t.v \o <<32>>) \o Symbol("PROSE")
                [] t.type = "GROUP"      -> abnf_output_group(t.alts)
  IN  IF t.min = 0 /\ t.max = 1 THEN Symbol("STARTOPT") \o body \o Symbol("ENDOPT")
      ELSE abnf_output_repetition(t.min, t.max)
             \o (IF atomic(t) THEN body ELSE Symbol("STARTGROUP") \o body \o Symbol("ENDGROUP"))

abnf_output_terms(terms) == Flat([i \in DOMAIN terms |-> abnf_output_term(terms[i])])

\* The alternatives of one character are collated: where one of them stands,
\* all those up to it are written that are not yet, in order and with runs of
\* four or more as ranges.
RECURSIVE written_up_to(_, _)
written_up_to(s, c) ==
  IF c \notin s.bm THEN s
  ELSE LET lo == Min({n \in s.bm : n > s.hi})
           hi == Min({n \in lo + 1..CharMax + 1 : n \notin s.bm})
       IN  written_up_to(IF hi - lo <= 3
                         THEN [out |-> Append(s.out, abnf_output_string("CS_LITERAL", <<lo>>)),
                               bm |-> s.bm \ {lo}, hi |-> lo]
                         ELSE [out |-> Append(s.out, Printed("HEXRANGE", <<lo, hi - 1>>)),
                               bm |-> s.bm \ (lo..hi - 1), hi |-> hi],
                         c)

abnf_output_alts(alts) ==
  LET chars == {alts[i].terms[1].v[1] : i \in {j \in DOMAIN alts : char_terminal(alts[j])}}
      next(s, alt) == IF char_terminal(alt) THEN written_up_to(s, alt.terms[1].v[1])
                      ELSE [s EXCEPT !.out = Append(@, abnf_output_terms(alt.terms))]
  IN  Alternatives(FoldLeft(next, [out |-> <<>>, bm |-> chars, hi |-> -1], alts).out,
                   LAMBDA ts : ts)

\* A group that has no alternatives is a null pointer here.
abnf_output_group(alts) ==
  CASE Len(alts) = 0 -> Fails("crash")
    [] Len(alts) = 1 -> abnf_output_alts(alts)
    [] Len(alts) > 1 -> Symbol("STARTGROUP") \o abnf_output_alts(alts) \o Symbol("ENDGROUP")

abnf_output_rule(r) ==
  Printed("IDENT", r.name) \o Symbol("EQUALS") \o abnf_output_alts(r.alts) \o Symbol("SEP")

(***************************************************************************)
(* <dialect>_output.                                                       *)
(***************************************************************************)
Output(d, rules) ==
  Flat([i \in DOMAIN rules |->
     CASE d = "wsn"      -> wsn_output_rule(rules[i])
       [] d = "bnf"      -> bnf_output_rule(rules[i])
       [] d = "rbnf"     -> rbnf_output_rule(rules[i])
       [] d = "iso-ebnf" -> iso_output_rule(rules[i])
       [] d = "abnf"     -> abnf_output_rule(rules[i])])

\* How the first output to give up does so, if any does.
Failure(tokens) ==
  LET fails == {i \in DOMAIN tokens : tokens[i].tok = "FAILS"}
  IN  IF fails = {} THEN "none" ELSE tokens[Min(fails)].buf
=============================================================================
