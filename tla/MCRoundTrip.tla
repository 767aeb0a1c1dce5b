----------------------------- MODULE MCRoundTrip ----------------------------
(***************************************************************************)
(* Small grammars for RoundTrip, and what writing and reading them is to   *)
(* keep.                                                                   *)
(***************************************************************************)
EXTENDS RoundTrip

a == <<97>>
b == <<98>>

Alt(terms)    == ast_make_alt(FALSE, terms)
Ref(n)        == ast_make_rule_term(FALSE, n)
Cs(v)         == ast_make_literal_term(FALSE, v, FALSE)
Ci(v)         == ast_make_literal_term(FALSE, v, TRUE)
GroupOf(alts) == ast_make_group_term(FALSE, alts)
Empty         == ast_make_empty_term(FALSE)
Prose         == ast_make_prose_term(FALSE, a)

Simple == {Empty, Ref(b), Cs(a), Cs(<<97, 98>>), Cs(<<>>), Cs(<<98, 34>>), Cs(<<34, 98>>), Cs(<<34>>),
           Cs(<<49>>), Ci(a), Ci(<<97, 49>>), Prose}

Groups == {GroupOf(alts) : alts \in
             {<<>>, <<Alt(<<Ref(b)>>)>>, <<Alt(<<Ref(b)>>), Alt(<<Cs(a)>>)>>,
              <<Alt(<<Ref(a), Ref(b)>>)>>, <<Alt(<<Cs(b)>>), Alt(<<Cs(a)>>)>>}}

\* Literals of either case with as many letters as there may be, and with
\* more.
Ci2  == Ci(<<97, 50, 98>>)
Long == Ci(<<97, 98, 97>>)

Nested == {GroupOf(<<Alt(<<GroupOf(<<Alt(<<Ref(b)>>)>>)>>)>>),
           Ci2, Long, GroupOf(<<Alt(<<Ci2>>), Alt(<<Cs(b), Ci(a)>>)>>),
           GroupOf(<<Alt(<<Ref(b)>>), Alt(<<Long>>)>>),
           GroupOf(<<Alt(<<Long>>), Alt(<<Ci(a)>>)>>),
           GroupOf(<<Alt(<<Repeated(GroupOf(<<Alt(<<Cs(a)>>)>>), 0, 1), Cs(b)>>)>>)}

\* Least and most times; 0 times at most is no limit.
Limits == {<<1, 1>>, <<0, 1>>, <<0, 0>>, <<1, 0>>, <<2, 2>>, <<0, 2>>, <<1, 2>>}

Terms == {Repeated(t, l[1], l[2]) : t \in Simple \union Groups, l \in Limits} \union Nested

\* Those that are put next to each other.
Few == {Ref(b), Cs(a), Empty, GroupOf(<<Alt(<<Ref(b)>>), Alt(<<Ref(a)>>)>>),
        Repeated(GroupOf(<<Alt(<<Ref(b)>>)>>), 0, 0), Repeated(Cs(b), 0, 2)}

Pairs == {pair \in Few \X Few : pair[1].type # "GROUP" \/ pair[2].type # "GROUP"}

OneRule(alts) == <<ast_make_rule(a, alts)>>

ByHandAsts ==
  {OneRule(<<Alt(<<t>>)>>) : t \in Terms}
    \union {OneRule(<<Alt(pair)>>) : pair \in Pairs}
    \union {OneRule(<<Alt(<<pair[1]>>), Alt(<<pair[2]>>)>>) : pair \in Pairs}
    \union {OneRule(<<Alt(<<Ref(b)>>)>>) \o <<ast_make_rule(b, <<Alt(<<t>>)>>)>> : t \in Few}

\* Choices of single characters: in any order, more than once, in runs of
\* three and more, up to the last character, and with something in between.
OneChar(cs) == [i \in DOMAIN cs |-> Alt(<<Cs(<<cs[i]>>)>>)]

Characters ==
  {OneRule(OneChar(cs)) : cs \in {<<97, 99, 98>>, <<98, 97, 97>>, <<97, 99, 98, 100>>,
                                  <<98, 100, 99, 101, 55>>, <<254, 255, 253, 252>>}}
    \union {OneRule(OneChar(<<97, 98>>) \o <<Alt(<<Ref(b)>>)>> \o OneChar(<<99, 100, 49>>))}

\* Everything in a grammar: the alternatives, the terms, and the alternatives
\* of groups.
RECURSIVE AltsWithin(_)
AltsWithin(alts) ==
  Range(alts) \union
    UNION {AltsWithin(t.alts) : t \in UNION {Range(alt.terms) : alt \in Range(alts)}}

AltsOf(rules)   == UNION {AltsWithin(r.alts) : r \in Range(rules)}
TermsOf(rules)  == UNION {Range(alt.terms) : alt \in AltsOf(rules)}
InGroups(rules) == UNION {Range(t.alts) : t \in TermsOf(rules)}

\* What main.c warns of before any output but that of ABNF.
Binary(rules) == \E t \in TermsOf(rules) : Range(t.v) \ 32..126 # {}

SmallAsts ==
  LET all == ByHandAsts \union Characters
  IN  [d \in Dialects |-> IF d = "abnf" THEN all ELSE {rules \in all : ~Binary(rules)}]

NoBufs == [d \in Dialects |-> <<>>]

(***************************************************************************)
(* Properties.                                                             *)
(***************************************************************************)
d == text.dialect

Has(Test(_)) == \E t \in TermsOf(ast) : Test(t)

Good == outcome = "returned" /\ errors = <<>>

\* A literal that begins with a quote, or that has one.
QuoteLeads == Has(LAMBDA t : t.type = "CS_LITERAL" /\ t.v # <<>> /\ t.v[1] = DoubleQuote)
Quotes     == Has(LAMBDA t : t.type = "CS_LITERAL" /\ DoubleQuote \in Range(t.v))

\* Written by hand in any way that its notation has, a grammar is read as it
\* is.  In Wirth syntax notation a literal may begin with a quote, but the
\* lexer takes the two quotes written for it for EMPTY.
HandReadOtherwise ==
  writer = "hand" /\ outcome # "parsing" =>
    \/ Good /\ g = ast
    \/ d = "wsn" /\ QuoteLeads

\* What is written for something else than the grammar says, or for nothing
\* that can be read.
MaximumLost   == d \in {"wsn", "rbnf", "iso-ebnf"} /\ Has(LAMBDA t : t.max # 1)
ChoiceLost    == d = "wsn" /\ Has(LAMBDA t : Len(t.alts) > 1 \/ t.type = "CI_LITERAL")
CommasLost    == d = "iso-ebnf" /\ \E alt \in InGroups(ast) : Len(alt.terms) > 1
QuotesLost    == (d = "wsn" /\ QuoteLeads) \/ (d = "iso-ebnf" /\ Quotes)
EmptyUnread   == d = "rbnf" /\ Has(LAMBDA t : t.type = "EMPTY")
NoneInGroup   == d \in {"rbnf", "iso-ebnf"}
                   /\ Has(LAMBDA t : t.type = "GROUP" /\ (t.alts = <<>> \/ GivesUp(t.alts)))
LimitsDropped == d = "abnf" /\ \E alt \in AltsOf(ast) :
                                 char_terminal(alt) /\ <<alt.terms[1].min, alt.terms[1].max>> # <<1, 1>>

\* What an output writes, after what is rewritten for it, is read back as a
\* grammar that means the same, but for what the definitions above name.
KeepsMeaningOtherwise ==
  writer = "kgt" /\ outcome # "parsing" =>
    \/ Good /\ Means(g) = Means(ast)
    \/ MaximumLost \/ ChoiceLost \/ CommasLost \/ QuotesLost \/ EmptyUnread \/ NoneInGroup
    \/ LimitsDropped

\* An output that gives up does so on what its notation cannot say, but for
\* repetitions with a count in EBNF, which has them, and for literals with
\* special characters in ABNF, which has numbers for these.
RefusesOtherwise ==
  writer \notin {"nobody", "kgt", "hand"} =>
    \/ Spellings(d, ast) = {}
    \/ d = "iso-ebnf" /\ Has(LAMBDA t : t.min > 1)
    \/ d = "abnf" /\ Has(LAMBDA t : t.type = "CS_LITERAL" /\ Len(t.v) > 1
                                      /\ \E c \in Range(t.v) : needesc(c))

\* The last row of the table of brackets: a repetition any number of times is
\* written between braces (src/src/wsn/output.c, src/src/iso-ebnf/output.c).
StarsWritten ==
  writer = "kgt" /\ d \in {"wsn", "iso-ebnf"} /\ Has(LAMBDA t : t.min = 0 /\ t.max = 0) =>
    \E i \in DOMAIN text.tokens : text.tokens[i].tok = "STARTSTAR"
=============================================================================
