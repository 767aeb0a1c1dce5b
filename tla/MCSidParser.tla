----------------------------- MODULE MCSidParser ----------------------------
(***************************************************************************)
(* Small texts for SidParser, and what its parsers are to do with them.    *)
(***************************************************************************)
EXTENDS SidParser, Notation

a == <<97>>
b == <<98>>

Tok(ts)   == [i \in DOMAIN ts |-> Token(ts[i], <<>>)]
Id(n)     == <<Token("IDENT", n)>>
Name(n)   == <<Token("CHAR", n), Token("NAME", <<>>)>>
Count(n)  == <<Token("COUNT", <<n>>)>>

\* A reference, the beginning of a rule, and a whole rule.
Ref(d)    == IF d \in {"bnf", "rbnf"} THEN Name(a) ELSE Id(a)
Begin(d)  == Ref(d) \o Tok(<<"EQUALS">>)
Rule(d)   == Begin(d) \o Ref(d) \o Tok(<<"SEP">>)

Beginnings(d) ==
  {<<>>, Begin(d), Begin(d) \o Ref(d), Rule(d), Rule(d) \o Begin(d)}
    \union (IF d = "bnf" THEN {}
            ELSE {Begin(d) \o Tok(<<"STARTGROUP">>) \o Ref(d), Begin(d) \o Tok(<<"STARTOPT">>) \o Ref(d)})
    \union (CASE d = "wsn"      -> {Begin(d) \o Tok(<<"STARTSTAR">>) \o Ref(d)}
              [] d = "iso-ebnf" -> {Begin(d) \o Tok(<<"STARTSTAR">>) \o Ref(d), Begin(d) \o Count(3),
                                    Begin(d) \o Count(3) \o Tok(<<"STAR", "STARTOPT">>) \o Ref(d)}
              [] d = "abnf"     -> {Begin(d) \o Count(3) \o Tok(<<"REP">>), Begin(d) \o Tok(<<"REP">>)}
              [] OTHER          -> {})

Text(d, tokens, f) == [dialect |-> d, tokens |-> tokens, free |-> f]

AnyTexts ==
  UNION {{Text(d, ts, CASE d = "bnf" -> 4 [] d = "rbnf" -> 4 [] d = "wsn" -> 3 [] OTHER -> 2) : ts \in Beginnings(d)} :
           d \in Dialects}
NoBufs == [chars |-> {97}, names |-> {a}, counts |-> {}, strings |-> {}, ranges |-> {}]

\* For counts of 2 bits, 5 is too wide.
CoreBufs ==
  [d \in Dialects |->
     CASE d = "wsn" -> [NoBufs EXCEPT !.names = {a, b}]
       [] d = "bnf" -> [NoBufs EXCEPT !.chars = {0, 97}]
       [] d = "rbnf" -> NoBufs
       [] d = "iso-ebnf" -> [NoBufs EXCEPT !.chars = {32, PragmaInvisible}, !.names = {a, <<97, 32>>},
                                           !.counts = {0, 3}]
       [] d = "abnf" -> [NoBufs EXCEPT !.chars = {65}, !.counts = {0, 2, 5},
                                       !.strings = {<<10, 97>>, <<256>>}, !.ranges = {<<97, 98>>, <<98, 97>>}]]


(***************************************************************************)
(* Properties.                                                             *)
(***************************************************************************)
\* A lexeme as the grammar has it: literals of either case in lower case,
\* prose and names trimmed.
Meant(l) == CASE l.tok = "CI_LITERAL" ->
                   IF \E i \in DOMAIN l.v : isalpha(l.v[i])
                   THEN [l EXCEPT !.v = [i \in DOMAIN @ |-> tolower(@[i])]]
                   ELSE [l EXCEPT !.tok = "CS_LITERAL"]
              [] l.tok = "PROSE"      -> [l EXCEPT !.v = trim(@)]
              [] l.tok = "IDENT"      -> [l EXCEPT !.v = rtrim(@)]
              [] OTHER                -> l

\* Of BNF and RBNF the last terminal is only looked at.
WhatWasRead ==
  LET consumed == IF dialect \in {"bnf", "rbnf"} THEN SubSeq(input, 1, Len(input) - 1) ELSE input
      lexemes  == SelectSeq(Lexemes(consumed), LAMBDA l : l.tok # "EOF")
  IN  [i \in DOMAIN lexemes |-> Meant(lexemes[i])]

Somewhere(Test(_)) == \E i \in DOMAIN input : Test(i)

\* In ABNF: a count of 0 on its own, which means any number of times; a range
\* that ends before it begins, which is a group of nothing.
CountOfNone    == Somewhere(LAMBDA i : TokAt(i) = "COUNT" /\ input[i].buf[1] = 0 /\ TokAt(i + 1) # "REP")
BackwardsRange == Somewhere(LAMBDA i : Base(TokAt(i)) = "RANGE" /\ input[i].buf[1] > input[i].buf[2])

\* A count that is more than an unsigned int.
WideCount == Somewhere(LAMBDA i : TokAt(i) = "COUNT" /\ input[i].buf[1] >= 2^CountWidth)

\* A grammar that comes back without an error says what has been read: this
\* is a spelling of it, in the notation of the dialect.  It is not where no
\* rule begins at all, the lexer failing at once, and in the cases above.
ReadsBackOtherwise ==
  outcome = "returned" /\ errors = <<>> =>
    \/ WhatWasRead \in Spellings(dialect, g)
    \/ g = <<>> /\ TokAt(1) = "ERROR"
    \/ CountOfNone \/ WideCount \/ BackwardsRange

\* The assertions hold, save for a character 0 and the first one after a
\* question mark in prose, for prose with nothing in it, for no times of
\* something, and for limits in the wrong order.  The pattern buffer takes
\* every text but one that fills it.
AssertsOtherwise ==
  /\ outcome = "assert" =>
       \/ Somewhere(LAMBDA i : TokAt(i) = "CHAR" /\ strlen(input[i].buf) # 1)
       \/ Somewhere(LAMBDA i : TokAt(i) = "PROSE" /\ TokAt(i - 1) # "CHAR")
       \/ Somewhere(LAMBDA i : TokAt(i) = "STAR" /\ input[i - 1].buf[1] = 0)
       \/ Somewhere(LAMBDA i : /\ TokAt(i - 1) = "COUNT" /\ TokAt(i) = "REP" /\ TokAt(i + 1) = "COUNT"
                               /\ input[i - 1].buf[1] % 2^CountWidth > input[i + 1].buf[1] % 2^CountWidth)
  /\ outcome = "overrun" =>
       Somewhere(LAMBDA i : \A j \in 0..PatternSize - 1 : TokAt(i + j) \in {"CHAR", "ESC"})

\* Every call of a parser comes to an end, on every text that does.
Termination == <>(outcome # "parsing")
=============================================================================
