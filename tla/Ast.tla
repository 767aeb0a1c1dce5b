--------------------------------- MODULE Ast --------------------------------
(***************************************************************************)
(* The abstract syntax tree (src/src/ast.h) as a parser builds it: a rule  *)
(* has a list of alternatives, an alternative a list of terms, and a term  *)
(* may be a group of alternatives.  A linked list is a sequence.           *)
(*                                                                         *)
(* A character is its number.  The name of a rule, the text of a literal   *)
(* and prose are sequences of characters.                                  *)
(***************************************************************************)
EXTENDS Integers, Sequences

isalpha(c) == c \in 65..90 \union 97..122
tolower(c) == IF c \in 65..90 THEN c + 32 ELSE c
toupper(c) == IF c \in 97..122 THEN c - 32 ELSE c
isspace(c) == c \in {9, 10, 11, 12, 13, 32}

CharMax == 255   \* UCHAR_MAX

\* v is the name of a rule, a literal or prose; alts are those of a group.
\* A max of 0 is no limit.
MakeTerm(type, v, alts, invisible) ==
  [type |-> type, v |-> v, alts |-> alts, min |-> 1, max |-> 1, invisible |-> invisible]

ast_make_empty_term(invisible)       == MakeTerm("EMPTY", <<>>, <<>>, invisible)
ast_make_rule_term(invisible, name)  == MakeTerm("RULE", name, <<>>, invisible)
ast_make_char_term(invisible, c)     == MakeTerm("CS_LITERAL", <<c>>, <<>>, invisible)
ast_make_prose_term(invisible, s)    == MakeTerm("PROSE", s, <<>>, invisible)
ast_make_group_term(invisible, alts) == MakeTerm("GROUP", <<>>, alts, invisible)

\* A literal with no letters is case-sensitive.
ast_make_literal_term(invisible, x, ci) ==
  MakeTerm(IF ci /\ \E i \in DOMAIN x : isalpha(x[i]) THEN "CI_LITERAL" ELSE "CS_LITERAL",
           x, <<>>, invisible)

ast_make_alt(invisible, terms) == [terms |-> terms, invisible |-> invisible]
ast_make_rule(name, alts)      == [name |-> name, alts |-> alts]

\* Whether ast_find_rule finds one.
ast_find_rule(rules, name) == \E i \in DOMAIN rules : rules[i].name = name

Repeated(t, min, max) == [t EXCEPT !.min = min, !.max = max]
=============================================================================
