---------------------------- MODULE IsoEbnfParser ---------------------------
(***************************************************************************)
(* The productions of ISO 14977 EBNF: src/src/iso-ebnf/parser.c, which SID *)
(* generates from src/src/iso-ebnf/parser.sid.                             *)
(***************************************************************************)
EXTENDS Productions

FirstOfTerm == {"CHAR", "IDENT", "CS_LITERAL", "PROSE"}

prod_body(tok) ==
  IF tok = "CHAR"
  THEN <<Extract("CHAR", "c"), Advance, Act("pattern-char"), Goto("body")>>
  ELSE <<>>

prod_99(tok) ==
  CASE tok = "CS_LITERAL" ->
         <<Extract("CS_LITERAL", "x"), Advance, Act("make-cs-literal-term")>>
    [] tok = "PROSE" -> <<Extract("PROSE", "s"), Advance, Act("make-prose-term")>>
    [] OTHER -> <<Fail>>

\* Nothing at all is an empty term.
prod_term(tok) ==
  CASE tok = "IDENT" -> <<Extract("IDENT", "s"), Advance, Act("make-rule-term")>>
    [] tok \in {"CHAR", "CS_LITERAL", "PROSE"} ->
         <<Call("body", {}, ""), Call("99", {}, "t"), Check>>
    [] OTHER -> <<Act("make-empty-term")>>

prod_factor(tok) ==
  CASE tok = "STARTGROUP" ->
         <<Advance, Call("list-of-alts", {}, "a"), Expect("ENDGROUP"), Advance,
           Act("make-group-term")>>
    [] tok = "STARTOPT" ->
         <<Advance, Call("list-of-alts", {}, "a"), Expect("ENDOPT"), Advance,
           Act("make-group-term"), Act("rep-zero-or-one"), Act("set-repeat")>>
    [] tok = "STARTSTAR" ->
         <<Advance, Call("list-of-alts", {}, "a"), Expect("ENDSTAR"), Advance,
           Act("make-group-term"), Act("rep-zero-or-more"), Act("set-repeat")>>
    [] OTHER -> <<Call("term", {}, "t"), Check>>

prod_repeatable_Hfactor(tok) ==
  IF tok = "COUNT"
  THEN <<Extract("COUNT", "n"), Advance, Expect("STAR"), Advance, Call("factor", {}, "t"),
         Check, Act("mul-repeat")>>
  ELSE <<Call("factor", {}, "t"), Check>>

prod_list_Hof_Hterms(tok) ==
  <<Call("repeatable-factor", {}, "l"), Call("98", {"l"}, "l"), Check>>

prod_98(tok) ==
  IF tok = "CAT"
  THEN <<Advance, Call("list-of-terms", {}, "t"), Check, Act("add-term-to-list")>>
  ELSE <<>>

prod_list_Hof_Hexcepts(tok) == <<Call("list-of-terms", {}, "l"), Call("97", {}, ""), Check>>

prod_97(tok) ==
  IF tok = "EXCEPT"
  THEN <<Advance, Call("list-of-terms", {}, "t"), Check, Act("err-unimplemented-except")>>
  ELSE <<>>

prod_list_Hof_Halts(tok) == <<Call("list-of-excepts", {}, "t"), Call("96", {"t"}, "l"), Check>>

prod_96(tok) ==
  IF tok = "ALT"
  THEN <<Else({"ALT"}), Call("list-of-alts", {}, "a"), Check, Act("make-alt"),
         Act("add-alt-to-list")>>
  ELSE <<Act("make-alt")>>

prod_rule(tok) ==
  <<Expect("IDENT"), Extract("IDENT", "s"), Advance, Else({"EQUALS"}),
    Call("list-of-alts", {}, "a"), Check, Act("make-rule"), Else({"SEP"})>>

prod_list_Hof_Hrules(tok) == <<Call("rule", {}, "l"), Call("95", {"l"}, "l"), Check>>

prod_95(tok) ==
  IF tok = "IDENT"
  THEN <<Call("list-of-rules", {}, "r"), Check, Act("add-rule-to-list")>>
  ELSE <<>>

prod_iso_Hebnf(tok) == <<Call("list-of-rules", {}, "l"), Expect("EOF"), Advance>>

\* prod_f for each name f that a Call may have, and the local it returns.
Production(f, tok) ==
  CASE f = "body"              -> prod_body(tok)
    [] f = "99"                -> prod_99(tok)
    [] f = "term"              -> prod_term(tok)
    [] f = "factor"            -> prod_factor(tok)
    [] f = "repeatable-factor" -> prod_repeatable_Hfactor(tok)
    [] f = "list-of-terms"     -> prod_list_Hof_Hterms(tok)
    [] f = "98"                -> prod_98(tok)
    [] f = "list-of-excepts"   -> prod_list_Hof_Hexcepts(tok)
    [] f = "97"                -> prod_97(tok)
    [] f = "list-of-alts"      -> prod_list_Hof_Halts(tok)
    [] f = "96"                -> prod_96(tok)
    [] f = "rule"              -> prod_rule(tok)
    [] f = "list-of-rules"     -> prod_list_Hof_Hrules(tok)
    [] f = "95"                -> prod_95(tok)
    [] f = "entry"             -> prod_iso_Hebnf(tok)

Result(f) == CASE f \in {"body", "97"}                                -> ""
               [] f \in {"99", "term", "factor", "repeatable-factor"} -> "t"
               [] f = "rule"                                          -> "r"
               [] OTHER                                               -> "l"
=============================================================================
