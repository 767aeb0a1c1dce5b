----------------------------- MODULE AbnfParser -----------------------------
(***************************************************************************)
(* The productions of augmented BNF (RFC 5234): src/src/abnf/parser.c,     *)
(* which SID generates from src/src/abnf/parser.sid.                       *)
(***************************************************************************)
EXTENDS Productions

Strings        == {"BINSTR", "DECSTR", "HEXSTR"}
Ranges         == {"BINRANGE", "DECRANGE", "HEXRANGE"}
FirstOfTerm    == {"CHAR", "IDENT", "CI_LITERAL", "CS_LITERAL", "PROSE"} \union Strings \union Ranges
FirstOfElement == {"STARTGROUP"} \union FirstOfTerm
FirstOfFactor  == {"COUNT", "STARTOPT", "REP"} \union FirstOfElement

prod_body(tok) ==
  IF tok = "CHAR"
  THEN <<Extract("CHAR", "c"), Advance, Act("pattern-char"), Goto("body")>>
  ELSE <<>>

prod_106(tok) ==
  CASE tok = "CI_LITERAL" ->
         <<Extract("CI_LITERAL", "x"), Advance, Act("make-ci-literal-term")>>
    [] tok = "CS_LITERAL" ->
         <<Extract("CS_LITERAL", "x"), Advance, Act("make-cs-literal-term")>>
    [] tok = "PROSE" -> <<Extract("PROSE", "s"), Advance, Act("make-prose-term")>>
    [] OTHER -> <<Fail>>

prod_term(tok) ==
  CASE tok = "IDENT" -> <<Extract("IDENT", "s"), Advance, Act("make-rule-term")>>
    [] tok \in {"CHAR", "CI_LITERAL", "CS_LITERAL", "PROSE"} ->
         <<Call("body", {}, ""), Call("106", {}, "t"), Check>>
    [] tok \in Ranges  -> <<Extract(tok, "r"), Advance, Act("make-range-term")>>
    [] tok \in Strings -> <<Extract(tok, "x"), Advance, Act("make-cs-literal-term")>>
    [] OTHER -> <<Fail>>

prod_factor_C_Celement(tok) ==
  CASE tok = "STARTGROUP" ->
         <<Advance, Call("list-of-alts", {}, "a"), Expect("ENDGROUP"), Advance,
           Act("make-group-term")>>
    [] tok \in FirstOfTerm -> <<Call("term", {}, "t"), Check>>
    [] OTHER -> <<Fail>>

prod_87(tok) ==
  IF tok = "COUNT" THEN <<Extract("COUNT", "max"), Advance>> ELSE <<Act("rep-zero-or-more")>>

\* What follows a count, which is min.
prod_105(tok) ==
  CASE tok = "REP" ->
         <<Advance, Call("87", {}, "max"), Call("element", {}, "t"), Check, Act("set-repeat")>>
    [] tok \in FirstOfElement -> <<Call("element", {}, "t"), Check, Act("set-repeat-exactly")>>
    [] OTHER -> <<Fail>>

prod_factor(tok) ==
  CASE tok = "COUNT" ->
         <<Extract("COUNT", "min"), Advance, Call("105", {"min"}, "t"), Check>>
    [] tok = "STARTOPT" ->
         <<Advance, Call("list-of-alts", {}, "a"), Check, Act("rep-zero-or-one"),
           Expect("ENDOPT"), Advance, Act("make-group-term"), Act("set-repeat")>>
    [] tok \in FirstOfElement -> <<Call("element", {}, "t"), Check>>
    [] tok = "REP" ->
         <<Act("rep-zero-min"), Advance, Call("87", {}, "max"), Call("element", {}, "t"),
           Check, Act("set-repeat")>>
    [] OTHER -> <<Fail>>

prod_list_Hof_Hterms(tok) == <<Call("factor", {}, "l"), Call("103", {"l"}, "l"), Check>>

prod_103(tok) ==
  IF tok \in FirstOfFactor
  THEN <<Call("list-of-terms", {}, "t"), Check, Act("add-term-to-list")>>
  ELSE <<>>

prod_list_Hof_Halts(tok) == <<Call("list-of-terms", {}, "t"), Call("102", {"t"}, "l"), Check>>

prod_102(tok) ==
  IF tok = "ALT"
  THEN <<Else({"ALT"}), Call("list-of-alts", {}, "a"), Check, Act("make-alt"),
         Act("add-alt-to-list")>>
  ELSE <<Act("make-alt")>>

\* What stands after the name: rules cannot be added to.
Inline_95(tok) ==
  CASE tok = "EQUALS" -> <<Else({"EQUALS"}), Call("list-of-alts", {}, "a"), Check, Act("make-rule")>>
    [] tok = "ALTINC" -> <<Else({"ALTINC"}), Act("current-rules")>>
    [] OTHER          -> <<Fail>>

prod_rule(tok) ==
  <<Expect("IDENT"), Extract("IDENT", "s"), Advance, Inline("95"), Else({"EOF", "SEP"})>>

prod_list_Hof_Hrules(tok) == <<Call("rule", {}, "l"), Call("101", {"l"}, "l"), Check>>

prod_101(tok) ==
  IF tok = "IDENT"
  THEN <<Call("list-of-rules", {}, "r"), Check, Act("add-rule-to-list")>>
  ELSE <<>>

prod_abnf(tok) == <<Call("list-of-rules", {}, "l"), Expect("EOF"), Advance>>

\* prod_f for each name f that a Call may have, and the local it returns.
Production(f, tok) ==
  CASE f = "body"          -> prod_body(tok)
    [] f = "106"           -> prod_106(tok)
    [] f = "term"          -> prod_term(tok)
    [] f = "element"       -> prod_factor_C_Celement(tok)
    [] f = "87"            -> prod_87(tok)
    [] f = "105"           -> prod_105(tok)
    [] f = "factor"        -> prod_factor(tok)
    [] f = "list-of-terms" -> prod_list_Hof_Hterms(tok)
    [] f = "103"           -> prod_103(tok)
    [] f = "list-of-alts"  -> prod_list_Hof_Halts(tok)
    [] f = "102"           -> prod_102(tok)
    [] f = "95"            -> Inline_95(tok)
    [] f = "rule"          -> prod_rule(tok)
    [] f = "list-of-rules" -> prod_list_Hof_Hrules(tok)
    [] f = "101"           -> prod_101(tok)
    [] f = "entry"         -> prod_abnf(tok)

Result(f) == CASE f = "body"                                     -> ""
               [] f \in {"106", "term", "element", "105", "factor"} -> "t"
               [] f = "87"                                       -> "max"
               [] f = "rule"                                     -> "r"
               [] OTHER                                          -> "l"
=============================================================================
