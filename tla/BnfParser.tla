------------------------------ MODULE BnfParser -----------------------------
(***************************************************************************)
(* The productions of BNF: src/src/bnf/parser.c, which SID generates from  *)
(* src/src/bnf/parser.sid.  There are no groups and no repetitions, and    *)
(* the last production asks for no EOF.                                    *)
(***************************************************************************)
EXTENDS Productions

FirstOfTerm == {"CHAR", "NAME", "EMPTY", "CS_LITERAL"}

prod_body(tok) ==
  IF tok = "CHAR"
  THEN <<Extract("CHAR", "c"), Advance, Act("pattern-char"), Goto("body")>>
  ELSE <<>>

prod_93(tok) ==
  CASE tok = "CS_LITERAL" ->
         <<Extract("CS_LITERAL", "x"), Advance, Act("make-cs-literal-term")>>
    [] tok = "NAME" -> <<Extract("NAME", "s"), Advance, Act("make-rule-term")>>
    [] OTHER -> <<Fail>>

prod_term(tok) ==
  CASE tok = "EMPTY" -> <<Advance, Act("make-empty-term")>>
    [] tok \in {"CHAR", "NAME", "CS_LITERAL"} ->
         <<Call("body", {}, ""), Call("93", {}, "t"), Check>>
    [] OTHER -> <<Fail>>

prod_factor(tok) == <<Call("term", {}, "t"), Check>>

prod_list_Hof_Hterms(tok) == <<Call("factor", {}, "l"), Call("92", {"l"}, "l"), Check>>

prod_92(tok) ==
  IF tok \in FirstOfTerm
  THEN <<Call("list-of-terms", {}, "t"), Check, Act("add-term-to-list")>>
  ELSE <<>>

prod_list_Hof_Halts(tok) == <<Call("list-of-terms", {}, "t"), Call("91", {"t"}, "l"), Check>>

prod_91(tok) ==
  IF tok = "ALT"
  THEN <<Else({"ALT"}), Call("list-of-alts", {}, "a"), Check, Act("make-alt"),
         Act("add-alt-to-list")>>
  ELSE <<Act("make-alt")>>

prod_rule(tok) ==
  <<Call("body", {}, ""), Expect("NAME"), Extract("NAME", "s"), Advance, Else({"EQUALS"}),
    Call("list-of-alts", {}, "a"), Check, Act("make-rule"), Else({"EOF", "SEP"})>>

prod_list_Hof_Hrules(tok) == <<Call("rule", {}, "l"), Call("90", {"l"}, "l"), Check>>

prod_90(tok) ==
  IF tok \in {"CHAR", "NAME"}
  THEN <<Call("list-of-rules", {}, "r"), Check, Act("add-rule-to-list")>>
  ELSE <<>>

prod_bnf(tok) == <<Call("list-of-rules", {}, "l"), Check>>

\* prod_f for each name f that a Call may have, and the local it returns.
Production(f, tok) ==
  CASE f = "body"          -> prod_body(tok)
    [] f = "93"            -> prod_93(tok)
    [] f = "term"          -> prod_term(tok)
    [] f = "factor"        -> prod_factor(tok)
    [] f = "list-of-terms" -> prod_list_Hof_Hterms(tok)
    [] f = "92"            -> prod_92(tok)
    [] f = "list-of-alts"  -> prod_list_Hof_Halts(tok)
    [] f = "91"            -> prod_91(tok)
    [] f = "rule"          -> prod_rule(tok)
    [] f = "list-of-rules" -> prod_list_Hof_Hrules(tok)
    [] f = "90"            -> prod_90(tok)
    [] f = "entry"         -> prod_bnf(tok)

Result(f) == CASE f = "body"                     -> ""
               [] f \in {"93", "term", "factor"} -> "t"
               [] f = "rule"                     -> "r"
               [] OTHER                          -> "l"
=============================================================================
