----------------------------- MODULE RbnfParser -----------------------------
(***************************************************************************)
(* The productions of routing BNF (RFC 5511): src/src/rbnf/parser.c, which *)
(* SID generates from src/src/rbnf/parser.sid.  All terms are names; the   *)
(* last production asks for no EOF.                                        *)
(***************************************************************************)
EXTENDS Productions

FirstOfFactor == {"STARTGROUP", "STARTOPT", "CHAR", "NAME"}

prod_body(tok) ==
  IF tok = "CHAR"
  THEN <<Extract("CHAR", "c"), Advance, Act("pattern-char"), Goto("body")>>
  ELSE <<>>

prod_term(tok) ==
  <<Call("body", {}, ""), Expect("NAME"), Extract("NAME", "s"), Advance,
    Act("make-rule-term")>>

\* { (min, max) = <rep-zero-or-one>; || REP; (min, max) = <rep-zero-or-more>; }
\* stands in the middle of the line, and looks at the terminal there.
Inline_77(tok) ==
  CASE tok = "REP"   -> <<Advance, Act("rep-zero-or-more")>>
    [] tok = "ERROR" -> <<Check>>
    [] OTHER         -> <<Act("rep-zero-or-one")>>

prod_factor(tok) ==
  CASE tok = "STARTGROUP" ->
         <<Advance, Call("list-of-alts", {}, "a"), Expect("ENDGROUP"), Advance,
           Act("make-group-term")>>
    [] tok = "STARTOPT" ->
         <<Advance, Call("list-of-alts", {}, "a"), Inline("77"), Expect("ENDOPT"), Advance,
           Act("make-group-term"), Act("set-repeat")>>
    [] tok \in {"CHAR", "NAME"} -> <<Call("term", {}, "t"), Check>>
    [] OTHER -> <<Fail>>

prod_list_Hof_Hterms(tok) == <<Call("factor", {}, "l"), Call("93", {"l"}, "l"), Check>>

prod_93(tok) ==
  IF tok \in FirstOfFactor
  THEN <<Call("list-of-terms", {}, "t"), Check, Act("add-term-to-list")>>
  ELSE <<>>

prod_list_Hof_Halts(tok) == <<Call("list-of-terms", {}, "t"), Call("92", {"t"}, "l"), Check>>

prod_92(tok) ==
  IF tok = "ALT"
  THEN <<Else({"ALT"}), Call("list-of-alts", {}, "a"), Check, Act("make-alt"),
         Act("add-alt-to-list")>>
  ELSE <<Act("make-alt")>>

prod_rule(tok) ==
  <<Call("body", {}, ""), Expect("NAME"), Extract("NAME", "s"), Advance, Else({"EQUALS"}),
    Call("list-of-alts", {}, "a"), Check, Act("make-rule"), Else({"EOF", "SEP"})>>

prod_list_Hof_Hrules(tok) == <<Call("rule", {}, "l"), Call("91", {"l"}, "l"), Check>>

prod_91(tok) ==
  IF tok \in {"CHAR", "NAME"}
  THEN <<Call("list-of-rules", {}, "r"), Check, Act("add-rule-to-list")>>
  ELSE <<>>

prod_rbnf(tok) == <<Call("list-of-rules", {}, "l"), Check>>

\* prod_f for each name f that a Call may have, and the local it returns.
Production(f, tok) ==
  CASE f = "body"          -> prod_body(tok)
    [] f = "term"          -> prod_term(tok)
    [] f = "77"            -> Inline_77(tok)
    [] f = "factor"        -> prod_factor(tok)
    [] f = "list-of-terms" -> prod_list_Hof_Hterms(tok)
    [] f = "93"            -> prod_93(tok)
    [] f = "list-of-alts"  -> prod_list_Hof_Halts(tok)
    [] f = "92"            -> prod_92(tok)
    [] f = "rule"          -> prod_rule(tok)
    [] f = "list-of-rules" -> prod_list_Hof_Hrules(tok)
    [] f = "91"            -> prod_91(tok)
    [] f = "entry"         -> prod_rbnf(tok)

Result(f) == CASE f = "body"               -> ""
               [] f \in {"term", "factor"} -> "t"
               [] f = "rule"               -> "r"
               [] OTHER                    -> "l"
=============================================================================
