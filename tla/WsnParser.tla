------------------------------ MODULE WsnParser -----------------------------
(***************************************************************************)
(* The productions of Wirth syntax notation: src/src/wsn/parser.c, which   *)
(* SID generates from src/src/wsn/parser.sid.                              *)
(***************************************************************************)
EXTENDS Productions

FirstOfTerm   == {"ESC", "CHAR", "IDENT", "EMPTY", "CS_LITERAL"}
FirstOfFactor == {"STARTGROUP", "STARTOPT", "STARTSTAR"} \union FirstOfTerm

prod_body(tok) ==
  IF tok \in {"ESC", "CHAR"}
  THEN <<Extract(tok, "c"), Advance, Act("pattern-char"), Goto("body")>>
  ELSE <<>>

prod_term(tok) ==
  CASE tok = "EMPTY" -> <<Advance, Act("make-empty-term")>>
    [] tok = "IDENT" -> <<Extract("IDENT", "s"), Advance, Act("make-rule-term")>>
    [] tok \in {"ESC", "CHAR", "CS_LITERAL"} ->
         <<Call("body", {}, ""), Expect("CS_LITERAL"), Extract("CS_LITERAL", "x"), Advance,
           Act("make-cs-literal-term")>>
    [] OTHER -> <<Fail>>

\* Mutant: a group that need not be closed.
prod_factorUnclosed(tok) ==
  IF tok = "STARTGROUP" THEN <<Advance, Call("list-of-alts", {}, "a"), Advance, Act("make-group-term")>>
  ELSE IF tok \in FirstOfTerm THEN <<Call("term", {}, "t"), Check>>
  ELSE <<Fail>>

prod_factor(tok) ==
  CASE tok = "STARTGROUP" ->
         <<Advance, Call("list-of-alts", {}, "a"), Expect("ENDGROUP"), Advance,
           Act("make-group-term")>>
    [] tok = "STARTOPT" ->
         <<Advance, Call("list-of-alts", {}, "a"), Expect("ENDOPT"), Advance,
           Act("make-group-term"), Act("rep-zero-or-one"), Act("set-repeat")>>
    [] tok = "STARTSTAR" ->
         <<Advance, Call("list-of-alts", {}, "a"), Expect("ENDSTAR"), Advance,
           Act("make-group-term"), Act("rep-zero-or-more"), Act("set-repeat")>>
    [] tok \in FirstOfTerm -> <<Call("term", {}, "t"), Check>>
    [] OTHER -> <<Fail>>

prod_list_Hof_Hterms(tok) == <<Call("factor", {}, "l"), Call("95", {"l"}, "l"), Check>>

prod_95(tok) ==
  IF tok \in FirstOfFactor
  THEN <<Call("list-of-terms", {}, "t"), Check, Act("add-term-to-list")>>
  ELSE <<>>

prod_list_Hof_Halts(tok) == <<Call("list-of-terms", {}, "t"), Call("94", {"t"}, "l"), Check>>

\* Mutant: ERROR is not looked for after the alternatives.
prod_94Unchecked(tok) ==
  IF tok = "ALT"
  THEN <<Else({"ALT"}), Call("list-of-alts", {}, "a"), Act("make-alt"), Act("add-alt-to-list")>>
  ELSE <<Act("make-alt")>>

prod_94(tok) ==
  IF tok = "ALT"
  THEN <<Else({"ALT"}), Call("list-of-alts", {}, "a"), Check, Act("make-alt"),
         Act("add-alt-to-list")>>
  ELSE <<Act("make-alt")>>

prod_rule(tok) ==
  <<Expect("IDENT"), Extract("IDENT", "s"), Advance, Else({"EQUALS"}),
    Call("list-of-alts", {}, "a"), Check, Act("make-rule"), Else({"SEP"})>>

prod_list_Hof_Hrules(tok) == <<Call("rule", {}, "l"), Call("93", {"l"}, "l"), Check>>

prod_93(tok) ==
  IF tok = "IDENT"
  THEN <<Call("list-of-rules", {}, "r"), Check, Act("add-rule-to-list")>>
  ELSE <<>>

\* Mutant: anything may follow the rules.
prod_wsnUnended(tok) == <<Call("list-of-rules", {}, "l")>>

prod_wsn(tok) == <<Call("list-of-rules", {}, "l"), Expect("EOF"), Advance>>

\* prod_f for each name f that a Call may have, and the local it returns.
Production(f, tok) ==
  CASE f = "body"          -> prod_body(tok)
    [] f = "term"          -> prod_term(tok)
    [] f = "factor"        -> prod_factor(tok)
    [] f = "list-of-terms" -> prod_list_Hof_Hterms(tok)
    [] f = "95"            -> prod_95(tok)
    [] f = "list-of-alts"  -> prod_list_Hof_Halts(tok)
    [] f = "94"            -> prod_94(tok)
    [] f = "rule"          -> prod_rule(tok)
    [] f = "list-of-rules" -> prod_list_Hof_Hrules(tok)
    [] f = "93"            -> prod_93(tok)
    [] f = "entry"         -> prod_wsn(tok)

Result(f) == CASE f = "body"               -> ""
               [] f \in {"term", "factor"} -> "t"
               [] f = "rule"               -> "r"
               [] OTHER                    -> "l"
=============================================================================
