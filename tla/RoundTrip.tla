------------------------------ MODULE RoundTrip -----------------------------
(***************************************************************************)
(* A grammar is written in the notation of a dialect, by the output of kgt *)
(* with what is rewritten for it before, or by hand, and read back by the  *)
(* parser of the same dialect.                                             *)
(*                                                                         *)
(* By hand it may be written in any way the notation has for it; there are *)
(* grammars that a notation has none for.                                  *)
(***************************************************************************)
EXTENDS DialectOutput, AstRewrite, Notation, Meaning, Lexers, TLC

CONSTANTS
  Asts,         \* by dialect, the grammars that are written
  HandAsts,     \* those of them that are written by hand, too
  Bufs, PatternSize, CountWidth   \* see SidParser

VARIABLES text, zone, input, lex_tok, buf, stack, p, invisible, errors, outcome, g

Blank(d) == [dialect |-> d, tokens |-> <<>>, free |-> 0]

Parser == INSTANCE SidParser WITH Texts <- {Blank(d) : d \in Dialects}

VARIABLES
  ast,    \* the grammar
  writer  \* "nobody" yet, "kgt" or "hand", or how the output of kgt gave up

parser == <<zone, input, lex_tok, buf, stack, p, invisible, errors, outcome, g>>
vars   == <<text, parser, ast, writer>>

(***************************************************************************)
(* The tokens of what is written by hand, where there is a choice of       *)
(* quotes with those that the text has not.                                *)
(***************************************************************************)
HandTokens(d, lexeme) ==
  CASE lexeme.tok \in {"NAME", "CI_LITERAL", "PROSE"} -> Chars(lexeme.v) \o Symbol(lexeme.tok)
    [] lexeme.tok = "CS_LITERAL" -> IF d = "wsn" THEN wsn_literal(lexeme.v)
                                    ELSE Chars(lexeme.v) \o Symbol("CS_LITERAL")
    [] lexeme.tok = "RANGE"      -> Printed("HEXRANGE", lexeme.v)
    [] OTHER                     -> Printed(lexeme.tok, lexeme.v)

\* After the pragma that says so, what is read is invisible.
Invisible == Lexeme("PROSE", <<256>>)

ByHand(d, rules) ==
  {FlattenSeq([i \in DOMAIN s |-> HandTokens(d, s[i])]) :
     s \in {s \in Spellings(d, rules) : Invisible \notin Range(s)}}

(***************************************************************************)
(* The actions.                                                            *)
(***************************************************************************)
Init ==
  /\ Parser!Init
  /\ ast \in Asts[text.dialect]
  /\ writer = "nobody"

\* FEATURE_AST_CI_LITERAL is in <dialect>_ast_unsupported.
NoLiteralsOfEitherCase == Dialects \ {"abnf"}

\* What main does with a grammar that has been read: the rewriting, and the
\* output.
KgtWrites ==
  /\ writer = "nobody"
  /\ LET d      == text.dialect
         rules  == IF d \in NoLiteralsOfEitherCase THEN rewrite_ci_literals(ast) ELSE ast
         tokens == Output(d, rules)
     IN  IF d \in NoLiteralsOfEitherCase /\ ~rewrite_ci_literals_succeeds(ast)
         THEN writer' = "too many letters" /\ UNCHANGED text
         ELSE IF Failure(tokens) = "none"
         THEN writer' = "kgt" /\ text' = [text EXCEPT !.tokens = tokens]
         ELSE writer' = Failure(tokens) /\ UNCHANGED text
  /\ UNCHANGED <<parser, ast>>

HandWrites ==
  /\ writer = "nobody"
  /\ ast \in HandAsts
  /\ \E tokens \in ByHand(text.dialect, ast) : text' = [text EXCEPT !.tokens = tokens]
  /\ writer' = "hand"
  /\ UNCHANGED <<parser, ast>>

Read ==
  /\ writer \in {"kgt", "hand"}
  /\ Parser!Next
  /\ UNCHANGED <<ast, writer>>

GaveUp == writer \notin {"nobody", "kgt", "hand"} /\ UNCHANGED vars

Next == KgtWrites \/ HandWrites \/ Read \/ GaveUp

Spec == Init /\ [][Next]_vars
=============================================================================
