------------------------------- MODULE Lexers -------------------------------
(***************************************************************************)
(* The lexers of the dialects: src/src/<dialect>/lexer.c, which lx         *)
(* generates from lexer.lx.  A lexer has a function for each of its zones, *)
(* which reads characters until it knows the next token, and may set       *)
(* lx->z, the zone the one after it is read in.                            *)
(*                                                                         *)
(* The characters are left out: a zone is the set of the tokens it may     *)
(* return, each with the zone that is next.  What opens a literal, a name  *)
(* or prose is no token; what closes it is.  Comments and white space are  *)
(* none either.  From the end of the text on, and after what is no token   *)
(* at all (UNKNOWN) or an unfinished one (ERROR), lx->lgetc is NULL and    *)
(* all that comes is EOF: the zone is "end" here.                          *)
(***************************************************************************)
EXTENDS Sequences

In(tokens, zone) == tokens \X {zone}
Ends(tokens)     == In(tokens, "end")

\* In Wirth syntax notation "" is EMPTY: what comes first after an opening
\* quote is a character.
wsn_z0 == In({"CHAR", "ESC"}, "z0") \union In({"CS_LITERAL"}, "z1") \union Ends({"EOF"})

wsn_z1 ==
  In({"EQUALS", "ALT", "SEP", "STARTSTAR", "ENDSTAR", "STARTOPT", "ENDOPT", "STARTGROUP",
      "ENDGROUP", "IDENT", "EMPTY"}, "z1")
    \union In({"CHAR"}, "z0")
    \union Ends({"EOF", "UNKNOWN"})

\* In BNF, too, two quotes are EMPTY; <> is a name.
bnf_z0 == In({"CHAR"}, "z0") \union In({"CS_LITERAL"}, "z3") \union Ends({"EOF"})
bnf_z1 == In({"CHAR"}, "z1") \union In({"CS_LITERAL"}, "z3") \union Ends({"EOF"})
bnf_z2 == In({"CHAR"}, "z2") \union In({"NAME"}, "z3") \union Ends({"EOF", "UNKNOWN"})
bnf_z3 ==
  In({"EQUALS", "ALT", "SEP", "EMPTY"}, "z3")
    \union In({"CHAR"}, "z0") \union In({"CHAR"}, "z1") \union bnf_z2
    \union Ends({"EOF", "UNKNOWN", "ERROR"})

rbnf_z0 == In({"CHAR"}, "z0") \union In({"NAME"}, "z1") \union Ends({"EOF", "UNKNOWN"})
rbnf_z1 ==
  In({"EQUALS", "ALT", "SEP", "STARTOPT", "ENDOPT", "STARTGROUP", "ENDGROUP", "REP"}, "z1")
    \union rbnf_z0
    \union Ends({"EOF", "UNKNOWN", "ERROR"})

iso_z0 == In({"CHAR"}, "z0") \union In({"PROSE"}, "z4") \union Ends({"EOF"})
iso_z1 == In({"CHAR"}, "z1") \union In({"CS_LITERAL"}, "z4") \union Ends({"EOF"})
iso_z2 == In({"CHAR"}, "z2") \union In({"CS_LITERAL"}, "z4") \union Ends({"EOF"})
iso_z4 ==
  In({"EQUALS", "ALT", "SEP", "STARTSTAR", "ENDSTAR", "STARTOPT", "ENDOPT", "STARTGROUP",
      "ENDGROUP", "CAT", "EXCEPT", "STAR", "IDENT", "COUNT"}, "z4")
    \union iso_z0 \union iso_z1 \union iso_z2
    \union Ends({"EOF", "UNKNOWN", "ERROR"})

abnf_z0 == In({"CHAR"}, "z0") \union In({"CS_LITERAL"}, "z4") \union Ends({"EOF"})
abnf_z1 == In({"CHAR"}, "z1") \union In({"CI_LITERAL"}, "z4") \union Ends({"EOF"})

\* A question mark takes z2 nowhere, and stays in the buffer in front of the
\* character after it: CHARS is a CHAR with such a buffer.
abnf_z2 ==
  In({"CHAR", "CHARS"}, "z2") \union In({"PROSE"}, "z4") \union Ends({"EOF", "ERROR"})

abnf_z4 ==
  In({"EQUALS", "ALTINC", "ALT", "SEP", "STARTOPT", "ENDOPT", "STARTGROUP", "ENDGROUP", "REP",
      "COUNT", "IDENT", "BINSTR", "DECSTR", "HEXSTR", "BINRANGE", "DECRANGE", "HEXRANGE"}, "z4")
    \union abnf_z0 \union abnf_z1 \union abnf_z2
    \union Ends({"EOF", "UNKNOWN", "ERROR"})

Dialects == {"wsn", "bnf", "rbnf", "iso-ebnf", "abnf"}

\* lx->z when nothing has been read.
lx_init(dialect) == CASE dialect \in {"wsn", "rbnf"}      -> "z1"
                      [] dialect = "bnf"                  -> "z3"
                      [] dialect \in {"iso-ebnf", "abnf"} -> "z4"

\* The tokens that may be next, each with the zone after it.
lx_next(dialect, zone) ==
  IF zone = "end" THEN Ends({"EOF"})
  ELSE CASE dialect = "wsn"      -> [z0 |-> wsn_z0, z1 |-> wsn_z1][zone]
         [] dialect = "bnf"      -> [z0 |-> bnf_z0, z1 |-> bnf_z1, z2 |-> bnf_z2, z3 |-> bnf_z3][zone]
         [] dialect = "rbnf"     -> [z0 |-> rbnf_z0, z1 |-> rbnf_z1][zone]
         [] dialect = "iso-ebnf" -> [z0 |-> iso_z0, z1 |-> iso_z1, z2 |-> iso_z2, z4 |-> iso_z4][zone]
         [] dialect = "abnf"     -> [z0 |-> abnf_z0, z1 |-> abnf_z1, z2 |-> abnf_z2, z4 |-> abnf_z4][zone]
=============================================================================
