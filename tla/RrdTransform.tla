---------------------------- MODULE RrdTransform ----------------------------
(***************************************************************************)
(* The abstract syntax tree of one production (src/src/ast.h), the         *)
(* language it denotes, and its translation into a railroad diagram        *)
(* (src/src/rrd/transform.c).                                              *)
(*                                                                         *)
(* A production is a sequence of alternatives, an alternative a sequence   *)
(* of terms, and a term carries the counts min and max of its repetition   *)
(* (max = 0: any number).                                                  *)
(***************************************************************************)
EXTENDS RrdNode

Term(kind, val, lo, hi) == [kind |-> kind, val |-> val, min |-> lo, max |-> hi]

(***************************************************************************)
(* The language of a term: what the counts mean in every input dialect.    *)
(***************************************************************************)
RECURSIVE AstLang(_, _)
AstLang(alts, k) ==
  LET One(t) ==
        CASE t.kind = "EMPTY" -> Epsilon
          [] t.kind \in {"CS", "CI"} ->
               {s \in Spellings([type |-> t.kind, text |-> t.val]) : Len(s) <= k}
          [] t.kind \in {"RULE", "TOKEN", "PROSE"} -> {<<t.val>>}
          [] t.kind = "GROUP" -> AstLang(t.val, k)
      Times(t) == Repeat(Epsilon, One(t), t.min, t.max, k)
  IN  UNION {FoldLeft(LAMBDA A, t : Concat(A, Times(t), k), Epsilon, alts[i]) :
               i \in DOMAIN alts}

(***************************************************************************)
(* finite_term: the counts of a loop are one less than the term's when the *)
(* body is drawn on the forward path, which is walked once in any case.    *)
(***************************************************************************)
\* Mutant: the counts copied as they stand in the grammar.
FiniteTermNotLowered(t, n) ==
  IF t.min > 0 THEN Loop(n, NULL, t.min, t.max) ELSE Loop(NULL, n, 0, t.max)

FiniteTerm(t, n) ==
  IF t.min > 0 THEN Loop(n, NULL, t.min - 1, t.max - 1) ELSE Loop(NULL, n, 0, t.max)

(***************************************************************************)
(* ast_to_rrd: transform_alts, transform_terms, and the ways               *)
(* transform_term draws a repetition.                                      *)
(***************************************************************************)
Quantified(t, n) ==
  CASE t.min = 1 /\ t.max = 1 -> n                          \* single_term
    [] t.min = 0 /\ t.max = 1 -> Skippable(<<n>>)           \* optional_term
    [] t.min = 1 /\ t.max = 0 -> Loop(n, NULL, 0, 0)        \* oneormore_term
    [] t.min = 0 /\ t.max = 0 -> Loop(NULL, n, 0, 0)        \* zeroormore_term
    [] t.min > 1 /\ t.max = 0 -> Loop(NULL, n, t.min, 0)    \* atleast_term
    [] t.max > 1              -> FiniteTerm(t, n)

RECURSIVE AstToRrd(_)
AstToRrd(alts) ==
  LET Single(t) ==
        CASE t.kind = "EMPTY"            -> NULL
          [] t.kind = "CS"               -> CS(t.val)
          [] t.kind = "CI"               -> CI(t.val)
          [] t.kind \in {"RULE", "TOKEN"} -> Name(t.val)
          [] t.kind = "PROSE"            -> Prose(t.val)
          [] t.kind = "GROUP"            -> AstToRrd(t.val)
      Terms(ts) == SeqOfNodes([i \in DOMAIN ts |-> Quantified(ts[i], Single(ts[i]))])
  IN  Alt([i \in DOMAIN alts |-> Terms(alts[i])])
=============================================================================
