----------------------------- MODULE AstRewrite -----------------------------
(***************************************************************************)
(* What is done to a grammar before an output that has no literals of      *)
(* either case writes it (src/src/rewrite_ci.c): each becomes a group of   *)
(* all its spellings.                                                      *)
(***************************************************************************)
EXTENDS Ast, SequencesExt

CONSTANT MaxAlphas   \* the letters that permute_cases can handle, 63 in the code

ASSUME MaxAlphasAssumption == MaxAlphas \in Nat

\* alpha_inds: where the letters of a literal are.
alpha_inds(v) == SelectSeq([i \in DOMAIN v |-> i], LAMBDA i : isalpha(v[i]))

TooLong(t) == t.type = "CI_LITERAL" /\ Len(alpha_inds(t.v)) > MaxAlphas

\* Mutant: the letters keep the case they have.
permute_casesAlike(v, invisible) ==
  [k \in 1..2^Len(alpha_inds(v)) |-> ast_make_alt(invisible, <<ast_make_literal_term(invisible, v, FALSE)>>)]

\* The spellings by number, where bit j - 1 says that the j-th letter is in
\* lower case; each is put in front of those with lower numbers.
permute_cases(v, invisible) ==
  LET inds        == alpha_inds(v)
      count       == 2^Len(inds)
      lower(i, c) == \E j \in DOMAIN inds : inds[j] = c /\ (i \div 2^(j - 1)) % 2 = 1
      spelling(i) == [c \in DOMAIN v |-> IF lower(i, c) THEN tolower(v[c]) ELSE toupper(v[c])]
  IN  [k \in 1..count |->
         ast_make_alt(invisible, <<ast_make_literal_term(invisible, spelling(count - k), FALSE)>>)]

\* The group is there by the time permute_cases gives up on it.
rewrite_ci(t) ==
  [t EXCEPT !.type = "GROUP", !.v = <<>>,
            !.alts = IF TooLong(t) THEN <<>> ELSE permute_cases(t.v, t.invisible)]

\* Whether the walk of a list of alternatives leaves it at a term, and whether
\* it gets as far as the j-th term of the i-th alternative.
GivesUp(alts) == \E i \in DOMAIN alts : \E j \in DOMAIN alts[i].terms : TooLong(alts[i].terms[j])

Reached(alts, i, j) ==
  /\ ~GivesUp(SubSeq(alts, 1, i - 1))
  /\ \A l \in 1..j - 1 : ~TooLong(alts[i].terms[l])

\* Nobody looks at what the walk of a group returns.
RECURSIVE walk_alts(_)

walk_term(t) == CASE t.type = "CI_LITERAL" -> rewrite_ci(t)
                  [] t.type = "GROUP"      -> [t EXCEPT !.alts = walk_alts(@)]
                  [] OTHER                 -> t

walk_alts(alts) ==
  [i \in DOMAIN alts |->
     [alts[i] EXCEPT !.terms =
        [j \in DOMAIN @ |-> IF Reached(alts, i, j) THEN walk_term(@[j]) ELSE @[j]]]]

\* FALSE where kgt exits.
rewrite_ci_literals_succeeds(rules) == \A i \in DOMAIN rules : ~GivesUp(rules[i].alts)

rewrite_ci_literals(rules) == [i \in DOMAIN rules |-> [rules[i] EXCEPT !.alts = walk_alts(@)]]
=============================================================================
