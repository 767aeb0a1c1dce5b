---------------------------- MODULE RrdRewriteCi ----------------------------
(***************************************************************************)
(* What the outputs rrparcon, rrll and rrta, which have no literals of     *)
(* either case, put in their place (src/src/rrd/rewrite_ci.c): a choice of *)
(* all the spellings.                                                      *)
(***************************************************************************)
EXTENDS RrdNode

CONSTANT MaxAlphas   \* the letters that permute_cases can handle, 63 in the code

ASSUME MaxAlphasAssumption == MaxAlphas \in Nat

\* alpha_inds: where the letters of a text are.
AlphaInds(text) == SelectSeq([i \in DOMAIN text |-> i], LAMBDA i : IsAlpha(text[i]))

TooLong(text) == Len(AlphaInds(text)) > MaxAlphas

\* Mutant: one spelling too few.
PermuteCasesShort(text) ==
  LET inds   == AlphaInds(text)
      lower(i, c) == \E j \in DOMAIN inds : inds[j] = c /\ (i \div 2^(j - 1)) % 2 = 1
      count  == 2^Len(inds) - 1
  IN  [k \in 1..count |->
         CS([c \in DOMAIN text |-> IF lower(count - k, c) THEN ToLower(text[c]) ELSE ToUpper(text[c])])]

\* The spellings by number, where bit j - 1 says that the j-th letter is in
\* lower case; each is pushed in front of those with lower numbers.
PermuteCases(text) ==
  LET inds   == AlphaInds(text)
      lower(i, c) == \E j \in DOMAIN inds : inds[j] = c /\ (i \div 2^(j - 1)) % 2 = 1
      count  == 2^Len(inds)
  IN  [k \in 1..count |->
         CS([c \in DOMAIN text |-> IF lower(count - k, c) THEN ToLower(text[c]) ELSE ToUpper(text[c])])]

\* "case is normalised during AST creation", which rewrite_ci asserts.
Normalised(text) == \A i \in DOMAIN text : text[i] \notin Upper

\* rewrite_ci.  The node has become a choice by the time permute_cases gives
\* up on it.
RewriteCi(n) == Alt(IF TooLong(n.text) THEN <<>> ELSE PermuteCases(n.text))
=============================================================================
