------------------------------- MODULE Grammar ------------------------------
(***************************************************************************)
(* A grammar as it is written, before kgt has read it, and what it says.   *)
(*                                                                         *)
(* A grammar is a sequence of rules, a rule a name and a body.  A body is  *)
(* the sequence of its terms in the order they are written, the terms of a *)
(* group just after the group and one deeper.  Where one alternative ends  *)
(* and the next begins is not represented: nothing below depends on it.    *)
(***************************************************************************)
EXTENDS Naturals, Sequences

CONSTANT MaxAlphas   \* the letters that permute_cases can handle, 63 in the code

ASSUME MaxAlphasAssumption == MaxAlphas \in Nat

\* enum ast_features (src/src/ast.h), by the number of the bit.
CI_LITERAL == 0
PROSE      == 1
BINARY     == 2
INVISIBLE  == 3

NoFilter == <<"*">>   \* no whitelist given

\* The terms of body after the one at i that stand inside it, and the term
\* at i itself, are at i..LastInside(body, i).
LastInside(body, i) ==
  CHOOSE j \in i..Len(body) :
    /\ \A k \in i + 1..j : body[k].depth > body[i].depth
    /\ j < Len(body) => body[j + 1].depth <= body[i].depth

\* The last term of the list of alternatives the term at i stands in.
ListEnd(body, i) ==
  CHOOSE j \in i..Len(body) :
    /\ \A k \in i..j : body[k].depth >= body[i].depth
    /\ j < Len(body) => body[j + 1].depth < body[i].depth

\* The terms of the alternatives of the group at i, and those of a rule's own.
TermsOfGroup(body, i) == {j \in i + 1..LastInside(body, i) : body[j].depth = body[i].depth + 1}
TermsOfRule(body) == {j \in DOMAIN body : body[j].depth = 0}

\* A case-insensitive literal with more spellings than can be written out.
TooLong(t) == t.type = "CI" /\ t.letters > MaxAlphas

Names(grammar) == {grammar[i].name : i \in DOMAIN grammar}

Duplicates(grammar) ==
  {grammar[i].name : i \in {j \in DOMAIN grammar :
                              \E k \in 1..j - 1 : grammar[k].name = grammar[j].name}}

\* The rules that are referred to, outside groups or anywhere.
ReferredTo(grammar) ==
  UNION {{r.body[i].name : i \in {j \in DOMAIN r.body : r.body[j].type = "RULE"}} :
           r \in {grammar[m] : m \in DOMAIN grammar}}

ReferredToOutsideGroups(grammar) ==
  UNION {{r.body[i].name : i \in {j \in DOMAIN r.body :
                                    r.body[j].type = "RULE" /\ r.body[j].depth = 0}} :
           r \in {grammar[m] : m \in DOMAIN grammar}}

\* A literal that is too long, outside groups or inside one.
LongOutsideGroups(grammar) ==
  \E m \in DOMAIN grammar : \E i \in DOMAIN grammar[m].body :
    grammar[m].body[i].depth = 0 /\ TooLong(grammar[m].body[i])

LongInGroup(grammar) ==
  \E m \in DOMAIN grammar : \E i \in DOMAIN grammar[m].body :
    grammar[m].body[i].depth > 0 /\ TooLong(grammar[m].body[i])

\* The pragmas "kgt:invisible" and "kgt:visible", written as prose.
HasPragma(grammar) ==
  \E m \in DOMAIN grammar : \E i \in DOMAIN grammar[m].body :
    grammar[m].body[i].type \in {"ON", "OFF"}

\* A group without a term, as an ABNF range written backwards makes.
EmptyGroup(grammar) ==
  \E m \in DOMAIN grammar : \E i \in DOMAIN grammar[m].body :
    grammar[m].body[i].type = "GROUP" /\ TermsOfGroup(grammar[m].body, i) = {}
=============================================================================
