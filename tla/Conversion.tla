----------------------------- MODULE Conversion -----------------------------
(***************************************************************************)
(* What a run of kgt promises, whatever it does on the way: a grammar is   *)
(* refused if and only if something is wrong with it.  Otherwise what is   *)
(* output are the rules that were asked for, unless there is something in  *)
(* them that the output language cannot say.                               *)
(***************************************************************************)
EXTENDS Grammar

CONSTANTS Grammars,   \* the grammars that may be read
          Options     \* the command lines

VARIABLES src, opts,  \* the grammar and the command line
          outcome,    \* "none", "refused", "converted" or "broken off"
          output      \* the names of the rules output, when all have been

vars == <<src, opts, outcome, output>>

Faulty ==
  \/ \E m \in DOMAIN src : src[m].fault # "none"
  \/ Duplicates(src) # {}
  \/ ~opts.allowUndefined /\ ~(ReferredToOutsideGroups(src) \subseteq Names(src))
  \/ CI_LITERAL \in opts.unsupported /\ LongOutsideGroups(src)

Whitelisted ==
  IF opts.filter = NoFilter THEN Names(src)
  ELSE Names(src) \intersect {opts.filter[i] : i \in DOMAIN opts.filter}

\* What types a term may have when it is output, if it is.
Becomes(t) ==
  CASE t.type \in {"ON", "OFF"} -> {"EMPTY"}
    [] t.type = "RULE" /\ t.depth = 0 -> {IF t.name \in Names(src) THEN "LINKED" ELSE "TOKEN"}
    [] t.type = "CI" /\ CI_LITERAL \in opts.unsupported ->
         IF LongInGroup(src) THEN {"CI", "CASES", "GROUP"} ELSE {"CASES"}
    [] OTHER -> {t.type}

Asked == {m \in DOMAIN src : src[m].name \in Whitelisted}

\* A term that cannot be said is among the rules asked for, or alternatives are
\* wanted where there may be none.
MayBreakOff ==
  \/ opts.diagrams
  \/ \E m \in Asked : \E i \in DOMAIN src[m].body : \E type \in Becomes(src[m].body[i]) :
       <<type, src[m].body[i].form>> \in opts.cannot
  \/ opts.needsAlts # {} /\ (HasPragma(src) \/ LongInGroup(src) \/ EmptyGroup(src))

\* It is not inside a group, nothing it may become can be said, and it is not
\* removed.
MustBreakOff ==
  /\ \E m \in Asked : \E i \in TermsOfRule(src[m].body) : \A type \in Becomes(src[m].body[i]) :
       <<type, src[m].body[i].form>> \in opts.cannot
  /\ ~HasPragma(src) \/ INVISIBLE \notin opts.unsupported

Init ==
  /\ src \in Grammars
  /\ opts \in Options
  /\ outcome = "none"
  /\ output = {}

Refuse ==
  /\ outcome = "none"
  /\ Faulty
  /\ outcome' = "refused"
  /\ UNCHANGED <<src, opts, output>>

Convert ==
  /\ outcome = "none"
  /\ ~Faulty
  /\ ~MustBreakOff
  /\ outcome' = "converted"
  /\ output' = Whitelisted
  /\ UNCHANGED <<src, opts>>

BreakOff ==
  /\ outcome = "none"
  /\ ~Faulty
  /\ MayBreakOff
  /\ outcome' = "broken off"
  /\ UNCHANGED <<src, opts, output>>

Next == Refuse \/ Convert \/ BreakOff

Spec == Init /\ [][Next]_vars /\ WF_vars(Next)
=============================================================================
