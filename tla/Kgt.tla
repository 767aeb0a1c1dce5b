-------------------------------- MODULE Kgt ---------------------------------
(***************************************************************************)
(* One run of kgt: main() (src/src/main.c) with what it calls to read a    *)
(* grammar (the actions of src/src/parser.act), to report errors           *)
(* (src/src/parsing_error.c), to rewrite what the output language does not *)
(* support (src/src/rewrite_ci.c, src/src/rewrite_invisible.c), to select  *)
(* the rules to output, and to output them, as far as the output language  *)
(* can say what they hold (the output() of every language; what they write *)
(* is in DialectOutput).                                                   *)
(*                                                                         *)
(* The types of a term in the abstract syntax tree: RULE for a reference   *)
(* to a placeholder, LINKED for one to a rule of the grammar, TOKEN, CI    *)
(* and CS literals, PROSE, EMPTY, GROUP, CASES for the group a CI literal  *)
(* is rewritten to, and GONE for what was removed.                         *)
(***************************************************************************)
EXTENDS Grammar, Integers, FiniteSets

CONSTANTS Grammars,   \* the grammars that may be read, none of them empty
          Options     \* allow_undefined, the whitelist, and the output language

Types == {"EMPTY", "RULE", "LINKED", "TOKEN", "CI", "CS", "PROSE", "GROUP", "CASES", "GONE"}

\* The rules as they are written; ON and OFF are the pragmas.  The form of a term
\* is what else of it an output may be unable to say: how often it is repeated,
\* or which characters are in it.
WrittenTypes == {"EMPTY", "RULE", "CI", "CS", "PROSE", "GROUP", "ON", "OFF"}
WrittenTerm  ==
  [type : WrittenTypes, name : STRING, letters : Nat, form : STRING, depth : Nat]
WrittenBody  ==
  {b \in Seq(WrittenTerm) :
     /\ b # <<>> /\ b[1].depth = 0
     /\ \A i \in 1..Len(b) - 1 :
          b[i + 1].depth <= IF b[i].type = "GROUP" THEN b[i].depth + 1 ELSE b[i].depth}
WrittenRule  == [name : STRING, body : WrittenBody, fault : {"none", "expected", "syntax"}]

\* enum ast_features, as out->ast_unsupported
Features == {CI_LITERAL, PROSE, BINARY, INVISIBLE}

(***************************************************************************)
(* What is known of an output besides the features it does not support:    *)
(* the terms that it cannot say, by type and form, where it returns 0 or   *)
(* fails an assertion; whether a rule or a group must have an alternative; *)
(* and whether it draws a railroad diagram, on the way to which it may     *)
(* fail for reasons of its own (see RrdPretty).                            *)
(***************************************************************************)
ASSUME GrammarsAssumption == Grammars \subseteq Seq(WrittenRule)
ASSUME OptionsAssumption  ==
  Options \subseteq [allowUndefined : BOOLEAN, filter : Seq(STRING),
                    unsupported : SUBSET Features, cannot : SUBSET (Types \X STRING),
                    needsAlts : SUBSET {"rule", "group"}, diagrams : BOOLEAN]

VARIABLES
  src, opts,
  pc,         \* "read", "link", "report", "rewrite", "output"; in the end "done",
              \* "failed", or "brokenoff" if the output has failed
  n,          \* the rules read, or the rule a walk is at
  read,       \* rules read and not yet added: one for every nested call
  g,          \* the grammar, a linked list
  invisible,  \* act_state->invisible
  errors,     \* the queue of errors
  printed,    \* the errors printed
  v           \* the bits of unsupported features not yet dealt with

vars == <<src, opts, pc, n, read, g, invisible, errors, printed, v>>

Error(kind, name) == [kind |-> kind, name |-> name]

Init ==
  /\ src \in Grammars
  /\ opts \in Options
  /\ pc = "read"
  /\ n = 0
  /\ read = <<>> /\ g = <<>>
  /\ invisible = FALSE
  /\ errors = <<>> /\ printed = <<>>
  /\ v = opts.unsupported

(***************************************************************************)
(* Reading.  list-of-rules calls itself after each rule, and the rules are *)
(* added to the list on the way back, last one first.  A term is made when *)
(* it has been read, a group when its end has been read, an alternative    *)
(* when all the alternatives after it have been read: each takes the value *)
(* act_state->invisible has at that time.                                  *)
(***************************************************************************)
\* Mutant: every rule begins visible.
StateAtAfresh(body, i, before) ==
  LET pragmas == {j \in 1..i : body[j].type \in {"ON", "OFF"}}
  IN  IF pragmas = {} THEN FALSE
      ELSE body[CHOOSE j \in pragmas : \A k \in pragmas : k <= j].type = "ON"

StateAt(body, i, before) ==
  LET pragmas == {j \in 1..i : body[j].type \in {"ON", "OFF"}}
  IN  IF pragmas = {} THEN before
      ELSE body[CHOOSE j \in pragmas : \A k \in pragmas : k <= j].type = "ON"

MakeRule(r, before) ==
  [name |-> r.name,
   body |-> [i \in DOMAIN r.body |->
     [type      |-> IF r.body[i].type \in {"ON", "OFF"} THEN "EMPTY" ELSE r.body[i].type,
      name      |-> r.body[i].name,
      letters   |-> r.body[i].letters,
      form      |-> r.body[i].form,
      depth     |-> r.body[i].depth,
      invisible |-> StateAt(r.body, LastInside(r.body, i), before),
      hidden    |-> StateAt(r.body, ListEnd(r.body, i), before)]]]

\* <make-rule>; where a separator is missing <err-expected-...> goes on.
ReadRule ==
  /\ pc = "read"
  /\ n < Len(src)
  /\ LET r == src[n + 1]
     IN  /\ r.fault # "syntax"
         /\ read' = Append(read, MakeRule(r, invisible))
         /\ invisible' = StateAt(r.body, Len(r.body), invisible)
         /\ errors' = IF r.fault = "expected" THEN Append(errors, Error("expected", r.name))
                      ELSE errors
  /\ n' = n + 1
  /\ UNCHANGED <<src, opts, pc, g, printed, v>>

\* <err-syntax> exits at once; the queue is never printed.
SyntaxError ==
  /\ pc = "read"
  /\ n < Len(src)
  /\ src[n + 1].fault = "syntax"
  /\ errors' = Append(errors, Error("syntax", src[n + 1].name))
  /\ pc' = "failed"
  /\ UNCHANGED <<src, opts, n, read, g, invisible, printed, v>>

\* Mutant: the rule is added all the same.
AddRuleTwice ==
  /\ pc = "read"
  /\ n = Len(src)
  /\ read # <<>>
  /\ g' = <<read[Len(read)]>> \o g
  /\ read' = SubSeq(read, 1, Len(read) - 1)
  /\ UNCHANGED <<src, opts, pc, n, invisible, errors, printed, v>>

\* <add-rule-to-list>: of a name that exists already an error is queued, and
\* the rule is returned without the list of the rules after it.
AddRule ==
  /\ pc = "read"
  /\ n = Len(src)
  /\ read # <<>>
  /\ LET r == read[Len(read)]
     IN  IF r.name \in Names(g)
         THEN errors' = Append(errors, Error("exists", r.name)) /\ g' = <<r>>
         ELSE g' = <<r>> \o g /\ UNCHANGED errors
  /\ read' = SubSeq(read, 1, Len(read) - 1)
  /\ UNCHANGED <<src, opts, pc, n, invisible, printed, v>>

(***************************************************************************)
(* "substitute placeholder rules for the real thing": the terms of the     *)
(* alternatives of every rule; the groups among them are not looked into.  *)
(***************************************************************************)
\* Mutant: only the rules looked at so far are searched.
LinkBackwards(t) ==
  IF t.type # "RULE" \/ t.depth > 0 THEN t
  ELSE IF t.name \in Names(SubSeq(g, 1, n)) THEN [t EXCEPT !.type = "LINKED"]
  ELSE IF opts.allowUndefined THEN [t EXCEPT !.type = "TOKEN"]
  ELSE t

Link(t) ==
  IF t.type # "RULE" \/ t.depth > 0 THEN t
  ELSE IF t.name \in Names(g) THEN [t EXCEPT !.type = "LINKED"]
  ELSE IF opts.allowUndefined THEN [t EXCEPT !.type = "TOKEN"]
  ELSE t

\* The k-th of a finite set of numbers.
Nth(S, k) == CHOOSE i \in S : Cardinality({j \in S : j <= i}) = k

UndefinedErrors(body) ==
  LET undefined == {i \in DOMAIN body : body[i].type = "RULE" /\ body[i].depth = 0}
  IN  [k \in 1..Cardinality(undefined) |-> Error("undefined", body[Nth(undefined, k)].name)]

\* A walk over the rules of g: its beginning, one rule, its end.
Begin(from, to) == pc = from /\ pc' = to /\ n' = 1
AtRule(phase) == pc = phase /\ n <= Len(g)
End(phase) == pc = phase /\ n > Len(g)
SetBody(b) == g' = [g EXCEPT ![n].body = b] /\ n' = n + 1

BeginLinking ==
  /\ n = Len(src)
  /\ read = <<>>
  /\ Begin("read", "link")
  /\ UNCHANGED <<src, opts, read, g, invisible, errors, printed, v>>

LinkRule ==
  /\ AtRule("link")
  /\ LET linked == [i \in DOMAIN g[n].body |-> Link(g[n].body[i])]
     IN  /\ SetBody(linked)
         /\ errors' = errors \o UndefinedErrors(linked)
  /\ UNCHANGED <<src, opts, pc, read, invisible, printed, v>>

\* *errors = lex_state->errors
BeginReport ==
  /\ End("link")
  /\ Begin("link", "report")
  /\ UNCHANGED <<src, opts, read, g, invisible, errors, printed, v>>

\* Mutant: the error queued last is popped first.
PopLastError ==
  /\ pc = "report"
  /\ errors # <<>>
  /\ printed' = Append(printed, errors[Len(errors)])
  /\ errors' = SubSeq(errors, 1, Len(errors) - 1)
  /\ UNCHANGED <<src, opts, pc, n, read, g, invisible, v>>

\* parsing_error_queue_pop
PopError ==
  /\ pc = "report"
  /\ errors # <<>>
  /\ printed' = Append(printed, Head(errors))
  /\ errors' = Tail(errors)
  /\ UNCHANGED <<src, opts, pc, n, read, g, invisible, v>>

Exiting ==
  /\ pc = "report"
  /\ errors = <<>>
  /\ printed # <<>>
  /\ pc' = "failed"
  /\ UNCHANGED <<src, opts, n, read, g, invisible, errors, printed, v>>

BeginRewriting ==
  /\ errors = <<>>
  /\ printed = <<>>
  /\ Begin("report", "rewrite")
  /\ UNCHANGED <<src, opts, read, g, invisible, errors, printed, v>>

\* Mutant: a literal of as many letters as there may be is too long.
CiBodyOffByOne(body) ==
  [i \in DOMAIN body |->
     IF body[i].type # "CI" THEN body[i]
     ELSE [body[i] EXCEPT !.type = IF body[i].letters >= MaxAlphas THEN "GROUP" ELSE "CASES"]]

(***************************************************************************)
(* rewrite_ci_literals.  A literal that is too long has become an empty    *)
(* group when permute_cases gives up on it; walk_alts then leaves the list *)
(* it stands in, and the caller of that one takes no notice.               *)
(***************************************************************************)
CiBody(body) ==
  LET visited(i) == ~\E j \in 1..i - 1 : TooLong(body[j]) /\ i <= ListEnd(body, j)
  IN  [i \in DOMAIN body |->
         IF body[i].type # "CI" \/ ~visited(i) THEN body[i]
         ELSE [body[i] EXCEPT !.type = IF TooLong(body[i]) THEN "GROUP" ELSE "CASES"]]

\* rewrite_invisible: what goes takes along what stands inside it.
InvisibleBody(body) ==
  [i \in DOMAIN body |->
     IF \E j \in 1..i : /\ i <= LastInside(body, j)
                        /\ body[j].invisible \/ body[j].hidden
     THEN [body[i] EXCEPT !.type = "GONE"]
     ELSE body[i]]

\* v & -v
Lowest == CHOOSE f \in v : \A e \in v : f <= e

RewriteCi ==
  /\ AtRule("rewrite")
  /\ v # {}
  /\ Lowest = CI_LITERAL
  /\ SetBody(CiBody(g[n].body))
  /\ pc' = IF \E i \in DOMAIN g[n].body : g[n].body[i].depth = 0 /\ TooLong(g[n].body[i])
           THEN "failed" ELSE pc
  /\ UNCHANGED <<src, opts, read, invisible, errors, printed, v>>

RewriteInvisible ==
  /\ AtRule("rewrite")
  /\ v # {}
  /\ Lowest = INVISIBLE
  /\ SetBody(InvisibleBody(g[n].body))
  /\ UNCHANGED <<src, opts, pc, read, invisible, errors, printed, v>>

\* Mutant: the other bits are lost.
NextFeatureLast ==
  /\ pc = "rewrite"
  /\ v # {}
  /\ Lowest \in {CI_LITERAL, INVISIBLE} => n > Len(g)
  /\ v' = {}
  /\ n' = 1
  /\ UNCHANGED <<src, opts, pc, read, g, invisible, errors, printed>>

\* v &= v - 1, after a walk, or at once: ast_binary only prints a warning, and
\* there is no case for prose.
NextFeature ==
  /\ pc = "rewrite"
  /\ v # {}
  /\ Lowest \in {CI_LITERAL, INVISIBLE} => n > Len(g)
  /\ v' = v \ {Lowest}
  /\ n' = 1
  /\ UNCHANGED <<src, opts, pc, read, g, invisible, errors, printed>>

\* The rules found in the whitelist, each put at the front of the new list.
Filtered(list) ==
  LET found == {m \in DOMAIN list : \E i \in DOMAIN opts.filter : opts.filter[i] = list[m].name}
      size  == Cardinality(found)
  IN  IF opts.filter = NoFilter THEN list
      ELSE [k \in 1..size |-> list[Nth(found, size + 1 - k)]]

\* The whitelist.
Filter ==
  /\ pc = "rewrite"
  /\ v = {}
  /\ g' = Filtered(g)
  /\ pc' = "output"
  /\ UNCHANGED <<src, opts, n, read, invisible, errors, printed, v>>

(***************************************************************************)
(* out->out(g).  A list has lost its alternatives if all have gone; terms  *)
(* that have gone alone leave an alternative without terms.                *)
(***************************************************************************)
Lost(body, terms) == \A i \in terms : body[i].type = "GONE" /\ body[i].hidden

CannotSay(body, i) ==
  /\ body[i].type # "GONE"
  /\ \/ <<body[i].type, body[i].form>> \in opts.cannot
     \/ body[i].type = "GROUP" /\ "group" \in opts.needsAlts /\ Lost(body, TermsOfGroup(body, i))

RuleLost(body) == "rule" \in opts.needsAlts /\ Lost(body, TermsOfRule(body))

\* Every output comes to all terms of a rule's own alternatives, characters that
\* it has written already aside; to those inside a group not every one does: wsn
\* and sid write a group's first alternative only.
Output ==
  /\ pc = "output"
  /\ \A m \in DOMAIN g :
       /\ ~RuleLost(g[m].body)
       /\ \A i \in TermsOfRule(g[m].body) : ~CannotSay(g[m].body, i)
  /\ pc' = "done"
  /\ UNCHANGED <<src, opts, n, read, g, invisible, errors, printed, v>>

OutputFails ==
  \/ opts.diagrams
  \/ \E m \in DOMAIN g :
       RuleLost(g[m].body) \/ \E i \in DOMAIN g[m].body : CannotSay(g[m].body, i)

\* Mutant: what out->out(g) returns is not looked at.
BreakOffUnnoticed ==
  /\ pc = "output"
  /\ OutputFails
  /\ pc' = "done"
  /\ UNCHANGED <<src, opts, n, read, g, invisible, errors, printed, v>>

\* It returns 0, and main returns EXIT_FAILURE, or the process dies of an assertion
\* or a NULL pointer.
BreakOff ==
  /\ pc = "output"
  /\ OutputFails
  /\ pc' = "brokenoff"
  /\ UNCHANGED <<src, opts, n, read, g, invisible, errors, printed, v>>

\* The process has exited.
Terminated == pc \in {"done", "failed", "brokenoff"} /\ UNCHANGED vars

Next ==
  \/ ReadRule \/ SyntaxError \/ AddRule
  \/ BeginLinking \/ LinkRule
  \/ BeginReport \/ PopError \/ Exiting
  \/ BeginRewriting \/ RewriteCi \/ RewriteInvisible \/ NextFeature
  \/ Filter \/ Output \/ BreakOff \/ Terminated

Spec     == Init /\ [][Next]_vars
FairSpec == Spec /\ WF_vars(Next)
-----------------------------------------------------------------------------
Ok(rule) ==
  \A i \in DOMAIN rule.body :
    /\ rule.body[i].type \in Types
    /\ rule.body[i].depth \in Nat
    /\ rule.body[i].invisible \in BOOLEAN
    /\ rule.body[i].hidden \in BOOLEAN

\* Every variable has its type, and a name is in the list only once.
TypeOK ==
  /\ pc \in {"read", "link", "report", "rewrite", "output", "done", "failed", "brokenoff"}
  /\ n \in 0..Len(src) + 1
  /\ \A i \in DOMAIN read : Ok(read[i])
  /\ \A i \in DOMAIN g : Ok(g[i])
  /\ Duplicates(g) = {}
  /\ invisible \in BOOLEAN
  /\ v \subseteq opts.unsupported

(***************************************************************************)
(* A run of kgt refuses the faulty grammars and no others before anything  *)
(* is output.  Of the others it outputs exactly the rules asked for, or    *)
(* breaks off: only where something that was asked for cannot be said once *)
(* it is rewritten, and always where that is sure.  It does one of the     *)
(* three in the end.                                                       *)
(***************************************************************************)
Converted == INSTANCE Conversion WITH
  outcome <- CASE pc = "done" -> "converted" [] pc = "failed" -> "refused"
               [] pc = "brokenoff" -> "broken off" [] OTHER -> "none",
  output  <- IF pc = "done" THEN Names(g) ELSE {}

ImplementsConversion == Converted!Spec

(***************************************************************************)
(* Errors are printed in the order of the phases that found them: what the *)
(* parser expected, rules that exist already, rules that are not defined.  *)
(***************************************************************************)
Rank(e) == CASE e.kind = "undefined" -> 3 [] e.kind = "exists" -> 2 [] OTHER -> 1

ErrorOrder ==
  LET all == printed \o errors
  IN  \A i, j \in DOMAIN all : i < j => Rank(all[i]) <= Rank(all[j])

(***************************************************************************)
(* "Error about productions which are referenced but have no definition    *)
(* given" (man/kgt.1/kgt.1.xml, option -u), and about no others, unless    *)
(* the error is the outcome of another one: a rule given twice has made    *)
(* the rules after it disappear, and they are said not to be defined.      *)
(***************************************************************************)
UndefinedIsTrueOtherwise ==
  \/ Duplicates(src) # {}
  \/ \A i \in DOMAIN printed : printed[i].kind = "undefined" => printed[i].name \notin Names(src)

\* The grammar is what the output is given.
ForOutput == pc \in {"output", "done", "brokenoff"}

\* "Error about productions which are referenced but have no definition given",
\* wherever they are referenced.
UndefinedTold ==
  ForOutput /\ ~opts.allowUndefined => ReferredTo(src) \subseteq Names(src)

(***************************************************************************)
(* In the grammar that is output every reference outside a group is linked *)
(* if its rule is in the grammar that was read, and a token if it is not.  *)
(***************************************************************************)
LinkedToGrammar ==
  ForOutput =>
    \A m \in DOMAIN g : \A i \in DOMAIN g[m].body :
      LET t == g[m].body[i]
      IN  /\ t.type = "RULE" => t.depth > 0
          /\ t.type = "LINKED" => t.name \in Names(src)
          /\ t.type = "TOKEN" => t.name \notin Names(src)

(***************************************************************************)
(* "assert(alt != NULL)" (src/src/wsn/output.c, src/src/sid/output.c): no  *)
(* rule and no group comes to the output without an alternative that has   *)
(* something in it.                                                        *)
(***************************************************************************)
HasAlternatives ==
  ForOutput =>
    \A m \in DOMAIN g :
      LET b == g[m].body
          left == {i \in DOMAIN b : b[i].type # "GONE"}
      IN  /\ left # {}
          /\ \A i \in left : b[i].type = "GROUP" => \E j \in left : j \in i + 1..LastInside(b, i)

\* The same where nothing was made invisible, no literal in a group has too many
\* letters, and no group was without alternatives from the beginning.
HasAlternativesOtherwise ==
  HasPragma(src) \/ LongInGroup(src) \/ EmptyGroup(src) \/ HasAlternatives

(***************************************************************************)
(* Nothing the output language does not support is left in the grammar: no *)
(* case-insensitive literal, in a group or not, unless one in a group was  *)
(* too long, and nothing invisible.                                        *)
(***************************************************************************)
OnlySupported ==
  ForOutput =>
    \A m \in DOMAIN g : \A i \in DOMAIN g[m].body :
      LET t == g[m].body[i]
      IN  /\ CI_LITERAL \in opts.unsupported /\ ~LongInGroup(src) => t.type # "CI"
          /\ INVISIBLE \in opts.unsupported /\ t.type # "GONE" => ~(t.invisible \/ t.hidden)

(***************************************************************************)
(* What is written after kgt:invisible and before the next kgt:visible, in *)
(* whatever rules and groups they stand, is not output.                    *)
(***************************************************************************)
Places == UNION {{<<m, i>> : i \in DOMAIN src[m].body} : m \in DOMAIN src}
UpTo(q) == {r \in Places : r[1] < q[1] \/ (r[1] = q[1] /\ r[2] <= q[2])}
Written(q) == src[q[1]].body[q[2]].type
WrittenInvisible(q) ==
  \E r \in UpTo(q) : /\ Written(r) = "ON"
                     /\ \A o \in UpTo(q) : Written(o) = "OFF" => o \in UpTo(r)

InvisibleIsGone ==
  ForOutput /\ INVISIBLE \in opts.unsupported =>
    \A q \in Places : \A k \in DOMAIN g :
      g[k].name = src[q[1]].name /\ Written(q) # "GROUP" /\ WrittenInvisible(q)
        => g[k].body[q[2]].type = "GONE"
=============================================================================
