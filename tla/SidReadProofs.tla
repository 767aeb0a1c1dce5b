---------------------------- MODULE SidReadProofs ---------------------------
(***************************************************************************)
(* What is proved of SidParser about the end of a text: a parser that      *)
(* comes back without an error has read all of it, but after a separator   *)
(* in BNF and RBNF, and where the lexer fails before any rule has begun.   *)
(*                                                                         *)
(* The entry productions of three dialects ask for EOF.  That is not       *)
(* enough: what follows it is read too, and has to be EOF again.  Those of *)
(* BNF and RBNF ask for nothing, and whether the text is at its end        *)
(* depends on the last terminal of the last rule, through the calls of the *)
(* list of rules that return in between.  Chain says how these calls hang  *)
(* together, Reached what is known of the terminal when one is done.       *)
(***************************************************************************)
EXTENDS SidParserProofs

NoEnd == {"bnf", "rbnf"}

(***************************************************************************)
(* The lines of the productions that are on the stack between two rules.   *)
(***************************************************************************)
\* What follows the first rule of a list is prod_90 of BNF, prod_91 of RBNF.
More(d) == IF d = "bnf" THEN "90" ELSE "91"

Rules0(d) == <<Call("rule", {}, "l"), Call(More(d), {"l"}, "l"), Check>>
Rules1(d) == <<Call(More(d), {"l"}, "l"), Check>>
Rules2    == <<Check>>

More0 == <<Call("list-of-rules", {}, "r"), Check, Act("add-rule-to-list")>>
More1 == <<Check, Act("add-rule-to-list")>>
More2 == <<Act("add-rule-to-list")>>

Entry0(d) == IF d \in NoEnd THEN <<Call("list-of-rules", {}, "l"), Check>>
             ELSE <<Call("list-of-rules", {}, "l"), Expect("EOF"), Advance>>
Entry1(d) == IF d \in NoEnd THEN <<Check>> ELSE <<Expect("EOF"), Advance>>
Entry2    == <<Advance>>

\* A rule ends with EOF or a separator.
RuleRest(t) ==
  /\ IsASequence(t)
  /\ t # <<>> => t[Len(t)].op = "else" /\ t[Len(t)].arg \subseteq {"EOF", "SEP"}
  /\ \A i \in DOMAIN t : t[i].op \notin {"goto", "inline"}

\* What a call f has still to do.
Shape(d, f) ==
  /\ f.prod = "entry" => \/ f.todo = <<>> \/ f.todo = Entry0(d) \/ f.todo = Entry1(d)
                         \/ (d \notin NoEnd /\ f.todo = Entry2)
  /\ d \in NoEnd /\ f.prod = "list-of-rules" =>
       f.todo = <<>> \/ f.todo = Rules0(d) \/ f.todo = Rules1(d) \/ f.todo = Rules2
  /\ d \in NoEnd /\ f.prod = More(d) =>
       f.todo = <<>> \/ f.todo = More0 \/ f.todo = More1 \/ f.todo = More2
  /\ d \in NoEnd /\ f.prod = "rule" => RuleRest(f.todo)

\* f waits for c.
Calls(d, f, c) ==
  /\ f.prod = "entry" => f.todo = Entry1(d) /\ (d \in NoEnd => c.prod = "list-of-rules")
  /\ d \in NoEnd /\ f.prod = "list-of-rules" =>
       \/ f.todo = Rules1(d) /\ c.prod = "rule"
       \/ f.todo = Rules2 /\ c.prod = More(d)
  /\ d \in NoEnd /\ f.prod = More(d) => f.todo = More1 /\ c.prod = "list-of-rules"
  /\ d \in NoEnd /\ f.prod = "rule" => f.todo # <<>>

Chain(d, s) ==
  /\ IsASequence(s)
  /\ s # <<>> => s[Len(s)].prod = "entry"
  /\ \A i \in 1..Len(s) : Shape(d, s[i])
  /\ \A i \in 2..Len(s) : Calls(d, s[i], s[i - 1])

\* With the terminal tok, and if fin says that all has been read.
Reached(d, s, tok, fin) ==
  LET f    == s[1]
      ends == tok = "ERROR" \/ fin
  IN  /\ f.prod = "entry" /\ Len(s) = 1 /\ f.todo = <<>> =>
           IF tok = "ERROR" THEN f.loc = <<>> ELSE fin
      /\ f.prod = "entry" /\ f.todo = Entry2 /\ d \notin NoEnd => tok = "EOF"
      /\ f.prod = "entry" /\ f.todo = Entry1(d) /\ d \in NoEnd => ends
      /\ f.prod = "rule" /\ f.todo = <<>> /\ d \in NoEnd => ends
      /\ f.prod = "list-of-rules" /\ f.todo # Rules0(d) /\ d \in NoEnd => ends
      /\ f.prod = More(d) /\ f.todo # <<>> /\ f.todo # More0 /\ d \in NoEnd => ends
      /\ f.prod = More(d) /\ f.todo = <<>> /\ Len(s) >= 2 /\ s[2].prod = "list-of-rules" /\ d \in NoEnd =>
           ends

(***************************************************************************)
(* What is read.                                                           *)
(***************************************************************************)
\* The terminal is the last token read, unless a production has failed, and
\* after EOF there is nothing but EOF.
Fetched ==
  /\ text \in Texts
  /\ IsASequence(input)
  /\ stack # <<>> => input # <<>> /\ lex_tok \in {input[Len(input)].tok, "ERROR"}
  /\ stack # <<>> /\ lex_tok = "EOF" => zone = "end" /\ Len(text.tokens) <= Len(input)

\* All has been read, or there is an error, or the text may go on.
Fin ==
  \/ errors # <<>>
  \/ lex_tok = "EOF"
  \/ dialect \in NoEnd /\ TokAt(Len(input) - 1) = "SEP"

Reading ==
  /\ outcome = "parsing" =>
       /\ Fetched
       /\ Chain(dialect, stack)
       /\ stack # <<>> => Reached(dialect, stack, lex_tok, Fin)
  /\ AllReadOtherwise
-----------------------------------------------------------------------------
(***************************************************************************)
(* The lines, one item after the other.                                    *)
(***************************************************************************)
LEMMA RulesFacts ==
  ASSUME NEW d
  PROVE  /\ Rules0(d) # <<>> /\ Rules0(d)[1].op = "call" /\ Rules0(d)[1].arg[1] = "rule"
         /\ Tail(Rules0(d)) = Rules1(d)
         /\ Rules1(d) # <<>> /\ Rules1(d)[1].op = "call" /\ Rules1(d)[1].arg[1] = More(d)
         /\ Tail(Rules1(d)) = Rules2 /\ Rules1(d) # Rules0(d)
         /\ Rules2 # <<>> /\ Rules2[1].op = "check" /\ Tail(Rules2) = <<>> /\ Rules2 # Rules0(d)
<1> DEFINE a == Call("rule", {}, "l")
           b == Call(More(d), {"l"}, "l")
<1>1. a.op = "call" /\ a.arg[1] = "rule" /\ b.op = "call" /\ b.arg[1] = More(d) /\ Check.op = "check"
  BY ItemFacts
<1>2. Rules0(d) = <<a, b, Check>> /\ Rules1(d) = <<b, Check>> /\ Rules2 = <<Check>>
  BY DEF Rules0, Rules1, Rules2
<1> HIDE DEF a, b
<1> QED
  BY <1>1, <1>2

LEMMA MoreFacts ==
  /\ More0 # <<>> /\ More0[1].op = "call" /\ More0[1].arg[1] = "list-of-rules" /\ Tail(More0) = More1
  /\ More1 # <<>> /\ More1[1].op = "check" /\ Tail(More1) = More2 /\ More1 # More0
  /\ More2 # <<>> /\ More2[1].op = "act" /\ Tail(More2) = <<>> /\ More2 # More0
<1> DEFINE a == Call("list-of-rules", {}, "r")
           b == Act("add-rule-to-list")
<1>1. a.op = "call" /\ a.arg[1] = "list-of-rules" /\ b.op = "act" /\ Check.op = "check"
  BY ItemFacts
<1>2. More0 = <<a, Check, b>> /\ More1 = <<Check, b>> /\ More2 = <<b>>
  BY DEF More0, More1, More2
<1> HIDE DEF a, b
<1> QED
  BY <1>1, <1>2

LEMMA EntryFacts ==
  ASSUME NEW d
  PROVE  /\ Entry0(d) # <<>> /\ Entry0(d)[1].op = "call" /\ Entry0(d)[1].arg[1] = "list-of-rules"
         /\ Tail(Entry0(d)) = Entry1(d) /\ Entry1(d) # <<>>
         /\ Entry0(d) # Entry1(d) /\ Entry0(d) # Entry2
         /\ d \in NoEnd => Entry1(d)[1].op = "check" /\ Tail(Entry1(d)) = <<>>
         /\ d \notin NoEnd => /\ Entry1(d)[1].op = "expect" /\ Entry1(d)[1].arg = "EOF"
                              /\ Tail(Entry1(d)) = Entry2 /\ Entry1(d) # Entry2
         /\ Entry2 # <<>> /\ Entry2[1].op = "advance" /\ Tail(Entry2) = <<>>
<1> DEFINE a == Call("list-of-rules", {}, "l")
           b == Expect("EOF")
<1>1. /\ a.op = "call" /\ a.arg[1] = "list-of-rules" /\ b.op = "expect" /\ b.arg = "EOF"
      /\ Check.op = "check" /\ Advance.op = "advance"
  BY ItemFacts
<1>2. CASE d \in NoEnd
  <2>1. Entry0(d) = <<a, Check>> /\ Entry1(d) = <<Check>> /\ Entry2 = <<Advance>>
    BY <1>2 DEF Entry0, Entry1, Entry2
  <2> HIDE DEF a, b
  <2> QED
    BY <1>1, <1>2, <2>1
<1>3. CASE d \notin NoEnd
  <2>1. Entry0(d) = <<a, b, Advance>> /\ Entry1(d) = <<b, Advance>> /\ Entry2 = <<Advance>>
    BY <1>3 DEF Entry0, Entry1, Entry2
  <2> HIDE DEF a, b
  <2> QED
    BY <1>1, <1>3, <2>1
<1> QED
  BY <1>2, <1>3

\* RuleRest, one item after the other.
LEMMA RuleRestFacts ==
  ASSUME NEW t, RuleRest(t), t # <<>>
  PROVE  /\ RuleRest(Tail(t)) /\ t[1].op \notin {"goto", "inline"}
         /\ Tail(t) = <<>> => t[1].op = "else" /\ t[1].arg \subseteq {"EOF", "SEP"}
<1> DEFINE u == Tail(t)
<1>1. Len(t) \in Nat /\ DOMAIN t = 1..Len(t) /\ Len(t) >= 1 /\ IsASequence(t)
  BY OfASequence DEF RuleRest
<1>2. /\ IsASequence(u) /\ Len(u) = Len(t) - 1 /\ DOMAIN u = 1..Len(t) - 1
      /\ \A i \in 1..Len(t) - 1 : u[i] = t[i + 1]
  BY <1>1, TailOf
<1>3. u # <<>> <=> Len(u) >= 1
  BY <1>2, OfASequence
<1> HIDE DEF u
<1>4. t[1].op \notin {"goto", "inline"}
  BY <1>1 DEF RuleRest
<1>5. u = <<>> => Len(t) = 1
  BY <1>1, <1>2, <1>3
<1>6. u # <<>> => u[Len(u)] = t[Len(t)]
  <2> SUFFICES ASSUME u # <<>> PROVE u[Len(u)] = t[Len(t)]
    OBVIOUS
  <2>1. Len(u) \in 1..Len(t) - 1 /\ Len(u) + 1 = Len(t)
    BY <1>1, <1>2, <1>3
  <2> QED
    BY <1>2, <2>1
<1>7. ASSUME NEW i \in DOMAIN u PROVE u[i].op \notin {"goto", "inline"}
  <2>1. i + 1 \in DOMAIN t /\ u[i] = t[i + 1]
    BY <1>1, <1>2
  <2> QED
    BY <2>1 DEF RuleRest
<1> QED
  BY <1>2, <1>4, <1>5, <1>6, <1>7 DEF RuleRest, u

(***************************************************************************)
(* A call that has just begun.                                             *)
(***************************************************************************)
LEMMA EntryBegins ==
  ASSUME dialect \in Dialects, NEW tok
  PROVE  Production("entry", tok) = Entry0(dialect)
<1>1. CASE dialect = "wsn"
  <2>1. Production("entry", tok) = Wsn!prod_wsn(tok)
    BY <1>1 DEF Production, Wsn!Production
  <2> QED
    BY <1>1, <2>1, WsnItems DEF Wsn!prod_wsn, Entry0, NoEnd
<1>2. CASE dialect = "bnf"
  <2>1. Production("entry", tok) = Bnf!prod_bnf(tok)
    BY <1>2 DEF Production, Bnf!Production
  <2> QED
    BY <1>2, <2>1, BnfItems DEF Bnf!prod_bnf, Entry0, NoEnd
<1>3. CASE dialect = "rbnf"
  <2>1. Production("entry", tok) = Rbnf!prod_rbnf(tok)
    BY <1>3 DEF Production, Rbnf!Production
  <2> QED
    BY <1>3, <2>1, RbnfItems DEF Rbnf!prod_rbnf, Entry0, NoEnd
<1>4. CASE dialect = "iso-ebnf"
  <2>1. Production("entry", tok) = Iso!prod_iso_Hebnf(tok)
    BY <1>4 DEF Production, Iso!Production
  <2> QED
    BY <1>4, <2>1, IsoItems DEF Iso!prod_iso_Hebnf, Entry0, NoEnd
<1>5. CASE dialect = "abnf"
  <2>1. Production("entry", tok) = Abnf!prod_abnf(tok)
    BY <1>5 DEF Production, Abnf!Production
  <2> QED
    BY <1>5, <2>1, AbnfItems DEF Abnf!prod_abnf, Entry0, NoEnd
<1> QED
  BY <1>1, <1>2, <1>3, <1>4, <1>5 DEF Dialects

LEMMA RulesBegin ==
  ASSUME dialect \in NoEnd, NEW tok
  PROVE  Production("list-of-rules", tok) = Rules0(dialect)
<1>1. CASE dialect = "bnf"
  <2>1. Production("list-of-rules", tok) = Bnf!prod_list_Hof_Hrules(tok)
    BY <1>1 DEF Production, Bnf!Production
  <2> QED
    BY <1>1, <2>1, BnfItems DEF Bnf!prod_list_Hof_Hrules, Rules0, More
<1>2. CASE dialect = "rbnf"
  <2>1. Production("list-of-rules", tok) = Rbnf!prod_list_Hof_Hrules(tok)
    BY <1>2 DEF Production, Rbnf!Production
  <2> QED
    BY <1>2, <2>1, RbnfItems DEF Rbnf!prod_list_Hof_Hrules, Rules0, More
<1> QED
  BY <1>1, <1>2 DEF NoEnd

LEMMA MoreBegins ==
  ASSUME dialect \in NoEnd, NEW tok
  PROVE  Production(More(dialect), tok) = More0 \/ Production(More(dialect), tok) = <<>>
<1>1. CASE dialect = "bnf"
  <2>1. Production(More(dialect), tok) = Bnf!prod_90(tok)
    BY <1>1 DEF Production, Bnf!Production, More
  <2> QED
    BY <2>1, BnfItems DEF Bnf!prod_90, More0
<1>2. CASE dialect = "rbnf"
  <2>1. Production(More(dialect), tok) = Rbnf!prod_91(tok)
    BY <1>2 DEF Production, Rbnf!Production, More
  <2> QED
    BY <2>1, RbnfItems DEF Rbnf!prod_91, More0
<1> QED
  BY <1>1, <1>2 DEF NoEnd

LEMMA RuleBegins ==
  ASSUME dialect \in NoEnd, NEW tok
  PROVE  RuleRest(Production("rule", tok)) /\ Production("rule", tok) # <<>>
<1> DEFINE t == <<Call("body", {}, NoLocal), Expect("NAME"), Extract("NAME", "s"), Advance,
                  Else({"EQUALS"}), Call("list-of-alts", {}, "a"), Check, Act("make-rule"),
                  Else({"EOF", "SEP"})>>
<1>1. Production("rule", tok) = t
  <2>1. CASE dialect = "bnf"
    <3>1. Production("rule", tok) = Bnf!prod_rule(tok)
      BY <2>1 DEF Production, Bnf!Production
    <3> QED
      BY <3>1, BnfItems DEF Bnf!prod_rule, NoLocal
  <2>2. CASE dialect = "rbnf"
    <3>1. Production("rule", tok) = Rbnf!prod_rule(tok)
      BY <2>2 DEF Production, Rbnf!Production
    <3> QED
      BY <3>1, RbnfItems DEF Rbnf!prod_rule, NoLocal
  <2> QED
    BY <2>1, <2>2 DEF NoEnd
<1>2. DOMAIN t = 1..9 /\ Len(t) = 9 /\ IsASequence(t) /\ t # <<>>
  BY DEF IsASequence
<1>3. /\ t[1] = Call("body", {}, NoLocal) /\ t[2] = Expect("NAME") /\ t[3] = Extract("NAME", "s")
      /\ t[4] = Advance /\ t[5] = Else({"EQUALS"}) /\ t[6] = Call("list-of-alts", {}, "a")
      /\ t[7] = Check /\ t[8] = Act("make-rule") /\ t[9] = Else({"EOF", "SEP"})
  OBVIOUS
<1> HIDE DEF t
<1>4. \A i \in DOMAIN t : t[i].op \notin {"goto", "inline"}
  BY <1>2, <1>3, ItemFacts
<1>5. t[9].op = "else" /\ t[9].arg = {"EOF", "SEP"}
  BY <1>3, ItemFacts
<1> QED
  BY <1>1, <1>2, <1>4, <1>5 DEF RuleRest

\* The names differ.
LEMMA NamesDiffer ==
  ASSUME NEW d
  PROVE  /\ More(d) # "entry" /\ More(d) # "rule" /\ More(d) # "list-of-rules"
BY DEF More

LEMMA FrameFacts ==
  ASSUME NEW f, NEW tok, NEW loc, NEW out
  PROVE  /\ Frame(f, tok, loc, out).prod = f /\ Frame(f, tok, loc, out).loc = loc
         /\ tok = "ERROR" => Frame(f, tok, loc, out).todo = <<>>
         /\ tok # "ERROR" => Frame(f, tok, loc, out).todo = Production(f, tok)
BY DEF Frame

LEMMA FreshShape ==
  ASSUME dialect \in Dialects, NEW f, NEW tok, NEW loc, NEW out
  PROVE  Shape(dialect, Frame(f, tok, loc, out))
<1> DEFINE c == Frame(f, tok, loc, out)
<1>1. c.prod = f /\ (tok = "ERROR" => c.todo = <<>>) /\ (tok # "ERROR" => c.todo = Production(f, tok))
  BY FrameFacts
<1> HIDE DEF c
<1>2. CASE tok = "ERROR"
  <2>1. RuleRest(<<>>)
    BY DEF RuleRest, IsASequence
  <2> QED
    BY <1>1, <1>2, <2>1 DEF Shape, c
<1>3. CASE tok # "ERROR"
  <2>1. c.prod = "entry" => c.todo = Entry0(dialect)
    BY <1>1, <1>3, EntryBegins
  <2>2. dialect \in NoEnd /\ c.prod = "list-of-rules" => c.todo = Rules0(dialect)
    BY <1>1, <1>3, RulesBegin
  <2>3. dialect \in NoEnd /\ c.prod = More(dialect) => c.todo = More0 \/ c.todo = <<>>
    BY <1>1, <1>3, MoreBegins
  <2>4. dialect \in NoEnd /\ c.prod = "rule" => RuleRest(c.todo)
    BY <1>1, <1>3, RuleBegins
  <2> QED
    BY <2>1, <2>2, <2>3, <2>4 DEF Shape, c
<1> QED
  BY <1>2, <1>3

\* When a call of it begins, little is known of the terminal.
LEMMA FreshReached ==
  ASSUME dialect \in Dialects, NEW f, NEW tok, NEW loc, NEW out, NEW s, s[1] = Frame(f, tok, loc, out),
         NEW fin \in BOOLEAN,
         f = "entry" => Len(s) # 1,
         f = More(dialect) /\ Len(s) >= 2 /\ s[2].prod = "list-of-rules" /\ dialect \in NoEnd =>
           tok = "ERROR" \/ fin
  PROVE  Reached(dialect, s, tok, fin)
<1> DEFINE c == s[1]
<1>1. c.prod = f /\ (tok = "ERROR" => c.todo = <<>>) /\ (tok # "ERROR" => c.todo = Production(f, tok))
  BY FrameFacts
<1> HIDE DEF c
<1>2. CASE tok = "ERROR"
  <2>1. Entry2 # <<>> /\ c.todo = <<>>
    BY <1>1, <1>2, EntryFacts
  <2>2. f = "entry" => Len(s) # 1
    OBVIOUS
  <2> QED
    BY <1>1, <1>2, <2>1, <2>2 DEF Reached, c
<1>3. CASE tok # "ERROR"
  <2>1. c.prod = "entry" => Len(s) # 1 /\ c.todo # Entry2 /\ c.todo # Entry1(dialect)
    BY <1>1, <1>3, EntryBegins, EntryFacts
  <2>2. dialect \in NoEnd /\ c.prod = "list-of-rules" => c.todo = Rules0(dialect)
    BY <1>1, <1>3, RulesBegin
  <2>3. dialect \in NoEnd /\ c.prod = More(dialect) => c.todo = More0 \/ c.todo = <<>>
    BY <1>1, <1>3, MoreBegins
  <2>4. dialect \in NoEnd /\ c.prod = "rule" => c.todo # <<>>
    BY <1>1, <1>3, RuleBegins
  <2>5. c.prod = More(dialect) /\ Len(s) >= 2 /\ s[2].prod = "list-of-rules" /\ dialect \in NoEnd => fin
    BY <1>1, <1>3
  <2> QED
    BY <2>1, <2>2, <2>3, <2>4, <2>5 DEF Reached, c
<1> QED
  BY <1>2, <1>3

(***************************************************************************)
(* The calls on the stack.                                                 *)
(***************************************************************************)
\* The innermost call becomes f.
LEMMA ChainPut ==
  ASSUME NEW d, NEW s, Chain(d, s), s # <<>>, NEW f, Shape(d, f),
         Len(s) = 1 => f.prod = "entry", Len(s) >= 2 => Calls(d, s[2], f)
  PROVE  /\ Chain(d, <<f>> \o Tail(s)) /\ <<f>> \o Tail(s) # <<>>
         /\ (<<f>> \o Tail(s))[1] = f /\ Len(<<f>> \o Tail(s)) = Len(s)
         /\ Len(s) >= 2 => (<<f>> \o Tail(s))[2] = s[2]
<1> DEFINE u == <<f>> \o Tail(s)
<1>1. IsASequence(s) /\ Len(s) \in Nat /\ Len(s) >= 1
  BY OfASequence DEF Chain
<1>2. /\ IsASequence(u) /\ Len(u) = Len(s) /\ u[1] = f
      /\ \A i \in 2..Len(s) : u[i] = s[i]
  BY <1>1, PutFirst
<1>3. u # <<>>
  BY <1>1, <1>2, OfASequence
<1> HIDE DEF u
<1>4. u[Len(u)].prod = "entry"
  <2>1. CASE Len(s) = 1
    BY <1>2, <2>1
  <2>2. CASE Len(s) # 1
    <3>1. Len(s) \in 2..Len(s)
      <4> DEFINE n == Len(s)
      <4>1. n \in Nat /\ n >= 1 /\ n # 1
        BY <1>1, <2>2
      <4> HIDE DEF n
      <4>2. n \in 2..n
        BY <4>1
      <4> QED
        BY <4>2 DEF n
    <3> QED
      BY <1>2, <3>1 DEF Chain
  <2> QED
    BY <2>1, <2>2
<1>5. ASSUME NEW i \in 1..Len(u) PROVE Shape(d, u[i])
  <2>1. i = 1 \/ i \in 2..Len(s)
    BY <1>1, <1>2
  <2>2. \A j \in 2..Len(s) : Shape(d, u[j])
    BY <1>1, <1>2 DEF Chain
  <2> QED
    BY <1>2, <2>1, <2>2
<1>6. ASSUME NEW i \in 2..Len(u) PROVE Calls(d, u[i], u[i - 1])
  <2>1. i \in 2..Len(s) /\ u[i] = s[i] /\ Calls(d, s[i], s[i - 1])
    BY <1>2 DEF Chain
  <2>2. CASE i = 2
    <3>1. i - 1 = 1 /\ Len(s) >= 2
      BY <1>1, <2>1, <2>2
    <3> QED
      BY <1>2, <2>1, <2>2, <3>1
  <2>3. CASE i # 2
    <3>1. i - 1 \in 2..Len(s)
      BY <1>1, <2>1, <2>3
    <3> QED
      BY <1>2, <2>1, <3>1
  <2> QED
    BY <2>2, <2>3
<1>7. Len(s) >= 2 => u[2] = s[2]
  BY <1>1, <1>2
<1> QED
  BY <1>2, <1>3, <1>4, <1>5, <1>6, <1>7 DEF Chain, u

\* The innermost call becomes c, and calls f.
LEMMA ChainCall ==
  ASSUME NEW d, NEW s, Chain(d, s), s # <<>>, NEW f, NEW c, Shape(d, f), Shape(d, c), Calls(d, c, f),
         Len(s) = 1 => c.prod = "entry", Len(s) >= 2 => Calls(d, s[2], c)
  PROVE  /\ Chain(d, <<f, c>> \o Tail(s)) /\ <<f, c>> \o Tail(s) # <<>>
         /\ (<<f, c>> \o Tail(s))[1] = f /\ (<<f, c>> \o Tail(s))[2] = c
         /\ Len(<<f, c>> \o Tail(s)) = Len(s) + 1 /\ Len(s) \in Nat /\ Len(s) >= 1
<1> DEFINE u == <<f, c>> \o Tail(s)
<1>1. IsASequence(s) /\ Len(s) \in Nat /\ Len(s) >= 1
  BY OfASequence DEF Chain
<1>2. /\ IsASequence(u) /\ Len(u) = Len(s) + 1 /\ u[1] = f /\ u[2] = c
      /\ \A i \in 3..Len(s) + 1 : u[i] = s[i - 1]
  BY <1>1, PutTwoFirst
<1>3. u # <<>>
  BY <1>1, <1>2, OfASequence
<1> HIDE DEF u
<1>4. u[Len(u)].prod = "entry"
  <2>1. CASE Len(s) = 1
    BY <1>2, <2>1
  <2>2. CASE Len(s) # 1
    <3>1. Len(u) \in 3..Len(s) + 1 /\ Len(u) - 1 = Len(s)
      <4> DEFINE n == Len(s)
                 m == Len(u)
      <4>1. n \in Nat /\ n >= 1 /\ n # 1 /\ m = n + 1
        BY <1>1, <1>2, <2>2
      <4> HIDE DEF n, m
      <4>2. m \in 3..n + 1 /\ m - 1 = n
        BY <4>1
      <4> QED
        BY <4>2 DEF n, m
    <3>2. u[Len(u)] = s[Len(u) - 1]
      BY <1>2, <3>1
    <3> QED
      BY <3>1, <3>2 DEF Chain
  <2> QED
    BY <2>1, <2>2
<1>5. ASSUME NEW i \in 1..Len(u) PROVE Shape(d, u[i])
  <2>1. CASE i = 1
    BY <1>2, <2>1
  <2>2. CASE i = 2
    BY <1>2, <2>2
  <2>3. CASE i # 1 /\ i # 2
    <3>1. i \in 3..Len(s) + 1 /\ i - 1 \in 1..Len(s)
      BY <1>1, <1>2, <2>3
    <3> QED
      BY <1>2, <3>1 DEF Chain
  <2> QED
    BY <2>1, <2>2, <2>3
<1>6. ASSUME NEW i \in 2..Len(u) PROVE Calls(d, u[i], u[i - 1])
  <2>1. CASE i = 2
    <3>1. i - 1 = 1
      BY <2>1
    <3> QED
      BY <1>2, <2>1, <3>1
  <2>2. CASE i = 3
    <3>1. i - 1 = 2 /\ Len(s) >= 2 /\ i \in 3..Len(s) + 1
      <4> DEFINE n == Len(s)
                 m == Len(u)
      <4>1. n \in Nat /\ m = n + 1 /\ i \in 2..m /\ i = 3
        BY <1>1, <1>2, <2>2
      <4> HIDE DEF n, m
      <4>2. i - 1 = 2 /\ n >= 2 /\ i \in 3..n + 1
        BY <4>1
      <4> QED
        BY <4>2 DEF n
    <3>2. u[i] = s[2]
      BY <1>2, <3>1
    <3> QED
      BY <1>2, <3>1, <3>2
  <2>3. CASE i # 2 /\ i # 3
    <3>1. i \in 3..Len(s) + 1 /\ i - 1 \in 3..Len(s) + 1 /\ i - 1 \in 2..Len(s)
      BY <1>1, <1>2, <2>3
    <3>2. u[i] = s[i - 1] /\ u[i - 1] = s[(i - 1) - 1]
      BY <1>2, <3>1
    <3>3. Calls(d, s[i - 1], s[(i - 1) - 1])
      BY <3>1 DEF Chain
    <3> QED
      BY <3>2, <3>3
  <2> QED
    BY <2>1, <2>2, <2>3
<1> QED
  BY <1>1, <1>2, <1>3, <1>4, <1>5, <1>6 DEF Chain, u

\* The innermost call has gone.
LEMMA ChainLeave ==
  ASSUME NEW d, NEW s, Chain(d, s), s # <<>>, s[1].prod # "entry"
  PROVE  /\ Chain(d, Tail(s)) /\ Tail(s) # <<>> /\ Tail(s)[1] = s[2] /\ Calls(d, s[2], s[1])
<1> DEFINE u == Tail(s)
<1>1. IsASequence(s) /\ Len(s) \in Nat /\ Len(s) >= 2
  <2>1. IsASequence(s) /\ Len(s) \in Nat /\ Len(s) >= 1
    BY OfASequence DEF Chain
  <2>2. Len(s) # 1
    BY DEF Chain
  <2> QED
    BY <2>1, <2>2
<1>2. /\ IsASequence(u) /\ Len(u) = Len(s) - 1
      /\ \A i \in 1..Len(s) - 1 : u[i] = s[i + 1]
  BY <1>1, TailOf
<1>3. u # <<>>
  <2>1. Len(u) >= 1
    BY <1>1, <1>2
  <2> QED
    BY <1>2, <2>1, OfASequence
<1> HIDE DEF u
<1>4. u[Len(u)].prod = "entry" /\ u[1] = s[2]
  <2>1. Len(u) \in 1..Len(s) - 1 /\ Len(u) + 1 = Len(s) /\ 1 \in 1..Len(s) - 1 /\ 1 + 1 = 2
    BY <1>1, <1>2
  <2>2. u[Len(u)] = s[Len(s)] /\ u[1] = s[2]
    BY <1>2, <2>1
  <2> QED
    BY <2>2 DEF Chain
<1>5. ASSUME NEW i \in 1..Len(u) PROVE Shape(d, u[i])
  <2>1. i \in 1..Len(s) - 1 /\ i + 1 \in 1..Len(s)
    BY <1>1, <1>2
  <2> QED
    BY <1>2, <2>1 DEF Chain
<1>6. ASSUME NEW i \in 2..Len(u) PROVE Calls(d, u[i], u[i - 1])
  <2>1. /\ i \in 1..Len(s) - 1 /\ i - 1 \in 1..Len(s) - 1 /\ i + 1 \in 2..Len(s)
        /\ (i + 1) - 1 = i /\ (i - 1) + 1 = i
    BY <1>1, <1>2
  <2>2. u[i] = s[i + 1] /\ u[i - 1] = s[i]
    BY <1>2, <2>1
  <2>3. Calls(d, s[i + 1], s[(i + 1) - 1])
    BY <2>1 DEF Chain
  <2> QED
    BY <2>1, <2>2, <2>3
<1>7. Calls(d, s[2], s[1])
  <2>1. 2 \in 2..Len(s) /\ 2 - 1 = 1
    BY <1>1
  <2>2. Calls(d, s[2], s[2 - 1])
    BY <2>1 DEF Chain
  <2> QED
    BY <2>1, <2>2
<1> QED
  BY <1>2, <1>3, <1>4, <1>5, <1>6, <1>7 DEF Chain, u

\* The innermost call has gone, and the one beneath goes on as f.
LEMMA ChainReturn ==
  ASSUME NEW d, NEW s, Chain(d, s), Len(s) >= 2, NEW f, f.prod = s[2].prod, f.todo = s[2].todo
  PROVE  /\ Chain(d, <<f>> \o SubSeq(s, 3, Len(s))) /\ <<f>> \o SubSeq(s, 3, Len(s)) # <<>>
         /\ (<<f>> \o SubSeq(s, 3, Len(s)))[1] = f
         /\ Calls(d, s[2], s[1])
<1> DEFINE u == <<f>> \o SubSeq(s, 3, Len(s))
<1>1. IsASequence(s) /\ Len(s) \in Nat /\ s # <<>>
  BY OfASequence DEF Chain
<1>2. /\ IsASequence(u) /\ Len(u) = Len(s) - 1 /\ u[1] = f
      /\ \A i \in 2..Len(s) - 1 : u[i] = s[i + 1]
  BY <1>1, PutForTwo
<1>3. u # <<>>
  <2>1. Len(u) >= 1
    BY <1>1, <1>2
  <2> QED
    BY <1>2, <2>1, OfASequence
<1> HIDE DEF u
<1>4. \A i \in 1..Len(u) : i + 1 \in 2..Len(s) /\ u[i].prod = s[i + 1].prod /\ u[i].todo = s[i + 1].todo
  <2> SUFFICES ASSUME NEW i \in 1..Len(u)
               PROVE  i + 1 \in 2..Len(s) /\ u[i].prod = s[i + 1].prod /\ u[i].todo = s[i + 1].todo
    OBVIOUS
  <2>1. i + 1 \in 2..Len(s)
    BY <1>1, <1>2
  <2>2. CASE i = 1
    <3>1. i + 1 = 2
      BY <2>2
    <3> QED
      BY <1>2, <2>1, <2>2, <3>1
  <2>3. CASE i # 1
    <3>1. i \in 2..Len(s) - 1
      BY <1>1, <1>2, <2>3
    <3> QED
      BY <1>2, <2>1, <3>1
  <2> QED
    BY <2>2, <2>3
<1>5. u[Len(u)].prod = "entry"
  <2>1. Len(u) \in 1..Len(u) /\ Len(u) + 1 = Len(s)
    BY <1>1, <1>2
  <2>2. u[Len(u)].prod = s[Len(s)].prod
    BY <1>4, <2>1
  <2> QED
    BY <1>1, <2>2 DEF Chain
<1>6. ASSUME NEW i \in 1..Len(u) PROVE Shape(d, u[i])
  <2>1. i + 1 \in 1..Len(s) /\ u[i].prod = s[i + 1].prod /\ u[i].todo = s[i + 1].todo
    BY <1>1, <1>4
  <2>2. Shape(d, s[i + 1])
    BY <2>1 DEF Chain
  <2> QED
    BY <2>1, <2>2 DEF Shape
<1>7. ASSUME NEW i \in 2..Len(u) PROVE Calls(d, u[i], u[i - 1])
  <2>1. /\ i \in 1..Len(u) /\ i - 1 \in 1..Len(u) /\ (i - 1) + 1 = i /\ (i + 1) - 1 = i
    BY <1>1, <1>2
  <2>2. /\ i + 1 \in 2..Len(s) /\ u[i].prod = s[i + 1].prod /\ u[i].todo = s[i + 1].todo
        /\ u[i - 1].prod = s[i].prod
    BY <1>4, <2>1
  <2>3. Calls(d, s[i + 1], s[(i + 1) - 1])
    BY <2>2 DEF Chain
  <2> QED
    BY <2>1, <2>2, <2>3 DEF Calls
<1>8. Calls(d, s[2], s[1])
  <2>1. 2 \in 2..Len(s) /\ 2 - 1 = 1
    BY <1>1
  <2>2. Calls(d, s[2], s[2 - 1])
    BY <2>1 DEF Chain
  <2> QED
    BY <2>1, <2>2
<1> QED
  BY <1>2, <1>3, <1>5, <1>6, <1>7, <1>8 DEF Chain, u

(***************************************************************************)
(* The lexer.                                                              *)
(***************************************************************************)
\* At EOF every lexer ends.
LEMMA EofZones ==
  /\ \A t \in wsn_z0 \union wsn_z1 \union Ends({"EOF"}) : t[1] = "EOF" => t[2] = "end"
  /\ \A t \in bnf_z0 \union bnf_z1 \union bnf_z2 \union bnf_z3 \union Ends({"EOF"}) :
       t[1] = "EOF" => t[2] = "end"
  /\ \A t \in rbnf_z0 \union rbnf_z1 \union Ends({"EOF"}) : t[1] = "EOF" => t[2] = "end"
  /\ \A t \in iso_z0 \union iso_z1 \union iso_z2 \union iso_z4 \union Ends({"EOF"}) :
       t[1] = "EOF" => t[2] = "end"
  /\ \A t \in abnf_z0 \union abnf_z1 \union abnf_z2 \union abnf_z4 \union Ends({"EOF"}) :
       t[1] = "EOF" => t[2] = "end"
<1>1. \A t \in wsn_z0 \union wsn_z1 \union Ends({"EOF"}) : t[1] = "EOF" => t[2] = "end"
  BY DEF wsn_z0, wsn_z1, In, Ends
<1>2. \A t \in bnf_z0 \union bnf_z1 \union bnf_z2 \union bnf_z3 \union Ends({"EOF"}) :
        t[1] = "EOF" => t[2] = "end"
  BY DEF bnf_z0, bnf_z1, bnf_z2, bnf_z3, In, Ends
<1>3. \A t \in rbnf_z0 \union rbnf_z1 \union Ends({"EOF"}) : t[1] = "EOF" => t[2] = "end"
  BY DEF rbnf_z0, rbnf_z1, In, Ends
<1>4. \A t \in iso_z0 \union iso_z1 \union iso_z2 \union iso_z4 \union Ends({"EOF"}) :
        t[1] = "EOF" => t[2] = "end"
  <2>1. \A t \in iso_z0 \union iso_z1 \union iso_z2 \union Ends({"EOF"}) : t[1] = "EOF" => t[2] = "end"
    BY DEF iso_z0, iso_z1, iso_z2, In, Ends
  <2>2. \A t \in iso_z4 : t \in iso_z0 \union iso_z1 \union iso_z2 \/ (t[1] = "EOF" => t[2] = "end")
    BY DEF iso_z4, In, Ends
  <2> QED
    BY <2>1, <2>2
<1>5. \A t \in abnf_z0 \union abnf_z1 \union abnf_z2 \union abnf_z4 \union Ends({"EOF"}) :
        t[1] = "EOF" => t[2] = "end"
  <2>1. \A t \in abnf_z0 \union abnf_z1 \union abnf_z2 \union Ends({"EOF"}) : t[1] = "EOF" => t[2] = "end"
    BY DEF abnf_z0, abnf_z1, abnf_z2, In, Ends
  <2>2. \A t \in abnf_z4 : t \in abnf_z0 \union abnf_z1 \union abnf_z2 \/ (t[1] = "EOF" => t[2] = "end")
    BY DEF abnf_z4, In, Ends
  <2> QED
    BY <2>1, <2>2
<1> QED
  BY <1>1, <1>2, <1>3, <1>4, <1>5

LEMMA EofIsTheEnd ==
  ASSUME NEW d \in Dialects, NEW z \in ZonesOf(d), NEW t \in lx_next(d, z)
  PROVE  /\ t[1] = "EOF" => t[2] = "end"
         /\ z = "end" => t[1] = "EOF"
<1>1. CASE z = "end"
  BY <1>1 DEF lx_next, Ends, In
<1>2. CASE z # "end" /\ d = "wsn"
  <2>1. z \in {"z0", "z1"}
    BY <1>2 DEF ZonesOf
  <2>2. lx_next(d, z) \subseteq wsn_z0 \union wsn_z1
    BY <1>2, <2>1 DEF lx_next
  <2> QED
    BY <1>2, <2>2, EofZones
<1>3. CASE z # "end" /\ d = "bnf"
  <2>1. z \in {"z0", "z1", "z2", "z3"}
    BY <1>3 DEF ZonesOf
  <2>2. lx_next(d, z) \subseteq bnf_z0 \union bnf_z1 \union bnf_z2 \union bnf_z3
    BY <1>3, <2>1 DEF lx_next
  <2> QED
    BY <1>3, <2>2, EofZones
<1>4. CASE z # "end" /\ d = "rbnf"
  <2>1. z \in {"z0", "z1"}
    BY <1>4 DEF ZonesOf
  <2>2. lx_next(d, z) \subseteq rbnf_z0 \union rbnf_z1
    BY <1>4, <2>1 DEF lx_next
  <2> QED
    BY <1>4, <2>2, EofZones
<1>5. CASE z # "end" /\ d = "iso-ebnf"
  <2>1. z \in {"z0", "z1", "z2", "z4"}
    BY <1>5 DEF ZonesOf
  <2>2. lx_next(d, z) \subseteq iso_z0 \union iso_z1 \union iso_z2 \union iso_z4
    BY <1>5, <2>1 DEF lx_next
  <2> QED
    BY <1>5, <2>2, EofZones
<1>6. CASE z # "end" /\ d = "abnf"
  <2>1. z \in {"z0", "z1", "z2", "z4"}
    BY <1>6 DEF ZonesOf
  <2>2. lx_next(d, z) \subseteq abnf_z0 \union abnf_z1 \union abnf_z2 \union abnf_z4
    BY <1>6, <2>1 DEF lx_next
  <2> QED
    BY <1>6, <2>2, EofZones
<1> QED
  BY <1>1, <1>2, <1>3, <1>4, <1>5, <1>6 DEF Dialects

\* A token of the lexer's own comes after those given.
LEMMA LexedFacts ==
  ASSUME dialect \in Dialects, zone \in ZonesOf(dialect), text \in Texts, IsASequence(input),
         NEW l \in Lexed
  PROVE  /\ l[1].tok = "EOF" => l[2] = "end" /\ Len(text.tokens) <= Len(input)
         /\ zone = "end" /\ Len(text.tokens) <= Len(input) => l[1].tok = "EOF"
<1> DEFINE n == Len(input)
           m == Len(text.tokens)
<1>1. n \in Nat /\ m \in Nat /\ \A i \in 1..m : text.tokens[i].tok # "EOF"
  BY OfASequence, SidParserAssumption
<1>2. CASE n < m
  <2>1. l = <<text.tokens[n + 1], zone>>
    BY <1>2 DEF Lexed
  <2>2. n + 1 \in 1..m /\ ~(m <= n)
    BY <1>1, <1>2
  <2>3. l[1].tok # "EOF"
    BY <1>1, <2>1, <2>2
  <2> QED
    BY <2>2, <2>3
<1>3. CASE ~(n < m)
  <2>1. PICK next \in lx_next(dialect, zone) :
          \E b : l = <<Token(IF next[1] = "CHARS" THEN "CHAR" ELSE next[1], b), next[2]>>
    BY <1>3 DEF Lexed
  <2>2. /\ l[1].tok = IF next[1] = "CHARS" THEN "CHAR" ELSE next[1]
        /\ l[2] = next[2]
    BY <2>1 DEF Token
  <2>3. /\ next[1] = "EOF" => next[2] = "end"
        /\ zone = "end" => next[1] = "EOF"
    BY EofIsTheEnd
  <2>4. m <= n
    BY <1>1, <1>3
  <2> QED
    BY <2>2, <2>3, <2>4
<1> QED
  BY <1>2, <1>3

\* A token is read.
LEMMA FetchedNext ==
  ASSUME dialect \in Dialects, zone \in ZonesOf(dialect), text \in Texts, UNCHANGED text,
         IsASequence(input), NEW l \in Lexed, Take(l)
  PROVE  /\ IsASequence(input') /\ input' # <<>> /\ Len(input') = Len(input) + 1 /\ Len(input) \in Nat
         /\ lex_tok' = input'[Len(input')].tok
         /\ \A i \in 1..Len(input) : input'[i] = input[i]
         /\ lex_tok' = "EOF" => zone' = "end" /\ Len(text.tokens) <= Len(input')
         /\ zone = "end" /\ Len(text.tokens) <= Len(input) => lex_tok' = "EOF"
<1>1. lex_tok' = l[1].tok /\ zone' = l[2] /\ input' = Append(input, l[1])
  BY DEF Take
<1>2. PICK S : input \in Seq(S)
  BY DEF IsASequence
<1>3. input \in Seq(S \union {l[1]}) /\ l[1] \in S \union {l[1]}
  BY <1>2, SeqMonotonic
<1>4. /\ input' \in Seq(S \union {l[1]}) /\ input' # <<>> /\ Len(input') = Len(input) + 1
      /\ input'[Len(input) + 1] = l[1]
      /\ \A i \in 1..Len(input) : input'[i] = input[i]
  BY <1>1, <1>3, AppendProperties
<1>5. IsASequence(input') /\ Len(input) \in Nat /\ Len(text.tokens) \in Nat
  BY <1>4, InSeqIsASequence, OfASequence, SidParserAssumption
<1>6. Len(text.tokens) <= Len(input) => Len(text.tokens) <= Len(input')
  <2> DEFINE n == Len(input)
             m == Len(text.tokens)
             k == Len(input')
  <2>1. n \in Nat /\ m \in Nat /\ k = n + 1
    BY <1>4, <1>5
  <2> HIDE DEF n, m, k
  <2>2. m <= n => m <= k
    BY <2>1
  <2> QED
    BY <2>2 DEF n, m, k
<1> QED
  BY <1>1, <1>4, <1>5, <1>6, LexedFacts

(***************************************************************************)
(* What is known of the terminal, one item after the other.                *)
(***************************************************************************)
\* The line of the innermost call loses its first item, and f is that call then.
LEMMA MovedOnShape ==
  ASSUME NEW d, NEW s, Chain(d, s), s # <<>>, s[1].todo # <<>>, s[1].todo[1].op # "call",
         NEW f, f.prod = s[1].prod, f.todo = Tail(s[1].todo)
  PROVE  /\ Shape(d, f)
         /\ Len(s) = 1 => f.prod = "entry"
         /\ Len(s) >= 2 => Calls(d, s[2], f)
<1> DEFINE c == s[1]
<1>1. Len(s) \in Nat /\ Len(s) >= 1
  BY OfASequence DEF Chain
<1>2. Shape(d, c) /\ c.todo # <<>> /\ c.todo[1].op # "call"
  <2>1. 1 \in 1..Len(s)
    BY <1>1
  <2> QED
    BY <2>1 DEF Chain
<1>3. Len(s) = 1 => c.prod = "entry"
  BY DEF Chain
<1>4. Len(s) >= 2 => Calls(d, s[2], c)
  <2> SUFFICES ASSUME Len(s) >= 2 PROVE Calls(d, s[2], c)
    OBVIOUS
  <2>1. 2 \in 2..Len(s) /\ 2 - 1 = 1
    BY <1>1
  <2>2. Calls(d, s[2], s[2 - 1])
    BY <2>1 DEF Chain
  <2> QED
    BY <2>1, <2>2
<1>5. f.prod = c.prod /\ f.todo = Tail(c.todo)
  OBVIOUS
<1> HIDE DEF c
<1>6. ASSUME c.prod = "entry"
      PROVE  f.todo = <<>> \/ f.todo = Entry1(d) \/ (d \notin NoEnd /\ f.todo = Entry2)
  BY <1>2, <1>5, <1>6, EntryFacts DEF Shape
<1>7. ASSUME d \in NoEnd, c.prod = "list-of-rules" PROVE f.todo = <<>>
  BY <1>2, <1>5, <1>7, RulesFacts DEF Shape
<1>8. ASSUME d \in NoEnd, c.prod = More(d) PROVE f.todo = <<>> \/ f.todo = More2
  BY <1>2, <1>5, <1>8, MoreFacts DEF Shape
<1>9. ASSUME d \in NoEnd, c.prod = "rule" PROVE RuleRest(f.todo)
  BY <1>2, <1>5, <1>9, RuleRestFacts DEF Shape
<1>10. Shape(d, f)
  BY <1>5, <1>6, <1>7, <1>8, <1>9 DEF Shape
<1>11. Len(s) >= 2 => Calls(d, s[2], f)
  BY <1>4, <1>5 DEF Calls
<1> QED
  BY <1>3, <1>5, <1>10, <1>11

LEMMA MovedOnReached ==
  ASSUME NEW d, NEW s, Chain(d, s), s # <<>>, s[1].todo # <<>>,
         NEW f, f.prod = s[1].prod, f.todo = Tail(s[1].todo),
         NEW u, u[1] = f, Len(u) = Len(s),
         NEW op, s[1].todo[1].op = op, op # "call",
         NEW tok, NEW fin \in BOOLEAN, Reached(d, s, tok, fin),
         NEW tok2, NEW fin2 \in BOOLEAN,
         op \notin {"advance", "else"} => tok2 = tok /\ (fin => fin2),
         op = "advance" /\ tok = "EOF" => tok2 = "EOF" /\ fin2,
         op = "else" /\ s[1].todo[1].arg \subseteq {"EOF", "SEP"} /\ d \in NoEnd => fin2,
         op = "check" => tok # "ERROR",
         op = "expect" => tok = s[1].todo[1].arg
  PROVE  Reached(d, u, tok2, fin2)
<1> DEFINE c    == s[1]
           ends == tok2 = "ERROR" \/ fin2
<1>1. Shape(d, c) /\ c.todo # <<>> /\ c.todo[1].op = op
  <2>1. 1 \in 1..Len(s)
    BY OfASequence DEF Chain
  <2> QED
    BY <2>1 DEF Chain
<1>2. f.prod = c.prod /\ f.todo = Tail(c.todo)
  OBVIOUS
<1>3. /\ c.prod = "entry" /\ c.todo = Entry2 /\ d \notin NoEnd => tok = "EOF"
      /\ c.prod = "entry" /\ c.todo = Entry1(d) /\ d \in NoEnd => tok = "ERROR" \/ fin
      /\ c.prod = "list-of-rules" /\ c.todo # Rules0(d) /\ d \in NoEnd => tok = "ERROR" \/ fin
      /\ c.prod = More(d) /\ c.todo # <<>> /\ c.todo # More0 /\ d \in NoEnd => tok = "ERROR" \/ fin
  BY DEF Reached
<1>4. /\ op = "else" /\ c.todo[1].arg \subseteq {"EOF", "SEP"} /\ d \in NoEnd => fin2
      /\ op = "expect" => tok = c.todo[1].arg
  OBVIOUS
<1> HIDE DEF c
<1>5. ASSUME c.prod = "entry", f.todo = <<>> PROVE tok2 # "ERROR" /\ fin2
  <2>1. CASE c.todo = Entry1(d) /\ d \in NoEnd
    BY <1>1, <1>3, <1>5, <2>1, EntryFacts
  <2>2. CASE c.todo = Entry2 /\ d \notin NoEnd
    BY <1>1, <1>3, <1>5, <2>2, EntryFacts
  <2>3. CASE c.todo = Entry0(d)
    BY <1>1, <2>3, EntryFacts
  <2>4. CASE c.todo = Entry1(d) /\ d \notin NoEnd
    BY <1>1, <1>2, <1>5, <2>4, EntryFacts
  <2> QED
    BY <1>1, <1>5, <2>1, <2>2, <2>3, <2>4 DEF Shape
<1>6. ASSUME c.prod = "entry", f.todo = Entry2, d \notin NoEnd PROVE tok2 = "EOF"
  <2>1. c.todo = Entry1(d)
    BY <1>1, <1>2, <1>6, EntryFacts DEF Shape
  <2> QED
    BY <1>1, <1>4, <1>6, <2>1, EntryFacts
<1>7. ~(c.prod = "entry" /\ f.todo = Entry1(d) /\ d \in NoEnd)
  BY <1>1, <1>2, EntryFacts DEF Shape
<1>8. ASSUME c.prod = "rule", f.todo = <<>>, d \in NoEnd PROVE ends
  BY <1>1, <1>2, <1>4, <1>8, RuleRestFacts DEF Shape
<1>9. ASSUME c.prod = "list-of-rules", d \in NoEnd PROVE ends
  <2>1. c.todo = Rules2
    BY <1>1, <1>9, RulesFacts DEF Shape
  <2> QED
    BY <1>1, <1>3, <1>9, <2>1, RulesFacts
<1>10. ASSUME c.prod = More(d), d \in NoEnd PROVE ends
  <2>1. c.todo = More1 \/ c.todo = More2
    BY <1>1, <1>10, MoreFacts DEF Shape
  <2> QED
    BY <1>1, <1>3, <1>10, <2>1, MoreFacts
<1> QED
  BY <1>2, <1>5, <1>6, <1>7, <1>8, <1>9, <1>10 DEF Reached

\* The innermost call makes a call.
LEMMA CalledShape ==
  ASSUME NEW d, NEW f, Shape(d, f), f.todo # <<>>, f.todo[1].op = "call",
         NEW c, c.prod = f.prod, c.todo = Tail(f.todo), NEW new, new.prod = f.todo[1].arg[1]
  PROVE  Shape(d, c) /\ Calls(d, c, new)
<1>1. ASSUME f.prod = "entry" PROVE c.todo = Entry1(d) /\ new.prod = "list-of-rules"
  BY <1>1, EntryFacts DEF Shape
<1>2. ASSUME d \in NoEnd, f.prod = "list-of-rules"
      PROVE  \/ c.todo = Rules1(d) /\ new.prod = "rule"
             \/ c.todo = Rules2 /\ new.prod = More(d)
  BY <1>2, RulesFacts DEF Shape
<1>3. ASSUME d \in NoEnd, f.prod = More(d) PROVE c.todo = More1 /\ new.prod = "list-of-rules"
  BY <1>3, MoreFacts DEF Shape
<1>4. ASSUME d \in NoEnd, f.prod = "rule" PROVE RuleRest(c.todo) /\ c.todo # <<>>
  BY <1>4, RuleRestFacts DEF Shape
<1> QED
  BY <1>1, <1>2, <1>3, <1>4 DEF Shape, Calls

\* The calls Chain speaks of do not go elsewhere.
LEMMA NoJump ==
  ASSUME NEW d, NEW f, Shape(d, f), f.todo # <<>>, f.todo[1].op \in {"goto", "inline"}
  PROVE  f.prod # "entry" /\ (d \in NoEnd => f.prod \notin {"list-of-rules", "rule", More(d)})
<1>1. ASSUME f.prod = "entry" PROVE FALSE
  BY <1>1, EntryFacts DEF Shape
<1>2. ASSUME d \in NoEnd, f.prod = "list-of-rules" PROVE FALSE
  BY <1>2, RulesFacts DEF Shape
<1>3. ASSUME d \in NoEnd, f.prod = More(d) PROVE FALSE
  BY <1>3, MoreFacts DEF Shape
<1>4. ASSUME d \in NoEnd, f.prod = "rule" PROVE FALSE
  BY <1>4, RuleRestFacts DEF Shape
<1> QED
  BY <1>1, <1>2, <1>3, <1>4

\* The innermost call has failed, or come back.
LEMMA LeftReached ==
  ASSUME NEW d, NEW u, NEW c, Calls(d, u[1], c), NEW fin
  PROVE  Reached(d, u, "ERROR", fin)
<1>1. u[1].prod = "entry" => u[1].todo = Entry1(d)
  BY DEF Calls
<1> QED
  BY <1>1, EntryFacts DEF Reached

LEMMA ReturnedReached ==
  ASSUME NEW d, NEW s, Len(s) >= 2, s[1].todo = <<>>, Calls(d, s[2], s[1]),
         NEW tok, NEW fin \in BOOLEAN, Reached(d, s, tok, fin),
         NEW u, u[1].prod = s[2].prod, u[1].todo = s[2].todo
  PROVE  Reached(d, u, tok, fin)
<1> DEFINE c    == s[1]
           f    == s[2]
           ends == tok = "ERROR" \/ fin
<1>1. /\ c.prod = "rule" /\ d \in NoEnd => ends
      /\ c.prod = "list-of-rules" /\ c.todo # Rules0(d) /\ d \in NoEnd => ends
      /\ c.prod = More(d) /\ f.prod = "list-of-rules" /\ d \in NoEnd => ends
  BY DEF Reached
<1>2. c.todo = <<>> /\ Calls(d, f, c) /\ u[1].prod = f.prod /\ u[1].todo = f.todo
  OBVIOUS
<1> HIDE DEF c, f
<1>3. ASSUME f.prod = "entry"
      PROVE  f.todo # <<>> /\ (d \notin NoEnd => f.todo # Entry2) /\ (d \in NoEnd => ends)
  BY <1>1, <1>2, <1>3, EntryFacts, RulesFacts DEF Calls
<1>4. ASSUME f.prod = "rule", d \in NoEnd PROVE f.todo # <<>>
  BY <1>2, <1>4 DEF Calls
<1>5. ASSUME f.prod = "list-of-rules", d \in NoEnd PROVE ends
  BY <1>1, <1>2, <1>5 DEF Calls
<1>6. ASSUME f.prod = More(d), d \in NoEnd PROVE ends
  BY <1>1, <1>2, <1>6, RulesFacts DEF Calls
<1> QED
  BY <1>2, <1>3, <1>4, <1>5, <1>6 DEF Reached

(***************************************************************************)
(* Steps.                                                                  *)
(***************************************************************************)
LEMMA FinIsBoolean == Fin \in BOOLEAN /\ Fin' \in BOOLEAN
BY DEF Fin

LEMMA StillReading ==
  ASSUME UNCHANGED text, outcome' = "parsing", Fetched', Chain(dialect, stack'),
         stack' # <<>> => Reached(dialect, stack', lex_tok', Fin')
  PROVE  Reading'
BY DEF Reading, AllReadOtherwise, dialect

\* Where the program stops.
LEMMA Stopped ==
  ASSUME outcome' \notin {"parsing", "returned"}
  PROVE  Reading'
BY DEF Reading, AllReadOtherwise

LEMMA StopReading ==
  ASSUME NEW o \in {"assert", "overrun"}, Stop(o)
  PROVE  Reading'
BY Stopped DEF Stop

LEMMA ReadingKept ==
  ASSUME Reading, UNCHANGED vars
  PROVE  Reading'
BY DEF Reading, Fetched, Fin, TokAt, AllReadOtherwise, dialect, vars

\* Nothing is read.
LEMMA FetchedKept ==
  ASSUME Fetched, stack # <<>>, UNCHANGED <<text, zone, input>>, lex_tok' \in {lex_tok, "ERROR"}
  PROVE  Fetched'
BY DEF Fetched

LEMMA FinKept ==
  ASSUME UNCHANGED <<text, input, lex_tok>>, errors # <<>> => errors' # <<>>
  PROVE  Fin => Fin'
BY DEF Fin, TokAt, dialect

\* What Reading says of the innermost call.
LEMMA Innermosts ==
  ASSUME Reading, outcome = "parsing", stack # <<>>
  PROVE  /\ Fetched /\ Chain(dialect, stack) /\ Reached(dialect, stack, lex_tok, Fin)
         /\ Len(stack) \in Nat /\ Len(stack) >= 1 /\ frame = stack[1]
         /\ Shape(dialect, frame)
         /\ Len(stack) = 1 => frame.prod = "entry"
         /\ Len(stack) >= 2 => Calls(dialect, stack[2], frame)
<1>1. Fetched /\ Chain(dialect, stack) /\ Reached(dialect, stack, lex_tok, Fin)
  BY DEF Reading
<1>2. Len(stack) \in Nat /\ Len(stack) >= 1 /\ frame = stack[1]
  BY <1>1, OfASequence DEF Chain, frame
<1>3. Shape(dialect, stack[1])
  <2>1. 1 \in 1..Len(stack)
    BY <1>2
  <2> QED
    BY <1>1, <2>1 DEF Chain
<1>4. Len(stack) = 1 => stack[1].prod = "entry"
  BY <1>1 DEF Chain
<1>5. Len(stack) >= 2 => Calls(dialect, stack[2], stack[1])
  <2> SUFFICES ASSUME Len(stack) >= 2 PROVE Calls(dialect, stack[2], stack[1])
    OBVIOUS
  <2>1. 2 \in 2..Len(stack) /\ 2 - 1 = 1
    BY <1>2
  <2>2. Calls(dialect, stack[2], stack[2 - 1])
    BY <1>1, <2>1 DEF Chain
  <2> QED
    BY <2>1, <2>2
<1> QED
  BY <1>1, <1>2, <1>3, <1>4, <1>5

\* The innermost call has done an item, and may have written to its locals.
LEMMA WentOn ==
  ASSUME StackRight, NEW op, At(op), NEW xs, GoOn \/ GoOnWriting(xs)
  PROVE  \E f : f.prod = frame.prod /\ f.todo = Tail(frame.todo) /\ stack' = <<f>> \o Tail(stack)
<1>1. IsACall(dialect, frame)
  BY Current
<1> DEFINE t == Tail(frame.todo)
           l == Over(xs, frame.loc)
           h == [prod |-> frame.prod, todo |-> t, loc |-> frame.loc, out |-> frame.out]
           k == [prod |-> frame.prod, todo |-> t, loc |-> l, out |-> frame.out]
<1>2. [frame EXCEPT !.todo = Tail(@)] = h
  BY <1>1, ChangedCall
<1>3. [frame EXCEPT !.todo = Tail(@), !.loc = Over(xs, @)] = k
  <2>1. [frame EXCEPT !.todo = Tail(@), !.loc = Over(xs, @)] = [frame EXCEPT !.todo = t, !.loc = l]
    OBVIOUS
  <2> HIDE DEF t, l
  <2> DEFINE m == [frame EXCEPT !.todo = t]
  <2>2. [frame EXCEPT !.todo = t, !.loc = l] = [m EXCEPT !.loc = l]
    OBVIOUS
  <2>3. m = [prod |-> frame.prod, todo |-> t, loc |-> frame.loc, out |-> frame.out]
    BY <1>1, ChangedCall
  <2> HIDE DEF m
  <2>4. [m EXCEPT !.loc = l] = [prod |-> frame.prod, todo |-> t, loc |-> l, out |-> frame.out]
    BY <2>3
  <2> QED
    BY <2>1, <2>2, <2>4
<1>4. CASE GoOn
  <2>1. stack' = <<h>> \o Tail(stack) /\ h.prod = frame.prod /\ h.todo = t
    BY <1>2, <1>4 DEF GoOn, GoOnWith
  <2> HIDE DEF h
  <2> QED
    BY <2>1
<1>5. CASE GoOnWriting(xs)
  <2>1. stack' = <<k>> \o Tail(stack) /\ k.prod = frame.prod /\ k.todo = t
    BY <1>3, <1>5 DEF GoOnWriting, GoOnWith
  <2> HIDE DEF k
  <2> QED
    BY <2>1
<1> QED
  BY <1>4, <1>5

LEMMA GoneOn ==
  ASSUME StackRight, Reading, NEW op, At(op), op # "call", NEW xs, GoOn \/ GoOnWriting(xs),
         UNCHANGED <<text, outcome>>, Fetched',
         op \notin {"advance", "else"} => UNCHANGED lex_tok /\ (Fin => Fin'),
         op = "advance" /\ lex_tok = "EOF" => lex_tok' = "EOF" /\ Fin',
         op = "else" /\ Argument \subseteq {"EOF", "SEP"} /\ dialect \in NoEnd => Fin',
         op = "check" => lex_tok # "ERROR",
         op = "expect" => lex_tok = Argument
  PROVE  Reading'
<1>1. /\ stack # <<>> /\ frame = stack[1] /\ stack[1].todo # <<>> /\ stack[1].todo[1].op = op
      /\ Argument = stack[1].todo[1].arg
  BY Current
<1>2. outcome = "parsing"
  BY DEF At
<1>3. Chain(dialect, stack) /\ Reached(dialect, stack, lex_tok, Fin)
  BY <1>1, <1>2, Innermosts
<1>4. PICK f : f.prod = frame.prod /\ f.todo = Tail(frame.todo) /\ stack' = <<f>> \o Tail(stack)
  BY WentOn
<1>5. f.prod = stack[1].prod /\ f.todo = Tail(stack[1].todo)
  BY <1>1, <1>4
<1>6. /\ Shape(dialect, f)
      /\ Len(stack) = 1 => f.prod = "entry"
      /\ Len(stack) >= 2 => Calls(dialect, stack[2], f)
  BY <1>1, <1>3, <1>5, MovedOnShape
<1>7. Chain(dialect, stack') /\ stack'[1] = f /\ Len(stack') = Len(stack)
  <2>1. /\ Chain(dialect, <<f>> \o Tail(stack)) /\ (<<f>> \o Tail(stack))[1] = f
        /\ Len(<<f>> \o Tail(stack)) = Len(stack)
    BY <1>1, <1>3, <1>6, ChainPut
  <2> QED
    BY <1>4, <2>1
<1>8. Reached(dialect, stack', lex_tok', Fin')
  <2>1. Fin \in BOOLEAN /\ Fin' \in BOOLEAN
    BY FinIsBoolean
  <2> DEFINE fin  == Fin
             fin2 == Fin'
             tok  == lex_tok
             tok2 == lex_tok'
             u    == stack'
  <2>2. /\ op \notin {"advance", "else"} => tok2 = tok /\ (fin => fin2)
        /\ op = "advance" /\ tok = "EOF" => tok2 = "EOF" /\ fin2
        /\ op = "else" /\ stack[1].todo[1].arg \subseteq {"EOF", "SEP"} /\ dialect \in NoEnd => fin2
        /\ op = "check" => tok # "ERROR"
        /\ op = "expect" => tok = stack[1].todo[1].arg
    BY <1>1
  <2>3. Reached(dialect, stack, tok, fin) /\ u[1] = f /\ Len(u) = Len(stack)
        /\ fin \in BOOLEAN /\ fin2 \in BOOLEAN
    BY <1>3, <1>7, <2>1
  <2> HIDE DEF fin, fin2, tok, tok2, u
  <2>4. Reached(dialect, u, tok2, fin2)
    BY <1>1, <1>3, <1>5, <2>2, <2>3, MovedOnReached
  <2> QED
    BY <2>4 DEF u, tok2, fin2
<1> QED
  BY <1>2, <1>7, <1>8, StillReading

\* Nothing is read.
LEMMA QuietReading ==
  ASSUME StackRight, Reading, NEW op \in {"expect", "check", "extract", "act"}, At(op),
         NEW xs, GoOn \/ GoOnWriting(xs),
         UNCHANGED <<text, zone, input, lex_tok, outcome>>, errors # <<>> => errors' # <<>>,
         op = "check" => lex_tok # "ERROR",
         op = "expect" => lex_tok = Argument
  PROVE  Reading'
<1>1. outcome = "parsing" /\ stack # <<>>
  BY DEF At
<1>2. Fetched'
  BY <1>1, Innermosts, FetchedKept
<1>3. Fin => Fin'
  BY FinKept
<1>4. op \notin {"call", "advance", "else"}
  OBVIOUS
<1> QED
  BY <1>2, <1>3, <1>4, GoneOn

\* goto ZL1.
LEMMA ZL1Reading ==
  ASSUME Reading, outcome = "parsing", stack # <<>>, NEW es, ZL1(es), UNCHANGED <<text, zone, input>>
  PROVE  Reading'
<1>1. CASE frame.prod = "entry"
  BY <1>1, Stopped DEF ZL1
<1>2. CASE frame.prod # "entry"
  <2>1. lex_tok' = "ERROR" /\ stack' = Tail(stack) /\ UNCHANGED outcome
    BY <1>2 DEF ZL1
  <2>2. Fetched /\ Chain(dialect, stack) /\ frame = stack[1]
    BY Innermosts
  <2>3. /\ Chain(dialect, stack') /\ stack' # <<>> /\ Calls(dialect, stack'[1], stack[1])
    BY <1>2, <2>1, <2>2, ChainLeave
  <2>4. Reached(dialect, stack', "ERROR", Fin')
    BY <2>3, LeftReached
  <2>5. Fetched'
    BY <2>1, <2>2, FetchedKept
  <2> QED
    BY <2>1, <2>3, <2>4, <2>5, StillReading
<1> QED
  BY <1>1, <1>2

\* A terminal is read.
LEMMA ReadReading ==
  ASSUME StackRight, Kinds, Reading, NEW op \in {"advance", "else"}, At(op), GoOn, ADVANCE_LEXER,
         UNCHANGED <<text, errors, outcome>>, op = "else" => lex_tok \in Argument
  PROVE  Reading'
<1>1. outcome = "parsing" /\ stack # <<>>
  BY DEF At
<1>2. Fetched
  BY <1>1, Innermosts
<1>3. PICK l \in Lexed : Take(l)
  BY DEF ADVANCE_LEXER
<1>4. /\ IsASequence(input') /\ input' # <<>> /\ Len(input') = Len(input) + 1 /\ Len(input) \in Nat
      /\ lex_tok' = input'[Len(input')].tok
      /\ \A i \in 1..Len(input) : input'[i] = input[i]
      /\ lex_tok' = "EOF" => zone' = "end" /\ Len(text.tokens) <= Len(input')
      /\ zone = "end" /\ Len(text.tokens) <= Len(input) => lex_tok' = "EOF"
  BY <1>2, <1>3, FetchedNext DEF Kinds, Fetched
<1>5. Fetched'
  BY <1>2, <1>4 DEF Fetched
<1>6. ASSUME lex_tok = "EOF" PROVE lex_tok' = "EOF" /\ Fin'
  <2>1. zone = "end" /\ Len(text.tokens) <= Len(input)
    BY <1>1, <1>2, <1>6 DEF Fetched
  <2> QED
    BY <1>4, <2>1 DEF Fin
<1>7. ASSUME op = "else", Argument \subseteq {"EOF", "SEP"}, dialect \in NoEnd PROVE Fin'
  <2>1. lex_tok = "EOF" \/ lex_tok = "SEP"
    BY <1>7
  <2>2. CASE lex_tok = "SEP"
    <3>1. lex_tok = input[Len(input)].tok /\ input # <<>> /\ IsASequence(input)
      BY <1>1, <1>2, <2>2 DEF Fetched
    <3>2. Len(input) \in 1..Len(input) /\ Len(input) \in DOMAIN input' /\ Len(input') - 1 = Len(input)
      <4> DEFINE n == Len(input)
                 m == Len(input')
      <4>1. n >= 1 /\ n \in Nat /\ m = n + 1 /\ DOMAIN input' = 1..m
        BY <1>4, <3>1, OfASequence
      <4> HIDE DEF n, m
      <4>2. n \in 1..n /\ n \in 1..m /\ m - 1 = n
        BY <4>1
      <4> QED
        BY <4>1, <4>2 DEF n, m
    <3>3. input'[Len(input') - 1].tok = "SEP" /\ Len(input') - 1 \in DOMAIN input'
      BY <1>4, <2>2, <3>1, <3>2
    <3>4. dialect' \in NoEnd
      BY <1>7 DEF dialect
    <3> QED
      BY <3>3, <3>4 DEF Fin, TokAt
  <2> QED
    BY <1>6, <2>1, <2>2
<1>8. op \notin {"call", "check", "expect"}
  OBVIOUS
<1> QED
  BY <1>5, <1>6, <1>7, <1>8, GoneOn

LEMMA Queued ==
  ASSUME Kinds, NEW e, errors' = Append(errors, e)
  PROVE  errors' # <<>>
<1>1. PICK S : errors \in Seq(S)
  BY DEF Kinds, IsASequence
<1>2. errors \in Seq(S \union {e}) /\ e \in S \union {e}
  BY <1>1, SeqMonotonic
<1> QED
  BY <1>2, AppendProperties

\* FORM_INPUT.
LEMMA FormInputReading == ASSUME Kinds, Reading, FormInput PROVE Reading'
<1>1. /\ outcome = "parsing" /\ UNCHANGED <<text, outcome>>
      /\ \E l \in Lexed : Take(l) /\ stack' = <<Frame("entry", l[1].tok, <<>>, "")>>
  BY DEF FormInput
<1>2. PICK l \in Lexed : Take(l) /\ stack' = <<Frame("entry", l[1].tok, <<>>, "")>>
  BY <1>1
<1> DEFINE c == Frame("entry", l[1].tok, <<>>, NoLocal)
<1>3. stack' = <<c>> /\ lex_tok' = l[1].tok
  BY <1>2 DEF Take, NoLocal
<1>4. Fetched'
  <2>1. Fetched
    BY <1>1 DEF Reading
  <2>2. /\ IsASequence(input') /\ input' # <<>> /\ lex_tok' = input'[Len(input')].tok
        /\ lex_tok' = "EOF" => zone' = "end" /\ Len(text.tokens) <= Len(input')
    BY <1>1, <1>2, <2>1, FetchedNext DEF Kinds, Fetched
  <2> QED
    BY <1>1, <2>1, <2>2 DEF Fetched
<1>5. Shape(dialect, c)
  BY FreshShape DEF Kinds
<1>6. /\ c.prod = "entry" /\ c.loc = <<>>
      /\ lex_tok' = "ERROR" => c.todo = <<>>
      /\ lex_tok' # "ERROR" => c.todo = Entry0(dialect)
  BY <1>3, FrameFacts, EntryBegins DEF Kinds
<1> HIDE DEF c
<1>7. /\ IsASequence(stack') /\ Len(stack') = 1 /\ stack'[1] = c
  BY <1>3, Short
<1>8. Chain(dialect, stack')
  BY <1>5, <1>6, <1>7 DEF Chain
<1>9. Reached(dialect, stack', lex_tok', Fin')
  <2>1. c.prod # "rule" /\ c.prod # "list-of-rules" /\ c.prod # More(dialect)
    BY <1>6, NamesDiffer
  <2>2. CASE lex_tok' = "ERROR"
    BY <1>6, <1>7, <2>1, <2>2, EntryFacts DEF Reached
  <2>3. CASE lex_tok' # "ERROR"
    BY <1>6, <1>7, <2>1, <2>3, EntryFacts DEF Reached
  <2> QED
    BY <2>2, <2>3
<1> QED
  BY <1>1, <1>4, <1>8, <1>9, StillReading

LEMMA DoCallReading == ASSUME StackRight, Kinds, Reading, DoCall PROVE Reading'
<1> DEFINE item == frame.todo[1]
           in   == [x \in item.arg[2] \intersect DOMAIN frame.loc |-> frame.loc[x]]
           c    == [prod |-> frame.prod, todo |-> Tail(frame.todo), loc |-> frame.loc,
                    out |-> frame.out]
           new  == Frame(item.arg[1], lex_tok, in, item.arg[3])
<1>1. At("call")
  BY DEF DoCall
<1>2. /\ stack # <<>> /\ frame = stack[1] /\ frame.todo # <<>> /\ item.op = "call"
      /\ Argument = item.arg /\ IsACall(dialect, frame) /\ outcome = "parsing"
  BY <1>1, Current DEF At
<1>3. [frame EXCEPT !.todo = Tail(@)] = c
  BY <1>2, ChangedCall
<1>4. stack' = <<new, c>> \o Tail(stack) /\ UNCHANGED <<text, zone, input, lex_tok, errors, outcome>>
  BY <1>2, <1>3 DEF DoCall, Local, LexerUnchanged
<1>5. /\ Fetched /\ Chain(dialect, stack) /\ Reached(dialect, stack, lex_tok, Fin)
      /\ Shape(dialect, frame)
      /\ Len(stack) = 1 => frame.prod = "entry"
      /\ Len(stack) >= 2 => Calls(dialect, stack[2], frame)
  BY <1>2, Innermosts
<1>6. new.prod = item.arg[1] /\ Shape(dialect, new)
  BY FrameFacts, FreshShape DEF Kinds
<1>7. c.prod = frame.prod /\ c.todo = Tail(frame.todo)
  OBVIOUS
<1>8. new = Frame(item.arg[1], lex_tok, in, item.arg[3])
  OBVIOUS
<1> HIDE DEF in, c, new
<1>9. Shape(dialect, c) /\ Calls(dialect, c, new)
  BY <1>2, <1>5, <1>6, <1>7, CalledShape
<1>10. /\ Len(stack) = 1 => c.prod = "entry"
       /\ Len(stack) >= 2 => Calls(dialect, stack[2], c)
  BY <1>5, <1>7 DEF Calls
<1>11. /\ Chain(dialect, stack') /\ stack'[1] = new /\ stack'[2] = c /\ Len(stack') = Len(stack) + 1
       /\ Len(stack) \in Nat /\ Len(stack) >= 1
  BY <1>2, <1>4, <1>5, <1>6, <1>9, <1>10, ChainCall
<1>12. Fetched'
  BY <1>2, <1>4, <1>5, FetchedKept
<1>13. Fin => Fin'
  BY <1>4, FinKept
<1>14. ASSUME item.arg[1] = More(dialect), c.prod = "list-of-rules", dialect \in NoEnd
       PROVE  lex_tok = "ERROR" \/ Fin'
  <2>1. frame.todo # Rules0(dialect)
    BY <1>14, RulesFacts, NamesDiffer
  <2> QED
    BY <1>2, <1>5, <1>7, <1>13, <1>14, <2>1 DEF Reached
<1>15. Reached(dialect, stack', lex_tok, Fin')
  <2>1. Fin' \in BOOLEAN /\ dialect \in Dialects
    BY FinIsBoolean DEF Kinds
  <2>2. Len(stack') # 1
    BY <1>11
  <2> DEFINE u   == stack'
             fin == Fin'
  <2>3. /\ u[1] = Frame(item.arg[1], lex_tok, in, item.arg[3]) /\ Len(u) # 1 /\ u[2] = c
        /\ fin \in BOOLEAN
        /\ item.arg[1] = More(dialect) /\ c.prod = "list-of-rules" /\ dialect \in NoEnd =>
             lex_tok = "ERROR" \/ fin
    BY <1>8, <1>11, <1>14, <2>1, <2>2
  <2> HIDE DEF u, fin, item
  <2>4. Reached(dialect, u, lex_tok, fin)
    BY <2>1, <2>3, FreshReached
  <2> QED
    BY <2>4 DEF u, fin
<1> QED
  BY <1>2, <1>4, <1>11, <1>12, <1>15, StillReading

\* What goes on in the place of the innermost call is none of Chain's.
LEMMA JumpReading ==
  ASSUME Reading, outcome = "parsing", stack # <<>>, frame.todo # <<>>,
         frame.todo[1].op \in {"goto", "inline"},
         NEW f, stack' = <<f>> \o Tail(stack), Shape(dialect, f),
         UNCHANGED <<text, zone, input, lex_tok, errors, outcome>>,
         \A u : u[1] = f /\ Len(u) = Len(stack) /\ (Len(stack) >= 2 => u[2] = stack[2])
                => Reached(dialect, u, lex_tok, Fin')
  PROVE  Reading'
<1>1. /\ Fetched /\ Chain(dialect, stack)
      /\ Len(stack) \in Nat /\ Len(stack) >= 1 /\ frame = stack[1]
      /\ Shape(dialect, frame)
      /\ Len(stack) = 1 => frame.prod = "entry"
      /\ Len(stack) >= 2 => Calls(dialect, stack[2], frame)
  BY Innermosts
<1>2. frame.prod # "entry" /\ (dialect \in NoEnd => frame.prod \notin {"list-of-rules", "rule", More(dialect)})
  BY <1>1, NoJump
<1>3. Len(stack) >= 2 => Calls(dialect, stack[2], f)
  BY <1>1, <1>2 DEF Calls
<1>4. Len(stack) = 1 => f.prod = "entry"
  BY <1>1, <1>2
<1>5. /\ Chain(dialect, stack') /\ stack'[1] = f /\ Len(stack') = Len(stack)
      /\ Len(stack) >= 2 => stack'[2] = stack[2]
  BY <1>1, <1>3, <1>4, ChainPut
<1>6. Fetched'
  BY <1>1, FetchedKept
<1> QED
  BY <1>5, <1>6, StillReading

LEMMA DoGotoReading == ASSUME StackRight, Kinds, Reading, DoGoto PROVE Reading'
<1> DEFINE new == Frame(frame.todo[1].arg, lex_tok, frame.loc, frame.out)
<1>1. /\ stack # <<>> /\ frame.todo # <<>> /\ frame.todo[1].op = "goto"
      /\ Argument = frame.todo[1].arg /\ outcome = "parsing"
  <2>1. At("goto")
    BY DEF DoGoto
  <2> QED
    BY <2>1, Current DEF At
<1>2. stack' = <<new>> \o Tail(stack) /\ UNCHANGED <<text, zone, input, lex_tok, errors, outcome>>
  BY <1>1 DEF DoGoto, GoOnWith, LexerUnchanged
<1>3. Shape(dialect, new) /\ new.prod = frame.todo[1].arg
  BY FreshShape, FrameFacts DEF Kinds
<1>4. /\ Shape(dialect, frame)
      /\ Len(stack) = 1 => frame.prod = "entry"
      /\ Len(stack) >= 2 => Calls(dialect, stack[2], frame)
      /\ Len(stack) \in Nat /\ Len(stack) >= 1
  BY <1>1, Innermosts
<1>5. frame.prod # "entry" /\ (dialect \in NoEnd => frame.prod \notin {"list-of-rules", "rule", More(dialect)})
  BY <1>1, <1>4, NoJump
<1>6. ASSUME NEW u, u[1] = new, Len(u) = Len(stack), Len(stack) >= 2 => u[2] = stack[2]
      PROVE  Reached(dialect, u, lex_tok, Fin')
  <2>1. Len(u) # 1
    BY <1>4, <1>5, <1>6
  <2>2. dialect \in NoEnd /\ Len(u) >= 2 => u[2].prod # "list-of-rules"
    BY <1>4, <1>5, <1>6 DEF Calls
  <2>3. Fin' \in BOOLEAN /\ dialect \in Dialects
    BY FinIsBoolean DEF Kinds
  <2> DEFINE fin == Fin'
  <2> HIDE DEF fin
  <2>4. Reached(dialect, u, lex_tok, fin)
    BY <1>6, <2>1, <2>2, <2>3, FreshReached DEF fin
  <2> QED
    BY <2>4 DEF fin
<1> HIDE DEF new
<1> QED
  BY <1>1, <1>2, <1>3, <1>6, JumpReading

LEMMA DoInlineReading == ASSUME StackRight, Kinds, Reading, DoInline PROVE Reading'
<1> DEFINE line == Production(Argument, lex_tok) \o Tail(frame.todo)
           f    == [prod |-> frame.prod, todo |-> line, loc |-> frame.loc, out |-> frame.out]
<1>1. /\ stack # <<>> /\ frame.todo # <<>> /\ frame.todo[1].op = "inline" /\ outcome = "parsing"
      /\ IsACall(dialect, frame)
  <2>1. At("inline")
    BY DEF DoInline
  <2> QED
    BY <2>1, Current DEF At
<1>2. [frame EXCEPT !.todo = Production(Argument, lex_tok) \o Tail(@)] = f
  BY <1>1, ChangedCall
<1>3. stack' = <<f>> \o Tail(stack) /\ UNCHANGED <<text, zone, input, lex_tok, errors, outcome>>
  BY <1>2 DEF DoInline, GoOnWith, LexerUnchanged
<1>4. f.prod = frame.prod
  OBVIOUS
<1> HIDE DEF f
<1>5. frame.prod # "entry" /\ (dialect \in NoEnd => frame.prod \notin {"list-of-rules", "rule", More(dialect)})
  BY <1>1, Innermosts, NoJump
<1>6. Shape(dialect, f)
  BY <1>4, <1>5 DEF Shape
<1>7. ASSUME NEW u, u[1] = f
      PROVE  Reached(dialect, u, lex_tok, Fin')
  BY <1>4, <1>5, <1>7 DEF Reached
<1> QED
  BY <1>1, <1>3, <1>6, <1>7, JumpReading

\* The end of a function.  That of the entry production is where all has been read.
LEMMA ReturnReading == ASSUME StackRight, Reading, Return PROVE Reading'
<1>1. /\ outcome = "parsing" /\ stack # <<>> /\ frame.todo = <<>>
      /\ UNCHANGED <<text, zone, input, lex_tok, errors>>
  BY DEF Return, LexerUnchanged
<1>2. /\ Fetched /\ Chain(dialect, stack) /\ Reached(dialect, stack, lex_tok, Fin)
      /\ Len(stack) \in Nat /\ Len(stack) >= 1 /\ frame = stack[1]
      /\ Len(stack) = 1 => frame.prod = "entry"
      /\ Len(stack) >= 2 => Calls(dialect, stack[2], frame)
  BY <1>1, Innermosts
<1>3. CASE Len(stack) = 1
  <2>1. /\ outcome' = "returned"
        /\ g' = IF IsSet({Result(frame.prod)}) THEN Local(Result(frame.prod)) ELSE <<>>
    BY <1>3 DEF Return
  <2>2. IF lex_tok = "ERROR" THEN frame.loc = <<>> ELSE Fin
    BY <1>1, <1>2, <1>3 DEF Reached
  <2>3. CASE lex_tok = "ERROR"
    <3>1. frame.loc = <<>> /\ DOMAIN <<>> = {}
      BY <2>2, <2>3
    <3>2. ~IsSet({Result(frame.prod)})
      BY <3>1 DEF IsSet
    <3>3. g' = <<>>
      BY <2>1, <3>2
    <3> QED
      BY <1>1, <2>1, <2>3, <3>3 DEF Reading, AllReadOtherwise
  <2>4. CASE lex_tok # "ERROR"
    <3>1. Fin
      BY <2>2, <2>4
    <3> QED
      BY <1>1, <2>1, <3>1 DEF Reading, AllReadOtherwise, Fin, TokAt, dialect, NoEnd
  <2> QED
    BY <2>3, <2>4
<1>4. CASE Len(stack) # 1
  <2> DEFINE x == Result(frame.prod)
             f == IF IsSet({x})
                  THEN [stack[2] EXCEPT !.loc = Over([y \in {frame.out} |-> Local(x)], @)]
                  ELSE stack[2]
  <2>1. stack' = <<f>> \o SubSeq(stack, 3, Len(stack)) /\ UNCHANGED outcome
    BY <1>4 DEF Return
  <2>2. Len(stack) >= 2
    <3> DEFINE n == Len(stack)
    <3>1. n \in Nat /\ n >= 1 /\ n # 1
      BY <1>2, <1>4
    <3> HIDE DEF n
    <3>2. n >= 2
      BY <3>1
    <3> QED
      BY <3>2 DEF n
  <2>3. IsACall(dialect, stack[2])
    <3>1. 2 \in 2..Len(stack)
      BY <1>2, <2>2
    <3>2. Beneath(dialect, stack[2], stack[2 - 1].out, lex_tok)
      BY <1>1, <3>1 DEF StackRight, StackOf
    <3> QED
      BY <3>2 DEF Beneath
  <2>4. f.prod = stack[2].prod /\ f.todo = stack[2].todo
    <3> DEFINE loc == Over([y \in {frame.out} |-> Local(x)], stack[2].loc)
    <3>1. [stack[2] EXCEPT !.loc = Over([y \in {frame.out} |-> Local(x)], @)] = [stack[2] EXCEPT !.loc = loc]
      OBVIOUS
    <3> HIDE DEF loc, x
    <3>2. [stack[2] EXCEPT !.loc = loc] =
            [prod |-> stack[2].prod, todo |-> stack[2].todo, loc |-> loc, out |-> stack[2].out]
      BY <2>3, ChangedCall
    <3> QED
      BY <3>1, <3>2
  <2> HIDE DEF f
  <2>5. /\ Chain(dialect, stack') /\ stack' # <<>> /\ stack'[1] = f
    BY <1>2, <2>1, <2>2, <2>4, ChainReturn
  <2>6. Fetched' /\ (Fin => Fin')
    BY <1>1, <1>2, FetchedKept, FinKept
  <2>7. Fin' = Fin
    BY <1>1 DEF Fin, TokAt, dialect
  <2>8. Reached(dialect, stack', lex_tok, Fin)
    BY <1>1, <1>2, <2>2, <2>4, <2>5, FinIsBoolean, ReturnedReached
  <2>9. Reached(dialect, stack', lex_tok, Fin')
    BY <2>7, <2>8
  <2> QED
    BY <1>1, <2>1, <2>5, <2>6, <2>9, StillReading
<1> QED
  BY <1>3, <1>4

\* The return in the middle of add-rule-to-list leaves an error.
LEMMA AddRuleToListReading == ASSUME StackRight, Kinds, Reading, AddRuleToList PROVE Reading'
<1>1. /\ At("act") /\ UNCHANGED <<text, zone, input, lex_tok, outcome>>
      /\ \/ errors' = Append(errors, "exists") /\ GoOnWith([frame EXCEPT !.todo = <<>>])
         \/ UNCHANGED errors /\ \E xs : GoOnWriting(xs)
  BY DEF AddRuleToList, Acting, LexerUnchanged
<1>2. CASE UNCHANGED errors /\ \E xs : GoOnWriting(xs)
  BY <1>1, <1>2, QuietReading
<1>3. CASE errors' = Append(errors, "exists") /\ GoOnWith([frame EXCEPT !.todo = <<>>])
  <2> DEFINE f == [prod |-> frame.prod, todo |-> <<>>, loc |-> frame.loc, out |-> frame.out]
  <2>1. /\ stack # <<>> /\ frame = stack[1] /\ frame.todo # <<>> /\ frame.todo[1].op = "act"
        /\ IsACall(dialect, frame) /\ outcome = "parsing"
    BY <1>1, Current DEF At
  <2>2. [frame EXCEPT !.todo = <<>>] = f
    BY <2>1, ChangedCall
  <2>3. stack' = <<f>> \o Tail(stack) /\ f.prod = frame.prod /\ f.todo = <<>>
    BY <1>3, <2>2 DEF GoOnWith
  <2> HIDE DEF f
  <2>4. /\ Fetched /\ Chain(dialect, stack) /\ Shape(dialect, frame)
        /\ Len(stack) = 1 => frame.prod = "entry"
        /\ Len(stack) >= 2 => Calls(dialect, stack[2], frame)
    BY <2>1, Innermosts
  <2>5. frame.prod # "entry"
    BY <2>1, <2>4, EntryFacts DEF Shape
  <2>6. Shape(dialect, f)
    <3>1. RuleRest(<<>>)
      BY DEF RuleRest, IsASequence
    <3> QED
      BY <2>3, <3>1 DEF Shape
  <2>7. Len(stack) >= 2 => Calls(dialect, stack[2], f)
    BY <2>3, <2>4 DEF Calls
  <2>8. Len(stack) = 1 => f.prod = "entry"
    BY <2>3, <2>4
  <2>9. Chain(dialect, stack') /\ stack'[1] = f
    BY <2>1, <2>3, <2>4, <2>6, <2>7, <2>8, ChainPut
  <2>10. Fin'
    BY <1>3, Queued DEF Fin
  <2>11. Reached(dialect, stack', lex_tok, Fin')
    BY <2>3, <2>5, <2>9, <2>10 DEF Reached
  <2>12. Fetched'
    BY <1>1, <2>1, <2>4, FetchedKept
  <2> QED
    BY <1>1, <2>1, <2>9, <2>11, <2>12, StillReading
<1> QED
  BY <1>1, <1>2, <1>3

LEMMA ReadingInit == Init => Reading
<1> SUFFICES ASSUME Init PROVE Reading
  OBVIOUS
<1>1. /\ text \in Texts /\ input = <<>> /\ stack = <<>> /\ outcome = "parsing"
  BY DEF Init
<1>2. Fetched
  BY <1>1 DEF Fetched, IsASequence
<1>3. Chain(dialect, stack)
  BY <1>1 DEF Chain, IsASequence
<1>4. AllReadOtherwise
  BY <1>1 DEF AllReadOtherwise
<1> QED
  BY <1>1, <1>2, <1>3, <1>4 DEF Reading

LEMMA ReadingStep == StackRight /\ Kinds /\ Reading /\ [Next]_vars => Reading'
<1> SUFFICES ASSUME StackRight, Kinds, Reading, [Next]_vars PROVE Reading'
  OBVIOUS
<1>1. CASE UNCHANGED vars
  BY <1>1, ReadingKept
<1>2. CASE FormInput
  BY <1>2, FormInputReading
<1>3. CASE DoAdvance
  <2>1. At("advance") /\ GoOn /\ ADVANCE_LEXER /\ UNCHANGED <<text, errors, outcome>>
    BY <1>3 DEF DoAdvance
  <2> QED
    BY <2>1, ReadReading
<1>4. CASE DoExpect
  <2>1. /\ At("expect") /\ UNCHANGED <<text, zone, input>>
        /\ \/ lex_tok = Argument /\ GoOn /\ UNCHANGED <<lex_tok, errors, outcome>>
           \/ ZL1(<<>>)
    BY <1>4 DEF DoExpect, LexerUnchanged
  <2>2. outcome = "parsing" /\ stack # <<>>
    BY <2>1 DEF At
  <2> QED
    BY <2>1, <2>2, QuietReading, ZL1Reading
<1>5. CASE DoCheck
  <2>1. /\ At("check") /\ UNCHANGED <<text, zone, input>>
        /\ \/ lex_tok # "ERROR" /\ GoOn /\ UNCHANGED <<lex_tok, errors, outcome>>
           \/ ZL1(<<>>)
    BY <1>5 DEF DoCheck, LexerUnchanged
  <2>2. outcome = "parsing" /\ stack # <<>>
    BY <2>1 DEF At
  <2> QED
    BY <2>1, <2>2, QuietReading, ZL1Reading
<1>6. CASE DoFail
  <2>1. outcome = "parsing" /\ stack # <<>> /\ ZL1(<<>>) /\ UNCHANGED <<text, zone, input>>
    BY <1>6 DEF DoFail, At, LexerUnchanged
  <2> QED
    BY <2>1, ZL1Reading
<1>7. CASE DoCall
  BY <1>7, DoCallReading
<1>8. CASE DoGoto
  BY <1>8, DoGotoReading
<1>9. CASE DoInline
  BY <1>9, DoInlineReading
<1>10. CASE Return
  BY <1>10, ReturnReading
<1>11. CASE TakeOneOf
  <2>1. At("else") /\ lex_tok \in Argument /\ GoOn /\ ADVANCE_LEXER /\ UNCHANGED <<text, errors, outcome>>
    BY <1>11 DEF TakeOneOf
  <2> QED
    BY <2>1, ReadReading
<1>12. CASE ErrExpected
  <2>1. /\ At("else") /\ GoOn /\ UNCHANGED <<text, zone, input, lex_tok, outcome>>
        /\ errors' = Append(errors, "expected")
    BY <1>12 DEF ErrExpected, LexerUnchanged
  <2>2. Fin'
    BY <2>1, Queued DEF Fin
  <2>3. outcome = "parsing" /\ stack # <<>>
    BY <2>1 DEF At
  <2>4. Fetched'
    BY <2>1, <2>3, Innermosts, FetchedKept
  <2> QED
    BY <2>1, <2>2, <2>4, GoneOn
<1>13. CASE ExtractChar
  <2>1. /\ At("extract") /\ UNCHANGED <<text, zone, input>>
        /\ \/ Extracted(buf[1]) /\ UNCHANGED <<lex_tok, errors, outcome>>
           \/ Stop("assert")
    BY <1>13 DEF ExtractChar, Extracting, LexerUnchanged
  <2>2. Extracted(buf[1]) => \E xs : GoOnWriting(xs)
    BY DEF Extracted
  <2> QED
    BY <2>1, <2>2, QuietReading, StopReading
<1>14. CASE ExtractIdent
  <2>1. /\ At("extract") /\ UNCHANGED <<text, zone, input, lex_tok, errors, outcome>>
        /\ \E xs : GoOnWriting(xs)
    BY <1>14 DEF ExtractIdent, Extracting, Extracted, LexerUnchanged
  <2> QED
    BY <2>1, QuietReading
<1>15. CASE ExtractCount
  <2>1. /\ At("extract") /\ UNCHANGED <<text, zone, input, lex_tok, errors, outcome>>
        /\ \E xs : GoOnWriting(xs)
    BY <1>15 DEF ExtractCount, Extracting, Extracted, LexerUnchanged
  <2> QED
    BY <2>1, QuietReading
<1>16. CASE ExtractPattern
  <2>1. /\ At("extract") /\ UNCHANGED <<text, zone, input>>
        /\ \/ (\E xs : GoOnWriting(xs)) /\ UNCHANGED <<lex_tok, errors, outcome>>
           \/ Stop("overrun")
    BY <1>16 DEF ExtractPattern, Extracting, Extracted, LexerUnchanged
  <2> QED
    BY <2>1, QuietReading, StopReading
<1>17. CASE ExtractNumbers
  <2>1. /\ At("extract") /\ UNCHANGED <<text, zone, input>>
        /\ \/ (\E xs : GoOnWriting(xs)) /\ UNCHANGED <<lex_tok, errors, outcome>>
           \/ ZL1(<<"out of range">>)
    BY <1>17 DEF ExtractNumbers, Extracting, Extracted, LexerUnchanged
  <2>2. outcome = "parsing" /\ stack # <<>>
    BY <2>1 DEF At
  <2> QED
    BY <2>1, <2>2, QuietReading, ZL1Reading
<1>18. CASE DoWrite
  <2>1. /\ At("act") /\ UNCHANGED <<text, zone, input, lex_tok, errors, outcome>>
        /\ \E xs : GoOnWriting(xs)
    BY <1>18 DEF DoWrite, Acting, LexerUnchanged
  <2> QED
    BY <2>1, QuietReading
<1>19. CASE PatternChar
  <2>1. /\ At("act") /\ UNCHANGED <<text, zone, input>>
        /\ \/ GoOn /\ UNCHANGED <<lex_tok, errors, outcome>>
           \/ Stop("overrun")
    BY <1>19 DEF PatternChar, Acting, LexerUnchanged
  <2> QED
    BY <2>1, QuietReading, StopReading
<1>20. CASE SetRepeat
  <2>1. /\ At("act") /\ UNCHANGED <<text, zone, input>>
        /\ \/ (\E xs : GoOnWriting(xs)) /\ UNCHANGED <<lex_tok, errors, outcome>>
           \/ Stop("assert")
    BY <1>20 DEF SetRepeat, Acting, LexerUnchanged
  <2> QED
    BY <2>1, QuietReading, StopReading
<1>21. CASE MulRepeat
  <2>1. /\ At("act") /\ UNCHANGED <<text, zone, input>>
        /\ \/ (\E xs : GoOnWriting(xs)) /\ UNCHANGED <<lex_tok, errors, outcome>>
           \/ Stop("assert")
    BY <1>21 DEF MulRepeat, Acting, LexerUnchanged
  <2> QED
    BY <2>1, QuietReading, StopReading
<1>22. CASE MakeProseTerm
  <2>1. /\ At("act") /\ UNCHANGED <<text, zone, input>>
        /\ \/ (\E xs : GoOnWriting(xs)) /\ UNCHANGED <<lex_tok, errors, outcome>>
           \/ Stop("assert")
    BY <1>22, Zenon DEF MakeProseTerm, Acting, LexerUnchanged
  <2> QED
    BY <2>1, QuietReading, StopReading
<1>23. CASE AddRuleToList
  BY <1>23, AddRuleToListReading
<1>24. CASE CurrentRules
  <2>1. outcome = "parsing" /\ stack # <<>> /\ ZL1(<<"unimplemented">>) /\ UNCHANGED <<text, zone, input>>
    BY <1>24 DEF CurrentRules, Acting, At, LexerUnchanged
  <2> QED
    BY <2>1, ZL1Reading
<1>25. CASE ErrUnimplementedExcept
  <2>1. /\ At("act") /\ GoOn /\ UNCHANGED <<text, zone, input, lex_tok, outcome>>
        /\ errors' = Append(errors, "except")
    BY <1>25 DEF ErrUnimplementedExcept, Acting, LexerUnchanged
  <2>2. errors' # <<>>
    BY <2>1, Queued
  <2> QED
    BY <2>1, <2>2, QuietReading
<1>26. CASE Done
  BY <1>26, ReadingKept DEF Done
<1> QED
  BY <1>1, <1>2, <1>3, <1>4, <1>5, <1>6, <1>7, <1>8, <1>9, <1>10, <1>11, <1>12, <1>13, <1>14,
     <1>15, <1>16, <1>17, <1>18, <1>19, <1>20, <1>21, <1>22, <1>23, <1>24, <1>25, <1>26 DEF Next

(***************************************************************************)
(* The parser of every dialect, on any text: where the entry production    *)
(* comes back (FORM_INPUT) and no error is queued, all that was given has  *)
(* been read, but after a separator in BNF and RBNF, whose entry           *)
(* productions do not ask for EOF, and where the first token is none.      *)
(***************************************************************************)
THEOREM AllIsRead == Spec => []AllReadOtherwise
<1>1. Init => StackRight /\ Kinds /\ Reading
  BY StackRightInit, KindsInit, ReadingInit
<1>2. StackRight /\ Kinds /\ Reading /\ [Next]_vars => StackRight' /\ Kinds' /\ Reading'
  BY StackRightStep, KindsStep, ReadingStep
<1>3. Reading => AllReadOtherwise
  BY DEF Reading
<1> QED
  BY <1>1, <1>2, <1>3, PTL DEF Spec
=============================================================================
