--------------------------- MODULE SidLinesProofs ---------------------------
(***************************************************************************)
(* The lines of the productions, for every dialect, production and         *)
(* terminal: what makes a function leave on ERROR before it reads on, use  *)
(* no local it has not written, and return what it is called for.  These   *)
(* are facts of the generated parsers; SidParserProofs draws on them for   *)
(* what a stack of calls does.                                             *)
(***************************************************************************)
EXTENDS SidParser, Productions, SequenceTheorems, TLAPS

IsASequence(s) == s \in Seq({s[i] : i \in DOMAIN s})

\* No local: of a function without a result, and of a call that takes none.
NoLocal == ""

(***************************************************************************)
(* The functions of a dialect, the locals each is called with, and the one *)
(* it writes.  What is inlined is no function.                             *)
(***************************************************************************)
Procs(d) ==
  CASE d = "wsn"      -> {"body", "term", "factor", "list-of-terms", "95", "list-of-alts", "94",
                          "rule", "list-of-rules", "93", "entry"}
    [] d = "bnf"      -> {"body", "93", "term", "factor", "list-of-terms", "92", "list-of-alts",
                          "91", "rule", "list-of-rules", "90", "entry"}
    [] d = "rbnf"     -> {"body", "term", "factor", "list-of-terms", "93", "list-of-alts", "92",
                          "rule", "list-of-rules", "91", "entry"}
    [] d = "iso-ebnf" -> {"body", "99", "term", "factor", "repeatable-factor", "list-of-terms",
                          "98", "list-of-excepts", "97", "list-of-alts", "96", "rule",
                          "list-of-rules", "95", "entry"}
    [] d = "abnf"     -> {"body", "106", "term", "element", "87", "105", "factor",
                          "list-of-terms", "103", "list-of-alts", "102", "rule",
                          "list-of-rules", "101", "entry"}
    [] OTHER          -> {}

Inlined(d) == CASE d = "rbnf" -> {"77"} [] d = "abnf" -> {"95"} [] OTHER -> {}

Takes(d, f) ==
  CASE d = "wsn"  /\ f \in {"95", "93"}      -> {"l"}
    [] d = "bnf"  /\ f \in {"92", "90"}      -> {"l"}
    [] d = "rbnf" /\ f \in {"93", "91"}      -> {"l"}
    [] d = "iso-ebnf" /\ f \in {"98", "95"}  -> {"l"}
    [] d = "abnf" /\ f \in {"103", "101"}    -> {"l"}
    [] d = "wsn"  /\ f = "94"                -> {"t"}
    [] d = "bnf"  /\ f = "91"                -> {"t"}
    [] d = "rbnf" /\ f = "92"                -> {"t"}
    [] d = "iso-ebnf" /\ f = "96"            -> {"t"}
    [] d = "abnf" /\ f = "102"               -> {"t"}
    [] d = "abnf" /\ f = "105"               -> {"min"}
    [] d = "abnf" /\ f = "95"                -> {"s"}
    [] OTHER                                 -> {}

Yields(d, f) == CASE d = "wsn"      -> Wsn!Result(f)
                  [] d = "bnf"      -> Bnf!Result(f)
                  [] d = "rbnf"     -> Rbnf!Result(f)
                  [] d = "iso-ebnf" -> Iso!Result(f)
                  [] d = "abnf"     -> Abnf!Result(f)

(***************************************************************************)
(* Items: the locals one reads and writes, whether it looks at ERROR, and  *)
(* whether the function never goes on to the next one.                     *)
(***************************************************************************)
ActWrites(a) ==
  CASE a \in {"rep-zero-or-more", "rep-zero-or-one"} -> {"min", "max"}
    [] a = "rep-zero-min" -> {"min"}
    [] a \in {"make-empty-term", "make-rule-term", "make-ci-literal-term",
              "make-cs-literal-term", "make-range-term", "make-group-term",
              "make-prose-term", "set-repeat", "set-repeat-exactly", "mul-repeat"} -> {"t"}
    [] a = "make-rule" -> {"r"}
    [] a \in {"make-alt", "add-term-to-list", "add-alt-to-list", "add-rule-to-list"} -> {"l"}
    [] OTHER -> {}

InlineWrites(f) == IF f = "77" THEN {"min", "max"} ELSE {"r"}
InlineReads(f)  == IF f = "77" THEN {} ELSE {"s"}

ReadsOf(x) == CASE x.op = "act"    -> Reads(x.arg)
                [] x.op = "call"   -> x.arg[2]
                [] x.op = "inline" -> InlineReads(x.arg)
                [] OTHER           -> {}

WritesOf(x) == CASE x.op = "act"     -> ActWrites(x.arg)
                 [] x.op = "call"    -> {x.arg[3]}
                 [] x.op = "extract" -> {x.arg[2]}
                 [] x.op = "inline"  -> InlineWrites(x.arg)
                 [] OTHER            -> {}

Stops(x) == x.op \in {"fail", "goto"} \/ (x.op = "act" /\ x.arg = "current-rules")
Looks(x) == x.op \in {"check", "expect", "inline"} \/ Stops(x)

\* An item may stand in a function of dialect d that writes r.
CallAllowed(d, f, in, x) ==
  /\ f \in Procs(d)
  /\ Takes(d, f) \subseteq in
  /\ NoLocal \notin in
  /\ x # NoLocal => Yields(d, f) # NoLocal

GotoAllowed(d, f, r) == f \in Procs(d) /\ Takes(d, f) = {} /\ Yields(d, f) = r

Allowed(d, x, r) ==
  /\ x.op = "expect" => x.arg # "ERROR"
  /\ x.op = "else"   => "ERROR" \notin x.arg
  /\ x.op = "call"   => CallAllowed(d, x.arg[1], x.arg[2], x.arg[3])
  /\ x.op = "goto"   => GotoAllowed(d, x.arg, r)
  /\ x.op = "inline" => x.arg \in Inlined(d)
  /\ x.op = "act" /\ x.arg = "add-rule-to-list" => r = "l"

(***************************************************************************)
(* Lines of items.                                                         *)
(***************************************************************************)
\* After something is read or called, the terminal is looked at before more is
\* read; after a call, and after an inlined line, before an action.
Spaced(t) ==
  \A i, k \in DOMAIN t :
    /\ i < k
    /\ \/ t[i].op \in {"advance", "else", "call", "inline"} /\ t[k].op = "advance"
       \/ t[i].op \in {"call", "inline"} /\ t[k].op = "act"
    => \E j \in i + 1..k - 1 : Looks(t[j])

\* With the locals in written, none is read that is not.
Fed(t, in) ==
  \A k \in DOMAIN t : \A x \in ReadsOf(t[k]) :
    x \in in \/ \E j \in 1..k - 1 : x \in WritesOf(t[j]) \/ Stops(t[j])

\* At the end the local x is written.
Writing(t, x) == \E j \in DOMAIN t : x \in WritesOf(t[j]) \/ Stops(t[j])

Line(d, t, in, r) ==
  /\ IsASequence(t)
  /\ \A k \in DOMAIN t : Allowed(d, t[k], r)
  /\ Spaced(t)
  /\ Fed(t, in)
  /\ r = NoLocal \/ r \in in \/ Writing(t, r)

-----------------------------------------------------------------------------
\* Of every kind of item.
LEMMA ItemFacts ==
  /\ Advance.op = "advance" /\ ReadsOf(Advance) = {} /\ WritesOf(Advance) = {}
  /\ Check.op = "check" /\ ReadsOf(Check) = {} /\ WritesOf(Check) = {}
  /\ Fail.op = "fail" /\ ReadsOf(Fail) = {} /\ WritesOf(Fail) = {}
  /\ \A t : Expect(t).op = "expect" /\ Expect(t).arg = t
            /\ ReadsOf(Expect(t)) = {} /\ WritesOf(Expect(t)) = {}
  /\ \A ts : Else(ts).op = "else" /\ Else(ts).arg = ts
             /\ ReadsOf(Else(ts)) = {} /\ WritesOf(Else(ts)) = {}
  /\ \A f : Goto(f).op = "goto" /\ Goto(f).arg = f
            /\ ReadsOf(Goto(f)) = {} /\ WritesOf(Goto(f)) = {}
  /\ \A t, x : Extract(t, x).op = "extract" /\ ReadsOf(Extract(t, x)) = {}
               /\ WritesOf(Extract(t, x)) = {x}
  /\ \A a : Act(a).op = "act" /\ Act(a).arg = a
            /\ ReadsOf(Act(a)) = Reads(a) /\ WritesOf(Act(a)) = ActWrites(a)
  /\ \A f : Inline(f).op = "inline" /\ Inline(f).arg = f
            /\ ReadsOf(Inline(f)) = InlineReads(f) /\ WritesOf(Inline(f)) = InlineWrites(f)
  /\ \A f, in, x : Call(f, in, x).op = "call"
                   /\ ReadsOf(Call(f, in, x)) = in /\ WritesOf(Call(f, in, x)) = {x}
                   /\ Call(f, in, x).arg[1] = f /\ Call(f, in, x).arg[2] = in
                   /\ Call(f, in, x).arg[3] = x
<1>1. /\ Advance.op = "advance" /\ ReadsOf(Advance) = {} /\ WritesOf(Advance) = {}
      /\ Check.op = "check" /\ ReadsOf(Check) = {} /\ WritesOf(Check) = {}
      /\ Fail.op = "fail" /\ ReadsOf(Fail) = {} /\ WritesOf(Fail) = {}
  BY DEF Advance, Check, Fail, Item, ReadsOf, WritesOf
<1>2. \A t : Expect(t).op = "expect" /\ Expect(t).arg = t
             /\ ReadsOf(Expect(t)) = {} /\ WritesOf(Expect(t)) = {}
  BY DEF Expect, Item, ReadsOf, WritesOf
<1>3. \A ts : Else(ts).op = "else" /\ Else(ts).arg = ts
              /\ ReadsOf(Else(ts)) = {} /\ WritesOf(Else(ts)) = {}
  BY DEF Else, Item, ReadsOf, WritesOf
<1>4. \A f : Goto(f).op = "goto" /\ Goto(f).arg = f
             /\ ReadsOf(Goto(f)) = {} /\ WritesOf(Goto(f)) = {}
  BY DEF Goto, Item, ReadsOf, WritesOf
<1>5. \A t, x : Extract(t, x).op = "extract" /\ ReadsOf(Extract(t, x)) = {}
                /\ WritesOf(Extract(t, x)) = {x}
  BY DEF Extract, Item, ReadsOf, WritesOf
<1>6. \A a : Act(a).op = "act" /\ Act(a).arg = a
             /\ ReadsOf(Act(a)) = Reads(a) /\ WritesOf(Act(a)) = ActWrites(a)
  BY DEF Act, Item, ReadsOf, WritesOf
<1>7. \A f : Inline(f).op = "inline" /\ Inline(f).arg = f
             /\ ReadsOf(Inline(f)) = InlineReads(f) /\ WritesOf(Inline(f)) = InlineWrites(f)
  BY DEF Inline, Item, ReadsOf, WritesOf
<1>8. \A f, in, x : Call(f, in, x).op = "call"
                    /\ ReadsOf(Call(f, in, x)) = in /\ WritesOf(Call(f, in, x)) = {x}
                    /\ Call(f, in, x).arg[1] = f /\ Call(f, in, x).arg[2] = in
                    /\ Call(f, in, x).arg[3] = x
  BY DEF Call, Item, ReadsOf, WritesOf
<1> QED
  BY <1>1, <1>2, <1>3, <1>4, <1>5, <1>6, <1>7, <1>8

\* What the actions read and write.
LEMMA ActFacts ==
  /\ Reads("pattern-char") = {"c"} /\ ActWrites("pattern-char") = {}
  /\ Reads("make-empty-term") = {} /\ ActWrites("make-empty-term") = {"t"}
  /\ Reads("make-rule-term") = {"s"} /\ ActWrites("make-rule-term") = {"t"}
  /\ Reads("make-prose-term") = {"s"} /\ ActWrites("make-prose-term") = {"t"}
  /\ Reads("make-ci-literal-term") = {"x"} /\ ActWrites("make-ci-literal-term") = {"t"}
  /\ Reads("make-cs-literal-term") = {"x"} /\ ActWrites("make-cs-literal-term") = {"t"}
  /\ Reads("make-range-term") = {"r"} /\ ActWrites("make-range-term") = {"t"}
  /\ Reads("make-group-term") = {"a"} /\ ActWrites("make-group-term") = {"t"}
  /\ Reads("rep-zero-or-more") = {} /\ ActWrites("rep-zero-or-more") = {"min", "max"}
  /\ Reads("rep-zero-min") = {} /\ ActWrites("rep-zero-min") = {"min"}
  /\ Reads("rep-zero-or-one") = {} /\ ActWrites("rep-zero-or-one") = {"min", "max"}
  /\ Reads("set-repeat") = {"t", "min", "max"} /\ ActWrites("set-repeat") = {"t"}
  /\ Reads("set-repeat-exactly") = {"t", "min"} /\ ActWrites("set-repeat-exactly") = {"t"}
  /\ Reads("mul-repeat") = {"t", "n"} /\ ActWrites("mul-repeat") = {"t"}
  /\ Reads("make-alt") = {"t"} /\ ActWrites("make-alt") = {"l"}
  /\ Reads("add-alt-to-list") = {"l", "a"} /\ ActWrites("add-alt-to-list") = {"l"}
  /\ Reads("add-term-to-list") = {"l", "t"} /\ ActWrites("add-term-to-list") = {"l"}
  /\ Reads("make-rule") = {"s", "a"} /\ ActWrites("make-rule") = {"r"}
  /\ Reads("add-rule-to-list") = {"l", "r"} /\ ActWrites("add-rule-to-list") = {"l"}
  /\ Reads("current-rules") = {} /\ ActWrites("current-rules") = {}
  /\ Reads("err-unimplemented-except") = {} /\ ActWrites("err-unimplemented-except") = {}
BY DEF Reads, ActWrites

\* What may stand in a function.
LEMMA AllowedFacts ==
  /\ \A d, r : Allowed(d, Advance, r)
  /\ \A d, r : Allowed(d, Check, r)
  /\ \A d, r : Allowed(d, Fail, r)
  /\ \A d, r, t : t # "ERROR" => Allowed(d, Expect(t), r)
  /\ \A d, r, ts : "ERROR" \notin ts => Allowed(d, Else(ts), r)
  /\ \A d, r, t, x : Allowed(d, Extract(t, x), r)
  /\ \A d, r, a : a # "add-rule-to-list" \/ r = "l" => Allowed(d, Act(a), r)
  /\ \A d, r, f : f \in Inlined(d) => Allowed(d, Inline(f), r)
  /\ \A d, r, f : GotoAllowed(d, f, r) => Allowed(d, Goto(f), r)
  /\ \A d, r, f, in, x : CallAllowed(d, f, in, x) => Allowed(d, Call(f, in, x), r)
<1>1. /\ \A d, r : Allowed(d, Advance, r)
      /\ \A d, r : Allowed(d, Check, r)
      /\ \A d, r : Allowed(d, Fail, r)
  BY DEF Allowed, Advance, Check, Fail, Item
<1>2. \A d, r, t : t # "ERROR" => Allowed(d, Expect(t), r)
  BY DEF Allowed, Expect, Item
<1>3. \A d, r, ts : "ERROR" \notin ts => Allowed(d, Else(ts), r)
  BY DEF Allowed, Else, Item
<1>4. \A d, r, t, x : Allowed(d, Extract(t, x), r)
  BY DEF Allowed, Extract, Item
<1>5. \A d, r, a : a # "add-rule-to-list" \/ r = "l" => Allowed(d, Act(a), r)
  BY DEF Allowed, Act, Item
<1>6. \A d, r, f : f \in Inlined(d) => Allowed(d, Inline(f), r)
  BY DEF Allowed, Inline, Item
<1>7. \A d, r, f : GotoAllowed(d, f, r) => Allowed(d, Goto(f), r)
  BY DEF Allowed, Goto, Item
<1>8. \A d, r, f, in, x : CallAllowed(d, f, in, x) => Allowed(d, Call(f, in, x), r)
  BY DEF Allowed, Call, Item
<1> QED
  BY <1>1, <1>2, <1>3, <1>4, <1>5, <1>6, <1>7, <1>8

-----------------------------------------------------------------------------
\* Nothing to do.
LEMMA NoLine ==
  ASSUME NEW d, NEW r, NEW in, r = NoLocal \/ r \in in
  PROVE  Line(d, <<>>, in, r)
BY DEF Line, IsASequence, Spaced, Fed

\* No alternative begins with this terminal.
LEMMA FailLine ==
  ASSUME NEW d, NEW r, NEW in
  PROVE  Line(d, <<Fail>>, in, r)
<1> DEFINE t == <<Fail>>
<1>1. DOMAIN t = 1..1 /\ IsASequence(t)
  BY DEF IsASequence
<1>2. /\ t[1] = Fail
  OBVIOUS
<1> HIDE DEF t
<1>3. \A k \in DOMAIN t : Allowed(d, t[k], r)
  BY <1>1, <1>2, AllowedFacts
<1>4. Spaced(t)
  BY <1>1, <1>2, ItemFacts, ActFacts DEF Spaced, Looks, Stops
<1>5. Fed(t, in)
  BY <1>1, <1>2, ItemFacts, ActFacts DEF Fed, Stops
<1>6. Writing(t, r)
  BY <1>1, <1>2, ItemFacts, ActFacts DEF Writing, Stops
<1> QED
  BY <1>1, <1>3, <1>4, <1>5, <1>6 DEF Line, t

\* The characters of a literal or a name.
LEMMA BodyLine ==
  ASSUME NEW d, NEW tok,
         GotoAllowed(d, "body", NoLocal)
  PROVE  Line(d, <<Extract(tok, "c"), Advance, Act("pattern-char"),
                   Goto("body")>>, {}, NoLocal)
<1> DEFINE t == <<Extract(tok, "c"), Advance, Act("pattern-char"),
                  Goto("body")>>
<1>1. DOMAIN t = 1..4 /\ IsASequence(t)
  BY DEF IsASequence
<1>2. /\ t[1] = Extract(tok, "c") /\ t[2] = Advance
      /\ t[3] = Act("pattern-char") /\ t[4] = Goto("body")
  OBVIOUS
<1> HIDE DEF t
<1>3. \A k \in DOMAIN t : Allowed(d, t[k], NoLocal)
  BY <1>1, <1>2, AllowedFacts
<1>4. Spaced(t)
  BY <1>1, <1>2, ItemFacts, ActFacts DEF Spaced, Looks, Stops
<1>5. Fed(t, {})
  BY <1>1, <1>2, ItemFacts, ActFacts DEF Fed, Stops
<1> QED
  BY <1>1, <1>3, <1>4, <1>5 DEF Line, t

\* An action that makes a local of nothing else.
LEMMA ActLine ==
  ASSUME NEW d, NEW a, NEW x,
         Reads(a) = {},
         x \in ActWrites(a),
         a # "add-rule-to-list"
  PROVE  Line(d, <<Act(a)>>, {}, x)
<1> DEFINE t == <<Act(a)>>
<1>1. DOMAIN t = 1..1 /\ IsASequence(t)
  BY DEF IsASequence
<1>2. /\ t[1] = Act(a)
  OBVIOUS
<1> HIDE DEF t
<1>3. \A k \in DOMAIN t : Allowed(d, t[k], x)
  BY <1>1, <1>2, AllowedFacts
<1>4. Spaced(t)
  BY <1>1, <1>2, ItemFacts, ActFacts DEF Spaced, Looks, Stops
<1>5. Fed(t, {})
  BY <1>1, <1>2, ItemFacts, ActFacts DEF Fed, Stops
<1>6. Writing(t, x)
  BY <1>1, <1>2, ItemFacts, ActFacts DEF Writing, Stops
<1> QED
  BY <1>1, <1>3, <1>4, <1>5, <1>6 DEF Line, t

\* The same after a terminal.
LEMMA AdvanceActLine ==
  ASSUME NEW d, NEW a, NEW x,
         Reads(a) = {},
         x \in ActWrites(a),
         a # "add-rule-to-list"
  PROVE  Line(d, <<Advance, Act(a)>>, {}, x)
<1> DEFINE t == <<Advance, Act(a)>>
<1>1. DOMAIN t = 1..2 /\ IsASequence(t)
  BY DEF IsASequence
<1>2. /\ t[1] = Advance /\ t[2] = Act(a)
  OBVIOUS
<1> HIDE DEF t
<1>3. \A k \in DOMAIN t : Allowed(d, t[k], x)
  BY <1>1, <1>2, AllowedFacts
<1>4. Spaced(t)
  BY <1>1, <1>2, ItemFacts, ActFacts DEF Spaced, Looks, Stops
<1>5. Fed(t, {})
  BY <1>1, <1>2, ItemFacts, ActFacts DEF Fed, Stops
<1>6. Writing(t, x)
  BY <1>1, <1>2, ItemFacts, ActFacts DEF Writing, Stops
<1> QED
  BY <1>1, <1>3, <1>4, <1>5, <1>6 DEF Line, t

\* A value that a terminal has.
LEMMA ExtractLine ==
  ASSUME NEW d, NEW tok, NEW x
  PROVE  Line(d, <<Extract(tok, x), Advance>>, {}, x)
<1> DEFINE t == <<Extract(tok, x), Advance>>
<1>1. DOMAIN t = 1..2 /\ IsASequence(t)
  BY DEF IsASequence
<1>2. /\ t[1] = Extract(tok, x) /\ t[2] = Advance
  OBVIOUS
<1> HIDE DEF t
<1>3. \A k \in DOMAIN t : Allowed(d, t[k], x)
  BY <1>1, <1>2, AllowedFacts
<1>4. Spaced(t)
  BY <1>1, <1>2, ItemFacts, ActFacts DEF Spaced, Looks, Stops
<1>5. Fed(t, {})
  BY <1>1, <1>2, ItemFacts, ActFacts DEF Fed, Stops
<1>6. Writing(t, x)
  BY <1>1, <1>2, ItemFacts, ActFacts DEF Writing, Stops
<1> QED
  BY <1>1, <1>3, <1>4, <1>5, <1>6 DEF Line, t

\* A term made of the value of a terminal.
LEMMA ExtractActLine ==
  ASSUME NEW d, NEW tok, NEW x, NEW a,
         a # "add-rule-to-list",
         Reads(a) = {x},
         ActWrites(a) = {"t"}
  PROVE  Line(d, <<Extract(tok, x), Advance, Act(a)>>, {}, "t")
<1> DEFINE t == <<Extract(tok, x), Advance, Act(a)>>
<1>1. DOMAIN t = 1..3 /\ IsASequence(t)
  BY DEF IsASequence
<1>2. /\ t[1] = Extract(tok, x) /\ t[2] = Advance /\ t[3] = Act(a)
  OBVIOUS
<1> HIDE DEF t
<1>3. \A k \in DOMAIN t : Allowed(d, t[k], "t")
  BY <1>1, <1>2, AllowedFacts
<1>4. Spaced(t)
  BY <1>1, <1>2, ItemFacts, ActFacts DEF Spaced, Looks, Stops
<1>5. Fed(t, {})
  BY <1>1, <1>2, ItemFacts, ActFacts DEF Fed, Stops
<1>6. Writing(t, "t")
  BY <1>1, <1>2, ItemFacts, ActFacts DEF Writing, Stops
<1> QED
  BY <1>1, <1>3, <1>4, <1>5, <1>6 DEF Line, t

\* A term made of the characters before a terminal.
LEMMA BodyActLine ==
  ASSUME NEW d, NEW tok, NEW x, NEW a,
         tok # "ERROR",
         CallAllowed(d, "body", {}, NoLocal),
         a # "add-rule-to-list",
         Reads(a) = {x},
         ActWrites(a) = {"t"}
  PROVE  Line(d, <<Call("body", {}, NoLocal), Expect(tok), Extract(tok, x),
                   Advance, Act(a)>>, {}, "t")
<1> DEFINE t == <<Call("body", {}, NoLocal), Expect(tok), Extract(tok, x),
                  Advance, Act(a)>>
<1>1. DOMAIN t = 1..5 /\ IsASequence(t)
  BY DEF IsASequence
<1>2. /\ t[1] = Call("body", {}, NoLocal) /\ t[2] = Expect(tok)
      /\ t[3] = Extract(tok, x) /\ t[4] = Advance /\ t[5] = Act(a)
  OBVIOUS
<1> HIDE DEF t
<1>3. \A k \in DOMAIN t : Allowed(d, t[k], "t")
  BY <1>1, <1>2, AllowedFacts
<1>4. Spaced(t)
  BY <1>1, <1>2, ItemFacts, ActFacts DEF Spaced, Looks, Stops
<1>5. Fed(t, {})
  BY <1>1, <1>2, ItemFacts, ActFacts DEF Fed, Stops
<1>6. Writing(t, "t")
  BY <1>1, <1>2, ItemFacts, ActFacts DEF Writing, Stops
<1> QED
  BY <1>1, <1>3, <1>4, <1>5, <1>6 DEF Line, t

\* What one call gives.
LEMMA CallLine ==
  ASSUME NEW d, NEW f, NEW in, NEW x,
         CallAllowed(d, f, in, x)
  PROVE  Line(d, <<Call(f, in, x), Check>>, in, x)
<1> DEFINE t == <<Call(f, in, x), Check>>
<1>1. DOMAIN t = 1..2 /\ IsASequence(t)
  BY DEF IsASequence
<1>2. /\ t[1] = Call(f, in, x) /\ t[2] = Check
  OBVIOUS
<1> HIDE DEF t
<1>3. \A k \in DOMAIN t : Allowed(d, t[k], x)
  BY <1>1, <1>2, AllowedFacts
<1>4. Spaced(t)
  BY <1>1, <1>2, ItemFacts, ActFacts DEF Spaced, Looks, Stops
<1>5. Fed(t, in)
  BY <1>1, <1>2, ItemFacts, ActFacts DEF Fed, Stops
<1>6. Writing(t, x)
  BY <1>1, <1>2, ItemFacts, ActFacts DEF Writing, Stops
<1> QED
  BY <1>1, <1>3, <1>4, <1>5, <1>6 DEF Line, t

\* What the second of two calls gives, which takes what the first gave.
LEMMA CallCallLine ==
  ASSUME NEW d, NEW f, NEW h, NEW x, NEW in, NEW y,
         CallAllowed(d, f, {}, x),
         CallAllowed(d, h, in, y),
         in \subseteq {x}
  PROVE  Line(d, <<Call(f, {}, x), Call(h, in, y), Check>>, {}, y)
<1> DEFINE t == <<Call(f, {}, x), Call(h, in, y), Check>>
<1>1. DOMAIN t = 1..3 /\ IsASequence(t)
  BY DEF IsASequence
<1>2. /\ t[1] = Call(f, {}, x) /\ t[2] = Call(h, in, y) /\ t[3] = Check
  OBVIOUS
<1> HIDE DEF t
<1>3. \A k \in DOMAIN t : Allowed(d, t[k], y)
  BY <1>1, <1>2, AllowedFacts
<1>4. Spaced(t)
  BY <1>1, <1>2, ItemFacts, ActFacts DEF Spaced, Looks, Stops
<1>5. Fed(t, {})
  BY <1>1, <1>2, ItemFacts, ActFacts DEF Fed, Stops
<1>6. Writing(t, y)
  BY <1>1, <1>2, ItemFacts, ActFacts DEF Writing, Stops
<1> QED
  BY <1>1, <1>3, <1>4, <1>5, <1>6 DEF Line, t

\* What the first of two calls gives.
LEMMA CallFirstLine ==
  ASSUME NEW d, NEW f, NEW h, NEW x,
         CallAllowed(d, f, {}, x),
         CallAllowed(d, h, {}, NoLocal)
  PROVE  Line(d, <<Call(f, {}, x), Call(h, {}, NoLocal), Check>>, {}, x)
<1> DEFINE t == <<Call(f, {}, x), Call(h, {}, NoLocal), Check>>
<1>1. DOMAIN t = 1..3 /\ IsASequence(t)
  BY DEF IsASequence
<1>2. /\ t[1] = Call(f, {}, x) /\ t[2] = Call(h, {}, NoLocal) /\ t[3] = Check
  OBVIOUS
<1> HIDE DEF t
<1>3. \A k \in DOMAIN t : Allowed(d, t[k], x)
  BY <1>1, <1>2, AllowedFacts
<1>4. Spaced(t)
  BY <1>1, <1>2, ItemFacts, ActFacts DEF Spaced, Looks, Stops
<1>5. Fed(t, {})
  BY <1>1, <1>2, ItemFacts, ActFacts DEF Fed, Stops
<1>6. Writing(t, x)
  BY <1>1, <1>2, ItemFacts, ActFacts DEF Writing, Stops
<1> QED
  BY <1>1, <1>3, <1>4, <1>5, <1>6 DEF Line, t

\* What is called for is put before the list there is.
LEMMA ListLine ==
  ASSUME NEW d, NEW f, NEW x, NEW a,
         CallAllowed(d, f, {}, x),
         Reads(a) = {"l", x},
         ActWrites(a) = {"l"}
  PROVE  Line(d, <<Call(f, {}, x), Check, Act(a)>>, {"l"}, "l")
<1> DEFINE t == <<Call(f, {}, x), Check, Act(a)>>
<1>1. DOMAIN t = 1..3 /\ IsASequence(t)
  BY DEF IsASequence
<1>2. /\ t[1] = Call(f, {}, x) /\ t[2] = Check /\ t[3] = Act(a)
  OBVIOUS
<1> HIDE DEF t
<1>3. \A k \in DOMAIN t : Allowed(d, t[k], "l")
  BY <1>1, <1>2, AllowedFacts
<1>4. Spaced(t)
  BY <1>1, <1>2, ItemFacts, ActFacts DEF Spaced, Looks, Stops
<1>5. Fed(t, {"l"})
  BY <1>1, <1>2, ItemFacts, ActFacts DEF Fed, Stops
<1>6. Writing(t, "l")
  BY <1>1, <1>2, ItemFacts, ActFacts DEF Writing, Stops
<1> QED
  BY <1>1, <1>3, <1>4, <1>5, <1>6 DEF Line, t

\* The same after a terminal.
LEMMA AdvanceListLine ==
  ASSUME NEW d, NEW f, NEW x, NEW a,
         CallAllowed(d, f, {}, x),
         Reads(a) = {"l", x},
         ActWrites(a) = {"l"}
  PROVE  Line(d, <<Advance, Call(f, {}, x), Check, Act(a)>>, {"l"}, "l")
<1> DEFINE t == <<Advance, Call(f, {}, x), Check, Act(a)>>
<1>1. DOMAIN t = 1..4 /\ IsASequence(t)
  BY DEF IsASequence
<1>2. /\ t[1] = Advance /\ t[2] = Call(f, {}, x) /\ t[3] = Check
      /\ t[4] = Act(a)
  OBVIOUS
<1> HIDE DEF t
<1>3. \A k \in DOMAIN t : Allowed(d, t[k], "l")
  BY <1>1, <1>2, AllowedFacts
<1>4. Spaced(t)
  BY <1>1, <1>2, ItemFacts, ActFacts DEF Spaced, Looks, Stops
<1>5. Fed(t, {"l"})
  BY <1>1, <1>2, ItemFacts, ActFacts DEF Fed, Stops
<1>6. Writing(t, "l")
  BY <1>1, <1>2, ItemFacts, ActFacts DEF Writing, Stops
<1> QED
  BY <1>1, <1>3, <1>4, <1>5, <1>6 DEF Line, t

\* What is not implemented.
LEMMA ExceptLine ==
  ASSUME NEW d, NEW f, NEW x, NEW a,
         CallAllowed(d, f, {}, x),
         Reads(a) = {},
         a # "add-rule-to-list"
  PROVE  Line(d, <<Advance, Call(f, {}, x), Check, Act(a)>>, {}, NoLocal)
<1> DEFINE t == <<Advance, Call(f, {}, x), Check, Act(a)>>
<1>1. DOMAIN t = 1..4 /\ IsASequence(t)
  BY DEF IsASequence
<1>2. /\ t[1] = Advance /\ t[2] = Call(f, {}, x) /\ t[3] = Check
      /\ t[4] = Act(a)
  OBVIOUS
<1> HIDE DEF t
<1>3. \A k \in DOMAIN t : Allowed(d, t[k], NoLocal)
  BY <1>1, <1>2, AllowedFacts
<1>4. Spaced(t)
  BY <1>1, <1>2, ItemFacts, ActFacts DEF Spaced, Looks, Stops
<1>5. Fed(t, {})
  BY <1>1, <1>2, ItemFacts, ActFacts DEF Fed, Stops
<1> QED
  BY <1>1, <1>3, <1>4, <1>5 DEF Line, t

\* The alternatives after this one.
LEMMA MoreAltsLine ==
  ASSUME NEW d,
         CallAllowed(d, "list-of-alts", {}, "a")
  PROVE  Line(d, <<Else({"ALT"}), Call("list-of-alts", {}, "a"), Check,
                   Act("make-alt"), Act("add-alt-to-list")>>, {"t"}, "l")
<1> DEFINE t == <<Else({"ALT"}), Call("list-of-alts", {}, "a"), Check,
                  Act("make-alt"), Act("add-alt-to-list")>>
<1>1. DOMAIN t = 1..5 /\ IsASequence(t)
  BY DEF IsASequence
<1>2. /\ t[1] = Else({"ALT"}) /\ t[2] = Call("list-of-alts", {}, "a")
      /\ t[3] = Check /\ t[4] = Act("make-alt")
      /\ t[5] = Act("add-alt-to-list")
  OBVIOUS
<1> HIDE DEF t
<1>3. \A k \in DOMAIN t : Allowed(d, t[k], "l")
  BY <1>1, <1>2, AllowedFacts
<1>4. Spaced(t)
  BY <1>1, <1>2, ItemFacts, ActFacts DEF Spaced, Looks, Stops
<1>5. Fed(t, {"t"})
  BY <1>1, <1>2, ItemFacts, ActFacts DEF Fed, Stops
<1>6. Writing(t, "l")
  BY <1>1, <1>2, ItemFacts, ActFacts DEF Writing, Stops
<1> QED
  BY <1>1, <1>3, <1>4, <1>5, <1>6 DEF Line, t

\* The last alternative.
LEMMA LastAltLine ==
  ASSUME NEW d
  PROVE  Line(d, <<Act("make-alt")>>, {"t"}, "l")
<1> DEFINE t == <<Act("make-alt")>>
<1>1. DOMAIN t = 1..1 /\ IsASequence(t)
  BY DEF IsASequence
<1>2. /\ t[1] = Act("make-alt")
  OBVIOUS
<1> HIDE DEF t
<1>3. \A k \in DOMAIN t : Allowed(d, t[k], "l")
  BY <1>1, <1>2, AllowedFacts
<1>4. Spaced(t)
  BY <1>1, <1>2, ItemFacts, ActFacts DEF Spaced, Looks, Stops
<1>5. Fed(t, {"t"})
  BY <1>1, <1>2, ItemFacts, ActFacts DEF Fed, Stops
<1>6. Writing(t, "l")
  BY <1>1, <1>2, ItemFacts, ActFacts DEF Writing, Stops
<1> QED
  BY <1>1, <1>3, <1>4, <1>5, <1>6 DEF Line, t

\* A group.
LEMMA GroupLine ==
  ASSUME NEW d, NEW e,
         e # "ERROR",
         CallAllowed(d, "list-of-alts", {}, "a")
  PROVE  Line(d, <<Advance, Call("list-of-alts", {}, "a"), Expect(e),
                   Advance, Act("make-group-term")>>, {}, "t")
<1> DEFINE t == <<Advance, Call("list-of-alts", {}, "a"), Expect(e), Advance,
                  Act("make-group-term")>>
<1>1. DOMAIN t = 1..5 /\ IsASequence(t)
  BY DEF IsASequence
<1>2. /\ t[1] = Advance /\ t[2] = Call("list-of-alts", {}, "a")
      /\ t[3] = Expect(e) /\ t[4] = Advance /\ t[5] = Act("make-group-term")
  OBVIOUS
<1> HIDE DEF t
<1>3. \A k \in DOMAIN t : Allowed(d, t[k], "t")
  BY <1>1, <1>2, AllowedFacts
<1>4. Spaced(t)
  BY <1>1, <1>2, ItemFacts, ActFacts DEF Spaced, Looks, Stops
<1>5. Fed(t, {})
  BY <1>1, <1>2, ItemFacts, ActFacts DEF Fed, Stops
<1>6. Writing(t, "t")
  BY <1>1, <1>2, ItemFacts, ActFacts DEF Writing, Stops
<1> QED
  BY <1>1, <1>3, <1>4, <1>5, <1>6 DEF Line, t

\* A group that is repeated.
LEMMA RepeatedGroupLine ==
  ASSUME NEW d, NEW e, NEW a,
         e # "ERROR",
         CallAllowed(d, "list-of-alts", {}, "a"),
         a # "add-rule-to-list",
         Reads(a) = {},
         ActWrites(a) = {"min", "max"}
  PROVE  Line(d, <<Advance, Call("list-of-alts", {}, "a"), Expect(e),
                   Advance, Act("make-group-term"), Act(a),
                   Act("set-repeat")>>, {}, "t")
<1> DEFINE t == <<Advance, Call("list-of-alts", {}, "a"), Expect(e), Advance,
                  Act("make-group-term"), Act(a), Act("set-repeat")>>
<1>1. DOMAIN t = 1..7 /\ IsASequence(t)
  BY DEF IsASequence
<1>2. /\ t[1] = Advance /\ t[2] = Call("list-of-alts", {}, "a")
      /\ t[3] = Expect(e) /\ t[4] = Advance /\ t[5] = Act("make-group-term")
      /\ t[6] = Act(a) /\ t[7] = Act("set-repeat")
  OBVIOUS
<1> HIDE DEF t
<1>3. \A k \in DOMAIN t : Allowed(d, t[k], "t")
  BY <1>1, <1>2, AllowedFacts
<1>4. Spaced(t)
  BY <1>1, <1>2, ItemFacts, ActFacts DEF Spaced, Looks, Stops
<1>5. Fed(t, {})
  BY <1>1, <1>2, ItemFacts, ActFacts DEF Fed, Stops
<1>6. Writing(t, "t")
  BY <1>1, <1>2, ItemFacts, ActFacts DEF Writing, Stops
<1> QED
  BY <1>1, <1>3, <1>4, <1>5, <1>6 DEF Line, t

\* An option of RBNF.
LEMMA RbnfOptionLine ==
  ASSUME NEW d,
         "77" \in Inlined(d),
         CallAllowed(d, "list-of-alts", {}, "a")
  PROVE  Line(d, <<Advance, Call("list-of-alts", {}, "a"), Inline("77"),
                   Expect("ENDOPT"), Advance, Act("make-group-term"),
                   Act("set-repeat")>>, {}, "t")
<1> DEFINE t == <<Advance, Call("list-of-alts", {}, "a"), Inline("77"),
                  Expect("ENDOPT"), Advance, Act("make-group-term"),
                  Act("set-repeat")>>
<1>1. DOMAIN t = 1..7 /\ IsASequence(t)
  BY DEF IsASequence
<1>2. /\ t[1] = Advance /\ t[2] = Call("list-of-alts", {}, "a")
      /\ t[3] = Inline("77") /\ t[4] = Expect("ENDOPT") /\ t[5] = Advance
      /\ t[6] = Act("make-group-term") /\ t[7] = Act("set-repeat")
  OBVIOUS
<1> HIDE DEF t
<1>3. InlineReads("77") = {} /\ InlineWrites("77") = {"min", "max"}
  BY DEF InlineReads, InlineWrites
<1>4. \A k \in DOMAIN t : Allowed(d, t[k], "t")
  BY <1>1, <1>2, AllowedFacts, <1>3
<1>5. Spaced(t)
  BY <1>1, <1>2, ItemFacts, ActFacts, <1>3 DEF Spaced, Looks, Stops
<1>6. Fed(t, {})
  BY <1>1, <1>2, ItemFacts, ActFacts, <1>3 DEF Fed, Stops
<1>7. Writing(t, "t")
  BY <1>1, <1>2, ItemFacts, ActFacts, <1>3 DEF Writing, Stops
<1> QED
  BY <1>1, <1>4, <1>5, <1>6, <1>7 DEF Line, t

\* An option of ABNF.
LEMMA AbnfOptionLine ==
  ASSUME NEW d,
         CallAllowed(d, "list-of-alts", {}, "a")
  PROVE  Line(d, <<Advance, Call("list-of-alts", {}, "a"), Check,
                   Act("rep-zero-or-one"), Expect("ENDOPT"), Advance,
                   Act("make-group-term"), Act("set-repeat")>>, {}, "t")
<1> DEFINE t == <<Advance, Call("list-of-alts", {}, "a"), Check,
                  Act("rep-zero-or-one"), Expect("ENDOPT"), Advance,
                  Act("make-group-term"), Act("set-repeat")>>
<1>1. DOMAIN t = 1..8 /\ IsASequence(t)
  BY DEF IsASequence
<1>2. /\ t[1] = Advance /\ t[2] = Call("list-of-alts", {}, "a")
      /\ t[3] = Check /\ t[4] = Act("rep-zero-or-one")
      /\ t[5] = Expect("ENDOPT") /\ t[6] = Advance
      /\ t[7] = Act("make-group-term") /\ t[8] = Act("set-repeat")
  OBVIOUS
<1> HIDE DEF t
<1>3. \A k \in DOMAIN t : Allowed(d, t[k], "t")
  BY <1>1, <1>2, AllowedFacts
<1>4. Spaced(t)
  BY <1>1, <1>2, ItemFacts, ActFacts DEF Spaced, Looks, Stops
<1>5. Fed(t, {})
  BY <1>1, <1>2, ItemFacts, ActFacts DEF Fed, Stops
<1>6. Writing(t, "t")
  BY <1>1, <1>2, ItemFacts, ActFacts DEF Writing, Stops
<1> QED
  BY <1>1, <1>3, <1>4, <1>5, <1>6 DEF Line, t

\* A repetition of ABNF without a lower limit.
LEMMA AbnfRepeatLine ==
  ASSUME NEW d,
         CallAllowed(d, "87", {}, "max"),
         CallAllowed(d, "element", {}, "t")
  PROVE  Line(d, <<Act("rep-zero-min"), Advance, Call("87", {}, "max"),
                   Call("element", {}, "t"), Check, Act("set-repeat")>>, {}, "t")
<1> DEFINE t == <<Act("rep-zero-min"), Advance, Call("87", {}, "max"),
                  Call("element", {}, "t"), Check, Act("set-repeat")>>
<1>1. DOMAIN t = 1..6 /\ IsASequence(t)
  BY DEF IsASequence
<1>2. /\ t[1] = Act("rep-zero-min") /\ t[2] = Advance
      /\ t[3] = Call("87", {}, "max") /\ t[4] = Call("element", {}, "t")
      /\ t[5] = Check /\ t[6] = Act("set-repeat")
  OBVIOUS
<1> HIDE DEF t
<1>3. \A k \in DOMAIN t : Allowed(d, t[k], "t")
  BY <1>1, <1>2, AllowedFacts
<1>4. Spaced(t)
  BY <1>1, <1>2, ItemFacts, ActFacts DEF Spaced, Looks, Stops
<1>5. Fed(t, {})
  BY <1>1, <1>2, ItemFacts, ActFacts DEF Fed, Stops
<1>6. Writing(t, "t")
  BY <1>1, <1>2, ItemFacts, ActFacts DEF Writing, Stops
<1> QED
  BY <1>1, <1>3, <1>4, <1>5, <1>6 DEF Line, t

\* A repetition of ABNF with two limits, from the sign between them on.
LEMMA AbnfBetweenLine ==
  ASSUME NEW d,
         CallAllowed(d, "87", {}, "max"),
         CallAllowed(d, "element", {}, "t")
  PROVE  Line(d, <<Advance, Call("87", {}, "max"), Call("element", {}, "t"),
                   Check, Act("set-repeat")>>, {"min"}, "t")
<1> DEFINE t == <<Advance, Call("87", {}, "max"), Call("element", {}, "t"),
                  Check, Act("set-repeat")>>
<1>1. DOMAIN t = 1..5 /\ IsASequence(t)
  BY DEF IsASequence
<1>2. /\ t[1] = Advance /\ t[2] = Call("87", {}, "max")
      /\ t[3] = Call("element", {}, "t") /\ t[4] = Check
      /\ t[5] = Act("set-repeat")
  OBVIOUS
<1> HIDE DEF t
<1>3. \A k \in DOMAIN t : Allowed(d, t[k], "t")
  BY <1>1, <1>2, AllowedFacts
<1>4. Spaced(t)
  BY <1>1, <1>2, ItemFacts, ActFacts DEF Spaced, Looks, Stops
<1>5. Fed(t, {"min"})
  BY <1>1, <1>2, ItemFacts, ActFacts DEF Fed, Stops
<1>6. Writing(t, "t")
  BY <1>1, <1>2, ItemFacts, ActFacts DEF Writing, Stops
<1> QED
  BY <1>1, <1>3, <1>4, <1>5, <1>6 DEF Line, t

\* A repetition of ABNF with one limit.
LEMMA AbnfExactlyLine ==
  ASSUME NEW d,
         CallAllowed(d, "element", {}, "t")
  PROVE  Line(d, <<Call("element", {}, "t"), Check,
                   Act("set-repeat-exactly")>>, {"min"}, "t")
<1> DEFINE t == <<Call("element", {}, "t"), Check,
                  Act("set-repeat-exactly")>>
<1>1. DOMAIN t = 1..3 /\ IsASequence(t)
  BY DEF IsASequence
<1>2. /\ t[1] = Call("element", {}, "t") /\ t[2] = Check
      /\ t[3] = Act("set-repeat-exactly")
  OBVIOUS
<1> HIDE DEF t
<1>3. \A k \in DOMAIN t : Allowed(d, t[k], "t")
  BY <1>1, <1>2, AllowedFacts
<1>4. Spaced(t)
  BY <1>1, <1>2, ItemFacts, ActFacts DEF Spaced, Looks, Stops
<1>5. Fed(t, {"min"})
  BY <1>1, <1>2, ItemFacts, ActFacts DEF Fed, Stops
<1>6. Writing(t, "t")
  BY <1>1, <1>2, ItemFacts, ActFacts DEF Writing, Stops
<1> QED
  BY <1>1, <1>3, <1>4, <1>5, <1>6 DEF Line, t

\* A repetition of ABNF.
LEMMA AbnfCountLine ==
  ASSUME NEW d,
         CallAllowed(d, "105", {"min"}, "t")
  PROVE  Line(d, <<Extract("COUNT", "min"), Advance,
                   Call("105", {"min"}, "t"), Check>>, {}, "t")
<1> DEFINE t == <<Extract("COUNT", "min"), Advance,
                  Call("105", {"min"}, "t"), Check>>
<1>1. DOMAIN t = 1..4 /\ IsASequence(t)
  BY DEF IsASequence
<1>2. /\ t[1] = Extract("COUNT", "min") /\ t[2] = Advance
      /\ t[3] = Call("105", {"min"}, "t") /\ t[4] = Check
  OBVIOUS
<1> HIDE DEF t
<1>3. \A k \in DOMAIN t : Allowed(d, t[k], "t")
  BY <1>1, <1>2, AllowedFacts
<1>4. Spaced(t)
  BY <1>1, <1>2, ItemFacts, ActFacts DEF Spaced, Looks, Stops
<1>5. Fed(t, {})
  BY <1>1, <1>2, ItemFacts, ActFacts DEF Fed, Stops
<1>6. Writing(t, "t")
  BY <1>1, <1>2, ItemFacts, ActFacts DEF Writing, Stops
<1> QED
  BY <1>1, <1>3, <1>4, <1>5, <1>6 DEF Line, t

\* A repetition of EBNF.
LEMMA IsoCountLine ==
  ASSUME NEW d,
         CallAllowed(d, "factor", {}, "t")
  PROVE  Line(d, <<Extract("COUNT", "n"), Advance, Expect("STAR"), Advance,
                   Call("factor", {}, "t"), Check, Act("mul-repeat")>>, {}, "t")
<1> DEFINE t == <<Extract("COUNT", "n"), Advance, Expect("STAR"), Advance,
                  Call("factor", {}, "t"), Check, Act("mul-repeat")>>
<1>1. DOMAIN t = 1..7 /\ IsASequence(t)
  BY DEF IsASequence
<1>2. /\ t[1] = Extract("COUNT", "n") /\ t[2] = Advance
      /\ t[3] = Expect("STAR") /\ t[4] = Advance
      /\ t[5] = Call("factor", {}, "t") /\ t[6] = Check
      /\ t[7] = Act("mul-repeat")
  OBVIOUS
<1> HIDE DEF t
<1>3. \A k \in DOMAIN t : Allowed(d, t[k], "t")
  BY <1>1, <1>2, AllowedFacts
<1>4. Spaced(t)
  BY <1>1, <1>2, ItemFacts, ActFacts DEF Spaced, Looks, Stops
<1>5. Fed(t, {})
  BY <1>1, <1>2, ItemFacts, ActFacts DEF Fed, Stops
<1>6. Writing(t, "t")
  BY <1>1, <1>2, ItemFacts, ActFacts DEF Writing, Stops
<1> QED
  BY <1>1, <1>3, <1>4, <1>5, <1>6 DEF Line, t

\* A rule.
LEMMA RuleLine ==
  ASSUME NEW d, NEW ts,
         "ERROR" \notin ts,
         CallAllowed(d, "list-of-alts", {}, "a")
  PROVE  Line(d, <<Expect("IDENT"), Extract("IDENT", "s"), Advance,
                   Else({"EQUALS"}), Call("list-of-alts", {}, "a"), Check,
                   Act("make-rule"), Else(ts)>>, {}, "r")
<1> DEFINE t == <<Expect("IDENT"), Extract("IDENT", "s"), Advance,
                  Else({"EQUALS"}), Call("list-of-alts", {}, "a"), Check,
                  Act("make-rule"), Else(ts)>>
<1>1. DOMAIN t = 1..8 /\ IsASequence(t)
  BY DEF IsASequence
<1>2. /\ t[1] = Expect("IDENT") /\ t[2] = Extract("IDENT", "s")
      /\ t[3] = Advance /\ t[4] = Else({"EQUALS"})
      /\ t[5] = Call("list-of-alts", {}, "a") /\ t[6] = Check
      /\ t[7] = Act("make-rule") /\ t[8] = Else(ts)
  OBVIOUS
<1> HIDE DEF t
<1>3. \A k \in DOMAIN t : Allowed(d, t[k], "r")
  BY <1>1, <1>2, AllowedFacts
<1>4. Spaced(t)
  BY <1>1, <1>2, ItemFacts, ActFacts DEF Spaced, Looks, Stops
<1>5. Fed(t, {})
  BY <1>1, <1>2, ItemFacts, ActFacts DEF Fed, Stops
<1>6. Writing(t, "r")
  BY <1>1, <1>2, ItemFacts, ActFacts DEF Writing, Stops
<1> QED
  BY <1>1, <1>3, <1>4, <1>5, <1>6 DEF Line, t

\* A rule with the characters of its name before it.
LEMMA NamedRuleLine ==
  ASSUME NEW d, NEW ts,
         "ERROR" \notin ts,
         CallAllowed(d, "body", {}, NoLocal),
         CallAllowed(d, "list-of-alts", {}, "a")
  PROVE  Line(d, <<Call("body", {}, NoLocal), Expect("NAME"),
                   Extract("NAME", "s"), Advance, Else({"EQUALS"}),
                   Call("list-of-alts", {}, "a"), Check, Act("make-rule"),
                   Else(ts)>>, {}, "r")
<1> DEFINE t == <<Call("body", {}, NoLocal), Expect("NAME"),
                  Extract("NAME", "s"), Advance, Else({"EQUALS"}),
                  Call("list-of-alts", {}, "a"), Check, Act("make-rule"),
                  Else(ts)>>
<1>1. DOMAIN t = 1..9 /\ IsASequence(t)
  BY DEF IsASequence
<1>2. /\ t[1] = Call("body", {}, NoLocal) /\ t[2] = Expect("NAME")
      /\ t[3] = Extract("NAME", "s") /\ t[4] = Advance
      /\ t[5] = Else({"EQUALS"}) /\ t[6] = Call("list-of-alts", {}, "a")
      /\ t[7] = Check /\ t[8] = Act("make-rule") /\ t[9] = Else(ts)
  OBVIOUS
<1> HIDE DEF t
<1>3. \A k \in DOMAIN t : Allowed(d, t[k], "r")
  BY <1>1, <1>2, AllowedFacts
<1>4. Spaced(t)
  BY <1>1, <1>2, ItemFacts, ActFacts DEF Spaced, Looks, Stops
<1>5. Fed(t, {})
  BY <1>1, <1>2, ItemFacts, ActFacts DEF Fed, Stops
<1>6. Writing(t, "r")
  BY <1>1, <1>2, ItemFacts, ActFacts DEF Writing, Stops
<1> QED
  BY <1>1, <1>3, <1>4, <1>5, <1>6 DEF Line, t

\* A rule of ABNF.
LEMMA AbnfRuleLine ==
  ASSUME NEW d, NEW ts,
         "ERROR" \notin ts,
         "95" \in Inlined(d)
  PROVE  Line(d, <<Expect("IDENT"), Extract("IDENT", "s"), Advance,
                   Inline("95"), Else(ts)>>, {}, "r")
<1> DEFINE t == <<Expect("IDENT"), Extract("IDENT", "s"), Advance,
                  Inline("95"), Else(ts)>>
<1>1. DOMAIN t = 1..5 /\ IsASequence(t)
  BY DEF IsASequence
<1>2. /\ t[1] = Expect("IDENT") /\ t[2] = Extract("IDENT", "s")
      /\ t[3] = Advance /\ t[4] = Inline("95") /\ t[5] = Else(ts)
  OBVIOUS
<1> HIDE DEF t
<1>3. InlineReads("95") = {"s"} /\ InlineWrites("95") = {"r"}
  BY DEF InlineReads, InlineWrites
<1>4. \A k \in DOMAIN t : Allowed(d, t[k], "r")
  BY <1>1, <1>2, AllowedFacts, <1>3
<1>5. Spaced(t)
  BY <1>1, <1>2, ItemFacts, ActFacts, <1>3 DEF Spaced, Looks, Stops
<1>6. Fed(t, {})
  BY <1>1, <1>2, ItemFacts, ActFacts, <1>3 DEF Fed, Stops
<1>7. Writing(t, "r")
  BY <1>1, <1>2, ItemFacts, ActFacts, <1>3 DEF Writing, Stops
<1> QED
  BY <1>1, <1>4, <1>5, <1>6, <1>7 DEF Line, t

\* All rules, and the end of the text.
LEMMA EntryLine ==
  ASSUME NEW d,
         CallAllowed(d, "list-of-rules", {}, "l")
  PROVE  Line(d, <<Call("list-of-rules", {}, "l"), Expect("EOF"), Advance>>, {}, "l")
<1> DEFINE t == <<Call("list-of-rules", {}, "l"), Expect("EOF"), Advance>>
<1>1. DOMAIN t = 1..3 /\ IsASequence(t)
  BY DEF IsASequence
<1>2. /\ t[1] = Call("list-of-rules", {}, "l") /\ t[2] = Expect("EOF")
      /\ t[3] = Advance
  OBVIOUS
<1> HIDE DEF t
<1>3. \A k \in DOMAIN t : Allowed(d, t[k], "l")
  BY <1>1, <1>2, AllowedFacts
<1>4. Spaced(t)
  BY <1>1, <1>2, ItemFacts, ActFacts DEF Spaced, Looks, Stops
<1>5. Fed(t, {})
  BY <1>1, <1>2, ItemFacts, ActFacts DEF Fed, Stops
<1>6. Writing(t, "l")
  BY <1>1, <1>2, ItemFacts, ActFacts DEF Writing, Stops
<1> QED
  BY <1>1, <1>3, <1>4, <1>5, <1>6 DEF Line, t

-----------------------------------------------------------------------------
\* The items are those of Productions.
LEMMA WsnItems ==
  /\ Wsn!Advance = Advance /\ Wsn!Check = Check /\ Wsn!Fail = Fail
  /\ \A t : Wsn!Expect(t) = Expect(t)
  /\ \A ts : Wsn!Else(ts) = Else(ts)
  /\ \A f : Wsn!Goto(f) = Goto(f)
  /\ \A t, x : Wsn!Extract(t, x) = Extract(t, x)
  /\ \A a : Wsn!Act(a) = Act(a)
  /\ \A f, in, x : Wsn!Call(f, in, x) = Call(f, in, x)
BY DEF Wsn!Advance, Wsn!Check, Wsn!Fail, Wsn!Expect, Wsn!Else, Wsn!Goto,
       Wsn!Extract, Wsn!Act, Wsn!Call, Wsn!Item, Advance, Check, Fail, Expect,
       Else, Goto, Extract, Act, Call, Item

\* Each function may call what it does.
LEMMA WsnCalls ==
  /\ GotoAllowed("wsn", "body", NoLocal)
  /\ CallAllowed("wsn", "93", {"l"}, "l")
  /\ CallAllowed("wsn", "94", {"t"}, "l")
  /\ CallAllowed("wsn", "95", {"l"}, "l")
  /\ CallAllowed("wsn", "body", {}, NoLocal)
  /\ CallAllowed("wsn", "factor", {}, "l")
  /\ CallAllowed("wsn", "list-of-alts", {}, "a")
  /\ CallAllowed("wsn", "list-of-rules", {}, "l")
  /\ CallAllowed("wsn", "list-of-rules", {}, "r")
  /\ CallAllowed("wsn", "list-of-terms", {}, "t")
  /\ CallAllowed("wsn", "rule", {}, "l")
  /\ CallAllowed("wsn", "term", {}, "t")
BY DEF CallAllowed, GotoAllowed, Procs, Takes, Yields, Wsn!Result, NoLocal

\* What each function takes and yields.
LEMMA WsnSignatures ==
  /\ Takes("wsn", "body") = {} /\ Yields("wsn", "body") = NoLocal
  /\ Takes("wsn", "term") = {} /\ Yields("wsn", "term") = "t"
  /\ Takes("wsn", "factor") = {} /\ Yields("wsn", "factor") = "t"
  /\ Takes("wsn", "list-of-terms") = {} /\ Yields("wsn", "list-of-terms") = "l"
  /\ Takes("wsn", "95") = {"l"} /\ Yields("wsn", "95") = "l"
  /\ Takes("wsn", "list-of-alts") = {} /\ Yields("wsn", "list-of-alts") = "l"
  /\ Takes("wsn", "94") = {"t"} /\ Yields("wsn", "94") = "l"
  /\ Takes("wsn", "rule") = {} /\ Yields("wsn", "rule") = "r"
  /\ Takes("wsn", "list-of-rules") = {} /\ Yields("wsn", "list-of-rules") = "l"
  /\ Takes("wsn", "93") = {"l"} /\ Yields("wsn", "93") = "l"
  /\ Takes("wsn", "entry") = {} /\ Yields("wsn", "entry") = "l"
BY DEF Takes, Yields, Wsn!Result, NoLocal

\* prod_body.
LEMMA WsnBody == ASSUME NEW tok PROVE Line("wsn", Wsn!prod_body(tok), {}, NoLocal)
<1>1. CASE tok \in {"ESC", "CHAR"}
  <2>1. Wsn!prod_body(tok) = <<Extract(tok, "c"), Advance,
                               Act("pattern-char"), Goto("body")>>
    BY <1>1, WsnItems DEF Wsn!prod_body
  <2> QED
    BY <2>1, BodyLine, WsnCalls, ActFacts
<1>2. CASE tok \notin {"ESC", "CHAR"}
  <2>1. Wsn!prod_body(tok) = <<>>
    BY <1>2 DEF Wsn!prod_body
  <2> QED
    BY <2>1, NoLine
<1> QED
  BY <1>1, <1>2

\* prod_term.
LEMMA WsnTerm == ASSUME NEW tok PROVE Line("wsn", Wsn!prod_term(tok), {}, "t")
<1>1. CASE tok = "EMPTY"
  <2>1. tok # "IDENT" /\ tok \notin {"ESC", "CHAR", "CS_LITERAL"}
    BY <1>1
  <2>2. Wsn!prod_term(tok) = <<Advance, Act("make-empty-term")>>
    BY <2>1, <1>1, WsnItems, Zenon DEF Wsn!prod_term
  <2> QED
    BY <2>2, AdvanceActLine, ActFacts
<1>2. CASE tok = "IDENT"
  <2>1. tok # "EMPTY" /\ tok \notin {"ESC", "CHAR", "CS_LITERAL"}
    BY <1>2
  <2>2. Wsn!prod_term(tok) = <<Extract("IDENT", "s"), Advance,
                               Act("make-rule-term")>>
    BY <2>1, <1>2, WsnItems, Zenon DEF Wsn!prod_term
  <2> QED
    BY <2>2, ExtractActLine, ActFacts
<1>3. CASE tok \in {"ESC", "CHAR", "CS_LITERAL"}
  <2>1. tok # "EMPTY" /\ tok # "IDENT"
    BY <1>3
  <2>2. Wsn!prod_term(tok) = <<Call("body", {}, NoLocal),
                               Expect("CS_LITERAL"),
                               Extract("CS_LITERAL", "x"), Advance,
                               Act("make-cs-literal-term")>>
    BY <2>1, <1>3, WsnItems, Zenon DEF Wsn!prod_term, NoLocal
  <2> QED
    BY <2>2, BodyActLine, WsnCalls, ActFacts
<1>4. CASE tok \notin {"EMPTY", "IDENT"} \union {"ESC", "CHAR", "CS_LITERAL"}
  <2>1. /\ tok # "EMPTY" /\ tok # "IDENT"
        /\ tok \notin {"ESC", "CHAR", "CS_LITERAL"}
    BY <1>4
  <2>2. Wsn!prod_term(tok) = <<Fail>>
    BY <2>1, WsnItems, Zenon DEF Wsn!prod_term
  <2> QED
    BY <2>2, FailLine
<1> QED
  BY <1>1, <1>2, <1>3, <1>4

\* prod_factor.
LEMMA WsnFactor == ASSUME NEW tok PROVE Line("wsn", Wsn!prod_factor(tok), {}, "t")
<1>1. CASE tok = "STARTGROUP"
  <2>1. /\ tok # "STARTOPT" /\ tok # "STARTSTAR"
        /\ tok \notin Wsn!FirstOfTerm
    BY <1>1 DEF Wsn!FirstOfTerm
  <2>2. Wsn!prod_factor(tok) = <<Advance, Call("list-of-alts", {}, "a"),
                                 Expect("ENDGROUP"), Advance,
                                 Act("make-group-term")>>
    BY <2>1, <1>1, WsnItems, Zenon DEF Wsn!prod_factor
  <2> QED
    BY <2>2, GroupLine, WsnCalls, ActFacts
<1>2. CASE tok = "STARTOPT"
  <2>1. /\ tok # "STARTGROUP" /\ tok # "STARTSTAR"
        /\ tok \notin Wsn!FirstOfTerm
    BY <1>2 DEF Wsn!FirstOfTerm
  <2>2. Wsn!prod_factor(tok) = <<Advance, Call("list-of-alts", {}, "a"),
                                 Expect("ENDOPT"), Advance,
                                 Act("make-group-term"),
                                 Act("rep-zero-or-one"), Act("set-repeat")>>
    BY <2>1, <1>2, WsnItems, Zenon DEF Wsn!prod_factor
  <2> QED
    BY <2>2, RepeatedGroupLine, WsnCalls, ActFacts
<1>3. CASE tok = "STARTSTAR"
  <2>1. /\ tok # "STARTGROUP" /\ tok # "STARTOPT"
        /\ tok \notin Wsn!FirstOfTerm
    BY <1>3 DEF Wsn!FirstOfTerm
  <2>2. Wsn!prod_factor(tok) = <<Advance, Call("list-of-alts", {}, "a"),
                                 Expect("ENDSTAR"), Advance,
                                 Act("make-group-term"),
                                 Act("rep-zero-or-more"), Act("set-repeat")>>
    BY <2>1, <1>3, WsnItems, Zenon DEF Wsn!prod_factor
  <2> QED
    BY <2>2, RepeatedGroupLine, WsnCalls, ActFacts
<1>4. CASE tok \in Wsn!FirstOfTerm
  <2>1. tok # "STARTGROUP" /\ tok # "STARTOPT" /\ tok # "STARTSTAR"
    BY <1>4 DEF Wsn!FirstOfTerm
  <2>2. Wsn!prod_factor(tok) = <<Call("term", {}, "t"), Check>>
    BY <2>1, <1>4, WsnItems, Zenon DEF Wsn!prod_factor
  <2> QED
    BY <2>2, CallLine, WsnCalls
<1>5. CASE tok \notin {"STARTGROUP", "STARTOPT", "STARTSTAR"} \union Wsn!FirstOfTerm
  <2>1. /\ tok # "STARTGROUP" /\ tok # "STARTOPT" /\ tok # "STARTSTAR"
        /\ tok \notin Wsn!FirstOfTerm
    BY <1>5 DEF Wsn!FirstOfTerm
  <2>2. Wsn!prod_factor(tok) = <<Fail>>
    BY <2>1, WsnItems, Zenon DEF Wsn!prod_factor
  <2> QED
    BY <2>2, FailLine
<1> QED
  BY <1>1, <1>2, <1>3, <1>4, <1>5

\* prod_list-of-terms.
LEMMA WsnListOfTerms == ASSUME NEW tok PROVE Line("wsn", Wsn!prod_list_Hof_Hterms(tok), {}, "l")
<1>1. Wsn!prod_list_Hof_Hterms(tok) = <<Call("factor", {}, "l"),
                                        Call("95", {"l"}, "l"), Check>>
  BY WsnItems DEF Wsn!prod_list_Hof_Hterms
<1> QED
  BY <1>1, CallCallLine, WsnCalls

\* prod_95.
LEMMA Wsn95 == ASSUME NEW tok PROVE Line("wsn", Wsn!prod_95(tok), {"l"}, "l")
<1>1. CASE tok \in Wsn!FirstOfFactor
  <2>1. Wsn!prod_95(tok) = <<Call("list-of-terms", {}, "t"), Check,
                             Act("add-term-to-list")>>
    BY <1>1, WsnItems DEF Wsn!prod_95
  <2> QED
    BY <2>1, ListLine, WsnCalls, ActFacts
<1>2. CASE tok \notin Wsn!FirstOfFactor
  <2>1. Wsn!prod_95(tok) = <<>>
    BY <1>2 DEF Wsn!prod_95
  <2> QED
    BY <2>1, NoLine
<1> QED
  BY <1>1, <1>2

\* prod_list-of-alts.
LEMMA WsnListOfAlts == ASSUME NEW tok PROVE Line("wsn", Wsn!prod_list_Hof_Halts(tok), {}, "l")
<1>1. Wsn!prod_list_Hof_Halts(tok) = <<Call("list-of-terms", {}, "t"),
                                       Call("94", {"t"}, "l"), Check>>
  BY WsnItems DEF Wsn!prod_list_Hof_Halts
<1> QED
  BY <1>1, CallCallLine, WsnCalls

\* prod_94.
LEMMA Wsn94 == ASSUME NEW tok PROVE Line("wsn", Wsn!prod_94(tok), {"t"}, "l")
<1>1. CASE tok = "ALT"
  <2>1. Wsn!prod_94(tok) = <<Else({"ALT"}), Call("list-of-alts", {}, "a"),
                             Check, Act("make-alt"), Act("add-alt-to-list")>>
    BY <1>1, WsnItems DEF Wsn!prod_94
  <2> QED
    BY <2>1, MoreAltsLine, WsnCalls, ActFacts
<1>2. CASE tok # "ALT"
  <2>1. Wsn!prod_94(tok) = <<Act("make-alt")>>
    BY <1>2, WsnItems DEF Wsn!prod_94
  <2> QED
    BY <2>1, LastAltLine, ActFacts
<1> QED
  BY <1>1, <1>2

\* prod_rule.
LEMMA WsnRule == ASSUME NEW tok PROVE Line("wsn", Wsn!prod_rule(tok), {}, "r")
<1>1. Wsn!prod_rule(tok) = <<Expect("IDENT"), Extract("IDENT", "s"), Advance,
                             Else({"EQUALS"}), Call("list-of-alts", {}, "a"),
                             Check, Act("make-rule"), Else({"SEP"})>>
  BY WsnItems DEF Wsn!prod_rule
<1> QED
  BY <1>1, RuleLine, WsnCalls, ActFacts

\* prod_list-of-rules.
LEMMA WsnListOfRules == ASSUME NEW tok PROVE Line("wsn", Wsn!prod_list_Hof_Hrules(tok), {}, "l")
<1>1. Wsn!prod_list_Hof_Hrules(tok) = <<Call("rule", {}, "l"),
                                        Call("93", {"l"}, "l"), Check>>
  BY WsnItems DEF Wsn!prod_list_Hof_Hrules
<1> QED
  BY <1>1, CallCallLine, WsnCalls

\* prod_93.
LEMMA Wsn93 == ASSUME NEW tok PROVE Line("wsn", Wsn!prod_93(tok), {"l"}, "l")
<1>1. CASE tok = "IDENT"
  <2>1. Wsn!prod_93(tok) = <<Call("list-of-rules", {}, "r"), Check,
                             Act("add-rule-to-list")>>
    BY <1>1, WsnItems DEF Wsn!prod_93
  <2> QED
    BY <2>1, ListLine, WsnCalls, ActFacts
<1>2. CASE tok # "IDENT"
  <2>1. Wsn!prod_93(tok) = <<>>
    BY <1>2 DEF Wsn!prod_93
  <2> QED
    BY <2>1, NoLine
<1> QED
  BY <1>1, <1>2

\* prod_entry.
LEMMA WsnWsn == ASSUME NEW tok PROVE Line("wsn", Wsn!prod_wsn(tok), {}, "l")
<1>1. Wsn!prod_wsn(tok) = <<Call("list-of-rules", {}, "l"), Expect("EOF"),
                            Advance>>
  BY WsnItems DEF Wsn!prod_wsn
<1> QED
  BY <1>1, EntryLine, WsnCalls

\* The lines of Wirth syntax notation.
LEMMA WsnLines ==
  ASSUME NEW f \in Procs("wsn"), NEW tok
  PROVE  Line("wsn", Wsn!Production(f, tok), Takes("wsn", f), Yields("wsn", f))
<1>1. CASE f = "body"
  BY <1>1, WsnBody, WsnSignatures DEF Wsn!Production
<1>2. CASE f = "term"
  BY <1>2, WsnTerm, WsnSignatures DEF Wsn!Production
<1>3. CASE f = "factor"
  BY <1>3, WsnFactor, WsnSignatures DEF Wsn!Production
<1>4. CASE f = "list-of-terms"
  BY <1>4, WsnListOfTerms, WsnSignatures DEF Wsn!Production
<1>5. CASE f = "95"
  BY <1>5, Wsn95, WsnSignatures DEF Wsn!Production
<1>6. CASE f = "list-of-alts"
  BY <1>6, WsnListOfAlts, WsnSignatures DEF Wsn!Production
<1>7. CASE f = "94"
  BY <1>7, Wsn94, WsnSignatures DEF Wsn!Production
<1>8. CASE f = "rule"
  BY <1>8, WsnRule, WsnSignatures DEF Wsn!Production
<1>9. CASE f = "list-of-rules"
  BY <1>9, WsnListOfRules, WsnSignatures DEF Wsn!Production
<1>10. CASE f = "93"
  BY <1>10, Wsn93, WsnSignatures DEF Wsn!Production
<1>11. CASE f = "entry"
  BY <1>11, WsnWsn, WsnSignatures DEF Wsn!Production
<1> QED
  BY <1>1, <1>2, <1>3, <1>4, <1>5, <1>6, <1>7, <1>8, <1>9, <1>10, <1>11 DEF Procs

\* The items are those of Productions.
LEMMA BnfItems ==
  /\ Bnf!Advance = Advance /\ Bnf!Check = Check /\ Bnf!Fail = Fail
  /\ \A t : Bnf!Expect(t) = Expect(t)
  /\ \A ts : Bnf!Else(ts) = Else(ts)
  /\ \A f : Bnf!Goto(f) = Goto(f)
  /\ \A t, x : Bnf!Extract(t, x) = Extract(t, x)
  /\ \A a : Bnf!Act(a) = Act(a)
  /\ \A f, in, x : Bnf!Call(f, in, x) = Call(f, in, x)
BY DEF Bnf!Advance, Bnf!Check, Bnf!Fail, Bnf!Expect, Bnf!Else, Bnf!Goto,
       Bnf!Extract, Bnf!Act, Bnf!Call, Bnf!Item, Advance, Check, Fail, Expect,
       Else, Goto, Extract, Act, Call, Item

\* Each function may call what it does.
LEMMA BnfCalls ==
  /\ GotoAllowed("bnf", "body", NoLocal)
  /\ CallAllowed("bnf", "90", {"l"}, "l")
  /\ CallAllowed("bnf", "91", {"t"}, "l")
  /\ CallAllowed("bnf", "92", {"l"}, "l")
  /\ CallAllowed("bnf", "93", {}, "t")
  /\ CallAllowed("bnf", "body", {}, NoLocal)
  /\ CallAllowed("bnf", "factor", {}, "l")
  /\ CallAllowed("bnf", "list-of-alts", {}, "a")
  /\ CallAllowed("bnf", "list-of-rules", {}, "l")
  /\ CallAllowed("bnf", "list-of-rules", {}, "r")
  /\ CallAllowed("bnf", "list-of-terms", {}, "t")
  /\ CallAllowed("bnf", "rule", {}, "l")
  /\ CallAllowed("bnf", "term", {}, "t")
BY DEF CallAllowed, GotoAllowed, Procs, Takes, Yields, Bnf!Result, NoLocal

\* What each function takes and yields.
LEMMA BnfSignatures ==
  /\ Takes("bnf", "body") = {} /\ Yields("bnf", "body") = NoLocal
  /\ Takes("bnf", "93") = {} /\ Yields("bnf", "93") = "t"
  /\ Takes("bnf", "term") = {} /\ Yields("bnf", "term") = "t"
  /\ Takes("bnf", "factor") = {} /\ Yields("bnf", "factor") = "t"
  /\ Takes("bnf", "list-of-terms") = {} /\ Yields("bnf", "list-of-terms") = "l"
  /\ Takes("bnf", "92") = {"l"} /\ Yields("bnf", "92") = "l"
  /\ Takes("bnf", "list-of-alts") = {} /\ Yields("bnf", "list-of-alts") = "l"
  /\ Takes("bnf", "91") = {"t"} /\ Yields("bnf", "91") = "l"
  /\ Takes("bnf", "rule") = {} /\ Yields("bnf", "rule") = "r"
  /\ Takes("bnf", "list-of-rules") = {} /\ Yields("bnf", "list-of-rules") = "l"
  /\ Takes("bnf", "90") = {"l"} /\ Yields("bnf", "90") = "l"
  /\ Takes("bnf", "entry") = {} /\ Yields("bnf", "entry") = "l"
BY DEF Takes, Yields, Bnf!Result, NoLocal

\* prod_body.
LEMMA BnfBody == ASSUME NEW tok PROVE Line("bnf", Bnf!prod_body(tok), {}, NoLocal)
<1>1. CASE tok = "CHAR"
  <2>1. Bnf!prod_body(tok) = <<Extract("CHAR", "c"), Advance,
                               Act("pattern-char"), Goto("body")>>
    BY <1>1, BnfItems DEF Bnf!prod_body
  <2> QED
    BY <2>1, BodyLine, BnfCalls, ActFacts
<1>2. CASE tok # "CHAR"
  <2>1. Bnf!prod_body(tok) = <<>>
    BY <1>2 DEF Bnf!prod_body
  <2> QED
    BY <2>1, NoLine
<1> QED
  BY <1>1, <1>2

\* prod_93.
LEMMA Bnf93 == ASSUME NEW tok PROVE Line("bnf", Bnf!prod_93(tok), {}, "t")
<1>1. CASE tok = "CS_LITERAL"
  <2>1. tok # "NAME"
    BY <1>1
  <2>2. Bnf!prod_93(tok) = <<Extract("CS_LITERAL", "x"), Advance,
                             Act("make-cs-literal-term")>>
    BY <2>1, <1>1, BnfItems, Zenon DEF Bnf!prod_93
  <2> QED
    BY <2>2, ExtractActLine, ActFacts
<1>2. CASE tok = "NAME"
  <2>1. tok # "CS_LITERAL"
    BY <1>2
  <2>2. Bnf!prod_93(tok) = <<Extract("NAME", "s"), Advance,
                             Act("make-rule-term")>>
    BY <2>1, <1>2, BnfItems, Zenon DEF Bnf!prod_93
  <2> QED
    BY <2>2, ExtractActLine, ActFacts
<1>3. CASE tok \notin {"CS_LITERAL", "NAME"}
  <2>1. tok # "CS_LITERAL" /\ tok # "NAME"
    BY <1>3
  <2>2. Bnf!prod_93(tok) = <<Fail>>
    BY <2>1, BnfItems, Zenon DEF Bnf!prod_93
  <2> QED
    BY <2>2, FailLine
<1> QED
  BY <1>1, <1>2, <1>3

\* prod_term.
LEMMA BnfTerm == ASSUME NEW tok PROVE Line("bnf", Bnf!prod_term(tok), {}, "t")
<1>1. CASE tok = "EMPTY"
  <2>1. tok \notin {"CHAR", "NAME", "CS_LITERAL"}
    BY <1>1
  <2>2. Bnf!prod_term(tok) = <<Advance, Act("make-empty-term")>>
    BY <2>1, <1>1, BnfItems, Zenon DEF Bnf!prod_term
  <2> QED
    BY <2>2, AdvanceActLine, ActFacts
<1>2. CASE tok \in {"CHAR", "NAME", "CS_LITERAL"}
  <2>1. tok # "EMPTY"
    BY <1>2
  <2>2. Bnf!prod_term(tok) = <<Call("body", {}, NoLocal),
                               Call("93", {}, "t"), Check>>
    BY <2>1, <1>2, BnfItems, Zenon DEF Bnf!prod_term, NoLocal
  <2> QED
    BY <2>2, CallCallLine, BnfCalls
<1>3. CASE tok \notin {"EMPTY", "CHAR", "NAME", "CS_LITERAL"}
  <2>1. tok # "EMPTY" /\ tok \notin {"CHAR", "NAME", "CS_LITERAL"}
    BY <1>3
  <2>2. Bnf!prod_term(tok) = <<Fail>>
    BY <2>1, BnfItems, Zenon DEF Bnf!prod_term
  <2> QED
    BY <2>2, FailLine
<1> QED
  BY <1>1, <1>2, <1>3

\* prod_factor.
LEMMA BnfFactor == ASSUME NEW tok PROVE Line("bnf", Bnf!prod_factor(tok), {}, "t")
<1>1. Bnf!prod_factor(tok) = <<Call("term", {}, "t"), Check>>
  BY BnfItems DEF Bnf!prod_factor
<1> QED
  BY <1>1, CallLine, BnfCalls

\* prod_list-of-terms.
LEMMA BnfListOfTerms == ASSUME NEW tok PROVE Line("bnf", Bnf!prod_list_Hof_Hterms(tok), {}, "l")
<1>1. Bnf!prod_list_Hof_Hterms(tok) = <<Call("factor", {}, "l"),
                                        Call("92", {"l"}, "l"), Check>>
  BY BnfItems DEF Bnf!prod_list_Hof_Hterms
<1> QED
  BY <1>1, CallCallLine, BnfCalls

\* prod_92.
LEMMA Bnf92 == ASSUME NEW tok PROVE Line("bnf", Bnf!prod_92(tok), {"l"}, "l")
<1>1. CASE tok \in Bnf!FirstOfTerm
  <2>1. Bnf!prod_92(tok) = <<Call("list-of-terms", {}, "t"), Check,
                             Act("add-term-to-list")>>
    BY <1>1, BnfItems DEF Bnf!prod_92
  <2> QED
    BY <2>1, ListLine, BnfCalls, ActFacts
<1>2. CASE tok \notin Bnf!FirstOfTerm
  <2>1. Bnf!prod_92(tok) = <<>>
    BY <1>2 DEF Bnf!prod_92
  <2> QED
    BY <2>1, NoLine
<1> QED
  BY <1>1, <1>2

\* prod_list-of-alts.
LEMMA BnfListOfAlts == ASSUME NEW tok PROVE Line("bnf", Bnf!prod_list_Hof_Halts(tok), {}, "l")
<1>1. Bnf!prod_list_Hof_Halts(tok) = <<Call("list-of-terms", {}, "t"),
                                       Call("91", {"t"}, "l"), Check>>
  BY BnfItems DEF Bnf!prod_list_Hof_Halts
<1> QED
  BY <1>1, CallCallLine, BnfCalls

\* prod_91.
LEMMA Bnf91 == ASSUME NEW tok PROVE Line("bnf", Bnf!prod_91(tok), {"t"}, "l")
<1>1. CASE tok = "ALT"
  <2>1. Bnf!prod_91(tok) = <<Else({"ALT"}), Call("list-of-alts", {}, "a"),
                             Check, Act("make-alt"), Act("add-alt-to-list")>>
    BY <1>1, BnfItems DEF Bnf!prod_91
  <2> QED
    BY <2>1, MoreAltsLine, BnfCalls, ActFacts
<1>2. CASE tok # "ALT"
  <2>1. Bnf!prod_91(tok) = <<Act("make-alt")>>
    BY <1>2, BnfItems DEF Bnf!prod_91
  <2> QED
    BY <2>1, LastAltLine, ActFacts
<1> QED
  BY <1>1, <1>2

\* prod_rule.
LEMMA BnfRule == ASSUME NEW tok PROVE Line("bnf", Bnf!prod_rule(tok), {}, "r")
<1>1. Bnf!prod_rule(tok) = <<Call("body", {}, NoLocal), Expect("NAME"),
                             Extract("NAME", "s"), Advance, Else({"EQUALS"}),
                             Call("list-of-alts", {}, "a"), Check,
                             Act("make-rule"), Else({"EOF", "SEP"})>>
  BY BnfItems DEF Bnf!prod_rule, NoLocal
<1> QED
  BY <1>1, NamedRuleLine, BnfCalls, ActFacts

\* prod_list-of-rules.
LEMMA BnfListOfRules == ASSUME NEW tok PROVE Line("bnf", Bnf!prod_list_Hof_Hrules(tok), {}, "l")
<1>1. Bnf!prod_list_Hof_Hrules(tok) = <<Call("rule", {}, "l"),
                                        Call("90", {"l"}, "l"), Check>>
  BY BnfItems DEF Bnf!prod_list_Hof_Hrules
<1> QED
  BY <1>1, CallCallLine, BnfCalls

\* prod_90.
LEMMA Bnf90 == ASSUME NEW tok PROVE Line("bnf", Bnf!prod_90(tok), {"l"}, "l")
<1>1. CASE tok \in {"CHAR", "NAME"}
  <2>1. Bnf!prod_90(tok) = <<Call("list-of-rules", {}, "r"), Check,
                             Act("add-rule-to-list")>>
    BY <1>1, BnfItems DEF Bnf!prod_90
  <2> QED
    BY <2>1, ListLine, BnfCalls, ActFacts
<1>2. CASE tok \notin {"CHAR", "NAME"}
  <2>1. Bnf!prod_90(tok) = <<>>
    BY <1>2 DEF Bnf!prod_90
  <2> QED
    BY <2>1, NoLine
<1> QED
  BY <1>1, <1>2

\* prod_entry.
LEMMA BnfBnf == ASSUME NEW tok PROVE Line("bnf", Bnf!prod_bnf(tok), {}, "l")
<1>1. Bnf!prod_bnf(tok) = <<Call("list-of-rules", {}, "l"), Check>>
  BY BnfItems DEF Bnf!prod_bnf
<1> QED
  BY <1>1, CallLine, BnfCalls

\* The lines of BNF.
LEMMA BnfLines ==
  ASSUME NEW f \in Procs("bnf"), NEW tok
  PROVE  Line("bnf", Bnf!Production(f, tok), Takes("bnf", f), Yields("bnf", f))
<1>1. CASE f = "body"
  BY <1>1, BnfBody, BnfSignatures DEF Bnf!Production
<1>2. CASE f = "93"
  BY <1>2, Bnf93, BnfSignatures DEF Bnf!Production
<1>3. CASE f = "term"
  BY <1>3, BnfTerm, BnfSignatures DEF Bnf!Production
<1>4. CASE f = "factor"
  BY <1>4, BnfFactor, BnfSignatures DEF Bnf!Production
<1>5. CASE f = "list-of-terms"
  BY <1>5, BnfListOfTerms, BnfSignatures DEF Bnf!Production
<1>6. CASE f = "92"
  BY <1>6, Bnf92, BnfSignatures DEF Bnf!Production
<1>7. CASE f = "list-of-alts"
  BY <1>7, BnfListOfAlts, BnfSignatures DEF Bnf!Production
<1>8. CASE f = "91"
  BY <1>8, Bnf91, BnfSignatures DEF Bnf!Production
<1>9. CASE f = "rule"
  BY <1>9, BnfRule, BnfSignatures DEF Bnf!Production
<1>10. CASE f = "list-of-rules"
  BY <1>10, BnfListOfRules, BnfSignatures DEF Bnf!Production
<1>11. CASE f = "90"
  BY <1>11, Bnf90, BnfSignatures DEF Bnf!Production
<1>12. CASE f = "entry"
  BY <1>12, BnfBnf, BnfSignatures DEF Bnf!Production
<1> QED
  BY <1>1, <1>2, <1>3, <1>4, <1>5, <1>6, <1>7, <1>8, <1>9, <1>10, <1>11, <1>12 DEF Procs

\* The items are those of Productions.
LEMMA RbnfItems ==
  /\ Rbnf!Advance = Advance /\ Rbnf!Check = Check /\ Rbnf!Fail = Fail
  /\ \A t : Rbnf!Expect(t) = Expect(t)
  /\ \A ts : Rbnf!Else(ts) = Else(ts)
  /\ \A f : Rbnf!Goto(f) = Goto(f)
  /\ \A t, x : Rbnf!Extract(t, x) = Extract(t, x)
  /\ \A a : Rbnf!Act(a) = Act(a)
  /\ \A f, in, x : Rbnf!Call(f, in, x) = Call(f, in, x)
  /\ \A f : Rbnf!Inline(f) = Inline(f)
BY DEF Rbnf!Advance, Rbnf!Check, Rbnf!Fail, Rbnf!Expect, Rbnf!Else, Rbnf!Goto,
       Rbnf!Extract, Rbnf!Act, Rbnf!Call, Rbnf!Inline, Rbnf!Item, Advance,
       Check, Fail, Expect, Else, Goto, Extract, Act, Call, Inline, Item

\* Each function may call what it does.
LEMMA RbnfCalls ==
  /\ GotoAllowed("rbnf", "body", NoLocal)
  /\ CallAllowed("rbnf", "91", {"l"}, "l")
  /\ CallAllowed("rbnf", "92", {"t"}, "l")
  /\ CallAllowed("rbnf", "93", {"l"}, "l")
  /\ CallAllowed("rbnf", "body", {}, NoLocal)
  /\ CallAllowed("rbnf", "factor", {}, "l")
  /\ CallAllowed("rbnf", "list-of-alts", {}, "a")
  /\ CallAllowed("rbnf", "list-of-rules", {}, "l")
  /\ CallAllowed("rbnf", "list-of-rules", {}, "r")
  /\ CallAllowed("rbnf", "list-of-terms", {}, "t")
  /\ CallAllowed("rbnf", "rule", {}, "l")
  /\ CallAllowed("rbnf", "term", {}, "t")
BY DEF CallAllowed, GotoAllowed, Procs, Takes, Yields, Rbnf!Result, NoLocal

\* What each function takes and yields.
LEMMA RbnfSignatures ==
  /\ Takes("rbnf", "body") = {} /\ Yields("rbnf", "body") = NoLocal
  /\ Takes("rbnf", "term") = {} /\ Yields("rbnf", "term") = "t"
  /\ Takes("rbnf", "factor") = {} /\ Yields("rbnf", "factor") = "t"
  /\ Takes("rbnf", "list-of-terms") = {} /\ Yields("rbnf", "list-of-terms") = "l"
  /\ Takes("rbnf", "93") = {"l"} /\ Yields("rbnf", "93") = "l"
  /\ Takes("rbnf", "list-of-alts") = {} /\ Yields("rbnf", "list-of-alts") = "l"
  /\ Takes("rbnf", "92") = {"t"} /\ Yields("rbnf", "92") = "l"
  /\ Takes("rbnf", "rule") = {} /\ Yields("rbnf", "rule") = "r"
  /\ Takes("rbnf", "list-of-rules") = {} /\ Yields("rbnf", "list-of-rules") = "l"
  /\ Takes("rbnf", "91") = {"l"} /\ Yields("rbnf", "91") = "l"
  /\ Takes("rbnf", "entry") = {} /\ Yields("rbnf", "entry") = "l"
BY DEF Takes, Yields, Rbnf!Result, NoLocal

\* prod_body.
LEMMA RbnfBody == ASSUME NEW tok PROVE Line("rbnf", Rbnf!prod_body(tok), {}, NoLocal)
<1>1. CASE tok = "CHAR"
  <2>1. Rbnf!prod_body(tok) = <<Extract("CHAR", "c"), Advance,
                                Act("pattern-char"), Goto("body")>>
    BY <1>1, RbnfItems DEF Rbnf!prod_body
  <2> QED
    BY <2>1, BodyLine, RbnfCalls, ActFacts
<1>2. CASE tok # "CHAR"
  <2>1. Rbnf!prod_body(tok) = <<>>
    BY <1>2 DEF Rbnf!prod_body
  <2> QED
    BY <2>1, NoLine
<1> QED
  BY <1>1, <1>2

\* prod_term.
LEMMA RbnfTerm == ASSUME NEW tok PROVE Line("rbnf", Rbnf!prod_term(tok), {}, "t")
<1>1. Rbnf!prod_term(tok) = <<Call("body", {}, NoLocal), Expect("NAME"),
                              Extract("NAME", "s"), Advance,
                              Act("make-rule-term")>>
  BY RbnfItems DEF Rbnf!prod_term, NoLocal
<1> QED
  BY <1>1, BodyActLine, RbnfCalls, ActFacts

\* prod_factor.
LEMMA RbnfFactor == ASSUME NEW tok PROVE Line("rbnf", Rbnf!prod_factor(tok), {}, "t")
<1>1. CASE tok = "STARTGROUP"
  <2>1. tok # "STARTOPT" /\ tok \notin {"CHAR", "NAME"}
    BY <1>1
  <2>2. Rbnf!prod_factor(tok) = <<Advance, Call("list-of-alts", {}, "a"),
                                  Expect("ENDGROUP"), Advance,
                                  Act("make-group-term")>>
    BY <2>1, <1>1, RbnfItems, Zenon DEF Rbnf!prod_factor
  <2> QED
    BY <2>2, GroupLine, RbnfCalls, ActFacts
<1>2. CASE tok = "STARTOPT"
  <2>1. tok # "STARTGROUP" /\ tok \notin {"CHAR", "NAME"}
    BY <1>2
  <2>2. Rbnf!prod_factor(tok) = <<Advance, Call("list-of-alts", {}, "a"),
                                  Inline("77"), Expect("ENDOPT"), Advance,
                                  Act("make-group-term"), Act("set-repeat")>>
    BY <2>1, <1>2, RbnfItems, Zenon DEF Rbnf!prod_factor
  <2> QED
    BY <2>2, RbnfOptionLine, RbnfCalls, ActFacts DEF Inlined
<1>3. CASE tok \in {"CHAR", "NAME"}
  <2>1. tok # "STARTGROUP" /\ tok # "STARTOPT"
    BY <1>3
  <2>2. Rbnf!prod_factor(tok) = <<Call("term", {}, "t"), Check>>
    BY <2>1, <1>3, RbnfItems, Zenon DEF Rbnf!prod_factor
  <2> QED
    BY <2>2, CallLine, RbnfCalls
<1>4. CASE tok \notin {"STARTGROUP", "STARTOPT", "CHAR", "NAME"}
  <2>1. /\ tok # "STARTGROUP" /\ tok # "STARTOPT"
        /\ tok \notin {"CHAR", "NAME"}
    BY <1>4
  <2>2. Rbnf!prod_factor(tok) = <<Fail>>
    BY <2>1, RbnfItems, Zenon DEF Rbnf!prod_factor
  <2> QED
    BY <2>2, FailLine
<1> QED
  BY <1>1, <1>2, <1>3, <1>4

\* prod_list-of-terms.
LEMMA RbnfListOfTerms == ASSUME NEW tok PROVE Line("rbnf", Rbnf!prod_list_Hof_Hterms(tok), {}, "l")
<1>1. Rbnf!prod_list_Hof_Hterms(tok) = <<Call("factor", {}, "l"),
                                         Call("93", {"l"}, "l"), Check>>
  BY RbnfItems DEF Rbnf!prod_list_Hof_Hterms
<1> QED
  BY <1>1, CallCallLine, RbnfCalls

\* prod_93.
LEMMA Rbnf93 == ASSUME NEW tok PROVE Line("rbnf", Rbnf!prod_93(tok), {"l"}, "l")
<1>1. CASE tok \in Rbnf!FirstOfFactor
  <2>1. Rbnf!prod_93(tok) = <<Call("list-of-terms", {}, "t"), Check,
                              Act("add-term-to-list")>>
    BY <1>1, RbnfItems DEF Rbnf!prod_93
  <2> QED
    BY <2>1, ListLine, RbnfCalls, ActFacts
<1>2. CASE tok \notin Rbnf!FirstOfFactor
  <2>1. Rbnf!prod_93(tok) = <<>>
    BY <1>2 DEF Rbnf!prod_93
  <2> QED
    BY <2>1, NoLine
<1> QED
  BY <1>1, <1>2

\* prod_list-of-alts.
LEMMA RbnfListOfAlts == ASSUME NEW tok PROVE Line("rbnf", Rbnf!prod_list_Hof_Halts(tok), {}, "l")
<1>1. Rbnf!prod_list_Hof_Halts(tok) = <<Call("list-of-terms", {}, "t"),
                                        Call("92", {"t"}, "l"), Check>>
  BY RbnfItems DEF Rbnf!prod_list_Hof_Halts
<1> QED
  BY <1>1, CallCallLine, RbnfCalls

\* prod_92.
LEMMA Rbnf92 == ASSUME NEW tok PROVE Line("rbnf", Rbnf!prod_92(tok), {"t"}, "l")
<1>1. CASE tok = "ALT"
  <2>1. Rbnf!prod_92(tok) = <<Else({"ALT"}), Call("list-of-alts", {}, "a"),
                              Check, Act("make-alt"),
                              Act("add-alt-to-list")>>
    BY <1>1, RbnfItems DEF Rbnf!prod_92
  <2> QED
    BY <2>1, MoreAltsLine, RbnfCalls, ActFacts
<1>2. CASE tok # "ALT"
  <2>1. Rbnf!prod_92(tok) = <<Act("make-alt")>>
    BY <1>2, RbnfItems DEF Rbnf!prod_92
  <2> QED
    BY <2>1, LastAltLine, ActFacts
<1> QED
  BY <1>1, <1>2

\* prod_rule.
LEMMA RbnfRule == ASSUME NEW tok PROVE Line("rbnf", Rbnf!prod_rule(tok), {}, "r")
<1>1. Rbnf!prod_rule(tok) = <<Call("body", {}, NoLocal), Expect("NAME"),
                              Extract("NAME", "s"), Advance,
                              Else({"EQUALS"}),
                              Call("list-of-alts", {}, "a"), Check,
                              Act("make-rule"), Else({"EOF", "SEP"})>>
  BY RbnfItems DEF Rbnf!prod_rule, NoLocal
<1> QED
  BY <1>1, NamedRuleLine, RbnfCalls, ActFacts

\* prod_list-of-rules.
LEMMA RbnfListOfRules == ASSUME NEW tok PROVE Line("rbnf", Rbnf!prod_list_Hof_Hrules(tok), {}, "l")
<1>1. Rbnf!prod_list_Hof_Hrules(tok) = <<Call("rule", {}, "l"),
                                         Call("91", {"l"}, "l"), Check>>
  BY RbnfItems DEF Rbnf!prod_list_Hof_Hrules
<1> QED
  BY <1>1, CallCallLine, RbnfCalls

\* prod_91.
LEMMA Rbnf91 == ASSUME NEW tok PROVE Line("rbnf", Rbnf!prod_91(tok), {"l"}, "l")
<1>1. CASE tok \in {"CHAR", "NAME"}
  <2>1. Rbnf!prod_91(tok) = <<Call("list-of-rules", {}, "r"), Check,
                              Act("add-rule-to-list")>>
    BY <1>1, RbnfItems DEF Rbnf!prod_91
  <2> QED
    BY <2>1, ListLine, RbnfCalls, ActFacts
<1>2. CASE tok \notin {"CHAR", "NAME"}
  <2>1. Rbnf!prod_91(tok) = <<>>
    BY <1>2 DEF Rbnf!prod_91
  <2> QED
    BY <2>1, NoLine
<1> QED
  BY <1>1, <1>2

\* prod_entry.
LEMMA RbnfRbnf == ASSUME NEW tok PROVE Line("rbnf", Rbnf!prod_rbnf(tok), {}, "l")
<1>1. Rbnf!prod_rbnf(tok) = <<Call("list-of-rules", {}, "l"), Check>>
  BY RbnfItems DEF Rbnf!prod_rbnf
<1> QED
  BY <1>1, CallLine, RbnfCalls

\* The lines of routing BNF.
LEMMA RbnfLines ==
  ASSUME NEW f \in Procs("rbnf"), NEW tok
  PROVE  Line("rbnf", Rbnf!Production(f, tok), Takes("rbnf", f), Yields("rbnf", f))
<1>1. CASE f = "body"
  BY <1>1, RbnfBody, RbnfSignatures DEF Rbnf!Production
<1>2. CASE f = "term"
  BY <1>2, RbnfTerm, RbnfSignatures DEF Rbnf!Production
<1>3. CASE f = "factor"
  BY <1>3, RbnfFactor, RbnfSignatures DEF Rbnf!Production
<1>4. CASE f = "list-of-terms"
  BY <1>4, RbnfListOfTerms, RbnfSignatures DEF Rbnf!Production
<1>5. CASE f = "93"
  BY <1>5, Rbnf93, RbnfSignatures DEF Rbnf!Production
<1>6. CASE f = "list-of-alts"
  BY <1>6, RbnfListOfAlts, RbnfSignatures DEF Rbnf!Production
<1>7. CASE f = "92"
  BY <1>7, Rbnf92, RbnfSignatures DEF Rbnf!Production
<1>8. CASE f = "rule"
  BY <1>8, RbnfRule, RbnfSignatures DEF Rbnf!Production
<1>9. CASE f = "list-of-rules"
  BY <1>9, RbnfListOfRules, RbnfSignatures DEF Rbnf!Production
<1>10. CASE f = "91"
  BY <1>10, Rbnf91, RbnfSignatures DEF Rbnf!Production
<1>11. CASE f = "entry"
  BY <1>11, RbnfRbnf, RbnfSignatures DEF Rbnf!Production
<1> QED
  BY <1>1, <1>2, <1>3, <1>4, <1>5, <1>6, <1>7, <1>8, <1>9, <1>10, <1>11 DEF Procs

\* The items are those of Productions.
LEMMA IsoItems ==
  /\ Iso!Advance = Advance /\ Iso!Check = Check /\ Iso!Fail = Fail
  /\ \A t : Iso!Expect(t) = Expect(t)
  /\ \A ts : Iso!Else(ts) = Else(ts)
  /\ \A f : Iso!Goto(f) = Goto(f)
  /\ \A t, x : Iso!Extract(t, x) = Extract(t, x)
  /\ \A a : Iso!Act(a) = Act(a)
  /\ \A f, in, x : Iso!Call(f, in, x) = Call(f, in, x)
BY DEF Iso!Advance, Iso!Check, Iso!Fail, Iso!Expect, Iso!Else, Iso!Goto,
       Iso!Extract, Iso!Act, Iso!Call, Iso!Item, Advance, Check, Fail, Expect,
       Else, Goto, Extract, Act, Call, Item

\* Each function may call what it does.
LEMMA IsoCalls ==
  /\ GotoAllowed("iso-ebnf", "body", NoLocal)
  /\ CallAllowed("iso-ebnf", "95", {"l"}, "l")
  /\ CallAllowed("iso-ebnf", "96", {"t"}, "l")
  /\ CallAllowed("iso-ebnf", "97", {}, NoLocal)
  /\ CallAllowed("iso-ebnf", "98", {"l"}, "l")
  /\ CallAllowed("iso-ebnf", "99", {}, "t")
  /\ CallAllowed("iso-ebnf", "body", {}, NoLocal)
  /\ CallAllowed("iso-ebnf", "factor", {}, "t")
  /\ CallAllowed("iso-ebnf", "list-of-alts", {}, "a")
  /\ CallAllowed("iso-ebnf", "list-of-excepts", {}, "t")
  /\ CallAllowed("iso-ebnf", "list-of-rules", {}, "l")
  /\ CallAllowed("iso-ebnf", "list-of-rules", {}, "r")
  /\ CallAllowed("iso-ebnf", "list-of-terms", {}, "l")
  /\ CallAllowed("iso-ebnf", "list-of-terms", {}, "t")
  /\ CallAllowed("iso-ebnf", "repeatable-factor", {}, "l")
  /\ CallAllowed("iso-ebnf", "rule", {}, "l")
  /\ CallAllowed("iso-ebnf", "term", {}, "t")
BY DEF CallAllowed, GotoAllowed, Procs, Takes, Yields, Iso!Result, NoLocal

\* What each function takes and yields.
LEMMA IsoSignatures ==
  /\ Takes("iso-ebnf", "body") = {} /\ Yields("iso-ebnf", "body") = NoLocal
  /\ Takes("iso-ebnf", "99") = {} /\ Yields("iso-ebnf", "99") = "t"
  /\ Takes("iso-ebnf", "term") = {} /\ Yields("iso-ebnf", "term") = "t"
  /\ Takes("iso-ebnf", "factor") = {} /\ Yields("iso-ebnf", "factor") = "t"
  /\ Takes("iso-ebnf", "repeatable-factor") = {} /\ Yields("iso-ebnf", "repeatable-factor") = "t"
  /\ Takes("iso-ebnf", "list-of-terms") = {} /\ Yields("iso-ebnf", "list-of-terms") = "l"
  /\ Takes("iso-ebnf", "98") = {"l"} /\ Yields("iso-ebnf", "98") = "l"
  /\ Takes("iso-ebnf", "list-of-excepts") = {} /\ Yields("iso-ebnf", "list-of-excepts") = "l"
  /\ Takes("iso-ebnf", "97") = {} /\ Yields("iso-ebnf", "97") = NoLocal
  /\ Takes("iso-ebnf", "list-of-alts") = {} /\ Yields("iso-ebnf", "list-of-alts") = "l"
  /\ Takes("iso-ebnf", "96") = {"t"} /\ Yields("iso-ebnf", "96") = "l"
  /\ Takes("iso-ebnf", "rule") = {} /\ Yields("iso-ebnf", "rule") = "r"
  /\ Takes("iso-ebnf", "list-of-rules") = {} /\ Yields("iso-ebnf", "list-of-rules") = "l"
  /\ Takes("iso-ebnf", "95") = {"l"} /\ Yields("iso-ebnf", "95") = "l"
  /\ Takes("iso-ebnf", "entry") = {} /\ Yields("iso-ebnf", "entry") = "l"
BY DEF Takes, Yields, Iso!Result, NoLocal

\* prod_body.
LEMMA IsoBody == ASSUME NEW tok PROVE Line("iso-ebnf", Iso!prod_body(tok), {}, NoLocal)
<1>1. CASE tok = "CHAR"
  <2>1. Iso!prod_body(tok) = <<Extract("CHAR", "c"), Advance,
                               Act("pattern-char"), Goto("body")>>
    BY <1>1, IsoItems DEF Iso!prod_body
  <2> QED
    BY <2>1, BodyLine, IsoCalls, ActFacts
<1>2. CASE tok # "CHAR"
  <2>1. Iso!prod_body(tok) = <<>>
    BY <1>2 DEF Iso!prod_body
  <2> QED
    BY <2>1, NoLine
<1> QED
  BY <1>1, <1>2

\* prod_99.
LEMMA Iso99 == ASSUME NEW tok PROVE Line("iso-ebnf", Iso!prod_99(tok), {}, "t")
<1>1. CASE tok = "CS_LITERAL"
  <2>1. tok # "PROSE"
    BY <1>1
  <2>2. Iso!prod_99(tok) = <<Extract("CS_LITERAL", "x"), Advance,
                             Act("make-cs-literal-term")>>
    BY <2>1, <1>1, IsoItems, Zenon DEF Iso!prod_99
  <2> QED
    BY <2>2, ExtractActLine, ActFacts
<1>2. CASE tok = "PROSE"
  <2>1. tok # "CS_LITERAL"
    BY <1>2
  <2>2. Iso!prod_99(tok) = <<Extract("PROSE", "s"), Advance,
                             Act("make-prose-term")>>
    BY <2>1, <1>2, IsoItems, Zenon DEF Iso!prod_99
  <2> QED
    BY <2>2, ExtractActLine, ActFacts
<1>3. CASE tok \notin {"CS_LITERAL", "PROSE"}
  <2>1. tok # "CS_LITERAL" /\ tok # "PROSE"
    BY <1>3
  <2>2. Iso!prod_99(tok) = <<Fail>>
    BY <2>1, IsoItems, Zenon DEF Iso!prod_99
  <2> QED
    BY <2>2, FailLine
<1> QED
  BY <1>1, <1>2, <1>3

\* prod_term.
LEMMA IsoTerm == ASSUME NEW tok PROVE Line("iso-ebnf", Iso!prod_term(tok), {}, "t")
<1>1. CASE tok = "IDENT"
  <2>1. tok \notin {"CHAR", "CS_LITERAL", "PROSE"}
    BY <1>1
  <2>2. Iso!prod_term(tok) = <<Extract("IDENT", "s"), Advance,
                               Act("make-rule-term")>>
    BY <2>1, <1>1, IsoItems, Zenon DEF Iso!prod_term
  <2> QED
    BY <2>2, ExtractActLine, ActFacts
<1>2. CASE tok \in {"CHAR", "CS_LITERAL", "PROSE"}
  <2>1. tok # "IDENT"
    BY <1>2
  <2>2. Iso!prod_term(tok) = <<Call("body", {}, NoLocal),
                               Call("99", {}, "t"), Check>>
    BY <2>1, <1>2, IsoItems, Zenon DEF Iso!prod_term, NoLocal
  <2> QED
    BY <2>2, CallCallLine, IsoCalls
<1>3. CASE tok \notin {"IDENT", "CHAR", "CS_LITERAL", "PROSE"}
  <2>1. tok # "IDENT" /\ tok \notin {"CHAR", "CS_LITERAL", "PROSE"}
    BY <1>3
  <2>2. Iso!prod_term(tok) = <<Act("make-empty-term")>>
    BY <2>1, IsoItems, Zenon DEF Iso!prod_term
  <2> QED
    BY <2>2, ActLine, ActFacts
<1> QED
  BY <1>1, <1>2, <1>3

\* prod_factor.
LEMMA IsoFactor == ASSUME NEW tok PROVE Line("iso-ebnf", Iso!prod_factor(tok), {}, "t")
<1>1. CASE tok = "STARTGROUP"
  <2>1. tok # "STARTOPT" /\ tok # "STARTSTAR"
    BY <1>1
  <2>2. Iso!prod_factor(tok) = <<Advance, Call("list-of-alts", {}, "a"),
                                 Expect("ENDGROUP"), Advance,
                                 Act("make-group-term")>>
    BY <2>1, <1>1, IsoItems, Zenon DEF Iso!prod_factor
  <2> QED
    BY <2>2, GroupLine, IsoCalls, ActFacts
<1>2. CASE tok = "STARTOPT"
  <2>1. tok # "STARTGROUP" /\ tok # "STARTSTAR"
    BY <1>2
  <2>2. Iso!prod_factor(tok) = <<Advance, Call("list-of-alts", {}, "a"),
                                 Expect("ENDOPT"), Advance,
                                 Act("make-group-term"),
                                 Act("rep-zero-or-one"), Act("set-repeat")>>
    BY <2>1, <1>2, IsoItems, Zenon DEF Iso!prod_factor
  <2> QED
    BY <2>2, RepeatedGroupLine, IsoCalls, ActFacts
<1>3. CASE tok = "STARTSTAR"
  <2>1. tok # "STARTGROUP" /\ tok # "STARTOPT"
    BY <1>3
  <2>2. Iso!prod_factor(tok) = <<Advance, Call("list-of-alts", {}, "a"),
                                 Expect("ENDSTAR"), Advance,
                                 Act("make-group-term"),
                                 Act("rep-zero-or-more"), Act("set-repeat")>>
    BY <2>1, <1>3, IsoItems, Zenon DEF Iso!prod_factor
  <2> QED
    BY <2>2, RepeatedGroupLine, IsoCalls, ActFacts
<1>4. CASE tok \notin {"STARTGROUP", "STARTOPT", "STARTSTAR"}
  <2>1. tok # "STARTGROUP" /\ tok # "STARTOPT" /\ tok # "STARTSTAR"
    BY <1>4
  <2>2. Iso!prod_factor(tok) = <<Call("term", {}, "t"), Check>>
    BY <2>1, IsoItems, Zenon DEF Iso!prod_factor
  <2> QED
    BY <2>2, CallLine, IsoCalls
<1> QED
  BY <1>1, <1>2, <1>3, <1>4

\* prod_repeatable-factor.
LEMMA IsoRepeatableFactor == ASSUME NEW tok PROVE Line("iso-ebnf", Iso!prod_repeatable_Hfactor(tok), {}, "t")
<1>1. CASE tok = "COUNT"
  <2>1. Iso!prod_repeatable_Hfactor(tok) = <<Extract("COUNT", "n"), Advance,
                                             Expect("STAR"), Advance,
                                             Call("factor", {}, "t"), Check,
                                             Act("mul-repeat")>>
    BY <1>1, IsoItems DEF Iso!prod_repeatable_Hfactor
  <2> QED
    BY <2>1, IsoCountLine, IsoCalls, ActFacts
<1>2. CASE tok # "COUNT"
  <2>1. Iso!prod_repeatable_Hfactor(tok) = <<Call("factor", {}, "t"), Check>>
    BY <1>2, IsoItems DEF Iso!prod_repeatable_Hfactor
  <2> QED
    BY <2>1, CallLine, IsoCalls
<1> QED
  BY <1>1, <1>2

\* prod_list-of-terms.
LEMMA IsoListOfTerms == ASSUME NEW tok PROVE Line("iso-ebnf", Iso!prod_list_Hof_Hterms(tok), {}, "l")
<1>1. Iso!prod_list_Hof_Hterms(tok) = <<Call("repeatable-factor", {}, "l"),
                                        Call("98", {"l"}, "l"), Check>>
  BY IsoItems DEF Iso!prod_list_Hof_Hterms
<1> QED
  BY <1>1, CallCallLine, IsoCalls

\* prod_98.
LEMMA Iso98 == ASSUME NEW tok PROVE Line("iso-ebnf", Iso!prod_98(tok), {"l"}, "l")
<1>1. CASE tok = "CAT"
  <2>1. Iso!prod_98(tok) = <<Advance, Call("list-of-terms", {}, "t"), Check,
                             Act("add-term-to-list")>>
    BY <1>1, IsoItems DEF Iso!prod_98
  <2> QED
    BY <2>1, AdvanceListLine, IsoCalls, ActFacts
<1>2. CASE tok # "CAT"
  <2>1. Iso!prod_98(tok) = <<>>
    BY <1>2 DEF Iso!prod_98
  <2> QED
    BY <2>1, NoLine
<1> QED
  BY <1>1, <1>2

\* prod_list-of-excepts.
LEMMA IsoListOfExcepts == ASSUME NEW tok PROVE Line("iso-ebnf", Iso!prod_list_Hof_Hexcepts(tok), {}, "l")
<1>1. Iso!prod_list_Hof_Hexcepts(tok) = <<Call("list-of-terms", {}, "l"),
                                          Call("97", {}, NoLocal), Check>>
  BY IsoItems DEF Iso!prod_list_Hof_Hexcepts, NoLocal
<1> QED
  BY <1>1, CallFirstLine, IsoCalls

\* prod_97.
LEMMA Iso97 == ASSUME NEW tok PROVE Line("iso-ebnf", Iso!prod_97(tok), {}, NoLocal)
<1>1. CASE tok = "EXCEPT"
  <2>1. Iso!prod_97(tok) = <<Advance, Call("list-of-terms", {}, "t"), Check,
                             Act("err-unimplemented-except")>>
    BY <1>1, IsoItems DEF Iso!prod_97
  <2> QED
    BY <2>1, ExceptLine, IsoCalls, ActFacts
<1>2. CASE tok # "EXCEPT"
  <2>1. Iso!prod_97(tok) = <<>>
    BY <1>2 DEF Iso!prod_97
  <2> QED
    BY <2>1, NoLine
<1> QED
  BY <1>1, <1>2

\* prod_list-of-alts.
LEMMA IsoListOfAlts == ASSUME NEW tok PROVE Line("iso-ebnf", Iso!prod_list_Hof_Halts(tok), {}, "l")
<1>1. Iso!prod_list_Hof_Halts(tok) = <<Call("list-of-excepts", {}, "t"),
                                       Call("96", {"t"}, "l"), Check>>
  BY IsoItems DEF Iso!prod_list_Hof_Halts
<1> QED
  BY <1>1, CallCallLine, IsoCalls

\* prod_96.
LEMMA Iso96 == ASSUME NEW tok PROVE Line("iso-ebnf", Iso!prod_96(tok), {"t"}, "l")
<1>1. CASE tok = "ALT"
  <2>1. Iso!prod_96(tok) = <<Else({"ALT"}), Call("list-of-alts", {}, "a"),
                             Check, Act("make-alt"), Act("add-alt-to-list")>>
    BY <1>1, IsoItems DEF Iso!prod_96
  <2> QED
    BY <2>1, MoreAltsLine, IsoCalls, ActFacts
<1>2. CASE tok # "ALT"
  <2>1. Iso!prod_96(tok) = <<Act("make-alt")>>
    BY <1>2, IsoItems DEF Iso!prod_96
  <2> QED
    BY <2>1, LastAltLine, ActFacts
<1> QED
  BY <1>1, <1>2

\* prod_rule.
LEMMA IsoRule == ASSUME NEW tok PROVE Line("iso-ebnf", Iso!prod_rule(tok), {}, "r")
<1>1. Iso!prod_rule(tok) = <<Expect("IDENT"), Extract("IDENT", "s"), Advance,
                             Else({"EQUALS"}), Call("list-of-alts", {}, "a"),
                             Check, Act("make-rule"), Else({"SEP"})>>
  BY IsoItems DEF Iso!prod_rule
<1> QED
  BY <1>1, RuleLine, IsoCalls, ActFacts

\* prod_list-of-rules.
LEMMA IsoListOfRules == ASSUME NEW tok PROVE Line("iso-ebnf", Iso!prod_list_Hof_Hrules(tok), {}, "l")
<1>1. Iso!prod_list_Hof_Hrules(tok) = <<Call("rule", {}, "l"),
                                        Call("95", {"l"}, "l"), Check>>
  BY IsoItems DEF Iso!prod_list_Hof_Hrules
<1> QED
  BY <1>1, CallCallLine, IsoCalls

\* prod_95.
LEMMA Iso95 == ASSUME NEW tok PROVE Line("iso-ebnf", Iso!prod_95(tok), {"l"}, "l")
<1>1. CASE tok = "IDENT"
  <2>1. Iso!prod_95(tok) = <<Call("list-of-rules", {}, "r"), Check,
                             Act("add-rule-to-list")>>
    BY <1>1, IsoItems DEF Iso!prod_95
  <2> QED
    BY <2>1, ListLine, IsoCalls, ActFacts
<1>2. CASE tok # "IDENT"
  <2>1. Iso!prod_95(tok) = <<>>
    BY <1>2 DEF Iso!prod_95
  <2> QED
    BY <2>1, NoLine
<1> QED
  BY <1>1, <1>2

\* prod_entry.
LEMMA IsoIsoEbnf == ASSUME NEW tok PROVE Line("iso-ebnf", Iso!prod_iso_Hebnf(tok), {}, "l")
<1>1. Iso!prod_iso_Hebnf(tok) = <<Call("list-of-rules", {}, "l"),
                                  Expect("EOF"), Advance>>
  BY IsoItems DEF Iso!prod_iso_Hebnf
<1> QED
  BY <1>1, EntryLine, IsoCalls

\* The lines of EBNF.
LEMMA IsoLines ==
  ASSUME NEW f \in Procs("iso-ebnf"), NEW tok
  PROVE  Line("iso-ebnf", Iso!Production(f, tok), Takes("iso-ebnf", f), Yields("iso-ebnf", f))
<1>1. CASE f = "body"
  BY <1>1, IsoBody, IsoSignatures DEF Iso!Production
<1>2. CASE f = "99"
  BY <1>2, Iso99, IsoSignatures DEF Iso!Production
<1>3. CASE f = "term"
  BY <1>3, IsoTerm, IsoSignatures DEF Iso!Production
<1>4. CASE f = "factor"
  BY <1>4, IsoFactor, IsoSignatures DEF Iso!Production
<1>5. CASE f = "repeatable-factor"
  BY <1>5, IsoRepeatableFactor, IsoSignatures DEF Iso!Production
<1>6. CASE f = "list-of-terms"
  BY <1>6, IsoListOfTerms, IsoSignatures DEF Iso!Production
<1>7. CASE f = "98"
  BY <1>7, Iso98, IsoSignatures DEF Iso!Production
<1>8. CASE f = "list-of-excepts"
  BY <1>8, IsoListOfExcepts, IsoSignatures DEF Iso!Production
<1>9. CASE f = "97"
  BY <1>9, Iso97, IsoSignatures DEF Iso!Production
<1>10. CASE f = "list-of-alts"
  BY <1>10, IsoListOfAlts, IsoSignatures DEF Iso!Production
<1>11. CASE f = "96"
  BY <1>11, Iso96, IsoSignatures DEF Iso!Production
<1>12. CASE f = "rule"
  BY <1>12, IsoRule, IsoSignatures DEF Iso!Production
<1>13. CASE f = "list-of-rules"
  BY <1>13, IsoListOfRules, IsoSignatures DEF Iso!Production
<1>14. CASE f = "95"
  BY <1>14, Iso95, IsoSignatures DEF Iso!Production
<1>15. CASE f = "entry"
  BY <1>15, IsoIsoEbnf, IsoSignatures DEF Iso!Production
<1> QED
  BY <1>1, <1>2, <1>3, <1>4, <1>5, <1>6, <1>7, <1>8, <1>9, <1>10, <1>11,
     <1>12, <1>13, <1>14, <1>15 DEF Procs

\* The items are those of Productions.
LEMMA AbnfItems ==
  /\ Abnf!Advance = Advance /\ Abnf!Check = Check /\ Abnf!Fail = Fail
  /\ \A t : Abnf!Expect(t) = Expect(t)
  /\ \A ts : Abnf!Else(ts) = Else(ts)
  /\ \A f : Abnf!Goto(f) = Goto(f)
  /\ \A t, x : Abnf!Extract(t, x) = Extract(t, x)
  /\ \A a : Abnf!Act(a) = Act(a)
  /\ \A f, in, x : Abnf!Call(f, in, x) = Call(f, in, x)
  /\ \A f : Abnf!Inline(f) = Inline(f)
BY DEF Abnf!Advance, Abnf!Check, Abnf!Fail, Abnf!Expect, Abnf!Else, Abnf!Goto,
       Abnf!Extract, Abnf!Act, Abnf!Call, Abnf!Inline, Abnf!Item, Advance,
       Check, Fail, Expect, Else, Goto, Extract, Act, Call, Inline, Item

\* Each function may call what it does.
LEMMA AbnfCalls ==
  /\ GotoAllowed("abnf", "body", NoLocal)
  /\ CallAllowed("abnf", "101", {"l"}, "l")
  /\ CallAllowed("abnf", "102", {"t"}, "l")
  /\ CallAllowed("abnf", "103", {"l"}, "l")
  /\ CallAllowed("abnf", "105", {"min"}, "t")
  /\ CallAllowed("abnf", "106", {}, "t")
  /\ CallAllowed("abnf", "87", {}, "max")
  /\ CallAllowed("abnf", "body", {}, NoLocal)
  /\ CallAllowed("abnf", "element", {}, "t")
  /\ CallAllowed("abnf", "factor", {}, "l")
  /\ CallAllowed("abnf", "list-of-alts", {}, "a")
  /\ CallAllowed("abnf", "list-of-rules", {}, "l")
  /\ CallAllowed("abnf", "list-of-rules", {}, "r")
  /\ CallAllowed("abnf", "list-of-terms", {}, "t")
  /\ CallAllowed("abnf", "rule", {}, "l")
  /\ CallAllowed("abnf", "term", {}, "t")
BY DEF CallAllowed, GotoAllowed, Procs, Takes, Yields, Abnf!Result, NoLocal

\* What each function takes and yields.
LEMMA AbnfSignatures ==
  /\ Takes("abnf", "body") = {} /\ Yields("abnf", "body") = NoLocal
  /\ Takes("abnf", "106") = {} /\ Yields("abnf", "106") = "t"
  /\ Takes("abnf", "term") = {} /\ Yields("abnf", "term") = "t"
  /\ Takes("abnf", "element") = {} /\ Yields("abnf", "element") = "t"
  /\ Takes("abnf", "87") = {} /\ Yields("abnf", "87") = "max"
  /\ Takes("abnf", "105") = {"min"} /\ Yields("abnf", "105") = "t"
  /\ Takes("abnf", "factor") = {} /\ Yields("abnf", "factor") = "t"
  /\ Takes("abnf", "list-of-terms") = {} /\ Yields("abnf", "list-of-terms") = "l"
  /\ Takes("abnf", "103") = {"l"} /\ Yields("abnf", "103") = "l"
  /\ Takes("abnf", "list-of-alts") = {} /\ Yields("abnf", "list-of-alts") = "l"
  /\ Takes("abnf", "102") = {"t"} /\ Yields("abnf", "102") = "l"
  /\ Takes("abnf", "rule") = {} /\ Yields("abnf", "rule") = "r"
  /\ Takes("abnf", "list-of-rules") = {} /\ Yields("abnf", "list-of-rules") = "l"
  /\ Takes("abnf", "101") = {"l"} /\ Yields("abnf", "101") = "l"
  /\ Takes("abnf", "entry") = {} /\ Yields("abnf", "entry") = "l"
BY DEF Takes, Yields, Abnf!Result, NoLocal

\* prod_body.
LEMMA AbnfBody == ASSUME NEW tok PROVE Line("abnf", Abnf!prod_body(tok), {}, NoLocal)
<1>1. CASE tok = "CHAR"
  <2>1. Abnf!prod_body(tok) = <<Extract("CHAR", "c"), Advance,
                                Act("pattern-char"), Goto("body")>>
    BY <1>1, AbnfItems DEF Abnf!prod_body
  <2> QED
    BY <2>1, BodyLine, AbnfCalls, ActFacts
<1>2. CASE tok # "CHAR"
  <2>1. Abnf!prod_body(tok) = <<>>
    BY <1>2 DEF Abnf!prod_body
  <2> QED
    BY <2>1, NoLine
<1> QED
  BY <1>1, <1>2

\* prod_106.
LEMMA Abnf106 == ASSUME NEW tok PROVE Line("abnf", Abnf!prod_106(tok), {}, "t")
<1>1. CASE tok = "CI_LITERAL"
  <2>1. tok # "CS_LITERAL" /\ tok # "PROSE"
    BY <1>1
  <2>2. Abnf!prod_106(tok) = <<Extract("CI_LITERAL", "x"), Advance,
                               Act("make-ci-literal-term")>>
    BY <2>1, <1>1, AbnfItems, Zenon DEF Abnf!prod_106
  <2> QED
    BY <2>2, ExtractActLine, ActFacts
<1>2. CASE tok = "CS_LITERAL"
  <2>1. tok # "CI_LITERAL" /\ tok # "PROSE"
    BY <1>2
  <2>2. Abnf!prod_106(tok) = <<Extract("CS_LITERAL", "x"), Advance,
                               Act("make-cs-literal-term")>>
    BY <2>1, <1>2, AbnfItems, Zenon DEF Abnf!prod_106
  <2> QED
    BY <2>2, ExtractActLine, ActFacts
<1>3. CASE tok = "PROSE"
  <2>1. tok # "CI_LITERAL" /\ tok # "CS_LITERAL"
    BY <1>3
  <2>2. Abnf!prod_106(tok) = <<Extract("PROSE", "s"), Advance,
                               Act("make-prose-term")>>
    BY <2>1, <1>3, AbnfItems, Zenon DEF Abnf!prod_106
  <2> QED
    BY <2>2, ExtractActLine, ActFacts
<1>4. CASE tok \notin {"CI_LITERAL", "CS_LITERAL", "PROSE"}
  <2>1. tok # "CI_LITERAL" /\ tok # "CS_LITERAL" /\ tok # "PROSE"
    BY <1>4
  <2>2. Abnf!prod_106(tok) = <<Fail>>
    BY <2>1, AbnfItems, Zenon DEF Abnf!prod_106
  <2> QED
    BY <2>2, FailLine
<1> QED
  BY <1>1, <1>2, <1>3, <1>4

\* prod_term.
LEMMA AbnfTerm == ASSUME NEW tok PROVE Line("abnf", Abnf!prod_term(tok), {}, "t")
<1>1. CASE tok = "IDENT"
  <2>1. /\ tok \notin {"CHAR", "CI_LITERAL", "CS_LITERAL", "PROSE"}
        /\ tok \notin Abnf!Ranges /\ tok \notin Abnf!Strings
    BY <1>1 DEF Abnf!Ranges, Abnf!Strings
  <2>2. Abnf!prod_term(tok) = <<Extract("IDENT", "s"), Advance,
                                Act("make-rule-term")>>
    BY <2>1, <1>1, AbnfItems, Zenon DEF Abnf!prod_term
  <2> QED
    BY <2>2, ExtractActLine, ActFacts
<1>2. CASE tok \in {"CHAR", "CI_LITERAL", "CS_LITERAL", "PROSE"}
  <2>1. tok # "IDENT" /\ tok \notin Abnf!Ranges /\ tok \notin Abnf!Strings
    BY <1>2 DEF Abnf!Ranges, Abnf!Strings
  <2>2. Abnf!prod_term(tok) = <<Call("body", {}, NoLocal),
                                Call("106", {}, "t"), Check>>
    BY <2>1, <1>2, AbnfItems, Zenon DEF Abnf!prod_term, NoLocal
  <2> QED
    BY <2>2, CallCallLine, AbnfCalls
<1>3. CASE tok \in Abnf!Ranges
  <2>1. /\ tok # "IDENT"
        /\ tok \notin {"CHAR", "CI_LITERAL", "CS_LITERAL", "PROSE"}
        /\ tok \notin Abnf!Strings
    BY <1>3 DEF Abnf!Strings, Abnf!Ranges
  <2>2. Abnf!prod_term(tok) = <<Extract(tok, "r"), Advance,
                                Act("make-range-term")>>
    BY <2>1, <1>3, AbnfItems, Zenon DEF Abnf!prod_term
  <2> QED
    BY <2>2, ExtractActLine, ActFacts
<1>4. CASE tok \in Abnf!Strings
  <2>1. /\ tok # "IDENT"
        /\ tok \notin {"CHAR", "CI_LITERAL", "CS_LITERAL", "PROSE"}
        /\ tok \notin Abnf!Ranges
    BY <1>4 DEF Abnf!Ranges, Abnf!Strings
  <2>2. Abnf!prod_term(tok) = <<Extract(tok, "x"), Advance,
                                Act("make-cs-literal-term")>>
    BY <2>1, <1>4, AbnfItems, Zenon DEF Abnf!prod_term
  <2> QED
    BY <2>2, ExtractActLine, ActFacts
<1>5. CASE tok \notin {"IDENT", "CHAR", "CI_LITERAL", "CS_LITERAL", "PROSE"} \union Abnf!Ranges \union Abnf!Strings
  <2>1. /\ tok # "IDENT"
        /\ tok \notin {"CHAR", "CI_LITERAL", "CS_LITERAL", "PROSE"}
        /\ tok \notin Abnf!Ranges /\ tok \notin Abnf!Strings
    BY <1>5 DEF Abnf!Ranges, Abnf!Strings
  <2>2. Abnf!prod_term(tok) = <<Fail>>
    BY <2>1, AbnfItems, Zenon DEF Abnf!prod_term
  <2> QED
    BY <2>2, FailLine
<1> QED
  BY <1>1, <1>2, <1>3, <1>4, <1>5

\* prod_element.
LEMMA AbnfFactorElement == ASSUME NEW tok PROVE Line("abnf", Abnf!prod_factor_C_Celement(tok), {}, "t")
<1>1. CASE tok = "STARTGROUP"
  <2>1. tok \notin Abnf!FirstOfTerm
    BY <1>1 DEF Abnf!FirstOfTerm, Abnf!Strings, Abnf!Ranges
  <2>2. Abnf!prod_factor_C_Celement(tok) = <<Advance,
                                             Call("list-of-alts", {}, "a"),
                                             Expect("ENDGROUP"), Advance,
                                             Act("make-group-term")>>
    BY <2>1, <1>1, AbnfItems, Zenon DEF Abnf!prod_factor_C_Celement
  <2> QED
    BY <2>2, GroupLine, AbnfCalls, ActFacts
<1>2. CASE tok \in Abnf!FirstOfTerm
  <2>1. tok # "STARTGROUP"
    BY <1>2 DEF Abnf!FirstOfTerm, Abnf!Strings, Abnf!Ranges
  <2>2. Abnf!prod_factor_C_Celement(tok) = <<Call("term", {}, "t"), Check>>
    BY <2>1, <1>2, AbnfItems, Zenon DEF Abnf!prod_factor_C_Celement
  <2> QED
    BY <2>2, CallLine, AbnfCalls
<1>3. CASE tok \notin {"STARTGROUP"} \union Abnf!FirstOfTerm
  <2>1. tok # "STARTGROUP" /\ tok \notin Abnf!FirstOfTerm
    BY <1>3 DEF Abnf!FirstOfTerm, Abnf!Strings, Abnf!Ranges
  <2>2. Abnf!prod_factor_C_Celement(tok) = <<Fail>>
    BY <2>1, AbnfItems, Zenon DEF Abnf!prod_factor_C_Celement
  <2> QED
    BY <2>2, FailLine
<1> QED
  BY <1>1, <1>2, <1>3

\* prod_87.
LEMMA Abnf87 == ASSUME NEW tok PROVE Line("abnf", Abnf!prod_87(tok), {}, "max")
<1>1. CASE tok = "COUNT"
  <2>1. Abnf!prod_87(tok) = <<Extract("COUNT", "max"), Advance>>
    BY <1>1, AbnfItems DEF Abnf!prod_87
  <2> QED
    BY <2>1, ExtractLine
<1>2. CASE tok # "COUNT"
  <2>1. Abnf!prod_87(tok) = <<Act("rep-zero-or-more")>>
    BY <1>2, AbnfItems DEF Abnf!prod_87
  <2> QED
    BY <2>1, ActLine, ActFacts
<1> QED
  BY <1>1, <1>2

\* prod_105.
LEMMA Abnf105 == ASSUME NEW tok PROVE Line("abnf", Abnf!prod_105(tok), {"min"}, "t")
<1>1. CASE tok = "REP"
  <2>1. tok \notin Abnf!FirstOfElement
    BY <1>1 DEF Abnf!FirstOfElement, Abnf!FirstOfTerm, Abnf!Strings, Abnf!Ranges
  <2>2. Abnf!prod_105(tok) = <<Advance, Call("87", {}, "max"),
                               Call("element", {}, "t"), Check,
                               Act("set-repeat")>>
    BY <2>1, <1>1, AbnfItems, Zenon DEF Abnf!prod_105
  <2> QED
    BY <2>2, AbnfBetweenLine, AbnfCalls, ActFacts
<1>2. CASE tok \in Abnf!FirstOfElement
  <2>1. tok # "REP"
    BY <1>2 DEF Abnf!FirstOfElement, Abnf!FirstOfTerm, Abnf!Strings, Abnf!Ranges
  <2>2. Abnf!prod_105(tok) = <<Call("element", {}, "t"), Check,
                               Act("set-repeat-exactly")>>
    BY <2>1, <1>2, AbnfItems, Zenon DEF Abnf!prod_105
  <2> QED
    BY <2>2, AbnfExactlyLine, AbnfCalls, ActFacts
<1>3. CASE tok \notin {"REP"} \union Abnf!FirstOfElement
  <2>1. tok # "REP" /\ tok \notin Abnf!FirstOfElement
    BY <1>3 DEF Abnf!FirstOfElement, Abnf!FirstOfTerm, Abnf!Strings, Abnf!Ranges
  <2>2. Abnf!prod_105(tok) = <<Fail>>
    BY <2>1, AbnfItems, Zenon DEF Abnf!prod_105
  <2> QED
    BY <2>2, FailLine
<1> QED
  BY <1>1, <1>2, <1>3

\* prod_factor.
LEMMA AbnfFactor == ASSUME NEW tok PROVE Line("abnf", Abnf!prod_factor(tok), {}, "t")
<1>1. CASE tok = "COUNT"
  <2>1. tok # "STARTOPT" /\ tok \notin Abnf!FirstOfElement /\ tok # "REP"
    BY <1>1 DEF Abnf!FirstOfElement, Abnf!FirstOfTerm, Abnf!Strings, Abnf!Ranges
  <2>2. Abnf!prod_factor(tok) = <<Extract("COUNT", "min"), Advance,
                                  Call("105", {"min"}, "t"), Check>>
    BY <2>1, <1>1, AbnfItems, Zenon DEF Abnf!prod_factor
  <2> QED
    BY <2>2, AbnfCountLine, AbnfCalls
<1>2. CASE tok = "STARTOPT"
  <2>1. tok # "COUNT" /\ tok \notin Abnf!FirstOfElement /\ tok # "REP"
    BY <1>2 DEF Abnf!FirstOfElement, Abnf!FirstOfTerm, Abnf!Strings, Abnf!Ranges
  <2>2. Abnf!prod_factor(tok) = <<Advance, Call("list-of-alts", {}, "a"),
                                  Check, Act("rep-zero-or-one"),
                                  Expect("ENDOPT"), Advance,
                                  Act("make-group-term"), Act("set-repeat")>>
    BY <2>1, <1>2, AbnfItems, Zenon DEF Abnf!prod_factor
  <2> QED
    BY <2>2, AbnfOptionLine, AbnfCalls, ActFacts
<1>3. CASE tok \in Abnf!FirstOfElement
  <2>1. tok # "COUNT" /\ tok # "STARTOPT" /\ tok # "REP"
    BY <1>3 DEF Abnf!FirstOfElement, Abnf!FirstOfTerm, Abnf!Strings, Abnf!Ranges
  <2>2. Abnf!prod_factor(tok) = <<Call("element", {}, "t"), Check>>
    BY <2>1, <1>3, AbnfItems, Zenon DEF Abnf!prod_factor
  <2> QED
    BY <2>2, CallLine, AbnfCalls
<1>4. CASE tok = "REP"
  <2>1. /\ tok # "COUNT" /\ tok # "STARTOPT"
        /\ tok \notin Abnf!FirstOfElement
    BY <1>4 DEF Abnf!FirstOfElement, Abnf!FirstOfTerm, Abnf!Strings, Abnf!Ranges
  <2>2. Abnf!prod_factor(tok) = <<Act("rep-zero-min"), Advance,
                                  Call("87", {}, "max"),
                                  Call("element", {}, "t"), Check,
                                  Act("set-repeat")>>
    BY <2>1, <1>4, AbnfItems, Zenon DEF Abnf!prod_factor
  <2> QED
    BY <2>2, AbnfRepeatLine, AbnfCalls, ActFacts
<1>5. CASE tok \notin {"COUNT", "STARTOPT", "REP"} \union Abnf!FirstOfElement
  <2>1. /\ tok # "COUNT" /\ tok # "STARTOPT"
        /\ tok \notin Abnf!FirstOfElement /\ tok # "REP"
    BY <1>5 DEF Abnf!FirstOfElement, Abnf!FirstOfTerm, Abnf!Strings, Abnf!Ranges
  <2>2. Abnf!prod_factor(tok) = <<Fail>>
    BY <2>1, AbnfItems, Zenon DEF Abnf!prod_factor
  <2> QED
    BY <2>2, FailLine
<1> QED
  BY <1>1, <1>2, <1>3, <1>4, <1>5

\* prod_list-of-terms.
LEMMA AbnfListOfTerms == ASSUME NEW tok PROVE Line("abnf", Abnf!prod_list_Hof_Hterms(tok), {}, "l")
<1>1. Abnf!prod_list_Hof_Hterms(tok) = <<Call("factor", {}, "l"),
                                         Call("103", {"l"}, "l"), Check>>
  BY AbnfItems DEF Abnf!prod_list_Hof_Hterms
<1> QED
  BY <1>1, CallCallLine, AbnfCalls

\* prod_103.
LEMMA Abnf103 == ASSUME NEW tok PROVE Line("abnf", Abnf!prod_103(tok), {"l"}, "l")
<1>1. CASE tok \in Abnf!FirstOfFactor
  <2>1. Abnf!prod_103(tok) = <<Call("list-of-terms", {}, "t"), Check,
                               Act("add-term-to-list")>>
    BY <1>1, AbnfItems DEF Abnf!prod_103
  <2> QED
    BY <2>1, ListLine, AbnfCalls, ActFacts
<1>2. CASE tok \notin Abnf!FirstOfFactor
  <2>1. Abnf!prod_103(tok) = <<>>
    BY <1>2 DEF Abnf!prod_103
  <2> QED
    BY <2>1, NoLine
<1> QED
  BY <1>1, <1>2

\* prod_list-of-alts.
LEMMA AbnfListOfAlts == ASSUME NEW tok PROVE Line("abnf", Abnf!prod_list_Hof_Halts(tok), {}, "l")
<1>1. Abnf!prod_list_Hof_Halts(tok) = <<Call("list-of-terms", {}, "t"),
                                        Call("102", {"t"}, "l"), Check>>
  BY AbnfItems DEF Abnf!prod_list_Hof_Halts
<1> QED
  BY <1>1, CallCallLine, AbnfCalls

\* prod_102.
LEMMA Abnf102 == ASSUME NEW tok PROVE Line("abnf", Abnf!prod_102(tok), {"t"}, "l")
<1>1. CASE tok = "ALT"
  <2>1. Abnf!prod_102(tok) = <<Else({"ALT"}), Call("list-of-alts", {}, "a"),
                               Check, Act("make-alt"),
                               Act("add-alt-to-list")>>
    BY <1>1, AbnfItems DEF Abnf!prod_102
  <2> QED
    BY <2>1, MoreAltsLine, AbnfCalls, ActFacts
<1>2. CASE tok # "ALT"
  <2>1. Abnf!prod_102(tok) = <<Act("make-alt")>>
    BY <1>2, AbnfItems DEF Abnf!prod_102
  <2> QED
    BY <2>1, LastAltLine, ActFacts
<1> QED
  BY <1>1, <1>2

\* prod_rule.
LEMMA AbnfRule == ASSUME NEW tok PROVE Line("abnf", Abnf!prod_rule(tok), {}, "r")
<1>1. Abnf!prod_rule(tok) = <<Expect("IDENT"), Extract("IDENT", "s"),
                              Advance, Inline("95"), Else({"EOF", "SEP"})>>
  BY AbnfItems DEF Abnf!prod_rule
<1> QED
  BY <1>1, AbnfRuleLine DEF Inlined

\* prod_list-of-rules.
LEMMA AbnfListOfRules == ASSUME NEW tok PROVE Line("abnf", Abnf!prod_list_Hof_Hrules(tok), {}, "l")
<1>1. Abnf!prod_list_Hof_Hrules(tok) = <<Call("rule", {}, "l"),
                                         Call("101", {"l"}, "l"), Check>>
  BY AbnfItems DEF Abnf!prod_list_Hof_Hrules
<1> QED
  BY <1>1, CallCallLine, AbnfCalls

\* prod_101.
LEMMA Abnf101 == ASSUME NEW tok PROVE Line("abnf", Abnf!prod_101(tok), {"l"}, "l")
<1>1. CASE tok = "IDENT"
  <2>1. Abnf!prod_101(tok) = <<Call("list-of-rules", {}, "r"), Check,
                               Act("add-rule-to-list")>>
    BY <1>1, AbnfItems DEF Abnf!prod_101
  <2> QED
    BY <2>1, ListLine, AbnfCalls, ActFacts
<1>2. CASE tok # "IDENT"
  <2>1. Abnf!prod_101(tok) = <<>>
    BY <1>2 DEF Abnf!prod_101
  <2> QED
    BY <2>1, NoLine
<1> QED
  BY <1>1, <1>2

\* prod_entry.
LEMMA AbnfAbnf == ASSUME NEW tok PROVE Line("abnf", Abnf!prod_abnf(tok), {}, "l")
<1>1. Abnf!prod_abnf(tok) = <<Call("list-of-rules", {}, "l"), Expect("EOF"),
                              Advance>>
  BY AbnfItems DEF Abnf!prod_abnf
<1> QED
  BY <1>1, EntryLine, AbnfCalls

\* The lines of ABNF.
LEMMA AbnfLines ==
  ASSUME NEW f \in Procs("abnf"), NEW tok
  PROVE  Line("abnf", Abnf!Production(f, tok), Takes("abnf", f), Yields("abnf", f))
<1>1. CASE f = "body"
  BY <1>1, AbnfBody, AbnfSignatures DEF Abnf!Production
<1>2. CASE f = "106"
  BY <1>2, Abnf106, AbnfSignatures DEF Abnf!Production
<1>3. CASE f = "term"
  BY <1>3, AbnfTerm, AbnfSignatures DEF Abnf!Production
<1>4. CASE f = "element"
  BY <1>4, AbnfFactorElement, AbnfSignatures DEF Abnf!Production
<1>5. CASE f = "87"
  BY <1>5, Abnf87, AbnfSignatures DEF Abnf!Production
<1>6. CASE f = "105"
  BY <1>6, Abnf105, AbnfSignatures DEF Abnf!Production
<1>7. CASE f = "factor"
  BY <1>7, AbnfFactor, AbnfSignatures DEF Abnf!Production
<1>8. CASE f = "list-of-terms"
  BY <1>8, AbnfListOfTerms, AbnfSignatures DEF Abnf!Production
<1>9. CASE f = "103"
  BY <1>9, Abnf103, AbnfSignatures DEF Abnf!Production
<1>10. CASE f = "list-of-alts"
  BY <1>10, AbnfListOfAlts, AbnfSignatures DEF Abnf!Production
<1>11. CASE f = "102"
  BY <1>11, Abnf102, AbnfSignatures DEF Abnf!Production
<1>12. CASE f = "rule"
  BY <1>12, AbnfRule, AbnfSignatures DEF Abnf!Production
<1>13. CASE f = "list-of-rules"
  BY <1>13, AbnfListOfRules, AbnfSignatures DEF Abnf!Production
<1>14. CASE f = "101"
  BY <1>14, Abnf101, AbnfSignatures DEF Abnf!Production
<1>15. CASE f = "entry"
  BY <1>15, AbnfAbnf, AbnfSignatures DEF Abnf!Production
<1> QED
  BY <1>1, <1>2, <1>3, <1>4, <1>5, <1>6, <1>7, <1>8, <1>9, <1>10, <1>11,
     <1>12, <1>13, <1>14, <1>15 DEF Procs

(***************************************************************************)
(* What is inlined.                                                        *)
(***************************************************************************)
\* The line t for f reads and writes what Inline(f) does, wherever it stands.
InlineLine(d, t, f) ==
  /\ IsASequence(t)
  /\ \A r : \A k \in DOMAIN t : Allowed(d, t[k], r)
  /\ Spaced(t)
  /\ Fed(t, InlineReads(f))
  /\ \A x \in InlineWrites(f) : Writing(t, x)

\* It looks at the terminal before all else.
LooksFirst(d, t) ==
  /\ IsASequence(t)
  /\ \A r : \A k \in DOMAIN t : Allowed(d, t[k], r)
  /\ t # <<>> /\ Looks(t[1])

\* { (min, max) = <rep-zero-or-one>; || REP; (min, max) = <rep-zero-or-more>; }
LEMMA RbnfInlined ==
  ASSUME NEW tok, tok # "ERROR"
  PROVE  InlineLine("rbnf", Rbnf!Production("77", tok), "77")
<1> DEFINE t == Rbnf!Production("77", tok)
<1>1. InlineReads("77") = {} /\ InlineWrites("77") = {"min", "max"}
  BY DEF InlineReads, InlineWrites
<1>2. t = Rbnf!Inline_77(tok)
  BY DEF Rbnf!Production
<1>3. CASE tok = "REP"
  <2>1. t = <<Advance, Act("rep-zero-or-more")>>
    BY <1>2, <1>3, RbnfItems DEF Rbnf!Inline_77
  <2>2. /\ DOMAIN t = 1..2 /\ IsASequence(t)
        /\ t[1] = Advance
        /\ t[2] = Act("rep-zero-or-more")
    BY <2>1 DEF IsASequence
  <2> HIDE DEF t
  <2>3. \A r : \A k \in DOMAIN t : Allowed("rbnf", t[k], r)
    BY <2>2, AllowedFacts
  <2>4. Spaced(t)
    BY <2>2, ItemFacts, ActFacts DEF Spaced, Looks, Stops
  <2>5. Fed(t, {})
    BY <2>2, ItemFacts, ActFacts DEF Fed, Stops
  <2>6. \A x \in {"min", "max"} : Writing(t, x)
    BY <2>2, ItemFacts, ActFacts DEF Writing, Stops
  <2> QED
    BY <1>1, <2>2, <2>3, <2>4, <2>5, <2>6 DEF InlineLine, t
<1>4. CASE tok # "REP"
  <2>1. t = <<Act("rep-zero-or-one")>>
    BY <1>2, <1>4, RbnfItems DEF Rbnf!Inline_77
  <2>2. /\ DOMAIN t = 1..1 /\ IsASequence(t)
        /\ t[1] = Act("rep-zero-or-one")
    <3>1. /\ DOMAIN <<Act("rep-zero-or-one")>> = 1..1 /\ IsASequence(<<Act("rep-zero-or-one")>>)
          /\ <<Act("rep-zero-or-one")>>[1] = Act("rep-zero-or-one")
      BY DEF IsASequence
    <3> QED
      BY <2>1, <3>1
  <2> HIDE DEF t
  <2>3. \A r : \A k \in DOMAIN t : Allowed("rbnf", t[k], r)
    BY <2>2, AllowedFacts
  <2>4. Spaced(t)
    BY <2>2, ItemFacts, ActFacts DEF Spaced, Looks, Stops
  <2>5. Fed(t, {})
    BY <2>2, ItemFacts, ActFacts DEF Fed, Stops
  <2>6. \A x \in {"min", "max"} : Writing(t, x)
    BY <2>2, ItemFacts, ActFacts DEF Writing, Stops
  <2> QED
    BY <1>1, <2>2, <2>3, <2>4, <2>5, <2>6 DEF InlineLine, t
<1> QED
  BY <1>3, <1>4

LEMMA RbnfInlinedAtError == LooksFirst("rbnf", Rbnf!Production("77", "ERROR"))
<1> DEFINE t == Rbnf!Production("77", "ERROR")
<1>1. t = <<Check>>
  BY RbnfItems DEF Rbnf!Production, Rbnf!Inline_77
<1>2. DOMAIN t = 1..1 /\ IsASequence(t) /\ t # <<>> /\ t[1] = Check
  BY <1>1 DEF IsASequence
<1> HIDE DEF t
<1>3. \A r : \A k \in DOMAIN t : Allowed("rbnf", t[k], r)
  BY <1>2, AllowedFacts
<1> QED
  BY <1>2, <1>3, ItemFacts DEF LooksFirst, Looks, Stops, t

\* What stands after the name of a rule of ABNF.
LEMMA AbnfInlined ==
  ASSUME NEW tok, tok # "ERROR"
  PROVE  InlineLine("abnf", Abnf!Production("95", tok), "95")
<1> DEFINE t == Abnf!Production("95", tok)
<1>1. InlineReads("95") = {"s"} /\ InlineWrites("95") = {"r"}
  BY DEF InlineReads, InlineWrites
<1>2. t = Abnf!Inline_95(tok)
  BY DEF Abnf!Production
<1>3. CASE tok = "EQUALS"
  <2>1. t = <<Else({"EQUALS"}), Call("list-of-alts", {}, "a"), Check, Act("make-rule")>>
    BY <1>2, <1>3, AbnfItems DEF Abnf!Inline_95
  <2>2. /\ DOMAIN t = 1..4 /\ IsASequence(t)
        /\ t[1] = Else({"EQUALS"})
        /\ t[2] = Call("list-of-alts", {}, "a")
        /\ t[3] = Check
        /\ t[4] = Act("make-rule")
    BY <2>1 DEF IsASequence
  <2> HIDE DEF t
  <2>3. \A r : \A k \in DOMAIN t : Allowed("abnf", t[k], r)
    BY <2>2, AllowedFacts, AbnfCalls
  <2>4. Spaced(t)
    BY <2>2, ItemFacts, ActFacts DEF Spaced, Looks, Stops
  <2>5. Fed(t, {"s"})
    BY <2>2, ItemFacts, ActFacts DEF Fed, Stops
  <2>6. \A x \in {"r"} : Writing(t, x)
    BY <2>2, ItemFacts, ActFacts DEF Writing, Stops
  <2> QED
    BY <1>1, <2>2, <2>3, <2>4, <2>5, <2>6 DEF InlineLine, t
<1>4. CASE tok = "ALTINC"
  <2>1. t = <<Else({"ALTINC"}), Act("current-rules")>>
    BY <1>2, <1>4, AbnfItems DEF Abnf!Inline_95
  <2>2. /\ DOMAIN t = 1..2 /\ IsASequence(t)
        /\ t[1] = Else({"ALTINC"})
        /\ t[2] = Act("current-rules")
    BY <2>1 DEF IsASequence
  <2> HIDE DEF t
  <2>3. \A r : \A k \in DOMAIN t : Allowed("abnf", t[k], r)
    BY <2>2, AllowedFacts
  <2>4. Spaced(t)
    BY <2>2, ItemFacts, ActFacts DEF Spaced, Looks, Stops
  <2>5. Fed(t, {"s"})
    BY <2>2, ItemFacts, ActFacts DEF Fed, Stops
  <2>6. \A x \in {"r"} : Writing(t, x)
    BY <2>2, ItemFacts, ActFacts DEF Writing, Stops
  <2> QED
    BY <1>1, <2>2, <2>3, <2>4, <2>5, <2>6 DEF InlineLine, t
<1>5. CASE tok # "EQUALS" /\ tok # "ALTINC"
  <2>1. t = <<Fail>>
    BY <1>2, <1>5, AbnfItems DEF Abnf!Inline_95
  <2>2. /\ DOMAIN t = 1..1 /\ IsASequence(t)
        /\ t[1] = Fail
    <3>1. /\ DOMAIN <<Fail>> = 1..1 /\ IsASequence(<<Fail>>)
          /\ <<Fail>>[1] = Fail
      BY DEF IsASequence
    <3> QED
      BY <2>1, <3>1
  <2> HIDE DEF t
  <2>3. \A r : \A k \in DOMAIN t : Allowed("abnf", t[k], r)
    BY <2>2, AllowedFacts
  <2>4. Spaced(t)
    BY <2>2, ItemFacts, ActFacts DEF Spaced, Looks, Stops
  <2>5. Fed(t, {"s"})
    BY <2>2, ItemFacts, ActFacts DEF Fed, Stops
  <2>6. \A x \in {"r"} : Writing(t, x)
    BY <2>2, ItemFacts, ActFacts DEF Writing, Stops
  <2> QED
    BY <1>1, <2>2, <2>3, <2>4, <2>5, <2>6 DEF InlineLine, t
<1> QED
  BY <1>3, <1>4, <1>5

LEMMA AbnfInlinedAtError == LooksFirst("abnf", Abnf!Production("95", "ERROR"))
<1> DEFINE t == Abnf!Production("95", "ERROR")
<1>1. t = <<Fail>>
  BY AbnfItems DEF Abnf!Production, Abnf!Inline_95
<1>2. DOMAIN t = 1..1 /\ IsASequence(t) /\ t # <<>> /\ t[1] = Fail
  BY <1>1 DEF IsASequence
<1> HIDE DEF t
<1>3. \A r : \A k \in DOMAIN t : Allowed("abnf", t[k], r)
  BY <1>2, AllowedFacts
<1> QED
  BY <1>2, <1>3, ItemFacts DEF LooksFirst, Looks, Stops, t

=============================================================================
