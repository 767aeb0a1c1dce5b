-------------------------- MODULE SidParserProofs ---------------------------
(***************************************************************************)
(* What is proved of SidParser, for every text, buffer and width: once the *)
(* terminal is ERROR the calls of the productions only return, no action   *)
(* uses a local variable that has not been written, and the kinds of the   *)
(* variables.                                                              *)
(*                                                                         *)
(* Both of the former rest on an invariant of the stack, StackRight.  What *)
(* the innermost call has still to do is a line of SidLinesProofs, or,     *)
(* when the terminal is ERROR, one that looks at the terminal before it    *)
(* reads more and before it needs what it has not got.  Every other call   *)
(* waits in such a place already, for the one it has called may come back  *)
(* without its result and with ERROR.                                      *)
(***************************************************************************)
EXTENDS SidLinesProofs

(***************************************************************************)
(* The rest of a line.                                                     *)
(***************************************************************************)
\* Before it reads more, the terminal is looked at; before an action reads a
\* local that is not in in, the terminal is looked at or the local is written.
Unwinding(d, t, in, r) ==
  /\ IsASequence(t)
  /\ \A k \in DOMAIN t : Allowed(d, t[k], r)
  /\ \A k \in DOMAIN t : t[k].op = "advance" => \E j \in 1..k - 1 : Looks(t[j])
  /\ \A k \in DOMAIN t : t[k].op = "act" => \A x \in Reads(t[k].arg) :
       x \in in \/ \E j \in 1..k - 1 :
                     Looks(t[j]) \/ (t[j].op # "call" /\ x \in WritesOf(t[j]))

\* What the innermost call has to do while the terminal is tok.
Ready(d, t, in, r, tok) == IF tok = "ERROR" THEN Unwinding(d, t, in, r) ELSE Line(d, t, in, r)

\* What a call has to do that waits for the local out from one it has called.
Waiting(d, t, in, out, r, tok) ==
  /\ Unwinding(d, t, in, r)
  /\ tok # "ERROR" => Line(d, t, in \union {out}, r)

(***************************************************************************)
(* The stack.                                                              *)
(***************************************************************************)
\* f is a call of a function of dialect d.
IsACall(d, f) ==
  /\ f = [prod |-> f.prod, todo |-> f.todo, loc |-> f.loc, out |-> f.out]
  /\ f.prod \in Procs(d)
  /\ f.out # NoLocal => Yields(d, f.prod) # NoLocal

Gives(d, f) == Yields(d, f.prod)

Innermost(d, f, tok) == IsACall(d, f) /\ Ready(d, f.todo, DOMAIN f.loc, Gives(d, f), tok)

Beneath(d, f, out, tok) == IsACall(d, f) /\ Waiting(d, f.todo, DOMAIN f.loc, out, Gives(d, f), tok)

StackOf(d, s, tok) ==
  /\ IsASequence(s)
  /\ s # <<>> => Innermost(d, s[1], tok)
  /\ \A i \in 2..Len(s) : Beneath(d, s[i], s[i - 1].out, tok)

StackRight == dialect \in Dialects /\ StackOf(dialect, stack, lex_tok)
-----------------------------------------------------------------------------
(***************************************************************************)
(* Sequences.                                                              *)
(***************************************************************************)
LEMMA OfASequence ==
  ASSUME NEW s, IsASequence(s)
  PROVE  Len(s) \in Nat /\ DOMAIN s = 1..Len(s) /\ (s # <<>> <=> Len(s) >= 1)
<1> DEFINE S == {s[i] : i \in DOMAIN s}
<1>1. s \in Seq(S)
  BY DEF IsASequence
<1> HIDE DEF S
<1> QED
  BY <1>1, LenProperties, EmptySeq

LEMMA InSeqIsASequence ==
  ASSUME NEW S, NEW s \in Seq(S)
  PROVE  IsASequence(s)
<1> DEFINE T == {s[i] : i \in DOMAIN s}
<1>1. Len(s) \in Nat /\ s \in [1..Len(s) -> S] /\ DOMAIN s = 1..Len(s)
  BY LenProperties
<1>2. s \in [1..Len(s) -> T]
  BY <1>1
<1>3. s \in Seq(T)
  BY <1>1, <1>2, SeqDef
<1> QED
  BY <1>3 DEF IsASequence

\* Without its first element.
LEMMA TailOf ==
  ASSUME NEW s, IsASequence(s), s # <<>>
  PROVE  /\ IsASequence(Tail(s)) /\ Len(Tail(s)) = Len(s) - 1
         /\ DOMAIN Tail(s) = 1..Len(s) - 1
         /\ \A i \in 1..Len(s) - 1 : Tail(s)[i] = s[i + 1]
<1> DEFINE S == {s[i] : i \in DOMAIN s}
<1>1. s \in Seq(S)
  BY DEF IsASequence
<1> HIDE DEF S
<1>2. Tail(s) \in Seq(S) /\ Len(Tail(s)) = Len(s) - 1
      /\ \A i \in 1 .. Len(Tail(s)) : Tail(s)[i] = s[i + 1]
  BY <1>1, HeadTailProperties
<1> QED
  BY <1>2, InSeqIsASequence, OfASequence

\* One after the other.
LEMMA Joined ==
  ASSUME NEW s, NEW t, IsASequence(s), IsASequence(t)
  PROVE  /\ IsASequence(s \o t) /\ Len(s \o t) = Len(s) + Len(t)
         /\ \A i \in 1..Len(s) : (s \o t)[i] = s[i]
         /\ \A i \in 1..Len(t) : (s \o t)[Len(s) + i] = t[i]
<1> DEFINE S == {s[i] : i \in DOMAIN s}
           T == {t[i] : i \in DOMAIN t}
<1>1. s \in Seq(S) /\ t \in Seq(T)
  BY DEF IsASequence
<1> HIDE DEF S, T
<1>2. s \in Seq(S \union T) /\ t \in Seq(S \union T)
  BY <1>1, SeqMonotonic
<1>3. /\ s \o t \in Seq(S \union T) /\ Len(s \o t) = Len(s) + Len(t)
      /\ \A i \in 1 .. Len(s) + Len(t) : (s \o t)[i] = IF i <= Len(s) THEN s[i] ELSE t[i - Len(s)]
  BY <1>2, ConcatProperties
<1>4. IsASequence(s \o t) /\ Len(s) \in Nat /\ Len(t) \in Nat
  BY <1>3, InSeqIsASequence, OfASequence
<1>5. \A i \in 1..Len(s) : (s \o t)[i] = s[i]
  BY <1>3, <1>4
<1>6. ASSUME NEW i \in 1..Len(t) PROVE (s \o t)[Len(s) + i] = t[i]
  <2>1. Len(s) + i \in 1 .. Len(s) + Len(t) /\ ~(Len(s) + i <= Len(s)) /\ Len(s) + i - Len(s) = i
    BY <1>4
  <2> QED
    BY <2>1, <1>3
<1> QED
  BY <1>3, <1>4, <1>5, <1>6

\* With the first elements f, and f and h, in the place of its own.
LEMMA Short ==
  ASSUME NEW f, NEW h
  PROVE  /\ IsASequence(<<f>>) /\ Len(<<f>>) = 1 /\ <<f>>[1] = f
         /\ IsASequence(<<f, h>>) /\ Len(<<f, h>>) = 2 /\ <<f, h>>[1] = f /\ <<f, h>>[2] = h
<1>1. <<f>> \in Seq({f}) /\ <<f, h>> \in Seq({f, h})
  OBVIOUS
<1> QED
  BY <1>1, InSeqIsASequence

LEMMA PutFirst ==
  ASSUME NEW s, IsASequence(s), s # <<>>, NEW f
  PROVE  /\ IsASequence(<<f>> \o Tail(s)) /\ Len(<<f>> \o Tail(s)) = Len(s)
         /\ (<<f>> \o Tail(s))[1] = f
         /\ \A i \in 2..Len(s) : (<<f>> \o Tail(s))[i] = s[i]
<1>1. /\ IsASequence(Tail(s)) /\ Len(Tail(s)) = Len(s) - 1 /\ Len(s) \in Nat /\ Len(s) >= 1
      /\ \A i \in 1..Len(s) - 1 : Tail(s)[i] = s[i + 1]
  BY TailOf, OfASequence
<1>2. IsASequence(<<f>>) /\ Len(<<f>>) = 1 /\ <<f>>[1] = f
  BY Short
<1> DEFINE u == <<f>>
           v == Tail(s)
<1> HIDE DEF u, v
<1>3. /\ IsASequence(u \o v) /\ Len(u \o v) = Len(s)
      /\ (u \o v)[1] = f
      /\ \A i \in 1..Len(s) - 1 : (u \o v)[1 + i] = s[i + 1]
  BY <1>1, <1>2, Joined DEF u, v
<1>4. ASSUME NEW i \in 2..Len(s) PROVE (u \o v)[i] = s[i]
  <2>1. i - 1 \in 1..Len(s) - 1 /\ 1 + (i - 1) = i /\ (i - 1) + 1 = i
    BY <1>1
  <2> QED
    BY <2>1, <1>3
<1> QED
  BY <1>3, <1>4 DEF u, v

LEMMA PutTwoFirst ==
  ASSUME NEW s, IsASequence(s), s # <<>>, NEW f, NEW h
  PROVE  /\ IsASequence(<<f, h>> \o Tail(s)) /\ Len(<<f, h>> \o Tail(s)) = Len(s) + 1
         /\ (<<f, h>> \o Tail(s))[1] = f /\ (<<f, h>> \o Tail(s))[2] = h
         /\ \A i \in 3..Len(s) + 1 : (<<f, h>> \o Tail(s))[i] = s[i - 1]
<1>1. /\ IsASequence(Tail(s)) /\ Len(Tail(s)) = Len(s) - 1 /\ Len(s) \in Nat /\ Len(s) >= 1
      /\ \A i \in 1..Len(s) - 1 : Tail(s)[i] = s[i + 1]
  BY TailOf, OfASequence
<1>2. IsASequence(<<f, h>>) /\ Len(<<f, h>>) = 2 /\ <<f, h>>[1] = f /\ <<f, h>>[2] = h
  BY Short
<1> DEFINE u == <<f, h>>
           v == Tail(s)
<1> HIDE DEF u, v
<1>3. /\ IsASequence(u \o v) /\ Len(u \o v) = Len(s) + 1
      /\ (u \o v)[1] = f /\ (u \o v)[2] = h
      /\ \A i \in 1..Len(s) - 1 : (u \o v)[2 + i] = s[i + 1]
  BY <1>1, <1>2, Joined DEF u, v
<1>4. ASSUME NEW i \in 3..Len(s) + 1 PROVE (u \o v)[i] = s[i - 1]
  <2>1. i - 2 \in 1..Len(s) - 1 /\ 2 + (i - 2) = i /\ (i - 2) + 1 = i - 1
    BY <1>1
  <2> QED
    BY <2>1, <1>3
<1> QED
  BY <1>3, <1>4 DEF u, v

\* With f in the place of its first two.
LEMMA PutForTwo ==
  ASSUME NEW s, IsASequence(s), Len(s) >= 2, NEW f
  PROVE  /\ IsASequence(<<f>> \o SubSeq(s, 3, Len(s)))
         /\ Len(<<f>> \o SubSeq(s, 3, Len(s))) = Len(s) - 1
         /\ (<<f>> \o SubSeq(s, 3, Len(s)))[1] = f
         /\ \A i \in 2..Len(s) - 1 : (<<f>> \o SubSeq(s, 3, Len(s)))[i] = s[i + 1]
<1> DEFINE S == {s[i] : i \in DOMAIN s}
           u == <<f>>
           v == SubSeq(s, 3, Len(s))
<1>1. Len(s) \in Nat /\ DOMAIN s = 1..Len(s)
  BY OfASequence
<1>2. \A i \in 3..Len(s) : s[i] \in S
  BY <1>1
<1> HIDE DEF S
<1>3. /\ SubSeq(s, 3, Len(s)) \in Seq(S)
      /\ Len(SubSeq(s, 3, Len(s))) = IF 3 <= Len(s) THEN Len(s) - 3 + 1 ELSE 0
      /\ \A i \in 1..Len(s) - 3 + 1 : SubSeq(s, 3, Len(s))[i] = s[3 + i - 1]
  BY <1>1, <1>2, SubSeqProperties
<1>4. IsASequence(u) /\ Len(u) = 1 /\ u[1] = f
  BY Short
<1> HIDE DEF u, v
<1>5. IsASequence(v) /\ Len(v) = Len(s) - 2 /\ \A i \in 1..Len(s) - 2 : v[i] = s[i + 2]
  <2>1. IsASequence(v)
    BY <1>3, InSeqIsASequence DEF v
  <2>2. Len(v) = Len(s) - 2
    BY <1>1, <1>3 DEF v
  <2>3. ASSUME NEW i \in 1..Len(s) - 2 PROVE v[i] = s[i + 2]
    <3>1. i \in 1..Len(s) - 3 + 1 /\ 3 + i - 1 = i + 2
      BY <1>1
    <3> QED
      BY <3>1, <1>3 DEF v
  <2> QED
    BY <2>1, <2>2, <2>3
<1>6. /\ IsASequence(u \o v) /\ Len(u \o v) = Len(s) - 1
      /\ (u \o v)[1] = f
      /\ \A i \in 1..Len(s) - 2 : (u \o v)[1 + i] = s[i + 2]
  <2>1. /\ IsASequence(u \o v) /\ Len(u \o v) = Len(u) + Len(v)
        /\ \A i \in 1..Len(u) : (u \o v)[i] = u[i]
        /\ \A i \in 1..Len(v) : (u \o v)[Len(u) + i] = v[i]
    <3>1. IsASequence(u) /\ IsASequence(v)
      BY <1>4, <1>5
    <3> QED
      BY <3>1, Joined
  <2> QED
    BY <1>1, <1>4, <1>5, <2>1
<1>7. ASSUME NEW i \in 2..Len(s) - 1 PROVE (u \o v)[i] = s[i + 1]
  <2>1. i - 1 \in 1..Len(s) - 2 /\ 1 + (i - 1) = i /\ (i - 1) + 2 = i + 1
    BY <1>1
  <2> QED
    BY <2>1, <1>6
<1> QED
  BY <1>6, <1>7 DEF u, v

(***************************************************************************)
(* The lines of every dialect.                                             *)
(***************************************************************************)
LEMMA Lines ==
  ASSUME dialect \in Dialects, NEW f \in Procs(dialect), NEW tok
  PROVE  Line(dialect, Production(f, tok), Takes(dialect, f), Yields(dialect, f))
<1>1. CASE dialect = "wsn"
  <2>1. Production(f, tok) = Wsn!Production(f, tok)
    BY <1>1 DEF Production
  <2> QED
    BY <1>1, <2>1, WsnLines
<1>2. CASE dialect = "bnf"
  <2>1. Production(f, tok) = Bnf!Production(f, tok)
    BY <1>2 DEF Production
  <2> QED
    BY <1>2, <2>1, BnfLines
<1>3. CASE dialect = "rbnf"
  <2>1. Production(f, tok) = Rbnf!Production(f, tok)
    BY <1>3 DEF Production
  <2> QED
    BY <1>3, <2>1, RbnfLines
<1>4. CASE dialect = "iso-ebnf"
  <2>1. Production(f, tok) = Iso!Production(f, tok)
    BY <1>4 DEF Production
  <2> QED
    BY <1>4, <2>1, IsoLines
<1>5. CASE dialect = "abnf"
  <2>1. Production(f, tok) = Abnf!Production(f, tok)
    BY <1>5 DEF Production
  <2> QED
    BY <1>5, <2>1, AbnfLines
<1> QED
  BY <1>1, <1>2, <1>3, <1>4, <1>5 DEF Dialects

\* What is inlined, and what is where the terminal is ERROR.
LEMMA Inlines ==
  ASSUME dialect \in Dialects, NEW f \in Inlined(dialect), NEW tok
  PROVE  /\ tok # "ERROR" => InlineLine(dialect, Production(f, tok), f)
         /\ LooksFirst(dialect, Production(f, "ERROR"))
<1>1. CASE dialect = "rbnf"
  <2>1. f = "77" /\ Production(f, tok) = Rbnf!Production(f, tok)
        /\ Production(f, "ERROR") = Rbnf!Production(f, "ERROR")
    BY <1>1 DEF Production, Inlined
  <2> QED
    BY <1>1, <2>1, RbnfInlined, RbnfInlinedAtError
<1>2. CASE dialect = "abnf"
  <2>1. f = "95" /\ Production(f, tok) = Abnf!Production(f, tok)
        /\ Production(f, "ERROR") = Abnf!Production(f, "ERROR")
    BY <1>2 DEF Production, Inlined
  <2> QED
    BY <1>2, <2>1, AbnfInlined, AbnfInlinedAtError
<1>3. CASE dialect \notin {"rbnf", "abnf"}
  <2>1. Inlined(dialect) = {}
    BY <1>3, Zenon DEF Inlined
  <2> QED
    BY <2>1
<1> QED
  BY <1>1, <1>2, <1>3

LEMMA Results ==
  ASSUME dialect \in Dialects, NEW f
  PROVE  Result(f) = Yields(dialect, f)
<1>1. CASE dialect = "wsn"
  BY <1>1 DEF Result, Yields
<1>2. CASE dialect = "bnf"
  BY <1>2 DEF Result, Yields
<1>3. CASE dialect = "rbnf"
  BY <1>3 DEF Result, Yields
<1>4. CASE dialect = "iso-ebnf"
  BY <1>4 DEF Result, Yields
<1>5. CASE dialect = "abnf"
  BY <1>5 DEF Result, Yields
<1> QED
  BY <1>1, <1>2, <1>3, <1>4, <1>5 DEF Dialects

\* No local has the name of none.
LEMMA NoLocalIsNone == NoLocal \notin {"c", "s", "x", "r", "a", "t", "l", "min", "max", "n"}
BY Zenon DEF NoLocal

\* No action reads what is no local.
LEMMA NoLocalIsRead == \A a : NoLocal \notin Reads(a)
<1> SUFFICES ASSUME NEW a PROVE NoLocal \notin Reads(a)
  OBVIOUS
<1>1. CASE a \in {"pattern-char", "make-rule-term", "make-prose-term", "make-ci-literal-term",
                  "make-cs-literal-term", "make-range-term", "make-group-term", "make-alt",
                  "make-rule", "add-term-to-list", "add-alt-to-list", "add-rule-to-list",
                  "set-repeat", "set-repeat-exactly", "mul-repeat"}
  BY <1>1, ActFacts, NoLocalIsNone
<1>2. CASE a \notin {"pattern-char", "make-rule-term", "make-prose-term", "make-ci-literal-term",
                     "make-cs-literal-term", "make-range-term", "make-group-term", "make-alt",
                     "make-rule", "add-term-to-list", "add-alt-to-list", "add-rule-to-list",
                     "set-repeat", "set-repeat-exactly", "mul-repeat"}
  <2>1. /\ a # "pattern-char" /\ a # "make-range-term" /\ a # "make-group-term"
        /\ a # "make-alt" /\ a # "make-rule" /\ a # "add-term-to-list"
        /\ a # "add-alt-to-list" /\ a # "add-rule-to-list" /\ a # "set-repeat"
        /\ a # "set-repeat-exactly" /\ a # "mul-repeat"
        /\ a \notin {"make-rule-term", "make-prose-term"}
        /\ a \notin {"make-ci-literal-term", "make-cs-literal-term"}
    BY <1>2
  <2>2. Reads(a) = {}
    BY <2>1, Zenon DEF Reads
  <2> QED
    BY <2>2
<1> QED
  BY <1>1, <1>2

LEMMA NoLocalIsUsed ==
  ASSUME NEW d, NEW x, NEW r, Allowed(d, x, r)
  PROVE  NoLocal \notin ReadsOf(x)
<1>1. CASE x.op = "act"
  <2>1. ReadsOf(x) = Reads(x.arg)
    BY <1>1 DEF ReadsOf
  <2> QED
    BY <2>1, NoLocalIsRead
<1>2. CASE x.op = "call"
  <2>1. ReadsOf(x) = x.arg[2]
    BY <1>2 DEF ReadsOf
  <2> QED
    BY <1>2, <2>1 DEF Allowed, CallAllowed
<1>3. CASE x.op = "inline"
  <2>1. ReadsOf(x) = InlineReads(x.arg)
    BY <1>3 DEF ReadsOf
  <2>2. ReadsOf(x) = {} \/ ReadsOf(x) = {"s"}
    BY <2>1 DEF InlineReads
  <2> QED
    BY <2>2, NoLocalIsNone
<1>4. CASE x.op # "act" /\ x.op # "call" /\ x.op # "inline"
  <2>1. ReadsOf(x) = {}
    BY <1>4, Zenon DEF ReadsOf
  <2> QED
    BY <2>1
<1> QED
  BY <1>1, <1>2, <1>3, <1>4

(***************************************************************************)
(* What is left of a line.                                                 *)
(***************************************************************************)
\* The first item of a line reads only what there is.
LEMMA FirstOfLine ==
  ASSUME NEW d, NEW t, NEW in, NEW r, Line(d, t, in, r), t # <<>>
  PROVE  ReadsOf(t[1]) \subseteq in /\ Allowed(d, t[1], r)
<1>1. 1 \in DOMAIN t /\ ~\E j \in 1..1 - 1 : TRUE
  BY OfASequence DEF Line
<1> QED
  BY <1>1 DEF Line, Fed

LEMMA EndOfLine ==
  ASSUME NEW d, NEW in, NEW r, Line(d, <<>>, in, r)
  PROVE  r = NoLocal \/ r \in in
BY DEF Line, Writing

\* The same with more locals.
LEMMA WiderLine ==
  ASSUME NEW d, NEW t, NEW in, NEW r, Line(d, t, in, r), NEW in2, in \subseteq in2
  PROVE  Line(d, t, in2, r)
<1>1. Fed(t, in2)
  BY DEF Line, Fed
<1>2. r = NoLocal \/ r \in in2 \/ Writing(t, r)
  BY DEF Line
<1> QED
  BY <1>1, <1>2 DEF Line

LEMMA WithoutNoLocal ==
  ASSUME NEW d, NEW t, NEW in, NEW r, Line(d, t, in \union {NoLocal}, r)
  PROVE  Line(d, t, in, r)
<1>1. Fed(t, in)
  <2> SUFFICES ASSUME NEW k \in DOMAIN t, NEW x \in ReadsOf(t[k])
               PROVE  x \in in \/ \E j \in 1..k - 1 : x \in WritesOf(t[j]) \/ Stops(t[j])
    BY DEF Fed
  <2>1. x # NoLocal
    BY NoLocalIsUsed DEF Line
  <2>2. x \in in \union {NoLocal} \/ \E j \in 1..k - 1 : x \in WritesOf(t[j]) \/ Stops(t[j])
    BY DEF Line, Fed
  <2> QED
    BY <2>1, <2>2
<1>2. r = NoLocal \/ r \in in \/ Writing(t, r)
  BY DEF Line
<1> QED
  BY <1>1, <1>2 DEF Line

\* After an item that does not leave, with what it writes.
LEMMA RestOfLine ==
  ASSUME NEW d, NEW t, NEW in, NEW r, Line(d, t, in, r), t # <<>>, ~Stops(t[1]),
         NEW in2, in \union WritesOf(t[1]) \subseteq in2
  PROVE  Line(d, Tail(t), in2, r)
<1> DEFINE u == Tail(t)
           n == Len(t)
<1>1. /\ IsASequence(t) /\ IsASequence(u) /\ n \in Nat /\ n >= 1
      /\ DOMAIN t = 1..n /\ DOMAIN u = 1..n - 1
      /\ \A i \in 1..n - 1 : u[i] = t[i + 1]
  BY OfASequence, TailOf DEF Line
<1> HIDE DEF u, n
<1>2. \A k \in DOMAIN u : Allowed(d, u[k], r)
  <2> SUFFICES ASSUME NEW k \in DOMAIN u PROVE Allowed(d, u[k], r)
    OBVIOUS
  <2>1. k + 1 \in DOMAIN t /\ u[k] = t[k + 1]
    BY <1>1
  <2> QED
    BY <2>1 DEF Line
<1>3. Spaced(u)
  <2> SUFFICES ASSUME NEW i \in DOMAIN u, NEW k \in DOMAIN u, i < k,
                      \/ u[i].op \in {"advance", "else", "call", "inline"} /\ u[k].op = "advance"
                      \/ u[i].op \in {"call", "inline"} /\ u[k].op = "act"
               PROVE  \E j \in i + 1..k - 1 : Looks(u[j])
    BY DEF Spaced
  <2>1. /\ i + 1 \in DOMAIN t /\ k + 1 \in DOMAIN t /\ i + 1 < k + 1
        /\ u[i] = t[i + 1] /\ u[k] = t[k + 1]
    BY <1>1
  <2>2. PICK j \in (i + 1) + 1..(k + 1) - 1 : Looks(t[j])
    BY <2>1 DEF Line, Spaced
  <2>3. j - 1 \in i + 1..k - 1 /\ j - 1 \in 1..n - 1 /\ (j - 1) + 1 = j
    BY <1>1, <2>2
  <2>4. u[j - 1] = t[j]
    BY <1>1, <2>3
  <2> QED
    BY <2>2, <2>3, <2>4
<1>4. Fed(u, in2)
  <2> SUFFICES ASSUME NEW k \in DOMAIN u, NEW x \in ReadsOf(u[k])
               PROVE  x \in in2 \/ \E j \in 1..k - 1 : x \in WritesOf(u[j]) \/ Stops(u[j])
    BY DEF Fed
  <2>1. k + 1 \in DOMAIN t /\ u[k] = t[k + 1]
    BY <1>1
  <2>2. x \in in \/ \E j \in 1..(k + 1) - 1 : x \in WritesOf(t[j]) \/ Stops(t[j])
    BY <2>1 DEF Line, Fed
  <2>3. CASE x \in in
    BY <2>3
  <2>4. ASSUME NEW j \in 1..(k + 1) - 1, x \in WritesOf(t[j]) \/ Stops(t[j])
        PROVE  x \in in2 \/ \E i \in 1..k - 1 : x \in WritesOf(u[i]) \/ Stops(u[i])
    <3>1. CASE j = 1
      BY <2>4, <3>1
    <3>2. CASE j # 1
      <4>1. j - 1 \in 1..k - 1 /\ j - 1 \in 1..n - 1 /\ (j - 1) + 1 = j
        BY <1>1, <2>1, <3>2
      <4>2. u[j - 1] = t[j]
        BY <1>1, <4>1
      <4> QED
        BY <2>4, <4>1, <4>2
    <3> QED
      BY <3>1, <3>2
  <2> QED
    BY <2>2, <2>3, <2>4
<1>5. r = NoLocal \/ r \in in2 \/ Writing(u, r)
  <2>1. r = NoLocal \/ r \in in \/ Writing(t, r)
    BY DEF Line
  <2>2. ASSUME NEW j \in DOMAIN t, r \in WritesOf(t[j]) \/ Stops(t[j])
        PROVE  r \in in2 \/ Writing(u, r)
    <3>1. CASE j = 1
      BY <2>2, <3>1
    <3>2. CASE j # 1
      <4>1. j - 1 \in DOMAIN u /\ j - 1 \in 1..n - 1 /\ (j - 1) + 1 = j
        BY <1>1, <3>2
      <4>2. u[j - 1] = t[j]
        BY <1>1, <4>1
      <4> QED
        BY <2>2, <4>1, <4>2 DEF Writing
    <3> QED
      BY <3>1, <3>2
  <2> QED
    BY <2>1, <2>2 DEF Writing
<1> QED
  BY <1>1, <1>2, <1>3, <1>4, <1>5 DEF Line, u

\* After something is read, or while something is called.
LEMMA RestUnwinds ==
  ASSUME NEW d, NEW t, NEW in, NEW r, Line(d, t, in, r), t # <<>>,
         t[1].op \in {"advance", "else", "call"}
  PROVE  Unwinding(d, Tail(t), in, r)
<1> DEFINE u == Tail(t)
           n == Len(t)
<1>1. /\ IsASequence(t) /\ IsASequence(u) /\ n \in Nat /\ n >= 1
      /\ DOMAIN t = 1..n /\ DOMAIN u = 1..n - 1
      /\ \A i \in 1..n - 1 : u[i] = t[i + 1]
  BY OfASequence, TailOf DEF Line
<1> HIDE DEF u, n
<1>2. ASSUME NEW k \in DOMAIN u
      PROVE  k + 1 \in DOMAIN t /\ u[k] = t[k + 1] /\ 1 \in DOMAIN t /\ 1 < k + 1
  BY <1>1
<1>3. \A k \in DOMAIN u : Allowed(d, u[k], r)
  BY <1>2 DEF Line
<1>4. ASSUME NEW i \in DOMAIN t, NEW k \in DOMAIN u, i < k + 1,
             \E j \in i + 1..(k + 1) - 1 : Looks(t[j])
      PROVE  \E j \in 1..k - 1 : Looks(u[j])
  <2>1. PICK j \in i + 1..(k + 1) - 1 : Looks(t[j])
    BY <1>4
  <2>2. j - 1 \in 1..k - 1 /\ j - 1 \in 1..n - 1 /\ (j - 1) + 1 = j
    BY <1>1, <2>1
  <2>3. u[j - 1] = t[j]
    BY <1>1, <2>2
  <2> QED
    BY <2>1, <2>2, <2>3
<1>5. ASSUME NEW k \in DOMAIN u, u[k].op = "advance"
      PROVE  \E j \in 1..k - 1 : Looks(u[j])
  <2>1. \E j \in 1 + 1..(k + 1) - 1 : Looks(t[j])
    BY <1>2, <1>5 DEF Line, Spaced
  <2> QED
    BY <1>2, <1>4, <2>1
<1>6. ASSUME NEW k \in DOMAIN u, u[k].op = "act", NEW x \in Reads(u[k].arg)
      PROVE  x \in in \/ \E j \in 1..k - 1 :
                           Looks(u[j]) \/ (u[j].op # "call" /\ x \in WritesOf(u[j]))
  <2>1. x \in ReadsOf(t[k + 1]) /\ t[k + 1].op = "act"
    BY <1>2, <1>6 DEF ReadsOf
  <2>2. x \in in \/ \E j \in 1..(k + 1) - 1 : x \in WritesOf(t[j]) \/ Stops(t[j])
    BY <1>2, <2>1 DEF Line, Fed
  <2>3. ASSUME NEW j \in 1..(k + 1) - 1, x \in WritesOf(t[j]) \/ Stops(t[j])
        PROVE  \E i \in 1..k - 1 : Looks(u[i]) \/ (u[i].op # "call" /\ x \in WritesOf(u[i]))
    <3>1. j \in DOMAIN t /\ j < k + 1
      BY <1>1, <1>2
    <3>2. CASE t[j].op = "call"
      <4>1. \E i \in j + 1..(k + 1) - 1 : Looks(t[i])
        BY <1>2, <2>1, <3>1, <3>2 DEF Line, Spaced
      <4> QED
        BY <1>4, <3>1, <4>1
    <3>3. CASE t[j].op # "call" /\ j = 1
      <4>1. t[1].op = "advance" \/ t[1].op = "else"
        BY <3>3
      <4>2. WritesOf(t[1]) = {}
        BY <4>1, Zenon DEF WritesOf
      <4>3. ~Stops(t[1])
        BY <4>1 DEF Stops
      <4> QED
        BY <2>3, <3>3, <4>2, <4>3
    <3>4. CASE t[j].op # "call" /\ j # 1
      <4>1. j - 1 \in 1..k - 1 /\ j - 1 \in 1..n - 1 /\ (j - 1) + 1 = j
        BY <1>1, <1>2, <3>4
      <4>2. u[j - 1] = t[j]
        BY <1>1, <4>1
      <4>3. Looks(t[j]) \/ x \in WritesOf(t[j])
        BY <2>3 DEF Looks
      <4> QED
        BY <3>4, <4>1, <4>2, <4>3
    <3> QED
      BY <3>2, <3>3, <3>4
  <2> QED
    BY <2>2, <2>3
<1> QED
  BY <1>1, <1>3, <1>5, <1>6 DEF Unwinding, u

\* At the first item of what unwinds nothing is read, and there is what an
\* action needs.
LEMMA FirstUnwinding ==
  ASSUME NEW d, NEW t, NEW in, NEW r, Unwinding(d, t, in, r), t # <<>>
  PROVE  /\ t[1].op # "advance"
         /\ t[1].op = "act" => Reads(t[1].arg) \subseteq in
         /\ Allowed(d, t[1], r)
<1>1. 1 \in DOMAIN t /\ ~\E j \in 1..1 - 1 : TRUE
  BY OfASequence DEF Unwinding
<1> QED
  BY <1>1 DEF Unwinding

LEMMA NothingUnwinds ==
  ASSUME NEW d, NEW in, NEW r
  PROVE  Unwinding(d, <<>>, in, r)
BY DEF Unwinding, IsASequence

LEMMA WiderUnwinding ==
  ASSUME NEW d, NEW t, NEW in, NEW r, Unwinding(d, t, in, r), NEW in2, in \subseteq in2
  PROVE  Unwinding(d, t, in2, r)
<1>1. \A k \in DOMAIN t : t[k].op = "act" => \A x \in Reads(t[k].arg) :
        x \in in2 \/ \E j \in 1..k - 1 :
                       Looks(t[j]) \/ (t[j].op # "call" /\ x \in WritesOf(t[j]))
  BY DEF Unwinding
<1> QED
  BY <1>1 DEF Unwinding

LEMMA UnwindingRest ==
  ASSUME NEW d, NEW t, NEW in, NEW r, Unwinding(d, t, in, r), t # <<>>, ~Looks(t[1]),
         NEW in2, in \subseteq in2, t[1].op # "call" => WritesOf(t[1]) \subseteq in2
  PROVE  Unwinding(d, Tail(t), in2, r)
<1> DEFINE u == Tail(t)
           n == Len(t)
<1>1. /\ IsASequence(t) /\ IsASequence(u) /\ n \in Nat /\ n >= 1
      /\ DOMAIN t = 1..n /\ DOMAIN u = 1..n - 1
      /\ \A i \in 1..n - 1 : u[i] = t[i + 1]
  BY OfASequence, TailOf DEF Unwinding
<1> HIDE DEF u, n
<1>2. ASSUME NEW k \in DOMAIN u
      PROVE  k + 1 \in DOMAIN t /\ u[k] = t[k + 1]
  BY <1>1
<1>3. \A k \in DOMAIN u : Allowed(d, u[k], r)
  BY <1>2 DEF Unwinding
<1>4. ASSUME NEW k \in DOMAIN u, NEW j \in 1..(k + 1) - 1, j # 1
      PROVE  j - 1 \in 1..k - 1 /\ u[j - 1] = t[j]
  <2>1. j - 1 \in 1..k - 1 /\ j - 1 \in 1..n - 1 /\ (j - 1) + 1 = j
    BY <1>1, <1>4
  <2> QED
    BY <1>1, <2>1
<1>5. ASSUME NEW k \in DOMAIN u, u[k].op = "advance"
      PROVE  \E j \in 1..k - 1 : Looks(u[j])
  <2>1. PICK j \in 1..(k + 1) - 1 : Looks(t[j])
    BY <1>2, <1>5 DEF Unwinding
  <2>2. j # 1
    BY <2>1
  <2> QED
    BY <1>4, <2>1, <2>2
<1>6. ASSUME NEW k \in DOMAIN u, u[k].op = "act", NEW x \in Reads(u[k].arg)
      PROVE  x \in in2 \/ \E j \in 1..k - 1 :
                            Looks(u[j]) \/ (u[j].op # "call" /\ x \in WritesOf(u[j]))
  <2>1. x \in in \/ \E j \in 1..(k + 1) - 1 :
                      Looks(t[j]) \/ (t[j].op # "call" /\ x \in WritesOf(t[j]))
    BY <1>2, <1>6 DEF Unwinding
  <2>2. ASSUME NEW j \in 1..(k + 1) - 1,
               Looks(t[j]) \/ (t[j].op # "call" /\ x \in WritesOf(t[j]))
        PROVE  x \in in2 \/ \E i \in 1..k - 1 :
                              Looks(u[i]) \/ (u[i].op # "call" /\ x \in WritesOf(u[i]))
    <3>1. CASE j = 1
      BY <2>2, <3>1
    <3>2. CASE j # 1
      <4>1. j - 1 \in 1..k - 1 /\ u[j - 1] = t[j]
        BY <1>4, <3>2
      <4> QED
        BY <2>2, <4>1
    <3> QED
      BY <3>1, <3>2
  <2> QED
    BY <2>1, <2>2
<1> QED
  BY <1>1, <1>3, <1>5, <1>6 DEF Unwinding, u

(***************************************************************************)
(* Inlining.                                                               *)
(***************************************************************************)
LEMMA Inlining ==
  ASSUME NEW d, NEW t, NEW in, NEW r, Line(d, t, in, r), t # <<>>, t[1].op = "inline",
         NEW u, InlineLine(d, u, t[1].arg)
  PROVE  Line(d, u \o Tail(t), in, r)
<1> DEFINE v == Tail(t)
           w == u \o v
           m == Len(u)
           n == Len(t)
<1>1. /\ IsASequence(t) /\ IsASequence(v) /\ n \in Nat /\ n >= 1
      /\ DOMAIN t = 1..n /\ DOMAIN v = 1..n - 1 /\ Len(v) = n - 1
      /\ \A i \in 1..n - 1 : v[i] = t[i + 1]
  BY OfASequence, TailOf DEF Line
<1>2. IsASequence(u) /\ m \in Nat /\ DOMAIN u = 1..m
  BY OfASequence DEF InlineLine
<1> HIDE DEF v, m, n
<1>3. /\ IsASequence(w) /\ DOMAIN w = 1..m + n - 1
      /\ \A i \in 1..m : w[i] = u[i]
      /\ \A i \in 1..n - 1 : w[m + i] = v[i]
  <2>1. /\ IsASequence(u \o v) /\ Len(u \o v) = Len(u) + Len(v)
        /\ \A i \in 1..Len(u) : (u \o v)[i] = u[i]
        /\ \A i \in 1..Len(v) : (u \o v)[Len(u) + i] = v[i]
    BY <1>1, <1>2, Joined
  <2>2. DOMAIN w = 1..Len(w)
    BY <2>1, OfASequence
  <2> QED
    BY <1>1, <1>2, <2>1, <2>2 DEF m
<1> HIDE DEF w
<1>4. \A k \in 1..m : k \in DOMAIN w /\ k \in DOMAIN u /\ w[k] = u[k]
  BY <1>1, <1>2, <1>3
<1>5. ASSUME NEW k \in DOMAIN w, k > m
      PROVE  /\ k - m \in 1..n - 1 /\ (k - m) + 1 \in DOMAIN t /\ w[k] = t[(k - m) + 1]
  <2>1. k - m \in 1..n - 1 /\ m + (k - m) = k /\ (k - m) + 1 \in 1..n
    BY <1>1, <1>2, <1>3, <1>5
  <2>2. w[m + (k - m)] = v[k - m]
    BY <1>3, <2>1
  <2> QED
    BY <1>1, <2>1, <2>2
<1>6. ASSUME NEW k \in DOMAIN w, ~(k > m)
      PROVE  k \in 1..m
  BY <1>2, <1>3, <1>6
<1>7. \A k \in DOMAIN w : Allowed(d, w[k], r)
  <2> SUFFICES ASSUME NEW k \in DOMAIN w PROVE Allowed(d, w[k], r)
    OBVIOUS
  <2>1. CASE k > m
    BY <1>5, <2>1 DEF Line
  <2>2. CASE ~(k > m)
    BY <1>4, <1>6, <2>2 DEF InlineLine
  <2> QED
    BY <2>1, <2>2
<1>8. ASSUME NEW j \in 2..n
      PROVE  j - 1 + m \in DOMAIN w /\ w[j - 1 + m] = t[j]
  <2> DEFINE i == j - 1 + m
  <2>1. i \in DOMAIN w /\ i > m /\ (i - m) + 1 = j
    BY <1>1, <1>2, <1>3
  <2> HIDE DEF i
  <2>2. w[i] = t[(i - m) + 1]
    BY <1>5, <2>1
  <2>3. w[i] = t[j]
    BY <2>1, <2>2
  <2> QED
    BY <2>1, <2>3 DEF i
<1>9. Spaced(w)
  <2> SUFFICES ASSUME NEW i \in DOMAIN w, NEW k \in DOMAIN w, i < k,
                      \/ w[i].op \in {"advance", "else", "call", "inline"} /\ w[k].op = "advance"
                      \/ w[i].op \in {"call", "inline"} /\ w[k].op = "act"
               PROVE  \E j \in i + 1..k - 1 : Looks(w[j])
    BY DEF Spaced
  <2>1. CASE ~(k > m)
    <3>1. i \in 1..m /\ k \in 1..m
      BY <1>2, <1>3, <1>6, <2>1
    <3>2. PICK j \in i + 1..k - 1 : Looks(u[j])
      BY <1>4, <3>1 DEF InlineLine, Spaced
    <3>3. j \in 1..m
      BY <1>2, <3>1
    <3> QED
      BY <1>4, <3>2, <3>3
  <2>2. CASE k > m
    <3>1. /\ k - m \in 1..n - 1 /\ (k - m) + 1 \in DOMAIN t /\ w[k] = t[(k - m) + 1]
      BY <1>5, <2>2
    <3>2. CASE i > m
      <4>1. /\ (i - m) + 1 \in DOMAIN t /\ w[i] = t[(i - m) + 1] /\ (i - m) + 1 < (k - m) + 1
        BY <1>2, <1>3, <1>5, <3>2
      <4>2. PICK j \in ((i - m) + 1) + 1..((k - m) + 1) - 1 : Looks(t[j])
        BY <3>1, <4>1 DEF Line, Spaced
      <4>3. i \in Int /\ k \in Int /\ m \in Nat /\ n \in Nat /\ k - m <= n - 1 /\ (i - m) + 1 >= 1
        BY <1>1, <1>2, <1>3, <3>1, <4>1
      <4>4. j \in 2..n /\ j - 1 + m \in i + 1..k - 1
        BY <4>3
      <4> QED
        BY <1>8, <4>2, <4>4
    <3>3. CASE ~(i > m)
      <4>1. 1 \in DOMAIN t /\ 1 < (k - m) + 1
        BY <1>1, <3>1
      <4>2. PICK j \in 1 + 1..((k - m) + 1) - 1 : Looks(t[j])
        BY <3>1, <4>1 DEF Line, Spaced
      <4>3. j \in 2..n /\ j - 1 + m \in i + 1..k - 1
        BY SMTT(60), <1>1, <1>2, <1>3, <3>1, <3>3
      <4> QED
        BY <1>8, <4>2, <4>3
    <3> QED
      BY <3>2, <3>3
  <2> QED
    BY <2>1, <2>2
<1>10. /\ ReadsOf(t[1]) = InlineReads(t[1].arg) /\ WritesOf(t[1]) = InlineWrites(t[1].arg)
       /\ ~Stops(t[1]) /\ InlineReads(t[1].arg) \subseteq in
  <2>1. ReadsOf(t[1]) = InlineReads(t[1].arg) /\ WritesOf(t[1]) = InlineWrites(t[1].arg)
    BY DEF ReadsOf, WritesOf
  <2>2. ~Stops(t[1])
    BY DEF Stops
  <2> QED
    BY <2>1, <2>2, FirstOfLine
\* What t has before w does.
<1>11. ASSUME NEW x, NEW l \in Int, NEW j \in 1..l, j \in DOMAIN t, x \in WritesOf(t[j]) \/ Stops(t[j])
       PROVE  \E i \in 1..l - 1 + m : i \in DOMAIN w /\ (x \in WritesOf(w[i]) \/ Stops(w[i]))
  <2>1. CASE j = 1
    <3>1. Writing(u, x)
      BY <1>10, <1>11, <2>1 DEF InlineLine
    <3>2. PICK i \in DOMAIN u : x \in WritesOf(u[i]) \/ Stops(u[i])
      BY <3>1 DEF Writing
    <3>3. i \in 1..l - 1 + m /\ i \in 1..m
      BY <1>2
    <3> QED
      BY <1>4, <3>2, <3>3
  <2>2. CASE j # 1
    <3>1. j \in 1..n /\ n \in Nat /\ m \in Nat
      BY <1>1, <1>2, <1>11
    <3>2. j \in 2..n /\ j - 1 + m \in 1..l - 1 + m
      BY <2>2, <3>1
    <3> QED
      BY <1>8, <1>11, <3>2
  <2> QED
    BY <2>1, <2>2
<1>12. Fed(w, in)
  <2> SUFFICES ASSUME NEW k \in DOMAIN w, NEW x \in ReadsOf(w[k])
               PROVE  x \in in \/ \E j \in 1..k - 1 : x \in WritesOf(w[j]) \/ Stops(w[j])
    BY DEF Fed
  <2>1. CASE ~(k > m)
    <3>1. k \in 1..m
      BY <1>6, <2>1
    <3>2. x \in InlineReads(t[1].arg) \/ \E j \in 1..k - 1 : x \in WritesOf(u[j]) \/ Stops(u[j])
      BY <1>4, <3>1 DEF InlineLine, Fed
    <3>3. \A j \in 1..k - 1 : j \in 1..m
      BY <1>2, <3>1
    <3> QED
      BY <1>4, <1>10, <3>2, <3>3
  <2>2. CASE k > m
    <3>1. /\ k - m \in 1..n - 1 /\ (k - m) + 1 \in DOMAIN t /\ w[k] = t[(k - m) + 1]
      BY <1>5, <2>2
    <3>2. x \in in \/ \E j \in 1..((k - m) + 1) - 1 : x \in WritesOf(t[j]) \/ Stops(t[j])
      BY <3>1 DEF Line, Fed
    <3>3. ((k - m) + 1) - 1 = k - m /\ (k - m) - 1 + m = k - 1 /\ k - m \in Int
      BY <1>2, <1>3
    <3>4. ASSUME NEW j \in 1..k - m, x \in WritesOf(t[j]) \/ Stops(t[j])
          PROVE  \E i \in 1..k - 1 : x \in WritesOf(w[i]) \/ Stops(w[i])
      <4>1. j \in DOMAIN t
        BY <1>1, <3>1
      <4> QED
        BY <1>11, <3>3, <3>4, <4>1
    <3> QED
      BY <3>2, <3>3, <3>4
  <2> QED
    BY <2>1, <2>2
<1>13. r = NoLocal \/ r \in in \/ Writing(w, r)
  <2>1. r = NoLocal \/ r \in in \/ Writing(t, r)
    BY DEF Line
  <2>2. ASSUME NEW j \in DOMAIN t, r \in WritesOf(t[j]) \/ Stops(t[j])
        PROVE  Writing(w, r)
    <3>1. n \in Int /\ j \in 1..n
      BY <1>1
    <3> QED
      BY <1>11, <2>2, <3>1 DEF Writing
  <2> QED
    BY <2>1, <2>2 DEF Writing
<1> QED
  BY <1>3, <1>7, <1>9, <1>12, <1>13 DEF Line, w, v

LEMMA InliningAtError ==
  ASSUME NEW d, NEW t, NEW r, NEW in, Unwinding(d, t, in, r), t # <<>>, NEW u, LooksFirst(d, u)
  PROVE  Unwinding(d, u \o Tail(t), in, r)
<1> DEFINE v == Tail(t)
           w == u \o v
           m == Len(u)
           n == Len(t)
<1>1. /\ IsASequence(t) /\ IsASequence(v) /\ n \in Nat /\ n >= 1
      /\ DOMAIN t = 1..n /\ DOMAIN v = 1..n - 1 /\ Len(v) = n - 1
      /\ \A i \in 1..n - 1 : v[i] = t[i + 1]
  BY OfASequence, TailOf DEF Unwinding
<1>2. IsASequence(u) /\ m \in Nat /\ DOMAIN u = 1..m /\ m >= 1 /\ Looks(u[1])
  BY OfASequence DEF LooksFirst
<1> HIDE DEF v, m, n
<1>3. /\ IsASequence(w) /\ DOMAIN w = 1..m + n - 1
      /\ \A i \in 1..m : w[i] = u[i]
      /\ \A i \in 1..n - 1 : w[m + i] = v[i]
  <2>1. /\ IsASequence(u \o v) /\ Len(u \o v) = Len(u) + Len(v)
        /\ \A i \in 1..Len(u) : (u \o v)[i] = u[i]
        /\ \A i \in 1..Len(v) : (u \o v)[Len(u) + i] = v[i]
    BY <1>1, <1>2, Joined
  <2>2. DOMAIN w = 1..Len(w)
    BY <2>1, OfASequence
  <2> QED
    BY <1>1, <1>2, <2>1, <2>2 DEF m
<1> HIDE DEF w
<1>4. \A k \in DOMAIN w : Allowed(d, w[k], r)
  <2> SUFFICES ASSUME NEW k \in DOMAIN w PROVE Allowed(d, w[k], r)
    OBVIOUS
  <2>1. CASE k > m
    <3>1. k - m \in 1..n - 1 /\ m + (k - m) = k /\ (k - m) + 1 \in DOMAIN t
      BY <1>1, <1>2, <1>3, <2>1
    <3>2. w[m + (k - m)] = v[k - m] /\ v[k - m] = t[(k - m) + 1]
      BY <1>1, <1>3, <3>1
    <3> QED
      BY <3>1, <3>2 DEF Unwinding
  <2>2. CASE ~(k > m)
    <3>1. k \in 1..m /\ k \in DOMAIN u
      BY <1>2, <1>3, <2>2
    <3> QED
      BY <1>3, <3>1 DEF LooksFirst
  <2> QED
    BY <2>1, <2>2
<1>5. Looks(w[1])
  BY <1>2, <1>3
<1>6. \A k \in DOMAIN w : k = 1 \/ 1 \in 1..k - 1
  BY <1>1, <1>2, <1>3
<1>7. w[1].op # "advance" /\ (w[1].op = "act" => w[1].arg = "current-rules")
  BY <1>5 DEF Looks, Stops
<1>8. w[1].op = "act" => Reads(w[1].arg) = {}
  BY <1>7, ActFacts
<1>9. \A k \in DOMAIN w : w[k].op = "advance" => \E j \in 1..k - 1 : Looks(w[j])
  BY <1>5, <1>6, <1>7
<1>10. \A k \in DOMAIN w : w[k].op = "act" => \A x \in Reads(w[k].arg) :
         x \in in \/ \E j \in 1..k - 1 :
                       Looks(w[j]) \/ (w[j].op # "call" /\ x \in WritesOf(w[j]))
  BY <1>5, <1>6, <1>8
<1> QED
  BY <1>3, <1>4, <1>9, <1>10 DEF Unwinding, w, v

(***************************************************************************)
(* What a call has still to do.                                            *)
(***************************************************************************)
LEMMA FirstOfReady ==
  ASSUME NEW d, NEW t, NEW in, NEW r, NEW tok, Ready(d, t, in, r, tok), t # <<>>
  PROVE  /\ Allowed(d, t[1], r)
         /\ tok # "ERROR" => ReadsOf(t[1]) \subseteq in
         /\ tok = "ERROR" => t[1].op # "advance"
         /\ t[1].op = "act" => Reads(t[1].arg) \subseteq in
<1>1. CASE tok = "ERROR"
  BY <1>1, FirstUnwinding DEF Ready
<1>2. CASE tok # "ERROR"
  <2>1. t[1].op = "act" => ReadsOf(t[1]) = Reads(t[1].arg)
    BY DEF ReadsOf
  <2> QED
    BY <1>2, <2>1, FirstOfLine DEF Ready
<1> QED
  BY <1>1, <1>2

LEMMA ReadyRest ==
  ASSUME NEW d, NEW t, NEW in, NEW r, NEW tok, Ready(d, t, in, r, tok), t # <<>>,
         t[1].op # "call", IF tok = "ERROR" THEN ~Looks(t[1]) ELSE ~Stops(t[1]),
         NEW in2, in \union WritesOf(t[1]) \subseteq in2
  PROVE  Ready(d, Tail(t), in2, r, tok)
<1>1. CASE tok = "ERROR"
  BY <1>1, UnwindingRest DEF Ready
<1>2. CASE tok # "ERROR"
  BY <1>2, RestOfLine DEF Ready
<1> QED
  BY <1>1, <1>2

\* Whatever is read.
LEMMA ReadyRead ==
  ASSUME NEW d, NEW t, NEW in, NEW r, Line(d, t, in, r), t # <<>>,
         t[1].op = "advance" \/ t[1].op = "else", NEW tok
  PROVE  Ready(d, Tail(t), in, r, tok)
<1>1. WritesOf(t[1]) = {}
  BY Zenon DEF WritesOf
<1>2. ~Stops(t[1])
  BY DEF Stops
<1>3. Line(d, Tail(t), in, r)
  BY <1>1, <1>2, RestOfLine
<1>4. Unwinding(d, Tail(t), in, r)
  BY RestUnwinds
<1> QED
  BY <1>3, <1>4 DEF Ready

LEMMA ReadyCall ==
  ASSUME NEW d, NEW t, NEW in, NEW r, NEW tok, Ready(d, t, in, r, tok), t # <<>>,
         t[1].op = "call"
  PROVE  Waiting(d, Tail(t), in, t[1].arg[3], r, tok)
<1>1. ~Stops(t[1]) /\ ~Looks(t[1]) /\ WritesOf(t[1]) = {t[1].arg[3]}
  BY DEF Stops, Looks, WritesOf
<1>2. CASE tok = "ERROR"
  <2>1. Unwinding(d, Tail(t), in, r)
    BY <1>1, <1>2, UnwindingRest DEF Ready
  <2> QED
    BY <1>2, <2>1 DEF Waiting
<1>3. CASE tok # "ERROR"
  <2>1. Unwinding(d, Tail(t), in, r)
    BY <1>3, RestUnwinds DEF Ready
  <2>2. Line(d, Tail(t), in \union {t[1].arg[3]}, r)
    BY <1>1, <1>3, RestOfLine DEF Ready
  <2> QED
    BY <2>1, <2>2 DEF Waiting
<1> QED
  BY <1>2, <1>3

(***************************************************************************)
(* Stacks.                                                                 *)
(***************************************************************************)
LEMMA StillBeneath ==
  ASSUME NEW d, NEW f, NEW out, NEW tok, Beneath(d, f, out, tok),
         NEW tok2, tok = "ERROR" => tok2 = "ERROR"
  PROVE  Beneath(d, f, out, tok2)
BY DEF Beneath, Waiting

\* The innermost call goes on as f.
LEMMA StackPut ==
  ASSUME NEW d, NEW s, NEW tok, StackOf(d, s, tok), s # <<>>,
         NEW f, f.out = s[1].out, NEW tok2, tok = "ERROR" => tok2 = "ERROR",
         Innermost(d, f, tok2)
  PROVE  StackOf(d, <<f>> \o Tail(s), tok2)
<1> DEFINE u == <<f>> \o Tail(s)
<1>1. IsASequence(s) /\ Len(s) \in Nat
  BY OfASequence DEF StackOf
<1>2. /\ IsASequence(u) /\ Len(u) = Len(s) /\ u[1] = f
      /\ \A i \in 2..Len(s) : u[i] = s[i]
  BY <1>1, PutFirst
<1> HIDE DEF u
<1>3. ASSUME NEW i \in 2..Len(s) PROVE Beneath(d, u[i], u[i - 1].out, tok2)
  <2>1. Beneath(d, s[i], s[i - 1].out, tok2)
    BY StillBeneath DEF StackOf
  <2>2. i = 2 \/ i - 1 \in 2..Len(s)
    BY <1>1
  <2>3. u[i - 1].out = s[i - 1].out
    <3>1. CASE i = 2
      BY <1>2, <3>1
    <3>2. CASE i - 1 \in 2..Len(s)
      BY <1>2, <3>2
    <3> QED
      BY <2>2, <3>1, <3>2
  <2> QED
    BY <1>2, <2>1, <2>3
<1> QED
  BY <1>2, <1>3 DEF StackOf, u

\* The innermost call becomes c, and calls f.
LEMMA StackCall ==
  ASSUME NEW d, NEW s, NEW tok, StackOf(d, s, tok), s # <<>>,
         NEW f, NEW c, c.out = s[1].out, Innermost(d, f, tok), Beneath(d, c, f.out, tok)
  PROVE  StackOf(d, <<f, c>> \o Tail(s), tok)
<1> DEFINE u == <<f, c>> \o Tail(s)
<1>1. IsASequence(s) /\ Len(s) \in Nat
  BY OfASequence DEF StackOf
<1>2. /\ IsASequence(u) /\ Len(u) = Len(s) + 1 /\ u[1] = f /\ u[2] = c
      /\ \A i \in 3..Len(s) + 1 : u[i] = s[i - 1]
  BY <1>1, PutTwoFirst
<1> HIDE DEF u
<1>3. ASSUME NEW i \in 2..Len(u) PROVE Beneath(d, u[i], u[i - 1].out, tok)
  <2>1. CASE i = 2
    <3>1. i - 1 = 1
      BY <2>1
    <3> QED
      BY <1>2, <2>1, <3>1
  <2>2. CASE i # 2
    <3>1. i - 1 \in 2..Len(s) /\ i \in 3..Len(s) + 1
      BY <1>1, <1>2, <2>2
    <3>2. Beneath(d, s[i - 1], s[(i - 1) - 1].out, tok)
      BY <3>1 DEF StackOf
    <3>3. u[i - 1].out = s[(i - 1) - 1].out
      <4>1. CASE i = 3
        <5>1. i - 1 = 2 /\ (i - 1) - 1 = 1
          BY <4>1
        <5> QED
          BY <1>2, <5>1
      <4>2. CASE i # 3
        <5>1. i - 1 \in 3..Len(s) + 1
          BY <1>1, <3>1, <4>2
        <5> QED
          BY <1>2, <5>1
      <4> QED
        BY <4>1, <4>2
    <3> QED
      BY <1>2, <3>1, <3>2, <3>3
  <2> QED
    BY <2>1, <2>2
<1> QED
  BY <1>2, <1>3 DEF StackOf, u

\* The innermost call leaves for ZL1, without its result.
LEMMA StackLeave ==
  ASSUME NEW d, NEW s, NEW tok, StackOf(d, s, tok), s # <<>>
  PROVE  StackOf(d, Tail(s), "ERROR")
<1> DEFINE u == Tail(s)
<1>1. IsASequence(s) /\ Len(s) \in Nat /\ Len(s) >= 1
  BY OfASequence DEF StackOf
<1>2. /\ IsASequence(u) /\ Len(u) = Len(s) - 1
      /\ \A i \in 1..Len(s) - 1 : u[i] = s[i + 1]
  BY <1>1, TailOf
<1> HIDE DEF u
<1>3. u # <<>> => Innermost(d, u[1], "ERROR")
  <2> SUFFICES ASSUME u # <<>> PROVE Innermost(d, u[1], "ERROR")
    OBVIOUS
  <2>1. Len(u) >= 1
    BY <1>2, OfASequence
  <2>2. 2 \in 2..Len(s) /\ u[1] = s[2]
    BY <1>1, <1>2, <2>1
  <2>3. Beneath(d, s[2], s[2 - 1].out, tok)
    BY <2>2 DEF StackOf
  <2> QED
    BY <2>2, <2>3 DEF Beneath, Innermost, Waiting, Ready
<1>4. ASSUME NEW i \in 2..Len(u) PROVE Beneath(d, u[i], u[i - 1].out, "ERROR")
  <2>1. i + 1 \in 2..Len(s) /\ i \in 1..Len(s) - 1 /\ i - 1 \in 1..Len(s) - 1
        /\ (i + 1) - 1 = i /\ (i - 1) + 1 = i
    BY <1>1, <1>2
  <2>2. u[i] = s[i + 1] /\ u[i - 1] = s[i]
    BY <1>2, <2>1
  <2>3. Beneath(d, s[i + 1], s[(i + 1) - 1].out, "ERROR")
    BY <2>1, StillBeneath DEF StackOf
  <2> QED
    BY <2>1, <2>2, <2>3
<1> QED
  BY <1>2, <1>3, <1>4 DEF StackOf, u

\* The innermost call has come to its end, and the one beneath goes on as f.
LEMMA StackReturn ==
  ASSUME NEW d, NEW s, NEW tok, StackOf(d, s, tok), Len(s) >= 2, s[1].todo = <<>>,
         NEW f, IsACall(d, f), f.out = s[2].out, f.prod = s[2].prod, f.todo = s[2].todo,
         \/ DOMAIN f.loc = {s[1].out} \union DOMAIN s[2].loc
         \/ Gives(d, s[1]) \notin DOMAIN s[1].loc /\ DOMAIN f.loc = DOMAIN s[2].loc
  PROVE  StackOf(d, <<f>> \o SubSeq(s, 3, Len(s)), tok)
<1> DEFINE u == <<f>> \o SubSeq(s, 3, Len(s))
<1>1. IsASequence(s) /\ Len(s) \in Nat /\ s # <<>>
  BY OfASequence DEF StackOf
<1>2. /\ IsASequence(u) /\ Len(u) = Len(s) - 1 /\ u[1] = f
      /\ \A i \in 2..Len(s) - 1 : u[i] = s[i + 1]
  BY <1>1, PutForTwo
<1> HIDE DEF u
<1> DEFINE have == DOMAIN s[2].loc
           now  == DOMAIN f.loc
           R    == Gives(d, f)
<1>3. /\ Waiting(d, f.todo, have, s[1].out, R, tok) /\ have \subseteq now
      /\ Innermost(d, s[1], tok)
  <2>1. 2 \in 2..Len(s) /\ 2 - 1 = 1
    BY <1>1
  <2>2. Beneath(d, s[2], s[2 - 1].out, tok)
    BY <2>1 DEF StackOf
  <2> QED
    BY <1>1, <2>1, <2>2 DEF Beneath, Gives, StackOf
<1>4. Innermost(d, f, tok)
  <2>1. CASE tok = "ERROR"
    <3>1. Unwinding(d, f.todo, now, R)
      BY <1>3, WiderUnwinding DEF Waiting
    <3> QED
      BY <2>1, <3>1 DEF Innermost, Ready
  <2>2. CASE tok # "ERROR"
    <3>1. Line(d, f.todo, have \union {s[1].out}, R)
      BY <1>3, <2>2 DEF Waiting
    <3>2. Line(d, f.todo, now, R)
      <4>1. CASE now = {s[1].out} \union have
        BY <3>1, <4>1, WiderLine
      <4>2. CASE Gives(d, s[1]) \notin DOMAIN s[1].loc /\ now = have
        <5>1. Line(d, <<>>, DOMAIN s[1].loc, Gives(d, s[1]))
          BY <1>3, <2>2 DEF Innermost, Ready
        <5>2. Gives(d, s[1]) = NoLocal
          BY <4>2, <5>1, EndOfLine
        <5>3. s[1].out = NoLocal
          BY <1>3, <5>2 DEF Innermost, IsACall, Gives
        <5> QED
          BY <3>1, <4>2, <5>3, WithoutNoLocal
      <4> QED
        BY <4>1, <4>2
    <3> QED
      BY <2>2, <3>2 DEF Innermost, Ready
  <2> QED
    BY <2>1, <2>2
<1>5. ASSUME NEW i \in 2..Len(u) PROVE Beneath(d, u[i], u[i - 1].out, tok)
  <2>1. /\ i + 1 \in 2..Len(s) /\ i \in 2..Len(s) - 1 /\ (i + 1) - 1 = i
        /\ i = 2 \/ i - 1 \in 2..Len(s) - 1
    BY <1>1, <1>2
  <2>2. u[i] = s[i + 1]
    BY <1>2, <2>1
  <2>3. u[i - 1].out = s[i].out
    <3>1. CASE i = 2
      <4>1. i - 1 = 1
        BY <3>1
      <4> QED
        BY <1>2, <3>1, <4>1
    <3>2. CASE i - 1 \in 2..Len(s) - 1
      <4>1. (i - 1) + 1 = i
        BY <1>1
      <4> QED
        BY <1>2, <3>2, <4>1
    <3> QED
      BY <2>1, <3>1, <3>2
  <2>4. Beneath(d, s[i + 1], s[(i + 1) - 1].out, tok)
    BY <2>1 DEF StackOf
  <2> QED
    BY <2>1, <2>2, <2>3, <2>4
<1> QED
  BY <1>2, <1>4, <1>5 DEF StackOf, u

(***************************************************************************)
(* The steps.                                                              *)
(***************************************************************************)
\* A call that goes on with what it has to do, and with other locals.
LEMMA ChangedCall ==
  ASSUME NEW d, NEW f, IsACall(d, f), NEW t, NEW loc
  PROVE  /\ [f EXCEPT !.todo = t] = [prod |-> f.prod, todo |-> t, loc |-> f.loc, out |-> f.out]
         /\ [f EXCEPT !.loc = loc] = [prod |-> f.prod, todo |-> f.todo, loc |-> loc, out |-> f.out]
<1> DEFINE w == f.prod
           x == f.todo
           y == f.loc
           z == f.out
<1>1. f = [prod |-> w, todo |-> x, loc |-> y, out |-> z]
  BY DEF IsACall
<1> HIDE DEF w, x, y, z
<1>2. [f EXCEPT !.todo = t] = [prod |-> w, todo |-> t, loc |-> y, out |-> z]
  BY <1>1
<1>3. [f EXCEPT !.loc = loc] = [prod |-> w, todo |-> x, loc |-> loc, out |-> z]
  BY <1>1
<1> QED
  BY <1>2, <1>3 DEF w, x, y, z

\* The innermost call has done its first item, and has loc now.
LEMMA StackGoOn ==
  ASSUME NEW d, NEW s, NEW tok, StackOf(d, s, tok), s # <<>>, s[1].todo # <<>>,
         s[1].todo[1].op # "call",
         IF tok = "ERROR" THEN ~Looks(s[1].todo[1]) ELSE ~Stops(s[1].todo[1]),
         NEW loc, DOMAIN s[1].loc \union WritesOf(s[1].todo[1]) \subseteq DOMAIN loc,
         NEW f, f = [prod |-> s[1].prod, todo |-> Tail(s[1].todo), loc |-> loc, out |-> s[1].out]
  PROVE  StackOf(d, <<f>> \o Tail(s), tok)
<1>1. Innermost(d, s[1], tok)
  BY DEF StackOf
<1>2. IsACall(d, f) /\ f.out = s[1].out /\ f.todo = Tail(s[1].todo) /\ f.loc = loc
      /\ Gives(d, f) = Gives(d, s[1])
  BY <1>1 DEF Innermost, IsACall, Gives
<1>3. Ready(d, f.todo, DOMAIN f.loc, Gives(d, f), tok)
  BY <1>1, <1>2, ReadyRest DEF Innermost
<1>4. Innermost(d, f, tok)
  BY <1>2, <1>3 DEF Innermost
<1> QED
  BY <1>2, <1>4, StackPut

\* It has read the next terminal, tok2.
LEMMA StackRead ==
  ASSUME NEW d, NEW s, NEW tok, StackOf(d, s, tok), s # <<>>, s[1].todo # <<>>,
         tok # "ERROR", s[1].todo[1].op = "advance" \/ s[1].todo[1].op = "else",
         NEW f, f = [prod |-> s[1].prod, todo |-> Tail(s[1].todo), loc |-> s[1].loc, out |-> s[1].out],
         NEW tok2
  PROVE  StackOf(d, <<f>> \o Tail(s), tok2)
<1>1. Innermost(d, s[1], tok)
  BY DEF StackOf
<1>2. IsACall(d, f) /\ f.out = s[1].out /\ f.todo = Tail(s[1].todo) /\ f.loc = s[1].loc
      /\ Gives(d, f) = Gives(d, s[1])
  BY <1>1 DEF Innermost, IsACall, Gives
<1>3. Line(d, s[1].todo, DOMAIN s[1].loc, Gives(d, s[1]))
  BY <1>1 DEF Innermost, Ready
<1>4. Ready(d, f.todo, DOMAIN f.loc, Gives(d, f), tok2)
  BY <1>2, <1>3, ReadyRead
<1>5. Innermost(d, f, tok2)
  BY <1>2, <1>4 DEF Innermost
<1> QED
  BY <1>2, <1>5, StackPut

\* The call of function f, with the locals loc, and what it has to do.
LEMMA ACallIsReady ==
  ASSUME dialect \in Dialects, NEW f \in Procs(dialect), NEW tok,
         NEW loc, Takes(dialect, f) \subseteq DOMAIN loc,
         NEW out, out # NoLocal => Yields(dialect, f) # NoLocal
  PROVE  Innermost(dialect, Frame(f, tok, loc, out), tok)
<1> DEFINE c == Frame(f, tok, loc, out)
<1>1. /\ c = [prod |-> f, todo |-> c.todo, loc |-> loc, out |-> out]
      /\ c.prod = f /\ c.loc = loc /\ c.out = out
      /\ tok = "ERROR" => c.todo = <<>>
      /\ tok # "ERROR" => c.todo = Production(f, tok)
  BY DEF Frame
<1> HIDE DEF c
<1>2. IsACall(dialect, c) /\ Gives(dialect, c) = Yields(dialect, f)
  BY <1>1 DEF IsACall, Gives
<1>3. CASE tok = "ERROR"
  <2>1. Unwinding(dialect, <<>>, DOMAIN loc, Yields(dialect, f))
    BY NothingUnwinds
  <2> QED
    BY <1>1, <1>2, <1>3, <2>1 DEF Innermost, Ready, c
<1>4. CASE tok # "ERROR"
  <2>1. Line(dialect, Production(f, tok), Takes(dialect, f), Yields(dialect, f))
    BY Lines
  <2>2. Line(dialect, Production(f, tok), DOMAIN loc, Yields(dialect, f))
    BY <2>1, WiderLine
  <2> QED
    BY <1>1, <1>2, <1>4, <2>2 DEF Innermost, Ready, c
<1> QED
  BY <1>3, <1>4

\* The first item of the innermost call.
LEMMA Current ==
  ASSUME StackRight, NEW op, At(op)
  PROVE  /\ stack # <<>> /\ frame = stack[1] /\ frame.todo # <<>>
         /\ Head(frame.todo) = frame.todo[1] /\ frame.todo[1].op = op
         /\ Argument = frame.todo[1].arg
         /\ StackOf(dialect, stack, lex_tok)
         /\ Innermost(dialect, frame, lex_tok)
         /\ IsACall(dialect, frame)
         /\ Allowed(dialect, frame.todo[1], Gives(dialect, frame))
         /\ lex_tok # "ERROR" => ReadsOf(frame.todo[1]) \subseteq DOMAIN frame.loc
         /\ lex_tok = "ERROR" => op # "advance"
         /\ op = "act" => Reads(Argument) \subseteq DOMAIN frame.loc
<1>1. /\ stack # <<>> /\ frame = stack[1] /\ frame.todo # <<>>
      /\ Head(frame.todo) = frame.todo[1] /\ frame.todo[1].op = op
      /\ Argument = frame.todo[1].arg
  BY DEF At, frame, Argument
<1>2. StackOf(dialect, stack, lex_tok)
  BY DEF StackRight
<1>3. Innermost(dialect, frame, lex_tok)
  BY <1>1, <1>2 DEF StackOf
<1>4. /\ Ready(dialect, frame.todo, DOMAIN frame.loc, Gives(dialect, frame), lex_tok)
      /\ IsACall(dialect, frame)
  BY <1>3 DEF Innermost
<1>5. /\ Allowed(dialect, frame.todo[1], Gives(dialect, frame))
      /\ lex_tok # "ERROR" => ReadsOf(frame.todo[1]) \subseteq DOMAIN frame.loc
      /\ lex_tok = "ERROR" => frame.todo[1].op # "advance"
      /\ frame.todo[1].op = "act" => Reads(frame.todo[1].arg) \subseteq DOMAIN frame.loc
  BY <1>1, <1>4, FirstOfReady
<1> QED
  BY <1>1, <1>2, <1>3, <1>4, <1>5

LEMMA Again ==
  ASSUME StackRight, UNCHANGED <<text, stack, lex_tok>>
  PROVE  StackRight'
BY DEF StackRight, dialect

LEMMA StackRightNext ==
  ASSUME dialect \in Dialects, UNCHANGED text, StackOf(dialect, stack', lex_tok')
  PROVE  StackRight'
BY DEF StackRight, dialect

LEMMA ZL1Right ==
  ASSUME StackRight, stack # <<>>, UNCHANGED text, NEW es, ZL1(es)
  PROVE  StackRight'
<1>1. CASE stack' = Tail(stack) /\ lex_tok' = "ERROR"
  BY <1>1, StackLeave, StackRightNext DEF StackRight
<1>2. CASE UNCHANGED <<stack, lex_tok>>
  BY <1>2, Again
<1> QED
  BY <1>1, <1>2 DEF ZL1

\* The innermost call goes on, and no terminal is read.
LEMMA GoOnRight ==
  ASSUME StackRight, NEW op, At(op), op # "call", UNCHANGED <<text, lex_tok>>, GoOn,
         IF lex_tok = "ERROR" THEN ~Looks(frame.todo[1]) ELSE ~Stops(frame.todo[1]),
         WritesOf(frame.todo[1]) = {}
  PROVE  StackRight'
<1>0. /\ stack # <<>> /\ frame = stack[1] /\ frame.todo # <<>> /\ frame.todo[1].op = op
      /\ StackOf(dialect, stack, lex_tok) /\ IsACall(dialect, frame)
  BY Current
<1> DEFINE f == [prod |-> frame.prod, todo |-> Tail(frame.todo), loc |-> frame.loc,
                 out |-> frame.out]
<1>1. [frame EXCEPT !.todo = Tail(@)] = f
  BY <1>0, ChangedCall
<1>2. stack' = <<f>> \o Tail(stack)
  BY <1>1 DEF GoOn, GoOnWith
<1> HIDE DEF f
<1>3. StackOf(dialect, <<f>> \o Tail(stack), lex_tok)
  BY <1>0, StackGoOn DEF f
<1> QED
  BY <1>2, <1>3, StackRightNext DEF StackRight

LEMMA GoOnWritingRight ==
  ASSUME StackRight, NEW op, At(op), op # "call", UNCHANGED <<text, lex_tok>>,
         NEW xs, GoOnWriting(xs), WritesOf(frame.todo[1]) \subseteq DOMAIN xs,
         IF lex_tok = "ERROR" THEN ~Looks(frame.todo[1]) ELSE ~Stops(frame.todo[1])
  PROVE  StackRight'
<1>0. /\ stack # <<>> /\ frame = stack[1] /\ frame.todo # <<>> /\ frame.todo[1].op = op
      /\ StackOf(dialect, stack, lex_tok) /\ IsACall(dialect, frame)
  BY Current
<1> DEFINE loc == Over(xs, frame.loc)
           f == [prod |-> frame.prod, todo |-> Tail(frame.todo), loc |-> loc,
                 out |-> frame.out]
<1>1. [frame EXCEPT !.todo = Tail(@), !.loc = Over(xs, @)] = f
  <2>1. [frame EXCEPT !.todo = Tail(@), !.loc = Over(xs, @)]
        = [frame EXCEPT !.todo = Tail(frame.todo), !.loc = Over(xs, frame.loc)]
    OBVIOUS
  <2>2. [frame EXCEPT !.todo = Tail(frame.todo), !.loc = Over(xs, frame.loc)]
        = [prod |-> frame.prod, todo |-> Tail(frame.todo), loc |-> Over(xs, frame.loc), out |-> frame.out]
    <3> HIDE DEF f, loc
    <3> DEFINE t == Tail(frame.todo)
               l == Over(xs, frame.loc)
    <3> HIDE DEF t, l
    <3> DEFINE h == [frame EXCEPT !.todo = t]
    <3>1. [frame EXCEPT !.todo = t, !.loc = l] = [h EXCEPT !.loc = l]
      OBVIOUS
    <3>2. h = [prod |-> frame.prod, todo |-> t, loc |-> frame.loc, out |-> frame.out]
      BY <1>0, ChangedCall
    <3> HIDE DEF h
    <3>3. [h EXCEPT !.loc = l] = [prod |-> frame.prod, todo |-> t, loc |-> l, out |-> frame.out]
      BY <3>2
    <3> QED
      BY <3>1, <3>3 DEF t, l
  <2> QED
    BY <2>1, <2>2
<1>2. stack' = <<f>> \o Tail(stack)
  BY <1>1 DEF GoOnWriting, GoOnWith
<1>3. DOMAIN loc = DOMAIN xs \union DOMAIN frame.loc
  BY DEF Over
<1> HIDE DEF loc
<1>4. StackOf(dialect, <<f>> \o Tail(stack), lex_tok)
  BY <1>0, <1>3, StackGoOn
<1> QED
  BY <1>2, <1>4, StackRightNext DEF StackRight

LEMMA StackOfOne ==
  ASSUME NEW d, NEW f, NEW tok, Innermost(d, f, tok)
  PROVE  StackOf(d, <<f>>, tok)
<1> DEFINE s == <<f>>
<1>1. IsASequence(s) /\ Len(s) = 1 /\ s[1] = f
  BY Short
<1> HIDE DEF s
<1>2. \A i \in 2..Len(s) : FALSE
  BY <1>1
<1>3. StackOf(d, s, tok)
  BY <1>1, <1>2 DEF StackOf
<1> QED
  BY <1>3 DEF s

\* FORM_INPUT.
LEMMA FormInputRight == ASSUME StackRight, FormInput PROVE StackRight'
<1>1. PICK l \in Lexed : Take(l) /\ stack' = <<Frame("entry", l[1].tok, <<>>, "")>>
  BY DEF FormInput
<1> DEFINE f == Frame("entry", l[1].tok, <<>>, NoLocal)
<1>2. "entry" \in Procs(dialect) /\ Takes(dialect, "entry") = {}
  <2>1. dialect = "wsn" \/ dialect = "bnf" \/ dialect = "rbnf" \/ dialect = "iso-ebnf" \/ dialect = "abnf"
    BY DEF StackRight, Dialects
  <2>2. "entry" \in Procs(dialect)
    BY <2>1 DEF Procs
  <2>3. Takes(dialect, "entry") = {}
    BY <2>1, WsnSignatures, BnfSignatures, RbnfSignatures, IsoSignatures, AbnfSignatures
  <2> QED
    BY <2>2, <2>3
<1>3. Innermost(dialect, f, l[1].tok)
  <2>1. dialect \in Dialects /\ Takes(dialect, "entry") \subseteq DOMAIN <<>>
    BY <1>2 DEF StackRight
  <2> QED
    BY <1>2, <2>1, ACallIsReady
<1> HIDE DEF f
<1>4. StackOf(dialect, <<f>>, l[1].tok)
  BY <1>3, StackOfOne
<1>5. stack' = <<f>> /\ lex_tok' = l[1].tok /\ UNCHANGED text
  BY <1>1 DEF FormInput, Take, f, NoLocal
<1> QED
  BY <1>4, <1>5, StackRightNext DEF StackRight

\* What reads the next terminal.
LEMMA ReadRight ==
  ASSUME StackRight, NEW op, At(op), op = "advance" \/ op = "else", lex_tok # "ERROR",
         ADVANCE_LEXER, GoOn, UNCHANGED text
  PROVE  StackRight'
<1>0. /\ stack # <<>> /\ frame = stack[1] /\ frame.todo # <<>> /\ frame.todo[1].op = op
      /\ StackOf(dialect, stack, lex_tok) /\ IsACall(dialect, frame)
  BY Current
<1> DEFINE f == [prod |-> frame.prod, todo |-> Tail(frame.todo), loc |-> frame.loc,
                 out |-> frame.out]
<1>1. [frame EXCEPT !.todo = Tail(@)] = f
  BY <1>0, ChangedCall
<1>2. stack' = <<f>> \o Tail(stack)
  BY <1>1 DEF GoOn, GoOnWith
<1> HIDE DEF f
<1>3. PICK l : lex_tok' = l[1].tok
  BY DEF ADVANCE_LEXER, Take
<1>4. StackOf(dialect, <<f>> \o Tail(stack), l[1].tok)
  BY <1>0, StackRead DEF f
<1> QED
  BY <1>2, <1>3, <1>4, StackRightNext DEF StackRight

LEMMA DoAdvanceRight == ASSUME StackRight, DoAdvance PROVE StackRight'
<1>1. At("advance") /\ ADVANCE_LEXER /\ GoOn /\ UNCHANGED text
  BY DEF DoAdvance
<1>2. lex_tok # "ERROR"
  BY <1>1, Current
<1> QED
  BY <1>1, <1>2, ReadRight

\* The terminals of an Else are never ERROR.
LEMMA ErrorIsNotTaken ==
  ASSUME StackRight, At("else")
  PROVE  "ERROR" \notin Argument
BY Current DEF Allowed

LEMMA TakeOneOfRight == ASSUME StackRight, TakeOneOf PROVE StackRight'
<1>1. At("else") /\ lex_tok \in Argument /\ ADVANCE_LEXER /\ GoOn /\ UNCHANGED text
  BY DEF TakeOneOf
<1>2. lex_tok # "ERROR"
  BY <1>1, ErrorIsNotTaken
<1> QED
  BY <1>1, <1>2, ReadRight

LEMMA ErrExpectedRight == ASSUME StackRight, ErrExpected PROVE StackRight'
<1>1. At("else") /\ GoOn /\ UNCHANGED <<text, lex_tok>>
  BY DEF ErrExpected, LexerUnchanged
<1>2. frame.todo[1].op = "else"
  BY <1>1, Current
<1>3. WritesOf(frame.todo[1]) = {}
  BY <1>2, Zenon DEF WritesOf
<1>4. ~Looks(frame.todo[1]) /\ ~Stops(frame.todo[1])
  BY <1>2 DEF Looks, Stops
<1> QED
  BY <1>1, <1>3, <1>4, GoOnRight

\* What looks at the terminal.
LEMMA DoExpectRight == ASSUME StackRight, DoExpect PROVE StackRight'
<1>1. /\ At("expect") /\ UNCHANGED text
      /\ IF lex_tok = Argument
         THEN GoOn /\ UNCHANGED <<lex_tok, errors, outcome>>
         ELSE ZL1(<<>>)
  BY DEF DoExpect, LexerUnchanged
<1>2. /\ frame.todo[1].op = "expect" /\ stack # <<>>
      /\ Allowed(dialect, frame.todo[1], Gives(dialect, frame)) /\ Argument = frame.todo[1].arg
  BY <1>1, Current
<1>3. CASE lex_tok = Argument
  <2>1. lex_tok # "ERROR"
    BY <1>2, <1>3 DEF Allowed
  <2>2. WritesOf(frame.todo[1]) = {}
    BY <1>2, Zenon DEF WritesOf
  <2>3. ~Stops(frame.todo[1])
    BY <1>2 DEF Stops
  <2> QED
    BY <1>1, <1>3, <2>1, <2>2, <2>3, GoOnRight
<1>4. CASE lex_tok # Argument
  BY <1>1, <1>2, <1>4, ZL1Right
<1> QED
  BY <1>3, <1>4

LEMMA DoCheckRight == ASSUME StackRight, DoCheck PROVE StackRight'
<1>1. /\ At("check") /\ UNCHANGED text
      /\ IF lex_tok # "ERROR"
         THEN GoOn /\ UNCHANGED <<lex_tok, errors, outcome>>
         ELSE ZL1(<<>>)
  BY DEF DoCheck, LexerUnchanged
<1>2. frame.todo[1].op = "check" /\ stack # <<>>
  BY <1>1, Current
<1>3. CASE lex_tok # "ERROR"
  <2>1. WritesOf(frame.todo[1]) = {}
    BY <1>2, Zenon DEF WritesOf
  <2>2. ~Stops(frame.todo[1])
    BY <1>2 DEF Stops
  <2> QED
    BY <1>1, <1>3, <2>1, <2>2, GoOnRight
<1>4. CASE lex_tok = "ERROR"
  BY <1>1, <1>2, <1>4, ZL1Right
<1> QED
  BY <1>3, <1>4

LEMMA DoFailRight == ASSUME StackRight, DoFail PROVE StackRight'
<1>1. At("fail") /\ UNCHANGED text /\ ZL1(<<>>)
  BY DEF DoFail, LexerUnchanged
<1> QED
  BY <1>1, Current, ZL1Right

\* Calls.
LEMMA DoCallRight == ASSUME StackRight, DoCall PROVE StackRight'
<1> DEFINE item == frame.todo[1]
           f    == item.arg[1]
           in   == [x \in item.arg[2] \intersect DOMAIN frame.loc |-> frame.loc[x]]
           out  == item.arg[3]
           c    == [prod |-> frame.prod, todo |-> Tail(frame.todo), loc |-> frame.loc,
                    out |-> frame.out]
           new  == Frame(f, lex_tok, in, out)
<1>1. /\ stack # <<>> /\ frame = stack[1] /\ frame.todo # <<>> /\ item.op = "call"
      /\ Argument = item.arg
      /\ StackOf(dialect, stack, lex_tok) /\ IsACall(dialect, frame)
      /\ Innermost(dialect, frame, lex_tok)
      /\ Allowed(dialect, item, Gives(dialect, frame))
      /\ lex_tok # "ERROR" => ReadsOf(item) \subseteq DOMAIN frame.loc
  <2>1. At("call")
    BY DEF DoCall
  <2> QED
    BY <2>1, Current
<1>2. [frame EXCEPT !.todo = Tail(@)] = c
  BY <1>1, ChangedCall
<1>3. stack' = <<new, c>> \o Tail(stack) /\ UNCHANGED <<text, lex_tok>>
  BY <1>1, <1>2 DEF DoCall, Local, LexerUnchanged
<1>4. CallAllowed(dialect, f, item.arg[2], out)
  BY <1>1 DEF Allowed
<1>5. dialect \in Dialects
  BY DEF StackRight
<1>6. DOMAIN in = item.arg[2] \intersect DOMAIN frame.loc
  OBVIOUS
<1>7. ReadsOf(item) = item.arg[2]
  BY <1>1 DEF ReadsOf
<1> HIDE DEF in, c, new
<1>8. IsACall(dialect, c) /\ c.out = stack[1].out /\ c.todo = Tail(frame.todo)
      /\ c.loc = frame.loc /\ Gives(dialect, c) = Gives(dialect, frame)
  BY <1>1 DEF IsACall, Gives, c
<1>9. Waiting(dialect, c.todo, DOMAIN c.loc, out, Gives(dialect, c), lex_tok)
  BY <1>1, <1>8, ReadyCall DEF Innermost
<1>10. new.out = out
  BY DEF new, Frame
<1>11. Beneath(dialect, c, new.out, lex_tok)
  BY <1>8, <1>9, <1>10 DEF Beneath
<1>12. Innermost(dialect, new, lex_tok)
  <2>1. CASE lex_tok # "ERROR"
    <3>1. Takes(dialect, f) \subseteq DOMAIN in /\ f \in Procs(dialect)
          /\ (out # NoLocal => Yields(dialect, f) # NoLocal)
      BY <1>1, <1>4, <1>6, <1>7, <2>1 DEF CallAllowed
    <3> QED
      BY <1>5, <3>1, ACallIsReady DEF new
  <2>2. CASE lex_tok = "ERROR"
    <3>1. /\ new = [prod |-> f, todo |-> <<>>, loc |-> in, out |-> out]
          /\ new.prod = f /\ new.todo = <<>> /\ new.out = out
      BY <2>2 DEF new, Frame
    <3>2. IsACall(dialect, new)
      BY <1>4, <3>1 DEF IsACall, CallAllowed
    <3> QED
      BY <2>2, <3>1, <3>2, NothingUnwinds DEF Innermost, Ready
  <2> QED
    BY <2>1, <2>2
<1>13. StackOf(dialect, <<new, c>> \o Tail(stack), lex_tok)
  BY <1>1, <1>8, <1>11, <1>12, StackCall
<1> QED
  BY <1>3, <1>5, <1>13, StackRightNext

LEMMA DoGotoRight == ASSUME StackRight, DoGoto PROVE StackRight'
<1> DEFINE new == Frame(frame.todo[1].arg, lex_tok, frame.loc, frame.out)
           f   == frame.todo[1].arg
<1>1. /\ stack # <<>> /\ frame = stack[1] /\ frame.todo # <<>> /\ frame.todo[1].op = "goto"
      /\ Argument = frame.todo[1].arg
      /\ StackOf(dialect, stack, lex_tok) /\ IsACall(dialect, frame)
      /\ Allowed(dialect, frame.todo[1], Gives(dialect, frame))
  <2>1. At("goto")
    BY DEF DoGoto
  <2> QED
    BY <2>1, Current
<1>2. stack' = <<new>> \o Tail(stack) /\ UNCHANGED <<text, lex_tok>>
  BY <1>1 DEF DoGoto, GoOnWith, LexerUnchanged
<1>3. GotoAllowed(dialect, f, Gives(dialect, frame)) /\ dialect \in Dialects
  BY <1>1 DEF Allowed, StackRight
<1>4. /\ f \in Procs(dialect) /\ Takes(dialect, f) \subseteq DOMAIN frame.loc
      /\ frame.out # NoLocal => Yields(dialect, f) # NoLocal
  BY <1>1, <1>3 DEF GotoAllowed, IsACall, Gives
<1>5. Innermost(dialect, new, lex_tok) /\ new.out = stack[1].out
  <2>1. Innermost(dialect, new, lex_tok)
    BY <1>3, <1>4, ACallIsReady
  <2>2. new.out = frame.out
    BY DEF Frame
  <2> QED
    BY <1>1, <2>1, <2>2
<1> HIDE DEF new
<1> QED
  BY <1>1, <1>2, <1>3, <1>5, StackPut, StackRightNext

LEMMA DoInlineRight == ASSUME StackRight, DoInline PROVE StackRight'
<1> DEFINE item == frame.todo[1]
           line == Production(item.arg, lex_tok) \o Tail(frame.todo)
           c    == [prod |-> frame.prod, todo |-> line, loc |-> frame.loc, out |-> frame.out]
<1>1. /\ stack # <<>> /\ frame = stack[1] /\ frame.todo # <<>> /\ item.op = "inline"
      /\ Argument = item.arg
      /\ StackOf(dialect, stack, lex_tok) /\ IsACall(dialect, frame)
      /\ Innermost(dialect, frame, lex_tok)
      /\ Allowed(dialect, item, Gives(dialect, frame))
  <2>1. At("inline")
    BY DEF DoInline
  <2> QED
    BY <2>1, Current
<1>2. [frame EXCEPT !.todo = Production(Argument, lex_tok) \o Tail(@)] = c
  BY <1>1, ChangedCall
<1>3. stack' = <<c>> \o Tail(stack) /\ UNCHANGED <<text, lex_tok>>
  BY <1>2 DEF DoInline, GoOnWith, LexerUnchanged
<1>4. dialect \in Dialects /\ item.arg \in Inlined(dialect)
  BY <1>1 DEF Allowed, StackRight
<1>5. Ready(dialect, line, DOMAIN frame.loc, Gives(dialect, frame), lex_tok)
  <2>1. Ready(dialect, frame.todo, DOMAIN frame.loc, Gives(dialect, frame), lex_tok)
    BY <1>1 DEF Innermost
  <2>2. CASE lex_tok = "ERROR"
    <3>1. LooksFirst(dialect, Production(item.arg, lex_tok))
      BY <1>4, <2>2, Inlines
    <3>2. Unwinding(dialect, frame.todo, DOMAIN frame.loc, Gives(dialect, frame))
      BY <2>1, <2>2 DEF Ready
    <3>3. Unwinding(dialect, line, DOMAIN frame.loc, Gives(dialect, frame))
      BY <1>1, <3>1, <3>2, InliningAtError
    <3> QED
      BY <2>2, <3>3 DEF Ready
  <2>3. CASE lex_tok # "ERROR"
    <3>1. InlineLine(dialect, Production(item.arg, lex_tok), item.arg)
      BY <1>4, <2>3, Inlines
    <3>2. Line(dialect, frame.todo, DOMAIN frame.loc, Gives(dialect, frame))
      BY <2>1, <2>3 DEF Ready
    <3>3. Line(dialect, line, DOMAIN frame.loc, Gives(dialect, frame))
      BY <1>1, <3>1, <3>2, Inlining
    <3> QED
      BY <2>3, <3>3 DEF Ready
  <2> QED
    BY <2>2, <2>3
<1> HIDE DEF line
<1>6. IsACall(dialect, c) /\ c.out = stack[1].out /\ c.todo = line /\ c.loc = frame.loc
      /\ Gives(dialect, c) = Gives(dialect, frame)
  BY <1>1 DEF IsACall, Gives
<1>7. Innermost(dialect, c, lex_tok)
  BY <1>5, <1>6 DEF Innermost
<1> HIDE DEF c
<1> QED
  BY <1>1, <1>3, <1>4, <1>6, <1>7, StackPut, StackRightNext

\* The end of a function.
LEMMA ReturnRight == ASSUME StackRight, Return PROVE StackRight'
<1>1. /\ stack # <<>> /\ frame = stack[1] /\ frame.todo = <<>>
      /\ StackOf(dialect, stack, lex_tok) /\ dialect \in Dialects
      /\ UNCHANGED <<text, lex_tok>>
  BY DEF Return, StackRight, frame, LexerUnchanged
<1>2. CASE UNCHANGED stack
  BY <1>1, <1>2, Again
<1>3. CASE Len(stack) # 1
  <2> DEFINE x   == Result(frame.prod)
             loc == Over([y \in {frame.out} |-> Local(x)], stack[2].loc)
             f   == IF IsSet({x}) THEN [stack[2] EXCEPT !.loc = loc] ELSE stack[2]
  <2>1. Len(stack) >= 2
    <3>1. Len(stack) \in Nat /\ Len(stack) >= 1
      BY <1>1, OfASequence DEF StackOf
    <3> QED
      BY <1>3, <3>1
  <2>2. IsACall(dialect, stack[2])
    <3>1. 2 \in 2..Len(stack)
      BY <1>1, <2>1, OfASequence DEF StackOf
    <3>2. Beneath(dialect, stack[2], stack[2 - 1].out, lex_tok)
      BY <1>1, <3>1 DEF StackOf
    <3> QED
      BY <3>2 DEF Beneath
  <2>3. stack' = <<f>> \o SubSeq(stack, 3, Len(stack))
    BY <1>3 DEF Return
  <2>4. x = Gives(dialect, stack[1])
    BY <1>1, Results DEF Gives
  <2>5. DOMAIN loc = {stack[1].out} \union DOMAIN stack[2].loc
    BY <1>1 DEF Over
  <2> HIDE DEF loc, x
  <2>6. CASE IsSet({x})
    <3>1. f = [prod |-> stack[2].prod, todo |-> stack[2].todo, loc |-> loc, out |-> stack[2].out]
      BY <2>2, <2>6, ChangedCall
    <3> HIDE DEF f
    <3>2. /\ IsACall(dialect, f) /\ f.out = stack[2].out /\ f.prod = stack[2].prod
          /\ f.todo = stack[2].todo /\ f.loc = loc
      BY <2>2, <3>1 DEF IsACall
    <3>3. StackOf(dialect, <<f>> \o SubSeq(stack, 3, Len(stack)), lex_tok)
      BY <1>1, <2>1, <2>5, <3>2, StackReturn
    <3> QED
      BY <1>1, <2>3, <3>3, StackRightNext
  <2>7. CASE ~IsSet({x})
    <3>1. f = stack[2]
      BY <2>7
    <3>2. Gives(dialect, stack[1]) \notin DOMAIN stack[1].loc
      BY <1>1, <2>4, <2>7 DEF IsSet
    <3> HIDE DEF f
    <3>3. StackOf(dialect, <<f>> \o SubSeq(stack, 3, Len(stack)), lex_tok)
      BY <1>1, <2>1, <2>2, <3>1, <3>2, StackReturn
    <3> QED
      BY <1>1, <2>3, <3>3, StackRightNext
  <2> QED
    BY <2>6, <2>7
<1> QED
  BY <1>2, <1>3 DEF Return

\* Where the program stops at an assertion, or writes past the buffer.
LEMMA StopRight ==
  ASSUME StackRight, NEW o, Stop(o), UNCHANGED text
  PROVE  StackRight'
BY Again DEF Stop

\* The value of a terminal is written to a local.
LEMMA ExtractedRight ==
  ASSUME StackRight, At("extract"), UNCHANGED <<text, lex_tok>>, NEW value, Extracted(value)
  PROVE  StackRight'
<1> DEFINE xs == [x \in {Argument[2]} |-> value]
<1>1. GoOnWriting(xs)
  BY DEF Extracted
<1>2. frame.todo[1].op = "extract" /\ Argument = frame.todo[1].arg
  BY Current
<1>3. WritesOf(frame.todo[1]) = {frame.todo[1].arg[2]}
  BY <1>2 DEF WritesOf
<1>4. WritesOf(frame.todo[1]) \subseteq DOMAIN xs
  BY <1>2, <1>3
<1>5. ~Looks(frame.todo[1]) /\ ~Stops(frame.todo[1])
  BY <1>2 DEF Looks, Stops
<1> HIDE DEF xs
<1> QED
  BY <1>1, <1>4, <1>5, GoOnWritingRight

LEMMA ExtractCharRight == ASSUME StackRight, ExtractChar PROVE StackRight'
<1>1. /\ At("extract") /\ UNCHANGED text
      /\ IF strlen(buf) = 1
         THEN Extracted(buf[1]) /\ UNCHANGED <<lex_tok, p, invisible, errors, outcome>>
         ELSE Stop("assert")
  BY DEF ExtractChar, Extracting, LexerUnchanged
<1>2. CASE strlen(buf) = 1
  BY <1>1, <1>2, ExtractedRight
<1>3. CASE strlen(buf) # 1
  BY <1>1, <1>3, StopRight
<1> QED
  BY <1>2, <1>3

LEMMA ExtractIdentRight == ASSUME StackRight, ExtractIdent PROVE StackRight'
<1>1. At("extract") /\ UNCHANGED <<text, lex_tok>> /\ Extracted(rtrim(buf))
  BY DEF ExtractIdent, Extracting, LexerUnchanged
<1> QED
  BY <1>1, ExtractedRight

LEMMA ExtractCountRight == ASSUME StackRight, ExtractCount PROVE StackRight'
<1>1. At("extract") /\ UNCHANGED <<text, lex_tok>> /\ Extracted(buf[1] % 2^CountWidth)
  BY DEF ExtractCount, Extracting, LexerUnchanged
<1> QED
  BY <1>1, ExtractedRight

LEMMA ExtractPatternRight == ASSUME StackRight, ExtractPattern PROVE StackRight'
<1>1. /\ At("extract") /\ UNCHANGED text
      /\ \/ Extracted(p) /\ UNCHANGED lex_tok
         \/ Stop("overrun")
  BY DEF ExtractPattern, Extracting, LexerUnchanged
<1> QED
  BY <1>1, ExtractedRight, StopRight

LEMMA ExtractNumbersRight == ASSUME StackRight, ExtractNumbers PROVE StackRight'
<1>1. /\ At("extract") /\ UNCHANGED text
      /\ \/ Extracted(buf) /\ UNCHANGED lex_tok
         \/ ZL1(<<"out of range">>)
  BY DEF ExtractNumbers, Extracting, LexerUnchanged
<1>2. stack # <<>>
  BY <1>1, Current
<1> QED
  BY <1>1, <1>2, ExtractedRight, ZL1Right

\* What an action other than current-rules does to the terminal, and to the
\* call: it leaves both alone.
LEMMA ActFirst ==
  ASSUME StackRight, At("act"), Argument # "current-rules"
  PROVE  /\ ~Looks(frame.todo[1]) /\ ~Stops(frame.todo[1])
         /\ WritesOf(frame.todo[1]) = ActWrites(Argument)
<1>1. frame.todo[1].op = "act" /\ Argument = frame.todo[1].arg
  BY Current
<1>2. ~Looks(frame.todo[1]) /\ ~Stops(frame.todo[1])
  BY <1>1 DEF Looks, Stops
<1>3. WritesOf(frame.todo[1]) = ActWrites(Argument)
  BY <1>1 DEF WritesOf
<1> QED
  BY <1>2, <1>3

\* An action that writes xs and goes on.
LEMMA ActWritingRight ==
  ASSUME StackRight, At("act"), Argument # "current-rules", UNCHANGED <<text, lex_tok>>,
         NEW xs, GoOnWriting(xs), ActWrites(Argument) \subseteq DOMAIN xs
  PROVE  StackRight'
BY ActFirst, GoOnWritingRight

\* An action that writes no local.
LEMMA ActGoOnRight ==
  ASSUME StackRight, At("act"), Argument # "current-rules", UNCHANGED <<text, lex_tok>>,
         GoOn, ActWrites(Argument) = {}
  PROVE  StackRight'
BY ActFirst, GoOnRight

LEMMA WrittenIsWhatItWrites ==
  ASSUME NEW a \in Writers
  PROVE  DOMAIN Written(a) = ActWrites(a)
<1>1. CASE a = "rep-zero-or-more"
  BY <1>1, ActFacts DEF Written
<1>13. CASE a = "rep-zero-min"
  BY <1>13, ActFacts DEF Written
<1>2. CASE a = "rep-zero-or-one"
  BY <1>2, ActFacts DEF Written
<1>3. CASE a = "make-empty-term"
  BY <1>3, ActFacts DEF Written
<1>4. CASE a = "make-rule-term"
  BY <1>4, ActFacts DEF Written
<1>5. CASE a = "make-ci-literal-term"
  BY <1>5, ActFacts DEF Written
<1>6. CASE a = "make-cs-literal-term"
  BY <1>6, ActFacts DEF Written
<1>7. CASE a = "make-range-term"
  BY <1>7, ActFacts DEF Written
<1>8. CASE a = "make-group-term"
  BY <1>8, ActFacts DEF Written
<1>9. CASE a = "make-alt"
  BY <1>9, ActFacts DEF Written
<1>10. CASE a = "make-rule"
  BY <1>10, ActFacts DEF Written
<1>11. CASE a = "add-term-to-list"
  BY <1>11, ActFacts DEF Written
<1>12. CASE a = "add-alt-to-list"
  BY <1>12, ActFacts DEF Written
<1> QED
  BY <1>1, <1>2, <1>3, <1>4, <1>5, <1>6, <1>7, <1>8, <1>9, <1>10, <1>11, <1>12, <1>13 DEF Writers

LEMMA DoWriteRight == ASSUME StackRight, DoWrite PROVE StackRight'
<1>1. /\ At("act") /\ Argument \in Writers /\ UNCHANGED <<text, lex_tok>>
      /\ GoOnWriting(Written(Argument))
  BY DEF DoWrite, Acting, LexerUnchanged
<1>2. Argument # "current-rules"
  BY <1>1 DEF Writers
<1>3. DOMAIN Written(Argument) = ActWrites(Argument)
  BY <1>1, WrittenIsWhatItWrites
<1> QED
  BY <1>1, <1>2, <1>3, ActWritingRight

LEMMA PatternCharRight == ASSUME StackRight, PatternChar PROVE StackRight'
<1>1. /\ At("act") /\ Argument = "pattern-char" /\ UNCHANGED text
      /\ \/ GoOn /\ UNCHANGED lex_tok
         \/ Stop("overrun")
  BY DEF PatternChar, Acting, LexerUnchanged
<1>2. ActWrites(Argument) = {}
  BY <1>1, ActFacts
<1> QED
  BY <1>1, <1>2, ActGoOnRight, StopRight

\* What writes the local t.
LEMMA WritingTermRight ==
  ASSUME StackRight, At("act"), UNCHANGED <<text, lex_tok>>, NEW v, GoOnWriting([t |-> v]),
         Argument \in {"set-repeat", "set-repeat-exactly", "mul-repeat", "make-prose-term"}
  PROVE  StackRight'
<1>1. ActWrites(Argument) \subseteq DOMAIN [t |-> v]
  BY ActFacts
<1> QED
  BY <1>1, ActWritingRight

LEMMA SetRepeatRight == ASSUME StackRight, SetRepeat PROVE StackRight'
<1>1. /\ At("act") /\ Argument \in {"set-repeat", "set-repeat-exactly"} /\ UNCHANGED text
      /\ \/ UNCHANGED lex_tok /\ \E v : GoOnWriting([t |-> v])
         \/ Stop("assert")
  BY DEF SetRepeat, Acting, LexerUnchanged
<1> QED
  BY <1>1, WritingTermRight, StopRight

LEMMA MulRepeatRight == ASSUME StackRight, MulRepeat PROVE StackRight'
<1>1. /\ At("act") /\ Argument = "mul-repeat" /\ UNCHANGED text
      /\ \/ UNCHANGED lex_tok /\ \E v : GoOnWriting([t |-> v])
         \/ Stop("assert")
  BY DEF MulRepeat, Acting, LexerUnchanged
<1> QED
  BY <1>1, WritingTermRight, StopRight

LEMMA MakeProseTermRight == ASSUME StackRight, MakeProseTerm PROVE StackRight'
<1>1. /\ At("act") /\ Argument = "make-prose-term" /\ UNCHANGED text
      /\ \/ UNCHANGED lex_tok /\ \E v : GoOnWriting([t |-> v])
         \/ Stop("assert")
  BY DEF MakeProseTerm, Acting, LexerUnchanged
<1> QED
  BY <1>1, WritingTermRight, StopRight

\* The rule may exist already: its function returns with the list it has.
LEMMA AddRuleToListRight == ASSUME StackRight, AddRuleToList PROVE StackRight'
<1>1. /\ At("act") /\ Argument = "add-rule-to-list" /\ UNCHANGED <<text, lex_tok>>
      /\ \/ GoOnWith([frame EXCEPT !.todo = <<>>])
         \/ \E v : GoOnWriting([l |-> v])
  BY DEF AddRuleToList, Acting, LexerUnchanged
<1>2. CASE GoOnWith([frame EXCEPT !.todo = <<>>])
  <2> DEFINE c == [prod |-> frame.prod, todo |-> <<>>, loc |-> frame.loc, out |-> frame.out]
  <2>1. /\ stack # <<>> /\ frame = stack[1] /\ frame.todo[1].op = "act"
        /\ Argument = frame.todo[1].arg
        /\ StackOf(dialect, stack, lex_tok) /\ IsACall(dialect, frame)
        /\ Allowed(dialect, frame.todo[1], Gives(dialect, frame))
        /\ Reads(Argument) \subseteq DOMAIN frame.loc
    BY <1>1, Current
  <2>2. [frame EXCEPT !.todo = <<>>] = c
    BY <2>1, ChangedCall
  <2>3. stack' = <<c>> \o Tail(stack)
    BY <1>2, <2>2 DEF GoOnWith
  <2>4. Gives(dialect, frame) = "l"
    BY <1>1, <2>1 DEF Allowed
  <2>5. "l" \in DOMAIN frame.loc
    BY <1>1, <2>1, ActFacts
  <2> HIDE DEF c
  <2>6. IsACall(dialect, c) /\ c.out = stack[1].out /\ c.todo = <<>> /\ c.loc = frame.loc
        /\ Gives(dialect, c) = Gives(dialect, frame)
    BY <2>1 DEF IsACall, Gives, c
  <2>7. Ready(dialect, c.todo, DOMAIN c.loc, Gives(dialect, c), lex_tok)
    <3>1. Unwinding(dialect, <<>>, DOMAIN frame.loc, "l")
      BY NothingUnwinds
    <3>2. Line(dialect, <<>>, DOMAIN frame.loc, "l")
      BY <2>5, NoLine
    <3> QED
      BY <2>4, <2>6, <3>1, <3>2 DEF Ready
  <2>8. Innermost(dialect, c, lex_tok)
    BY <2>6, <2>7 DEF Innermost
  <2>9. StackOf(dialect, <<c>> \o Tail(stack), lex_tok)
    BY <2>1, <2>6, <2>8, StackPut
  <2> QED
    BY <1>1, <2>3, <2>9, StackRightNext DEF StackRight
<1>3. CASE \E v : GoOnWriting([l |-> v])
  <2>1. PICK v : GoOnWriting([l |-> v])
    BY <1>3
  <2>2. ActWrites(Argument) \subseteq DOMAIN [l |-> v]
    BY <1>1, ActFacts
  <2> QED
    BY <1>1, <2>1, <2>2, ActWritingRight
<1> QED
  BY <1>1, <1>2, <1>3

LEMMA CurrentRulesRight == ASSUME StackRight, CurrentRules PROVE StackRight'
<1>1. At("act") /\ UNCHANGED text /\ ZL1(<<"unimplemented">>)
  BY DEF CurrentRules, Acting, LexerUnchanged
<1> QED
  BY <1>1, Current, ZL1Right

LEMMA ErrUnimplementedExceptRight == ASSUME StackRight, ErrUnimplementedExcept PROVE StackRight'
<1>1. /\ At("act") /\ Argument = "err-unimplemented-except" /\ UNCHANGED <<text, lex_tok>> /\ GoOn
  BY DEF ErrUnimplementedExcept, Acting, LexerUnchanged
<1>2. ActWrites(Argument) = {}
  BY <1>1, ActFacts
<1> QED
  BY <1>1, <1>2, ActGoOnRight
-----------------------------------------------------------------------------
LEMMA StackRightInit == Init => StackRight
<1> SUFFICES ASSUME Init PROVE StackRight
  OBVIOUS
<1>1. dialect \in Dialects
  BY SidParserAssumption DEF Init, dialect
<1>2. IsASequence(<<>>) /\ \A i \in 2..Len(<<>>) : FALSE
  BY DEF IsASequence
<1>3. StackOf(dialect, <<>>, lex_tok)
  BY <1>2 DEF StackOf
<1>4. stack = <<>>
  BY DEF Init
<1> QED
  BY <1>1, <1>3, <1>4 DEF StackRight

LEMMA StackRightStep == StackRight /\ [Next]_vars => StackRight'
<1> SUFFICES ASSUME StackRight, [Next]_vars PROVE StackRight'
  OBVIOUS
<1>1. CASE UNCHANGED vars
  BY <1>1, Again DEF vars
<1>2. CASE FormInput
  BY <1>2, FormInputRight
<1>3. CASE DoAdvance
  BY <1>3, DoAdvanceRight
<1>4. CASE DoExpect
  BY <1>4, DoExpectRight
<1>5. CASE DoCheck
  BY <1>5, DoCheckRight
<1>6. CASE DoFail
  BY <1>6, DoFailRight
<1>7. CASE DoCall
  BY <1>7, DoCallRight
<1>8. CASE DoGoto
  BY <1>8, DoGotoRight
<1>9. CASE DoInline
  BY <1>9, DoInlineRight
<1>10. CASE Return
  BY <1>10, ReturnRight
<1>11. CASE TakeOneOf
  BY <1>11, TakeOneOfRight
<1>12. CASE ErrExpected
  BY <1>12, ErrExpectedRight
<1>13. CASE ExtractChar
  BY <1>13, ExtractCharRight
<1>14. CASE ExtractIdent
  BY <1>14, ExtractIdentRight
<1>15. CASE ExtractCount
  BY <1>15, ExtractCountRight
<1>16. CASE ExtractPattern
  BY <1>16, ExtractPatternRight
<1>17. CASE ExtractNumbers
  BY <1>17, ExtractNumbersRight
<1>18. CASE DoWrite
  BY <1>18, DoWriteRight
<1>19. CASE PatternChar
  BY <1>19, PatternCharRight
<1>20. CASE SetRepeat
  BY <1>20, SetRepeatRight
<1>21. CASE MulRepeat
  BY <1>21, MulRepeatRight
<1>22. CASE MakeProseTerm
  BY <1>22, MakeProseTermRight
<1>23. CASE AddRuleToList
  BY <1>23, AddRuleToListRight
<1>24. CASE CurrentRules
  BY <1>24, CurrentRulesRight
<1>25. CASE ErrUnimplementedExcept
  BY <1>25, ErrUnimplementedExceptRight
<1>26. CASE Done
  BY <1>26, Again DEF Done, vars
<1> QED
  BY <1>1, <1>2, <1>3, <1>4, <1>5, <1>6, <1>7, <1>8, <1>9, <1>10, <1>11, <1>12, <1>13,
     <1>14, <1>15, <1>16, <1>17, <1>18, <1>19, <1>20, <1>21, <1>22, <1>23, <1>24, <1>25,
     <1>26 DEF Next

\* Every call of a production's function stands in a line of its production that
\* it can come to, and one that waits for another can go on whether it comes
\* back with a result or with ERROR.
THEOREM StackIsRight == Spec => []StackRight
BY StackRightInit, StackRightStep, PTL DEF Spec

\* No action uses a local variable that has not been written, in any dialect,
\* on any text, whatever fails: the generated parsers read no uninitialised
\* local.
THEOREM LocalsAreWritten == Spec => []LocalsWritten
<1>1. StackRight => LocalsWritten
  BY Current DEF LocalsWritten
<1> QED
  BY <1>1, StackIsRight, PTL

(***************************************************************************)
(* Errors.                                                                 *)
(***************************************************************************)
\* A step that is not FormInput, an advance, or the taking of one of several.
LEMMA NothingRead ==
  ASSUME lex_tok = "ERROR", UNCHANGED input,
         \/ UNCHANGED lex_tok
         \/ \E o : Stop(o)
         \/ \E es : ZL1(es)
  PROVE  lex_tok' = "ERROR" /\ UNCHANGED input
BY DEF Stop, ZL1

LEMMA ErrorUnwindsStep ==
  ASSUME StackRight, Next, lex_tok = "ERROR", Running
  PROVE  lex_tok' = "ERROR" /\ UNCHANGED input
<1>1. CASE FormInput
  BY <1>1 DEF FormInput, Running
<1>2. CASE DoAdvance
  <2>1. At("advance")
    BY <1>2 DEF DoAdvance
  <2> QED
    BY <2>1, Current
<1>3. CASE TakeOneOf
  <2>1. At("else") /\ "ERROR" \in Argument
    BY <1>3 DEF TakeOneOf
  <2> QED
    BY <2>1, ErrorIsNotTaken
<1>4. CASE DoExpect \/ DoCheck \/ DoFail
  <2>1. UNCHANGED input /\ (UNCHANGED lex_tok \/ ZL1(<<>>))
    BY <1>4 DEF DoExpect, DoCheck, DoFail, LexerUnchanged
  <2> QED
    BY <2>1, NothingRead
<1>5. CASE DoCall \/ DoGoto \/ DoInline \/ Return
  BY <1>5 DEF DoCall, DoGoto, DoInline, Return, LexerUnchanged
<1>6. CASE ErrExpected
  BY <1>6 DEF ErrExpected, LexerUnchanged
<1>7. CASE ExtractChar
  <2>1. UNCHANGED input /\ (UNCHANGED lex_tok \/ Stop("assert"))
    BY <1>7 DEF ExtractChar, LexerUnchanged
  <2> QED
    BY <2>1, NothingRead
<1>8. CASE ExtractIdent \/ ExtractCount
  BY <1>8 DEF ExtractIdent, ExtractCount, LexerUnchanged
<1>9. CASE ExtractPattern
  <2>1. UNCHANGED input /\ (UNCHANGED lex_tok \/ Stop("overrun"))
    BY <1>9 DEF ExtractPattern, LexerUnchanged
  <2> QED
    BY <2>1, NothingRead
<1>10. CASE ExtractNumbers
  <2>1. UNCHANGED input /\ (UNCHANGED lex_tok \/ ZL1(<<"out of range">>))
    BY <1>10 DEF ExtractNumbers, LexerUnchanged
  <2> QED
    BY <2>1, NothingRead
<1>11. CASE DoWrite \/ AddRuleToList \/ ErrUnimplementedExcept
  BY <1>11 DEF DoWrite, AddRuleToList, ErrUnimplementedExcept, LexerUnchanged
<1>12. CASE PatternChar
  <2>1. UNCHANGED input /\ (UNCHANGED lex_tok \/ Stop("overrun"))
    BY <1>12 DEF PatternChar, LexerUnchanged
  <2> QED
    BY <2>1, NothingRead
<1>13. CASE SetRepeat
  <2>1. UNCHANGED input /\ (UNCHANGED lex_tok \/ Stop("assert"))
    BY <1>13 DEF SetRepeat, LexerUnchanged
  <2> QED
    BY <2>1, NothingRead
<1>14. CASE MulRepeat
  <2>1. UNCHANGED input /\ (UNCHANGED lex_tok \/ Stop("assert"))
    BY <1>14 DEF MulRepeat, LexerUnchanged
  <2> QED
    BY <2>1, NothingRead
<1>15. CASE MakeProseTerm
  <2>1. UNCHANGED input /\ (UNCHANGED lex_tok \/ Stop("assert"))
    BY <1>15 DEF MakeProseTerm, LexerUnchanged
  <2> QED
    BY <2>1, NothingRead
<1>16. CASE CurrentRules
  <2>1. UNCHANGED input /\ ZL1(<<"unimplemented">>)
    BY <1>16 DEF CurrentRules, LexerUnchanged
  <2> QED
    BY <2>1, NothingRead
<1>17. CASE Done
  BY <1>17 DEF Done, vars
<1> QED
  BY <1>1, <1>2, <1>3, <1>4, <1>5, <1>6, <1>7, <1>8, <1>9, <1>10, <1>11, <1>12, <1>13,
     <1>14, <1>15, <1>16, <1>17 DEF Next

\* Once the terminal is ERROR, a parser of any dialect reads no more and the
\* terminal stays ERROR, through every action and return on the way out.
THEOREM ErrorsUnwind == Spec => ErrorUnwinds
<1>1. StackRight /\ [Next]_vars
      => [lex_tok = "ERROR" /\ Running => lex_tok' = "ERROR" /\ UNCHANGED input]_vars
  BY ErrorUnwindsStep
<1> QED
  BY <1>1, StackIsRight, PTL DEF Spec, ErrorUnwinds

(***************************************************************************)
(* The kinds of the variables.                                             *)
(***************************************************************************)
\* The zones a lexer has.
ZonesOf(d) == CASE d \in {"wsn", "rbnf"}      -> {"z0", "z1", "end"}
                [] d = "bnf"                  -> {"z0", "z1", "z2", "z3", "end"}
                [] d \in {"iso-ebnf", "abnf"} -> {"z0", "z1", "z2", "z4", "end"}

LEMMA WsnZones ==
  /\ \A t \in wsn_z0 \union wsn_z1 \union Ends({"EOF"}) : t[2] \in {"z0", "z1", "end"}
BY DEF wsn_z0, wsn_z1, In, Ends

LEMMA BnfZones ==
  \A t \in bnf_z0 \union bnf_z1 \union bnf_z2 \union bnf_z3 \union Ends({"EOF"}) :
    t[2] \in {"z0", "z1", "z2", "z3", "end"}
BY DEF bnf_z0, bnf_z1, bnf_z2, bnf_z3, In, Ends

LEMMA RbnfZones ==
  \A t \in rbnf_z0 \union rbnf_z1 \union Ends({"EOF"}) : t[2] \in {"z0", "z1", "end"}
BY DEF rbnf_z0, rbnf_z1, In, Ends

LEMMA IsoZones ==
  \A t \in iso_z0 \union iso_z1 \union iso_z2 \union iso_z4 \union Ends({"EOF"}) :
    t[2] \in {"z0", "z1", "z2", "z4", "end"}
<1>1. \A t \in iso_z0 \union iso_z1 \union iso_z2 \union Ends({"EOF"}) :
        t[2] \in {"z0", "z1", "z2", "z4", "end"}
  BY DEF iso_z0, iso_z1, iso_z2, In, Ends
<1>2. \A t \in iso_z4 : t \in iso_z0 \union iso_z1 \union iso_z2 \/ t[2] \in {"z4", "end"}
  BY DEF iso_z4, In, Ends
<1> QED
  BY <1>1, <1>2

LEMMA AbnfZones ==
  \A t \in abnf_z0 \union abnf_z1 \union abnf_z2 \union abnf_z4 \union Ends({"EOF"}) :
    t[2] \in {"z0", "z1", "z2", "z4", "end"}
<1>1. \A t \in abnf_z0 \union abnf_z1 \union abnf_z2 \union Ends({"EOF"}) :
        t[2] \in {"z0", "z1", "z2", "z4", "end"}
  BY DEF abnf_z0, abnf_z1, abnf_z2, In, Ends
<1>2. \A t \in abnf_z4 : t \in abnf_z0 \union abnf_z1 \union abnf_z2 \/ t[2] \in {"z4", "end"}
  BY DEF abnf_z4, In, Ends
<1> QED
  BY <1>1, <1>2

\* A lexer goes on in a zone it has.
LEMMA NextZone ==
  ASSUME NEW d \in Dialects, NEW z \in ZonesOf(d), NEW t \in lx_next(d, z)
  PROVE  t[2] \in ZonesOf(d)
<1>1. CASE d = "wsn"
  <2>1. ZonesOf(d) = {"z0", "z1", "end"}
    BY <1>1 DEF ZonesOf
  <2>2. lx_next(d, z) \subseteq wsn_z0 \union wsn_z1 \union Ends({"EOF"})
    BY <1>1, <2>1 DEF lx_next
  <2> QED
    BY <2>1, <2>2, WsnZones
<1>2. CASE d = "bnf"
  <2>1. ZonesOf(d) = {"z0", "z1", "z2", "z3", "end"}
    BY <1>2 DEF ZonesOf
  <2>2. lx_next(d, z) \subseteq bnf_z0 \union bnf_z1 \union bnf_z2 \union bnf_z3 \union Ends({"EOF"})
    BY <1>2, <2>1 DEF lx_next
  <2> QED
    BY <2>1, <2>2, BnfZones
<1>3. CASE d = "rbnf"
  <2>1. ZonesOf(d) = {"z0", "z1", "end"}
    BY <1>3 DEF ZonesOf
  <2>2. lx_next(d, z) \subseteq rbnf_z0 \union rbnf_z1 \union Ends({"EOF"})
    BY <1>3, <2>1 DEF lx_next
  <2> QED
    BY <2>1, <2>2, RbnfZones
<1>4. CASE d = "iso-ebnf"
  <2>1. ZonesOf(d) = {"z0", "z1", "z2", "z4", "end"}
    BY <1>4 DEF ZonesOf
  <2>2. lx_next(d, z) \subseteq iso_z0 \union iso_z1 \union iso_z2 \union iso_z4 \union Ends({"EOF"})
    BY <1>4, <2>1 DEF lx_next
  <2> QED
    BY <2>1, <2>2, IsoZones
<1>5. CASE d = "abnf"
  <2>1. ZonesOf(d) = {"z0", "z1", "z2", "z4", "end"}
    BY <1>5 DEF ZonesOf
  <2>2. lx_next(d, z) \subseteq abnf_z0 \union abnf_z1 \union abnf_z2 \union abnf_z4 \union Ends({"EOF"})
    BY <1>5, <2>1 DEF lx_next
  <2> QED
    BY <2>1, <2>2, AbnfZones
<1> QED
  BY <1>1, <1>2, <1>3, <1>4, <1>5 DEF Dialects

\* The message of <err-syntax> is the last one.
EndsWithSyntax(es) == es # <<>> /\ es[Len(es)] = "syntax"

Kinds ==
  /\ dialect \in Dialects
  /\ zone \in ZonesOf(dialect)
  /\ invisible \in BOOLEAN
  /\ outcome \in {"parsing", "returned", "exited", "assert", "overrun"}
  /\ IsASequence(p) /\ Len(p) <= PatternSize
  /\ IsASequence(errors)
  /\ outcome = "exited" <=> EndsWithSyntax(errors)

LEMMA KindsGiveTypeOK == Kinds => TypeOK
<1> SUFFICES ASSUME Kinds PROVE TypeOK
  OBVIOUS
<1>1. zone \in {"z0", "z1", "z2", "z3", "z4", "end"}
  <2>1. dialect = "wsn" \/ dialect = "bnf" \/ dialect = "rbnf" \/ dialect = "iso-ebnf" \/ dialect = "abnf"
    BY DEF Kinds, Dialects
  <2>2. zone \in ZonesOf(dialect)
    BY DEF Kinds
  <2> QED
    BY <2>1, <2>2 DEF ZonesOf
<1>2. /\ dialect \in Dialects /\ invisible \in BOOLEAN
      /\ outcome \in {"parsing", "returned", "exited", "assert", "overrun"}
      /\ Len(p) <= PatternSize
  BY DEF Kinds
<1>3. outcome = "exited" <=> (errors # <<>> /\ errors[Len(errors)] = "syntax")
  BY DEF Kinds, EndsWithSyntax
<1> QED
  BY <1>1, <1>2, <1>3 DEF TypeOK

\* A message is put at the end of the queue.
LEMMA QueuedAtTheEnd ==
  ASSUME NEW es, IsASequence(es), NEW e
  PROVE  IsASequence(Append(es, e)) /\ (EndsWithSyntax(Append(es, e)) <=> e = "syntax")
<1> DEFINE S == {es[i] : i \in DOMAIN es}
<1>1. es \in Seq(S)
  BY DEF IsASequence
<1> HIDE DEF S
<1>2. /\ Append(es, e) \in Seq(S \union {e}) /\ Len(Append(es, e)) = Len(es) + 1
      /\ Append(es, e) # <<>> /\ Append(es, e)[Len(es) + 1] = e
  <2>1. es \in Seq(S \union {e}) /\ e \in S \union {e}
    BY <1>1, SeqMonotonic
  <2> QED
    BY <2>1, AppendProperties
<1>3. IsASequence(Append(es, e)) /\ Append(es, e) # <<>>
  BY <1>2, InSeqIsASequence
<1> QED
  BY <1>2, <1>3 DEF EndsWithSyntax

LEMMA NoneQueued ==
  ASSUME NEW es, IsASequence(es)
  PROVE  es \o <<>> = es
<1>1. PICK S : es \in Seq(S)
  BY DEF IsASequence
<1> QED
  BY <1>1, ConcatEmptySeq

LEMMA OneQueued ==
  ASSUME NEW es, IsASequence(es), NEW e
  PROVE  es \o <<e>> = Append(es, e)
<1>1. PICK S : es \in Seq(S)
  BY DEF IsASequence
<1>2. es \in Seq(S \union {e}) /\ e \in S \union {e}
  BY <1>1, SeqMonotonic
<1> QED
  BY <1>2, AppendIsConcat

LEMMA KindsKept ==
  ASSUME Kinds, UNCHANGED <<text, zone, invisible, outcome, p, errors>>
  PROVE  Kinds'
BY DEF Kinds, dialect

\* A step of Kinds is one of each of its parts.
LEMMA KindsNext ==
  ASSUME Kinds, UNCHANGED text, zone' \in ZonesOf(dialect), invisible' \in BOOLEAN,
         outcome' \in {"parsing", "returned", "exited", "assert", "overrun"},
         IsASequence(p'), Len(p') <= PatternSize, IsASequence(errors'),
         outcome' = "exited" <=> EndsWithSyntax(errors')
  PROVE  Kinds'
BY DEF Kinds, dialect

LEMMA TakeKinds ==
  ASSUME Kinds, NEW l \in Lexed, Take(l), UNCHANGED <<text, invisible, outcome, p, errors>>
  PROVE  Kinds'
<1>1. l[2] \in ZonesOf(dialect)
  <2>1. zone \in ZonesOf(dialect) /\ dialect \in Dialects
    BY DEF Kinds
  <2>2. CASE l = <<text.tokens[Len(input) + 1], zone>>
    BY <2>1, <2>2
  <2>3. CASE \E next \in lx_next(dialect, zone) : l[2] = next[2]
    BY <2>1, <2>3, NextZone
  <2>4. l = <<text.tokens[Len(input) + 1], zone>> \/ \E next \in lx_next(dialect, zone) : l[2] = next[2]
    BY DEF Lexed
  <2> QED
    BY <2>2, <2>3, <2>4
<1>2. zone' \in ZonesOf(dialect)
  BY <1>1 DEF Take
<1> QED
  BY <1>2, KindsNext DEF Kinds

LEMMA StopKinds ==
  ASSUME Kinds, outcome = "parsing", NEW o \in {"assert", "overrun"}, Stop(o), UNCHANGED <<text, zone>>
  PROVE  Kinds'
<1>1. outcome' = o /\ UNCHANGED <<errors, p, invisible>>
  BY DEF Stop
<1>2. ~EndsWithSyntax(errors)
  BY DEF Kinds
<1> QED
  BY <1>1, <1>2, KindsNext DEF Kinds

LEMMA QueueKinds ==
  ASSUME Kinds, outcome = "parsing", NEW e, e # "syntax", errors' = Append(errors, e),
         UNCHANGED <<text, zone, invisible, outcome, p>>
  PROVE  Kinds'
<1>1. IsASequence(errors') /\ ~EndsWithSyntax(errors')
  BY QueuedAtTheEnd DEF Kinds
<1> QED
  BY <1>1, KindsNext DEF Kinds

LEMMA ZL1Kinds ==
  ASSUME Kinds, outcome = "parsing", NEW es, ZL1(es), UNCHANGED <<text, zone, p, invisible>>,
         es = <<>> \/ \E e : e # "syntax" /\ es = <<e>>
  PROVE  Kinds'
<1> DEFINE q == errors \o es
<1>1. IsASequence(errors) /\ ~EndsWithSyntax(errors)
  BY DEF Kinds
<1>2. IsASequence(q) /\ ~EndsWithSyntax(q)
  <2>1. CASE es = <<>>
    BY <1>1, <2>1, NoneQueued
  <2>2. ASSUME NEW e, e # "syntax", es = <<e>>
        PROVE  IsASequence(q) /\ ~EndsWithSyntax(q)
    <3>1. q = Append(errors, e)
      BY <1>1, <2>2, OneQueued
    <3> QED
      BY <1>1, <2>2, <3>1, QueuedAtTheEnd
  <2> QED
    BY <2>1, <2>2
<1> HIDE DEF q
<1>3. CASE errors' = q /\ UNCHANGED outcome
  BY <1>2, <1>3, KindsNext DEF Kinds
<1>4. CASE errors' = Append(q, "syntax") /\ outcome' = "exited"
  <2>1. IsASequence(errors') /\ EndsWithSyntax(errors')
    BY <1>2, <1>4, QueuedAtTheEnd
  <2> QED
    BY <1>4, <2>1, KindsNext DEF Kinds
<1> QED
  BY <1>3, <1>4 DEF ZL1, q

LEMMA KindsInit == Init => Kinds
<1> SUFFICES ASSUME Init PROVE Kinds
  OBVIOUS
<1>1. dialect \in Dialects
  BY SidParserAssumption DEF Init, dialect
<1>2. zone \in ZonesOf(dialect)
  <2>1. dialect = "wsn" \/ dialect = "bnf" \/ dialect = "rbnf" \/ dialect = "iso-ebnf" \/ dialect = "abnf"
    BY <1>1 DEF Dialects
  <2>2. zone = lx_init(dialect)
    BY DEF Init
  <2> QED
    BY <2>1, <2>2 DEF lx_init, ZonesOf
<1>3. invisible \in BOOLEAN /\ outcome = "parsing" /\ p = <<>> /\ errors = <<>>
  BY DEF Init
<1>4. IsASequence(<<>>) /\ Len(<<>>) <= PatternSize
  BY SidParserAssumption DEF IsASequence
<1> QED
  BY <1>1, <1>2, <1>3, <1>4 DEF Kinds, EndsWithSyntax

LEMMA KindsStep == Kinds /\ [Next]_vars => Kinds'
<1> SUFFICES ASSUME Kinds, [Next]_vars PROVE Kinds'
  OBVIOUS
<1>1. CASE UNCHANGED vars
  BY <1>1, KindsKept DEF vars
<1>2. CASE FormInput \/ DoAdvance \/ TakeOneOf
  <2>1. PICK l \in Lexed : Take(l)
    BY <1>2 DEF FormInput, DoAdvance, TakeOneOf, ADVANCE_LEXER
  <2>2. UNCHANGED <<text, invisible, outcome, p, errors>>
    BY <1>2 DEF FormInput, DoAdvance, TakeOneOf
  <2> QED
    BY <2>1, <2>2, TakeKinds
<1>3. CASE DoExpect
  <2>1. /\ outcome = "parsing" /\ UNCHANGED <<text, zone, p, invisible>>
        /\ UNCHANGED <<errors, outcome>> \/ ZL1(<<>>)
    BY <1>3 DEF DoExpect, At, LexerUnchanged
  <2> QED
    BY <2>1, KindsKept, ZL1Kinds
<1>4. CASE DoCheck
  <2>1. /\ outcome = "parsing" /\ UNCHANGED <<text, zone, p, invisible>>
        /\ UNCHANGED <<errors, outcome>> \/ ZL1(<<>>)
    BY <1>4 DEF DoCheck, At, LexerUnchanged
  <2> QED
    BY <2>1, KindsKept, ZL1Kinds
<1>5. CASE DoFail
  <2>1. outcome = "parsing" /\ UNCHANGED <<text, zone, p, invisible>> /\ ZL1(<<>>)
    BY <1>5 DEF DoFail, At, LexerUnchanged
  <2> QED
    BY <2>1, ZL1Kinds
<1>6. CASE DoCall \/ DoGoto \/ DoInline
  BY <1>6, KindsKept DEF DoCall, DoGoto, DoInline, LexerUnchanged
<1>7. CASE Return
  <2>1. /\ outcome = "parsing" /\ UNCHANGED <<text, zone, p, invisible, errors>>
        /\ outcome' = "returned" \/ UNCHANGED outcome
    BY <1>7 DEF Return, LexerUnchanged
  <2>2. ~EndsWithSyntax(errors)
    BY <2>1 DEF Kinds
  <2> QED
    BY <2>1, <2>2, KindsNext DEF Kinds
<1>8. CASE ErrExpected
  <2>1. /\ outcome = "parsing" /\ errors' = Append(errors, "expected")
        /\ UNCHANGED <<text, zone, invisible, outcome, p>>
    BY <1>8 DEF ErrExpected, At, LexerUnchanged
  <2> QED
    BY <2>1, QueueKinds
<1>9. CASE ExtractChar
  <2>1. /\ outcome = "parsing" /\ UNCHANGED <<text, zone>>
        /\ UNCHANGED <<p, invisible, errors, outcome>> \/ Stop("assert")
    BY <1>9 DEF ExtractChar, Extracting, At, LexerUnchanged
  <2> QED
    BY <2>1, KindsKept, StopKinds
<1>10. CASE ExtractIdent \/ ExtractCount
  BY <1>10, KindsKept DEF ExtractIdent, ExtractCount, LexerUnchanged
<1>11. CASE ExtractPattern
  <2>1. /\ outcome = "parsing" /\ UNCHANGED <<text, zone>>
        /\ \/ p' = <<>> /\ UNCHANGED <<invisible, errors, outcome>>
           \/ Stop("overrun")
    BY <1>11 DEF ExtractPattern, Extracting, At, LexerUnchanged
  <2>2. CASE p' = <<>> /\ UNCHANGED <<invisible, errors, outcome>>
    <3>1. IsASequence(p') /\ Len(p') <= PatternSize
      BY <2>2, SidParserAssumption DEF IsASequence
    <3> QED
      BY <2>1, <2>2, <3>1, KindsNext DEF Kinds
  <2> QED
    BY <2>1, <2>2, StopKinds
<1>12. CASE ExtractNumbers
  <2>1. /\ outcome = "parsing" /\ UNCHANGED <<text, zone, p, invisible>>
        /\ UNCHANGED <<errors, outcome>> \/ ZL1(<<"out of range">>)
    BY <1>12 DEF ExtractNumbers, Extracting, At, LexerUnchanged
  <2> QED
    BY <2>1, KindsKept, ZL1Kinds
<1>13. CASE DoWrite
  BY <1>13, KindsKept DEF DoWrite, LexerUnchanged
<1>14. CASE PatternChar
  <2>1. /\ outcome = "parsing" /\ UNCHANGED <<text, zone>>
        /\ \/ Len(p) < PatternSize /\ p' = Append(p, Local("c")) /\ UNCHANGED <<invisible, errors, outcome>>
           \/ Stop("overrun")
    BY <1>14 DEF PatternChar, Acting, At, LexerUnchanged
  <2>2. CASE Len(p) < PatternSize /\ p' = Append(p, Local("c")) /\ UNCHANGED <<invisible, errors, outcome>>
    <3>1. PICK S : p \in Seq(S)
      BY DEF Kinds, IsASequence
    <3>2. p \in Seq(S \union {Local("c")}) /\ Local("c") \in S \union {Local("c")} /\ Len(p) \in Nat
      BY <3>1, SeqMonotonic, LenProperties
    <3>3. p' \in Seq(S \union {Local("c")}) /\ Len(p') = Len(p) + 1
      BY <2>2, <3>2, AppendProperties
    <3>4. IsASequence(p')
      BY <3>3, InSeqIsASequence
    <3>5. PatternSize \in Nat
      BY SidParserAssumption
    <3>6. Len(p') <= PatternSize
      <4> DEFINE m == Len(p)
                 k == Len(p')
      <4>1. m \in Nat /\ m < PatternSize /\ k = m + 1
        BY <2>2, <3>2, <3>3
      <4> HIDE DEF m, k
      <4>2. k <= PatternSize
        BY <4>1, <3>5
      <4> QED
        BY <4>2 DEF k
    <3> QED
      BY <2>1, <2>2, <3>4, <3>6, KindsNext DEF Kinds
  <2> QED
    BY <2>1, <2>2, StopKinds
<1>15. CASE SetRepeat
  <2>1. /\ outcome = "parsing" /\ UNCHANGED <<text, zone>>
        /\ UNCHANGED <<p, invisible, errors, outcome>> \/ Stop("assert")
    BY <1>15 DEF SetRepeat, Acting, At, LexerUnchanged
  <2> QED
    BY <2>1, KindsKept, StopKinds
<1>16. CASE MulRepeat
  <2>1. /\ outcome = "parsing" /\ UNCHANGED <<text, zone>>
        /\ UNCHANGED <<p, invisible, errors, outcome>> \/ Stop("assert")
    BY <1>16 DEF MulRepeat, Acting, At, LexerUnchanged
  <2> QED
    BY <2>1, KindsKept, StopKinds
<1>17. CASE MakeProseTerm
  <2>1. /\ outcome = "parsing" /\ UNCHANGED <<text, zone>>
        /\ \/ /\ invisible' = TRUE \/ invisible' = FALSE \/ invisible' = invisible
              /\ UNCHANGED <<p, errors, outcome>>
           \/ Stop("assert")
    BY <1>17, Zenon DEF MakeProseTerm, Acting, At, LexerUnchanged
  <2>2. CASE /\ invisible' = TRUE \/ invisible' = FALSE \/ invisible' = invisible
             /\ UNCHANGED <<p, errors, outcome>>
    <3>1. invisible' \in BOOLEAN
      BY <2>2, Zenon DEF Kinds
    <3> QED
      BY <2>1, <2>2, <3>1, KindsNext DEF Kinds
  <2> QED
    BY <2>1, <2>2, StopKinds
<1>18. CASE AddRuleToList
  <2>1. /\ outcome = "parsing" /\ UNCHANGED <<text, zone, invisible, outcome, p>>
        /\ UNCHANGED errors \/ errors' = Append(errors, "exists")
    BY <1>18 DEF AddRuleToList, Acting, At, LexerUnchanged
  <2> QED
    BY <2>1, KindsKept, QueueKinds
<1>19. CASE CurrentRules
  <2>1. outcome = "parsing" /\ UNCHANGED <<text, zone, p, invisible>> /\ ZL1(<<"unimplemented">>)
    BY <1>19 DEF CurrentRules, Acting, At, LexerUnchanged
  <2> QED
    BY <2>1, ZL1Kinds
<1>20. CASE ErrUnimplementedExcept
  <2>1. /\ outcome = "parsing" /\ errors' = Append(errors, "except")
        /\ UNCHANGED <<text, zone, invisible, outcome, p>>
    BY <1>20 DEF ErrUnimplementedExcept, Acting, At, LexerUnchanged
  <2> QED
    BY <2>1, QueueKinds
<1>21. CASE Done
  BY <1>21, KindsKept DEF Done, vars
<1> QED
  BY <1>1, <1>2, <1>3, <1>4, <1>5, <1>6, <1>7, <1>8, <1>9, <1>10, <1>11, <1>12, <1>13,
     <1>14, <1>15, <1>16, <1>17, <1>18, <1>19, <1>20, <1>21 DEF Next

\* The kinds of the variables, on any text: the lexer is in a zone of its
\* dialect, the pattern buffer keeps within its size, and the program exits
\* exactly when the message of <err-syntax> is the last one queued.
THEOREM ParserTypesAreRight == Spec => []TypeOK
BY KindsInit, KindsStep, KindsGiveTypeOK, PTL DEF Spec
=============================================================================
