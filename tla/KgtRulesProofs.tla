--------------------------- MODULE KgtRulesProofs ----------------------------
(***************************************************************************)
(* What becomes of the rules that are read, for all grammars and command   *)
(* lines.  First the errors: they come in the order of the phases that     *)
(* find them.  Then the rules: which rule of the grammar stems from which  *)
(* rule that was written, what errors are queued for, and what a term has  *)
(* become in each phase.  From this follow the properties of the grammar   *)
(* that is output, and that a run does what Conversion promises.           *)
(***************************************************************************)
EXTENDS Kgt, FiniteSetTheorems, SequenceTheorems, TLAPS

\* The rules as they are made.
Made == [type : Types, name : STRING, letters : Nat, form : STRING, depth : Nat,
         invisible : BOOLEAN, hidden : BOOLEAN]
RuleMade == [name : STRING, body : Seq(Made)]

IsASequence(s) == s \in Seq({s[i] : i \in DOMAIN s})
RankAtMost(s, k) == \A i \in DOMAIN s : Rank(s[i]) <= k
Ordered(s) == \A i, j \in DOMAIN s : i < j => Rank(s[i]) <= Rank(s[j])

\* While rules are being read no other error than those of the parser is
\* queued, and before the report none is printed.
PhaseInv ==
  /\ src \in Seq(WrittenRule)
  /\ n \in Nat
  /\ invisible \in BOOLEAN
  /\ IsASequence(errors)
  /\ IsASequence(printed)
  /\ pc \in {"read", "link"} => g \in Seq(RuleMade) /\ printed = <<>>
  /\ pc = "link" => n >= 1
  /\ pc = "read" => /\ n <= Len(src)
                    /\ read \in Seq(RuleMade)
                    /\ RankAtMost(errors, IF n < Len(src) THEN 1 ELSE 2)

IInv == PhaseInv /\ Ordered(printed \o errors)

LEMMA RankType == \A e : Rank(e) \in 1..3
BY DEF Rank

LEMMA SequencesOfOneSet ==
  ASSUME NEW s, NEW t, IsASequence(s), IsASequence(t)
  PROVE  \E S : s \in Seq(S) /\ t \in Seq(S)
<1> DEFINE S == {s[i] : i \in DOMAIN s} \union {t[i] : i \in DOMAIN t}
<1>1. s \in Seq(S) /\ t \in Seq(S)
  BY SeqMonotonic DEF IsASequence
<1> QED
  BY <1>1

LEMMA InSeqIsASequence ==
  ASSUME NEW S, NEW s \in Seq(S)
  PROVE  IsASequence(s)
BY SeqOfRange DEF IsASequence

\* What comes after errors of lower rank may have the same rank or a higher.
LEMMA OrderedConcat ==
  ASSUME NEW s, NEW t, NEW k \in 1..3,
         IsASequence(s), IsASequence(t), Ordered(s), RankAtMost(s, k),
         \A i \in DOMAIN t : Rank(t[i]) = k
  PROVE  IsASequence(s \o t) /\ Ordered(s \o t) /\ RankAtMost(s \o t, k)
<1>0. PICK S : s \in Seq(S) /\ t \in Seq(S)
  BY SequencesOfOneSet
<1>1. /\ s \o t \in Seq(S)
      /\ Len(s \o t) = Len(s) + Len(t)
      /\ \A i \in 1..Len(s) + Len(t) :
           (s \o t)[i] = IF i <= Len(s) THEN s[i] ELSE t[i - Len(s)]
  BY <1>0, ConcatProperties
<1>2. /\ Len(s) \in Nat /\ Len(t) \in Nat
      /\ DOMAIN s = 1..Len(s) /\ DOMAIN t = 1..Len(t)
      /\ DOMAIN (s \o t) = 1..Len(s) + Len(t)
  BY <1>0, <1>1, LenProperties
<1>3. ASSUME NEW i \in 1..Len(s) + Len(t)
      PROVE  /\ Rank((s \o t)[i]) <= k
             /\ i > Len(s) => Rank((s \o t)[i]) = k
  <2>1. CASE i <= Len(s)
    BY <1>1, <1>2, <2>1 DEF RankAtMost
  <2>2. CASE i > Len(s)
    <3>1. i - Len(s) \in DOMAIN t /\ (s \o t)[i] = t[i - Len(s)]
      BY <1>1, <1>2, <2>2
    <3> QED
      BY <3>1
  <2> QED
    BY <1>2, <2>1, <2>2
<1>4. ASSUME NEW i \in 1..Len(s) + Len(t), NEW j \in 1..Len(s) + Len(t), i < j
      PROVE  Rank((s \o t)[i]) <= Rank((s \o t)[j])
  <2>1. CASE j <= Len(s)
    <3>1. i \in DOMAIN s /\ j \in DOMAIN s
      BY <1>2, <1>4, <2>1
    <3>2. (s \o t)[i] = s[i] /\ (s \o t)[j] = s[j]
      BY <1>1, <1>2, <1>4, <2>1
    <3> QED
      BY <1>4, <3>1, <3>2 DEF Ordered
  <2>2. CASE j > Len(s)
    BY <1>3, <2>2
  <2> QED
    BY <1>2, <2>1, <2>2
<1> QED
  BY <1>1, <1>2, <1>3, <1>4, InSeqIsASequence DEF Ordered, RankAtMost

LEMMA OrderedAppend ==
  ASSUME NEW s, NEW e, NEW k \in 1..3,
         IsASequence(s), Ordered(s), RankAtMost(s, k), Rank(e) = k
  PROVE  IsASequence(Append(s, e)) /\ Ordered(Append(s, e)) /\ RankAtMost(Append(s, e), k)
<1>1. <<e>> \in Seq({e}) /\ \A i \in DOMAIN <<e>> : Rank(<<e>>[i]) = k
  OBVIOUS
<1>2. IsASequence(<<e>>)
  BY <1>1, InSeqIsASequence
<1>3. Append(s, e) = s \o <<e>>
  <2>1. PICK S : s \in Seq(S) /\ <<e>> \in Seq(S)
    BY <1>2, SequencesOfOneSet
  <2>2. e \in S
    BY <2>1, ElementOfSeq
  <2> QED
    BY <2>1, <2>2, AppendIsConcat
<1> QED
  BY <1>1, <1>2, <1>3, OrderedConcat

\* Popping an error from the queue and printing it changes no order.
LEMMA PopKeepsOrder ==
  ASSUME NEW p, NEW q, IsASequence(p), IsASequence(q), q # <<>>
  PROVE  /\ IsASequence(Append(p, Head(q))) /\ IsASequence(Tail(q))
         /\ Append(p, Head(q)) \o Tail(q) = p \o q
<1>0. PICK S : p \in Seq(S) /\ q \in Seq(S)
  BY SequencesOfOneSet
<1>1. Head(q) \in S /\ Tail(q) \in Seq(S) /\ q = <<Head(q)>> \o Tail(q)
  BY <1>0, HeadTailProperties, ConcatProperties
<1>2. Append(p, Head(q)) = p \o <<Head(q)>> /\ Append(p, Head(q)) \in Seq(S)
  BY <1>0, <1>1, AppendIsConcat, AppendProperties
<1>3. (p \o <<Head(q)>>) \o Tail(q) = p \o (<<Head(q)>> \o Tail(q))
  <2>1. <<Head(q)>> \in Seq(S)
    BY <1>1
  <2> QED
    BY <1>0, <1>1, <2>1, ConcatAssociative
<1> QED
  BY <1>1, <1>2, <1>3, InSeqIsASequence

LEMMA StateAtType ==
  ASSUME NEW b, NEW i, NEW before \in BOOLEAN
  PROVE  StateAt(b, i, before) \in BOOLEAN
BY DEF StateAt

LEMMA MakeRuleType ==
  ASSUME NEW r \in WrittenRule, NEW before \in BOOLEAN
  PROVE  MakeRule(r, before) \in RuleMade
<1>1. r.name \in STRING /\ r.body \in Seq(WrittenTerm)
  BY DEF WrittenRule, WrittenBody
<1>2. ASSUME NEW i \in DOMAIN r.body, NEW p \in BOOLEAN, NEW q \in BOOLEAN
      PROVE  [type      |-> IF r.body[i].type \in {"ON", "OFF"} THEN "EMPTY" ELSE r.body[i].type,
              name      |-> r.body[i].name,
              letters   |-> r.body[i].letters,
              form      |-> r.body[i].form,
              depth     |-> r.body[i].depth,
              invisible |-> p,
              hidden    |-> q] \in Made
  <2>1. r.body[i] \in WrittenTerm
    BY <1>1, ElementOfSeq, LenProperties
  <2>2. /\ r.body[i].type \in Types \union {"ON", "OFF"}
        /\ "EMPTY" \in Types /\ r.body[i].name \in STRING
        /\ r.body[i].letters \in Nat /\ r.body[i].form \in STRING /\ r.body[i].depth \in Nat
    BY <2>1 DEF WrittenTerm, WrittenTypes, Types
  <2>3. CASE r.body[i].type \in {"ON", "OFF"}
    BY <2>2, <2>3 DEF Made
  <2>4. CASE r.body[i].type \notin {"ON", "OFF"}
    BY <2>2, <2>4 DEF Made
  <2> QED
    BY <2>3, <2>4
<1> DEFINE inv(i) == StateAt(r.body, LastInside(r.body, i), before)
           hid(i) == StateAt(r.body, ListEnd(r.body, i), before)
           term(i) == [type |-> IF r.body[i].type \in {"ON", "OFF"} THEN "EMPTY" ELSE r.body[i].type,
                       name |-> r.body[i].name, letters |-> r.body[i].letters,
                       form |-> r.body[i].form, depth |-> r.body[i].depth,
                       invisible |-> inv(i), hidden |-> hid(i)]
<1>3. ASSUME NEW i \in DOMAIN r.body
      PROVE  term(i) \in Made
  <2>1. inv(i) \in BOOLEAN /\ hid(i) \in BOOLEAN
    BY StateAtType
  <2> HIDE DEF inv, hid
  <2> QED
    BY <1>2, <2>1
<1>4. MakeRule(r, before) = [name |-> r.name, body |-> [i \in DOMAIN r.body |-> term(i)]]
  BY DEF MakeRule
<1> HIDE DEF inv, hid, term
<1>5. DOMAIN r.body = 1..Len(r.body) /\ Len(r.body) \in Nat
  BY <1>1, LenProperties
<1>6. [i \in DOMAIN r.body |-> term(i)] \in Seq(Made)
  BY <1>3, <1>5, IsASeq
<1> QED
  BY <1>1, <1>4, <1>6 DEF RuleMade

LEMMA UndefinedErrorsType ==
  ASSUME NEW b \in Seq(Made)
  PROVE  /\ IsASequence(UndefinedErrors(b))
         /\ \A i \in DOMAIN UndefinedErrors(b) : Rank(UndefinedErrors(b)[i]) = 3
<1> DEFINE U == {i \in DOMAIN b : b[i].type = "RULE" /\ b[i].depth = 0}
           err(k) == Error("undefined", b[Nth(U, k)].name)
           S == {err(k) : k \in 1..Cardinality(U)}
<1>1. UndefinedErrors(b) = [k \in 1..Cardinality(U) |-> err(k)]
  BY DEF UndefinedErrors
<1>2. Cardinality(U) \in Nat
  <2>1. IsFiniteSet(DOMAIN b)
    <3>1. DOMAIN b = 1..Len(b) /\ Len(b) \in Nat
      BY LenProperties
    <3> QED
      BY <3>1, FS_Interval
  <2>2. U \subseteq DOMAIN b
    OBVIOUS
  <2> HIDE DEF U
  <2> QED
    BY <2>1, <2>2, FS_Subset, FS_CardinalityType
<1>3. \A k : Rank(err(k)) = 3
  BY DEF Rank, Error
<1> HIDE DEF U, err
<1>4. [k \in 1..Cardinality(U) |-> err(k)] \in Seq(S)
  BY <1>2, IsASeq
<1> QED
  BY <1>1, <1>3, <1>4, InSeqIsASequence

LEMMA InitInv == Init => IInv
<1> SUFFICES ASSUME Init
             PROVE  IInv
  OBVIOUS
<1>1. src \in Seq(WrittenRule) /\ Len(src) \in Nat
  BY GrammarsAssumption, LenProperties DEF Init
<1>2. <<>> \in Seq({}) /\ <<>> \in Seq(RuleMade) /\ DOMAIN <<>> = {} /\ <<>> \o <<>> = <<>>
  BY ConcatEmptySeq
<1>3. IsASequence(<<>>)
  BY <1>2, InSeqIsASequence
<1>4. RankAtMost(<<>>, IF n < Len(src) THEN 1 ELSE 2) /\ Ordered(<<>>)
  BY <1>2 DEF RankAtMost, Ordered
<1>5. PhaseInv
  <2>1. n \in Nat /\ n <= Len(src) /\ pc = "read"
    <3>1. n = 0 /\ pc = "read"
      BY DEF Init
    <3> QED
      BY <1>1, <3>1
  <2>2. read = <<>> /\ g = <<>> /\ errors = <<>> /\ printed = <<>>
    BY DEF Init
  <2>3. invisible \in BOOLEAN
    BY Zenon DEF Init
  <2> QED
    BY <1>1, <1>2, <1>3, <1>4, <2>1, <2>2, <2>3 DEF PhaseInv
<1>6. Ordered(printed \o errors)
  BY <1>2, <1>4 DEF Init
<1> QED
  BY <1>5, <1>6 DEF IInv

LEMMA ReadRuleInv == IInv /\ ReadRule => IInv'
<1> SUFFICES ASSUME IInv, ReadRule
             PROVE  IInv'
  OBVIOUS
<1> DEFINE r == src[n + 1]
<1>1. /\ pc = "read" /\ pc' = "read" /\ n < Len(src) /\ n' = n + 1
      /\ UNCHANGED <<src, g, printed>>
      /\ read' = Append(read, MakeRule(r, invisible))
      /\ invisible' = StateAt(r.body, Len(r.body), invisible)
      /\ errors' = IF r.fault = "expected" THEN Append(errors, Error("expected", r.name))
                   ELSE errors
  BY DEF ReadRule
<1>2. /\ src \in Seq(WrittenRule) /\ n \in Nat /\ invisible \in BOOLEAN
      /\ IsASequence(errors) /\ IsASequence(printed) /\ printed = <<>>
      /\ g \in Seq(RuleMade) /\ read \in Seq(RuleMade) /\ RankAtMost(errors, 1)
      /\ Ordered(printed \o errors)
  BY <1>1 DEF IInv, PhaseInv
<1>3. r \in WrittenRule /\ Len(src) \in Nat
  BY <1>1, <1>2, ElementOfSeq, LenProperties
<1>4. read' \in Seq(RuleMade)
  BY <1>1, <1>2, <1>3, MakeRuleType, AppendProperties
<1>5. invisible' \in BOOLEAN
  BY <1>1, <1>2, StateAtType
<1>6. printed \o errors = errors
  BY <1>2, ConcatEmptySeq DEF IsASequence
<1>7. IsASequence(errors') /\ Ordered(errors') /\ RankAtMost(errors', 1)
  <2>1. Rank(Error("expected", r.name)) = 1
    BY DEF Rank, Error
  <2> QED
    BY <1>1, <1>2, <1>6, <2>1, OrderedAppend
<1>8. printed' \o errors' = errors'
  BY <1>1, <1>2, <1>7, ConcatEmptySeq DEF IsASequence
<1>9. RankAtMost(errors', 2)
  BY <1>7, RankType DEF RankAtMost
<1> QED
  BY <1>1, <1>2, <1>3, <1>4, <1>5, <1>7, <1>8, <1>9 DEF IInv, PhaseInv

LEMMA SyntaxErrorInv == IInv /\ SyntaxError => IInv'
<1> SUFFICES ASSUME IInv, SyntaxError
             PROVE  IInv'
  OBVIOUS
<1> DEFINE e == Error("syntax", src[n + 1].name)
<1>1. /\ pc = "read" /\ pc' = "failed" /\ n < Len(src)
      /\ errors' = Append(errors, e)
      /\ UNCHANGED <<src, n, g, invisible, printed>>
  BY DEF SyntaxError
<1>2. /\ IsASequence(errors) /\ printed = <<>> /\ RankAtMost(errors, 1)
      /\ Ordered(printed \o errors)
  BY <1>1 DEF IInv, PhaseInv
<1>3. printed \o errors = errors
  BY <1>2, ConcatEmptySeq DEF IsASequence
<1>4. Rank(e) = 1
  BY DEF Rank, Error
<1>5. IsASequence(errors') /\ Ordered(errors')
  <2> HIDE DEF e
  <2> QED
    BY <1>1, <1>2, <1>3, <1>4, OrderedAppend
<1>6. printed' \o errors' = errors'
  BY <1>1, <1>2, <1>5, ConcatEmptySeq DEF IsASequence
<1> QED
  BY <1>1, <1>5, <1>6 DEF IInv, PhaseInv

LEMMA AddRuleInv == IInv /\ AddRule => IInv'
<1> SUFFICES ASSUME IInv, AddRule
             PROVE  IInv'
  OBVIOUS
<1> DEFINE r == read[Len(read)]
           e == Error("exists", r.name)
<1>1. /\ pc = "read" /\ pc' = "read" /\ n = Len(src) /\ read # <<>>
      /\ \/ errors' = Append(errors, e) /\ g' = <<r>>
         \/ g' = <<r>> \o g /\ errors' = errors
      /\ read' = SubSeq(read, 1, Len(read) - 1)
      /\ UNCHANGED <<src, n, invisible, printed>>
  BY DEF AddRule
<1>2. /\ src \in Seq(WrittenRule) /\ n \in Nat
      /\ IsASequence(errors) /\ printed = <<>> /\ IsASequence(printed)
      /\ g \in Seq(RuleMade) /\ read \in Seq(RuleMade) /\ RankAtMost(errors, 2)
      /\ Ordered(printed \o errors)
  BY <1>1 DEF IInv, PhaseInv
<1>3. r \in RuleMade /\ read' \in Seq(RuleMade)
  <2>1. Len(read) \in Nat /\ Len(read) >= 1
    BY <1>1, <1>2, LenProperties, EmptySeq
  <2> QED
    BY <1>1, <1>2, <2>1, ElementOfSeq, SubSeqProperties
<1>4. g' \in Seq(RuleMade)
  <2>1. <<r>> \in Seq(RuleMade)
    BY <1>3
  <2> HIDE DEF r
  <2> QED
    BY <1>1, <1>2, <2>1, ConcatProperties
<1>5. printed \o errors = errors
  BY <1>2, ConcatEmptySeq DEF IsASequence
<1>6. IsASequence(errors') /\ Ordered(errors') /\ RankAtMost(errors', 2)
  <2>1. Rank(e) = 2
    BY DEF Rank, Error
  <2> HIDE DEF e, r
  <2>2. CASE errors' = Append(errors, e)
    BY <1>2, <1>5, <2>1, <2>2, OrderedAppend
  <2>3. CASE errors' = errors
    BY <1>2, <1>5, <2>3
  <2> QED
    BY <1>1, <2>2, <2>3
<1>7. printed' \o errors' = errors'
  BY <1>1, <1>2, <1>6, ConcatEmptySeq DEF IsASequence
<1> HIDE DEF r, e
<1> QED
  BY <1>1, <1>2, <1>3, <1>4, <1>6, <1>7 DEF IInv, PhaseInv

LEMMA BeginLinkingInv == IInv /\ BeginLinking => IInv'
<1> SUFFICES ASSUME IInv, BeginLinking
             PROVE  IInv'
  OBVIOUS
<1>1. /\ pc = "read" /\ pc' = "link" /\ n' = 1
      /\ UNCHANGED <<src, g, invisible, errors, printed>>
  BY DEF BeginLinking, Begin
<1> QED
  BY <1>1 DEF IInv, PhaseInv

LEMMA LinkRuleInv == IInv /\ LinkRule => IInv'
<1> SUFFICES ASSUME IInv, LinkRule
             PROVE  IInv'
  OBVIOUS
<1> DEFINE linked == [i \in DOMAIN g[n].body |-> Link(g[n].body[i])]
<1>1. /\ pc = "link" /\ pc' = "link" /\ n <= Len(g) /\ n' = n + 1
      /\ g' = [g EXCEPT ![n].body = linked]
      /\ errors' = errors \o UndefinedErrors(linked)
      /\ UNCHANGED <<src, invisible, printed>>
  BY DEF LinkRule, AtRule, SetBody
<1>2. /\ n \in Nat /\ n >= 1 /\ g \in Seq(RuleMade)
      /\ IsASequence(errors) /\ printed = <<>> /\ IsASequence(printed)
      /\ Ordered(printed \o errors)
  BY <1>1 DEF IInv, PhaseInv
<1>3. g[n] \in RuleMade
  BY <1>1, <1>2, ElementOfSeq
<1>4. ASSUME NEW t \in Made
      PROVE  Link(t) \in Made
  <2>1. [t EXCEPT !.type = "LINKED"] \in Made /\ [t EXCEPT !.type = "TOKEN"] \in Made
    <3>1. "LINKED" \in Types /\ "TOKEN" \in Types
      BY DEF Types
    <3> QED
      BY <1>4, <3>1 DEF Made
  <2>2. Link(t) \in {t, [t EXCEPT !.type = "LINKED"], [t EXCEPT !.type = "TOKEN"]}
    BY DEF Link
  <2> QED
    BY <1>4, <2>1, <2>2
<1>5. linked \in Seq(Made)
  <2>1. g[n].body \in Seq(Made)
    BY <1>3 DEF RuleMade
  <2>2. /\ DOMAIN g[n].body = 1..Len(g[n].body) /\ Len(g[n].body) \in Nat
        /\ \A i \in DOMAIN g[n].body : g[n].body[i] \in Made
    BY <2>1, LenProperties, ElementOfSeq
  <2>3. \A i \in DOMAIN g[n].body : Link(g[n].body[i]) \in Made
    BY <1>4, <2>2
  <2> QED
    BY <2>2, <2>3, IsASeq
<1> HIDE DEF linked
<1>6. g' \in Seq(RuleMade)
  <2>1. [g[n] EXCEPT !.body = linked] \in RuleMade
    BY <1>3, <1>5 DEF RuleMade
  <2>2. g' = [g EXCEPT ![n] = [g[n] EXCEPT !.body = linked]]
    BY <1>1
  <2> QED
    BY <1>1, <1>2, <2>1, <2>2, ExceptSeq
<1>7. printed \o errors = errors
  BY <1>2, ConcatEmptySeq DEF IsASequence
<1>8. RankAtMost(errors, 3)
  BY RankType DEF RankAtMost
<1>9. IsASequence(errors') /\ Ordered(errors')
  BY <1>1, <1>2, <1>5, <1>7, <1>8, UndefinedErrorsType, OrderedConcat
<1>10. printed' \o errors' = errors'
  BY <1>1, <1>2, <1>9, ConcatEmptySeq DEF IsASequence
<1> QED
  BY <1>1, <1>2, <1>6, <1>9, <1>10 DEF IInv, PhaseInv

LEMMA PopErrorInv == IInv /\ PopError => IInv'
<1> SUFFICES ASSUME IInv, PopError
             PROVE  IInv'
  OBVIOUS
<1>1. /\ pc = "report" /\ pc' = "report" /\ errors # <<>>
      /\ printed' = Append(printed, Head(errors)) /\ errors' = Tail(errors)
      /\ UNCHANGED <<src, n, invisible>>
  BY DEF PopError
<1>2. IsASequence(errors) /\ IsASequence(printed)
  BY DEF IInv, PhaseInv
<1>3. /\ IsASequence(printed') /\ IsASequence(errors')
      /\ printed' \o errors' = printed \o errors
  BY <1>1, <1>2, PopKeepsOrder
<1> QED
  BY <1>1, <1>3 DEF IInv, PhaseInv, Ordered

\* After the report the queue is left alone.
LEMMA OtherStepsInv ==
  ASSUME IInv,
         \/ BeginReport \/ Exiting \/ BeginRewriting \/ RewriteCi
         \/ RewriteInvisible \/ NextFeature \/ Filter \/ Output \/ BreakOff \/ UNCHANGED vars
  PROVE  IInv'
<1>1. UNCHANGED vars => IInv'
  BY DEF IInv, PhaseInv, vars, Ordered, IsASequence, RankAtMost
<1>2. ASSUME UNCHANGED <<src, invisible, errors, printed>>, n' \in Nat,
             pc' \in {"report", "rewrite", "output", "failed", "done", "brokenoff"}
      PROVE  IInv'
  BY <1>2 DEF IInv, PhaseInv, Ordered, IsASequence
<1>3. n \in Nat
  BY DEF IInv, PhaseInv
<1>4. CASE BeginReport
  BY <1>2, <1>3, <1>4 DEF BeginReport, Begin, End
<1>5. CASE Exiting
  BY <1>2, <1>3, <1>5 DEF Exiting
<1>6. CASE BeginRewriting
  BY <1>2, <1>3, <1>6 DEF BeginRewriting, Begin
<1>7. CASE RewriteCi
  <2>1. pc = "rewrite" /\ pc' \in {pc, "failed"} /\ n' = n + 1
        /\ UNCHANGED <<src, invisible, errors, printed>>
    BY <1>7 DEF RewriteCi, AtRule, SetBody
  <2> QED
    BY <1>2, <1>3, <2>1
<1>8. CASE RewriteInvisible
  <2>1. pc = "rewrite" /\ pc' = pc /\ n' = n + 1
        /\ UNCHANGED <<src, invisible, errors, printed>>
    BY <1>8 DEF RewriteInvisible, AtRule, SetBody
  <2> QED
    BY <1>2, <1>3, <2>1
<1>9. CASE NextFeature
  BY <1>2, <1>9 DEF NextFeature
<1>10. CASE Filter \/ Output \/ BreakOff
  BY <1>2, <1>3, <1>10 DEF Filter, Output, BreakOff
<1> QED
  BY <1>1, <1>4, <1>5, <1>6, <1>7, <1>8, <1>9, <1>10

(***************************************************************************)
(* Errors are queued and printed in the order of the phases that find      *)
(* them, parser.act's read before its list of rules and its linking, and   *)
(* parsing_error_queue_pop keeps that order.                               *)
(***************************************************************************)
THEOREM ErrorsInOrder == Spec => []ErrorOrder
<1>1. Init => IInv
  BY InitInv
<1>2. IInv /\ [Next]_vars => IInv'
  <2> SUFFICES ASSUME IInv, [Next]_vars
               PROVE  IInv'
    OBVIOUS
  <2>1. CASE Next
    BY <2>1, ReadRuleInv, SyntaxErrorInv, AddRuleInv, BeginLinkingInv, LinkRuleInv,
       PopErrorInv, OtherStepsInv DEF Next, Terminated
  <2>2. CASE UNCHANGED vars
    BY <2>2, OtherStepsInv
  <2> QED
    BY <2>1, <2>2
<1>3. IInv => ErrorOrder
  BY DEF IInv, Ordered, ErrorOrder
<1> QED
  BY <1>1, <1>2, <1>3, PTL DEF Spec

(***************************************************************************)
(* What the rules are made from and what their terms become.               *)
(***************************************************************************)

Queued == {printed[i] : i \in DOMAIN printed} \union {errors[i] : i \in DOMAIN errors}

AsRead(type) == IF type \in {"ON", "OFF"} THEN "EMPTY" ELSE type

(***************************************************************************)
(* A rule was made from the m-th that was written: whatever its terms have *)
(* become since, everything but their types is what it was.                *)
(***************************************************************************)
MadeFrom(rule, m) ==
  /\ m \in DOMAIN src
  /\ rule.name = src[m].name
  /\ DOMAIN rule.body = DOMAIN src[m].body
  /\ \A i \in DOMAIN rule.body :
       /\ rule.body[i].name = src[m].body[i].name
       /\ rule.body[i].letters = src[m].body[i].letters
       /\ rule.body[i].form = src[m].body[i].form
       /\ rule.body[i].depth = src[m].body[i].depth
       /\ ~HasPragma(src) => ~rule.body[i].invisible /\ ~rule.body[i].hidden
       /\ Written(<<m, i>>) # "GROUP" /\ WrittenInvisible(<<m, i>>) => rule.body[i].invisible

Unlinked(rule, m) ==
  \A i \in DOMAIN rule.body : rule.body[i].type = AsRead(src[m].body[i].type)

\* No rule has got lost.
Clean == Queued = {} \/ Duplicates(src) = {}

CommandLines ==
  [allowUndefined : BOOLEAN, filter : Seq(STRING), unsupported : SUBSET Features,
   cannot : SUBSET (Types \X STRING), needsAlts : SUBSET {"rule", "group"}, diagrams : BOOLEAN]

TypeInv ==
  /\ src \in Seq(WrittenRule)
  /\ opts \in CommandLines
  /\ pc \in {"read", "link", "report", "rewrite", "output", "done", "failed", "brokenoff"}
  /\ n \in 0..Len(src) + 1
  /\ read \in Seq(RuleMade)
  /\ g \in Seq(RuleMade)
  /\ invisible \in BOOLEAN
  /\ IsASequence(errors) /\ IsASequence(printed)
  /\ v \subseteq opts.unsupported

\* Where the rules are: those of the list follow those not added yet.
PlacesInv ==
  /\ Duplicates(g) = {}
  /\ pc = "read" =>
       /\ n <= Len(src)
       /\ n < Len(src) => Len(read) = n /\ g = <<>>
       /\ Len(read) + Len(g) <= n
       /\ Clean => Len(read) + Len(g) = n
       /\ \A k \in DOMAIN read : MadeFrom(read[k], k) /\ Unlinked(read[k], k)
       /\ \A k \in DOMAIN g : MadeFrom(g[k], Len(read) + k) /\ Unlinked(g[k], Len(read) + k)
  /\ pc \in {"link", "report", "rewrite"} =>
       /\ n \in 1..Len(g) + 1
       /\ Len(g) <= Len(src)
       /\ Clean => Len(g) = Len(src)
       /\ \A k \in DOMAIN g : MadeFrom(g[k], k)

\* act_state->invisible is set if that is what the last pragma read says.
PragmaInv ==
  pc = "read" =>
    /\ ~HasPragma(src) => ~invisible
    /\ (\E r \in Places : /\ r[1] <= n /\ Written(r) = "ON"
                          /\ \A o \in Places : o[1] <= n /\ Written(o) = "OFF" => o \in UpTo(r))
         => invisible

\* An error is queued for something that is wrong with the grammar.
Deserved(e) ==
  \/ e.kind \in {"expected", "syntax"} /\ \E m \in DOMAIN src : src[m].fault # "none"
  \/ e.kind = "exists" /\ Duplicates(src) # {}
  \/ /\ e.kind = "undefined" /\ ~opts.allowUndefined
     /\ e.name \in ReferredToOutsideGroups(src)
     /\ e.name \in Names(src) => Duplicates(src) # {}

\* And what is wrong has an error queued.
ErrorsInv ==
  /\ \A e \in Queued : Deserved(e)
  /\ pc \in {"read", "link", "report"} /\ Queued = {} =>
       \A m \in DOMAIN src : pc # "read" \/ m <= n => src[m].fault = "none"
  /\ pc \in {"rewrite", "output", "done", "brokenoff"} =>
       /\ Queued = {} /\ Duplicates(src) = {}
       /\ \A m \in DOMAIN src : src[m].fault = "none"

\* The types that a term that was written may have been given since.
CanBe(type, w) ==
  \/ type = AsRead(w.type)
  \/ type \in {"LINKED", "TOKEN"} /\ w.type = "RULE" /\ w.depth = 0
  \/ /\ type \in {"CASES", "GROUP"} /\ w.type = "CI" /\ CI_LITERAL \in opts.unsupported
     /\ type = "GROUP" => TooLong(w)
  \/ type = "GONE" /\ HasPragma(src) /\ INVISIBLE \in opts.unsupported

\* What a term may be once its rule has been linked.
Linked(rule, m) ==
  \A i \in DOMAIN rule.body :
    LET t == rule.body[i]
        w == src[m].body[i]
    IN  /\ t.type = "RULE" => w.type = "RULE" /\ (w.depth > 0 \/ Queued # {})
        /\ t.type = "LINKED" => w.name \in Names(src)
        /\ t.type = "TOKEN" => w.name \notin Names(src) \/ Duplicates(src) # {}
        /\ CanBe(t.type, w)
        /\ w.type = "RULE" /\ w.depth = 0 /\ ~opts.allowUndefined =>
             w.name \in Names(src) \/ Queued # {}

\* The literals are as they were written.
CiLeft(rule, m) ==
  \A i \in DOMAIN rule.body : src[m].body[i].type = "CI" => rule.body[i].type = "CI"

\* rewrite_ci_literals has been there, and has not given up.
CiDone(rule, m) ==
  \A i \in DOMAIN rule.body :
    /\ TooLong(src[m].body[i]) => src[m].body[i].depth > 0
    /\ LongInGroup(src) \/ rule.body[i].type # "CI"

\* rewrite_invisible has been there.
InvisibleDone(rule) ==
  \A i \in DOMAIN rule.body :
    rule.body[i].type # "GONE" => ~rule.body[i].invisible /\ ~rule.body[i].hidden

LinkInv ==
  /\ pc \in {"read", "link", "report"} => v = opts.unsupported
  /\ pc = "link" => \A k \in DOMAIN g : IF k < n THEN Linked(g[k], k) ELSE Unlinked(g[k], k)
  /\ pc \in {"report", "rewrite"} => \A k \in DOMAIN g : Linked(g[k], k)
  /\ pc \in {"link", "report"} => \A k \in DOMAIN g : CiLeft(g[k], k)

RewriteInv ==
  /\ pc = "rewrite" =>
       \A k \in DOMAIN g :
         /\ CI_LITERAL \in v /\ k >= n => CiLeft(g[k], k)
         /\ CI_LITERAL \in opts.unsupported /\ (CI_LITERAL \notin v \/ k < n) => CiDone(g[k], k)
         /\ INVISIBLE \in opts.unsupported /\ (INVISIBLE \notin v \/ (Lowest = INVISIBLE /\ k < n))
              => InvisibleDone(g[k])
  /\ pc \in {"output", "done", "brokenoff"} =>
       \A k \in DOMAIN g : \E m \in DOMAIN src :
         /\ MadeFrom(g[k], m) /\ Linked(g[k], m)
         /\ CI_LITERAL \in opts.unsupported => CiDone(g[k], m)
         /\ INVISIBLE \in opts.unsupported => InvisibleDone(g[k])

RulesInv == TypeInv /\ PlacesInv /\ PragmaInv /\ ErrorsInv /\ LinkInv /\ RewriteInv
-----------------------------------------------------------------------------
\* Of numbers that are not the same, not the same number come no later.
LEMMA CountIsInjective ==
  ASSUME NEW S \in SUBSET Nat, IsFiniteSet(S), NEW i \in S, NEW k \in S,
         Cardinality({j \in S : j <= i}) = Cardinality({j \in S : j <= k})
  PROVE  i = k
<1>1. ASSUME NEW a \in S, NEW b \in S, a < b
      PROVE  Cardinality({j \in S : j <= a}) # Cardinality({j \in S : j <= b})
  <2> DEFINE A == {j \in S : j <= a}
             B == {j \in S : j <= b}
  <2>1. A \subseteq B /\ b \in B /\ b \notin A
    <3>1. a \in Nat /\ b \in Nat /\ a < b
      BY <1>1
    <3>2. \A j \in S : j <= a => j <= b
      <4> SUFFICES ASSUME NEW j \in S, j <= a
                   PROVE  j <= b
        OBVIOUS
      <4>1. j \in Nat
        OBVIOUS
      <4> QED
        BY <3>1, <4>1
    <3>3. ~(b <= a) /\ b <= b
      BY <3>1
    <3> QED
      BY <3>2, <3>3
  <2>2. IsFiniteSet(B)
    BY FS_Subset
  <2> HIDE DEF A, B
  <2>3. Cardinality(A) # Cardinality(B)
    BY <2>1, <2>2, FS_Subset
  <2> QED
    BY <2>3 DEF A, B
<1>2. i < k \/ k < i \/ i = k
  OBVIOUS
<1> QED
  BY <1>1, <1>2

\* The k-th of S is in S, k of S come no later, and it is the k-th of no other k.
LEMMA NthFacts ==
  ASSUME NEW S \in SUBSET Nat, IsFiniteSet(S)
  PROVE  /\ Cardinality(S) \in Nat
         /\ \A k \in 1..Cardinality(S) : Nth(S, k) \in S /\ Cardinality({j \in S : j <= Nth(S, k)}) = k
         /\ \A i \in S : \E k \in 1..Cardinality(S) : Nth(S, k) = i
<1> DEFINE N == Cardinality(S)
           c(i) == Cardinality({j \in S : j <= i})
           f == [i \in S |-> c(i)]
<1>1. N \in Nat
  BY FS_CardinalityType
<1>2. ASSUME NEW i \in S
      PROVE  c(i) \in 1..N
  <2> DEFINE A == {j \in S : j <= i}
  <2>1. A \in SUBSET S /\ i \in A
    OBVIOUS
  <2> HIDE DEF A
  <2>2. IsFiniteSet(A) /\ Cardinality(A) <= N /\ A # {}
    BY <2>1, FS_Subset
  <2>3. Cardinality(A) \in Nat /\ Cardinality(A) # 0
    BY <2>2, FS_EmptySet, FS_CardinalityType
  <2>4. Cardinality(A) \in 1..N
    BY <1>1, <2>2, <2>3
  <2> QED
    BY <2>4 DEF A
<1>3. f \in Injection(S, 1..N)
  <2>1. \A i, k \in S : c(i) = c(k) => i = k
    BY CountIsInjective
  <2> HIDE DEF c
  <2> QED
    BY <1>2, <2>1 DEF Injection, IsInjective
<1>4. f \in Surjection(S, 1..N)
  <2>1. IsFiniteSet(1..N) /\ Cardinality(1..N) = N
    BY <1>1, FS_Interval
  <2> HIDE DEF f
  <2> QED
    BY <1>3, <2>1, FS_Injection
<1>5. ASSUME NEW k \in 1..N
      PROVE  Nth(S, k) \in S /\ c(Nth(S, k)) = k
  <2>1. \E i \in S : c(i) = k
    BY <1>4 DEF Surjection
  <2> QED
    BY <2>1 DEF Nth
<1>6. ASSUME NEW i \in S
      PROVE  \E k \in 1..N : Nth(S, k) = i
  <2>1. Nth(S, c(i)) \in S /\ c(Nth(S, c(i))) = c(i)
    BY <1>2, <1>5
  <2>2. Nth(S, c(i)) = i
    BY <2>1, CountIsInjective
  <2> QED
    BY <1>2, <2>2
<1> QED
  BY <1>1, <1>5, <1>6

LEMMA NthIsInjective ==
  ASSUME NEW S \in SUBSET Nat, IsFiniteSet(S),
         NEW k \in 1..Cardinality(S), NEW l \in 1..Cardinality(S), Nth(S, k) = Nth(S, l)
  PROVE  k = l
<1>1. /\ Cardinality({j \in S : j <= Nth(S, k)}) = k
      /\ Cardinality({j \in S : j <= Nth(S, l)}) = l
  BY NthFacts
<1> QED
  BY <1>1

\* A finite set of numbers that is not empty has a first and a last one.
LEMMA FirstAndLast ==
  ASSUME NEW S \in SUBSET Nat, IsFiniteSet(S), S # {}
  PROVE  /\ \E i \in S : \A j \in S : i <= j
         /\ \E i \in S : \A j \in S : j <= i
<1> DEFINE N == Cardinality(S)
           upto(i) == {j \in S : j <= i}
<1>1. N \in Nat /\ N # 0
  BY FS_EmptySet, FS_CardinalityType
<1>2. PICK a \in S : Cardinality(upto(a)) = 1
  <2>1. 1 \in 1..N
    BY <1>1
  <2>2. Nth(S, 1) \in S /\ Cardinality(upto(Nth(S, 1))) = 1
    BY <2>1, NthFacts
  <2> QED
    BY <2>2
<1>3. PICK b \in S : Cardinality(upto(b)) = N
  <2>1. N \in 1..N
    BY <1>1
  <2>2. Nth(S, N) \in S /\ Cardinality(upto(Nth(S, N))) = N
    BY <2>1, NthFacts
  <2> QED
    BY <2>2
<1>4. ASSUME NEW i \in S
      PROVE  upto(i) \in SUBSET S /\ IsFiniteSet(upto(i)) /\ i \in upto(i)
  BY FS_Subset
<1>5. upto(b) = S
  <2>1. upto(b) \in SUBSET S
    BY <1>4
  <2> HIDE DEF upto
  <2> QED
    BY <1>3, <2>1, FS_Subset
<1>6. upto(a) = {a}
  <2>1. IsFiniteSet(upto(a)) /\ a \in upto(a)
    BY <1>4
  <2> HIDE DEF upto
  <2>2. \E x : upto(a) = {x}
    BY <1>2, <2>1, FS_Singleton
  <2> QED
    BY <2>1, <2>2
<1>7. ASSUME NEW j \in S
      PROVE  a <= j
  <2>1. CASE j < a
    <3>1. j \in upto(a)
      BY <2>1
    <3> QED
      BY <1>6, <2>1, <3>1
  <2> QED
    BY <2>1
<1>8. \A j \in S : j <= b
  BY <1>5
<1> QED
  BY <1>7, <1>8

\* The terms inside the one at i end where the next is no deeper.
LEMMA LastInsideFacts ==
  ASSUME NEW b, Len(b) \in Nat, \A k \in 1..Len(b) : b[k].depth \in Nat, NEW i \in 1..Len(b)
  PROVE  /\ LastInside(b, i) \in i..Len(b)
         /\ \A k \in i + 1..LastInside(b, i) : b[k].depth > b[i].depth
         /\ LastInside(b, i) < Len(b) => b[LastInside(b, i) + 1].depth <= b[i].depth
<1> DEFINE P(j) == /\ \A k \in i + 1..j : b[k].depth > b[i].depth
                   /\ j < Len(b) => b[j + 1].depth <= b[i].depth
           D == {k \in i + 1..Len(b) : b[k].depth <= b[i].depth}
<1>1. \E j \in i..Len(b) : P(j)
  <2>1. CASE D = {}
    BY SMTT(60), <2>1
  <2>2. CASE D # {}
    <3>1. D \in SUBSET Nat /\ IsFiniteSet(D)
      <4>0. i + 1 \in Int /\ Len(b) \in Int
        OBVIOUS
      <4>1. IsFiniteSet(i + 1..Len(b)) /\ D \in SUBSET (i + 1..Len(b))
        BY <4>0, FS_Interval
      <4>2. IsFiniteSet(D)
        BY <4>1, FS_Subset
      <4> QED
        BY <4>1, <4>2
    <3>2. PICK d \in D : \A k \in D : d <= k
      <4> HIDE DEF D
      <4> QED
        BY <2>2, <3>1, FirstAndLast
    <3>3. d - 1 \in i..Len(b) /\ d - 1 + 1 = d
      OBVIOUS
    <3>4. ASSUME NEW k \in i + 1..d - 1
          PROVE  b[k].depth > b[i].depth
      <4>1. k \notin D /\ k \in i + 1..Len(b)
        BY <3>2
      <4> QED
        BY <4>1
    <3> QED
      BY <3>3, <3>4
  <2> QED
    BY <2>1, <2>2
<1>2. LastInside(b, i) \in i..Len(b) /\ P(LastInside(b, i))
  <2>1. LastInside(b, i) = CHOOSE j \in i..Len(b) : P(j)
    BY DEF LastInside
  <2> HIDE DEF P
  <2> QED
    BY <1>1, <2>1
<1> QED
  BY <1>2

\* Only inside a group there are terms.
LEMMA WrittenBodyFacts ==
  ASSUME NEW b \in WrittenBody
  PROVE  /\ b \in Seq(WrittenTerm) /\ Len(b) \in Nat /\ Len(b) >= 1 /\ DOMAIN b = 1..Len(b)
         /\ b[1].depth = 0
         /\ \A i \in DOMAIN b :
              /\ b[i] \in WrittenTerm /\ b[i].depth \in Nat
              /\ LastInside(b, i) \in i..Len(b)
              /\ b[i].type # "GROUP" => LastInside(b, i) = i
<1>1. b \in Seq(WrittenTerm) /\ b # <<>>
  BY DEF WrittenBody
<1>2. Len(b) \in Nat /\ Len(b) >= 1 /\ DOMAIN b = 1..Len(b)
  BY <1>1, LenProperties, EmptySeq
<1>3. \A i \in DOMAIN b : b[i] \in WrittenTerm /\ b[i].depth \in Nat
  <2>1. \A i \in DOMAIN b : b[i] \in WrittenTerm
    BY <1>1, <1>2, ElementOfSeq
  <2> QED
    BY <2>1 DEF WrittenTerm
<1>4. ASSUME NEW i \in DOMAIN b
      PROVE  /\ LastInside(b, i) \in i..Len(b)
             /\ b[i].type # "GROUP" => LastInside(b, i) = i
  <2>1. PICK l : l = LastInside(b, i)
    OBVIOUS
  <2>2. l \in i..Len(b) /\ \A k \in i + 1..l : b[k].depth > b[i].depth
    BY <1>2, <1>3, <2>1, LastInsideFacts
  <2>3. ASSUME b[i].type # "GROUP", l > i
        PROVE  FALSE
    <3>1. i \in 1..Len(b) - 1 /\ i + 1 \in i + 1..l /\ i + 1 \in DOMAIN b
      BY <1>2, <2>2, <2>3
    <3>2. b[i + 1].depth > b[i].depth /\ b[i + 1].depth \in Nat /\ b[i].depth \in Nat
      BY <1>3, <2>2, <3>1
    <3>3. b[i + 1].depth <= b[i].depth
      BY <2>3, <3>1 DEF WrittenBody
    <3> QED
      BY <3>2, <3>3
  <2> QED
    BY <1>2, <2>1, <2>2, <2>3
<1>5. b[1].depth = 0
  BY DEF WrittenBody
<1> QED
  BY <1>1, <1>2, <1>3, <1>4, <1>5

Pragma(t) == t.type \in {"ON", "OFF"}

\* The state at a term is what the last pragma up to it says.
LEMMA StateAtFacts ==
  ASSUME NEW b, NEW i \in Nat, NEW before
  PROVE  \/ /\ \A j \in 1..i : ~Pragma(b[j])
            /\ StateAt(b, i, before) = before
         \/ \E j \in 1..i : /\ Pragma(b[j]) /\ \A k \in 1..i : Pragma(b[k]) => k <= j
                            /\ StateAt(b, i, before) = (b[j].type = "ON")
<1> DEFINE P == {j \in 1..i : b[j].type \in {"ON", "OFF"}}
           last == CHOOSE j \in P : \A k \in P : k <= j
<1>1. CASE P = {}
  BY <1>1 DEF StateAt, Pragma
<1>2. CASE P # {}
  <2>1. P \in SUBSET Nat /\ IsFiniteSet(P)
    <3>0. 1 \in Int /\ i \in Int
      OBVIOUS
    <3>1. IsFiniteSet(1..i) /\ P \in SUBSET (1..i)
      BY <3>0, FS_Interval
    <3>2. IsFiniteSet(P)
      BY <3>1, FS_Subset
    <3> QED
      BY <3>1, <3>2
  <2>2. \E j \in P : \A k \in P : k <= j
    <3> HIDE DEF P
    <3> QED
      BY <1>2, <2>1, FirstAndLast
  <2>3. last \in P /\ \A k \in P : k <= last
    <3> HIDE DEF P
    <3> QED
      BY <2>2
  <2>4. StateAt(b, i, before) = (b[last].type = "ON")
    BY <1>2 DEF StateAt
  <2> HIDE DEF last
  <2> QED
    BY <2>3, <2>4 DEF Pragma
<1> QED
  BY <1>1, <1>2

\* The errors of a rule are its references outside groups that are not linked.
LEMMA UndefinedErrorsFacts ==
  ASSUME NEW b \in Seq(Made)
  PROVE  {UndefinedErrors(b)[k] : k \in DOMAIN UndefinedErrors(b)}
           = {Error("undefined", b[i].name) :
                i \in {j \in DOMAIN b : b[j].type = "RULE" /\ b[j].depth = 0}}
<1> DEFINE U == {i \in DOMAIN b : b[i].type = "RULE" /\ b[i].depth = 0}
           N == Cardinality(U)
<1>1. UndefinedErrors(b) = [k \in 1..N |-> Error("undefined", b[Nth(U, k)].name)]
  BY DEF UndefinedErrors
<1>2. U \in SUBSET Nat /\ IsFiniteSet(U)
  <2>1. DOMAIN b = 1..Len(b) /\ Len(b) \in Int /\ 1 \in Int
    BY LenProperties
  <2>2. IsFiniteSet(1..Len(b)) /\ U \in SUBSET (1..Len(b)) /\ U \in SUBSET Nat
    BY <2>1, FS_Interval
  <2> HIDE DEF U
  <2> QED
    BY <2>2, FS_Subset
<1> HIDE DEF U
<1>3. /\ \A k \in 1..N : Nth(U, k) \in U
      /\ \A i \in U : \E k \in 1..N : Nth(U, k) = i
  BY <1>2, NthFacts
<1>4. {UndefinedErrors(b)[k] : k \in DOMAIN UndefinedErrors(b)}
        = {Error("undefined", b[Nth(U, k)].name) : k \in 1..N}
  BY <1>1
<1>5. {Error("undefined", b[Nth(U, k)].name) : k \in 1..N} = {Error("undefined", b[i].name) : i \in U}
  BY <1>3
<1> QED
  BY <1>4, <1>5 DEF U

(***************************************************************************)
(* The whitelist selects rules, it selects every rule that is named in it, *)
(* and no rule twice.                                                      *)
(***************************************************************************)
LEMMA FilteredFacts ==
  ASSUME NEW l \in Seq(RuleMade), Duplicates(l) = {}
  PROVE  /\ Filtered(l) \in Seq(RuleMade)
         /\ Duplicates(Filtered(l)) = {}
         /\ \A k \in DOMAIN Filtered(l) : \E m \in DOMAIN l : Filtered(l)[k] = l[m]
         /\ Names(Filtered(l)) =
              IF opts.filter = NoFilter THEN Names(l)
              ELSE Names(l) \intersect {opts.filter[i] : i \in DOMAIN opts.filter}
<1>1. CASE opts.filter = NoFilter
  <2>1. Filtered(l) = l
    BY <1>1 DEF Filtered
  <2> QED
    BY <1>1, <2>1
<1>2. CASE opts.filter # NoFilter
  <2> DEFINE F == {m \in DOMAIN l : \E i \in DOMAIN opts.filter : opts.filter[i] = l[m].name}
             N == Cardinality(F)
             at(k) == Nth(F, N + 1 - k)
  <2>0. DOMAIN l = 1..Len(l) /\ Len(l) \in Nat /\ \A m \in DOMAIN l : l[m] \in RuleMade
    BY LenProperties, ElementOfSeq
  <2>1. Filtered(l) = [k \in 1..N |-> l[at(k)]]
    BY <1>2 DEF Filtered
  <2>2. F \in SUBSET Nat /\ IsFiniteSet(F) /\ F \in SUBSET DOMAIN l
    <3>1. IsFiniteSet(1..Len(l)) /\ F \in SUBSET (1..Len(l)) /\ F \in SUBSET Nat
      BY SMTT(60), <2>0, FS_Interval
    <3> HIDE DEF F
    <3> QED
      BY <2>0, <3>1, FS_Subset
  <2>3. Names(l) \intersect {opts.filter[i] : i \in DOMAIN opts.filter} = {l[m].name : m \in F}
    BY DEF Names
  <2> HIDE DEF F
  <2>4. /\ N \in Nat
        /\ \A k \in 1..N : Nth(F, k) \in F
        /\ \A i \in F : \E k \in 1..N : Nth(F, k) = i
    BY <2>2, NthFacts
  <2>5. \A k \in 1..N : at(k) \in F
    <3>1. \A k \in 1..N : N + 1 - k \in 1..N
      BY <2>4
    <3> QED
      BY <2>4, <3>1
  <2>6. ASSUME NEW m \in F
        PROVE  \E k \in 1..N : at(k) = m
    <3>1. PICK k \in 1..N : Nth(F, k) = m
      BY <2>4
    <3>2. N + 1 - k \in 1..N /\ N + 1 - (N + 1 - k) = k
      BY <2>4
    <3>3. at(N + 1 - k) = m
      BY <3>1, <3>2
    <3> QED
      BY <3>2, <3>3
  <2>7. ASSUME NEW k \in 1..N, NEW j \in 1..N, at(k) = at(j)
        PROVE  k = j
    <3>1. PICK a \in 1..N, b \in 1..N : a = N + 1 - k /\ b = N + 1 - j
      BY SMTT(60), <2>4
    <3>2. Nth(F, a) = Nth(F, b)
      BY <2>7, <3>1
    <3>3. a = b
      BY <2>2, <3>2, NthIsInjective
    <3> QED
      BY <2>4, <3>1, <3>3
  <2> HIDE DEF at
  <2>8. [k \in 1..N |-> l[at(k)]] \in Seq(RuleMade)
    <3>1. \A k \in 1..N : l[at(k)] \in RuleMade
      BY <2>0, <2>2, <2>5
    <3> HIDE DEF N
    <3> QED
      BY <2>4, <3>1, IsASeq
  <2>9. Names(Filtered(l)) = {l[m].name : m \in F}
    BY <2>1, <2>5, <2>6 DEF Names
  <2>10. ASSUME NEW k \in 1..N, NEW j \in 1..k - 1, l[at(j)].name = l[at(k)].name
         PROVE  FALSE
    <3>1. j \in 1..N /\ j # k
      BY <2>4
    <3>2. at(j) # at(k)
      BY <2>7, <3>1
    <3>3. at(j) \in DOMAIN l /\ at(k) \in DOMAIN l
      BY <2>2, <2>5, <3>1
    <3>4. \A x \in DOMAIN l : \A y \in 1..x - 1 : l[y].name # l[x].name
      BY DEF Duplicates
    <3>5. at(j) < at(k) \/ at(k) < at(j)
      BY <2>0, <3>2, <3>3
    <3> QED
      BY <2>0, <2>10, <3>3, <3>4, <3>5
  <2>11. Duplicates(Filtered(l)) = {}
    BY <2>1, <2>4, <2>10 DEF Duplicates
  <2> QED
    BY <1>2, <2>1, <2>2, <2>3, <2>5, <2>8, <2>9, <2>11
<1> QED
  BY <1>1, <1>2

\* The list of alternatives that the term at i stands in ends within the rule.
LEMMA ListEndFacts ==
  ASSUME NEW b, Len(b) \in Nat, \A k \in 1..Len(b) : b[k].depth \in Nat, NEW i \in 1..Len(b)
  PROVE  ListEnd(b, i) \in i..Len(b)
<1> DEFINE P(j) == /\ \A k \in i..j : b[k].depth >= b[i].depth
                   /\ j < Len(b) => b[j + 1].depth < b[i].depth
           D == {k \in i + 1..Len(b) : b[k].depth < b[i].depth}
<1>1. \E j \in i..Len(b) : P(j)
  <2>1. CASE D = {}
    <3>1. \A k \in i..Len(b) : b[k].depth >= b[i].depth
      <4>1. ASSUME NEW k \in i..Len(b)
            PROVE  b[k].depth >= b[i].depth
        <5>1. b[k].depth \in Nat /\ b[i].depth \in Nat
          OBVIOUS
        <5>2. k = i \/ k \in i + 1..Len(b)
          OBVIOUS
        <5> QED
          BY <2>1, <5>1, <5>2
      <4> QED
        BY <4>1
    <3> QED
      BY <3>1
  <2>2. CASE D # {}
    <3>1. D \in SUBSET Nat /\ IsFiniteSet(D)
      <4>0. i + 1 \in Int /\ Len(b) \in Int
        OBVIOUS
      <4>1. IsFiniteSet(i + 1..Len(b)) /\ D \in SUBSET (i + 1..Len(b))
        BY <4>0, FS_Interval
      <4>2. IsFiniteSet(D)
        BY <4>1, FS_Subset
      <4> QED
        BY <4>1, <4>2
    <3>2. PICK d \in D : \A k \in D : d <= k
      <4> HIDE DEF D
      <4> QED
        BY <2>2, <3>1, FirstAndLast
    <3>3. d - 1 \in i..Len(b) /\ d - 1 + 1 = d
      OBVIOUS
    <3>4. ASSUME NEW k \in i..d - 1
          PROVE  b[k].depth >= b[i].depth
      <4>1. b[k].depth \in Nat /\ b[i].depth \in Nat
        OBVIOUS
      <4>2. k = i \/ (k \notin D /\ k \in i + 1..Len(b))
        BY <3>2
      <4> QED
        BY <4>1, <4>2
    <3> QED
      BY <3>3, <3>4
  <2> QED
    BY <2>1, <2>2
<1> QED
  BY <1>1 DEF ListEnd

LEMMA PlacesFacts ==
  ASSUME TypeInv
  PROVE  /\ Len(src) \in Nat /\ DOMAIN src = 1..Len(src)
         /\ \A m \in DOMAIN src : /\ src[m] \in WrittenRule /\ src[m].body \in WrittenBody
                                  /\ DOMAIN src[m].body = 1..Len(src[m].body)
                                  /\ Len(src[m].body) \in Nat
         /\ \A q \in Places : /\ q = <<q[1], q[2]>> /\ q[1] \in DOMAIN src /\ q[1] \in Nat
                              /\ q[2] \in DOMAIN src[q[1]].body /\ q[2] \in Nat
         /\ \A m \in DOMAIN src : \A i \in DOMAIN src[m].body : <<m, i>> \in Places
<1>1. Len(src) \in Nat /\ DOMAIN src = 1..Len(src) /\ \A m \in DOMAIN src : src[m] \in WrittenRule
  <2>1. src \in Seq(WrittenRule)
    BY DEF TypeInv
  <2> QED
    BY <2>1, LenProperties, ElementOfSeq
<1>2. \A m \in DOMAIN src : /\ src[m].body \in WrittenBody
                            /\ DOMAIN src[m].body = 1..Len(src[m].body)
                            /\ Len(src[m].body) \in Nat
  <2>1. \A m \in DOMAIN src : src[m].body \in WrittenBody
    BY <1>1 DEF WrittenRule
  <2> QED
    BY <2>1, WrittenBodyFacts
<1>3. ASSUME NEW q \in Places
      PROVE  /\ q = <<q[1], q[2]>> /\ q[1] \in DOMAIN src /\ q[1] \in Nat
             /\ q[2] \in DOMAIN src[q[1]].body /\ q[2] \in Nat
  <2>0. PICK m \in DOMAIN src : \E i \in DOMAIN src[m].body : q = <<m, i>>
    BY DEF Places
  <2>1. PICK i \in DOMAIN src[m].body : q = <<m, i>>
    BY <2>0
  <2>2. m \in Nat /\ i \in Nat
    BY <1>1, <1>2
  <2> QED
    BY <2>1, <2>2
<1>4. \A m \in DOMAIN src : \A i \in DOMAIN src[m].body : <<m, i>> \in Places
  BY DEF Places
<1> QED
  BY <1>1, <1>2, <1>3, <1>4

\* In the rule that is read next, what is written after "kgt:invisible" and
\* before the next "kgt:visible" finds act_state->invisible set.
LEMMA StateIsWritten ==
  ASSUME TypeInv, PragmaInv, pc = "read", n < Len(src),
         NEW i \in DOMAIN src[n + 1].body, WrittenInvisible(<<n + 1, i>>)
  PROVE  StateAt(src[n + 1].body, i, invisible) = TRUE
<1> DEFINE b == src[n + 1].body
<1>0. PICK m : m = n + 1
  OBVIOUS
<1>1. n \in Nat /\ m \in Nat /\ m \in DOMAIN src /\ i \in Nat /\ invisible \in BOOLEAN
      /\ i \in 1..Len(b) /\ DOMAIN b = 1..Len(b) /\ b = src[m].body
  <2>1. n \in Nat /\ n + 1 \in DOMAIN src /\ invisible \in BOOLEAN
    BY PlacesFacts DEF TypeInv
  <2> QED
    BY <1>0, <2>1, PlacesFacts
<1>2. PICK r \in UpTo(<<m, i>>) :
        /\ Written(r) = "ON"
        /\ \A o \in UpTo(<<m, i>>) : Written(o) = "OFF" => o \in UpTo(r)
  BY <1>0 DEF WrittenInvisible
<1>3. /\ r \in Places
      /\ r[1] < m \/ (r[1] = m /\ r[2] <= i)
      /\ r[1] \in Nat /\ r[2] \in Nat /\ r[2] \in DOMAIN src[r[1]].body
  BY <1>1, PlacesFacts DEF UpTo
<1>4. r[1] = m => Pragma(b[r[2]]) /\ b[r[2]].type = "ON"
  BY <1>1, <1>2 DEF Written, Pragma
<1>5. CASE /\ \A j \in 1..i : ~Pragma(b[j])
           /\ StateAt(b, i, invisible) = invisible
  <2>1. r[1] <= n
    <3>1. r[1] # m
      BY <1>1, <1>3, <1>4, <1>5
    <3> QED
      BY <1>0, <1>1, <1>3, <3>1
  <2>2. \A o \in Places : o[1] <= n /\ Written(o) = "OFF" => o \in UpTo(r)
    <3>1. \A o \in Places : o[1] <= n => o \in UpTo(<<m, i>>)
      <4> SUFFICES ASSUME NEW o \in Places, o[1] <= n
                   PROVE  o[1] < m
        BY DEF UpTo
      <4> QED
        BY <1>0, <1>1, PlacesFacts
    <3> QED
      BY <1>2, <3>1
  <2>3. invisible
    <3>1. \E s \in Places : /\ s[1] <= n /\ Written(s) = "ON"
                            /\ \A o \in Places : o[1] <= n /\ Written(o) = "OFF" => o \in UpTo(s)
      <4>1. r \in Places /\ r[1] <= n /\ Written(r) = "ON"
        BY <1>2, <1>3, <2>1
      <4> QED
        BY <4>1, <2>2, Zenon
    <3> QED
      BY <3>1, Zenon DEF PragmaInv
  <2> QED
    BY <1>1, <1>5, <2>3
<1>6. ASSUME NEW j \in 1..i, Pragma(b[j]), \A k \in 1..i : Pragma(b[k]) => k <= j,
             StateAt(b, i, invisible) = (b[j].type = "ON")
      PROVE  StateAt(b, i, invisible) = TRUE
  <2>1. CASE b[j].type = "OFF"
    <3>1. <<m, j>> \in Places /\ <<m, j>>[1] = m /\ <<m, j>>[2] = j /\ j \in Nat
      BY <1>1, PlacesFacts
    <3>2. <<m, j>> \in UpTo(<<m, i>>) /\ Written(<<m, j>>) = "OFF"
      BY <1>1, <2>1, <3>1 DEF UpTo, Written
    <3>3. <<m, j>> \in UpTo(r)
      BY <1>2, <3>2
    <3>4. m < r[1] \/ (m = r[1] /\ j <= r[2])
      BY <3>1, <3>3 DEF UpTo
    <3>5. r[1] = m /\ j <= r[2] /\ r[2] <= i
      BY <1>1, <1>3, <3>4
    <3>6. r[2] <= j
      BY <1>1, <1>3, <1>4, <1>6, <3>5
    <3>7. r[2] = j
      BY <1>3, <3>1, <3>5, <3>6
    <3> QED
      BY <1>4, <2>1, <3>5, <3>7
  <2>2. CASE b[j].type = "ON"
    BY <1>6, <2>2
  <2> QED
    BY <1>6, <2>1, <2>2 DEF Pragma
<1> QED
  BY <1>1, <1>5, <1>6, StateAtFacts

LEMMA MakeRuleMadeFrom ==
  ASSUME TypeInv, PragmaInv, pc = "read", n < Len(src)
  PROVE  /\ MadeFrom(MakeRule(src[n + 1], invisible), n + 1)
         /\ Unlinked(MakeRule(src[n + 1], invisible), n + 1)
<1> DEFINE b == src[n + 1].body
           rule == MakeRule(src[n + 1], invisible)
<1>1. n + 1 \in DOMAIN src /\ invisible \in BOOLEAN
  BY PlacesFacts DEF TypeInv
<1>2. b \in WrittenBody /\ Len(b) \in Nat /\ DOMAIN b = 1..Len(b)
      /\ \A i \in DOMAIN b : /\ b[i].depth \in Nat
                             /\ LastInside(b, i) \in i..Len(b)
                             /\ b[i].type # "GROUP" => LastInside(b, i) = i
  BY <1>1, PlacesFacts, WrittenBodyFacts
<1>3. /\ rule.name = src[n + 1].name /\ DOMAIN rule.body = DOMAIN b
      /\ \A i \in DOMAIN b :
           /\ rule.body[i].type = AsRead(b[i].type)
           /\ rule.body[i].name = b[i].name
           /\ rule.body[i].letters = b[i].letters
           /\ rule.body[i].form = b[i].form
           /\ rule.body[i].depth = b[i].depth
           /\ rule.body[i].invisible = StateAt(b, LastInside(b, i), invisible)
           /\ rule.body[i].hidden = StateAt(b, ListEnd(b, i), invisible)
  BY DEF MakeRule, AsRead
<1>4. ASSUME NEW i \in DOMAIN b, ~HasPragma(src)
      PROVE  ~rule.body[i].invisible /\ ~rule.body[i].hidden
  <2>1. \A j \in DOMAIN b : ~Pragma(b[j])
    BY <1>1, <1>4 DEF HasPragma, Pragma
  <2>2. invisible = FALSE
    BY <1>1, <1>4 DEF PragmaInv
  <2>3. ASSUME NEW j \in i..Len(b)
        PROVE  StateAt(b, j, invisible) = FALSE
    <3>1. j \in Nat /\ \A k \in 1..j : ~Pragma(b[k])
      BY <1>2, <2>1
    <3>2. StateAt(b, j, invisible) = invisible
      BY <3>1, StateAtFacts
    <3> QED
      BY <2>2, <3>2
  <2>4. ListEnd(b, i) \in i..Len(b)
    BY <1>2, ListEndFacts
  <2> HIDE DEF b, rule
  <2>5. /\ StateAt(b, LastInside(b, i), invisible) = FALSE
        /\ StateAt(b, ListEnd(b, i), invisible) = FALSE
    BY <1>2, <2>3, <2>4
  <2> QED
    BY <1>3, <1>4, <2>5
<1>5. ASSUME NEW i \in DOMAIN b,
             Written(<<n + 1, i>>) # "GROUP", WrittenInvisible(<<n + 1, i>>)
      PROVE  rule.body[i].invisible
  <2>1. LastInside(b, i) = i
    BY <1>2, <1>5 DEF Written
  <2>2. StateAt(b, i, invisible) = TRUE
    BY <1>5, StateIsWritten
  <2> HIDE DEF b, rule
  <2> QED
    BY <1>3, <1>5, <2>1, <2>2
<1> HIDE DEF rule, b
<1>6. \A i \in DOMAIN rule.body :
        /\ rule.body[i].name = b[i].name
        /\ rule.body[i].letters = b[i].letters
        /\ rule.body[i].form = b[i].form
        /\ rule.body[i].depth = b[i].depth
        /\ ~HasPragma(src) => ~rule.body[i].invisible /\ ~rule.body[i].hidden
        /\ Written(<<n + 1, i>>) # "GROUP" /\ WrittenInvisible(<<n + 1, i>>) => rule.body[i].invisible
  BY <1>3, <1>4, <1>5
<1>7. MadeFrom(rule, n + 1)
  BY <1>1, <1>3, <1>6 DEF MadeFrom, b
<1>8. Unlinked(rule, n + 1)
  BY <1>3 DEF Unlinked, b
<1> QED
  BY <1>7, <1>8 DEF rule

\* What is said of a rule and of its source stays true as long as both do.
LEMMA SourceStays ==
  ASSUME src' = src, NEW rule, NEW m
  PROVE  /\ MadeFrom(rule, m) => MadeFrom(rule, m)'
         /\ Unlinked(rule, m) => Unlinked(rule, m)'
         /\ CiLeft(rule, m) => CiLeft(rule, m)'
         /\ CiDone(rule, m) => CiDone(rule, m)'
         /\ InvisibleDone(rule) => InvisibleDone(rule)'
         /\ opts' = opts /\ (Queued # {} => Queued' # {}) /\ Linked(rule, m) => Linked(rule, m)'
         /\ opts' = opts /\ Deserved(rule) => Deserved(rule)'
<1>1. /\ MadeFrom(rule, m) => MadeFrom(rule, m)'
      /\ Unlinked(rule, m) => Unlinked(rule, m)'
  BY DEF MadeFrom, Written, WrittenInvisible, UpTo, Places, Unlinked
<1>2. /\ CiLeft(rule, m) => CiLeft(rule, m)'
      /\ CiDone(rule, m) => CiDone(rule, m)'
      /\ InvisibleDone(rule) => InvisibleDone(rule)'
  BY DEF CiLeft, CiDone, InvisibleDone
<1>3. opts' = opts /\ (Queued # {} => Queued' # {}) /\ Linked(rule, m) => Linked(rule, m)'
  BY DEF Linked, CanBe
<1>4. opts' = opts /\ Deserved(rule) => Deserved(rule)'
  BY DEF Deserved
<1> QED
  BY <1>1, <1>2, <1>3, <1>4

\* Nothing but the types of the terms differs.
Retyped(b, c) ==
  /\ DOMAIN c = DOMAIN b
  /\ \A i \in DOMAIN b : /\ c[i].name = b[i].name
                         /\ c[i].letters = b[i].letters
                         /\ c[i].form = b[i].form
                         /\ c[i].depth = b[i].depth
                         /\ c[i].invisible = b[i].invisible
                         /\ c[i].hidden = b[i].hidden

\* A step of a walk gives one rule new types and leaves the others alone.
LEMMA BodySet ==
  ASSUME TypeInv, PlacesInv, pc \in {"link", "report", "rewrite"}, n <= Len(g),
         NEW b \in Seq(Made), Retyped(g[n].body, b),
         g' = [g EXCEPT ![n].body = b], src' = src
  PROVE  /\ n \in DOMAIN g /\ g' \in Seq(RuleMade) /\ Len(g') = Len(g) /\ DOMAIN g' = DOMAIN g
         /\ \A k \in DOMAIN g : k # n => g'[k] = g[k]
         /\ g'[n].body = b
         /\ Duplicates(g') = {} /\ Names(g') = Names(g)
         /\ \A k \in DOMAIN g : MadeFrom(g[k], k)'
<1>1. /\ g \in Seq(RuleMade) /\ DOMAIN g = 1..Len(g) /\ Len(g) \in Nat /\ n \in 1..Len(g)
      /\ Duplicates(g) = {}
      /\ \A k \in DOMAIN g : MadeFrom(g[k], k)
  <2>1. g \in Seq(RuleMade) /\ n \in 1..Len(g) + 1
    BY DEF TypeInv, PlacesInv
  <2> QED
    BY <2>1, LenProperties DEF PlacesInv
<1>2. g[n] \in RuleMade
  BY <1>1, ElementOfSeq
<1> DEFINE rule == [g[n] EXCEPT !.body = b]
<1>3. rule \in RuleMade /\ rule.body = b /\ rule.name = g[n].name
  BY <1>2 DEF RuleMade
<1>4. g' = [g EXCEPT ![n] = rule]
  OBVIOUS
<1> HIDE DEF rule
<1>5. /\ g' \in Seq(RuleMade) /\ Len(g') = Len(g) /\ DOMAIN g' = DOMAIN g
      /\ g'[n] = rule /\ \A k \in DOMAIN g : k # n => g'[k] = g[k]
  BY <1>1, <1>3, <1>4, ExceptSeq
<1>6. \A k \in DOMAIN g : g'[k].name = g[k].name
  BY <1>3, <1>5
<1>7. Duplicates(g') = {} /\ Names(g') = Names(g)
  <2>1. ASSUME NEW k \in DOMAIN g, NEW j \in 1..k - 1
        PROVE  g'[j].name # g'[k].name
    <3>1. j \in DOMAIN g
      BY <1>1
    <3>2. g[j].name # g[k].name
      BY <1>1 DEF Duplicates
    <3> QED
      BY <1>6, <3>1, <3>2
  <2> QED
    BY <1>5, <1>6, <2>1 DEF Duplicates, Names
<1>8. MadeFrom(rule, n)
  <2>1. MadeFrom(g[n], n)
    BY <1>1
  <2> QED
    BY <1>3, <2>1 DEF MadeFrom, Retyped
<1>9. \A k \in DOMAIN g : MadeFrom(g'[k], k)
  BY <1>1, <1>5, <1>8
<1>10. ASSUME NEW k \in DOMAIN g
       PROVE  MadeFrom(g[k], k)'
  <2>1. PICK r : r = g'[k]
    OBVIOUS
  <2>2. MadeFrom(r, k)'
    BY <1>9, <2>1, SourceStays
  <2>3. r = g'[k]
    BY <2>1
  <2> QED
    BY <2>2, <2>3 DEF MadeFrom
<1> QED
  BY <1>1, <1>3, <1>5, <1>7, <1>10
-----------------------------------------------------------------------------
LEMMA AppendIsASequence ==
  ASSUME NEW s, NEW e, IsASequence(s)
  PROVE  IsASequence(Append(s, e))
<1>1. <<e>> \in Seq({e})
  OBVIOUS
<1>2. PICK S : s \in Seq(S) /\ <<e>> \in Seq(S)
  BY <1>1, InSeqIsASequence, SequencesOfOneSet
<1>3. e \in S
  BY <1>2, ElementOfSeq
<1> QED
  BY <1>2, <1>3, AppendProperties, InSeqIsASequence

\* Queueing an error, printing one.
LEMMA QueuedFacts ==
  ASSUME TypeInv
  PROVE  /\ \A e : printed' = printed /\ errors' = Append(errors, e) => Queued' = Queued \union {e}
         /\ \A s : IsASequence(s) /\ printed' = printed /\ errors' = errors \o s
                     => Queued' = Queued \union {s[i] : i \in DOMAIN s}
         /\ printed' = printed /\ errors' = errors => Queued' = Queued
         /\ errors # <<>> /\ printed' = Append(printed, Head(errors)) /\ errors' = Tail(errors)
              => Queued' = Queued
         /\ Queued = {} <=> printed = <<>> /\ errors = <<>>
<1>0. IsASequence(errors) /\ IsASequence(printed)
  BY DEF TypeInv
<1>1. ASSUME NEW e, printed' = printed, errors' = Append(errors, e)
      PROVE  Queued' = Queued \union {e}
  <2>1. <<e>> \in Seq({e})
    OBVIOUS
  <2>2. IsASequence(<<e>>)
    BY <2>1, InSeqIsASequence
  <2>3. PICK S : errors \in Seq(S) /\ <<e>> \in Seq(S)
    BY <1>0, <2>2, SequencesOfOneSet
  <2>4. e \in S
    BY <2>3, ElementOfSeq
  <2>5. /\ Len(errors') = Len(errors) + 1 /\ errors' \in Seq(S)
        /\ \A i \in 1..Len(errors) : errors'[i] = errors[i]
        /\ errors'[Len(errors) + 1] = e
    BY <1>1, <2>3, <2>4, AppendProperties
  <2>6. /\ Len(errors) \in Nat /\ DOMAIN errors = 1..Len(errors)
        /\ DOMAIN errors' = 1..Len(errors) + 1
    BY <2>3, <2>5, LenProperties
  <2>7. {errors'[i] : i \in DOMAIN errors'} = {errors[i] : i \in DOMAIN errors} \union {e}
    BY <2>5, <2>6
  <2> QED
    BY <1>1, <2>7 DEF Queued
<1>2. ASSUME NEW s, IsASequence(s), printed' = printed, errors' = errors \o s
      PROVE  Queued' = Queued \union {s[i] : i \in DOMAIN s}
  <2>1. PICK S : errors \in Seq(S) /\ s \in Seq(S)
    BY <1>0, <1>2, SequencesOfOneSet
  <2>2. errors' \in Seq(S) /\ Range(errors') = Range(errors) \union Range(s)
    BY <1>2, <2>1, RangeConcatenation, ConcatProperties
  <2> QED
    BY <1>2, <2>2 DEF Queued, Range
<1>3. ASSUME errors # <<>>, printed' = Append(printed, Head(errors)), errors' = Tail(errors)
      PROVE  Queued' = Queued
  <2>1. /\ IsASequence(printed') /\ IsASequence(errors')
        /\ printed' \o errors' = printed \o errors
    BY <1>0, <1>3, PopKeepsOrder
  <2>2. PICK S : printed \in Seq(S) /\ errors \in Seq(S)
    BY <1>0, SequencesOfOneSet
  <2>3. PICK T : printed' \in Seq(T) /\ errors' \in Seq(T)
    BY <2>1, SequencesOfOneSet
  <2>4. /\ Range(printed \o errors) = Range(printed) \union Range(errors)
        /\ Range(printed' \o errors') = Range(printed') \union Range(errors')
    BY <2>2, <2>3, RangeConcatenation
  <2> QED
    BY <2>1, <2>4 DEF Queued, Range
<1>4. Queued = {} <=> printed = <<>> /\ errors = <<>>
  <2>1. ASSUME NEW s, IsASequence(s)
        PROVE  s = <<>> <=> {s[i] : i \in DOMAIN s} = {}
    <3>1. /\ Len(s) \in Nat /\ DOMAIN s = 1..Len(s)
          /\ s # <<>> => Len(s) \in Nat \ {0}
      BY <2>1, LenProperties, EmptySeq DEF IsASequence
    <3>2. CASE s = <<>>
      BY <3>2
    <3>3. CASE s # <<>>
      <4>1. 1 \in DOMAIN s
        BY <3>1, <3>3
      <4> QED
        BY <3>3, <4>1
    <3> QED
      BY <3>2, <3>3
  <2> QED
    BY <1>0, <2>1 DEF Queued
<1>5. printed' = printed /\ errors' = errors => Queued' = Queued
  BY DEF Queued
<1> QED
  BY <1>1, <1>2, <1>3, <1>4, <1>5

LEMMA InitRulesInv == Init => RulesInv
<1> SUFFICES ASSUME Init
             PROVE  RulesInv
  OBVIOUS
<1>1. /\ src \in Seq(WrittenRule) /\ Len(src) \in Nat /\ DOMAIN src = 1..Len(src)
      /\ opts \in CommandLines
  BY GrammarsAssumption, OptionsAssumption, LenProperties DEF Init, CommandLines
<1>2. /\ <<>> \in Seq({}) /\ <<>> \in Seq(RuleMade) /\ DOMAIN <<>> = {} /\ Len(<<>>) = 0
  BY EmptySeq
<1>3. IsASequence(<<>>)
  BY <1>2, InSeqIsASequence
<1>4. /\ pc = "read" /\ n = 0 /\ read = <<>> /\ g = <<>> /\ errors = <<>> /\ printed = <<>>
      /\ v = opts.unsupported
  BY DEF Init
<1>5. TypeInv
  <2>1. n \in 0..Len(src) + 1 /\ v \subseteq opts.unsupported
    BY <1>1, <1>4
  <2>2. invisible \in BOOLEAN
    BY Zenon DEF Init
  <2> QED
    BY <1>1, <1>2, <1>3, <1>4, <2>1, <2>2 DEF TypeInv
<1>6. Queued = {}
  BY <1>2, <1>4 DEF Queued
<1>7. PlacesInv
  BY <1>1, <1>2, <1>4 DEF PlacesInv, Duplicates
<1>8. PragmaInv
  <2>1. ~\E r \in Places : r[1] <= n
    BY <1>1, <1>4, <1>5, PlacesFacts
  <2>2. ~invisible
    BY Zenon DEF Init
  <2> QED
    BY <2>1, <2>2, Zenon DEF PragmaInv
<1>9. ErrorsInv
  BY <1>1, <1>4, <1>6 DEF ErrorsInv
<1>10. LinkInv /\ RewriteInv
  BY <1>4 DEF LinkInv, RewriteInv
<1> QED
  BY <1>5, <1>7, <1>8, <1>9, <1>10 DEF RulesInv

LEMMA SyntaxErrorRulesInv == RulesInv /\ SyntaxError => RulesInv'
<1> SUFFICES ASSUME RulesInv, SyntaxError
             PROVE  RulesInv'
  OBVIOUS
<1> DEFINE e == Error("syntax", src[n + 1].name)
<1>1. /\ pc' = "failed" /\ n < Len(src) /\ src[n + 1].fault = "syntax"
      /\ errors' = Append(errors, e) /\ printed' = printed
      /\ UNCHANGED <<src, opts, n, read, g, invisible, printed, v>>
  BY DEF SyntaxError
<1>2. TypeInv /\ Duplicates(g) = {} /\ \A x \in Queued : Deserved(x)
  BY DEF RulesInv, PlacesInv, ErrorsInv
<1>3. n + 1 \in DOMAIN src
  BY <1>1, <1>2, PlacesFacts DEF TypeInv
<1>4. IsASequence(errors')
  <2> HIDE DEF e
  <2> QED
    BY <1>1, <1>2, AppendIsASequence DEF TypeInv
<1>5. TypeInv'
  <2>1. IsASequence(printed)'
    BY <1>1, <1>2 DEF TypeInv
  <2> QED
    BY <1>1, <1>2, <1>4, <2>1 DEF TypeInv
<1>6. ErrorsInv'
  <2>1. Deserved(e)
    BY <1>1, <1>3 DEF Deserved, Error
  <2>2. Queued' = Queued \union {e}
    BY <1>1, <1>2, QueuedFacts
  <2>3. \A x \in Queued' : Deserved(x)'
    BY <1>1, <1>2, <2>1, <2>2, SourceStays
  <2> QED
    BY <1>1, <2>3 DEF ErrorsInv
<1> QED
  BY <1>1, <1>2, <1>5, <1>6 DEF RulesInv, PlacesInv, PragmaInv, LinkInv, RewriteInv

LEMMA ReadRuleRulesInv == RulesInv /\ ReadRule => RulesInv'
<1> SUFFICES ASSUME RulesInv, ReadRule
             PROVE  RulesInv'
  OBVIOUS
<1> DEFINE r == src[n + 1]
           made == MakeRule(r, invisible)
           e == Error("expected", r.name)
<1>1. /\ pc = "read" /\ pc' = "read" /\ n < Len(src) /\ n' = n + 1 /\ r.fault # "syntax"
      /\ read' = Append(read, made) /\ invisible' = StateAt(r.body, Len(r.body), invisible)
      /\ errors' = IF r.fault = "expected" THEN Append(errors, e) ELSE errors
      /\ UNCHANGED <<src, opts, g, printed, v>>
  BY DEF ReadRule
<1>2. /\ TypeInv /\ PlacesInv /\ PragmaInv /\ ErrorsInv /\ LinkInv
      /\ n \in Nat /\ Len(read) = n /\ g = <<>> /\ Len(g) = 0 /\ DOMAIN g = {}
      /\ read \in Seq(RuleMade) /\ DOMAIN read = 1..n /\ Duplicates(g) = {}
      /\ \A k \in DOMAIN read : MadeFrom(read[k], k) /\ Unlinked(read[k], k)
  <2>1. TypeInv /\ PlacesInv /\ PragmaInv /\ ErrorsInv /\ LinkInv
    BY DEF RulesInv
  <2>2. /\ read \in Seq(RuleMade) /\ n \in Nat /\ Len(read) = n /\ g = <<>> /\ Duplicates(g) = {}
        /\ \A k \in DOMAIN read : MadeFrom(read[k], k) /\ Unlinked(read[k], k)
    BY <1>1, <2>1, PlacesFacts DEF TypeInv, PlacesInv
  <2> QED
    BY <2>1, <2>2, LenProperties, EmptySeq
<1>3. /\ n + 1 \in DOMAIN src /\ r \in WrittenRule /\ r.body \in WrittenBody
      /\ Len(r.body) \in DOMAIN r.body /\ Len(src) \in Nat /\ DOMAIN src = 1..Len(src)
  <2>1. n + 1 \in DOMAIN src /\ r \in WrittenRule /\ r.body \in WrittenBody
        /\ Len(src) \in Nat /\ DOMAIN src = 1..Len(src)
    BY <1>1, <1>2, PlacesFacts
  <2> HIDE DEF r
  <2> QED
    BY <2>1, WrittenBodyFacts
<1>4. made \in RuleMade
  BY <1>2, <1>3, MakeRuleType DEF TypeInv
<1>5. MadeFrom(made, n + 1) /\ Unlinked(made, n + 1)
  BY <1>1, <1>2, MakeRuleMadeFrom
<1> HIDE DEF made
<1>6. /\ read' \in Seq(RuleMade) /\ Len(read') = n + 1 /\ DOMAIN read' = 1..n + 1
      /\ \A k \in 1..n : read'[k] = read[k]
      /\ read'[n + 1] = made
  BY <1>1, <1>2, <1>4, AppendProperties, LenProperties
<1>7. TypeInv'
  <2>1. invisible' \in BOOLEAN
    BY <1>1, <1>2, StateAtType DEF TypeInv
  <2>2. IsASequence(errors')
    <3> HIDE DEF e, r
    <3> QED
      BY <1>1, <1>2, AppendIsASequence DEF TypeInv
  <2>3. n' \in 0..Len(src') + 1
    BY <1>1, <1>2, <1>3
  <2>4. IsASequence(printed)'
    BY <1>1, <1>2 DEF TypeInv
  <2> QED
    BY <1>1, <1>2, <1>6, <2>1, <2>2, <2>3, <2>4 DEF TypeInv
<1>8. PlacesInv'
  <2>1. ASSUME NEW k \in 1..n + 1
        PROVE  MadeFrom(read[k], k)' /\ Unlinked(read[k], k)'
    <3>1. PICK rule : rule = read'[k]
      OBVIOUS
    <3>2. MadeFrom(rule, k) /\ Unlinked(rule, k)
      <4>1. CASE k = n + 1
        BY <1>5, <1>6, <3>1, <4>1
      <4>2. CASE k # n + 1
        BY <1>2, <1>6, <3>1, <4>2
      <4> QED
        BY <4>1, <4>2
    <3>3. MadeFrom(rule, k)' /\ Unlinked(rule, k)'
      BY <1>1, <3>2, SourceStays
    <3> QED
      BY <3>1, <3>3 DEF MadeFrom, Unlinked
  <2>2. n' <= Len(src') /\ Len(g') = 0 /\ Len(read') + Len(g') = n' /\ DOMAIN g' = {}
    BY <1>1, <1>2, <1>3, <1>6
  <2> QED
    BY <1>1, <1>2, <1>6, <2>1, <2>2 DEF PlacesInv
<1>9. PragmaInv'
  <2>1. ~HasPragma(src) => ~invisible'
    <3> SUFFICES ASSUME ~HasPragma(src)
                 PROVE  invisible' = FALSE
      BY Zenon
    <3>1. \A j \in DOMAIN r.body : ~Pragma(r.body[j])
      BY <1>3 DEF HasPragma, Pragma
    <3>2. PICK l \in Nat : l = Len(r.body) /\ DOMAIN r.body = 1..l
      BY <1>3, WrittenBodyFacts
    <3>3. StateAt(r.body, l, invisible) = invisible
      BY <3>1, <3>2, StateAtFacts
    <3>4. invisible = FALSE
      BY <1>1, <1>2 DEF PragmaInv, TypeInv
    <3> QED
      BY <1>1, <3>2, <3>3, <3>4
  <2>2. ASSUME NEW q \in Places, q[1] <= n + 1, Written(q) = "ON",
               \A o \in Places : o[1] <= n + 1 /\ Written(o) = "OFF" => o \in UpTo(q)
        PROVE  invisible' = TRUE
    <3>1. PICK l : l = Len(r.body)
      OBVIOUS
    <3>2. UpTo(<<n + 1, l>>) = {o \in Places : o[1] <= n + 1}
      <4>1. ASSUME NEW o \in Places
            PROVE  o[1] < n + 1 \/ (o[1] = n + 1 /\ o[2] <= l) <=> o[1] <= n + 1
        <5>1. o[1] \in Nat /\ o[2] \in DOMAIN src[o[1]].body
          BY <1>2, PlacesFacts
        <5>2. o[1] = n + 1 => o[2] \in 1..l
          BY <1>3, <3>1, <5>1, WrittenBodyFacts
        <5>3. o[1] = n + 1 => o[2] <= l
          BY <5>2
        <5> QED
          BY <1>2, <5>1, <5>3
      <4>2. <<n + 1, l>>[1] = n + 1 /\ <<n + 1, l>>[2] = l
        OBVIOUS
      <4> QED
        BY <4>1, <4>2 DEF UpTo
    <3>3. WrittenInvisible(<<n + 1, l>>)
      BY <2>2, <3>2 DEF WrittenInvisible
    <3>4. StateAt(r.body, l, invisible) = TRUE
      BY <1>1, <1>2, <1>3, <3>1, <3>3, StateIsWritten
    <3> QED
      BY <1>1, <3>1, <3>4
  <2>3. (\E q \in Places : /\ q[1] <= n + 1 /\ Written(q) = "ON"
                           /\ \A o \in Places : o[1] <= n + 1 /\ Written(o) = "OFF" => o \in UpTo(q))
          => invisible'
    BY <2>2, Zenon
  <2>4. Places' = Places /\ (\A q : UpTo(q)' = UpTo(q) /\ Written(q)' = Written(q))
    BY <1>1 DEF Places, UpTo, Written
  <2>5. HasPragma(src)' = HasPragma(src) /\ n' = n + 1
    BY <1>1
  <2> QED
    BY <2>1, <2>3, <2>4, <2>5, Zenon DEF PragmaInv
<1>10. ErrorsInv'
  <2>1. CASE r.fault = "expected"
    <3>1. Queued' = Queued \union {e}
      BY <1>1, <1>2, <2>1, QueuedFacts
    <3>2. Deserved(e)
      BY <1>3, <2>1 DEF Deserved, Error
    <3>3. \A x \in Queued' : Deserved(x)'
      BY <1>1, <1>2, <3>1, <3>2, SourceStays DEF ErrorsInv
    <3>4. Queued' # {}
      BY <3>1
    <3> QED
      BY <1>1, <3>3, <3>4 DEF ErrorsInv
  <2>2. CASE r.fault # "expected"
    <3>1. Queued' = Queued
      BY <1>1, <1>2, <2>2, QueuedFacts
    <3>2. \A x \in Queued' : Deserved(x)'
      BY <1>1, <1>2, <3>1, SourceStays DEF ErrorsInv
    <3>3. r.fault = "none"
      BY <1>1, <1>3, <2>2 DEF WrittenRule
    <3>4. ASSUME Queued' = {}, NEW m \in DOMAIN src, m <= n + 1
          PROVE  src[m].fault = "none"
      <4>1. m = n + 1 \/ m <= n
        BY <1>2, <1>3, <3>4
      <4> QED
        BY <1>1, <1>2, <3>1, <3>3, <3>4, <4>1 DEF ErrorsInv
    <3> HIDE DEF r, e
    <3> QED
      BY <1>1, <3>2, <3>4 DEF ErrorsInv
  <2> QED
    BY <2>1, <2>2
<1>11. LinkInv' /\ RewriteInv'
  BY <1>1, <1>2 DEF LinkInv, RewriteInv
<1> QED
  BY <1>7, <1>8, <1>9, <1>10, <1>11 DEF RulesInv

LEMMA PragmaStays ==
  invisible \in BOOLEAN /\ PragmaInv /\ UNCHANGED <<src, n, invisible, pc>> => PragmaInv'
<1> SUFFICES ASSUME invisible \in BOOLEAN, PragmaInv, UNCHANGED <<src, n, invisible, pc>>
             PROVE  PragmaInv'
  OBVIOUS
<1>1. Places' = Places /\ (\A q : UpTo(q)' = UpTo(q) /\ Written(q)' = Written(q))
  BY DEF Places, UpTo, Written
<1>2. HasPragma(src)' = HasPragma(src) /\ n' = n /\ invisible' = invisible /\ pc' = pc
  OBVIOUS
<1>3. CASE pc = "read"
  <2>1. ~HasPragma(src) => invisible = FALSE
    BY <1>3, Zenon DEF PragmaInv
  <2>2. (\E r \in Places : /\ r[1] <= n /\ Written(r) = "ON"
                          /\ \A o \in Places : o[1] <= n /\ Written(o) = "OFF" => o \in UpTo(r))
          => invisible = TRUE
    BY <1>3, Zenon DEF PragmaInv
  <2>3. (invisible = FALSE => ~invisible') /\ (invisible = TRUE => invisible')
    BY <1>2
  <2> QED
    BY <1>1, <1>2, <2>1, <2>2, <2>3, Zenon DEF PragmaInv
<1>4. CASE pc # "read"
  BY <1>2, <1>4 DEF PragmaInv
<1> QED
  BY <1>3, <1>4

LEMMA AddRuleRulesInv == RulesInv /\ AddRule => RulesInv'
<1> SUFFICES ASSUME RulesInv, AddRule
             PROVE  RulesInv'
  OBVIOUS
<1> DEFINE r == read[Len(read)]
           e == Error("exists", r.name)
<1>1. /\ pc = "read" /\ pc' = "read" /\ n = Len(src) /\ read # <<>>
      /\ \/ r.name \in Names(g) /\ errors' = Append(errors, e) /\ g' = <<r>>
         \/ r.name \notin Names(g) /\ g' = <<r>> \o g /\ errors' = errors
      /\ read' = SubSeq(read, 1, Len(read) - 1)
      /\ UNCHANGED <<src, opts, pc, n, invisible, printed, v>>
  BY DEF AddRule
<1>2. /\ TypeInv /\ PlacesInv /\ PragmaInv /\ ErrorsInv /\ LinkInv
      /\ n \in Nat /\ g \in Seq(RuleMade) /\ DOMAIN g = 1..Len(g) /\ Len(g) \in Nat
      /\ read \in Seq(RuleMade) /\ DOMAIN read = 1..Len(read) /\ Duplicates(g) = {}
      /\ Len(read) + Len(g) <= n /\ (Clean => Len(read) + Len(g) = n)
      /\ Len(src) \in Nat /\ DOMAIN src = 1..Len(src)
      /\ \A k \in DOMAIN read : MadeFrom(read[k], k) /\ Unlinked(read[k], k)
      /\ \A k \in DOMAIN g : MadeFrom(g[k], Len(read) + k) /\ Unlinked(g[k], Len(read) + k)
  <2>1. TypeInv /\ PlacesInv /\ PragmaInv /\ ErrorsInv /\ LinkInv
    BY DEF RulesInv
  <2>2. g \in Seq(RuleMade) /\ read \in Seq(RuleMade) /\ n \in Nat
        /\ Len(src) \in Nat /\ DOMAIN src = 1..Len(src)
    BY <1>1, <2>1, PlacesFacts DEF TypeInv
  <2> QED
    BY <1>1, <2>1, <2>2, LenProperties DEF PlacesInv
<1>3. PICK m \in Nat : m = Len(read) /\ m >= 1 /\ m \in DOMAIN read
  <2>1. read \in Seq(RuleMade) /\ read # <<>> /\ DOMAIN read = 1..Len(read)
    BY <1>1, <1>2
  <2>2. Len(read) \in Nat /\ Len(read) # 0
    BY <2>1, EmptySeq, LenProperties
  <2>3. Len(read) >= 1 /\ Len(read) \in 1..Len(read)
    BY <2>2
  <2> QED
    BY <2>1, <2>2, <2>3
<1>4. r \in RuleMade /\ MadeFrom(r, m) /\ Unlinked(r, m) /\ r = read[m]
  BY <1>2, <1>3, ElementOfSeq
<1>5. /\ read' \in Seq(RuleMade) /\ Len(read') = m - 1 /\ DOMAIN read' = 1..m - 1
      /\ \A k \in 1..m - 1 : read'[k] = read[k]
  <2>1. \A i \in 1..m - 1 : read[i] \in RuleMade
    BY <1>2, <1>3, ElementOfSeq
  <2>2. read' = SubSeq(read, 1, m - 1)
    BY <1>1, <1>3
  <2>3. /\ SubSeq(read, 1, m - 1) \in Seq(RuleMade)
        /\ Len(SubSeq(read, 1, m - 1)) = IF 1 <= m - 1 THEN m - 1 - 1 + 1 ELSE 0
        /\ \A k \in 1..m - 1 - 1 + 1 : SubSeq(read, 1, m - 1)[k] = read[1 + k - 1]
    BY <2>1, SubSeqProperties
  <2>4. /\ read' \in Seq(RuleMade) /\ Len(read') = m - 1
        /\ \A k \in 1..m - 1 : read'[k] = read[1 + k - 1] /\ 1 + k - 1 = k
    BY <1>3, <2>2, <2>3
  <2> QED
    BY <2>4, LenProperties
<1> HIDE DEF r
<1>6. <<r>> \in Seq(RuleMade) /\ Len(<<r>>) = 1 /\ <<r>>[1] = r
  BY <1>4
<1>7. /\ g' \in Seq(RuleMade) /\ DOMAIN g' = 1..Len(g') /\ Len(g') \in Nat
      /\ Len(g') # 1 => Len(g') = Len(g) + 1 /\ (\A k \in 1..Len(g) : g'[k + 1] = g[k])
      /\ Len(g') = 1 \/ Len(g') = Len(g) + 1
      /\ g'[1] = r
  <2>1. CASE g' = <<r>>
    BY <1>6, <2>1, LenProperties
  <2>2. CASE g' = <<r>> \o g
    <3>1. /\ <<r>> \o g \in Seq(RuleMade) /\ Len(<<r>> \o g) = Len(<<r>>) + Len(g)
          /\ \A i \in 1..Len(<<r>>) + Len(g) :
               (<<r>> \o g)[i] = IF i <= Len(<<r>>) THEN <<r>>[i] ELSE g[i - Len(<<r>>)]
      BY <1>2, <1>6, ConcatProperties
    <3>2. /\ g' \in Seq(RuleMade) /\ Len(g') = 1 + Len(g)
          /\ \A i \in 1..1 + Len(g) : g'[i] = IF i <= 1 THEN <<r>>[i] ELSE g[i - 1]
      BY <1>6, <2>2, <3>1
    <3>3. \A k \in 1..Len(g) : k + 1 \in 1..1 + Len(g) /\ ~(k + 1 <= 1) /\ k + 1 - 1 = k
      BY <1>2
    <3>4. \A k \in 1..Len(g) : g'[k + 1] = g[k]
      BY <3>2, <3>3
    <3> QED
      BY <1>2, <1>6, <3>2, <3>4, LenProperties
  <2> QED
    BY <1>1, <2>1, <2>2
<1>8. ASSUME NEW k \in DOMAIN g'
      PROVE  MadeFrom(g'[k], m - 1 + k) /\ Unlinked(g'[k], m - 1 + k)
  <2>0. k \in 1..Len(g') /\ Len(g') \in Nat /\ Len(g) \in Nat /\ DOMAIN g = 1..Len(g)
    BY <1>2, <1>7
  <2>1. CASE k = 1
    <3>1. g'[k] = r /\ m - 1 + k = m
      <4>1. g'[1] = r /\ m \in Nat
        BY <1>3, <1>7
      <4> QED
        BY <2>1, <4>1
    <3> QED
      BY <1>4, <3>1
  <2>2. CASE k # 1
    <3>0. Len(g') # 1
      BY <2>0, <2>2
    <3>1. Len(g') = Len(g) + 1 /\ \A j \in 1..Len(g) : g'[j + 1] = g[j]
      BY <1>7, <3>0
    <3>2. PICK j \in 1..Len(g) : k = j + 1
      <4>1. k - 1 \in 1..Len(g) /\ k = k - 1 + 1
        BY <2>0, <2>2, <3>1
      <4> QED
        BY <4>1
    <3>3. g'[k] = g[j] /\ m - 1 + k = m + j /\ j \in DOMAIN g
      BY <2>0, <3>1, <3>2
    <3>4. MadeFrom(g[j], m + j) /\ Unlinked(g[j], m + j)
      BY <1>2, <1>3, <3>3
    <3> QED
      BY <3>3, <3>4
  <2> QED
    BY <2>1, <2>2
<1>9. r.name \in Names(g) => Duplicates(src) # {}
  <2> SUFFICES ASSUME r.name \in Names(g)
               PROVE  Duplicates(src) # {}
    OBVIOUS
  <2>1. PICK k \in DOMAIN g : g[k].name = r.name
    BY DEF Names
  <2>2. MadeFrom(g[k], m + k) /\ MadeFrom(r, m)
    BY <1>2, <1>3, <1>4
  <2>3. /\ m + k \in DOMAIN src /\ src[m].name = src[m + k].name
    BY <2>1, <2>2 DEF MadeFrom
  <2>4. k \in Nat /\ k >= 1
    BY <1>2
  <2>5. m \in 1..m + k - 1 /\ m + k \in Nat
    BY <1>3, <2>4
  <2>6. PICK j : j = m + k
    OBVIOUS
  <2>7. j \in DOMAIN src /\ m \in 1..j - 1 /\ src[m].name = src[j].name
    <3>1. m + k - 1 = j - 1
      BY <1>3, <2>4, <2>6
    <3> QED
      BY <2>3, <2>5, <2>6, <3>1
  <2>8. src[j].name \in Duplicates(src)
    <3>1. j \in {x \in DOMAIN src : \E y \in 1..x - 1 : src[y].name = src[x].name}
      BY <2>7
    <3> QED
      BY <3>1 DEF Duplicates
  <2> QED
    BY <2>8
<1>10. Duplicates(g') = {}
  <2>1. ASSUME NEW k \in DOMAIN g', NEW j \in 1..k - 1
        PROVE  g'[j].name # g'[k].name
    <3>0. k \in 1..Len(g') /\ Len(g') \in Nat /\ Len(g) \in Nat /\ DOMAIN g = 1..Len(g)
      BY <1>2, <1>7
    <3>1. k \in Nat /\ j \in Nat /\ k # 1 /\ Len(g') # 1
      BY <3>0
    <3>2. Len(g') = Len(g) + 1 /\ \A i \in 1..Len(g) : g'[i + 1] = g[i]
      BY <1>7, <3>1
    <3>3. r.name \notin Names(g)
      BY <1>1, <1>6, <3>1
    <3>4. PICK i \in 1..Len(g) : k = i + 1
      <4>1. k - 1 \in 1..Len(g) /\ k = k - 1 + 1
        BY <3>0, <3>1, <3>2
      <4> QED
        BY <4>1
    <3>5. g'[k] = g[i] /\ i \in DOMAIN g
      BY <3>0, <3>2, <3>4
    <3>6. CASE j = 1
      BY <1>7, <3>3, <3>5, <3>6 DEF Names
    <3>7. CASE j # 1
      <4>1. PICK l \in 1..i - 1 : j = l + 1
        <5>1. j - 1 \in 1..i - 1 /\ j = j - 1 + 1
          BY <3>1, <3>4, <3>7
        <5> QED
          BY <5>1
      <4>2. l \in 1..Len(g)
        BY <3>0
      <4>3. g'[j] = g[l]
        BY <3>2, <4>1, <4>2
      <4>4. g[l].name # g[i].name
        BY <1>2, <3>5, <4>1 DEF Duplicates
      <4> QED
        BY <3>5, <4>3, <4>4
    <3> QED
      BY <3>6, <3>7
  <2> QED
    BY <2>1 DEF Duplicates
<1>11. TypeInv'
  <2>1. IsASequence(errors')
    <3> HIDE DEF e
    <3>1. IsASequence(errors)
      BY <1>2 DEF TypeInv
    <3>2. errors' = Append(errors, e) \/ errors' = errors
      BY <1>1
    <3>3. IsASequence(Append(errors, e))
      BY <3>1, AppendIsASequence
    <3> QED
      BY <3>1, <3>2, <3>3
  <2>2. IsASequence(printed)'
    BY <1>1, <1>2 DEF TypeInv
  <2> QED
    BY <1>1, <1>2, <1>5, <1>7, <2>1, <2>2 DEF TypeInv
<1>12. Queued \subseteq Queued' /\ \A x \in Queued' : Deserved(x)'
  <2>1. CASE errors' = Append(errors, e) /\ r.name \in Names(g)
    <3>1. Queued' = Queued \union {e}
      BY <1>1, <1>2, <2>1, QueuedFacts
    <3>2. Deserved(e)
      BY <1>9, <2>1 DEF Deserved, Error
    <3> HIDE DEF e
    <3> QED
      BY <1>1, <1>2, <3>1, <3>2, SourceStays DEF ErrorsInv
  <2>2. CASE errors' = errors
    <3>1. Queued' = Queued
      BY <1>1, <1>2, <2>2, QueuedFacts
    <3> QED
      BY <1>1, <1>2, <3>1, SourceStays DEF ErrorsInv
  <2> QED
    BY <1>1, <2>1, <2>2
<1>13. PlacesInv'
  <2>1. Clean' => Len(read') + Len(g') = n'
    <3>1. CASE r.name \in Names(g)
      <4>1. Queued' # {}
        <5>1. Queued' = Queued \union {e}
          BY <1>1, <1>2, <3>1, QueuedFacts
        <5> QED
          BY <5>1
      <4>2. Duplicates(src)' # {}
        BY <1>1, <1>9, <3>1
      <4> QED
        BY <4>1, <4>2 DEF Clean
    <3>2. CASE r.name \notin Names(g)
      <4>1. Clean' => Clean
        BY <1>1, <1>12 DEF Clean
      <4>2. Len(g') = Len(g) + 1
        <5>1. g' = <<r>> \o g
          BY <1>1, <3>2
        <5> QED
          BY <1>2, <1>6, <5>1, ConcatProperties
      <4> QED
        <5>1. Clean => m + Len(g) = n
          BY <1>2, <1>3
        <5>2. Len(read') = m - 1 /\ n' = n /\ Len(g) \in Nat /\ n \in Nat
          BY <1>1, <1>2, <1>5
        <5> QED
          BY <4>1, <4>2, <5>1, <5>2
    <3> QED
      BY <3>1, <3>2
  <2>2. Len(read') + Len(g') <= n'
    <3>1. m + Len(g) <= n
      BY <1>2, <1>3
    <3>2. Len(read') = m - 1 /\ n' = n /\ Len(g) \in Nat /\ n \in Nat
      BY <1>1, <1>2, <1>5
    <3>3. Len(g') = 1 \/ Len(g') = Len(g) + 1
      BY <1>7
    <3>4. m \in Nat
      BY <1>3
    <3>5. m - 1 + 1 <= n /\ m - 1 + (Len(g) + 1) <= n
      BY <3>1, <3>2, <3>4
    <3> QED
      BY <3>2, <3>3, <3>5
  <2>3. ASSUME NEW k \in DOMAIN read'
        PROVE  MadeFrom(read[k], k)' /\ Unlinked(read[k], k)'
    <3>1. PICK rule : rule = read'[k]
      OBVIOUS
    <3>2. MadeFrom(rule, k) /\ Unlinked(rule, k)
      BY SMTT(60), <1>2, <1>3, <1>5, <3>1
    <3>3. MadeFrom(rule, k)' /\ Unlinked(rule, k)'
      BY <1>1, <3>2, SourceStays
    <3> QED
      BY <3>1, <3>3 DEF MadeFrom, Unlinked
  <2>4. ASSUME NEW k \in DOMAIN g'
        PROVE  MadeFrom(g[k], Len(read) + k)' /\ Unlinked(g[k], Len(read) + k)'
    <3>1. PICK rule, l : rule = g'[k] /\ l = m - 1 + k
      OBVIOUS
    <3>2. MadeFrom(rule, l)' /\ Unlinked(rule, l)'
      BY <1>1, <1>8, <3>1, SourceStays
    <3>3. rule = g'[k] /\ l = Len(read') + k
      BY <1>5, <3>1
    <3> QED
      BY <3>2, <3>3 DEF MadeFrom, Unlinked
  <2>5. n' <= Len(src') /\ ~(n' < Len(src'))
    BY <1>1, <1>2
  <2>6. pc' = "read"
    BY <1>1
  <2> QED
    BY <1>10, <2>1, <2>2, <2>3, <2>4, <2>5, <2>6 DEF PlacesInv
<1>14. PragmaInv'
  BY <1>1, <1>2, PragmaStays DEF TypeInv
<1>15. ErrorsInv'
  <2>1. Queued' = {} => Queued = {}
    BY <1>12
  <2> QED
    BY <1>1, <1>2, <1>12, <2>1 DEF ErrorsInv
<1>16. LinkInv' /\ RewriteInv'
  BY <1>1, <1>2 DEF LinkInv, RewriteInv
<1> QED
  BY <1>11, <1>13, <1>14, <1>15, <1>16 DEF RulesInv
=============================================================================
