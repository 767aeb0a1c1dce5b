------------------------ MODULE KgtConversionProofs -------------------------
(***************************************************************************)
(* The rest of a run, for all grammars and command lines: linking the      *)
(* rules, reporting the errors, rewriting and output keep what             *)
(* KgtRulesProofs says of the rules that have been read.  What follows     *)
(* from it: the properties of the grammar that is output, and that a run   *)
(* refuses and outputs what Conversion says.                               *)
(***************************************************************************)
EXTENDS KgtRulesProofs

\* What a step made of the rules it says of them in the next state.
LEMMA GrammarStays ==
  ASSUME src' = src
  PROVE  \A k, m :
           /\ MadeFrom(g'[k], m) => MadeFrom(g[k], m)'
           /\ Unlinked(g'[k], m) => Unlinked(g[k], m)'
           /\ CiLeft(g'[k], m) => CiLeft(g[k], m)'
           /\ CiDone(g'[k], m) => CiDone(g[k], m)'
           /\ InvisibleDone(g'[k]) => InvisibleDone(g[k])'
           /\ opts' = opts /\ (Queued # {} => Queued' # {}) /\ Linked(g'[k], m) => Linked(g[k], m)'
<1> SUFFICES ASSUME NEW k, NEW m
             PROVE  /\ MadeFrom(g'[k], m) => MadeFrom(g[k], m)'
                    /\ Unlinked(g'[k], m) => Unlinked(g[k], m)'
                    /\ CiLeft(g'[k], m) => CiLeft(g[k], m)'
                    /\ CiDone(g'[k], m) => CiDone(g[k], m)'
                    /\ InvisibleDone(g'[k]) => InvisibleDone(g[k])'
                    /\ opts' = opts /\ (Queued # {} => Queued' # {}) /\ Linked(g'[k], m)
                         => Linked(g[k], m)'
  OBVIOUS
<1>1. PICK rule : rule = g'[k]
  OBVIOUS
<1>2. /\ MadeFrom(rule, m) => MadeFrom(rule, m)'
      /\ Unlinked(rule, m) => Unlinked(rule, m)'
      /\ CiLeft(rule, m) => CiLeft(rule, m)'
      /\ CiDone(rule, m) => CiDone(rule, m)'
      /\ InvisibleDone(rule) => InvisibleDone(rule)'
      /\ opts' = opts /\ (Queued # {} => Queued' # {}) /\ Linked(rule, m) => Linked(rule, m)'
  BY SourceStays
<1>3. /\ MadeFrom(rule, m)' => MadeFrom(g[k], m)'
      /\ Unlinked(rule, m)' => Unlinked(g[k], m)'
      /\ CiLeft(rule, m)' => CiLeft(g[k], m)'
      /\ CiDone(rule, m)' => CiDone(g[k], m)'
      /\ InvisibleDone(rule)' => InvisibleDone(g[k])'
      /\ Linked(rule, m)' => Linked(g[k], m)'
  BY <1>1 DEF MadeFrom, Unlinked, CiLeft, CiDone, InvisibleDone, Linked, CanBe
<1> QED
  BY <1>1, <1>2, <1>3

\* In the phases after reading, the rules of the grammar and their terms.
LEMMA GrammarFacts ==
  ASSUME TypeInv, PlacesInv, pc \in {"link", "report", "rewrite"}
  PROVE  /\ g \in Seq(RuleMade) /\ DOMAIN g = 1..Len(g) /\ Len(g) \in Nat
         /\ n \in Nat /\ n >= 1 /\ Len(g) <= Len(src)
         /\ Len(src) \in Nat /\ DOMAIN src = 1..Len(src)
         /\ \A k \in DOMAIN g :
              /\ MadeFrom(g[k], k) /\ k \in DOMAIN src /\ g[k].name = src[k].name
              /\ g[k].body \in Seq(Made) /\ DOMAIN g[k].body = DOMAIN src[k].body
              /\ Len(g[k].body) \in Nat /\ DOMAIN g[k].body = 1..Len(g[k].body)
              /\ \A i \in DOMAIN g[k].body :
                   /\ g[k].body[i] \in Made
                   /\ g[k].body[i].name = src[k].body[i].name
                   /\ g[k].body[i].letters = src[k].body[i].letters
                   /\ g[k].body[i].depth = src[k].body[i].depth
                   /\ src[k].body[i] \in WrittenTerm
<1>1. /\ g \in Seq(RuleMade) /\ DOMAIN g = 1..Len(g) /\ Len(g) \in Nat
      /\ n \in Nat /\ n >= 1 /\ Len(g) <= Len(src)
      /\ Len(src) \in Nat /\ DOMAIN src = 1..Len(src)
      /\ \A k \in DOMAIN g : MadeFrom(g[k], k)
  <2>1. g \in Seq(RuleMade)
    BY DEF TypeInv
  <2>2. Len(g) \in Nat /\ DOMAIN g = 1..Len(g)
    BY <2>1, LenProperties
  <2>3. n \in 1..Len(g) + 1 /\ Len(g) <= Len(src) /\ \A k \in DOMAIN g : MadeFrom(g[k], k)
    BY DEF PlacesInv
  <2>4. n \in Nat /\ n >= 1
    BY <2>2, <2>3
  <2> QED
    BY <2>1, <2>2, <2>3, <2>4, PlacesFacts
<1>2. ASSUME NEW k \in DOMAIN g
      PROVE  /\ k \in DOMAIN src /\ g[k].name = src[k].name
             /\ g[k].body \in Seq(Made) /\ DOMAIN g[k].body = DOMAIN src[k].body
             /\ Len(g[k].body) \in Nat /\ DOMAIN g[k].body = 1..Len(g[k].body)
             /\ \A i \in DOMAIN g[k].body :
                  /\ g[k].body[i] \in Made
                  /\ g[k].body[i].name = src[k].body[i].name
                  /\ g[k].body[i].letters = src[k].body[i].letters
                  /\ g[k].body[i].depth = src[k].body[i].depth
                  /\ src[k].body[i] \in WrittenTerm
  <2>1. g[k] \in RuleMade
    BY <1>1, ElementOfSeq
  <2>2. g[k].body \in Seq(Made)
    BY <2>1 DEF RuleMade
  <2>3. /\ Len(g[k].body) \in Nat /\ DOMAIN g[k].body = 1..Len(g[k].body)
        /\ \A i \in DOMAIN g[k].body : g[k].body[i] \in Made
    BY <2>2, LenProperties, ElementOfSeq
  <2>4. MadeFrom(g[k], k)
    BY <1>1
  <2>5. k \in DOMAIN src /\ g[k].name = src[k].name /\ DOMAIN g[k].body = DOMAIN src[k].body
    BY <2>4 DEF MadeFrom
  <2>6. \A i \in DOMAIN g[k].body :
          /\ g[k].body[i].name = src[k].body[i].name
          /\ g[k].body[i].letters = src[k].body[i].letters
          /\ g[k].body[i].depth = src[k].body[i].depth
    BY <2>4 DEF MadeFrom
  <2>7. \A i \in DOMAIN src[k].body : src[k].body[i] \in WrittenTerm
    BY <2>5, PlacesFacts, WrittenBodyFacts
  <2> QED
    BY <2>2, <2>3, <2>5, <2>6, <2>7
<1> QED
  BY <1>1, <1>2

\* If no rule has got lost, the rules of the grammar are those written.
LEMMA CleanFacts ==
  ASSUME TypeInv, PlacesInv, pc \in {"link", "report", "rewrite"}, Clean
  PROVE  /\ DOMAIN g = DOMAIN src
         /\ Names(g) = Names(src)
         /\ Duplicates(src) = {}
<1>1. DOMAIN g = DOMAIN src /\ \A k \in DOMAIN g : g[k].name = src[k].name
  <2>1. Len(g) = Len(src)
    BY DEF PlacesInv
  <2> QED
    BY <2>1, GrammarFacts
<1>2. DOMAIN g = 1..Len(g) /\ Len(g) \in Nat /\ Duplicates(g) = {}
  BY GrammarFacts DEF PlacesInv
<1>3. Names(g) = Names(src)
  BY <1>1 DEF Names
<1>4. ASSUME NEW k \in DOMAIN src, NEW j \in 1..k - 1
      PROVE  src[j].name # src[k].name
  <2>1. j \in DOMAIN g
    BY <1>1, <1>2
  <2>2. g[j].name # g[k].name
    BY <1>1, <1>2 DEF Duplicates
  <2> QED
    BY <1>1, <2>1, <2>2
<1> QED
  BY <1>1, <1>3, <1>4 DEF Duplicates

LEMMA NamesOfGrammar ==
  ASSUME TypeInv, PlacesInv, pc \in {"link", "report", "rewrite"}
  PROVE  Names(g) \subseteq Names(src)
BY GrammarFacts DEF Names

\* A body whose terms are left alone or given another type.
LEMMA NewTypes ==
  ASSUME NEW b \in Seq(Made), NEW c, c = [i \in DOMAIN b |-> c[i]],
         \A i \in DOMAIN b : c[i] = b[i] \/ \E type \in Types : c[i] = [b[i] EXCEPT !.type = type]
  PROVE  c \in Seq(Made) /\ Retyped(b, c)
<1>1. Len(b) \in Nat /\ DOMAIN b = 1..Len(b) /\ DOMAIN c = DOMAIN b
      /\ \A i \in DOMAIN b : b[i] \in Made
  BY LenProperties, ElementOfSeq
<1>2. ASSUME NEW i \in DOMAIN b
      PROVE  /\ c[i] \in Made
             /\ c[i].name = b[i].name /\ c[i].letters = b[i].letters
             /\ c[i].form = b[i].form /\ c[i].depth = b[i].depth
             /\ c[i].invisible = b[i].invisible /\ c[i].hidden = b[i].hidden
  <2>1. CASE c[i] = b[i]
    BY <1>1, <2>1
  <2>2. ASSUME NEW type \in Types, c[i] = [b[i] EXCEPT !.type = type]
        PROVE  /\ c[i] \in Made
               /\ c[i].name = b[i].name /\ c[i].letters = b[i].letters
               /\ c[i].form = b[i].form /\ c[i].depth = b[i].depth
               /\ c[i].invisible = b[i].invisible /\ c[i].hidden = b[i].hidden
    <3>1. b[i] \in Made
      BY <1>1
    <3> QED
      BY <2>2, <3>1 DEF Made
  <2> QED
    BY <2>1, <2>2
<1>3. c \in Seq(Made)
  <2>1. [i \in 1..Len(b) |-> c[i]] \in Seq(Made)
    BY <1>1, <1>2, IsASeq
  <2> QED
    BY <1>1, <2>1
<1> QED
  BY <1>1, <1>2, <1>3 DEF Retyped
-----------------------------------------------------------------------------
LEMMA BeginLinkingRulesInv == RulesInv /\ BeginLinking => RulesInv'
<1> SUFFICES ASSUME RulesInv, BeginLinking
             PROVE  RulesInv'
  OBVIOUS
<1>1. /\ pc = "read" /\ pc' = "link" /\ n = Len(src) /\ n' = 1 /\ read = <<>>
      /\ UNCHANGED <<src, opts, read, g, invisible, errors, printed, v>>
  BY DEF BeginLinking, Begin
<1>2. /\ TypeInv /\ PlacesInv /\ ErrorsInv /\ LinkInv
      /\ g \in Seq(RuleMade) /\ DOMAIN g = 1..Len(g) /\ Len(g) \in Nat
      /\ Len(src) \in Nat /\ DOMAIN src = 1..Len(src) /\ Len(read) = 0
  <2>1. TypeInv /\ PlacesInv /\ ErrorsInv /\ LinkInv
    BY DEF RulesInv
  <2>2. g \in Seq(RuleMade)
    BY <2>1 DEF TypeInv
  <2>3. DOMAIN g = 1..Len(g) /\ Len(g) \in Nat
    BY <2>2, LenProperties
  <2> QED
    BY <1>1, <2>1, <2>2, <2>3, PlacesFacts, EmptySeq
<1>3. TypeInv'
  <2>1. n' \in 0..Len(src') + 1
    BY <1>1, <1>2
  <2>2. IsASequence(errors)' /\ IsASequence(printed)'
    BY <1>1, <1>2 DEF TypeInv
  <2> QED
    BY <1>1, <1>2, <2>1, <2>2 DEF TypeInv
<1>4. Queued' = Queued
  BY <1>1 DEF Queued
<1>5. /\ Len(g) <= Len(src) /\ (Clean => Len(g) = Len(src))
      /\ \A k \in DOMAIN g : MadeFrom(g[k], k) /\ Unlinked(g[k], k)
  <2>1. /\ Len(read) + Len(g) <= n /\ (Clean => Len(read) + Len(g) = n)
        /\ \A k \in DOMAIN g : MadeFrom(g[k], Len(read) + k) /\ Unlinked(g[k], Len(read) + k)
    BY <1>1, <1>2 DEF PlacesInv
  <2>2. Len(read) + Len(g) = Len(g) /\ \A k \in DOMAIN g : Len(read) + k = k
    BY <1>2
  <2> QED
    BY <1>1, <2>1, <2>2
<1>6. \A k \in DOMAIN g : MadeFrom(g[k], k)' /\ Unlinked(g[k], k)'
  BY <1>1, <1>5, GrammarStays
<1>7. PlacesInv'
  <2>1. n' \in 1..Len(g') + 1 /\ Len(g') <= Len(src') /\ (Clean' => Len(g') = Len(src'))
    BY <1>1, <1>2, <1>4, <1>5 DEF Clean
  <2>2. Duplicates(g') = {} /\ pc' = "link"
    BY <1>1, <1>2 DEF PlacesInv
  <2> QED
    BY <1>1, <1>6, <2>1, <2>2 DEF PlacesInv
<1>8. ErrorsInv'
  <2>1. \A e \in Queued' : Deserved(e)'
    BY <1>1, <1>2, <1>4, SourceStays DEF ErrorsInv
  <2>2. Queued' = {} => \A m \in DOMAIN src : src[m].fault = "none"
    BY <1>1, <1>2, <1>4 DEF ErrorsInv
  <2> QED
    BY <1>1, <2>1, <2>2 DEF ErrorsInv
<1>9. LinkInv'
  <2>1. \A k \in DOMAIN g : CiLeft(g[k], k)
    <3>1. ASSUME NEW k \in DOMAIN g, NEW i \in DOMAIN g[k].body, src[k].body[i].type = "CI"
          PROVE  g[k].body[i].type = "CI"
      <4>1. g[k].body[i].type = AsRead(src[k].body[i].type)
        BY <1>5 DEF Unlinked
      <4> QED
        BY <3>1, <4>1 DEF AsRead
    <3> QED
      BY <3>1 DEF CiLeft
  <2>2. \A k \in DOMAIN g : CiLeft(g[k], k)'
    BY <1>1, <2>1, GrammarStays
  <2>3. \A k \in DOMAIN g : ~(k < n')
    BY <1>1, <1>2
  <2>4. v' = opts'.unsupported
    BY <1>1, <1>2 DEF LinkInv
  <2> QED
    BY <1>1, <1>6, <2>2, <2>3, <2>4 DEF LinkInv
<1> QED
  BY <1>1, <1>3, <1>7, <1>8, <1>9 DEF RulesInv, PragmaInv, RewriteInv

LEMMA LinkFacts ==
  ASSUME NEW t \in Made
  PROVE  /\ Link(t) = t \/ \E type \in Types : Link(t) = [t EXCEPT !.type = type]
         /\ t.type # "RULE" \/ t.depth > 0 => Link(t) = t
         /\ t.type = "RULE" /\ ~(t.depth > 0) =>
              /\ t.name \in Names(g) => Link(t).type = "LINKED"
              /\ t.name \notin Names(g) =>
                   Link(t).type = IF opts.allowUndefined THEN "TOKEN" ELSE "RULE"
<1>1. "LINKED" \in Types /\ "TOKEN" \in Types
  BY DEF Types
<1>2. \A type : [t EXCEPT !.type = type].type = type
  BY DEF Made
<1> QED
  BY <1>1, <1>2 DEF Link

\* The rule that is linked, with the errors queued for it.
LEMMA LinkRuleFacts ==
  ASSUME RulesInv, LinkRule
  PROVE  /\ pc = "link" /\ pc' = "link" /\ n \in DOMAIN g /\ n' = n + 1
         /\ UNCHANGED <<src, opts, read, invisible, printed, v>>
         /\ \E b \in Seq(Made) :
              /\ b = [i \in DOMAIN g[n].body |-> Link(g[n].body[i])]
              /\ Retyped(g[n].body, b)
              /\ g' = [g EXCEPT ![n].body = b]
              /\ IsASequence(errors')
              /\ Queued' = Queued \union
                   {Error("undefined", b[i].name) :
                      i \in {j \in DOMAIN b : b[j].type = "RULE" /\ b[j].depth = 0}}
<1>1. /\ pc = "link" /\ pc' = "link" /\ n <= Len(g) /\ n' = n + 1
      /\ UNCHANGED <<src, opts, read, invisible, printed, v>>
  BY DEF LinkRule, AtRule, SetBody
<1>2. TypeInv /\ PlacesInv
  BY DEF RulesInv
<1>3. n \in DOMAIN g /\ g[n].body \in Seq(Made) /\ \A i \in DOMAIN g[n].body : g[n].body[i] \in Made
  BY <1>1, <1>2, GrammarFacts
<1> DEFINE b == [i \in DOMAIN g[n].body |-> Link(g[n].body[i])]
<1>4. b \in Seq(Made) /\ Retyped(g[n].body, b)
  <2>1. b = [i \in DOMAIN g[n].body |-> b[i]]
    OBVIOUS
  <2>2. \A i \in DOMAIN g[n].body :
          b[i] = g[n].body[i] \/ \E type \in Types : b[i] = [g[n].body[i] EXCEPT !.type = type]
    BY <1>3, LinkFacts
  <2> HIDE DEF b
  <2> QED
    BY <1>3, <2>1, <2>2, NewTypes
<1>5. g' = [g EXCEPT ![n].body = b] /\ errors' = errors \o UndefinedErrors(b)
  BY DEF LinkRule, SetBody
<1> HIDE DEF b
<1>6. IsASequence(UndefinedErrors(b))
  BY <1>4, UndefinedErrorsType
<1>7. IsASequence(errors')
  <2>1. PICK S : errors \in Seq(S) /\ UndefinedErrors(b) \in Seq(S)
    BY <1>2, <1>6, SequencesOfOneSet DEF TypeInv
  <2>2. errors \o UndefinedErrors(b) \in Seq(S)
    BY <2>1, ConcatProperties
  <2> QED
    BY <1>5, <2>2, InSeqIsASequence
<1>8. Queued' = Queued \union {UndefinedErrors(b)[k] : k \in DOMAIN UndefinedErrors(b)}
  BY <1>1, <1>2, <1>5, <1>6, QueuedFacts
<1>9. {UndefinedErrors(b)[k] : k \in DOMAIN UndefinedErrors(b)}
        = {Error("undefined", b[i].name) :
             i \in {j \in DOMAIN b : b[j].type = "RULE" /\ b[j].depth = 0}}
  BY <1>4, UndefinedErrorsFacts
<1> QED
  BY <1>1, <1>3, <1>4, <1>5, <1>7, <1>8, <1>9 DEF b

LEMMA LinkRuleRulesInv == RulesInv /\ LinkRule => RulesInv'
<1> SUFFICES ASSUME RulesInv, LinkRule
             PROVE  RulesInv'
  OBVIOUS
<1>1. /\ pc = "link" /\ pc' = "link" /\ n \in DOMAIN g /\ n' = n + 1
      /\ UNCHANGED <<src, opts, read, invisible, printed, v>>
  BY LinkRuleFacts
<1>2. PICK b \in Seq(Made) :
        /\ b = [i \in DOMAIN g[n].body |-> Link(g[n].body[i])]
        /\ Retyped(g[n].body, b)
        /\ g' = [g EXCEPT ![n].body = b]
        /\ IsASequence(errors')
        /\ Queued' = Queued \union
             {Error("undefined", b[i].name) :
                i \in {j \in DOMAIN b : b[j].type = "RULE" /\ b[j].depth = 0}}
  BY LinkRuleFacts
<1>3. TypeInv /\ PlacesInv /\ ErrorsInv /\ LinkInv
  BY DEF RulesInv
<1>4. /\ g' \in Seq(RuleMade) /\ Len(g') = Len(g) /\ DOMAIN g' = DOMAIN g
      /\ \A k \in DOMAIN g : k # n => g'[k] = g[k]
      /\ g'[n].body = b
      /\ Duplicates(g') = {}
      /\ \A k \in DOMAIN g : MadeFrom(g[k], k)'
  <2>1. n <= Len(g)
    BY <1>1, <1>3, GrammarFacts
  <2> QED
    BY <1>1, <1>2, <1>3, <2>1, BodySet
<1>5. n \in Nat /\ n >= 1 /\ n <= Len(g) /\ Len(g) \in Nat /\ Len(g) <= Len(src)
      /\ Len(src) \in Nat /\ DOMAIN g = 1..Len(g)
  BY <1>1, <1>3, GrammarFacts
<1>6. Queued \subseteq Queued' /\ (Queued' = {} => Queued = {})
  BY <1>2
<1>7. Clean' => Clean
  BY <1>1, <1>6 DEF Clean
<1>8. Unlinked(g[n], n)
  BY <1>1, <1>3, <1>5 DEF LinkInv
\* What becomes of the term at i, which was written w.
<1>9. ASSUME NEW i \in DOMAIN b, NEW t, t = g[n].body[i], NEW w, w = src[n].body[i]
      PROVE  /\ t \in Made /\ w \in WrittenTerm /\ t.type = AsRead(w.type)
             /\ t.name = w.name /\ t.depth = w.depth /\ w.depth \in Nat
             /\ b[i] = Link(t) /\ b[i].name = w.name /\ b[i].depth = w.depth
             /\ i \in DOMAIN src[n].body /\ n \in DOMAIN src
  <2>1. /\ i \in DOMAIN g[n].body /\ b[i] = Link(t)
        /\ b[i].name = t.name /\ b[i].depth = t.depth
    BY <1>2, <1>9 DEF Retyped
  <2>2. /\ t \in Made /\ w \in WrittenTerm /\ t.name = w.name /\ t.depth = w.depth
        /\ i \in DOMAIN src[n].body /\ n \in DOMAIN src
    BY <1>1, <1>3, <1>9, <2>1, GrammarFacts
  <2>3. t.type = AsRead(w.type)
    BY <1>8, <1>9, <2>1 DEF Unlinked
  <2>4. w.depth \in Nat
    BY <2>2 DEF WrittenTerm
  <2> QED
    BY <2>1, <2>2, <2>3, <2>4
\* A reference that is not linked is an error, and it deserves to be one.
<1>10. ASSUME NEW i \in DOMAIN b, b[i].type = "RULE", b[i].depth = 0
       PROVE  /\ ~opts.allowUndefined
              /\ src[n].body[i].type = "RULE"
              /\ src[n].body[i].name \notin Names(g)
              /\ Error("undefined", b[i].name) \in Queued'
              /\ Deserved(Error("undefined", b[i].name))
  <2>1. PICK t, w : t = g[n].body[i] /\ w = src[n].body[i]
    OBVIOUS
  <2>2. /\ t \in Made /\ w \in WrittenTerm /\ t.type = AsRead(w.type)
        /\ t.name = w.name /\ t.depth = w.depth
        /\ b[i] = Link(t) /\ b[i].name = w.name /\ b[i].depth = w.depth
        /\ i \in DOMAIN src[n].body /\ n \in DOMAIN src
    BY <1>9, <2>1
  <2>3. t.type = "RULE" /\ ~(t.depth > 0)
    <3>1. ~(t.depth > 0)
      BY <1>10, <2>2
    <3>2. CASE t.type # "RULE"
      BY <1>10, <2>2, <3>2, LinkFacts
    <3> QED
      BY <3>1, <3>2
  <2>4. t.name \notin Names(g) /\ ~opts.allowUndefined
    BY <1>10, <2>2, <2>3, LinkFacts
  <2>5. w.type = "RULE" /\ w.depth = 0
    BY <1>10, <2>2, <2>3 DEF AsRead
  <2>6. w.name \in ReferredToOutsideGroups(src)
    <3>1. w.name \in {src[n].body[j].name : j \in {j \in DOMAIN src[n].body :
                        src[n].body[j].type = "RULE" /\ src[n].body[j].depth = 0}}
      BY <2>1, <2>2, <2>5
    <3>2. src[n] \in {src[m] : m \in DOMAIN src}
      BY <2>2
    <3> QED
      BY <3>1, <3>2 DEF ReferredToOutsideGroups
  <2>7. w.name \in Names(src) => Duplicates(src) # {}
    BY <1>1, <1>3, <2>2, <2>4, CleanFacts DEF Clean
  <2>8. Deserved(Error("undefined", w.name))
    BY <2>4, <2>6, <2>7 DEF Deserved, Error
  <2> QED
    BY <1>2, <1>10, <2>1, <2>2, <2>4, <2>5, <2>8
<1>11. ASSUME NEW k, k = n
       PROVE  Linked(g[k], k)'
  <2>1. ASSUME NEW i \in DOMAIN b, NEW w, w = src[n].body[i]
        PROVE  /\ b[i].type = "RULE" => w.type = "RULE" /\ (w.depth > 0 \/ Queued' # {})
               /\ b[i].type = "LINKED" => w.name \in Names(src)
               /\ b[i].type = "TOKEN" => w.name \notin Names(src) \/ Duplicates(src) # {}
               /\ CanBe(b[i].type, w)
               /\ w.type = "RULE" /\ w.depth = 0 /\ ~opts.allowUndefined =>
                    w.name \in Names(src) \/ Queued' # {}
    <3>1. PICK t : t = g[n].body[i]
      OBVIOUS
    <3>2. /\ t \in Made /\ w \in WrittenTerm /\ t.type = AsRead(w.type)
          /\ t.name = w.name /\ t.depth = w.depth /\ w.depth \in Nat
          /\ b[i] = Link(t) /\ b[i].name = w.name /\ b[i].depth = w.depth
      BY <1>9, <2>1, <3>1
    <3>3. w.type \in WrittenTypes
      BY <3>2 DEF WrittenTerm
    <3>4. CASE t.type # "RULE" \/ t.depth > 0
      <4>1. b[i] = t
        BY <3>2, <3>4, LinkFacts
      <4>2. b[i].type = AsRead(w.type)
        BY <3>2, <4>1
      <4>3. b[i].type \notin {"LINKED", "TOKEN", "GONE"}
        BY <3>3, <4>2 DEF AsRead, WrittenTypes
      <4>4. b[i].type = "RULE" => w.type = "RULE" /\ w.depth > 0
        BY <3>2, <3>4, <4>1, <4>2 DEF AsRead
      <4>5. CanBe(b[i].type, w)
        BY <4>2 DEF CanBe
      <4>6. ~(w.type = "RULE" /\ w.depth = 0)
        BY <3>2, <3>4 DEF AsRead
      <4> QED
        BY <4>3, <4>4, <4>5, <4>6
    <3>5. CASE t.type = "RULE" /\ ~(t.depth > 0)
      <4>1. w.type = "RULE"
        BY <3>2, <3>5 DEF AsRead
      <4>2. CASE w.name \in Names(g)
        <5>1. b[i].type = "LINKED"
          BY <3>2, <3>5, <4>2, LinkFacts
        <5>2. w.name \in Names(src)
          BY <1>1, <1>3, <4>2, NamesOfGrammar
        <5>3. CanBe(b[i].type, w)
          BY <3>2, <3>5, <4>1, <5>1 DEF CanBe
        <5> QED
          BY <5>1, <5>2, <5>3
      <4>3. CASE w.name \notin Names(g)
        <5>1. b[i].type = IF opts.allowUndefined THEN "TOKEN" ELSE "RULE"
          BY <3>2, <3>5, <4>3, LinkFacts
        <5>2. w.name \notin Names(src) \/ Duplicates(src) # {}
          BY <1>1, <1>3, <4>3, CleanFacts DEF Clean
        <5>3. ~opts.allowUndefined => Queued' # {}
          <6> SUFFICES ASSUME ~opts.allowUndefined
                       PROVE  Queued' # {}
            OBVIOUS
          <6>1. b[i].type = "RULE" /\ b[i].depth = 0
            BY <3>2, <3>5, <5>1
          <6> QED
            BY <1>10, <6>1
        <5>4. CanBe(b[i].type, w)
          BY <3>2, <3>5, <4>1, <5>1 DEF CanBe, AsRead
        <5> QED
          BY <4>1, <5>1, <5>2, <5>3, <5>4
      <4> QED
        BY <4>2, <4>3
    <3> QED
      BY <3>4, <3>5
  <2> QED
    BY <1>1, <1>4, <1>11, <2>1 DEF Linked, CanBe
<1>12. CiLeft(g'[n], n)
  <2>1. ASSUME NEW i \in DOMAIN b, src[n].body[i].type = "CI"
        PROVE  b[i].type = "CI"
    <3>1. PICK t, w : t = g[n].body[i] /\ w = src[n].body[i]
      OBVIOUS
    <3>2. t \in Made /\ t.type = AsRead(w.type) /\ b[i] = Link(t)
      BY <1>9, <3>1
    <3>3. t.type = "CI"
      BY <2>1, <3>1, <3>2 DEF AsRead
    <3> QED
      BY <3>2, <3>3, LinkFacts
  <2> QED
    BY <1>4, <2>1 DEF CiLeft
<1>13. TypeInv'
  <2>1. n' \in 0..Len(src') + 1
    BY <1>1, <1>5
  <2>2. IsASequence(printed)'
    BY <1>1, <1>3 DEF TypeInv
  <2> QED
    BY <1>1, <1>2, <1>3, <1>4, <2>1, <2>2 DEF TypeInv
<1>14. PlacesInv'
  <2>1. n' \in 1..Len(g') + 1 /\ Len(g') <= Len(src')
    BY <1>1, <1>4, <1>5
  <2>2. Clean' => Len(g') = Len(src')
    BY <1>1, <1>3, <1>4, <1>7 DEF PlacesInv
  <2> QED
    BY <1>1, <1>4, <2>1, <2>2 DEF PlacesInv
<1>15. ErrorsInv'
  <2>1. ASSUME NEW e \in Queued'
        PROVE  Deserved(e)'
    <3>1. Deserved(e)
      <4>1. CASE e \in Queued
        BY <1>3, <4>1 DEF ErrorsInv
      <4>2. CASE e \notin Queued
        <5>1. PICK i \in DOMAIN b :
                b[i].type = "RULE" /\ b[i].depth = 0 /\ e = Error("undefined", b[i].name)
          BY <1>2, <4>2
        <5> QED
          BY <1>10, <5>1
      <4> QED
        BY <4>1, <4>2
    <3> QED
      BY <1>1, <3>1, SourceStays
  <2>2. Queued' = {} => \A m \in DOMAIN src : src[m].fault = "none"
    BY <1>1, <1>3, <1>6 DEF ErrorsInv
  <2> QED
    BY <1>1, <2>1, <2>2 DEF ErrorsInv
<1>16. LinkInv'
  <2>1. ASSUME NEW k \in DOMAIN g, k < n + 1
        PROVE  Linked(g[k], k)'
    <3>1. CASE k = n
      BY <1>11, <3>1
    <3>2. CASE k # n
      <4>1. k < n
        BY <1>5, <2>1, <3>2
      <4>2. Linked(g'[k], k)
        BY <1>1, <1>3, <1>4, <3>2, <4>1 DEF LinkInv
      <4> QED
        BY <1>1, <1>6, <4>2, GrammarStays
    <3> QED
      BY <3>1, <3>2
  <2>2. ASSUME NEW k \in DOMAIN g, ~(k < n + 1)
        PROVE  Unlinked(g[k], k)'
    <3>1. ~(k < n) /\ k # n
      BY <1>5, <2>2
    <3>2. Unlinked(g'[k], k)
      BY <1>1, <1>3, <1>4, <3>1 DEF LinkInv
    <3> QED
      BY <1>1, <3>2, GrammarStays
  <2>3. ASSUME NEW k \in DOMAIN g
        PROVE  CiLeft(g[k], k)'
    <3>1. CiLeft(g'[k], k)
      BY <1>1, <1>3, <1>4, <1>12 DEF LinkInv
    <3> QED
      BY <1>1, <3>1, GrammarStays
  <2>4. v' = opts'.unsupported
    BY <1>1, <1>3 DEF LinkInv
  <2> QED
    BY <1>1, <1>4, <2>1, <2>2, <2>3, <2>4 DEF LinkInv
<1> QED
  BY <1>1, <1>13, <1>14, <1>15, <1>16 DEF RulesInv, PragmaInv, RewriteInv

\* Nothing but the phase, or the rule a walk is at, changes.
LEMMA ErrorsStay ==
  ASSUME TypeInv, ErrorsInv, UNCHANGED <<src, opts, errors, printed>>
  PROVE  /\ IsASequence(errors)' /\ IsASequence(printed)'
         /\ Queued' = Queued
         /\ \A e \in Queued' : Deserved(e)'
<1>1. IsASequence(errors)' /\ IsASequence(printed)'
  BY DEF TypeInv
<1>2. Queued' = Queued
  BY DEF Queued
<1>3. \A e \in Queued' : Deserved(e)'
  BY <1>2, SourceStays DEF ErrorsInv
<1> QED
  BY <1>1, <1>2, <1>3

LEMMA BeginReportRulesInv == RulesInv /\ BeginReport => RulesInv'
<1> SUFFICES ASSUME RulesInv, BeginReport
             PROVE  RulesInv'
  OBVIOUS
<1>1. /\ pc = "link" /\ pc' = "report" /\ n > Len(g) /\ n' = 1
      /\ UNCHANGED <<src, opts, read, g, invisible, errors, printed, v>>
  BY DEF BeginReport, End, Begin
<1>2. TypeInv /\ PlacesInv /\ ErrorsInv /\ LinkInv
  BY DEF RulesInv
<1>3. /\ IsASequence(errors)' /\ IsASequence(printed)' /\ Queued' = Queued
      /\ \A e \in Queued' : Deserved(e)'
  BY <1>1, <1>2, ErrorsStay
<1>4. n \in Nat /\ Len(g) \in Nat /\ Len(g) <= Len(src) /\ Len(src) \in Nat /\ DOMAIN g = 1..Len(g)
  BY <1>1, <1>2, GrammarFacts
<1>5. TypeInv'
  <2>1. n' \in 0..Len(src') + 1
    BY <1>1, <1>4
  <2> QED
    BY <1>1, <1>2, <1>3, <2>1 DEF TypeInv
<1>6. PlacesInv'
  <2>1. n' \in 1..Len(g') + 1
    BY <1>1, <1>4
  <2>2. \A k \in DOMAIN g : MadeFrom(g[k], k)'
    BY <1>1, <1>2, GrammarStays DEF PlacesInv
  <2>3. Len(g') <= Len(src') /\ (Clean' => Len(g') = Len(src')) /\ Duplicates(g') = {}
    BY <1>1, <1>2, <1>3 DEF PlacesInv, Clean
  <2> QED
    BY <1>1, <2>1, <2>2, <2>3 DEF PlacesInv
<1>7. ErrorsInv'
  BY <1>1, <1>2, <1>3 DEF ErrorsInv
<1>8. LinkInv'
  <2>1. \A k \in DOMAIN g : k < n
    BY <1>1, <1>4
  <2>2. \A k \in DOMAIN g : Linked(g'[k], k) /\ CiLeft(g'[k], k)
    BY <1>1, <1>2, <2>1 DEF LinkInv
  <2>3. \A k \in DOMAIN g : Linked(g[k], k)' /\ CiLeft(g[k], k)'
    BY <1>1, <1>3, <2>2, GrammarStays
  <2>4. v' = opts'.unsupported
    BY <1>1, <1>2 DEF LinkInv
  <2> QED
    BY <1>1, <2>3, <2>4 DEF LinkInv
<1> QED
  BY <1>1, <1>5, <1>6, <1>7, <1>8 DEF RulesInv, PragmaInv, RewriteInv

LEMMA PopErrorRulesInv == RulesInv /\ PopError => RulesInv'
<1> SUFFICES ASSUME RulesInv, PopError
             PROVE  RulesInv'
  OBVIOUS
<1>1. /\ pc = "report" /\ pc' = "report" /\ errors # <<>>
      /\ printed' = Append(printed, Head(errors)) /\ errors' = Tail(errors)
      /\ UNCHANGED <<src, opts, n, read, g, invisible, v>>
  BY DEF PopError
<1>2. TypeInv /\ PlacesInv /\ ErrorsInv /\ LinkInv
  BY DEF RulesInv
<1>3. Queued' = Queued
  BY <1>1, <1>2, QueuedFacts
<1>4. IsASequence(errors') /\ IsASequence(printed')
  BY <1>1, <1>2, PopKeepsOrder DEF TypeInv
<1>5. TypeInv'
  BY <1>1, <1>2, <1>4 DEF TypeInv
<1>6. PlacesInv'
  <2>1. \A k \in DOMAIN g : MadeFrom(g[k], k)'
    BY <1>1, <1>2, GrammarStays DEF PlacesInv
  <2>2. /\ n' \in 1..Len(g') + 1 /\ Duplicates(g') = {}
        /\ Len(g') <= Len(src') /\ (Clean' => Len(g') = Len(src'))
    BY <1>1, <1>2, <1>3 DEF PlacesInv, Clean
  <2> QED
    BY <1>1, <2>1, <2>2 DEF PlacesInv
<1>7. ErrorsInv'
  <2>1. \A e \in Queued' : Deserved(e)'
    BY <1>1, <1>2, <1>3, SourceStays DEF ErrorsInv
  <2> QED
    BY <1>1, <1>2, <1>3, <2>1 DEF ErrorsInv
<1>8. LinkInv'
  <2>1. \A k \in DOMAIN g : Linked(g'[k], k) /\ CiLeft(g'[k], k)
    BY <1>1, <1>2 DEF LinkInv
  <2>2. \A k \in DOMAIN g : Linked(g[k], k)' /\ CiLeft(g[k], k)'
    BY <1>1, <1>3, <2>1, GrammarStays
  <2> QED
    BY <1>1, <1>2, <2>2 DEF LinkInv
<1> QED
  BY <1>1, <1>5, <1>6, <1>7, <1>8 DEF RulesInv, PragmaInv, RewriteInv

LEMMA ExitingRulesInv == RulesInv /\ Exiting => RulesInv'
<1> SUFFICES ASSUME RulesInv, Exiting
             PROVE  RulesInv'
  OBVIOUS
<1>1. /\ pc' = "failed" /\ UNCHANGED <<src, opts, n, read, g, invisible, errors, printed, v>>
  BY DEF Exiting
<1>2. TypeInv /\ PlacesInv /\ ErrorsInv
  BY DEF RulesInv
<1>3. /\ IsASequence(errors)' /\ IsASequence(printed)' /\ Queued' = Queued
      /\ \A e \in Queued' : Deserved(e)'
  BY <1>1, <1>2, ErrorsStay
<1>4. TypeInv'
  BY <1>1, <1>2, <1>3 DEF TypeInv
<1>5. Duplicates(g') = {}
  BY <1>1, <1>2 DEF PlacesInv
<1> QED
  BY <1>1, <1>3, <1>4, <1>5 DEF RulesInv, PlacesInv, PragmaInv, ErrorsInv, LinkInv, RewriteInv

LEMMA BeginRewritingRulesInv == RulesInv /\ BeginRewriting => RulesInv'
<1> SUFFICES ASSUME RulesInv, BeginRewriting
             PROVE  RulesInv'
  OBVIOUS
<1>1. /\ pc = "report" /\ pc' = "rewrite" /\ n' = 1 /\ errors = <<>> /\ printed = <<>>
      /\ UNCHANGED <<src, opts, read, g, invisible, errors, printed, v>>
  BY DEF BeginRewriting, Begin
<1>2. TypeInv /\ PlacesInv /\ ErrorsInv /\ LinkInv
  BY DEF RulesInv
<1>3. /\ IsASequence(errors)' /\ IsASequence(printed)' /\ Queued' = Queued
      /\ \A e \in Queued' : Deserved(e)'
  BY <1>1, <1>2, ErrorsStay
<1>4. Len(g) \in Nat /\ Len(g) <= Len(src) /\ Len(src) \in Nat /\ DOMAIN g = 1..Len(g)
  BY <1>1, <1>2, GrammarFacts
<1>5. Queued = {} /\ Duplicates(src) = {}
  <2>1. Queued = {}
    BY <1>1, <1>2, QueuedFacts
  <2> QED
    BY <1>1, <1>2, <2>1, CleanFacts DEF Clean
<1>6. TypeInv'
  <2>1. n' \in 0..Len(src') + 1
    BY <1>1, <1>4
  <2> QED
    BY <1>1, <1>2, <1>3, <2>1 DEF TypeInv
<1>7. PlacesInv'
  <2>1. n' \in 1..Len(g') + 1
    BY <1>1, <1>4
  <2>2. \A k \in DOMAIN g : MadeFrom(g[k], k)'
    BY <1>1, <1>2, GrammarStays DEF PlacesInv
  <2>3. Len(g') <= Len(src') /\ (Clean' => Len(g') = Len(src')) /\ Duplicates(g') = {}
    BY <1>1, <1>2, <1>3 DEF PlacesInv, Clean
  <2> QED
    BY <1>1, <2>1, <2>2, <2>3 DEF PlacesInv
<1>8. ErrorsInv'
  <2>1. \A m \in DOMAIN src : src[m].fault = "none"
    BY <1>1, <1>2, <1>5 DEF ErrorsInv
  <2> QED
    BY <1>1, <1>3, <1>5, <2>1 DEF ErrorsInv
<1>9. \A k \in DOMAIN g : Linked(g[k], k)' /\ CiLeft(g[k], k)'
  <2>1. \A k \in DOMAIN g : Linked(g'[k], k) /\ CiLeft(g'[k], k)
    BY <1>1, <1>2 DEF LinkInv
  <2> QED
    BY <1>1, <1>3, <2>1, GrammarStays
<1>10. LinkInv'
  BY <1>1, <1>9 DEF LinkInv
<1>11. RewriteInv'
  <2>1. v' = opts'.unsupported
    BY <1>1, <1>2 DEF LinkInv
  <2>2. \A k \in DOMAIN g : ~(k < n')
    BY <1>1, <1>4
  <2> QED
    BY <1>1, <1>9, <2>1, <2>2 DEF RewriteInv
<1> QED
  BY <1>1, <1>6, <1>7, <1>8, <1>10, <1>11 DEF RulesInv, PragmaInv

\* The features are dealt with in the order of their bits.
LEMMA LowestFacts ==
  ASSUME TypeInv, v # {}
  PROVE  /\ Lowest \in v /\ Lowest \in opts.unsupported
         /\ CI_LITERAL \in v => Lowest = CI_LITERAL
<1>1. v \subseteq opts.unsupported /\ opts.unsupported \subseteq 0..3
  BY DEF TypeInv, CommandLines, Features, CI_LITERAL, PROSE, BINARY, INVISIBLE
<1>2. v \in SUBSET Nat /\ IsFiniteSet(v)
  <2>1. 0 \in Int /\ 3 \in Int
    OBVIOUS
  <2>2. IsFiniteSet(0..3)
    BY <2>1, FS_Interval
  <2>3. v \in SUBSET (0..3)
    BY <1>1
  <2>4. v \in SUBSET Nat
    BY <2>3
  <2> QED
    BY <2>2, <2>3, <2>4, FS_Subset
<1>3. \E f \in v : \A e \in v : f <= e
  BY <1>2, FirstAndLast
<1>4. Lowest \in v /\ \A e \in v : Lowest <= e
  BY <1>3 DEF Lowest
<1>5. CI_LITERAL \in v => Lowest = CI_LITERAL
  <2>1. Lowest \in Nat
    BY <1>2, <1>4
  <2> QED
    BY <1>4, <2>1 DEF CI_LITERAL
<1> QED
  BY <1>1, <1>4, <1>5

CiVisited(b, i) == ~\E j \in 1..i - 1 : TooLong(b[j]) /\ i <= ListEnd(b, j)

LEMMA CiBodyFacts ==
  ASSUME NEW b \in Seq(Made)
  PROVE  /\ CiBody(b) \in Seq(Made) /\ Retyped(b, CiBody(b))
         /\ \A i \in DOMAIN b :
              /\ b[i].type # "CI" => CiBody(b)[i].type = b[i].type
              /\ CiBody(b)[i].type = b[i].type
                   \/ (b[i].type = "CI" /\ CiBody(b)[i].type = IF TooLong(b[i]) THEN "GROUP" ELSE "CASES")
              /\ (\A j \in DOMAIN b : ~TooLong(b[j])) => CiBody(b)[i].type # "CI"
<1> DEFINE c == CiBody(b)
<1>1. c = [i \in DOMAIN b |->
             IF b[i].type # "CI" \/ ~CiVisited(b, i) THEN b[i]
             ELSE [b[i] EXCEPT !.type = IF TooLong(b[i]) THEN "GROUP" ELSE "CASES"]]
  BY DEF CiBody, CiVisited
<1> HIDE DEF c
<1>2. DOMAIN b = 1..Len(b) /\ Len(b) \in Nat /\ \A i \in DOMAIN b : b[i] \in Made
  BY LenProperties, ElementOfSeq
<1>3. c = [i \in DOMAIN b |-> c[i]]
  BY <1>1
<1>4. ASSUME NEW i \in DOMAIN b
      PROVE  \/ c[i] = b[i] /\ (b[i].type # "CI" \/ ~CiVisited(b, i))
             \/ /\ b[i].type = "CI"
                /\ c[i] = [b[i] EXCEPT !.type = IF TooLong(b[i]) THEN "GROUP" ELSE "CASES"]
                /\ c[i].type = IF TooLong(b[i]) THEN "GROUP" ELSE "CASES"
  <2>1. b[i] \in Made
    BY <1>2
  <2>2. \A type : [b[i] EXCEPT !.type = type].type = type
    BY <2>1 DEF Made
  <2> QED
    BY <1>1, <2>2
<1>5. c \in Seq(Made) /\ Retyped(b, c)
  <2>1. "GROUP" \in Types /\ "CASES" \in Types
    BY DEF Types
  <2>2. \A i \in DOMAIN b : c[i] = b[i] \/ \E type \in Types : c[i] = [b[i] EXCEPT !.type = type]
    BY <1>4, <2>1
  <2> QED
    BY <1>3, <2>2, NewTypes
<1>6. ASSUME NEW i \in DOMAIN b, \A j \in DOMAIN b : ~TooLong(b[j])
      PROVE  c[i].type # "CI"
  <2>1. CiVisited(b, i)
    <3>1. \A j \in 1..i - 1 : j \in DOMAIN b
      BY <1>2
    <3> QED
      BY <1>6, <3>1 DEF CiVisited
  <2> QED
    BY <1>4, <2>1
<1> QED
  BY <1>4, <1>5, <1>6 DEF c

LEMMA RewriteCiRulesInv == RulesInv /\ RewriteCi => RulesInv'
<1> SUFFICES ASSUME RulesInv, RewriteCi
             PROVE  RulesInv'
  OBVIOUS
<1>1. /\ pc = "rewrite" /\ n <= Len(g) /\ v # {} /\ Lowest = CI_LITERAL /\ n' = n + 1
      /\ g' = [g EXCEPT ![n].body = CiBody(g[n].body)]
      /\ pc' = IF \E i \in DOMAIN g[n].body : g[n].body[i].depth = 0 /\ TooLong(g[n].body[i])
               THEN "failed" ELSE pc
      /\ UNCHANGED <<src, opts, read, invisible, errors, printed, v>>
  BY DEF RewriteCi, AtRule, SetBody
<1>2. TypeInv /\ PlacesInv /\ ErrorsInv /\ LinkInv /\ RewriteInv
  BY DEF RulesInv
<1>3. n \in Nat /\ n >= 1 /\ Len(g) \in Nat /\ Len(g) <= Len(src) /\ Len(src) \in Nat
      /\ DOMAIN g = 1..Len(g) /\ n \in DOMAIN g
  <2>1. n \in Nat /\ n >= 1 /\ Len(g) \in Nat /\ Len(g) <= Len(src) /\ Len(src) \in Nat
        /\ DOMAIN g = 1..Len(g)
    BY <1>1, <1>2, GrammarFacts
  <2> QED
    BY <1>1, <2>1
<1>4. PICK b \in Seq(Made) : b = g[n].body
  BY <1>1, <1>2, <1>3, GrammarFacts
<1>5. PICK c \in Seq(Made) :
        /\ c = CiBody(b) /\ Retyped(b, c)
        /\ \A i \in DOMAIN b :
             /\ b[i].type # "CI" => c[i].type = b[i].type
             /\ c[i].type = b[i].type
                  \/ (b[i].type = "CI" /\ c[i].type = IF TooLong(b[i]) THEN "GROUP" ELSE "CASES")
             /\ (\A j \in DOMAIN b : ~TooLong(b[j])) => c[i].type # "CI"
  BY CiBodyFacts
<1>6. /\ g' \in Seq(RuleMade) /\ Len(g') = Len(g) /\ DOMAIN g' = DOMAIN g
      /\ \A k \in DOMAIN g : k # n => g'[k] = g[k]
      /\ g'[n].body = c
      /\ Duplicates(g') = {}
      /\ \A k \in DOMAIN g : MadeFrom(g[k], k)'
  BY <1>1, <1>2, <1>4, <1>5, BodySet
<1>7. /\ IsASequence(errors)' /\ IsASequence(printed)' /\ Queued' = Queued
      /\ \A e \in Queued' : Deserved(e)'
  BY <1>1, <1>2, ErrorsStay
<1>8. DOMAIN c = DOMAIN b /\ DOMAIN b = DOMAIN src[n].body
      /\ \A i \in DOMAIN b : /\ b[i] \in Made
                             /\ b[i].letters = src[n].body[i].letters
                             /\ b[i].depth = src[n].body[i].depth
                             /\ c[i].invisible = b[i].invisible /\ c[i].hidden = b[i].hidden
  BY <1>1, <1>2, <1>3, <1>4, <1>5, GrammarFacts DEF Retyped
<1>9. Linked(g[n], n) /\ (\A k \in DOMAIN g : Linked(g[k], k)) /\ CiLeft(g[n], n)
  <2>1. CI_LITERAL \in v
    BY <1>1, <1>2, LowestFacts
  <2>2. \A k \in DOMAIN g : Linked(g[k], k)
    BY <1>1, <1>2 DEF LinkInv
  <2>3. n >= n
    BY <1>3
  <2> QED
    BY <1>1, <1>2, <1>3, <2>1, <2>2, <2>3 DEF RewriteInv
<1>10. \A i \in DOMAIN b : TooLong(b[i]) <=> TooLong(src[n].body[i])
  <2>1. \A i \in DOMAIN b : b[i].type = "CI" <=> src[n].body[i].type = "CI"
    BY <1>4, <1>9 DEF Linked, CanBe, AsRead, CiLeft
  <2> QED
    BY <1>8, <2>1 DEF TooLong
<1>11. Linked(g'[n], n)
  <2>1. ASSUME NEW i \in DOMAIN b, NEW w, w = src[n].body[i]
        PROVE  /\ c[i].type = "RULE" => w.type = "RULE" /\ (w.depth > 0 \/ Queued # {})
               /\ c[i].type = "LINKED" => w.name \in Names(src)
               /\ c[i].type = "TOKEN" => w.name \notin Names(src) \/ Duplicates(src) # {}
               /\ CanBe(c[i].type, w)
               /\ w.type = "RULE" /\ w.depth = 0 /\ ~opts.allowUndefined =>
                    w.name \in Names(src) \/ Queued # {}
    <3>1. /\ b[i].type = "RULE" => w.type = "RULE" /\ (w.depth > 0 \/ Queued # {})
          /\ b[i].type = "LINKED" => w.name \in Names(src)
          /\ b[i].type = "TOKEN" => w.name \notin Names(src) \/ Duplicates(src) # {}
          /\ CanBe(b[i].type, w)
          /\ w.type = "RULE" /\ w.depth = 0 /\ ~opts.allowUndefined =>
               w.name \in Names(src) \/ Queued # {}
      BY <1>4, <1>9, <2>1 DEF Linked
    <3>2. CASE c[i].type = b[i].type
      BY <3>1, <3>2
    <3>3. CASE c[i].type # b[i].type
      <4>1. c[i].type = IF TooLong(w) THEN "GROUP" ELSE "CASES"
        BY <1>5, <1>10, <2>1, <3>3
      <4>2. CI_LITERAL \in opts.unsupported
        BY <1>1, <1>2, LowestFacts
      <4>3. w.type = "CI" /\ (c[i].type = "GROUP" => TooLong(w))
        <5>1. b[i].type = "CI"
          BY <1>5, <3>3
        <5> QED
          BY <3>1, <4>1, <5>1 DEF CanBe, AsRead
      <4>4. CanBe(c[i].type, w)
        BY <4>1, <4>2, <4>3 DEF CanBe
      <4> QED
        BY <3>1, <4>1, <4>4
    <3> QED
      BY <3>2, <3>3
  <2> QED
    BY <1>6, <1>8, <2>1 DEF Linked
<1>12. TypeInv'
  <2>1. n' \in 0..Len(src') + 1
    BY <1>1, <1>3
  <2> QED
    BY <1>1, <1>2, <1>6, <1>7, <2>1 DEF TypeInv
<1>13. PlacesInv'
  <2>1. n' \in 1..Len(g') + 1 /\ Len(g') <= Len(src')
    BY <1>1, <1>3, <1>6
  <2>2. Clean' => Len(g') = Len(src')
    BY <1>1, <1>2, <1>6, <1>7 DEF PlacesInv, Clean
  <2> QED
    BY <1>1, <1>6, <2>1, <2>2 DEF PlacesInv
<1>14. ErrorsInv'
  BY <1>1, <1>2, <1>7 DEF ErrorsInv
<1>15. LinkInv'
  <2>1. \A k \in DOMAIN g : Linked(g'[k], k)
    BY <1>6, <1>9, <1>11
  <2>2. \A k \in DOMAIN g : Linked(g[k], k)'
    BY <1>1, <1>7, <2>1, GrammarStays
  <2> QED
    BY <1>1, <1>6, <2>2 DEF LinkInv
<1>16. RewriteInv'
  <2>1. CASE pc' = "failed"
    BY <2>1 DEF RewriteInv
  <2>2. CASE pc' # "failed"
    <3>1. pc' = "rewrite" /\ \A i \in DOMAIN b : ~(b[i].depth = 0 /\ TooLong(b[i]))
      BY <1>1, <1>4, <2>2
    <3>2. CiDone(g'[n], n)
      <4>1. ASSUME NEW i \in DOMAIN b
            PROVE  TooLong(src[n].body[i]) => src[n].body[i].depth > 0
        <5>1. b[i].depth \in Nat
          BY <1>8 DEF Made
        <5> QED
          BY <1>8, <1>10, <3>1, <5>1
      <4>2. ASSUME NEW i \in DOMAIN b, ~LongInGroup(src)
            PROVE  c[i].type # "CI"
        <5>1. n \in DOMAIN src
          BY <1>1, <1>2, <1>3, GrammarFacts
        <5>2. \A j \in DOMAIN b : ~TooLong(b[j])
          BY <1>8, <1>10, <4>1, <4>2, <5>1 DEF LongInGroup
        <5> QED
          BY <1>5, <5>2
      <4> QED
        BY <1>6, <1>8, <4>1, <4>2 DEF CiDone
    <3>3. InvisibleDone(g[n]) => InvisibleDone(g'[n])
      <4>1. \A i \in DOMAIN b : c[i].type # "GONE" => b[i].type # "GONE"
        BY <1>5
      <4> QED
        BY <1>4, <1>6, <1>8, <4>1 DEF InvisibleDone
    <3>4. Lowest' = Lowest
      BY <1>1 DEF Lowest
    <3>5. ASSUME NEW k \in DOMAIN g
          PROVE  /\ CI_LITERAL \in v' /\ k >= n' => CiLeft(g[k], k)'
                 /\ CI_LITERAL \in opts'.unsupported /\ (CI_LITERAL \notin v' \/ k < n') => CiDone(g[k], k)'
                 /\ INVISIBLE \in opts'.unsupported
                      /\ (INVISIBLE \notin v' \/ (Lowest' = INVISIBLE /\ k < n')) => InvisibleDone(g[k])'
      <4>1. CI_LITERAL \in v /\ k >= n + 1 => CiLeft(g'[k], k)
        <5>1. k >= n + 1 => k # n /\ k >= n
          BY <1>3
        <5> QED
          BY <1>1, <1>2, <1>6, <5>1 DEF RewriteInv
      <4>2. CI_LITERAL \in opts.unsupported /\ (CI_LITERAL \notin v \/ k < n + 1) => CiDone(g'[k], k)
        <5>1. k < n + 1 => k = n \/ k < n
          BY <1>3
        <5>2. CI_LITERAL \in v
          BY <1>1, <1>2, LowestFacts
        <5>3. k # n => g'[k] = g[k]
          BY <1>6
        <5> QED
          BY <1>1, <1>2, <3>2, <5>1, <5>2, <5>3 DEF RewriteInv
      <4>3. Lowest # INVISIBLE
        BY <1>1 DEF CI_LITERAL, INVISIBLE
      <4>4. INVISIBLE \in opts.unsupported /\ INVISIBLE \notin v => InvisibleDone(g'[k])
        <5>1. INVISIBLE \in opts.unsupported /\ INVISIBLE \notin v => InvisibleDone(g[k])
          BY <1>1, <1>2 DEF RewriteInv
        <5> QED
          BY <1>6, <3>3, <5>1
      <4> QED
        BY <1>1, <3>4, <4>1, <4>2, <4>3, <4>4, GrammarStays
    <3> QED
      BY <1>6, <3>1, <3>5 DEF RewriteInv
  <2> QED
    BY <2>1, <2>2
<1> QED
  BY <1>1, <1>12, <1>13, <1>14, <1>15, <1>16 DEF RulesInv, PragmaInv

\* What is invisible goes, and takes nothing else along unless it is inside.
LEMMA InvisibleBodyFacts ==
  ASSUME NEW b \in Seq(Made)
  PROVE  /\ InvisibleBody(b) \in Seq(Made) /\ Retyped(b, InvisibleBody(b))
         /\ \A i \in DOMAIN b :
              \/ InvisibleBody(b)[i].type = b[i].type /\ ~b[i].invisible /\ ~b[i].hidden
              \/ /\ InvisibleBody(b)[i].type = "GONE"
                 /\ \E j \in DOMAIN b : b[j].invisible \/ b[j].hidden
<1> DEFINE c == InvisibleBody(b)
           goes(i) == \E j \in 1..i : /\ i <= LastInside(b, j)
                                      /\ b[j].invisible \/ b[j].hidden
<1>1. c = [i \in DOMAIN b |-> IF goes(i) THEN [b[i] EXCEPT !.type = "GONE"] ELSE b[i]]
  BY DEF InvisibleBody
<1> HIDE DEF c
<1>2. DOMAIN b = 1..Len(b) /\ Len(b) \in Nat /\ \A i \in DOMAIN b : b[i] \in Made
  BY LenProperties, ElementOfSeq
<1>3. c = [i \in DOMAIN b |-> c[i]]
  BY <1>1
<1>4. "GONE" \in Types
  BY DEF Types
<1>5. c \in Seq(Made) /\ Retyped(b, c)
  <2>1. \A i \in DOMAIN b : c[i] = b[i] \/ \E type \in Types : c[i] = [b[i] EXCEPT !.type = type]
    <3> HIDE DEF goes
    <3> QED
      BY <1>1, <1>4
  <2> QED
    BY <1>3, <2>1, NewTypes
<1>6. ASSUME NEW i \in DOMAIN b
      PROVE  \/ c[i].type = b[i].type /\ ~b[i].invisible /\ ~b[i].hidden
             \/ c[i].type = "GONE" /\ \E j \in DOMAIN b : b[j].invisible \/ b[j].hidden
  <2>1. CASE goes(i)
    <3>1. \E j \in DOMAIN b : b[j].invisible \/ b[j].hidden
      <4>1. \A j \in 1..i : j \in DOMAIN b
        BY <1>2
      <4> QED
        BY <2>1, <4>1
    <3>2. b[i] \in Made
      BY <1>2
    <3>3. c[i].type = "GONE"
      <4> HIDE DEF goes
      <4>1. c[i] = [b[i] EXCEPT !.type = "GONE"]
        BY <1>1, <2>1
      <4> QED
        BY <3>2, <4>1 DEF Made
    <3> QED
      BY <3>1, <3>3
  <2>2. CASE ~goes(i)
    <3>1. c[i].type = b[i].type
      <4> HIDE DEF goes
      <4> QED
        BY <1>1, <2>2
    <3>2. i \in 1..i /\ i <= LastInside(b, i)
      <4>1. \A k \in 1..Len(b) : b[k].depth \in Nat
        BY <1>2 DEF Made
      <4>2. LastInside(b, i) \in i..Len(b)
        BY <1>2, <4>1, LastInsideFacts
      <4> QED
        BY <1>2, <4>2
    <3> QED
      BY <2>2, <3>1, <3>2
  <2> QED
    BY <2>1, <2>2
<1> QED
  BY <1>5, <1>6 DEF c

LEMMA RewriteInvisibleRulesInv == RulesInv /\ RewriteInvisible => RulesInv'
<1> SUFFICES ASSUME RulesInv, RewriteInvisible
             PROVE  RulesInv'
  OBVIOUS
<1>1. /\ pc = "rewrite" /\ pc' = "rewrite" /\ n <= Len(g) /\ v # {} /\ Lowest = INVISIBLE
      /\ n' = n + 1
      /\ g' = [g EXCEPT ![n].body = InvisibleBody(g[n].body)]
      /\ UNCHANGED <<src, opts, read, invisible, errors, printed, v>>
  BY DEF RewriteInvisible, AtRule, SetBody
<1>2. TypeInv /\ PlacesInv /\ ErrorsInv /\ LinkInv /\ RewriteInv
  BY DEF RulesInv
<1>3. n \in Nat /\ n >= 1 /\ Len(g) \in Nat /\ Len(g) <= Len(src) /\ Len(src) \in Nat
      /\ DOMAIN g = 1..Len(g) /\ n \in DOMAIN g
  <2>1. n \in Nat /\ n >= 1 /\ Len(g) \in Nat /\ Len(g) <= Len(src) /\ Len(src) \in Nat
        /\ DOMAIN g = 1..Len(g)
    BY <1>1, <1>2, GrammarFacts
  <2> QED
    BY <1>1, <2>1
<1>4. PICK b \in Seq(Made) : b = g[n].body
  BY <1>1, <1>2, <1>3, GrammarFacts
<1>5. PICK c \in Seq(Made) :
        /\ c = InvisibleBody(b) /\ Retyped(b, c)
        /\ \A i \in DOMAIN b :
             \/ c[i].type = b[i].type /\ ~b[i].invisible /\ ~b[i].hidden
             \/ c[i].type = "GONE" /\ \E j \in DOMAIN b : b[j].invisible \/ b[j].hidden
  BY InvisibleBodyFacts
<1>6. /\ g' \in Seq(RuleMade) /\ Len(g') = Len(g) /\ DOMAIN g' = DOMAIN g
      /\ \A k \in DOMAIN g : k # n => g'[k] = g[k]
      /\ g'[n].body = c
      /\ Duplicates(g') = {}
      /\ \A k \in DOMAIN g : MadeFrom(g[k], k)'
  BY <1>1, <1>2, <1>4, <1>5, BodySet
<1>7. /\ IsASequence(errors)' /\ IsASequence(printed)' /\ Queued' = Queued
      /\ \A e \in Queued' : Deserved(e)'
  BY <1>1, <1>2, ErrorsStay
<1>8. DOMAIN c = DOMAIN b
      /\ \A i \in DOMAIN b : c[i].invisible = b[i].invisible /\ c[i].hidden = b[i].hidden
  BY <1>5 DEF Retyped
<1>9. \A k \in DOMAIN g : Linked(g[k], k)
  BY <1>1, <1>2 DEF LinkInv
<1>10. (\E j \in DOMAIN b : b[j].invisible \/ b[j].hidden) => HasPragma(src)
  <2>1. MadeFrom(g[n], n)
    BY <1>1, <1>2, <1>3, GrammarFacts
  <2> QED
    BY <1>4, <2>1 DEF MadeFrom
<1>11. Linked(g'[n], n)
  <2>1. ASSUME NEW i \in DOMAIN b, NEW w, w = src[n].body[i]
        PROVE  /\ c[i].type = "RULE" => w.type = "RULE" /\ (w.depth > 0 \/ Queued # {})
               /\ c[i].type = "LINKED" => w.name \in Names(src)
               /\ c[i].type = "TOKEN" => w.name \notin Names(src) \/ Duplicates(src) # {}
               /\ CanBe(c[i].type, w)
               /\ w.type = "RULE" /\ w.depth = 0 /\ ~opts.allowUndefined =>
                    w.name \in Names(src) \/ Queued # {}
    <3>1. /\ b[i].type = "RULE" => w.type = "RULE" /\ (w.depth > 0 \/ Queued # {})
          /\ b[i].type = "LINKED" => w.name \in Names(src)
          /\ b[i].type = "TOKEN" => w.name \notin Names(src) \/ Duplicates(src) # {}
          /\ CanBe(b[i].type, w)
          /\ w.type = "RULE" /\ w.depth = 0 /\ ~opts.allowUndefined =>
               w.name \in Names(src) \/ Queued # {}
      BY <1>3, <1>4, <1>9, <2>1 DEF Linked
    <3>2. CASE c[i].type = b[i].type
      BY <3>1, <3>2
    <3>3. CASE c[i].type # b[i].type
      <4>1. c[i].type = "GONE" /\ CanBe(c[i].type, w)
        BY <1>1, <1>2, <1>5, <1>10, <3>3, LowestFacts DEF CanBe
      <4> QED
        BY <3>1, <4>1
    <3> QED
      BY <3>2, <3>3
  <2> QED
    BY <1>6, <1>8, <2>1 DEF Linked
<1>12. TypeInv'
  <2>1. n' \in 0..Len(src') + 1
    BY <1>1, <1>3
  <2> QED
    BY <1>1, <1>2, <1>6, <1>7, <2>1 DEF TypeInv
<1>13. PlacesInv'
  <2>1. n' \in 1..Len(g') + 1 /\ Len(g') <= Len(src')
    BY <1>1, <1>3, <1>6
  <2>2. Clean' => Len(g') = Len(src')
    BY <1>1, <1>2, <1>6, <1>7 DEF PlacesInv, Clean
  <2> QED
    BY <1>1, <1>6, <2>1, <2>2 DEF PlacesInv
<1>14. ErrorsInv'
  BY <1>1, <1>2, <1>7 DEF ErrorsInv
<1>15. LinkInv'
  <2>1. \A k \in DOMAIN g : Linked(g'[k], k)
    BY <1>6, <1>9, <1>11
  <2>2. \A k \in DOMAIN g : Linked(g[k], k)'
    BY <1>1, <1>7, <2>1, GrammarStays
  <2> QED
    BY <1>1, <1>6, <2>2 DEF LinkInv
<1>16. RewriteInv'
  <2>1. CI_LITERAL \notin v
    BY <1>1, <1>2, LowestFacts DEF CI_LITERAL, INVISIBLE
  <2>2. InvisibleDone(g'[n])
    <3>1. \A i \in DOMAIN b : c[i].type # "GONE" => ~b[i].invisible /\ ~b[i].hidden
      BY <1>5
    <3> QED
      BY <1>6, <1>8, <3>1 DEF InvisibleDone
  <2>3. CiDone(g[n], n) => CiDone(g'[n], n)
    <3>1. \A i \in DOMAIN b : b[i].type # "CI" => c[i].type # "CI"
      BY <1>5
    <3> QED
      BY <1>4, <1>6, <1>8, <3>1 DEF CiDone
  <2>4. Lowest' = Lowest
    BY <1>1 DEF Lowest
  <2>5. ASSUME NEW k \in DOMAIN g
        PROVE  /\ CI_LITERAL \in v' /\ k >= n' => CiLeft(g[k], k)'
               /\ CI_LITERAL \in opts'.unsupported /\ (CI_LITERAL \notin v' \/ k < n') => CiDone(g[k], k)'
               /\ INVISIBLE \in opts'.unsupported
                    /\ (INVISIBLE \notin v' \/ (Lowest' = INVISIBLE /\ k < n')) => InvisibleDone(g[k])'
    <3>1. CI_LITERAL \in opts.unsupported => CiDone(g'[k], k)
      <4>1. CI_LITERAL \in opts.unsupported => CiDone(g[k], k)
        BY <1>1, <1>2, <2>1 DEF RewriteInv
      <4> QED
        BY <1>6, <2>3, <4>1
    <3>2. INVISIBLE \in opts.unsupported /\ k < n + 1 => InvisibleDone(g'[k])
      <4>1. k < n + 1 => k = n \/ k < n
        BY <1>3
      <4>2. k # n => g'[k] = g[k]
        BY <1>6
      <4> QED
        BY <1>1, <1>2, <2>2, <4>1, <4>2 DEF RewriteInv
    <3>3. INVISIBLE \in v
      BY <1>1, <1>2, LowestFacts
    <3> QED
      BY <1>1, <2>1, <3>1, <3>2, <3>3, GrammarStays
  <2> QED
    BY <1>1, <1>6, <2>5 DEF RewriteInv
<1> QED
  BY <1>1, <1>12, <1>13, <1>14, <1>15, <1>16 DEF RulesInv, PragmaInv

LEMMA NextFeatureRulesInv == RulesInv /\ NextFeature => RulesInv'
<1> SUFFICES ASSUME RulesInv, NextFeature
             PROVE  RulesInv'
  OBVIOUS
<1>1. /\ pc = "rewrite" /\ pc' = "rewrite" /\ v # {} /\ v' = v \ {Lowest} /\ n' = 1
      /\ Lowest \in {CI_LITERAL, INVISIBLE} => n > Len(g)
      /\ UNCHANGED <<src, opts, read, g, invisible, errors, printed>>
  BY DEF NextFeature
<1>2. TypeInv /\ PlacesInv /\ ErrorsInv /\ LinkInv /\ RewriteInv
  BY DEF RulesInv
<1>3. /\ n \in Nat /\ Len(g) \in Nat /\ Len(g) <= Len(src) /\ Len(src) \in Nat
      /\ DOMAIN g = 1..Len(g)
  BY <1>1, <1>2, GrammarFacts
<1>4. /\ IsASequence(errors)' /\ IsASequence(printed)' /\ Queued' = Queued
      /\ \A e \in Queued' : Deserved(e)'
  BY <1>1, <1>2, ErrorsStay
<1>5. TypeInv'
  <2>1. n' \in 0..Len(src') + 1 /\ v' \subseteq opts'.unsupported
    BY <1>1, <1>2, <1>3 DEF TypeInv
  <2> QED
    BY <1>1, <1>2, <1>4, <2>1 DEF TypeInv
<1>6. PlacesInv'
  <2>1. n' \in 1..Len(g') + 1
    BY <1>1, <1>3
  <2>2. \A k \in DOMAIN g : MadeFrom(g[k], k)'
    BY <1>1, <1>2, GrammarStays DEF PlacesInv
  <2>3. Len(g') <= Len(src') /\ (Clean' => Len(g') = Len(src')) /\ Duplicates(g') = {}
    BY <1>1, <1>2, <1>4 DEF PlacesInv, Clean
  <2> QED
    BY <1>1, <2>1, <2>2, <2>3 DEF PlacesInv
<1>7. ErrorsInv'
  BY <1>1, <1>2, <1>4 DEF ErrorsInv
<1>8. LinkInv'
  <2>1. \A k \in DOMAIN g : Linked(g'[k], k)
    BY <1>1, <1>2 DEF LinkInv
  <2>2. \A k \in DOMAIN g : Linked(g[k], k)'
    BY <1>1, <1>4, <2>1, GrammarStays
  <2> QED
    BY <1>1, <2>2 DEF LinkInv
<1>9. RewriteInv'
  <2>1. CI_LITERAL \notin v'
    BY <1>1, <1>2, LowestFacts
  <2>2. ASSUME NEW k \in DOMAIN g, CI_LITERAL \in opts.unsupported
        PROVE  CiDone(g[k], k)'
    <3>1. CI_LITERAL \notin v \/ k < n
      <4>1. CI_LITERAL \in v => Lowest = CI_LITERAL
        BY <1>1, <1>2, LowestFacts
      <4> QED
        BY <1>1, <1>3, <4>1
    <3>2. CiDone(g'[k], k)
      BY <1>1, <1>2, <2>2, <3>1 DEF RewriteInv
    <3> QED
      BY <1>1, <3>2, GrammarStays
  <2>3. ASSUME NEW k \in DOMAIN g, INVISIBLE \in opts.unsupported, INVISIBLE \notin v'
        PROVE  InvisibleDone(g[k])'
    <3>1. INVISIBLE \notin v \/ (Lowest = INVISIBLE /\ k < n)
      <4>1. INVISIBLE \in v => Lowest = INVISIBLE
        BY <1>1, <2>3
      <4>2. Lowest = INVISIBLE => k < n
        BY <1>1, <1>3
      <4> QED
        BY <4>1, <4>2
    <3>2. InvisibleDone(g'[k])
      BY <1>1, <1>2, <2>3, <3>1 DEF RewriteInv
    <3> QED
      BY <1>1, <3>2, GrammarStays
  <2>4. \A k \in DOMAIN g : ~(k < n')
    BY <1>1, <1>3
  <2> QED
    BY <1>1, <2>1, <2>2, <2>3, <2>4 DEF RewriteInv
<1> QED
  BY <1>1, <1>5, <1>6, <1>7, <1>8, <1>9 DEF RulesInv, PragmaInv

LEMMA FilterRulesInv == RulesInv /\ Filter => RulesInv'
<1> SUFFICES ASSUME RulesInv, Filter
             PROVE  RulesInv'
  OBVIOUS
<1>1. /\ pc = "rewrite" /\ pc' = "output" /\ v = {} /\ g' = Filtered(g)
      /\ UNCHANGED <<src, opts, n, read, invisible, errors, printed, v>>
  BY DEF Filter
<1>2. TypeInv /\ PlacesInv /\ ErrorsInv /\ LinkInv /\ RewriteInv
  BY DEF RulesInv
<1>3. /\ IsASequence(errors)' /\ IsASequence(printed)' /\ Queued' = Queued
      /\ \A e \in Queued' : Deserved(e)'
  BY <1>1, <1>2, ErrorsStay
<1>4. /\ g' \in Seq(RuleMade) /\ Duplicates(g') = {}
      /\ \A k \in DOMAIN g' : \E m \in DOMAIN g : g'[k] = g[m]
  BY <1>1, <1>2, FilteredFacts DEF TypeInv, PlacesInv
<1>5. TypeInv'
  BY <1>1, <1>2, <1>3, <1>4 DEF TypeInv
<1>6. ErrorsInv'
  BY <1>1, <1>2, <1>3 DEF ErrorsInv
<1>7. ASSUME NEW k \in DOMAIN g'
      PROVE  \E m \in DOMAIN src :
               /\ MadeFrom(g[k], m)' /\ Linked(g[k], m)'
               /\ CI_LITERAL \in opts.unsupported => CiDone(g[k], m)'
               /\ INVISIBLE \in opts.unsupported => InvisibleDone(g[k])'
  <2>1. PICK m \in DOMAIN g : g'[k] = g[m]
    BY <1>4
  <2>2. m \in DOMAIN src /\ MadeFrom(g'[k], m)
    BY <1>1, <1>2, <2>1, GrammarFacts
  <2>3. Linked(g'[k], m)
    BY <1>1, <1>2, <2>1 DEF LinkInv
  <2>4. /\ CI_LITERAL \in opts.unsupported => CiDone(g'[k], m)
        /\ INVISIBLE \in opts.unsupported => InvisibleDone(g'[k])
    BY <1>1, <1>2, <2>1 DEF RewriteInv
  <2> QED
    BY <1>1, <1>3, <2>2, <2>3, <2>4, GrammarStays
<1>8. RewriteInv'
  BY <1>1, <1>7 DEF RewriteInv
<1> QED
  BY <1>1, <1>4, <1>5, <1>6, <1>8 DEF RulesInv, PlacesInv, PragmaInv, LinkInv

\* The output changes nothing.
LEMMA OutputRulesInv == RulesInv /\ (Output \/ BreakOff) => RulesInv'
<1> SUFFICES ASSUME RulesInv, Output \/ BreakOff
             PROVE  RulesInv'
  OBVIOUS
<1>1. /\ pc = "output" /\ pc' \in {"done", "brokenoff"}
      /\ UNCHANGED <<src, opts, n, read, g, invisible, errors, printed, v>>
  BY DEF Output, BreakOff
<1>2. TypeInv /\ PlacesInv /\ ErrorsInv /\ RewriteInv
  BY DEF RulesInv
<1>3. /\ IsASequence(errors)' /\ IsASequence(printed)' /\ Queued' = Queued
      /\ \A e \in Queued' : Deserved(e)'
  BY <1>1, <1>2, ErrorsStay
<1>4. TypeInv'
  BY <1>1, <1>2, <1>3 DEF TypeInv
<1>5. ErrorsInv'
  BY <1>1, <1>2, <1>3 DEF ErrorsInv
<1>6. \A k, m : /\ MadeFrom(g[k], m) => MadeFrom(g[k], m)'
                /\ CiDone(g[k], m) => CiDone(g[k], m)'
                /\ InvisibleDone(g[k]) => InvisibleDone(g[k])'
                /\ Linked(g[k], m) => Linked(g[k], m)'
  BY <1>1, <1>3, GrammarStays
<1>7. RewriteInv'
  BY <1>1, <1>2, <1>6 DEF RewriteInv
<1>8. PlacesInv'
  BY <1>1, <1>2 DEF PlacesInv
<1> QED
  BY <1>1, <1>4, <1>5, <1>7, <1>8 DEF RulesInv, PragmaInv, LinkInv

LEMMA StutterRulesInv == RulesInv /\ UNCHANGED vars => RulesInv'
<1> SUFFICES ASSUME RulesInv, UNCHANGED vars
             PROVE  RulesInv'
  OBVIOUS
<1>1. UNCHANGED <<src, opts, pc, n, read, g, invisible, errors, printed, v>>
  BY DEF vars
<1>2. TypeInv /\ PlacesInv /\ PragmaInv /\ ErrorsInv /\ LinkInv /\ RewriteInv
  BY DEF RulesInv
<1>3. /\ IsASequence(errors)' /\ IsASequence(printed)' /\ Queued' = Queued
      /\ \A e \in Queued' : Deserved(e)'
  BY <1>1, <1>2, ErrorsStay
<1>4. TypeInv'
  BY <1>1, <1>2, <1>3 DEF TypeInv
<1>5. PragmaInv'
  BY <1>1, <1>2, PragmaStays DEF TypeInv
<1>6. ErrorsInv'
  BY <1>1, <1>2, <1>3 DEF ErrorsInv
<1>7. \A k, m : /\ MadeFrom(g[k], m) => MadeFrom(g[k], m)'
                /\ Unlinked(g[k], m) => Unlinked(g[k], m)'
                /\ CiLeft(g[k], m) => CiLeft(g[k], m)'
                /\ CiDone(g[k], m) => CiDone(g[k], m)'
                /\ InvisibleDone(g[k]) => InvisibleDone(g[k])'
                /\ Linked(g[k], m) => Linked(g[k], m)'
  BY <1>1, <1>3, GrammarStays
<1>8. PlacesInv'
  <2>1. ASSUME NEW k, NEW m
        PROVE  /\ MadeFrom(read[k], m) => MadeFrom(read[k], m)'
               /\ Unlinked(read[k], m) => Unlinked(read[k], m)'
    <3>1. PICK rule : rule = read[k] /\ rule = read'[k]
      BY <1>1
    <3>2. /\ MadeFrom(rule, m) => MadeFrom(rule, m)'
          /\ Unlinked(rule, m) => Unlinked(rule, m)'
      BY <1>1, SourceStays
    <3>3. /\ MadeFrom(rule, m)' => MadeFrom(read[k], m)'
          /\ Unlinked(rule, m)' => Unlinked(read[k], m)'
      BY <3>1 DEF MadeFrom, Unlinked
    <3> QED
      BY <3>1, <3>2, <3>3
  <2>2. Clean' = Clean
    BY <1>1, <1>3 DEF Clean
  <2>3. pc = "read" =>
          /\ \A k \in DOMAIN read : MadeFrom(read[k], k)' /\ Unlinked(read[k], k)'
          /\ \A k \in DOMAIN g : MadeFrom(g[k], Len(read) + k)' /\ Unlinked(g[k], Len(read) + k)'
    <3>1. ASSUME pc = "read", NEW k \in DOMAIN g
          PROVE  MadeFrom(g[k], Len(read) + k)' /\ Unlinked(g[k], Len(read) + k)'
      <4>1. PICK m : m = Len(read) + k /\ m = Len(read') + k
        BY <1>1
      <4>2. MadeFrom(g[k], m) /\ Unlinked(g[k], m)
        BY <1>2, <3>1, <4>1 DEF PlacesInv
      <4>3. MadeFrom(g[k], m)' /\ Unlinked(g[k], m)'
        BY <1>7, <4>2
      <4> QED
        BY <4>1, <4>3 DEF MadeFrom, Unlinked
    <3> QED
      BY <1>2, <2>1, <3>1 DEF PlacesInv
  <2>4. Duplicates(g') = {}
    BY <1>1, <1>2 DEF PlacesInv
  <2>5. CASE pc = "read"
    <3>1. /\ n <= Len(src) /\ (n < Len(src) => Len(read) = n /\ g = <<>>)
          /\ Len(read) + Len(g) <= n /\ (Clean => Len(read) + Len(g) = n)
      BY <1>2, <2>5 DEF PlacesInv
    <3> QED
      BY <1>1, <2>2, <2>3, <2>4, <2>5, <3>1 DEF PlacesInv
  <2>6. CASE pc # "read"
    BY <1>1, <1>2, <1>7, <2>2, <2>4, <2>6 DEF PlacesInv
  <2> QED
    BY <2>5, <2>6
<1>9. LinkInv'
  BY <1>1, <1>2, <1>7 DEF LinkInv
<1>10. RewriteInv'
  <2>1. Lowest' = Lowest
    BY <1>1 DEF Lowest
  <2> QED
    BY <1>1, <1>2, <1>7, <2>1 DEF RewriteInv
<1> QED
  BY <1>4, <1>5, <1>6, <1>8, <1>9, <1>10 DEF RulesInv

LEMMA StepRulesInv == RulesInv /\ [Next]_vars => RulesInv'
BY ReadRuleRulesInv, SyntaxErrorRulesInv, AddRuleRulesInv, BeginLinkingRulesInv, LinkRuleRulesInv,
   BeginReportRulesInv, PopErrorRulesInv, ExitingRulesInv, BeginRewritingRulesInv,
   RewriteCiRulesInv, RewriteInvisibleRulesInv, NextFeatureRulesInv, FilterRulesInv,
   OutputRulesInv, StutterRulesInv DEF Next, Terminated

LEMMA RulesAlways == Spec => []RulesInv
BY InitRulesInv, StepRulesInv, PTL DEF Spec
-----------------------------------------------------------------------------
\* Every variable has its type, and a name is in the list of rules only once,
\* whatever <add-rule-to-list> is given.
THEOREM TypesAreRight == Spec => []TypeOK
<1>1. RulesInv => TypeOK
  <2> SUFFICES ASSUME RulesInv
               PROVE  TypeOK
    OBVIOUS
  <2>1. /\ pc \in {"read", "link", "report", "rewrite", "output", "done", "failed", "brokenoff"}
        /\ n \in 0..Len(src) + 1 /\ v \subseteq opts.unsupported /\ Duplicates(g) = {}
        /\ read \in Seq(RuleMade) /\ g \in Seq(RuleMade)
    BY DEF RulesInv, TypeInv, PlacesInv
  <2>2. invisible \in BOOLEAN
    BY Zenon DEF RulesInv, TypeInv
  <2>3. ASSUME NEW rule \in RuleMade
        PROVE  Ok(rule)
    <3>1. rule.body \in Seq(Made)
      BY DEF RuleMade
    <3>2. \A i \in DOMAIN rule.body : rule.body[i] \in Made
      BY <3>1, LenProperties, ElementOfSeq
    <3> QED
      BY <3>2 DEF Made, Ok
  <2>4. (\A i \in DOMAIN read : Ok(read[i])) /\ (\A i \in DOMAIN g : Ok(g[i]))
    <3>1. \A i \in DOMAIN read : read[i] \in RuleMade
      BY <2>1, LenProperties, ElementOfSeq
    <3>2. \A i \in DOMAIN g : g[i] \in RuleMade
      BY <2>1, LenProperties, ElementOfSeq
    <3> QED
      BY <2>3, <3>1, <3>2
  <2> QED
    BY <2>1, <2>2, <2>4, Zenon DEF TypeOK
<1> QED
  BY <1>1, RulesAlways, PTL

(***************************************************************************)
(* A rule is only said not to be defined if it is not, unless a rule given *)
(* twice has made <add-rule-to-list> drop the rules after it.              *)
(***************************************************************************)
THEOREM UndefinedIsTrue == Spec => []UndefinedIsTrueOtherwise
<1>1. RulesInv => UndefinedIsTrueOtherwise
  <2> SUFFICES ASSUME RulesInv, NEW i \in DOMAIN printed, printed[i].kind = "undefined",
                      printed[i].name \in Names(src)
               PROVE  Duplicates(src) # {}
    BY DEF UndefinedIsTrueOtherwise
  <2>1. printed[i] \in Queued
    BY DEF Queued
  <2>2. Deserved(printed[i])
    BY <2>1 DEF RulesInv, ErrorsInv
  <2> QED
    BY <2>2 DEF Deserved
<1> QED
  BY <1>1, RulesAlways, PTL

LEMMA NamesAreUnique ==
  ASSUME TypeInv, Duplicates(src) = {}, NEW l \in DOMAIN src, NEW m \in DOMAIN src,
         src[l].name = src[m].name
  PROVE  l = m
<1>1. DOMAIN src = 1..Len(src) /\ Len(src) \in Nat
  BY PlacesFacts
<1>2. \A x \in DOMAIN src : \A y \in 1..x - 1 : src[y].name # src[x].name
  BY DEF Duplicates
<1>3. ~(l < m) /\ ~(m < l)
  BY <1>1, <1>2
<1> QED
  BY <1>1, <1>3

\* What is known of a rule that is output.
LEMMA OutputFacts ==
  ASSUME RulesInv, ForOutput, NEW k \in DOMAIN g
  PROVE  /\ Queued = {} /\ Duplicates(src) = {}
         /\ \E m \in DOMAIN src :
              /\ MadeFrom(g[k], m) /\ Linked(g[k], m)
              /\ CI_LITERAL \in opts.unsupported => CiDone(g[k], m)
              /\ INVISIBLE \in opts.unsupported => InvisibleDone(g[k])
              /\ DOMAIN g[k].body = DOMAIN src[m].body
              /\ src[m].body \in WrittenBody
<1>1. TypeInv /\ ErrorsInv /\ RewriteInv
  BY DEF RulesInv
<1>2. Queued = {} /\ Duplicates(src) = {}
  BY <1>1 DEF ErrorsInv, ForOutput
<1>3. PICK m \in DOMAIN src :
        /\ MadeFrom(g[k], m) /\ Linked(g[k], m)
        /\ CI_LITERAL \in opts.unsupported => CiDone(g[k], m)
        /\ INVISIBLE \in opts.unsupported => InvisibleDone(g[k])
  BY <1>1 DEF RewriteInv, ForOutput
<1>4. DOMAIN g[k].body = DOMAIN src[m].body
  BY <1>3 DEF MadeFrom
<1> QED
  BY <1>1, <1>2, <1>3, <1>4, PlacesFacts

(***************************************************************************)
(* What linking leaves of the references outside groups: a link if the     *)
(* rule was written, a token if it was not and -u was given.               *)
(***************************************************************************)
THEOREM ReferencesAreLinked == Spec => []LinkedToGrammar
<1>1. RulesInv => LinkedToGrammar
  <2> SUFFICES ASSUME RulesInv, ForOutput, NEW k \in DOMAIN g, NEW i \in DOMAIN g[k].body
               PROVE  /\ g[k].body[i].type = "RULE" => g[k].body[i].depth > 0
                      /\ g[k].body[i].type = "LINKED" => g[k].body[i].name \in Names(src)
                      /\ g[k].body[i].type = "TOKEN" => g[k].body[i].name \notin Names(src)
    BY DEF LinkedToGrammar
  <2>1. PICK m \in DOMAIN src :
          /\ MadeFrom(g[k], m) /\ Linked(g[k], m) /\ Queued = {} /\ Duplicates(src) = {}
    BY OutputFacts
  <2>2. g[k].body[i].name = src[m].body[i].name /\ g[k].body[i].depth = src[m].body[i].depth
    BY <2>1 DEF MadeFrom
  <2> QED
    BY <2>1, <2>2 DEF Linked
<1> QED
  BY <1>1, RulesAlways, PTL

\* The terms inside the one at i are told by the depths alone.
LEMMA SameDepths ==
  ASSUME NEW b, NEW w, Len(b) = Len(w), Len(b) \in Nat, NEW i \in 1..Len(b),
         \A j \in 1..Len(b) : b[j].depth = w[j].depth /\ b[j].depth \in Nat
  PROVE  LastInside(b, i) = LastInside(w, i) /\ TermsOfGroup(b, i) = TermsOfGroup(w, i)
<1> DEFINE P(x, j) == /\ \A k \in i + 1..j : x[k].depth > x[i].depth
                      /\ j < Len(x) => x[j + 1].depth <= x[i].depth
<1>1. ASSUME NEW j \in i..Len(b)
      PROVE  P(b, j) <=> P(w, j)
  <2>1. \A k \in i + 1..j : k \in 1..Len(b)
    BY <1>1
  <2>2. j < Len(b) => j + 1 \in 1..Len(b)
    BY <1>1
  <2> QED
    BY <2>1, <2>2
<1>2. LastInside(b, i) = CHOOSE j \in i..Len(b) : P(b, j)
  BY DEF LastInside
<1>3. LastInside(w, i) = CHOOSE j \in i..Len(b) : P(w, j)
  BY DEF LastInside
<1> HIDE DEF P
<1>4. LastInside(b, i) = LastInside(w, i)
  BY <1>1, <1>2, <1>3
<1>5. LastInside(b, i) \in i..Len(b)
  BY LastInsideFacts
<1>6. \A j \in i + 1..LastInside(b, i) : b[j].depth = w[j].depth
  BY <1>5
<1> QED
  BY <1>4, <1>6 DEF TermsOfGroup

\* Where nothing takes an alternative away and no group is empty, none is lost.
LEMMA NoneIsLost ==
  ASSUME RulesInv, ForOutput, NEW k \in DOMAIN g,
         ~HasPragma(src), ~LongInGroup(src), ~EmptyGroup(src)
  PROVE  /\ \A i \in DOMAIN g[k].body : g[k].body[i].type # "GONE"
         /\ TermsOfRule(g[k].body) # {} /\ TermsOfRule(g[k].body) \subseteq DOMAIN g[k].body
         /\ \A i \in DOMAIN g[k].body :
              g[k].body[i].type = "GROUP" =>
                /\ TermsOfGroup(g[k].body, i) # {}
                /\ TermsOfGroup(g[k].body, i) \subseteq DOMAIN g[k].body
<1>1. PICK m \in DOMAIN src :
        /\ MadeFrom(g[k], m) /\ Linked(g[k], m)
        /\ CI_LITERAL \in opts.unsupported => CiDone(g[k], m)
        /\ DOMAIN g[k].body = DOMAIN src[m].body
        /\ src[m].body \in WrittenBody
  BY OutputFacts
<1>2. PICK b, w : b = g[k].body /\ w = src[m].body
  OBVIOUS
<1>3. /\ Len(w) \in Nat /\ Len(w) >= 1 /\ DOMAIN w = 1..Len(w) /\ w[1].depth = 0
      /\ \A i \in DOMAIN w : w[i].depth \in Nat
  BY <1>1, <1>2, WrittenBodyFacts
<1>4. \A i \in DOMAIN b : b[i].depth = w[i].depth
  BY <1>1, <1>2 DEF MadeFrom
<1>5. Len(b) = Len(w) /\ DOMAIN b = 1..Len(b)
  <2>1. g \in Seq(RuleMade)
    BY DEF RulesInv, TypeInv
  <2>2. g[k] \in RuleMade
    BY <2>1, ElementOfSeq, LenProperties
  <2>3. b \in Seq(Made)
    BY <1>2, <2>2 DEF RuleMade
  <2> QED
    BY <1>1, <1>2, <1>3, <2>3, LenProperties
<1>6. \A i \in DOMAIN b : CanBe(b[i].type, w[i])
  BY <1>1, <1>2 DEF Linked
<1>7. \A i \in DOMAIN b : b[i].type # "GONE"
  <2>1. ASSUME NEW i \in DOMAIN b, b[i].type = "GONE"
        PROVE  FALSE
    <3>1. w[i].type = "GONE"
      BY <1>6, <2>1 DEF CanBe, AsRead
    <3>2. w[i] \in WrittenTerm
      BY <1>1, <1>2, <2>1, WrittenBodyFacts
    <3> QED
      BY <3>1, <3>2 DEF WrittenTerm, WrittenTypes
  <2> QED
    BY <2>1
<1>8. TermsOfRule(b) # {} /\ TermsOfRule(b) \subseteq DOMAIN b
  <2>1. 1 \in DOMAIN b /\ b[1].depth = 0
    BY <1>3, <1>4, <1>5
  <2> QED
    BY <2>1 DEF TermsOfRule
<1>9. ASSUME NEW i \in DOMAIN b, b[i].type = "GROUP"
      PROVE  TermsOfGroup(b, i) # {} /\ TermsOfGroup(b, i) \subseteq DOMAIN b
  <2>1. w[i].type = "GROUP"
    <3>1. w[i].type = "GROUP" \/ (TooLong(w[i]) /\ CI_LITERAL \in opts.unsupported)
      BY <1>6, <1>9 DEF CanBe, AsRead
    <3>2. TooLong(w[i]) /\ CI_LITERAL \in opts.unsupported => LongInGroup(src)
      BY <1>1, <1>2, <1>9 DEF CiDone, LongInGroup
    <3> QED
      BY <3>1, <3>2
  <2>2. TermsOfGroup(w, i) # {}
    BY <1>1, <1>2, <1>9, <2>1 DEF EmptyGroup
  <2>3. /\ TermsOfGroup(b, i) = TermsOfGroup(w, i)
        /\ i \in 1..Len(b) /\ LastInside(b, i) \in i..Len(b)
    <3>1. i \in 1..Len(b) /\ \A j \in 1..Len(b) : b[j].depth = w[j].depth /\ b[j].depth \in Nat
      BY <1>3, <1>4, <1>5, <1>9
    <3> QED
      BY <1>3, <1>5, <3>1, SameDepths, LastInsideFacts
  <2>4. TermsOfGroup(b, i) \subseteq DOMAIN b
    <3>1. \A j \in i + 1..LastInside(b, i) : j \in 1..Len(b)
      BY <1>3, <1>5, <2>3
    <3> QED
      BY <1>5, <3>1 DEF TermsOfGroup
  <2> QED
    BY <2>2, <2>3, <2>4
<1> QED
  BY <1>2, <1>7, <1>8, <1>9

(***************************************************************************)
(* No rule and no group comes to the output without alternatives, if there *)
(* are no pragmas, no literal in a group is too long, and none of the      *)
(* groups that <make-range-term> and others make is without alternatives   *)
(* from the beginning: what wsn's and sid's output() assert of them.       *)
(***************************************************************************)
THEOREM AlternativesAreLeft == Spec => []HasAlternativesOtherwise
<1>1. RulesInv => HasAlternativesOtherwise
  <2> SUFFICES ASSUME RulesInv, ~HasPragma(src), ~LongInGroup(src), ~EmptyGroup(src), ForOutput,
                      NEW k \in DOMAIN g, NEW b, b = g[k].body,
                      NEW left, left = {i \in DOMAIN b : b[i].type # "GONE"}
               PROVE  /\ left # {}
                      /\ \A i \in left : b[i].type = "GROUP"
                                           => \E j \in left : j \in i + 1..LastInside(b, i)
    BY DEF HasAlternativesOtherwise, HasAlternatives
  <2>1. left = DOMAIN b
    BY NoneIsLost
  <2>2. left # {}
    BY <2>1, NoneIsLost
  <2>3. ASSUME NEW i \in left, b[i].type = "GROUP"
        PROVE  \E j \in left : j \in i + 1..LastInside(b, i)
    <3>1. TermsOfGroup(b, i) # {} /\ TermsOfGroup(b, i) \subseteq left
      BY <2>1, <2>3, NoneIsLost
    <3> QED
      BY <3>1 DEF TermsOfGroup
  <2> QED
    BY <2>2, <2>3
<1> QED
  BY <1>1, RulesAlways, PTL

(***************************************************************************)
(* The passes selected by out->ast_unsupported leave nothing of what they  *)
(* are there to remove, unless a literal in a group is too long.           *)
(***************************************************************************)
THEOREM NothingUnsupported == Spec => []OnlySupported
<1>1. RulesInv => OnlySupported
  <2> SUFFICES ASSUME RulesInv, ForOutput, NEW k \in DOMAIN g, NEW i \in DOMAIN g[k].body,
                      NEW t, t = g[k].body[i]
               PROVE  /\ CI_LITERAL \in opts.unsupported /\ ~LongInGroup(src) => t.type # "CI"
                      /\ INVISIBLE \in opts.unsupported /\ t.type # "GONE"
                           => ~(t.invisible \/ t.hidden)
    BY DEF OnlySupported
  <2>1. PICK m \in DOMAIN src :
          /\ CI_LITERAL \in opts.unsupported => CiDone(g[k], m)
          /\ INVISIBLE \in opts.unsupported => InvisibleDone(g[k])
    BY OutputFacts
  <2> QED
    BY <2>1 DEF CiDone, InvisibleDone
<1> QED
  BY <1>1, RulesAlways, PTL

(***************************************************************************)
(* What is written between kgt:invisible and kgt:visible is not output,    *)
(* wherever the two stand.                                                 *)
(***************************************************************************)
THEOREM InvisibleGoes == Spec => []InvisibleIsGone
<1>1. RulesInv => InvisibleIsGone
  <2> SUFFICES ASSUME RulesInv, ForOutput, INVISIBLE \in opts.unsupported,
                      NEW q \in Places, NEW k \in DOMAIN g, g[k].name = src[q[1]].name,
                      Written(q) # "GROUP", WrittenInvisible(q)
               PROVE  g[k].body[q[2]].type = "GONE"
    BY DEF InvisibleIsGone
  <2>1. PICK m \in DOMAIN src :
          /\ MadeFrom(g[k], m) /\ InvisibleDone(g[k]) /\ Duplicates(src) = {}
          /\ DOMAIN g[k].body = DOMAIN src[m].body
    BY OutputFacts
  <2>2. /\ q = <<q[1], q[2]>> /\ q[1] \in DOMAIN src
        /\ q[2] \in DOMAIN src[q[1]].body /\ DOMAIN src = 1..Len(src) /\ Len(src) \in Nat
    BY PlacesFacts DEF RulesInv
  <2>3. src[m].name = src[q[1]].name
    BY <2>1 DEF MadeFrom
  <2>4. m = q[1]
    BY <2>1, <2>2, <2>3, NamesAreUnique DEF RulesInv
  <2>5. g[k].body[q[2]].invisible
    <3>1. q[2] \in DOMAIN g[k].body /\ q = <<m, q[2]>>
      BY <2>1, <2>2, <2>4
    <3> QED
      BY <2>1, <3>1 DEF MadeFrom
  <2> QED
    BY <2>1, <2>2, <2>4, <2>5 DEF InvisibleDone
<1> QED
  BY <1>1, RulesAlways, PTL
-----------------------------------------------------------------------------
\* Conversion and Kgt say the same of a grammar.
LEMMA SameWords ==
  /\ \A x : Converted!Names(x) = Names(x) /\ Converted!Duplicates(x) = Duplicates(x)
  /\ \A x : Converted!ReferredToOutsideGroups(x) = ReferredToOutsideGroups(x)
  /\ \A x : Converted!LongOutsideGroups(x) <=> LongOutsideGroups(x)
  /\ \A x : /\ Converted!LongInGroup(x) <=> LongInGroup(x)
            /\ Converted!HasPragma(x) <=> HasPragma(x)
            /\ Converted!EmptyGroup(x) <=> EmptyGroup(x)
            /\ Converted!TermsOfRule(x) = TermsOfRule(x)
  /\ Converted!NoFilter = NoFilter /\ Converted!CI_LITERAL = CI_LITERAL
  /\ Converted!INVISIBLE = INVISIBLE
<1>1. /\ \A x : Converted!Names(x) = Names(x) /\ Converted!Duplicates(x) = Duplicates(x)
      /\ \A x : Converted!ReferredToOutsideGroups(x) = ReferredToOutsideGroups(x)
      /\ Converted!NoFilter = NoFilter /\ Converted!CI_LITERAL = CI_LITERAL
  BY DEF Converted!Names, Names, Converted!Duplicates, Duplicates,
         Converted!ReferredToOutsideGroups, ReferredToOutsideGroups,
         Converted!NoFilter, NoFilter, Converted!CI_LITERAL, CI_LITERAL
<1>2. \A x : Converted!LongOutsideGroups(x) <=> LongOutsideGroups(x)
  BY DEF Converted!LongOutsideGroups, LongOutsideGroups, Converted!TooLong, TooLong
<1>3. \A x : Converted!LongInGroup(x) <=> LongInGroup(x)
  BY DEF Converted!LongInGroup, LongInGroup, Converted!TooLong, TooLong
<1>4. \A x : Converted!TermsOfRule(x) = TermsOfRule(x) /\ (Converted!HasPragma(x) <=> HasPragma(x))
  BY DEF Converted!TermsOfRule, TermsOfRule, Converted!HasPragma, HasPragma
<1>5. \A x : Converted!EmptyGroup(x) <=> EmptyGroup(x)
  <2>1. \A x, i : Converted!LastInside(x, i) = LastInside(x, i)
    BY DEF Converted!LastInside, LastInside
  <2> QED
    BY <2>1 DEF Converted!EmptyGroup, EmptyGroup, Converted!TermsOfGroup, TermsOfGroup
<1>6. Converted!INVISIBLE = INVISIBLE
  BY DEF Converted!INVISIBLE, INVISIBLE
<1> QED
  BY <1>1, <1>2, <1>3, <1>4, <1>5, <1>6

\* An error that is queued is an error of the grammar.
LEMMA DeservedIsFaulty ==
  ASSUME NEW e, Deserved(e)
  PROVE  Converted!Faulty
<1>1. CASE e.kind \in {"expected", "syntax"} /\ \E m \in DOMAIN src : src[m].fault # "none"
  BY <1>1 DEF Converted!Faulty
<1>2. CASE Duplicates(src) # {}
  BY <1>2, SameWords DEF Converted!Faulty
<1>3. CASE /\ ~opts.allowUndefined /\ e.name \in ReferredToOutsideGroups(src)
           /\ e.name \notin Names(src)
  BY <1>3, SameWords DEF Converted!Faulty
<1> QED
  BY <1>1, <1>2, <1>3 DEF Deserved

\* A run that gives up is one of a faulty grammar.
LEMMA FailsIfFaulty == RulesInv /\ (SyntaxError \/ Exiting \/ (RewriteCi /\ pc' = "failed")) => Converted!Faulty
<1> SUFFICES ASSUME RulesInv
             PROVE  /\ SyntaxError => Converted!Faulty
                    /\ Exiting => Converted!Faulty
                    /\ RewriteCi /\ pc' = "failed" => Converted!Faulty
  OBVIOUS
<1>1. TypeInv /\ PlacesInv /\ ErrorsInv /\ LinkInv
  BY DEF RulesInv
<1>2. ASSUME SyntaxError
      PROVE  Converted!Faulty
  <2>1. n < Len(src) /\ src[n + 1].fault = "syntax"
    BY <1>2 DEF SyntaxError
  <2>2. n + 1 \in DOMAIN src
    BY <1>1, <2>1, PlacesFacts DEF TypeInv
  <2> QED
    BY <2>1, <2>2 DEF Converted!Faulty
<1>3. ASSUME Exiting
      PROVE  Converted!Faulty
  <2>1. Queued # {}
    BY <1>1, <1>3, QueuedFacts DEF Exiting
  <2>2. PICK e \in Queued : Deserved(e)
    BY <1>1, <2>1 DEF ErrorsInv
  <2> QED
    BY <2>2, DeservedIsFaulty
<1>4. ASSUME RewriteCi, pc' = "failed"
      PROVE  Converted!Faulty
  <2>1. pc = "rewrite" /\ n <= Len(g) /\ v # {} /\ Lowest = CI_LITERAL
        /\ pc' = IF \E i \in DOMAIN g[n].body : g[n].body[i].depth = 0 /\ TooLong(g[n].body[i])
                 THEN "failed" ELSE pc
    BY <1>4 DEF RewriteCi, AtRule
  <2>2. PICK i \in DOMAIN g[n].body : g[n].body[i].depth = 0 /\ TooLong(g[n].body[i])
    BY <1>4, <2>1
  <2>3. n \in DOMAIN g
    BY <1>1, <2>1, GrammarFacts
  <2>4. /\ n \in DOMAIN src /\ i \in DOMAIN src[n].body
        /\ g[n].body[i].letters = src[n].body[i].letters
        /\ g[n].body[i].depth = src[n].body[i].depth
    BY <1>1, <2>1, <2>2, <2>3, GrammarFacts
  <2>5. src[n].body[i].type = "CI"
    <3>1. Linked(g[n], n)
      BY <1>1, <2>1, <2>3 DEF LinkInv
    <3> QED
      BY <2>2, <3>1 DEF Linked, CanBe, AsRead, TooLong
  <2>6. LongOutsideGroups(src)
    BY <2>2, <2>4, <2>5 DEF LongOutsideGroups, TooLong
  <2>7. CI_LITERAL \in opts.unsupported
    BY <1>1, <2>1, LowestFacts
  <2> QED
    BY <2>6, <2>7, SameWords DEF Converted!Faulty
<1> QED
  BY <1>2, <1>3, <1>4

\* What comes to the output is a grammar without faults, and the rules asked for.
LEMMA FilterSelects ==
  RulesInv /\ Filter => ~Converted!Faulty /\ Names(g)' = Converted!Whitelisted
<1> SUFFICES ASSUME RulesInv, Filter
             PROVE  ~Converted!Faulty /\ Names(g)' = Converted!Whitelisted
  OBVIOUS
<1>1. pc = "rewrite" /\ v = {} /\ g' = Filtered(g)
  BY DEF Filter
<1>2. TypeInv /\ PlacesInv /\ ErrorsInv /\ LinkInv /\ RewriteInv
  BY DEF RulesInv
<1>3. /\ Queued = {} /\ Duplicates(src) = {}
      /\ \A m \in DOMAIN src : src[m].fault = "none"
  BY <1>1, <1>2 DEF ErrorsInv
<1>4. DOMAIN g = DOMAIN src /\ Names(g) = Names(src)
  BY <1>1, <1>2, <1>3, CleanFacts DEF Clean
<1>5. \A m \in DOMAIN src : /\ Linked(g[m], m) /\ DOMAIN g[m].body = DOMAIN src[m].body
                            /\ CI_LITERAL \in opts.unsupported => CiDone(g[m], m)
  <2>1. \A m \in DOMAIN g : Linked(g[m], m) /\ DOMAIN g[m].body = DOMAIN src[m].body
    BY <1>1, <1>2, GrammarFacts DEF LinkInv
  <2>2. CI_LITERAL \in opts.unsupported => \A m \in DOMAIN g : CiDone(g[m], m)
    BY <1>1, <1>2 DEF RewriteInv
  <2> QED
    BY <1>4, <2>1, <2>2
<1>6. ~opts.allowUndefined => ReferredToOutsideGroups(src) \subseteq Names(src)
  <2> SUFFICES ASSUME ~opts.allowUndefined, NEW name \in ReferredToOutsideGroups(src)
               PROVE  name \in Names(src)
    OBVIOUS
  <2>1. PICK m \in DOMAIN src :
          name \in {src[m].body[i].name :
                      i \in {j \in DOMAIN src[m].body :
                               src[m].body[j].type = "RULE" /\ src[m].body[j].depth = 0}}
    BY DEF ReferredToOutsideGroups
  <2>2. PICK i \in DOMAIN src[m].body :
          src[m].body[i].type = "RULE" /\ src[m].body[i].depth = 0 /\ name = src[m].body[i].name
    BY <2>1
  <2> QED
    BY <1>3, <1>5, <2>2 DEF Linked
<1>7. CI_LITERAL \in opts.unsupported => ~LongOutsideGroups(src)
  <2> SUFFICES ASSUME CI_LITERAL \in opts.unsupported, NEW m \in DOMAIN src,
                      NEW i \in DOMAIN src[m].body, TooLong(src[m].body[i])
               PROVE  src[m].body[i].depth # 0
    BY DEF LongOutsideGroups
  <2>1. src[m].body[i].depth > 0
    BY <1>5 DEF CiDone
  <2> QED
    BY <2>1
<1>8. Names(Filtered(g)) = Converted!Whitelisted
  <2>1. Names(Filtered(g)) =
          IF opts.filter = NoFilter THEN Names(g)
          ELSE Names(g) \intersect {opts.filter[i] : i \in DOMAIN opts.filter}
    BY <1>2, FilteredFacts DEF TypeInv, PlacesInv
  <2> QED
    BY <1>4, <2>1, SameWords DEF Converted!Whitelisted
<1>9. Names(g)' = Names(Filtered(g))
  BY <1>1 DEF Names
<1> QED
  BY <1>3, <1>6, <1>7, <1>8, <1>9, SameWords DEF Converted!Faulty

\* The grammar that comes to the output stays what it was there.
SelectedInv ==
  ForOutput => ~Converted!Faulty /\ Names(g) = Converted!Whitelisted

LEMMA StepSelectedInv == RulesInv /\ SelectedInv /\ [Next]_vars => SelectedInv'
<1> SUFFICES ASSUME RulesInv, SelectedInv, [Next]_vars
             PROVE  SelectedInv'
  OBVIOUS
<1>1. ASSUME UNCHANGED <<src, opts>>
      PROVE  (Converted!Faulty' <=> Converted!Faulty) /\ Converted!Whitelisted' = Converted!Whitelisted
  BY <1>1 DEF Converted!Faulty, Converted!Whitelisted
<1>2. CASE Output \/ BreakOff \/ UNCHANGED vars
  <2>1. UNCHANGED <<src, opts, g>> /\ (ForOutput' => ForOutput)
    BY <1>2 DEF Output, BreakOff, vars, ForOutput
  <2> QED
    BY <1>1, <2>1 DEF SelectedInv, Names
<1>3. CASE Filter
  <2>1. UNCHANGED <<src, opts>>
    BY <1>3 DEF Filter
  <2> QED
    BY <1>1, <1>3, <2>1, FilterSelects DEF SelectedInv
<1>4. CASE pc' \notin {"output", "done", "brokenoff"}
  BY <1>4 DEF SelectedInv, ForOutput
<1>5. Next => Filter \/ Output \/ BreakOff \/ UNCHANGED vars
                \/ pc' \notin {"output", "done", "brokenoff"}
  BY DEF Next, ReadRule, SyntaxError, AddRule, BeginLinking, LinkRule, BeginReport, PopError,
         Exiting, BeginRewriting, RewriteCi, RewriteInvisible, NextFeature, Terminated,
         Begin, AtRule, End
<1> QED
  BY <1>2, <1>3, <1>4, <1>5

\* A term that comes to the output is of a type Conversion says it may have.
LEMMA TermsBecome ==
  ASSUME RulesInv, ForOutput, NEW k \in DOMAIN g
  PROVE  \E m \in DOMAIN src :
           /\ g[k].name = src[m].name /\ DOMAIN g[k].body = DOMAIN src[m].body
           /\ \A i \in DOMAIN g[k].body :
                LET t == g[k].body[i]
                    w == src[m].body[i]
                IN  /\ t.form = w.form /\ t.depth = w.depth
                    /\ t.type = "GONE" => HasPragma(src) /\ INVISIBLE \in opts.unsupported
                    /\ t.type # "GONE" => t.type \in Converted!Becomes(w)
<1>1. Queued = {} /\ Duplicates(src) = {}
  BY OutputFacts
<1>2. PICK m \in DOMAIN src :
        /\ MadeFrom(g[k], m) /\ Linked(g[k], m)
        /\ CI_LITERAL \in opts.unsupported => CiDone(g[k], m)
        /\ DOMAIN g[k].body = DOMAIN src[m].body
        /\ src[m].body \in WrittenBody
  BY OutputFacts
<1>3. ASSUME NEW i \in DOMAIN g[k].body, NEW t, t = g[k].body[i], NEW w, w = src[m].body[i]
      PROVE  /\ t.type = "GONE" => HasPragma(src) /\ INVISIBLE \in opts.unsupported
             /\ t.type # "GONE" => t.type \in Converted!Becomes(w)
  <2>1. w \in WrittenTerm /\ w.type \in WrittenTypes /\ w.depth \in Nat
    <3>1. w \in WrittenTerm
      BY <1>2, <1>3, WrittenBodyFacts
    <3> QED
      BY <3>1 DEF WrittenTerm
  <2>2. /\ t.type = "RULE" => w.depth > 0
        /\ t.type = "LINKED" => w.name \in Names(src)
        /\ t.type = "TOKEN" => w.name \notin Names(src)
        /\ CanBe(t.type, w)
    BY <1>1, <1>2, <1>3 DEF Linked
  <2>3. CI_LITERAL \in opts.unsupported =>
          /\ TooLong(w) => LongInGroup(src)
          /\ t.type = "CI" => LongInGroup(src)
    <3>1. CI_LITERAL \in opts.unsupported =>
            /\ TooLong(w) => w.depth > 0
            /\ LongInGroup(src) \/ t.type # "CI"
      BY <1>2, <1>3 DEF CiDone
    <3> QED
      BY <1>2, <1>3, <3>1 DEF LongInGroup
  <2>4. CASE w.type \in {"ON", "OFF"}
    <3>1. t.type \in {"EMPTY", "GONE"}
      BY <2>2, <2>4 DEF CanBe, AsRead
    <3>2. Converted!Becomes(w) = {"EMPTY"}
      BY <2>4 DEF Converted!Becomes
    <3> QED
      BY <2>2, <2>4, <3>1, <3>2 DEF CanBe, AsRead
  <2>5. CASE w.type = "RULE" /\ w.depth = 0
    <3>1. Converted!Becomes(w) = {IF w.name \in Names(src) THEN "LINKED" ELSE "TOKEN"}
      BY <2>5, SameWords DEF Converted!Becomes
    <3> QED
      BY <2>2, <2>5, <3>1 DEF CanBe, AsRead
  <2>6. CASE w.type = "CI" /\ CI_LITERAL \in opts.unsupported
    <3>1. Converted!Becomes(w) =
            IF LongInGroup(src) THEN {"CI", "CASES", "GROUP"} ELSE {"CASES"}
      BY <2>6, SameWords DEF Converted!Becomes
    <3> QED
      BY <2>2, <2>3, <2>6, <3>1 DEF CanBe, AsRead
  <2>7. CASE /\ w.type \notin {"ON", "OFF"} /\ ~(w.type = "RULE" /\ w.depth = 0)
             /\ ~(w.type = "CI" /\ CI_LITERAL \in opts.unsupported)
    <3>1. Converted!Becomes(w) = {w.type}
      BY <2>7, SameWords DEF Converted!Becomes
    <3> QED
      BY <2>1, <2>2, <2>7, <3>1 DEF CanBe, AsRead, WrittenTypes
  <2> QED
    BY <2>4, <2>5, <2>6, <2>7
<1>4. g[k].name = src[m].name
      /\ \A i \in DOMAIN g[k].body : /\ g[k].body[i].form = src[m].body[i].form
                                     /\ g[k].body[i].depth = src[m].body[i].depth
  BY <1>2 DEF MadeFrom
<1> QED
  BY <1>2, <1>3, <1>4

\* An output that fails was asked for something it may be unable to say.
LEMMA FailingMayBreakOff ==
  ASSUME RulesInv, SelectedInv, ForOutput, OutputFails
  PROVE  Converted!MayBreakOff
<1>1. CASE opts.diagrams
  BY <1>1 DEF Converted!MayBreakOff
<1>2. ASSUME NEW k \in DOMAIN g, NEW i \in DOMAIN g[k].body, CannotSay(g[k].body, i)
      PROVE  Converted!MayBreakOff
  <2>1. CASE <<g[k].body[i].type, g[k].body[i].form>> \in opts.cannot
    <3>1. PICK m \in DOMAIN src :
            /\ g[k].name = src[m].name /\ i \in DOMAIN src[m].body
            /\ g[k].body[i].form = src[m].body[i].form
            /\ g[k].body[i].type \in Converted!Becomes(src[m].body[i])
      BY <1>2, TermsBecome DEF CannotSay
    <3>2. m \in Converted!Asked
      BY <3>1 DEF SelectedInv, Names, Converted!Asked
    <3> QED
      BY <2>1, <3>1, <3>2 DEF Converted!MayBreakOff
  <2>2. CASE /\ g[k].body[i].type = "GROUP" /\ "group" \in opts.needsAlts
             /\ Lost(g[k].body, TermsOfGroup(g[k].body, i))
    <3>1. HasPragma(src) \/ LongInGroup(src) \/ EmptyGroup(src)
      BY <2>2, NoneIsLost DEF Lost
    <3> QED
      BY <2>2, <3>1, SameWords DEF Converted!MayBreakOff
  <2> QED
    BY <1>2, <2>1, <2>2 DEF CannotSay
<1>3. ASSUME NEW k \in DOMAIN g, RuleLost(g[k].body)
      PROVE  Converted!MayBreakOff
  <2>1. HasPragma(src) \/ LongInGroup(src) \/ EmptyGroup(src)
    BY <1>3, NoneIsLost DEF RuleLost, Lost
  <2> QED
    BY <1>3, <2>1, SameWords DEF Converted!MayBreakOff, RuleLost
<1> QED
  BY <1>1, <1>2, <1>3 DEF OutputFails

\* An output that succeeds was asked for nothing that it cannot say for sure.
LEMMA OutputNeedNotBreakOff ==
  ASSUME RulesInv, SelectedInv, Output
  PROVE  ~Converted!MustBreakOff
<1>1. pc = "output" /\ ForOutput
  BY DEF Output, ForOutput
<1> SUFFICES ASSUME NEW m \in Converted!Asked, NEW i \in TermsOfRule(src[m].body),
                    \A type \in Converted!Becomes(src[m].body[i]) :
                      <<type, src[m].body[i].form>> \in opts.cannot,
                    ~HasPragma(src) \/ INVISIBLE \notin opts.unsupported
             PROVE  FALSE
  BY SameWords DEF Converted!MustBreakOff
<1>2. m \in DOMAIN src /\ src[m].name \in Names(g)
  BY <1>1 DEF SelectedInv, Converted!Asked
<1>3. PICK k \in DOMAIN g : g[k].name = src[m].name
  BY <1>2 DEF Names
<1>4. Duplicates(src) = {}
  BY <1>1, <1>3, OutputFacts
<1>5. PICK l \in DOMAIN src :
        /\ g[k].name = src[l].name /\ DOMAIN g[k].body = DOMAIN src[l].body
        /\ \A j \in DOMAIN g[k].body :
             /\ g[k].body[j].form = src[l].body[j].form /\ g[k].body[j].depth = src[l].body[j].depth
             /\ g[k].body[j].type = "GONE" => HasPragma(src) /\ INVISIBLE \in opts.unsupported
             /\ g[k].body[j].type # "GONE" => g[k].body[j].type \in Converted!Becomes(src[l].body[j])
  BY <1>1, TermsBecome
<1>6. l = m
  BY <1>2, <1>3, <1>4, <1>5, NamesAreUnique DEF RulesInv
<1>7. i \in DOMAIN g[k].body /\ g[k].body[i].depth = 0
  BY <1>5, <1>6 DEF TermsOfRule
<1>8. CannotSay(g[k].body, i)
  BY <1>5, <1>6, <1>7 DEF CannotSay
<1>9. i \in TermsOfRule(g[k].body)
  BY <1>7 DEF TermsOfRule
<1> QED
  BY <1>8, <1>9 DEF Output

(***************************************************************************)
(* What a run does is what Conversion allows: it refuses only a faulty     *)
(* grammar, and that before anything is output; of one that is not faulty  *)
(* it outputs exactly the rules asked for, never when one of them holds    *)
(* what is sure to be beyond the output, and breaks off only when one      *)
(* holds what may be; and it does one of the three only once.  That it     *)
(* does one in the end is left to the run that checks                      *)
(* ImplementsConversion.                                                   *)
(***************************************************************************)
THEOREM StepsOfConversion == Spec => Converted!Init /\ [][Converted!Next]_(Converted!vars)
<1>1. Init => Converted!Init /\ SelectedInv
  BY DEF Init, Converted!Init, SelectedInv, ForOutput
<1>2. RulesInv /\ SelectedInv /\ [Next]_vars => [Converted!Next]_(Converted!vars)
  <2> SUFFICES ASSUME RulesInv, SelectedInv, [Next]_vars
               PROVE  [Converted!Next]_(Converted!vars)
    OBVIOUS
  <2> DEFINE final == {"done", "failed", "brokenoff"}
  <2>1. ASSUME UNCHANGED <<src, opts>>, pc \notin final, pc' \notin final
        PROVE  UNCHANGED Converted!vars
    BY <2>1 DEF Converted!vars
  <2>2. ASSUME UNCHANGED <<src, opts>>, pc \notin final, pc' = "failed", Converted!Faulty
        PROVE  Converted!Next
    BY <2>2 DEF Converted!Next, Converted!Refuse
  <2>3. CASE UNCHANGED vars
    BY <2>3 DEF vars, Converted!vars, Names
  <2>4. CASE ReadRule \/ AddRule \/ BeginLinking \/ BeginReport \/ PopError \/ BeginRewriting
             \/ RewriteInvisible \/ NextFeature \/ Filter
    BY <2>1, <2>4 DEF ReadRule, AddRule, BeginLinking, BeginReport, PopError, BeginRewriting,
                      RewriteInvisible, NextFeature, Filter, Begin, AtRule, End
  <2>5. CASE LinkRule
    BY <2>1, <2>5 DEF LinkRule, AtRule
  <2>6. CASE SyntaxError
    BY <2>2, <2>6, FailsIfFaulty DEF SyntaxError
  <2>7. CASE Exiting
    BY <2>2, <2>7, FailsIfFaulty DEF Exiting
  <2>8. CASE RewriteCi
    <3>1. pc = "rewrite" /\ pc' \in {"failed", "rewrite"} /\ UNCHANGED <<src, opts>>
      BY <2>8 DEF RewriteCi, AtRule
    <3> QED
      BY <2>1, <2>2, <2>8, <3>1, FailsIfFaulty
  <2>9. CASE Output
    <3>1. pc = "output" /\ pc' = "done" /\ UNCHANGED <<src, opts, g>>
      BY <2>9 DEF Output
    <3>2. ~Converted!Faulty /\ Names(g)' = Converted!Whitelisted
      BY <3>1 DEF SelectedInv, ForOutput, Names
    <3>3. ~Converted!MustBreakOff
      BY <2>9, OutputNeedNotBreakOff
    <3> QED
      BY <3>1, <3>2, <3>3 DEF Converted!Next, Converted!Convert
  <2>10. CASE BreakOff
    <3>1. pc = "output" /\ pc' = "brokenoff" /\ OutputFails /\ UNCHANGED <<src, opts>>
      BY <2>10 DEF BreakOff
    <3>2. ~Converted!Faulty /\ Converted!MayBreakOff
      BY <3>1, FailingMayBreakOff DEF SelectedInv, ForOutput
    <3> QED
      BY <3>1, <3>2 DEF Converted!Next, Converted!BreakOff
  <2> QED
    BY <2>3, <2>4, <2>5, <2>6, <2>7, <2>8, <2>9, <2>10 DEF Next, Terminated
<1>3. Spec => []SelectedInv
  BY <1>1, StepSelectedInv, RulesAlways, PTL DEF Spec
<1> QED
  BY <1>1, <1>2, <1>3, RulesAlways, PTL DEF Spec
=============================================================================
