-------------------------- MODULE AltRangesProofs ---------------------------
(***************************************************************************)
(* What is drawn of a choice, for every byte, every choice of classes and  *)
(* named characters, and lists of any length: the lines fit the array      *)
(* allocated for them, and show each character once, in ascending order,   *)
(* in ranges that a reader can complete.                                   *)
(***************************************************************************)
EXTENDS AltRanges, FiniteSetTheorems, SequenceTheorems, TLAPS

\* The characters are a finite set of natural numbers.
LEMMA CharIsFinite == IsFiniteSet(Char) /\ Char \subseteq Nat
BY FS_Interval, MaxCharAssumption DEF Char

\* A non-empty set of characters has a least element.
LEMMA MinimumExists ==
  ASSUME NEW T \in SUBSET Char, T # {}
  PROVE  \E c \in T : \A d \in T : c <= d
<1> DEFINE F == {T \intersect (0..k) : k \in T}
           R == StrictSubsetOrdering(T)
<1>1. IsFiniteSet(T) /\ T \subseteq Nat
  BY CharIsFinite, FS_Subset
<1>2. F \subseteq FiniteSubsetsOf(T) /\ F # {}
  <2>1. F \subseteq SUBSET T /\ F # {}
    OBVIOUS
  <2> QED
    BY <1>1, <2>1, FS_FiniteSubsetsOfFinite
<1>3. \E X \in F : \A Y \in F : <<Y, X>> \notin R
  <2>1. IsWellFoundedOn(R, FiniteSubsetsOf(T))
    BY FS_StrictSubsetOrderingWellFounded
  <2> HIDE DEF F, R
  <2> QED
    BY <1>2, <2>1, WFMin
<1>4. PICK c \in T : \A Y \in F : <<Y, T \intersect (0..c)>> \notin R
  BY <1>3
<1>5. ASSUME NEW d \in T, d < c
      PROVE  FALSE
  <2> DEFINE X == T \intersect (0..c)
             Y == T \intersect (0..d)
  <2>1. Y \subseteq X /\ c \in X /\ c \notin Y
    BY <1>1, <1>5
  <2>2. <<Y, X>> \in R
    BY <2>1 DEF StrictSubsetOrdering
  <2> QED
    BY <1>4, <2>2
<1> QED
  BY <1>1, <1>5

(***************************************************************************)
(* bm_next returns the least character after from whose bit is set, or one *)
(* past the last character if there is none.                               *)
(***************************************************************************)
LEMMA NextOfFacts ==
  ASSUME NEW S \in SUBSET Char, NEW from \in Int
  PROVE  /\ NextOf(S, from) \in 0..MaxChar + 1
         /\ NextOf(S, from) <= MaxChar =>
              /\ NextOf(S, from) \in S
              /\ NextOf(S, from) > from
         /\ \A d \in S : d > from => NextOf(S, from) <= d
<1> DEFINE after == {c \in S : c > from}
<1>1. CASE after = {}
  BY <1>1, MaxCharAssumption DEF NextOf, Char
<1>2. CASE after # {}
  <2>1. after \in SUBSET Char
    OBVIOUS
  <2>2. \E c \in after : \A d \in after : c <= d
    BY <1>2, <2>1, MinimumExists
  <2>3. /\ NextOf(S, from) \in after
        /\ \A d \in after : NextOf(S, from) <= d
    BY <1>2, <2>2 DEF NextOf
  <2> QED
    <3> DEFINE n == NextOf(S, from)
    <3>1. n \in S /\ n > from /\ n \in 0..MaxChar
      BY <2>3 DEF Char
    <3>2. \A d \in S : d > from => n <= d
      BY <2>3
    <3> HIDE DEF n
    <3>3. n \in 0..MaxChar + 1
      BY <3>1, MaxCharAssumption
    <3> QED
      BY <3>1, <3>2, <3>3 DEF n
<1> QED
  BY <1>1, <1>2

(***************************************************************************)
(* The run from RangeStart up to RangeStop is set in the bitmap, and the   *)
(* clipped end of the run is not before its start nor past its end.        *)
(***************************************************************************)
LEMMA RunFacts ==
  ASSUME bm \subseteq Char, hi \in Int, RangeStart <= MaxChar
  PROVE  /\ RangeStart \in bm
         /\ RangeStop \in RangeStart + 1 .. MaxChar + 1
         /\ RangeStart..RangeStop - 1 \subseteq bm
<1>1. RangeStart \in bm /\ RangeStart \in Char
  BY NextOfFacts DEF RangeStart
<1>2. Char \ bm \in SUBSET Char /\ RangeStart \in Int
  BY <1>1, MaxCharAssumption DEF Char
<1>3. /\ RangeStop \in 0..MaxChar + 1
      /\ RangeStop <= MaxChar => RangeStop > RangeStart
      /\ \A d \in Char \ bm : d > RangeStart => RangeStop <= d
  BY <1>2, NextOfFacts DEF RangeStop
<1>4. RangeStop \in RangeStart + 1 .. MaxChar + 1
  BY <1>1, <1>3, MaxCharAssumption DEF Char
<1>5. ASSUME NEW c \in RangeStart..RangeStop - 1
      PROVE  c \in bm
  <2>1. c \in Char
    BY <1>1, <1>4, MaxCharAssumption DEF Char
  <2>2. CASE c = RangeStart
    BY <1>1, <2>2
  <2>3. CASE c > RangeStart
    BY <1>3, <1>4, <1>1, <2>1, <2>3, MaxCharAssumption DEF Char
  <2> QED
    BY <2>2, <2>3, <1>4, <1>1, MaxCharAssumption DEF Char
<1> QED
  BY <1>1, <1>4, <1>5

\* The conversion to unsigned char leaves a character as it is.
LEMMA ByteOfChar ==
  ASSUME NEW c \in Char
  PROVE  Byte(c) = c
BY MaxCharAssumption DEF Char, Byte

\* The clipped end of a run lies after its start, and not after its end.
LEMMA ClippedStopFacts ==
  ASSUME bm \subseteq Char, hi \in Int, RangeStart <= MaxChar
  PROVE  ClippedStop \in RangeStart + 1 .. RangeStop
<1> DEFINE lo == RangeStart
           K == CHOOSE L \in Classes : lo \in L
<1>1. lo \in Char /\ RangeStop \in lo + 1 .. MaxChar + 1
  BY RunFacts
<1>2. CASE IsAlnum(lo) /\ Byte(RangeStop) \notin K
  <2>1. \E L \in Classes : lo \in L
    BY <1>1, <1>2, ByteOfChar DEF IsAlnum
  <2>2. K \in Classes /\ lo \in K
    BY <2>1
  <2>3. PICK a \in Char, b \in Char : a <= b /\ K = a..b
    BY <2>2, ClassesAssumption
  <2> HIDE DEF K
  <2>4. (CHOOSE c \in K : \A d \in K : d <= c) = b
    <3>1. b \in K /\ \A d \in K : d <= b
      BY <2>3, MaxCharAssumption DEF Char
    <3>2. \A c \in K : (\A d \in K : d <= c) => c = b
      BY <3>1, <2>3, MaxCharAssumption DEF Char
    <3> QED
      BY <3>1, <3>2
  <2>5. b < RangeStop
    <3>1. CASE RangeStop \in Char
      <4>1. RangeStop \notin a..b
        BY <1>2, <2>3, <3>1, ByteOfChar
      <4> QED
        BY <4>1, <1>1, <2>2, <2>3, MaxCharAssumption DEF Char
    <3>2. CASE RangeStop = MaxChar + 1
      BY <3>2, MaxCharAssumption DEF Char
    <3> QED
      BY <3>1, <3>2, <1>1, MaxCharAssumption DEF Char
  <2>6. ClippedStop = 1 + b
    BY <1>2, <2>4 DEF ClippedStop, K
  <2> QED
    BY <1>1, <2>2, <2>3, <2>5, <2>6, MaxCharAssumption DEF Char
<1>3. CASE ~(IsAlnum(lo) /\ Byte(RangeStop) \notin K)
  <2>1. ClippedStop = RangeStop
    BY <1>3 DEF ClippedStop
  <2> QED
    BY <1>1, <2>1, MaxCharAssumption DEF Char
<1> QED
  BY <1>2, <1>3

(***************************************************************************)
(* The characters of the list and the nodes that are none are together no  *)
(* more than its elements.                                                 *)
(***************************************************************************)
LEMMA FiniteSetsOfList ==
  ASSUME TypeOK
  PROVE  /\ CharsOf(list) \subseteq Char
         /\ IsFiniteSet(CharsOf(list))
         /\ IsFiniteSet(bm)
         /\ bm \subseteq Char
         /\ \A k \in Int : IsFiniteSet(NodesBefore(k))
<1>1. CharsOf(list) \subseteq Char
  BY DEF TypeOK, CharsOf
<1>2. IsFiniteSet(CharsOf(list)) /\ IsFiniteSet(bm)
  BY <1>1, CharIsFinite, FS_Subset DEF TypeOK
<1>3. ASSUME NEW k \in Int
      PROVE  IsFiniteSet(NodesBefore(k))
  <2>1. IsFiniteSet(1..k - 1)
    BY FS_Interval
  <2> QED
    BY <2>1, FS_Subset DEF NodesBefore
<1> QED
  BY <1>1, <1>2, <1>3 DEF TypeOK

\* Nodes passed and characters of the list together are no more than its
\* elements, so lines paid for by them fit the array.
LEMMA ListPays ==
  ASSUME TypeOK
  PROVE  Cardinality(NodesBefore(p)) + Cardinality(CharsOf(list)) <= Len(list)
<1> DEFINE n == Len(list)
           Nodes == NodesBefore(n + 1)
           CharIdx == {j \in DOMAIN list : list[j] # Other}
           f == [j \in CharIdx |-> list[j]]
<1>1. n \in Nat /\ DOMAIN list = 1..n /\ p \in 1..n + 1
  BY DEF TypeOK
<1>2. IsFiniteSet(1..n) /\ Cardinality(1..n) = n
  <2> HIDE DEF n
  <2>1. Cardinality(1..n) = IF 1 > n THEN 0 ELSE n - 1 + 1
    BY <1>1, FS_Interval
  <2> QED
    BY <1>1, <2>1, FS_Interval
<1>3. /\ CharIdx \subseteq 1..n
      /\ Nodes \subseteq 1..n
      /\ CharIdx \union Nodes = 1..n
      /\ CharIdx \intersect Nodes = {}
  BY <1>1 DEF NodesBefore, IsChar
<1>4. IsFiniteSet(CharIdx) /\ IsFiniteSet(Nodes)
  BY <1>2, <1>3, FS_Subset
<1>5. Cardinality(CharsOf(list)) <= Cardinality(CharIdx)
  <2>1. f \in Surjection(CharIdx, CharsOf(list))
    BY DEF Surjection, CharsOf
  <2> QED
    BY <1>4, <2>1, FS_Surjection
<1>6. Cardinality(NodesBefore(p)) <= Cardinality(Nodes)
  <2>1. NodesBefore(p) \subseteq Nodes
    BY <1>1 DEF NodesBefore
  <2> QED
    BY <1>4, <2>1, FS_Subset
<1>7. Cardinality(CharIdx) + Cardinality(Nodes) = n
  <2> HIDE DEF CharIdx, Nodes, n
  <2>1. Cardinality(CharIdx \union Nodes)
          = Cardinality(CharIdx) + Cardinality(Nodes) - Cardinality(CharIdx \intersect Nodes)
    BY <1>4, FS_Union
  <2>2. Cardinality(CharIdx \intersect Nodes) = 0
    BY <1>3, FS_EmptySet
  <2>3. Cardinality(CharIdx) \in Nat /\ Cardinality(Nodes) \in Nat
    BY <1>4, FS_CardinalityType
  <2>4. Cardinality(CharIdx \union Nodes) = n
    BY <1>2, <1>3, Zenon
  <2> QED
    BY <2>1, <2>2, <2>3, <2>4
<1>8. /\ Cardinality(CharIdx) \in Nat /\ Cardinality(Nodes) \in Nat
      /\ Cardinality(CharsOf(list)) \in Nat /\ Cardinality(NodesBefore(p)) \in Nat
  BY <1>1, <1>4, FiniteSetsOfList, FS_CardinalityType
<1> HIDE DEF CharIdx, Nodes
<1> QED
  BY <1>5, <1>6, <1>7, <1>8

(***************************************************************************)
(* IInv is inductive.                                                      *)
(***************************************************************************)
LEMMA InitIInv == Init => IInv
<1> SUFFICES ASSUME Init
             PROVE  IInv
  OBVIOUS
<1>1. TypeOK
  <2>1. list \in Seq(Char \union {Other})
    BY ListsAssumption DEF Init
  <2>2. out \in Seq(Lines)
    BY DEF Init
  <2>3. p \in 1..Len(list) + 1 /\ hi \in -1..MaxChar + 1
    BY <2>1, MaxCharAssumption DEF Init
  <2> QED
    BY <2>1, <2>2, <2>3 DEF Init, TypeOK
<1>2. RoomLeft
  <2>1. bm = CharsOf(list) /\ Len(out) = 0 /\ p = 1
    BY DEF Init
  <2>2. /\ Cardinality(NodesBefore(p)) \in Nat
        /\ Cardinality(CharsOf(list)) \in Nat
    BY <1>1, <2>1, FiniteSetsOfList, FS_CardinalityType
  <2> QED
    BY <2>1, <2>2 DEF RoomLeft
<1> QED
  BY <1>1, <1>2 DEF IInv

\* A step that passes a node adds one line, a step that passes nothing may
\* take characters from the bitmap and adds no more lines than it takes.
LEMMA NodesBeforeNext ==
  ASSUME TypeOK, p <= Len(list)
  PROVE  /\ ~IsChar(p) => Cardinality(NodesBefore(p + 1)) = Cardinality(NodesBefore(p)) + 1
         /\ IsChar(p) => NodesBefore(p + 1) = NodesBefore(p)
<1>1. p \in Nat \ {0}
  BY DEF TypeOK
<1>2. ASSUME ~IsChar(p)
      PROVE  Cardinality(NodesBefore(p + 1)) = Cardinality(NodesBefore(p)) + 1
  <2>1. NodesBefore(p + 1) = NodesBefore(p) \union {p} /\ p \notin NodesBefore(p)
    BY <1>1, <1>2 DEF NodesBefore
  <2>2. IsFiniteSet(NodesBefore(p))
    BY <1>1, FiniteSetsOfList
  <2> QED
    BY <2>1, <2>2, FS_AddElement
<1>3. ASSUME IsChar(p)
      PROVE  NodesBefore(p + 1) = NodesBefore(p)
  BY <1>1, <1>3 DEF NodesBefore
<1> QED
  BY <1>2, <1>3

\* The room a line takes is paid for by the character that leaves the bitmap.
LEMMA AloneKeepsRoom ==
  ASSUME IInv, Pending, RangeStart <= MaxChar
  PROVE  /\ RangeStart \in bm
         /\ Cardinality(bm \ {RangeStart}) = Cardinality(bm) - 1
         /\ Cardinality(bm) \in Nat
<1>1. bm \subseteq Char /\ hi \in Int /\ IsFiniteSet(bm)
  BY FiniteSetsOfList, MaxCharAssumption DEF IInv, TypeOK
<1>2. RangeStart \in bm
  BY <1>1, RunFacts
<1> QED
  BY <1>1, <1>2, FS_RemoveElement, FS_CardinalityType

\* The three lines of a range are paid for by the four or more characters
\* that leave the bitmap.
LEMMA RangeKeepsRoom ==
  ASSUME IInv, Pending, RangeStart <= MaxChar, ClippedStop - RangeStart > 3
  PROVE  /\ RangeStart \in Nat
         /\ ClippedStop \in 1..MaxChar + 1
         /\ Cardinality(bm) \in Nat
         /\ Cardinality(bm \ (RangeStart..ClippedStop - 1)) \in Nat
         /\ Cardinality(bm \ (RangeStart..ClippedStop - 1)) + 4 <= Cardinality(bm)
<1> DEFINE lo == RangeStart
           stop == ClippedStop
           run == lo..stop - 1
<1>1. bm \subseteq Char /\ hi \in Int /\ IsFiniteSet(bm)
  BY FiniteSetsOfList, MaxCharAssumption DEF IInv, TypeOK
<1>2. /\ lo \in Nat
      /\ RangeStop \in lo + 1 .. MaxChar + 1
      /\ stop \in lo + 1 .. RangeStop
  <2>1. lo \in bm /\ RangeStop \in lo + 1 .. MaxChar + 1 /\ stop \in lo + 1 .. RangeStop
    BY <1>1, RunFacts, ClippedStopFacts
  <2> QED
    BY <1>1, <2>1 DEF Char
<1>3. lo..RangeStop - 1 \subseteq bm
  BY <1>1, RunFacts
<1> HIDE DEF lo, stop
<1>4. run \subseteq bm /\ lo \in Int /\ stop - 1 \in Int /\ lo <= stop - 1
  BY <1>2, <1>3, MaxCharAssumption
<1>5. Cardinality(run) = stop - lo
  <2>1. Cardinality(run) = IF lo > stop - 1 THEN 0 ELSE (stop - 1) - lo + 1
    BY <1>4, FS_Interval
  <2> QED
    BY <1>2, <1>4, <2>1, MaxCharAssumption
<1>6. /\ IsFiniteSet(bm \ run)
      /\ Cardinality(bm \ run) = Cardinality(bm) - Cardinality(run)
  <2>1. bm \intersect run = run
    BY <1>4
  <2> QED
    BY ZenonT(60), <1>1, <2>1, FS_Difference
<1>7. Cardinality(bm) \in Nat /\ Cardinality(bm \ run) \in Nat
  BY <1>1, <1>6, FS_CardinalityType
<1>8. stop - lo > 3
  BY DEF stop, lo
<1>9. Cardinality(bm \ run) + 4 <= Cardinality(bm)
  <2> HIDE DEF run
  <2> QED
    BY <1>2, <1>5, <1>6, <1>7, <1>8, MaxCharAssumption
<1>10. lo \in Nat /\ stop \in 1..MaxChar + 1
  BY <1>2, MaxCharAssumption
<1> QED
  BY <1>7, <1>9, <1>10 DEF lo, stop

\* What the actions append to out are lines.
LEMMA LinesAreLines ==
  ASSUME NEW n \in Nat
  PROVE  NodeLine(n) \in Lines /\ CharLine(n) \in Lines /\ Ellipsis \in Lines
BY DEF NodeLine, CharLine, Ellipsis, Lines

\* What the type invariant says of the run at hi.
LEMMA TypeFacts ==
  ASSUME TypeOK
  PROVE  /\ list \in Seq(Char \union {Other}) /\ Len(list) \in Nat
         /\ p \in 1..Len(list) + 1
         /\ hi \in -1..MaxChar + 1
         /\ out \in Seq(Lines) /\ Len(out) \in Nat
         /\ bm \subseteq CharsOf(list)
         /\ Cardinality(NodesBefore(p)) \in Nat
         /\ Cardinality(CharsOf(list)) \in Nat
         /\ Cardinality(bm) \in Nat
<1>1. /\ list \in Seq(Char \union {Other}) /\ Len(list) \in Nat
      /\ p \in 1..Len(list) + 1
      /\ hi \in -1..MaxChar + 1
      /\ out \in Seq(Lines) /\ Len(out) \in Nat
      /\ bm \subseteq CharsOf(list)
  BY DEF TypeOK
<1>2. IsFiniteSet(NodesBefore(p)) /\ IsFiniteSet(CharsOf(list)) /\ IsFiniteSet(bm)
  <2>1. p \in Int
    BY <1>1
  <2> QED
    BY <2>1, FiniteSetsOfList
<1>3. Cardinality(NodesBefore(p)) \in Nat
  BY <1>2, FS_CardinalityType
<1>4. Cardinality(CharsOf(list)) \in Nat
  BY <1>2, FS_CardinalityType
<1>5. Cardinality(bm) \in Nat
  BY <1>2, FS_CardinalityType
<1> QED
  BY <1>1, <1>3, <1>4, <1>5

LEMMA NextIInv == IInv /\ [Next]_vars => IInv'
<1> SUFFICES ASSUME IInv, [Next]_vars
             PROVE  IInv'
  OBVIOUS
<1> USE DEF IInv
<1>0. /\ list \in Seq(Char \union {Other}) /\ Len(list) \in Nat
      /\ p \in 1..Len(list) + 1
      /\ hi \in -1..MaxChar + 1
      /\ out \in Seq(Lines) /\ Len(out) \in Nat
      /\ bm \subseteq CharsOf(list)
      /\ Cardinality(NodesBefore(p)) \in Nat
      /\ Cardinality(CharsOf(list)) \in Nat
      /\ Cardinality(bm) \in Nat
  BY TypeFacts
<1>1. ASSUME OutputNode
      PROVE  IInv'
  <2>1. p \in Nat /\ p <= Len(list)
    BY <1>0, <1>1 DEF OutputNode, InLoop
  <2>2. TypeOK'
    BY <1>0, <1>1, <2>1, LinesAreLines DEF OutputNode, InLoop, TypeOK
  <2>3. /\ Len(out') = Len(out) + 1
        /\ bm' = bm /\ list' = list /\ p' = p + 1
    BY <1>0, <1>1 DEF OutputNode
  <2>4. NodesBefore(p)' = NodesBefore(p + 1)
    BY <2>3 DEF NodesBefore, IsChar
  <2>5. Cardinality(NodesBefore(p + 1)) = Cardinality(NodesBefore(p)) + 1
    BY <1>1, <2>1, NodesBeforeNext DEF OutputNode
  <2>6. RoomLeft'
    BY <1>0, <2>3, <2>4, <2>5 DEF RoomLeft, CharsOf
  <2> QED
    BY <2>2, <2>6
<1>2. ASSUME SkipOutput
      PROVE  IInv'
  <2>1. p <= Len(list) /\ IsChar(p)
    BY <1>2 DEF SkipOutput, InLoop
  <2>2. TypeOK'
    BY <1>0, <1>2, <2>1 DEF SkipOutput, InLoop, TypeOK
  <2>3. out' = out /\ bm' = bm /\ list' = list /\ p' = p + 1
    BY <1>2 DEF SkipOutput
  <2>4. NodesBefore(p)' = NodesBefore(p)
    BY <2>1, <2>3, NodesBeforeNext DEF NodesBefore, IsChar
  <2> QED
    BY <2>2, <2>3, <2>4 DEF RoomLeft, CharsOf
<1>3. ASSUME Break
      PROVE  IInv'
  BY <1>3 DEF Break, TypeOK, RoomLeft, NodesBefore, IsChar, CharsOf
<1>4. ASSUME OutputAlone
      PROVE  IInv'
  <2>1. /\ Pending /\ RangeStart <= MaxChar
        /\ p <= Len(list) /\ IsChar(p)
    BY <1>4 DEF OutputAlone, Pending, InLoop
  <2>2. RangeStart \in bm /\ Cardinality(bm \ {RangeStart}) = Cardinality(bm) - 1
    BY <2>1, AloneKeepsRoom
  <2>3. RangeStart \in 0..MaxChar
    BY <2>2, FiniteSetsOfList DEF Char
  <2>4. /\ out' = Append(out, CharLine(RangeStart))
        /\ bm' = bm \ {RangeStart} /\ hi' = RangeStart
        /\ list' = list /\ p' = p + 1 /\ pc' = pc
    BY <1>4 DEF OutputAlone
  <2>5. TypeOK'
    <3>1. out' \in Seq(Lines)
      BY SMTT(60), <1>0, <2>3, <2>4, LinesAreLines
    <3>2. bm' \subseteq CharsOf(list')
      BY <1>0, <2>4
    <3>3. hi' \in -1..MaxChar + 1
      BY <2>3, <2>4, MaxCharAssumption
    <3> QED
      BY <1>0, <2>1, <2>4, <3>1, <3>2, <3>3 DEF TypeOK
  <2>6. NodesBefore(p)' = NodesBefore(p)
    BY <2>1, <2>4, NodesBeforeNext DEF NodesBefore, IsChar
  <2>7. Len(out') = Len(out) + 1
    BY <1>0, <2>4
  <2>8. RoomLeft'
    BY <1>0, <2>2, <2>4, <2>6, <2>7 DEF RoomLeft
  <2> QED
    BY <2>5, <2>8
<1>5. ASSUME OutputFirst
      PROVE  IInv'
  <2>1. Pending /\ RangeStart <= MaxChar
    BY <1>5 DEF OutputFirst
  <2>2. RangeStart \in bm /\ Cardinality(bm \ {RangeStart}) = Cardinality(bm) - 1
    BY <2>1, AloneKeepsRoom
  <2>3. RangeStart \in 0..MaxChar
    BY <2>2, FiniteSetsOfList DEF Char
  <2>4. /\ out' = Append(out, CharLine(RangeStart))
        /\ bm' = bm \ {RangeStart} /\ hi' = RangeStart
        /\ list' = list /\ p' = p /\ pc' = pc
    BY <1>5 DEF OutputFirst
  <2>5. TypeOK'
    <3>1. out' \in Seq(Lines)
      BY <1>0, <2>3, <2>4, LinesAreLines
    <3>2. bm' \subseteq CharsOf(list')
      BY <1>0, <2>4
    <3>3. hi' \in -1..MaxChar + 1
      BY <2>3, <2>4, MaxCharAssumption
    <3> QED
      BY <1>0, <2>4, <3>1, <3>2, <3>3 DEF TypeOK
  <2>6. NodesBefore(p)' = NodesBefore(p)
    BY <2>4 DEF NodesBefore, IsChar
  <2>7. Len(out') = Len(out) + 1
    BY <1>0, <2>4
  <2>8. RoomLeft'
    BY <1>0, <2>2, <2>4, <2>6, <2>7 DEF RoomLeft
  <2> QED
    BY <2>5, <2>8
<1>6. ASSUME OutputRange
      PROVE  IInv'
  <2> DEFINE run == RangeStart..ClippedStop - 1
             three == <<CharLine(RangeStart), Ellipsis, CharLine(ClippedStop - 1)>>
  <2>1. Pending /\ RangeStart <= MaxChar /\ ClippedStop - RangeStart > 3
    BY <1>6 DEF OutputRange
  <2>2. /\ RangeStart \in Nat /\ ClippedStop \in 1..MaxChar + 1
        /\ Cardinality(bm \ run) \in Nat
        /\ Cardinality(bm \ run) + 4 <= Cardinality(bm)
    BY <2>1, RangeKeepsRoom
  <2>3. /\ out' = out \o three
        /\ bm' = bm \ run /\ hi' = ClippedStop
        /\ list' = list /\ p' = p /\ pc' = pc
    BY <1>6 DEF OutputRange
  <2>4. three \in Seq(Lines) /\ Len(three) = 3
    <3>1. ClippedStop - 1 \in Nat
      BY <2>2, MaxCharAssumption
    <3>2. CharLine(RangeStart) \in Lines /\ Ellipsis \in Lines /\ CharLine(ClippedStop - 1) \in Lines
      BY <2>2, <3>1, LinesAreLines
    <3> QED
      BY <3>2
  <2> HIDE DEF three, run
  <2>5. out' \in Seq(Lines) /\ Len(out') = Len(out) + 3
    <3>1. out \o three \in Seq(Lines) /\ Len(out \o three) = Len(out) + Len(three)
      BY <1>0, <2>4, ConcatProperties, Zenon
    <3> QED
      BY <2>3, <2>4, <3>1
  <2>6. TypeOK'
    <3>1. bm' \subseteq CharsOf(list')
      BY <1>0, <2>3
    <3>2. hi' \in -1..MaxChar + 1
      BY <2>2, <2>3, MaxCharAssumption
    <3> QED
      BY <1>0, <2>3, <2>5, <3>1, <3>2 DEF TypeOK
  <2>7. NodesBefore(p)' = NodesBefore(p)
    BY <2>3 DEF NodesBefore, IsChar
  <2>8. RoomLeft'
    BY SMTT(60), <1>0, <2>2, <2>3, <2>5, <2>7 DEF RoomLeft
  <2> QED
    BY <2>6, <2>8
<1>7. ASSUME Return
      PROVE  IInv'
  BY <1>7 DEF Return, TypeOK, RoomLeft, NodesBefore, IsChar, CharsOf
<1>8. ASSUME UNCHANGED vars
      PROVE  IInv'
  BY <1>8 DEF vars, TypeOK, RoomLeft, NodesBefore, IsChar, CharsOf
<1> QED
  BY <1>1, <1>2, <1>3, <1>4, <1>5, <1>6, <1>7, <1>8 DEF Next, Terminated

(***************************************************************************)
(* The variables keep their types.                                         *)
(***************************************************************************)
THEOREM TypeCorrect == Spec => []TypeOK
<1>1. IInv => TypeOK
  BY DEF IInv
<1> QED
  BY InitIInv, NextIInv, <1>1, PTL DEF Spec

(***************************************************************************)
(* assert(i <= new.n): tnode_create_alt_list never writes past the array   *)
(* it allocated, however long the list and whatever the characters.        *)
(***************************************************************************)
THEOREM LinesFit == Spec => []Fits
<1>1. IInv => Fits
  <2> SUFFICES ASSUME IInv
               PROVE  Fits
    OBVIOUS
  <2>1. /\ Len(list) \in Nat /\ Len(out) \in Nat
        /\ Cardinality(NodesBefore(p)) \in Nat
        /\ Cardinality(CharsOf(list)) \in Nat
        /\ Cardinality(bm) \in Nat
    BY TypeFacts DEF IInv
  <2> QED
    BY <2>1, ListPays DEF IInv, RoomLeft, Fits
<1> QED
  BY InitIInv, NextIInv, <1>1, PTL DEF Spec

-----------------------------------------------------------------------------
(***************************************************************************)
(* What is drawn of a choice: each character once, in ascending order, in  *)
(* ranges that a reader can complete.                                      *)
(***************************************************************************)
\* An ellipsis stands between the ends of its range, and no character drawn
\* is past the end of the last run.
LinesInv ==
  /\ \A i \in DOMAIN out :
       out[i].kind = "ellipsis" =>
         /\ i - 1 \in DOMAIN out /\ out[i - 1].kind = "char"
         /\ i + 1 \in DOMAIN out /\ out[i + 1].kind = "char"
  /\ \A i \in DOMAIN out : out[i].kind = "char" => out[i].arg <= hi
  /\ LinesRight

(***************************************************************************)
(* The variables of the loop while p and hi agree: nothing left is before  *)
(* hi, and nothing that p has passed is left.                              *)
(***************************************************************************)
CursorsAgree ==
  /\ \A c \in bm : c > hi
  /\ \A c \in CharsOf(list) \ bm : c <= hi
  /\ \A j \in 1..p - 1 : IF IsChar(j) THEN list[j] \notin bm
                         ELSE \E i \in DOMAIN out : out[i] = NodeLine(j)
  /\ pc = "done" => p = Len(list) + 1

\* They do but for the exceptions of EverythingShownOtherwise.
Regular(l) == ~CutAtClassEnd(l) /\ (SomeAlone(l) => InAscendingOrder(l))

CursorInv == Regular(list) => CursorsAgree

-----------------------------------------------------------------------------
\* The run that begins at RangeStart: all of it is left, nothing that is left
\* comes before it, and it stays within the class it begins in.
LEMMA StartFacts ==
  ASSUME TypeOK, RangeStart <= MaxChar
  PROVE  /\ RangeStart \in bm /\ RangeStart \in Char /\ RangeStart > hi
         /\ \A c \in bm : c > hi => RangeStart <= c
         /\ ClippedStop \in RangeStart + 1 .. MaxChar + 1
         /\ RangeStart..ClippedStop - 1 \subseteq bm
<1>1. bm \subseteq Char /\ hi \in Int
  BY FiniteSetsOfList, MaxCharAssumption DEF TypeOK
<1>2. /\ RangeStart \in bm /\ RangeStart > hi
      /\ \A c \in bm : c > hi => RangeStart <= c
  BY <1>1, NextOfFacts DEF RangeStart
<1>3. /\ RangeStop \in RangeStart + 1 .. MaxChar + 1
      /\ RangeStart..RangeStop - 1 \subseteq bm
      /\ ClippedStop \in RangeStart + 1 .. RangeStop
  BY <1>1, RunFacts, ClippedStopFacts
<1>4. RangeStart \in Char
  BY <1>1, <1>2
<1> QED
  BY <1>2, <1>3, <1>4, MaxCharAssumption DEF Char

LEMMA RangeInClass ==
  ASSUME TypeOK, RangeStart <= MaxChar, NEW K \in Classes, RangeStart \in K
  PROVE  RangeStart..ClippedStop - 1 \subseteq K
<1> DEFINE lo == RangeStart
           k == CHOOSE L \in Classes : lo \in L
<1>1. /\ lo \in Char /\ ClippedStop \in lo + 1 .. MaxChar + 1
      /\ RangeStop \in lo + 1 .. MaxChar + 1
  <2>1. bm \subseteq Char /\ hi \in Int
    BY FiniteSetsOfList, MaxCharAssumption DEF TypeOK
  <2> QED
    BY <2>1, StartFacts, RunFacts
<1>2. k = K
  <2>1. k \in Classes /\ lo \in k
    OBVIOUS
  <2> HIDE DEF k
  <2> QED
    BY <2>1, ClassesAssumption
<1>3. PICK a \in Char, b \in Char : 0 < a /\ a <= b /\ K = a..b
  BY ClassesAssumption
<1>4. a <= lo /\ lo <= b
  BY <1>1, <1>3, MaxCharAssumption DEF Char
<1>5. IsAlnum(lo)
  BY <1>1, ByteOfChar DEF IsAlnum
<1>6. CASE Byte(RangeStop) \notin K
  <2>1. ClippedStop = 1 + CHOOSE c \in K : \A d \in K : d <= c
    BY <1>2, <1>5, <1>6 DEF ClippedStop
  <2>2. (CHOOSE c \in K : \A d \in K : d <= c) = b
    <3>1. b \in K /\ \A d \in K : d <= b
      BY <1>3, MaxCharAssumption DEF Char
    <3>2. \A c \in K : (\A d \in K : d <= c) => c = b
      BY <3>1, <1>3, MaxCharAssumption DEF Char
    <3> QED
      BY <3>1, <3>2
  <2>3. ClippedStop = 1 + b
    BY <2>1, <2>2
  <2> QED
    BY <1>3, <1>4, <2>3, MaxCharAssumption DEF Char
<1>7. CASE Byte(RangeStop) \in K
  <2>1. ClippedStop = RangeStop
    BY <1>2, <1>7 DEF ClippedStop
  <2>2. RangeStop \in Char
    <3>1. RangeStop = MaxChar + 1 => Byte(RangeStop) = 0
      BY MaxCharAssumption DEF Byte
    <3> QED
      BY <1>1, <1>3, <1>7, <3>1, MaxCharAssumption DEF Char
  <2>3. RangeStop \in a..b
    BY <1>3, <1>7, <2>2, ByteOfChar
  <2> QED
    BY <1>1, <1>3, <1>4, <2>1, <2>3, MaxCharAssumption DEF Char
<1> QED
  BY <1>6, <1>7

LEMMA RangeCutsNoClass ==
  ASSUME TypeOK, RangeStart <= MaxChar, ~AloneByName(RangeStart, RangeStop), NEW K \in Classes
  PROVE  NeverCuts(K, RangeStart, RangeStart + 1 .. ClippedStop - 1)
<1> DEFINE lo == RangeStart
           stop == ClippedStop
<1>1. /\ lo \in Char /\ stop \in lo + 1 .. MaxChar + 1
      /\ RangeStop \in lo + 1 .. MaxChar + 1
  <2>1. bm \subseteq Char /\ hi \in Int
    BY FiniteSetsOfList, MaxCharAssumption DEF TypeOK
  <2> QED
    BY <2>1, StartFacts, RunFacts
<1>2. PICK a \in Char, b \in Char : 0 < a /\ a <= b /\ K = a..b
  BY ClassesAssumption
<1>3. lo \in Nat /\ stop \in Nat /\ a \in Nat /\ b \in Nat /\ b <= MaxChar /\ RangeStop \in Nat
  BY <1>1, <1>2, MaxCharAssumption DEF Char
<1>4. CASE lo \in K
  <2>1. lo..stop - 1 \subseteq K
    BY <1>1, <1>4, RangeInClass, MaxCharAssumption DEF Char
  <2>2. lo + 1 .. stop - 1 \subseteq lo..stop - 1
    BY <1>3
  <2> QED
    BY <1>4, <2>1, <2>2 DEF NeverCuts
<1>5. ASSUME lo \notin K, NEW L \in Classes, lo \in L
      PROVE  (lo + 1 .. stop - 1) \intersect K = {}
  <2>1. lo..stop - 1 \subseteq L
    BY <1>1, <1>5, RangeInClass, MaxCharAssumption DEF Char
  <2>2. lo + 1 .. stop - 1 \subseteq lo..stop - 1
    BY <1>3
  <2>3. K \intersect L = {}
    BY <1>5, ClassesAssumption
  <2> QED
    BY <2>1, <2>2, <2>3
<1>6. ASSUME lo \notin K, \A L \in Classes : lo \notin L, NEW c \in (lo + 1 .. stop - 1) \intersect K
      PROVE  K \subseteq lo + 1 .. stop - 1
  <2>1. ~IsAlnum(lo) /\ ~IsAlnum(RangeStop)
    <3>1. ~IsAlnum(lo)
      BY <1>1, <1>6, ByteOfChar DEF IsAlnum
    <3> QED
      BY <3>1 DEF AloneByName
  <2>2. stop = RangeStop
    BY <2>1 DEF ClippedStop
  <2>3. RangeStop \notin K
    <3>1. CASE RangeStop \in Char
      BY <2>1, <3>1, ByteOfChar DEF IsAlnum
    <3>2. CASE RangeStop \notin Char
      BY <1>2, <1>3, <3>2, MaxCharAssumption DEF Char
    <3> QED
      BY <3>1, <3>2
  <2>4. a <= c /\ c <= b /\ lo < c /\ c < stop /\ c \in Nat
    BY <1>2, <1>3, <1>6
  <2>5. ~(a <= lo /\ lo <= b) /\ ~(a <= stop /\ stop <= b)
    BY <1>2, <1>3, <1>6, <2>2, <2>3
  <2>6. lo < a /\ b < stop
    BY <1>3, <2>4, <2>5
  <2> QED
    BY <1>2, <1>3, <2>6
<1>7. CASE lo \notin K
  <2>1. (lo + 1 .. stop - 1) \intersect K = {} \/ K \subseteq lo + 1 .. stop - 1
    <3>1. CASE \E L \in Classes : lo \in L
      BY <1>5, <1>7, <3>1
    <3>2. CASE \A L \in Classes : lo \notin L
      BY <1>6, <1>7, <3>2
    <3> QED
      BY <3>1, <3>2
  <2> QED
    BY <1>7, <2>1 DEF NeverCuts
<1> QED
  BY <1>4, <1>7

\* The lines that a step adds.
New == DOMAIN out' \ DOMAIN out

(***************************************************************************)
(* A step keeps LinesInv if it leaves the lines there are, and draws what  *)
(* it takes from the bitmap, past all that has been drawn.                 *)
(***************************************************************************)
LEMMA MoreLines ==
  ASSUME LinesInv, TypeOK, TypeOK', list' = list,
         bm' \subseteq bm, hi <= hi', Len(out) <= Len(out'),
         \A i \in DOMAIN out : out'[i] = out[i],
         bm \ bm' = UNION {Shown(i)' : i \in New},
         \A i, j \in New : i # j => Shown(i)' \intersect Shown(j)' = {},
         \A i \in New : out'[i].kind = "char" => out'[i].arg > hi /\ out'[i].arg <= hi',
         \A i, j \in New : i < j /\ out'[i].kind = "char" /\ out'[j].kind = "char"
                             => out'[i].arg < out'[j].arg,
         \A i \in New :
           out'[i].kind = "ellipsis" =>
             /\ i - 1 \in New /\ out'[i - 1].kind = "char"
             /\ i + 1 \in New /\ out'[i + 1].kind = "char"
             /\ \A K \in Classes : NeverCuts(K, out'[i - 1].arg, Shown(i)' \union Shown(i + 1)')
             /\ out'[i - 1].arg \notin Named
  PROVE  LinesInv'
<1>1. /\ DOMAIN out = 1..Len(out) /\ Len(out) \in Nat
      /\ DOMAIN out' = 1..Len(out') /\ Len(out') \in Nat
      /\ \A i \in DOMAIN out : out[i].arg \in Nat
      /\ \A i \in DOMAIN out' : out'[i].arg \in Nat
      /\ hi \in Int /\ hi' \in Int
  <2>1. out \in Seq(Lines) /\ out' \in Seq(Lines) /\ \A l \in Lines : l.arg \in Nat
    BY DEF TypeOK, Lines
  <2> QED
    BY <2>1, MaxCharAssumption, ElementOfSeq, LenProperties DEF TypeOK
<1>2. DOMAIN out \subseteq DOMAIN out' /\ DOMAIN out' = DOMAIN out \union New
  BY <1>1 DEF New
<1> DEFINE D == bm \ bm'
<1>3. ASSUME NEW i \in DOMAIN out
      PROVE  Shown(i)' = Shown(i)
  <2>1. CASE out[i].kind = "ellipsis"
    BY <1>3, <2>1 DEF LinesInv, Shown
  <2>2. CASE out[i].kind # "ellipsis"
    BY <1>3, <2>2 DEF Shown
  <2> QED
    BY <2>1, <2>2
<1>4. AllShown' = AllShown \union D
  <2>1. AllShown' = UNION {Shown(i)' : i \in DOMAIN out'}
    BY DEF AllShown
  <2> QED
    BY <1>2, <1>3, <2>1 DEF AllShown
<1>5. ShownOnce'
  <2>1. AllShown = CharsOf(list) \ bm /\ bm \subseteq CharsOf(list)
    BY DEF LinesInv, LinesRight, ShownOnce, TypeOK
  <2>2. AllShown' = CharsOf(list') \ bm'
    BY <1>4, <2>1
  <2>3. ASSUME NEW i \in DOMAIN out', NEW j \in DOMAIN out', i # j
        PROVE  Shown(i)' \intersect Shown(j)' = {}
    <3>1. \A k \in DOMAIN out : Shown(k)' \subseteq AllShown
      BY <1>3 DEF AllShown
    <3>2. \A k \in New : Shown(k)' \subseteq D
      OBVIOUS
    <3>3. AllShown \intersect D = {}
      BY <2>1
    <3>4. CASE i \in DOMAIN out /\ j \in DOMAIN out
      BY <1>3, <2>3, <3>4 DEF LinesInv, LinesRight, ShownOnce
    <3> QED
      BY <1>2, <2>3, <3>1, <3>2, <3>3, <3>4
  <2> QED
    BY <2>2, <2>3 DEF ShownOnce
<1>6. Ascending'
  <2> SUFFICES ASSUME NEW i \in DOMAIN out', NEW j \in DOMAIN out',
                      i < j, out'[i].kind = "char", out'[j].kind = "char"
               PROVE  out'[i].arg < out'[j].arg
    BY DEF Ascending
  <2>1. CASE i \in DOMAIN out /\ j \in DOMAIN out
    BY <2>1 DEF LinesInv, LinesRight, Ascending
  <2>2. CASE i \in DOMAIN out /\ j \in New
    <3>1. out[i].arg <= hi /\ out'[j].arg > hi
      BY <2>2 DEF LinesInv
    <3> QED
      BY <1>1, <2>2, <3>1
  <2>3. CASE i \in New
    <3>1. j \in New
      BY <1>1, <2>3 DEF New
    <3> QED
      BY <2>3, <3>1
  <2> QED
    BY <1>2, <2>1, <2>2, <2>3
<1>7. /\ RangesReadable'
      /\ \A i \in DOMAIN out' :
           out'[i].kind = "ellipsis" =>
             /\ i - 1 \in DOMAIN out' /\ out'[i - 1].kind = "char"
             /\ i + 1 \in DOMAIN out' /\ out'[i + 1].kind = "char"
  <2>1. ASSUME NEW i \in DOMAIN out', out'[i].kind = "ellipsis"
        PROVE  /\ \A K \in Classes : NeverCuts(K, out'[i - 1].arg, Shown(i)' \union Shown(i + 1)')
               /\ out'[i - 1].arg \notin Named
               /\ i - 1 \in DOMAIN out' /\ out'[i - 1].kind = "char"
               /\ i + 1 \in DOMAIN out' /\ out'[i + 1].kind = "char"
    <3>1. CASE i \in New
      BY <1>2, <2>1, <3>1
    <3>2. CASE i \in DOMAIN out
      <4>1. /\ out[i].kind = "ellipsis"
            /\ i - 1 \in DOMAIN out /\ out[i - 1].kind = "char"
            /\ i + 1 \in DOMAIN out /\ out[i + 1].kind = "char"
        BY <2>1, <3>2 DEF LinesInv
      <4>2. /\ Shown(i)' = Shown(i) /\ Shown(i + 1)' = Shown(i + 1)
            /\ out'[i - 1] = out[i - 1] /\ out'[i + 1] = out[i + 1]
        BY <1>3, <3>2, <4>1
      <4>3. /\ \A K \in Classes : NeverCuts(K, out[i - 1].arg, Shown(i) \union Shown(i + 1))
            /\ out[i - 1].arg \notin Named
        BY <3>2, <4>1 DEF LinesInv, LinesRight, RangesReadable
      <4> QED
        BY <1>2, <4>1, <4>2, <4>3
    <3> QED
      BY <1>2, <3>1, <3>2
  <2> QED
    BY <2>1 DEF RangesReadable
<1>8. \A i \in DOMAIN out' : out'[i].kind = "char" => out'[i].arg <= hi'
  <2>1. ASSUME NEW i \in DOMAIN out, out'[i].kind = "char"
        PROVE  out'[i].arg <= hi'
    <3>1. out'[i] = out[i] /\ out[i].arg <= hi /\ out[i].arg \in Nat
      BY <1>1, <2>1 DEF LinesInv
    <3> QED
      BY <1>1, <3>1
  <2> QED
    BY <1>2, <2>1
<1> QED
  BY <1>5, <1>6, <1>7, <1>8 DEF LinesInv, LinesRight

\* A step that draws nothing.
LEMMA NoLine ==
  ASSUME LinesInv, TypeOK, TypeOK', UNCHANGED <<list, bm, hi, out>>
  PROVE  LinesInv'
<1>1. RangesReadable'
  <2>1. \A K \in Classes, i \in DOMAIN out :
          NeverCuts(K, out[i - 1].arg, Shown(i) \union Shown(i + 1))'
            <=> NeverCuts(K, out[i - 1].arg, Shown(i) \union Shown(i + 1))
    BY DEF NeverCuts, Shown
  <2> QED
    BY <2>1 DEF LinesInv, LinesRight, RangesReadable
<1> QED
  BY <1>1 DEF LinesInv, LinesRight, ShownOnce, AllShown, Shown, CharsOf, Ascending

LEMMA NodeLineInv ==
  ASSUME LinesInv, TypeOK, TypeOK', OutputNode
  PROVE  LinesInv'
<1>1. /\ out \in Seq(Lines) /\ NodeLine(p) \in Lines /\ hi \in Int
      /\ DOMAIN out = 1..Len(out) /\ Len(out) \in Nat
  <2>1. p \in Nat
    BY DEF TypeOK
  <2> QED
    BY <2>1, LinesAreLines, LenProperties, MaxCharAssumption DEF TypeOK
<1>2. PICK k \in Nat : k = Len(out) + 1
  BY <1>1
<1>3. /\ out' = Append(out, NodeLine(p)) /\ list' = list /\ bm' = bm /\ hi' = hi
  BY DEF OutputNode
<1>4. /\ DOMAIN out' = 1..k /\ Len(out') = k
      /\ \A i \in DOMAIN out : out'[i] = out[i]
      /\ out'[k] = NodeLine(p)
  BY <1>1, <1>2, <1>3, AppendProperties, LenProperties
<1>5. New = {k} /\ Len(out) <= Len(out')
  BY <1>1, <1>2, <1>4 DEF New
<1>6. out'[k].kind = "node"
  BY <1>4 DEF NodeLine
<1>7. Shown(k)' = {}
  BY <1>6 DEF Shown
<1>8. bm \ bm' = UNION {Shown(i)' : i \in New} /\ bm' \subseteq bm /\ hi <= hi'
  BY <1>1, <1>3, <1>5, <1>7
<1> QED
  BY <1>3, <1>4, <1>5, <1>6, <1>8, MoreLines

\* A character drawn by itself.
LEMMA CharLineInv ==
  ASSUME LinesInv, TypeOK, TypeOK', RangeStart <= MaxChar, OutputAlone \/ OutputFirst
  PROVE  LinesInv'
<1>1. /\ RangeStart \in bm /\ RangeStart \in Nat /\ RangeStart > hi
      /\ hi \in Int /\ out \in Seq(Lines)
  <2>1. RangeStart \in bm /\ RangeStart \in Char /\ RangeStart > hi
    BY StartFacts
  <2> QED
    BY <2>1, MaxCharAssumption DEF TypeOK, Char
<1>2. /\ out' = Append(out, CharLine(RangeStart)) /\ list' = list
      /\ bm' = bm \ {RangeStart} /\ hi' = RangeStart
  BY DEF OutputAlone, OutputFirst
<1>3. PICK lo \in Nat : lo = RangeStart
  BY <1>1
<1>4. /\ CharLine(lo) \in Lines /\ DOMAIN out = 1..Len(out) /\ Len(out) \in Nat
  BY <1>1, LinesAreLines, LenProperties
<1>5. PICK k \in Nat : k = Len(out) + 1
  BY <1>4
<1>6. /\ DOMAIN out' = 1..k /\ Len(out') = k
      /\ \A i \in DOMAIN out : out'[i] = out[i]
      /\ out'[k] = CharLine(lo)
  BY <1>1, <1>2, <1>3, <1>4, <1>5, AppendProperties, LenProperties
<1>7. New = {k} /\ Len(out) <= Len(out')
  BY <1>4, <1>5, <1>6 DEF New
<1>8. out'[k].kind = "char" /\ out'[k].arg = lo
  BY <1>6 DEF CharLine
<1>9. Shown(k)' = {lo}
  BY <1>8 DEF Shown
<1>10. bm \ bm' = UNION {Shown(i)' : i \in New} /\ bm' \subseteq bm
  BY <1>1, <1>2, <1>3, <1>7, <1>9
<1>11. hi <= hi' /\ \A i \in New : out'[i].arg > hi /\ out'[i].arg <= hi'
  <2>1. hi <= lo /\ lo > hi /\ lo <= hi'
    BY <1>1, <1>2, <1>3
  <2> QED
    BY <1>1, <1>2, <1>3, <1>7, <1>8, <2>1
<1>12. \A i, j \in New : i = j /\ ~(i < j)
  BY <1>5, <1>7
<1>13. \A i \in New : out'[i].kind # "ellipsis"
  BY <1>7, <1>8
<1> QED
  BY <1>2, <1>6, <1>7, <1>10, <1>11, <1>12, <1>13, MoreLines

\* The three lines of a range.
LEMMA RangeLinesInv ==
  ASSUME LinesInv, TypeOK, TypeOK', OutputRange
  PROVE  LinesInv'
<1>1. /\ RangeStart <= MaxChar /\ ClippedStop - RangeStart > 3
      /\ ~AloneByName(RangeStart, RangeStop)
      /\ out' = out \o <<CharLine(RangeStart), Ellipsis, CharLine(ClippedStop - 1)>>
      /\ list' = list /\ bm' = bm \ (RangeStart..ClippedStop - 1) /\ hi' = ClippedStop
  BY DEF OutputRange
<1>2. /\ RangeStart \in Char /\ RangeStart > hi /\ hi \in Int
      /\ ClippedStop \in RangeStart + 1 .. MaxChar + 1
      /\ RangeStart..ClippedStop - 1 \subseteq bm
      /\ \A K \in Classes : NeverCuts(K, RangeStart, RangeStart + 1 .. ClippedStop - 1)
  BY <1>1, StartFacts, RangeCutsNoClass, MaxCharAssumption DEF TypeOK
<1>3. RangeStart \notin Named
  BY <1>1, <1>2, ByteOfChar DEF AloneByName, IsNamed
<1>4. PICK lo \in Nat, last \in Nat : lo = RangeStart /\ last = ClippedStop - 1
  BY <1>2, MaxCharAssumption DEF Char
<1>5. /\ lo + 2 < last /\ lo > hi /\ hi' = last + 1
      /\ lo \notin Named /\ lo..last \in SUBSET bm
      /\ \A K \in Classes : NeverCuts(K, lo, lo + 1 .. last)
      /\ out' = out \o <<CharLine(lo), Ellipsis, CharLine(last)>>
      /\ bm' = bm \ (lo..last)
  BY <1>1, <1>2, <1>3, <1>4, MaxCharAssumption DEF Char
<1>6. /\ out \in Seq(Lines) /\ DOMAIN out = 1..Len(out) /\ Len(out) \in Nat
  BY LenProperties DEF TypeOK
<1>7. PICK k \in Nat : k = Len(out)
  BY <1>6
<1>8. PICK three \in Seq(Lines) :
        /\ out' = out \o three /\ Len(three) = 3
        /\ three[1] = CharLine(lo) /\ three[2] = Ellipsis /\ three[3] = CharLine(last)
  <2>1. CharLine(lo) \in Lines /\ Ellipsis \in Lines /\ CharLine(last) \in Lines
    BY LinesAreLines
  <2>2. PICK x \in Lines, y \in Lines, z \in Lines :
          x = CharLine(lo) /\ y = Ellipsis /\ z = CharLine(last)
    BY <2>1
  <2>3. /\ <<x, y, z>> \in Seq(Lines) /\ Len(<<x, y, z>>) = 3
        /\ <<x, y, z>>[1] = x /\ <<x, y, z>>[2] = y /\ <<x, y, z>>[3] = z
    OBVIOUS
  <2>4. out' = out \o <<x, y, z>>
    BY <1>5, <2>2
  <2>5. PICK three \in Seq(Lines) : three = <<x, y, z>>
    BY <2>3
  <2> QED
    BY <2>2, <2>3, <2>4, <2>5
<1>9. /\ DOMAIN out' = 1..k + 3 /\ Len(out') = k + 3
      /\ \A i \in DOMAIN out : out'[i] = out[i]
      /\ \A i \in 1..3 : out'[k + i] = three[i]
  <2>1. /\ out \o three \in Seq(Lines) /\ Len(out \o three) = k + 3
        /\ \A i \in 1..k + 3 : (out \o three)[i] = IF i <= k THEN out[i] ELSE three[i - k]
    <3>1. /\ out \o three \in Seq(Lines) /\ Len(out \o three) = Len(out) + Len(three)
          /\ \A i \in 1..Len(out) + Len(three) :
               (out \o three)[i] = IF i <= Len(out) THEN out[i] ELSE three[i - Len(out)]
      BY <1>6, <1>8, ConcatProperties
    <3> QED
      BY <1>7, <1>8, <3>1
  <2>2. DOMAIN out' = 1..k + 3 /\ Len(out') = k + 3
    BY <1>8, <2>1, LenProperties
  <2>3. \A i \in DOMAIN out : out'[i] = out[i]
    BY <1>6, <1>7, <1>8, <2>1
  <2>4. ASSUME NEW i \in 1..3
        PROVE  out'[k + i] = three[i]
    <3>1. k + i \in 1..k + 3 /\ ~(k + i <= k) /\ k + i - k = i
      OBVIOUS
    <3> QED
      BY <1>8, <2>1, <3>1
  <2> QED
    BY <2>2, <2>3, <2>4
<1>10. /\ out'[k + 1].kind = "char" /\ out'[k + 1].arg = lo
       /\ out'[k + 2].kind = "ellipsis"
       /\ out'[k + 3].kind = "char" /\ out'[k + 3].arg = last
  <2>1. /\ out'[k + 1] = CharLine(lo) /\ out'[k + 2] = Ellipsis
        /\ out'[k + 3] = CharLine(last)
    BY SMTT(60), <1>8, <1>9
  <2> QED
    BY <2>1 DEF CharLine, Ellipsis
<1>11. New = {k + 1, k + 2, k + 3} /\ Len(out) <= Len(out')
  BY <1>6, <1>7, <1>9 DEF New
<1>13. /\ Shown(k + 1)' = {lo}
       /\ Shown(k + 2)' = lo + 1 .. last - 1
       /\ Shown(k + 3)' = {last}
  <2>1. Shown(k + 1)' = {lo} /\ Shown(k + 3)' = {last}
    BY <1>10 DEF Shown
  <2>2. k + 2 - 1 = k + 1 /\ k + 2 + 1 = k + 3
    OBVIOUS
  <2>3. Shown(k + 2)' = out'[k + 2 - 1].arg + 1 .. out'[k + 2 + 1].arg - 1
    BY <1>10 DEF Shown
  <2> QED
    BY <1>10, <2>1, <2>2, <2>3
<1>14. UNION {Shown(i)' : i \in New} = lo..last
  <2>1. UNION {Shown(i)' : i \in New} = {lo} \union (lo + 1 .. last - 1) \union {last}
    BY <1>11, <1>13
  <2>2. {lo} \union (lo + 1 .. last - 1) \union {last} = lo..last
    <3>1. lo + 2 < last
      BY <1>5
    <3> QED
      BY <3>1
  <2> QED
    BY <2>1, <2>2
<1>15. \A i, j \in New : i # j => Shown(i)' \intersect Shown(j)' = {}
  <2>1. /\ {lo} \intersect (lo + 1 .. last - 1) = {} /\ {lo} \intersect {last} = {}
        /\ {last} \intersect (lo + 1 .. last - 1) = {}
    BY <1>5
  <2> QED
    BY <1>11, <1>13, <2>1
<1>16. lo > hi /\ lo <= hi' /\ last > hi /\ last <= hi' /\ hi <= hi' /\ lo < last
  BY <1>2, <1>5
<1>17. /\ \A i \in New : out'[i].kind = "char" => out'[i].arg > hi /\ out'[i].arg <= hi'
       /\ \A i, j \in New : i < j /\ out'[i].kind = "char" /\ out'[j].kind = "char"
                              => out'[i].arg < out'[j].arg
  BY <1>10, <1>11, <1>16
<1>18. \A i \in New :
         out'[i].kind = "ellipsis" =>
           /\ i - 1 \in New /\ out'[i - 1].kind = "char"
           /\ i + 1 \in New /\ out'[i + 1].kind = "char"
           /\ \A K \in Classes : NeverCuts(K, out'[i - 1].arg, Shown(i)' \union Shown(i + 1)')
           /\ out'[i - 1].arg \notin Named
  <2>1. k + 2 - 1 = k + 1 /\ k + 2 + 1 = k + 3
    OBVIOUS
  <2>2. \A K \in Classes : NeverCuts(K, lo, Shown(k + 2)' \union Shown(k + 3)')
    <3>1. Shown(k + 2)' \union Shown(k + 3)' = lo + 1 .. last
      <4>1. (lo + 1 .. last - 1) \union {last} = lo + 1 .. last
        BY <1>5
      <4> QED
        BY <1>13, <4>1
    <3> QED
      BY <1>5, <3>1
  <2>3. \A i \in New : out'[i].kind = "ellipsis" => i = k + 2
    BY <1>10, <1>11
  <2>4. Shown(k + 2 + 1)' = Shown(k + 3)'
    BY <2>1
  <2>5. /\ k + 2 - 1 \in New /\ out'[k + 2 - 1].kind = "char" /\ out'[k + 2 - 1].arg = lo
        /\ k + 2 + 1 \in New /\ out'[k + 2 + 1].kind = "char"
    BY <1>10, <1>11, <2>1
  <2>6. PICK j : j = k + 2
    OBVIOUS
  <2>7. /\ j - 1 \in New /\ out'[j - 1].kind = "char"
        /\ j + 1 \in New /\ out'[j + 1].kind = "char"
        /\ out'[j - 1].arg = lo
    BY <2>5, <2>6
  <2>8. \A K \in Classes : NeverCuts(K, lo, Shown(j)' \union Shown(j + 1)')
    BY <2>2, <2>4, <2>6
  <2> QED
    BY <1>5, <2>3, <2>6, <2>7, <2>8
<1>19. bm \ bm' = UNION {Shown(i)' : i \in New} /\ bm' \subseteq bm
  BY <1>5, <1>14
<1> QED
  BY <1>1, <1>9, <1>11, <1>15, <1>16, <1>17, <1>18, <1>19, MoreLines

LEMMA NextLinesInv == IInv /\ IInv' /\ LinesInv /\ [Next]_vars => LinesInv'
<1> SUFFICES ASSUME IInv, IInv', LinesInv, [Next]_vars
             PROVE  LinesInv'
  OBVIOUS
<1>1. TypeOK /\ TypeOK'
  BY DEF IInv
<1>2. CASE OutputNode
  BY <1>1, <1>2, NodeLineInv
<1>3. CASE OutputAlone
  BY <1>1, <1>3, CharLineInv DEF OutputAlone
<1>4. CASE OutputFirst
  BY <1>1, <1>4, CharLineInv DEF OutputFirst
<1>5. CASE OutputRange
  BY <1>1, <1>5, RangeLinesInv
<1>6. CASE SkipOutput \/ Break \/ Return \/ UNCHANGED vars
  <2>1. UNCHANGED <<list, bm, hi, out>>
    BY <1>6 DEF SkipOutput, Break, Return, vars
  <2> QED
    BY <1>1, <2>1, NoLine
<1> QED
  BY <1>2, <1>3, <1>4, <1>5, <1>6 DEF Next, Terminated

LEMMA InitLinesInv == Init => LinesInv
<1> SUFFICES ASSUME Init
             PROVE  LinesInv
  OBVIOUS
<1>1. DOMAIN out = {} /\ bm = CharsOf(list)
  BY DEF Init
<1>2. AllShown = {}
  BY <1>1 DEF AllShown
<1> QED
  BY <1>1, <1>2 DEF LinesInv, LinesRight, ShownOnce, Ascending, RangesReadable

(***************************************************************************)
(* tnode_create_alt_list draws a character once, in ascending order, and   *)
(* leaves no range that ends within a class it did not start in, leaves    *)
(* the class it starts in, or begins on a named character.                 *)
(***************************************************************************)
THEOREM LinesAreRight == Spec => []LinesRight
<1>1. Init => IInv /\ LinesInv
  BY InitIInv, InitLinesInv
<1>2. IInv /\ LinesInv /\ [Next]_vars => (IInv /\ LinesInv)'
  BY NextIInv, NextLinesInv
<1>3. LinesInv => LinesRight
  BY DEF LinesInv
<1> QED
  BY <1>1, <1>2, <1>3, PTL DEF Spec
-----------------------------------------------------------------------------
\* The lines there are stay where they are.
LEMMA LinesStay ==
  ASSUME TypeOK, NEW s \in Seq(Lines), out' = out \o s
  PROVE  \A i \in DOMAIN out : i \in DOMAIN out' /\ out'[i] = out[i]
<1>1. out \in Seq(Lines) /\ DOMAIN out = 1..Len(out) /\ Len(out) \in Nat /\ Len(s) \in Nat
  BY LenProperties DEF TypeOK
<1>2. /\ DOMAIN (out \o s) = 1..Len(out) + Len(s)
      /\ \A i \in 1..Len(out) + Len(s) :
           (out \o s)[i] = IF i <= Len(out) THEN out[i] ELSE s[i - Len(out)]
  BY <1>1, ConcatProperties, LenProperties
<1> QED
  BY <1>1, <1>2

LEMMA LinesStayAppended ==
  ASSUME TypeOK, NEW x \in Lines, out' = Append(out, x)
  PROVE  /\ \A i \in DOMAIN out : i \in DOMAIN out' /\ out'[i] = out[i]
         /\ \E i \in DOMAIN out' : out'[i] = x
<1>1. out \in Seq(Lines) /\ DOMAIN out = 1..Len(out) /\ Len(out) \in Nat
  BY LenProperties DEF TypeOK
<1>2. /\ DOMAIN out' = 1..Len(out) + 1
      /\ \A i \in DOMAIN out : out'[i] = out[i]
      /\ out'[Len(out) + 1] = x
  BY <1>1, AppendProperties, LenProperties
<1> QED
  BY <1>1, <1>2

\* Nothing left is before hi, so a character at p that is left has a run.
LEMMA RunExists ==
  ASSUME TypeOK, CursorsAgree, Pending
  PROVE  RangeStart <= MaxChar
<1>1. bm \subseteq Char /\ hi \in Int /\ list[p] \in bm
  BY FiniteSetsOfList, MaxCharAssumption DEF TypeOK, Pending
<1>2. list[p] > hi
  BY <1>1 DEF CursorsAgree
<1>3. RangeStart <= list[p] /\ RangeStart \in 0..MaxChar + 1 /\ list[p] \in Char
  BY <1>1, <1>2, NextOfFacts DEF RangeStart
<1> QED
  BY <1>3, MaxCharAssumption DEF Char

\* bm_next depends on the characters after from only.
LEMMA NextOfSame ==
  ASSUME NEW S, NEW T, NEW from, {c \in S : c > from} = {c \in T : c > from}
  PROVE  NextOf(S, from) = NextOf(T, from)
<1> DEFINE A == {c \in S : c > from}
           B == {c \in T : c > from}
           N(X) == IF X = {} THEN MaxChar + 1 ELSE CHOOSE c \in X : \A d \in X : c <= d
<1>1. NextOf(S, from) = N(A) /\ NextOf(T, from) = N(B)
  BY DEF NextOf
<1>2. A = B
  OBVIOUS
<1> HIDE DEF A, B, N
<1> QED
  BY <1>1, <1>2

(***************************************************************************)
(* The character drawn alone is the one at p, or else the list has such a  *)
(* character and is not in ascending order.                                *)
(***************************************************************************)
LEMMA AloneIsNext ==
  ASSUME TypeOK, CursorsAgree, Regular(list), OutputAlone
  PROVE  list[p] = RangeStart
<1> DEFINE lo == RangeStart
<1>1. /\ lo \in bm /\ lo \in Char /\ lo > hi /\ \A c \in bm : c > hi => lo <= c
      /\ hi \in Int
  BY StartFacts, MaxCharAssumption DEF OutputAlone, TypeOK
<1>2. /\ AloneByName(lo, RangeStop) /\ IsChar(p) /\ list[p] \in bm
      /\ p \in DOMAIN list
  BY LenProperties DEF OutputAlone, Pending, InLoop, TypeOK
<1>3. bm \subseteq CharsOf(list) /\ CharsOf(list) \subseteq Char
  BY FiniteSetsOfList DEF TypeOK
<1>4. RangeStop = NextOf(Char \ CharsOf(list), lo)
  <2>1. {c \in Char \ bm : c > lo} = {c \in Char \ CharsOf(list) : c > lo}
    <3>1. ASSUME NEW c \in Char, c > lo, c \in CharsOf(list)
          PROVE  c \in bm
      <4>1. c > hi
        BY <1>1, <3>1, MaxCharAssumption DEF Char
      <4>2. ~(c <= hi)
        BY <1>1, <3>1, <4>1, MaxCharAssumption DEF Char
      <4> QED
        BY <3>1, <4>2 DEF CursorsAgree
    <3> QED
      BY <1>3, <3>1
  <2> QED
    BY <2>1, NextOfSame DEF RangeStop
<1>5. SomeAlone(list)
  BY <1>1, <1>2, <1>3, <1>4 DEF SomeAlone
<1>6. InAscendingOrder(list)
  BY <1>5 DEF Regular
<1>7. PICK j \in DOMAIN list : list[j] = lo /\ list[j] # Other
  BY <1>1, <1>3 DEF CharsOf
<1>8. j >= p
  <2>1. DOMAIN list = 1..Len(list) /\ Len(list) \in Nat /\ p \in Nat
    BY LenProperties DEF TypeOK
  <2>2. CASE j < p
    <3>1. j \in 1..p - 1
      BY <2>1, <2>2
    <3>2. list[j] \notin bm
      BY <1>7, <3>1 DEF CursorsAgree, IsChar
    <3> QED
      BY <1>1, <1>7, <3>2
  <2> QED
    BY <2>1, <2>2
<1>9. list[p] \in Char /\ list[p] # Other
  BY <1>2, <1>3 DEF IsChar
<1>10. list[p] <= lo
  <2>1. CASE j = p
    BY <1>7, <1>9, <2>1, MaxCharAssumption DEF Char
  <2>2. CASE j # p
    <3>1. p < j
      BY <1>8, <2>2, LenProperties DEF TypeOK
    <3> QED
      BY <1>2, <1>6, <1>7, <1>9, <3>1 DEF InAscendingOrder
  <2> QED
    BY <2>1, <2>2
<1>11. lo <= list[p]
  BY <1>1, <1>2 DEF CursorsAgree
<1> QED
  BY <1>1, <1>9, <1>10, <1>11, MaxCharAssumption DEF Char

(***************************************************************************)
(* The character after a range is not one left to draw, unless the range   *)
(* was cut off at the end of its class.                                    *)
(***************************************************************************)
LEMMA AfterRange ==
  ASSUME TypeOK, Regular(list), OutputRange
  PROVE  ClippedStop \notin bm
<1> DEFINE lo == RangeStart
           K  == CHOOSE L \in Classes : lo \in L
<1>1. /\ bm \subseteq Char /\ bm \subseteq CharsOf(list) /\ hi \in Int
      /\ lo <= MaxChar /\ ClippedStop - lo > 3
  BY FiniteSetsOfList, MaxCharAssumption DEF TypeOK, OutputRange
<1>2. /\ lo \in Char /\ RangeStop \in lo + 1 .. MaxChar + 1
      /\ lo..RangeStop - 1 \subseteq bm
      /\ ClippedStop \in lo + 1 .. RangeStop
  BY <1>1, RunFacts, ClippedStopFacts
<1>3. CASE ClippedStop = RangeStop
  <2>1. Char \ bm \in SUBSET Char /\ lo \in Int
    BY <1>2, MaxCharAssumption DEF Char
  <2>2. RangeStop <= MaxChar => RangeStop \in Char \ bm
    BY <2>1, NextOfFacts DEF RangeStop
  <2> QED
    BY <1>1, <1>2, <1>3, <2>2, MaxCharAssumption DEF Char
<1>4. CASE ClippedStop # RangeStop
  <2>1. IsAlnum(lo) /\ ClippedStop = 1 + CHOOSE c \in K : \A d \in K : d <= c
    BY <1>4 DEF ClippedStop
  <2>2. K \in Classes /\ lo \in K
    <3>1. \E L \in Classes : lo \in L
      BY <1>2, <2>1, ByteOfChar DEF IsAlnum
    <3> QED
      BY <3>1
  <2> HIDE DEF K
  <2>3. PICK a \in Char, b \in Char : a <= b /\ K = a..b
    BY <2>2, ClassesAssumption
  <2>4. ClippedStop = b + 1
    <3>1. b \in K /\ \A d \in K : d <= b
      BY <2>3, MaxCharAssumption DEF Char
    <3>2. \A c \in K : (\A d \in K : d <= c) => c = b
      BY <3>1, <2>3, MaxCharAssumption DEF Char
    <3>3. (CHOOSE c \in K : \A d \in K : d <= c) = b
      BY <3>1, <3>2
    <3>4. ClippedStop = 1 + b
      BY <2>1, <3>3
    <3> QED
      BY <3>4, MaxCharAssumption DEF Char
  <2>5. PICK l \in Nat, e \in Nat : l = lo /\ e = RangeStop
    BY <1>2, MaxCharAssumption DEF Char
  <2>6. b \in Nat /\ a \in Nat /\ l > -1 /\ b + 1 < e /\ b + 1 - l > 3 /\ a <= l
    BY <1>1, <1>2, <1>4, <2>2, <2>3, <2>4, <2>5, MaxCharAssumption DEF Char
  <2>7. b - 3..b + 1 \subseteq l..e - 1
    BY <2>6
  <2>8. b - 3..b + 1 \subseteq CharsOf(list)
    BY <1>1, <1>2, <2>5, <2>7
  <2>9. b \in a..b /\ b + 1 \notin a..b /\ b - 3 \in a..b
    BY <2>6
  <2>10. CutAtClassEnd(list)
    BY <2>2, <2>3, <2>8, <2>9 DEF CutAtClassEnd
  <2> QED
    BY <2>10 DEF Regular
<1> QED
  BY <1>3, <1>4

(***************************************************************************)
(* The list of lines has an element for every character that is drawn, and *)
(* both cursors move past it.                                              *)
(***************************************************************************)
LEMMA NextCursorsAgree ==
  ASSUME IInv, IInv', CursorsAgree, Regular(list), [Next]_vars
  PROVE  CursorsAgree'
<1>1. /\ TypeOK /\ TypeOK' /\ hi \in Int /\ p \in Nat /\ p \in 1..Len(list) + 1
      /\ Len(list) \in Nat /\ bm \subseteq Char
  BY FiniteSetsOfList, LenProperties, MaxCharAssumption DEF IInv, TypeOK
<1>2. CASE OutputNode
  <2>1. /\ p' = p + 1 /\ UNCHANGED <<pc, list, bm, hi>> /\ pc = "loop"
        /\ ~IsChar(p) /\ out' = Append(out, NodeLine(p))
    BY <1>2 DEF OutputNode, InLoop
  <2>2. /\ \A i \in DOMAIN out : i \in DOMAIN out' /\ out'[i] = out[i]
        /\ \E i \in DOMAIN out' : out'[i] = NodeLine(p)
    BY <1>1, <2>1, LinesAreLines, LinesStayAppended
  <2>3. ASSUME NEW j \in 1..p' - 1
        PROVE  IF IsChar(j)' THEN list'[j] \notin bm'
               ELSE \E i \in DOMAIN out' : out'[i] = NodeLine(j)
    <3>1. CASE j = p
      BY <2>1, <2>2, <3>1 DEF IsChar
    <3>2. CASE j # p
      <4>1. j \in 1..p - 1
        BY <1>1, <2>1, <3>2
      <4> QED
        BY <2>1, <2>2, <4>1 DEF CursorsAgree, IsChar
    <3> QED
      BY <3>1, <3>2
  <2>4. /\ \A c \in bm' : c > hi'
        /\ \A c \in CharsOf(list)' \ bm' : c <= hi'
    BY <2>1 DEF CursorsAgree, CharsOf
  <2> QED
    BY <2>1, <2>3, <2>4 DEF CursorsAgree
<1>3. CASE SkipOutput
  <2>1. /\ p' = p + 1 /\ UNCHANGED <<pc, list, bm, hi, out>> /\ pc = "loop"
        /\ IsChar(p) /\ list[p] \notin bm
    BY <1>3 DEF SkipOutput, InLoop
  <2>2. ASSUME NEW j \in 1..p' - 1
        PROVE  IF IsChar(j)' THEN list'[j] \notin bm'
               ELSE \E i \in DOMAIN out' : out'[i] = NodeLine(j)
    <3>1. CASE j = p
      BY <2>1, <3>1 DEF IsChar
    <3>2. CASE j # p
      <4>1. j \in 1..p - 1
        BY <1>1, <2>1, <3>2
      <4> QED
        BY <2>1, <4>1 DEF CursorsAgree, IsChar
    <3> QED
      BY <3>1, <3>2
  <2>3. /\ \A c \in bm' : c > hi'
        /\ \A c \in CharsOf(list)' \ bm' : c <= hi'
    BY <2>1 DEF CursorsAgree, CharsOf
  <2> QED
    BY <2>1, <2>2, <2>3 DEF CursorsAgree
<1>4. CASE Break
  BY <1>1, <1>4, RunExists, StartFacts, MaxCharAssumption DEF Break, Char
<1>5. CASE OutputAlone \/ OutputFirst
  <2>1. /\ UNCHANGED <<pc, list>> /\ pc = "loop" /\ RangeStart <= MaxChar
        /\ out' = Append(out, CharLine(RangeStart))
        /\ bm' = bm \ {RangeStart} /\ hi' = RangeStart
    BY <1>5 DEF OutputAlone, OutputFirst, Pending, InLoop
  <2>2. PICK lo \in Char : lo = RangeStart
    BY <1>1, <2>1, StartFacts
  <2>3. lo > hi /\ \A c \in bm : c > hi => lo <= c
    BY <1>1, <2>1, <2>2, StartFacts
  <2>4. \A c \in bm' : c > hi'
    BY <1>1, <2>1, <2>2, <2>3, MaxCharAssumption DEF CursorsAgree, Char
  <2>5. \A c \in CharsOf(list)' \ bm' : c <= hi'
    <3>1. ASSUME NEW c \in CharsOf(list), c \notin bm'
          PROVE  c <= lo
      <4>1. CASE c = lo
        BY <4>1, MaxCharAssumption DEF Char
      <4>2. CASE c # lo
        <5>1. c \in Char /\ c <= hi
          BY <1>1, <2>1, <2>2, <3>1, <4>2, FiniteSetsOfList DEF CursorsAgree
        <5> QED
          BY <1>1, <2>3, <5>1, MaxCharAssumption DEF Char
      <4> QED
        BY <4>1, <4>2
    <3> QED
      BY <2>1, <2>2, <3>1 DEF CharsOf
  <2>6. \A i \in DOMAIN out : i \in DOMAIN out' /\ out'[i] = out[i]
    <3>1. CharLine(lo) \in Lines
      BY LinesAreLines, MaxCharAssumption DEF Char
    <3> QED
      BY <1>1, <2>1, <2>2, <3>1, LinesStayAppended
  <2>7. ASSUME NEW j \in 1..p - 1
        PROVE  IF IsChar(j)' THEN list'[j] \notin bm'
               ELSE \E i \in DOMAIN out' : out'[i] = NodeLine(j)
    BY <2>1, <2>6 DEF CursorsAgree, IsChar
  <2>8. ASSUME NEW j \in 1..p' - 1
        PROVE  IF IsChar(j)' THEN list'[j] \notin bm'
               ELSE \E i \in DOMAIN out' : out'[i] = NodeLine(j)
    <3>1. CASE j \in 1..p - 1
      BY <2>7, <3>1
    <3>2. CASE j \notin 1..p - 1
      <4>1. p' = p \/ (p' = p + 1 /\ OutputAlone)
        BY <1>5 DEF OutputAlone, OutputFirst
      <4>2. p' = p + 1 /\ OutputAlone /\ j = p
        BY <1>1, <3>2, <4>1
      <4>3. IsChar(p) /\ list[p] = lo
        BY <1>1, <2>2, <4>2, AloneIsNext DEF OutputAlone, Pending
      <4> QED
        BY <2>1, <2>2, <4>2, <4>3 DEF IsChar
    <3> QED
      BY <3>1, <3>2
  <2> QED
    BY <2>1, <2>4, <2>5, <2>8 DEF CursorsAgree
<1>6. CASE OutputRange
  <2>1. /\ UNCHANGED <<pc, list, p>> /\ pc = "loop" /\ RangeStart <= MaxChar
        /\ out' = out \o <<CharLine(RangeStart), Ellipsis, CharLine(ClippedStop - 1)>>
        /\ bm' = bm \ (RangeStart..ClippedStop - 1) /\ hi' = ClippedStop
    BY <1>6 DEF OutputRange, Pending, InLoop
  <2>2. PICK lo \in Nat, stop \in Nat : lo = RangeStart /\ stop = ClippedStop
    BY SMTT(60), <1>1, <2>1, StartFacts, MaxCharAssumption DEF Char
  <2>3. /\ lo > hi /\ lo < stop /\ stop \notin bm
        /\ \A c \in bm : c > hi => lo <= c
    BY <1>1, <1>6, <2>1, <2>2, StartFacts, AfterRange, MaxCharAssumption DEF Char
  <2>4. ASSUME NEW c \in bm'
        PROVE  c > hi'
    <3>1. c \in bm /\ c \in Nat /\ c \notin lo..stop - 1 /\ c # stop /\ hi' = stop
      BY <1>1, <2>1, <2>2, <2>3, MaxCharAssumption DEF Char
    <3>2. lo <= c
      BY <2>3, <3>1 DEF CursorsAgree
    <3> QED
      BY <2>3, <3>1, <3>2
  <2>5. \A c \in CharsOf(list)' \ bm' : c <= hi'
    <3>1. ASSUME NEW c \in CharsOf(list), c \notin bm'
          PROVE  c <= stop
      <4>1. CASE c \in lo..stop - 1
        BY <4>1
      <4>2. CASE c \notin lo..stop - 1
        <5>1. c \in Nat /\ c <= hi
          BY <1>1, <2>1, <2>2, <3>1, <4>2, FiniteSetsOfList, MaxCharAssumption DEF CursorsAgree, Char
        <5> QED
          BY <1>1, <2>3, <5>1
      <4> QED
        BY <4>1, <4>2
    <3> QED
      BY <2>1, <2>2, <3>1 DEF CharsOf
  <2>6. \A i \in DOMAIN out : i \in DOMAIN out' /\ out'[i] = out[i]
    <3>1. stop - 1 \in Nat
      BY <2>3
    <3>2. CharLine(lo) \in Lines /\ Ellipsis \in Lines /\ CharLine(stop - 1) \in Lines
      BY <3>1, LinesAreLines
    <3>3. <<CharLine(lo), Ellipsis, CharLine(stop - 1)>> \in Seq(Lines)
      BY <3>2
    <3> QED
      BY <1>1, <2>1, <2>2, <3>3, LinesStay
  <2>7. ASSUME NEW j \in 1..p' - 1
        PROVE  IF IsChar(j)' THEN list'[j] \notin bm'
               ELSE \E i \in DOMAIN out' : out'[i] = NodeLine(j)
    BY <2>1, <2>6 DEF CursorsAgree, IsChar
  <2> QED
    BY <2>1, <2>4, <2>5, <2>7 DEF CursorsAgree
<1>7. CASE Return
  <2>1. p > Len(list) /\ UNCHANGED <<list, p, bm, hi, out>>
    BY <1>7 DEF Return
  <2>2. p' = Len(list') + 1
    BY <1>1, <2>1
  <2> QED
    BY <2>1, <2>2 DEF CursorsAgree, CharsOf, IsChar
<1>8. CASE UNCHANGED vars
  BY <1>8 DEF CursorsAgree, CharsOf, IsChar, vars
<1> QED
  BY <1>2, <1>3, <1>4, <1>5, <1>6, <1>7, <1>8 DEF Next, Terminated

LEMMA NextCursorInv == IInv /\ IInv' /\ CursorInv /\ [Next]_vars => CursorInv'
<1> SUFFICES ASSUME IInv, IInv', CursorInv, [Next]_vars, Regular(list')
             PROVE  CursorsAgree'
  BY DEF CursorInv
<1>1. list' = list
  BY DEF Next, OutputNode, SkipOutput, Break, OutputAlone, OutputFirst, OutputRange,
         Return, Terminated, vars
<1>2. Regular(list)
  BY <1>1
<1> QED
  BY <1>2, NextCursorsAgree DEF CursorInv

LEMMA InitCursorInv == Init => CursorInv
<1> SUFFICES ASSUME Init
             PROVE  CursorsAgree
  BY DEF CursorInv
<1>1. /\ p = 1 /\ bm = CharsOf(list) /\ hi = -1
      /\ list \in Seq(Char \union {Other})
      /\ pc = "done" => Len(list) = 0
  BY ListsAssumption DEF Init
<1>2. CharsOf(list) \subseteq Char
  BY <1>1 DEF CharsOf
<1>3. \A c \in bm : c > hi
  BY <1>1, <1>2, MaxCharAssumption DEF Char
<1>4. 1..p - 1 = {}
  BY <1>1
<1> QED
  BY <1>1, <1>3, <1>4 DEF CursorsAgree, Init

(***************************************************************************)
(* When the loop ends, every alternative is drawn, unless a range was cut  *)
(* off at the end of its class where the list goes on, or a character      *)
(* drawn alone was not the one p was at.                                   *)
(***************************************************************************)
THEOREM EverythingIsShownOtherwise == Spec => []EverythingShownOtherwise
<1>1. Init => IInv /\ LinesInv /\ CursorInv
  BY InitIInv, InitLinesInv, InitCursorInv
<1>2. IInv /\ LinesInv /\ CursorInv /\ [Next]_vars => (IInv /\ LinesInv /\ CursorInv)'
  BY NextIInv, NextLinesInv, NextCursorInv
<1>3. IInv /\ LinesInv /\ CursorInv => EverythingShownOtherwise
  <2> SUFFICES ASSUME IInv, LinesInv, CursorsAgree, pc = "done"
               PROVE  EverythingShown
    BY DEF CursorInv, Regular, EverythingShownOtherwise, EverythingShown
  <2>1. DOMAIN list = 1..p - 1
    BY LenProperties DEF CursorsAgree, IInv, TypeOK
  <2>2. bm = {}
    BY <2>1 DEF CursorsAgree, CharsOf, IsChar, IInv, TypeOK
  <2>3. AllShown = CharsOf(list)
    BY <2>2 DEF LinesInv, LinesRight, ShownOnce
  <2> QED
    BY <2>1, <2>3 DEF CursorsAgree, EverythingShown
<1> QED
  BY <1>1, <1>2, <1>3, PTL DEF Spec
=============================================================================
