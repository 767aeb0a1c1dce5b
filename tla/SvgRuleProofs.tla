---------------------------- MODULE SvgRuleProofs ---------------------------
(***************************************************************************)
(* The track of a production, for drawings of any number of segments:      *)
(* consolidating and writing lose none of it and write all of it where it  *)
(* has been drawn; what is written has no two segments in a row that might *)
(* be one; and each step leaves less to do.                                *)
(***************************************************************************)
EXTENDS SvgRule, FiniteSetTheorems, SequenceTheorems, TLAPS

(***************************************************************************)
(* Lists.                                                                  *)
(***************************************************************************)
\* Min finds the first of some positions.
LEMMA FirstExists ==
  ASSUME NEW n \in Nat, NEW T \in SUBSET (1..n), T # {}
  PROVE  Min(T) \in T /\ \A k \in T : Min(T) <= k
<1> DEFINE F == {T \intersect (0..k) : k \in T}
           R == StrictSubsetOrdering(T)
<1>1. IsFiniteSet(T) /\ T \subseteq Nat
  <2>1. IsFiniteSet(1..n)
    BY FS_Interval
  <2>2. T \subseteq 1..n
    OBVIOUS
  <2>3. IsFiniteSet(T)
    BY <2>1, <2>2, FS_Subset
  <2>4. T \subseteq Nat
    BY <2>2
  <2> QED
    BY <2>3, <2>4
<1>2. F \subseteq FiniteSubsetsOf(T) /\ F # {}
  <2>1. F \subseteq SUBSET T /\ F # {}
    OBVIOUS
  <2> QED
    BY <1>1, <2>1, FS_FiniteSubsetsOfFinite
<1>3. \E X \in F : \A Y \in F : <<Y, X>> \notin R
  <2>1. IsWellFoundedOn(R, FiniteSubsetsOf(T))
    BY FS_StrictSubsetOrderingWellFounded
  <2> HIDE DEF F, R
  <2> QED
    BY <1>2, <2>1, WFMin
<1>4. PICK c \in T : \A Y \in F : <<Y, T \intersect (0..c)>> \notin R
  BY <1>3
<1>5. ASSUME NEW d \in T, d < c
      PROVE  FALSE
  <2> DEFINE X == T \intersect (0..c)
             Y == T \intersect (0..d)
  <2>1. Y \subseteq X /\ c \in X /\ c \notin Y
    BY <1>1, <1>5
  <2>2. <<Y, X>> \in R
    BY <2>1 DEF StrictSubsetOrdering
  <2> QED
    BY <1>4, <2>2
<1>6. \E c1 \in T : \A k \in T : c1 <= k
  BY <1>1, <1>5
<1> QED
  BY <1>6 DEF Min

\* Removing a segment moves those after it up.
LEMMA RemoveAtFacts ==
  ASSUME NEW S, NEW s \in Seq(S), NEW i \in DOMAIN s
  PROVE  /\ RemoveAt(s, i) \in Seq(S)
         /\ Len(RemoveAt(s, i)) = Len(s) - 1
         /\ \A j \in 1..Len(s) - 1 : RemoveAt(s, i)[j] = IF j < i THEN s[j] ELSE s[j + 1]
<1> DEFINE front == SubSeq(s, 1, i - 1)
           back  == SubSeq(s, i + 1, Len(s))
<1>1. i \in 1..Len(s) /\ Len(s) \in Nat
  OBVIOUS
<1>2. /\ front \in Seq(S) /\ Len(front) = i - 1
      /\ \A j \in 1..i - 1 : front[j] = s[j]
  BY <1>1, SubSeqProperties
<1>3. /\ back \in Seq(S) /\ Len(back) = Len(s) - i
      /\ \A j \in 1..Len(s) - i : back[j] = s[i + j]
  BY <1>1, SubSeqProperties
<1>4. RemoveAt(s, i) = front \o back
  BY DEF RemoveAt
<1> HIDE DEF front, back
<1>5. /\ front \o back \in Seq(S) /\ Len(front \o back) = Len(front) + Len(back)
      /\ \A j \in 1..Len(front) + Len(back) :
           (front \o back)[j] = IF j <= Len(front) THEN front[j] ELSE back[j - Len(front)]
  BY <1>2, <1>3, ConcatProperties
<1>6. ASSUME NEW j \in 1..Len(s) - 1
      PROVE  (front \o back)[j] = IF j < i THEN s[j] ELSE s[j + 1]
  <2>1. CASE j < i
    BY SMTT(60), <1>1, <1>2, <1>3, <1>5, <2>1
  <2>2. CASE ~(j < i)
    <3>1. j \in 1..Len(front) + Len(back) /\ ~(j <= Len(front)) /\ j - (i - 1) \in 1..Len(s) - i
      BY SMTT(60), <1>1, <1>2, <1>3, <2>2
    <3>2. (front \o back)[j] = back[j - Len(front)]
      BY <1>5, <3>1
    <3>3. back[j - (i - 1)] = s[i + (j - (i - 1))]
      BY <1>3, <3>1
    <3>4. i + (j - (i - 1)) = j + 1 /\ Len(front) = i - 1 /\ ~(j < i)
      BY <1>1, <1>2, <2>2
    <3> QED
      BY <3>2, <3>3, <3>4
  <2> QED
    BY <2>1, <2>2
<1>7. Len(front \o back) = Len(s) - 1
  BY <1>1, <1>2, <1>3, <1>5
<1>8. front \o back \in Seq(S)
  BY <1>5
<1> QED
  BY <1>4, <1>6, <1>7, <1>8

\* Each segment but the one removed is still there, and no other.
LEMMA RemoveAtKeeps ==
  ASSUME NEW S, NEW s \in Seq(S), NEW i \in DOMAIN s
  PROVE  /\ \A j \in DOMAIN s \ {i} : \E k \in DOMAIN RemoveAt(s, i) : RemoveAt(s, i)[k] = s[j]
         /\ \A k \in DOMAIN RemoveAt(s, i) :
              \E j \in DOMAIN s \ {i} : /\ RemoveAt(s, i)[k] = s[j]
                                        /\ j = IF k < i THEN k ELSE k + 1
<1> DEFINE r == RemoveAt(s, i)
<1>1. /\ r \in Seq(S) /\ Len(r) = Len(s) - 1
      /\ \A j \in 1..Len(s) - 1 : r[j] = IF j < i THEN s[j] ELSE s[j + 1]
  BY RemoveAtFacts
<1>2. Len(s) \in Nat /\ DOMAIN s = 1..Len(s) /\ DOMAIN r = 1..Len(s) - 1
  BY <1>1
<1> HIDE DEF r
<1>3. ASSUME NEW j \in DOMAIN s \ {i}
      PROVE  \E k \in DOMAIN r : r[k] = s[j]
  <2>1. CASE j < i
    BY <1>1, <1>2, <2>1
  <2>2. CASE j > i
    <3>1. j - 1 \in DOMAIN r /\ r[j - 1] = s[(j - 1) + 1] /\ (j - 1) + 1 = j
      BY <1>1, <1>2, <2>2
    <3> QED
      BY <3>1
  <2> QED
    BY <1>2, <2>1, <2>2
<1>4. ASSUME NEW k \in DOMAIN r
      PROVE  \E j \in DOMAIN s \ {i} : r[k] = s[j] /\ j = IF k < i THEN k ELSE k + 1
  BY <1>1, <1>2
<1> QED
  BY <1>3, <1>4 DEF r

(***************************************************************************)
(* Ink.                                                                    *)
(***************************************************************************)
LEMMA SegmentKinds ==
  ASSUME NEW s \in Segments
  PROVE  /\ s.x \in Int /\ s.y \in Int /\ s.dx \in Int /\ s.dy \in Int
         /\ s.type \in {"H", "V", "Q"}
         /\ s.type = "H" => s.dx \in Lengths /\ s.dy = 0 /\ s.control = <<>>
         /\ s.type = "V" => s.dy \in Lengths /\ s.dx = 0 /\ s.control = <<>>
BY DEF Segments, Lengths

\* Lengths are added, and so are the numbers of their pieces.
LEMMA PiecesAdd ==
  ASSUME NEW a \in Lengths, NEW b \in Lengths
  PROVE  /\ a + b \in Lengths
         /\ a \div 5 \in Nat /\ b \div 5 \in Nat
         /\ a = 5 * (a \div 5)
         /\ (a + b) \div 5 = a \div 5 + b \div 5
BY DEF Lengths

LEMMA InkOfH ==
  ASSUME NEW s \in Segments, s.type = "H"
  PROVE  Ink(s) = {<<"H", s.x + 5 * k, s.y>> : k \in 0..s.dx \div 5 - 1}
BY DEF Ink

LEMMA InkOfV ==
  ASSUME NEW s \in Segments, s.type = "V"
  PROVE  Ink(s) = {<<"V", s.x, s.y + 5 * k>> : k \in 0..s.dy \div 5 - 1}
BY DEF Ink

\* What a segment becomes when another one is appended to it.
Longer(s, t) == [s EXCEPT !.dx = @ + t.dx, !.dy = @ + t.dy]

Continues(s, t) == s.type # "Q" /\ t.type = s.type /\ Begins(t) = Ends(s)

LEMMA LongerIsBoth ==
  ASSUME NEW s \in Segments, NEW t \in Segments, Continues(s, t)
  PROVE  /\ Longer(s, t) \in Segments
         /\ Longer(s, t).type = s.type
         /\ Begins(Longer(s, t)) = Begins(s)
         /\ Ends(Longer(s, t)) = Ends(t)
         /\ Ink(Longer(s, t)) = Ink(s) \union Ink(t)
<1> DEFINE l == Longer(s, t)
<1>1. /\ s.x \in Int /\ s.y \in Int /\ s.dx \in Int /\ s.dy \in Int
      /\ t.x \in Int /\ t.y \in Int /\ t.dx \in Int /\ t.dy \in Int
      /\ t.x = s.x + s.dx /\ t.y = s.y + s.dy
      /\ t.type = s.type
  BY SegmentKinds DEF Continues, Begins, Ends
<1>2. /\ l.type = s.type /\ l.x = s.x /\ l.y = s.y /\ l.control = s.control
      /\ l.dx = s.dx + t.dx /\ l.dy = s.dy + t.dy
      /\ l = [type |-> s.type, x |-> s.x, y |-> s.y, dx |-> s.dx + t.dx, dy |-> s.dy + t.dy,
              control |-> s.control]
  <2>1. s = [type |-> s.type, x |-> s.x, y |-> s.y, dx |-> s.dx, dy |-> s.dy, control |-> s.control]
    BY DEF Segments
  <2>2. l = [[type |-> s.type, x |-> s.x, y |-> s.y, dx |-> s.dx, dy |-> s.dy, control |-> s.control]
              EXCEPT !.dx = s.dx + t.dx, !.dy = s.dy + t.dy]
    BY <2>1, Zenon DEF Longer
  <2>3. l = [type |-> s.type, x |-> s.x, y |-> s.y, dx |-> s.dx + t.dx, dy |-> s.dy + t.dy,
             control |-> s.control]
    BY <2>2
  <2> QED
    BY <2>3
<1> HIDE DEF l
<1>3. Begins(l) = Begins(s) /\ Ends(l) = Ends(t)
  BY <1>1, <1>2 DEF Begins, Ends
<1>4. CASE s.type = "H"
  <2>1. /\ s.dx \in Lengths /\ t.dx \in Lengths /\ s.dy = 0 /\ t.dy = 0 /\ s.control = <<>>
    BY <1>1, <1>4, SegmentKinds
  <2>2. /\ s.dx + t.dx \in Lengths
        /\ s.dx \div 5 \in Nat /\ t.dx \div 5 \in Nat
        /\ s.dx = 5 * (s.dx \div 5)
        /\ (s.dx + t.dx) \div 5 = s.dx \div 5 + t.dx \div 5
    BY <2>1, PiecesAdd
  <2>3. l \in Segments
    BY <1>1, <1>2, <1>4, <2>1, <2>2 DEF Segments
  <2>4. PICK u \in Nat, v \in Nat :
          /\ s.dx = 5 * u /\ s.dx \div 5 = u /\ t.dx \div 5 = v /\ l.dx \div 5 = u + v
    BY <1>2, <2>2
  <2>5. /\ Ink(s) = {<<"H", s.x + 5 * k, s.y>> : k \in 0..u - 1}
        /\ Ink(t) = {<<"H", t.x + 5 * k, t.y>> : k \in 0..v - 1}
        /\ Ink(l) = {<<"H", l.x + 5 * k, l.y>> : k \in 0..(u + v) - 1}
    BY <1>1, <1>2, <1>4, <2>3, <2>4, InkOfH
  <2>6. /\ t.x = s.x + 5 * u /\ t.y = s.y
        /\ l.x = s.x /\ l.y = s.y
    <3>1. s.dx = 5 * u
      BY <2>4
    <3>2. t.x = s.x + 5 * u
      BY <1>1, <3>1
    <3>3. t.y = s.y
      BY <1>1, <2>1
    <3> QED
      BY <1>2, <3>2, <3>3
  <2>7. ASSUME NEW k \in 0..(u + v) - 1
        PROVE  <<"H", s.x + 5 * k, s.y>> \in Ink(s) \union Ink(t)
    <3>1. CASE k < u
      BY <2>5, <3>1
    <3>2. CASE k >= u
      <4>1. k - u \in 0..v - 1 /\ t.x + 5 * (k - u) = s.x + 5 * k
        BY <1>1, <2>6, <3>2
      <4> QED
        BY <2>5, <2>6, <4>1
    <3> QED
      BY <3>1, <3>2
  <2>8. ASSUME NEW k \in 0..u - 1
        PROVE  <<"H", s.x + 5 * k, s.y>> \in Ink(l)
    BY <2>5, <2>6
  <2>9. ASSUME NEW k \in 0..v - 1
        PROVE  <<"H", t.x + 5 * k, t.y>> \in Ink(l)
    <3>1. u + k \in 0..(u + v) - 1 /\ l.x + 5 * (u + k) = t.x + 5 * k
      BY <1>1, <2>6
    <3> QED
      BY <2>5, <2>6, <3>1
  <2>10. Ink(l) = Ink(s) \union Ink(t)
    <3>1. Ink(l) \subseteq Ink(s) \union Ink(t)
      BY <2>5, <2>6, <2>7
    <3>2. Ink(s) \subseteq Ink(l)
      BY <2>5, <2>8
    <3>3. Ink(t) \subseteq Ink(l)
      BY <2>5, <2>9
    <3> QED
      BY <3>1, <3>2, <3>3
  <2> QED
    BY <1>2, <1>3, <2>3, <2>10 DEF l
<1>5. CASE s.type = "V"
  <2>1. /\ s.dy \in Lengths /\ t.dy \in Lengths /\ s.dx = 0 /\ t.dx = 0 /\ s.control = <<>>
    BY <1>1, <1>5, SegmentKinds
  <2>2. /\ s.dy + t.dy \in Lengths
        /\ s.dy \div 5 \in Nat /\ t.dy \div 5 \in Nat
        /\ s.dy = 5 * (s.dy \div 5)
        /\ (s.dy + t.dy) \div 5 = s.dy \div 5 + t.dy \div 5
    BY <2>1, PiecesAdd
  <2>3. l \in Segments
    BY <1>1, <1>2, <1>5, <2>1, <2>2 DEF Segments
  <2>4. PICK u \in Nat, v \in Nat :
          /\ s.dy = 5 * u /\ s.dy \div 5 = u /\ t.dy \div 5 = v /\ l.dy \div 5 = u + v
    BY <1>2, <2>2
  <2>5. /\ Ink(s) = {<<"V", s.x, s.y + 5 * k>> : k \in 0..u - 1}
        /\ Ink(t) = {<<"V", t.x, t.y + 5 * k>> : k \in 0..v - 1}
        /\ Ink(l) = {<<"V", l.x, l.y + 5 * k>> : k \in 0..(u + v) - 1}
    BY <1>1, <1>2, <1>5, <2>3, <2>4, InkOfV
  <2>6. /\ t.y = s.y + 5 * u /\ t.x = s.x
        /\ l.x = s.x /\ l.y = s.y
    <3>1. s.dy = 5 * u
      BY <2>4
    <3>2. t.y = s.y + 5 * u
      BY <1>1, <3>1
    <3>3. t.x = s.x
      BY <1>1, <2>1
    <3> QED
      BY <1>2, <3>2, <3>3
  <2>7. ASSUME NEW k \in 0..(u + v) - 1
        PROVE  <<"V", s.x, s.y + 5 * k>> \in Ink(s) \union Ink(t)
    <3>1. CASE k < u
      BY <2>5, <3>1
    <3>2. CASE k >= u
      <4>1. k - u \in 0..v - 1 /\ t.y + 5 * (k - u) = s.y + 5 * k
        BY <1>1, <2>6, <3>2
      <4> QED
        BY <2>5, <2>6, <4>1
    <3> QED
      BY <3>1, <3>2
  <2>8. ASSUME NEW k \in 0..u - 1
        PROVE  <<"V", s.x, s.y + 5 * k>> \in Ink(l)
    BY <2>5, <2>6
  <2>9. ASSUME NEW k \in 0..v - 1
        PROVE  <<"V", t.x, t.y + 5 * k>> \in Ink(l)
    <3>1. u + k \in 0..(u + v) - 1 /\ l.y + 5 * (u + k) = t.y + 5 * k
      BY <1>1, <2>6
    <3> QED
      BY <2>5, <2>6, <3>1
  <2>10. Ink(l) = Ink(s) \union Ink(t)
    <3>1. Ink(l) \subseteq Ink(s) \union Ink(t)
      BY <2>5, <2>6, <2>7
    <3>2. Ink(s) \subseteq Ink(l)
      BY <2>5, <2>8
    <3>3. Ink(t) \subseteq Ink(l)
      BY <2>5, <2>9
    <3> QED
      BY <3>1, <3>2, <3>3
  <2> QED
    BY <1>2, <1>3, <2>3, <2>10 DEF l
<1>6. s.type \in {"H", "V"}
  BY SegmentKinds DEF Continues
<1> QED
  BY <1>4, <1>5, <1>6

\* Ink is in the list while a segment with it is.
LEMMA InkOfList ==
  ASSUME NEW s, NEW z
  PROVE  z \in InkOf(s) <=> \E i \in DOMAIN s : z \in Ink(s[i])
BY DEF InkOf

LEMMA RemoveAtInk ==
  ASSUME NEW s \in Seq(Segments), NEW i \in DOMAIN s
  PROVE  InkOf(s) = InkOf(RemoveAt(s, i)) \union Ink(s[i])
<1>1. ASSUME NEW z \in InkOf(s)
      PROVE  z \in InkOf(RemoveAt(s, i)) \union Ink(s[i])
  <2>1. PICK j \in DOMAIN s : z \in Ink(s[j])
    BY <1>1, InkOfList
  <2>2. CASE j # i
    <3>1. PICK k \in DOMAIN RemoveAt(s, i) : RemoveAt(s, i)[k] = s[j]
      BY <2>2, RemoveAtKeeps
    <3> QED
      BY <2>1, <3>1, InkOfList
  <2> QED
    BY <2>1, <2>2
<1>2. ASSUME NEW z \in InkOf(RemoveAt(s, i))
      PROVE  z \in InkOf(s)
  <2>1. PICK k \in DOMAIN RemoveAt(s, i) : z \in Ink(RemoveAt(s, i)[k])
    BY <1>2, InkOfList
  <2>2. PICK j \in DOMAIN s : RemoveAt(s, i)[k] = s[j]
    BY RemoveAtKeeps
  <2> QED
    BY <2>1, <2>2, InkOfList
<1>3. ASSUME NEW z \in Ink(s[i])
      PROVE  z \in InkOf(s)
  BY <1>3, InkOfList
<1> QED
  BY <1>1, <1>2, <1>3

(***************************************************************************)
(* Merging: the segment appended goes, and the other one has its ink.      *)
(***************************************************************************)
LEMMA MergeFacts ==
  ASSUME NEW s \in Seq(Segments), NEW i \in DOMAIN s, NEW j \in DOMAIN s \ {i},
         Continues(s[i], s[j])
  PROVE  /\ Merge(s, i, j) = RemoveAt([s EXCEPT ![i] = Longer(s[i], s[j])], j)
         /\ [s EXCEPT ![i] = Longer(s[i], s[j])] \in Seq(Segments)
         /\ Merge(s, i, j) \in Seq(Segments)
         /\ Len(Merge(s, i, j)) = Len(s) - 1
         /\ InkOf(Merge(s, i, j)) = InkOf(s)
<1> DEFINE l == Longer(s[i], s[j])
           m == [s EXCEPT ![i] = l]
<1>1. s[i] \in Segments /\ s[j] \in Segments
  BY ElementOfSeq
<1>2. /\ l \in Segments
      /\ Ink(l) = Ink(s[i]) \union Ink(s[j])
  BY <1>1, LongerIsBoth
<1>3. [s EXCEPT ![i].dx = @ + s[j].dx, ![i].dy = @ + s[j].dy] = m
  BY DEF Longer
<1>4. Merge(s, i, j) = RemoveAt(m, j)
  BY <1>3 DEF Merge
<1> HIDE DEF l
<1>5. /\ m \in Seq(Segments) /\ Len(m) = Len(s) /\ DOMAIN m = DOMAIN s
      /\ m[i] = l
      /\ \A k \in DOMAIN s \ {i} : m[k] = s[k]
  BY <1>2, ExceptSeq
<1> HIDE DEF m
<1>6. /\ RemoveAt(m, j) \in Seq(Segments) /\ Len(RemoveAt(m, j)) = Len(s) - 1
      /\ InkOf(m) = InkOf(RemoveAt(m, j)) \union Ink(s[j])
  <2>1. m \in Seq(Segments) /\ j \in DOMAIN m
    BY <1>5
  <2>2. RemoveAt(m, j) \in Seq(Segments) /\ Len(RemoveAt(m, j)) = Len(m) - 1
    BY <2>1, RemoveAtFacts
  <2>3. InkOf(m) = InkOf(RemoveAt(m, j)) \union Ink(m[j])
    BY <2>1, RemoveAtInk
  <2>4. Len(m) = Len(s) /\ m[j] = s[j]
    BY <1>5
  <2> QED
    BY <2>2, <2>3, <2>4
<1>7. InkOf(RemoveAt(m, j)) = InkOf(m)
  <2>1. PICK k \in DOMAIN RemoveAt(m, j) : RemoveAt(m, j)[k] = m[i]
    <3>1. j \in DOMAIN m /\ i \in DOMAIN m \ {j}
      BY <1>5
    <3>2. \A n \in DOMAIN m \ {j} : \E k \in DOMAIN RemoveAt(m, j) : RemoveAt(m, j)[k] = m[n]
      BY <1>5, <3>1, RemoveAtKeeps
    <3> QED
      BY <3>1, <3>2
  <2>2. Ink(s[j]) \subseteq InkOf(RemoveAt(m, j))
    BY <2>1, <1>2, <1>5, InkOfList
  <2> QED
    BY <1>6, <2>2
<1>8. ASSUME NEW z
      PROVE  z \in InkOf(m) <=> z \in InkOf(s)
  <2>1. ASSUME NEW k \in DOMAIN s, z \in Ink(m[k])
        PROVE  \E n \in DOMAIN s : z \in Ink(s[n])
    BY <1>2, <1>5, <2>1
  <2>2. ASSUME NEW k \in DOMAIN s, z \in Ink(s[k])
        PROVE  \E n \in DOMAIN s : z \in Ink(m[n])
    BY <1>2, <1>5, <2>2
  <2> QED
    BY <1>5, <2>1, <2>2, InkOfList
<1>9. InkOf(m) = InkOf(s)
  BY <1>8
<1> QED
  BY <1>4, <1>5, <1>6, <1>7, <1>9 DEF m, l

(***************************************************************************)
(* Searching.                                                              *)
(***************************************************************************)
LEMMA MergeableFacts ==
  ASSUME NEW s \in Seq(Segments), NEW i \in DOMAIN s, s[i].type # "Q"
  PROVE  /\ FindMergeable(s, i) # None =>
              /\ FindMergeable(s, i) \in DOMAIN s \ {i}
              /\ Continues(s[i], s[FindMergeable(s, i)])
         /\ FindMergeable(s, i) = None => \A j \in DOMAIN s \ {i} : ~Continues(s[i], s[j])
<1> DEFINE found == {j \in DOMAIN s \ {i} : Begins(s[j]) = Ends(s[i]) /\ s[j].type = s[i].type}
<1>1. FindMergeable(s, i) = IF found = {} THEN None ELSE Min(found)
  BY DEF FindMergeable
<1>2. \A j \in DOMAIN s \ {i} : Continues(s[i], s[j]) <=> j \in found
  BY DEF Continues
<1>3. found \in SUBSET (1..Len(s)) /\ Len(s) \in Nat /\ found \subseteq DOMAIN s \ {i}
  OBVIOUS
<1> HIDE DEF found
<1>4. CASE found = {}
  BY <1>1, <1>2, <1>4 DEF None
<1>5. CASE found # {}
  <2>1. Min(found) \in found
    BY <1>3, <1>5, FirstExists
  <2>2. Min(found) \in 1..Len(s)
    BY <1>3, <2>1
  <2>3. FindMergeable(s, i) = Min(found) /\ Min(found) # None
    BY <1>1, <1>5, <1>3, <2>2 DEF None
  <2> QED
    BY <1>2, <1>3, <2>1, <2>3
<1> QED
  BY <1>4, <1>5

LEMMA FollowingFacts ==
  ASSUME NEW s \in Seq(Segments), NEW at, FindFollowing(s, at) # None
  PROVE  FindFollowing(s, at) \in DOMAIN s /\ Begins(s[FindFollowing(s, at)]) = at
<1> DEFINE found == {j \in DOMAIN s : Begins(s[j]) = at}
<1>1. found # {} /\ FindFollowing(s, at) = Min(found)
  BY DEF FindFollowing
<1>2. found \in SUBSET (1..Len(s)) /\ Len(s) \in Nat
  OBVIOUS
<1> HIDE DEF found
<1>3. Min(found) \in found
  BY <1>1, <1>2, FirstExists
<1> QED
  BY <1>1, <1>3 DEF found

LEMMA StartIsThere ==
  ASSUME NEW s \in Seq(Segments), s # <<>>
  PROVE  FindStart(s) \in DOMAIN s
<1> DEFINE starts == {i \in DOMAIN s : ~\E j \in i + 1..Len(s) : Ends(s[j]) = Begins(s[i])}
<1>1. Len(s) \in Nat /\ Len(s) # 0 /\ DOMAIN s = 1..Len(s)
  BY EmptySeq
<1>2. Len(s) \in starts
  BY <1>1
<1>3. starts \in SUBSET (1..Len(s)) /\ starts # {}
  BY <1>1, <1>2
<1>4. FindStart(s) = Min(starts)
  BY DEF FindStart
<1> HIDE DEF starts
<1>5. Min(starts) \in starts
  BY <1>1, <1>3, FirstExists
<1> QED
  BY <1>1, <1>3, <1>4, <1>5

-----------------------------------------------------------------------------
(***************************************************************************)
(* The kinds of the variables, and where the pen is.                       *)
(***************************************************************************)
LastPath    == written[Len(written)]
LastSegment == LastPath[Len(LastPath)]

TypesRight ==
  /\ debug \in BOOLEAN
  /\ drawing \in Drawings
  /\ pc \in {"consolidate", "write", "done"}
  /\ paths \in Seq(Segments)
  /\ p \in Nat \ {0}
  /\ written \in Seq(Seq(Segments))
  /\ pc = "consolidate" => p <= Len(paths) + 1 /\ pen = Up

PenRight ==
  pen # Up =>
    /\ Len(written) > 0
    /\ Len(LastPath) > 0
    /\ pen = Ends(LastSegment)

\* What MergeStep does.
LEMMA MergeStepFacts ==
  ASSUME TypesRight, MergeStep
  PROVE  \E q \in DOMAIN paths \ {p} :
           /\ p \in DOMAIN paths
           /\ Continues(paths[p], paths[q])
           /\ paths' = Merge(paths, p, q)
           /\ p' = IF q < p THEN p - 1 ELSE p
<1>1. p \in DOMAIN paths /\ paths \in Seq(Segments) /\ paths[p].type # "Q"
  BY DEF MergeStep, TypesRight
<1>2. PICK q : /\ q = FindMergeable(paths, p) /\ q # None
               /\ paths' = Merge(paths, p, q)
               /\ p' = IF q < p THEN p - 1 ELSE p
  BY DEF MergeStep
<1>3. q \in DOMAIN paths \ {p} /\ Continues(paths[p], paths[q])
  BY <1>1, <1>2, MergeableFacts
<1> QED
  BY <1>1, <1>2, <1>3

\* What BeginPath does.
LEMMA BeginPathFacts ==
  ASSUME TypesRight, BeginPath
  PROVE  \E i \in DOMAIN paths :
           /\ written' = Append(written, <<paths[i]>>)
           /\ pen' = IF debug THEN Up ELSE Ends(paths[i])
           /\ paths' = RemoveAt(paths, i)
           /\ paths' \in Seq(Segments) /\ Len(paths') = Len(paths) - 1
           /\ paths[i] \in Segments
<1>1. paths \in Seq(Segments) /\ paths # <<>>
  BY DEF BeginPath, TypesRight
<1>2. FindStart(paths) \in DOMAIN paths
  BY <1>1, StartIsThere
<1>3. PICK i \in DOMAIN paths :
        /\ written' = Append(written, <<paths[i]>>)
        /\ pen' = IF debug THEN Up ELSE Ends(paths[i])
        /\ paths' = RemoveAt(paths, i)
  BY <1>2 DEF BeginPath
<1>4. paths' \in Seq(Segments) /\ Len(paths') = Len(paths) - 1 /\ paths[i] \in Segments
  BY <1>1, <1>3, RemoveAtFacts, ElementOfSeq
<1> QED
  BY <1>3, <1>4

\* What Continue does.
LEMMA ContinueFacts ==
  ASSUME TypesRight, PenRight, Continue
  PROVE  \E i \in DOMAIN paths :
           /\ Begins(paths[i]) = pen
           /\ Len(written) > 0 /\ Len(LastPath) > 0 /\ pen = Ends(LastSegment)
           /\ LastPath \in Seq(Segments)
           /\ written' = [written EXCEPT ![Len(written)] = Append(LastPath, paths[i])]
           /\ pen' = Ends(paths[i])
           /\ paths' = RemoveAt(paths, i)
           /\ paths' \in Seq(Segments) /\ Len(paths') = Len(paths) - 1
           /\ paths[i] \in Segments
<1>1. paths \in Seq(Segments) /\ written \in Seq(Seq(Segments))
  BY DEF TypesRight
<1>2. Len(written) > 0 /\ Len(LastPath) > 0 /\ pen = Ends(LastSegment)
  BY DEF Continue, PenRight
<1>3. LastPath \in Seq(Segments)
  BY <1>1, <1>2, ElementOfSeq DEF LastPath
<1>4. FindFollowing(paths, pen) # None
  BY DEF Continue
<1>5. FindFollowing(paths, pen) \in DOMAIN paths /\ Begins(paths[FindFollowing(paths, pen)]) = pen
  BY <1>1, <1>4, FollowingFacts
<1>6. PICK i \in DOMAIN paths :
        /\ Begins(paths[i]) = pen
        /\ written' = [written EXCEPT ![Len(written)] = Append(LastPath, paths[i])]
        /\ pen' = Ends(paths[i])
        /\ paths' = RemoveAt(paths, i)
  BY <1>5 DEF Continue, LastPath
<1>7. paths' \in Seq(Segments) /\ Len(paths') = Len(paths) - 1 /\ paths[i] \in Segments
  BY <1>1, <1>6, RemoveAtFacts, ElementOfSeq
<1> QED
  BY <1>2, <1>3, <1>6, <1>7

LEMMA TypesInit == Init => TypesRight /\ PenRight
BY SvgRuleAssumption DEF Init, TypesRight, PenRight, Up

LEMMA TypesStep == TypesRight /\ PenRight /\ [Next]_vars => TypesRight' /\ PenRight'
<1> SUFFICES ASSUME TypesRight, PenRight, [Next]_vars
             PROVE  TypesRight' /\ PenRight'
  OBVIOUS
<1>1. CASE MergeStep
  <2>1. PICK q \in DOMAIN paths \ {p} :
           /\ p \in DOMAIN paths
           /\ Continues(paths[p], paths[q])
           /\ paths' = Merge(paths, p, q)
           /\ p' = IF q < p THEN p - 1 ELSE p
    BY <1>1, MergeStepFacts
  <2>2. paths' \in Seq(Segments) /\ Len(paths') = Len(paths) - 1
    BY <2>1, MergeFacts DEF TypesRight
  <2>3. p' \in Nat \ {0} /\ p' <= Len(paths') + 1
    <3>1. DOMAIN paths = 1..Len(paths) /\ Len(paths) \in Nat
      BY DEF TypesRight
    <3> QED
      BY <2>1, <2>2, <3>1
  <2>4. UNCHANGED <<debug, drawing, pc, pen, written>>
    BY <1>1 DEF MergeStep
  <2>5. TypesRight'
    BY <2>2, <2>3, <2>4 DEF TypesRight, Up
  <2> QED
    BY <2>4, <2>5 DEF PenRight, LastSegment, LastPath, Up
<1>2. CASE NextSegment
  <2>1. TypesRight'
    BY <1>2 DEF NextSegment, TypesRight, Up
  <2> QED
    BY <1>2, <2>1 DEF NextSegment, PenRight, LastSegment, LastPath, Up
<1>3. CASE BeginWriting
  BY <1>3 DEF BeginWriting, TypesRight, PenRight, LastSegment, LastPath, Up
<1>4. CASE BeginPath
  <2>1. PICK i \in DOMAIN paths :
           /\ written' = Append(written, <<paths[i]>>)
           /\ pen' = IF debug THEN Up ELSE Ends(paths[i])
           /\ paths' \in Seq(Segments)
           /\ paths[i] \in Segments
    BY <1>4, BeginPathFacts
  <2>2. <<paths[i]>> \in Seq(Segments) /\ written \in Seq(Seq(Segments))
    BY <2>1 DEF TypesRight
  <2>3. /\ written' \in Seq(Seq(Segments)) /\ Len(written') = Len(written) + 1
        /\ written'[Len(written')] = <<paths[i]>>
    BY <2>1, <2>2, AppendProperties
  <2>4. TypesRight'
    BY <1>4, <2>1, <2>3 DEF BeginPath, TypesRight
  <2>5. LastPath' = <<paths[i]>> /\ LastSegment' = paths[i] /\ Len(written') > 0
    BY <2>2, <2>3 DEF LastPath, LastSegment
  <2> QED
    BY <2>1, <2>4, <2>5 DEF PenRight
<1>5. CASE Continue
  <2>1. PICK i \in DOMAIN paths :
           /\ Len(written) > 0
           /\ LastPath \in Seq(Segments)
           /\ written' = [written EXCEPT ![Len(written)] = Append(LastPath, paths[i])]
           /\ pen' = Ends(paths[i])
           /\ paths' \in Seq(Segments)
           /\ paths[i] \in Segments
    BY <1>5, ContinueFacts
  <2>2. /\ Append(LastPath, paths[i]) \in Seq(Segments)
        /\ Len(Append(LastPath, paths[i])) = Len(LastPath) + 1
        /\ Append(LastPath, paths[i])[Len(LastPath) + 1] = paths[i]
    BY <2>1, AppendProperties
  <2>3. written \in Seq(Seq(Segments)) /\ Len(written) \in DOMAIN written
    BY <2>1 DEF TypesRight
  <2>4. /\ written' \in Seq(Seq(Segments)) /\ Len(written') = Len(written)
        /\ written'[Len(written')] = Append(LastPath, paths[i])
    BY <2>1, <2>2, <2>3, ExceptSeq
  <2>5. TypesRight'
    BY <1>5, <2>1, <2>4 DEF Continue, TypesRight
  <2>6. LastPath' = Append(LastPath, paths[i]) /\ LastSegment' = paths[i] /\ Len(LastPath') > 0
    BY <2>1, <2>2, <2>4 DEF LastPath, LastSegment
  <2> QED
    BY <2>1, <2>4, <2>5, <2>6 DEF PenRight
<1>6. CASE EndPath
  BY <1>6 DEF EndPath, TypesRight, PenRight, Up
<1>7. CASE Finish
  BY <1>7 DEF Finish, TypesRight, PenRight, LastSegment, LastPath, Up
<1>8. CASE UNCHANGED vars
  BY <1>8 DEF vars, TypesRight, PenRight, LastSegment, LastPath, Up
<1> QED
  BY <1>1, <1>2, <1>3, <1>4, <1>5, <1>6, <1>7, <1>8 DEF Next, Terminated

-----------------------------------------------------------------------------
(***************************************************************************)
(* Nothing is lost.                                                        *)
(***************************************************************************)
WrittenInk(w) == UNION {InkOf(w[i]) : i \in DOMAIN w}

LEMMA WrittenInkOf ==
  ASSUME NEW w, NEW z
  PROVE  z \in WrittenInk(w) <=> \E i \in DOMAIN w : z \in InkOf(w[i])
BY DEF WrittenInk

LEMMA AppendInk ==
  ASSUME NEW s \in Seq(Segments), NEW t \in Segments
  PROVE  InkOf(Append(s, t)) = InkOf(s) \union Ink(t)
<1> DEFINE a == Append(s, t)
<1>1. /\ DOMAIN a = DOMAIN s \union {Len(s) + 1}
      /\ \A i \in DOMAIN s : a[i] = s[i]
      /\ a[Len(s) + 1] = t
  BY AppendProperties
<1> HIDE DEF a
<1>2. ASSUME NEW z
      PROVE  z \in InkOf(a) <=> z \in InkOf(s) \union Ink(t)
  <2>1. z \in InkOf(a) <=> \E i \in DOMAIN a : z \in Ink(a[i])
    BY InkOfList
  <2>2. z \in InkOf(s) <=> \E i \in DOMAIN s : z \in Ink(s[i])
    BY InkOfList
  <2> QED
    BY <1>1, <2>1, <2>2
<1> QED
  BY <1>2 DEF a

\* A path begun adds the ink of its first segment.
LEMMA BegunInk ==
  ASSUME NEW w \in Seq(Seq(Segments)), NEW t \in Segments
  PROVE  WrittenInk(Append(w, <<t>>)) = WrittenInk(w) \union Ink(t)
<1> DEFINE a == Append(w, <<t>>)
<1>1. <<t>> \in Seq(Segments) /\ DOMAIN <<t>> = {1} /\ <<t>>[1] = t
  OBVIOUS
<1>2. ASSUME NEW z
      PROVE  z \in InkOf(<<t>>) <=> z \in Ink(t)
  BY <1>1, InkOfList
<1>3. /\ DOMAIN a = DOMAIN w \union {Len(w) + 1}
      /\ \A i \in DOMAIN w : a[i] = w[i]
      /\ a[Len(w) + 1] = <<t>>
  BY <1>1, AppendProperties
<1> HIDE DEF a
<1>4. ASSUME NEW z
      PROVE  z \in WrittenInk(a) <=> z \in WrittenInk(w) \union Ink(t)
  <2>1. z \in WrittenInk(a) <=> \E i \in DOMAIN a : z \in InkOf(a[i])
    BY WrittenInkOf
  <2>2. z \in WrittenInk(w) <=> \E i \in DOMAIN w : z \in InkOf(w[i])
    BY WrittenInkOf
  <2> QED
    BY <1>2, <1>3, <2>1, <2>2
<1> QED
  BY <1>4 DEF a

\* So does a path that goes on, with the ink of the next one.
LEMMA ContinuedInk ==
  ASSUME NEW w \in Seq(Seq(Segments)), NEW t \in Segments, Len(w) > 0
  PROVE  WrittenInk([w EXCEPT ![Len(w)] = Append(w[Len(w)], t)]) = WrittenInk(w) \union Ink(t)
<1> DEFINE n == Len(w)
           a == [w EXCEPT ![n] = Append(w[n], t)]
<1>1. n \in DOMAIN w /\ w[n] \in Seq(Segments)
  BY ElementOfSeq
<1>2. InkOf(Append(w[n], t)) = InkOf(w[n]) \union Ink(t)
  BY <1>1, AppendInk
<1>3. /\ DOMAIN a = DOMAIN w
      /\ a[n] = Append(w[n], t)
      /\ \A i \in DOMAIN w \ {n} : a[i] = w[i]
  BY <1>1
<1> HIDE DEF a, n
<1>4. ASSUME NEW z
      PROVE  z \in WrittenInk(a) <=> z \in WrittenInk(w) \union Ink(t)
  <2>1. z \in WrittenInk(a) <=> \E i \in DOMAIN w : z \in InkOf(a[i])
    BY <1>3, WrittenInkOf
  <2>2. z \in WrittenInk(w) <=> \E i \in DOMAIN w : z \in InkOf(w[i])
    BY WrittenInkOf
  <2>3. ASSUME NEW i \in DOMAIN w
        PROVE  z \in InkOf(a[i]) <=> z \in InkOf(w[i]) \/ (i = n /\ z \in Ink(t))
    BY <1>2, <1>3
  <2> QED
    BY <1>1, <2>1, <2>2, <2>3
<1> QED
  BY <1>4 DEF a, n

InkInv == InkOf(paths) \union WrittenInk(written) = InkOf(drawing.paths)

ConnectedInv == \A i \in DOMAIN written : Connected(written[i])

LEMMA InkInit == Init => InkInv
<1> SUFFICES ASSUME Init
             PROVE  InkInv
  OBVIOUS
<1>1. WrittenInk(written) = {}
  BY DEF Init, WrittenInk
<1> QED
  BY <1>1 DEF Init, InkInv

LEMMA InkStep == TypesRight /\ PenRight /\ InkInv /\ [Next]_vars => InkInv'
<1> SUFFICES ASSUME TypesRight, PenRight, InkInv, [Next]_vars
             PROVE  InkInv'
  OBVIOUS
<1>1. CASE MergeStep
  <2>1. PICK q \in DOMAIN paths \ {p} :
           p \in DOMAIN paths /\ Continues(paths[p], paths[q]) /\ paths' = Merge(paths, p, q)
    BY <1>1, MergeStepFacts
  <2>2. InkOf(paths') = InkOf(paths)
    BY <2>1, MergeFacts DEF TypesRight
  <2>3. UNCHANGED <<drawing, written>>
    BY <1>1 DEF MergeStep
  <2> QED
    BY <2>2, <2>3 DEF InkInv
<1>2. CASE UNCHANGED <<drawing, paths, written>>
  BY <1>2 DEF InkInv
<1>3. CASE BeginPath
  <2>1. PICK i \in DOMAIN paths :
           /\ written' = Append(written, <<paths[i]>>)
           /\ paths' = RemoveAt(paths, i)
           /\ paths[i] \in Segments
    BY <1>3, BeginPathFacts
  <2>2. WrittenInk(written') = WrittenInk(written) \union Ink(paths[i])
    BY <2>1, BegunInk DEF TypesRight
  <2>3. InkOf(paths) = InkOf(paths') \union Ink(paths[i])
    BY <2>1, RemoveAtInk DEF TypesRight
  <2>4. UNCHANGED drawing
    BY <1>3 DEF BeginPath
  <2> QED
    BY <2>2, <2>3, <2>4 DEF InkInv
<1>4. CASE Continue
  <2>1. PICK i \in DOMAIN paths :
           /\ Len(written) > 0
           /\ written' = [written EXCEPT ![Len(written)] = Append(LastPath, paths[i])]
           /\ paths' = RemoveAt(paths, i)
           /\ paths[i] \in Segments
    BY <1>4, ContinueFacts
  <2>2. WrittenInk(written') = WrittenInk(written) \union Ink(paths[i])
    BY <2>1, ContinuedInk DEF TypesRight, LastPath
  <2>3. InkOf(paths) = InkOf(paths') \union Ink(paths[i])
    BY <2>1, RemoveAtInk DEF TypesRight
  <2>4. UNCHANGED drawing
    BY <1>4 DEF Continue
  <2> QED
    BY <2>2, <2>3, <2>4 DEF InkInv
<1> QED
  BY <1>1, <1>2, <1>3, <1>4
     DEF Next, NextSegment, BeginWriting, EndPath, Finish, Terminated, vars

LEMMA ConnectedStep == TypesRight /\ PenRight /\ ConnectedInv /\ [Next]_vars => ConnectedInv'
<1> SUFFICES ASSUME TypesRight, PenRight, ConnectedInv, [Next]_vars
             PROVE  ConnectedInv'
  OBVIOUS
<1>1. CASE UNCHANGED written
  BY <1>1 DEF ConnectedInv
<1>2. CASE BeginPath
  <2>1. PICK i \in DOMAIN paths : written' = Append(written, <<paths[i]>>) /\ paths[i] \in Segments
    BY <1>2, BeginPathFacts
  <2>2. /\ DOMAIN written' = DOMAIN written \union {Len(written) + 1}
        /\ \A n \in DOMAIN written : written'[n] = written[n]
        /\ written'[Len(written) + 1] = <<paths[i]>>
    <3>1. written \in Seq(Seq(Segments)) /\ <<paths[i]>> \in Seq(Segments)
      BY <2>1 DEF TypesRight
    <3> QED
      BY <2>1, <3>1, AppendProperties
  <2>3. Connected(<<paths[i]>>)
    BY DEF Connected
  <2> QED
    BY <2>2, <2>3 DEF ConnectedInv
<1>3. CASE Continue
  <2>1. PICK i \in DOMAIN paths :
           /\ Begins(paths[i]) = pen
           /\ Len(written) > 0 /\ Len(LastPath) > 0 /\ pen = Ends(LastSegment)
           /\ LastPath \in Seq(Segments)
           /\ written' = [written EXCEPT ![Len(written)] = Append(LastPath, paths[i])]
           /\ paths[i] \in Segments
    BY <1>3, ContinueFacts
  <2> DEFINE a == Append(LastPath, paths[i])
  <2>2. /\ Len(a) = Len(LastPath) + 1
        /\ \A k \in 1..Len(LastPath) : a[k] = LastPath[k]
        /\ a[Len(LastPath) + 1] = paths[i]
    BY <2>1, AppendProperties
  <2>3. Len(written) \in DOMAIN written /\ Len(LastPath) \in Nat
    BY <2>1 DEF TypesRight
  <2>4. \A k \in 2..Len(LastPath) : Begins(LastPath[k]) = Ends(LastPath[k - 1])
    BY <2>3 DEF ConnectedInv, Connected, LastPath
  <2> HIDE DEF a
  <2>5. ASSUME NEW k \in 2..Len(a)
        PROVE  Begins(a[k]) = Ends(a[k - 1])
    <3>1. CASE k = Len(a)
      <4>1. a[k] = paths[i] /\ a[k - 1] = LastSegment
        BY <2>1, <2>2, <2>3, <3>1 DEF LastSegment
      <4> QED
        BY <2>1, <4>1
    <3>2. CASE k # Len(a)
      <4>1. k \in 2..Len(LastPath) /\ k \in 1..Len(LastPath) /\ k - 1 \in 1..Len(LastPath)
        BY <2>2, <2>3, <3>2
      <4> QED
        BY <2>2, <2>4, <4>1
    <3> QED
      BY <3>1, <3>2
  <2>6. Connected(a)
    BY <2>5 DEF Connected
  <2>7. /\ DOMAIN written' = DOMAIN written
        /\ \A n \in DOMAIN written : written'[n] = IF n = Len(written) THEN a ELSE written[n]
    BY <2>1, <2>3 DEF TypesRight, a
  <2> QED
    BY <2>6, <2>7 DEF ConnectedInv
<1> QED
  BY <1>1, <1>2, <1>3
     DEF Next, MergeStep, NextSegment, BeginWriting, EndPath, Finish, Terminated, vars

(***************************************************************************)
(* Whatever has been drawn, consolidating its segments and writing them    *)
(* lose no piece of the track, add none, and put none elsewhere.           *)
(***************************************************************************)
THEOREM InkStays == Spec => []NothingLost
<1> DEFINE Inv == TypesRight /\ PenRight /\ InkInv /\ ConnectedInv
<1>1. Init => Inv
  <2>1. Init => ConnectedInv
    BY DEF Init, ConnectedInv
  <2> QED
    BY <2>1, TypesInit, InkInit
<1>2. Inv /\ [Next]_vars => Inv'
  BY TypesStep, InkStep, ConnectedStep
<1>3. Inv => NothingLost
  BY DEF InkInv, ConnectedInv, NothingLost, WrittenInk
<1> QED
  BY <1>1, <1>2, <1>3, PTL DEF Spec

-----------------------------------------------------------------------------
(***************************************************************************)
(* Consolidating is complete.  Nothing continues a segment that p has      *)
(* passed: it has been looked for, and merging later segments changes      *)
(* neither where a segment of the list begins nor what it is, unless it is *)
(* removed.                                                                *)
(***************************************************************************)
Alone(s, i) == \A j \in DOMAIN s \ {i} : ~Continues(s[i], s[j])

PassedAlone == pc = "consolidate" => \A i \in DOMAIN paths : i < p => Alone(paths, i)

AllAlone == pc # "consolidate" => \A i \in DOMAIN paths : Alone(paths, i)

PathAlone == pen # Up => \A j \in DOMAIN paths : ~Continues(LastSegment, paths[j])

TidyPath(path) == \A k \in 2..Len(path) : ~Continues(path[k - 1], path[k])

TidyPaths == \A n \in DOMAIN written : TidyPath(written[n])

\* What is alone stays so when another segment is removed.
LEMMA AloneStays ==
  ASSUME NEW s \in Seq(Segments), NEW i \in DOMAIN s, NEW k \in DOMAIN RemoveAt(s, i),
         \A j \in DOMAIN s : (j = IF k < i THEN k ELSE k + 1) => Alone(s, j)
  PROVE  Alone(RemoveAt(s, i), k)
<1> DEFINE r == RemoveAt(s, i)
<1>1. PICK j \in DOMAIN s : r[k] = s[j] /\ j = IF k < i THEN k ELSE k + 1
  BY RemoveAtKeeps
<1>2. Alone(s, j)
  BY <1>1
<1>3. ASSUME NEW m \in DOMAIN r \ {k}
      PROVE  ~Continues(r[k], r[m])
  <2>1. PICK n \in DOMAIN s : r[m] = s[n] /\ n = IF m < i THEN m ELSE m + 1
    BY RemoveAtKeeps
  <2>2. DOMAIN r \subseteq Int /\ i \in Int
    <3>1. r \in Seq(Segments)
      BY RemoveAtFacts
    <3> QED
      BY <3>1
  <2>3. n # j
    BY <1>1, <2>1, <2>2
  <2> QED
    BY <1>1, <1>2, <2>1, <2>3 DEF Alone
<1> QED
  BY <1>3 DEF Alone

\* A segment that another is appended to is alone to those before as before.
LEMMA AloneWhenMerged ==
  ASSUME NEW s \in Seq(Segments), NEW i \in DOMAIN s, NEW j \in DOMAIN s \ {i},
         Continues(s[i], s[j]),
         NEW k \in DOMAIN s \ {i}, Alone(s, k)
  PROVE  Alone([s EXCEPT ![i] = Longer(s[i], s[j])], k)
<1>1. s[i] \in Segments /\ s[j] \in Segments
  BY ElementOfSeq
<1>2. Longer(s[i], s[j]).type = s[i].type /\ Begins(Longer(s[i], s[j])) = Begins(s[i])
  BY <1>1, LongerIsBoth
<1>3. \A n \in DOMAIN s \ {k} : ~Continues(s[k], s[n])
  BY DEF Alone
<1>4. ~Continues(s[k], Longer(s[i], s[j]))
  BY <1>2, <1>3 DEF Continues
<1> QED
  BY <1>3, <1>4 DEF Alone

LEMMA MergePassedAlone ==
  ASSUME TypesRight, PassedAlone, MergeStep
  PROVE  PassedAlone'
<1>1. PICK q \in DOMAIN paths \ {p} :
         /\ p \in DOMAIN paths
         /\ Continues(paths[p], paths[q])
         /\ paths' = Merge(paths, p, q)
         /\ p' = IF q < p THEN p - 1 ELSE p
  BY MergeStepFacts
<1> DEFINE m == [paths EXCEPT ![p] = Longer(paths[p], paths[q])]
<1>2. paths' = RemoveAt(m, q) /\ m \in Seq(Segments) /\ DOMAIN m = DOMAIN paths
  BY <1>1, MergeFacts DEF TypesRight
<1>3. \A k \in DOMAIN paths : k < p => Alone(m, k)
  <2> SUFFICES ASSUME NEW k \in DOMAIN paths, k < p
               PROVE  Alone(m, k)
    OBVIOUS
  <2>1. paths \in Seq(Segments) /\ DOMAIN paths \subseteq Int
    BY DEF TypesRight
  <2>2. k \in DOMAIN paths \ {p} /\ Alone(paths, k)
    BY <2>1 DEF PassedAlone, MergeStep
  <2> QED
    BY <1>1, <2>1, <2>2, AloneWhenMerged
<1> HIDE DEF m
<1>4. ASSUME NEW k \in DOMAIN paths', k < p'
      PROVE  Alone(paths', k)
  <2>1. k \in Int /\ q \in Int /\ p \in Int
    <3>1. paths' \in Seq(Segments)
      BY <1>1, MergeFacts DEF TypesRight
    <3> QED
      BY <3>1 DEF TypesRight
  <2>2. ASSUME NEW j \in DOMAIN m, j = IF k < q THEN k ELSE k + 1
        PROVE  Alone(m, j)
    <3>1. j < p \/ j = p
      BY <1>1, <1>4, <2>1, <2>2
    <3>2. j < p
      BY <1>1, <1>4, <2>1, <2>2
    <3> QED
      BY <1>2, <1>3, <3>2
  <2> QED
    BY <1>1, <1>2, <2>2, AloneStays
<1> QED
  BY <1>4 DEF PassedAlone

TidyInv == PassedAlone /\ AllAlone /\ PathAlone /\ TidyPaths

LEMMA TidyInit == Init => TidyInv
BY DEF Init, TidyInv, PassedAlone, AllAlone, PathAlone, TidyPaths

\* A segment is removed from the list and written: what remains is alone, and
\* does not continue it.
LEMMA WritingAlone ==
  ASSUME TypesRight, AllAlone, pc = "write", NEW i \in DOMAIN paths, paths' = RemoveAt(paths, i)
  PROVE  /\ \A k \in DOMAIN paths' : Alone(paths', k)
         /\ \A k \in DOMAIN paths' : ~Continues(paths[i], paths'[k])
<1>1. paths \in Seq(Segments) /\ \A k \in DOMAIN paths : Alone(paths, k)
  BY DEF TypesRight, AllAlone
<1>2. \A k \in DOMAIN paths' : Alone(paths', k)
  BY <1>1, AloneStays
<1>3. ASSUME NEW k \in DOMAIN paths'
      PROVE  ~Continues(paths[i], paths'[k])
  <2>1. PICK j \in DOMAIN paths \ {i} : paths'[k] = paths[j]
    BY <1>1, RemoveAtKeeps
  <2> QED
    BY <1>1, <2>1 DEF Alone
<1> QED
  BY <1>2, <1>3

LEMMA TidyStep == TypesRight /\ PenRight /\ TidyInv /\ [Next]_vars => TidyInv'
<1> SUFFICES ASSUME TypesRight, PenRight, TidyInv, [Next]_vars
             PROVE  TidyInv'
  OBVIOUS
<1> USE DEF TidyInv
<1>1. CASE MergeStep
  <2>1. PassedAlone'
    BY <1>1, MergePassedAlone
  <2>2. UNCHANGED <<pc, pen, written>> /\ pc = "consolidate" /\ pen = Up
    BY <1>1 DEF MergeStep, TypesRight
  <2> QED
    BY <2>1, <2>2 DEF AllAlone, PathAlone, TidyPaths
<1>2. CASE NextSegment
  <2>1. UNCHANGED <<pc, pen, paths, written>> /\ pc = "consolidate" /\ pen = Up /\ p' = p + 1
    BY <1>2 DEF NextSegment, TypesRight
  <2>2. p \in DOMAIN paths /\ paths \in Seq(Segments)
    BY <1>2 DEF NextSegment, TypesRight
  <2>3. Alone(paths, p)
    <3>1. CASE paths[p].type = "Q"
      BY <3>1 DEF Alone, Continues
    <3>2. CASE paths[p].type # "Q" /\ FindMergeable(paths, p) = None
      BY <2>2, <3>2, MergeableFacts DEF Alone
    <3> QED
      BY <1>2, <3>1, <3>2 DEF NextSegment
  <2>4. ASSUME NEW i \in DOMAIN paths, i < p + 1
        PROVE  Alone(paths, i)
    <3>1. i < p \/ i = p
      BY <2>2, <2>4
    <3> QED
      BY <2>1, <2>3, <3>1 DEF PassedAlone
  <2>5. PassedAlone'
    BY <2>1, <2>4 DEF PassedAlone
  <2> QED
    BY <2>1, <2>5 DEF AllAlone, PathAlone, TidyPaths
<1>3. CASE BeginWriting
  <2>1. UNCHANGED <<paths, pen, written>> /\ pc = "consolidate" /\ pc' = "write" /\ p > Len(paths)
    BY <1>3 DEF BeginWriting
  <2>2. \A i \in DOMAIN paths : i < p
    BY <2>1 DEF TypesRight
  <2>3. AllAlone'
    BY <2>1, <2>2 DEF AllAlone, PassedAlone
  <2>4. pen = Up
    BY <2>1 DEF TypesRight
  <2> QED
    BY <2>1, <2>3, <2>4 DEF PassedAlone, PathAlone, TidyPaths
<1>4. CASE BeginPath
  <2>1. PICK i \in DOMAIN paths :
           /\ written' = Append(written, <<paths[i]>>)
           /\ paths' = RemoveAt(paths, i)
           /\ paths[i] \in Segments
    BY <1>4, BeginPathFacts
  <2>2. pc = "write" /\ pc' = "write"
    BY <1>4 DEF BeginPath
  <2>3. /\ \A k \in DOMAIN paths' : Alone(paths', k)
        /\ \A k \in DOMAIN paths' : ~Continues(paths[i], paths'[k])
    BY <2>1, <2>2, WritingAlone
  <2>4. written \in Seq(Seq(Segments)) /\ <<paths[i]>> \in Seq(Segments)
    BY <2>1 DEF TypesRight
  <2>5. /\ DOMAIN written' = DOMAIN written \union {Len(written) + 1}
        /\ Len(written') = Len(written) + 1
        /\ \A n \in DOMAIN written : written'[n] = written[n]
        /\ written'[Len(written) + 1] = <<paths[i]>>
    BY <2>1, <2>4, AppendProperties
  <2>6. LastPath' = <<paths[i]>> /\ LastSegment' = paths[i]
    BY <2>4, <2>5 DEF LastPath, LastSegment
  <2>7. TidyPath(<<paths[i]>>)
    BY DEF TidyPath
  <2>8. TidyPaths'
    BY <2>5, <2>7 DEF TidyPaths
  <2>9. PathAlone'
    BY <2>3, <2>6 DEF PathAlone
  <2> QED
    BY <2>2, <2>3, <2>8, <2>9 DEF PassedAlone, AllAlone
<1>5. CASE Continue
  <2>1. PICK i \in DOMAIN paths :
           /\ Len(written) > 0 /\ Len(LastPath) > 0
           /\ LastPath \in Seq(Segments)
           /\ written' = [written EXCEPT ![Len(written)] = Append(LastPath, paths[i])]
           /\ paths' = RemoveAt(paths, i)
           /\ paths[i] \in Segments
    BY <1>5, ContinueFacts
  <2> DEFINE a == Append(LastPath, paths[i])
  <2>2. pc = "write" /\ pc' = "write" /\ pen # Up
    BY <1>5 DEF Continue
  <2>3. /\ \A k \in DOMAIN paths' : Alone(paths', k)
        /\ \A k \in DOMAIN paths' : ~Continues(paths[i], paths'[k])
    BY <2>1, <2>2, WritingAlone
  <2>4. /\ Len(a) = Len(LastPath) + 1
        /\ \A k \in 1..Len(LastPath) : a[k] = LastPath[k]
        /\ a[Len(LastPath) + 1] = paths[i]
    BY <2>1, AppendProperties
  <2>5. Len(written) \in DOMAIN written /\ Len(LastPath) \in Nat
    BY <2>1 DEF TypesRight
  <2>6. ~Continues(LastSegment, paths[i])
    BY <2>2 DEF PathAlone
  <2>7. \A k \in 2..Len(LastPath) : ~Continues(LastPath[k - 1], LastPath[k])
    BY <2>5 DEF TidyPaths, TidyPath, LastPath
  <2> HIDE DEF a
  <2>8. ASSUME NEW k \in 2..Len(a)
        PROVE  ~Continues(a[k - 1], a[k])
    <3>1. CASE k = Len(a)
      <4>1. a[k] = paths[i] /\ a[k - 1] = LastSegment
        BY <2>1, <2>4, <2>5, <3>1 DEF LastSegment
      <4> QED
        BY <2>6, <4>1
    <3>2. CASE k # Len(a)
      <4>1. k \in 2..Len(LastPath) /\ k \in 1..Len(LastPath) /\ k - 1 \in 1..Len(LastPath)
        BY <2>4, <2>5, <3>2
      <4> QED
        BY <2>4, <2>7, <4>1
    <3> QED
      BY <3>1, <3>2
  <2>9. TidyPath(a)
    BY <2>8 DEF TidyPath
  <2>10. /\ DOMAIN written' = DOMAIN written /\ Len(written') = Len(written)
         /\ \A n \in DOMAIN written : written'[n] = IF n = Len(written) THEN a ELSE written[n]
    BY <2>1, <2>5 DEF TypesRight, a
  <2>11. TidyPaths'
    BY <2>9, <2>10 DEF TidyPaths
  <2>12. LastPath' = a /\ LastSegment' = paths[i]
    BY <2>4, <2>5, <2>10 DEF LastPath, LastSegment
  <2>13. PathAlone'
    BY <2>3, <2>12 DEF PathAlone
  <2> QED
    BY <2>2, <2>3, <2>11, <2>13 DEF PassedAlone, AllAlone
<1>6. CASE EndPath
  BY <1>6 DEF EndPath, PassedAlone, AllAlone, PathAlone, TidyPaths
<1>7. CASE Finish
  BY <1>7 DEF Finish, PassedAlone, AllAlone, PathAlone, TidyPaths
<1>8. CASE UNCHANGED vars
  BY <1>8 DEF vars, PassedAlone, AllAlone, PathAlone, TidyPaths, LastSegment, LastPath
<1> QED
  BY <1>1, <1>2, <1>3, <1>4, <1>5, <1>6, <1>7, <1>8 DEF Next, Terminated

(***************************************************************************)
(* One pass of svg_path_consolidate is enough: no path that is written has *)
(* two lines in a row that continue each other.                            *)
(***************************************************************************)
THEOREM PathsAreTidy == Spec => []Tidy
<1> DEFINE Inv == TypesRight /\ PenRight /\ ConnectedInv /\ TidyInv
<1>1. Init => Inv
  <2>1. Init => ConnectedInv
    BY DEF Init, ConnectedInv
  <2> QED
    BY <2>1, TypesInit, TidyInit
<1>2. Inv /\ [Next]_vars => Inv'
  BY TypesStep, ConnectedStep, TidyStep
<1>3. Inv => Tidy
  <2> SUFFICES ASSUME Inv, NEW i \in DOMAIN written, NEW k \in 2..Len(written[i]),
                      written[i][k].type = written[i][k - 1].type
               PROVE  written[i][k].type = "Q"
    BY DEF Tidy
  <2>1. Begins(written[i][k]) = Ends(written[i][k - 1])
    BY DEF ConnectedInv, Connected
  <2>2. ~Continues(written[i][k - 1], written[i][k])
    BY DEF TidyInv, TidyPaths, TidyPath
  <2> QED
    BY <2>1, <2>2 DEF Continues
<1> QED
  BY <1>1, <1>2, <1>3, PTL DEF Spec

-----------------------------------------------------------------------------
(***************************************************************************)
(* What is left to be done, of the segments in the list, of those before   *)
(* p, and of a path that has been begun.                                   *)
(***************************************************************************)
Left ==
  CASE pc = "consolidate" -> 5 * Len(paths) - p + 3
    [] pc = "write"       -> 2 * Len(paths) + (IF pen = Up THEN 1 ELSE 2)
    [] pc = "done"        -> 0

\* Each step leaves less to do, and none is left in the end.  That one can be
\* taken until then is all that Termination needs besides.
LessIsLeft == Left' < Left /\ {Left, Left'} \subseteq Nat
LeavesLess == [][LessIsLeft]_vars

LEMMA LeftStep == TypesRight /\ PenRight /\ [Next]_vars => [LessIsLeft]_vars
<1> SUFFICES ASSUME TypesRight, PenRight, Next, vars' # vars
             PROVE  Left \in Nat /\ Left' \in Nat /\ Left' < Left
  BY DEF LessIsLeft
<1>0. Len(paths) \in Nat /\ p \in Nat \ {0} /\ (pc = "consolidate" => p <= Len(paths) + 1 /\ pen = Up)
  BY DEF TypesRight
<1>1. CASE MergeStep
  <2>1. PICK q \in DOMAIN paths \ {p} :
           /\ p \in DOMAIN paths
           /\ Continues(paths[p], paths[q])
           /\ paths' = Merge(paths, p, q)
           /\ p' = IF q < p THEN p - 1 ELSE p
    BY <1>1, MergeStepFacts
  <2>2. Len(paths') = Len(paths) - 1
    BY <2>1, MergeFacts DEF TypesRight
  <2>3. DOMAIN paths = 1..Len(paths)
    BY DEF TypesRight
  <2>4. p \in 1..Len(paths) /\ q \in 1..Len(paths) /\ q # p
    BY <2>1, <2>3
  <2>5. p' \in {p, p - 1} /\ (p' = p - 1 => p > 1)
    BY <2>1, <2>4
  <2>6. Left = 5 * Len(paths) - p + 3 /\ Left' = 5 * (Len(paths) - 1) - p' + 3
    BY <1>1, <2>2 DEF MergeStep, Left
  <2>7. Len(paths) >= 2
    BY <2>4, <1>0
  <2> QED
    BY <1>0, <2>4, <2>5, <2>6, <2>7
<1>2. CASE NextSegment
  BY <1>0, <1>2 DEF NextSegment, Left
<1>3. CASE BeginWriting
  BY <1>0, <1>3 DEF BeginWriting, Left
<1>4. CASE BeginPath
  <2>1. Len(paths') = Len(paths) - 1 /\ Len(paths) >= 1
    <3>1. PICK i \in DOMAIN paths : Len(paths') = Len(paths) - 1
      BY <1>4, BeginPathFacts
    <3> QED
      BY <3>1, <1>0 DEF TypesRight
  <2> QED
    BY <1>0, <1>4, <2>1 DEF BeginPath, Left
<1>5. CASE Continue
  <2>1. Len(paths') = Len(paths) - 1 /\ Len(paths) >= 1 /\ pen # Up
    <3>1. PICK i \in DOMAIN paths : Len(paths') = Len(paths) - 1
      BY <1>5, ContinueFacts
    <3> QED
      BY <1>5, <3>1, <1>0 DEF TypesRight, Continue
  <2> QED
    BY <1>0, <1>5, <2>1 DEF Continue, Left
<1>6. CASE EndPath
  BY <1>0, <1>6 DEF EndPath, Left
<1>7. CASE Finish
  BY <1>0, <1>7 DEF Finish, Left
<1>8. CASE Terminated
  BY <1>8 DEF Terminated
<1> QED
  BY <1>1, <1>2, <1>3, <1>4, <1>5, <1>6, <1>7, <1>8 DEF Next

(***************************************************************************)
(* The walks over the list that is being changed come nearer to their end  *)
(* with each turn, whatever lengths the segments have.                     *)
(***************************************************************************)
THEOREM StepsLeaveLess == Spec => LeavesLess
<1>1. Init => TypesRight /\ PenRight
  BY TypesInit
<1>2. (TypesRight /\ PenRight) /\ [Next]_vars => (TypesRight /\ PenRight)'
  BY TypesStep
<1>3. (TypesRight /\ PenRight) /\ [Next]_vars => [LessIsLeft]_vars
  BY LeftStep
<1> QED
  BY <1>1, <1>2, <1>3, PTL DEF Spec, LeavesLess
=============================================================================
