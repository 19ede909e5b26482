---------------------------- MODULE RequestProofs ----------------------------
(***************************************************************************)
(* What a document store of Runtime asks for.  Its pagination keeps the    *)
(* pages connected, for a connection of any length, any size of page and   *)
(* any number of calls; its plugins answer every request, whatever their   *)
(* hooks do and however many there are, and a request is sent with the     *)
(* variables that they left.  The Svelte store that copies it shows it,    *)
(* whoever reads it and however many fetch.                                *)
(***************************************************************************)
EXTENDS Runtime, Integers, FiniteSetTheorems, SequenceTheorems, WellFoundedInduction, TLAPS

(***************************************************************************)
(* Pagination.                                                             *)
(***************************************************************************)

\* The items from s to e, in order.
Run(s, e) == [i \in 1 .. e - s + 1 |-> s + i - 1]

\* A page before the null cursor is the last one.
Edge(c) == IF c = 0 THEN ListLength + 1 ELSE c

\* The items of a page.
From(a) ==
  IF a.forward THEN a.cursor + 1
  ELSE IF Edge(a.cursor) > a.count THEN Edge(a.cursor) - a.count ELSE 1

To(a) ==
  IF ~a.forward THEN Edge(a.cursor) - 1
  ELSE IF a.cursor + a.count < ListLength THEN a.cursor + a.count ELSE ListLength

LEMMA RunIs ==
  ASSUME NEW s \in Nat \ {0}, NEW e \in Nat, s <= e + 1
  PROVE  /\ Run(s, e) \in Seq(s .. e)
         /\ Len(Run(s, e)) = e - s + 1
         /\ DOMAIN Run(s, e) = 1 .. e - s + 1
         /\ \A i \in 1 .. e - s + 1 : Run(s, e)[i] = s + i - 1
         /\ Run(s, e) = <<>> <=> s = e + 1
<1>1. e - s + 1 \in Nat
  OBVIOUS
<1>2. \A i \in 1 .. e - s + 1 : s + i - 1 \in s .. e
  OBVIOUS
<1>3. Run(s, e) \in [1 .. e - s + 1 -> s .. e]
  BY <1>2 DEF Run
<1>4. Run(s, e) \in Seq(s .. e) /\ DOMAIN Run(s, e) = 1 .. e - s + 1
  BY <1>1, <1>3
<1>5. Len(Run(s, e)) = e - s + 1
  BY <1>1, <1>4
<1>6. \A i \in 1 .. e - s + 1 : Run(s, e)[i] = s + i - 1
  BY DEF Run
<1>7. Run(s, e) = <<>> <=> s = e + 1
  BY <1>4, <1>5
<1> QED  BY <1>4, <1>5, <1>6, <1>7

\* What is in a sequence of some things is in a sequence of more.
LEMMA WiderSequence ==
  ASSUME NEW Elem, NEW More, Elem \subseteq More, NEW q \in Seq(Elem)
  PROVE  q \in Seq(More)
OBVIOUS

\* One sequence after another.
LEMMA Joined ==
  ASSUME NEW Elem, NEW p \in Seq(Elem), NEW q \in Seq(Elem)
  PROVE  /\ p \o q \in Seq(Elem) /\ Len(p \o q) = Len(p) + Len(q)
         /\ DOMAIN (p \o q) = 1 .. Len(p) + Len(q)
         /\ p \o q = [i \in 1 .. Len(p) + Len(q) |-> (p \o q)[i]]
         /\ \A i \in 1 .. Len(p) + Len(q) : (p \o q)[i] = IF i <= Len(p) THEN p[i] ELSE q[i - Len(p)]
<1>1. Len(p) \in Nat /\ Len(q) \in Nat
  OBVIOUS
<1>2. p \o q \in Seq(Elem) /\ Len(p \o q) = Len(p) + Len(q)
  OBVIOUS
<1>3. DOMAIN (p \o q) = 1 .. Len(p) + Len(q)
  BY <1>2
<1>4. p \o q = [i \in 1 .. Len(p) + Len(q) |-> (p \o q)[i]]
  <2> DEFINE r == p \o q
  <2>1. r \in Seq(Elem) /\ DOMAIN r = 1 .. Len(p) + Len(q)
    BY <1>2, <1>3
  <2> HIDE DEF r
  <2>2. r = [i \in 1 .. Len(p) + Len(q) |-> r[i]]
    BY ONLY <2>1
  <2> QED  BY <2>2 DEF r
<1>5. \A i \in 1 .. Len(p) + Len(q) : (p \o q)[i] = IF i <= Len(p) THEN p[i] ELSE q[i - Len(p)]
  BY <1>1
<1> QED  BY <1>2, <1>3, <1>4, <1>5

\* One stretch after the other.
LEMMA RunsJoin ==
  ASSUME NEW s \in Nat \ {0}, NEW m \in Nat, NEW e \in Nat, s <= m + 1, m <= e
  PROVE  Run(s, m) \o Run(m + 1, e) = Run(s, e)
<1> DEFINE p == Run(s, m)
           q == Run(m + 1, e)
           r == Run(s, e)
           k == m - s + 1
           n == e - m
<1>1. /\ p \in Seq(s .. m) /\ Len(p) = m - s + 1
      /\ \A i \in 1 .. m - s + 1 : p[i] = s + i - 1
  BY RunIs
<1>2. /\ m + 1 \in Nat \ {0} /\ m + 1 <= e + 1 /\ e - (m + 1) + 1 = e - m
      /\ \A i \in 1 .. e - m : (m + 1) + i - 1 = m + i
  OBVIOUS
<1>3. /\ q \in Seq(m + 1 .. e) /\ Len(q) = e - (m + 1) + 1
      /\ \A i \in 1 .. e - (m + 1) + 1 : q[i] = (m + 1) + i - 1
  BY <1>2, RunIs
<1>4. /\ r \in Seq(s .. e) /\ Len(r) = e - s + 1
      /\ \A i \in 1 .. e - s + 1 : r[i] = s + i - 1
  BY RunIs
<1>5. s .. m \subseteq Nat /\ m + 1 .. e \subseteq Nat /\ s .. e \subseteq Nat
  OBVIOUS
<1>6. k \in Nat /\ n \in Nat /\ k + n = e - s + 1 /\ s + k = m + 1
  OBVIOUS
<1>7. Len(p) = k /\ \A i \in 1 .. k : p[i] = s + i - 1
  BY <1>1
<1>8. Len(q) = n /\ \A i \in 1 .. n : q[i] = m + i
  BY <1>2, <1>3
<1>9. Len(r) = k + n /\ \A i \in 1 .. k + n : r[i] = s + i - 1
  BY <1>4, <1>6
<1> HIDE DEF p, q, r, k, n
<1>10. p \in Seq(Nat) /\ q \in Seq(Nat) /\ r \in Seq(Nat)
  BY <1>1, <1>3, <1>4, <1>5
<1>11. p \o q = [i \in 1 .. k + n |-> (p \o q)[i]]
  BY <1>7, <1>8, <1>10, Joined
<1>12. \A i \in 1 .. k + n : (p \o q)[i] = IF i <= k THEN p[i] ELSE q[i - k]
  BY <1>7, <1>8, <1>10, Joined
<1>13. ASSUME NEW i \in 1 .. k + n PROVE (p \o q)[i] = r[i]
  <2>1. CASE i <= k
    <3>1. i \in 1 .. k
      BY <1>6, <2>1
    <3> QED  BY <1>7, <1>9, <1>12, <2>1, <3>1
  <2>2. CASE ~(i <= k)
    <3>1. i - k \in 1 .. n /\ m + (i - k) = s + i - 1
      BY <1>6, <2>2
    <3> QED  BY <1>8, <1>9, <1>12, <2>2, <3>1
  <2> QED  BY <2>1, <2>2
<1>14. r = [i \in 1 .. k + n |-> r[i]]
  BY <1>4, <1>6, <1>9, <1>10 DEF r, Run
<1>15. p \o q = r
  BY ONLY <1>11, <1>13, <1>14
<1> QED  BY <1>15 DEF p, q, r

\* What the server answers is one stretch of the list.
LEMMA WindowIs ==
  ASSUME PageConstants, NEW a \in P!Args, a.count >= 1
  PROVE  /\ P!Window(a) = Run(From(a), To(a))
         /\ From(a) \in 1 .. ListLength + 1 /\ To(a) \in 0 .. ListLength /\ From(a) <= To(a) + 1
         /\ P!Window(a) \in Seq(1 .. ListLength)
<1>1. /\ a.forward \in BOOLEAN /\ a.cursor \in Nat /\ a.cursor <= ListLength /\ a.count \in Nat
      /\ ListLength \in Nat
  BY DEF P!Args, P!Cursors, PageConstants
<1>2. /\ From(a) \in 1 .. ListLength + 1 /\ To(a) \in 0 .. ListLength /\ From(a) <= To(a) + 1
  BY <1>1 DEF From, To, Edge
<1>3. P!Window(a) = Run(From(a), To(a))
  <2>1. CASE a.forward
    <3>1. P!Least(a.count, ListLength - a.cursor) = To(a) - From(a) + 1 /\ From(a) = a.cursor + 1
      BY <2>1, <1>1 DEF P!Least, From, To
    <3> QED  BY <2>1, <3>1 DEF P!Window, Run
  <2>2. CASE ~a.forward
    <3>1. (IF a.cursor = 0 THEN ListLength + 1 ELSE a.cursor) - From(a) = To(a) - From(a) + 1
      BY <2>2, <1>1, <1>2 DEF From, To, Edge
    <3>2. From(a) = LET to == IF a.cursor = 0 THEN ListLength + 1 ELSE a.cursor
                    IN  IF to > a.count THEN to - a.count ELSE 1
      BY <2>2 DEF From, Edge
    <3> QED  BY <2>2, <3>1, <3>2 DEF P!Window, Run
  <2> QED  BY <2>1, <2>2
<1>4. Run(From(a), To(a)) \in Seq(From(a) .. To(a))
  <2>1. From(a) \in Nat \ {0} /\ To(a) \in Nat
    BY <1>1, <1>2
  <2> QED  BY ONLY <1>2, <2>1, RunIs
<1>5. Run(From(a), To(a)) \in Seq(1 .. ListLength)
  <2>1. From(a) .. To(a) \subseteq 1 .. ListLength
    BY <1>1, <1>2
  <2> QED  BY ONLY <1>4, <2>1, WiderSequence
<1> QED  BY <1>2, <1>3, <1>5

LEMMA PageCardinality == \A x : P!Cardinality(x) = Cardinality(x)
BY DEF P!Cardinality, Cardinality

\* What stays of a stretch is a stretch.
LEMMA KeptStretch ==
  ASSUME NEW w, NEW s \in Nat \ {0}, NEW e \in Nat, NEW x \in Nat \ {0}, NEW y \in Nat,
         s <= x, x <= y + 1, y <= e, pageList = Run(s, e),
         P!Staying(w) = x - s + 1 .. y - s + 1
  PROVE  P!Kept(w) = Run(x, y)
<1> DEFINE a == x - s + 1
           b == y - s + 1
           st == P!Staying(w)
           nth(k) == CHOOSE i \in st : Cardinality({j \in st : j < i}) = k - 1
<1>1. a \in Nat /\ b \in Int /\ a >= 1 /\ a <= b + 1
  OBVIOUS
<1>2. st = a .. b
  OBVIOUS
<1> HIDE DEF st
<1>3. Cardinality(st) = y - x + 1
  <2>1. Cardinality(st) = IF a > b THEN 0 ELSE b - a + 1
    BY <1>2, <1>1, FS_Interval
  <2> QED  BY <2>1
<1>4. ASSUME NEW i \in st PROVE Cardinality({j \in st : j < i}) = i - a
  <2>1. {j \in st : j < i} = a .. i - 1 /\ i - 1 \in Int
    BY <1>2, <1>1
  <2>2. Cardinality(a .. i - 1) = IF a > i - 1 THEN 0 ELSE (i - 1) - a + 1
    BY <1>1, <2>1, FS_Interval
  <2>3. (IF a > i - 1 THEN 0 ELSE (i - 1) - a + 1) = i - a
    BY <1>2, <1>1
  <2> QED  BY <2>1, <2>2, <2>3
<1>5. ASSUME NEW k \in 1 .. y - x + 1 PROVE pageList[nth(k)] = x + k - 1
  <2>1. a + k - 1 \in st
    BY <1>2, <1>1
  <2>2. Cardinality({j \in st : j < a + k - 1}) = k - 1
    BY <1>1, <1>4, <2>1
  <2>3. nth(k) \in st /\ Cardinality({j \in st : j < nth(k)}) = k - 1
    BY <2>1, <2>2
  <2>4. nth(k) - a = k - 1
    BY <1>4, <2>3
  <2>5. nth(k) = x - s + k
    <3>1. \A i \in st : i - a = k - 1 => i = x - s + k
      BY <1>2, <1>1
    <3> QED  BY <2>3, <2>4, <3>1
  <2>6. x - s + k \in 1 .. e - s + 1 /\ s + (x - s + k) - 1 = x + k - 1
    OBVIOUS
  <2>7. Run(s, e)[x - s + k] = x + k - 1
    BY <2>6 DEF Run
  <2> QED  BY <2>5, <2>7
<1>6. P!Kept(w) = [k \in 1 .. Cardinality(st) |-> pageList[nth(k)]]
  BY DEF P!Kept, P!Cardinality, Cardinality, st
<1> HIDE DEF nth
<1>7. P!Kept(w) = [k \in 1 .. y - x + 1 |-> x + k - 1]
  BY <1>3, <1>5, <1>6
<1> QED  BY <1>7 DEF Run

\* Every place among n numbers is taken.
LEMMA RankTaken ==
  ASSUME NEW st, NEW n \in Nat, st \subseteq 1 .. n, NEW k \in 1 .. Cardinality(st)
  PROVE  \E i \in st : Cardinality({j \in st : j < i}) = k - 1
<1> DEFINE low(i) == {j \in st : j < i}
           full == {i \in Nat : Cardinality(low(i)) >= k}
<1>0. \A j \in st : j \in Nat /\ 1 <= j /\ j <= n
  OBVIOUS
<1>1. IsFiniteSet(st)
  <2>1. IsFiniteSet(1 .. n)
    BY FS_Interval
  <2> QED  BY <2>1, FS_Subset
<1>2. \A i \in Nat : IsFiniteSet(low(i)) /\ Cardinality(low(i)) \in Nat
  <2> TAKE i \in Nat
  <2>1. low(i) \subseteq st
    OBVIOUS
  <2> QED  BY <1>1, <2>1, FS_Subset, FS_CardinalityType
<1>3. Cardinality(st) \in Nat /\ k \in Nat /\ k >= 1
  BY <1>1, FS_CardinalityType
<1>4. n + 1 \in full
  <2>1. low(n + 1) = st
    <3>1. \A j \in st : j < n + 1
      BY <1>0
    <3> QED  BY ONLY <3>1
  <2> QED  BY <1>3, <2>1
<1>5. full \subseteq Nat /\ full # {}
  BY <1>4
<1>6. PICK m \in full : \A y \in full : ~ (<<y, m>> \in OpToRel(<, Nat))
  BY <1>5, NatLessThanWellFounded, WFMin
<1>7. m \in Nat /\ Cardinality(low(m)) >= k
  BY <1>6
<1>8. m # 0
  <2>1. low(0) = {}
    <3>1. \A j \in st : ~(j < 0)
      BY <1>0
    <3> QED  BY ONLY <3>1
  <2>2. Cardinality(low(0)) = 0
    BY <2>1, FS_EmptySet
  <2> QED  BY <1>3, <1>7, <2>2
<1>9. m - 1 \in Nat /\ m - 1 < m
  BY <1>7, <1>8
<1>10. ~(Cardinality(low(m - 1)) >= k)
  <2>1. <<m - 1, m>> \in OpToRel(<, Nat)
    BY <1>7, <1>9 DEF OpToRel
  <2> QED  BY <1>6, <1>9, <2>1
<1>11. \A j \in st : j < m <=> j < m - 1 \/ j = m - 1
  BY <1>0, <1>7, <1>9
<1>12. m - 1 \in st /\ low(m) = low(m - 1) \cup {m - 1}
  <2>1. CASE m - 1 \in st
    BY ONLY <1>11, <2>1
  <2>2. CASE m - 1 \notin st
    <3>1. low(m) = low(m - 1)
      BY ONLY <1>11, <2>2
    <3> QED  BY <1>7, <1>10, <3>1
  <2> QED  BY <2>1, <2>2
<1>13. m - 1 \notin low(m - 1)
  BY <1>9
<1>14. Cardinality(low(m)) = Cardinality(low(m - 1)) + 1
  BY <1>2, <1>9, <1>12, <1>13, FS_AddElement
<1>15. Cardinality(low(m - 1)) = k - 1
  BY <1>2, <1>3, <1>7, <1>9, <1>10, <1>14
<1> QED  BY <1>12, <1>15

\* The entries that stay are entries.
LEMMA KeptTyped ==
  ASSUME NEW w, NEW Elem, pageList \in Seq(Elem)
  PROVE  P!Kept(w) \in Seq(Elem)
<1> DEFINE st == P!Staying(w)
           nth(k) == CHOOSE i \in st : Cardinality({j \in st : j < i}) = k - 1
           n == Cardinality(st)
<1>1. st \subseteq 1 .. Len(pageList) /\ Len(pageList) \in Nat
  BY DEF P!Staying
<1>2. n \in Nat
  <2>1. IsFiniteSet(1 .. Len(pageList))
    BY <1>1, FS_Interval
  <2> QED  BY <1>1, <2>1, FS_Subset, FS_CardinalityType
<1> HIDE DEF st
<1>3. \A k \in 1 .. n : nth(k) \in st
  BY <1>1, RankTaken
<1>4. P!Kept(w) = [k \in 1 .. n |-> pageList[nth(k)]]
  BY DEF P!Kept, P!Cardinality, Cardinality, st
<1> HIDE DEF nth, n
<1>5. \A k \in 1 .. n : pageList[nth(k)] \in Elem
  <2>1. \A i \in 1 .. Len(pageList) : pageList[i] \in Elem
    OBVIOUS
  <2> QED  BY <1>1, <1>3, <2>1
<1>6. P!Kept(w) \in [1 .. n -> Elem]
  BY <1>4, <1>5
<1> QED  BY <1>2, <1>6

LEMMA RangeOfRun ==
  ASSUME NEW s \in Nat \ {0}, NEW e \in Nat, s <= e + 1
  PROVE  P!Range(Run(s, e)) = s .. e
<1>1. ASSUME NEW x \in s .. e PROVE \E i \in 1 .. e - s + 1 : s + i - 1 = x
  <2>1. x - s + 1 \in 1 .. e - s + 1 /\ s + (x - s + 1) - 1 = x
    OBVIOUS
  <2> QED  BY <2>1
<1>2. \A i \in 1 .. e - s + 1 : s + i - 1 \in s .. e
  OBVIOUS
<1>3. P!Range(Run(s, e)) = {s + i - 1 : i \in 1 .. e - s + 1}
  BY DEF P!Range, Run
<1> QED  BY <1>1, <1>2, <1>3

\* A page after the item at c makes the stretch end where the page does.
LEMMA AddedNext ==
  ASSUME NEW s \in Nat \ {0}, NEW e \in Nat, NEW c \in Nat, NEW t \in Nat,
         s <= c + 1, c <= e, e <= t, pageList = Run(s, e),
         pageDocument.method = "offset" => c = e
  PROVE  P!Added(Run(c + 1, t), "next") = Run(s, t)
<1> DEFINE w == Run(c + 1, t)
<1>1. P!Range(w) = c + 1 .. t
  BY RangeOfRun
<1>2. DOMAIN pageList = 1 .. e - s + 1 /\ \A i \in 1 .. e - s + 1 : pageList[i] = s + i - 1
  BY DEF Run
<1>3. ASSUME NEW i \in 1 .. e - s + 1
      PROVE  (pageDocument.method = "offset" \/ pageList[i] \notin P!Range(w)) <=> i <= c - s + 1
  <2>1. pageList[i] \in P!Range(w) <=> c + 1 <= s + i - 1 /\ s + i - 1 <= t
    BY <1>1, <1>2
  <2>2. s + i - 1 <= t
    OBVIOUS
  <2>3. c + 1 <= s + i - 1 <=> ~(i <= c - s + 1)
    OBVIOUS
  <2>4. c = e => i <= c - s + 1
    OBVIOUS
  <2> QED  BY <2>1, <2>2, <2>3, <2>4
<1>4. P!Staying(w) = {i \in 1 .. e - s + 1 : i <= c - s + 1}
  BY <1>2, <1>3 DEF P!Staying
<1>5. {i \in 1 .. e - s + 1 : i <= c - s + 1} = s - s + 1 .. c - s + 1
  OBVIOUS
<1>6. Run(s, c) \o w = Run(s, t)
  <2>1. c <= t
    OBVIOUS
  <2> QED  BY <2>1, RunsJoin
<1> HIDE DEF w
<1>7. P!Staying(w) = s - s + 1 .. c - s + 1
  BY ONLY <1>4, <1>5
<1>8. P!Kept(w) = Run(s, c)
  BY <1>7, KeptStretch
<1> QED  BY <1>6, <1>8 DEF P!Added, w

\* A page before the item at c makes the stretch start where the page does.
LEMMA AddedPrevious ==
  ASSUME NEW f \in Nat \ {0}, NEW s \in Nat \ {0}, NEW c \in Nat, NEW e \in Nat,
         f <= s, s <= c, c <= e, pageList = Run(s, e), pageDocument.method # "offset"
  PROVE  P!Added(Run(f, c - 1), "previous") = Run(f, e)
<1> DEFINE w == Run(f, c - 1)
<1>1. c - 1 \in Nat /\ c \in Nat \ {0} /\ f <= (c - 1) + 1 /\ c <= e + 1 /\ s <= e + 1 /\ (c - 1) + 1 = c /\ c - 1 <= e
  OBVIOUS
<1>2. P!Range(w) = f .. c - 1
  BY ONLY <1>1, RangeOfRun, f \in Nat \ {0}
<1>3. DOMAIN pageList = 1 .. e - s + 1 /\ \A i \in 1 .. e - s + 1 : pageList[i] = s + i - 1
  BY DEF Run
<1>4. ASSUME NEW i \in 1 .. e - s + 1
      PROVE  (pageDocument.method = "offset" \/ pageList[i] \notin P!Range(w)) <=> c - s + 1 <= i
  <2>1. pageList[i] \in P!Range(w) <=> f <= s + i - 1 /\ s + i - 1 <= c - 1
    BY <1>2, <1>3
  <2>2. f <= s + i - 1 /\ (s + i - 1 <= c - 1 <=> ~(c - s + 1 <= i))
    OBVIOUS
  <2> QED  BY <2>1, <2>2
<1>5. P!Staying(w) = {i \in 1 .. e - s + 1 : c - s + 1 <= i}
  BY <1>3, <1>4 DEF P!Staying
<1>6. {i \in 1 .. e - s + 1 : c - s + 1 <= i} = c - s + 1 .. e - s + 1
  OBVIOUS
<1>7. w \o Run((c - 1) + 1, e) = Run(f, e)
  BY <1>1, RunsJoin
<1>8. w \o Run(c, e) = Run(f, e)
  BY <1>1, <1>7
<1> HIDE DEF w
<1>9. P!Kept(w) = Run(c, e)
  <2>1. P!Staying(w) = c - s + 1 .. e - s + 1
    BY ONLY <1>5, <1>6
  <2>2. e <= e
    OBVIOUS
  <2> QED  BY <1>1, <2>1, <2>2, KeptStretch
<1>10. "previous" # "next"
  OBVIOUS
<1> QED  BY <1>8, <1>9, <1>10 DEF P!Added, w

\* The requests left when the one at n is taken out: those before it, and those after.
Later(i, n) == IF i < n THEN i ELSE i + 1

LEMMA RequestRemoved ==
  ASSUME NEW Elem, NEW q \in Seq(Elem), NEW n \in DOMAIN q
  PROVE  /\ P!RemoveAt(q, n) \in Seq(Elem) /\ Len(P!RemoveAt(q, n)) = Len(q) - 1
         /\ DOMAIN P!RemoveAt(q, n) = 1 .. Len(q) - 1
         /\ \A i \in 1 .. Len(q) - 1 : /\ P!RemoveAt(q, n)[i] = q[Later(i, n)]
                                       /\ Later(i, n) \in DOMAIN q /\ Later(i, n) # n
<1> DEFINE a == SubSeq(q, 1, n - 1)
           b == SubSeq(q, n + 1, Len(q))
<1>1. Len(q) \in Nat /\ DOMAIN q = 1 .. Len(q) /\ n \in 1 .. Len(q) /\ n \in Nat /\ Len(q) \in Int /\ n \in Int
  OBVIOUS
<1>2. /\ a \in Seq(Elem) /\ Len(a) = n - 1
      /\ \A j \in 1 .. n - 1 : a[j] = q[j]
  BY <1>1
<1>3. /\ b \in Seq(Elem) /\ Len(b) = Len(q) - n
      /\ \A j \in 1 .. Len(q) - n : b[j] = q[n + j]
  BY <1>1
<1> HIDE DEF a, b
<1>4. Len(a) + Len(b) = Len(q) - 1 /\ Len(q) - 1 \in Nat
  BY <1>1, <1>2, <1>3
<1>5. /\ a \o b \in Seq(Elem) /\ Len(a \o b) = Len(q) - 1 /\ DOMAIN (a \o b) = 1 .. Len(q) - 1
      /\ \A j \in 1 .. Len(q) - 1 : (a \o b)[j] = IF j <= Len(a) THEN a[j] ELSE b[j - Len(a)]
  <2>0. a \in Seq(Elem) /\ b \in Seq(Elem)
    BY <1>2, <1>3
  <2>1. /\ a \o b \in Seq(Elem) /\ Len(a \o b) = Len(a) + Len(b) /\ DOMAIN (a \o b) = 1 .. Len(a) + Len(b)
        /\ \A j \in 1 .. Len(a) + Len(b) : (a \o b)[j] = IF j <= Len(a) THEN a[j] ELSE b[j - Len(a)]
    BY ONLY <2>0, Joined
  <2> QED  BY ONLY <1>4, <2>1
<1>6. ASSUME NEW j \in 1 .. Len(q) - 1 PROVE (a \o b)[j] = q[Later(j, n)]
  <2>1. CASE j < n
    <3>1. j \in 1 .. n - 1 /\ j <= n - 1
      BY <1>1, <2>1
    <3>2. (a \o b)[j] = a[j] /\ a[j] = q[j]
      BY <1>2, <1>5, <3>1
    <3> QED  BY <2>1, <3>2 DEF Later
  <2>2. CASE ~(j < n)
    <3>1. ~(j <= n - 1) /\ j - (n - 1) \in 1 .. Len(q) - n /\ n + (j - (n - 1)) = j + 1
      BY <1>1, <2>2
    <3>2. (a \o b)[j] = b[j - (n - 1)]
      BY <1>2, <1>5, <3>1
    <3>3. b[j - (n - 1)] = q[n + (j - (n - 1))]
      BY <1>3, <3>1
    <3> QED  BY <2>2, <3>1, <3>2, <3>3 DEF Later
  <2> QED  BY <2>1, <2>2
<1>7. ASSUME NEW j \in 1 .. Len(q) - 1 PROVE Later(j, n) \in 1 .. Len(q) /\ Later(j, n) # n
  BY <1>1 DEF Later
<1>8. P!RemoveAt(q, n) = a \o b
  BY DEF P!RemoveAt, a, b
<1> QED  BY <1>1, <1>5, <1>6, <1>7, <1>8

-----------------------------------------------------------------------------
\* The list shows the items from s to e, and pageInfo tells its ends.
ListShows(s, e) ==
  /\ s \in 1 .. ListLength + 1 /\ e \in 0 .. ListLength /\ s <= e + 1
  /\ pageList = Run(s, e) /\ pageInfo = P!InfoOf(Run(s, e))

\* An update is a page of an infinite list, and a page is never empty of requests.
PageKinds ==
  /\ pageArgs.count >= 1
  /\ \A n \in DOMAIN pageOut :
       /\ pageOut[n].args.count >= 1
       /\ pageOut[n].update = (~pageDocument.single /\ pageOut[n].move # "refresh")

\* With offsets one only goes forward, and what is fetched whole starts at the first item.
OffsetsForward ==
  pageDocument.method = "offset" =>
    /\ pageArgs.forward /\ (pageDocument.single \/ pageArgs.cursor = 0)
    /\ \A n \in DOMAIN pageOut :
         /\ pageOut[n].args.forward /\ pageOut[n].move # "previous"
         /\ (pageDocument.single \/ pageOut[n].update \/ pageOut[n].args.cursor = 0)

\* But with offsets, where what was fetched whole sets the limit, pages have one size.
PageLong(a) == pageDocument.method # "offset" => a.count = PageSize

\* A single page is what its variables ask for.
SingleShown ==
  pageDocument.single =>
    /\ ListShows(From(pageArgs), To(pageArgs)) /\ PageLong(pageArgs)
    /\ \A n \in DOMAIN pageOut : PageLong(pageOut[n].args)

\* Where one request at a time is asked for, one is out.
OneOut ==
  (pageDocument.single /\ ~pageUpset) \/ (pageDocument.method = "offset" /\ ~pageCrossed) =>
    Len(pageOut) <= 1

\* A page that is out goes on from the stretch that is shown, or lies in it.
Adjoins(r, s, e) ==
  /\ PageLong(r.args) /\ r.args.cursor <= e
  /\ r.move = "next" =>
       /\ r.args.forward /\ (s <= r.args.cursor \/ ListLength = 0) /\ e <= r.args.cursor + PageSize
       /\ pageDocument.method = "offset" => r.args.cursor = e
  /\ r.move = "previous" =>
       ~r.args.forward /\ s <= r.args.cursor /\ r.args.cursor <= s + PageSize

\* What an infinite list shows, and where its pages join it.
Stretched(s, e) ==
  /\ ListShows(s, e)
  /\ pageDocument.method = "offset" => s = 1 /\ (e = 0 => ListLength = 0)
  /\ \A n \in DOMAIN pageOut : pageOut[n].update => Adjoins(pageOut[n], s, e)

InfiniteShown == ~pageDocument.single /\ ~pageCrossed => \E s, e \in Nat : Stretched(s, e)

\* Pages of one end were asked for from the inside outwards.
PagesOrdered ==
  ~pageCrossed =>
    \A m, n \in DOMAIN pageOut :
      m < n /\ pageOut[m].update /\ pageOut[n].update /\ pageOut[m].move = pageOut[n].move =>
        IF pageOut[m].move = "next" THEN pageOut[m].args.cursor <= pageOut[n].args.cursor
        ELSE pageOut[n].args.cursor <= pageOut[m].args.cursor

\* The page of a single-page connection that is shown once all is answered.
PageTarget == IF pageOut = <<>> THEN pageArgs ELSE pageOut[1].args

\* Each cursor kept is one page from the next, and the last one page from the target.
StackBack(q, t) ==
  q # <<>> => /\ t.forward /\ t.cursor < ListLength /\ q[Len(q)] + PageSize = t.cursor
              /\ \A i \in 1 .. Len(q) - 1 : q[i] + PageSize = q[i + 1]

StackForth(q, t) ==
  q # <<>> => /\ ~t.forward /\ Edge(q[Len(q)]) = Edge(t.cursor) + PageSize
              /\ \A i \in 1 .. Len(q) - 1 : Edge(q[i]) = Edge(q[i + 1]) + PageSize

StacksAgree ==
  pageDocument.single /\ pageDocument.method = "cursor" /\ ~pageUpset =>
    /\ \A n \in DOMAIN pageOut : pageOut[n].move = "refresh" => pageOut[n].args = pageArgs
    /\ pageDocument.direction = "backward" => ~PageTarget.forward
    /\ StackBack(pagePrevious, PageTarget) /\ StackForth(pageNext, PageTarget)

PageInv ==
  /\ P!TypeOK /\ PageKinds /\ OffsetsForward /\ SingleShown /\ OneOut
  /\ InfiniteShown /\ PagesOrdered /\ StacksAgree /\ P!PagesFollow

-----------------------------------------------------------------------------
LEMMA InfoIs ==
  ASSUME PageConstants, NEW s \in 1 .. ListLength + 1, NEW e \in 0 .. ListLength, s <= e + 1
  PROVE  /\ P!InfoOf(Run(s, e)) \in P!Info
         /\ s <= e => P!InfoOf(Run(s, e)) = [start |-> s, end |-> e, hasNext |-> e < ListLength,
                                             hasPrevious |-> s > 1]
         /\ s = e + 1 => P!InfoOf(Run(s, e)) = P!NullInfo
         /\ Run(s, e) \in Seq(1 .. ListLength)
<1>1. ListLength \in Nat /\ s \in Nat \ {0} /\ e \in Nat
  BY DEF PageConstants
<1>2. /\ Run(s, e) \in Seq(s .. e) /\ Len(Run(s, e)) = e - s + 1
      /\ \A i \in 1 .. e - s + 1 : Run(s, e)[i] = s + i - 1
      /\ Run(s, e) = <<>> <=> s = e + 1
  BY <1>1, RunIs
<1>3. s .. e \subseteq 1 .. ListLength
  BY <1>1
<1>4. Run(s, e) \in Seq(1 .. ListLength)
  BY <1>2, <1>3, WiderSequence
<1>5. ASSUME s <= e
      PROVE  P!InfoOf(Run(s, e)) = [start |-> s, end |-> e, hasNext |-> e < ListLength,
                                    hasPrevious |-> s > 1]
  <2>1. Run(s, e)[1] = s /\ Run(s, e)[Len(Run(s, e))] = e /\ Run(s, e) # <<>>
    BY <1>1, <1>2, <1>5
  <2> QED  BY <2>1 DEF P!InfoOf
<1>6. s = e + 1 => P!InfoOf(Run(s, e)) = P!NullInfo
  BY <1>2 DEF P!InfoOf
<1>7. P!InfoOf(Run(s, e)) \in P!Info
  <2> DEFINE info(a, b, h, p) == [start |-> a, end |-> b, hasNext |-> h, hasPrevious |-> p]
  <2>0. \A a, b \in P!Cursors, h, p \in BOOLEAN : info(a, b, h, p) \in P!Info
    BY DEF P!Info
  <2>1. CASE s <= e
    <3>1. s \in P!Cursors /\ e \in P!Cursors
      BY <1>1, <2>1 DEF P!Cursors
    <3>2. (e < ListLength) \in BOOLEAN /\ (s > 1) \in BOOLEAN
      OBVIOUS
    <3>3. P!InfoOf(Run(s, e)) = info(s, e, e < ListLength, s > 1)
      BY <1>5, <2>1
    <3> HIDE DEF info
    <3> QED  BY <2>0, <3>1, <3>2, <3>3
  <2>2. CASE s = e + 1
    <3>1. 0 \in P!Cursors
      BY <1>1 DEF P!Cursors
    <3>2. P!InfoOf(Run(s, e)) = info(0, 0, FALSE, FALSE)
      BY <1>6, <2>2 DEF P!NullInfo
    <3> HIDE DEF info
    <3> QED  BY <2>0, <3>1, <3>2
  <2>3. s <= e \/ s = e + 1
    BY <1>1
  <2> QED  BY <2>1, <2>2, <2>3
<1> QED  BY <1>4, <1>5, <1>6, <1>7

\* What is known of a list that is one stretch.
LEMMA ShowsIs ==
  ASSUME PageConstants, NEW s, NEW e, ListShows(s, e)
  PROVE  /\ s \in Nat \ {0} /\ e \in Nat /\ s <= e + 1 /\ e <= ListLength /\ s <= ListLength + 1
         /\ ListLength \in Nat
         /\ Len(pageList) = e - s + 1 /\ DOMAIN pageList = 1 .. e - s + 1
         /\ \A i \in 1 .. e - s + 1 : pageList[i] = s + i - 1
         /\ pageList = <<>> <=> s = e + 1
         /\ pageInfo.hasNext => s <= e /\ e < ListLength /\ pageInfo.end = e
         /\ pageInfo.hasPrevious => s <= e /\ s > 1 /\ pageInfo.start = s
         /\ s <= e => pageList[1] = s /\ pageList[Len(pageList)] = e
<1>1. s \in 1 .. ListLength + 1 /\ e \in 0 .. ListLength /\ s <= e + 1 /\ ListLength \in Nat
  BY DEF ListShows, PageConstants
<1>2. /\ s \in Nat \ {0} /\ e \in Nat /\ e <= ListLength /\ s <= ListLength + 1
  BY <1>1
<1>3. /\ Len(pageList) = e - s + 1 /\ DOMAIN pageList = 1 .. e - s + 1
      /\ \A i \in 1 .. e - s + 1 : pageList[i] = s + i - 1
      /\ pageList = <<>> <=> s = e + 1
  BY <1>1, <1>2, RunIs DEF ListShows
<1>4. CASE s <= e
  <2>1. pageInfo = [start |-> s, end |-> e, hasNext |-> e < ListLength, hasPrevious |-> s > 1]
    BY <1>1, <1>4, InfoIs DEF ListShows
  <2>2. pageList[1] = s /\ pageList[Len(pageList)] = e
    BY <1>2, <1>3, <1>4
  <2> QED  BY <1>1, <1>2, <1>3, <1>4, <2>1, <2>2
<1>5. CASE s = e + 1
  <2>1. pageInfo = P!NullInfo
    BY <1>1, <1>5, InfoIs DEF ListShows
  <2>2. ~pageInfo.hasNext /\ ~pageInfo.hasPrevious /\ ~(s <= e)
    BY <1>2, <1>5, <2>1 DEF P!NullInfo
  <2> QED  BY <1>1, <1>2, <1>3, <2>2
<1>6. s <= e \/ s = e + 1
  BY <1>1, <1>2
<1> QED  BY <1>4, <1>5, <1>6

\* An answer is shown as one stretch.
LEMMA WindowShows ==
  ASSUME PageConstants, NEW a \in P!Args, a.count >= 1,
         pageList = P!Window(a), pageInfo = P!InfoOf(pageList)
  PROVE  ListShows(From(a), To(a))
BY WindowIs DEF ListShows

LEMMA PageInitInv ==
  ASSUME PageConstants, P!Init
  PROVE  PageInv
<1>1. /\ PageSize \in Nat \ {0} /\ ListLength \in Nat /\ MaxPageCalls \in Nat
  BY DEF PageConstants
<1>2. /\ pageDocument \in P!PagedDocuments /\ pageOut = <<>> /\ pagePrevious = <<>> /\ pageNext = <<>>
      /\ pageUpset = FALSE /\ pageCrossed = FALSE /\ pageCalls = 0
      /\ pageList = P!Window(pageArgs) /\ pageInfo = P!InfoOf(pageList)
      /\ pageDocument.method = "offset" => pageDocument.direction = "forward"
      /\ pageArgs \in IF pageDocument.method = "offset" THEN {P!Forward(0, PageSize)}
                      ELSE P!Landing(pageDocument)
  BY DEF P!Init
<1>3. \A c \in P!Cursors : P!Forward(c, PageSize) \in P!Args /\ P!Backward(c, PageSize) \in P!Args
  BY <1>1 DEF P!Args, P!Forward, P!Backward
<1>4. 0 \in P!Cursors /\ 0 .. ListLength - 1 \subseteq P!Cursors
  BY <1>1 DEF P!Cursors
<1>5. pageDocument.method # "offset" =>
        \/ \E c \in 0 .. ListLength - 1 : pageDocument.direction # "backward" /\ pageArgs = P!Forward(c, PageSize)
        \/ pageDocument.direction # "forward" /\ pageArgs = P!Backward(0, PageSize)
  BY <1>2 DEF P!Landing
<1>6. /\ pageArgs \in P!Args /\ pageArgs.count = PageSize
      /\ pageDocument.method = "offset" => pageArgs.forward /\ pageArgs.cursor = 0
      /\ pageDocument.method # "offset" /\ pageDocument.direction = "backward" => ~pageArgs.forward
  <2> DEFINE Good(a) ==
        /\ a \in P!Args /\ a.count = PageSize
        /\ pageDocument.method = "offset" => a.forward /\ a.cursor = 0
        /\ pageDocument.method # "offset" /\ pageDocument.direction = "backward" => ~a.forward
  <2>1. CASE pageDocument.method = "offset"
    <3>1. pageArgs = P!Forward(0, PageSize)
      BY <1>2, <2>1
    <3>2. pageArgs.forward = TRUE /\ pageArgs.cursor = 0 /\ pageArgs.count = PageSize
      BY <3>1 DEF P!Forward
    <3> QED  BY <1>3, <1>4, <2>1, <3>1, <3>2
  <2>2. ASSUME pageDocument.method # "offset", NEW c \in 0 .. ListLength - 1,
               pageDocument.direction # "backward", pageArgs = P!Forward(c, PageSize)
        PROVE  Good(pageArgs)
    <3>1. pageArgs.count = PageSize
      BY <2>2 DEF P!Forward
    <3> QED  BY <1>3, <1>4, <2>2, <3>1
  <2>3. ASSUME pageDocument.method # "offset", pageDocument.direction # "forward",
               pageArgs = P!Backward(0, PageSize)
        PROVE  Good(pageArgs)
    <3>1. pageArgs.count = PageSize /\ pageArgs.forward = FALSE
      BY <2>3 DEF P!Backward
    <3> QED  BY <1>3, <1>4, <2>3, <3>1
  <2> QED  BY <1>5, <2>1, <2>2, <2>3
<1>7. pageArgs.count >= 1
  BY <1>1, <1>6
<1>8. ListShows(From(pageArgs), To(pageArgs))
  BY <1>2, <1>6, <1>7, WindowShows
<1>9. DOMAIN pageOut = {} /\ Len(pageOut) = 0
  BY <1>2
<1>10. P!TypeOK
  <2>1. pageList \in Seq(1 .. ListLength)
    BY <1>2, <1>6, <1>7, WindowIs
  <2>2. pageInfo \in P!Info
    BY <1>8, InfoIs DEF ListShows
  <2>3. pageCalls \in 0 .. MaxPageCalls
    BY <1>1, <1>2
  <2>4. pageOut \in Seq(P!Request) /\ pagePrevious \in Seq(P!Cursors) /\ pageNext \in Seq(P!Cursors)
    BY <1>2
  <2> QED  BY <1>2, <1>6, <2>1, <2>2, <2>3, <2>4 DEF P!TypeOK
<1>11. InfiniteShown
  <2>1. pageDocument.method = "offset" => From(pageArgs) = 1 /\ (To(pageArgs) = 0 => ListLength = 0)
    BY <1>1, <1>6 DEF From, To
  <2>2. Stretched(From(pageArgs), To(pageArgs))
    BY <1>8, <1>9, <2>1 DEF Stretched
  <2>3. From(pageArgs) \in Nat /\ To(pageArgs) \in Nat
    BY <1>8, ShowsIs
  <2> QED  BY <2>2, <2>3 DEF InfiniteShown
<1>12. StacksAgree
  BY <1>2, <1>6, <1>9 DEF StacksAgree, StackBack, StackForth, PageTarget
<1>13. PageKinds /\ OffsetsForward /\ SingleShown /\ OneOut /\ PagesOrdered /\ P!PagesFollow
  BY <1>6, <1>7, <1>8, <1>9
  DEF PageKinds, OffsetsForward, SingleShown, PageLong, OneOut, PagesOrdered, P!PagesFollow
<1> QED  BY <1>10, <1>11, <1>12, <1>13 DEF PageInv

-----------------------------------------------------------------------------
LEMMA RequestAppended ==
  ASSUME NEW Elem, NEW q \in Seq(Elem), NEW r \in Elem
  PROVE  /\ Append(q, r) \in Seq(Elem) /\ Len(Append(q, r)) = Len(q) + 1
         /\ DOMAIN Append(q, r) = 1 .. Len(q) + 1
         /\ \A n \in 1 .. Len(q) + 1 : \/ n \in DOMAIN q /\ Append(q, r)[n] = q[n]
                                       \/ n = Len(q) + 1 /\ Append(q, r)[n] = r
<1>1. Append(q, r) \in Seq(Elem) /\ Len(Append(q, r)) = Len(q) + 1 /\ Len(q) \in Nat
  OBVIOUS
<1>2. DOMAIN q = 1 .. Len(q) /\ DOMAIN Append(q, r) = 1 .. Len(q) + 1
  BY <1>1
<1>3. Append(q, r)[Len(q) + 1] = r /\ \A n \in 1 .. Len(q) : Append(q, r)[n] = q[n]
  OBVIOUS
<1>4. \A n \in 1 .. Len(q) + 1 : n \in 1 .. Len(q) \/ n = Len(q) + 1
  BY <1>1
<1> QED  BY <1>1, <1>2, <1>3, <1>4

\* The request that Send makes.
Sent(move, update, a) ==
  [move |-> move, update |-> update, args |-> a,
   after |-> IF pageList = <<>> THEN 0 ELSE pageList[Len(pageList)],
   before |-> IF pageList = <<>> THEN 0 ELSE pageList[1]]

\* A request may come to wait: it is of its document's kind, an update joins the
\* stretch that is shown, and a page is the neighbour of the one shown.
OfItsKind(move, update, a) ==
  /\ a.count >= 1 /\ update = (~pageDocument.single /\ move # "refresh")
  /\ pageDocument.method = "offset" =>
       a.forward /\ move # "previous" /\ (pageDocument.single \/ update \/ a.cursor = 0)
  /\ pageDocument.single => PageLong(a)

JoinsAt(move, a, s, e) ==
  /\ PageLong(a)
  /\ move = "next" => a.forward /\ a.cursor = e /\ (s <= e \/ ListLength = 0)
  /\ move = "previous" => ~a.forward /\ a.cursor = s /\ s <= e

Neighbour(r) ==
  LET w == P!Window(r.args)
  IN  /\ (r.move = "next" /\ w # <<>>) => w[1] = r.after + 1
      /\ (r.move = "previous" /\ w # <<>>) => w[Len(w)] = r.before - 1

LEMMA SendEffect ==
  ASSUME PageConstants, P!TypeOK, NEW move \in {"next", "previous", "refresh"}, NEW update \in BOOLEAN,
         NEW a \in P!Args, P!Send(move, update, a)
  PROVE  /\ Sent(move, update, a) \in P!Request
         /\ pageOut' \in Seq(P!Request) /\ Len(pageOut') = Len(pageOut) + 1 /\ Len(pageOut) \in Nat
         /\ DOMAIN pageOut' = 1 .. Len(pageOut) + 1
         /\ \A n \in DOMAIN pageOut' : \/ n \in DOMAIN pageOut /\ pageOut'[n] = pageOut[n]
                                       \/ n = Len(pageOut) + 1 /\ pageOut'[n] = Sent(move, update, a)
         /\ pageDocument' = pageDocument /\ pageArgs' = pageArgs /\ pageList' = pageList
         /\ pageInfo' = pageInfo /\ pageCalls' \in 0 .. MaxPageCalls
         /\ pageCrossed' = (pageCrossed \/ (pageDocument.method = "offset" /\ pageOut # <<>>))
         /\ \A n \in DOMAIN pageOut : n \in Nat /\ n < Len(pageOut) + 1
<1>1. pageList \in Seq(1 .. ListLength) /\ ListLength \in Nat /\ pageOut \in Seq(P!Request)
      /\ pageCalls \in 0 .. MaxPageCalls /\ MaxPageCalls \in Nat
  BY DEF P!TypeOK, PageConstants
<1>2. \A i \in 1 .. Len(pageList) : pageList[i] \in 1 .. ListLength
  BY <1>1
<1>3. pageList # <<>> => pageList[1] \in 1 .. ListLength /\ pageList[Len(pageList)] \in 1 .. ListLength
  BY <1>1, <1>2
<1>4. Sent(move, update, a).after \in 0 .. ListLength + 1 /\ Sent(move, update, a).before \in 0 .. ListLength + 1
  BY <1>1, <1>3 DEF Sent
<1>5. Sent(move, update, a) \in P!Request
  BY <1>4 DEF Sent, P!Request
<1>6. /\ pageOut' = Append(pageOut, Sent(move, update, a)) /\ pageCalls < MaxPageCalls
      /\ pageCalls' = pageCalls + 1
      /\ pageDocument' = pageDocument /\ pageArgs' = pageArgs /\ pageList' = pageList
      /\ pageInfo' = pageInfo
      /\ pageCrossed' = (pageCrossed \/ (pageDocument.method = "offset" /\ pageOut # <<>>))
  BY DEF P!Send, Sent
<1>7. /\ pageOut' \in Seq(P!Request) /\ Len(pageOut') = Len(pageOut) + 1
      /\ DOMAIN pageOut' = 1 .. Len(pageOut) + 1
      /\ \A n \in 1 .. Len(pageOut) + 1 : \/ n \in DOMAIN pageOut /\ pageOut'[n] = pageOut[n]
                                          \/ n = Len(pageOut) + 1 /\ pageOut'[n] = Sent(move, update, a)
  BY <1>1, <1>5, <1>6, RequestAppended
<1>8. Len(pageOut) \in Nat /\ DOMAIN pageOut = 1 .. Len(pageOut)
  BY <1>1
<1>9. \A n \in DOMAIN pageOut : n \in Nat /\ n < Len(pageOut) + 1
  BY <1>8
<1>10. pageCalls' \in 0 .. MaxPageCalls
  BY <1>1, <1>6
<1> QED  BY <1>5, <1>6, <1>7, <1>8, <1>9, <1>10

\* All but the stacks.
PageInvButStacks ==
  /\ P!TypeOK /\ PageKinds /\ OffsetsForward /\ SingleShown /\ OneOut
  /\ InfiniteShown /\ PagesOrdered /\ P!PagesFollow

LEMMA SendKeeps ==
  ASSUME PageConstants, PageInv, NEW move \in {"next", "previous", "refresh"}, NEW update \in BOOLEAN,
         NEW a \in P!Args, NEW b \in BOOLEAN, P!Send(move, update, a), P!Unsettles(b),
         pagePrevious' \in Seq(P!Cursors), pageNext' \in Seq(P!Cursors),
         OfItsKind(move, update, a),
         \A s, e \in Nat : update /\ Stretched(s, e) => JoinsAt(move, a, s, e),
         ~(pageUpset' \/ pageCrossed') => Neighbour(Sent(move, update, a))
  PROVE  /\ PageInvButStacks'
         /\ pageDocument.single /\ ~pageUpset' =>
              ~pageUpset /\ ~b /\ pageOut = <<>> /\ PageTarget = pageArgs /\ PageTarget' = a
              /\ DOMAIN pageOut' = {1} /\ pageOut'[1] = Sent(move, update, a)
<1> DEFINE r == Sent(move, update, a)
           k == Len(pageOut) + 1
<1>1. /\ P!TypeOK /\ PageKinds /\ OffsetsForward /\ SingleShown /\ OneOut
      /\ InfiniteShown /\ PagesOrdered /\ P!PagesFollow
  BY DEF PageInv
<1>2. /\ r \in P!Request
      /\ pageOut' \in Seq(P!Request) /\ Len(pageOut') = k /\ Len(pageOut) \in Nat
      /\ DOMAIN pageOut' = 1 .. k
      /\ \A n \in DOMAIN pageOut' : \/ n \in DOMAIN pageOut /\ pageOut'[n] = pageOut[n]
                                    \/ n = k /\ pageOut'[n] = r
      /\ pageDocument' = pageDocument /\ pageArgs' = pageArgs /\ pageList' = pageList
      /\ pageInfo' = pageInfo /\ pageCalls' \in 0 .. MaxPageCalls
      /\ pageCrossed' = (pageCrossed \/ (pageDocument.method = "offset" /\ pageOut # <<>>))
      /\ \A n \in DOMAIN pageOut : n \in Nat /\ n < k
  BY <1>1, SendEffect
<1>3. r.move = move /\ r.update = update /\ r.args = a
  BY DEF Sent
<1> HIDE DEF r, k
<1>4. /\ pageUpset' = (pageUpset \/ (pageDocument.single /\ (pageOut # <<>> \/ b)))
      /\ pageUpset \in BOOLEAN /\ pageCrossed \in BOOLEAN /\ pageDocument.single \in BOOLEAN
      /\ pageDocument \in P!PagedDocuments /\ pageArgs \in P!Args /\ pageList \in Seq(1 .. ListLength)
      /\ pageInfo \in P!Info /\ pageOut \in Seq(P!Request)
  BY <1>1 DEF P!Unsettles, P!TypeOK, P!PagedDocuments
<1>5. P!TypeOK'
  BY <1>2, <1>4 DEF P!TypeOK
<1>6. PageKinds'
  BY <1>1, <1>2, <1>3 DEF PageKinds, OfItsKind
<1>7. OffsetsForward'
  BY <1>1, <1>2, <1>3 DEF OffsetsForward, OfItsKind
<1>8. SingleShown'
  BY <1>1, <1>2, <1>3 DEF SingleShown, OfItsKind, ListShows, PageLong
<1>9. pageOut = <<>> => Len(pageOut) = 0 /\ k = 1
  BY DEF k
<1>10. OneOut'
  <2>1. (pageDocument.single /\ ~pageUpset') \/ (pageDocument.method = "offset" /\ ~pageCrossed') =>
          pageOut = <<>>
    BY <1>2, <1>4
  <2>2. pageOut = <<>> => Len(pageOut') <= 1
    BY <1>2, <1>9
  <2> QED  BY <1>2, <2>1, <2>2 DEF OneOut
<1>11. ASSUME NEW s \in Nat, NEW e \in Nat, Stretched(s, e), update,
              pageDocument.method = "offset" => pageOut = <<>>
       PROVE  /\ Adjoins(r, s, e)
              /\ \A m \in DOMAIN pageOut : pageOut[m].update /\ pageOut[m].move = move =>
                   IF move = "next" THEN pageOut[m].args.cursor <= a.cursor
                   ELSE a.cursor <= pageOut[m].args.cursor
  <2>1. JoinsAt(move, a, s, e) /\ PageSize \in Nat /\ move # "refresh"
    BY <1>11 DEF PageConstants, OfItsKind
  <2>2. Adjoins(r, s, e)
    <3>1. move = "next" => a.cursor = e /\ e <= e /\ e <= e + PageSize
      BY <2>1 DEF JoinsAt
    <3>2. move = "previous" => a.cursor = s /\ s <= s /\ s <= s + PageSize
      BY <2>1 DEF JoinsAt
    <3> QED  BY <1>3, <2>1, <3>1, <3>2 DEF JoinsAt, Adjoins
  <2>3. \A m \in DOMAIN pageOut : pageOut[m].update => Adjoins(pageOut[m], s, e)
    BY <1>11 DEF Stretched
  <2> QED  BY <2>1, <2>2, <2>3 DEF Adjoins, JoinsAt
<1>12. InfiniteShown'
  <2> SUFFICES ASSUME ~pageDocument.single, ~pageCrossed'
               PROVE  \E s, e \in Nat : Stretched(s, e)'
    BY <1>2 DEF InfiniteShown
  <2>1. PICK s \in Nat, e \in Nat : Stretched(s, e)
    BY <1>1, <1>2 DEF InfiniteShown
  <2>2. pageDocument.method = "offset" => pageOut = <<>>
    BY <1>2
  <2>3. update => Adjoins(r, s, e)
    BY <1>11, <2>1, <2>2
  <2>4. \A n \in DOMAIN pageOut : pageOut[n].update => Adjoins(pageOut[n], s, e)
    BY <2>1 DEF Stretched
  <2>5. \A n \in DOMAIN pageOut' : pageOut'[n].update => Adjoins(pageOut'[n], s, e)
    BY <1>2, <1>3, <2>3, <2>4
  <2>6. \A q : Adjoins(q, s, e)' <=> Adjoins(q, s, e)
    BY <1>2 DEF Adjoins, PageLong
  <2>7. ListShows(s, e)'
    BY <1>2, <2>1 DEF Stretched, ListShows
  <2>8. Stretched(s, e)'
    BY <1>2, <2>1, <2>5, <2>6, <2>7 DEF Stretched, Adjoins, PageLong
  <2> QED  BY <2>8
<1>13. PagesOrdered'
  <2> SUFFICES ASSUME ~pageCrossed', NEW m \in DOMAIN pageOut', NEW n \in DOMAIN pageOut', m < n,
                      pageOut'[m].update, pageOut'[n].update, pageOut'[m].move = pageOut'[n].move
               PROVE  IF pageOut'[m].move = "next" THEN pageOut'[m].args.cursor <= pageOut'[n].args.cursor
                      ELSE pageOut'[n].args.cursor <= pageOut'[m].args.cursor
    BY DEF PagesOrdered
  <2>1. ~pageCrossed /\ (pageDocument.method = "offset" => pageOut = <<>>)
    BY <1>2
  <2>2. CASE n \in DOMAIN pageOut /\ pageOut'[n] = pageOut[n]
    <3>1. m \in DOMAIN pageOut /\ pageOut'[m] = pageOut[m]
      <4>1. ~(m = k)
        BY <1>2, <2>2
      <4> QED  BY <1>2, <4>1
    <3> QED  BY <1>1, <2>1, <2>2, <3>1 DEF PagesOrdered
  <2>3. CASE n = k /\ pageOut'[n] = r
    <3>1. m \in DOMAIN pageOut /\ pageOut'[m] = pageOut[m]
      <4>1. ~(m = k)
        BY <1>2, <2>3
      <4> QED  BY <1>2, <4>1
    <3>2. update /\ ~pageDocument.single
      BY <1>3, <2>3 DEF OfItsKind
    <3>3. PICK s \in Nat, e \in Nat : Stretched(s, e)
      BY <1>1, <2>1, <3>2 DEF InfiniteShown
    <3> QED  BY <1>3, <1>11, <2>1, <2>3, <3>1, <3>2, <3>3
  <2> QED  BY <1>2, <2>2, <2>3
<1>14. P!PagesFollow'
  <2> SUFFICES ASSUME ~(pageUpset' \/ pageCrossed'), NEW n \in DOMAIN pageOut'
               PROVE  Neighbour(pageOut'[n])
    BY DEF P!PagesFollow, Neighbour
  <2>1. ~(pageUpset \/ pageCrossed)
    BY <1>2, <1>4
  <2>2. \A m \in DOMAIN pageOut : Neighbour(pageOut[m])
    BY <1>1, <2>1 DEF P!PagesFollow, Neighbour
  <2>3. Neighbour(r)
    BY DEF r
  <2> QED  BY <1>2, <2>2, <2>3
<1>15. ASSUME pageDocument.single, ~pageUpset'
       PROVE  ~pageUpset /\ ~b /\ pageOut = <<>> /\ PageTarget = pageArgs /\ PageTarget' = a
              /\ DOMAIN pageOut' = {1} /\ pageOut'[1] = r
  <2>1. ~pageUpset /\ ~b /\ pageOut = <<>>
    BY <1>4, <1>15
  <2>2. DOMAIN pageOut' = {1} /\ 1 \notin DOMAIN pageOut
    BY <1>2, <1>9, <2>1
  <2>3. pageOut'[1] = r /\ pageOut' # <<>>
    BY <1>2, <2>2
  <2> QED  BY <1>3, <2>1, <2>2, <2>3 DEF PageTarget
<1>16. PageInvButStacks'
  BY <1>5, <1>6, <1>7, <1>8, <1>10, <1>12, <1>13, <1>14 DEF PageInvButStacks
<1> QED  BY <1>15, <1>16 DEF r

-----------------------------------------------------------------------------
\* The handlers: what each asks for, and what it does to the stacks.

\* What is shown is one stretch, of a single page or of a list whose answers have not crossed.
LEMMA OneStretch ==
  ASSUME PageConstants, PageInv, pageDocument.single \/ ~pageCrossed
  PROVE  \E s, e \in Nat :
           /\ ListShows(s, e)
           /\ pageDocument.single => s = From(pageArgs) /\ e = To(pageArgs)
           /\ ~pageDocument.single => Stretched(s, e)
<1>1. CASE pageDocument.single
  <2>1. ListShows(From(pageArgs), To(pageArgs))
    BY <1>1 DEF PageInv, SingleShown
  <2> QED  BY <1>1, <2>1, ShowsIs
<1>2. CASE ~pageDocument.single
  <2>1. PICK s \in Nat, e \in Nat : Stretched(s, e)
    BY <1>2 DEF PageInv, InfiniteShown
  <2> QED  BY <1>2, <2>1 DEF Stretched
<1> QED  BY <1>1, <1>2

\* Two descriptions of what is shown agree.
LEMMA ShowsOnce ==
  ASSUME PageConstants, NEW s, NEW e, NEW s2, NEW e2, ListShows(s, e), ListShows(s2, e2), pageList # <<>>
  PROVE  s2 = s /\ e2 = e
<1>1. /\ s \in Nat /\ e \in Nat /\ s <= e + 1 /\ (pageList = <<>> <=> s = e + 1)
      /\ s <= e => pageList[1] = s /\ pageList[Len(pageList)] = e
  BY ShowsIs
<1>2. /\ s2 \in Nat /\ e2 \in Nat /\ s2 <= e2 + 1 /\ (pageList = <<>> <=> s2 = e2 + 1)
      /\ s2 <= e2 => pageList[1] = s2 /\ pageList[Len(pageList)] = e2
  BY ShowsIs
<1>3. s <= e /\ s2 <= e2
  BY <1>1, <1>2
<1> QED  BY <1>1, <1>2, <1>3

\* The ends of a page.
LEMMA WindowEnds ==
  ASSUME PageConstants, NEW a \in P!Args, a.count >= 1, P!Window(a) # <<>>
  PROVE  P!Window(a)[1] = From(a) /\ P!Window(a)[Len(P!Window(a))] = To(a)
<1>1. /\ P!Window(a) = Run(From(a), To(a)) /\ From(a) \in 1 .. ListLength + 1 /\ To(a) \in 0 .. ListLength
      /\ From(a) <= To(a) + 1 /\ ListLength \in Nat
  BY WindowIs DEF PageConstants
<1>2. From(a) \in Nat \ {0} /\ To(a) \in Nat
  BY <1>1
<1>3. /\ Len(Run(From(a), To(a))) = To(a) - From(a) + 1
      /\ \A i \in 1 .. To(a) - From(a) + 1 : Run(From(a), To(a))[i] = From(a) + i - 1
      /\ Run(From(a), To(a)) = <<>> <=> From(a) = To(a) + 1
  BY ONLY <1>1, <1>2, RunIs
<1>4. From(a) <= To(a)
  BY <1>1, <1>2, <1>3
<1>5. 1 \in 1 .. To(a) - From(a) + 1 /\ To(a) - From(a) + 1 \in 1 .. To(a) - From(a) + 1
  BY <1>2, <1>4
<1> QED  BY <1>1, <1>2, <1>3, <1>5

\* The items that stand after an item, and the pages after and before one.
LEMMA WindowFrom ==
  ASSUME PageConstants, NEW c \in P!Cursors, NEW k \in Nat, k >= 1, NEW a, a = P!Forward(c, k)
  PROVE  /\ a \in P!Args /\ a.forward /\ a.cursor = c /\ a.count = k /\ a.count >= 1
         /\ P!Window(a) # <<>> =>
              P!Window(a)[1] = c + 1 /\ P!Window(a)[Len(P!Window(a))] = To(a)
<1>1. a.forward = TRUE /\ a.cursor = c /\ a.count = k
  BY DEF P!Forward
<1>2. a \in P!Args
  BY <1>1 DEF P!Args, P!Forward
<1>3. From(a) = c + 1
  BY <1>1 DEF From
<1> QED  BY <1>1, <1>2, <1>3, WindowEnds

LEMMA WindowAfter ==
  ASSUME PageConstants, NEW c \in P!Cursors, NEW a, a = P!Forward(c, PageSize)
  PROVE  /\ a \in P!Args /\ a.forward /\ a.cursor = c /\ a.count = PageSize /\ a.count >= 1
         /\ P!Window(a) # <<>> =>
              P!Window(a)[1] = c + 1 /\ P!Window(a)[Len(P!Window(a))] = To(a)
<1>1. PageSize \in Nat /\ PageSize >= 1
  BY DEF PageConstants
<1> QED  BY <1>1, WindowFrom

LEMMA WindowBefore ==
  ASSUME PageConstants, NEW c \in P!Cursors, NEW a, a = P!Backward(c, PageSize)
  PROVE  /\ a \in P!Args /\ ~a.forward /\ a.cursor = c /\ a.count = PageSize /\ a.count >= 1
         /\ P!Window(a) # <<>> =>
              P!Window(a)[1] = From(a) /\ P!Window(a)[Len(P!Window(a))] = Edge(c) - 1
<1>1. a.forward = FALSE /\ a.cursor = c /\ a.count = PageSize /\ PageSize \in Nat /\ PageSize >= 1
  BY DEF P!Backward, PageConstants
<1>2. a \in P!Args
  BY <1>1 DEF P!Args, P!Backward
<1>3. To(a) = Edge(c) - 1
  BY <1>1 DEF To
<1> QED  BY <1>1, <1>2, <1>3, WindowEnds

\* Pop, and the cursor that Last reads.
LEMMA CursorPopped ==
  ASSUME NEW Elem, NEW q \in Seq(Elem), q # <<>>
  PROVE  /\ P!Pop(q) \in Seq(Elem) /\ Len(P!Pop(q)) = Len(q) - 1
         /\ \A i \in 1 .. Len(q) - 1 : P!Pop(q)[i] = q[i]
         /\ P!Last(q) = q[Len(q)] /\ P!Last(q) \in Elem
         /\ Len(q) \in Nat /\ Len(q) >= 1 /\ (P!Pop(q) = <<>> <=> Len(q) = 1)
<1> DEFINE p == SubSeq(q, 1, Len(q) - 1)
<1>1. Len(q) \in Nat /\ Len(q) >= 1 /\ Len(q) - 1 \in Nat /\ DOMAIN q = 1 .. Len(q) /\ Len(q) - 1 <= Len(q)
  OBVIOUS
<1>2. p \in Seq(Elem) /\ Len(p) = Len(q) - 1 /\ \A i \in 1 .. Len(q) - 1 : p[i] = q[i]
  BY <1>1
<1> HIDE DEF p
<1>3. p = <<>> <=> Len(q) = 1
  BY <1>1, <1>2
<1>4. P!Last(q) = q[Len(q)] /\ q[Len(q)] \in Elem
  BY <1>1 DEF P!Last
<1>5. P!Pop(q) = p
  BY DEF P!Pop, p
<1> QED  BY <1>1, <1>2, <1>3, <1>4, <1>5

\* One page back, and one page on, along a stack.
LEMMA StackBackPopped ==
  ASSUME PageConstants, NEW q \in Seq(P!Cursors), q # <<>>, NEW t \in P!Args, StackBack(q, t),
         NEW t2, t2.forward, t2.cursor = P!Last(q)
  PROVE  StackBack(P!Pop(q), t2) /\ P!Last(q) + PageSize = t.cursor /\ t.forward /\ t.cursor < ListLength
<1> DEFINE n == Len(q)
           p == P!Pop(q)
<1>1. /\ p \in Seq(P!Cursors) /\ Len(p) = n - 1 /\ \A i \in 1 .. n - 1 : p[i] = q[i]
      /\ P!Last(q) = q[n] /\ P!Last(q) \in P!Cursors /\ n \in Nat /\ n >= 1 /\ (p = <<>> <=> n = 1)
  BY CursorPopped
<1>2. /\ t.forward /\ t.cursor < ListLength /\ q[n] + PageSize = t.cursor
      /\ \A i \in 1 .. n - 1 : q[i] + PageSize = q[i + 1]
  BY DEF StackBack
<1>3. PageSize \in Nat /\ ListLength \in Nat /\ q[n] \in Nat /\ t.cursor \in Nat
  BY <1>1 DEF PageConstants, P!Cursors, P!Args
<1> HIDE DEF n, p
<1>4. q[n] < ListLength
  BY <1>2, <1>3
<1>5. ASSUME p # <<>>
      PROVE  p[n - 1] + PageSize = q[n] /\ \A i \in 1 .. (n - 1) - 1 : p[i] + PageSize = p[i + 1]
  <2>1. n - 1 \in 1 .. n - 1 /\ (n - 1) + 1 = n
    BY <1>1, <1>5
  <2>2. p[n - 1] + PageSize = q[n]
    BY <1>1, <1>2, <2>1
  <2>3. ASSUME NEW i \in 1 .. (n - 1) - 1 PROVE p[i] + PageSize = p[i + 1]
    <3>1. i \in 1 .. n - 1 /\ i + 1 \in 1 .. n - 1
      BY <1>1
    <3>2. p[i] = q[i] /\ p[i + 1] = q[i + 1]
      BY <1>1, <3>1
    <3> QED  BY <1>2, <3>1, <3>2
  <2> QED  BY <2>2, <2>3
<1>6. StackBack(p, t2)
  BY <1>1, <1>4, <1>5 DEF StackBack
<1> QED  BY <1>1, <1>2, <1>6 DEF p

LEMMA StackForthPopped ==
  ASSUME PageConstants, NEW q \in Seq(P!Cursors), q # <<>>, NEW t, StackForth(q, t),
         NEW t2, ~t2.forward, t2.cursor = P!Last(q)
  PROVE  StackForth(P!Pop(q), t2) /\ Edge(P!Last(q)) = Edge(t.cursor) + PageSize /\ ~t.forward
<1> DEFINE n == Len(q)
           p == P!Pop(q)
<1>1. /\ p \in Seq(P!Cursors) /\ Len(p) = n - 1 /\ \A i \in 1 .. n - 1 : p[i] = q[i]
      /\ P!Last(q) = q[n] /\ n \in Nat /\ n >= 1 /\ (p = <<>> <=> n = 1)
  BY CursorPopped
<1>2. /\ ~t.forward /\ Edge(q[n]) = Edge(t.cursor) + PageSize
      /\ \A i \in 1 .. n - 1 : Edge(q[i]) = Edge(q[i + 1]) + PageSize
  BY DEF StackForth
<1> HIDE DEF n, p
<1>3. ASSUME p # <<>>
      PROVE  /\ Edge(p[n - 1]) = Edge(q[n]) + PageSize
             /\ \A i \in 1 .. (n - 1) - 1 : Edge(p[i]) = Edge(p[i + 1]) + PageSize
  <2>1. n - 1 \in 1 .. n - 1 /\ (n - 1) + 1 = n
    BY <1>1, <1>3
  <2>2. \A i \in 1 .. (n - 1) - 1 : i \in 1 .. n - 1 /\ i + 1 \in 1 .. n - 1
    BY <1>1
  <2> QED  BY <1>1, <1>2, <2>1, <2>2
<1>4. StackForth(p, t2)
  BY <1>1, <1>3 DEF StackForth
<1> QED  BY <1>1, <1>2, <1>4 DEF p

LEMMA StackBackPushed ==
  ASSUME NEW q \in Seq(P!Cursors), NEW t \in P!Args, StackBack(q, t),
         NEW t2, t2.forward, t2.cursor < ListLength, t.cursor + PageSize = t2.cursor
  PROVE  StackBack(Append(q, t.cursor), t2)
<1> DEFINE n == Len(q)
           p == Append(q, t.cursor)
<1>1. t.cursor \in P!Cursors
  BY DEF P!Args
<1>2. /\ p \in Seq(P!Cursors) /\ Len(p) = n + 1 /\ DOMAIN p = 1 .. n + 1 /\ n \in Nat
      /\ \A i \in 1 .. n + 1 : \/ i \in DOMAIN q /\ p[i] = q[i]
                               \/ i = n + 1 /\ p[i] = t.cursor
      /\ DOMAIN q = 1 .. n
  <2>1. n \in Nat /\ DOMAIN q = 1 .. n
    OBVIOUS
  <2>2. ASSUME NEW r \in P!Cursors
        PROVE  /\ Append(q, r) \in Seq(P!Cursors) /\ Len(Append(q, r)) = Len(q) + 1
               /\ DOMAIN Append(q, r) = 1 .. Len(q) + 1
               /\ \A i \in 1 .. Len(q) + 1 : \/ i \in DOMAIN q /\ Append(q, r)[i] = q[i]
                                             \/ i = Len(q) + 1 /\ Append(q, r)[i] = r
    BY RequestAppended
  <2> QED  BY ONLY <1>1, <2>1, <2>2
<1>3. q # <<>> => q[n] + PageSize = t.cursor /\ \A i \in 1 .. n - 1 : q[i] + PageSize = q[i + 1]
  BY DEF StackBack
<1>4. n >= 1 => q # <<>>
  OBVIOUS
<1> HIDE DEF n, p
<1>5. p[n + 1] = t.cursor /\ \A i \in 1 .. n : p[i] = q[i]
  BY <1>2
<1>6. ASSUME NEW i \in 1 .. (n + 1) - 1 PROVE p[i] + PageSize = p[i + 1]
  <2>1. i \in 1 .. n /\ n >= 1 /\ (i = n \/ (i \in 1 .. n - 1 /\ i + 1 \in 1 .. n))
    BY <1>2
  <2> QED  BY <1>3, <1>4, <1>5, <2>1
<1>7. StackBack(p, t2)
  BY <1>2, <1>5, <1>6 DEF StackBack
<1> QED  BY <1>7 DEF p

LEMMA StackForthPushed ==
  ASSUME NEW q \in Seq(P!Cursors), NEW t \in P!Args, StackForth(q, t),
         NEW t2, ~t2.forward, Edge(t.cursor) = Edge(t2.cursor) + PageSize
  PROVE  StackForth(Append(q, t.cursor), t2)
<1> DEFINE n == Len(q)
           p == Append(q, t.cursor)
<1>1. t.cursor \in P!Cursors
  BY DEF P!Args
<1>2. /\ p \in Seq(P!Cursors) /\ Len(p) = n + 1 /\ DOMAIN p = 1 .. n + 1 /\ n \in Nat
      /\ \A i \in 1 .. n + 1 : \/ i \in DOMAIN q /\ p[i] = q[i]
                               \/ i = n + 1 /\ p[i] = t.cursor
      /\ DOMAIN q = 1 .. n
  <2>1. n \in Nat /\ DOMAIN q = 1 .. n
    OBVIOUS
  <2>2. ASSUME NEW r \in P!Cursors
        PROVE  /\ Append(q, r) \in Seq(P!Cursors) /\ Len(Append(q, r)) = Len(q) + 1
               /\ DOMAIN Append(q, r) = 1 .. Len(q) + 1
               /\ \A i \in 1 .. Len(q) + 1 : \/ i \in DOMAIN q /\ Append(q, r)[i] = q[i]
                                             \/ i = Len(q) + 1 /\ Append(q, r)[i] = r
    BY RequestAppended
  <2> QED  BY ONLY <1>1, <2>1, <2>2
<1>3. q # <<>> => /\ Edge(q[n]) = Edge(t.cursor) + PageSize
                  /\ \A i \in 1 .. n - 1 : Edge(q[i]) = Edge(q[i + 1]) + PageSize
  BY DEF StackForth
<1>4. n >= 1 => q # <<>>
  OBVIOUS
<1> HIDE DEF n, p
<1>5. p[n + 1] = t.cursor /\ \A i \in 1 .. n : p[i] = q[i]
  BY <1>2
<1>6. ASSUME NEW i \in 1 .. (n + 1) - 1 PROVE Edge(p[i]) = Edge(p[i + 1]) + PageSize
  <2>1. i \in 1 .. n /\ n >= 1 /\ (i = n \/ (i \in 1 .. n - 1 /\ i + 1 \in 1 .. n))
    BY <1>2
  <2> QED  BY <1>3, <1>4, <1>5, <2>1
<1>7. StackForth(p, t2)
  BY <1>2, <1>5, <1>6 DEF StackForth
<1> QED  BY <1>7 DEF p

\* What a single page shows, and where it lies.
LEMMA SingleIs ==
  ASSUME PageConstants, PageInv, pageDocument.single
  PROVE  /\ ListShows(From(pageArgs), To(pageArgs))
         /\ pageDocument.method # "offset" => pageArgs.count = PageSize
         /\ pageArgs \in P!Args /\ pageArgs.cursor \in Nat /\ pageArgs.cursor <= ListLength
         /\ PageSize \in Nat /\ PageSize >= 1 /\ ListLength \in Nat /\ Edge(pageArgs.cursor) \in Nat
         /\ Edge(pageArgs.cursor) >= 1
<1>1. /\ pageArgs \in P!Args /\ ListShows(From(pageArgs), To(pageArgs))
      /\ pageDocument.method # "offset" => pageArgs.count = PageSize
  BY DEF PageInv, P!TypeOK, SingleShown, PageLong
<1>2. /\ pageArgs.cursor \in Nat /\ pageArgs.cursor <= ListLength
      /\ PageSize \in Nat /\ PageSize >= 1 /\ ListLength \in Nat
  BY <1>1 DEF P!Args, P!Cursors, PageConstants
<1>3. Edge(pageArgs.cursor) \in Nat /\ Edge(pageArgs.cursor) >= 1
  BY <1>2 DEF Edge
<1> QED  BY <1>1, <1>2, <1>3

\* The stacks of a document that asks for the page a.
LEMMA StacksAfter ==
  ASSUME NEW move, NEW update, NEW a, PageTarget' = a, DOMAIN pageOut' = {1},
         pageOut'[1] = Sent(move, update, a), move = "refresh" => a = pageArgs', pageDocument' = pageDocument,
         pageDocument.direction = "backward" => ~a.forward,
         StackBack(pagePrevious', a), StackForth(pageNext', a)
  PROVE  StacksAgree'
BY DEF StacksAgree, Sent, StackBack, StackForth

LEMMA NextFromStackKeeps ==
  ASSUME PageConstants, PageInv, P!NextFromStack
  PROVE  PageInv'
<1> DEFINE a == P!Backward(P!Last(pageNext), PageSize)
<1>1. /\ pageDocument.method = "cursor" /\ pageDocument.single /\ pageNext # <<>>
      /\ P!Send("next", FALSE, a) /\ pageNext' = P!Pop(pageNext) /\ P!Unsettles(FALSE)
      /\ pagePrevious' = pagePrevious
  BY DEF P!NextFromStack
<1>2. pageNext \in Seq(P!Cursors) /\ pagePrevious \in Seq(P!Cursors) /\ P!TypeOK /\ StacksAgree
  BY DEF PageInv, P!TypeOK
<1>3. pageNext' \in Seq(P!Cursors) /\ P!Last(pageNext) \in P!Cursors
  BY <1>1, <1>2, CursorPopped
<1>4. /\ a \in P!Args /\ ~a.forward /\ a.cursor = P!Last(pageNext) /\ a.count = PageSize /\ a.count >= 1
      /\ P!Window(a) # <<>> => P!Window(a)[1] = From(a)
  BY <1>3, WindowBefore
<1> HIDE DEF a
<1>5. OfItsKind("next", FALSE, a)
  BY <1>1, <1>4 DEF OfItsKind, PageLong
<1>6. /\ pageUpset' = (pageUpset \/ pageOut # <<>>)
      /\ pageDocument' = pageDocument /\ pageArgs' = pageArgs
  BY <1>1 DEF P!Unsettles, P!Send
<1>7. ASSUME ~pageUpset'
      PROVE  /\ PageTarget = pageArgs /\ StackForth(pageNext', a)
             /\ Edge(a.cursor) = Edge(pageArgs.cursor) + PageSize /\ ~pageArgs.forward
             /\ StackBack(pagePrevious', a)
  <2>1. PageTarget = pageArgs /\ ~pageUpset
    BY <1>6, <1>7 DEF PageTarget
  <2>2. StackBack(pagePrevious, pageArgs) /\ StackForth(pageNext, pageArgs)
    BY <1>1, <1>2, <2>1 DEF StacksAgree
  <2>3. /\ StackForth(P!Pop(pageNext), a) /\ Edge(P!Last(pageNext)) = Edge(pageArgs.cursor) + PageSize
        /\ ~pageArgs.forward
    BY <1>1, <1>2, <1>4, <2>2, StackForthPopped
  <2>4. pagePrevious = <<>>
    BY <2>2, <2>3 DEF StackBack
  <2>5. StackBack(pagePrevious', a)
    BY <1>1, <2>4 DEF StackBack
  <2> QED  BY <1>1, <1>4, <2>1, <2>3, <2>5
<1>8. ASSUME ~pageUpset' PROVE Neighbour(Sent("next", FALSE, a))
  <2> DEFINE s == From(pageArgs)
             e == To(pageArgs)
  <2>1. /\ pageArgs.count = PageSize /\ PageSize \in Nat /\ PageSize >= 1 /\ Edge(pageArgs.cursor) \in Nat
        /\ Edge(pageArgs.cursor) >= 1 /\ ListShows(s, e)
    BY <1>1, SingleIs
  <2>2. /\ s \in Nat /\ e \in Nat /\ s <= e + 1 /\ (pageList = <<>> <=> s = e + 1)
        /\ s <= e => pageList[Len(pageList)] = e
    BY <2>1, ShowsIs
  <2>3. e = Edge(pageArgs.cursor) - 1 /\ From(a) = Edge(pageArgs.cursor)
    BY <1>4, <1>7, <1>8, <2>1 DEF From, To
  <2>4. s = e + 1 => e = 0
    BY <1>7, <1>8, <2>1, <2>3 DEF From
  <2>5. Sent("next", FALSE, a).after = e
    BY <2>2, <2>4 DEF Sent
  <2>6. From(a) = e + 1
    BY <2>1, <2>3
  <2> HIDE DEF s, e
  <2>7. Sent("next", FALSE, a).args = a /\ Sent("next", FALSE, a).move = "next" /\ "next" # "previous"
    BY DEF Sent
  <2> QED  BY <1>4, <2>5, <2>6, <2>7 DEF Neighbour
<1>9. /\ PageInvButStacks'
      /\ ~pageUpset' => PageTarget' = a /\ DOMAIN pageOut' = {1} /\ pageOut'[1] = Sent("next", FALSE, a)
  BY <1>1, <1>2, <1>3, <1>4, <1>5, <1>8, SendKeeps
<1>10. StacksAgree'
  <2>1. CASE pageUpset'
    BY <2>1 DEF StacksAgree
  <2>2. CASE ~pageUpset'
    <3>1. /\ PageTarget' = a /\ DOMAIN pageOut' = {1} /\ pageOut'[1] = Sent("next", FALSE, a)
          /\ "next" = "refresh" => a = pageArgs'
          /\ pageDocument.direction = "backward" => ~a.forward
          /\ StackBack(pagePrevious', a) /\ StackForth(pageNext', a) /\ pageDocument' = pageDocument
      BY <1>4, <1>6, <1>7, <1>9, <2>2
    <3> QED  BY <3>1, StacksAfter
  <2> QED  BY <2>1, <2>2
<1> QED  BY <1>9, <1>10 DEF PageInv, PageInvButStacks

LEMMA PreviousFromStackKeeps ==
  ASSUME PageConstants, PageInv, P!PreviousFromStack
  PROVE  PageInv'
<1> DEFINE a == P!Forward(P!Last(pagePrevious), PageSize)
<1>1. /\ pageDocument.method = "cursor" /\ pageDocument.single /\ pagePrevious # <<>>
      /\ pageDocument.direction # "backward"
      /\ P!Send("previous", FALSE, a) /\ pagePrevious' = P!Pop(pagePrevious) /\ P!Unsettles(FALSE)
      /\ pageNext' = pageNext
  BY DEF P!PreviousFromStack
<1>2. pageNext \in Seq(P!Cursors) /\ pagePrevious \in Seq(P!Cursors) /\ P!TypeOK /\ StacksAgree
  BY DEF PageInv, P!TypeOK
<1>3. pagePrevious' \in Seq(P!Cursors) /\ P!Last(pagePrevious) \in P!Cursors
  BY <1>1, <1>2, CursorPopped
<1>4. /\ a \in P!Args /\ a.forward /\ a.cursor = P!Last(pagePrevious) /\ a.count = PageSize /\ a.count >= 1
      /\ P!Window(a) # <<>> => P!Window(a)[Len(P!Window(a))] = To(a)
  BY <1>3, WindowAfter
<1> HIDE DEF a
<1>5. OfItsKind("previous", FALSE, a)
  BY <1>1, <1>4 DEF OfItsKind, PageLong
<1>6. /\ pageUpset' = (pageUpset \/ pageOut # <<>>)
      /\ pageDocument' = pageDocument /\ pageArgs' = pageArgs
  BY <1>1 DEF P!Unsettles, P!Send
<1>7. ASSUME ~pageUpset'
      PROVE  /\ PageTarget = pageArgs /\ StackBack(pagePrevious', a)
             /\ a.cursor + PageSize = pageArgs.cursor /\ pageArgs.forward /\ pageArgs.cursor < ListLength
             /\ StackForth(pageNext', a)
  <2>1. PageTarget = pageArgs /\ ~pageUpset
    BY <1>6, <1>7 DEF PageTarget
  <2>2. StackBack(pagePrevious, pageArgs) /\ StackForth(pageNext, pageArgs)
    BY <1>1, <1>2, <2>1 DEF StacksAgree
  <2>3. pageArgs \in P!Args
    BY <1>2 DEF P!TypeOK
  <2>4. /\ StackBack(P!Pop(pagePrevious), a) /\ P!Last(pagePrevious) + PageSize = pageArgs.cursor
        /\ pageArgs.forward /\ pageArgs.cursor < ListLength
    BY <1>1, <1>2, <1>4, <2>2, <2>3, StackBackPopped
  <2>5. pageNext = <<>>
    BY <2>2, <2>4 DEF StackForth
  <2>6. StackForth(pageNext', a)
    BY <1>1, <2>5 DEF StackForth
  <2> QED  BY <1>1, <1>4, <2>1, <2>4, <2>6
<1>8. ASSUME ~pageUpset' PROVE Neighbour(Sent("previous", FALSE, a))
  <2> DEFINE s == From(pageArgs)
             e == To(pageArgs)
  <2>1. /\ pageArgs.count = PageSize /\ PageSize \in Nat /\ PageSize >= 1 /\ pageArgs.cursor \in Nat
        /\ ListLength \in Nat /\ ListShows(s, e)
    BY <1>1, SingleIs
  <2>2. /\ s \in Nat /\ e \in Nat /\ s <= e + 1 /\ (pageList = <<>> <=> s = e + 1)
        /\ s <= e => pageList[1] = s
    BY <2>1, ShowsIs
  <2>3. s = pageArgs.cursor + 1 /\ s <= e
    BY <1>7, <1>8, <2>1 DEF From, To
  <2>4. To(a) = pageArgs.cursor
    BY <1>4, <1>7, <1>8, <2>1 DEF To
  <2>5. Sent("previous", FALSE, a).before = s
    <3>1. pageList # <<>>
      BY <2>2, <2>3
    <3> QED  BY <2>2, <2>3, <3>1 DEF Sent
  <2>6. To(a) = s - 1
    BY <2>1, <2>3, <2>4
  <2> HIDE DEF s, e
  <2>7. Sent("previous", FALSE, a).args = a /\ Sent("previous", FALSE, a).move = "previous" /\ "next" # "previous"
    BY DEF Sent
  <2> QED  BY <1>4, <2>5, <2>6, <2>7 DEF Neighbour
<1>9. /\ PageInvButStacks'
      /\ ~pageUpset' => PageTarget' = a /\ DOMAIN pageOut' = {1} /\ pageOut'[1] = Sent("previous", FALSE, a)
  BY <1>1, <1>2, <1>3, <1>4, <1>5, <1>8, SendKeeps
<1>10. StacksAgree'
  <2>1. CASE pageUpset'
    BY <2>1 DEF StacksAgree
  <2>2. CASE ~pageUpset'
    <3>1. /\ PageTarget' = a /\ DOMAIN pageOut' = {1} /\ pageOut'[1] = Sent("previous", FALSE, a)
          /\ "previous" = "refresh" => a = pageArgs'
          /\ pageDocument.direction = "backward" => ~a.forward
          /\ StackBack(pagePrevious', a) /\ StackForth(pageNext', a) /\ pageDocument' = pageDocument
      BY <1>1, <1>4, <1>6, <1>7, <1>9, <2>2
    <3> QED  BY <3>1, StacksAfter
  <2> QED  BY <2>1, <2>2
<1> QED  BY <1>9, <1>10 DEF PageInv, PageInvButStacks

LEMMA NextPageKeeps ==
  ASSUME PageConstants, PageInv, P!NextPage
  PROVE  PageInv'
<1> DEFINE a == P!Forward(pageInfo.end, PageSize)
           d == pageDocument
           u == ~d.single
           b == ~pageArgs.forward
<1>1. /\ d.method = "cursor" /\ pageInfo.hasNext /\ P!Send("next", u, a) /\ P!Unsettles(b)
      /\ d.single => d.direction # "backward"
      /\ pagePrevious' = IF d.single /\ d.direction \in {"forward", "both"}
                         THEN Append(pagePrevious, IF pageArgs.forward THEN pageArgs.cursor ELSE 0)
                         ELSE pagePrevious
      /\ pageNext' = pageNext
  BY DEF P!NextPage
<1>2. /\ pageNext \in Seq(P!Cursors) /\ pagePrevious \in Seq(P!Cursors) /\ P!TypeOK /\ StacksAgree
      /\ d \in P!PagedDocuments /\ pageArgs \in P!Args /\ pageInfo \in P!Info
  BY DEF PageInv, P!TypeOK
<1>3. /\ pageInfo.end \in P!Cursors /\ pageArgs.cursor \in P!Cursors /\ u \in BOOLEAN /\ b \in BOOLEAN
      /\ d.direction \in {"forward", "backward", "both"} /\ 0 \in P!Cursors
  BY <1>2 DEF P!Info, P!Args, P!PagedDocuments, P!Cursors, PageConstants
<1>4. /\ a \in P!Args /\ a.forward /\ a.cursor = pageInfo.end /\ a.count = PageSize /\ a.count >= 1
      /\ P!Window(a) # <<>> => P!Window(a)[1] = a.cursor + 1
  BY <1>3, WindowAfter
<1> HIDE DEF a, u, b
<1>5. OfItsKind("next", u, a)
  BY <1>1, <1>4 DEF OfItsKind, PageLong, u
<1>6. pagePrevious' \in Seq(P!Cursors) /\ pageNext' \in Seq(P!Cursors)
  BY <1>1, <1>2, <1>3
<1>7. \A s, e \in Nat : u /\ Stretched(s, e) => JoinsAt("next", a, s, e)
  <2> TAKE s \in Nat, e \in Nat
  <2>1. ASSUME Stretched(s, e) PROVE s <= e /\ pageInfo.end = e
    BY <1>1, <2>1, ShowsIs DEF Stretched
  <2> QED  BY <1>4, <2>1 DEF JoinsAt, PageLong
<1>8. ASSUME d.single \/ ~pageCrossed PROVE Neighbour(Sent("next", u, a))
  <2>1. PICK s \in Nat, e \in Nat : ListShows(s, e)
    BY <1>8, OneStretch
  <2>2. s <= e /\ pageInfo.end = e /\ (pageList = <<>> <=> s = e + 1) /\ pageList[Len(pageList)] = e
    BY <1>1, <2>1, ShowsIs
  <2>3. Sent("next", u, a).after = a.cursor
    BY <1>4, <2>2 DEF Sent
  <2>4. Sent("next", u, a).args = a /\ Sent("next", u, a).move = "next" /\ "next" # "previous"
    BY DEF Sent
  <2> QED  BY <1>4, <2>3, <2>4 DEF Neighbour
<1>9. pageCrossed' = pageCrossed /\ pageDocument' = d
  BY <1>1, <1>2 DEF P!Send, P!TypeOK
<1>10. /\ PageInvButStacks'
       /\ d.single /\ ~pageUpset' =>
            ~pageUpset /\ ~b /\ pageOut = <<>> /\ PageTarget = pageArgs /\ PageTarget' = a
            /\ DOMAIN pageOut' = {1} /\ pageOut'[1] = Sent("next", u, a)
  BY <1>1, <1>3, <1>4, <1>5, <1>6, <1>7, <1>8, <1>9, SendKeeps
<1>11. StacksAgree'
  <2>1. CASE pageUpset' \/ ~d.single
    BY <1>9, <2>1 DEF StacksAgree
  <2>2. CASE ~pageUpset' /\ d.single
    <3>1. /\ ~pageUpset /\ pageArgs.forward /\ PageTarget = pageArgs /\ PageTarget' = a
          /\ DOMAIN pageOut' = {1} /\ pageOut'[1] = Sent("next", u, a)
      BY <1>10, <2>2 DEF b
    <3>2. StackBack(pagePrevious, pageArgs) /\ StackForth(pageNext, pageArgs)
      BY <1>1, <1>2, <2>2, <3>1 DEF StacksAgree
    <3>3. pageNext = <<>>
      BY <3>1, <3>2 DEF StackForth
    <3>4. /\ ListShows(From(pageArgs), To(pageArgs)) /\ pageArgs.count = PageSize /\ pageArgs.cursor \in Nat
          /\ PageSize \in Nat /\ ListLength \in Nat
      BY <1>1, <2>2, SingleIs
    <3>5. pageInfo.end = To(pageArgs) /\ To(pageArgs) < ListLength
      BY <1>1, <3>4, ShowsIs
    <3>6. To(pageArgs) = pageArgs.cursor + PageSize
      BY <3>1, <3>4, <3>5 DEF To
    <3>7. pagePrevious' = Append(pagePrevious, pageArgs.cursor)
      BY <1>1, <1>3, <2>2, <3>1
    <3>8. a.cursor < ListLength /\ pageArgs.cursor + PageSize = a.cursor
      BY <1>4, <3>5, <3>6
    <3>9. StackBack(pagePrevious', a)
      BY <1>2, <1>4, <3>2, <3>7, <3>8, StackBackPushed
    <3>10. StackForth(pageNext', a)
      BY <1>1, <3>3 DEF StackForth
    <3>11. ("next" = "refresh" => a = pageArgs') /\ (d.direction = "backward" => ~a.forward)
      BY <1>1, <2>2
    <3> QED  BY <1>9, <3>1, <3>9, <3>10, <3>11, StacksAfter
  <2> QED  BY <2>1, <2>2
<1> QED  BY <1>10, <1>11 DEF PageInv, PageInvButStacks

LEMMA PreviousPageKeeps ==
  ASSUME PageConstants, PageInv, P!PreviousPage
  PROVE  PageInv'
<1> DEFINE a == P!Backward(pageInfo.start, PageSize)
           d == pageDocument
           u == ~d.single
<1>1. /\ d.method = "cursor" /\ pageInfo.hasPrevious /\ P!Send("previous", u, a) /\ P!Unsettles(FALSE)
      /\ d.single => d.direction # "forward" /\ (d.direction = "both" => pagePrevious = <<>>)
      /\ pageNext' = IF d.single /\ d.direction \in {"backward", "both"} /\ ~pageArgs.forward
                     THEN Append(pageNext, pageArgs.cursor) ELSE pageNext
      /\ pagePrevious' = pagePrevious
  BY DEF P!PreviousPage
<1>2. /\ pageNext \in Seq(P!Cursors) /\ pagePrevious \in Seq(P!Cursors) /\ P!TypeOK /\ StacksAgree
      /\ d \in P!PagedDocuments /\ pageArgs \in P!Args /\ pageInfo \in P!Info
  BY DEF PageInv, P!TypeOK
<1>3. /\ pageInfo.start \in P!Cursors /\ pageArgs.cursor \in P!Cursors /\ u \in BOOLEAN
      /\ d.direction \in {"forward", "backward", "both"}
  BY <1>2 DEF P!Info, P!Args, P!PagedDocuments
<1>4. /\ a \in P!Args /\ ~a.forward /\ a.cursor = pageInfo.start /\ a.count = PageSize /\ a.count >= 1
      /\ P!Window(a) # <<>> => P!Window(a)[Len(P!Window(a))] = Edge(a.cursor) - 1
  BY <1>3, WindowBefore
<1> HIDE DEF a, u
<1>5. OfItsKind("previous", u, a)
  BY <1>1, <1>4 DEF OfItsKind, PageLong, u
<1>6. pagePrevious' \in Seq(P!Cursors) /\ pageNext' \in Seq(P!Cursors)
  BY <1>1, <1>2, <1>3
<1>7. \A s, e \in Nat : u /\ Stretched(s, e) => JoinsAt("previous", a, s, e)
  <2> TAKE s \in Nat, e \in Nat
  <2>1. ASSUME Stretched(s, e) PROVE s <= e /\ pageInfo.start = s
    BY <1>1, <2>1, ShowsIs DEF Stretched
  <2> QED  BY <1>4, <2>1 DEF JoinsAt, PageLong
<1>8. ASSUME d.single \/ ~pageCrossed PROVE Neighbour(Sent("previous", u, a))
  <2>1. PICK s \in Nat, e \in Nat : ListShows(s, e)
    BY <1>8, OneStretch
  <2>2. s <= e /\ s > 1 /\ pageInfo.start = s /\ (pageList = <<>> <=> s = e + 1) /\ pageList[1] = s
    BY <1>1, <2>1, ShowsIs
  <2>3. Sent("previous", u, a).before = a.cursor /\ Edge(a.cursor) = a.cursor
    BY <1>4, <2>2 DEF Sent, Edge
  <2>4. Sent("previous", u, a).args = a /\ Sent("previous", u, a).move = "previous" /\ "next" # "previous"
    BY DEF Sent
  <2> QED  BY <1>4, <2>3, <2>4 DEF Neighbour
<1>9. /\ pageCrossed' = pageCrossed /\ pageDocument' = d
      /\ pageUpset' = (pageUpset \/ (d.single /\ pageOut # <<>>))
  BY <1>1, <1>2 DEF P!Send, P!TypeOK, P!Unsettles
<1>10. /\ PageInvButStacks'
       /\ d.single /\ ~pageUpset' =>
            ~pageUpset /\ pageOut = <<>> /\ PageTarget = pageArgs /\ PageTarget' = a
            /\ DOMAIN pageOut' = {1} /\ pageOut'[1] = Sent("previous", u, a)
  BY <1>1, <1>3, <1>4, <1>5, <1>6, <1>7, <1>8, <1>9, SendKeeps
<1>11. StacksAgree'
  <2>1. CASE pageUpset' \/ ~d.single
    BY <1>9, <2>1 DEF StacksAgree
  <2>2. CASE ~pageUpset' /\ d.single
    <3>1. /\ ~pageUpset /\ PageTarget = pageArgs /\ PageTarget' = a
          /\ DOMAIN pageOut' = {1} /\ pageOut'[1] = Sent("previous", u, a)
      BY <1>10, <2>2
    <3>2. /\ StackBack(pagePrevious, pageArgs) /\ StackForth(pageNext, pageArgs)
          /\ d.direction = "backward" => ~pageArgs.forward
      BY <1>1, <1>2, <2>2, <3>1 DEF StacksAgree
    <3>3. pagePrevious = <<>>
      <4>1. CASE pageArgs.forward
        BY <1>1, <1>3, <2>2, <3>2, <4>1
      <4>2. CASE ~pageArgs.forward
        BY <3>2, <4>2 DEF StackBack
      <4> QED  BY <4>1, <4>2
    <3>4. /\ ListShows(From(pageArgs), To(pageArgs)) /\ pageArgs.count = PageSize /\ pageArgs.cursor \in Nat
          /\ PageSize \in Nat /\ ListLength \in Nat /\ Edge(pageArgs.cursor) \in Nat
      BY <1>1, <2>2, SingleIs
    <3>5. pageInfo.start = From(pageArgs) /\ From(pageArgs) > 1
      BY <1>1, <3>4, ShowsIs
    <3>6. StackForth(pageNext', a)
      <4>1. CASE pageArgs.forward
        <5>1. pageNext = <<>> /\ pageNext' = pageNext
          BY <1>1, <3>2, <4>1 DEF StackForth
        <5> QED  BY <5>1 DEF StackForth
      <4>2. CASE ~pageArgs.forward
        <5>1. pageNext' = Append(pageNext, pageArgs.cursor)
          BY <1>1, <1>3, <2>2, <4>2
        <5>2. From(pageArgs) = Edge(pageArgs.cursor) - PageSize
          BY <3>4, <3>5, <4>2 DEF From
        <5>3. Edge(a.cursor) = From(pageArgs)
          BY <1>4, <3>5 DEF Edge
        <5>4. Edge(pageArgs.cursor) = Edge(a.cursor) + PageSize
          BY <3>4, <5>2, <5>3
        <5> QED  BY <1>2, <1>4, <3>2, <5>1, <5>4, StackForthPushed
      <4> QED  BY <4>1, <4>2
    <3>7. StackBack(pagePrevious', a)
      BY <1>1, <3>3 DEF StackBack
    <3>8. ("previous" = "refresh" => a = pageArgs') /\ (d.direction = "backward" => ~a.forward)
      BY <1>4
    <3> QED  BY <1>9, <3>1, <3>6, <3>7, <3>8, StacksAfter
  <2> QED  BY <2>1, <2>2
<1> QED  BY <1>10, <1>11 DEF PageInv, PageInvButStacks

LEMMA FirstOf ==
  ASSUME NEW Elem, NEW q \in Seq(Elem), q # <<>>
  PROVE  q[1] \in Elem
<1>1. Len(q) \in Nat /\ Len(q) >= 1
  OBVIOUS
<1> QED  BY <1>1

LEMMA NextOffsetKeeps ==
  ASSUME PageConstants, PageInv, P!NextOffset
  PROVE  PageInv'
<1> DEFINE shown == IF pageList = <<>> THEN PageSize ELSE Len(pageList)
           d == pageDocument
           wanted == shown + (IF d.single THEN pageArgs.cursor ELSE 0)
           offset == P!Least(ListLength, wanted)
           a == P!Forward(offset, pageArgs.count)
           u == ~d.single
<1>1. /\ d.method = "offset" /\ P!Send("next", u, a) /\ P!Unsettles(FALSE)
      /\ pagePrevious' = pagePrevious /\ pageNext' = pageNext
  BY DEF P!NextOffset, P!Offset
<1>2. /\ pageNext \in Seq(P!Cursors) /\ pagePrevious \in Seq(P!Cursors) /\ P!TypeOK /\ pageList \in Seq(1 .. ListLength)
      /\ d \in P!PagedDocuments /\ pageArgs \in P!Args /\ pageArgs.forward
      /\ ListLength \in Nat /\ PageSize \in Nat /\ PageSize >= 1 /\ pageArgs.count >= 1
  BY <1>1 DEF PageInv, P!TypeOK, PageKinds, OffsetsForward, PageConstants
<1>3. pageArgs.cursor \in Nat /\ pageArgs.count \in Nat /\ shown \in Nat /\ u \in BOOLEAN
  BY <1>2 DEF P!Args, P!Cursors, P!PagedDocuments
<1>4. wanted \in Nat
  BY <1>3
<1>5. offset = IF ListLength < wanted THEN ListLength ELSE wanted
  BY DEF P!Least
<1>6. offset \in P!Cursors
  BY <1>2, <1>4, <1>5 DEF P!Cursors
<1>7. /\ a \in P!Args /\ a.forward /\ a.cursor = offset /\ a.count >= 1
      /\ P!Window(a) # <<>> => P!Window(a)[1] = a.cursor + 1
  BY <1>2, <1>3, <1>6, WindowFrom
<1> HIDE DEF a, u, offset
<1>8. OfItsKind("next", u, a)
  BY <1>1, <1>7 DEF OfItsKind, PageLong, u
<1>9. ASSUME NEW s \in Nat, NEW e \in Nat, Stretched(s, e), ~d.single
      PROVE  a.cursor = e /\ s = 1 /\ (s <= e \/ ListLength = 0)
  <2>1. s = 1 /\ (e = 0 => ListLength = 0) /\ ListShows(s, e)
    BY <1>1, <1>9 DEF Stretched
  <2>2. Len(pageList) = e /\ e <= ListLength /\ (pageList = <<>> <=> e = 0)
    BY <2>1, ShowsIs
  <2>3. offset = e
    BY <1>2, <1>5, <1>9, <2>1, <2>2
  <2> QED  BY <1>7, <2>1, <2>3
<1>10. \A s, e \in Nat : u /\ Stretched(s, e) => JoinsAt("next", a, s, e)
  BY <1>1, <1>7, <1>9 DEF JoinsAt, PageLong, u
<1>11. ASSUME d.single \/ ~pageCrossed, P!Window(a) # <<>>
       PROVE  Sent("next", u, a).after = a.cursor
  <2>1. PICK s \in Nat, e \in Nat : /\ ListShows(s, e)
                                    /\ d.single => s = From(pageArgs) /\ e = To(pageArgs)
                                    /\ ~d.single => Stretched(s, e)
    BY <1>11, OneStretch
  <2>2. /\ Len(pageList) = e - s + 1 /\ (pageList = <<>> <=> s = e + 1) /\ s <= e + 1
        /\ s <= e => pageList[Len(pageList)] = e
    BY <2>1, ShowsIs
  <2>3. Sent("next", u, a).after = IF s <= e THEN e ELSE 0
    BY <2>1, <2>2 DEF Sent
  <2>4. CASE ~d.single
    BY <1>9, <2>1, <2>3, <2>4
  <2>5. CASE d.single
    <3>1. pageArgs.cursor <= ListLength
      BY <2>5, SingleIs
    <3>2. s = pageArgs.cursor + 1 /\ e = IF pageArgs.cursor + pageArgs.count < ListLength THEN pageArgs.cursor + pageArgs.count ELSE ListLength
      BY <1>2, <2>1, <2>5, <3>1 DEF From, To
    <3>3. CASE s <= e
      <4>1. shown = e - pageArgs.cursor
        <5>1. pageList # <<>> /\ Len(pageList) = e - s + 1
          BY <2>1, <2>2, <3>3
        <5>2. shown = Len(pageList)
          BY <5>1
        <5>3. pageArgs.cursor \in Int
          BY <1>3
        <5> HIDE DEF shown
        <5> QED  BY <2>1, <3>2, <5>1, <5>2, <5>3
      <4>2. wanted = e /\ e <= ListLength
        BY <1>2, <1>3, <2>5, <3>2, <4>1
      <4> QED  BY <1>2, <1>5, <1>7, <2>3, <3>3, <4>2
    <3>4. CASE ~(s <= e)
      <4>1. pageArgs.cursor = ListLength /\ shown = PageSize
        <5>1. pageList = <<>>
          BY <2>1, <2>2, <3>4
        <5>2. pageArgs.cursor \in Nat /\ pageArgs.count \in Nat \ {0} /\ ListLength \in Nat
          BY <1>2, <1>3
        <5>3. e < pageArgs.cursor + 1
          BY <2>1, <3>2, <3>4
        <5> QED  BY <3>1, <3>2, <5>1, <5>2, <5>3
      <4>2. offset = ListLength
        BY <1>2, <1>5, <2>5, <4>1
      <4>3. P!Window(a)[1] = ListLength + 1
        BY <1>7, <1>11, <4>2
      <4>4. P!Window(a) \in Seq(1 .. ListLength)
        BY <1>7, WindowIs
      <4>5. P!Window(a)[1] \in 1 .. ListLength
        BY <1>11, <4>4, FirstOf
      <4> QED  BY <1>2, <4>3, <4>5
    <3> QED  BY <3>3, <3>4
  <2> QED  BY <2>4, <2>5
<1>12. d.single \/ ~pageCrossed => Neighbour(Sent("next", u, a))
  <2>1. Sent("next", u, a).args = a /\ Sent("next", u, a).move = "next" /\ "next" # "previous"
    BY DEF Sent
  <2> QED  BY <1>7, <1>11, <2>1 DEF Neighbour
<1>13. (~pageCrossed' => ~pageCrossed) /\ pageDocument' = d
  BY <1>1, <1>2 DEF P!Send, P!TypeOK
<1>14. PageInvButStacks'
  <2>1. ~(pageUpset' \/ pageCrossed') => Neighbour(Sent("next", u, a))
    BY <1>12, <1>13
  <2>2. pagePrevious' \in Seq(P!Cursors) /\ pageNext' \in Seq(P!Cursors)
    BY <1>1, <1>2
  <2> QED  BY <1>1, <1>3, <1>7, <1>8, <1>10, <2>1, <2>2, SendKeeps
<1>15. StacksAgree'
  BY <1>1, <1>13 DEF StacksAgree
<1> QED  BY <1>14, <1>15 DEF PageInv, PageInvButStacks

LEMMA FetchKeeps ==
  ASSUME PageConstants, PageInv, P!Fetch
  PROVE  PageInv'
<1> DEFINE d == pageDocument
           n == IF d.method = "offset" THEN P!Offset ELSE Len(pageList)
<1>1. PICK a :
        /\ P!Send("refresh", FALSE, a) /\ P!Unsettles(FALSE)
        /\ pagePrevious' = pagePrevious /\ pageNext' = pageNext
        /\ a = CASE n <= PageSize -> pageArgs
                 [] n > PageSize /\ d.method = "offset" -> P!Forward(pageArgs.cursor, n)
                 [] n > PageSize /\ d.method = "cursor" /\ ~pageInfo.hasPrevious -> P!Forward(0, n)
                 [] n > PageSize /\ d.method = "cursor" /\ pageInfo.hasPrevious
                    /\ ~pageInfo.hasNext -> P!Backward(0, n)
                 [] OTHER -> pageArgs
  BY DEF P!Fetch
<1>2. /\ pageNext \in Seq(P!Cursors) /\ pagePrevious \in Seq(P!Cursors) /\ P!TypeOK /\ pageList \in Seq(1 .. ListLength)
      /\ d \in P!PagedDocuments /\ pageArgs \in P!Args /\ d.method \in {"cursor", "offset"} /\ StacksAgree
      /\ ListLength \in Nat /\ PageSize \in Nat /\ PageSize >= 1 /\ n \in Nat /\ pageArgs.count >= 1
      /\ d.method = "offset" => pageArgs.forward /\ (d.single \/ pageArgs.cursor = 0)
  <2>1. /\ P!TypeOK /\ PageKinds /\ OffsetsForward /\ StacksAgree
        /\ ListLength \in Nat /\ PageSize \in Nat /\ PageSize >= 1 /\ PageMethods \subseteq {"cursor", "offset"}
    BY DEF PageInv, PageConstants
  <2>2. /\ pageNext \in Seq(P!Cursors) /\ pagePrevious \in Seq(P!Cursors) /\ pageList \in Seq(1 .. ListLength)
        /\ d \in P!PagedDocuments /\ pageArgs \in P!Args
    BY <2>1 DEF P!TypeOK
  <2>3. n \in Nat
    BY <2>1, <2>2 DEF P!Offset, P!Args, P!Cursors
  <2>4. d.method \in {"cursor", "offset"}
    BY <2>1, <2>2 DEF P!PagedDocuments
  <2>5. pageArgs.count >= 1 /\ (d.method = "offset" => pageArgs.forward /\ (d.single \/ pageArgs.cursor = 0))
    BY <2>1 DEF PageKinds, OffsetsForward
  <2> QED  BY <2>1, <2>2, <2>3, <2>4, <2>5
<1>3. \/ a = pageArgs
      \/ n > PageSize /\ d.method = "offset" /\ a = P!Forward(pageArgs.cursor, n)
      \/ n > PageSize /\ d.method = "cursor" /\ (a = P!Forward(0, n) \/ a = P!Backward(0, n))
  <2>1. CASE n <= PageSize
    <3>1. ~(n > PageSize)
      BY <1>2, <2>1
    <3> QED  BY <1>1, <2>1, <3>1
  <2>2. CASE n > PageSize
    <3>1. ~(n <= PageSize)
      BY <1>2, <2>2
    <3> QED  BY <1>1, <1>2, <2>2, <3>1
  <2> QED  BY <1>2, <2>1, <2>2
<1> HIDE DEF n
<1>4. ASSUME d.single, d.method # "offset" PROVE a = pageArgs
  <2>1. /\ ListShows(From(pageArgs), To(pageArgs)) /\ pageArgs.count = PageSize
        /\ pageArgs.cursor \in Nat /\ pageArgs.cursor <= ListLength /\ Edge(pageArgs.cursor) \in Nat
    BY <1>4, SingleIs
  <2>2. n = To(pageArgs) - From(pageArgs) + 1
    BY <1>4, <2>1, ShowsIs DEF n
  <2>3. n <= PageSize
    <3>1. PageSize \in Nat /\ ListLength \in Nat
      BY <1>2 DEF PageConstants
    <3>2. CASE pageArgs.forward
      BY <2>1, <2>2, <3>1, <3>2 DEF From, To
    <3>3. CASE ~pageArgs.forward
      BY <2>1, <2>2, <3>1, <3>3 DEF From, To
    <3> QED  BY <3>2, <3>3
  <2> QED  BY <1>2, <1>3, <2>3
<1>5. \A c \in P!Cursors : P!Forward(c, n) \in P!Args /\ P!Backward(c, n) \in P!Args
  BY <1>2 DEF P!Args, P!Forward, P!Backward
<1>6. 0 \in P!Cursors /\ pageArgs.cursor \in P!Cursors
  BY <1>2 DEF P!Args, P!Cursors
<1>7. a \in P!Args /\ a.count >= 1
  <2>1. CASE a = pageArgs
    BY <1>2, <2>1
  <2>2. CASE n > PageSize /\ (a = P!Forward(pageArgs.cursor, n) \/ a = P!Forward(0, n) \/ a = P!Backward(0, n))
    <3>1. a \in P!Args
      BY <1>5, <1>6, <2>2
    <3>2. a.count = n
      BY <2>2 DEF P!Forward, P!Backward
    <3> QED  BY <1>2, <2>2, <3>1, <3>2
  <2> QED  BY <1>3, <2>1, <2>2
<1>8. d.method = "offset" => a.forward /\ (d.single \/ a.cursor = 0)
  <2>1. P!Forward(pageArgs.cursor, n).forward /\ P!Forward(pageArgs.cursor, n).cursor = pageArgs.cursor
    BY DEF P!Forward
  <2> QED  BY <1>2, <1>3, <2>1
<1>9. OfItsKind("refresh", FALSE, a)
  <2>1. d.single => PageLong(a)
    BY <1>4, SingleIs DEF PageLong
  <2> QED  BY <1>7, <1>8, <2>1 DEF OfItsKind
<1>10. Neighbour(Sent("refresh", FALSE, a))
  BY DEF Neighbour, Sent
<1>11. /\ pageDocument' = d /\ pageArgs' = pageArgs
       /\ pageUpset' = (pageUpset \/ (d.single /\ pageOut # <<>>))
  BY <1>1 DEF P!Send, P!Unsettles
<1>12. /\ PageInvButStacks'
       /\ d.single /\ ~pageUpset' =>
            ~pageUpset /\ PageTarget = pageArgs /\ PageTarget' = a
            /\ DOMAIN pageOut' = {1} /\ pageOut'[1] = Sent("refresh", FALSE, a)
  <2>1. pagePrevious' \in Seq(P!Cursors) /\ pageNext' \in Seq(P!Cursors)
    BY <1>1, <1>2
  <2> QED  BY <1>1, <1>7, <1>9, <1>10, <2>1, SendKeeps
<1>13. StacksAgree'
  <2>1. CASE pageUpset' \/ ~d.single \/ d.method # "cursor"
    BY <1>11, <2>1 DEF StacksAgree
  <2>2. CASE ~pageUpset' /\ d.single /\ d.method = "cursor"
    <3>1. /\ ~pageUpset /\ PageTarget = pageArgs /\ PageTarget' = a /\ a = pageArgs
          /\ DOMAIN pageOut' = {1} /\ pageOut'[1] = Sent("refresh", FALSE, a)
      BY <1>4, <1>12, <2>2
    <3>2. /\ StackBack(pagePrevious, a) /\ StackForth(pageNext, a)
          /\ d.direction = "backward" => ~a.forward
      BY <1>2, <2>2, <3>1 DEF StacksAgree
    <3>3. StackBack(pagePrevious', a) /\ StackForth(pageNext', a) /\ ("refresh" = "refresh" => a = pageArgs')
      BY <1>1, <1>11, <3>1, <3>2
    <3> QED  BY <1>11, <3>1, <3>2, <3>3, StacksAfter
  <2> QED  BY <2>1, <2>2
<1> QED  BY <1>12, <1>13 DEF PageInv, PageInvButStacks

-----------------------------------------------------------------------------
\* Answers and failures.

\* What is left waiting when the request at n is taken out.
LEMMA OutRemoved ==
  ASSUME PageInv, NEW n \in DOMAIN pageOut, pageOut' = P!RemoveAt(pageOut, n)
  PROVE  /\ pageOut \in Seq(P!Request) /\ pageOut[n] \in P!Request
         /\ Len(pageOut) \in Nat /\ DOMAIN pageOut = 1 .. Len(pageOut)
         /\ pageOut' \in Seq(P!Request) /\ Len(pageOut') = Len(pageOut) - 1
         /\ DOMAIN pageOut' = 1 .. Len(pageOut) - 1
         /\ \A i \in DOMAIN pageOut' :
              /\ pageOut'[i] = pageOut[Later(i, n)] /\ Later(i, n) \in DOMAIN pageOut /\ Later(i, n) # n
              /\ \A j \in DOMAIN pageOut' : i < j => Later(i, n) < Later(j, n)
         /\ Len(pageOut) <= 1 => n = 1 /\ DOMAIN pageOut' = {} /\ pageOut' = <<>> /\ pageOut # <<>>
<1>1. pageOut \in Seq(P!Request)
  BY DEF PageInv, P!TypeOK
<1>2. /\ pageOut' \in Seq(P!Request) /\ Len(pageOut') = Len(pageOut) - 1
      /\ DOMAIN pageOut' = 1 .. Len(pageOut) - 1
      /\ \A i \in 1 .. Len(pageOut) - 1 : /\ pageOut'[i] = pageOut[Later(i, n)]
                                          /\ Later(i, n) \in DOMAIN pageOut /\ Later(i, n) # n
  BY <1>1, RequestRemoved
<1>3. pageOut[n] \in P!Request /\ Len(pageOut) \in Nat /\ DOMAIN pageOut = 1 .. Len(pageOut)
  BY <1>1
<1>4. n \in Nat /\ \A i \in 1 .. Len(pageOut) - 1 : i \in Nat
  BY <1>3
<1>5. \A i, j \in 1 .. Len(pageOut) - 1 : i < j => Later(i, n) < Later(j, n)
  BY <1>3, <1>4 DEF Later
<1>6. Len(pageOut) <= 1 => n = 1 /\ 1 .. Len(pageOut) - 1 = {} /\ Len(pageOut) - 1 = 0 /\ pageOut # <<>>
  BY <1>3
<1>7. Len(pageOut) - 1 = 0 => pageOut' = <<>>
  <2>1. \A q \in Seq(P!Request) : Len(q) = 0 => q = <<>>
    OBVIOUS
  <2> QED  BY <1>2, <2>1
<1> QED  BY <1>1, <1>2, <1>3, <1>5, <1>6, <1>7

\* The parts of the invariant that speak of each request, once one is gone.
LEMMA RemovedKeeps ==
  ASSUME PageConstants, PageInv, NEW n \in DOMAIN pageOut, pageOut' = P!RemoveAt(pageOut, n),
         pageDocument' = pageDocument, pageCrossed' \in BOOLEAN, pageUpset' \in BOOLEAN,
         pageCrossed => pageCrossed', pageUpset => pageUpset',
         pageArgs' = pageArgs \/ (pageArgs' = pageOut[n].args /\ ~pageOut[n].update)
  PROVE  /\ PageKinds' /\ OffsetsForward' /\ OneOut' /\ PagesOrdered' /\ P!PagesFollow'
         /\ pageArgs' \in P!Args
<1>1. /\ pageOut \in Seq(P!Request) /\ pageOut[n] \in P!Request /\ Len(pageOut) \in Nat
      /\ Len(pageOut') = Len(pageOut) - 1
      /\ \A i \in DOMAIN pageOut' :
           /\ pageOut'[i] = pageOut[Later(i, n)] /\ Later(i, n) \in DOMAIN pageOut
           /\ \A j \in DOMAIN pageOut' : i < j => Later(i, n) < Later(j, n)
  BY OutRemoved
<1>2. /\ PageKinds /\ OffsetsForward /\ OneOut /\ PagesOrdered /\ P!PagesFollow /\ pageArgs \in P!Args
  BY DEF PageInv, P!TypeOK
<1>3. PageKinds'
  BY <1>1, <1>2 DEF PageKinds
<1>4. OffsetsForward'
  BY <1>1, <1>2 DEF OffsetsForward
<1>5. OneOut'
  <2>1. Len(pageOut) <= 1 => Len(pageOut') <= 1
    BY <1>1
  <2> QED  BY <1>2, <2>1 DEF OneOut
<1>6. PagesOrdered'
  <2> SUFFICES ASSUME ~pageCrossed', NEW i \in DOMAIN pageOut', NEW j \in DOMAIN pageOut', i < j,
                      pageOut'[i].update, pageOut'[j].update, pageOut'[i].move = pageOut'[j].move
               PROVE  IF pageOut'[i].move = "next" THEN pageOut'[i].args.cursor <= pageOut'[j].args.cursor
                      ELSE pageOut'[j].args.cursor <= pageOut'[i].args.cursor
    BY DEF PagesOrdered
  <2> QED  BY <1>1, <1>2 DEF PagesOrdered
<1>7. P!PagesFollow'
  <2> SUFFICES ASSUME ~(pageUpset' \/ pageCrossed'), NEW i \in DOMAIN pageOut'
               PROVE  Neighbour(pageOut'[i])
    BY DEF P!PagesFollow, Neighbour
  <2>1. \A m \in DOMAIN pageOut : Neighbour(pageOut[m])
    BY <1>2 DEF P!PagesFollow, Neighbour
  <2> QED  BY <1>1, <2>1
<1>8. pageArgs' \in P!Args
  BY <1>1, <1>2 DEF P!Request
<1> QED  BY <1>3, <1>4, <1>5, <1>6, <1>7, <1>8

LEMMA FailKeeps ==
  ASSUME PageConstants, PageInv, NEW n \in DOMAIN pageOut, P!Fail(n)
  PROVE  PageInv'
<1>1. /\ pageOut' = P!RemoveAt(pageOut, n)
      /\ pageUpset' = (pageUpset \/ (pageDocument.single /\ pageOut[n].move # "refresh"))
      /\ pageDocument' = pageDocument /\ pageArgs' = pageArgs /\ pageList' = pageList /\ pageInfo' = pageInfo
      /\ pagePrevious' = pagePrevious /\ pageNext' = pageNext /\ pageCrossed' = pageCrossed
      /\ pageCalls' = pageCalls
  BY DEF P!Fail
<1>2. /\ P!TypeOK /\ SingleShown /\ InfiniteShown /\ StacksAgree /\ OneOut
      /\ pageUpset \in BOOLEAN /\ pageCrossed \in BOOLEAN /\ pageDocument.single \in BOOLEAN
  BY DEF PageInv, P!TypeOK, P!PagedDocuments
<1>3. PageKinds' /\ OffsetsForward' /\ OneOut' /\ PagesOrdered' /\ P!PagesFollow'
  BY <1>1, <1>2, RemovedKeeps
<1>4. /\ pageOut' \in Seq(P!Request) /\ Len(pageOut) \in Nat
      /\ \A i \in DOMAIN pageOut' : /\ pageOut'[i] = pageOut[Later(i, n)] /\ Later(i, n) \in DOMAIN pageOut
      /\ Len(pageOut) <= 1 => n = 1 /\ DOMAIN pageOut' = {} /\ pageOut' = <<>> /\ pageOut # <<>>
  BY <1>1, OutRemoved
<1>5. P!TypeOK'
  BY <1>1, <1>2, <1>4 DEF P!TypeOK
<1>6. SingleShown'
  BY <1>1, <1>2, <1>4 DEF SingleShown, PageLong, ListShows
<1>7. InfiniteShown'
  <2> SUFFICES ASSUME ~pageDocument.single, ~pageCrossed
               PROVE  \E s, e \in Nat : Stretched(s, e)'
    BY <1>1 DEF InfiniteShown
  <2>1. PICK s \in Nat, e \in Nat : Stretched(s, e)
    BY <1>2 DEF InfiniteShown
  <2>2. \A m \in DOMAIN pageOut : pageOut[m].update => Adjoins(pageOut[m], s, e)
    BY <2>1 DEF Stretched
  <2>3. \A i \in DOMAIN pageOut' : pageOut'[i].update => Adjoins(pageOut'[i], s, e)
    BY <1>4, <2>2
  <2>4. ListShows(s, e)'
    BY <1>1, <2>1 DEF Stretched, ListShows
  <2>5. Stretched(s, e)'
    BY <1>1, <2>1, <2>3, <2>4 DEF Stretched, Adjoins, PageLong
  <2> QED  BY <2>5
<1>8. StacksAgree'
  <2> SUFFICES ASSUME pageDocument.single, pageDocument.method = "cursor", ~pageUpset'
               PROVE  /\ \A i \in DOMAIN pageOut' : pageOut'[i].move = "refresh" => pageOut'[i].args = pageArgs
                      /\ pageDocument.direction = "backward" => ~PageTarget'.forward
                      /\ StackBack(pagePrevious, PageTarget') /\ StackForth(pageNext, PageTarget')
    BY <1>1 DEF StacksAgree, StackBack, StackForth
  <2>1. ~pageUpset /\ pageOut[n].move = "refresh"
    BY <1>1
  <2>2. Len(pageOut) <= 1
    BY <1>2, <2>1 DEF OneOut
  <2>3. n = 1 /\ DOMAIN pageOut' = {} /\ pageOut' = <<>> /\ pageOut # <<>>
    BY <1>4, <2>2
  <2>4. PageTarget' = pageArgs /\ PageTarget = pageOut[1].args
    BY <1>1, <2>3 DEF PageTarget
  <2>5. pageOut[1].args = pageArgs
    BY <1>2, <2>1, <2>3 DEF StacksAgree
  <2> QED  BY <1>2, <2>1, <2>3, <2>4, <2>5 DEF StacksAgree
<1> QED  BY <1>3, <1>5, <1>6, <1>7, <1>8 DEF PageInv

\* pageInfo with one end replaced.
LEMMA InfoWith ==
  ASSUME NEW a, NEW b, NEW h, NEW p, NEW x, NEW y, NEW i, NEW j,
         i = [start |-> a, end |-> b, hasNext |-> h, hasPrevious |-> p]
  PROVE  /\ j = [i EXCEPT !.end = x, !.hasNext = y] =>
              j = [start |-> a, end |-> x, hasNext |-> y, hasPrevious |-> p]
         /\ j = [i EXCEPT !.start = x, !.hasPrevious = y] =>
              j = [start |-> x, end |-> b, hasNext |-> h, hasPrevious |-> y]
<1>1. ASSUME j = [i EXCEPT !.end = x, !.hasNext = y]
      PROVE  j = [start |-> a, end |-> x, hasNext |-> y, hasPrevious |-> p]
  BY <1>1
<1>2. ASSUME j = [i EXCEPT !.start = x, !.hasPrevious = y]
      PROVE  j = [start |-> x, end |-> b, hasNext |-> h, hasPrevious |-> y]
  BY <1>2
<1> QED  BY <1>1, <1>2

\* A page that comes after the item at c, and joins the stretch there.
LEMMA NextJoined ==
  ASSUME PageConstants, PageInv, NEW n \in DOMAIN pageOut, NEW s \in Nat, NEW e \in Nat,
         ~pageDocument.single, pageOut[n].update, pageOut[n].move = "next", Stretched(s, e)
  PROVE  LET r == pageOut[n]
             t == To(r.args)
         IN  /\ e <= t /\ t <= ListLength /\ t <= r.args.cursor + r.args.count /\ s <= t + 1
             /\ P!Added(P!Window(r.args), "next") = Run(s, t)
             /\ P!InfoAfter(P!Window(r.args), "next") = P!InfoOf(Run(s, t))
<1> DEFINE r == pageOut[n]
           a == r.args
           c == a.cursor
           t == To(a)
           w == P!Window(a)
<1>1. /\ Adjoins(r, s, e) /\ ListShows(s, e) /\ P!TypeOK /\ PageKinds
  BY DEF PageInv, Stretched
<1>2. /\ c <= e /\ a.forward /\ (s <= c \/ ListLength = 0) /\ e <= c + PageSize
      /\ pageDocument.method = "offset" => c = e
      /\ pageDocument.method # "offset" => a.count = PageSize
      /\ a.count >= 1
  BY <1>1 DEF Adjoins, PageLong, PageKinds
<1>3. r \in P!Request /\ PageSize \in Nat /\ PageSize >= 1 /\ ListLength \in Nat
  BY <1>1 DEF P!TypeOK, PageConstants
<1>4. a \in P!Args /\ c \in Nat /\ c <= ListLength /\ a.count \in Nat
  BY <1>3 DEF P!Request, P!Args, P!Cursors
<1>5. /\ s \in Nat \ {0} /\ s <= e + 1 /\ e <= ListLength /\ s \in 1 .. ListLength + 1
      /\ pageList = Run(s, e) /\ pageInfo = P!InfoOf(Run(s, e))
  BY <1>1, ShowsIs DEF ListShows
<1>6. /\ P!Window(a) = Run(From(a), t) /\ From(a) = c + 1
      /\ t = IF c + a.count < ListLength THEN c + a.count ELSE ListLength
  BY <1>2, <1>3, <1>4, WindowIs DEF From, To
<1> HIDE DEF r, a, c, t, w
<1>7. t \in Nat /\ e <= t /\ t <= ListLength /\ t <= c + a.count /\ s <= c + 1 /\ c <= t /\ s <= t + 1
  BY <1>2, <1>3, <1>4, <1>5, <1>6
<1>8. w = Run(c + 1, t)
  BY <1>6 DEF w
<1>9. P!Added(w, "next") = Run(s, t)
  BY <1>2, <1>4, <1>5, <1>7, <1>8, AddedNext
<1>10. P!InfoAfter(w, "next") = P!InfoOf(Run(s, t))
  <2>1. w = <<>> <=> c = t
    <3>1. c + 1 \in Nat \ {0} /\ c + 1 <= t + 1 /\ (c + 1 = t + 1 <=> c = t)
      BY <1>4, <1>7
    <3> QED  BY <1>7, <1>8, <3>1, RunIs
  <2>2. CASE c = t
    <3>1. t = e
      BY <1>2, <1>4, <1>7, <2>2
    <3>2. P!InfoAfter(w, "next") = pageInfo
      BY <2>1, <2>2 DEF P!InfoAfter
    <3> QED  BY <1>5, <3>1, <3>2
  <2>3. CASE c # t
    <3>1. s <= c /\ s <= e /\ c + 1 <= t /\ s <= t
      BY <1>2, <1>3, <1>4, <1>5, <1>6, <1>7, <2>3
    <3>2. c + 1 \in 1 .. ListLength + 1 /\ t \in 0 .. ListLength /\ e \in 0 .. ListLength
      BY <1>3, <1>4, <1>5, <1>7
    <3>3. P!InfoOf(w) = [start |-> c + 1, end |-> t, hasNext |-> t < ListLength, hasPrevious |-> c + 1 > 1]
      BY <1>7, <1>8, <3>1, <3>2, InfoIs
    <3>4. pageInfo = [start |-> s, end |-> e, hasNext |-> e < ListLength, hasPrevious |-> s > 1]
      BY <1>5, <3>1, <3>2, InfoIs
    <3>5. P!InfoOf(Run(s, t)) = [start |-> s, end |-> t, hasNext |-> t < ListLength, hasPrevious |-> s > 1]
      BY <1>5, <1>7, <3>1, <3>2, InfoIs
    <3>6. P!InfoAfter(w, "next") = [pageInfo EXCEPT !.end = P!InfoOf(w).end, !.hasNext = P!InfoOf(w).hasNext]
      BY <2>1, <2>3 DEF P!InfoAfter
    <3>7. P!InfoOf(w).end = t /\ P!InfoOf(w).hasNext = (t < ListLength)
      BY <3>3
    <3>8. P!InfoAfter(w, "next") = [start |-> s, end |-> t, hasNext |-> t < ListLength, hasPrevious |-> s > 1]
      BY <3>4, <3>6, <3>7, InfoWith
    <3> QED  BY <3>5, <3>8
  <2> QED  BY <2>2, <2>3
<1> QED  BY <1>7, <1>9, <1>10 DEF r, a, c, t, w

\* A page that comes before the item at c.
LEMMA PreviousJoined ==
  ASSUME PageConstants, PageInv, NEW n \in DOMAIN pageOut, NEW s \in Nat, NEW e \in Nat,
         ~pageDocument.single, pageOut[n].update, pageOut[n].move = "previous", Stretched(s, e)
  PROVE  LET r == pageOut[n]
             f == From(r.args)
         IN  /\ f \in Nat \ {0} /\ f <= s /\ r.args.cursor <= f + PageSize
             /\ pageDocument.method # "offset"
             /\ P!Added(P!Window(r.args), "previous") = Run(f, e)
             /\ P!InfoAfter(P!Window(r.args), "previous") = P!InfoOf(Run(f, e))
<1> DEFINE r == pageOut[n]
           a == r.args
           c == a.cursor
           f == From(a)
           w == P!Window(a)
<1>1. /\ Adjoins(r, s, e) /\ ListShows(s, e) /\ P!TypeOK /\ OffsetsForward
  BY DEF PageInv, Stretched
<1>2. /\ a.count = PageSize /\ c <= e /\ ~a.forward /\ s <= c /\ c <= s + PageSize
      /\ pageDocument.method # "offset"
  BY <1>1 DEF Adjoins, PageLong, OffsetsForward
<1>3. r \in P!Request /\ PageSize \in Nat /\ PageSize >= 1 /\ ListLength \in Nat
  BY <1>1 DEF P!TypeOK, PageConstants
<1>4. a \in P!Args /\ c \in Nat /\ c <= ListLength
  BY <1>3 DEF P!Request, P!Args, P!Cursors
<1>5. /\ s \in Nat \ {0} /\ s <= e + 1 /\ e <= ListLength /\ s \in 1 .. ListLength + 1
      /\ pageList = Run(s, e) /\ pageInfo = P!InfoOf(Run(s, e))
  BY <1>1, ShowsIs DEF ListShows
<1>6. c >= 1 /\ Edge(c) = c
  BY <1>2, <1>4, <1>5 DEF Edge
<1>7. /\ P!Window(a) = Run(f, To(a)) /\ To(a) = c - 1
      /\ f = IF c > PageSize THEN c - PageSize ELSE 1
  BY <1>2, <1>3, <1>4, <1>6, WindowIs DEF From, To
<1> HIDE DEF r, a, c, f, w
<1>8. f \in Nat \ {0} /\ f <= s /\ f <= c /\ c <= f + PageSize
  BY <1>2, <1>3, <1>4, <1>5, <1>6, <1>7
<1>9. w = Run(f, c - 1)
  BY <1>7 DEF w
<1>10. P!Added(w, "previous") = Run(f, e)
  BY <1>2, <1>4, <1>5, <1>8, <1>9, AddedPrevious
<1>11. P!InfoAfter(w, "previous") = P!InfoOf(Run(f, e))
  <2>1. w = <<>> <=> f = c
    <3>1. c - 1 \in Nat /\ f <= (c - 1) + 1 /\ (f = (c - 1) + 1 <=> f = c)
      BY <1>4, <1>6, <1>8
    <3>2. Run(f, c - 1) = <<>> <=> f = (c - 1) + 1
      BY ONLY <1>8, <3>1, RunIs
    <3> QED  BY <1>9, <3>1, <3>2
  <2>2. CASE f = c
    <3>1. f = s
      BY <1>2, <1>4, <1>5, <1>8, <2>2
    <3>2. "next" # "previous" /\ P!InfoAfter(w, "previous") = pageInfo
      BY <2>1, <2>2 DEF P!InfoAfter
    <3> QED  BY <1>5, <3>1, <3>2
  <2>3. CASE f # c
    <3>1. s <= e /\ f <= c - 1 /\ f <= e
      BY <1>2, <1>4, <1>5, <1>8, <2>3
    <3>2. f \in 1 .. ListLength + 1 /\ c - 1 \in 0 .. ListLength /\ e \in 0 .. ListLength
      BY <1>3, <1>4, <1>5, <1>6, <1>8, <3>1
    <3>3. f <= (c - 1) + 1 /\ f <= e + 1
      BY <1>4, <1>5, <1>8, <3>1
    <3>4. P!InfoOf(w) = [start |-> f, end |-> c - 1, hasNext |-> c - 1 < ListLength, hasPrevious |-> f > 1]
      BY <1>9, <3>1, <3>2, <3>3, InfoIs
    <3>5. pageInfo = [start |-> s, end |-> e, hasNext |-> e < ListLength, hasPrevious |-> s > 1]
      BY <1>5, <3>1, <3>2, InfoIs
    <3>6. P!InfoOf(Run(f, e)) = [start |-> f, end |-> e, hasNext |-> e < ListLength, hasPrevious |-> f > 1]
      BY <3>1, <3>2, <3>3, InfoIs
    <3>7. P!InfoAfter(w, "previous") = [pageInfo EXCEPT !.start = P!InfoOf(w).start, !.hasPrevious = P!InfoOf(w).hasPrevious]
      BY <2>1, <2>3 DEF P!InfoAfter
    <3>8. P!InfoOf(w).start = f /\ P!InfoOf(w).hasPrevious = (f > 1)
      BY <3>4
    <3>9. P!InfoAfter(w, "previous") = [start |-> f, end |-> e, hasNext |-> e < ListLength, hasPrevious |-> f > 1]
      BY <3>5, <3>7, <3>8, InfoWith
    <3> QED  BY <3>6, <3>9
  <2> QED  BY <2>2, <2>3
<1> QED  BY <1>2, <1>8, <1>10, <1>11 DEF r, a, c, f, w

\* An answer that replaces what is shown.
LEMMA WholeAnswerKeeps ==
  ASSUME PageConstants, PageInv, NEW n \in DOMAIN pageOut, P!Answer(n), ~pageOut[n].update
  PROVE  SingleShown' /\ InfiniteShown' /\ pageList' \in Seq(1 .. ListLength) /\ pageInfo' \in P!Info
<1>0. PICK a, s, e : a = pageOut[n].args /\ s = From(a) /\ e = To(a)
  OBVIOUS
<1>1. /\ pageOut' = P!RemoveAt(pageOut, n) /\ pageList' = P!Window(a) /\ pageInfo' = P!InfoOf(P!Window(a))
      /\ pageArgs' = a /\ pageDocument' = pageDocument
      /\ pageCrossed' = (pageCrossed \/ \E m \in DOMAIN pageOut :
                           pageOut[m].update /\ (m < n \/ (m # n /\ ~pageOut[n].update)))
  BY <1>0 DEF P!Answer
<1>2. /\ PageKinds /\ OffsetsForward /\ SingleShown /\ PageConstants
      /\ pageOut \in Seq(P!Request) /\ pageOut[n] \in P!Request
      /\ \A i \in DOMAIN pageOut' : /\ pageOut'[i] = pageOut[Later(i, n)] /\ Later(i, n) \in DOMAIN pageOut
                                    /\ Later(i, n) # n
  BY <1>1, OutRemoved DEF PageInv
<1>3. a \in P!Args /\ a.count >= 1
  BY <1>0, <1>2 DEF P!Request, PageKinds
<1>4. /\ P!Window(a) = Run(s, e) /\ s \in 1 .. ListLength + 1 /\ e \in 0 .. ListLength /\ s <= e + 1
      /\ P!Window(a) \in Seq(1 .. ListLength)
  BY <1>0, <1>3, WindowIs
<1>5. P!InfoOf(Run(s, e)) \in P!Info
  BY <1>4, InfoIs
<1>6. ListShows(s, e)'
  BY <1>1, <1>4 DEF ListShows
<1>7. SingleShown'
  <2> SUFFICES ASSUME pageDocument.single
               PROVE  /\ ListShows(From(pageArgs), To(pageArgs))' /\ PageLong(pageArgs')
                      /\ \A i \in DOMAIN pageOut' : PageLong(pageOut'[i].args)
    BY <1>1 DEF SingleShown, PageLong
  <2>1. \A i \in DOMAIN pageOut : PageLong(pageOut[i].args)
    BY <1>2 DEF SingleShown
  <2>2. ListShows(From(pageArgs), To(pageArgs))'
    BY <1>0, <1>1, <1>6
  <2> QED  BY <1>0, <1>1, <1>2, <2>1, <2>2
<1>8. InfiniteShown'
  <2> SUFFICES ASSUME ~pageDocument.single, ~pageCrossed'
               PROVE  \E x, y \in Nat : Stretched(x, y)'
    BY <1>1 DEF InfiniteShown
  <2>1. \A m \in DOMAIN pageOut : m # n => ~pageOut[m].update
    BY <1>1
  <2>2. \A i \in DOMAIN pageOut' : ~pageOut'[i].update
    BY <1>2, <2>1
  <2>3. pageDocument.method = "offset" => a.forward /\ a.cursor = 0
    BY <1>0, <1>1, <1>2 DEF OffsetsForward
  <2>4. pageDocument.method = "offset" => s = 1 /\ (e = 0 => ListLength = 0)
    <3>1. ListLength \in Nat /\ a.count \in Nat
      BY <1>2, <1>3 DEF PageConstants, P!Args
    <3> QED  BY <1>0, <1>3, <2>3, <3>1 DEF From, To, Edge
  <2>5. Stretched(s, e)'
    BY <1>1, <1>6, <2>2, <2>4 DEF Stretched
  <2>6. s \in Nat /\ e \in Nat
    BY <1>2, <1>4 DEF PageConstants
  <2> QED  BY <2>5, <2>6
<1> QED  BY <1>1, <1>4, <1>5, <1>7, <1>8

\* An answer that is added to what is shown.
LEMMA UpdateAnswerKeeps ==
  ASSUME PageConstants, PageInv, NEW n \in DOMAIN pageOut, P!Answer(n), pageOut[n].update
  PROVE  SingleShown' /\ InfiniteShown' /\ pageList' \in Seq(1 .. ListLength) /\ pageInfo' \in P!Info
<1> DEFINE r == pageOut[n]
           w == P!Window(r.args)
<1>1. /\ pageOut' = P!RemoveAt(pageOut, n) /\ pageList' = P!Added(w, r.move) /\ pageInfo' = P!InfoAfter(w, r.move)
      /\ pageArgs' = pageArgs /\ pageDocument' = pageDocument
      /\ pageCrossed' = (pageCrossed \/ \E m \in DOMAIN pageOut :
                           pageOut[m].update /\ (m < n \/ (m # n /\ ~pageOut[n].update)))
  BY DEF P!Answer
<1>2. /\ PageKinds /\ OffsetsForward /\ InfiniteShown /\ PagesOrdered /\ OneOut /\ P!TypeOK
      /\ pageOut \in Seq(P!Request) /\ r \in P!Request
      /\ Len(pageOut) \in Nat /\ DOMAIN pageOut = 1 .. Len(pageOut)
      /\ \A i \in DOMAIN pageOut' : /\ pageOut'[i] = pageOut[Later(i, n)] /\ Later(i, n) \in DOMAIN pageOut
                                    /\ Later(i, n) # n
      /\ Len(pageOut) <= 1 => DOMAIN pageOut' = {}
  BY <1>1, OutRemoved DEF PageInv
<1>3. r.args \in P!Args /\ r.args.count >= 1 /\ ~pageDocument.single /\ r.move \in {"next", "previous"}
  BY <1>2 DEF P!Request, PageKinds
<1>4. w \in Seq(1 .. ListLength)
  BY <1>3, WindowIs
<1>5. P!Kept(w) \in Seq(1 .. ListLength)
  BY <1>2, KeptTyped DEF P!TypeOK
<1>6. P!Added(w, r.move) \in Seq(1 .. ListLength)
  BY <1>4, <1>5, Joined DEF P!Added
<1>7. pageInfo' \in P!Info
  <2>1. pageInfo \in P!Info
    BY <1>2 DEF P!TypeOK
  <2>2. P!InfoOf(w) \in P!Info
    <3>1. w = Run(From(r.args), To(r.args)) /\ From(r.args) \in 1 .. ListLength + 1
          /\ To(r.args) \in 0 .. ListLength /\ From(r.args) <= To(r.args) + 1
      BY <1>3, WindowIs
    <3> QED  BY <3>1, InfoIs
  <2> HIDE DEF w, r
  <2>3. CASE w = <<>>
    BY <1>1, <2>1, <2>3 DEF P!InfoAfter
  <2>4. CASE w # <<>> /\ r.move = "next"
    <3>1. P!InfoAfter(w, r.move) = [pageInfo EXCEPT !.end = P!InfoOf(w).end, !.hasNext = P!InfoOf(w).hasNext]
      BY <2>4 DEF P!InfoAfter
    <3> QED  BY <1>1, <2>1, <2>2, <3>1 DEF P!Info
  <2>5. CASE w # <<>> /\ r.move = "previous"
    <3>1. P!InfoAfter(w, r.move) = [pageInfo EXCEPT !.start = P!InfoOf(w).start, !.hasPrevious = P!InfoOf(w).hasPrevious]
      BY <2>5 DEF P!InfoAfter
    <3> QED  BY <1>1, <2>1, <2>2, <3>1 DEF P!Info
  <2> QED  BY <1>3, <2>3, <2>4, <2>5
<1>8. SingleShown'
  BY <1>1, <1>3 DEF SingleShown
<1>9. InfiniteShown'
  <2> SUFFICES ASSUME ~pageCrossed'
               PROVE  \E x, y \in Nat : Stretched(x, y)'
    BY DEF InfiniteShown
  <2>1. ~pageCrossed /\ \A m \in DOMAIN pageOut : pageOut[m].update => ~(m < n)
    BY <1>1
  <2>2. PICK s \in Nat, e \in Nat : Stretched(s, e)
    BY <1>2, <1>3, <2>1 DEF InfiniteShown
  <2>3. /\ ListShows(s, e) /\ (pageDocument.method = "offset" => s = 1 /\ (e = 0 => ListLength = 0))
        /\ \A m \in DOMAIN pageOut : pageOut[m].update => Adjoins(pageOut[m], s, e)
    BY <2>2 DEF Stretched
  <2>4. /\ s \in Nat \ {0} /\ e \in Nat /\ s <= e + 1 /\ e <= ListLength /\ s <= ListLength + 1 /\ ListLength \in Nat
        /\ PageSize \in Nat
    BY <2>3, ShowsIs DEF PageConstants
  \* The other updates were sent later.
  <2>5. ASSUME NEW m \in DOMAIN pageOut, m # n, pageOut[m].update
        PROVE  /\ pageOut[m] \in P!Request /\ pageOut[m].args.cursor \in Nat /\ pageOut[m].move \in {"next", "previous"}
               /\ pageDocument.method # "offset" /\ Adjoins(pageOut[m], s, e)
               /\ pageOut[m].move = r.move =>
                    IF r.move = "next" THEN r.args.cursor <= pageOut[m].args.cursor
                    ELSE pageOut[m].args.cursor <= r.args.cursor
    <3>1. pageOut[m] \in P!Request
      BY <1>2
    <3>2. pageOut[m].args.cursor \in Nat /\ pageOut[m].move \in {"next", "previous"}
      <4>1. pageOut[m].args \in P!Args /\ pageOut[m].move \in {"next", "previous", "refresh"}
        BY <3>1 DEF P!Request
      <4>2. pageOut[m].args.cursor \in 0 .. ListLength
        BY <4>1 DEF P!Args, P!Cursors
      <4>3. pageOut[m].move # "refresh"
        BY <1>2, <2>5 DEF PageKinds
      <4> QED  BY <2>4, <4>1, <4>2, <4>3
    <3>3. n < m
      BY <1>2, <2>1, <2>5
    <3>4. ~(Len(pageOut) <= 1)
      BY <1>2, <2>5
    <3>5. pageDocument.method # "offset"
      BY <1>2, <2>1, <3>4 DEF OneOut
    <3>6. pageOut[m].move = r.move =>
                    IF r.move = "next" THEN r.args.cursor <= pageOut[m].args.cursor
                    ELSE pageOut[m].args.cursor <= r.args.cursor
      BY <1>2, <2>1, <2>5, <3>3 DEF PagesOrdered
    <3> QED  BY <2>3, <2>5, <3>1, <3>2, <3>5, <3>6
  <2>6. r.args.cursor \in Nat /\ (pageDocument.method # "offset" => r.args.count = PageSize)
    BY <1>3, <2>3, <2>4 DEF P!Args, P!Cursors, Adjoins, PageLong
  <2> HIDE DEF w
  <2>7. CASE r.move = "next"
    <3>0. PICK t : t = To(r.args)
      OBVIOUS
    <3>1. /\ e <= t /\ t <= ListLength /\ t <= r.args.cursor + r.args.count /\ s <= t + 1
          /\ P!Added(w, "next") = Run(s, t) /\ P!InfoAfter(w, "next") = P!InfoOf(Run(s, t))
      BY <1>3, <2>2, <2>7, <3>0, NextJoined DEF w
    <3>2. t \in 0 .. ListLength /\ t \in Nat
      BY <1>3, <2>4, <3>0, WindowIs
    <3>3. ASSUME NEW m \in DOMAIN pageOut, m # n, pageOut[m].update
          PROVE  Adjoins(pageOut[m], s, t)
      <4>1. pageOut[m].args.cursor <= t
        BY <2>4, <2>5, <3>1, <3>2, <3>3 DEF Adjoins
      <4>2. pageOut[m].move = "next" => t <= pageOut[m].args.cursor + PageSize
        BY <2>4, <2>5, <2>6, <2>7, <3>1, <3>2, <3>3
      <4> QED  BY <2>5, <3>3, <4>1, <4>2 DEF Adjoins
    <3>4. \A i \in DOMAIN pageOut' : pageOut'[i].update => Adjoins(pageOut'[i], s, t)
      BY <1>2, <3>3
    <3>5. ListShows(s, t)'
      BY <1>1, <2>3, <2>7, <3>1, <3>2 DEF ListShows
    <3>6. t = 0 => e = 0
      BY <2>4, <3>1
    <3>7. Stretched(s, t)'
      BY <1>1, <2>3, <3>4, <3>5, <3>6 DEF Stretched, Adjoins, PageLong
    <3> QED  BY <3>2, <3>7
  <2>8. CASE r.move = "previous"
    <3>0. PICK f : f = From(r.args)
      OBVIOUS
    <3>1. /\ f \in Nat \ {0} /\ f <= s /\ r.args.cursor <= f + PageSize /\ pageDocument.method # "offset"
          /\ P!Added(w, "previous") = Run(f, e) /\ P!InfoAfter(w, "previous") = P!InfoOf(Run(f, e))
      BY <1>3, <2>2, <2>8, <3>0, PreviousJoined DEF w
    <3>2. f \in 1 .. ListLength + 1 /\ e \in 0 .. ListLength /\ f <= e + 1
      BY <2>4, <3>1
    <3>3. ASSUME NEW m \in DOMAIN pageOut, m # n, pageOut[m].update
          PROVE  Adjoins(pageOut[m], f, e)
      <4>1. pageOut[m].move = "next" => f <= pageOut[m].args.cursor \/ ListLength = 0
        BY <2>4, <2>5, <3>1, <3>3 DEF Adjoins
      <4>2. pageOut[m].move = "previous" =>
              f <= pageOut[m].args.cursor /\ pageOut[m].args.cursor <= f + PageSize
        <5>1. ASSUME pageOut[m].move = "previous"
              PROVE  s <= pageOut[m].args.cursor /\ pageOut[m].args.cursor <= r.args.cursor
          BY <2>5, <2>8, <3>3, <5>1 DEF Adjoins
        <5> QED  BY <2>4, <2>5, <2>6, <3>1, <3>3, <5>1
      <4> QED  BY <2>5, <3>3, <4>1, <4>2 DEF Adjoins
    <3>4. \A i \in DOMAIN pageOut' : pageOut'[i].update => Adjoins(pageOut'[i], f, e)
      BY <1>2, <3>3
    <3>5. ListShows(f, e)'
      BY <1>1, <2>8, <3>1, <3>2 DEF ListShows
    <3>6. Stretched(f, e)'
      BY <1>1, <3>1, <3>4, <3>5 DEF Stretched, Adjoins, PageLong
    <3> QED  BY <2>2, <3>1, <3>6
  <2> QED  BY <1>3, <2>7, <2>8
<1> QED  BY <1>1, <1>6, <1>7, <1>8, <1>9

LEMMA PageAnswerKeeps ==
  ASSUME PageConstants, PageInv, NEW n \in DOMAIN pageOut, P!Answer(n)
  PROVE  PageInv'
<1>1. /\ pageOut' = P!RemoveAt(pageOut, n) /\ pageDocument' = pageDocument
      /\ pagePrevious' = pagePrevious /\ pageNext' = pageNext /\ pageUpset' = pageUpset /\ pageCalls' = pageCalls
      /\ pageCrossed' = (pageCrossed \/ \E m \in DOMAIN pageOut :
                           pageOut[m].update /\ (m < n \/ (m # n /\ ~pageOut[n].update)))
      /\ IF pageOut[n].update THEN pageArgs' = pageArgs ELSE pageArgs' = pageOut[n].args
  BY DEF P!Answer
<1>2. /\ P!TypeOK /\ StacksAgree /\ OneOut /\ PageKinds
      /\ pageUpset \in BOOLEAN /\ pageCrossed \in BOOLEAN /\ pageDocument.single \in BOOLEAN
  BY DEF PageInv, P!TypeOK, P!PagedDocuments
<1>3. /\ PageKinds' /\ OffsetsForward' /\ OneOut' /\ PagesOrdered' /\ P!PagesFollow'
      /\ pageArgs' \in P!Args
  <2>1. pageCrossed' \in BOOLEAN
    BY <1>1, <1>2
  <2> QED  BY <1>1, <1>2, <2>1, RemovedKeeps
<1>4. /\ pageOut' \in Seq(P!Request)
      /\ Len(pageOut) <= 1 => n = 1 /\ DOMAIN pageOut' = {} /\ pageOut' = <<>> /\ pageOut # <<>>
  BY <1>1, OutRemoved
<1>5. SingleShown' /\ InfiniteShown' /\ pageList' \in Seq(1 .. ListLength) /\ pageInfo' \in P!Info
  BY WholeAnswerKeeps, UpdateAnswerKeeps
<1>6. P!TypeOK'
  BY <1>1, <1>2, <1>3, <1>4, <1>5 DEF P!TypeOK
<1>7. StacksAgree'
  <2> SUFFICES ASSUME pageDocument.single, pageDocument.method = "cursor", ~pageUpset
               PROVE  /\ \A i \in DOMAIN pageOut' : pageOut'[i].move = "refresh" => pageOut'[i].args = pageArgs'
                      /\ pageDocument.direction = "backward" => ~PageTarget'.forward
                      /\ StackBack(pagePrevious, PageTarget') /\ StackForth(pageNext, PageTarget')
    BY <1>1 DEF StacksAgree, StackBack, StackForth
  <2>1. Len(pageOut) <= 1
    BY <1>2 DEF OneOut
  <2>2. n = 1 /\ DOMAIN pageOut' = {} /\ pageOut' = <<>> /\ pageOut # <<>>
    BY <1>4, <2>1
  <2>3. ~pageOut[n].update
    BY <1>2 DEF PageKinds
  <2>4. PageTarget' = PageTarget
    BY <1>1, <2>2, <2>3 DEF PageTarget
  <2> QED  BY <1>2, <2>2, <2>4 DEF StacksAgree
<1> QED  BY <1>3, <1>5, <1>6, <1>7 DEF PageInv

-----------------------------------------------------------------------------
\* The invariant holds throughout.
THEOREM PageInvHolds == P!Spec => []PageInv
<1>1. PageConstants
  BY RuntimeAssumption
<1>2. P!Init => PageInv
  BY <1>1, PageInitInv
<1>3. PageInv /\ [P!Next]_(P!vars) => PageInv'
  <2> SUFFICES ASSUME PageInv, [P!Next]_(P!vars) PROVE PageInv'
    OBVIOUS
  <2>1. CASE P!NextFromStack
    BY <2>1, <1>1, NextFromStackKeeps
  <2>2. CASE P!NextPage
    BY <2>2, <1>1, NextPageKeeps
  <2>3. CASE P!PreviousFromStack
    BY <2>3, <1>1, PreviousFromStackKeeps
  <2>4. CASE P!PreviousPage
    BY <2>4, <1>1, PreviousPageKeeps
  <2>5. CASE P!NextOffset
    BY <2>5, <1>1, NextOffsetKeeps
  <2>6. CASE P!Fetch
    BY <2>6, <1>1, FetchKeeps
  <2>7. CASE \E n \in DOMAIN pageOut : P!Answer(n) \/ P!Fail(n)
    BY <2>7, <1>1, PageAnswerKeeps, FailKeeps
  <2>8. CASE UNCHANGED P!vars
    BY <2>8 DEF P!vars, PageInv, P!TypeOK, PageKinds, OffsetsForward, SingleShown, PageLong, OneOut, InfiniteShown,
                PagesOrdered, StacksAgree, P!PagesFollow, ListShows, Stretched, Adjoins, PageTarget,
                StackBack, StackForth
  <2> QED  BY <2>1, <2>2, <2>3, <2>4, <2>5, <2>6, <2>7, <2>8 DEF P!Next
<1> QED  BY <1>2, <1>3, PTL DEF P!Spec

\* The state of the handlers has its types.
THEOREM PageTypeCorrect == P!Spec => []P!TypeOK
<1>1. PageInv => P!TypeOK
  BY DEF PageInv
<1> QED  BY <1>1, PageInvHolds, PTL

\* However the calls of the handlers overlap and fail: a page that is asked for while the stacks
\* and the answers are in order adjoins what was shown, and unless answers crossed the list is
\* one stretch of the connection with every item once, whose ends pageInfo tells.
THEOREM PagesConnectHolds == P!Spec => []PagesConnect
<1>1. PageConstants
  BY RuntimeAssumption
<1>2. PageInv => P!PagesFollow
  BY DEF PageInv
<1>3. PageInv => P!NoGaps
  <2> SUFFICES ASSUME PageInv, ~pageCrossed
               PROVE  /\ \A i \in 1 .. Len(pageList) - 1 : pageList[i + 1] = pageList[i] + 1
                      /\ pageList # <<>> => pageInfo = P!InfoOf(pageList)
    BY DEF P!NoGaps
  <2>1. PICK s \in Nat, e \in Nat : ListShows(s, e)
    BY <1>1, OneStretch
  <2>2. /\ s \in Nat \ {0} /\ s <= e + 1 /\ pageList = Run(s, e) /\ pageInfo = P!InfoOf(pageList)
    BY <1>1, <2>1, ShowsIs DEF ListShows
  <2>3. Len(pageList) = e - s + 1 /\ \A i \in 1 .. e - s + 1 : pageList[i] = s + i - 1
    BY <2>2, RunIs
  <2>4. ASSUME NEW i \in 1 .. Len(pageList) - 1 PROVE pageList[i + 1] = pageList[i] + 1
    <3>1. i \in 1 .. e - s + 1 /\ i + 1 \in 1 .. e - s + 1
      BY <2>2, <2>3
    <3> QED  BY <2>2, <2>3, <3>1
  <2> QED  BY <2>2, <2>4
<1>4. PageInv => PagesConnect
  BY <1>2, <1>3 DEF PagesConnect
<1> QED  BY <1>4, PageInvHolds, PTL

-----------------------------------------------------------------------------
(***************************************************************************)
(* The pipeline of a request.                                              *)
(***************************************************************************)

PipeHooks == {"start", "beforeNetwork", "network", "afterNetwork", "end", "catch"}
PipeSteps == PipeHooks \X (1 .. B!N)

\* The plugins from i down that have the hook.
Having(hook, i) == {j \in 1 .. i : hook \in PipelinePlugins[j]}

LEMMA PipeCardinality == \A x : B!Cardinality(x) = Cardinality(x)
BY DEF B!Cardinality, Cardinality

LEMMA PipelineSize ==
  ASSUME PipelineConstants
  PROVE  /\ B!N \in Nat /\ DOMAIN PipelinePlugins = 1 .. B!N /\ NoValue \notin PipeHooks
         /\ \A i \in 1 .. B!N : PipelinePlugins[i] \subseteq PipeHooks
<1> DEFINE q == PipelinePlugins
<1>1. q \in Seq(SUBSET PipeHooks) /\ NoValue \notin PipeHooks
  BY DEF PipelineConstants, PipeHooks
<1>2. B!N = Len(q)
  BY DEF B!N
<1> HIDE DEF q
<1>3. Len(q) \in Nat /\ DOMAIN q = 1 .. Len(q) /\ \A i \in 1 .. Len(q) : q[i] \in SUBSET PipeHooks
  BY <1>1
<1> QED  BY <1>1, <1>2, <1>3 DEF q

\* Some numbers up to n have a lowest and a highest.
LEMMA LowestAndHighest ==
  ASSUME NEW n \in Nat, NEW st, st \subseteq 1 .. n, st # {}
  PROVE  /\ \E j \in st : \A k \in st : j <= k
         /\ \E j \in st : \A k \in st : k <= j
<1>0. \A j \in st : j \in Nat /\ n - j \in Nat
  OBVIOUS
<1>1. \E j \in st : \A k \in st : j <= k
  <2>1. st \subseteq Nat
    BY <1>0
  <2>2. PICK m \in st : \A y \in st : ~ (<<y, m>> \in OpToRel(<, Nat))
    BY <2>1, NatLessThanWellFounded, WFMin
  <2>3. ASSUME NEW k \in st PROVE m <= k
    <3>1. m \in Nat /\ k \in Nat
      BY <2>1, <2>2
    <3>2. ~(k < m)
      BY <2>2, <3>1 DEF OpToRel
    <3> QED  BY <3>1, <3>2
  <2> QED  BY <2>2, <2>3
<1>2. \E j \in st : \A k \in st : k <= j
  <2> DEFINE gap == {n - j : j \in st}
  <2>1. gap \subseteq Nat /\ gap # {}
    BY <1>0
  <2>2. PICK m \in gap : \A y \in gap : ~ (<<y, m>> \in OpToRel(<, Nat))
    BY <2>1, NatLessThanWellFounded, WFMin
  <2>3. PICK j \in st : m = n - j
    BY <2>2
  <2>4. ASSUME NEW k \in st PROVE k <= j
    <3>1. n - k \in gap /\ n - k \in Nat /\ m \in Nat
      BY <1>0, <2>1, <2>2
    <3>2. ~(n - k < m)
      BY <2>2, <3>1 DEF OpToRel
    <3> QED  BY <1>0, <2>3, <3>1, <3>2
  <2> QED  BY <2>3, <2>4
<1> QED  BY <1>1, <1>2

\* Those before it in the sequence are higher.
Nth(hook, i, k) ==
  CHOOSE j \in Having(hook, i) : Cardinality({m \in Having(hook, i) : j < m}) = k - 1

LEMMA DownShape ==
  ASSUME NEW hook, NEW i
  PROVE  B!Down(hook, i) = [k \in 1 .. Cardinality(Having(hook, i)) |-> <<hook, Nth(hook, i, k)>>]
BY DEF B!Down, B!Cardinality, Cardinality, Having, Nth

\* What is down from a plugin is a sequence.
LEMMA DownIs ==
  ASSUME PipelineConstants, NEW hook, NEW i \in Int
  PROVE  /\ IsFiniteSet(Having(hook, i)) /\ Cardinality(Having(hook, i)) \in Nat
         /\ \E Elem : B!Down(hook, i) \in Seq(Elem)
         /\ Len(B!Down(hook, i)) = Cardinality(Having(hook, i))
<1> DEFINE has == Having(hook, i)
           nth(k) == Nth(hook, i, k)
           c == Cardinality(has)
           d == [k \in 1 .. c |-> <<hook, nth(k)>>]
           Elem == {<<hook, nth(k)>> : k \in 1 .. c}
<1>1. B!Down(hook, i) = d
  BY DownShape
<1>2. IsFiniteSet(has)
  <2>1. IsFiniteSet(1 .. i)
    BY FS_Interval
  <2> QED  BY <2>1, FS_Subset DEF Having
<1>3. c \in Nat
  BY <1>2, FS_CardinalityType
<1> HIDE DEF c, has
<1>4. d \in [1 .. c -> Elem]
  OBVIOUS
<1> HIDE DEF d, Elem
<1>5. d \in Seq(Elem) /\ Len(d) = c
  BY <1>3, <1>4
<1> QED  BY <1>1, <1>2, <1>3, <1>5 DEF c, has, d

LEMMA DownEmpty ==
  ASSUME PipelineConstants, NEW hook, NEW i \in Int, Having(hook, i) = {}
  PROVE  B!Down(hook, i) = <<>>
<1>1. Cardinality(Having(hook, i)) = 0
  BY FS_EmptySet
<1>2. Len(B!Down(hook, i)) = 0
  BY <1>1, DownIs
<1>3. PICK Elem : B!Down(hook, i) \in Seq(Elem)
  BY DownIs
<1> QED  BY <1>2, <1>3

\* The highest comes first.
LEMMA DownStep ==
  ASSUME PipelineConstants, NEW hook, NEW i \in Int, NEW j \in Having(hook, i),
         \A k \in Having(hook, i) : k <= j
  PROVE  B!Down(hook, i) = <<<<hook, j>>>> \o B!Down(hook, j - 1)
<1>0. PICK h \in Int : h = j - 1
  BY DEF Having
<1> DEFINE A == Having(hook, i)
           L == Having(hook, h)
           a == Cardinality(A)
           l == Cardinality(L)
           d == B!Down(hook, i)
           e == B!Down(hook, h)
           nthA(k) == Nth(hook, i, k)
           nthL(k) == Nth(hook, h, k)
<1>1. j \in Int
  BY DEF Having
<1>2. IsFiniteSet(A) /\ a \in Nat /\ d = [k \in 1 .. a |-> <<hook, nthA(k)>>]
  BY DownIs, DownShape
<1>3. IsFiniteSet(L) /\ l \in Nat /\ Len(e) = l /\ e = [k \in 1 .. l |-> <<hook, nthL(k)>>]
  BY <1>0, DownIs, DownShape
<1>4. PICK Elem : e \in Seq(Elem)
  BY <1>0, DownIs
<1> HIDE DEF nthA, nthL
<1>16. \A k : nthA(k) = CHOOSE x \in A : Cardinality({m \in A : x < m}) = k - 1
  BY DEF nthA, Nth
<1>17. \A k : nthL(k) = CHOOSE x \in L : Cardinality({m \in L : x < m}) = k - 1
  BY DEF nthL, Nth
<1>5. A \subseteq Int /\ L \subseteq Int /\ j \in A /\ \A k \in A : k <= j
  BY DEF Having
<1>6. j \notin L /\ A = L \cup {j} /\ \A k \in L : k < j
  <2>1. \A k \in Int : k \in L <=> k \in A /\ k # j
    BY <1>0, <1>1, <1>5 DEF Having
  <2> QED  BY <1>1, <1>5, <2>1
<1> HIDE DEF A, L
<1>7. a = l + 1
  BY <1>3, <1>6, FS_AddElement
<1>8. Cardinality({m \in A : j < m}) = 0
  <2>1. {m \in A : j < m} = {}
    <3>1. \A m \in A : ~(j < m)
      BY <1>1, <1>5
    <3> QED  BY ONLY <3>1
  <2> QED  BY <2>1, FS_EmptySet
<1>9. ASSUME NEW x \in L
      PROVE  Cardinality({m \in A : x < m}) = Cardinality({m \in L : x < m}) + 1
             /\ Cardinality({m \in L : x < m}) \in Nat
  <2> DEFINE up == {m \in L : x < m}
  <2>1. {m \in A : x < m} = up \cup {j} /\ j \notin up
    BY <1>6
  <2>2. IsFiniteSet(up)
    <3>1. up \subseteq L
      OBVIOUS
    <3> QED  BY <1>3, <3>1, FS_Subset
  <2> HIDE DEF up
  <2>3. Cardinality(up \cup {j}) = Cardinality(up) + 1 /\ Cardinality(up) \in Nat
    BY <2>1, <2>2, FS_AddElement, FS_CardinalityType
  <2> QED  BY <2>1, <2>3 DEF up
<1>10. nthA(1) = j
  <2>1. \A x \in A : Cardinality({m \in A : x < m}) = 1 - 1 <=> x = j
    <3> TAKE x \in A
    <3>1. CASE x = j
      BY <1>8, <3>1
    <3>2. CASE x # j
      <4>1. x \in L
        BY <1>6, <3>2
      <4>2. PICK c \in Nat : Cardinality({m \in A : x < m}) = c + 1
        BY <1>9, <4>1
      <4> QED  BY <3>2, <4>2
    <3> QED  BY <3>1, <3>2
  <2> DEFINE pick == CHOOSE x \in A : Cardinality({m \in A : x < m}) = 1 - 1
  <2>2. pick = j
    BY <1>5, <2>1
  <2> QED  BY <1>16, <2>2
<1>11. ASSUME NEW k \in 1 .. l PROVE nthA(k + 1) = nthL(k)
  <2>1. \A x : (x \in A /\ Cardinality({m \in A : x < m}) = (k + 1) - 1)
               <=> (x \in L /\ Cardinality({m \in L : x < m}) = k - 1)
    <3> TAKE x
    <3>1. CASE x = j
      BY <1>3, <1>6, <1>8, <3>1
    <3>2. CASE x \in L
      BY <1>3, <1>6, <1>9, <3>2
    <3>3. CASE x # j /\ x \notin L
      BY <1>6, <3>3
    <3> QED  BY <3>1, <3>2, <3>3
  <2>2. (CHOOSE x \in A : Cardinality({m \in A : x < m}) = (k + 1) - 1)
          = CHOOSE x \in L : Cardinality({m \in L : x < m}) = k - 1
    BY <2>1
  <2> QED  BY <1>16, <1>17, <2>2
<1> HIDE DEF a, l
<1>12. ASSUME NEW k \in 1 .. a PROVE d[k] = (<<<<hook, j>>>> \o e)[k]
  <2> DEFINE y == <<hook, j>>
  <2>0. y = <<hook, j>>
    OBVIOUS
  <2> HIDE DEF y, d, e
  <2>1. d[k] = <<hook, nthA(k)>>
    BY ONLY <1>2, <1>12
  <2>2. CASE k = 1
    <3>1. (<<y>> \o e)[k] = y
      BY <1>3, <1>4, <2>2
    <3> QED  BY <1>10, <2>0, <2>1, <2>2, <3>1
  <2>3. CASE k # 1
    <3>1. k - 1 \in 1 .. l /\ (k - 1) + 1 = k
      BY <1>3, <1>7, <2>3
    <3>2. (<<y>> \o e)[k] = e[k - 1]
      BY <1>3, <1>4, <1>7, <2>3, <3>1
    <3>3. e[k - 1] = <<hook, nthL(k - 1)>>
      BY <1>3, <3>1
    <3>4. nthA(k) = nthL(k - 1)
      BY <1>11, <3>1
    <3> QED  BY <2>0, <2>1, <3>2, <3>3, <3>4
  <2> QED  BY <2>2, <2>3
<1>13. <<<<hook, j>>>> \o e = [k \in 1 .. a |-> (<<<<hook, j>>>> \o e)[k]]
  <2> DEFINE y == <<hook, j>>
             T == Elem \cup {y}
  <2> HIDE DEF e
  <2>1. <<y>> \in Seq(T) /\ e \in Seq(T) /\ Len(<<y>>) = 1
    BY <1>4
  <2> HIDE DEF y, T
  <2>2. <<y>> \o e = [k \in 1 .. Len(<<y>>) + Len(e) |-> (<<y>> \o e)[k]]
    BY <2>1, Joined
  <2>3. Len(<<y>>) + Len(e) = a
    BY <1>3, <1>7, <2>1
  <2> QED  BY <2>2, <2>3 DEF y
<1>14. d = [k \in 1 .. a |-> d[k]]
  BY <1>2
<1>15. d = <<<<hook, j>>>> \o e
  BY ONLY <1>12, <1>13, <1>14
<1> QED  BY <1>0, <1>15

-----------------------------------------------------------------------------
\* How a walk has turned, and what it goes through on its way back.
PipeTurns == {"resolved", "thrown", "setup"} \X (1 .. 3) \X (0 .. B!N)

PipeWalk ==
  [send : PipelineSends, setup : BOOLEAN, direction : {"forward", "backwards", "error"},
   phase : 1 .. 3, index : -1 .. B!N + 1, value : PipelineValues \cup {NoValue}, from : 0 .. B!N,
   turn : PipeTurns \cup {<<>>}, seen : Seq(PipeSteps)]

\* All that a walk which turned there passes, and what it has still to pass.
Expected(turn) ==
  CASE turn[2] = 1 -> B!Down("end", turn[3])
    [] turn[2] = 2 -> B!Down("afterNetwork", turn[3]) \o B!Down("end", B!N)
    [] turn[2] = 3 -> B!Down("afterNetwork", B!N) \o B!Down("end", B!N)

Remaining(phase, index) ==
  CASE phase = 1 -> B!Down("end", index)
    [] phase = 2 -> B!Down("afterNetwork", index) \o B!Down("end", B!N)
    [] phase = 3 -> B!Down("afterNetwork", B!N) \o B!Down("end", B!N)

\* What a walk has passed, and what is ahead of it, is all.
Returning(t) ==
  t.direction = "backwards" =>
    t.index <= B!N /\ t.turn \in PipeTurns /\ t.seen \o Remaining(t.phase, t.index) = Expected(t.turn)

Throwing(t) ==
  t.direction = "error" =>
    /\ t.index <= B!N /\ t.turn \in PipeTurns
    /\ t.send \notin pipeAborted /\ t.turn[3] > 0 =>
         t.seen \o B!Down("catch", t.index) = B!Down("catch", t.turn[3] - 1)

WalkSound(t) == t \in PipeWalk /\ Returning(t) /\ Throwing(t)

PipeInv ==
  /\ pipeShown \in PipelineValues \cup {NoValue}
  /\ pipeSettled \in [PipelineSends -> {"none", "open", "resolved", "rejected"}]
  /\ pipeAborted \subseteq PipelineSends
  /\ \A t \in pipeWalks : WalkSound(t)
  /\ B!Answered /\ B!Exits /\ B!Catches

-----------------------------------------------------------------------------
\* Where the next hook is.
LEMMA TargetIs ==
  ASSUME PipelineConstants, NEW t
  PROVE  /\ B!Target(t) = 0 => B!Targets(t) = {}
         /\ B!Target(t) # 0 =>
              /\ B!Target(t) \in B!Targets(t) /\ B!Target(t) \in 1 .. B!N
              /\ t.direction # "forward" => \A j \in B!Targets(t) : j <= B!Target(t)
<1> DEFINE st == B!Targets(t)
<1>1. B!N \in Nat /\ st \subseteq 1 .. B!N
  BY PipelineSize DEF B!Targets
<1>2. CASE st = {}
  BY <1>2 DEF B!Target
<1>3. CASE st # {}
  <2>1. /\ \E j \in st : \A k \in st : j <= k
        /\ \E j \in st : \A k \in st : k <= j
    BY <1>1, <1>3, LowestAndHighest
  <2>2. B!Target(t) = IF t.direction = "forward" THEN CHOOSE i \in st : \A j \in st : i <= j
                      ELSE CHOOSE i \in st : \A j \in st : j <= i
    BY <1>3 DEF B!Target
  <2> HIDE DEF st
  <2>3. CASE t.direction = "forward"
    <3> DEFINE c == CHOOSE i \in st : \A j \in st : i <= j
    <3>1. c \in st
      BY <2>1
    <3>2. B!Target(t) = c
      BY <2>2, <2>3
    <3> HIDE DEF c
    <3> QED  BY <1>1, <2>3, <3>1, <3>2 DEF st
  <2>4. CASE t.direction # "forward"
    <3> DEFINE c == CHOOSE i \in st : \A j \in st : j <= i
    <3>1. c \in st /\ \A j \in st : j <= c
      BY <2>1
    <3>2. B!Target(t) = c
      BY <2>2, <2>4
    <3> HIDE DEF c
    <3> QED  BY <1>1, <3>1, <3>2 DEF st
  <2> QED  BY <2>3, <2>4
<1> QED  BY <1>2, <1>3

\* The hook that a walk meets is the first of what it has still to pass.
LEMMA PassesTarget ==
  ASSUME PipelineConstants, NEW t \in PipeWalk, t.direction # "forward", t.index <= B!N,
         B!Hook(t) # NoValue
  PROVE  /\ B!Target(t) = 0 => B!Down(B!Hook(t), t.index) = <<>>
         /\ B!Target(t) # 0 =>
              B!Down(B!Hook(t), t.index)
                = <<<<B!Hook(t), B!Target(t)>>>> \o B!Down(B!Hook(t), B!Target(t) - 1)
<1> DEFINE i == t.index
           h == B!Hook(t)
           j == B!Target(t)
<1>1. i \in Int /\ B!N \in Nat
  BY PipelineSize DEF PipeWalk
<1>2. B!Targets(t) = Having(h, i)
  <2>1. \A k \in 1 .. i : k \in 1 .. B!N /\ k <= i
    BY <1>1
  <2> QED  BY <1>1, <2>1 DEF B!Targets, Having
<1> HIDE DEF i, h, j
<1>3. CASE j = 0
  <2>1. Having(h, i) = {}
    BY <1>2, <1>3, TargetIs DEF j
  <2> QED  BY <1>1, <1>3, <2>1, DownEmpty DEF j, h, i
<1>4. CASE j # 0
  <2>1. j \in Having(h, i) /\ \A k \in Having(h, i) : k <= j
    BY <1>2, <1>4, TargetIs DEF j
  <2>2. B!Down(h, i) = <<<<h, j>>>> \o B!Down(h, j - 1)
    BY <1>1, <2>1, DownStep
  <2> QED  BY <1>4, <2>2 DEF j, h, i
<1> QED  BY <1>3, <1>4 DEF j

\* A step that was ahead is behind.
LEMMA PassesOne ==
  ASSUME NEW p \in Seq(PipeSteps), NEW y \in PipeSteps, NEW Elem, NEW q \in Seq(Elem)
  PROVE  Append(p, y) \o q = p \o (<<y>> \o q)
<1> DEFINE All == PipeSteps \cup Elem
<1>1. p \in Seq(All) /\ q \in Seq(All) /\ y \in All
  <2>1. PipeSteps \subseteq All /\ Elem \subseteq All
    OBVIOUS
  <2> HIDE DEF All
  <2> QED  BY <2>1, WiderSequence
<1> HIDE DEF All
<1>2. Append(p, y) = p \o <<y>> /\ <<y>> \in Seq(All)
  BY <1>1, AppendIsConcat
<1> QED  BY <1>1, <1>2, ConcatAssociative

LEMMA ConcatsTogether ==
  ASSUME NEW A1, NEW A2, NEW A3, NEW p \in Seq(A1), NEW q \in Seq(A2), NEW r \in Seq(A3)
  PROVE  (p \o q) \o r = p \o (q \o r)
<1> DEFINE All == A1 \cup A2 \cup A3
<1>1. A1 \subseteq All /\ A2 \subseteq All /\ A3 \subseteq All
  OBVIOUS
<1> HIDE DEF All
<1>2. p \in Seq(All) /\ q \in Seq(All) /\ r \in Seq(All)
  BY <1>1, WiderSequence
<1> QED  BY <1>2, ConcatAssociative

-----------------------------------------------------------------------------
\* What a step makes of a walk.
LEMMA OnwardSound ==
  ASSUME PipelineConstants, NEW t \in PipeWalk, NEW i \in 1 .. B!N
  PROVE  WalkSound(B!Onward(t, i + 1)) /\ B!Onward(t, i + 1).send = t.send
<1>1. B!N \in Nat
  BY PipelineSize
<1>2. i + 1 \in -1 .. B!N + 1 /\ (i + 1) - 1 \in 0 .. B!N
  BY <1>1
<1> DEFINE u == B!Onward(t, i + 1)
<1>3. u \in PipeWalk /\ u.direction = "forward" /\ u.send = t.send
  BY <1>2 DEF PipeWalk, B!Onward
<1> QED  BY <1>3 DEF WalkSound, Returning, Throwing

LEMMA AgainSound ==
  ASSUME PipelineConstants, NEW t \in PipeWalk, NEW i \in 1 .. B!N + 1, NEW f \in 1 .. B!N
  PROVE  WalkSound(B!Again(t, i, f)) /\ B!Again(t, i, f).send = t.send
<1>1. B!N \in Nat
  BY PipelineSize
<1>2. i \in -1 .. B!N + 1 /\ f \in 0 .. B!N /\ <<>> \in Seq(PipeSteps) /\ 1 \in 1 .. 3
  BY <1>1
<1> DEFINE u == B!Again(t, i, f)
<1>3. u \in PipeWalk /\ u.direction = "forward" /\ u.send = t.send
  BY <1>2 DEF PipeWalk, B!Again
<1> QED  BY <1>3 DEF WalkSound, Returning, Throwing

\* What is expected of a walk is a sequence.
LEMMA RemainingIs ==
  ASSUME PipelineConstants, NEW phase \in 1 .. 3, NEW i \in Int
  PROVE  /\ \E Elem : Remaining(phase, i) \in Seq(Elem)
         /\ <<>> \o Remaining(phase, i) = Remaining(phase, i)
<1>1. \E Elem : Remaining(phase, i) \in Seq(Elem)
  <2>0. B!N \in Int
    BY PipelineSize
  <2>1. PICK A1 : B!Down("end", i) \in Seq(A1)
    BY DownIs
  <2>2. PICK A2 : B!Down("afterNetwork", i) \in Seq(A2)
    BY DownIs
  <2>3. PICK A3 : B!Down("end", B!N) \in Seq(A3)
    BY <2>0, DownIs
  <2>4. PICK A4 : B!Down("afterNetwork", B!N) \in Seq(A4)
    BY <2>0, DownIs
  <2> DEFINE All == A1 \cup A2 \cup A3 \cup A4
  <2>5. A1 \subseteq All /\ A2 \subseteq All /\ A3 \subseteq All /\ A4 \subseteq All
    OBVIOUS
  <2> HIDE DEF All
  <2>6. /\ B!Down("end", i) \in Seq(All) /\ B!Down("afterNetwork", i) \in Seq(All)
        /\ B!Down("end", B!N) \in Seq(All) /\ B!Down("afterNetwork", B!N) \in Seq(All)
    BY <2>1, <2>2, <2>3, <2>4, <2>5, WiderSequence
  <2>7. /\ B!Down("afterNetwork", i) \o B!Down("end", B!N) \in Seq(All)
        /\ B!Down("afterNetwork", B!N) \o B!Down("end", B!N) \in Seq(All)
    BY <2>6, ConcatProperties
  <2>8. phase = 1 \/ phase = 2 \/ phase = 3
    OBVIOUS
  <2>9. Remaining(phase, i) \in Seq(All)
    BY <2>6, <2>7, <2>8 DEF Remaining
  <2> QED  BY <2>9
<1>2. PICK Elem : Remaining(phase, i) \in Seq(Elem)
  BY <1>1
<1>3. <<>> \o Remaining(phase, i) = Remaining(phase, i)
  BY <1>2, ConcatEmptySeq
<1> QED  BY <1>1, <1>3

LEMMA TurnSound ==
  ASSUME PipelineConstants, NEW t \in PipeWalk, NEW i \in 1 .. B!N,
         NEW v \in PipelineValues \cup {NoValue}
  PROVE  WalkSound(B!Turn(t, i, v)) /\ B!Turn(t, i, v).send = t.send
<1>1. B!N \in Nat
  BY PipelineSize
<1>2. i \in -1 .. B!N + 1 /\ i \in 0 .. B!N /\ <<>> \in Seq(PipeSteps) /\ i <= B!N /\ i \in Int
  BY <1>1
<1>3. t.phase \in 1 .. 3 /\ <<"resolved", t.phase, i>> \in PipeTurns
  BY <1>2 DEF PipeWalk, PipeTurns
<1> DEFINE u == B!Turn(t, i, v)
<1>4. /\ u \in PipeWalk /\ u.direction = "backwards" /\ u.send = t.send /\ u.phase = t.phase /\ u.index = i
      /\ u.turn = <<"resolved", t.phase, i>> /\ u.seen = <<>>
  BY <1>2, <1>3 DEF PipeWalk, B!Turn
<1> HIDE DEF u
<1>5. Expected(u.turn) = Remaining(t.phase, i)
  <2>1. u.turn[2] = t.phase /\ u.turn[3] = i /\ (t.phase = 1 \/ t.phase = 2 \/ t.phase = 3)
    BY <1>3, <1>4
  <2> QED  BY <2>1 DEF Expected, Remaining
<1>6. u.seen \o Remaining(u.phase, u.index) = Expected(u.turn)
  BY <1>2, <1>3, <1>4, <1>5, RemainingIs
<1>7. Returning(u)
  BY <1>2, <1>3, <1>4, <1>6 DEF Returning
<1>8. Throwing(u)
  BY <1>4 DEF Throwing
<1> QED  BY <1>4, <1>7, <1>8 DEF WalkSound, u

\* The setup ends where all plugins have had their turn.
LEMMA SetupSound ==
  ASSUME PipelineConstants, NEW t \in PipeWalk, NEW v \in PipelineValues \cup {NoValue}
  PROVE  LET u == [B!Turn(t, B!N, v) EXCEPT !.phase = 1, !.turn = <<"setup", 1, B!N>>]
         IN  WalkSound(u) /\ u.send = t.send
<1>1. B!N \in Nat
  BY PipelineSize
<1>2. B!N \in -1 .. B!N + 1 /\ B!N \in 0 .. B!N /\ <<>> \in Seq(PipeSteps) /\ B!N <= B!N /\ B!N \in Int /\ 1 \in 1 .. 3
  BY <1>1
<1>3. <<"setup", 1, B!N>> \in PipeTurns
  BY <1>2 DEF PipeTurns
<1> DEFINE w == B!Turn(t, B!N, v)
           u == [w EXCEPT !.phase = 1, !.turn = <<"setup", 1, B!N>>]
<1>0. <<"resolved", t.phase, B!N>> \in PipeTurns
  BY <1>2 DEF PipeWalk, PipeTurns
<1>4. /\ w \in PipeWalk /\ w.direction = "backwards" /\ w.send = t.send /\ w.index = B!N /\ w.seen = <<>>
  BY <1>0, <1>2 DEF PipeWalk, B!Turn
<1> HIDE DEF w
<1>5. /\ u \in PipeWalk /\ u.direction = "backwards" /\ u.send = t.send /\ u.phase = 1 /\ u.index = B!N
      /\ u.turn = <<"setup", 1, B!N>> /\ u.seen = <<>>
  BY <1>2, <1>3, <1>4 DEF PipeWalk
<1> HIDE DEF u
<1>6. Expected(u.turn) = Remaining(1, B!N)
  BY <1>5 DEF Expected, Remaining
<1>7. u.seen \o Remaining(u.phase, u.index) = Expected(u.turn)
  BY <1>2, <1>5, <1>6, RemainingIs
<1>8. Returning(u) /\ Throwing(u)
  BY <1>2, <1>3, <1>5, <1>7 DEF Returning, Throwing
<1> QED  BY <1>5, <1>8 DEF WalkSound, u, w

LEMMA ErrorSound ==
  ASSUME PipelineConstants, NEW t \in PipeWalk, NEW i \in 0 .. B!N
  PROVE  WalkSound(B!Error(t, i)) /\ B!Error(t, i).send = t.send
<1>1. B!N \in Nat
  BY PipelineSize
<1>2. i - 1 \in -1 .. B!N + 1 /\ i - 1 <= B!N /\ <<>> \in Seq(PipeSteps) /\ i - 1 \in Int
  BY <1>1
<1>3. t.phase \in 1 .. 3 /\ <<"thrown", t.phase, i>> \in PipeTurns
  BY DEF PipeWalk, PipeTurns
<1> DEFINE u == B!Error(t, i)
<1>4. /\ u \in PipeWalk /\ u.direction = "error" /\ u.send = t.send /\ u.index = i - 1
      /\ u.turn = <<"thrown", t.phase, i>> /\ u.seen = <<>>
  BY <1>2, <1>3 DEF PipeWalk, B!Error
<1> HIDE DEF u
<1>5. u.seen \o B!Down("catch", u.index) = B!Down("catch", u.turn[3] - 1)
  <2>1. PICK Elem : B!Down("catch", u.index) \in Seq(Elem)
    <3>1. u.index \in Int
      BY <1>2, <1>4
    <3> QED  BY <3>1, DownIs
  <2>2. <<>> \o B!Down("catch", u.index) = B!Down("catch", u.index)
    BY <2>1, ConcatEmptySeq
  <2>3. u.turn[3] - 1 = u.index
    BY <1>4
  <2> QED  BY <1>4, <2>2, <2>3
<1>6. Returning(u)
  BY <1>4 DEF Returning
<1>7. Throwing(u)
  BY <1>2, <1>3, <1>4, <1>5 DEF Throwing
<1> QED  BY <1>4, <1>6, <1>7 DEF WalkSound, u

\* The hooks of the phases on the way back.
LEMMA HooksBack ==
  ASSUME PipelineConstants, NEW t \in PipeWalk
  PROVE  /\ t.direction = "backwards" /\ t.phase = 1 => B!Hook(t) = "end"
         /\ t.direction = "backwards" /\ t.phase = 2 => B!Hook(t) = "afterNetwork"
         /\ t.direction = "backwards" /\ t.phase = 3 => B!Hook(t) = NoValue /\ B!Target(t) = 0
         /\ t.direction = "error" => B!Hook(t) = "catch"
<1>1. t.phase \in 1 .. 3
  BY DEF PipeWalk
<1>2. B!Backwards = <<"end", "afterNetwork">> /\ DOMAIN B!Backwards = 1 .. 2
  BY DEF B!Backwards
<1>3. t.direction = "backwards" =>
        B!Hook(t) = IF t.phase \in DOMAIN B!Backwards THEN B!Backwards[t.phase] ELSE NoValue
  BY DEF B!Hook
<1>4. ASSUME t.direction = "backwards", t.phase = 3 PROVE B!Hook(t) = NoValue /\ B!Target(t) = 0
  <2>1. B!Hook(t) = NoValue
    BY <1>2, <1>3, <1>4
  <2>2. \A i \in 1 .. B!N : B!Hook(t) \notin PipelinePlugins[i]
    BY <2>1, PipelineSize
  <2>3. B!Targets(t) = {}
    BY <2>2 DEF B!Targets
  <2> QED  BY <2>1, <2>3 DEF B!Target
<1>5. t.direction = "error" => B!Hook(t) = "catch"
  BY DEF B!Hook
<1>6. t.direction = "backwards" /\ t.phase = 1 => B!Hook(t) = "end"
  BY <1>2, <1>3
<1>7. t.direction = "backwards" /\ t.phase = 2 => B!Hook(t) = "afterNetwork"
  BY <1>2, <1>3
<1> QED  BY <1>4, <1>5, <1>6, <1>7

LEMMA BackSound ==
  ASSUME PipelineConstants, NEW t, WalkSound(t), t.direction = "backwards",
         NEW v \in PipelineValues \cup {NoValue}, B!Target(t) # 0
  PROVE  WalkSound(B!Back(t, B!Target(t), v)) /\ B!Back(t, B!Target(t), v).send = t.send
<1>1. PICK i, h : i = B!Target(t) /\ h = B!Hook(t)
  OBVIOUS
<1>2. /\ t \in PipeWalk /\ t.index <= B!N /\ t.turn \in PipeTurns
      /\ t.seen \o Remaining(t.phase, t.index) = Expected(t.turn)
  BY DEF WalkSound, Returning
<1>3. B!N \in Nat /\ i \in 1 .. B!N /\ t.phase \in {1, 2} /\ t.phase \in 1 .. 3
  <2>1. t.phase \in 1 .. 3
    BY <1>2 DEF PipeWalk
  <2> QED  BY <1>1, <1>2, <2>1, PipelineSize, TargetIs, HooksBack
<1>4. h \in PipeHooks /\ (t.phase = 1 => h = "end") /\ (t.phase = 2 => h = "afterNetwork") /\ h # NoValue
  BY <1>1, <1>2, <1>3, HooksBack, PipelineSize DEF PipeHooks
<1>5. <<h, i>> \in PipeSteps /\ t.seen \in Seq(PipeSteps)
  BY <1>2, <1>3, <1>4 DEF PipeSteps, PipeWalk
<1>6. i - 1 \in -1 .. B!N + 1 /\ i - 1 <= B!N /\ i - 1 \in Int /\ i \in 0 .. B!N /\ t.index \in Int
  BY <1>2, <1>3 DEF PipeWalk
<1>7. Append(t.seen, <<h, i>>) \in Seq(PipeSteps)
  BY <1>5, AppendProperties
<1> DEFINE u == B!Back(t, i, v)
<1>8. /\ u \in PipeWalk /\ u.direction = "backwards" /\ u.send = t.send /\ u.index = i - 1
      /\ u.turn = t.turn /\ u.phase = t.phase /\ u.seen = Append(t.seen, <<h, i>>)
  BY <1>1, <1>2, <1>6, <1>7 DEF PipeWalk, B!Back
<1> HIDE DEF u
<1>9. B!Down(h, t.index) = <<<<h, i>>>> \o B!Down(h, i - 1)
  BY <1>1, <1>2, <1>3, <1>4, PassesTarget
<1>10. Remaining(t.phase, t.index) = <<<<h, i>>>> \o Remaining(t.phase, i - 1)
  <2>1. CASE t.phase = 1
    BY <1>4, <1>9, <2>1 DEF Remaining
  <2>2. CASE t.phase = 2
    <3>1. PICK A1 : B!Down(h, i - 1) \in Seq(A1)
      BY <1>6, DownIs
    <3>2. PICK A2 : B!Down("end", B!N) \in Seq(A2)
      <4>1. B!N \in Int
        BY <1>3
      <4> QED  BY <4>1, DownIs
    <3>3. <<<<h, i>>>> \in Seq(PipeSteps)
      BY <1>5
    <3>4. (<<<<h, i>>>> \o B!Down(h, i - 1)) \o B!Down("end", B!N)
            = <<<<h, i>>>> \o (B!Down(h, i - 1) \o B!Down("end", B!N))
      BY <3>1, <3>2, <3>3, ConcatsTogether
    <3>5. Remaining(t.phase, i - 1) = B!Down(h, i - 1) \o B!Down("end", B!N)
      BY <1>4, <2>2 DEF Remaining
    <3>6. Remaining(t.phase, t.index) = B!Down(h, t.index) \o B!Down("end", B!N)
      BY <1>4, <2>2 DEF Remaining
    <3> QED  BY <1>9, <3>4, <3>5, <3>6
  <2> QED  BY <1>3, <2>1, <2>2
<1>11. u.seen \o Remaining(u.phase, u.index) = Expected(u.turn)
  <2>1. PICK Elem : Remaining(t.phase, i - 1) \in Seq(Elem)
    BY <1>3, <1>6, RemainingIs
  <2>2. Append(t.seen, <<h, i>>) \o Remaining(t.phase, i - 1)
          = t.seen \o (<<<<h, i>>>> \o Remaining(t.phase, i - 1))
    BY <1>5, <2>1, PassesOne
  <2> QED  BY <1>2, <1>8, <1>10, <2>2
<1>12. Returning(u) /\ Throwing(u)
  BY <1>2, <1>6, <1>8, <1>11 DEF Returning, Throwing
<1> QED  BY <1>1, <1>8, <1>12 DEF WalkSound, u

LEMMA RethrownSound ==
  ASSUME PipelineConstants, NEW t, WalkSound(t), t.direction = "error", B!Target(t) # 0
  PROVE  WalkSound(B!Rethrown(t, B!Target(t))) /\ B!Rethrown(t, B!Target(t)).send = t.send
<1>1. PICK i : i = B!Target(t)
  OBVIOUS
<1>2. /\ t \in PipeWalk /\ t.index <= B!N /\ t.turn \in PipeTurns
      /\ t.send \notin pipeAborted /\ t.turn[3] > 0 =>
           t.seen \o B!Down("catch", t.index) = B!Down("catch", t.turn[3] - 1)
  BY DEF WalkSound, Throwing
<1>3. B!N \in Nat /\ i \in 1 .. B!N /\ B!Hook(t) = "catch" /\ "catch" \in PipeHooks /\ "catch" # NoValue
  BY <1>1, <1>2, PipelineSize, TargetIs, HooksBack DEF PipeHooks
<1>4. <<"catch", i>> \in PipeSteps /\ t.seen \in Seq(PipeSteps)
  BY <1>2, <1>3 DEF PipeSteps, PipeWalk
<1>5. i - 1 \in -1 .. B!N + 1 /\ i - 1 <= B!N /\ i - 1 \in Int /\ i \in 0 .. B!N /\ t.index \in Int
  BY <1>2, <1>3 DEF PipeWalk
<1>6. Append(t.seen, <<"catch", i>>) \in Seq(PipeSteps)
  BY <1>4, AppendProperties
<1> DEFINE u == B!Rethrown(t, i)
<1>7. /\ u \in PipeWalk /\ u.direction = "error" /\ u.send = t.send /\ u.index = i - 1
      /\ u.turn = t.turn /\ u.seen = Append(t.seen, <<"catch", i>>)
  BY <1>2, <1>5, <1>6 DEF PipeWalk, B!Rethrown
<1> HIDE DEF u
<1>8. B!Down("catch", t.index) = <<<<"catch", i>>>> \o B!Down("catch", i - 1)
  BY <1>1, <1>2, <1>3, PassesTarget
<1>9. PICK Elem : B!Down("catch", i - 1) \in Seq(Elem)
  BY <1>5, DownIs
<1>10. Append(t.seen, <<"catch", i>>) \o B!Down("catch", i - 1)
         = t.seen \o (<<<<"catch", i>>>> \o B!Down("catch", i - 1))
  BY <1>4, <1>9, PassesOne
<1>11. Returning(u) /\ Throwing(u)
  BY <1>2, <1>5, <1>7, <1>8, <1>10 DEF Returning, Throwing
<1> QED  BY <1>1, <1>7, <1>11 DEF WalkSound, u

\* Whatever a hook does, what follows is sound, and of the same send.
LEMMA AnswersSound ==
  ASSUME PipelineConstants, NEW t, WalkSound(t), B!Target(t) # 0, NEW more \in B!Answers(t, B!Target(t))
  PROVE  more # {} /\ \A u \in more : WalkSound(u) /\ u.send = t.send
<1>1. PICK i : i = B!Target(t)
  OBVIOUS
<1>2. t \in PipeWalk /\ i \in 1 .. B!N /\ i \in 0 .. B!N /\ t.value \in PipelineValues \cup {NoValue}
  <2>1. B!N \in Nat /\ i \in 1 .. B!N
    BY <1>1, PipelineSize, TargetIs
  <2> QED  BY <2>1 DEF WalkSound, PipeWalk
<1>3. CASE t.direction = "forward"
  <2>1. \/ more = {B!Onward(t, i + 1)}
        \/ \E v \in PipelineValues : more = {B!Turn(t, i, v)}
        \/ more = {B!Error(t, i)}
    BY <1>1, <1>3 DEF B!Answers
  <2> QED  BY <1>2, <2>1, OnwardSound, TurnSound, ErrorSound
<1>4. CASE t.direction = "backwards"
  <2>1. \/ \E v \in PipelineValues \cup {t.value} : more = {B!Back(t, i, v)}
        \/ more = {B!Error(t, i)}
    BY <1>1, <1>4 DEF B!Answers
  <2> QED  BY <1>1, <1>2, <1>4, <2>1, BackSound, ErrorSound
<1>5. CASE t.direction = "error"
  <2>1. \/ more = {B!Rethrown(t, i)}
        \/ \E v \in PipelineValues : more = {B!Turn(t, i, v)}
    BY <1>1, <1>5 DEF B!Answers
  <2> QED  BY <1>1, <1>2, <1>5, <2>1, RethrownSound, TurnSound
<1>6. t.direction \in {"forward", "backwards", "error"}
  BY <1>2 DEF PipeWalk
<1> QED  BY <1>3, <1>4, <1>5, <1>6

-----------------------------------------------------------------------------
\* The steps.
LEMMA PipeInitInv ==
  ASSUME B!Init
  PROVE  PipeInv
BY DEF PipeInv, B!Init, B!Answered, B!Exits, B!Catches

\* One walk gives way to others of its send.
LEMMA WalkReplaced ==
  ASSUME PipeInv, NEW t \in pipeWalks, NEW more, more # {}, \A u \in more : WalkSound(u) /\ u.send = t.send,
         pipeWalks' = (pipeWalks \ {t}) \cup more \/ pipeWalks' = pipeWalks \cup more,
         UNCHANGED <<pipeSettled, pipeAborted, pipeShown, pipeEnds>>
  PROVE  PipeInv'
<1>1. \A u : WalkSound(u)' = WalkSound(u)
  BY DEF WalkSound, Returning, Throwing
<1>2. \A u \in pipeWalks' : WalkSound(u)'
  BY <1>1 DEF PipeInv
<1>3. B!Answered'
  <2> SUFFICES ASSUME NEW s \in PipelineSends, pipeSettled[s] = "open"
               PROVE  \E u \in pipeWalks' : u.send = s
    BY DEF B!Answered
  <2>1. PICK u \in pipeWalks : u.send = s
    BY DEF PipeInv, B!Answered
  <2>2. CASE u \in pipeWalks'
    BY <2>1, <2>2
  <2>3. CASE u \notin pipeWalks'
    BY <2>1, <2>3
  <2> QED  BY <2>2, <2>3
<1>4. B!Exits' /\ B!Catches'
  BY DEF PipeInv, B!Exits, B!Catches
<1> QED  BY <1>2, <1>3, <1>4 DEF PipeInv

LEMMA PipeRunKeeps ==
  ASSUME PipelineConstants, PipeInv, NEW t \in pipeWalks, B!Run(t)
  PROVE  PipeInv'
<1>1. PICK i : i = B!Target(t)
  OBVIOUS
<1>2. /\ B!Target(t) # 0 /\ UNCHANGED <<pipeSettled, pipeAborted, pipeShown, pipeEnds>>
  BY DEF B!Run
<1>3. WalkSound(t) /\ t \in PipeWalk
  BY DEF PipeInv, WalkSound
<1>4. B!N \in Nat /\ i \in 1 .. B!N /\ i \in 0 .. B!N /\ i + 1 \in 1 .. B!N + 1 /\ i \in 1 .. B!N + 1
  <2>1. B!N \in Nat /\ i \in 1 .. B!N
    BY <1>1, <1>2, PipelineSize, TargetIs
  <2> QED  BY <2>1
<1>5. CASE t.send \in pipeAborted
  <2> DEFINE u == IF t.direction = "error" THEN [t EXCEPT !.index = i - 1, !.from = i] ELSE B!Error(t, i)
  <2>1. pipeWalks' = (pipeWalks \ {t}) \cup {u}
    BY <1>1, <1>5 DEF B!Run
  <2>2. WalkSound(u) /\ u.send = t.send
    <3>1. CASE t.direction # "error"
      BY <1>3, <1>4, <3>1, ErrorSound
    <3>2. CASE t.direction = "error"
      <4> DEFINE w == [t EXCEPT !.index = i - 1, !.from = i]
      <4>1. i - 1 \in -1 .. B!N + 1 /\ i - 1 <= B!N
        BY <1>4
      <4>2. /\ w \in PipeWalk /\ w.direction = "error" /\ w.send = t.send /\ w.index = i - 1
            /\ w.turn = t.turn
        BY <1>3, <1>4, <3>2, <4>1 DEF PipeWalk
      <4>3. u = w
        BY <3>2
      <4> HIDE DEF w, u
      <4>4. t.turn \in PipeTurns
        BY <1>3, <3>2 DEF WalkSound, Throwing
      <4>5. Throwing(w) /\ Returning(w)
        BY <1>5, <4>1, <4>2, <4>4 DEF Throwing, Returning
      <4> QED  BY <4>2, <4>3, <4>5 DEF WalkSound
    <3> QED  BY <3>1, <3>2
  <2> HIDE DEF u
  <2>3. PICK more : more = {u}
    OBVIOUS
  <2>4. more # {} /\ (\A w \in more : WalkSound(w) /\ w.send = t.send)
    BY <2>2, <2>3
  <2>5. pipeWalks' = (pipeWalks \ {t}) \cup more
    BY <2>1, <2>3
  <2> QED  BY <1>2, <2>4, <2>5, WalkReplaced
<1>6. CASE t.send \notin pipeAborted
  <2>1. PICK more : /\ \/ more \in B!Answers(t, i)
                       \/ more = {B!Again(t, IF t.direction = "error" THEN i + 1 ELSE i, i)}
                    /\ pipeWalks' = (pipeWalks \ {t}) \cup more \/ pipeWalks' = pipeWalks \cup more
    <3>1. \/ \E more \in B!Answers(t, i) : pipeWalks' = (pipeWalks \ {t}) \cup more
          \/ \E more \in B!Answers(t, i) : pipeWalks' = pipeWalks \cup more
          \/ pipeWalks' = (pipeWalks \ {t}) \cup {B!Again(t, IF t.direction = "error" THEN i + 1 ELSE i, i)}
      BY <1>1, <1>6 DEF B!Run
    <3> QED  BY <3>1
  <2>2. more # {} /\ \A u \in more : WalkSound(u) /\ u.send = t.send
    <3>1. CASE more \in B!Answers(t, i)
      BY <1>1, <1>2, <1>3, <3>1, AnswersSound
    <3>2. CASE more = {B!Again(t, IF t.direction = "error" THEN i + 1 ELSE i, i)}
      <4>1. PICK k \in 1 .. B!N + 1 : k = IF t.direction = "error" THEN i + 1 ELSE i
        BY <1>4
      <4>2. more = {B!Again(t, k, i)}
        BY <3>2, <4>1
      <4>3. WalkSound(B!Again(t, k, i)) /\ B!Again(t, k, i).send = t.send
        BY <1>3, <1>4, AgainSound
      <4> QED  BY <4>2, <4>3
    <3> QED  BY <2>1, <3>1, <3>2
  <2> QED  BY <1>2, <2>1, <2>2, WalkReplaced
<1> QED  BY <1>5, <1>6

\* A walk is over.
LEMMA WalkOver ==
  ASSUME PipeInv, NEW t \in pipeWalks, NEW how \in {"resolved", "rejected"},
         pipeWalks' = pipeWalks \ {t}, B!Settle(t.send, how), B!Ended(t, how), pipeAborted' = pipeAborted,
         pipeShown' \in PipelineValues \cup {NoValue},
         how = "resolved" => t.seen = Expected(t.turn),
         how = "rejected" /\ t.send \notin pipeAborted /\ t.turn[3] > 0 =>
           t.seen = B!Down("catch", t.turn[3] - 1)
  PROVE  PipeInv'
<1>1. \A u : WalkSound(u)' = WalkSound(u)
  BY DEF WalkSound, Returning, Throwing
<1>2. \A u \in pipeWalks' : WalkSound(u)'
  BY <1>1 DEF PipeInv
<1>3. t.send \in PipelineSends
  BY DEF PipeInv, WalkSound, PipeWalk
<1>4. pipeSettled' = [pipeSettled EXCEPT ![t.send] = IF @ = "open" THEN how ELSE @]
  BY DEF B!Settle
<1>5. pipeSettled' \in [PipelineSends -> {"none", "open", "resolved", "rejected"}]
  BY <1>3, <1>4 DEF PipeInv
<1>6. B!Answered'
  <2> SUFFICES ASSUME NEW s \in PipelineSends, pipeSettled'[s] = "open"
               PROVE  \E u \in pipeWalks' : u.send = s
    BY DEF B!Answered
  <2>1. s # t.send /\ pipeSettled[s] = "open"
    BY <1>3, <1>4 DEF PipeInv
  <2>2. PICK u \in pipeWalks : u.send = s
    BY <2>1 DEF PipeInv, B!Answered
  <2> QED  BY <2>1, <2>2
<1>7. PICK e : /\ e = [how |-> how, turn |-> t.turn, seen |-> t.seen, aborted |-> t.send \in pipeAborted]
               /\ pipeEnds' = pipeEnds \cup {e}
  BY DEF B!Ended
<1>8. e.how = how /\ e.turn = t.turn /\ e.seen = t.seen /\ e.aborted = (t.send \in pipeAborted)
  BY <1>7
<1>9. B!Exits'
  <2> SUFFICES ASSUME NEW f \in pipeEnds', f.how = "resolved"
               PROVE  f.seen = Expected(f.turn)
    BY DEF B!Exits, Expected
  <2>1. CASE f \in pipeEnds
    BY <2>1 DEF PipeInv, B!Exits, Expected
  <2>2. CASE f = e
    BY <1>8, <2>2
  <2> QED  BY <1>7, <2>1, <2>2
<1>10. B!Catches'
  <2> SUFFICES ASSUME NEW f \in pipeEnds', f.how = "rejected", ~f.aborted, f.turn[3] > 0
               PROVE  f.seen = B!Down("catch", f.turn[3] - 1)
    BY DEF B!Catches
  <2>1. CASE f \in pipeEnds
    BY <2>1 DEF PipeInv, B!Catches
  <2>2. CASE f = e
    BY <1>8, <2>2
  <2> QED  BY <1>7, <2>1, <2>2
<1> QED  BY <1>2, <1>5, <1>6, <1>9, <1>10 DEF PipeInv

\* A walk that ends a phase goes on with the next one.
LEMMA PhaseSound ==
  ASSUME PipelineConstants, NEW t, WalkSound(t), t.direction = "backwards", t.phase > 1, B!Target(t) = 0
  PROVE  LET u == [t EXCEPT !.phase = @ - 1, !.index = B!N]
         IN  WalkSound(u) /\ u.send = t.send
<1>1. /\ t \in PipeWalk /\ t.index <= B!N /\ t.turn \in PipeTurns
      /\ t.seen \o Remaining(t.phase, t.index) = Expected(t.turn)
  BY DEF WalkSound, Returning
<1>2. B!N \in Nat /\ t.phase \in {2, 3} /\ t.index \in Int
  <2>1. t.phase \in 1 .. 3
    BY <1>1 DEF PipeWalk
  <2> QED  BY <1>1, <2>1, PipelineSize DEF PipeWalk
<1>3. t.phase - 1 \in 1 .. 3 /\ B!N \in -1 .. B!N + 1 /\ B!N <= B!N /\ B!N \in Int
  BY <1>2
<1> DEFINE u == [t EXCEPT !.phase = @ - 1, !.index = B!N]
<1>4. /\ u \in PipeWalk /\ u.direction = "backwards" /\ u.send = t.send /\ u.index = B!N
      /\ u.turn = t.turn /\ u.phase = t.phase - 1 /\ u.seen = t.seen
  BY <1>1, <1>3 DEF PipeWalk
<1> HIDE DEF u
<1>5. Remaining(t.phase, t.index) = Remaining(t.phase - 1, B!N)
  <2>1. CASE t.phase = 3
    BY <2>1 DEF Remaining
  <2>2. CASE t.phase = 2
    <3>1. B!Hook(t) = "afterNetwork" /\ "afterNetwork" # NoValue
      BY <1>1, <2>2, HooksBack, PipelineSize DEF PipeHooks
    <3>2. B!Down("afterNetwork", t.index) = <<>>
      BY <1>1, <3>1, PassesTarget
    <3>3. PICK Elem : B!Down("end", B!N) \in Seq(Elem)
      BY <1>3, DownIs
    <3>4. <<>> \o B!Down("end", B!N) = B!Down("end", B!N)
      BY <3>3, ConcatEmptySeq
    <3>5. Remaining(t.phase, t.index) = B!Down("afterNetwork", t.index) \o B!Down("end", B!N)
      BY <2>2 DEF Remaining
    <3>6. Remaining(t.phase - 1, B!N) = B!Down("end", B!N)
      BY <2>2 DEF Remaining
    <3> QED  BY <3>2, <3>4, <3>5, <3>6
  <2> QED  BY <1>2, <2>1, <2>2
<1>6. u.seen \o Remaining(u.phase, u.index) = Expected(u.turn)
  BY <1>1, <1>4, <1>5
<1>7. Returning(u) /\ Throwing(u)
  BY <1>1, <1>3, <1>4, <1>6 DEF Returning, Throwing
<1> QED  BY <1>4, <1>7 DEF WalkSound, u

LEMMA PipeBoundKeeps ==
  ASSUME PipelineConstants, PipeInv, NEW t \in pipeWalks, B!Bound(t)
  PROVE  PipeInv'
<1>1. B!Target(t) = 0 /\ UNCHANGED pipeAborted
  BY DEF B!Bound
<1>2. /\ WalkSound(t) /\ t \in PipeWalk /\ t.direction \in {"forward", "backwards", "error"} /\ t.phase \in 1 .. 3
      /\ t.value \in PipelineValues \cup {NoValue} /\ t.from \in 0 .. B!N /\ t.seen \in Seq(PipeSteps)
      /\ t.setup \in BOOLEAN /\ B!N \in Nat /\ pipeShown \in PipelineValues \cup {NoValue}
  BY PipelineSize DEF PipeInv, WalkSound, PipeWalk
\* One walk goes on.
<1>3. ASSUME NEW u, pipeWalks' = (pipeWalks \ {t}) \cup {u}, WalkSound(u), u.send = t.send,
             UNCHANGED <<pipeSettled, pipeShown, pipeEnds>>
      PROVE  PipeInv'
  <2>1. PICK more : more = {u}
    OBVIOUS
  <2>2. more # {} /\ (\A w \in more : WalkSound(w) /\ w.send = t.send)
    BY <1>3, <2>1
  <2>3. pipeWalks' = (pipeWalks \ {t}) \cup more
    BY <1>3, <2>1
  <2> QED  BY <1>1, <1>3, <2>2, <2>3, WalkReplaced
<1>4. CASE t.direction = "forward"
  <2>0. UNCHANGED <<pipeSettled, pipeShown, pipeEnds>>
    BY <1>4 DEF B!Bound
  <2>1. CASE t.setup
    <3> DEFINE u == [B!Turn(t, B!N, pipeShown) EXCEPT !.phase = 1, !.turn = <<"setup", 1, B!N>>]
    <3>1. pipeWalks' = (pipeWalks \ {t}) \cup {u}
      BY <1>4, <2>1 DEF B!Bound
    <3>2. WalkSound(u) /\ u.send = t.send
      BY <1>2, SetupSound
    <3> HIDE DEF u
    <3> QED  BY <1>3, <2>0, <3>1, <3>2
  <2>2. CASE ~t.setup /\ t.phase < 3
    <3> DEFINE u == [t EXCEPT !.phase = @ + 1, !.index = 1]
    <3>1. pipeWalks' = (pipeWalks \ {t}) \cup {u}
      <4>1. Len(B!Forward) = 3
        BY DEF B!Forward
      <4> QED  BY <1>4, <2>2, <4>1 DEF B!Bound
    <3>2. t.phase + 1 \in 1 .. 3 /\ 1 \in -1 .. B!N + 1
      BY <1>2, <2>2
    <3>3. u \in PipeWalk /\ u.direction = "forward" /\ u.send = t.send
      BY <1>2, <1>4, <3>2 DEF PipeWalk
    <3> HIDE DEF u
    <3>4. WalkSound(u)
      BY <3>3 DEF WalkSound, Returning, Throwing
    <3> QED  BY <1>3, <2>0, <3>1, <3>3, <3>4
  <2>3. CASE ~t.setup /\ ~(t.phase < 3)
    <3> DEFINE u == B!Error(t, t.from)
    <3>1. pipeWalks' = (pipeWalks \ {t}) \cup {u}
      <4>1. Len(B!Forward) = 3
        BY DEF B!Forward
      <4> QED  BY <1>4, <2>3, <4>1 DEF B!Bound
    <3>2. WalkSound(u) /\ u.send = t.send
      BY <1>2, ErrorSound
    <3> HIDE DEF u
    <3> QED  BY <1>3, <2>0, <3>1, <3>2
  <2> QED  BY <2>1, <2>2, <2>3
<1>5. CASE t.direction = "error"
  <2>1. /\ pipeWalks' = pipeWalks \ {t} /\ B!Settle(t.send, "rejected") /\ B!Ended(t, "rejected")
        /\ pipeShown' = pipeShown
    BY <1>5 DEF B!Bound
  <2>2. B!Hook(t) = "catch" /\ "catch" # NoValue /\ t.index <= B!N
    BY <1>2, <1>5, HooksBack, PipelineSize DEF PipeHooks, WalkSound, Throwing
  <2>3. B!Down("catch", t.index) = <<>>
    BY <1>1, <1>2, <1>5, <2>2, PassesTarget
  <2>4. t.seen \o <<>> = t.seen
    BY <1>2, ConcatEmptySeq
  <2>5. t.send \notin pipeAborted /\ t.turn[3] > 0 => t.seen = B!Down("catch", t.turn[3] - 1)
    BY <1>2, <1>5, <2>3, <2>4 DEF WalkSound, Throwing
  <2> QED  BY <1>1, <1>2, <2>1, <2>5, WalkOver
<1>6. CASE t.direction = "backwards" /\ t.phase > 1
  <2> DEFINE u == [t EXCEPT !.phase = @ - 1, !.index = B!N]
  <2>1. pipeWalks' = (pipeWalks \ {t}) \cup {u} /\ UNCHANGED <<pipeSettled, pipeShown, pipeEnds>>
    BY <1>6 DEF B!Bound
  <2>2. WalkSound(u) /\ u.send = t.send
    BY <1>1, <1>2, <1>6, PhaseSound
  <2> HIDE DEF u
  <2> QED  BY <1>3, <2>1, <2>2
<1>7. CASE t.direction = "backwards" /\ ~(t.phase > 1)
  <2>1. /\ pipeWalks' = pipeWalks \ {t} /\ pipeShown' = t.value
        /\ B!Settle(t.send, "resolved") /\ B!Ended(t, "resolved")
    BY <1>7 DEF B!Bound
  <2>2. t.phase = 1
    BY <1>2, <1>7
  <2>3. B!Hook(t) = "end" /\ "end" # NoValue /\ t.index <= B!N
    BY <1>2, <1>7, <2>2, HooksBack, PipelineSize DEF PipeHooks, WalkSound, Returning
  <2>4. B!Down("end", t.index) = <<>>
    BY <1>1, <1>2, <1>7, <2>3, PassesTarget
  <2>5. t.seen \o <<>> = t.seen
    BY <1>2, ConcatEmptySeq
  <2>6. Remaining(t.phase, t.index) = <<>>
    BY <2>2, <2>4 DEF Remaining
  <2>7. t.seen = Expected(t.turn)
    BY <1>2, <1>7, <2>5, <2>6 DEF WalkSound, Returning
  <2> QED  BY <1>1, <1>2, <2>1, <2>7, WalkOver
<1> QED  BY <1>2, <1>4, <1>5, <1>6, <1>7

LEMMA PipeSendKeeps ==
  ASSUME PipelineConstants, PipeInv, NEW s \in PipelineSends, NEW setup \in BOOLEAN, B!Send(s, setup)
  PROVE  PipeInv'
<1>1. /\ pipeSettled' = [pipeSettled EXCEPT ![s] = "open"] /\ pipeWalks' = pipeWalks \cup {B!Walk(s, setup)}
      /\ UNCHANGED <<pipeAborted, pipeShown, pipeEnds>>
  BY DEF B!Send
<1>2. \A u : WalkSound(u)' = WalkSound(u)
  BY <1>1 DEF WalkSound, Returning, Throwing
<1> DEFINE w == B!Walk(s, setup)
<1>3. w \in PipeWalk /\ w.direction = "forward" /\ w.send = s
  <2>1. B!N \in Nat
    BY PipelineSize
  <2>2. <<>> \in Seq(PipeSteps) /\ 1 \in -1 .. B!N + 1 /\ 0 \in 0 .. B!N /\ 1 \in 1 .. 3
    BY <2>1
  <2> QED  BY <2>2 DEF PipeWalk, B!Walk
<1> HIDE DEF w
<1>4. WalkSound(w)
  BY <1>3 DEF WalkSound, Returning, Throwing
<1>5. \A u \in pipeWalks' : WalkSound(u)'
  BY <1>1, <1>2, <1>4 DEF PipeInv, w
<1>6. B!Answered'
  <2> SUFFICES ASSUME NEW q \in PipelineSends, pipeSettled'[q] = "open"
               PROVE  \E u \in pipeWalks' : u.send = q
    BY DEF B!Answered
  <2>1. CASE q = s
    BY <1>1, <1>3, <2>1 DEF w
  <2>2. CASE q # s
    BY <1>1, <2>2 DEF PipeInv, B!Answered
  <2> QED  BY <2>1, <2>2
<1>7. B!Exits' /\ B!Catches'
  BY <1>1 DEF PipeInv, B!Exits, B!Catches
<1> QED  BY <1>1, <1>5, <1>6, <1>7 DEF PipeInv

LEMMA PipeAbortKeeps ==
  ASSUME PipeInv, NEW s \in PipelineSends, B!Abort(s)
  PROVE  PipeInv'
<1>1. pipeAborted' = pipeAborted \cup {s} /\ UNCHANGED <<pipeWalks, pipeSettled, pipeShown, pipeEnds>>
  BY DEF B!Abort
<1>2. \A u : WalkSound(u) => WalkSound(u)'
  BY <1>1 DEF WalkSound, Returning, Throwing
<1> QED  BY <1>1, <1>2 DEF PipeInv, B!Answered, B!Exits, B!Catches

\* The invariant holds throughout.
THEOREM PipeInvHolds == B!Spec => []PipeInv
<1>1. PipelineConstants
  BY RuntimeAssumption
<1>2. B!Init => PipeInv
  BY PipeInitInv
<1>3. PipeInv /\ [B!Next]_(B!vars) => PipeInv'
  <2> SUFFICES ASSUME PipeInv, [B!Next]_(B!vars) PROVE PipeInv'
    OBVIOUS
  <2>1. CASE \E s \in PipelineSends : B!Abort(s) \/ \E setup \in BOOLEAN : B!Send(s, setup)
    BY <1>1, <2>1, PipeAbortKeeps, PipeSendKeeps
  <2>2. CASE \E t \in pipeWalks : B!Run(t) \/ B!Bound(t)
    BY <1>1, <2>2, PipeRunKeeps, PipeBoundKeeps
  <2>3. CASE UNCHANGED B!vars
    <3>1. \A u : WalkSound(u)' = WalkSound(u)
      BY <2>3 DEF WalkSound, Returning, Throwing, B!vars
    <3> QED  BY <2>3, <3>1 DEF PipeInv, B!Answered, B!Exits, B!Catches, B!vars
  <2> QED  BY <2>1, <2>2, <2>3 DEF B!Next
<1> QED  BY <1>2, <1>3, PTL DEF B!Spec

\* The types of walks, promises and aborts.
THEOREM PipeTypeCorrect == B!Spec => []B!TypeOK
<1>1. PipeInv => B!TypeOK
  BY DEF PipeInv, WalkSound, PipeWalk, B!TypeOK
<1> QED  BY <1>1, PipeInvHolds, PTL

(***************************************************************************)
(* The variables of a request on their way.                                *)
(***************************************************************************)

VariableValue == [is : GivenValues, times : Nat]
Assignment == UNION {[ns -> VariableValue] : ns \in SUBSET VariableNames}

ContextRecord ==
  [id : Nat, silent : BOOLEAN, phase : {"start", "enter", "out"}, variables : Assignment,
   marshaled : Assignment, init : BOOLEAN, changed : BOOLEAN,
   lastVariables : Assignment \cup {NoValue}, given : SUBSET VariableNames]

\* Each variable is held as it was converted from its present value.
Converted(c) ==
  /\ c \in ContextRecord
  /\ DOMAIN c.variables \subseteq DOMAIN c.marshaled
  /\ \A n \in DOMAIN c.variables : c.marshaled[n] = X!Marshal(n, c.variables[n])

\* What was set for the request has not been converted before, and the flag tells whether the
\* request differs from the last one.
ContextSound(c) ==
  /\ Converted(c)
  /\ \A n \in c.given : n \in DOMAIN c.variables /\ c.variables[n].times = 0
  /\ c.changed = (c.marshaled # c.lastVariables)

\* Where nothing has crossed there is one request, and it knows what the cache knows.
OneContext ==
  ~contextCrossed =>
    /\ \A c, d \in contextContexts : c = d
    /\ \A c \in contextContexts : ~c.silent /\ c.lastVariables = contextLast
    /\ contextLast # NoValue => contextSubscribed = contextLast

ContextInv ==
  /\ contextLast \in Assignment \cup {NoValue} /\ contextKept \in Assignment
  /\ contextCrossed \in BOOLEAN /\ contextSends \in Nat
  /\ \A c \in contextContexts : ContextSound(c)
  /\ \A c \in contextPosted : ContextSound(c)
  /\ OneContext

-----------------------------------------------------------------------------
LEMMA AssignmentIs ==
  ASSUME NEW f
  PROVE  f \in Assignment <=> /\ f = [n \in DOMAIN f |-> f[n]] /\ DOMAIN f \subseteq VariableNames
                              /\ \A n \in DOMAIN f : f[n] \in VariableValue
<1>1. ASSUME f \in Assignment
      PROVE  /\ f = [n \in DOMAIN f |-> f[n]] /\ DOMAIN f \subseteq VariableNames
             /\ \A n \in DOMAIN f : f[n] \in VariableValue
  <2>1. PICK ns \in SUBSET VariableNames : f \in [ns -> VariableValue]
    BY <1>1 DEF Assignment
  <2> QED  BY <2>1
<1>2. ASSUME f = [n \in DOMAIN f |-> f[n]], DOMAIN f \subseteq VariableNames,
             \A n \in DOMAIN f : f[n] \in VariableValue
      PROVE  f \in Assignment
  <2>1. f \in [DOMAIN f -> VariableValue] /\ DOMAIN f \in SUBSET VariableNames
    BY <1>2
  <2> QED  BY <2>1 DEF Assignment
<1> QED  BY <1>1, <1>2

LEMMA OverIs ==
  ASSUME NEW f \in Assignment, NEW g \in Assignment
  PROVE  /\ X!Over(f, g) \in Assignment
         /\ DOMAIN X!Over(f, g) = DOMAIN f \cup DOMAIN g
         /\ \A n \in DOMAIN f : X!Over(f, g)[n] = f[n]
         /\ \A n \in DOMAIN g \ DOMAIN f : X!Over(f, g)[n] = g[n]
<1> DEFINE h == X!Over(f, g)
<1>1. /\ DOMAIN f \subseteq VariableNames /\ \A n \in DOMAIN f : f[n] \in VariableValue
      /\ DOMAIN g \subseteq VariableNames /\ \A n \in DOMAIN g : g[n] \in VariableValue
  BY AssignmentIs
<1>2. h = [n \in DOMAIN f \cup DOMAIN g |-> IF n \in DOMAIN f THEN f[n] ELSE g[n]]
  BY DEF X!Over
<1>3. /\ DOMAIN h = DOMAIN f \cup DOMAIN g /\ \A n \in DOMAIN f : h[n] = f[n]
      /\ \A n \in DOMAIN g \ DOMAIN f : h[n] = g[n]
  BY <1>2
<1> HIDE DEF h
<1>4. DOMAIN h \subseteq VariableNames /\ \A n \in DOMAIN h : h[n] \in VariableValue
  BY <1>1, <1>3
<1>5. h = [n \in DOMAIN h |-> h[n]]
  BY <1>2
<1>6. h \in Assignment
  BY <1>4, <1>5, AssignmentIs
<1> QED  BY <1>3, <1>6 DEF h

LEMMA MarshalIs ==
  ASSUME NEW n, NEW v \in VariableValue
  PROVE  X!Marshal(n, v) \in VariableValue /\ X!Marshal(n, v).is = v.is
BY DEF X!Marshal, VariableValue

LEMMA AsIs ==
  ASSUME NEW v \in VariableValue, v.times = 0
  PROVE  v = X!As(v.is)
BY DEF X!As, VariableValue

\* What a step of the variables leaves.
LEMMA AppliedIs ==
  ASSUME NEW c, Converted(c), NEW val \in Assignment
  PROVE  LET a == X!Applied(c, val)
         IN  /\ Converted(a) /\ a.variables = val /\ a.changed = (a.marshaled # a.lastVariables)
             /\ a.lastVariables = c.lastVariables /\ a.silent = c.silent /\ a.given = c.given
<1> DEFINE changed == X!Changed(c, val)
           new == [n \in changed |-> X!Marshal(n, val[n])]
           over == X!Over(new, c.marshaled)
           m == IF changed # {} \/ ~c.init THEN over ELSE c.marshaled
           a == X!Applied(c, val)
<1>1. /\ c \in ContextRecord /\ c.marshaled \in Assignment /\ c.variables \in Assignment
      /\ DOMAIN c.variables \subseteq DOMAIN c.marshaled
      /\ \A n \in DOMAIN c.variables : c.marshaled[n] = X!Marshal(n, c.variables[n])
  BY DEF Converted, ContextRecord
<1>2. /\ changed \subseteq DOMAIN val
      /\ \A n \in DOMAIN val \ changed : n \in DOMAIN c.variables /\ val[n] = c.variables[n]
  BY DEF X!Changed
<1>3. DOMAIN val \subseteq VariableNames /\ \A n \in DOMAIN val : val[n] \in VariableValue
  BY AssignmentIs
<1> HIDE DEF changed
<1>4. /\ DOMAIN new = changed /\ \A n \in changed : new[n] = X!Marshal(n, val[n])
      /\ new = [n \in DOMAIN new |-> new[n]]
  OBVIOUS
<1> HIDE DEF new
<1>5. new \in Assignment
  <2>1. DOMAIN new \subseteq VariableNames /\ \A n \in DOMAIN new : new[n] \in VariableValue
    BY <1>2, <1>3, <1>4, MarshalIs
  <2> QED  BY <1>4, <2>1, AssignmentIs
<1>6. /\ over \in Assignment /\ DOMAIN over = changed \cup DOMAIN c.marshaled
      /\ \A n \in changed : over[n] = X!Marshal(n, val[n])
      /\ \A n \in DOMAIN c.marshaled \ changed : over[n] = c.marshaled[n]
  BY <1>1, <1>4, <1>5, OverIs
<1> HIDE DEF over
<1>7. /\ m \in Assignment /\ DOMAIN val \subseteq DOMAIN m
      /\ \A n \in DOMAIN val : m[n] = X!Marshal(n, val[n])
  <2>1. CASE changed # {} \/ ~c.init
    BY <1>1, <1>2, <1>6, <2>1
  <2>2. CASE ~(changed # {} \/ ~c.init)
    BY <1>1, <1>2, <2>2
  <2> QED  BY <2>1, <2>2
<1>8. a = [c EXCEPT !.variables = val, !.marshaled = m, !.init = TRUE, !.changed = m # c.lastVariables]
  BY DEF X!Applied, m, over, new, changed
<1> HIDE DEF m, a
<1>9. /\ a \in ContextRecord /\ a.variables = val /\ a.marshaled = m /\ a.changed = (m # c.lastVariables)
      /\ a.lastVariables = c.lastVariables /\ a.silent = c.silent /\ a.given = c.given
  <2>1. (m # c.lastVariables) \in BOOLEAN
    OBVIOUS
  <2> QED  BY <1>1, <1>7, <1>8, <2>1 DEF ContextRecord
<1>10. Converted(a)
  BY <1>7, <1>9 DEF Converted
<1> QED  BY <1>9, <1>10 DEF a

\* A plugin that sets variables, and one that takes one out.
LEMMA EditKeeps ==
  ASSUME ContextInv, NEW c \in contextContexts, NEW val \in Assignment, NEW more \in SUBSET VariableNames,
         \A n \in more : n \in DOMAIN val => val[n].times = 0,
         \A n \in (c.given \ more) \cap DOMAIN val : val[n] = c.variables[n],
         X!Edit(c, val, more)
  PROVE  ContextInv'
<1> DEFINE a == X!Applied(c, val)
           d == [a EXCEPT !.given = (@ \cup more) \cap DOMAIN val]
<1>1. /\ contextContexts' = (contextContexts \ {c}) \cup {d}
      /\ UNCHANGED <<contextLast, contextKept, contextSubscribed, contextPosted, contextCrossed, contextSends>>
  BY DEF X!Edit, X!Becomes
<1>2. ContextSound(c) /\ Converted(c)
  BY DEF ContextInv, ContextSound
<1>3. /\ Converted(a) /\ a.variables = val /\ a.changed = (a.marshaled # a.lastVariables)
      /\ a.lastVariables = c.lastVariables /\ a.silent = c.silent /\ a.given = c.given
  BY <1>2, AppliedIs
<1> HIDE DEF a
<1>4. a \in ContextRecord /\ a.given \subseteq VariableNames
  BY <1>3 DEF Converted, ContextRecord
<1>5. /\ d \in ContextRecord /\ d.variables = val /\ d.marshaled = a.marshaled /\ d.changed = a.changed
      /\ d.lastVariables = c.lastVariables /\ d.silent = c.silent /\ d.given = (c.given \cup more) \cap DOMAIN val
  BY <1>3, <1>4 DEF ContextRecord
<1> HIDE DEF d
<1>6. ContextSound(d)
  <2>1. Converted(d)
    BY <1>3, <1>5 DEF Converted
  <2>2. ASSUME NEW n \in d.given PROVE n \in DOMAIN d.variables /\ d.variables[n].times = 0
    <3>1. n \in DOMAIN val /\ (n \in more \/ n \in c.given \ more)
      BY <1>5, <2>2
    <3>2. CASE n \in more
      BY <1>5, <3>1, <3>2
    <3>3. CASE n \in c.given \ more
      <4>1. c.variables[n].times = 0
        BY <1>2, <3>3 DEF ContextSound
      <4>2. val[n] = c.variables[n]
        BY <3>1, <3>3
      <4> QED  BY <1>5, <3>1, <4>1, <4>2
    <3> QED  BY <3>1, <3>2, <3>3
  <2>3. d.changed = (d.marshaled # d.lastVariables)
    BY <1>3, <1>5
  <2> QED  BY <2>1, <2>2, <2>3 DEF ContextSound
<1>7. OneContext'
  BY <1>1, <1>5 DEF ContextInv, OneContext
<1> QED  BY <1>1, <1>6, <1>7 DEF ContextInv

LEMMA SetKeeps ==
  ASSUME ContextInv, NEW c \in contextContexts, NEW n \in VariableNames, NEW v \in GivenValues,
         X!SetVariable(c, n, v)
  PROVE  ContextInv'
<1> DEFINE one == [m \in {n} |-> X!As(v)]
           val == X!Over(one, c.variables)
<1>1. X!Edit(c, val, {n})
  BY DEF X!SetVariable
<1>2. c.variables \in Assignment
  BY DEF ContextInv, ContextSound, Converted, ContextRecord
<1>3. X!As(v) \in VariableValue /\ X!As(v).times = 0
  BY DEF X!As, VariableValue
<1>4. one \in [{n} -> VariableValue] /\ DOMAIN one = {n} /\ one[n].times = 0
  BY <1>3
<1> HIDE DEF one
<1>5. one \in Assignment
  BY <1>4 DEF Assignment
<1> DEFINE g == c.variables
<1>6. /\ val \in Assignment /\ val[n] = one[n]
      /\ \A m \in DOMAIN c.variables \ {n} : val[m] = c.variables[m]
      /\ DOMAIN val = {n} \cup DOMAIN c.variables
  <2>1. val = X!Over(one, g) /\ g \in Assignment
    BY <1>2
  <2> HIDE DEF g, val
  <2>2. /\ val \in Assignment /\ DOMAIN val = DOMAIN one \cup DOMAIN g
        /\ \A m \in DOMAIN one : val[m] = one[m]
        /\ \A m \in DOMAIN g \ DOMAIN one : val[m] = g[m]
    BY <1>5, <2>1, OverIs
  <2>3. /\ val \in Assignment /\ val[n] = one[n]
        /\ \A m \in DOMAIN g \ {n} : val[m] = g[m]
        /\ DOMAIN val = {n} \cup DOMAIN g
    BY <1>4, <2>2
  <2> QED  BY <2>3 DEF g
<1> HIDE DEF val
<1>7. \A m \in (c.given \ {n}) \cap DOMAIN val : val[m] = c.variables[m]
  BY <1>6
<1> QED  BY <1>1, <1>4, <1>6, <1>7, EditKeeps

LEMMA DropKeeps ==
  ASSUME ContextInv, NEW c \in contextContexts, NEW n \in VariableNames, X!DropVariable(c, n)
  PROVE  ContextInv'
<1> DEFINE rest == DOMAIN c.variables \ {n}
           val == X!Restrict(c.variables, rest)
<1>1. X!Edit(c, val, {})
  BY DEF X!DropVariable
<1>2. c.variables \in Assignment
  BY DEF ContextInv, ContextSound, Converted, ContextRecord
<1>3. /\ DOMAIN c.variables \subseteq VariableNames
      /\ \A m \in DOMAIN c.variables : c.variables[m] \in VariableValue
  BY <1>2, AssignmentIs
<1>4. val = [m \in rest |-> c.variables[m]]
  BY DEF X!Restrict
<1>5. val \in [rest -> VariableValue] /\ rest \in SUBSET VariableNames
  BY <1>3, <1>4
<1>6. val \in Assignment
  BY <1>5 DEF Assignment
<1>7. \A m \in (c.given \ {}) \cap DOMAIN val : val[m] = c.variables[m]
  BY <1>4
<1> HIDE DEF val
<1> QED  BY <1>1, <1>6, <1>7, EditKeeps

LEMMA StartKeeps ==
  ASSUME ContextInv, NEW c \in contextContexts, X!Start(c)
  PROVE  ContextInv'
<1> DEFINE val == X!Over(c.variables, contextKept)
           a == X!Applied(c, val)
           d == [a EXCEPT !.phase = "enter"]
<1>1. /\ contextContexts' = (contextContexts \ {c}) \cup {d}
      /\ UNCHANGED <<contextLast, contextKept, contextSubscribed, contextPosted, contextCrossed, contextSends>>
  BY DEF X!Start, X!Becomes
<1>2. ContextSound(c) /\ Converted(c) /\ c.variables \in Assignment /\ contextKept \in Assignment
  BY DEF ContextInv, ContextSound, Converted, ContextRecord
<1>3. /\ val \in Assignment /\ DOMAIN val = DOMAIN c.variables \cup DOMAIN contextKept
      /\ \A n \in DOMAIN c.variables : val[n] = c.variables[n]
  BY <1>2, OverIs
<1> HIDE DEF val
<1>4. /\ Converted(a) /\ a.variables = val /\ a.changed = (a.marshaled # a.lastVariables)
      /\ a.lastVariables = c.lastVariables /\ a.silent = c.silent /\ a.given = c.given
  BY <1>2, <1>3, AppliedIs
<1> HIDE DEF a
<1>5. /\ d \in ContextRecord /\ d.variables = val /\ d.marshaled = a.marshaled /\ d.changed = a.changed
      /\ d.lastVariables = c.lastVariables /\ d.silent = c.silent /\ d.given = c.given
  BY <1>4 DEF Converted, ContextRecord
<1> HIDE DEF d
<1>6. ContextSound(d)
  <2>1. Converted(d)
    BY <1>4, <1>5 DEF Converted
  <2>2. \A n \in d.given : n \in DOMAIN d.variables /\ d.variables[n].times = 0
    BY <1>2, <1>3, <1>5 DEF ContextSound
  <2> QED  BY <1>4, <1>5, <2>1, <2>2 DEF ContextSound
<1>7. OneContext'
  BY <1>1, <1>5 DEF ContextInv, OneContext
<1> QED  BY <1>1, <1>6, <1>7 DEF ContextInv

LEMMA ContextSendKeeps ==
  ASSUME ContextInv, NEW val \in X!Inputs, NEW silent \in BOOLEAN, X!Send(val, silent)
  PROVE  ContextInv'
<1> DEFINE c == X!Context(contextSends + 1, silent)
           a == X!Applied(c, val)
           d == [a EXCEPT !.given = DOMAIN val]
<1>1. /\ contextContexts' = contextContexts \cup {d} /\ contextSends' = contextSends + 1
      /\ contextCrossed' = (contextCrossed \/ silent \/ contextContexts # {})
      /\ UNCHANGED <<contextLast, contextKept, contextSubscribed, contextPosted>>
  BY DEF X!Send
<1>2. val \in Assignment /\ DOMAIN val \subseteq VariableNames /\ \A n \in DOMAIN val : val[n].times = 0
  <2>1. PICK ns \in SUBSET VariableNames : val \in [ns -> {X!As(v) : v \in GivenValues}]
    BY DEF X!Inputs
  <2>2. \A v \in GivenValues : X!As(v) \in VariableValue /\ X!As(v).times = 0
    BY DEF X!As, VariableValue
  <2>3. val \in [ns -> VariableValue] /\ DOMAIN val = ns /\ \A n \in ns : val[n].times = 0
    BY <2>1, <2>2
  <2> QED  BY <2>3 DEF Assignment
<1>3. Converted(c) /\ c.lastVariables = contextLast /\ c.silent = silent
  <2>1. X!Empty \in [{} -> VariableValue] /\ DOMAIN X!Empty = {}
    BY DEF X!Empty
  <2>2. X!Empty \in Assignment
    BY <2>1 DEF Assignment
  <2>3. contextSends + 1 \in Nat /\ contextLast \in Assignment \cup {NoValue}
    BY DEF ContextInv
  <2>4. /\ c \in ContextRecord /\ c.variables = X!Empty /\ c.lastVariables = contextLast /\ c.silent = silent
    BY <2>2, <2>3 DEF X!Context, ContextRecord
  <2> HIDE DEF c
  <2>5. DOMAIN c.variables = {}
    BY <2>1, <2>4
  <2> QED  BY <2>4, <2>5 DEF Converted
<1> HIDE DEF c
<1>4. /\ Converted(a) /\ a.variables = val /\ a.changed = (a.marshaled # a.lastVariables)
      /\ a.lastVariables = contextLast /\ a.silent = silent
  BY <1>2, <1>3, AppliedIs
<1> HIDE DEF a
<1>5. /\ d \in ContextRecord /\ d.variables = val /\ d.marshaled = a.marshaled /\ d.changed = a.changed
      /\ d.lastVariables = contextLast /\ d.silent = silent /\ d.given = DOMAIN val
  <2>1. a.lastVariables = contextLast /\ a \in ContextRecord
    BY <1>4 DEF Converted
  <2> QED  BY <1>2, <1>4, <2>1 DEF ContextRecord
<1> HIDE DEF d
<1>6. ContextSound(d)
  <2>1. Converted(d)
    BY <1>4, <1>5 DEF Converted
  <2> QED  BY <1>2, <1>4, <1>5, <2>1 DEF ContextSound
<1>7. OneContext'
  <2> SUFFICES ASSUME ~contextCrossed'
               PROVE  /\ \A x, y \in contextContexts' : x = y
                      /\ \A x \in contextContexts' : ~x.silent /\ x.lastVariables = contextLast'
                      /\ contextLast' # NoValue => contextSubscribed' = contextLast'
    BY DEF OneContext
  <2>1. ~contextCrossed /\ ~silent /\ contextContexts = {}
    BY <1>1
  <2>2. contextContexts' = {d}
    BY <1>1, <2>1
  <2> QED  BY <1>1, <1>5, <2>1, <2>2 DEF ContextInv, OneContext
<1> QED  BY <1>1, <1>6, <1>7 DEF ContextInv


LEMMA PostKeeps ==
  ASSUME ContextInv, NEW c \in contextContexts, X!Post(c)
  PROVE  ContextInv'
<1> DEFINE d == [c EXCEPT !.phase = "out"]
<1>1. /\ contextContexts' = (contextContexts \ {c}) \cup {d} /\ contextPosted' = {c}
      /\ UNCHANGED <<contextLast, contextKept, contextSubscribed, contextCrossed, contextSends>>
  BY DEF X!Post, X!Becomes
<1>2. ContextSound(c) /\ Converted(c) /\ c \in ContextRecord
  BY DEF ContextInv, ContextSound, Converted
<1>3. /\ d \in ContextRecord /\ d.variables = c.variables /\ d.marshaled = c.marshaled
      /\ d.changed = c.changed /\ d.lastVariables = c.lastVariables /\ d.silent = c.silent
      /\ d.given = c.given
  BY <1>2 DEF ContextRecord
<1> HIDE DEF d
<1>4. ContextSound(d)
  BY <1>2, <1>3 DEF ContextSound, Converted
<1>5. OneContext'
  BY <1>1, <1>3 DEF ContextInv, OneContext
<1> QED  BY <1>1, <1>2, <1>4, <1>5 DEF ContextInv

LEMMA ContextAnswerKeeps ==
  ASSUME ContextInv, NEW c \in contextContexts, X!Answer(c)
  PROVE  ContextInv'
<1>1. /\ contextContexts' = contextContexts \ {c} /\ contextPosted' = {} /\ contextLast' = c.marshaled
      /\ UNCHANGED <<contextCrossed, contextSends>>
  BY DEF X!Answer
<1>2. /\ c.changed /\ ~c.silent => contextKept' = c.marshaled /\ contextSubscribed' = c.marshaled
      /\ ~(c.changed /\ ~c.silent) => UNCHANGED <<contextKept, contextSubscribed>>
  BY DEF X!Answer
<1>3. ContextSound(c) /\ c.marshaled \in Assignment /\ c.changed = (c.marshaled # c.lastVariables)
  BY DEF ContextInv, ContextSound, Converted, ContextRecord
<1>4. contextKept' \in Assignment
  BY <1>2, <1>3 DEF ContextInv
<1>5. OneContext'
  <2> SUFFICES ASSUME ~contextCrossed'
               PROVE  /\ contextContexts' = {}
                      /\ contextLast' # NoValue => contextSubscribed' = contextLast'
    BY DEF OneContext
  <2>1. /\ \A x \in contextContexts : x = c
        /\ ~c.silent /\ c.lastVariables = contextLast
        /\ contextLast # NoValue => contextSubscribed = contextLast
    BY <1>1 DEF ContextInv, OneContext
  <2>2. CASE c.changed
    BY <1>1, <1>2, <2>1, <2>2
  <2>3. CASE ~c.changed
    <3>1. c.marshaled = contextLast
      BY <1>3, <2>1, <2>3
    <3> QED  BY <1>1, <1>2, <2>1, <2>3, <3>1
  <2> QED  BY <2>2, <2>3
<1> QED  BY <1>1, <1>3, <1>4, <1>5 DEF ContextInv

LEMMA ContextFailKeeps ==
  ASSUME ContextInv, NEW c \in contextContexts, X!Fail(c)
  PROVE  ContextInv'
<1>1. /\ contextContexts' = contextContexts \ {c} /\ contextPosted' = {}
      /\ UNCHANGED <<contextLast, contextKept, contextSubscribed, contextCrossed, contextSends>>
  BY DEF X!Fail
<1>2. OneContext'
  BY <1>1 DEF ContextInv, OneContext
<1> QED  BY <1>1, <1>2 DEF ContextInv

LEMMA EmptyIs == X!Empty \in Assignment /\ DOMAIN X!Empty = {}
<1>1. X!Empty \in [{} -> VariableValue] /\ DOMAIN X!Empty = {}
  BY DEF X!Empty
<1> QED  BY <1>1 DEF Assignment

LEMMA ContextCleanupKeeps ==
  ASSUME ContextInv, X!Cleanup
  PROVE  ContextInv'
<1>1. /\ contextLast' = NoValue /\ contextKept' \in {contextKept, X!Empty}
      /\ contextCrossed' = (contextCrossed \/ contextContexts # {})
      /\ UNCHANGED <<contextContexts, contextPosted, contextSends>>
  BY DEF X!Cleanup
<1>2. contextKept' \in Assignment
  BY <1>1, EmptyIs DEF ContextInv
<1>3. OneContext'
  BY <1>1 DEF OneContext
<1> QED  BY <1>1, <1>2, <1>3 DEF ContextInv

LEMMA ContextInit == X!Init => ContextInv
<1> SUFFICES ASSUME X!Init
             PROVE  ContextInv
  OBVIOUS
<1>1. /\ contextLast = NoValue /\ contextKept = X!Empty /\ contextContexts = {} /\ contextPosted = {}
      /\ contextCrossed = FALSE /\ contextSends = 0
  BY DEF X!Init
<1>2. OneContext
  BY <1>1 DEF OneContext
<1> QED  BY <1>1, <1>2, EmptyIs DEF ContextInv

LEMMA ContextStep == ContextInv /\ [X!Next]_(X!vars) => ContextInv'
<1> SUFFICES ASSUME ContextInv, [X!Next]_(X!vars)
             PROVE  ContextInv'
  OBVIOUS
<1>1. ASSUME NEW val \in X!Inputs, NEW silent \in BOOLEAN, X!Send(val, silent)
      PROVE  ContextInv'
  BY <1>1, ContextSendKeeps
<1>2. ASSUME NEW c \in contextContexts, X!Start(c)
      PROVE  ContextInv'
  BY <1>2, StartKeeps
<1>3. ASSUME NEW c \in contextContexts, X!Post(c)
      PROVE  ContextInv'
  BY <1>3, PostKeeps
<1>4. ASSUME NEW c \in contextContexts, X!Answer(c)
      PROVE  ContextInv'
  BY <1>4, ContextAnswerKeeps
<1>5. ASSUME NEW c \in contextContexts, X!Fail(c)
      PROVE  ContextInv'
  BY <1>5, ContextFailKeeps
<1>6. ASSUME NEW c \in contextContexts, NEW n \in VariableNames, X!DropVariable(c, n)
      PROVE  ContextInv'
  BY <1>6, DropKeeps
<1>7. ASSUME NEW c \in contextContexts, NEW n \in VariableNames, NEW v \in GivenValues,
             X!SetVariable(c, n, v)
      PROVE  ContextInv'
  BY <1>7, SetKeeps
<1>8. CASE X!Cleanup
  BY <1>8, ContextCleanupKeeps
<1>9. CASE UNCHANGED X!vars
  BY <1>9 DEF X!vars, ContextInv, ContextSound, Converted, OneContext
<1> QED  BY <1>1, <1>2, <1>3, <1>4, <1>5, <1>6, <1>7, <1>8, <1>9 DEF X!Next

(* PipelineContext: what a context holds converted is its present variables, each converted  *)
(* from its present value, what was set for the request was never converted before, and the *)
(* changed flag compares with the variables that the last request ended with.                *)
THEOREM ContextInvHolds == X!Spec => []ContextInv
<1> QED  BY ContextInit, ContextStep, PTL DEF X!Spec

LEMMA ContextInvSends == ContextInv => X!SentAsSet /\ X!SubscribedAsSent
<1> SUFFICES ASSUME ContextInv
             PROVE  X!SentAsSet /\ X!SubscribedAsSent
  OBVIOUS
<1>1. ASSUME NEW c \in contextPosted, NEW n \in DOMAIN c.variables
      PROVE  /\ n \in DOMAIN c.marshaled /\ c.marshaled[n].is = c.variables[n].is
             /\ n \in c.given => c.marshaled[n] = X!Marshal(n, X!As(c.variables[n].is))
  <2>1. ContextSound(c) /\ c.variables \in Assignment
    BY DEF ContextInv, ContextSound, Converted, ContextRecord
  <2>2. c.variables[n] \in VariableValue
    BY <2>1, <1>1, AssignmentIs
  <2>3. n \in DOMAIN c.marshaled /\ c.marshaled[n] = X!Marshal(n, c.variables[n])
    BY <1>1, <2>1 DEF ContextSound, Converted
  <2>4. n \in c.given => c.variables[n] = X!As(c.variables[n].is)
    BY <2>1, <2>2, AsIs DEF ContextSound
  <2>5. c.marshaled[n].is = c.variables[n].is
    BY <2>2, <2>3, MarshalIs
  <2> QED  BY <2>3, <2>4, <2>5
<1>2. X!SentAsSet
  BY <1>1 DEF X!SentAsSet
<1>3. X!SubscribedAsSent
  BY DEF X!SubscribedAsSent, ContextInv, OneContext
<1> QED  BY <1>2, <1>3

(* DocumentPipeline and PipelineContext: a send that is open has a walk in the pipeline; a    *)
(* value that reaches the store has passed the hooks between where it was resolved and the    *)
(* store, an error that nobody caught every catch hook before the plugin that threw it; a     *)
(* request sends its variables as they were last set, converted once, and the cache knows     *)
(* the store by what the last one sent.                                                       *)
THEOREM PipelinesAnswerHolds == B!Spec /\ X!Spec => []PipelinesAnswer
<1>1. PipeInv /\ ContextInv => PipelinesAnswer
  BY ContextInvSends DEF PipeInv, PipelinesAnswer
<1> QED  BY <1>1, PipeInvHolds, ContextInvHolds, PTL

(***************************************************************************)
(* Svelte stores.                                                          *)
(***************************************************************************)

StoreCall ==
  [kind : {"load", "component"}, variables : StoreVariables \cup {NoValue},
   policy : StorePolicies \cup {"NetworkOnly"}, blocking : BOOLEAN, changed : BOOLEAN, at : Y!Places]

StoreValue == [variables : StoreVariables \cup {NoValue}, version : Nat]
StoreKey == StoreVariables \cup {NoValue, Unset}
On == {"client", "params", "silent", "out"}

StoreTypes ==
  /\ storeClient \in {"absent", "loading", "ready"} /\ storeSetups \in Seq(BOOLEAN)
  /\ storeReaders \subseteq StoreReaders /\ storeListening \in BOOLEAN /\ storeLoadPending \in BOOLEAN
  /\ storeShown \in StoreValue /\ storeObserver \in StoreValue
  /\ storeLast \in StoreKey /\ storeSubscribed \in StoreKey
  /\ storeCache \in [StoreVariables -> Nat] /\ storeClock \in Nat
  /\ storeFailed \in BOOLEAN /\ storeAway \in BOOLEAN /\ storeCrossed \in BOOLEAN

CallTypes ==
  /\ storeCalls \in [StoreCalls -> StoreCall]
  /\ \A c \in StoreCalls : storeCalls[c].at \in On => storeCalls[c].variables \in StoreVariables

StoreCounted == IsFiniteSet(storeReaders) /\ storeCount = Cardinality(storeReaders)

\* A store that listens shows its document store; one that is read listens, or will.
StoreShows ==
  /\ storeListening => storeShown = storeObserver
  /\ storeReaders # {} => storeListening \/ storeSetups # <<>>

\* A call is past its client once that is there, and its own set-up is run before it goes on.
SetUps ==
  /\ \A c \in StoreCalls : storeCalls[c].at \in {"params", "silent", "out"} => storeClient = "ready"
  /\ (\E i \in DOMAIN storeSetups : ~storeSetups[i]) => \E c \in StoreCalls : storeCalls[c].at = "params"

\* What was shown is in the cache.
Cached ==
  /\ storeObserver # Y!Empty =>
       storeObserver.variables \in StoreVariables /\ storeCache[storeObserver.variables] # 0
  /\ storeFailed => storeCrossed

\* Where nothing crossed: the subscription is that of the last variables.
Agree == ~storeCrossed => storeLast = storeSubscribed

\* A store that does not listen has none, and was left since it was set.
Departed ==
  ~storeCrossed /\ ~storeListening => storeLast = Unset /\ (storeObserver = Y!Empty \/ storeAway)

\* A request's store listens, or is about to.
Attended ==
  ~storeCrossed =>
    \A c \in StoreCalls :
      /\ storeCalls[c].at \in {"silent", "out"} => storeListening
      /\ storeCalls[c].at = "params" => storeListening \/ storeSetups # <<>>

\* One request is out, and knows still whether its variables are other than the last.
OneOutside ==
  ~storeCrossed =>
    \A c \in StoreCalls : storeCalls[c].at = "out" =>
      /\ \A d \in StoreCalls : storeCalls[d].at = "out" => d = c
      /\ storeCalls[c].changed = (storeLast # storeCalls[c].variables)

\* Once nothing is under way the last variables are those of what is shown.
SettledStore ==
  ~storeCrossed /\ storeListening /\ (\A c \in StoreCalls : storeCalls[c].at \notin On) =>
    storeLast = storeObserver.variables

\* And what is subscribed is up to date.
Current ==
  ~storeCrossed /\ ~storeAway /\ storeObserver # Y!Empty /\ storeLast = storeObserver.variables =>
    storeObserver.version = storeCache[storeObserver.variables]

StoreInv ==
  /\ StoreTypes /\ CallTypes /\ StoreCounted /\ StoreShows /\ SetUps /\ Cached
  /\ Agree /\ Departed /\ Attended /\ OneOutside /\ SettledStore /\ Current
  /\ Y!LoadsInProgress

-----------------------------------------------------------------------------
\* A call goes elsewhere.
LEMMA CallTo ==
  ASSUME CallTypes, NEW c \in StoreCalls, NEW at \in Y!Places, Y!To(c, at)
  PROVE  /\ storeCalls' \in [StoreCalls -> StoreCall] /\ storeCalls'[c].at = at
         /\ \A d \in StoreCalls \ {c} : storeCalls'[d] = storeCalls[d]
         /\ at = "silent" => /\ storeCalls'[c].variables = storeCalls[c].variables
                             /\ storeCalls'[c].kind = storeCalls[c].kind
<1> DEFINE k == IF at = "silent" THEN storeCalls[c] ELSE Y!Idle
           n == [k EXCEPT !.at = at]
<1>1. storeCalls' = [storeCalls EXCEPT ![c] = n]
  BY DEF Y!To
<1>2. storeCalls[c] \in StoreCall /\ storeCalls \in [StoreCalls -> StoreCall]
  BY DEF CallTypes
<1>3. Y!Idle \in StoreCall
  BY DEF Y!Idle, StoreCall, Y!Places
<1>4. k \in StoreCall /\ (at = "silent" => k = storeCalls[c])
  BY <1>2, <1>3
<1> HIDE DEF k
<1>5. n \in StoreCall /\ n.at = at /\ n.variables = k.variables /\ n.kind = k.kind
  BY <1>4 DEF StoreCall
<1> HIDE DEF n
<1>6. /\ storeCalls' \in [StoreCalls -> StoreCall] /\ storeCalls'[c] = n
      /\ \A d \in StoreCalls \ {c} : storeCalls'[d] = storeCalls[d]
  BY <1>1, <1>2, <1>5
<1> QED  BY <1>4, <1>5, <1>6

\* A call goes out.
LEMMA CallOut ==
  ASSUME CallTypes, NEW c \in StoreCalls, NEW b \in BOOLEAN,
         storeCalls' = [storeCalls EXCEPT ![c].at = "out", ![c].changed = b]
  PROVE  /\ storeCalls' \in [StoreCalls -> StoreCall] /\ storeCalls'[c].at = "out"
         /\ storeCalls'[c].variables = storeCalls[c].variables /\ storeCalls'[c].kind = storeCalls[c].kind
         /\ storeCalls'[c].changed = b
         /\ \A d \in StoreCalls \ {c} : storeCalls'[d] = storeCalls[d]
<1> DEFINE n == [storeCalls[c] EXCEPT !.at = "out", !.changed = b]
<1>1. storeCalls[c] \in StoreCall /\ storeCalls \in [StoreCalls -> StoreCall]
  BY DEF CallTypes
<1>2. storeCalls' = [storeCalls EXCEPT ![c] = n]
  BY <1>1 DEF StoreCall
<1>3. /\ n \in StoreCall /\ n.at = "out" /\ n.variables = storeCalls[c].variables
      /\ n.kind = storeCalls[c].kind /\ n.changed = b
  BY <1>1 DEF StoreCall, Y!Places
<1> HIDE DEF n
<1> QED  BY <1>1, <1>2, <1>3

\* No continuation can run: there is none.
LEMMA NoneWaits ==
  ASSUME StoreInv, NEW c \in StoreCalls, storeCalls[c].at \in {"params", "silent", "out"}, Y!Free
  PROVE  storeSetups = <<>> /\ (~storeCrossed => storeListening)
BY DEF StoreInv, SetUps, Y!Free, Attended

LEMMA ClientLoadsKeep ==
  ASSUME StoreInv, Y!ClientLoads
  PROVE  StoreInv'
<1>1. /\ storeClient' = "ready"
      /\ UNCHANGED <<storeSetups, storeReaders, storeCount, storeListening, storeShown, storeObserver, storeLast,
                     storeSubscribed, storeLoadPending, storeCalls, storeCache, storeFailed, storeAway, storeCrossed,
                     storeClock>>
  BY DEF Y!ClientLoads, Y!page, Y!document, Y!history
<1>2. StoreTypes' /\ CallTypes' /\ StoreCounted' /\ StoreShows' /\ SetUps' /\ Cached'
  BY <1>1 DEF StoreInv, StoreTypes, CallTypes, StoreCounted, StoreShows, SetUps, Cached, Y!Empty
<1>3. Agree' /\ Departed' /\ Attended' /\ OneOutside' /\ SettledStore' /\ Current' /\ Y!LoadsInProgress'
  BY <1>1 DEF StoreInv, Agree, Departed, Attended, OneOutside, SettledStore, Current, Y!LoadsInProgress, Y!Empty
<1> QED  BY <1>2, <1>3 DEF StoreInv

\* What is left of a sequence.
LEMMA TailIs ==
  ASSUME NEW Elem, NEW q \in Seq(Elem), q # <<>>
  PROVE  /\ Tail(q) \in Seq(Elem) /\ Head(q) \in Elem
         /\ \A i \in DOMAIN Tail(q) : i + 1 \in DOMAIN q /\ Tail(q)[i] = q[i + 1]
         /\ 1 \in DOMAIN q /\ q[1] = Head(q)
<1>1. Len(q) \in Nat \ {0} /\ DOMAIN q = 1 .. Len(q)
  OBVIOUS
<1>2. Tail(q) \in Seq(Elem) /\ Len(Tail(q)) = Len(q) - 1 /\ DOMAIN Tail(q) = 1 .. Len(q) - 1
  BY <1>1
<1>3. \A i \in 1 .. Len(q) - 1 : Tail(q)[i] = q[i + 1]
  BY <1>1
<1>4. Head(q) = q[1] /\ q[1] \in Elem
  BY <1>1
<1> QED  BY <1>1, <1>2, <1>3, <1>4

LEMMA ContinueKeeps ==
  ASSUME StoreInv, StoreConstants, Y!Continue
  PROVE  StoreInv'
<1>1. /\ storeClient = "ready" /\ storeSetups # <<>> /\ storeSetups' = Tail(storeSetups)
      /\ UNCHANGED <<storeClient, storeReaders, storeCount, storeObserver, storeLoadPending, storeCalls, storeCache,
                     storeFailed, storeAway, storeCrossed, storeClock>>
  BY DEF Y!Continue, Y!page, Y!history
<1>2. storeListening => UNCHANGED <<storeListening, storeShown, storeLast, storeSubscribed>>
  BY DEF Y!Continue
<1>3. ~storeListening =>
        /\ storeListening' = TRUE /\ storeShown' = storeObserver
        /\ Head(storeSetups) => /\ storeLast' = storeObserver.variables
                                /\ storeSubscribed' = IF storeLast # storeObserver.variables
                                                      THEN storeObserver.variables ELSE storeSubscribed
        /\ ~Head(storeSetups) => UNCHANGED <<storeLast, storeSubscribed>>
  BY DEF Y!Continue, Y!Initializes, Y!Ends
<1>4. /\ storeSetups \in Seq(BOOLEAN) /\ StoreTypes /\ storeObserver.variables \in StoreVariables \cup {NoValue}
      /\ storeListening \in BOOLEAN /\ storeLast \in StoreKey /\ storeSubscribed \in StoreKey
      /\ storeShown \in StoreValue /\ storeObserver \in StoreValue
  BY DEF StoreInv, StoreTypes, StoreValue
<1>5. /\ storeSetups' \in Seq(BOOLEAN) /\ Head(storeSetups) \in BOOLEAN
      /\ \A i \in DOMAIN storeSetups' : i + 1 \in DOMAIN storeSetups /\ storeSetups'[i] = storeSetups[i + 1]
      /\ 1 \in DOMAIN storeSetups /\ storeSetups[1] = Head(storeSetups)
  BY <1>1, <1>4, TailIs
<1>6. storeListening' /\ storeShown' = (IF storeListening THEN storeShown ELSE storeObserver)
      /\ storeLast' \in StoreKey /\ storeSubscribed' \in StoreKey
  BY <1>2, <1>3, <1>4, <1>5 DEF StoreKey
<1>7. StoreTypes'
  BY <1>1, <1>4, <1>5, <1>6 DEF StoreTypes
<1>8. CallTypes' /\ StoreCounted' /\ StoreShows' /\ Cached'
  BY <1>1, <1>6 DEF StoreInv, CallTypes, StoreCounted, StoreShows, Cached, Y!Empty
<1>9. SetUps'
  BY <1>1, <1>5 DEF StoreInv, SetUps
<1>10. Attended' /\ Y!LoadsInProgress'
  BY <1>1, <1>6 DEF StoreInv, Attended, Y!LoadsInProgress
<1>11. CASE storeListening
  BY <1>1, <1>2, <1>6, <1>7, <1>8, <1>9, <1>10, <1>11
    DEF StoreInv, Agree, Departed, OneOutside, SettledStore, Current, Y!Empty
<1>12. CASE ~storeListening
  <2>1. ~storeCrossed => /\ storeLast = Unset /\ storeSubscribed = Unset
                         /\ storeObserver = Y!Empty \/ storeAway
    BY <1>12 DEF StoreInv, Departed, Agree
  <2>2. storeObserver.variables # Unset
    BY <1>4 DEF StoreConstants
  <2>3. Agree'
    <3>1. CASE Head(storeSetups)
      BY <1>1, <1>3, <1>12, <2>1, <2>2, <3>1 DEF Agree
    <3>2. CASE ~Head(storeSetups)
      BY <1>1, <1>3, <1>12, <2>1, <3>2 DEF Agree
    <3> QED  BY <1>5, <3>1, <3>2
  <2>4. Departed' /\ Current'
    BY <1>1, <1>6, <2>1 DEF Departed, Current, Y!Empty
  <2>5. OneOutside'
    BY <1>1, <1>12 DEF StoreInv, OneOutside, Attended
  <2>6. SettledStore'
    <3>1. CASE Head(storeSetups)
      BY <1>1, <1>3, <1>12, <3>1 DEF SettledStore
    <3>2. CASE ~Head(storeSetups)
      <4>1. \E c \in StoreCalls : storeCalls[c].at = "params"
        BY <1>5, <3>2 DEF StoreInv, SetUps
      <4> QED  BY <1>1, <4>1 DEF SettledStore, On
    <3> QED  BY <1>5, <3>1, <3>2
  <2> QED  BY <1>7, <1>8, <1>9, <1>10, <2>3, <2>4, <2>5, <2>6 DEF StoreInv
<1> QED  BY <1>4, <1>11, <1>12

\* A sequence that grows.
LEMMA GrownBy ==
  ASSUME NEW Elem, NEW q \in Seq(Elem), NEW e \in Elem
  PROVE  /\ Append(q, e) \in Seq(Elem) /\ Append(q, e) # <<>>
         /\ \A i \in DOMAIN Append(q, e) : Append(q, e)[i] = e \/ (i \in DOMAIN q /\ Append(q, e)[i] = q[i])
<1>1. Len(q) \in Nat /\ DOMAIN q = 1 .. Len(q)
  OBVIOUS
<1>2. /\ Append(q, e) \in Seq(Elem) /\ Len(Append(q, e)) = Len(q) + 1
      /\ DOMAIN Append(q, e) = 1 .. Len(q) + 1
  BY <1>1
<1>3. \A i \in 1 .. Len(q) + 1 : Append(q, e)[i] = IF i \in 1 .. Len(q) THEN q[i] ELSE e
  BY <1>1
<1>4. Append(q, e) # <<>>
  BY <1>1, <1>2
<1> QED  BY <1>1, <1>2, <1>3, <1>4

LEMMA SubscribeKeeps ==
  ASSUME StoreInv, NEW r \in StoreReaders, Y!Subscribe(r)
  PROVE  StoreInv'
<1>1. /\ r \notin storeReaders /\ storeReaders' = storeReaders \cup {r} /\ storeCount' = storeCount + 1
      /\ UNCHANGED <<storeListening, storeShown, storeObserver, storeLast, storeSubscribed, storeLoadPending,
                     storeCalls, storeCache, storeFailed, storeAway, storeCrossed, storeClock>>
  BY DEF Y!Subscribe, Y!document, Y!history
<1>2. \/ /\ storeSetups' = Append(storeSetups, TRUE)
         /\ storeClient' = IF storeClient = "absent" THEN "loading" ELSE storeClient
      \/ storeListening /\ UNCHANGED <<storeSetups, storeClient>>
  BY DEF Y!Subscribe, Y!SetUp, StoreInv, StoreTypes
<1>3. /\ Append(storeSetups, TRUE) \in Seq(BOOLEAN) /\ Append(storeSetups, TRUE) # <<>>
      /\ \A i \in DOMAIN Append(storeSetups, TRUE) :
           \/ Append(storeSetups, TRUE)[i]
           \/ i \in DOMAIN storeSetups /\ Append(storeSetups, TRUE)[i] = storeSetups[i]
  <2> DEFINE b == TRUE
  <2>1. b \in BOOLEAN /\ b
    OBVIOUS
  <2> HIDE DEF b
  <2>2. storeSetups \in Seq(BOOLEAN)
    BY DEF StoreInv, StoreTypes
  <2>3. /\ Append(storeSetups, b) \in Seq(BOOLEAN) /\ Append(storeSetups, b) # <<>>
        /\ \A i \in DOMAIN Append(storeSetups, b) :
             \/ Append(storeSetups, b)[i] = b
             \/ i \in DOMAIN storeSetups /\ Append(storeSetups, b)[i] = storeSetups[i]
    BY <2>1, <2>2, GrownBy
  <2> QED  BY <2>1, <2>3 DEF b
<1>4. /\ storeSetups' \in Seq(BOOLEAN) /\ (storeListening \/ storeSetups' # <<>>)
      /\ storeSetups # <<>> => storeSetups' # <<>>
      /\ storeClient' \in {"absent", "loading", "ready"} /\ (storeClient = "ready" => storeClient' = "ready")
      /\ \A i \in DOMAIN storeSetups' :
           storeSetups'[i] \/ (i \in DOMAIN storeSetups /\ storeSetups'[i] = storeSetups[i])
  <2>1. CASE storeSetups' = Append(storeSetups, TRUE)
             /\ storeClient' = IF storeClient = "absent" THEN "loading" ELSE storeClient
    BY <1>3, <2>1 DEF StoreInv, StoreTypes
  <2>2. CASE storeListening /\ UNCHANGED <<storeSetups, storeClient>>
    BY <2>2 DEF StoreInv, StoreTypes
  <2> QED  BY <1>2, <2>1, <2>2
<1>5. StoreTypes' /\ CallTypes'
  BY <1>1, <1>4 DEF StoreInv, StoreTypes, CallTypes
<1>6. StoreCounted'
  BY <1>1, FS_AddElement DEF StoreInv, StoreCounted
<1>7. StoreShows' /\ SetUps' /\ Cached'
  BY <1>1, <1>4 DEF StoreInv, StoreShows, SetUps, Cached, Y!Empty
<1>8. Agree' /\ Departed' /\ Attended' /\ OneOutside' /\ SettledStore' /\ Current' /\ Y!LoadsInProgress'
  BY <1>1, <1>4 DEF StoreInv, Agree, Departed, Attended, OneOutside, SettledStore, Current, Y!LoadsInProgress,
                    Y!Empty
<1> QED  BY <1>5, <1>6, <1>7, <1>8 DEF StoreInv

LEMMA UnsubscribeKeeps ==
  ASSUME StoreInv, NEW r \in StoreReaders, Y!Unsubscribe(r)
  PROVE  StoreInv'
<1>1. /\ r \in storeReaders /\ storeReaders' = storeReaders \ {r} /\ storeCount' = storeCount - 1
      /\ UNCHANGED <<storeClient, storeSetups, storeShown, storeObserver, storeLoadPending, storeCalls, storeCache,
                     storeFailed, storeClock>>
  BY DEF Y!Unsubscribe
<1>2. StoreCounted' /\ (storeCount' = 0 => storeReaders' = {})
  <2>1. IsFiniteSet(storeReaders') /\ Cardinality(storeReaders') = Cardinality(storeReaders) - 1
    BY <1>1, FS_RemoveElement DEF StoreInv, StoreCounted
  <2>2. storeCount' = Cardinality(storeReaders')
    BY <1>1, <2>1 DEF StoreInv, StoreCounted
  <2> QED  BY <2>1, <2>2, FS_EmptySet DEF StoreCounted
<1>3. CASE storeCount' # 0
  <2>1. UNCHANGED <<storeListening, storeLast, storeSubscribed, storeAway, storeCrossed>>
    BY <1>3 DEF Y!Unsubscribe
  <2>2. StoreTypes' /\ CallTypes' /\ StoreShows' /\ SetUps' /\ Cached'
    BY <1>1, <2>1 DEF StoreInv, StoreTypes, CallTypes, StoreShows, SetUps, Cached, Y!Empty
  <2>3. Agree' /\ Departed' /\ Attended' /\ OneOutside' /\ SettledStore' /\ Current' /\ Y!LoadsInProgress'
    BY <1>1, <2>1 DEF StoreInv, Agree, Departed, Attended, OneOutside, SettledStore, Current, Y!LoadsInProgress,
                      Y!Empty
  <2> QED  BY <1>2, <2>2, <2>3 DEF StoreInv
<1>4. CASE storeCount' = 0
  <2>1. /\ storeReaders' = {} /\ storeListening' = FALSE /\ storeAway' = TRUE
        /\ storeCrossed' = (storeCrossed \/ Y!Underway # {})
        /\ \/ ~storeListening /\ UNCHANGED <<storeLast, storeSubscribed>>
           \/ storeLast' = Unset /\ storeSubscribed' = Unset
    BY <1>2, <1>4 DEF Y!Unsubscribe, Y!Cleanup
  <2>2. ~storeCrossed' => ~storeCrossed /\ \A c \in StoreCalls : storeCalls[c].at \notin On
    BY <2>1 DEF Y!Underway, On
  <2>3. StoreTypes'
    BY <1>1, <2>1 DEF StoreInv, StoreTypes, StoreKey
  <2>4. CallTypes' /\ StoreShows' /\ SetUps' /\ Cached'
    BY <1>1, <2>1 DEF StoreInv, CallTypes, StoreShows, SetUps, Cached, Y!Empty
  <2>5. Agree' /\ Departed'
    BY <1>1, <2>1, <2>2 DEF StoreInv, Agree, Departed, Y!Empty
  <2>6. Attended' /\ OneOutside' /\ SettledStore'
    BY <1>1, <2>1, <2>2 DEF Attended, OneOutside, SettledStore, On
  <2>7. Current' /\ Y!LoadsInProgress'
    BY <1>1, <2>1 DEF StoreInv, Current, Y!LoadsInProgress
  <2> QED  BY <1>2, <2>3, <2>4, <2>5, <2>6, <2>7 DEF StoreInv
<1> QED  BY <1>3, <1>4

LEMMA StoreFetchKeeps ==
  ASSUME StoreInv, NEW c \in StoreCalls, NEW kind \in {"load", "component"}, NEW v \in StoreVariables,
         NEW policy \in StorePolicies, NEW blocking \in BOOLEAN, Y!Fetch(c, kind, v, policy, blocking)
  PROVE  StoreInv'
<1> DEFINE n == [kind |-> kind, variables |-> v, policy |-> policy, blocking |-> blocking, changed |-> FALSE,
                 at |-> "client"]
<1>1. /\ storeCalls[c] = Y!Idle /\ storeCalls' = [storeCalls EXCEPT ![c] = n]
      /\ storeClient' = IF storeClient = "absent" THEN "loading" ELSE storeClient
      /\ UNCHANGED <<storeSetups, storeReaders, storeCount, storeListening, storeShown, storeObserver, storeLast,
                     storeSubscribed, storeLoadPending, storeCache, storeFailed, storeAway, storeCrossed,
                     storeClock>>
  BY DEF Y!Fetch, Y!page, Y!document, Y!history
<1>2. storeCalls[c].at = "idle"
  BY <1>1 DEF Y!Idle
<1>3. n \in StoreCall /\ n.at = "client" /\ n.variables \in StoreVariables
  BY DEF StoreCall, Y!Places
<1> HIDE DEF n
<1>4. /\ storeCalls' \in [StoreCalls -> StoreCall] /\ storeCalls'[c] = n
      /\ \A d \in StoreCalls \ {c} : storeCalls'[d] = storeCalls[d]
  BY <1>1, <1>3 DEF StoreInv, CallTypes
<1>5. \A d \in StoreCalls : storeCalls'[d].at \in {"params", "silent", "out"} =>
                              d # c /\ storeCalls'[d] = storeCalls[d]
  BY <1>3, <1>4
<1>6. StoreTypes' /\ StoreCounted' /\ StoreShows' /\ Cached'
  BY <1>1 DEF StoreInv, StoreTypes, StoreCounted, StoreShows, Cached, Y!Empty
<1>7. CallTypes'
  BY <1>3, <1>4 DEF StoreInv, CallTypes
<1>8. SetUps'
  <2>1. \A d \in StoreCalls : storeCalls'[d].at \in {"params", "silent", "out"} => storeClient' = "ready"
    BY <1>1, <1>5 DEF StoreInv, SetUps
  <2>2. \A d \in StoreCalls : storeCalls[d].at = "params" => storeCalls'[d].at = "params"
    BY <1>2, <1>4
  <2> QED  BY <1>1, <2>1, <2>2 DEF StoreInv, SetUps
<1>9. Agree' /\ Departed' /\ Attended' /\ Current'
  BY <1>1, <1>5 DEF StoreInv, Agree, Departed, Attended, Current, Y!Empty
<1>10. OneOutside'
  BY <1>1, <1>5 DEF StoreInv, OneOutside
<1>11. SettledStore'
  BY <1>3, <1>4 DEF SettledStore, On
<1>12. Y!LoadsInProgress'
  <2>1. \A d \in StoreCalls : storeCalls[d].at \in {"silent", "out"} => storeCalls'[d] = storeCalls[d]
    BY <1>2, <1>4
  <2> QED  BY <1>1, <2>1 DEF StoreInv, Y!LoadsInProgress
<1> QED  BY <1>6, <1>7, <1>8, <1>9, <1>10, <1>11, <1>12 DEF StoreInv

LEMMA PrepareKeeps ==
  ASSUME StoreInv, NEW c \in StoreCalls, Y!Prepare(c)
  PROVE  StoreInv'
<1>1. /\ storeCalls[c].at = "client" /\ storeClient = "ready" /\ storeClient' = "ready"
      /\ storeCalls' = [storeCalls EXCEPT ![c].at = "params"]
      /\ storeSetups' = Append(storeSetups, FALSE)
      /\ UNCHANGED <<storeReaders, storeCount, storeListening, storeShown, storeObserver, storeLast,
                     storeSubscribed, storeLoadPending, storeCache, storeFailed, storeAway, storeCrossed,
                     storeClock>>
  BY DEF Y!Prepare, Y!SetUp, Y!page, Y!document, Y!history
<1> DEFINE n == [storeCalls[c] EXCEPT !.at = "params"]
<1>2. storeCalls[c] \in StoreCall /\ storeCalls[c].variables \in StoreVariables
  BY <1>1 DEF StoreInv, CallTypes, On
<1>3. n \in StoreCall /\ n.at = "params" /\ n.variables \in StoreVariables
  BY <1>2 DEF StoreCall, Y!Places
<1>4. storeCalls' = [storeCalls EXCEPT ![c] = n]
  BY <1>1
<1> HIDE DEF n
<1>5. /\ storeCalls' \in [StoreCalls -> StoreCall] /\ storeCalls'[c] = n
      /\ \A d \in StoreCalls \ {c} : storeCalls'[d] = storeCalls[d]
  BY <1>3, <1>4 DEF StoreInv, CallTypes
<1>6. \A d \in StoreCalls : storeCalls'[d].at \in {"silent", "out"} => d # c /\ storeCalls'[d] = storeCalls[d]
  BY <1>3, <1>5
<1>7. storeSetups' \in Seq(BOOLEAN) /\ storeSetups' # <<>>
  <2> DEFINE b == FALSE
  <2>1. b \in BOOLEAN
    OBVIOUS
  <2> HIDE DEF b
  <2>2. storeSetups \in Seq(BOOLEAN)
    BY DEF StoreInv, StoreTypes
  <2>3. Append(storeSetups, b) \in Seq(BOOLEAN) /\ Append(storeSetups, b) # <<>>
    BY <2>1, <2>2, GrownBy
  <2> QED  BY <1>1, <2>3 DEF b
<1>8. StoreTypes' /\ StoreCounted' /\ StoreShows' /\ Cached'
  BY <1>1, <1>7 DEF StoreInv, StoreTypes, StoreCounted, StoreShows, Cached, Y!Empty
<1>9. CallTypes'
  BY <1>3, <1>5 DEF StoreInv, CallTypes
<1>10. SetUps'
  BY <1>1, <1>3, <1>5 DEF SetUps
<1>11. Agree' /\ Departed' /\ Current'
  BY <1>1 DEF StoreInv, Agree, Departed, Current, Y!Empty
<1>12. Attended'
  BY <1>1, <1>6, <1>7 DEF StoreInv, Attended
<1>13. OneOutside'
  BY <1>1, <1>6 DEF StoreInv, OneOutside
<1>14. SettledStore'
  BY <1>3, <1>5 DEF SettledStore, On
<1>15. Y!LoadsInProgress'
  <2>1. \A d \in StoreCalls : storeCalls[d].at \in {"silent", "out"} => storeCalls'[d] = storeCalls[d]
    BY <1>1, <1>5
  <2> QED  BY <1>1, <2>1 DEF StoreInv, Y!LoadsInProgress
<1> QED  BY <1>8, <1>9, <1>10, <1>11, <1>12, <1>13, <1>14, <1>15 DEF StoreInv

\* The document store is set.
LEMMA SetIs ==
  ASSUME StoreTypes, NEW v \in StoreVariables, NEW n \in Nat, Y!Set([variables |-> v, version |-> n])
  PROVE  /\ storeObserver' \in StoreValue /\ storeShown' \in StoreValue /\ storeAway' \in BOOLEAN
         /\ storeObserver'.variables = v /\ storeObserver'.version = n
         /\ storeListening => storeShown' = storeObserver'
         /\ ~storeListening => storeShown' = storeShown
<1>1. storeObserver' = [variables |-> v, version |-> n]
  BY DEF Y!Set
<1>2. storeObserver' \in StoreValue /\ storeObserver'.variables = v /\ storeObserver'.version = n
  BY <1>1 DEF StoreValue
<1>3. storeShown' = IF storeListening THEN storeObserver' ELSE storeShown
  BY <1>1 DEF Y!Set
<1>4. storeAway' \in BOOLEAN
  BY DEF Y!Set
<1> QED  BY <1>2, <1>3, <1>4 DEF StoreTypes

\* A call that stops listens to what it listened to, if anybody does.
LEMMA GetIs ==
  ASSUME StoreTypes, Y!Get
  PROVE  /\ storeLast' \in StoreKey /\ storeSubscribed' \in StoreKey
         /\ storeListening => UNCHANGED <<storeLast, storeSubscribed>>
BY DEF StoreTypes, Y!Get, Y!Cleanup, StoreKey

LEMMA RequestKeeps ==
  ASSUME StoreInv, NEW c \in StoreCalls, storeCalls[c].at \in {"params", "silent"}, Y!Free, Y!Request(c),
         UNCHANGED <<storeClient, storeSetups, storeReaders, storeCount, storeListening, storeCache, storeClock>>
  PROVE  StoreInv'
<1> PICK v \in StoreVariables : v = storeCalls[c].variables
  BY DEF StoreInv, CallTypes, On
<1>1. v \in StoreVariables /\ v = storeCalls[c].variables
  OBVIOUS
<1> DEFINE hit == storeCalls[c].policy = "CacheOrNetwork" /\ storeCache[v] # 0
<1>2. /\ storeSetups = <<>> /\ (~storeCrossed => storeListening) /\ storeClient = "ready"
      /\ storeSetups' = <<>> /\ storeClient' = "ready" /\ storeListening' = storeListening
  BY NoneWaits DEF StoreInv, SetUps
<1>3. /\ storeCrossed' = (storeCrossed \/ Y!Out # {}) /\ storeFailed' = storeFailed
  BY DEF Y!Request
<1>4. ~storeCrossed' => ~storeCrossed /\ storeListening /\ \A d \in StoreCalls : storeCalls[d].at # "out"
  BY <1>2, <1>3 DEF Y!Out
<1>5. /\ StoreTypes /\ CallTypes /\ storeCrossed' \in BOOLEAN /\ storeFailed' \in BOOLEAN
      /\ storeCache[v] \in Nat /\ storeLast \in StoreKey /\ storeSubscribed \in StoreKey
      /\ storeLoadPending \in BOOLEAN /\ storeListening \in BOOLEAN
  BY <1>3 DEF StoreInv, StoreTypes
<1>6. StoreCounted'
  BY DEF StoreInv, StoreCounted
<1>7. CASE hit
  <2>1. /\ Y!Set([variables |-> v, version |-> storeCache[v]]) /\ Y!To(c, "done") /\ storeLoadPending' = FALSE
        /\ storeListening => /\ storeLast' = v
                             /\ storeSubscribed' = IF storeLast # v THEN v ELSE storeSubscribed
        /\ ~storeListening => storeLast' = Unset /\ storeSubscribed' = Unset
    BY <1>1, <1>7 DEF Y!Request, Y!Ends, Y!Cleanup
  <2>2. PICK n \in Nat : n = storeCache[v]
    BY <1>5
  <2>3. Y!Set([variables |-> v, version |-> n])
    BY <2>1, <2>2
  <2>4. /\ storeObserver' \in StoreValue /\ storeShown' \in StoreValue /\ storeAway' \in BOOLEAN
        /\ storeObserver'.variables = v /\ storeObserver'.version = storeCache'[v]
        /\ storeListening => storeShown' = storeObserver'
    BY <1>1, <1>5, <2>2, <2>3, SetIs
  <2>5. /\ storeCalls' \in [StoreCalls -> StoreCall] /\ storeCalls'[c].at = "done"
        /\ \A d \in StoreCalls \ {c} : storeCalls'[d] = storeCalls[d]
    BY <1>5, <2>1, CallTo DEF Y!Places
  <2>6. storeLast' \in StoreKey /\ storeSubscribed' \in StoreKey
    BY <1>1, <1>5, <2>1 DEF StoreKey
  <2>7. StoreTypes'
    BY <1>5, <2>1, <2>4, <2>6 DEF StoreTypes
  <2>8. \A d \in StoreCalls : storeCalls'[d].at \in On => d # c /\ storeCalls'[d] = storeCalls[d]
    BY <2>5 DEF On
  <2>9. CallTypes'
    BY <2>5, <2>8 DEF StoreInv, CallTypes
  <2>10. StoreShows' /\ SetUps'
    BY <1>2, <2>4 DEF StoreInv, StoreShows, SetUps
  <2>11. Cached'
    BY <1>1, <1>3, <1>7, <2>4 DEF StoreInv, Cached
  <2>12. Agree' /\ Departed' /\ SettledStore' /\ Current'
    BY <1>2, <1>4, <2>1, <2>4 DEF StoreInv, Agree, Departed, SettledStore, Current
  <2>13. Attended' /\ OneOutside'
    BY <1>2, <1>4, <2>8 DEF Attended, OneOutside, On
  <2>14. Y!LoadsInProgress'
    BY <2>1 DEF Y!LoadsInProgress
  <2> QED  BY <1>6, <2>7, <2>9, <2>10, <2>11, <2>12, <2>13, <2>14 DEF StoreInv
<1>8. CASE ~hit
  <2>1. /\ storeCalls' = [storeCalls EXCEPT ![c].at = "out", ![c].changed = storeLast # v]
        /\ storeLoadPending' = (storeLoadPending \/ storeCalls[c].kind = "load")
        /\ UNCHANGED <<storeObserver, storeShown, storeAway>>
        /\ UNCHANGED <<storeLast, storeSubscribed>> \/ Y!Get
    BY <1>1, <1>8 DEF Y!Request
  <2>2. /\ storeLast' \in StoreKey /\ storeSubscribed' \in StoreKey
        /\ storeListening => UNCHANGED <<storeLast, storeSubscribed>>
    BY <1>5, <2>1, GetIs
  <2>3. PICK b \in BOOLEAN : b = (storeLast # v)
    OBVIOUS
  <2>4. storeCalls' = [storeCalls EXCEPT ![c].at = "out", ![c].changed = b]
    BY <2>1, <2>3
  <2>5. /\ storeCalls' \in [StoreCalls -> StoreCall] /\ storeCalls'[c].at = "out"
        /\ storeCalls'[c].variables = v /\ storeCalls'[c].kind = storeCalls[c].kind
        /\ storeCalls'[c].changed = b
        /\ \A d \in StoreCalls \ {c} : storeCalls'[d] = storeCalls[d]
    BY <1>1, <1>5, <2>3, <2>4, CallOut
  <2>6. StoreTypes'
    BY <1>5, <2>1, <2>2 DEF StoreTypes
  <2>7. CallTypes'
    BY <1>1, <2>5 DEF StoreInv, CallTypes
  <2>8. StoreShows' /\ SetUps' /\ Cached'
    <3>1. StoreShows' /\ SetUps'
      BY <1>2, <2>1 DEF StoreInv, StoreShows, SetUps
    <3>2. Cached'
      BY <1>3, <2>1 DEF StoreInv, Cached, Y!Empty
    <3> QED  BY <3>1, <3>2
  <2>9. Agree' /\ Departed' /\ Current'
    BY <1>2, <1>4, <2>1, <2>2 DEF StoreInv, Agree, Departed, Current, Y!Empty
  <2>10. Attended'
    BY <1>2, <1>4, <2>5 DEF Attended
  <2>11. OneOutside'
    BY <1>4, <2>2, <2>3, <2>5 DEF OneOutside
  <2>12. SettledStore'
    BY <2>5 DEF SettledStore, On
  <2>13. Y!LoadsInProgress'
    <3>1. CASE storeCalls[c].kind = "load"
      BY <2>5, <3>1 DEF Y!LoadsInProgress
    <3>2. CASE storeCalls[c].kind # "load"
      BY <1>3, <2>1, <2>5, <3>2 DEF StoreInv, Y!LoadsInProgress
    <3> QED  BY <3>1, <3>2
  <2> QED  BY <1>6, <2>6, <2>7, <2>8, <2>9, <2>10, <2>11, <2>12, <2>13 DEF StoreInv
<1> QED  BY <1>7, <1>8

LEMMA StopKeeps ==
  ASSUME StoreInv, NEW c \in StoreCalls, storeCalls[c].at = "params", Y!Free, Y!Stops(c),
         Y!To(c, "stopped"), Y!Get,
         UNCHANGED <<storeClient, storeSetups, storeReaders, storeCount, storeListening, storeShown, storeObserver,
                     storeLoadPending, storeCache, storeFailed, storeAway, storeCrossed, storeClock>>
  PROVE  StoreInv'
<1>1. storeSetups = <<>> /\ (~storeCrossed => storeListening) /\ storeClient = "ready"
  BY NoneWaits DEF StoreInv, SetUps
<1>2. StoreTypes /\ CallTypes
  BY DEF StoreInv
<1>3. /\ storeCalls' \in [StoreCalls -> StoreCall] /\ storeCalls'[c].at = "stopped"
      /\ \A d \in StoreCalls \ {c} : storeCalls'[d] = storeCalls[d]
  BY <1>2, CallTo DEF Y!Places
<1>4. /\ storeLast' \in StoreKey /\ storeSubscribed' \in StoreKey
      /\ storeListening => UNCHANGED <<storeLast, storeSubscribed>>
  BY <1>2, GetIs
<1>5. \A d \in StoreCalls : storeCalls'[d].at \in On => d # c /\ storeCalls'[d] = storeCalls[d]
  BY <1>3 DEF On
\* The load it stops for is there still.
<1>6. storeFailed \/ \E d \in StoreCalls : /\ storeCalls[d].kind = "load" /\ storeCalls[d].at \in {"silent", "out"}
                                           /\ storeCalls'[d] = storeCalls[d]
  BY <1>3 DEF StoreInv, Y!LoadsInProgress, Y!Stops
<1>7. StoreTypes' /\ StoreCounted' /\ StoreShows' /\ Cached'
  BY <1>4 DEF StoreInv, StoreTypes, StoreCounted, StoreShows, Cached, Y!Empty
<1>8. CallTypes'
  BY <1>3, <1>5 DEF StoreInv, CallTypes
<1>9. SetUps'
  BY <1>1 DEF SetUps
<1>10. Agree' /\ Departed' /\ Current'
  BY <1>1, <1>4 DEF StoreInv, Agree, Departed, Current, Y!Empty
<1>11. Attended'
  BY <1>1 DEF Attended
<1>12. OneOutside'
  <2>1. \A d \in StoreCalls : storeCalls'[d].at = "out" => storeCalls[d].at = "out" /\ storeCalls'[d] = storeCalls[d]
    BY <1>5 DEF On
  <2> QED  BY <1>1, <1>4, <2>1 DEF StoreInv, OneOutside
<1>13. SettledStore'
  BY <1>6 DEF StoreInv, SettledStore, Cached, On
<1>14. Y!LoadsInProgress'
  BY <1>6 DEF Y!LoadsInProgress
<1> QED  BY <1>7, <1>8, <1>9, <1>10, <1>11, <1>12, <1>13, <1>14 DEF StoreInv

LEMMA SilentKeeps ==
  ASSUME StoreInv, NEW c \in StoreCalls, storeCalls[c].at = "params", Y!Free,
         NEW v \in StoreVariables, v = storeCalls[c].variables,
         Y!To(c, "silent"), storeLoadPending' = (storeLoadPending \/ storeCalls[c].kind = "load"),
         Y!Ends(v, storeLast # v),
         IF storeCache[v] = 0 THEN UNCHANGED <<storeObserver, storeShown, storeAway>>
         ELSE Y!Set([variables |-> v, version |-> storeCache[v]]),
         storeCrossed' = (storeCrossed \/ Y!Out # {}),
         UNCHANGED <<storeClient, storeSetups, storeReaders, storeCount, storeListening, storeCache, storeFailed,
                     storeClock>>
  PROVE  StoreInv'
<1>1. storeSetups = <<>> /\ (~storeCrossed => storeListening) /\ storeClient = "ready"
  BY NoneWaits DEF StoreInv, SetUps
<1>2. StoreTypes /\ CallTypes /\ storeLast \in StoreKey /\ storeSubscribed \in StoreKey
  BY DEF StoreInv, StoreTypes
<1>3. /\ storeCalls' \in [StoreCalls -> StoreCall] /\ storeCalls'[c].at = "silent"
      /\ \A d \in StoreCalls \ {c} : storeCalls'[d] = storeCalls[d]
      /\ storeCalls'[c].variables = v /\ storeCalls'[c].kind = storeCalls[c].kind
  BY <1>2, CallTo DEF Y!Places
<1>4. storeLast' = v /\ storeSubscribed' = IF storeLast # v THEN v ELSE storeSubscribed
  BY DEF Y!Ends
<1>5. ~storeCrossed' => ~storeCrossed /\ storeListening /\ \A d \in StoreCalls : storeCalls[d].at # "out"
  BY <1>1 DEF Y!Out
<1>6. PICK n \in Nat : n = storeCache[v]
  BY DEF StoreInv, StoreTypes
<1>7. /\ storeObserver' \in StoreValue /\ storeShown' \in StoreValue /\ storeAway' \in BOOLEAN
      /\ storeListening => storeShown' = storeObserver'
      /\ \/ /\ storeCache[v] # 0 /\ storeObserver'.variables = v /\ storeObserver'.version = storeCache'[v]
         \/ storeCache[v] = 0 /\ UNCHANGED <<storeObserver, storeShown, storeAway>>
  <2>1. CASE storeCache[v] # 0
    <3>1. Y!Set([variables |-> v, version |-> n])
      BY <1>6, <2>1
    <3>2. /\ storeObserver' \in StoreValue /\ storeShown' \in StoreValue /\ storeAway' \in BOOLEAN
          /\ storeObserver'.variables = v /\ storeObserver'.version = storeCache'[v]
          /\ storeListening => storeShown' = storeObserver'
      BY <1>2, <1>6, <3>1, SetIs
    <3> QED  BY <2>1, <3>2
  <2>2. CASE storeCache[v] = 0
    BY <2>2 DEF StoreInv, StoreTypes, StoreShows
  <2> QED  BY <2>1, <2>2
<1>8. StoreTypes'
  <2>1. storeLast' \in StoreKey /\ storeSubscribed' \in StoreKey
    BY <1>2, <1>4 DEF StoreKey
  <2> QED  BY <1>7, <2>1 DEF StoreInv, StoreTypes
<1>9. CallTypes'
  BY <1>3 DEF StoreInv, CallTypes
<1>10. StoreCounted' /\ StoreShows' /\ SetUps'
  BY <1>1, <1>7 DEF StoreInv, StoreCounted, StoreShows, SetUps
<1>11. Cached'
  BY <1>7 DEF StoreInv, Cached, Y!Empty
<1>12. Agree' /\ Departed'
  BY <1>4, <1>5 DEF StoreInv, Agree, Departed
<1>13. Attended' /\ OneOutside'
  BY <1>3, <1>5 DEF Attended, OneOutside
<1>14. SettledStore'
  BY <1>3 DEF SettledStore, On
<1>15. Current'
  BY <1>4, <1>7 DEF StoreInv, Current, Cached, Y!Empty
<1>16. Y!LoadsInProgress'
  <2>1. CASE storeCalls[c].kind = "load"
    BY <1>3, <2>1 DEF Y!LoadsInProgress
  <2>2. CASE storeCalls[c].kind # "load"
    BY <1>3, <2>2 DEF StoreInv, Y!LoadsInProgress
  <2> QED  BY <2>1, <2>2
<1> QED  BY <1>8, <1>9, <1>10, <1>11, <1>12, <1>13, <1>14, <1>15, <1>16 DEF StoreInv

LEMMA StoreStartKeeps ==
  ASSUME StoreInv, NEW c \in StoreCalls, Y!Start(c)
  PROVE  StoreInv'
<1>1. /\ Y!Free /\ storeCalls[c].at = "params"
      /\ UNCHANGED <<storeClient, storeSetups, storeReaders, storeCount, storeListening, storeCache, storeClock>>
  BY DEF Y!Start, Y!page
<1>2. PICK v \in StoreVariables : v = storeCalls[c].variables
  BY <1>1 DEF StoreInv, CallTypes, On
<1>3. CASE Y!Stops(c)
  BY <1>1, <1>3, StopKeeps DEF Y!Start, Y!history
<1>4. CASE ~Y!Stops(c) /\ ~storeCalls[c].blocking /\ storeCalls[c].policy = "CacheOrNetwork"
  <2>1. /\ Y!To(c, "silent") /\ storeLoadPending' = (storeLoadPending \/ storeCalls[c].kind = "load")
        /\ Y!Ends(v, storeLast # v)
        /\ IF storeCache[v] = 0 THEN UNCHANGED <<storeObserver, storeShown, storeAway>>
           ELSE Y!Set([variables |-> v, version |-> storeCache[v]])
        /\ storeCrossed' = (storeCrossed \/ Y!Out # {})
        /\ UNCHANGED storeFailed
    BY <1>2, <1>4 DEF Y!Start
  <2> QED  BY <1>1, <1>2, <2>1, SilentKeeps
<1>5. CASE ~Y!Stops(c) /\ ~(~storeCalls[c].blocking /\ storeCalls[c].policy = "CacheOrNetwork")
  <2>1. Y!Request(c)
    BY <1>5 DEF Y!Start
  <2> QED  BY <1>1, <2>1, RequestKeeps
<1> QED  BY <1>3, <1>4, <1>5

LEMMA AfterSilentKeeps ==
  ASSUME StoreInv, NEW c \in StoreCalls, Y!AfterSilent(c)
  PROVE  StoreInv'
<1>1. /\ Y!Free /\ storeCalls[c].at = "silent" /\ Y!Request(c)
      /\ UNCHANGED <<storeClient, storeSetups, storeReaders, storeCount, storeListening, storeCache, storeClock>>
  BY DEF Y!AfterSilent, Y!page
<1> QED  BY <1>1, RequestKeeps

LEMMA StoreReplyKeeps ==
  ASSUME StoreInv, NEW c \in StoreCalls, Y!Reply(c)
  PROVE  StoreInv'
<1>1. PICK v \in StoreVariables : v = storeCalls[c].variables
  BY DEF StoreInv, CallTypes, On, Y!Reply
<1>2. PICK n \in Nat \ {0} : n = storeClock + 1
  BY DEF StoreInv, StoreTypes
<1>3. /\ Y!Free /\ storeCalls[c].at = "out" /\ storeClock' = n
      /\ storeCache' = [storeCache EXCEPT ![v] = n]
      /\ Y!Set([variables |-> v, version |-> n])
      /\ IF storeCalls[c].blocking /\ ~storeListening THEN Y!Cleanup ELSE Y!Ends(v, storeCalls[c].changed)
      /\ Y!To(c, "done") /\ storeLoadPending' = FALSE
      /\ UNCHANGED <<storeClient, storeSetups, storeReaders, storeCount, storeListening, storeFailed, storeCrossed>>
  BY <1>1, <1>2 DEF Y!Reply, Y!page
<1>4. storeSetups = <<>> /\ (~storeCrossed => storeListening) /\ storeClient = "ready"
  BY <1>3, NoneWaits DEF StoreInv, SetUps
<1>5. StoreTypes /\ CallTypes /\ storeLast \in StoreKey /\ storeSubscribed \in StoreKey
  BY DEF StoreInv, StoreTypes
<1>6. /\ storeCache' \in [StoreVariables -> Nat] /\ storeCache'[v] = n /\ storeClock' \in Nat
  BY <1>1, <1>2, <1>3 DEF StoreInv, StoreTypes
<1>7. /\ storeObserver' \in StoreValue /\ storeShown' \in StoreValue /\ storeAway' \in BOOLEAN
      /\ storeObserver'.variables = v /\ storeObserver'.version = n
      /\ storeListening => storeShown' = storeObserver'
  BY <1>1, <1>2, <1>3, <1>5, SetIs
<1>8. /\ storeCalls' \in [StoreCalls -> StoreCall] /\ storeCalls'[c].at = "done"
      /\ \A d \in StoreCalls \ {c} : storeCalls'[d] = storeCalls[d]
  BY <1>3, <1>5, CallTo DEF Y!Places
<1>9. \A d \in StoreCalls : storeCalls'[d].at \in On => d # c /\ storeCalls'[d] = storeCalls[d]
  BY <1>8 DEF On
<1>10. /\ storeLast' \in StoreKey /\ storeSubscribed' \in StoreKey
       /\ storeListening => /\ storeLast' = v
                            /\ storeSubscribed' = IF storeCalls[c].changed THEN v ELSE storeSubscribed
  BY <1>1, <1>3, <1>5 DEF Y!Cleanup, Y!Ends, StoreKey
\* What it knew of its variables is true still.
<1>11. ~storeCrossed => /\ storeListening /\ storeLast' = v /\ storeSubscribed' = v
                        /\ \A d \in StoreCalls : storeCalls'[d].at # "out"
  <2>1. ~storeCrossed => /\ storeCalls[c].changed = (storeLast # v) /\ storeLast = storeSubscribed
                         /\ \A d \in StoreCalls : storeCalls[d].at = "out" => d = c
    BY <1>1, <1>3 DEF StoreInv, OneOutside, Agree
  <2>2. ~storeCrossed => storeSubscribed' = v
    BY <1>4, <1>10, <2>1
  <2> QED  BY <1>4, <1>8, <1>10, <2>1, <2>2
<1>12. StoreTypes'
  BY <1>3, <1>5, <1>6, <1>7, <1>10 DEF StoreTypes
<1>13. CallTypes'
  BY <1>8, <1>9 DEF StoreInv, CallTypes
<1>14. StoreCounted' /\ StoreShows' /\ SetUps'
  BY <1>3, <1>4, <1>7 DEF StoreInv, StoreCounted, StoreShows, SetUps
<1>15. Cached'
  BY <1>1, <1>2, <1>3, <1>6, <1>7 DEF StoreInv, Cached
<1>16. Agree' /\ Departed' /\ SettledStore'
  BY <1>3, <1>7, <1>11 DEF Agree, Departed, SettledStore
<1>17. Attended' /\ OneOutside'
  BY <1>3, <1>11 DEF Attended, OneOutside
<1>18. Current'
  BY <1>6, <1>7 DEF Current
<1>19. Y!LoadsInProgress'
  BY <1>3 DEF Y!LoadsInProgress
<1> QED  BY <1>12, <1>13, <1>14, <1>15, <1>16, <1>17, <1>18, <1>19 DEF StoreInv

LEMMA StoreFailKeeps ==
  ASSUME StoreInv, NEW c \in StoreCalls, Y!Fail(c)
  PROVE  StoreInv'
<1>1. /\ Y!Free /\ storeCalls[c].at = "out" /\ Y!To(c, "failed")
      /\ storeFailed' = (storeFailed \/ storeCalls[c].kind = "load") /\ storeCrossed' = TRUE
      /\ UNCHANGED <<storeClient, storeSetups, storeReaders, storeCount, storeListening, storeShown, storeObserver,
                     storeLast, storeSubscribed, storeLoadPending, storeCache, storeAway, storeClock>>
  BY DEF Y!Fail, Y!page, Y!document
<1>2. storeSetups = <<>> /\ storeClient = "ready"
  BY <1>1, NoneWaits DEF StoreInv, SetUps
<1>3. CallTypes
  BY DEF StoreInv
<1>4. /\ storeCalls' \in [StoreCalls -> StoreCall] /\ storeCalls'[c].at = "failed"
      /\ \A d \in StoreCalls \ {c} : storeCalls'[d] = storeCalls[d]
  BY <1>1, <1>3, CallTo DEF Y!Places
<1>5. StoreTypes' /\ StoreCounted' /\ StoreShows' /\ Cached'
  BY <1>1 DEF StoreInv, StoreTypes, StoreCounted, StoreShows, Cached, Y!Empty
<1>6. CallTypes'
  BY <1>4 DEF StoreInv, CallTypes, On
<1>7. SetUps'
  BY <1>1, <1>2 DEF SetUps
<1>8. Agree' /\ Departed' /\ Attended' /\ OneOutside' /\ SettledStore' /\ Current'
  BY <1>1 DEF Agree, Departed, Attended, OneOutside, SettledStore, Current
<1>9. Y!LoadsInProgress'
  <2>1. CASE storeCalls[c].kind = "load"
    BY <1>1, <2>1 DEF Y!LoadsInProgress
  <2>2. CASE storeCalls[c].kind # "load"
    BY <1>1, <1>4, <2>2 DEF StoreInv, Y!LoadsInProgress
  <2> QED  BY <2>1, <2>2
<1> QED  BY <1>5, <1>6, <1>7, <1>8, <1>9 DEF StoreInv

LEMMA OtherWriteKeeps ==
  ASSUME StoreInv, StoreConstants, NEW v \in StoreVariables, Y!OtherWrite(v)
  PROVE  StoreInv'
<1>1. PICK n \in Nat \ {0} : n = storeClock + 1
  BY DEF StoreInv, StoreTypes
<1>2. /\ storeClock' = n /\ storeCache' = [storeCache EXCEPT ![v] = n]
      /\ IF storeSubscribed = v THEN Y!Set([variables |-> v, version |-> n]) /\ storeLast' = v
         ELSE UNCHANGED <<storeObserver, storeShown, storeAway, storeLast>>
      /\ UNCHANGED <<storeClient, storeSetups, storeReaders, storeCount, storeListening, storeSubscribed,
                     storeLoadPending, storeCalls, storeFailed, storeCrossed>>
  BY <1>1 DEF Y!OtherWrite, Y!page
<1>3. StoreTypes /\ CallTypes /\ storeLast \in StoreKey /\ storeSubscribed \in StoreKey
  BY DEF StoreInv, StoreTypes
<1>4. /\ storeCache' \in [StoreVariables -> Nat] /\ storeCache'[v] = n
      /\ \A u \in StoreVariables : u # v => storeCache'[u] = storeCache[u]
  BY <1>1, <1>2 DEF StoreInv, StoreTypes
<1>5. CallTypes' /\ StoreCounted' /\ SetUps' /\ Attended'
  BY <1>2 DEF StoreInv, CallTypes, StoreCounted, SetUps, Attended
<1>6. Y!LoadsInProgress'
  BY <1>2 DEF StoreInv, Y!LoadsInProgress
<1>7. CASE storeSubscribed = v
  <2>1. /\ storeObserver' \in StoreValue /\ storeShown' \in StoreValue /\ storeAway' \in BOOLEAN
        /\ storeObserver'.variables = v /\ storeObserver'.version = n
        /\ storeListening => storeShown' = storeObserver'
    BY <1>1, <1>2, <1>3, <1>7, SetIs
  <2>2. storeLast' = v /\ storeLast' \in StoreKey
    BY <1>2, <1>3, <1>7 DEF StoreKey
  <2>3. ~storeCrossed => storeLast' = storeLast /\ storeListening
    BY <1>7, <2>2 DEF StoreInv, Agree, Departed, StoreConstants
  <2>4. StoreTypes'
    BY <1>1, <1>2, <1>3, <1>4, <2>1, <2>2 DEF StoreTypes
  <2>5. StoreShows' /\ Cached'
    BY <1>1, <1>2, <1>4, <2>1 DEF StoreInv, StoreShows, Cached
  <2>6. Agree' /\ Departed' /\ SettledStore' /\ Current'
    BY <1>2, <1>4, <1>7, <2>1, <2>2, <2>3 DEF Agree, Departed, SettledStore, Current
  <2>7. OneOutside'
    BY <1>2, <2>3 DEF StoreInv, OneOutside
  <2> QED  BY <1>5, <1>6, <2>4, <2>5, <2>6, <2>7 DEF StoreInv
<1>8. CASE storeSubscribed # v
  <2>1. UNCHANGED <<storeObserver, storeShown, storeAway, storeLast>>
    BY <1>2, <1>8
  <2>2. StoreTypes'
    BY <1>1, <1>2, <1>3, <1>4, <2>1 DEF StoreTypes
  <2>3. StoreShows' /\ Cached'
    <3>1. StoreShows'
      BY <1>2, <2>1 DEF StoreInv, StoreShows
    <3>2. PICK u : u = storeObserver.variables
      OBVIOUS
    <3>3. u \in StoreVariables /\ storeCache[u] # 0 => storeCache'[u] # 0
      BY <1>1, <1>4
    <3>4. Cached'
      BY <1>2, <2>1, <3>2, <3>3 DEF StoreInv, Cached, Y!Empty
    <3> QED  BY <3>1, <3>4
  <2>4. Agree' /\ Departed' /\ SettledStore' /\ OneOutside'
    BY <1>2, <2>1 DEF StoreInv, Agree, Departed, SettledStore, OneOutside, Y!Empty
  <2>5. Current'
    <3>1. PICK u : u = storeObserver.variables
      OBVIOUS
    <3>2. u \in StoreVariables /\ u # v => storeCache'[u] = storeCache[u]
      BY <1>4
    <3> QED  BY <1>2, <1>8, <2>1, <3>1, <3>2 DEF StoreInv, Current, Cached, Agree, Y!Empty
  <2> QED  BY <1>5, <1>6, <2>2, <2>3, <2>4, <2>5 DEF StoreInv
<1> QED  BY <1>7, <1>8

LEMMA StoreInit ==
  ASSUME StoreConstants, Y!Init
  PROVE  StoreInv
<1>1. /\ storeClient = "absent" /\ storeSetups = <<>> /\ storeReaders = {} /\ storeCount = 0
      /\ storeListening = FALSE /\ storeShown = Y!Empty /\ storeObserver = Y!Empty
      /\ storeLast = Unset /\ storeSubscribed = Unset /\ storeLoadPending = FALSE
      /\ storeCalls = [c \in StoreCalls |-> Y!Idle] /\ storeCache = [v \in StoreVariables |-> 0]
      /\ storeFailed = FALSE /\ storeAway = FALSE /\ storeCrossed = FALSE /\ storeClock = 0
  BY DEF Y!Init
<1>2. Y!Empty \in StoreValue
  BY DEF Y!Empty, StoreValue
<1>3. storeSetups \in Seq(BOOLEAN) /\ DOMAIN storeSetups = {}
  BY <1>1
<1>4. Y!Idle \in StoreCall /\ Y!Idle.at = "idle"
  BY DEF Y!Idle, StoreCall, Y!Places
<1>5. /\ storeCalls \in [StoreCalls -> StoreCall]
      /\ \A c \in StoreCalls : storeCalls[c].at = "idle"
  BY <1>1, <1>4
<1>6. StoreTypes
  BY <1>1, <1>2, <1>3 DEF StoreTypes, StoreKey
<1>7. CallTypes /\ SetUps
  BY <1>3, <1>5 DEF CallTypes, SetUps, On
<1>8. StoreCounted
  BY <1>1, FS_EmptySet DEF StoreCounted
<1>9. StoreShows /\ Cached /\ Agree /\ Departed /\ Y!LoadsInProgress
  BY <1>1 DEF StoreShows, Cached, Agree, Departed, Y!LoadsInProgress
<1>10. Attended /\ OneOutside /\ SettledStore /\ Current
  BY <1>1, <1>5 DEF Attended, OneOutside, SettledStore, Current
<1> QED  BY <1>6, <1>7, <1>8, <1>9, <1>10 DEF StoreInv

\* The invariant of a Svelte store (stores/base.ts, stores/query.ts) holds of all its behaviours.
THEOREM StoreInvHolds == Y!Spec => []StoreInv
<1>1. Y!Init => StoreInv
  BY RuntimeAssumption, StoreInit
<1>2. StoreInv /\ [Y!Next]_(Y!vars) => StoreInv'
  <2> SUFFICES ASSUME StoreInv, [Y!Next]_(Y!vars) PROVE StoreInv'
    OBVIOUS
  <2> USE RuntimeAssumption
  <2>1. CASE UNCHANGED Y!vars
    <3>1. UNCHANGED <<storeClient, storeSetups, storeReaders, storeCount, storeListening, storeShown, storeObserver,
                      storeLast, storeSubscribed, storeLoadPending, storeCalls, storeCache, storeFailed, storeAway,
                      storeCrossed, storeClock>>
      BY <2>1 DEF Y!vars, Y!page, Y!document, Y!history
    <3>2. StoreTypes' /\ CallTypes' /\ StoreCounted' /\ StoreShows' /\ SetUps' /\ Cached'
      BY <3>1 DEF StoreInv, StoreTypes, CallTypes, StoreCounted, StoreShows, SetUps, Cached, Y!Empty
    <3>3. Agree' /\ Departed' /\ Attended' /\ OneOutside' /\ SettledStore' /\ Current' /\ Y!LoadsInProgress'
      BY <3>1 DEF StoreInv, Agree, Departed, Attended, OneOutside, SettledStore, Current, Y!LoadsInProgress, Y!Empty
    <3> QED  BY <3>2, <3>3 DEF StoreInv
  <2>2. CASE Y!ClientLoads
    BY <2>2, ClientLoadsKeep
  <2>3. CASE Y!Continue
    BY <2>3, ContinueKeeps
  <2>4. ASSUME NEW r \in StoreReaders, Y!Subscribe(r) \/ Y!Unsubscribe(r) PROVE StoreInv'
    BY <2>4, SubscribeKeeps, UnsubscribeKeeps
  <2>5. ASSUME NEW c \in StoreCalls, NEW kind \in {"load", "component"}, NEW v \in StoreVariables,
               NEW policy \in StorePolicies, NEW blocking \in BOOLEAN, Y!Fetch(c, kind, v, policy, blocking)
        PROVE  StoreInv'
    BY <2>5, StoreFetchKeeps
  <2>6. ASSUME NEW c \in StoreCalls, Y!Prepare(c) \/ Y!Start(c) \/ Y!AfterSilent(c) PROVE StoreInv'
    BY <2>6, PrepareKeeps, StoreStartKeeps, AfterSilentKeeps
  <2>7. ASSUME NEW c \in StoreCalls, Y!Reply(c) \/ Y!Fail(c) PROVE StoreInv'
    BY <2>7, StoreReplyKeeps, StoreFailKeeps
  <2>8. ASSUME NEW v \in StoreVariables, Y!OtherWrite(v) PROVE StoreInv'
    BY <2>8, OtherWriteKeeps
  <2> QED  BY <2>1, <2>2, <2>3, <2>4, <2>5, <2>6, <2>7, <2>8 DEF Y!Next
<1> QED  BY <1>1, <1>2, PTL DEF Y!Spec

\* A Svelte store's state has its types (stores/base.ts).
THEOREM StoreTypeCorrect == Y!Spec => []Y!TypeOK
<1>1. StoreInv => Y!TypeOK
  <2> SUFFICES ASSUME StoreInv PROVE Y!TypeOK
    OBVIOUS
  <2>1. storeCount \in Nat
    BY FS_CardinalityType DEF StoreInv, StoreCounted
  <2>2. \A c \in StoreCalls : storeCalls[c].at \in Y!Places
    BY DEF StoreInv, CallTypes, StoreCall
  <2>3. /\ storeClient \in {"absent", "loading", "ready"} /\ storeSetups \in Seq(BOOLEAN)
        /\ storeReaders \subseteq StoreReaders /\ storeListening \in BOOLEAN /\ storeLoadPending \in BOOLEAN
        /\ storeShown \in Y!Values /\ storeObserver \in Y!Values
        /\ storeLast \in StoreVariables \cup {NoValue, Unset}
        /\ storeSubscribed \in StoreVariables \cup {NoValue, Unset}
    BY DEF StoreInv, StoreTypes, StoreValue, StoreKey, Y!Values
  <2> QED  BY <2>1, <2>2, <2>3 DEF Y!TypeOK
<1> QED  BY <1>1, StoreInvHolds, PTL

\* Once all is quiet a store that is read shows its document store and listens to the cache for
\* what it shows, and a component's fetch is ignored only while a load is under way, or after one
\* failed (stores/base.ts: setup; stores/query.ts: fetch).
THEOREM StoresFollowHolds == Y!Spec => []StoresFollow
<1>1. StoreInv => StoresFollow
  <2> SUFFICES ASSUME StoreInv PROVE StoresFollow
    OBVIOUS
  <2>1. Y!LoadsInProgress
    BY DEF StoreInv
  <2>2. Y!Follows
    <3> SUFFICES ASSUME Y!Quiet, storeReaders # {}
                 PROVE  /\ storeListening /\ storeShown = storeObserver
                        /\ ~storeCrossed => storeSubscribed = storeObserver.variables
                        /\ ~storeCrossed /\ ~storeAway /\ storeObserver # Y!Empty =>
                             storeObserver.version = storeCache[storeObserver.variables]
      BY DEF Y!Follows
    <3>1. storeListening /\ storeShown = storeObserver
      BY DEF StoreInv, StoreShows, Y!Quiet
    <3>2. \A c \in StoreCalls : storeCalls[c].at \notin On
      BY DEF Y!Quiet, Y!Underway, On
    <3>3. ~storeCrossed => storeLast = storeObserver.variables /\ storeSubscribed = storeLast
      BY <3>1, <3>2 DEF StoreInv, SettledStore, Agree
    <3>4. ~storeCrossed /\ ~storeAway /\ storeObserver # Y!Empty =>
            storeObserver.version = storeCache[storeObserver.variables]
      BY <3>3 DEF StoreInv, Current
    <3> QED  BY <3>1, <3>3, <3>4
  <2> QED  BY <2>1, <2>2 DEF StoresFollow
<1> QED  BY <1>1, StoreInvHolds, PTL
=============================================================================
