--------------------------- MODULE PatchLogProofs ---------------------------
(***************************************************************************)
(* The layered cache implements the log of patches: for any number of      *)
(* mutations and writes, as long as no operation deletes a record or says  *)
(* null of a link, no abort fires and no hook throws on its data.          *)
(*                                                                         *)
(* The bridge between the two is a placement: each entry of the log lies   *)
(* in a layer, later entries in the same layer or above, and what a layer  *)
(* holds of a cell is what the last entry that lies in it says.            *)
(***************************************************************************)
EXTENDS MutationCacheProofs

\* No operation deletes, and none says null of a link, which a write leaves out where the link
\* reads null already.
PlainPatch(p) ==
  /\ p.deletes = {}
  /\ \A c \in Cell : c[2] \in LinkFields => p.writes[c] # Null

Plain ==
  /\ \A p \in OptimisticPatches \cup ResponsePatches \cup QueryPatches : PlainPatch(p)
  /\ Abortable = {}
  /\ ~Faulty

Word(entries, a, c) == entries[a].patch.writes[c]

\* Of the entries in layer j the last one that speaks of cell c is what the layer holds.
Faithful(stack, entries, place, j, c) ==
  \/ /\ stack[j].fields[c] = Absent
     /\ \A a \in DOMAIN entries : place[a] = j => Word(entries, a, c) = Absent
  \/ /\ stack[j].fields[c] # Absent
     /\ \E a \in DOMAIN entries :
          /\ place[a] = j /\ Word(entries, a, c) = stack[j].fields[c]
          /\ \A b \in DOMAIN entries : b > a /\ place[b] = j => Word(entries, b, c) = Absent

Ordered(entries, place) == \A a, b \in DOMAIN entries : a < b => place[a] <= place[b]

Tells(stack, entries, place) ==
  /\ place \in [DOMAIN entries -> DOMAIN stack]
  /\ Ordered(entries, place)
  /\ \A j \in DOMAIN stack : \A c \in Cell : Faithful(stack, entries, place, j, c)

NoneDeletes(entries) == \A a \in DOMAIN entries : entries[a].patch.deletes = {}

-----------------------------------------------------------------------------
(* Placements, without the mutations                                        *)

\* What is placed faithfully reads as the log does.
LEMMA TellsView ==
  ASSUME NEW stack \in Seq(Layer), NoDeletes(stack),
         NEW entries \in Seq(Entry), NoneDeletes(entries),
         NEW place, Tells(stack, entries, place)
  PROVE  Patches!View(entries) = Display(stack)
<1> DEFINE Last(c) == {a \in DOMAIN entries :
                         /\ Patches!Says(entries[a], c)
                         /\ \A b \in DOMAIN entries : b > a => ~Patches!Says(entries[b], c)}
<1>1. \A a \in DOMAIN entries : \A c \in Cell :
        Patches!Says(entries[a], c) <=> Word(entries, a, c) # Absent
  BY DEF Patches!Says, NoneDeletes, Word
<1>2. SUFFICES ASSUME NEW c \in Cell
               PROVE  (IF Last(c) = {} THEN Absent
                       ELSE entries[CHOOSE a \in Last(c) : TRUE].patch.writes[c])
                        = Lookup(stack, c)
  BY DEF Patches!View, Patches!Cell, Cell, Display
<1>3. \A a \in DOMAIN entries : place[a] \in DOMAIN stack /\ place[a] \in Int /\ a \in Int
  BY DEF Tells
<1>4. \A j \in DOMAIN stack : Stops(stack[j], c) <=> stack[j].fields[c] # Absent
  BY StopsWithValue
<1>5. \A j \in DOMAIN stack : Faithful(stack, entries, place, j, c)
  BY DEF Tells
<1>6. CASE \E j \in DOMAIN stack : Decides(stack, j, c)
  <2>1. PICK j \in DOMAIN stack : Decides(stack, j, c)
    BY <1>6
  <2>2. stack[j].fields[c] # Absent /\ Lookup(stack, c) = stack[j].fields[c]
    BY <1>4, <2>1, LookupDecided DEF Decides
  <2>3. PICK a \in DOMAIN entries :
          /\ place[a] = j /\ Word(entries, a, c) = stack[j].fields[c]
          /\ \A b \in DOMAIN entries : b > a /\ place[b] = j => Word(entries, b, c) = Absent
    BY <1>5, <2>2 DEF Faithful
  <2>4. ASSUME NEW b \in DOMAIN entries, b > a PROVE Word(entries, b, c) = Absent
    <3>1. place[b] >= j
      BY <1>3, <2>3, <2>4 DEF Tells, Ordered
    <3>2. CASE place[b] = j
      BY <2>3, <2>4, <3>2
    <3>3. CASE place[b] > j
      <4>1. stack[place[b]].fields[c] = Absent
        BY <1>3, <1>4, <2>1, <3>3 DEF Decides
      <4> QED  BY <1>3, <1>5, <4>1 DEF Faithful
    <3> QED  BY <1>3, <3>1, <3>2, <3>3
  <2>5. a \in Last(c)
    BY <1>1, <2>2, <2>3, <2>4
  <2>6. \A b \in Last(c) : b = a
    BY <1>1, <1>3, <2>2, <2>3, <2>4, <2>5
  <2>7. (CHOOSE b \in Last(c) : TRUE) = a
    BY <2>5, <2>6
  <2> QED  BY <2>2, <2>3, <2>5, <2>7 DEF Word
<1>7. CASE \A j \in DOMAIN stack : ~Decides(stack, j, c)
  <2>1. Lookup(stack, c) = Absent
    BY <1>7, LookupUndecided
  <2>2. ASSUME NEW a \in Last(c) PROVE FALSE
    <3>1. a \in DOMAIN entries /\ Word(entries, a, c) # Absent
      BY <1>1, <2>2
    <3>2. stack[place[a]].fields[c] # Absent
      BY <1>3, <1>5, <3>1 DEF Faithful
    <3>3. PICK k \in DOMAIN stack : k > place[a] /\ stack[k].fields[c] # Absent
      BY <1>3, <1>4, <1>7, <3>1, <3>2 DEF Decides
    <3>4. PICK b \in DOMAIN entries : place[b] = k /\ Word(entries, b, c) = stack[k].fields[c]
      BY <1>5, <3>3 DEF Faithful
    <3>5. b > a
      BY <1>3, <3>1, <3>3, <3>4 DEF Tells, Ordered
    <3> QED  BY <1>1, <2>2, <3>3, <3>4, <3>5
  <2> QED  BY <2>1, <2>2
<1> QED  BY <1>6, <1>7

\* A new entry, placed in the layer on top, which is the same as before or a new one.
LEMMA TellsAppend ==
  ASSUME NEW stack \in Seq(Layer), NEW entries \in Seq(Entry), NEW place,
         Tells(stack, entries, place), NEW entry \in Entry,
         NEW other \in Seq(Layer), Len(other) \in {Len(stack), Len(stack) + 1}, other # <<>>,
         \A j \in DOMAIN stack : j # Len(other) => other[j].fields = stack[j].fields,
         \A c \in Cell : other[Len(other)].fields[c] =
           IF entry.patch.writes[c] # Absent THEN entry.patch.writes[c]
           ELSE IF Len(other) \in DOMAIN stack THEN stack[Len(other)].fields[c] ELSE Absent
  PROVE  \E next : /\ Tells(other, Append(entries, entry), next)
                   /\ \A a \in DOMAIN entries : next[a] = place[a]
                   /\ next[Len(entries) + 1] = Len(other)
<1> DEFINE n == Len(entries) + 1
           t == Len(other)
           longer == Append(entries, entry)
           next == [a \in 1 .. n |-> IF a = n THEN t ELSE place[a]]
<1>1. /\ DOMAIN entries = 1 .. n - 1 /\ DOMAIN longer = 1 .. n /\ n \in Nat /\ n > 0
      /\ longer[n] = entry /\ \A a \in 1 .. n - 1 : longer[a] = entries[a]
  OBVIOUS
<1>2. /\ DOMAIN stack = 1 .. Len(stack) /\ DOMAIN other = 1 .. t /\ Len(stack) \in Nat
      /\ t \in Nat /\ t > 0 /\ (t = Len(stack) \/ t = Len(stack) + 1)
  OBVIOUS
<1>2a. \A x \in 1 .. Len(stack) : x \in 1 .. t /\ x <= t
  <2> HIDE DEF n, t, longer, next
  <2>1. \A l \in Nat, u \in Nat : u = l \/ u = l + 1 => \A x \in 1 .. l : x \in 1 .. u /\ x <= u
    OBVIOUS
  <2>2. Len(stack) \in Nat /\ t \in Nat /\ (t = Len(stack) \/ t = Len(stack) + 1)
    BY <1>2
  <2> QED  BY <2>1, <2>2
<1>3. /\ \A j \in 1 .. Len(stack) : j # t => other[j].fields = stack[j].fields
      /\ \A c \in Cell : other[t].fields[c] =
           IF entry.patch.writes[c] # Absent THEN entry.patch.writes[c]
           ELSE IF t \in 1 .. Len(stack) THEN stack[t].fields[c] ELSE Absent
  BY <1>2
<1>4. /\ \A a \in 1 .. n - 1 : place[a] \in 1 .. Len(stack)
      /\ \A a, b \in 1 .. n - 1 : a < b => place[a] <= place[b]
      /\ \A j \in 1 .. Len(stack) : \A c \in Cell : Faithful(stack, entries, place, j, c)
  BY <1>1, <1>2 DEF Tells, Ordered
<1>5. /\ next = [a \in 1 .. n |-> next[a]] /\ next[n] = t
      /\ \A a \in 1 .. n - 1 : next[a] = place[a]
  BY <1>1
<1> HIDE DEF n, t, longer, next
<1>6. \A a \in 1 .. n : a = n \/ a \in 1 .. n - 1
  BY <1>1
<1>7. \A a \in 1 .. n - 1 : a \in 1 .. n /\ a < n /\ ~(n < a)
  BY <1>1
<1>8. n \in 1 .. n /\ ~(n < n)
  BY <1>1
<1>9. next \in [DOMAIN longer -> DOMAIN other]
  <2>1. ASSUME NEW a \in 1 .. n PROVE next[a] \in 1 .. t
    <3>1. CASE a = n
      BY <1>2, <1>5, <3>1
    <3>2. CASE a \in 1 .. n - 1
      <4>1. next[a] = place[a] /\ place[a] \in 1 .. Len(stack)
        BY <1>4, <1>5, <3>2
      <4> QED  BY <1>2a, <4>1
    <3> QED  BY <1>6, <3>1, <3>2
  <2> QED  BY <1>1, <1>2, <1>5, <2>1
<1>10. Ordered(longer, next)
  <2>1. SUFFICES ASSUME NEW a \in 1 .. n, NEW b \in 1 .. n, a < b
                 PROVE  next[a] <= next[b]
    BY <1>1 DEF Ordered
  <2>2. a \in 1 .. n - 1
    BY <1>6, <1>7, <1>8, <2>1
  <2>3. CASE b = n
    <3>1. next[a] = place[a] /\ place[a] \in 1 .. Len(stack) /\ next[b] = t
      BY <1>4, <1>5, <2>2, <2>3
    <3> QED  BY <1>2a, <3>1
  <2>4. CASE b \in 1 .. n - 1
    BY <1>4, <1>5, <2>1, <2>2, <2>4
  <2> QED  BY <1>6, <2>3, <2>4
<1>11. ASSUME NEW j \in DOMAIN other, NEW c \in Cell
       PROVE  Faithful(other, longer, next, j, c)
  <2>1. \A a \in 1 .. n - 1 : Word(longer, a, c) = Word(entries, a, c)
    BY <1>1 DEF Word
  <2>2. Word(longer, n, c) = entry.patch.writes[c]
    BY <1>1 DEF Word
  <2>3. ASSUME j \in 1 .. Len(stack), other[j].fields[c] = stack[j].fields[c],
               next[n] = j => Word(longer, n, c) = Absent
        PROVE  Faithful(other, longer, next, j, c)
    <3>1. Faithful(stack, entries, place, j, c)
      BY <1>4, <2>3
    <3>2. CASE /\ stack[j].fields[c] = Absent
               /\ \A a \in DOMAIN entries : place[a] = j => Word(entries, a, c) = Absent
      <4>1. \A a \in 1 .. n : next[a] = j => Word(longer, a, c) = Absent
        <5> SUFFICES ASSUME NEW a \in 1 .. n, next[a] = j  PROVE Word(longer, a, c) = Absent
          OBVIOUS
        <5>1. CASE a = n
          BY <5>1, <1>5, <2>3
        <5>2. CASE a \in 1 .. n - 1
          <6>1. a \in DOMAIN entries /\ place[a] = j /\ Word(longer, a, c) = Word(entries, a, c)
            BY <5>2, <1>1, <1>5, <2>1
          <6> QED  BY <6>1, <3>2
        <5> QED  BY <5>1, <5>2, <1>6
      <4> QED  BY <1>1, <2>3, <3>2, <4>1 DEF Faithful
    <3>3. ASSUME stack[j].fields[c] # Absent,
                 NEW a \in DOMAIN entries, place[a] = j, Word(entries, a, c) = stack[j].fields[c],
                 \A b \in DOMAIN entries : b > a /\ place[b] = j => Word(entries, b, c) = Absent
          PROVE  Faithful(other, longer, next, j, c)
      <4>1. a \in 1 .. n /\ next[a] = j /\ Word(longer, a, c) = other[j].fields[c]
        BY <1>1, <1>5, <1>7, <2>1, <2>3, <3>3
      <4>2. \A b \in 1 .. n : b > a /\ next[b] = j => Word(longer, b, c) = Absent
        <5> SUFFICES ASSUME NEW b \in 1 .. n, b > a, next[b] = j  PROVE Word(longer, b, c) = Absent
          OBVIOUS
        <5>1. CASE b = n
          BY <5>1, <1>5, <2>3
        <5>2. CASE b \in 1 .. n - 1
          <6>1. b \in DOMAIN entries /\ place[b] = j /\ Word(longer, b, c) = Word(entries, b, c)
            BY <5>2, <1>1, <1>5, <2>1
          <6> QED  BY <6>1, <3>3
        <5> QED  BY <5>1, <5>2, <1>6
      <4> QED  BY <1>1, <2>3, <3>3, <4>1, <4>2 DEF Faithful
    <3> QED  BY <3>1, <3>2, <3>3 DEF Faithful
  <2>4. CASE j # t
    <3>1. j \in 1 .. Len(stack)
      BY <1>2, <2>4
    <3> QED  BY <1>3, <1>5, <2>3, <2>4, <3>1
  <2>5. CASE j = t /\ entry.patch.writes[c] # Absent
    <3>1. other[j].fields[c] = Word(longer, n, c) /\ other[j].fields[c] # Absent
      BY <1>3, <2>2, <2>5
    <3>2. next[n] = j /\ \A b \in 1 .. n : ~(b > n)
      BY <1>1, <1>5, <2>5
    <3> QED  BY <1>1, <1>8, <3>1, <3>2 DEF Faithful
  <2>6. CASE j = t /\ entry.patch.writes[c] = Absent /\ t \in 1 .. Len(stack)
    BY <1>3, <2>2, <2>3, <2>6
  <2>7. CASE j = t /\ entry.patch.writes[c] = Absent /\ t \notin 1 .. Len(stack)
    <3>1. other[j].fields[c] = Absent
      BY <1>3, <2>7
    <3>2. \A a \in 1 .. n - 1 : next[a] # t
      BY <1>4, <1>5, <2>7
    <3>3. \A a \in 1 .. n : next[a] = j => Word(longer, a, c) = Absent
      BY <1>6, <2>2, <2>7, <3>2
    <3> QED  BY <1>1, <3>1, <3>3 DEF Faithful
  <2> QED  BY <2>4, <2>5, <2>6, <2>7
<1>12. Tells(other, longer, next)
  BY <1>9, <1>10, <1>11 DEF Tells
<1>13. next[n] = t /\ \A a \in DOMAIN entries : next[a] = place[a]
  BY <1>1, <1>5
<1> QED  BY <1>12, <1>13 DEF n, t, longer

\* An entry is rewritten together with a layer.
Rewrites(stack, i, other, entries, a0, rewritten, p) ==
  /\ stack \in Seq(Layer) /\ other \in Seq(Layer) /\ i \in DOMAIN stack /\ p \in Patch
  /\ entries \in Seq(Entry) /\ rewritten \in Seq(Entry) /\ a0 \in DOMAIN entries
  /\ Len(other) = Len(stack) /\ other[i].fields = p.writes
  /\ \A j \in DOMAIN stack : j # i => other[j] = stack[j]
  /\ Len(rewritten) = Len(entries) /\ rewritten[a0].patch = p
  /\ \A a \in DOMAIN entries : a # a0 => rewritten[a] = entries[a]

\* If it is alone in its layer, it tells what the layer shows.
LEMMA TellsRewrite ==
  ASSUME NEW stack, NEW i, NEW other, NEW entries, NEW a0, NEW rewritten, NEW p, NEW place,
         Rewrites(stack, i, other, entries, a0, rewritten, p),
         Tells(stack, entries, place),
         \A a \in DOMAIN entries : place[a] = i <=> a = a0
  PROVE  Tells(other, rewritten, place)
<1>0. /\ stack \in Seq(Layer) /\ other \in Seq(Layer) /\ i \in DOMAIN stack /\ p \in Patch
      /\ entries \in Seq(Entry) /\ rewritten \in Seq(Entry) /\ a0 \in DOMAIN entries
      /\ Len(other) = Len(stack) /\ other[i].fields = p.writes
      /\ \A j \in DOMAIN stack : j # i => other[j] = stack[j]
      /\ Len(rewritten) = Len(entries) /\ rewritten[a0].patch = p
      /\ \A a \in DOMAIN entries : a # a0 => rewritten[a] = entries[a]
  BY DEF Rewrites
<1>1. DOMAIN other = DOMAIN stack /\ DOMAIN rewritten = DOMAIN entries
  BY <1>0
<1>2. \A a \in DOMAIN entries : a \in Int
  BY <1>0
<1>3. ASSUME NEW j \in DOMAIN stack, NEW c \in Cell
      PROVE  Faithful(other, rewritten, place, j, c)
  <2>1. CASE j # i
    <3>1. Faithful(stack, entries, place, j, c) /\ other[j] = stack[j]
      BY <1>0, <2>1 DEF Tells
    <3>2. \A a \in DOMAIN entries : place[a] = j => Word(rewritten, a, c) = Word(entries, a, c)
      BY <1>0, <2>1 DEF Word
    <3> QED  BY <1>0, <1>1, <3>1, <3>2 DEF Faithful
  <2>2. CASE j = i
    <3>1. other[j].fields[c] = Word(rewritten, a0, c)
      BY <1>0, <2>2 DEF Word
    <3>2. \A b \in DOMAIN rewritten : ~(b > a0 /\ place[b] = j)
      BY <1>1, <1>2, <2>2
    <3> QED  BY <1>0, <1>1, <2>2, <3>1, <3>2 DEF Faithful
  <2> QED  BY <2>1, <2>2
<1> QED  BY <1>0, <1>1, <1>3 DEF Tells, Ordered

\* Where the entries lie after layers s .. e have become one.
Moved(place, s, e) ==
  [a \in DOMAIN place |-> IF place[a] < s THEN place[a]
                          ELSE IF place[a] <= e THEN s ELSE place[a] - (e - s)]

\* The splice keeps every entry's word.
LEMMA TellsMerge ==
  ASSUME NEW stack \in Seq(Layer), NoDeletes(stack), NEW entries \in Seq(Entry), NEW place,
         Tells(stack, entries, place),
         NEW s \in Int, NEW e \in Int, IsRun(stack, s, e), e <= s + 2,
         NEW out, out = Collapse(stack, s, e)
  PROVE  Tells(out, entries, Moved(place, s, e))
<1>0. Spliced(stack, s, e, out)
  BY CollapseShape
<1> DEFINE k == e - s
           next == Moved(place, s, e)
           n == Len(stack)
<1>1. /\ out \in Seq(Layer) /\ Len(out) = n - k /\ DOMAIN out = 1 .. n - k
      /\ \A j \in DOMAIN out : j < s => out[j] = stack[j]
      /\ \A j \in DOMAIN out : j > s => out[j] = stack[j + k]
      /\ out[s].fields = MergedFields(stack, s, e)
  <2>1. /\ out \in Seq(Layer) /\ Len(out) = n - k
        /\ \A j \in DOMAIN out : j < s => out[j] = stack[j]
        /\ \A j \in DOMAIN out : j > s => out[j] = stack[j + k]
        /\ out[s].fields = MergedFields(stack, s, e)
    BY <1>0 DEF Spliced
  <2> HIDE DEF n, k
  <2> QED  BY <2>1
<1>2. /\ n \in Nat /\ DOMAIN stack = 1 .. n /\ s \in 1 .. n /\ e \in 1 .. n /\ s <= e
      /\ k \in 0 .. 2 /\ e = s + k
  BY DEF IsRun
<1>3. \A a \in DOMAIN entries : place[a] \in 1 .. n
  BY <1>2 DEF Tells
<1>4. \A a \in DOMAIN entries :
        next[a] = IF place[a] < s THEN place[a] ELSE IF place[a] <= e THEN s ELSE place[a] - k
  BY DEF Tells, Moved
<1>5. next \in [DOMAIN entries -> DOMAIN out]
  <2>1. DOMAIN next = DOMAIN entries /\ next = [a \in DOMAIN entries |-> next[a]]
    BY DEF Tells, Moved
  <2> HIDE DEF next, k, n
  <2>2. \A a \in DOMAIN entries : next[a] \in DOMAIN out
    <3>1. ASSUME NEW a \in DOMAIN entries
          PROVE  next[a] \in 1 .. n - k
      <4>1. place[a] \in 1 .. n
        BY <1>3
      <4>2. next[a] = IF place[a] < s THEN place[a]
                      ELSE IF place[a] <= e THEN s ELSE place[a] - k
        BY <1>4
      <4> QED  BY <1>2, <4>1, <4>2
    <3> QED  BY <3>1, <1>1
  <2> QED  BY <2>1, <2>2
<1> HIDE DEF next, k, n
<1>6. Ordered(entries, next)
  BY <1>2, <1>3, <1>4 DEF Tells, Ordered
<1>7. \A a \in DOMAIN entries : a \in Int
  OBVIOUS
<1>8. ASSUME NEW j \in DOMAIN out, NEW c \in Cell
      PROVE  Faithful(out, entries, next, j, c)
  <2>1. CASE j < s
    <3>1. j \in DOMAIN stack /\ out[j] = stack[j]
      BY <1>1, <1>2, <2>1
    <3>2. \A a \in DOMAIN entries : next[a] = j <=> place[a] = j
      <4>1. ASSUME NEW a \in DOMAIN entries
            PROVE  next[a] = j <=> place[a] = j
        <5>1. place[a] \in Int /\ j \in Int /\ k \in Int /\ e = s + k /\ s \in Int
          BY <1>1, <1>2, <1>3
        <5>2. next[a] = IF place[a] < s THEN place[a]
                        ELSE IF place[a] <= e THEN s ELSE place[a] - k
          BY <1>4
        <5> QED  BY <1>2, <2>1, <5>1, <5>2
      <4> QED  BY <4>1
    <3> QED  BY <3>1, <3>2 DEF Faithful, Tells
  <2>2. CASE j > s
    <3>1. j + k \in DOMAIN stack /\ out[j] = stack[j + k]
      BY <1>1, <1>2, <2>2
    <3>2. \A a \in DOMAIN entries : next[a] = j <=> place[a] = j + k
      <4>1. ASSUME NEW a \in DOMAIN entries
            PROVE  next[a] = j <=> place[a] = j + k
        <5>1. place[a] \in Int /\ j \in Int /\ k \in Int /\ e = s + k /\ s \in Int
          BY <1>1, <1>2, <1>3
        <5>2. next[a] = IF place[a] < s THEN place[a]
                        ELSE IF place[a] <= e THEN s ELSE place[a] - k
          BY <1>4
        <5> QED  BY <1>2, <2>2, <5>1, <5>2
      <4> QED  BY <4>1
    <3>3. Faithful(stack, entries, place, j + k, c)
      BY <3>1 DEF Tells
    <3> QED  BY <3>1, <3>2, <3>3 DEF Faithful
  <2>3. CASE j = s
    <3>1. \A a \in DOMAIN entries : next[a] = s <=> place[a] \in s .. e
      <4>1. ASSUME NEW a \in DOMAIN entries
            PROVE  next[a] = s <=> place[a] \in s .. e
        <5>1. place[a] \in Int /\ k \in Int /\ e = s + k /\ s \in Int
          BY <1>2, <1>3
        <5>2. next[a] = IF place[a] < s THEN place[a]
                        ELSE IF place[a] <= e THEN s ELSE place[a] - k
          BY <1>4
        <5> QED  BY <1>2, <5>1, <5>2
      <4> QED  BY <4>1
    <3>2. \A i \in s .. e : /\ i \in DOMAIN stack /\ Faithful(stack, entries, place, i, c)
                            /\ (Stops(stack[i], c) <=> stack[i].fields[c] # Absent)
      <4>1. \A i \in s .. e : i \in DOMAIN stack
        BY <1>2
      <4> QED  BY <4>1, StopsWithValue DEF Tells
    <3>3. \/ /\ \A i \in s .. e : ~Stops(stack[i], c)
             /\ out[s].fields[c] = Absent
          \/ \E i \in s .. e : /\ Stops(stack[i], c)
                               /\ \A l \in i + 1 .. e : ~Stops(stack[l], c)
                               /\ out[s].fields[c] = stack[i].fields[c]
                               /\ out[s].fields[c] # Absent
      <4>1. s \in DOMAIN stack /\ e \in DOMAIN stack
        BY <1>2
      <4>2. out[s].fields[c] = MergedFields(stack, s, e)[c]
        BY <1>1
      <4>3. s <= e /\ e <= s + 2
        BY <1>2
      <4>4. LET merged == MergedFields(stack, s, e)[c]
            IN  \/ /\ \A i \in s .. e : ~Stops(stack[i], c)
                   /\ merged = Absent
                \/ \E i \in s .. e : /\ Stops(stack[i], c)
                                     /\ \A l \in i + 1 .. e : ~Stops(stack[l], c)
                                     /\ merged = stack[i].fields[c]
                                     /\ merged # Absent
        BY <4>1, <4>3, MergedCell
      <4> QED  BY <4>2, <4>4
    <3>4. CASE /\ \A i \in s .. e : ~Stops(stack[i], c)
               /\ out[s].fields[c] = Absent
      <4>1. ASSUME NEW a \in DOMAIN entries, next[a] = s PROVE Word(entries, a, c) = Absent
        BY <3>1, <3>2, <3>4, <4>1 DEF Faithful
      <4> QED  BY <2>3, <3>4, <4>1 DEF Faithful
    <3>5. ASSUME NEW i \in s .. e, Stops(stack[i], c),
                 \A l \in i + 1 .. e : ~Stops(stack[l], c),
                 out[s].fields[c] = stack[i].fields[c], out[s].fields[c] # Absent
          PROVE  Faithful(out, entries, next, j, c)
      <4>1. PICK a \in DOMAIN entries :
              /\ place[a] = i /\ Word(entries, a, c) = stack[i].fields[c]
              /\ \A b \in DOMAIN entries : b > a /\ place[b] = i => Word(entries, b, c) = Absent
        BY <3>2, <3>5 DEF Faithful
      <4>2. ASSUME NEW b \in DOMAIN entries, b > a, next[b] = s
            PROVE  Word(entries, b, c) = Absent
        <5>1. place[b] \in s .. e /\ place[b] >= i
          BY <1>3, <1>7, <3>1, <4>1, <4>2 DEF Tells, Ordered
        <5>2. CASE place[b] = i
          BY <4>1, <4>2, <5>2
        <5>3. CASE place[b] > i
          <6>1. place[b] \in i + 1 .. e
            BY <1>2, <5>1, <5>3
          <6>2. stack[place[b]].fields[c] = Absent
            BY <3>2, <3>5, <5>1, <6>1
          <6> QED  BY <3>2, <5>1, <6>2 DEF Faithful
        <5> QED  BY <1>2, <1>3, <5>1, <5>2, <5>3
      <4>3. next[a] = s
        BY <3>1, <4>1
      <4> QED  BY <2>3, <3>5, <4>1, <4>2, <4>3 DEF Faithful
    <3> QED  BY <3>3, <3>4, <3>5
  <2> QED  BY <1>1, <1>2, <2>1, <2>2, <2>3
<1>9. Tells(out, entries, next)
  BY <1>5, <1>6, <1>8 DEF Tells
<1> QED  BY <1>9 DEF next

-----------------------------------------------------------------------------
(* The invariant that ties the log to the layers                            *)

\* The entries of mutation m are those that lie in the layer with this id.
Owns(stack, entries, place, m, id) ==
  \A a \in DOMAIN entries : entries[a].owner = m <=> stack[place[a]].id = id

OneEach(entries) ==
  \A a, b \in DOMAIN entries :
    entries[a].owner = entries[b].owner /\ entries[a].owner # Query => a = b

\* Each mutation that began has one entry at most, one if it still has its layer, and that
\* entry says nothing until the optimistic response is marshalled.
LogShape ==
  /\ NoneDeletes(log)
  /\ OneEach(log)
  /\ \A a \in DOMAIN log : \A m \in Mutations : log[a].owner = m =>
       /\ phase[m] # "idle"
       /\ phase[m] = "marshalling" => \A c \in Cell : Word(log, a, c) = Absent
  /\ \A m \in Mutations : phase[m] \in Active /\ HasOwnLayer(m) =>
       \E a \in DOMAIN log : log[a].owner = m

\* The mutations in flight own the layers their entries lie in.
Placed(stack, entries, place) ==
  /\ Tells(stack, entries, place)
  /\ \A m \in Mutations : phase[m] \in Active => Owns(stack, entries, place, m, layerOf[m])

LogInv == LogShape /\ \E place : Placed(data, log, place)

\* What LogRewrite does to the entries.
LEMMA LogRewriteEffect ==
  ASSUME log \in Seq(Entry), NEW m, NEW p \in Patch
  PROVE  /\ LogRewrite(m, p) \in Seq(Entry)
         /\ Len(LogRewrite(m, p)) = Len(log)
         /\ DOMAIN LogRewrite(m, p) = DOMAIN log
         /\ \A a \in DOMAIN log :
              /\ LogRewrite(m, p)[a].owner = log[a].owner
              /\ log[a].owner # m => LogRewrite(m, p)[a] = log[a]
              /\ log[a].owner = m => LogRewrite(m, p)[a].patch = p
<1>1. LogRewrite(m, p) \in Seq(Entry)
  BY LogRewriteType
<1>2. DOMAIN LogRewrite(m, p) = DOMAIN log
  BY DEF LogRewrite
<1>3. Len(LogRewrite(m, p)) = Len(log)
  BY <1>1, <1>2
<1>4. ASSUME NEW a \in DOMAIN log
      PROVE  /\ LogRewrite(m, p)[a].owner = log[a].owner
             /\ log[a].owner # m => LogRewrite(m, p)[a] = log[a]
             /\ log[a].owner = m => LogRewrite(m, p)[a].patch = p
  <2>1. log[a] \in Entry
    OBVIOUS
  <2> QED  BY <2>1 DEF LogRewrite, Entry
<1> QED  BY <1>1, <1>2, <1>3, <1>4

\* The layer of a mutation in flight is optimistic wherever its id is found.
LEMMA ActiveLayer ==
  ASSUME Inv, NEW m \in Mutations, phase[m] \in Active,
         NEW j \in DOMAIN data, data[j].id = layerOf[m]
  PROVE  data[j].optimistic
<1>1. data \in Seq(Layer) /\ Sorted(data)
  BY InvSorted
<1>2. HasOwnLayer(m)
  BY DEF HasOwnLayer, HasLayer
<1>3. PICK i \in DOMAIN data : data[i].id = layerOf[m] /\ data[i].optimistic
  BY <1>2 DEF Inv, PendingLayerKept
<1>4. i = j
  BY <1>1, <1>3, SortedIsInjective
<1> QED  BY <1>3, <1>4

\* A mutation's entry, rewritten together with its layer, keeps the placement.
LEMMA RewriteKeepsPlaced ==
  ASSUME Inv, LogShape, NEW place, Placed(data, log, place),
         NEW m \in Mutations, phase[m] \in Active, HasOwnLayer(m), NEW p \in Patch,
         NEW other \in Seq(Layer), SameShape(data, other),
         \A j \in DOMAIN data : j # OwnLayer(m) => other[j] = data[j],
         other[OwnLayer(m)].fields = p.writes
  PROVE  Placed(other, LogRewrite(m, p), place)
<1> DEFINE i == OwnLayer(m)
           out == LogRewrite(m, p)
<1>1. data \in Seq(Layer) /\ Sorted(data) /\ log \in Seq(Entry)
  BY InvSorted DEF Inv, TypeOK, Entry
<1>2. i \in DOMAIN data /\ data[i].id = layerOf[m]
  BY <1>1, OwnLayerFound
<1>3. /\ out \in Seq(Entry) /\ Len(out) = Len(log) /\ DOMAIN out = DOMAIN log
      /\ \A a \in DOMAIN log : /\ out[a].owner = log[a].owner
                               /\ log[a].owner # m => out[a] = log[a]
                               /\ log[a].owner = m => out[a].patch = p
  BY <1>1, LogRewriteEffect
<1>4. PICK a0 \in DOMAIN log : log[a0].owner = m
  BY DEF LogShape
<1>5. Tells(data, log, place) /\ \A a \in DOMAIN log : place[a] \in DOMAIN data
  BY DEF Placed, Tells
<1>6. Query \notin Mutations
  BY MutationAssumption
<1> HIDE DEF i, out
<1>7. \A a \in DOMAIN log : log[a].owner = m <=> a = a0
  BY <1>4, <1>6 DEF LogShape, OneEach
<1>8. ASSUME NEW a \in DOMAIN log PROVE place[a] = i <=> a = a0
  <2>1. log[a].owner = m <=> data[place[a]].id = layerOf[m]
    BY DEF Placed, Owns
  <2>2. data[place[a]].id = layerOf[m] <=> place[a] = i
    BY <1>1, <1>2, <1>5, SortedIsInjective
  <2> QED  BY <1>7, <2>1, <2>2
<1>9. Len(other) = Len(data) /\ other[i].fields = p.writes
      /\ \A j \in DOMAIN data : j # i => other[j] = data[j]
  BY DEF SameShape, i
<1>10. Tells(other, out, place)
  <2>1. out[a0].patch = p /\ \A a \in DOMAIN log : a # a0 => out[a] = log[a]
    BY <1>3, <1>4, <1>7
  <2>2. \A a \in DOMAIN log : place[a] = i <=> a = a0
    BY <1>8
  <2>3. /\ i \in DOMAIN data /\ data \in Seq(Layer) /\ log \in Seq(Entry) /\ out \in Seq(Entry)
        /\ Len(out) = Len(log) /\ Tells(data, log, place)
    BY <1>1, <1>2, <1>3, <1>5
  <2>4. a0 \in DOMAIN log /\ p \in Patch /\ other \in Seq(Layer)
    BY <1>4
  <2>5. Rewrites(data, i, other, log, a0, out, p)
    BY <1>9, <2>1, <2>3, <2>4 DEF Rewrites
  <2> QED  BY <2>2, <2>3, <2>5, TellsRewrite
<1>11. ASSUME NEW n \in Mutations, phase[n] \in Active
       PROVE  Owns(other, out, place, n, layerOf[n])
  <2>1. Owns(data, log, place, n, layerOf[n])
    BY <1>11 DEF Placed
  <2>2. \A a \in DOMAIN log : other[place[a]].id = data[place[a]].id
    BY <1>5 DEF SameShape
  <2> QED  BY <1>3, <2>1, <2>2 DEF Owns
<1> QED  BY <1>10, <1>11 DEF Placed, out

\* The splice hands an entry to another layer only where committed layers become one.
LEMMA MergeOwns ==
  ASSUME NEW stack \in Seq(Layer), NEW entries \in Seq(Entry), NEW place,
         Tells(stack, entries, place),
         NEW s \in Int, NEW e \in Int, IsRun(stack, s, e),
         NEW out, Spliced(stack, s, e, out),
         NEW m, NEW id, Owns(stack, entries, place, m, id),
         \A j \in DOMAIN stack : stack[j].id = id => stack[j].optimistic
  PROVE  Owns(out, entries, Moved(place, s, e), m, id)
<1> DEFINE next == Moved(place, s, e)
<1>1. /\ DOMAIN stack = 1 .. Len(stack) /\ DOMAIN out = 1 .. Len(stack) - (e - s)
      /\ s \in 1 .. Len(stack) /\ e \in 1 .. Len(stack) /\ s <= e
      /\ \A j \in s .. e : ~stack[j].optimistic
  BY DEF IsRun, Spliced
<1>2. /\ \A j \in DOMAIN out : j < s => out[j] = stack[j]
      /\ \A j \in DOMAIN out : j > s => out[j] = stack[j + (e - s)]
      /\ out[s].id = stack[s].id
  BY DEF Spliced
<1>3. SUFFICES ASSUME NEW a \in DOMAIN entries
               PROVE  out[next[a]].id = id <=> stack[place[a]].id = id
  BY DEF Owns
<1>4. place[a] \in 1 .. Len(stack)
  BY <1>1 DEF Tells
<1>5. next[a] = IF place[a] < s THEN place[a]
                ELSE IF place[a] <= e THEN s ELSE place[a] - (e - s)
  BY DEF Tells, Moved
<1> HIDE DEF next
<1>6. CASE place[a] < s
  <2>1. next[a] = place[a] /\ next[a] \in DOMAIN out
    BY <1>1, <1>4, <1>5, <1>6
  <2> QED  BY <1>2, <1>6, <2>1
<1>7. CASE place[a] >= s /\ place[a] <= e
  <2>1. next[a] = s /\ place[a] \in s .. e /\ s \in s .. e
    BY <1>1, <1>4, <1>5, <1>7
  <2>2. stack[place[a]].id # id /\ stack[s].id # id
    BY <1>1, <1>4, <2>1
  <2> QED  BY <1>2, <2>1, <2>2
<1>8. CASE place[a] > e
  <2>1. next[a] = place[a] - (e - s) /\ ~(place[a] < s) /\ ~(place[a] <= e)
    BY <1>1, <1>4, <1>5, <1>8
  <2>2. next[a] > s /\ next[a] \in 1 .. Len(stack) - (e - s) /\ next[a] + (e - s) = place[a]
    BY <1>1, <1>4, <1>8, <2>1
  <2>3. out[next[a]] = stack[next[a] + (e - s)]
    BY <1>1, <1>2, <2>2
  <2> QED  BY <2>2, <2>3
<1>9. place[a] \in Int /\ s \in Int /\ e \in Int
  BY <1>1, <1>4
<1> QED  BY <1>6, <1>7, <1>8, <1>9

\* Resolving a layer places every entry again, and takes none from a mutation in flight.
LEMMA ResolveKeepsPlaced ==
  ASSUME Inv, NEW m \in Mutations, HasOwnLayer(m), phase[m] \in Active,
         NEW stack \in Seq(Layer), SameShape(data, stack), NoDeletes(stack),
         NEW entries \in Seq(Entry), NEW place, Placed(stack, entries, place),
         NEW out, out = ResolveAt(stack, OwnLayer(m))
  PROVE  \E next : /\ Tells(out, entries, next)
                   /\ \A n \in Mutations : n # m /\ phase[n] \in Active
                        => Owns(out, entries, next, n, layerOf[n])
<1> DEFINE i == OwnLayer(m)
           com == [stack EXCEPT ![i].optimistic = FALSE]
           s == RunStart(com, i)
           e == RunEnd(com, s)
           next == Moved(place, s, e)
<1>1. /\ data \in Seq(Layer) /\ Sorted(data) /\ Alternating(data)
      /\ DOMAIN stack = DOMAIN data
  BY InvSorted DEF Inv, SameShape
<1>2. i \in DOMAIN data /\ data[i].id = layerOf[m]
  BY <1>1, OwnLayerFound
<1>3. Alternating(stack) /\ i \in DOMAIN stack
  BY <1>1, <1>2 DEF SameShape, Alternating
<1>4. /\ com \in Seq(Layer) /\ Len(com) = Len(stack)
      /\ \A j \in DOMAIN stack : /\ j # i => com[j] = stack[j]
                                 /\ com[j].id = stack[j].id
                                 /\ com[j].fields = stack[j].fields
                                 /\ com[j].deleted = stack[j].deleted
      /\ IsRun(com, s, e) /\ e <= s + 2
      /\ ResolveAt(stack, i) = Collapse(com, s, e)
  BY <1>3, ResolveMergesRun
<1> HIDE DEF i, com, s, e
<1>5. DOMAIN com = DOMAIN stack
  BY <1>4
<1>6. s \in Int /\ e \in Int
  <2>1. s \in DOMAIN com /\ e \in DOMAIN com
    BY <1>4 DEF IsRun
  <2> QED  BY <1>4, <2>1
<1>7. NoDeletes(com)
  BY <1>4, <1>5 DEF NoDeletes
<1>8. Tells(com, entries, place)
  <2>1. Tells(stack, entries, place)
    BY DEF Placed
  <2>2. \A j \in DOMAIN stack : \A c \in Cell :
          Faithful(stack, entries, place, j, c) => Faithful(com, entries, place, j, c)
    BY <1>4 DEF Faithful
  <2> QED  BY <1>5, <2>1, <2>2 DEF Tells
<1>9. out = Collapse(com, s, e)
  BY <1>4 DEF i
<1>10. Spliced(com, s, e, out)
  BY <1>4, <1>6, <1>9, CollapseShape
<1>11. Tells(out, entries, next)
  BY <1>4, <1>6, <1>7, <1>8, <1>9, TellsMerge
<1>12. ASSUME NEW n \in Mutations, n # m, phase[n] \in Active
       PROVE  Owns(out, entries, next, n, layerOf[n])
  <2>1. layerOf[n] # layerOf[m]
    <3>1. layerOf[n] # NoLayer
      BY <1>12 DEF Inv, Owners, Active
    <3> QED  BY <1>12, <3>1 DEF Inv, Owners
  <2>2. ASSUME NEW j \in DOMAIN com, com[j].id = layerOf[n] PROVE com[j].optimistic
    <3>1. data[j].id = layerOf[n] /\ j \in DOMAIN data
      BY <1>1, <1>4, <1>5, <2>2 DEF SameShape
    <3>2. j # i /\ data[j].optimistic
      BY <1>2, <1>12, <2>1, <3>1, ActiveLayer
    <3> QED  BY <1>1, <1>4, <3>1, <3>2 DEF SameShape
  <2>3. Owns(com, entries, place, n, layerOf[n])
    <3>1. Owns(stack, entries, place, n, layerOf[n])
      BY <1>12 DEF Placed
    <3>2. \A a \in DOMAIN entries : place[a] \in DOMAIN stack
      BY DEF Placed, Tells
    <3> QED  BY <1>4, <3>1, <3>2 DEF Owns
  <2> HIDE DEF next
  <2>4. \A j \in DOMAIN com : com[j].id = layerOf[n] => com[j].optimistic
    BY <2>2
  <2> QED  BY <1>4, <1>6, <1>8, <1>10, <2>3, <2>4, MergeOwns DEF next
<1> QED  BY <1>11, <1>12

\* The shape of the log outlives every hook.
LEMMA HookKeepsShape ==
  ASSUME Inv, LogShape, NEW m \in Mutations, Hook(m), phase'[m] # "marshalling",
         \/ log' = log
         \/ \E p \in Patch : p.deletes = {} /\ log' = LogRewrite(m, p)
  PROVE  LogShape'
<1>1. log \in Seq(Entry)
  BY DEF Inv, TypeOK, Entry
<1>2. /\ DOMAIN log' = DOMAIN log
      /\ \A a \in DOMAIN log : /\ log'[a].owner = log[a].owner
                               /\ log[a].owner # m => log'[a] = log[a]
                               /\ log'[a].patch.deletes = {}
  <2>1. \A a \in DOMAIN log : log[a].patch.deletes = {}
    BY DEF LogShape, NoneDeletes
  <2>2. CASE log' = log
    BY <2>1, <2>2
  <2>3. ASSUME NEW p \in Patch, p.deletes = {}, log' = LogRewrite(m, p)
        PROVE  /\ DOMAIN log' = DOMAIN log
               /\ \A a \in DOMAIN log : /\ log'[a].owner = log[a].owner
                                        /\ log[a].owner # m => log'[a] = log[a]
                                        /\ log'[a].patch.deletes = {}
    <3>1. \A a \in DOMAIN log : log[a].owner = m => log'[a].patch = p
      BY <1>1, <2>3, LogRewriteEffect
    <3>2. /\ DOMAIN log' = DOMAIN log
          /\ \A a \in DOMAIN log : /\ log'[a].owner = log[a].owner
                                   /\ log[a].owner # m => log'[a] = log[a]
      BY <1>1, <2>3, LogRewriteEffect
    <3> QED  BY <2>1, <2>3, <3>1, <3>2
  <2> QED  BY <2>2, <2>3
<1>3. \A n \in Mutations : n # m => phase'[n] = phase[n]
  BY DEF Hook
<1>4. phase'[m] # "idle" /\ phase'[m] # "marshalling" /\ phase[m] \in Active
  BY DEF Hook
<1>5. ASSUME NEW n \in Mutations, phase'[n] \in Active, HasOwnLayer(n)'
      PROVE  phase[n] \in Active /\ HasOwnLayer(n)
  <2>1. PICK k \in DOMAIN data' : data'[k].id = layerOf[n]
    BY <1>5 DEF HasOwnLayer, HasLayer, Hook
  <2>2. PICK j \in DOMAIN data : data[j].id = layerOf[n]
    BY <2>1 DEF Hook
  <2> QED  BY <1>3, <1>4, <1>5, <2>2 DEF HasOwnLayer, HasLayer
<1>6. NoneDeletes(log') /\ OneEach(log')
  BY <1>2 DEF LogShape, NoneDeletes, OneEach
<1>7. ASSUME NEW a \in DOMAIN log', NEW n \in Mutations, log'[a].owner = n
      PROVE  /\ phase'[n] # "idle"
             /\ phase'[n] = "marshalling" => \A c \in Cell : Word(log', a, c) = Absent
  <2>1. CASE n = m
    BY <1>4, <2>1
  <2>2. CASE n # m
    <3>1. log[a].owner = n /\ log'[a] = log[a] /\ a \in DOMAIN log
      BY <1>2, <1>7, <2>2
    <3> QED  BY <1>3, <2>2, <3>1 DEF LogShape, Word
  <2> QED  BY <2>1, <2>2
<1>8. ASSUME NEW n \in Mutations, phase'[n] \in Active, HasOwnLayer(n)'
      PROVE  \E a \in DOMAIN log' : log'[a].owner = n
  BY <1>2, <1>5, <1>8 DEF LogShape
<1> QED  BY <1>6, <1>7, <1>8 DEF LogShape, NoneDeletes, OneEach, Word

-----------------------------------------------------------------------------
(* Every action, one by one                                                 *)

\* What a write leaves of each cell, if it says null of no link.
LEMMA PlainWrite ==
  ASSUME NEW stack \in Seq(Layer), NEW i \in DOMAIN stack, NEW p \in Patch, PlainPatch(p),
         NEW c \in Cell
  PROVE  WriteAt(stack, i, p)[i].fields[c]
           = IF p.writes[c] # Absent THEN p.writes[c] ELSE stack[i].fields[c]
<1>1. stack[i] \in Layer
  OBVIOUS
<1>2. ~Skipped(stack, c, p.writes[c])
  BY DEF Skipped, PlainPatch
<1> QED  BY <1>1, <1>2 DEF WriteAt, Layer

\* Into an empty layer, it leaves what it says.
LEMMA PlainWriteFresh ==
  ASSUME NEW stack \in Seq(Layer), NEW i \in DOMAIN stack, NEW p \in Patch, PlainPatch(p),
         \A c \in Cell : stack[i].fields[c] = Absent
  PROVE  WriteAt(stack, i, p)[i].fields = p.writes
<1>1. \A c \in Cell : WriteAt(stack, i, p)[i].fields[c] = p.writes[c]
  BY PlainWrite
<1>2. WriteAt(stack, i, p)[i] \in Layer
  <2>1. WriteAt(stack, i, p) \in Seq(Layer) /\ i \in DOMAIN WriteAt(stack, i, p)
    BY WriteAtEffect DEF SameShape
  <2> QED  BY <2>1
<1>3. WriteAt(stack, i, p)[i].fields \in Contents /\ p.writes \in Contents
  BY <1>2 DEF Layer, Patch
<1> QED  BY <1>1, <1>3 DEF Contents

\* What the proofs of the actions take for granted.
Bridge == Inv /\ Owned /\ NoDeletes(data) /\ LogInv

\* The placement in the next state, put together.
LEMMA PlacedNext ==
  ASSUME LogShape', NEW place, Tells(data', log', place),
         \A n \in Mutations : phase'[n] \in Active => Owns(data', log', place, n, layerOf'[n])
  PROVE  LogInv'
<1>1. \A n \in Mutations : phase'[n] \in Active => Owns(data, log, place, n, layerOf[n])'
  BY DEF Owns
<1>2. Tells(data, log, place)'
  BY DEF Tells, Ordered, Faithful, Word
<1> QED  BY <1>1, <1>2 DEF LogInv, Placed

\* The optimistic response goes to a layer that is still empty.
LEMMA OptimisticKeepsLog ==
  ASSUME Plain, Bridge, NEW m \in Mutations, WriteOptimistic(m)
  PROVE  /\ LogInv'
         /\ \E p \in Patch : log' = LogRewrite(m, p)
         /\ phase' = [phase EXCEPT ![m] = "inflight"]
<1> DEFINE i == OwnLayer(m)
<1>1. m \notin aborted /\ Inv /\ LogShape /\ phase[m] = "marshalling" /\ HasOwnLayer(m)
  BY DEF Bridge, Owned, LogInv, WriteOptimistic
<1>2. PICK p \in OptimisticPatches : data' = WriteAt(data, i, p) /\ log' = LogRewrite(m, p)
  BY <1>1 DEF WriteOptimistic
<1>3. p \in Patch /\ PlainPatch(p)
  BY MutationAssumption DEF Plain
<1>4. phase' = [phase EXCEPT ![m] = "inflight"] /\ layerOf' = layerOf
  BY <1>1 DEF WriteOptimistic, GoTo
<1>5. PICK place : Placed(data, log, place)
  BY DEF Bridge, LogInv
<1>6. data \in Seq(Layer) /\ Sorted(data) /\ i \in DOMAIN data /\ data[i].id = layerOf[m]
  BY <1>1, InvSorted, OwnLayerFound
<1>7. phase[m] \in Active
  BY <1>1 DEF Active
<1>8. \A c \in Cell : data[i].fields[c] = Absent
  <2>1. SUFFICES ASSUME NEW c \in Cell, data[i].fields[c] # Absent PROVE FALSE
    OBVIOUS
  <2>2. PICK a \in DOMAIN log : place[a] = i /\ Word(log, a, c) # Absent
    BY <1>5, <1>6, <2>1 DEF Placed, Tells, Faithful
  <2>3. log[a].owner = m
    BY <1>5, <1>6, <1>7, <2>2 DEF Placed, Owns
  <2> QED  BY <1>1, <2>2, <2>3 DEF LogShape
<1>9. /\ data' \in Seq(Layer) /\ SameShape(data, data')
      /\ \A j \in DOMAIN data : j # i => data'[j] = data[j]
      /\ data'[i].fields = p.writes
  BY <1>2, <1>3, <1>6, <1>8, WriteAtEffect, PlainWriteFresh
<1>10. Placed(data', log', place)
  BY <1>1, <1>2, <1>3, <1>5, <1>7, <1>9, RewriteKeepsPlaced
<1>11. phase'[m] = "inflight" /\ \A n \in Mutations : n # m => phase'[n] = phase[n]
  BY <1>1, <1>4 DEF Inv, TypeOK
<1>12. LogShape'
  BY <1>1, <1>2, <1>3, <1>11, WriteOptimisticIsHook, HookKeepsShape DEF PlainPatch
<1>13. Tells(data', log', place)
  BY <1>10 DEF Placed
<1>14. \A n \in Mutations : phase'[n] \in Active => Owns(data', log', place, n, layerOf'[n])
  BY <1>4, <1>7, <1>10, <1>11 DEF Placed
<1>15. LogInv'
  BY <1>12, <1>13, <1>14, PlacedNext
<1> QED  BY <1>2, <1>3, <1>4, <1>15

\* The response takes the place of the optimistic one.
LEMMA RespondKeepsLog ==
  ASSUME Plain, Bridge, NEW m \in Mutations, Respond(m)
  PROVE  /\ LogInv'
         /\ \E p \in Patch : log' = LogRewrite(m, p)
         /\ \E q \in {"ending", "endingWithErrors"} : phase' = [phase EXCEPT ![m] = q]
<1> DEFINE i == OwnLayer(m)
           cleared == ClearAt(data, i)
<1>1. Inv /\ LogShape /\ phase[m] = "inflight" /\ HasOwnLayer(m) /\ layerOf' = layerOf
  BY DEF Bridge, LogInv, Respond
<1>2. PICK p \in ResponsePatches : data' = WriteAt(cleared, i, p) /\ log' = LogRewrite(m, p)
  BY DEF Respond
<1>3. p \in Patch /\ PlainPatch(p)
  BY MutationAssumption DEF Plain
<1>4. PICK q \in {"ending", "endingWithErrors"} : phase' = [phase EXCEPT ![m] = q]
  BY DEF Respond, GoTo
<1>5. PICK place : Placed(data, log, place)
  BY DEF Bridge, LogInv
<1>6. data \in Seq(Layer) /\ i \in DOMAIN data
  BY <1>1, InvSorted, OwnLayerFound
<1>7. /\ cleared \in Seq(Layer) /\ SameShape(data, cleared)
      /\ \A j \in DOMAIN data : j # i => cleared[j] = data[j]
  BY <1>6, ClearAtEffect
<1>8. \A c \in Cell : cleared[i].fields[c] = Absent
  <2>1. data[i] \in Layer
    BY <1>6
  <2> QED  BY <1>6, <2>1 DEF ClearAt, NoContents, Layer
<1> HIDE DEF cleared
<1>9. /\ data' \in Seq(Layer) /\ SameShape(data, data')
      /\ \A j \in DOMAIN data : j # i => data'[j] = data[j]
      /\ data'[i].fields = p.writes
  <2>1. i \in DOMAIN cleared /\ DOMAIN cleared = DOMAIN data
    BY <1>6, <1>7 DEF SameShape
  <2>2. /\ data' \in Seq(Layer) /\ SameShape(cleared, data')
        /\ \A j \in DOMAIN cleared : j # i => data'[j] = cleared[j]
    BY <1>2, <1>3, <1>7, <2>1, WriteAtEffect
  <2>3. data'[i].fields = p.writes
    BY <1>2, <1>3, <1>7, <1>8, <2>1, PlainWriteFresh
  <2> QED  BY <1>7, <2>1, <2>2, <2>3 DEF SameShape
<1>10. phase[m] \in Active
  BY <1>1 DEF Active
<1>11. Placed(data', log', place)
  BY <1>1, <1>2, <1>3, <1>5, <1>9, <1>10, RewriteKeepsPlaced
<1>12. phase'[m] = q /\ \A n \in Mutations : n # m => phase'[n] = phase[n]
  BY <1>1, <1>4 DEF Inv, TypeOK
<1>13. LogShape'
  BY <1>1, <1>2, <1>3, <1>4, <1>12, ResponseIsHook, HookKeepsShape DEF PlainPatch
<1>14. Tells(data', log', place)
  BY <1>11 DEF Placed
<1>15. \A n \in Mutations : phase'[n] \in Active => Owns(data', log', place, n, layerOf'[n])
  BY <1>1, <1>10, <1>11, <1>12 DEF Placed
<1>16. LogInv'
  BY <1>13, <1>14, <1>15, PlacedNext
<1> QED  BY <1>2, <1>3, <1>4, <1>16

\* A failed mutation takes back what it said, and its layer joins the others.
LEMMA CatchKeepsLog ==
  ASSUME Plain, Bridge, NEW m \in Mutations, phase[m] \in Active, HasOwnLayer(m), Catch(m)
  PROVE  /\ LogInv'
         /\ \E p \in Patch : log' = LogRewrite(m, p)
         /\ phase' = [phase EXCEPT ![m] = "rolledback"]
<1> DEFINE i == OwnLayer(m)
           cleared == ClearAt(data, i)
<1>1. Inv /\ LogShape /\ NoDeletes(data) /\ layerOf' = layerOf
  BY DEF Bridge, LogInv, Catch
<1>2. /\ data' = ResolveAt(cleared, i) /\ log' = LogRewrite(m, NoPatch)
      /\ phase' = [phase EXCEPT ![m] = "rolledback"]
  BY DEF Catch, GoTo
<1>3. NoPatch \in Patch /\ NoPatch.deletes = {} /\ NoPatch.writes = NoContents
  BY NoPatchType DEF NoPatch
<1>4. PICK place : Placed(data, log, place)
  BY DEF Bridge, LogInv
<1>5. data \in Seq(Layer) /\ i \in DOMAIN data /\ log \in Seq(Entry)
  BY <1>1, InvSorted, OwnLayerFound DEF Inv, TypeOK, Entry
<1>6. /\ cleared \in Seq(Layer) /\ SameShape(data, cleared) /\ NoDeletes(cleared)
      /\ \A j \in DOMAIN data : j # i => cleared[j] = data[j]
  BY <1>1, <1>5, ClearAtEffect, ClearAtDeletesNothing
<1>7. cleared[i].fields = NoPatch.writes
  <2>1. data[i] \in Layer
    BY <1>5
  <2> QED  BY <1>3, <1>5, <2>1 DEF ClearAt, Layer
<1> HIDE DEF cleared
<1>8. Placed(cleared, log', place)
  BY <1>1, <1>2, <1>3, <1>4, <1>6, <1>7, RewriteKeepsPlaced
<1>9. log' \in Seq(Entry)
  BY <1>2, <1>3, <1>5, LogRewriteType
<1>10. PICK next :
         /\ Tells(data', log', next)
         /\ \A n \in Mutations : n # m /\ phase[n] \in Active
              => Owns(data', log', next, n, layerOf[n])
  BY <1>1, <1>2, <1>6, <1>8, <1>9, ResolveKeepsPlaced
<1>11. phase'[m] = "rolledback" /\ \A n \in Mutations : n # m => phase'[n] = phase[n]
  BY <1>1, <1>2 DEF Inv, TypeOK
<1>12. LogShape'
  BY <1>1, <1>2, <1>3, <1>11, CatchIsHook, HookKeepsShape
<1>13. \A n \in Mutations : phase'[n] \in Active => Owns(data', log', next, n, layerOf'[n])
  BY <1>1, <1>10, <1>11 DEF Active
<1>14. LogInv'
  BY <1>10, <1>12, <1>13, PlacedNext
<1> QED  BY <1>2, <1>3, <1>14

\* The merge of a layer that succeeded leaves the log as it is.
LEMMA CommitKeepsLog ==
  ASSUME Plain, Bridge, NEW m \in Mutations, EndCommits(m)
  PROVE  LogInv' /\ log' = log /\ phase' = [phase EXCEPT ![m] = "committed"]
<1>1. /\ Inv /\ LogShape /\ NoDeletes(data) /\ layerOf' = layerOf /\ HasOwnLayer(m)
      /\ phase[m] \in Active
  BY DEF Bridge, LogInv, EndCommits, Active
<1>2. /\ data' = ResolveAt(data, OwnLayer(m)) /\ log' = log
      /\ phase' = [phase EXCEPT ![m] = "committed"]
  BY DEF EndCommits, GoTo
<1>3. PICK place : Placed(data, log, place)
  BY DEF Bridge, LogInv
<1>4. data \in Seq(Layer) /\ log \in Seq(Entry) /\ SameShape(data, data)
  BY <1>1, InvSorted DEF Inv, TypeOK, Entry, SameShape
<1>5. PICK next :
         /\ Tells(data', log, next)
         /\ \A n \in Mutations : n # m /\ phase[n] \in Active
              => Owns(data', log, next, n, layerOf[n])
  BY <1>1, <1>2, <1>3, <1>4, ResolveKeepsPlaced
<1>6. phase'[m] = "committed" /\ \A n \in Mutations : n # m => phase'[n] = phase[n]
  BY <1>1, <1>2 DEF Inv, TypeOK
<1>7. LogShape'
  BY <1>1, <1>2, <1>6, EndCommitsIsHook, HookKeepsShape
<1>8. \A n \in Mutations : phase'[n] \in Active => Owns(data', log', next, n, layerOf'[n])
  BY <1>1, <1>2, <1>5, <1>6 DEF Active
<1>9. LogInv'
  BY <1>2, <1>5, <1>7, <1>8, PlacedNext
<1> QED  BY <1>2, <1>9

\* A mutation begins with an empty layer and an empty entry.
LEMMA StartKeepsLog ==
  ASSUME Plain, Bridge, NEW m \in Mutations, Start(m)
  PROVE  LogInv'
<1> DEFINE t == Len(data) + 1
           n == Len(log) + 1
           entry == [owner |-> m, patch |-> NoPatch]
           layer == NewLayer(idCount, TRUE)
<1>1. Inv /\ LogShape /\ phase[m] = "idle"
  BY DEF Bridge, LogInv, Start
<1>2. /\ data' = Append(data, layer) /\ log' = Append(log, entry)
      /\ layerOf' = [layerOf EXCEPT ![m] = idCount]
  BY DEF Start, LogAppend
<1>3. PICK q \in {"marshalling", "inflight"} : phase' = [phase EXCEPT ![m] = q]
  BY DEF Start, GoTo
<1>4. PICK place : Placed(data, log, place)
  BY DEF Bridge, LogInv
<1>5. /\ data \in Seq(Layer) /\ log \in Seq(Entry) /\ idCount \in Nat
      /\ phase \in [Mutations -> Phases] /\ layerOf \in [Mutations -> Nat]
  BY <1>1, InvSorted DEF Inv, TypeOK, Entry
<1>6. entry \in Entry /\ entry.owner = m /\ \A c \in Cell : entry.patch.writes[c] = Absent
  BY NoPatchType DEF Entry, NoPatch, NoContents
<1>7. layer \in Layer /\ layer.id = idCount /\ \A c \in Cell : layer.fields[c] = Absent
  BY <1>5, NewLayerType DEF NewLayer, NoContents
<1>7a. entry.patch.deletes = {}
  BY DEF NoPatch
<1> HIDE DEF entry, layer
<1>8. /\ data' \in Seq(Layer) /\ Len(data') = t /\ t \in Nat /\ data'[t] = layer
      /\ DOMAIN data' = 1 .. t /\ DOMAIN data = 1 .. t - 1
      /\ \A j \in DOMAIN data : data'[j] = data[j]
  BY <1>2, <1>5, <1>7
<1>9. /\ log' \in Seq(Entry) /\ Len(log') = n /\ n \in Nat /\ n > 0 /\ log'[n] = entry
      /\ DOMAIN log' = 1 .. n /\ DOMAIN log = 1 .. n - 1
      /\ \A a \in DOMAIN log : log'[a] = log[a]
  BY <1>2, <1>5, <1>6
<1>10. /\ phase'[m] = q /\ layerOf'[m] = idCount
       /\ \A o \in Mutations : o # m => phase'[o] = phase[o] /\ layerOf'[o] = layerOf[o]
  BY <1>2, <1>3, <1>5
<1>11. PICK next : /\ Tells(data', log', next)
                   /\ \A a \in DOMAIN log : next[a] = place[a]
                   /\ next[n] = t
  <2>1. Tells(data, log, place)
    BY <1>4 DEF Placed
  <2>2. /\ data' # <<>> /\ Len(data') \in {Len(data), Len(data) + 1}
        /\ \A j \in DOMAIN data : j # Len(data') => data'[j].fields = data[j].fields
    BY <1>8
  <2>3. \A c \in Cell : data'[Len(data')].fields[c]
          = IF entry.patch.writes[c] # Absent THEN entry.patch.writes[c]
            ELSE IF Len(data') \in DOMAIN data THEN data[Len(data')].fields[c] ELSE Absent
    BY <1>6, <1>7, <1>8
  <2>4. \E next : /\ Tells(data', Append(log, entry), next)
                  /\ \A a \in DOMAIN log : next[a] = place[a]
                  /\ next[Len(log) + 1] = Len(data')
    <3>1. data \in Seq(Layer) /\ log \in Seq(Entry) /\ entry \in Entry /\ data' \in Seq(Layer)
      BY <1>5, <1>6, <1>8
    <3> HIDE DEF t, n
    <3> QED  BY <2>1, <2>2, <2>3, <3>1, TellsAppend
  <2> QED  BY <1>2, <1>8, <2>4
<1> HIDE DEF t, n
<1>12. \A a \in DOMAIN log' : a = n \/ a \in DOMAIN log
  BY <1>9
<1>13. \A a \in DOMAIN log : log[a].owner # m
  BY <1>1 DEF LogShape
<1>14. \A a \in DOMAIN log : place[a] \in DOMAIN data /\ data[place[a]].id < idCount
  <2>1. \A j \in DOMAIN data : data[j].id < idCount
    BY <1>1, <1>5 DEF Inv, IdsGrow
  <2> QED  BY <1>4, <2>1 DEF Placed, Tells
<1>15. \A a \in DOMAIN log : data'[next[a]] = data[place[a]] /\ log'[a] = log[a]
  BY <1>8, <1>9, <1>11, <1>14
<1>16. ASSUME NEW o \in Mutations, phase'[o] \in Active
       PROVE  Owns(data', log', next, o, layerOf'[o])
  <2>1. CASE o = m
    <3>1. \A a \in DOMAIN log : log'[a].owner # m /\ data'[next[a]].id # idCount
      <4>1. \A a \in DOMAIN log : data[place[a]].id # idCount
        BY <1>5, <1>14
      <4> QED  BY <1>13, <1>15, <4>1
    <3>2. log'[n].owner = m /\ data'[next[n]].id = idCount
      BY <1>6, <1>7, <1>8, <1>9, <1>11
    <3> QED  BY <1>10, <1>12, <2>1, <3>1, <3>2 DEF Owns
  <2>2. CASE o # m
    <3>1. Owns(data, log, place, o, layerOf[o])
      BY <1>4, <1>10, <1>16, <2>2 DEF Placed
    <3>2. \A a \in DOMAIN log : log'[a].owner = o <=> data'[next[a]].id = layerOf[o]
      BY <1>15, <3>1 DEF Owns
    <3>3. log'[n].owner # o /\ data'[next[n]].id # layerOf[o]
      <4>1. layerOf[o] < idCount /\ layerOf[o] \in Nat
        BY <1>1, <1>5 DEF Inv, Owners
      <4>2. layerOf[o] # idCount
        BY <1>5, <4>1
      <4> QED  BY <1>6, <1>7, <1>8, <1>9, <1>11, <2>2, <4>2
    <3> QED  BY <1>10, <1>12, <2>2, <3>2, <3>3 DEF Owns
  <2> QED  BY <2>1, <2>2
<1>17. NoneDeletes(log')
  BY <1>1, <1>7a, <1>9, <1>12 DEF LogShape, NoneDeletes
<1>18. OneEach(log')
  <2>1. \A a \in DOMAIN log : log'[a].owner = log[a].owner /\ log'[a].owner # m
    BY <1>9, <1>13
  <2>2. log'[n].owner = m
    BY <1>6, <1>9
  <2> QED  BY <1>1, <1>12, <2>1, <2>2 DEF LogShape, OneEach
<1>19. ASSUME NEW a \in DOMAIN log', NEW o \in Mutations, log'[a].owner = o
       PROVE  /\ phase'[o] # "idle"
              /\ phase'[o] = "marshalling" => \A c \in Cell : Word(log', a, c) = Absent
  <2>1. CASE a = n
    BY <1>6, <1>9, <1>10, <1>19, <2>1 DEF Word
  <2>2. CASE a \in DOMAIN log
    <3>1. log'[a] = log[a] /\ o # m
      BY <1>9, <1>13, <1>19, <2>2
    <3> QED  BY <1>1, <1>10, <1>19, <2>2, <3>1 DEF LogShape, Word
  <2> QED  BY <1>12, <2>1, <2>2
<1>20. ASSUME NEW o \in Mutations, phase'[o] \in Active, HasOwnLayer(o)'
       PROVE  \E a \in DOMAIN log' : log'[a].owner = o
  <2>1. CASE o = m
    <3>1. n \in DOMAIN log'
      BY <1>9
    <3> QED  BY <1>6, <1>9, <2>1, <3>1
  <2>2. CASE o # m
    <3>1. PICK k \in DOMAIN data' : data'[k].id = layerOf[o]
      BY <1>10, <1>20, <2>2 DEF HasOwnLayer, HasLayer
    <3>2. layerOf[o] < idCount /\ layerOf[o] \in Nat
      BY <1>1, <1>5 DEF Inv, Owners
    <3>3. layerOf[o] # idCount
      BY <1>5, <3>2
    <3>4. k # t
      BY <1>7, <1>8, <3>1, <3>3
    <3>5. k \in DOMAIN data
      BY <1>8, <3>4
    <3>6. HasOwnLayer(o) /\ phase[o] \in Active
      BY <1>8, <1>10, <1>20, <2>2, <3>1, <3>5 DEF HasOwnLayer, HasLayer
    <3>7. PICK a \in DOMAIN log : log[a].owner = o
      BY <1>1, <3>6 DEF LogShape
    <3>8. a \in DOMAIN log'
      BY <1>9
    <3> QED  BY <1>9, <3>7, <3>8
  <2> QED  BY <2>1, <2>2
<1>21. LogShape'
  BY <1>17, <1>18, <1>19, <1>20 DEF LogShape, NoneDeletes, OneEach, Word
<1> QED  BY <1>11, <1>16, <1>21, PlacedNext

\* A query's entry lies in the layer on top, which is no mutation's in flight.
LEMMA QueryKeepsLog ==
  ASSUME Plain, Bridge, QueryWrite
  PROVE  LogInv' /\ \E p \in Patch : log' = Append(log, [owner |-> Query, patch |-> p])
<1> DEFINE stack == WithTop(data, idCount)
           t == Len(stack)
           n == Len(log) + 1
<1>1. Inv /\ LogShape /\ UNCHANGED <<phase, layerOf>>
  BY DEF Bridge, LogInv, QueryWrite
<1>2. PICK p \in QueryPatches :
        data' = WriteAt(stack, t, p) /\ log' = Append(log, [owner |-> Query, patch |-> p])
  BY DEF QueryWrite, LogAppend
<1>3. p \in Patch /\ PlainPatch(p)
  BY MutationAssumption DEF Plain
<1>4. PICK place : Placed(data, log, place)
  BY DEF Bridge, LogInv
<1>5. /\ data \in Seq(Layer) /\ log \in Seq(Entry) /\ idCount \in Nat
      /\ layerOf \in [Mutations -> Nat]
  BY <1>1, InvSorted DEF Inv, TypeOK, Entry
<1> DEFINE entry == [owner |-> Query, patch |-> p]
<1>6. entry \in Entry /\ entry.owner = Query /\ entry.patch = p
  BY <1>3 DEF Entry
<1>7. /\ stack \in Seq(Layer) /\ t \in DOMAIN stack
      /\ t = IF NeedsTop(data) THEN Len(data) + 1 ELSE Len(data)
      /\ \A j \in DOMAIN data : stack[j] = data[j]
      /\ NeedsTop(data) => stack[Len(data) + 1] = NewLayer(idCount, FALSE)
  BY <1>5, WithTopEffect
<1>8. /\ NewLayer(idCount, FALSE).id = idCount
      /\ \A c \in Cell : NewLayer(idCount, FALSE).fields[c] = Absent
  BY DEF NewLayer, NoContents
<1>9. DOMAIN stack = 1 .. t /\ t \in Nat /\ t > 0
  BY <1>7
<1> HIDE DEF entry, stack, t
<1>10. /\ data' \in Seq(Layer) /\ SameShape(stack, data')
       /\ \A j \in DOMAIN stack : j # t => data'[j] = stack[j]
       /\ \A c \in Cell : data'[t].fields[c]
            = IF p.writes[c] # Absent THEN p.writes[c] ELSE stack[t].fields[c]
  BY <1>2, <1>3, <1>7, WriteAtEffect, PlainWrite
<1>11. /\ log' \in Seq(Entry) /\ Len(log') = n /\ n \in Nat /\ n > 0 /\ log'[n] = entry
       /\ DOMAIN log' = 1 .. n /\ DOMAIN log = 1 .. n - 1
       /\ \A a \in DOMAIN log : log'[a] = log[a]
  BY <1>2, <1>5, <1>6 DEF entry
<1>12. Len(data') = t /\ DOMAIN data' = 1 .. t
  BY <1>9, <1>10 DEF SameShape, t
<1>13. DOMAIN data = 1 .. Len(data) /\ Len(data) \in Nat
  BY <1>5
<1>14. \A j \in DOMAIN data : j \in DOMAIN data' /\ data'[j].id = data[j].id
  BY <1>7, <1>9, <1>10, <1>12, <1>13 DEF SameShape
<1>15. PICK next : /\ Tells(data', log', next)
                   /\ \A a \in DOMAIN log : next[a] = place[a]
                   /\ next[n] = t
  <2>1. Tells(data, log, place)
    BY <1>4 DEF Placed
  <2>2. data' # <<>> /\ Len(data') \in {Len(data), Len(data) + 1}
    BY <1>7, <1>9, <1>10, <1>12
  <2>3. \A j \in DOMAIN data : j # Len(data') => data'[j].fields = data[j].fields
    BY <1>7, <1>9, <1>10, <1>12, <1>13
  <2>4. \A c \in Cell : data'[Len(data')].fields[c]
          = IF entry.patch.writes[c] # Absent THEN entry.patch.writes[c]
            ELSE IF Len(data') \in DOMAIN data THEN data[Len(data')].fields[c] ELSE Absent
    <3>1. CASE NeedsTop(data)
      <4>1. t = Len(data) + 1 /\ t \notin DOMAIN data
        BY <1>7, <1>13, <3>1
      <4>2. \A c \in Cell : stack[t].fields[c] = Absent
        BY <1>7, <1>8, <3>1, <4>1
      <4> QED  BY <1>6, <1>10, <1>12, <4>1, <4>2
    <3>2. CASE ~NeedsTop(data)
      <4>1. t = Len(data) /\ t \in DOMAIN data
        BY <1>7, <1>9, <1>13, <3>2
      <4>2. stack[t] = data[t]
        BY <1>7, <4>1
      <4> QED  BY <1>6, <1>10, <1>12, <4>1, <4>2
    <3> QED  BY <3>1, <3>2
  <2>5. \E next : /\ Tells(data', Append(log, entry), next)
                  /\ \A a \in DOMAIN log : next[a] = place[a]
                  /\ next[Len(log) + 1] = Len(data')
    <3>1. data \in Seq(Layer) /\ log \in Seq(Entry) /\ entry \in Entry /\ data' \in Seq(Layer)
      BY <1>5, <1>6, <1>10
    <3> HIDE DEF n
    <3> QED  BY <2>1, <2>2, <2>3, <2>4, <3>1, TellsAppend
  <2> QED  BY <1>2, <1>12, <2>5 DEF entry
<1> HIDE DEF n
<1>16. \A a \in DOMAIN log' : a = n \/ a \in DOMAIN log
  BY <1>11
<1>17. \A a \in DOMAIN log : place[a] \in DOMAIN data
  BY <1>4 DEF Placed, Tells
<1>18. Query \notin Mutations
  BY MutationAssumption
<1>19. ASSUME NEW o \in Mutations, phase'[o] \in Active
       PROVE  Owns(data', log', next, o, layerOf'[o])
  <2>1. Owns(data, log, place, o, layerOf[o]) /\ phase[o] \in Active
    BY <1>1, <1>4, <1>19 DEF Placed
  <2>2. \A a \in DOMAIN log : log'[a].owner = o <=> data'[next[a]].id = layerOf[o]
    BY <1>11, <1>14, <1>15, <1>17, <2>1 DEF Owns
  <2>3. data'[t].id # layerOf[o]
    <3>1. data'[t].id = stack[t].id
      BY <1>7, <1>10 DEF SameShape
    <3>2. CASE NeedsTop(data)
      <4>1. stack[t].id = idCount
        BY <1>7, <1>8, <3>2
      <4>2. layerOf[o] < idCount /\ layerOf[o] \in Nat
        BY <1>1, <1>5 DEF Inv, Owners
      <4> QED  BY <1>5, <3>1, <4>1, <4>2
    <3>3. CASE ~NeedsTop(data)
      <4>1. t = Len(data) /\ t \in DOMAIN data /\ ~data[t].optimistic
        BY <1>7, <1>9, <1>13, <3>3 DEF NeedsTop
      <4> QED  BY <1>1, <1>7, <2>1, <3>1, <4>1, ActiveLayer
    <3> QED  BY <3>2, <3>3
  <2>4. log'[n].owner # o /\ next[n] = t
    BY <1>6, <1>11, <1>15, <1>18
  <2> QED  BY <1>1, <1>16, <2>2, <2>3, <2>4 DEF Owns
<1>20. NoneDeletes(log')
  BY <1>1, <1>3, <1>6, <1>11, <1>16 DEF LogShape, NoneDeletes, PlainPatch
<1>21. OneEach(log')
  <2>1. \A a \in DOMAIN log : log'[a].owner = log[a].owner
    BY <1>11
  <2>2. log'[n].owner = Query
    BY <1>6, <1>11
  <2> QED  BY <1>1, <1>16, <2>1, <2>2 DEF LogShape, OneEach
<1>22. ASSUME NEW a \in DOMAIN log', NEW o \in Mutations, log'[a].owner = o
       PROVE  /\ phase'[o] # "idle"
              /\ phase'[o] = "marshalling" => \A c \in Cell : Word(log', a, c) = Absent
  <2>1. a # n
    BY <1>6, <1>11, <1>18, <1>22
  <2>2. a \in DOMAIN log /\ log'[a] = log[a]
    BY <1>11, <1>16, <2>1
  <2> QED  BY <1>1, <1>22, <2>2 DEF LogShape, Word
<1>23. ASSUME NEW o \in Mutations, phase'[o] \in Active, HasOwnLayer(o)'
       PROVE  \E a \in DOMAIN log' : log'[a].owner = o
  <2>1. PICK k \in DOMAIN data' : data'[k].id = layerOf[o]
    BY <1>1, <1>23 DEF HasOwnLayer, HasLayer
  <2>2. k \in DOMAIN data /\ data[k].id = layerOf[o]
    <3>1. k = t => data'[t].id = layerOf[o]
      BY <2>1
    <3>2. data'[t].id # layerOf[o]
      <4>1. next[n] = t /\ log'[n].owner # o /\ n \in DOMAIN log'
        BY <1>6, <1>11, <1>15, <1>18
      <4> QED  BY <1>1, <1>19, <1>23, <4>1 DEF Owns
    <3>3. k \in DOMAIN data
      BY <1>7, <1>12, <1>13, <2>1, <3>2
    <3> QED  BY <1>14, <2>1, <3>3
  <2>3. HasOwnLayer(o) /\ phase[o] \in Active
    BY <1>1, <1>23, <2>2 DEF HasOwnLayer, HasLayer
  <2>4. PICK a \in DOMAIN log : log[a].owner = o
    BY <1>1, <2>3 DEF LogShape
  <2> QED  BY <1>11, <2>4
<1>24. LogShape'
  BY <1>20, <1>21, <1>22, <1>23 DEF LogShape, NoneDeletes, OneEach, Word
<1>25. LogInv'
  BY <1>15, <1>19, <1>24, PlacedNext
<1> QED  BY <1>2, <1>3, <1>25

\* A step that leaves the stack, the log and the layers' owners as they are.
LEMMA StutterKeepsLog ==
  ASSUME LogInv, UNCHANGED <<data, phase, layerOf, log>>
  PROVE  LogInv'
<1>1. LogShape'
  BY DEF LogInv, LogShape, NoneDeletes, OneEach, Word, HasOwnLayer, HasLayer
<1>2. PICK place : Placed(data, log, place)
  BY DEF LogInv
<1>3. Tells(data', log', place)
  BY <1>2 DEF Placed
<1>4. \A n \in Mutations : phase'[n] \in Active => Owns(data', log', place, n, layerOf'[n])
  BY <1>2 DEF Placed
<1> QED  BY <1>1, <1>3, <1>4, PlacedNext

\* A mutation whose layer a reset took has no entry either.
LEMMA GoneKeepsLog ==
  ASSUME Bridge, NEW m \in Mutations, LayerGone(m)
  PROVE  LogInv' /\ log' = log /\ phase' = [phase EXCEPT ![m] = "rejected"]
<1>1. /\ Inv /\ LogShape /\ UNCHANGED <<data, layerOf, log>>
      /\ phase' = [phase EXCEPT ![m] = "rejected"]
  BY DEF Bridge, LogInv, LayerGone, GoTo
<1>2. phase'[m] = "rejected" /\ \A n \in Mutations : n # m => phase'[n] = phase[n]
  BY <1>1 DEF Inv, TypeOK
<1>3. LogShape'
  BY <1>1, <1>2, IdleStepIsHook, HookKeepsShape
<1>4. PICK place : Placed(data, log, place)
  BY DEF Bridge, LogInv
<1>5. Tells(data', log', place)
  BY <1>1, <1>4 DEF Placed
<1>6. \A n \in Mutations : phase'[n] \in Active => Owns(data', log', place, n, layerOf'[n])
  BY <1>1, <1>2, <1>4 DEF Placed, Active
<1>7. LogInv'
  BY <1>3, <1>5, <1>6, PlacedNext
<1> QED  BY <1>1, <1>7

\* A reset empties the stack and the log.
LEMMA ResetKeepsLog ==
  ASSUME Reset
  PROVE  LogInv'
<1>1. data' = <<>> /\ log' = <<>>
  BY DEF Reset
<1>2. DOMAIN data' = {} /\ DOMAIN log' = {}
  BY <1>1
<1>3. LogShape'
  BY <1>2 DEF LogShape, NoneDeletes, OneEach, HasOwnLayer, HasLayer
<1> DEFINE place == [a \in {} |-> a]
<1>4. Tells(data', log', place)
  BY <1>2 DEF Tells, Ordered
<1>5. \A n \in Mutations : phase'[n] \in Active => Owns(data', log', place, n, layerOf'[n])
  BY <1>2 DEF Owns
<1> HIDE DEF place
<1> QED  BY <1>3, <1>4, <1>5, PlacedNext

\* The actions that fail or abort on their own do not happen.
LEMMA PlainSteps ==
  ASSUME Plain, Bridge, NEW m \in Mutations, Step(m) \/ Abort(m)
  PROVE  \/ WriteOptimistic(m) \/ Respond(m) \/ EndCommits(m) \/ LayerGone(m)
         \/ phase[m] \in Active /\ HasOwnLayer(m) /\ Catch(m)
<1>1. aborted = {} /\ ~Faulty /\ Abortable = {}
  BY DEF Bridge, Owned, Plain
<1>2. ~MarshalFails(m) /\ ~ResponseUnwritable(m) /\ ~Rejected(m) /\ ~Abort(m)
  BY <1>1 DEF MarshalFails, ResponseUnwritable, Rejected, Abort
<1>3. NetworkFails(m) \/ EndRollsBack(m) \/ EndHookFails(m)
        => phase[m] \in Active /\ HasOwnLayer(m) /\ Catch(m)
  BY DEF NetworkFails, EndRollsBack, EndHookFails, Active
<1> QED  BY <1>2, <1>3 DEF Step

\* Every step keeps what ties the log to the layers.
LEMMA LogNext ==
  ASSUME Plain, Bridge, [Next]_vars
  PROVE  LogInv'
<1>1. LogInv
  BY DEF Bridge
<1>2. ASSUME NEW m \in Mutations, Start(m) PROVE LogInv'
  BY <1>2, StartKeepsLog
<1>3. ASSUME NEW m \in Mutations, Step(m) \/ Abort(m) PROVE LogInv'
  BY <1>3, PlainSteps, OptimisticKeepsLog, RespondKeepsLog, CommitKeepsLog, CatchKeepsLog,
     GoneKeepsLog
<1>4. CASE QueryWrite
  BY <1>4, QueryKeepsLog
<1>5. CASE Reset
  BY <1>5, ResetKeepsLog
<1>6. CASE Subscribe \/ UNCHANGED vars
  BY <1>1, <1>6, StutterKeepsLog DEF Subscribe, vars
<1> QED  BY <1>2, <1>3, <1>4, <1>5, <1>6 DEF Next

-----------------------------------------------------------------------------
(* The refinement                                                           *)

Open == {m \in Mutations : phase[m] \in Active}

\* What is read is what the log says, before a step and after it.
LEMMA BridgeView ==
  ASSUME Bridge
  PROVE  Display(data) = Patches!View(log)
<1>1. data \in Seq(Layer) /\ log \in Seq(Entry) /\ NoDeletes(data) /\ NoneDeletes(log)
  BY DEF Bridge, Inv, TypeOK, Entry, LogInv, LogShape
<1>2. PICK place : Tells(data, log, place)
  BY DEF Bridge, LogInv, Placed
<1> QED  BY <1>1, <1>2, TellsView

\* A patch is a patch.
LEMMA SamePatch == Patches!Patch = Patch
BY DEF Patches!Patch, Patches!Cell, Patch, Contents, Cell

\* A hook of m that leaves m in flight, or settles it.
LEMMA OpenNext ==
  ASSUME Inv, NEW m \in Mutations, NEW q, phase' = [phase EXCEPT ![m] = q]
  PROVE  Open' = IF q \in Active THEN Open \cup {m} ELSE Open \ {m}
<1>1. phase'[m] = q /\ \A n \in Mutations : n # m => phase'[n] = phase[n]
  BY DEF Inv, TypeOK
<1> QED  BY <1>1 DEF Open

\* Every step of the cache is a step of the log, or changes nothing that is seen of it.
LEMMA StepImplements ==
  ASSUME Plain, Bridge, Bridge', [Next]_vars
  PROVE  [Patches!Next]_(Patches!vars)
<1>1. Display(data) = Patches!View(log) /\ Inv
  BY BridgeView DEF Bridge
<1>2. Display(data)' = Patches!View(log')
  <2>1. data' \in Seq(Layer) /\ log' \in Seq(Entry) /\ NoDeletes(data') /\ NoneDeletes(log')
    BY DEF Bridge, Inv, TypeOK, Entry, LogInv, LogShape, NoDeletes, NoneDeletes
  <2>2. PICK place : Tells(data', log', place)
    BY DEF Bridge, LogInv, Placed, Tells, Ordered, Faithful, Word
  <2>3. Patches!View(log') = Display(data')
    BY <2>1, <2>2, TellsView
  <2> QED  BY <2>3 DEF Display, Lookup, Decides, Stops
<1> DEFINE Moves == \/ \E m \in Mutations :
                         Patches!Begin(m) \/ Patches!Rewrite(m) \/ Patches!Settle(m)
                    \/ Patches!Write
                    \/ Patches!Reset
           Rests == log' = log /\ Open' = Open /\ Display(data)' = Display(data)
<1>3. SUFFICES Moves \/ Rests
  <2>1. Moves => Patches!Next
    BY <1>2 DEF Patches!Next
  <2>2. Rests => UNCHANGED Patches!vars
    BY DEF Patches!vars, Open
  <2> QED  BY <2>1, <2>2
<1>4. ASSUME NEW m \in Mutations, Start(m) PROVE Patches!Begin(m)
  <2>1. PICK q \in {"marshalling", "inflight"} : phase' = [phase EXCEPT ![m] = q]
    BY <1>4 DEF Start, GoTo
  <2>2. Open' = Open \cup {m} /\ m \notin Open
    BY <1>1, <1>4, <2>1, OpenNext DEF Open, Start, Active
  <2>3. log' = Append(log, [owner |-> m, patch |-> NoPatch])
    BY <1>4 DEF Start, LogAppend
  <2>4. /\ NoPatch \in Patches!Patch /\ NoPatch.deletes = {}
        /\ \A c \in Patches!Cell : NoPatch.writes[c] = Absent
    BY NoPatchType, SamePatch DEF NoPatch, NoContents, Patches!Cell, Cell
  <2> QED  BY <2>2, <2>3, <2>4 DEF Patches!Begin, Open
<1>5. ASSUME NEW m \in Mutations, NEW p \in Patch, NEW q, m \in Open,
             log' = LogRewrite(m, p), phase' = [phase EXCEPT ![m] = q]
      PROVE  Patches!Rewrite(m)
  <2>1. Open' \in {Open, Open \ {m}}
    <3>1. Inv /\ phase' = [phase EXCEPT ![m] = q]
      BY <1>1, <1>5
    <3>2. Open' = IF q \in Active THEN Open \cup {m} ELSE Open \ {m}
      BY <3>1, OpenNext
    <3>3. Open \cup {m} = Open
      BY <1>5
    <3> QED  BY <3>2, <3>3
  <2>2. p \in Patches!Patch
    BY <1>5, SamePatch
  <2> QED  BY <1>5, <2>1, <2>2 DEF Patches!Rewrite, Open, LogRewrite
<1>6. ASSUME NEW m \in Mutations, NEW q, q \notin Active, m \in Open,
             log' = log, phase' = [phase EXCEPT ![m] = q]
      PROVE  Patches!Settle(m)
  <2>1. Inv /\ phase' = [phase EXCEPT ![m] = q]
    BY <1>1, <1>6
  <2>2. Open' = Open \ {m}
    BY <1>6, <2>1, OpenNext
  <2> QED  BY <1>6, <2>2 DEF Patches!Settle, Open
<1>7. ASSUME NEW m \in Mutations, Step(m) \/ Abort(m)
      PROVE  Patches!Rewrite(m) \/ Patches!Settle(m)
  <2>1. m \in Open
    BY <1>1, <1>7, StepIsHook DEF Open, Hook
  <2>2. CASE WriteOptimistic(m)
    BY <1>5, <2>1, <2>2, OptimisticKeepsLog
  <2>3. CASE Respond(m)
    BY <1>5, <2>1, <2>3, RespondKeepsLog
  <2>4. CASE EndCommits(m)
    <3>1. "committed" \notin Active
      BY DEF Active
    <3> QED  BY <1>6, <2>1, <2>4, <3>1, CommitKeepsLog
  <2>5. CASE LayerGone(m)
    <3>1. "rejected" \notin Active
      BY DEF Active
    <3> QED  BY <1>6, <2>1, <2>5, <3>1, GoneKeepsLog
  <2>6. CASE phase[m] \in Active /\ HasOwnLayer(m) /\ Catch(m)
    BY <1>5, <2>1, <2>6, CatchKeepsLog
  <2> QED  BY <1>7, <2>2, <2>3, <2>4, <2>5, <2>6, PlainSteps
<1>8. CASE QueryWrite
  <2>1. PICK p \in Patch : log' = Append(log, [owner |-> Query, patch |-> p])
    BY <1>8, QueryKeepsLog
  <2>2. Open' = Open
    BY <1>8 DEF QueryWrite, Open
  <2> QED  BY <2>1, <2>2, SamePatch DEF Patches!Write, Open
<1>9. CASE Reset
  <2>1. log' = <<>> /\ Open' = Open
    BY <1>9 DEF Reset, Open
  <2> QED  BY <2>1 DEF Patches!Reset, Open
<1>10. CASE Subscribe \/ UNCHANGED vars
  <2>1. UNCHANGED <<data, phase, log>>
    BY <1>10 DEF Subscribe, vars
  <2>2. Display(data)' = Display(data) /\ Open' = Open
    BY <2>1 DEF Open, Display, Lookup, Decides, Stops
  <2> QED  BY <2>1, <2>2
<1> QED  BY <1>4, <1>7, <1>8, <1>9, <1>10 DEF Next

\* The layers implement the log of patches: where no operation deletes a record or says null of
\* a link, no abort fires and no hook throws on its data, what is read is at any time the last
\* thing said, in the order in which the operations began, for any number of overlapping
\* mutations and any order of their answers.
THEOREM ImplementsPatchLogHolds ==
  ASSUME Plain
  PROVE  Spec => ImplementsPatchLog
<1>1. Init => Bridge
  <2> SUFFICES ASSUME Init PROVE Bridge
    OBVIOUS
  <2>1. Inv /\ Owned /\ NoDeletes(data)
    BY InvInit DEF Init, Owned, NoDeletes
  <2>2. data = <<>> /\ log = <<>> /\ phase = [m \in Mutations |-> "idle"]
    BY DEF Init
  <2>3. DOMAIN data = {} /\ DOMAIN log = {}
    BY <2>2
  <2>4. LogShape
    BY <2>2, <2>3 DEF LogShape, NoneDeletes, OneEach, Active
  <2> DEFINE place == [a \in {} |-> a]
  <2>5. Placed(data, log, place)
    BY <2>2, <2>3 DEF Placed, Tells, Ordered, Active
  <2> HIDE DEF place
  <2> QED  BY <2>1, <2>4, <2>5 DEF Bridge, LogInv
<1>2. Bridge /\ [Next]_vars => Bridge'
  <2> SUFFICES ASSUME Bridge, [Next]_vars PROVE Bridge'
    OBVIOUS
  <2>1. LogInv'
    BY LogNext
  <2>2. Inv' /\ Owned'
    <3>1. Abortable = {} /\ Faulty = FALSE
      BY MutationAssumption DEF Plain
    <3>2. Inv /\ Owned
      BY DEF Bridge
    <3> QED  BY <3>1, <3>2, InvNext, OwnedNext
  <2>3. NoDeletes(data')
    BY NoDeletesNext DEF Bridge, Plain, PlainPatch, NothingDeletes
  <2> QED  BY <2>1, <2>2, <2>3 DEF Bridge, NoDeletes
<1>3. Init => Patches!Init
  <2> SUFFICES ASSUME Init PROVE Patches!Init
    OBVIOUS
  <2>1. log = <<>> /\ Open = {}
    BY DEF Init, Open, Active
  <2>2. Display(data) = Patches!View(<<>>)
    BY <1>1, <2>1, BridgeView
  <2> QED  BY <2>1, <2>2 DEF Patches!Init, Open
<1>4. Bridge /\ Bridge' /\ [Next]_vars => [Patches!Next]_(Patches!vars)
  BY StepImplements
<1> QED  BY <1>1, <1>2, <1>3, <1>4, PTL DEF Spec, ImplementsPatchLog, Patches!Spec
=============================================================================
