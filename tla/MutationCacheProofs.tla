------------------------ MODULE MutationCacheProofs -------------------------
(***************************************************************************)
(* Theorems about MutationCache, for every set of mutations, records,      *)
(* fields, values and patches, and every bound.                            *)
(***************************************************************************)
EXTENDS MutationCache, TLAPS

-----------------------------------------------------------------------------
(* What the operators of LayeredStorage do to a stack of layers, for every *)
(* stack.                                                                  *)

\* A stack whose ids grow towards the top.
Sorted(stack) ==
  \A i, j \in DOMAIN stack : i < j => stack[i].id < stack[j].id

\* No layer of the stack has deleted a record.
NoDeletes(stack) == \A i \in DOMAIN stack : stack[i].deleted = {}

\* Two stacks of the same height with the same ids and the same owners.
SameShape(stack, other) ==
  /\ Len(other) = Len(stack)
  /\ \A j \in DOMAIN stack : /\ other[j].id = stack[j].id
                             /\ other[j].optimistic = stack[j].optimistic

\* Every new layer is a layer, and it is empty.
LEMMA NewLayerType ==
  ASSUME NEW id \in Nat, NEW o \in BOOLEAN
  PROVE  NewLayer(id, o) \in Layer
BY StorageAssumption DEF NewLayer, Layer, NoContents, Contents

\* The empty patch is a patch.
LEMMA NoPatchType == NoPatch \in Patch
BY DEF NoPatch, Patch, NoContents, Contents

\* A read gives a value or says that there is none.
LEMMA LookupType ==
  ASSUME NEW stack \in Seq(Layer), NEW c \in Cell
  PROVE  Lookup(stack, c) \in Values \cup {Absent}
<1>1. CASE \E i \in DOMAIN stack : Decides(stack, i, c)
  <2>1. PICK i \in DOMAIN stack : i = CHOOSE k \in DOMAIN stack : Decides(stack, k, c)
    BY <1>1
  <2>2. stack[i] \in Layer
    OBVIOUS
  <2>3. stack[i].fields[c] \in Values \cup {Absent}
    BY <2>2 DEF Layer, Contents
  <2> QED  BY <1>1, <2>1, <2>3 DEF Lookup
<1>2. CASE ~\E i \in DOMAIN stack : Decides(stack, i, c)
  BY <1>2 DEF Lookup
<1> QED  BY <1>1, <1>2

\* What readers see of the whole cache has a value, or none, for each cell.
LEMMA DisplayType ==
  ASSUME NEW stack \in Seq(Layer)
  PROVE  Display(stack) \in Contents
BY LookupType DEF Display, Contents

\* A write changes what one layer holds and nothing else.
LEMMA WriteAtEffect ==
  ASSUME NEW stack \in Seq(Layer), NEW i \in DOMAIN stack, NEW p \in Patch
  PROVE  /\ WriteAt(stack, i, p) \in Seq(Layer)
         /\ SameShape(stack, WriteAt(stack, i, p))
         /\ \A j \in DOMAIN stack : j # i => WriteAt(stack, i, p)[j] = stack[j]
<1> DEFINE g == [c \in Cell |->
                   IF p.writes[c] = Absent \/ Skipped(stack, c, p.writes[c])
                     THEN stack[i].fields[c] ELSE p.writes[c]]
           layer == [stack[i] EXCEPT !.fields = g, !.deleted = stack[i].deleted \cup p.deletes]
<1>1. stack[i] \in Layer
  OBVIOUS
<1>2. g \in Contents
  BY <1>1 DEF Layer, Contents, Patch
<1>3. /\ layer \in Layer
      /\ layer.id = stack[i].id
      /\ layer.optimistic = stack[i].optimistic
  <2> HIDE DEF g
  <2> QED  BY <1>1, <1>2 DEF Layer, Patch
<1>4. WriteAt(stack, i, p) = [stack EXCEPT ![i] = layer]
  BY DEF WriteAt
<1> HIDE DEF layer
<1> QED  BY <1>3, <1>4 DEF SameShape

\* Clearing empties one layer and leaves the others alone.
LEMMA ClearAtEffect ==
  ASSUME NEW stack \in Seq(Layer), NEW i \in DOMAIN stack
  PROVE  /\ ClearAt(stack, i) \in Seq(Layer)
         /\ SameShape(stack, ClearAt(stack, i))
         /\ \A j \in DOMAIN stack : j # i => ClearAt(stack, i)[j] = stack[j]
<1> DEFINE layer == [stack[i] EXCEPT !.fields = NoContents, !.deleted = {}]
<1>1. stack[i] \in Layer
  OBVIOUS
<1>2. NoContents \in Contents
  BY DEF NoContents, Contents
<1>3. /\ layer \in Layer
      /\ layer.id = stack[i].id
      /\ layer.optimistic = stack[i].optimistic
  BY <1>1, <1>2 DEF Layer
<1>4. ClearAt(stack, i) = [stack EXCEPT ![i] = layer]
  BY DEF ClearAt
<1> HIDE DEF layer
<1> QED  BY <1>3, <1>4 DEF SameShape

\* A write that deletes nothing, and a clear, delete nothing.
LEMMA WriteAtDeletesNothing ==
  ASSUME NEW stack \in Seq(Layer), NEW i \in DOMAIN stack,
         NEW p \in Patch, p.deletes = {}, NoDeletes(stack)
  PROVE  NoDeletes(WriteAt(stack, i, p))
<1>1. \A j \in DOMAIN stack : WriteAt(stack, i, p)[j].deleted = {}
  <2>1. \A j \in DOMAIN stack : stack[j] \in Layer /\ stack[j].deleted = {}
    BY DEF NoDeletes
  <2> QED  BY <2>1 DEF WriteAt, Layer
<1>2. DOMAIN WriteAt(stack, i, p) = DOMAIN stack
  BY DEF WriteAt
<1> QED  BY <1>1, <1>2 DEF NoDeletes

\* A layer that is cleared (Layer.clear) holds no delete either.
LEMMA ClearAtDeletesNothing ==
  ASSUME NEW stack \in Seq(Layer), NEW i \in DOMAIN stack, NoDeletes(stack)
  PROVE  NoDeletes(ClearAt(stack, i))
<1>1. \A j \in DOMAIN stack : ClearAt(stack, i)[j].deleted = {}
  <2>1. \A j \in DOMAIN stack : stack[j] \in Layer /\ stack[j].deleted = {}
    BY DEF NoDeletes
  <2> QED  BY <2>1 DEF ClearAt, Layer
<1>2. DOMAIN ClearAt(stack, i) = DOMAIN stack
  BY DEF ClearAt
<1> QED  BY <1>1, <1>2 DEF NoDeletes

\* A layer found by its id is a layer of the stack with that id.
LEMMA IndexOfFinds ==
  ASSUME NEW stack \in Seq(Layer), NEW id, HasLayer(stack, id)
  PROVE  IndexOf(stack, id) \in DOMAIN stack /\ stack[IndexOf(stack, id)].id = id
BY DEF HasLayer, IndexOf

-----------------------------------------------------------------------------
(* Resolving                                                                *)

\* The merge of a run s .. e of committed layers, the whole run and nothing
\* but the run.
IsRun(stack, s, e) ==
  /\ s \in DOMAIN stack /\ e \in DOMAIN stack /\ s <= e
  /\ \A j \in s .. e : ~stack[j].optimistic
  /\ s > 1 => stack[s - 1].optimistic
  /\ e < Len(stack) => stack[e + 1].optimistic

\* In a stack where committed layers alternate with optimistic ones, resolving
\* layer i merges the run that i ends up in, which is at most three layers.
LEMMA ResolveMergesRun ==
  ASSUME NEW stack \in Seq(Layer), NEW i \in DOMAIN stack, Alternating(stack)
  PROVE  LET committed == [stack EXCEPT ![i].optimistic = FALSE]
             s == RunStart(committed, i)
             e == RunEnd(committed, s)
         IN  /\ committed \in Seq(Layer)
             /\ Len(committed) = Len(stack)
             /\ \A j \in DOMAIN stack :
                  /\ j # i => committed[j] = stack[j]
                  /\ committed[j].id = stack[j].id
                  /\ committed[j].fields = stack[j].fields
                  /\ committed[j].deleted = stack[j].deleted
             /\ IsRun(committed, s, e)
             /\ s <= i /\ i <= e /\ e <= s + 2
             /\ ResolveAt(stack, i) = Collapse(committed, s, e)
<1> DEFINE com == [stack EXCEPT ![i].optimistic = FALSE]
           layer == [stack[i] EXCEPT !.optimistic = FALSE]
           s == RunStart(com, i)
           e == RunEnd(com, s)
<1>1. stack[i] \in Layer
  OBVIOUS
<1>2. /\ layer \in Layer
      /\ layer.id = stack[i].id
      /\ layer.fields = stack[i].fields
      /\ layer.deleted = stack[i].deleted
      /\ ~layer.optimistic
  BY <1>1 DEF Layer
<1>3. com = [stack EXCEPT ![i] = layer]
  OBVIOUS
<1>4. /\ com \in Seq(Layer)
      /\ Len(com) = Len(stack)
      /\ DOMAIN com = DOMAIN stack
      /\ com[i] = layer
      /\ \A j \in DOMAIN stack : j # i => com[j] = stack[j]
  <2> HIDE DEF layer, com
  <2> QED  BY <1>2, <1>3
<1>5. \A j \in DOMAIN com : j # i => com[j].optimistic = stack[j].optimistic
  <2> HIDE DEF layer, com
  <2> QED  BY <1>4
<1>6. ~com[i].optimistic
  BY <1>2, <1>4
<1> HIDE DEF layer, com
<1>7. /\ s \in DOMAIN com /\ s \in {i - 1, i}
      /\ s = i - 1 => ~com[s].optimistic
      /\ s = i /\ i > 1 => com[i - 1].optimistic
  BY <1>4 DEF RunStart
<1>8. s > 1 => com[s - 1].optimistic
  BY <1>4, <1>5, <1>7 DEF Alternating
<1> DEFINE IsEnd(k) == /\ \A j \in s .. k : ~com[j].optimistic
                       /\ k < Len(com) => com[k + 1].optimistic
<1>9. \E k \in s .. Len(com) : IsEnd(k)
  <2>1. CASE i < Len(com) /\ ~com[i + 1].optimistic
    <3>1. i + 1 < Len(com) => com[i + 2].optimistic
      <4>1. SUFFICES ASSUME i + 1 < Len(com)
                     PROVE  stack[i + 2].optimistic
        BY <1>4
      <4>2. i + 1 \in 1 .. Len(stack) - 1
        BY <1>4, <4>1
      <4> QED  BY <1>4, <1>5, <2>1, <4>2 DEF Alternating
    <3>2. \A j \in s .. i + 1 : j = i - 1 \/ j = i \/ j = i + 1
      BY <1>7, <1>4
    <3>3. IsEnd(i + 1)
      BY <1>4, <1>6, <1>7, <2>1, <3>1, <3>2
    <3> QED  BY <1>4, <1>7, <2>1, <3>3
  <2>2. CASE ~(i < Len(com) /\ ~com[i + 1].optimistic)
    <3>1. \A j \in s .. i : j = i \/ (j = i - 1 /\ s = i - 1)
      BY <1>7, <1>4
    <3>2. IsEnd(i)
      BY <1>6, <1>7, <2>2, <3>1
    <3> QED  BY <1>4, <1>7, <3>2
  <2> QED  BY <2>1, <2>2
<1>10. e \in s .. Len(com) /\ IsEnd(e)
  <2>1. e = CHOOSE k \in s .. Len(com) : IsEnd(k)
    BY DEF RunEnd
  <2> HIDE DEF e, IsEnd
  <2> QED  BY <1>9, <2>1
<1>11. s <= i /\ i <= e
  BY <1>4, <1>6, <1>7, <1>10
<1>15. e <= s + 2
  <2>1. SUFFICES ASSUME i + 1 < e PROVE FALSE
    BY <1>4, <1>7, <1>10
  <2>2. i + 1 \in 1 .. Len(stack) - 1 /\ i + 1 \in s .. e /\ i + 2 \in s .. e
    BY <1>4, <1>7, <1>10, <2>1
  <2> QED  BY <1>4, <1>5, <1>10, <2>2 DEF Alternating
<1>12. IsRun(com, s, e)
  BY <1>4, <1>7, <1>8, <1>10 DEF IsRun
<1>13. ResolveAt(stack, i) = Collapse(com, s, e)
  BY DEF ResolveAt, com
<1>14. \A j \in DOMAIN stack :
         /\ com[j].id = stack[j].id
         /\ com[j].fields = stack[j].fields
         /\ com[j].deleted = stack[j].deleted
  BY <1>2, <1>4
<1> QED  BY <1>4, <1>11, <1>12, <1>13, <1>14, <1>15 DEF com

\* The merged fields are fields.
LEMMA MergedFieldsType ==
  ASSUME NEW stack \in Seq(Layer), NEW s \in DOMAIN stack, NEW e \in DOMAIN stack
  PROVE  MergedFields(stack, s, e) \in Contents
<1>1. \A j \in DOMAIN stack : \A c \in Cell : stack[j].fields[c] \in Values \cup {Absent}
  <2>1. TAKE j \in DOMAIN stack
  <2>2. stack[j] \in Layer
    OBVIOUS
  <2> QED  BY <2>2 DEF Layer, Contents
<1>2. ASSUME NEW c \in Cell
      PROVE  (IF \E i \in s + 1 .. e : MergeDecides(stack, s, e, i, c)
                THEN stack[CHOOSE i \in s + 1 .. e : MergeDecides(stack, s, e, i, c)].fields[c]
                ELSE stack[s].fields[c]) \in Values \cup {Absent}
  <2>1. CASE \E i \in s + 1 .. e : MergeDecides(stack, s, e, i, c)
    <3>1. PICK k \in s + 1 .. e :
            k = CHOOSE i \in s + 1 .. e : MergeDecides(stack, s, e, i, c)
      BY <2>1
    <3>2. k \in DOMAIN stack
      BY <3>1
    <3> QED  BY <1>1, <2>1, <3>1, <3>2
  <2>2. CASE ~\E i \in s + 1 .. e : MergeDecides(stack, s, e, i, c)
    BY <1>1, <2>2
  <2> QED  BY <2>1, <2>2
<1> QED  BY <1>2 DEF MergedFields, Contents

\* out is stack with the layers s + 1 .. e gone and what they said in s.
Spliced(stack, s, e, out) ==
  /\ out \in Seq(Layer)
  /\ Len(out) = Len(stack) - (e - s)
  /\ \A j \in DOMAIN out : j < s => out[j] = stack[j]
  /\ \A j \in DOMAIN out : j > s => out[j] = stack[j + (e - s)]
  /\ s \in DOMAIN out
  /\ out[s].id = stack[s].id
  /\ out[s].optimistic = stack[s].optimistic
  /\ out[s].deleted = stack[s].deleted
  /\ out[s].fields = MergedFields(stack, s, e)

\* The splice, position by position.
LEMMA CollapseShape ==
  ASSUME NEW stack \in Seq(Layer), NEW s \in Int, NEW e \in Int, IsRun(stack, s, e),
         NEW out, out = Collapse(stack, s, e)
  PROVE  Spliced(stack, s, e, out)
<1> DEFINE n == Len(stack) - (e - s)
           layer == [stack[s] EXCEPT !.fields = MergedFields(stack, s, e)]
<1>1. /\ s \in 1 .. Len(stack) /\ e \in 1 .. Len(stack) /\ s <= e
      /\ n \in Nat /\ s \in 1 .. n
  BY DEF IsRun
<1>2. stack[s] \in Layer /\ MergedFields(stack, s, e) \in Contents
  BY <1>1, MergedFieldsType
<1>3. /\ layer \in Layer
      /\ layer.id = stack[s].id
      /\ layer.optimistic = stack[s].optimistic
      /\ layer.deleted = stack[s].deleted
      /\ layer.fields = MergedFields(stack, s, e)
  BY <1>2 DEF Layer
<1>4. out = [j \in 1 .. n |-> IF j < s THEN stack[j]
                              ELSE IF j = s THEN layer ELSE stack[j + (e - s)]]
  BY DEF Collapse
<1> HIDE DEF layer
<1>5. \A j \in 1 .. n : out[j] \in Layer
  <2>1. TAKE j \in 1 .. n
  <2>2. CASE j < s
    BY <1>1, <1>4, <2>2
  <2>3. CASE j = s
    BY <1>3, <1>4, <2>3
  <2>4. CASE j > s
    <3>1. j + (e - s) \in 1 .. Len(stack)
      BY <1>1, <2>4
    <3> QED  BY <1>1, <1>4, <2>4, <3>1
  <2> QED  BY <1>1, <2>2, <2>3, <2>4
<1>6. out \in Seq(Layer) /\ Len(out) = n /\ DOMAIN out = 1 .. n
  BY <1>1, <1>4, <1>5
<1>7. \A j \in DOMAIN out : j > s => ~(j < s) /\ j # s
  BY <1>1, <1>6
<1> QED  BY <1>1, <1>3, <1>4, <1>6, <1>7 DEF Spliced

\* The optimistic layers of stack other than layer i are all in out.
KeepsOthers(stack, i, out) ==
  \A j \in DOMAIN stack : j # i /\ stack[j].optimistic
    => \E k \in DOMAIN out : out[k] = stack[j]

\* Every layer of out stands where one of stack stood, and the optimistic ones
\* are layers of stack other than layer i.
MakesNothingUp(stack, i, out) ==
  \A k \in DOMAIN out : \E j \in DOMAIN stack :
    /\ out[k].id = stack[j].id
    /\ out[k].optimistic => j # i /\ out[k] = stack[j]

\* Resolving a layer keeps the order of the ids, leaves no two committed
\* layers one above the other, keeps every other mutation's layer as it is
\* and makes nothing up.
LEMMA ResolveEffect ==
  ASSUME NEW stack \in Seq(Layer), NEW i \in DOMAIN stack,
         Alternating(stack), Sorted(stack),
         NEW out, out = ResolveAt(stack, i)
  PROVE  /\ out \in Seq(Layer)
         /\ Sorted(out)
         /\ Alternating(out)
         /\ KeepsOthers(stack, i, out)
         /\ MakesNothingUp(stack, i, out)
         /\ NoDeletes(stack) => NoDeletes(out)
<1> DEFINE com == [stack EXCEPT ![i].optimistic = FALSE]
           s == RunStart(com, i)
           e == RunEnd(com, s)
<1>1. /\ com \in Seq(Layer)
      /\ Len(com) = Len(stack) /\ DOMAIN com = DOMAIN stack
      /\ \A j \in DOMAIN stack : j # i => com[j] = stack[j]
      /\ \A j \in DOMAIN stack : com[j].id = stack[j].id /\ com[j].deleted = stack[j].deleted
      /\ IsRun(com, s, e)
      /\ s <= i /\ i <= e
      /\ out = Collapse(com, s, e)
  BY ResolveMergesRun
<1> HIDE DEF com, s, e
<1>2. /\ Len(com) \in Nat /\ s \in Int /\ e \in Int
      /\ 1 <= s /\ s <= e /\ e <= Len(com)
      /\ \A j \in s .. e : ~com[j].optimistic
      /\ s > 1 => com[s - 1].optimistic
      /\ e < Len(com) => com[e + 1].optimistic
  BY <1>1 DEF IsRun
<1>3. /\ out \in Seq(Layer)
      /\ Len(out) = Len(com) - (e - s) /\ DOMAIN out = 1 .. Len(com) - (e - s)
      /\ \A j \in DOMAIN out : j < s => out[j] = com[j]
      /\ \A j \in DOMAIN out : j > s => out[j] = com[j + (e - s)]
      /\ s \in DOMAIN out
      /\ out[s].id = com[s].id
      /\ out[s].optimistic = com[s].optimistic
      /\ out[s].deleted = com[s].deleted
  <2>1. /\ com \in Seq(Layer) /\ s \in Int /\ e \in Int
        /\ IsRun(com, s, e) /\ out = Collapse(com, s, e)
    BY <1>1, <1>2
  <2>2. Spliced(com, s, e, out)
    BY <2>1, CollapseShape
  <2> QED  BY <2>2 DEF Spliced
<1> DEFINE From(k) == IF k <= s THEN k ELSE k + (e - s)
<1>4. \A k \in DOMAIN out :
        /\ From(k) \in DOMAIN com
        /\ out[k].id = com[From(k)].id
        /\ out[k].deleted = com[From(k)].deleted
        /\ out[k].optimistic = com[From(k)].optimistic
        /\ k # s => out[k] = com[From(k)]
  <2> SUFFICES ASSUME NEW k \in DOMAIN out
               PROVE  /\ From(k) \in DOMAIN com
                      /\ out[k].id = com[From(k)].id
                      /\ out[k].deleted = com[From(k)].deleted
                      /\ out[k].optimistic = com[From(k)].optimistic
                      /\ k # s => out[k] = com[From(k)]
    OBVIOUS
  <2>0. com \in Seq(Layer) /\ DOMAIN com = 1 .. Len(com)
    BY <1>1
  <2>1. k \in 1 .. Len(com) - (e - s)
    BY <1>3
  <2>2. From(k) \in DOMAIN com
    BY <2>0, <2>1, <1>2
  <2>3. CASE k < s
    BY <2>1, <2>2, <2>3, <1>2, <1>3
  <2>4. CASE k = s
    BY <2>1, <2>2, <2>4, <1>2, <1>3
  <2>5. CASE k > s
    BY <2>1, <2>2, <2>5, <1>2, <1>3
  <2> QED  BY <2>1, <2>3, <2>4, <2>5, <1>2
<1>5. Sorted(com)
  BY <1>1 DEF Sorted
<1>6. Sorted(out)
  <2>1. \A j, k \in DOMAIN out : j < k => From(j) < From(k)
    <3> SUFFICES ASSUME NEW j \in DOMAIN out, NEW k \in DOMAIN out, j < k
                 PROVE  From(j) < From(k)
      OBVIOUS
    <3>1. j \in Int /\ k \in Int
      BY <1>3
    <3> QED  BY <1>2, <3>1
  <2> HIDE DEF From
  <2> QED  BY <1>4, <1>5, <2>1 DEF Sorted
<1>7. Alternating(out)
  <2>1. SUFFICES ASSUME NEW j \in 1 .. Len(out) - 1
                 PROVE  out[j].optimistic \/ out[j + 1].optimistic
    BY DEF Alternating
  <2>2. j \in DOMAIN out /\ j + 1 \in DOMAIN out
    <3>1. out \in Seq(Layer)
      BY <1>3
    <3>2. DOMAIN out = 1 .. Len(out) /\ Len(out) \in Nat
      BY <3>1
    <3> QED  BY <2>1, <3>2
  <2>3. CASE j + 1 = s
    BY <1>2, <1>3, <2>2, <2>3
  <2>4. CASE j = s
    <3>1. j + 1 > s /\ j + 1 + (e - s) = e + 1 /\ e < Len(com)
      BY <1>2, <1>3, <2>2, <2>4
    <3>2. out[j + 1] = com[e + 1]
      BY <1>3, <2>2, <3>1
    <3> QED  BY <1>2, <3>1, <3>2
  <2>5. CASE j + 1 < s
    <3>1. out[j] = com[j] /\ out[j + 1] = com[j + 1]
      BY <1>2, <1>3, <2>2, <2>5
    <3>2. com[j] = stack[j] /\ com[j + 1] = stack[j + 1] /\ j \in 1 .. Len(stack) - 1
      <4>1. j \in 1 .. s - 2 /\ j < s /\ j + 1 < s
        BY <1>2, <2>2, <2>5
      <4>2. com \in Seq(Layer) /\ s <= i /\ i \in 1 .. Len(stack) /\ Len(com) = Len(stack)
        BY <1>1
      <4> QED  BY <1>1, <1>2, <4>1, <4>2
    <3> QED  BY <3>1, <3>2 DEF Alternating
  <2>6. CASE j > s
    <3>1. out[j] = com[j + (e - s)] /\ out[j + 1] = com[j + (e - s) + 1]
      <4>1. j + 1 > s /\ j + 1 + (e - s) = j + (e - s) + 1
        BY <1>2, <2>1, <2>6
      <4> QED  BY <1>3, <2>2, <2>6, <4>1
    <3>2. j + (e - s) \in 1 .. Len(stack) - 1 /\ j + (e - s) > e
      BY <1>1, <1>2, <1>3, <2>1, <2>6
    <3>3. com[j + (e - s)] = stack[j + (e - s)] /\ com[j + (e - s) + 1] = stack[j + (e - s) + 1]
      <4>1. j + (e - s) # i /\ j + (e - s) + 1 # i
        BY <1>1, <1>2, <3>2
      <4>2. j + (e - s) \in DOMAIN stack /\ j + (e - s) + 1 \in DOMAIN stack
        BY <3>2
      <4> QED  BY <1>1, <4>1, <4>2
    <3> QED  BY <3>1, <3>2, <3>3 DEF Alternating
  <2> QED  BY <1>2, <2>3, <2>4, <2>5, <2>6
<1>8. ASSUME NEW j \in DOMAIN stack, j # i, stack[j].optimistic
      PROVE  \E k \in DOMAIN out : out[k] = stack[j]
  <2>1. com[j] = stack[j] /\ (j < s \/ j > e)
    BY <1>1, <1>2, <1>8
  <2>2. CASE j < s
    BY <1>1, <1>2, <1>3, <2>1, <2>2
  <2>3. CASE j > e
    <3>1. j - (e - s) \in DOMAIN out /\ j - (e - s) > s /\ j - (e - s) + (e - s) = j
      BY <1>1, <1>2, <1>3, <2>3
    <3> QED  BY <1>3, <2>1, <3>1
  <2> QED  BY <2>1, <2>2, <2>3
<1>9. ASSUME NEW k \in DOMAIN out
      PROVE  \E j \in DOMAIN stack :
               /\ out[k].id = stack[j].id
               /\ out[k].optimistic => j # i /\ out[k] = stack[j]
  <2>1. From(k) \in DOMAIN stack /\ out[k].id = stack[From(k)].id
    BY <1>1, <1>4
  <2>2. ASSUME out[k].optimistic PROVE From(k) # i /\ out[k] = stack[From(k)]
    <3>1. k # s /\ (From(k) < s \/ From(k) > e)
      BY <1>2, <1>3, <1>4, <2>2
    <3>2. From(k) # i
      BY <1>1, <1>2, <3>1
    <3> QED  BY <1>1, <1>4, <2>1, <3>1, <3>2
  <2> QED  BY <2>1, <2>2
<1>10. NoDeletes(stack) => NoDeletes(out)
  BY <1>1, <1>4 DEF NoDeletes
<1>11. KeepsOthers(stack, i, out)
  BY <1>8 DEF KeepsOthers
<1>12. MakesNothingUp(stack, i, out)
  BY <1>9 DEF MakesNothingUp
<1> QED  BY <1>3, <1>6, <1>7, <1>10, <1>11, <1>12

-----------------------------------------------------------------------------
(* What a merge does to readers                                             *)

\* At most one layer decides a cell, so a read is what that layer says.
LEMMA LookupDecided ==
  ASSUME NEW stack \in Seq(Layer), NEW c \in Cell,
         NEW i \in DOMAIN stack, Decides(stack, i, c)
  PROVE  Lookup(stack, c) = stack[i].fields[c]
<1>1. \A k \in DOMAIN stack : Decides(stack, k, c) => k = i
  BY DEF Decides
<1>2. PICK k \in DOMAIN stack : k = CHOOSE j \in DOMAIN stack : Decides(stack, j, c)
  OBVIOUS
<1>3. Decides(stack, k, c)
  BY <1>2
<1> QED  BY <1>1, <1>2, <1>3 DEF Lookup

\* A cell that no layer decides reads as absent.
LEMMA LookupUndecided ==
  ASSUME NEW stack, NEW c, \A i \in DOMAIN stack : ~Decides(stack, i, c)
  PROVE  Lookup(stack, c) = Absent
BY DEF Lookup

\* The merge of at most three layers that deleted nothing, read cell by cell:
\* it says what the topmost of them that says something says.
LEMMA MergedCell ==
  ASSUME NEW stack \in Seq(Layer), NoDeletes(stack), NEW c \in Cell,
         NEW s \in DOMAIN stack, NEW e \in DOMAIN stack, s <= e, e <= s + 2
  PROVE  LET merged == MergedFields(stack, s, e)[c]
         IN  \/ /\ \A j \in s .. e : ~Stops(stack[j], c)
                /\ merged = Absent
             \/ \E i \in s .. e : /\ Stops(stack[i], c)
                                  /\ \A j \in i + 1 .. e : ~Stops(stack[j], c)
                                  /\ merged = stack[i].fields[c]
                                  /\ merged # Absent
<1> DEFINE M(i) == MergeDecides(stack, s, e, i, c)
<1>1. /\ Len(stack) \in Nat /\ s \in Int /\ e \in Int
      /\ 1 <= s /\ e <= Len(stack)
  OBVIOUS
<1>2. \A j \in s .. e : Stops(stack[j], c) <=> stack[j].fields[c] # Absent
  <2>1. TAKE j \in s .. e
  <2>2. j \in DOMAIN stack
    BY <1>1
  <2> QED  BY <2>2 DEF NoDeletes, Stops
<1>3. CASE \E i \in s + 1 .. e : M(i)
  <2>1. PICK i \in s + 1 .. e : i = CHOOSE k \in s + 1 .. e : M(k)
    BY <1>3
  <2>2. M(i)
    BY <1>3, <2>1
  <2>3. MergedFields(stack, s, e)[c] = stack[i].fields[c]
    BY <1>3, <2>1 DEF MergedFields
  <2>4. i \in s .. e /\ Stops(stack[i], c) /\ \A j \in i + 1 .. e : ~Stops(stack[j], c)
    BY <1>1, <2>2 DEF MergeDecides
  <2> QED  BY <1>2, <2>3, <2>4
<1>4. CASE ~\E i \in s + 1 .. e : M(i)
  <2>1. MergedFields(stack, s, e)[c] = stack[s].fields[c]
    BY <1>4 DEF MergedFields
  <2>2. \A j \in s + 1 .. e : ~Stops(stack[j], c)
    <3>1. \A j \in s + 1 .. e : j = s + 1 \/ j = s + 2
      BY <1>1
    <3>2. ASSUME s + 2 \in s + 1 .. e PROVE ~Stops(stack[s + 2], c)
      <4>1. \A j \in s + 2 + 1 .. e : FALSE
        BY <1>1
      <4> QED  BY <1>4, <3>2, <4>1 DEF MergeDecides
    <3>3. ASSUME s + 1 \in s + 1 .. e PROVE ~Stops(stack[s + 1], c)
      <4>1. \A j \in s + 1 + 1 .. e : j = s + 2 /\ s + 2 \in s + 1 .. e
        BY <1>1
      <4>2. \A j \in s + 1 + 1 .. e : ~Stops(stack[j], c)
        BY <3>2, <4>1
      <4> QED  BY <1>4, <3>3, <4>2 DEF MergeDecides
    <3> QED  BY <3>1, <3>2, <3>3
  <2>3. \A j \in s .. e : j = s \/ j \in s + 1 .. e
    BY <1>1
  <2>4. s \in s .. e
    BY <1>1
  <2> QED  BY <1>2, <2>1, <2>2, <2>3, <2>4
<1> QED  BY <1>3, <1>4

\* Where nothing was deleted, the splice changes no read.
LEMMA CollapseInvisible ==
  ASSUME NEW stack \in Seq(Layer), NoDeletes(stack),
         NEW s \in Int, NEW e \in Int, IsRun(stack, s, e), e <= s + 2,
         NEW out, out = Collapse(stack, s, e)
  PROVE  Display(out) = Display(stack)
<1> DEFINE k == e - s
<1>1. /\ Len(stack) \in Nat /\ 1 <= s /\ s <= e /\ e <= Len(stack)
      /\ s \in DOMAIN stack /\ e \in DOMAIN stack
      /\ k \in 0 .. 2
  BY DEF IsRun
<1>2. /\ out \in Seq(Layer)
      /\ Len(out) = Len(stack) - k
      /\ \A j \in DOMAIN out : j < s => out[j] = stack[j]
      /\ \A j \in DOMAIN out : j > s => out[j] = stack[j + k]
      /\ s \in DOMAIN out
      /\ out[s].deleted = stack[s].deleted
      /\ out[s].fields = MergedFields(stack, s, e)
  <2>1. /\ out \in Seq(Layer)
        /\ Len(out) = Len(stack) - (e - s)
        /\ \A j \in DOMAIN out : j < s => out[j] = stack[j]
        /\ \A j \in DOMAIN out : j > s => out[j] = stack[j + (e - s)]
        /\ s \in DOMAIN out
        /\ out[s].id = stack[s].id
        /\ out[s].optimistic = stack[s].optimistic
        /\ out[s].deleted = stack[s].deleted
        /\ out[s].fields = MergedFields(stack, s, e)
    <3>1. Spliced(stack, s, e, out)
      BY CollapseShape
    <3> QED  BY <3>1 DEF Spliced
  <2> QED  BY <2>1
<1>3. DOMAIN out = 1 .. Len(stack) - k /\ DOMAIN stack = 1 .. Len(stack)
  BY <1>2
<1> HIDE DEF k
<1>4. SUFFICES ASSUME NEW c \in Cell
               PROVE  Lookup(out, c) = Lookup(stack, c)
  BY DEF Display
<1>5. \A j \in DOMAIN out : j < s => (Stops(out[j], c) <=> Stops(stack[j], c))
  BY <1>2
<1>6. \A j \in DOMAIN stack : j > e =>
        /\ j - k \in DOMAIN out /\ j - k > s
        /\ out[j - k] = stack[j]
  <2>1. TAKE j \in DOMAIN stack
  <2>2. HAVE j > e
  <2>3. j - k \in DOMAIN out /\ j - k > s /\ (j - k) + k = j
    BY <1>1, <1>3, <2>2 DEF k
  <2> QED  BY <1>2, <2>3
<1>7. \A j \in DOMAIN out : j > s => j + k \in DOMAIN stack /\ j + k > e
  BY <1>1, <1>3 DEF k
<1>8. \A j \in DOMAIN out : j < s => j \in DOMAIN stack
  BY <1>1, <1>3
<1> DEFINE Quiet == \A j \in s .. e : ~Stops(stack[j], c)
<1>9. Stops(out[s], c) <=> out[s].fields[c] # Absent
  BY <1>1, <1>2 DEF NoDeletes, Stops
<1>10. Stops(out[s], c) <=> ~Quiet
  <2>1. MergedFields(stack, s, e)[c] = Absent <=> Quiet
    BY <1>1, MergedCell
  <2> QED  BY <1>2, <1>9, <2>1
<1>11. ASSUME NEW i \in DOMAIN stack, Decides(stack, i, c)
       PROVE  Lookup(out, c) = stack[i].fields[c]
  <2>1. \A j \in DOMAIN out : j > s /\ j + k > i => ~Stops(out[j], c)
    BY <1>2, <1>7, <1>11 DEF Decides
  <2>2. CASE i > e
    <3>1. i - k \in DOMAIN out /\ out[i - k] = stack[i] /\ i - k > s
      BY <1>6, <2>2
    <3>2. \A j \in DOMAIN out : j > i - k => j > s /\ j + k > i
      BY <1>1, <1>3, <3>1 DEF k
    <3>3. Decides(out, i - k, c)
      BY <1>11, <2>1, <3>1, <3>2 DEF Decides
    <3> QED  BY <1>2, <3>1, <3>3, LookupDecided
  <2>3. CASE i \in s .. e
    <3>1. ~Quiet
      BY <1>11, <2>3 DEF Decides
    <3>2. out[s].fields[c] = stack[i].fields[c]
      <4>1. PICK d \in s .. e : /\ Stops(stack[d], c)
                                /\ \A j \in d + 1 .. e : ~Stops(stack[j], c)
                                /\ MergedFields(stack, s, e)[c] = stack[d].fields[c]
        BY <1>1, <3>1, MergedCell
      <4>2. d \in DOMAIN stack
        BY <1>1, <1>3
      <4>3. ~(d > i)
        BY <1>11, <4>1, <4>2 DEF Decides
      <4>4. ~(i > d)
        BY <1>1, <1>11, <2>3, <4>1 DEF Decides
      <4>5. d = i
        BY <1>1, <2>3, <4>3, <4>4
      <4> QED  BY <1>2, <4>1, <4>5
    <3>3. \A j \in DOMAIN out : j > s => j + k > i
      BY <1>1, <1>3, <2>3 DEF k
    <3>4. Decides(out, s, c)
      BY <1>2, <1>10, <2>1, <3>1, <3>3 DEF Decides
    <3> QED  BY <1>2, <3>2, <3>4, LookupDecided
  <2>4. CASE i < s
    <3>1. i \in DOMAIN out /\ out[i] = stack[i]
      BY <1>1, <1>2, <1>3, <2>4
    <3>2. Quiet
      BY <1>1, <1>3, <1>11, <2>4 DEF Decides
    <3>3. ASSUME NEW j \in DOMAIN out, j > i PROVE ~Stops(out[j], c)
      <4>1. CASE j < s
        BY <1>5, <1>8, <1>11, <3>3, <4>1 DEF Decides
      <4>2. CASE j = s
        BY <1>10, <3>2, <4>2
      <4>3. CASE j > s
        <5>1. j + k > i
          BY <1>1, <1>3, <2>4, <4>3 DEF k
        <5> QED  BY <2>1, <4>3, <5>1
      <4> QED  BY <1>1, <1>3, <4>1, <4>2, <4>3
    <3>4. Decides(out, i, c)
      BY <1>11, <3>1, <3>3 DEF Decides
    <3> QED  BY <1>2, <3>1, <3>4, LookupDecided
  <2> QED  BY <1>1, <1>3, <2>2, <2>3, <2>4
<1>12. ASSUME NEW i \in DOMAIN out, Decides(out, i, c)
       PROVE  \E d \in DOMAIN stack : Decides(stack, d, c)
  <2>1. ASSUME NEW j \in DOMAIN stack, j > e, j - k > i PROVE ~Stops(stack[j], c)
    BY <1>6, <1>12, <2>1 DEF Decides
  <2>2. CASE i > s
    <3>1. i + k \in DOMAIN stack /\ i + k > e /\ out[i] = stack[i + k]
      BY <1>2, <1>7, <2>2
    <3>2. \A j \in DOMAIN stack : j > i + k => j > e /\ j - k > i
      BY <1>1, <1>3, <3>1 DEF k
    <3>3. Decides(stack, i + k, c)
      BY <1>12, <2>1, <3>1, <3>2 DEF Decides
    <3> QED  BY <3>1, <3>3
  <2>3. CASE i = s
    <3>1. ~Quiet
      BY <1>10, <1>12, <2>3 DEF Decides
    <3>2. PICK d \in s .. e : /\ Stops(stack[d], c)
                              /\ \A j \in d + 1 .. e : ~Stops(stack[j], c)
      BY <1>1, <3>1, MergedCell
    <3>3. d \in DOMAIN stack
      BY <1>1, <1>3
    <3>4. ASSUME NEW j \in DOMAIN stack, j > d PROVE ~Stops(stack[j], c)
      <4>1. CASE j \in d + 1 .. e
        BY <3>2, <4>1
      <4>2. CASE j > e
        <5>1. j - k > i
          BY <1>1, <1>3, <2>3, <4>2 DEF k
        <5> QED  BY <2>1, <4>2, <5>1
      <4> QED  BY <1>1, <1>3, <3>4, <4>1, <4>2
    <3>5. Decides(stack, d, c)
      BY <3>2, <3>4 DEF Decides
    <3> QED  BY <3>3, <3>5
  <2>4. CASE i < s
    <3>1. i \in DOMAIN stack /\ out[i] = stack[i]
      BY <1>2, <1>8, <2>4
    <3>2. Quiet
      BY <1>2, <1>10, <1>12, <2>4 DEF Decides
    <3>3. ASSUME NEW j \in DOMAIN stack, j > i PROVE ~Stops(stack[j], c)
      <4>1. CASE j < s
        <5>1. j \in DOMAIN out
          BY <1>1, <1>2, <1>3, <4>1
        <5> QED  BY <1>5, <1>12, <3>3, <4>1, <5>1 DEF Decides
      <4>2. CASE j \in s .. e
        BY <3>2, <4>2
      <4>3. CASE j > e
        <5>1. j - k > i
          BY <1>1, <1>3, <2>4, <4>3 DEF k
        <5> QED  BY <2>1, <4>3, <5>1
      <4> QED  BY <1>1, <1>3, <4>1, <4>2, <4>3
    <3>4. Decides(stack, i, c)
      BY <1>12, <3>1, <3>3 DEF Decides
    <3> QED  BY <3>1, <3>4
  <2> QED  BY <1>1, <1>3, <2>2, <2>3, <2>4
<1>13. CASE \E i \in DOMAIN stack : Decides(stack, i, c)
  BY <1>11, <1>13, LookupDecided
<1>14. CASE ~\E i \in DOMAIN stack : Decides(stack, i, c)
  <2>1. \A i \in DOMAIN out : ~Decides(out, i, c)
    BY <1>12, <1>14
  <2>2. Lookup(out, c) = Absent
    BY <2>1, LookupUndecided
  <2>3. Lookup(stack, c) = Absent
    BY <1>14, LookupUndecided
  <2> QED  BY <2>2, <2>3
<1> QED  BY <1>13, <1>14

\* Two stacks whose layers hold the same read the same.
LEMMA SameContentsReadTheSame ==
  ASSUME NEW stack \in Seq(Layer), NEW other \in Seq(Layer), Len(other) = Len(stack),
         \A j \in DOMAIN stack : /\ other[j].fields = stack[j].fields
                                 /\ other[j].deleted = stack[j].deleted
  PROVE  Display(other) = Display(stack)
<1>1. DOMAIN other = DOMAIN stack
  OBVIOUS
<1>2. SUFFICES ASSUME NEW c \in Cell
               PROVE  Lookup(other, c) = Lookup(stack, c)
  BY DEF Display
<1>3. \A j \in DOMAIN stack : Decides(other, j, c) <=> Decides(stack, j, c)
  BY <1>1 DEF Decides, Stops
<1>4. CASE \E i \in DOMAIN stack : Decides(stack, i, c)
  <2>1. PICK i \in DOMAIN stack : Decides(stack, i, c)
    BY <1>4
  <2>2. Lookup(stack, c) = stack[i].fields[c]
    BY <2>1, LookupDecided
  <2>3. Lookup(other, c) = other[i].fields[c]
    BY <1>1, <1>3, <2>1, LookupDecided
  <2> QED  BY <2>2, <2>3
<1>5. CASE ~\E i \in DOMAIN stack : Decides(stack, i, c)
  <2>1. Lookup(stack, c) = Absent
    BY <1>5, LookupUndecided
  <2>2. Lookup(other, c) = Absent
    BY <1>1, <1>3, <1>5, LookupUndecided
  <2> QED  BY <2>1, <2>2
<1> QED  BY <1>4, <1>5

\* Resolving a layer changes no read, where nothing was deleted.
LEMMA ResolveInvisible ==
  ASSUME NEW stack \in Seq(Layer), NEW i \in DOMAIN stack,
         Alternating(stack), NoDeletes(stack)
  PROVE  Display(ResolveAt(stack, i)) = Display(stack)
<1> DEFINE com == [stack EXCEPT ![i].optimistic = FALSE]
           s == RunStart(com, i)
           e == RunEnd(com, s)
<1>1. /\ com \in Seq(Layer)
      /\ Len(com) = Len(stack)
      /\ \A j \in DOMAIN stack : /\ com[j].fields = stack[j].fields
                                  /\ com[j].deleted = stack[j].deleted
      /\ IsRun(com, s, e)
      /\ e <= s + 2
      /\ ResolveAt(stack, i) = Collapse(com, s, e)
  BY ResolveMergesRun
<1> HIDE DEF com, s, e
<1>2. NoDeletes(com)
  BY <1>1 DEF NoDeletes
<1>3. s \in Int /\ e \in Int
  BY <1>1 DEF IsRun
<1>4. Display(Collapse(com, s, e)) = Display(com)
  BY <1>1, <1>2, <1>3, CollapseInvisible
<1>5. Display(com) = Display(stack)
  BY <1>1, SameContentsReadTheSame
<1> QED  BY <1>1, <1>4, <1>5

-----------------------------------------------------------------------------
(* What one layer's change does to readers                                  *)

\* Where nothing was deleted, a layer stops the walk with its values only.
LEMMA StopsWithValue ==
  ASSUME NEW stack, NoDeletes(stack), NEW j \in DOMAIN stack, NEW c \in Cell
  PROVE  Stops(stack[j], c) <=> stack[j].fields[c] # Absent
BY DEF Stops, NoDeletes

\* Two stacks that say the same of a cell give the same for it.
LEMMA SameCellReadsTheSame ==
  ASSUME NEW stack \in Seq(Layer), NEW other \in Seq(Layer), Len(other) = Len(stack),
         NoDeletes(stack), NoDeletes(other), NEW c \in Cell,
         \A j \in DOMAIN stack : other[j].fields[c] = stack[j].fields[c]
  PROVE  Lookup(other, c) = Lookup(stack, c)
<1>1. DOMAIN other = DOMAIN stack
  OBVIOUS
<1>2. \A j \in DOMAIN stack : Stops(other[j], c) <=> Stops(stack[j], c)
  BY <1>1, StopsWithValue
<1>3. \A j \in DOMAIN stack : Decides(other, j, c) <=> Decides(stack, j, c)
  BY <1>1, <1>2 DEF Decides
<1>4. CASE \E i \in DOMAIN stack : Decides(stack, i, c)
  <2>1. PICK i \in DOMAIN stack : Decides(stack, i, c)
    BY <1>4
  <2>2. Lookup(stack, c) = stack[i].fields[c]
    BY <2>1, LookupDecided
  <2>3. Lookup(other, c) = other[i].fields[c]
    BY <1>1, <1>3, <2>1, LookupDecided
  <2> QED  BY <2>2, <2>3
<1>5. CASE ~\E i \in DOMAIN stack : Decides(stack, i, c)
  <2>1. Lookup(stack, c) = Absent
    BY <1>5, LookupUndecided
  <2>2. Lookup(other, c) = Absent
    BY <1>1, <1>3, <1>5, LookupUndecided
  <2> QED  BY <2>1, <2>2
<1> QED  BY <1>4, <1>5

\* A change below the layer that decides is not seen.
LEMMA ChangeBelowHidden ==
  ASSUME NEW stack \in Seq(Layer), NEW other \in Seq(Layer), Len(other) = Len(stack),
         NEW i \in DOMAIN stack, \A j \in DOMAIN stack : j # i => other[j] = stack[j],
         NEW c \in Cell, NEW k \in DOMAIN stack, k > i, Decides(stack, k, c)
  PROVE  Lookup(other, c) = Lookup(stack, c)
<1>1. DOMAIN other = DOMAIN stack
  OBVIOUS
<1>2. other[k] = stack[k] /\ \A j \in DOMAIN stack : j > k => other[j] = stack[j]
  OBVIOUS
<1>3. Decides(other, k, c)
  BY <1>1, <1>2 DEF Decides
<1>4. Lookup(other, c) = other[k].fields[c] /\ Lookup(stack, c) = stack[k].fields[c]
  BY <1>1, <1>3, LookupDecided
<1> QED  BY <1>2, <1>4

\* A value written into a layer that nothing stops the walk above is read.
LEMMA ChangeOnTopSeen ==
  ASSUME NEW stack \in Seq(Layer), NEW i \in DOMAIN stack, NEW c \in Cell,
         stack[i].fields[c] # Absent,
         \A j \in DOMAIN stack : j > i => ~Stops(stack[j], c)
  PROVE  Lookup(stack, c) = stack[i].fields[c]
<1>1. Decides(stack, i, c)
  BY DEF Decides, Stops
<1> QED  BY <1>1, LookupDecided

\* A new layer is empty: readers do not see it come.
LEMMA NewLayerInvisible ==
  ASSUME NEW stack \in Seq(Layer), NEW id \in Nat, NEW o \in BOOLEAN
  PROVE  Display(Append(stack, NewLayer(id, o))) = Display(stack)
<1> DEFINE out == Append(stack, NewLayer(id, o))
           n == Len(stack) + 1
<1>1. /\ out \in Seq(Layer) /\ DOMAIN out = 1 .. n /\ DOMAIN stack = 1 .. n - 1
      /\ n \in Nat \ {0} /\ out[n] = NewLayer(id, o)
      /\ \A j \in DOMAIN stack : out[j] = stack[j]
  BY NewLayerType
<1> HIDE DEF out, n
<1>2. SUFFICES ASSUME NEW c \in Cell PROVE Lookup(out, c) = Lookup(stack, c)
  BY DEF Display, out
<1>3. ~Stops(out[n], c)
  BY <1>1 DEF Stops, NewLayer, NoContents
<1>4. \A j \in DOMAIN stack : Decides(out, j, c) <=> Decides(stack, j, c)
  <2> SUFFICES ASSUME NEW j \in DOMAIN stack
               PROVE  Decides(out, j, c) <=> Decides(stack, j, c)
    OBVIOUS
  <2>1. \A l \in DOMAIN out : l \in DOMAIN stack \/ l = n
    BY <1>1
  <2>2. \A l \in DOMAIN stack : l \in DOMAIN out
    BY <1>1
  <2> QED  BY <1>1, <1>3, <2>1, <2>2 DEF Decides
<1>5. CASE \E i \in DOMAIN stack : Decides(stack, i, c)
  <2>1. PICK i \in DOMAIN stack : Decides(stack, i, c)
    BY <1>5
  <2>2. i \in DOMAIN out /\ out[i] = stack[i]
    BY <1>1
  <2>3. Lookup(out, c) = out[i].fields[c] /\ Lookup(stack, c) = stack[i].fields[c]
    BY <1>1, <1>4, <2>1, <2>2, LookupDecided
  <2> QED  BY <2>2, <2>3
<1>6. CASE ~\E i \in DOMAIN stack : Decides(stack, i, c)
  <2>1. \A i \in DOMAIN out : ~Decides(out, i, c)
    <3>1. ~Decides(out, n, c)
      BY <1>3 DEF Decides
    <3> QED  BY <1>1, <1>4, <1>6, <3>1
  <2>2. Lookup(out, c) = Absent /\ Lookup(stack, c) = Absent
    BY <1>6, <2>1, LookupUndecided
  <2> QED  BY <2>2
<1> QED  BY <1>5, <1>6

-----------------------------------------------------------------------------
(* The mutations.                                                          *)

Entry == [owner : Mutations \cup {Query}, patch : Patch]

-----------------------------------------------------------------------------
(* What the parts of an action return                                       *)

\* What the subscribers were told after a write is a value for each cell.
LEMMA AfterWriteType ==
  ASSUME NEW told \in Told, NEW stack \in Seq(Layer), NEW i \in DOMAIN stack,
         NEW p \in Patch, NEW force
  PROVE  AfterWrite(told, stack, i, p, force) \in Told
<1>1. WriteAt(stack, i, p) \in Seq(Layer)
  BY WriteAtEffect
<1>2. \A c \in Cell : Lookup(WriteAt(stack, i, p), c) \in Values \cup {Absent}
  BY <1>1, LookupType
<1>3. \A c \in Cell : told[c] \in Values \cup {Absent, Nobody}
  BY DEF Told
<1> QED  BY <1>2, <1>3 DEF AfterWrite, Told

\* What the subscribers were told after a layer was cleared likewise.
LEMMA AfterClearType ==
  ASSUME NEW told \in Told, NEW stack \in Seq(Layer), NEW i \in DOMAIN stack
  PROVE  AfterClear(told, stack, i) \in Told
<1>1. ClearAt(stack, i) \in Seq(Layer)
  BY ClearAtEffect
<1>2. \A c \in Cell : Lookup(ClearAt(stack, i), c) \in Values \cup {Absent}
  BY <1>1, LookupType
<1>3. \A c \in Cell : told[c] \in Values \cup {Absent, Nobody}
  BY DEF Told
<1> QED  BY <1>2, <1>3 DEF AfterClear, Told

\* Rewriting a mutation's entry keeps the history a history.
LEMMA LogRewriteType ==
  ASSUME log \in Seq(Entry), NEW m, NEW p \in Patch
  PROVE  LogRewrite(m, p) \in Seq(Entry)
<1>1. ASSUME NEW i \in DOMAIN log
      PROVE  (IF log[i].owner = m THEN [log[i] EXCEPT !.patch = p] ELSE log[i]) \in Entry
  <2>1. log[i] \in Entry
    OBVIOUS
  <2>2. [log[i] EXCEPT !.patch = p] \in Entry
    BY <2>1 DEF Entry
  <2> QED  BY <2>1, <2>2
<1>2. DOMAIN log = 1 .. Len(log) /\ Len(log) \in Nat
  OBVIOUS
<1>3. LogRewrite(m, p) = [i \in 1 .. Len(log) |->
        IF log[i].owner = m THEN [log[i] EXCEPT !.patch = p] ELSE log[i]]
  BY <1>2 DEF LogRewrite
<1> QED  BY <1>1, <1>2, <1>3

\* Adding an entry keeps the history a history.
LEMMA LogAppendType ==
  ASSUME log \in Seq(Entry), NEW owner \in Mutations \cup {Query}, NEW p \in Patch
  PROVE  LogAppend(owner, p) \in Seq(Entry)
<1>1. [owner |-> owner, patch |-> p] \in Entry
  BY DEF Entry
<1> QED  BY <1>1 DEF LogAppend

\* The layer that a hook finds by its id is in the stack.
LEMMA OwnLayerFound ==
  ASSUME data \in Seq(Layer), NEW m \in Mutations, HasOwnLayer(m)
  PROVE  OwnLayer(m) \in DOMAIN data /\ data[OwnLayer(m)].id = layerOf[m]
BY IndexOfFinds DEF HasOwnLayer, OwnLayer

\* The layer that a query writes to is the last one, and it is committed.
LEMMA WithTopEffect ==
  ASSUME NEW stack \in Seq(Layer), NEW id \in Nat
  PROVE  /\ WithTop(stack, id) \in Seq(Layer)
         /\ Len(WithTop(stack, id)) \in DOMAIN WithTop(stack, id)
         /\ Len(WithTop(stack, id)) = IF NeedsTop(stack) THEN Len(stack) + 1 ELSE Len(stack)
         /\ \A j \in DOMAIN stack : WithTop(stack, id)[j] = stack[j]
         /\ NeedsTop(stack) => WithTop(stack, id)[Len(stack) + 1] = NewLayer(id, FALSE)
<1>1. NewLayer(id, FALSE) \in Layer
  BY NewLayerType
<1>2. CASE NeedsTop(stack)
  <2>1. WithTop(stack, id) = Append(stack, NewLayer(id, FALSE))
    BY <1>2 DEF WithTop
  <2> DEFINE new == NewLayer(id, FALSE)
  <2> HIDE DEF new
  <2>2. new \in Layer
    BY <1>1 DEF new
  <2>3. /\ Append(stack, new) \in Seq(Layer)
        /\ Len(Append(stack, new)) = Len(stack) + 1
        /\ \A j \in DOMAIN stack : Append(stack, new)[j] = stack[j]
        /\ Append(stack, new)[Len(stack) + 1] = new
    BY <2>2
  <2>4. Len(stack) + 1 \in DOMAIN Append(stack, new)
    BY <2>3
  <2> QED  BY <1>2, <2>1, <2>3, <2>4 DEF new
<1>3. CASE ~NeedsTop(stack)
  <2>1. WithTop(stack, id) = stack /\ stack # <<>>
    BY <1>3 DEF WithTop, NeedsTop
  <2>2. Len(stack) \in DOMAIN stack
    BY <2>1
  <2> QED  BY <1>3, <2>1, <2>2
<1> QED  BY <1>2, <1>3

-----------------------------------------------------------------------------
(* Types                                                                    *)

\* The client starts in a well typed state.
LEMMA TypeInit == Init => TypeOK
<1> SUFFICES ASSUME Init PROVE TypeOK
  OBVIOUS
<1>1. [c \in Cell |-> Nobody] \in Told
  BY DEF Told
<1>2. phase \in [Mutations -> Phases]
  BY DEF Init, Phases
<1>3. layerOf \in [Mutations -> Nat]
  BY DEF Init, NoLayer
<1> QED  BY <1>1, <1>2, <1>3, MutationAssumption DEF Init, TypeOK

\* A hook that moves its mutation's pipeline moves it to a phase.
LEMMA GoToType ==
  ASSUME TypeOK, NEW m \in Mutations, NEW p \in Phases, GoTo(m, p)
  PROVE  phase' \in [Mutations -> Phases]
BY DEF TypeOK, GoTo

-----------------------------------------------------------------------------
(* The inductive invariant                                                  *)

\* Every mutation that began has a layer id of its own.
Owners ==
  /\ \A m \in Mutations : layerOf[m] < idCount
  /\ \A m \in Mutations : phase[m] = "idle" <=> layerOf[m] = NoLayer
  /\ \A m, n \in Mutations : m # n /\ layerOf[m] # NoLayer => layerOf[m] # layerOf[n]

Inv ==
  /\ TypeOK
  /\ IdsGrow
  /\ Alternating(data)
  /\ idCount > 0
  /\ Owners
  /\ PendingLayerKept

\* What any hook of m, and an abort of m, does: at most its own layer changes
\* contents, the others that are optimistic are all still there, nothing new
\* appears, and the stack stays sorted and alternating.
Hook(m) ==
  /\ UNCHANGED <<idCount, layerOf, resets>>
  /\ phase[m] \in Active
  /\ phase'[m] # "idle"
  /\ phase'[m] # phase[m] \/ data' = data
  /\ \A n \in Mutations : n # m => phase'[n] = phase[n]
  /\ Sorted(data')
  /\ Alternating(data')
  /\ \A j \in DOMAIN data : data[j].optimistic /\ data[j].id # layerOf[m] =>
       \E k \in DOMAIN data' : data'[k] = data[j]
  /\ \A k \in DOMAIN data' : \E j \in DOMAIN data :
       /\ data'[k].id = data[j].id
       /\ data'[k].optimistic => data[j].optimistic
  /\ phase'[m] \in Active =>
       \A j \in DOMAIN data : data[j].id = layerOf[m] =>
         \E k \in DOMAIN data' : /\ data'[k].id = data[j].id
                                 /\ data'[k].optimistic = data[j].optimistic

\* The invariant says what the lemmas about stacks ask of a stack.
LEMMA InvSorted == Inv => Sorted(data) /\ data \in Seq(Layer)
BY DEF Inv, IdsGrow, Sorted, TypeOK

\* A hook that only rewrites the contents of its own layer.
LEMMA RewriteIsHook ==
  ASSUME Inv, NEW m \in Mutations, HasOwnLayer(m),
         data' \in Seq(Layer), SameShape(data, data'),
         \A j \in DOMAIN data : j # OwnLayer(m) => data'[j] = data[j],
         UNCHANGED <<idCount, layerOf, resets>>, phase[m] \in Active,
         NEW p \in Phases \ {"idle"}, p # phase[m], GoTo(m, p)
  PROVE  Hook(m)
<1>1. /\ Sorted(data) /\ Alternating(data) /\ data \in Seq(Layer)
      /\ DOMAIN data' = DOMAIN data
  BY InvSorted DEF Inv, SameShape
<1>2. phase'[m] = p /\ \A n \in Mutations : n # m => phase'[n] = phase[n]
  BY DEF GoTo, Inv, TypeOK
<1>3. Sorted(data')
  BY <1>1 DEF SameShape, Sorted
<1>4. Alternating(data')
  <2>1. Len(data') = Len(data) /\ DOMAIN data = 1 .. Len(data) /\ Len(data) \in Nat
    BY <1>1 DEF SameShape
  <2>2. ASSUME NEW j \in 1 .. Len(data') - 1
        PROVE  data'[j].optimistic \/ data'[j + 1].optimistic
    <3>1. j \in DOMAIN data /\ j + 1 \in DOMAIN data /\ j \in 1 .. Len(data) - 1
      BY <2>1
    <3>2. data[j].optimistic \/ data[j + 1].optimistic
      BY <1>1, <3>1 DEF Alternating
    <3> QED  BY <3>1, <3>2 DEF SameShape
  <2> QED  BY <2>2 DEF Alternating
<1>5. \A j \in DOMAIN data : data[j].id # layerOf[m] => data'[j] = data[j]
  BY OwnLayerFound, <1>1
<1>6. \A j \in DOMAIN data : /\ data'[j].id = data[j].id
                             /\ data'[j].optimistic = data[j].optimistic
  BY DEF SameShape
<1> QED  BY <1>1, <1>2, <1>3, <1>4, <1>5, <1>6 DEF Hook

\* A hook that leaves the stack alone.
LEMMA IdleIsHook ==
  ASSUME Inv, NEW m \in Mutations, UNCHANGED <<data, idCount, layerOf, resets>>,
         phase[m] \in Active, NEW p \in Phases \ {"idle"},
         phase' = [phase EXCEPT ![m] = p]
  PROVE  Hook(m)
<1>1. Sorted(data) /\ Alternating(data)
  BY InvSorted DEF Inv
<1>2. phase'[m] = p /\ \A n \in Mutations : n # m => phase'[n] = phase[n]
  BY DEF Inv, TypeOK
<1> QED  BY <1>1, <1>2 DEF Hook, Sorted, Alternating

\* No two layers of a sorted stack have the same id.
LEMMA SortedIsInjective ==
  ASSUME NEW stack \in Seq(Layer), Sorted(stack),
         NEW i \in DOMAIN stack, NEW j \in DOMAIN stack, stack[i].id = stack[j].id
  PROVE  i = j
<1>1. i \in Int /\ j \in Int
  OBVIOUS
<1>2. stack[i].id \in Nat /\ stack[j].id \in Nat
  <2>1. stack[i] \in Layer /\ stack[j] \in Layer
    OBVIOUS
  <2> QED  BY <2>1 DEF Layer
<1>3. ~(i < j) /\ ~(j < i)
  BY <1>2 DEF Sorted
<1> QED  BY <1>1, <1>3

\* A hook that resolves its own layer, of a stack of the same shape as data.
LEMMA ResolveIsHook ==
  ASSUME Inv, NEW m \in Mutations, HasOwnLayer(m),
         NEW stack \in Seq(Layer), SameShape(data, stack),
         \A j \in DOMAIN data : j # OwnLayer(m) => stack[j] = data[j],
         data' = ResolveAt(stack, OwnLayer(m)),
         UNCHANGED <<idCount, layerOf, resets>>, phase[m] \in Active,
         NEW p \in Settled, GoTo(m, p)
  PROVE  /\ Hook(m)
         /\ data' \in Seq(Layer)
         /\ \A k \in DOMAIN data' : data'[k].id = layerOf[m] => ~data'[k].optimistic
<1>1. /\ Sorted(data) /\ Alternating(data) /\ data \in Seq(Layer)
      /\ DOMAIN stack = DOMAIN data
  BY InvSorted DEF Inv, SameShape
<1>2. p # phase[m] /\ p \notin Active /\ p # "idle"
  BY DEF Settled, Active
<1>3. phase'[m] = p /\ \A n \in Mutations : n # m => phase'[n] = phase[n]
  BY DEF GoTo, Inv, TypeOK
<1>4. Sorted(stack) /\ Alternating(stack)
  BY <1>1 DEF SameShape, Sorted, Alternating
<1>5. OwnLayer(m) \in DOMAIN stack /\ data[OwnLayer(m)].id = layerOf[m]
  BY <1>1, OwnLayerFound
<1>6. /\ data' \in Seq(Layer)
      /\ Sorted(data')
      /\ Alternating(data')
      /\ KeepsOthers(stack, OwnLayer(m), data')
      /\ MakesNothingUp(stack, OwnLayer(m), data')
  BY <1>4, <1>5, ResolveEffect
<1>7. \A j \in DOMAIN data : data[j].optimistic /\ data[j].id # layerOf[m] =>
         \E k \in DOMAIN data' : data'[k] = data[j]
  BY <1>1, <1>5, <1>6 DEF SameShape, KeepsOthers
<1>8. \A k \in DOMAIN data' : \E j \in DOMAIN data :
         /\ data'[k].id = data[j].id
         /\ data'[k].optimistic => data[j].optimistic
  BY <1>1, <1>6 DEF SameShape, MakesNothingUp
<1>9. \A j \in DOMAIN data : data[j].id = layerOf[m] => j = OwnLayer(m)
  BY <1>1, <1>5, SortedIsInjective
<1>10. ASSUME NEW k \in DOMAIN data', data'[k].id = layerOf[m], data'[k].optimistic
       PROVE  FALSE
  <2>1. PICK j \in DOMAIN stack : data'[k].id = stack[j].id /\ j # OwnLayer(m)
    BY <1>6, <1>10 DEF MakesNothingUp
  <2> QED  BY <1>1, <1>9, <1>10, <2>1 DEF SameShape
<1> QED  BY <1>2, <1>3, <1>6, <1>7, <1>8, <1>10 DEF Hook

-----------------------------------------------------------------------------
(* Every action, one by one                                                 *)

\* mutation.start, after its await, only fills the layer of its own mutation.
LEMMA WriteOptimisticIsHook ==
  ASSUME Inv, NEW m \in Mutations, WriteOptimistic(m)
  PROVE  TypeOK' /\ Hook(m)
<1> DEFINE i == OwnLayer(m)
           q == IF m \in aborted THEN "rejected" ELSE "inflight"
<1>1. PICK p \in OptimisticPatches :
        /\ data' = WriteAt(data, i, p)
        /\ shown' = AfterWrite(shown, data, i, p, FALSE)
        /\ log' = LogRewrite(m, IF m \in aborted THEN NoPatch ELSE p)
  BY DEF WriteOptimistic
<1>2. /\ phase[m] = "marshalling" /\ HasOwnLayer(m) /\ GoTo(m, q)
      /\ UNCHANGED <<idCount, layerOf, aborted, writes, resets>>
  BY DEF WriteOptimistic, Bounds
<1>3. TypeOK /\ p \in Patch /\ i \in DOMAIN data
  BY <1>2, OwnLayerFound, MutationAssumption DEF Inv, TypeOK
<1>4. q \in Phases \ {"idle"} /\ q # phase[m] /\ phase[m] \in Active
  BY <1>2 DEF Phases, Active, Settled
<1>5. /\ data' \in Seq(Layer)
      /\ SameShape(data, data')
      /\ \A j \in DOMAIN data : j # i => data'[j] = data[j]
  BY <1>1, <1>3, WriteAtEffect DEF TypeOK
<1>6. shown' \in Told
  BY <1>1, <1>3, AfterWriteType DEF TypeOK
<1>7. log' \in Seq(Entry)
  BY <1>1, <1>3, LogRewriteType, NoPatchType DEF TypeOK, Entry
<1>8. phase' \in [Mutations -> Phases]
  BY <1>2, <1>3, <1>4, GoToType
<1>9. TypeOK'
  BY <1>2, <1>3, <1>5, <1>6, <1>7, <1>8 DEF TypeOK, Entry
<1>10. Hook(m)
  BY <1>2, <1>4, <1>5, RewriteIsHook
<1> QED  BY <1>9, <1>10

\* A response, written or only half written.
LEMMA ResponseIsHook ==
  ASSUME Inv, NEW m \in Mutations, Respond(m) \/ ResponseUnwritable(m)
  PROVE  TypeOK' /\ Hook(m)
<1> DEFINE i == OwnLayer(m)
           cleared == ClearAt(data, i)
<1>1. /\ phase[m] = "inflight" /\ HasOwnLayer(m)
      /\ UNCHANGED <<idCount, layerOf, aborted, writes, resets>>
  BY DEF Respond, ResponseUnwritable, Bounds
<1>2. PICK p \in ResponsePatches :
        /\ data' = WriteAt(cleared, i, p)
        /\ \/ shown' = AfterWrite(AfterClear(shown, data, i), cleared, i, p, TRUE)
           \/ shown' = AfterClear(shown, data, i)
        /\ log' = LogRewrite(m, p) \/ log' = LogRewrite(m, NoPatch)
  BY DEF Respond, ResponseUnwritable
<1>3. PICK q \in {"ending", "endingWithErrors", "rejected"} : GoTo(m, q)
  BY DEF Respond, ResponseUnwritable
<1>4. TypeOK /\ p \in Patch /\ i \in DOMAIN data /\ data \in Seq(Layer)
  BY <1>1, OwnLayerFound, MutationAssumption DEF Inv, TypeOK
<1>5. q \in Phases \ {"idle"} /\ q # phase[m] /\ phase[m] \in Active
  BY <1>1, <1>3 DEF Phases, Active, Settled
<1>6. /\ cleared \in Seq(Layer)
      /\ SameShape(data, cleared)
      /\ \A j \in DOMAIN data : j # i => cleared[j] = data[j]
  BY <1>4, ClearAtEffect
<1>7. DOMAIN cleared = DOMAIN data
  BY <1>4, <1>6 DEF SameShape
<1>8. AfterClear(shown, data, i) \in Told
  BY <1>4, AfterClearType DEF TypeOK
<1> HIDE DEF cleared
<1>9. /\ data' \in Seq(Layer)
      /\ SameShape(cleared, data')
      /\ \A j \in DOMAIN cleared : j # i => data'[j] = cleared[j]
  BY <1>2, <1>4, <1>6, <1>7, WriteAtEffect
<1>10. SameShape(data, data') /\ \A j \in DOMAIN data : j # i => data'[j] = data[j]
  BY <1>6, <1>7, <1>9 DEF SameShape
<1>11. shown' \in Told
  BY <1>2, <1>4, <1>6, <1>7, <1>8, AfterWriteType
<1>12. log' \in Seq(Entry)
  BY <1>2, <1>4, LogRewriteType, NoPatchType DEF TypeOK, Entry
<1>13. phase' \in [Mutations -> Phases]
  BY <1>3, <1>4, <1>5, GoToType
<1>14. TypeOK'
  BY <1>1, <1>4, <1>9, <1>11, <1>12, <1>13 DEF TypeOK, Entry
<1>15. Hook(m)
  BY <1>1, <1>3, <1>5, <1>9, <1>10, RewriteIsHook
<1> QED  BY <1>14, <1>15

\* mutation.catch, whichever way it is reached, also lets go of the layer.
LEMMA CatchIsHook ==
  ASSUME Inv, NEW m \in Mutations, HasOwnLayer(m), phase[m] \in Active, Catch(m)
  PROVE  /\ TypeOK' /\ Hook(m)
         /\ phase'[m] \in Settled
         /\ \A k \in DOMAIN data' : data'[k].id = layerOf[m] => ~data'[k].optimistic
<1> DEFINE i == OwnLayer(m)
           cleared == ClearAt(data, i)
<1>1. /\ data' = ResolveAt(cleared, i)
      /\ shown' = AfterClear(shown, data, i)
      /\ log' = LogRewrite(m, NoPatch)
      /\ GoTo(m, "rolledback")
      /\ UNCHANGED <<idCount, layerOf, aborted, writes, resets>>
  BY DEF Catch, Bounds
<1>2. TypeOK /\ i \in DOMAIN data /\ data \in Seq(Layer)
  BY OwnLayerFound DEF Inv, TypeOK
<1>3. "rolledback" \in Settled /\ "rolledback" \in Phases
  BY DEF Settled, Phases
<1>4. /\ cleared \in Seq(Layer)
      /\ SameShape(data, cleared)
      /\ \A j \in DOMAIN data : j # i => cleared[j] = data[j]
  BY <1>2, ClearAtEffect
<1>5. /\ Hook(m)
      /\ data' \in Seq(Layer)
      /\ \A k \in DOMAIN data' : data'[k].id = layerOf[m] => ~data'[k].optimistic
  <2> HIDE DEF cleared
  <2> QED  BY <1>1, <1>3, <1>4, ResolveIsHook
<1>6. shown' \in Told
  BY <1>1, <1>2, AfterClearType DEF TypeOK
<1>7. log' \in Seq(Entry)
  BY <1>1, <1>2, LogRewriteType, NoPatchType DEF TypeOK, Entry
<1>8. phase' \in [Mutations -> Phases] /\ phase'[m] = "rolledback"
  BY <1>1, <1>2, <1>3 DEF GoTo, TypeOK
<1>9. TypeOK'
  BY <1>1, <1>2, <1>5, <1>6, <1>7, <1>8 DEF TypeOK, Entry
<1> QED  BY <1>3, <1>5, <1>8, <1>9

\* mutation.end resolves the layer of its own mutation.
LEMMA EndCommitsIsHook ==
  ASSUME Inv, NEW m \in Mutations, EndCommits(m)
  PROVE  /\ TypeOK' /\ Hook(m)
         /\ phase'[m] \in Settled
         /\ \A k \in DOMAIN data' : data'[k].id = layerOf[m] => ~data'[k].optimistic
<1>1. /\ phase[m] = "ending" /\ HasOwnLayer(m)
      /\ data' = ResolveAt(data, OwnLayer(m))
      /\ GoTo(m, "committed")
      /\ UNCHANGED <<idCount, layerOf, aborted, shown, log, writes, resets>>
  BY DEF EndCommits, Bounds
<1>2. TypeOK /\ data \in Seq(Layer)
  BY DEF Inv, TypeOK
<1>3. "committed" \in Settled /\ "committed" \in Phases /\ phase[m] \in Active
  BY <1>1 DEF Settled, Phases, Active
<1>4. SameShape(data, data)
  BY DEF SameShape
<1>5. /\ Hook(m)
      /\ data' \in Seq(Layer)
      /\ \A k \in DOMAIN data' : data'[k].id = layerOf[m] => ~data'[k].optimistic
  BY <1>1, <1>2, <1>3, <1>4, ResolveIsHook
<1>6. phase' \in [Mutations -> Phases] /\ phase'[m] = "committed"
  BY <1>1, <1>2, <1>3 DEF GoTo, TypeOK
<1>7. TypeOK'
  BY <1>1, <1>2, <1>5, <1>6 DEF TypeOK
<1> QED  BY <1>3, <1>5, <1>6, <1>7

\* The steps that leave the stack alone.
LEMMA IdleStepIsHook ==
  ASSUME Inv, NEW m \in Mutations,
         MarshalFails(m) \/ Rejected(m) \/ LayerGone(m) \/ Abort(m)
  PROVE  TypeOK' /\ Hook(m)
<1>1. TypeOK
  BY DEF Inv
<1>2. /\ phase[m] \in Active
      /\ UNCHANGED <<data, idCount, layerOf, shown, writes, resets>>
  BY DEF MarshalFails, Rejected, LayerGone, Abort, Bounds, Active
<1>3. aborted' \in SUBSET Mutations
  BY <1>1, MutationAssumption DEF MarshalFails, Rejected, LayerGone, Abort, TypeOK
<1>4. log' \in Seq(Entry)
  BY <1>1, LogRewriteType, NoPatchType
     DEF MarshalFails, Rejected, LayerGone, Abort, TypeOK, Entry
<1>5. PICK p \in Phases \ {"idle"} : phase' = [phase EXCEPT ![m] = p]
  <2>1. CASE Abort(m)
    <3>1. phase' = [phase EXCEPT ![m] = phase[m]] /\ phase[m] \in Phases \ {"idle"}
      BY <1>1, <1>2, <2>1 DEF Abort, TypeOK, Active, Phases
    <3> QED  BY <3>1
  <2>2. CASE MarshalFails(m) \/ Rejected(m) \/ LayerGone(m)
    <3>1. phase' = [phase EXCEPT ![m] = "rejected"] /\ "rejected" \in Phases \ {"idle"}
      BY <2>2 DEF MarshalFails, Rejected, LayerGone, GoTo, Phases, Settled
    <3> QED  BY <3>1
  <2> QED  BY <2>1, <2>2
<1>6. phase' \in [Mutations -> Phases]
  BY <1>1, <1>5 DEF TypeOK
<1>7. TypeOK'
  BY <1>1, <1>2, <1>3, <1>4, <1>6 DEF TypeOK, Entry
<1>8. Hook(m)
  BY <1>2, <1>5, IdleIsHook
<1> QED  BY <1>7, <1>8

\* Every hook of a mutation is a hook in the sense of the definition above.
LEMMA StepIsHook ==
  ASSUME Inv, NEW m \in Mutations, Step(m) \/ Abort(m)
  PROVE  TypeOK' /\ Hook(m)
<1>1. CASE NetworkFails(m) \/ EndRollsBack(m) \/ EndHookFails(m)
  <2>1. HasOwnLayer(m) /\ phase[m] \in Active /\ Catch(m)
    BY <1>1 DEF NetworkFails, EndRollsBack, EndHookFails, Active
  <2> QED  BY <2>1, CatchIsHook
<1> QED  BY <1>1, WriteOptimisticIsHook, ResponseIsHook, EndCommitsIsHook, IdleStepIsHook
         DEF Step

-----------------------------------------------------------------------------
(* The invariant is inductive                                               *)

\* A hook of any mutation keeps the invariant.
LEMMA HookKeepsInv ==
  ASSUME Inv, TypeOK', NEW m \in Mutations, Hook(m)
  PROVE  Inv'
<1>1. /\ UNCHANGED <<idCount, layerOf, resets>>
      /\ phase[m] \in Active /\ phase'[m] # "idle"
      /\ \A n \in Mutations : n # m => phase'[n] = phase[n]
      /\ Sorted(data') /\ Alternating(data')
      /\ \A k \in DOMAIN data' : \E j \in DOMAIN data : data'[k].id = data[j].id
  BY DEF Hook
<1>2. phase[m] # "idle"
  BY <1>1 DEF Active
<1>3. IdsGrow'
  BY <1>1 DEF Inv, IdsGrow, Sorted
<1>4. Owners'
  BY <1>1, <1>2 DEF Inv, Owners
<1>5. PendingLayerKept'
  <2>1. SUFFICES ASSUME NEW n \in Mutations, phase'[n] \in Active
                 PROVE  \/ \E k \in DOMAIN data' : data'[k].id = layerOf[n] /\ data'[k].optimistic
                        \/ resets > 0 /\ \A k \in DOMAIN data' : data'[k].id # layerOf[n]
    BY <1>1 DEF PendingLayerKept, HasOwnLayer, HasLayer
  <2>2. phase[n] \in Active
    BY <1>1, <2>1
  <2>3. CASE \E j \in DOMAIN data : data[j].id = layerOf[n] /\ data[j].optimistic
    <3>1. PICK j \in DOMAIN data : data[j].id = layerOf[n] /\ data[j].optimistic
      BY <2>3
    <3>2. CASE n = m
      BY <2>1, <3>1, <3>2 DEF Hook
    <3>3. CASE n # m
      <4>1. data[j].id # layerOf[m]
        BY <1>2, <3>1, <3>3 DEF Inv, Owners
      <4>2. PICK k \in DOMAIN data' : data'[k] = data[j]
        BY <3>1, <4>1 DEF Hook
      <4> QED  BY <3>1, <4>2
    <3> QED  BY <3>2, <3>3
  <2>4. CASE resets > 0 /\ ~HasOwnLayer(n)
    BY <1>1, <2>4 DEF HasOwnLayer, HasLayer
  <2> QED  BY <2>2, <2>3, <2>4 DEF Inv, PendingLayerKept
<1> QED  BY <1>1, <1>3, <1>4, <1>5 DEF Inv

\* A mutation begins with a layer of its own on top of the stack.
LEMMA StartKeepsInv ==
  ASSUME Inv, NEW m \in Mutations, Start(m)
  PROVE  /\ Inv'
         /\ \A j \in DOMAIN data : j \in DOMAIN data' /\ data'[j] = data[j]
         /\ \A k \in DOMAIN data' : k \in DOMAIN data \/ data'[k] = NewLayer(idCount, TRUE)
<1> DEFINE new == NewLayer(idCount, TRUE)
<1>1. /\ data' = Append(data, new)
      /\ idCount' = idCount + 1
      /\ layerOf' = [layerOf EXCEPT ![m] = idCount]
      /\ log' = LogAppend(m, NoPatch)
      /\ phase[m] = "idle"
      /\ UNCHANGED <<aborted, shown, writes, resets>>
  BY DEF Start, Bounds
<1>2. PICK p \in {"marshalling", "inflight"} : GoTo(m, p)
  BY DEF Start
<1>3. TypeOK /\ IdsGrow /\ Alternating(data) /\ idCount > 0 /\ Owners
  BY DEF Inv
<1>4. new \in Layer /\ new.id = idCount /\ new.optimistic
  <2>1. new \in Layer
    BY <1>3, NewLayerType DEF TypeOK
  <2> QED  BY <2>1 DEF NewLayer
<1> HIDE DEF new
<1>5. /\ data \in Seq(Layer) /\ data' \in Seq(Layer)
      /\ Len(data) \in Nat
      /\ Len(data') = Len(data) + 1
      /\ DOMAIN data = 1 .. Len(data) /\ DOMAIN data' = 1 .. Len(data) + 1
      /\ \A j \in DOMAIN data : data'[j] = data[j]
      /\ data'[Len(data) + 1] = new
  BY <1>1, <1>3, <1>4 DEF TypeOK
<1>6. p \in Phases /\ p # "idle"
  BY <1>2 DEF Phases, Active
<1>7. phase' \in [Mutations -> Phases] /\ phase'[m] = p
      /\ \A n \in Mutations : n # m => phase'[n] = phase[n]
  BY <1>2, <1>3, <1>6 DEF GoTo, TypeOK
<1>8. layerOf' \in [Mutations -> Nat] /\ layerOf'[m] = idCount
      /\ \A n \in Mutations : n # m => layerOf'[n] = layerOf[n]
  BY <1>1, <1>3 DEF TypeOK
<1>9. log' \in Seq(Entry)
  BY <1>1, <1>3, LogAppendType, NoPatchType DEF TypeOK, Entry
<1>10. TypeOK'
  BY <1>1, <1>3, <1>5, <1>7, <1>8, <1>9 DEF TypeOK, Entry
<1>11. IdsGrow'
  <2>1. \A j \in DOMAIN data : data[j].id \in 1 .. idCount - 1
    BY <1>3 DEF IdsGrow
  <2>2. \A k \in DOMAIN data' : k \in DOMAIN data \/ k = Len(data) + 1
    BY <1>5
  <2>3. idCount \in Nat /\ idCount > 0
    BY <1>3 DEF TypeOK
  <2>4. ASSUME NEW k \in DOMAIN data' PROVE data'[k].id \in 1 .. idCount' - 1
    BY <1>1, <1>4, <1>5, <2>1, <2>2, <2>3
  <2>5. ASSUME NEW j \in DOMAIN data', NEW k \in DOMAIN data', j < k
        PROVE  data'[j].id < data'[k].id
    <3>1. j \in DOMAIN data
      BY <1>5, <2>5
    <3>2. CASE k \in DOMAIN data
      BY <1>3, <1>5, <2>5, <3>1, <3>2 DEF IdsGrow
    <3>3. CASE k = Len(data) + 1
      BY <1>4, <1>5, <2>1, <2>3, <3>1, <3>3
    <3> QED  BY <2>2, <3>2, <3>3
  <2> QED  BY <2>4, <2>5 DEF IdsGrow
<1>12. Alternating(data')
  <2>1. ASSUME NEW j \in 1 .. Len(data') - 1
        PROVE  data'[j].optimistic \/ data'[j + 1].optimistic
    <3>0. j \in 1 .. Len(data) /\ (j = Len(data) \/ j < Len(data))
      <4>1. Len(data) \in Nat /\ Len(data') = Len(data) + 1
        BY <1>5
      <4> QED  BY <4>1
    <3>1. CASE j = Len(data)
      BY <1>4, <1>5, <3>1
    <3>2. CASE j < Len(data)
      <4>1. j \in DOMAIN data /\ j + 1 \in DOMAIN data /\ j \in 1 .. Len(data) - 1
        BY <1>5, <3>2
      <4> QED  BY <1>3, <1>5, <4>1 DEF Alternating
    <3> QED  BY <1>5, <3>0, <3>1, <3>2
  <2> QED  BY <2>1 DEF Alternating
<1>13. idCount' > 0
  BY <1>1, <1>3 DEF TypeOK
<1>14. Owners'
  <2>1. idCount \in Nat /\ idCount > 0 /\ \A n \in Mutations : layerOf[n] \in Nat
    BY <1>3 DEF TypeOK
  <2>2. \A n \in Mutations : layerOf'[n] < idCount'
    BY <1>1, <1>3, <1>8, <2>1 DEF Owners
  <2>3. \A n \in Mutations : phase'[n] = "idle" <=> layerOf'[n] = NoLayer
    BY <1>3, <1>6, <1>7, <1>8, <2>1 DEF Owners, NoLayer
  <2>4. \A n \in Mutations : layerOf[n] # idCount
    BY <1>3, <2>1 DEF Owners
  <2>5. \A n, o \in Mutations : n # o /\ layerOf'[n] # NoLayer => layerOf'[n] # layerOf'[o]
    BY <1>3, <1>8, <2>4 DEF Owners
  <2> QED  BY <2>2, <2>3, <2>5 DEF Owners
<1>15. PendingLayerKept'
  <2>1. SUFFICES ASSUME NEW n \in Mutations, phase'[n] \in Active
                 PROVE  \/ \E k \in DOMAIN data' : data'[k].id = layerOf'[n] /\ data'[k].optimistic
                        \/ resets > 0 /\ \A k \in DOMAIN data' : data'[k].id # layerOf'[n]
    BY <1>1 DEF PendingLayerKept, HasOwnLayer, HasLayer
  <2>2. CASE n = m
    <3>1. Len(data) + 1 \in DOMAIN data'
      BY <1>5
    <3> QED  BY <1>4, <1>5, <1>8, <2>2, <3>1
  <2>3. CASE n # m
    <3>1. phase[n] \in Active /\ layerOf'[n] = layerOf[n]
      BY <1>7, <1>8, <2>1, <2>3
    <3>2. CASE \E j \in DOMAIN data : data[j].id = layerOf[n] /\ data[j].optimistic
      <4>1. PICK j \in DOMAIN data : data[j].id = layerOf[n] /\ data[j].optimistic
        BY <3>2
      <4>2. j \in DOMAIN data' /\ data'[j] = data[j]
        BY <1>5
      <4> QED  BY <3>1, <4>1, <4>2
    <3>3. CASE resets > 0 /\ ~HasOwnLayer(n)
      <4>1. layerOf[n] # idCount
        BY <1>3 DEF Owners, TypeOK
      <4>2. \A k \in DOMAIN data' : k \in DOMAIN data \/ k = Len(data) + 1
        BY <1>5
      <4>3. \A k \in DOMAIN data' : data'[k].id # layerOf[n]
        BY <1>4, <1>5, <3>3, <4>1, <4>2 DEF HasOwnLayer, HasLayer
      <4> QED  BY <3>1, <3>3, <4>3
    <3> QED  BY <3>1, <3>2, <3>3 DEF Inv, PendingLayerKept
  <2> QED  BY <2>2, <2>3
<1>16. \A k \in DOMAIN data' : k \in DOMAIN data \/ data'[k] = new
  BY <1>5
<1>17. \A j \in DOMAIN data : j \in DOMAIN data' /\ data'[j] = data[j]
  BY <1>5
<1>18. Inv'
  BY <1>10, <1>11, <1>12, <1>13, <1>14, <1>15 DEF Inv
<1> QED  BY <1>16, <1>17, <1>18 DEF new

\* A write that is not a mutation's leaves every optimistic layer where it is.
LEMMA QueryWriteKeepsInv ==
  ASSUME Inv, QueryWrite
  PROVE  /\ Inv'
         /\ \A j \in DOMAIN data : /\ j \in DOMAIN data'
                                   /\ data[j].optimistic => data'[j] = data[j]
         /\ \A k \in DOMAIN data' : data'[k].optimistic =>
              k \in DOMAIN data /\ data'[k] = data[k]
<1> DEFINE stack == WithTop(data, idCount)
           top == Len(stack)
           n == Len(data)
<1>1. PICK p \in QueryPatches :
        /\ data' = WriteAt(stack, top, p)
        /\ shown' = AfterWrite(shown, stack, top, p, FALSE)
        /\ log' = LogAppend(Query, p)
  BY DEF QueryWrite
<1>2. /\ idCount' = IF NeedsTop(data) THEN idCount + 1 ELSE idCount
      /\ writes < MaxWrites /\ writes' = writes + 1
      /\ UNCHANGED <<phase, layerOf, aborted, resets>>
  BY DEF QueryWrite
<1>3. TypeOK /\ IdsGrow /\ Alternating(data) /\ idCount > 0 /\ Owners /\ PendingLayerKept
  BY DEF Inv
<1>4. data \in Seq(Layer) /\ idCount \in Nat /\ p \in Patch /\ n \in Nat /\ DOMAIN data = 1 .. n
  BY <1>3, MutationAssumption DEF TypeOK
<1>5. /\ stack \in Seq(Layer)
      /\ DOMAIN stack = 1 .. top
      /\ top \in DOMAIN stack
      /\ top = IF NeedsTop(data) THEN n + 1 ELSE n
      /\ \A j \in DOMAIN data : stack[j] = data[j]
      /\ NeedsTop(data) => stack[n + 1] = NewLayer(idCount, FALSE)
  <2>1. /\ stack \in Seq(Layer)
        /\ top \in DOMAIN stack
        /\ top = IF NeedsTop(data) THEN n + 1 ELSE n
        /\ \A j \in DOMAIN data : stack[j] = data[j]
        /\ NeedsTop(data) => stack[n + 1] = NewLayer(idCount, FALSE)
    BY <1>4, WithTopEffect
  <2>2. DOMAIN stack = 1 .. top
    BY <2>1
  <2> QED  BY <2>1, <2>2
<1>6. NewLayer(idCount, FALSE).id = idCount /\ ~NewLayer(idCount, FALSE).optimistic
  BY DEF NewLayer
<1> HIDE DEF stack, top, n
<1>7. /\ data' \in Seq(Layer)
      /\ Len(data') = top /\ DOMAIN data' = 1 .. top
      /\ \A j \in 1 .. top : /\ data'[j].id = stack[j].id
                             /\ data'[j].optimistic = stack[j].optimistic
                             /\ j # top => data'[j] = stack[j]
  <2>1. /\ data' \in Seq(Layer)
        /\ SameShape(stack, data')
        /\ \A j \in DOMAIN stack : j # top => data'[j] = stack[j]
    BY <1>1, <1>4, <1>5, WriteAtEffect
  <2>2. Len(data') = top
    BY <2>1 DEF SameShape, top
  <2> QED  BY <1>5, <2>1, <2>2 DEF SameShape
<1>8. ~stack[top].optimistic
  <2>1. CASE NeedsTop(data)
    BY <1>5, <1>6, <2>1
  <2>2. CASE ~NeedsTop(data)
    <3>1. data # <<>> /\ ~data[n].optimistic
      BY <2>2 DEF NeedsTop, n
    <3>2. n \in DOMAIN data
      BY <1>4, <3>1
    <3> QED  BY <1>5, <2>2, <3>1, <3>2
  <2> QED  BY <2>1, <2>2
<1>9. \A j \in DOMAIN data : /\ j \in DOMAIN data'
                             /\ data'[j].id = data[j].id
                             /\ data'[j].optimistic = data[j].optimistic
                             /\ data[j].optimistic => data'[j] = data[j]
  BY <1>4, <1>5, <1>7, <1>8
<1>10. \A k \in DOMAIN data' :
         \/ k \in DOMAIN data
         \/ /\ k = n + 1 /\ k = top /\ NeedsTop(data)
            /\ data'[k].id = idCount /\ ~data'[k].optimistic
  <2>1. TAKE k \in DOMAIN data'
  <2>2. k \in 1 .. top /\ n \in Nat
    BY <1>4, <1>7
  <2>3. CASE NeedsTop(data) /\ k = n + 1
    BY <1>5, <1>6, <1>7, <2>2, <2>3
  <2>4. CASE ~(NeedsTop(data) /\ k = n + 1)
    <3>1. top \in {n, n + 1} /\ (top = n + 1 => NeedsTop(data))
      BY <1>4, <1>5
    <3> QED  BY <1>4, <2>2, <2>4, <3>1
  <2> QED  BY <2>3, <2>4
<1>11. TypeOK'
  <2>1. shown' \in Told
    BY <1>1, <1>3, <1>4, <1>5, AfterWriteType DEF TypeOK
  <2>2. log' \in Seq(Entry)
    BY <1>1, <1>3, <1>4, LogAppendType DEF TypeOK, Entry
  <2>3. writes' \in 0 .. MaxWrites
    BY <1>2, <1>3, MutationAssumption DEF TypeOK
  <2>4. idCount' \in Nat
    BY <1>2, <1>4
  <2> QED  BY <1>2, <1>3, <1>7, <2>1, <2>2, <2>3, <2>4 DEF TypeOK, Entry
<1>12. idCount' > 0 /\ idCount' >= idCount /\ (NeedsTop(data) => idCount' = idCount + 1)
  BY <1>2, <1>3, <1>4
<1>13. IdsGrow'
  <2>1. \A j \in DOMAIN data : data[j].id \in 1 .. idCount - 1
    BY <1>3 DEF IdsGrow
  <2>2. ASSUME NEW k \in DOMAIN data' PROVE data'[k].id \in 1 .. idCount' - 1
    BY <1>2, <1>3, <1>4, <1>9, <1>10, <2>1
  <2>3. ASSUME NEW j \in DOMAIN data', NEW k \in DOMAIN data', j < k
        PROVE  data'[j].id < data'[k].id
    <3>1. j \in DOMAIN data
      BY <1>4, <1>5, <1>7, <1>10, <2>3
    <3>2. CASE k \in DOMAIN data
      BY <1>3, <1>9, <2>3, <3>1, <3>2 DEF IdsGrow
    <3>3. CASE data'[k].id = idCount
      BY <1>4, <1>9, <2>1, <3>1, <3>3
    <3> QED  BY <1>10, <3>2, <3>3
  <2> QED  BY <2>2, <2>3 DEF IdsGrow
<1>14. Alternating(data')
  <2>1. ASSUME NEW j \in 1 .. Len(data') - 1
        PROVE  data'[j].optimistic \/ data'[j + 1].optimistic
    <3>1. j \in 1 .. n /\ j \in DOMAIN data /\ j + 1 \in DOMAIN data'
      BY <1>4, <1>5, <1>7
    <3>2. CASE j + 1 \in DOMAIN data
      <4>1. j \in 1 .. n - 1
        BY <1>4, <3>1, <3>2
      <4> QED  BY <1>3, <1>9, <3>1, <3>2, <4>1 DEF Alternating
    <3>3. CASE j + 1 = n + 1 /\ NeedsTop(data)
      <4>1. j = n /\ data # <<>>
        BY <1>4, <3>1, <3>3
      <4>2. data[n].optimistic
        BY <3>3, <4>1 DEF NeedsTop, n
      <4> QED  BY <1>9, <3>1, <4>1, <4>2
    <3> QED  BY <1>10, <3>1, <3>2, <3>3
  <2> QED  BY <2>1 DEF Alternating
<1>15. Owners'
  BY <1>2, <1>3, <1>4, <1>12 DEF Owners, TypeOK
<1>16. PendingLayerKept'
  <2>1. SUFFICES ASSUME NEW m \in Mutations, phase[m] \in Active
                 PROVE  \/ \E k \in DOMAIN data' : data'[k].id = layerOf[m] /\ data'[k].optimistic
                        \/ resets > 0 /\ \A k \in DOMAIN data' : data'[k].id # layerOf[m]
    BY <1>2 DEF PendingLayerKept, HasOwnLayer, HasLayer
  <2>2. CASE \E j \in DOMAIN data : data[j].id = layerOf[m] /\ data[j].optimistic
    BY <1>9, <2>2
  <2>3. CASE resets > 0 /\ ~HasOwnLayer(m)
    <3>1. layerOf[m] # idCount
      BY <1>3, <1>4 DEF Owners, TypeOK
    <3>2. \A k \in DOMAIN data' : data'[k].id # layerOf[m]
      BY <1>9, <1>10, <2>3, <3>1 DEF HasOwnLayer, HasLayer
    <3> QED  BY <2>3, <3>2
  <2> QED  BY <1>3, <2>1, <2>2, <2>3 DEF PendingLayerKept
<1>17. Inv'
  BY <1>11, <1>12, <1>13, <1>14, <1>15, <1>16 DEF Inv
<1>18. \A k \in DOMAIN data' : data'[k].optimistic => k \in DOMAIN data /\ data'[k] = data[k]
  BY <1>9, <1>10
<1> QED  BY <1>9, <1>17, <1>18

\* Cache.reset keeps the invariant: the layers go and the ids go on.
LEMMA ResetKeepsInv ==
  ASSUME Inv, Reset
  PROVE  Inv' /\ data' = <<>> /\ resets' # resets
<1>1. TypeOK /\ idCount > 0 /\ Owners
  BY DEF Inv
<1>2. /\ data' = <<>> /\ shown' = [c \in Cell |-> Nobody] /\ log' = <<>>
      /\ resets < MaxResets /\ resets' = resets + 1
      /\ UNCHANGED <<idCount, phase, layerOf, aborted, writes>>
  BY DEF Reset
<1>3. data' \in Seq(Layer) /\ DOMAIN data' = {} /\ Len(data') = 0
  BY <1>2
<1>4. log' \in Seq([owner : Mutations \cup {Query}, patch : Patch])
  BY <1>2
<1>5. resets' \in 0 .. MaxResets /\ resets' > 0 /\ resets' # resets
  BY <1>1, <1>2, MutationAssumption DEF TypeOK
<1>6. shown' \in Told
  BY <1>2 DEF Told
<1>7. TypeOK'
  BY <1>1, <1>2, <1>3, <1>4, <1>5, <1>6 DEF TypeOK
<1>8. IdsGrow'
  BY <1>3 DEF IdsGrow
<1>9. Alternating(data')
  BY <1>3 DEF Alternating
<1>10. Owners'
  BY <1>1, <1>2 DEF Owners
<1>11. PendingLayerKept'
  BY <1>3, <1>5 DEF PendingLayerKept, HasOwnLayer, HasLayer
<1> QED  BY <1>1, <1>2, <1>5, <1>7, <1>8, <1>9, <1>10, <1>11 DEF Inv

\* The invariant holds of the empty cache.
LEMMA InvInit == Init => Inv
<1> SUFFICES ASSUME Init PROVE Inv
  OBVIOUS
<1>1. TypeOK
  BY TypeInit
<1>2. IdsGrow /\ Alternating(data) /\ idCount > 0
  BY DEF Init, IdsGrow, Alternating
<1>3. Owners
  BY DEF Init, Owners, NoLayer
<1>4. PendingLayerKept
  BY DEF Init, PendingLayerKept, Active
<1> QED  BY <1>1, <1>2, <1>3, <1>4 DEF Inv

\* The invariant speaks of the variables only, and of the subscribers only
\* that what they were told is a value.
LEMMA InvStutter == Inv /\ (Subscribe \/ UNCHANGED vars) => Inv'
<1> SUFFICES ASSUME Inv, Subscribe \/ UNCHANGED vars PROVE Inv'
  OBVIOUS
<1>0. UNCHANGED <<data, idCount, phase, layerOf, aborted, writes, resets, log>>
  BY DEF Subscribe, Bounds, vars
<1>1. TypeOK'
  <2>1. shown \in Told /\ data \in Seq(Layer)
    BY DEF Inv, TypeOK
  <2>2. Display(data) \in Told
    BY <2>1, DisplayType DEF Told, Contents
  <2>3. shown' \in Told
    BY <2>1, <2>2 DEF Subscribe, vars
  <2> QED  BY <1>0, <2>3 DEF Inv, TypeOK
<1>2. IdsGrow' /\ Alternating(data') /\ idCount' > 0
  BY <1>0 DEF Inv, IdsGrow, Alternating
<1>3. Owners'
  BY <1>0 DEF Inv, Owners
<1>4. PendingLayerKept'
  BY <1>0 DEF Inv, PendingLayerKept, HasOwnLayer, HasLayer
<1> QED  BY <1>1, <1>2, <1>3, <1>4 DEF Inv

\* Every step of the client keeps the invariant.
LEMMA InvNext == Inv /\ [Next]_vars => Inv'
<1> SUFFICES ASSUME Inv, [Next]_vars PROVE Inv'
  OBVIOUS
<1>1. ASSUME NEW m \in Mutations, Start(m) PROVE Inv'
  BY <1>1, StartKeepsInv
<1>2. ASSUME NEW m \in Mutations, Step(m) \/ Abort(m) PROVE Inv'
  BY <1>2, StepIsHook, HookKeepsInv
<1>3. CASE QueryWrite
  BY <1>3, QueryWriteKeepsInv
<1>4. CASE Reset
  BY <1>4, ResetKeepsInv
<1>5. CASE Subscribe \/ UNCHANGED vars
  BY <1>5, InvStutter
<1> QED  BY <1>1, <1>2, <1>3, <1>4, <1>5 DEF Next

\* The inductive invariant: the types, the order of the ids, the layers of the
\* mutations in flight.  The theorems below are its parts.
THEOREM InvHolds == Spec => []Inv
BY InvInit, InvNext, PTL DEF Spec

-----------------------------------------------------------------------------
(* Theorems                                                                 *)

\* The state of the cache and of the mutations over it stays well typed.
THEOREM TypeCorrect == Spec => []TypeOK
<1>1. Inv => TypeOK
  BY DEF Inv
<1> QED  BY <1>1, InvHolds, PTL

\* Layer ids grow up the stack, so isDisplayLayer may compare ids for heights.
THEOREM IdsGrowHolds == Spec => []IdsGrow
<1>1. Inv => IdsGrow
  BY DEF Inv
<1> QED  BY <1>1, InvHolds, PTL

\* No merge takes the layer of a mutation in flight away from it.
THEOREM PendingLayerKeptHolds == Spec => []PendingLayerKept
<1>1. Inv => PendingLayerKept
  BY DEF Inv
<1> QED  BY <1>1, InvHolds, PTL

\* No step but a mutation's own hook, or a reset, changes what its optimistic
\* layer says: the mutations in flight, and the queries, do not disturb it.
THEOREM PendingLayerIsolatedHolds == Spec => PendingLayerIsolated
<1> DEFINE A == resets' = resets =>
              \A i \in DOMAIN data :
                data[i].optimistic
                /\ (\A m \in Mutations : layerOf[m] = data[i].id => phase'[m] = phase[m])
                  => \E j \in DOMAIN data' : data'[j] = data[i]
<1>1. Inv /\ [Next]_vars => [A]_vars
  <2> SUFFICES ASSUME Inv, [Next]_vars PROVE [A]_vars
    OBVIOUS
  <2>1. ASSUME NEW m \in Mutations, Start(m) PROVE A
    BY <2>1, StartKeepsInv
  <2>2. ASSUME NEW m \in Mutations, Hook(m) PROVE A
    <3>1. SUFFICES ASSUME NEW i \in DOMAIN data, data[i].optimistic,
                          layerOf[m] = data[i].id => phase'[m] = phase[m]
                   PROVE  \E j \in DOMAIN data' : data'[j] = data[i]
      OBVIOUS
    <3>2. CASE phase'[m] = phase[m]
      BY <2>2, <3>2 DEF Hook
    <3>3. CASE phase'[m] # phase[m]
      BY <2>2, <3>1, <3>3 DEF Hook
    <3> QED  BY <3>2, <3>3
  <2>3. ASSUME NEW m \in Mutations, Step(m) \/ Abort(m) PROVE A
    BY <2>2, <2>3, StepIsHook
  <2>4. CASE QueryWrite
    BY <2>4, QueryWriteKeepsInv
  <2>5. CASE Reset
    BY <2>5, ResetKeepsInv
  <2>6. CASE Subscribe
    BY <2>6 DEF Subscribe
  <2> QED  BY <2>1, <2>3, <2>4, <2>5, <2>6 DEF Next
<1>2. PendingLayerIsolated <=> [][A]_vars
  BY DEF PendingLayerIsolated
<1> QED  BY <1>1, <1>2, InvHolds, PTL DEF Spec

-----------------------------------------------------------------------------
(* Compaction, where no mutation is aborted and no hook throws              *)

\* Every optimistic layer belongs to a mutation in flight.
Owned ==
  /\ aborted = {}
  /\ \A i \in DOMAIN data : data[i].optimistic =>
       \E m \in Mutations : phase[m] \in Active /\ layerOf[m] = data[i].id

\* A hook of m keeps every optimistic layer owned, if a hook that settles m
\* leaves no optimistic layer of m behind.
LEMMA HookKeepsOwned ==
  ASSUME Inv, Owned, NEW m \in Mutations, Hook(m), aborted' = {},
         \/ phase'[m] \in Active
         \/ \A k \in DOMAIN data' : data'[k].id = layerOf[m] => ~data'[k].optimistic
  PROVE  Owned'
<1>1. SUFFICES ASSUME NEW k \in DOMAIN data', data'[k].optimistic
               PROVE  \E n \in Mutations : phase'[n] \in Active /\ layerOf[n] = data'[k].id
  BY DEF Owned, Hook
<1>2. PICK j \in DOMAIN data : data'[k].id = data[j].id /\ data[j].optimistic
  BY <1>1 DEF Hook
<1>3. PICK n \in Mutations : phase[n] \in Active /\ layerOf[n] = data[j].id
  BY <1>2 DEF Owned
<1>4. CASE n = m
  BY <1>1, <1>2, <1>3, <1>4
<1>5. CASE n # m
  BY <1>2, <1>3, <1>5 DEF Hook
<1> QED  BY <1>4, <1>5

\* Every step keeps each optimistic layer owned by a mutation in flight.
LEMMA OwnedNext ==
  ASSUME Abortable = {}, Faulty = FALSE, Inv, Owned, [Next]_vars
  PROVE  Owned'
<1>1. ASSUME NEW m \in Mutations, Start(m) PROVE Owned'
  <2>1. /\ phase[m] = "idle" /\ aborted' = aborted
        /\ layerOf' = [layerOf EXCEPT ![m] = idCount]
    BY <1>1 DEF Start
  <2>2. PICK p \in {"marshalling", "inflight"} : GoTo(m, p)
    BY <1>1 DEF Start
  <2>3. /\ phase'[m] \in Active /\ layerOf'[m] = idCount
        /\ \A n \in Mutations : n # m => phase'[n] = phase[n] /\ layerOf'[n] = layerOf[n]
    BY <2>1, <2>2 DEF GoTo, Inv, TypeOK, Active
  <2>4. ASSUME NEW k \in DOMAIN data', data'[k].optimistic
        PROVE  \E n \in Mutations : phase'[n] \in Active /\ layerOf'[n] = data'[k].id
    <3>1. CASE k \in DOMAIN data
      <4>1. data'[k] = data[k]
        BY <1>1, <3>1, StartKeepsInv
      <4>2. PICK n \in Mutations : phase[n] \in Active /\ layerOf[n] = data[k].id
        BY <2>4, <3>1, <4>1 DEF Owned
      <4>3. n # m
        BY <2>1, <4>2 DEF Active
      <4> QED  BY <2>3, <4>1, <4>2, <4>3
    <3>2. CASE data'[k] = NewLayer(idCount, TRUE)
      <4>1. data'[k].id = idCount
        BY <3>2 DEF NewLayer
      <4> QED  BY <2>3, <4>1
    <3> QED  BY <1>1, <3>1, <3>2, StartKeepsInv
  <2> QED  BY <2>1, <2>4 DEF Owned
<1>2. ASSUME NEW m \in Mutations, Step(m) PROVE Owned'
  <2>1. aborted = {} /\ aborted' = {}
    BY <1>2 DEF Owned, Step, WriteOptimistic, MarshalFails, Respond, ResponseUnwritable,
       NetworkFails, EndCommits, EndRollsBack, EndHookFails, Rejected, LayerGone, Catch
  <2>2. Hook(m)
    BY <1>2, StepIsHook
  <2>3. CASE WriteOptimistic(m) \/ Respond(m)
    <3>1. phase'[m] \in Active
      <4>1. PICK p \in {"inflight", "ending", "endingWithErrors"} : GoTo(m, p)
        BY <2>1, <2>3 DEF WriteOptimistic, Respond
      <4> QED  BY <4>1 DEF GoTo, Active, Inv, TypeOK
    <3> QED  BY <2>1, <2>2, <3>1, HookKeepsOwned
  <2>4. CASE NetworkFails(m) \/ EndRollsBack(m) \/ EndHookFails(m)
    <3>1. HasOwnLayer(m) /\ phase[m] \in Active /\ Catch(m)
      BY <2>4 DEF NetworkFails, EndRollsBack, EndHookFails, Active
    <3>2. \A k \in DOMAIN data' : data'[k].id = layerOf[m] => ~data'[k].optimistic
      BY <3>1, CatchIsHook
    <3> QED  BY <2>1, <2>2, <3>2, HookKeepsOwned
  <2>5. CASE EndCommits(m)
    <3>1. \A k \in DOMAIN data' : data'[k].id = layerOf[m] => ~data'[k].optimistic
      BY <2>5, EndCommitsIsHook
    <3> QED  BY <2>1, <2>2, <3>1, HookKeepsOwned
  <2>6. CASE LayerGone(m)
    <3>1. \A k \in DOMAIN data' : data'[k].id # layerOf[m]
      BY <2>6 DEF LayerGone, HasOwnLayer, HasLayer
    <3> QED  BY <2>1, <2>2, <3>1, HookKeepsOwned
  <2>7. CASE MarshalFails(m) \/ ResponseUnwritable(m) \/ Rejected(m)
    BY <2>1, <2>7 DEF MarshalFails, ResponseUnwritable, Rejected
  <2> QED  BY <1>2, <2>3, <2>4, <2>5, <2>6, <2>7 DEF Step
<1>3. ASSUME NEW m \in Mutations, Abort(m) PROVE Owned'
  BY <1>3 DEF Abort
<1>4. CASE QueryWrite
  <2>1. UNCHANGED <<phase, layerOf, aborted>>
    BY <1>4 DEF QueryWrite
  <2>2. \A k \in DOMAIN data' : data'[k].optimistic => k \in DOMAIN data /\ data'[k] = data[k]
    BY <1>4, QueryWriteKeepsInv
  <2> QED  BY <2>1, <2>2 DEF Owned
<1>5. CASE Reset
  <2>1. UNCHANGED aborted /\ DOMAIN data' = {}
    BY <1>5 DEF Reset
  <2> QED  BY <2>1 DEF Owned
<1>6. CASE Subscribe \/ UNCHANGED vars
  BY <1>6 DEF Subscribe, vars, Owned
<1> QED  BY <1>1, <1>2, <1>3, <1>4, <1>5, <1>6 DEF Next

\* Where no AbortController fires and no hook throws on its data, a settled
\* mutation leaves no layer of its own, and no two committed layers pile up.
THEOREM CompactedHolds ==
  ASSUME Abortable = {}, Faulty = FALSE
  PROVE  Spec => []Compacted
<1>1. Init => Owned
  BY DEF Init, Owned
<1>2. Inv /\ Owned /\ [Next]_vars => Owned'
  BY OwnedNext
<1>3. Inv /\ Owned => Compacted
  BY DEF Inv, Owned, Compacted
<1> QED  BY <1>1, <1>2, <1>3, InvHolds, PTL DEF Spec

-----------------------------------------------------------------------------
(* Merging is invisible, where no operation deletes a record                *)

NothingDeletes ==
  \A p \in OptimisticPatches \cup ResponsePatches \cup QueryPatches : p.deletes = {}

\* If no operation deletes records, no layer ever holds a delete.
LEMMA NoDeletesNext ==
  ASSUME NothingDeletes, Inv, NoDeletes(data), [Next]_vars
  PROVE  NoDeletes(data')
<1>1. data \in Seq(Layer) /\ idCount \in Nat /\ Sorted(data) /\ Alternating(data)
  BY InvSorted DEF Inv, TypeOK
<1>2. ASSUME NEW m \in Mutations, Start(m) PROVE NoDeletes(data')
  <2>1. data' = Append(data, NewLayer(idCount, TRUE)) /\ NewLayer(idCount, TRUE) \in Layer
    BY <1>1, <1>2, NewLayerType DEF Start
  <2>2. NewLayer(idCount, TRUE).deleted = {}
    BY DEF NewLayer
  <2>3. \A k \in DOMAIN data' : k \in DOMAIN data \/ data'[k] = NewLayer(idCount, TRUE)
    BY <1>2, StartKeepsInv
  <2>4. \A k \in DOMAIN data : data'[k] = data[k]
    BY <1>2, StartKeepsInv
  <2> QED  BY <2>2, <2>3, <2>4 DEF NoDeletes
<1>3. ASSUME NEW m \in Mutations, WriteOptimistic(m) PROVE NoDeletes(data')
  <2>1. OwnLayer(m) \in DOMAIN data
    BY <1>1, <1>3, OwnLayerFound DEF WriteOptimistic
  <2>2. PICK p \in OptimisticPatches : data' = WriteAt(data, OwnLayer(m), p)
    BY <1>3 DEF WriteOptimistic
  <2>3. p \in Patch /\ p.deletes = {}
    BY MutationAssumption DEF NothingDeletes
  <2> QED  BY <1>1, <2>1, <2>2, <2>3, WriteAtDeletesNothing
<1>4. ASSUME NEW m \in Mutations, Respond(m) \/ ResponseUnwritable(m) PROVE NoDeletes(data')
  <2>1. OwnLayer(m) \in DOMAIN data
    BY <1>1, <1>4, OwnLayerFound DEF Respond, ResponseUnwritable
  <2>2. PICK p \in ResponsePatches : data' = WriteAt(ClearAt(data, OwnLayer(m)), OwnLayer(m), p)
    BY <1>4 DEF Respond, ResponseUnwritable
  <2>3. p \in Patch /\ p.deletes = {}
    BY MutationAssumption DEF NothingDeletes
  <2>4. /\ ClearAt(data, OwnLayer(m)) \in Seq(Layer)
        /\ OwnLayer(m) \in DOMAIN ClearAt(data, OwnLayer(m))
    BY <1>1, <2>1, ClearAtEffect DEF SameShape
  <2> QED  BY <1>1, <2>1, <2>2, <2>3, <2>4, ClearAtDeletesNothing, WriteAtDeletesNothing
<1>5. ASSUME NEW m \in Mutations, HasOwnLayer(m), Catch(m) PROVE NoDeletes(data')
  <2> DEFINE i == OwnLayer(m)
             stack == ClearAt(data, i)
  <2>1. i \in DOMAIN data /\ data' = ResolveAt(stack, i)
    BY <1>1, <1>5, OwnLayerFound DEF Catch
  <2>2. stack \in Seq(Layer) /\ SameShape(data, stack) /\ NoDeletes(stack)
    BY <1>1, <2>1, ClearAtEffect, ClearAtDeletesNothing
  <2> HIDE DEF i, stack
  <2>3. DOMAIN stack = DOMAIN data
    BY <1>1, <2>2 DEF SameShape
  <2>4. i \in DOMAIN stack /\ Sorted(stack) /\ Alternating(stack)
    <3>1. Sorted(data) /\ Alternating(data) /\ i \in DOMAIN data
      BY <1>1, <2>1
    <3>2. Len(stack) = Len(data) /\ \A j \in DOMAIN data :
            stack[j].id = data[j].id /\ stack[j].optimistic = data[j].optimistic
      BY <2>2 DEF SameShape
    <3>3. Sorted(stack)
      BY <2>3, <3>1, <3>2 DEF Sorted
    <3>4. Alternating(stack)
      <4>1. \A j \in 1 .. Len(data) - 1 : j \in DOMAIN data /\ j + 1 \in DOMAIN data
        BY <1>1
      <4> QED  BY <3>1, <3>2, <4>1 DEF Alternating
    <3> QED  BY <2>3, <3>1, <3>3, <3>4
  <2> QED  BY <2>1, <2>2, <2>4, ResolveEffect
<1>6. ASSUME NEW m \in Mutations, EndCommits(m) PROVE NoDeletes(data')
  <2>1. OwnLayer(m) \in DOMAIN data /\ data' = ResolveAt(data, OwnLayer(m))
    BY <1>1, <1>6, OwnLayerFound DEF EndCommits
  <2> QED  BY <1>1, <2>1, ResolveEffect
<1>7. CASE QueryWrite
  <2> DEFINE stack == WithTop(data, idCount)
  <2>1. PICK p \in QueryPatches : data' = WriteAt(stack, Len(stack), p)
    BY <1>7 DEF QueryWrite
  <2>2. p \in Patch /\ p.deletes = {}
    BY MutationAssumption DEF NothingDeletes
  <2>3. /\ stack \in Seq(Layer) /\ Len(stack) \in DOMAIN stack
        /\ Len(stack) = IF NeedsTop(data) THEN Len(data) + 1 ELSE Len(data)
        /\ \A j \in DOMAIN data : stack[j] = data[j]
        /\ NeedsTop(data) => stack[Len(data) + 1] = NewLayer(idCount, FALSE)
    BY <1>1, WithTopEffect
  <2> HIDE DEF stack
  <2>4. NewLayer(idCount, FALSE).deleted = {}
    BY DEF NewLayer
  <2>5. ASSUME NEW j \in DOMAIN stack PROVE stack[j].deleted = {}
    <3>1. CASE j \in DOMAIN data
      BY <2>3, <3>1 DEF NoDeletes
    <3>2. CASE j \notin DOMAIN data
      <4>1. j = Len(data) + 1 /\ NeedsTop(data)
        BY <1>1, <2>3, <3>2
      <4> QED  BY <2>3, <2>4, <4>1
    <3> QED  BY <3>1, <3>2
  <2>6. NoDeletes(stack)
    BY <2>5 DEF NoDeletes
  <2> QED  BY <2>1, <2>2, <2>3, <2>6, WriteAtDeletesNothing
<1>8. CASE Reset
  BY <1>8 DEF Reset, NoDeletes
<1>9. ASSUME NEW m \in Mutations,
             MarshalFails(m) \/ Rejected(m) \/ LayerGone(m) \/ Abort(m)
      PROVE  NoDeletes(data')
  BY <1>9 DEF MarshalFails, Rejected, LayerGone, Abort
<1>10. ASSUME NEW m \in Mutations, NetworkFails(m) \/ EndRollsBack(m) \/ EndHookFails(m)
       PROVE  NoDeletes(data')
  BY <1>5, <1>10 DEF NetworkFails, EndRollsBack, EndHookFails
<1>11. CASE Subscribe \/ UNCHANGED vars
  BY <1>11 DEF Subscribe, vars
<1> QED  BY <1>2, <1>3, <1>4, <1>6, <1>7, <1>8, <1>9, <1>10, <1>11 DEF Next, Step

\* When a mutation succeeds, the merge of its layer shows its readers nothing
\* that they did not see before, if no operation deletes records.
THEOREM MergeInvisibleHolds ==
  ASSUME NothingDeletes
  PROVE  Spec => MergeInvisible
<1> DEFINE A == (\E m \in Mutations : phase[m] = "ending" /\ phase'[m] = "committed")
                  => Display(data') = Display(data)
<1>1. Init => NoDeletes(data)
  BY DEF Init, NoDeletes
<1>2. Inv /\ NoDeletes(data) /\ [Next]_vars => NoDeletes(data)'
  <2> SUFFICES ASSUME Inv, NoDeletes(data), [Next]_vars PROVE NoDeletes(data)'
    OBVIOUS
  <2>1. NoDeletes(data')
    BY NoDeletesNext
  <2> QED  BY <2>1 DEF NoDeletes
<1>3. Inv /\ NoDeletes(data) /\ [Next]_vars => [A]_vars
  <2> SUFFICES ASSUME Inv, NoDeletes(data), Next,
                      NEW m \in Mutations, phase[m] = "ending", phase'[m] = "committed"
               PROVE  Display(data') = Display(data)
    OBVIOUS
  <2>1. data \in Seq(Layer) /\ Alternating(data) /\ phase \in [Mutations -> Phases]
    BY DEF Inv, TypeOK
  <2>2. ASSUME NEW n \in Mutations, Step(n) \/ Abort(n) PROVE n = m /\ EndCommits(m)
    <3>1. n = m
      BY <2>2, StepIsHook DEF Hook
    <3>2. ASSUME NEW p, GoTo(m, p) PROVE p = "committed"
      BY <2>1, <3>2 DEF GoTo
    <3> QED
      BY <2>2, <3>1, <3>2
         DEF Step, WriteOptimistic, MarshalFails, Respond, ResponseUnwritable, NetworkFails,
             EndRollsBack, EndHookFails, Rejected, LayerGone, Abort, Catch
  <2>3. ASSUME NEW n \in Mutations, Start(n) PROVE FALSE
    <3>1. PICK p : GoTo(n, p)
      BY <2>3 DEF Start
    <3>2. n # m
      BY <2>3 DEF Start
    <3> QED  BY <2>1, <3>1, <3>2 DEF GoTo
  <2>4. ASSUME QueryWrite \/ Reset \/ Subscribe PROVE FALSE
    BY <2>4 DEF QueryWrite, Reset, Subscribe
  <2>5. EndCommits(m)
    BY <2>2, <2>3, <2>4 DEF Next
  <2>6. data' = ResolveAt(data, OwnLayer(m)) /\ OwnLayer(m) \in DOMAIN data
    BY <2>1, <2>5, OwnLayerFound DEF EndCommits
  <2> QED  BY <2>1, <2>6, ResolveInvisible
<1>4. MergeInvisible <=> [][A]_vars
  BY DEF MergeInvisible
<1> QED  BY <1>1, <1>2, <1>3, <1>4, InvHolds, PTL DEF Spec

-----------------------------------------------------------------------------
(* Subscribers are told, where nothing is deleted and no hook throws        *)

\* Whoever subscribes was told what the stack gives.
Current(told, stack) == \A c \in Cell : told[c] \in {Nobody, Lookup(stack, c)}

\* Clearing a layer changes no cell without a notification.
LEMMA QuietClear ==
  ASSUME NEW stack \in Seq(Layer), NoDeletes(stack), NEW i \in DOMAIN stack, NEW c \in Cell,
         ~ClearNotifies(stack, i, c)
  PROVE  Lookup(ClearAt(stack, i), c) = Lookup(stack, c)
<1> DEFINE out == ClearAt(stack, i)
<1>1. /\ out \in Seq(Layer) /\ Len(out) = Len(stack) /\ DOMAIN out = DOMAIN stack
      /\ \A j \in DOMAIN stack : j # i => out[j] = stack[j]
  BY ClearAtEffect DEF SameShape
<1>2. NoDeletes(out)
  BY ClearAtDeletesNothing
<1>3. out[i].fields[c] = Absent
  <2>1. stack[i] \in Layer
    OBVIOUS
  <2> QED  BY <2>1 DEF ClearAt, NoContents, Layer
<1> HIDE DEF out
<1>4. CASE stack[i].fields[c] = Absent
  <2>1. \A j \in DOMAIN stack : out[j].fields[c] = stack[j].fields[c]
    BY <1>1, <1>3, <1>4
  <2>2. Lookup(out, c) = Lookup(stack, c)
    BY <1>1, <1>2, <2>1, SameCellReadsTheSame
  <2> QED  BY <2>2 DEF out
<1>5. CASE stack[i].fields[c] # Absent /\ Decides(stack, i, c)
  <2>1. Lookup(stack, c) = stack[i].fields[c]
    BY <1>5, LookupDecided
  <2> QED  BY <1>5, <2>1 DEF ClearNotifies
<1>6. CASE stack[i].fields[c] # Absent /\ ~Decides(stack, i, c)
  <2>1. Stops(stack[i], c) /\ ~Stops(out[i], c)
    BY <1>1, <1>2, <1>3, <1>6, StopsWithValue
  <2>2. CASE \E k \in DOMAIN stack : Decides(stack, k, c)
    <3>1. PICK k \in DOMAIN stack : Decides(stack, k, c)
      BY <2>2
    <3>2. k > i
      BY <1>6, <2>1, <3>1 DEF Decides
    <3>3. Lookup(out, c) = Lookup(stack, c)
      BY <1>1, <3>1, <3>2, ChangeBelowHidden
    <3> QED  BY <3>3 DEF out
  <2>3. CASE \A k \in DOMAIN stack : ~Decides(stack, k, c)
    <3>1. ASSUME NEW k \in DOMAIN stack, Decides(out, k, c) PROVE FALSE
      <4>1. k # i /\ Stops(stack[k], c)
        BY <1>1, <2>1, <3>1 DEF Decides
      <4>2. \A j \in DOMAIN stack : j > k /\ j # i => ~Stops(stack[j], c)
        BY <1>1, <3>1 DEF Decides
      <4>3. CASE k > i
        <5>1. Decides(stack, k, c)
          BY <4>1, <4>2, <4>3 DEF Decides
        <5> QED  BY <2>3, <5>1
      <4>4. CASE k < i
        <5>1. Decides(stack, i, c)
          BY <2>1, <4>2, <4>4 DEF Decides
        <5> QED  BY <1>6, <5>1
      <4> QED  BY <4>1, <4>3, <4>4
    <3>2. Lookup(out, c) = Absent
      BY <1>1, <3>1, LookupUndecided
    <3>3. Lookup(stack, c) = Absent
      BY <2>3, LookupUndecided
    <3> QED  BY <3>2, <3>3 DEF out
  <2> QED  BY <2>2, <2>3
<1> QED  BY <1>4, <1>5, <1>6

\* Writing into a layer changes no cell without a notification.
LEMMA QuietWrite ==
  ASSUME NEW stack \in Seq(Layer), NoDeletes(stack), Sorted(stack), NEW i \in DOMAIN stack,
         NEW p \in Patch, p.deletes = {}, NEW force \in BOOLEAN, NEW c \in Cell,
         ~WriteNotifies(stack, i, p, force, c)
  PROVE  Lookup(WriteAt(stack, i, p), c) = Lookup(stack, c)
<1> DEFINE out == WriteAt(stack, i, p)
           kept == p.writes[c] = Absent \/ Skipped(stack, c, p.writes[c])
<1>1. /\ out \in Seq(Layer) /\ Len(out) = Len(stack) /\ DOMAIN out = DOMAIN stack
      /\ \A j \in DOMAIN stack : j # i => out[j] = stack[j]
  BY WriteAtEffect DEF SameShape
<1>2. NoDeletes(out)
  BY WriteAtDeletesNothing
<1>3. out[i].fields[c] = IF kept THEN stack[i].fields[c] ELSE p.writes[c]
  <2>1. stack[i] \in Layer
    OBVIOUS
  <2> QED  BY <2>1 DEF WriteAt, Layer
<1> HIDE DEF out
<1>4. CASE kept
  <2>1. \A j \in DOMAIN stack : out[j].fields[c] = stack[j].fields[c]
    BY <1>1, <1>3, <1>4
  <2>2. Lookup(out, c) = Lookup(stack, c)
    BY <1>1, <1>2, <2>1, SameCellReadsTheSame
  <2> QED  BY <2>2 DEF out
<1>5. CASE ~kept
  <2>1. \/ ~IsDisplayLayer(stack, i, c)
        \/ p.writes[c] = Lookup(stack, c)
    BY <1>5 DEF WriteNotifies
  <2>2. Lookup(stack, c) # Absent
    BY <1>5, <2>1 DEF IsDisplayLayer
  <2>3. PICK k \in DOMAIN stack : Decides(stack, k, c)
    BY <2>2, LookupUndecided
  <2>4. CASE k > i
    <3>1. Lookup(out, c) = Lookup(stack, c)
      BY <1>1, <2>3, <2>4, ChangeBelowHidden
    <3> QED  BY <3>1 DEF out
  <2>5. CASE k <= i
    <3>1. stack[k].id <= stack[i].id
      <4>1. stack[k] \in Layer /\ stack[i] \in Layer
        OBVIOUS
      <4>2. k < i => stack[k].id < stack[i].id
        BY DEF Sorted
      <4>3. k = i \/ k < i
        BY <2>5
      <4> QED  BY <4>1, <4>2, <4>3 DEF Layer
    <3>2. IsDisplayLayer(stack, i, c)
      BY <2>3, <3>1 DEF IsDisplayLayer
    <3>3. out[i].fields[c] = Lookup(stack, c) /\ out[i].fields[c] # Absent
      BY <1>3, <1>5, <2>1, <2>2, <3>2
    <3>4. \A j \in DOMAIN out : j > i => ~Stops(out[j], c)
      BY <1>1, <2>3, <2>5 DEF Decides
    <3>5. Lookup(out, c) = Lookup(stack, c)
      BY <1>1, <3>3, <3>4, ChangeOnTopSeen
    <3> QED  BY <3>5 DEF out
  <2> QED  BY <2>4, <2>5
<1> QED  BY <1>4, <1>5

\* Subscribers follow a layer that is cleared.
LEMMA ClearTells ==
  ASSUME NEW stack \in Seq(Layer), NoDeletes(stack), NEW i \in DOMAIN stack,
         NEW told \in Told, Current(told, stack)
  PROVE  Current(AfterClear(told, stack, i), ClearAt(stack, i))
<1> SUFFICES ASSUME NEW c \in Cell
             PROVE  AfterClear(told, stack, i)[c] \in {Nobody, Lookup(ClearAt(stack, i), c)}
  BY DEF Current
<1>1. CASE told[c] # Nobody /\ ClearNotifies(stack, i, c)
  BY <1>1 DEF AfterClear
<1>2. CASE told[c] = Nobody
  BY <1>2 DEF AfterClear
<1>3. CASE told[c] # Nobody /\ ~ClearNotifies(stack, i, c)
  <2>1. Lookup(ClearAt(stack, i), c) = Lookup(stack, c)
    BY <1>3, QuietClear
  <2>2. AfterClear(told, stack, i)[c] = told[c]
    BY <1>3 DEF AfterClear
  <2> QED  BY <2>1, <2>2 DEF Current
<1> QED  BY <1>1, <1>2, <1>3

\* Subscribers follow a write.
LEMMA WriteTells ==
  ASSUME NEW stack \in Seq(Layer), NoDeletes(stack), Sorted(stack), NEW i \in DOMAIN stack,
         NEW p \in Patch, p.deletes = {}, NEW force \in BOOLEAN,
         NEW told \in Told, Current(told, stack)
  PROVE  Current(AfterWrite(told, stack, i, p, force), WriteAt(stack, i, p))
<1> SUFFICES ASSUME NEW c \in Cell
             PROVE  AfterWrite(told, stack, i, p, force)[c]
                      \in {Nobody, Lookup(WriteAt(stack, i, p), c)}
  BY DEF Current
<1>1. CASE told[c] # Nobody /\ WriteNotifies(stack, i, p, force, c)
  BY <1>1 DEF AfterWrite
<1>2. CASE told[c] = Nobody
  BY <1>2 DEF AfterWrite
<1>3. CASE told[c] # Nobody /\ ~WriteNotifies(stack, i, p, force, c)
  <2>1. Lookup(WriteAt(stack, i, p), c) = Lookup(stack, c)
    BY <1>3, QuietWrite
  <2>2. AfterWrite(told, stack, i, p, force)[c] = told[c]
    BY <1>3 DEF AfterWrite
  <2> QED  BY <2>1, <2>2 DEF Current
<1> QED  BY <1>1, <1>2, <1>3

\* Stacks that read the same have the same current subscribers.
LEMMA CurrentByDisplay ==
  ASSUME NEW told, NEW stack, NEW other, Current(told, stack), Display(other) = Display(stack)
  PROVE  Current(told, other)
<1>1. \A c \in Cell : Lookup(other, c) = Lookup(stack, c)
  <2>1. \A c \in Cell : Display(other)[c] = Lookup(other, c) /\ Display(stack)[c] = Lookup(stack, c)
    BY DEF Display
  <2> QED  BY <2>1
<1> QED  BY <1>1 DEF Current

\* If no operation deletes records and no hook throws, every step that changes what is read
\* tells those who read it.
LEMMA SubscribersCurrentNext ==
  ASSUME NothingDeletes, ~Faulty, Inv, NoDeletes(data), Current(shown, data), [Next]_vars
  PROVE  Current(shown', data')
<1>1. /\ data \in Seq(Layer) /\ idCount \in Nat /\ Sorted(data) /\ Alternating(data)
      /\ shown \in Told
  BY InvSorted DEF Inv, TypeOK
<1>2. ASSUME NEW m \in Mutations, Start(m) PROVE Current(shown', data')
  <2>1. data' = Append(data, NewLayer(idCount, TRUE)) /\ shown' = shown
    BY <1>2 DEF Start
  <2>2. Display(data') = Display(data)
    BY <1>1, <2>1, NewLayerInvisible
  <2> QED  BY <2>1, <2>2, CurrentByDisplay
<1>3. ASSUME NEW m \in Mutations, WriteOptimistic(m) PROVE Current(shown', data')
  <2>1. OwnLayer(m) \in DOMAIN data
    BY <1>1, <1>3, OwnLayerFound DEF WriteOptimistic
  <2>2. PICK p \in OptimisticPatches :
          /\ data' = WriteAt(data, OwnLayer(m), p)
          /\ shown' = AfterWrite(shown, data, OwnLayer(m), p, FALSE)
    BY <1>3 DEF WriteOptimistic
  <2>3. p \in Patch /\ p.deletes = {}
    BY MutationAssumption DEF NothingDeletes
  <2> QED  BY <1>1, <2>1, <2>2, <2>3, WriteTells
<1>4. ASSUME NEW m \in Mutations, Respond(m) PROVE Current(shown', data')
  <2> DEFINE i == OwnLayer(m)
             cleared == ClearAt(data, i)
             told == AfterClear(shown, data, i)
  <2>1. i \in DOMAIN data
    BY <1>1, <1>4, OwnLayerFound DEF Respond
  <2>2. PICK p \in ResponsePatches : /\ data' = WriteAt(cleared, i, p)
                                     /\ shown' = AfterWrite(told, cleared, i, p, TRUE)
    BY <1>4 DEF Respond
  <2>3. p \in Patch /\ p.deletes = {}
    BY MutationAssumption DEF NothingDeletes
  <2>4. cleared \in Seq(Layer) /\ SameShape(data, cleared) /\ NoDeletes(cleared)
    BY <1>1, <2>1, ClearAtEffect, ClearAtDeletesNothing
  <2>5. told \in Told /\ Current(told, cleared)
    BY <1>1, <2>1, AfterClearType, ClearTells
  <2> HIDE DEF i, cleared, told
  <2>6. DOMAIN cleared = DOMAIN data
    BY <1>1, <2>4 DEF SameShape
  <2>7. i \in DOMAIN cleared /\ Sorted(cleared)
    BY <1>1, <2>1, <2>4, <2>6 DEF SameShape, Sorted
  <2> QED  BY <2>2, <2>3, <2>4, <2>5, <2>7, WriteTells
<1>5. ASSUME NEW m \in Mutations, HasOwnLayer(m), Catch(m) PROVE Current(shown', data')
  <2> DEFINE i == OwnLayer(m)
             stack == ClearAt(data, i)
  <2>1. i \in DOMAIN data /\ data' = ResolveAt(stack, i) /\ shown' = AfterClear(shown, data, i)
    BY <1>1, <1>5, OwnLayerFound DEF Catch
  <2>2. stack \in Seq(Layer) /\ SameShape(data, stack) /\ NoDeletes(stack)
    BY <1>1, <2>1, ClearAtEffect, ClearAtDeletesNothing
  <2>3. Current(shown', stack)
    BY <1>1, <2>1, ClearTells
  <2> HIDE DEF i, stack
  <2>4. DOMAIN stack = DOMAIN data
    BY <1>1, <2>2 DEF SameShape
  <2>5. i \in DOMAIN stack /\ Alternating(stack)
    BY <1>1, <2>1, <2>2, <2>4 DEF SameShape, Alternating
  <2>6. Display(data') = Display(stack)
    BY <2>1, <2>2, <2>5, ResolveInvisible
  <2> QED  BY <2>3, <2>6, CurrentByDisplay
<1>6. ASSUME NEW m \in Mutations, EndCommits(m) PROVE Current(shown', data')
  <2>1. OwnLayer(m) \in DOMAIN data /\ data' = ResolveAt(data, OwnLayer(m)) /\ shown' = shown
    BY <1>1, <1>6, OwnLayerFound DEF EndCommits
  <2>2. Display(data') = Display(data)
    BY <1>1, <2>1, ResolveInvisible
  <2> QED  BY <2>1, <2>2, CurrentByDisplay
<1>7. CASE QueryWrite
  <2> DEFINE stack == WithTop(data, idCount)
             top == Len(stack)
  <2>1. PICK p \in QueryPatches : /\ data' = WriteAt(stack, top, p)
                                  /\ shown' = AfterWrite(shown, stack, top, p, FALSE)
    BY <1>7 DEF QueryWrite
  <2>2. p \in Patch /\ p.deletes = {}
    BY MutationAssumption DEF NothingDeletes
  <2>3. stack \in Seq(Layer) /\ top \in DOMAIN stack
    BY <1>1, WithTopEffect
  <2>4. Display(stack) = Display(data)
    BY <1>1, NewLayerInvisible DEF WithTop
  <2>5. NoDeletes(data') /\ Sorted(data') /\ data' \in Seq(Layer)
    <3>1. Inv'
      BY InvNext
    <3>2. TypeOK' /\ IdsGrow'
      BY <3>1 DEF Inv
    <3>3. Sorted(data')
      BY <3>2 DEF IdsGrow, Sorted
    <3>4. data' \in Seq(Layer)
      BY <3>2 DEF TypeOK
    <3> QED  BY <3>3, <3>4, NoDeletesNext
  <2>6. NoDeletes(stack)
    <3>1. /\ Len(stack) = IF NeedsTop(data) THEN Len(data) + 1 ELSE Len(data)
          /\ \A j \in DOMAIN data : stack[j] = data[j]
          /\ NeedsTop(data) => stack[Len(data) + 1] = NewLayer(idCount, FALSE)
      BY <1>1, WithTopEffect
    <3>2. NewLayer(idCount, FALSE).deleted = {}
      BY DEF NewLayer
    <3> HIDE DEF stack, top
    <3>3. ASSUME NEW j \in DOMAIN stack PROVE stack[j].deleted = {}
      <4>1. CASE j \in DOMAIN data
        BY <3>1, <4>1 DEF NoDeletes
      <4>2. CASE j \notin DOMAIN data
        <5>1. j = Len(data) + 1 /\ NeedsTop(data)
          BY <1>1, <2>3, <3>1, <4>2
        <5> QED  BY <3>1, <3>2, <5>1
      <4> QED  BY <4>1, <4>2
    <3> QED  BY <3>3 DEF NoDeletes
  <2> HIDE DEF stack, top
  <2>7. SameShape(stack, data')
    BY <2>1, <2>2, <2>3, WriteAtEffect
  <2>8. Sorted(stack)
    <3>1. DOMAIN data' = DOMAIN stack
      BY <2>3, <2>5, <2>7 DEF SameShape
    <3> QED  BY <2>5, <2>7, <3>1 DEF SameShape, Sorted
  <2>9. Current(shown, stack)
    BY <2>4, CurrentByDisplay
  <2> QED  BY <1>1, <2>1, <2>2, <2>3, <2>6, <2>8, <2>9, WriteTells
<1>8. CASE Reset
  <2>1. shown' = [c \in Cell |-> Nobody]
    BY <1>8 DEF Reset
  <2> QED  BY <2>1 DEF Current
<1>9. CASE Subscribe
  <2>1. shown' = Display(data) /\ data' = data
    BY <1>9 DEF Subscribe
  <2> QED  BY <2>1 DEF Current, Display
<1>10. ASSUME NEW m \in Mutations, Rejected(m) \/ LayerGone(m) \/ Abort(m)
       PROVE  Current(shown', data')
  BY <1>10 DEF Rejected, LayerGone, Abort
<1>11. ASSUME NEW m \in Mutations, MarshalFails(m) \/ ResponseUnwritable(m)
       PROVE  FALSE
  BY <1>11 DEF MarshalFails, ResponseUnwritable
<1>12. ASSUME NEW m \in Mutations, NetworkFails(m) \/ EndRollsBack(m) \/ EndHookFails(m)
       PROVE  Current(shown', data')
  BY <1>5, <1>12 DEF NetworkFails, EndRollsBack, EndHookFails
<1>13. CASE UNCHANGED vars
  BY <1>13 DEF vars
<1> QED
  BY <1>2, <1>3, <1>4, <1>6, <1>7, <1>8, <1>9, <1>10, <1>11, <1>12, <1>13 DEF Next, Step

\* Every subscriber has been told what a read of the cache would give it now, whatever the
\* overlap, failures and aborts of mutations and the writes of queries, if no operation deletes
\* records and no hook throws on its data.
THEOREM SubscribersCurrentHolds ==
  ASSUME NothingDeletes, ~Faulty
  PROVE  Spec => []SubscribersCurrent
<1>1. Init => NoDeletes(data) /\ Current(shown, data)
  BY DEF Init, NoDeletes, Current
<1>2. Inv /\ (NoDeletes(data) /\ Current(shown, data)) /\ [Next]_vars
        => (NoDeletes(data) /\ Current(shown, data))'
  <2> SUFFICES ASSUME Inv, NoDeletes(data), Current(shown, data), [Next]_vars
               PROVE  (NoDeletes(data) /\ Current(shown, data))'
    OBVIOUS
  <2>1. NoDeletes(data') /\ Current(shown', data')
    BY NoDeletesNext, SubscribersCurrentNext
  <2> QED  BY <2>1 DEF NoDeletes, Current
<1>3. Current(shown, data) <=> SubscribersCurrent
  BY DEF Current, SubscribersCurrent
<1> QED  BY <1>1, <1>2, <1>3, InvHolds, PTL DEF Spec
=============================================================================
