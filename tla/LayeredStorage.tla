--------------------------- MODULE LayeredStorage ---------------------------
(***************************************************************************)
(* The layers of Houdini's normalized cache, as InMemoryStorage and Layer  *)
(* keep them (packages/houdini/src/runtime/cache/storage.ts): a stack of   *)
(* layers, the optimistic ones owned by the mutations in flight, the       *)
(* others holding what has been committed.                                 *)
(*                                                                         *)
(* This module holds the part of a layer that describes single values:     *)
(* scalars, links to one record, and deleted records.  Lists of links and  *)
(* the operations on them are the business of a module of their own.       *)
(*                                                                         *)
(* A layer's stack is a sequence; index 1 is the code's data[0].  Nothing  *)
(* here is a variable: MutationCache owns the state.                       *)
(***************************************************************************)
EXTENDS Integers, Sequences

CONSTANTS
  Records,     \* ids of the normalized records
  Fields,      \* keys of the fields a record may have
  LinkFields,  \* the fields that hold a link to one record
  Values,      \* what a field may hold, Null among them
  Null,        \* the JavaScript null
  Absent       \* the JavaScript undefined

ASSUME StorageAssumption ==
  /\ LinkFields \subseteq Fields
  /\ Null \in Values
  /\ Absent \notin Values

Cell     == Records \X Fields
Contents == [Cell -> Values \cup {Absent}]

\* fields stands for the code's fields and links maps: a key is in only one
\* of them.  deleted is the set of ids whose operations entry has deleted set.
Layer == [id : Nat, optimistic : BOOLEAN, fields : Contents, deleted : SUBSET Records]

\* What a write brings: a value for some cells, and records to delete.
Patch == [writes : Contents, deletes : SUBSET Records]

NoContents == [c \in Cell |-> Absent]
NoPatch    == [writes |-> NoContents, deletes |-> {}]

NewLayer(id, optimistic) ==
  [id |-> id, optimistic |-> optimistic, fields |-> NoContents, deleted |-> {}]

-----------------------------------------------------------------------------
(* Reading                                                                  *)

\* The walk down the stack stops at a layer that has a value for the cell
\* or that deleted the record.
Stops(layer, c) == layer.fields[c] # Absent \/ c[1] \in layer.deleted

\* Layer i gives cell c what a reader sees.
Decides(stack, i, c) ==
  /\ Stops(stack[i], c)
  /\ \A j \in DOMAIN stack : j > i => ~Stops(stack[j], c)

\* InMemoryStorage.get: a value in the deciding layer wins over a delete in
\* that same layer.
Lookup(stack, c) ==
  IF \E i \in DOMAIN stack : Decides(stack, i, c)
    THEN stack[CHOOSE i \in DOMAIN stack : Decides(stack, i, c)].fields[c]
    ELSE Absent

Display(stack) == [c \in Cell |-> Lookup(stack, c)]

HasLayer(stack, id) == \E i \in DOMAIN stack : stack[i].id = id

\* InMemoryStorage.getLayer, for an id that is in the stack.
IndexOf(stack, id) == CHOOSE i \in DOMAIN stack : stack[i].id = id

\* A faulty isDisplayLayer that takes the deciding layer itself for hidden.
IsDisplayLayerStrict(stack, i, c) ==
  \/ Lookup(stack, c) = Absent
  \/ \E k \in DOMAIN stack : Decides(stack, k, c) /\ stack[k].id < stack[i].id

\* Layer.isDisplayLayer, applied to the displayLayers that get returns for a
\* cell: none when the walk found no value, else the id of the deciding layer.
IsDisplayLayer(stack, i, c) ==
  \/ Lookup(stack, c) = Absent
  \/ \E k \in DOMAIN stack : Decides(stack, k, c) /\ stack[k].id <= stack[i].id

-----------------------------------------------------------------------------
(* Writing                                                                  *)

\* Writing null over a link that already reads null is skipped, whichever
\* layer the null came from.
Skipped(stack, c, v) ==
  c[2] \in LinkFields /\ v = Null /\ Lookup(stack, c) = Null

\* What writeSelection leaves in layer i of the stack.
WriteAt(stack, i, p) ==
  [stack EXCEPT
     ![i].fields = [c \in Cell |->
        IF p.writes[c] = Absent \/ Skipped(stack, c, p.writes[c])
          THEN @[c] ELSE p.writes[c]],
     ![i].deleted = @ \cup p.deletes]

ClearAt(stack, i) ==
  [stack EXCEPT ![i].fields = NoContents, ![i].deleted = {}]

\* A faulty topLayer that writes into the layer of a mutation in flight.
NeedsTopWhenEmpty(stack) == stack = <<>>

\* The stack whose last layer may be written to.
NeedsTop(stack) == stack = <<>> \/ stack[Len(stack)].optimistic

\* A faulty createLayer call that forgets the default of its parameter.
WithTopUndefined(stack, id) ==
  IF NeedsTop(stack) THEN Append(stack, NewLayer(id, Absent)) ELSE stack

WithTop(stack, id) ==
  IF NeedsTop(stack) THEN Append(stack, NewLayer(id, FALSE)) ELSE stack

-----------------------------------------------------------------------------
(* Merging                                                                  *)

\* Layer.writeLayer, applied to layers s+1 .. e in order with layer s as the
\* target: the last layer that has a value or a delete for the cell decides.
\* A delete removes the target's values, and the flag is not passed on.
MergeDecides(stack, s, e, i, c) ==
  /\ i \in s + 1 .. e
  /\ Stops(stack[i], c)
  /\ \A j \in i + 1 .. e : ~Stops(stack[j], c)

\* A faulty merge in which what is below wins.
MergedFieldsBelow(stack, s, e) ==
  [c \in Cell |->
     IF stack[s].fields[c] # Absent \/ ~\E i \in s + 1 .. e : MergeDecides(stack, s, e, i, c)
       THEN stack[s].fields[c]
       ELSE stack[CHOOSE i \in s + 1 .. e : MergeDecides(stack, s, e, i, c)].fields[c]]

MergedFields(stack, s, e) ==
  [c \in Cell |->
     IF \E i \in s + 1 .. e : MergeDecides(stack, s, e, i, c)
       THEN stack[CHOOSE i \in s + 1 .. e : MergeDecides(stack, s, e, i, c)].fields[c]
       ELSE stack[s].fields[c]]

\* A faulty search for the end of the run that only looks for the top.
RunEndTop(stack, s) == Len(stack)

\* No two committed layers, one above the other.
Alternating(stack) ==
  \A i \in 1 .. Len(stack) - 1 : stack[i].optimistic \/ stack[i + 1].optimistic

\* The last layer of the run of committed layers that begins at s.
RunEnd(stack, s) ==
  CHOOSE e \in s .. Len(stack) :
    /\ \A j \in s .. e : ~stack[j].optimistic
    /\ e < Len(stack) => stack[e + 1].optimistic

\* A faulty merge that never looks at the layer below.
RunStartHere(stack, i) == i

\* Where the merge of layer i begins: one below it, unless that is optimistic.
RunStart(stack, i) ==
  IF i > 1 /\ ~stack[i - 1].optimistic THEN i - 1 ELSE i

\* The splice: layers s+1 .. e are gone and s holds what they said.
Collapse(stack, s, e) ==
  [j \in 1 .. Len(stack) - (e - s) |->
     IF j < s THEN stack[j]
     ELSE IF j = s THEN [stack[s] EXCEPT !.fields = MergedFields(stack, s, e)]
     ELSE stack[j + (e - s)]]

\* InMemoryStorage.resolveLayer, for the layer at index i.
ResolveAt(stack, i) ==
  LET committed == [stack EXCEPT ![i].optimistic = FALSE]
      s == RunStart(committed, i)
  IN  Collapse(committed, s, RunEnd(committed, s))
=============================================================================
