---------------------------- MODULE ListRegistry ----------------------------
(***************************************************************************)
(* The named lists of the cache (ListManager): a document that subscribes  *)
(* registers its lists by name and parent, by field and by the opaque id   *)
(* of @listID; the collector takes a list out with its field; the list     *)
(* operations of a mutation look lists up by any of these.  How a list     *)
(* changes under optimistic layers is ListLayers.                          *)
(***************************************************************************)
EXTENDS Naturals, Sequences, FiniteSets, SequencesExt

CONSTANTS
  ListsOf,     \* for each document, the lists it registers, in the order of its walk
  Names,       \* the names of lists
  Filters,     \* for each key, the conditions that its arguments meet
  Writes,      \* the operations of a field of a mutation, a sequence of
               \* [action, list, by, id, must, mustNot]
  Records,     \* what lists hold
  None

VARIABLES
  shown,       \* the documents that are subscribed
  content,     \* the records of each list field; None when the cache does not have it
  lists,       \* for each name, its parents in the order they came, with their keys
  byField,     \* listsByField
  byOpaque     \* listsByOpaqueID

registry == <<lists, byField, byOpaque>>
vars == <<shown, content, registry>>

Docs == DOMAIN ListsOf
FieldOf(l) == [parent |-> l.parent, key |-> l.key]
AllLists == UNION {Range(ListsOf[d]) : d \in Docs}
Fields == {FieldOf(l) : l \in AllLists}

Init ==
  /\ shown = {} /\ content = [f \in Fields |-> None]
  /\ lists = [n \in Names |-> <<>>] /\ byField = {} /\ byOpaque = {}

-----------------------------------------------------------------------------
(* The registry.                                                           *)

\* add.
Add(reg, l) ==
  LET known == {i \in DOMAIN reg.lists[l.name] : reg.lists[l.name][i].parent = l.parent}
  IN  IF \E i \in known : Contains(reg.lists[l.name][i].keys, l.key) THEN reg
      ELSE [lists |-> [reg.lists EXCEPT ![l.name] =
                         IF known = {} THEN Append(@, [parent |-> l.parent, keys |-> <<l.key>>])
                         ELSE [i \in DOMAIN @ |-> IF i \in known THEN [@[i] EXCEPT !.keys = Append(@, l.key)]
                                                  ELSE @[i]]],
            byField |-> reg.byField \cup {l},
            byOpaque |-> reg.byOpaque \cup {[parent |-> l.parent, name |-> l.name]}]

\* deleteField: a parent goes with the last of its keys.
\* Faulty variant: only what listsByField says is forgotten.
WithoutForgotten(reg, f) == [reg EXCEPT !.byField = {l \in @ : FieldOf(l) # f}]
Without(reg, f) ==
  LET Rest(n) == [i \in DOMAIN reg.lists[n] |->
                    IF reg.lists[n][i].parent = f.parent
                    THEN [reg.lists[n][i] EXCEPT !.keys = SelectSeq(@, LAMBDA k : k # f.key)]
                    ELSE reg.lists[n][i]]
      left == [n \in Names |-> SelectSeq(Rest(n), LAMBDA c : c.keys # <<>>)]
  IN  [lists |-> left,
       byField |-> {l \in reg.byField : FieldOf(l) # f},
       byOpaque |-> {o \in reg.byOpaque : \E i \in DOMAIN left[o.name] : left[o.name][i].parent = o.parent}]

\* The fields of a collection; null if there is none.
FieldsOf(c) == {[parent |-> c.parent, key |-> k] : k \in Range(c.keys)}
Under(name, parent) ==
  UNION {FieldsOf(lists[name][i]) : i \in {j \in DOMAIN lists[name] : lists[name][j].parent = parent}}

\* getLists and getByOpaqueID.  A parent is named by its id, taken for one of the type of the
\* first list of that name; without an id there must be one parent only.
Found(op) ==
  LET cs == lists[op.list] IN
  CASE op.by = "opaque" -> IF [parent |-> op.id, name |-> op.list] \in byOpaque
                           THEN Under(op.list, op.id) ELSE {}
    [] op.by # "opaque" /\ cs = <<>> -> {}
    [] op.by = "all" /\ cs # <<>> -> UNION {FieldsOf(cs[i]) : i \in DOMAIN cs}
    [] op.by = "none" /\ cs # <<>> -> IF Len(cs) = 1 THEN FieldsOf(cs[1]) ELSE {}
    [] op.by = "parent" /\ cs # <<>> -> Under(op.list, <<cs[1].parent[1], op.id>>)

-----------------------------------------------------------------------------
(* The operations of a write.                                              *)

\* validateWhen.  The conditions of an upsert are compared unresolved, and nothing equals them.
Meets(op, key) ==
  IF op.action = "upsert" THEN op.must = {}
  ELSE op.must \subseteq Filters[key] /\ op.mustNot \cap Filters[key] = {}

Changed(action, x, records) ==
  CASE action \in {"insert", "upsert"} -> records \cup {x}
    [] action = "remove" -> records \ {x}
    [] action = "toggle" -> IF x \in records THEN records \ {x} ELSE records \cup {x}

\* What an operation acts on.  Lists that an operation before it has found are left out,
\* whether or not it acted on them.
\* Faulty variant: they are not.
ActingAgain(op, processed) == {f \in Found(op) : Meets(op, f.key)}
Acting(op, processed) == {f \in Found(op) \ processed : Meets(op, f.key)}

Operate(st, op, x) ==
  [content |-> [f \in Fields |-> IF f \in Acting(op, st.processed) THEN Changed(op.action, x, st.content[f])
                                 ELSE st.content[f]],
   processed |-> st.processed \cup Found(op)]

\* The operations of one field of a mutation, on the record x.
Outcome(ops, x) ==
  FoldLeft(LAMBDA st, op : Operate(st, op, x), [content |-> content, processed |-> {}], ops).content

Mutate(ops, x) ==
  /\ content' = Outcome(ops, x)
  /\ UNCHANGED <<shown, registry>>

\* cache.delete and removeIDFromAllLists.
Delete(x) ==
  /\ content' = [f \in Fields |-> IF \E n \in Names : f \in UNION {FieldsOf(lists[n][i]) : i \in DOMAIN lists[n]}
                                  THEN content[f] \ {x} ELSE content[f]]
  /\ UNCHANGED <<shown, registry>>

-----------------------------------------------------------------------------
(* Documents and the collector.                                            *)

Put(reg) == lists' = reg.lists /\ byField' = reg.byField /\ byOpaque' = reg.byOpaque
Current == [lists |-> lists, byField |-> byField, byOpaque |-> byOpaque]

\* The answer of a document is written, unless the cache has it, and the document subscribed.
Show(d, records) ==
  /\ d \notin shown /\ shown' = shown \cup {d}
  /\ content' = [f \in Fields |-> IF content[f] = None /\ f \in {FieldOf(l) : l \in Range(ListsOf[d])}
                                  THEN records ELSE content[f]]
  /\ Put(FoldLeft(Add, Current, ListsOf[d]))

\* Unsubscribing leaves the registry alone.
Leave(d) == d \in shown /\ shown' = shown \ {d} /\ UNCHANGED <<content, registry>>

\* A tick deletes a field that nobody has been subscribed to for long enough.
Collect(f) ==
  /\ content[f] # None /\ \A d \in shown : f \notin {FieldOf(l) : l \in Range(ListsOf[d])}
  /\ content' = [content EXCEPT ![f] = None]
  /\ Put(Without(Current, f))
  /\ UNCHANGED shown

\* cache.reset: everyone has to subscribe again.
Reset ==
  /\ shown' = {} /\ content' = [f \in Fields |-> None]
  /\ Put([lists |-> [n \in Names |-> <<>>], byField |-> {}, byOpaque |-> {}])

Next ==
  \/ \E d \in Docs : Leave(d) \/ \E records \in {{}, Records} : Show(d, records)
  \/ \E f \in Fields : Collect(f)
  \/ \E x \in Records : Delete(x) \/ \E ops \in Writes : Mutate(ops, x)
  \/ Reset

Spec == Init /\ [][Next]_vars

-----------------------------------------------------------------------------
TypeOK ==
  /\ shown \subseteq Docs /\ byField \subseteq AllLists
  /\ \A f \in Fields : content[f] = None \/ content[f] \subseteq Records
  /\ \A n \in Names : \A i \in DOMAIN lists[n] : FieldsOf(lists[n][i]) \subseteq Fields

Registered == {l \in AllLists : FieldOf(l) \in Under(l.name, l.parent)}

\* The three indices agree, they have the lists of all subscribed documents, and none of a
\* field that was collected.
IndicesAgree ==
  /\ byField = Registered
  /\ byOpaque = {[parent |-> l.parent, name |-> l.name] : l \in Registered}
  /\ \A d \in shown : Range(ListsOf[d]) \subseteq Registered
  /\ \A l \in Registered : content[FieldOf(l)] # None

\* The lists that an operation names, as its directives say: all of the name, those of one
\* parent, or those of the only parent.  Of several parents that are of several types, an id
\* only names those of the type of the first.
Parents(name) == {l.parent : l \in {r \in Registered : r.name = name}}
Mixed(op) == op.by = "parent" /\ Cardinality({p[1] : p \in Parents(op.list)}) > 1
NamesIt(op, l) ==
  /\ l.name = op.list
  /\ CASE op.by = "all"    -> TRUE
       [] op.by = "none"   -> Parents(op.list) = {l.parent}
       [] op.by = "parent" -> l.parent[2] = op.id
       [] op.by = "opaque" -> l.parent = op.id

\* A list that a document shows changes by the first of the operations of a mutation that
\* names it, or another list on its field, if the list meets its conditions; and by no other.
Reached ==
  \A x \in Records, ops \in Writes, d \in shown : \A l \in Range(ListsOf[d]) :
    LET f == FieldOf(l)
        naming == {i \in DOMAIN ops : \E r \in Registered : FieldOf(r) = f /\ NamesIt(ops[i], r)}
        first == CHOOSE i \in naming : \A j \in naming : i <= j
    IN  (\A i \in DOMAIN ops : ~Mixed(ops[i])) =>
        Outcome(ops, x)[f] =
          IF naming # {} /\ Meets(ops[first], l.key)
          THEN Changed(ops[first].action, x, content[f]) ELSE content[f]
=============================================================================
