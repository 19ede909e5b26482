----------------------------- MODULE CacheReads -----------------------------
(***************************************************************************)
(* What the cache answers to a read (cache/index.ts: read, getSelection,   *)
(* hydrateNestedList; selection.ts: getFieldsForType): the walk of a       *)
(* document's selection over whatever fields responses, the collector and  *)
(* deletions have left, with null cascades, partial and stale results.     *)
(* Policies act on the flags alone: a result that is not partial and not   *)
(* stale means that no request is sent.                                    *)
(***************************************************************************)
EXTENDS Naturals, Sequences, FiniteSets, SequencesExt

CONSTANTS
  Root, Records,
  TypeOf,      \* the __typename of each record
  Content,     \* the values responses carry for each field of each record
  Fields,      \* for a selection and a type, or "" for none: what is selected
  Spreading,   \* selections with fragments, whose references are data
  Document,    \* the selection that is read
  MaxMarks     \* bound: fields marked stale at a time

VARIABLES
  cell,        \* what the cache displays for each field of each record
  typed,       \* storage.typenames
  marked       \* fields whose time is null

vars == <<cell, typed, marked>>

Ids == {Root} \cup Records
FieldsOf(id) == DOMAIN Content[id]

Unknown == [kind |-> "unknown"]
Null == [kind |-> "null"]
Scalar(s) == [kind |-> "scalar", value |-> s]
Link(id) == [kind |-> "link", id |-> id]
\* A list of records and nulls, or a list with one such list in it.
List(ids, nested) == [kind |-> "list", ids |-> ids, nested |-> nested]

Linked(v) == CASE v.kind = "link" -> {v.id}
               [] v.kind = "list" -> ToSet(v.ids) \cap Records
               [] OTHER -> {}

-----------------------------------------------------------------------------
(* Reading.                                                                *)

\* By the record's concrete type, if it is known and selected by name.
FieldsForType(sel, id) ==
  Fields[sel][IF id \in typed /\ TypeOf[id] \in DOMAIN Fields[sel] THEN TypeOf[id] ELSE ""]

\* Faulty variant: masked fields are skipped though the check is for all of them.
SelectedVisible(sel, id, on) ==
  {f \in FieldsForType(sel, id) : (on \/ f.when = "always") /\ f.visible}

\* @include and @skip hang on one variable.
Selected(sel, id, on) ==
  {f \in FieldsForType(sel, id) : on \/ f.when = "always"}

RECURSIVE Read(_, _, _)

\* What one field shows, and what it adds to the flags.
Nothing == [data |-> Null, partial |-> TRUE, stale |-> FALSE, hasData |-> FALSE, cascade |-> FALSE]

\* Entries may be null; of a list in a list, stale and hasData are not passed on.
HydratedList(v, f, on) ==
  LET entries == [i \in DOMAIN v.ids |->
                    IF v.ids[i] \in Records THEN Read(f.selection, v.ids[i], on)
                    ELSE [Nothing EXCEPT !.partial = FALSE]]
      some(flag) == \E i \in DOMAIN v.ids : entries[i][flag]
  IN  [data    |-> [kind |-> "list", items |-> [i \in DOMAIN v.ids |-> entries[i].data]],
       partial |-> some("partial"),
       stale   |-> ~v.nested /\ some("stale"),
       hasData |-> ~v.nested /\ (v.ids = <<>> \/ some("hasData")),
       cascade |-> ~f.nullable /\ \E i \in DOMAIN v.ids :
                     v.ids[i] \in Records /\ entries[i].data = Null]

Value(v, f, on) ==
  CASE v.kind = "unknown" -> Nothing
    [] v.kind = "null"    -> [Nothing EXCEPT !.partial = FALSE, !.hasData = TRUE]
    [] v.kind = "scalar"  -> [Nothing EXCEPT !.data = v, !.partial = FALSE, !.hasData = TRUE]
    [] v.kind = "link"    -> [Read(f.selection, v.id, on) EXCEPT !.cascade = FALSE]
    [] v.kind = "list"    -> HydratedList(v, f, on)

\* getSelection, with fullCheck: masked fields count, and do not show.
Read(sel, id, on) ==
  LET fields == Selected(sel, id, on)
      value == [f \in fields |-> Value(cell[id][f.name], f, on)]
      hasData == sel \in Spreading \/ \E f \in fields : value[f].hasData
      cascade == \E f \in fields : value[f].cascade \/ (value[f].data = Null /\ ~f.nullable)
      shows == {f \in fields : f.visible}
  IN  [data    |-> IF cascade THEN Null
                   ELSE [kind |-> "object", id |-> id,
                         fields |-> [n \in {f.name : f \in shows} |->
                                       value[CHOOSE f \in shows : f.name = n].data]],
       partial |-> hasData /\ \E f \in fields : value[f].partial,
       stale   |-> hasData /\ \E f \in fields : value[f].stale \/ <<id, f.name>> \in marked,
       hasData |-> hasData,
       cascade |-> cascade]

\* Cache.read.
Result(on) ==
  LET r == Read(Document, Root, on)
  IN  IF r.hasData THEN [data |-> r.data, partial |-> r.partial, stale |-> r.stale]
      ELSE [data |-> Null, partial |-> FALSE, stale |-> FALSE]

-----------------------------------------------------------------------------
(* What happens to the cache.                                              *)

Init ==
  /\ cell = [id \in Ids |-> [n \in FieldsOf(id) |-> Unknown]]
  /\ typed = {} /\ marked = {}

Typename(id) == Scalar(TypeOf[id])
Named(ids) == [id \in Ids |-> IF id \in ids /\ "__typename" \in FieldsOf(id)
                              THEN [cell[id] EXCEPT !["__typename"] = Typename(id)]
                              ELSE cell[id]]

\* A response with this field, the __typename of its record and of those it links to.
Write(id, n, v) ==
  /\ cell' = [Named({id} \cup Linked(v)) EXCEPT ![id][n] = v]
  /\ typed' = typed \cup {id} \cup Linked(v)
  /\ marked' = marked \ ({<<id, n>>} \cup {<<k, "__typename">> : k \in {id} \cup Linked(v)})

\* markFieldStale, of a field that has been written.
Mark(id, n) ==
  /\ cell[id][n] # Unknown /\ <<id, n>> \notin marked /\ Cardinality(marked) < MaxMarks
  /\ marked' = marked \cup {<<id, n>>}
  /\ UNCHANGED <<cell, typed>>

\* The collector deletes one field, whose document is long gone.
Collect(id, n) ==
  /\ cell[id][n] # Unknown
  /\ cell' = [cell EXCEPT ![id][n] = Unknown]
  /\ marked' = marked \ {<<id, n>>}
  /\ UNCHANGED typed

\* A mutation deletes a record and its layer is merged (storage.ts: writeLayer): it leaves
\* the lists it is an entry of, but not lists in lists, and links to it lead to nothing.
\* Its type stays known.  (A list that is written with the record again shows it; that
\* this takes it out of other lists once more is left out.)
Delete(id) ==
  /\ \E n \in FieldsOf(id) : cell[id][n] # Unknown
  /\ cell' = [k \in Ids |-> [n \in FieldsOf(k) |->
                CASE k = id -> Unknown
                  [] k # id /\ cell[k][n].kind = "list" /\ ~cell[k][n].nested ->
                       List(SelectSeq(cell[k][n].ids, LAMBDA e : e # id), FALSE)
                  [] OTHER -> cell[k][n]]]
  /\ UNCHANGED <<typed, marked>>

Next ==
  \/ \E id \in Ids : \E n \in FieldsOf(id) :
       \/ \E v \in Content[id][n] : Write(id, n, v)
       \/ Mark(id, n) \/ Collect(id, n)
  \/ \E id \in Records : Delete(id)

Spec == Init /\ [][Next]_vars

-----------------------------------------------------------------------------
Kept(v) == v \in {Unknown, Null} \/ v.kind \in {"scalar", "link", "list"}

TypeOK ==
  /\ \A id \in Ids : \A n \in FieldsOf(id) : Kept(cell[id][n])
  /\ typed \subseteq Ids
  /\ \A m \in marked : m[1] \in Ids /\ m[2] \in FieldsOf(m[1])

Wanted(sel, id, on) == {f \in FieldsForType(sel, id) : f.when = "always" \/ on}

\* Nothing of what the selection asks of a record is known, or all there is leads to such
\* records: it has been deleted, or collected.  Lists in lists count for nothing here.
RECURSIVE Bare(_, _, _)
Bare(sel, id, on) ==
  sel \notin Spreading /\ \A f \in Wanted(sel, id, on) :
    LET v == cell[id][f.name]
    IN  \/ v = Unknown
        \/ v.kind = "list" /\ v.nested
        \/ v.kind \in {"link", "list"} /\ v # List(<<>>, FALSE)
           /\ \A k \in Linked(v) : Bare(f.selection, k, on)

\* The fields the document asks for, from a record down, but for bare ones; through lists
\* in lists or not.
RECURSIVE Asked(_, _, _, _)
Asked(sel, id, on, nested) ==
  IF Bare(sel, id, on) THEN {}
  ELSE UNION {LET v == cell[id][f.name] IN
              {<<id, f.name>>} \cup
              UNION {Asked(f.selection, k, on, nested) :
                       k \in IF v.kind = "list" /\ v.nested /\ ~nested THEN {} ELSE Linked(v)} :
                f \in Wanted(sel, id, on)}

\* A result that is not partial is complete: every field that the document asks for, the
\* masked ones of its fragments included, is in the cache, except below links to records
\* of which nothing is left, which read as null (getSelection).
Complete ==
  \A on \in BOOLEAN :
    LET r == Result(on)
    IN  r.data # Null /\ ~r.partial =>
          \A m \in Asked(Document, Root, on, TRUE) : cell[m[1]][m[2]] # Unknown

\* A result that is not stale rests on no field that is marked, but below lists in lists.
Fresh ==
  \A on \in BOOLEAN :
    LET r == Result(on)
    IN  r.data # Null /\ ~r.stale => Asked(Document, Root, on, FALSE) \cap marked = {}

\* No object shows null for a field that may not be null: it is null itself.
RECURSIVE NonNulls(_, _)
NonNulls(sel, d) ==
  CASE d.kind = "object" ->
         \A f \in Wanted(sel, d.id, TRUE) : f.name \in DOMAIN d.fields =>
           /\ f.nullable \/ d.fields[f.name] # Null
           /\ f.selection # "" => NonNulls(f.selection, d.fields[f.name])
    [] d.kind = "list" -> \A i \in DOMAIN d.items : NonNulls(sel, d.items[i])
    [] OTHER -> TRUE

NullsAllowed == \A on \in BOOLEAN : NonNulls(Document, Result(on).data)
=============================================================================
