----------------------------- MODULE ListLayers -----------------------------
(***************************************************************************)
(* One list of the cache under list operations (cache/lists.ts): an insert *)
(* or removal of a mutation in flight is an operation of the mutation's    *)
(* layer, applied around the last full list below it (cache/storage.ts);   *)
(* what other clients do arrives as live writes, and a refetch brings the  *)
(* whole list.  Each record is one key of the list.                        *)
(***************************************************************************)
EXTENDS Naturals, Sequences, SequencesExt, FiniteSets

CONSTANTS
  Records,     \* what the list may hold
  First,       \* the list as first fetched, a sequence of records
  Mutations,   \* calls of mutations that operate on the list, 1 .. n in the order sent
  Actions,     \* of "append", "prepend", "remove", "toggle", "upsert", "delete"
  MaxEvents    \* bound: refetches and live updates

VARIABLES
  stack,       \* storage.data
  calls,       \* the mutations
  server,      \* the list the server holds
  gone,        \* records the server has deleted
  tangled,     \* records for which the cache is known not to follow (history)
  ids,         \* idCount
  events

vars == <<stack, calls, server, gone, tangled, ids, events>>

\* link: the full list a layer holds, if it has one.  undone: the records of
\* deleted that were listed again.
NewLayer(id, optimistic) ==
  [id |-> id, optimistic |-> optimistic, full |-> FALSE, link |-> <<>>, ops |-> <<>>,
   deleted |-> {}, undone |-> {}]

Idle == [phase |-> "idle", action |-> "append", record |-> First[1], layer |-> 0]

Init ==
  /\ stack = <<[NewLayer(1, FALSE) EXCEPT !.full = TRUE, !.link = First]>>
  /\ calls = [m \in Mutations |-> Idle]
  /\ server = First /\ gone = {} /\ tangled = {} /\ ids = 2 /\ events = 0

-----------------------------------------------------------------------------
(* Reading: InMemoryStorage.get.                                           *)

OpsOf(layer, kind) == SelectSeq(layer.ops, LAMBDA op : op.kind = kind)
RecordsOf(ops) == [i \in DOMAIN ops |-> ops[i].record]

\* The topmost layer with a full list.
Base(st) == CHOOSE i \in DOMAIN st : st[i].full /\ \A j \in i + 1 .. Len(st) : ~st[j].full

Display(st) ==
  LET b == Base(st)
      Hidden == UNION {(st[i].deleted \ st[i].undone)
                       \cup Range(RecordsOf(OpsOf(st[i], "remove"))) : i \in b .. Len(st)}
      \* from the top down; within a layer the first operation counts as the newest
      Walk(kind) == FlattenSeq([n \in 1 .. Len(st) - b + 1 |->
                       RecordsOf(OpsOf(st[Len(st) + 1 - n], kind))])
  IN  SelectSeq(Walk("start") \o st[b].link \o Reverse(Walk("end")),
                LAMBDA x : x \notin Hidden)

Shown(st, x) == x \in Range(Display(st))

-----------------------------------------------------------------------------
(* Writing: Layer.writeLink, insert, remove and delete.                    *)

WriteLink(layer, link) ==
  LET back == Range(link) \cap layer.deleted
  IN  [layer EXCEPT !.full = TRUE, !.link = link, !.undone = @ \cup back,
                    !.ops = SelectSeq(@, LAMBDA op :
                       ~(op.kind = "remove" /\ op.record \in Range(link) \ back))]

AddOp(layer, kind, x) == [layer EXCEPT !.ops = Append(@, [kind |-> kind, record |-> x])]

\* topLayer.
NeedsTop(st) == st = <<>> \/ st[Len(st)].optimistic
WithTop(st, id) == IF NeedsTop(st) THEN Append(st, NewLayer(id, FALSE)) ELSE st

\* addToList: an optimistic layer takes an insert, another one the whole list,
\* less what is only there by the insert of some layer.
Inserted(st, i, kind, x) ==
  LET ByOperation(y) == \E j \in DOMAIN st : y \in Range(RecordsOf(st[j].ops))
      old == SelectSeq(Display(st), LAMBDA y : ~ByOperation(y))
  IN  IF st[i].optimistic
      THEN [st EXCEPT ![i] = AddOp(@, kind, x)]
      ELSE [st EXCEPT ![i] = WriteLink(@, IF kind = "end" THEN Append(old, x) ELSE <<x>> \o old)]

\* removeID: a record that the list does not show is left alone.
RemovedFrom(st, i, x) ==
  IF Shown(st, x) THEN [st EXCEPT ![i] = AddOp(@, "remove", x)] ELSE st

\* cache.delete.
Deleted(st, i, x) ==
  [RemovedFrom(st, i, x) EXCEPT ![i].deleted = @ \cup {x}, ![i].undone = @ \ {x}]

Apply(st, i, action, x) ==
  CASE action = "append"  -> Inserted(st, i, "end", x)
    [] action = "prepend" -> Inserted(st, i, "start", x)
    [] action = "remove"  -> RemovedFrom(st, i, x)
    [] action = "toggle"  -> IF Shown(st, x) THEN RemovedFrom(st, i, x)
                             ELSE Inserted(st, i, "end", x)
    [] action = "upsert"  -> IF Shown(st, x) THEN st ELSE Inserted(st, i, "end", x)
    [] action = "delete"  -> Deleted(st, i, x)

-----------------------------------------------------------------------------
(* Merging: Layer.writeLayer and InMemoryStorage.resolveLayer.             *)

\* Faulty variant: the operations of the layers are put together and left so.
CompactNothing(ops) == ops

\* Only the net count of a record's inserts and removals stays, the newest first.
Compact(ops) ==
  LET In(k)  == k # "remove"
      Net(x, up) == Cardinality({i \in DOMAIN ops : ops[i].record = x /\ In(ops[i].kind) = up})
      Excess(x, up) == Net(x, up) - Net(x, ~up)
      Before(i) == Cardinality({j \in 1 .. i - 1 : /\ ops[j].record = ops[i].record
                                                  /\ In(ops[j].kind) = In(ops[i].kind)})
      Keep == {i \in DOMAIN ops :
                 /\ Net(ops[i].record, In(ops[i].kind)) > Net(ops[i].record, ~In(ops[i].kind))
                 /\ Before(i) < Excess(ops[i].record, In(ops[i].kind))}
  IN  [n \in 1 .. Cardinality(Keep) |->
         ops[CHOOSE i \in Keep : Cardinality({j \in Keep : j <= i}) = n]]

Merge(base, layer) ==
  LET b1 == IF layer.ops = <<>> THEN base
            ELSE [base EXCEPT !.ops = Compact(layer.ops \o base.ops)]
      b2 == IF layer.full THEN WriteLink(b1, layer.link) ELSE b1
  IN  [b2 EXCEPT !.deleted = @ \cup layer.deleted]

IndexOf(st, id) == CHOOSE i \in DOMAIN st : st[i].id = id

Resolve(st, id) ==
  LET i  == IndexOf(st, id)
      s1 == [st EXCEPT ![i].optimistic = FALSE]
      s  == IF i > 1 /\ ~s1[i - 1].optimistic THEN i - 1 ELSE i
      e  == CHOOSE e \in s .. Len(s1) : /\ \A j \in s .. e : ~s1[j].optimistic
                                        /\ (e < Len(s1) => s1[e + 1].optimistic)
  IN  SubSeq(s1, 1, s - 1)
      \o <<FoldLeft(Merge, s1[s], SubSeq(s1, s + 1, e))>>
      \o SubSeq(s1, e + 1, Len(s1))

\* Faulty variant: the layer keeps what the optimistic response put there.
ClearedNothing(st, id) == st

Cleared(st, id) ==
  [st EXCEPT ![IndexOf(st, id)] = [NewLayer(id, @.optimistic) EXCEPT !.id = id]]

-----------------------------------------------------------------------------
(* Mutations.                                                              *)

\* A removal kept beside a full list is forgotten when the two are merged down:
\* writeLayer applies the operations first, and writeLink takes the removal back.
Clashing(st) ==
  {x \in Records : \E i \in 2 .. Len(st) : /\ st[i].full /\ x \in Range(st[i].link)
                                         /\ x \in Range(RecordsOf(OpsOf(st[i], "remove")))}

Tangle(xs) == tangled' = tangled \cup xs \cup Clashing(stack')

\* The operations a layer keeps are applied around the next full list as well.
Operated(st) == UNION {Range(RecordsOf(st[i].ops)) : i \in DOMAIN st}

Has(x) == x \in Range(server)

InFlight == {calls[m].record : m \in {n \in Mutations : calls[n].phase = "pending"}}

\* Asked to add what is there, or about a record the list shows otherwise than it is.
Misread(action, x) ==
  IF action \in {"append", "prepend"} THEN Shown(stack, x) \/ Has(x)
  ELSE Shown(stack, x) # Has(x)

\* The optimistic response puts the operation in a layer of the mutation's own.
Start(m, action, x) ==
  /\ calls[m].phase = "idle" /\ x \notin gone
  /\ \A n \in Mutations : n < m => calls[n].phase # "idle"
  /\ calls' = [calls EXCEPT ![m] = [phase |-> "pending", action |-> action, record |-> x,
                                    layer |-> ids]]
  /\ stack' = LET st == Append(stack, NewLayer(ids, TRUE)) IN Apply(st, Len(st), action, x)
  /\ ids' = ids + 1
  /\ Tangle(IF x \in InFlight \/ Misread(action, x) THEN {x} ELSE {})
  /\ UNCHANGED <<server, gone, events>>

\* What the server does with the mutation, before it answers.
Without(l, x) == SelectSeq(l, LAMBDA y : y # x)

Performed(action, x) ==
  CASE action = "append"  -> IF Has(x) THEN server ELSE Append(server, x)
    [] action = "prepend" -> IF Has(x) THEN server ELSE <<x>> \o server
    [] action = "toggle"  -> IF Has(x) THEN Without(server, x) ELSE Append(server, x)
    [] action = "upsert"  -> IF Has(x) THEN server ELSE Append(server, x)
    [] OTHER              -> Without(server, x)

Succeed(m) ==
  LET c  == calls[m]
      st == Cleared(stack, c.layer)
  IN  /\ c.phase = "pending"
      /\ calls' = [calls EXCEPT ![m] = [Idle EXCEPT !.phase = "done"]]
      /\ stack' = Resolve(Apply(st, IndexOf(st, c.layer), c.action, c.record), c.layer)
      /\ server' = Performed(c.action, c.record)
      /\ gone' = IF c.action = "delete" THEN gone \cup {c.record} ELSE gone
      /\ Tangle({})
      /\ UNCHANGED <<ids, events>>

Fail(m) ==
  LET c == calls[m]
  IN  /\ c.phase = "pending"
      /\ calls' = [calls EXCEPT ![m] = [Idle EXCEPT !.phase = "done"]]
      /\ stack' = Resolve(Cleared(stack, c.layer), c.layer)
      /\ Tangle({})
      /\ UNCHANGED <<server, gone, ids, events>>

-----------------------------------------------------------------------------
(* Other traffic, written to the top layer.                                *)

Event == events < MaxEvents /\ events' = events + 1
Top(st) == WithTop(st, ids)
NextId == ids' = IF NeedsTop(stack) THEN ids + 1 ELSE ids

\* A refetch.  A list that reads the same already is not written.
Refetch ==
  LET st == Top(stack)
  IN  /\ Event /\ NextId
      /\ stack' = IF Display(stack) = server /\ server # <<>> THEN st
                  ELSE [st EXCEPT ![Len(st)] = WriteLink(@, server)]
      /\ Tangle(IF stack' = st THEN InFlight ELSE InFlight \cup Operated(stack))
      /\ UNCHANGED <<calls, server, gone>>

\* A subscription's message about another client's insert or removal.
LiveInsert(x) ==
  LET st == Top(stack)
  IN  /\ Event /\ NextId /\ ~Has(x) /\ x \notin gone
      /\ server' = Append(server, x)
      /\ stack' = Inserted(st, Len(st), "end", x)
      /\ Tangle(InFlight \cup Operated(stack) \cup IF Misread("append", x) THEN {x} ELSE {})
      /\ UNCHANGED <<calls, gone>>

LiveRemove(x) ==
  LET st == Top(stack)
  IN  /\ Event /\ NextId /\ Has(x)
      /\ server' = Without(server, x)
      /\ stack' = RemovedFrom(st, Len(st), x)
      /\ Tangle(IF x \in InFlight \/ Misread("remove", x) THEN {x} ELSE {})
      /\ UNCHANGED <<calls, gone>>

Next ==
  \/ \E m \in Mutations : \/ \E a \in Actions, x \in Records : Start(m, a, x)
                          \/ Succeed(m) \/ Fail(m)
  \/ Refetch
  \/ \E x \in Records : LiveInsert(x) \/ LiveRemove(x)

Spec == Init /\ [][Next]_vars

-----------------------------------------------------------------------------
LayerOK(layer) ==
  /\ layer.id \in 1 .. ids /\ layer.optimistic \in BOOLEAN /\ layer.full \in BOOLEAN
  /\ layer.link \in Seq(Records)
  /\ layer.ops \in Seq([kind : {"start", "end", "remove"}, record : Records])
  /\ layer.deleted \subseteq Records /\ layer.undone \subseteq Records

TypeOK ==
  /\ \A i \in DOMAIN stack : LayerOK(stack[i])
  /\ calls \in [Mutations -> [phase : {"idle", "pending", "done"}, action : Actions,
                              record : Records, layer : 0 .. ids]]
  /\ server \in Seq(Records) /\ gone \subseteq Records /\ tangled \subseteq Records
  /\ events \in 0 .. MaxEvents

Settled == \A m \in Mutations : calls[m].phase # "pending"

Times(l, x) == Cardinality({i \in DOMAIN l : l[i] = x})

\* Once no mutation is in flight, the list shows a record exactly if the server lists it,
\* however mutations that added, removed or deleted it succeeded, failed and overlapped,
\* and whatever was refetched meanwhile.  tangled names the records that operations met
\* in a way the cache is known not to follow.
Follows ==
  Settled => \A x \in Records \ tangled : Shown(stack, x) <=> Has(x)

\* Nothing is listed twice, not even while mutations are in flight.
Once ==
  \A x \in Records \ tangled : Times(Display(stack), x) <= 1
=============================================================================
