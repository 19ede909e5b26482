------------------------------ MODULE PatchLog ------------------------------
(***************************************************************************)
(* What the layered cache promises its readers, with no layers in it.      *)
(*                                                                         *)
(* The cache behaves like a log of patches, one entry per operation, in    *)
(* the order in which the operations began.  A mutation may rewrite its    *)
(* own entry in place until it settles; an entry of a query, or of a       *)
(* settled mutation, never changes again.  What a reader sees is the last  *)
(* thing the log says about a cell.  So an old mutation whose answer comes *)
(* late does not overwrite what was written after it began, and a failed   *)
(* one leaves no trace.                                                    *)
(***************************************************************************)
EXTENDS Integers, Sequences

CONSTANTS Records, Fields, Values, Absent, Mutations, Query

VARIABLES
  log,    \* the entries, [owner, patch]
  open,   \* the mutations that have begun and not settled
  view    \* what a reader sees

Cell  == Records \X Fields
Patch == [writes : [Cell -> Values \cup {Absent}], deletes : SUBSET Records]

Says(entry, c) ==
  entry.patch.writes[c] # Absent \/ c[1] \in entry.patch.deletes

View(entries) ==
  [c \in Cell |->
     LET last == {i \in DOMAIN entries :
                    /\ Says(entries[i], c)
                    /\ \A j \in DOMAIN entries : j > i => ~Says(entries[j], c)}
     IN  IF last = {} THEN Absent
         ELSE entries[CHOOSE i \in last : TRUE].patch.writes[c]]

vars == <<log, open, view>>

Init == log = <<>> /\ open = {} /\ view = View(<<>>)

\* A mutation begins: its entry is empty until there is something to say.
Begin(m) ==
  /\ m \notin open
  /\ \E p \in Patch : p.deletes = {} /\ (\A c \in Cell : p.writes[c] = Absent)
                      /\ log' = Append(log, [owner |-> m, patch |-> p])
  /\ open' = open \cup {m}

\* A mutation changes its mind: its optimistic response, the real one, nothing.
Rewrite(m) ==
  /\ m \in open
  /\ \E p \in Patch :
       log' = [i \in DOMAIN log |->
                 IF log[i].owner = m THEN [log[i] EXCEPT !.patch = p] ELSE log[i]]
  /\ open' \in {open, open \ {m}}

Settle(m) == m \in open /\ open' = open \ {m} /\ UNCHANGED log

Write ==
  /\ \E p \in Patch : log' = Append(log, [owner |-> Query, patch |-> p])
  /\ UNCHANGED open

Reset == log' = <<>> /\ UNCHANGED open

Next ==
  /\ \/ \E m \in Mutations : Begin(m) \/ Rewrite(m) \/ Settle(m)
     \/ Write
     \/ Reset
  /\ view' = View(log')

Spec == Init /\ [][Next]_vars
=============================================================================
