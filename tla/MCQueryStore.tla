---------------------------- MODULE MCQueryStore ----------------------------
(* Small instances of QueryStore for TLC. *)
EXTENDS QueryStore, TLC

\* A document without @dedupe, and some with it.
MCPlain == {[cancel |-> "never", match |-> "Variables"]}

MCDedupes ==
  {[cancel |-> "last",  match |-> "Variables"],
   [cancel |-> "first", match |-> "Operation"]}

MCDropped == {[cancel |-> "last", match |-> "Operation"]}
=============================================================================
