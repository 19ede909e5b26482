-------------------------- MODULE MCMutationCache ---------------------------
(* Small instances of MutationCache for TLC. *)
EXTENDS MutationCache, TLC

CONSTANTS r1, name, friend, promised, answered, queried

MCRecords    == {r1}
MCFields     == {name, friend}
MCLinkFields == {friend}
MCValues     == {promised, answered, queried, Null}

Says1(f, v) == [writes |-> (<<r1, f>> :> v) @@ NoContents, deletes |-> {}]
Says2(v, w) == [writes |-> (<<r1, name>> :> v) @@ (<<r1, friend>> :> w) @@ NoContents,
                deletes |-> {}]
Deletes(r)  == [writes |-> NoContents, deletes |-> {r}]

\* One cell with optimistic, server and query values, and one more cell, so
\* that a response may leave out what the optimistic response promised.
MCOptimistic == {Says1(name, promised), Says2(promised, promised)}
MCResponse   == {NoPatch, Says1(name, answered), Says1(friend, answered)}
MCQuery      == {Says1(name, queried), Says2(Null, queried)}

MCOptimisticDeletes == {Deletes(r1)}
MCResponseDeletes   == {NoPatch, Deletes(r1)}
=============================================================================
