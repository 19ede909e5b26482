----------------------------- MODULE MCTooling ------------------------------
(* Small instances of the components of Tooling for TLC. *)
EXTENDS Tooling

\* One plugin adds to the schema; both validate, at once, and then both end that, in order.
MCPlugins == <<"core", "svelte">>
MCHooksOf == [p \in {"core", "svelte"} |->
                IF p = "core" THEN {"Schema", "Validate", "AfterValidate"}
                ELSE {"Validate", "AfterValidate"}]
MCSetupSteps == <<{"Schema"}>>
MCSteps == <<{"Validate"}, {"AfterValidate"}>>

\* A query in q spreads a fragment of the .gql file f.
MCDependsOn == [x \in {"q", "f"} |-> IF x = "q" THEN {"f"} ELSE {}]

\* A login that replaces the session, a preference that is merged into it, a logout.
MCEmpty == [user |-> "none", theme |-> "none"]
MCWrites == {[session |-> [user |-> "ann", theme |-> "none"], merge |-> FALSE, clear |-> FALSE],
             [session |-> [user |-> "none", theme |-> "dark"], merge |-> TRUE, clear |-> FALSE],
             [session |-> MCEmpty, merge |-> FALSE, clear |-> TRUE]}
=============================================================================
