------------------------------ MODULE MCSetup ------------------------------
(* Two setups with their own preference and executable, for the same vault id. *)
EXTENDS Setup

MCRequest ==
    [p \in Setups |-> CASE p = "one" -> [id |-> "v", path |-> "a", semantic |-> "on"]
                        [] p = "two" -> [id |-> "v", path |-> "b", semantic |-> "saved"]]

MCDefinition == [p \in Setups |-> p]

MCAdditions == {<<"v", "b">>, <<"w", "a">>}
=============================================================================
