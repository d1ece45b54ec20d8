------------------------------ MODULE MCFuzzRule ------------------------------
(***************************************************************************)
(* Fuzzing rules on their own: one rule of each type and mode, with two    *)
(* payloads.                                                               *)
(***************************************************************************)
EXTENDS FuzzRule

MCRules ==
    {<<[pairs |-> p, single |-> s, components |-> <<[k \in FuzzKeys |-> "exact"]>>,
        rounds |-> 1, payloads |-> 2]>> : p \in BOOLEAN, s \in BOOLEAN}
=============================================================================
