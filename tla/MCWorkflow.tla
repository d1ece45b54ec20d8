------------------------------ MODULE MCWorkflow ------------------------------
(* Workflow trees for TLC. *)
EXTENDS Workflow

Nodes == {"a", "b", "c", "d", "e", "f", "g"}

Leaves(inner) == [s \in Nodes |-> IF s \in DOMAIN inner THEN inner[s] ELSE <<>>]

\* Two levels: two steps with subtemplates, one step with two matchers.
FlatRoots == <<"a", "e">>
FlatSubtemplates == Leaves([a |-> <<"b", "c">>])
FlatMatchers == Leaves([e |-> <<<<"f", "g">>, <<"g">>>>])

\* Three levels: a subtemplate that has subtemplates of its own.
DeepRoots == <<"a">>
DeepSubtemplates == Leaves([a |-> <<"b", "c">>, b |-> <<"d", "e">>])
DeepMatchers == Leaves([c |-> <<<<"f", "g">>>>])
=============================================================================
