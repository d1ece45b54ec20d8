-------------------------- MODULE MCTemplateContext --------------------------
(***************************************************************************)
(* Template contexts on two targets, the second of which is the first at   *)
(* the port of a template.                                                 *)
(***************************************************************************)
EXTENDS TemplateContext

LOCAL INSTANCE TLC

CONSTANTS e1, e2, e3, e4,  \* executions
          t1, t2, t3,      \* templates
          target, atPort   \* targets, and what is written in them

\* Host spray: two multi-protocol templates on one target, of which the first
\* is also on the other; and a javascript template on the first target, whose
\* single request works on a clone.
MCTemplateOf == [e \in Executions |-> (e1 :> t1 @@ e2 :> t2 @@ e3 :> t1 @@ e4 :> t3)[e]]
MCMetaInputOf == [e \in Executions |-> IF e = e3 THEN atPort ELSE target]
MCInputOf == [m \in MetaInputs |-> m]
MCAtPort == [i \in Inputs |-> atPort]
MCKinds == t1 :> <<"ported", "shared">> @@ t2 :> <<"cloned", "shared">> @@ t3 :> <<"ported">>
=============================================================================
