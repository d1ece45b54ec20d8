------------------------------ MODULE ScanPlan ------------------------------
(***************************************************************************)
(* What a scan promises (pkg/core Engine.Execute): every template is       *)
(* settled on every target it is planned for, and the scan does not end    *)
(* before, unless it has been told to stop.  A scan that was stopped may   *)
(* end while pairs it has begun with are still being settled, but it       *)
(* begins with no other once it has ended.  It may be taken up again.      *)
(***************************************************************************)
CONSTANT Pairs          \* the template/target pairs of the scan

VARIABLES pending,      \* pairs still to be settled
          begun,        \* pairs the scan has begun with
          ended,        \* the scan has returned
          stopped       \* it was cancelled or interrupted

vars == <<pending, begun, ended, stopped>>

Init == pending = Pairs /\ begun = {} /\ ended = FALSE /\ stopped = FALSE

Begin == /\ ~ended
         /\ \E more \in SUBSET (Pairs \ begun) : begun' = begun \cup more
         /\ UNCHANGED <<pending, ended, stopped>>

Settle == /\ \E x \in pending \cap begun : pending' = pending \ {x}
          /\ UNCHANGED <<begun, ended, stopped>>

Stop == /\ ~ended
        /\ stopped' = TRUE
        /\ UNCHANGED <<pending, begun, ended>>

End == /\ stopped \/ pending = {}
       /\ ended' = TRUE
       /\ UNCHANGED <<pending, begun, stopped>>

Again == /\ stopped /\ ended
         /\ ended' = FALSE
         /\ begun' = {}
         /\ UNCHANGED <<pending, stopped>>

Next == Begin \/ Settle \/ Stop \/ End \/ Again

Safe == Init /\ [][Next]_vars

\* A scan that has not ended goes on until it has.
Spec == Safe /\ WF_vars(~ended /\ (Begin \/ Settle \/ End))
=============================================================================
