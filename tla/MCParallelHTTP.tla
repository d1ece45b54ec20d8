--------------------------- MODULE MCParallelHTTP ---------------------------
(* Requests and hosts for TLC. *)
EXTENDS ParallelHTTP

\* The second request goes to a host of its own.
TwoHosts == [r \in Requests |-> IF r = 2 THEN "other" ELSE "target"]
OneHost == [r \in Requests |-> "target"]
=============================================================================
