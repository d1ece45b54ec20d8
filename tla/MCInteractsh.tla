----------------------------- MODULE MCInteractsh -----------------------------
(* Events and URLs for TLC. *)
EXTENDS Interactsh

\* Two requests of one template to one host, at the same time.  The first has
\* two events, one after the other: the first event has one URL and the
\* second this and another one.
ThreeEvents == {"e1", "e2", "e3"}
ThreeIds == {"i1", "i2", "i3"}
ThreeUrls ==
    [e \in ThreeEvents |-> CASE e = "e1" -> <<"i1">> [] e = "e2" -> <<"i1", "i2">>
                             [] e = "e3" -> <<"i3">>]
OneAfterOther == [e \in ThreeEvents |-> IF e = "e2" THEN {"e1"} ELSE {}]
SameHost == [e \in ThreeEvents |-> "t"]

OneEvent == {"e1"}
OneId == {"i1"}
OneUrl == [e \in OneEvent |-> <<"i1">>]
OneAlone == [e \in OneEvent |-> {}]
OneHash == [e \in OneEvent |-> "t"]
=============================================================================
