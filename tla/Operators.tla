------------------------------ MODULE Operators ------------------------------
(***************************************************************************)
(* The operators of a template on the data of an event (pkg/operators:     *)
(* Execute), what of their result is reported (pkg/protocols:              *)
(* MakeDefaultResultEvent), and what becomes of it when the template runs   *)
(* on its own (pkg/protocols/common/helpers/eventcreator, pkg/tmplexec).   *)
(*                                                                         *)
(* The data has a value for every part of the response and every name, or  *)
(* None.  An extractor takes the value of a part, a matcher accepts some   *)
(* values of a part: what regular expressions, words and expressions do is  *)
(* in these values.  Values of a template's extractors do not feed another  *)
(* extractor of the same template.                                         *)
(***************************************************************************)
EXTENDS Integers, Sequences
LOCAL INSTANCE FiniteSetsExt

None == "none"

\* No matchers and extractors: such a template has no compiled operators.
NoOperators == [and |-> FALSE, matchers |-> <<>>, extractors |-> <<>>]

ExtractorOf(ops, i) == ops.extractors[i]
Finding(ops, data) == {i \in DOMAIN ops.extractors : data[ExtractorOf(ops, i).part] # None}
FindingAs(ops, data, n) == {i \in Finding(ops, data) : ExtractorOf(ops, i).name = n}

\* Whatever was extracted is put into the data, a later extractor of the same
\* name over an earlier one.
Extracted(ops, data) ==
    [n \in DOMAIN data |->
        IF FindingAs(ops, data, n) = {} THEN data[n]
        ELSE data[ExtractorOf(ops, Max(FindingAs(ops, data, n))).part]]

\* Matchers in the blocklist are skipped.
Asked(ops) == {i \in DOMAIN ops.matchers : ~ops.matchers[i].excluded}
Holding(ops, data) == {i \in Asked(ops) : data[ops.matchers[i].part] \in ops.matchers[i].accepts}

\* Under AND one matcher that fails ends the evaluation.
AndFails(ops, data) == ops.and /\ Holding(ops, data) # Asked(ops)

\* Execute: the result.
Execute(ops, data) ==
    LET seen == Extracted(ops, data)
    IN  [matched |-> Holding(ops, seen) # {} /\ ~AndFails(ops, seen),
         andFails |-> AndFails(ops, seen),
         extracts |-> \E i \in Finding(ops, data) : ~ExtractorOf(ops, i).internal,
         dynamic |-> \E i \in Finding(ops, data) : ExtractorOf(ops, i).internal]

\* Execute: what it returns besides.  A result comes with FALSE only when an
\* AND fails, and without one nothing is returned.
HasResult(ops, r) == r.dynamic \/ r.matched \/ (r.extracts /\ ops.matchers = <<>>)
NilResult(ops, r) == ~HasResult(ops, r) /\ ~r.andFails

\* MakeDefaultResultEvent makes a result event: not if dynamic values were
\* extracted without a match, nor if matchers failed.
MakesResult(ops, r) ==
    /\ r.dynamic => r.matched
    /\ r.extracts /\ ops.matchers # <<>> => r.matched

-----------------------------------------------------------------------------
\* CreateEvent: dynamic values become data when something else was extracted.
Created(r) == [r EXCEPT !.dynamic = @ /\ ~r.extracts]
CreatesResult(ops, r) == HasResult(ops, r) /\ MakesResult(ops, Created(r))

\* OnResult: a match of internal matchers is not meant to be printed.
MatchesInternally(ops, r) ==
    r.matched /\ \A i \in DOMAIN ops.matchers : ops.matchers[i].internal

\* What a template alone reports and what it reports a failure of.
ReportsAlone(ops, r) == CreatesResult(ops, r) /\ ~MatchesInternally(ops, r)
FailsAlone(ops, r) == ~CreatesResult(ops, r)
=============================================================================
