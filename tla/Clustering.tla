------------------------------ MODULE Clustering ------------------------------
(***************************************************************************)
(* Templates that send the same request are run as one (pkg/templates:     *)
(* Cluster, ClusterTemplates, ClusterExecuter).  The list is split by the  *)
(* protocol and the cluster key of the request; a cluster sends the        *)
(* request of its first template and evaluates the operators of all its    *)
(* templates, one after the other, on one event that they share, its data  *)
(* included.                                                               *)
(***************************************************************************)
EXTENDS Operators

CONSTANTS TemplateLists,  \* set of sequences of templates
          Responses,      \* set of event data
          WithStatus      \* whether failures are reported (-ms)

\* A response has the names that extractors set, with nothing in them.
ClusterAssumptionOn(l, r) ==
    /\ Len(l) \in Nat /\ DOMAIN l = 1..Len(l)
    /\ \A i \in DOMAIN l :
        /\ l[i].clusterable \in BOOLEAN
        /\ l[i].ops.matchers \in Seq([part : DOMAIN r, accepts : SUBSET STRING,
                                      internal : BOOLEAN, excluded : BOOLEAN])
        /\ l[i].ops.extractors \in Seq([name : DOMAIN r, part : DOMAIN r, internal : BOOLEAN])

ASSUME ClusterAssumption ==
    /\ WithStatus \in BOOLEAN
    /\ \A l \in TemplateLists, r \in Responses : ClusterAssumptionOn(l, r)

VARIABLES list,      \* the templates, in order: kind, key, clusterable, operators
          response,  \* the data of the response all of them get
          data,      \* the data of the event of the cluster that is run
          position,  \* next template to split or, later, operator to evaluate
          groups,    \* <<kind, key>> -> positions gathered under it, in order
          executers, \* sequences of positions, still to be run
          running,   \* positions of the cluster that is run
          result,    \* position whose results are in the event, 0 for none
          matches,   \* position -> times results of it were written
          failures   \* positions a failure was written of

clusterVars == <<list, response, data, position, groups, executers, running, result,
                 matches, failures>>

Positions == DOMAIN list
GroupKey(i) == <<list[i].kind, list[i].key>>
GroupKeys == {GroupKey(i) : i \in Positions}

\* Operators of a template and what they give on some data.
Ops(i) == list[i].ops
On(i, d) == Execute(Ops(i), d)
HasOperators(i) == Ops(i) # NoOperators

ClusterInit ==
    /\ list \in TemplateLists
    /\ response \in Responses
    /\ data = response
    /\ position = 1
    /\ groups = [k \in GroupKeys |-> <<>>]
    /\ executers = {}
    /\ running = <<>>
    /\ result = 0
    /\ matches = [i \in Positions |-> 0]
    /\ failures = {}

\* Cluster: a template of one request that is clusterable joins the group of
\* its protocol and key, any other stays on its own.
Split ==
    /\ running = <<>> /\ position \in Positions
    /\ IF list[position].clusterable
       THEN /\ groups' = [groups EXCEPT ![GroupKey(position)] = Append(@, position)]
            /\ UNCHANGED executers
       ELSE /\ executers' = executers \cup {<<position>>}
            /\ UNCHANGED groups
    /\ position' = position + 1
    /\ UNCHANGED <<list, response, data, running, result, matches, failures>>

\* The groups become executers, in any order.
AddClusters ==
    /\ running = <<>> /\ position = Len(list) + 1
    /\ executers' = executers \cup {groups[k] : k \in {x \in GroupKeys : groups[x] # <<>>}}
    /\ position' = 0
    /\ UNCHANGED <<list, response, data, groups, running, result, matches, failures>>

\* A group of one is no cluster: the template runs with its usual executer.
ExecuteAlone(e) ==
    LET i == e[1]
        r == On(i, response)
    IN  /\ running = <<>> /\ position = 0 /\ Len(e) = 1
        /\ executers' = executers \ {e}
        /\ matches' = [matches EXCEPT ![i] = @ + (IF ReportsAlone(Ops(i), r) THEN 1 ELSE 0)]
        /\ failures' = failures \cup (IF WithStatus /\ FailsAlone(Ops(i), r) THEN {i} ELSE {})
        /\ UNCHANGED <<list, response, data, position, groups, running, result>>

\* Execute of a cluster sends the request of its first template.  The
\* response makes an event, with the results of that template in it already.
SendRequest(e) ==
    LET i == e[1]
    IN  /\ running = <<>> /\ position = 0 /\ Len(e) > 1
        /\ executers' = executers \ {e}
        /\ running' = e
        /\ position' = 1
        /\ data' = Extracted(Ops(i), response)
        /\ result' = IF CreatesResult(Ops(i), On(i, response)) THEN i ELSE 0
        /\ UNCHANGED <<list, response, groups, matches, failures>>

\* The loop over the operators of the cluster.  A template without operators
\* has no place in it.
Evaluates(i) ==
    /\ position \in DOMAIN running
    /\ i = running[position]
    /\ HasOperators(i)
    /\ data' = Extracted(Ops(i), data)
    /\ UNCHANGED <<list, response, groups, executers, running>>

\* Mutant: a match ends the loop.
TakeResultAndLeave(i) ==
    LET r == On(i, data)
    IN  /\ Evaluates(i)
        /\ HasResult(Ops(i), r)
        /\ result' = IF MakesResult(Ops(i), r) THEN i ELSE 0
        /\ matches' = [matches EXCEPT ![i] = @ + (IF MakesResult(Ops(i), r) THEN 1 ELSE 0)]
        /\ position' = Len(running) + 1
        /\ UNCHANGED failures

\* The operators return a result: it replaces the one in the event, and what
\* is to be reported of it is written.
TakeResult(i) ==
    LET r == On(i, data)
    IN  /\ Evaluates(i)
        /\ HasResult(Ops(i), r)
        /\ result' = IF MakesResult(Ops(i), r) THEN i ELSE 0
        /\ matches' = [matches EXCEPT ![i] = @ + (IF MakesResult(Ops(i), r) THEN 1 ELSE 0)]
        /\ position' = position + 1
        /\ UNCHANGED failures

\* They do not.  Unless an AND failed, WriteFailure writes the results in the
\* event, which may be those of a template before, or else an event for this
\* template.
LeaveResult(i) ==
    LET r == On(i, data)
        told == IF WithStatus /\ NilResult(Ops(i), r)
                THEN {IF result = 0 THEN i ELSE result} ELSE {}
    IN  /\ Evaluates(i)
        /\ ~HasResult(Ops(i), r)
        /\ failures' = failures \cup told
        /\ position' = position + 1
        /\ UNCHANGED <<result, matches>>

PassOver ==
    /\ position \in DOMAIN running
    /\ ~HasOperators(running[position])
    /\ position' = position + 1
    /\ UNCHANGED <<list, response, data, groups, executers, running, result, matches,
                   failures>>

EndCluster ==
    /\ running # <<>> /\ position = Len(running) + 1
    /\ running' = <<>> /\ position' = 0
    /\ UNCHANGED <<list, response, data, groups, executers, result, matches, failures>>

Evaluate(i) == TakeResult(i) \/ LeaveResult(i)

ClusterNext ==
    \/ Split \/ AddClusters
    \/ \E e \in executers : ExecuteAlone(e) \/ SendRequest(e)
    \/ \E i \in Positions : Evaluate(i)
    \/ PassOver \/ EndCluster

ClusterSpec == ClusterInit /\ [][ClusterNext]_clusterVars

-----------------------------------------------------------------------------
AllRun == running = <<>> /\ position = 0 /\ executers = {}

\* Templates of one cluster read the event apart: what one extracts no other
\* one reads, and no extractor reads what was extracted.
Clustered(i, j) ==
    /\ list[i].clusterable /\ list[j].clusterable
    /\ GroupKey(i) = GroupKey(j)
Names(i) == {Ops(i).extractors[x].name : x \in DOMAIN Ops(i).extractors}
Reads(i) == {Ops(i).matchers[m].part : m \in DOMAIN Ops(i).matchers}
Takes(i) == {Ops(i).extractors[x].part : x \in DOMAIN Ops(i).extractors}
Apart(i) == \A j \in Positions : Clustered(i, j) =>
    /\ Names(j) \cap Takes(i) = {}
    /\ j # i => Names(j) \cap Reads(i) = {}

\* The two results a cluster treats in another way than a template alone:
\* matches that are internal, and extracts besides dynamic values.
Alone(i) == On(i, response)
MixedExtracts(i) == Alone(i).extracts /\ Alone(i).dynamic /\ ~Alone(i).matched

\* What was told of a template is what it reports alone, but a cluster prints
\* internal matches and leaves out what was extracted besides dynamic values.
\* A template of which nothing is returned is told of as a failure, at least
\* where its cluster has nothing to report.
AsAlone(i) ==
    /\ ReportsAlone(Ops(i), Alone(i)) => matches[i] = 1 \/ MixedExtracts(i)
    /\ matches[i] = 1 => ReportsAlone(Ops(i), Alone(i)) \/ MatchesInternally(Ops(i), Alone(i))
    /\ WithStatus /\ HasOperators(i) /\ NilResult(Ops(i), Alone(i))
         /\ (\A j \in Positions : Clustered(i, j) => Apart(j) /\ matches[j] = 0)
            => i \in failures

\* Clustering changes nothing about what is found: when all executers have
\* run, results of a template were written at most once, and of one that reads
\* the event apart from its cluster what it reports alone.
ClusterTransparent ==
    AllRun => \A i \in Positions : matches[i] \in {0, 1} /\ (Apart(i) => AsAlone(i))

-----------------------------------------------------------------------------
(* The invariant behind it *)

Splitting == running = <<>> /\ position # 0
Members(e) == {e[m] : m \in DOMAIN e}

\* Templates that are still to be evaluated.
Waiting == {i \in Positions : \/ Splitting
                              \/ \E e \in executers : i \in Members(e)
                              \/ \E m \in DOMAIN running : m >= position /\ i = running[m]}

\* As long as the list is split, a template that was met is on its own or in
\* the group of its key, and nowhere else.
SplitInv ==
    Splitting =>
        /\ position \in 1..(Len(list) + 1)
        /\ \A e \in executers : \E i \in 1..(position - 1) : e = <<i>> /\ ~list[i].clusterable
        /\ \A k \in GroupKeys : /\ groups[k] \in Seq(1..(position - 1))
                                /\ \A i \in Members(groups[k]) : list[i].clusterable /\ GroupKey(i) = k
                                /\ \A m, n \in DOMAIN groups[k] : m < n => groups[k][m] < groups[k][n]
        /\ \A i \in 1..(position - 1) :
              <<i>> \in executers \/ (list[i].clusterable /\ i \in Members(groups[GroupKey(i)]))

IsCluster(e) ==
    /\ e \in Seq(Positions) /\ e # <<>>
    /\ \A m, n \in DOMAIN e : m # n => e[m] # e[n] /\ Clustered(e[m], e[n])

\* Then a template is in one executer at most.
ExecuterInv ==
    ~Splitting =>
        /\ \A e \in executers : IsCluster(e)
        /\ \A e, f \in executers : e # f => Members(e) \cap Members(f) = {}
        /\ running # <<>> =>
              /\ IsCluster(running) /\ Len(running) > 1
              /\ position \in 1..(Len(running) + 1)
              /\ \A e \in executers : Members(e) \cap Members(running) = {}

\* What differs from the response in the data, and whose results the event has.
EventInv ==
    running # <<>> =>
        /\ DOMAIN data = DOMAIN response
        /\ \A n \in DOMAIN response :
              \/ data[n] = response[n]
              \/ position = 1 /\ FindingAs(Ops(running[1]), response, n) # {}
              \/ \E m \in 1..(position - 1) : n \in Names(running[m])
        /\ result # 0 =>
              \/ position = 1 /\ result = running[1] /\ CreatesResult(Ops(result), Alone(result))
              \/ \E m \in 1..(position - 1) :
                    result = running[m] /\ (Apart(result) => matches[result] # 0)

\* A template that is no longer waiting is told of as it is alone.
OutcomeInv ==
    \A i \in Positions : IF i \in Waiting THEN matches[i] = 0 ELSE Apart(i) => AsAlone(i)

ClusterInv ==
    /\ list \in TemplateLists /\ response \in Responses
    /\ matches \in [Positions -> {0, 1}] /\ DOMAIN groups = GroupKeys
    /\ SplitInv /\ ExecuterInv /\ EventInv /\ OutcomeInv
=============================================================================
