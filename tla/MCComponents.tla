----------------------------- MODULE MCComponents -----------------------------
(***************************************************************************)
(* The components that share no state, side by side in one run: a behaviour *)
(* is one of component "part", and the other components stay as they       *)
(* began.  A property of a component says nothing in the behaviours of the *)
(* others.                                                                 *)
(***************************************************************************)
EXTENDS HostSpray, FrequencyTracker, ScriptPool, DynamicAuth, RequestGenerator, FuzzRule,
        Clustering, UploadWriter, MCWorkflow, MCTemplateContext

VARIABLE part

Parts == {"host", "frequency", "script", "auth", "generator", "fuzz", "cluster",
          "upload", "workflow", "contexts", "ports", "clone"}

\* Either the runs of the first template have up to two events each, or those
\* of the second and of the self-contained template one.
MCEventBounds == {<<2, 0, 0>>, <<0, 1, 1>>}

-----------------------------------------------------------------------------
MCOnce == {<<FALSE>>, <<TRUE>>} \cup (BOOLEAN \X BOOLEAN)

Plan(attack, lens, raw, iterate, stopFirst) ==
    {[attack |-> attack, lens |-> l, once |-> o, raw |-> r, iterate |-> i, stopFirst |-> s] :
        l \in lens, o \in MCOnce, r \in raw, i \in iterate, s \in stopFirst}

\* Empty lists come from empty payload files, several battering ram lists from
\* an attack type on the command line.
MCPlans ==
    Plan("none", {<<>>}, BOOLEAN, BOOLEAN, BOOLEAN)
    \cup Plan("batteringram", {<<0>>, <<1>>, <<2>>, <<2, 1>>, <<0, 2>>}, BOOLEAN, {FALSE}, {FALSE})
    \cup Plan("pitchfork", {<<2>>, <<2, 1>>, <<2, 2>>, <<1, 2>>}, {TRUE}, {FALSE}, {FALSE})
    \cup Plan("clusterbomb", {<<2>>, <<2, 3>>, <<3, 2>>, <<2, 2, 2>>, <<1, 2, 1>>, <<3, 1, 2>>},
              {TRUE}, {FALSE}, {FALSE})

-----------------------------------------------------------------------------
Rule(components, rounds) ==
    {[pairs |-> p, single |-> s, components |-> components, rounds |-> rounds, payloads |-> 2] :
        p \in BOOLEAN, s \in BOOLEAN}
Single(components, rounds) == {r \in Rule(components, rounds) : r.single /\ ~r.pairs}

\* Values that cannot be put back beside those of every kind, two rounds and
\* two components with an array in them, and two rules.
MCRuleLists ==
    LET Every == {"exact", "fraction", "altered", "list", "inert"}
        Mixed == <<<<"list", "exact">>>>
    IN  {<<r>> : r \in UNION {Single(<<<<v, w>>>>, 1) : v \in {"altered", "list"}, w \in Every}}
        \cup {<<r>> : r \in Rule(Mixed, 2) \cup Single(Mixed \o <<<<"exact", "list">>>>, 1)}
        \cup (Rule(Mixed, 1) \X Rule(Mixed, 1))

-----------------------------------------------------------------------------
Tpl(c, k, n, ops) ==
    [clusterable |-> c, kind |-> k, key |-> n, ops |-> ops]
Body(values) == [part |-> "body", accepts |-> values, internal |-> FALSE, excluded |-> FALSE]
Private(m) == [m EXCEPT !.internal = TRUE]
Blocked(m) == [m EXCEPT !.excluded = TRUE]
Reading(name) == [Body({"a", "b"}) EXCEPT !.part = name]
Take(name, internal) == [name |-> name, part |-> "body", internal |-> internal]
Any(ms, xs) == [and |-> FALSE, matchers |-> ms, extractors |-> xs]
All(ms, xs) == [and |-> TRUE, matchers |-> ms, extractors |-> xs]

\* Clusters of two protocols and several keys, a template that is like the
\* others but cannot be clustered, one without operators, and every way of
\* combining matchers and extractors that Execute tells apart.
MCTemplateLists ==
    {<<Tpl(TRUE, "http", 1, Any(<<Body({"a"})>>, <<>>)),
       Tpl(TRUE, "dns", 1, Any(<<Body({"b"})>>, <<>>)),
       Tpl(TRUE, "http", 1, All(<<Body({"a"}), Body({"b"})>>, <<Take("id", FALSE)>>)),
       Tpl(FALSE, "http", 1, Any(<<Private(Body({"a"}))>>, <<>>)),
       Tpl(TRUE, "http", 2, All(<<Body({"a", "b"}), Blocked(Body({}))>>, <<>>))>>,
     <<Tpl(TRUE, "http", 1, Any(<<Body({"b"})>>, <<Take("id", FALSE)>>)),
       Tpl(TRUE, "http", 1, NoOperators),
       Tpl(TRUE, "http", 1, Any(<<Private(Body({"a"}))>>, <<>>)),
       Tpl(TRUE, "http", 1, Any(<<>>, <<Take("token", TRUE), Take("id", FALSE)>>)),
       Tpl(TRUE, "http", 1, Any(<<Body({"a"})>>, <<Take("token", TRUE)>>))>>,
     <<Tpl(TRUE, "ssl", 1, Any(<<>>, <<Take("id", FALSE)>>)),
       Tpl(TRUE, "ssl", 1, Any(<<Reading("id")>>, <<>>)),
       Tpl(TRUE, "ssl", 1, All(<<Reading("token")>>, <<Take("token", TRUE)>>))>>}

MCResponses == {[body |-> v, id |-> None, token |-> None] : v \in {"a", "b", None}}

-----------------------------------------------------------------------------
\* Two lines fill an upload exactly, two are too much, one fills it alone.
MCLineSizes == <<1, 2, 1, 3, 1>>

-----------------------------------------------------------------------------
\* Two templates on one target; one template on two targets, of which the
\* second is the first at its port; a template with a javascript template.
ContextNextOf(executions) == \E e \in executions : ContextStepOf(e)

-----------------------------------------------------------------------------
allVars == <<part, hostVars, freqVars, scriptVars, authVars, genVars, fuzzVars, clusterVars,
             uploadVars, workflowVars, contextVars>>

Init ==
    /\ part \in Parts
    /\ HostInit /\ (part = "host" \/ \A r \in Runs : r[1] > 1 => left[r] = 0)
    /\ FreqInit /\ ScriptInit
    /\ AuthInit /\ (part = "auth" \/ ~(prefetch \/ shared))
    /\ GenInit /\ (part = "generator" \/ plan = CHOOSE p \in Plans : TRUE)
    /\ FuzzInit /\ (part = "fuzz" \/ rules = CHOOSE l \in RuleLists : TRUE)
    /\ ClusterInit
    /\ part = "cluster" \/ /\ list = CHOOSE l \in TemplateLists : TRUE
                           /\ response = CHOOSE r \in Responses : TRUE
    /\ UploadInit /\ (part = "upload" \/ scanID)
    /\ WorkflowInit
    /\ ContextInit

Next ==
    /\ UNCHANGED part
    /\ \/ /\ part = "host" /\ HostNext
          /\ UNCHANGED <<freqVars, scriptVars, authVars, genVars, fuzzVars,
                         clusterVars, uploadVars, workflowVars, contextVars>>
       \/ /\ part = "frequency" /\ FreqNext
          /\ UNCHANGED <<hostVars, scriptVars, authVars, genVars, fuzzVars,
                         clusterVars, uploadVars, workflowVars, contextVars>>
       \/ /\ part = "script" /\ ScriptNext
          /\ UNCHANGED <<hostVars, freqVars, authVars, genVars, fuzzVars,
                         clusterVars, uploadVars, workflowVars, contextVars>>
       \/ /\ part = "auth" /\ AuthNext
          /\ UNCHANGED <<hostVars, freqVars, scriptVars, genVars, fuzzVars,
                         clusterVars, uploadVars, workflowVars, contextVars>>
       \/ /\ part = "generator" /\ GenNext
          /\ UNCHANGED <<hostVars, freqVars, scriptVars, authVars, fuzzVars,
                         clusterVars, uploadVars, workflowVars, contextVars>>
       \/ /\ part = "fuzz" /\ FuzzNext
          /\ UNCHANGED <<hostVars, freqVars, scriptVars, authVars, genVars,
                         clusterVars, uploadVars, workflowVars, contextVars>>
       \/ /\ part = "cluster" /\ ClusterNext
          /\ UNCHANGED <<hostVars, freqVars, scriptVars, authVars, genVars,
                         fuzzVars, uploadVars, workflowVars, contextVars>>
       \/ /\ part = "upload" /\ UploadNext
          /\ UNCHANGED <<hostVars, freqVars, scriptVars, authVars, genVars,
                         fuzzVars, clusterVars, workflowVars, contextVars>>
       \/ /\ part = "workflow" /\ WorkflowNext
          /\ UNCHANGED <<hostVars, freqVars, scriptVars, authVars, genVars,
                         fuzzVars, clusterVars, uploadVars, contextVars>>
       \/ /\ \/ part = "contexts" /\ ContextNextOf({e1, e2})
             \/ part = "ports" /\ ContextNextOf({e1, e3})
             \/ part = "clone" /\ ContextNextOf({e2, e4})
          /\ UNCHANGED <<hostVars, freqVars, scriptVars, authVars, genVars,
                         fuzzVars, clusterVars, uploadVars, workflowVars>>

\* Fairness of the components that have a liveness property.  A workflow is
\* finite: as long as some goroutine runs, it gets to its end.
Spec ==
    /\ Init /\ [][Next]_allVars
    /\ WF_hostVars(part = "host" /\ HostProgress)
    /\ \A s \in Scripts : WF_scriptVars(part = "script" /\ Deadline(s))
    /\ WF_workflowVars(part = "workflow" /\ WorkflowNext)
=============================================================================
