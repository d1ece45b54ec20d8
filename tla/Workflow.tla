------------------------------- MODULE Workflow -------------------------------
(***************************************************************************)
(* One workflow on one target (pkg/core/workflow_execute.go).  The root    *)
(* steps run one after the other; the subtemplates of a step run in        *)
(* goroutines of their own.  All of them, root steps included, hold a slot *)
(* of one shared wait group while they run, and a step that starts a       *)
(* subtemplate waits for a slot while it holds its own.                    *)
(***************************************************************************)
EXTENDS Naturals, Sequences, FiniteSets

CONSTANTS Steps,             \* the nodes of the workflow tree
          Roots,             \* w.Workflows, a sequence of steps
          Subtemplates,      \* step -> the steps it starts when it matched
          Matchers,          \* step -> its matchers, each the steps it starts
          MaxEvents,         \* bound: matchers that fire in one execution
          TemplateThreads    \* -c

ASSUME WorkflowAssumption ==
    /\ Roots \in Seq(Steps)
    /\ Subtemplates \in [Steps -> Seq(Steps)]
    /\ \A s \in Steps : Matchers[s] \in Seq(Seq(Steps))
    /\ MaxEvents \in Nat /\ TemplateThreads \in Nat \ {0}

\* Mutant: no slot is added for the subtemplates.
SlotsAsGiven == TemplateThreads

\* "increase template threads by one unit in case it's equal to 1"
Slots == IF TemplateThreads = 1 THEN 2 ELSE TemplateThreads

VARIABLES root,       \* position of the loop in Roots
          inline,     \* whether the loop is inside a root step
          procs,      \* identity -> the step it runs, or Idle
          sem,        \* slots in use, the counter of swg
          results,    \* the shared result
          returned,   \* executeWorkflow has returned
          answer      \* what executeWorkflow returned

workflowVars == <<root, inline, procs, sem, results, returned, answer>>

\* Identities of running steps, one per slot.
Procs == 1..Slots

Idle == [state |-> "idle"]

Live == {p \in Procs : procs[p].state # "idle"}

\* A running step: its goroutine, and the subtemplates it still has to start.
Running == [state : {"executing", "fanOut"}, step : Steps, todo : Seq(Steps),
            events : 0..MaxEvents, root : BOOLEAN]

WorkflowTypeOK ==
    /\ root \in 1..(Len(Roots) + 1)
    /\ inline \in BOOLEAN
    /\ procs \in [Procs -> Running \cup {Idle}]
    /\ sem \in 0..Slots
    /\ results \in BOOLEAN /\ returned \in BOOLEAN /\ answer \in BOOLEAN

WorkflowInit ==
    /\ root = 1 /\ inline = FALSE
    /\ procs = [p \in Procs |-> Idle]
    /\ sem = 0
    /\ results = FALSE /\ returned = FALSE /\ answer = FALSE

\* The least identity that is free.
IsFree(p) == p \notin Live /\ \A q \in Procs : q < p => q \in Live

\* A step with neither matchers nor subtemplates.
IsLeaf(s) == Subtemplates[s] = <<>> /\ Matchers[s] = <<>>

Start(p, s, isRoot) ==
    procs' = [procs EXCEPT ![p] = [state |-> "executing", step |-> s, todo |-> <<>>,
                                   events |-> 0, root |-> isRoot]]

-----------------------------------------------------------------------------
\* The loop over w.Workflows: swg.Add, then the step runs synchronously.
StartRoot(p) ==
    /\ ~inline /\ root <= Len(Roots) /\ IsFree(p)
    /\ sem < Slots
    /\ sem' = sem + 1
    /\ inline' = TRUE
    /\ Start(p, Roots[root], TRUE)
    /\ UNCHANGED <<root, results, returned, answer>>

\* OnResult of a step with matchers: a matcher fires, its subtemplates are
\* started from inside the callback.
Match(p) ==
    /\ p \in Live /\ procs[p].state = "executing" /\ procs[p].todo = <<>>
    /\ procs[p].events < MaxEvents
    /\ \E m \in DOMAIN Matchers[procs[p].step] :
           procs' = [procs EXCEPT ![p].todo = Matchers[procs[p].step][m],
                                  ![p].events = @ + 1]
    /\ UNCHANGED <<root, inline, sem, results, returned, answer>>

\* The executers of the step are through.  A step with neither matchers nor
\* subtemplates contributes its match to the result; one with subtemplates
\* starts them if it matched.
EndExecute(p, found) ==
    /\ p \in Live /\ procs[p].state = "executing" /\ procs[p].todo = <<>>
    /\ LET s == procs[p].step
           leaf == IsLeaf(s)
       IN /\ procs' = [procs EXCEPT ![p].state = "fanOut",
                                    ![p].todo = IF found /\ Matchers[s] = <<>>
                                                THEN Subtemplates[s] ELSE <<>>]
          /\ results' = (results \/ (leaf /\ found))
    /\ UNCHANGED <<root, inline, sem, returned, answer>>

\* swg.Add for the next subtemplate, which gets a goroutine of its own.
StartSub(p, q) ==
    /\ p \in Live /\ procs[p].todo # <<>> /\ IsFree(q)
    /\ sem < Slots
    /\ sem' = sem + 1
    /\ procs' = [procs EXCEPT ![p].todo = Tail(@),
                     ![q] = [state |-> "executing", step |-> Head(procs[p].todo),
                             todo |-> <<>>, events |-> 0, root |-> FALSE]]
    /\ UNCHANGED <<root, inline, results, returned, answer>>

\* Mutant: a root step that ends keeps its slot.
EndStepKeepsSlot(p) ==
    /\ p \in Live /\ procs[p].state = "fanOut" /\ procs[p].todo = <<>>
    /\ procs' = [procs EXCEPT ![p] = Idle]
    /\ sem' = IF procs[p].root THEN sem ELSE sem - 1
    /\ IF procs[p].root THEN inline' = FALSE /\ root' = root + 1
       ELSE UNCHANGED <<inline, root>>
    /\ UNCHANGED <<results, returned, answer>>

\* swg.Done.
EndStep(p) ==
    /\ p \in Live /\ procs[p].state = "fanOut" /\ procs[p].todo = <<>>
    /\ procs' = [procs EXCEPT ![p] = Idle]
    /\ sem' = sem - 1
    /\ IF procs[p].root THEN inline' = FALSE /\ root' = root + 1
       ELSE UNCHANGED <<inline, root>>
    /\ UNCHANGED <<results, returned, answer>>

\* Mutant: the loop returns without waiting for the goroutines.
ReturnAtOnce ==
    /\ ~returned /\ ~inline /\ root > Len(Roots)
    /\ returned' = TRUE /\ answer' = results
    /\ UNCHANGED <<root, inline, procs, sem, results>>

\* swg.Wait is over.
Return ==
    /\ ~returned /\ ~inline /\ root > Len(Roots) /\ sem = 0
    /\ returned' = TRUE /\ answer' = results
    /\ UNCHANGED <<root, inline, procs, sem, results>>

WorkflowNext ==
    \/ \E p \in Procs :
          \/ StartRoot(p)
          \/ Match(p)
          \/ \E found \in BOOLEAN : EndExecute(p, found)
          \/ \E q \in Procs : StartSub(p, q)
          \/ EndStep(p)
    \/ Return

WorkflowSpec == WorkflowInit /\ [][WorkflowNext]_workflowVars

-----------------------------------------------------------------------------
(* Properties *)

\* executeWorkflow returns when no step is left running, and no match of a
\* step is added to the result after it was read: no goroutine that was
\* started late is missed by swg.Wait.
ReturnsWhenDone == returned => Live = {} /\ answer = results

\* Every slot is held by a step that waits for one.
AllWait == sem = Slots /\ \A p \in Live : procs[p].todo # <<>>

\* "allow at least one subtemplate to go through": the steps that hold the
\* slots are never all waiting for a slot.
SubtemplatesGoThrough == ~AllWait

\* The subtemplates of a workflow of two levels have none themselves.
Leaf == {s \in Steps : IsLeaf(s)}
TwoLevels == \A s \in Steps : /\ Subtemplates[s] \in Seq(Leaf)
                              /\ Matchers[s] \in Seq(Seq(Leaf))

\* A workflow that has begun comes to its end.
Returns == inline ~> returned
=============================================================================
