---------------------------- MODULE WorkflowProofs ----------------------------
(***************************************************************************)
(* Why workflows of two levels never wait on themselves, whatever their    *)
(* size and the number of template threads: only a root step ever waits    *)
(* for a slot, there is one of them at a time, and there are two slots.    *)
(***************************************************************************)
EXTENDS Workflow, FiniteSetTheorems, TLAPS

\* A slot is in use for every running step.
SlotPerStep == IsFiniteSet(Live) /\ sem = Cardinality(Live)

\* At most one root step runs, and only it has subtemplates to start.
OnlyRootWaits ==
    /\ \A p \in Live : procs[p].root => inline /\ root <= Len(Roots)
    /\ \A p, q \in Live : procs[p].root /\ procs[q].root => p = q
    /\ \A p \in Live : /\ procs[p].todo \in Seq(Leaf)
                       /\ ~procs[p].root => IsLeaf(procs[p].step) /\ procs[p].todo = <<>>

WorkflowInv == WorkflowTypeOK /\ SlotPerStep /\ OnlyRootWaits

\* Starting a step takes a slot.
LEMMA StartTakesSlot ==
    ASSUME SlotPerStep, NEW p \in Procs, p \notin Live,
           Live' = Live \cup {p}, sem' = sem + 1
    PROVE  SlotPerStep'
BY FS_AddElement DEF SlotPerStep

\* Ending a step gives its slot back.
LEMMA EndGivesSlotBack ==
    ASSUME SlotPerStep, NEW p \in Live, Live' = Live \ {p}, sem' = sem - 1
    PROVE  SlotPerStep'
BY FS_RemoveElement DEF SlotPerStep

\* A root step starts alone.
LEMMA StartRootKeeps ==
    ASSUME WorkflowInv, NEW p \in Procs, StartRoot(p)
    PROVE  WorkflowInv'
<1> DEFINE new == [state |-> "executing", step |-> Roots[root], todo |-> <<>>,
                   events |-> 0, root |-> TRUE]
<1>1. /\ procs' = [procs EXCEPT ![p] = new] /\ p \notin Live /\ inline' = TRUE
      /\ ~inline /\ root <= Len(Roots) /\ sem < Slots /\ sem' = sem + 1
      /\ UNCHANGED <<root, results, returned, answer>>
  BY DEF StartRoot, Start, IsFree
<1>2. Roots[root] \in Steps
  BY WorkflowAssumption DEF StartRoot, WorkflowInv, WorkflowTypeOK
<1>3. new \in Running
  BY <1>2, WorkflowAssumption DEF Running
<1>4. procs' \in [Procs -> Running \cup {Idle}]
  BY <1>1, <1>3 DEF WorkflowInv, WorkflowTypeOK
<1>5. Live' = Live \cup {p}
  BY <1>1, <1>4 DEF Live, WorkflowInv, WorkflowTypeOK, Idle
<1>6. WorkflowTypeOK'
  BY <1>1, <1>4, WorkflowAssumption DEF WorkflowInv, WorkflowTypeOK, Slots
<1>7. SlotPerStep'
  BY <1>1, <1>5, StartTakesSlot DEF WorkflowInv
<1>8. OnlyRootWaits'
  <2>1. /\ procs'[p].root = TRUE /\ procs'[p].todo = <<>>
        /\ \A q \in Live : procs'[q] = procs[q]
    BY <1>1, <1>5 DEF WorkflowInv, WorkflowTypeOK, Live
  <2>2. <<>> \in Seq(Leaf)
    OBVIOUS
  <2> QED
    BY <1>1, <1>5, <2>1, <2>2 DEF OnlyRootWaits, WorkflowInv
<1> QED
  BY <1>6, <1>7, <1>8 DEF WorkflowInv

\* A step that runs on keeps its slot, its place and its kind.
LEMMA SameStepKeeps ==
    ASSUME WorkflowInv, WorkflowTypeOK', NEW p \in Live, NEW rec \in Running,
           procs' = [procs EXCEPT ![p] = rec], UNCHANGED <<inline, root, sem>>,
           rec.root = procs[p].root, rec.step = procs[p].step,
           rec.todo \in Seq(Leaf), ~rec.root => rec.todo = <<>>
    PROVE  WorkflowInv'
<1>1. /\ procs'[p] = rec /\ rec.state # "idle"
      /\ \A q \in Procs \ {p} : procs'[q] = procs[q]
  BY DEF WorkflowInv, WorkflowTypeOK, Running, Live
<1>2. Live' = Live
  BY <1>1 DEF Live
<1>3. SlotPerStep'
  BY <1>2 DEF WorkflowInv, SlotPerStep
<1>4. OnlyRootWaits'
  BY <1>1, <1>2 DEF WorkflowInv, OnlyRootWaits, Live
<1> QED
  BY <1>3, <1>4 DEF WorkflowInv

\* A matcher fires: only a root step has any.
LEMMA MatchKeeps ==
    ASSUME TwoLevels, WorkflowInv, NEW p \in Procs, Match(p)
    PROVE  WorkflowInv'
<1>1. p \in Live /\ procs[p] \in Running
  BY DEF Match, WorkflowInv, WorkflowTypeOK, Live, Idle
<1>2. PICK m \in DOMAIN Matchers[procs[p].step] :
          procs' = [procs EXCEPT ![p].todo = Matchers[procs[p].step][m],
                                 ![p].events = @ + 1]
  BY DEF Match
<1> DEFINE subs == Matchers[procs[p].step][m]
           rec == [procs[p] EXCEPT !.todo = subs, !.events = @ + 1]
<1>3. procs[p].step \in Steps /\ procs[p].events + 1 \in 0..MaxEvents
  <2>1. MaxEvents \in Nat
    BY WorkflowAssumption
  <2>2. procs[p].step \in Steps /\ procs[p].events \in 0..MaxEvents
    BY <1>1 DEF Running
  <2>3. procs[p].events < MaxEvents
    BY DEF Match
  <2> QED
    BY <2>1, <2>2, <2>3
<1>4. subs \in Seq(Leaf)
  BY <1>2, <1>3 DEF TwoLevels
<1>5. subs \in Seq(Steps)
  BY <1>4 DEF Leaf
<1>6. rec \in Running /\ rec.root = procs[p].root /\ rec.step = procs[p].step
      /\ rec.todo = subs
  BY <1>1, <1>3, <1>5 DEF Running
<1>7. procs' = [procs EXCEPT ![p] = rec]
  BY <1>1, <1>2 DEF WorkflowInv, WorkflowTypeOK
<1>8. rec.root
  <2>1. Matchers[procs[p].step] # <<>>
    BY <1>2
  <2> QED
    BY <1>1, <1>6, <2>1 DEF WorkflowInv, OnlyRootWaits, IsLeaf
<1>9. WorkflowTypeOK' /\ UNCHANGED <<inline, root, sem>>
  BY <1>1, <1>6, <1>7 DEF Match, WorkflowInv, WorkflowTypeOK
<1> HIDE DEF rec, subs
<1> QED
  BY <1>1, <1>4, <1>6, <1>7, <1>8, <1>9, SameStepKeeps

\* The executers are through: only a root step has subtemplates to start.
LEMMA EndExecuteKeeps ==
    ASSUME TwoLevels, WorkflowInv, NEW p \in Procs, NEW matched \in BOOLEAN,
           EndExecute(p, matched)
    PROVE  WorkflowInv'
<1>1. p \in Live /\ procs[p] \in Running
  BY DEF EndExecute, WorkflowInv, WorkflowTypeOK, Live, Idle
<1> DEFINE s == procs[p].step
           subs == IF matched /\ Matchers[s] = <<>> THEN Subtemplates[s] ELSE <<>>
           rec == [procs[p] EXCEPT !.state = "fanOut", !.todo = subs]
<1>2. s \in Steps
  BY <1>1 DEF Running
<1>3. subs \in Seq(Leaf)
  BY <1>2 DEF TwoLevels
<1>4. subs \in Seq(Steps)
  BY <1>3 DEF Leaf
<1>5. rec \in Running /\ rec.root = procs[p].root /\ rec.step = s /\ rec.todo = subs
  BY <1>1, <1>4 DEF Running
<1>6. procs' = [procs EXCEPT ![p] = rec]
  BY <1>1 DEF EndExecute, WorkflowInv, WorkflowTypeOK
<1>7. ~rec.root => subs = <<>>
  BY <1>1, <1>5 DEF WorkflowInv, OnlyRootWaits, IsLeaf
<1>8. WorkflowTypeOK' /\ UNCHANGED <<inline, root, sem>>
  <2>1. results' \in BOOLEAN /\ answer' \in BOOLEAN
    BY Zenon DEF EndExecute, WorkflowInv, WorkflowTypeOK
  <2> QED
    BY <1>1, <1>5, <1>6, <2>1 DEF EndExecute, WorkflowInv, WorkflowTypeOK
<1> HIDE DEF rec, subs
<1> QED
  BY <1>1, <1>3, <1>5, <1>6, <1>7, <1>8, SameStepKeeps

\* A step ends and frees its slot; the loop goes on after a root step.
LEMMA EndStepKeeps ==
    ASSUME WorkflowInv, NEW p \in Procs, EndStep(p)
    PROVE  WorkflowInv'
<1>1. /\ p \in Live /\ procs' = [procs EXCEPT ![p] = Idle] /\ sem' = sem - 1
      /\ UNCHANGED <<results, returned, answer>>
      /\ \/ procs[p].root /\ inline' = FALSE /\ root' = root + 1
         \/ ~procs[p].root /\ UNCHANGED <<inline, root>>
  BY DEF EndStep
<1>2. /\ procs' \in [Procs -> Running \cup {Idle}]
      /\ \A q \in Procs \ {p} : procs'[q] = procs[q]
  BY <1>1 DEF WorkflowInv, WorkflowTypeOK
<1>3. Live' = Live \ {p}
  BY <1>1, <1>2 DEF Live, Idle, WorkflowInv, WorkflowTypeOK
<1>4. SlotPerStep'
  BY <1>1, <1>3, EndGivesSlotBack DEF WorkflowInv
<1>5. OnlyRootWaits'
  BY <1>1, <1>2, <1>3 DEF WorkflowInv, OnlyRootWaits, Live
<1>6. sem' \in 0..Slots
  <2>1. sem' \in Nat
    BY <1>4, FS_CardinalityType DEF SlotPerStep
  <2> QED
    BY <1>1, <2>1, WorkflowAssumption DEF WorkflowInv, WorkflowTypeOK, Slots
<1>7. WorkflowTypeOK'
  <2>1. Len(Roots) \in Nat
    BY WorkflowAssumption
  <2>2. root' \in 1..(Len(Roots) + 1) /\ inline' \in BOOLEAN
    <3>1. CASE procs[p].root /\ inline' = FALSE /\ root' = root + 1
      <4>1. root <= Len(Roots)
        BY <1>1, <3>1 DEF WorkflowInv, OnlyRootWaits
      <4>2. root' \in 1..(Len(Roots) + 1)
        BY <2>1, <3>1, <4>1 DEF WorkflowInv, WorkflowTypeOK
      <4>3. inline' \in BOOLEAN
        BY <3>1
      <4> QED
        BY <4>2, <4>3
    <3>2. CASE UNCHANGED <<inline, root>>
      BY <3>2 DEF WorkflowInv, WorkflowTypeOK
    <3> QED
      BY <1>1, <3>1, <3>2
  <2> QED
    BY <1>1, <1>2, <1>6, <2>2 DEF WorkflowInv, WorkflowTypeOK
<1> QED
  BY <1>4, <1>5, <1>7 DEF WorkflowInv

\* A subtemplate is started by a root step, and has nothing to start itself.
LEMMA StartSubKeeps ==
    ASSUME WorkflowInv, NEW p \in Procs, NEW q \in Procs, StartSub(p, q)
    PROVE  WorkflowInv'
<1>1. /\ p \in Live /\ q \notin Live /\ p # q /\ procs[p] \in Running
      /\ procs[p].todo # <<>> /\ sem < Slots /\ sem' = sem + 1
      /\ UNCHANGED <<root, inline, results, returned, answer>>
  BY DEF StartSub, IsFree, WorkflowInv, WorkflowTypeOK, Live, Idle
<1> DEFINE rest == [procs[p] EXCEPT !.todo = Tail(@)]
           new == [state |-> "executing", step |-> Head(procs[p].todo), todo |-> <<>>,
                   events |-> 0, root |-> FALSE]
<1>2. procs[p].todo \in Seq(Leaf)
  BY <1>1 DEF WorkflowInv, OnlyRootWaits
<1>3. Head(procs[p].todo) \in Leaf /\ Tail(procs[p].todo) \in Seq(Leaf)
  BY <1>1, <1>2
<1>4. Head(procs[p].todo) \in Steps /\ Tail(procs[p].todo) \in Seq(Steps)
      /\ IsLeaf(Head(procs[p].todo))
  BY <1>3 DEF Leaf
<1>5. /\ rest \in Running /\ rest.root = procs[p].root /\ rest.step = procs[p].step
      /\ rest.todo = Tail(procs[p].todo) /\ rest.state = procs[p].state
  BY <1>1, <1>4 DEF Running
<1>6. new \in Running
  BY <1>4, WorkflowAssumption DEF Running
<1>7. procs' = [procs EXCEPT ![p] = rest, ![q] = new]
  BY <1>1 DEF StartSub, WorkflowInv, WorkflowTypeOK
<1>8. /\ procs'[p] = rest /\ procs'[q] = new
      /\ \A r \in Procs \ {p, q} : procs'[r] = procs[r]
      /\ procs' \in [Procs -> Running \cup {Idle}]
  BY <1>1, <1>5, <1>6, <1>7 DEF WorkflowInv, WorkflowTypeOK
<1>9. Live' = Live \cup {q}
  <2>1. procs'[p].state # "idle" /\ procs'[q].state # "idle"
    BY <1>1, <1>5, <1>8 DEF Live
  <2> QED
    BY <1>1, <1>8, <2>1 DEF Live
<1>10. SlotPerStep'
  BY <1>1, <1>9, StartTakesSlot DEF WorkflowInv
<1>11. WorkflowTypeOK'
  BY <1>1, <1>8, WorkflowAssumption DEF WorkflowInv, WorkflowTypeOK, Slots
<1>12. OnlyRootWaits'
  <2>1. procs[p].root
    BY <1>1 DEF WorkflowInv, OnlyRootWaits
  <2>2. procs'[q].root = FALSE /\ procs'[q].todo = <<>> /\ IsLeaf(procs'[q].step)
    BY <1>4, <1>8
  <2>3. procs'[p].root = TRUE /\ procs'[p].todo \in Seq(Leaf)
    BY <1>3, <1>5, <1>8, <2>1 DEF Running
  <2> HIDE DEF rest, new
  <2>4. \A r \in Live \ {p} : r # q /\ procs'[r] = procs[r]
    BY <1>1, <1>8 DEF Live
  <2>5. <<>> \in Seq(Leaf)
    OBVIOUS
  <2>6. \A r \in Live' : procs'[r].root => inline' /\ root' <= Len(Roots)
    BY <1>1, <1>9, <2>1, <2>2, <2>4 DEF WorkflowInv, OnlyRootWaits
  <2>7. \A r \in Live' : procs'[r].root => procs[r].root /\ r \in Live
    BY <1>1, <1>9, <2>1, <2>2, <2>4
  <2>8. \A r \in Live' : /\ procs'[r].todo \in Seq(Leaf)
                         /\ ~procs'[r].root => IsLeaf(procs'[r].step)
                                               /\ procs'[r].todo = <<>>
    BY <1>1, <1>9, <2>2, <2>3, <2>4, <2>5 DEF WorkflowInv, OnlyRootWaits
  <2> QED
    BY <2>6, <2>7, <2>8 DEF WorkflowInv, OnlyRootWaits
<1> QED
  BY <1>10, <1>11, <1>12 DEF WorkflowInv

\* In a workflow of two levels only root steps wait for a slot, one at a time.
THEOREM TwoLevelInvariant ==
    ASSUME TwoLevels
    PROVE  WorkflowSpec => []WorkflowInv
<1>1. WorkflowInit => WorkflowInv
  <2> SUFFICES ASSUME WorkflowInit PROVE WorkflowInv
    OBVIOUS
  <2>1. Live = {} /\ procs \in [Procs -> Running \cup {Idle}]
    BY DEF WorkflowInit, Live, Idle
  <2>2. SlotPerStep
    BY <2>1, FS_EmptySet DEF WorkflowInit, SlotPerStep
  <2>3. WorkflowTypeOK
    <3>1. Len(Roots) \in Nat /\ Slots \in Nat
      BY WorkflowAssumption DEF Slots
    <3>2. root \in 1..(Len(Roots) + 1) /\ sem \in 0..Slots
      BY <3>1 DEF WorkflowInit
    <3>3. /\ inline \in BOOLEAN /\ results \in BOOLEAN
          /\ returned \in BOOLEAN /\ answer \in BOOLEAN
      BY DEF WorkflowInit
    <3> QED
      BY <2>1, <3>2, <3>3 DEF WorkflowTypeOK
  <2> QED
    BY <2>1, <2>2, <2>3 DEF WorkflowInv, OnlyRootWaits
<1>2. ASSUME WorkflowInv, [WorkflowNext]_workflowVars
      PROVE  WorkflowInv'
  <2>1. CASE Return \/ UNCHANGED workflowVars
    BY <1>2, <2>1 DEF Return, workflowVars, WorkflowInv, WorkflowTypeOK, SlotPerStep,
                      OnlyRootWaits, Live
  <2> QED
    BY <1>2, <2>1, TwoLevels, StartRootKeeps, MatchKeeps, EndExecuteKeeps,
       StartSubKeeps, EndStepKeeps DEF WorkflowNext
<1> QED
  BY <1>1, <1>2, PTL DEF WorkflowSpec

\* executeWorkflow's one additional slot is enough for workflows of two
\* levels: the steps that hold the slots are never all waiting for one.
THEOREM TwoLevelsGoThrough ==
    ASSUME TwoLevels
    PROVE  WorkflowSpec => []SubtemplatesGoThrough
<1>1. WorkflowInv => SubtemplatesGoThrough
  <2> SUFFICES ASSUME WorkflowInv, sem = Slots, \A p \in Live : procs[p].todo # <<>>
               PROVE  FALSE
    BY DEF SubtemplatesGoThrough, AllWait
  <2>1. \A p, q \in Live : p = q
    BY DEF WorkflowInv, OnlyRootWaits
  <2>2. Cardinality(Live) >= 2
    BY WorkflowAssumption DEF WorkflowInv, SlotPerStep, Slots
  <2>3. CASE Live = {}
    BY <2>2, <2>3, FS_EmptySet
  <2>4. CASE Live # {}
    <3>1. PICK p \in Live : Live = {p}
      BY <2>1, <2>4
    <3>2. Cardinality({p}) = 1
      BY FS_Singleton
    <3> QED
      BY <2>2, <3>1, <3>2
  <2> QED
    BY <2>3, <2>4
<1> QED
  BY <1>1, TwoLevelInvariant, PTL

\* After the return the loop is over, no step runs and none can start.
OverWhenReturned ==
    returned => ~inline /\ root > Len(Roots) /\ Live = {} /\ answer = results

\* swg.Wait misses no goroutine: executeWorkflow returns when no step is left
\* running, with the result nothing is added to any more.
THEOREM NothingAfterReturn ==
    ASSUME TwoLevels
    PROVE  WorkflowSpec => []ReturnsWhenDone
<1>1. WorkflowInit => OverWhenReturned
  BY DEF WorkflowInit, OverWhenReturned
<1>2. ASSUME WorkflowInv, OverWhenReturned, [WorkflowNext]_workflowVars
      PROVE  OverWhenReturned'
  <2>1. CASE returned
    <3>1. /\ \A p \in Procs : ~StartRoot(p) /\ ~Match(p) /\ ~EndStep(p)
          /\ \A p \in Procs, m \in BOOLEAN : ~EndExecute(p, m)
          /\ \A p, q \in Procs : ~StartSub(p, q)
          /\ ~Return
      <4>1. Live = {} /\ root > Len(Roots) /\ root \in Nat /\ Len(Roots) \in Nat
        BY <1>2, <2>1, WorkflowAssumption DEF OverWhenReturned, WorkflowInv, WorkflowTypeOK
      <4>2. ASSUME NEW p \in Procs, StartRoot(p) PROVE FALSE
        <5>1. root <= Len(Roots)
          BY <4>2 DEF StartRoot
        <5> QED
          BY <4>1, <5>1
      <4>3. ASSUME NEW p \in Procs PROVE ~Match(p) /\ ~EndStep(p)
        BY <4>1 DEF Match, EndStep
      <4>4. ASSUME NEW p \in Procs, NEW m \in BOOLEAN PROVE ~EndExecute(p, m)
        BY <4>1 DEF EndExecute
      <4>5. ASSUME NEW p \in Procs, NEW q \in Procs PROVE ~StartSub(p, q)
        BY <4>1 DEF StartSub
      <4>6. ~Return
        BY <2>1 DEF Return
      <4> QED
        BY <4>2, <4>3, <4>4, <4>5, <4>6
    <3>2. UNCHANGED workflowVars
      BY <1>2, <3>1 DEF WorkflowNext
    <3> QED
      BY <1>2, <3>2 DEF workflowVars, OverWhenReturned, Live
  <2>2. CASE ~returned
    <3>1. CASE Return
      <4>1. Live = {}
        BY <1>2, <3>1, FS_EmptySet DEF Return, WorkflowInv, SlotPerStep
      <4> QED
        BY <3>1, <4>1 DEF Return, OverWhenReturned, Live
    <3>2. CASE ~Return
      <4>1. returned' = returned
        BY <1>2, <2>2, <3>2 DEF WorkflowNext, StartRoot, Match, EndExecute, StartSub, EndStep,
                                workflowVars
      <4> QED
        BY <2>2, <4>1 DEF OverWhenReturned
    <3> QED
      BY <3>1, <3>2
  <2> QED
    BY <2>1, <2>2
<1>3. OverWhenReturned => ReturnsWhenDone
  BY DEF OverWhenReturned, ReturnsWhenDone
<1> QED
  BY <1>1, <1>2, <1>3, TwoLevelInvariant, PTL DEF WorkflowSpec

\* The types of a workflow of two levels, among them that the wait group never
\* counts more than its slots nor fewer than none.
THEOREM WorkflowTypes ==
    ASSUME TwoLevels
    PROVE  WorkflowSpec => []WorkflowTypeOK
<1>1. WorkflowInv => WorkflowTypeOK
  BY DEF WorkflowInv
<1> QED
  BY <1>1, TwoLevelInvariant, PTL
=============================================================================
