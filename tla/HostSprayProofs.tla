--------------------------- MODULE HostSprayProofs ---------------------------
(***************************************************************************)
(* What HostSpray keeps for any number of templates, targets and slots and *)
(* any bound on events: its types, what a scan returns and reports, and    *)
(* that it is a scan as ScanPlan promises it.                              *)
(***************************************************************************)
EXTENDS HostSpray, FiniteSetTheorems, TLAPS

\* Where the strategy and its targets are, and which runs have begun: a run
\* is idle up to the position of its target, a target that is done has no
\* run left, and no target is busy when the strategy was joined, unless the
\* scan was cancelled.
Control ==
    /\ HostTypeOK
    /\ engine = "admit" => iter \in Hosts
    /\ engine = "self" => \A r \in SelfRuns : exec[r] = "idle"
    /\ \A x \in Hosts : host[x] = "idle" <=> iter <= x
    /\ \A x \in Hosts : host[x] = "admit" => tpos[x] \in HostTpls
    /\ \A x \in Hosts, t \in HostTpls : exec[<<t, x>>] = "idle" <=> tpos[x] <= t
    /\ \A x \in Hosts : host[x] = "done" =>
          ctxDone \/ \A t \in HostTpls : exec[<<t, x>>] = "done"
    /\ engine \in {"drain", "join", "ended"} => iter = NumHosts + 1 \/ ctxDone
    /\ engine \in {"join", "ended"} => BusyHosts = {}

\* When the scan has ended and was not cancelled, every run is over.
Ending ==
    engine = "ended" => ctxDone \/ \A r \in Runs : exec[r] = "done"

\* A late start ends the templates of its target.
LateOnce ==
    /\ lateStarts # {} => ctxDone
    /\ \A q \in lateStarts : host[q[2]] # "admit"
    /\ \A q, r \in lateStarts : q[2] = r[2] => q = r

\* A failure is written of a run when it ends, if it told of nothing else.
FailureOfEveryRun ==
    \A r \in Runs : failed[r] <=> exec[r] = "done" /\ Fails(r)

\* A hash has been filed, or a run is about to file it.
Filing(h) == h \in filed \/ \E q \in Runs : Hash(q) = h /\ exec[q] = "file"

\* What is in the storage, and what was found there, has been filed or will be.
Issues ==
    /\ \A h \in indexed : Filing(h)
    /\ \A r \in Runs : matched[r] \/ exec[r] = "write" => Filing(Hash(r))

Reported(r) == matched[r] \/ failed[r]

\* The results of the strategy and of the scan tell of the runs that are over.
Results ==
    /\ strategyResult \/ scanResult => \E r \in Runs : Reported(r)
    /\ \A r \in HostRuns : exec[r] = "done" /\ Reported(r) => strategyResult
    /\ \A r \in SelfRuns : exec[r] = "done" /\ Reported(r) => scanResult
    /\ engine \in {"join", "ended"} => ctxDone \/ (strategyResult => scanResult)

-----------------------------------------------------------------------------
\* A step of a run changes nothing of the engine and of the targets, and of
\* the runs this one alone, which has begun and is not over.
LEMMA RunStepEffect ==
    ASSUME HostTypeOK, NEW r \in Runs, RunStep(r)
    PROVE  /\ UNCHANGED <<engine, iter, host, tpos, ctxDone, lateStarts>>
           /\ exec' \in [Runs -> {"idle", "running", "lookup", "store", "file", "write", "done"}]
           /\ exec[r] \notin {"idle", "done"} /\ exec'[r] # "idle"
           /\ \A q \in Runs \ {r} : exec'[q] = exec[q]
<1> USE DEF HostTypeOK, HasEvent, loopVars
<1>1. CASE NoResult(r)
  BY <1>1 DEF NoResult
<1>2. CASE InternalMatch(r)
  BY <1>2 DEF InternalMatch, hostVars
<1>3. CASE Result(r)
  BY <1>3 DEF Result
<1>4. CASE LookUp(r)
  BY <1>4 DEF LookUp
<1>5. CASE Store(r)
  BY <1>5 DEF Store
<1>6. CASE FileIssue(r)
  BY <1>6 DEF FileIssue
<1>7. CASE WriteOut(r)
  BY <1>7 DEF WriteOut
<1>8. CASE FinishRun(r)
  BY <1>8 DEF FinishRun
<1> QED
  BY <1>1, <1>2, <1>3, <1>4, <1>5, <1>6, <1>7, <1>8 DEF RunStep

\* A step of a run keeps the types.
LEMMA RunStepTypes ==
    ASSUME HostTypeOK, NEW r \in Runs, RunStep(r)
    PROVE  HostTypeOK'
<1> USE DEF HostTypeOK, HasEvent, loopVars, runVars, resultVars, issueVars, Hashes
<1>1. CASE NoResult(r)
  BY <1>1 DEF NoResult
<1>2. CASE InternalMatch(r)
  BY <1>2 DEF InternalMatch, hostVars
<1>3. CASE Result(r)
  BY <1>3 DEF Result
<1>4. CASE LookUp(r)
  BY <1>4 DEF LookUp
<1>5. CASE Store(r)
  BY <1>5 DEF Store
<1>6. CASE FileIssue(r)
  BY <1>6 DEF FileIssue
<1>7. CASE WriteOut(r)
  BY <1>7 DEF WriteOut
<1>8. CASE FinishRun(r)
  <2>1. /\ strategyResult' \in BOOLEAN /\ scanResult' \in BOOLEAN
        /\ matched[r] \in BOOLEAN /\ lastEvent[r] \in BOOLEAN
    BY <1>8, Zenon DEF FinishRun, Fails
  <2>2. Fails(r) \in BOOLEAN
    BY HostSprayAssumption, Zenon DEF Fails
  <2>3. failed' \in [Runs -> BOOLEAN]
    BY <1>8, <2>2 DEF FinishRun
  <2>4. /\ left' \in [Runs -> Nat]
        /\ exec' \in [Runs -> {"idle", "running", "lookup", "store", "file", "write", "done"}]
        /\ UNCHANGED <<engine, iter, host, tpos, lastEvent, matched, ctxDone, indexed, filed,
                       lateStarts>>
    BY <1>8 DEF FinishRun
  <2> QED
    BY <2>1, <2>3, <2>4
<1> QED
  BY <1>1, <1>2, <1>3, <1>4, <1>5, <1>6, <1>7, <1>8 DEF RunStep

LEMMA ControlInit == HostInit => Control
<1> SUFFICES ASSUME HostInit PROVE Control
  OBVIOUS
<1>1. PICK bound \in EventBounds : left = [r \in Runs |-> bound[r[1]]]
  BY DEF HostInit
<1>2. \A r \in Runs : r[1] \in 1..(NumTpls + NumSelf)
  BY HostSprayAssumption DEF Runs, HostRuns, SelfRuns, HostTpls, Hosts
<1>3. bound \in [1..(NumTpls + NumSelf) -> Nat]
  BY HostSprayAssumption
<1>4. left \in [Runs -> Nat]
  BY <1>1, <1>2, <1>3
<1>5. HostTypeOK
  <2>1. 1 \in 1..(NumHosts + 1) /\ 1 \in 1..(NumTpls + 1)
    BY HostSprayAssumption
  <2>2. iter \in 1..(NumHosts + 1) /\ tpos \in [Hosts -> 1..(NumTpls + 1)]
    BY <2>1 DEF HostInit
  <2>3. strategyResult \in BOOLEAN /\ scanResult \in BOOLEAN /\ ctxDone \in BOOLEAN
    BY DEF HostInit
  <2>4. /\ lastEvent \in [Runs -> BOOLEAN] /\ matched \in [Runs -> BOOLEAN]
        /\ failed \in [Runs -> BOOLEAN]
    BY DEF HostInit
  <2>5. /\ indexed \subseteq Hashes /\ filed \subseteq Hashes
        /\ lateStarts \subseteq HostRuns
    BY DEF HostInit
  <2>6. /\ engine = "self"
        /\ host \in [Hosts -> {"idle", "loop", "admit", "done"}]
        /\ exec \in [Runs -> {"idle", "running", "lookup", "store", "file", "write", "done"}]
    BY DEF HostInit
  <2> QED
    BY <1>4, <2>2, <2>3, <2>4, <2>5, <2>6 DEF HostTypeOK
<1>6. HostRuns \subseteq Runs /\ SelfRuns \subseteq Runs
  BY DEF Runs
<1>7. \A x \in Hosts, t \in HostTpls : <<t, x>> \in Runs
  BY DEF Runs, HostRuns
<1> QED
  BY <1>5, <1>6, <1>7, HostSprayAssumption DEF HostInit, Control, Hosts, HostTpls

\* A step of the engine or of a target keeps the types.
LEMMA LoopStepTypes ==
    ASSUME Control, EngineStep \/ (\E x \in Hosts : HostStep(x)) \/ Cancel
    PROVE  HostTypeOK'
<1> USE DEF Control, HostTypeOK, loopVars, runVars, resultVars, issueVars
<1>1. CASE StartSelfContained
  BY <1>1 DEF StartSelfContained
<1>2. CASE NextHost
  BY <1>2 DEF NextHost
<1>3. CASE AdmitHost
  <2>1. iter + 1 \in 1..(NumHosts + 1)
    BY <1>3, HostSprayAssumption DEF AdmitHost, Hosts
  <2> QED
    BY <1>3, <2>1 DEF AdmitHost
<1>4. CASE IterateEnds
  BY <1>4 DEF IterateEnds
<1>5. CASE JoinStrategy
  <2>1. scanResult' \in BOOLEAN
    BY <1>5, Zenon DEF JoinStrategy
  <2> QED
    BY <1>5, <2>1 DEF JoinStrategy
<1>6. CASE EndScan
  BY <1>6 DEF EndScan
<1>7. ASSUME NEW x \in Hosts, HostStep(x) PROVE HostTypeOK'
  <2>1. CASE NextTemplate(x)
    BY <2>1 DEF NextTemplate
  <2>2. CASE LeaveHost(x)
    BY <2>2 DEF LeaveHost
  <2>3. CASE AdmitTemplate(x)
    <3>1. tpos[x] \in HostTpls /\ tpos[x] + 1 \in 1..(NumTpls + 1)
      BY <2>3, HostSprayAssumption DEF AdmitTemplate, HostTpls
    <3>2. <<tpos[x], x>> \in HostRuns /\ HostRuns \subseteq Runs
      BY <3>1 DEF HostRuns, Runs
    <3>3. /\ tpos' \in [Hosts -> 1..(NumTpls + 1)]
          /\ exec' \in [Runs -> {"idle", "running", "lookup", "store", "file", "write", "done"}]
          /\ lateStarts' \subseteq HostRuns
      BY <2>3, <3>1, <3>2 DEF AdmitTemplate
    <3> QED
      BY <2>3, <3>3 DEF AdmitTemplate
  <2>4. CASE HostOver(x)
    BY <2>4 DEF HostOver
  <2> QED
    BY <1>7, <2>1, <2>2, <2>3, <2>4 DEF HostStep
<1>8. CASE Cancel
  BY <1>8 DEF Cancel
<1> QED
  BY <1>1, <1>2, <1>3, <1>4, <1>5, <1>6, <1>7, <1>8 DEF EngineStep

LEMMA RunPairs ==
    /\ HostRuns \subseteq Runs /\ SelfRuns \subseteq Runs
    /\ \A x \in Hosts, t \in HostTpls : <<t, x>> \in HostRuns /\ <<t, x>> \notin SelfRuns
    /\ \A r \in HostRuns : r \notin SelfRuns /\ r[1] \in HostTpls /\ r[2] \in Hosts
                           /\ r = <<r[1], r[2]>>
    /\ \A t, u \in HostTpls, x, y \in Hosts : <<t, x>> = <<u, y>> => t = u /\ x = y
<1>1. 0 \notin Hosts
  BY DEF Hosts
<1> QED
  BY <1>1 DEF Runs, HostRuns, SelfRuns

\* Every step keeps Control.
LEMMA ControlStep ==
    ASSUME Control, [HostNext]_hostVars
    PROVE  Control'
<1> USE DEF Control, loopVars, runVars, resultVars, issueVars
<1> USE RunPairs
<1>1. CASE StartSelfContained
  <2>1. HostTypeOK'
    BY <1>1, LoopStepTypes DEF EngineStep
  <2>2. /\ engine' = "spray" /\ UNCHANGED <<host, iter, tpos, ctxDone>>
        /\ \A r \in HostRuns : exec'[r] = exec[r]
    BY <1>1 DEF StartSelfContained, HostTypeOK
  <2> QED
    BY <2>1, <2>2
<1>2. CASE NextHost
  BY <1>2, LoopStepTypes DEF NextHost, EngineStep
<1>3. CASE AdmitHost
  <2>1. HostTypeOK'
    BY <1>3, LoopStepTypes DEF EngineStep
  <2>2. iter \in Hosts /\ iter' = iter + 1 /\ host' = [host EXCEPT ![iter] = "loop"]
    BY <1>3 DEF AdmitHost
  <2>3. \A x \in Hosts : host'[x] = IF x = iter THEN "loop" ELSE host[x]
    BY <2>2 DEF HostTypeOK
  <2>4. \A x \in Hosts : host'[x] = "idle" <=> iter' <= x
    <3> TAKE x \in Hosts
    <3>1. x \in Nat /\ iter \in Nat
      BY <2>2, HostSprayAssumption DEF Hosts
    <3> QED
      BY <2>2, <2>3, <3>1
  <2> QED
    BY <1>3, <2>1, <2>3, <2>4 DEF AdmitHost
<1>4. CASE IterateEnds
  BY <1>4, LoopStepTypes DEF IterateEnds, EngineStep
<1>5. CASE JoinStrategy
  <2>1. HostTypeOK' /\ BusyHosts' = {}
    BY <1>5, LoopStepTypes DEF JoinStrategy, EngineStep, BusyHosts
  <2> QED
    BY <1>5, <2>1 DEF JoinStrategy
<1>6. CASE EndScan
  <2>1. HostTypeOK' /\ BusyHosts' = BusyHosts
    BY <1>6, LoopStepTypes DEF EndScan, EngineStep, BusyHosts
  <2> QED
    BY <1>6, <2>1 DEF EndScan
<1>7. ASSUME NEW x \in Hosts, HostStep(x)
      PROVE  Control'
  <2>1. HostTypeOK' /\ UNCHANGED <<engine, iter, ctxDone>>
    BY <1>7, LoopStepTypes DEF HostStep, NextTemplate, LeaveHost, AdmitTemplate, HostOver
  <2>2. engine \notin {"join", "ended"}
    BY <1>7 DEF HostStep, NextTemplate, LeaveHost, AdmitTemplate, HostOver, BusyHosts
  <2>3. host[x] # "idle"
    BY <1>7 DEF HostStep, NextTemplate, LeaveHost, AdmitTemplate, HostOver
  <2>4. CASE NextTemplate(x) \/ LeaveHost(x)
    <3>1. /\ UNCHANGED <<exec, tpos>>
          /\ \A y \in Hosts \ {x} : host'[y] = host[y]
          /\ host'[x] # "idle"
          /\ host'[x] = "admit" => tpos[x] \in HostTpls
          /\ host'[x] = "done" => ctxDone
      BY <2>4 DEF NextTemplate, LeaveHost, HostTypeOK
    <3> QED
      BY <2>1, <2>2, <2>3, <3>1
  <2>5. CASE AdmitTemplate(x)
    <3>1. tpos[x] \in HostTpls /\ tpos'[x] = tpos[x] + 1
      BY <2>5 DEF AdmitTemplate, HostTypeOK
    <3>2. /\ host'[x] = "loop" /\ \A y \in Hosts \ {x} : host'[y] = host[y] /\ tpos'[y] = tpos[y]
          /\ exec'[<<tpos[x], x>>] = "running"
          /\ \A r \in Runs : r # <<tpos[x], x>> => exec'[r] = exec[r]
      BY <2>5, <3>1 DEF AdmitTemplate, HostTypeOK
    <3>3. \A y \in Hosts, t \in HostTpls : exec'[<<t, y>>] = "idle" <=> tpos'[y] <= t
      <4> TAKE y \in Hosts, t \in HostTpls
      <4>1. t \in Nat /\ tpos[x] \in Nat
        BY <3>1, HostSprayAssumption DEF HostTpls
      <4>2. CASE y = x
        BY <3>1, <3>2, <4>1, <4>2
      <4>3. CASE y # x
        BY <3>1, <3>2, <4>3
      <4> QED
        BY <4>2, <4>3
    <3>4. \A y \in Hosts : host'[y] = "done" =>
             ctxDone \/ \A t \in HostTpls : exec'[<<t, y>>] = "done"
      BY <3>1, <3>2
    <3>5. engine = "self" => \A r \in SelfRuns : exec'[r] = "idle"
      BY <3>1, <3>2
    <3> QED
      BY <2>1, <2>2, <2>3, <3>2, <3>3, <3>4, <3>5
  <2>6. CASE HostOver(x)
    <3>1. /\ UNCHANGED <<exec, tpos>>
          /\ \A y \in Hosts \ {x} : host'[y] = host[y]
          /\ host'[x] = "done"
          /\ tpos[x] = NumTpls + 1 /\ RunsOn(x) = {}
      BY <2>6 DEF HostOver, HostTypeOK
    <3>2. \A t \in HostTpls : exec[<<t, x>>] = "done"
      <4> TAKE t \in HostTpls
      <4>1. ~(tpos[x] <= t)
        BY <3>1, HostSprayAssumption DEF HostTpls
      <4> QED
        BY <3>1, <4>1 DEF RunsOn
    <3> QED
      BY <2>1, <2>2, <2>3, <3>1, <3>2
  <2> QED
    BY <1>7, <2>4, <2>5, <2>6 DEF HostStep
<1>8. ASSUME NEW r \in Runs, RunStep(r)
      PROVE  Control'
  <2>1. HostTypeOK'
    BY <1>8, RunStepTypes
  <2>2. /\ UNCHANGED <<engine, iter, host, tpos, ctxDone>>
        /\ exec[r] \notin {"idle", "done"} /\ exec'[r] # "idle"
        /\ \A q \in Runs \ {r} : exec'[q] = exec[q]
    BY <1>8, RunStepEffect
  <2>3. BusyHosts' = BusyHosts
    BY <2>2 DEF BusyHosts
  <2>4. \A x \in Hosts, t \in HostTpls :
           /\ exec'[<<t, x>>] = "idle" <=> exec[<<t, x>>] = "idle"
           /\ exec[<<t, x>>] = "done" => exec'[<<t, x>>] = "done"
    BY <2>2
  <2>5. engine = "self" => \A q \in SelfRuns : exec'[q] = "idle"
    BY <2>2
  <2> QED
    BY <2>1, <2>2, <2>3, <2>4, <2>5
<1>9. CASE Cancel
  <2>1. HostTypeOK' /\ BusyHosts' = BusyHosts
    BY <1>9, LoopStepTypes DEF Cancel, BusyHosts
  <2> QED
    BY <1>9, <2>1 DEF Cancel
<1>10. CASE UNCHANGED hostVars
  <2>1. HostTypeOK' /\ BusyHosts' = BusyHosts
    BY <1>10 DEF hostVars, HostTypeOK, BusyHosts
  <2> QED
    BY <1>10, <2>1 DEF hostVars
<1> QED
  BY <1>1, <1>2, <1>3, <1>4, <1>5, <1>6, <1>7, <1>8, <1>9, <1>10
     DEF HostNext, HostProgress, EngineStep

\* The strategy, its targets and all runs hold values of their types.
THEOREM HostTypes == HostSpec => []HostTypeOK
<1>1. HostSpec => []Control
  BY ControlInit, ControlStep, PTL DEF HostSpec
<1>2. Control => HostTypeOK
  BY DEF Control
<1> QED
  BY <1>1, <1>2, PTL

-----------------------------------------------------------------------------
\* What a step may do to the runs: only those that have not begun are
\* started, by their target or all self-contained ones by the engine, and a
\* run that is over stays over.
LEMMA RunsGoOn ==
    ASSUME Control, [HostNext]_hostVars
    PROVE  /\ \A r \in Runs : exec[r] = "done" => exec'[r] = "done"
           /\ \A r \in Runs : exec[r] = "idle" \/ exec'[r] # "idle"
<1> USE RunPairs DEF Control
<1>1. ASSUME NEW r \in Runs, RunStep(r)
      PROVE  /\ \A q \in Runs : exec[q] = "done" => exec'[q] = "done"
             /\ \A q \in Runs : exec[q] = "idle" \/ exec'[q] # "idle"
  BY <1>1, RunStepEffect
<1>2. ASSUME NEW x \in Hosts, AdmitTemplate(x)
      PROVE  /\ \A q \in Runs : exec[q] = "done" => exec'[q] = "done"
             /\ \A q \in Runs : exec[q] = "idle" \/ exec'[q] # "idle"
  <2>1. tpos[x] \in HostTpls /\ exec[<<tpos[x], x>>] = "idle"
    <3>1. tpos[x] \in HostTpls
      BY <1>2 DEF AdmitTemplate
    <3>2. tpos[x] <= tpos[x]
      BY <3>1, HostSprayAssumption DEF HostTpls
    <3> QED
      BY <3>1, <3>2
  <2> QED
    BY <1>2, <2>1 DEF AdmitTemplate, HostTypeOK
<1>3. CASE StartSelfContained
  BY <1>3 DEF StartSelfContained, HostTypeOK
<1>4. ASSUME exec' = exec
      PROVE  /\ \A q \in Runs : exec[q] = "done" => exec'[q] = "done"
             /\ \A q \in Runs : exec[q] = "idle" \/ exec'[q] # "idle"
  BY <1>4
<1>5. CASE EngineStep /\ ~StartSelfContained
  BY <1>4, <1>5 DEF EngineStep, NextHost, AdmitHost, IterateEnds, JoinStrategy, EndScan, runVars
<1>6. ASSUME NEW x \in Hosts, HostStep(x), ~AdmitTemplate(x)
      PROVE  exec' = exec
  BY <1>6 DEF HostStep, NextTemplate, LeaveHost, HostOver, runVars
<1>7. CASE Cancel \/ UNCHANGED hostVars
  BY <1>4, <1>7 DEF Cancel, runVars, hostVars
<1> QED
  BY <1>1, <1>2, <1>3, <1>4, <1>5, <1>6, <1>7 DEF HostNext, HostProgress

\* What a step may do to the scan: it ends with EndScan and starts a run late
\* only after a cancellation.
LEMMA EngineFrame ==
    ASSUME Control, HostNext
    PROVE  /\ EndScan \/ (engine' = "ended" <=> engine = "ended")
           /\ Cancel \/ ctxDone' = ctxDone
           /\ ctxDone => ctxDone'
           /\ engine # "ended" \/ \E r \in Runs : RunStep(r)
<1> USE DEF hostVars
<1>1. CASE EngineStep
  BY <1>1 DEF EngineStep, StartSelfContained, NextHost, AdmitHost, IterateEnds, JoinStrategy,
              EndScan
<1>2. ASSUME NEW x \in Hosts, HostStep(x)
      PROVE  engine # "ended" /\ UNCHANGED <<engine, ctxDone>>
  BY <1>2 DEF HostStep, NextTemplate, LeaveHost, AdmitTemplate, HostOver, Control, BusyHosts
<1>3. ASSUME NEW r \in Runs, RunStep(r)
      PROVE  UNCHANGED <<engine, ctxDone>>
  BY <1>3 DEF RunStep, NoResult, InternalMatch, Result, LookUp, Store, FileIssue, WriteOut,
              FinishRun, loopVars
<1>4. CASE Cancel
  BY <1>4 DEF Cancel, loopVars
<1> QED
  BY <1>1, <1>2, <1>3, <1>4 DEF HostNext, HostProgress

\* When the strategy was joined and the scan was not cancelled, every run on
\* a target is over.
LEMMA JoinedMeansOver ==
    ASSUME Control, engine \in {"drain", "join", "ended"}, BusyHosts = {}, ~ctxDone
    PROVE  \A r \in HostRuns : exec[r] = "done"
<1> SUFFICES ASSUME NEW r \in HostRuns PROVE exec[r] = "done"
  OBVIOUS
<1>1. r[1] \in HostTpls /\ r[2] \in Hosts /\ r = <<r[1], r[2]>>
  BY RunPairs
<1>2. iter = NumHosts + 1 /\ ~(iter <= r[2])
  BY <1>1, HostSprayAssumption DEF Control, Hosts
<1>3. host[r[2]] = "done"
  BY <1>1, <1>2 DEF Control, HostTypeOK, BusyHosts
<1> QED
  BY <1>1, <1>3 DEF Control

LEMMA EndingStep ==
    ASSUME Control, Ending, [HostNext]_hostVars
    PROVE  Ending'
<1> USE DEF Ending
<1>1. CASE UNCHANGED hostVars
  BY <1>1 DEF hostVars
<1>2. CASE HostNext
  <2>1. CASE EndScan
    <3>1. engine = "join" /\ UNCHANGED <<exec, ctxDone>>
          /\ \A r \in SelfRuns : exec[r] = "done"
      BY <2>1 DEF EndScan, runVars
    <3>2. BusyHosts = {}
      BY <3>1 DEF Control
    <3>3. ctxDone \/ \A r \in HostRuns : exec[r] = "done"
      BY <3>1, <3>2, JoinedMeansOver
    <3> QED
      BY <3>1, <3>3 DEF Runs
  <2>2. CASE ~EndScan
    BY <1>2, <2>2, EngineFrame, RunsGoOn
  <2> QED
    BY <2>1, <2>2
<1> QED
  BY <1>1, <1>2

\* A step that neither ends a run nor the scan nor cancels it begins with
\* some more runs, with none when the scan has ended.
LEMMA BeginningStep ==
    ASSUME Control, HostNext, ~Cancel, ~EndScan, ~\E r \in Runs : FinishRun(r)
    PROVE  /\ UNCHANGED ctxDone /\ (engine' = "ended" <=> engine = "ended")
           /\ \A r \in Runs : exec'[r] = "done" <=> exec[r] = "done"
           /\ \A r \in Runs : exec[r] # "idle" => exec'[r] # "idle"
           /\ engine = "ended" => \A r \in Runs : exec[r] = "idle" => exec'[r] = "idle"
<1>1. UNCHANGED ctxDone /\ (engine' = "ended" <=> engine = "ended")
  BY EngineFrame
<1>2. \A r \in Runs : exec'[r] = "done" => exec[r] = "done"
  <2>1. ASSUME NEW r \in Runs, RunStep(r)
        PROVE  exec'[r] # "done" \/ exec' = exec
    BY <2>1 DEF RunStep, NoResult, InternalMatch, Result, LookUp, Store, FileIssue,
                WriteOut, HasEvent, hostVars, Control, HostTypeOK
  <2>2. ASSUME NEW x \in Hosts, HostStep(x)
        PROVE  exec' = exec \/ AdmitTemplate(x)
    BY <2>2 DEF HostStep, NextTemplate, LeaveHost, HostOver, runVars
  <2>3. CASE EngineStep
    BY <2>3 DEF EngineStep, StartSelfContained, NextHost, AdmitHost, IterateEnds,
                JoinStrategy, runVars, Control, HostTypeOK
  <2>4. ASSUME NEW r \in Runs, RunStep(r), NEW q \in Runs, exec'[q] = "done"
        PROVE  exec[q] = "done"
    BY <2>1, <2>4, RunStepEffect DEF Control
  <2>5. ASSUME NEW x \in Hosts, AdmitTemplate(x), NEW q \in Runs, exec'[q] = "done"
        PROVE  exec[q] = "done"
    BY <2>5 DEF AdmitTemplate, Control, HostTypeOK
  <2> QED
    BY <2>2, <2>3, <2>4, <2>5 DEF HostNext, HostProgress
<1>3. ASSUME engine = "ended", NEW q \in Runs, exec[q] = "idle"
      PROVE  exec'[q] = "idle"
  <2>1. PICK r \in Runs : RunStep(r)
    BY <1>3, EngineFrame
  <2>2. exec[r] # "idle"
    BY <2>1 DEF RunStep, NoResult, InternalMatch, Result, LookUp, Store, FileIssue,
                WriteOut, FinishRun, HasEvent
  <2> QED
    BY <1>3, <2>1, <2>2, RunStepEffect DEF Control
<1> QED
  BY <1>1, <1>2, <1>3, RunsGoOn

\* Runs are begun with and settled one by one, and the scan does not end
\* before all are unless it was cancelled.
LEMMA PlanStep ==
    ASSUME Control, [HostNext]_hostVars
    PROVE  [HostPlan!Next]_(HostPlan!vars)
<1> DEFINE pending == {r \in Runs : exec[r] # "done"}
           begun == {r \in Runs : exec[r] # "idle"}
<1> USE DEF HostPlan!Next, HostPlan!vars
<1>1. ASSUME NEW r \in Runs, FinishRun(r)
      PROVE  [HostPlan!Next]_(HostPlan!vars)
  <2>1. /\ exec[r] = "running" /\ exec'[r] = "done"
        /\ \A q \in Runs \ {r} : exec'[q] = exec[q]
        /\ UNCHANGED <<engine, ctxDone>>
    BY <1>1 DEF FinishRun, loopVars, Control, HostTypeOK
  <2>2. r \in pending \cap begun /\ pending' = pending \ {r} /\ begun' = begun
    BY <2>1
  <2> QED
    BY <2>1, <2>2 DEF HostPlan!Settle
<1>2. CASE EndScan
  <2>1. /\ engine = "join" /\ engine' = "ended" /\ UNCHANGED <<exec, ctxDone>>
        /\ \A r \in SelfRuns : exec[r] = "done"
    BY <1>2 DEF EndScan, runVars
  <2>2. ctxDone \/ pending = {}
    <3>1. ctxDone \/ \A r \in HostRuns : exec[r] = "done"
      BY <2>1, JoinedMeansOver DEF Control
    <3> QED
      BY <2>1, <3>1 DEF Runs
  <2>3. pending' = pending /\ begun' = begun
    BY <2>1
  <2> QED
    BY <2>1, <2>2, <2>3 DEF HostPlan!End
<1>3. CASE Cancel
  BY <1>3 DEF Cancel, HostPlan!Stop, loopVars, runVars
<1>4. CASE UNCHANGED hostVars
  BY <1>4 DEF hostVars
<1>5. CASE HostNext /\ ~Cancel /\ ~EndScan /\ ~\E r \in Runs : FinishRun(r)
  <2>1. pending' = pending /\ begun \subseteq begun'
    BY <1>5, BeginningStep
  <2>2. CASE engine = "ended"
    <3>1. begun' = begun
      BY <1>5, <2>2, BeginningStep
    <3> QED
      BY <1>5, <2>1, <3>1, BeginningStep
  <2>3. CASE engine # "ended"
    <3>1. begun' \ begun \in SUBSET (Runs \ begun) /\ begun' = begun \cup (begun' \ begun)
      BY <2>1
    <3>2. \E more \in SUBSET (Runs \ begun) : begun' = begun \cup more
      BY <3>1
    <3> QED
      BY <1>5, <2>1, <2>3, <3>2, BeginningStep DEF HostPlan!Begin
  <2> QED
    BY <2>2, <2>3
<1> QED
  BY <1>1, <1>2, <1>3, <1>4, <1>5

\* A host spray scan keeps the plan: it does not return before every run is
\* over unless it was cancelled, for any number of targets and templates.
THEOREM HostSprayKeepsThePlan == HostSpec => HostImplementsPlan
<1>1. HostSpec => []Control
  BY ControlInit, ControlStep, PTL DEF HostSpec
<1>2. HostInit => HostPlan!Init
  BY DEF HostInit, HostPlan!Init
<1>3. Control /\ [HostNext]_hostVars => [HostPlan!Next]_(HostPlan!vars)
  BY PlanStep
<1> QED
  BY <1>1, <1>2, <1>3, PTL DEF HostSpec, HostImplementsPlan, HostPlan!Safe

-----------------------------------------------------------------------------
\* A set without two different members has at most one.
LEMMA AtMostOne ==
    ASSUME NEW S, \A q, r \in S : q = r
    PROVE  Cardinality(S) <= 1
<1>1. CASE S = {}
  BY <1>1, FS_EmptySet
<1>2. ASSUME NEW r \in S
      PROVE  Cardinality(S) <= 1
  <2>1. S = {r}
    BY <1>2
  <2>2. Cardinality({r}) = 1
    BY FS_Singleton
  <2> QED
    BY <2>1, <2>2
<1> QED
  BY <1>1, <1>2

LEMMA LateOnceStep ==
    ASSUME Control, LateOnce, [HostNext]_hostVars
    PROVE  LateOnce'
<1> USE DEF LateOnce, Control, HostTypeOK
<1>1. \A q \in lateStarts : q \in HostRuns /\ q[2] \in Hosts
  BY RunPairs
<1>2. ASSUME NEW x \in Hosts, HostStep(x)
      PROVE  LateOnce'
  <2>1. CASE NextTemplate(x) \/ LeaveHost(x) \/ HostOver(x)
    BY <1>1, <2>1 DEF NextTemplate, LeaveHost, HostOver
  <2>2. CASE AdmitTemplate(x)
    <3>1. /\ host[x] = "admit" /\ host'[x] = "loop" /\ ctxDone' = ctxDone
          /\ \A y \in Hosts \ {x} : host'[y] = host[y]
          /\ lateStarts' = IF ctxDone THEN lateStarts \cup {<<tpos[x], x>>} ELSE lateStarts
      BY <2>2 DEF AdmitTemplate
    <3>2. \A q \in lateStarts : q[2] # x
      BY <3>1
    <3> QED
      BY <1>1, <3>1, <3>2
  <2> QED
    BY <1>2, <2>1, <2>2 DEF HostStep
<1>3. ASSUME NEW r \in Runs, RunStep(r)
      PROVE  LateOnce'
  BY <1>3, RunStepEffect
<1>4. CASE EngineStep
  <2>1. UNCHANGED <<lateStarts, ctxDone>> /\ \A x \in Hosts : host'[x] \in {host[x], "loop"}
    BY <1>4 DEF EngineStep, StartSelfContained, NextHost, AdmitHost, IterateEnds, JoinStrategy,
                EndScan
  <2> QED
    BY <1>1, <2>1
<1>5. CASE Cancel
  BY <1>5 DEF Cancel, loopVars
<1>6. CASE UNCHANGED hostVars
  BY <1>6 DEF hostVars
<1> QED
  BY <1>2, <1>3, <1>4, <1>5, <1>6 DEF HostNext, HostProgress

\* Of every target at most one template starts after the cancellation.
THEOREM LateStartsAreFew == HostSpec => []FewLateStarts
<1>1. HostInit => LateOnce
  BY DEF HostInit, LateOnce
<1>2. HostSpec => []LateOnce
  BY <1>1, ControlInit, ControlStep, LateOnceStep, PTL DEF HostSpec
<1>3. ASSUME LateOnce PROVE FewLateStarts
  <2> SUFFICES ASSUME NEW x \in Hosts
               PROVE  Cardinality({r \in lateStarts : r[2] = x}) <= 1
    BY DEF FewLateStarts
  <2> DEFINE S == {r \in lateStarts : r[2] = x}
  <2>1. \A q, r \in S : q = r
    BY <1>3 DEF LateOnce
  <2> HIDE DEF S
  <2>2. Cardinality(S) <= 1
    BY <2>1, AtMostOne
  <2> QED
    BY <2>2 DEF S
<1> QED
  BY <1>2, <1>3, PTL

-----------------------------------------------------------------------------
\* Only the steps of a run change what it told of.
LEMMA ReportsFrame ==
    ASSUME EngineStep \/ (\E x \in Hosts : HostStep(x)) \/ Cancel
    PROVE  UNCHANGED <<matched, failed, lastEvent, indexed, filed>>
BY DEF EngineStep, StartSelfContained, NextHost, AdmitHost, IterateEnds, JoinStrategy, EndScan,
       HostStep, NextTemplate, LeaveHost, AdmitTemplate, HostOver, Cancel, runVars, issueVars

\* Steps of the engine and of a target start runs and do nothing else to them.
LEMMA LoopStartsRuns ==
    ASSUME Control, EngineStep \/ (\E x \in Hosts : HostStep(x)) \/ Cancel
    PROVE  \A r \in Runs : exec'[r] \in {exec[r], "running"}
<1>1. CASE StartSelfContained
  BY <1>1 DEF StartSelfContained, Control, HostTypeOK
<1>2. ASSUME NEW x \in Hosts, AdmitTemplate(x)
      PROVE  \A r \in Runs : exec'[r] \in {exec[r], "running"}
  BY <1>2 DEF AdmitTemplate, Control, HostTypeOK
<1>3. CASE (EngineStep /\ ~StartSelfContained) \/ Cancel
  BY <1>3 DEF EngineStep, NextHost, AdmitHost, IterateEnds, JoinStrategy, EndScan, Cancel,
              runVars
<1>4. ASSUME NEW x \in Hosts, HostStep(x), ~AdmitTemplate(x)
      PROVE  exec' = exec
  BY <1>4 DEF HostStep, NextTemplate, LeaveHost, HostOver, runVars
<1> QED
  BY <1>1, <1>2, <1>3, <1>4

LEMMA FailureStep ==
    ASSUME Control, FailureOfEveryRun, [HostNext]_hostVars
    PROVE  FailureOfEveryRun'
<1> USE DEF FailureOfEveryRun, Fails
<1>1. ASSUME NEW r \in Runs, RunStep(r)
      PROVE  FailureOfEveryRun'
  <2>1. \A q \in Runs \ {r} : /\ exec'[q] = exec[q] /\ failed'[q] = failed[q]
                              /\ lastEvent'[q] = lastEvent[q] /\ matched'[q] = matched[q]
    BY <1>1 DEF RunStep, NoResult, InternalMatch, Result, LookUp, Store, FileIssue, WriteOut,
                FinishRun, hostVars, Control, HostTypeOK
  <2>2. failed'[r] <=> exec'[r] = "done" /\ MatcherStatus /\ lastEvent'[r] /\ ~matched'[r]
    <3>1. CASE FinishRun(r)
      <4>1. /\ exec' = [exec EXCEPT ![r] = "done"]
            /\ failed' = [failed EXCEPT ![r] = Fails(r)]
            /\ UNCHANGED <<lastEvent, matched>>
        BY <3>1 DEF FinishRun
      <4>2. exec'[r] = "done" /\ failed'[r] = Fails(r)
        BY <4>1 DEF Control, HostTypeOK
      <4> QED
        BY <4>1, <4>2, Zenon
    <3>2. CASE RunStep(r) /\ ~FinishRun(r)
      <4>1. exec[r] # "done" /\ exec'[r] # "done" /\ failed' = failed
        BY <3>2 DEF RunStep, NoResult, InternalMatch, Result, LookUp, Store, FileIssue, WriteOut,
                    HasEvent, hostVars, Control, HostTypeOK
      <4> QED
        BY <4>1
    <3> QED
      BY <1>1, <3>1, <3>2
  <2> QED
    BY <2>1, <2>2
<1>2. CASE UNCHANGED hostVars
  BY <1>2 DEF hostVars
<1>3. CASE EngineStep \/ (\E x \in Hosts : HostStep(x)) \/ Cancel
  <2>1. UNCHANGED <<matched, failed, lastEvent>>
    BY <1>3, ReportsFrame
  <2>2. \A r \in Runs : exec'[r] = "done" <=> exec[r] = "done"
    BY <1>3, LoopStartsRuns, RunsGoOn
  <2> QED
    BY <2>1, <2>2
<1> QED
  BY <1>1, <1>2, <1>3 DEF HostNext, HostProgress

\* A run that had something to tell told of it once, by results or by one
\* failure.
THEOREM EveryRunHasAStatus == HostSpec => []StatusOfEveryRun
<1>1. HostInit => FailureOfEveryRun
  BY DEF HostInit, FailureOfEveryRun
<1>2. HostSpec => [](Control /\ FailureOfEveryRun)
  BY <1>1, ControlInit, ControlStep, FailureStep, PTL DEF HostSpec
<1>3. ASSUME Control, FailureOfEveryRun PROVE StatusOfEveryRun
  <2> SUFFICES ASSUME NEW r \in Runs, exec[r] = "done", MatcherStatus,
                      matched[r] \/ lastEvent[r]
               PROVE  matched[r] # failed[r]
    BY DEF StatusOfEveryRun
  <2>1. matched[r] \in BOOLEAN /\ failed[r] \in BOOLEAN
    BY <1>3 DEF Control, HostTypeOK
  <2>2. failed[r] <=> lastEvent[r] /\ ~matched[r]
    BY <1>3 DEF FailureOfEveryRun, Fails
  <2> QED
    BY <2>1, <2>2, Zenon
<1> QED
  BY <1>2, <1>3, PTL

-----------------------------------------------------------------------------
\* A hash that has been filed, or is about to be, stays so: the run that is
\* about to file it does.
LEMMA FilingStays ==
    ASSUME Control, [HostNext]_hostVars, NEW h, Filing(h)
    PROVE  Filing(h)'
<1> USE DEF Filing
<1>1. filed \subseteq filed'
  <2>1. ASSUME NEW r \in Runs, RunStep(r) PROVE filed \subseteq filed'
    BY <2>1 DEF RunStep, NoResult, InternalMatch, Result, LookUp, Store, FileIssue, WriteOut,
                FinishRun, hostVars, issueVars
  <2> QED
    BY <2>1, ReportsFrame DEF HostNext, HostProgress, hostVars
<1>2. ASSUME NEW q \in Runs, Hash(q) = h, exec[q] = "file"
      PROVE  h \in filed' \/ exec'[q] = "file"
  <2>1. ASSUME NEW r \in Runs, RunStep(r)
        PROVE  h \in filed' \/ exec'[q] = "file"
    <3>1. CASE r = q
      <4>1. FileIssue(q) \/ InternalMatch(q)
        BY <1>2, <2>1, <3>1 DEF RunStep, NoResult, Result, LookUp, Store, WriteOut, FinishRun,
                                HasEvent
      <4> QED
        BY <1>2, <4>1 DEF FileIssue, InternalMatch, hostVars
    <3>2. CASE r # q
      BY <1>2, <2>1, <3>2, RunStepEffect DEF Control
    <3> QED
      BY <3>1, <3>2
  <2>2. ASSUME NEW x \in Hosts, HostStep(x)
        PROVE  exec'[q] = exec[q]
    <3>1. CASE AdmitTemplate(x)
      <4>1. tpos[x] \in HostTpls /\ exec' = [exec EXCEPT ![<<tpos[x], x>>] = "running"]
        BY <3>1 DEF AdmitTemplate, Control
      <4>2. tpos[x] <= tpos[x]
        BY <4>1, HostSprayAssumption DEF HostTpls
      <4>3. exec[<<tpos[x], x>>] = "idle"
        BY <4>1, <4>2 DEF Control
      <4> QED
        BY <1>2, <4>1, <4>3 DEF Control, HostTypeOK
    <3> QED
      BY <2>2, <3>1 DEF HostStep, NextTemplate, LeaveHost, HostOver, runVars
  <2>3. CASE EngineStep
    BY <1>2, <2>3 DEF EngineStep, StartSelfContained, NextHost, AdmitHost, IterateEnds,
                      JoinStrategy, EndScan, runVars, Control, HostTypeOK
  <2>4. CASE Cancel \/ UNCHANGED hostVars
    BY <1>2, <2>4 DEF Cancel, runVars, hostVars
  <2> QED
    BY <1>2, <2>1, <2>2, <2>3, <2>4 DEF HostNext, HostProgress
<1> QED
  BY <1>1, <1>2

LEMMA IssuesStep ==
    ASSUME Control, Issues, [HostNext]_hostVars
    PROVE  Issues'
<1> USE DEF Issues
<1>1. ASSUME NEW h, Filing(h) PROVE Filing(h)'
  BY <1>1, FilingStays
<1>2. \A r \in Runs : Hash(r)' = Hash(r)
  BY DEF Hash
<1>3. ASSUME NEW r \in Runs, RunStep(r)
      PROVE  Issues'
  <2>1. \A h \in indexed' : h \in indexed \/ (h = Hash(r) /\ Store(r))
    BY <1>3 DEF RunStep, NoResult, InternalMatch, Result, LookUp, Store, FileIssue, WriteOut,
                FinishRun, hostVars, issueVars
  <2>2. Store(r) => Filing(Hash(r))'
    BY <1>2 DEF Store, Filing, Control, HostTypeOK
  <2>3. \A q \in Runs \ {r} : matched'[q] = matched[q] /\ exec'[q] = exec[q]
    BY <1>3 DEF RunStep, NoResult, InternalMatch, Result, LookUp, Store, FileIssue, WriteOut,
                FinishRun, hostVars, Control, HostTypeOK
  <2>4. ASSUME matched'[r] \/ exec'[r] = "write"
        PROVE  \/ matched[r] \/ exec[r] = "write" \/ Hash(r) \in indexed
               \/ Hash(r) \in filed'
    BY <1>3, <2>4 DEF RunStep, NoResult, InternalMatch, Result, LookUp, Store, FileIssue,
                      WriteOut, FinishRun, hostVars, Control, HostTypeOK
  <2>5. \A h \in indexed' : Filing(h)'
    BY <1>1, <2>1, <2>2
  <2>6. matched'[r] \/ exec'[r] = "write" => Filing(Hash(r))'
    BY <1>1, <1>2, <2>4 DEF Filing
  <2>7. \A q \in Runs \ {r} : matched'[q] \/ exec'[q] = "write" => Filing(Hash(q))'
    BY <1>1, <1>2, <2>3
  <2> QED
    BY <2>5, <2>6, <2>7
<1>4. CASE EngineStep \/ (\E x \in Hosts : HostStep(x)) \/ Cancel
  <2>1. UNCHANGED <<matched, indexed>>
    BY <1>4, ReportsFrame
  <2>2. \A r \in Runs : exec'[r] = "write" => exec[r] = "write"
    BY <1>4, LoopStartsRuns
  <2> QED
    BY <1>1, <1>2, <2>1, <2>2
<1>5. CASE UNCHANGED hostVars
  BY <1>1, <1>2, <1>5 DEF hostVars
<1> QED
  BY <1>3, <1>4, <1>5 DEF HostNext, HostProgress

\* Of equal results, in whatever order their runs look and store, one has
\* its issue filed.
THEOREM NoIssueIsLost == HostSpec => []IssueNotLost
<1>1. HostInit => Issues
  BY DEF HostInit, Issues
<1>2. HostSpec => []Issues
  BY <1>1, ControlInit, ControlStep, IssuesStep, PTL DEF HostSpec
<1>3. Issues => IssueNotLost
  BY DEF Issues, IssueNotLost, Filing
<1> QED
  BY <1>2, <1>3, PTL

-----------------------------------------------------------------------------
LEMMA ResultsStep ==
    ASSUME Control, FailureOfEveryRun, Results, [HostNext]_hostVars
    PROVE  Results'
<1> USE DEF Results, Reported
<1>1. Control'
  BY ControlStep
<1>2. ASSUME NEW r \in Runs, RunStep(r)
      PROVE  Results'
  <2>1. /\ UNCHANGED <<engine, ctxDone>> /\ exec[r] # "done"
        /\ \A q \in Runs \ {r} : /\ exec'[q] = exec[q] /\ failed'[q] = failed[q]
                                 /\ matched'[q] = matched[q]
    BY <1>2, RunStepEffect
       DEF RunStep, NoResult, InternalMatch, Result, LookUp, Store, FileIssue, WriteOut,
           FinishRun, hostVars, Control, HostTypeOK
  <2>2. (matched[r] => matched'[r]) /\ ~failed[r]
    <3>1. matched[r] => matched'[r]
      BY <1>2 DEF RunStep, NoResult, InternalMatch, Result, LookUp, Store, FileIssue, WriteOut,
                  FinishRun, hostVars, Control, HostTypeOK
    <3>2. ~failed[r]
      BY <2>1 DEF FailureOfEveryRun
    <3> QED
      BY <3>1, <3>2
  <2>3. CASE RunStep(r) /\ ~FinishRun(r)
    <3>1. UNCHANGED <<strategyResult, scanResult>> /\ exec'[r] # "done"
      BY <2>3 DEF RunStep, NoResult, InternalMatch, Result, LookUp, Store, FileIssue, WriteOut,
                  HasEvent, hostVars, resultVars, Control, HostTypeOK
    <3> QED
      BY <2>1, <2>2, <3>1, RunPairs
  <2>4. CASE FinishRun(r)
    <3>1. /\ matched'[r] = matched[r] /\ exec'[r] = "done"
          /\ (failed'[r] <=> Fails(r))
      BY <2>4, Zenon DEF FinishRun, Control, HostTypeOK
    <3>2. IF r \in SelfRuns
          THEN scanResult' = (scanResult \/ matched[r] \/ Fails(r))
               /\ strategyResult' = strategyResult
          ELSE strategyResult' = (strategyResult \/ matched[r] \/ Fails(r))
               /\ scanResult' = scanResult
      BY <2>4, Zenon DEF FinishRun
    <3>3. engine \in {"join", "ended"} => ctxDone \/ r \in SelfRuns
      <4>1. engine \in {"join", "ended"} /\ ~ctxDone => \A q \in HostRuns : exec[q] = "done"
        BY JoinedMeansOver DEF Control
      <4> QED
        BY <2>1, <4>1 DEF Runs
    <3>4. strategyResult' \/ scanResult' => \E q \in Runs : matched'[q] \/ failed'[q]
      BY <2>1, <2>2, <3>1, <3>2
    <3> QED
      BY <2>1, <3>1, <3>2, <3>3, <3>4, RunPairs
  <2> QED
    BY <1>2, <2>3, <2>4
<1>3. CASE EngineStep \/ (\E x \in Hosts : HostStep(x)) \/ Cancel
  <2>1. UNCHANGED <<matched, failed>>
    BY <1>3, ReportsFrame
  <2>2. \A r \in Runs : exec'[r] = "done" => exec[r] = "done"
    BY <1>3, LoopStartsRuns
  <2>3. CASE JoinStrategy
    <3>1. /\ strategyResult' = strategyResult
          /\ scanResult' <=> scanResult \/ strategyResult
      BY <2>3, Zenon DEF JoinStrategy
    <3> QED
      BY <2>1, <2>2, <3>1, RunPairs
  <2>4. CASE ~JoinStrategy
    <3>1. UNCHANGED <<strategyResult, scanResult>>
      BY <1>3, <2>4 DEF EngineStep, StartSelfContained, NextHost, AdmitHost, IterateEnds,
                        EndScan, HostStep, NextTemplate, LeaveHost, AdmitTemplate, HostOver,
                        Cancel, resultVars
    <3>2. /\ engine' \in {"join", "ended"} => engine \in {"join", "ended"}
          /\ ctxDone => ctxDone'
      <4>1. CASE EngineStep
        BY <2>4, <4>1 DEF EngineStep, StartSelfContained, NextHost, AdmitHost, IterateEnds,
                          EndScan
      <4>2. ASSUME NEW x \in Hosts, HostStep(x)
            PROVE  UNCHANGED <<engine, ctxDone>>
        BY <4>2 DEF HostStep, NextTemplate, LeaveHost, AdmitTemplate, HostOver
      <4>3. CASE Cancel
        BY <4>3 DEF Cancel, loopVars
      <4> QED
        BY <1>3, <4>1, <4>2, <4>3
    <3> QED
      BY <2>1, <2>2, <3>1, <3>2, RunPairs
  <2> QED
    BY <2>3, <2>4
<1>4. CASE UNCHANGED hostVars
  BY <1>4 DEF hostVars
<1> QED
  BY <1>2, <1>3, <1>4 DEF HostNext, HostProgress

\* The scan returns that something was found or failed only if it was, and
\* always then unless it was cancelled.
THEOREM ScanReturnsWhatRunsTold == HostSpec => []HostScanResult
<1>1. HostInit => FailureOfEveryRun /\ Results /\ Ending
  BY RunPairs DEF HostInit, FailureOfEveryRun, Results, Ending
<1>2. HostSpec => [](Control /\ FailureOfEveryRun /\ Results /\ Ending)
  BY <1>1, ControlInit, ControlStep, FailureStep, ResultsStep, EndingStep, PTL DEF HostSpec
<1>3. ASSUME Control, Results, Ending PROVE HostScanResult
  BY <1>3 DEF HostScanResult, Results, Reported, Ending, Runs
<1> QED
  BY <1>2, <1>3, PTL
=============================================================================
