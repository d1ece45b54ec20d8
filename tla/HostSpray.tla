------------------------------ MODULE HostSpray ------------------------------
(***************************************************************************)
(* A scan by the host spray strategy (pkg/core: executeAllSelfContained,   *)
(* executeHostSpray, executeTemplatesOnTarget) with what a template run    *)
(* reports: the OnResult callback of TemplateExecuter.Execute, WriteResult *)
(* and the issue that CreateIssue files once per distinct result.          *)
(*                                                                         *)
(* Iterate hands every target to a goroutine of its own, which hands every *)
(* template to one of a pool that belongs to this target.  The templates   *)
(* that need no target were started before, all of them at once.           *)
(***************************************************************************)
EXTENDS Naturals, FiniteSets

CONSTANTS NumTpls,         \* templates that are run on every target, in order
          NumHosts,        \* targets of the input provider, in order
          NumSelf,         \* self-contained templates
          BulkSize,        \* targets at a time (-bs and its headless part)
          TplConcurrency,  \* templates per target at a time (-c)
          MatcherStatus,   \* whether failures are reported (-ms)
          EventBounds      \* bounds: template -> events of one run of it, at most

ASSUME HostSprayAssumption ==
    /\ NumTpls \in Nat /\ NumHosts \in Nat /\ NumSelf \in Nat
    /\ BulkSize \in Nat \ {0} /\ TplConcurrency \in Nat \ {0}
    /\ MatcherStatus \in BOOLEAN
    /\ EventBounds \subseteq [1..(NumTpls + NumSelf) -> Nat]

Hosts == 1..NumHosts
HostTpls == 1..NumTpls

\* A run is one Execute: a template on a target, or (target 0) on none.
SelfRuns == {<<NumTpls + t, 0>> : t \in 1..NumSelf}
HostRuns == HostTpls \X Hosts
Runs == HostRuns \cup SelfRuns

\* What dedupe hashes of a result.  The targets are names of one host, so the
\* results of a template on them are equal.
Hash(r) == r[1]
Hashes == {Hash(r) : r \in Runs}

VARIABLES engine,         \* where ExecuteScanWithOpts is
          iter,           \* next target of Iterate
          host,           \* target -> where its goroutine is
          tpos,           \* target -> next template
          exec,           \* run -> where it is
          left,           \* run -> events it may still have
          lastEvent,      \* run -> lastMatcherEvent is set
          matched,        \* run -> a result of it was written
          failed,         \* run -> its failure event was written
          strategyResult, \* results of the strategy
          scanResult,     \* results of the scan
          ctxDone,        \* the context of the scan is done
          indexed,        \* hashes in the dedupe storage
          filed,          \* hashes handed to the trackers and exporters
          lateStarts      \* history: runs that started after cancellation

loopVars == <<engine, iter, host, tpos>>
runVars == <<exec, left, lastEvent, matched, failed>>
resultVars == <<strategyResult, scanResult>>
issueVars == <<indexed, filed>>
hostVars == <<engine, iter, host, tpos, exec, left, lastEvent, matched, failed,
              strategyResult, scanResult, ctxDone, indexed, filed, lateStarts>>

\* Types of the engine, of every target and run, of the storage and history.
HostTypeOK ==
    /\ engine \in {"self", "spray", "admit", "drain", "join", "ended"}
    /\ iter \in 1..(NumHosts + 1)
    /\ host \in [Hosts -> {"idle", "loop", "admit", "done"}]
    /\ tpos \in [Hosts -> 1..(NumTpls + 1)]
    /\ exec \in [Runs -> {"idle", "running", "lookup", "store", "file", "write", "done"}]
    /\ left \in [Runs -> Nat]
    /\ lastEvent \in [Runs -> BOOLEAN]
    /\ matched \in [Runs -> BOOLEAN]
    /\ failed \in [Runs -> BOOLEAN]
    /\ strategyResult \in BOOLEAN /\ scanResult \in BOOLEAN /\ ctxDone \in BOOLEAN
    /\ indexed \subseteq Hashes /\ filed \subseteq Hashes
    /\ lateStarts \subseteq HostRuns

HostInit ==
    /\ engine = "self" /\ iter = 1
    /\ host = [x \in Hosts |-> "idle"]
    /\ tpos = [x \in Hosts |-> 1]
    /\ exec = [r \in Runs |-> "idle"]
    /\ \E bound \in EventBounds : left = [r \in Runs |-> bound[r[1]]]
    /\ lastEvent = [r \in Runs |-> FALSE]
    /\ matched = [r \in Runs |-> FALSE]
    /\ failed = [r \in Runs |-> FALSE]
    /\ strategyResult = FALSE /\ scanResult = FALSE /\ ctxDone = FALSE
    /\ indexed = {} /\ filed = {}
    /\ lateStarts = {}

-----------------------------------------------------------------------------
(* The engine *)

\* executeAllSelfContained: a goroutine per template, none of them waits for
\* a slot or looks at the context.
StartSelfContained ==
    /\ engine = "self"
    /\ engine' = "spray"
    /\ exec' = [r \in Runs |-> IF r \in SelfRuns THEN "running" ELSE exec[r]]
    /\ UNCHANGED <<iter, host, tpos, left, lastEvent, matched, failed, resultVars,
                   ctxDone, issueVars, lateStarts>>

\* executeHostSpray: Iterate calls back with the next target unless the
\* context is done; the target then queues for a slot.
NextHost ==
    /\ engine = "spray" /\ iter \in Hosts /\ ~ctxDone
    /\ engine' = "admit"
    /\ UNCHANGED <<iter, host, tpos, runVars, resultVars, ctxDone, issueVars, lateStarts>>

\* Mutant: a target that returns early keeps its slot.
StartedHosts == {x \in Hosts : host[x] # "idle" /\ (host[x] = "done" => tpos[x] \in HostTpls)}

BusyHosts == {x \in Hosts : host[x] \in {"loop", "admit"}}

AdmitHost ==
    /\ engine = "admit"
    /\ Cardinality(BusyHosts) < BulkSize
    /\ engine' = "spray"
    /\ host' = [host EXCEPT ![iter] = "loop"]
    /\ iter' = iter + 1
    /\ UNCHANGED <<tpos, runVars, resultVars, ctxDone, issueVars, lateStarts>>

\* The targets are exhausted, or the callback told Iterate to stop.
IterateEnds ==
    /\ engine = "spray"
    /\ iter = NumHosts + 1 \/ ctxDone
    /\ engine' = "drain"
    /\ UNCHANGED <<iter, host, tpos, runVars, resultVars, ctxDone, issueVars, lateStarts>>

\* Mutant: the result is taken over before the targets are waited for.
JoinEarly ==
    /\ engine = "drain"
    /\ engine' = "join"
    /\ scanResult' = (scanResult \/ strategyResult)
    /\ UNCHANGED <<iter, host, tpos, runVars, strategyResult, ctxDone, issueVars, lateStarts>>

\* wp.Wait, and the result of the strategy becomes the result of the scan.
JoinStrategy ==
    /\ engine = "drain"
    /\ BusyHosts = {}
    /\ engine' = "join"
    /\ scanResult' = (scanResult \/ strategyResult)
    /\ UNCHANGED <<iter, host, tpos, runVars, strategyResult, ctxDone, issueVars, lateStarts>>

\* selfcontainedWg.Wait
EndScan ==
    /\ engine = "join"
    /\ \A r \in SelfRuns : exec[r] = "done"
    /\ engine' = "ended"
    /\ UNCHANGED <<iter, host, tpos, runVars, resultVars, ctxDone, issueVars, lateStarts>>

Cancel ==
    /\ engine # "ended" /\ ~ctxDone
    /\ ctxDone' = TRUE
    /\ UNCHANGED <<loopVars, runVars, resultVars, issueVars, lateStarts>>

-----------------------------------------------------------------------------
(* executeTemplatesOnTarget *)

\* Mutant: the context is not looked at between two templates.
NextTemplateAlways(x) ==
    /\ host[x] = "loop" /\ tpos[x] \in HostTpls
    /\ host' = [host EXCEPT ![x] = "admit"]
    /\ UNCHANGED <<engine, iter, tpos, runVars, resultVars, ctxDone, issueVars, lateStarts>>

NextTemplate(x) ==
    /\ host[x] = "loop" /\ tpos[x] \in HostTpls /\ ~ctxDone
    /\ host' = [host EXCEPT ![x] = "admit"]
    /\ UNCHANGED <<engine, iter, tpos, runVars, resultVars, ctxDone, issueVars, lateStarts>>

\* The context is done: the target returns, its templates go on.
LeaveHost(x) ==
    /\ host[x] = "loop" /\ tpos[x] \in HostTpls /\ ctxDone
    /\ host' = [host EXCEPT ![x] = "done"]
    /\ UNCHANGED <<engine, iter, tpos, runVars, resultVars, ctxDone, issueVars, lateStarts>>

RunsOn(x) == {t \in HostTpls : exec[<<t, x>>] \notin {"idle", "done"}}

\* A slot of the target's pool is free: the template starts, cancelled or not.
AdmitTemplate(x) ==
    /\ host[x] = "admit"
    /\ Cardinality(RunsOn(x)) < TplConcurrency
    /\ host' = [host EXCEPT ![x] = "loop"]
    /\ tpos' = [tpos EXCEPT ![x] = @ + 1]
    /\ exec' = [exec EXCEPT ![<<tpos[x], x>>] = "running"]
    /\ lateStarts' = IF ctxDone THEN lateStarts \cup {<<tpos[x], x>>} ELSE lateStarts
    /\ UNCHANGED <<engine, iter, left, lastEvent, matched, failed, resultVars, ctxDone,
                   issueVars>>

\* Mutant: a target is over when its last template has started.
HostOverEarly(x) ==
    /\ host[x] = "loop" /\ tpos[x] = NumTpls + 1
    /\ host' = [host EXCEPT ![x] = "done"]
    /\ UNCHANGED <<engine, iter, tpos, runVars, resultVars, ctxDone, issueVars, lateStarts>>

\* wp.Wait of the target
HostOver(x) ==
    /\ host[x] = "loop" /\ tpos[x] = NumTpls + 1
    /\ RunsOn(x) = {}
    /\ host' = [host EXCEPT ![x] = "done"]
    /\ UNCHANGED <<engine, iter, tpos, runVars, resultVars, ctxDone, issueVars, lateStarts>>

-----------------------------------------------------------------------------
(* A run: TemplateExecuter.Execute, whose events come one at a time (the     *)
(* scan context locks around OnResult)                                       *)

HasEvent(r) == exec[r] = "running" /\ left[r] > 0

\* OnResult with an event without operator result, or with one that has no
\* results to write.
NoResult(r) ==
    /\ HasEvent(r)
    /\ left' = [left EXCEPT ![r] = @ - 1]
    /\ lastEvent' = [lastEvent EXCEPT ![r] = TRUE]
    /\ UNCHANGED <<loopVars, exec, matched, failed, resultVars, ctxDone, issueVars, lateStarts>>

\* OnResult with a match of internal matchers alone, or with no event: there
\* is nothing to report.
InternalMatch(r) == HasEvent(r) /\ UNCHANGED hostVars

\* OnResult with a result: WriteResult begins with CreateIssue.
Result(r) ==
    /\ HasEvent(r)
    /\ left' = [left EXCEPT ![r] = @ - 1]
    /\ exec' = [exec EXCEPT ![r] = "lookup"]
    /\ UNCHANGED <<loopVars, lastEvent, matched, failed, resultVars, ctxDone, issueVars,
                   lateStarts>>

\* Mutant: the hash is put before it is looked for.
PutBeforeHas(r) ==
    /\ exec[r] = "lookup"
    /\ indexed' = indexed \cup {Hash(r)}
    /\ exec' = [exec EXCEPT ![r] = IF Hash(r) \in indexed' THEN "write" ELSE "store"]
    /\ UNCHANGED <<loopVars, left, lastEvent, matched, failed, resultVars, ctxDone,
                   filed, lateStarts>>

\* Index asks the storage for the hash.  When that fails the result counts as
\* unique.
LookUp(r) ==
    /\ exec[r] = "lookup"
    /\ \/ /\ Hash(r) \in indexed
          /\ exec' = [exec EXCEPT ![r] = "write"]
       \/ /\ Hash(r) \notin indexed
          /\ exec' = [exec EXCEPT ![r] = "store"]
       \/ exec' = [exec EXCEPT ![r] = "file"]
    /\ UNCHANGED <<loopVars, left, lastEvent, matched, failed, resultVars, ctxDone,
                   issueVars, lateStarts>>

\* Index puts the hash; the result is unique whether or not that succeeds.
Store(r) ==
    /\ exec[r] = "store"
    /\ exec' = [exec EXCEPT ![r] = "file"]
    /\ indexed' \in {indexed, indexed \cup {Hash(r)}}
    /\ UNCHANGED <<loopVars, left, lastEvent, matched, failed, resultVars, ctxDone, filed,
                   lateStarts>>

\* CreateIssue calls every tracker and exporter and collects their errors.
FileIssue(r) ==
    /\ exec[r] = "file"
    /\ exec' = [exec EXCEPT ![r] = "write"]
    /\ filed' = filed \cup {Hash(r)}
    /\ UNCHANGED <<loopVars, left, lastEvent, matched, failed, resultVars, ctxDone, indexed,
                   lateStarts>>

\* The result is written; an error of the writer does not make it a failure.
WriteOut(r) ==
    /\ exec[r] = "write"
    /\ exec' = [exec EXCEPT ![r] = "running"]
    /\ matched' = [matched EXCEPT ![r] = TRUE]
    /\ UNCHANGED <<loopVars, left, lastEvent, failed, resultVars, ctxDone, issueVars, lateStarts>>

\* Mutant: one matched flag for the runs of a template.
FailsUnlessAny(r) ==
    MatcherStatus /\ lastEvent[r] /\ \A q \in Runs : q[1] = r[1] => ~matched[q]

\* writeFailureCallback
Fails(r) == MatcherStatus /\ lastEvent[r] /\ ~matched[r]

\* The engine of the template returns, after any of its events: Execute
\* writes the failure event and its caller merges the outcome.
FinishRun(r) ==
    LET outcome == matched[r] \/ Fails(r)
    IN  /\ exec[r] = "running"
        /\ exec' = [exec EXCEPT ![r] = "done"]
        /\ left' = [left EXCEPT ![r] = 0]
        /\ failed' = [failed EXCEPT ![r] = Fails(r)]
        /\ IF r \in SelfRuns
           THEN scanResult' = (scanResult \/ outcome) /\ UNCHANGED strategyResult
           ELSE strategyResult' = (strategyResult \/ outcome) /\ UNCHANGED scanResult
        /\ UNCHANGED <<loopVars, lastEvent, matched, ctxDone, issueVars, lateStarts>>

-----------------------------------------------------------------------------
RunStep(r) ==
    \/ NoResult(r) \/ InternalMatch(r) \/ Result(r)
    \/ LookUp(r) \/ Store(r) \/ FileIssue(r) \/ WriteOut(r) \/ FinishRun(r)

HostStep(x) == NextTemplate(x) \/ LeaveHost(x) \/ AdmitTemplate(x) \/ HostOver(x)

EngineStep ==
    \/ StartSelfContained \/ NextHost \/ AdmitHost \/ IterateEnds
    \/ JoinStrategy \/ EndScan

HostProgress ==
    \/ EngineStep
    \/ \E x \in Hosts : HostStep(x)
    \/ \E r \in Runs : RunStep(r)

HostNext == HostProgress \/ Cancel

HostSpec == HostInit /\ [][HostNext]_hostVars

\* Requests have timeouts, so a run that has a step left takes it in the end.
HostFairness == WF_hostVars(HostProgress)

-----------------------------------------------------------------------------
(* Properties *)

\* A result that was written has its issue, or another run is about to file
\* it: the look-up and the store of dedupe are two steps, and no order of the
\* runs may make each of two equal results take the other for the first.
IssueNotLost ==
    \A r \in Runs : matched[r] =>
        \/ Hash(r) \in filed
        \/ \E q \in Runs : Hash(q) = Hash(r) /\ exec[q] = "file"

\* With -ms a run that is over and that had something to tell was told of
\* once: by its results or by one failure event, never by both.
StatusOfEveryRun ==
    \A r \in Runs :
        exec[r] = "done" /\ MatcherStatus /\ (matched[r] \/ lastEvent[r])
            => matched[r] # failed[r]

\* What the scan returns: that some run reported something, and exactly that
\* unless it was cancelled.
HostScanResult ==
    engine = "ended" =>
        /\ scanResult => \E r \in Runs : matched[r] \/ failed[r]
        /\ (\E r \in Runs : matched[r] \/ failed[r]) => scanResult \/ ctxDone

\* After the cancellation a target starts at most the one template that was
\* waiting for a slot.
FewLateStarts ==
    \A x \in Hosts : Cardinality({r \in lateStarts : r[2] = x}) <= 1

\* The strategy is a scan as ScanPlan promises it: it returns when every run
\* is over, unless it was cancelled.  The early return of a target lets runs
\* end after the scan, but none begins then.
HostPlan == INSTANCE ScanPlan WITH
    Pairs <- Runs,
    pending <- {r \in Runs : exec[r] # "done"},
    begun <- {r \in Runs : exec[r] # "idle"},
    ended <- engine = "ended",
    stopped <- ctxDone

HostImplementsPlan == HostPlan!Safe

\* A scan that has begun ends, cancelled or not.
HostScanEnds == engine = "spray" ~> engine = "ended"
=============================================================================
