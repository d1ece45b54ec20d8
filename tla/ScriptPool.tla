------------------------------ MODULE ScriptPool ------------------------------
(***************************************************************************)
(* The JavaScript runtimes (pkg/js/compiler): ExecuteWithOptions starts a  *)
(* goroutine for a script and waits for it until a deadline.  The          *)
(* goroutine queues for one of the slots of the pooled runtimes, takes a   *)
(* runtime out of a sync.Pool, puts the arguments into its global object,  *)
(* runs the program, deletes the arguments and puts the runtime back.      *)
(* Nothing interrupts it: when its caller has left, it goes on, and a      *)
(* script that never ends keeps its slot.  A script that exports nothing   *)
(* runs in a runtime of its own, behind slots of its own.                  *)
(***************************************************************************)
EXTENDS Naturals, FiniteSets

CONSTANTS Scripts,         \* calls of ExecuteWithOptions, each with its arguments
          Ephemeral,       \* those whose source exports nothing
          PoolSize,        \* PoolingJsVmConcurrency
          EphemeralSize    \* NonPoolingVMConcurrency

ASSUME ScriptAssumption ==
    /\ Ephemeral \subseteq Scripts
    /\ PoolSize \in Nat /\ EphemeralSize \in Nat

\* A runtime is named after the script it was made for.
Runtimes == Scripts

VARIABLES call,     \* script -> where its caller is
          script,   \* script -> where its goroutine is
          runtime,  \* script -> runtime it was given (a subset of one or none)
          pool,     \* runtimes in the sync.Pool
          globals   \* runtime -> scripts whose arguments are in its global object

scriptVars == <<call, script, runtime, pool, globals>>

ScriptTypeOK ==
    /\ call \in [Scripts -> {"new", "waiting", "result", "deadline"}]
    /\ script \in [Scripts -> {"none", "queued", "entered", "running", "leaving", "clean", "over"}]
    /\ runtime \in [Scripts -> SUBSET Runtimes]
    /\ pool \subseteq Runtimes
    /\ globals \in [Runtimes -> SUBSET Scripts]

ScriptInit ==
    /\ call = [s \in Scripts |-> "new"]
    /\ script = [s \in Scripts |-> "none"]
    /\ runtime = [s \in Scripts |-> {}]
    /\ pool = {}
    /\ globals = [v \in Runtimes |-> {}]

\* ExecuteWithOptions hands the script to a goroutine.
Submit(s) ==
    /\ call[s] = "new"
    /\ call' = [call EXCEPT ![s] = "waiting"]
    /\ script' = [script EXCEPT ![s] = "queued"]
    /\ UNCHANGED <<runtime, pool, globals>>

InSlot == {s \in Scripts : script[s] \in {"entered", "running", "leaving", "clean"}}

\* executeWithPoolingProgram gets a slot, and a runtime of the pool or, when
\* the pool is empty or was collected, a new one.
EnterPooled(s) ==
    /\ script[s] = "queued" /\ s \notin Ephemeral
    /\ Cardinality(InSlot \ Ephemeral) < PoolSize
    /\ \/ \E v \in pool :
             runtime' = [runtime EXCEPT ![s] = {v}] /\ pool' = pool \ {v}
       \/ runtime' = [runtime EXCEPT ![s] = {s}] /\ UNCHANGED pool
    /\ script' = [script EXCEPT ![s] = "entered"]
    /\ UNCHANGED <<call, globals>>

\* executeWithoutPooling
EnterEphemeral(s) ==
    /\ script[s] = "queued" /\ s \in Ephemeral
    /\ Cardinality(InSlot \cap Ephemeral) < EphemeralSize
    /\ runtime' = [runtime EXCEPT ![s] = {s}]
    /\ script' = [script EXCEPT ![s] = "entered"]
    /\ UNCHANGED <<call, pool, globals>>

\* executeWithRuntime sets the arguments and runs the program, unless the
\* callback that registers functions fails.
SetArgs(s) ==
    /\ script[s] = "entered"
    /\ globals' = [v \in Runtimes |-> IF v \in runtime[s] THEN globals[v] \cup {s} ELSE globals[v]]
    /\ script' \in {[script EXCEPT ![s] = "running"], [script EXCEPT ![s] = "leaving"]}
    /\ UNCHANGED <<call, runtime, pool>>

\* The program returns, fails or panics.
EndProgram(s) ==
    /\ script[s] = "running"
    /\ script' = [script EXCEPT ![s] = "leaving"]
    /\ UNCHANGED <<call, runtime, pool, globals>>

\* The deferred clean-up of executeWithRuntime.
DeleteArgs(s) ==
    /\ script[s] = "leaving"
    /\ globals' = [v \in Runtimes |-> IF v \in runtime[s] THEN globals[v] \ {s} ELSE globals[v]]
    /\ script' = [script EXCEPT ![s] = "clean"]
    /\ UNCHANGED <<call, runtime, pool>>

\* The runtime goes back to the pool and the slot is free; a caller that is
\* still there has its result.
Leave(s) ==
    /\ script[s] = "clean"
    /\ pool' = IF s \in Ephemeral THEN pool ELSE pool \cup runtime[s]
    /\ runtime' = [runtime EXCEPT ![s] = {}]
    /\ script' = [script EXCEPT ![s] = "over"]
    /\ call' = IF call[s] = "waiting" THEN [call EXCEPT ![s] = "result"] ELSE call
    /\ UNCHANGED globals

\* Mutant: the runtime is taken back when the caller leaves.
DeadlineTakesRuntime(s) ==
    /\ call[s] = "waiting"
    /\ call' = [call EXCEPT ![s] = "deadline"]
    /\ pool' = pool \cup runtime[s]
    /\ UNCHANGED <<script, runtime, globals>>

\* Mutant: the deadline holds for the program, not for the wait for a slot.
DeadlineInSlot(s) ==
    /\ call[s] = "waiting" /\ s \in InSlot
    /\ call' = [call EXCEPT ![s] = "deadline"]
    /\ UNCHANGED <<script, runtime, pool, globals>>

\* ExecFuncWithTwoReturns gives up when the context is done.
Deadline(s) ==
    /\ call[s] = "waiting"
    /\ call' = [call EXCEPT ![s] = "deadline"]
    /\ UNCHANGED <<script, runtime, pool, globals>>

Compiler(s) ==
    \/ Submit(s) \/ EnterPooled(s) \/ EnterEphemeral(s) \/ SetArgs(s) \/ EndProgram(s)
    \/ DeleteArgs(s) \/ Leave(s) \/ Deadline(s)

ScriptNext == \E s \in Scripts : Compiler(s)

ScriptSpec == ScriptInit /\ [][ScriptNext]_scriptVars

\* The timer of the context fires; no script need ever end.
ScriptFairness == \A s \in Scripts : WF_scriptVars(Deadline(s))

-----------------------------------------------------------------------------
\* Inductive invariant: a runtime is in the pool or with one script in a
\* slot, and holds the arguments of that script alone, which it has got from
\* when its program runs.
RuntimesApart ==
    /\ \A s \in Scripts : call[s] = "new" => script[s] = "none"
    /\ \A s \in Scripts : script[s] = "running" => \A v \in runtime[s] : s \in globals[v]
    /\ \A s \in Scripts : s \notin InSlot => runtime[s] = {}
    /\ \A s \in Scripts : script[s] \in {"none", "queued"} =>
          \A q \in Scripts : s \notin runtime[q] /\ s \notin pool
    /\ \A s, q \in Scripts : s # q => runtime[s] \cap runtime[q] = {}
    /\ \A s \in Scripts : runtime[s] \cap pool = {}
    /\ \A v \in Runtimes : \A s \in globals[v] :
          v \in runtime[s] /\ script[s] \in {"running", "leaving"}

\* A script that runs finds its own arguments and nobody else's, whatever
\* became of the caller of the script that had the runtime before.
ArgsIsolated ==
    \A s \in Scripts : script[s] = "running" =>
        \A v \in runtime[s] : globals[v] = {s}

\* A call returns though every slot may be taken by a script that never ends.
EveryCallReturns ==
    \A s \in Scripts : call[s] = "waiting" ~> call[s] \in {"result", "deadline"}
=============================================================================
