---------------------------- MODULE TemplateSpray ----------------------------
(***************************************************************************)
(* A scan by the template spray strategy (pkg/core: executeTemplateSpray   *)
(* and executeTemplateWithTargets) together with the resume file that lets *)
(* an interrupted scan go on in a later session (pkg/types/resume.go,      *)
(* internal/runner SaveResumeConfig, the signal handler of cmd/nuclei).    *)
(*                                                                         *)
(* A goroutine per template walks the targets in order, marks each one in  *)
(* flight and hands it to a goroutine of its own; the host error cache may *)
(* make it pass a target over.  A scan that is cancelled returns without   *)
(* waiting for the templates it has started, unless it had started all of  *)
(* them; they go on behind its back.  On SIGINT the runner closes its output,    *)
(* saves what is in flight and exits while all of these still run.  The    *)
(* next session compiles the saved file and skips what it takes for done.  *)
(***************************************************************************)
EXTENDS Naturals, FiniteSets

CONSTANTS NumTemplates,      \* templates of the scan, run in list order
          NumTargets,        \* targets of the input provider, in order
          TypeConcurrency,   \* templates that run at a time (-c)
          InputConcurrency,  \* targets per template at a time (-bs)
          HostErrors,        \* whether the host error cache may skip targets
          MaxSessions        \* bound: sessions of the program

ASSUME SprayAssumption ==
    /\ NumTemplates \in Nat /\ NumTargets \in Nat
    /\ TypeConcurrency \in Nat \ {0} /\ InputConcurrency \in Nat \ {0}
    /\ HostErrors \in BOOLEAN
    /\ MaxSessions \in Nat \ {0}

Templates == 1..NumTemplates
Targets == 0..(NumTargets - 1)
Indices == 0..NumTargets
Pairs == Templates \X Targets

VARIABLES phase,       \* of the scan: scanning, closed (SIGINT came), finished, left
                       \* (returned when cancelled, templates may still run),
                       \* cutShort (finished after SIGINT), exited (by the handler)
          cancelled,   \* the context of the scan is done
          loop,        \* template -> where its goroutine is
          pos,         \* template -> next target Iterate yields
          index,       \* template -> the variable index
          tasks,       \* template -> its target goroutines
          current,     \* template -> ResumeCfg.Current
          resumeFrom,  \* template -> ResumeCfg.ResumeFrom, compiled
          saved,       \* template -> its entry in the resume file
          sessions,    \* sessions started
          delivered,   \* history: pairs whose results reached the output
          late,        \* history: pairs run after the output was closed or the scan left
          passedOver,  \* history: pairs left out for the errors of their host
          drifted,     \* history: templates that left out a target
          gaps         \* history: templates saved between two marks

sessionVars == <<phase, cancelled, sessions>>
resumeVars == <<current, resumeFrom, saved>>
history == <<delivered, late, passedOver, drifted, gaps>>
vars == <<phase, cancelled, loop, pos, index, tasks, current, resumeFrom, saved,
          sessions, delivered, late, passedOver, drifted, gaps>>

\* ResumeInfo, and its state before executeTemplateWithTargets has met it.
Info == [known : BOOLEAN, completed : BOOLEAN, inFlight : SUBSET Indices]
NoInfo == [known |-> FALSE, completed |-> FALSE, inFlight |-> {}]

Task == [pos : Targets, index : Indices, skip : BOOLEAN, ran : BOOLEAN]

TypeOK ==
    /\ phase \in {"scanning", "closed", "finished", "left", "cutShort", "exited"}
    /\ cancelled \in BOOLEAN
    /\ loop \in [Templates -> {"pending", "admitted", "next", "marked", "drain", "done"}]
    /\ pos \in [Templates -> Indices]
    /\ index \in [Templates -> Indices]
    /\ tasks \in [Templates -> SUBSET Task]
    /\ current \in [Templates -> Info]
    /\ resumeFrom \in [Templates -> Info]
    /\ saved \in [Templates -> Info]
    /\ sessions \in 1..MaxSessions
    /\ delivered \subseteq Pairs
    /\ late \subseteq Pairs
    /\ passedOver \subseteq Pairs
    /\ drifted \subseteq Templates
    /\ gaps \subseteq Templates

-----------------------------------------------------------------------------
(* The resume file *)

\* ResumeCfg.Compile: nothing of a completed template is in flight.
Compile(info) ==
    IF info.completed THEN [info EXCEPT !.inFlight = {}] ELSE info

\* Mutant: the bound is the greatest index in flight.
UnderSomeInFlight(t, i) ==
    /\ resumeFrom[t].known
    /\ resumeFrom[t].completed \/ \E m \in resumeFrom[t].inFlight : i < m

\* The target at index i is taken for processed: the template was completed,
\* or i is less than SkipUnder, which Compile sets to the least index in
\* flight and to MaxUint32 when there is none.  A template the file does not
\* know has SkipUnder 0.  Repeat and DoAbove change nothing.
SkipOnResume(t, i) ==
    /\ resumeFrom[t].known
    /\ resumeFrom[t].completed \/ \A m \in resumeFrom[t].inFlight : i < m

-----------------------------------------------------------------------------
Init ==
    /\ phase = "scanning" /\ cancelled = FALSE /\ sessions = 1
    /\ loop = [t \in Templates |-> "pending"]
    /\ pos = [t \in Templates |-> 0]
    /\ index = [t \in Templates |-> 0]
    /\ tasks = [t \in Templates |-> {}]
    /\ current = [t \in Templates |-> NoInfo]
    /\ resumeFrom = [t \in Templates |-> NoInfo]
    /\ saved = [t \in Templates |-> NoInfo]
    /\ delivered = {} /\ late = {} /\ passedOver = {} /\ drifted = {} /\ gaps = {}

\* Goroutines run until the process has finished or exited: after SIGINT they
\* go on while the handler closes and saves, and in a program that embeds the
\* engine they outlive a scan that returned when it was cancelled.
Running == phase \in {"scanning", "closed", "left"}

\* Mutant: a template that is done keeps its slot.
StartedTemplates == {t \in Templates : loop[t] \notin {"pending", "admitted"}}

InPool == {t \in Templates : loop[t] \in {"next", "marked", "drain"}}

\* executeTemplateSpray: the context is checked before the next template
\* queues for a slot of the pool, and not again after it.
Admit(t) ==
    /\ Running /\ ~cancelled
    /\ loop[t] = "pending"
    /\ \A u \in Templates : u < t => loop[u] \notin {"pending", "admitted"}
    /\ loop' = [loop EXCEPT ![t] = "admitted"]
    /\ UNCHANGED <<sessionVars, pos, index, tasks, resumeVars, history>>

\* The template gets its slot and registers itself in ResumeCfg.Current.
StartTemplate(t) ==
    /\ Running
    /\ loop[t] = "admitted"
    /\ Cardinality(InPool) < TypeConcurrency
    /\ loop' = [loop EXCEPT ![t] = "next"]
    /\ current' = [current EXCEPT ![t].known = TRUE]
    /\ UNCHANGED <<sessionVars, pos, index, tasks, resumeFrom, saved, history>>

\* Mutant: the end of the targets is missed.
MarkPastTheEnd(t) ==
    /\ Running /\ ~cancelled
    /\ loop[t] = "next" /\ pos[t] <= NumTargets
    /\ loop' = [loop EXCEPT ![t] = "marked"]
    /\ current' = [current EXCEPT ![t].inFlight = @ \cup {index[t]}]
    /\ UNCHANGED <<sessionVars, pos, index, tasks, resumeFrom, saved, history>>

\* Iterate yields a target: its index is marked in flight.
Mark(t) ==
    /\ Running /\ ~cancelled
    /\ loop[t] = "next" /\ pos[t] < NumTargets
    /\ loop' = [loop EXCEPT ![t] = "marked"]
    /\ current' = [current EXCEPT ![t].inFlight = @ \cup {index[t]}]
    /\ UNCHANGED <<sessionVars, pos, index, tasks, resumeFrom, saved, history>>

\* HostErrorsCache.Check: the callback returns, leaving index as it is.
PassOver(t) ==
    /\ Running /\ HostErrors
    /\ loop[t] = "marked"
    /\ loop' = [loop EXCEPT ![t] = "next"]
    /\ pos' = [pos EXCEPT ![t] = @ + 1]
    /\ passedOver' = passedOver \cup {<<t, pos[t]>>}
    /\ drifted' = drifted \cup {t}
    /\ UNCHANGED <<sessionVars, index, tasks, resumeVars, delivered, late, gaps>>

\* wg.Add and go func: the target gets a goroutine, which does nothing for
\* a target an earlier session has taken care of.
Spawn(t) ==
    /\ Running
    /\ loop[t] = "marked"
    /\ Cardinality(tasks[t]) < InputConcurrency
    /\ tasks' = [tasks EXCEPT ![t] = @ \cup
                   {[pos |-> pos[t], index |-> index[t],
                     skip |-> SkipOnResume(t, index[t]), ran |-> FALSE]}]
    /\ loop' = [loop EXCEPT ![t] = "next"]
    /\ pos' = [pos EXCEPT ![t] = @ + 1]
    /\ index' = [index EXCEPT ![t] = @ + 1]
    /\ UNCHANGED <<sessionVars, resumeVars, history>>

\* Iterate is over: no target is left, or the context is done.
EndIterate(t) ==
    /\ Running
    /\ loop[t] = "next" /\ (pos[t] = NumTargets \/ cancelled)
    /\ loop' = [loop EXCEPT ![t] = "drain"]
    /\ UNCHANGED <<sessionVars, pos, index, tasks, resumeVars, history>>

\* template.Executer runs on the target; what it finds is written, for
\* certain only while the scan has neither closed its output nor left.
Execute(t, task) ==
    /\ Running
    /\ task \in tasks[t] /\ ~task.skip /\ ~task.ran
    /\ tasks' = [tasks EXCEPT ![t] = (@ \ {task}) \cup {[task EXCEPT !.ran = TRUE]}]
    /\ IF phase = "scanning"
       THEN delivered' = delivered \cup {<<t, task.pos>>} /\ UNCHANGED late
       ELSE late' = late \cup {<<t, task.pos>>} /\ UNCHANGED delivered
    /\ UNCHANGED <<sessionVars, loop, pos, index, resumeVars, passedOver, drifted, gaps>>

\* The deferred calls: cleanupInFlight, then wg.Done.
EndTask(t, task) ==
    /\ Running
    /\ task \in tasks[t] /\ (task.skip \/ task.ran)
    /\ tasks' = [tasks EXCEPT ![t] = @ \ {task}]
    /\ current' = [current EXCEPT ![t].inFlight = @ \ {task.index}]
    /\ UNCHANGED <<sessionVars, loop, pos, index, resumeFrom, saved, history>>

\* Mutant: the template does not wait for its targets.
CompleteEarly(t) ==
    /\ Running
    /\ loop[t] = "drain"
    /\ loop' = [loop EXCEPT ![t] = "done"]
    /\ current' = [current EXCEPT ![t].completed = TRUE]
    /\ UNCHANGED <<sessionVars, pos, index, tasks, resumeFrom, saved, history>>

\* wg.Wait is over: the template is marked as completed and leaves the pool.
CompleteTemplate(t) ==
    /\ Running
    /\ loop[t] = "drain" /\ tasks[t] = {}
    /\ loop' = [loop EXCEPT ![t] = "done"]
    /\ current' = [current EXCEPT ![t].completed = TRUE]
    /\ UNCHANGED <<sessionVars, pos, index, tasks, resumeFrom, saved, history>>

\* The context is done when the loop comes to the next template: the scan
\* returns without wp.Wait.
LeaveScan ==
    /\ phase = "scanning" /\ cancelled
    /\ \E t \in Templates : loop[t] = "pending"
    /\ \A t \in Templates : loop[t] # "admitted"
    /\ phase' = "left"
    /\ UNCHANGED <<cancelled, sessions, loop, pos, index, tasks, resumeVars, history>>

\* Every template was started and wp.Wait is over: the scan has ended, and
\* with it the process, even under the signal handler.
Finish ==
    /\ phase \in {"scanning", "closed"}
    /\ \A t \in Templates : loop[t] = "done"
    /\ phase' = IF phase = "scanning" THEN "finished" ELSE "cutShort"
    /\ UNCHANGED <<cancelled, sessions, loop, pos, index, tasks, resumeVars, history>>

-----------------------------------------------------------------------------
\* Only a program that embeds the engine cancels the scan; it has neither
\* the signal handler nor a resume file.
Cancel ==
    /\ phase = "scanning" /\ sessions = 1 /\ ~cancelled
    /\ cancelled' = TRUE
    /\ UNCHANGED <<phase, sessions, loop, pos, index, tasks, resumeVars, history>>

\* SIGINT: Runner.Close closes the output first.
Interrupt ==
    /\ phase = "scanning" /\ ~cancelled
    /\ phase' = "closed"
    /\ UNCHANGED <<cancelled, sessions, loop, pos, index, tasks, resumeVars, history>>

\* SaveResumeConfig writes a clone of Current, and the process exits.  The
\* entries are cloned one by one under their own locks; nothing relates two
\* entries, so the snapshot is one step.
SaveResumeConfig ==
    /\ phase = "closed"
    /\ phase' = "exited"
    /\ saved' = current
    /\ gaps' = gaps \cup {t \in Templates : /\ current[t].known
                                            /\ ~current[t].completed
                                            /\ current[t].inFlight = {}}
    /\ UNCHANGED <<cancelled, sessions, loop, pos, index, tasks, current, resumeFrom,
                   delivered, late, passedOver, drifted>>

\* The program is started again with -resume.
Resume ==
    /\ phase = "exited" /\ sessions < MaxSessions
    /\ phase' = "scanning" /\ cancelled' = FALSE /\ sessions' = sessions + 1
    /\ loop' = [t \in Templates |-> "pending"]
    /\ pos' = [t \in Templates |-> 0]
    /\ index' = [t \in Templates |-> 0]
    /\ tasks' = [t \in Templates |-> {}]
    /\ current' = [t \in Templates |-> NoInfo]
    /\ resumeFrom' = [t \in Templates |-> Compile(saved[t])]
    /\ UNCHANGED <<saved, history>>

\* The program ran to its end, or nobody resumes it.
Ended ==
    /\ phase \in {"finished", "left", "cutShort"} \/ (phase = "exited" /\ sessions = MaxSessions)
    /\ UNCHANGED vars

TaskStep(t) == \E task \in tasks[t] : Execute(t, task) \/ EndTask(t, task)

TemplateStep(t) ==
    \/ Admit(t)
    \/ StartTemplate(t)
    \/ Mark(t)
    \/ PassOver(t)
    \/ Spawn(t)
    \/ EndIterate(t)
    \/ CompleteTemplate(t)

Next ==
    \/ \E t \in Templates : TemplateStep(t) \/ TaskStep(t)
    \/ LeaveScan
    \/ Finish
    \/ Cancel
    \/ Interrupt
    \/ SaveResumeConfig
    \/ Resume
    \/ Ended

Spec == Init /\ [][Next]_vars

\* Goroutines are scheduled fairly, and the signal handler gets to its end.
\* A worker's executer ends: every request carries a timeout.
FairSpec == /\ Spec
            /\ \A t \in Templates : WF_vars(TemplateStep(t)) /\ WF_vars(TaskStep(t))
            /\ WF_vars(LeaveScan) /\ WF_vars(Finish) /\ WF_vars(SaveResumeConfig)
-----------------------------------------------------------------------------
(* Properties *)

Settled == delivered \cup late \cup passedOver

Forgetful == drifted \cup gaps

\* A scan that finished, in however many sessions, has run every template on
\* every target, but for the ways the resume file is known to forget some: a
\* template saved while none of its targets was in flight, and one whose
\* indices drifted because a host was passed over.
NothingForgotten ==
    phase \in {"finished", "cutShort"} /\ ~cancelled
        => \A t \in Templates \ Forgetful, p \in Targets : <<t, p>> \in Settled

(***************************************************************************)
(* Why NothingForgotten holds for a template whose indices are positions   *)
(* and that was never saved between two marks.                             *)
(***************************************************************************)
\* What the goroutine of t has left behind is settled or in flight.
ProgressOf(t) ==
    /\ index[t] = pos[t]
    /\ current[t].inFlight \subseteq 0..pos[t]
    /\ loop[t] \in {"pending", "admitted"} =>
           pos[t] = 0 /\ tasks[t] = {} /\ current[t] = NoInfo
    /\ loop[t] = "marked" => pos[t] \in current[t].inFlight /\ pos[t] < NumTargets
    /\ loop[t] \in {"drain", "done"} => pos[t] = NumTargets \/ cancelled
    /\ loop[t] = "done" => tasks[t] = {}
    /\ current[t].completed => loop[t] = "done"
    /\ \A p \in Targets : p < pos[t] =>
           \/ <<t, p>> \in Settled
           \/ \E task \in tasks[t] : task.pos = p

\* A goroutine of t is in flight at the position of its target.
TasksOf(t) ==
    /\ \A task \in tasks[t] :
           /\ task.index = task.pos /\ task.pos < pos[t]
           /\ task.pos \in current[t].inFlight
           /\ task.skip \/ task.ran => <<t, task.pos>> \in Settled
    /\ \A a, b \in tasks[t] : a.pos = b.pos => a = b

\* A target the entry of t takes for processed is settled.
EntryIsTrue(t, info) ==
    \A p \in Targets :
        info.known /\ (info.completed \/ \A m \in info.inFlight : p < m)
            => <<t, p>> \in Settled

ResumeInv ==
    /\ TypeOK
    /\ cancelled => sessions = 1 /\ phase \in {"scanning", "finished", "left"}
    /\ \A t \in Templates \ Forgetful :
           /\ ProgressOf(t)
           /\ TasksOf(t)
           /\ EntryIsTrue(t, resumeFrom[t])
           /\ phase = "exited" => EntryIsTrue(t, saved[t])
    /\ phase \in {"finished", "cutShort"} /\ ~cancelled =>
           \A t \in Templates : loop[t] = "done"

\* "Resume - Target already processed": a target skipped for what the resume
\* file says was processed by an earlier session.
SkippedWasProcessed ==
    \A t \in Templates : \A task \in tasks[t] : task.skip => <<t, task.pos>> \in Settled

\* Every session ends: nothing waits for a slot or a target for ever.
SessionEnds == []<>(phase \in {"finished", "left", "cutShort", "exited"})

\* The pairs a template's loop has come to: behind it, or marked in flight.
Begun == {x \in Pairs : \/ x[2] < pos[x[1]]
                        \/ x[2] = pos[x[1]] /\ loop[x[1]] = "marked"}

\* All sessions together settle the pairs one by one, and none ends before
\* every pair is settled unless the scan has been stopped.  A scan that left
\* when it was cancelled settles what it had begun with and begins with no
\* other pair.
Plan == INSTANCE ScanPlan WITH
            pending <- Pairs \ Settled,
            begun <- Begun,
            ended <- phase \in {"finished", "left", "cutShort", "exited"},
            stopped <- cancelled \/ sessions > 1 \/ phase \in {"closed", "cutShort", "exited"}
ImplementsPlan == Plan!Spec

\* Why a first session that nobody stops settles every pair: no target is
\* taken for processed, drifted indices or not, and each has its goroutine.
FirstOf(t) ==
    /\ ~resumeFrom[t].known
    /\ loop[t] \in {"drain", "done"} => pos[t] = NumTargets \/ cancelled
    /\ loop[t] = "done" => tasks[t] = {}
    /\ \A task \in tasks[t] : ~task.skip /\ (task.ran => <<t, task.pos>> \in Settled)
    /\ \A p \in Targets : p < pos[t] =>
           \/ <<t, p>> \in Settled
           \/ \E task \in tasks[t] : task.pos = p

FirstSession == sessions = 1 => \A t \in Templates : FirstOf(t)
=============================================================================
