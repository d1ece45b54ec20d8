------------------------- MODULE TemplateSprayProofs -------------------------
(***************************************************************************)
(* For any number of templates, targets, slots and sessions: the types of  *)
(* the scan and of its resume file, and that a scan which finished forgot  *)
(* nothing of a template but in the two ways NothingForgotten names; and   *)
(* that TemplateSpray keeps what ScanPlan promises, but for fairness: pairs *)
(* are settled one by one and no session ends before all are unless it was *)
(* stopped.  A scan that left when it was cancelled begins with no other   *)
(* pair.                                                                   *)
(***************************************************************************)
EXTENDS TemplateSpray, TLAPS

\* A target of the template that has a goroutine is behind the loop.
TasksArePast(t) == \A task \in tasks[t] : task.pos < pos[t]

\* The types, with what keeps positions and indices in their range: a target
\* has a goroutine only when the loop is past it.  Only a cancelled scan
\* leaves.
Typing ==
    /\ TypeOK
    /\ phase = "left" => cancelled
    /\ \A t \in Templates : TasksArePast(t)
    /\ \A t \in Templates : /\ index[t] <= pos[t]
                            /\ loop[t] = "marked" => pos[t] < NumTargets

\* A template the resume file does not know has an empty entry.
LEMMA NoInfoTypes == NoInfo \in Info
BY DEF Info, NoInfo

\* A target goroutine is started for a target, at an index in range.
LEMMA SpawnTypes ==
    ASSUME Typing, NEW t \in Templates, Spawn(t)
    PROVE  Typing'
<1> USE SprayAssumption
<1>1. /\ pos[t] \in Targets /\ index[t] \in Targets
      /\ pos[t] + 1 \in Indices /\ index[t] + 1 \in Indices
      /\ index[t] + 1 <= pos[t] + 1
  BY DEF Spawn, Typing, TypeOK, Targets, Indices
<1>2. SkipOnResume(t, index[t]) \in BOOLEAN
  BY DEF SkipOnResume, Typing, TypeOK, Info
<1>3. [pos |-> pos[t], index |-> index[t],
       skip |-> SkipOnResume(t, index[t]), ran |-> FALSE] \in Task
  BY <1>1, <1>2 DEF Task, Targets, Indices
<1>4. tasks' \in [Templates -> SUBSET Task]
  BY <1>3 DEF Spawn, Typing, TypeOK
<1>5. /\ UNCHANGED <<phase, cancelled>> /\ pos'[t] = pos[t] + 1
      /\ \A u \in Templates \ {t} : tasks'[u] = tasks[u] /\ pos'[u] = pos[u]
      /\ \A task \in tasks'[t] : task \in tasks[t] \/ task.pos = pos[t]
  BY DEF Spawn, Typing, TypeOK, sessionVars
<1>6. \A task \in tasks[t] : task.pos \in Nat /\ task.pos < pos[t]
  BY DEF Typing, TypeOK, TasksArePast, Task, Targets
<1>7. pos[t] \in Nat
  BY <1>1 DEF Targets
<1>8. TasksArePast(t)'
  BY <1>5, <1>6, <1>7 DEF TasksArePast
<1>9. \A u \in Templates : TasksArePast(u)'
  BY <1>5, <1>8 DEF TasksArePast, Typing
<1> QED
  BY <1>1, <1>4, <1>5, <1>9 DEF Spawn, Typing, TypeOK, sessionVars, resumeVars, history

\* A step that adds no goroutine and no loop goes back leaves them behind it.
LEMMA TasksStayPast ==
    ASSUME Typing, \A t \in Templates : pos[t] <= pos'[t],
           \A t \in Templates : pos'[t] \in Nat,
           \A t \in Templates : \A task \in tasks'[t] :
               \E old \in tasks[t] : task.pos = old.pos
    PROVE  \A t \in Templates : TasksArePast(t)'
<1> SUFFICES ASSUME NEW t \in Templates, NEW task \in tasks'[t]
             PROVE  task.pos < pos'[t]
  BY DEF TasksArePast
<1>1. PICK old \in tasks[t] : task.pos = old.pos
  OBVIOUS
<1>2. old.pos \in Nat /\ pos[t] \in Nat /\ old.pos < pos[t]
  BY SprayAssumption DEF Typing, TypeOK, TasksArePast, Task, Targets, Indices
<1> QED
  BY <1>1, <1>2

\* Loops and entries of their types, of which only loops with a target left
\* have it marked.
LoopStates(loops, entries) ==
    /\ loops \in [Templates -> {"pending", "admitted", "next", "marked", "drain", "done"}]
    /\ entries \in [Templates -> Info]
    /\ \A t \in Templates : loops[t] = "marked" => pos[t] < NumTargets

\* A step that moves loops and changes entries, and nothing else, keeps the
\* typing.
LEMMA LoopTypes ==
    ASSUME Typing, LoopStates(loop', current'),
           UNCHANGED <<sessionVars, pos, index, tasks, resumeFrom, saved, history>>
    PROVE  Typing'
<1>1. TypeOK'
  BY DEF LoopStates, Typing, TypeOK, sessionVars, history
<1>2. /\ phase' = "left" => cancelled'
      /\ \A t \in Templates : TasksArePast(t)'
  BY DEF Typing, TasksArePast, sessionVars
<1>3. \A t \in Templates : /\ index'[t] <= pos'[t]
                           /\ loop'[t] = "marked" => pos'[t] < NumTargets
  BY DEF LoopStates, Typing
<1> QED
  BY <1>1, <1>2, <1>3 DEF Typing

\* Every action leaves the scan and the resume file with values of their types.
LEMMA TypingStep ==
    ASSUME Typing, [Next]_vars
    PROVE  Typing'
<1> USE SprayAssumption
<1>1. ASSUME NEW t \in Templates, Admit(t) \/ EndIterate(t)
      PROVE  Typing'
  <2>1. LoopStates(loop', current')
    BY <1>1 DEF Admit, EndIterate, LoopStates, Typing, TypeOK, resumeVars
  <2> QED
    BY <1>1, <2>1, LoopTypes DEF Admit, EndIterate, resumeVars
<1>2. ASSUME NEW t \in Templates, StartTemplate(t)
      PROVE  Typing'
  <2>1. current' \in [Templates -> Info]
    <3>1. current[t] \in Info
      BY DEF Typing, TypeOK
    <3>2. [current[t] EXCEPT !.known = TRUE] \in Info
      BY <3>1 DEF Info
    <3> QED
      BY <1>2, <3>2 DEF StartTemplate, Typing, TypeOK
  <2>2. LoopStates(loop', current')
    BY <1>2, <2>1 DEF StartTemplate, LoopStates, Typing, TypeOK
  <2> QED
    BY <1>2, <2>2, LoopTypes DEF StartTemplate
<1>3. ASSUME NEW t \in Templates, CompleteTemplate(t)
      PROVE  Typing'
  <2>1. current' \in [Templates -> Info]
    <3>1. current[t] \in Info
      BY DEF Typing, TypeOK
    <3>2. [current[t] EXCEPT !.completed = TRUE] \in Info
      BY <3>1 DEF Info
    <3> QED
      BY <1>3, <3>2 DEF CompleteTemplate, Typing, TypeOK
  <2>2. LoopStates(loop', current')
    BY <1>3, <2>1 DEF CompleteTemplate, LoopStates, Typing, TypeOK
  <2> QED
    BY <1>3, <2>2, LoopTypes DEF CompleteTemplate
<1>4. ASSUME NEW t \in Templates, Mark(t)
      PROVE  Typing'
  <2>1. current' \in [Templates -> Info]
    <3>1. current[t] \in Info /\ index[t] \in Indices
      BY DEF Typing, TypeOK
    <3>2. [current[t] EXCEPT !.inFlight = @ \cup {index[t]}] \in Info
      BY <3>1 DEF Info
    <3> QED
      BY <1>4, <3>2 DEF Mark, Typing, TypeOK
  <2>2. LoopStates(loop', current')
    BY <1>4, <2>1 DEF Mark, LoopStates, Typing, TypeOK
  <2> QED
    BY <1>4, <2>2, LoopTypes DEF Mark
<1>5. ASSUME NEW t \in Templates, PassOver(t)
      PROVE  Typing'
  <2>1. pos[t] \in Targets /\ pos[t] + 1 \in Indices /\ index[t] <= pos[t] + 1
    BY <1>5 DEF PassOver, Typing, TypeOK, Targets, Indices
  <2>2. /\ UNCHANGED <<phase, cancelled, tasks>> /\ pos'[t] = pos[t] + 1
        /\ \A u \in Templates \ {t} : pos'[u] = pos[u]
        /\ \A u \in Templates : pos[u] \in Nat
    BY <1>5 DEF PassOver, Typing, TypeOK, Indices, sessionVars
  <2>3. \A u \in Templates : TasksArePast(u)'
    BY <2>2, TasksStayPast
  <2> QED
    BY <1>5, <2>1, <2>2, <2>3 DEF PassOver, Typing, TypeOK, Pairs, sessionVars, resumeVars
<1>6. ASSUME NEW t \in Templates, NEW task \in tasks[t], Execute(t, task)
      PROVE  Typing'
  <2>1. task \in Task /\ [task EXCEPT !.ran = TRUE] \in Task
    <3>1. task \in Task
      BY <1>6 DEF Typing, TypeOK
    <3> QED
      BY <3>1 DEF Task
  <2>2. tasks' \in [Templates -> SUBSET Task]
    BY <1>6, <2>1 DEF Execute, Typing, TypeOK
  <2>3. <<t, task.pos>> \in Pairs
    BY <2>1 DEF Task, Pairs
  <2>4. \A u \in Templates : TasksArePast(u)'
    <3>1. /\ pos' = pos /\ [task EXCEPT !.ran = TRUE].pos = task.pos
          /\ tasks'[t] = (tasks[t] \ {task}) \cup {[task EXCEPT !.ran = TRUE]}
          /\ \A u \in Templates \ {t} : tasks'[u] = tasks[u]
          /\ \A u \in Templates : pos[u] \in Nat
      BY <1>6, <2>1 DEF Execute, Typing, TypeOK, Task, Indices
    <3>2. /\ \A u \in Templates : pos[u] <= pos'[u] /\ pos'[u] \in Nat
          /\ \A u \in Templates \ {t} : \A other \in tasks'[u] : other \in tasks[u]
      BY <3>1
    <3>3. \A other \in tasks'[t] : other \in tasks[t] \/ other.pos = task.pos
      BY <3>1
    <3> QED
      BY <1>6, <3>2, <3>3, TasksStayPast
  <2> QED
    BY <1>6, <2>2, <2>3, <2>4 DEF Execute, Typing, TypeOK, sessionVars, resumeVars
<1>7. ASSUME NEW t \in Templates, NEW task \in tasks[t], EndTask(t, task)
      PROVE  Typing'
  <2>1. \A u \in Templates : TasksArePast(u)'
    <3>1. /\ pos' = pos /\ \A u \in Templates : tasks'[u] \subseteq tasks[u]
          /\ \A u \in Templates : pos[u] \in Nat
      BY <1>7 DEF EndTask, Typing, TypeOK, Indices
    <3>2. /\ \A u \in Templates : pos[u] <= pos'[u] /\ pos'[u] \in Nat
          /\ \A u \in Templates : \A other \in tasks'[u] : other \in tasks[u]
      BY <3>1
    <3> QED
      BY <3>2, TasksStayPast
  <2> QED
    BY <1>7, <2>1 DEF EndTask, Typing, TypeOK, Info, sessionVars, history
<1>8. ASSUME LeaveScan \/ Finish \/ Cancel \/ Interrupt
      PROVE  Typing'
  BY <1>8 DEF LeaveScan, Finish, Cancel, Interrupt, Typing, TasksArePast, TypeOK, resumeVars, history
<1>9. ASSUME SaveResumeConfig
      PROVE  Typing'
  BY <1>9 DEF SaveResumeConfig, Typing, TasksArePast, TypeOK
<1>10. ASSUME Resume
       PROVE  Typing'
  <2>1. \A info \in Info : Compile(info) \in Info
    BY DEF Compile, Info
  <2>2. resumeFrom' \in [Templates -> Info] /\ current' \in [Templates -> Info]
    BY <1>10, <2>1, NoInfoTypes DEF Resume, Typing, TypeOK
  <2>3. /\ loop' \in [Templates -> {"pending", "admitted", "next", "marked", "drain", "done"}]
        /\ pos' \in [Templates -> Indices] /\ index' \in [Templates -> Indices]
        /\ tasks' \in [Templates -> SUBSET Task]
    BY <1>10 DEF Resume, Indices
  <2>4. /\ phase' = "scanning" /\ cancelled' = FALSE /\ sessions' \in 1..MaxSessions
        /\ \A t \in Templates : /\ index'[t] <= pos'[t] /\ loop'[t] = "pending"
                                /\ tasks'[t] = {}
    BY <1>10 DEF Resume, Typing, TypeOK
  <2> QED
    BY <1>10, <2>2, <2>3, <2>4 DEF Resume, Typing, TasksArePast, TypeOK, history
<1>11. ASSUME Ended \/ UNCHANGED vars
       PROVE  Typing'
  BY <1>11 DEF Ended, vars, Typing, TasksArePast, TypeOK
<1> QED
  BY <1>1, <1>2, <1>3, <1>4, <1>5, SpawnTypes, <1>6, <1>7, <1>8, <1>9, <1>10, <1>11
     DEF Next, TemplateStep, TaskStep

\* A scan starts with values of their types.
LEMMA InitTypes ==
    ASSUME Init
    PROVE  Typing
<1>1. resumeFrom \in [Templates -> Info] /\ current \in [Templates -> Info]
      /\ saved \in [Templates -> Info]
  BY NoInfoTypes DEF Init
<1>2. /\ loop \in [Templates -> {"pending", "admitted", "next", "marked", "drain", "done"}]
      /\ pos \in [Templates -> Indices] /\ index \in [Templates -> Indices]
      /\ tasks \in [Templates -> SUBSET Task]
      /\ \A t \in Templates : index[t] <= pos[t] /\ loop[t] = "pending" /\ tasks[t] = {}
  BY SprayAssumption DEF Init, Indices
<1>3. /\ phase = "scanning" /\ cancelled = FALSE /\ sessions = 1
      /\ delivered = {} /\ late = {} /\ passedOver = {} /\ drifted = {} /\ gaps = {}
  BY DEF Init
<1>4. cancelled \in BOOLEAN
  BY <1>3
<1>5. sessions \in 1..MaxSessions
  BY <1>3, SprayAssumption
<1>6. TypeOK
  BY <1>1, <1>2, <1>3, <1>4, <1>5 DEF TypeOK
<1> QED
  BY <1>2, <1>3, <1>6 DEF Typing, TasksArePast

\* The typing that holds by itself, and the types that follow from it.
LEMMA TypingInvariant == Spec => []Typing
BY InitTypes, TypingStep, PTL DEF Spec

\* The scan and its resume file hold values of their types in every state.
THEOREM SprayTypes == Spec => []TypeOK
<1>1. Typing => TypeOK
  BY DEF Typing
<1> QED
  BY <1>1, TypingInvariant, PTL

-----------------------------------------------------------------------------
\* A template keeps its part of the invariant while none of its goroutines
\* takes a step.
LEMMA Frame ==
    ASSUME NEW t \in Templates, ProgressOf(t), TasksOf(t),
           UNCHANGED <<loop[t], pos[t], index[t], tasks[t], current[t]>>,
           Settled \subseteq Settled', cancelled => cancelled'
    PROVE  ProgressOf(t)' /\ TasksOf(t)'
<1>1. ProgressOf(t)'
  BY DEF ProgressOf
<1>2. TasksOf(t)'
  BY DEF TasksOf
<1> QED
  BY <1>1, <1>2

\* What a resume entry takes for processed stays settled.
LEMMA EntryStaysTrue ==
    ASSUME NEW t \in Templates, NEW info \in Info, EntryIsTrue(t, info),
           Settled \subseteq Settled'
    PROVE  \A p \in Targets :
               info.known /\ (info.completed \/ \A m \in info.inFlight : p < m)
                   => <<t, p>> \in Settled'
BY DEF EntryIsTrue

\* A step of one template's goroutines keeps the invariant if it keeps that
\* template's part of it.
LEMMA TemplateFrame ==
    ASSUME ResumeInv, TypeOK', Running, NEW t \in Templates,
           UNCHANGED <<phase, cancelled, sessions, resumeFrom, saved>>,
           \A u \in Templates \ {t} :
               UNCHANGED <<loop[u], pos[u], index[u], tasks[u], current[u]>>,
           Settled \subseteq Settled', Forgetful \subseteq Forgetful',
           t \notin Forgetful' => ProgressOf(t)' /\ TasksOf(t)'
    PROVE  ResumeInv'
<1>1. ASSUME NEW u \in Templates \ Forgetful'
      PROVE  ProgressOf(u)' /\ TasksOf(u)' /\ EntryIsTrue(u, resumeFrom[u])'
  <2>1. u \in Templates \ Forgetful /\ resumeFrom[u] \in Info
    BY <1>1 DEF ResumeInv, TypeOK
  <2>2. EntryIsTrue(u, resumeFrom[u])'
    BY <2>1, EntryStaysTrue DEF ResumeInv, EntryIsTrue
  <2>3. CASE u = t
    BY <1>1, <2>2, <2>3
  <2>4. CASE u # t
    BY <2>1, <2>2, <2>4, Frame DEF ResumeInv
  <2> QED
    BY <2>3, <2>4
<1>2. /\ phase' \notin {"exited", "finished", "cutShort"}
      /\ cancelled' => sessions' = 1 /\ phase' \in {"scanning", "left"}
  BY DEF Running, ResumeInv
<1> QED
  BY <1>1, <1>2 DEF ResumeInv

\* Queueing for a slot, taking it, leaving the loop and being done.
LEMMA LoopStepsKeep ==
    ASSUME ResumeInv, Typing, TypeOK', NEW t \in Templates,
           Admit(t) \/ StartTemplate(t) \/ EndIterate(t) \/ CompleteTemplate(t)
    PROVE  ResumeInv'
<1>1. /\ Running /\ UNCHANGED <<phase, cancelled, sessions, resumeFrom, saved>>
      /\ \A u \in Templates \ {t} :
             UNCHANGED <<loop[u], pos[u], index[u], tasks[u], current[u]>>
      /\ Settled' = Settled /\ Forgetful' = Forgetful
      /\ UNCHANGED <<pos, index, tasks>>
  BY DEF Admit, StartTemplate, EndIterate, CompleteTemplate, ResumeInv, TypeOK,
         sessionVars, resumeVars, history, Settled, Forgetful
<1>2. ASSUME t \notin Forgetful
      PROVE  ProgressOf(t)'
  <2>1. ProgressOf(t) /\ pos[t] \in Indices /\ current[t] \in Info
    BY <1>2 DEF ResumeInv, TypeOK
  <2>2. CASE Admit(t)
    BY <2>1, <2>2, <1>1 DEF Admit, ProgressOf, ResumeInv, TypeOK, resumeVars
  <2>3. CASE StartTemplate(t)
    <3>1. /\ loop'[t] = "next" /\ pos[t] = 0 /\ current'[t].inFlight = {}
          /\ ~current'[t].completed /\ index[t] = pos[t]
      BY <2>1, <2>3 DEF StartTemplate, ProgressOf, NoInfo, ResumeInv, TypeOK
    <3> QED
      BY <3>1, <1>1 DEF ProgressOf, Targets
  <2>4. CASE EndIterate(t)
    <3>1. /\ loop[t] = "next" /\ loop'[t] = "drain" /\ current' = current
          /\ pos[t] = NumTargets \/ cancelled
      BY <2>4 DEF EndIterate, ResumeInv, TypeOK, resumeVars
    <3> QED
      BY <3>1, <2>1, <1>1 DEF ProgressOf
  <2>5. CASE CompleteTemplate(t)
    <3>1. /\ loop[t] = "drain" /\ loop'[t] = "done" /\ tasks[t] = {}
          /\ current'[t].inFlight = current[t].inFlight
      BY <2>5 DEF CompleteTemplate, ResumeInv, TypeOK, Info
    <3> QED
      BY <3>1, <2>1, <1>1 DEF ProgressOf
  <2> QED
    BY <2>2, <2>3, <2>4, <2>5
<1>3. ASSUME t \notin Forgetful
      PROVE  TasksOf(t)'
  <2>1. \/ current'[t].inFlight = current[t].inFlight
        \/ tasks[t] = {}
    BY <1>3 DEF Admit, StartTemplate, EndIterate, CompleteTemplate, ResumeInv,
                TypeOK, Info, ProgressOf, resumeVars
  <2> QED
    BY <1>1, <1>3, <2>1 DEF TasksOf, ResumeInv
<1> QED
  BY <1>1, <1>2, <1>3, TemplateFrame

\* A target is marked in flight before anything is done with it.
LEMMA MarkKeeps ==
    ASSUME ResumeInv, Typing, TypeOK', NEW t \in Templates, Mark(t)
    PROVE  ResumeInv'
<1>1. /\ Running /\ UNCHANGED <<phase, cancelled, sessions, resumeFrom, saved>>
      /\ \A u \in Templates \ {t} :
             UNCHANGED <<loop[u], pos[u], index[u], tasks[u], current[u]>>
      /\ Settled' = Settled /\ Forgetful' = Forgetful
      /\ UNCHANGED <<pos, index, tasks>>
      /\ loop[t] = "next" /\ loop'[t] = "marked" /\ pos[t] < NumTargets
      /\ current'[t].inFlight = current[t].inFlight \cup {index[t]}
      /\ current'[t].completed = current[t].completed
      /\ pos[t] \in Nat
  BY SprayAssumption
     DEF Mark, ResumeInv, TypeOK, Info, Indices, sessionVars, history, Settled, Forgetful
<1>2. ASSUME t \notin Forgetful
      PROVE  ProgressOf(t)' /\ TasksOf(t)'
  <2>1. ProgressOf(t) /\ TasksOf(t)
    BY <1>2 DEF ResumeInv
  <2>2. ProgressOf(t)'
    BY <2>1, <1>1 DEF ProgressOf
  <2>3. TasksOf(t)'
    BY <2>1, <1>1 DEF TasksOf
  <2> QED
    BY <2>2, <2>3
<1> QED
  BY <1>1, <1>2, TemplateFrame

\* A target that is passed over makes its template one of the forgetful.
LEMMA PassOverKeeps ==
    ASSUME ResumeInv, Typing, TypeOK', NEW t \in Templates, PassOver(t)
    PROVE  ResumeInv'
<1>1. /\ Running /\ UNCHANGED <<phase, cancelled, sessions, resumeFrom, saved>>
      /\ \A u \in Templates \ {t} :
             UNCHANGED <<loop[u], pos[u], index[u], tasks[u], current[u]>>
      /\ Settled \subseteq Settled' /\ Forgetful \subseteq Forgetful'
      /\ t \in Forgetful'
  BY DEF PassOver, ResumeInv, TypeOK, sessionVars, resumeVars, Settled, Forgetful
<1> QED
  BY <1>1, TemplateFrame

\* The goroutine of a target is in flight at its position, and skips the
\* target only if an earlier session settled it.
LEMMA SpawnKeeps ==
    ASSUME ResumeInv, Typing, TypeOK', NEW t \in Templates, Spawn(t)
    PROVE  ResumeInv'
<1> DEFINE new == [pos |-> pos[t], index |-> index[t],
                   skip |-> SkipOnResume(t, index[t]), ran |-> FALSE]
<1>1. /\ Running /\ UNCHANGED <<phase, cancelled, sessions, resumeFrom, saved, current>>
      /\ \A u \in Templates \ {t} :
             UNCHANGED <<loop[u], pos[u], index[u], tasks[u], current[u]>>
      /\ Settled' = Settled /\ Forgetful' = Forgetful
      /\ loop[t] = "marked" /\ loop'[t] = "next"
      /\ pos'[t] = pos[t] + 1 /\ index'[t] = index[t] + 1
      /\ tasks'[t] = tasks[t] \cup {new}
      /\ pos[t] \in Nat /\ pos[t] \in Targets
  BY SprayAssumption
     DEF Spawn, ResumeInv, Typing, TypeOK, Targets, Indices, sessionVars, resumeVars,
         history, Settled, Forgetful
<1>2. ASSUME t \notin Forgetful
      PROVE  ProgressOf(t)' /\ TasksOf(t)'
  <2>1. ProgressOf(t) /\ TasksOf(t) /\ EntryIsTrue(t, resumeFrom[t])
    BY <1>2 DEF ResumeInv
  <2>2. new.skip => <<t, new.pos>> \in Settled
    BY <2>1, <1>1 DEF SkipOnResume, EntryIsTrue, ProgressOf
  <2>3. ProgressOf(t)'
    <3>1. \A p \in Targets : p < pos[t] + 1 => p < pos[t] \/ p = new.pos
      BY <1>1 DEF Targets
    <3>2. \A p \in Targets : p < pos'[t] =>
              <<t, p>> \in Settled' \/ \E task \in tasks'[t] : task.pos = p
      BY <3>1, <2>1, <1>1 DEF ProgressOf
    <3>3. current'[t].inFlight \subseteq 0..pos'[t]
      BY <2>1, <1>1 DEF ProgressOf
    <3> QED
      BY <3>2, <3>3, <2>1, <1>1 DEF ProgressOf
  <2>4. TasksOf(t)'
    <3>1. \A task \in tasks[t] : task.pos \in Nat /\ task.pos < pos[t]
      <4>1. \A task \in tasks[t] : task.pos \in Targets
        BY DEF ResumeInv, TypeOK, Task
      <4>2. \A task \in tasks[t] : task.pos < pos[t]
        BY <2>1 DEF TasksOf
      <4>3. Targets \subseteq Nat
        BY SprayAssumption DEF Targets
      <4> QED
        BY <4>1, <4>2, <4>3
    <3>2. new.index = new.pos /\ new.pos < pos'[t] /\ new.pos \in current'[t].inFlight
      BY <2>1, <1>1 DEF ProgressOf
    <3>3. \A task \in tasks'[t] :
             /\ task.index = task.pos /\ task.pos < pos'[t]
             /\ task.pos \in current'[t].inFlight
             /\ task.skip \/ task.ran => <<t, task.pos>> \in Settled'
      BY <3>1, <3>2, <2>1, <2>2, <1>1 DEF TasksOf
    <3>4. \A a, b \in tasks'[t] : a.pos = b.pos => a = b
      <4>1. \A task \in tasks[t] : task.pos # new.pos
        BY <3>1, <1>1
      <4>2. \A a, b \in tasks[t] : a.pos = b.pos => a = b
        BY <2>1 DEF TasksOf
      <4> HIDE DEF new
      <4> QED
        BY <4>1, <4>2, <1>1
    <3> QED
      BY <3>3, <3>4 DEF TasksOf
  <2> QED
    BY <2>3, <2>4
<1> QED
  BY <1>1, <1>2, TemplateFrame

\* Running the template settles its target.
LEMMA ExecuteKeeps ==
    ASSUME ResumeInv, TypeOK', NEW t \in Templates, NEW task \in tasks[t],
           Execute(t, task)
    PROVE  ResumeInv'
<1> DEFINE ran == [task EXCEPT !.ran = TRUE]
<1>1. /\ Running /\ UNCHANGED <<phase, cancelled, sessions, resumeFrom, saved, current>>
      /\ UNCHANGED <<loop, pos, index>>
      /\ \A u \in Templates \ {t} :
             UNCHANGED <<loop[u], pos[u], index[u], tasks[u], current[u]>>
      /\ Settled \subseteq Settled' /\ Forgetful' = Forgetful
      /\ <<t, task.pos>> \in Settled'
      /\ tasks'[t] = (tasks[t] \ {task}) \cup {ran}
  BY DEF Execute, ResumeInv, TypeOK, sessionVars, resumeVars, Settled, Forgetful
<1>2. task \in Task
  BY DEF ResumeInv, TypeOK
<1>3. ran.pos = task.pos /\ ran.index = task.index
  BY <1>2 DEF Task
<1>4. ASSUME t \notin Forgetful
      PROVE  ProgressOf(t)' /\ TasksOf(t)'
  <2>1. ProgressOf(t) /\ TasksOf(t)
    BY <1>4 DEF ResumeInv
  <2> HIDE DEF ran
  <2>2. ProgressOf(t)'
    <3>1. loop[t] # "done"
      BY <2>1 DEF ProgressOf
    <3>2. loop[t] \notin {"pending", "admitted"}
      BY <2>1 DEF ProgressOf
    <3>3. \A p \in Targets : p < pos[t] =>
              <<t, p>> \in Settled' \/ \E task_1 \in tasks'[t] : task_1.pos = p
      BY <2>1, <1>1, <1>3 DEF ProgressOf
    <3> QED
      BY <3>1, <3>2, <3>3, <2>1, <1>1 DEF ProgressOf
  <2>3. TasksOf(t)'
    BY <2>1, <1>1, <1>3 DEF TasksOf
  <2> QED
    BY <2>2, <2>3
<1> QED
  BY <1>1, <1>4, TemplateFrame

\* A target leaves the ones in flight once it is settled, and no other does.
LEMMA EndTaskKeeps ==
    ASSUME ResumeInv, TypeOK', NEW t \in Templates, NEW task \in tasks[t],
           EndTask(t, task)
    PROVE  ResumeInv'
<1>1. /\ Running /\ UNCHANGED <<phase, cancelled, sessions, resumeFrom, saved>>
      /\ UNCHANGED <<loop, pos, index>>
      /\ \A u \in Templates \ {t} :
             UNCHANGED <<loop[u], pos[u], index[u], tasks[u], current[u]>>
      /\ Settled' = Settled /\ Forgetful' = Forgetful
      /\ task.skip \/ task.ran
      /\ tasks'[t] = tasks[t] \ {task}
      /\ current'[t].inFlight = current[t].inFlight \ {task.index}
      /\ current'[t].completed = current[t].completed
  BY DEF EndTask, ResumeInv, TypeOK, Info, sessionVars, history, Settled, Forgetful
<1>2. ASSUME t \notin Forgetful
      PROVE  ProgressOf(t)' /\ TasksOf(t)'
  <2>1. ProgressOf(t) /\ TasksOf(t)
    BY <1>2 DEF ResumeInv
  <2>2. /\ <<t, task.pos>> \in Settled /\ task.index = task.pos /\ task.pos < pos[t]
        /\ \A other \in tasks[t] \ {task} : other.pos # task.index
    BY <2>1, <1>1 DEF TasksOf
  <2>3. ProgressOf(t)'
    <3>1. loop[t] \notin {"done", "pending", "admitted"}
      BY <2>1 DEF ProgressOf
    <3>2. loop[t] = "marked" => pos[t] \in current'[t].inFlight
      <4>1. pos[t] \in Nat
        BY DEF ResumeInv, TypeOK, Indices
      <4> QED
        BY <4>1, <2>1, <2>2, <1>1 DEF ProgressOf
    <3>3. \A p \in Targets : p < pos[t] =>
              <<t, p>> \in Settled' \/ \E other \in tasks'[t] : other.pos = p
      BY <2>1, <2>2, <1>1 DEF ProgressOf
    <3> QED
      BY <3>1, <3>2, <3>3, <2>1, <1>1 DEF ProgressOf
  <2>4. TasksOf(t)'
    BY <2>1, <2>2, <1>1 DEF TasksOf
  <2> QED
    BY <2>3, <2>4
<1> QED
  BY <1>1, <1>2, TemplateFrame

\* The return of the scan, its cancellation and SIGINT touch no template.
LEMMA ProcessStepsKeep ==
    ASSUME ResumeInv, TypeOK', LeaveScan \/ Finish \/ Cancel \/ Interrupt
    PROVE  ResumeInv'
<1>1. /\ UNCHANGED <<loop, pos, index, tasks, current, resumeFrom, saved>>
      /\ Settled' = Settled /\ Forgetful' = Forgetful
      /\ cancelled => cancelled'
      /\ phase' # "exited"
  BY DEF LeaveScan, Finish, Cancel, Interrupt, resumeVars, history, Settled, Forgetful
<1>2. ASSUME NEW t \in Templates \ Forgetful'
      PROVE  ProgressOf(t)' /\ TasksOf(t)' /\ EntryIsTrue(t, resumeFrom[t])'
  <2>1. ProgressOf(t) /\ TasksOf(t) /\ EntryIsTrue(t, resumeFrom[t])
    BY <1>1, <1>2 DEF ResumeInv
  <2>2. EntryIsTrue(t, resumeFrom[t])'
    BY <2>1, <1>1 DEF EntryIsTrue
  <2> QED
    BY <1>1, <2>1, <2>2, Frame
<1>3. cancelled' => sessions' = 1 /\ phase' \in {"scanning", "finished", "left"}
  <2>1. CASE LeaveScan
    BY <2>1 DEF LeaveScan, ResumeInv
  <2>2. CASE Finish
    <3>1. SUFFICES ASSUME cancelled' PROVE sessions' = 1 /\ phase' = "finished"
      OBVIOUS
    <3>2. cancelled /\ sessions' = sessions
      BY <2>2, <3>1 DEF Finish
    <3>3. sessions = 1 /\ phase = "scanning"
      BY <2>2, <3>2 DEF Finish, ResumeInv
    <3> QED
      BY <2>2, <3>2, <3>3 DEF Finish
  <2>3. CASE Cancel
    BY <2>3 DEF Cancel
  <2>4. CASE Interrupt
    BY <2>4 DEF Interrupt
  <2> QED
    BY <2>1, <2>2, <2>3, <2>4
<1>4. phase' \in {"finished", "cutShort"} /\ ~cancelled' =>
          \A t \in Templates : loop'[t] = "done"
  BY <1>1 DEF LeaveScan, Finish, Cancel, Interrupt, ResumeInv
<1> QED
  BY <1>1, <1>2, <1>3, <1>4 DEF ResumeInv

\* What is saved of a template takes only settled targets for processed,
\* unless the template is saved between two marks.
LEMMA SaveKeeps ==
    ASSUME ResumeInv, TypeOK', SaveResumeConfig
    PROVE  ResumeInv'
<1>1. /\ UNCHANGED <<loop, pos, index, tasks, current, resumeFrom, cancelled>>
      /\ saved' = current /\ phase' = "exited"
      /\ Settled' = Settled /\ Forgetful \subseteq Forgetful'
      /\ \A t \in Templates \ Forgetful' :
             ~current[t].known \/ current[t].completed \/ current[t].inFlight # {}
  BY DEF SaveResumeConfig, Settled, Forgetful
<1>2. ASSUME NEW t \in Templates \ Forgetful'
      PROVE  ProgressOf(t)' /\ TasksOf(t)' /\ EntryIsTrue(t, resumeFrom[t])'
  <2>1. ProgressOf(t) /\ TasksOf(t) /\ EntryIsTrue(t, resumeFrom[t])
    BY <1>1, <1>2 DEF ResumeInv
  <2>2. EntryIsTrue(t, resumeFrom[t])'
    BY <2>1, <1>1 DEF EntryIsTrue
  <2> QED
    BY <1>1, <2>1, <2>2, Frame
<1>3. ASSUME NEW t \in Templates \ Forgetful', ~cancelled
      PROVE  EntryIsTrue(t, saved[t])'
  <2>1. ProgressOf(t) /\ TasksOf(t)
    BY <1>1, <1>3 DEF ResumeInv
  <2>2. pos[t] \in Nat /\ Targets \subseteq Nat /\ \A p \in Targets : p < NumTargets
    BY SprayAssumption DEF ResumeInv, TypeOK, Indices, Targets
  <2>3. SUFFICES ASSUME NEW p \in Targets, current[t].known,
                        current[t].completed \/ \A m \in current[t].inFlight : p < m
                 PROVE  <<t, p>> \in Settled
    BY <1>1 DEF EntryIsTrue
  <2>4. CASE current[t].completed
    BY <2>1, <2>2, <2>4, <1>3 DEF ProgressOf
  <2>5. CASE ~current[t].completed
    <3>1. PICK m \in current[t].inFlight : p < m
      BY <1>1, <1>3, <2>3, <2>5
    <3>2. m \in 0..pos[t]
      BY <2>1 DEF ProgressOf
    <3>3. p < pos[t]
      BY <2>2, <3>1, <3>2
    <3>4. \A task \in tasks[t] : task.pos # p
      <4>1. p \notin current[t].inFlight
        BY <2>2, <2>3, <2>5
      <4> QED
        BY <4>1, <2>1 DEF TasksOf
    <3> QED
      BY <2>1, <3>3, <3>4 DEF ProgressOf
  <2> QED
    BY <2>4, <2>5
<1>4. ~cancelled
  BY DEF SaveResumeConfig, ResumeInv
<1> QED
  BY <1>1, <1>2, <1>3, <1>4 DEF ResumeInv

\* The next session starts from an entry that is true.
LEMMA ResumeKeeps ==
    ASSUME ResumeInv, TypeOK', Resume
    PROVE  ResumeInv'
<1>1. /\ Settled' = Settled /\ Forgetful' = Forgetful
      /\ phase = "exited" /\ phase' = "scanning" /\ cancelled' = FALSE
      /\ \A t \in Templates :
             /\ loop'[t] = "pending" /\ pos'[t] = 0 /\ index'[t] = 0
             /\ tasks'[t] = {} /\ current'[t] = NoInfo
             /\ resumeFrom'[t] = Compile(saved[t])
  BY DEF Resume, history, Settled, Forgetful, ResumeInv, TypeOK
<1>2. ASSUME NEW t \in Templates \ Forgetful
      PROVE  ProgressOf(t)' /\ TasksOf(t)' /\ EntryIsTrue(t, resumeFrom[t])'
  <2>1. ProgressOf(t)'
    BY <1>1, SprayAssumption DEF ProgressOf, NoInfo, Targets
  <2>2. TasksOf(t)'
    BY <1>1 DEF TasksOf
  <2>3. EntryIsTrue(t, saved[t]) /\ saved[t] \in Info
    BY <1>1 DEF ResumeInv, TypeOK
  <2>4. EntryIsTrue(t, Compile(saved[t]))
    BY <2>3 DEF Compile, EntryIsTrue, Info
  <2>5. EntryIsTrue(t, resumeFrom[t])'
    BY <1>1, <2>4 DEF EntryIsTrue
  <2> QED
    BY <2>1, <2>2, <2>5
<1> QED
  BY <1>1, <1>2 DEF ResumeInv

\* The invariant of the resume file holds in every state: what a session
\* leaves out is settled, or belongs to a template that is known to forget.
THEOREM ResumeInvariant == Spec => []ResumeInv
<1>1. Init => ResumeInv
  <2> SUFFICES ASSUME Init PROVE ResumeInv
    OBVIOUS
  <2>1. TypeOK
    BY InitTypes DEF Typing
  <2>2. ASSUME NEW t \in Templates
        PROVE  ProgressOf(t) /\ TasksOf(t) /\ EntryIsTrue(t, resumeFrom[t])
    <3>1. /\ loop[t] = "pending" /\ pos[t] = 0 /\ index[t] = 0 /\ tasks[t] = {}
          /\ current[t] = NoInfo /\ resumeFrom[t] = NoInfo
      BY DEF Init
    <3>2. ProgressOf(t)
      BY <3>1, SprayAssumption DEF ProgressOf, NoInfo, Targets
    <3>3. TasksOf(t) /\ EntryIsTrue(t, resumeFrom[t])
      BY <3>1 DEF TasksOf, EntryIsTrue, NoInfo
    <3> QED
      BY <3>2, <3>3
  <2>3. phase = "scanning" /\ cancelled = FALSE
    BY DEF Init
  <2> QED
    BY <2>1, <2>2, <2>3 DEF ResumeInv
<1>2. ASSUME ResumeInv, Typing, Typing', [Next]_vars
      PROVE  ResumeInv'
  <2> USE <1>2
  <2>1. TypeOK'
    BY DEF Typing
  <2>2. ASSUME Ended \/ UNCHANGED vars
        PROVE  ResumeInv'
    <3>1. UNCHANGED vars
      BY <2>2 DEF Ended
    <3>2. ASSUME NEW t \in Templates \ Forgetful
          PROVE  ProgressOf(t)' /\ TasksOf(t)' /\ EntryIsTrue(t, resumeFrom[t])'
      BY <3>1, <3>2 DEF vars, ResumeInv, ProgressOf, TasksOf, EntryIsTrue, Settled
    <3>3. ASSUME NEW t \in Templates \ Forgetful, phase = "exited"
          PROVE  EntryIsTrue(t, saved[t])'
      BY <3>1, <3>3 DEF vars, ResumeInv, EntryIsTrue, Settled
    <3> QED
      BY <2>1, <3>1, <3>2, <3>3 DEF vars, ResumeInv, Forgetful
  <2> QED
    BY <2>1, <2>2, LoopStepsKeep, MarkKeeps, PassOverKeeps, SpawnKeeps, ExecuteKeeps,
       EndTaskKeeps, ProcessStepsKeep, SaveKeeps, ResumeKeeps
       DEF Next, TemplateStep, TaskStep
<1> QED
  BY <1>1, <1>2, TypingInvariant, PTL DEF Spec

\* Whatever the number of sessions, a scan that finished has settled every
\* target of every template whose indices never drifted and that was never
\* saved between two marks (executeTemplateWithTargets, SaveResumeConfig).
THEOREM NothingIsForgotten == Spec => []NothingForgotten
<1>1. ResumeInv => NothingForgotten
  <2> SUFFICES ASSUME ResumeInv, phase \in {"finished", "cutShort"}, ~cancelled,
                      NEW t \in Templates \ Forgetful, NEW p \in Targets
               PROVE  <<t, p>> \in Settled
    BY DEF NothingForgotten
  <2>1. ProgressOf(t) /\ loop[t] = "done"
    BY DEF ResumeInv
  <2>2. p < NumTargets
    BY SprayAssumption DEF Targets
  <2> QED
    BY <2>1, <2>2 DEF ProgressOf
<1> QED
  BY <1>1, ResumeInvariant, PTL

-----------------------------------------------------------------------------
(* The refinement of ScanPlan                                              *)

\* Steps of one template leave the others as they were in a first session.
LEMMA FirstFrame ==
    ASSUME FirstSession, NEW t \in Templates,
           UNCHANGED <<cancelled, sessions, resumeFrom>>, Settled \subseteq Settled',
           \A u \in Templates : u # t =>
               loop'[u] = loop[u] /\ pos'[u] = pos[u] /\ tasks'[u] = tasks[u],
           sessions = 1 /\ FirstOf(t) => FirstOf(t)'
    PROVE  FirstSession'
<1>1. ASSUME NEW u \in Templates, u # t, sessions = 1 PROVE FirstOf(u)'
  BY <1>1 DEF FirstSession, FirstOf
<1> QED
  BY <1>1 DEF FirstSession

\* A first session without the resume file takes no target for processed.
LEMMA FirstStep == Typing /\ FirstSession /\ [Next]_vars => FirstSession'
<1> SUFFICES ASSUME Typing, FirstSession, [Next]_vars PROVE FirstSession'
  OBVIOUS
<1> USE DEF sessionVars, resumeVars, history
<1>1. ASSUME NEW t \in Templates, Admit(t) \/ StartTemplate(t) \/ Mark(t) \/ EndIterate(t)
      PROVE  FirstSession'
  <2>1. /\ UNCHANGED <<cancelled, sessions, resumeFrom, pos, tasks>> /\ Settled' = Settled
        /\ \A u \in Templates : u # t => loop'[u] = loop[u]
        /\ loop'[t] \in {"admitted", "next", "marked", "drain"}
        /\ loop'[t] = "drain" => pos[t] = NumTargets \/ cancelled
    BY <1>1 DEF Admit, StartTemplate, Mark, EndIterate, Settled, Typing, TypeOK
  <2>2. FirstOf(t) => FirstOf(t)'
    BY <2>1 DEF FirstOf
  <2> QED
    BY <2>1, <2>2, FirstFrame
<1>2. ASSUME NEW t \in Templates, PassOver(t)
      PROVE  FirstSession'
  <2>1. /\ UNCHANGED <<cancelled, sessions, resumeFrom, tasks>>
        /\ loop' = [loop EXCEPT ![t] = "next"] /\ pos' = [pos EXCEPT ![t] = @ + 1]
        /\ Settled' = Settled \cup {<<t, pos[t]>>}
    BY <1>2 DEF PassOver, Settled
  <2>2. loop'[t] = "next" /\ pos'[t] = pos[t] + 1 /\ pos[t] \in Nat
    BY <2>1, SprayAssumption DEF Typing, TypeOK, Indices
  <2>3. \A p \in Targets : p < pos'[t] => p < pos[t] \/ p = pos[t]
    BY <2>2, SprayAssumption DEF Targets
  <2>4. FirstOf(t) => FirstOf(t)'
    BY <2>1, <2>2, <2>3 DEF FirstOf
  <2> QED
    BY <2>1, <2>4, FirstFrame DEF Typing, TypeOK
<1>3. ASSUME NEW t \in Templates, Spawn(t)
      PROVE  FirstSession'
  <2> DEFINE new == [pos |-> pos[t], index |-> index[t],
                     skip |-> SkipOnResume(t, index[t]), ran |-> FALSE]
  <2>1. /\ UNCHANGED <<cancelled, sessions, resumeFrom>> /\ Settled' = Settled
        /\ loop' = [loop EXCEPT ![t] = "next"] /\ pos' = [pos EXCEPT ![t] = @ + 1]
        /\ tasks' = [tasks EXCEPT ![t] = @ \cup {new}]
    BY <1>3 DEF Spawn, Settled
  <2>2. /\ loop'[t] = "next" /\ pos'[t] = pos[t] + 1 /\ pos[t] \in Nat
        /\ tasks'[t] = tasks[t] \cup {new}
    BY <2>1, SprayAssumption DEF Typing, TypeOK, Indices
  <2>3. \A p \in Targets : p < pos'[t] => p < pos[t] \/ p = pos[t]
    BY <2>2, SprayAssumption DEF Targets
  <2>4. new.pos = pos[t] /\ new.ran = FALSE /\ (~resumeFrom[t].known => ~new.skip)
    BY DEF SkipOnResume
  <2>5. FirstOf(t) => FirstOf(t)'
    BY <2>1, <2>2, <2>3, <2>4 DEF FirstOf
  <2> QED
    BY <2>1, <2>5, FirstFrame DEF Typing, TypeOK
<1>4. ASSUME NEW t \in Templates, CompleteTemplate(t)
      PROVE  FirstSession'
  <2>1. /\ UNCHANGED <<cancelled, sessions, resumeFrom, pos, tasks>> /\ Settled' = Settled
        /\ loop' = [loop EXCEPT ![t] = "done"] /\ loop[t] = "drain" /\ tasks[t] = {}
    BY <1>4 DEF CompleteTemplate, Settled
  <2>2. FirstOf(t) => FirstOf(t)'
    BY <2>1 DEF FirstOf, Typing, TypeOK
  <2> QED
    BY <2>1, <2>2, FirstFrame DEF Typing, TypeOK
<1>5. ASSUME NEW t \in Templates, NEW task \in tasks[t], Execute(t, task)
      PROVE  FirstSession'
  <2> DEFINE ran == [task EXCEPT !.ran = TRUE]
  <2>1. /\ UNCHANGED <<cancelled, sessions, resumeFrom, pos, loop>> /\ ~task.skip
        /\ tasks' = [tasks EXCEPT ![t] = (@ \ {task}) \cup {ran}]
        /\ Settled' = Settled \cup {<<t, task.pos>>}
    BY <1>5 DEF Execute, Settled
  <2>2. task \in Task /\ tasks'[t] = (tasks[t] \ {task}) \cup {ran}
    BY <2>1 DEF Typing, TypeOK
  <2>3. ran.pos = task.pos /\ ran.skip = task.skip
    BY <2>2 DEF Task
  <2>4. FirstOf(t) => FirstOf(t)'
    <3> SUFFICES ASSUME FirstOf(t) PROVE FirstOf(t)'
      OBVIOUS
    <3>1. loop[t] # "done"
      BY DEF FirstOf
    <3>2. \A k \in tasks'[t] : ~k.skip /\ (k.ran => <<t, k.pos>> \in Settled')
      BY <2>1, <2>2, <2>3 DEF FirstOf
    <3>3. \A p \in Targets : p < pos[t] =>
              <<t, p>> \in Settled' \/ \E k \in tasks'[t] : k.pos = p
      BY <2>1, <2>2, <2>3 DEF FirstOf
    <3> QED
      BY <2>1, <3>1, <3>2, <3>3 DEF FirstOf
  <2> QED
    BY <2>1, <2>4, FirstFrame DEF Typing, TypeOK
<1>6. ASSUME NEW t \in Templates, NEW task \in tasks[t], EndTask(t, task)
      PROVE  FirstSession'
  <2>1. /\ UNCHANGED <<cancelled, sessions, resumeFrom, pos, loop>> /\ (task.skip \/ task.ran)
        /\ tasks' = [tasks EXCEPT ![t] = @ \ {task}] /\ Settled' = Settled
    BY <1>6 DEF EndTask, Settled
  <2>2. tasks'[t] = tasks[t] \ {task}
    BY <2>1 DEF Typing, TypeOK
  <2>3. FirstOf(t) => FirstOf(t)'
    BY <2>1, <2>2 DEF FirstOf
  <2> QED
    BY <2>1, <2>3, FirstFrame DEF Typing, TypeOK
<1>7. ASSUME LeaveScan \/ Finish \/ Interrupt \/ SaveResumeConfig \/ Ended \/ UNCHANGED vars
      PROVE  FirstSession'
  <2>1. UNCHANGED <<cancelled, sessions, resumeFrom, pos, loop, tasks>> /\ Settled' = Settled
    BY <1>7 DEF LeaveScan, Finish, Interrupt, SaveResumeConfig, Ended, vars, Settled
  <2> QED
    BY <2>1 DEF FirstSession, FirstOf
<1>8. CASE Cancel
  <2>1. UNCHANGED <<sessions, resumeFrom, pos, loop, tasks>> /\ Settled' = Settled /\ cancelled'
    BY <1>8 DEF Cancel, Settled
  <2> QED
    BY <2>1 DEF FirstSession, FirstOf
<1>9. CASE Resume
  BY <1>9 DEF Resume, FirstSession, Typing, TypeOK
<1> QED
  BY <1>1, <1>2, <1>3, <1>4, <1>5, <1>6, <1>7, <1>8, <1>9 DEF Next, TemplateStep, TaskStep
-----------------------------------------------------------------------------
\* One more pair that was begun with is settled, or one that already was.
LEMMA SettlingStep ==
    ASSUME UNCHANGED <<phase, cancelled, sessions>>, Begun' = Begun,
           NEW x \in Pairs, x \in Begun, Settled' = Settled \cup {x}
    PROVE  [Plan!Next]_Plan!vars
<1>1. CASE x \in Settled
  BY <1>1 DEF Plan!vars, Pairs, Templates, Targets
<1>2. CASE x \notin Settled
  <2>1. x \in (Pairs \ Settled) \cap Begun /\ (Pairs \ Settled)' = (Pairs \ Settled) \ {x}
    BY <1>2 DEF Pairs, Templates, Targets
  <2> QED
    BY <2>1 DEF Plan!Next, Plan!Settle
<1> QED
  BY <1>1, <1>2

\* What is begun with follows from the positions and from the marks.
LEMMA BegunFrame ==
    ASSUME pos' = pos, \A t \in Templates : loop'[t] = "marked" <=> loop[t] = "marked"
    PROVE  Begun' = Begun
<1>1. Pairs' = Pairs /\ \A x \in Pairs : x[1] \in Templates
  BY DEF Pairs, Templates, Targets
<1> QED
  BY <1>1 DEF Begun

\* A mark becomes the position before the next one.
LEMMA PastTheMark ==
    ASSUME Typing, NEW t \in Templates, loop[t] = "marked",
           loop' = [loop EXCEPT ![t] = "next"], pos' = [pos EXCEPT ![t] = @ + 1]
    PROVE  Begun' = Begun
<1>1. Pairs' = Pairs /\ \A x \in Pairs : x[1] \in Templates /\ x[2] \in Nat
  BY SprayAssumption DEF Pairs, Templates, Targets
<1>2. /\ pos[t] \in Nat /\ pos'[t] = pos[t] + 1 /\ loop'[t] = "next"
      /\ \A u \in Templates \ {t} : pos'[u] = pos[u] /\ loop'[u] = loop[u]
  BY SprayAssumption DEF Typing, TypeOK, Indices
<1>3. ASSUME NEW x \in Pairs
      PROVE  x[2] < pos'[x[1]] \/ (x[2] = pos'[x[1]] /\ loop'[x[1]] = "marked")
                 <=> x[2] < pos[x[1]] \/ (x[2] = pos[x[1]] /\ loop[x[1]] = "marked")
  <2>1. CASE x[1] = t
    BY <1>1, <1>2, <2>1
  <2>2. CASE x[1] # t
    BY <1>1, <1>2, <2>2
  <2> QED
    BY <2>1, <2>2
<1> QED
  BY <1>1, <1>3 DEF Begun

\* Every step of the scan is one of the plan, or changes nothing of it.
LEMMA PlanStep ==
    ASSUME Typing, FirstSession, [Next]_vars
    PROVE  [Plan!Next]_Plan!vars
<1> USE DEF sessionVars, resumeVars, history
<1>0. ASSUME UNCHANGED <<phase, cancelled, sessions>>, Settled' = Settled, Begun' = Begun
      PROVE  [Plan!Next]_Plan!vars
  BY <1>0 DEF Plan!vars, Pairs, Templates, Targets
<1>1. ASSUME NEW t \in Templates,
             \/ Admit(t) \/ StartTemplate(t) \/ EndIterate(t) \/ CompleteTemplate(t)
             \/ \E task \in tasks[t] : EndTask(t, task)
      PROVE  [Plan!Next]_Plan!vars
  <2>1. UNCHANGED <<phase, cancelled, sessions, pos>> /\ Settled' = Settled
    BY <1>1 DEF Admit, StartTemplate, EndIterate, CompleteTemplate, EndTask, Settled
  <2>2. \A u \in Templates : loop'[u] = "marked" <=> loop[u] = "marked"
    BY <1>1 DEF Admit, StartTemplate, EndIterate, CompleteTemplate, EndTask, Typing, TypeOK
  <2> QED
    BY <1>0, <2>1, <2>2, BegunFrame
<1>2. ASSUME NEW t \in Templates, Mark(t)
      PROVE  [Plan!Next]_Plan!vars
  <2>1. /\ UNCHANGED <<phase, cancelled, sessions, pos>> /\ Settled' = Settled
        /\ loop' = [loop EXCEPT ![t] = "marked"] /\ loop[t] = "next"
        /\ Running /\ ~cancelled
    BY <1>2 DEF Mark, Settled
  <2>2. Pairs' = Pairs /\ \A x \in Pairs : x[1] \in Templates
    BY DEF Pairs, Templates, Targets
  <2>3. \A u \in Templates : loop[u] = "marked" => loop'[u] = "marked"
    BY <2>1 DEF Typing, TypeOK
  <2>4. Begun \subseteq Begun' /\ Begun' \subseteq Pairs
    BY <2>1, <2>2, <2>3 DEF Begun
  <2>5. phase \in {"scanning", "closed"}
    BY <2>1 DEF Running, Typing
  <2>6. Begun' \ Begun \in SUBSET (Pairs \ Begun) /\ Begun' = Begun \cup (Begun' \ Begun)
    BY <2>4
  <2>7. \E more \in SUBSET (Pairs \ Begun) : Begun' = Begun \cup more
    BY <2>6
  <2>8. Plan!Begin
    BY <2>1, <2>2, <2>5, <2>7 DEF Plan!Begin
  <2> QED
    BY <2>8 DEF Plan!Next
<1>3. ASSUME NEW t \in Templates, Spawn(t)
      PROVE  [Plan!Next]_Plan!vars
  <2>1. /\ UNCHANGED <<phase, cancelled, sessions>> /\ Settled' = Settled
        /\ loop[t] = "marked" /\ loop' = [loop EXCEPT ![t] = "next"]
        /\ pos' = [pos EXCEPT ![t] = @ + 1]
    BY <1>3 DEF Spawn, Settled
  <2> QED
    BY <1>0, <2>1, PastTheMark
<1>4. ASSUME NEW t \in Templates, PassOver(t)
      PROVE  [Plan!Next]_Plan!vars
  <2>1. /\ UNCHANGED <<phase, cancelled, sessions>>
        /\ Settled' = Settled \cup {<<t, pos[t]>>}
        /\ loop[t] = "marked" /\ loop' = [loop EXCEPT ![t] = "next"]
        /\ pos' = [pos EXCEPT ![t] = @ + 1]
    BY <1>4 DEF PassOver, Settled
  <2>2. <<t, pos[t]>> \in Pairs
    BY <2>1, SprayAssumption DEF Typing, TypeOK, Indices, Targets, Pairs
  <2>3. <<t, pos[t]>> \in Begun
    BY <2>1, <2>2 DEF Begun
  <2> QED
    BY <2>1, <2>2, <2>3, PastTheMark, SettlingStep
<1>5. ASSUME NEW t \in Templates, NEW task \in tasks[t], Execute(t, task)
      PROVE  [Plan!Next]_Plan!vars
  <2>1. /\ UNCHANGED <<phase, cancelled, sessions, loop, pos>>
        /\ Settled' = Settled \cup {<<t, task.pos>>}
    BY <1>5 DEF Execute, Settled
  <2>2. <<t, task.pos>> \in Pairs
    BY DEF Typing, TypeOK, Task, Pairs
  <2>3. <<t, task.pos>> \in Begun
    BY <2>2 DEF Typing, TasksArePast, Begun
  <2> QED
    BY <2>1, <2>2, <2>3, BegunFrame, SettlingStep
<1>6. CASE Finish
  <2>1. /\ UNCHANGED <<cancelled, sessions, loop, pos>> /\ Settled' = Settled
        /\ phase' \in {"finished", "cutShort"}
        /\ phase \in {"scanning", "closed"} /\ (phase = "closed" <=> phase' = "cutShort")
    BY <1>6 DEF Finish, Settled
  <2>2. ASSUME phase = "scanning", ~cancelled, sessions = 1
        PROVE  Pairs \ Settled = {}
    <3>1. ASSUME NEW t \in Templates, NEW p \in Targets PROVE <<t, p>> \in Settled
      <4>1. FirstOf(t) /\ loop[t] = "done"
        BY <1>6, <2>2 DEF Finish, FirstSession
      <4>2. pos[t] = NumTargets /\ tasks[t] = {}
        BY <2>2, <4>1 DEF FirstOf
      <4>3. p < NumTargets
        BY SprayAssumption DEF Targets
      <4> QED
        BY <4>1, <4>2, <4>3 DEF FirstOf
    <3> QED
      BY <3>1 DEF Pairs
  <2>3. Plan!End
    <3>1. sessions > 1 \/ sessions = 1
      BY SprayAssumption DEF Typing, TypeOK
    <3> QED
      BY <2>1, <2>2, <3>1, BegunFrame DEF Plan!End
  <2> QED
    BY <2>3 DEF Plan!Next
<1>7. CASE Cancel
  <2>1. Begun' = Begun /\ Settled' = Settled /\ Pairs' = Pairs
    BY <1>7, BegunFrame DEF Cancel, Settled, Pairs, Templates, Targets
  <2>2. Plan!Stop
    BY <1>7, <2>1 DEF Cancel, Plan!Stop
  <2> QED
    BY <2>2 DEF Plan!Next
<1>8. CASE Interrupt
  <2>1. Begun' = Begun /\ Settled' = Settled /\ Pairs' = Pairs
    BY <1>8, BegunFrame DEF Interrupt, Settled, Pairs, Templates, Targets
  <2>2. Plan!Stop
    BY <1>8, <2>1 DEF Interrupt, Plan!Stop
  <2> QED
    BY <2>2 DEF Plan!Next
<1>9. CASE SaveResumeConfig
  <2>1. Begun' = Begun /\ Settled' = Settled /\ Pairs' = Pairs
    BY <1>9, BegunFrame DEF SaveResumeConfig, Settled, Pairs, Templates, Targets
  <2>2. Plan!End
    BY <1>9, <2>1 DEF SaveResumeConfig, Plan!End
  <2> QED
    BY <2>2 DEF Plan!Next
<1>10. CASE LeaveScan
  <2>1. Begun' = Begun /\ Settled' = Settled /\ Pairs' = Pairs
    BY <1>10, BegunFrame DEF LeaveScan, Settled, Pairs, Templates, Targets
  <2>2. Plan!End
    BY <1>10, <2>1 DEF LeaveScan, Plan!End
  <2> QED
    BY <2>2 DEF Plan!Next
<1>11. CASE Resume
  <2>1. sessions' > 1 /\ Settled' = Settled /\ Pairs' = Pairs
    BY <1>11, SprayAssumption DEF Resume, Typing, TypeOK, Settled, Pairs, Templates, Targets
  <2>2. Begun' = {}
    <3>1. \A x \in Pairs : x[1] \in Templates /\ x[2] \in Nat
      BY SprayAssumption DEF Pairs, Templates, Targets
    <3>2. \A u \in Templates : pos'[u] = 0 /\ loop'[u] = "pending"
      BY <1>11 DEF Resume
    <3>3. \A x \in Pairs : ~(x[2] < 0)
      BY <3>1
    <3> QED
      BY <2>1, <3>1, <3>2, <3>3 DEF Begun
  <2>3. Plan!Again
    BY <1>11, <2>1, <2>2 DEF Resume, Plan!Again
  <2> QED
    BY <2>3 DEF Plan!Next
<1>12. CASE Ended \/ UNCHANGED vars
  <2>1. UNCHANGED <<phase, cancelled, sessions, pos, loop>> /\ Settled' = Settled
    BY <1>12 DEF Ended, vars, Settled
  <2> QED
    BY <1>0, <2>1, BegunFrame
<1> QED
  BY <1>1, <1>2, <1>3, <1>4, <1>5, <1>6, <1>7, <1>8, <1>9, <1>10, <1>11, <1>12
     DEF Next, TemplateStep, TaskStep

\* A first session skips nothing for the resume file, and every target behind
\* a template's loop is settled or has its goroutine.
THEOREM FirstSessionInvariant == Spec => []FirstSession
<1>1. Init => FirstSession
  <2> SUFFICES ASSUME Init, NEW t \in Templates PROVE FirstOf(t)
    BY DEF FirstSession
  <2>1. /\ loop[t] = "pending" /\ pos[t] = 0 /\ tasks[t] = {} /\ resumeFrom[t] = NoInfo
    BY DEF Init
  <2> QED
    BY <2>1, SprayAssumption DEF FirstOf, NoInfo, Targets
<1> QED
  BY <1>1, FirstStep, TypingInvariant, PTL DEF Spec

\* Engine.Execute keeps its promise as far as safety goes: the scan, with its
\* interrupts and sessions, is a scan of the plan.
THEOREM ScanKeepsThePlan == Spec => Plan!Safe
<1>1. Init => Plan!Init
  <2> SUFFICES ASSUME Init PROVE Plan!Init
    OBVIOUS
  <2>1. \A x \in Pairs : x[1] \in Templates /\ ~(x[2] < 0)
    BY SprayAssumption DEF Pairs, Templates, Targets
  <2>2. \A t \in Templates : pos[t] = 0 /\ loop[t] = "pending"
    BY DEF Init
  <2>3. Begun = {}
    BY <2>1, <2>2 DEF Begun
  <2> QED
    BY <2>3 DEF Init, Plan!Init, Settled
<1>2. Typing /\ FirstSession /\ [Next]_vars => [Plan!Next]_Plan!vars
  BY PlanStep
<1> QED
  BY <1>1, <1>2, TypingInvariant, FirstSessionInvariant, PTL DEF Spec, Plan!Safe
=============================================================================
