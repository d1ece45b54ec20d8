-------------------------- MODULE ParallelHTTPProofs --------------------------
(***************************************************************************)
(* Theorems about ParallelHTTP, for any number of requests, places of the  *)
(* pool, results that are kept, hosts and errors.                          *)
(***************************************************************************)
EXTENDS ParallelHTTP, FiniteSetTheorems, TLAPS

\* The types of the model hold initially and in every step of the loop, of a
\* goroutine, of the receiver and of the other templates.
LEMMA TypeInit == Init => TypeOK
<1> SUFFICES ASSUME Init PROVE TypeOK
  OBVIOUS
<1>1. /\ next \in 1..(N + 1) /\ worker \in [Requests -> States]
      /\ outcome \in [Requests -> Outcomes \cup {Pending}]
      /\ main \in {"loop", "acquire", "wait", "drain", "returned"}
      /\ exit \in {"none", "early", "wait"}
  BY ParallelAssumption DEF Init, States
<1>2. /\ closed \in BOOLEAN /\ running \in BOOLEAN /\ cancelled \in BOOLEAN
      /\ sawDown \in BOOLEAN /\ stop \in BOOLEAN
  BY DEF Init
<1> QED
  BY <1>1, <1>2 DEF Init, TypeOK

LEMMA TypeStep == TypeOK /\ LoopInv /\ [Next]_vars => TypeOK'
<1> SUFFICES ASSUME TypeOK, LoopInv, [Next]_vars PROVE TypeOK'
  OBVIOUS
<1> USE ParallelAssumption DEF TypeOK, template, history, Go, States
<1>1. CASE Break
  BY <1>1 DEF Break
<1>2. CASE Fail
  BY <1>2 DEF Fail, LeaveEarly
<1>3. CASE GiveUp
  BY <1>3 DEF GiveUp, LeaveEarly
<1>4. CASE Make
  BY <1>4 DEF Make
<1>5. CASE Acquire
  BY <1>5 DEF Acquire, LoopInv, Requests
<1>6. CASE Wait
  BY <1>6 DEF Wait
<1>7. CASE Return
  BY <1>7 DEF Return, Outcomes, NoError
<1>8. ASSUME NEW r \in Requests, CheckStop(r) PROVE TypeOK'
  BY <1>8 DEF CheckStop
<1>9. ASSUME NEW r \in Requests, Match(r) PROVE TypeOK'
  BY <1>9 DEF Match
<1>10. ASSUME NEW r \in Requests, StopOthers(r) PROVE TypeOK'
  BY <1>10 DEF StopOthers, Trigger
<1>11. ASSUME NEW r \in Requests, NEW o \in Outcomes, EndRequest(r, o) PROVE TypeOK'
  BY <1>11 DEF EndRequest
<1>12. ASSUME NEW r \in Requests, SendResult(r) PROVE TypeOK'
  <2>1. outcome[r] \in Outcomes
    BY <1>12 DEF SendResult, LoopInv
  <2> QED
    BY <1>12, <2>1 DEF SendResult
<1>13. ASSUME NEW r \in Requests, DropResult(r) PROVE TypeOK'
  BY <1>13 DEF DropResult
<1>14. CASE Receive
  <2>1. PICK o \in Outcomes : buffer = <<o>>
    BY <1>14 DEF Receive
  <2>2. Head(buffer) = o
    BY <2>1
  <2>3. results' \subseteq Outcomes
    BY <1>14, <2>2 DEF Receive, Keep
  <2>4. delivered' \subseteq Errors /\ down' \subseteq Hosts
    BY <1>14, <2>2 DEF Receive, SetDown, Outcomes
  <2>5. cancelled' \in BOOLEAN /\ sawDown' \in BOOLEAN
    BY <1>14 DEF Receive, SetDown
  <2> QED
    BY <1>14, <2>3, <2>4, <2>5 DEF Receive
<1>15. CASE EndRun
  BY <1>15 DEF EndRun
<1>16. CASE OtherTemplates
  BY <1>16 DEF OtherTemplates, SetDown
<1>17. CASE UNCHANGED vars
  BY <1>17 DEF vars
<1> QED
  BY <1>1, <1>2, <1>3, <1>4, <1>5, <1>6, <1>7, <1>8, <1>9, <1>10, <1>11, <1>12, <1>13,
     <1>14, <1>15, <1>16, <1>17 DEF Next, Loop, Goroutine, Run

\* The loop takes the channel with it: LoopInv is preserved.
LEMMA LoopStep == TypeOK /\ LoopInv /\ [Next]_vars => LoopInv'
<1> SUFFICES ASSUME TypeOK, LoopInv, [Next]_vars PROVE LoopInv'
  OBVIOUS
<1> USE ParallelAssumption DEF LoopInv, TypeOK, template, history, Go, Requests
<1>1. CASE Break
  BY <1>1 DEF Break
<1>2. CASE Fail
  BY <1>2 DEF Fail, LeaveEarly
<1>3. CASE GiveUp
  BY <1>3 DEF GiveUp, LeaveEarly
<1>4. CASE Make
  BY <1>4 DEF Make
<1>5. CASE Acquire
  BY <1>5 DEF Acquire
<1>6. CASE Wait
  BY <1>6 DEF Wait, Active
<1>7. CASE Return
  BY <1>7 DEF Return
<1>8. ASSUME NEW r \in Requests, CheckStop(r) PROVE LoopInv'
  BY <1>8 DEF CheckStop
<1>9. ASSUME NEW r \in Requests, Match(r) PROVE LoopInv'
  BY <1>9 DEF Match
<1>10. ASSUME NEW r \in Requests, StopOthers(r) PROVE LoopInv'
  BY <1>10 DEF StopOthers
<1>11. ASSUME NEW r \in Requests, NEW o \in Outcomes, EndRequest(r, o) PROVE LoopInv'
  BY <1>11 DEF EndRequest, Outcomes, NoError, Pending
<1>12. ASSUME NEW r \in Requests, SendResult(r) PROVE LoopInv'
  BY <1>12 DEF SendResult
<1>13. ASSUME NEW r \in Requests, DropResult(r) PROVE LoopInv'
  BY <1>13 DEF DropResult
<1>14. CASE Receive
  BY <1>14 DEF Receive
<1>15. CASE EndRun
  BY <1>15 DEF EndRun
<1>16. CASE OtherTemplates
  BY <1>16 DEF OtherTemplates
<1>17. CASE UNCHANGED vars
  BY <1>17 DEF vars
<1> QED
  BY <1>1, <1>2, <1>3, <1>4, <1>5, <1>6, <1>7, <1>8, <1>9, <1>10, <1>11, <1>12, <1>13,
     <1>14, <1>15, <1>16, <1>17 DEF Next, Loop, Goroutine, Run

\* One match is reported, and the context is done for a reason.
LEMMA StopStep == TypeOK /\ LoopInv /\ StopInv /\ [Next]_vars => StopInv'
<1> SUFFICES ASSUME TypeOK, LoopInv, StopInv, [Next]_vars PROVE StopInv'
  OBVIOUS
<1> USE DEF StopInv, TypeOK, template, history, Go
<1>1. CASE Break
  BY <1>1 DEF Break, MatchReported
<1>2. CASE Fail
  BY <1>2 DEF Fail, LeaveEarly, MatchReported
<1>3. CASE GiveUp
  BY <1>3 DEF GiveUp, LeaveEarly, MatchReported
<1>4. CASE Make
  BY <1>4 DEF Make, MatchReported
<1>5. CASE Acquire
  BY <1>5 DEF Acquire, MatchReported
<1>6. CASE Wait
  BY <1>6 DEF Wait, MatchReported
<1>7. CASE Return
  BY <1>7 DEF Return, MatchReported
<1>8. ASSUME NEW r \in Requests, CheckStop(r) PROVE StopInv'
  BY <1>8 DEF CheckStop, MatchReported
<1>9. ASSUME NEW r \in Requests, Match(r) PROVE StopInv'
  <2>1. MatchReported'
    <3>1. CASE stop /\ reported # {}
      BY <1>9, <3>1 DEF Match, MatchReported
    <3>2. CASE stop /\ reported = {}
      <4>1. reported' = {r}
        BY <1>9, <3>2 DEF Match
      <4>2. Cardinality({r}) = 1
        BY FS_Singleton
      <4>3. Cardinality(reported') <= 1
        BY <4>1, <4>2
      <4> QED
        BY <1>9, <3>2, <4>1, <4>3 DEF Match, MatchReported
    <3>3. CASE ~stop
      BY <1>9, <3>3 DEF Match, MatchReported
    <3> QED
      BY <3>1, <3>2, <3>3
  <2> QED
    BY <1>9, <2>1 DEF Match
<1>10. ASSUME NEW r \in Requests, StopOthers(r) PROVE StopInv'
  BY <1>10 DEF StopOthers, Trigger, MatchReported
<1>11. ASSUME NEW r \in Requests, NEW o \in Outcomes, EndRequest(r, o) PROVE StopInv'
  BY <1>11 DEF EndRequest, MatchReported
<1>12. ASSUME NEW r \in Requests, SendResult(r) PROVE StopInv'
  BY <1>12 DEF SendResult, MatchReported
<1>13. ASSUME NEW r \in Requests, DropResult(r) PROVE StopInv'
  BY <1>13 DEF DropResult, MatchReported
<1>14. CASE Receive
  BY <1>14 DEF Receive, SetDown, MatchReported
<1>15. CASE EndRun
  BY <1>15 DEF EndRun, MatchReported
<1>16. CASE OtherTemplates
  BY <1>16 DEF OtherTemplates, SetDown, MatchReported
<1>17. CASE UNCHANGED vars
  BY <1>17 DEF vars, MatchReported
<1> QED
  BY <1>1, <1>2, <1>3, <1>4, <1>5, <1>6, <1>7, <1>8, <1>9, <1>10, <1>11, <1>12, <1>13,
     <1>14, <1>15, <1>16, <1>17 DEF Next, Loop, Goroutine, Run

\* Errors reach the answer unless a match or an unresponsive host stopped
\* the execution.
LEMMA ResultStep ==
    TypeOK /\ LoopInv /\ StopInv /\ ResultInv /\ [Next]_vars => ResultInv'
<1> SUFFICES ASSUME TypeOK, LoopInv, StopInv, ResultInv, [Next]_vars PROVE ResultInv'
  OBVIOUS
<1> USE DEF ResultInv, TypeOK, template, history
<1>1. CASE Break
  BY <1>1 DEF Break, ErrorsAnswered
<1>2. CASE Fail
  BY <1>2 DEF Fail, LeaveEarly, ErrorsAnswered
<1>3. CASE GiveUp
  BY <1>3 DEF GiveUp, LeaveEarly, ErrorsAnswered
<1>4. CASE Make
  BY <1>4 DEF Make, ErrorsAnswered
<1>5. CASE Acquire
  BY <1>5 DEF Acquire, ErrorsAnswered
<1>6. CASE Wait
  BY <1>6 DEF Wait, ErrorsAnswered
<1>7. CASE Return
  <2>1. exit = "none"
    BY <1>7 DEF Return, LoopInv
  <2>2. NoError \notin delivered
    BY ParallelAssumption DEF NoError
  <2>3. CASE FoundFirstMatch
    BY <1>7, <2>1, <2>3 DEF Return, FoundFirstMatch, StopInv, ErrorsAnswered
  <2>4. CASE ~FoundFirstMatch
    <3>1. answer' = results \ {NoError} /\ delivered' = delivered /\ results' = results
      BY <1>7, <2>4 DEF Return
    <3>2. delivered' # {} => answer' # {}
      BY <2>2, <3>1
    <3> QED
      BY <3>1, <3>2 DEF ErrorsAnswered
  <2> QED
    BY <2>3, <2>4
<1>8. ASSUME NEW r \in Requests, CheckStop(r) PROVE ResultInv'
  BY <1>8 DEF CheckStop, ErrorsAnswered
<1>9. ASSUME NEW r \in Requests, Match(r) PROVE ResultInv'
  BY <1>9 DEF Match, ErrorsAnswered
<1>10. ASSUME NEW r \in Requests, StopOthers(r) PROVE ResultInv'
  BY <1>10 DEF StopOthers, ErrorsAnswered
<1>11. ASSUME NEW r \in Requests, NEW o \in Outcomes, EndRequest(r, o) PROVE ResultInv'
  BY <1>11 DEF EndRequest, ErrorsAnswered
<1>12. ASSUME NEW r \in Requests, SendResult(r) PROVE ResultInv'
  BY <1>12 DEF SendResult, ErrorsAnswered
<1>13. ASSUME NEW r \in Requests, DropResult(r) PROVE ResultInv'
  BY <1>13 DEF DropResult, ErrorsAnswered
<1>14. CASE Receive
  <2>1. PICK o \in Outcomes : buffer = <<o>>
    BY <1>14 DEF Receive
  <2>2. Head(buffer) = o /\ exit' = exit /\ running /\ results' = Keep(results, o)
    BY <1>14, <2>1 DEF Receive
  <2>3. exit # "wait"
    BY <2>2 DEF LoopInv
  <2>4. CASE o = NoError
    BY <1>14, <2>2, <2>3, <2>4 DEF Receive, Keep, ErrorsAnswered
  <2>5. CASE o # NoError
    <3>1. delivered' = delivered \cup {o}
      BY <1>14, <2>2, <2>5 DEF Receive
    <3>2. delivered = {} => o \in results'
      <4> SUFFICES ASSUME delivered = {} PROVE o \in results'
        OBVIOUS
      <4>1. results = {} \/ results = {NoError}
        OBVIOUS
      <4>2. Cardinality(results) \in {0, 1}
        BY <4>1, FS_EmptySet, FS_Singleton
      <4>3. ~(Cardinality(results) >= MaxResults)
        BY <4>2, ParallelAssumption
      <4> QED
        BY <2>2, <4>3 DEF Keep
    <3>3. results \subseteq results' /\ results' \subseteq results \cup {o}
      BY <2>2 DEF Keep
    <3>4. delivered' \cap results' # {}
      BY <3>1, <3>2, <3>3
    <3> QED
      BY <2>2, <2>3, <3>1, <3>3, <3>4 DEF ErrorsAnswered
  <2> QED
    BY <2>4, <2>5
<1>15. CASE EndRun
  BY <1>15 DEF EndRun, ErrorsAnswered
<1>16. CASE OtherTemplates
  BY <1>16 DEF OtherTemplates, SetDown, ErrorsAnswered
<1>17. CASE UNCHANGED vars
  BY <1>17 DEF vars, ErrorsAnswered
<1> QED
  BY <1>1, <1>2, <1>3, <1>4, <1>5, <1>6, <1>7, <1>8, <1>9, <1>10, <1>11, <1>12, <1>13,
     <1>14, <1>15, <1>16, <1>17 DEF Next, Loop, Goroutine, Run

\* What disturbs the execution once has disturbed it for good.
LEMMA StaysDisturbed == TypeOK /\ LoopInv /\ [Next]_vars /\ Undisturbed' => Undisturbed
<1> SUFFICES ASSUME TypeOK, LoopInv, [Next]_vars, Undisturbed' PROVE Undisturbed
  OBVIOUS
<1>1. stop' = stop
  BY DEF Next, Loop, Goroutine, Run, Break, Fail, LeaveEarly, GiveUp, Make, Acquire, Wait,
         Return, CheckStop, Match, StopOthers, EndRequest, SendResult, DropResult, Receive,
         EndRun, OtherTemplates, template, vars
<1>2. matched \subseteq matched'
  BY DEF Next, Loop, Goroutine, Run, Break, Fail, LeaveEarly, GiveUp, Make, Acquire, Wait,
         Return, CheckStop, Match, StopOthers, EndRequest, SendResult, DropResult, Receive,
         EndRun, OtherTemplates, history, vars
<1>3. sawDown => sawDown'
  BY DEF Next, Loop, Goroutine, Run, Break, Fail, LeaveEarly, GiveUp, Make, Acquire, Wait,
         Return, CheckStop, Match, StopOthers, EndRequest, SendResult, DropResult, Receive,
         EndRun, OtherTemplates, history, vars, SetDown
<1>4. exit = "early" => exit' = "early"
  BY DEF Next, Loop, Goroutine, Run, Break, Fail, LeaveEarly, GiveUp, Make, Acquire, Wait,
         Return, CheckStop, Match, StopOthers, EndRequest, SendResult, DropResult, Receive,
         EndRun, OtherTemplates, LoopInv, vars
<1> QED
  BY <1>1, <1>2, <1>3, <1>4 DEF Undisturbed

\* Until then nothing stops the loop or a goroutine, and every outcome is
\* with its goroutine, in the channel or with the receiver.
LEMMA LosslessStep ==
    TypeOK /\ LoopInv /\ StopInv /\ LosslessInv /\ [Next]_vars => LosslessInv'
<1> SUFFICES ASSUME TypeOK, LoopInv, StopInv, LosslessInv, [Next]_vars, Undisturbed'
             PROVE  LosslessInv'
  BY DEF LosslessInv
<1>u. Undisturbed
  BY StaysDisturbed
<1>d. down = {}
  BY <1>u DEF Undisturbed, StopInv
<1>c. exit = "none" => ~cancelled
  BY <1>u DEF Undisturbed, StopInv
<1> USE <1>u, ParallelAssumption DEF LosslessInv, TypeOK, template, history, Go, Requests
<1>1. CASE Break
  <2>1. exit = "none"
    BY <1>1 DEF Break, LoopInv
  <2>2. next = N + 1
    BY <1>1, <1>c, <1>d, <2>1 DEF Break, MustBreak, FoundFirstMatch
  <2> QED
    BY <1>1, <2>2 DEF Break
<1>2. CASE Fail
  BY <1>2 DEF Fail, LeaveEarly, Undisturbed
<1>3. CASE GiveUp
  BY <1>3 DEF GiveUp, LeaveEarly, Undisturbed
<1>4. CASE Make
  BY <1>4 DEF Make
<1>5. CASE Acquire
  BY <1>5 DEF Acquire, LoopInv
<1>6. CASE Wait
  BY <1>6 DEF Wait
<1>7. CASE Return
  BY <1>7 DEF Return
<1>8. ASSUME NEW r \in Requests, CheckStop(r) PROVE LosslessInv'
  <2>1. exit = "none"
    <3>1. ~closed
      BY <1>8 DEF CheckStop, LoopInv
    <3> QED
      BY <3>1 DEF LoopInv, Undisturbed
  <2>2. ~MustNotSend(r)
    BY <1>c, <1>d, <2>1 DEF MustNotSend, FoundFirstMatch, HostIsDown
  <2> QED
    BY <1>8, <2>2 DEF CheckStop
<1>9. ASSUME NEW r \in Requests, Match(r) PROVE LosslessInv'
  BY <1>9 DEF Match
<1>10. ASSUME NEW r \in Requests, StopOthers(r) PROVE LosslessInv'
  BY <1>10 DEF StopOthers
<1>11. ASSUME NEW r \in Requests, NEW o \in Outcomes, EndRequest(r, o) PROVE LosslessInv'
  BY <1>11 DEF EndRequest, Outcomes, NoError, Pending
<1>12. ASSUME NEW r \in Requests, SendResult(r) PROVE LosslessInv'
  BY <1>12 DEF SendResult
<1>13. ASSUME NEW r \in Requests, DropResult(r) PROVE LosslessInv'
  <2>1. exit = "none"
    <3>1. ~closed
      BY <1>13 DEF DropResult, LoopInv
    <3> QED
      BY <3>1 DEF LoopInv, Undisturbed
  <2> QED
    BY <1>13, <1>c, <2>1 DEF DropResult
<1>14. CASE Receive
  <2>1. PICK o \in Requests : buffer = <<outcome[o]>>
    BY <1>14 DEF Receive
  <2>2. Head(buffer) = outcome[o]
    BY <2>1
  <2>3. CASE outcome[o] = NoError
    BY <1>14, <2>1, <2>2, <2>3 DEF Receive
  <2>4. CASE outcome[o] # NoError
    <3>1. delivered' = delivered \cup {outcome[o]} /\ buffer' = <<>>
      BY <1>14, <2>2, <2>4 DEF Receive
    <3> QED
      BY <1>14, <2>1, <3>1 DEF Receive
  <2> QED
    BY <2>3, <2>4
<1>15. CASE EndRun
  BY <1>15 DEF EndRun
<1>16. CASE OtherTemplates
  BY <1>16 DEF OtherTemplates
<1>17. CASE UNCHANGED vars
  BY <1>17 DEF vars
<1> QED
  BY <1>1, <1>2, <1>3, <1>4, <1>5, <1>6, <1>7, <1>8, <1>9, <1>10, <1>11, <1>12, <1>13,
     <1>14, <1>15, <1>16, <1>17 DEF Next, Loop, Goroutine, Run
-----------------------------------------------------------------------------
\* The parts of the invariant hold together in every reachable state.
THEOREM HTTPInvariant == Spec => []HTTPInv
<1>1. Init => HTTPInv
  <2> SUFFICES ASSUME Init PROVE HTTPInv
    OBVIOUS
  <2>1. TypeOK
    BY TypeInit
  <2>2. LoopInv
    BY ParallelAssumption DEF Init, LoopInv, Requests
  <2>3. StopInv
    BY FS_EmptySet DEF Init, StopInv, MatchReported, Requests
  <2>4. ResultInv
    BY DEF Init, ResultInv, ErrorsAnswered
  <2>5. LosslessInv
    BY ParallelAssumption DEF Init, LosslessInv, Requests
  <2> QED
    BY <2>1, <2>2, <2>3, <2>4, <2>5 DEF HTTPInv
<1>2. HTTPInv /\ [Next]_vars => HTTPInv'
  BY TypeStep, LoopStep, StopStep, ResultStep, LosslessStep DEF HTTPInv
<1> QED
  BY <1>1, <1>2, PTL DEF Spec

\* No goroutine is left to send a result when Wait has closed the channel.
THEOREM NothingIsSentAfterClose == Spec => []NoSendAfterClose
<1>1. HTTPInv => NoSendAfterClose
  BY DEF HTTPInv, LoopInv, NoSendAfterClose, Active
<1> QED
  BY <1>1, HTTPInvariant, PTL

\* With stop-at-first-match one match is reported, without it all are.
THEOREM OneMatchIsReported == Spec => []MatchReported
<1>1. HTTPInv => MatchReported
  BY DEF HTTPInv, StopInv
<1> QED
  BY <1>1, HTTPInvariant, PTL

\* An execution that received an error answers one, unless it was stopped.
THEOREM SomeErrorIsAnswered == Spec => []ErrorsAnswered
<1>1. HTTPInv => ErrorsAnswered
  BY DEF HTTPInv, ResultInv
<1> QED
  BY <1>1, HTTPInvariant, PTL

\* An execution that nothing stops executes every request, and every error
\* of a request is received.
THEOREM NothingIsLost == Spec => []NothingLost
<1>1. ASSUME HTTPInv PROVE NothingLost
  <2> SUFFICES ASSUME exit = "wait", ~sawDown, stop => matched = {}
               PROVE  /\ \A r \in Requests : outcome[r] # Pending
                      /\ delivered = {outcome[r] : r \in Requests} \ {NoError}
    BY DEF NothingLost
  <2>1. Undisturbed /\ main = "returned" /\ closed /\ buffer = <<>>
    BY <1>1 DEF Undisturbed, HTTPInv, LoopInv
  <2>2. next = N + 1
    BY <1>1, <2>1 DEF HTTPInv, LosslessInv
  <2>3. \A r \in Requests : worker[r] = "released"
    BY <1>1, <2>1, <2>2, ParallelAssumption DEF HTTPInv, LosslessInv, LoopInv, Requests
  <2>4. \A r \in Requests : outcome[r] # Pending /\ outcome[r] \in delivered \cup {NoError}
    BY <1>1, <2>1, <2>3 DEF HTTPInv, LosslessInv
  <2>5. \A e \in delivered : e # NoError /\ \E r \in Requests : outcome[r] = e
    BY <1>1, <2>1, ParallelAssumption DEF HTTPInv, LosslessInv, TypeOK, NoError
  <2> QED
    BY <2>4, <2>5
<1> QED
  BY <1>1, HTTPInvariant, PTL

\* The types of the model: no step of the loop, of a goroutine, of the
\* receiver or of other templates leaves them.
THEOREM HTTPTypes == Spec => []TypeOK
<1>1. HTTPInv => TypeOK
  BY DEF HTTPInv
<1> QED
  BY <1>1, HTTPInvariant, PTL
=============================================================================
