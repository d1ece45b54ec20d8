---------------------------- MODULE ParallelHTTP ----------------------------
(***************************************************************************)
(* One HTTP template whose requests run in parallel on one target          *)
(* (pkg/protocols/http/request.go) and the handler that stops them at the  *)
(* first match (httputils/spm.go).  Three actors share the handler: the    *)
(* loop that generates requests, a goroutine per request, and the          *)
(* goroutine that receives the results.  Other templates that scan the     *)
(* same hosts change which hosts are unresponsive at any time.             *)
(***************************************************************************)
EXTENDS Naturals, Sequences, FiniteSets

CONSTANTS N,            \* requests the payloads give
          Threads,      \* size of the pool; a race has none
          MaxResults,   \* maxErrorsWhenParallel
          Errors,       \* errors of requests
          Hosts, Target,\* hosts, and the host of the input
          HostOf        \* request -> host of its URL

ASSUME ParallelAssumption ==
    /\ N \in Nat /\ Threads \in Nat \ {0} /\ MaxResults \in Nat \ {0, 1}
    /\ Errors \cap {"none", "pending"} = {}
    /\ Target \in Hosts /\ HostOf \in [1..N -> Hosts]

Requests == 1..N
NoError == "none"
Outcomes == Errors \cup {NoError}
Pending == "pending"

VARIABLES variant,   \* "parallel", "race" or "turbo"
          stop,      \* shouldStop, stop-at-first-match is on
          main,      \* "loop", "acquire", "wait", "drain" or "returned"
          next,      \* the request the loop is at
          worker,    \* request -> state of its goroutine
          outcome,   \* request -> what executeRequest returned, or Pending
          buffer,    \* ResultChan, with room for one result
          closed,    \* Wait has closed it
          running,   \* the goroutine of run has not ended
          results,   \* h.results
          cancelled, \* the handler's context is done
          down,      \* hosts the host error cache skips
          exit,      \* how the execution returned
          answer,    \* the errors it returned
          \* history
          matched, reported,   \* requests that matched; those whose callback ran
          delivered,           \* errors the handler received
          sawDown              \* some host has been unresponsive

template == <<variant, stop>>
vars == <<variant, stop, main, next, worker, outcome, buffer, closed, running, results,
          cancelled, down, exit, answer, matched, reported, delivered, sawDown>>

States == {"none", "started", "limited", "executing", "trigger", "result", "released"}

TypeOK ==
    /\ variant \in {"parallel", "race", "turbo"} /\ stop \in BOOLEAN
    /\ main \in {"loop", "acquire", "wait", "drain", "returned"}
    /\ next \in 1..(N + 1)
    /\ worker \in [Requests -> States]
    /\ outcome \in [Requests -> Outcomes \cup {Pending}]
    /\ buffer = <<>> \/ \E o \in Outcomes : buffer = <<o>>
    /\ closed \in BOOLEAN
    /\ running \in BOOLEAN /\ cancelled \in BOOLEAN /\ sawDown \in BOOLEAN
    /\ results \subseteq Outcomes /\ delivered \subseteq Errors
    /\ down \subseteq Hosts
    /\ exit \in {"none", "early", "wait"}
    /\ answer \subseteq Errors
    /\ matched \subseteq Requests /\ reported \subseteq Requests

Init ==
    /\ variant \in {"parallel", "race", "turbo"} /\ stop \in BOOLEAN
    /\ main = "loop" /\ next = 1
    /\ worker = [r \in Requests |-> "none"]
    /\ outcome = [r \in Requests |-> Pending]
    /\ buffer = <<>> /\ closed = FALSE
    /\ running = TRUE /\ results = {} /\ cancelled = FALSE
    /\ down = {} /\ sawDown = FALSE
    /\ exit = "none" /\ answer = {}
    /\ matched = {} /\ reported = {} /\ delivered = {}

history == <<matched, reported, delivered, sawDown>>

\* Goroutines that hold a place of the pool.
Active == {r \in Requests : worker[r] \notin {"none", "released"}}

\* Acquire blocks when the pool is full; a race uses a pool without bound.
PoolHasRoom == variant = "race" \/ Cardinality(Active) < Threads

FoundFirstMatch == cancelled /\ stop

\* Mutant: the first match stops the others in every mode.
TriggerAlways == cancelled' = TRUE

Trigger == cancelled' = (cancelled \/ stop)

Go(r, state) == worker' = [worker EXCEPT ![r] = state]

\* The host error cache learns of failures on these hosts.
SetDown(hosts) == down' = hosts /\ sawDown' = (sawDown \/ hosts # {})

-----------------------------------------------------------------------------
(* The loop over the payloads. *)

\* The loop breaks at the first match or when the target is unresponsive.
MustBreak == FoundFirstMatch \/ Target \in down \/ (variant = "turbo" /\ cancelled)

Break ==
    /\ main = "loop"
    /\ next > N \/ MustBreak
    /\ main' = "wait"
    /\ UNCHANGED <<template, next, worker, outcome, buffer, closed, running, results,
                   cancelled, down, exit, answer, history>>

\* Mutant: the deferred cancellations are forgotten.
LeaveOpen(errs) ==
    /\ main' = "returned" /\ exit' = "early" /\ answer' = errs
    /\ UNCHANGED <<template, next, worker, outcome, buffer, closed, running, results,
                   cancelled, down, history>>

\* A return from inside the loop: the deferred calls cancel the contexts,
\* nobody waits for the goroutines.
LeaveEarly(errs) ==
    /\ main' = "returned" /\ exit' = "early" /\ answer' = errs
    /\ cancelled' = TRUE
    /\ UNCHANGED <<template, next, worker, outcome, buffer, closed, running, results,
                   down, history>>

\* The input's context is done or the request cannot be made; in a race the
\* requests are made before the handler.
Fail ==
    /\ main = "loop" /\ next <= N /\ variant # "race"
    /\ \E e \in Errors : LeaveEarly({e})

\* The host of this very request is unresponsive.
GiveUp ==
    /\ main = "loop" /\ next <= N /\ ~MustBreak
    /\ variant # "race" /\ HostOf[next] \in down
    /\ LeaveEarly({})

Make ==
    /\ main = "loop" /\ next <= N /\ ~MustBreak
    /\ variant = "race" \/ HostOf[next] \notin down
    /\ main' = "acquire"
    /\ UNCHANGED <<template, next, worker, outcome, buffer, closed, running, results,
                   cancelled, down, exit, answer, history>>

Acquire ==
    /\ main = "acquire" /\ PoolHasRoom
    /\ Go(next, "started")
    /\ next' = next + 1 /\ main' = "loop"
    /\ UNCHANGED <<template, outcome, buffer, closed, running, results, cancelled, down,
                   exit, answer, history>>

\* Mutant: the channel is closed while goroutines still run.
WaitForNobody ==
    /\ main = "wait"
    /\ closed' = TRUE
    /\ main' = "drain"
    /\ UNCHANGED <<template, next, worker, outcome, buffer, running, results, cancelled,
                   down, exit, answer, history>>

\* Wait: every goroutine has released its place, the channel is closed.
Wait ==
    /\ main = "wait" /\ Active = {}
    /\ closed' = TRUE
    /\ main' = "drain"
    /\ UNCHANGED <<template, next, worker, outcome, buffer, running, results, cancelled,
                   down, exit, answer, history>>

\* The results are in; nil results are dropped when the errors are combined.
Return ==
    /\ main = "drain" /\ ~running
    /\ main' = "returned" /\ exit' = "wait"
    /\ answer' = IF FoundFirstMatch THEN {} ELSE results \ {NoError}
    /\ cancelled' = TRUE
    /\ UNCHANGED <<template, next, worker, outcome, buffer, closed, running, results,
                   down, history>>

Loop == Break \/ Fail \/ GiveUp \/ Make \/ Acquire \/ Wait \/ Return
-----------------------------------------------------------------------------
(* The goroutine of a request. *)

\* What makes a goroutine end before it sends its request.
HostIsDown(r) == (IF variant = "race" THEN Target ELSE HostOf[r]) \in down
MustNotSend(r) ==
    FoundFirstMatch \/ HostIsDown(r) \/ (variant = "parallel" /\ cancelled)

\* The checks before the request, with the rate limiter between them in the
\* parallel variant.
CheckStop(r) ==
    /\ worker[r] \in {"started", "limited"}
    /\ Go(r, IF MustNotSend(r) THEN "released"
             ELSE IF variant = "parallel" /\ worker[r] = "started" THEN "limited"
             ELSE "executing")
    /\ UNCHANGED <<template, main, next, outcome, buffer, closed, running, results,
                   cancelled, down, exit, answer, history>>

\* Mutant: every match is reported.
MatchEach(r) ==
    /\ worker[r] = "executing" /\ r \notin matched
    /\ matched' = matched \cup {r}
    /\ reported' = reported \cup {r}
    /\ Go(r, "trigger")
    /\ UNCHANGED <<template, main, next, outcome, buffer, closed, running, results,
                   cancelled, down, exit, answer, delivered, sawDown>>

\* MatchCallback: the callback of a match runs, once if stop is on.
Match(r) ==
    /\ worker[r] = "executing" /\ r \notin matched
    /\ matched' = matched \cup {r}
    /\ reported' = IF stop /\ reported # {} THEN reported ELSE reported \cup {r}
    /\ Go(r, "trigger")
    /\ UNCHANGED <<template, main, next, outcome, buffer, closed, running, results,
                   cancelled, down, exit, answer, delivered, sawDown>>

StopOthers(r) ==
    /\ worker[r] = "trigger"
    /\ Trigger
    /\ Go(r, "executing")
    /\ UNCHANGED <<template, main, next, outcome, buffer, closed, running, results,
                   down, exit, answer, history>>

\* executeRequest returns; the operand of the send is now evaluated.
EndRequest(r, o) ==
    /\ worker[r] = "executing"
    /\ outcome' = [outcome EXCEPT ![r] = o]
    /\ Go(r, "result")
    /\ UNCHANGED <<template, main, next, buffer, closed, running, results, cancelled,
                   down, exit, answer, history>>

\* Mutant: the channel takes more than it has room for.
SendAnyway(r) ==
    /\ worker[r] = "result" /\ ~closed
    /\ buffer' = Append(buffer, outcome[r])
    /\ Go(r, "released")
    /\ UNCHANGED <<template, main, next, outcome, closed, running, results, cancelled,
                   down, exit, answer, history>>

\* The select takes either branch that is ready.
SendResult(r) ==
    /\ worker[r] = "result" /\ buffer = <<>> /\ ~closed
    /\ buffer' = <<outcome[r]>>
    /\ Go(r, "released")
    /\ UNCHANGED <<template, main, next, outcome, closed, running, results, cancelled,
                   down, exit, answer, history>>

DropResult(r) ==
    /\ worker[r] = "result" /\ cancelled
    /\ Go(r, "released")
    /\ UNCHANGED <<template, main, next, outcome, buffer, closed, running, results,
                   cancelled, down, exit, answer, history>>

Goroutine(r) ==
    \/ CheckStop(r) \/ Match(r) \/ StopOthers(r)
    \/ \E o \in Outcomes : EndRequest(r, o)
    \/ SendResult(r) \/ DropResult(r)
-----------------------------------------------------------------------------
(* The goroutine that receives the results. *)

\* Mutant: results are kept while there are fewer than one of them.
KeepOne(res, val) == IF res = {} THEN {val} ELSE res

\* h.results has at most MaxResults members, nil among them.
Keep(res, val) == IF Cardinality(res) >= MaxResults THEN res ELSE res \cup {val}

\* The callback of a result: a failure may make the target unresponsive,
\* and an unresponsive target cancels the requests.
Receive ==
    /\ running /\ buffer # <<>>
    /\ LET val == Head(buffer) IN
       /\ buffer' = <<>>
       /\ results' = Keep(results, val)
       /\ IF val = NoError
          THEN UNCHANGED <<template, cancelled, down, delivered, sawDown>>
          ELSE /\ delivered' = delivered \cup {val}
               /\ \E hosts \in {down, down \cup {Target}} :
                     /\ SetDown(hosts)
                     /\ cancelled' = (cancelled \/ Target \in hosts)
    /\ UNCHANGED <<template, main, next, worker, outcome, closed, running, exit, answer,
                   matched, reported>>

\* The channel is closed and empty, or the parent's context is done.
EndRun ==
    /\ running
    /\ (closed /\ buffer = <<>>) \/ (main = "returned" /\ cancelled)
    /\ running' = FALSE
    /\ UNCHANGED <<template, main, next, worker, outcome, buffer, closed, results,
                   cancelled, down, exit, answer, history>>

Run == Receive \/ EndRun
-----------------------------------------------------------------------------
\* Other templates report failures on the hosts, or evict them.
OtherTemplates ==
    /\ \E hosts \in SUBSET Hosts : SetDown(hosts)
    /\ UNCHANGED <<template, main, next, worker, outcome, buffer, closed, running,
                   results, cancelled, exit, answer, matched, reported, delivered>>

Next == Loop \/ (\E r \in Requests : Goroutine(r)) \/ Run \/ OtherTemplates

Spec == Init /\ [][Next]_vars

\* Requests end, by their timeout at the latest, and the scheduler is fair.
FairSpec == /\ Spec /\ WF_vars(Loop) /\ WF_vars(Run)
            /\ \A r \in Requests : WF_vars(Goroutine(r))
-----------------------------------------------------------------------------
(* Properties *)

\* Nothing is sent on ResultChan after Wait closed it: a goroutine that
\* still has a result to send then would panic.
NoSendAfterClose == closed => Active = {}

\* "it will be only executed once": with stop, one match is reported however
\* many requests match before they are stopped; without, all are.
MatchReported ==
    IF stop THEN Cardinality(reported) <= 1 /\ (matched # {} => reported # {})
    ELSE reported = matched

\* An execution that waited and answers no error although one was received
\* was stopped by a match or by an unresponsive target.
ErrorsAnswered ==
    (exit = "wait" /\ answer = {} /\ delivered # {}) => (stop /\ (matched # {} \/ sawDown))

\* When neither a match nor an unresponsive host stops the execution, every
\* request is executed and every error reaches the handler before Wait is over.
NothingLost ==
    (exit = "wait" /\ ~sawDown /\ (stop => matched = {})) =>
        /\ \A r \in Requests : outcome[r] # Pending
        /\ delivered = {outcome[r] : r \in Requests} \ {NoError}

(***************************************************************************)
(* Why these hold.                                                         *)
(***************************************************************************)
\* Where the loop is tells whether the channel is closed; from then on no
\* goroutine is left and the receiver has taken everything before it ends.
LoopInv ==
    /\ main = "acquire" => next <= N
    /\ main = "returned" <=> exit # "none"
    /\ closed <=> (main = "drain" \/ exit = "wait")
    /\ \A r \in Requests : closed => worker[r] \in {"none", "released"}
    /\ \A r \in Requests : next <= r => worker[r] = "none"
    /\ \A r \in Requests : worker[r] = "result" => outcome[r] # Pending
    /\ ~running /\ exit # "early" => closed /\ buffer = <<>>
    /\ exit = "wait" => ~running

\* Until the execution returns, its context is done only for a match or for
\* an unresponsive host.
StopInv ==
    /\ MatchReported
    /\ \A r \in Requests : worker[r] = "trigger" => matched # {}
    /\ down # {} => sawDown
    /\ cancelled /\ exit = "none" => sawDown \/ (stop /\ matched # {})

\* The first error finds room among the results, whatever came before it.
ResultInv ==
    /\ results \subseteq delivered \cup {NoError}
    /\ delivered # {} => delivered \cap results # {}
    /\ ErrorsAnswered

\* Nothing stops the execution, and nothing makes it return early.
Undisturbed == ~sawDown /\ (stop => matched = {}) /\ exit # "early"

\* Then every request the loop has passed is on its way, and its outcome is
\* with its goroutine, in the channel or with the receiver.
LosslessInv == Undisturbed =>
    /\ main \in {"wait", "drain", "returned"} => next = N + 1
    /\ \A r \in Requests : r < next => worker[r] # "none"
    /\ \A r \in Requests : worker[r] \in {"result", "released"} <=> outcome[r] # Pending
    /\ \A r \in Requests : worker[r] = "released" =>
           \/ outcome[r] \in delivered \cup {NoError}
           \/ buffer = <<outcome[r]>>
    /\ \A e \in delivered : \E r \in Requests : outcome[r] = e
    /\ buffer # <<>> => \E r \in Requests : buffer = <<outcome[r]>>

HTTPInv == TypeOK /\ LoopInv /\ StopInv /\ ResultInv /\ LosslessInv

\* Whatever the exit, the execution returns and all its goroutines end.
Settles == <>[](main = "returned" /\ Active = {} /\ ~running)

\* FoundFirstMatch "returns true if first match was found": when the
\* execution asks for it, some match was reported.
FirstMatchWasFound == (main = "drain" /\ ~running /\ FoundFirstMatch) => reported # {}
=============================================================================
