--------------------------- MODULE ComponentProofs ---------------------------
(***************************************************************************)
(* What the smaller components keep for any number of goroutines,          *)
(* parameters, scripts, secrets, rules and templates: the frequency        *)
(* tracker, the runtimes of scripts, the dynamic secret, the rules of      *)
(* fuzzing, the upload of results, the clusters of templates and the       *)
(* contexts of templates.                                                  *)
(***************************************************************************)
EXTENDS FrequencyTracker, ScriptPool, DynamicAuth, FuzzRule, UploadWriter, Clustering,
        TemplateContext, SequenceTheorems, FiniteSetTheorems, WellFoundedInduction, TLAPS
LOCAL INSTANCE FiniteSetsExt

-----------------------------------------------------------------------------
(* Scripts *)

\* Every step of the compiler keeps the types.
LEMMA ScriptTypeStep ==
    ASSUME ScriptTypeOK, NEW s \in Scripts, Compiler(s)
    PROVE  ScriptTypeOK'
<1> USE DEF ScriptTypeOK, Runtimes
<1>1. CASE Submit(s)
  BY <1>1 DEF Submit
<1>2. CASE EnterPooled(s)
  <2>1. runtime' \in [Scripts -> SUBSET Runtimes] /\ pool' \subseteq Runtimes
    BY <1>2 DEF EnterPooled
  <2> QED
    BY <1>2, <2>1 DEF EnterPooled
<1>3. CASE EnterEphemeral(s)
  BY <1>3 DEF EnterEphemeral
<1>4. CASE SetArgs(s)
  BY <1>4 DEF SetArgs
<1>5. CASE EndProgram(s)
  BY <1>5 DEF EndProgram
<1>6. CASE DeleteArgs(s)
  BY <1>6 DEF DeleteArgs
<1>7. CASE Leave(s)
  BY <1>7 DEF Leave
<1>8. CASE Deadline(s)
  BY <1>8 DEF Deadline
<1> QED
  BY <1>1, <1>2, <1>3, <1>4, <1>5, <1>6, <1>7, <1>8 DEF Compiler

\* Every step keeps runtimes apart, whether or not the caller is still there.
LEMMA RuntimesApartStep ==
    ASSUME ScriptTypeOK, RuntimesApart, NEW s \in Scripts, Compiler(s)
    PROVE  RuntimesApart'
<1> USE DEF ScriptTypeOK, RuntimesApart, Runtimes, InSlot
<1>1. CASE Submit(s)
  BY <1>1 DEF Submit
<1>2. CASE EnterPooled(s)
  <2>1. /\ script[s] = "queued" /\ script' = [script EXCEPT ![s] = "entered"]
        /\ globals' = globals /\ runtime[s] = {}
    BY <1>2 DEF EnterPooled
  <2>2. PICK v \in Scripts : /\ runtime' = [runtime EXCEPT ![s] = {v}]
                             /\ v \in pool \/ v = s
                             /\ pool' = pool \ {v}
    <3>1. s \notin pool
      BY <2>1
    <3> QED
      BY <1>2, <3>1 DEF EnterPooled
  <2>3. /\ runtime'[s] = {v} /\ script'[s] = "entered"
        /\ \A q \in Scripts \ {s} : runtime'[q] = runtime[q] /\ script'[q] = script[q]
    BY <2>1, <2>2
  <2>4. \A q \in Scripts : v \notin runtime[q]
    BY <2>1, <2>2
  <2>5. v = s \/ script[v] \notin {"none", "queued"}
    BY <2>2
  <2>6. \A q \in Scripts : script'[q] \in {"none", "queued"} =>
           \A p \in Scripts : q \notin runtime'[p] /\ q \notin pool'
    BY <2>2, <2>3, <2>5
  <2>7. \A q, p \in Scripts : q # p => runtime'[q] \cap runtime'[p] = {}
    BY <2>3, <2>4
  <2>8. \A q \in Scripts : runtime'[q] \cap pool' = {}
    BY <2>2, <2>3
  <2>9. /\ \A q \in Scripts : call'[q] = "new" => script'[q] = "none"
        /\ \A q \in Scripts : q \notin InSlot' => runtime'[q] = {}
    <3>1. call' = call
      BY <1>2 DEF EnterPooled
    <3> QED
      BY <2>1, <2>3, <3>1
  <2>10. \A u \in Runtimes : \A q \in globals'[u] :
            u \in runtime'[q] /\ script'[q] \in {"running", "leaving"}
    BY <2>1, <2>3
  <2>11. \A q \in Scripts : script'[q] = "running" => \A u \in runtime'[q] : q \in globals'[u]
    BY <2>1, <2>3
  <2> QED
    BY <2>6, <2>7, <2>8, <2>9, <2>10, <2>11
<1>3. CASE EnterEphemeral(s)
  BY <1>3 DEF EnterEphemeral
<1>4. CASE SetArgs(s)
  BY <1>4 DEF SetArgs
<1>5. CASE EndProgram(s)
  BY <1>5 DEF EndProgram
<1>6. CASE DeleteArgs(s)
  BY <1>6 DEF DeleteArgs
<1>7. CASE Leave(s)
  BY <1>7 DEF Leave
<1>8. CASE Deadline(s)
  BY <1>8 DEF Deadline
<1> QED
  BY <1>1, <1>2, <1>3, <1>4, <1>5, <1>6, <1>7, <1>8 DEF Compiler

\* Running scripts have a runtime with their own arguments alone, for any
\* number of scripts and slots.
THEOREM ArgumentsAreIsolated == ScriptSpec => []ArgsIsolated
<1>1. ScriptInit => ScriptTypeOK /\ RuntimesApart
  BY DEF ScriptInit, ScriptTypeOK, RuntimesApart, Runtimes, InSlot
<1>2. ASSUME ScriptTypeOK, RuntimesApart, [ScriptNext]_scriptVars
      PROVE  ScriptTypeOK' /\ RuntimesApart'
  <2>1. CASE UNCHANGED scriptVars
    BY <1>2, <2>1 DEF scriptVars, ScriptTypeOK, RuntimesApart, Runtimes, InSlot
  <2> QED
    BY <1>2, <2>1, ScriptTypeStep, RuntimesApartStep DEF ScriptNext
<1>3. ScriptSpec => [](ScriptTypeOK /\ RuntimesApart)
  BY <1>1, <1>2, PTL DEF ScriptSpec
<1>4. ASSUME ScriptTypeOK, RuntimesApart PROVE ArgsIsolated
  <2> SUFFICES ASSUME NEW s \in Scripts, script[s] = "running", NEW v \in runtime[s]
               PROVE  globals[v] = {s}
    BY DEF ArgsIsolated
  <2>1. v \in Runtimes /\ s \in globals[v] /\ globals[v] \subseteq Scripts
    BY <1>4 DEF ScriptTypeOK, RuntimesApart
  <2>2. \A q \in globals[v] : q = s
    BY <1>4, <2>1 DEF RuntimesApart
  <2> QED
    BY <2>1, <2>2
<1> QED
  BY <1>3, <1>4, PTL

-----------------------------------------------------------------------------
(* The dynamic secret *)

LEMMA AuthTypeStep ==
    ASSUME AuthTypeOK, AuthNext
    PROVE  AuthTypeOK'
<1> USE DEF AuthTypeOK, modes, Goes
<1>1. ASSUME NEW e \in Entries, NEW n \in 0..NumFields
      PROVE  Resolve(e, n) \in [Entries -> 0..NumFields]
  BY DEF Resolve
<1>2. ASSUME NEW e \in Entries, PrefetchSecret(e)
      PROVE  AuthTypeOK'
  <2>1. NumFields \in 0..NumFields
    BY AuthAssumption
  <2>2. resolved' \in [Entries -> 0..NumFields]
    BY <1>1, <1>2, <2>1 DEF PrefetchSecret
  <2>3. logins' \in [Entries -> 0..MaxLogins]
    BY <1>2, AuthAssumption DEF PrefetchSecret
  <2>4. /\ fetched' \in [Entries -> BOOLEAN] /\ refused' \in [Entries -> BOOLEAN]
        /\ exited' \in BOOLEAN
    BY <1>2, Zenon DEF PrefetchSecret
  <2> QED
    BY <1>2, <2>2, <2>3, <2>4 DEF PrefetchSecret
<1>3. ASSUME NEW r \in Requests, Login(r)
      PROVE  AuthTypeOK'
  <2>1. logins' \in [Entries -> 0..MaxLogins] /\ auth'[r] \in {"resolve", "fatal"}
    BY <1>3, AuthAssumption DEF Login
  <2>2. fetched' \in [Entries -> BOOLEAN] /\ refused' \in [Entries -> BOOLEAN]
    BY <1>3, Zenon DEF Login
  <2> QED
    BY <1>3, <2>1, <2>2 DEF Login
<1>4. ASSUME NEW r \in Requests, ResolveField(r)
      PROVE  AuthTypeOK'
  <2>1. resolved' \in [Entries -> 0..NumFields]
    <3>1. resolved[entry[r]] + 1 <= NumFields => resolved[entry[r]] + 1 \in 0..NumFields
      BY AuthAssumption
    <3> QED
      BY <1>1, <1>4, <3>1 DEF ResolveField
  <2> QED
    BY <1>4, <2>1 DEF ResolveField
<1>5. ASSUME NEW r \in Requests, NEW e \in Entries, LookupStrategy(r, e)
      PROVE  AuthTypeOK'
  BY <1>5 DEF LookupStrategy
<1>6. ASSUME NEW r \in Requests,
             \/ CheckFetched(r) \/ LockFetch(r) \/ RecheckFetched(r) \/ UnlockFetch(r)
             \/ CheckError(r) \/ ApplyStrategy(r)
      PROVE  AuthTypeOK'
  BY <1>6 DEF CheckFetched, LockFetch, RecheckFetched, UnlockFetch, CheckError, ApplyStrategy
<1>7. ASSUME NEW r \in Requests, FatalError(r)
      PROVE  AuthTypeOK'
  BY <1>7 DEF FatalError
<1> QED
  BY <1>2, <1>3, <1>4, <1>5, <1>6, <1>7 DEF AuthNext, AuthStep

\* A request steps only when everything that is prefetched was.
LEMMA AuthStepScans ==
    ASSUME NEW r \in Requests, AuthStep(r)
    PROVE  Scanning
BY DEF AuthStep, LookupStrategy, CheckFetched, LockFetch, RecheckFetched, Login, ResolveField,
       FatalError, UnlockFetch, CheckError, ApplyStrategy, Goes

\* Putting in a value takes none out.
LEMMA ResolveGoesOn ==
    ASSUME AuthTypeOK, NEW e \in Entries, NEW n \in 0..NumFields, resolved[e] <= n
    PROVE  /\ Resolve(e, n) \in [Entries -> 0..NumFields]
           /\ Resolve(e, n)[e] = n
           /\ \A d \in Entries : resolved[d] <= Resolve(e, n)[d]
BY AuthAssumption DEF Resolve, AuthTypeOK

LEMMA LoginGuardedStep ==
    ASSUME AuthTypeOK, LoginGuarded, AuthNext
    PROVE  LoginGuarded'
<1> USE DEF AuthTypeOK, LoginGuarded, modes, InFetch, Ready
<1>1. ASSUME NEW e \in Entries, PrefetchSecret(e)
      PROVE  LoginGuarded'
  <2>1. /\ UNCHANGED <<prefetch, auth, entry, lock>>
        /\ prefetch /\ ~fetched[e]
        /\ logins' = [logins EXCEPT ![e] = @ + 1]
        /\ fetched' = [fetched EXCEPT ![e] = TRUE]
        /\ resolved' = Resolve(e, NumFields) \/ (exited' /\ resolved' = resolved)
        /\ exited' = exited \/ exited'
    BY <1>1 DEF PrefetchSecret
  <2>2. \A r \in Requests : auth[r] = "idle"
    BY <2>1
  <2>3. NumFields \in 0..NumFields /\ resolved[e] <= NumFields
    BY AuthAssumption
  <2>4. \A d \in Entries : d # e => resolved[d] <= resolved'[d]
    BY <2>1, <2>3, ResolveGoesOn, AuthAssumption
  <2>5. /\ resolved'[e] = NumFields \/ exited'
        /\ \A d \in Entries : resolved'[d] \in 0..NumFields
    BY <2>1, <2>3, ResolveGoesOn
  <2>6. \A d \in Entries : logins'[d] = IF fetched'[d] THEN 1 ELSE 0
    BY <2>1
  <2>7. exited => exited'
    BY <1>1 DEF PrefetchSecret
  <2>8. \A d \in Entries : fetched'[d] => resolved'[d] = NumFields \/ exited'
    <3> SUFFICES ASSUME NEW d \in Entries, d # e, fetched'[d], ~exited'
                 PROVE  resolved'[d] = NumFields
      BY <2>5
    <3>1. fetched[d] /\ ~exited
      BY <2>1, <2>7
    <3>2. resolved[d] = NumFields
      BY <2>2, <3>1
    <3> QED
      BY <2>4, <2>5, <3>2, AuthAssumption
  <2> QED
    BY <2>1, <2>2, <2>6, <2>8
<1>2. ASSUME NEW r \in Requests, AuthStep(r)
      PROVE  LoginGuarded'
  <2>1. prefetch => \A e \in Entries : fetched[e]
    BY <1>2, AuthStepScans DEF Scanning
  <2>2. CASE LockFetch(r)
    BY <2>1, <2>2 DEF LockFetch, Goes
  <2>3. CASE RecheckFetched(r)
    BY <2>1, <2>3 DEF RecheckFetched, Goes
  <2>4. CASE Login(r)
    <3>1. /\ auth[r] = "login" /\ r \in lock /\ ~fetched[entry[r]]
          /\ auth' \in {[auth EXCEPT ![r] = "resolve"], [auth EXCEPT ![r] = "fatal"]}
          /\ fetched' = [fetched EXCEPT ![entry[r]] = TRUE]
          /\ logins' = [logins EXCEPT ![entry[r]] = @ + 1]
          /\ UNCHANGED <<prefetch, entry, lock, resolved, exited>>
      BY <2>4 DEF Login, Goes
    <3>2. \A e \in Entries : logins'[e] = IF fetched'[e] THEN 1 ELSE 0
      BY <3>1
    <3>3. \A q \in Requests : q # r => auth'[q] = auth[q] /\ auth[q] # "login"
      BY <3>1
    <3> QED
      BY <2>1, <3>1, <3>2, <3>3
  <2>5. CASE ResolveField(r)
    <3> DEFINE n == resolved[entry[r]] + 1
    <3>1. /\ auth[r] = "resolve" /\ r \in lock
          /\ auth' = [auth EXCEPT ![r] = IF n >= NumFields THEN "unlock" ELSE "resolve"]
          /\ resolved' = IF n <= NumFields THEN Resolve(entry[r], n) ELSE resolved
          /\ UNCHANGED <<prefetch, entry, lock, fetched, logins, exited>>
      BY <2>5 DEF ResolveField, Goes
    <3>2. /\ \A d \in Entries : resolved[d] <= resolved'[d] /\ resolved'[d] \in 0..NumFields
          /\ n >= NumFields => resolved'[entry[r]] = NumFields
      <4>1. entry[r] \in Entries /\ resolved[entry[r]] \in 0..NumFields /\ NumFields \in Nat
        BY AuthAssumption
      <4>2. CASE n <= NumFields
        <5>1. n \in 0..NumFields /\ resolved[entry[r]] <= n
          BY <4>1, <4>2
        <5>2. resolved' = Resolve(entry[r], n)
          BY <3>1, <4>2
        <5>3. /\ resolved' \in [Entries -> 0..NumFields] /\ resolved'[entry[r]] = n
              /\ \A d \in Entries : resolved[d] <= resolved'[d]
          BY <4>1, <5>1, <5>2, ResolveGoesOn
        <5> QED
          BY <4>1, <4>2, <5>3
      <4>3. CASE ~(n <= NumFields)
        BY <3>1, <4>1, <4>3
      <4> QED
        BY <4>2, <4>3
    <3>3. \A d \in Entries : resolved[d] = NumFields => resolved'[d] = NumFields
      BY <3>2, AuthAssumption
    <3>4. fetched[entry[r]]
      BY <3>1
    <3> QED
      BY <2>1, <3>1, <3>2, <3>3, <3>4
  <2>6. CASE UnlockFetch(r)
    BY <2>1, <2>6 DEF UnlockFetch, Goes
  <2>7. CASE \E e \in Entries : LookupStrategy(r, e)
    BY <2>1, <2>7 DEF LookupStrategy, Goes
  <2>8. CASE CheckFetched(r) \/ CheckError(r) \/ ApplyStrategy(r)
    BY <2>1, <2>8 DEF CheckFetched, CheckError, ApplyStrategy, Goes
  <2>9. CASE FatalError(r)
    BY <2>1, <2>9 DEF FatalError
  <2> QED
    BY <1>2, <2>2, <2>3, <2>4, <2>5, <2>6, <2>7, <2>8, <2>9 DEF AuthStep
<1> QED
  BY <1>1, <1>2 DEF AuthNext

LEMMA AuthInvariant == AuthSpec => [](AuthTypeOK /\ LoginGuarded)
<1>1. ASSUME AuthInit PROVE AuthTypeOK /\ LoginGuarded
  <2>1. (CHOOSE e \in Entries : TRUE) \in Entries
    BY AuthAssumption
  <2>2. AuthTypeOK
    <3>1. prefetch \in BOOLEAN /\ shared \in BOOLEAN /\ exited \in BOOLEAN
      BY <1>1, Zenon DEF AuthInit
    <3>2. fetched \in [Entries -> BOOLEAN] /\ refused \in [Entries -> BOOLEAN]
      BY <1>1, Zenon DEF AuthInit
    <3>3. resolved \in [Entries -> 0..NumFields] /\ logins \in [Entries -> 0..MaxLogins]
      BY <1>1, AuthAssumption DEF AuthInit
    <3>4. entry \in [Requests -> Entries]
      BY <1>1, <2>1, Zenon DEF AuthInit
    <3> QED
      BY <1>1, <3>1, <3>2, <3>3, <3>4 DEF AuthInit, AuthTypeOK
  <2>3. LoginGuarded
    BY <1>1 DEF AuthInit, LoginGuarded, InFetch
  <2> QED
    BY <2>2, <2>3
<1>2. AuthTypeOK /\ LoginGuarded /\ UNCHANGED authVars => AuthTypeOK' /\ LoginGuarded'
  BY DEF authVars, AuthTypeOK, LoginGuarded, InFetch, Ready
<1>3. AuthTypeOK /\ LoginGuarded /\ [AuthNext]_authVars => AuthTypeOK' /\ LoginGuarded'
  BY <1>2, AuthTypeStep, LoginGuardedStep
<1> QED
  BY <1>1, <1>3, PTL DEF AuthSpec

\* The login template of an entry is run once, for any number of requests.
THEOREM LoginsAreSingle == AuthSpec => []OneLoginPerEntry
<1>1. LoginGuarded => OneLoginPerEntry
  BY DEF LoginGuarded, OneLoginPerEntry
<1> QED
  BY <1>1, AuthInvariant, PTL

\* A request goes out with a placeholder at most while a fetch is under way.
THEOREM RawWhileFetching == AuthSpec => RawOnlyWhileFetching
<1>1. ASSUME AuthTypeOK, LoginGuarded, [AuthNext]_authVars, NEW r \in Requests, Applies(r)
      PROVE  Ready(entry[r]) \/ \E q \in lock : entry[q] = entry[r]
  <2>1. fetched[entry[r]] /\ entry[r] \in Entries
    BY <1>1 DEF Applies, LoginGuarded, AuthTypeOK
  <2>2. ~exited
    <3>1. CASE UNCHANGED authVars
      BY <1>1, <3>1 DEF Applies, authVars
    <3>2. ASSUME NEW e \in Entries, PrefetchSecret(e) PROVE FALSE
      BY <1>1, <3>2 DEF Applies, PrefetchSecret
    <3>3. ASSUME NEW q \in Requests, AuthStep(q) PROVE ~exited
      BY <3>3, AuthStepScans DEF Scanning
    <3> QED
      BY <1>1, <3>1, <3>2, <3>3 DEF AuthNext
  <2> QED
    BY <1>1, <2>1, <2>2 DEF LoginGuarded
<1>2. AuthTypeOK /\ LoginGuarded /\ [AuthNext]_authVars =>
         [\A r \in Requests : Applies(r) =>
            Ready(entry[r]) \/ \E q \in lock : entry[q] = entry[r]]_authVars
  BY <1>1
<1> QED
  BY <1>2, AuthInvariant, PTL DEF AuthSpec, RawOnlyWhileFetching

-----------------------------------------------------------------------------
(* The frequency tracker *)

LEMMA FreqTypeStep ==
    ASSUME FreqTypeOK, NEW w \in Fuzzers, FreqStep(w)
    PROVE  FreqTypeOK'
<1> USE DEF FreqTypeOK
<1>1. ASSUME NEW p \in Params, PickParam(w, p) \/ Interaction(w, p)
      PROVE  FreqTypeOK'
  <2>1. /\ fuzzer' = [fuzzer EXCEPT ![w] = fuzzer'[w]] /\ fuzzer'[w] \in {"check", "sent"}
        /\ param' = [param EXCEPT ![w] = p]
        /\ UNCHANGED <<counter, tracked, count, marks, deferred, since, outdated>>
    BY <1>1 DEF PickParam, Interaction
  <2>2. /\ fuzzer' \in [Fuzzers -> {"idle", "check", "load", "skipped", "sent", "add", "set"}]
        /\ param' \in [Fuzzers -> Params]
    BY <2>1
  <2> QED
    BY <2>1, <2>2
<1>2. CASE GetCounter(w)
  <2>1. /\ fuzzer' = [fuzzer EXCEPT ![w] = fuzzer'[w]] /\ fuzzer'[w] \in {"load", "sent"}
        /\ counter' = [counter EXCEPT ![w] = tracked[param[w]]]
        /\ UNCHANGED <<param, tracked, count, marks, deferred, since, outdated>>
    BY <1>2 DEF GetCounter
  <2>2. /\ fuzzer' \in [Fuzzers -> {"idle", "check", "load", "skipped", "sent", "add", "set"}]
        /\ counter' \in [Fuzzers -> 0..MaxMarks]
    BY <2>1
  <2> QED
    BY <2>1, <2>2
<1>3. CASE LoadCounter(w)
  <2>1. /\ fuzzer' = [fuzzer EXCEPT ![w] = fuzzer'[w]] /\ fuzzer'[w] \in {"skipped", "sent"}
        /\ counter' = [counter EXCEPT ![w] = 0] /\ 0 \in 0..MaxMarks
        /\ UNCHANGED <<param, tracked, count, marks, deferred, since, outdated>>
    BY <1>3, FreqAssumption DEF LoadCounter
  <2>2. /\ fuzzer' \in [Fuzzers -> {"idle", "check", "load", "skipped", "sent", "add", "set"}]
        /\ counter' \in [Fuzzers -> 0..MaxMarks]
    BY <2>1
  <2> QED
    BY <2>1, <2>2
<1>4. CASE Mark(w)
  <2>1. marks + 1 \in 1..MaxMarks
    BY <1>4, FreqAssumption DEF Mark
  <2>2. fuzzer' \in [Fuzzers -> {"idle", "check", "load", "skipped", "sent", "add", "set"}]
    BY <1>4 DEF Mark
  <2>3. counter' \in [Fuzzers -> 0..MaxMarks] /\ marks' \in 0..MaxMarks
    <3>1. PICK i \in 0..MaxMarks : counter' = [counter EXCEPT ![w] = i]
      <4>1. marks + 1 \in 0..MaxMarks /\ tracked[param[w]] \in 0..MaxMarks
        BY <2>1
      <4> QED
        BY <1>4, <4>1 DEF Mark
    <3>2. marks' = marks + 1
      BY <1>4 DEF Mark
    <3> QED
      BY <2>1, <3>1, <3>2
  <2>4. count' \in [1..MaxMarks -> Nat] /\ since' \in [Params -> Nat]
    <3>1. CASE tracked[param[w]] # 0
      BY <1>4, <3>1 DEF Mark
    <3>2. CASE tracked[param[w]] = 0
      <4>1. count' = [count EXCEPT ![marks + 1] = 1]
        BY <1>4, <3>2 DEF Mark
      <4>2. since' = [since EXCEPT ![param[w]] = since[param[w]] + 1]
        BY <1>4, <3>2 DEF Mark
      <4>3. since[param[w]] + 1 \in Nat
        OBVIOUS
      <4> QED
        BY <4>1, <4>2, <4>3
    <3> QED
      BY <3>1, <3>2
  <2> QED
    BY <1>4, <2>2, <2>3, <2>4 DEF Mark
<1>5. CASE AddOne(w)
  <2>1. fuzzer' \in [Fuzzers -> {"idle", "check", "load", "skipped", "sent", "add", "set"}]
    BY <1>5 DEF AddOne
  <2>2. count' \in [1..MaxMarks -> Nat]
    <3>1. count' = [count EXCEPT ![counter[w]] = count[counter[w]] + 1]
      BY <1>5 DEF AddOne
    <3>2. ASSUME NEW i \in 1..MaxMarks PROVE count[i] + 1 \in Nat
      <4>1. count[i] \in Nat
        OBVIOUS
      <4> QED
        BY <4>1
    <3> QED
      BY <3>1, <3>2
  <2>3. since' \in [Params -> Nat]
    <3>1. since' = [since EXCEPT ![param[w]] = since[param[w]] + 1]
      BY <1>5 DEF AddOne
    <3>2. since[param[w]] + 1 \in Nat
      OBVIOUS
    <3> QED
      BY <3>1, <3>2
  <2> QED
    BY <1>5, <2>1, <2>2, <2>3 DEF AddOne
<1>6. CASE SetCounter(w)
  <2>1. fuzzer' \in [Fuzzers -> {"idle", "check", "load", "skipped", "sent", "add", "set"}]
    BY <1>6 DEF SetCounter
  <2>2. 0 \in 0..MaxMarks /\ counter[w] \in 0..MaxMarks
    BY FreqAssumption
  <2>3. counter' \in [Fuzzers -> 0..MaxMarks]
    <3>1. counter' = [counter EXCEPT ![w] = 0]
      BY <1>6 DEF SetCounter
    <3> QED
      BY <2>2, <3>1
  <2>4. tracked' \in [Params -> 0..MaxMarks]
    BY <1>6, <2>2 DEF SetCounter
  <2> QED
    BY <1>6, <2>1, <2>3, <2>4 DEF SetCounter
<1>7. CASE Unmark(w)
  <2>1. Held(param[w], w) \subseteq 1..MaxMarks
    BY FreqAssumption DEF Held
  <2>2. 0 \in 0..MaxMarks
    BY FreqAssumption
  <2> QED
    BY <1>7, <2>1, <2>2 DEF Unmark
<1>8. CASE EndRequest(w)
  BY <1>8 DEF EndRequest
<1> QED
  BY <1>1, <1>2, <1>3, <1>4, <1>5, <1>6, <1>7, <1>8 DEF FreqStep

\* A goroutine that lets go of its counter, or takes that of the cache.
LEMMA FreqTakes ==
    ASSUME FreqTypeOK, FreqBehind, NEW w \in Fuzzers,
           UNCHANGED <<param, tracked, count, since, outdated>>, marks' \in {marks, marks + 1},
           counter'[w] \in {0, tracked[param[w]]},
           fuzzer'[w] \in {"idle", "check", "sent", "skipped"} => counter'[w] = 0,
           fuzzer'[w] \in {"load", "add", "set"} => counter'[w] # 0,
           \A v \in Fuzzers \ {w} : fuzzer'[v] = fuzzer[v] /\ counter'[v] = counter[v]
    PROVE  FreqBehind'
<1> USE DEF FreqTypeOK, FreqBehind, Current, Resting
<1>1. marks \in Nat /\ marks <= marks' /\ param[w] \in Params
  BY FreqAssumption
<1>2. \A p \in Params :
        tracked[p] # 0 => /\ tracked[p] <= marks'
                          /\ tracked[p] \notin outdated => count[tracked[p]] <= since[p]
  BY <1>1
<1>3. \A v \in Fuzzers :
        /\ counter'[v] <= marks'
        /\ counter'[v] # 0 /\ counter'[v] \notin outdated => count[counter'[v]] <= since[param[v]]
  <2> TAKE v \in Fuzzers
  <2>1. CASE v = w
    BY <1>1, <1>2, <2>1
  <2>2. CASE v # w
    <3>1. counter'[v] = counter[v] /\ counter[v] \in Nat /\ counter[v] <= marks
      BY <2>2, FreqAssumption
    <3> QED
      BY <1>1, <3>1
  <2> QED
    BY <2>1, <2>2
<1>4. \A v \in Fuzzers :
        /\ fuzzer'[v] \in {"idle", "skipped", "check", "sent"} => counter'[v] = 0
        /\ fuzzer'[v] \in {"load", "add", "set"} => counter'[v] # 0
  <2> TAKE v \in Fuzzers
  <2>1. CASE v = w
    BY <2>1
  <2>2. CASE v # w
    BY <2>2
  <2> QED
    BY <2>1, <2>2
<1>5. \A p \in Params, v \in Fuzzers :
        counter'[v] # 0 /\ param[v] # p => counter'[v] # tracked[p]
  <2> TAKE p \in Params, v \in Fuzzers
  <2>1. CASE v = w
    BY <1>1, <2>1
  <2>2. CASE v # w
    BY <2>2
  <2> QED
    BY <2>1, <2>2
<1>6. \A u, v \in Fuzzers :
        counter'[v] # 0 /\ param[v] # param[u] => counter'[v] # counter'[u]
  <2> TAKE u, v \in Fuzzers
  <2> HAVE counter'[v] # 0 /\ param[v] # param[u]
  <2>0. param[u] \in Params /\ param[v] \in Params
    OBVIOUS
  <2>1. CASE v # w /\ u # w
    BY <2>1
  <2>2. CASE v = w /\ u # w
    <3>1. counter'[u] = counter[u] /\ counter'[v] = tracked[param[v]]
      BY <2>2
    <3>2. counter[u] = 0 \/ counter[u] # tracked[param[v]]
      BY <2>0, <2>2
    <3> QED
      BY <3>1, <3>2
  <2>3. CASE u = w /\ v # w
    BY <2>0, <2>3
  <2> QED
    BY <2>1, <2>2, <2>3
<1>7. \A i \in outdated : i <= marks'
  BY <1>1, FreqAssumption
<1> QED
  BY <1>2, <1>3, <1>4, <1>5, <1>6, <1>7

LEMMA FreqBehindStep ==
    ASSUME FreqTypeOK, FreqBehind, NEW w \in Fuzzers, FreqStep(w)
    PROVE  FreqBehind'
<1> USE DEF FreqTypeOK, FreqBehind, Current, Resting
<1>1. ASSUME NEW p \in Params, PickParam(w, p) \/ Interaction(w, p)
      PROVE  FreqBehind'
  <2>1. /\ UNCHANGED <<counter, tracked, count, marks, since, outdated>>
        /\ counter[w] = 0 /\ fuzzer'[w] \in {"check", "sent"}
        /\ \A v \in Fuzzers \ {w} : fuzzer'[v] = fuzzer[v] /\ param'[v] = param[v]
    BY <1>1 DEF PickParam, Interaction
  <2> QED
    BY <2>1
<1>2. CASE GetCounter(w)
  <2>1. /\ UNCHANGED <<param, tracked, count, marks, since, outdated>>
        /\ counter'[w] = tracked[param[w]] /\ param[w] \in Params
        /\ IF tracked[param[w]] = 0 THEN fuzzer'[w] = "sent" ELSE fuzzer'[w] = "load"
        /\ \A v \in Fuzzers \ {w} : fuzzer'[v] = fuzzer[v] /\ counter'[v] = counter[v]
    BY <1>2 DEF GetCounter
  <2> QED
    BY <2>1, FreqTakes
<1>3. CASE LoadCounter(w)
  <2>1. /\ UNCHANGED <<param, tracked, count, marks, since, outdated>>
        /\ counter'[w] = 0 /\ fuzzer'[w] \in {"skipped", "sent"}
        /\ \A v \in Fuzzers \ {w} : fuzzer'[v] = fuzzer[v] /\ counter'[v] = counter[v]
    BY <1>3 DEF LoadCounter
  <2> QED
    BY <2>1, FreqTakes
<1>4. CASE Mark(w)
  <2>1. /\ UNCHANGED <<param, tracked, outdated>> /\ marks' = marks + 1 /\ param[w] \in Params
        /\ marks \in Nat /\ marks + 1 \in 1..MaxMarks
        /\ counter[w] = 0
        /\ \A v \in Fuzzers \ {w} : fuzzer'[v] = fuzzer[v] /\ counter'[v] = counter[v]
    BY <1>4, FreqAssumption DEF Mark
  <2>2. CASE tracked[param[w]] # 0
    <3>1. /\ UNCHANGED <<count, since>> /\ fuzzer'[w] = "add"
          /\ counter'[w] = tracked[param[w]]
      BY <1>4, <2>2 DEF Mark
    <3> QED
      BY <2>1, <2>2, <3>1, FreqTakes
  <2>3. CASE tracked[param[w]] = 0
    <3>1. /\ fuzzer'[w] = "set" /\ counter'[w] = marks + 1
          /\ count' = [count EXCEPT ![marks + 1] = 1]
          /\ since' = [since EXCEPT ![param[w]] = @ + 1]
      BY <1>4, <2>3 DEF Mark
    <3>2. /\ \A p \in Params : tracked[p] # marks + 1
          /\ \A v \in Fuzzers : counter[v] # marks + 1
      <4>1. \A n \in 0..marks : n # marks + 1
        OBVIOUS
      <4> QED
        BY <2>1, <4>1
    <3>3. \A i \in 1..MaxMarks : i # marks + 1 => count'[i] = count[i]
      BY <3>1
    <3>4. /\ count'[marks + 1] = 1 /\ since'[param[w]] = since[param[w]] + 1
          /\ \A p \in Params : since[p] \in Nat /\ since[p] <= since'[p]
      BY <2>1, <3>1
    <3>5. \A i \in 1..MaxMarks : count[i] \in Nat
      OBVIOUS
    <3>6. \A p \in Params :
            tracked[p] # 0 => /\ tracked[p] <= marks'
                              /\ Current(tracked[p]) => count'[tracked[p]] <= since'[p]
      <4> TAKE p \in Params
      <4> HAVE tracked[p] # 0
      <4>1. tracked[p] \in 1..MaxMarks /\ tracked[p] <= marks /\ since[p] <= since'[p]
            /\ since[p] \in Nat /\ since'[p] \in Nat
        BY <3>1, <3>4
      <4>2. count'[tracked[p]] = count[tracked[p]] /\ count[tracked[p]] \in Nat
        BY <3>2, <3>3, <3>5, <4>1
      <4> QED
        BY <2>1, <4>1, <4>2
    <3>7. \A v \in Fuzzers :
            /\ counter'[v] <= marks'
            /\ counter'[v] # 0 /\ Current(counter'[v]) =>
                  count'[counter'[v]] <= since'[param[v]]
      <4> TAKE v \in Fuzzers
      <4>1. CASE v = w
        BY <2>1, <3>1, <3>4, <4>1
      <4>2. CASE v # w
        <5>1. /\ counter'[v] = counter[v] /\ counter[v] <= marks
              /\ counter[v] # 0 => counter[v] \in 1..MaxMarks
              /\ param[v] \in Params
          BY <2>1, <4>2
        <5>2. counter[v] # 0 => count'[counter[v]] = count[counter[v]]
          BY <3>2, <3>3, <5>1
        <5>3. counter[v] \in Nat /\ marks \in Nat
          BY <2>1
        <5>4. counter'[v] <= marks'
          BY <2>1, <5>1, <5>3
        <5>5. ASSUME counter'[v] # 0, Current(counter'[v])
              PROVE  count'[counter'[v]] <= since'[param[v]]
          <6>1. count[counter[v]] <= since[param[v]]
            BY <5>1, <5>5
          <6>2. count'[counter'[v]] = count[counter[v]] /\ count[counter[v]] \in Nat
            BY <3>5, <5>1, <5>2, <5>5
          <6>3. since'[param[v]] \in Nat /\ since[param[v]] \in Nat
            BY <3>1, <3>4, <5>1
          <6> QED
            BY <3>4, <5>1, <6>1, <6>2, <6>3
        <5> QED
          BY <5>4, <5>5
      <4> QED
        BY <4>1, <4>2
    <3>8. \A p \in Params, v \in Fuzzers :
             counter'[v] # 0 /\ param[v] # p => counter'[v] # tracked[p]
      BY <2>1, <3>1, <3>2
    <3>9. \A u, v \in Fuzzers :
             counter'[v] # 0 /\ param[v] # param[u] => counter'[v] # counter'[u]
      BY <2>1, <3>1, <3>2
    <3> QED
      BY <2>1, <3>1, <3>6, <3>7, <3>8, <3>9
  <2> QED
    BY <2>2, <2>3
<1>5. CASE AddOne(w)
  <2>1. /\ UNCHANGED <<param, counter, tracked, marks, outdated>>
        /\ fuzzer[w] = "add" /\ fuzzer'[w] = "set" /\ counter[w] # 0
        /\ \A v \in Fuzzers \ {w} : fuzzer'[v] = fuzzer[v]
        /\ count' = [count EXCEPT ![counter[w]] = @ + 1]
        /\ since' = [since EXCEPT ![param[w]] = @ + 1]
    BY <1>5 DEF AddOne
  <2>2. counter[w] \in 1..MaxMarks /\ param[w] \in Params
    BY <2>1
  <2>3. /\ \A i \in 1..MaxMarks : count[i] \in Nat
                                  /\ count'[i] = IF i = counter[w] THEN count[i] + 1 ELSE count[i]
        /\ \A p \in Params : since[p] \in Nat
                             /\ since'[p] = IF p = param[w] THEN since[p] + 1 ELSE since[p]
    BY <2>1, <2>2
  <2>4. \A p \in Params :
          tracked[p] # 0 /\ Current(tracked[p]) => count'[tracked[p]] <= since'[p]
    <3> SUFFICES ASSUME NEW p \in Params, tracked[p] # 0, Current(tracked[p])
                 PROVE  count'[tracked[p]] <= since'[p]
      OBVIOUS
    <3>1. tracked[p] \in 1..MaxMarks /\ count[tracked[p]] <= since[p]
      OBVIOUS
    <3>2. tracked[p] = counter[w] => p = param[w]
      BY <2>2
    <3> QED
      BY <2>3, <3>1, <3>2
  <2>5. \A v \in Fuzzers : counter[v] # 0 /\ Current(counter[v]) =>
           count'[counter[v]] <= since'[param[v]]
    <3> SUFFICES ASSUME NEW v \in Fuzzers, counter[v] # 0, Current(counter[v])
                 PROVE  count'[counter[v]] <= since'[param[v]]
      OBVIOUS
    <3>1. counter[v] \in 1..MaxMarks /\ count[counter[v]] <= since[param[v]]
          /\ param[v] \in Params
      OBVIOUS
    <3>2. counter[v] = counter[w] => param[v] = param[w]
      BY <2>2
    <3> QED
      BY <2>3, <3>1, <3>2
  <2> QED
    BY <2>1, <2>4, <2>5
<1>6. CASE SetCounter(w)
  <2> DEFINE p == param[w]
  <2>1. /\ UNCHANGED <<param, count, marks, since, outdated>>
        /\ counter[w] # 0 /\ counter'[w] = 0 /\ fuzzer'[w] = "sent" /\ p \in Params
        /\ \A v \in Fuzzers \ {w} : fuzzer'[v] = fuzzer[v] /\ counter'[v] = counter[v]
    BY <1>6 DEF SetCounter
  <2>2. tracked'[p] = counter[w] /\ \A q \in Params \ {p} : tracked'[q] \in {tracked[q], 0}
    BY <1>6 DEF SetCounter
  <2>3. \A q \in Params : tracked'[q] # 0 =>
           /\ tracked'[q] <= marks
           /\ Current(tracked'[q]) => count[tracked'[q]] <= since[q]
    BY <2>1, <2>2
  <2>4. \A q, u \in Params : q # u /\ tracked'[q] # 0 => tracked'[q] # tracked'[u]
    BY <2>1, <2>2
  <2>5. \A q \in Params, v \in Fuzzers :
           counter'[v] # 0 /\ param[v] # q => counter'[v] # tracked'[q]
    <3> TAKE q \in Params, v \in Fuzzers
    <3> HAVE counter'[v] # 0 /\ param[v] # q
    <3>1. v # w /\ counter'[v] = counter[v]
      BY <2>1
    <3>2. CASE q = p
      BY <2>1, <2>2, <3>1, <3>2
    <3>3. CASE q # p
      BY <2>2, <3>1, <3>3
    <3> QED
      BY <3>2, <3>3
  <2> QED
    BY <2>1, <2>3, <2>4, <2>5
<1>7. CASE Unmark(w)
  <2> DEFINE p == param[w]
  <2>1. /\ UNCHANGED <<fuzzer, param, counter, count, marks>>
        /\ tracked' = [tracked EXCEPT ![p] = 0] /\ since' = [since EXCEPT ![p] = 0]
        /\ outdated' = outdated \cup Held(p, w)
        /\ counter[w] = 0 /\ p \in Params
    BY <1>7 DEF Unmark
  <2>2. /\ tracked'[p] = 0 /\ \A q \in Params \ {p} : tracked'[q] = tracked[q]
                                                    /\ since'[q] = since[q]
    BY <2>1
  <2>3. \A v \in Fuzzers : counter[v] # 0 /\ param[v] = p => counter[v] \in outdated'
    BY <2>1 DEF Held
  <2>4. \A i \in outdated' : i <= marks
    BY <2>1 DEF Held
  <2>5. \A v \in Fuzzers : counter[v] # 0 /\ counter[v] \notin outdated' =>
           count[counter[v]] <= since'[param[v]]
    BY <2>1, <2>2, <2>3
  <2>6. \A q \in Params : tracked'[q] # 0 /\ tracked'[q] \notin outdated' =>
           count[tracked'[q]] <= since'[q]
    BY <2>1, <2>2
  <2> QED
    BY <2>1, <2>2, <2>4, <2>5, <2>6
<1>8. CASE EndRequest(w)
  <2>1. /\ UNCHANGED <<param, counter, tracked, count, marks, since, outdated>>
        /\ counter[w] = 0 /\ fuzzer'[w] = "idle"
        /\ \A v \in Fuzzers \ {w} : fuzzer'[v] = fuzzer[v]
    BY <1>8 DEF EndRequest
  <2> QED
    BY <2>1, FreqTakes
<1> QED
  BY <1>1, <1>2, <1>3, <1>4, <1>5, <1>6, <1>7, <1>8 DEF FreqStep

\* A parameter is skipped only for the marks it has got since it was last
\* unmarked, unless by a counter that was read before, for any number of
\* goroutines and parameters.
THEOREM SkippedForNewMarks == FreqSpec => UnmarkHolds
<1>1. ASSUME FreqInit PROVE FreqTypeOK /\ FreqBehind
  <2>1. (CHOOSE p \in Params : TRUE) \in Params
    BY FreqAssumption
  <2>2. FreqTypeOK
    BY <1>1, <2>1, FreqAssumption DEF FreqInit, FreqTypeOK
  <2> QED
    BY <1>1, <2>2 DEF FreqInit, FreqBehind
<1>2. ASSUME FreqTypeOK, FreqBehind, [FreqNext]_freqVars
      PROVE  FreqTypeOK' /\ FreqBehind'
  <2>1. CASE UNCHANGED freqVars
    BY <1>2, <2>1 DEF freqVars, FreqTypeOK, FreqBehind, Current, Resting
  <2> QED
    BY <1>2, <2>1, FreqTypeStep, FreqBehindStep DEF FreqNext
<1>3. FreqSpec => [](FreqTypeOK /\ FreqBehind)
  BY <1>1, <1>2, PTL DEF FreqSpec
<1>4. ASSUME FreqTypeOK, FreqBehind, FreqNext, NEW w \in Fuzzers,
             fuzzer[w] = "load", fuzzer'[w] = "skipped", Current(counter[w])
      PROVE  since[param[w]] >= FreqThreshold
  <2>1. LoadCounter(w)
    BY <1>4 DEF FreqNext, FreqStep, PickParam, Interaction, GetCounter, Mark, AddOne, SetCounter,
                Unmark, EndRequest, LoadCounter, FreqTypeOK
  <2>2. counter[w] \in 1..MaxMarks /\ param[w] \in Params
    BY <1>4 DEF FreqTypeOK, FreqBehind
  <2>3. count[counter[w]] >= FreqThreshold
    BY <1>4, <2>1 DEF LoadCounter, FreqTypeOK
  <2>4. count[counter[w]] <= since[param[w]]
    BY <1>4, <2>2 DEF FreqBehind
  <2> QED
    BY <2>2, <2>3, <2>4, FreqAssumption, <1>4 DEF FreqTypeOK
<1>5. FreqTypeOK /\ FreqBehind /\ [FreqNext]_freqVars =>
         [\A w \in Fuzzers :
             fuzzer[w] = "load" /\ fuzzer'[w] = "skipped" /\ Current(counter[w])
                 => since[param[w]] >= FreqThreshold]_freqVars
  BY <1>4
<1> QED
  BY <1>3, <1>5, PTL DEF FreqSpec, UnmarkHolds

-----------------------------------------------------------------------------
(* The fuzzing rules *)

\* Where the rule is in its loops.
LoopInv ==
    /\ rule \in Nat \ {0} /\ round \in Nat \ {0} /\ payload \in Nat \ {0}
    /\ point = "pair" => This.pairs
    /\ point = "keys" => ~This.pairs
    /\ point = "restore" => This.single /\ ~This.pairs

\* An array of the component is another one only after it was fuzzed, with
\* this payload or an earlier one.
WornInv ==
    ~This.pairs /\ point \in {"payload", "keys", "send", "restore"} =>
        \A k \in worn :
            /\ Value(k) = "list"
            /\ payload > 1 \/ round > 1 \/ (point # "payload" /\ k \in tried)

\* What a clone has besides the key at hand cannot be put back.
Stays(k, before) ==
    \/ Value(k) \in {"altered", "list"} /\ k \in before
    \/ Value(k) = "list" /\ (payload > 1 \/ round > 1)

CloneAtHandInv ==
    This.single /\ ~This.pairs =>
        /\ point = "keys" => \A k \in changed : Stays(k, tried)
        /\ point \in {"send", "restore"} =>
              /\ key \in tried
              /\ key \in changed \/ Value(key) = "inert"
              /\ \A k \in changed \ {key} : Stays(k, tried \ {key})

FuzzInv ==
    /\ LoopInv /\ WornInv /\ CloneAtHandInv
    /\ OnePointAtATime
    /\ stopped /\ point # "over" => \E i \in 1..rule : rules[i].pairs /\ rules[i].single

\* Moving on within the rules keeps what holds behind a stop.
LEMMA RuleGoesOn ==
    ASSUME FuzzInv, rule' \in {rule, rule + 1}, rules' = rules,
           stopped' => stopped \/ (This.pairs /\ This.single), point # "over"
    PROVE  /\ rule' \in Nat \ {0}
           /\ stopped' => \E i \in 1..rule' : rules'[i].pairs /\ rules'[i].single
<1>1. rule' \in Nat \ {0} /\ rule \in 1..rule' /\ 1..rule \subseteq 1..rule'
  BY DEF FuzzInv, LoopInv
<1> QED
  BY <1>1 DEF FuzzInv, This

\* The end of a round: the arrays stay as they are for the next round of the
\* component, the next component has its own.
LEMMA RoundEnds ==
    ASSUME LoopInv, WornInv, point \in {"payload", "send"}, EndOfRound, rules' = rules
    PROVE  /\ LoopInv' /\ WornInv' /\ CloneAtHandInv'
           /\ rule' \in {rule, rule + 1} /\ point' \in {"payload", "rule"}
<1>1. /\ rule' \in {rule, rule + 1} /\ point' \in {"payload", "rule"}
      /\ point' = "payload" => rule' = rule
      /\ round' \in {round, round + 1, 1} /\ payload' \in {payload, 1}
  BY DEF EndOfRound
<1>2. LoopInv'
  BY <1>1 DEF LoopInv
<1>3. CloneAtHandInv'
  BY <1>1 DEF CloneAtHandInv
<1>4. WornInv'
  <2> SUFFICES ASSUME point' = "payload", ~This.pairs', NEW k \in worn'
               PROVE  Value(k)' = "list" /\ (payload' > 1 \/ round' > 1)
    BY <1>1 DEF WornInv
  <2>1. /\ round' = round + 1 /\ worn' = worn /\ component' = component
        /\ rule' = rule
    BY DEF EndOfRound
  <2>2. Value(k)' = Value(k) /\ This' = This
    BY <2>1 DEF Value, This
  <2>3. Value(k) = "list"
    BY <2>1, <2>2 DEF WornInv
  <2>4. round' > 1
    BY <2>1 DEF LoopInv
  <2> QED
    BY <2>2, <2>3, <2>4
<1> QED
  BY <1>1, <1>2, <1>3, <1>4

\* So does going on after a request, or without it.
LEMMA GoesOn ==
    ASSUME FuzzInv, point = "send", GoOn, UNCHANGED <<rules, key, tried, changed>>
    PROVE  /\ LoopInv' /\ WornInv' /\ CloneAtHandInv'
           /\ rule' \in {rule, rule + 1} /\ point' \in {"payload", "rule", "restore"}
<1>0. LoopInv /\ WornInv /\ CloneAtHandInv
  BY DEF FuzzInv
<1>1. CASE This.pairs <=> This.single
  <2>1. /\ point' = "payload" /\ payload' = payload + 1
        /\ UNCHANGED <<rule, component, round, worn>>
    BY <1>1 DEF GoOn
  <2>2. payload' \in Nat \ {0} /\ payload' > 1
    BY <1>0, <2>1 DEF LoopInv
  <2>3. This' = This /\ \A k : Value(k)' = Value(k)
    BY <2>1 DEF This, Value
  <2>4. LoopInv'
    BY <1>0, <2>1, <2>2 DEF LoopInv
  <2>5. WornInv'
    BY <1>0, <2>1, <2>2, <2>3 DEF WornInv
  <2>6. CloneAtHandInv'
    BY <2>1 DEF CloneAtHandInv
  <2> QED
    BY <2>1, <2>4, <2>5, <2>6
<1>2. CASE This.pairs /\ ~This.single
  <2>1. EndOfRound
    BY <1>2 DEF GoOn
  <2> QED
    BY <1>0, <2>1, RoundEnds
<1>3. CASE ~This.pairs /\ This.single
  <2>1. /\ point' = "restore"
        /\ UNCHANGED <<rule, component, round, payload, worn>>
    BY <1>3 DEF GoOn
  <2>2. This' = This /\ \A k : Value(k)' = Value(k)
    BY <2>1 DEF This, Value
  <2>3. LoopInv'
    BY <1>0, <1>3, <2>1, <2>2 DEF LoopInv
  <2>4. WornInv'
    BY <1>0, <2>1, <2>2 DEF WornInv
  <2>5. \A k, before : Stays(k, before)' <=> Stays(k, before)
    BY <2>1, <2>2 DEF Stays
  <2>6. CloneAtHandInv'
    BY <1>0, <2>1, <2>2, <2>5 DEF CloneAtHandInv, Stays
  <2> QED
    BY <2>1, <2>3, <2>4, <2>6
<1> QED
  BY <1>1, <1>2, <1>3

\* A request has what the clone at hand has.
LEMMA RequestIsPlain ==
    ASSUME FuzzInv, point = "send", sent' \in {sent, Request}, rules' = rules
    PROVE  OnePointAtATime' /\ (sent' # sent => sent'.rule = rule)
<1>1. CASE sent' = sent
  BY <1>1 DEF FuzzInv, OnePointAtATime, LeftBehind
<1>2. CASE sent' = Request
  <2>1. /\ sent'.rule = rule /\ sent'.component = component /\ sent'.key = key
        /\ sent'.round = round /\ sent'.payload = payload
        /\ sent'.before = tried \ {key} /\ sent'.changed = changed
    BY <1>2 DEF Request
  <2>2. \A k : rules'[sent'.rule].components[sent'.component][k] = Value(k)
    BY <2>1 DEF Value, This
  <2>3. \A k : Stays(k, tried \ {key}) => LeftBehind(sent, k)'
    BY <2>1, <2>2 DEF Stays, LeftBehind
  <2>4. ASSUME This.single, ~This.pairs
        PROVE  /\ key \in changed \/ Value(key) = "inert"
               /\ \A k \in changed \ {key} : Stays(k, tried \ {key})
    BY <2>4 DEF FuzzInv, CloneAtHandInv
  <2>5. rules'[sent'.rule] = This
    BY <2>1 DEF This
  <2>6. OnePointAtATime'
    BY <2>1, <2>2, <2>3, <2>4, <2>5 DEF OnePointAtATime
  <2> QED
    BY <2>1, <2>6
<1> QED
  BY <1>1, <1>2

\* Every step keeps FuzzInv, and none sends after a stop but behind a rule
\* with key-value pairs in single mode.
LEMMA FuzzStep ==
    ASSUME FuzzInv, [FuzzNext]_fuzzVars
    PROVE  /\ FuzzInv'
           /\ stopped /\ sent' # sent =>
                 \E i \in 1..sent'.rule : rules[i].pairs /\ rules[i].single
<1>0. LoopInv /\ WornInv /\ CloneAtHandInv /\ OnePointAtATime
  BY DEF FuzzInv
<1>a. ASSUME UNCHANGED <<rules, sent>>
      PROVE  OnePointAtATime'
  BY <1>0, <1>a DEF OnePointAtATime, LeftBehind
<1>b. ASSUME UNCHANGED <<rules, rule, component>>
      PROVE  This' = This /\ \A k : Value(k)' = Value(k)
  BY <1>b DEF This, Value
<1>1. CASE Block \/ UNCHANGED fuzzVars
  <2>1. UNCHANGED <<rules, rule, component, round, payload, key, tried, changed, worn, point,
                    sent, stopped>>
    BY <1>1 DEF Block, fuzzVars
  <2>2. LoopInv' /\ WornInv' /\ CloneAtHandInv'
    BY <1>0, <1>b, <2>1 DEF LoopInv, WornInv, CloneAtHandInv, Stays
  <2> QED
    BY <1>a, <2>1, <2>2 DEF FuzzInv
<1>2. CASE BeginRule
  <2>1. /\ UNCHANGED <<rules, sent, stopped>> /\ rule' \in {rule, rule + 1}
        /\ point = "rule" /\ point' \in {"payload", "rule", "over"}
        /\ round' = 1 /\ payload' = 1 /\ worn' = {}
    BY <1>2 DEF BeginRule
  <2>2. LoopInv' /\ WornInv' /\ CloneAtHandInv'
    BY <1>0, <2>1 DEF LoopInv, WornInv, CloneAtHandInv
  <2> QED
    BY <1>a, <2>1, <2>2, RuleGoesOn DEF FuzzInv
<1>3. CASE NextPayload
  <2>1. /\ point = "payload" /\ point' \in {"pair", "keys"}
        /\ point' = "pair" <=> This.pairs
        /\ tried' = {} /\ changed' = worn
        /\ UNCHANGED <<rules, rule, component, round, payload, key, worn, sent, stopped>>
    BY <1>3, Zenon DEF NextPayload
  <2>2. LoopInv' /\ WornInv'
    BY <1>0, <1>b, <2>1 DEF LoopInv, WornInv
  <2>3. CloneAtHandInv'
    BY <1>0, <1>b, <2>1 DEF WornInv, CloneAtHandInv, Stays
  <2> QED
    BY <1>a, <2>1, <2>2, <2>3 DEF FuzzInv
<1>4. CASE EndRound
  <2>1. /\ UNCHANGED <<rules, key, tried, changed, sent, stopped>> /\ point = "payload" /\ EndOfRound
    BY <1>4 DEF EndRound
  <2>2. /\ LoopInv' /\ WornInv' /\ CloneAtHandInv'
        /\ rule' \in {rule, rule + 1} /\ point' \in {"payload", "rule"}
    BY <1>0, <2>1, RoundEnds
  <2> QED
    BY <1>a, <2>1, <2>2, RuleGoesOn DEF FuzzInv
<1>5. CASE SetAllPairs
  <2>1. /\ This.pairs /\ point = "payload" /\ point' = "send"
        /\ UNCHANGED <<rules, rule, component, round, payload, sent, stopped>>
    BY <1>5 DEF SetAllPairs
  <2>2. LoopInv' /\ WornInv' /\ CloneAtHandInv'
    BY <1>0, <1>b, <2>1 DEF LoopInv, WornInv, CloneAtHandInv
  <2> QED
    BY <1>a, <2>1, <2>2 DEF FuzzInv
<1>6. CASE SetKey
  <2>1. /\ point = "keys" /\ key' \notin tried /\ tried' = tried \cup {key'}
        /\ UNCHANGED <<rules, rule, component, round, payload, sent, stopped>>
        /\ \/ /\ changed' = IF Value(key') = "inert" THEN changed ELSE changed \cup {key'}
              /\ worn' = IF Value(key') = "list" THEN worn \cup {key'} ELSE worn
              /\ point' = IF This.single THEN "send" ELSE "keys"
           \/ UNCHANGED <<changed, worn, point>>
    BY <1>6 DEF SetKey
  <2>2. This' = This /\ (\A k : Value(k)' = Value(k)) /\ ~This.pairs
    BY <1>0, <1>b, <2>1 DEF LoopInv
  <2>3. \A k, before : Stays(k, before)' <=> Stays(k, before)
    BY <2>1, <2>2 DEF Stays
  <2>4. LoopInv'
    BY <1>0, <2>1, <2>2 DEF LoopInv
  <2>5. WornInv'
    <3>1. \A k \in worn' : k \in worn \/ (k = key' /\ Value(k) = "list")
      BY <2>1
    <3>2. \A k \in worn : Value(k) = "list" /\ (payload > 1 \/ round > 1 \/ k \in tried)
      BY <1>0, <2>1, <2>2 DEF WornInv
    <3>3. point' # "payload"
      BY <2>1
    <3> QED
      BY <2>1, <2>2, <3>1, <3>2, <3>3 DEF WornInv
  <2>6. CloneAtHandInv'
    <3> SUFFICES ASSUME This.single
                 PROVE  CloneAtHandInv'
      BY <2>2 DEF CloneAtHandInv
    <3>1. \A k \in changed : Stays(k, tried)
      BY <1>0, <2>1, <2>2 DEF CloneAtHandInv
    <3>2. CASE point' = "keys"
      <4>1. \A k \in changed' : k \in changed
        BY <2>1, <3>2
      <4>2. \A k \in changed' : Stays(k, tried')
        BY <2>1, <3>1, <4>1 DEF Stays
      <4> QED
        BY <2>1, <2>2, <3>2, <4>2 DEF CloneAtHandInv, Stays
    <3>3. CASE point' = "send"
      <4>1. /\ \A k \in changed' : k \in changed \cup {key'}
            /\ key' \in changed' \/ Value(key') = "inert"
        BY <2>1, <3>3
      <4>2. \A k \in changed' \ {key'} : Stays(k, tried' \ {key'})
        BY <2>1, <3>1, <4>1 DEF Stays
      <4>3. key' \in tried' /\ Value(key)' = Value(key')
        BY <2>1 DEF Value, This
      <4> QED
        BY <2>1, <2>2, <3>3, <4>1, <4>2, <4>3 DEF CloneAtHandInv, Stays
    <3> QED
      BY <2>1, <3>2, <3>3
  <2> QED
    BY <1>a, <2>1, <2>4, <2>5, <2>6 DEF FuzzInv
<1>7. CASE EndKeys
  <2>1. /\ point = "keys" /\ point' \in {"payload", "send"}
        /\ \/ point' = "payload" /\ payload' = payload + 1
           \/ ~This.single /\ payload' = payload
        /\ UNCHANGED <<rules, rule, component, round, key, tried, changed, worn, sent, stopped>>
    BY <1>7 DEF EndKeys
  <2>2. This' = This /\ (\A k : Value(k)' = Value(k))
    BY <1>b, <2>1
  <2>3. payload' \in Nat \ {0} /\ (point' = "payload" /\ payload' # payload => payload' > 1)
    BY <1>0, <2>1 DEF LoopInv
  <2>4. LoopInv'
    BY <1>0, <2>1, <2>2, <2>3 DEF LoopInv
  <2>5. WornInv'
    <3>1. CASE point' = "payload" /\ payload' = payload + 1
      <4>1. payload' > 1
        BY <1>0, <3>1 DEF LoopInv
      <4> QED
        BY <1>0, <2>1, <2>2, <3>1, <4>1 DEF WornInv
    <3>2. CASE ~This.single /\ payload' = payload /\ point' = "send"
      BY <1>0, <2>1, <2>2, <3>2 DEF WornInv
    <3> QED
      BY <1>7, <3>1, <3>2 DEF EndKeys
  <2>6. CloneAtHandInv'
    BY <1>7, <2>1, <2>2 DEF EndKeys, CloneAtHandInv
  <2> QED
    BY <1>a, <2>1, <2>4, <2>5, <2>6 DEF FuzzInv
<1>8. CASE SetPair
  <2>1. /\ point = "pair" /\ point' \in {"payload", "send"} /\ payload' \in {payload, payload + 1}
        /\ UNCHANGED <<rules, rule, component, round, worn, sent, stopped>>
    BY <1>8 DEF SetPair
  <2>2. This.pairs /\ This' = This
    BY <1>0, <1>b, <2>1 DEF LoopInv
  <2>3. LoopInv' /\ WornInv' /\ CloneAtHandInv'
    BY <1>0, <2>1, <2>2 DEF LoopInv, WornInv, CloneAtHandInv
  <2> QED
    BY <1>a, <2>1, <2>3 DEF FuzzInv
<1>9. CASE RebuildFails
  <2>1. /\ UNCHANGED <<rules, rule, round, payload, sent>> /\ point' = "over"
    BY <1>9 DEF RebuildFails
  <2>2. LoopInv' /\ WornInv' /\ CloneAtHandInv'
    BY <1>0, <2>1 DEF LoopInv, WornInv, CloneAtHandInv
  <2> QED
    BY <1>a, <2>1, <2>2 DEF FuzzInv
<1>10. CASE SkipParameter \/ Send
  <2>1. /\ UNCHANGED <<rules, key, tried, changed, stopped>>
        /\ point = "send" /\ GoOn /\ sent' \in {sent, Request}
    BY <1>10 DEF SkipParameter, Send
  <2>2. /\ LoopInv' /\ WornInv' /\ CloneAtHandInv'
        /\ rule' \in {rule, rule + 1} /\ point' \in {"payload", "rule", "restore"}
    BY <2>1, GoesOn
  <2>3. OnePointAtATime' /\ (sent' # sent => sent'.rule = rule)
    BY <2>1, RequestIsPlain
  <2> QED
    BY <2>1, <2>2, <2>3, RuleGoesOn DEF FuzzInv
<1>11. CASE SendLast \/ Refuse
  <2>1. /\ UNCHANGED <<rules, key, tried, changed>>
        /\ point = "send" /\ StopAll /\ sent' \in {sent, Request}
    BY <1>11 DEF SendLast, Refuse
  <2>2. OnePointAtATime' /\ (sent' # sent => sent'.rule = rule)
    BY <2>1, RequestIsPlain
  <2>3. CASE This.pairs /\ This.single
    <3>1. GoOn
      BY <2>1, <2>3 DEF StopAll
    <3>2. /\ LoopInv' /\ WornInv' /\ CloneAtHandInv'
          /\ rule' \in {rule, rule + 1} /\ point' \in {"payload", "rule", "restore"}
      BY <2>1, <3>1, GoesOn
    <3> QED
      BY <2>1, <2>2, <2>3, <3>2, RuleGoesOn DEF FuzzInv
  <2>4. CASE ~(This.pairs /\ This.single)
    <3>1. point' = "over" /\ UNCHANGED <<rule, component, round, payload, worn>>
      BY <2>1, <2>4 DEF StopAll
    <3>2. LoopInv' /\ WornInv' /\ CloneAtHandInv'
      BY <1>0, <3>1 DEF LoopInv, WornInv, CloneAtHandInv
    <3> QED
      BY <2>1, <2>2, <3>1, <3>2 DEF FuzzInv
  <2> QED
    BY <2>3, <2>4
<1>12. CASE Restore
  <2>1. /\ point = "restore" /\ This.single /\ ~This.pairs
        /\ UNCHANGED <<rules, rule, component, round, key, tried, worn, sent, stopped>>
    BY <1>0, <1>12 DEF Restore, LoopInv
  <2>2. This' = This /\ (\A k : Value(k)' = Value(k))
    BY <1>b, <2>1
  <2>3. CASE point' = "payload" /\ payload' = payload + 1
    <3>1. payload' > 1 /\ payload' \in Nat \ {0}
      BY <1>0, <2>3 DEF LoopInv
    <3>2. LoopInv' /\ WornInv' /\ CloneAtHandInv'
      BY <1>0, <2>1, <2>2, <2>3, <3>1 DEF LoopInv, WornInv, CloneAtHandInv
    <3> QED
      BY <1>a, <2>1, <2>3, <3>2 DEF FuzzInv
  <2>4. CASE /\ point' = "keys" /\ payload' = payload
             /\ changed' = IF Value(key) \in {"altered", "list"} THEN changed
                           ELSE changed \ {key}
    <3>1. LoopInv' /\ WornInv'
      BY <1>0, <2>1, <2>2, <2>4 DEF LoopInv, WornInv
    <3>2. \A k \in changed \ {key} : Stays(k, tried)
      BY <1>0, <2>1 DEF CloneAtHandInv, Stays
    <3>3. Value(key) \in {"altered", "list"} => Stays(key, tried)
      BY <1>0, <2>1 DEF CloneAtHandInv, Stays
    <3>4. \A k \in changed' : Stays(k, tried)
      BY <2>4, <3>2, <3>3
    <3>5. \A k : Stays(k, tried)' <=> Stays(k, tried)
      BY <2>1, <2>2, <2>4 DEF Stays
    <3>6. CloneAtHandInv'
      BY <2>4, <3>4, <3>5 DEF CloneAtHandInv
    <3> QED
      BY <1>a, <2>1, <2>4, <3>1, <3>6 DEF FuzzInv
  <2> QED
    BY <1>12, <2>3, <2>4 DEF Restore
<1> QED
  BY <1>1, <1>2, <1>3, <1>4, <1>5, <1>6, <1>7, <1>8, <1>9, <1>10, <1>11, <1>12 DEF FuzzNext

LEMMA FuzzInvariant == FuzzSpec => []FuzzInv
<1>1. FuzzInit => FuzzInv
  BY DEF FuzzInit, FuzzInv, LoopInv, WornInv, CloneAtHandInv, OnePointAtATime
<1> QED
  BY <1>1, FuzzStep, PTL DEF FuzzSpec

\* In single mode a request for a rule's values differs from the original in
\* the one key it is about, and otherwise only in values that a string does
\* not bring back.
THEOREM OneKeyIsFuzzed == FuzzSpec => []OnePointAtATime
<1>1. FuzzInv => OnePointAtATime
  BY DEF FuzzInv
<1> QED
  BY <1>1, FuzzInvariant, PTL

\* After a stop only rules with key-value pairs in single mode, and those
\* behind one, send.
THEOREM StopEndsValueRules == FuzzSpec => StopHoldsForValues
<1>1. FuzzInv /\ [FuzzNext]_fuzzVars =>
         [stopped /\ sent' # sent =>
            \E i \in 1..sent'.rule : rules[i].pairs /\ rules[i].single]_fuzzVars
  BY FuzzStep
<1> QED
  BY <1>1, FuzzInvariant, PTL DEF FuzzSpec, StopHoldsForValues

-----------------------------------------------------------------------------
(* Uploads *)

\* The first of one sequence may as well be the last of the one before.
LEMMA PassOn ==
    ASSUME NEW s \in Seq(Nat), NEW t \in Seq(Nat), t # <<>>
    PROVE  /\ Append(s, Head(t)) \in Seq(Nat) /\ Tail(t) \in Seq(Nat) /\ Head(t) \in Nat
           /\ Append(s, Head(t)) \o Tail(t) = s \o t
<1> DEFINE a == Append(s, Head(t))
           b == Tail(t)
<1>1. /\ Head(t) \in Nat /\ Head(t) = t[1] /\ b \in Seq(Nat)
      /\ Len(t) \in Nat /\ Len(t) > 0 /\ Len(b) = Len(t) - 1
      /\ \A i \in 1..Len(b) : b[i] = t[i + 1]
  BY HeadTailProperties, EmptySeq
<1>2. /\ a \in Seq(Nat) /\ Len(a) = Len(s) + 1 /\ Len(s) \in Nat
      /\ \A i \in 1..Len(a) : a[i] = IF i <= Len(s) THEN s[i] ELSE t[1]
  BY <1>1
<1> HIDE DEF a, b
<1>3. /\ a \o b \in Seq(Nat) /\ Len(a \o b) = Len(s) + Len(t)
      /\ \A i \in 1..(Len(s) + Len(t)) :
            (a \o b)[i] = IF i <= Len(s) + 1 THEN a[i] ELSE b[i - (Len(s) + 1)]
  <2>1. /\ a \o b \in Seq(Nat) /\ Len(a \o b) = Len(a) + Len(b)
        /\ \A i \in 1..Len(a) + Len(b) :
              (a \o b)[i] = IF i <= Len(a) THEN a[i] ELSE b[i - Len(a)]
    BY <1>1, <1>2, ConcatProperties, Zenon
  <2>2. Len(a) + Len(b) = Len(s) + Len(t) /\ Len(a) = Len(s) + 1
    BY <1>1, <1>2
  <2> QED
    BY <2>1, <2>2
<1>4. /\ s \o t \in Seq(Nat) /\ Len(s \o t) = Len(s) + Len(t)
      /\ \A i \in 1..(Len(s) + Len(t)) :
            (s \o t)[i] = IF i <= Len(s) THEN s[i] ELSE t[i - Len(s)]
  BY ConcatProperties
<1> DEFINE ab == a \o b
           st == s \o t
           m == Len(s)
           n == Len(t)
<1>5. \A i \in 1..(m + n) : ab[i] = st[i]
  <2>1. \A i \in 1..(m + n) : ab[i] = IF i <= m + 1 THEN a[i] ELSE b[i - (m + 1)]
    BY <1>3
  <2>2. \A i \in 1..(m + n) : st[i] = IF i <= m THEN s[i] ELSE t[i - m]
    BY <1>4
  <2>3. \A i \in 1..(m + 1) : a[i] = IF i <= m THEN s[i] ELSE t[1]
    BY <1>2
  <2>4. \A i \in 1..(n - 1) : b[i] = t[i + 1]
    BY <1>1
  <2>5. m \in Nat /\ n \in Nat
    BY <1>1, <1>2
  <2> HIDE DEF ab, st, m, n
  <2> TAKE i \in 1..(m + n)
  <2>6. CASE i <= m + 1
    BY <2>1, <2>2, <2>3, <2>5, <2>6
  <2>7. CASE ~(i <= m + 1)
    <3>1. /\ i - (m + 1) \in 1..(n - 1) /\ (i - (m + 1)) + 1 = i - m
          /\ ~(i <= m)
      BY <2>5, <2>7
    <3>2. b[i - (m + 1)] = t[i - m]
      BY <2>4, <3>1
    <3> QED
      BY <2>1, <2>2, <2>7, <3>1, <3>2
  <2> QED
    BY <2>6, <2>7
<1>6. a \o b = s \o t
  BY <1>3, <1>4, <1>5, SeqEqual
<1> QED
  BY <1>1, <1>2, <1>6 DEF a, b

\* The first of two sequences one behind the other is that of the first.
LEMMA FirstOfTwo ==
    ASSUME NEW s \in Seq(Nat), NEW t \in Seq(Nat), s # <<>>
    PROVE  /\ Tail(s) \in Seq(Nat) /\ Tail(s) \o t = Tail(s \o t)
           /\ Head(s \o t) = Head(s) /\ s \o t \in Seq(Nat) /\ s \o t # <<>>
<1>1. /\ Tail(s) \in Seq(Nat) /\ Len(s) \in Nat /\ Len(s) > 0 /\ Len(Tail(s)) = Len(s) - 1
      /\ Head(s) = s[1] /\ \A i \in 1..Len(Tail(s)) : Tail(s)[i] = s[i + 1]
  BY HeadTailProperties, EmptySeq
<1> DEFINE a == Tail(s)
           v == s \o t
           w == a \o t
           m == Len(s)
           n == Len(t)
<1>2. /\ v \in Seq(Nat) /\ Len(v) = m + n /\ n \in Nat
      /\ \A i \in 1..(m + n) : v[i] = IF i <= m THEN s[i] ELSE t[i - m]
  BY ConcatProperties
<1>3. /\ w \in Seq(Nat) /\ Len(w) = m - 1 + n
      /\ \A i \in 1..(m - 1 + n) : w[i] = IF i <= m - 1 THEN a[i] ELSE t[i - (m - 1)]
  <2>1. /\ w \in Seq(Nat) /\ Len(w) = Len(a) + n
        /\ \A i \in 1..(Len(a) + n) : w[i] = IF i <= Len(a) THEN a[i] ELSE t[i - Len(a)]
    BY <1>1, ConcatProperties
  <2>2. Len(a) = m - 1
    BY <1>1
  <2> HIDE DEF a, w, m, n
  <2> QED
    BY <2>1, <2>2
<1>4. v # <<>>
  BY <1>1, <1>2
<1>5. /\ Head(v) = v[1] /\ Tail(v) \in Seq(Nat) /\ Len(Tail(v)) = m + n - 1
      /\ \A i \in 1..(m + n - 1) : Tail(v)[i] = v[i + 1]
  BY <1>2, <1>4, HeadTailProperties
<1>6. \A i \in 1..(m - 1) : a[i] = s[i + 1]
  BY <1>1
<1>7. m \in Nat /\ m > 0 /\ Head(s) = s[1] /\ a \in Seq(Nat)
  BY <1>1
<1> DEFINE tv == Tail(v)
<1>11. \A i \in 1..(m + n - 1) : tv[i] = v[i + 1]
  BY <1>5
<1>12. \A i \in 1..(m + n) : v[i] = IF i <= m THEN s[i] ELSE t[i - m]
  BY <1>2
<1>13. \A i \in 1..(m - 1 + n) : w[i] = IF i <= m - 1 THEN a[i] ELSE t[i - (m - 1)]
  BY <1>3
<1>14. n \in Nat
  BY <1>2
<1> HIDE DEF a, v, w, m, n, tv
<1>8. \A i \in 1..(m + n - 1) : w[i] = tv[i]
  <2> TAKE i \in 1..(m + n - 1)
  <2>1. CASE i <= m - 1
    <3>1. i \in 1..(m - 1) /\ i \in 1..(m - 1 + n) /\ i + 1 \in 1..(m + n) /\ i + 1 <= m
      BY <2>1, <1>7, <1>14
    <3> QED
      BY <2>1, <3>1, <1>6, <1>11, <1>12, <1>13
  <2>2. CASE ~(i <= m - 1)
    <3>1. i - (m - 1) = (i + 1) - m /\ ~(i + 1 <= m) /\ i + 1 \in 1..(m + n)
      BY <2>2, <1>7, <1>14
    <3>2. i \in 1..(m - 1 + n)
      BY <1>7, <1>14
    <3> QED
      BY <2>2, <3>1, <3>2, <1>11, <1>12, <1>13
  <2> QED
    BY <2>1, <2>2
<1>9. w = Tail(v)
  <2>1. Len(w) = Len(Tail(v)) /\ \A i \in 1..Len(w) : w[i] = Tail(v)[i]
    BY <1>2, <1>3, <1>5, <1>7, <1>8 DEF tv
  <2> QED
    BY <1>3, <1>5, <2>1, SeqEqual
<1>10. Head(v) = Head(s)
  <2>1. 1 \in 1..(m + n) /\ 1 <= m
    BY <1>7, <1>14
  <2> QED
    BY <2>1, <1>5, <1>7, <1>12
<1> QED
  BY <1>2, <1>4, <1>7, <1>9, <1>10 DEF a, v, w

\* Parts may be taken together from either side.
LEMMA Together == \A s, t, u \in Seq(Nat) : (s \o t) \o u = s \o (t \o u)
BY ConcatAssociative, SMTT(30)

\* What is appended to the last part is appended to the whole.
LEMMA BehindAll ==
    ASSUME NEW s \in Seq(Nat), NEW t \in Seq(Nat), NEW n \in Nat
    PROVE  s \o Append(t, n) = Append(s \o t, n)
OBVIOUS

\* A new line comes behind all others.
LEMMA ComesLast ==
    ASSUME NEW s \in Seq(Nat), InOrder(s), NEW n \in Nat, \A l \in LinesOf(s) : l < n
    PROVE  InOrder(Append(s, n)) /\ LinesOf(Append(s, n)) = LinesOf(s) \cup {n}
<1>1. /\ Len(s) \in Nat /\ DOMAIN s = 1..Len(s)
      /\ DOMAIN Append(s, n) = 1..(Len(s) + 1)
      /\ \A i \in 1..(Len(s) + 1) : Append(s, n)[i] = IF i <= Len(s) THEN s[i] ELSE n
  OBVIOUS
<1>2. InOrder(Append(s, n))
  BY <1>1 DEF InOrder, LinesOf
<1>3. LinesOf(Append(s, n)) = LinesOf(s) \cup {n}
  <2>1. \A l \in LinesOf(Append(s, n)) : l \in LinesOf(s) \cup {n}
    BY <1>1 DEF LinesOf
  <2>2. \A i \in DOMAIN s : s[i] = Append(s, n)[i] /\ i \in DOMAIN Append(s, n)
    BY <1>1
  <2>3. n = Append(s, n)[Len(s) + 1] /\ Len(s) + 1 \in DOMAIN Append(s, n)
    BY <1>1
  <2> QED
    BY <2>1, <2>2, <2>3 DEF LinesOf
<1> QED
  BY <1>2, <1>3

\* One less leaves the others in order.
LEMMA FallsOut ==
    ASSUME NEW s \in Seq(Nat), NEW t \in Seq(Nat), t # <<>>, InOrder(s \o t)
    PROVE  /\ InOrder(s \o Tail(t))
           /\ LinesOf(s \o Tail(t)) = LinesOf(s \o t) \ {Head(t)}
           /\ Head(t) \in LinesOf(s \o t)
<1> DEFINE b == Tail(t)
           u == s \o t
           v == s \o b
           m == Len(s)
<1>1. /\ Head(t) \in Nat /\ Head(t) = t[1] /\ b \in Seq(Nat)
      /\ Len(t) \in Nat /\ Len(t) > 0 /\ Len(b) = Len(t) - 1
      /\ \A i \in 1..Len(b) : b[i] = t[i + 1]
      /\ m \in Nat
  BY HeadTailProperties, EmptySeq
<1>2. /\ u \in Seq(Nat) /\ DOMAIN u = 1..(m + Len(t))
      /\ \A i \in 1..(m + Len(t)) : u[i] = IF i <= m THEN s[i] ELSE t[i - m]
  BY ConcatProperties, LenProperties
<1>3. /\ DOMAIN v = 1..(m + Len(t) - 1)
      /\ \A i \in 1..(m + Len(t) - 1) : v[i] = IF i <= m THEN s[i] ELSE b[i - m]
  <2>1. /\ v \in Seq(Nat) /\ Len(v) = m + Len(b)
        /\ \A i \in 1..(m + Len(b)) : v[i] = IF i <= m THEN s[i] ELSE b[i - m]
    BY <1>1, ConcatProperties
  <2> QED
    BY <1>1, <2>1, LenProperties
<1>4. u[m + 1] = Head(t) /\ m + 1 \in DOMAIN u
  BY <1>1, <1>2
<1>6. \A i, j \in DOMAIN u : /\ u[i] \in Nat
                             /\ i < j => u[i] < u[j]
  <2>1. u \in Seq(Nat)
    BY <1>2
  <2> QED
    BY <2>1 DEF InOrder
<1> DEFINE n == Len(t)
<1>11. m \in Nat /\ n \in Nat /\ n > 0 /\ DOMAIN u = 1..(m + n) /\ DOMAIN v = 1..(m + n - 1)
  BY <1>1, <1>2, <1>3
<1>12. \A i \in 1..(n - 1) : b[i] = t[i + 1]
  BY <1>1
<1>13. \A i \in 1..(m + n) : u[i] = IF i <= m THEN s[i] ELSE t[i - m]
  BY <1>2
<1>14. \A i \in 1..(m + n - 1) : v[i] = IF i <= m THEN s[i] ELSE b[i - m]
  BY <1>3
<1> HIDE DEF b, u, v, m, n
<1>5. \A i \in DOMAIN v : v[i] = IF i <= m THEN u[i] ELSE u[i + 1]
  <2> SUFFICES ASSUME NEW i \in 1..(m + n - 1)
               PROVE  v[i] = IF i <= m THEN u[i] ELSE u[i + 1]
    BY <1>11
  <2>1. CASE i <= m
    BY <2>1, <1>11, <1>13, <1>14
  <2>2. CASE ~(i <= m)
    <3>1. /\ i - m \in 1..(n - 1) /\ (i - m) + 1 = (i + 1) - m
          /\ i + 1 \in 1..(m + n) /\ ~(i + 1 <= m)
      BY <2>2, <1>11
    <3> QED
      BY <2>2, <3>1, <1>12, <1>13, <1>14
  <2> QED
    BY <2>1, <2>2
<1>7. InOrder(v)
  <2> SUFFICES ASSUME NEW i \in DOMAIN v, NEW j \in DOMAIN v, i < j
               PROVE  v[i] < v[j]
    BY DEF InOrder
  <2>1. i \in DOMAIN u /\ j \in DOMAIN u /\ i + 1 \in DOMAIN u /\ j + 1 \in DOMAIN u
    BY <1>11
  <2>2. i < j /\ i < j + 1 /\ i + 1 < j + 1 /\ (j <= m => i <= m)
    BY <1>11
  <2> QED
    BY <1>5, <1>6, <2>1, <2>2
<1>8. LinesOf(v) \subseteq LinesOf(u) \ {Head(t)}
  <2> SUFFICES ASSUME NEW i \in DOMAIN v
               PROVE  v[i] \in LinesOf(u) /\ v[i] # u[m + 1]
    BY <1>4 DEF LinesOf
  <2>1. CASE i <= m
    <3>1. i \in DOMAIN u /\ i < m + 1 /\ v[i] = u[i]
      BY <2>1, <1>11, <1>5
    <3> QED
      BY <3>1, <1>4, <1>6 DEF LinesOf
  <2>2. CASE ~(i <= m)
    <3>1. i + 1 \in DOMAIN u /\ m + 1 < i + 1 /\ v[i] = u[i + 1]
      BY <2>2, <1>11, <1>5
    <3>2. u[m + 1] < u[i + 1] /\ u[m + 1] \in Nat
      BY <3>1, <1>4, <1>6
    <3> QED
      BY <3>1, <3>2 DEF LinesOf
  <2> QED
    BY <2>1, <2>2
<1>9. LinesOf(u) \ {Head(t)} \subseteq LinesOf(v)
  <2> SUFFICES ASSUME NEW i \in DOMAIN u, i # m + 1
               PROVE  u[i] \in LinesOf(v)
    BY <1>4 DEF LinesOf
  <2>1. CASE i <= m
    <3>1. i \in DOMAIN v
      BY <2>1, <1>11
    <3> QED
      BY <2>1, <3>1, <1>5 DEF LinesOf
  <2>2. CASE i > m + 1
    <3>1. i - 1 \in DOMAIN v /\ ~(i - 1 <= m) /\ (i - 1) + 1 = i
      BY <2>2, <1>11
    <3> QED
      BY <3>1, <1>5 DEF LinesOf
  <2> QED
    BY <2>1, <2>2, <1>11
<1>10. Head(t) \in LinesOf(u)
  BY <1>4 DEF LinesOf
<1> QED
  BY <1>7, <1>8, <1>9, <1>10 DEF u, v, b

\* What an upload that is in order brings of a line.
LEMMA BroughtOnce ==
    ASSUME NEW s \in Seq(Nat), InOrder(s), NEW l
    PROVE  Cardinality({i \in DOMAIN s : s[i] = l}) = IF l \in LinesOf(s) THEN 1 ELSE 0
<1>1. CASE l \in LinesOf(s)
  <2>1. PICK k \in DOMAIN s : s[k] = l
    BY <1>1 DEF LinesOf
  <2>2. \A i \in DOMAIN s : s[i] = l => i = k
    BY <2>1, LenProperties DEF InOrder
  <2>3. {i \in DOMAIN s : s[i] = l} = {k}
    BY <2>1, <2>2
  <2> QED
    BY <1>1, <2>3, FS_Singleton
<1>2. CASE l \notin LinesOf(s)
  <2>1. {i \in DOMAIN s : s[i] = l} = {}
    BY <1>2 DEF LinesOf
  <2> QED
    BY <1>2, <2>1, FS_EmptySet
<1> QED
  BY <1>1, <1>2

\* The parts of what is in order are in order, and share nothing.
LEMMA PartsInOrder ==
    ASSUME NEW s \in Seq(Nat), NEW t \in Seq(Nat), InOrder(s \o t)
    PROVE  /\ InOrder(s) /\ InOrder(t)
           /\ LinesOf(s) \cap LinesOf(t) = {}
           /\ LinesOf(s \o t) = LinesOf(s) \cup LinesOf(t)
<1> DEFINE u == s \o t
<1>1. /\ DOMAIN u = 1..(Len(s) + Len(t)) /\ DOMAIN s = 1..Len(s) /\ DOMAIN t = 1..Len(t)
      /\ Len(s) \in Nat /\ Len(t) \in Nat
      /\ \A i \in DOMAIN u : u[i] \in Nat
      /\ \A i \in DOMAIN u : u[i] = IF i <= Len(s) THEN s[i] ELSE t[i - Len(s)]
      /\ \A i, j \in DOMAIN u : i < j => u[i] < u[j]
  <2>1. /\ u \in Seq(Nat) /\ Len(u) = Len(s) + Len(t)
        /\ \A i \in 1..Len(s) + Len(t) : u[i] = IF i <= Len(s) THEN s[i] ELSE t[i - Len(s)]
    BY ConcatProperties
  <2>2. /\ DOMAIN u = 1..Len(u) /\ DOMAIN s = 1..Len(s) /\ DOMAIN t = 1..Len(t)
        /\ Len(s) \in Nat /\ Len(t) \in Nat
        /\ \A i \in DOMAIN u : u[i] \in Nat
    BY <2>1, LenProperties
  <2>3. \A i, j \in DOMAIN u : i < j => u[i] < u[j]
    BY DEF InOrder
  <2> HIDE DEF u
  <2> QED
    BY <2>1, <2>2, <2>3
<1>2. \A i \in DOMAIN s : i \in DOMAIN u /\ s[i] = u[i]
  BY <1>1
<1>3. \A i \in DOMAIN t : Len(s) + i \in DOMAIN u /\ t[i] = u[Len(s) + i]
  BY <1>1
<1> HIDE DEF u
<1>4. InOrder(s)
  BY <1>1, <1>2 DEF InOrder
<1>5. InOrder(t)
  <2> SUFFICES ASSUME NEW i \in DOMAIN t, NEW j \in DOMAIN t, i < j
               PROVE  t[i] < t[j]
    BY DEF InOrder
  <2>1. Len(s) + i < Len(s) + j
    BY <1>1
  <2> QED
    BY <1>1, <1>3, <2>1
<1>6. LinesOf(s) \cap LinesOf(t) = {}
  <2> SUFFICES ASSUME NEW i \in DOMAIN s, NEW j \in DOMAIN t
               PROVE  s[i] # t[j]
    BY DEF LinesOf
  <2>1. i < Len(s) + j
    BY <1>1
  <2>2. u[i] < u[Len(s) + j] /\ u[i] \in Nat
    BY <1>1, <1>2, <1>3, <2>1
  <2> QED
    BY <1>2, <1>3, <2>2
<1>7. LinesOf(u) = LinesOf(s) \cup LinesOf(t)
  <2>1. \A i \in DOMAIN u : \/ i \in DOMAIN s /\ u[i] = s[i]
                            \/ i - Len(s) \in DOMAIN t /\ u[i] = t[i - Len(s)]
    BY <1>1
  <2> QED
    BY <1>2, <1>3, <2>1 DEF LinesOf
<1> QED
  BY <1>4, <1>5, <1>6, <1>7 DEF u

\* What is on its way is in order in its parts, too.
LEMMA WayInOrder ==
    ASSUME UploadInv
    PROVE  /\ uploaded \o buff \in Seq(Nat) /\ InOrder(uploaded \o buff) /\ InOrder(buff)
           /\ (uploaded \o buff) \o channel \in Seq(Nat)
           /\ LinesOf(uploaded) \cap LinesOf(buff) = {}
           /\ LinesOf(uploaded \o buff) = LinesOf(uploaded) \cup LinesOf(buff)
           /\ Underway \in Seq(Nat) /\ LinesOf(uploaded \o buff) \subseteq Lines
<1>1. /\ uploaded \in Seq(Nat) /\ buff \in Seq(Nat)
      /\ channel \in Seq(Nat) /\ piped \in Seq(Nat)
      /\ InOrder(((uploaded \o buff) \o channel) \o piped)
      /\ LinesOf(((uploaded \o buff) \o channel) \o piped) = (1..written) \ dropped
  BY DEF UploadInv, UploadTypeOK, Underway
<1>2. uploaded \o buff \in Seq(Nat)
  BY <1>1, ConcatProperties
<1>3. (uploaded \o buff) \o channel \in Seq(Nat)
  BY <1>1, <1>2, ConcatProperties
<1>4. Underway \in Seq(Nat)
  BY <1>1, <1>3, ConcatProperties DEF Underway
<1>5. /\ InOrder((uploaded \o buff) \o channel)
      /\ LinesOf((uploaded \o buff) \o channel) \subseteq (1..written) \ dropped
  <2> DEFINE s == (uploaded \o buff) \o channel
  <2>1. s \in Seq(Nat) /\ InOrder(s \o piped) /\ LinesOf(s \o piped) = (1..written) \ dropped
    BY <1>1, <1>3
  <2> HIDE DEF s
  <2>2. InOrder(s) /\ LinesOf(s \o piped) = LinesOf(s) \cup LinesOf(piped)
    BY <1>1, <2>1, PartsInOrder
  <2>3. LinesOf(s) \subseteq (1..written) \ dropped
    BY <2>1, <2>2
  <2> QED
    BY <2>2, <2>3 DEF s
<1>6. /\ InOrder(uploaded \o buff)
      /\ LinesOf(uploaded \o buff) \subseteq (1..written) \ dropped
  <2> DEFINE s == uploaded \o buff
  <2>1. /\ s \in Seq(Nat) /\ InOrder(s \o channel)
        /\ LinesOf(s \o channel) \subseteq (1..written) \ dropped
    BY <1>2, <1>5
  <2> HIDE DEF s
  <2>2. InOrder(s) /\ LinesOf(s \o channel) = LinesOf(s) \cup LinesOf(channel)
    BY <1>1, <2>1, PartsInOrder
  <2>3. LinesOf(s) \subseteq (1..written) \ dropped
    BY <2>1, <2>2
  <2> QED
    BY <2>2, <2>3 DEF s
<1>7. /\ InOrder(buff) /\ LinesOf(uploaded) \cap LinesOf(buff) = {}
      /\ LinesOf(uploaded \o buff) = LinesOf(uploaded) \cup LinesOf(buff)
  BY <1>1, <1>6, PartsInOrder
<1>8. 1..written \subseteq Lines
  BY UploadAssumption DEF UploadInv, UploadTypeOK, Lines
<1> QED
  BY <1>2, <1>3, <1>4, <1>6, <1>7, <1>8

\* The server has got every line of the buffer once more, and no other.
LEMMA DeliveredOnce ==
    ASSUME UploadInv, Delivered
    PROVE  /\ server' \in [Lines -> Nat] /\ scans' \in Nat
           /\ \A l \in Lines : server'[l] = server[l] + (IF l \in LinesOf(buff) THEN 1 ELSE 0)
           /\ scans' = scans + (IF scanID THEN 0 ELSE 1)
<1>1. buff \in Seq(Nat) /\ InOrder(buff) /\ server \in [Lines -> Nat] /\ scans \in Nat
  BY WayInOrder DEF UploadInv, UploadTypeOK
<1>2. \A l : Cardinality({i \in DOMAIN buff : buff[i] = l})
              = IF l \in LinesOf(buff) THEN 1 ELSE 0
  BY <1>1, BroughtOnce
<1>3. /\ server' = [l \in Lines |-> server[l] + (IF l \in LinesOf(buff) THEN 1 ELSE 0)]
      /\ scans' = scans + (IF scanID THEN 0 ELSE 1)
  BY <1>2 DEF Delivered
<1> QED
  BY <1>1, <1>3

\* An upload leaves lines where they are on their way, and the server in a
\* state that fits them.
LEMMA UploadChunkStep ==
    ASSUME UploadInv, UploadChunk
    PROVE  /\ uploaded' \in Seq(Nat) /\ buff' \in Seq(Nat)
           /\ uploaded' \o buff' = uploaded \o buff
           /\ server' \in [Lines -> Nat] /\ scans' \in Nat /\ unheard' \in Nat
           /\ scanID' \in BOOLEAN
           /\ OnServer'
           /\ flushed' => buff' = <<>>
<1> USE DEF OnServer
<1>1. /\ UploadTypeOK /\ OnServer /\ uploaded \o buff \in Seq(Nat)
      /\ LinesOf(uploaded) \cap LinesOf(buff) = {} /\ LinesOf(uploaded \o buff) \subseteq Lines
      /\ LinesOf(uploaded \o buff) = LinesOf(uploaded) \cup LinesOf(buff)
  BY WayInOrder DEF UploadInv
<1>2. CASE UploadSucceeds
  <2>1. /\ scanID' = TRUE /\ buff' = <<>> /\ unheard' = unheard
        /\ uploaded' = uploaded \o buff /\ Delivered
    BY <1>2 DEF UploadSucceeds
  <2>2. uploaded' \o buff' = uploaded \o buff /\ uploaded' \in Seq(Nat) /\ buff' \in Seq(Nat)
    BY <1>1, <2>1, ConcatEmptySeq
  <2>3. /\ server' \in [Lines -> Nat] /\ scans' \in Nat
        /\ \A l \in Lines : server'[l] = server[l] + (IF l \in LinesOf(buff) THEN 1 ELSE 0)
        /\ scans' = scans + (IF scanID THEN 0 ELSE 1)
    BY <2>1, DeliveredOnce
  <2>4. LinesOf(uploaded)' = LinesOf(uploaded) \cup LinesOf(buff)
    BY <1>1, <2>1 DEF LinesOf
  <2>5. \A l \in LinesOf(uploaded)' : server'[l] >= 1
    <3> SUFFICES ASSUME NEW l \in LinesOf(uploaded)'
                 PROVE  server'[l] >= 1
      OBVIOUS
    <3>1. CASE l \in LinesOf(buff)
      BY <1>1, <2>3, <3>1 DEF UploadTypeOK
    <3>2. CASE l \notin LinesOf(buff)
      BY <1>1, <2>3, <2>4, <3>2 DEF UploadTypeOK
    <3> QED
      BY <3>1, <3>2
  <2>6. \A l \in Lines : server'[l] <= unheard' + (IF l \in LinesOf(uploaded)' THEN 1 ELSE 0)
    <3> TAKE l \in Lines
    <3>1. CASE l \in LinesOf(buff)
      BY <1>1, <2>1, <2>3, <2>4, <3>1 DEF UploadTypeOK
    <3>2. CASE l \notin LinesOf(buff)
      BY <1>1, <2>1, <2>3, <2>4, <3>2 DEF UploadTypeOK
    <3> QED
      BY <3>1, <3>2
  <2>7. scans' <= unheard' + (IF scanID' THEN 1 ELSE 0)
    BY <1>1, <2>1, <2>3 DEF UploadTypeOK
  <2> QED
    BY <1>1, <2>1, <2>2, <2>3, <2>5, <2>6, <2>7 DEF UploadTypeOK
<1>3. CASE UploadFails
  BY <1>1, <1>3 DEF UploadFails, UploadTypeOK, LinesOf
<1>4. CASE UploadUnheard
  <2>1. /\ scanID' = scanID /\ buff' = buff /\ unheard' = unheard + 1
        /\ uploaded' = uploaded /\ flushed' = FALSE /\ Delivered
    BY <1>4 DEF UploadUnheard
  <2>2. /\ server' \in [Lines -> Nat] /\ scans' \in Nat
        /\ \A l \in Lines : server'[l] = server[l] + (IF l \in LinesOf(buff) THEN 1 ELSE 0)
        /\ scans' = scans + (IF scanID THEN 0 ELSE 1)
    BY <2>1, DeliveredOnce
  <2>3. LinesOf(uploaded)' = LinesOf(uploaded)
    BY <2>1 DEF LinesOf
  <2>4. \A l \in LinesOf(uploaded)' : server'[l] >= 1
    <3> SUFFICES ASSUME NEW l \in LinesOf(uploaded)
                 PROVE  server'[l] >= 1
      BY <2>3
    <3>1. l \notin LinesOf(buff) /\ l \in Lines
      BY <1>1
    <3> QED
      BY <1>1, <2>2, <3>1 DEF UploadTypeOK
  <2>5. \A l \in Lines : server'[l] <= unheard' + (IF l \in LinesOf(uploaded)' THEN 1 ELSE 0)
    <3> TAKE l \in Lines
    <3>1. CASE l \in LinesOf(buff)
      BY <1>1, <2>1, <2>2, <2>3, <3>1 DEF UploadTypeOK
    <3>2. CASE l \notin LinesOf(buff)
      BY <1>1, <2>1, <2>2, <2>3, <3>2 DEF UploadTypeOK
    <3> QED
      BY <3>1, <3>2
  <2>6. scans' <= unheard' + (IF scanID' THEN 1 ELSE 0)
    BY <1>1, <2>1, <2>2 DEF UploadTypeOK
  <2> QED
    BY <1>1, <2>1, <2>2, <2>4, <2>5, <2>6 DEF UploadTypeOK
<1> QED
  BY <1>2, <1>3, <1>4 DEF UploadChunk

\* What is on its way stays there, in order, wherever the lines move.
LEMMA UploadStep ==
    ASSUME UploadInv, UploadNext
    PROVE  UploadInv'
<1> DEFINE Sent == uploaded \o buff
<1>1. UploadTypeOK /\ OnServer /\ (commit = "done" /\ flushed => buff = <<>>)
  BY DEF UploadInv
<1>2. InOrder(Underway) /\ LinesOf(Underway) = (1..written) \ dropped
  BY DEF UploadInv
<1>3. /\ Sent \in Seq(Nat) /\ Sent \o channel \in Seq(Nat) /\ Underway \in Seq(Nat)
  BY WayInOrder
<1>4. ASSUME UNCHANGED <<uploaded, server, unheard, scans, scanID>>
      PROVE  OnServer'
  BY <1>1, <1>4 DEF OnServer, LinesOf
<1>5. ASSUME UploadTypeOK', OnServer', Underway' = Underway,
             written' = written, dropped' = dropped,
             commit' = "done" /\ flushed' => buff' = <<>>
      PROVE  UploadInv'
  <2>1. InOrder(Underway') /\ LinesOf(Underway') = (1..written') \ dropped'
    BY <1>2, <1>5
  <2> QED
    BY <1>5, <2>1 DEF UploadInv
<1>6. CASE WriteLine
  <2>1. /\ written' = written + 1 /\ written < Len(LineSizes)
        /\ piped' = Append(piped, written + 1)
        /\ UNCHANGED <<channel, buff, commit, scanID, dropped>>
        /\ UNCHANGED <<uploaded, server, scans, unheard, flushed>>
    BY <1>6 DEF WriteLine, uploadHistory
  <2>2. UploadTypeOK'
    BY <1>1, <2>1, UploadAssumption DEF UploadTypeOK
  <2>3. Underway' = Append(Underway, written + 1)
    <3>1. written + 1 \in Nat /\ piped \in Seq(Nat)
      BY <1>1 DEF UploadTypeOK
    <3>2. (Sent \o channel) \o Append(piped, written + 1)
          = Append((Sent \o channel) \o piped, written + 1)
      BY <1>3, <3>1, BehindAll
    <3> QED
      BY <2>1, <3>2 DEF Underway
  <2>4. \A l \in LinesOf(Underway) : l < written + 1
    BY <1>1, <1>2 DEF UploadTypeOK
  <2>5. InOrder(Underway') /\ LinesOf(Underway') = LinesOf(Underway) \cup {written + 1}
    BY <1>1, <1>2, <1>3, <2>3, <2>4, ComesLast DEF UploadTypeOK
  <2>6. LinesOf(Underway') = (1..written') \ dropped'
    BY <1>1, <1>2, <2>1, <2>5 DEF UploadTypeOK
  <2> QED
    BY <1>1, <1>4, <2>1, <2>2, <2>5, <2>6 DEF UploadInv
<1>7. CASE ReadLine
  <2>1. /\ piped # <<>> /\ channel' = Append(channel, Head(piped)) /\ piped' = Tail(piped)
        /\ UNCHANGED <<buff, commit, scanID, written, dropped>>
        /\ UNCHANGED <<uploaded, server, scans, unheard, flushed>>
    BY <1>7 DEF ReadLine, uploadHistory
  <2>2. /\ channel' \in Seq(Nat) /\ piped' \in Seq(Nat)
        /\ channel' \o piped' = channel \o piped
    BY <1>1, <2>1, PassOn DEF UploadTypeOK
  <2>3. UploadTypeOK'
    BY <1>1, <2>1, <2>2 DEF UploadTypeOK
  <2>4. Underway' = Underway
    <3>1. (Sent \o channel') \o piped' = Sent \o (channel' \o piped')
      BY <1>3, <2>2, Together, Zenon
    <3>2. (Sent \o channel) \o piped = Sent \o (channel \o piped)
      <4>1. channel \in Seq(Nat) /\ piped \in Seq(Nat)
        BY <1>1 DEF UploadTypeOK
      <4> QED
        BY <1>3, <4>1, Together, Zenon
    <3> QED
      BY <2>1, <2>2, <3>1, <3>2 DEF Underway
  <2> QED
    BY <1>1, <1>4, <1>5, <2>1, <2>3, <2>4
<1>8. CASE TakeLine
  <2>1. /\ commit = "loop" /\ channel # <<>>
        /\ buff' = Append(buff, Head(channel)) /\ channel' = Tail(channel)
        /\ UNCHANGED <<piped, commit, scanID, written, dropped>>
        /\ UNCHANGED <<uploaded, server, scans, unheard, flushed>>
    BY <1>8 DEF TakeLine, uploadHistory
  <2>2. /\ buff' \in Seq(Nat) /\ channel' \in Seq(Nat)
        /\ buff' \o channel' = buff \o channel
    BY <1>1, <2>1, PassOn DEF UploadTypeOK
  <2>3. UploadTypeOK'
    BY <1>1, <2>1, <2>2 DEF UploadTypeOK
  <2>4a. uploaded \in Seq(Nat)
    BY <1>1 DEF UploadTypeOK
  <2>4. Underway' = Underway
    <3>1. (uploaded \o buff') \o channel' = uploaded \o (buff' \o channel')
      BY <1>1, <2>2, <2>4a, Together, Zenon
    <3>2. (uploaded \o buff) \o channel = uploaded \o (buff \o channel)
      BY <1>1, Together, Zenon DEF UploadTypeOK
    <3> QED
      BY <2>1, <2>2, <3>1, <3>2 DEF Underway
  <2> QED
    BY <1>1, <1>4, <1>5, <2>1, <2>3, <2>4
<1>9. ASSUME UploadChunk
      PROVE  /\ uploaded' \in Seq(Nat) /\ buff' \in Seq(Nat) /\ Sent' = Sent
             /\ server' \in [Lines -> Nat] /\ scans' \in Nat /\ unheard' \in Nat
             /\ scanID' \in BOOLEAN /\ OnServer' /\ (flushed' => buff' = <<>>)
  BY <1>9, UploadChunkStep
<1>10. CASE Flush
  <2>1. UploadChunk /\ UNCHANGED <<piped, channel, written, dropped>>
    BY <1>10 DEF Flush, queueVars
  <2>2. UploadTypeOK'
    BY <1>1, <1>9, <2>1 DEF UploadTypeOK
  <2>3. Underway' = Underway
    BY <1>9, <2>1 DEF Underway
  <2> QED
    BY <1>5, <1>9, <2>1, <2>2, <2>3
<1>11. CASE Finish
  <2>1. CASE buff # <<>>
    <3>1. UploadChunk /\ UNCHANGED <<piped, channel, written, dropped>>
      BY <1>11, <2>1 DEF Finish, queueVars
    <3>2. UploadTypeOK'
      BY <1>1, <1>9, <3>1 DEF UploadTypeOK
    <3>3. Underway' = Underway
      BY <1>9, <3>1 DEF Underway
    <3> QED
      BY <1>5, <1>9, <3>1, <3>2, <3>3
  <2>2. CASE buff = <<>>
    <3>1. /\ UNCHANGED <<piped, channel, written, dropped, buff, scanID>>
          /\ UNCHANGED <<uploaded, server, scans, unheard, flushed>>
      BY <1>11, <2>2 DEF Finish, queueVars, uploadHistory
    <3> QED
      BY <1>1, <1>4, <1>5, <2>2, <3>1 DEF UploadTypeOK, Underway
  <2> QED
    BY <2>1, <2>2
<1>12. CASE DropLine
  <2>1. /\ UploadChunk /\ channel # <<>> /\ channel' = Tail(channel)
        /\ dropped' = dropped \cup {Head(channel)}
        /\ UNCHANGED <<piped, written>>
    BY <1>12 DEF DropLine
  <2>2. /\ uploaded' \in Seq(Nat) /\ buff' \in Seq(Nat) /\ Sent' = Sent
        /\ server' \in [Lines -> Nat] /\ scans' \in Nat /\ unheard' \in Nat
        /\ scanID' \in BOOLEAN /\ OnServer' /\ (flushed' => buff' = <<>>)
    BY <1>9, <2>1
  <2>3. /\ channel \in Seq(Nat) /\ piped \in Seq(Nat) /\ channel' \in Seq(Nat)
        /\ channel' \o piped = Tail(channel \o piped) /\ Head(channel \o piped) = Head(channel)
        /\ channel \o piped \in Seq(Nat) /\ channel \o piped # <<>>
    BY <1>1, <2>1, FirstOfTwo DEF UploadTypeOK
  <2>4. Underway = Sent \o (channel \o piped) /\ Underway' = Sent \o Tail(channel \o piped)
    <3>s. Sent \in Seq(Nat)
      BY <1>3
    <3>c. channel \in Seq(Nat) /\ channel' \in Seq(Nat) /\ piped \in Seq(Nat)
      BY <2>3
    <3> HIDE DEF Sent
    <3>1. (Sent \o channel) \o piped = Sent \o (channel \o piped)
      BY ONLY <3>s, <3>c, Together
    <3>2. (Sent \o channel') \o piped = Sent \o (channel' \o piped)
      BY ONLY <3>s, <3>c, Together
    <3> USE DEF Sent
    <3>3. Sent' = Sent /\ channel' \o piped = Tail(channel \o piped) /\ piped' = piped
      BY <2>1, <2>2, <2>3
    <3>4. Underway = (Sent \o channel) \o piped /\ Underway' = (Sent' \o channel') \o piped'
      BY Zenon DEF Underway
    <3> HIDE DEF Sent
    <3> QED
      BY <3>1, <3>2, <3>3, <3>4, Zenon
  <2>5. /\ InOrder(Underway') /\ LinesOf(Underway') = LinesOf(Underway) \ {Head(channel)}
        /\ Head(channel) \in LinesOf(Underway)
    <3> DEFINE t == channel \o piped
    <3>1. t \in Seq(Nat) /\ t # <<>> /\ InOrder(Sent \o t) /\ Sent \in Seq(Nat)
      BY <1>2, <1>3, <2>3, <2>4
    <3>2. Underway = Sent \o t /\ Underway' = Sent \o Tail(t) /\ Head(t) = Head(channel)
      BY <2>3, <2>4
    <3> HIDE DEF t, Sent
    <3>3. /\ InOrder(Sent \o Tail(t))
          /\ LinesOf(Sent \o Tail(t)) = LinesOf(Sent \o t) \ {Head(t)}
          /\ Head(t) \in LinesOf(Sent \o t)
      BY <3>1, FallsOut
    <3> QED
      BY <3>2, <3>3
  <2>6. LinesOf(Underway') = (1..written') \ dropped' /\ dropped' \subseteq 1..written'
    BY <1>1, <1>2, <2>1, <2>5 DEF UploadTypeOK
  <2>7. UploadTypeOK'
    BY <1>1, <2>1, <2>2, <2>3, <2>6 DEF UploadTypeOK
  <2> QED
    BY <2>2, <2>5, <2>6, <2>7 DEF UploadInv
<1>13. CASE CancelCommit \/ ClosePipe
  <2>1. /\ UNCHANGED <<piped, channel, written, dropped, buff, scanID, commit>>
        /\ UNCHANGED <<uploaded, server, scans, unheard, flushed>>
    BY <1>13 DEF CancelCommit, ClosePipe, queueVars, uploadHistory
  <2> QED
    BY <1>1, <1>4, <1>5, <2>1 DEF UploadTypeOK, Underway
<1> QED
  BY <1>6, <1>7, <1>8, <1>10, <1>11, <1>12, <1>13 DEF UploadNext

LEMMA UploadInvariant == UploadSpec => []UploadInv
<1>1. UploadInit => UploadInv
  <2> SUFFICES ASSUME UploadInit
               PROVE  UploadInv
    OBVIOUS
  <2>1. Underway = <<>>
    <3>1. uploaded = <<>> /\ buff = <<>> /\ channel = <<>> /\ piped = <<>>
      BY DEF UploadInit
    <3>2. <<>> \o <<>> = <<>>
      OBVIOUS
    <3> QED
      BY <3>1, <3>2 DEF Underway
  <2>2. UploadTypeOK
    BY UploadAssumption DEF UploadInit, UploadTypeOK
  <2>3. InOrder(Underway) /\ LinesOf(Underway) = (1..written) \ dropped
    BY <2>1 DEF UploadInit, InOrder, LinesOf
  <2>4. OnServer
    BY DEF UploadInit, OnServer, LinesOf
  <2> QED
    BY <2>2, <2>3, <2>4 DEF UploadInit, UploadInv
<1>2. UploadInv /\ [UploadNext]_uploadVars => UploadInv'
  <2>1. CASE UploadNext
    BY <2>1, UploadStep
  <2>2. CASE UNCHANGED uploadVars
    <3>1. UNCHANGED <<piped, channel, buff, commit, scanID, written, uploaded, dropped,
                      server, scans, unheard, flushed>>
      BY <2>2 DEF uploadVars, queueVars, uploadHistory
    <3>2. Underway' = Underway
      BY <3>1 DEF Underway
    <3>3. UploadInv => UploadTypeOK' /\ OnServer' /\ (commit' = "done" /\ flushed' => buff' = <<>>)
      BY <3>1 DEF UploadInv, UploadTypeOK, OnServer, LinesOf
    <3>4. UploadInv => InOrder(Underway)' /\ LinesOf(Underway)' = (1..written') \ dropped'
      BY <3>1, <3>2 DEF UploadInv, InOrder, LinesOf
    <3> QED
      BY <3>3, <3>4 DEF UploadInv
  <2> QED
    BY <2>1, <2>2
<1> QED
  BY <1>1, <1>2, PTL DEF UploadSpec

\* Every result that was written is uploaded or on its way, in order and in
\* one scan, but for what autoCommit drops and the server does not answer
\* (internal/pdcp/writer.go), for any number, size and order of results.
THEOREM EveryLineAccounted == UploadSpec => []UploadAccounted
<1>1. UploadInv => UploadAccounted
  <2> SUFFICES ASSUME UploadInv
               PROVE  UploadAccounted
    OBVIOUS
  <2>1. UploadTypeOK /\ OnServer
    BY DEF UploadInv
  <2> QED
    BY <2>1 DEF UploadInv, UploadTypeOK, OnServer, UploadAccounted
<1> QED
  BY <1>1, UploadInvariant, PTL

-----------------------------------------------------------------------------
(* Clusters *)

LEMMA HasLeast ==
    ASSUME NEW T, T \subseteq Nat, T # {}
    PROVE  \E x \in T : \A y \in T : x <= y
<1>1. IsWellFoundedOn(OpToRel(<, Nat), Nat)
  BY NatLessThanWellFounded
<1>2. PICK x \in T : \A y \in T : <<y, x>> \notin OpToRel(<, Nat)
  BY <1>1, WFMin
<1>3. \A y \in T : ~(y < x)
  BY <1>2 DEF OpToRel
<1> QED
  BY <1>3

\* The greatest of some positions is one of them.
LEMMA Greatest ==
    ASSUME NEW n \in Nat, NEW T, T \subseteq 1..n, T # {}
    PROVE  Max(T) \in T
<1> DEFINE B == {k \in Nat : \A y \in T : y <= k}
<1>1. PICK b \in B : \A k \in B : b <= k
  <2>1. n \in B
    OBVIOUS
  <2> QED
    BY <2>1, HasLeast
<1>2. b \in T
  <2> SUFFICES ASSUME b \notin T PROVE FALSE
    OBVIOUS
  <2>3. /\ b \in Nat
        /\ \A y \in T : y <= b /\ y # b /\ y \in Nat /\ y > 0
    BY <1>1
  <2>1. PICK t \in T : t <= b /\ t # b /\ t \in Nat /\ t > 0
    BY <2>3
  <2>2. b - 1 \in B
    <3>1. b - 1 \in Nat
      BY <2>1, <2>3
    <3> QED
      BY <2>3, <3>1
  <2> QED
    BY <1>1, <2>2
<1>3. \E x \in T : \A y \in T : x >= y
  BY <1>1, <1>2
<1> QED
  BY <1>3 DEF Max

\* Operators whose parts and names are in the data.
WellFormed(ops, d) ==
    /\ Len(ops.extractors) \in Nat /\ DOMAIN ops.extractors = 1..Len(ops.extractors)
    /\ \A x \in DOMAIN ops.extractors : /\ ops.extractors[x].part \in DOMAIN d
                                        /\ ops.extractors[x].name \in DOMAIN d
    /\ \A m \in DOMAIN ops.matchers : ops.matchers[m].part \in DOMAIN d

\* What is extracted depends on the parts that are taken only.
LEMMA SameExtracts ==
    ASSUME NEW ops, NEW d, NEW e, DOMAIN d = DOMAIN e, WellFormed(ops, d),
           \A x \in DOMAIN ops.extractors : d[ops.extractors[x].part] = e[ops.extractors[x].part]
    PROVE  /\ Finding(ops, d) = Finding(ops, e)
           /\ \A n \in DOMAIN d : FindingAs(ops, d, n) = FindingAs(ops, e, n)
           /\ \A n \in DOMAIN d : d[n] = e[n] \/ FindingAs(ops, e, n) # {} =>
                 Extracted(ops, d)[n] = Extracted(ops, e)[n]
<1>1. Finding(ops, d) = Finding(ops, e)
  BY DEF Finding, ExtractorOf
<1>2. \A n \in DOMAIN d : FindingAs(ops, d, n) = FindingAs(ops, e, n)
  BY <1>1 DEF FindingAs
<1>3. ASSUME NEW n \in DOMAIN d, d[n] = e[n] \/ FindingAs(ops, e, n) # {}
      PROVE  Extracted(ops, d)[n] = Extracted(ops, e)[n]
  <2>1. CASE FindingAs(ops, e, n) = {}
    BY <1>2, <1>3, <2>1 DEF Extracted
  <2>2. CASE FindingAs(ops, e, n) # {}
    <3> DEFINE x == Max(FindingAs(ops, e, n))
    <3>1. FindingAs(ops, e, n) \subseteq 1..Len(ops.extractors)
      BY DEF FindingAs, Finding, WellFormed
    <3>2. x \in DOMAIN ops.extractors
      BY <2>2, <3>1, Greatest DEF WellFormed
    <3>3. /\ Extracted(ops, d)[n] = d[ops.extractors[x].part]
          /\ Extracted(ops, e)[n] = e[ops.extractors[x].part]
      BY <1>2, <2>2 DEF Extracted, ExtractorOf
    <3> HIDE DEF x
    <3> QED
      BY <3>2, <3>3
  <2> QED
    BY <2>1, <2>2
<1> QED
  BY <1>1, <1>2, <1>3

\* And the result on those and the parts that are read.
LEMMA SameResult ==
    ASSUME NEW ops, NEW d, NEW e, DOMAIN d = DOMAIN e, WellFormed(ops, d),
           \A x \in DOMAIN ops.extractors : d[ops.extractors[x].part] = e[ops.extractors[x].part],
           \A m \in DOMAIN ops.matchers :
               \/ d[ops.matchers[m].part] = e[ops.matchers[m].part]
               \/ FindingAs(ops, e, ops.matchers[m].part) # {}
    PROVE  Execute(ops, d) = Execute(ops, e)
<1>1. Finding(ops, d) = Finding(ops, e)
  BY SameExtracts
<1>2. \A m \in DOMAIN ops.matchers :
        Extracted(ops, d)[ops.matchers[m].part] = Extracted(ops, e)[ops.matchers[m].part]
  <2>1. \A n \in DOMAIN d : d[n] = e[n] \/ FindingAs(ops, e, n) # {} =>
                 Extracted(ops, d)[n] = Extracted(ops, e)[n]
    BY SameExtracts
  <2>2. \A m \in DOMAIN ops.matchers : ops.matchers[m].part \in DOMAIN d
    BY DEF WellFormed
  <2> QED
    BY <2>1, <2>2
<1>3. Holding(ops, Extracted(ops, d)) = Holding(ops, Extracted(ops, e))
  BY <1>2 DEF Holding, Asked
<1>4. AndFails(ops, Extracted(ops, d)) = AndFails(ops, Extracted(ops, e))
  BY <1>3 DEF AndFails
<1> QED
  BY <1>1, <1>3, <1>4 DEF Execute

\* Without operators there is no result.
LEMMA NothingWithout ==
    ASSUME NEW d
    PROVE  ~HasResult(NoOperators, Execute(NoOperators, d))
<1> DEFINE r == Execute(NoOperators, d)
<1>1. NoOperators.matchers = <<>> /\ NoOperators.extractors = <<>>
  BY DEF NoOperators
<1>2. Finding(NoOperators, d) = {} /\ \A x : Holding(NoOperators, x) = {}
  BY <1>1 DEF Finding, Holding, Asked
<1>3. ~r.matched /\ ~r.dynamic /\ ~r.extracts
  BY <1>2 DEF Execute
<1> HIDE DEF r
<1>4. ~HasResult(NoOperators, r)
  BY <1>3 DEF HasResult
<1> QED
  BY <1>4 DEF r

\* The results a cluster writes are those of the template alone, but for the
\* two kinds it treats in another way.
LEMMA WritesAsAlone ==
    ASSUME NEW ops, NEW d
    PROVE  LET r == Execute(ops, d)
           IN  /\ HasResult(ops, r) /\ MakesResult(ops, r) =>
                     ReportsAlone(ops, r) \/ MatchesInternally(ops, r)
               /\ ReportsAlone(ops, r) =>
                     \/ HasResult(ops, r) /\ MakesResult(ops, r)
                     \/ r.extracts /\ r.dynamic /\ ~r.matched
               /\ NilResult(ops, r) => ~HasResult(ops, r)
               /\ CreatesResult(ops, r) => HasResult(ops, r)
<1> DEFINE r == Execute(ops, d)
<1>1. /\ r.matched \in BOOLEAN /\ r.dynamic \in BOOLEAN /\ r.extracts \in BOOLEAN
      /\ Created(r) = [r EXCEPT !.dynamic = r.dynamic /\ ~r.extracts]
      /\ Created(r).matched = r.matched /\ Created(r).extracts = r.extracts
      /\ Created(r).dynamic = (r.dynamic /\ ~r.extracts)
  BY DEF Execute, Created
<1> HIDE DEF r
<1> QED
  BY <1>1 DEF HasResult, MakesResult, ReportsAlone, CreatesResult, NilResult, r

\* What the list and the response settle.
LEMMA ListIsWellFormed ==
    ASSUME ClusterInv
    PROVE  /\ Len(list) \in Nat /\ Positions = 1..Len(list)
           /\ \A i \in Positions : /\ list[i].clusterable \in BOOLEAN
                                   /\ WellFormed(Ops(i), response)
<1>1. /\ Len(list) \in Nat /\ DOMAIN list = 1..Len(list)
      /\ \A i \in DOMAIN list :
            /\ list[i].clusterable \in BOOLEAN
            /\ list[i].ops.matchers \in Seq([part : DOMAIN response, accepts : SUBSET STRING,
                                             internal : BOOLEAN, excluded : BOOLEAN])
            /\ list[i].ops.extractors \in
                  Seq([name : DOMAIN response, part : DOMAIN response, internal : BOOLEAN])
  BY ClusterAssumption DEF ClusterInv, ClusterAssumptionOn
<1>2. ASSUME NEW i \in DOMAIN list
      PROVE  WellFormed(list[i].ops, response)
  <2> DEFINE ms == list[i].ops.matchers
             xs == list[i].ops.extractors
             M == [part : DOMAIN response, accepts : SUBSET STRING,
                   internal : BOOLEAN, excluded : BOOLEAN]
             X == [name : DOMAIN response, part : DOMAIN response, internal : BOOLEAN]
  <2>1. ms \in Seq(M) /\ xs \in Seq(X)
    BY <1>1
  <2> HIDE DEF M, X
  <2>2. /\ \A m \in DOMAIN ms : ms[m] \in M
        /\ \A x \in DOMAIN xs : xs[x] \in X
        /\ Len(xs) \in Nat /\ DOMAIN xs = 1..Len(xs)
    BY <2>1, LenProperties
  <2>3. /\ \A m \in M : m.part \in DOMAIN response
        /\ \A x \in X : x.part \in DOMAIN response /\ x.name \in DOMAIN response
    BY DEF M, X
  <2> QED
    BY <2>2, <2>3 DEF WellFormed
<1> QED
  BY <1>1, <1>2 DEF Positions, Ops

LEMMA Settled ==
    ASSUME UNCHANGED <<list, response>>
    PROVE  /\ Positions' = Positions
           /\ \A i : /\ Ops(i)' = Ops(i) /\ HasOperators(i)' = HasOperators(i)
                     /\ GroupKey(i)' = GroupKey(i) /\ Names(i)' = Names(i)
                     /\ Alone(i)' = Alone(i) /\ MixedExtracts(i)' = MixedExtracts(i)
                     /\ Apart(i)' = Apart(i)
           /\ \A i, j : Clustered(i, j)' = Clustered(i, j)
           /\ GroupKeys' = GroupKeys
           /\ \A e : IsCluster(e)' = IsCluster(e)
BY DEF Positions, Ops, HasOperators, GroupKey, Names, Alone, On, MixedExtracts, Apart, Clustered,
       GroupKeys, IsCluster, Reads, Takes

\* What was told of a template stays true.
LEMMA StaysAsAlone ==
    ASSUME NEW i \in Positions, AsAlone(i), UNCHANGED <<list, response>>,
           matches'[i] = matches[i], failures \subseteq failures',
           \A j \in Positions : matches'[j] = 0 => matches[j] = 0
    PROVE  AsAlone(i)'
BY Settled DEF AsAlone

\* A template that reads the event apart has the result it has alone.
LEMMA SameAsAlone ==
    ASSUME ClusterInv, NEW i \in Positions, running # <<>>, position \in DOMAIN running,
           i = running[position], Apart(i)
    PROVE  On(i, data) = Alone(i)
<1>1. /\ WellFormed(Ops(i), response) /\ DOMAIN data = DOMAIN response
      /\ IsCluster(running) /\ Len(running) > 1 /\ ~Splitting
      /\ running \in Seq(Positions)
      /\ position \in 1..Len(running) /\ Len(running) \in Nat
  BY ListIsWellFormed DEF ClusterInv, ExecuterInv, EventInv, Splitting, IsCluster
<1>2. \A m \in 1..(position - 1) : /\ m \in DOMAIN running /\ running[m] \in Positions
                                   /\ running[m] # i /\ Clustered(i, running[m])
  BY <1>1 DEF IsCluster
<1>3. Clustered(i, i)
  <2>1. \E m \in DOMAIN running : m # position
    <3>1. 1 \in DOMAIN running /\ 2 \in DOMAIN running
      BY <1>1
    <3> QED
      BY <3>1
  <2> PICK m \in DOMAIN running : m # position
    BY <2>1
  <2>2. Clustered(running[position], running[m])
    BY <1>1 DEF IsCluster
  <2> QED
    BY <2>2 DEF Clustered
<1>4. /\ Names(i) \cap Takes(i) = {}
      /\ \A m \in 1..(position - 1) : /\ Names(running[m]) \cap Takes(i) = {}
                                      /\ Names(running[m]) \cap Reads(i) = {}
  BY <1>2, <1>3 DEF Apart
<1>5. \A n \in DOMAIN response :
         \/ data[n] = response[n]
         \/ position = 1 /\ FindingAs(Ops(running[1]), response, n) # {}
         \/ \E m \in 1..(position - 1) : n \in Names(running[m])
  BY DEF ClusterInv, EventInv
<1>6. \A n \in DOMAIN response : FindingAs(Ops(i), response, n) # {} => n \in Names(i)
  BY DEF FindingAs, Finding, Names, ExtractorOf
<1>7. \A x \in DOMAIN Ops(i).extractors :
         data[Ops(i).extractors[x].part] = response[Ops(i).extractors[x].part]
  <2> TAKE x \in DOMAIN Ops(i).extractors
  <2>1. Ops(i).extractors[x].part \in DOMAIN response /\ Ops(i).extractors[x].part \in Takes(i)
    BY <1>1 DEF WellFormed, Takes
  <2> QED
    BY <2>1, <1>4, <1>5, <1>6
<1>8. \A m \in DOMAIN Ops(i).matchers :
         \/ data[Ops(i).matchers[m].part] = response[Ops(i).matchers[m].part]
         \/ FindingAs(Ops(i), response, Ops(i).matchers[m].part) # {}
  <2> TAKE m \in DOMAIN Ops(i).matchers
  <2>1. Ops(i).matchers[m].part \in DOMAIN response /\ Ops(i).matchers[m].part \in Reads(i)
    BY <1>1 DEF WellFormed, Reads
  <2> QED
    BY <2>1, <1>4, <1>5
<1>9. WellFormed(Ops(i), data)
  BY <1>1 DEF WellFormed
<1> QED
  BY <1>1, <1>7, <1>8, <1>9, SameResult DEF On, Alone

\* One template was evaluated.
LEMMA OneEvaluated ==
    ASSUME ClusterInv, UNCHANGED <<list, response>>, NEW i \in Positions, NEW v \in {0, 1},
           i \in Waiting, Waiting' = Waiting \ {i},
           matches' = [matches EXCEPT ![i] = @ + v], failures \subseteq failures',
           Apart(i) => AsAlone(i)'
    PROVE  OutcomeInv' /\ matches' \in [Positions -> {0, 1}] /\ matches'[i] = v
<1>1. matches \in [Positions -> {0, 1}] /\ OutcomeInv /\ matches[i] = 0
  BY DEF ClusterInv, OutcomeInv
<1>2. /\ matches' \in [Positions -> {0, 1}] /\ matches'[i] = v
      /\ \A j \in Positions \ {i} : matches'[j] = matches[j]
      /\ \A j \in Positions : matches'[j] = 0 => matches[j] = 0
  BY <1>1
<1>3. ASSUME NEW j \in Positions
      PROVE  IF j \in Waiting' THEN matches'[j] = 0 ELSE Apart(j)' => AsAlone(j)'
  <2>1. CASE j = i
    BY <2>1, Settled
  <2>2. CASE j # i /\ j \in Waiting
    BY <1>1, <1>2, <2>2 DEF OutcomeInv
  <2>3. CASE j # i /\ j \notin Waiting
    <3>1. Apart(j) => AsAlone(j)
      BY <1>1, <2>3 DEF OutcomeInv
    <3>2. Apart(j) => AsAlone(j)'
      BY <1>2, <2>3, <3>1, StaysAsAlone
    <3> QED
      BY <2>3, <3>2, Settled
  <2> QED
    BY <2>1, <2>2, <2>3
<1>4. OutcomeInv'
  BY <1>3, Settled DEF OutcomeInv
<1> QED
  BY <1>2, <1>4

\* The loop goes on to the next template of its cluster.
LEMMA LoopGoesOn ==
    ASSUME ClusterInv, UNCHANGED <<list, response, executers, running>>,
           position \in DOMAIN running, position' = position + 1
    PROVE  /\ SplitInv' /\ ExecuterInv'
           /\ running[position] \in Positions /\ running[position] \in Waiting
           /\ Waiting' = Waiting \ {running[position]}
           /\ running # <<>> /\ position \in 1..Len(running) /\ Len(running) \in Nat
<1>1. running # <<>> /\ ~Splitting /\ ~Splitting'
  BY DEF Splitting
<1>2. /\ \A e \in executers : IsCluster(e)
      /\ \A e, f \in executers : e # f => Members(e) \cap Members(f) = {}
      /\ IsCluster(running) /\ Len(running) > 1
      /\ \A e \in executers : Members(e) \cap Members(running) = {}
  BY <1>1 DEF ClusterInv, ExecuterInv
<1>3. /\ running \in Seq(Positions) /\ Len(running) \in Nat /\ DOMAIN running = 1..Len(running)
      /\ \A m, n \in DOMAIN running : m # n => running[m] # running[n]
      /\ position \in 1..Len(running)
  BY <1>2 DEF IsCluster
<1>4. SplitInv'
  BY <1>1 DEF SplitInv
<1>5. ExecuterInv'
  <2>1. position' \in 1..(Len(running) + 1)
    BY <1>3
  <2>2. \A e : Members(e)' = Members(e) /\ IsCluster(e)' = IsCluster(e)
    BY Settled DEF Members, IsCluster
  <2>3. executers' = executers /\ running' = running
    OBVIOUS
  <2> QED
    BY <1>1, <1>2, <2>1, <2>2, <2>3 DEF ExecuterInv
<1>6. \A j \in Positions : j \in Waiting <=>
         \/ \E e \in executers : j \in Members(e)
         \/ \E m \in DOMAIN running : m >= position /\ j = running[m]
  BY <1>1 DEF Waiting
<1>7. \A j \in Positions : j \in Waiting' <=>
         \/ \E e \in executers : j \in Members(e)
         \/ \E m \in DOMAIN running : m >= position + 1 /\ j = running[m]
  <2>1. \A e : Members(e)' = Members(e)
    BY DEF Members
  <2> QED
    BY <1>1, <2>1, Settled DEF Waiting
<1>8. \A e \in executers : running[position] \notin Members(e)
  <2>1. running[position] \in Members(running)
    BY DEF Members
  <2> QED
    BY <1>2, <2>1
<1>9. \A j \in Positions : j \in Waiting' <=> j \in Waiting /\ j # running[position]
  BY <1>3, <1>6, <1>7, <1>8
<1>10. running[position] \in Positions /\ running[position] \in Waiting
  BY <1>3, <1>6
<1>11. Waiting \subseteq Positions /\ Waiting' \subseteq Positions
  BY Settled DEF Waiting
<1> QED
  BY <1>1, <1>3, <1>4, <1>5, <1>9, <1>10, <1>11

\* What the event has of a template that is evaluated.
LEMMA EventAfter ==
    ASSUME ClusterInv, UNCHANGED <<list, response, executers, running>>,
           position \in DOMAIN running, position' = position + 1,
           \/ data' = data
           \/ data' = Extracted(Ops(running[position]), data),
           matches' \in [Positions -> {0, 1}],
           \A j \in Positions : matches[j] # 0 => matches'[j] # 0,
           \/ result' = result
              /\ ~HasResult(Ops(running[position]), On(running[position], data))
           \/ result' = 0
           \/ result' = running[position] /\ matches'[running[position]] # 0
    PROVE  EventInv'
<1> DEFINE i == running[position]
<1>1. /\ running # <<>> /\ position \in 1..Len(running) /\ Len(running) \in Nat
      /\ i \in Positions
  BY LoopGoesOn
<1>2. /\ DOMAIN data = DOMAIN response
      /\ \A n \in DOMAIN response :
            \/ data[n] = response[n]
            \/ position = 1 /\ FindingAs(Ops(running[1]), response, n) # {}
            \/ \E m \in 1..(position - 1) : n \in Names(running[m])
      /\ result # 0 =>
            \/ position = 1 /\ result = running[1] /\ CreatesResult(Ops(result), Alone(result))
            \/ \E m \in 1..(position - 1) :
                  result = running[m] /\ (Apart(result) => matches[result] # 0)
  BY <1>1 DEF ClusterInv, EventInv
<1>3. \A d, n : FindingAs(Ops(i), d, n) # {} => n \in Names(i)
  BY DEF FindingAs, Finding, Names, ExtractorOf
<1>4. /\ DOMAIN data' = DOMAIN data
      /\ \A n \in DOMAIN data : data'[n] = data[n] \/ n \in Names(i)
  BY <1>3 DEF Extracted
<1>5. \A n \in DOMAIN response :
         data'[n] = response[n] \/ \E m \in 1..position : n \in Names(running[m])
  <2> TAKE n \in DOMAIN response
  <2>1. CASE n \in Names(i)
    BY <1>1, <2>1
  <2>2. CASE n \notin Names(i)
    BY <1>1, <1>2, <1>3, <1>4, <2>2
  <2> QED
    BY <2>1, <2>2
<1>6. result' # 0 => \E m \in 1..position :
                        result' = running[m] /\ (Apart(result') => matches'[result'] # 0)
  <2>1. CASE result' = i /\ matches'[i] # 0
    BY <1>1, <2>1
  <2>2. CASE result' = result /\ ~HasResult(Ops(i), On(i, data)) /\ result # 0
    <3>1. CASE position = 1 /\ result = i /\ CreatesResult(Ops(i), Alone(i))
      <4>1. ~Apart(i)
        <5> SUFFICES ASSUME Apart(i) PROVE FALSE
          OBVIOUS
        <5>1. On(i, data) = Alone(i)
          BY <1>1, SameAsAlone
        <5> QED
          BY <2>2, <3>1, <5>1 DEF CreatesResult
      <4> QED
        BY <1>1, <2>2, <3>1, <4>1
    <3>2. ASSUME NEW m \in 1..(position - 1),
                 result = running[m] /\ (Apart(result) => matches[result] # 0)
          PROVE  result \in Positions /\ (Apart(result) => matches'[result] # 0)
      <4>1. running \in Seq(Positions) /\ m \in DOMAIN running
        BY <1>1 DEF ClusterInv, ExecuterInv, IsCluster, Splitting
      <4>2. result \in Positions
        BY <3>2, <4>1
      <4> QED
        BY <3>2, <4>2
    <3> QED
      BY <1>1, <1>2, <2>2, <3>1, <3>2
  <2> QED
    BY <2>1, <2>2
<1>7. /\ \A k : Names(k)' = Names(k)
      /\ \A k : Apart(k)' = Apart(k)
  BY Settled
<1>8. Apart(result)' <=> Apart(result')
  BY Settled DEF Apart, Positions, Clustered, Names, Takes, Reads, Ops, GroupKey
<1>9. position' - 1 = position
  BY <1>1
<1> QED
  BY <1>2, <1>4, <1>5, <1>6, <1>7, <1>8, <1>9 DEF EventInv

LEMMA TakeResultStep ==
    ASSUME ClusterInv, NEW i \in Positions, TakeResult(i)
    PROVE  ClusterInv'
<1> DEFINE r == On(i, data)
           v == IF MakesResult(Ops(i), r) THEN 1 ELSE 0
<1>1. /\ UNCHANGED <<list, response, groups, executers, running, failures>>
      /\ position \in DOMAIN running /\ position' = position + 1
      /\ i = running[position] /\ data' = Extracted(Ops(i), data)
      /\ HasResult(Ops(i), r)
      /\ result' = IF MakesResult(Ops(i), r) THEN i ELSE 0
      /\ matches' = [matches EXCEPT ![i] = @ + v]
  BY DEF TakeResult, Evaluates
<1>2. /\ SplitInv' /\ ExecuterInv' /\ running # <<>>
      /\ i \in Waiting /\ Waiting' = Waiting \ {i}
  BY <1>1, LoopGoesOn
<1>3. v \in {0, 1}
  OBVIOUS
<1>4. matches \in [Positions -> {0, 1}] /\ matches[i] = 0 /\ matches'[i] = v
  BY <1>1, <1>2, <1>3 DEF ClusterInv, OutcomeInv
<1>5. ASSUME Apart(i)
      PROVE  AsAlone(i)'
  <2>1. r = Alone(i)
    BY <1>1, <1>2, <1>5, SameAsAlone
  <2>2. Ops(i)' = Ops(i) /\ Alone(i)' = Alone(i) /\ MixedExtracts(i)' = MixedExtracts(i)
    BY <1>1, Settled
  <2>3. /\ MakesResult(Ops(i), Alone(i)) =>
              ReportsAlone(Ops(i), Alone(i)) \/ MatchesInternally(Ops(i), Alone(i))
        /\ ReportsAlone(Ops(i), Alone(i)) => MakesResult(Ops(i), Alone(i)) \/ MixedExtracts(i)
        /\ ~NilResult(Ops(i), Alone(i))
    BY <1>1, <2>1, WritesAsAlone DEF Alone, On, MixedExtracts
  <2>4. matches'[i] = 1 <=> MakesResult(Ops(i), Alone(i))
    BY <1>4, <2>1
  <2> QED
    BY <2>2, <2>3, <2>4 DEF AsAlone
<1>6. OutcomeInv' /\ matches' \in [Positions -> {0, 1}]
  BY <1>1, <1>2, <1>3, <1>5, OneEvaluated
<1>7. EventInv'
  <2>1. \A j \in Positions : matches[j] # 0 => matches'[j] # 0
    BY <1>1, <1>4
  <2>2. result' = 0 \/ (result' = i /\ matches'[i] # 0)
    BY <1>1, <1>4
  <2> QED
    BY <1>1, <1>6, <2>1, <2>2, EventAfter
<1> QED
  BY <1>1, <1>2, <1>6, <1>7, Settled DEF ClusterInv

LEMMA LeaveResultStep ==
    ASSUME ClusterInv, NEW i \in Positions, LeaveResult(i)
    PROVE  ClusterInv'
<1> DEFINE r == On(i, data)
           told == IF WithStatus /\ NilResult(Ops(i), r)
                   THEN {IF result = 0 THEN i ELSE result} ELSE {}
<1>1. /\ UNCHANGED <<list, response, groups, executers, running, matches, result>>
      /\ position \in DOMAIN running /\ position' = position + 1
      /\ i = running[position] /\ data' = Extracted(Ops(i), data)
      /\ ~HasResult(Ops(i), r)
      /\ failures' = failures \cup told
  BY DEF LeaveResult, Evaluates
<1>2. /\ SplitInv' /\ ExecuterInv' /\ running # <<>>
      /\ i \in Waiting /\ Waiting' = Waiting \ {i}
      /\ position \in 1..Len(running) /\ Len(running) \in Nat
  BY <1>1, LoopGoesOn
<1>4. /\ matches \in [Positions -> {0, 1}] /\ matches[i] = 0
      /\ matches' = [matches EXCEPT ![i] = @ + 0]
  BY <1>1, <1>2 DEF ClusterInv, OutcomeInv
<1>5. ASSUME Apart(i)
      PROVE  AsAlone(i)'
  <2>1. r = Alone(i)
    BY <1>1, <1>2, <1>5, SameAsAlone
  <2>2. Ops(i)' = Ops(i) /\ Alone(i)' = Alone(i) /\ MixedExtracts(i)' = MixedExtracts(i)
    BY <1>1, Settled
  <2>3. ReportsAlone(Ops(i), Alone(i)) => MixedExtracts(i)
    BY <1>1, <2>1, WritesAsAlone DEF Alone, On, MixedExtracts
  <2>4. ASSUME WithStatus, NilResult(Ops(i), Alone(i)),
               \A j \in Positions : Clustered(i, j) => Apart(j) /\ matches[j] = 0
        PROVE  i \in failures'
    <3>1. result = 0
      <4> SUFFICES ASSUME result # 0 PROVE FALSE
        OBVIOUS
      <4>1. \/ position = 1 /\ result = i /\ CreatesResult(Ops(i), Alone(i))
            \/ \E m \in 1..(position - 1) :
                  result = running[m] /\ (Apart(result) => matches[result] # 0)
        BY <1>1, <1>2 DEF ClusterInv, EventInv
      <4>2. ~CreatesResult(Ops(i), Alone(i))
        BY <1>1, <2>1 DEF CreatesResult
      <4>3. PICK m \in 1..(position - 1) :
                  result = running[m] /\ (Apart(result) => matches[result] # 0)
        BY <4>1, <4>2
      <4>4. IsCluster(running) /\ m \in DOMAIN running /\ m # position
        BY <1>2 DEF ClusterInv, ExecuterInv, Splitting, IsCluster
      <4>5. result \in Positions /\ Clustered(i, result)
        BY <1>1, <4>3, <4>4 DEF IsCluster
      <4> QED
        BY <2>4, <4>3, <4>5
    <3> QED
      BY <1>1, <2>1, <2>4, <3>1
  <2>5. (\A j \in Positions : Clustered(i, j) => Apart(j) /\ matches[j] = 0)'
            => \A j \in Positions : Clustered(i, j) => Apart(j) /\ matches[j] = 0
    BY <1>1, Settled
  <2> QED
    BY <1>1, <1>4, <2>2, <2>3, <2>4, <2>5 DEF AsAlone
<1>6. OutcomeInv' /\ matches' \in [Positions -> {0, 1}]
  <2>1. failures \subseteq failures' /\ 0 \in {0, 1}
    BY <1>1
  <2> QED
    BY <1>1, <1>2, <1>4, <1>5, <2>1, OneEvaluated
<1>7. EventInv'
  BY <1>1, <1>6, EventAfter
<1> QED
  BY <1>1, <1>2, <1>6, <1>7, Settled DEF ClusterInv

LEMMA PassOverStep ==
    ASSUME ClusterInv, NEW i \in Positions, i = running[position], PassOver
    PROVE  ClusterInv'
<1>1. /\ UNCHANGED <<list, response, data, groups, executers, running, matches, result, failures>>
      /\ position \in DOMAIN running /\ position' = position + 1
      /\ ~HasOperators(i) /\ i = running[position]
  BY DEF PassOver
<1>2. /\ SplitInv' /\ ExecuterInv' /\ running # <<>>
      /\ i \in Waiting /\ Waiting' = Waiting \ {i}
  BY <1>1, LoopGoesOn
<1>3. \A d : ~HasResult(Ops(i), On(i, d))
  BY <1>1, NothingWithout DEF HasOperators, On
<1>4. /\ matches \in [Positions -> {0, 1}] /\ matches[i] = 0
      /\ matches' = [matches EXCEPT ![i] = @ + 0]
  BY <1>1, <1>2 DEF ClusterInv, OutcomeInv
<1>5. AsAlone(i)'
  <2>1. ~HasOperators(i)' /\ matches'[i] = 0
    BY <1>1, <1>4, Settled
  <2>2. Ops(i)' = Ops(i) /\ Alone(i)' = Alone(i)
    BY <1>1, Settled
  <2>3. ~ReportsAlone(Ops(i), Alone(i))
    BY <1>3 DEF Alone, ReportsAlone, CreatesResult
  <2> QED
    BY <2>1, <2>2, <2>3 DEF AsAlone
<1>6. OutcomeInv' /\ matches' \in [Positions -> {0, 1}]
  <2>1. failures \subseteq failures' /\ 0 \in {0, 1}
    BY <1>1
  <2> QED
    BY <1>1, <1>2, <1>4, <1>5, <2>1, OneEvaluated
<1>7. EventInv'
  BY <1>1, <1>3, <1>6, EventAfter
<1> QED
  BY <1>1, <1>2, <1>6, <1>7, Settled DEF ClusterInv

\* A template is waiting while an executer has it.
LEMMA WaitingInExecuters ==
    ASSUME ClusterInv, running = <<>>, position = 0
    PROVE  /\ \A i \in Positions : i \in Waiting <=> \E e \in executers : i \in Members(e)
           /\ ~Splitting /\ Waiting \subseteq Positions
BY DEF Waiting, Splitting

LEMMA ExecuteAloneStep ==
    ASSUME ClusterInv, NEW e \in executers, ExecuteAlone(e)
    PROVE  ClusterInv'
<1> DEFINE i == e[1]
           r == On(i, response)
           v == IF ReportsAlone(Ops(i), r) THEN 1 ELSE 0
<1>1. /\ UNCHANGED <<list, response, position, groups, running>>
      /\ running = <<>> /\ position = 0 /\ Len(e) = 1
      /\ executers' = executers \ {e}
      /\ matches' = [matches EXCEPT ![i] = @ + v]
      /\ failures' = failures \cup (IF WithStatus /\ FailsAlone(Ops(i), r) THEN {i} ELSE {})
  BY DEF ExecuteAlone
<1>2. /\ ~Splitting /\ ~Splitting'
      /\ \A f \in executers : IsCluster(f)
      /\ \A f, g \in executers : f # g => Members(f) \cap Members(g) = {}
      /\ \A f : Members(f)' = Members(f)
  BY <1>1 DEF Splitting, ClusterInv, ExecuterInv, Members
<1>3. i \in Positions /\ Members(e) = {i}
  <2>1. e \in Seq(Positions) /\ Len(e) = 1
    BY <1>1, <1>2 DEF IsCluster
  <2>2. DOMAIN e = {1}
    BY <2>1
  <2> QED
    BY <2>1, <2>2 DEF Members
<1> HIDE DEF i
<1>4. SplitInv' /\ ExecuterInv' /\ EventInv'
  BY <1>1, <1>2, Settled DEF SplitInv, ExecuterInv, EventInv
<1>5. i \in Waiting /\ Waiting' = Waiting \ {i}
  <2>1. /\ \A j \in Positions : j \in Waiting <=> \E f \in executers : j \in Members(f)
        /\ Waiting \subseteq Positions
    BY <1>1, WaitingInExecuters
  <2>2. /\ \A j \in Positions : j \in Waiting' <=> \E f \in executers \ {e} : j \in Members(f)
        /\ Waiting' \subseteq Positions
    BY <1>1, <1>2, Settled DEF Waiting
  <2> QED
    BY <1>2, <1>3, <2>1, <2>2
<1>6. matches \in [Positions -> {0, 1}] /\ matches[i] = 0 /\ matches'[i] = v
  BY <1>1, <1>3, <1>5 DEF ClusterInv, OutcomeInv
<1>7. AsAlone(i)'
  <2>1. Ops(i)' = Ops(i) /\ Alone(i)' = Alone(i) /\ r = Alone(i)
    BY <1>1, Settled DEF Alone
  <2>2. NilResult(Ops(i), r) => FailsAlone(Ops(i), r)
    BY DEF NilResult, FailsAlone, CreatesResult
  <2> QED
    BY <1>1, <1>6, <2>1, <2>2 DEF AsAlone
<1>8. OutcomeInv' /\ matches' \in [Positions -> {0, 1}]
  <2>1. failures \subseteq failures' /\ v \in {0, 1}
    BY <1>1
  <2> HIDE DEF v
  <2> QED
    BY <1>1, <1>3, <1>5, <1>7, <2>1, OneEvaluated
<1> QED
  BY <1>1, <1>4, <1>8, Settled DEF ClusterInv

LEMMA SendRequestStep ==
    ASSUME ClusterInv, NEW e \in executers, SendRequest(e)
    PROVE  ClusterInv'
<1> DEFINE i == e[1]
<1>1. /\ UNCHANGED <<list, response, groups, matches, failures>>
      /\ running = <<>> /\ position = 0 /\ Len(e) > 1
      /\ executers' = executers \ {e} /\ running' = e /\ position' = 1
      /\ data' = Extracted(Ops(i), response)
      /\ result' = IF CreatesResult(Ops(i), On(i, response)) THEN i ELSE 0
  BY DEF SendRequest
<1>2. /\ ~Splitting
      /\ \A f \in executers : IsCluster(f)
      /\ \A f, g \in executers : f # g => Members(f) \cap Members(g) = {}
      /\ \A f : Members(f)' = Members(f)
  BY <1>1 DEF Splitting, ClusterInv, ExecuterInv, Members
<1>3. e \in Seq(Positions) /\ e # <<>> /\ Len(e) \in Nat /\ DOMAIN e = 1..Len(e)
  BY <1>2 DEF IsCluster
<1>4. ~Splitting'
  BY <1>1, <1>3 DEF Splitting
<1>5. ExecuterInv'
  <2>1. 1 \in 1..(Len(e) + 1) /\ IsCluster(e)
    BY <1>2, <1>3
  <2> QED
    BY <1>1, <1>2, <1>4, <2>1, Settled DEF ExecuterInv
<1>6. EventInv'
  <2>1. /\ DOMAIN data' = DOMAIN response
        /\ \A n \in DOMAIN response :
              data'[n] = response[n] \/ FindingAs(Ops(i), response, n) # {}
    BY <1>1 DEF Extracted
  <2>2. result' # 0 => result' = i /\ CreatesResult(Ops(i), Alone(i))
    BY <1>1 DEF Alone
  <2> HIDE DEF i
  <2>3. Ops(i)' = Ops(i) /\ Alone(i)' = Alone(i)
    BY <1>1, Settled
  <2>4. result' # 0 => CreatesResult(Ops(result), Alone(result))'
    BY <1>1, <2>2, <2>3 DEF Ops, Alone, On
  <2>5. Ops(running[1])' = Ops(i)
    BY <1>1, <2>3 DEF i, Ops
  <2>6. running'[1] = i
    BY <1>1 DEF i
  <2> QED
    BY <1>1, <2>1, <2>2, <2>4, <2>5, <2>6 DEF EventInv
<1>7. Waiting' = Waiting
  <2>1. /\ \A j \in Positions : j \in Waiting <=> \E f \in executers : j \in Members(f)
        /\ Waiting \subseteq Positions
    BY <1>1, WaitingInExecuters
  <2>2. /\ \A j \in Positions : j \in Waiting' <=>
              \/ \E f \in executers \ {e} : j \in Members(f)
              \/ \E m \in DOMAIN e : m >= 1 /\ j = e[m]
        /\ Waiting' \subseteq Positions
    BY <1>1, <1>2, <1>4, Settled DEF Waiting
  <2>3. \A j : j \in Members(e) <=> \E m \in DOMAIN e : m >= 1 /\ j = e[m]
    BY <1>3 DEF Members
  <2> QED
    BY <2>1, <2>2, <2>3
<1>8. OutcomeInv'
  <2>1. \A j \in Positions : AsAlone(j) => AsAlone(j)'
    BY <1>1, StaysAsAlone
  <2> QED
    BY <1>1, <1>7, <2>1, Settled DEF OutcomeInv, ClusterInv
<1> QED
  BY <1>1, <1>4, <1>5, <1>6, <1>8, Settled DEF ClusterInv, SplitInv

LEMMA EndClusterStep ==
    ASSUME ClusterInv, EndCluster
    PROVE  ClusterInv'
<1>1. /\ UNCHANGED <<list, response, data, groups, executers, result, matches, failures>>
      /\ running # <<>> /\ position = Len(running) + 1 /\ running' = <<>> /\ position' = 0
  BY DEF EndCluster
<1>2. /\ ~Splitting /\ ~Splitting'
      /\ \A f \in executers : IsCluster(f)
      /\ \A f, g \in executers : f # g => Members(f) \cap Members(g) = {}
      /\ \A f : Members(f)' = Members(f)
      /\ IsCluster(running)
  BY <1>1 DEF Splitting, ClusterInv, ExecuterInv, Members
<1>3. SplitInv' /\ ExecuterInv' /\ EventInv'
  BY <1>1, <1>2, Settled DEF SplitInv, ExecuterInv, EventInv
<1>4. Waiting' = Waiting
  <2>1. Len(running) \in Nat /\ DOMAIN running = 1..Len(running)
    BY <1>2 DEF IsCluster
  <2>2. \A j \in Positions : j \in Waiting <=> \E f \in executers : j \in Members(f)
    BY <1>1, <1>2, <2>1 DEF Waiting
  <2>3. \A j \in Positions : j \in Waiting' <=> \E f \in executers : j \in Members(f)
    BY <1>1, <1>2, Settled DEF Waiting
  <2>4. Waiting \subseteq Positions /\ Waiting' \subseteq Positions
    BY <1>1, Settled DEF Waiting
  <2> QED
    BY <2>2, <2>3, <2>4
<1>5. OutcomeInv'
  <2>1. \A j \in Positions : AsAlone(j) => AsAlone(j)'
    BY <1>1, StaysAsAlone
  <2> QED
    BY <1>1, <1>4, <2>1, Settled DEF OutcomeInv, ClusterInv
<1> QED
  BY <1>1, <1>3, <1>5, Settled DEF ClusterInv

LEMMA ClusterStarts ==
    ASSUME ClusterAssumption, ClusterInit
    PROVE  ClusterInv
<1>1. /\ list \in TemplateLists /\ response \in Responses /\ position = 1
      /\ groups = [k \in GroupKeys |-> <<>>] /\ executers = {} /\ running = <<>>
      /\ matches = [i \in Positions |-> 0]
  BY DEF ClusterInit
<1>2. Splitting /\ Len(list) \in Nat
  BY <1>1, ClusterAssumption DEF Splitting, ClusterAssumptionOn
<1>3. SplitInv
  <2>1. ASSUME NEW k \in GroupKeys
        PROVE  /\ groups[k] \in Seq(1..(position - 1)) /\ Members(groups[k]) = {}
               /\ DOMAIN groups[k] = {}
    BY <1>1 DEF Members
  <2> QED
    BY <1>1, <1>2, <2>1 DEF SplitInv
<1>4. OutcomeInv
  BY <1>1, <1>2 DEF OutcomeInv, Waiting
<1> QED
  BY <1>1, <1>2, <1>3, <1>4 DEF ClusterInv, ExecuterInv, EventInv

LEMMA SplitStep ==
    ASSUME ClusterInv, Split
    PROVE  ClusterInv'
<1>1. /\ running = <<>> /\ position \in Positions /\ position' = position + 1
      /\ UNCHANGED <<list, response, data, running, result, matches, failures>>
      /\ \/ /\ list[position].clusterable /\ UNCHANGED executers
            /\ groups' = [groups EXCEPT ![GroupKey(position)] = Append(@, position)]
         \/ /\ ~list[position].clusterable /\ UNCHANGED groups
            /\ executers' = executers \cup {<<position>>}
  BY DEF Split
<1>2. Len(list) \in Nat /\ Positions = 1..Len(list)
  BY ListIsWellFormed
<1>3. Splitting /\ Splitting'
  BY <1>1, <1>2 DEF Splitting
<1>4. /\ position \in 1..(Len(list) + 1)
      /\ \A e \in executers : \E i \in 1..(position - 1) : e = <<i>> /\ ~list[i].clusterable
      /\ \A k \in GroupKeys : /\ groups[k] \in Seq(1..(position - 1))
                              /\ \A i \in Members(groups[k]) : list[i].clusterable /\ GroupKey(i) = k
                              /\ \A m, n \in DOMAIN groups[k] : m < n => groups[k][m] < groups[k][n]
      /\ \A i \in 1..(position - 1) :
            <<i>> \in executers \/ (list[i].clusterable /\ i \in Members(groups[GroupKey(i)]))
      /\ DOMAIN groups = GroupKeys
  BY <1>3 DEF ClusterInv, SplitInv
<1>5. \A e \in executers' : \E i \in 1..position : e = <<i>> /\ ~list[i].clusterable
  BY <1>1, <1>2, <1>4
<1>6. ASSUME NEW k \in GroupKeys
      PROVE  /\ groups'[k] \in Seq(1..position)
             /\ \A i \in Members(groups'[k]) : list[i].clusterable /\ GroupKey(i) = k
             /\ \A m, n \in DOMAIN groups'[k] : m < n => groups'[k][m] < groups'[k][n]
             /\ Members(groups[k]) \subseteq Members(groups'[k])
             /\ list[position].clusterable /\ k = GroupKey(position)
                   => position \in Members(groups'[k])
  <2>1. /\ groups[k] \in Seq(1..position) /\ Len(groups[k]) \in Nat
        /\ DOMAIN groups[k] = 1..Len(groups[k])
        /\ \A m \in DOMAIN groups[k] : groups[k][m] \in 1..(position - 1)
    <3>1. groups[k] \in Seq(1..(position - 1))
      BY <1>4
    <3>2. 1..(position - 1) \subseteq 1..position /\ position \in 1..position
      BY <1>1, <1>2
    <3> QED
      BY <3>1, <3>2
  <2>2. CASE groups'[k] = groups[k] /\ ~(list[position].clusterable /\ k = GroupKey(position))
    BY <1>4, <2>1, <2>2
  <2>3. CASE groups'[k] = Append(groups[k], position) /\ list[position].clusterable
             /\ k = GroupKey(position)
    <3> DEFINE g == Append(groups[k], position)
    <3>1. /\ g \in Seq(1..position) /\ DOMAIN g = 1..(Len(groups[k]) + 1)
          /\ \A m \in 1..Len(groups[k]) : g[m] = groups[k][m]
          /\ g[Len(groups[k]) + 1] = position
      BY <1>1, <1>2, <2>1
    <3> HIDE DEF g
    <3>2. \A i : i \in Members(g) <=> i \in Members(groups[k]) \/ i = position
      BY <2>1, <3>1 DEF Members
    <3>3. ASSUME NEW m \in DOMAIN g, NEW n \in DOMAIN g, m < n
          PROVE  g[m] < g[n]
      <4>1. m \in 1..Len(groups[k])
        BY <2>1, <3>1, <3>3
      <4>2. CASE n \in 1..Len(groups[k])
        BY <1>4, <2>1, <3>1, <3>3, <4>1, <4>2
      <4>3. CASE n = Len(groups[k]) + 1
        <5>1. g[m] \in 1..(position - 1) /\ g[n] = position
          BY <2>1, <3>1, <4>1, <4>3
        <5> QED
          BY <1>1, <1>2, <5>1
      <4> QED
        BY <2>1, <3>1, <4>2, <4>3
    <3>4. groups'[k] = g
      BY <2>3 DEF g
    <3>5. \A i \in Members(g) : list[i].clusterable /\ GroupKey(i) = k
      <4>1. \A i \in Members(groups[k]) : list[i].clusterable /\ GroupKey(i) = k
        BY <1>4
      <4> QED
        BY <2>3, <3>2, <4>1
    <3>6. \A m, n \in DOMAIN g : m < n => g[m] < g[n]
      BY <3>3
    <3>7. Members(groups[k]) \subseteq Members(g) /\ position \in Members(g)
      BY <3>2
    <3> HIDE <2>3
    <3>8. g \in Seq(1..position)
      BY <3>1
    <3> QED
      BY ONLY <3>4, <3>5, <3>6, <3>7, <3>8, Zenon
  <2> QED
    BY <1>1, <1>4, <2>2, <2>3
<1>7. ASSUME NEW i \in 1..position
      PROVE  <<i>> \in executers' \/ (list[i].clusterable /\ i \in Members(groups'[GroupKey(i)]))
  <2>1. GroupKey(i) \in GroupKeys
    BY <1>1, <1>2 DEF GroupKeys
  <2>2. CASE i = position
    BY <1>1, <1>6, <2>1, <2>2
  <2>3. CASE i \in 1..(position - 1)
    BY <1>1, <1>4, <1>6, <2>1, <2>3
  <2> QED
    BY <1>1, <1>2, <2>2, <2>3
<1>8. SplitInv'
  <2>1. \A k : GroupKey(k)' = GroupKey(k)
    BY <1>1, Settled
  <2>2. GroupKeys' = GroupKeys
    BY <1>1, Settled
  <2>3. \A k : Members(groups[k])' = Members(groups'[k])
    BY DEF Members
  <2>4. position' - 1 = position /\ position' \in 1..(Len(list) + 1)
    BY <1>1, <1>2
  <2>5. \A i : Members(groups[GroupKey(i)])' = Members(groups'[GroupKey(i)])
    BY <2>1 DEF Members
  <2> QED
    BY <1>1, <1>5, <1>6, <1>7, <2>1, <2>2, <2>3, <2>4, <2>5 DEF SplitInv
<1>9. OutcomeInv'
  <2>1. Waiting = Positions /\ Waiting' = Positions
    BY <1>1, <1>3, Settled DEF Waiting
  <2> QED
    BY <1>1, <2>1, Settled DEF OutcomeInv, ClusterInv
<1>10. DOMAIN groups' = GroupKeys
  BY <1>1, <1>4
<1> QED
  BY <1>1, <1>3, <1>8, <1>9, <1>10, Settled DEF ClusterInv, ExecuterInv, EventInv

LEMMA AddClustersStep ==
    ASSUME ClusterInv, AddClusters
    PROVE  ClusterInv'
<1> DEFINE added == {groups[k] : k \in {x \in GroupKeys : groups[x] # <<>>}}
<1>1. /\ running = <<>> /\ position = Len(list) + 1 /\ position' = 0
      /\ executers' = executers \cup added
      /\ UNCHANGED <<list, response, data, groups, running, result, matches, failures>>
  BY DEF AddClusters
<1>2. Len(list) \in Nat /\ Positions = 1..Len(list)
  BY ListIsWellFormed
<1>3. Splitting /\ ~Splitting'
  BY <1>1, <1>2 DEF Splitting
<1>4. /\ \A e \in executers : \E i \in Positions : e = <<i>> /\ ~list[i].clusterable
      /\ \A k \in GroupKeys : /\ groups[k] \in Seq(Positions)
                              /\ \A i \in Members(groups[k]) : list[i].clusterable /\ GroupKey(i) = k
                              /\ \A m, n \in DOMAIN groups[k] : m < n => groups[k][m] < groups[k][n]
      /\ \A i \in Positions :
            <<i>> \in executers \/ (list[i].clusterable /\ i \in Members(groups[GroupKey(i)]))
  <2>1. 1..(position - 1) = Positions
    BY <1>1, <1>2
  <2> QED
    BY <1>3, <2>1 DEF ClusterInv, SplitInv
<1>5. ASSUME NEW e \in executers
      PROVE  IsCluster(e) /\ \E i \in Positions : Members(e) = {i} /\ ~list[i].clusterable /\ e = <<i>>
  <2>1. PICK i \in Positions : e = <<i>> /\ ~list[i].clusterable
    BY <1>4
  <2>2. DOMAIN e = {1} /\ e \in Seq(Positions) /\ e # <<>> /\ e[1] = i
    BY <2>1
  <2> QED
    BY <2>1, <2>2 DEF IsCluster, Members
<1>6. ASSUME NEW k \in GroupKeys, groups[k] # <<>>
      PROVE  IsCluster(groups[k])
  <2>g. /\ groups[k] \in Seq(Positions)
        /\ \A i \in Members(groups[k]) : list[i].clusterable /\ GroupKey(i) = k
        /\ \A m, n \in DOMAIN groups[k] : m < n => groups[k][m] < groups[k][n]
    BY <1>4
  <2>1. ASSUME NEW m \in DOMAIN groups[k], NEW n \in DOMAIN groups[k], m # n
        PROVE  groups[k][m] # groups[k][n] /\ Clustered(groups[k][m], groups[k][n])
    <3>1. /\ groups[k][m] \in Members(groups[k]) /\ groups[k][n] \in Members(groups[k])
          /\ m \in Nat /\ n \in Nat /\ groups[k][m] \in Nat /\ groups[k][n] \in Nat
      BY <1>2, <2>g DEF Members
    <3>2. groups[k][m] # groups[k][n]
      BY <2>g, <2>1, <3>1
    <3> QED
      BY <2>g, <3>1, <3>2 DEF Clustered
  <2> QED
    BY <1>6, <2>g, <2>1 DEF IsCluster
<1>7. ASSUME NEW e \in executers', NEW f \in executers', e # f
      PROVE  Members(e) \cap Members(f) = {}
  <2>1. ASSUME NEW x \in executers, NEW k \in GroupKeys
        PROVE  Members(x) \cap Members(groups[k]) = {}
    <3>1. \E i \in Positions : Members(x) = {i} /\ ~list[i].clusterable
      BY <1>5
    <3>2. \A i \in Members(groups[k]) : list[i].clusterable
      BY <1>4
    <3> QED
      BY <3>1, <3>2
  <2>2. ASSUME NEW x \in executers, NEW y \in executers, x # y
        PROVE  Members(x) \cap Members(y) = {}
    <3>1. PICK i \in Positions : Members(x) = {i} /\ x = <<i>>
      BY <1>5
    <3>2. PICK j \in Positions : Members(y) = {j} /\ y = <<j>>
      BY <1>5
    <3> QED
      BY <2>2, <3>1, <3>2
  <2>3. ASSUME NEW k \in GroupKeys, NEW l \in GroupKeys, groups[k] # groups[l]
        PROVE  Members(groups[k]) \cap Members(groups[l]) = {}
    <3>1. /\ \A i \in Members(groups[k]) : GroupKey(i) = k
          /\ \A i \in Members(groups[l]) : GroupKey(i) = l
      BY <1>4
    <3> QED
      BY <2>3, <3>1
  <2>4. executers' = executers \cup {groups[k] : k \in {x \in GroupKeys : groups[x] # <<>>}}
    BY <1>1
  <2> QED
    BY <1>7, <2>1, <2>2, <2>3, <2>4
<1>8. SplitInv' /\ ExecuterInv' /\ EventInv'
  <2>1. \A e : Members(e)' = Members(e)
    BY DEF Members
  <2>2. \A e \in executers' : IsCluster(e)
    BY <1>1, <1>5, <1>6
  <2> HIDE DEF added
  <2> QED
    BY <1>1, <1>3, <1>7, <2>1, <2>2, Settled DEF SplitInv, ExecuterInv, EventInv
<1>9. Waiting = Positions /\ Waiting' = Positions
  <2>1. \A e : Members(e)' = Members(e)
    BY DEF Members
  <2>2. ASSUME NEW i \in Positions
        PROVE  \E e \in executers' : i \in Members(e)
    <3>1. CASE <<i>> \in executers
      <4>1. i \in Members(<<i>>)
        BY DEF Members
      <4> QED
        BY <1>1, <3>1, <4>1
    <3>2. CASE list[i].clusterable /\ i \in Members(groups[GroupKey(i)])
      <4>1. GroupKey(i) \in GroupKeys /\ groups[GroupKey(i)] # <<>>
        BY <3>2 DEF GroupKeys, Members
      <4> QED
        BY <1>1, <3>2, <4>1
    <3> QED
      BY <1>4, <3>1, <3>2
  <2> HIDE DEF added
  <2>3. \A i \in Positions : \E e \in executers' : i \in Members(e)'
    BY <2>1, <2>2
  <2> QED
    BY <1>1, <1>3, <2>3, Settled DEF Waiting
<1>10. OutcomeInv'
  BY <1>1, <1>9, Settled DEF OutcomeInv, ClusterInv
<1> QED
  BY <1>1, <1>8, <1>10, Settled DEF ClusterInv

LEMMA ClusterInvariant == ClusterSpec => []ClusterInv
<1>1. ClusterInit => ClusterInv
  BY ClusterStarts, ClusterAssumption
<1>2. ClusterInv /\ [ClusterNext]_clusterVars => ClusterInv'
  <2> SUFFICES ASSUME ClusterInv, [ClusterNext]_clusterVars
               PROVE  ClusterInv'
    OBVIOUS
  <2>1. CASE Split
    BY <2>1, SplitStep
  <2>2. CASE AddClusters
    BY <2>2, AddClustersStep
  <2>3. ASSUME NEW e \in executers, ExecuteAlone(e) PROVE ClusterInv'
    BY <2>3, ExecuteAloneStep
  <2>4. ASSUME NEW e \in executers, SendRequest(e) PROVE ClusterInv'
    BY <2>4, SendRequestStep
  <2>5. ASSUME NEW i \in Positions, TakeResult(i) PROVE ClusterInv'
    BY <2>5, TakeResultStep
  <2>6. ASSUME NEW i \in Positions, LeaveResult(i) PROVE ClusterInv'
    BY <2>6, LeaveResultStep
  <2>7. CASE PassOver
    <3>1. running[position] \in Positions
      <4>1. position \in DOMAIN running /\ running # <<>>
        BY <2>7 DEF PassOver
      <4> QED
        BY <4>1 DEF ClusterInv, ExecuterInv, Splitting, IsCluster
    <3> QED
      BY <2>7, <3>1, PassOverStep
  <2>8. CASE EndCluster
    BY <2>8, EndClusterStep
  <2>9. CASE UNCHANGED clusterVars
    <3>1. /\ \A e : Members(e)' = Members(e)
          /\ Splitting' = Splitting
      BY <2>9 DEF clusterVars, Members, Splitting
    <3>2. Waiting' = Waiting /\ \A i : AsAlone(i)' = AsAlone(i)
      BY <2>9, <3>1, Settled DEF clusterVars, Waiting, AsAlone
    <3> QED
      BY <2>9, <3>1, <3>2, Settled
      DEF clusterVars, ClusterInv, SplitInv, ExecuterInv, EventInv, OutcomeInv
  <2> QED
    BY <2>1, <2>2, <2>3, <2>4, <2>5, <2>6, <2>7, <2>8, <2>9 DEF ClusterNext, Evaluate
<1> QED
  BY <1>1, <1>2, PTL DEF ClusterSpec

\* Clustering changes nothing about what is found (ClusterTemplates and
\* ClusterExecuter.Execute in pkg/templates/cluster.go), for any templates,
\* operators and response: ClusterTransparent.
THEOREM ClustersAreTransparent == ClusterSpec => []ClusterTransparent
<1>1. ClusterInv => ClusterTransparent
  <2> SUFFICES ASSUME ClusterInv, AllRun, NEW i \in Positions
               PROVE  matches[i] \in {0, 1} /\ (Apart(i) => AsAlone(i))
    BY DEF ClusterTransparent
  <2>1. i \notin Waiting
    BY DEF AllRun, Waiting, Splitting
  <2> QED
    BY <2>1 DEF ClusterInv, OutcomeInv
<1> QED
  BY <1>1, ClusterInvariant, PTL

-----------------------------------------------------------------------------
(* Template contexts *)

\* The constants of an execution have their types.
LEMMA ExecutionTypes ==
    ASSUME NEW e \in Executions
    PROVE  /\ StoreOf(e) \in Templates /\ TemplateOf[e] \in Templates
           /\ Meta(e) \in MetaInputs
           /\ OwnKey(e) \in Keys /\ OwnKey(e)[2] = InputOf[Meta(e)]
           /\ OwnKey(e)[2] \in KnownInputs(e)
           /\ Len(KindsOf(e)) \in Nat /\ Len(KindsOf(e)) >= 1
           /\ KindsOf(e) \in Seq({"shared", "cloned", "ported"})
<1>1. /\ StoreOf(e) \in Templates /\ TemplateOf[e] \in Templates
      /\ Meta(e) \in MetaInputs /\ InputOf[Meta(e)] \in Inputs
  BY ContextAssumption DEF StoreOf, Meta
<1>2. /\ OwnKey(e) \in Keys /\ OwnKey(e)[2] = InputOf[Meta(e)]
      /\ OwnKey(e)[2] \in KnownInputs(e)
  BY <1>1 DEF OwnKey, Keys, KnownInputs
<1>3. /\ KindsOf(e) \in Seq({"shared", "cloned", "ported"})
      /\ KindsOf(e) # <<>>
  BY <1>1, ContextAssumption DEF KindsOf
<1>4. Len(KindsOf(e)) \in Nat /\ Len(KindsOf(e)) >= 1
  BY <1>3, EmptySeq, LenProperties
<1> QED
  BY <1>1, <1>2, <1>3, <1>4

\* The key of a clone names an input its execution is known by.
LEMMA CloneReaches ==
    ASSUME ContextTypeOK, PlaceInv, NEW e \in Executions, OnClone(e)
    PROVE  Reaches(e, CloneKey(e, at[e].request))
<1>1. at[e].op = "run" /\ at[e].request \in 1..Len(KindsOf(e))
  BY DEF OnClone, PlaceInv
<1>2. CASE Kind(e, at[e].request) = "ported"
  <2>1. KindsOf(e)[at[e].request] = "ported"
    BY <1>2 DEF Kind
  <2>2. at[e].request \in DOMAIN KindsOf(e)
    BY <1>1, ExecutionTypes, LenProperties
  <2>3. AtPort[InputOf[Meta(e)]] \in KnownInputs(e)
    BY <2>1, <2>2 DEF KnownInputs
  <2>4. /\ CloneKey(e, at[e].request) \in Keys
        /\ CloneKey(e, at[e].request)[2] = AtPort[InputOf[Meta(e)]]
    BY <1>2, ContextAssumption, ExecutionTypes DEF CloneKey, Keys, Meta
  <2> QED
    BY <1>1, <2>3, <2>4 DEF Reaches
<1>3. CASE Kind(e, at[e].request) # "ported"
  BY <1>1, <1>3, ExecutionTypes DEF CloneKey, Reaches
<1> QED
  BY <1>2, <1>3

\* So does the hash that GetScanHash returns.
LEMMA ScanHashReaches ==
    ASSUME ContextTypeOK, PlaceInv, HashInv, NEW e \in Executions, HasScanHash(e)
    PROVE  Reaches(e, ScanHash(e))
<1>1. CASE OnClone(e)
  BY <1>1, CloneReaches DEF ScanHash
<1>2. CASE ~OnClone(e)
  <2>1. hash[Meta(e)] # NoHash
    BY <1>2 DEF HasScanHash, PlaceInv
  <2>2. hash[Meta(e)] \in Keys /\ hash[Meta(e)][2] = InputOf[Meta(e)]
    BY <2>1, ExecutionTypes DEF ContextTypeOK, HashInv
  <2> QED
    BY <1>2, <2>2 DEF ScanHash, Reaches, KnownInputs
<1> QED
  BY <1>1, <1>2

\* The types and places after a step of an execution to where it looks at
\* the hash next.
LEMMA GotoStep ==
    ASSUME ContextTypeOK, PlaceInv, CreateInv, hash' = hash,
           NEW e \in Executions, NEW r \in Nat, NEW op \in ContextOps, Goto(e, r, op),
           op \in {"read", "run", "extract"} => r \in 1..Len(KindsOf(e))
    PROVE  /\ at' \in [Executions -> [request : Nat, op : ContextOps, phase : Phases,
                                      key : Keys \cup {NoHash}]]
           /\ PlaceInv' /\ CreateInv'
<1>1. at' = [at EXCEPT ![e] = [request |-> r, op |-> op, phase |-> "look", key |-> NoHash]]
  BY DEF Goto
<1>2. at \in [Executions -> [request : Nat, op : ContextOps, phase : Phases,
                             key : Keys \cup {NoHash}]]
  BY DEF ContextTypeOK
<1>3. at' \in [Executions -> [request : Nat, op : ContextOps, phase : Phases,
                              key : Keys \cup {NoHash}]]
  BY <1>1, <1>2 DEF Phases
<1>4. PlaceInv'
  BY <1>1, <1>2 DEF PlaceInv, Meta, KindsOf
<1>5. CreateInv'
  BY <1>1, <1>2 DEF CreateInv, Reaches, Meta, KnownInputs
<1> QED
  BY <1>3, <1>4, <1>5

\* An execution ends at a request it had.
LEMMA EndStep ==
    ASSUME ContextTypeOK, PlaceInv, CreateInv, hash' = hash,
           NEW e \in Executions, EndExecution(e)
    PROVE  /\ at' \in [Executions -> [request : Nat, op : ContextOps, phase : Phases,
                                      key : Keys \cup {NoHash}]]
           /\ PlaceInv' /\ CreateInv'
<1>1. at[e].request \in Nat
  BY DEF ContextTypeOK
<1>2. CASE e \in Executed
  <2>1. Goto(e, at[e].request, "remove") /\ "remove" \in ContextOps
    BY <1>2 DEF EndExecution, ContextOps
  <2> QED
    BY <1>1, <2>1, GotoStep
<1>3. CASE e \notin Executed
  <2>1. Goto(e, at[e].request, "over") /\ "over" \in ContextOps
    BY <1>3 DEF EndExecution, ContextOps
  <2> QED
    BY <1>1, <2>1, GotoStep
<1> QED
  BY <1>2, <1>3

\* After an access the execution is at a request of its template, or it ends.
LEMMA AfterAccessStep ==
    ASSUME ContextTypeOK, PlaceInv, CreateInv, hash' = hash,
           NEW e \in Executions, AfterAccess(e)
    PROVE  /\ at' \in [Executions -> [request : Nat, op : ContextOps, phase : Phases,
                                      key : Keys \cup {NoHash}]]
           /\ PlaceInv' /\ CreateInv'
<1> DEFINE n == Len(KindsOf(e))
           k == at[e].request
<1>1. n \in Nat /\ n >= 1 /\ k \in Nat
  BY ExecutionTypes DEF ContextTypeOK
<1>2. {"read", "run", "extract"} \subseteq ContextOps
  BY DEF ContextOps
<1>3. at[e].op \in {"read", "run", "extract"} => k \in 1..n
  BY DEF PlaceInv
<1>4. CASE at[e].op = "args" /\ Goto(e, 1, "read")
  <2>1. 1 \in 1..n
    BY <1>1
  <2> QED
    BY <1>2, <1>4, <2>1, GotoStep
<1>5. CASE at[e].op = "read" /\ Goto(e, k, "run")
  BY <1>1, <1>2, <1>3, <1>5, GotoStep
<1>6. CASE at[e].op = "run" /\ Goto(e, k, "extract")
  BY <1>1, <1>2, <1>3, <1>6, GotoStep
<1>7. CASE AfterRequest(e)
  <2>1. CASE k < n
    <3>1. Goto(e, k + 1, "read")
      BY <1>7, <2>1 DEF AfterRequest
    <3>2. k + 1 \in Nat /\ k + 1 \in 1..n
      BY <1>1, <2>1
    <3> QED
      BY <1>2, <3>1, <3>2, GotoStep
  <2>2. CASE ~(k < n)
    <3>1. EndExecution(e)
      BY <1>7, <2>2 DEF AfterRequest
    <3> QED
      BY <3>1, EndStep
  <2> QED
    BY <2>1, <2>2
<1> QED
  BY <1>4, <1>5, <1>6, <1>7 DEF AfterAccess

\* The contexts stay as they are when they, the hashes and what is given do.
LEMMA ContextFrame ==
    ASSUME ContextInv, hash' = hash, contexts' = contexts, given' = given
    PROVE  HashInv' /\ ContextsInv' /\ NoForeignValues'
<1>1. HashInv'
  BY DEF ContextInv, HashInv
<1>2. ContextsInv'
  BY DEF ContextInv, ContextsInv, Belongs, KnownInputs, Meta, KindsOf
<1>3. NoForeignValues'
  BY DEF ContextInv, NoForeignValues, KnownInputs, Meta, KindsOf
<1> QED
  BY <1>1, <1>2, <1>3

\* An access puts the execution's own value under a key it may come to, and
\* gives it values that belong to that key.
LEMMA AccessStep ==
    ASSUME ContextTypeOK, ContextInv, NEW e \in Executions, NEW scanId, NEW values,
           Reaches(e, scanId), Access(e, scanId, values), values \subseteq Values,
           \A value \in values : Belongs(value, StoreOf(e), scanId)
    PROVE  ContextTypeOK' /\ ContextInv'
<1> DEFINE new == IF at[e].op = "read" THEN values ELSE values \cup {ThisValue(e)}
<1>1. /\ contexts' = [contexts EXCEPT ![StoreOf(e)] = With(@, scanId, new)]
      /\ given' = IF at[e].op = "read" THEN [given EXCEPT ![e] = values] ELSE given
      /\ made' = IF at[e].op = "read" THEN made
                 ELSE [made EXCEPT ![e] = @ \cup {ThisValue(e)}]
      /\ hash' = hash /\ rehashed' = rehashed /\ AfterAccess(e)
  BY DEF Access
<1>2. /\ at[e].op # "read" => ThisValue(e) \in Values
      /\ ThisValue(e)[1] = e
  <2>1. at[e].op \in {"args", "read", "run", "extract"} /\ at[e].request \in Nat
    BY <1>1 DEF AfterAccess, ContextTypeOK
  <2> QED
    BY <2>1 DEF ThisValue, Values
<1>3. new \subseteq Values /\ \A value \in new : Belongs(value, StoreOf(e), scanId)
  <2>1. Belongs(ThisValue(e), StoreOf(e), scanId)
    BY <1>2 DEF Belongs, StoreOf, Reaches
  <2> QED
    BY <1>2, <2>1
<1>4. StoreOf(e) \in Templates /\ scanId \in Keys
  BY ExecutionTypes DEF Reaches
<1>5. /\ DOMAIN contexts' = Templates
      /\ \A t \in Templates \ {StoreOf(e)} : contexts'[t] = contexts[t]
      /\ DOMAIN contexts'[StoreOf(e)] = DOMAIN contexts[StoreOf(e)] \cup {scanId}
      /\ contexts'[StoreOf(e)][scanId] = new
      /\ \A other \in DOMAIN contexts[StoreOf(e)] \ {scanId} :
            contexts'[StoreOf(e)][other] = contexts[StoreOf(e)][other]
  <2>1. DOMAIN contexts = Templates
    BY DEF ContextTypeOK
  <2>2. contexts'[StoreOf(e)] = With(contexts[StoreOf(e)], scanId, new)
    BY <1>1, <1>4, <2>1
  <2>3. DOMAIN contexts' = Templates /\ \A t \in Templates \ {StoreOf(e)} : contexts'[t] = contexts[t]
    BY <1>1, <2>1
  <2> HIDE DEF new
  <2> QED
    BY <2>2, <2>3 DEF With
<1> HIDE DEF new
<1>6. ContextTypeOK' /\ PlaceInv' /\ CreateInv'
  <2>1. /\ at' \in [Executions -> [request : Nat, op : ContextOps, phase : Phases,
                                   key : Keys \cup {NoHash}]]
        /\ PlaceInv' /\ CreateInv'
    BY <1>1, AfterAccessStep DEF ContextInv
  <2>2. given' \in [Executions -> SUBSET Values] /\ made' \in [Executions -> SUBSET Values]
    BY <1>1, <1>2 DEF ContextTypeOK
  <2>3. \A t \in Templates :
          /\ DOMAIN contexts'[t] \subseteq Keys
          /\ \A k \in DOMAIN contexts'[t] : contexts'[t][k] \subseteq Values
    BY <1>3, <1>4, <1>5 DEF ContextTypeOK
  <2>4. hash' = hash /\ rehashed' = rehashed /\ DOMAIN contexts' = Templates
    BY <1>1, <1>5
  <2>5. hash \in [MetaInputs -> Keys \cup {NoHash}] /\ rehashed \subseteq MetaInputs
    BY DEF ContextTypeOK
  <2> HIDE DEF ContextTypeOK
  <2>6. /\ hash' \in [MetaInputs -> Keys \cup {NoHash}] /\ rehashed' \subseteq MetaInputs
    BY <2>4, <2>5
  <2>7. ContextTypeOK'
    BY ONLY <2>1, <2>2, <2>3, <2>4, <2>6 DEF ContextTypeOK
  <2> QED
    BY <2>1, <2>7
<1>7. HashInv'
  BY <1>1 DEF ContextInv, HashInv
<1>8. ContextsInv'
  <2> SUFFICES ASSUME NEW t \in Templates, NEW k \in DOMAIN contexts'[t],
                      NEW value \in contexts'[t][k]
               PROVE  Belongs(value, t, k)
    BY DEF ContextsInv, Belongs, KnownInputs, Meta, KindsOf
  <2> QED
    BY <1>3, <1>4, <1>5 DEF ContextInv, ContextsInv
<1>9. NoForeignValues'
  <2>1. CASE at[e].op = "read"
    <3>1. given' = [given EXCEPT ![e] = values]
      BY <1>1, <2>1
    <3>2. \A value \in values : /\ TemplateOf[value[1]] = TemplateOf[e]
                                /\ InputOf[Meta(e)] \in KnownInputs(value[1])
      BY <2>1 DEF Belongs, StoreOf, Reaches
    <3>3. ASSUME NEW x \in Executions, NEW value \in given'[x]
          PROVE  TemplateOf[value[1]] = TemplateOf[x] /\ InputOf[Meta(x)] \in KnownInputs(value[1])
      <4>1. DOMAIN given = Executions
        BY DEF ContextTypeOK
      <4>2. CASE x = e
        BY <3>1, <3>2, <3>3, <4>1, <4>2
      <4>3. CASE x # e
        BY <3>1, <3>3, <4>1, <4>3 DEF ContextInv, NoForeignValues
      <4> QED
        BY <4>2, <4>3
    <3> QED
      BY <3>3 DEF NoForeignValues, Meta, KnownInputs, KindsOf
  <2>2. CASE at[e].op # "read"
    BY <1>1, <2>2 DEF ContextInv, NoForeignValues, Meta, KnownInputs, KindsOf
  <2> QED
    BY <2>1, <2>2
<1> QED
  BY <1>6, <1>7, <1>8, <1>9 DEF ContextInv

\* The hash that is computed is that of the input.
LEMMA ComputeStep ==
    ASSUME ContextTypeOK, ContextInv, NEW e \in Executions, ComputeHash(e)
    PROVE  ContextTypeOK' /\ ContextInv'
<1>1. /\ hash' = [hash EXCEPT ![Meta(e)] = OwnKey(e)]
      /\ at' = [at EXCEPT ![e].phase = "get"]
      /\ contexts' = contexts /\ given' = given /\ made' = made
      /\ rehashed' \in {rehashed, rehashed \cup {Meta(e)}}
  BY DEF ComputeHash
<1>2. /\ Meta(e) \in MetaInputs /\ OwnKey(e) \in Keys
      /\ OwnKey(e)[2] = InputOf[Meta(e)] /\ OwnKey(e) # NoHash
  BY ExecutionTypes, ContextAssumption
<1>3. ContextTypeOK'
  BY <1>1, <1>2 DEF ContextTypeOK, Phases
<1>4. HashInv'
  BY <1>1, <1>2 DEF ContextInv, HashInv, ContextTypeOK
<1>5. \A f \in Executions : hash[Meta(f)] # NoHash => hash'[Meta(f)] # NoHash
  BY <1>1, <1>2, ExecutionTypes DEF ContextTypeOK
<1>6. PlaceInv'
  <2>1. /\ \A f \in Executions \ {e} : at'[f] = at[f]
        /\ at'[e].op = at[e].op /\ at'[e].request = at[e].request
        /\ hash'[Meta(e)] # NoHash
    BY <1>1, <1>2 DEF ContextTypeOK
  <2>2. at[e].op # "over"
    BY DEF ComputeHash, ContextInv, PlaceInv
  <2> QED
    BY <1>5, <2>1, <2>2 DEF ContextInv, PlaceInv, Meta, KindsOf
<1>7. CreateInv'
  BY <1>1 DEF ContextInv, CreateInv, ContextTypeOK, Reaches, Meta, KnownInputs
<1>8. ContextsInv' /\ NoForeignValues'
  <2>1. ContextsInv'
    BY <1>1 DEF ContextInv, ContextsInv, Belongs, KnownInputs, Meta, KindsOf
  <2>2. NoForeignValues'
    BY <1>1 DEF ContextInv, NoForeignValues, KnownInputs, Meta, KindsOf
  <2> QED
    BY <2>1, <2>2
<1> QED
  BY <1>3, <1>4, <1>6, <1>7, <1>8 DEF ContextInv

\* Every step of an execution keeps the types and the invariant.
LEMMA ContextStep ==
    ASSUME ContextTypeOK, ContextInv, [ContextNext]_contextVars
    PROVE  ContextTypeOK' /\ ContextInv'
<1>1. CASE UNCHANGED contextVars
  <2>1. ContextTypeOK'
    BY <1>1 DEF contextVars, ContextTypeOK
  <2>2. PlaceInv' /\ CreateInv'
    BY <1>1 DEF contextVars, ContextInv, PlaceInv, CreateInv, Reaches, KnownInputs, Meta, KindsOf
  <2> QED
    BY <1>1, <2>1, <2>2, ContextFrame DEF contextVars, ContextInv
<1>2. ASSUME NEW e \in Executions, StopExecution(e) \/ LeaveNothing(e)
      PROVE  ContextTypeOK' /\ ContextInv'
  <2>1. /\ EndExecution(e) \/ AfterAccess(e)
        /\ UNCHANGED <<hash, contexts, given, made, rehashed>>
    BY <1>2 DEF StopExecution, LeaveNothing
  <2>2. /\ at' \in [Executions -> [request : Nat, op : ContextOps, phase : Phases,
                                   key : Keys \cup {NoHash}]]
        /\ PlaceInv' /\ CreateInv'
    BY <2>1, EndStep, AfterAccessStep DEF ContextInv
  <2>3. ContextTypeOK'
    BY <2>1, <2>2 DEF ContextTypeOK
  <2> QED
    BY <2>1, <2>2, <2>3, ContextFrame DEF ContextInv
<1>3. ASSUME NEW e \in Executions, SeeNoHash(e)
      PROVE  ContextTypeOK' /\ ContextInv'
  <2>1. /\ at' = [at EXCEPT ![e].phase = "compute"]
        /\ at[e].op # "over"
        /\ UNCHANGED <<hash, contexts, given, made, rehashed>>
    BY <1>3 DEF SeeNoHash
  <2>2. ContextTypeOK'
    BY <2>1 DEF ContextTypeOK, Phases
  <2>3. /\ \A f \in Executions \ {e} : at'[f] = at[f]
        /\ at'[e].op = at[e].op /\ at'[e].request = at[e].request
        /\ at'[e].phase = "compute"
    BY <2>1 DEF ContextTypeOK
  <2>4. PlaceInv'
    BY <2>1, <2>3 DEF ContextInv, PlaceInv, Meta, KindsOf
  <2>5. CreateInv'
    BY <2>3 DEF ContextInv, CreateInv, Reaches, KnownInputs, Meta, KindsOf
  <2> QED
    BY <2>1, <2>2, <2>4, <2>5, ContextFrame DEF ContextInv
<1>4. ASSUME NEW e \in Executions, UseContext(e)
      PROVE  ContextTypeOK' /\ ContextInv'
  <2> DEFINE scanId == ScanHash(e)
             values == contexts[StoreOf(e)][ScanHash(e)]
  <2>1. HasScanHash(e) /\ scanId \in DOMAIN contexts[StoreOf(e)] /\ Access(e, scanId, values)
    BY <1>4 DEF UseContext
  <2>2. Reaches(e, scanId)
    BY <2>1, ScanHashReaches DEF ContextInv
  <2>3. values \subseteq Values /\ \A value \in values : Belongs(value, StoreOf(e), scanId)
    BY <2>1, ExecutionTypes DEF ContextTypeOK, ContextInv, ContextsInv
  <2> QED
    BY <2>1, <2>2, <2>3, AccessStep
<1>5. ASSUME NEW e \in Executions, MissContext(e)
      PROVE  ContextTypeOK' /\ ContextInv'
  <2>1. /\ HasScanHash(e) /\ at[e].op # "over"
        /\ at' = [at EXCEPT ![e] = [@ EXCEPT !.phase = "create", !.key = ScanHash(e)]]
        /\ UNCHANGED <<hash, contexts, given, made, rehashed>>
    BY <1>5 DEF MissContext
  <2>2. Reaches(e, ScanHash(e)) /\ ScanHash(e) \in Keys
    BY <2>1, ScanHashReaches DEF ContextInv, Reaches
  <2>3. ContextTypeOK'
    BY <2>1, <2>2 DEF ContextTypeOK, Phases
  <2>4. /\ \A f \in Executions \ {e} : at'[f] = at[f]
        /\ at'[e].op = at[e].op /\ at'[e].request = at[e].request
        /\ at'[e].phase = "create" /\ at'[e].key = ScanHash(e)
    BY <2>1 DEF ContextTypeOK
  <2>5. PlaceInv'
    BY <2>1, <2>4 DEF ContextInv, PlaceInv, Meta, KindsOf
  <2>6. CreateInv'
    <3> SUFFICES ASSUME NEW f \in Executions, at'[f].phase = "create"
                 PROVE  Reaches(f, at[f].key)'
      BY DEF CreateInv
    <3>1. CASE f = e
      BY <2>2, <2>4, <3>1 DEF Reaches, KnownInputs, Meta, KindsOf
    <3>2. CASE f # e
      BY <2>4, <3>2 DEF ContextInv, CreateInv, Reaches, KnownInputs, Meta, KindsOf
    <3> QED
      BY <3>1, <3>2
  <2> QED
    BY <2>1, <2>3, <2>5, <2>6, ContextFrame DEF ContextInv
<1>6. ASSUME NEW e \in Executions, CreateContext(e)
      PROVE  ContextTypeOK' /\ ContextInv'
  <2>1. at[e].phase = "create" /\ Access(e, at[e].key, {})
    BY <1>6 DEF CreateContext
  <2>2. Reaches(e, at[e].key)
    BY <2>1 DEF ContextInv, CreateInv
  <2> QED
    BY <2>1, <2>2, AccessStep
<1>7. ASSUME NEW e \in Executions, RemoveContext(e)
      PROVE  ContextTypeOK' /\ ContextInv'
  <2>1. /\ Goto(e, at[e].request, "over")
        /\ UNCHANGED <<hash, given, made, rehashed>>
        /\ contexts' = [contexts EXCEPT ![StoreOf(e)] = Without(@, hash[Meta(e)])]
    BY <1>7 DEF RemoveContext
  <2>2. /\ at' \in [Executions -> [request : Nat, op : ContextOps, phase : Phases,
                                   key : Keys \cup {NoHash}]]
        /\ PlaceInv' /\ CreateInv'
    <3>1. at[e].request \in Nat /\ "over" \in ContextOps
      BY DEF ContextTypeOK, ContextOps
    <3> QED
      BY <2>1, <3>1, GotoStep DEF ContextInv
  <2>3. /\ DOMAIN contexts' = Templates
        /\ \A t \in Templates :
              /\ DOMAIN contexts'[t] \subseteq DOMAIN contexts[t]
              /\ \A scanId \in DOMAIN contexts'[t] : contexts'[t][scanId] = contexts[t][scanId]
    <3>1. DOMAIN contexts = Templates /\ StoreOf(e) \in Templates
      BY ExecutionTypes DEF ContextTypeOK
    <3>2. /\ DOMAIN contexts' = Templates
          /\ \A t \in Templates \ {StoreOf(e)} : contexts'[t] = contexts[t]
          /\ contexts'[StoreOf(e)] = Without(contexts[StoreOf(e)], hash[Meta(e)])
      BY <2>1, <3>1
    <3>3. /\ DOMAIN contexts'[StoreOf(e)] \subseteq DOMAIN contexts[StoreOf(e)]
          /\ \A scanId \in DOMAIN contexts'[StoreOf(e)] :
                contexts'[StoreOf(e)][scanId] = contexts[StoreOf(e)][scanId]
      BY <3>2 DEF Without
    <3> QED
      BY <3>2, <3>3
  <2>4. ContextTypeOK'
    BY <2>1, <2>2, <2>3 DEF ContextTypeOK
  <2>5. ContextsInv'
    BY <2>3 DEF ContextInv, ContextsInv, Belongs, KnownInputs, Meta, KindsOf
  <2>6. HashInv' /\ NoForeignValues'
    BY <2>1 DEF ContextInv, HashInv, NoForeignValues, KnownInputs, Meta, KindsOf
  <2> QED
    BY <2>2, <2>4, <2>5, <2>6 DEF ContextInv
<1> QED
  BY <1>1, <1>2, <1>3, <1>4, <1>5, <1>6, <1>7, ComputeStep DEF ContextNext, ContextStepOf

\* At first no context is there.
LEMMA ContextStart ==
    ContextInit => ContextTypeOK /\ ContextInv
<1> SUFFICES ASSUME ContextInit
             PROVE  ContextTypeOK /\ ContextInv
  OBVIOUS
<1> USE DEF ContextInit
<1>1. \A t \in Templates : contexts[t] = <<>> /\ DOMAIN contexts[t] = {}
  OBVIOUS
<1>2. ContextTypeOK
  BY <1>1 DEF ContextTypeOK, ContextOps, Phases, Values
<1>3. PlaceInv
  BY ExecutionTypes DEF PlaceInv
<1>4. HashInv /\ CreateInv /\ NoForeignValues
  BY ExecutionTypes DEF HashInv, CreateInv, NoForeignValues
<1>5. ContextsInv
  BY <1>1 DEF ContextsInv
<1> QED
  BY <1>2, <1>3, <1>4, <1>5 DEF ContextInv

\* For any executions of any templates on shared targets, a request is given
\* values of its own template and target only, but for those that a request
\* moved to this target's input has left: the hash that a MetaInput takes from
\* the first template never mixes up templates, as each has its own store.
THEOREM ContextsKeptApart == ContextSpec => []NoForeignValues
<1>1. ContextTypeOK /\ ContextInv => NoForeignValues
  BY DEF ContextInv
<1> QED
  BY <1>1, ContextStart, ContextStep, PTL DEF ContextSpec

\* The contexts have their types: no context is stored under a missing hash.
THEOREM ContextTypes == ContextSpec => []ContextTypeOK
<1> QED
  BY ContextStart, ContextStep, PTL DEF ContextSpec

\* An execution of the same template comes to no context that a sole one
\* could come to.
LEMMA ApartFromSole ==
    ASSUME NEW e \in Executions, NEW g \in Executions, e # g, ~HasTwin(g),
           StoreOf(e) = StoreOf(g), NEW scanId, scanId[2] \in KnownInputs(e)
    PROVE  scanId[2] \notin KnownInputs(g)
  BY DEF HasTwin, StoreOf

\* What a step of one execution leaves to a sole other one.
KeptFor(g) ==
    /\ at'[g] = at[g] /\ given'[g] = given[g] /\ made'[g] = made[g]
    /\ \A scanId \in Keys : scanId[2] \in KnownInputs(g) =>
          /\ scanId \in DOMAIN contexts[StoreOf(g)] <=> scanId \in DOMAIN contexts'[StoreOf(g)]
          /\ scanId \in DOMAIN contexts[StoreOf(g)] =>
                contexts'[StoreOf(g)][scanId] = contexts[StoreOf(g)][scanId]

\* A step of the place alone.
LEMMA GotoKeeps ==
    ASSUME ContextTypeOK, NEW e \in Executions, NEW g \in Executions, e # g,
           EndExecution(e) \/ AfterAccess(e)
    PROVE  at'[g] = at[g]
<1>1. ASSUME NEW r, NEW op, Goto(e, r, op)
      PROVE  at'[g] = at[g]
  BY <1>1 DEF Goto, ContextTypeOK
<1>2. EndExecution(e) => at'[g] = at[g]
  BY <1>1 DEF EndExecution
<1>3. AfterRequest(e) => at'[g] = at[g]
  BY <1>1, <1>2 DEF AfterRequest
<1> QED
  BY <1>1, <1>2, <1>3 DEF AfterAccess

\* Nor does an access disturb a sole other execution, ...
LEMMA AccessKeeps ==
    ASSUME ContextTypeOK, ContextInv, NEW e \in Executions, NEW g \in Executions, e # g,
           ~HasTwin(g), NEW scanId, NEW values, Reaches(e, scanId), Access(e, scanId, values)
    PROVE  KeptFor(g)
<1> DEFINE new == IF at[e].op = "read" THEN values ELSE values \cup {ThisValue(e)}
<1>1. /\ contexts' = [contexts EXCEPT ![StoreOf(e)] = With(@, scanId, new)]
      /\ given' = IF at[e].op = "read" THEN [given EXCEPT ![e] = values] ELSE given
      /\ made' = IF at[e].op = "read" THEN made
                 ELSE [made EXCEPT ![e] = @ \cup {ThisValue(e)}]
      /\ AfterAccess(e)
  BY DEF Access
<1>2. at'[g] = at[g] /\ given'[g] = given[g] /\ made'[g] = made[g]
  BY <1>1, GotoKeeps DEF ContextTypeOK
<1> HIDE DEF new
<1>3. CASE StoreOf(e) # StoreOf(g)
  <2>1. contexts'[StoreOf(g)] = contexts[StoreOf(g)]
    BY <1>1, <1>3, ExecutionTypes DEF ContextTypeOK
  <2> QED
    BY <1>2, <2>1 DEF KeptFor
<1>4. CASE StoreOf(e) = StoreOf(g)
  <2>1. contexts'[StoreOf(g)] = With(contexts[StoreOf(g)], scanId, new)
    BY <1>1, <1>4, ExecutionTypes DEF ContextTypeOK
  <2>2. scanId[2] \notin KnownInputs(g)
    BY <1>4, ApartFromSole DEF Reaches
  <2>3. ASSUME NEW k \in Keys, k[2] \in KnownInputs(g)
        PROVE  /\ k \in DOMAIN contexts[StoreOf(g)] <=> k \in DOMAIN contexts'[StoreOf(g)]
               /\ k \in DOMAIN contexts[StoreOf(g)] =>
                     contexts'[StoreOf(g)][k] = contexts[StoreOf(g)][k]
    <3>1. k # scanId
      BY <2>2, <2>3
    <3> QED
      BY <2>1, <2>3, <3>1 DEF With
  <2> QED
    BY <1>2, <2>3 DEF KeptFor
<1> QED
  BY <1>3, <1>4

\* ... or any other step.
LEMMA OthersKeep ==
    ASSUME ContextTypeOK, ContextInv, NEW e \in Executions, NEW g \in Executions, e # g,
           ~HasTwin(g), ContextStepOf(e)
    PROVE  KeptFor(g)
<1>1. CASE StopExecution(e) \/ LeaveNothing(e)
  <2>1. /\ EndExecution(e) \/ AfterAccess(e)
        /\ UNCHANGED <<hash, contexts, given, made, rehashed>>
    BY <1>1 DEF StopExecution, LeaveNothing
  <2> QED
    BY <2>1, GotoKeeps DEF KeptFor
<1>2. CASE SeeNoHash(e) \/ ComputeHash(e) \/ MissContext(e)
  <2>1. at'[g] = at[g]
    BY <1>2 DEF SeeNoHash, ComputeHash, MissContext, ContextTypeOK
  <2> QED
    BY <1>2, <2>1 DEF SeeNoHash, ComputeHash, MissContext, KeptFor
<1>3. CASE UseContext(e)
  <2>1. HasScanHash(e) /\ Access(e, ScanHash(e), contexts[StoreOf(e)][ScanHash(e)])
    BY <1>3 DEF UseContext
  <2>2. Reaches(e, ScanHash(e))
    BY <2>1, ScanHashReaches DEF ContextInv
  <2> QED
    BY <2>1, <2>2, AccessKeeps
<1>4. CASE CreateContext(e)
  <2>1. at[e].phase = "create" /\ Access(e, at[e].key, {})
    BY <1>4 DEF CreateContext
  <2>2. Reaches(e, at[e].key)
    BY <2>1 DEF ContextInv, CreateInv
  <2> QED
    BY <2>1, <2>2, AccessKeeps
<1>5. CASE RemoveContext(e)
  <2> DEFINE scanId == hash[Meta(e)]
  <2>1. /\ Goto(e, at[e].request, "over") /\ at[e].op = "remove" /\ HasScanHash(e)
        /\ UNCHANGED <<hash, given, made, rehashed>>
        /\ contexts' = [contexts EXCEPT ![StoreOf(e)] = Without(@, scanId)]
    BY <1>5 DEF RemoveContext
  <2>2. at'[g] = at[g]
    BY <2>1 DEF Goto, ContextTypeOK
  <2>3. scanId[2] \in KnownInputs(e)
    <3>1. scanId # NoHash
      BY <2>1 DEF HasScanHash, OnClone, ContextInv, PlaceInv
    <3>2. scanId[2] = InputOf[Meta(e)]
      BY <3>1, ExecutionTypes DEF ContextInv, HashInv
    <3> QED
      BY <3>2 DEF KnownInputs
  <2> HIDE DEF scanId
  <2>4. CASE StoreOf(e) # StoreOf(g)
    <3>1. contexts'[StoreOf(g)] = contexts[StoreOf(g)]
      BY <2>1, <2>4, ExecutionTypes DEF ContextTypeOK
    <3> QED
      BY <2>1, <2>2, <3>1 DEF KeptFor
  <2>5. CASE StoreOf(e) = StoreOf(g)
    <3>1. contexts'[StoreOf(g)] = Without(contexts[StoreOf(g)], scanId)
      BY <2>1, <2>5, ExecutionTypes DEF ContextTypeOK
    <3>2. scanId[2] \notin KnownInputs(g)
      BY <2>3, <2>5, ApartFromSole
    <3>3. ASSUME NEW k \in Keys, k[2] \in KnownInputs(g)
          PROVE  /\ k \in DOMAIN contexts[StoreOf(g)] <=> k \in DOMAIN contexts'[StoreOf(g)]
                 /\ k \in DOMAIN contexts[StoreOf(g)] =>
                       contexts'[StoreOf(g)][k] = contexts[StoreOf(g)][k]
      <4>1. k # scanId
        BY <3>2, <3>3
      <4> QED
        BY <3>1, <3>3, <4>1 DEF Without
    <3> QED
      BY <2>1, <2>2, <3>3 DEF KeptFor
  <2> QED
    BY <2>4, <2>5
<1> QED
  BY <1>1, <1>2, <1>3, <1>4, <1>5 DEF ContextStepOf

\* A hash that is there stays, or else the MetaInput is rehashed.
LEMMA HashKept ==
    ASSUME ContextTypeOK, NEW e \in Executions, NEW m \in MetaInputs,
           ContextStepOf(e), m \notin rehashed'
    PROVE  m \notin rehashed /\ (hash[m] # NoHash => hash'[m] = hash[m])
<1>1. CASE ComputeHash(e)
  <2>1. /\ hash' = [hash EXCEPT ![Meta(e)] = OwnKey(e)]
        /\ rehashed' = IF hash[Meta(e)] \in {NoHash, OwnKey(e)} THEN rehashed
                       ELSE rehashed \cup {Meta(e)}
    BY <1>1 DEF ComputeHash
  <2> QED
    BY <2>1 DEF ContextTypeOK
<1>2. CASE ~ComputeHash(e)
  <2>1. hash' = hash /\ rehashed' = rehashed
    BY <1>2 DEF ContextStepOf, StopExecution, LeaveNothing, SeeNoHash, UseContext,
                MissContext, CreateContext, RemoveContext, Access
  <2> QED
    BY <2>1
<1> QED
  BY <1>1, <1>2

\* Where a step of an execution leads: the others stay where they are, and it
\* is about to create a context only when it has missed one.
LEMMA StepPlaces ==
    ASSUME ContextTypeOK, NEW e \in Executions, ContextStepOf(e)
    PROVE  /\ \A f \in Executions \ {e} : at'[f] = at[f]
           /\ at'[e].phase = "create" => MissContext(e)
<1>1. ASSUME NEW r, NEW op, Goto(e, r, op)
      PROVE  (\A f \in Executions \ {e} : at'[f] = at[f]) /\ at'[e].phase = "look"
  BY <1>1 DEF Goto, ContextTypeOK
<1>2. EndExecution(e) => (\A f \in Executions \ {e} : at'[f] = at[f]) /\ at'[e].phase = "look"
  BY <1>1 DEF EndExecution
<1>3. AfterRequest(e) => (\A f \in Executions \ {e} : at'[f] = at[f]) /\ at'[e].phase = "look"
  BY <1>1, <1>2 DEF AfterRequest
<1>4. AfterAccess(e) => (\A f \in Executions \ {e} : at'[f] = at[f]) /\ at'[e].phase = "look"
  BY <1>1, <1>3 DEF AfterAccess
<1>5. CASE SeeNoHash(e) \/ ComputeHash(e)
  BY <1>5 DEF SeeNoHash, ComputeHash, ContextTypeOK
<1>6. CASE MissContext(e)
  BY <1>6 DEF MissContext, ContextTypeOK
<1>7. CASE StopExecution(e) \/ LeaveNothing(e) \/ RemoveContext(e)
  BY <1>1, <1>2, <1>4, <1>7 DEF StopExecution, LeaveNothing, RemoveContext
<1>8. CASE UseContext(e) \/ CreateContext(e)
  BY <1>4, <1>8 DEF UseContext, CreateContext, Access
<1> QED
  BY <1>5, <1>6, <1>7, <1>8 DEF ContextStepOf

\* What clones added is under their keys.
UnderCloneKeys(stores) ==
    \A t \in Templates : \A scanId \in DOMAIN stores[t] : \A value \in stores[t][scanId] :
        AddedByClone(value) => scanId = CloneKey(value[1], value[2])

\* An access puts what a clone adds under the key of the clone.
LEMMA AccessByClone ==
    ASSUME ContextTypeOK, NEW e \in Executions, UnderCloneKeys(contexts), NEW scanId, NEW values,
           Access(e, scanId, values),
           OnClone(e) => scanId = CloneKey(e, at[e].request),
           \A value \in values : AddedByClone(value) => scanId = CloneKey(value[1], value[2])
    PROVE  UnderCloneKeys(contexts')
<1> DEFINE new == IF at[e].op = "read" THEN values ELSE values \cup {ThisValue(e)}
<1>1. contexts' = [contexts EXCEPT ![StoreOf(e)] = With(@, scanId, new)]
  BY DEF Access
<1>2. AddedByClone(ThisValue(e)) =>
        OnClone(e) /\ ThisValue(e)[1] = e /\ ThisValue(e)[2] = at[e].request
  BY DEF AddedByClone, ThisValue, OnClone
<1>3. \A value \in new : AddedByClone(value) => scanId = CloneKey(value[1], value[2])
  BY <1>2
<1> HIDE DEF new
<1>4. contexts'[StoreOf(e)] = With(contexts[StoreOf(e)], scanId, new)
  BY <1>1, ExecutionTypes DEF ContextTypeOK
<1>5. \A t \in Templates \ {StoreOf(e)} : contexts'[t] = contexts[t]
  BY <1>1 DEF ContextTypeOK
<1>6. ASSUME NEW t \in Templates, NEW k \in DOMAIN contexts'[t], NEW value \in contexts'[t][k],
             AddedByClone(value)
      PROVE  k = CloneKey(value[1], value[2])
  <2>1. CASE t # StoreOf(e)
    BY <1>5, <1>6, <2>1 DEF UnderCloneKeys
  <2>2. CASE t = StoreOf(e)
    <3>1. k \in DOMAIN contexts[t] \cup {scanId}
      BY <1>4, <1>6, <2>2 DEF With
    <3>2. CASE k = scanId
      <4>1. value \in new
        BY <1>4, <1>6, <2>2, <3>2 DEF With
      <4> QED
        BY <1>3, <1>6, <3>2, <4>1
    <3>3. CASE k # scanId
      <4>1. k \in DOMAIN contexts[t] /\ value \in contexts[t][k]
        BY <1>4, <1>6, <2>2, <3>1, <3>3 DEF With
      <4> QED
        BY <1>6, <4>1 DEF UnderCloneKeys
    <3> QED
      BY <3>2, <3>3
  <2> QED
    BY <2>1, <2>2
<1> QED
  BY <1>6 DEF UnderCloneKeys

\* So what a clone added stays under its key.
LEMMA CloneStep ==
    ASSUME ContextTypeOK, ContextInv, CloneInv, NEW e \in Executions, ContextStepOf(e)
    PROVE  CloneInv'
<1>1. UnderCloneKeys(contexts)
  BY DEF CloneInv, UnderCloneKeys
<1>2. UnderCloneKeys(contexts')
  <2>1. CASE UseContext(e)
    <3>1. /\ HasScanHash(e) /\ ScanHash(e) \in DOMAIN contexts[StoreOf(e)]
          /\ Access(e, ScanHash(e), contexts[StoreOf(e)][ScanHash(e)])
      BY <2>1 DEF UseContext
    <3>2. \A value \in contexts[StoreOf(e)][ScanHash(e)] :
            AddedByClone(value) => ScanHash(e) = CloneKey(value[1], value[2])
      BY <1>1, <3>1, ExecutionTypes DEF UnderCloneKeys
    <3>3. OnClone(e) => ScanHash(e) = CloneKey(e, at[e].request)
      BY DEF ScanHash
    <3> QED
      BY <1>1, <3>1, <3>2, <3>3, AccessByClone
  <2>2. CASE CreateContext(e)
    <3>1. at[e].phase = "create" /\ Access(e, at[e].key, {})
      BY <2>2 DEF CreateContext
    <3>2. OnClone(e) => at[e].key = CloneKey(e, at[e].request)
      BY <3>1 DEF CloneInv
    <3> QED
      BY <1>1, <3>1, <3>2, AccessByClone
  <2>3. CASE RemoveContext(e)
    <3>1. contexts' = [contexts EXCEPT ![StoreOf(e)] = Without(@, hash[Meta(e)])]
      BY <2>3 DEF RemoveContext
    <3>2. \A t \in Templates \ {StoreOf(e)} : contexts'[t] = contexts[t]
      BY <3>1 DEF ContextTypeOK
    <3>3. contexts'[StoreOf(e)] = Without(contexts[StoreOf(e)], hash[Meta(e)])
      BY <3>1, ExecutionTypes DEF ContextTypeOK
    <3>4. \A k \in DOMAIN contexts'[StoreOf(e)] :
            /\ k \in DOMAIN contexts[StoreOf(e)]
            /\ contexts'[StoreOf(e)][k] = contexts[StoreOf(e)][k]
      BY <3>3 DEF Without
    <3> QED
      BY <1>1, <3>2, <3>4 DEF UnderCloneKeys
  <2>4. CASE \/ StopExecution(e) \/ LeaveNothing(e) \/ SeeNoHash(e) \/ ComputeHash(e)
             \/ MissContext(e)
    <3>1. contexts' = contexts
      BY <2>4 DEF StopExecution, LeaveNothing, SeeNoHash, ComputeHash, MissContext
    <3> QED
      BY <1>1, <3>1
  <2> QED
    BY <2>1, <2>2, <2>3, <2>4 DEF ContextStepOf
<1>3. ASSUME NEW f \in Executions, at'[f].phase = "create", OnClone(f)'
      PROVE  at'[f].key = CloneKey(f, at'[f].request)
  <2>1. CASE f # e
    <3>1. at'[f] = at[f]
      BY <2>1, StepPlaces
    <3>2. OnClone(f)
      BY <1>3, <3>1 DEF OnClone, Kind, KindsOf, IsMultiProtocol
    <3> QED
      BY <1>3, <3>1, <3>2 DEF CloneInv
  <2>2. CASE f = e
    <3>1. MissContext(e)
      BY <1>3, <2>2, StepPlaces
    <3>2. /\ at'[e].op = at[e].op /\ at'[e].request = at[e].request
          /\ at'[e].key = ScanHash(e)
      BY <3>1 DEF MissContext, ContextTypeOK
    <3>3. OnClone(e)
      BY <1>3, <2>2, <3>2 DEF OnClone, Kind, KindsOf, IsMultiProtocol
    <3> QED
      BY <2>2, <3>2, <3>3 DEF ScanHash
  <2> QED
    BY <2>1, <2>2
<1> QED
  BY <1>2, <1>3 DEF CloneInv, UnderCloneKeys, CloneKey, Kind, KindsOf, IsMultiProtocol,
                    AddedByClone, OwnKey, Meta

\* What is astray depends on the hash alone.
LEMMA AstrayKept ==
    ASSUME NEW e \in Executions, hash'[Meta(e)] = hash[Meta(e)]
    PROVE  Astray(e)' = Astray(e)
  BY DEF Astray, Kind, CloneKey, OwnKey, KindsOf, IsMultiProtocol, Meta

\* What an access adds is astray when it is that of a clone under another key.
LEMMA AddedAstray ==
    ASSUME ContextTypeOK, PlaceInv, NEW e \in Executions,
           at[e].op \in {"args", "run", "extract"}
    PROVE  ThisValue(e) \in Astray(e) <=>
             OnClone(e) /\ CloneKey(e, at[e].request) # hash[Meta(e)]
<1>1. CASE at[e].op # "run"
  BY <1>1 DEF ThisValue, Astray, OnClone
<1>2. CASE at[e].op = "run"
  <2>1. at[e].request \in DOMAIN KindsOf(e)
    BY <1>2, ExecutionTypes, LenProperties DEF PlaceInv
  <2> QED
    BY <1>2, <2>1 DEF ThisValue, Astray, OnClone
<1> QED
  BY <1>1, <1>2

\* An execution that carries its values goes on carrying them when another
\* one takes a step.
LEMMA OthersCarry ==
    ASSUME ContextTypeOK, ContextInv, NEW e \in Executions, NEW g \in Executions, e # g,
           Sole(g)', Carries(g), ContextStepOf(e)
    PROVE  Carries(g)'
<1>1. ~HasTwin(g) /\ Meta(g) \notin rehashed'
  BY DEF Sole, HasTwin, KnownInputs, Meta, KindsOf
<1>2. KeptFor(g)
  BY <1>1, OthersKeep
<1>3. hash[Meta(g)] # NoHash => hash'[Meta(g)] = hash[Meta(g)]
  BY <1>1, HashKept, ExecutionTypes
<1>4. hash[Meta(g)] # NoHash =>
        hash[Meta(g)] \in Keys /\ hash[Meta(g)][2] \in KnownInputs(g)
  BY ExecutionTypes DEF ContextTypeOK, ContextInv, HashInv, KnownInputs
<1>5. /\ at'[g] = at[g] /\ given'[g] = given[g] /\ made'[g] = made[g]
      /\ HasOwn(g) => /\ hash'[Meta(g)] = hash[Meta(g)]
                      /\ hash[Meta(g)] \in DOMAIN contexts'[StoreOf(g)]
                      /\ contexts'[StoreOf(g)][hash[Meta(g)]] = contexts[StoreOf(g)][hash[Meta(g)]]
  BY <1>2, <1>3, <1>4 DEF KeptFor, HasOwn
<1>6. HasOwn(g) => /\ HasOwn(g)' /\ OwnValues(g)' = OwnValues(g)
                   /\ Astray(g)' = Astray(g)
  BY <1>5, AstrayKept DEF HasOwn, OwnValues, Meta, StoreOf
<1>7. \A k \in DOMAIN contexts'[StoreOf(g)] :
        k[2] \in KnownInputs(g) => k \in DOMAIN contexts[StoreOf(g)]
  <2>1. ContextTypeOK'
    BY ContextStep DEF ContextNext
  <2>2. DOMAIN contexts'[StoreOf(g)] \subseteq Keys
    BY <2>1, ExecutionTypes DEF ContextTypeOK
  <2> QED
    BY <1>2, <2>2 DEF KeptFor
<1>8. at'[g].op = "args" =>
        /\ made'[g] = {}
        /\ \A k \in DOMAIN contexts'[StoreOf(g)] : k[2] \notin KnownInputs(g)
  BY <1>5, <1>7 DEF Carries
<1>9. at'[g].op \in {"read", "run", "extract"} =>
        /\ HasOwn(g)' /\ OwnValues(g)' = made'[g] \ Astray(g)'
        /\ at'[g].phase # "compute"
  BY <1>5, <1>6 DEF Carries
<1>10. at'[g].op = "run" => given'[g] = made'[g] \ Astray(g)'
  BY <1>5, <1>6 DEF Carries
<1>11. at'[g].phase = "create" =>
        /\ hash'[Meta(g)] # NoHash
        /\ \/ at'[g].op = "args" /\ at'[g].key = hash'[Meta(g)]
           \/ OnClone(g)' /\ at'[g].key # hash'[Meta(g)]
  <2>1. OnClone(g)' = OnClone(g)
    BY <1>5 DEF OnClone, Kind, KindsOf, IsMultiProtocol
  <2> QED
    BY <1>3, <1>5, <2>1 DEF Carries
<1> QED
  BY <1>8, <1>9, <1>10, <1>11 DEF Carries, Meta, StoreOf, KnownInputs, KindsOf

\* Where an access of the engine leads.
LEMMA AfterAccessAt ==
    ASSUME ContextTypeOK, NEW e \in Executions, IsMultiProtocol(e), AfterAccess(e)
    PROVE  /\ at'[e].phase = "look"
           /\ at[e].op = "args" => at'[e].op = "read"
           /\ at[e].op = "read" => at'[e].op = "run"
           /\ at[e].op = "run" => at'[e].op = "extract"
           /\ at[e].op = "extract" => at'[e].op \in {"read", "remove", "over"}
           /\ at[e].op \in {"args", "read", "run", "extract"}
<1>1. ASSUME NEW r, NEW op, Goto(e, r, op)
      PROVE  at'[e].phase = "look" /\ at'[e].op = op
  BY <1>1 DEF Goto, ContextTypeOK
<1>2. EndExecution(e) => at'[e].phase = "look" /\ at'[e].op \in {"remove", "over"}
  BY <1>1 DEF EndExecution
<1>3. AfterRequest(e) => at'[e].phase = "look" /\ at'[e].op \in {"read", "remove", "over"}
  BY <1>1, <1>2 DEF AfterRequest
<1> QED
  BY <1>1, <1>3 DEF AfterAccess

\* An access of its own: to the context under the hash, or with a clone
\* possibly to another.
LEMMA OwnAccess ==
    ASSUME ContextTypeOK, ContextInv, NEW e \in Executions, IsMultiProtocol(e), Carries(e),
           NEW scanId, NEW values, Access(e, scanId, values), hash[Meta(e)] # NoHash,
           ~OnClone(e) => scanId = hash[Meta(e)],
           OnClone(e) => scanId = CloneKey(e, at[e].request),
           at[e].op = "args" => values = {},
           at[e].op # "args" /\ scanId = hash[Meta(e)] => values = OwnValues(e)
    PROVE  Carries(e)'
<1> DEFINE this == ThisValue(e)
           new == IF at[e].op = "read" THEN values ELSE values \cup {this}
           h == hash[Meta(e)]
           c == contexts[StoreOf(e)]
           stray == Astray(e)
<1>1. /\ contexts' = [contexts EXCEPT ![StoreOf(e)] = With(@, scanId, new)]
      /\ given' = IF at[e].op = "read" THEN [given EXCEPT ![e] = values] ELSE given
      /\ made' = IF at[e].op = "read" THEN made
                 ELSE [made EXCEPT ![e] = @ \cup {this}]
      /\ hash' = hash /\ AfterAccess(e)
  BY DEF Access
<1>2. /\ contexts'[StoreOf(e)] = With(c, scanId, new)
      /\ at[e].op = "read" => given'[e] = values /\ made'[e] = made[e] /\ new = values
      /\ at[e].op # "read" => made'[e] = made[e] \cup {this} /\ new = values \cup {this}
  BY <1>1, ExecutionTypes DEF ContextTypeOK
<1>3. at[e].op \in {"args", "read", "run", "extract"} /\ (at[e].op # "run" => ~OnClone(e))
  BY <1>1, AfterAccessAt DEF OnClone
<1>4. at[e].op # "args" => h \in DOMAIN c /\ c[h] = made[e] \ stray
  BY <1>3 DEF Carries, HasOwn, OwnValues
<1>5. at[e].op # "read" => (this \in stray <=> scanId # h)
  BY <1>3, AddedAstray DEF ContextInv
<1>6. /\ scanId = h => new = made'[e] \ stray
      /\ scanId # h => c[h] = made'[e] \ stray /\ at[e].op = "run"
  <2>1. CASE at[e].op = "args"
    <3>1. scanId = h /\ made[e] = {} /\ values = {}
      BY <1>3, <2>1 DEF Carries
    <3> HIDE DEF this, new, h, c, stray
    <3> QED
      BY <1>2, <1>5, <2>1, <3>1
  <2>2. CASE at[e].op # "args"
    <3>1. scanId = h => values = c[h]
      BY <2>2 DEF OwnValues
    <3>2. scanId # h => at[e].op = "run"
      BY <1>3
    <3> HIDE DEF this, new, h, c, stray
    <3>3. CASE at[e].op = "read"
      BY <1>2, <1>4, <3>1, <3>2, <3>3
    <3>4. CASE at[e].op # "read"
      BY <1>2, <1>4, <1>5, <2>2, <3>1, <3>2, <3>4
    <3> QED
      BY <3>3, <3>4
  <2> QED
    BY <2>1, <2>2
<1>7. h \in DOMAIN contexts'[StoreOf(e)] /\ contexts'[StoreOf(e)][h] = made'[e] \ stray
  <2> HIDE DEF this, new, h, c, stray
  <2>1. CASE scanId = h
    BY <1>2, <1>6, <2>1 DEF With
  <2>2. CASE scanId # h
    BY <1>2, <1>4, <1>6, <2>2 DEF With
  <2> QED
    BY <2>1, <2>2
<1>8. at'[e].op = "run" => given'[e] = made'[e] \ stray
  <2> SUFFICES ASSUME at'[e].op = "run"
               PROVE  given'[e] = made'[e] \ stray
    OBVIOUS
  <2>1. at[e].op = "read"
    BY <1>1, <1>3, AfterAccessAt
  <2>2. scanId = h
    BY <1>3, <2>1
  <2> HIDE DEF this, new, h, c, stray
  <2> QED
    BY <1>2, <1>6, <2>1, <2>2
<1>9. at'[e].phase = "look" /\ at'[e].op # "args"
  BY <1>1, <1>3, AfterAccessAt
<1>10. hash'[Meta(e)] = h /\ h # NoHash /\ Astray(e)' = stray
  BY <1>1, AstrayKept
<1>11. OwnValues(e)' = contexts'[StoreOf(e)][h] /\ HasOwn(e)'
  BY <1>7, <1>10 DEF OwnValues, HasOwn, Meta, StoreOf
<1> HIDE DEF this, h, new, c, stray
<1> QED
  BY <1>7, <1>8, <1>9, <1>10, <1>11 DEF Carries, Meta

\* So it does when it takes a step itself.
LEMMA OwnCarry ==
    ASSUME ContextTypeOK, ContextInv, CloneInv, NEW e \in Executions, Sole(e)', Carries(e),
           ContextStepOf(e)
    PROVE  Carries(e)'
<1> DEFINE h == hash[Meta(e)]
<1>1. IsMultiProtocol(e) /\ Meta(e) \notin rehashed'
  BY DEF Sole, IsMultiProtocol, KindsOf, Meta
<1>2. HasScanHash(e) /\ ~OnClone(e) => h # NoHash /\ ScanHash(e) = h
  BY DEF HasScanHash, ScanHash, ContextInv, PlaceInv
<1>3. /\ at[e].op # "run" => ~OnClone(e)
      /\ OnClone(e) => ScanHash(e) = CloneKey(e, at[e].request)
  BY DEF OnClone, ScanHash
<1>4. CASE StopExecution(e)
  <2>1. EndExecution(e)
    BY <1>4 DEF StopExecution
  <2>2. at'[e].op \in {"remove", "over"} /\ at'[e].phase = "look"
    BY <2>1 DEF EndExecution, Goto, ContextTypeOK
  <2> QED
    BY <2>2 DEF Carries
<1>5. CASE LeaveNothing(e)
  <2>1. /\ at[e].op \in {"run", "extract"} /\ AfterAccess(e)
        /\ UNCHANGED <<hash, contexts, given, made, rehashed>>
    BY <1>5 DEF LeaveNothing
  <2>2. at'[e].phase = "look" /\ at'[e].op \in {"extract", "read", "remove", "over"}
    BY <1>1, <2>1, AfterAccessAt
  <2>3. HasOwn(e) /\ OwnValues(e) = made[e] \ Astray(e)
    BY <2>1 DEF Carries
  <2>4. HasOwn(e)' /\ OwnValues(e)' = OwnValues(e) /\ Astray(e)' = Astray(e)
    BY <2>1, <2>3, AstrayKept DEF HasOwn, OwnValues, Meta, StoreOf
  <2> QED
    BY <2>1, <2>2, <2>3, <2>4 DEF Carries
<1>6. CASE SeeNoHash(e) \/ ComputeHash(e)
  <2>1. at[e].op \notin {"read", "run", "extract"}
    BY <1>6 DEF SeeNoHash, ComputeHash, Carries, HasOwn
  <2>2. /\ made' = made /\ contexts' = contexts
        /\ at'[e].op = at[e].op /\ at'[e].phase \in {"compute", "get"}
    BY <1>6 DEF SeeNoHash, ComputeHash, ContextTypeOK
  <2> QED
    BY <2>1, <2>2 DEF Carries, KnownInputs, KindsOf, Meta, StoreOf
<1>7. CASE UseContext(e)
  <2>1. /\ HasScanHash(e) /\ ScanHash(e) \in DOMAIN contexts[StoreOf(e)]
        /\ Access(e, ScanHash(e), contexts[StoreOf(e)][ScanHash(e)])
    BY <1>7 DEF UseContext
  <2>2. at[e].op # "args"
    <3>1. Reaches(e, ScanHash(e))
      BY <2>1, ScanHashReaches DEF ContextInv
    <3> QED
      BY <2>1, <3>1 DEF Carries, Reaches
  <2>3. h # NoHash
    BY <1>2, <1>3, <2>1 DEF Carries, HasOwn
  <2>4. ScanHash(e) = h => contexts[StoreOf(e)][ScanHash(e)] = OwnValues(e)
    BY DEF OwnValues
  <2> QED
    BY <1>1, <1>2, <1>3, <2>1, <2>2, <2>3, <2>4, OwnAccess
<1>8. CASE MissContext(e)
  <2>1. /\ HasScanHash(e) /\ at[e].op \notin {"remove", "over"}
        /\ ScanHash(e) \notin DOMAIN contexts[StoreOf(e)]
        /\ at' = [at EXCEPT ![e] = [@ EXCEPT !.phase = "create", !.key = ScanHash(e)]]
        /\ UNCHANGED <<hash, contexts, given, made, rehashed>>
    BY <1>8 DEF MissContext
  <2>2. /\ at'[e].op = at[e].op /\ at'[e].phase = "create" /\ at'[e].key = ScanHash(e)
        /\ at'[e].request = at[e].request
        /\ at[e].op \in {"args", "read", "run", "extract"}
    BY <2>1 DEF ContextTypeOK, ContextOps
  <2>3. /\ OnClone(e)' = OnClone(e) /\ HasOwn(e)' = HasOwn(e)
        /\ OwnValues(e)' = OwnValues(e) /\ Astray(e)' = Astray(e)
    BY <2>1, <2>2, AstrayKept DEF OnClone, Kind, KindsOf, IsMultiProtocol, HasOwn, OwnValues,
                                  Meta, StoreOf
  <2>4. h # NoHash /\ (at[e].op = "args" \/ OnClone(e)) /\ (OnClone(e) <=> ScanHash(e) # h)
    BY <1>2, <1>3, <2>1, <2>2 DEF Carries, HasOwn
  <2>5. \/ at'[e].op = "args" /\ at'[e].key = h
        \/ OnClone(e)' /\ at'[e].key # h
    BY <1>3, <2>2, <2>3, <2>4
  <2> QED
    BY <2>1, <2>2, <2>3, <2>4, <2>5 DEF Carries, KnownInputs, KindsOf, Meta, StoreOf
<1>9. CASE CreateContext(e)
  <2>1. at[e].phase = "create" /\ Access(e, at[e].key, {})
    BY <1>9 DEF CreateContext
  <2>2. /\ h # NoHash
        /\ \/ at[e].op = "args" /\ at[e].key = h
           \/ OnClone(e) /\ at[e].key # h
    BY <2>1 DEF Carries
  <2>3. OnClone(e) => at[e].key = CloneKey(e, at[e].request)
    BY <2>1 DEF CloneInv
  <2>4. at[e].op # "args" /\ at[e].key = h => {} = OwnValues(e)
    BY <2>2
  <2> QED
    BY <1>1, <1>3, <2>1, <2>2, <2>3, <2>4, OwnAccess
<1>10. CASE RemoveContext(e)
  <2>1. Goto(e, at[e].request, "over")
    BY <1>10 DEF RemoveContext
  <2>2. at'[e].op = "over" /\ at'[e].phase = "look"
    BY <2>1 DEF Goto, ContextTypeOK
  <2> QED
    BY <2>2 DEF Carries
<1> QED
  BY <1>4, <1>5, <1>6, <1>7, <1>8, <1>9, <1>10 DEF ContextStepOf

\* For any executions of any templates, whoever else works on the target: a
\* request is given what the engine put in and what the requests before it
\* made, and of this it lacks exactly what the runs on clones put under another
\* hash; unless the hash of the target is overwritten or the template runs on
\* it twice.
THEOREM ValuesArePassedOn == ContextSpec => []PassedOnUnlessAstray
<1>1. ContextInit => CloneInv /\ CarryInv
  <2> SUFFICES ASSUME ContextInit
               PROVE  CloneInv /\ CarryInv
    OBVIOUS
  <2>1. /\ \A t \in Templates : DOMAIN contexts[t] = {}
        /\ \A e \in Executions : at[e].phase = "look"
    BY DEF ContextInit
  <2>2. ASSUME NEW e \in Executions, IsMultiProtocol(e)
        PROVE  Carries(e)
    <3>1. at[e].op = "args" /\ made[e] = {}
      BY <2>2 DEF ContextInit
    <3> QED
      BY <2>1, <3>1, ExecutionTypes DEF Carries
  <2> QED
    BY <2>1, <2>2 DEF CloneInv, CarryInv, Sole
<1>2. ASSUME ContextTypeOK, ContextInv, CloneInv, CarryInv, [ContextNext]_contextVars
      PROVE  CloneInv' /\ CarryInv'
  <2>1. CASE UNCHANGED contextVars
    <3>1. CloneInv'
      BY <1>2, <2>1 DEF contextVars, CloneInv, AddedByClone, OnClone, Kind, CloneKey, OwnKey,
                        IsMultiProtocol, KindsOf, Meta
    <3>2. ASSUME NEW g \in Executions, Sole(g)'
          PROVE  Carries(g)'
      <4>1. Sole(g)
        BY <2>1, <3>2 DEF contextVars, Sole, HasTwin, KnownInputs, IsMultiProtocol, KindsOf, Meta
      <4>2. Carries(g)
        BY <1>2, <4>1 DEF CarryInv
      <4>3. /\ OnClone(g)' = OnClone(g) /\ HasOwn(g)' = HasOwn(g)
            /\ OwnValues(g)' = OwnValues(g) /\ Astray(g)' = Astray(g)
        BY <2>1, AstrayKept DEF contextVars, OnClone, Kind, KindsOf, IsMultiProtocol, HasOwn,
                                OwnValues, Meta, StoreOf
      <4> QED
        BY <2>1, <4>2, <4>3 DEF contextVars, Carries, KnownInputs, KindsOf, Meta, StoreOf
    <3> QED
      BY <3>1, <3>2 DEF CarryInv
  <2>2. ASSUME NEW e \in Executions, ContextStepOf(e)
        PROVE  CloneInv' /\ CarryInv'
    <3>1. ASSUME NEW g \in Executions, Sole(g)'
          PROVE  Carries(g)'
      <4>1. Meta(g) \notin rehashed
        BY <1>2, <2>2, <3>1, HashKept, ExecutionTypes DEF Sole, Meta
      <4>2. Sole(g)
        BY <3>1, <4>1 DEF Sole, IsMultiProtocol, HasTwin, KnownInputs, KindsOf, Meta
      <4> QED
        BY <1>2, <2>2, <3>1, <4>2, OwnCarry, OthersCarry DEF CarryInv
    <3> QED
      BY <1>2, <2>2, <3>1, CloneStep DEF CarryInv
  <2> QED
    BY <1>2, <2>1, <2>2 DEF ContextNext
<1>3. CarryInv => PassedOnUnlessAstray
  BY DEF CarryInv, PassedOnUnlessAstray, Carries
<1> QED
  BY <1>1, <1>2, <1>3, ContextStart, ContextStep, PTL DEF ContextSpec

\* What an execution makes a context under stays so while its hash is kept.
LEMMA MakesKept ==
    ASSUME NEW e \in Executions, NEW scanId \in Keys, Makes(e, scanId),
           hash[Meta(e)] # NoHash => hash'[Meta(e)] = hash[Meta(e)],
           NoHash \notin Keys
    PROVE  Makes(e, scanId)'
  BY DEF Makes, UsesClones, OwnKey, KindsOf, IsMultiProtocol, Meta

\* The step of one execution leaves it to another to tidy up.
LEMMA OthersTidy ==
    ASSUME ContextTypeOK, ContextInv, NEW e \in Executions, NEW g \in Executions, e # g,
           ~HasTwin(g), Meta(g) \notin rehashed', Tidies(g), ContextStepOf(e)
    PROVE  Tidies(g)'
<1>1. KeptFor(g)
  BY OthersKeep
<1>2. hash[Meta(g)] # NoHash => hash'[Meta(g)] = hash[Meta(g)]
  BY HashKept, ExecutionTypes
<1>3. hash[Meta(g)] # NoHash =>
        hash[Meta(g)] \in Keys /\ hash[Meta(g)][2] \in KnownInputs(g)
  BY ExecutionTypes DEF ContextTypeOK, ContextInv, HashInv, KnownInputs
<1>4. ContextTypeOK'
  BY ContextStep DEF ContextNext
<1>5. \A k \in DOMAIN contexts'[StoreOf(g)] : k[2] \in KnownInputs(g) => Makes(g, k)'
  <2> SUFFICES ASSUME NEW k \in DOMAIN contexts'[StoreOf(g)], k[2] \in KnownInputs(g)
               PROVE  Makes(g, k)'
    OBVIOUS
  <2>1. k \in Keys
    BY <1>4, ExecutionTypes DEF ContextTypeOK
  <2>2. k \in DOMAIN contexts[StoreOf(g)]
    BY <1>1, <2>1 DEF KeptFor
  <2>3. Makes(g, k)
    BY <2>2 DEF Tidies
  <2> QED
    BY <1>2, <2>1, <2>3, MakesKept, ContextAssumption
<1>6. at'[g].phase = "create" => Makes(g, at[g].key)'
  <2> SUFFICES ASSUME at'[g].phase = "create"
               PROVE  Makes(g, at[g].key)'
    OBVIOUS
  <2>1. at'[g] = at[g]
    BY <1>1 DEF KeptFor
  <2>2. Makes(g, at[g].key) /\ at[g].key \in Keys
    BY <2>1 DEF Tidies, ContextInv, CreateInv, Reaches
  <2> QED
    BY <1>2, <2>1, <2>2, ContextAssumption DEF Makes, UsesClones, OwnKey, KindsOf,
                                               IsMultiProtocol, Meta
<1>7. at'[g].op = "over" /\ g \in Executed =>
        hash'[Meta(g)] # NoHash /\ hash'[Meta(g)] \notin DOMAIN contexts'[StoreOf(g)]
  BY <1>1, <1>2, <1>3 DEF KeptFor, Tidies
<1> QED
  BY <1>5, <1>6, <1>7 DEF Tidies, KnownInputs, KindsOf, Meta, StoreOf

\* The key of an access is one of its own.
LEMMA ScanHashMakes ==
    ASSUME ContextTypeOK, ContextInv, NEW e \in Executions, HasScanHash(e)
    PROVE  Makes(e, ScanHash(e))
<1>1. CASE ~OnClone(e)
  BY <1>1 DEF ScanHash, Makes
<1>2. CASE OnClone(e)
  <2>1. /\ at[e].request \in DOMAIN KindsOf(e) /\ Kind(e, at[e].request) # "shared"
    BY <1>2, ExecutionTypes, LenProperties DEF OnClone, ContextInv, PlaceInv
  <2>2. CASE Kind(e, at[e].request) = "ported"
    BY <1>2, <2>1, <2>2 DEF ScanHash, CloneKey, Kind, Makes
  <2>3. CASE Kind(e, at[e].request) # "ported"
    <3>1. UsesClones(e)
      BY <2>1 DEF UsesClones, Kind
    <3> QED
      BY <1>2, <2>3, <3>1 DEF ScanHash, CloneKey, Makes
  <2> QED
    BY <2>2, <2>3
<1> QED
  BY <1>1, <1>2

\* An access makes a context under one of the keys.
LEMMA OwnAccessTidies ==
    ASSUME ContextTypeOK, ContextInv, NEW e \in Executions, Tidies(e), NEW scanId, NEW values,
           Access(e, scanId, values), Makes(e, scanId), scanId \in Keys,
           e \in Executed => at'[e].op # "over", at'[e].phase # "create"
    PROVE  Tidies(e)'
<1> DEFINE new == IF at[e].op = "read" THEN values ELSE values \cup {ThisValue(e)}
<1>1. contexts' = [contexts EXCEPT ![StoreOf(e)] = With(@, scanId, new)] /\ hash' = hash
  BY DEF Access
<1>2. contexts'[StoreOf(e)] = With(contexts[StoreOf(e)], scanId, new)
  BY <1>1, ExecutionTypes DEF ContextTypeOK
<1> HIDE DEF new
<1>3. DOMAIN contexts'[StoreOf(e)] = DOMAIN contexts[StoreOf(e)] \cup {scanId}
  BY <1>2 DEF With
<1>4. \A k : Makes(e, k)' <=> Makes(e, k)
  BY <1>1 DEF Makes, UsesClones, OwnKey, KindsOf, IsMultiProtocol, Meta
<1> QED
  BY <1>3, <1>4 DEF Tidies, KnownInputs, KindsOf, Meta, StoreOf

\* The end of an access is not that of an execution that has to remove.
LEMMA AfterAccessTidies ==
    ASSUME ContextTypeOK, NEW e \in Executions, EndExecution(e) \/ AfterAccess(e)
    PROVE  (e \in Executed => at'[e].op # "over") /\ at'[e].phase = "look"
<1>1. ASSUME NEW r, NEW op, Goto(e, r, op)
      PROVE  at'[e].phase = "look" /\ at'[e].op = op
  BY <1>1 DEF Goto, ContextTypeOK
<1>2. EndExecution(e) => (e \in Executed => at'[e].op # "over") /\ at'[e].phase = "look"
  BY <1>1 DEF EndExecution
<1>3. AfterRequest(e) => (e \in Executed => at'[e].op # "over") /\ at'[e].phase = "look"
  BY <1>1, <1>2 DEF AfterRequest
<1> QED
  BY <1>1, <1>2, <1>3 DEF AfterAccess

\* Its own steps keep to the keys, and the last one removes the context.
LEMMA OwnTidies ==
    ASSUME ContextTypeOK, ContextInv, NEW e \in Executions, Meta(e) \notin rehashed',
           Tidies(e), ContextStepOf(e)
    PROVE  Tidies(e)'
<1> USE DEF StoreOf
<1>1. hash[Meta(e)] # NoHash => hash'[Meta(e)] = hash[Meta(e)]
  BY HashKept, ExecutionTypes
<1>2. ASSUME contexts' = contexts, at[e].op # "over", e \in Executed => at'[e].op # "over",
             at'[e].phase # "create"
      PROVE  Tidies(e)'
  <2>1. \A k \in DOMAIN contexts[StoreOf(e)] : k \in Keys
    BY ExecutionTypes DEF ContextTypeOK
  <2>2. \A k \in DOMAIN contexts[StoreOf(e)] : k[2] \in KnownInputs(e) => Makes(e, k)'
    BY <1>1, <2>1, MakesKept, ContextAssumption DEF Tidies
  <2> QED
    BY <1>2, <2>2 DEF Tidies, KnownInputs, KindsOf, Meta
<1>3. CASE StopExecution(e) \/ LeaveNothing(e)
  <2>1. contexts' = contexts /\ at[e].op # "over" /\ (EndExecution(e) \/ AfterAccess(e))
    BY <1>3 DEF StopExecution, LeaveNothing
  <2> QED
    BY <1>2, <2>1, AfterAccessTidies
<1>4. CASE SeeNoHash(e) \/ ComputeHash(e)
  <2>1. /\ contexts' = contexts /\ at'[e].op = at[e].op
        /\ at'[e].phase \in {"compute", "get"}
    BY <1>4 DEF SeeNoHash, ComputeHash, ContextTypeOK
  <2>2. at[e].op # "over"
    BY <1>4 DEF SeeNoHash, ComputeHash, ContextInv, PlaceInv
  <2> QED
    BY <1>2, <2>1, <2>2
<1>5. CASE UseContext(e)
  <2>1. HasScanHash(e) /\ Access(e, ScanHash(e), contexts[StoreOf(e)][ScanHash(e)])
    BY <1>5 DEF UseContext
  <2>2. Makes(e, ScanHash(e)) /\ ScanHash(e) \in Keys
    BY <2>1, ScanHashMakes, ScanHashReaches DEF ContextInv, Reaches
  <2>3. (e \in Executed => at'[e].op # "over") /\ at'[e].phase = "look"
    BY <2>1, AfterAccessTidies DEF Access
  <2> QED
    BY <2>1, <2>2, <2>3, OwnAccessTidies
<1>6. CASE MissContext(e)
  <2>1. /\ HasScanHash(e) /\ at[e].op # "over"
        /\ at' = [at EXCEPT ![e] = [@ EXCEPT !.phase = "create", !.key = ScanHash(e)]]
        /\ UNCHANGED <<hash, contexts, given, made, rehashed>>
    BY <1>6 DEF MissContext
  <2>2. at'[e].op = at[e].op /\ at'[e].key = ScanHash(e)
    BY <2>1 DEF ContextTypeOK
  <2>3. \A k : Makes(e, k)' <=> Makes(e, k)
    BY <2>1 DEF Makes, UsesClones, OwnKey, KindsOf, IsMultiProtocol, Meta
  <2>4. Makes(e, ScanHash(e))
    BY <2>1, ScanHashMakes
  <2>5. Makes(e, at[e].key)'
    <3>1. at'[e].key = ScanHash(e) /\ hash' = hash
      BY <2>1, <2>2
    <3>2. OwnKey(e)' = OwnKey(e) /\ UsesClones(e)' = UsesClones(e)
      BY DEF UsesClones, OwnKey, KindsOf, IsMultiProtocol, Meta
    <3> QED
      BY <2>4, <3>1, <3>2 DEF Makes, KindsOf, Meta
  <2>6. at'[e].op # "over"
    BY <2>1, <2>2
  <2>7. \A k \in DOMAIN contexts'[StoreOf(e)] : k[2] \in KnownInputs(e) => Makes(e, k)'
    BY <2>1, <2>3 DEF Tidies
  <2> QED
    BY <2>5, <2>6, <2>7 DEF Tidies, KnownInputs, KindsOf, Meta
<1>7. CASE CreateContext(e)
  <2>1. at[e].phase = "create" /\ Access(e, at[e].key, {})
    BY <1>7 DEF CreateContext
  <2>2. Makes(e, at[e].key) /\ at[e].key \in Keys
    BY <2>1 DEF Tidies, ContextInv, CreateInv, Reaches
  <2>3. (e \in Executed => at'[e].op # "over") /\ at'[e].phase = "look"
    BY <2>1, AfterAccessTidies DEF Access
  <2> QED
    BY <2>1, <2>2, <2>3, OwnAccessTidies
<1>8. CASE RemoveContext(e)
  <2> DEFINE h == hash[Meta(e)]
  <2>1. /\ Goto(e, at[e].request, "over") /\ at[e].op = "remove" /\ HasScanHash(e)
        /\ hash' = hash
        /\ contexts' = [contexts EXCEPT ![StoreOf(e)] = Without(@, h)]
    BY <1>8 DEF RemoveContext
  <2>2. h # NoHash
    BY <2>1 DEF HasScanHash, OnClone, ContextInv, PlaceInv
  <2>3. contexts'[StoreOf(e)] = Without(contexts[StoreOf(e)], h)
    BY <2>1, ExecutionTypes DEF ContextTypeOK
  <2>4. DOMAIN contexts'[StoreOf(e)] = DOMAIN contexts[StoreOf(e)] \ {h}
    BY <2>3 DEF Without
  <2>5. at'[e].phase = "look"
    BY <2>1 DEF Goto, ContextTypeOK
  <2>6. \A k : Makes(e, k)' <=> Makes(e, k)
    BY <2>1 DEF Makes, UsesClones, OwnKey, KindsOf, IsMultiProtocol, Meta
  <2> QED
    BY <2>1, <2>2, <2>4, <2>5, <2>6 DEF Tidies, KnownInputs, KindsOf, Meta
<1> QED
  BY <1>3, <1>4, <1>5, <1>6, <1>7, <1>8 DEF ContextStepOf

\* For any executions of any templates: an execution that has ended leaves no
\* context behind under an input its template knows it by, unless it works
\* with clones under another key, or its hash was overwritten under it.
THEOREM ContextsAreRemoved == ContextSpec => []RemovedUnlessStrayed
<1>1. ContextInit => TidyInv
  <2> SUFFICES ASSUME ContextInit, NEW e \in Executions
               PROVE  Tidies(e)
    BY DEF TidyInv
  <2>1. DOMAIN contexts[StoreOf(e)] = {} /\ at[e].phase = "look" /\ at[e].op # "over"
    BY ExecutionTypes DEF ContextInit
  <2> QED
    BY <2>1 DEF Tidies
<1>2. ASSUME ContextTypeOK, ContextInv, TidyInv, [ContextNext]_contextVars
      PROVE  TidyInv'
  <2>1. CASE UNCHANGED contextVars
    BY <1>2, <2>1 DEF contextVars, TidyInv, Tidies, HasTwin, KnownInputs, Makes, UsesClones,
                      OwnKey, IsMultiProtocol, KindsOf, Meta, StoreOf
  <2>2. ASSUME NEW e \in Executions, ContextStepOf(e)
        PROVE  TidyInv'
    <3> SUFFICES ASSUME NEW g \in Executions, ~HasTwin(g), Meta(g) \notin rehashed'
                 PROVE  Tidies(g)'
      BY DEF TidyInv, HasTwin, KnownInputs, KindsOf, Meta
    <3>1. Meta(g) \notin rehashed
      BY <1>2, <2>2, HashKept, ExecutionTypes
    <3> QED
      BY <1>2, <2>2, <3>1, OwnTidies, OthersTidy DEF TidyInv
  <2> QED
    BY <1>2, <2>1, <2>2 DEF ContextNext
<1>3. TidyInv => RemovedUnlessStrayed
  <2> SUFFICES ASSUME NEW e \in Executions, Tidies(e), at[e].op = "over", e \in Executed,
                      ~StraysFrom(e), NEW k \in DOMAIN contexts[StoreOf(e)],
                      k[2] \in KnownInputs(e)
               PROVE  FALSE
    BY DEF TidyInv, RemovedUnlessStrayed
  <2>1. Makes(e, k) /\ k # hash[Meta(e)]
    BY DEF Tidies
  <2>2. UsesClones(e) => hash[Meta(e)] = OwnKey(e)
    BY DEF UsesClones, StraysFrom
  <2>3. CASE k = OwnKey(e) /\ UsesClones(e)
    BY <2>1, <2>2, <2>3
  <2>4. ASSUME k = <<TemplateOf[e], AtPort[InputOf[Meta(e)]]>>,
               NEW i \in DOMAIN KindsOf(e), KindsOf(e)[i] = "ported"
        PROVE  FALSE
    <3>1. UsesClones(e) /\ AtPort[InputOf[Meta(e)]] = InputOf[Meta(e)]
      BY <2>4 DEF UsesClones, StraysFrom
    <3> QED
      BY <2>1, <2>2, <2>4, <3>1 DEF OwnKey
  <2> QED
    BY <2>1, <2>3, <2>4 DEF Makes
<1> QED
  BY <1>1, <1>2, <1>3, ContextStart, ContextStep, PTL DEF ContextSpec
=============================================================================
