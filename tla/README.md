# A verification development for nuclei

nuclei runs *templates* (descriptions of requests and of what to look for in the
answers) against *targets*, many of each at a time. What is hard in it is what
happens between goroutines: caches that are read and written in separate steps,
pools whose members wait for places of the same pool, matches that stop other
work, an interrupt that takes a snapshot of everything while it runs. This
directory models those parts in TLA+, checks them with TLC, and proves the
properties that matter most with TLAPS for every size of the system.

    tlc -config HostErrorsCache_count.cfg MCHostErrorsCache.tla
    tlapm HostErrorsCacheProofs.tla

`PROJECT.json` lists the components, the runs with what each shows, a mutant of
the code for every property, the source lines behind every definition, the
hazards and the theorems.

## 1. Inventory

| Component | State | Operations | Interacts with |
|---|---|---|---|
| Engine, template spray (`pkg/core/executors.go`, `execute_options.go`, `workpool.go`) | two wait groups per scan, `index` per template, a goroutine per template and per template and target | `executeTemplateSpray`, `executeTemplateWithTargets` | resume file (marks), host error cache (asks), executers (runs) |
| Engine, host spray and self-contained (`pkg/core/executors.go`, `execute_options.go`) | the same pools, the other way round | `executeHostSpray`, `executeTemplatesOnTarget`, `executeAllSelfContained` | executers |
| Workflow engine (`pkg/core/workflow_execute.go`) | one wait group per workflow and target, a shared result | `executeWorkflow`, `runWorkflowStep`, the result callback | executers (callbacks) |
| Resume file (`pkg/types/resume.go`, `internal/runner/runner.go`, `cmd/nuclei/main.go`) | `Current` and `ResumeFrom` of every template, the file | `Compile`, `SaveResumeConfig`, the signal handler | template spray |
| Host error cache (`pkg/protocols/common/hosterrorscache`) | an ARC cache of counters with a permanent flag | `Check`, `MarkFailed`, `Close` | every protocol and the engine |
| Parallel HTTP (`pkg/protocols/http/request.go`, `httputils/spm.go`) | pool, result channel, map of results, context | `executeParallelHTTP`, `executeRaceRequest`, `executeTurboHTTP`, `StopAtFirstMatchHandler` | host error cache, interactsh, executers |
| Interactsh client (`pkg/protocols/common/interactsh`) | three caches, the `matched` flag, a mark on each event | `URL`, `RequestEvent`, polling callback, `Close` | executers, writer |
| Template executers (`pkg/tmplexec`, `pkg/scan`) | the result flag of a template, last event, results of a scan | `Execute`, `ExecuteWithResults`, `OnResult`, flow functions | protocols, writer |
| Reporting and dedupe (`pkg/reporting`), writers (`pkg/output`) | hashes on disk, statistics, the output file | `CreateIssue`, `Index`, `WriteResult`, `WriteFailure` | executers |
| Sequential HTTP (`pkg/protocols/http/request.go`, `request_generator.go`) | the generator, dynamic values, progress | `ExecuteWithResults`, `nextValue` | payload generators, host error cache, operators |
| Payload generators (`pkg/protocols/common/generators`) | positions in the payload lists | `Value`, `Total`, `Remaining` | HTTP, fuzzing |
| Template clustering (`pkg/templates/cluster.go`) | groups of templates, the event they share | `Cluster`, `ClusterTemplates`, `Execute` | engine, writer |
| Fuzzing (`pkg/fuzz`, `pkg/protocols/http/request_fuzz.go`) | the component with the payloads that are in it | `Execute`, part rules, the callback that sends | tracker, interactsh |
| Parameter frequency tracker (`pkg/fuzz/frequency`) | a cache of counters | `MarkParameter`, `IsParameterFrequent`, `UnmarkParameter` | HTTP fuzzing, interactsh |
| Template contexts (`pkg/protocols/protocols.go`, `contextargs`, `pkg/tmplexec/multiproto`) | a store of contexts per template, by the hash kept in each `MetaInput` | `GetTemplateCtx`, `AddTemplateVars`, `RemoveTemplateCtx`, `GetScanHash` | executers, protocols, host spray |
| JavaScript runtimes (`pkg/js/compiler`) | slots, a pool of runtimes with global objects | `ExecuteWithOptions` | JavaScript protocol, flow |
| Authentication provider (`pkg/authprovider`) | a secret per domain with its flag, error and values | `LookupAddr`, `GetStrategy`, `Fetch`, `PreFetchSecrets` | HTTP, the login template |
| Operators (`pkg/operators`, `eventcreator`) | the data of an event | `Execute`, `MakeDefaultResultEvent`, `CreateEvent` | protocols, executers, clusters |
| PDCP upload (`internal/pdcp`) | pipe, channel, buffer, the ID of the scan | `Write`, `autoCommit`, `uploadChunk`, `Close` | output writers, the cloud service |
| Other protocols, tag filter | position in the payloads | `ExecuteWithResults` | host error cache, executers |
| Memory guardian, hang monitor, progress | tickers and counters | callbacks of timers | everyone |
| Loader, catalogs, inputs, installer, signing, runner, SDK, JS bindings | files, configuration | I/O and wiring | start and end of a scan |

What is hard, and what makes each component correct:

- **Host error cache.** `MarkFailed` is a lookup, an increment and a store with
  nothing around them. A host must not be skipped before it failed often enough,
  and lost updates must not keep it from being skipped in the end.
- **Template spray and resume.** The file records which indices are in flight,
  and the next session takes every smaller index for processed. No target may be
  left out of a scan that was interrupted and resumed. The pools nest, so the
  scan must not wait on itself.
- **Workflows.** A step holds a place in the wait group while it waits for
  places for its subtemplates. Some step must always be able to go on, and
  the workflow must return only when nothing it started runs any more.
- **Parallel HTTP.** A result channel that is closed while goroutines may send,
  a context that serves matches and unresponsive hosts alike, early returns.
  No send after the close, one report per first match, no error lost in silence.
- **Interactsh.** An interaction and its request event come in either order, and
  each looks into one cache and stores into another. No match may be lost or
  written twice, and the scan must be told of it.
- **Host spray, executers, reporting.** Targets that return early while their
  templates go on, a result flag that is read while they report, an index of
  issues that is asked and filled in two steps. A finished scan has told of every
  run, once, and no issue may be left out because two runs take each other for
  the first.
- **Tracker.** The steps of the host error cache with a removal: what a result
  unmarked must not be skipped for marks from before.
- **Template contexts.** A key that templates share and compute without a lock, clones
  that have another. What one request made is passed on to the next, nothing comes from
  another template or target, and no context stays behind.
- **JavaScript runtimes.** A caller leaves at its deadline and its script goes on.
  No runtime may serve two scripts, and no call may wait for ever for a slot.
- **Dynamic secrets.** A flag that is set early and read without the mutex, copies
  that share some of their fields. One login per entry, and no placeholder sent
  after the secret was fetched.
- **Request generator and iterators.** Positions that are moved from two places,
  lists of different lengths, requests that are sent once. Every combination, in
  order, once.
- **Fuzzing.** One component for all keys of a payload, and an error that is to end
  everything. One key per request, what was fuzzed before it put back, and nothing after a
  stop.
- **Clustering and operators.** One response, and one set of data, for several
  templates. Nothing may be found or missed because of it.
- **Upload of results.** A pipe, a channel and a buffer between three goroutines, and
  uploads that fail. Every result goes up, in order, once, into one scan.

## 2. What is modelled, and how

### HostErrorsCache
`pkg/protocols/common/hosterrorscache/hosterrorscache.go`. `cache` is the ARC
cache, from keys to identities of `*cacheItem`; `errors` and `permanent` are the
fields of the items. A worker goes from `Check` to its request, to `MarkFailed`,
and through the separate steps `Lookup`, `CreateItem` or `AddError`, `StoreItem`.
`held` is the pointer it carries between them, so that two workers may hold one
item, and `StoreItem` may bring back an item that was evicted or replaced.
`CheckError` tells by the kind of a failure whether it counts. The victim of an
eviction is left open (`CacheSet`). Counts saturate at `MaxHostError`, the only
number they are compared with. `counted` and `reported` are history.

### TemplateSpray and ScanPlan
`executeTemplateSpray` and `executeTemplateWithTargets` with
`pkg/types/resume.go`, `SaveResumeConfig` and the signal handler of
`cmd/nuclei/main.go`. A template goes through `Admit` (the check of the context
before the wait for the pool), `StartTemplate`, then for each target `Mark` and
`PassOver` or `Spawn`, then `EndIterate` and `CompleteTemplate`. A target's
goroutine is a record in `tasks`: `Execute`, then `EndTask`, which also removes
its mark. When the scan is cancelled the loop over the templates returns without the wait for
those it started (`LeaveScan`), and they go on behind it; otherwise `Finish` comes
after that wait. `Interrupt` and `SaveResumeConfig` are separate steps, because all
goroutines run on between them; `Resume` starts a session from
`Compile(saved)`. `SkipOnResume` is the test against `SkipUnder`.
Note that the entry of a template that is passed over for its host keeps the
mark and does not advance `index`, as in the code.

`ScanPlan` is what the engine promises: a set of pairs of template and target
of which every one is settled once the scan has begun with it, that does not shrink in
any other way, and a scan that ends only when it is empty unless it was told to stop.
A scan that was stopped may end while pairs it has begun with are being settled, but
nothing is begun after the end. `TemplateSpray` implements it under the mapping at the
end of the module, where a pair is begun when the loop over the targets has come to it.

### Workflow
`executeWorkflow` and `runWorkflowStep`. `procs` are the running steps, one per
place of the wait group; `sem` is its counter. `Slots` is the adjustment the code
makes for one thread. `StartRoot` is the loop, `Match` the callback of a step
with matchers (it may fire several times, `MaxEvents` bounds it), `EndExecute` the
end of its executers, `StartSub` the start of one subtemplate, which waits for a
place, `EndStep` the release, `Return` the end of the wait.

### ParallelHTTP
The three loops of `request.go` over `StopAtFirstMatchHandler`. `variant` and
`stop` are chosen at the start, so one run covers all combinations. `Loop` is the
goroutine of the execution (`Break`, `Fail`, `GiveUp`, `Make`, `Acquire`, `Wait`,
`Return`), `Goroutine(r)` that of a request (the checks before it, a match and
the stop it triggers as two steps, its end, and the `select` that sends or drops
the result), `Run` the receiver. `OtherTemplates` is the environment: it may make
any host unresponsive or responsive at any time, which is what the host error
cache, shared by the whole scan and subject to eviction, can do.

### Interactsh
`pkg/protocols/common/interactsh/interactsh.go`. The poller and each request
event are actors; every access to a cache is a step: `LookupRequest`,
`LookupWaiting`, `Keep`, `CheckMatched` on one side, `CheckStop`, `TakeWaiting`,
`PutRequest`, `TakeNext`, `NoneMatched` on the other, and `Match`, `WriteResult`,
`StoreMatched`, `FlagTemplate` for `processInteractionForRequest` in either.
`Forget` is expiry or eviction, `Close` the end of the scan.

A unique ID may have several events. Each response of a redirect chain makes one with
the URLs of the request (`http/request.go:903-997`), and with request conditions the later
requests of an execution have the URLs of the earlier ones (`http/request.go:520-531`,
`httputils/misc.go:15`). One goroutine registers them one after another: `Enter` waits
for the events of the execution before it (`Earlier`). The last event replaces the others
in the cache, and the poller works on the one that it read (`holder`). So an interaction has
the set of events with which the operators match (`matches`), and a hit is a pair of an ID
and an event.

Five history variables say who worked at the same time, what was dropped and where
another event of the ID got in between (`diverted`), so that the properties can name exactly
the circumstances under which the client loses or repeats a result.

### HostSpray
`ExecuteScanWithOpts` with host spray. `engine` is where the scan is, `iter` and
`host` the loop of `executeHostSpray` and its goroutines, `tpos` the loop of
`executeTemplatesOnTarget`. A run (`exec`) is one `TemplateExecuter.Execute`; its
events are taken one at a time, because `LogEvent` holds the lock of the scan
context around `OnResult`. `NoResult`, `InternalMatch` and `Result` are the three
ways through that callback; `LookUp`, `Store`, `FileIssue` and `WriteOut` are
`WriteResult` down to the storage of `dedupe`, each a step, as other runs go on
between them. `FinishRun` is the end of `Execute` with the failure it writes and
the merge of its outcome. `LeaveHost` is the early return on cancellation, which
waits for nobody. The module implements `ScanPlan`, too (`HostPlan`): what goes on
behind a scan that was left settles pairs the scan had begun with.

### FrequencyTracker
The three methods in their single cache calls. `GetCounter` and `LoadCounter` are
`IsParameterFrequent`; `Mark`, `AddOne` and `SetCounter` are `MarkParameter`; `Unmark`
removes. A goroutine is one that fuzzes, or the poller when it has an interaction
of a request that was deferred to it (`Interaction`). `since` and `outdated` are
history: the marks since the last removal, and the counters that others held then.

### TemplateContext
The engines of a template with several requests and of one with a single request, seen as
accesses to contexts. `hash` is that of each `MetaInput`, `contexts` a store per template.
An execution is at an operation (`args`, `read`, `run`, `extract`, `remove`), each of which
is one access: `SeeNoHash` and `ComputeHash` if there is no hash (`GetScanHash`), then
`UseContext`, or `MissContext` and `CreateContext` (`GetTemplateCtx`). `Kinds` says what a
request works with: the `MetaInput` of the execution (`shared`), a clone, which starts
without a hash (`cloned`), or a clone moved to the port of the template (`ported`; this also stands
for inputs that `InputHelper` transforms). What a run adds (`AddTemplateVars`, and the
`Merge` of javascript) goes to the context of the `MetaInput` it works with, what the engine
hands to the next request comes from that of the execution (`Astray` in the properties).
`RemoveContext` is the deferred end of
`Execute`, which `ExecuteWithResults` (workflows) lacks. The check of a hash that is there
and its return are one step, as are the accesses of one callback; a torn read of the
string is left out. `made` and `rehashed` are history.

### ScriptPool
`call` is the goroutine that waits in `ExecuteWithOptions`, `script` the one it
started. `EnterPooled` takes a slot and a runtime of the pool or a new one (a
`sync.Pool` may forget what it has), `EnterEphemeral` a new one behind the other
slots. `Deadline` ends the wait of the caller only. `globals` are the arguments in
the global object of a runtime.

### DynamicAuth
`CheckFetched` reads the flag without the mutex, `LockFetch`, `RecheckFetched`,
`Login`, `ResolveField` and `UnlockFetch` are `Fetch` and its callback. `file.go` copies
the structure for every domain: each copy has its own flag (`fetched`), all of
them one mutex and, if the values are in slices and not strings (`shared`), one
set of values.

### RequestGenerator
`RamValue`, `ForkValue` and `BombValue` are the iterators, as functions of their
state; a round of the last one (`BombRound`) goes through the lists by a recursive
function, list by list (`BombList`). `FindNext` and `NextValue` (`TakeValues`, `ThisRound`, `NewRound`, `HandOut`) are those of
the request generator, with both places that move the iterator on. The actions are the loop of
`ExecuteWithResults`: `NextRequest`, one execution per dynamic value
(`ExecuteRequest`), the ways out of it (`SkipFurther`, `MakeFails`). `Expected` says
without iterators what has to be sent: combination by combination (`DueBefore`), and
the requests in order with each (`Due`). `Combination` is what the k-th one is: for
the cluster bomb the digits of k in the mixed base of the lengths.

### FuzzRule
`executeAllFuzzingRules` down to `execWithInput`. `rule`, `component`, `round`, `payload`
and `key` are the five nested loops. `Restore` sets a key to the string of its value, as
`executePartComponentOnValues` does, and what that amounts to depends on the value
(`Value`): strings, integers and booleans are back, a number with a fraction cannot be
set (the payload is given up), null, repeated parameters and escaped path segments
become another value, and in an array the last element becomes the string of the whole
array (`SetParsedValue`). `changed` has the keys of the clone at hand whose value is not
the first one. Arrays are shared by all clones of a component, as `KV.Clone` copies the
map only: `worn` has the keys whose array was fuzzed, and they are in every later clone
until the next rule parses its components anew. `Send`, `SendLast` and `Refuse` are the
callback that sends, and `StopAll` what becomes of its answer: for key-value pairs in
single mode, nothing (finding 6).

### Operators and Clustering
`Operators` has no state of its own. `Execute` is that of a template's operators on
the data of an event: extractors first, whose values go into the data, then
matchers; `HasResult` is the boolean it returns, `NilResult` that it returns nothing.
`MakesResult` is `MakeDefaultResultEvent`, `CreatesResult` adds what `CreateEvent` does
with dynamic values, `MatchesInternally` the check of `OnResult`, and so `ReportsAlone`
is what a template reports that runs on its own.

`Clustering` has `Split` and `AddClusters`, which group the list, `ExecuteAlone` for a
group of one, and the executer of a cluster: `SendRequest` makes the event with the
results of the first template in it, `TakeResult` and `LeaveResult` evaluate one
template after the other, `PassOver` is a template that has no operators. They share
the event: `data` is what they read and extract into, `result` the template whose
results are in it. A failure is written of that template, as in `WriteFailure`.

### UploadWriter
`internal/pdcp/writer.go`. A line goes from the pipe (`WriteLine`) through the channel
(`ReadLine`) into the buffer (`TakeLine`) of the loop of `autoCommit`, which uploads it
by its ticker (`Flush`), when a line does not fit (`DropLine`) and when it is cancelled
(`Finish`). An upload succeeds, fails, or is taken by the server without an answer
(`UploadUnheard`). `CancelCommit` and `ClosePipe` are the two halves of `Close`: lines in
the channel or the pipe may stay there. `written`, `uploaded`, `dropped`, `server`,
`scans`, `unheard` and `flushed` are history.

`MCComponents` runs these and the workflow of two levels side by side, ten in all. They share no state, so a behaviour
is one of a single component, chosen at the start (`part`), and the others keep
their initial state; the state space is the sum of theirs and not the product.

## 3. The runs

| Run | Instance | Shows | Distinct states |
|---|---|---|---|
| `hosts_count` | 2 workers, 2 hosts, room for one, threshold 2 | no host is skipped early, and lost updates only delay the skipping | 470,840 |
| `hosts_permanent` | 1 host | *violated*: a permanent error does not make the host skipped | |
| `spray_scan` | 2 templates, 2 targets, one template at a time and two targets, 2 sessions, host errors on | nothing is forgotten but in the two known ways, every session ends, the scan implements `ScanPlan` | 288,991 |
| `spray_gap` | 1 template, 2 targets, 2 sessions | *violated*: a target skipped as processed was processed | |
| `workflow_nested` | three levels, one thread | *violated*: all places are held by steps that wait | |
| `http_match` | 3 requests to 2 hosts, 2 places, 2 results kept, all variants, with and without stop | no send on a closed channel, one report per first match, errors are answered, nothing is lost, everything ends | 402,953 |
| `http_found` | 2 requests | *violated*: `FoundFirstMatch` without a match | |
| `interactsh_match` | 3 events of one template and host, two of them one after the other with a shared ID, 2 interactions, one forgotten entry | matches are reported, written once, stop the template, and are told to the scan, but for named races | 2,650,257 |
| `components` | host spray: 2 targets, 2 templates, 1 self-contained one; tracker: 2 goroutines, 2 parameters, room for one, 3 marks; 3 scripts with one slot of each kind; 2 requests to 2 entries with 2 fields; 168 plans of payloads and requests; 31 lists of rules; 3 lists of templates and 3 responses; 5 lines of sizes 1 to 3 for uploads of 3, one answer lost; a workflow of 7 steps in two levels with one thread; 4 executions of 3 templates on 2 targets, two at a time | the promises of the ten components above | 544,889 |
| `fuzz_stops` | 1 rule, 2 payloads, 2 keys | *violated*: after the match to stop at more is sent | |
| `interactsh_lost` | 1 event, 1 interaction | *violated*: an interaction and its event wait for each other | |
| `upload_drop` | 2 lines of size 2, uploads of 3 | *violated*: a line is neither uploaded nor on its way | |

The bounds are the least at which each case of interest occurs. Two workers
suffice for every lost update of the cache, and two hosts with room for one for
every eviction; threshold 2 separates "counted" from "counted once". Two targets
are the least for which an index can be skipped because a later one is in
flight, and one place for two templates makes one of them wait and be saved
unknown. In `components`, two targets give two equal results of one template, and
two slots for targets with one for templates make a template wait for a slot
when the scan is cancelled; the events of a run are bounded so that either one
template has two on each target or the others have one (`MCEventBounds`). Two
goroutines and three marks suffice for a counter that is stored again after its
removal. The plans have every kind of attack with up to three lists of different
lengths, empty ones among them, and every pattern of `@once` for up to two
requests. The rules have an array or a null beside a value of every kind, two rounds and
two components with arrays, and two in a row. The lists of templates have groups of
two protocols and two keys, a template that stays alone, one without operators, and
every combination of matchers and extractors that `Execute` tells apart, internal and
excluded ones among them; the third list has templates that read what another one
extracts, which is the case `ClusterTransparent` excludes. The lines fill an upload
exactly, overfill it, and fill it alone. Two multi-protocol templates on one target are the
least that can both see it without a hash. A template on two targets, of which the second
is the first at its port, makes contexts of two targets meet; a javascript template on the
target of another one comes to its context with a clone. The workflow has a step with matchers and one
with subtemplates, and two slots.

Three requests with two places leave one in the loop while one matches
and one fails. Two interactions are the least of which one comes before its event and one
after it, or both to the ID that two events share. All
properties that are safety over every size are the proofs' business (below).
Deadlock checking is off where the modelled part comes to an end by itself;
the liveness properties say that it does so only when it should. Only the host
error cache runs for ever.

Every property has a mutant of the code in its module (marked `Mutant:`) that
breaks it; the mutated definitions are used nowhere else.

### Fairness
- `TemplateSpray!FairSpec`: weak fairness of each template's goroutine, of its
  targets' goroutines, of the end (with or without its wait) and of the signal handler. Goroutines are
  scheduled, and every request has a timeout, so executers end. Nothing is
  assumed of `Interrupt`, `Cancel`, `Resume`.
- `ParallelHTTP!FairSpec`: weak fairness of the loop, the receiver and each
  goroutine, for the same reasons; none of `OtherTemplates`. A goroutine matches
  at most once, so its request cannot go on for ever.
- `MCComponents!Spec`, for workflows: some goroutine that can go on does; the tree is finite and
  the callbacks bounded.
- `MCComponents!Spec`: weak fairness of host spray as a whole (some goroutine goes on;
  requests have timeouts and the events of a run are finitely many), and of the
  deadline of every script (the timer of its context fires). No script is assumed
  to end.
- `EventuallySkipped` needs no fairness: it assumes that failures of the host are
  counted again and again and evictions of the host stop.

## 4. What the runs found

1. **A permanent error is forgotten** (`hosts_permanent`). In `MarkFailed`,
   `existingCacheItem, err := ...GetIFPresent` reuses the parameter `err`; when
   the flag `isPermanentErr` is computed the error is the cache's *not found*.
   The comment says that permanent errors are always permanent.
2. **The resume file has gaps** (`spray_gap`). When no target of a started
   template is in flight at the moment of the snapshot, `SkipUnder` stays at its
   greatest value, and the next session takes all targets for processed.
3. **Nested workflows can wait for themselves** (`workflow_nested`). The extra
   place for "at least one subtemplate to go through" does not help when a
   subtemplate has subtemplates.
4. **`FoundFirstMatch` without a match** (`http_found`). `Cancel`, called for an
   unresponsive host, uses the context that means "matched" when stop at first
   match is set; the execution then drops its errors.
5. **An interaction and its request miss each other** (`interactsh_lost`). The
   poller looks for the event before it stores the interaction, the request
   looks for the interaction before it stores the event.
6. **Key-value fuzzing does not stop** (`fuzz_stops`). `executePartComponentOnKV` answers
   the error that ends all rules with `return err`, where `err` is the nil of
   `Rebuild`. The other pairs and rules are sent after the match to stop at.
7. **A full buffer loses a result** (`upload_drop`). When the next line would make the
   buffer of the upload writer too large, the buffer is uploaded and the line is
   dropped.

`components` names more cases in its properties, which hold but for them.
A placeholder goes out while another request is fetching the secret
(`RawOnlyWhileFetching`): `fetched` is set before the values are put in, and
`GetStrategy` reads it without the mutex. A battering ram of a single value is
asked for a second one twice when every request is `@once`, and then indexes a
list behind the last (`SentAsPlanned`).

Three more are about contexts. Host spray gives the templates of a target one `MetaInput`
(`executors.go:190`), and `GetScanHash` checks and writes its hash without
synchronisation: "we compute hash only once" (`metainput.go:161`) holds for one template,
but when two see no hash, the second replaces the one under which the first has put its
values, and the next request of the first starts without them (`rehashed` in
`PassedOnUnlessAstray`). A javascript or network request adds its values under the hash of the
clone it works on (`js.go:321`, `js.go:589`, `network/request.go:390`), but the next request
is given what is under the hash of the original (`multi.go:113`): when the clone was moved to a
port, or the hash is that of another template, these values are not "passed to next protocol
in queue" (`multi.go:100`). `PassedOnUnlessAstray` says that exactly they are missing
(`Astray`), and that everything else is there. And a javascript or network request works on a clone at the port of its
template, whose context has a hash of its own, while `Execute` removes what is under the
hash of the original, although "it is essential to remove template context"
(`exec.go:128`): the context stays until the process ends (`StraysFrom` in
`RemovedUnlessStrayed`).

After a request for one key "the value must be called again so as to reset the body to
its original state" (`component.go:39`), and what is set is the string of the value
(`parts.go:77`). A null comes back as an empty string, and the last element of an array
as the string of all of it (`value.go:84-111`), in the array of the component itself, so
that the requests for other keys, payloads and rounds have it too. `OnePointAtATime`
names these values (`LeftBehind`); all others are as they were in every request.

A cluster and a template alone differ in five ways (`ClusterTransparent`). A match of
internal matchers only, which a template alone hides, is written. A template that
extracts something besides dynamic values and has no match is reported alone and lost
in a cluster, which lacks the step of `CreateEvent` that sets the dynamic values aside.
An AND that fails gets no failure with `-ms`, because a result comes with the *false*
(`cluster.go:259` asks for none). With `-ms`, a template that does not match after one
that did is told of by the other's results. And what one template extracts is in
the data the next one reads, under its name; the property is about templates of which
this is not so (`Apart`).

Three more were met and have no run of their own. The events that share an ID, the
responses of a redirect chain among them, are registered under it one after another, and
`SetWithExpire` (`interactsh.go:358`) replaces the event that waited: an interaction that
matches the first of them only is compared with the last, and what had waited is gone when
another event matched it (`interactsh.go:353`). `HitReported` promises nothing of these
(`diverted`), and everything of events that nobody got in front of. A host that is passed over
leaves `index` unchanged (`executors.go:111`), so the indices of the template are
no positions any more; `NothingForgotten` excludes these templates by name
(`drifted`). And `Check` is not sticky: when the item of a skipped host is evicted
its count starts anew, which is why `EventuallySkipped` has its premise.

## 5. What is proved

Liveness under fairness is out of the prover's reach and is only model-checked,
and with it the fairness of `ScanPlan` in `ImplementsPlan`.

**HostErrorsCacheProofs**, from `CacheAssumption` (threshold and capacity are
positive, nil is no item).
`TypeCorrect`; `CountingInvariant`; `NeverEarly`, that is
`Spec => []NeverSkippedEarly` for any number of workers, hosts and items.
`NeverSkippedEarly` speaks of the cached item only, and the item may be replaced
by one a worker holds. `CountingInv` therefore says that an item is reachable
for one host only (`NoSharedItem`) and that every reachable item counts at most the
host's own failures (`CountsAreReal`). With that, storing any held item is harmless.

**TemplateSprayProofs**, from `SprayAssumption`.
`SprayTypes`; `ResumeInvariant`; `NothingIsForgotten`, that is
`Spec => []NothingForgotten` for any number of templates, targets, places and
sessions. The invariant `ResumeInv` has, per template that has neither a gap nor
drifted, what its goroutine has left behind (`ProgressOf`: every position before
the current one is settled or has a goroutine), that every goroutine has its mark
(`TasksOf`), and that an entry of the file claims only what is settled
(`EntryIsTrue`). The step that matters is `SaveResumeConfig`: from the first two the
least mark is below everything unsettled, unless there is no mark at all, and
that is the gap.

The refinement is in the same module. `ScanKeepsThePlan`, that is
`Spec => Plan!Safe`: the detailed scan implements the abstract plan but for
fairness. A cancelled scan leaves templates behind that go on settling pairs, so the
proof also needs that these have been begun (`TasksArePast`) and that no loop comes to
another target once the scan is cancelled, which it is when it is left. `ResumeInv` is of no use for the templates whose indices drifted, and
the plan has no exception for them; but in a first session nothing is taken for
processed, so `FirstSession` (`FirstSessionInvariant`) can follow positions
instead of indices, and that is all the plan asks: a scan that was interrupted has
been stopped.

**WorkflowProofs**, from `WorkflowAssumption` and `TwoLevels` (subtemplates have
none themselves). `TwoLevelInvariant`; `TwoLevelsGoThrough`, that is
`SubtemplatesGoThrough`; `NothingAfterReturn`, that is `ReturnsWhenDone`. At most
one step has subtemplates to start, the root step in hand, and there are at
least two places. The premise is necessary: `workflow_nested`.

**ParallelHTTPProofs**, from `ParallelAssumption`. `HTTPInvariant`, and from it
`NothingIsSentAfterClose` (`NoSendAfterClose`), `OneMatchIsReported`
(`MatchReported`), `SomeErrorIsAnswered` (`ErrorsAnswered`) and `NothingIsLost`
(`NothingLost`), for any number of requests, hosts, places and kept results.
`HTTPInv` has a part for each: `LoopInv` (where the loop is tells whether the
channel is closed; from then on no goroutine is left, and requests the loop has
not reached never had one), `StopInv` (before the execution returns, its context is
done only for a match or an unresponsive host), `ResultInv` (the first error finds
room among the results) and `LosslessInv` (as long as nothing disturbs the
execution, the outcome of a released goroutine is in the channel or was received).

**InteractshProofs**, from `InteractshAssumption` (the events of a unique ID are of one
template and host, and come one after another; an event has an ID once). `InteractshInvariant`, `EventsAreWrittenOnce` (`WrittenOnce`),
`TemplatesStopAtFirstMatch` (`StopsAtFirstMatch`), `CloseTellsTheScan` (`CloseTells`)
and `HitsAreReported` (`HitReported`), for any number of events, URLs, interactions and
dropped entries.
`PlaceInv` says where each actor can be with what in hand, `HolderInv` that the event the
poller has in hand is one of the ID of its interaction. `WriteInv` says that an
event that was written is marked, or its writer is about to mark it: a second
writer must have been past the check by then, so the two had it in hand together.
`FlagInv` is the same argument one level up, for templates and their hosts: what
was written is recorded, dropped or about to be recorded, and whoever found the
template unmatched and is still under way when it is recorded has met the one who
records it. `HitInv` follows a hit of an event (`Track`): it is with the poller, waits in the
cache for an event that has not come to this ID yet, or is in the event's own hand; and an
event that went past an ID is what is found under it, or has been told. `diverted` is the
step by which another event of the ID breaks this. `StepKinds` sorts the seventeen actions into the six kinds these
arguments tell apart.

**HostSprayProofs**, from `HostSprayAssumption`: `HostTypes`, `HostSprayKeepsThePlan`,
`LateStartsAreFew`, `EveryRunHasAStatus`, `NoIssueIsLost` and
`ScanReturnsWhatRunsTold`, for any number of targets, templates and slots. The
inductive parts: `Control` (types, and what each goroutine's place says of the runs
behind it), `Ending` (without a cancellation, the runs are over when the strategy is), `LateOnce` (a late start was waiting for its slot when
the scan was cancelled), `FailureOfEveryRun`, `Issues` (a hash that is stored was
filed or its run is about to file it) and `Results`.

**ComponentProofs**, from the assumptions on the constants of its modules:
`ArgumentsAreIsolated` (`RuntimesApart`: a runtime is in the pool or with one script,
whose arguments are the only ones in it), `LoginsAreSingle` and `RawWhileFetching`
(`LoginGuarded`: whoever is in `Fetch` has the mutex, an entry was logged in for if
and only if its flag is set), `SkippedForNewMarks` (`FreqBehind`: no counter that was
not outdated is ahead of the marks since the removal, and no counter is shared by
two parameters), `OneKeyIsFuzzed` and `StopEndsValueRules` (`FuzzInv`: `CloneAtHandInv`
says of every key but the one at hand that is not as it was that it stays so, by its
kind and what was tried, and `WornInv` the same of the arrays, from round to round). The assumptions that a
secret has an entry and a target a parameter only make their initial values
exist.

`EveryLineAccounted` (`UploadAccounted`), for any number, sizes and order of results:
`UploadInv` says that what was written and not dropped is found, in order, in the
server's scan, the request under way, the buffer, the channel and the pipe, and that the
server has nothing else but what it took without being heard.

`ClustersAreTransparent` (`ClusterTransparent`), for any lists of templates, operators
and responses. `ClusterInv` has a part for each stage: `SplitInv` (a template that was met is
on its own or in the group of its key, groups in the order of the list), `ExecuterInv` (a
template is in one executer at most), `EventInv` (the shared data differs from the response
only under names that members before extracted, and the results in the event are those
of such a member) and `OutcomeInv` (whoever is no longer waiting was told of as it
is alone). From `EventInv` a member that reads apart finds what it would find alone
(`SameAsAlone`), which rests on what the operators depend on (`SameExtracts`, `SameResult`).

`ContextsKeptApart` (`NoForeignValues`), `ValuesArePassedOn` (`PassedOnUnlessAstray`),
`ContextsAreRemoved` (`RemovedUnlessStrayed`) and `ContextTypes`, for any number of
executions, templates, targets and requests. `ContextInv` says that every key an execution
comes to names an input it is known by, whichever template computed the hash (`HashInv`,
`CreateInv`), and that a value is only under such keys (`ContextsInv`). `CarryInv` is
about an execution whose hash was not overwritten and whose template runs on this input
once (`Sole`): from its first access on there is a context under the hash with exactly what
was made and is not astray, and nobody else can replace or remove that; `CloneInv` says that
what a clone added is under the key of that clone and no other. `TidyInv` says that it makes contexts under few keys,
and that the one under the hash is gone at the end.

**GeneratorProofs**, from `PlanAssumption`. `AllSentAsPlanned` (`SentAsPlanned`) and
`AllRequestsCounted` (`ProgressAccounted`), for any number of requests and any number and
lengths of payload lists, empty ones too. What the generator hands out is computed, so this is
induction over positions and lists. The theorems of the library for it are out of reach
(they take an operator), but not its fact that `<` is well-founded: `LeastNumber` takes the least
element of a set of numbers, `UpTo` goes by it from each number to the next, and `Recursion`
says that a recursive function is defined by its value at 0 and its step.
`IteratorInv` says what the place of an iterator has to do with the number of combinations it gave:
`RamInv` for the lists one after the other, `ForkInv` for all in step, and `Waits` for the cluster
bomb, whose lists hold the digits of that number. `TriesOf` is the reason that one carries over
any number of digits: a round that is begun again has set everything up to list `msb` to its
start (`Anew`), and one of the rounds ends with the next digits (`Gave`). `Ready` is the
generator between two values: it holds combination `c`, comes to request `i`, has marked
the @once requests it handed out, and handed out what is due before. `SentInv` is the loop
around it, `CountInv` what was counted so far; both were checked by TLC on small plans first.

`HTTPTypes`, `InteractshTypes` and `WorkflowTypes` state the type invariants of the other
modules. Those of interactsh, workflows, host spray and contexts are left to the proofs.

Only model-checked: `EventuallySkipped`, `SessionEnds`, `Returns`, `Settles`,
`HostScanEnds` and `EveryCallReturns` (liveness), and the fairness of `ImplementsPlan`.
Every safety property of a passing run has a theorem.

## 6. What is not modelled

`PROJECT.json` gives every component its reason. In short: network, file and
browser I/O, parsing and evaluation of text, cryptography, formatting and
wiring. In the modelled components the following is left out.

- *Host error cache*: verbose logging and the statistics of `Close`.
- *Template spray*: the callback path, resizing of the pools, the separate pool
  for headless templates, which is another instance of the same pool.
- *Workflow*: values of extractors, names of matchers, the cookie jar, progress.
  A callback that comes after its execution returned is not allowed in the model.
- *Parallel HTTP*: the making of requests and `executeRequest`, which is here an
  interval with at most one match and one outcome; resizing of the pool.
- *Interactsh*: `URL` with its `Once`, the markers, debug output, fuzzing counts.
- *Host spray*: the callback path, headless templates, resizing. Workflows as templates
  of a target are the business of `Workflow`.
- *Executers*: what the generic, multi-protocol and flow engines do to produce events. The
  generic engine runs a single request (`pkg/tmplexec/exec.go:51`), so that its stop at the first match
  cuts nothing off; the flow engine is not modelled.
- *Template contexts*: the flow engine, whose protocols may run in parallel; the values
  themselves, the payloads of a request and the several ports of a network request, each
  of which comes to the same contexts again.
- *Reporting*: allow and deny lists, statistics, `CloseIssue`, which no scan calls.
- *Sequential HTTP*: `executeRequest`, signatures, the interactsh branch.
- *Fuzzing*: analysis of the request, the analyzers, evaluation of payloads.
- *Operators*: what matches and what is extracted, which is data; several matches of one
  extractor; an extractor that reads what another one of the same template extracted.
- *Clustering*: the members' metadata, `ExecuteWithResults` (the same loop without
  writing), requests with more than one response.
- *Upload*: the building of requests, the name of a scan, an answer without an ID, and
  the branch for a closed channel, which `autoCommit` never reaches: the channel is closed
  after the pipe, and that after `autoCommit` has ended.

The share of the implementation the modules cover is small, because most of the
repository is of the first kind: protocol clients and their bindings for scripts,
flags and configuration, documentation generated from the source, integration
tests, input formats, exporters. Their operations are I/O or conversions of data;
a model of them would repeat the code.

## 7. State of the plan

Done, in this order: host error cache, template spray with the resume file and
its abstract plan, workflow, parallel HTTP, interactsh, and the safety theorems of
all five; then host spray with executers, reporting and dedupe, the frequency
tracker, the runtimes of scripts, dynamic secrets, request generator and
iterators, fuzzing rules, clusters with the operators, the upload of results, and the contexts of
multi-protocol templates; and the
safety theorems of these.

Left, most important first:

1. The engines below the executer (flow with its parallel protocols, the events of the
   multi-protocol engine) in place of the free sequence of events of `HostSpray`.
2. Composition of `TemplateSpray` with `HostErrorsCache` in place of the free
   choice of `PassOver`, if its state space allows.
3. `URL` of the interactsh client with its `Once`.
