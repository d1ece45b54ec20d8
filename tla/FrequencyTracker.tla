--------------------------- MODULE FrequencyTracker ---------------------------
(***************************************************************************)
(* The tracker of uninteresting parameters (pkg/fuzz/frequency) as fuzzing *)
(* uses it: a parameter is looked up before a request with it is sent, it  *)
(* is marked for every response that does not match and unmarked for one   *)
(* that does, by the goroutine of the request or, for requests with an     *)
(* interactsh URL, by the poller.                                          *)
(*                                                                         *)
(* The tracker keeps a counter per parameter in a cache.  Every method is  *)
(* a few calls of the cache with nothing around them, so that a goroutine  *)
(* may hold a counter that is no longer the cached one.                    *)
(***************************************************************************)
EXTENDS Naturals, FiniteSets

CONSTANTS Fuzzers,        \* goroutines that fuzz one target with one template
          Params,         \* parameters of the target
          FreqThreshold,  \* paramOccurenceThreshold
          MaxTrackCount,  \* parameters the cache has room for
          MaxMarks        \* bound: calls of MarkParameter

ASSUME FreqAssumption ==
    Params # {} /\ FreqThreshold \in Nat /\ MaxTrackCount \in Nat /\ MaxMarks \in Nat

VARIABLES fuzzer,    \* goroutine -> where it is
          param,     \* goroutine -> parameter it is about
          counter,   \* goroutine -> counter it holds, 0 for none
          tracked,   \* parameter -> its cached counter, 0 for none
          count,     \* counter -> value
          marks,     \* calls of MarkParameter; the counter one of them makes has its number
          deferred,  \* parameters with a request whose interactions the poller reports
          since,     \* history: parameter -> marks since it was last unmarked
          outdated   \* history: counters another goroutine held when the parameter was unmarked

freqVars == <<fuzzer, param, counter, tracked, count, marks, deferred, since, outdated>>

FreqTypeOK ==
    /\ fuzzer \in [Fuzzers -> {"idle", "check", "load", "skipped", "sent", "add", "set"}]
    /\ param \in [Fuzzers -> Params]
    /\ counter \in [Fuzzers -> 0..MaxMarks]
    /\ tracked \in [Params -> 0..MaxMarks]
    /\ count \in [1..MaxMarks -> Nat]
    /\ marks \in 0..MaxMarks
    /\ deferred \subseteq Params
    /\ since \in [Params -> Nat]
    /\ outdated \subseteq 1..MaxMarks

FreqInit ==
    /\ fuzzer = [w \in Fuzzers |-> "idle"]
    /\ param = [w \in Fuzzers |-> CHOOSE p \in Params : TRUE]
    /\ counter = [w \in Fuzzers |-> 0]
    /\ tracked = [p \in Params |-> 0]
    /\ count = [i \in 1..MaxMarks |-> 0]
    /\ marks = 0
    /\ deferred = {}
    /\ since = [p \in Params |-> 0]
    /\ outdated = {}

Resting(w) == fuzzer[w] \in {"idle", "skipped"}

\* execWithInput: the next parameter of the rule.
PickParam(w, p) ==
    /\ Resting(w)
    /\ fuzzer' = [fuzzer EXCEPT ![w] = "check"]
    /\ param' = [param EXCEPT ![w] = p]
    /\ UNCHANGED <<counter, tracked, count, marks, deferred, since, outdated>>

\* The poller has an interaction of a request with the parameter.
Interaction(w, p) ==
    /\ Resting(w) /\ p \in deferred
    /\ fuzzer' = [fuzzer EXCEPT ![w] = "sent"]
    /\ param' = [param EXCEPT ![w] = p]
    /\ UNCHANGED <<counter, tracked, count, marks, deferred, since, outdated>>

\* IsParameterFrequent gets the counter; without one the request is sent.
GetCounter(w) ==
    /\ fuzzer[w] = "check"
    /\ counter' = [counter EXCEPT ![w] = tracked[param[w]]]
    /\ fuzzer' = [fuzzer EXCEPT ![w] = IF tracked[param[w]] = 0 THEN "sent" ELSE "load"]
    /\ UNCHANGED <<param, tracked, count, marks, deferred, since, outdated>>

\* IsParameterFrequent reads the counter: the request is skipped or sent.
LoadCounter(w) ==
    /\ fuzzer[w] = "load"
    /\ fuzzer' = [fuzzer EXCEPT ![w] =
                    IF count[counter[w]] >= FreqThreshold THEN "skipped" ELSE "sent"]
    /\ counter' = [counter EXCEPT ![w] = 0]
    /\ UNCHANGED <<param, tracked, count, marks, deferred, since, outdated>>

\* MarkParameter finds the counter of the parameter, or makes one.
Mark(w) ==
    LET p == param[w]
    IN  /\ fuzzer[w] = "sent" /\ marks < MaxMarks
        /\ marks' = marks + 1
        /\ \/ /\ tracked[p] # 0
              /\ fuzzer' = [fuzzer EXCEPT ![w] = "add"]
              /\ counter' = [counter EXCEPT ![w] = tracked[p]]
              /\ UNCHANGED <<count, since>>
           \/ /\ tracked[p] = 0
              /\ fuzzer' = [fuzzer EXCEPT ![w] = "set"]
              /\ counter' = [counter EXCEPT ![w] = marks + 1]
              /\ count' = [count EXCEPT ![marks + 1] = 1]
              /\ since' = [since EXCEPT ![p] = @ + 1]
        /\ UNCHANGED <<param, tracked, deferred, outdated>>

AddOne(w) ==
    /\ fuzzer[w] = "add"
    /\ fuzzer' = [fuzzer EXCEPT ![w] = "set"]
    /\ count' = [count EXCEPT ![counter[w]] = @ + 1]
    /\ since' = [since EXCEPT ![param[w]] = @ + 1]
    /\ UNCHANGED <<param, counter, tracked, marks, deferred, outdated>>

\* MarkParameter stores the counter; a cache that is full gives up another.
SetCounter(w) ==
    LET p == param[w]
        full == Cardinality({q \in Params : tracked[q] # 0}) >= MaxTrackCount
    IN  /\ fuzzer[w] = "set"
        /\ \/ /\ tracked[p] = 0 /\ full
              /\ \E q \in Params \ {p} :
                    /\ tracked[q] # 0
                    /\ tracked' = [tracked EXCEPT ![q] = 0, ![p] = counter[w]]
           \/ /\ tracked[p] = 0 => ~full
              /\ tracked' = [tracked EXCEPT ![p] = counter[w]]
        /\ fuzzer' = [fuzzer EXCEPT ![w] = "sent"]
        /\ counter' = [counter EXCEPT ![w] = 0]
        /\ UNCHANGED <<param, count, marks, deferred, since, outdated>>

Held(p, w) == {counter[v] : v \in {u \in Fuzzers \ {w} : param[u] = p}} \ {0}

\* Mutant: the key is not the one that MarkParameter built.
UnmarkNothing(w) ==
    LET p == param[w]
    IN  /\ fuzzer[w] = "sent"
        /\ since' = [since EXCEPT ![p] = 0]
        /\ outdated' = outdated \cup Held(p, w)
        /\ UNCHANGED <<fuzzer, param, counter, tracked, count, marks, deferred>>

\* UnmarkParameter removes the counter from the cache, whoever holds it.
Unmark(w) ==
    LET p == param[w]
    IN  /\ fuzzer[w] = "sent"
        /\ tracked' = [tracked EXCEPT ![p] = 0]
        /\ since' = [since EXCEPT ![p] = 0]
        /\ outdated' = outdated \cup Held(p, w)
        /\ UNCHANGED <<fuzzer, param, counter, count, marks, deferred>>

\* The request has had its responses; with an interactsh URL it goes to the
\* poller instead.
EndRequest(w) ==
    /\ fuzzer[w] = "sent"
    /\ fuzzer' = [fuzzer EXCEPT ![w] = "idle"]
    /\ deferred' \in {deferred, deferred \cup {param[w]}}
    /\ UNCHANGED <<param, counter, tracked, count, marks, since, outdated>>

FreqStep(w) ==
    \/ \E p \in Params : PickParam(w, p) \/ Interaction(w, p)
    \/ GetCounter(w) \/ LoadCounter(w)
    \/ Mark(w) \/ AddOne(w) \/ SetCounter(w) \/ Unmark(w) \/ EndRequest(w)

FreqNext == \E w \in Fuzzers : FreqStep(w)

FreqSpec == FreqInit /\ [][FreqNext]_freqVars

-----------------------------------------------------------------------------
\* A counter that was not read before the parameter was last unmarked.
Current(i) == i \notin outdated

\* Inductive invariant: no cached counter and none a goroutine holds is
\* ahead of the marks since the parameter was unmarked.
FreqBehind ==
    /\ \A p \in Params :
          tracked[p] # 0 => /\ tracked[p] <= marks
                            /\ Current(tracked[p]) => count[tracked[p]] <= since[p]
    /\ \A w \in Fuzzers :
          /\ counter[w] <= marks
          /\ counter[w] # 0 /\ Current(counter[w]) => count[counter[w]] <= since[param[w]]
          /\ Resting(w) \/ fuzzer[w] \in {"check", "sent"} => counter[w] = 0
          /\ fuzzer[w] \in {"load", "add", "set"} => counter[w] # 0
    /\ \A i \in outdated : i <= marks
    /\ \A p, q \in Params : p # q /\ tracked[p] # 0 => tracked[p] # tracked[q]
    /\ \A p \in Params, w \in Fuzzers :
          counter[w] # 0 /\ param[w] # p => counter[w] # tracked[p]
    /\ \A v, w \in Fuzzers :
          counter[w] # 0 /\ param[w] # param[v] => counter[w] # counter[v]

\* A parameter is skipped for the marks it got since a result unmarked it:
\* only a counter that another goroutine had read before, and stored again,
\* brings the old ones back.
UnmarkHolds ==
    [][\A w \in Fuzzers :
          fuzzer[w] = "load" /\ fuzzer'[w] = "skipped" /\ Current(counter[w])
              => since[param[w]] >= FreqThreshold]_freqVars
=============================================================================
