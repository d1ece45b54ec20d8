--------------------------- MODULE HostErrorsCache ---------------------------
(***************************************************************************)
(* The host error cache of pkg/protocols/common/hosterrorscache: workers   *)
(* of a scan ask it whether a target is to be skipped (Check) and report   *)
(* failed requests to it (MarkFailed).  MarkFailed reads the cached item,  *)
(* counts in it and stores it again in three separate steps, so the steps  *)
(* of two workers interleave between them.                                 *)
(*                                                                         *)
(* A count is only ever compared with MaxHostError, so counts saturate     *)
(* there.  Items are the *cacheItem objects: Create takes one that neither *)
(* the cache nor a worker refers to.                                       *)
(***************************************************************************)
EXTENDS Naturals, FiniteSets

CONSTANTS Workers,        \* goroutines executing templates
          Keys,           \* normalized host:port keys
          Items,          \* identities of *cacheItem objects
          NoItem,         \* the nil pointer
          MaxHostError,   \* failures after which a host is skipped
          Capacity        \* number of keys the ARC cache holds

ASSUME CacheAssumption ==
    /\ MaxHostError \in Nat \ {0}   \* the runner builds no cache otherwise
    /\ Capacity \in Nat \ {0}
    /\ NoItem \notin Items

\* What a request ends with, by what checkError makes of it.
Kinds == {"nil", "templateLogic", "temporary", "permanent", "deadline",
          "tracked", "untracked"}

VARIABLES cache,      \* key -> item, the gcache
          errors,     \* item -> its counter
          permanent,  \* item -> isPermanentErr
          pc,         \* worker -> where it is in its request
          key,        \* worker -> key it works on
          err,        \* worker -> the variable err of MarkFailed
          held,       \* worker -> existingCacheItem
          counted,    \* history: key -> failures that passed checkError and were counted
          reported    \* history: worker -> the failure MarkFailed was given

cacheVars == <<cache, errors, permanent>>
vars == <<cache, errors, permanent, pc, key, err, held, counted, reported>>

PCs == {"idle", "request", "lookup", "create", "add", "store"}

TypeOK ==
    /\ cache \in [Keys -> Items \cup {NoItem}]
    /\ errors \in [Items -> 0..MaxHostError]
    /\ permanent \in [Items -> BOOLEAN]
    /\ pc \in [Workers -> PCs]
    /\ key \in [Workers -> Keys]
    /\ err \in [Workers -> Kinds \cup {"notFound"}]
    /\ held \in [Workers -> Items \cup {NoItem}]
    /\ counted \in [Keys -> 0..MaxHostError]
    /\ reported \in [Workers -> Kinds]

Init ==
    /\ cache = [k \in Keys |-> NoItem]
    /\ errors = [i \in Items |-> 0]
    /\ permanent = [i \in Items |-> FALSE]
    /\ pc = [w \in Workers |-> "idle"]
    /\ key \in [Workers -> Keys]
    /\ err = [w \in Workers |-> "nil"]
    /\ held = [w \in Workers |-> NoItem]
    /\ counted = [k \in Keys |-> 0]
    /\ reported = [w \in Workers |-> "nil"]

-----------------------------------------------------------------------------

\* Mutant: the counter does not stop at the threshold.
CountWithoutBound(n) == n + 1

Saturated(n) == IF n < MaxHostError THEN n + 1 ELSE n

\* checkError: the failures that count against a host.
CheckError(kind) == kind \in {"permanent", "tracked"}

\* Mutant: the threshold is off by one.
SkipOneTooEarly(k) == /\ cache[k] # NoItem
                      /\ permanent[cache[k]] \/ errors[cache[k]] + 1 >= MaxHostError

\* The answer of Check for the key k.
Skip(k) == /\ cache[k] # NoItem
           /\ permanent[cache[k]] \/ errors[cache[k]] >= MaxHostError

Cached == {k \in Keys : cache[k] # NoItem}

\* failedTargets.Set: a new key evicts another one when the cache is full
\* (which one is up to the ARC policy).
CacheSet(k, i) ==
    IF cache[k] # NoItem \/ Cardinality(Cached) < Capacity
    THEN cache' = [cache EXCEPT ![k] = i]
    ELSE \E victim \in Cached : cache' = [cache EXCEPT ![victim] = NoItem, ![k] = i]

Unreferenced == {i \in Items : /\ \A k \in Keys : cache[k] # i
                               /\ \A w \in Workers : held[w] # i}

-----------------------------------------------------------------------------
\* Check(target): a skipped target is left alone, any other is requested.
Check(w, k) ==
    /\ pc[w] = "idle"
    /\ key' = [key EXCEPT ![w] = k]
    /\ pc' = [pc EXCEPT ![w] = IF Skip(k) THEN "idle" ELSE "request"]
    /\ UNCHANGED <<cacheVars, err, held, counted, reported>>

\* The request ends; MarkFailed(err) starts.  The key is the one of the
\* target, or the remote address attached to the error.
MarkFailed(w, kind, k) ==
    /\ pc[w] = "request"
    /\ kind = "nil" => k = key[w]
    /\ IF CheckError(kind)
       THEN /\ pc' = [pc EXCEPT ![w] = "lookup"]
            /\ err' = [err EXCEPT ![w] = kind]
            /\ reported' = [reported EXCEPT ![w] = kind]
       ELSE /\ pc' = [pc EXCEPT ![w] = "idle"]
            /\ UNCHANGED <<err, reported>>
    /\ key' = [key EXCEPT ![w] = k]
    /\ UNCHANGED <<cacheVars, held, counted>>

\* existingCacheItem, err := failedTargets.GetIFPresent(finalValue): the
\* outcome of the lookup replaces the error that is being reported.
Lookup(w) ==
    /\ pc[w] = "lookup"
    /\ held' = [held EXCEPT ![w] = cache[key[w]]]
    /\ IF cache[key[w]] = NoItem
       THEN /\ err' = [err EXCEPT ![w] = "notFound"]
            /\ pc' = [pc EXCEPT ![w] = "create"]
       ELSE /\ err' = [err EXCEPT ![w] = "nil"]
            /\ pc' = [pc EXCEPT ![w] = "add"]
    /\ UNCHANGED <<cacheVars, key, counted, reported>>

\* The lookup missed: store a new item that counts one failure.
CreateItem(w, i) ==
    /\ pc[w] = "create"
    /\ i \in Unreferenced
    /\ errors' = [errors EXCEPT ![i] = 1]
    /\ permanent' = [permanent EXCEPT ![i] = (err[w] = "permanent")]
    /\ CacheSet(key[w], i)
    /\ counted' = [counted EXCEPT ![key[w]] = Saturated(@)]
    /\ pc' = [pc EXCEPT ![w] = "idle"]
    /\ err' = [err EXCEPT ![w] = "nil"]
    /\ reported' = [reported EXCEPT ![w] = "nil"]
    /\ UNCHANGED <<key, held>>

\* Mutant: the counter is bumped in a copy of the item.
AddErrorToCopy(w) ==
    /\ pc[w] = "add"
    /\ counted' = [counted EXCEPT ![key[w]] = Saturated(@)]
    /\ pc' = [pc EXCEPT ![w] = "store"]
    /\ UNCHANGED <<cacheVars, key, err, held, reported>>

\* existingCacheItem.errors.Add(1), atomic on the item it holds.
AddError(w) ==
    /\ pc[w] = "add"
    /\ errors' = [errors EXCEPT ![held[w]] = Saturated(@)]
    /\ counted' = [counted EXCEPT ![key[w]] = Saturated(@)]
    /\ pc' = [pc EXCEPT ![w] = "store"]
    /\ UNCHANGED <<cache, permanent, key, err, held, reported>>

\* failedTargets.Set(finalValue, existingCacheItem): whatever has happened
\* to the key since the lookup is overwritten.
StoreItem(w) ==
    /\ pc[w] = "store"
    /\ CacheSet(key[w], held[w])
    /\ held' = [held EXCEPT ![w] = NoItem]
    /\ pc' = [pc EXCEPT ![w] = "idle"]
    /\ err' = [err EXCEPT ![w] = "nil"]
    /\ reported' = [reported EXCEPT ![w] = "nil"]
    /\ UNCHANGED <<errors, permanent, key, counted>>

Next == \E w \in Workers :
    \/ \E k \in Keys : Check(w, k)
    \/ \E kind \in Kinds, k \in Keys : MarkFailed(w, kind, k)
    \/ Lookup(w)
    \/ \E i \in Items : CreateItem(w, i)
    \/ AddError(w)
    \/ StoreItem(w)

Spec == Init /\ [][Next]_vars

-----------------------------------------------------------------------------
(***************************************************************************)
(* Properties                                                              *)
(***************************************************************************)
\* No host is skipped for its failures before MaxHostError failures of that
\* very host were counted, whatever items lost races leave behind or bring
\* back (Check against MarkFailed).
NeverSkippedEarly ==
    \A k \in Keys : Skip(k) /\ ~permanent[cache[k]] => counted[k] >= MaxHostError

(***************************************************************************)
(* Why NeverSkippedEarly holds.  Every item reachable for a key has at     *)
(* most that key's failures in it, and no item is reachable for two keys.  *)
(***************************************************************************)
HeldWhileCounting ==
    \A w \in Workers : pc[w] \in {"add", "store"} <=> held[w] # NoItem

NoSharedItem ==
    /\ \A k, l \in Keys : cache[k] # NoItem /\ cache[k] = cache[l] => k = l
    /\ \A w \in Workers, k \in Keys :
           held[w] # NoItem /\ held[w] = cache[k] => key[w] = k
    /\ \A v, w \in Workers :
           held[w] # NoItem /\ held[w] = held[v] => key[w] = key[v]

CountsAreReal ==
    /\ \A k \in Keys : cache[k] # NoItem => errors[cache[k]] <= counted[k]
    /\ \A w \in Workers : held[w] # NoItem => errors[held[w]] <= counted[key[w]]

CountingInv == TypeOK /\ HeldWhileCounting /\ NoSharedItem /\ CountsAreReal

\* A failure of host k is counted in this step.
CountFailure(k) == \E w \in Workers :
    /\ key[w] = k
    /\ AddError(w) \/ \E i \in Items : CreateItem(w, i)

\* The cache makes room for another key.
Evict(k) == cache[k] # NoItem /\ cache'[k] = NoItem

\* Lost updates delay the skipping of a host but cannot prevent it: a host
\* whose failures keep being counted ends up skipped for good, once the
\* cache no longer evicts it.
EventuallySkipped ==
    \A k \in Keys : []<><<CountFailure(k)>>_vars /\ <>[][~Evict(k)]_vars => <>[]Skip(k)

\* MarkFailed: "skip this address altogether; permanent errors are always
\* permanent": once MarkFailed has stored a new item for a permanent error,
\* Check skips the host.
PermanentSkipped == [][\A w \in Workers :
    pc[w] = "create" /\ pc'[w] = "idle" /\ reported[w] = "permanent"
        => Skip(key[w])']_vars
=============================================================================
