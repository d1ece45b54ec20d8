------------------------ MODULE HostErrorsCacheProofs ------------------------
(***************************************************************************)
(* Type correctness of HostErrorsCache, and that no host is skipped early, *)
(* for any number of workers, keys and items and any threshold.            *)
(***************************************************************************)
EXTENDS HostErrorsCache, TLAPS

\* Storing an item (gcache Set) changes the entry of its key, and at most
\* drops another one.
LEMMA CacheSetEffect ==
    ASSUME TypeOK, NEW k \in Keys, NEW i \in Items, CacheSet(k, i)
    PROVE  /\ cache' \in [Keys -> Items \cup {NoItem}]
           /\ cache'[k] = i
           /\ \A l \in Keys \ {k} : cache'[l] \in {cache[l], NoItem}
BY CacheAssumption DEF CacheSet, TypeOK, Cached

\* Every reachable state of Check and MarkFailed has variables of their types.
THEOREM TypeCorrect == Spec => []TypeOK
<1>1. Init => TypeOK
  BY CacheAssumption DEF Init, TypeOK, PCs, Kinds
<1>2. ASSUME TypeOK, [Next]_vars
      PROVE  TypeOK'
  <2> USE <1>2 DEF TypeOK
  <2>1. ASSUME NEW w \in Workers, NEW k \in Keys, Check(w, k)
        PROVE  TypeOK'
    BY <2>1 DEF Check, PCs, cacheVars
  <2>2. ASSUME NEW w \in Workers, NEW kind \in Kinds, NEW k \in Keys,
               MarkFailed(w, kind, k)
        PROVE  TypeOK'
    BY <2>2 DEF MarkFailed, PCs, cacheVars, Kinds
  <2>3. ASSUME NEW w \in Workers, Lookup(w)
        PROVE  TypeOK'
    BY <2>3 DEF Lookup, PCs, cacheVars, Kinds
  <2>4. ASSUME NEW w \in Workers, NEW i \in Items, CreateItem(w, i)
        PROVE  TypeOK'
    <3>1. cache' \in [Keys -> Items \cup {NoItem}]
      BY <2>4, CacheSetEffect DEF CreateItem
    <3>2. counted' \in [Keys -> 0..MaxHostError]
      <4>1. Saturated(counted[key[w]]) \in 0..MaxHostError
        BY CacheAssumption DEF Saturated
      <4> QED
        BY <2>4, <4>1 DEF CreateItem
    <3>3. permanent' \in [Items -> BOOLEAN]
      BY <2>4, Zenon DEF CreateItem
    <3>4. errors' \in [Items -> 0..MaxHostError]
      BY <2>4, CacheAssumption DEF CreateItem
    <3> QED
      BY <2>4, <3>1, <3>2, <3>3, <3>4 DEF CreateItem, PCs, Kinds
  <2>5. ASSUME NEW w \in Workers, AddError(w)
        PROVE  TypeOK'
    <3>1. \A n \in 0..MaxHostError : Saturated(n) \in 0..MaxHostError
      BY CacheAssumption DEF Saturated
    <3> QED
      BY <2>5, <3>1 DEF AddError, PCs
  <2>6. ASSUME NEW w \in Workers, StoreItem(w)
        PROVE  TypeOK'
    <3>1. cache' \in [Keys -> Items \cup {NoItem}]
      BY <2>6, CacheAssumption DEF StoreItem, CacheSet, Cached
    <3> QED
      BY <2>6, <3>1 DEF StoreItem, PCs, Kinds
  <2>7. CASE UNCHANGED vars
    BY <2>7 DEF vars
  <2> QED
    BY <1>2, <2>1, <2>2, <2>3, <2>4, <2>5, <2>6, <2>7 DEF Next
<1> QED
  BY <1>1, <1>2, PTL DEF Spec
-----------------------------------------------------------------------------
\* Starting a request, or finishing one whose failure does not count, leaves
\* the cached items and the pointers of the workers alone.
LEMMA RequestStepsCount ==
    ASSUME CountingInv, TypeOK', NEW w \in Workers, NEW k \in Keys,
           \/ Check(w, k)
           \/ \E kind \in Kinds : MarkFailed(w, kind, k)
    PROVE  CountingInv'
<1>1. /\ UNCHANGED <<cache, errors, permanent, held, counted>>
      /\ pc[w] \in {"idle", "request"}
      /\ pc' \in [Workers -> PCs]
      /\ pc'[w] \in {"idle", "request", "lookup"}
      /\ key' \in [Workers -> Keys]
      /\ \A v \in Workers \ {w} : pc'[v] = pc[v] /\ key'[v] = key[v]
  BY DEF Check, MarkFailed, cacheVars, CountingInv, TypeOK, PCs
<1>2. held[w] = NoItem
  BY <1>1 DEF CountingInv, HeldWhileCounting
<1>3. HeldWhileCounting'
  BY <1>1, <1>2 DEF CountingInv, HeldWhileCounting, TypeOK
<1>4. NoSharedItem'
  BY <1>1, <1>2 DEF CountingInv, NoSharedItem, TypeOK
<1>5. CountsAreReal'
  BY <1>1, <1>2 DEF CountingInv, CountsAreReal, TypeOK
<1> QED
  BY <1>3, <1>4, <1>5 DEF CountingInv

\* A lookup hands the worker the very item the cache holds for its key.
LEMMA LookupCounts ==
    ASSUME CountingInv, TypeOK', NEW w \in Workers, Lookup(w)
    PROVE  CountingInv'
<1>1. /\ UNCHANGED <<cache, errors, key, counted>>
      /\ held'[w] = cache[key[w]]
      /\ \A v \in Workers \ {w} : held'[v] = held[v] /\ pc'[v] = pc[v]
      /\ pc'[w] = IF held'[w] = NoItem THEN "create" ELSE "add"
      /\ key[w] \in Keys
  <2>1. key[w] \in Keys
    BY DEF CountingInv, TypeOK
  <2>2. UNCHANGED <<cache, errors, key, counted>>
    BY DEF Lookup, cacheVars
  <2>3. held'[w] = cache[key[w]] /\ \A v \in Workers \ {w} : held'[v] = held[v]
    BY DEF Lookup, CountingInv, TypeOK
  <2>4. /\ pc'[w] = IF held'[w] = NoItem THEN "create" ELSE "add"
        /\ \A v \in Workers \ {w} : pc'[v] = pc[v]
    BY <2>3 DEF Lookup, CountingInv, TypeOK
  <2> QED
    BY <2>1, <2>2, <2>3, <2>4
<1>2. HeldWhileCounting'
  BY <1>1 DEF CountingInv, HeldWhileCounting
<1>3. NoSharedItem'
  BY <1>1 DEF CountingInv, NoSharedItem, TypeOK
<1>4. CountsAreReal'
  BY <1>1 DEF CountingInv, CountsAreReal, TypeOK
<1> QED
  BY <1>2, <1>3, <1>4 DEF CountingInv

\* A new item is referred to by its key alone, and counts one failure of it.
LEMMA CreateItemCounts ==
    ASSUME CountingInv, TypeOK', NEW w \in Workers, NEW i \in Items,
           CreateItem(w, i)
    PROVE  CountingInv'
<1> DEFINE k == key[w]
<1>1. /\ k \in Keys /\ UNCHANGED <<key, held>>
      /\ \A l \in Keys : cache[l] # i
      /\ \A v \in Workers : held[v] # i
      /\ errors'[i] = 1 /\ \A j \in Items \ {i} : errors'[j] = errors[j]
      /\ counted'[k] = Saturated(counted[k])
      /\ \A l \in Keys \ {k} : counted'[l] = counted[l]
      /\ pc[w] = "create" /\ pc'[w] = "idle"
      /\ \A v \in Workers \ {w} : pc'[v] = pc[v]
  BY DEF CreateItem, Unreferenced, CountingInv, TypeOK
<1>2. /\ cache'[k] = i
      /\ \A l \in Keys \ {k} : cache'[l] \in {cache[l], NoItem}
  BY <1>1, CacheSetEffect DEF CreateItem, CountingInv
<1>3. /\ counted'[k] >= 1
      /\ \A l \in Keys : counted[l] <= counted'[l]
      /\ \A l \in Keys : counted[l] \in Nat /\ counted'[l] \in Nat
      /\ \A j \in Items : errors[j] \in Nat
  BY <1>1, CacheAssumption DEF Saturated, CountingInv, TypeOK
<1>4. held \in [Workers -> Items \cup {NoItem}] /\ i # NoItem
      /\ cache \in [Keys -> Items \cup {NoItem}] /\ key \in [Workers -> Keys]
  BY CacheAssumption DEF CountingInv, TypeOK
<1>5. HeldWhileCounting'
  BY <1>1 DEF CountingInv, HeldWhileCounting
<1>6. NoSharedItem'
  BY <1>1, <1>2, <1>4 DEF CountingInv, NoSharedItem
<1>7. CountsAreReal'
  <2>1. ASSUME NEW l \in Keys, cache'[l] # NoItem
        PROVE  errors'[cache'[l]] <= counted'[l]
    BY <2>1, <1>1, <1>2, <1>3, <1>4 DEF CountingInv, CountsAreReal
  <2>2. ASSUME NEW v \in Workers, held[v] # NoItem
        PROVE  errors'[held[v]] <= counted'[key[v]]
    BY <2>2, <1>1, <1>3, <1>4 DEF CountingInv, CountsAreReal
  <2> QED
    BY <2>1, <2>2, <1>1 DEF CountsAreReal
<1> QED
  BY <1>5, <1>6, <1>7 DEF CountingInv

\* Counting in the held item counts the failure for that item's own key.
LEMMA AddErrorCounts ==
    ASSUME CountingInv, TypeOK', NEW w \in Workers, AddError(w)
    PROVE  CountingInv'
<1> DEFINE k == key[w]
           i == held[w]
<1>1. /\ k \in Keys /\ i \in Items /\ i # NoItem
      /\ UNCHANGED <<cache, key, held>>
      /\ errors'[i] = Saturated(errors[i])
      /\ \A j \in Items \ {i} : errors'[j] = errors[j]
      /\ counted'[k] = Saturated(counted[k])
      /\ \A l \in Keys \ {k} : counted'[l] = counted[l]
      /\ pc[w] = "add" /\ pc'[w] = "store"
      /\ \A v \in Workers \ {w} : pc'[v] = pc[v]
  BY CacheAssumption DEF AddError, CountingInv, HeldWhileCounting, TypeOK
<1>2. /\ \A l \in Keys : counted[l] <= counted'[l] /\ counted[l] \in 0..MaxHostError
      /\ \A j \in Items : errors[j] \in 0..MaxHostError
  BY <1>1, CacheAssumption DEF Saturated, CountingInv, TypeOK
<1>3. \A m, n \in 0..MaxHostError : m <= n => Saturated(m) <= Saturated(n)
  BY CacheAssumption DEF Saturated
<1>4. held \in [Workers -> Items \cup {NoItem}] /\ key \in [Workers -> Keys]
      /\ cache \in [Keys -> Items \cup {NoItem}]
      /\ errors' \in [Items -> 0..MaxHostError]
      /\ counted' \in [Keys -> 0..MaxHostError]
  BY DEF CountingInv, TypeOK
<1>5. HeldWhileCounting'
  BY <1>1 DEF CountingInv, HeldWhileCounting
<1>6. NoSharedItem'
  BY <1>1 DEF CountingInv, NoSharedItem
<1>7. CountsAreReal'
  <2>1. ASSUME NEW l \in Keys, NEW j \in Items, errors[j] <= counted[l],
               j = i => l = k
        PROVE  errors'[j] <= counted'[l]
    BY <2>1, <1>1, <1>2, <1>3, <1>4
  <2>2. ASSUME NEW l \in Keys, cache[l] # NoItem
        PROVE  errors'[cache[l]] <= counted'[l]
    BY <2>1, <2>2, <1>1, <1>4 DEF CountingInv, CountsAreReal, NoSharedItem
  <2>3. ASSUME NEW v \in Workers, held[v] # NoItem
        PROVE  errors'[held[v]] <= counted'[key[v]]
    BY <2>1, <2>3, <1>1, <1>4 DEF CountingInv, CountsAreReal, NoSharedItem
  <2> QED
    BY <2>2, <2>3, <1>1 DEF CountsAreReal
<1> QED
  BY <1>5, <1>6, <1>7 DEF CountingInv

\* A stale item comes back under the key it was looked up for, with no more
\* failures in it than that key has had.
LEMMA StoreItemCounts ==
    ASSUME CountingInv, TypeOK', NEW w \in Workers, StoreItem(w)
    PROVE  CountingInv'
<1> DEFINE k == key[w]
           i == held[w]
<1>1. /\ k \in Keys /\ i \in Items /\ i # NoItem
      /\ UNCHANGED <<errors, key, counted>>
      /\ held'[w] = NoItem
      /\ \A v \in Workers \ {w} : held'[v] = held[v] /\ pc'[v] = pc[v]
      /\ pc'[w] = "idle"
      /\ CacheSet(k, i)
  BY CacheAssumption DEF StoreItem, CountingInv, HeldWhileCounting, TypeOK
<1>2. /\ cache'[k] = i
      /\ \A l \in Keys \ {k} : cache'[l] \in {cache[l], NoItem}
  BY <1>1, CacheSetEffect DEF CountingInv
<1>3. held \in [Workers -> Items \cup {NoItem}] /\ key \in [Workers -> Keys]
  BY DEF CountingInv, TypeOK
<1>4. HeldWhileCounting'
  BY <1>1 DEF CountingInv, HeldWhileCounting
<1>5. NoSharedItem'
  BY <1>1, <1>2, <1>3 DEF CountingInv, NoSharedItem
<1>6. CountsAreReal'
  BY <1>1, <1>2, <1>3 DEF CountingInv, CountsAreReal
<1> QED
  BY <1>4, <1>5, <1>6 DEF CountingInv

\* Every item reachable for a host counts failures of that host only: the
\* invariant behind the answers of Check.
THEOREM CountingInvariant == Spec => []CountingInv
<1>1. Init => CountingInv
  BY TypeCorrect, CacheAssumption
     DEF Init, CountingInv, HeldWhileCounting, NoSharedItem, CountsAreReal,
         TypeOK, PCs, Kinds
<1>2. ASSUME CountingInv, TypeOK', [Next]_vars
      PROVE  CountingInv'
  <2>1. CASE UNCHANGED vars
    BY <1>2, <2>1 DEF vars, CountingInv, HeldWhileCounting, NoSharedItem,
                      CountsAreReal, TypeOK
  <2>2. CASE Next
    BY <1>2, <2>2, RequestStepsCount, LookupCounts, CreateItemCounts,
       AddErrorCounts, StoreItemCounts DEF Next
  <2> QED
    BY <1>2, <2>1, <2>2
<1> QED
  BY <1>1, <1>2, TypeCorrect, PTL DEF Spec

\* No host is skipped for its failures before MaxHostError failures of that
\* host were counted, for any number of workers and hosts (Check).
THEOREM NeverEarly == Spec => []NeverSkippedEarly
<1>1. CountingInv => NeverSkippedEarly
  BY CacheAssumption
     DEF CountingInv, CountsAreReal, NeverSkippedEarly, Skip, TypeOK
<1> QED
  BY <1>1, CountingInvariant, PTL
=============================================================================
