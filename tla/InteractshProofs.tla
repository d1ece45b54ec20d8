--------------------------- MODULE InteractshProofs ---------------------------
(***************************************************************************)
(* Theorems about Interactsh, for any number of request events, URLs and   *)
(* interactions, and for caches that drop any number of entries.           *)
(***************************************************************************)
EXTENDS Interactsh, TLAPS

\* No event is the polling goroutine, so every event is an actor of its own.
LEMMA EventsAreActors ==
    /\ Poller \in Actors /\ Poller \notin Events
    /\ \A e \in Events : e \in Actors /\ e # Poller /\ EventAt(e) = e /\ HashAt(e) = Hash[e]
BY InteractshAssumption DEF Actors, Poller, EventAt, HashAt

\* All events of an ID are of one template and host.
LEMMA HashOfId ==
    ASSUME NEW i \in Ids
    PROVE  /\ HashOf(i) \in Hashes
           /\ \A e \in Events : Carries(e, i) => HashOf(i) = Hash[e]
<1> DEFINE f == CHOOSE e \in Events : Carries(e, i)
<1>1. f \in Events /\ Carries(f, i)
  BY InteractshAssumption
<1>2. HashOf(i) = Hash[f]
  BY DEF HashOf
<1> HIDE DEF f
<1>3. \A e \in Events : Carries(e, i) => Hash[e] = Hash[f]
  BY <1>1, InteractshAssumption
<1> QED
  BY <1>1, <1>2, <1>3 DEF Hashes

\* While RequestEvent is at one of its URLs, it has the unique ID of it.
LEMMA IdIsId ==
    ASSUME TypeOK, NEW e \in Events, url[e] <= Len(UrlsOf[e])
    PROVE  Id(e) \in Ids /\ url[e] + 1 \in 1..(Len(UrlsOf[e]) + 1)
<1>1. UrlsOf[e] \in Seq(Ids) /\ Len(UrlsOf[e]) \in Nat
  BY InteractshAssumption
<1>2. url[e] \in 1..Len(UrlsOf[e])
  BY <1>1 DEF TypeOK
<1> QED
  BY <1>1, <1>2 DEF Id

\* An actor that is processing has an event in hand, and one that is busy a
\* template and host.
LEMMA EventInHand ==
    ASSUME TypeOK, PlaceInv, HolderInv, NEW a \in Actors
    PROVE  /\ pc[a] \in {"check"} \cup Processing =>
                  EventAt(a) \in Events /\ Hash[EventAt(a)] = HashAt(a)
           /\ a # Poller \/ pc[a] # "idle" => HashAt(a) \in Hashes
<1>1. CASE a = Poller
  <2>1. pc[a] # "idle" => current[Poller].id \in Ids
    BY <1>1 DEF PlaceInv, Interactions
  <2>2. pc[a] \in {"check"} \cup Processing =>
           holder \in Events /\ Carries(holder, current[Poller].id)
    BY <1>1 DEF HolderInv, TypeOK
  <2>3. EventAt(a) = holder /\ HashAt(a) = HashOf(current[Poller].id)
    BY <1>1 DEF EventAt, HashAt
  <2>4. pc[a] \in {"check"} \cup Processing => pc[a] # "idle"
    BY DEF Processing
  <2> QED
    BY <1>1, <2>1, <2>2, <2>3, <2>4, HashOfId
<1>2. CASE a # Poller
  BY <1>2, EventsAreActors DEF Actors, Hashes
<1> QED
  BY <1>1, <1>2

\* What processInteractionForRequest leaves behind when it returns.
LEMMA LeaveTypes ==
    ASSUME TypeOK, PlaceInv, NEW a \in Actors, pc[a] \in Processing,
           NEW hit \in BOOLEAN, Leave(a, hit)
    PROVE  /\ current' \in [Actors -> Interactions \cup {Nothing}]
           /\ todo' \in [Events -> Seq(Interactions)]
           /\ url' \in [Events -> Nat]
           /\ \A e \in Events : url'[e] \in 1..(Len(UrlsOf[e]) + 1)
           /\ interactions' \in [Ids -> Seq(Interactions)]
           /\ current' = [current EXCEPT ![a] = Nothing]
           /\ holder' = IF a = Poller THEN None ELSE holder
           /\ \E x \in {"idle", "next", "each"} :
                 /\ pc' = [pc EXCEPT ![a] = x]
                 /\ a = Poller <=> x = "idle"
                 /\ x = "each" => url' = url
           /\ \A e \in Events : e # a => url'[e] = url[e]
<1>0. ASSUME NEW e \in Events, url[e] <= Len(UrlsOf[e])
      PROVE  Id(e) \in Ids /\ url[e] + 1 \in 1..(Len(UrlsOf[e]) + 1)
  BY <1>0, IdIsId
<1> USE EventsAreActors DEF TypeOK, Leave, To
<1>1. CASE a = Poller
  <2>1. /\ current' = [current EXCEPT ![a] = Nothing] /\ holder' = None
        /\ pc' = [pc EXCEPT ![a] = "idle"] /\ UNCHANGED <<todo, url, interactions>>
    BY <1>1
  <2>2. current' \in [Actors -> Interactions \cup {Nothing}]
    BY <2>1
  <2> QED
    BY <1>1, <2>1, <2>2
<1>2. CASE a # Poller /\ hit
  <2>1. a \in Events /\ url[a] <= Len(UrlsOf[a])
    BY <1>2 DEF Actors, PlaceInv, Processing
  <2>2. url[a] + 1 \in 1..(Len(UrlsOf[a]) + 1) /\ url[a] + 1 \in Nat /\ Id(a) \in Ids
    BY <2>1, <1>0
  <2>3. /\ pc' = [pc EXCEPT ![a] = "next"] /\ current' = [current EXCEPT ![a] = Nothing]
        /\ todo' = [todo EXCEPT ![a] = <<>>] /\ url' = [url EXCEPT ![a] = @ + 1]
        /\ interactions' = [interactions EXCEPT ![Id(a)] = <<>>]
    BY <1>2
  <2>4. <<>> \in Seq(Interactions)
    OBVIOUS
  <2>5. todo' \in [Events -> Seq(Interactions)] /\ interactions' \in [Ids -> Seq(Interactions)]
    BY <2>2, <2>3, <2>4
  <2>6. url' \in [Events -> Nat] /\ \A e \in Events : url'[e] \in 1..(Len(UrlsOf[e]) + 1)
    BY <2>1, <2>2, <2>3
  <2>7. current' \in [Actors -> Interactions \cup {Nothing}]
    BY <2>3
  <2> QED
    BY <1>2, <2>3, <2>5, <2>6, <2>7
<1>3. CASE a # Poller /\ ~hit
  BY <1>3
<1> QED
  BY <1>1, <1>2, <1>3

\* So the types of what it leaves behind hold.
LEMMA LeftTypes ==
    ASSUME TypeOK, PlaceInv, NEW a \in Actors, pc[a] \in Processing,
           NEW hit \in BOOLEAN, Leave(a, hit)
    PROVE  /\ current' \in [Actors -> Interactions \cup {Nothing}]
           /\ todo' \in [Events -> Seq(Interactions)]
           /\ url' \in [Events -> Nat] /\ \A e \in Events : url'[e] \in 1..(Len(UrlsOf[e]) + 1)
           /\ interactions' \in [Ids -> Seq(Interactions)]
           /\ pc' \in [Actors -> PCs] /\ holder' \in Events \cup {None}
<1>1. PICK x \in {"idle", "next", "each"} : pc' = [pc EXCEPT ![a] = x]
  BY LeaveTypes
<1>2. pc \in [Actors -> PCs] /\ x \in PCs
  BY DEF TypeOK, PCs
<1>3. pc' \in [Actors -> PCs]
  BY <1>1, <1>2
<1>4. holder' \in {None, holder}
  BY LeaveTypes
<1>5. holder' \in Events \cup {None}
  BY <1>4 DEF TypeOK
<1> QED
  BY <1>3, <1>5, LeaveTypes

\* What the poller does: an interaction arrives, which matches events of its ID.
LEMMA Polls ==
    Poll => \/ \E i \in Ids, ms \in SUBSET Events :
                  Arrive(i, ms) /\ \A e \in ms : Carries(e, i)
            \/ LookupRequest \/ LookupWaiting \/ Keep \/ CheckMatched
<1>1. ASSUME NEW i \in Ids, NEW ms \in SUBSET {e \in Events : Carries(e, i)}
      PROVE  ms \in SUBSET Events /\ \A e \in ms : Carries(e, i)
  OBVIOUS
<1> QED
  BY <1>1 DEF Poll

\* The types of the client hold in every step of the poller, of a request
\* event, of the caches and of Close.
LEMMA TypeStep == TypeOK /\ PlaceInv /\ HolderInv /\ [Next]_vars => TypeOK'
<1> SUFFICES ASSUME TypeOK, PlaceInv, HolderInv, [Next]_vars PROVE TypeOK'
  OBVIOUS
<1>u. CASE UNCHANGED vars
  BY <1>u DEF vars, caches, local, history, TypeOK
<1>n. CASE Next
  <2>t. /\ metPoller' \subseteq Events /\ metOther' \subseteq Hashes
        /\ diverted' \subseteq Ids \X Events
    BY <1>n DEF Next, Together, Divert, TypeOK
  <2> USE <2>t, EventsAreActors DEF TypeOK, caches, local, history, To, PCs
  <2>1. ASSUME NEW i \in Ids, NEW ms \in SUBSET Events, Arrive(i, ms) PROVE TypeOK'
    <3>1. [id |-> i, matches |-> ms] \in Interactions
      BY DEF Interactions
    <3>2. arrived' \in 0..MaxInteractions /\ hits' \subseteq Ids \X Events
      BY <2>1, InteractshAssumption DEF Arrive
    <3> QED
      BY <2>1, <3>1, <3>2 DEF Arrive
  <2>2. CASE LookupRequest
    <3>1. current[Poller].id \in Ids
      BY <2>2 DEF LookupRequest, PlaceInv, Interactions
    <3>2. holder' \in Events \cup {None}
      BY <2>2, <3>1 DEF LookupRequest
    <3> QED
      BY <2>2, <3>2 DEF LookupRequest
  <2>3. CASE LookupWaiting
    <3>1. current[Poller].id \in Ids
      BY <2>3 DEF LookupWaiting, PlaceInv, Interactions
    <3> QED
      BY <2>3, <3>1 DEF LookupWaiting
  <2>4. CASE Keep
    <3>1. current[Poller] \in Interactions
      BY <2>4 DEF Keep, PlaceInv
    <3>2. Append(items, current[Poller]) \in Seq(Interactions) /\ <<>> \in Seq(Interactions)
      BY <3>1
    <3> QED
      BY <2>4, <3>2 DEF Keep
  <2>5. CASE CheckMatched
    BY <2>5 DEF CheckMatched
  <2>6. ASSUME NEW e \in Events, Enter(e) PROVE TypeOK'
    BY <2>6 DEF Enter
  <2>7. ASSUME NEW e \in Events, CheckStop(e) PROVE TypeOK'
    BY <2>7 DEF CheckStop
  <2>8. ASSUME NEW e \in Events, TakeWaiting(e) PROVE TypeOK'
    <3>1. Id(e) \in Ids
      BY <2>8, IdIsId DEF TakeWaiting, PlaceInv
    <3> QED
      BY <2>8, <3>1 DEF TakeWaiting
  <2>9. ASSUME NEW e \in Events, PutRequest(e) PROVE TypeOK'
    <3>1. Id(e) \in Ids /\ url[e] + 1 \in 1..(Len(UrlsOf[e]) + 1)
      BY <2>9, IdIsId DEF PutRequest, PlaceInv
    <3>2. /\ requests' \in [Ids -> Events \cup {None}]
          /\ url' \in [Events -> Nat] /\ \A f \in Events : url'[f] \in 1..(Len(UrlsOf[f]) + 1)
      <4>1. requests' \in [Ids -> Events \cup {None}]
        BY <2>9, <3>1 DEF PutRequest
      <4>2. url' = [url EXCEPT ![e] = url[e] + 1]
        BY <2>9 DEF PutRequest
      <4> QED
        BY <3>1, <4>1, <4>2
    <3> QED
      BY <2>9, <3>2 DEF PutRequest
  <2>10. ASSUME NEW e \in Events, TakeNext(e) PROVE TypeOK'
    <3>1. Head(todo[e]) \in Interactions /\ Tail(todo[e]) \in Seq(Interactions)
      BY <2>10 DEF TakeNext
    <3> QED
      BY <2>10, <3>1 DEF TakeNext
  <2>11. ASSUME NEW e \in Events, NoneMatched(e) PROVE TypeOK'
    <3>1. <<Id(e), e>> \in Ids \X Events /\ url[e] + 1 \in 1..(Len(UrlsOf[e]) + 1)
      BY <2>11, IdIsId DEF NoneMatched, PlaceInv
    <3>2. url' \in [Events -> Nat] /\ \A f \in Events : url'[f] \in 1..(Len(UrlsOf[f]) + 1)
      <4>1. url' = [url EXCEPT ![e] = url[e] + 1]
        BY <2>11 DEF NoneMatched
      <4> QED
        BY <3>1, <4>1
    <3> QED
      BY <2>11, <3>1, <3>2 DEF NoneMatched
  <2>12. ASSUME NEW a \in Actors, Match(a) PROVE TypeOK'
    <3>1. pc[a] \in Processing
      BY <2>12 DEF Match, Processing
    <3>2. CASE Matches(a)
      BY <2>12, <3>2 DEF Match
    <3>3. CASE ~Matches(a)
      <4>1. Leave(a, FALSE) /\ UNCHANGED requests
        BY <2>12, <3>3 DEF Match
      <4>2. UNCHANGED <<stop, requests, matchedTemplates, interactshMatched, matched, items,
                        closed, answer, history>>
        BY <2>12, <4>1 DEF Match
      <4> QED
        BY <3>1, <4>1, <4>2, LeftTypes
    <3> QED
      BY <3>2, <3>3
  <2>13. ASSUME NEW a \in Actors, WriteResult(a) PROVE TypeOK'
    <3>1. pc[a] \in Processing
      BY <2>13 DEF WriteResult, Processing
    <3>2. CASE EventAt(a) \in interactshMatched
      <4>1. Leave(a, TRUE) /\ UNCHANGED written
        BY <2>13, <3>2 DEF WriteResult
      <4>2. UNCHANGED <<stop, requests, matchedTemplates, interactshMatched, matched, items,
                        closed, answer, arrived, hits, forgotten, stranded, cutOff>>
        BY <2>13 DEF WriteResult
      <4> QED
        BY <3>1, <4>1, <4>2, LeftTypes
    <3>3. CASE EventAt(a) \notin interactshMatched
      <4>1. written' = [written EXCEPT ![EventAt(a)] = @ + 1] /\ EventAt(a) \in Events
        BY <2>13, <3>1, <3>3, EventInHand DEF WriteResult
      <4>2. written' \in [Events -> Nat]
        BY <4>1
      <4> QED
        BY <2>13, <3>3, <4>2 DEF WriteResult
    <3> QED
      BY <3>2, <3>3
  <2>14. ASSUME NEW a \in Actors, StoreMatched(a) PROVE TypeOK'
    <3>1. EventAt(a) \in Events
      BY <2>14, EventInHand DEF StoreMatched, Processing
    <3> QED
      BY <2>14, <3>1 DEF StoreMatched
  <2>15. ASSUME NEW a \in Actors, FlagTemplate(a) PROVE TypeOK'
    <3>1. pc[a] \in Processing
      BY <2>15 DEF FlagTemplate, Processing
    <3>2. Leave(a, TRUE)
      BY <2>15 DEF FlagTemplate
    <3>3. matchedTemplates' \subseteq Hashes
      BY <2>15, <3>1, EventInHand DEF FlagTemplate, Hashes
    <3>4. UNCHANGED <<stop, requests, interactshMatched, matched, items, closed, answer, history>>
      BY <2>15 DEF FlagTemplate
    <3> QED
      BY <3>1, <3>2, <3>3, <3>4, LeftTypes
  <2>16. CASE Forget
    <3>1. <<>> \in Seq(Interactions)
      OBVIOUS
    <3>2. /\ requests' \in [Ids -> Events \cup {None}]
          /\ interactions' \in [Ids -> Seq(Interactions)]
      <4>1. requests' \in [Ids -> Events \cup {None}]
        BY <2>16 DEF Forget
      <4>2. interactions' \in [Ids -> Seq(Interactions)]
        BY <2>16, <3>1 DEF Forget
      <4> QED
        BY <4>1, <4>2
    <3>3. matchedTemplates' \subseteq Hashes /\ forgotten' \subseteq Ids \cup Hashes
      BY <2>16 DEF Forget
    <3> QED
      BY <2>16, <3>2, <3>3 DEF Forget
  <2>17. CASE Close
    <3>1. /\ requests' \in [Ids -> Events \cup {None}]
          /\ interactions' \in [Ids -> Seq(Interactions)]
      BY <2>17 DEF Close
    <3>2. closed' \in BOOLEAN /\ answer' \in BOOLEAN /\ cutOff' \in BOOLEAN
      BY <2>17 DEF Close, Busy
    <3> QED
      BY <2>17, <3>1, <3>2 DEF Close
  <2> QED
    BY <1>n, <2>1, <2>2, <2>3, <2>4, <2>5, <2>6, <2>7, <2>8, <2>9, <2>10, <2>11, <2>12, <2>13,
       <2>14, <2>15, <2>16, <2>17, Polls DEF Next, RequestEvent, Process
<1> QED
  BY <1>u, <1>n

\* Each actor goes only where its own code can be.
LEMMA PlaceStep == TypeOK /\ PlaceInv /\ [Next]_vars => PlaceInv'
<1> SUFFICES ASSUME TypeOK, PlaceInv, [Next]_vars PROVE PlaceInv'
  OBVIOUS
<1>v. ASSUME NEW a \in Actors, pc[a] \in Processing, NEW hit \in BOOLEAN, Leave(a, hit)
      PROVE  /\ \E x \in {"idle", "next", "each"} :
                    /\ pc' = [pc EXCEPT ![a] = x]
                    /\ a = Poller <=> x = "idle"
                    /\ x = "each" => url' = url
             /\ current' = [current EXCEPT ![a] = Nothing]
             /\ \A e \in Events : e # a => url'[e] = url[e]
  BY <1>v, LeaveTypes
<1> USE EventsAreActors DEF TypeOK, PlaceInv, caches, local, history, To, Processing
<1>u. CASE UNCHANGED vars
  BY <1>u DEF vars
<1>1. ASSUME NEW i \in Ids, NEW ms \in SUBSET Events, Arrive(i, ms) PROVE PlaceInv'
  <2>1. [id |-> i, matches |-> ms] \in Interactions
    BY DEF Interactions
  <2> QED
    BY <1>1, <2>1 DEF Arrive
<1>2. CASE LookupRequest
  BY <1>2 DEF LookupRequest
<1>3. CASE LookupWaiting
  BY <1>3 DEF LookupWaiting
<1>4. CASE Keep
  BY <1>4 DEF Keep
<1>5. CASE CheckMatched
  BY <1>5 DEF CheckMatched
<1>6. ASSUME NEW e \in Events, Enter(e) PROVE PlaceInv'
  <2>1. Len(UrlsOf[e]) \in Nat /\ url[e] \in Nat
    BY InteractshAssumption
  <2> QED
    BY <1>6, <2>1 DEF Enter
<1>7. ASSUME NEW e \in Events, CheckStop(e) PROVE PlaceInv'
  BY <1>7 DEF CheckStop
<1>8. ASSUME NEW e \in Events, TakeWaiting(e) PROVE PlaceInv'
  BY <1>8 DEF TakeWaiting
<1>9. ASSUME NEW e \in Events, PutRequest(e) PROVE PlaceInv'
  BY <1>9 DEF PutRequest
<1>10. ASSUME NEW e \in Events, TakeNext(e) PROVE PlaceInv'
  <2>1. Head(todo[e]) \in Interactions
    BY <1>10 DEF TakeNext
  <2> QED
    BY <1>10, <2>1 DEF TakeNext
<1>11. ASSUME NEW e \in Events, NoneMatched(e) PROVE PlaceInv'
  BY <1>11 DEF NoneMatched
<1>l. ASSUME NEW a \in Actors, pc[a] \in Processing, NEW hit \in BOOLEAN, Leave(a, hit)
      PROVE  PlaceInv'
  <2>1. PICK x \in {"idle", "next", "each"} :
           /\ pc' = [pc EXCEPT ![a] = x]
           /\ a = Poller <=> x = "idle"
           /\ x = "each" => url' = url
    BY <1>l, <1>v
  <2>2. /\ current' = [current EXCEPT ![a] = Nothing]
        /\ \A e \in Events : e # a => url'[e] = url[e]
    BY <1>l, <1>v
  <2>3. \A b \in Actors : b # a => pc'[b] = pc[b] /\ current'[b] = current[b]
    BY <1>l, <2>1, <2>2
  <2>4. pc'[a] = x
    BY <1>l, <2>1
  <2>5. CASE a = Poller
    <3>1. \A e \in Events :
             e \in Actors /\ pc'[e] = pc[e] /\ current'[e] = current[e] /\ url'[e] = url[e]
      BY <2>2, <2>3, <2>5
    <3>2. pc'[Poller] = "idle"
      BY <2>1, <2>4, <2>5
    <3> QED
      BY <3>1, <3>2
  <2>6. CASE a # Poller
    <3>1. a \in Events /\ (x = "each" => url'[a] = url[a] /\ url[a] <= Len(UrlsOf[a]))
      BY <1>l, <2>1, <2>6 DEF Actors
    <3> QED
      BY <2>1, <2>2, <2>3, <2>4, <2>6, <3>1
  <2> QED
    BY <2>5, <2>6
<1>12. ASSUME NEW a \in Actors, Match(a) PROVE PlaceInv'
  <2>1. CASE Matches(a)
    BY <1>12, <2>1 DEF Match
  <2>2. CASE ~Matches(a)
    BY <1>12, <1>l, <2>2 DEF Match
  <2> QED
    BY <2>1, <2>2
<1>13. ASSUME NEW a \in Actors, WriteResult(a) PROVE PlaceInv'
  <2>1. CASE EventAt(a) \in interactshMatched
    BY <1>13, <1>l, <2>1 DEF WriteResult
  <2>2. CASE EventAt(a) \notin interactshMatched
    BY <1>13, <2>2 DEF WriteResult
  <2> QED
    BY <2>1, <2>2
<1>14. ASSUME NEW a \in Actors, StoreMatched(a) PROVE PlaceInv'
  BY <1>14 DEF StoreMatched
<1>15. ASSUME NEW a \in Actors, FlagTemplate(a) PROVE PlaceInv'
  BY <1>15, <1>l DEF FlagTemplate
<1>16. CASE Forget
  BY <1>16 DEF Forget
<1>17. CASE Close
  BY <1>17 DEF Close
<1> QED
  BY <1>u, <1>1, <1>2, <1>3, <1>4, <1>5, <1>6, <1>7, <1>8, <1>9, <1>10, <1>11, <1>12, <1>13,
     <1>14, <1>15, <1>16, <1>17, Polls DEF Next, RequestEvent, Process

\* The caches and the poller keep events of the ID they are found by.
LEMMA HolderStep == TypeOK /\ PlaceInv /\ HolderInv /\ [Next]_vars => HolderInv'
<1> SUFFICES ASSUME TypeOK, PlaceInv, HolderInv, [Next]_vars PROVE HolderInv'
  OBVIOUS
<1> USE EventsAreActors DEF caches, local, history, To, Processing
<1>t. /\ pc \in [Actors -> PCs] /\ requests \in [Ids -> Events \cup {None}]
      /\ current \in [Actors -> Interactions \cup {Nothing}]
      /\ pc[Poller] # "idle" => current[Poller].id \in Ids
  BY DEF TypeOK, PlaceInv, Interactions
<1>p. pc[Poller] \in {"idle", "lookup", "waiting", "keep", "check"} \cup Processing
  BY DEF PlaceInv
\* A step in which the poller takes no part.
<1>o. ASSUME pc'[Poller] = pc[Poller], current'[Poller] = current[Poller], holder' = holder,
             \A i \in Ids : requests'[i] \in {None, requests[i]}
      PROVE  HolderInv'
  BY <1>o DEF HolderInv
<1>u. CASE UNCHANGED vars
  BY <1>u, <1>o DEF vars
<1>1. ASSUME NEW i \in Ids, NEW ms \in SUBSET Events, Arrive(i, ms) PROVE HolderInv'
  BY <1>1, <1>t DEF Arrive, HolderInv
<1>2. CASE LookupRequest
  <2>1. /\ holder' = requests[current[Poller].id] /\ UNCHANGED <<requests, current>>
        /\ pc'[Poller] = IF holder' = None THEN "waiting" ELSE "check"
        /\ current[Poller].id \in Ids
    BY <1>2, <1>t DEF LookupRequest
  <2>2. holder' # None => Carries(holder', current[Poller].id)
    BY <2>1 DEF HolderInv
  <2> QED
    BY <2>1, <2>2 DEF HolderInv
<1>3. CASE LookupWaiting \/ Keep
  <2>1. /\ pc[Poller] \in {"waiting", "keep"} /\ pc'[Poller] \in {"keep", "idle"}
        /\ UNCHANGED <<holder, requests>>
    BY <1>3, <1>t DEF LookupWaiting, Keep
  <2>2. holder = None
    BY <2>1 DEF HolderInv
  <2> QED
    BY <2>1, <2>2 DEF HolderInv
<1>4. CASE CheckMatched
  <2>1. /\ pc[Poller] = "check" /\ UNCHANGED requests
        /\ \/ pc'[Poller] = "idle" /\ holder' = None
           \/ pc'[Poller] = "process" /\ UNCHANGED <<current, holder>>
    BY <1>4, <1>t DEF CheckMatched
  <2> QED
    BY <2>1 DEF HolderInv
<1>5. ASSUME NEW e \in Events, RequestEvent(e) PROVE HolderInv'
  <2>1. /\ pc'[Poller] = pc[Poller] /\ current'[Poller] = current[Poller] /\ holder' = holder
        /\ ~PutRequest(e) => requests' = requests
    BY <1>5, <1>t
    DEF RequestEvent, Enter, CheckStop, TakeWaiting, PutRequest, TakeNext, NoneMatched
  <2>2. CASE PutRequest(e)
    <3>1. Id(e) \in Ids /\ Carries(e, Id(e))
      <4>1. url[e] <= Len(UrlsOf[e]) /\ url[e] \in 1..(Len(UrlsOf[e]) + 1)
        BY <2>2 DEF PutRequest, PlaceInv, TypeOK
      <4>2. Len(UrlsOf[e]) \in Nat
        BY InteractshAssumption
      <4>3. url[e] \in 1..Len(UrlsOf[e])
        BY <4>1, <4>2
      <4> QED
        BY <4>1, <4>3, IdIsId DEF Id, Carries
    <3>2. \A i \in Ids : requests'[i] = IF i = Id(e) THEN e ELSE requests[i]
      BY <1>t, <2>2 DEF PutRequest
    <3> QED
      BY <2>1, <3>1, <3>2 DEF HolderInv
  <2> QED
    BY <1>o, <2>1, <2>2
\* The poller, or another actor, leaves what it processed.
<1>l. ASSUME NEW a \in Actors, pc[a] \in Processing, NEW hit \in BOOLEAN, Leave(a, hit),
             UNCHANGED requests
      PROVE  HolderInv'
  <2>1. CASE a = Poller
    <3>1. pc'[Poller] = "idle" /\ holder' = None
      BY <1>l, <1>t, <2>1 DEF Leave
    <3> QED
      BY <1>l, <3>1 DEF HolderInv
  <2>2. CASE a # Poller
    <3>1. pc'[Poller] = pc[Poller] /\ current'[Poller] = current[Poller] /\ holder' = holder
      BY <1>l, <1>t, <2>2 DEF Leave
    <3> QED
      BY <1>l, <1>o, <3>1
  <2> QED
    BY <2>1, <2>2
<1>m. ASSUME NEW a \in Actors, pc[a] \in Processing, NEW x \in {"write", "store", "flag"},
             pc' = [pc EXCEPT ![a] = x], UNCHANGED <<current, holder>>,
             \A i \in Ids : requests'[i] \in {None, requests[i]}
      PROVE  HolderInv'
  <2>1. /\ pc'[Poller] \in Processing <=> pc[Poller] \in Processing
        /\ pc'[Poller] = "check" <=> pc[Poller] = "check"
    BY <1>m, <1>t
  <2> QED
    BY <1>m, <2>1 DEF HolderInv
<1>6. ASSUME NEW a \in Actors, Match(a) PROVE HolderInv'
  <2>1. CASE Matches(a)
    <3>1. /\ pc[a] \in Processing /\ pc' = [pc EXCEPT ![a] = "write"]
          /\ UNCHANGED <<current, holder>>
          /\ requests' = [requests EXCEPT ![current[a].id] = None]
      BY <1>6, <2>1 DEF Match
    <3> QED
      BY <1>m, <1>t, <3>1
  <2>2. CASE ~Matches(a)
    BY <1>6, <1>l, <2>2 DEF Match
  <2> QED
    BY <2>1, <2>2
<1>7. ASSUME NEW a \in Actors, WriteResult(a) PROVE HolderInv'
  BY <1>7, <1>l, <1>m, <1>t DEF WriteResult
<1>8. ASSUME NEW a \in Actors, StoreMatched(a) PROVE HolderInv'
  BY <1>8, <1>m, <1>t DEF StoreMatched
<1>9. ASSUME NEW a \in Actors, FlagTemplate(a) PROVE HolderInv'
  <2>1. pc[a] \in Processing /\ Leave(a, TRUE) /\ UNCHANGED requests
    BY <1>9 DEF FlagTemplate
  <2> QED
    BY <1>l, <2>1
<1>10. CASE Forget \/ Close
  <2>1. /\ UNCHANGED <<pc, current, holder>>
        /\ \A i \in Ids : requests'[i] \in {None, requests[i]}
    BY <1>10, <1>t DEF Forget, Close
  <2> QED
    BY <1>o, <2>1
<1> QED
  BY <1>u, <1>1, <1>2, <1>3, <1>4, <1>5, <1>6, <1>7, <1>8, <1>9, <1>10, Polls DEF Next, Process
-----------------------------------------------------------------------------
(***************************************************************************)
(* What a step does to matches.  All but four kinds of step only move one  *)
(* actor on.                                                               *)
(***************************************************************************)
\* Actor a goes on to x, for the same template and host, and with the same event
\* while it processes one.
Move(a, x) ==
    /\ pc' = [pc EXCEPT ![a] = x]
    /\ \A b \in Actors : b # a => EventAt(b)' = EventAt(b) /\ HashAt(b)' = HashAt(b)
    /\ pc[a] # "idle" /\ x # "idle" => HashAt(a)' = HashAt(a)
    /\ pc[a] \in Processing /\ x # "idle" => EventAt(a)' = EventAt(a)
    /\ UNCHANGED <<stop, closed, answer, cutOff>>

Sound(a, x) ==
    /\ pc[a] \notin {"done", "store", "flag"} /\ (pc[a] = "idle" => ~closed)
    /\ x \in PCs \ {"store", "flag"}
    /\ x \in {"take", "put", "each", "process", "write"} =>
           PastCheck(a) \/ (pc[a] # "idle" /\ ~(stop /\ HashAt(a) \in matchedTemplates))

GoesOn(a) ==
    /\ \E x \in PCs : Move(a, x) /\ Sound(a, x)
    /\ UNCHANGED <<written, interactshMatched, matched, matchedTemplates, forgotten>>

Writes(a) ==
    /\ pc[a] = "write" /\ EventAt(a) \notin interactshMatched
    /\ Move(a, "store")
    /\ written' = [written EXCEPT ![EventAt(a)] = @ + 1]
    /\ UNCHANGED <<interactshMatched, matched, matchedTemplates, forgotten>>

Stores(a) ==
    /\ pc[a] = "store"
    /\ Move(a, "flag")
    /\ interactshMatched' = interactshMatched \cup {EventAt(a)} /\ matched' = TRUE
    /\ UNCHANGED <<written, matchedTemplates, forgotten>>

Flags(a) ==
    /\ pc[a] = "flag"
    /\ \E x \in {"idle", "next"} : Move(a, x)
    /\ matchedTemplates' = IF stop THEN matchedTemplates \cup {HashAt(a)}
                           ELSE matchedTemplates
    /\ UNCHANGED <<written, interactshMatched, matched, forgotten>>

Forgets ==
    /\ \A h \in matchedTemplates : h \in matchedTemplates' \cup forgotten'
    /\ matchedTemplates' \subseteq matchedTemplates /\ forgotten \subseteq forgotten'
    /\ UNCHANGED <<pc, current, holder, stop, closed, answer, cutOff,
                   written, interactshMatched, matched>>

Closes ==
    /\ \A e \in Events : pc[e] = "done"
    /\ closed' = TRUE /\ answer' = matched /\ cutOff' = Busy(Poller)
    /\ UNCHANGED <<pc, current, holder, stop, written, interactshMatched, matched>>

\* Leaving processInteractionForRequest moves the actor on.
LEMMA LeaveMoves ==
    ASSUME TypeOK, PlaceInv, NEW a \in Actors, pc[a] \in Processing,
           NEW hit \in BOOLEAN, Leave(a, hit), UNCHANGED <<stop, closed, answer, cutOff>>
    PROVE  \E x \in {"idle", "next", "each"} :
               /\ Move(a, x)
               /\ x = "each" => ~hit
<1>1. current' = [current EXCEPT ![a] = Nothing] /\ holder' = IF a = Poller THEN None ELSE holder
  BY LeaveTypes
<1> USE EventsAreActors DEF TypeOK
<1>2. \A b \in Actors : b # a => current'[b] = current[b]
  BY <1>1
<1>3. \A b \in Actors : b # a => EventAt(b)' = EventAt(b) /\ HashAt(b)' = HashAt(b)
  BY <1>1, <1>2 DEF EventAt, HashAt
<1>4. PICK x \in {"idle", "next", "each"} :
         /\ pc' = [pc EXCEPT ![a] = x] /\ (a = Poller <=> x = "idle") /\ (x = "each" => ~hit)
  BY DEF Leave, To
<1>5. x # "idle" => EventAt(a)' = EventAt(a) /\ HashAt(a)' = HashAt(a)
  BY <1>4 DEF EventAt, HashAt
<1> QED
  BY <1>3, <1>4, <1>5 DEF Move

\* Every step is of one of these kinds.
LEMMA StepKinds ==
    ASSUME TypeOK, PlaceInv, HolderInv, Next
    PROVE  \/ \E a \in Actors : GoesOn(a) \/ Writes(a) \/ Stores(a) \/ Flags(a)
           \/ Forgets
           \/ Closes
<1> DEFINE Kind == \/ \E a \in Actors : GoesOn(a) \/ Writes(a) \/ Stores(a) \/ Flags(a)
                   \/ Forgets
                   \/ Closes
<1>h. ASSUME NEW a \in Actors, pc[a] \in {"check"} \cup Processing
      PROVE  Hash[EventAt(a)] = HashAt(a)
  BY <1>h, EventInHand
<1>l. ASSUME NEW a \in Actors, pc[a] \in Processing, NEW hit \in BOOLEAN, Leave(a, hit),
             UNCHANGED <<stop, closed, answer, cutOff>>
      PROVE  \E x \in {"idle", "next", "each"} : Move(a, x) /\ (x = "each" => ~hit)
  BY <1>l, LeaveMoves
<1> USE EventsAreActors DEF TypeOK, PlaceInv, caches, local, history, To, PCs, Processing
<1>m. ASSUME NEW a \in Actors, NEW x \in PCs, pc' = [pc EXCEPT ![a] = x],
             \A b \in Actors : b # a => current'[b] = current[b],
             a # Poller => holder' = holder,
             pc[a] # "idle" /\ x # "idle" /\ a = Poller => current'[a] = current[a],
             pc[a] \in Processing /\ x # "idle" /\ a = Poller => holder' = holder,
             UNCHANGED <<stop, closed, answer, cutOff>>
      PROVE  Move(a, x)
  <2>1. \A b \in Actors : b # a => EventAt(b)' = EventAt(b) /\ HashAt(b)' = HashAt(b)
    BY <1>m DEF EventAt, HashAt
  <2>2. pc[a] # "idle" /\ x # "idle" => HashAt(a)' = HashAt(a)
    BY <1>m DEF HashAt
  <2>3. pc[a] \in Processing /\ x # "idle" => EventAt(a)' = EventAt(a)
    BY <1>m DEF EventAt
  <2> QED
    BY <1>m, <2>1, <2>2, <2>3 DEF Move
<1>g. ASSUME NEW a \in Actors, NEW x \in PCs, Move(a, x), Sound(a, x),
             UNCHANGED <<written, interactshMatched, matched, matchedTemplates, forgotten>>
      PROVE  Kind
  BY <1>g DEF GoesOn
<1>1. ASSUME NEW i \in Ids, NEW ms \in SUBSET Events, Arrive(i, ms) PROVE Kind
  <2>1. Move(Poller, "lookup") /\ Sound(Poller, "lookup")
    BY <1>1, <1>m DEF Arrive, Sound
  <2> QED
    BY <1>1, <1>g, <2>1 DEF Arrive
<1>2. CASE LookupRequest
  <2>1. \E x \in {"waiting", "check"} : Move(Poller, x) /\ Sound(Poller, x)
    BY <1>2, <1>m DEF LookupRequest, Sound
  <2> QED
    BY <1>2, <1>g, <2>1 DEF LookupRequest
<1>3. CASE LookupWaiting
  <2>1. Move(Poller, "keep") /\ Sound(Poller, "keep")
    BY <1>3, <1>m DEF LookupWaiting, Sound
  <2> QED
    BY <1>3, <1>g, <2>1 DEF LookupWaiting
<1>4. CASE Keep
  <2>1. Move(Poller, "idle") /\ Sound(Poller, "idle")
    BY <1>4, <1>m DEF Keep, Sound
  <2> QED
    BY <1>4, <1>g, <2>1 DEF Keep
<1>5. CASE CheckMatched
  <2>h. EventAt(Poller) = holder /\ Hash[holder] = HashAt(Poller)
    BY <1>5, <1>h DEF CheckMatched, EventAt
  <2>1. \E x \in {"idle", "process"} : Move(Poller, x) /\ Sound(Poller, x)
    <3>1. CASE Stopped(holder)
      <4>1. Move(Poller, "idle")
        BY <1>5, <1>m, <3>1 DEF CheckMatched
      <4> QED
        BY <1>5, <4>1 DEF CheckMatched, Sound
    <3>2. CASE ~Stopped(holder)
      <4>1. Move(Poller, "process")
        BY <1>5, <1>m, <3>2 DEF CheckMatched
      <4> QED
        BY <1>5, <2>h, <3>2, <4>1 DEF CheckMatched, Sound, Stopped
    <3> QED
      BY <3>1, <3>2
  <2> QED
    BY <1>5, <1>g, <2>1 DEF CheckMatched
<1>6. ASSUME NEW e \in Events, Enter(e) PROVE Kind
  <2>1. \E x \in {"done", "url"} : Move(e, x) /\ Sound(e, x)
    BY <1>6, <1>m DEF Enter, Sound
  <2> QED
    BY <1>6, <1>g, <2>1 DEF Enter
<1>7. ASSUME NEW e \in Events, CheckStop(e) PROVE Kind
  <2>1. CASE Stopped(e)
    <3>1. Move(e, "done") /\ Sound(e, "done")
      BY <1>7, <1>m, <2>1 DEF CheckStop, Sound
    <3> QED
      BY <1>7, <1>g, <3>1 DEF CheckStop
  <2>2. CASE ~Stopped(e)
    <3>1. Move(e, "take") /\ Sound(e, "take")
      BY <1>7, <1>m, <2>2 DEF CheckStop, Sound, Stopped
    <3> QED
      BY <1>7, <1>g, <3>1 DEF CheckStop
  <2> QED
    BY <2>1, <2>2
<1>8. ASSUME NEW e \in Events, TakeWaiting(e) PROVE Kind
  <2>1. \E x \in {"put", "each"} : Move(e, x) /\ Sound(e, x)
    BY <1>8, <1>m DEF TakeWaiting, Sound, PastCheck
  <2> QED
    BY <1>8, <1>g, <2>1 DEF TakeWaiting
<1>9. ASSUME NEW e \in Events, PutRequest(e) PROVE Kind
  <2>1. Move(e, "next") /\ Sound(e, "next")
    BY <1>9, <1>m DEF PutRequest, Sound
  <2> QED
    BY <1>9, <1>g, <2>1 DEF PutRequest
<1>10. ASSUME NEW e \in Events, TakeNext(e) PROVE Kind
  <2>1. Move(e, "process") /\ Sound(e, "process")
    BY <1>10, <1>m DEF TakeNext, Sound, PastCheck
  <2> QED
    BY <1>10, <1>g, <2>1 DEF TakeNext
<1>11. ASSUME NEW e \in Events, NoneMatched(e) PROVE Kind
  <2>1. Move(e, "next") /\ Sound(e, "next")
    BY <1>11, <1>m DEF NoneMatched, Sound
  <2> QED
    BY <1>11, <1>g, <2>1 DEF NoneMatched
<1>12. ASSUME NEW a \in Actors, Match(a) PROVE Kind
  <2>1. CASE Matches(a)
    <3>1. Move(a, "write") /\ Sound(a, "write")
      BY <1>12, <1>m, <2>1 DEF Match, Sound, PastCheck
    <3> QED
      BY <1>12, <1>g, <2>1, <3>1 DEF Match
  <2>2. CASE ~Matches(a)
    <3>1. \E x \in {"idle", "next", "each"} : Move(a, x)
      BY <1>12, <2>2, <1>l DEF Match
    <3>2. \E x \in PCs : Move(a, x) /\ Sound(a, x)
      BY <1>12, <3>1 DEF Match, Sound, PastCheck
    <3> QED
      BY <1>12, <1>g, <2>2, <3>2 DEF Match
  <2> QED
    BY <2>1, <2>2
<1>13. ASSUME NEW a \in Actors, WriteResult(a) PROVE Kind
  <2>1. CASE EventAt(a) \in interactshMatched
    <3>1. \E x \in {"idle", "next", "each"} : Move(a, x)
      BY <1>13, <2>1, <1>l DEF WriteResult
    <3>2. \E x \in PCs : Move(a, x) /\ Sound(a, x)
      BY <1>13, <3>1 DEF WriteResult, Sound, PastCheck
    <3> QED
      BY <1>13, <1>g, <2>1, <3>2 DEF WriteResult
  <2>2. CASE EventAt(a) \notin interactshMatched
    <3>1. Move(a, "store")
      BY <1>13, <1>m, <2>2 DEF WriteResult
    <3> QED
      BY <1>13, <2>2, <3>1 DEF WriteResult, Writes
  <2> QED
    BY <2>1, <2>2
<1>14. ASSUME NEW a \in Actors, StoreMatched(a) PROVE Kind
  <2>1. Move(a, "flag")
    BY <1>14, <1>m DEF StoreMatched
  <2> QED
    BY <1>14, <2>1 DEF StoreMatched, Stores
<1>15. ASSUME NEW a \in Actors, FlagTemplate(a) PROVE Kind
  <2>1. \E x \in {"idle", "next"} : Move(a, x)
    BY <1>15, <1>l DEF FlagTemplate
  <2>2. Hash[EventAt(a)] = HashAt(a)
    BY <1>15, <1>h DEF FlagTemplate
  <2> QED
    BY <1>15, <2>1, <2>2 DEF FlagTemplate, Flags
<1>16. CASE Forget
  BY <1>16 DEF Forget, Forgets
<1>17. CASE Close
  BY <1>17 DEF Close, Closes
<1> QED
  BY <1>1, <1>2, <1>3, <1>4, <1>5, <1>6, <1>7, <1>8, <1>9, <1>10, <1>11, <1>12, <1>13,
     <1>14, <1>15, <1>16, <1>17, Polls DEF Next, RequestEvent, Process

\* The history of who had what in hand at the same time.
LEMMA Meeting ==
    ASSUME Next
    PROVE  /\ metPoller \subseteq metPoller' /\ metOther \subseteq metOther'
           /\ \A e \in Events :
                  Busy(e)' /\ Busy(Poller)' /\ Carries(e, current[Poller].id') => e \in metPoller'
           /\ \A a, b \in Actors, h \in Hashes :
                  a # b /\ Busy(a)' /\ Busy(b)' /\ HashAt(a)' = h /\ HashAt(b)' = h
                  => h \in metOther'
<1>1. Together
  BY DEF Next
<1>2. metPoller \subseteq metPoller' /\ metOther \subseteq metOther'
  BY <1>1 DEF Together
<1>3. \A e \in Events :
          Busy(e)' /\ Busy(Poller)' /\ Carries(e, current[Poller].id') => e \in metPoller'
  BY <1>1 DEF Together
<1>4. \A a, b \in Actors, h \in Hashes :
          a # b /\ Busy(a)' /\ Busy(b)' /\ HashAt(a)' = h /\ HashAt(b)' = h => h \in metOther'
  BY <1>1 DEF Together
<1> QED
  BY <1>2, <1>3, <1>4

\* A step of one actor leaves what the others have in hand.
LEMMA OthersStay ==
    ASSUME TypeOK, NEW a \in Actors, NEW x \in PCs, Move(a, x),
           NEW b \in Actors, b # a
    PROVE  pc'[b] = pc[b] /\ EventAt(b)' = EventAt(b) /\ HashAt(b)' = HashAt(b)
BY DEF Move, TypeOK

\* What an actor that moves on has in hand, and its place.
LEMMA MoverStays ==
    ASSUME TypeOK, NEW a \in Actors, NEW x \in PCs, Move(a, x)
    PROVE  /\ pc'[a] = x
           /\ pc[a] # "idle" /\ x # "idle" => HashAt(a)' = HashAt(a)
           /\ pc[a] \in Processing /\ x # "idle" => EventAt(a)' = EventAt(a)
BY DEF Move, TypeOK

\* An event is marked by who wrote it, and written again only after a meeting.
LEMMA WriteStep == TypeOK /\ PlaceInv /\ HolderInv /\ WriteInv /\ [Next]_vars => WriteInv'
<1> SUFFICES ASSUME TypeOK, PlaceInv, HolderInv, WriteInv, [Next]_vars PROVE WriteInv'
  OBVIOUS
<1>u. CASE UNCHANGED vars
  <2>1. UNCHANGED <<written, interactshMatched, matched, pc, current, holder, metPoller>>
    BY <1>u DEF vars, local, history
  <2> QED
    BY <2>1 DEF WriteInv, WrittenOnce, Busy, EventAt
<1>n. CASE Next
  <2>m. /\ metPoller \subseteq metPoller'
        /\ \A e \in Events :
               Busy(e)' /\ Busy(Poller)' /\ Carries(e, current[Poller].id') => e \in metPoller'
    BY <1>n, Meeting
  <2>s. ASSUME UNCHANGED <<written, interactshMatched, matched>>,
               \A b \in Actors : pc[b] = "store" => pc'[b] = "store" /\ EventAt(b)' = EventAt(b)
        PROVE  WriteInv'
    BY <2>m, <2>s DEF WriteInv, WrittenOnce
  <2>1. ASSUME NEW a \in Actors, GoesOn(a) PROVE WriteInv'
    <3>1. PICK x \in PCs : Move(a, x) /\ pc[a] # "store"
      BY <2>1 DEF GoesOn, Sound
    <3>2. \A b \in Actors : pc[b] = "store" => pc'[b] = "store" /\ EventAt(b)' = EventAt(b)
      BY <3>1, OthersStay
    <3> QED
      BY <2>1, <2>s, <3>2 DEF GoesOn
  <2>2. ASSUME NEW a \in Actors, Writes(a) PROVE WriteInv'
    <3>1. /\ Move(a, "store") /\ pc[a] = "write" /\ EventAt(a) \notin interactshMatched
          /\ written' = [written EXCEPT ![EventAt(a)] = @ + 1]
          /\ interactshMatched' = interactshMatched /\ matched' = matched
      BY <2>2 DEF Writes
    <3>2. pc'[a] = "store" /\ EventAt(a)' = EventAt(a)
      BY <3>1, MoverStays DEF PCs, Processing
    <3>3. \A b \in Actors : pc[b] = "store" => pc'[b] = "store" /\ EventAt(b)' = EventAt(b)
      BY <3>1, OthersStay DEF PCs
    <3>4. \A e \in Events : e # EventAt(a) => written'[e] = written[e]
      BY <3>1 DEF TypeOK
    <3>5. \A e \in Events : written'[e] > 0 =>
              \/ e \in interactshMatched'
              \/ \E b \in Actors : pc'[b] = "store" /\ EventAt(b)' = e
      BY <3>1, <3>2, <3>3, <3>4 DEF WriteInv
    <3>6. ASSUME NEW e \in Events, written'[e] > 1 PROVE e \in metPoller'
      <4>1. CASE e # EventAt(a)
        BY <2>m, <3>4, <3>6, <4>1 DEF WriteInv, WrittenOnce
      <4>2. CASE e = EventAt(a)
        <5>1. written[e] > 0
          BY <3>1, <3>6, <4>2 DEF TypeOK
        <5>2. PICK b \in Actors : pc[b] = "store" /\ EventAt(b) = e
          BY <3>1, <4>2, <5>1 DEF WriteInv
        <5>3. a # b
          BY <3>1, <5>2
        <5>4. Busy(a) /\ Busy(b)
          BY <3>1, <5>2 DEF Busy
        <5>5. (a = Poller /\ b = e) \/ (b = Poller /\ a = e)
          BY <4>2, <5>2, <5>3, EventsAreActors DEF Actors
        <5>6. Carries(e, current[Poller].id)
          <6>1. EventAt(Poller) = e /\ pc[Poller] \in Processing
            BY <3>1, <4>2, <5>2, <5>5 DEF Processing
          <6>2. holder # None /\ holder = e
            BY <6>1 DEF HolderInv, EventAt
          <6> QED
            BY <6>2 DEF HolderInv
        <5>7. e \in metPoller
          BY <5>4, <5>5, <5>6 DEF WriteInv
        <5> QED
          BY <2>m, <5>7
      <4> QED
        BY <4>1, <4>2
    <3>7. interactshMatched' # {} => matched'
      BY <3>1 DEF WriteInv
    <3> QED
      BY <2>m, <3>5, <3>6, <3>7 DEF WriteInv, WrittenOnce
  <2>3. ASSUME NEW a \in Actors, Stores(a) PROVE WriteInv'
    <3>1. /\ Move(a, "flag") /\ written' = written /\ matched' = TRUE
          /\ interactshMatched' = interactshMatched \cup {EventAt(a)}
      BY <2>3 DEF Stores
    <3>2. \A b \in Actors : b # a => pc'[b] = pc[b] /\ EventAt(b)' = EventAt(b)
      BY <3>1, OthersStay DEF PCs
    <3>3. \A e \in Events : written[e] > 0 =>
              \/ e \in interactshMatched'
              \/ \E b \in Actors : pc'[b] = "store" /\ EventAt(b)' = e
      BY <3>1, <3>2 DEF WriteInv
    <3> QED
      BY <2>m, <3>1, <3>3 DEF WriteInv, WrittenOnce
  <2>4. ASSUME NEW a \in Actors, Flags(a) PROVE WriteInv'
    <3>1. PICK x \in PCs : Move(a, x) /\ pc[a] # "store"
      BY <2>4 DEF Flags, PCs
    <3>2. \A b \in Actors : pc[b] = "store" => pc'[b] = "store" /\ EventAt(b)' = EventAt(b)
      BY <3>1, OthersStay
    <3> QED
      BY <2>4, <2>s, <3>2 DEF Flags
  <2>5. CASE Forgets \/ Closes
    <3>1. \A b \in Actors : pc[b] = "store" => pc'[b] = "store" /\ EventAt(b)' = EventAt(b)
      BY <2>5 DEF Forgets, Closes, EventAt
    <3> QED
      BY <2>5, <2>s, <3>1 DEF Forgets, Closes
  <2> QED
    BY <1>n, <2>1, <2>2, <2>3, <2>4, <2>5, StepKinds
<1> QED
  BY <1>u, <1>n

\* After Close only a callback that was running goes on.
LEMMA CloseStep == TypeOK /\ PlaceInv /\ HolderInv /\ CloseInv /\ [Next]_vars => CloseInv'
<1> SUFFICES ASSUME TypeOK, PlaceInv, HolderInv, CloseInv, [Next]_vars PROVE CloseInv'
  OBVIOUS
<1>u. CASE UNCHANGED vars
  BY <1>u DEF vars, history, CloseInv
<1>m. ASSUME NEW a \in Actors, NEW x \in PCs, Move(a, x), pc[a] # "done",
             pc[a] = "idle" => ~closed
      PROVE  CloseInv'
  <2>1. CASE closed
    <3>1. a = Poller /\ cutOff
      BY <1>m, <2>1 DEF Actors, CloseInv
    <3>2. \A e \in Events : pc'[e] = pc[e]
      BY <1>m, <3>1, OthersStay, EventsAreActors
    <3> QED
      BY <1>m, <2>1, <3>1, <3>2 DEF Move, CloseInv
  <2>2. CASE ~closed
    BY <1>m, <2>2 DEF Move, CloseInv
  <2> QED
    BY <2>1, <2>2
<1>n. CASE Next
  <2>1. ASSUME NEW a \in Actors, GoesOn(a) \/ Writes(a) \/ Stores(a) \/ Flags(a)
        PROVE  CloseInv'
    <3>1. PICK x \in PCs : Move(a, x) /\ pc[a] # "done" /\ (pc[a] = "idle" => ~closed)
      BY <2>1 DEF GoesOn, Sound, Writes, Stores, Flags, PCs
    <3> QED
      BY <1>m, <3>1
  <2>2. CASE Forgets
    BY <2>2 DEF Forgets, CloseInv
  <2>3. CASE Closes
    BY <2>3 DEF Closes, Busy, CloseInv, PlaceInv, Processing
  <2> QED
    BY <1>n, <2>1, <2>2, <2>3, StepKinds
<1> QED
  BY <1>u, <1>n

\* Whoever writes an event records its template, and whoever had found the
\* template unmatched by then has met the one who records it.
LEMMA FlagStep ==
    TypeOK /\ TypeOK' /\ PlaceInv /\ PlaceInv' /\ HolderInv /\ FlagInv /\ [Next]_vars => FlagInv'
<1> SUFFICES ASSUME TypeOK, PlaceInv, PlaceInv', TypeOK', HolderInv, FlagInv, [Next]_vars,
                    stop', ~closed'
             PROVE  FlagInv'
  BY DEF FlagInv
<1> USE EventsAreActors
<1>u. CASE UNCHANGED vars
  <2>1. UNCHANGED <<stop, closed, written, matchedTemplates, forgotten, pc, current, holder, metOther>>
    BY <1>u DEF vars, caches, local, history
  <2> QED
    BY <2>1 DEF FlagInv, StopsAtFirstMatch, PastCheck, Busy, HashAt
<1>n. CASE Next
  <2>m. metOther \subseteq metOther'
    BY <1>n, Meeting
  <2>h. \A b \in Actors : Busy(b) => HashAt(b) \in Hashes
    BY EventInHand DEF Busy
  <2>i. \A b \in Actors : Busy(b)' => HashAt(b)' \in Hashes
    <3>1. ASSUME NEW b \in Actors, Busy(b)' PROVE HashAt(b)' \in Hashes
      <4>1. CASE b = Poller
        <5>1. current'[Poller] \in Interactions
          BY <3>1, <4>1 DEF Busy, PlaceInv
        <5>2. current'[Poller].id \in Ids
          BY <5>1 DEF Interactions
        <5>3. HashOf(current'[Poller].id) \in Hashes
          BY <5>2, HashOfId
        <5> QED
          BY <4>1, <5>3 DEF HashAt
      <4>2. CASE b # Poller
        BY <4>2 DEF Actors, HashAt, Hashes
      <4> QED
        BY <4>1, <4>2
    <3> QED
      BY <3>1
  <2>a. \A b, c \in Actors :
            b # c /\ Busy(b)' /\ Busy(c)' /\ HashAt(b)' = HashAt(c)'
                => HashAt(b)' \in metOther'
    BY <1>n, <2>i, Meeting
  <2>c. stop /\ ~closed
    <3>1. ASSUME NEW a \in Actors, GoesOn(a) \/ Writes(a) \/ Stores(a) \/ Flags(a)
          PROVE  stop' = stop /\ closed' = closed
      BY <3>1 DEF GoesOn, Writes, Stores, Flags, Move
    <3>2. stop' = stop /\ closed' = closed
      <4>1. Forgets => stop' = stop /\ closed' = closed
        BY DEF Forgets
      <4>2. ~Closes
        BY DEF Closes
      <4> QED
        BY <1>n, <3>1, <4>1, <4>2, StepKinds
    <3> QED
      BY <3>2
  <2>b. /\ \A b, c \in Actors :
               b # c /\ Busy(b) /\ Busy(c) /\ HashAt(b) = HashAt(c)
                   => HashAt(b) \in metOther
        /\ \A e \in Events : written[e] > 0 =>
               \/ Hash[e] \in matchedTemplates \cup forgotten \cup metOther
               \/ \E b \in Actors : pc[b] \in {"store", "flag"} /\ HashAt(b) = Hash[e]
        /\ \A b \in Actors :
               PastCheck(b) /\ HashAt(b) \in matchedTemplates
                   => HashAt(b) \in metOther
        /\ \A e, f \in Events :
               (e # f /\ Hash[e] = Hash[f] /\ written[e] > 0 /\ written[f] > 0) =>
                   Hash[e] \in metOther \cup forgotten
    BY <2>c DEF FlagInv, StopsAtFirstMatch
  <2> DEFINE
        Recorded == \A e \in Events : written'[e] > 0 =>
               \/ Hash[e] \in matchedTemplates' \cup forgotten' \cup metOther'
               \/ \E b \in Actors : pc'[b] \in {"store", "flag"} /\ HashAt(b)' = Hash[e]
        Met == \A b \in Actors :
               pc'[b] \in {"take", "put", "each", "process", "write"}
               /\ HashAt(b)' \in matchedTemplates'
                   => HashAt(b)' \in metOther'
        Once == \A e, f \in Events :
               (e # f /\ Hash[e] = Hash[f] /\ written'[e] > 0 /\ written'[f] > 0) =>
                   Hash[e] \in metOther' \cup forgotten'
  <2>q. Recorded /\ Met /\ Once => FlagInv'
    <3>1. Recorded /\ Met /\ Once => StopsAtFirstMatch'
      BY DEF StopsAtFirstMatch
    <3> QED
      BY <2>a, <3>1 DEF FlagInv, PastCheck
  <2>1. ASSUME NEW a \in Actors, GoesOn(a) PROVE FlagInv'
    <3>1. PICK x \in PCs : Move(a, x) /\ Sound(a, x)
      BY <2>1 DEF GoesOn
    <3>2. UNCHANGED <<written, matchedTemplates, forgotten>>
      BY <2>1 DEF GoesOn
    <3>3. \A b \in Actors : b # a => pc'[b] = pc[b] /\ HashAt(b)' = HashAt(b)
      BY <3>1, OthersStay
    <3>4. pc'[a] = x /\ (pc[a] # "idle" /\ x # "idle" => HashAt(a)' = HashAt(a))
      BY <3>1, MoverStays
    <3>5. Recorded
      BY <2>b, <2>m, <3>1, <3>2, <3>3 DEF Sound
    <3>6. ASSUME x \in {"take", "put", "each", "process", "write"},
                 HashAt(a)' \in matchedTemplates'
          PROVE  HashAt(a)' \in metOther'
      <4>1. pc[a] # "idle" /\ HashAt(a)' = HashAt(a)
        BY <3>1, <3>4, <3>6 DEF Sound, PastCheck
      <4>2. PastCheck(a)
        BY <2>c, <3>1, <3>2, <3>6, <4>1 DEF Sound
      <4> QED
        BY <2>b, <2>m, <3>2, <3>6, <4>1, <4>2
    <3>7. Met
      <4>1. \A b \in Actors : b # a /\ PastCheck(b) /\ HashAt(b) \in matchedTemplates
                => HashAt(b)' \in metOther'
        BY <2>b, <2>m, <3>3
      <4> QED
        BY <3>2, <3>3, <3>4, <3>6, <4>1 DEF PastCheck
    <3>8. Once
      BY <2>b, <2>m, <3>2
    <3> QED
      BY <2>q, <3>5, <3>7, <3>8
  <2>2. ASSUME NEW a \in Actors, Writes(a) PROVE FlagInv'
    <3>1. /\ Move(a, "store") /\ pc[a] = "write"
          /\ written' = [written EXCEPT ![EventAt(a)] = @ + 1]
          /\ UNCHANGED <<matchedTemplates, forgotten>>
      BY <2>2 DEF Writes
    <3>e. EventAt(a) \in Events /\ Hash[EventAt(a)] = HashAt(a)
      BY <3>1, EventInHand DEF Processing
    <3>2. \A b \in Actors : b # a => pc'[b] = pc[b] /\ HashAt(b)' = HashAt(b)
      BY <3>1, OthersStay DEF PCs
    <3>3. pc'[a] = "store" /\ HashAt(a)' = HashAt(a)
      BY <3>1, MoverStays DEF PCs
    <3>4. \A e \in Events : e # EventAt(a) => written'[e] = written[e]
      BY <3>1, <3>e DEF TypeOK
    <3>5. Recorded
      BY <2>b, <2>m, <3>1, <3>e, <3>2, <3>3, <3>4
    <3>6. Met
      BY <2>b, <2>m, <3>1, <3>2, <3>3 DEF PastCheck
    <3>7. ASSUME NEW f \in Events, f # EventAt(a), Hash[f] = HashAt(a), written[f] > 0
          PROVE  Hash[f] \in metOther \cup forgotten
      <4>1. CASE Hash[f] \in matchedTemplates
        BY <2>b, <3>1, <3>7, <4>1 DEF PastCheck
      <4>2. CASE \E b \in Actors : pc[b] \in {"store", "flag"} /\ HashAt(b) = Hash[f]
        <5>1. PICK b \in Actors : pc[b] \in {"store", "flag"} /\ HashAt(b) = Hash[f]
          BY <4>2
        <5>2. a # b /\ Busy(a) /\ Busy(b)
          BY <3>1, <5>1 DEF Busy
        <5> QED
          BY <2>b, <3>7, <5>1, <5>2
      <4> QED
        BY <2>b, <3>7, <4>1, <4>2
    <3>8. Once
      <4>1. ASSUME NEW e \in Events, NEW f \in Events, e # f, Hash[e] = Hash[f],
                   written'[e] > 0, written'[f] > 0
            PROVE  Hash[e] \in metOther' \cup forgotten'
        <5>1. CASE e # EventAt(a) /\ f # EventAt(a)
          BY <2>b, <2>m, <3>1, <3>e, <3>4, <4>1, <5>1
        <5>2. CASE e = EventAt(a)
          BY <2>m, <3>1, <3>e, <3>4, <3>7, <4>1, <5>2
        <5>3. CASE f = EventAt(a)
          BY <2>m, <3>1, <3>e, <3>4, <3>7, <4>1, <5>3
        <5> QED
          BY <5>1, <5>2, <5>3
      <4> QED
        BY <4>1
    <3> QED
      BY <2>q, <3>5, <3>6, <3>8
  <2>3. ASSUME NEW a \in Actors, Stores(a) PROVE FlagInv'
    <3>1. Move(a, "flag") /\ pc[a] = "store" /\ UNCHANGED <<written, matchedTemplates, forgotten>>
      BY <2>3 DEF Stores
    <3>2. \A b \in Actors : b # a => pc'[b] = pc[b] /\ HashAt(b)' = HashAt(b)
      BY <3>1, OthersStay DEF PCs
    <3>3. pc'[a] = "flag" /\ HashAt(a)' = HashAt(a)
      BY <3>1, MoverStays DEF PCs
    <3>4. Recorded
      BY <2>b, <2>m, <3>1, <3>2, <3>3
    <3>5. Met
      BY <2>b, <2>m, <3>1, <3>2, <3>3 DEF PastCheck
    <3>6. Once
      BY <2>b, <2>m, <3>1
    <3> QED
      BY <2>q, <3>4, <3>5, <3>6
  <2>4. ASSUME NEW a \in Actors, Flags(a) PROVE FlagInv'
    <3>1. PICK x \in {"idle", "next"} : Move(a, x)
      BY <2>4 DEF Flags
    <3>2. /\ pc[a] = "flag" /\ UNCHANGED <<written, forgotten>>
          /\ matchedTemplates' = matchedTemplates \cup {HashAt(a)}
      BY <2>4, <2>c DEF Flags
    <3>3. \A b \in Actors : b # a => pc'[b] = pc[b] /\ HashAt(b)' = HashAt(b)
      BY <3>1, OthersStay DEF PCs
    <3>4. pc'[a] = x
      BY <3>1, MoverStays DEF PCs
    <3>5. Recorded
      BY <2>b, <2>m, <3>2, <3>3
    <3>6. ASSUME NEW b \in Actors, b # a, PastCheck(b), HashAt(b) \in matchedTemplates'
          PROVE  HashAt(b) \in metOther
      <4>1. CASE HashAt(b) = HashAt(a)
        <5>1. Busy(a) /\ Busy(b)
          BY <3>2, <3>6 DEF Busy, PastCheck
        <5> QED
          BY <2>b, <3>6, <4>1, <5>1
      <4>2. CASE HashAt(b) # HashAt(a)
        BY <2>b, <3>2, <3>6, <4>2
      <4> QED
        BY <4>1, <4>2
    <3>7. Met
      BY <2>m, <3>3, <3>4, <3>6 DEF PastCheck
    <3>8. Once
      BY <2>b, <2>m, <3>2
    <3> QED
      BY <2>q, <3>5, <3>7, <3>8
  <2>5. CASE Forgets
    <3>1. \A b \in Actors : pc'[b] = pc[b] /\ HashAt(b)' = HashAt(b)
      BY <2>5 DEF Forgets, HashAt
    <3>2. /\ \A h \in matchedTemplates : h \in matchedTemplates' \cup forgotten'
          /\ matchedTemplates' \subseteq matchedTemplates /\ forgotten \subseteq forgotten'
          /\ written' = written
      BY <2>5 DEF Forgets
    <3>3. Recorded
      BY <2>b, <2>m, <3>1, <3>2
    <3>4. Met
      BY <2>b, <2>m, <3>1, <3>2 DEF PastCheck
    <3>5. Once
      BY <2>b, <2>m, <3>2
    <3> QED
      BY <2>q, <3>3, <3>4, <3>5
  <2>6. CASE Closes
    BY <2>6 DEF Closes
  <2> QED
    BY <1>n, <2>1, <2>2, <2>3, <2>4, <2>5, <2>6, StepKinds
<1> QED
  BY <1>u, <1>n
-----------------------------------------------------------------------------
\* The types, the places and the four facts about matches hold of every
\* reachable state.
THEOREM InteractshInvariant == Spec => []InteractshInv
<1>1. Init => InteractshInv
  <2> SUFFICES ASSUME Init PROVE InteractshInv
    OBVIOUS
  <2> USE EventsAreActors
  <2>1. \A e \in Events : UrlsOf[e] \in Seq(Ids) /\ Len(UrlsOf[e]) \in Nat
    BY InteractshAssumption
  <2>2. /\ pc = [a \in Actors |-> IF a = Poller THEN "idle" ELSE "next"]
        /\ url = [e \in Events |-> 1] /\ written = [e \in Events |-> 0]
        /\ matchedTemplates = {} /\ interactshMatched = {} /\ closed = FALSE
        /\ requests = [i \in Ids |-> None] /\ holder = None
    BY DEF Init
  <2>3. pc[Poller] = "idle" /\ \A e \in Events : pc[e] = "next"
    BY <2>2
  <2>4. TypeOK
    <3>1. \A e \in Events : url[e] \in 1..(Len(UrlsOf[e]) + 1)
      BY <2>1, <2>2
    <3>2. <<>> \in Seq(Interactions) /\ 0 \in 0..MaxInteractions
      BY InteractshAssumption
    <3> QED
      BY <3>1, <3>2 DEF Init, TypeOK, PCs
  <2>5. PlaceInv
    BY <2>3 DEF PlaceInv, Processing
  <2>6. WriteInv
    BY <2>2, <2>3 DEF WriteInv, WrittenOnce, Busy
  <2>7. CloseInv
    BY <2>2 DEF CloseInv
  <2>8. FlagInv
    BY <2>2, <2>3 DEF FlagInv, StopsAtFirstMatch, PastCheck, Busy, Actors
  <2>9. HolderInv
    BY <2>2, <2>3 DEF HolderInv, Processing
  <2> QED
    BY <2>4, <2>5, <2>6, <2>7, <2>8, <2>9 DEF InteractshInv
<1>2. InteractshInv /\ [Next]_vars => InteractshInv'
  BY TypeStep, PlaceStep, HolderStep, WriteStep, CloseStep, FlagStep DEF InteractshInv
<1> QED
  BY <1>1, <1>2, PTL DEF Spec

\* Two interactions of one event write it twice only when the poller and its
\* request process them at the same time.
THEOREM EventsAreWrittenOnce == Spec => []WrittenOnce
<1>1. InteractshInv => WrittenOnce
  BY DEF InteractshInv, WriteInv
<1> QED
  BY <1>1, InteractshInvariant, PTL

\* A template that stops at its first match reports a second event of a host
\* only when two goroutines had both in hand, or the cache dropped the match.
THEOREM TemplatesStopAtFirstMatch == Spec => []StopsAtFirstMatch
<1>1. ASSUME InteractshInv PROVE StopsAtFirstMatch
  BY <1>1 DEF InteractshInv, FlagInv, StopsAtFirstMatch
<1> QED
  BY <1>1, InteractshInvariant, PTL

\* What Close answers covers every write, unless it cut a callback off.
THEOREM CloseTellsTheScan == Spec => []CloseTells
<1>1. ASSUME InteractshInv, closed, ~answer, ~cutOff, NEW e \in Events
      PROVE  written[e] = 0
  <2>1. ~matched /\ pc[Poller] = "idle" /\ \A f \in Events : pc[f] = "done"
    BY <1>1 DEF InteractshInv, CloseInv
  <2>2. interactshMatched = {}
    BY <1>1, <2>1 DEF InteractshInv, WriteInv
  <2>3. \A a \in Actors : pc[a] # "store"
    BY <2>1 DEF Actors
  <2>4. ~(written[e] > 0)
    BY <1>1, <2>2, <2>3 DEF InteractshInv, WriteInv
  <2> QED
    BY <1>1, <2>4 DEF InteractshInv, TypeOK
<1>2. InteractshInv => CloseTells
  BY <1>1 DEF CloseTells
<1> QED
  BY <1>2, InteractshInvariant, PTL

\* The types of the model: no step of the poller, of RequestEvent or of the
\* caches leaves them.
THEOREM InteractshTypes == Spec => []TypeOK
<1>1. InteractshInv => TypeOK
  BY DEF InteractshInv
<1> QED
  BY <1>1, InteractshInvariant, PTL
-----------------------------------------------------------------------------
(* Hits *)

\* A hit among interactions is the first or one of the others.
LEMMA HitsIn ==
    ASSUME NEW s \in Seq(Interactions), NEW x \in Interactions
    PROVE  /\ \A e : HasHit(Append(s, x), e) <=> HasHit(s, e) \/ e \in x.matches
           /\ \A e : s # <<>> /\ HasHit(s, e) => e \in Head(s).matches \/ HasHit(Tail(s), e)
           /\ \A i : (\A m \in DOMAIN s : s[m].id = i) /\ x.id = i
                        => \A m \in DOMAIN Append(s, x) : Append(s, x)[m].id = i
           /\ \A i : s # <<>> /\ (\A m \in DOMAIN s : s[m].id = i)
                        => Head(s).id = i /\ \A m \in DOMAIN Tail(s) : Tail(s)[m].id = i
<1> DEFINE n == Len(s)
           y == Append(s, x)
           t == Tail(s)
<1>1. /\ n \in Nat /\ DOMAIN s = 1..n
      /\ DOMAIN y = 1..(n + 1) /\ \A m \in 1..n : y[m] = s[m]
      /\ y[n + 1] = x
  OBVIOUS
<1>2. s # <<>> => /\ n > 0 /\ Head(s) = s[1] /\ DOMAIN t = 1..(n - 1)
                  /\ \A m \in 1..(n - 1) : t[m] = s[m + 1]
  OBVIOUS
<1> HIDE DEF n, y, t
<1>3. \A e : HasHit(y, e) <=> HasHit(s, e) \/ e \in x.matches
  <2> TAKE e
  <2>1. HasHit(y, e) <=> \E m \in 1..(n + 1) : e \in y[m].matches
    BY <1>1 DEF HasHit
  <2>2. HasHit(s, e) <=> \E m \in 1..n : e \in s[m].matches
    BY <1>1 DEF HasHit
  <2> QED
    BY <1>1, <2>1, <2>2
<1>4. \A e : s # <<>> /\ HasHit(s, e) => e \in Head(s).matches \/ HasHit(t, e)
  <2> SUFFICES ASSUME NEW e, s # <<>>, NEW m \in 1..n, e \in s[m].matches
               PROVE  e \in Head(s).matches \/ HasHit(t, e)
    BY <1>1 DEF HasHit
  <2>1. CASE m = 1
    BY <1>2, <2>1
  <2>2. CASE m # 1
    <3>1. m - 1 \in 1..(n - 1) /\ t[m - 1] = s[m]
      BY <1>1, <1>2, <2>2
    <3> QED
      BY <1>2, <3>1 DEF HasHit
  <2> QED
    BY <2>1, <2>2
<1>5. \A i : (\A m \in DOMAIN s : s[m].id = i) /\ x.id = i => \A m \in DOMAIN y : y[m].id = i
  <2>1. \A m \in DOMAIN y : m \in 1..n \/ m = n + 1
    BY <1>1
  <2> QED
    BY <1>1, <2>1
<1>6. \A i : s # <<>> /\ (\A m \in DOMAIN s : s[m].id = i)
                => Head(s).id = i /\ \A m \in DOMAIN t : t[m].id = i
  <2>1. s # <<>> => 1 \in DOMAIN s /\ \A m \in 1..(n - 1) : m + 1 \in DOMAIN s
    BY <1>1, <1>2
  <2> QED
    BY <1>2, <2>1
<1> QED
  BY <1>3, <1>4, <1>5, <1>6 DEF y, t

\* An ID is of one URL of an event at most.
LEMMA OneUrl ==
    ASSUME NEW e \in Events, NEW n \in 1..Len(UrlsOf[e])
    PROVE  /\ UrlsOf[e][n] \in Ids /\ Carries(e, UrlsOf[e][n]) /\ n \in Nat
           /\ \A m \in 1..Len(UrlsOf[e]) : UrlsOf[e][m] = UrlsOf[e][n] => m = n
<1>1. UrlsOf[e] \in Seq(Ids)
  BY InteractshAssumption
<1>2. UrlsOf[e][n] \in Ids
  BY <1>1
<1>3. \A m \in 1..Len(UrlsOf[e]) : UrlsOf[e][m] = UrlsOf[e][n] => m = n
  BY InteractshAssumption
<1> QED
  BY <1>2, <1>3 DEF Carries

\* What each step does to the actor that takes it.
LEMMA IdStep == InteractshInv /\ IdInv /\ [Next]_vars => IdInv'
<1> SUFFICES ASSUME InteractshInv, IdInv, [Next]_vars PROVE IdInv'
  OBVIOUS
<1>0. TypeOK /\ PlaceInv
  BY DEF InteractshInv
<1>p. /\ pc[Poller] # "idle" => current[Poller] \in Interactions /\ current[Poller].id \in Ids
      /\ \A e \in Events : /\ pc[e] \in Processing => current[e] \in Interactions
                           /\ pc[e] \notin {"next", "done"} => Id(e) \in Ids
  BY <1>0, IdIsId DEF PlaceInv, Interactions, Processing
<1> USE EventsAreActors DEF caches, local, history, To
<1>t. /\ pc \in [Actors -> PCs] /\ current \in [Actors -> Interactions \cup {Nothing}]
      /\ interactions \in [Ids -> Seq(Interactions)] /\ items \in Seq(Interactions)
      /\ todo \in [Events -> Seq(Interactions)] /\ url \in [Events -> Nat]
  BY <1>0 DEF TypeOK
<1>u. CASE UNCHANGED vars
  BY <1>u DEF vars, IdInv, Id
<1>1. ASSUME NEW i \in Ids, NEW ms \in SUBSET Events, Arrive(i, ms),
             \A e \in ms : Carries(e, i)
      PROVE  IdInv'
  <2>1. hits' = hits \cup ({i} \X ms)
    BY <1>1 DEF Arrive
  <2>2. \A k \in Ids, e \in Events : <<k, e>> \in hits' => Carries(e, k)
    BY <1>1, <2>1 DEF IdInv
  <2> QED
    BY <1>1, <1>t, <2>2 DEF Arrive, IdInv, Id
<1>2. CASE LookupRequest
  BY <1>2, <1>t DEF LookupRequest, IdInv, Id
<1>3. CASE LookupWaiting
  BY <1>3, <1>t, <1>p DEF LookupWaiting, IdInv, Id
<1>4. CASE Keep
  <2>1. \A m \in DOMAIN Append(items, current[Poller]) :
           Append(items, current[Poller])[m].id = current[Poller].id
    BY <1>4, <1>t, <1>p, HitsIn DEF Keep, IdInv
  <2>2. /\ pc' = [pc EXCEPT ![Poller] = "idle"]
        /\ interactions' = [interactions EXCEPT ![current[Poller].id] = Append(items, current[Poller])]
        /\ current' = [current EXCEPT ![Poller] = Nothing] /\ UNCHANGED <<todo, url, hits>>
    BY <1>4 DEF Keep
  <2> QED
    BY <1>t, <1>p, <2>1, <2>2 DEF IdInv, Id
<1>5. CASE CheckMatched
  BY <1>5, <1>t DEF CheckMatched, IdInv, Id
<1>6. ASSUME NEW e \in Events, Enter(e) PROVE IdInv'
  BY <1>6, <1>t DEF Enter, IdInv, Id, Processing
<1>7. ASSUME NEW e \in Events, CheckStop(e) PROVE IdInv'
  BY <1>7, <1>t DEF CheckStop, IdInv, Id, Processing
<1>8. ASSUME NEW e \in Events, TakeWaiting(e) PROVE IdInv'
  <2>1. /\ \E x \in {"put", "each"} : pc' = [pc EXCEPT ![e] = x]
        /\ todo' = [todo EXCEPT ![e] = interactions[Id(e)]]
        /\ UNCHANGED <<interactions, items, url, current, hits>>
    BY <1>8 DEF TakeWaiting
  <2>2. \A m \in DOMAIN interactions[Id(e)] : interactions[Id(e)][m].id = Id(e)
    BY <1>8, <1>p DEF TakeWaiting, IdInv
  <2>3. \A f \in Events : Id(f)' = Id(f)
    BY <2>1 DEF Id
  <2>4. /\ \A f \in Events : pc'[f] \in {"each"} \cup Processing =>
              \A m \in DOMAIN todo'[f] : todo'[f][m].id = Id(f)
        /\ \A f \in Events : pc'[f] \in Processing => current'[f].id = Id(f)
    BY <1>t, <2>1, <2>2 DEF IdInv, Processing
  <2> QED
    BY <1>t, <2>1, <2>3, <2>4 DEF IdInv
<1>9. ASSUME NEW e \in Events, PutRequest(e) PROVE IdInv'
  BY <1>9, <1>t DEF PutRequest, IdInv, Id, Processing
<1>10. ASSUME NEW e \in Events, TakeNext(e) PROVE IdInv'
  <2>1. Head(todo[e]).id = Id(e) /\ \A m \in DOMAIN Tail(todo[e]) : Tail(todo[e])[m].id = Id(e)
    <3>1. /\ todo[e] \in Seq(Interactions) /\ todo[e] # <<>>
          /\ \A m \in DOMAIN todo[e] : todo[e][m].id = Id(e)
      BY <1>10, <1>t DEF TakeNext, IdInv
    <3>2. Head(todo[e]) \in Interactions
      BY <3>1
    <3> QED
      BY <3>1, <3>2, HitsIn
  <2>2. /\ pc' = [pc EXCEPT ![e] = "process"] /\ current' = [current EXCEPT ![e] = Head(todo[e])]
        /\ todo' = [todo EXCEPT ![e] = Tail(@)] /\ UNCHANGED <<interactions, items, url, hits>>
    BY <1>10 DEF TakeNext
  <2> QED
    BY <1>t, <2>1, <2>2 DEF IdInv, Id
<1>11. ASSUME NEW e \in Events, NoneMatched(e) PROVE IdInv'
  BY <1>11, <1>t DEF NoneMatched, IdInv, Id, Processing
<1>l. ASSUME NEW a \in Actors, pc[a] \in Processing, NEW hit \in BOOLEAN, Leave(a, hit),
             UNCHANGED <<items, hits>>
      PROVE  IdInv'
  <2>1. CASE a = Poller
    BY <1>l, <1>t, <2>1 DEF Leave, IdInv, Id
  <2>2. CASE a # Poller /\ hit
    <3>1. a \in Events /\ Id(a) \in Ids
      BY <1>l, <1>p, <2>2 DEF Actors, Processing
    <3>2. /\ pc' = [pc EXCEPT ![a] = "next"] /\ current' = [current EXCEPT ![a] = Nothing]
          /\ todo' = [todo EXCEPT ![a] = <<>>] /\ url' = [url EXCEPT ![a] = @ + 1]
          /\ interactions' = [interactions EXCEPT ![Id(a)] = <<>>]
      BY <1>l, <2>2 DEF Leave
    <3>3. \A f \in Events : f # a => Id(f)' = Id(f)
      BY <1>t, <3>2 DEF Id
    <3>4. \A i \in Ids : \A m \in DOMAIN interactions'[i] : interactions'[i][m].id = i
      BY <1>t, <3>1, <3>2 DEF IdInv
    <3> QED
      BY <1>l, <1>t, <3>1, <3>2, <3>3, <3>4 DEF IdInv, Processing
  <2>3. CASE a # Poller /\ ~hit
    <3>1. a \in Events
      BY <2>3 DEF Actors
    <3>2. /\ pc' = [pc EXCEPT ![a] = "each"] /\ current' = [current EXCEPT ![a] = Nothing]
          /\ UNCHANGED <<todo, url, interactions>>
      BY <1>l, <2>3 DEF Leave
    <3>3. \A f \in Events : Id(f)' = Id(f)
      BY <3>2 DEF Id
    <3> QED
      BY <1>l, <1>t, <3>1, <3>2, <3>3 DEF IdInv, Processing
  <2> QED
    BY <2>1, <2>2, <2>3
<1>m. ASSUME NEW a \in Actors, pc[a] \in Processing, NEW x \in {"write", "store", "flag"},
             pc' = [pc EXCEPT ![a] = x], UNCHANGED <<current, todo, url, interactions, items, hits>>
      PROVE  IdInv'
  BY <1>m, <1>t DEF IdInv, Id, Processing
<1>12. ASSUME NEW a \in Actors, Match(a) PROVE IdInv'
  BY <1>12, <1>l, <1>m DEF Match, Processing
<1>13. ASSUME NEW a \in Actors, WriteResult(a) PROVE IdInv'
  BY <1>13, <1>l, <1>m DEF WriteResult, Processing
<1>14. ASSUME NEW a \in Actors, StoreMatched(a) PROVE IdInv'
  BY <1>14, <1>m DEF StoreMatched, Processing
<1>15. ASSUME NEW a \in Actors, FlagTemplate(a) PROVE IdInv'
  <2>1. pc[a] \in Processing /\ Leave(a, TRUE) /\ UNCHANGED <<items, hits>>
    BY <1>15 DEF FlagTemplate, Processing
  <2> QED
    BY <1>l, <2>1
<1>16. CASE Forget
  <2>1. /\ UNCHANGED <<pc, url, todo, current, items, hits>>
        /\ \/ UNCHANGED interactions
           \/ \E i \in Ids : interactions' = [interactions EXCEPT ![i] = <<>>]
    BY <1>16 DEF Forget
  <2>2. \A f \in Events : Id(f)' = Id(f)
    BY <2>1 DEF Id
  <2>3. \A i \in Ids : \A m \in DOMAIN interactions'[i] : interactions'[i][m].id = i
    <3>1. \A i \in Ids : \A m \in DOMAIN interactions[i] : interactions[i][m].id = i
      BY DEF IdInv
    <3>2. \A i \in Ids : interactions'[i] = interactions[i] \/ interactions'[i] = <<>>
      BY <1>t, <2>1
    <3>3. DOMAIN <<>> = {}
      OBVIOUS
    <3> QED
      BY <3>1, <3>2, <3>3
  <2> QED
    BY <2>1, <2>2, <2>3 DEF IdInv
<1>17. CASE Close
  BY <1>17, <1>t DEF Close, IdInv, Id
<1> QED
  BY <1>u, <1>1, <1>2, <1>3, <1>4, <1>5, <1>6, <1>7, <1>8, <1>9, <1>10, <1>11, <1>12, <1>13,
     <1>14, <1>15, <1>16, <1>17, Polls DEF Next, RequestEvent, Process

\* What was told of an event stays true until Close.
LEMMA ToldStays ==
    ASSUME InteractshInv, Next, ~closed', NEW e \in Events, Told(e)
    PROVE  Told(e)'
<1>1. TypeOK /\ PlaceInv /\ HolderInv
  BY DEF InteractshInv
<1>2. CASE \E a \in Actors : GoesOn(a)
  BY <1>2 DEF GoesOn, Move, Told
<1>3. CASE \E a \in Actors : Writes(a)
  <2>1. PICK a \in Actors : Writes(a)
    BY <1>3
  <2>2. written[e] \in Nat
    BY <1>1 DEF TypeOK
  <2>3. written' = [written EXCEPT ![EventAt(a)] = @ + 1] /\ written \in [Events -> Nat]
    BY <1>1, <2>1 DEF Writes, TypeOK
  <2>4. written[e] > 0 => written'[e] > 0
    BY <2>2, <2>3
  <2> QED
    BY <2>1, <2>4 DEF Writes, Move, Told
<1>4. CASE \E a \in Actors : Stores(a)
  BY <1>4 DEF Stores, Move, Told
<1>5. CASE \E a \in Actors : Flags(a)
  BY <1>5 DEF Flags, Move, Told
<1>6. CASE Forgets
  BY <1>6 DEF Forgets, Told
<1>7. CASE Closes
  BY <1>7 DEF Closes
<1> QED
  BY <1>1, <1>2, <1>3, <1>4, <1>5, <1>6, <1>7, StepKinds

LEMMA MarkStep == InteractshInv /\ MarkInv /\ [Next]_vars => MarkInv'
<1> SUFFICES ASSUME InteractshInv, MarkInv, [Next]_vars PROVE MarkInv'
  OBVIOUS
<1>u. CASE UNCHANGED vars
  BY <1>u DEF vars, caches, local, history, MarkInv, Told, EventAt, Matches
<1>n. CASE Next
  <2>0. /\ TypeOK /\ PlaceInv /\ HolderInv
        /\ pc \in [Actors -> PCs] /\ written \in [Events -> Nat]
        /\ current \in [Actors -> Interactions \cup {Nothing}] /\ url \in [Events -> Nat]
    BY DEF InteractshInv, TypeOK
  <2>i. \A a \in Actors : pc[a] \in Processing => EventAt(a) \in Events
    BY <2>0, EventInHand
  <2>1. /\ \A e \in interactshMatched' : written'[e] > 0
        /\ \A a \in Actors : pc'[a] \in {"store", "flag"} => written'[EventAt(a)'] > 0
    <3>1. /\ interactshMatched \subseteq Events /\ \A e \in interactshMatched : written[e] > 0
          /\ \A a \in Actors : pc[a] \in {"store", "flag"} => written[EventAt(a)] > 0
      BY <2>0 DEF MarkInv, TypeOK
    <3>2. CASE \E a \in Actors : GoesOn(a)
      <4>1. PICK a \in Actors, x \in PCs :
               /\ Move(a, x) /\ Sound(a, x) /\ UNCHANGED <<written, interactshMatched>>
        BY <3>2 DEF GoesOn
      <4> QED
        BY <2>0, <3>1, <4>1 DEF Move, Sound
    <3>3. CASE \E a \in Actors : Writes(a)
      <4>1. PICK a \in Actors : Writes(a)
        BY <3>3
      <4>2. /\ written' = [written EXCEPT ![EventAt(a)] = @ + 1] /\ EventAt(a) \in Events
            /\ EventAt(a)' = EventAt(a) /\ UNCHANGED interactshMatched
            /\ pc' = [pc EXCEPT ![a] = "store"]
            /\ \A b \in Actors : b # a => EventAt(b)' = EventAt(b)
        BY <2>i, <4>1 DEF Writes, Move, Processing
      <4>3. \A e \in Events : written[e] > 0 \/ e = EventAt(a) => written'[e] > 0
        BY <2>0, <4>2
      <4>4. \A b \in Actors : pc[b] \in {"store", "flag"} => EventAt(b) \in Events
        BY <2>i DEF Processing
      <4>5. \A e \in interactshMatched' : written'[e] > 0
        BY <3>1, <4>2, <4>3
      <4>6. \A b \in Actors : b # a => pc'[b] = pc[b]
        BY <2>0, <4>2
      <4>7. \A b \in Actors : b # a /\ pc'[b] \in {"store", "flag"} => written'[EventAt(b)'] > 0
        BY <3>1, <4>2, <4>3, <4>4, <4>6
      <4>8. written'[EventAt(a)'] > 0
        BY <4>2, <4>3
      <4> QED
        BY <4>5, <4>7, <4>8
    <3>4. CASE \E a \in Actors : Stores(a)
      <4>1. PICK a \in Actors : Stores(a)
        BY <3>4
      <4>2. /\ pc[a] = "store" /\ pc' = [pc EXCEPT ![a] = "flag"] /\ EventAt(a)' = EventAt(a)
            /\ \A b \in Actors : b # a => EventAt(b)' = EventAt(b)
            /\ interactshMatched' = interactshMatched \cup {EventAt(a)} /\ written' = written
        BY <4>1 DEF Stores, Move, Processing
      <4>3. \A b \in Actors : EventAt(b)' = EventAt(b) /\ (b # a => pc'[b] = pc[b])
        BY <2>0, <4>2
      <4> QED
        BY <3>1, <4>2, <4>3
    <3>5. CASE \E a \in Actors : Flags(a)
      BY <2>0, <3>1, <3>5 DEF Flags, Move
    <3>6. CASE Forgets
      BY <3>1, <3>6 DEF Forgets, EventAt
    <3>7. CASE Closes
      BY <3>1, <3>7 DEF Closes, EventAt
    <3> QED
      BY <1>n, <2>0, <3>2, <3>3, <3>4, <3>5, <3>6, <3>7, StepKinds
  <2>2. \A a \in Actors : pc'[a] = "write" => Matches(a)'
    <3>1. \A a \in Actors : pc[a] = "write" => Matches(a)
      BY DEF MarkInv
    <3>m. ASSUME NEW b \in Actors,
                 \A a \in Actors : a # b => pc'[a] = pc[a] /\ current'[a] = current[a],
                 b # Poller => holder' = holder,
                 pc'[b] = "write" => Matches(b) /\ UNCHANGED <<current, holder>>
          PROVE  \A a \in Actors : pc'[a] = "write" => Matches(a)'
      BY <3>1, <3>m, EventsAreActors DEF Matches, EventAt
    <3>l. ASSUME NEW b \in Actors, NEW hit \in BOOLEAN, Leave(b, hit)
          PROVE  \A a \in Actors : pc'[a] = "write" => Matches(a)'
      <4>1. /\ \A a \in Actors : a # b => pc'[a] = pc[a] /\ current'[a] = current[a]
            /\ b # Poller => holder' = holder
            /\ pc'[b] # "write"
        BY <2>0, <3>l DEF Leave, To
      <4> QED
        BY <3>m, <4>1
    <3> USE <2>0, EventsAreActors DEF To, caches, local, history
    <3>2. CASE Poll
      <4>1. /\ \A a \in Actors : a # Poller => pc'[a] = pc[a] /\ current'[a] = current[a]
            /\ pc'[Poller] # "write"
        BY <3>2 DEF Poll, Arrive, LookupRequest, LookupWaiting, Keep, CheckMatched
      <4> QED
        BY <3>m, <4>1
    <3>3. ASSUME NEW e \in Events, RequestEvent(e)
          PROVE  \A a \in Actors : pc'[a] = "write" => Matches(a)'
      <4>1. /\ \A a \in Actors : a # e => pc'[a] = pc[a] /\ current'[a] = current[a]
            /\ pc'[e] # "write" /\ holder' = holder
        BY <3>3 DEF RequestEvent, Enter, CheckStop, TakeWaiting, PutRequest, TakeNext, NoneMatched
      <4> QED
        BY <3>m, <4>1
    <3>4. ASSUME NEW b \in Actors, Process(b)
          PROVE  \A a \in Actors : pc'[a] = "write" => Matches(a)'
      <4>1. CASE Match(b)
        <5>1. CASE Matches(b)
          BY <3>m, <4>1, <5>1 DEF Match
        <5>2. CASE ~Matches(b)
          BY <3>l, <4>1, <5>2 DEF Match
        <5> QED
          BY <5>1, <5>2
      <4>2. CASE WriteResult(b)
        <5>1. CASE EventAt(b) \in interactshMatched
          BY <3>l, <4>2, <5>1 DEF WriteResult
        <5>2. CASE EventAt(b) \notin interactshMatched
          <6>1. /\ \A a \in Actors : a # b => pc'[a] = pc[a] /\ current'[a] = current[a]
                /\ pc'[b] # "write" /\ holder' = holder
            BY <4>2, <5>2 DEF WriteResult
          <6> QED
            BY <3>m, <6>1
        <5> QED
          BY <5>1, <5>2
      <4>3. CASE StoreMatched(b)
        <5>1. /\ \A a \in Actors : a # b => pc'[a] = pc[a] /\ current'[a] = current[a]
              /\ pc'[b] # "write" /\ holder' = holder
          BY <4>3 DEF StoreMatched
        <5> QED
          BY <3>m, <5>1
      <4>4. CASE FlagTemplate(b)
        BY <3>l, <4>4 DEF FlagTemplate
      <4> QED
        BY <3>4, <4>1, <4>2, <4>3, <4>4 DEF Process
    <3>5. CASE Forget \/ Close
      <4>1. UNCHANGED <<pc, current, holder>>
        BY <3>5 DEF Forget, Close
      <4> QED
        BY <3>1, <4>1 DEF Matches, EventAt
    <3> QED
      BY <1>n, <3>2, <3>3, <3>4, <3>5 DEF Next
  <2>3. ASSUME ~closed', NEW f \in Events, pc'[f] = "done"
        PROVE  url'[f] > Len(UrlsOf[f]) \/ Told(f)'
    <3>1. ~closed => (pc[f] = "done" => url[f] > Len(UrlsOf[f]) \/ Told(f))
      BY DEF MarkInv
    <3>t. Told(f) => Told(f)'
      BY <1>n, <2>3, ToldStays
    <3> USE <2>0, <2>3, <3>1, <3>t, EventsAreActors DEF To, caches, local, history
    <3>2. CASE Poll
      BY <3>2 DEF Poll, Arrive, LookupRequest, LookupWaiting, Keep, CheckMatched
    <3>3. ASSUME NEW e \in Events, RequestEvent(e)
          PROVE  url'[f] > Len(UrlsOf[f]) \/ Told(f)'
      <4>1. CASE Enter(e)
        BY <4>1 DEF Enter
      <4>2. CASE CheckStop(e)
        BY <4>2 DEF CheckStop, Stopped, Told
      <4>3. CASE TakeWaiting(e) \/ TakeNext(e)
        BY <4>3 DEF TakeWaiting, TakeNext
      <4>4. CASE PutRequest(e) \/ NoneMatched(e)
        BY <4>4 DEF PutRequest, NoneMatched
      <4> QED
        BY <3>3, <4>1, <4>2, <4>3, <4>4 DEF RequestEvent
    <3>4. ASSUME NEW b \in Actors, pc[b] \in Processing, NEW hit \in BOOLEAN, Leave(b, hit),
                 UNCHANGED closed
          PROVE  url'[f] > Len(UrlsOf[f]) \/ Told(f)'
      BY <3>4 DEF Leave, Processing
    <3>5. ASSUME NEW b \in Actors, Process(b)
          PROVE  url'[f] > Len(UrlsOf[f]) \/ Told(f)'
      <4>1. CASE Match(b)
        BY <3>4, <4>1 DEF Match, Processing
      <4>2. CASE WriteResult(b)
        BY <3>4, <4>2 DEF WriteResult, Processing
      <4>3. CASE StoreMatched(b)
        BY <4>3 DEF StoreMatched
      <4>4. CASE FlagTemplate(b)
        <5>1. pc[b] \in Processing /\ Leave(b, TRUE) /\ UNCHANGED closed
          BY <4>4 DEF FlagTemplate, Processing
        <5> QED
          BY <3>4, <5>1
      <4> QED
        BY <3>5, <4>1, <4>2, <4>3, <4>4 DEF Process
    <3>6. CASE Forget \/ Close
      BY <3>6 DEF Forget, Close
    <3> QED
      BY <1>n, <3>2, <3>3, <3>5, <3>6 DEF Next
  <2> QED
    BY <2>1, <2>2, <2>3 DEF MarkInv
<1> QED
  BY <1>u, <1>n

\* Where the hits of a URL are after a step.
LEMMA TrackStep ==
    ASSUME InteractshInv, InteractshInv', HitInv, Next, ~closed',
           NEW e \in Events, NEW n \in 1..Len(UrlsOf[e]), Regular(e, n)'
    PROVE  Track(e, n)'
<1> DEFINE i == UrlsOf[e][n]
<1> USE EventsAreActors
<1>0. /\ TypeOK /\ PlaceInv /\ HolderInv
      /\ pc \in [Actors -> PCs] /\ written \in [Events -> Nat]
      /\ current \in [Actors -> Interactions \cup {Nothing}] /\ url \in [Events -> Nat]
      /\ interactions \in [Ids -> Seq(Interactions)] /\ items \in Seq(Interactions)
      /\ todo \in [Events -> Seq(Interactions)] /\ requests \in [Ids -> Events \cup {None}]
  BY DEF InteractshInv, TypeOK
<1>1. /\ i \in Ids /\ Carries(e, i) /\ n \in Nat
      /\ \A m \in 1..Len(UrlsOf[e]) : UrlsOf[e][m] = i => m = n
  BY OneUrl
<1>2. ASSUME NEW f \in Events, pc[f] \notin {"next", "done"}
      PROVE  /\ url[f] \in 1..Len(UrlsOf[f])
             /\ Id(f) \in Ids /\ (f = e => (Id(f) = i <=> url[f] = n))
  <2>1. Len(UrlsOf[f]) \in Nat
    BY InteractshAssumption
  <2>2. url[f] <= Len(UrlsOf[f]) /\ url[f] \in 1..(Len(UrlsOf[f]) + 1)
    BY <1>0, <1>2 DEF PlaceInv, TypeOK
  <2>3. url[f] \in 1..Len(UrlsOf[f]) /\ Id(f) \in Ids
    BY <1>0, <2>1, <2>2, IdIsId
  <2> QED
    BY <1>1, <2>3 DEF Id
<1>3. ~closed
  BY DEF Next, Poll, RequestEvent, Process, Arrive, LookupRequest, LookupWaiting, Keep,
         CheckMatched, Enter, CheckStop, TakeWaiting, PutRequest, TakeNext, NoneMatched, Match,
         WriteResult, StoreMatched, FlagTemplate, Forget, Close
<1>4. Regular(e, n) /\ ~Diverts(i, e)
  <2>1. metPoller \subseteq metPoller'
    BY DEF Next, Together
  <2>2. stranded \subseteq stranded' /\ forgotten \subseteq forgotten'
    BY DEF Next, Poll, RequestEvent, Process, Arrive, LookupRequest, LookupWaiting, Keep,
         CheckMatched, Enter, CheckStop, TakeWaiting, PutRequest, TakeNext, NoneMatched, Match,
         WriteResult, StoreMatched, FlagTemplate, Forget, Close, history
  <2>3. diverted' = diverted \cup {p \in Ids \X Events : Diverts(p[1], p[2])}
    BY DEF Next, Divert
  <2>4. <<i, e>> \in Ids \X Events /\ <<i, e>>[1] = i /\ <<i, e>>[2] = e
    BY <1>1
  <2>5. e \notin metPoller' /\ i \notin forgotten' /\ <<i, e>> \notin stranded' \cup diverted'
    BY DEF Regular
  <2> HIDE DEF i
  <2>6. ~Diverts(i, e) /\ <<i, e>> \notin diverted
    BY <2>3, <2>4, <2>5
  <2>7. e \notin metPoller /\ i \notin forgotten /\ <<i, e>> \notin stranded \cup diverted
    BY <2>1, <2>2, <2>5, <2>6
  <2> QED
    BY <2>6, <2>7 DEF Regular, i
<1>5. Track(e, n)
  BY <1>3, <1>4 DEF HitInv
\* The event is not at work while the poller has something of it in hand.
<1>6. /\ Busy(e) /\ Busy(Poller) => current[Poller].id # i
      /\ Busy(e)' /\ Busy(Poller)' => current'[Poller].id # i
  <2>1. e \notin metPoller /\ e \notin metPoller'
    BY <1>4 DEF Regular
  <2>2. WriteInv /\ WriteInv'
    BY DEF InteractshInv
  <2>3. Busy(e) /\ Busy(Poller) /\ Carries(e, current[Poller].id) => e \in metPoller
    BY <2>2 DEF WriteInv
  <2>4. Busy(e)' /\ Busy(Poller)' /\ Carries(e, current'[Poller].id) => e \in metPoller'
    BY <2>2 DEF WriteInv
  <2> QED
    BY <1>1, <2>1, <2>3, <2>4
<1>7. Told(e) => Told(e)'
  BY ToldStays
<1>8. /\ \A f \in Events : pc[f] \in Processing => current[f].id = Id(f)
      /\ \A a \in Actors : /\ pc[a] = "write" => Matches(a)
                           /\ pc[a] \in {"store", "flag"} => written[EventAt(a)] > 0
      /\ pc[e] = "done" => url[e] > Len(UrlsOf[e]) \/ Told(e)
      /\ e \in interactshMatched => Told(e)
      /\ i \notin forgotten' /\ <<i, e>> \notin stranded'
  BY <1>3 DEF HitInv, IdInv, MarkInv, Told, Regular
<1>9. Len(UrlsOf[e]) \in Nat /\ n <= Len(UrlsOf[e]) /\ e # None
  BY InteractshAssumption DEF None
<1>f. (Matches(e) <=> e \in current[e].matches) /\ (Matches(e)' <=> e \in current'[e].matches)
  BY DEF Matches, EventAt
\* What the poller has in hand for the event, it has with the event.
<1>h. /\ holder # None <=> pc[Poller] \in {"check"} \cup Processing
      /\ EventAt(Poller) = holder /\ (Matches(Poller) <=> holder \in current[Poller].matches)
  BY <1>0 DEF HolderInv, Matches, EventAt
<1> HIDE DEF i
<1> DEFINE Rest ==
        \/ Told(e)'
        \/ /\ <<i, e>> \in hits' =>
                  \/ PollerHas(i)' /\ e \in current'[Poller].matches
                  \/ Before(e, n)' /\ HasHit(interactions'[i], e)
                  \/ AtUrl(e, n)' /\ (HasHit(todo'[e], e)
                                        \/ (pc'[e] # "each" /\ e \in current'[e].matches))
           /\ url'[e] > n =>
                  requests'[i] = e \/ (pc'[Poller] = "write" /\ PollerHas(i)' /\ holder' = e)
           /\ PollerHas(i)' /\ pc'[Poller] \in {"waiting", "keep"} => Before(e, n)'
    Kept ==
        /\ PollerHas(i)' /\ pc'[Poller] = "keep" /\ HasHit(interactions'[i], e) =>
               HasHit(items', e)
        /\ PollerHas(i)' /\ (e \in current'[Poller].matches \/ requests'[i] = e) =>
               holder' \in {None, e}
<1>t. \/ Told(e)'
      \/ /\ ~Told(e)
         /\ <<i, e>> \in hits =>
                \/ PollerHas(i) /\ e \in current[Poller].matches
                \/ Before(e, n) /\ HasHit(interactions[i], e)
                \/ AtUrl(e, n) /\ (HasHit(todo[e], e)
                                     \/ (pc[e] # "each" /\ e \in current[e].matches))
         /\ url[e] > n =>
                requests[i] = e \/ (pc[Poller] = "write" /\ PollerHas(i) /\ holder = e)
         /\ PollerHas(i) /\ pc[Poller] \in {"waiting", "keep"} => Before(e, n)
  BY <1>5, <1>7, <1>f DEF Track, i
<1>k. /\ PollerHas(i) /\ pc[Poller] = "keep" /\ HasHit(interactions[i], e) => HasHit(items, e)
      /\ PollerHas(i) /\ (e \in current[Poller].matches \/ requests[i] = e) => holder \in {None, e}
  BY <1>5 DEF Track, i
\* Of another event nothing matters but that it leaves this one alone.  It may
\* replace this one, or take its interactions, but then it is said to.
<1>d. ASSUME NEW f \in Events, f # e, pc'[f] # pc[f]
      PROVE  /\ requests[i] = e => requests'[i] = e
             /\ HasHit(interactions[i], e) => HasHit(interactions'[i], e)
  BY <1>4, <1>d DEF Diverts
<1>o. ASSUME NEW f \in Events, f # e, pc'[f] # pc[f],
             \A b \in Actors : b # f => pc'[b] = pc[b] /\ current'[b] = current[b],
             url'[e] = url[e], todo'[e] = todo[e], UNCHANGED <<hits, items, holder>>,
             requests'[i] = e => requests[i] = e,
             interactions'[i] \in {interactions[i], <<>>}
      PROVE  Rest /\ Kept
  <2>1. requests[i] = e <=> requests'[i] = e
    BY <1>d, <1>o
  <2>2. ~HasHit(<<>>, e)
    BY DEF HasHit
  <2>3. HasHit(interactions[i], e) <=> HasHit(interactions'[i], e)
    BY <1>d, <1>o, <2>2
  <2>4. pc'[Poller] = pc[Poller] /\ current'[Poller] = current[Poller]
    BY <1>o
  <2>5. pc'[e] = pc[e] /\ current'[e] = current[e]
    BY <1>o
  <2>6. PollerHas(i)' <=> PollerHas(i)
    BY <2>4 DEF PollerHas
  <2>7. (Before(e, n)' <=> Before(e, n)) /\ (AtUrl(e, n)' <=> AtUrl(e, n))
    BY <1>o, <2>5 DEF Before, AtUrl
  <2>8. Kept
    BY <1>k, <1>o, <2>1, <2>3, <2>4, <2>6
  <2>9. Rest
    BY <1>t, <1>o, <2>1, <2>3, <2>4, <2>5, <2>6, <2>7
  <2> QED
    BY <2>8, <2>9
<1>l. ASSUME NEW f \in Events, pc[f] \in Processing, NEW hit \in BOOLEAN, Leave(f, hit), f # e
      PROVE  /\ \A b \in Actors : b # f => pc'[b] = pc[b] /\ current'[b] = current[b]
             /\ url'[e] = url[e] /\ todo'[e] = todo[e] /\ holder' = holder
             /\ interactions'[i] \in {interactions[i], <<>>}
             /\ pc'[f] \in {"next", "each"}
  <2>1. f \in Actors /\ f # Poller
    OBVIOUS
  <2>2. CASE hit
    <3>1. /\ current' = [current EXCEPT ![f] = Nothing] /\ holder' = holder
          /\ pc' = [pc EXCEPT ![f] = "next"] /\ todo' = [todo EXCEPT ![f] = <<>>]
          /\ url' = [url EXCEPT ![f] = @ + 1]
          /\ interactions' = [interactions EXCEPT ![Id(f)] = <<>>]
      BY <1>l, <2>1, <2>2 DEF Leave, To
    <3>2. interactions'[i] \in {interactions[i], <<>>}
      BY <1>0, <1>1, <3>1
    <3> QED
      BY <1>0, <1>l, <2>1, <3>1, <3>2
  <2>3. CASE ~hit
    <3>1. /\ current' = [current EXCEPT ![f] = Nothing] /\ holder' = holder
          /\ pc' = [pc EXCEPT ![f] = "each"] /\ UNCHANGED <<todo, url, interactions>>
      BY <1>l, <2>1, <2>3 DEF Leave, To
    <3> QED
      BY <1>0, <2>1, <3>1
  <2> QED
    BY <2>2, <2>3
<1> USE DEF caches, local, history, To
<1>10. ASSUME NEW f \in Events, f # e, RequestEvent(f) PROVE Rest /\ Kept
  <2>1. /\ \A b \in Actors : b # f => pc'[b] = pc[b] /\ current'[b] = current[b]
        /\ url'[e] = url[e] /\ todo'[e] = todo[e]
        /\ UNCHANGED <<hits, items, holder, interactions>> /\ pc'[f] # pc[f]
    BY <1>0, <1>10
    DEF RequestEvent, Enter, CheckStop, TakeWaiting, PutRequest, TakeNext, NoneMatched
  <2>2. requests' = requests \/ (PutRequest(f) /\ requests' = [requests EXCEPT ![Id(f)] = f])
    BY <1>10
    DEF RequestEvent, Enter, CheckStop, TakeWaiting, PutRequest, TakeNext, NoneMatched
  <2>3. requests'[i] = e => requests[i] = e
    BY <1>0, <1>1, <1>10, <2>2
  <2> QED
    BY <1>10, <1>o, <2>1, <2>3
<1>11. ASSUME NEW f \in Events, f # e, Process(f) PROVE Rest /\ Kept
  <2>0. f \in Actors /\ f # Poller
    OBVIOUS
  <2>1. CASE Match(f)
    <3>1. pc[f] = "process" /\ pc[f] \in Processing /\ UNCHANGED <<hits, items>>
      BY <2>1 DEF Match, Processing
    <3>2. CASE Matches(f)
      <4>1. /\ requests' = [requests EXCEPT ![current[f].id] = None]
            /\ pc' = [pc EXCEPT ![f] = "write"]
            /\ UNCHANGED <<current, holder, todo, url, interactions>>
        BY <2>1, <3>2 DEF Match
      <4>2. requests'[i] = e => requests[i] = e
        BY <1>0, <1>1, <1>9, <4>1
      <4> QED
        BY <1>0, <1>11, <1>o, <2>0, <3>1, <4>1, <4>2
    <3>3. CASE ~Matches(f)
      <4>1. Leave(f, FALSE) /\ requests' = requests
        BY <2>1, <3>3 DEF Match
      <4> QED
        BY <1>11, <1>l, <1>o, <3>1, <4>1
    <3> QED
      BY <3>2, <3>3
  <2>2. CASE WriteResult(f)
    <3>1. pc[f] = "write" /\ pc[f] \in Processing /\ UNCHANGED <<hits, items, requests>>
      BY <2>2 DEF WriteResult, Processing
    <3>2. CASE EventAt(f) \in interactshMatched
      <4>1. Leave(f, TRUE)
        BY <2>2, <3>2 DEF WriteResult
      <4> QED
        BY <1>11, <1>l, <1>o, <3>1, <4>1
    <3>3. CASE EventAt(f) \notin interactshMatched
      <4>1. pc' = [pc EXCEPT ![f] = "store"] /\ UNCHANGED <<current, holder, todo, url, interactions>>
        BY <2>2, <3>3 DEF WriteResult
      <4> QED
        BY <1>0, <1>11, <1>o, <2>0, <3>1, <4>1
    <3> QED
      BY <3>2, <3>3
  <2>3. CASE StoreMatched(f)
    <3>1. /\ pc[f] = "store" /\ pc' = [pc EXCEPT ![f] = "flag"]
          /\ UNCHANGED <<requests, interactions, current, holder, todo, url, hits, items>>
      BY <2>3 DEF StoreMatched
    <3> QED
      BY <1>0, <1>11, <1>o, <2>0, <3>1
  <2>4. CASE FlagTemplate(f)
    <3>1. /\ pc[f] = "flag" /\ pc[f] \in Processing /\ UNCHANGED <<hits, items, requests>>
          /\ Leave(f, TRUE)
      BY <2>4 DEF FlagTemplate, Processing
    <3> QED
      BY <1>11, <1>l, <1>o, <3>1
  <2> QED
    BY <1>11, <2>1, <2>2, <2>3, <2>4 DEF Process
\* The event itself: while it is at work the poller has nothing of it in hand.
<1>w. ASSUME UNCHANGED <<items, hits, holder>>, pc'[Poller] = pc[Poller],
             current'[Poller] = current[Poller],
             \/ pc[e] \notin {"next", "done"}
             \/ interactions'[i] = interactions[i] /\ requests'[i] = requests[i]
      PROVE  Kept
  <2>1. pc[e] \notin {"next", "done"} => Busy(e)
    BY <1>0 DEF PlaceInv, Busy, Processing
  <2>2. PollerHas(i) => Busy(Poller)
    BY DEF PollerHas, Busy
  <2> QED
    BY <1>k, <1>6, <1>w, <2>1, <2>2 DEF PollerHas
<1>12. ASSUME RequestEvent(e) PROVE Rest /\ Kept
  <2>1. CASE Enter(e)
    <3>1. /\ pc' = [pc EXCEPT ![e] = IF url[e] > Len(UrlsOf[e]) THEN "done" ELSE "url"]
          /\ UNCHANGED <<requests, interactions, url, todo, current, items, hits, holder>>
          /\ pc[e] = "next"
      BY <2>1 DEF Enter
    <3>2. pc'[Poller] = pc[Poller] /\ url[e] \in Nat
      BY <1>0, <3>1
    <3>3. url[e] <= n => ~(url[e] > Len(UrlsOf[e]))
      BY <1>1, <1>9, <3>2
    <3>4. PollerHas(i)' => pc'[e] \in {"next", "done"}
      BY <1>6, <3>1 DEF PollerHas, Busy
    <3> QED
      BY <1>0, <1>t, <1>w, <3>1, <3>2, <3>3, <3>4 DEF PollerHas, Before, AtUrl
  <2>2. CASE CheckStop(e)
    <3>1. Stopped(e) => Told(e)
      BY DEF Stopped, Told
    <3>2. /\ pc[e] = "url" /\ UNCHANGED <<requests, interactions, url, todo, current, items, hits, holder>>
          /\ pc' = [pc EXCEPT ![e] = IF Stopped(e) THEN "done" ELSE "take"]
      BY <2>2 DEF CheckStop
    <3>3. pc'[e] = (IF Stopped(e) THEN "done" ELSE "take") /\ pc'[Poller] = pc[Poller]
      BY <1>0, <3>2
    <3>4. ~PollerHas(i)
      BY <1>6, <3>2 DEF PollerHas, Busy
    <3>5. Kept
      BY <1>w, <3>2, <3>3
    <3> HIDE DEF Kept
    <3>6. CASE Stopped(e)
      BY <1>7, <3>1, <3>5, <3>6
    <3>7. CASE ~Stopped(e)
      <4>1. pc'[e] = "take" /\ ~PollerHas(i)'
        BY <3>2, <3>3, <3>4, <3>7 DEF PollerHas
      <4>2. (Before(e, n) => Before(e, n)') /\ (url'[e] = url[e]) /\ ~AtUrl(e, n)
        BY <3>2, <4>1 DEF Before, AtUrl
      <4> QED
        BY <1>t, <3>2, <3>3, <3>4, <3>5, <4>1, <4>2
    <3> QED
      BY <3>6, <3>7
  <2>3. CASE TakeWaiting(e)
    <3>1. /\ pc[e] = "take" /\ UNCHANGED <<requests, interactions, url, current, items, hits, holder>>
          /\ todo' = [todo EXCEPT ![e] = interactions[Id(e)]]
          /\ pc' = [pc EXCEPT ![e] = IF interactions[Id(e)] = <<>> THEN "put" ELSE "each"]
      BY <2>3 DEF TakeWaiting
    <3>2. url[e] = n => Id(e) = i
      BY <1>2, <3>1
    <3>3. HasHit(interactions[i], e) => interactions[i] # <<>>
      BY DEF HasHit
    <3>4. ~PollerHas(i)
      BY <1>6, <3>1 DEF PollerHas, Busy
    <3> QED
      BY <1>0, <1>t, <1>w, <3>1, <3>2, <3>3, <3>4 DEF PollerHas, Before, AtUrl
  <2>4. CASE PutRequest(e)
    <3>1. /\ pc[e] = "put" /\ UNCHANGED <<interactions, todo, current, items, hits, holder>>
          /\ requests' = [requests EXCEPT ![Id(e)] = e] /\ url' = [url EXCEPT ![e] = @ + 1]
          /\ pc' = [pc EXCEPT ![e] = "next"]
      BY <2>4 DEF PutRequest
    <3>2. /\ url[e] \in Nat /\ Id(e) \in Ids /\ (url[e] = n <=> Id(e) = i) /\ e # None
      <4>1. url[e] \in Nat /\ Id(e) \in Ids /\ (url[e] = n <=> Id(e) = i)
        BY <1>0, <1>2, <3>1
      <4>2. e # None
        BY InteractshAssumption DEF None
      <4> QED
        BY <4>1, <4>2
    <3>3. ~PollerHas(i)
      BY <1>6, <3>1 DEF PollerHas, Busy
    <3>4. url[e] = n => requests'[i] = e
      BY <1>0, <3>1, <3>2
    <3>5. /\ url[e] # n => requests'[i] = requests[i]
          /\ url'[e] = url[e] + 1 /\ pc'[e] = "next" /\ pc'[Poller] = pc[Poller]
      BY <1>0, <3>1, <3>2
    <3>6. url[e] + 1 > n <=> url[e] > n \/ url[e] = n
      BY <1>1, <3>2
    <3>7. url[e] + 1 <= n <=> url[e] <= n /\ url[e] # n
      BY <1>1, <3>2
    <3> QED
      BY <1>t, <1>w, <3>1, <3>3, <3>4, <3>5, <3>6, <3>7 DEF PollerHas, Before, AtUrl
  <2>5. CASE TakeNext(e)
    <3>1. /\ pc[e] = "each" /\ UNCHANGED <<requests, interactions, url, items, hits, holder>>
          /\ todo[e] # <<>> /\ todo' = [todo EXCEPT ![e] = Tail(@)]
          /\ current' = [current EXCEPT ![e] = Head(todo[e])]
          /\ pc' = [pc EXCEPT ![e] = "process"]
      BY <2>5 DEF TakeNext
    <3>2. HasHit(todo[e], e) => e \in Head(todo[e]).matches \/ HasHit(Tail(todo[e]), e)
      <4>1. todo[e] \in Seq(Interactions) /\ Head(todo[e]) \in Interactions
        BY <1>0, <3>1
      <4> QED
        BY <3>1, <4>1, HitsIn
    <3>3. ~PollerHas(i)
      BY <1>6, <3>1 DEF PollerHas, Busy
    <3> QED
      BY <1>0, <1>t, <1>w, <3>1, <3>2, <3>3 DEF PollerHas, Before, AtUrl
  <2>6. CASE NoneMatched(e)
    <3>1. /\ pc[e] = "each" /\ UNCHANGED <<requests, interactions, todo, current, items, hits, holder>>
          /\ url' = [url EXCEPT ![e] = @ + 1] /\ pc' = [pc EXCEPT ![e] = "next"]
          /\ <<Id(e), e>> \in stranded' /\ todo[e] = <<>>
      BY <2>6 DEF NoneMatched
    <3>2. url[e] # n /\ url[e] \in Nat
      BY <1>0, <1>2, <1>8, <3>1
    <3>3. ~PollerHas(i)
      BY <1>6, <3>1 DEF PollerHas, Busy
    <3>4. /\ url'[e] = url[e] + 1 /\ pc'[e] = "next" /\ pc'[Poller] = pc[Poller]
      BY <1>0, <3>1, <3>2
    <3>5. url[e] + 1 > n <=> url[e] > n
      BY <1>1, <3>2
    <3>6. url[e] + 1 <= n <=> url[e] <= n /\ url[e] # n
      BY <1>1, <3>2
    <3> QED
      BY <1>t, <1>w, <3>1, <3>2, <3>3, <3>4, <3>5, <3>6 DEF PollerHas, Before, AtUrl
  <2> QED
    BY <1>12, <2>1, <2>2, <2>3, <2>4, <2>5, <2>6 DEF RequestEvent
<1>13. ASSUME Process(e) PROVE Rest /\ Kept
  <2>1. e \in Actors /\ e # Poller /\ EventAt(e) = e
    OBVIOUS
  <2>2. CASE Match(e)
    <3>1. /\ pc[e] = "process" /\ UNCHANGED <<items, hits, holder>>
          /\ \/ /\ e \in current[e].matches /\ pc' = [pc EXCEPT ![e] = "write"]
                /\ requests' = [requests EXCEPT ![current[e].id] = None]
                /\ UNCHANGED <<current, todo, url, interactions>>
             \/ /\ e \notin current[e].matches /\ pc' = [pc EXCEPT ![e] = "each"]
                /\ current' = [current EXCEPT ![e] = Nothing]
                /\ UNCHANGED <<requests, todo, url, interactions>>
      BY <1>f, <2>1, <2>2 DEF Match, Leave
    <3>2. url[e] # n => current[e].id # i
      BY <1>2, <1>8, <3>1 DEF Processing
    <3>3. ~PollerHas(i)
      BY <1>6, <3>1 DEF PollerHas, Busy
    <3>4. /\ pc'[Poller] = pc[Poller] /\ current'[Poller] = current[Poller]
          /\ url[e] # n => requests'[i] = requests[i]
      BY <1>0, <1>1, <2>1, <3>1, <3>2
    <3>5. \/ e \in current[e].matches /\ pc'[e] = "write" /\ current'[e] = current[e]
          \/ e \notin current[e].matches /\ pc'[e] = "each"
      BY <1>0, <2>1, <3>1
    <3>6. url[e] > n => url[e] # n
      BY <1>1
    <3> QED
      BY <1>t, <1>w, <3>1, <3>3, <3>4, <3>5, <3>6 DEF PollerHas, Before, AtUrl
  <2>l. ASSUME pc[e] \in Processing, Leave(e, TRUE)
        PROVE  /\ pc'[Poller] = pc[Poller] /\ current'[Poller] = current[Poller]
               /\ holder' = holder
    BY <1>0, <2>1, <2>l DEF Leave
  <2>3. CASE WriteResult(e)
    <3>1. pc[e] = "write" /\ UNCHANGED <<items, hits>>
      BY <2>3 DEF WriteResult
    <3>2. CASE e \in interactshMatched
      <4>1. Leave(e, TRUE)
        BY <2>1, <2>3, <3>2 DEF WriteResult
      <4> QED
        BY <1>7, <1>8, <1>w, <2>l, <3>1, <3>2, <4>1 DEF Processing
    <3>3. CASE e \notin interactshMatched
      <4>1. /\ written' = [written EXCEPT ![e] = @ + 1] /\ pc' = [pc EXCEPT ![e] = "store"]
            /\ UNCHANGED <<current, holder>>
        BY <2>1, <2>3, <3>3 DEF WriteResult
      <4>2. written'[e] > 0 /\ pc'[Poller] = pc[Poller]
        BY <1>0, <2>1, <4>1
      <4> QED
        BY <1>w, <3>1, <4>1, <4>2 DEF Told
    <3> QED
      BY <3>2, <3>3
  <2>4. ASSUME pc[e] \in {"store", "flag"}
        PROVE  Told(e)'
    BY <1>7, <1>8, <2>1, <2>4 DEF Told
  <2>5. CASE StoreMatched(e)
    <3>1. /\ pc[e] = "store" /\ UNCHANGED <<items, hits, current, holder>>
          /\ pc' = [pc EXCEPT ![e] = "flag"]
      BY <2>5 DEF StoreMatched
    <3>2. pc'[Poller] = pc[Poller] /\ current'[Poller] = current[Poller]
      BY <1>0, <2>1, <3>1
    <3> QED
      BY <1>w, <2>4, <3>1, <3>2
  <2>6. CASE FlagTemplate(e)
    <3>1. pc[e] = "flag" /\ UNCHANGED <<items, hits>> /\ Leave(e, TRUE)
      BY <2>6 DEF FlagTemplate
    <3> QED
      BY <1>w, <2>4, <2>l, <3>1 DEF Processing
  <2> QED
    BY <1>13, <2>2, <2>3, <2>5, <2>6 DEF Process
\* The poller.
<1>e. ASSUME UNCHANGED <<url, todo>>, \A f \in Events : pc'[f] = pc[f] /\ current'[f] = current[f]
      PROVE  /\ Before(e, n)' <=> Before(e, n)
             /\ AtUrl(e, n)' <=> AtUrl(e, n)
             /\ pc'[e] = pc[e] /\ current'[e] = current[e]
  BY <1>e DEF Before, AtUrl
<1>14. ASSUME NEW j \in Ids, NEW ms \in SUBSET Events, Arrive(j, ms) PROVE Rest /\ Kept
  <2>1. /\ UNCHANGED <<requests, interactions, url, todo, holder>> /\ pc[Poller] = "idle"
        /\ pc' = [pc EXCEPT ![Poller] = "lookup"]
        /\ current' = [current EXCEPT ![Poller] = [id |-> j, matches |-> ms]]
        /\ hits' = hits \cup ({j} \X ms)
    BY <1>14 DEF Arrive
  <2>2. /\ pc'[Poller] = "lookup" /\ current'[Poller] = [id |-> j, matches |-> ms]
        /\ ~PollerHas(i)
    BY <1>0, <2>1 DEF PollerHas
  <2>3. <<i, e>> \in hits' =>
            <<i, e>> \in hits \/ (PollerHas(i)' /\ e \in current'[Poller].matches)
    BY <2>1, <2>2 DEF PollerHas
  <2>4. \A f \in Events : pc'[f] = pc[f] /\ current'[f] = current[f]
    BY <1>0, <2>1
  <2>5. holder' = None
    BY <1>h, <2>1 DEF Processing
  <2>6. Kept
    BY <2>2, <2>5
  <2>7. Rest
    BY <1>t, <1>e, <2>1, <2>2, <2>3, <2>4
  <2> QED
    BY <2>6, <2>7
<1>15. ASSUME LookupRequest PROVE Rest /\ Kept
  <2>1. /\ UNCHANGED <<requests, interactions, url, todo, current, items, hits>>
        /\ pc[Poller] = "lookup" /\ holder' = requests[current[Poller].id]
        /\ pc' = [pc EXCEPT ![Poller] = IF holder' = None THEN "waiting" ELSE "check"]
    BY <1>15 DEF LookupRequest
  <2>2. /\ pc'[Poller] = IF holder' = None THEN "waiting" ELSE "check"
        /\ \A f \in Events : pc'[f] = pc[f] /\ current'[f] = current[f]
    BY <1>0, <2>1
  <2>3. PollerHas(i)' <=> PollerHas(i)
    BY <2>1, <2>2 DEF PollerHas
  <2>4. ASSUME PollerHas(i), requests[i] = None, ~Told(e), ~Told(e)'
        PROVE  Before(e, n)
    <3>1. ~(url[e] > n) /\ url[e] \in Nat
      BY <1>0, <1>9, <1>t, <2>1, <2>4
    <3>2. pc[e] \in {"next", "done"}
      BY <1>0, <1>6, <2>1, <2>4 DEF PollerHas, Busy, PlaceInv, Processing
    <3>3. pc[e] # "done"
      BY <1>1, <1>8, <1>9, <2>4, <3>1
    <3> QED
      BY <1>1, <3>1, <3>2, <3>3 DEF Before
  <2>5. PollerHas(i) => current[Poller].id = i /\ holder' = requests[i]
    BY <2>1 DEF PollerHas
  <2>6. Kept
    <3>1. pc'[Poller] # "keep"
      BY <2>2
    <3>2. current'[Poller].id = i /\ e \in current'[Poller].matches => holder' \in {None, e}
      BY <1>4 DEF Diverts
    <3>3. PollerHas(i) /\ e \in current'[Poller].matches => holder' \in {None, e}
      BY <2>1, <2>5, <3>2
    <3>4. PollerHas(i) /\ requests'[i] = e => holder' \in {None, e}
      BY <2>1, <2>5
    <3> QED
      BY <2>3, <3>1, <3>3, <3>4
  <2>7. Rest
    <3>1. ~(pc[Poller] \in {"waiting", "keep", "write"}) /\ pc'[Poller] \in {"waiting", "check"}
      BY <2>1, <2>2
    <3>2. pc'[Poller] = "waiting" /\ PollerHas(i) => requests[i] = None
      BY <2>2, <2>5
    <3> QED
      BY <1>t, <1>e, <2>1, <2>2, <2>3, <2>4, <3>1, <3>2
  <2> QED
    BY <2>6, <2>7
<1>16. ASSUME LookupWaiting PROVE Rest /\ Kept
  <2>1. /\ UNCHANGED <<requests, interactions, url, todo, current, holder, hits>>
        /\ pc[Poller] = "waiting" /\ pc' = [pc EXCEPT ![Poller] = "keep"]
        /\ items' = interactions[current[Poller].id]
    BY <1>16 DEF LookupWaiting
  <2>2. pc'[Poller] = "keep" /\ \A f \in Events : pc'[f] = pc[f] /\ current'[f] = current[f]
    BY <1>0, <2>1
  <2>3. (PollerHas(i)' <=> PollerHas(i)) /\ (PollerHas(i) => current[Poller].id = i)
    BY <2>1, <2>2 DEF PollerHas
  <2>4. Kept
    BY <1>k, <2>1, <2>3
  <2>5. Rest
    BY <1>t, <1>e, <2>1, <2>2, <2>3
  <2> QED
    BY <2>4, <2>5
<1>17. ASSUME Keep PROVE Rest /\ Kept
  <2>1. /\ UNCHANGED <<requests, url, todo, hits, holder>>
        /\ pc[Poller] = "keep" /\ pc' = [pc EXCEPT ![Poller] = "idle"]
        /\ interactions' = [interactions EXCEPT ![current[Poller].id] =
                                                  Append(items, current[Poller])]
        /\ current' = [current EXCEPT ![Poller] = Nothing]
    BY <1>17 DEF Keep
  <2>2. pc'[Poller] = "idle" /\ \A f \in Events : pc'[f] = pc[f] /\ current'[f] = current[f]
    BY <1>0, <2>1
  <2>3. ~PollerHas(i)'
    BY <2>2 DEF PollerHas
  <2>4. PollerHas(i) <=> current[Poller].id = i
    BY <2>1 DEF PollerHas
  <2>5. HasHit(interactions[i], e) => HasHit(interactions'[i], e)
    <3>1. CASE current[Poller].id = i
      <4>1. current[Poller] \in Interactions
        BY <1>0, <2>1 DEF PlaceInv
      <4>2. HasHit(interactions[i], e) => HasHit(items, e)
        BY <1>k, <2>1, <2>4, <3>1
      <4>3. interactions'[i] = Append(items, current[Poller])
        BY <1>0, <1>1, <2>1, <3>1
      <4>4. HasHit(Append(items, current[Poller]), e) <=>
                HasHit(items, e) \/ e \in current[Poller].matches
        BY <1>0, <4>1, HitsIn
      <4> QED
        BY <4>2, <4>3, <4>4
    <3>2. CASE current[Poller].id # i
      BY <1>0, <1>1, <2>1, <3>2
    <3> QED
      BY <3>1, <3>2
  <2>6. PollerHas(i) /\ e \in current[Poller].matches => HasHit(interactions'[i], e)
    <3> SUFFICES ASSUME PollerHas(i), e \in current[Poller].matches
                 PROVE  HasHit(interactions'[i], e)
      OBVIOUS
    <3>1. current[Poller] \in Interactions /\ current[Poller].id = i
      BY <1>0, <2>1, <2>4 DEF PlaceInv
    <3>2. interactions'[i] = Append(items, current[Poller])
      BY <1>0, <1>1, <2>1, <3>1
    <3>3. HasHit(Append(items, current[Poller]), e)
      BY <1>0, <3>1, HitsIn
    <3> QED
      BY <3>2, <3>3
  <2>7. Rest
    BY <1>t, <1>e, <2>1, <2>2, <2>3, <2>4, <2>5, <2>6
  <2> QED
    BY <2>3, <2>7
<1>18. ASSUME CheckMatched PROVE Rest /\ Kept
  <2>1. /\ UNCHANGED <<requests, interactions, url, todo, hits, items>> /\ pc[Poller] = "check"
        /\ \/ /\ Stopped(holder) /\ pc' = [pc EXCEPT ![Poller] = "idle"]
              /\ current' = [current EXCEPT ![Poller] = Nothing]
           \/ pc' = [pc EXCEPT ![Poller] = "process"] /\ UNCHANGED <<current, holder>>
    BY <1>18 DEF CheckMatched
  <2>2. \A f \in Events : pc'[f] = pc[f] /\ current'[f] = current[f]
    BY <1>0, <2>1
  <2>3. PollerHas(i) /\ e \in current[Poller].matches /\ Stopped(holder) => Told(e)
    <3>1. holder # None
      BY <1>h, <2>1
    <3> QED
      BY <1>k, <3>1 DEF Stopped, Told
  <2>5. \/ Stopped(holder) /\ pc'[Poller] = "idle"
        \/ pc'[Poller] = "process" /\ UNCHANGED <<current, holder>>
    BY <1>0, <2>1
  <2>6. PollerHas(i)' => pc'[Poller] = "process" /\ UNCHANGED <<current, holder>>
    BY <2>5 DEF PollerHas
  <2>7. pc'[Poller] = "process" => (PollerHas(i)' <=> PollerHas(i))
    BY <2>1, <2>5 DEF PollerHas
  <2>8. Kept
    BY <1>k, <2>1, <2>6, <2>7
  <2>9. Rest
    BY <1>t, <1>e, <1>7, <2>1, <2>2, <2>3, <2>5, <2>6, <2>7
  <2> QED
    BY <2>8, <2>9
<1>19. ASSUME Process(Poller) PROVE Rest /\ Kept
  <2>0. pc[Poller] \in Processing
    BY <1>19 DEF Process, Match, WriteResult, StoreMatched, FlagTemplate, Processing
  <2>l. ASSUME NEW hit \in BOOLEAN, Leave(Poller, hit)
        PROVE  /\ pc' = [pc EXCEPT ![Poller] = "idle"] /\ UNCHANGED <<todo, url, interactions>>
               /\ current' = [current EXCEPT ![Poller] = Nothing]
    BY <2>l DEF Leave
  <2>1. UNCHANGED <<todo, url, interactions, items, hits>>
    BY <1>19, <2>l DEF Process, Match, WriteResult, StoreMatched, FlagTemplate
  <2>2. \A f \in Events : pc'[f] = pc[f] /\ current'[f] = current[f]
    BY <1>0, <1>19, <2>l DEF Process, Match, WriteResult, StoreMatched, FlagTemplate
  <2>3. /\ ~(pc[Poller] \in {"waiting", "keep"}) /\ ~(pc'[Poller] \in {"waiting", "keep"})
        /\ pc'[Poller] \in {"idle", "write", "store", "flag"}
    BY <1>0, <1>19, <2>0, <2>l
    DEF Process, Match, WriteResult, StoreMatched, FlagTemplate, Processing
  <2>4. PollerHas(i) /\ (e \in current[Poller].matches \/ requests[i] = e) => holder = e
    BY <1>h, <1>k, <2>0
  <2>5. CASE Match(Poller)
    <3>1. pc[Poller] = "process" /\ (PollerHas(i) <=> current[Poller].id = i)
      BY <2>5 DEF Match, PollerHas
    <3>2. CASE holder \in current[Poller].matches
      <4>1. /\ pc' = [pc EXCEPT ![Poller] = "write"] /\ UNCHANGED <<current, holder>>
            /\ requests' = [requests EXCEPT ![current[Poller].id] = None]
        BY <1>h, <2>5, <3>2 DEF Match
      <4>2. pc'[Poller] = "write" /\ (PollerHas(i)' <=> PollerHas(i))
        BY <1>0, <3>1, <4>1 DEF PollerHas
      <4>3. /\ current[Poller].id # i => requests'[i] = requests[i]
            /\ requests'[i] = e => requests[i] = e
        BY <1>0, <1>1, <1>9, <4>1
      <4>4. Kept
        BY <1>k, <2>3, <4>1, <4>2, <4>3
      <4>5. Rest
        BY <1>t, <1>e, <2>1, <2>2, <2>3, <2>4, <3>1, <4>1, <4>2, <4>3
      <4> QED
        BY <4>4, <4>5
    <3>3. CASE holder \notin current[Poller].matches
      <4>1. pc' = [pc EXCEPT ![Poller] = "idle"] /\ UNCHANGED requests
        BY <1>h, <2>5, <2>l, <3>3 DEF Match
      <4>2. pc'[Poller] = "idle" /\ ~PollerHas(i)'
        BY <1>0, <4>1 DEF PollerHas
      <4>3. ~(PollerHas(i) /\ e \in current[Poller].matches)
        BY <2>4, <3>3
      <4>4. Rest
        BY <1>t, <1>e, <2>1, <2>2, <2>3, <3>1, <4>1, <4>2, <4>3
      <4> QED
        BY <4>2, <4>4
    <3> QED
      BY <3>2, <3>3
  <2>6. CASE WriteResult(Poller)
    <3>1. pc[Poller] = "write" /\ UNCHANGED requests
      BY <2>6 DEF WriteResult
    <3>2. holder = e => Told(e)'
      <4> SUFFICES ASSUME holder = e PROVE Told(e)'
        OBVIOUS
      <4>1. CASE e \in interactshMatched
        BY <1>7, <1>8, <4>1
      <4>2. CASE e \notin interactshMatched
        <5>1. written' = [written EXCEPT ![e] = @ + 1]
          BY <1>h, <2>6, <4>2 DEF WriteResult
        <5>2. written'[e] > 0
          BY <1>0, <5>1
        <5> QED
          BY <5>2 DEF Told
      <4> QED
        BY <4>1, <4>2
    <3>3. ~PollerHas(i)'
      <4>1. pc'[Poller] \in {"idle", "store"}
        BY <1>0, <2>6, <2>l DEF WriteResult
      <4> QED
        BY <4>1 DEF PollerHas
    <3>4. Rest
      BY <1>t, <1>e, <2>1, <2>2, <2>3, <2>4, <3>1, <3>2, <3>3
    <3> QED
      BY <3>3, <3>4
  <2>7. CASE StoreMatched(Poller) \/ FlagTemplate(Poller)
    <3>1. pc[Poller] \in {"store", "flag"} /\ UNCHANGED requests
      BY <2>7 DEF StoreMatched, FlagTemplate
    <3>2. ~PollerHas(i) /\ pc[Poller] # "write"
      BY <3>1 DEF PollerHas
    <3>3. ~PollerHas(i)'
      <4>1. pc'[Poller] \in {"idle", "flag"}
        BY <1>0, <2>7, <2>l DEF StoreMatched, FlagTemplate
      <4> QED
        BY <4>1 DEF PollerHas
    <3>4. Rest
      BY <1>t, <1>e, <2>1, <2>2, <2>3, <3>1, <3>2
    <3> QED
      BY <3>3, <3>4
  <2> QED
    BY <1>19, <2>5, <2>6, <2>7 DEF Process
<1>20. ASSUME Forget PROVE Rest /\ Kept
  <2>1. /\ UNCHANGED <<pc, url, todo, current, items, holder, hits>>
        /\ requests'[i] = requests[i] /\ interactions'[i] = interactions[i]
    <3>1. \/ UNCHANGED <<requests, interactions>>
          \/ \E j \in Ids : /\ j \in forgotten'
                            /\ \/ requests' = [requests EXCEPT ![j] = None]
                                  /\ UNCHANGED interactions
                               \/ interactions' = [interactions EXCEPT ![j] = <<>>]
                                  /\ UNCHANGED requests
      BY <1>20 DEF Forget
    <3> QED
      BY <1>0, <1>1, <1>8, <1>20, <3>1 DEF Forget
  <2>2. /\ PollerHas(i)' <=> PollerHas(i)
        /\ Before(e, n)' <=> Before(e, n)
        /\ AtUrl(e, n)' <=> AtUrl(e, n)
    BY <2>1 DEF PollerHas, Before, AtUrl
  <2>3. Kept
    BY <1>k, <2>1, <2>2
  <2>4. Rest
    BY <1>t, <2>1, <2>2
  <2> QED
    BY <2>3, <2>4
<1>21. Rest /\ Kept
  <2>1. ~Close
    BY DEF Close
  <2>2. ASSUME NEW f \in Events, RequestEvent(f) PROVE Rest /\ Kept
    BY <1>10, <1>12, <2>2
  <2>3. ASSUME NEW a \in Actors, Process(a) PROVE Rest /\ Kept
    BY <1>11, <1>13, <1>19, <2>3 DEF Actors
  <2>4. ASSUME Poll PROVE Rest /\ Kept
    BY <1>14, <1>15, <1>16, <1>17, <1>18, <2>4, Polls
  <2> QED
    BY <1>20, <2>1, <2>2, <2>3, <2>4 DEF Next
<1> QED
  BY <1>21, <1>f DEF Track, i

\* The invariant with what became of the hits.
LEMMA HitInvariant == Spec => []HitInv
<1>1. Init => HitInv
  <2> SUFFICES ASSUME Init PROVE HitInv
    OBVIOUS
  <2>1. \A e \in Events : pc[e] = "next" /\ url[e] = 1 /\ todo[e] = <<>>
    BY EventsAreActors DEF Init
  <2>2. pc[Poller] = "idle"
    BY EventsAreActors DEF Init
  <2>3. IdInv
    BY <2>1, <2>2 DEF Init, IdInv, Processing
  <2>4. MarkInv
    BY <2>1, <2>2 DEF Init, MarkInv, Actors
  <2>5. ASSUME NEW e \in Events, NEW n \in 1..Len(UrlsOf[e])
        PROVE  Track(e, n)
    <3>1. hits = {} /\ ~(url[e] > n) /\ holder = None
      BY <2>1, InteractshAssumption DEF Init
    <3> QED
      BY <2>2, <3>1 DEF Track, PollerHas
  <2> QED
    BY <2>3, <2>4, <2>5 DEF HitInv
<1>2. InteractshInv /\ InteractshInv' /\ HitInv /\ [Next]_vars => HitInv'
  <2> SUFFICES ASSUME InteractshInv, InteractshInv', HitInv, [Next]_vars PROVE HitInv'
    OBVIOUS
  <2>1. IdInv' /\ MarkInv'
    BY IdStep, MarkStep DEF HitInv
  <2>2. ASSUME ~closed', NEW e \in Events, NEW n \in 1..Len(UrlsOf[e]), Regular(e, n)'
        PROVE  Track(e, n)'
    <3>1. CASE Next
      BY <2>2, <3>1, TrackStep
    <3>2. CASE UNCHANGED vars
      <4>1. /\ UNCHANGED <<stop, requests, interactions, matchedTemplates, pc, url, todo, current>>
            /\ UNCHANGED <<items, holder, closed, hits, written, forgotten, stranded, diverted,
                           metPoller>>
        BY <3>2 DEF vars, caches, local, history
      <4>2. Regular(e, n) /\ ~closed
        BY <2>2, <4>1 DEF Regular
      <4>3. Track(e, n)
        BY <2>2, <4>2 DEF HitInv
      <4>4. (Matches(e)' <=> Matches(e)) /\ (Told(e)' <=> Told(e)) /\ (Before(e, n)' <=> Before(e, n))
        BY <4>1 DEF Matches, EventAt, Told, Before
      <4> QED
        BY <4>1, <4>3, <4>4 DEF Track, PollerHas, AtUrl
    <3> QED
      BY <3>1, <3>2
  <2> QED
    BY <2>1, <2>2 DEF HitInv
<1> QED
  BY <1>1, <1>2, InteractshInvariant, PTL DEF Spec

\* A hit for an event is reported whichever came first, the interaction or the
\* event, but for the ways to lose one that HitReported names.
THEOREM HitsAreReported == Spec => []HitReported
<1>1. ASSUME InteractshInv, HitInv, Quiet, NEW i \in Ids \ forgotten, NEW e \in Events \ metPoller,
             <<i, e>> \in hits \ (stranded \cup diverted), pc[e] = "done"
      PROVE  Told(e)
  <2>1. Carries(e, i)
    BY <1>1 DEF HitInv, IdInv
  <2>2. PICK n \in 1..Len(UrlsOf[e]) : UrlsOf[e][n] = i
    BY <2>1 DEF Carries
  <2>3. Track(e, n)
    BY <1>1, <2>2 DEF HitInv, Regular, Quiet
  <2> QED
    BY <1>1, <2>2, <2>3 DEF Track, Quiet, PollerHas, Before, AtUrl
<1>2. InteractshInv /\ HitInv => HitReported
  BY <1>1 DEF HitReported, Told
<1> QED
  BY <1>2, InteractshInvariant, HitInvariant, PTL
=============================================================================
