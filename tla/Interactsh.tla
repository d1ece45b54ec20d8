------------------------------ MODULE Interactsh ------------------------------
(***************************************************************************)
(* The client that correlates out-of-band interactions with the requests   *)
(* that provoked them (pkg/protocols/common/interactsh).  An interaction   *)
(* and the event of its request may come in either order: whichever comes  *)
(* first waits in a cache for the other.  One goroutine polls the server   *)
(* and handles interactions one by one; every request event is registered  *)
(* by the goroutine of its request.  Each cache is safe by itself, and     *)
(* nothing holds two caches together.                                      *)
(*                                                                         *)
(* A unique ID may have several events: every response of a redirect chain *)
(* makes one with the URLs of the request, and with request conditions the *)
(* later requests of an execution have the URLs of the earlier ones.  They *)
(* are registered one after another, and the last replaces the others.     *)
(***************************************************************************)
EXTENDS Naturals, Sequences, FiniteSets

CONSTANTS Events,           \* the events of requests (*RequestData)
          Ids, UrlsOf,      \* unique IDs; event -> the IDs of its URLs, in order
          Earlier,          \* event -> events of its execution before it
          Hash,             \* event -> its template and host
          MaxInteractions,  \* bound: interactions the server sees
          MaxForgotten      \* bound: entries the caches expire or evict

\* The event has a URL with the ID.
Carries(e, i) == \E n \in 1..Len(UrlsOf[e]) : UrlsOf[e][n] = i

ASSUME InteractshAssumption ==
    /\ UrlsOf \in [Events -> Seq(Ids)]
    /\ \A i \in Ids : \E e \in Events : Carries(e, i)
    /\ \A e \in Events : \A m, n \in 1..Len(UrlsOf[e]) : UrlsOf[e][m] = UrlsOf[e][n] => m = n
    /\ \A e, f \in Events : \A i \in Ids :
           e # f /\ Carries(e, i) /\ Carries(f, i) =>
               Hash[e] = Hash[f] /\ (e \in Earlier[f] \/ f \in Earlier[e])
    /\ MaxInteractions \in Nat /\ MaxForgotten \in Nat
    /\ "none" \notin Events /\ "poller" \notin Events

None == "none"
Poller == "poller"
Actors == Events \cup {Poller}
Hashes == {Hash[e] : e \in Events}

\* The template and host a unique ID was generated for.
HashOf(i) == Hash[CHOOSE e \in Events : Carries(e, i)]

\* An interaction, by its ID and the events with which the operators match.
Interactions == [id : Ids, matches : SUBSET Events]
Nothing == [id |-> None, matches |-> {}]

VARIABLES stop,              \* whether these templates stop at first match
          requests,          \* id -> event or None
          interactions,      \* id -> interactions that wait
          matchedTemplates,  \* hashes of templates that matched
          interactshMatched, \* events written to the output
          matched,           \* c.matched
          pc,                \* actor -> where it is
          url,               \* event -> position in its URLs
          todo,              \* event -> interactions it goes through
          current,           \* actor -> the interaction it processes
          items,             \* interactions the poller has read
          holder,            \* the event the poller has read, or None
          closed, answer,    \* Close has run; what it returned
          \* history
          arrived,           \* number of interactions
          hits,              \* <<id, event>> with an interaction that matches
          written,           \* event -> times it was written
          forgotten,         \* ids and hashes a cache has dropped
          stranded,          \* <<id, event>> whose first interactions did not match
          diverted,          \* <<id, event>> where another event got in between
          metPoller,         \* events with an ID the poller had in hand during RequestEvent
          metOther,          \* hashes two actors had in hand at a time
          cutOff             \* the poller was busy when polling stopped

caches == <<requests, interactions, matchedTemplates>>
local == <<url, todo, current, items, holder>>
history == <<arrived, hits, written, forgotten, stranded, cutOff>>
vars == <<stop, caches, interactshMatched, matched, pc, local, closed, answer, history,
          diverted, metPoller, metOther>>

PCs == {"idle", "lookup", "waiting", "keep", "check",      \* poller
        "url", "take", "put", "each", "next", "done",      \* request event
        "process", "write", "store", "flag"}               \* both

TypeOK ==
    /\ stop \in BOOLEAN /\ matched \in BOOLEAN /\ closed \in BOOLEAN
    /\ answer \in BOOLEAN /\ cutOff \in BOOLEAN
    /\ requests \in [Ids -> Events \cup {None}] /\ holder \in Events \cup {None}
    /\ interactions \in [Ids -> Seq(Interactions)] /\ items \in Seq(Interactions)
    /\ matchedTemplates \subseteq Hashes /\ interactshMatched \subseteq Events
    /\ pc \in [Actors -> PCs]
    /\ url \in [Events -> Nat] /\ \A e \in Events : url[e] \in 1..(Len(UrlsOf[e]) + 1)
    /\ todo \in [Events -> Seq(Interactions)]
    /\ current \in [Actors -> Interactions \cup {Nothing}]
    /\ arrived \in 0..MaxInteractions
    /\ hits \subseteq Ids \X Events /\ stranded \subseteq Ids \X Events
    /\ diverted \subseteq Ids \X Events /\ forgotten \subseteq Ids \cup Hashes
    /\ written \in [Events -> Nat]
    /\ metPoller \subseteq Events /\ metOther \subseteq Hashes

Init ==
    /\ stop \in BOOLEAN
    /\ requests = [i \in Ids |-> None]
    /\ interactions = [i \in Ids |-> <<>>]
    /\ matchedTemplates = {} /\ interactshMatched = {} /\ matched = FALSE
    /\ pc = [a \in Actors |-> IF a = Poller THEN "idle" ELSE "next"]
    /\ url = [e \in Events |-> 1]
    /\ todo = [e \in Events |-> <<>>]
    /\ current = [a \in Actors |-> Nothing]
    /\ items = <<>> /\ holder = None
    /\ closed = FALSE /\ answer = FALSE
    /\ arrived = 0 /\ hits = {} /\ written = [e \in Events |-> 0]
    /\ forgotten = {} /\ stranded = {} /\ diverted = {} /\ cutOff = FALSE
    /\ metPoller = {} /\ metOther = {}

To(a, where) == pc' = [pc EXCEPT ![a] = where]

\* The event an actor works on, and its template and host.
EventAt(a) == IF a = Poller THEN holder ELSE a
HashAt(a) == IF a = Poller THEN HashOf(current[Poller].id) ELSE Hash[a]

\* The interaction an actor processes matches its event.
Matches(a) == EventAt(a) \in current[a].matches

Busy(a) == pc[a] \notin {"idle", "next", "done"}

Stopped(e) == stop /\ Hash[e] \in matchedTemplates

-----------------------------------------------------------------------------
(* The polling goroutine. *)

\* The server reports an interaction; the callback runs for one at a time.
Arrive(i, matches) ==
    /\ pc[Poller] = "idle" /\ ~closed /\ arrived < MaxInteractions
    /\ current' = [current EXCEPT ![Poller] = [id |-> i, matches |-> matches]]
    /\ To(Poller, "lookup")
    /\ arrived' = arrived + 1
    /\ hits' = hits \cup ({i} \X matches)
    /\ UNCHANGED <<stop, caches, interactshMatched, matched, url, todo, items, holder,
                   closed, answer, written, forgotten, stranded, cutOff>>

\* requests.Get.
LookupRequest ==
    /\ pc[Poller] = "lookup"
    /\ holder' = requests[current[Poller].id]
    /\ To(Poller, IF holder' = None THEN "waiting" ELSE "check")
    /\ UNCHANGED <<stop, caches, interactshMatched, matched, url, todo, current, items,
                   closed, answer, history>>

\* interactions.Get.
LookupWaiting ==
    /\ pc[Poller] = "waiting"
    /\ items' = interactions[current[Poller].id]
    /\ To(Poller, "keep")
    /\ UNCHANGED <<stop, caches, interactshMatched, matched, url, todo, current, holder,
                   closed, answer, history>>

\* interactions.SetWithExpire.
Keep ==
    /\ pc[Poller] = "keep"
    /\ interactions' = [interactions EXCEPT ![current[Poller].id] =
                                        Append(items, current[Poller])]
    /\ items' = <<>> /\ current' = [current EXCEPT ![Poller] = Nothing]
    /\ To(Poller, "idle")
    /\ UNCHANGED <<stop, requests, matchedTemplates, interactshMatched, matched,
                   url, todo, holder, closed, answer, history>>

\* Stop at first match: the template may have matched on the host before.
CheckMatched ==
    /\ pc[Poller] = "check"
    /\ IF Stopped(holder)
       THEN /\ To(Poller, "idle")
            /\ current' = [current EXCEPT ![Poller] = Nothing] /\ holder' = None
       ELSE To(Poller, "process") /\ UNCHANGED <<current, holder>>
    /\ UNCHANGED <<stop, caches, interactshMatched, matched, url, todo, items,
                   closed, answer, history>>
-----------------------------------------------------------------------------
(* RequestEvent, in the goroutine of the request of e. *)

Id(e) == UrlsOf[e][url[e]]

\* The next URL.  The events of an execution come one after another.
Enter(e) ==
    /\ pc[e] = "next" /\ ~closed
    /\ \A f \in Earlier[e] : pc[f] = "done"
    /\ To(e, IF url[e] > Len(UrlsOf[e]) THEN "done" ELSE "url")
    /\ UNCHANGED <<stop, caches, interactshMatched, matched, local, closed, answer, history>>

CheckStop(e) ==
    /\ pc[e] = "url"
    /\ To(e, IF Stopped(e) THEN "done" ELSE "take")
    /\ UNCHANGED <<stop, caches, interactshMatched, matched, local, closed, answer, history>>

\* Mutant: what waited is dropped.
TakeNothing(e) ==
    /\ pc[e] = "take"
    /\ todo' = [todo EXCEPT ![e] = <<>>]
    /\ To(e, "put")
    /\ UNCHANGED <<stop, caches, interactshMatched, matched, url, current, items, holder,
                   closed, answer, history>>

\* interactions.Get.
TakeWaiting(e) ==
    /\ pc[e] = "take"
    /\ todo' = [todo EXCEPT ![e] = interactions[Id(e)]]
    /\ To(e, IF interactions[Id(e)] = <<>> THEN "put" ELSE "each")
    /\ UNCHANGED <<stop, caches, interactshMatched, matched, url, current, items, holder,
                   closed, answer, history>>

\* requests.SetWithExpire: the event waits for its interactions.
PutRequest(e) ==
    /\ pc[e] = "put"
    /\ requests' = [requests EXCEPT ![Id(e)] = e]
    /\ url' = [url EXCEPT ![e] = @ + 1]
    /\ To(e, "next")
    /\ UNCHANGED <<stop, interactions, matchedTemplates, interactshMatched, matched,
                   todo, current, items, holder, closed, answer, history>>

\* The next interaction that waited, if none has matched yet.
TakeNext(e) ==
    /\ pc[e] = "each" /\ todo[e] # <<>>
    /\ current' = [current EXCEPT ![e] = Head(todo[e])]
    /\ todo' = [todo EXCEPT ![e] = Tail(@)]
    /\ To(e, "process")
    /\ UNCHANGED <<stop, caches, interactshMatched, matched, url, items, holder,
                   closed, answer, history>>

\* None of them matched: they stay, and the event does not wait for others.
NoneMatched(e) ==
    /\ pc[e] = "each" /\ todo[e] = <<>>
    /\ url' = [url EXCEPT ![e] = @ + 1]
    /\ stranded' = stranded \cup {<<Id(e), e>>}
    /\ To(e, "next")
    /\ UNCHANGED <<stop, caches, interactshMatched, matched, todo, current, items, holder,
                   closed, answer, arrived, hits, written, forgotten, cutOff>>
-----------------------------------------------------------------------------
(* processInteractionForRequest, in either goroutine. *)

\* It returns: the poller is through, a request event goes on with its
\* interactions, or with the next URL if this one matched.
Leave(a, hit) ==
    /\ current' = [current EXCEPT ![a] = Nothing]
    /\ holder' = IF a = Poller THEN None ELSE holder
    /\ IF a = Poller THEN To(a, "idle") /\ UNCHANGED <<todo, url, interactions>>
       ELSE IF hit THEN /\ To(a, "next")
                        /\ todo' = [todo EXCEPT ![a] = <<>>]
                        /\ url' = [url EXCEPT ![a] = @ + 1]
                        /\ interactions' = [interactions EXCEPT ![Id(a)] = <<>>]
       ELSE To(a, "each") /\ UNCHANGED <<todo, url, interactions>>

\* The operators run; if they match, the request no longer waits.
Match(a) ==
    /\ pc[a] = "process"
    /\ IF Matches(a)
       THEN /\ requests' = [requests EXCEPT ![current[a].id] = None]
            /\ To(a, "write")
            /\ UNCHANGED <<current, holder, todo, url, interactions>>
       ELSE Leave(a, FALSE) /\ UNCHANGED requests
    /\ UNCHANGED <<stop, matchedTemplates, interactshMatched, matched, items,
                   closed, answer, history>>

\* Mutant: the event is written whether it was written before or not.
WriteAlways(a) ==
    /\ pc[a] = "write"
    /\ written' = [written EXCEPT ![EventAt(a)] = @ + 1]
    /\ To(a, "store")
    /\ UNCHANGED <<current, holder, todo, url, interactions>>
    /\ UNCHANGED <<stop, requests, matchedTemplates, interactshMatched, matched, items,
                   closed, answer, arrived, hits, forgotten, stranded, cutOff>>

\* "if event is not already matched, write it to output".
WriteResult(a) ==
    /\ pc[a] = "write"
    /\ IF EventAt(a) \in interactshMatched
       THEN Leave(a, TRUE) /\ UNCHANGED written
       ELSE /\ written' = [written EXCEPT ![EventAt(a)] = @ + 1]
            /\ To(a, "store")
            /\ UNCHANGED <<current, holder, todo, url, interactions>>
    /\ UNCHANGED <<stop, requests, matchedTemplates, interactshMatched, matched, items,
                   closed, answer, arrived, hits, forgotten, stranded, cutOff>>

StoreMatched(a) ==
    /\ pc[a] = "store"
    /\ interactshMatched' = interactshMatched \cup {EventAt(a)}
    /\ matched' = TRUE
    /\ To(a, "flag")
    /\ UNCHANGED <<stop, caches, local, closed, answer, history>>

\* Mutant: the match of the template is not recorded.
NoFlag(a) ==
    /\ pc[a] = "flag"
    /\ UNCHANGED matchedTemplates
    /\ Leave(a, TRUE)
    /\ UNCHANGED <<stop, requests, interactshMatched, matched, items, closed, answer, history>>

FlagTemplate(a) ==
    /\ pc[a] = "flag"
    /\ matchedTemplates' = IF stop THEN matchedTemplates \cup {Hash[EventAt(a)]}
                           ELSE matchedTemplates
    /\ Leave(a, TRUE)
    /\ UNCHANGED <<stop, requests, interactshMatched, matched, items, closed, answer, history>>
-----------------------------------------------------------------------------
\* An entry of a cache expires or makes room for another.
Forget ==
    /\ Cardinality(forgotten) < MaxForgotten
    /\ \/ \E i \in Ids : /\ requests[i] # None \/ interactions[i] # <<>>
                         /\ \/ requests' = [requests EXCEPT ![i] = None]
                               /\ UNCHANGED interactions
                            \/ interactions' = [interactions EXCEPT ![i] = <<>>]
                               /\ UNCHANGED requests
                         /\ forgotten' = forgotten \cup {i}
                         /\ UNCHANGED matchedTemplates
       \/ \E h \in matchedTemplates : /\ matchedTemplates' = matchedTemplates \ {h}
                                      /\ forgotten' = forgotten \cup {h}
                                      /\ UNCHANGED <<requests, interactions>>
    /\ UNCHANGED <<stop, interactshMatched, matched, pc, local, closed, answer,
                   arrived, hits, written, stranded, cutOff>>

\* Mutant: the answer is fixed before the cooldown period.
CloseUnmatched ==
    /\ ~closed /\ \A e \in Events : pc[e] = "done"
    /\ closed' = TRUE /\ answer' = FALSE
    /\ requests' = [i \in Ids |-> None] /\ interactions' = [i \in Ids |-> <<>>]
    /\ matchedTemplates' = {}
    /\ cutOff' = Busy(Poller)
    /\ UNCHANGED <<stop, interactshMatched, matched, pc, local,
                   arrived, hits, written, forgotten, stranded>>

\* Close, once the scan is over and the cooldown period with it: polling
\* stops without waiting for a callback that runs.
Close ==
    /\ ~closed /\ \A e \in Events : pc[e] = "done"
    /\ closed' = TRUE /\ answer' = matched
    /\ requests' = [i \in Ids |-> None] /\ interactions' = [i \in Ids |-> <<>>]
    /\ matchedTemplates' = {}
    /\ cutOff' = Busy(Poller)
    /\ UNCHANGED <<stop, interactshMatched, matched, pc, local,
                   arrived, hits, written, forgotten, stranded>>

HasHit(s, e) == \E m \in DOMAIN s : e \in s[m].matches

\* History: who worked at the same time.
Together ==
    /\ metPoller' = metPoller \cup
           {e \in Events : Busy(e)' /\ Busy(Poller)' /\ Carries(e, current[Poller].id')}
    /\ metOther' = metOther \cup
           {h \in Hashes : \E a, b \in Actors :
               /\ a # b /\ Busy(a)' /\ Busy(b)'
               /\ HashAt(a)' = h /\ HashAt(b)' = h}

\* History: another event of the ID ends the waiting of e, takes away what waits
\* for e, or is what the poller finds for an interaction that matches e.
Diverts(i, e) ==
    \/ /\ \E f \in Events \ {e} : pc'[f] # pc[f]
       /\ \/ requests[i] = e /\ requests'[i] # e
          \/ HasHit(interactions[i], e) /\ ~HasHit(interactions'[i], e)
    \/ /\ holder' \notin {None, e} /\ current'[Poller].id = i
       /\ e \in current'[Poller].matches

Divert == diverted' = diverted \cup {p \in Ids \X Events : Diverts(p[1], p[2])}

Poll ==
    \/ \E i \in Ids : \E matches \in SUBSET {e \in Events : Carries(e, i)} : Arrive(i, matches)
    \/ LookupRequest \/ LookupWaiting \/ Keep \/ CheckMatched

RequestEvent(e) ==
    \/ Enter(e) \/ CheckStop(e) \/ TakeWaiting(e) \/ PutRequest(e)
    \/ TakeNext(e) \/ NoneMatched(e)

Process(a) == Match(a) \/ WriteResult(a) \/ StoreMatched(a) \/ FlagTemplate(a)

Next ==
    /\ \/ Poll
       \/ \E e \in Events : RequestEvent(e)
       \/ \E a \in Actors : Process(a)
       \/ Forget
       \/ Close
    /\ Together /\ Divert

Spec == Init /\ [][Next]_vars
-----------------------------------------------------------------------------
(* Properties *)

Quiet == pc[Poller] = "idle" /\ ~closed

\* An interaction that matches an event is reported with it once the event has
\* been registered, whichever came first, but for the ways the client loses
\* one: the two were handled at the same time, an earlier interaction had come
\* before the event and not matched, an entry was dropped, the template had
\* matched on the host, or another event of the ID got in between, which
\* replaced this one or got its interaction.
HitReported ==
    Quiet => \A i \in Ids \ forgotten, e \in Events \ metPoller :
        (<<i, e>> \in hits \ (stranded \cup diverted) /\ pc[e] = "done") =>
            \/ written[e] > 0
            \/ stop /\ (Hash[e] \in matchedTemplates \cup forgotten)

\* "if event is not already matched, write it": an event is written twice
\* only if the poller had an interaction with one of its IDs in hand while
\* its request registered it.
WrittenOnce == \A e \in Events : written[e] > 1 => e \in metPoller

\* Stop at first match: of one template on one host, a second event is
\* reported only if two goroutines had it in hand at the same time, before
\* Close empties the caches.
StopsAtFirstMatch ==
    (stop /\ ~closed) => \A e, f \in Events :
        (e # f /\ Hash[e] = Hash[f] /\ written[e] > 0 /\ written[f] > 0) =>
            Hash[e] \in metOther \cup forgotten

\* The scan is told of every match that was written, unless polling was
\* stopped in the middle of a callback.
CloseTells ==
    (closed /\ ~answer /\ ~cutOff) => \A e \in Events : written[e] = 0

(***************************************************************************)
(* Why WrittenOnce, StopsAtFirstMatch and CloseTells hold.                 *)
(***************************************************************************)
Processing == {"process", "write", "store", "flag"}

\* Each actor is where its own code can be, with what it works on in hand.
PlaceInv ==
    /\ pc[Poller] \in {"idle", "lookup", "waiting", "keep", "check"} \cup Processing
    /\ pc[Poller] # "idle" => current[Poller] \in Interactions
    /\ \A e \in Events :
           /\ pc[e] \in {"url", "take", "put", "each", "next", "done"} \cup Processing
           /\ pc[e] \in Processing => current[e] \in Interactions
           /\ pc[e] \notin {"next", "done"} => url[e] <= Len(UrlsOf[e])

\* Events are found under their own IDs, and the poller has one in hand while it
\* compares an interaction with it.
HolderInv ==
    /\ \A i \in Ids : requests[i] # None => Carries(requests[i], i)
    /\ holder # None <=> pc[Poller] \in {"check"} \cup Processing
    /\ holder # None => Carries(holder, current[Poller].id)

\* Whoever writes an event goes on to mark it, and two who have one event,
\* or one template on one host, in hand at a time have met.
WriteInv ==
    /\ \A e \in Events : written[e] > 0 =>
           e \in interactshMatched \/ \E a \in Actors : pc[a] = "store" /\ EventAt(a) = e
    /\ interactshMatched # {} => matched
    /\ \A e \in Events :
           Busy(e) /\ Busy(Poller) /\ Carries(e, current[Poller].id) => e \in metPoller
    /\ WrittenOnce

\* Polling has stopped when the scan is told.
CloseInv ==
    closed => /\ \A e \in Events : pc[e] = "done"
              /\ ~cutOff => pc[Poller] = "idle" /\ answer = matched

\* An actor that has found its template unmatched, and has not recorded a
\* match itself.
PastCheck(a) == pc[a] \in {"take", "put", "each", "process", "write"}

\* The match of a template that was written is recorded, or about to be; and
\* whoever had found the template unmatched has met who recorded it.
FlagInv == stop /\ ~closed =>
    /\ \A a, b \in Actors :
           a # b /\ Busy(a) /\ Busy(b) /\ HashAt(a) = HashAt(b) => HashAt(a) \in metOther
    /\ \A e \in Events : written[e] > 0 =>
           \/ Hash[e] \in matchedTemplates \cup forgotten \cup metOther
           \/ \E a \in Actors : pc[a] \in {"store", "flag"} /\ HashAt(a) = Hash[e]
    /\ \A a \in Actors :
           PastCheck(a) /\ HashAt(a) \in matchedTemplates => HashAt(a) \in metOther
    /\ StopsAtFirstMatch

InteractshInv == TypeOK /\ PlaceInv /\ HolderInv /\ WriteInv /\ CloseInv /\ FlagInv

(***************************************************************************)
(* Why HitReported holds: where the hit of a URL is.                       *)
(***************************************************************************)
\* What is kept of an ID is of that ID, wherever it is.
IdInv ==
    /\ \A i \in Ids, e \in Events : <<i, e>> \in hits => Carries(e, i)
    /\ \A i \in Ids : \A m \in DOMAIN interactions[i] : interactions[i][m].id = i
    /\ pc[Poller] = "keep" => \A m \in DOMAIN items : items[m].id = current[Poller].id
    /\ \A e \in Events : pc[e] \in {"each"} \cup Processing =>
           \A m \in DOMAIN todo[e] : todo[e][m].id = Id(e)
    /\ \A e \in Events : pc[e] \in Processing => current[e].id = Id(e)

\* There is no more to be reported of e.
Told(e) == written[e] > 0 \/ (stop /\ Hash[e] \in matchedTemplates \cup forgotten)

\* Only hits are written, what is marked was, and an event that ends before its
\* last URL was stopped.
MarkInv ==
    /\ \A e \in interactshMatched : written[e] > 0
    /\ \A a \in Actors : /\ pc[a] = "write" => Matches(a)
                         /\ pc[a] \in {"store", "flag"} => written[EventAt(a)] > 0
    /\ ~closed => \A e \in Events : pc[e] = "done" => url[e] > Len(UrlsOf[e]) \/ Told(e)

\* URL n of e is still to be asked for, or it is asked for now.
Before(e, n) == /\ url[e] <= n /\ pc[e] # "done"
                /\ url[e] = n => pc[e] \in {"next", "url", "take"}
AtUrl(e, n) == url[e] = n /\ pc[e] \in {"each", "process", "write"}

PollerHas(i) ==
    /\ pc[Poller] \in {"lookup", "waiting", "keep", "check", "process", "write"}
    /\ current[Poller].id = i

\* A hit is with the poller, waits for its event, or is in the event's hand.  An
\* event that went past a URL is found under it until the URL is matched, so the
\* poller keeps an interaction only for an event that is still to come.
Track(e, n) ==
    LET i == UrlsOf[e][n]
    IN  /\ <<i, e>> \in hits =>
               \/ Told(e)
               \/ PollerHas(i) /\ e \in current[Poller].matches
               \/ Before(e, n) /\ HasHit(interactions[i], e)
               \/ AtUrl(e, n) /\ (HasHit(todo[e], e) \/ (pc[e] # "each" /\ Matches(e)))
        /\ url[e] > n =>
               Told(e) \/ requests[i] = e \/ (pc[Poller] = "write" /\ PollerHas(i) /\ holder = e)
        /\ PollerHas(i) /\ pc[Poller] \in {"waiting", "keep"} => Told(e) \/ Before(e, n)
        /\ PollerHas(i) /\ pc[Poller] = "keep" /\ HasHit(interactions[i], e) => HasHit(items, e)
        /\ PollerHas(i) /\ (e \in current[Poller].matches \/ requests[i] = e) =>
               holder \in {None, e}

\* The event and the ID have none of the fates HitReported excludes.
Regular(e, n) ==
    /\ e \notin metPoller /\ UrlsOf[e][n] \notin forgotten
    /\ <<UrlsOf[e][n], e>> \notin stranded \cup diverted

HitInv ==
    /\ IdInv /\ MarkInv
    /\ ~closed => \A e \in Events : \A n \in 1..Len(UrlsOf[e]) : Regular(e, n) => Track(e, n)

\* "add it to temporary lru cache, so we can correlate when we get an add
\* request": no interaction waits for a request event that waits for it.
Correlated ==
    (Quiet /\ \A e \in Events : pc[e] = "done") =>
        \A i \in Ids : requests[i] = None \/ interactions[i] = <<>>
=============================================================================
