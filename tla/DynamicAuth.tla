----------------------------- MODULE DynamicAuth -----------------------------
(***************************************************************************)
(* A dynamic secret (pkg/authprovider): its values come out of a login     *)
(* template that runs when the first request needs them, or before the     *)
(* scan with -prefetch-secrets.  Every domain of the secret has a copy of  *)
(* the Dynamic structure, with flags of its own; the copies share the      *)
(* mutex and, being slices, the headers, cookies and query parameters.     *)
(***************************************************************************)
EXTENDS Naturals

CONSTANTS Requests,      \* goroutines that send requests
          Entries,       \* domains of the secret
          NumFields,     \* headers, say, with a placeholder
          MaxLogins      \* bound: logins for an entry

ASSUME AuthAssumption ==
    Entries # {} /\ NumFields \in Nat \ {0} /\ MaxLogins \in Nat \ {0}

VARIABLES prefetch,  \* -prefetch-secrets
          shared,    \* the fields are in a slice, not strings of the copy
          auth,      \* request -> where it is
          entry,     \* request -> entry it was looked up in
          lock,      \* requests that hold the mutex
          fetched,   \* entry -> the flag
          refused,   \* entry -> its error is set
          resolved,  \* entry -> fields without placeholder, in order
          exited,    \* the process has stopped
          logins     \* history: entry -> times its template was run

modes == <<prefetch, shared>>
authVars == <<prefetch, shared, auth, entry, lock, fetched, refused, resolved, exited,
              logins>>

AuthTypeOK ==
    /\ prefetch \in BOOLEAN /\ shared \in BOOLEAN
    /\ auth \in [Requests -> {"idle", "check", "lock", "recheck", "login", "resolve",
                              "fatal", "unlock", "error", "apply"}]
    /\ entry \in [Requests -> Entries]
    /\ lock \subseteq Requests
    /\ fetched \in [Entries -> BOOLEAN]
    /\ refused \in [Entries -> BOOLEAN]
    /\ resolved \in [Entries -> 0..NumFields]
    /\ exited \in BOOLEAN
    /\ logins \in [Entries -> 0..MaxLogins]

AuthInit ==
    /\ prefetch \in BOOLEAN /\ shared \in BOOLEAN
    /\ auth = [r \in Requests |-> "idle"]
    /\ entry = [r \in Requests |-> CHOOSE e \in Entries : TRUE]
    /\ lock = {}
    /\ fetched = [e \in Entries |-> FALSE]
    /\ refused = [e \in Entries |-> FALSE]
    /\ resolved = [e \in Entries |-> 0]
    /\ exited = FALSE
    /\ logins = [e \in Entries |-> 0]

Resolve(e, n) ==
    [d \in Entries |-> IF d = e \/ (shared /\ resolved[d] < n) THEN n ELSE resolved[d]]

\* PreFetchSecrets: Fetch(false) of every entry, before there are requests.
\* The first error ends the program.
PrefetchSecret(e) ==
    /\ prefetch /\ ~exited /\ ~fetched[e] /\ logins[e] < MaxLogins
    /\ logins' = [logins EXCEPT ![e] = @ + 1]
    /\ fetched' = [fetched EXCEPT ![e] = TRUE]
    /\ \/ /\ resolved' = Resolve(e, NumFields)
          /\ UNCHANGED <<refused, exited>>
       \/ /\ refused' = [refused EXCEPT ![e] = TRUE]
          /\ exited' = TRUE
          /\ UNCHANGED resolved
    /\ UNCHANGED <<modes, auth, entry, lock>>

Scanning == ~exited /\ (prefetch => \A e \in Entries : fetched[e])

Goes(r, from, to) == Scanning /\ auth[r] = from /\ auth' = [auth EXCEPT ![r] = to]

\* ApplyAuth looks the strategy up.
LookupStrategy(r, e) ==
    /\ Goes(r, "idle", "check")
    /\ entry' = [entry EXCEPT ![r] = e]
    /\ UNCHANGED <<modes, lock, fetched, refused, resolved, exited, logins>>

\* GetStrategy reads the flag, without the lock.
CheckFetched(r) ==
    /\ Goes(r, "check", IF fetched[entry[r]] THEN "error" ELSE "lock")
    /\ UNCHANGED <<modes, entry, lock, fetched, refused, resolved, exited, logins>>

\* Fetch
LockFetch(r) ==
    /\ Goes(r, "lock", "recheck")
    /\ lock = {}
    /\ lock' = {r}
    /\ UNCHANGED <<modes, entry, fetched, refused, resolved, exited, logins>>

\* Mutant: the flag is not read again under the lock.
NoRecheck(r) ==
    /\ Goes(r, "recheck", "login")
    /\ UNCHANGED <<modes, entry, lock, fetched, refused, resolved, exited, logins>>

RecheckFetched(r) ==
    /\ Goes(r, "recheck", IF fetched[entry[r]] THEN "unlock" ELSE "login")
    /\ UNCHANGED <<modes, entry, lock, fetched, refused, resolved, exited, logins>>

\* Mutant: the mutex is given back before the values are put in.
LoginUnlocked(r) ==
    /\ Goes(r, "login", "resolve")
    /\ logins[entry[r]] < MaxLogins
    /\ logins' = [logins EXCEPT ![entry[r]] = @ + 1]
    /\ fetched' = [fetched EXCEPT ![entry[r]] = TRUE]
    /\ lock' = {}
    /\ UNCHANGED <<modes, entry, refused, resolved, exited>>

\* The callback runs the template and sets the flag; it then has values, an
\* error, or no error and no values.
Login(r) ==
    /\ \/ Goes(r, "login", "resolve") /\ UNCHANGED refused
       \/ /\ Goes(r, "login", "fatal")
          /\ refused' \in {refused, [refused EXCEPT ![entry[r]] = TRUE]}
    /\ logins[entry[r]] < MaxLogins
    /\ logins' = [logins EXCEPT ![entry[r]] = @ + 1]
    /\ fetched' = [fetched EXCEPT ![entry[r]] = TRUE]
    /\ UNCHANGED <<modes, entry, lock, resolved, exited>>

\* The placeholders of one field after the other are replaced.
ResolveField(r) ==
    LET n == resolved[entry[r]] + 1
    IN  /\ Goes(r, "resolve", IF n >= NumFields THEN "unlock" ELSE "resolve")
        /\ resolved' = IF n <= NumFields THEN Resolve(entry[r], n) ELSE resolved
        /\ UNCHANGED <<modes, entry, lock, fetched, refused, exited, logins>>

\* Fetch(true): the error is fatal.
FatalError(r) ==
    /\ Scanning /\ auth[r] = "fatal"
    /\ exited' = TRUE
    /\ UNCHANGED <<modes, auth, entry, lock, fetched, refused, resolved, logins>>

UnlockFetch(r) ==
    /\ Goes(r, "unlock", "error")
    /\ lock' = lock \ {r}
    /\ UNCHANGED <<modes, entry, fetched, refused, resolved, exited, logins>>

\* GetStrategy reads the error; with one there is no strategy to apply.
CheckError(r) ==
    /\ Goes(r, "error", IF refused[entry[r]] THEN "idle" ELSE "apply")
    /\ UNCHANGED <<modes, entry, lock, fetched, refused, resolved, exited, logins>>

\* The strategy writes the fields, as they are now, into the request.
ApplyStrategy(r) ==
    /\ Goes(r, "apply", "idle")
    /\ UNCHANGED <<modes, entry, lock, fetched, refused, resolved, exited, logins>>

AuthStep(r) ==
    \/ \E e \in Entries : LookupStrategy(r, e)
    \/ CheckFetched(r) \/ LockFetch(r) \/ RecheckFetched(r) \/ Login(r) \/ ResolveField(r)
    \/ FatalError(r) \/ UnlockFetch(r) \/ CheckError(r) \/ ApplyStrategy(r)

AuthNext == (\E e \in Entries : PrefetchSecret(e)) \/ (\E r \in Requests : AuthStep(r))

AuthSpec == AuthInit /\ [][AuthNext]_authVars

-----------------------------------------------------------------------------
Applies(r) == auth[r] = "apply" /\ auth'[r] = "idle"

Ready(e) == resolved[e] = NumFields

InFetch(r) == auth[r] \in {"recheck", "login", "resolve", "fatal", "unlock"}

\* Inductive invariant: the mutex is held by whoever is in Fetch, an entry
\* was logged in for if and only if its flag is set, and an entry with the
\* flag set is ready unless its fetch is still under way.  Requests begin
\* when everything that is prefetched was.
LoginGuarded ==
    /\ prefetch => (\A r \in Requests : auth[r] = "idle") \/ (\A e \in Entries : fetched[e])
    /\ \A r \in Requests : InFetch(r) <=> r \in lock
    /\ \A q, r \in lock : q = r
    /\ \A e \in Entries : logins[e] = IF fetched[e] THEN 1 ELSE 0
    /\ \A r \in Requests : auth[r] = "login" => ~fetched[entry[r]]
    /\ \A r \in Requests :
          auth[r] \in {"resolve", "fatal", "unlock", "error", "apply"} => fetched[entry[r]]
    /\ \A e \in Entries : fetched[e] =>
          \/ Ready(e) \/ exited
          \/ \E r \in lock : entry[r] = e /\ auth[r] \in {"resolve", "fatal"}

\* The template of an entry is run once, whoever asks for the secret when.
OneLoginPerEntry == \A e \in Entries : logins[e] <= 1

\* A request is sent with a placeholder in place of a value at most while the
\* secret is being fetched by another, never after.
RawOnlyWhileFetching ==
    [][\A r \in Requests : Applies(r) =>
          Ready(entry[r]) \/ \E q \in lock : entry[q] = entry[r]]_authVars
=============================================================================
