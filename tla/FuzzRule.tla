------------------------------- MODULE FuzzRule -------------------------------
(***************************************************************************)
(* The fuzzing rules of an HTTP template on one request                    *)
(* (pkg/protocols/http: executeAllFuzzingRules, and pkg/fuzz: Execute,     *)
(* executeRuleValues and the part rules below it).                         *)
(*                                                                         *)
(* A rule goes over its components, over each once or with each set of    *)
(* payload values (rounds), and in each round over its fuzz payloads,      *)
(* which are values for every key of the component or key-value pairs of   *)
(* their own.  In single mode every key is a request; in multiple mode all *)
(* keys go into one.  The callback that sends a request returns whether    *)
(* there may be more.                                                      *)
(*                                                                         *)
(* In single mode a key gets its value back after its request: its value   *)
(* as a string, that is, set as a payload is.  What becomes of it depends  *)
(* on the value:                                                           *)
(*   "exact"     strings, integers, booleans: the value is back            *)
(*   "fraction"  other numbers: they cannot be set to their string         *)
(*   "altered"   null, several headers or parameters of one name, escaped  *)
(*               segments of a path: another value is there                *)
(*   "list"      arrays: their last element is now the string of them all, *)
(*               in the array that all clones of the component share       *)
(*   "inert"     empty arrays and objects: not even the payload was set    *)
(***************************************************************************)
EXTENDS Naturals, Sequences

CONSTANTS RuleLists,  \* set of sequences of rules
          NumKeys     \* keys of a component that the rule matches

ASSUME FuzzAssumption == NumKeys \in Nat

FuzzKeys == 1..NumKeys

VARIABLES rules,     \* the rules of the template
          rule,      \* rule that is executed
          component, \* component of the rule: a kind of value for each key
          round,     \* payload values
          payload,   \* fuzz payload
          key,       \* key of the component
          tried,     \* keys gone over with the payload, this one included
          changed,   \* keys with another value in the clone than at first
          worn,      \* keys of the component itself whose array is another
          point,     \* where the rule is
          blocked,   \* whether the context is done or the host unresponsive
          sent,      \* the last request
          stopped    \* history: the callback returned false

fuzzVars == <<rules, rule, component, round, payload, key, tried, changed, worn, point,
              blocked, sent, stopped>>

This == rules[rule]
Value(k) == This.components[component][k]

NoRequest == [rule |-> 0]

FuzzInit ==
    /\ rules \in RuleLists
    /\ rule = 1 /\ component = 1 /\ round = 1 /\ payload = 1 /\ key = 0
    /\ tried = {} /\ changed = {} /\ worn = {}
    /\ point = "rule"
    /\ blocked = "no"
    /\ sent = NoRequest
    /\ stopped = FALSE

\* The scan is cancelled, or the requests of other goroutines make the host
\* unresponsive, until the cache forgets it.
Block ==
    /\ point # "over"
    /\ \/ blocked = "no" /\ blocked' \in {"context", "host"}
       \/ blocked = "host" /\ blocked' \in {"no", "context"}
    /\ UNCHANGED <<rules, rule, component, round, payload, key, tried, changed, worn, point,
                   sent, stopped>>

\* executeAllFuzzingRules: the next rule, unless the context is done.  It
\* parses its components anew.
BeginRule ==
    /\ point = "rule"
    /\ \/ /\ rule <= Len(rules) /\ blocked # "context"
          /\ point' = "payload" /\ UNCHANGED rule
       \/ /\ rule <= Len(rules) /\ blocked # "context"
          /\ rule' = rule + 1 /\ UNCHANGED point  \* not applicable
       \/ /\ rule > Len(rules) \/ blocked = "context"
          /\ point' = "over" /\ UNCHANGED rule
    /\ component' = 1 /\ round' = 1 /\ payload' = 1 /\ worn' = {}
    /\ UNCHANGED <<rules, key, tried, changed, blocked, sent, stopped>>

\* executeRuleValues: the next payload gets a clone of the component, which
\* has the arrays of the component itself.
NextPayload ==
    /\ point = "payload" /\ payload <= This.payloads
    /\ point' = IF This.pairs THEN "pair" ELSE "keys"
    /\ tried' = {} /\ changed' = worn
    /\ UNCHANGED <<rules, rule, component, round, payload, key, worn, blocked, sent, stopped>>

\* The loops of Execute.
EndOfRound ==
    \/ /\ round < This.rounds
       /\ point' = "payload" /\ round' = round + 1 /\ payload' = 1
       /\ UNCHANGED <<rule, component, worn>>
    \/ /\ round >= This.rounds /\ component < Len(This.components)
       /\ point' = "payload" /\ component' = component + 1 /\ round' = 1 /\ payload' = 1
       /\ worn' = {}
       /\ UNCHANGED rule
    \/ /\ round >= This.rounds /\ component >= Len(This.components)
       /\ point' = "rule" /\ rule' = rule + 1
       /\ UNCHANGED <<component, round, payload, worn>>

EndRound ==
    /\ point = "payload" /\ payload > This.payloads
    /\ ~(This.pairs /\ ~This.single)
    /\ EndOfRound
    /\ UNCHANGED <<rules, key, tried, changed, blocked, sent, stopped>>

\* Pairs in multiple mode: all of them, as far as they can be set, go into
\* the component, and one request is built of it.
SetAllPairs ==
    /\ point = "payload" /\ payload > This.payloads
    /\ This.pairs /\ ~This.single
    /\ changed' \in SUBSET (1..This.payloads)
    /\ point' = "send"
    /\ UNCHANGED <<rules, rule, component, round, payload, key, tried, worn, blocked, sent,
                   stopped>>

\* executePartComponentOnValues: the payload goes into the next key, in no
\* order, unless the format of the component forbids it.
SetKey ==
    /\ point = "keys"
    /\ key' \in FuzzKeys \ tried
    /\ tried' = tried \cup {key'}
    /\ \/ /\ changed' = IF Value(key') = "inert" THEN changed ELSE changed \cup {key'}
          /\ worn' = IF Value(key') = "list" THEN worn \cup {key'} ELSE worn
          /\ point' = IF This.single THEN "send" ELSE "keys"
       \/ UNCHANGED <<changed, worn, point>>
    /\ UNCHANGED <<rules, rule, component, round, payload, blocked, sent, stopped>>

EndKeys ==
    /\ point = "keys" /\ tried = FuzzKeys
    /\ IF This.single THEN point' = "payload" /\ payload' = payload + 1
       ELSE point' = "send" /\ UNCHANGED payload
    /\ UNCHANGED <<rules, rule, component, round, key, tried, changed, worn, blocked, sent,
                   stopped>>

\* executePartComponentOnKV: the pair is set in the clone and sent; in
\* multiple mode, or when it cannot be set, that was all.
SetPair ==
    /\ point = "pair"
    /\ \/ This.single /\ point' = "send" /\ changed' = {payload} /\ UNCHANGED payload
       \/ point' = "payload" /\ payload' = payload + 1 /\ UNCHANGED changed
    /\ UNCHANGED <<rules, rule, component, round, key, tried, worn, blocked, sent, stopped>>

\* execWithInput has returned: without error the rule goes on.  The error
\* that there shall be no more requests ends all rules, but
\* executePartComponentOnKV returns the error of Rebuild in its place.
GoOn ==
    \/ /\ This.pairs <=> This.single
       /\ point' = "payload" /\ payload' = payload + 1
       /\ UNCHANGED <<rule, component, round, worn>>
    \/ /\ This.pairs /\ ~This.single
       /\ EndOfRound
    \/ /\ ~This.pairs /\ This.single
       /\ point' = "restore"
       /\ UNCHANGED <<rule, component, round, payload, worn>>

\* Mutant: the value fuzzers drop the error, too.
StopNothing == GoOn

StopAll ==
    IF This.pairs /\ This.single THEN GoOn
    ELSE point' = "over" /\ UNCHANGED <<rule, component, round, payload, worn>>

\* The request cannot be built.
RebuildFails ==
    /\ point = "send"
    /\ point' = "over"
    /\ UNCHANGED <<rules, rule, component, round, payload, key, tried, changed, worn, blocked,
                   sent, stopped>>

\* The parameter is frequent.
SkipParameter ==
    /\ point = "send"
    /\ GoOn
    /\ UNCHANGED <<rules, key, tried, changed, blocked, sent, stopped>>

Request ==
    [rule |-> rule, component |-> component, round |-> round, payload |-> payload,
     key |-> key, before |-> tried \ {key}, changed |-> changed]

\* executeGeneratedFuzzingRequest sends the request: no match, or no stop at
\* the first one.
Send ==
    /\ point = "send" /\ blocked = "no"
    /\ sent' = Request
    /\ GoOn
    /\ UNCHANGED <<rules, key, tried, changed, blocked, stopped>>

\* It sends the request, and this is the match to stop at.
SendLast ==
    /\ point = "send" /\ blocked = "no"
    /\ sent' = Request
    /\ stopped' = TRUE
    /\ StopAll
    /\ UNCHANGED <<rules, key, tried, changed, blocked>>

\* It sends nothing: the context is done, the host is unresponsive, or a
\* variable is missing.
Refuse ==
    /\ point = "send"
    /\ stopped' = TRUE
    /\ StopAll
    /\ UNCHANGED <<rules, key, tried, changed, blocked, sent>>

\* Mutant: the payload stays in the key.
RestoreNothing ==
    /\ point = "restore"
    /\ point' = "keys"
    /\ UNCHANGED <<rules, rule, component, round, payload, key, tried, changed, worn, blocked,
                   sent, stopped>>

\* The key is set to the string of its value.  Where that cannot be set the
\* payload is done with.
Restore ==
    /\ point = "restore"
    /\ \/ /\ Value(key) = "fraction"
          /\ point' = "payload" /\ payload' = payload + 1 /\ UNCHANGED changed
       \/ /\ Value(key) # "fraction"
          /\ point' = "keys"
          /\ changed' = IF Value(key) \in {"altered", "list"} THEN changed ELSE changed \ {key}
          /\ UNCHANGED payload
    /\ UNCHANGED <<rules, rule, component, round, key, tried, worn, blocked, sent, stopped>>

FuzzNext ==
    \/ Block \/ BeginRule \/ NextPayload \/ EndRound
    \/ SetAllPairs \/ SetKey \/ EndKeys \/ SetPair
    \/ RebuildFails \/ SkipParameter \/ Send \/ SendLast \/ Refuse \/ Restore

FuzzSpec == FuzzInit /\ [][FuzzNext]_fuzzVars

-----------------------------------------------------------------------------
\* "If this was a match, and we want to stop at first match, skip all further
\* requests": once the callback has returned false nothing is sent.
StopSkipsFurther == [][stopped => UNCHANGED sent]_fuzzVars

\* The only requests after a stop are those of a rule with key-value pairs in
\* single mode that was under way or, as it tells nobody, comes later.
StopHoldsForValues ==
    [][stopped /\ sent' # sent =>
        \E i \in 1..sent'.rule : rules[i].pairs /\ rules[i].single]_fuzzVars

\* What SetValue could not put back and left as it is now: a value altered
\* earlier in this payload, or an array of the component that was fuzzed in
\* this payload or an earlier one, as the clones share it.
LeftBehind(r, k) ==
    LET value == rules[r.rule].components[r.component][k]
    IN  \/ value \in {"altered", "list"} /\ k \in r.before
        \/ value = "list" /\ (r.payload > 1 \/ r.round > 1)

\* "After calling setValue for mutation, the value must be called again so as
\* to reset the body to its original state": in single mode a request differs
\* from the original in the one key it is about, whatever became of the keys
\* and payloads before it, and otherwise only in values of the kinds that a
\* string does not bring back.
OnePointAtATime ==
    sent # NoRequest /\ rules[sent.rule].single /\ ~rules[sent.rule].pairs =>
        /\ \/ sent.key \in sent.changed
           \/ rules[sent.rule].components[sent.component][sent.key] = "inert"
        /\ \A k \in sent.changed \ {sent.key} : LeftBehind(sent, k)
=============================================================================
