--------------------------- MODULE RequestGenerator ---------------------------
(***************************************************************************)
(* The sequential execution of an HTTP request of a template (pkg/protocols *)
(* /http: ExecuteWithResults) over its request generator, and the three    *)
(* payload iterators below it (pkg/protocols/common/generators).           *)
(*                                                                         *)
(* A plan is what the template fixes: the kind of attack ("none" without   *)
(* payloads), the lengths of the payload lists in the order a map happened *)
(* to give, which of its requests are @once, whether they are raw, whether *)
(* dynamic values are iterated and whether it stops at the first match.    *)
(* List positions count from 1, iterator positions, as in the code, from 0.*)
(***************************************************************************)
EXTENDS Integers, Sequences, FiniteSets, FiniteSetsExt

CONSTANT Plans  \* set of plans

\* A template without any path or raw request hands out nothing.
ASSUME PlanAssumption ==
    \A p \in Plans :
        /\ p.attack \in {"none", "batteringram", "pitchfork", "clusterbomb"}
        /\ p.lens \in Seq(Nat)
        /\ p.attack = "none" <=> p.lens = <<>>
        /\ p.once \in Seq(BOOLEAN) \ {<<>>}

VARIABLES plan,    \* the plan of this template
          gen,     \* the generator: its index, payloads, iterator and @once marks
          phase,   \* where ExecuteWithResults is
          current, \* the request and payloads handed out last
          runs,    \* executions of it that are left, one per dynamic value
          dynamic, \* number of dynamic values extracted so far, 1 for none
          handed,  \* history: what the generator handed out
          counted  \* requests the progress counted

genVars == <<plan, gen, phase, current, runs, dynamic, handed, counted>>

HasPayloads == plan.attack # "none"
Lists == DOMAIN plan.lens
NumRequests == Len(plan.once)

\* The sum and the product of the first numbers, by how many they are.
Sums(ns) ==
    LET sum[i \in 0..Len(ns)] == IF i = 0 THEN 0 ELSE sum[i - 1] + ns[i]
    IN  sum

Products(ns) ==
    LET product[i \in 0..Len(ns)] == IF i = 0 THEN 1 ELSE product[i - 1] * ns[i]
    IN  product

\* Iterator.Total
IteratorTotal ==
    CASE plan.attack = "batteringram" -> Sums(plan.lens)[Len(plan.lens)]
      [] plan.attack = "pitchfork" -> Min({plan.lens[i] : i \in Lists})
      [] OTHER -> Products(plan.lens)[Len(plan.lens)]

-----------------------------------------------------------------------------
(* The iterators: Value of iterator state t is its next state, with the      *)
(* values it returns (none at the end) and whether it indexed a list that    *)
(* is not there.                                                             *)

Fresh == [position |-> 0, msb |-> 1, at |-> [i \in Lists |-> 0]]
Returned(t, value) == [state |-> t, value |-> value, panic |-> FALSE]

\* batteringramValue: the lists one after the other.
RamValue(t) ==
    LET open == {i \in Lists : i >= t.msb /\ t.at[i] < plan.lens[i]}
        i == Min(open)
    IN  IF t.msb \notin Lists THEN [Returned(t, <<>>) EXCEPT !.panic = TRUE]
        ELSE IF open = {} THEN Returned([t EXCEPT !.msb = Len(plan.lens) + 1], <<>>)
        ELSE Returned([position |-> t.position + 1, msb |-> i, at |-> [t.at EXCEPT ![i] = @ + 1]],
                      <<i, t.at[i]>>)

\* pitchforkValue: all lists in step.  The lists before the one that ends
\* move on all the same.
ForkValue(t) ==
    LET Moves(i) == \A j \in 1..i : t.at[j] < plan.lens[j]
        next == [t EXCEPT !.at = [i \in Lists |-> IF Moves(i) THEN t.at[i] + 1 ELSE t.at[i]]]
    IN  IF \A i \in Lists : Moves(i)
        THEN Returned([next EXCEPT !.position = @ + 1], t.at)
        ELSE Returned(next, <<>>)

\* A round of clusterbombValue at list i: the first list counts, a list at its
\* end starts anew and moves the next one, and when that happens to list msb
\* all lists below start anew, the next one moves, and the round is begun again.
BombList(acc, i) ==
    LET here == acc.at[i] + (IF acc.signal THEN 1 ELSE 0)
        over == here >= plan.lens[i]
        value == IF over THEN 0 ELSE here
    IN  IF acc.again THEN acc
        ELSE IF over /\ i = acc.msb
        THEN [acc EXCEPT !.again = TRUE, !.msb = @ + 1,
                         !.at = [j \in Lists |-> IF j <= i THEN 0
                                                 ELSE IF j = i + 1 THEN @[j] + 1 ELSE @[j]]]
        ELSE [acc EXCEPT !.signal = over, !.value = Append(@, value),
                         !.at[i] = IF i = 1 THEN value + 1 ELSE value]

RoundStart(t) == [at |-> t.at, msb |-> t.msb, signal |-> FALSE, again |-> FALSE, value |-> <<>>]

BombRound(t) ==
    LET round[i \in 0..Len(plan.lens)] ==
            IF i = 0 THEN RoundStart(t) ELSE BombList(round[i - 1], i)
    IN  round[Len(plan.lens)]

\* clusterbombValue: every combination.
BombValue(t) ==
    LET tries[n \in 0..Len(plan.lens)] ==
            IF n = 0 THEN BombRound(t)
            ELSE IF tries[n - 1].again THEN BombRound(tries[n - 1]) ELSE tries[n - 1]
        r == tries[Len(plan.lens)]
    IN  IF t.position >= IteratorTotal THEN Returned(t, <<>>)
        ELSE Returned([position |-> t.position + 1, msb |-> r.msb, at |-> r.at], r.value)

IteratorValue(t) ==
    CASE plan.attack = "batteringram" -> RamValue(t)
      [] plan.attack = "pitchfork" -> ForkValue(t)
      [] OTHER -> BombValue(t)

-----------------------------------------------------------------------------
(* The generator *)

NewGenerator ==
    [index |-> 1, payloads |-> <<>>, ok |-> FALSE, iterator |-> Fresh, done |-> {},
     panic |-> FALSE]

TakeValues(g, v) ==
    [g EXCEPT !.iterator = v.state, !.payloads = v.value, !.ok = v.value # <<>>,
              !.panic = @ \/ v.panic]

NextPayloads(g) == TakeValues(g, IteratorValue(g.iterator))

\* Mutant: the generator stays with the payloads it has.
SamePayloads(g, from) ==
    LET open == {r \in from..NumRequests : r \notin g.done}
    IN  IF open # {} THEN [gen |-> g, found |-> Min(open)]
        ELSE [gen |-> IF HasPayloads /\ g.payloads = <<>> THEN NextPayloads(g) ELSE g, found |-> 0]

\* findNextIteration: the next request from an index on, but those @once that
\* were handed out.  Behind the last one it moves on to the next payloads.
FindNext(g, from) ==
    LET open == {r \in from..NumRequests : r \notin g.done}
    IN  IF open # {} THEN [gen |-> g, found |-> Min(open)]
        ELSE [gen |-> IF HasPayloads THEN NextPayloads(g) ELSE g, found |-> 0]

\* nextValue: the first payloads on the first call, then the rest of the
\* round, or else a new round.  Nothing is found when it returns false.
FirstPayloads(g) == IF HasPayloads /\ g.payloads = <<>> THEN NextPayloads(g) ELSE g
ThisRound(g) == FindNext(g, g.index)
NewRound(r) == IF r.found = 0 /\ HasPayloads THEN FindNext(r.gen, 1) ELSE r
HandOut(r) ==
    IF r.found = 0 THEN r
    ELSE [gen |-> [r.gen EXCEPT !.index = r.found + 1,
                       !.done = IF plan.once[r.found] THEN @ \cup {r.found} ELSE @],
          found |-> IF HasPayloads /\ ~r.gen.ok THEN 0 ELSE r.found]
NextValue(g) == HandOut(NewRound(ThisRound(FirstPayloads(g))))

\* requestGenerator.Total: raw requests with payloads, paths without.
GeneratorTotal ==
    IF HasPayloads
    THEN (IF plan.raw THEN NumRequests ELSE 0) * (IteratorTotal - gen.iterator.position)
    ELSE IF plan.raw THEN 0 ELSE NumRequests

\* Request.Requests
RequestsTotal == NumRequests * (IF HasPayloads THEN IteratorTotal ELSE 1)

-----------------------------------------------------------------------------
(* The loop of ExecuteWithResults *)

GenInit ==
    /\ plan \in Plans
    /\ gen = NewGenerator
    /\ phase = "next"
    /\ current = <<>>
    /\ runs = 0 /\ dynamic = 1
    /\ handed = <<>>
    /\ counted = 0

\* The context is looked at once for every value of the generator.
NextRequest ==
    /\ phase = "next"
    /\ \E v \in {NextValue(gen)} :
        /\ gen' = v.gen
        /\ \/ /\ v.gen.panic
              /\ phase' = "panic"
              /\ UNCHANGED <<current, runs, handed>>
           \/ /\ ~v.gen.panic /\ v.found = 0
              /\ phase' = "exhausted"
              /\ UNCHANGED <<current, runs, handed>>
           \/ /\ ~v.gen.panic /\ v.found # 0
              /\ phase' \in {"execute", "stopped"}
              /\ current' = <<v.found, v.gen.payloads>>
              /\ handed' = Append(handed, current')
              /\ runs' = dynamic
    /\ UNCHANGED <<plan, dynamic, counted>>

\* No dynamic value is left for this request.
RequestDone ==
    /\ phase = "execute" /\ runs = 0
    /\ phase' = "next"
    /\ UNCHANGED <<plan, gen, current, runs, dynamic, handed, counted>>

\* Make fails: what is left is counted as failed.
MakeFails ==
    /\ phase = "execute" /\ runs > 0
    /\ phase' = "stopped"
    /\ counted' = counted + GeneratorTotal
    /\ UNCHANGED <<plan, gen, current, runs, dynamic, handed>>

\* The host is unresponsive, a variable is missing or Make has no more
\* requests: all further requests are skipped.
SkipFurther ==
    /\ phase = "execute" /\ runs > 0
    /\ phase' = "stopped"
    /\ UNCHANGED <<plan, gen, current, runs, dynamic, handed, counted>>

\* Mutant: only requests without an error are counted.
CountSuccess ==
    /\ phase = "execute" /\ runs > 0
    /\ runs' = runs - 1
    /\ counted' \in {counted, counted + 1}
    /\ \/ UNCHANGED <<phase, dynamic>>
       \/ /\ phase' = IF plan.stopFirst THEN "stopped" ELSE phase
          /\ dynamic' \in IF plan.iterate THEN 0..2 ELSE {dynamic}
    /\ UNCHANGED <<plan, gen, current, handed>>

\* The request is executed, with an error or not, and counted.  A response
\* may match and bring dynamic values.
ExecuteRequest ==
    /\ phase = "execute" /\ runs > 0
    /\ runs' = runs - 1
    /\ counted' = counted + 1
    /\ \/ UNCHANGED <<phase, dynamic>>
       \/ /\ phase' = IF plan.stopFirst THEN "stopped" ELSE phase
          /\ dynamic' \in IF plan.iterate THEN 0..2 ELSE {dynamic}
    /\ UNCHANGED <<plan, gen, current, handed>>

GenNext == NextRequest \/ RequestDone \/ MakeFails \/ SkipFurther \/ ExecuteRequest

GenSpec == GenInit /\ [][GenNext]_genVars

-----------------------------------------------------------------------------
\* What combination number k is, said without iterators.
Combination(k) ==
    CASE plan.attack = "batteringram" ->
            LET Before(i) == Sums(plan.lens)[i - 1]
                i == CHOOSE j \in Lists : Before(j) <= k /\ k < Before(j) + plan.lens[j]
            IN  <<i, k - Before(i)>>
      [] plan.attack = "pitchfork" -> [i \in Lists |-> k]
      [] plan.attack = "clusterbomb" ->
            [i \in Lists |-> (k \div Products(plan.lens)[i - 1]) % plan.lens[i]]
      [] OTHER -> <<>>

\* The requests up to r with combination k: all with the first one, then all
\* but those that are @once.
Due(k) ==
    LET due[r \in 0..NumRequests] ==
            IF r = 0 THEN <<>>
            ELSE IF k = 0 \/ ~plan.once[r] THEN Append(due[r - 1], <<r, Combination(k)>>)
            ELSE due[r - 1]
    IN  due

\* Combination by combination.
Rounds == IF HasPayloads THEN IteratorTotal ELSE 1

DueBefore ==
    LET before[k \in 0..Rounds] ==
            IF k = 0 THEN <<>> ELSE before[k - 1] \o Due(k - 1)[NumRequests]
    IN  before

Expected == DueBefore[Rounds]

\* The generator hands out every request with every combination of payloads,
\* once and in order, and stops when all were handed out: through moves of
\* the iterator from two places, lists of different lengths and @once
\* requests that have to be passed over.  It asks the iterator for a value
\* behind its end in one case alone: every request is @once and one battering
\* ram value is all there is.
SentAsPlanned ==
    /\ Len(handed) <= Len(Expected) /\ handed = SubSeq(Expected, 1, Len(handed))
    /\ phase = "exhausted" => handed = Expected
    /\ phase = "panic" =>
          /\ plan.attack = "batteringram" /\ IteratorTotal = 1
          /\ \A r \in 1..NumRequests : plan.once[r]

\* A template that ran through all its requests has been counted as often as
\* Requests announced to the progress, errors included.
ProgressAccounted ==
    phase = "exhausted" /\ ~plan.iterate /\ (\A r \in 1..NumRequests : ~plan.once[r])
        => counted = RequestsTotal
=============================================================================
