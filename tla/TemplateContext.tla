--------------------------- MODULE TemplateContext ---------------------------
(***************************************************************************)
(* The contexts in which the requests of a multi-protocol template hand on *)
(* values (pkg/protocols: ExecutorOptions, pkg/tmplexec/multiproto and     *)
(* generic, and the MetaInput of pkg/protocols/common/contextargs).        *)
(*                                                                         *)
(* Every template has a store of contexts.  The key of a context is the    *)
(* hash of a template and a target, which is computed once per MetaInput   *)
(* and kept in it; the executions of host spray and of workflows share     *)
(* the MetaInput of their target, a clone of it starts without a hash.     *)
(* An access to a context is: look at the hash, compute it when missing,   *)
(* look the context up under it, create it when missing.                   *)
(*                                                                         *)
(* The template of a request says which MetaInput it works with: "shared", *)
(* that of the execution (HTTP, DNS, SSL), "cloned", a clone, or "ported", *)
(* a clone moved to the port of the template (javascript, network).        *)
(***************************************************************************)
EXTENDS Naturals, Sequences

CONSTANTS Executions,   \* executions of templates on targets
          Templates,
          MetaInputs,   \* targets in memory
          Inputs,       \* what is written in a target
          TemplateOf,   \* [Executions -> Templates]
          MetaInputOf,  \* [Executions -> MetaInputs]
          InputOf,      \* [MetaInputs -> Inputs]
          AtPort,       \* [Inputs -> Inputs]: the input at a template's port
          Kinds,     \* [Templates -> Seq({"shared", "cloned", "ported"})]
          Executed,     \* the executions by Execute, not ExecuteWithResults
          NoHash        \* the hash of a MetaInput at first

Keys == Templates \X Inputs

ASSUME ContextAssumption ==
    /\ TemplateOf \in [Executions -> Templates]
    /\ MetaInputOf \in [Executions -> MetaInputs]
    /\ InputOf \in [MetaInputs -> Inputs]
    /\ AtPort \in [Inputs -> Inputs]
    /\ Kinds \in [Templates -> Seq({"shared", "cloned", "ported"})]
    /\ \A t \in Templates : Kinds[t] # <<>>
    /\ NoHash \notin Keys

VARIABLES hash,      \* of each MetaInput
          contexts,  \* of each template: contexts by key
          at,        \* where each execution is
          given,     \* values the next request of an execution starts from
          made,      \* history: values the requests of an execution made
          rehashed   \* history: MetaInputs whose hash was overwritten

contextVars == <<hash, contexts, at, given, made, rehashed>>

Meta(e) == MetaInputOf[e]
KindsOf(e) == Kinds[TemplateOf[e]]
IsMultiProtocol(e) == Len(KindsOf(e)) > 1

\* Mutant: the options of all templates are copied with one store.
OneStore(e) == CHOOSE t \in Templates : TRUE

\* CreateTemplateCtxStore: each template has its own.
StoreOf(e) == TemplateOf[e]

\* A value is named for its execution, the request that made it and how: a run
\* adds its response, the engine what it extracts from it.  The arguments of
\* the engine have the number 0.
Values == Executions \X Nat \X {"args", "run", "extract"}

ContextOps == {"args", "read", "run", "extract", "remove", "over"}
Phases == {"look", "compute", "get", "create"}

\* A single request is run by the generic engine, on a clone.
Kind(e, i) ==
    IF KindsOf(e)[i] = "shared" /\ ~IsMultiProtocol(e) THEN "cloned" ELSE KindsOf(e)[i]

OnClone(e) == at[e].op = "run" /\ Kind(e, at[e].request) # "shared"

OwnKey(e) == <<TemplateOf[e], InputOf[Meta(e)]>>

CloneKey(e, i) ==
    IF Kind(e, i) = "ported" THEN <<TemplateOf[e], AtPort[InputOf[Meta(e)]]>> ELSE OwnKey(e)

Goto(e, request, op) ==
    at' = [at EXCEPT ![e] = [request |-> request, op |-> op, phase |-> "look", key |-> NoHash]]

\* Mutant: the context is removed at the end of the function only.
EndQuietly(e) ==
    Goto(e, at[e].request,
         IF e \in Executed /\ at[e].op = "extract" THEN "remove" ELSE "over")

\* The deferred end of Execute; ExecuteWithResults has none.
EndExecution(e) ==
    Goto(e, at[e].request, IF e \in Executed THEN "remove" ELSE "over")

AfterRequest(e) ==
    IF at[e].request < Len(KindsOf(e))
    THEN Goto(e, at[e].request + 1, "read")
    ELSE EndExecution(e)

\* What follows an access to the context.
AfterAccess(e) ==
    \/ at[e].op = "args" /\ Goto(e, 1, "read")
    \/ at[e].op = "read" /\ Goto(e, at[e].request, "run")
    \/ at[e].op = "run" /\ IsMultiProtocol(e) /\ Goto(e, at[e].request, "extract")
    \/ at[e].op = "run" /\ ~IsMultiProtocol(e) /\ AfterRequest(e)
    \/ at[e].op = "extract" /\ AfterRequest(e)

ContextInit ==
    /\ hash = [m \in MetaInputs |-> NoHash]
    /\ contexts = [t \in Templates |-> <<>>]
    /\ at = [e \in Executions |->
               [request |-> IF IsMultiProtocol(e) THEN 0 ELSE 1,
                op |-> IF IsMultiProtocol(e) THEN "args" ELSE "run",
                phase |-> "look", key |-> NoHash]]
    /\ given = [e \in Executions |-> {}]
    /\ made = [e \in Executions |-> {}]
    /\ rehashed = {}

\* A fatal error of a request, or the context of the scan is done.
StopExecution(e) ==
    /\ at[e].op \in {"args", "read", "run", "extract"} /\ at[e].phase = "look"
    /\ EndExecution(e)
    /\ UNCHANGED <<hash, contexts, given, made, rehashed>>

\* A request that leaves no values, or makes no event.
LeaveNothing(e) ==
    /\ at[e].op \in {"run", "extract"} /\ at[e].phase = "look"
    /\ AfterAccess(e)
    /\ UNCHANGED <<hash, contexts, given, made, rehashed>>

\* GetScanHash sees no hash and computes one, ...
SeeNoHash(e) ==
    /\ at[e].op # "over" /\ at[e].phase = "look"
    /\ hash[Meta(e)] = NoHash /\ ~OnClone(e)
    /\ at' = [at EXCEPT ![e].phase = "compute"]
    /\ UNCHANGED <<hash, contexts, given, made, rehashed>>

ComputeHash(e) ==
    /\ at[e].phase = "compute"
    /\ hash' = [hash EXCEPT ![Meta(e)] = OwnKey(e)]
    /\ rehashed' = IF hash[Meta(e)] \in {NoHash, OwnKey(e)} THEN rehashed
                   ELSE rehashed \cup {Meta(e)}
    /\ at' = [at EXCEPT ![e].phase = "get"]
    /\ UNCHANGED <<contexts, given, made>>

\* ... and returns what is there then.  A clone has a hash of its own.
ScanHash(e) == IF OnClone(e) THEN CloneKey(e, at[e].request) ELSE hash[Meta(e)]

HasScanHash(e) ==
    \/ at[e].phase = "get"
    \/ at[e].phase = "look" /\ (OnClone(e) \/ hash[Meta(e)] # NoHash)

\* The values of the execution's context are handed to the request (GetAll),
\* or one is added to it (AddTemplateVars, Merge, Set).
ThisValue(e) == <<e, at[e].request, at[e].op>>

With(store, key, values) ==
    [k \in DOMAIN store \cup {key} |-> IF k = key THEN values ELSE store[k]]

Without(store, key) == [k \in DOMAIN store \ {key} |-> store[k]]

Access(e, key, values) ==
    /\ LET new == IF at[e].op = "read" THEN values ELSE values \cup {ThisValue(e)}
       IN  contexts' = [contexts EXCEPT ![StoreOf(e)] = With(@, key, new)]
    /\ given' = IF at[e].op = "read" THEN [given EXCEPT ![e] = values] ELSE given
    /\ made' = IF at[e].op = "read" THEN made
               ELSE [made EXCEPT ![e] = @ \cup {ThisValue(e)}]
    /\ AfterAccess(e)
    /\ UNCHANGED <<hash, rehashed>>

\* Mutant: a context is made for every access.
FreshContext(e) ==
    /\ at[e].op \notin {"remove", "over"} /\ HasScanHash(e)
    /\ Access(e, ScanHash(e), {})

\* GetTemplateCtx: the context under the hash, ...
UseContext(e) ==
    /\ at[e].op \notin {"remove", "over"} /\ HasScanHash(e)
    /\ ScanHash(e) \in DOMAIN contexts[StoreOf(e)]
    /\ Access(e, ScanHash(e), contexts[StoreOf(e)][ScanHash(e)])

\* ... which is missing ...
MissContext(e) ==
    /\ at[e].op \notin {"remove", "over"} /\ HasScanHash(e)
    /\ ScanHash(e) \notin DOMAIN contexts[StoreOf(e)]
    /\ at' = [at EXCEPT ![e] = [@ EXCEPT !.phase = "create", !.key = ScanHash(e)]]
    /\ UNCHANGED <<hash, contexts, given, made, rehashed>>

\* ... and created, in place of one created since.
CreateContext(e) ==
    /\ at[e].phase = "create"
    /\ Access(e, at[e].key, {})

\* RemoveTemplateCtx, deferred by Execute.
RemoveContext(e) ==
    /\ at[e].op = "remove" /\ HasScanHash(e)
    /\ contexts' = [contexts EXCEPT ![StoreOf(e)] = Without(@, hash[Meta(e)])]
    /\ Goto(e, at[e].request, "over")
    /\ UNCHANGED <<hash, given, made, rehashed>>

ContextStepOf(e) ==
    \/ StopExecution(e) \/ LeaveNothing(e)
    \/ SeeNoHash(e) \/ ComputeHash(e)
    \/ UseContext(e) \/ MissContext(e) \/ CreateContext(e) \/ RemoveContext(e)

ContextNext == \E e \in Executions : ContextStepOf(e)

ContextSpec == ContextInit /\ [][ContextNext]_contextVars

-----------------------------------------------------------------------------
ContextTypeOK ==
    /\ hash \in [MetaInputs -> Keys \cup {NoHash}]
    /\ \A t \in Templates :
          /\ DOMAIN contexts[t] \subseteq Keys
          /\ \A key \in DOMAIN contexts[t] : contexts[t][key] \subseteq Values
    /\ DOMAIN contexts = Templates
    /\ at \in [Executions -> [request : Nat, op : ContextOps, phase : Phases,
                              key : Keys \cup {NoHash}]]
    /\ given \in [Executions -> SUBSET Values]
    /\ made \in [Executions -> SUBSET Values]
    /\ rehashed \subseteq MetaInputs

\* The inputs under which a template may know an execution.
KnownInputs(e) ==
    {InputOf[Meta(e)]} \cup
        (IF \E i \in DOMAIN KindsOf(e) : KindsOf(e)[i] = "ported"
         THEN {AtPort[InputOf[Meta(e)]]} ELSE {})

\* Another execution of the template that may come to the same context.
HasTwin(e) ==
    \E f \in Executions \ {e} :
        TemplateOf[f] = TemplateOf[e] /\ KnownInputs(f) \cap KnownInputs(e) # {}

\* What the runs on clones add where the engine does not look: under the hash
\* of the clone, when that is not the hash of the execution's own MetaInput.
Astray(e) ==
    {<<e, i, "run">> : i \in {j \in DOMAIN KindsOf(e) :
                               Kind(e, j) # "shared" /\ CloneKey(e, j) # hash[Meta(e)]}}

\* "These values are extracted from each protocol in queue and are passed to
\* next protocol in queue": a request is given all that the engine and the
\* requests before it made, but for exactly what runs on clones added astray,
\* unless another template, which saw the MetaInput without a hash at the same
\* time, has overwritten the hash, or the template runs on the input twice.
\* Sharing a hash is safe once it is there.
Sole(e) == IsMultiProtocol(e) /\ ~HasTwin(e) /\ Meta(e) \notin rehashed

PassedOnUnlessAstray ==
    \A e \in Executions :
        at[e].op = "run" /\ Sole(e) => given[e] = made[e] \ Astray(e)

\* A request is given no values of other templates, although executions on one
\* target share the hash of whichever came first, and of another target only
\* what a request moved to this very input has left.
NoForeignValues ==
    \A e \in Executions : \A value \in given[e] :
        /\ TemplateOf[value[1]] = TemplateOf[e]
        /\ InputOf[Meta(e)] \in KnownInputs(value[1])

\* The keys under which a clone comes to a context besides that of its
\* execution: at another port, or when the hash is that of another template.
StraysFrom(e) ==
    \E i \in DOMAIN KindsOf(e) :
        \/ KindsOf(e)[i] = "ported" /\ AtPort[InputOf[Meta(e)]] # InputOf[Meta(e)]
        \/ (KindsOf(e)[i] # "shared" \/ ~IsMultiProtocol(e)) /\ hash[Meta(e)] # OwnKey(e)

\* "It is essential to remove template context of Scan [...] since it is of no
\* use after scan is completed (regardless of success or failure)": so it is of
\* an execution that neither strays from its key nor loses it.
RemovedUnlessStrayed ==
    \A e \in Executions :
        /\ at[e].op = "over" /\ e \in Executed
        /\ ~HasTwin(e) /\ Meta(e) \notin rehashed /\ ~StraysFrom(e)
        => \A key \in DOMAIN contexts[StoreOf(e)] : key[2] \notin KnownInputs(e)

-----------------------------------------------------------------------------
(* Why NoForeignValues holds: every key an execution comes to names one of *)
(* the inputs it is known by, and that of its own MetaInput names its own. *)

\* Where an execution is, there is a request.
PlaceInv ==
    \A e \in Executions :
        /\ at[e].op \in {"read", "run", "extract"} => at[e].request \in 1..Len(KindsOf(e))
        /\ at[e].phase = "get" => hash[Meta(e)] # NoHash
        /\ at[e].op = "over" => at[e].phase = "look"

\* Whichever template computed a hash, it is that of the input.
HashInv ==
    \A m \in MetaInputs : hash[m] # NoHash => hash[m][2] = InputOf[m]

\* An execution may come to a context under this key.
Reaches(e, key) ==
    /\ key \in Keys
    /\ key[2] \in KnownInputs(e)
    /\ at[e].op # "run" => key[2] = InputOf[Meta(e)]

CreateInv ==
    \A e \in Executions : at[e].phase = "create" => Reaches(e, at[e].key)

\* A value is in the contexts of its template that its execution may come to.
Belongs(value, t, key) ==
    /\ TemplateOf[value[1]] = t
    /\ key[2] \in KnownInputs(value[1])

ContextsInv ==
    \A t \in Templates : \A key \in DOMAIN contexts[t] :
        \A value \in contexts[t][key] : Belongs(value, t, key)

ContextInv ==
    PlaceInv /\ HashInv /\ CreateInv /\ ContextsInv /\ NoForeignValues

-----------------------------------------------------------------------------
(* Why PassedOnUnlessAstray holds: from the first access on the values are *)
(* in the context under the hash, which no other execution comes to, and   *)
(* what a clone added is under the key of that clone and no other.         *)

AddedByClone(value) == value[3] = "run" /\ Kind(value[1], value[2]) # "shared"

CloneInv ==
    /\ \A e \in Executions :
          at[e].phase = "create" /\ OnClone(e) => at[e].key = CloneKey(e, at[e].request)
    /\ \A t \in Templates : \A key \in DOMAIN contexts[t] :
          \A value \in contexts[t][key] :
              AddedByClone(value) => key = CloneKey(value[1], value[2])

HasOwn(e) == hash[Meta(e)] # NoHash /\ hash[Meta(e)] \in DOMAIN contexts[StoreOf(e)]

OwnValues(e) == contexts[StoreOf(e)][hash[Meta(e)]]

Carries(e) ==
    /\ at[e].op = "args" =>
          /\ made[e] = {}
          /\ \A key \in DOMAIN contexts[StoreOf(e)] : key[2] \notin KnownInputs(e)
    /\ at[e].op \in {"read", "run", "extract"} =>
          /\ HasOwn(e)
          /\ OwnValues(e) = made[e] \ Astray(e)
          /\ at[e].phase # "compute"
    /\ at[e].op = "run" => given[e] = made[e] \ Astray(e)
    /\ at[e].phase = "create" =>
          /\ hash[Meta(e)] # NoHash
          /\ \/ at[e].op = "args" /\ at[e].key = hash[Meta(e)]
             \/ OnClone(e) /\ at[e].key # hash[Meta(e)]

CarryInv == \A e \in Executions : Sole(e) => Carries(e)

-----------------------------------------------------------------------------
(* Why RemovedUnlessStrayed holds: no other execution makes contexts for   *)
(* the inputs it is known by, and it makes them under these keys only.     *)

UsesClones(e) == \E i \in DOMAIN KindsOf(e) : KindsOf(e)[i] # "shared" \/ ~IsMultiProtocol(e)

Makes(e, key) ==
    \/ key = hash[Meta(e)]
    \/ key = OwnKey(e) /\ UsesClones(e)
    \/ /\ key = <<TemplateOf[e], AtPort[InputOf[Meta(e)]]>>
       /\ \E i \in DOMAIN KindsOf(e) : KindsOf(e)[i] = "ported"

Tidies(e) ==
    /\ \A key \in DOMAIN contexts[StoreOf(e)] : key[2] \in KnownInputs(e) => Makes(e, key)
    /\ at[e].phase = "create" => Makes(e, at[e].key)
    /\ at[e].op = "over" /\ e \in Executed =>
          hash[Meta(e)] # NoHash /\ hash[Meta(e)] \notin DOMAIN contexts[StoreOf(e)]

TidyInv == \A e \in Executions : ~HasTwin(e) /\ Meta(e) \notin rehashed => Tidies(e)
=============================================================================
