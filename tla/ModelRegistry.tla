----------------------------- MODULE ModelRegistry -----------------------------
(***************************************************************************)
(* models/registry.py: which class serves an architecture, and what is     *)
(* known of it.  A process asks in two ways that go through the same       *)
(* candidates in two copies of the code: inspect_model_cls wants the       *)
(* class's properties, resolve_model_cls the class.  Both remember each    *)
(* candidate's outcome, a failure as well, for as long as the process      *)
(* lives.  Inspection takes the properties from a cache file that all      *)
(* processes share, or else imports the class in a subprocess and writes   *)
(* the file.                                                               *)
(*                                                                         *)
(* Simplifications.                                                        *)
(*  - What the sources say of a class is the tree of sources itself: the   *)
(*    module that is hashed (own) and the modules it imports from its own  *)
(*    package (rest).                                                      *)
(*  - Which registered architecture a name converts to by its suffix, and  *)
(*    what the transformers library has for it, are constants.  The field  *)
(*    convert of a query stands for convert_type and runner_type.          *)
(*  - The sources of a process do not change while it runs.  Its platform  *)
(*    accepts every architecture, and it asks for fewer than lru_cache     *)
(*    keeps.                                                               *)
(***************************************************************************)
EXTENDS Naturals, Sequences

CONSTANTS
    Procs,
    Trees,         \* records [own, rest]
    Table,         \* architecture -> class, for those in _VLLM_MODELS
    Layout,        \* class -> "file", "package" or "unknown"
    Base,          \* convert -> architecture -> the one it converts from
    Compatible,    \* architectures that transformers has for its backend
    Backend,       \* the architecture that stands for that backend
    Queries,       \* records [archs, impl, convert]
    Plugins,       \* records [arch, model] that may be registered
    MaxCalls,
    MaxEvents      \* registrations, failures and restarts together

ASSUME RegistryAssumption ==
    /\ Trees # {} /\ \A t \in Trees : t = [own |-> t.own, rest |-> t.rest]
    /\ Backend \in DOMAIN Table
    /\ \A a \in DOMAIN Table : Table[a] \in DOMAIN Layout
    /\ \A c \in DOMAIN Layout : Layout[c] \in {"file", "package", "unknown"}
    /\ \A q \in Queries :
          /\ q.archs \in Seq(STRING) \ {<<>>}
          /\ q.impl \in {"auto", "vllm", "transformers", "terratorch"}
          /\ q.convert \in {"unset", "none", "pooling"} /\ q.convert \in DOMAIN Base
    /\ \A r \in Plugins : r.model.class \in DOMAIN Layout /\ r.model.lazy \in BOOLEAN

VARIABLES
    tree,        \* the sources a process runs
    models,      \* its registry: architecture -> model
    memo,        \* its two lru_caches: <<op, architecture, model>> -> outcome
    pc,
    call,        \* the call in progress: op, query and remaining candidates
    hash,        \* the hash that an inspection goes by
    answers,     \* history: <<op, query>> -> answer, since models changed
    files,       \* the cache directory: class -> its file
    calls, events

local == <<tree, models, memo, pc, call, hash, answers>>
bounds == <<calls, events>>
vars == <<local, files, bounds>>

None == [kind |-> "none"]
Empty == [k \in {} |-> None]
Found(says, from) == [kind |-> "found", says |-> says, from |-> from]
Blank(says) == [kind |-> "blank", says |-> says]      \* (None, architecture)
Raised == [kind |-> "raised"]
Unsupported == [kind |-> "unsupported"]

Lazy(class) == [lazy |-> TRUE, class |-> class]
ModelRegistry == [a \in DOMAIN Table |-> Lazy(Table[a])]

Put(f, k, v) == [j \in DOMAIN f \union {k} |-> IF j = k THEN v ELSE f[j]]
-----------------------------------------------------------------------------
(***************************************************************************)
(* The candidates of a query, in order.  A candidate is looked up as ask   *)
(* and reported as says.                                                   *)
(***************************************************************************)
Candidate(ask, says) == [kind |-> "try", ask |-> ask, says |-> says]
Error == [kind |-> "error", ask |-> "", says |-> ""]

(* What is left of a name that is not registered, when its suffix fits the *)
(* conversion asked for.                                                   *)
AsNamed(p, q, a) == a

NormalizeArch(p, q, a) ==
    LET base == Base[q.convert]
    IN  IF a \notin DOMAIN models[p] /\ a \in DOMAIN base /\ base[a] \in DOMAIN models[p]
        THEN base[a] ELSE a

ResolveTransformers(q) ==
    LET a == q.archs[1]
    IN  IF a = Backend THEN <<Candidate(a, a)>>
        ELSE IF a \in Compatible THEN <<Candidate(Backend, Backend)>>
        ELSE IF q.impl = "transformers" THEN <<Error>> ELSE <<>>

Foreign(p, q) == q.impl = "auto" /\ \A i \in DOMAIN q.archs : q.archs[i] \notin DOMAIN models[p]

BeforeConvert(p, q) ==
    IF Foreign(p, q) /\ q.convert \in {"unset", "none"} THEN ResolveTransformers(q) ELSE <<>>

AfterConvert(p, q) == IF Foreign(p, q) THEN ResolveTransformers(q) ELSE <<>>

Listed(p, q) ==
    [i \in DOMAIN q.archs |-> Candidate(NormalizeArch(p, q, q.archs[i]), q.archs[i])]

InspectOrder(p, q) ==
    CASE q.impl = "terratorch" -> <<[Candidate("Terratorch", "Terratorch") EXCEPT !.kind = "only"]>>
      [] q.impl = "transformers" -> ResolveTransformers(q) \o Listed(p, q)
      [] OTHER -> BeforeConvert(p, q) \o Listed(p, q) \o AfterConvert(p, q)

(* An order that misses the first fallback.                                *)
LoadListedFirst(p, q) ==
    CASE q.impl = "terratorch" -> <<Candidate("Terratorch", "Terratorch")>> \o Listed(p, q)
      [] q.impl = "transformers" -> ResolveTransformers(q) \o Listed(p, q)
      [] OTHER -> Listed(p, q) \o AfterConvert(p, q)

LoadOrder(p, q) ==
    CASE q.impl = "terratorch" -> <<Candidate("Terratorch", "Terratorch")>> \o Listed(p, q)
      [] q.impl = "transformers" -> ResolveTransformers(q) \o Listed(p, q)
      [] OTHER -> BeforeConvert(p, q) \o Listed(p, q) \o AfterConvert(p, q)
-----------------------------------------------------------------------------
(***************************************************************************)
(* A call.                                                                 *)
(***************************************************************************)
Ops == {"inspect", "load"}

First(p) == Head(call[p].rest)
Model(p) == models[p][First(p).ask]
Key(p) == <<call[p].op, First(p).ask, Model(p)>>

Goto(p, from, to) == pc[p] = from /\ pc' = [pc EXCEPT ![p] = to]

Event == events < MaxEvents /\ events' = events + 1

(* All that is asked of an architecture before it is loaded inspects it.   *)
Call(p) ==
    /\ Goto(p, "idle", "try")
    /\ calls < MaxCalls /\ calls' = calls + 1
    /\ \E op \in Ops, q \in Queries :
          call' = [call EXCEPT ![p] =
                      [op |-> op, query |-> q,
                       rest |-> IF op = "inspect" THEN InspectOrder(p, q) ELSE LoadOrder(p, q)]]
    /\ UNCHANGED <<tree, models, memo, hash, answers, files, events>>

Answer(p, answer) ==
    /\ Goto(p, "try", "idle")
    /\ answers' = [answers EXCEPT ![p] = Put(@, <<call[p].op, call[p].query>>, answer)]
    /\ call' = [call EXCEPT ![p] = None]
    /\ hash' = [hash EXCEPT ![p] = <<>>]

NextCandidate(p) ==
    /\ Goto(p, "try", "try")
    /\ call' = [call EXCEPT ![p].rest = Tail(@)]
    /\ UNCHANGED <<answers, hash>>

(* An architecture that is not registered, or has failed before, gives way *)
(* to the next; inspection takes terratorch without its properties.        *)
Reject(p) == IF First(p).kind = "only" THEN Answer(p, Blank(First(p).says)) ELSE NextCandidate(p)

Unregistered(p) == call[p].rest # <<>> /\ First(p).kind # "error"
                     /\ First(p).ask \notin DOMAIN models[p]
Registered(p) == call[p].rest # <<>> /\ First(p).kind # "error"
                     /\ First(p).ask \in DOMAIN models[p]

Try(p) ==
    /\ pc[p] = "try"
    /\ \/ call[p].rest = <<>> /\ Answer(p, Unsupported)
       \/ call[p].rest # <<>> /\ First(p).kind = "error" /\ Answer(p, Raised)
       \/ Unregistered(p) /\ Reject(p)
       \/ /\ Registered(p) /\ Key(p) \in DOMAIN memo[p]
          /\ IF memo[p][Key(p)].kind = "none" THEN Reject(p)
             ELSE Answer(p, Found(First(p).says, memo[p][Key(p)].from))
    /\ UNCHANGED <<tree, models, memo, files, bounds>>

Remember(p, outcome) == memo' = [memo EXCEPT ![p] = Put(@, Key(p), outcome)]

Outcome(from) == [kind |-> "got", from |-> from]

(* A hash of the package's __init__.py alone.                              *)
OwnModule(class, t) == <<t.own>>

ModuleHash(class, t) ==
    IF Layout[class] = "package" THEN <<t.own, t.rest>> ELSE <<t.own>>

(* A model that was registered as a class has been imported already.  An   *)
(* inspection that finds no module file goes without the cache.            *)
Begin(p) ==
    /\ pc[p] = "try" /\ Registered(p) /\ Key(p) \notin DOMAIN memo[p]
    /\ \/ /\ ~Model(p).lazy
          /\ Remember(p, Outcome(tree[p])) /\ UNCHANGED <<pc, hash>>
       \/ /\ Model(p).lazy /\ call[p].op = "load"
          /\ Goto(p, "try", "import") /\ UNCHANGED <<memo, hash>>
       \/ /\ Model(p).lazy /\ call[p].op = "inspect"
          /\ IF Layout[Model(p).class] = "unknown"
             THEN Goto(p, "try", "subprocess") /\ hash' = [hash EXCEPT ![p] = <<>>]
             ELSE /\ Goto(p, "try", "read")
                  /\ hash' = [hash EXCEPT ![p] = ModuleHash(Model(p).class, tree[p])]
          /\ UNCHANGED memo
    /\ UNCHANGED <<tree, models, call, answers, files, bounds>>

Import(p) ==
    /\ Goto(p, "import", "try")
    /\ \/ Remember(p, Outcome(tree[p])) /\ UNCHANGED events
       \/ Remember(p, None) /\ Event
    /\ UNCHANGED <<tree, models, call, hash, answers, files, calls>>
-----------------------------------------------------------------------------
(***************************************************************************)
(* _LazyRegisteredModel.inspect_model_cls, step by step.                   *)
(***************************************************************************)

(* A cache that is taken as it is found.                                   *)
AnyFile(p) == files[Model(p).class] # None

FreshFile(p) ==
    files[Model(p).class] # None /\ files[Model(p).class].hash = hash[p]

(* Errors of reading count as a miss.                                      *)
ReadCache(p) ==
    /\ pc[p] = "read"
    /\ \/ /\ FreshFile(p)
          /\ Goto(p, "read", "try")
          /\ Remember(p, Outcome(files[Model(p).class].from))
          /\ UNCHANGED events
       \/ /\ IF FreshFile(p) THEN Event ELSE UNCHANGED events
          /\ Goto(p, "read", "subprocess")
          /\ UNCHANGED memo
    /\ UNCHANGED <<tree, models, call, hash, answers, files, calls>>

(* A failure that is not remembered: the next call asks again.             *)
ForgetFailure(p) ==
    /\ \/ /\ Goto(p, "subprocess", IF hash[p] = <<>> THEN "try" ELSE "save")
          /\ IF hash[p] = <<>> THEN Remember(p, Outcome(tree[p])) ELSE UNCHANGED memo
          /\ UNCHANGED <<call, events>>
       \/ /\ Goto(p, "subprocess", "try") /\ Event
          /\ call' = [call EXCEPT ![p].rest = Tail(@)]
          /\ UNCHANGED memo
    /\ UNCHANGED <<tree, models, hash, answers, files, calls>>

RunInSubprocess(p) ==
    /\ \/ /\ Goto(p, "subprocess", IF hash[p] = <<>> THEN "try" ELSE "save")
          /\ IF hash[p] = <<>> THEN Remember(p, Outcome(tree[p])) ELSE UNCHANGED memo
          /\ UNCHANGED events
       \/ Goto(p, "subprocess", "try") /\ Remember(p, None) /\ Event
    /\ UNCHANGED <<tree, models, call, hash, answers, files, calls>>

(* The file is replaced as a whole; that saving fails is only logged.      *)
SaveCache(p) ==
    /\ Goto(p, "save", "try")
    /\ Remember(p, Outcome(tree[p]))
    /\ \/ /\ files' = [files EXCEPT ![Model(p).class] =
                          [kind |-> "info", hash |-> hash[p], from |-> tree[p]]]
          /\ UNCHANGED events
       \/ Event /\ UNCHANGED files
    /\ UNCHANGED <<tree, models, call, hash, answers, calls>>
-----------------------------------------------------------------------------
(* register_model, between calls; an entry of the same name is replaced.   *)
RegisterModel(p) ==
    /\ pc[p] = "idle"
    /\ Event
    /\ \E r \in Plugins : models' = [models EXCEPT ![p] = Put(@, r.arch, r.model)]
    /\ answers' = [answers EXCEPT ![p] = Empty]
    /\ UNCHANGED <<tree, memo, pc, call, hash, files, calls>>

(* A process ends at any point; the next one may run other sources.        *)
Restart(p) ==
    /\ Event
    /\ \E t \in Trees : tree' = [tree EXCEPT ![p] = t]
    /\ models' = [models EXCEPT ![p] = ModelRegistry]
    /\ memo' = [memo EXCEPT ![p] = Empty]
    /\ pc' = [pc EXCEPT ![p] = "idle"]
    /\ call' = [call EXCEPT ![p] = None]
    /\ hash' = [hash EXCEPT ![p] = <<>>]
    /\ answers' = [answers EXCEPT ![p] = Empty]
    /\ UNCHANGED <<files, calls>>

Init ==
    /\ tree \in [Procs -> Trees]
    /\ models = [p \in Procs |-> ModelRegistry]
    /\ memo = [p \in Procs |-> Empty]
    /\ pc = [p \in Procs |-> "idle"]
    /\ call = [p \in Procs |-> None]
    /\ hash = [p \in Procs |-> <<>>]
    /\ answers = [p \in Procs |-> Empty]
    /\ files = [c \in DOMAIN Layout |-> None]
    /\ calls = 0 /\ events = 0

Step(p) ==
    \/ Try(p) \/ Begin(p) \/ Import(p)
    \/ ReadCache(p) \/ RunInSubprocess(p) \/ SaveCache(p)

Next == \E p \in Procs : Call(p) \/ Step(p) \/ RegisterModel(p) \/ Restart(p)

Spec == Init /\ [][Next]_vars
-----------------------------------------------------------------------------
(* What a process knows of a class is what its own sources say of it, as   *)
(* far as the hash can tell, whoever else has used the cache: the module's *)
(* own file, and of a package everything.                                  *)
InfoIsOwn ==
    \A p \in Procs : \A k \in DOMAIN memo[p] :
        memo[p][k].kind = "got" =>
            /\ memo[p][k].from.own = tree[p].own
            /\ Layout[k[3].class] # "file" \/ ~k[3].lazy => memo[p][k].from = tree[p]

(* Until a model is registered, a process gets the same answer to the same *)
(* question each time: what it was configured for does not change under    *)
(* it, though files and failures come and go.                              *)
SameAnswers ==
    [][\A p \in Procs : \A k \in DOMAIN answers[p] \intersect DOMAIN answers'[p] :
          answers'[p][k] = answers[p][k]]_vars

Failed(p, op, q) ==
    \E k \in DOMAIN memo[p] :
        /\ k[1] = op /\ memo[p][k].kind = "none"
        /\ k[2] \in {"Terratorch", Backend} \union {NormalizeArch(p, q, q.archs[i]) : i \in DOMAIN q.archs}

(* The class that is loaded is of the architecture that was inspected,     *)
(* unless inspecting or loading one of the candidates has failed: the two  *)
(* copies of the order agree.                                              *)
InspectedIsLoaded ==
    \A p \in Procs, q \in Queries :
        (<<"inspect", q>> \in DOMAIN answers[p] /\ <<"load", q>> \in DOMAIN answers[p]) =>
            LET i == answers[p][<<"inspect", q>>]
                l == answers[p][<<"load", q>>]
            IN  \/ i.kind = l.kind /\ (i.kind = "found" => i.says = l.says)
                \/ Failed(p, "inspect", q) \/ Failed(p, "load", q)
                \/ q.impl = "terratorch" /\ "Terratorch" \notin DOMAIN models[p]

(* A call that ends without a class has tried, in vain, every architecture *)
(* of the query that is registered or converts from one that is.           *)
RefusalHasCause ==
    \A p \in Procs : \A k \in DOMAIN answers[p] :
        answers[p][k].kind = "unsupported" =>
            \A i \in DOMAIN k[2].archs :
                LET a == k[2].archs[i]
                    base == Base[k[2].convert]
                    b == IF a \in DOMAIN base THEN base[a] ELSE a
                IN  \A c \in {a, b} \intersect DOMAIN models[p] :
                        \/ c # a /\ a \in DOMAIN models[p]
                        \/ /\ <<k[1], c, models[p][c]>> \in DOMAIN memo[p]
                           /\ memo[p][<<k[1], c, models[p][c]>>].kind = "none"

=============================================================================
