-------------------------- MODULE ModelRegistryProofs --------------------------
(***************************************************************************)
(* Proofs about ModelRegistry, for any number of processes, sources,       *)
(* classes, calls and failures.  What a process knows of a class is what   *)
(* its own sources say: each shared file holds a hash that was taken of    *)
(* the sources its content is of, and a process reads and saves under its  *)
(* own hash.  What it answers is fixed by its registry and the outcomes it *)
(* remembers: a call has tried in vain what is no longer among its         *)
(* candidates, and an answer is that of the first that did not give way.   *)
(***************************************************************************)
EXTENDS ModelRegistry, TLAPS

(* The variables are functions on processes and classes.                   *)
Shape ==
    /\ tree \in [Procs -> Trees]
    /\ models = [p \in Procs |-> models[p]]
    /\ memo = [p \in Procs |-> memo[p]]
    /\ pc = [p \in Procs |-> pc[p]]
    /\ call = [p \in Procs |-> call[p]]
    /\ hash = [p \in Procs |-> hash[p]]
    /\ files = [c \in DOMAIN Layout |-> files[c]]

KnownClasses ==
    \A p \in Procs : \A a \in DOMAIN models[p] : models[p][a].class \in DOMAIN Layout

(* An inspection goes by the hash of its own sources.                      *)
OwnHash(p) ==
    /\ pc[p] \in {"read", "subprocess", "save"} => Registered(p) /\ Model(p).lazy
    /\ pc[p] \in {"read", "save"} =>
          /\ Layout[Model(p).class] # "unknown"
          /\ hash[p] = ModuleHash(Model(p).class, tree[p])
    /\ pc[p] = "subprocess" =>
          \/ hash[p] = <<>>
          \/ /\ Layout[Model(p).class] # "unknown"
             /\ hash[p] = ModuleHash(Model(p).class, tree[p])

HashesAreOwn == \A p \in Procs : OwnHash(p)

(* A file's hash is that of the sources its content was made from.         *)
FilesAreSound ==
    \A c \in DOMAIN Layout :
        files[c] # None => /\ files[c].from \in Trees
                           /\ files[c].hash = ModuleHash(c, files[c].from)

(* What InfoIsOwn says of one outcome.                                     *)
Own(p, model, outcome) ==
    outcome.kind = "got" =>
        /\ outcome.from.own = tree[p].own
        /\ Layout[model.class] # "file" \/ ~model.lazy => outcome.from = tree[p]

IInv == Shape /\ KnownClasses /\ HashesAreOwn /\ FilesAreSound /\ InfoIsOwn

-----------------------------------------------------------------------------
LEMMA InitIInv == Init => IInv
<1> SUFFICES ASSUME Init PROVE IInv
    OBVIOUS
<1> USE RegistryAssumption DEF Init
<1>1. Shape
    BY DEF Shape
<1>2. KnownClasses
    BY DEF KnownClasses, ModelRegistry, Lazy
<1>3. HashesAreOwn
    BY DEF HashesAreOwn, OwnHash
<1>4. FilesAreSound
    BY DEF FilesAreSound
<1>5. InfoIsOwn
    BY DEF InfoIsOwn, Empty
<1> QED
    BY <1>1, <1>2, <1>3, <1>4, <1>5 DEF IInv

(* A process that remembers an outcome of its own sources keeps InfoIsOwn. *)
LEMMA RememberOwn ==
    ASSUME NEW p \in Procs, NEW outcome,
           Shape, InfoIsOwn, tree' = tree,
           Remember(p, outcome), Own(p, Model(p), outcome)
    PROVE  InfoIsOwn'
<1> SUFFICES ASSUME NEW q \in Procs, NEW k \in DOMAIN memo'[q], memo'[q][k].kind = "got"
             PROVE  /\ memo'[q][k].from.own = tree[q].own
                    /\ Layout[k[3].class] # "file" \/ ~k[3].lazy => memo'[q][k].from = tree[q]
    BY DEF InfoIsOwn
<1> DEFINE Old == k \in DOMAIN memo[q] /\ memo'[q][k] = memo[q][k]
<1>1. \/ Old
      \/ q = p /\ k = Key(p) /\ memo'[q][k] = outcome
    BY DEF Remember, Put, Shape
<1>2. CASE Old
    BY <1>2 DEF InfoIsOwn
<1>3. CASE q = p /\ k = Key(p) /\ memo'[q][k] = outcome
    <2>1. k[3] = Model(p)
        BY <1>3 DEF Key
    <2> QED
        BY <1>3, <2>1 DEF Own
<1> QED
    BY <1>1, <1>2, <1>3

LEMMA OwnSources ==
    ASSUME NEW p, NEW model
    PROVE  Own(p, model, Outcome(tree[p])) /\ Own(p, model, None)
BY DEF Own, Outcome, None

(* A step of one process leaves what the others go by.                     *)
LEMMA OthersKeep ==
    ASSUME NEW p \in Procs, HashesAreOwn,
           \A q \in Procs \ {p} :
               /\ pc'[q] = pc[q] /\ call'[q] = call[q] /\ hash'[q] = hash[q]
               /\ models'[q] = models[q] /\ tree'[q] = tree[q],
           OwnHash(p)'
    PROVE  HashesAreOwn'
<1> SUFFICES ASSUME NEW q \in Procs, q # p PROVE OwnHash(q)'
    BY DEF HashesAreOwn
<1> QED
    BY DEF HashesAreOwn, OwnHash, Registered, Model, First

-----------------------------------------------------------------------------
(* What every step of an existing process leaves alone.                    *)
LEMMA CallKeeps ==
    ASSUME IInv, NEW p \in Procs, Call(p)
    PROVE  IInv'
<1> USE DEF IInv, Call, Goto
<1>1. Shape'
    BY DEF Shape
<1>2. HashesAreOwn'
    <2>1. OwnHash(p)'
        BY DEF OwnHash, Shape
    <2> QED
        BY <2>1, OthersKeep DEF Shape
<1>3. KnownClasses' /\ FilesAreSound' /\ InfoIsOwn'
    BY DEF KnownClasses, FilesAreSound, InfoIsOwn
<1> QED
    BY <1>1, <1>2, <1>3

LEMMA TryKeeps ==
    ASSUME IInv, NEW p \in Procs, Try(p)
    PROVE  IInv'
<1>1. /\ UNCHANGED <<tree, models, memo, files>>
      /\ pc' \in {[pc EXCEPT ![p] = "idle"], [pc EXCEPT ![p] = "try"]}
      /\ \E c : call' = [call EXCEPT ![p] = c]
      /\ hash' \in {hash, [hash EXCEPT ![p] = <<>>]}
    <2>1. \/ \E answer : Answer(p, answer)
          \/ NextCandidate(p)
        BY DEF Try, Reject
    <2>2. ASSUME NEW answer, Answer(p, answer)
          PROVE  /\ pc' = [pc EXCEPT ![p] = "idle"] /\ call' = [call EXCEPT ![p] = None]
                 /\ hash' = [hash EXCEPT ![p] = <<>>]
        BY <2>2 DEF Answer, Goto
    <2>3. CASE NextCandidate(p)
        <3> DEFINE c == [call[p] EXCEPT !.rest = Tail(@)]
        <3>1. call' = [call EXCEPT ![p] = c] /\ pc' = [pc EXCEPT ![p] = "try"] /\ hash' = hash
            BY <2>3 DEF NextCandidate, Goto, IInv, Shape
        <3> HIDE DEF c
        <3> QED
            BY <3>1 DEF Try
    <2> QED
        BY <2>1, <2>2, <2>3 DEF Try
<1>2. Shape'
    BY <1>1 DEF IInv, Shape
<1>3. HashesAreOwn'
    <2>1. OwnHash(p)'
        BY <1>1 DEF OwnHash, IInv, Shape
    <2> QED
        BY <1>1, <2>1, OthersKeep DEF IInv, Shape
<1>4. KnownClasses' /\ FilesAreSound' /\ InfoIsOwn'
    BY <1>1 DEF IInv, KnownClasses, FilesAreSound, InfoIsOwn
<1> QED
    BY <1>2, <1>3, <1>4 DEF IInv

LEMMA BeginKeeps ==
    ASSUME IInv, NEW p \in Procs, Begin(p)
    PROVE  IInv'
<1>1. Shape'
    BY DEF IInv, Shape, Begin, Goto, Remember
<1>2. HashesAreOwn'
    <2>1. OwnHash(p)'
        BY DEF OwnHash, IInv, Shape, Begin, Goto, Registered, Model, First
    <2> QED
        BY <2>1, OthersKeep DEF IInv, Shape, Begin, Goto
<1>3. InfoIsOwn'
    <2>1. CASE UNCHANGED memo
        BY <2>1 DEF IInv, InfoIsOwn, Begin
    <2>2. CASE Remember(p, Outcome(tree[p]))
        BY <2>2, RememberOwn, OwnSources DEF IInv, Begin
    <2> QED
        BY <2>1, <2>2 DEF Begin
<1>4. KnownClasses' /\ FilesAreSound'
    BY DEF IInv, KnownClasses, FilesAreSound, Begin
<1> QED
    BY <1>1, <1>2, <1>3, <1>4 DEF IInv

LEMMA ImportKeeps ==
    ASSUME IInv, NEW p \in Procs, Import(p)
    PROVE  IInv'
<1>1. Shape'
    BY DEF IInv, Shape, Import, Goto, Remember
<1>2. HashesAreOwn'
    <2>1. OwnHash(p)'
        BY DEF OwnHash, IInv, Shape, Import, Goto
    <2> QED
        BY <2>1, OthersKeep DEF IInv, Shape, Import, Goto
<1>3. InfoIsOwn'
    BY RememberOwn, OwnSources DEF IInv, Import
<1>4. KnownClasses' /\ FilesAreSound'
    BY DEF IInv, KnownClasses, FilesAreSound, Import
<1> QED
    BY <1>1, <1>2, <1>3, <1>4 DEF IInv

(* The file was written under the reader's hash, so it says what the       *)
(* reader's own sources say, as far as that hash covers them.              *)
LEMMA ReadCacheKeeps ==
    ASSUME IInv, NEW p \in Procs, ReadCache(p)
    PROVE  IInv'
<1> DEFINE class == Model(p).class
           file == files[class]
<1>1. Shape'
    BY DEF IInv, Shape, ReadCache, Goto, Remember
<1>2. HashesAreOwn'
    <2>1. OwnHash(p)'
        BY DEF OwnHash, IInv, Shape, HashesAreOwn, ReadCache, Goto, Registered, Model, First
    <2> QED
        BY <2>1, OthersKeep DEF IInv, Shape, ReadCache, Goto
<1>3. InfoIsOwn'
    <2>1. CASE UNCHANGED memo
        BY <2>1 DEF IInv, InfoIsOwn, ReadCache
    <2>2. CASE FreshFile(p) /\ Remember(p, Outcome(file.from))
        <3>1. Registered(p) /\ Layout[class] # "unknown" /\ hash[p] = ModuleHash(class, tree[p])
            BY DEF IInv, HashesAreOwn, OwnHash, ReadCache
        <3>2. class \in DOMAIN Layout
            BY <3>1 DEF IInv, KnownClasses, Registered, Model
        <3>3. file.from \in Trees /\ ModuleHash(class, file.from) = ModuleHash(class, tree[p])
            BY <2>2, <3>1, <3>2 DEF IInv, FilesAreSound, FreshFile
        <3>4. file.from.own = tree[p].own
            BY <3>3 DEF ModuleHash
        <3>5. CASE Layout[class] = "file"
            <4>1. Model(p).lazy
                BY DEF IInv, HashesAreOwn, OwnHash, ReadCache
            <4> QED
                BY <3>4, <3>5, <4>1, <2>2, RememberOwn DEF IInv, Own, Outcome, ReadCache
        <3>6. CASE Layout[class] = "package"
            <4>1. file.from.rest = tree[p].rest
                BY <3>3, <3>6 DEF ModuleHash
            <4>2. tree[p] \in Trees
                BY DEF IInv, Shape
            <4>3. file.from = tree[p]
                BY <3>3, <3>4, <4>1, <4>2, RegistryAssumption
            <4> QED
                BY <4>3, <2>2, RememberOwn, OwnSources DEF IInv, ReadCache
        <3> QED
            BY <3>1, <3>2, <3>5, <3>6, RegistryAssumption
    <2> QED
        BY <2>1, <2>2 DEF ReadCache
<1>4. KnownClasses' /\ FilesAreSound'
    BY DEF IInv, KnownClasses, FilesAreSound, ReadCache
<1> QED
    BY <1>1, <1>2, <1>3, <1>4 DEF IInv

LEMMA RunInSubprocessKeeps ==
    ASSUME IInv, NEW p \in Procs, RunInSubprocess(p)
    PROVE  IInv'
<1>1. Shape'
    BY DEF IInv, Shape, RunInSubprocess, Goto, Remember
<1>2. HashesAreOwn'
    <2>1. OwnHash(p)'
        BY DEF OwnHash, IInv, Shape, HashesAreOwn, RunInSubprocess, Goto, Registered, Model, First
    <2> QED
        BY <2>1, OthersKeep DEF IInv, Shape, RunInSubprocess, Goto
<1>3. InfoIsOwn'
    <2>1. CASE UNCHANGED memo
        BY <2>1 DEF IInv, InfoIsOwn, RunInSubprocess
    <2>2. CASE Remember(p, Outcome(tree[p])) \/ Remember(p, None)
        BY <2>2, RememberOwn, OwnSources DEF IInv, RunInSubprocess
    <2> QED
        BY <2>1, <2>2 DEF RunInSubprocess
<1>4. KnownClasses' /\ FilesAreSound'
    BY DEF IInv, KnownClasses, FilesAreSound, RunInSubprocess
<1> QED
    BY <1>1, <1>2, <1>3, <1>4 DEF IInv

LEMMA SaveCacheKeeps ==
    ASSUME IInv, NEW p \in Procs, SaveCache(p)
    PROVE  IInv'
<1>1. Shape'
    BY DEF IInv, Shape, SaveCache, Goto, Remember
<1>2. HashesAreOwn'
    <2>1. OwnHash(p)'
        BY DEF OwnHash, IInv, Shape, SaveCache, Goto
    <2> QED
        BY <2>1, OthersKeep DEF IInv, Shape, SaveCache, Goto
<1>3. InfoIsOwn'
    BY RememberOwn, OwnSources DEF IInv, SaveCache
<1>4. FilesAreSound'
    <2>1. hash[p] = ModuleHash(Model(p).class, tree[p]) /\ tree[p] \in Trees
        BY DEF IInv, Shape, HashesAreOwn, OwnHash, SaveCache, Goto
    <2>2. CASE UNCHANGED files
        BY <2>2 DEF IInv, FilesAreSound
    <2>3. CASE files' = [files EXCEPT ![Model(p).class] =
                            [kind |-> "info", hash |-> hash[p], from |-> tree[p]]]
        BY <2>1, <2>3 DEF IInv, FilesAreSound, Shape
    <2> QED
        BY <2>2, <2>3 DEF SaveCache
<1>5. KnownClasses'
    BY DEF IInv, KnownClasses, SaveCache
<1> QED
    BY <1>1, <1>2, <1>3, <1>4, <1>5 DEF IInv

LEMMA RegisterModelKeeps ==
    ASSUME IInv, NEW p \in Procs, RegisterModel(p)
    PROVE  IInv'
<1>0. PICK r \in Plugins : models' = [models EXCEPT ![p] = Put(@, r.arch, r.model)]
    BY DEF RegisterModel
<1>1. Shape'
    BY <1>0 DEF IInv, Shape, RegisterModel
<1>2. HashesAreOwn'
    <2>1. OwnHash(p)'
        BY DEF OwnHash, IInv, Shape, RegisterModel
    <2> QED
        BY <1>0, <2>1, OthersKeep DEF IInv, Shape, RegisterModel
<1>3. KnownClasses'
    BY <1>0, RegistryAssumption DEF IInv, KnownClasses, Shape, Put
<1>4. FilesAreSound' /\ InfoIsOwn'
    BY DEF IInv, FilesAreSound, InfoIsOwn, RegisterModel
<1> QED
    BY <1>1, <1>2, <1>3, <1>4 DEF IInv

LEMMA RestartKeeps ==
    ASSUME IInv, NEW p \in Procs, Restart(p)
    PROVE  IInv'
<1>0. PICK t \in Trees : tree' = [tree EXCEPT ![p] = t]
    BY DEF Restart
<1>1. Shape'
    BY <1>0 DEF IInv, Shape, Restart
<1>2. HashesAreOwn'
    <2>1. OwnHash(p)'
        BY DEF OwnHash, IInv, Shape, Restart
    <2> QED
        BY <1>0, <2>1, OthersKeep DEF IInv, Shape, Restart
<1>3. KnownClasses'
    BY RegistryAssumption DEF IInv, KnownClasses, Shape, Restart, ModelRegistry, Lazy
<1>4. InfoIsOwn'
    BY <1>0 DEF IInv, InfoIsOwn, Shape, Restart, Empty
<1>5. FilesAreSound'
    BY DEF IInv, FilesAreSound, Restart
<1> QED
    BY <1>1, <1>2, <1>3, <1>4, <1>5 DEF IInv

(* The invariant is inductive.                                             *)
LEMMA NextIInv == IInv /\ [Next]_vars => IInv'
<1> SUFFICES ASSUME IInv, [Next]_vars PROVE IInv'
    OBVIOUS
<1>1. CASE UNCHANGED vars
    <2>1. UNCHANGED <<tree, models, memo, pc, call, hash, files>>
        BY <1>1 DEF vars, local
    <2>2. Shape' /\ KnownClasses' /\ FilesAreSound' /\ InfoIsOwn'
        BY <2>1 DEF IInv, Shape, KnownClasses, FilesAreSound, InfoIsOwn
    <2>3. HashesAreOwn'
        BY <2>1 DEF IInv, HashesAreOwn, OwnHash, Registered, Model, First
    <2> QED
        BY <2>2, <2>3 DEF IInv
<1>2. CASE Next
    BY <1>2, CallKeeps, TryKeeps, BeginKeeps, ImportKeeps, ReadCacheKeeps,
       RunInSubprocessKeeps, SaveCacheKeeps, RegisterModelKeeps, RestartKeeps DEF Next, Step
<1> QED
    BY <1>1, <1>2

(* What a process knows of a class is what its own sources say of it, as   *)
(* far as the cache's hash covers them, whatever other processes with      *)
(* other sources have saved in the shared cache in the meantime.           *)
THEOREM InfoCorrect == Spec => []InfoIsOwn
<1>1. IInv => InfoIsOwn
    BY DEF IInv
<1> QED
    BY <1>1, InitIInv, NextIInv, PTL DEF Spec
-----------------------------------------------------------------------------
(***************************************************************************)
(* What an answer says: how far the candidates were tried in vain.         *)
(***************************************************************************)
Order(p, op, q) == IF op = "inspect" THEN InspectOrder(p, q) ELSE LoadOrder(p, q)

(* What an order is made of.                                               *)
Tried(p, q) ==
    {Candidate("Terratorch", "Terratorch"), Candidate(Backend, Backend), Error,
     [Candidate("Terratorch", "Terratorch") EXCEPT !.kind = "only"]}
    \union {Candidate(NormalizeArch(p, q, q.archs[i]), q.archs[i]) : i \in DOMAIN q.archs}

Known(p, op, c) == <<op, c.ask, models[p][c.ask]>>

(* A candidate that is not registered or has failed gives way; one that    *)
(* was imported or read is taken.                                          *)
Fails(p, op, c) ==
    c.ask \in DOMAIN models[p] =>
        Known(p, op, c) \in DOMAIN memo[p] /\ memo[p][Known(p, op, c)].kind = "none"

Takes(p, op, c) ==
    /\ c.ask \in DOMAIN models[p]
    /\ Known(p, op, c) \in DOMAIN memo[p] /\ memo[p][Known(p, op, c)].kind # "none"

(* The candidate that ends a call gives its answer.                        *)
Ends(p, op, c, answer) ==
    \/ c.kind = "error" /\ answer = Raised
    \/ c.kind = "only" /\ Fails(p, op, c) /\ answer = Blank(c.says)
    \/ /\ c.kind # "error" /\ Takes(p, op, c)
       /\ answer = Found(c.says, memo[p][Known(p, op, c)].from)

InVain(p, op, q, n) ==
    \A i \in 1 .. n : LET c == Order(p, op, q)[i]
                      IN  c.kind = "try" /\ Fails(p, op, c)

Explained(p, op, q, answer) ==
    \E n \in 0 .. Len(Order(p, op, q)) :
        /\ InVain(p, op, q, n)
        /\ IF n = Len(Order(p, op, q)) THEN answer = Unsupported
           ELSE Ends(p, op, Order(p, op, q)[n + 1], answer)

(* A call in progress has tried what is no longer among its candidates.    *)
Left(rest, order, n) ==
    /\ Len(rest) = Len(order) - n
    /\ \A j \in 1 .. Len(rest) : rest[j] = order[n + j]

Progress(p) ==
    LET op == call[p].op
        q == call[p].query
    IN  /\ call[p] = [op |-> op, query |-> q, rest |-> call[p].rest]
        /\ op \in Ops /\ q \in Queries
        /\ call[p].rest \in Seq(Tried(p, q))
        /\ \E n \in 0 .. Len(Order(p, op, q)) :
              InVain(p, op, q, n) /\ Left(call[p].rest, Order(p, op, q), n)

(* The candidate that is imported or inspected is not known yet.           *)
Unknown(p) == Registered(p) /\ Key(p) \notin DOMAIN memo[p]

CallInv ==
    \A p \in Procs :
        /\ pc[p] # "idle" => Progress(p)
        /\ pc[p] \in {"import", "read", "subprocess", "save"} => Unknown(p)

AnswersInv ==
    /\ answers = [p \in Procs |-> answers[p]]
    /\ \A p \in Procs : \A k \in DOMAIN answers[p] :
          /\ k = <<k[1], k[2]>> /\ k[1] \in Ops /\ k[2] \in Queries
          /\ Explained(p, k[1], k[2], answers[p][k])
-----------------------------------------------------------------------------
LEMMA Sequences ==
    ASSUME NEW q \in Queries, NEW p
    PROVE  /\ ResolveTransformers(q) \in Seq(Tried(p, q))
           /\ Listed(p, q) \in Seq(Tried(p, q))
           /\ DOMAIN q.archs = 1 .. Len(q.archs) /\ Len(q.archs) \in Nat
           /\ Len(Listed(p, q)) = Len(q.archs)
<1>1. q.archs \in Seq(STRING)
    BY RegistryAssumption
<1>2. ResolveTransformers(q) \in Seq(Tried(p, q))
    <2> DEFINE T == Tried(p, q)
               a == q.archs[1]
    <2>1. Candidate(Backend, Backend) \in T /\ Error \in T
        BY DEF Tried
    <2> HIDE DEF T
    <2>2. ResolveTransformers(q) \in {<<Candidate(Backend, Backend)>>, <<Error>>, <<>>}
        BY DEF ResolveTransformers
    <2>3. {<<Candidate(Backend, Backend)>>, <<Error>>, <<>>} \subseteq Seq(T)
        BY <2>1
    <2> QED
        BY <2>2, <2>3 DEF T
<1>3. Listed(p, q) \in Seq(Tried(p, q)) /\ Len(Listed(p, q)) = Len(q.archs)
    <2> DEFINE T == Tried(p, q)
    <2>1. \A i \in DOMAIN q.archs :
              Candidate(NormalizeArch(p, q, q.archs[i]), q.archs[i]) \in T
        BY DEF Tried
    <2>2. DOMAIN q.archs = 1 .. Len(q.archs) /\ Len(q.archs) \in Nat
        BY <1>1
    <2> HIDE DEF T
    <2> DEFINE f == [i \in 1 .. Len(q.archs) |->
                        Candidate(NormalizeArch(p, q, q.archs[i]), q.archs[i])]
    <2>3. Listed(p, q) = f
        BY <2>2 DEF Listed
    <2>4. f \in [1 .. Len(q.archs) -> T]
        BY <2>1, <2>2
    <2> HIDE DEF f
    <2>5. f \in Seq(T) /\ Len(f) = Len(q.archs)
        BY <2>2, <2>4
    <2> QED
        BY <2>3, <2>5 DEF T
<1> QED
    BY <1>1, <1>2, <1>3

(* Either order is a sequence that has the listed architectures somewhere, *)
(* unless terratorch is inspected.                                         *)
LEMMA OrderIsSeq ==
    ASSUME NEW q \in Queries, NEW p, NEW op \in Ops
    PROVE  /\ Order(p, op, q) \in Seq(Tried(p, q))
           /\ ~(op = "inspect" /\ q.impl = "terratorch") =>
                 \A i \in DOMAIN q.archs :
                     \E j \in 1 .. Len(Order(p, op, q)) :
                         Order(p, op, q)[j] = Listed(p, q)[i]
<1> DEFINE T == Tried(p, q)
           L == Listed(p, q)
           Has(s) == \A i \in DOMAIN q.archs : \E j \in 1 .. Len(s) : s[j] = L[i]
<1>1. /\ L \in Seq(T) /\ DOMAIN q.archs = 1 .. Len(L) /\ Len(L) \in Nat
      /\ <<Candidate("Terratorch", "Terratorch")>> \in Seq(T)
      /\ <<[Candidate("Terratorch", "Terratorch") EXCEPT !.kind = "only"]>> \in Seq(T)
    BY Sequences DEF Tried
<1>2. BeforeConvert(p, q) \in Seq(T) /\ AfterConvert(p, q) \in Seq(T)
    BY Sequences DEF BeforeConvert, AfterConvert
<1>3. ResolveTransformers(q) \in Seq(T)
    BY Sequences
<1> HIDE DEF T, L
<1>4. ASSUME NEW s \in Seq(T), NEW t \in Seq(T)
      PROVE  s \o L \in Seq(T) /\ Has(s \o L)
             /\ s \o L \o t \in Seq(T) /\ Has(s \o L \o t)
    <2>1. s \o L \in Seq(T) /\ Has(s \o L)
        <3>1. ASSUME NEW i \in DOMAIN q.archs
              PROVE  Len(s) + i \in 1 .. Len(s \o L) /\ (s \o L)[Len(s) + i] = L[i]
            BY <1>1
        <3> QED
            BY <1>1, <3>1
    <2>2. \A j \in 1 .. Len(s \o L) : j \in 1 .. Len(s \o L \o t)
                                      /\ (s \o L \o t)[j] = (s \o L)[j]
        BY <2>1
    <2> QED
        BY <2>1, <2>2
<1>5. CASE q.impl = "terratorch"
    <2>1. CASE op = "inspect"
        <3>1. Order(p, op, q) = <<[Candidate("Terratorch", "Terratorch") EXCEPT !.kind = "only"]>>
            BY <1>5, <2>1 DEF Order, InspectOrder
        <3> QED
            BY <1>1, <1>5, <2>1, <3>1 DEF T
    <2>2. CASE op = "load"
        <3>1. Order(p, op, q) = <<Candidate("Terratorch", "Terratorch")>> \o L
            BY <1>5, <2>2 DEF Order, LoadOrder, L
        <3> DEFINE first == <<Candidate("Terratorch", "Terratorch")>>
        <3> HIDE DEF first
        <3>2. first \in Seq(T)
            BY <1>1 DEF first
        <3>3. first \o L \in Seq(T) /\ Has(first \o L)
            BY <1>4, <3>2
        <3> QED
            BY <3>1, <3>3 DEF T, L, first
    <2> QED
        BY <2>1, <2>2 DEF Ops
<1>6. CASE q.impl = "transformers"
    <2>1. Order(p, op, q) = ResolveTransformers(q) \o L
        BY <1>6 DEF Order, InspectOrder, LoadOrder, L
    <2> QED
        BY <1>3, <1>4, <2>1 DEF T, L
<1>7. CASE q.impl \notin {"terratorch", "transformers"}
    <2>1. Order(p, op, q) = BeforeConvert(p, q) \o L \o AfterConvert(p, q)
        BY <1>7 DEF Order, InspectOrder, LoadOrder, L
    <2> DEFINE before == BeforeConvert(p, q)
               after == AfterConvert(p, q)
    <2> HIDE DEF before, after
    <2>2. before \in Seq(T) /\ after \in Seq(T)
        BY <1>2 DEF before, after
    <2>3. before \o L \o after \in Seq(T) /\ Has(before \o L \o after)
        BY <1>4, <2>2
    <2> QED
        BY <2>1, <2>3 DEF T, L, before, after
<1> QED
    BY <1>5, <1>6, <1>7

(* The two orders differ in what inspection makes of terratorch alone.     *)
LEMMA SameForBoth ==
    ASSUME NEW q \in Queries, q.impl # "terratorch", NEW p
    PROVE  Order(p, "inspect", q) = Order(p, "load", q)
BY DEF Order, InspectOrder, LoadOrder

(* Fixed outcomes leave one answer.                                        *)
LEMMA OneAnswer ==
    ASSUME NEW q \in Queries, NEW p, NEW op \in Ops, NEW a, NEW b,
           Explained(p, op, q, a), Explained(p, op, q, b)
    PROVE  a = b
<1> DEFINE s == Order(p, op, q)
<1>1. Len(s) \in Nat
    BY OrderIsSeq
<1>2. PICK n \in 0 .. Len(s) :
          InVain(p, op, q, n) /\ (IF n = Len(s) THEN a = Unsupported ELSE Ends(p, op, s[n + 1], a))
    BY DEF Explained
<1>3. PICK m \in 0 .. Len(s) :
          InVain(p, op, q, m) /\ (IF m = Len(s) THEN b = Unsupported ELSE Ends(p, op, s[m + 1], b))
    BY DEF Explained
<1>4. ASSUME NEW i \in Nat, NEW j \in Nat, NEW c, i < j, j <= Len(s),
             InVain(p, op, q, j), Ends(p, op, s[i + 1], c)
      PROVE  FALSE
    <2>1. s[i + 1].kind = "try" /\ Fails(p, op, s[i + 1])
        BY <1>1, <1>4 DEF InVain
    <2> QED
        BY <1>4, <2>1 DEF Ends, Takes, Fails
<1>5. n = m
    <2>1. ASSUME n < m PROVE FALSE
        <3>1. m <= Len(s) /\ n # Len(s) /\ n \in Nat /\ m \in Nat
            BY <1>1, <2>1
        <3> QED
            BY <1>2, <1>3, <1>4, <2>1, <3>1
    <2>2. ASSUME m < n PROVE FALSE
        <3>1. n <= Len(s) /\ m # Len(s) /\ n \in Nat /\ m \in Nat
            BY <1>1, <2>2
        <3> QED
            BY <1>2, <1>3, <1>4, <2>2, <3>1
    <2> QED
        BY <1>1, <2>1, <2>2
<1>6. CASE n = Len(s)
    BY <1>2, <1>3, <1>5, <1>6
<1>7. CASE n # Len(s)
    BY <1>2, <1>3, <1>5, <1>7 DEF Ends, Takes, Fails
<1> QED
    BY <1>6, <1>7
-----------------------------------------------------------------------------
(***************************************************************************)
(* While the registry stays, outcomes are only added, so that what was     *)
(* said of the candidates stays true.                                      *)
(***************************************************************************)
Grows(p) ==
    \A k \in DOMAIN memo[p] : k \in DOMAIN memo'[p] /\ memo'[p][k] = memo[p][k]

LEMMA SameOrder ==
    ASSUME NEW p, models'[p] = models[p], NEW q, NEW op
    PROVE  Order(p, op, q)' = Order(p, op, q) /\ Tried(p, q)' = Tried(p, q)
<1>1. Listed(p, q)' = Listed(p, q)
    BY DEF Listed, NormalizeArch, Candidate
<1>2. Tried(p, q)' = Tried(p, q)
    BY DEF Tried, NormalizeArch, Candidate, Error
<1>3. BeforeConvert(p, q)' = BeforeConvert(p, q) /\ AfterConvert(p, q)' = AfterConvert(p, q)
    BY DEF BeforeConvert, AfterConvert, Foreign, ResolveTransformers
<1> QED
    BY <1>1, <1>2, <1>3 DEF Order, InspectOrder, LoadOrder, ResolveTransformers, Candidate

LEMMA FailsStays ==
    ASSUME NEW p, models'[p] = models[p], Grows(p), NEW op, NEW c
    PROVE  /\ Fails(p, op, c) => Fails(p, op, c)'
           /\ \A a : Ends(p, op, c, a) => Ends(p, op, c, a)'
BY DEF Fails, Ends, Takes, Known, Grows, Raised, Blank, Found

LEMMA InVainStays ==
    ASSUME NEW p, models'[p] = models[p], Grows(p), NEW op, NEW q, NEW n, InVain(p, op, q, n)
    PROVE  InVain(p, op, q, n)'
BY SameOrder, FailsStays DEF InVain

LEMMA ExplainedStays ==
    ASSUME NEW p, models'[p] = models[p], Grows(p), NEW op, NEW q, NEW a,
           Explained(p, op, q, a)
    PROVE  Explained(p, op, q, a)'
<1>1. Order(p, op, q)' = Order(p, op, q)
    BY SameOrder
<1>2. PICK n \in 0 .. Len(Order(p, op, q)) :
          /\ InVain(p, op, q, n)
          /\ IF n = Len(Order(p, op, q)) THEN a = Unsupported
             ELSE Ends(p, op, Order(p, op, q)[n + 1], a)
    BY DEF Explained
<1>3. InVain(p, op, q, n)'
    BY <1>2, InVainStays
<1>4. n # Len(Order(p, op, q)) => Ends(p, op, Order(p, op, q)[n + 1], a)'
    BY <1>1, <1>2, FailsStays
<1> QED
    BY <1>1, <1>2, <1>3, <1>4 DEF Explained, Unsupported

LEMMA ProgressStays ==
    ASSUME NEW p, models'[p] = models[p], Grows(p), call'[p] = call[p], Progress(p)
    PROVE  Progress(p)'
<1>1. PICK op \in Ops, q \in Queries : op = call[p].op /\ q = call[p].query
    BY DEF Progress
<1>2. Order(p, op, q)' = Order(p, op, q) /\ Tried(p, q)' = Tried(p, q)
    BY SameOrder
<1>3. PICK n \in 0 .. Len(Order(p, op, q)) :
          InVain(p, op, q, n) /\ Left(call[p].rest, Order(p, op, q), n)
    BY <1>1 DEF Progress
<1>4. InVain(p, op, q, n)'
    BY <1>3, InVainStays
<1>5. call[p].rest \in Seq(Tried(p, q))
    BY <1>1 DEF Progress
<1>6. Left(call[p].rest, Order(p, op, q), n)'
    BY <1>2, <1>3 DEF Left
<1>7. (op \in Ops /\ call[p].rest \in Seq(Tried(p, q)))'
    BY <1>2, <1>5 DEF Ops
<1>8. (op = call[p].op /\ q = call[p].query)'
    BY <1>1
<1>9. (n \in 0 .. Len(Order(p, op, q)))'
    BY <1>2, <1>3
<1> QED
    BY <1>4, <1>6, <1>7, <1>8, <1>9 DEF Progress
-----------------------------------------------------------------------------
(* A call whose candidates are used up, or whose next one ends it, answers *)
(* as its candidates say.                                                  *)
LEMMA FirstIsNext ==
    ASSUME NEW p, Progress(p), NEW op \in Ops, NEW q \in Queries,
           op = call[p].op, q = call[p].query,
           NEW n \in 0 .. Len(Order(p, op, q)), Left(call[p].rest, Order(p, op, q), n)
    PROVE  /\ Len(call[p].rest) \in Nat /\ Len(Order(p, op, q)) \in Nat
           /\ call[p].rest = <<>> <=> n = Len(Order(p, op, q))
           /\ call[p].rest # <<>> =>
                 /\ First(p) = Order(p, op, q)[n + 1]
                 /\ First(p).kind \in {"try", "only", "error"}
                 /\ Tail(call[p].rest) \in Seq(Tried(p, q))
                 /\ Left(Tail(call[p].rest), Order(p, op, q), n + 1)
<1> DEFINE rest == call[p].rest
           s == Order(p, op, q)
           T == Tried(p, q)
<1>1. rest \in Seq(T) /\ s \in Seq(T)
    BY OrderIsSeq DEF Progress
<1>2. \A c \in T : c.kind \in {"try", "only", "error"}
    <2>1. \A x, y : Candidate(x, y).kind = "try"
        BY DEF Candidate
    <2>2. [Candidate("Terratorch", "Terratorch") EXCEPT !.kind = "only"].kind = "only"
        BY DEF Candidate
    <2>3. Error.kind = "error"
        BY DEF Error
    <2> SUFFICES ASSUME NEW c \in Tried(p, q) PROVE c.kind \in {"try", "only", "error"}
        OBVIOUS
    <2>4. \/ \E x, y : c = Candidate(x, y)
          \/ c = [Candidate("Terratorch", "Terratorch") EXCEPT !.kind = "only"]
          \/ c = Error
        BY DEF Tried
    <2> QED
        BY <2>1, <2>2, <2>3, <2>4
<1>3. First(p) = Head(rest)
    BY DEF First
<1>4. Len(rest) = Len(s) - n /\ \A j \in 1 .. Len(rest) : rest[j] = s[n + j]
    BY DEF Left
<1> HIDE DEF rest, s, T
<1>5. Len(rest) \in Nat /\ Len(s) \in Nat
    BY <1>1
<1>6. rest = <<>> <=> n = Len(s)
    BY <1>1, <1>4
<1>7. ASSUME rest # <<>>
      PROVE  /\ Head(rest) = s[n + 1] /\ Head(rest) \in T /\ Tail(rest) \in Seq(T)
             /\ Len(Tail(rest)) = Len(rest) - 1
             /\ \A j \in 1 .. Len(Tail(rest)) : Tail(rest)[j] = rest[j + 1]
    BY <1>1, <1>4, <1>7
<1>8. ASSUME rest # <<>> PROVE Left(Tail(rest), s, n + 1)
    BY <1>4, <1>5, <1>7, <1>8 DEF Left
<1> QED
    BY <1>2, <1>3, <1>5, <1>6, <1>7, <1>8 DEF rest, s, T

LEMMA EndExplains ==
    ASSUME NEW p, Progress(p), NEW op \in Ops, NEW q \in Queries,
           op = call[p].op, q = call[p].query, NEW a,
           \/ call[p].rest = <<>> /\ a = Unsupported
           \/ call[p].rest # <<>> /\ Ends(p, op, First(p), a)
    PROVE  Explained(p, op, q, a)
<1>1. PICK n \in 0 .. Len(Order(p, op, q)) :
          InVain(p, op, q, n) /\ Left(call[p].rest, Order(p, op, q), n)
    BY DEF Progress
<1> QED
    BY <1>1, FirstIsNext DEF Explained

(* A step that answers nothing.                                            *)
LEMMA OthersProgress ==
    ASSUME NEW p \in Procs, CallInv,
           \A q \in Procs \ {p} :
               /\ pc'[q] = pc[q] /\ call'[q] = call[q]
               /\ models'[q] = models[q] /\ memo'[q] = memo[q],
           pc'[p] # "idle" => Progress(p)',
           pc'[p] \in {"import", "read", "subprocess", "save"} => Unknown(p)'
    PROVE  CallInv'
<1> SUFFICES ASSUME NEW q \in Procs, q # p
             PROVE  /\ pc'[q] # "idle" => Progress(q)'
                    /\ pc'[q] \in {"import", "read", "subprocess", "save"} => Unknown(q)'
    BY DEF CallInv
<1>1. pc'[q] # "idle" => Progress(q)'
    BY ProgressStays DEF CallInv, Grows
<1>2. pc'[q] \in {"import", "read", "subprocess", "save"} => Unknown(q)'
    BY DEF CallInv, Unknown, Registered, Key, Model, First
<1> QED
    BY <1>1, <1>2

LEMMA AnswersStay ==
    ASSUME AnswersInv, UNCHANGED answers, UNCHANGED models, \A p \in Procs : Grows(p)
    PROVE  AnswersInv'
BY ExplainedStays DEF AnswersInv, Ops

LEMMA WorkKeeps ==
    ASSUME Shape, CallInv, AnswersInv, NEW p \in Procs,
           UNCHANGED <<models, call, answers>>, pc[p] # "idle", Unknown(p),
           \A q \in Procs \ {p} : pc'[q] = pc[q],
           \/ memo' = memo
           \/ pc'[p] = "try" /\ \E outcome : Remember(p, outcome)
    PROVE  CallInv' /\ AnswersInv'
<1>1. \A q \in Procs : Grows(q) /\ (q # p => memo'[q] = memo[q])
    BY DEF Grows, Remember, Put, Unknown, Shape
<1>2. Progress(p)'
    BY <1>1, ProgressStays DEF CallInv
<1>3. memo' = memo => Unknown(p)'
    BY DEF Unknown, Registered, Key, Model, First
<1>4. CallInv'
    BY <1>1, <1>2, <1>3, OthersProgress
<1> QED
    BY <1>1, <1>4, AnswersStay

LEMMA WorkersKeep ==
    ASSUME Shape, CallInv, AnswersInv, NEW p \in Procs,
           \/ Begin(p) \/ Import(p) \/ ReadCache(p) \/ RunInSubprocess(p) \/ SaveCache(p)
    PROVE  CallInv' /\ AnswersInv'
<1>1. UNCHANGED <<models, call, answers>> /\ \A q \in Procs \ {p} : pc'[q] = pc[q]
    BY DEF Begin, Import, ReadCache, RunInSubprocess, SaveCache, Goto, Shape
<1>2. pc[p] # "idle" /\ Unknown(p)
    BY DEF Begin, Import, ReadCache, RunInSubprocess, SaveCache, Goto, CallInv, Unknown
<1>3. \/ memo' = memo
      \/ pc'[p] = "try" /\ \E outcome : Remember(p, outcome)
    <2>1. CASE Begin(p)
        BY <2>1 DEF Begin
    <2>2. CASE Import(p)
        BY <2>2 DEF Import, Goto, Shape
    <2>3. CASE ReadCache(p)
        BY <2>3 DEF ReadCache, Goto, Shape
    <2>4. CASE RunInSubprocess(p)
        BY <2>4 DEF RunInSubprocess, Goto, Shape
    <2>5. CASE SaveCache(p)
        BY <2>5 DEF SaveCache, Goto, Shape
    <2> QED
        BY <2>1, <2>2, <2>3, <2>4, <2>5
<1> QED
    BY <1>1, <1>2, <1>3, WorkKeeps

(* The answers after a call has given one.                                 *)
LEMMA AnswerKeeps ==
    ASSUME CallInv, AnswersInv, Shape, NEW p \in Procs,
           UNCHANGED <<models, memo>>, NEW a, Answer(p, a),
           Explained(p, call[p].op, call[p].query, a)
    PROVE  CallInv' /\ AnswersInv'
<1>1. PICK op \in Ops, q \in Queries : op = call[p].op /\ q = call[p].query
    BY DEF CallInv, Answer, Goto, Progress
<1>2. /\ pc'[p] = "idle" /\ answers' = [answers EXCEPT ![p] = Put(@, <<op, q>>, a)]
      /\ \A r \in Procs \ {p} : pc'[r] = pc[r] /\ call'[r] = call[r]
    BY <1>1 DEF Answer, Goto, Shape
<1>3. CallInv'
    BY <1>2, OthersProgress
<1>4. \A r \in Procs : models'[r] = models[r] /\ Grows(r)
    BY DEF Grows
<1>5. answers' = [r \in Procs |-> answers'[r]]
    BY <1>2 DEF AnswersInv
<1>6. ASSUME NEW r \in Procs, NEW k \in DOMAIN answers'[r]
      PROVE  /\ k = <<k[1], k[2]>> /\ k[1] \in Ops /\ k[2] \in Queries
             /\ (Explained(r, k[1], k[2], answers[r][k]))'
    <2>1. CASE k \in DOMAIN answers[r] /\ answers'[r][k] = answers[r][k]
        <3> PICK o \in Ops, u \in Queries : k = <<o, u>>
            BY <2>1 DEF AnswersInv
        <3> PICK b : b = answers[r][k]
            OBVIOUS
        <3>1. Explained(r, o, u, b)
            BY <2>1 DEF AnswersInv
        <3>2. Explained(r, o, u, b)'
            BY <1>4, <3>1, ExplainedStays
        <3> QED
            BY <2>1, <3>2
    <2>2. CASE r = p /\ k = <<op, q>> /\ answers'[r][k] = a
        <3>1. Explained(p, op, q, a)
            BY <1>1
        <3>2. Explained(p, op, q, a)'
            BY <1>4, <3>1, ExplainedStays
        <3> QED
            BY <2>2, <3>2
    <2> QED
        BY <1>2, <2>1, <2>2 DEF AnswersInv, Put
<1> QED
    BY <1>3, <1>5, <1>6 DEF AnswersInv, Ops

LEMMA TriesKeep ==
    ASSUME Shape, CallInv, AnswersInv, NEW p \in Procs, Try(p)
    PROVE  CallInv' /\ AnswersInv'
<1>0. pc[p] = "try" /\ UNCHANGED <<models, memo>> /\ Progress(p)
    BY DEF Try, CallInv
<1>1. PICK op \in Ops, q \in Queries : op = call[p].op /\ q = call[p].query
    BY <1>0 DEF Progress
<1>2. PICK n \in 0 .. Len(Order(p, op, q)) :
          InVain(p, op, q, n) /\ Left(call[p].rest, Order(p, op, q), n)
    BY <1>0, <1>1 DEF Progress
<1>3. call[p].rest # <<>> => First(p).kind \in {"try", "only", "error"}
    BY <1>0, <1>1, <1>2, FirstIsNext
<1>4. ASSUME NEW a, Answer(p, a),
             \/ call[p].rest = <<>> /\ a = Unsupported
             \/ call[p].rest # <<>> /\ Ends(p, op, First(p), a)
      PROVE  CallInv' /\ AnswersInv'
    <2>1. Explained(p, op, q, a)
        BY <1>0, <1>1, <1>4, EndExplains
    <2> QED
        BY <1>0, <1>1, <1>4, <2>1, AnswerKeeps
<1>5. CASE /\ NextCandidate(p) /\ call[p].rest # <<>>
           /\ First(p).kind = "try" /\ Fails(p, op, First(p))
    <2>1. /\ pc'[p] = "try" /\ call'[p] = [call[p] EXCEPT !.rest = Tail(@)]
          /\ answers' = answers
          /\ \A r \in Procs \ {p} : pc'[r] = pc[r] /\ call'[r] = call[r]
        BY <1>5 DEF NextCandidate, Goto, Shape
    <2>2. Order(p, op, q)' = Order(p, op, q) /\ Tried(p, q)' = Tried(p, q)
        BY <1>0, SameOrder
    <2>3. /\ Len(Order(p, op, q)) \in Nat /\ n # Len(Order(p, op, q))
          /\ First(p) = Order(p, op, q)[n + 1]
          /\ Tail(call[p].rest) \in Seq(Tried(p, q))
          /\ Left(Tail(call[p].rest), Order(p, op, q), n + 1)
        BY <1>0, <1>1, <1>2, <1>5, FirstIsNext
    <2>4. InVain(p, op, q, n + 1)
        BY <1>2, <1>5, <2>3 DEF InVain
    <2>5. Grows(p)
        BY <1>0 DEF Grows
    <2>6. InVain(p, op, q, n + 1)'
        BY <1>0, <2>4, <2>5, InVainStays
    <2>7. call'[p] = [op |-> op, query |-> q, rest |-> Tail(call[p].rest)]
        <3>1. call[p] = [op |-> op, query |-> q, rest |-> call[p].rest]
            BY <1>0, <1>1 DEF Progress
        <3>2. PICK c, t : c = call[p] /\ t = Tail(call[p].rest)
            OBVIOUS
        <3>3. call'[p] = [c EXCEPT !.rest = t]
            BY <2>1, <3>2
        <3>4. c = [op |-> op, query |-> q, rest |-> c.rest]
            BY <3>1, <3>2
        <3>5. [c EXCEPT !.rest = t] = [op |-> op, query |-> q, rest |-> t]
            BY <3>4
        <3> QED
            BY <3>2, <3>3, <3>5
    <2>8. n + 1 \in 0 .. Len(Order(p, op, q))
        BY <2>3
    <2>9. Progress(p)'
        <3>1. (op = call[p].op /\ q = call[p].query /\ op \in Ops)'
            BY <2>7 DEF Ops
        <3>2. (Left(call[p].rest, Order(p, op, q), n + 1) /\ call[p].rest \in Seq(Tried(p, q)))'
            BY <2>2, <2>3, <2>7 DEF Left
        <3>3. (n + 1 \in 0 .. Len(Order(p, op, q)))'
            BY <2>2, <2>8
        <3> QED
            BY <2>6, <2>7, <3>1, <3>2, <3>3 DEF Progress
    <2>10. CallInv'
        BY <1>0, <2>1, <2>9, OthersProgress
    <2> QED
        BY <1>0, <2>1, <2>10, AnswersStay DEF Grows
<1>6. Unregistered(p) => Fails(p, op, First(p)) /\ First(p).kind # "error"
    BY DEF Unregistered, Fails
<1>7. Key(p) = Known(p, op, First(p))
    BY <1>1 DEF Key, Known, Model
<1>8. Registered(p) /\ Key(p) \in DOMAIN memo[p] =>
          IF memo[p][Key(p)].kind = "none" THEN Fails(p, op, First(p))
          ELSE Ends(p, op, First(p), Found(First(p).says, memo[p][Key(p)].from))
    BY <1>7 DEF Registered, Fails, Ends, Takes
<1>9. CASE Reject(p) /\ call[p].rest # <<>> /\ First(p).kind # "error"
           /\ Fails(p, op, First(p))
    <2>1. CASE First(p).kind = "only"
        BY <1>4, <1>9, <2>1 DEF Reject, Ends
    <2>2. CASE First(p).kind = "try"
        BY <1>5, <1>9, <2>2 DEF Reject
    <2> QED
        BY <1>3, <1>9, <2>1, <2>2
<1>10. CASE call[p].rest = <<>> /\ Answer(p, Unsupported)
    BY <1>4, <1>10
<1>11. CASE call[p].rest # <<>> /\ First(p).kind = "error" /\ Answer(p, Raised)
    BY <1>4, <1>11 DEF Ends
<1>12. CASE Unregistered(p) /\ Reject(p)
    BY <1>6, <1>9, <1>12 DEF Unregistered
<1>13. CASE /\ Registered(p) /\ Key(p) \in DOMAIN memo[p]
            /\ IF memo[p][Key(p)].kind = "none" THEN Reject(p)
               ELSE Answer(p, Found(First(p).says, memo[p][Key(p)].from))
    BY <1>4, <1>8, <1>9, <1>13 DEF Registered
<1> QED
    BY <1>10, <1>11, <1>12, <1>13 DEF Try

LEMMA CallsKeep ==
    ASSUME Shape, CallInv, AnswersInv, NEW p \in Procs, Call(p)
    PROVE  CallInv' /\ AnswersInv'
<1>1. PICK op \in Ops, q \in Queries :
          call' = [call EXCEPT ![p] =
                      [op |-> op, query |-> q,
                       rest |-> IF op = "inspect" THEN InspectOrder(p, q) ELSE LoadOrder(p, q)]]
    BY DEF Call
<1>2. /\ UNCHANGED <<models, memo, answers>> /\ pc'[p] = "try"
      /\ \A r \in Procs \ {p} : pc'[r] = pc[r] /\ call'[r] = call[r]
      /\ call'[p] = [op |-> op, query |-> q, rest |-> Order(p, op, q)]
    BY <1>1 DEF Call, Goto, Shape, Order
<1>3. Order(p, op, q)' = Order(p, op, q) /\ Tried(p, q)' = Tried(p, q)
    BY <1>2, SameOrder
<1>4. Order(p, op, q) \in Seq(Tried(p, q))
    BY OrderIsSeq
<1>5. Progress(p)'
    <2>1. (op = call[p].op /\ q = call[p].query /\ op \in Ops)'
        BY <1>2 DEF Ops
    <2>2. (InVain(p, op, q, 0))'
        BY DEF InVain
    <2>3. (Left(call[p].rest, Order(p, op, q), 0) /\ call[p].rest \in Seq(Tried(p, q)))'
        BY <1>2, <1>3, <1>4 DEF Left
    <2>4. (0 \in 0 .. Len(Order(p, op, q)))'
        BY <1>3, <1>4
    <2> QED
        BY <1>2, <2>1, <2>2, <2>3, <2>4 DEF Progress
<1>6. CallInv'
    BY <1>2, <1>5, OthersProgress
<1> QED
    BY <1>2, <1>6, AnswersStay DEF Grows

(* A registration or a restart forgets the answers.                        *)
LEMMA ForgettingKeeps ==
    ASSUME Shape, CallInv, AnswersInv, NEW p \in Procs,
           RegisterModel(p) \/ Restart(p)
    PROVE  CallInv' /\ AnswersInv' /\ answers'[p] = Empty
<1>1. /\ answers' = [answers EXCEPT ![p] = Empty]
      /\ pc'[p] = "idle"
      /\ \A r \in Procs \ {p} : /\ pc'[r] = pc[r] /\ call'[r] = call[r]
                                /\ models'[r] = models[r] /\ memo'[r] = memo[r]
    BY DEF RegisterModel, Restart, Shape
<1>2. CallInv'
    BY <1>1, OthersProgress
<1>3. ASSUME NEW r \in Procs, NEW k \in DOMAIN answers'[r]
      PROVE  /\ k = <<k[1], k[2]>> /\ k[1] \in Ops /\ k[2] \in Queries
             /\ (Explained(r, k[1], k[2], answers[r][k]))'
    <2>1. r # p /\ k \in DOMAIN answers[r] /\ answers'[r][k] = answers[r][k]
        BY <1>1 DEF AnswersInv, Empty
    <2>2. PICK o \in Ops, u \in Queries : k = <<o, u>>
        BY <2>1 DEF AnswersInv
    <2>3. PICK b : b = answers[r][k]
        OBVIOUS
    <2>4. Explained(r, o, u, b)
        BY <2>1, <2>2, <2>3 DEF AnswersInv
    <2>5. Explained(r, o, u, b)'
        BY <1>1, <2>1, <2>4, ExplainedStays DEF Grows
    <2> QED
        BY <2>1, <2>2, <2>3, <2>5
<1> QED
    BY <1>1, <1>2, <1>3 DEF AnswersInv, Ops

LEMMA NextAnswers ==
    IInv /\ CallInv /\ AnswersInv /\ [Next]_vars => CallInv' /\ AnswersInv'
<1> SUFFICES ASSUME IInv, CallInv, AnswersInv, [Next]_vars PROVE CallInv' /\ AnswersInv'
    OBVIOUS
<1>0. Shape
    BY DEF IInv
<1>1. CASE UNCHANGED vars
    <2>1. UNCHANGED <<models, memo, pc, call, answers>>
        BY <1>1 DEF vars, local
    <2>2. \A p \in Procs : (Progress(p) => Progress(p)') /\ (Unknown(p) => Unknown(p)')
        BY <2>1, ProgressStays DEF Grows, Unknown, Registered, Key, Model, First
    <2> QED
        BY <2>1, <2>2, AnswersStay DEF CallInv, Grows
<1>2. CASE Next
    BY <1>0, <1>2, CallsKeep, TriesKeep, WorkersKeep, ForgettingKeeps DEF Next, Step
<1> QED
    BY <1>1, <1>2

LEMMA InitAnswers == Init => CallInv /\ AnswersInv
BY DEF Init, CallInv, AnswersInv, Empty

LEMMA AnswersAreExplained == Spec => [](IInv /\ CallInv /\ AnswersInv)
BY InitIInv, NextIInv, InitAnswers, NextAnswers, PTL DEF Spec
-----------------------------------------------------------------------------
(* What an answer and what a step leave of an earlier one.                 *)
LEMMA NextSame ==
    ASSUME IInv, CallInv, AnswersInv, CallInv', AnswersInv', [Next]_vars,
           NEW p \in Procs, NEW k \in DOMAIN answers[p] \intersect DOMAIN answers'[p]
    PROVE  answers'[p][k] = answers[p][k]
<1>0. Shape
    BY DEF IInv
<1>1. PICK o \in Ops, u \in Queries : k = <<o, u>>
    BY DEF AnswersInv
<1>2. PICK a, b : a = answers[p][k] /\ b = answers'[p][k]
    OBVIOUS
<1>3. Explained(p, o, u, a)
    BY <1>1, <1>2 DEF AnswersInv
<1>4. Explained(p, o, u, b)'
    BY <1>1, <1>2 DEF AnswersInv
<1>5. CASE models'[p] = models[p] /\ memo'[p] = memo[p]
    <2>1. Order(p, o, u)' = Order(p, o, u)
        BY <1>5, SameOrder
    <2>2. \A c : (Fails(p, o, c)' => Fails(p, o, c)) /\ (Ends(p, o, c, b)' => Ends(p, o, c, b))
        BY <1>5 DEF Fails, Ends, Takes, Known, Raised, Blank, Found
    <2>3. Explained(p, o, u, b)
        <3>1. PICK n \in 0 .. Len(Order(p, o, u)) :
                  /\ InVain(p, o, u, n)'
                  /\ IF n = Len(Order(p, o, u)) THEN b = Unsupported
                     ELSE Ends(p, o, Order(p, o, u)[n + 1], b)'
            BY <1>4, <2>1 DEF Explained, Unsupported
        <3>2. InVain(p, o, u, n)
            BY <2>1, <2>2, <3>1 DEF InVain
        <3>3. n # Len(Order(p, o, u)) => Ends(p, o, Order(p, o, u)[n + 1], b)
            BY <2>1, <2>2, <3>1
        <3> QED
            BY <3>1, <3>2, <3>3 DEF Explained
    <2> QED
        BY <1>2, <1>3, <2>3, OneAnswer
<1>6. CASE answers'[p] = answers[p]
    BY <1>6
<1>7. CASE answers'[p] = Empty
    BY <1>7 DEF Empty
<1>8. CASE Next
    <2>1. PICK r \in Procs : Call(r) \/ Step(r) \/ RegisterModel(r) \/ Restart(r)
        BY <1>8 DEF Next
    <2>2. CASE Try(r)
        BY <1>5, <2>2 DEF Try
    <2>3. CASE Call(r) \/ Begin(r) \/ Import(r) \/ ReadCache(r) \/ RunInSubprocess(r)
               \/ SaveCache(r)
        BY <1>6, <2>3 DEF Call, Begin, Import, ReadCache, RunInSubprocess, SaveCache
    <2>4. CASE RegisterModel(r) \/ Restart(r)
        <3>1. answers' = [answers EXCEPT ![r] = Empty]
            BY <2>4 DEF RegisterModel, Restart
        <3>2. answers'[p] = IF p = r THEN Empty ELSE answers[p]
            BY <3>1 DEF AnswersInv
        <3> QED
            BY <1>6, <1>7, <3>2
    <2> QED
        BY <2>1, <2>2, <2>3, <2>4 DEF Step
<1>9. CASE UNCHANGED vars
    BY <1>6, <1>9 DEF vars, local
<1> QED
    BY <1>8, <1>9

(* A process gives the same answer to the same question until a model is   *)
(* registered: outcomes, failures too, are remembered, so that its         *)
(* candidates end at the same place.                                       *)
THEOREM AnswersDoNotChange == Spec => SameAnswers
<1>1. IInv /\ CallInv /\ AnswersInv /\ CallInv' /\ AnswersInv' /\ [Next]_vars =>
          [\A p \in Procs : \A k \in DOMAIN answers[p] \intersect DOMAIN answers'[p] :
              answers'[p][k] = answers[p][k]]_vars
    BY NextSame
<1> QED
    BY <1>1, AnswersAreExplained, PTL DEF Spec, SameAnswers
-----------------------------------------------------------------------------
(* A refusal comes at the end of an order that lists all architectures.    *)
LEMMA RefusedInVain ==
    ASSUME NEW p, NEW op \in Ops, NEW q \in Queries, Explained(p, op, q, Unsupported),
           NEW i \in DOMAIN q.archs
    PROVE  Fails(p, op, Listed(p, q)[i])
<1> DEFINE s == Order(p, op, q)
<1>1. PICK n \in 0 .. Len(s) :
          InVain(p, op, q, n) /\ (IF n = Len(s) THEN TRUE ELSE Ends(p, op, s[n + 1], Unsupported))
    BY DEF Explained
<1>2. Len(s) \in Nat
    BY OrderIsSeq
<1>3. n = Len(s)
    BY <1>1 DEF Ends, Unsupported, Raised, Blank, Found
<1>4. \A j \in 1 .. Len(s) : s[j].kind = "try" /\ Fails(p, op, s[j])
    BY <1>1, <1>3 DEF InVain
<1>5. ~(op = "inspect" /\ q.impl = "terratorch")
    <2>1. ASSUME op = "inspect", q.impl = "terratorch" PROVE FALSE
        <3>1. s = <<[Candidate("Terratorch", "Terratorch") EXCEPT !.kind = "only"]>>
            BY <2>1 DEF Order, InspectOrder
        <3>2. Len(s) = 1 /\ s[1].kind = "only"
            BY <3>1 DEF Candidate
        <3> QED
            BY <1>4, <3>2
    <2> QED
        BY <2>1
<1> QED
    BY <1>4, <1>5, OrderIsSeq

(* A call ends without a class when every architecture of the query that   *)
(* is registered, or converts from one that is, has failed.                *)
THEOREM RefusalsHaveCauses == Spec => []RefusalHasCause
<1>1. AnswersInv => RefusalHasCause
    <2> SUFFICES ASSUME AnswersInv, NEW p \in Procs, NEW k \in DOMAIN answers[p],
                        answers[p][k].kind = "unsupported", NEW i \in DOMAIN k[2].archs
                 PROVE  LET a == k[2].archs[i]
                            base == Base[k[2].convert]
                            b == IF a \in DOMAIN base THEN base[a] ELSE a
                        IN  \A c \in {a, b} \intersect DOMAIN models[p] :
                                \/ c # a /\ a \in DOMAIN models[p]
                                \/ /\ <<k[1], c, models[p][c]>> \in DOMAIN memo[p]
                                   /\ memo[p][<<k[1], c, models[p][c]>>].kind = "none"
        BY DEF RefusalHasCause
    <2>1. PICK op \in Ops, q \in Queries : k = <<op, q>>
        BY DEF AnswersInv
    <2>2. PICK answer : answer = answers[p][k] /\ Explained(p, op, q, answer)
        BY <2>1 DEF AnswersInv
    <2>3. answer = Unsupported
        <3>1. \A c : ~Ends(p, op, c, answer)
            BY <2>2 DEF Ends, Raised, Blank, Found
        <3> QED
            BY <2>2, <3>1 DEF Explained
    <2>4. Fails(p, op, Listed(p, q)[i])
        BY <2>1, <2>2, <2>3, RefusedInVain
    <2>5. Listed(p, q)[i] = Candidate(NormalizeArch(p, q, q.archs[i]), q.archs[i])
        BY <2>1 DEF Listed
    <2>6. ASSUME NEW c, c = NormalizeArch(p, q, q.archs[i]), c \in DOMAIN models[p]
          PROVE  /\ <<op, c, models[p][c]>> \in DOMAIN memo[p]
                 /\ memo[p][<<op, c, models[p][c]>>].kind = "none"
        BY <2>4, <2>5, <2>6 DEF Fails, Known, Candidate
    <2> QED
        BY <2>1, <2>6 DEF NormalizeArch
<1> QED
    BY <1>1, AnswersAreExplained, PTL
-----------------------------------------------------------------------------
(* Where nothing that could be asked has failed, a candidate gives way     *)
(* only when it is not registered, so that both operations end at the same *)
(* candidate.                                                              *)
LEMMA EndOfBoth ==
    ASSUME NEW p, NEW q \in Queries, NEW op \in Ops, ~Failed(p, op, q),
           NEW c \in Tried(p, q), c.kind # "error"
    PROVE  Fails(p, op, c) <=> c.ask \notin DOMAIN models[p]
<1> DEFINE asks == {"Terratorch", Backend}
                   \union {NormalizeArch(p, q, q.archs[i]) : i \in DOMAIN q.archs}
<1>1. c.ask \in asks
    <2>1. CASE c \in {Candidate("Terratorch", "Terratorch"), Candidate(Backend, Backend)}
        BY <2>1 DEF Candidate
    <2>2. CASE c = [Candidate("Terratorch", "Terratorch") EXCEPT !.kind = "only"]
        BY <2>2 DEF Candidate
    <2>3. CASE c = Error
        BY <2>3 DEF Error
    <2>4. CASE \E i \in DOMAIN q.archs :
                   c = Candidate(NormalizeArch(p, q, q.archs[i]), q.archs[i])
        BY <2>4 DEF Candidate
    <2> QED
        BY <2>1, <2>2, <2>3, <2>4 DEF Tried
<1>2. ASSUME Known(p, op, c) \in DOMAIN memo[p], memo[p][Known(p, op, c)].kind = "none"
      PROVE  FALSE
    <2>1. Known(p, op, c)[1] = op /\ Known(p, op, c)[2] \in asks
        BY <1>1 DEF Known
    <2> QED
        BY <1>2, <2>1 DEF Failed
<1> QED
    BY <1>2 DEF Fails

(* Two answers that are ended by the same candidate are alike.             *)
LEMMA AlikeEnds ==
    ASSUME NEW p, NEW q \in Queries, q.impl # "terratorch",
           NEW a, Explained(p, "inspect", q, a), NEW b, Explained(p, "load", q, b),
           ~Failed(p, "inspect", q), ~Failed(p, "load", q)
    PROVE  a.kind = b.kind /\ (a.kind = "found" => a.says = b.says)
<1> DEFINE s == Order(p, "load", q)
<1>1. Order(p, "inspect", q) = s /\ s \in Seq(Tried(p, q)) /\ "inspect" \in Ops /\ "load" \in Ops
    BY SameForBoth, OrderIsSeq DEF Ops
<1>2. PICK n \in 0 .. Len(s) :
          /\ InVain(p, "inspect", q, n)
          /\ IF n = Len(s) THEN a = Unsupported ELSE Ends(p, "inspect", s[n + 1], a)
    BY <1>1 DEF Explained
<1>3. PICK m \in 0 .. Len(s) :
          /\ InVain(p, "load", q, m)
          /\ IF m = Len(s) THEN b = Unsupported ELSE Ends(p, "load", s[m + 1], b)
    BY DEF Explained
<1>4. \A i \in 1 .. Len(s) : s[i] \in Tried(p, q) /\ Len(s) \in Nat
    BY <1>1
<1>5. \A i \in 1 .. Len(s) : s[i].kind # "error" =>
          (Fails(p, "inspect", s[i]) <=> Fails(p, "load", s[i]))
    BY <1>1, <1>4, EndOfBoth
<1>6. \A c, e, op : Ends(p, op, c, e) => c.kind # "try" \/ ~Fails(p, op, c)
    BY DEF Ends, Takes, Fails
<1>7. ~(n < m)
    <2> SUFFICES ASSUME n < m PROVE FALSE
        OBVIOUS
    <2>1. n + 1 \in 1 .. m /\ n + 1 \in 1 .. Len(s) /\ n # Len(s)
        BY <1>1
    <2>2. s[n + 1].kind = "try" /\ Fails(p, "load", s[n + 1])
        BY <1>3, <2>1 DEF InVain
    <2> QED
        BY <1>2, <1>5, <1>6, <2>1, <2>2
<1>8. ~(m < n)
    <2> SUFFICES ASSUME m < n PROVE FALSE
        OBVIOUS
    <2>1. m + 1 \in 1 .. n /\ m + 1 \in 1 .. Len(s) /\ m # Len(s)
        BY <1>1
    <2>2. s[m + 1].kind = "try" /\ Fails(p, "inspect", s[m + 1])
        BY <1>1, <1>2, <2>1 DEF InVain
    <2> QED
        BY <1>3, <1>5, <1>6, <2>1, <2>2
<1>9. n = m
    BY <1>1, <1>7, <1>8
<1>10. CASE n = Len(s)
    BY <1>2, <1>3, <1>9, <1>10
<1>11. CASE n # Len(s)
    <2>1. Ends(p, "inspect", s[n + 1], a) /\ Ends(p, "load", s[n + 1], b)
          /\ n + 1 \in 1 .. Len(s)
        BY <1>1, <1>2, <1>3, <1>9, <1>11
    <2>2. s[n + 1].kind # "error" =>
              (Fails(p, "inspect", s[n + 1]) <=> Fails(p, "load", s[n + 1]))
        BY <1>5, <2>1
    <2> QED
        BY <2>1, <2>2 DEF Ends, Takes, Fails, Raised, Blank, Found
<1> QED
    BY <1>10, <1>11

(* Terratorch is inspected alone and loaded first.                         *)
LEMMA TerratorchEnds ==
    ASSUME NEW p, NEW q \in Queries, q.impl = "terratorch", "Terratorch" \in DOMAIN models[p],
           NEW op \in Ops, NEW a, Explained(p, op, q, a), ~Failed(p, op, q)
    PROVE  a.kind = "found" /\ a.says = "Terratorch"
<1> DEFINE s == Order(p, op, q)
<1>1. Len(s) \in Nat /\ 1 <= Len(s) /\ s[1] \in Tried(p, q)
      /\ s[1].ask = "Terratorch" /\ s[1].says = "Terratorch" /\ s[1].kind # "error"
    <2>1. CASE op = "inspect"
        <3>1. s = <<[Candidate("Terratorch", "Terratorch") EXCEPT !.kind = "only"]>>
            BY <2>1 DEF Order, InspectOrder
        <3> QED
            BY <3>1 DEF Candidate, Tried
    <2>2. CASE op = "load"
        <3> DEFINE first == <<Candidate("Terratorch", "Terratorch")>>
                   rest == Listed(p, q)
        <3>1. s = first \o rest
            BY <2>2 DEF Order, LoadOrder
        <3>2. first \in Seq(Tried(p, q)) /\ rest \in Seq(Tried(p, q))
              /\ Len(first) = 1 /\ first[1] = Candidate("Terratorch", "Terratorch")
            BY Sequences DEF Tried
        <3> HIDE DEF first, rest
        <3>3. Len(first \o rest) \in Nat /\ 1 <= Len(first \o rest)
              /\ (first \o rest)[1] = first[1]
            <4>1. \A T : \A u \in Seq(T), v \in Seq(T) :
                      /\ Len(u \o v) = Len(u) + Len(v)
                      /\ Len(u) \in Nat /\ Len(v) \in Nat
                      /\ \A j \in 1 .. Len(u) : (u \o v)[j] = u[j]
                OBVIOUS
            <4>2. Len(rest) \in Nat /\ Len(first \o rest) = 1 + Len(rest)
                BY <3>2, <4>1
            <4> QED
                BY <3>2, <4>1, <4>2
        <3> QED
            BY <3>1, <3>2, <3>3 DEF Candidate, Tried
    <2> QED
        BY <2>1, <2>2 DEF Ops
<1>2. ~Fails(p, op, s[1])
    BY <1>1, EndOfBoth
<1>3. PICK n \in 0 .. Len(s) :
          InVain(p, op, q, n) /\ (IF n = Len(s) THEN a = Unsupported ELSE Ends(p, op, s[n + 1], a))
    BY DEF Explained
<1>4. n = 0
    BY <1>1, <1>2, <1>3 DEF InVain
<1> QED
    BY <1>1, <1>2, <1>3, <1>4 DEF Ends, Found

(* The class that is loaded is of the architecture that was inspected,     *)
(* unless a candidate has failed: the two copies of the order agree, and   *)
(* both end at the first candidate that is registered.                     *)
THEOREM InspectedClassIsLoaded == Spec => []InspectedIsLoaded
<1>1. AnswersInv => InspectedIsLoaded
    <2> SUFFICES ASSUME AnswersInv, NEW p \in Procs, NEW q \in Queries,
                        <<"inspect", q>> \in DOMAIN answers[p],
                        <<"load", q>> \in DOMAIN answers[p],
                        ~Failed(p, "inspect", q), ~Failed(p, "load", q),
                        ~(q.impl = "terratorch" /\ "Terratorch" \notin DOMAIN models[p])
                 PROVE  LET i == answers[p][<<"inspect", q>>]
                            l == answers[p][<<"load", q>>]
                        IN  i.kind = l.kind /\ (i.kind = "found" => i.says = l.says)
        BY DEF InspectedIsLoaded
    <2>1. PICK a, b : a = answers[p][<<"inspect", q>>] /\ b = answers[p][<<"load", q>>]
        OBVIOUS
    <2>2. Explained(p, "inspect", q, a) /\ Explained(p, "load", q, b)
        BY <2>1 DEF AnswersInv
    <2>3. CASE q.impl = "terratorch"
        <3>1. "inspect" \in Ops /\ "load" \in Ops
            BY DEF Ops
        <3> QED
            BY <2>1, <2>2, <2>3, <3>1, TerratorchEnds
    <2>4. CASE q.impl # "terratorch"
        BY <2>1, <2>2, <2>4, AlikeEnds
    <2> QED
        BY <2>3, <2>4
<1> QED
    BY <1>1, AnswersAreExplained, PTL
=============================================================================
