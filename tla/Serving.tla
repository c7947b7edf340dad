-------------------------------- MODULE Serving --------------------------------
(***************************************************************************)
(* The scripts that launch a server and judge it: click_run_mtp.sh and     *)
(* click_run_dflash2.sh with serve.sh, run_mtp_ladder.sh,                  *)
(* run_perf_suite.sh and, called by them, run_semantic_gate.py.  They      *)
(* share the container name qwen38-27b, its port, and result files that    *)
(* outlive a run.                                                          *)
(*                                                                         *)
(* Simplifications.                                                        *)
(*  - Health, gate and container are those of one host: Q38_BASE_URL names *)
(*    the host NODE2.                                                      *)
(*  - What an answer or a benchmark says is left out: an answer is right   *)
(*    or wrong, a result is known by the run it was measured in.           *)
(*  - The click-runs are one script.  The draft's and the image's checks   *)
(*    let it go on or stop it.                                             *)
(*  - A docker command may fail, and a server may die or be restarted, at  *)
(*    any time; MaxFaults bounds how often.                                *)
(***************************************************************************)
EXTENDS Integers, FiniteSets

CONSTANTS
    Shards,        \* 1 .. n: the shards of the published tree, four in the scripts
    Rungs,         \* KLIST is 1 .. Rungs
    Reps,          \* how often the performance suite measures
    Requests,      \* how many requests the gate makes
    MaxProbes,     \* health probes per launch, 90 in the scripts
    MaxStarts,     \* scripts started in all
    MaxFaults,
    FreshTags      \* every ladder and suite gets a run tag of its own

ASSUME ServingAssumption ==
    /\ 1 \in Shards /\ Shards \subseteq Nat
    /\ Rungs \in Nat \ {0} /\ Reps \in Nat \ {0} /\ Requests \in Nat \ {0}
    /\ MaxProbes \in Nat \ {0} /\ MaxStarts \in Nat /\ MaxFaults \in Nat
    /\ FreshTags \in BOOLEAN

VARIABLES
    alone,       \* the operator starts no script while another runs
    tree,        \* the shards present in MODEL_DIR
    container,   \* the container qwen38-27b
    at,          \* script -> where it has come to
    run,         \* script -> number of its last start
    own,         \* script -> the launch it made last
    count,       \* script -> health probes made, or the rep of the suite
    rung,        \* the ladder's rung
    answers,     \* script -> what its gate has been answered so far
    verdicts,    \* file of the semantic gate -> its content
    results,     \* rep -> result of the suite in OUT
    report,      \* the last verdict or result that was printed
    exit,        \* script -> exit code of its last run
    launches, starts, faults

scriptVars == <<run, own, count, rung, answers, exit, starts>>
fileVars == <<verdicts, results, report>>
servingVars == <<alone, tree, container, at, scriptVars, fileVars, launches, faults>>

Launchers == {"click", "ladder"}
Scripts == Launchers \union {"perf"}
None == [kind |-> "none"]
Torn == [kind |-> "torn"]

Idle(s) == at[s] = "idle"
Up == container # None
Running == Up /\ container.state # "down"
Healthy == Up /\ container.state = "healthy"
Fault == faults < MaxFaults /\ faults' = faults + 1

(* The gate's output file: the click-run's is always the same, the         *)
(* ladder's is named by its tag and the rung.                              *)
GateFiles == {0} \union 1 .. Rungs
GateFile(s) == IF s = "click" THEN 0 ELSE rung

Goto(s, from, to) == at[s] = from /\ at' = [at EXCEPT ![s] = to] /\ UNCHANGED alone
Stop(s, from, code) == Goto(s, from, "idle") /\ exit' = [exit EXCEPT ![s] = code]
-----------------------------------------------------------------------------
(***************************************************************************)
(* Starting a script, and what the click-run does before it launches.      *)
(***************************************************************************)
FirstStep(s) == CASE s = "click" -> "tree" [] s = "ladder" -> "remove" [] OTHER -> "setup"

(* With a tag of its own a run finds no results of an earlier one.         *)
StartScript(s) ==
    /\ starts < MaxStarts /\ starts' = starts + 1
    /\ alone => \A t \in Scripts : Idle(t)
    /\ Goto(s, "idle", FirstStep(s))
    /\ run' = [run EXCEPT ![s] = starts + 1]
    /\ count' = [count EXCEPT ![s] = IF s = "perf" THEN 1 ELSE 0]
    /\ rung' = IF s = "ladder" THEN 1 ELSE rung
    /\ verdicts' = IF s = "ladder" /\ FreshTags
                   THEN [f \in GateFiles |-> IF f = 0 THEN verdicts[0] ELSE None]
                   ELSE verdicts
    /\ results' = IF s = "perf" /\ FreshTags THEN [r \in 1 .. Reps |-> None] ELSE results
    /\ container' = IF s = "perf" /\ FreshTags /\ Up
                    THEN [container EXCEPT !.results = [r \in 1 .. Reps |-> None]]
                    ELSE container
    /\ UNCHANGED <<tree, own, answers, exit, report, launches, faults>>

(* The tree is downloaded when its first shard is missing, and only then.  *)
Download(s) ==
    /\ 1 \notin tree
    /\ \/ /\ Goto(s, "tree", "tree") /\ tree' = Shards /\ UNCHANGED <<exit, faults>>
       \/ Fault /\ Stop(s, "tree", 1) /\ tree' \in SUBSET Shards /\ tree \subseteq tree'
    /\ UNCHANGED <<container, run, own, count, rung, answers, starts, fileVars, launches>>

CheckTree(s) ==
    /\ 1 \in tree
    /\ IF tree = Shards THEN Goto(s, "tree", "serve") /\ UNCHANGED exit
       ELSE Stop(s, "tree", 2)
    /\ UNCHANGED <<tree, container, run, own, count, rung, answers, starts, fileVars,
                   launches, faults>>

(* Draft and image, then serve.sh's own checks, which stop with codes of   *)
(* their own.                                                              *)
ServeChecks(s) ==
    /\ \/ Goto(s, "serve", "remove") /\ UNCHANGED exit
       \/ Stop(s, "serve", 1)
    /\ UNCHANGED <<tree, container, run, own, count, rung, answers, starts, fileVars,
                   launches, faults>>
-----------------------------------------------------------------------------
(***************************************************************************)
(* Launching: docker rm -f, docker run, and the wait for health.           *)
(***************************************************************************)

(* The result of docker rm is ignored.                                     *)
RemoveContainer(s) ==
    /\ Goto(s, "remove", "run")
    /\ \/ container' = None /\ UNCHANGED faults
       \/ Up /\ Fault /\ UNCHANGED container
    /\ UNCHANGED <<tree, scriptVars, fileVars, launches>>

(* A launch whose failure is ignored: what answers is what was there.      *)
RunIgnored(s) ==
    /\ Goto(s, "run", "probe")
    /\ launches' = launches + 1
    /\ own' = [own EXCEPT ![s] = launches + 1]
    /\ count' = [count EXCEPT ![s] = 0]
    /\ container' = IF Up THEN container
                    ELSE [launch |-> launches + 1, state |-> "loading",
                          restarts |-> s = "ladder", results |-> [r \in 1 .. Reps |-> None]]
    /\ UNCHANGED <<tree, run, rung, answers, exit, starts, fileVars, faults>>

(* docker run fails when the name is taken, or for reasons of its own.     *)
RunContainer(s) ==
    /\ \/ /\ ~Up
          /\ Goto(s, "run", "probe")
          /\ launches' = launches + 1
          /\ own' = [own EXCEPT ![s] = launches + 1]
          /\ count' = [count EXCEPT ![s] = 0]
          /\ container' = [launch |-> launches + 1, state |-> "loading",
                           restarts |-> s = "ladder", results |-> [r \in 1 .. Reps |-> None]]
          /\ UNCHANGED <<exit, faults>>
       \/ /\ IF Up THEN UNCHANGED faults ELSE Fault
          /\ Stop(s, "run", IF s = "ladder" THEN 2 ELSE 1)
          /\ UNCHANGED <<container, launches, own, count>>
    /\ UNCHANGED <<tree, run, rung, answers, starts, fileVars>>

NoAnswers == [asked |-> 0, right |-> TRUE, from |-> {}]

(* Health is asked first; a server that answers is ready whoever runs it.  *)
Probe(s) ==
    /\ count[s] < MaxProbes
    /\ IF Healthy
       THEN /\ Goto(s, "probe", "gate")
            /\ answers' = [answers EXCEPT ![s] = NoAnswers]
       ELSE Goto(s, "probe", "inspect") /\ UNCHANGED answers
    /\ UNCHANGED <<tree, container, run, own, count, rung, exit, starts, fileVars,
                   launches, faults>>

(* Between two restarts docker may call a dead container running.          *)
Inspect(s) ==
    /\ \/ /\ Up
          /\ container.state # "down" \/ container.restarts
          /\ Goto(s, "inspect", "probe")
          /\ count' = [count EXCEPT ![s] = @ + 1]
          /\ UNCHANGED exit
       \/ /\ ~Running
          /\ Stop(s, "inspect", 3)
          /\ UNCHANGED count
    /\ UNCHANGED <<tree, container, run, own, rung, answers, starts, fileVars, launches,
                   faults>>

(* A wait without end.                                                     *)
ProbeForever(s) ==
    /\ count[s] = MaxProbes
    /\ Goto(s, "probe", "inspect")
    /\ count' = [count EXCEPT ![s] = 0]
    /\ UNCHANGED <<tree, container, run, own, rung, answers, exit, starts, fileVars,
                   launches, faults>>

ReadyTimeout(s) ==
    /\ count[s] = MaxProbes
    /\ Stop(s, "probe", 4)
    /\ UNCHANGED <<tree, container, run, own, count, rung, answers, starts, fileVars,
                   launches, faults>>
-----------------------------------------------------------------------------
(***************************************************************************)
(* run_semantic_gate.py, and how its caller reads it.                      *)
(***************************************************************************)
Ask(s) ==
    /\ Healthy /\ answers[s].asked < Requests
    /\ Goto(s, "gate", "gate")
    /\ \E right \in BOOLEAN :
          answers' = [answers EXCEPT ![s] = [asked |-> @.asked + 1, right |-> @.right /\ right,
                                             from |-> @.from \union {container.launch}]]
    /\ UNCHANGED <<tree, container, run, own, count, rung, exit, starts, fileVars,
                   launches, faults>>

(* write_text at the end: the file is truncated, then written.             *)
WriteVerdict(s) ==
    /\ \/ /\ answers[s].asked = Requests
          /\ Goto(s, "gate", "write")
          /\ verdicts' = [verdicts EXCEPT ![GateFile(s)] = Torn]
          /\ UNCHANGED answers
       \/ /\ Goto(s, "write", "verdict")
          /\ verdicts' = [verdicts EXCEPT ![GateFile(s)] =
                             [kind |-> "gate", passed |-> answers[s].right,
                              from |-> answers[s].from]]
          /\ answers' = [answers EXCEPT ![s] = NoAnswers]
    /\ UNCHANGED <<tree, container, run, own, count, rung, exit, starts, results, report,
                   launches, faults>>

(* A caller that does not ask how the gate ended.                          *)
GateGoesOn(s) ==
    /\ at[s] \in {"gate", "write"} /\ Goto(s, at[s], "verdict")
    /\ IF at[s] = "gate" /\ ~Healthy THEN UNCHANGED faults ELSE Fault
    /\ answers' = [answers EXCEPT ![s] = NoAnswers]
    /\ UNCHANGED <<tree, container, run, own, count, rung, exit, starts, fileVars, launches>>

(* A request that raises, or the ladder's timeout, ends the gate before it *)
(* has written; the click-run stops with it, the ladder goes on.           *)
GateFails(s) ==
    /\ at[s] \in {"gate", "write"}
    /\ IF s = "ladder" THEN Goto(s, at[s], "verdict") /\ UNCHANGED exit
       ELSE Stop(s, at[s], 1)
    /\ IF at[s] = "gate" /\ ~Healthy THEN UNCHANGED faults ELSE Fault
    /\ answers' = [answers EXCEPT ![s] = NoAnswers]
    /\ UNCHANGED <<tree, container, run, own, count, rung, starts, fileVars, launches>>

(* The file is read, whichever run has written it.                         *)
ReadVerdict(s) ==
    /\ at[s] = "verdict"
    /\ LET verdict == verdicts[GateFile(s)]
       IN  /\ report' = IF verdict.kind # "gate" THEN report
                        ELSE [kind |-> "gate", passed |-> verdict.passed,
                              from |-> verdict.from, own |-> own[s]]
           /\ IF s = "ladder" THEN Goto(s, "verdict", "next") /\ UNCHANGED exit
              ELSE Stop(s, "verdict", IF verdict.kind = "gate" /\ verdict.passed THEN 0 ELSE 1)
    /\ UNCHANGED <<tree, container, run, own, count, rung, answers, starts, verdicts,
                   results, launches, faults>>

RungsLeft == rung < Rungs

NextRung(s) ==
    /\ \/ /\ RungsLeft
          /\ rung' = rung + 1 /\ Goto(s, "next", "remove")
          /\ UNCHANGED exit
       \/ ~RungsLeft /\ UNCHANGED rung /\ Stop(s, "next", 0)
    /\ UNCHANGED <<tree, container, run, own, count, answers, starts, fileVars, launches,
                   faults>>
-----------------------------------------------------------------------------
(***************************************************************************)
(* run_perf_suite.sh                                                       *)
(***************************************************************************)
PerfStep == UNCHANGED <<tree, run, own, rung, answers, starts, verdicts, launches>>

(* Preflight, and the health check before every measurement.               *)
PerfHealth(s) ==
    /\ \/ /\ Healthy
          /\ \/ Goto(s, "setup", "health")
             \/ Goto(s, "health", "bench")
          /\ UNCHANGED exit
       \/ ~Healthy /\ (Stop(s, "setup", 1) \/ Stop(s, "health", 2))
    /\ PerfStep /\ UNCHANGED <<container, count, results, report, faults>>

Bench(s) ==
    /\ \/ /\ Healthy
          /\ Goto(s, "bench", "copy")
          /\ container' = [container EXCEPT !.results[count[s]] =
                              [kind |-> "perf", run |-> run[s], rep |-> count[s]]]
          /\ UNCHANGED <<exit, faults>>
       \/ /\ IF Healthy THEN Fault ELSE UNCHANGED faults
          /\ Stop(s, "bench", 2)
          /\ UNCHANGED container
    /\ PerfStep /\ UNCHANGED <<count, results, report>>

(* fetch_result: a copy that fails is ignored.                             *)
CopyResult(s) ==
    /\ Goto(s, "copy", "print")
    /\ \/ /\ Up /\ container.results[count[s]] # None
          /\ results' = [results EXCEPT ![count[s]] = container.results[count[s]]]
          /\ UNCHANGED faults
       \/ /\ IF Up /\ container.results[count[s]] # None THEN Fault ELSE UNCHANGED faults
          /\ UNCHANGED results
    /\ PerfStep /\ UNCHANGED <<container, count, report, exit>>

(* A report that shows the last result when this one is missing.           *)
LastResult(r) == IF results[r] = None /\ r > 1 THEN results[r - 1] ELSE results[r]

ResultOf(r) == results[r]

PrintResult(s) ==
    /\ at[s] = "print"
    /\ report' = IF ResultOf(count[s]) = None THEN report
                 ELSE [kind |-> "perf", measured |-> ResultOf(count[s]),
                       run |-> run[s], rep |-> count[s]]
    /\ IF count[s] < Reps
       THEN /\ Goto(s, "print", "health")
            /\ count' = [count EXCEPT ![s] = @ + 1]
            /\ UNCHANGED exit
       ELSE Stop(s, "print", 0) /\ UNCHANGED count
    /\ PerfStep /\ UNCHANGED <<container, results, faults>>
-----------------------------------------------------------------------------
(***************************************************************************)
(* The server in the container, which the scripts only watch.              *)
(***************************************************************************)
ServerStep(from, to) ==
    /\ Up
    /\ container.state = from
    /\ container' = [container EXCEPT !.state = to]
    /\ UNCHANGED <<alone, tree, at, scriptVars, fileVars, launches>>

(* Without all of its shards the model does not load.                      *)
ServerReady == ServerStep("loading", "healthy") /\ tree = Shards /\ UNCHANGED faults

ServerDies ==
    \/ ServerStep("loading", "down") /\ Fault
    \/ ServerStep("healthy", "down") /\ Fault

ServerRestarts ==
    ServerStep("down", "loading") /\ container.restarts /\ UNCHANGED faults
-----------------------------------------------------------------------------
ServingInit ==
    /\ alone \in BOOLEAN
    /\ tree \in {{}, {1}, Shards}
    /\ container = None
    /\ at = [s \in Scripts |-> "idle"]
    /\ run = [s \in Scripts |-> 0] /\ own = [s \in Scripts |-> 0]
    /\ count = [s \in Scripts |-> 0] /\ rung = 1
    /\ answers = [s \in Scripts |-> NoAnswers]
    /\ verdicts = [f \in GateFiles |-> None]
    /\ results = [r \in 1 .. Reps |-> None]
    /\ report = None
    /\ exit = [s \in Scripts |-> 0]
    /\ launches = 0 /\ starts = 0 /\ faults = 0

Click == Download("click") \/ CheckTree("click") \/ ServeChecks("click")

Launch(s) ==
    \/ RemoveContainer(s) \/ RunContainer(s) \/ Probe(s) \/ Inspect(s) \/ ReadyTimeout(s)
    \/ Ask(s) \/ WriteVerdict(s) \/ GateFails(s) \/ ReadVerdict(s)

Perf(s) == PerfHealth(s) \/ Bench(s) \/ CopyResult(s) \/ PrintResult(s)

Step(s) ==
    \/ s = "click" /\ Click
    \/ s \in Launchers /\ Launch(s)
    \/ s = "ladder" /\ NextRung(s)
    \/ s = "perf" /\ Perf(s)

ServingNext ==
    \/ \E s \in Scripts : StartScript(s) \/ Step(s)
    \/ ServerReady \/ ServerDies \/ ServerRestarts

(* A script that was started runs on; nothing is assumed of the server.    *)
ServingSpec == ServingInit /\ [][ServingNext]_servingVars /\ \A s \in Scripts : WF_servingVars(Step(s))
-----------------------------------------------------------------------------
(* A verdict that is printed as this rung's or this click-run's was        *)
(* answered by no server from before its launch, however the scripts       *)
(* overlap; and by that launch alone when they do not.                     *)
VerdictIsOwn ==
    report.kind = "gate" =>
        /\ report.from # {}
        /\ \A l \in report.from : l >= report.own
        /\ alone => report.from = {report.own}

(* A click-run ends with 0 only when the gate it has just run has passed.  *)
SuccessIsMeasured ==
    exit["click"] = 0 /\ run["click"] > 0 /\ Idle("click") =>
        /\ verdicts[0].kind = "gate" /\ verdicts[0].passed
        /\ verdicts[0].from # {}
        /\ \A l \in verdicts[0].from : l >= own["click"]

(* A throughput that is printed was measured in this run and for this rep, *)
(* though a copy that fails is ignored and the container outlives the run. *)
ThroughputIsOwn ==
    report.kind = "perf" =>
        report.measured.run = report.run /\ report.measured.rep = report.rep

(* Every script that is started ends, whatever the server and docker do.   *)
ScriptsEnd == \A s \in Scripts : ~Idle(s) ~> Idle(s)
=============================================================================
