----------------------------- MODULE PtqCampaign -----------------------------
(***************************************************************************)
(* A quantization campaign: invocations of scripts/run-ptq.sh (the         *)
(* drivers), the container q38-ptq they launch, the worker                 *)
(* scripts/ptq_worker.py inside it, and the files they share: the sentinel *)
(* files PASS and FAIL of an attempt and its exported candidate directory. *)
(*                                                                         *)
(* Simplifications.                                                        *)
(*  - A driver reads the file system and asks docker in separate steps, as *)
(*    the shell does; the worker runs and dies at any point in between.    *)
(*  - How long a poll lasts is not modelled: MaxPolls polls may pass while *)
(*    the worker takes any number of steps (720 polls of 30 s in the code).*)
(*  - Whether a stage of the worker succeeds is its input.                 *)
(***************************************************************************)
EXTENDS Integers

CONSTANTS Drivers,         \* invocations of run-ptq.sh
          Attempts,        \* attempt ids
          MaxPolls,        \* iterations of the follow loop
          FreshAttempts,   \* the operator never reuses an attempt id
          OneAtATime,      \* the operator waits for a driver to end
          None

ASSUME CampaignAssumption ==
    /\ MaxPolls \in Nat \ {0}
    /\ FreshAttempts \in BOOLEAN /\ OneAtATime \in BOOLEAN
    /\ None \notin Drivers /\ None \notin Attempts

VARIABLES
    dpc,          \* control point of each driver
    attempt,      \* its argument, None before it is started
    polls,        \* iterations of the follow loop it has begun
    pass, fail,   \* sentinel files by attempt: who wrote it, is it whole
    candidate,    \* candidates/<attempt>
    container     \* what docker ps -a shows as q38-ptq

vars == <<dpc, attempt, polls, pass, fail, candidate, container>>

Following == {"poll", "pass?", "fail?", "running?", "listed?"}
Ended == {"exit0", "exit1", "exit2", "exit3", "exit20", "exit21", "exit22", "killed"}
DriverStates == {"new", "preflight", "remove", "run", "verdict0", "verdict1"}
                  \union Following \union Ended

(* The worker before it touches the candidate, in order.                   *)
Early == {"config", "load", "calibration", "quantize", "calibrate", "census"}
NextStage == [config |-> "load", load |-> "calibration", calibration |-> "quantize",
              quantize |-> "calibrate", calibrate |-> "census", census |-> "export"]
Stages == Early \union {"export", "exporting", "audit", "pass", "passing", "fail", "failing"}

NoFile == [by |-> None, whole |-> FALSE]
NoContainer == [launch |-> None, status |-> "absent", stage |-> "config"]

Init ==
    /\ dpc = [d \in Drivers |-> "new"]
    /\ attempt = [d \in Drivers |-> None]
    /\ polls = [d \in Drivers |-> 0]
    /\ pass = [a \in Attempts |-> NoFile]
    /\ fail = [a \in Attempts |-> NoFile]
    /\ candidate = [a \in Attempts |-> "none"]
    /\ container = NoContainer
-----------------------------------------------------------------------------
(***************************************************************************)
(* run-ptq.sh                                                              *)
(***************************************************************************)
Goto(d, from, to) == dpc[d] = from /\ dpc' = [dpc EXCEPT ![d] = to]

files == <<pass, fail, candidate>>

(* The operator starts a driver.                                           *)
Start(d, a) ==
    /\ Goto(d, "new", "preflight")
    /\ FreshAttempts => \A e \in Drivers : attempt[e] # a
    /\ OneAtATime => \A e \in Drivers : dpc[e] \in Ended \union {"new"}
    /\ attempt' = [attempt EXCEPT ![d] = a]
    /\ UNCHANGED <<polls, files, container>>

(* The worker script or the source model is missing.                       *)
PreflightFails(d) ==
    /\ \E code \in {"exit20", "exit21"} : Goto(d, "preflight", code)
    /\ UNCHANGED <<attempt, polls, files, container>>

CandidateMissing(a) == candidate[a] = "none"

PreflightChecks(d) ==
    /\ Goto(d, "preflight", IF CandidateMissing(attempt[d]) THEN "remove" ELSE "exit22")
    /\ UNCHANGED <<attempt, polls, files, container>>

(* docker rm -f q38-ptq || true: whatever has that name is gone.           *)
RemoveContainer(d) ==
    /\ Goto(d, "remove", "run")
    /\ container' = NoContainer
    /\ UNCHANGED <<attempt, polls, files>>

(* docker run -d: fails if the name is taken or for reasons of docker's    *)
(* own, which may leave a container that never ran; the script goes on.    *)
RunContainer(d) ==
    /\ Goto(d, "run", "poll")
    /\ \/ /\ container.status = "absent"
          /\ \E status \in {"running", "exited"} :
                container' = [launch |-> d, status |-> status, stage |-> "config"]
       \/ UNCHANGED container
    /\ UNCHANGED <<attempt, polls, files>>

PollsLeft(d) == polls[d] < MaxPolls

(* A loop that is not bounded.                                             *)
Uncounted(d) == polls[d]

Counted(d) == polls[d] + 1

(* for i in $(seq 1 720)                                                   *)
Poll(d) ==
    /\ PollsLeft(d)
    /\ Goto(d, "poll", "pass?")
    /\ polls' = [polls EXCEPT ![d] = Counted(d)]
    /\ UNCHANGED <<attempt, files, container>>

TimeOut(d) ==
    /\ polls[d] = MaxPolls
    /\ Goto(d, "poll", "exit3")
    /\ UNCHANGED <<attempt, polls, files, container>>

Exists(file) == file.by # None

(* An evidence directory all attempts share.                               *)
SharedEvidence(d) == CHOOSE a \in Attempts : TRUE

(* EVIDENCE="$ROOT/evidence/$ATTEMPT"                                      *)
Evidence(d) == attempt[d]

CheckPass(d) ==
    /\ Goto(d, "pass?", IF Exists(pass[Evidence(d)]) THEN "verdict0" ELSE "fail?")
    /\ UNCHANGED <<attempt, polls, files, container>>

CheckFail(d) ==
    /\ Goto(d, "fail?", IF Exists(fail[Evidence(d)]) THEN "verdict1" ELSE "running?")
    /\ UNCHANGED <<attempt, polls, files, container>>

(* The sentinel is believed: the container is removed and the script exits.*)
Verdict(d) ==
    /\ \/ Goto(d, "verdict0", "exit0")
       \/ Goto(d, "verdict1", "exit1")
    /\ container' = NoContainer
    /\ UNCHANGED <<attempt, polls, files>>

(* docker ps                                                               *)
CheckRunning(d) ==
    /\ Goto(d, "running?", IF container.status = "running" THEN "poll" ELSE "listed?")
    /\ UNCHANGED <<attempt, polls, files, container>>

(* docker ps -a lists a container that has exited as well.                 *)
Listed == container.status # "absent"

CheckListed(d) ==
    /\ Goto(d, "listed?", IF Listed THEN "poll" ELSE "exit2")
    /\ UNCHANGED <<attempt, polls, files, container>>

(* The shell of the driver is killed; the detached container goes on.      *)
Killed(d) ==
    /\ dpc[d] \notin Ended \union {"new"}
    /\ dpc' = [dpc EXCEPT ![d] = "killed"]
    /\ UNCHANGED <<attempt, polls, files, container>>

DriverStep(d) ==
    \/ PreflightFails(d) \/ PreflightChecks(d) \/ RemoveContainer(d) \/ RunContainer(d)
    \/ Poll(d) \/ TimeOut(d) \/ CheckPass(d) \/ CheckFail(d) \/ Verdict(d)
    \/ CheckRunning(d) \/ CheckListed(d)
-----------------------------------------------------------------------------
(***************************************************************************)
(* ptq_worker.py, in the container that driver container.launch started.   *)
(***************************************************************************)
Author == container.launch
Target == attempt[Author]

(* A candidate directory all attempts share.                               *)
SharedOut == CHOOSE a \in Attempts : TRUE

(* Q38_OUT=/candidates/$ATTEMPT                                            *)
Out == Target

drivers == <<dpc, attempt, polls>>

AtStage(stage) == container.status = "running" /\ container.stage = stage
Enter(stage) == container' = [container EXCEPT !.stage = stage]
Exit == container' = [container EXCEPT !.status = "exited"]

(* A stage up to the census succeeds.                                      *)
Advance ==
    /\ container.status = "running"
    /\ container.stage \in Early
    /\ Enter(NextStage[container.stage])
    /\ UNCHANGED <<drivers, files>>

(* export_hf_checkpoint starts to fill the directory.                      *)
BeginExport ==
    /\ AtStage("export")
    /\ candidate' = [candidate EXCEPT ![Out] = "partial"]
    /\ Enter("exporting")
    /\ UNCHANGED <<drivers, pass, fail>>

AfterExport == "audit"

EndExport ==
    /\ AtStage("exporting")
    /\ candidate' = [candidate EXCEPT ![Out] = "exported"]
    /\ Enter(AfterExport)
    /\ UNCHANGED <<drivers, pass, fail>>

(* input_scale census holds and the tokenizer files are in place.          *)
Audit ==
    /\ AtStage("audit")
    /\ candidate' = [candidate EXCEPT ![Out] = "complete"]
    /\ Enter("pass")
    /\ UNCHANGED <<drivers, pass, fail>>

(* write_text opens the file, then writes and closes it.                   *)
OpenPass ==
    /\ AtStage("pass")
    /\ pass' = [pass EXCEPT ![Target] = [by |-> Author, whole |-> FALSE]]
    /\ Enter("passing")
    /\ UNCHANGED <<drivers, fail, candidate>>

ClosePass ==
    /\ AtStage("passing")
    /\ pass' = [pass EXCEPT ![Target].whole = TRUE]
    /\ Exit
    /\ UNCHANGED <<drivers, fail, candidate>>

(* A stage calls fail(); "calibration" has no such call, only exceptions.  *)
StageFails ==
    /\ container.status = "running"
    /\ container.stage \in {"config", "load", "quantize", "calibrate", "census",
                            "exporting", "audit"}
    /\ Enter("fail")
    /\ UNCHANGED <<drivers, files>>

OpenFail ==
    /\ AtStage("fail")
    /\ fail' = [fail EXCEPT ![Target] = [by |-> Author, whole |-> FALSE]]
    /\ Enter("failing")
    /\ UNCHANGED <<drivers, pass, candidate>>

CloseFail ==
    /\ AtStage("failing")
    /\ fail' = [fail EXCEPT ![Target].whole = TRUE]
    /\ Exit
    /\ UNCHANGED <<drivers, pass, candidate>>

(* An exception nobody catches, or the memory limit of the container.      *)
Crash ==
    /\ container.status = "running"
    /\ Exit
    /\ UNCHANGED <<drivers, files>>

WorkerStep ==
    \/ Advance \/ BeginExport \/ EndExport \/ Audit \/ OpenPass \/ ClosePass
    \/ StageFails \/ OpenFail \/ CloseFail \/ Crash
-----------------------------------------------------------------------------
Next ==
    \/ \E d \in Drivers, a \in Attempts : Start(d, a)
    \/ \E d \in Drivers : DriverStep(d) \/ Killed(d)
    \/ WorkerStep

Spec == Init /\ [][Next]_vars

(* A shell that runs keeps running; nothing is promised of the worker.     *)
FairSpec == Spec /\ \A d \in Drivers : WF_vars(DriverStep(d))
-----------------------------------------------------------------------------
(***************************************************************************)
(* Correctness.                                                            *)
(***************************************************************************)
File == [by : Drivers \union {None}, whole : BOOLEAN]

TypeOK ==
    /\ dpc \in [Drivers -> DriverStates]
    /\ attempt \in [Drivers -> Attempts \union {None}]
    /\ \A d \in Drivers : attempt[d] = None <=> dpc[d] = "new"
    /\ polls \in [Drivers -> 0 .. MaxPolls]
    /\ pass \in [Attempts -> File]
    /\ fail \in [Attempts -> File]
    /\ candidate \in [Attempts -> {"none", "partial", "exported", "complete"}]
    /\ container \in [launch : Drivers \union {None},
                     status : {"absent", "running", "exited"}, stage : Stages]
    /\ container.status # "absent" => container.launch \in Drivers

(* A PASS sentinel stands beside a candidate that is exported, audited and *)
(* complete, whoever else removed containers or reran the campaign.        *)
PassMeansComplete ==
    \A a \in Attempts : Exists(pass[a]) => candidate[a] = "complete"

(* The verdict a driver reports is that of the worker it launched itself.  *)
VerdictIsOwn ==
    \A d \in Drivers :
        /\ dpc[d] \in {"verdict0", "exit0"} => pass[attempt[d]].by = d
        /\ dpc[d] \in {"verdict1", "exit1"} => fail[attempt[d]].by = d

(* A finished candidate is never written again.                            *)
CandidateKept ==
    [][\A a \in Attempts : candidate[a] = "complete" => candidate'[a] = "complete"]_vars

(* Every driver comes to an end, whatever becomes of its worker.           *)
DriversEnd == \A d \in Drivers : dpc[d] # "new" ~> dpc[d] \in Ended
=============================================================================
