-------------------------- MODULE PtqCampaignProofs --------------------------
(***************************************************************************)
(* Theorems about PtqCampaign, for any number of drivers and attempts,     *)
(* provided that no attempt id is used twice.  Drivers may run at the same *)
(* time and be killed, containers may be removed under any worker.         *)
(***************************************************************************)
EXTENDS PtqCampaign, TLAPS

(* A driver that may have launched a container.                            *)
Launched(d) == dpc[d] \notin {"new", "preflight", "remove", "run"}

Untouched(a) == candidate[a] = "none" /\ ~Exists(pass[a]) /\ ~Exists(fail[a])

(* No two drivers have the same attempt.                                   *)
OneDriver == \A d, e \in Drivers : attempt[d] = attempt[e] /\ attempt[d] # None => d = e

(* A driver is the author of every file of its attempt, and nothing exists *)
(* of an attempt before its driver launches the container.                 *)
Authorship ==
    \A a \in Attempts :
        /\ Exists(pass[a]) => attempt[pass[a].by] = a /\ candidate[a] = "complete"
        /\ Exists(fail[a]) => attempt[fail[a].by] = a
        /\ Untouched(a) \/ \E d \in Drivers : attempt[d] = a /\ Launched(d)

(* How far the candidate is at each stage of a worker that is running.     *)
Progress ==
    container.status # "absent" =>
        /\ Launched(Author)
        /\ container.status = "running" =>
              /\ container.stage \in Early \union {"export"} => candidate[Target] = "none"
              /\ container.stage = "exporting" => candidate[Target] = "partial"
              /\ container.stage = "audit" => candidate[Target] = "exported"
              /\ container.stage \in {"pass", "passing"} => candidate[Target] = "complete"
              /\ container.stage # "passing" => ~Exists(pass[Target])

(* A verdict was read from a file, and files are never removed.            *)
Evident ==
    \A d \in Drivers :
        /\ dpc[d] \in {"verdict0", "exit0"} => Exists(pass[attempt[d]])
        /\ dpc[d] \in {"verdict1", "exit1"} => Exists(fail[attempt[d]])

IInv == TypeOK /\ OneDriver /\ Authorship /\ Progress /\ Evident
-----------------------------------------------------------------------------
LEMMA TypeInit == Init => TypeOK
BY CampaignAssumption DEF Init, TypeOK, DriverStates, File, NoFile, NoContainer, Stages, Early

(* A step of a driver changes its own control point and nothing of another *)
(* driver; it starts a container, removes one, or leaves it alone.         *)
LEMMA DriverStepShape ==
    ASSUME TypeOK, NEW d \in Drivers, DriverStep(d) \/ Killed(d)
    PROVE  /\ dpc[d] # "new" /\ UNCHANGED <<attempt, files>>
           /\ \E to \in DriverStates \ {"new"} : dpc' = [dpc EXCEPT ![d] = to]
           /\ polls' \in [Drivers -> 0 .. MaxPolls]
           /\ \A e \in Drivers : Launched(e) => Launched(e)'
           /\ \/ UNCHANGED container
              \/ container' = NoContainer
              \/ /\ dpc[d] = "run" /\ Launched(d)'
                 /\ container'.launch = d /\ container'.stage = "config"
                 /\ container' \in [launch : Drivers, status : {"running", "exited"}, stage : Stages]
<1> USE DEF Goto, TypeOK, DriverStates, Following, Ended, Launched, files
<1>1. CASE PreflightFails(d)
  BY <1>1 DEF PreflightFails
<1>2. CASE PreflightChecks(d)
  BY <1>2 DEF PreflightChecks
<1>3. CASE RemoveContainer(d)
  BY <1>3 DEF RemoveContainer
<1>4. CASE RunContainer(d)
  <2>1. /\ dpc[d] = "run" /\ dpc' = [dpc EXCEPT ![d] = "poll"]
        /\ UNCHANGED <<attempt, polls, files>>
    BY <1>4 DEF RunContainer
  <2>2. Launched(d)' /\ \A e \in Drivers : Launched(e) => Launched(e)'
    BY <2>1
  <2>3. CASE UNCHANGED container
    BY <2>1, <2>2, <2>3
  <2>4. ASSUME NEW status \in {"running", "exited"},
               container' = [launch |-> d, status |-> status, stage |-> "config"]
        PROVE  /\ container'.launch = d /\ container'.stage = "config"
               /\ container' \in [launch : Drivers, status : {"running", "exited"}, stage : Stages]
    BY <2>4 DEF Stages, Early
  <2>5. QED
    BY <1>4, <2>1, <2>2, <2>3, <2>4 DEF RunContainer
<1>5. CASE Poll(d)
  <2>1. polls' \in [Drivers -> 0 .. MaxPolls]
    BY <1>5, CampaignAssumption DEF Poll, PollsLeft, Counted
  <2>2. QED
    BY <1>5, <2>1 DEF Poll
<1>6. CASE TimeOut(d)
  BY <1>6 DEF TimeOut
<1>7. CASE CheckPass(d)
  BY <1>7 DEF CheckPass
<1>8. CASE CheckFail(d)
  BY <1>8 DEF CheckFail
<1>9. CASE Verdict(d)
  BY <1>9 DEF Verdict
<1>10. CASE CheckRunning(d)
  BY <1>10 DEF CheckRunning
<1>11. CASE CheckListed(d)
  BY <1>11 DEF CheckListed
<1>12. CASE Killed(d)
  BY <1>12 DEF Killed
<1>13. QED
  BY <1>1, <1>2, <1>3, <1>4, <1>5, <1>6, <1>7, <1>8, <1>9, <1>10, <1>11, <1>12 DEF DriverStep

LEMMA TypeStep == TypeOK /\ [Next]_vars => TypeOK'
<1> SUFFICES ASSUME TypeOK, [Next]_vars PROVE TypeOK'
  OBVIOUS
<1>1. ASSUME NEW d \in Drivers, NEW a \in Attempts, Start(d, a) PROVE TypeOK'
  BY <1>1, CampaignAssumption DEF Start, Goto, TypeOK, DriverStates, files
<1>2. ASSUME NEW d \in Drivers, DriverStep(d) \/ Killed(d) PROVE TypeOK'
  <2>1. container' \in [launch : Drivers \union {None}, status : {"absent", "running", "exited"},
                        stage : Stages]
    BY <1>2, DriverStepShape DEF TypeOK, NoContainer, Stages, Early
  <2>2. container'.status # "absent" => container'.launch \in Drivers
    BY <1>2, DriverStepShape DEF TypeOK, NoContainer
  <2>3. dpc' \in [Drivers -> DriverStates]
    BY <1>2, DriverStepShape DEF TypeOK
  <2>4. \A e \in Drivers : attempt'[e] = None <=> dpc'[e] = "new"
    BY <1>2, DriverStepShape DEF TypeOK
  <2>5. QED
    BY <1>2, <2>1, <2>2, <2>3, <2>4, DriverStepShape DEF TypeOK, files
<1>3. CASE WorkerStep
  <2> USE DEF TypeOK, drivers, files, AtStage, Enter, Exit, Stages, Early
  <2>0. Author \in Drivers
    BY <1>3 DEF WorkerStep, Advance, BeginExport, EndExport, Audit, OpenPass, ClosePass,
       StageFails, OpenFail, CloseFail, Crash, Author
  <2>1. CASE Advance
    BY <2>1 DEF Advance, NextStage
  <2>2. CASE BeginExport
    BY <2>2 DEF BeginExport
  <2>3. CASE EndExport
    BY <2>3 DEF EndExport, AfterExport
  <2>4. CASE Audit
    BY <2>4 DEF Audit
  <2>5. CASE OpenPass
    BY <2>5, <2>0 DEF OpenPass, File
  <2>6. CASE ClosePass
    <3>1. \A f \in File : [f EXCEPT !.whole = TRUE] \in File
      BY DEF File
    <3>2. \A a \in Attempts : pass'[a] \in File
      BY <2>6, <3>1 DEF ClosePass
    <3>3. pass' = [a \in Attempts |-> pass'[a]]
      BY <2>6 DEF ClosePass
    <3>4. pass' \in [Attempts -> File]
      BY <3>2, <3>3
    <3>5. QED
      BY <2>6, <3>4 DEF ClosePass
  <2>7. CASE StageFails
    BY <2>7 DEF StageFails
  <2>8. CASE OpenFail
    BY <2>8, <2>0 DEF OpenFail, File
  <2>9. CASE CloseFail
    BY <2>9 DEF CloseFail, File
  <2>10. CASE Crash
    BY <2>10 DEF Crash
  <2>11. QED
    BY <1>3, <2>1, <2>2, <2>3, <2>4, <2>5, <2>6, <2>7, <2>8, <2>9, <2>10 DEF WorkerStep
<1>4. CASE UNCHANGED vars
  BY <1>4 DEF vars, TypeOK
<1>5. QED
  BY <1>1, <1>2, <1>3, <1>4 DEF Next

(* Control points, files and the container stay in their ranges, and a     *)
(* container that docker lists has a driver that launched it.              *)
THEOREM TypeCorrect == Spec => []TypeOK
BY TypeInit, TypeStep, PTL DEF Spec
-----------------------------------------------------------------------------
LEMMA InvInit == Init => IInv
<1> SUFFICES ASSUME Init PROVE IInv
  OBVIOUS
<1>1. TypeOK
  BY TypeInit
<1>2. OneDriver /\ Authorship /\ Progress /\ Evident
  BY CampaignAssumption DEF Init, OneDriver, Authorship, Progress, Evident, Untouched, Exists,
     NoFile, NoContainer
<1>3. QED
  BY <1>1, <1>2 DEF IInv

(* Whoever else acts, a driver that starts has an attempt of its own.      *)
LEMMA StartKeepsInv ==
    ASSUME FreshAttempts, IInv, TypeOK', NEW d \in Drivers, NEW a \in Attempts, Start(d, a)
    PROVE  IInv'
<1> USE DEF IInv
<1>1. /\ dpc[d] = "new" /\ dpc' = [dpc EXCEPT ![d] = "preflight"]
      /\ attempt' = [attempt EXCEPT ![d] = a]
      /\ UNCHANGED <<polls, pass, fail, candidate, container>>
      /\ \A e \in Drivers : attempt[e] # a
      /\ attempt[d] = None
  BY DEF Start, Goto, files, TypeOK
<1>2. \A e \in Drivers : attempt[e] # None => attempt'[e] = attempt[e]
  BY <1>1 DEF TypeOK
<1>3. \A e \in Drivers : Launched(e) => Launched(e)' /\ attempt'[e] = attempt[e]
  BY <1>1 DEF TypeOK, Launched
<1>4. OneDriver'
  BY <1>1 DEF OneDriver, TypeOK
<1>5. Authorship'
  <2> SUFFICES ASSUME NEW b \in Attempts
               PROVE  /\ Exists(pass[b])' => (attempt[pass[b].by] = b /\ candidate[b] = "complete")'
                      /\ Exists(fail[b])' => (attempt[fail[b].by] = b)'
                      /\ Untouched(b)' \/ \E e \in Drivers : (attempt[e] = b /\ Launched(e))'
    BY DEF Authorship
  <2>1. Exists(pass[b]) => pass[b].by \in Drivers
    BY DEF Exists, TypeOK, File
  <2>2. Exists(fail[b]) => fail[b].by \in Drivers
    BY DEF Exists, TypeOK, File
  <2>3. b # None
    BY CampaignAssumption
  <2>4. QED
    BY <1>1, <1>2, <1>3, <2>1, <2>2, <2>3 DEF Authorship, Exists, Untouched
<1>6. Progress'
  <2>1. container.status # "absent" => Author \in Drivers /\ Launched(Author)
    BY DEF Progress, TypeOK, Author
  <2>2. container.status # "absent" => Target' = Target /\ Launched(Author)'
    BY <1>1, <1>3, <2>1 DEF Target, Author
  <2>3. QED
    BY <1>1, <2>2 DEF Progress, Exists
<1>7. Evident'
  <2>1. \A e \in Drivers : dpc'[e] \in {"verdict0", "exit0", "verdict1", "exit1"}
                              => e # d /\ dpc'[e] = dpc[e] /\ attempt'[e] = attempt[e]
    BY <1>1 DEF TypeOK
  <2>2. QED
    BY <1>1, <2>1 DEF Evident, Exists
<1>8. QED
  BY <1>4, <1>5, <1>6, <1>7

(* A driver that is about to launch finds its attempt untouched.           *)
LEMMA LaunchUntouched ==
    ASSUME IInv, NEW d \in Drivers, dpc[d] = "run"
    PROVE  attempt[d] \in Attempts /\ Untouched(attempt[d])
<1>1. attempt[d] \in Attempts
  BY DEF IInv, TypeOK
<1>2. \A e \in Drivers : attempt[e] = attempt[d] => e = d
  BY <1>1, CampaignAssumption DEF IInv, OneDriver
<1>3. QED
  BY <1>1, <1>2 DEF IInv, Authorship, Launched

LEMMA DriverKeepsInv ==
    ASSUME IInv, TypeOK', NEW d \in Drivers, DriverStep(d) \/ Killed(d)
    PROVE  IInv'
<1> USE DEF IInv
<1>1. /\ UNCHANGED <<attempt, pass, fail, candidate>>
      /\ \A e \in Drivers : Launched(e) => Launched(e)'
  BY DriverStepShape DEF files
<1>2. OneDriver'
  BY <1>1 DEF OneDriver
<1>3. Authorship'
  BY <1>1 DEF Authorship, Exists, Untouched
<1>4. Progress'
  <2>1. CASE UNCHANGED container
    BY <1>1, <2>1 DEF Progress, Exists, Target, Author, TypeOK
  <2>2. CASE container' = NoContainer
    BY <2>2 DEF Progress, NoContainer
  <2>3. CASE dpc[d] = "run" /\ Launched(d)' /\ container'.launch = d /\ container'.stage = "config"
    <3>1. Untouched(attempt[d])
      BY <2>3, LaunchUntouched
    <3>2. Target' = attempt[d] /\ Author' = d
      BY <1>1, <2>3 DEF Target, Author
    <3>3. QED
      BY <1>1, <2>3, <3>1, <3>2 DEF Progress, Untouched, Exists
  <2>4. QED
    BY <2>1, <2>2, <2>3, DriverStepShape
<1>5. Evident'
  <2>1. PICK to : dpc' = [dpc EXCEPT ![d] = to]
    BY DriverStepShape
  <2>2. ASSUME NEW e \in Drivers, dpc'[e] \in {"verdict0", "exit0"} PROVE Exists(pass[attempt[e]])
    <3>1. CASE dpc'[e] = dpc[e]
      BY <2>2, <3>1 DEF Evident
    <3>2. CASE dpc'[e] # dpc[e]
      <4>1. e = d
        BY <2>1, <3>2 DEF TypeOK
      <4>2. CASE dpc[d] = "verdict0"
        BY <4>1, <4>2 DEF Evident
      <4>3. CASE CheckPass(d)
        BY <2>2, <4>1, <4>3 DEF CheckPass, Goto, Evidence, TypeOK
      <4>4. QED
        BY <2>2, <4>1, <4>2, <4>3 DEF DriverStep, Killed, PreflightFails, PreflightChecks,
           RemoveContainer, RunContainer, Poll, TimeOut, CheckFail, Verdict, CheckRunning,
           CheckListed, Goto, TypeOK
    <3>3. QED
      BY <3>1, <3>2
  <2>3. ASSUME NEW e \in Drivers, dpc'[e] \in {"verdict1", "exit1"} PROVE Exists(fail[attempt[e]])
    <3>1. CASE dpc'[e] = dpc[e]
      BY <2>3, <3>1 DEF Evident
    <3>2. CASE dpc'[e] # dpc[e]
      <4>1. e = d
        BY <2>1, <3>2 DEF TypeOK
      <4>2. CASE dpc[d] = "verdict1"
        BY <4>1, <4>2 DEF Evident
      <4>3. CASE CheckFail(d)
        BY <2>3, <4>1, <4>3 DEF CheckFail, Goto, Evidence, TypeOK
      <4>4. QED
        BY <2>3, <4>1, <4>2, <4>3 DEF DriverStep, Killed, PreflightFails, PreflightChecks,
           RemoveContainer, RunContainer, Poll, TimeOut, CheckPass, Verdict, CheckRunning,
           CheckListed, Goto, TypeOK
    <3>3. QED
      BY <3>1, <3>2
  <2>4. QED
    BY <1>1, <2>2, <2>3 DEF Evident, Exists
<1>6. QED
  BY <1>2, <1>3, <1>4, <1>5

LEMMA WorkerKeepsInv ==
    ASSUME IInv, TypeOK', WorkerStep
    PROVE  IInv' /\ \A a \in Attempts : candidate[a] = "complete" => candidate'[a] = "complete"
<1> USE DEF IInv
<1>1. /\ container.status = "running" /\ UNCHANGED <<dpc, attempt, polls>>
      /\ container'.launch = container.launch
  BY DEF WorkerStep, Advance, BeginExport, EndExport, Audit, OpenPass, ClosePass, StageFails,
     OpenFail, CloseFail, Crash, drivers, AtStage, Enter, Exit, TypeOK
<1>2. Author \in Drivers /\ Launched(Author) /\ Target \in Attempts
  BY <1>1 DEF Progress, TypeOK, Author, Target, Launched
<1>3. Author' = Author /\ Target' = Target /\ \A e \in Drivers : Launched(e)' <=> Launched(e)
  BY <1>1 DEF Author, Target, Launched
<1>4. OneDriver'
  BY <1>1 DEF OneDriver
<1> DEFINE Kept == \A a \in Attempts : candidate[a] = "complete" => candidate'[a] = "complete"
<1> DEFINE Elsewhere == \A a \in Attempts : a # Target =>
                          pass'[a] = pass[a] /\ fail'[a] = fail[a] /\ candidate'[a] = candidate[a]
<1> DEFINE Here == /\ Exists(pass[Target]) => Exists(pass'[Target])
                   /\ Exists(fail[Target]) => Exists(fail'[Target])
                   /\ Exists(pass'[Target]) => /\ pass'[Target].by = Author \/ pass'[Target].by = pass[Target].by
                                               /\ candidate'[Target] = "complete"
                   /\ Exists(fail'[Target]) => fail'[Target].by = Author \/ fail'[Target].by = fail[Target].by
<1>5. Elsewhere /\ Here /\ Kept /\ Progress'
  <2> USE DEF Progress, AtStage, Enter, Exit, Out, TypeOK, Exists
  <2>1. CASE Advance
    <3>1. NextStage[container.stage] \in Early \union {"export"}
      BY <2>1 DEF Advance, NextStage, Early
    <3>2. QED
      BY <1>1, <1>2, <1>3, <2>1, <3>1 DEF Advance, files, Authorship, Early
  <2>2. CASE BeginExport
    BY <1>1, <1>2, <1>3, <2>2 DEF BeginExport, Authorship, Early
  <2>3. CASE EndExport
    BY <1>1, <1>2, <1>3, <2>3 DEF EndExport, AfterExport, Authorship, Early
  <2>4. CASE Audit
    BY <1>1, <1>2, <1>3, <2>4 DEF Audit, Authorship, Early
  <2>5. CASE OpenPass
    BY <1>1, <1>2, <1>3, <2>5, CampaignAssumption DEF OpenPass, Authorship, Early
  <2>6. CASE ClosePass
    BY <1>1, <1>2, <1>3, <2>6 DEF ClosePass, Authorship, Early, File
  <2>7. CASE StageFails
    BY <1>1, <1>2, <1>3, <2>7 DEF StageFails, files, Authorship, Early
  <2>8. CASE OpenFail
    BY <1>1, <1>2, <1>3, <2>8, CampaignAssumption DEF OpenFail, Authorship, Early
  <2>9. CASE CloseFail
    BY <1>1, <1>2, <1>3, <2>9 DEF CloseFail, Authorship, Early, File
  <2>10. CASE Crash
    BY <1>1, <1>2, <1>3, <2>10 DEF Crash, files, Authorship
  <2>11. QED
    BY <2>1, <2>2, <2>3, <2>4, <2>5, <2>6, <2>7, <2>8, <2>9, <2>10 DEF WorkerStep
<1>6. Authorship'
  <2> SUFFICES ASSUME NEW a \in Attempts
               PROVE  /\ Exists(pass'[a]) => attempt[pass'[a].by] = a /\ candidate'[a] = "complete"
                      /\ Exists(fail'[a]) => attempt[fail'[a].by] = a
                      /\ Untouched(a)' \/ \E d \in Drivers : attempt[d] = a /\ Launched(d)
    BY <1>1, <1>3 DEF Authorship, Exists
  <2>1. CASE a = Target
    <3>1. attempt[Author] = a
      BY <2>1 DEF Target
    <3>2. \E d \in Drivers : attempt[d] = a /\ Launched(d)
      BY <1>2, <3>1
    <3>3. Exists(pass'[a]) => attempt[pass'[a].by] = a /\ candidate'[a] = "complete"
      BY <1>5, <2>1, <3>1 DEF Authorship, Exists
    <3>4. Exists(fail'[a]) => attempt[fail'[a].by] = a
      BY <1>5, <2>1, <3>1 DEF Authorship, Exists
    <3>5. QED
      BY <3>2, <3>3, <3>4
  <2>2. CASE a # Target
    BY <1>5, <2>2 DEF Authorship, Untouched, Exists
  <2>3. QED
    BY <2>1, <2>2
<1>7. Evident'
  <2>1. \A a \in Attempts : Exists(pass[a]) => Exists(pass'[a])
    BY <1>5
  <2>2. \A a \in Attempts : Exists(fail[a]) => Exists(fail'[a])
    BY <1>5
  <2>3. ASSUME NEW e \in Drivers, dpc[e] \in {"verdict0", "exit0", "verdict1", "exit1"}
        PROVE  attempt[e] \in Attempts
    BY <2>3 DEF TypeOK
  <2>4. QED
    BY <1>1, <2>1, <2>2, <2>3 DEF Evident, Exists
<1>8. QED
  BY <1>4, <1>5, <1>6, <1>7
-----------------------------------------------------------------------------
LEMMA InvStep ==
    ASSUME FreshAttempts
    PROVE  IInv /\ [Next]_vars =>
              IInv' /\ \A a \in Attempts : candidate[a] = "complete" => candidate'[a] = "complete"
<1> SUFFICES ASSUME IInv, [Next]_vars
             PROVE  IInv' /\ \A a \in Attempts :
                                candidate[a] = "complete" => candidate'[a] = "complete"
  OBVIOUS
<1>1. TypeOK'
  BY TypeStep DEF IInv
<1>2. ASSUME NEW d \in Drivers, NEW a \in Attempts, Start(d, a)
      PROVE  IInv' /\ UNCHANGED candidate
  BY <1>1, <1>2, StartKeepsInv DEF Start, files
<1>3. ASSUME NEW d \in Drivers, DriverStep(d) \/ Killed(d)
      PROVE  IInv' /\ UNCHANGED candidate
  BY <1>1, <1>3, DriverKeepsInv, DriverStepShape DEF IInv, files
<1>4. CASE WorkerStep
  BY <1>1, <1>4, WorkerKeepsInv
<1>5. CASE UNCHANGED vars
  <2>1. UNCHANGED <<dpc, attempt, polls, pass, fail, candidate, container>>
    BY <1>5 DEF vars
  <2>2. OneDriver' /\ Authorship' /\ Progress' /\ Evident'
    BY <2>1 DEF IInv, OneDriver, Authorship, Progress, Evident, Launched, Untouched, Exists,
       Author, Target
  <2>3. QED
    BY <1>1, <2>1, <2>2 DEF IInv
<1>6. QED
  BY <1>2, <1>3, <1>4, <1>5 DEF Next

LEMMA InvImplies ==
    IInv => PassMeansComplete /\ VerdictIsOwn
<1> SUFFICES ASSUME IInv PROVE PassMeansComplete /\ VerdictIsOwn
  OBVIOUS
<1> USE DEF IInv
<1>1. PassMeansComplete
  BY DEF Authorship, PassMeansComplete
<1>2. ASSUME NEW d \in Drivers, dpc[d] \in {"verdict0", "exit0"} PROVE pass[attempt[d]].by = d
  <2>1. attempt[d] \in Attempts /\ Exists(pass[attempt[d]])
    BY <1>2 DEF Evident, TypeOK
  <2>2. pass[attempt[d]].by \in Drivers /\ attempt[pass[attempt[d]].by] = attempt[d]
    BY <2>1 DEF Authorship, TypeOK, File, Exists
  <2>3. QED
    BY <2>1, <2>2, CampaignAssumption DEF OneDriver
<1>3. ASSUME NEW d \in Drivers, dpc[d] \in {"verdict1", "exit1"} PROVE fail[attempt[d]].by = d
  <2>1. attempt[d] \in Attempts /\ Exists(fail[attempt[d]])
    BY <1>3 DEF Evident, TypeOK
  <2>2. fail[attempt[d]].by \in Drivers /\ attempt[fail[attempt[d]].by] = attempt[d]
    BY <2>1 DEF Authorship, TypeOK, File, Exists
  <2>3. QED
    BY <2>1, <2>2, CampaignAssumption DEF OneDriver
<1>4. QED
  BY <1>1, <1>2, <1>3 DEF VerdictIsOwn

(* With fresh attempt ids a PASS sentinel always stands beside a complete  *)
(* candidate, and a driver reports the verdict of its own worker only.     *)
THEOREM VerdictsAreRight ==
    ASSUME FreshAttempts
    PROVE  Spec => [](PassMeansComplete /\ VerdictIsOwn)
<1>1. Init => IInv
  BY InvInit
<1>2. IInv /\ [Next]_vars => IInv'
  BY InvStep
<1>3. QED
  BY <1>1, <1>2, InvImplies, PTL DEF Spec

(* With fresh attempt ids no worker writes to a finished candidate.        *)
THEOREM FinishedCandidateKept ==
    ASSUME FreshAttempts
    PROVE  Spec => CandidateKept
<1>1. Init => IInv
  BY InvInit
<1>2. IInv /\ [Next]_vars => IInv'
  BY InvStep
<1>3. IInv /\ [Next]_vars =>
        [\A a \in Attempts : candidate[a] = "complete" => candidate'[a] = "complete"]_vars
  BY InvStep
<1>4. QED
  BY <1>1, <1>2, <1>3, PTL DEF Spec, CandidateKept
=============================================================================
