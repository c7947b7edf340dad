------------------------------ MODULE ScriptProofs ------------------------------
(***************************************************************************)
(* Theorems about the programs that work with a running server: QualityRun,*)
(* for a set of any size and any number of crashes, and the scripts of     *)
(* Serving, for any number of rungs, repetitions, requests, probes, starts *)
(* and faults.  The two share no name and no variable.                     *)
(***************************************************************************)
EXTENDS QualityRun, Serving, TLAPS

Parses(n) == \A k \in 1 .. n : lines[k] # Junk

(* The part of the file a resume reads holds the first questions in order, *)
(* and a row without newline behind it is the next one.                    *)
FileInv ==
    /\ \A n \in 0 .. Len(lines) : Parses(n) => \A k \in 1 .. n : lines[k] = k
    /\ Parses(Len(lines)) /\ tail \in Questions => tail = Len(lines) + 1

(* The loop never passes a question it has no row for; as long as nothing  *)
(* is broken in the file, it holds what the process holds.                 *)
LoopInv ==
    pc = "collecting" =>
        /\ i <= Len(out) + 1
        /\ Parses(Len(lines)) /\ tail = Clean => Len(lines) = Len(out)

FinalInv ==
    /\ pc \in {"rewriting", "reporting"} => Len(out) = N
    /\ pc \in {"reporting", "done"} => FirstQuestions(lines, N)
    /\ pc \in {"rewriting", "reporting", "done"} => tail = Clean
    /\ summary # <<>> => FirstQuestions(summary, N)

IInv == TypeOK /\ OutIsPrefix /\ FileInv /\ LoopInv /\ FinalInv

LEMMA PrefixLength ==
    ASSUME out \in Seq(Questions), OutIsPrefix
    PROVE  /\ Len(out) \in 0 .. N
           /\ \A q \in Questions : Done(q) <=> q <= Len(out)
<1>1. Len(out) <= N
  <2>1. CASE Len(out) = 0
    BY <2>1, SetAssumption
  <2>2. CASE Len(out) # 0
    <3>1. out[Len(out)] = Len(out) /\ out[Len(out)] \in Questions
      BY <2>2 DEF OutIsPrefix, FirstQuestions
    <3>2. QED
      BY <3>1, SetAssumption DEF Questions
  <2>3. QED
    BY <2>1, <2>2
<1>2. QED
  BY <1>1, SetAssumption DEF OutIsPrefix, FirstQuestions, Done, RowsOf, Questions

LEMMA InvInit == Init => IInv
BY SetAssumption DEF Init, IInv, TypeOK, OutIsPrefix, FileInv, LoopInv, FinalInv, FirstQuestions,
   Parses, Clean, Junk, Questions

(* What a resume reads.                                                    *)
LEMMA StartKeepsInv == IInv /\ Start => IInv'
<1> SUFFICES ASSUME IInv, Start PROVE IInv'
  OBVIOUS
<1> USE SetAssumption DEF IInv
<1>1. PICK n \in 0 .. Len(lines) :
        Parses(n) /\ (n < Len(lines) => lines[n + 1] = Junk) /\ out' = Parsed(n)
  BY DEF Start, Parses
<1>2. /\ pc' = "collecting" /\ i' = 1
      /\ UNCHANGED <<lines, tail, summary, crashes>>
  BY DEF Start, file
<1>3. \A k \in 1 .. n : lines[k] = k
  BY <1>1 DEF FileInv
<1>4. lines \in Seq({Junk} \union Questions)
  BY DEF TypeOK
<1>5. CASE n = Len(lines) /\ tail \in Questions
  <2>1. out' = Append(lines, tail) /\ tail = n + 1
    BY <1>1, <1>5 DEF Parsed, FileInv
  <2>2. \A k \in 1 .. n : lines[k] \in Questions
    BY <1>1, <1>4, <1>5 DEF Parses, Junk
  <2>3. out' \in Seq(Questions) /\ OutIsPrefix'
    BY <1>3, <1>4, <1>5, <2>1, <2>2 DEF OutIsPrefix, FirstQuestions, Questions
  <2>4. tail # Clean
    BY <1>5 DEF Clean, Questions
  <2>5. QED
    BY <1>2, <2>3, <2>4 DEF TypeOK, FileInv, LoopInv, FinalInv, Parses, FirstQuestions
<1>6. CASE ~(n = Len(lines) /\ tail \in Questions)
  <2>1. out' = SubSeq(lines, 1, n)
    BY <1>1, <1>6 DEF Parsed
  <2>2. Len(out') = n /\ \A k \in 1 .. n : out'[k] = lines[k]
    BY <1>4, <2>1
  <2>3. \A k \in 1 .. n : lines[k] \in Questions
    BY <1>1, <1>4 DEF Parses, Junk
  <2>4. out' \in Seq(Questions)
    BY <1>4, <2>1, <2>3
  <2>5. OutIsPrefix'
    BY <1>3, <2>2 DEF OutIsPrefix, FirstQuestions
  <2>6. Parses(Len(lines)) => n = Len(lines)
    BY <1>1, <1>4 DEF Parses
  <2>7. TypeOK' /\ FinalInv'
    BY <1>2, <2>4 DEF TypeOK, FinalInv, FirstQuestions
  <2>8. FileInv'
    BY <1>2 DEF FileInv, Parses
  <2>9. LoopInv'
    BY <1>2, <2>2, <2>6 DEF LoopInv, Parses
  <2>10. QED
    BY <2>5, <2>7, <2>8, <2>9
<1>7. QED
  BY <1>5, <1>6

(* A question that is asked is the one after the rows in memory.           *)
LEMMA CollectKeepsInv == IInv /\ Collect => IInv'
<1> SUFFICES ASSUME IInv, Collect PROVE IInv'
  OBVIOUS
<1> USE SetAssumption DEF IInv
<1>1. /\ pc = "collecting" /\ UNCHANGED <<pc, summary, crashes>>
      /\ i <= N /\ ~Done(i)
      /\ out' = Append(out, i) /\ i' = i + 1 /\ tail' = Clean
      /\ lines' = Append(lines, IF tail = Clean THEN i ELSE Junk)
  BY DEF Collect
<1>2. i \in Questions /\ i = Len(out) + 1
  BY <1>1, PrefixLength DEF TypeOK, LoopInv, Questions
<1>3. out' \in Seq(Questions) /\ OutIsPrefix' /\ Len(out') = Len(out) + 1
  BY <1>1, <1>2 DEF TypeOK, OutIsPrefix, FirstQuestions
<1>4. lines \in Seq({Junk} \union Questions)
  BY DEF TypeOK
<1>5. /\ lines' \in Seq({Junk} \union Questions) /\ Len(lines') = Len(lines) + 1
      /\ \A k \in 1 .. Len(lines) : lines'[k] = lines[k]
      /\ lines'[Len(lines) + 1] = IF tail = Clean THEN i ELSE Junk
  BY <1>1, <1>2, <1>4
<1>6. Parses(Len(lines))' => tail = Clean /\ Parses(Len(lines))
  <2>1. Parses(Len(lines))' => tail = Clean
    BY <1>4, <1>5 DEF Parses
  <2>2. Parses(Len(lines))' => Parses(Len(lines))
    BY <1>4, <1>5 DEF Parses
  <2>3. QED
    BY <2>1, <2>2
<1>7. FileInv'
  <2> SUFFICES ASSUME NEW n \in 0 .. Len(lines'), Parses(n)', NEW k \in 1 .. n
               PROVE  lines'[k] = k
    BY <1>1 DEF FileInv, Clean, Questions
  <2>1. CASE n <= Len(lines)
    <3>1. Parses(n)
      BY <1>4, <1>5, <2>1 DEF Parses
    <3>2. QED
      BY <1>4, <1>5, <2>1, <3>1 DEF FileInv
  <2>2. CASE n = Len(lines) + 1
    <3>1. tail = Clean /\ Parses(Len(lines))
      BY <1>4, <1>5, <1>6, <2>2
    <3>2. Len(lines) = Len(out)
      BY <1>1, <3>1 DEF LoopInv
    <3>3. \A m \in 1 .. Len(lines) : lines[m] = m
      BY <1>4, <3>1 DEF FileInv
    <3>4. QED
      BY <1>2, <1>4, <1>5, <2>2, <3>1, <3>2, <3>3
  <2>3. QED
    BY <1>4, <1>5, <2>1, <2>2
<1>8. LoopInv'
  BY <1>1, <1>2, <1>3, <1>5, <1>6 DEF LoopInv, TypeOK
<1>9. TypeOK'
  BY <1>1, <1>2, <1>3, <1>5 DEF TypeOK, Questions
<1>10. FinalInv'
  BY <1>1 DEF FinalInv, FirstQuestions
<1>11. QED
  BY <1>3, <1>7, <1>8, <1>9, <1>10

(* What the crash in the middle of an append leaves.                       *)
LEMMA CrashAppendingKeepsInv == IInv /\ CrashAppending => IInv'
<1> SUFFICES ASSUME IInv, CrashAppending PROVE IInv'
  OBVIOUS
<1> USE SetAssumption DEF IInv
<1>1. /\ pc = "collecting" /\ pc' = "down" /\ i <= N /\ ~Done(i)
      /\ out' = <<>> /\ i' = 1 /\ UNCHANGED <<lines, summary>>
      /\ crashes < MaxCrashes /\ crashes' = crashes + 1
      /\ tail' = Junk \/ (tail = Clean /\ tail' = i)
  BY DEF CrashAppending, Die
<1>2. i \in Questions /\ i = Len(out) + 1
  BY <1>1, PrefixLength DEF TypeOK, LoopInv, Questions
<1>3. TypeOK'
  BY <1>1, <1>2 DEF TypeOK, Questions
<1>4. FileInv'
  <2>1. tail' \in Questions => tail = Clean /\ tail' = Len(out) + 1
    BY <1>1, <1>2 DEF Questions, Junk
  <2>2. QED
    BY <1>1, <2>1 DEF FileInv, LoopInv, Parses
<1>5. QED
  BY <1>1, <1>3, <1>4 DEF OutIsPrefix, FirstQuestions, LoopInv, FinalInv

(* What the crash in the middle of the rewrite leaves.                     *)
LEMMA CrashRewritingKeepsInv == IInv /\ CrashRewriting => IInv'
<1> SUFFICES ASSUME IInv, CrashRewriting PROVE IInv'
  OBVIOUS
<1> USE SetAssumption DEF IInv
<1>1. /\ pc' = "down" /\ out' = <<>> /\ i' = 1 /\ UNCHANGED summary
      /\ crashes < MaxCrashes /\ crashes' = crashes + 1
  BY DEF CrashRewriting, Die
<1>2. PICK n \in 0 .. Len(out) :
        /\ lines' = SubSeq(out, 1, n)
        /\ tail' \in {Clean} \union (IF n < Len(out) THEN {Junk, out[n + 1]} ELSE {})
  BY DEF CrashRewriting
<1>3. out \in Seq(Questions) /\ \A k \in 1 .. Len(out) : out[k] = k
  BY DEF TypeOK, OutIsPrefix, FirstQuestions
<1>4. lines' \in Seq(Questions) /\ Len(lines') = n /\ \A k \in 1 .. n : lines'[k] = k
  BY <1>2, <1>3
<1>5. tail' \in {Clean, Junk} \/ (n < Len(out) /\ tail' = n + 1)
  BY <1>2, <1>3
<1>6. TypeOK'
  <2>1. Len(out) <= N
    BY <1>3, PrefixLength
  <2>2. tail' \in {Clean, Junk} \union Questions
    BY <1>3, <1>5, <2>1 DEF Questions
  <2>3. lines' \in Seq({Junk} \union Questions)
    BY <1>4
  <2>4. QED
    BY <1>1, <2>2, <2>3 DEF TypeOK
<1>7. FileInv'
  BY <1>4, <1>5 DEF FileInv, Clean, Junk, Questions
<1>8. QED
  BY <1>1, <1>6, <1>7 DEF OutIsPrefix, FirstQuestions, LoopInv, FinalInv

LEMMA InvStep == IInv /\ [Next]_vars => IInv'
<1> SUFFICES ASSUME IInv, [Next]_vars PROVE IInv'
  OBVIOUS
<1> USE SetAssumption
<1>1. CASE Skip
  <2>1. i <= Len(out) /\ i \in Questions
    BY <1>1, PrefixLength DEF Skip, IInv, TypeOK, Questions
  <2>2. QED
    BY <1>1, <2>1 DEF Skip, file, IInv, TypeOK, OutIsPrefix, FileInv, LoopInv, FinalInv, Parses,
       FirstQuestions, Questions
<1>2. CASE Truncate
  <2>1. Len(out) = N
    BY <1>2, PrefixLength DEF Truncate, IInv, TypeOK, LoopInv
  <2>2. QED
    BY <1>2, <2>1 DEF Truncate, IInv, TypeOK, OutIsPrefix, FileInv, LoopInv, FinalInv, Parses,
       FirstQuestions, Clean, Junk, Questions
<1>3. CASE Rewrite
  <2>1. lines' = out /\ Len(out) = N /\ tail' = Clean /\ FirstQuestions(out, N)
    BY <1>3 DEF Rewrite, IInv, FinalInv, OutIsPrefix
  <2>2. FileInv'
    BY <2>1 DEF FileInv, FirstQuestions, Clean, Questions
  <2>3. QED
    BY <1>3, <2>1, <2>2 DEF Rewrite, IInv, TypeOK, OutIsPrefix, LoopInv, FinalInv, FirstQuestions
<1>4. CASE Report
  BY <1>4 DEF Report, file, IInv, TypeOK, OutIsPrefix, FileInv, LoopInv, FinalInv, Parses,
     FirstQuestions
<1>5. CASE Crash
  BY <1>5 DEF Crash, Die, file, IInv, TypeOK, OutIsPrefix, FileInv, LoopInv, FinalInv, Parses,
     FirstQuestions
<1>6. CASE UNCHANGED vars
  BY <1>6 DEF vars, IInv, TypeOK, OutIsPrefix, FileInv, LoopInv, FinalInv, Parses, FirstQuestions
<1>7. QED
  BY <1>1, <1>2, <1>3, <1>4, <1>5, <1>6, StartKeepsInv, CollectKeepsInv,
     CrashAppendingKeepsInv, CrashRewritingKeepsInv DEF Next

(* However often the run dies, the rows in memory are a prefix of the set, *)
(* and what is published reports every question exactly once.              *)
THEOREM RunIsComplete == Spec => [](OutIsPrefix /\ ReportComplete)
<1>1. IInv => OutIsPrefix /\ ReportComplete
  BY DEF IInv, FinalInv, ReportComplete
<1>2. QED
  BY <1>1, InvInit, InvStep, PTL DEF Spec
-----------------------------------------------------------------------------
(* What the first crash can have done: nothing is torn before it, and what *)
(* it tears is glued to a row that the process has in memory.              *)
OnceTorn ==
    /\ crashes = 0 => Parses(Len(lines)) /\ tail = Clean
    /\ crashes <= 1 /\ pc # "collecting" => Parses(Len(lines))
    /\ crashes <= 1 /\ pc = "collecting" =>
          \A k \in 1 .. Len(lines) : lines[k] # Junk => lines[k] \in RowsOf(out)

LEMMA OnceTornStep == IInv /\ OnceTorn /\ [Next]_vars => OnceTorn'
<1> SUFFICES ASSUME IInv, OnceTorn, [Next]_vars PROVE OnceTorn'
  OBVIOUS
<1> USE SetAssumption
<1>0. /\ lines \in Seq({Junk} \union Questions) /\ out \in Seq(Questions) /\ crashes \in Nat
  BY DEF IInv, TypeOK
<1>1. CASE Start
  <2>1. PICK n \in 0 .. Len(lines) :
          Parses(n) /\ (n < Len(lines) => lines[n + 1] = Junk) /\ out' = Parsed(n)
    BY <1>1 DEF Start, Parses
  <2>2. /\ pc # "collecting" /\ pc' = "collecting" /\ UNCHANGED <<lines, tail, crashes>>
    BY <1>1 DEF Start, file
  <2>3. ASSUME crashes <= 1, NEW k \in 1 .. Len(lines) PROVE lines[k] \in RowsOf(out')
    <3>1. n = Len(lines)
      BY <1>0, <2>1, <2>2, <2>3 DEF OnceTorn, Parses
    <3>2. CASE tail \in Questions
      <4>1. out' = Append(lines, tail)
        BY <2>1, <3>1, <3>2 DEF Parsed
      <4>2. k \in DOMAIN out' /\ out'[k] = lines[k]
        BY <1>0, <3>2, <4>1 DEF Questions
      <4> QED
        BY <4>2 DEF RowsOf
    <3>3. CASE tail \notin Questions
      <4>1. out' = SubSeq(lines, 1, Len(lines))
        BY <2>1, <3>1, <3>3 DEF Parsed
      <4>2. k \in DOMAIN out' /\ out'[k] = lines[k]
        BY <1>0, <4>1
      <4> QED
        BY <4>2 DEF RowsOf
    <3> QED
      BY <3>2, <3>3
  <2>4. RowsOf(out)' = RowsOf(out')
    BY DEF RowsOf
  <2> QED
    BY <2>2, <2>3, <2>4 DEF OnceTorn, Parses
<1>2. CASE Collect
  <2>1. /\ pc = "collecting" /\ UNCHANGED <<pc, crashes>> /\ i \in Questions
        /\ out' = Append(out, i) /\ tail' = Clean
        /\ lines' = Append(lines, IF tail = Clean THEN i ELSE Junk)
    BY <1>2 DEF Collect, IInv, TypeOK, Questions
  <2>2. RowsOf(out)' = RowsOf(out) \union {i}
    BY <1>0, <2>1 DEF RowsOf
  <2>3. /\ Len(lines') = Len(lines) + 1 /\ lines'[Len(lines) + 1] \in {i, Junk}
        /\ \A k \in 1 .. Len(lines) : lines'[k] = lines[k]
        /\ tail = Clean => lines'[Len(lines) + 1] = i
    BY <1>0, <2>1
  <2>4. crashes = 0 => Parses(Len(lines))'
    BY <1>0, <2>1, <2>3 DEF OnceTorn, Parses, Questions, Junk
  <2> QED
    BY <1>0, <2>1, <2>2, <2>3, <2>4 DEF OnceTorn
<1>3. CASE Skip
  BY <1>3 DEF Skip, file, OnceTorn, Parses, RowsOf
<1>4. CASE Truncate
  BY <1>4 DEF Truncate, OnceTorn, Parses
<1>5. CASE Rewrite
  <2>1. \A k \in 1 .. Len(out) : out[k] # Junk
    BY <1>0 DEF Questions, Junk
  <2> QED
    BY <1>5, <2>1 DEF Rewrite, OnceTorn, Parses
<1>6. CASE Report
  BY <1>6 DEF Report, file, OnceTorn, Parses
<1>7. CASE Crash \/ CrashAppending
  <2>1. UNCHANGED lines /\ crashes' = crashes + 1 /\ pc' = "down"
    BY <1>7 DEF Crash, CrashAppending, Die, file
  <2> QED
    BY <1>0, <2>1 DEF OnceTorn, Parses
<1>8. CASE CrashRewriting
  <2>1. PICK n \in 0 .. Len(out) : lines' = SubSeq(out, 1, n)
    BY <1>8 DEF CrashRewriting
  <2>2. crashes' = crashes + 1 /\ pc' = "down"
    BY <1>8 DEF CrashRewriting, Die
  <2>3. Parses(Len(lines))'
    BY <1>0, <2>1 DEF Parses, Questions, Junk
  <2> QED
    BY <1>0, <2>2, <2>3 DEF OnceTorn
<1>9. CASE UNCHANGED vars
  BY <1>9 DEF vars, OnceTorn, Parses, RowsOf
<1> QED
  BY <1>1, <1>2, <1>3, <1>4, <1>5, <1>6, <1>7, <1>8, <1>9 DEF Next

(* Only Collect appends to the rows in memory, and it asks for a row that  *)
(* is not among them.                                                      *)
LEMMA AsksOnce ==
    ASSUME IInv, OnceTorn, [Next]_vars, NEW q \in Questions,
           out' = Append(out, q), pc = "collecting", crashes <= 1
    PROVE  q \notin RowsOf(lines)
<1>1. out \in Seq(Questions) /\ lines \in Seq({Junk} \union Questions)
  BY DEF IInv, TypeOK
<1>2. out' # out /\ out' # <<>> /\ Len(out') = Len(out) + 1 /\ out'[Len(out) + 1] = q
  BY <1>1
<1>3. Collect
  BY <1>2 DEF Next, Start, Skip, Truncate, Rewrite, Report, Crash, CrashAppending,
     CrashRewriting, Die, vars
<1>4. q = i /\ q \notin RowsOf(out)
  BY <1>1, <1>2, <1>3 DEF Collect, Done
<1>5. q # Junk
  BY DEF Questions, Junk
<1> QED
  BY <1>1, <1>4, <1>5 DEF OnceTorn, RowsOf

(* Resume support (run_quality_set.py:113): up to the second crash, a row  *)
(* that is in the file is not asked for again.                             *)
THEOREM NoRowIsAskedAgain == Spec => NotAskedAgainAfterOneCrash
<1>1. Init => OnceTorn
  BY DEF Init, OnceTorn, Parses, Clean
<1>2. IInv /\ OnceTorn /\ [Next]_vars =>
        [\A q \in Questions : out' = Append(out, q) /\ pc = "collecting" /\ crashes <= 1
            => q \notin RowsOf(lines)]_vars
  BY AsksOnce
<1> QED
  BY InvInit, InvStep, OnceTornStep, <1>1, <1>2, PTL DEF Spec, NotAskedAgainAfterOneCrash
-----------------------------------------------------------------------------
(***************************************************************************)
(* Serving.                                                                *)
(***************************************************************************)

(* The places a script can be in.                                          *)
LaunchPlaces == {"remove", "run", "probe", "inspect", "gate", "write", "verdict"}
ClickPlaces == {"idle", "tree", "serve"} \union LaunchPlaces
LadderPlaces == {"idle", "next"} \union LaunchPlaces
PerfPlaces == {"idle", "setup", "health", "bench", "copy", "print"}

Measurements == {None} \union [kind : {"perf"}, run : Nat, rep : Nat]
Containers == [launch : Nat, state : {"loading", "healthy", "down"}, restarts : BOOLEAN,
               results : [1 .. Reps -> Measurements]]
Verdicts == {None, Torn} \union [kind : {"gate"}, passed : BOOLEAN, from : SUBSET Nat]

Placed ==
    /\ DOMAIN at = Scripts
    /\ at["click"] \in ClickPlaces /\ at["ladder"] \in LadderPlaces /\ at["perf"] \in PerfPlaces

ServingTypes ==
    /\ Placed
    /\ Up => container \in Containers
    /\ launches \in Nat /\ own \in [Scripts -> 0 .. launches]
    /\ run \in [Scripts -> Nat] /\ starts \in Nat /\ count \in [Scripts -> Nat]
    /\ rung \in 1 .. Rungs
    /\ answers \in [Scripts -> [asked : Nat, right : BOOLEAN, from : SUBSET Nat]]
    /\ verdicts \in [GateFiles -> Verdicts]
    /\ results \in [1 .. Reps -> Measurements]
    /\ exit \in [Scripts -> Nat]

OneAtATime == alone => \A s, t \in Scripts : Idle(s) \/ Idle(t) \/ s = t

(* What was answered since the last launch of a script.                    *)
Since(s, from) == (\A l \in from : l >= own[s]) /\ (alone => from \subseteq {own[s]})

Answering(s) == at[s] \in {"probe", "inspect", "gate", "write"}

(* From its launch on a script meets no container older than its own.      *)
ContainerIsRecent ==
    \A s \in Launchers : Answering(s) /\ Up => Since(s, {container.launch})

AnswersAreRecent ==
    \A s \in Launchers : at[s] \in {"gate", "write"} =>
        /\ Since(s, answers[s].from)
        /\ answers[s].asked > 0 => answers[s].from # {}
        /\ at[s] = "write" => answers[s].asked = Requests

(* A verdict that is about to be read is of the gate that has just ended.  *)
VerdictIsRecent ==
    \A s \in Launchers :
        /\ at[s] = "verdict" /\ (s = "click" \/ FreshTags)
        /\ verdicts[GateFile(s)].kind = "gate"
        => verdicts[GateFile(s)].from # {} /\ Since(s, verdicts[GateFile(s)].from)

(* Under a tag of its own a ladder finds no verdict for a rung that has    *)
(* not been judged.                                                        *)
LadderIsClean ==
    FreshTags /\ ~Idle("ladder") =>
        \A f \in 1 .. Rungs :
            f > rung \/ (f = rung /\ at["ladder"] \notin {"verdict", "next"})
                => verdicts[f].kind # "gate"

(* What the suite has measured in its present or last run.                 *)
Measured(r) == [kind |-> "perf", run |-> run["perf"], rep |-> r]

ResultsAreOwn ==
    /\ ~Idle("perf") => count["perf"] \in 1 .. Reps
    /\ FreshTags => \A r \in 1 .. Reps :
          /\ results[r] \in {None, Measured(r)}
          /\ Up => container.results[r] \in {None, Measured(r)}

ReportIsOwn == FreshTags => VerdictIsOwn /\ ThroughputIsOwn

ServingInv ==
    /\ ServingTypes /\ OneAtATime
    /\ ContainerIsRecent /\ AnswersAreRecent /\ VerdictIsRecent /\ LadderIsClean
    /\ ResultsAreOwn
    /\ ReportIsOwn /\ SuccessIsMeasured
-----------------------------------------------------------------------------
LEMMA ServingInitially == ServingInit => ServingInv
<1> SUFFICES ASSUME ServingInit PROVE ServingInv
  OBVIOUS
<1> USE ServingAssumption DEF ServingInit, Idle, Scripts, Launchers
<1>1. ServingTypes
  BY DEF ServingTypes, Placed, ClickPlaces, LadderPlaces, PerfPlaces, Up, NoAnswers,
         Measurements, Verdicts, GateFiles
<1>2. OneAtATime /\ ContainerIsRecent /\ AnswersAreRecent /\ VerdictIsRecent
  BY DEF OneAtATime, ContainerIsRecent, Answering, AnswersAreRecent, VerdictIsRecent
<1>3. LadderIsClean /\ ResultsAreOwn
  BY DEF LadderIsClean, ResultsAreOwn, Up
<1>4. report.kind = "none"
  BY DEF None
<1>5. ReportIsOwn /\ SuccessIsMeasured
  BY <1>4 DEF ReportIsOwn, VerdictIsOwn, ThroughputIsOwn, SuccessIsMeasured
<1> QED
  BY <1>1, <1>2, <1>3, <1>5 DEF ServingInv

(* What a step of a script does to the places.                             *)
LEMMA Moved ==
    ASSUME Placed, NEW s \in Scripts, NEW from, NEW to, Goto(s, from, to)
    PROVE  /\ at[s] = from /\ at'[s] = to /\ alone' = alone /\ DOMAIN at' = Scripts
           /\ \A t \in Scripts : t # s => at'[t] = at[t]
           /\ \A t \in Scripts : t # s => (Idle(t)' <=> Idle(t))
           /\ Idle(s)' <=> to = "idle"
BY DEF Goto, Placed, Idle

LEMMA StaysAlone ==
    ASSUME Placed, OneAtATime, NEW s \in Scripts, NEW from, NEW to, Goto(s, from, to),
           from # "idle"
    PROVE  OneAtATime'
BY Moved DEF OneAtATime, Idle

(* A script that only moves on, or ends without success.                   *)
LEMMA MovesOn ==
    ASSUME ServingInv, NEW s \in Scripts, NEW from, NEW to, Goto(s, from, to),
           from \notin {"idle", "verdict", "next"},
           to \notin {"gate", "write", "next"},
           to = "verdict" => s = "ladder" /\ from \in {"gate", "write"},
           answers' = answers \/ answers' = [answers EXCEPT ![s] = NoAnswers],
           to \in {"probe", "inspect"} => from \in {"probe", "inspect"},
           Placed', count' \in [Scripts -> Nat], s = "perf" => count' = count,
           s # "perf" => count'["perf"] = count["perf"],
           exit' \in [Scripts -> Nat], s # "click" => exit'["click"] = exit["click"],
           s = "click" /\ to = "idle" => exit'["click"] # 0,
           UNCHANGED <<container, run, own, rung, starts, fileVars, launches>>
    PROVE  ServingInv'
<1> USE DEF ServingInv
<1>1. /\ at[s] = from /\ at'[s] = to /\ alone' = alone
      /\ \A t \in Scripts : t # s => at'[t] = at[t]
      /\ \A t \in Scripts : t # s => (Idle(t)' <=> Idle(t))
      /\ Idle(s)' <=> to = "idle"
  BY Moved DEF ServingTypes
<1>2. ServingTypes'
  <2>1. NoAnswers \in [asked : Nat, right : BOOLEAN, from : SUBSET Nat]
    BY DEF NoAnswers
  <2>2. answers' \in [Scripts -> [asked : Nat, right : BOOLEAN, from : SUBSET Nat]]
    BY <2>1 DEF ServingTypes
  <2> QED
    BY <2>2 DEF ServingTypes, fileVars, Up
<1>3. OneAtATime'
  BY StaysAlone DEF ServingTypes
<1>4. \A t \in Scripts : t # s => answers'[t] = answers[t]
  BY DEF ServingTypes
<1>5. ContainerIsRecent' /\ AnswersAreRecent'
  BY <1>1, <1>4 DEF ContainerIsRecent, AnswersAreRecent, Answering, Since, Up, Launchers, Scripts
<1>6. VerdictIsRecent' /\ LadderIsClean'
  <2>1. VerdictIsRecent'
    <3>1. CASE to # "verdict"
      BY <1>1, <3>1 DEF VerdictIsRecent, Since, Launchers, Scripts, GateFile, fileVars
    <3>2. CASE to = "verdict"
      <4>1. FreshTags => verdicts[rung].kind # "gate"
        BY <1>1, <3>2 DEF LadderIsClean, Idle, ServingTypes
      <4> QED
        BY <1>1, <3>2, <4>1 DEF VerdictIsRecent, Since, Launchers, Scripts, GateFile, fileVars
    <3> QED
      BY <3>1, <3>2
  <2>2. LadderIsClean'
    BY <1>1 DEF LadderIsClean, Scripts, Launchers, fileVars, Idle
  <2> QED
    BY <2>1, <2>2
<1>7. ResultsAreOwn'
  BY <1>1 DEF ResultsAreOwn, Measured, Up, fileVars, Idle, Scripts
<1>8. ReportIsOwn'
  BY <1>1 DEF ReportIsOwn, VerdictIsOwn, ThroughputIsOwn, fileVars
<1>9. SuccessIsMeasured'
  BY <1>1 DEF SuccessIsMeasured, fileVars, Scripts, Launchers
<1> QED
  BY <1>2, <1>3, <1>5, <1>6, <1>7, <1>8, <1>9
-----------------------------------------------------------------------------
(* The steps of that kind.                                                 *)
LEMMA Passing ==
    ASSUME ServingInv, NEW s \in Scripts,
           \/ s = "click" /\ Click
           \/ s \in Launchers /\ (Inspect(s) \/ ReadyTimeout(s))
           \/ s = "perf" /\ PerfHealth(s)
    PROVE  ServingInv'
<1> USE DEF Scripts, Launchers
<1>1. Placed /\ count \in [Scripts -> Nat] /\ exit \in [Scripts -> Nat]
  BY DEF ServingInv, ServingTypes
<1>2. CASE s = "click" /\ Click
  <2>1. PICK from \in {"tree", "serve"}, to \in {"idle", "tree", "serve", "remove"} :
           /\ Goto(s, from, to)
           /\ \/ exit' = exit /\ to # "idle"
              \/ \E code \in Nat : code # 0 /\ exit' = [exit EXCEPT ![s] = code]
    BY <1>2 DEF Click, Download, CheckTree, ServeChecks, Stop
  <2>2. UNCHANGED <<container, run, own, count, rung, answers, starts, fileVars, launches>>
    BY <1>2 DEF Click, Download, CheckTree, ServeChecks
  <2>3. Placed'
    BY <1>1, <1>2, <2>1, Moved DEF Placed, ClickPlaces, LaunchPlaces
  <2>4. exit' \in [Scripts -> Nat] /\ (to = "idle" => exit'["click"] # 0)
    BY <1>1, <1>2, <2>1
  <2> QED
    BY <1>1, <1>2, <2>1, <2>2, <2>3, <2>4, MovesOn
<1>3. CASE s \in Launchers /\ (Inspect(s) \/ ReadyTimeout(s))
  <2>1. PICK from \in {"inspect", "probe"}, to \in {"idle", "probe"} :
           /\ Goto(s, from, to)
           /\ \/ exit' = exit /\ to # "idle"
              \/ \E code \in Nat : code # 0 /\ exit' = [exit EXCEPT ![s] = code]
    BY <1>3 DEF Inspect, ReadyTimeout, Stop
  <2>2. /\ UNCHANGED <<container, run, own, rung, answers, starts, fileVars, launches>>
        /\ count' \in [Scripts -> Nat] /\ count'["perf"] = count["perf"]
    BY <1>1, <1>3 DEF Inspect, ReadyTimeout
  <2>3. Placed'
    BY <1>1, <1>3, <2>1, Moved DEF Placed, ClickPlaces, LadderPlaces, LaunchPlaces
  <2>4. /\ exit' \in [Scripts -> Nat] /\ (s # "click" => exit'["click"] = exit["click"])
        /\ s = "click" /\ to = "idle" => exit'["click"] # 0
    BY <1>1, <1>3, <2>1
  <2> QED
    BY <1>1, <1>3, <2>1, <2>2, <2>3, <2>4, MovesOn
<1>4. CASE s = "perf" /\ PerfHealth(s)
  <2>1. PICK from \in {"setup", "health"}, to \in {"idle", "health", "bench"} :
           /\ Goto(s, from, to)
           /\ exit' = exit \/ \E code \in Nat : exit' = [exit EXCEPT ![s] = code]
    BY <1>4 DEF PerfHealth, Stop
  <2>2. UNCHANGED <<container, run, own, count, rung, answers, starts, fileVars, launches>>
    BY <1>4 DEF PerfHealth, PerfStep, fileVars
  <2>3. Placed'
    BY <1>1, <1>4, <2>1, Moved DEF Placed, PerfPlaces
  <2>4. exit' \in [Scripts -> Nat] /\ exit'["click"] = exit["click"]
    BY <1>1, <1>4, <2>1
  <2> QED
    BY <1>1, <1>4, <2>1, <2>2, <2>3, <2>4, MovesOn
<1> QED
  BY <1>2, <1>3, <1>4
-----------------------------------------------------------------------------
(* A script starts: nobody else runs, or the operator does not care; the   *)
(* ladder's verdicts and the suite's results are those of a new tag.       *)
LEMMA StartsClean ==
    ASSUME ServingInv, NEW s \in Scripts, StartScript(s)
    PROVE  ServingInv'
<1> USE DEF ServingInv, Scripts, Launchers
<1>1. /\ Goto(s, "idle", FirstStep(s)) /\ starts' = starts + 1
      /\ alone => \A t \in Scripts : Idle(t)
      /\ run' = [run EXCEPT ![s] = starts + 1]
      /\ count' = [count EXCEPT ![s] = IF s = "perf" THEN 1 ELSE 0]
      /\ UNCHANGED <<own, answers, exit, report, launches>>
  BY DEF StartScript
<1>2. FirstStep(s) = IF s = "click" THEN "tree" ELSE IF s = "ladder" THEN "remove" ELSE "setup"
  BY DEF FirstStep
<1>3. /\ rung' = IF s = "ladder" THEN 1 ELSE rung
      /\ verdicts' = IF s = "ladder" /\ FreshTags
                     THEN [f \in GateFiles |-> IF f = 0 THEN verdicts[0] ELSE None]
                     ELSE verdicts
      /\ results' = IF s = "perf" /\ FreshTags THEN [r \in 1 .. Reps |-> None] ELSE results
      /\ container' = IF s = "perf" /\ FreshTags /\ Up
                      THEN [container EXCEPT !.results = [r \in 1 .. Reps |-> None]]
                      ELSE container
  BY DEF StartScript
<1>4. /\ at[s] = "idle" /\ at'[s] = FirstStep(s) /\ alone' = alone /\ DOMAIN at' = Scripts
      /\ \A t \in Scripts : t # s => at'[t] = at[t] /\ (Idle(t)' <=> Idle(t))
  BY <1>1, Moved DEF ServingTypes
<1>5. /\ Up' => Up /\ container'.launch = container.launch /\ container' \in Containers
      /\ Up' => \A r \in 1 .. Reps : container'.results[r] = None
                                     \/ (~(s = "perf" /\ FreshTags)
                                         /\ container'.results[r] = container.results[r])
  <2>1. CASE s = "perf" /\ FreshTags /\ Up
    BY <1>3, <2>1 DEF Containers, ServingTypes, Measurements
  <2>2. CASE ~(s = "perf" /\ FreshTags /\ Up)
    BY <1>3, <2>2 DEF ServingTypes, Up
  <2> QED
    BY <2>1, <2>2
<1>6. ServingTypes'
  <2>1. Placed'
    BY <1>2, <1>4 DEF ServingTypes, Placed, ClickPlaces, LadderPlaces, LaunchPlaces, PerfPlaces
  <2>2. verdicts' \in [GateFiles -> Verdicts] /\ results' \in [1 .. Reps -> Measurements]
    BY <1>3 DEF ServingTypes, GateFiles, Verdicts, Measurements
  <2>3. rung \in 1 .. Rungs /\ 1 \in 1 .. Rungs
    BY ServingAssumption DEF ServingTypes
  <2>4. starts' \in Nat /\ run' \in [Scripts -> Nat]
    BY <1>1 DEF ServingTypes
  <2>5. count' \in [Scripts -> Nat]
    BY <1>1 DEF ServingTypes
  <2> QED
    BY <1>1, <1>3, <1>5, <2>1, <2>2, <2>3, <2>4, <2>5 DEF ServingTypes
<1>7. OneAtATime'
  BY <1>1, <1>4 DEF OneAtATime
<1>8. ContainerIsRecent' /\ AnswersAreRecent'
  BY <1>1, <1>2, <1>4, <1>5 DEF ContainerIsRecent, AnswersAreRecent, Answering, Since
<1>9. verdicts'[0] = verdicts[0]
  BY <1>3 DEF GateFiles
<1>10. VerdictIsRecent'
  BY <1>1, <1>2, <1>3, <1>4, <1>9 DEF VerdictIsRecent, Since, GateFile
<1>11. LadderIsClean'
  BY <1>2, <1>3, <1>4 DEF LadderIsClean, GateFiles, None
<1>12. ResultsAreOwn'
  <2>1. s # "perf" => run'["perf"] = run["perf"] /\ count'["perf"] = count["perf"]
    BY <1>1 DEF ServingTypes
  <2>2. s = "perf" => count'["perf"] = 1
    BY <1>1 DEF ServingTypes
  <2> QED
    BY <1>3, <1>4, <1>5, <2>1, <2>2, ServingAssumption DEF ResultsAreOwn, Measured
<1>13. ReportIsOwn'
  BY <1>1, <1>4 DEF ReportIsOwn, VerdictIsOwn, ThroughputIsOwn
<1>14. SuccessIsMeasured'
  <2>1. s # "click" => run'["click"] = run["click"]
    BY <1>1 DEF ServingTypes
  <2>2. s = "click" => ~Idle("click")'
    BY <1>2, <1>4 DEF Idle
  <2> QED
    BY <1>1, <1>4, <1>9, <2>1, <2>2 DEF SuccessIsMeasured
<1> QED
  BY <1>6, <1>7, <1>8, <1>10, <1>11, <1>12, <1>13, <1>14
-----------------------------------------------------------------------------
(* Launching.                                                              *)
LEMMA Removes ==
    ASSUME ServingInv, NEW s \in Launchers, RemoveContainer(s)
    PROVE  ServingInv'
<1> USE DEF ServingInv, Scripts, Launchers
<1>1. /\ Goto(s, "remove", "run")
      /\ UNCHANGED <<run, own, count, rung, answers, exit, starts, fileVars, launches>>
      /\ container' = None \/ container' = container
  BY DEF RemoveContainer, scriptVars
<1>2. /\ at[s] = "remove" /\ at'[s] = "run" /\ alone' = alone /\ DOMAIN at' = Scripts
      /\ \A t \in Scripts : t # s => at'[t] = at[t] /\ (Idle(t)' <=> Idle(t))
      /\ ~Idle(s) /\ ~Idle(s)'
  BY <1>1, Moved DEF ServingTypes, Idle
<1>3. Up' => Up /\ container' = container
  BY <1>1 DEF Up
<1>4. ServingTypes'
  <2>1. Placed'
    BY <1>2 DEF ServingTypes, Placed, ClickPlaces, LadderPlaces, LaunchPlaces
  <2> QED
    BY <1>1, <1>3, <2>1 DEF ServingTypes, fileVars
<1>5. OneAtATime'
  BY <1>1, StaysAlone DEF ServingTypes
<1>6. ContainerIsRecent' /\ AnswersAreRecent'
  BY <1>1, <1>2, <1>3 DEF ContainerIsRecent, AnswersAreRecent, Answering, Since
<1>7. VerdictIsRecent' /\ LadderIsClean'
  BY <1>1, <1>2 DEF VerdictIsRecent, LadderIsClean, Since, GateFile, fileVars
<1>8. ResultsAreOwn' /\ ReportIsOwn' /\ SuccessIsMeasured'
  BY <1>1, <1>2, <1>3 DEF ResultsAreOwn, Measured, ReportIsOwn, VerdictIsOwn, ThroughputIsOwn,
                          SuccessIsMeasured, fileVars
<1> QED
  BY <1>4, <1>5, <1>6, <1>7, <1>8

LEMMA Launches ==
    ASSUME ServingInv, NEW s \in Launchers, RunContainer(s)
    PROVE  ServingInv'
<1> USE DEF ServingInv, Scripts, Launchers
<1>1. UNCHANGED <<run, rung, answers, starts, fileVars>>
  BY DEF RunContainer
<1>2. CASE UNCHANGED <<container, launches, own, count>> /\ Goto(s, "run", "idle")
           /\ \E code \in Nat : code # 0 /\ exit' = [exit EXCEPT ![s] = code]
  <2>1. Placed'
    BY <1>2, Moved DEF ServingTypes, Placed, ClickPlaces, LadderPlaces
  <2>2. /\ exit' \in [Scripts -> Nat] /\ (s # "click" => exit'["click"] = exit["click"])
        /\ s = "click" => exit'["click"] # 0
    BY <1>2 DEF ServingTypes
  <2> QED
    BY <1>1, <1>2, <2>1, <2>2, MovesOn DEF ServingTypes
<1>3. CASE /\ ~Up /\ Goto(s, "run", "probe") /\ launches' = launches + 1
           /\ own' = [own EXCEPT ![s] = launches + 1]
           /\ count' = [count EXCEPT ![s] = 0]
           /\ container' = [launch |-> launches + 1, state |-> "loading",
                            restarts |-> s = "ladder", results |-> [r \in 1 .. Reps |-> None]]
           /\ UNCHANGED exit
  <2>1. /\ at[s] = "run" /\ at'[s] = "probe" /\ alone' = alone /\ DOMAIN at' = Scripts
        /\ \A t \in Scripts : t # s => at'[t] = at[t] /\ (Idle(t)' <=> Idle(t))
        /\ ~Idle(s) /\ ~Idle(s)'
    BY <1>3, Moved DEF ServingTypes, Idle
  <2>2. /\ own'[s] = launches + 1 /\ \A t \in Scripts : t # s => own'[t] = own[t]
        /\ \A t \in Scripts : own[t] \in Nat /\ own[t] <= launches
        /\ launches \in Nat
    BY <1>3 DEF ServingTypes
  <2>3. ServingTypes'
    <3>1. Placed'
      BY <2>1 DEF ServingTypes, Placed, ClickPlaces, LadderPlaces, LaunchPlaces
    <3>2. container' \in Containers
      BY <1>3, <2>2 DEF Containers, Measurements
    <3>3. own' \in [Scripts -> 0 .. launches']
      BY <1>3, <2>2 DEF ServingTypes
    <3>4. count' \in [Scripts -> Nat]
      BY <1>3 DEF ServingTypes
    <3>5. /\ run' \in [Scripts -> Nat] /\ starts' \in Nat /\ rung' \in 1 .. Rungs
          /\ answers' \in [Scripts -> [asked : Nat, right : BOOLEAN, from : SUBSET Nat]]
          /\ verdicts' \in [GateFiles -> Verdicts] /\ results' \in [1 .. Reps -> Measurements]
          /\ exit' \in [Scripts -> Nat]
      BY <1>1, <1>3 DEF ServingTypes, fileVars
    <3>6. launches' \in Nat
      BY <1>3, <2>2
    <3> QED
      BY <3>1, <3>2, <3>3, <3>4, <3>5, <3>6 DEF ServingTypes
  <2>4. OneAtATime'
    BY <1>3, StaysAlone DEF ServingTypes
  <2>5. alone => \A t \in Scripts : t # s => Idle(t)'
    BY <2>1 DEF OneAtATime
  <2>6. ContainerIsRecent'
    BY <1>3, <2>1, <2>2, <2>5 DEF ContainerIsRecent, Answering, Since, Idle
  <2>7. AnswersAreRecent' /\ VerdictIsRecent' /\ LadderIsClean'
    BY <1>1, <2>1, <2>2 DEF AnswersAreRecent, VerdictIsRecent, LadderIsClean, Since, GateFile,
                            fileVars
  <2>8. ResultsAreOwn'
    <3>1. count'["perf"] = count["perf"] /\ \A r \in 1 .. Reps : container'.results[r] = None
      BY <1>3 DEF ServingTypes
    <3> QED
      BY <1>1, <2>1, <3>1 DEF ResultsAreOwn, Measured, fileVars
  <2>9. ReportIsOwn' /\ SuccessIsMeasured'
    BY <1>1, <1>3, <2>1, <2>2 DEF ReportIsOwn, VerdictIsOwn, ThroughputIsOwn,
                                  SuccessIsMeasured, fileVars
  <2> QED
    BY <2>3, <2>4, <2>6, <2>7, <2>8, <2>9
<1>4. CASE Stop(s, "run", IF s = "ladder" THEN 2 ELSE 1)
           /\ UNCHANGED <<container, launches, own, count>>
  <2> DEFINE code == IF s = "ladder" THEN 2 ELSE 1
  <2>1. code \in Nat /\ code # 0 /\ exit' = [exit EXCEPT ![s] = code] /\ Goto(s, "run", "idle")
    BY <1>4 DEF Stop
  <2> HIDE DEF code
  <2> QED
    BY <1>2, <1>4, <2>1
<1> QED
  BY <1>3, <1>4 DEF RunContainer

(* A server that answers is not older than the launch.                     *)
LEMMA Probes ==
    ASSUME ServingInv, NEW s \in Launchers, Probe(s)
    PROVE  ServingInv'
<1> USE DEF ServingInv, Scripts, Launchers
<1>1. UNCHANGED <<container, run, own, count, rung, exit, starts, fileVars, launches>>
  BY DEF Probe
<1>2. CASE Goto(s, "probe", "inspect") /\ UNCHANGED answers
  <2>1. Placed'
    BY <1>2, Moved DEF ServingTypes, Placed, ClickPlaces, LadderPlaces, LaunchPlaces
  <2> QED
    BY <1>1, <1>2, <2>1, MovesOn DEF ServingTypes
<1>3. CASE Goto(s, "probe", "gate") /\ answers' = [answers EXCEPT ![s] = NoAnswers]
  <2>1. /\ at[s] = "probe" /\ at'[s] = "gate" /\ alone' = alone /\ DOMAIN at' = Scripts
        /\ \A t \in Scripts : t # s => at'[t] = at[t] /\ (Idle(t)' <=> Idle(t))
        /\ ~Idle(s) /\ ~Idle(s)'
    BY <1>3, Moved DEF ServingTypes, Idle
  <2>2. ServingTypes'
    <3>1. Placed'
      BY <2>1 DEF ServingTypes, Placed, ClickPlaces, LadderPlaces, LaunchPlaces
    <3>2. answers' \in [Scripts -> [asked : Nat, right : BOOLEAN, from : SUBSET Nat]]
      BY <1>3 DEF ServingTypes, NoAnswers
    <3> QED
      BY <1>1, <3>1, <3>2 DEF ServingTypes, fileVars, Up
  <2>3. OneAtATime'
    BY <1>3, StaysAlone DEF ServingTypes
  <2>4. ContainerIsRecent'
    BY <1>1, <2>1 DEF ContainerIsRecent, Answering, Since, Up
  <2>5. AnswersAreRecent'
    <3>1. answers'[s] = NoAnswers /\ \A t \in Scripts : t # s => answers'[t] = answers[t]
      BY <1>3 DEF ServingTypes
    <3> QED
      BY <1>1, <2>1, <3>1 DEF AnswersAreRecent, Since, NoAnswers
  <2>6. VerdictIsRecent' /\ LadderIsClean'
    BY <1>1, <2>1 DEF VerdictIsRecent, LadderIsClean, Since, GateFile, fileVars
  <2>7. ResultsAreOwn' /\ ReportIsOwn' /\ SuccessIsMeasured'
    BY <1>1, <2>1 DEF ResultsAreOwn, Measured, ReportIsOwn, VerdictIsOwn, ThroughputIsOwn,
                      SuccessIsMeasured, fileVars, Up
  <2> QED
    BY <2>2, <2>3, <2>4, <2>5, <2>6, <2>7
<1> QED
  BY <1>2, <1>3 DEF Probe
-----------------------------------------------------------------------------
(* The gate.                                                               *)
LEMMA Asks ==
    ASSUME ServingInv, NEW s \in Launchers, Ask(s)
    PROVE  ServingInv'
<1> USE DEF ServingInv, Scripts, Launchers
<1>1. /\ UNCHANGED <<container, run, own, count, rung, exit, starts, fileVars, launches>>
      /\ Goto(s, "gate", "gate") /\ Up
  BY DEF Ask, Healthy, Running
<1>2. PICK right \in BOOLEAN :
        answers' = [answers EXCEPT ![s] = [asked |-> @.asked + 1, right |-> @.right /\ right,
                                           from |-> @.from \union {container.launch}]]
  BY DEF Ask
<1>3. /\ at[s] = "gate" /\ alone' = alone /\ DOMAIN at' = Scripts
      /\ \A t \in Scripts : at'[t] = at[t] /\ (Idle(t)' <=> Idle(t))
  BY <1>1, Moved DEF ServingTypes, Idle
<1>4. container.launch \in Nat
  BY <1>1 DEF ServingTypes, Containers
<1>5. /\ answers'[s].asked = answers[s].asked + 1
      /\ answers'[s].from = answers[s].from \union {container.launch}
      /\ \A t \in Scripts : t # s => answers'[t] = answers[t]
  BY <1>2 DEF ServingTypes
<1>6. answers' \in [Scripts -> [asked : Nat, right : BOOLEAN, from : SUBSET Nat]]
  <2> DEFINE new == [asked |-> answers[s].asked + 1, right |-> answers[s].right /\ right,
                     from |-> answers[s].from \union {container.launch}]
  <2>1. new \in [asked : Nat, right : BOOLEAN, from : SUBSET Nat]
    <3>1. answers[s].asked \in Nat /\ answers[s].from \in SUBSET Nat
      BY DEF ServingTypes
    <3>2. answers[s].asked + 1 \in Nat
      BY <3>1
    <3>3. answers[s].from \union {container.launch} \in SUBSET Nat
      BY <1>4, <3>1
    <3>4. (answers[s].right /\ right) \in BOOLEAN
      OBVIOUS
    <3> QED
      BY <3>2, <3>3, <3>4
  <2>2. answers' = [answers EXCEPT ![s] = new]
    BY <1>2 DEF ServingTypes
  <2> HIDE DEF new
  <2> QED
    BY <2>1, <2>2 DEF ServingTypes
<1>7. ServingTypes' /\ OneAtATime'
  <2>1. Placed' /\ OneAtATime'
    BY <1>3 DEF ServingTypes, Placed, OneAtATime
  <2> QED
    BY <1>1, <1>6, <2>1 DEF ServingTypes, fileVars, Up
<1>8. ContainerIsRecent'
  BY <1>1, <1>3 DEF ContainerIsRecent, Answering, Since, Up
<1>9. AnswersAreRecent'
  <2>1. Since(s, {container.launch}) /\ Since(s, answers[s].from)
    BY <1>1, <1>3 DEF ContainerIsRecent, AnswersAreRecent, Answering
  <2>2. Since(s, answers[s].from)'
    BY <1>1, <1>3, <1>5, <2>1 DEF Since
  <2>3. \A t \in Launchers : t # s /\ Since(t, answers[t].from) => Since(t, answers[t].from)'
    BY <1>1, <1>3, <1>5 DEF Since
  <2>4. answers'[s].asked > 0 => answers'[s].from # {}
    BY <1>5
  <2> QED
    BY <1>3, <1>5, <2>2, <2>3, <2>4 DEF AnswersAreRecent
<1>10. VerdictIsRecent' /\ LadderIsClean'
  BY <1>1, <1>3 DEF VerdictIsRecent, LadderIsClean, Since, GateFile, fileVars, Idle
<1>11. ResultsAreOwn' /\ ReportIsOwn' /\ SuccessIsMeasured'
  BY <1>1, <1>3 DEF ResultsAreOwn, Measured, ReportIsOwn, VerdictIsOwn, ThroughputIsOwn,
                    SuccessIsMeasured, fileVars, Up, Idle
<1> QED
  BY <1>7, <1>8, <1>9, <1>10, <1>11

LEMMA Writes ==
    ASSUME ServingInv, NEW s \in Launchers, WriteVerdict(s)
    PROVE  ServingInv'
<1> USE DEF ServingInv, Scripts, Launchers
<1>1. UNCHANGED <<container, run, own, count, rung, exit, starts, results, report, launches>>
  BY DEF WriteVerdict
<1>2. GateFile(s) \in GateFiles /\ (s = "ladder" => GateFile(s) = rung /\ rung # 0)
      /\ (s = "click" => GateFile(s) = 0)
  BY DEF GateFile, GateFiles, ServingTypes
<1>3. PICK from \in {"gate", "write"}, to \in {"write", "verdict"}, verdict \in Verdicts :
        /\ Goto(s, from, to)
        /\ verdicts' = [verdicts EXCEPT ![GateFile(s)] = verdict]
        /\ answers' = answers \/ answers' = [answers EXCEPT ![s] = NoAnswers]
        /\ from = "gate" => /\ to = "write" /\ verdict = Torn
                            /\ answers' = answers /\ answers[s].asked = Requests
        /\ from = "write" => /\ to = "verdict"
                             /\ verdict = [kind |-> "gate", passed |-> answers[s].right,
                                           from |-> answers[s].from]
  <2>1. CASE answers[s].asked = Requests /\ Goto(s, "gate", "write")
             /\ verdicts' = [verdicts EXCEPT ![GateFile(s)] = Torn] /\ UNCHANGED answers
    BY <2>1 DEF Verdicts
  <2>2. CASE /\ Goto(s, "write", "verdict")
             /\ verdicts' = [verdicts EXCEPT ![GateFile(s)] =
                                [kind |-> "gate", passed |-> answers[s].right,
                                 from |-> answers[s].from]]
             /\ answers' = [answers EXCEPT ![s] = NoAnswers]
    <3>1. [kind |-> "gate", passed |-> answers[s].right, from |-> answers[s].from] \in Verdicts
      BY DEF Verdicts, ServingTypes
    <3> QED
      BY <2>2, <3>1
  <2> QED
    BY <2>1, <2>2 DEF WriteVerdict
<1>4. /\ at[s] = from /\ at'[s] = to /\ alone' = alone /\ DOMAIN at' = Scripts
      /\ \A t \in Scripts : t # s => at'[t] = at[t] /\ (Idle(t)' <=> Idle(t))
      /\ ~Idle(s) /\ ~Idle(s)'
  BY <1>3, Moved DEF ServingTypes, Idle
<1>5. /\ verdicts'[GateFile(s)] = verdict
      /\ \A f \in GateFiles : f # GateFile(s) => verdicts'[f] = verdicts[f]
      /\ verdicts' \in [GateFiles -> Verdicts]
  BY <1>2, <1>3 DEF ServingTypes
<1>6. /\ answers' \in [Scripts -> [asked : Nat, right : BOOLEAN, from : SUBSET Nat]]
      /\ \A t \in Scripts : t # s => answers'[t] = answers[t]
  <2>1. NoAnswers \in [asked : Nat, right : BOOLEAN, from : SUBSET Nat]
    BY DEF NoAnswers
  <2> QED
    BY <1>3, <2>1 DEF ServingTypes
<1>7. ServingTypes'
  <2>1. Placed'
    BY <1>3, <1>4 DEF ServingTypes, Placed, ClickPlaces, LadderPlaces, LaunchPlaces
  <2> QED
    BY <1>1, <1>5, <1>6, <2>1 DEF ServingTypes, Up
<1>8. OneAtATime'
  BY <1>3, StaysAlone DEF ServingTypes
<1>9. ContainerIsRecent'
  BY <1>1, <1>3, <1>4 DEF ContainerIsRecent, Answering, Since, Up
<1>10. AnswersAreRecent'
  BY <1>1, <1>3, <1>4, <1>6 DEF AnswersAreRecent, Since
<1>11. VerdictIsRecent'
  <2>1. at'[s] = "verdict" => /\ verdicts'[GateFile(s)].from = answers[s].from
                              /\ answers[s].from # {} /\ Since(s, answers[s].from)
    BY <1>3, <1>4, <1>5, ServingAssumption DEF AnswersAreRecent
  <2>2. \A t \in Launchers : GateFile(t)' = GateFile(t) /\ (t # s => GateFile(t) # GateFile(s))
    BY <1>1, <1>2 DEF GateFile, ServingTypes
  <2>3. \A t \in Launchers : GateFile(t) \in GateFiles
    BY DEF GateFile, GateFiles, ServingTypes
  <2> QED
    BY <1>1, <1>4, <1>5, <2>1, <2>2, <2>3 DEF VerdictIsRecent, Since
<1>12. LadderIsClean'
  <2>1. \A f \in 1 .. Rungs : f \in GateFiles /\ f # 0
    BY DEF GateFiles
  <2>2. Torn.kind # "gate"
    BY DEF Torn
  <2> QED
    BY <1>1, <1>2, <1>3, <1>4, <1>5, <2>1, <2>2 DEF LadderIsClean
<1>13. ResultsAreOwn' /\ ReportIsOwn'
  BY <1>1, <1>4 DEF ResultsAreOwn, Measured, ReportIsOwn, VerdictIsOwn, ThroughputIsOwn, Up
<1>14. SuccessIsMeasured'
  <2>1. s # "click" => verdicts'[0] = verdicts[0]
    BY <1>2, <1>5 DEF GateFiles
  <2> QED
    BY <1>1, <1>4, <2>1 DEF SuccessIsMeasured
<1> QED
  BY <1>7, <1>8, <1>9, <1>10, <1>11, <1>12, <1>13, <1>14

(* A gate that fails leaves no verdict for its caller to read.             *)
LEMMA Fails ==
    ASSUME ServingInv, NEW s \in Launchers, GateFails(s)
    PROVE  ServingInv'
<1> USE DEF Scripts, Launchers
<1>1. PICK from \in {"gate", "write"}, to \in {"idle", "verdict"} :
        /\ Goto(s, from, to)
        /\ s = "ladder" => to = "verdict" /\ exit' = exit
        /\ s = "click" => to = "idle" /\ exit' = [exit EXCEPT ![s] = 1]
  BY DEF GateFails, Stop
<1>2. /\ UNCHANGED <<container, run, own, count, rung, starts, fileVars, launches>>
      /\ answers' = [answers EXCEPT ![s] = NoAnswers]
  BY DEF GateFails
<1>3. Placed /\ count \in [Scripts -> Nat] /\ exit \in [Scripts -> Nat]
  BY DEF ServingInv, ServingTypes
<1>4. Placed'
  BY <1>1, <1>3, Moved DEF Placed, ClickPlaces, LadderPlaces, LaunchPlaces
<1>5. /\ exit' \in [Scripts -> Nat] /\ (s # "click" => exit'["click"] = exit["click"])
      /\ s = "click" => exit'["click"] # 0
  BY <1>1, <1>3
<1>6. s # "perf" /\ (to = "verdict" => s = "ladder" /\ from \in {"gate", "write"})
  BY <1>1
<1> QED
  BY <1>1, <1>2, <1>3, <1>4, <1>5, <1>6, MovesOn

(* What a caller reads is what its gate has just found.                    *)
LEMMA Reads ==
    ASSUME ServingInv, NEW s \in Launchers, ReadVerdict(s)
    PROVE  ServingInv'
<1> USE DEF ServingInv, Scripts, Launchers
<1> DEFINE verdict == verdicts[GateFile(s)]
<1>1. /\ UNCHANGED <<container, run, own, count, rung, answers, starts, verdicts, results,
                     launches>>
      /\ at[s] = "verdict"
      /\ report' = IF verdict.kind # "gate" THEN report
                   ELSE [kind |-> "gate", passed |-> verdict.passed,
                         from |-> verdict.from, own |-> own[s]]
  BY DEF ReadVerdict
<1>2. PICK to \in {"idle", "next"} :
        /\ Goto(s, "verdict", to)
        /\ s = "ladder" => to = "next" /\ exit' = exit
        /\ s = "click" =>
              /\ to = "idle"
              /\ exit' = [exit EXCEPT ![s] = IF verdict.kind = "gate" /\ verdict.passed
                                             THEN 0 ELSE 1]
  BY DEF ReadVerdict, Stop
<1>3. /\ at'[s] = to /\ alone' = alone /\ DOMAIN at' = Scripts
      /\ \A t \in Scripts : t # s => at'[t] = at[t] /\ (Idle(t)' <=> Idle(t))
      /\ ~Idle(s)
  BY <1>2, Moved DEF ServingTypes, Idle
<1>4. ServingTypes'
  <2>1. Placed'
    BY <1>2, <1>3 DEF ServingTypes, Placed, ClickPlaces, LadderPlaces
  <2>2. exit' \in [Scripts -> Nat]
    BY <1>2 DEF ServingTypes
  <2> QED
    BY <1>1, <2>1, <2>2 DEF ServingTypes, Up
<1>5. OneAtATime'
  BY <1>2, StaysAlone DEF ServingTypes
<1>6. ContainerIsRecent' /\ AnswersAreRecent'
  BY <1>1, <1>2, <1>3 DEF ContainerIsRecent, AnswersAreRecent, Answering, Since, Up
<1>7. VerdictIsRecent' /\ LadderIsClean'
  <2>1. VerdictIsRecent'
    BY <1>1, <1>2, <1>3 DEF VerdictIsRecent, Since, GateFile
  <2>2. LadderIsClean'
    BY <1>1, <1>2, <1>3 DEF LadderIsClean, Idle
  <2> QED
    BY <2>1, <2>2
<1>8. ResultsAreOwn'
  BY <1>1, <1>3 DEF ResultsAreOwn, Measured, Up
<1>9. ReportIsOwn'
  <2> SUFFICES ASSUME FreshTags, verdict.kind = "gate" PROVE (VerdictIsOwn /\ ThroughputIsOwn)'
    BY <1>1, <1>3 DEF ReportIsOwn, VerdictIsOwn, ThroughputIsOwn
  <2>1. verdict.from # {} /\ Since(s, verdict.from)
    BY <1>1 DEF VerdictIsRecent
  <2>2. /\ report'.kind = "gate" /\ report'.from = verdict.from /\ report'.own = own[s]
    BY <1>1
  <2>3. alone => verdict.from = {own[s]}
    BY <2>1 DEF Since
  <2> QED
    BY <1>3, <2>1, <2>2, <2>3 DEF VerdictIsOwn, ThroughputIsOwn, Since
<1>10. SuccessIsMeasured'
  <2>1. CASE s = "click"
    <3>1. exit'["click"] = 0 => verdict.kind = "gate" /\ verdict.passed
      BY <1>2, <2>1 DEF ServingTypes
    <3>2. verdict = verdicts[0]
      BY <2>1 DEF GateFile
    <3>3. verdict.kind = "gate" => verdict.from # {} /\ \A l \in verdict.from : l >= own["click"]
      BY <1>1, <2>1 DEF VerdictIsRecent, Since
    <3> QED
      BY <1>1, <3>1, <3>2, <3>3 DEF SuccessIsMeasured
  <2>2. CASE s # "click"
    BY <1>1, <1>2, <1>3, <2>2 DEF SuccessIsMeasured
  <2> QED
    BY <2>1, <2>2
<1> QED
  BY <1>4, <1>5, <1>6, <1>7, <1>8, <1>9, <1>10

LEMMA Climbs ==
    ASSUME ServingInv, NextRung("ladder")
    PROVE  ServingInv'
<1> USE DEF ServingInv, Scripts, Launchers
<1> DEFINE s == "ladder"
<1>1. PICK to \in {"idle", "remove"} :
        /\ Goto(s, "next", to)
        /\ to = "remove" => rung < Rungs /\ rung' = rung + 1 /\ exit' = exit
        /\ to = "idle" => rung' = rung /\ exit' = [exit EXCEPT ![s] = 0]
  BY DEF NextRung, RungsLeft, Stop
<1>2. UNCHANGED <<container, run, own, count, answers, starts, fileVars, launches>>
  BY DEF NextRung
<1>3. /\ at[s] = "next" /\ at'[s] = to /\ alone' = alone /\ DOMAIN at' = Scripts
      /\ \A t \in Scripts : t # s => at'[t] = at[t] /\ (Idle(t)' <=> Idle(t))
      /\ ~Idle(s) /\ (Idle(s)' <=> to = "idle")
  BY <1>1, Moved DEF ServingTypes, Idle
<1>4. exit' \in [Scripts -> Nat] /\ exit'["click"] = exit["click"]
  BY <1>1 DEF ServingTypes
<1>5. ServingTypes'
  <2>1. Placed'
    BY <1>1, <1>3 DEF ServingTypes, Placed, LadderPlaces, LaunchPlaces
  <2>2. rung' \in 1 .. Rungs
    <3>1. rung \in 1 .. Rungs /\ Rungs \in Nat
      BY ServingAssumption DEF ServingTypes
    <3> QED
      BY <1>1, <3>1
  <2> QED
    BY <1>2, <1>4, <2>1, <2>2 DEF ServingTypes, fileVars, Up
<1>6. OneAtATime'
  BY <1>1, StaysAlone DEF ServingTypes
<1>7. ContainerIsRecent' /\ AnswersAreRecent' /\ VerdictIsRecent'
  BY <1>1, <1>2, <1>3 DEF ContainerIsRecent, AnswersAreRecent, VerdictIsRecent, Answering, Since,
                          GateFile, Up, fileVars
<1>8. LadderIsClean'
  BY <1>1, <1>2, <1>3 DEF LadderIsClean, fileVars, ServingTypes
<1>9. ResultsAreOwn' /\ ReportIsOwn' /\ SuccessIsMeasured'
  BY <1>2, <1>3, <1>4 DEF ResultsAreOwn, Measured, ReportIsOwn, VerdictIsOwn, ThroughputIsOwn,
                          SuccessIsMeasured, fileVars, Up
<1> QED
  BY <1>5, <1>6, <1>7, <1>8, <1>9
-----------------------------------------------------------------------------
(* The suite.  A result that is not copied is not another run's: the       *)
(* container and OUT hold results of this run or none.                     *)
LEMMA Benches ==
    ASSUME ServingInv, Bench("perf")
    PROVE  ServingInv'
<1> USE DEF ServingInv, Scripts, Launchers
<1>1. UNCHANGED <<run, own, count, rung, answers, starts, fileVars, launches>>
  BY DEF Bench, PerfStep, fileVars
<1>2. CASE Stop("perf", "bench", 2) /\ UNCHANGED container
  <2>1. Goto("perf", "bench", "idle") /\ exit' = [exit EXCEPT !["perf"] = 2]
    BY <1>2 DEF Stop
  <2>2. Placed'
    BY <2>1, Moved DEF ServingTypes, Placed, PerfPlaces
  <2>3. exit' \in [Scripts -> Nat] /\ exit'["click"] = exit["click"]
    BY <2>1 DEF ServingTypes
  <2> QED
    BY <1>1, <1>2, <2>1, <2>2, <2>3, MovesOn DEF ServingTypes
<1>3. CASE /\ Healthy /\ Goto("perf", "bench", "copy") /\ UNCHANGED exit
           /\ container' = [container EXCEPT !.results[count["perf"]] =
                               [kind |-> "perf", run |-> run["perf"], rep |-> count["perf"]]]
  <2>1. /\ at["perf"] = "bench" /\ at'["perf"] = "copy" /\ alone' = alone /\ DOMAIN at' = Scripts
        /\ \A t \in Launchers : at'[t] = at[t] /\ (Idle(t)' <=> Idle(t))
        /\ ~Idle("perf") /\ ~Idle("perf")'
    BY <1>3, Moved DEF ServingTypes, Idle
  <2>2. count["perf"] \in 1 .. Reps /\ count["perf"] \in Nat /\ Up /\ container \in Containers
    BY <1>3, <2>1 DEF ResultsAreOwn, ServingTypes, Healthy, Running
  <2>3. Measured(count["perf"]) \in Measurements
    BY <2>2 DEF Measured, Measurements, ServingTypes
  <2>4. /\ container' \in Containers /\ container'.launch = container.launch
        /\ \A r \in 1 .. Reps :
              container'.results[r] = IF r = count["perf"] THEN Measured(r)
                                      ELSE container.results[r]
    BY <1>3, <2>2, <2>3 DEF Containers, Measured
  <2>5. ServingTypes'
    <3>1. Placed'
      BY <2>1 DEF ServingTypes, Placed, PerfPlaces
    <3> QED
      BY <1>1, <1>3, <2>4, <3>1 DEF ServingTypes, fileVars
  <2>6. OneAtATime'
    BY <1>3, StaysAlone DEF ServingTypes
  <2>7. ContainerIsRecent' /\ AnswersAreRecent' /\ VerdictIsRecent' /\ LadderIsClean'
    BY <1>1, <2>1, <2>2, <2>4 DEF ContainerIsRecent, AnswersAreRecent, VerdictIsRecent,
       LadderIsClean, Answering, Since, GateFile, fileVars
  <2>8. ResultsAreOwn'
    BY <1>1, <2>2, <2>4 DEF ResultsAreOwn, Measured, fileVars
  <2>9. ReportIsOwn' /\ SuccessIsMeasured'
    BY <1>1, <1>3, <2>1 DEF ReportIsOwn, VerdictIsOwn, ThroughputIsOwn, SuccessIsMeasured,
                            fileVars
  <2> QED
    BY <2>5, <2>6, <2>7, <2>8, <2>9
<1> QED
  BY <1>2, <1>3 DEF Bench

LEMMA Copies ==
    ASSUME ServingInv, CopyResult("perf")
    PROVE  ServingInv'
<1> USE DEF ServingInv, Scripts, Launchers
<1>1. /\ UNCHANGED <<container, run, own, count, rung, answers, exit, starts, verdicts, report,
                     launches>>
      /\ Goto("perf", "copy", "print")
      /\ \/ results' = results
         \/ Up /\ results' = [results EXCEPT ![count["perf"]] = container.results[count["perf"]]]
  BY DEF CopyResult, PerfStep
<1>2. /\ at["perf"] = "copy" /\ at'["perf"] = "print" /\ alone' = alone /\ DOMAIN at' = Scripts
      /\ \A t \in Launchers : at'[t] = at[t] /\ (Idle(t)' <=> Idle(t))
      /\ ~Idle("perf") /\ ~Idle("perf")'
  BY <1>1, Moved DEF ServingTypes, Idle
<1>3. count["perf"] \in 1 .. Reps
  BY <1>2 DEF ResultsAreOwn
<1>4. /\ results' \in [1 .. Reps -> Measurements]
      /\ \A r \in 1 .. Reps : \/ results'[r] = results[r]
                              \/ Up /\ results'[r] = container.results[r]
  BY <1>1, <1>3 DEF ServingTypes, Containers
<1>5. ServingTypes'
  <2>1. Placed'
    BY <1>2 DEF ServingTypes, Placed, PerfPlaces
  <2> QED
    BY <1>1, <1>4, <2>1 DEF ServingTypes, Up
<1>6. OneAtATime'
  BY <1>1, StaysAlone DEF ServingTypes
<1>7. ContainerIsRecent' /\ AnswersAreRecent' /\ VerdictIsRecent' /\ LadderIsClean'
  BY <1>1, <1>2 DEF ContainerIsRecent, AnswersAreRecent, VerdictIsRecent, LadderIsClean,
     Answering, Since, GateFile, Up
<1>8. ResultsAreOwn'
  BY <1>1, <1>3, <1>4 DEF ResultsAreOwn, Measured, Up
<1>9. ReportIsOwn' /\ SuccessIsMeasured'
  BY <1>1, <1>2 DEF ReportIsOwn, VerdictIsOwn, ThroughputIsOwn, SuccessIsMeasured
<1> QED
  BY <1>5, <1>6, <1>7, <1>8, <1>9

LEMMA Prints ==
    ASSUME ServingInv, PrintResult("perf")
    PROVE  ServingInv'
<1> USE DEF ServingInv, Scripts, Launchers
<1>1. /\ UNCHANGED <<container, run, own, rung, answers, starts, verdicts, results, launches>>
      /\ at["perf"] = "print"
      /\ report' = IF results[count["perf"]] = None THEN report
                   ELSE [kind |-> "perf", measured |-> results[count["perf"]],
                         run |-> run["perf"], rep |-> count["perf"]]
  BY DEF PrintResult, PerfStep, ResultOf
<1>2. PICK to \in {"health", "idle"} :
        /\ Goto("perf", "print", to)
        /\ to = "health" => /\ count["perf"] < Reps
                            /\ count' = [count EXCEPT !["perf"] = @ + 1] /\ exit' = exit
        /\ to = "idle" => count' = count /\ exit' = [exit EXCEPT !["perf"] = 0]
  BY DEF PrintResult, Stop
<1>3. /\ at'["perf"] = to /\ alone' = alone /\ DOMAIN at' = Scripts
      /\ \A t \in Launchers : at'[t] = at[t] /\ (Idle(t)' <=> Idle(t))
      /\ ~Idle("perf") /\ (Idle("perf")' <=> to = "idle")
  BY <1>1, <1>2, Moved DEF ServingTypes, Idle
<1>4. count["perf"] \in 1 .. Reps
  BY <1>3 DEF ResultsAreOwn
<1>5. /\ exit' \in [Scripts -> Nat] /\ exit'["click"] = exit["click"]
      /\ count' \in [Scripts -> Nat] /\ (to = "health" => count'["perf"] \in 1 .. Reps)
  BY <1>2, <1>4, ServingAssumption DEF ServingTypes
<1>6. ServingTypes'
  <2>1. Placed'
    BY <1>2, <1>3 DEF ServingTypes, Placed, PerfPlaces
  <2> QED
    BY <1>1, <1>5, <2>1 DEF ServingTypes, Up
<1>7. OneAtATime'
  BY <1>2, StaysAlone DEF ServingTypes
<1>8. ContainerIsRecent' /\ AnswersAreRecent' /\ VerdictIsRecent' /\ LadderIsClean'
  BY <1>1, <1>3 DEF ContainerIsRecent, AnswersAreRecent, VerdictIsRecent, LadderIsClean,
     Answering, Since, GateFile, Up
<1>9. ResultsAreOwn'
  BY <1>1, <1>2, <1>3, <1>5 DEF ResultsAreOwn, Measured, Up
<1>10. ReportIsOwn'
  <2> SUFFICES ASSUME FreshTags, results[count["perf"]] # None
               PROVE  (VerdictIsOwn /\ ThroughputIsOwn)'
    BY <1>1, <1>3 DEF ReportIsOwn, VerdictIsOwn, ThroughputIsOwn
  <2>1. results[count["perf"]] = Measured(count["perf"])
    BY <1>4 DEF ResultsAreOwn
  <2> QED
    BY <1>1, <2>1 DEF VerdictIsOwn, ThroughputIsOwn, Measured
<1>11. SuccessIsMeasured'
  BY <1>1, <1>3, <1>5 DEF SuccessIsMeasured
<1> QED
  BY <1>6, <1>7, <1>8, <1>9, <1>10, <1>11
-----------------------------------------------------------------------------
(* The server changes its state only.                                      *)
LEMMA ServerMoves ==
    ASSUME ServingInv, ServerReady \/ ServerDies \/ ServerRestarts
    PROVE  ServingInv'
<1> USE DEF ServingInv, Scripts, Launchers
<1>1. PICK to \in {"loading", "healthy", "down"} :
        /\ Up /\ container' = [container EXCEPT !.state = to]
        /\ UNCHANGED <<alone, at, run, own, count, rung, answers, exit, starts, fileVars,
                       launches>>
  BY DEF ServerReady, ServerDies, ServerRestarts, ServerStep, scriptVars
<1>2. /\ container \in Containers /\ container' \in Containers
      /\ container'.launch = container.launch /\ container'.results = container.results
  BY <1>1 DEF ServingTypes, Containers
<1>3. ServingTypes' /\ OneAtATime'
  BY <1>1, <1>2 DEF ServingTypes, Placed, OneAtATime, Idle, fileVars
<1>4. ContainerIsRecent' /\ AnswersAreRecent' /\ VerdictIsRecent' /\ LadderIsClean'
  BY <1>1, <1>2 DEF ContainerIsRecent, AnswersAreRecent, VerdictIsRecent, LadderIsClean,
     Answering, Since, GateFile, fileVars, Idle
<1>5. ResultsAreOwn' /\ ReportIsOwn' /\ SuccessIsMeasured'
  BY <1>1, <1>2 DEF ResultsAreOwn, Measured, ReportIsOwn, VerdictIsOwn, ThroughputIsOwn,
                    SuccessIsMeasured, fileVars, Idle
<1> QED
  BY <1>3, <1>4, <1>5

LEMMA ServingStutters == ServingInv /\ UNCHANGED servingVars => ServingInv'
<1> SUFFICES ASSUME ServingInv, UNCHANGED servingVars PROVE ServingInv'
  OBVIOUS
<1>1. UNCHANGED <<alone, container, at, run, own, count, rung, answers, exit, starts, verdicts,
                  results, report, launches>>
  BY DEF servingVars, scriptVars, fileVars
<1>2. ServingTypes' /\ OneAtATime'
  BY <1>1 DEF ServingInv, ServingTypes, Placed, OneAtATime, Idle, Up
<1>3. ContainerIsRecent' /\ AnswersAreRecent' /\ VerdictIsRecent' /\ LadderIsClean'
  BY <1>1 DEF ServingInv, ContainerIsRecent, AnswersAreRecent, VerdictIsRecent, LadderIsClean,
     Answering, Since, GateFile, Idle, Up
<1>4. ResultsAreOwn' /\ ReportIsOwn' /\ SuccessIsMeasured'
  BY <1>1 DEF ServingInv, ResultsAreOwn, Measured, ReportIsOwn, VerdictIsOwn, ThroughputIsOwn,
     SuccessIsMeasured, Idle, Up
<1> QED
  BY <1>2, <1>3, <1>4 DEF ServingInv

LEMMA ServingSteps == ServingInv /\ [ServingNext]_servingVars => ServingInv'
<1> SUFFICES ASSUME ServingInv, ServingNext PROVE ServingInv'
  BY ServingStutters
<1>1. ASSUME NEW s \in Scripts, StartScript(s) PROVE ServingInv'
  BY <1>1, StartsClean
<1>2. ASSUME NEW s \in Scripts, Step(s) PROVE ServingInv'
  <2>1. CASE s = "click" /\ Click
    BY <2>1, Passing
  <2>2. CASE s \in Launchers /\ Launch(s)
    BY <2>2, Removes, Launches, Probes, Passing, Asks, Writes, Fails, Reads DEF Launch
  <2>3. CASE s = "ladder" /\ NextRung(s)
    BY <2>3, Climbs
  <2>4. CASE s = "perf" /\ Perf(s)
    BY <2>4, Passing, Benches, Copies, Prints DEF Perf
  <2> QED
    BY <1>2, <2>1, <2>2, <2>3, <2>4 DEF Step
<1> QED
  BY <1>1, <1>2, ServerMoves DEF ServingNext

(* Under a run tag of its own, a verdict that a ladder or a click-run      *)
(* prints was answered by no server older than its launch, and by that     *)
(* launch alone when no other script runs: run_mtp_ladder.sh:50-56,        *)
(* click_run_mtp.sh:18-27.                                                 *)
THEOREM VerdictsAreOwn == ASSUME FreshTags PROVE ServingSpec => []VerdictIsOwn
<1>1. ServingInv => VerdictIsOwn
  BY DEF ServingInv, ReportIsOwn
<1> QED
  BY ServingInitially, ServingSteps, <1>1, PTL DEF ServingSpec

(* Under a run tag of its own, a throughput that the suite prints is of    *)
(* its own run and of that rep: run_perf_suite.sh:39.                      *)
THEOREM ThroughputsAreOwn == ASSUME FreshTags PROVE ServingSpec => []ThroughputIsOwn
<1>1. ServingInv => ThroughputIsOwn
  BY DEF ServingInv, ReportIsOwn
<1> QED
  BY ServingInitially, ServingSteps, <1>1, PTL DEF ServingSpec

(* Under any tags, a click-run ends with 0 only when its own gate passed,  *)
(* on no server older than its launch.                                     *)
THEOREM SuccessesAreMeasured == ServingSpec => []SuccessIsMeasured
<1>1. ServingInv => SuccessIsMeasured
  BY DEF ServingInv
<1> QED
  BY ServingInitially, ServingSteps, <1>1, PTL DEF ServingSpec
=============================================================================
