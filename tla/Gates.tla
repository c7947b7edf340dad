--------------------------------- MODULE Gates ---------------------------------
(***************************************************************************)
(* The gates that qualify a server: run_semantic_gate.py,                  *)
(* run_sanity_suite.py, run_long_generation.py, run_niah.py and            *)
(* run_max_context_gate.py.  A gate sends its requests one after the       *)
(* other, keeps a row for each and leaves one result file; they differ in  *)
(* what they do with a request that fails, in when and how they write, and *)
(* in how they make a prompt that fills the context window.                *)
(*                                                                         *)
(* Simplifications.                                                        *)
(*  - A row is whether its checks passed; a request is answered rightly or *)
(*    wrongly, gets an HTTP error, or raises.                              *)
(*  - How many tokens a prompt of n filler sentences has is a function,    *)
(*    count, that grows with n.  Positions share it.                       *)
(*  - Sizes that the scripts fix are constants.                            *)
(***************************************************************************)
EXTENDS Integers, SequencesExt, FiniteSets

CONSTANTS
    Kinds,         \* the gates looked at
    Requests,      \* requests of a gate with fixed prompts
    Marks,         \* depths below the maximum: <<65536, 131072, 196608>>
    Positions,     \* positions of the needle at the maximum depth: 5
    Reserve,       \* tokens kept free of the prompt: 768
    Slack,         \* how much shorter than its target a prompt may be: 64
    Budget,        \* tokens an answer may have: 128
    LongBudget,    \* tokens the last answer must have: 512
    LongExtra,     \* tokens by which its question is longer
    Windows,       \* what the server says of its context window
    Counts,        \* tokenizers
    Fractions,     \* of the window, in percent: 25, 50 and 90
    MinUsable, MinDepth,   \* 2048, 1024
    Frame, Needle, \* tokens of the template and of the needle
    MaxRuns, MaxCrashes

Grows(f) == \A m, n \in DOMAIN f : m < n => f[m] < f[n]

(* A count must be known for every size that a search for a prompt of      *)
(* depth d may reach; for Nat as its domain this says nothing.             *)
Reaches(f, d) ==
    /\ \A n \in DOMAIN f : 2 * n \notin DOMAIN f => f[n] >= d - Reserve
    /\ (IF (d - Reserve) \div 4 < 1 THEN 1 ELSE (d - Reserve) \div 4) \in DOMAIN f

ASSUME GatesAssumption ==
    /\ Kinds \subseteq {"semantic", "sanity", "long", "niah", "context"}
    /\ Requests \in Nat \ {0} /\ Positions \in Nat \ {0}
    /\ Marks \in Seq(Nat) /\ \A i, j \in DOMAIN Marks : i < j => Marks[i] < Marks[j]
    /\ Windows \subseteq Nat /\ \A w \in Windows : Reserve <= w
    /\ Reserve \in Nat
    /\ Budget \in Nat /\ LongBudget \in Nat /\ LongExtra \in Nat
    /\ Budget <= Reserve /\ LongBudget + LongExtra <= Reserve
    /\ Slack \in Nat /\ Frame \in Nat /\ Needle \in Nat
    /\ \A f \in Counts :
          /\ Grows(f) /\ DOMAIN f \subseteq Nat /\ \A n \in DOMAIN f : f[n] \in Nat
          /\ \A n \in DOMAIN f : 0 .. n \subseteq DOMAIN f
          /\ \A d \in Range(Marks) \union Windows : Reaches(f, d)
    /\ MinDepth \in Nat /\ MinUsable \in Nat /\ MinDepth <= MinUsable
    /\ Fractions \in Seq(Nat) \ {<<>>}
    /\ MaxRuns \in Nat /\ MaxCrashes \in Nat

VARIABLES
    kind,        \* the gate
    window,      \* max_model_len, or the maximum depth that was asked for
    count,       \* n -> tokens of the prompt with n sentences
    cases,       \* what a run asks for, one after the other
    pc,
    rows,        \* outcomes so far
    low, high,   \* the search for the prompt's size
    best,        \* tokens of the prompt found
    file,        \* the result file
    exit,        \* of the last run
    runs, crashes

search == <<low, high, best>>
vars == <<kind, window, count, cases, pc, rows, search, file, exit, runs, crashes>>

NoFile == [state |-> "none"]
Torn == [state |-> "torn"]
Result(passed) ==
    [state |-> "whole", run |-> runs, cases |-> cases, rows |-> rows, passed |-> passed]
-----------------------------------------------------------------------------
(***************************************************************************)
(* Which requests: run_max_context_gate.py's schedule, the depths that     *)
(* run_niah.py begins with.                                                *)
(***************************************************************************)
Shallower == {i \in DOMAIN Marks : Marks[i] < window}
Needles == Cardinality(Shallower) + Positions

(* One needle at each depth below the maximum, then several at the maximum *)
(* itself, then two codes at once and the long answer.                     *)
ContextCases ==
    [i \in 1 .. Needles + 2 |->
        [depth |-> IF i \in Shallower THEN Marks[i] ELSE window,
         ask |-> IF i <= Needles THEN "needle"
                 ELSE IF i = Needles + 1 THEN "dual" ELSE "forced"]]

Usable == window - Budget

Clamp(d) == IF d > Usable THEN Usable ELSE d

Fraction(f) ==
    LET d == Clamp((Usable * f) \div 100) IN IF d < MinDepth THEN MinDepth ELSE d

NeedleAt(depth) == [depth |-> depth, ask |-> "needle"]

(* The fractions' depths in ascending order, each once.                    *)
FractionCases ==
    LET depths == {Fraction(Fractions[i]) : i \in DOMAIN Fractions}
    IN  [i \in 1 .. Cardinality(depths) |->
            NeedleAt(CHOOSE d \in depths : Cardinality({e \in depths : e < d}) = i - 1)]

Cases ==
    IF kind = "context" THEN ContextCases
    ELSE IF kind = "niah" THEN <<>>
    ELSE [i \in 1 .. Requests |-> [depth |-> 0, ask |-> "fixed"]]

Case == cases[Len(rows) + 1]
-----------------------------------------------------------------------------
(***************************************************************************)
(* A run, from its start to its exit code.                                 *)
(***************************************************************************)
Move(from, to) ==
    /\ pc = from
    /\ pc' = to
    /\ UNCHANGED <<kind, window, count, runs, crashes>>

Step(from, to) == Move(from, to) /\ UNCHANGED cases

Exit(from, code) == Step(from, "idle") /\ exit' = code

(* A result that is written beside the file and then replaces it.          *)
Atomic(result) == file' = result

(* all() of the rows there are, of which there may be none.                *)
AllSoFar == \A i \in DOMAIN rows : rows[i]

(* The context gate first leaves a result that has not passed; the         *)
(* needle's gate stops when the window is unknown or too small.            *)
InitialVerdict == FALSE

Start ==
    /\ pc = "idle" /\ runs < MaxRuns
    /\ runs' = runs + 1
    /\ pc' = "start" /\ cases' = Cases /\ rows' = <<>> /\ exit' = "running"
    /\ UNCHANGED <<kind, window, count, search, file, crashes>>

(* The result file's first content, or an early end.                       *)
FirstWrite ==
    /\ \/ kind = "context" /\ Atomic(Result(InitialVerdict)) /\ Step("start", "next")
                           /\ UNCHANGED exit
       \/ kind = "niah" /\ Exit("start", "failed") /\ UNCHANGED file
       \/ /\ kind = "niah" /\ Usable >= MinUsable
          /\ Move("start", "pad") /\ cases' = FractionCases /\ UNCHANGED <<exit, file>>
       \/ kind \notin {"context", "niah"} /\ Step("start", "next") /\ UNCHANGED <<exit, file>>
    /\ UNCHANGED <<rows, search>>

(* Depths that coincide are replaced by deeper ones, as far as there are   *)
(* any.  There are never too many for the cut that follows in the code.    *)
Deeper(d) == LET half == (Usable - d) \div 2 IN Clamp(d + IF half < 1 THEN 1 ELSE half)

(* A loop that does not know when it has come to the window's end.         *)
TooFewDepths == Len(cases) < Len(Fractions)

MoreDepths == Len(cases) < Len(Fractions) /\ Last(cases).depth < Usable

Pad ==
    /\ pc = "pad"
    /\ IF MoreDepths
       THEN /\ Move("pad", "pad")
            /\ cases' = Append(cases, NeedleAt(Deeper(Last(cases).depth)))
       ELSE Step("pad", "next")
    /\ UNCHANGED <<rows, search, file, exit>>
-----------------------------------------------------------------------------
(***************************************************************************)
(* prompt_for: doubling until the prompt is long enough, then halving.     *)
(***************************************************************************)

(* The prompt fills the window to the last token.                          *)
WholeDepth == Case.depth

Target == Case.depth - Reserve

(* A first size that may be 0, which doubling does not change.             *)
Quarter == Target \div 4

FirstSize == IF Target \div 4 < 1 THEN 1 ELSE Target \div 4

MoreToAsk == Len(rows) < Len(cases)

BeginSearch ==
    /\ pc = "next" /\ MoreToAsk
    /\ IF kind = "context" /\ Case.ask # "forced"
       THEN /\ Step("next", "grow")
            /\ low' = 0
            /\ high' = FirstSize
            /\ best' = 0
       ELSE Step("next", "ask") /\ UNCHANGED search
    /\ UNCHANGED <<rows, file, exit>>

Grow ==
    /\ pc = "grow"
    /\ IF count[high] < Target
       THEN Step("grow", "grow") /\ low' = high /\ high' = high * 2
       ELSE Step("grow", "search") /\ UNCHANGED <<low, high>>
    /\ UNCHANGED <<rows, best, file, exit>>

(* A search that takes a prompt of the target's length for too long.       *)
FitsStrictly(n) == count[n] < Target

Fits(n) == count[n] <= Target

Halve ==
    /\ pc = "search" /\ low <= high
    /\ Step("search", "search")
    /\ LET mid == (low + high) \div 2
       IN  IF Fits(mid)
           THEN best' = count[mid] /\ low' = mid + 1 /\ UNCHANGED high
           ELSE high' = mid - 1 /\ UNCHANGED <<low, best>>
    /\ UNCHANGED <<rows, file, exit>>

(* /tokenize fails.                                                        *)
TokenizeFails ==
    /\ pc \in {"grow", "search"} /\ Exit(pc, "failed")
    /\ UNCHANGED <<rows, search, file>>

EndSearch ==
    /\ pc = "search" /\ low > high
    /\ IF best < Target - Slack THEN Exit("search", "failed") ELSE Step("search", "ask") /\ UNCHANGED exit
    /\ UNCHANGED <<rows, search, file>>
-----------------------------------------------------------------------------
(***************************************************************************)
(* Requests and results.                                                   *)
(***************************************************************************)

(* run_niah.py skips a depth that cannot hold the needle; half of what is  *)
(* left is filled before it and the rest behind, which needs none of the   *)
(* script's corrections.                                                   *)
TooSmall == kind = "niah" /\ Case.depth - Frame < Needle

NeedlePrompt ==
    LET remaining == Case.depth - Frame - Needle
        left == remaining \div 2
    IN  Frame + left + Needle + (remaining - left)

(* What a request leaves: its outcome and the row's, or no row at all.  A  *)
(* long generation takes any failure for a row; the needle's gate asks a   *)
(* second way after an HTTP error.                                         *)
Rows(outcome) ==
    {row \in BOOLEAN :
        \/ TooSmall /\ ~row
        \/ /\ ~TooSmall
           /\ \/ outcome = "right" /\ row
              \/ outcome = "wrong" /\ ~row
              \/ outcome = "http" /\ kind = "niah"
              \/ outcome = "http" /\ kind \in {"long", "context"} /\ ~row
              \/ outcome = "raised" /\ kind = "long" /\ ~row}

Outcomes == {"right", "wrong", "http", "raised"}

Ask ==
    /\ pc = "ask"
    /\ \E outcome \in Outcomes :
          \/ /\ \E row \in Rows(outcome) : rows' = Append(rows, row)
             /\ Step("ask", IF kind = "context" THEN "keep" ELSE "next")
             /\ UNCHANGED exit
          \/ Rows(outcome) = {} /\ Exit("ask", "failed") /\ UNCHANGED rows
    /\ UNCHANGED <<search, file>>

Complete == Len(rows) = Len(cases)

Verdict == Complete /\ \A i \in DOMAIN rows : rows[i]

ExitCode == IF Verdict THEN "ok" ELSE "failed"

(* The context gate writes after every row, to a temporary file that then  *)
(* replaces the result, and stops at the first row that fails.             *)
KeepRow ==
    /\ pc = "keep"
    /\ Atomic(Result(Verdict))
    /\ IF ~Last(rows) THEN Exit("keep", "failed")
       ELSE IF Complete THEN Exit("keep", "ok")
       ELSE Step("keep", "next") /\ UNCHANGED exit
    /\ UNCHANGED <<rows, search>>

(* The others write once, at the end and in place.                         *)
WriteResult ==
    /\ kind # "context" /\ Complete
    /\ \/ Step("next", "write") /\ file' = Torn /\ UNCHANGED exit
       \/ file' = Result(Verdict) /\ Exit("write", ExitCode)
    /\ UNCHANGED <<rows, search>>

Killed ==
    /\ pc # "idle" /\ crashes < MaxCrashes
    /\ pc' = "idle" /\ exit' = "killed"
    /\ crashes' = crashes + 1
    /\ UNCHANGED <<kind, window, count, cases, rows, search, file, runs>>
-----------------------------------------------------------------------------
Init ==
    /\ kind \in Kinds
    /\ window \in Windows
    /\ count \in Counts
    /\ cases = Cases
    /\ pc = "idle" /\ rows = <<>>
    /\ low = 0 /\ high = 0 /\ best = 0
    /\ file = NoFile /\ exit = "none"
    /\ runs = 0 /\ crashes = 0

GateStep ==
    \/ FirstWrite \/ Pad \/ BeginSearch \/ Grow \/ Halve \/ EndSearch
    \/ Ask \/ KeepRow \/ WriteResult

Next == Start \/ GateStep \/ TokenizeFails \/ Killed

(* A gate that is not killed keeps running; each of its requests ends.     *)
Spec == Init /\ [][Next]_vars /\ WF_vars(GateStep)
-----------------------------------------------------------------------------
(* A result file that says passed has a passing row for every request of   *)
(* the gate: none was skipped, was answered wrongly, or is still to come.  *)
PassedIsComplete ==
    file.state = "whole" /\ file.passed =>
        Len(file.rows) = Len(file.cases) /\ \A i \in DOMAIN file.rows : file.rows[i]

(* A gate that exits with 0 has left a file of this run that says passed.  *)
SuccessIsRecorded == exit = "ok" => file.state = "whole" /\ file.run = runs /\ file.passed

(* The result of the context gate can be read at any time, crashes         *)
(* included.                                                               *)
ContextFileIsWhole == kind = "context" => file # Torn

(* The prompt that is sent is the longest that does not exceed its target; *)
(* that it nearly reaches the target is what the gate is for.              *)
LongestPrompt ==
    pc = "ask" /\ kind = "context" /\ Case.ask # "forced" =>
        /\ best <= Target \/ best = 0
        /\ best >= Target - Slack
        /\ \A n \in DOMAIN count : count[n] <= Target => count[n] <= best

(* The prompt of the context gate and its answer fit in the window, the    *)
(* longer question and answer at the end as well.                          *)
FitsWindow ==
    pc = "ask" /\ kind = "context" =>
        best + (IF Case.ask = "forced" THEN LongExtra + LongBudget ELSE Budget) <= window

(* The needle is looked for at as many different depths as fractions were  *)
(* given, ascending, unless the window has no deeper one left; the prompt  *)
(* that is sent has exactly that depth, and room for its answer.           *)
DepthsDiffer ==
    kind = "niah" /\ pc \in {"next", "ask", "write"} =>
        /\ \A i \in 2 .. Len(cases) : cases[i - 1].depth < cases[i].depth
        /\ Len(cases) = Len(Fractions) \/ Last(cases).depth = Usable
        /\ \A i \in DOMAIN cases : cases[i].depth \in MinDepth .. Usable
        /\ pc = "ask" /\ ~TooSmall => NeedlePrompt = Case.depth

(* A gate that is started ends, whatever the server answers.               *)
GateEnds == pc = "start" ~> pc = "idle"
=============================================================================
