------------------------------ MODULE GatesProofs ------------------------------
(***************************************************************************)
(* Proofs about Gates, for windows, tokenizers and depths of any size: the *)
(* prompt that the context gate sends is the longest that does not exceed  *)
(* its target and leaves room for the answer; the depths of the needle's   *)
(* gate differ and lie in the window; the result file of every gate says   *)
(* passed only of a complete run; an exit code of 0 is backed by the file. *)
(***************************************************************************)
EXTENDS Gates, FiniteSetTheorems, TLAPS

Pcs == {"idle", "start", "pad", "next", "grow", "search", "ask", "keep", "write"}

(* What is chosen once, and the types that the arguments need.             *)
Chosen ==
    /\ kind \in Kinds /\ window \in Windows /\ count \in Counts
    /\ kind = "context" => cases = ContextCases
    /\ pc \in Pcs
    /\ rows \in Seq(BOOLEAN)
    /\ low \in Nat /\ high \in Int /\ best \in Int

(* The context gate goes on only after rows that have passed.              *)
RowsSoFar ==
    /\ pc \in {"start", "next", "grow", "search", "ask"} /\ kind = "context" =>
          \A i \in DOMAIN rows : rows[i]
    /\ pc = "keep" =>
          /\ kind = "context" /\ rows # <<>>
          /\ \A i \in 1 .. Len(rows) - 1 : rows[i]
    /\ pc \in {"grow", "search", "ask"} => Len(rows) < Len(cases)
    /\ pc \in {"grow", "search"} => kind = "context"
    /\ pc = "pad" => kind = "niah"

(* Until it ends a run has no exit code.                                   *)
Undecided == pc # "idle" => exit = "running"

(* Doubling: what it leaves behind is too short.                           *)
Growing ==
    pc = "grow" =>
        /\ high \in DOMAIN count /\ low <= high
        /\ best = 0
        /\ low = 0 \/ (low \in DOMAIN count /\ count[low] < Target)

(* Halving: what is above high is too long; best is the count just below   *)
(* low, once there is one, and before that low itself is too short.        *)
Searching ==
    pc = "search" =>
        /\ \A n \in Nat : n <= high => n \in DOMAIN count
        /\ \A n \in DOMAIN count : n > high => count[n] > Target
        /\ \/ best = 0 /\ (low = 0 \/ (low \in DOMAIN count /\ count[low] < Target))
           \/ /\ low > 0 /\ low - 1 \in DOMAIN count
              /\ best = count[low - 1] /\ best <= Target

BestFits == kind = "context" => best = 0 \/ best <= window - Reserve

SearchInv == Growing /\ Searching /\ LongestPrompt /\ BestFits

(* The needle's depths while they are padded and afterwards.               *)
Padded ==
    /\ cases \in Seq([depth : MinDepth .. Usable, ask : {"needle"}])
    /\ cases # <<>> /\ Len(cases) <= Len(Fractions)
    /\ \A i \in 2 .. Len(cases) : cases[i - 1].depth < cases[i].depth

DepthInv ==
    kind = "niah" /\ pc \in {"pad", "next", "ask", "write"} =>
        /\ Padded
        /\ pc # "pad" => Len(cases) = Len(Fractions) \/ Last(cases).depth = Usable

ResultInv == PassedIsComplete /\ SuccessIsRecorded /\ ContextFileIsWhole

IInv == Chosen /\ RowsSoFar /\ Undecided /\ SearchInv /\ DepthInv /\ ResultInv
-----------------------------------------------------------------------------
LEMMA Types ==
    /\ Marks \in Seq(Nat) /\ Positions \in Nat \ {0}
    /\ Windows \subseteq Nat
    /\ \A f \in Counts : \A d \in Range(Marks) \union Windows : Reaches(f, d)
BY GatesAssumption

LEMMA NeedlesNat == Needles \in Nat /\ Needles >= 1
<1>1. IsFiniteSet(DOMAIN Marks)
    BY FS_Interval, Types
<1>2. IsFiniteSet(Shallower)
    BY <1>1, FS_Subset DEF Shallower
<1> QED
    BY <1>2, FS_CardinalityType, Types DEF Needles

(* The depth of a request of the context gate, and what is known of it.    *)
LEMMA CaseDepth ==
    ASSUME Chosen, kind = "context", Len(rows) < Len(cases)
    PROVE  /\ Case.depth \in Nat /\ Case.depth <= window
           /\ Reaches(count, Case.depth)
<1> DEFINE i == Len(rows) + 1
<1>1. cases = ContextCases
    BY DEF Chosen
<1>2. i \in 1 .. Needles + 2
    BY <1>1, NeedlesNat DEF Chosen, ContextCases
<1>3. Case.depth = IF i \in Shallower THEN Marks[i] ELSE window
    BY <1>1, <1>2 DEF Case, ContextCases
<1>4. Case.depth \in Range(Marks) \union Windows /\ Case.depth <= window
    <2>1. CASE i \in Shallower
        BY <1>3, <2>1, Types DEF Shallower, Range, Chosen
    <2>2. CASE i \notin Shallower
        BY <1>3, <2>2, Types DEF Chosen
    <2> QED
        BY <2>1, <2>2
<1>5. Range(Marks) \union Windows \subseteq Nat
    <2>1. \A j \in DOMAIN Marks : Marks[j] \in Nat
        BY Types
    <2> QED
        BY <2>1, Types DEF Range
<1> QED
    BY <1>4, <1>5, Types DEF Chosen

(* What is assumed of a tokenizer, in the form the proofs need.            *)
LEMMA Counting ==
    ASSUME Chosen
    PROVE  /\ DOMAIN count \subseteq Nat /\ \A n \in DOMAIN count : count[n] \in Nat
           /\ \A m, n \in DOMAIN count : m < n => count[m] < count[n]
           /\ \A n \in DOMAIN count : \A m \in Nat : m <= n => m \in DOMAIN count
<1>1. \A f \in Counts :
         /\ Grows(f) /\ DOMAIN f \subseteq Nat /\ \A n \in DOMAIN f : f[n] \in Nat
         /\ \A n \in DOMAIN f : 0 .. n \subseteq DOMAIN f
    BY GatesAssumption
<1> QED
    BY <1>1 DEF Chosen, Grows

LEMMA Sizes == /\ Reserve \in Nat /\ Slack \in Nat /\ Budget \in Nat
               /\ LongBudget \in Nat /\ LongExtra \in Nat
               /\ Budget <= Reserve /\ LongBudget + LongExtra <= Reserve
               /\ \A w \in Windows : w \in Nat /\ Reserve <= w
BY GatesAssumption

LEMMA DepthSizes == /\ Fractions \in Seq(Nat) /\ Fractions # <<>>
                    /\ MinDepth \in Nat /\ MinUsable \in Nat /\ MinDepth <= MinUsable
                    /\ Frame \in Nat /\ Needle \in Nat
BY GatesAssumption

LEMMA UsableInt == Chosen => Usable \in Int
BY Sizes DEF Chosen, Usable

LEMMA InitIInv == Init => IInv
<1> SUFFICES ASSUME Init PROVE IInv
    OBVIOUS
<1> QED
    BY DEF Init, IInv, Chosen, Cases, Pcs, RowsSoFar, Undecided, SearchInv, Growing, Searching,
           LongestPrompt, BestFits, DepthInv, ResultInv, PassedIsComplete, SuccessIsRecorded,
           ContextFileIsWhole, NoFile, Torn
-----------------------------------------------------------------------------
(* The invariants of the search depend on these variables alone.           *)
LEMMA SearchUnchanged ==
    ASSUME IInv, UNCHANGED <<kind, window, count, cases, rows, search>>,
           pc' \in {"grow", "search", "ask"} => pc' = pc
    PROVE  SearchInv'
<1>1. Target' = Target /\ Case' = Case
    BY DEF Target, Case
<1> QED
    BY <1>1 DEF IInv, SearchInv, search, Growing, Searching, LongestPrompt, BestFits

(* A step that leaves the file alone and gives no exit code of 0.          *)
LEMMA ResultUnchanged ==
    ASSUME IInv, UNCHANGED <<kind, file>>,
           exit' # "ok" \/ (exit' = exit /\ runs' = runs)
    PROVE  ResultInv'
BY DEF IInv, ResultInv, PassedIsComplete, SuccessIsRecorded, ContextFileIsWhole

(* The depths depend on these variables alone.                             *)
LEMMA DepthUnchanged ==
    ASSUME IInv, UNCHANGED <<kind, window, cases>>,
           kind = "niah" /\ pc' \in {"pad", "next", "ask", "write"} =>
              pc' = pc \/ pc \in {"next", "ask", "write"}
    PROVE  DepthInv'
<1>1. Usable' = Usable
    BY DEF Usable
<1>2. Padded' = Padded
    BY <1>1 DEF Padded
<1> QED
    BY <1>1, <1>2 DEF IInv, DepthInv

LEMMA StepChosen ==
    ASSUME IInv, UNCHANGED <<kind, window, count>>, pc' \in Pcs,
           cases' = cases \/ kind # "context" \/ cases' = ContextCases,
           rows' \in Seq(BOOLEAN), low' \in Nat, high' \in Int, best' \in Int
    PROVE  Chosen'
<1>1. ContextCases' = ContextCases
    BY DEF ContextCases, Needles, Shallower
<1> QED
    BY <1>1 DEF IInv, Chosen

-----------------------------------------------------------------------------
LEMMA StartKeeps == IInv /\ Start => IInv'
<1> SUFFICES ASSUME IInv, Start PROVE IInv'
    OBVIOUS
<1>1. Chosen'
    BY StepChosen DEF Start, Cases, search, IInv, Chosen, Pcs
<1>2. RowsSoFar' /\ Undecided'
    BY DEF Start, IInv, RowsSoFar, Undecided
<1>3. SearchInv'
    BY DEF Start, search, IInv, SearchInv, Growing, Searching, LongestPrompt, BestFits
<1>4. ResultInv'
    BY ResultUnchanged DEF Start
<1>5. DepthInv'
    BY DEF Start, DepthInv
<1> QED
    BY <1>1, <1>2, <1>3, <1>4, <1>5 DEF IInv

(* The depths that the fractions give lie in the window, differ, and are   *)
(* not more than the fractions.                                            *)
LEMMA Fractional ==
    ASSUME Chosen, Usable >= MinUsable
    PROVE  cases' = FractionCases /\ Usable' = Usable => Padded'
<1> DEFINE S == {Fraction(Fractions[i]) : i \in DOMAIN Fractions}
           Below(d) == {e \in S : e < d}
           depth == [i \in 1 .. Cardinality(S) |-> CHOOSE d \in S : Cardinality(Below(d)) = i - 1]
<1>1. /\ Usable \in Int /\ MinDepth \in Nat /\ MinDepth <= Usable
      /\ DOMAIN Fractions = 1 .. Len(Fractions) /\ Len(Fractions) \in Nat /\ Len(Fractions) >= 1
      /\ \A i \in DOMAIN Fractions : Fractions[i] \in Nat
    BY UsableInt, DepthSizes
<1>2. S \subseteq MinDepth .. Usable
    <2> SUFFICES ASSUME NEW i \in DOMAIN Fractions PROVE Fraction(Fractions[i]) \in MinDepth .. Usable
        OBVIOUS
    <2>1. Usable * Fractions[i] \in Int
        BY <1>1
    <2>2. (Usable * Fractions[i]) \div 100 \in Int
        BY <2>1
    <2>3. Clamp((Usable * Fractions[i]) \div 100) \in Int
          /\ Clamp((Usable * Fractions[i]) \div 100) <= Usable
        BY <1>1, <2>2 DEF Clamp
    <2> QED
        BY <1>1, <2>3 DEF Fraction
<1>3. IsFiniteSet(S) /\ Cardinality(S) \in Nat /\ Cardinality(S) <= Len(Fractions) /\ Cardinality(S) >= 1
    <2> DEFINE f == [i \in DOMAIN Fractions |-> Fraction(Fractions[i])]
    <2>1. f \in Surjection(DOMAIN Fractions, S)
        BY DEF Surjection
    <2>2. IsFiniteSet(DOMAIN Fractions) /\ Cardinality(DOMAIN Fractions) = Len(Fractions)
        BY <1>1, FS_Interval
    <2> HIDE DEF f
    <2>3. IsFiniteSet(S) /\ Cardinality(S) <= Len(Fractions)
        BY <2>1, <2>2, FS_Surjection
    <2>4. Fraction(Fractions[1]) \in S
        BY <1>1
    <2>5. S # {}
        BY <2>4
    <2> HIDE DEF S
    <2> QED
        BY <2>3, <2>5, FS_CardinalityType, FS_EmptySet
<1> HIDE DEF S
<1>4. ASSUME NEW d \in S
      PROVE  /\ Below(d) \subseteq S /\ d \notin Below(d)
             /\ IsFiniteSet(Below(d)) /\ Cardinality(Below(d)) \in Nat
    <2>1. Below(d) \subseteq S /\ d \notin Below(d)
        BY <1>2
    <2> HIDE DEF Below
    <2> QED
        BY <1>3, <2>1, FS_Subset, FS_CardinalityType
<1>5. ASSUME NEW d \in S, NEW e \in S, d < e PROVE Cardinality(Below(d)) < Cardinality(Below(e))
    <2>1. d \in Int /\ e \in Int /\ \A x \in S : x \in Int
        BY <1>2
    <2>2. Below(d) \subseteq Below(e) /\ d \in Below(e)
        <3>1. ASSUME NEW x \in Below(d) PROVE x \in Below(e)
            BY <1>5, <2>1
        <3> QED
            BY <1>5, <3>1
    <2> HIDE DEF Below
    <2>3. Cardinality(Below(d)) <= Cardinality(Below(e)) /\ Cardinality(Below(d)) # Cardinality(Below(e))
        BY <1>4, <2>2, FS_Subset
    <2> QED
        BY <1>4, <2>3
<1> HIDE DEF Below
<1>6. ASSUME NEW d \in S PROVE Cardinality(Below(d)) \in 0 .. Cardinality(S) - 1
    <2>1. Cardinality(Below(d)) <= Cardinality(S) /\ Cardinality(Below(d)) # Cardinality(S)
        BY <1>3, <1>4, FS_Subset
    <2> QED
        BY <1>3, <1>4, <2>1
<1>7. ASSUME NEW i \in 1 .. Cardinality(S) PROVE \E d \in S : Cardinality(Below(d)) = i - 1
    <2> DEFINE T == 0 .. Cardinality(S) - 1
               rank == [d \in S |-> Cardinality(Below(d))]
    <2>1. rank \in [S -> T]
        BY <1>6
    <2>2. \A d, e \in S : d # e => rank[d] # rank[e]
        <3> SUFFICES ASSUME NEW d \in S, NEW e \in S, d # e PROVE rank[d] # rank[e]
            OBVIOUS
        <3>1. d < e \/ e < d
            BY <1>2
        <3> QED
            BY <1>4, <1>5, <3>1
    <2>3. rank \in Injection(S, T)
        BY <2>1, <2>2 DEF Injection, IsInjective
    <2>4. IsFiniteSet(T) /\ Cardinality(T) = Cardinality(S)
        <3>1. 0 \in Int /\ Cardinality(S) - 1 \in Int
            BY <1>3
        <3> QED
            BY <1>3, <3>1, FS_Interval
    <2> HIDE DEF rank
    <2>5. i - 1 \in T
        BY <1>3
    <2> HIDE DEF T
    <2>6. rank \in Surjection(S, T)
        BY <1>3, <2>3, <2>4, FS_Injection
    <2>7. PICK d \in S : rank[d] = i - 1
        BY <2>5, <2>6 DEF Surjection
    <2> QED
        BY <2>7 DEF rank
<1>8. ASSUME NEW i \in 1 .. Cardinality(S) PROVE depth[i] \in S /\ Cardinality(Below(depth[i])) = i - 1
    <2>1. depth[i] = CHOOSE d \in S : Cardinality(Below(d)) = i - 1
        OBVIOUS
    <2> HIDE DEF depth
    <2> QED
        BY <1>7, <2>1
<1>9. FractionCases = [i \in 1 .. Cardinality(S) |-> NeedleAt(depth[i])]
    BY DEF FractionCases, S, Below
<1> HIDE DEF depth
<1>10. ASSUME NEW i \in 2 .. Cardinality(S) PROVE depth[i - 1] < depth[i]
    <2>1. i \in 1 .. Cardinality(S) /\ i - 1 \in 1 .. Cardinality(S) /\ i \in Int
        BY <1>3
    <2>2. /\ depth[i] \in S /\ Cardinality(Below(depth[i])) = i - 1
          /\ depth[i - 1] \in S /\ Cardinality(Below(depth[i - 1])) = i - 1 - 1
        BY <1>8, <2>1
    <2>3. depth[i] \in Int /\ depth[i - 1] \in Int
        <3>1. \A x \in S : x \in Int
            BY <1>1, <1>2
        <3> QED
            BY <2>2, <3>1
    <2>4. ~(depth[i] < depth[i - 1]) /\ depth[i] # depth[i - 1]
        BY <1>5, <2>1, <2>2
    <2> QED
        BY <2>3, <2>4
<1>11. FractionCases \in Seq([depth : MinDepth .. Usable, ask : {"needle"}])
    <2>1. ASSUME NEW i \in 1 .. Cardinality(S)
          PROVE  NeedleAt(depth[i]) \in [depth : MinDepth .. Usable, ask : {"needle"}]
        BY <1>2, <1>8 DEF NeedleAt
    <2> DEFINE C == [depth : MinDepth .. Usable, ask : {"needle"}]
    <2> HIDE DEF C
    <2>2. FractionCases \in [1 .. Cardinality(S) -> C]
        BY <1>9, <2>1 DEF C
    <2>3. FractionCases \in Seq(C)
        BY <1>3, <2>2
    <2> QED
        BY <2>3 DEF C
<1>12. Len(FractionCases) = Cardinality(S) /\ FractionCases # <<>>
    BY <1>3, <1>9
<1>13. \A i \in 2 .. Cardinality(S) : FractionCases[i - 1].depth < FractionCases[i].depth
    BY <1>3, <1>10, <1>9 DEF NeedleAt
<1> QED
    BY <1>3, <1>11, <1>12, <1>13 DEF Padded

LEMMA FirstWriteKeeps == IInv /\ FirstWrite => IInv'
<1> SUFFICES ASSUME IInv, FirstWrite PROVE IInv'
    OBVIOUS
<1>0. /\ pc = "start" /\ pc' \in {"next", "pad", "idle"}
      /\ UNCHANGED <<kind, window, count, runs, rows, search>>
      /\ pc' # "idle" => exit' = exit
      /\ exit' = exit \/ exit' = "failed"
      /\ file' = file \/ (kind = "context" /\ file' = Result(FALSE) /\ exit' = exit)
      /\ kind = "niah" => pc' # "next"
      /\ \/ cases' = cases /\ pc' # "pad"
         \/ pc' = "pad" /\ kind = "niah" /\ Usable >= MinUsable /\ cases' = FractionCases
    BY DEF FirstWrite, Step, Move, Exit, Atomic, InitialVerdict
<1>1. Chosen'
    BY <1>0, StepChosen DEF search, IInv, Chosen, Pcs
<1>2. RowsSoFar' /\ Undecided'
    BY <1>0 DEF IInv, RowsSoFar, Undecided
<1>3. SearchInv'
    BY <1>0 DEF search, IInv, SearchInv, Growing, Searching, LongestPrompt, BestFits
<1>4. ResultInv'
    <2>1. CASE file' = file
        BY <1>0, <2>1, ResultUnchanged
    <2>2. CASE kind = "context" /\ file' = Result(FALSE) /\ exit' = exit
        BY <1>0, <2>2 DEF IInv, Undecided, ResultInv, PassedIsComplete, SuccessIsRecorded,
                          ContextFileIsWhole, Result, Torn
    <2> QED
        BY <1>0, <2>1, <2>2
<1>5. DepthInv'
    <2>1. Usable' = Usable
        BY <1>0 DEF Usable
    <2>2. pc' = "pad" => Padded'
        BY <1>0, <2>1, Fractional DEF IInv
    <2> QED
        BY <1>0, <2>2 DEF DepthInv
<1> QED
    BY <1>1, <1>2, <1>3, <1>4, <1>5 DEF IInv

(* A depth that is added is deeper than the last, and not too deep.        *)
LEMMA PadKeeps == IInv /\ Pad => IInv'
<1> SUFFICES ASSUME IInv, Pad PROVE IInv'
    OBVIOUS
<1>0. /\ pc = "pad" /\ pc' \in {"pad", "next"}
      /\ UNCHANGED <<kind, window, count, runs, rows, search, file, exit>>
      /\ \/ MoreDepths /\ pc' = "pad" /\ cases' = Append(cases, NeedleAt(Deeper(Last(cases).depth)))
         \/ ~MoreDepths /\ pc' = "next" /\ cases' = cases
    BY DEF Pad, Step, Move
<1>1. kind = "niah" /\ Padded
    BY <1>0 DEF IInv, RowsSoFar, DepthInv
<1>2. Chosen'
    BY <1>0, <1>1, StepChosen DEF search, IInv, Chosen, Pcs
<1>3. RowsSoFar' /\ Undecided'
    BY <1>0, <1>1 DEF IInv, RowsSoFar, Undecided
<1>4. SearchInv'
    BY <1>0 DEF search, IInv, SearchInv, Growing, Searching, LongestPrompt, BestFits
<1>5. ResultInv'
    BY <1>0, ResultUnchanged
<1>6. Usable' = Usable
    BY <1>0 DEF Usable
<1> DEFINE C == [depth : MinDepth .. Usable, ask : {"needle"}]
<1>7. /\ Usable \in Int /\ MinDepth \in Nat
      /\ cases \in Seq(C) /\ Len(cases) \in Nat \ {0} /\ Len(Fractions) \in Nat
      /\ Last(cases) = cases[Len(cases)] /\ cases[Len(cases)] \in C
      /\ Last(cases).depth \in MinDepth .. Usable
    <2>1. Usable \in Int /\ MinDepth \in Nat /\ Len(Fractions) \in Nat
        BY UsableInt, DepthSizes DEF IInv
    <2>2. cases \in Seq(C) /\ cases # <<>>
        BY <1>1 DEF Padded
    <2> HIDE DEF C
    <2>3. Len(cases) \in Nat \ {0} /\ Last(cases) = cases[Len(cases)] /\ cases[Len(cases)] \in C
        BY <2>2 DEF Last
    <2> QED
        BY <2>1, <2>2, <2>3 DEF C
<1>8. CASE MoreDepths /\ pc' = "pad" /\ cases' = Append(cases, NeedleAt(Deeper(Last(cases).depth)))
    <2> DEFINE d == Last(cases).depth
    <2>1. d \in Int /\ d < Usable /\ MinDepth <= d
        BY <1>7, <1>8 DEF MoreDepths
    <2> HIDE DEF d
    <2>2. Deeper(d) \in MinDepth .. Usable /\ d < Deeper(d)
        BY <1>7, <2>1 DEF Deeper, Clamp
    <2>3. NeedleAt(Deeper(d)) \in C /\ NeedleAt(Deeper(d)).depth = Deeper(d)
        BY <2>2 DEF NeedleAt
    <2>4. /\ cases' \in Seq(C) /\ Len(cases') = Len(cases) + 1
          /\ \A i \in 1 .. Len(cases) : cases'[i] = cases[i]
          /\ cases'[Len(cases) + 1] = NeedleAt(Deeper(d))
        BY <1>7, <1>8, <2>3 DEF d
    <2>5. Len(cases') <= Len(Fractions)
        BY <1>7, <1>8, <2>4 DEF MoreDepths
    <2>6. ASSUME NEW i \in 2 .. Len(cases') PROVE cases'[i - 1].depth < cases'[i].depth
        <3>1. CASE i <= Len(cases)
            <4>1. i \in 2 .. Len(cases) /\ i \in 1 .. Len(cases) /\ i - 1 \in 1 .. Len(cases)
                BY <1>7, <2>4, <3>1
            <4>2. cases[i - 1].depth < cases[i].depth
                BY <1>1, <4>1 DEF Padded
            <4> QED
                BY <2>4, <4>1, <4>2
        <3>2. CASE i = Len(cases) + 1
            <4>1. cases'[i - 1] = cases[Len(cases)] /\ cases'[i] = NeedleAt(Deeper(d))
                BY <1>7, <2>4, <3>2
            <4> QED
                BY <1>7, <2>2, <2>3, <4>1 DEF d
        <3> QED
            BY <1>7, <2>4, <3>1, <3>2
    <2>7. Padded'
        BY <1>6, <1>7, <2>4, <2>5, <2>6 DEF Padded
    <2> QED
        BY <1>2, <1>3, <1>4, <1>5, <1>8, <2>7 DEF IInv, DepthInv
<1>9. CASE ~MoreDepths /\ pc' = "next" /\ cases' = cases
    <2>1. Padded'
        BY <1>1, <1>6, <1>9 DEF Padded
    <2>2. Len(cases) = Len(Fractions) \/ Last(cases).depth = Usable
        BY <1>1, <1>7, <1>9 DEF MoreDepths, Padded
    <2>3. Last(cases)' = Last(cases)
        BY <1>9 DEF Last
    <2>4. Len(cases') = Len(Fractions) \/ Last(cases').depth = Usable'
        BY <1>6, <1>9, <2>2
    <2> QED
        BY <1>2, <1>3, <1>4, <1>5, <1>9, <2>1, <2>4 DEF IInv, DepthInv
<1> QED
    BY <1>0, <1>8, <1>9

LEMMA BeginSearchKeeps == IInv /\ BeginSearch => IInv'
<1> SUFFICES ASSUME IInv, BeginSearch PROVE IInv'
    OBVIOUS
<1>0. /\ pc = "next" /\ Len(rows) < Len(cases)
      /\ UNCHANGED <<kind, window, count, cases, runs, rows, file, exit>>
    BY DEF BeginSearch, MoreToAsk, Step, Move
<1>1. CASE kind = "context" /\ Case.ask # "forced"
    <2>0. pc' = "grow" /\ low' = 0 /\ high' = FirstSize /\ best' = 0
        BY <1>1 DEF BeginSearch, Step, Move
    <2>1. FirstSize \in DOMAIN count
        BY <1>0, <1>1, CaseDepth DEF IInv, Reaches, FirstSize, Target
    <2>2. FirstSize \in Nat
        BY <2>1, Counting DEF IInv
    <2>3. Chosen'
        BY <1>0, <2>0, <2>2, StepChosen DEF IInv, Chosen, Pcs
    <2>4. RowsSoFar' /\ Undecided'
        BY <1>0, <1>1, <2>0 DEF IInv, RowsSoFar, Undecided
    <2>5. SearchInv'
        BY <1>0, <2>0, <2>1, <2>2 DEF SearchInv, Growing, Searching, LongestPrompt, BestFits
    <2> QED
        BY <1>0, <2>3, <2>4, <2>5, ResultUnchanged, DepthUnchanged DEF IInv
<1>2. CASE ~(kind = "context" /\ Case.ask # "forced")
    <2>0. pc' = "ask" /\ UNCHANGED search
        BY <1>2 DEF BeginSearch, Step, Move
    <2>1. Chosen'
        BY <1>0, <2>0, StepChosen DEF IInv, Chosen, Pcs, search
    <2>2. RowsSoFar' /\ Undecided'
        BY <1>0, <2>0 DEF IInv, RowsSoFar, Undecided
    <2>3. Case' = Case
        BY <1>0 DEF Case
    <2>4. SearchInv'
        BY <1>0, <1>2, <2>0, <2>3
           DEF IInv, SearchInv, Growing, Searching, LongestPrompt, BestFits, search
    <2> QED
        BY <1>0, <2>1, <2>2, <2>4, ResultUnchanged, DepthUnchanged DEF IInv
<1> QED
    BY <1>1, <1>2

LEMMA GrowKeeps == IInv /\ Grow => IInv'
<1> SUFFICES ASSUME IInv, Grow PROVE IInv'
    OBVIOUS
<1>0. /\ pc = "grow" /\ pc' \in {"grow", "search"} /\ kind = "context"
      /\ UNCHANGED <<kind, window, count, cases, runs, rows, best, file, exit>>
    BY DEF Grow, Step, Move, IInv, RowsSoFar
<1>1. Case.depth \in Nat /\ Reaches(count, Case.depth) /\ Target \in Int
    BY <1>0, CaseDepth, Sizes DEF IInv, RowsSoFar, Target
<1>2. Target' = Target
    BY <1>0 DEF Target, Case
<1>3. high \in DOMAIN count /\ high \in Nat /\ low \in Nat /\ low <= high /\ best = 0
      /\ count[high] \in Nat /\ (low = 0 \/ (low \in DOMAIN count /\ count[low] < Target))
    BY <1>0, Counting DEF IInv, Chosen, SearchInv, Growing
<1>4. RowsSoFar' /\ Undecided'
    BY <1>0 DEF IInv, RowsSoFar, Undecided
<1>5. CASE count[high] < Target
    <2>0. pc' = "grow" /\ low' = high /\ high' = high * 2
        BY <1>5 DEF Grow, Step, Move
    <2>1. 2 * high \in DOMAIN count
        BY <1>1, <1>3, <1>5 DEF Reaches, Target
    <2>2. high * 2 = 2 * high /\ high <= high * 2 /\ high * 2 \in Int
        BY <1>3
    <2>3. Chosen'
        BY <1>0, <1>3, <2>0, <2>2, StepChosen DEF IInv, Chosen, Pcs
    <2>4. SearchInv'
        BY <1>0, <1>2, <1>3, <1>5, <2>0, <2>1, <2>2
           DEF SearchInv, Growing, Searching, LongestPrompt, BestFits
    <2> QED
        BY <1>0, <1>4, <2>3, <2>4, ResultUnchanged, DepthUnchanged DEF IInv
<1>6. CASE ~(count[high] < Target)
    <2>0. pc' = "search" /\ UNCHANGED <<low, high>>
        BY <1>6 DEF Grow, Step, Move
    <2>1. Chosen'
        BY <1>0, <2>0, StepChosen DEF IInv, Chosen, Pcs
    <2>2. \A n \in DOMAIN count : n > high => count[n] > Target
        BY <1>1, <1>3, <1>6, Counting DEF IInv
    <2>3. \A n \in Nat : n <= high => n \in DOMAIN count
        BY <1>3, Counting DEF IInv
    <2>4. SearchInv'
        BY <1>0, <1>2, <1>3, <2>0, <2>2, <2>3
           DEF SearchInv, Growing, Searching, LongestPrompt, BestFits
    <2> QED
        BY <1>0, <1>4, <2>1, <2>4, ResultUnchanged, DepthUnchanged DEF IInv
<1> QED
    BY <1>5, <1>6

LEMMA HalveKeeps == IInv /\ Halve => IInv'
<1> SUFFICES ASSUME IInv, Halve PROVE IInv'
    OBVIOUS
<1> DEFINE mid == (low + high) \div 2
<1>0. /\ pc = "search" /\ pc' = "search" /\ kind = "context" /\ low <= high
      /\ UNCHANGED <<kind, window, count, cases, runs, rows, file, exit>>
    BY DEF Halve, Step, Move, IInv, RowsSoFar
<1>1. Case.depth \in Nat /\ Case.depth <= window /\ Target \in Int /\ Target <= window - Reserve
    BY <1>0, CaseDepth, Sizes DEF IInv, RowsSoFar, Target, Chosen
<1>2. Target' = Target
    BY <1>0 DEF Target, Case
<1>3. low \in Nat /\ high \in Int /\ best \in Int /\ Searching /\ BestFits
    BY DEF IInv, Chosen, SearchInv
<1>4. mid \in Nat /\ low <= mid /\ mid <= high
    BY <1>0, <1>3
<1>5. mid \in DOMAIN count /\ count[mid] \in Nat
    BY <1>0, <1>3, <1>4, Counting DEF IInv, Searching
<1>6. RowsSoFar' /\ Undecided'
    BY <1>0 DEF IInv, RowsSoFar, Undecided
<1> HIDE DEF mid
<1>7. CASE Fits(mid)
    <2>0. best' = count[mid] /\ low' = mid + 1 /\ high' = high
        BY <1>7 DEF Halve, mid
    <2>1. Chosen'
        BY <1>0, <1>4, <1>5, <2>0, StepChosen DEF IInv, Chosen, Pcs
    <2>2. count[mid] <= Target
        BY <1>7 DEF Fits
    <2>3. low' > 0 /\ low' - 1 = mid
        BY <1>4, <2>0
    <2>4. Searching'
        BY <1>0, <1>2, <1>3, <1>5, <2>0, <2>2, <2>3 DEF Searching
    <2>5. BestFits'
        BY <1>0, <1>1, <1>5, <2>0, <2>2, Sizes DEF BestFits, IInv, Chosen
    <2>6. SearchInv'
        BY <1>0, <2>4, <2>5 DEF SearchInv, Growing, LongestPrompt
    <2> QED
        BY <1>0, <1>6, <2>1, <2>6, ResultUnchanged, DepthUnchanged DEF IInv
<1>8. CASE ~Fits(mid)
    <2>0. high' = mid - 1 /\ UNCHANGED <<low, best>>
        BY <1>8 DEF Halve, mid
    <2>1. Chosen'
        BY <1>0, <1>4, <2>0, StepChosen DEF IInv, Chosen, Pcs
    <2>2. count[mid] > Target
        BY <1>1, <1>5, <1>8 DEF Fits
    <2>3. \A n \in DOMAIN count : n > mid - 1 => count[n] > Target
        <3> SUFFICES ASSUME NEW n \in DOMAIN count, n > mid - 1 PROVE count[n] > Target
            OBVIOUS
        <3>1. n = mid \/ n > mid
            BY <1>4, Counting DEF IInv
        <3>2. n > mid => count[mid] < count[n] /\ count[n] \in Nat
            BY <1>5, Counting DEF IInv
        <3> QED
            BY <1>1, <1>5, <2>2, <3>1, <3>2
    <2>4. \A n \in Nat : n <= mid - 1 => n \in DOMAIN count
        BY <1>5, <1>4, Counting DEF IInv
    <2>5. Searching'
        BY <1>0, <1>2, <1>3, <2>0, <2>3, <2>4 DEF Searching
    <2>6. BestFits'
        BY <1>0, <1>3, <2>0 DEF BestFits
    <2>7. SearchInv'
        BY <1>0, <2>5, <2>6 DEF SearchInv, Growing, LongestPrompt
    <2> QED
        BY <1>0, <1>6, <2>1, <2>7, ResultUnchanged, DepthUnchanged DEF IInv
<1> QED
    BY <1>7, <1>8

LEMMA TokenizeFailsKeeps == IInv /\ (TokenizeFails \/ Killed) => IInv'
<1> SUFFICES ASSUME IInv, TokenizeFails \/ Killed PROVE IInv'
    OBVIOUS
<1>0. /\ pc' = "idle" /\ exit' \in {"failed", "killed"}
      /\ UNCHANGED <<kind, window, count, cases, rows, search, file, runs>>
    BY DEF TokenizeFails, Killed, Exit, Step, Move
<1>1. Chosen'
    BY <1>0, StepChosen DEF IInv, Chosen, Pcs, search
<1>2. RowsSoFar' /\ Undecided'
    BY <1>0 DEF RowsSoFar, Undecided
<1>3. SearchInv'
    BY <1>0, SearchUnchanged
<1> QED
    BY <1>0, <1>1, <1>2, <1>3, ResultUnchanged, DepthUnchanged DEF IInv

(* When the halving ends, every size is below low or above high.           *)
LEMMA EndSearchKeeps == IInv /\ EndSearch => IInv'
<1> SUFFICES ASSUME IInv, EndSearch PROVE IInv'
    OBVIOUS
<1>0. /\ pc = "search" /\ low > high /\ kind = "context"
      /\ UNCHANGED <<kind, window, count, cases, runs, rows, search, file>>
      /\ \/ pc' = "idle" /\ exit' = "failed"
         \/ pc' = "ask" /\ exit' = exit /\ ~(best < Target - Slack)
    BY DEF EndSearch, Step, Move, Exit, IInv, RowsSoFar
<1>1. Target \in Int
    BY <1>0, CaseDepth, Sizes DEF IInv, RowsSoFar, Target
<1>2. Target' = Target
    BY <1>0 DEF Target, Case
<1>3. low \in Nat /\ high \in Int /\ best \in Int /\ Searching /\ BestFits
    BY DEF IInv, Chosen, SearchInv
<1>4. Chosen'
    BY <1>0, StepChosen DEF IInv, Chosen, Pcs, search
<1>5. RowsSoFar' /\ Undecided'
    BY <1>0 DEF IInv, RowsSoFar, Undecided
<1>6. best <= Target \/ best = 0
    BY <1>0, <1>3 DEF Searching
<1>7. ASSUME NEW n \in DOMAIN count, count[n] <= Target PROVE count[n] <= best
    <2>1. n \in Nat /\ count[n] \in Nat
        BY Counting DEF IInv
    <2>2. n <= high
        BY <1>0, <1>1, <1>3, <1>7, <2>1 DEF Searching
    <2>3. n < low
        BY <1>0, <1>3, <2>1, <2>2
    <2>4. CASE low > 0 /\ low - 1 \in DOMAIN count /\ best = count[low - 1]
        <3>1. n = low - 1 \/ n < low - 1
            BY <1>3, <2>1, <2>3
        <3>2. n < low - 1 => count[n] < count[low - 1]
            BY <2>4, Counting DEF IInv
        <3> QED
            BY <1>3, <2>1, <2>4, <3>1, <3>2
    <2>5. CASE low \in DOMAIN count /\ count[low] < Target
        <3>1. count[low] > Target /\ count[low] \in Nat
            BY <1>0, <1>3, <2>5, Counting DEF Searching, IInv
        <3> QED
            BY <1>1, <2>5, <3>1
    <2> QED
        BY <1>0, <1>3, <2>1, <2>3, <2>4, <2>5 DEF Searching
<1>8. LongestPrompt'
    BY <1>0, <1>1, <1>2, <1>3, <1>6, <1>7, Sizes DEF LongestPrompt, search
<1>9. SearchInv'
    BY <1>0, <1>3, <1>8 DEF SearchInv, Growing, Searching, BestFits, search
<1> QED
    BY <1>0, <1>4, <1>5, <1>9, ResultUnchanged, DepthUnchanged DEF IInv

LEMMA AskKeeps == IInv /\ Ask => IInv'
<1> SUFFICES ASSUME IInv, Ask PROVE IInv'
    OBVIOUS
<1>0. /\ pc = "ask"
      /\ UNCHANGED <<kind, window, count, cases, runs, search, file>>
      /\ \/ /\ \E row \in BOOLEAN : rows' = Append(rows, row)
            /\ pc' = IF kind = "context" THEN "keep" ELSE "next"
            /\ exit' = exit
         \/ rows' = rows /\ pc' = "idle" /\ exit' = "failed"
    BY DEF Ask, Step, Move, Exit, Rows
<1>1. rows \in Seq(BOOLEAN) /\ rows' \in Seq(BOOLEAN)
    BY <1>0 DEF IInv, Chosen
<1>2. Chosen'
    BY <1>0, <1>1, StepChosen DEF IInv, Chosen, Pcs, search
<1>3. RowsSoFar' /\ Undecided'
    BY <1>0, <1>1 DEF IInv, RowsSoFar, Undecided
<1>4. SearchInv'
    BY <1>0 DEF IInv, SearchInv, Growing, Searching, LongestPrompt, BestFits, search
<1> QED
    BY <1>0, <1>2, <1>3, <1>4, ResultUnchanged, DepthUnchanged DEF IInv

LEMMA KeepRowKeeps == IInv /\ KeepRow => IInv'
<1> SUFFICES ASSUME IInv, KeepRow PROVE IInv'
    OBVIOUS
<1>0. /\ pc = "keep" /\ kind = "context" /\ rows # <<>> /\ rows \in Seq(BOOLEAN)
      /\ \A i \in 1 .. Len(rows) - 1 : rows[i]
      /\ UNCHANGED <<kind, window, count, cases, runs, rows, search>>
      /\ file' = Result(Verdict)
      /\ \/ pc' = "idle" /\ exit' = "failed"
         \/ pc' = "idle" /\ exit' = "ok" /\ rows[Len(rows)] /\ Complete
         \/ pc' = "next" /\ exit' = exit /\ rows[Len(rows)]
    BY DEF KeepRow, Atomic, Step, Move, Exit, Last, IInv, Chosen, RowsSoFar
<1>1. Chosen'
    BY <1>0, StepChosen DEF IInv, Chosen, Pcs, search
<1>2. rows[Len(rows)] => \A i \in DOMAIN rows : rows[i]
    BY <1>0
<1>3. RowsSoFar' /\ Undecided'
    BY <1>0, <1>2 DEF IInv, RowsSoFar, Undecided
<1>4. SearchInv'
    BY <1>0 DEF IInv, SearchInv, Growing, Searching, LongestPrompt, BestFits, search
<1>5. PassedIsComplete' /\ ContextFileIsWhole'
    BY <1>0 DEF PassedIsComplete, ContextFileIsWhole, Result, Torn, Verdict, Complete
<1>6. SuccessIsRecorded'
    BY <1>0, <1>2 DEF IInv, Undecided, SuccessIsRecorded, Result, Verdict
<1> QED
    BY <1>0, <1>1, <1>3, <1>4, <1>5, <1>6, DepthUnchanged DEF IInv, ResultInv

LEMMA WriteResultKeeps == IInv /\ WriteResult => IInv'
<1> SUFFICES ASSUME IInv, WriteResult PROVE IInv'
    OBVIOUS
<1>0. /\ kind # "context"
      /\ UNCHANGED <<kind, window, count, cases, runs, rows, search>>
      /\ \/ pc' = "write" /\ exit' = exit /\ file' = Torn /\ pc = "next"
         \/ pc' = "idle" /\ exit' = ExitCode /\ file' = Result(Verdict)
    BY DEF WriteResult, Step, Move, Exit
<1>1. Chosen'
    BY <1>0, StepChosen DEF IInv, Chosen, Pcs, search
<1>2. RowsSoFar' /\ Undecided'
    BY <1>0 DEF IInv, RowsSoFar, Undecided
<1>3. SearchInv'
    BY <1>0, SearchUnchanged
<1>4. PassedIsComplete'
    <2>1. CASE file' = Torn
        BY <2>1 DEF PassedIsComplete, Torn
    <2>2. CASE file' = Result(Verdict)
        <3>1. file'.passed = Verdict /\ file'.rows = rows /\ file'.cases = cases
            BY <1>0, <2>2 DEF Result
        <3>2. Verdict => Len(rows) = Len(cases) /\ \A i \in DOMAIN rows : rows[i]
            BY DEF Verdict, Complete
        <3> QED
            BY <3>1, <3>2 DEF PassedIsComplete
    <2> QED
        BY <1>0, <2>1, <2>2
<1>5. SuccessIsRecorded'
    <2>1. CASE file' = Torn /\ exit' = exit /\ pc = "next"
        BY <2>1 DEF IInv, Undecided, SuccessIsRecorded
    <2>2. CASE exit' = ExitCode /\ file' = Result(Verdict)
        <3>1. exit' = "ok" => Verdict
            BY <2>2 DEF ExitCode
        <3>2. file'.state = "whole" /\ file'.run = runs /\ file'.passed = Verdict
            BY <2>2 DEF Result
        <3> QED
            BY <1>0, <3>1, <3>2 DEF SuccessIsRecorded
    <2> QED
        BY <1>0, <2>1, <2>2
<1>6. ContextFileIsWhole'
    BY <1>0 DEF ContextFileIsWhole
<1> QED
    BY <1>0, <1>1, <1>2, <1>3, <1>4, <1>5, <1>6, DepthUnchanged DEF IInv, ResultInv

(* The invariant is inductive.                                             *)
LEMMA NextIInv == IInv /\ [Next]_vars => IInv'
<1> SUFFICES ASSUME IInv, [Next]_vars PROVE IInv'
    OBVIOUS
<1>1. CASE UNCHANGED vars
    <2>0. UNCHANGED <<kind, window, count, cases, pc, rows, search, low, high, best, file, exit, runs>>
        BY <1>1 DEF vars, search
    <2>1. Chosen'
        BY <2>0, StepChosen DEF IInv, Chosen
    <2>2. RowsSoFar' /\ Undecided'
        BY <2>0 DEF IInv, RowsSoFar, Undecided
    <2> QED
        BY <2>0, <2>1, <2>2, SearchUnchanged, ResultUnchanged, DepthUnchanged DEF IInv
<1>2. CASE Next
    BY <1>2, StartKeeps, FirstWriteKeeps, PadKeeps, BeginSearchKeeps, GrowKeeps, HalveKeeps,
       TokenizeFailsKeeps, EndSearchKeeps, AskKeeps, KeepRowKeeps, WriteResultKeeps
       DEF Next, GateStep
<1> QED
    BY <1>1, <1>2

(* Of the invariant: the last prompt, with the longer question and answer  *)
(* that follow it, fits in the window as well.                             *)
LEMMA FittingInWindow == IInv => FitsWindow
<1> SUFFICES ASSUME IInv, pc = "ask", kind = "context"
             PROVE  best + (IF Case.ask = "forced" THEN LongExtra + LongBudget ELSE Budget) <= window
    BY DEF FitsWindow
<1>1. best \in Int /\ window \in Nat /\ Reserve <= window /\ (best = 0 \/ best <= window - Reserve)
    BY Sizes DEF IInv, Chosen, SearchInv, BestFits
<1> QED
    BY <1>1, Sizes

(* Half of what is left before the needle and the rest behind it are all   *)
(* that is left.                                                           *)
LEMMA DepthsFromInv == IInv => DepthsDiffer
<1> SUFFICES ASSUME IInv, kind = "niah", pc \in {"next", "ask", "write"}
             PROVE  /\ \A i \in 2 .. Len(cases) : cases[i - 1].depth < cases[i].depth
                    /\ Len(cases) = Len(Fractions) \/ Last(cases).depth = Usable
                    /\ \A i \in DOMAIN cases : cases[i].depth \in MinDepth .. Usable
                    /\ pc = "ask" /\ ~TooSmall => NeedlePrompt = Case.depth
    BY DEF DepthsDiffer
<1> DEFINE C == [depth : MinDepth .. Usable, ask : {"needle"}]
<1>1. Padded /\ (Len(cases) = Len(Fractions) \/ Last(cases).depth = Usable)
    BY DEF IInv, DepthInv
<1>2. cases \in Seq(C)
    BY <1>1 DEF Padded
<1>3. ASSUME NEW i \in DOMAIN cases PROVE cases[i].depth \in MinDepth .. Usable
    <2> HIDE DEF C
    <2>1. cases[i] \in C
        BY <1>2
    <2> QED
        BY <2>1 DEF C
<1>4. ASSUME pc = "ask" PROVE NeedlePrompt = Case.depth
    <2>1. Len(rows) + 1 \in DOMAIN cases
        BY <1>2, <1>4 DEF IInv, Chosen, RowsSoFar
    <2>2. Case.depth \in Int
        BY <1>3, <2>1, UsableInt, DepthSizes DEF Case, IInv
    <2> QED
        <3> DEFINE remaining == Case.depth - Frame - Needle
        <3>1. remaining \in Int /\ remaining \div 2 \in Int
            BY <2>2, DepthSizes
        <3>2. NeedlePrompt
                = Frame + (remaining \div 2) + Needle + (remaining - (remaining \div 2))
            BY DEF NeedlePrompt
        <3> HIDE DEF remaining
        <3>3. Frame + (remaining \div 2) + Needle + (remaining - (remaining \div 2))
                = Frame + Needle + remaining
            BY <3>1, DepthSizes
        <3> QED
            BY <2>2, <3>2, <3>3, DepthSizes DEF remaining
<1> QED
    BY <1>1, <1>3, <1>4 DEF Padded
-----------------------------------------------------------------------------
(* The prompt that prompt_for returns is the longest that does not exceed  *)
(* its target, whatever the tokenizer and the depth.                       *)
THEOREM PromptIsLongest == Spec => []LongestPrompt
<1>1. IInv => LongestPrompt
    BY DEF IInv, SearchInv
<1> QED
    BY <1>1, InitIInv, NextIInv, PTL DEF Spec

(* Every prompt of the context gate fits in the window with its answer.    *)
THEOREM PromptsFit == Spec => []FitsWindow
BY InitIInv, NextIInv, FittingInWindow, PTL DEF Spec

(* The depths at which the needle's gate asks ascend, one for each         *)
(* fraction unless the window has no deeper one, and lie in the window; a  *)
(* prompt has exactly the depth that it is reported for.                   *)
THEOREM DepthsAscend == Spec => []DepthsDiffer
BY InitIInv, NextIInv, DepthsFromInv, PTL DEF Spec

(* A result file says passed only of a run in which every request passed,  *)
(* an exit code of 0 is backed by such a file, and the context gate's file *)
(* can always be read.                                                     *)
THEOREM PassesAreReal == Spec => [](PassedIsComplete /\ SuccessIsRecorded /\ ContextFileIsWhole)
<1>1. IInv => PassedIsComplete /\ SuccessIsRecorded /\ ContextFileIsWhole
    BY DEF IInv, ResultInv
<1> QED
    BY <1>1, InitIInv, NextIInv, PTL DEF Spec
=============================================================================
