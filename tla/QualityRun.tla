----------------------------- MODULE QualityRun -----------------------------
(***************************************************************************)
(* scripts/run_quality_set.py: the questions of the set are asked in       *)
(* order, every graded row is appended to <run-id>.rows.jsonl and flushed, *)
(* and a run that died is resumed from that file.                          *)
(*                                                                         *)
(* Simplifications.                                                        *)
(*  - A question is its position in the set and a row is the id of its     *)
(*    question: what the model answered and how it was graded decides      *)
(*    nothing about which rows the report has.                             *)
(*  - A line that does not parse is Junk.  What follows the last newline   *)
(*    is the tail: nothing, a row whose newline is missing, or Junk.       *)
(***************************************************************************)
EXTENDS Integers, Sequences

CONSTANTS N,           \* questions in the set
          MaxCrashes   \* how often the process dies

ASSUME SetAssumption == N \in Nat /\ MaxCrashes \in Nat

Junk == 0
Clean == -1
Questions == 1 .. N

VARIABLES
    pc,        \* down, collecting, rewriting, reporting, done
    lines,     \* complete lines of the rows file
    tail,      \* what follows them
    out,       \* out_rows of the process
    i,         \* the question the loop has come to
    summary,   \* the rows the summary file reports, <<>> if there is none
    crashes

vars == <<pc, lines, tail, out, i, summary, crashes>>
file == <<lines, tail>>

RowsOf(seq) == {seq[k] : k \in DOMAIN seq}

Init ==
    /\ pc = "down"
    /\ lines = <<>> /\ tail = Clean /\ summary = <<>>
    /\ out = <<>> /\ i = 1
    /\ crashes = 0
-----------------------------------------------------------------------------
(* The rows in front of the first line that does not parse.                *)
Parsed(n) ==
    IF n = Len(lines) /\ tail \in Questions THEN Append(lines, tail)
    ELSE SubSeq(lines, 1, n)

(* Start or resume: n lines parse and the loop breaks at the next one.     *)
Start ==
    /\ pc \in {"down", "done"}
    /\ pc' = "collecting"
    /\ i' = 1
    /\ \E n \in 0 .. Len(lines) :
          /\ \A k \in 1 .. n : lines[k] # Junk
          /\ n < Len(lines) => lines[n + 1] = Junk
          /\ out' = Parsed(n)
    /\ UNCHANGED <<file, summary, crashes>>

(* A resume that counts the lines of the file.                             *)
CountedDone(q) == q <= Len(lines)

(* A resume that forgets what it read.                                     *)
NeverDone(q) == FALSE

(* r["id"] in done_ids                                                     *)
Done(q) == q \in RowsOf(out)

Skip ==
    /\ pc = "collecting" /\ i <= N
    /\ Done(i)
    /\ i' = i + 1
    /\ UNCHANGED <<pc, file, out, summary, crashes>>

(* Ask, grade, append and flush: a tail without newline becomes one line   *)
(* with the new row.                                                       *)
Collect ==
    /\ pc = "collecting" /\ i <= N
    /\ ~Done(i)
    /\ out' = Append(out, i)
    /\ lines' = Append(lines, IF tail = Clean THEN i ELSE Junk)
    /\ tail' = Clean
    /\ i' = i + 1
    /\ UNCHANGED <<pc, summary, crashes>>

(* write_text truncates the rows file ...                                  *)
Truncate ==
    /\ pc = "collecting" /\ i > N
    /\ pc' = "rewriting"
    /\ lines' = <<>> /\ tail' = Clean
    /\ UNCHANGED <<out, i, summary, crashes>>

(* ... and writes out_rows.                                                *)
Rewrite ==
    /\ pc = "rewriting"
    /\ pc' = "reporting"
    /\ lines' = out
    /\ UNCHANGED <<tail, out, i, summary, crashes>>

Report ==
    /\ pc = "reporting"
    /\ pc' = "done"
    /\ summary' = out
    /\ UNCHANGED <<file, out, i, crashes>>

(* The process dies.                                                       *)
Die ==
    /\ crashes < MaxCrashes
    /\ crashes' = crashes + 1
    /\ pc' = "down"
    /\ out' = <<>> /\ i' = 1
    /\ UNCHANGED summary

Crash ==
    /\ Die
    /\ pc \notin {"down", "done"}
    /\ UNCHANGED file

(* ... in the middle of appending row i: part of it is in the file, or all *)
(* of it but the newline.                                                  *)
CrashAppending ==
    /\ Die
    /\ pc = "collecting" /\ i <= N /\ ~Done(i)
    /\ tail' \in IF tail = Clean THEN {Junk, i} ELSE {Junk}
    /\ UNCHANGED lines

(* ... in the middle of the rewrite.                                       *)
CrashRewriting ==
    /\ Die
    /\ pc = "rewriting"
    /\ \E n \in 0 .. Len(out) :
          /\ lines' = SubSeq(out, 1, n)
          /\ tail' \in {Clean} \union (IF n < Len(out) THEN {Junk, out[n + 1]} ELSE {})

Next == \/ Start \/ Skip \/ Collect \/ Truncate \/ Rewrite \/ Report
        \/ Crash \/ CrashAppending \/ CrashRewriting

Spec == Init /\ [][Next]_vars
-----------------------------------------------------------------------------
TypeOK ==
    /\ pc \in {"down", "collecting", "rewriting", "reporting", "done"}
    /\ lines \in Seq({Junk} \union Questions)
    /\ tail \in {Clean, Junk} \union Questions
    /\ out \in Seq(Questions)
    /\ i \in 1 .. N + 1
    /\ summary \in Seq(Questions)
    /\ crashes \in 0 .. MaxCrashes

(* The first n questions, each once and in the order of the set.           *)
FirstQuestions(seq, n) == Len(seq) = n /\ \A k \in 1 .. n : seq[k] = k

(* Whatever crashes left in the file, the rows in memory are those of the  *)
(* first questions of the set, none twice and none missing in between.     *)
OutIsPrefix == FirstQuestions(out, Len(out))

(* A summary that is published reports every question exactly once, and a  *)
(* finished run leaves exactly those rows in the file.                     *)
ReportComplete ==
    /\ summary # <<>> => FirstQuestions(summary, N)
    /\ pc = "done" => FirstQuestions(lines, N) /\ tail = Clean

(* Resume support: up to the second crash, a row that is in the file is not *)
(* collected again.  (The resume after a second crash may find the line of  *)
(* the first merged with the row behind it and stops there.)                *)
NotAskedAgainAfterOneCrash ==
    [][\A q \in Questions : out' = Append(out, q) /\ pc = "collecting" /\ crashes <= 1
            => q \notin RowsOf(lines)]_vars
=============================================================================
