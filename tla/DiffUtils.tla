----------------------------- MODULE DiffUtils -----------------------------
(***************************************************************************)
(* The unified diffs of utils/diffUtils.ts, and the chains of them from    *)
(* which summaryService.reconstructFromDeltas rebuilds an earlier text.    *)
(*                                                                         *)
(* A text is its lines; a line of a diff is its sign and the line after    *)
(* it. Left out: texts with a line that reads like a hunk's header or a    *)
(* code fence; white space at the end of a diff, which extractDiffContent  *)
(* trims; and the empty text, which computeDiff takes for one empty line   *)
(* and applyUnifiedDiff for none.                                          *)
(***************************************************************************)
EXTENDS Naturals, Sequences, SequencesExt

CONSTANTS
  Line,       \* the lines texts are made of
  Dashed,     \* the ones that begin with "--"
  Plussed,    \* the ones that begin with "++"
  Texts,      \* the texts considered
  Contexts,   \* the values of contextLines considered (3 unless a caller says otherwise)
  MaxDeltas   \* bound: deltas of a chain

ASSUME DiffAssumption ==
  /\ Dashed \subseteq Line /\ Plussed \subseteq Line
  /\ Texts \subseteq Seq(Line)
  /\ Contexts \subseteq Nat /\ MaxDeltas \in Nat

VARIABLES
  context,  \* contextLines
  past,     \* the texts that were current, the last one now
  delta     \* delta[v]: the diff from past[v] to past[v + 1]

diffVars == <<context, past, delta>>

Larger(a, b) == IF a > b THEN a ELSE b
Smaller(a, b) == IF a < b THEN a ELSE b

--------------------------------------------------------------------------
(* computeDiff. *)

\* computeLCS: the table, and the walk back through it (to the left if the two
\* neighbours are equal). Each loop below is the function of the states after its
\* iterations.
Table(old, new) ==
  LET dp[i \in 0..Len(old), j \in 0..Len(new)] ==
        IF i = 0 \/ j = 0 THEN 0
        ELSE IF old[i] = new[j] THEN dp[i - 1, j - 1] + 1
        ELSE Larger(dp[i - 1, j], dp[i, j - 1])
  IN dp

WalkBack(old, new, dp, at) ==
  IF at.i = 0 \/ at.j = 0 THEN at
  ELSE IF old[at.i] = new[at.j]
  THEN [i |-> at.i - 1, j |-> at.j - 1, lcs |-> <<old[at.i]>> \o at.lcs]
  ELSE IF dp[<<at.i - 1, at.j>>] > dp[<<at.i, at.j - 1>>]
  THEN [i |-> at.i - 1, j |-> at.j, lcs |-> at.lcs]
  ELSE [i |-> at.i, j |-> at.j - 1, lcs |-> at.lcs]

LCS(old, new) ==
  LET dp == Table(old, new)
      walk[k \in 0..(Len(old) + Len(new))] ==
        IF k = 0 THEN [i |-> Len(old), j |-> Len(new), lcs |-> <<>>]
        ELSE WalkBack(old, new, dp, walk[k - 1])
  IN walk[Len(old) + Len(new)].lcs

\* computeEditScript. o and n are the indices where the operation applies.
Edit(old, new, lcs, at) ==
  LET Left(text, i) == i <= Len(text)
      Other(text, i) == Left(text, i) /\ (at.k > Len(lcs) \/ text[i] # lcs[at.k])
      Then(sign, line, o, n, k) ==
        [o |-> o, n |-> n, k |-> k,
         ops |-> Append(at.ops, [sign |-> sign, o |-> at.o, n |-> at.n, line |-> line])]
  IN IF /\ Left(lcs, at.k) /\ Left(old, at.o) /\ Left(new, at.n)
        /\ old[at.o] = lcs[at.k] /\ new[at.n] = lcs[at.k]
     THEN Then(" ", old[at.o], at.o + 1, at.n + 1, at.k + 1)
     ELSE IF Other(old, at.o) THEN Then("-", old[at.o], at.o + 1, at.n, at.k)
     ELSE IF Other(new, at.n) THEN Then("+", new[at.n], at.o, at.n + 1, at.k)
     ELSE at

EditScript(old, new) ==
  LET lcs == LCS(old, new)
      after[i \in 0..(Len(old) + Len(new))] ==
        IF i = 0 THEN [o |-> 1, n |-> 1, k |-> 1, ops |-> <<>>]
        ELSE Edit(old, new, lcs, after[i - 1])
  IN after[Len(old) + Len(new)].ops

\* groupIntoHunks. A hunk opens with the context before a change that is more than
\* twice the context after the last one; the lines between are added when the next
\* change, or the trailing context, comes.
DiffLine(op) == [sign |-> op.sign, line |-> op.line]
Between(ops, first, last) == [j \in 1..Larger(0, last + 1 - first) |-> DiffLine(ops[first + j - 1])]

OpenHunk(ops, i, c) ==
  LET first == Larger(1, i - c)
  IN [oldStart |-> ops[first].o, newStart |-> ops[first].n,
      lines |-> Append(Between(ops, first, i - 1), DiffLine(ops[i]))]

Take(ops, c, acc, i) ==
  LET open == Len(acc.hunks) IN
  IF ops[i].sign # " "
  THEN [hunks |-> IF open = 0 \/ i - acc.change > 2 * c
                  THEN Append(acc.hunks, OpenHunk(ops, i, c))
                  ELSE [acc.hunks EXCEPT ![open].lines = @ \o Between(ops, acc.added + 1, i)],
        change |-> i, added |-> i]
  ELSE IF open > 0 /\ i - acc.change <= c
  THEN [hunks |-> [acc.hunks EXCEPT ![open].lines = Append(@, DiffLine(ops[i]))],
        change |-> acc.change, added |-> i]
  ELSE acc

GroupIntoHunks(ops, c) ==
  LET after[i \in 0..Len(ops)] ==
        IF i = 0 THEN [hunks |-> <<>>, change |-> 0, added |-> 0]
        ELSE Take(ops, c, after[i - 1], i)
  IN after[Len(ops)].hunks

ComputeDiff(old, new, c) == GroupIntoHunks(EditScript(old, new), c)

--------------------------------------------------------------------------
(* applyUnifiedDiff: `at` is the first line of the original not yet dealt with. *)

\* The unchanged lines before a hunk.
CopyUpTo(original, acc, hunk) ==
  LET upTo == Smaller(hunk.oldStart - 1, Len(original))
  IN [text |-> acc.text \o SubSeq(original, acc.at, upTo), at |-> Larger(acc.at, upTo + 1)]

\* A removed line is skipped whatever it says; a context line is the original's,
\* or the diff's past its end.
ApplyLine(original, acc, l) ==
  CASE l.sign = "-" -> [acc EXCEPT !.at = Smaller(acc.at, Len(original)) + 1]
    [] l.sign = "+" -> [acc EXCEPT !.text = Append(@, l.line)]
    [] l.sign = " " -> [text |-> Append(acc.text, IF acc.at <= Len(original) THEN original[acc.at]
                                                  ELSE l.line),
                        at |-> Smaller(acc.at, Len(original)) + 1]

ApplyLines(original, acc, lines) ==
  LET after[i \in 0..Len(lines)] ==
        IF i = 0 THEN acc ELSE ApplyLine(original, after[i - 1], lines[i])
  IN after[Len(lines)]

\* A hunk that starts before the first line is passed over.
ApplyHunk(original, acc, hunk) ==
  IF hunk.oldStart = 0 THEN acc
  ELSE ApplyLines(original, CopyUpTo(original, acc, hunk), hunk.lines)

ApplyUnifiedDiff(original, diff) ==
  LET after[h \in 0..Len(diff)] ==
        IF h = 0 THEN [text |-> <<>>, at |-> 1] ELSE ApplyHunk(original, after[h - 1], diff[h])
      acc == after[Len(diff)]
  IN acc.text \o SubSeq(original, acc.at, Len(original))

--------------------------------------------------------------------------
(* invertDiff, and reconstructFromDeltas. *)

UnswappedMutant(hunk) == hunk
SwapRanges(hunk) == [oldStart |-> hunk.newStart, newStart |-> hunk.oldStart, lines |-> hunk.lines]

\* With its sign a removed line that begins with "--" looks like the header of a
\* file, and is left as it is; so is an added one that begins with "++".
InvertLine(l) ==
  CASE l.sign = "+" /\ l.line \notin Plussed -> [l EXCEPT !.sign = "-"]
    [] l.sign = "-" /\ l.line \notin Dashed -> [l EXCEPT !.sign = "+"]
    [] OTHER -> l

InvertDiff(diff) ==
  [h \in DOMAIN diff |->
     LET swapped == SwapRanges(diff[h])
     IN [swapped EXCEPT !.lines = [i \in DOMAIN @ |-> InvertLine(@[i])]]]

\* The deltas after the target, the latest first.
Reconstruct(current, deltas, target) ==
  LET back[k \in 0..(Len(deltas) + 1 - target)] ==
        IF k = 0 THEN current
        ELSE ApplyUnifiedDiff(back[k - 1], InvertDiff(deltas[Len(deltas) + 1 - k]))
  IN back[Len(deltas) + 1 - target]

--------------------------------------------------------------------------
(* A text that is revised, and the deltas that are kept of it. *)

DiffInit ==
  /\ context \in Contexts
  /\ \E text \in Texts : past = <<text>>
  /\ delta = <<>>

Revise ==
  /\ Len(delta) < MaxDeltas
  /\ \E text \in Texts :
       /\ past' = Append(past, text)
       /\ delta' = Append(delta, ComputeDiff(Last(past), text, context))
  /\ UNCHANGED context

DiffNext == Revise
DiffSpec == DiffInit /\ [][DiffNext]_diffVars

--------------------------------------------------------------------------
(* Properties. *)

\* A diff applied to the text it was computed from gives the text it was computed
\* for, with any amount of context and however its changes fall into hunks.
DiffsApply ==
  \A v \in DOMAIN delta : ApplyUnifiedDiff(past[v], delta[v]) = past[v + 1]

\* Every earlier text is rebuilt from the current one and the deltas since, if no
\* line of theirs begins with two dashes or two pluses.
PastIsRebuilt ==
  (\A v \in DOMAIN past : Range(past[v]) \cap (Dashed \cup Plussed) = {}) =>
    \A v \in DOMAIN past : Reconstruct(Last(past), delta, v) = past[v]

\* Forwards from a text, and backwards from the current one.
DiffsSound == DiffsApply /\ PastIsRebuilt
=============================================================================
