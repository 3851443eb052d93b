------------------------------ MODULE TextDiff ------------------------------
(***************************************************************************)
(* The line diff of two texts (diff/text.ts): what both begin and end with *)
(* is left aside, Myers' greedy search finds a shortest script for the     *)
(* rest, and the script is cut into hunks with some context.               *)
(*                                                                         *)
(* A text is what splitting at its line ends gives, once these are all     *)
(* newlines: the last part is empty where the text ends with one.  A line  *)
(* number 0 stands for null.                                               *)
(***************************************************************************)
EXTENDS Integers, Sequences, FiniteSets, SequencesExt

splitLines(parts) == IF Len(parts) > 1 /\ Last(parts) = "" THEN Front(parts) ELSE parts

Line(type, beforeLine, afterLine, text) ==
  [type |-> type, beforeLine |-> beforeLine, afterLine |-> afterLine, text |-> text]
Deleted(i, text) == Line("delete", i, 0, text)
Inserted(j, text) == Line("insert", 0, j, text)
Kept(i, j, n, before) == [k \in 1 .. n |-> Line("equal", i + k, j + k, before[i + k])]

Least(m, n) == IF m < n THEN m ELSE n
Most(m, n) == IF m > n THEN m ELSE n
Longest(S) == CHOOSE n \in S : \A m \in S : m <= n
sharedPrefixLength(before, after) ==
  Longest({n \in 0 .. Least(Len(before), Len(after)) : \A i \in 1 .. n : before[i] = after[i]})
\* As if a line could be in the prefix and in the suffix.
sharedSuffixLength_Overlapping(before, after, prefix) ==
  Longest({n \in 0 .. Least(Len(before), Len(after)) :
             \A i \in 0 .. n - 1 : before[Len(before) - i] = after[Len(after) - i]})

sharedSuffixLength(before, after, prefix) ==
  Longest({n \in 0 .. Least(Len(before), Len(after)) - prefix :
             \A i \in 0 .. n - 1 : before[Len(before) - i] = after[Len(after) - i]})

blockReplace(before, after) ==
  [i \in DOMAIN before |-> Deleted(i, before[i])] \o [j \in DOMAIN after |-> Inserted(j, after[j])]

-----------------------------------------------------------------------------
\* How far down before each diagonal k = x - y has come, 0 where nothing is known.
At(v, k) == IF k \in DOMAIN v THEN v[k] ELSE 0
Diagonals(d) == {k \in -d .. d : (k + d) % 2 = 0}

\* Whether the d-th change on a diagonal is an insertion.
Insertion(v, d, k) == k = -d \/ (k # d /\ At(v, k - 1) < At(v, k + 1))
Snake(before, after, x, y) ==
  Longest({n \in 0 .. Most(0, Least(Len(before) - x, Len(after) - y)) :
             \A i \in 1 .. n : before[x + i] = after[y + i]})
Reached(before, after, v, d, k) ==
  LET x == IF Insertion(v, d, k) THEN At(v, k + 1) ELSE At(v, k - 1) + 1
  IN x + Snake(before, after, x, x - k)
Ends(before, after, v, d) ==
  \E k \in Diagonals(d) :
    LET x == Reached(before, after, v, d, k) IN x >= Len(before) /\ x - k >= Len(after)

\* What the d-th pass starts from; a pass reads only what the one before it wrote.
Trace(before, after) ==
  LET most == Len(before) + Len(after)
      trace[d \in 0 .. most] ==
        IF d = 0 THEN [k \in -most .. most |-> 0]
        ELSE LET v == trace[d - 1] IN
             [k \in -most .. most |-> IF k \in Diagonals(d - 1) THEN Reached(before, after, v, d - 1, k) ELSE v[k]]
  IN trace

\* The script from the corner back: at every step what was kept since a change,
\* then the change.
backtrack(trace, before, after, changes) ==
  LET ops[d \in 0 .. changes, x \in 0 .. Len(before), y \in 0 .. Len(after)] ==
        LET k == x - y
            inserted == Insertion(trace[d], d, k)
            from == At(trace[d], IF inserted THEN k + 1 ELSE k - 1)
            kept == IF d = 0 THEN Least(x, y) ELSE Most(0, IF inserted THEN x - from ELSE x - from - 1)
            rest == Kept(x - kept, y - kept, kept, before)
        IN IF d = 0 THEN rest
           ELSE IF x - kept = from THEN Append(ops[d - 1, x - kept, y - kept - 1], Inserted(y - kept, after[y - kept])) \o rest
           ELSE Append(ops[d - 1, x - kept - 1, y - kept], Deleted(x - kept, before[x - kept])) \o rest
  IN ops[changes, Len(before), Len(after)]
myers(before, after) ==
  LET trace == Trace(before, after)
      changes == CHOOSE d \in 0 .. Len(before) + Len(after) :
                   Ends(before, after, trace[d], d) /\ \A c \in 0 .. d - 1 : ~Ends(before, after, trace[c], c)
  IN IF before = <<>> \/ after = <<>> THEN blockReplace(before, after)
     ELSE backtrack(trace, before, after, changes)

\* Everything but what both begin and end with, unless it is too much to compare.
Shifted(op, n) ==
  [op EXCEPT !.beforeLine = IF @ = 0 THEN 0 ELSE @ + n, !.afterLine = IF @ = 0 THEN 0 ELSE @ + n]
computeLineDiff(before, after, maxCompareLines) ==
  LET prefix == sharedPrefixLength(before, after)
      suffix == sharedSuffixLength(before, after, prefix)
      middleBefore == SubSeq(before, prefix + 1, Len(before) - suffix)
      middleAfter == SubSeq(after, prefix + 1, Len(after) - suffix)
      truncated == Len(middleBefore) + Len(middleAfter) > maxCompareLines
      ops == IF truncated THEN blockReplace(middleBefore, middleAfter) ELSE myers(middleBefore, middleAfter)
  IN [lines |-> Kept(0, 0, prefix, before) \o [n \in DOMAIN ops |-> Shifted(ops[n], prefix)]
                \o Kept(Len(before) - suffix, Len(after) - suffix, suffix, before),
      truncated |-> truncated]

-----------------------------------------------------------------------------
Changes(lines) == SelectSeq([n \in DOMAIN lines |-> n], LAMBDA n : lines[n].type # "equal")
Numbers(lines, side(_)) == SelectSeq([n \in DOMAIN lines |-> side(lines[n])], LAMBDA n : n # 0)
\* As if a hunk began at one number in both texts.
hunkFromRange_OneStart(lines, first, last) ==
  LET slice == SubSeq(lines, first, last)
      beforeNumbers == Numbers(slice, LAMBDA l : l.beforeLine)
      afterNumbers == Numbers(slice, LAMBDA l : l.afterLine)
      start == IF beforeNumbers = <<>> THEN 0 ELSE Head(beforeNumbers)
  IN [beforeStart |-> start, beforeCount |-> Len(beforeNumbers),
      afterStart |-> start, afterCount |-> Len(afterNumbers), lines |-> slice]

hunkFromRange(lines, first, last) ==
  LET slice == SubSeq(lines, first, last)
      beforeNumbers == Numbers(slice, LAMBDA l : l.beforeLine)
      afterNumbers == Numbers(slice, LAMBDA l : l.afterLine)
  IN [beforeStart |-> IF beforeNumbers = <<>> THEN 0 ELSE Head(beforeNumbers), beforeCount |-> Len(beforeNumbers),
      afterStart |-> IF afterNumbers = <<>> THEN 0 ELSE Head(afterNumbers), afterCount |-> Len(afterNumbers),
      lines |-> slice]
Widened(ranges, r) ==
  IF ranges # <<>> /\ r[1] <= Last(ranges)[2] + 1
  THEN [ranges EXCEPT ![Len(ranges)] = <<@[1], Most(@[2], r[2])>>] ELSE Append(ranges, r)
buildHunks(lines, context) ==
  LET around(n) == <<Most(1, n - context), Least(Len(lines), n + context)>>
      changes == Changes(lines)
      ranges == FoldLeft(Widened, <<>>, [n \in DOMAIN changes |-> around(changes[n])])
  IN [n \in DOMAIN ranges |-> hunkFromRange(lines, ranges[n][1], ranges[n][2])]

\* toSideBySideRows: a run of deletions beside the run of insertions after it.
RunFrom(lines, n, type) ==
  Longest({r \in 0 .. Len(lines) - n + 1 : \A i \in n .. n + r - 1 : lines[i].type = type})
toSideBySideRows(lines) ==
  LET rows[n \in 1 .. Len(lines) + 1] ==
        IF n > Len(lines) THEN <<>>
        ELSE IF lines[n].type = "equal" THEN <<[left |-> {lines[n]}, right |-> {lines[n]}]>> \o rows[n + 1]
        ELSE LET gone == RunFrom(lines, n, "delete")
                 new == RunFrom(lines, n + gone, "insert")
             IN [p \in 1 .. Most(gone, new) |->
                   [left |-> IF p <= gone THEN {lines[n + p - 1]} ELSE {},
                    right |-> IF p <= new THEN {lines[n + gone + p - 1]} ELSE {}]] \o rows[n + gone + new]
  IN rows[1]

-----------------------------------------------------------------------------
\* What a reader does with hunks, from the first to the last, who looks for the
\* place of a hunk among the old lines, or where it has none (its start is 0 then)
\* among the new ones; and what no script can keep more of.
Texts(lines, type) == LET of == SelectSeq(lines, LAMBDA l : l.type # type) IN [n \in DOMAIN of |-> of[n].text]
Patched(text, hunks) ==
  LET one(done, h) ==
        LET asked == IF h.beforeCount > 0 THEN h.beforeStart - 1 - done.used ELSE h.afterStart - 1 - Len(done.text)
            before == Most(0, Least(asked, Len(text) - done.used)) IN
        [used |-> done.used + before + h.beforeCount,
         text |-> done.text \o SubSeq(text, done.used + 1, done.used + before) \o Texts(h.lines, "delete")]
      done == FoldLeft(one, [used |-> 0, text |-> <<>>], hunks)
  IN done.text \o SubSeq(text, done.used + 1, Len(text))
InCommon(before, after) ==
  LET lcs[i \in 0 .. Len(before), j \in 0 .. Len(after)] ==
        IF i = 0 \/ j = 0 THEN 0
        ELSE IF before[i] = after[j] THEN lcs[i - 1, j - 1] + 1
        ELSE Most(lcs[i - 1, j], lcs[i, j - 1])
  IN lcs[Len(before), Len(after)]
Column(rows, side(_)) ==
  LET there == SelectSeq(rows, LAMBDA r : side(r) # {}) IN [n \in DOMAIN there |-> CHOOSE l \in side(there[n]) : TRUE]

(***************************************************************************)
(* A diff is an account of both texts (diffLineArrays): without its        *)
(* insertions it is the old text, without its deletions the new one, line  *)
(* by line under the right numbers; unless it was cut short it keeps as    *)
(* much as can be kept; its hunks, put where their numbers say, turn the   *)
(* old text into the new one, with every change in one of them, without    *)
(* context too: a hunk that has no old line, as only one without context   *)
(* or of an empty text can be, has its place among the new ones; and side  *)
(* by side, neither column of a hunk loses a line.                         *)
(***************************************************************************)
DiffAccountsForBoth(before, after, context, maxCompareLines) ==
  LET diff == computeLineDiff(before, after, maxCompareLines)
      hunks == buildHunks(diff.lines, context)
      changed == Len(Changes(diff.lines))
  IN /\ Texts(diff.lines, "insert") = before /\ Texts(diff.lines, "delete") = after
     /\ Numbers(diff.lines, LAMBDA l : l.beforeLine) = [n \in DOMAIN before |-> n]
     /\ Numbers(diff.lines, LAMBDA l : l.afterLine) = [n \in DOMAIN after |-> n]
     /\ ~diff.truncated => changed = Len(before) + Len(after) - 2 * InCommon(before, after)
     /\ Patched(before, hunks) = after
     /\ \A h \in Range(hunks) : h.beforeCount = 0 => h.beforeStart = 0 /\ (context = 0 \/ before = <<>>)
     /\ FoldLeft(LAMBDA n, h : n + Len(Changes(h.lines)), 0, hunks) = changed
     /\ \A h \in Range(hunks) :
          LET rows == toSideBySideRows(h.lines) IN
          /\ Column(rows, LAMBDA r : r.left) = SelectSeq(h.lines, LAMBDA l : l.type # "insert")
          /\ Column(rows, LAMBDA r : r.right) = SelectSeq(h.lines, LAMBDA l : l.type # "delete")
=============================================================================
