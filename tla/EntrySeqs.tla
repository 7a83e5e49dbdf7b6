----------------------------- MODULE EntrySeqs -----------------------------
(* Sequences of log entries, and the room they take.                        *)
EXTENDS Naturals, Sequences, SequencesExt

\* The longest suffix of s that takes at most room blocks.
Newest(s, room) ==
  LET n == Len(s)
      total[k \in 0 .. n] ==   \* blocks of the last k entries
        IF k = 0 THEN 0 ELSE total[k - 1] + s[n - k + 1].blocks
      kept == Max({k \in 0 .. n : total[k] <= room})
  IN SubSeq(s, n - kept + 1, n)

\* The text of an entry, as the sequence of its chunks.
Text(e) == [p \in 1 .. e.blocks |-> <<e.msg, p - 1>>]

\* The texts of s, from its k-th entry round to the one before it.
Rotation(s, k) ==
  [i \in 1 .. Len(s) |-> Text(s[((k + i - 2) % Len(s)) + 1])]

\* The elements of s that are in T, in their order.
SelectIn(s, T) ==
  FoldLeft(LAMBDA out, x : IF x \in T THEN Append(out, x) ELSE out, <<>>, s)
=============================================================================
