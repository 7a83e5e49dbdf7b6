--------------------------- MODULE HistogramBins ---------------------------
(***************************************************************************)
(* The bins of a histogram (histogram_impl, HistogramGeneric): num_bins of *)
(* equal width between min_range and max_range, one below and one above.   *)
(* Samples are integers.  Positions, doubles in the code, are multiplied   *)
(* by num_bins here, which makes them integers; the rounding of doubles is *)
(* not modelled.                                                           *)
(***************************************************************************)
EXTENDS Integers

CONSTANTS
  num_bins,   \* bins without the two outer ones
  min_range,
  max_range

ASSUME BinAssumption ==
  /\ num_bins \in Nat \ {0}
  /\ min_range \in Int /\ max_range \in Int
  /\ min_range < max_range

Bins == 0 .. num_bins + 1

\* The bins' lower bounds; that of bin 0 is one width below min_range.
bin_positions(i) == min_range * num_bins + (i - 1) * (max_range - min_range)

\* Mutant: std::lower_bound, the first position that is not less.
LowerBound(x) ==
  CHOOSE i \in 0 .. num_bins + 2 :
    /\ \A j \in 0 .. i - 1 : bin_positions(j) < x
    /\ i \in Bins => bin_positions(i) >= x

\* std::upper_bound: the index of the first position that is greater.
upper_bound(x) ==
  CHOOSE i \in 0 .. num_bins + 2 :
    /\ \A j \in 0 .. i - 1 : bin_positions(j) <= x
    /\ i \in Bins => bin_positions(i) > x

\* The bin whose count a sample raises.
bin(sample) ==
  LET x == sample * num_bins IN
  IF x < bin_positions(1) THEN 0
  ELSE IF x >= bin_positions(num_bins + 1) THEN num_bins + 1
  ELSE upper_bound(x) - 1

\* What a bin's start is in shared memory, and in the title of a dump: its
\* position as an integer, cut off towards zero.
bin_start(i) ==
  IF bin_positions(i) >= 0
  THEN bin_positions(i) \div num_bins
  ELSE -((-bin_positions(i)) \div num_bins)

\* Where a sample belongs: bin 0 has no lower bound, the last bin no upper one,
\* and a bin's lower bound is its own.
Belongs(sample, i) ==
  /\ i > 0 => sample * num_bins >= bin_positions(i)
  /\ i <= num_bins => sample * num_bins < bin_positions(i + 1)

\* The starts printed above a bin and its right neighbour enclose its samples,
\* as far as integers can.
LabelsEnclose(sample, i) ==
  /\ i > 0 => bin_start(i) <= sample
  /\ i <= num_bins => sample <= bin_start(i + 1)
============================================================================
