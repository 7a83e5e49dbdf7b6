--------------------------- MODULE HistogramStat ---------------------------
(***************************************************************************)
(* An accumulator statistic that is a histogram (HistogramCount,           *)
(* HistogramDensity): AccumStat with one feature, which has a number in    *)
(* shared memory for each bin.  The serializer copies the bins one by one, *)
(* and a dump tests the control word once and then reads bin by bin.  A    *)
(* bin's number is computed from the samples that AccumStat says it is of. *)
(***************************************************************************)
EXTENDS AccumStat, HistogramBins, FiniteSetsExt

CONSTANT Samples   \* what the program may write: sequences of values

ASSUME HistogramAssumption ==
  /\ Samples \subseteq [1 .. MaxSamples -> Int]
  /\ numFeatures = num_bins + 2   \* num_hist_bins
  /\ FirstOf = {1}

VARIABLE sample    \* the values of the samples, in the order of accumulation

hvars == <<vars, sample>>

\* The place of a bin among the numbers in shared memory.
Place(i) == i + 1

\* How many of some samples a bin has counted.
samples_in_bin(samples, i) ==
  Cardinality({s \in samples : bin(sample[s]) = i})

\* What a bin shows of some samples: their number in it, for a density divided by
\* the number of all of them, which is no number (NaN) when there are none.
histogram(samples, i) ==
  [count |-> samples_in_bin(samples, i), of |-> Cardinality(samples)]

HistInit == Init /\ sample \in Samples

HistNext == Next /\ UNCHANGED sample

HistSpec == HistInit /\ [][HistNext]_hvars

----------------------------------------------------------------------------
(* Properties *)

\* Between two serializations each bin in shared memory has the number of the
\* samples that belong to it, on the boundaries too, and no sample is outside of
\* what the title says of its bin (histogram_impl against its description).
BinsHoldTheirSamples ==
  ser.pc # "serialize" =>
    \A i \in Bins : LET samples == shm[Place(i)].samples IN
      /\ histogram(samples, i).count = Cardinality({s \in samples : Belongs(sample[s], i)})
      /\ \A s \in samples : bin(sample[s]) = i => LabelsEnclose(sample[s], i)

\* A dump may mix serializations, but unless a reset was asked for meanwhile its
\* bins have together no fewer samples than had been serialized the time before
\* that of its first bin; the first sample after a request may fall to the reset.
\* (AccumOp::serialize against AccumControl::doStatCommand).
DumpLosesNothing ==
  \A c \in Controls :
    LET out == dump[c].out
        shown(i) == histogram(out[Place(i)].value.samples, i).count IN
    Len(out) = numFeatures /\ cleared = dump[c].since =>
      MapThenSumSet(shown, Bins) >= Cardinality(cleared + 2 .. out[1].value.before)

\* Once a sample has been serialized, no dump prints a bin without samples, a density
\* of which is not a number: a bin that is printed without samples was put in shared
\* memory before there was any, and no bin printed before it in the line had by then
\* been serialized for the second time since there was one.  A reset does not bring such bins back,
\* as the accumulator has its next sample before the serializer gets to see it.
NumbersOnceSerialized ==
  \A c \in Controls : LET out == dump[c].out IN
    \A i \in 1 .. Len(out) :
      out[i].valid /\ histogram(out[i].value.samples, i - 1).of = 0 =>
        /\ out[i].value.upto = 0
        /\ \A j \in 1 .. i : out[j].value.before = 0
============================================================================
