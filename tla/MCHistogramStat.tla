-------------------------- MODULE MCHistogramStat --------------------------
(* HistogramStat on a small instance: two bins of width 3/2 from -1 to 2, so *)
(* that starts are cut off on both sides of zero, and samples below, above,  *)
(* on the boundaries that are integers, and between.                         *)
EXTENDS HistogramStat

below_zero == -1

MCSamples == {<<-1, 1, 2>>, <<0, -2, -1>>}
============================================================================
