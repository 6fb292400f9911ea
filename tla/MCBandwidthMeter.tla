-------------------------- MODULE MCBandwidthMeter --------------------------
(* A small instance of BandwidthMeter for TLC. *)
EXTENDS BandwidthMeter, TLC

\* A short narrow window and a longer one that is as wide as the counters.
Periods == <<1, 2>>
Maxima == <<2, 4>>

StreamSymmetry == Permutations(Streams)
=============================================================================
