----------------------------- MODULE MCSignals -----------------------------
\* Instance of Signals for TLC.  The library treats all signals alike.
EXTENDS Signals

SigSymmetry == Permutations(Sigs)
=============================================================================
