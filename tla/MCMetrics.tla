----------------------------- MODULE MCMetrics ------------------------------
\* Metrics for TLC: bucket bounds with a value on, between and above them.
EXTENDS Metrics, TLC

MCBounds == <<1, 2>>

Symmetry == Permutations(Submitters)

=============================================================================
