----------------------------- MODULE MCHistory -----------------------------
\* HistogramHistory over the instances of MCInstances, for TLC.
EXTENDS HistogramHistory, MCInstances
=============================================================================
