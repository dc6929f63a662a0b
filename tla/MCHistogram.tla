----------------------------- MODULE MCHistogram -----------------------------
\* ObliviousHistogram over the instances of MCInstances, for TLC.
EXTENDS ObliviousHistogram, MCInstances
=============================================================================
