--------------------------- MODULE MCCompactionJobs ---------------------------
\* Instances of CompactionJobs for TLC.
EXTENDS CompactionJobs

\* The call of batch b has b input tokens.
GrowingInput == [b \in 1..Batches |-> b]
WorkerSymmetry == Permutations(Workers)
===============================================================================
