------------------------------ MODULE MCDcLearn -----------------------------
(* DcLearn on small instances.                                             *)
EXTENDS DcLearn, TLC

\* Sound whatever addresses the operator's file may name.
Interchangeable == Permutations(Learners) \cup Permutations(Writers)
                   \cup Permutations(DcIds)
=============================================================================
