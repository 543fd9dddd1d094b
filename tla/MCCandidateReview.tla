-------------------------- MODULE MCCandidateReview --------------------------
\* CandidateReview for TLC: the slots of requests are interchangeable.
EXTENDS CandidateReview, TLC

SlotSymmetry == Permutations(Requests)

=============================================================================
