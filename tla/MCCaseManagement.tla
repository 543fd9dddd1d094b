-------------------------- MODULE MCCaseManagement --------------------------
\* CaseManagement for TLC: the slots of requests and the Operators are interchangeable.
EXTENDS CaseManagement, TLC

SlotSymmetry == Permutations(Requests) \cup Permutations(Operators)

=============================================================================
