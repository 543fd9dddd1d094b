-------------------------- MODULE MCOrganizations --------------------------
\* Organizations for TLC: the slots of requests are interchangeable.
EXTENDS Organizations, TLC

SlotSymmetry == Permutations(Requests)

=============================================================================
