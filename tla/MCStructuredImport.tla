------------------------- MODULE MCStructuredImport -------------------------
\* StructuredImport for TLC: the slots of requests are interchangeable.
EXTENDS StructuredImport, TLC

SlotSymmetry == Permutations(Requests)

=============================================================================
