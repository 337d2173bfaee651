------------------------- MODULE MCFilePublication -------------------------
\* FilePublication for TLC: executions are interchangeable.
EXTENDS FilePublication, TLC

WriterSymmetry == Permutations(Writers)
=============================================================================
