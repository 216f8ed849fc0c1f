------------------------------ MODULE MCFileSet ------------------------------
(* Small instances of FileSet for TLC.                                      *)
EXTENDS FileSet

\* Sizes -1 (which panics) and 1; with the bases of MCBaseArg and MCMaxInt,
\* files are adjacent, leave gaps, and overflow.
MCSize == {-1, 1}
MCMaxInt == 5
MCBaseArg == {-1, 2}
MCPos == {1, 3}
=============================================================================
