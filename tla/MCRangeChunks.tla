---------------------------- MODULE MCRangeChunks ----------------------------
(* Ranges of two to four instants, one with an end between two.     *)
EXTENDS RangeChunks
CONSTANTS a, b
MCRange(s, e, d) == [start |-> s, end |-> e, step |-> d]
MCRanges == {MCRange(1, 2, 1), MCRange(1, 4, 1), MCRange(0, 5, 2)}
=============================================================================
