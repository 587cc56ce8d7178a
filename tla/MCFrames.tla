------------------------------ MODULE MCFrames -------------------------------
(* Eight frames; two regions that overlap, one that is empty after          *)
(* alignment, and frame 5 unreported.                                      *)
EXTENDS Frames

MCRegions == <<[start |-> 0, stop |-> 4], [start |-> 3, stop |-> 5],
               [start |-> 6, stop |-> 5], [start |-> 6, stop |-> 8]>>
=============================================================================
