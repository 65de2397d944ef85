--------------------------- MODULE MCFrameRepository ---------------------------
(* A small instance of FrameRepository for TLC. *)
EXTENDS FrameRepository, TLC
CONSTANTS t1, t2, r1, r2, b1, b2
===============================================================================
