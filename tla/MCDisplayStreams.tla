---------------------------- MODULE MCDisplayStreams ----------------------------
(* A small instance of DisplayStreams for TLC. *)
EXTENDS DisplayStreams, TLC
CONSTANTS k1, k2, l1
===============================================================================
