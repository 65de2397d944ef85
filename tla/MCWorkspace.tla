------------------------------ MODULE MCWorkspace ------------------------------
(* A small instance of Workspace for TLC. *)
EXTENDS Workspace, TLC
CONSTANTS s1, s2, s3, bad

\* The bandwidth of s3 differs from that of s1 above 32 bits only.
NarrowedTwo == s1 :> s1 @@ s2 :> s2 @@ s3 :> s1
===============================================================================
