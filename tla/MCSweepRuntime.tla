---------------------------- MODULE MCSweepRuntime ----------------------------
(* Small instances of SweepRuntime for TLC. *)
EXTENDS SweepRuntime, TLC
CONSTANTS c1, c2, s1, s2

TwoClients == {c1, c2}
OneClient == {c1}
Symmetry == Permutations(TwoClients)
OneSetup == {s1}
TwoSetups == {s1, s2}
OnceOnly == {1}
UpToTwo == {1, 2}
StartContinuous == [mode |-> "Continuous", count |-> 1, setup |-> s1]
StartSingle == [mode |-> "Single", count |-> 1, setup |-> s1]
StartSingleTwo == [mode |-> "Single", count |-> 2, setup |-> s1]
===============================================================================
