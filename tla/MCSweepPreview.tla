---------------------------- MODULE MCSweepPreview ----------------------------
(* A small instance of SweepPreview for TLC: two ports, four traces. *)
EXTENDS SweepPreview, TLC

TwoPorts == <<1, 2>>
Shape(format1, format2) ==
    ("t1" :> [source |-> 1, format |-> format1]) @@ ("t2" :> [source |-> 2, format |-> format2])
Single == "t1" :> [source |-> 1, format |-> "log"]
Both == Shape("log", "phase")
Swapped == Shape("phase", "log")
None == <<>>     \* every trace removed
FourSetups == {None, Single, Both, Swapped}
===============================================================================
