----------------------------- MODULE MCLiveDisplay -----------------------------
(* Small instances of LiveDisplay for TLC. *)
EXTENDS LiveDisplay, TLC

OnePort == <<1>>
Log == "t1" :> [source |-> 1, format |-> "log"]
Phase == "t1" :> [source |-> 1, format |-> "phase"]
AllS == Log @@ "t2" :> [source |-> 1, format |-> "log"]
ThreeSetups == {Log, Phase, AllS}
OneSetup == {Log}
===============================================================================
