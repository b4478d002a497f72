------------------------- MODULE MCNodeController -------------------------
(* Instances of NodeController for TLC.                                    *)
EXTENDS NodeController

CONSTANTS c1, c2

(* Two speeds, so that a user can be re-rated.                             *)
TwoSpeeds == {[speed |-> 0, device |-> 1], [speed |-> 5, device |-> 1]}

(* And a device limit that can change under an unchanged speed.            *)
SpeedsAndDevices == TwoSpeeds \cup {[speed |-> 5, device |-> 2]}

SameInterval == [c \in Configs |-> 1]

(* One configuration polls at another interval than the others.            *)
OtherInterval == [c \in Configs |-> IF c = c2 THEN 2 ELSE 1]
============================================================================
