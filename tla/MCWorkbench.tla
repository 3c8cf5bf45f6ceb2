---------------------------- MODULE MCWorkbench ----------------------------
(* Small instances of Workbench for TLC.                                   *)
EXTENDS Workbench, TLC

CONSTANTS coffee, store, mall, a, b, f1

TwoRetail == {coffee, store}
OneRetail == {coffee}
OneOther  == {mall}
NoOther   == {}
OneRow    == {a}
TwoRows   == {a, b}
OneRun    == {f1}

(* A message whose scenario is not ready to be confirmed starts the script *)
(* afresh, as every click does, and changes nothing any property reads.    *)
Confirmable == chat = None \/ chat.status # "needs"

=============================================================================
