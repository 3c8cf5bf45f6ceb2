----------------------- MODULE MCScenarioConversation -----------------------
(* A small instance of ScenarioConversation for TLC.                       *)
EXTENDS ScenarioConversation

CONSTANTS a, b

TwoClients == {a, b}
Say(verb, key, value) == [op |-> verb, key |-> key, value |-> value]
(* A complete request, for twenty and a half candidates in a region said   *)
(* with blanks; one with a radius out of range; a change of mind; a        *)
(* withdrawn radius with a recorded rent; and a region only the online     *)
(* resolver knows.                                                         *)
FiveMessages ==
    {<<Say("set", "project", "coffee_shop"), Say("set", "region", " xuhui "),
       Say("set", "count", 41)>>,
     <<Say("set", "radius", 9)>>,
     <<Say("set", "project", "logistics_park"), Say("set", "radius", 5)>>,
     <<Say("remove", "radius", 0), Say("set", "rent", 3)>>,
     <<Say("set", "region", "remote")>>}
PaddedTexts == [text \in {" xuhui "} |-> "xuhui"]
ClientSymmetry == Permutations(TwoClients)
TwoModes == {"suggest", "apply_defaults"}
=============================================================================
