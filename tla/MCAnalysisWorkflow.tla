------------------------- MODULE MCAnalysisWorkflow -------------------------
(* Small instances of AnalysisWorkflow and PromptEvolution for TLC.        *)
EXTENDS AnalysisWorkflow

CONSTANTS v1, v2, v3, zoning, parcels

ThreeVersions == {v1, v2, v3}
(* The first proposal improves, the second measures like the start.        *)
Measures == [v \in ThreeVersions |-> IF v = v2 THEN 2 ELSE 1]

OneConstraint == {zoning}
BothModes == {"parallel", "sequential"}

(* Layers are read by the spatial branch only and prompts by the harness   *)
(* only, which looks at no evidence when it does: a replacement nobody is  *)
(* going to read is not explored, and activations are explored for the     *)
(* analyses of one representative evidence.                                *)
WhenItMatters ==
    /\ layer' # layer => node["spatial_evidence"] \notin Ended
    /\ (parent' # parent \/ active' # active \/ decisions' # decisions) =>
           /\ harness.stage # "none" /\ Market
           /\ \A p \in Parcels : poi[p] = [quality |-> "complete", score |-> 1]
           /\ \A l \in Layers : layer[l] = <<Parcels>>

=============================================================================
