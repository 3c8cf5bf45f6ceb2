------------------------ MODULE AnalysisWorkflowProofs ------------------------
(***************************************************************************)
(* Proofs about AnalysisWorkflow and the PromptEvolution it runs beside,   *)
(* for every number of parcels, constraints, revisions and prompt          *)
(* versions, and both graphs.                                              *)
(***************************************************************************)
EXTENDS AnalysisWorkflow, SequenceTheorems, TLAPS

-----------------------------------------------------------------------------
(* The prompts: every call of the registry and of the engine.              *)

(* What a stored decision is worth for ever: its candidate is registered   *)
(* as a child of its baseline, and a decision that passed compared them by *)
(* measurements that do not change.  Promotion reads nothing else, so this *)
(* is what makes PromotedFromMeasured inductive.                           *)
DecisionsHold ==
    \A d \in decisions :
        /\ d.candidate \in Registered /\ d.baseline \in Registered
        /\ parent[d.candidate] = d.baseline
        /\ Measured[d.baseline] > 0
        /\ d.passed => Measured[d.candidate] >= Measured[d.baseline]

EventsAreKnown ==
    \A i \in 1 .. Len(events) : events[i].to \in Registered

EvolutionInv ==
    /\ EvolutionTypeOK
    /\ DecisionsHold
    /\ AuditExplainsActive
    /\ PromotedFromMeasured

(* The inductive invariant holds initially.                                *)
LEMMA EvolutionInitInv == EvolutionInit => EvolutionInv
<1> SUFFICES ASSUME EvolutionInit PROVE EvolutionInv
    OBVIOUS
<1> USE VersionsAssumption DEF EvolutionInit, Registered
<1>1. EvolutionTypeOK
    BY DEF EvolutionTypeOK
<1>2. DecisionsHold
    BY DEF DecisionsHold
<1>3. AuditExplainsActive
    BY DEF AuditExplainsActive
<1>4. PromotedFromMeasured
    BY DEF PromotedFromMeasured
<1> QED BY <1>1, <1>2, <1>3, <1>4 DEF EvolutionInv

(* A proposal changes no parent that was there before.                     *)
LEMMA ProposeInv == ASSUME EvolutionInv, NEW v \in Versions, Propose(v) PROVE EvolutionInv'
<1> USE DEF Propose, EvolutionInv
<1>1. Registered' = Registered \cup {v} /\ v \notin Registered
    BY DEF Registered
<1>2. \A w \in Registered : parent'[w] = parent[w]
    BY DEF Registered
<1>3. EvolutionTypeOK'
    BY <1>1 DEF EvolutionTypeOK, Registered
<1>4. DecisionsHold'
    BY <1>1, <1>2 DEF DecisionsHold
<1>5. AuditExplainsActive'
    BY DEF AuditExplainsActive
<1>6. PromotedFromMeasured'
  <2> SUFFICES ASSUME NEW i \in 1 .. Len(events), ~ events[i].rollback
               PROVE  LET w == events[i].to IN
                      /\ w \in Registered' /\ parent'[w] \in Registered'
                      /\ Measured[w] >= Measured[parent'[w]]
                      /\ Measured[parent'[w]] > 0
                      /\ \E d \in decisions : d.passed /\ d.candidate = w
      BY DEF PromotedFromMeasured
  <2>1. LET w == events[i].to IN
        /\ w \in Registered /\ parent[w] \in Registered
        /\ Measured[w] >= Measured[parent[w]] /\ Measured[parent[w]] > 0
        /\ \E d \in decisions : d.passed /\ d.candidate = w
      BY DEF PromotedFromMeasured
  <2> QED BY <2>1, <1>1, <1>2
<1> QED BY <1>3, <1>4, <1>5, <1>6

(* A new decision is worth what the gates established.                     *)
LEMMA EvaluateInv ==
    ASSUME EvolutionInv, NEW b \in Registered, NEW c \in Registered, Evaluate(b, c)
    PROVE  EvolutionInv'
<1> USE DEF Evaluate, EvolutionInv
<1>1. Registered' = Registered
    BY DEF Registered
<1>2. EvolutionTypeOK'
  <2>1. PassesGates(b, c) \in BOOLEAN
      BY DEF PassesGates
  <2>2. b \in Versions /\ c \in Versions
      BY DEF EvolutionTypeOK
  <2>3. [baseline |-> b, candidate |-> c, passed |-> PassesGates(b, c)]
            \in [baseline : Versions, candidate : Versions, passed : BOOLEAN]
      BY <2>1, <2>2, Zenon
  <2>4. decisions' \subseteq
            [baseline : Versions, candidate : Versions, passed : BOOLEAN]
      BY <2>3 DEF EvolutionTypeOK
  <2> QED BY <1>1, <2>4 DEF EvolutionTypeOK
<1>3. DecisionsHold'
    BY <1>1 DEF DecisionsHold, Comparable, PassesGates
<1>4. AuditExplainsActive'
    BY DEF AuditExplainsActive
<1>5. PromotedFromMeasured'
    BY <1>1 DEF PromotedFromMeasured
<1> QED BY <1>2, <1>3, <1>4, <1>5

(* What an activation does to the audit trail.                             *)
LEMMA ActivateAudit ==
    ASSUME EvolutionTypeOK, AuditExplainsActive, NEW v, NEW r \in BOOLEAN,
           Activate(v, r), UNCHANGED <<parent, decisions>>
    PROVE  /\ EvolutionTypeOK' /\ AuditExplainsActive'
           /\ Len(events') = Len(events) + 1
           /\ \A i \in 1 .. Len(events) : events'[i] = events[i]
           /\ events'[Len(events) + 1] =
                  [from |-> active, to |-> v, rollback |-> r]
<1> DEFINE E == [from : Versions, to : Versions, rollback : BOOLEAN]
           e == [from |-> active, to |-> v, rollback |-> r]
<1> USE DEF Activate
<1>1. Registered' = Registered /\ v \in Registered /\ Registered \subseteq Versions
    BY DEF Registered, EvolutionTypeOK
<1>2. events \in Seq(E) /\ e \in E
    BY <1>1 DEF EvolutionTypeOK
<1>3. /\ Len(events') = Len(events) + 1
      /\ \A i \in 1 .. Len(events) : events'[i] = events[i]
      /\ events'[Len(events) + 1] = e
      /\ events' \in Seq(E)
      /\ Len(events) \in Nat
    BY <1>2, AppendProperties, LenProperties
<1>4. EvolutionTypeOK'
    BY <1>1, <1>3 DEF EvolutionTypeOK
<1>5. events' # <<>> /\ (events = <<>> <=> Len(events) = 0)
    BY <1>2, <1>3, EmptySeq
<1>6. active' = events'[Len(events')].to
    BY <1>3
<1>7. ASSUME NEW i \in 1 .. Len(events')
      PROVE  events'[i].from = IF i = 1 THEN Initial ELSE events'[i - 1].to
  <2>1. CASE i = Len(events) + 1
      BY <2>1, <1>3, <1>5 DEF AuditExplainsActive
  <2>2. CASE i \in 1 .. Len(events)
    <3>1. events'[i] = events[i]
        BY <2>2, <1>3
    <3>2. i # 1 => i - 1 \in 1 .. Len(events)
        BY <2>2, <1>3
    <3> QED BY <2>2, <3>1, <3>2, <1>3 DEF AuditExplainsActive
  <2> QED BY <2>1, <2>2, <1>3
<1>8. AuditExplainsActive'
    BY <1>5, <1>6, <1>7 DEF AuditExplainsActive
<1> QED BY <1>3, <1>4, <1>8

(* A promotion adds an event whose decision says what is required of it.   *)
LEMMA PromoteInv == ASSUME EvolutionInv, NEW d \in decisions, Promote(d) PROVE EvolutionInv'
<1> USE DEF Promote, EvolutionInv
<1>1. /\ EvolutionTypeOK' /\ AuditExplainsActive'
      /\ Len(events') = Len(events) + 1
      /\ \A i \in 1 .. Len(events) : events'[i] = events[i]
      /\ events'[Len(events) + 1] =
             [from |-> active, to |-> d.candidate, rollback |-> FALSE]
    BY ActivateAudit
<1>2. Registered' = Registered /\ Len(events) \in Nat
    BY LenProperties DEF Registered, EvolutionTypeOK
<1>3. DecisionsHold'
    BY <1>2 DEF DecisionsHold
<1>4. PromotedFromMeasured'
  <2> SUFFICES ASSUME NEW i \in 1 .. Len(events'), ~ events'[i].rollback
               PROVE  LET v == events'[i].to IN
                      /\ v \in Registered /\ parent[v] \in Registered
                      /\ Measured[v] >= Measured[parent[v]]
                      /\ Measured[parent[v]] > 0
                      /\ \E x \in decisions : x.passed /\ x.candidate = v
      BY <1>2 DEF PromotedFromMeasured
  <2>1. CASE i \in 1 .. Len(events)
      BY <2>1, <1>1 DEF PromotedFromMeasured
  <2>2. CASE i = Len(events) + 1
      BY <2>2, <1>1 DEF DecisionsHold
  <2> QED BY <2>1, <2>2, <1>1, <1>2
<1> QED BY <1>1, <1>3, <1>4

(* A rollback adds an event of which nothing is required.                  *)
LEMMA RollbackInv == ASSUME EvolutionInv, NEW v \in Versions, Rollback(v) PROVE EvolutionInv'
<1> USE DEF Rollback, EvolutionInv
<1>1. /\ EvolutionTypeOK' /\ AuditExplainsActive'
      /\ Len(events') = Len(events) + 1
      /\ \A i \in 1 .. Len(events) : events'[i] = events[i]
      /\ events'[Len(events) + 1] =
             [from |-> active, to |-> v, rollback |-> TRUE]
    BY ActivateAudit
<1>2. Registered' = Registered /\ Len(events) \in Nat
    BY LenProperties DEF Registered, EvolutionTypeOK
<1>3. DecisionsHold'
    BY <1>2 DEF DecisionsHold
<1>4. PromotedFromMeasured'
  <2> SUFFICES ASSUME NEW i \in 1 .. Len(events'), ~ events'[i].rollback
               PROVE  LET w == events'[i].to IN
                      /\ w \in Registered /\ parent[w] \in Registered
                      /\ Measured[w] >= Measured[parent[w]]
                      /\ Measured[parent[w]] > 0
                      /\ \E x \in decisions : x.passed /\ x.candidate = w
      BY <1>2 DEF PromotedFromMeasured
  <2>1. i \in 1 .. Len(events)
      BY <1>1, <1>2
  <2> QED BY <2>1, <1>1 DEF PromotedFromMeasured
<1> QED BY <1>1, <1>3, <1>4

LEMMA EvolutionNextInv == EvolutionInv /\ [EvolutionNext]_evolutionVars => EvolutionInv'
<1> SUFFICES ASSUME EvolutionInv, [EvolutionNext]_evolutionVars PROVE EvolutionInv'
    OBVIOUS
<1>1. ASSUME NEW v \in Versions, Propose(v) PROVE EvolutionInv'
    BY <1>1, ProposeInv
<1>2. ASSUME NEW b \in Registered, NEW c \in Registered, Evaluate(b, c)
      PROVE  EvolutionInv'
    BY <1>2, EvaluateInv
<1>3. ASSUME NEW d \in decisions, Promote(d) PROVE EvolutionInv'
    BY <1>3, PromoteInv
<1>4. ASSUME NEW v \in Versions, Rollback(v) PROVE EvolutionInv'
    BY <1>4, RollbackInv
<1>5. CASE UNCHANGED evolutionVars
    BY <1>5 DEF evolutionVars, EvolutionInv, EvolutionTypeOK, DecisionsHold,
                AuditExplainsActive, PromotedFromMeasured, Registered
<1> QED BY <1>1, <1>2, <1>3, <1>4, <1>5 DEF EvolutionNext

(* Types of the registry and the engine, for every set of versions.        *)
THEOREM EvolutionTypeCorrect == EvolutionSpec => []EvolutionTypeOK
<1>1. EvolutionInv => EvolutionTypeOK
    BY DEF EvolutionInv
<1> QED BY EvolutionInitInv, EvolutionNextInv, <1>1, PTL DEF EvolutionSpec

(* The audit trail always explains the active version.                     *)
THEOREM AuditIsComplete == EvolutionSpec => []AuditExplainsActive
<1>1. EvolutionInv => AuditExplainsActive
    BY DEF EvolutionInv
<1> QED BY EvolutionInitInv, EvolutionNextInv, <1>1, PTL DEF EvolutionSpec

(* No promotion, however late, escapes the gates of the frozen suite       *)
(* against the version it was proposed from.                               *)
THEOREM PromotionsAreMeasured == EvolutionSpec => []PromotedFromMeasured
<1>1. EvolutionInv => PromotedFromMeasured
    BY DEF EvolutionInv
<1> QED BY EvolutionInitInv, EvolutionNextInv, <1>1, PTL DEF EvolutionSpec

-----------------------------------------------------------------------------
(* The analysis.                                                           *)

GISEvidence ==
    [status : {"none", "not_run", "ready", "missing"}, metrics : Nat,
     target : Nat, seen : [Constraints -> Nat],
     triggered : [Constraints -> BOOLEAN]]

Stages == {"collect", "metrics", "target", "observe", "done"}

(* Types of the analysis; evidence names revisions its layer has had.      *)
Types ==
    /\ mode \in Modes /\ scope \in {"market_selection", "full_compliance"}
    /\ layer \in [Layers -> Seq(SUBSET Parcels)]
    /\ \A l \in Layers : Newest(l) > 0
    /\ node \in [Nodes -> Ended \cup {"waiting", "running"}]
    /\ cursor \in [stage : Stages, parcel : Parcels, todo : SUBSET Constraints]
    /\ gis \in [Parcels -> GISEvidence]
    /\ \A p \in Parcels :
         /\ gis[p].metrics <= Newest(Land) /\ gis[p].target <= Newest(Land)
         /\ \A c \in Constraints : gis[p].seen[c] <= Newest(c)
    /\ poi \in [Parcels -> Answer \cup {NoAnswer}]
    /\ policy \in [Parcels -> SUBSET Constraints]
    /\ final = [status |-> final.status, results |-> final.results,
                ranks |-> final.ranks, attention |-> final.attention]
    /\ final.status \in {"analyzing", "completed", "failed"}
    /\ harness = [stage |-> harness.stage, prompts |-> harness.prompts,
                  used |-> harness.used, named |-> harness.named,
                  outcome |-> harness.outcome]
    /\ harness.stage \in {"none", "due", "reviewing", "closed"}

(* Both graphs start a node after those whose answers it reads have ended. *)
StartsAfter ==
    /\ node["policy_rules"] # "waiting" => node["spatial_evidence"] \in Ended
    /\ node["merge_gate"] # "waiting" =>
         /\ node["poi_evidence"] \in Ended
         /\ node["spatial_evidence"] \in Ended
         /\ mode = "parallel" => node["policy_rules"] \in Ended
    /\ node["review"] # "waiting" => /\ node["merge_gate"] \in Ended
                                     /\ node["policy_rules"] \in Ended

(* How a node ended says how the nodes before it did: the merge gate, the  *)
(* last that looks at them, passes on what no branch before it failed, and *)
(* the review does not pass on what the gate refused.                      *)
BranchesAreClean ==
    /\ node["poi_evidence"] # "skipped" /\ node["merge_gate"] # "skipped"
    /\ node["spatial_evidence"] = "skipped" => Market
    /\ node["policy_rules"] = "skipped" => NoPolicy
    /\ node["policy_rules"] = "succeeded" => ~ NoPolicy
    /\ node["merge_gate"] = "succeeded" =>
         /\ node["poi_evidence"] # "failed"
         /\ node["spatial_evidence"] # "failed"
         /\ mode = "parallel" => node["policy_rules"] # "failed"
    /\ node["review"] = "succeeded" => node["merge_gate"] # "failed"
    /\ Completed => node["review"] = "succeeded"

(* Revisions are only added, so a parcel keeps the rows it was measured on *)
(* and those its constraints were observed on.                             *)
HasMetrics(p) ==
    gis[p].metrics \in 1 .. Newest(Land) /\ p \in layer[Land][gis[p].metrics]
HasTarget(p) ==
    gis[p].target \in 1 .. Newest(Land) /\ p \in layer[Land][gis[p].target]

(* How far the passes of the spatial branch are; it succeeds at the end.   *)
SpatialProgress ==
    /\ Market => cursor.stage = "collect"
    /\ cursor.stage = "metrics" =>
         \A p \in Parcels : p < cursor.parcel => HasMetrics(p)
    /\ cursor.stage \in {"target", "observe", "done"} =>
         \A p \in Parcels : HasMetrics(p)
    /\ cursor.stage = "target" =>
         \A p \in Parcels : p < cursor.parcel => HasTarget(p)
    /\ cursor.stage = "observe" =>
         \A p \in Parcels : p <= cursor.parcel => HasTarget(p)
    /\ cursor.stage = "done" => \A p \in Parcels : HasTarget(p)
    /\ node["spatial_evidence"] = "succeeded" => cursor.stage = "done"

(* Agents are called with the bundle the review read, which it names.      *)
CallsItsBundle ==
    /\ harness.used \subseteq {harness.prompts}
    /\ harness.stage \in {"none", "due"} => harness.used = {}
    /\ harness.stage = "closed" => harness.named = harness.prompts

IInv ==
    /\ Types
    /\ StartsAfter
    /\ BranchesAreClean
    /\ SpatialProgress
    /\ CallsItsBundle

LEMMA NodesAre ==
    Nodes = {"poi_evidence", "spatial_evidence", "policy_rules", "merge_gate",
             "review"}
  BY DEF Nodes, DependsOn

(* Everything holds before the first node starts.                          *)
LEMMA InitInv == AnalysisInit => IInv
<1> SUFFICES ASSUME AnalysisInit PROVE IInv
    OBVIOUS
<1> USE NodesAre, ParcelsAssumption DEF AnalysisInit
<1>1. Types
  <2>1. layer \in [Layers -> Seq(SUBSET Parcels)]
    <3>1. PICK f \in [Layers -> {<<rows>> : rows \in SUBSET Parcels}] : layer = f
        OBVIOUS
    <3>2. \A rows \in SUBSET Parcels : <<rows>> \in Seq(SUBSET Parcels)
        OBVIOUS
    <3>3. ASSUME NEW l \in Layers PROVE f[l] \in Seq(SUBSET Parcels)
      <4>1. PICK rows \in SUBSET Parcels : f[l] = <<rows>>
          OBVIOUS
      <4> QED BY <4>1, <3>2
    <3> QED BY <3>1, <3>3
  <2>2. \A l \in Layers : Newest(l) = 1
      BY DEF Newest
  <2>3. Unmeasured \in GISEvidence
      BY DEF Unmeasured, GISEvidence
  <2>4. gis \in [Parcels -> GISEvidence]
      BY <2>3
  <2>5. /\ Land \in Layers /\ \A c \in Constraints : c \in Layers
        /\ \A p \in Parcels : /\ gis[p].metrics = 0 /\ gis[p].target = 0
                              /\ \A c \in Constraints : gis[p].seen[c] = 0
      BY DEF Layers, Unmeasured
  <2>6. cursor \in [stage : Stages, parcel : Parcels, todo : SUBSET Constraints]
      BY DEF Parcels, Stages
  <2> QED BY <2>1, <2>2, <2>4, <2>5, <2>6 DEF Types, NoReview
<1>2. StartsAfter /\ BranchesAreClean
    BY DEF StartsAfter, BranchesAreClean, Completed
<1>3. SpatialProgress
    BY DEF SpatialProgress
<1>4. CallsItsBundle
    BY DEF CallsItsBundle, NoReview
<1> QED BY <1>1, <1>2, <1>3, <1>4 DEF IInv

(* What the end of a node leaves behind.                                   *)
LEMMA EndsFacts ==
    ASSUME Types, NEW n \in Nodes, NEW s \in Ended, Ends(n, s),
           final.status = "analyzing"
    PROVE  /\ node' \in [Nodes -> Ended \cup {"waiting", "running"}]
           /\ node'[n] = s /\ \A m \in Nodes : m # n => node'[m] = node[m]
           /\ final' = final \/ /\ mode = "sequential"
                                /\ final' = Failed(<<>>, <<>>)
           /\ final' = [status |-> final'.status, results |-> final'.results,
                        ranks |-> final'.ranks, attention |-> final'.attention]
           /\ final'.status \in {"analyzing", "failed"}
  BY DEF Types, Ends, Failed

(* A node that ended has ended for good.                                   *)
LEMMA SuperstepInv == ASSUME IInv, Superstep PROVE IInv'
<1> USE NodesAre DEF IInv, Superstep
<1>1. /\ node' \in [Nodes -> Ended \cup {"waiting", "running"}]
      /\ \A n \in Nodes : node[n] # "waiting" => node'[n] = node[n]
      /\ \A n \in Nodes : node'[n] \in Ended => node'[n] = node[n]
      /\ \A n \in Nodes : node'[n] # "waiting" => node[n] # "waiting" \/ Ready(n)
    BY DEF Types, Ready, Ended
<1>2. /\ Ready("policy_rules") => node["spatial_evidence"] \in Ended
      /\ Ready("merge_gate") =>
           /\ node["poi_evidence"] \in Ended
           /\ node["spatial_evidence"] \in Ended
           /\ mode = "parallel" => node["policy_rules"] \in Ended
      /\ Ready("review") => /\ node["merge_gate"] \in Ended
                            /\ node["policy_rules"] \in Ended
  <2>1. CASE mode = "parallel"
    <3>1. /\ "poi_evidence" \in DependsOn["merge_gate"]
          /\ "policy_rules" \in DependsOn["merge_gate"]
          /\ "spatial_evidence" \in DependsOn["policy_rules"]
          /\ "merge_gate" \in DependsOn["review"]
        BY DEF DependsOn
    <3>2. /\ node["policy_rules"] \in Ended => node["spatial_evidence"] \in Ended
          /\ node["merge_gate"] \in Ended => node["policy_rules"] \in Ended
        BY <2>1 DEF StartsAfter, Ended
    <3> QED BY <2>1, <3>1, <3>2 DEF Ready
  <2>2. CASE mode # "parallel"
    <3> DEFINE Before(n, m) ==
            \E i \in DOMAIN Sequential : \E j \in 1 .. i - 1 :
                Sequential[i] = n /\ Sequential[j] = m
    <3>1. /\ DOMAIN Sequential = 1 .. 5
          /\ Sequential[1] = "poi_evidence" /\ Sequential[2] = "spatial_evidence"
          /\ Sequential[3] = "merge_gate" /\ Sequential[4] = "policy_rules"
          /\ Sequential[5] = "review"
        BY DEF Sequential
    <3>2. /\ Before("policy_rules", "spatial_evidence")
          /\ Before("merge_gate", "poi_evidence")
          /\ Before("merge_gate", "spatial_evidence")
          /\ Before("review", "merge_gate")
          /\ Before("review", "policy_rules")
        BY <3>1
    <3>3. ASSUME NEW n \in Nodes, NEW m \in Nodes, Ready(n), Before(n, m)
          PROVE  node[m] \in Ended
        BY <2>2, <3>3 DEF Ready
    <3> QED BY <2>2, <3>2, <3>3
  <2> QED BY <2>1, <2>2
<1>3. \A n \in Nodes : node[n] \in Ended => node'[n] \in Ended
    BY <1>1 DEF Ended
<1>4. StartsAfter'
    BY <1>1, <1>2, <1>3 DEF StartsAfter
<1>5. \A n \in Nodes, s \in Ended : node'[n] = s <=> node[n] = s
    BY <1>1 DEF Ended
<1>6. BranchesAreClean'
    BY <1>5 DEF BranchesAreClean, Ended, NoPolicy, Market, Completed
<1>7. SpatialProgress'
    BY <1>5 DEF SpatialProgress, HasMetrics, HasTarget, Newest, Ended, Market
<1>8. Types'
    BY <1>1 DEF Types, Newest
<1>9. CallsItsBundle'
    BY DEF CallsItsBundle
<1> QED BY <1>4, <1>6, <1>7, <1>8, <1>9

(* The end of a node other than the review is told by the nodes before it. *)
LEMMA EndsTrace ==
    ASSUME IInv, NEW n \in Nodes \ {"review"}, NEW s \in Ended, Running(n),
           Ends(n, s), UNCHANGED <<mode, scope, harness>>,
           s = "skipped" => n \in {"spatial_evidence", "policy_rules"},
           n = "spatial_evidence" /\ s = "skipped" => Market,
           n = "policy_rules" /\ s = "skipped" => NoPolicy,
           n = "policy_rules" /\ s = "succeeded" => ~ NoPolicy,
           n = "merge_gate" /\ s = "succeeded" => ~ BranchFailed
    PROVE  StartsAfter' /\ BranchesAreClean' /\ CallsItsBundle'
<1> USE NodesAre DEF IInv
<1>1. /\ node'[n] = s /\ \A m \in Nodes : m # n => node'[m] = node[m]
      /\ \/ final' = final
         \/ mode = "sequential" /\ final' = Failed(<<>>, <<>>)
    BY EndsFacts DEF Running
<1>2. node[n] = "running" /\ final.status = "analyzing"
    BY DEF Running
<1>3. StartsAfter'
    BY <1>1, <1>2 DEF StartsAfter, Ended
<1>4. ~ Completed'
    BY <1>1, <1>2 DEF Completed, Failed
<1>5. BranchesAreClean'
  <2>1. CASE n = "poi_evidence"
      BY <2>1, <1>1, <1>2, <1>4
         DEF BranchesAreClean, StartsAfter, Ended, NoPolicy, Market
  <2>2. CASE n = "spatial_evidence"
      BY <2>2, <1>1, <1>2, <1>4
         DEF BranchesAreClean, StartsAfter, Ended, NoPolicy, Market
  <2>3. CASE n = "policy_rules"
      BY <2>3, <1>1, <1>2, <1>4
         DEF BranchesAreClean, StartsAfter, Ended, NoPolicy, Market
  <2>4. CASE n = "merge_gate"
      BY <2>4, <1>1, <1>2, <1>4
         DEF BranchesAreClean, StartsAfter, Ended, NoPolicy, Market, BranchFailed
  <2> QED BY <2>1, <2>2, <2>3, <2>4
<1>6. CallsItsBundle'
    BY DEF CallsItsBundle
<1> QED BY <1>3, <1>5, <1>6

(* While the spatial branch does nothing its progress stands.              *)
LEMMA ProgressStands ==
    ASSUME SpatialProgress, UNCHANGED <<layer, cursor, gis>>,
           scope' = scope,
           node'["spatial_evidence"] = "succeeded" =>
               node["spatial_evidence"] = "succeeded"
    PROVE  SpatialProgress'
  BY DEF SpatialProgress, HasMetrics, HasTarget, Newest, Market

LEMMA CollectPOIInv == ASSUME IInv, CollectPOI PROVE IInv'
<1> USE NodesAre DEF IInv, CollectPOI
<1>1. PICK s \in {"succeeded", "failed"} :
          /\ Ends("poi_evidence", s)
          /\ poi' \in [Parcels -> Answer] \/ poi' = poi
    OBVIOUS
<1>2. /\ "poi_evidence" \in Nodes \ {"review"} /\ s \in Ended
      /\ final.status = "analyzing"
    BY DEF Ended, Running
<1>3. StartsAfter' /\ BranchesAreClean' /\ CallsItsBundle'
    BY <1>1, <1>2, EndsTrace
<1>4. Types'
  <2>1. poi' \in [Parcels -> Answer \cup {NoAnswer}]
      BY <1>1 DEF Types
  <2> QED BY <2>1, <1>1, <1>2, EndsFacts DEF Types, Newest
<1>5. SpatialProgress'
    BY <1>1, <1>2, EndsFacts, ProgressStands
<1> QED BY <1>3, <1>4, <1>5

LEMMA SkipSpatialInv == ASSUME IInv, SkipSpatial PROVE IInv'
<1> USE NodesAre DEF IInv, SkipSpatial
<1>1. /\ "spatial_evidence" \in Nodes \ {"review"} /\ "skipped" \in Ended
      /\ final.status = "analyzing"
    BY DEF Ended, Running
<1>2. StartsAfter' /\ BranchesAreClean' /\ CallsItsBundle'
    BY <1>1, EndsTrace
<1>3. Types'
  <2>1. [Unmeasured EXCEPT !.status = "not_run"] \in GISEvidence
      BY DEF Unmeasured, GISEvidence
  <2>2. /\ gis' \in [Parcels -> GISEvidence]
        /\ \A p \in Parcels : /\ gis'[p].metrics = 0 /\ gis'[p].target = 0
                              /\ \A c \in Constraints : gis'[p].seen[c] = 0
      BY <2>1 DEF Unmeasured
  <2>3. Newest(Land) \in Nat /\ \A c \in Constraints : Newest(c) \in Nat
      BY DEF Types, Newest, Layers
  <2>4. /\ node' \in [Nodes -> Ended \cup {"waiting", "running"}]
        /\ final' = [status |-> final'.status, results |-> final'.results,
                     ranks |-> final'.ranks, attention |-> final'.attention]
        /\ final'.status \in {"analyzing", "failed"}
      BY <1>1, EndsFacts
  <2>5. UNCHANGED <<mode, scope, layer, cursor, poi, policy, harness>>
      OBVIOUS
  <2> HIDE DEF SkipSpatial
  <2> QED BY <2>2, <2>3, <2>4, <2>5 DEF Types, Newest
<1>4. SpatialProgress'
    BY <1>1, EndsFacts DEF SpatialProgress, Market
<1> QED BY <1>2, <1>3, <1>4

(* While no node ends the trace stands.                                    *)
LEMMA TraceStands ==
    ASSUME StartsAfter, BranchesAreClean, CallsItsBundle,
           UNCHANGED <<mode, scope, node, final, harness>>
    PROVE  StartsAfter' /\ BranchesAreClean' /\ CallsItsBundle'
  BY DEF StartsAfter, BranchesAreClean, CallsItsBundle, NoPolicy, Market, Completed

LEMMA SpatialFailsInv ==
    ASSUME IInv, Running("spatial_evidence"), SpatialFails,
           UNCHANGED <<mode, scope, layer, poi, policy, harness>>
    PROVE  IInv'
<1> USE NodesAre DEF IInv
<1>0. Ends("spatial_evidence", "failed") /\ UNCHANGED <<cursor, gis>>
    BY DEF SpatialFails
<1>1. /\ "spatial_evidence" \in Nodes \ {"review"} /\ "failed" \in Ended
      /\ final.status = "analyzing"
    BY DEF Ended, Running
<1>2. StartsAfter' /\ BranchesAreClean' /\ CallsItsBundle'
    BY <1>0, <1>1, EndsTrace
<1>3. Types'
  <2>1. /\ node' \in [Nodes -> Ended \cup {"waiting", "running"}]
        /\ final' = [status |-> final'.status, results |-> final'.results,
                     ranks |-> final'.ranks, attention |-> final'.attention]
        /\ final'.status \in {"analyzing", "failed"}
      BY <1>0, <1>1, EndsFacts
  <2> QED BY <1>0, <2>1 DEF Types, Newest
<1>4. SpatialProgress'
    BY <1>0, <1>1, EndsFacts, ProgressStands
<1> QED BY <1>2, <1>3, <1>4

(* A pass goes on to the next parcel, or to the next pass after the last.  *)
LEMMA AdvanceFacts ==
    ASSUME Types, NEW s \in Stages, NEW t \in Stages, Advance(s, t)
    PROVE  /\ cursor' \in [stage : Stages, parcel : Parcels,
                           todo : SUBSET Constraints]
           /\ \/ /\ cursor'.stage = s /\ cursor'.parcel = cursor.parcel + 1
              \/ /\ cursor'.stage = t /\ cursor'.parcel = 1
                 /\ cursor.parcel = N
<1>1. cursor.parcel \in 1 .. N
    BY DEF Types, Parcels
<1>2. CASE cursor.parcel < N
  <2>1. cursor' = [stage |-> s, parcel |-> cursor.parcel + 1, todo |-> {}]
      BY <1>2 DEF Advance
  <2>2. cursor.parcel + 1 \in Parcels
      BY <1>1, <1>2, ParcelsAssumption DEF Parcels
  <2> QED BY <2>1, <2>2
<1>3. CASE cursor.parcel = N
  <2>1. cursor' = [stage |-> t, parcel |-> 1, todo |-> {}]
      BY <1>1, <1>3, ParcelsAssumption DEF Advance
  <2>2. 1 \in Parcels
      BY ParcelsAssumption DEF Parcels
  <2> QED BY <1>3, <2>1, <2>2
<1> QED BY <1>1, <1>2, <1>3, ParcelsAssumption

LEMMA CollectInv == ASSUME IInv, Collect PROVE IInv'
<1> USE NodesAre DEF IInv
<1>0. PICK p \in Parcels : p = cursor.parcel
    BY DEF Types
<1>1. Running("spatial_evidence") /\ ~ Market /\ cursor.stage = "collect"
    BY DEF Collect, AtStage
<1>2. /\ UNCHANGED <<mode, scope, layer, poi, policy, harness>>
      /\ \/ SpatialFails
         \/ \E status \in {"ready", "missing"} :
                /\ gis' = [gis EXCEPT ![p].status = status]
                /\ Advance("collect", "metrics")
                /\ UNCHANGED <<node, final>>
    BY <1>0 DEF Collect
<1>3. CASE SpatialFails
    BY <1>1, <1>2, <1>3, SpatialFailsInv
<1>4. ASSUME NEW status \in {"ready", "missing"},
             gis' = [gis EXCEPT ![p].status = status],
             Advance("collect", "metrics"), UNCHANGED <<node, final>>
      PROVE  IInv'
  <2>1. /\ cursor' \in [stage : Stages, parcel : Parcels,
                        todo : SUBSET Constraints]
        /\ cursor'.stage = "collect" \/ /\ cursor'.stage = "metrics"
                                        /\ cursor'.parcel = 1
      BY <1>4, AdvanceFacts DEF Stages
  <2>2. /\ gis' \in [Parcels -> GISEvidence]
        /\ \A q \in Parcels : /\ gis'[q].metrics = gis[q].metrics
                              /\ gis'[q].target = gis[q].target
                              /\ gis'[q].seen = gis[q].seen
    <3>1. gis[p] \in GISEvidence
        BY DEF Types
    <3>2. [gis[p] EXCEPT !.status = status] \in GISEvidence
        BY <3>1 DEF GISEvidence
    <3>3. gis' = [gis EXCEPT ![p] = [gis[p] EXCEPT !.status = status]]
        BY <1>4
    <3> QED BY <3>1, <3>2, <3>3 DEF Types
  <2>3. Types'
      BY <1>2, <1>4, <2>1, <2>2 DEF Types, Newest
  <2>4. SpatialProgress'
      BY <1>1, <1>2, <1>4, <2>1, ParcelsAssumption
         DEF SpatialProgress, Market, Parcels
  <2> QED BY <1>2, <1>4, <2>3, <2>4, TraceStands
<1> QED BY <1>2, <1>3, <1>4

LEMMA MeasureInv == ASSUME IInv, Measure PROVE IInv'
<1> USE NodesAre DEF IInv
<1>0. PICK p \in Parcels : p = cursor.parcel
    BY DEF Types
<1>1. Running("spatial_evidence") /\ ~ Market /\ cursor.stage = "metrics"
    BY DEF Measure, AtStage
<1>2. /\ UNCHANGED <<mode, scope, layer, poi, policy, harness>>
      /\ \/ SpatialFails
         \/ /\ p \in layer[Land][Newest(Land)]
            /\ gis' = [gis EXCEPT ![p].metrics = Newest(Land)]
            /\ Advance("metrics", "target")
            /\ UNCHANGED <<node, final>>
    BY <1>0 DEF Measure, StillThere, HasRows
<1>3. CASE SpatialFails
    BY <1>1, <1>2, <1>3, SpatialFailsInv
<1>4. CASE ~ SpatialFails
  <2>1. /\ cursor' \in [stage : Stages, parcel : Parcels,
                        todo : SUBSET Constraints]
        /\ \/ cursor'.stage = "metrics" /\ cursor'.parcel = p + 1
           \/ cursor'.stage = "target" /\ cursor'.parcel = 1 /\ p = N
      BY <1>0, <1>2, <1>4, AdvanceFacts DEF Stages
  <2>2. Newest(Land) \in Nat \ {0}
      BY DEF Types, Newest, Layers
  <2>3. /\ gis' \in [Parcels -> GISEvidence]
        /\ gis'[p].metrics = Newest(Land) /\ gis'[p].target = gis[p].target
        /\ \A q \in Parcels : gis'[q].seen = gis[q].seen
        /\ \A q \in Parcels : q # p => gis'[q] = gis[q]
    <3>1. gis[p] \in GISEvidence
        BY <2>2 DEF Types
    <3>2. [gis[p] EXCEPT !.metrics = Newest(Land)] \in GISEvidence
        BY <2>2, <3>1 DEF GISEvidence
    <3>3. gis' = [gis EXCEPT ![p] = [gis[p] EXCEPT !.metrics = Newest(Land)]]
        BY <1>2, <1>4
    <3> QED BY <2>2, <3>1, <3>2, <3>3 DEF Types, GISEvidence
  <2>4. Types'
      BY <1>2, <1>4, <2>1, <2>2, <2>3 DEF Types, Newest
  <2>5. HasMetrics(p)' /\ \A q \in Parcels : HasMetrics(q) => HasMetrics(q)'
      BY <1>2, <1>4, <2>2, <2>3 DEF HasMetrics, Newest
  <2>6. SpatialProgress'
    <3>1. \A q \in Parcels : q < p => HasMetrics(q)
        BY <1>0, <1>1 DEF SpatialProgress
    <3>2. CASE cursor'.stage = "metrics" /\ cursor'.parcel = p + 1
        BY <1>1, <1>2, <1>4, <2>2, <2>5, <3>1, <3>2
           DEF SpatialProgress, Market, Parcels
    <3>3. CASE cursor'.stage = "target" /\ cursor'.parcel = 1 /\ p = N
        BY <1>1, <1>2, <1>4, <2>2, <2>5, <3>1, <3>3, ParcelsAssumption
           DEF SpatialProgress, Market, Parcels
    <3> QED BY <2>1, <3>2, <3>3
  <2> QED BY <1>2, <1>4, <2>4, <2>6, TraceStands
<1> QED BY <1>3, <1>4

LEMMA TargetInv == ASSUME IInv, Target PROVE IInv'
<1> USE NodesAre DEF IInv
<1>0. PICK p \in Parcels : p = cursor.parcel
    BY DEF Types
<1>1. Running("spatial_evidence") /\ ~ Market /\ cursor.stage = "target"
    BY DEF Target, AtStage
<1>2. /\ UNCHANGED <<mode, scope, layer, poi, policy, harness>>
      /\ \/ SpatialFails
         \/ /\ p \in layer[Land][Newest(Land)]
            /\ gis' = [gis EXCEPT ![p].target = Newest(Land)]
            /\ cursor' = [stage |-> "observe", parcel |-> p,
                          todo |-> Constraints]
            /\ UNCHANGED <<node, final>>
    BY <1>0 DEF Target, StillThere, HasRows
<1>3. CASE SpatialFails
    BY <1>1, <1>2, <1>3, SpatialFailsInv
<1>4. CASE ~ SpatialFails
  <2>1. Newest(Land) \in Nat \ {0}
      BY DEF Types, Newest, Layers
  <2>2. cursor' \in [stage : Stages, parcel : Parcels, todo : SUBSET Constraints]
      BY <1>2, <1>4, <2>1 DEF Stages
  <2>3. /\ gis' \in [Parcels -> GISEvidence]
        /\ gis'[p].target = Newest(Land) /\ gis'[p].metrics = gis[p].metrics
        /\ \A q \in Parcels : gis'[q].seen = gis[q].seen
        /\ \A q \in Parcels : q # p => gis'[q] = gis[q]
    <3>1. gis[p] \in GISEvidence
        BY <2>1 DEF Types
    <3>2. [gis[p] EXCEPT !.target = Newest(Land)] \in GISEvidence
        BY <2>1, <3>1 DEF GISEvidence
    <3>3. gis' = [gis EXCEPT ![p] = [gis[p] EXCEPT !.target = Newest(Land)]]
        BY <1>2, <1>4
    <3> QED BY <2>1, <3>1, <3>2, <3>3 DEF Types, GISEvidence
  <2>4. Types'
    <3>1. \A l \in Layers : Newest(l)' = Newest(l)
        BY <1>2, <1>4 DEF Newest
    <3>2. /\ \A q \in Parcels : gis'[q].metrics = gis[q].metrics
          /\ \A q \in Parcels \ {p} : gis'[q].target = gis[q].target
          /\ Land \in Layers /\ Constraints \subseteq Layers
        BY <2>3 DEF Layers
    <3>3. \A q \in Parcels :
            /\ gis'[q].metrics <= Newest(Land)' /\ gis'[q].target <= Newest(Land)'
            /\ \A c \in Constraints : gis'[q].seen[c] <= Newest(c)'
        BY <2>1, <2>3, <3>1, <3>2 DEF Types
    <3>4. UNCHANGED <<node, mode, scope, layer, poi, policy, final, harness>>
        BY <1>2, <1>4
    <3> QED BY <2>2, <2>3, <3>1, <3>3, <3>4 DEF Types
  <2>5. /\ HasTarget(p)' /\ \A q \in Parcels : HasTarget(q) => HasTarget(q)'
        /\ \A q \in Parcels : HasMetrics(q) => HasMetrics(q)'
      BY <1>2, <1>4, <2>1, <2>3 DEF HasMetrics, HasTarget, Newest
  <2>6. SpatialProgress'
    <3>1. /\ \A q \in Parcels : HasMetrics(q)
          /\ \A q \in Parcels : q < p => HasTarget(q)
          /\ node["spatial_evidence"] # "succeeded"
        BY <1>0, <1>1 DEF SpatialProgress
    <3>2. cursor'.stage = "observe" /\ cursor'.parcel = p
        BY <1>2, <1>4
    <3>3. \A q \in Parcels : q <= p => HasTarget(q)'
        BY <2>1, <2>5, <3>1 DEF Parcels
    <3> QED BY <1>1, <1>2, <1>4, <2>5, <3>1, <3>2, <3>3
            DEF SpatialProgress, Market
  <2> QED BY <1>2, <1>4, <2>4, <2>6, TraceStands
<1> QED BY <1>3, <1>4

LEMMA ObserveInv ==
    ASSUME IInv, NEW c \in Constraints, Observe(c) PROVE IInv'
<1> USE NodesAre DEF IInv
<1>0. PICK p \in Parcels : p = cursor.parcel
    BY DEF Types
<1>1. /\ Running("spatial_evidence") /\ ~ Market /\ cursor.stage = "observe"
      /\ final.status = "analyzing" /\ node["spatial_evidence"] = "running"
    BY DEF Observe, AtStage, Running
<1>2. /\ UNCHANGED <<mode, scope, layer, poi, policy, harness>>
      /\ \/ SpatialFails
         \/ /\ gis' = [gis EXCEPT ![p].seen[c] = Newest(c),
                                  ![p].triggered[c] = p \in layer[c][Newest(c)]]
            /\ \/ /\ cursor' = [cursor EXCEPT !.todo = @ \ {c}]
                  /\ UNCHANGED <<node, final>>
               \/ /\ Advance("target", "done")
                  /\ IF p = N THEN Ends("spatial_evidence", "succeeded")
                              ELSE UNCHANGED <<node, final>>
    BY <1>0 DEF Observe
<1>3. CASE SpatialFails
    BY <1>1, <1>2, <1>3, SpatialFailsInv
<1>4. CASE ~ SpatialFails
  <2>1. Newest(c) \in Nat
      BY DEF Types, Newest, Layers
  <2>2. /\ gis' \in [Parcels -> GISEvidence]
        /\ \A q \in Parcels : /\ gis'[q].metrics = gis[q].metrics
                              /\ gis'[q].target = gis[q].target
        /\ \A q \in Parcels, d \in Constraints :
              \/ gis'[q].seen[d] = gis[q].seen[d]
              \/ d = c /\ gis'[q].seen[d] = Newest(c)
    <3> DEFINE hit == p \in layer[c][Newest(c)]
               e == [gis[p] EXCEPT !.seen = [@ EXCEPT ![c] = Newest(c)],
                                   !.triggered = [@ EXCEPT ![c] = hit]]
    <3>1. gis[p] \in GISEvidence /\ hit \in BOOLEAN
        BY DEF Types
    <3>2. /\ e \in GISEvidence /\ e.metrics = gis[p].metrics
          /\ e.target = gis[p].target
          /\ \A d \in Constraints : e.seen[d] = IF d = c THEN Newest(c)
                                                ELSE gis[p].seen[d]
      <4> HIDE DEF hit
      <4> QED BY <2>1, <3>1 DEF GISEvidence
    <3>3. gis' = [gis EXCEPT ![p] = e]
      <4> HIDE DEF hit
      <4>1. gis' = [gis EXCEPT ![p].seen[c] = Newest(c),
                               ![p].triggered[c] = hit]
          BY <1>2, <1>4 DEF hit
      <4> QED BY <3>1, <4>1 DEF Types, GISEvidence
    <3>4. gis' \in [Parcels -> GISEvidence] /\ gis'[p] = e
          /\ \A q \in Parcels : q # p => gis'[q] = gis[q]
      <4> HIDE DEF e
      <4> QED BY <3>2, <3>3 DEF Types
    <3> HIDE DEF e
    <3> QED BY <3>2, <3>4
  <2>3. CASE /\ cursor' = [cursor EXCEPT !.todo = @ \ {c}]
             /\ UNCHANGED <<node, final>>
    <3>1. /\ cursor' \in [stage : Stages, parcel : Parcels,
                          todo : SUBSET Constraints]
          /\ cursor'.stage = cursor.stage /\ cursor'.parcel = cursor.parcel
        BY <2>3 DEF Types
    <3>2. Types'
        BY <1>2, <2>1, <2>2, <2>3, <3>1 DEF Types, Newest
    <3>3. SpatialProgress'
        BY <1>1, <1>2, <2>2, <2>3, <3>1
           DEF SpatialProgress, HasMetrics, HasTarget, Newest, Market
    <3> QED BY <1>2, <2>3, <3>2, <3>3, TraceStands
  <2>4. CASE /\ Advance("target", "done")
             /\ IF p = N THEN Ends("spatial_evidence", "succeeded")
                         ELSE UNCHANGED <<node, final>>
    <3>1. /\ cursor' \in [stage : Stages, parcel : Parcels,
                          todo : SUBSET Constraints]
          /\ \/ cursor'.stage = "target" /\ cursor'.parcel = p + 1
             \/ cursor'.stage = "done" /\ p = N
        BY <1>0, <2>4, AdvanceFacts DEF Stages
    <3>2. /\ "spatial_evidence" \in Nodes \ {"review"} /\ "succeeded" \in Ended
        BY DEF Ended
    <3>3. /\ node' \in [Nodes -> Ended \cup {"waiting", "running"}]
          /\ final' = [status |-> final'.status, results |-> final'.results,
                       ranks |-> final'.ranks, attention |-> final'.attention]
          /\ final'.status \in {"analyzing", "failed"}
          /\ node'["spatial_evidence"] = "succeeded" => p = N
        BY <1>1, <2>4, <3>2, EndsFacts DEF Types
    <3>4. Types'
      <4>1. layer' = layer /\ \A l \in Layers : Newest(l)' = Newest(l)
          BY <1>2 DEF Newest
      <4>2. \A q \in Parcels : /\ gis'[q].metrics <= Newest(Land)
                               /\ gis'[q].target <= Newest(Land)
          BY <2>2 DEF Types
      <4>3. \A q \in Parcels, d \in Constraints : gis'[q].seen[d] <= Newest(d)
          BY <2>1, <2>2 DEF Types
      <4> QED BY <1>2, <2>2, <3>1, <3>3, <4>1, <4>2, <4>3 DEF Types, Layers
    <3>5. /\ \A q \in Parcels : HasMetrics(q)'
          /\ \A q \in Parcels : q <= p => HasTarget(q)'
        BY <1>0, <1>1, <1>2, <2>2
           DEF SpatialProgress, HasMetrics, HasTarget, Newest
    <3>6. SpatialProgress'
      <4>1. CASE cursor'.stage = "target" /\ cursor'.parcel = p + 1
        <5>1. p # N
          <6>1. cursor.parcel < N => cursor'.stage = "target"
              BY <2>4 DEF Advance
          <6>2. ~ (cursor.parcel < N) => cursor'.stage = "done"
              BY <2>4 DEF Advance
          <6> QED BY <1>0, <4>1, <6>2, ParcelsAssumption DEF Parcels
        <5>2. node'["spatial_evidence"] # "succeeded"
            BY <3>3, <5>1
        <5>3. \A q \in Parcels : q < p + 1 => HasTarget(q)'
            BY <3>5, ParcelsAssumption DEF Parcels
        <5> QED BY <1>1, <1>2, <3>5, <4>1, <5>2, <5>3
                DEF SpatialProgress, Market
      <4>2. CASE cursor'.stage = "done" /\ p = N
        <5>1. \A q \in Parcels : HasTarget(q)'
            BY <3>5, <4>2, ParcelsAssumption DEF Parcels
        <5> QED BY <1>1, <1>2, <3>5, <4>2, <5>1 DEF SpatialProgress, Market
      <4> QED BY <3>1, <4>1, <4>2
    <3>7. /\ StartsAfter' /\ BranchesAreClean'
          /\ CallsItsBundle'
      <4>1. CASE p = N
          BY <1>1, <1>2, <2>4, <3>2, <4>1, EndsTrace
      <4>2. CASE p # N
          BY <1>2, <2>4, <4>2, TraceStands
      <4> QED BY <4>1, <4>2
    <3> QED BY <3>4, <3>6, <3>7
  <2> QED BY <1>2, <1>4, <2>3, <2>4
<1> QED BY <1>3, <1>4

(* A new revision takes no row away from those evidence was drawn from.    *)
LEMMA ReplaceLayerInv ==
    ASSUME IInv, NEW l \in Layers, NEW rows \in SUBSET Parcels,
           ReplaceLayer(l, rows)
    PROVE  IInv'
<1> USE DEF IInv, ReplaceLayer, workVars
<1>1. /\ layer' \in [Layers -> Seq(SUBSET Parcels)]
      /\ \A k \in Layers :
            /\ Newest(k) \in Nat /\ Newest(k)' \in Nat
            /\ Newest(k) <= Newest(k)'
            /\ \A i \in 1 .. Newest(k) : layer'[k][i] = layer[k][i]
  <2>1. layer[l] \in Seq(SUBSET Parcels)
      BY DEF Types
  <2>2. /\ Append(layer[l], rows) \in Seq(SUBSET Parcels)
        /\ Len(Append(layer[l], rows)) = Len(layer[l]) + 1
        /\ \A i \in 1 .. Len(layer[l]) : Append(layer[l], rows)[i] = layer[l][i]
      BY <2>1, AppendProperties
  <2>3. \A k \in Layers : Len(layer[k]) \in Nat
      BY LenProperties DEF Types
  <2>4. /\ layer' \in [Layers -> Seq(SUBSET Parcels)]
        /\ layer'[l] = Append(layer[l], rows)
        /\ \A k \in Layers : k # l => layer'[k] = layer[k]
      BY <2>2 DEF Types
  <2> QED BY <2>2, <2>3, <2>4 DEF Newest
<1>2. Land \in Layers /\ \A c \in Constraints : c \in Layers
    BY DEF Layers
<1>3. Types'
  <2>1. \A p \in Parcels :
          /\ gis[p].metrics \in Nat /\ gis[p].target \in Nat
          /\ \A c \in Constraints : gis[p].seen[c] \in Nat
      BY DEF Types, GISEvidence
  <2>2. \A p \in Parcels :
          /\ gis[p].metrics <= Newest(Land)' /\ gis[p].target <= Newest(Land)'
          /\ \A c \in Constraints : gis[p].seen[c] <= Newest(c)'
    <3> HIDE DEF ReplaceLayer
    <3> QED BY <1>1, <1>2, <2>1 DEF Types
  <2>3. \A k \in Layers : Newest(k)' > 0
      BY <1>1 DEF Types
  <2> QED BY <1>1, <2>2, <2>3 DEF Types
<1>4. \A p \in Parcels : /\ HasMetrics(p) => HasMetrics(p)'
                         /\ HasTarget(p) => HasTarget(p)'
  <2>1. \A i \in 1 .. Newest(Land) :
            i \in 1 .. Newest(Land)' /\ layer'[Land][i] = layer[Land][i]
    <3> HIDE DEF ReplaceLayer
    <3> QED BY <1>1, <1>2
  <2> QED BY <2>1 DEF HasMetrics, HasTarget
<1>5. SpatialProgress'
    BY <1>4 DEF SpatialProgress, Market
<1> QED BY <1>3, <1>5, TraceStands

LEMMA SkipPolicyInv == ASSUME IInv, SkipPolicy PROVE IInv'
<1> USE NodesAre DEF IInv
<1>1. /\ "policy_rules" \in Nodes \ {"review"} /\ "skipped" \in Ended
      /\ final.status = "analyzing" /\ Running("policy_rules") /\ NoPolicy
      /\ Ends("policy_rules", "skipped")
      /\ UNCHANGED <<mode, scope, layer, cursor, gis, poi, policy, harness>>
    BY DEF Ended, Running, SkipPolicy
<1>2. /\ node' \in [Nodes -> Ended \cup {"waiting", "running"}]
      /\ final' = [status |-> final'.status, results |-> final'.results,
                   ranks |-> final'.ranks, attention |-> final'.attention]
      /\ final'.status \in {"analyzing", "failed"}
      /\ node'["spatial_evidence"] = node["spatial_evidence"]
    BY <1>1, EndsFacts
<1>3. Types'
    BY <1>1, <1>2 DEF Types, Newest
<1> QED BY <1>1, <1>2, <1>3, EndsTrace, ProgressStands

LEMMA PolicyInv == ASSUME IInv, Policy PROVE IInv'
<1> USE NodesAre DEF IInv
<1>1. PICK s \in {"succeeded", "failed"} :
          /\ Ends("policy_rules", s)
          /\ \/ policy' = [p \in Parcels |->
                              {c \in Constraints : gis[p].triggered[c]}]
             \/ policy' = policy
    BY DEF Policy
<1>2. /\ "policy_rules" \in Nodes \ {"review"} /\ s \in Ended
      /\ final.status = "analyzing" /\ Running("policy_rules") /\ ~ NoPolicy
      /\ UNCHANGED <<mode, scope, layer, cursor, gis, poi, harness>>
    BY DEF Ended, Running, Policy
<1>3. /\ node' \in [Nodes -> Ended \cup {"waiting", "running"}]
      /\ final' = [status |-> final'.status, results |-> final'.results,
                   ranks |-> final'.ranks, attention |-> final'.attention]
      /\ final'.status \in {"analyzing", "failed"}
      /\ node'["spatial_evidence"] = node["spatial_evidence"]
    BY <1>1, <1>2, EndsFacts
<1>4. policy' \in [Parcels -> SUBSET Constraints]
    BY <1>1 DEF Types
<1>5. Types'
    BY <1>2, <1>3, <1>4 DEF Types, Newest
<1> QED BY <1>1, <1>2, <1>3, <1>5, EndsTrace, ProgressStands

LEMMA MergeInv == ASSUME IInv, Merge PROVE IInv'
<1> USE NodesAre DEF IInv
<1>1. PICK s \in {"succeeded", "failed"} :
          /\ Ends("merge_gate", s) /\ (s = "succeeded" => ~ BranchFailed)
    BY DEF Merge
<1>2. /\ "merge_gate" \in Nodes \ {"review"} /\ s \in Ended
      /\ final.status = "analyzing" /\ Running("merge_gate")
      /\ UNCHANGED <<mode, scope, layer, cursor, gis, poi, policy, harness>>
    BY DEF Ended, Running, Merge
<1>3. /\ node' \in [Nodes -> Ended \cup {"waiting", "running"}]
      /\ final' = [status |-> final'.status, results |-> final'.results,
                   ranks |-> final'.ranks, attention |-> final'.attention]
      /\ final'.status \in {"analyzing", "failed"}
      /\ node'["spatial_evidence"] = node["spatial_evidence"]
    BY <1>1, <1>2, EndsFacts
<1>4. Types'
    BY <1>2, <1>3 DEF Types, Newest
<1> QED BY <1>1, <1>2, <1>3, <1>4, EndsTrace, ProgressStands

(* Steps of the review: evidence stands, and the node itself may end.      *)
ReviewStep ==
    /\ Running("review")
    /\ UNCHANGED <<mode, scope, layer, cursor, gis, poi, policy>>
    /\ \E s \in Ended \cup {"running"} :
         /\ node' = [node EXCEPT !["review"] = s]
         /\ s = "succeeded" => node["merge_gate"] # "failed"
         /\ Completed' => s = "succeeded"

LEMMA ReviewStepTrace ==
    ASSUME IInv, ReviewStep
    PROVE  /\ StartsAfter' /\ BranchesAreClean' /\ SpatialProgress'
           /\ node' \in [Nodes -> Ended \cup {"waiting", "running"}]
<1> USE NodesAre DEF IInv, ReviewStep
<1>1. PICK s \in Ended \cup {"running"} :
          /\ node' = [node EXCEPT !["review"] = s]
          /\ s = "succeeded" => node["merge_gate"] # "failed"
          /\ Completed' => s = "succeeded"
    OBVIOUS
<1>2. /\ node'["review"] = s
      /\ \A n \in Nodes \ {"review"} : node'[n] = node[n]
      /\ node["review"] = "running"
      /\ node' \in [Nodes -> Ended \cup {"waiting", "running"}]
    BY <1>1 DEF Types, Running, Ended
<1>3. StartsAfter'
    BY <1>2 DEF StartsAfter
<1>4. BranchesAreClean'
    BY <1>1, <1>2 DEF BranchesAreClean, NoPolicy, Market
<1>5. SpatialProgress'
    BY <1>2, ProgressStands
<1> QED BY <1>2, <1>3, <1>4, <1>5

LEMMA SkipReviewInv == ASSUME IInv, SkipReview PROVE IInv'
<1> USE DEF IInv, SkipReview
<1>1. final' = Failed(<<>>, <<>>) /\ harness' = harness
    OBVIOUS
<1>2. ReviewStep
    BY DEF ReviewStep, Completed, Failed, Ended
<1>3. Types'
    BY <1>1, <1>2, ReviewStepTrace DEF Types, Newest, Failed
<1>4. CallsItsBundle'
    BY <1>1 DEF CallsItsBundle
<1> QED BY <1>2, <1>3, <1>4, ReviewStepTrace

LEMMA AssembleInv == ASSUME IInv, Assemble PROVE IInv'
<1> USE NodesAre DEF IInv
<1> DEFINE Scores == [p \in Parcels |-> poi[p].score]
<1>1. PICK configured \in BOOLEAN :
          /\ final' = [status    |-> IF configured THEN "analyzing"
                                                   ELSE "completed",
                       results   |-> Scores,
                       ranks     |-> Ranked(Scores),
                       attention |-> NeedsAttention]
          /\ harness' = IF configured THEN [NoReview EXCEPT !.stage = "due"]
                                      ELSE harness
          /\ node' = IF configured THEN node
                     ELSE [node EXCEPT !["review"] = "succeeded"]
    BY DEF Assemble
<1> HIDE DEF Scores
<1>2. /\ Running("review") /\ node["review"] = "running"
      /\ node["merge_gate"] # "failed" /\ harness.stage = "none"
      /\ UNCHANGED <<mode, scope, layer, cursor, gis, poi, policy>>
    BY DEF Assemble, Reviewable, Running
<1>3. ReviewStep
  <2>1. CASE configured
    <3>1. node' = [node EXCEPT !["review"] = "running"]
        BY <1>1, <1>2, <2>1 DEF Types
    <3> QED BY <1>1, <1>2, <2>1, <3>1 DEF ReviewStep, Completed
  <2>2. CASE ~ configured
      BY <1>1, <1>2, <2>2 DEF ReviewStep, Completed, Ended
  <2> QED BY <2>1, <2>2
<1>4. /\ harness' = [stage |-> harness'.stage, prompts |-> harness'.prompts,
                     used |-> harness'.used, named |-> harness'.named,
                     outcome |-> harness'.outcome]
      /\ harness'.stage \in {"none", "due"} /\ harness'.used = {}
    BY <1>1, <1>2 DEF Types, NoReview, CallsItsBundle
<1>5. Types'
    BY <1>1, <1>2, <1>3, <1>4, ReviewStepTrace DEF Types, Newest
<1>6. CallsItsBundle'
    BY <1>1, <1>4 DEF CallsItsBundle
<1> QED BY <1>3, <1>5, <1>6, ReviewStepTrace

LEMMA AssemblyRaisesInv == ASSUME IInv, AssemblyRaises PROVE IInv'
<1> USE DEF IInv
<1>1. PICK results, ranks : final' = Failed(results, ranks)
    BY DEF AssemblyRaises
<1>2. /\ node' = [node EXCEPT !["review"] = "failed"] /\ Running("review")
      /\ UNCHANGED <<mode, scope, layer, cursor, gis, poi, policy, harness>>
    BY DEF AssemblyRaises, Reviewable
<1>3. ReviewStep
    BY <1>1, <1>2 DEF ReviewStep, Ended, Completed, Failed
<1>4. Types'
    BY <1>1, <1>2, <1>3, ReviewStepTrace DEF Types, Newest, Failed
<1>5. CallsItsBundle'
    BY <1>2 DEF CallsItsBundle
<1> QED BY <1>3, <1>4, <1>5, ReviewStepTrace

LEMMA OpenHarnessInv == ASSUME IInv, OpenHarness PROVE IInv'
<1> USE DEF IInv
<1>1. /\ harness' = [NoReview EXCEPT !.stage = "reviewing", !.prompts = active]
      /\ UNCHANGED <<mode, scope, layer, node, cursor, gis, poi, policy, final>>
    BY DEF OpenHarness
<1>2. /\ harness' = [stage |-> harness'.stage, prompts |-> harness'.prompts,
                     used |-> harness'.used, named |-> harness'.named,
                     outcome |-> harness'.outcome]
      /\ harness'.stage = "reviewing" /\ harness'.used = {}
    BY <1>1 DEF NoReview
<1>3. Types'
    BY <1>1, <1>2 DEF Types, Newest
<1>4. StartsAfter' /\ BranchesAreClean'
    BY <1>1 DEF StartsAfter, BranchesAreClean, NoPolicy, Market, Completed
<1>5. CallsItsBundle'
    BY <1>1, <1>2 DEF CallsItsBundle
<1> QED BY <1>1, <1>3, <1>4, <1>5, ProgressStands

LEMMA CallAgentInv == ASSUME IInv, CallAgent PROVE IInv'
<1> USE DEF IInv
<1>1. /\ harness' = [harness EXCEPT !.used = @ \cup {harness.prompts}]
      /\ harness.stage = "reviewing"
      /\ UNCHANGED <<mode, scope, layer, node, cursor, gis, poi, policy, final>>
    BY DEF CallAgent, Prompted
<1>2. /\ harness' = [stage |-> harness'.stage, prompts |-> harness'.prompts,
                     used |-> harness'.used, named |-> harness'.named,
                     outcome |-> harness'.outcome]
      /\ harness'.stage = "reviewing" /\ harness'.prompts = harness.prompts
      /\ harness'.used = harness.used \cup {harness.prompts}
    BY <1>1 DEF Types
<1>3. Types'
    BY <1>1, <1>2 DEF Types, Newest
<1>4. StartsAfter' /\ BranchesAreClean'
    BY <1>1 DEF StartsAfter, BranchesAreClean, NoPolicy, Market, Completed
<1>5. CallsItsBundle'
    BY <1>2 DEF CallsItsBundle
<1> QED BY <1>1, <1>3, <1>4, <1>5, ProgressStands

LEMMA CloseHarnessInv ==
    ASSUME IInv, NEW outcome \in Outcomes, CloseHarness(outcome) PROVE IInv'
<1> USE DEF IInv
<1>1. /\ harness' = [harness EXCEPT !.stage = "closed", !.named = harness.prompts,
                                    !.outcome = outcome]
      /\ node' = [node EXCEPT !["review"] = "succeeded"]
      /\ final' = [final EXCEPT !.status = "completed"]
      /\ Running("review") /\ node["merge_gate"] # "failed"
      /\ UNCHANGED <<mode, scope, layer, cursor, gis, poi, policy>>
    BY DEF CloseHarness, Named, Reviewable
<1>2. ReviewStep
    BY <1>1 DEF ReviewStep, Ended
<1>3. /\ harness' = [stage |-> harness'.stage, prompts |-> harness'.prompts,
                     used |-> harness'.used, named |-> harness'.named,
                     outcome |-> harness'.outcome]
      /\ harness'.stage = "closed" /\ harness'.named = harness'.prompts
      /\ harness'.used = harness.used /\ harness'.prompts = harness.prompts
    BY <1>1 DEF Types
<1>4. /\ final' = [status |-> final'.status, results |-> final'.results,
                   ranks |-> final'.ranks, attention |-> final'.attention]
      /\ final'.status = "completed"
    BY <1>1 DEF Types
<1>5. Types'
    BY <1>1, <1>2, <1>3, <1>4, ReviewStepTrace DEF Types, Newest
<1>6. CallsItsBundle'
    BY <1>3, <1>4 DEF CallsItsBundle
<1> QED BY <1>2, <1>5, <1>6, ReviewStepTrace

LEMMA ReviewRaisesInv == ASSUME IInv, ReviewRaises PROVE IInv'
<1> USE DEF IInv
<1>1. /\ harness' = NoReview
      /\ node' = [node EXCEPT !["review"] = "failed"]
      /\ final' = Failed(KeptAfterReview[1], KeptAfterReview[2])
      /\ Running("review")
      /\ UNCHANGED <<mode, scope, layer, cursor, gis, poi, policy>>
    BY DEF ReviewRaises, Reviewable
<1>2. ReviewStep
    BY <1>1 DEF ReviewStep, Ended, Completed, Failed
<1>3. Types'
    BY <1>1, <1>2, ReviewStepTrace DEF Types, Newest, NoReview, Failed
<1>4. CallsItsBundle'
    BY <1>1 DEF CallsItsBundle, NoReview
<1> QED BY <1>2, <1>3, <1>4, ReviewStepTrace

LEMMA WorkInv == IInv /\ Work => IInv'
  BY SuperstepInv, CollectPOIInv, SkipSpatialInv, CollectInv, MeasureInv,
     TargetInv, ObserveInv, SkipPolicyInv, PolicyInv, MergeInv, SkipReviewInv,
     AssembleInv, AssemblyRaisesInv, OpenHarnessInv, CallAgentInv,
     CloseHarnessInv, ReviewRaisesInv DEF Work

LEMMA UnchangedInv == IInv /\ UNCHANGED analysisVars => IInv'
<1> SUFFICES ASSUME IInv, UNCHANGED analysisVars PROVE IInv'
    OBVIOUS
<1> USE DEF IInv, analysisVars, workVars
<1>1. Types'
    BY DEF Types, Newest
<1>2. SpatialProgress'
    BY ProgressStands
<1> QED BY <1>1, <1>2, TraceStands

LEMMA NextInv == IInv /\ [Next]_vars => IInv'
<1> SUFFICES ASSUME IInv, [Next]_vars PROVE IInv'
    OBVIOUS
<1>1. CASE Work
    BY <1>1, WorkInv
<1>2. ASSUME NEW l \in Layers, NEW rows \in SUBSET Parcels, ReplaceLayer(l, rows)
      PROVE  IInv'
    BY <1>2, ReplaceLayerInv
<1>3. CASE UNCHANGED analysisVars
    BY <1>3, UnchangedInv
<1> QED BY <1>1, <1>2, <1>3 DEF Next, vars

(* An analysis activates no prompts and a promotion waits for no analysis. *)
LEMMA NextEvolution ==
    [Next]_vars => [EvolutionNext]_evolutionVars
  BY DEF Next, vars

-----------------------------------------------------------------------------
(* The evidence behind the nodes that succeeded, which only their own      *)
(* branch writes and nobody writes once it ended.                          *)

POIAnswered ==
    node["poi_evidence"] = "succeeded" => poi \in [Parcels -> Answer]

Observed(p) == \A c \in Constraints : gis[p].seen[c] > 0

(* The last pass has observed the parcels before the one it is at, and of  *)
(* that one what is no longer to do.                                       *)
Observing ==
    /\ cursor.stage \in {"target", "observe"} =>
         \A p \in Parcels : p < cursor.parcel => Observed(p)
    /\ cursor.stage = "observe" =>
         \A c \in Constraints \ cursor.todo : gis[cursor.parcel].seen[c] > 0
    /\ cursor.stage = "done" => \A p \in Parcels : Observed(p)

RulesStand ==
    node["policy_rules"] = "succeeded" =>
        policy = [p \in Parcels |-> {c \in Constraints : gis[p].triggered[c]}]

ResultsStand ==
    /\ harness.stage # "none" =>
         node["review"] # "waiting" /\ node["merge_gate"] # "failed"
    /\ harness.stage # "none" \/ Completed =>
         final.results = [p \in Parcels |-> poi[p].score]

(* A sequential step that fails stops the graph.                           *)
NoneSwallowed ==
    mode = "sequential" /\ (\E n \in Nodes : node[n] = "failed") =>
        final.status = "failed"

EvidenceStands ==
    POIAnswered /\ Observing /\ RulesStand /\ ResultsStand /\ NoneSwallowed

LEMMA EvidenceInit == AnalysisInit => EvidenceStands
  BY NodesAre, ParcelsAssumption
  DEF AnalysisInit, EvidenceStands, POIAnswered, Observing, RulesStand,
      ResultsStand, NoneSwallowed, NoReview, Completed

(* The review waits for every branch, so nothing is assembled before.      *)
LEMMA BranchIsBefore ==
    ASSUME IInv, EvidenceStands, NEW n \in Nodes \ {"review"}, Running(n)
    PROVE  /\ node["review"] = "waiting" /\ harness.stage = "none"
           /\ n = "spatial_evidence" => node["policy_rules"] = "waiting"
           /\ final.status = "analyzing" /\ node[n] = "running"
  BY NodesAre DEF IInv, StartsAfter, EvidenceStands, ResultsStand, Running, Ended

(* The end of a branch assembles nothing, and stops a sequential graph if  *)
(* it is a failure.                                                        *)
LEMMA BranchEnds ==
    ASSUME IInv, EvidenceStands, NEW n \in Nodes \ {"review"}, Running(n),
           UNCHANGED <<mode, harness>>,
           UNCHANGED <<node, final>> \/ \E s \in Ended : Ends(n, s)
    PROVE  /\ ResultsStand' /\ NoneSwallowed'
           /\ \A m \in Nodes : m # n => node'[m] = node[m]
<1>1. /\ node["review"] = "waiting" /\ harness.stage = "none"
      /\ final.status = "analyzing"
    BY BranchIsBefore
<1>2. CASE UNCHANGED <<node, final>>
    BY <1>1, <1>2 DEF EvidenceStands, ResultsStand, NoneSwallowed, Completed
<1>3. ASSUME NEW s \in Ended, Ends(n, s)
      PROVE  /\ ResultsStand' /\ NoneSwallowed'
             /\ \A m \in Nodes : m # n => node'[m] = node[m]
  <2>1. /\ node'[n] = s /\ \A m \in Nodes : m # n => node'[m] = node[m]
        /\ final'.status \in {"analyzing", "failed"}
      BY <1>1, <1>3, EndsFacts DEF IInv
  <2>2. s = "failed" /\ mode = "sequential" => final'.status = "failed"
      BY <1>3 DEF Ends, Failed
  <2>3. mode = "sequential" => \A m \in Nodes : node[m] # "failed"
      BY <1>1 DEF EvidenceStands, NoneSwallowed
  <2>4. NoneSwallowed'
      BY <2>1, <2>2, <2>3 DEF NoneSwallowed
  <2> QED BY <1>1, <2>1, <2>4 DEF ResultsStand, Completed
<1> QED BY <1>2, <1>3

LEMMA SuperstepEvidence ==
    ASSUME IInv, EvidenceStands, Superstep PROVE EvidenceStands'
<1> USE DEF Superstep, EvidenceStands
<1>1. \A n \in Nodes : /\ node'[n] \in Ended => node'[n] = node[n]
                       /\ node'[n] = "waiting" => node[n] = "waiting"
    BY DEF IInv, Types, Ended
<1>2. POIAnswered' /\ RulesStand'
    BY <1>1, NodesAre DEF POIAnswered, RulesStand, Ended
<1>3. Observing'
    BY DEF Observing, Observed
<1>4. ResultsStand'
    BY <1>1, NodesAre DEF ResultsStand, Completed
<1>5. NoneSwallowed'
    BY <1>1 DEF NoneSwallowed, Ended
<1> QED BY <1>2, <1>3, <1>4, <1>5

LEMMA POIEvidence ==
    ASSUME IInv, EvidenceStands, CollectPOI PROVE EvidenceStands'
<1> USE NodesAre DEF CollectPOI
<1>1. /\ Running("poi_evidence") /\ "poi_evidence" \in Nodes \ {"review"}
      /\ UNCHANGED <<mode, harness, cursor, gis, policy>>
      /\ \E s \in Ended : Ends("poi_evidence", s)
    BY DEF Ended
<1>2. /\ ResultsStand' /\ NoneSwallowed'
      /\ \A m \in Nodes : m # "poi_evidence" => node'[m] = node[m]
    BY <1>1, BranchEnds
<1>3. POIAnswered'
  <2>1. CASE poi' \in [Parcels -> Answer]
      BY <2>1 DEF POIAnswered
  <2>2. CASE Ends("poi_evidence", "failed")
      BY <2>2 DEF POIAnswered, Ends, IInv, Types
  <2> QED BY <2>1, <2>2
<1>4. Observing' /\ RulesStand'
    BY <1>1, <1>2 DEF EvidenceStands, Observing, Observed, RulesStand
<1> QED BY <1>2, <1>3, <1>4 DEF EvidenceStands

(* Whatever the spatial branch does, what else stands does not depend on   *)
(* it yet.                                                                 *)
LEMMA SpatialLeaves ==
    ASSUME IInv, EvidenceStands, Running("spatial_evidence"),
           UNCHANGED <<mode, poi, policy, harness>>,
           \/ UNCHANGED <<node, final>>
           \/ \E s \in Ended : Ends("spatial_evidence", s)
    PROVE  POIAnswered' /\ RulesStand' /\ ResultsStand' /\ NoneSwallowed'
<1>1. "spatial_evidence" \in Nodes \ {"review"}
    BY NodesAre
<1>2. /\ ResultsStand' /\ NoneSwallowed'
      /\ \A m \in Nodes : m # "spatial_evidence" => node'[m] = node[m]
    BY <1>1, BranchEnds
<1>3. node["policy_rules"] = "waiting"
    BY <1>1, BranchIsBefore
<1> QED BY <1>2, <1>3, NodesAre DEF EvidenceStands, POIAnswered, RulesStand

LEMMA SpatialEvidence ==
    ASSUME IInv, EvidenceStands,
           SkipSpatial \/ Collect \/ Measure \/ Target
    PROVE  EvidenceStands'
<1>1. /\ Running("spatial_evidence")
      /\ UNCHANGED <<mode, poi, policy, harness>>
      /\ \/ UNCHANGED <<node, final>>
         \/ \E s \in Ended : Ends("spatial_evidence", s)
    BY DEF SkipSpatial, Collect, Measure, Target, AtStage, SpatialFails, Ended
<1>2. POIAnswered' /\ RulesStand' /\ ResultsStand' /\ NoneSwallowed'
    BY <1>1, SpatialLeaves
<1>3. \A p \in Parcels : gis[p] \in GISEvidence
    BY DEF IInv, Types
<1>4. CASE SpatialFails
    BY <1>2, <1>4 DEF EvidenceStands, Observing, Observed, SpatialFails
<1>5. CASE SkipSpatial
  <2>1. cursor.stage = "collect" /\ cursor' = cursor
      BY <1>5 DEF SkipSpatial, IInv, SpatialProgress
  <2> QED BY <1>2, <2>1 DEF EvidenceStands, Observing
<1>6. ASSUME Collect, ~ SpatialFails PROVE Observing'
  <2>1. Advance("collect", "metrics")
      BY <1>6 DEF Collect
  <2>2. cursor'.stage \in {"collect", "metrics"}
      BY <2>1 DEF Advance
  <2> QED BY <2>2 DEF Observing
<1>7. ASSUME Measure, ~ SpatialFails PROVE Observing'
  <2>1. Advance("metrics", "target")
      BY <1>7 DEF Measure
  <2>2. cursor'.stage = "metrics" \/ (cursor'.stage = "target" /\ cursor'.parcel = 1)
      BY <2>1 DEF Advance
  <2> QED BY <2>2 DEF Observing, Parcels
<1>8. ASSUME Target, ~ SpatialFails PROVE Observing'
  <2>1. /\ cursor.stage = "target"
        /\ gis' = [gis EXCEPT ![cursor.parcel].target = Newest(Land)]
        /\ cursor' = [stage |-> "observe", parcel |-> cursor.parcel,
                      todo |-> Constraints]
      BY <1>8 DEF Target, AtStage
  <2>2. \A p \in Parcels : gis'[p].seen = gis[p].seen
      BY <1>3, <2>1 DEF IInv, Types, GISEvidence
  <2> QED BY <2>1, <2>2 DEF EvidenceStands, Observing, Observed
<1> QED BY <1>2, <1>4, <1>5, <1>6, <1>7, <1>8 DEF EvidenceStands

LEMMA ObserveEvidence ==
    ASSUME IInv, EvidenceStands, NEW c \in Constraints, Observe(c)
    PROVE  EvidenceStands'
<1>0. PICK p \in Parcels : p = cursor.parcel
    BY DEF IInv, Types
<1>1. /\ Running("spatial_evidence") /\ cursor.stage = "observe"
      /\ c \in cursor.todo
      /\ UNCHANGED <<mode, poi, policy, harness>>
      /\ \/ UNCHANGED <<node, final>>
         \/ \E s \in Ended : Ends("spatial_evidence", s)
    BY DEF Observe, AtStage, SpatialFails, Ended
<1>2. POIAnswered' /\ RulesStand' /\ ResultsStand' /\ NoneSwallowed'
    BY <1>1, SpatialLeaves
<1>3. CASE SpatialFails
    BY <1>2, <1>3 DEF EvidenceStands, Observing, Observed, SpatialFails
<1>4. CASE ~ SpatialFails
  <2>1. /\ gis' = [gis EXCEPT ![p].seen[c] = Newest(c),
                              ![p].triggered[c] = p \in layer[c][Newest(c)]]
        /\ IF cursor.todo # {c} THEN cursor' = [cursor EXCEPT !.todo = @ \ {c}]
                                ELSE Advance("target", "done")
      BY <1>0, <1>4 DEF Observe
  <2>2. Newest(c) > 0
      BY DEF IInv, Types, Layers
  <2>3. gis[p] \in GISEvidence
      BY DEF IInv, Types
  <2>4. /\ \A q \in Parcels : q # p => gis'[q] = gis[q]
        /\ \A d \in Constraints :
             gis'[p].seen[d] = IF d = c THEN Newest(c) ELSE gis[p].seen[d]
    <3> DEFINE hit == p \in layer[c][Newest(c)]
    <3>1. gis' = [gis EXCEPT ![p].seen[c] = Newest(c), ![p].triggered[c] = hit]
        BY <2>1
    <3> HIDE DEF hit
    <3> QED BY <2>3, <3>1 DEF IInv, Types, GISEvidence
  <2>5. \A q \in Parcels : q < p => Observed(q)'
      BY <1>0, <1>1, <2>4, ParcelsAssumption
         DEF EvidenceStands, Observing, Observed, Parcels
  <2>6. \A d \in Constraints : d \notin cursor.todo \/ d = c => gis'[p].seen[d] > 0
      BY <1>0, <1>1, <2>2, <2>4 DEF EvidenceStands, Observing
  <2>7. CASE cursor.todo # {c}
    <3>1. /\ cursor'.stage = "observe" /\ cursor'.parcel = p
          /\ cursor'.todo = cursor.todo \ {c}
        BY <1>0, <1>1, <2>1, <2>7 DEF IInv, Types
    <3> QED BY <1>2, <2>5, <2>6, <3>1 DEF EvidenceStands, Observing
  <2>8. CASE cursor.todo = {c}
    <3>1. Observed(p)'
        BY <2>6, <2>8 DEF Observed
    <3>2. \/ cursor'.stage = "target" /\ cursor'.parcel = p + 1
          \/ cursor'.stage = "done" /\ p = N
        BY <1>0, <2>1, <2>8, AdvanceFacts DEF IInv, Stages
    <3>3. \A q \in Parcels : (q < p + 1 => q < p \/ q = p)
                             /\ (p = N => q < p \/ q = p)
        BY ParcelsAssumption DEF Parcels
    <3> QED BY <1>2, <2>5, <3>1, <3>2, <3>3 DEF EvidenceStands, Observing
  <2> QED BY <2>7, <2>8
<1> QED BY <1>3, <1>4

LEMMA GateEvidence ==
    ASSUME IInv, EvidenceStands, SkipPolicy \/ Policy \/ Merge
    PROVE  EvidenceStands'
<1> USE NodesAre
<1>1. PICK n \in {"policy_rules", "merge_gate"} :
          /\ Running(n) /\ \E s \in Ended : Ends(n, s)
          /\ UNCHANGED <<mode, harness, cursor, gis, poi>>
          /\ n = "merge_gate" => policy' = policy
          /\ n = "policy_rules" =>
               \/ node'["policy_rules"] # "succeeded"
               \/ policy' = [p \in Parcels |->
                               {c \in Constraints : gis[p].triggered[c]}]
  <2>1. CASE SkipPolicy
    <3>1. node'["policy_rules"] = "skipped"
        BY <2>1 DEF SkipPolicy, Ends, IInv, Types
    <3> QED BY <2>1, <3>1 DEF SkipPolicy, Ended
  <2>2. CASE Policy
    <3>1. \/ node'["policy_rules"] # "succeeded"
          \/ policy' = [p \in Parcels |->
                          {c \in Constraints : gis[p].triggered[c]}]
        BY <2>2 DEF Policy, Ends, IInv, Types
    <3> QED BY <2>2, <3>1 DEF Policy, Ended
  <2>3. CASE Merge
      BY <2>3 DEF Merge, Ended
  <2> QED BY <2>1, <2>2, <2>3
<1>2. /\ ResultsStand' /\ NoneSwallowed'
      /\ \A m \in Nodes : m # n => node'[m] = node[m]
    BY <1>1, BranchEnds
<1>3. POIAnswered' /\ Observing'
    BY <1>1, <1>2 DEF EvidenceStands, POIAnswered, Observing, Observed
<1>4. RulesStand'
    BY <1>1, <1>2 DEF EvidenceStands, RulesStand
<1> QED BY <1>2, <1>3, <1>4 DEF EvidenceStands

(* The review writes no evidence and assembles from what stands.           *)
LEMMA ReviewEvidence ==
    ASSUME IInv, EvidenceStands,
           \/ SkipReview \/ Assemble \/ AssemblyRaises \/ OpenHarness
           \/ CallAgent \/ (\E outcome \in Outcomes : CloseHarness(outcome))
           \/ ReviewRaises
    PROVE  EvidenceStands'
<1> USE NodesAre
<1>1. /\ UNCHANGED <<mode, cursor, gis, poi, policy>>
      /\ node["review"] = "running" /\ final.status = "analyzing"
      /\ \A n \in Nodes \ {"review"} : node'[n] = node[n]
      /\ node'["review"] # "waiting"
      /\ node'["review"] = "failed" => final'.status = "failed"
  <2>1. /\ UNCHANGED <<mode, cursor, gis, poi, policy>> /\ Running("review")
        /\ \/ node' = node
           \/ node' = [node EXCEPT !["review"] = "succeeded"]
           \/ node' = [node EXCEPT !["review"] = "skipped"]
           \/ /\ node' = [node EXCEPT !["review"] = "failed"]
              /\ final'.status = "failed"
    <3>1. CASE SkipReview
        BY <3>1 DEF SkipReview
    <3>2. CASE Assemble
        BY <3>2 DEF Assemble, Reviewable
    <3>3. CASE AssemblyRaises
        BY <3>3 DEF AssemblyRaises, Reviewable, Failed
    <3>4. CASE OpenHarness \/ CallAgent
        BY <3>4 DEF OpenHarness, CallAgent, Reviewable
    <3>5. ASSUME NEW outcome \in Outcomes, CloseHarness(outcome)
          PROVE  /\ UNCHANGED <<mode, cursor, gis, poi, policy>>
                 /\ Running("review")
                 /\ node' = [node EXCEPT !["review"] = "succeeded"]
        BY <3>5 DEF CloseHarness, Reviewable
    <3>6. CASE ReviewRaises
        BY <3>6 DEF ReviewRaises, Reviewable, Failed
    <3> QED BY <3>1, <3>2, <3>3, <3>4, <3>5, <3>6
  <2> QED BY <2>1 DEF IInv, Types, Running
<1>2. POIAnswered' /\ Observing' /\ RulesStand'
    BY <1>1 DEF EvidenceStands, POIAnswered, Observing, Observed, RulesStand
<1>3. NoneSwallowed'
    BY <1>1 DEF EvidenceStands, NoneSwallowed
<1>4. ResultsStand'
  <2>1. /\ harness = [stage |-> harness.stage, prompts |-> harness.prompts,
                      used |-> harness.used, named |-> harness.named,
                      outcome |-> harness.outcome]
        /\ final = [status |-> final.status, results |-> final.results,
                    ranks |-> final.ranks, attention |-> final.attention]
      BY DEF IInv, Types
  <2>2. CASE Assemble
    <3>1. /\ node["merge_gate"] # "failed"
          /\ final'.results = [p \in Parcels |-> poi[p].score]
        BY <2>2 DEF Assemble, Reviewable
    <3>2. node'["merge_gate"] = node["merge_gate"]
        BY <1>1
    <3> QED BY <1>1, <3>1, <3>2 DEF ResultsStand
  <2>3. CASE SkipReview \/ AssemblyRaises
    <3>1. final'.status = "failed" /\ harness' = harness
        BY <2>3 DEF SkipReview, AssemblyRaises, Failed
    <3>2. harness.stage = "none"
      <4>1. CASE AssemblyRaises
          BY <4>1 DEF AssemblyRaises
      <4>2. CASE SkipReview
          BY <4>2 DEF SkipReview, EvidenceStands, ResultsStand
      <4> QED BY <2>3, <4>1, <4>2
    <3> QED BY <3>1, <3>2 DEF ResultsStand, Completed
  <2>4. CASE ReviewRaises
      BY <2>4 DEF ReviewRaises, ResultsStand, Completed, Failed, NoReview
  <2>5. CASE OpenHarness \/ CallAgent
    <3>1. harness.stage # "none" /\ final' = final
        BY <2>5 DEF OpenHarness, CallAgent
    <3> QED BY <1>1, <3>1 DEF EvidenceStands, ResultsStand
  <2>6. ASSUME NEW outcome \in Outcomes, CloseHarness(outcome)
        PROVE  ResultsStand'
    <3>1. harness.stage # "none" /\ final'.results = final.results
        BY <2>1, <2>6 DEF CloseHarness
    <3> QED BY <1>1, <3>1 DEF EvidenceStands, ResultsStand
  <2> QED BY <2>2, <2>3, <2>4, <2>5, <2>6
<1> QED BY <1>2, <1>3, <1>4 DEF EvidenceStands

LEMMA EvidenceNext == IInv /\ EvidenceStands /\ [Next]_vars => EvidenceStands'
<1> SUFFICES ASSUME IInv, EvidenceStands, [Next]_vars PROVE EvidenceStands'
    OBVIOUS
<1>1. CASE Work
    BY <1>1, SuperstepEvidence, POIEvidence, SpatialEvidence, ObserveEvidence,
       GateEvidence, ReviewEvidence DEF Work
<1>2. CASE UNCHANGED <<mode, workVars>>
    BY <1>2 DEF workVars, EvidenceStands, POIAnswered, Observing, Observed,
                RulesStand, ResultsStand, NoneSwallowed, Completed
<1> QED BY <1>1, <1>2 DEF Next, vars, analysisVars, ReplaceLayer

-----------------------------------------------------------------------------
(* The prompts of a review are those that were active when it began, for   *)
(* which the audit trail has an event that it never loses.                 *)

PromptsApproved ==
    harness.stage \in {"reviewing", "closed"} => Approved(harness.prompts)

LEMMA ApprovedStands ==
    ASSUME EvolutionInv, [EvolutionNext]_evolutionVars, NEW v, Approved(v)
    PROVE  Approved(v)'
<1>1. \/ events' = events
      \/ \E e \in [from : Versions, to : Versions, rollback : BOOLEAN] :
            events' = Append(events, e)
  <2>1. \A w \in Registered, b \in BOOLEAN :
            [from |-> active, to |-> w, rollback |-> b]
                \in [from : Versions, to : Versions, rollback : BOOLEAN]
      BY DEF EvolutionInv, EvolutionTypeOK, Registered
  <2> QED BY <2>1 DEF EvolutionNext, Propose, Evaluate, Promote, Rollback,
                      Activate, evolutionVars
<1>2. events \in Seq([from : Versions, to : Versions, rollback : BOOLEAN])
    BY DEF EvolutionInv, EvolutionTypeOK
<1>3. \A i \in DOMAIN events : i \in DOMAIN events' /\ events'[i] = events[i]
    BY <1>1, <1>2, AppendProperties
<1> QED BY <1>3 DEF Approved

LEMMA ActiveApproved == EvolutionInv => Approved(active) /\ active \in Versions
<1> SUFFICES ASSUME EvolutionInv PROVE Approved(active) /\ active \in Versions
    OBVIOUS
<1>1. events = <<>> \/ Len(events) \in DOMAIN events
    BY EmptySeq, LenProperties DEF EvolutionInv, EvolutionTypeOK
<1> QED BY <1>1 DEF EvolutionInv, EvolutionTypeOK, AuditExplainsActive, Approved

LEMMA PromptsNext ==
    IInv /\ EvolutionInv /\ PromptsApproved /\ [Next]_vars => PromptsApproved'
<1> SUFFICES ASSUME IInv, EvolutionInv, PromptsApproved, [Next]_vars
             PROVE  PromptsApproved'
    OBVIOUS
<1>1. \A v : Approved(v) => Approved(v)'
    BY NextEvolution, ApprovedStands
<1>2. harness = [stage |-> harness.stage, prompts |-> harness.prompts,
                 used |-> harness.used, named |-> harness.named,
                 outcome |-> harness.outcome]
    BY DEF IInv, Types
<1>3. \/ harness' = harness
      \/ harness'.stage \notin {"reviewing", "closed"}
      \/ harness.stage = "reviewing" /\ harness'.prompts = harness.prompts
      \/ harness'.prompts = active
  <2>1. CASE OpenHarness
      BY <2>1 DEF OpenHarness, NoReview
  <2>2. ASSUME \/ CallAgent
               \/ \E outcome \in Outcomes : CloseHarness(outcome)
        PROVE  harness.stage = "reviewing" /\ harness'.prompts = harness.prompts
    <3>1. CASE CallAgent
        BY <1>2, <3>1 DEF CallAgent
    <3>2. ASSUME NEW outcome \in Outcomes, CloseHarness(outcome)
          PROVE  harness.stage = "reviewing" /\ harness'.prompts = harness.prompts
        BY <1>2, <3>2 DEF CloseHarness
    <3> QED BY <2>2, <3>1, <3>2
  <2>3. ASSUME Assemble \/ ReviewRaises
        PROVE  \/ harness' = harness
               \/ harness'.stage \notin {"reviewing", "closed"}
    <3>1. CASE Assemble
      <4>1. \E configured \in BOOLEAN :
               harness' = IF configured THEN [NoReview EXCEPT !.stage = "due"]
                                        ELSE harness
          BY <3>1 DEF Assemble
      <4> QED BY <4>1 DEF NoReview
    <3>2. CASE ReviewRaises
        BY <3>2 DEF ReviewRaises, NoReview
    <3> QED BY <2>3, <3>1, <3>2
  <2>4. \/ OpenHarness \/ CallAgent
        \/ (\E outcome \in Outcomes : CloseHarness(outcome))
        \/ Assemble \/ ReviewRaises \/ UNCHANGED harness
    <3>1. CASE Work
        BY <3>1 DEF Work, Superstep, CollectPOI, SkipSpatial, Collect, Measure,
                    Target, Observe, SkipPolicy, Policy, Merge, SkipReview,
                    AssemblyRaises
    <3> QED BY <3>1 DEF Next, ReplaceLayer, workVars, analysisVars, vars
  <2> QED BY <2>1, <2>2, <2>3, <2>4
<1> QED BY <1>1, <1>3, ActiveApproved DEF PromptsApproved

LEMMA SpecInv ==
    Spec => [](IInv /\ EvolutionInv /\ EvidenceStands /\ PromptsApproved)
<1>1. Init => IInv /\ EvolutionInv /\ EvidenceStands /\ PromptsApproved
    BY InitInv, EvolutionInitInv, EvidenceInit
       DEF Init, AnalysisInit, NoReview, PromptsApproved
<1>2. IInv /\ EvolutionInv /\ EvidenceStands /\ PromptsApproved /\ [Next]_vars =>
          (IInv /\ EvolutionInv /\ EvidenceStands /\ PromptsApproved)'
    BY NextInv, NextEvolution, EvolutionNextInv, EvidenceNext, PromptsNext
<1> QED BY <1>1, <1>2, PTL DEF Spec

-----------------------------------------------------------------------------
(* Theorems.                                                               *)

(* Types, for any number of parcels, constraints and versions: evidence    *)
(* never names a revision its layer has not had.                           *)
THEOREM WorkflowTypeCorrect == Spec => []TypeOK
<1>1. IInv /\ EvolutionInv /\ PromptsApproved => TypeOK
  <2> SUFFICES ASSUME IInv, EvolutionInv, PromptsApproved PROVE TypeOK
      OBVIOUS
  <2>1. cursor.parcel \in Parcels /\ cursor.todo \subseteq Constraints
      BY DEF IInv, Types
  <2>2. ASSUME NEW p \in Parcels
        PROVE  /\ gis[p].metrics \in 0 .. Newest(Land)
               /\ gis[p].target \in 0 .. Newest(Land)
               /\ \A c \in Constraints : gis[p].seen[c] \in 0 .. Newest(c)
    <3>1. gis[p] \in GISEvidence
        BY DEF IInv, Types
    <3>2. \A l \in Layers : Newest(l) \in Nat
        BY LenProperties DEF IInv, Types, Newest
    <3> QED BY <3>1, <3>2 DEF IInv, Types, GISEvidence, Layers
  <2>3. \A p \in Parcels : /\ poi[p] \in Answer \cup {NoAnswer}
                           /\ policy[p] \subseteq Constraints
      BY DEF IInv, Types
  <2>4. harness.used \subseteq Versions
    <3>1. ASSUME NEW v, Approved(v) PROVE v \in Versions
      <4>1. \A i \in DOMAIN events : events[i].to \in Versions
        <5>1. events \in Seq([from : Versions, to : Versions, rollback : BOOLEAN])
            BY DEF EvolutionInv, EvolutionTypeOK
        <5>2. \A i \in DOMAIN events :
                events[i] \in [from : Versions, to : Versions, rollback : BOOLEAN]
            BY <5>1, ElementOfSeq, LenProperties
        <5> QED BY <5>2
      <4> QED BY <3>1, <4>1, VersionsAssumption DEF Approved
    <3> QED BY <3>1 DEF IInv, Types, CallsItsBundle, PromptsApproved
  <2> QED BY <2>1, <2>2, <2>3, <2>4 DEF TypeOK, IInv, EvolutionInv, Types
<1> QED BY SpecInv, <1>1, PTL

(* A node of the parallel plan succeeds on the answers of its dependencies *)
(* only, whichever of them fail and in whatever order they end.            *)
THEOREM TraceCorrect == Spec => []TraceIsCausal
<1>1. IInv => TraceIsCausal
  <2> SUFFICES ASSUME IInv, mode = "parallel",
                      NEW n \in Nodes, node[n] = "succeeded",
                      NEW d \in DependsOn[n]
               PROVE  node[d] \in (IF Market THEN {"succeeded", "skipped"}
                                             ELSE {"succeeded"})
      BY DEF TraceIsCausal
  <2>1. CASE n \in {"poi_evidence", "spatial_evidence"}
      BY <2>1 DEF DependsOn
  <2>2. CASE n = "policy_rules"
    <3>1. d = "spatial_evidence"
        BY <2>2 DEF DependsOn
    <3> QED BY <2>2, <3>1
            DEF IInv, StartsAfter, BranchesAreClean, NoPolicy, Ended
  <2>3. CASE n = "merge_gate"
    <3>1. d \in {"poi_evidence", "policy_rules"}
        BY <2>3 DEF DependsOn
    <3> QED BY <2>3, <3>1
            DEF IInv, StartsAfter, BranchesAreClean, NoPolicy, Ended
  <2>4. CASE n = "review"
    <3>1. d = "merge_gate"
        BY <2>4 DEF DependsOn
    <3> QED BY <2>4, <3>1 DEF IInv, StartsAfter, BranchesAreClean, Ended
  <2> QED BY <2>1, <2>2, <2>3, <2>4, NodesAre
<1> QED BY SpecInv, <1>1, PTL

(* However imports and loads interleave, a completed compliance analysis   *)
(* measured and observed every parcel on revisions that had rows for it.   *)
THEOREM RowsCorrect == Spec => []RowsWereThere
<1>1. IInv => RowsWereThere
  <2> SUFFICES ASSUME IInv, Completed, ~ Market PROVE
          \A p \in Parcels :
            /\ gis[p].metrics > 0 /\ p \in layer[Land][gis[p].metrics]
            /\ gis[p].target > 0 /\ p \in layer[Land][gis[p].target]
      BY DEF RowsWereThere
  <2>1. node["merge_gate"] = "succeeded"
      BY DEF IInv, StartsAfter, BranchesAreClean, Ended
  <2>2. node["spatial_evidence"] = "succeeded"
      BY <2>1 DEF IInv, StartsAfter, BranchesAreClean, Ended
  <2>3. \A p \in Parcels : HasMetrics(p) /\ HasTarget(p)
      BY <2>2 DEF IInv, SpatialProgress
  <2>4. Newest(Land) \in Nat
      BY LenProperties DEF IInv, Types, Newest, Layers
  <2> QED BY <2>3, <2>4 DEF HasMetrics, HasTarget
<1> QED BY SpecInv, <1>1, PTL

(* What a completed analysis reports rests on every branch, for every      *)
(* parcel and constraint: no failure of one is swallowed by either graph.  *)
THEOREM CompletedCorrect == Spec => []CompletedIsWhole
<1>1. IInv /\ EvidenceStands => CompletedIsWhole
  <2> SUFFICES ASSUME IInv, EvidenceStands, Completed PROVE CompletedIsWhole
      BY DEF CompletedIsWhole
  <2>1. /\ node["review"] = "succeeded" /\ node["merge_gate"] = "succeeded"
        /\ node["poi_evidence"] \in Ended /\ node["spatial_evidence"] \in Ended
        /\ node["policy_rules"] \in Ended
      BY DEF IInv, StartsAfter, BranchesAreClean, Ended
  <2>2. \A n \in Nodes : node[n] # "failed"
    <3>1. CASE mode = "parallel"
        BY <2>1, <3>1, NodesAre DEF IInv, BranchesAreClean
    <3>2. CASE mode = "sequential"
        BY <3>2 DEF EvidenceStands, NoneSwallowed, Completed
    <3> QED BY <3>1, <3>2, ModesAssumption DEF IInv, Types
  <2>3. ASSUME NEW n \in Nodes
        PROVE  node[n] = IF Market /\ n \in {"spatial_evidence", "policy_rules"}
                           THEN "skipped" ELSE "succeeded"
    <3>1. node["spatial_evidence"] = "succeeded" => ~ Market
        BY DEF IInv, SpatialProgress
    <3> QED BY <2>1, <2>2, <3>1, NodesAre
            DEF IInv, BranchesAreClean, Ended, NoPolicy
  <2>4. /\ poi \in [Parcels -> Answer]
        /\ final.results = [p \in Parcels |-> poi[p].score]
      BY <2>1, <2>2, NodesAre DEF EvidenceStands, POIAnswered, ResultsStand,
                                  IInv, BranchesAreClean, Ended
  <2>5. ASSUME ~ Market, NEW p \in Parcels
        PROVE  /\ \A c \in Constraints : gis[p].seen[c] > 0
               /\ policy[p] = {c \in Constraints : gis[p].triggered[c]}
    <3>1. node["spatial_evidence"] = "succeeded" /\ node["policy_rules"] = "succeeded"
        BY <2>3, <2>5, NodesAre
    <3> QED BY <3>1 DEF EvidenceStands, Observing, Observed, RulesStand,
                        IInv, SpatialProgress
  <2> QED BY <2>3, <2>4, <2>5 DEF CompletedIsWhole
<1> QED BY SpecInv, <1>1, PTL

(* Whatever is promoted or rolled back during a review, all its agents are *)
(* called with one approved version, and that is the one it names.         *)
THEOREM ReportCorrect == Spec => []ReportNamesPromptsUsed
<1>1. IInv /\ PromptsApproved => ReportNamesPromptsUsed
    BY DEF IInv, CallsItsBundle, PromptsApproved, ReportNamesPromptsUsed
<1> QED BY SpecInv, <1>1, PTL

(* The audit trail explains the active prompts and every promotion was     *)
(* measured, also beside analyses that use the prompts.                    *)
THEOREM PromptsBesideAnalysis ==
    Spec => [](AuditExplainsActive /\ PromotedFromMeasured)
<1>1. EvolutionInv => AuditExplainsActive /\ PromotedFromMeasured
    BY DEF EvolutionInv
<1> QED BY SpecInv, <1>1, PTL

=============================================================================
