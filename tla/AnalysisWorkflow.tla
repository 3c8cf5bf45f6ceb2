-------------------------- MODULE AnalysisWorkflow --------------------------
(***************************************************************************)
(* One deterministic site analysis, over the two graphs the code compiles  *)
(* from the same steps: the parallel plan of parallel_workflow.py, which   *)
(* the runs and their worker use, and the sequential graph of workflow.py, *)
(* which the synchronous endpoint uses.  POI evidence is collected while   *)
(* the spatial branch loads the parcel layer three times and each          *)
(* constraint layer once per parcel; every load is a transaction of its    *)
(* own, and an import may replace a layer between any two.  The last step  *)
(* may hand the finished state to the agent harness, whose prompts come    *)
(* from PromptEvolution and may be promoted or rolled back meanwhile.      *)
(*                                                                         *)
(* Parcels are numbered in the order of the request, which is also the     *)
(* order of their identifiers.  A layer is the history of its revisions,   *)
(* each the set of parcels it has rows for (the parcel layer) or is met by *)
(* (a constraint layer).  Scores, geometry and messages are left out.      *)
(***************************************************************************)
EXTENDS PromptEvolution, FiniteSets, SequencesExt

CONSTANTS
    N,              \* number of candidate parcels
    Constraints,    \* constraint layers, one rule each
    Land,           \* the layer that holds the parcels
    Modes,          \* graphs to run: "parallel", "sequential"
    TopScore,       \* scale of the soft scores
    MaxRevisions    \* bound on the revisions of a layer

Parcels == 1 .. N
Layers  == Constraints \cup {Land}

ASSUME ParcelsAssumption == N \in Nat \ {0} /\ Land \notin Constraints
ASSUME ModesAssumption == Modes \subseteq {"parallel", "sequential"}
ASSUME ScoresAssumption == TopScore \in Nat /\ MaxRevisions \in Nat \ {0}

VARIABLES
    mode,     \* which graph runs
    scope,    \* AnalysisScope of the request
    layer,    \* spatial layers in PostGIS, by revision
    node,     \* plan nodes -> what their trace would say
    cursor,   \* where the spatial branch is
    gis,      \* GISEvidence by parcel
    poi,      \* POIEvidence by parcel
    policy,   \* PolicyEvidence by parcel: the constraints whose rule matched
    final,    \* status, results and comparison of the state
    harness   \* the agent harness' review of it

workVars == <<node, cursor, gis, poi, policy, final, harness>>
analysisVars == <<mode, scope, layer, workVars>>
vars == <<analysisVars, evolutionVars>>

(* build_site_selection_execution_plan: the nodes after intake.            *)
DependsOn ==
    [poi_evidence     |-> {},
     spatial_evidence |-> {},
     policy_rules     |-> {"spatial_evidence"},
     merge_gate       |-> {"poi_evidence", "policy_rules"},
     review           |-> {"merge_gate"}]

(* build_site_selection_graph: the same work one step after another; the   *)
(* site score, part of the plan's merge gate, comes before the policy.     *)
Sequential ==
    <<"poi_evidence", "spatial_evidence", "merge_gate", "policy_rules",
      "review">>

Nodes == DOMAIN DependsOn
Ended == {"succeeded", "failed", "skipped"}

Market == scope = "market_selection"

Unmeasured == [status |-> "none", metrics |-> 0, target |-> 0,
               seen |-> [c \in Constraints |-> 0],
               triggered |-> [c \in Constraints |-> FALSE]]

Answer == [quality : {"complete", "degraded"}, score : 0 .. TopScore]
NoAnswer == [quality |-> "none", score |-> 0]

NoReview == [stage |-> "none", prompts |-> NoVersion, used |-> {},
             named |-> NoVersion, outcome |-> "none"]

AnalysisInit ==
    /\ mode \in Modes
    /\ scope \in {"market_selection", "full_compliance"}
    /\ layer \in [Layers -> {<<rows>> : rows \in SUBSET Parcels}]
    /\ layer[Land] = <<Parcels>>
    /\ node = [n \in Nodes |-> "waiting"]
    /\ cursor = [stage |-> "collect", parcel |-> 1, todo |-> {}]
    /\ gis = [p \in Parcels |-> Unmeasured]
    /\ poi = [p \in Parcels |-> NoAnswer]
    /\ policy = [p \in Parcels |-> {}]
    /\ final = [status |-> "analyzing", results |-> <<>>, ranks |-> <<>>,
                attention |-> FALSE]
    /\ harness = NoReview

Running(n) == node[n] = "running" /\ final.status = "analyzing"

-----------------------------------------------------------------------------
(* Scheduling                                                              *)

(* compile_agent_plan_graph: an edge from every dependency, a list of      *)
(* edges being a barrier; _add_guarded_edge in the sequential graph.       *)
(* Mutant: an edge of its own from each dependency, which is no barrier.   *)
ReadyAfterAny(n) ==
    /\ node[n] = "waiting"
    /\ IF mode = "parallel"
         THEN DependsOn[n] = {} \/ \E d \in DependsOn[n] : node[d] \in Ended
         ELSE \A i \in DOMAIN Sequential : Sequential[i] = n =>
                  \A j \in 1 .. i - 1 : node[Sequential[j]] \in Ended

(* Mutant: a node starts only after its dependencies succeeded.            *)
ReadyAfterSuccess(n) ==
    /\ node[n] = "waiting"
    /\ IF mode = "parallel"
         THEN \A d \in DependsOn[n] : node[d] = "succeeded"
         ELSE \A i \in DOMAIN Sequential : Sequential[i] = n =>
                  \A j \in 1 .. i - 1 : node[Sequential[j]] \in Ended

Ready(n) ==
    /\ node[n] = "waiting"
    /\ IF mode = "parallel"
         THEN \A d \in DependsOn[n] : node[d] \in Ended
         ELSE \A i \in DOMAIN Sequential : Sequential[i] = n =>
                  \A j \in 1 .. i - 1 : node[Sequential[j]] \in Ended

(* LangGraph runs in supersteps: the next nodes start together, once none  *)
(* of the last ones is running.                                            *)
Superstep ==
    /\ final.status = "analyzing"
    /\ \A n \in Nodes : node[n] # "running"
    /\ \E n \in Nodes : Ready(n)
    /\ node' = [n \in Nodes |-> IF Ready(n) THEN "running" ELSE node[n]]
    /\ UNCHANGED <<mode, scope, layer, cursor, gis, poi, policy, final,
                   harness>>

Failed(results, ranks) ==
    [status |-> "failed", results |-> results, ranks |-> ranks,
     attention |-> FALSE]

(* A branch that fails leaves its error for the merge gate; a sequential   *)
(* step that fails goes to _failed_node, which clears the results.         *)
Ends(n, status) ==
    /\ node' = [node EXCEPT ![n] = status]
    /\ final' = IF status = "failed" /\ mode = "sequential"
                  THEN Failed(<<>>, <<>>) ELSE final

-----------------------------------------------------------------------------
(* POI branch: execute_poi_queries waits for the whole batch or pool and   *)
(* fails if one query does; score_poi_state fails on a missing metric.     *)
CollectPOI ==
    /\ Running("poi_evidence")
    /\ \/ /\ poi' \in [Parcels -> Answer]
          /\ Ends("poi_evidence", "succeeded")
       \/ /\ Ends("poi_evidence", "failed")
          /\ UNCHANGED poi
    /\ UNCHANGED <<mode, scope, layer, cursor, gis, policy, harness>>

-----------------------------------------------------------------------------
(* Spatial branch: SpatialAgent.run                                        *)

Newest(l) == Len(layer[l])

(* parcel_rows.empty: the revision that was loaded has the parcel.         *)
HasRows(p) == p \in layer[Land][Newest(Land)]

Advance(stage, next) ==
    cursor' = IF cursor.parcel < N
                THEN [stage |-> stage, parcel |-> cursor.parcel + 1,
                      todo |-> {}]
                ELSE [stage |-> next, parcel |-> 1, todo |-> {}]

SpatialFails ==
    /\ Ends("spatial_evidence", "failed")
    /\ UNCHANGED <<cursor, gis>>

(* mark_market_spatial_unverified: a market run makes no spatial claim.    *)
SkipSpatial ==
    /\ Running("spatial_evidence") /\ Market
    /\ gis' = [p \in Parcels |-> [Unmeasured EXCEPT !.status = "not_run"]]
    /\ Ends("spatial_evidence", "skipped")
    /\ UNCHANGED <<mode, scope, layer, cursor, poi, policy, harness>>

AtStage(stage) ==
    Running("spatial_evidence") /\ ~ Market /\ cursor.stage = stage

(* collect_gis_evidence: a parcel that cannot be loaded or has no rows is  *)
(* noted, and blocks the branch when the last parcel has been tried.       *)
Collect ==
    LET p == cursor.parcel IN
    /\ AtStage("collect")
    /\ \E loaded \in BOOLEAN :
         LET found == [gis EXCEPT ![p].status =
                         IF loaded /\ HasRows(p) THEN "ready" ELSE "missing"]
         IN IF p = N /\ \E q \in Parcels : found[q].status # "ready"
              THEN SpatialFails
              ELSE /\ gis' = found
                   /\ Advance("collect", "metrics")
                   /\ UNCHANGED <<node, final>>
    /\ UNCHANGED <<mode, scope, layer, poi, policy, harness>>

(* Mutant: evidence that is ready is not looked for again.                 *)
RowsForReady(p) == gis[p].status = "ready" \/ HasRows(p)

(* Both later passes look for the rows in what they loaded themselves.     *)
StillThere(p) == HasRows(p)

(* _analyze_parcel: metrics of the rows of a second load.                  *)
Measure ==
    LET p == cursor.parcel IN
    /\ AtStage("metrics")
    /\ \/ /\ StillThere(p)
          /\ gis' = [gis EXCEPT ![p].metrics = Newest(Land)]
          /\ Advance("metrics", "target")
          /\ UNCHANGED <<node, final>>
       \/ SpatialFails
    /\ UNCHANGED <<mode, scope, layer, poi, policy, harness>>

(* _evaluate_parcel_constraints: the parcel's rows once more, then one     *)
(* load per constraint.                                                    *)
Target ==
    LET p == cursor.parcel IN
    /\ AtStage("target")
    /\ \/ /\ StillThere(p)
          /\ gis' = [gis EXCEPT ![p].target = Newest(Land)]
          /\ cursor' = [stage |-> "observe", parcel |-> p,
                        todo |-> Constraints]
          /\ UNCHANGED <<node, final>>
       \/ SpatialFails
    /\ UNCHANGED <<mode, scope, layer, poi, policy, harness>>

(* _evaluate_spec: the observation is of the rows loaded now.              *)
Observe(c) ==
    LET p == cursor.parcel IN
    /\ AtStage("observe")
    /\ c \in cursor.todo
    /\ \/ /\ gis' = [gis EXCEPT
                       ![p].seen[c] = Newest(c),
                       ![p].triggered[c] = p \in layer[c][Newest(c)]]
          /\ IF cursor.todo # {c}
               THEN /\ cursor' = [cursor EXCEPT !.todo = @ \ {c}]
                    /\ UNCHANGED <<node, final>>
               ELSE /\ Advance("target", "done")
                    /\ IF p = N THEN Ends("spatial_evidence", "succeeded")
                                ELSE UNCHANGED <<node, final>>
       \/ SpatialFails
    /\ UNCHANGED <<mode, scope, layer, poi, policy, harness>>

(* PostgresSpatialRepository.replace_layer, one transaction, by the import *)
(* of an authoritative data set.                                           *)
ReplaceLayer(l, rows) ==
    /\ Newest(l) < MaxRevisions
    /\ layer' = [layer EXCEPT ![l] = Append(@, rows)]
    /\ UNCHANGED <<mode, scope, workVars>>

-----------------------------------------------------------------------------
(* Policy branch and merge gate                                            *)

(* policy_branch: nothing to evaluate when the spatial branch failed, and  *)
(* nothing evaluated for a market run.                                     *)
(* Mutant: a failed spatial branch does not stop the rules.                *)
NoPolicyWhenMarket == Market

NoPolicy == Market \/ node["spatial_evidence"] = "failed"

SkipPolicy ==
    /\ Running("policy_rules") /\ NoPolicy
    /\ Ends("policy_rules", "skipped")
    /\ UNCHANGED <<mode, scope, layer, cursor, gis, poi, policy, harness>>

(* evaluate_policy_rules: a rule matches when its constraint triggered;    *)
(* without a rule in force on the day of the request it is blocked.        *)
Policy ==
    /\ Running("policy_rules") /\ ~ NoPolicy
    /\ \/ /\ policy' = [p \in Parcels |->
                          {c \in Constraints : gis[p].triggered[c]}]
          /\ Ends("policy_rules", "succeeded")
       \/ /\ Ends("policy_rules", "failed")
          /\ UNCHANGED policy
    /\ UNCHANGED <<mode, scope, layer, cursor, gis, poi, harness>>

BranchFailed ==
    \E n \in {"poi_evidence", "spatial_evidence", "policy_rules"} :
        node[n] = "failed"

(* merge_branches: a failed branch fails the gate; the site score of a     *)
(* compliance run may fail on a metric its configuration requires.         *)
Merge ==
    /\ Running("merge_gate")
    /\ \/ ~ BranchFailed /\ Ends("merge_gate", "succeeded")
       \/ (BranchFailed \/ ~ Market) /\ Ends("merge_gate", "failed")
    /\ UNCHANGED <<mode, scope, layer, cursor, gis, poi, policy, harness>>

-----------------------------------------------------------------------------
(* Review: results, comparison, evidence review, agent harness             *)

(* compare_candidate_results: highest score first, ties by parcel.         *)
Ordered(score) ==
    SetToSortSeq(Parcels, LAMBDA p, q : \/ score[p] > score[q]
                                        \/ score[p] = score[q] /\ p < q)

(* _build_ranked_items: a tie shares the rank of its first; the next rank  *)
(* is the position in the list.                                            *)
Ranked(score) ==
    LET order == Ordered(score)
        rank[i \in Parcels] ==
            IF i = 1 THEN 1
            ELSE IF score[order[i]] = score[order[i - 1]]
                   THEN rank[i - 1] ELSE i
    IN [p \in Parcels |-> rank[CHOOSE i \in Parcels : order[i] = p]]

(* review_site_selection_evidence: the warnings that call for a person.    *)
NeedsAttention ==
    \/ Market
    \/ \E p \in Parcels : poi[p].quality = "degraded" \/ policy[p] # {}

Reviewable == Running("review") /\ node["merge_gate"] # "failed"

SkipReview ==
    /\ Running("review") /\ node["merge_gate"] = "failed"
    /\ node' = [node EXCEPT !["review"] = "skipped"]
    /\ final' = Failed(<<>>, <<>>)
    /\ UNCHANGED <<mode, scope, layer, cursor, gis, poi, policy, harness>>

(* ReviewAgent.run; without a multi-agent runtime the analysis is over.    *)
Assemble ==
    LET scores == [p \in Parcels |-> poi[p].score] IN
    /\ Reviewable /\ harness.stage = "none"
    /\ \E configured \in BOOLEAN :
         /\ final' = [status    |-> IF configured THEN "analyzing"
                                                  ELSE "completed",
                      results   |-> scores,
                      ranks     |-> Ranked(scores),
                      attention |-> NeedsAttention]
         /\ harness' = IF configured THEN [NoReview EXCEPT !.stage = "due"]
                                     ELSE harness
         /\ node' = IF configured THEN node
                    ELSE [node EXCEPT !["review"] = "succeeded"]
    /\ UNCHANGED <<mode, scope, layer, cursor, gis, poi, policy>>

(* One of its three parts raises.  The sequential graph has a node for     *)
(* each: from the results and the comparison it goes to _failed_node, from *)
(* the evidence review straight to the end.                                *)
AssemblyRaises ==
    LET scores == [p \in Parcels |-> poi[p].score] IN
    /\ Reviewable /\ harness.stage = "none"
    /\ node' = [node EXCEPT !["review"] = "failed"]
    /\ \/ final' = Failed(<<>>, <<>>)
       \/ mode = "sequential" /\ final' = Failed(scores, Ranked(scores))
    /\ UNCHANGED <<mode, scope, layer, cursor, gis, poi, policy, harness>>

(* AgentHarness.review, up to the runtime it builds: one bundle is read    *)
(* from the registry and every role's prompts are taken from it.           *)
OpenHarness ==
    /\ Reviewable /\ harness.stage = "due"
    /\ harness' = [NoReview EXCEPT !.stage = "reviewing",
                                   !.prompts = active]
    /\ UNCHANGED <<mode, scope, layer, node, cursor, gis, poi, policy, final>>

(* RoleAgent.generate sends the profile its role was built with.           *)
(* Mutant: the role resolves the active version when it is called.         *)
PromptedActive == active

Prompted == harness.prompts

CallAgent ==
    /\ Reviewable /\ harness.stage = "reviewing"
    /\ harness' = [harness EXCEPT !.used = @ \cup {Prompted}]
    /\ UNCHANGED <<mode, scope, layer, node, cursor, gis, poi, policy, final>>

(* The report names the version of the bundle that was read.  A context    *)
(* too large for the harness is reported as failed without a call.         *)
Named == harness.prompts

CloseHarness(outcome) ==
    /\ Reviewable /\ harness.stage = "reviewing"
    /\ harness.used = {} => outcome = "failed"
    /\ harness' = [harness EXCEPT !.stage = "closed", !.named = Named,
                                  !.outcome = outcome]
    /\ node' = [node EXCEPT !["review"] = "succeeded"]
    /\ final' = [final EXCEPT !.status = "completed"]
    /\ UNCHANGED <<mode, scope, layer, cursor, gis, poi, policy>>

(* A harness that raises: review_branch makes the analysis a failed one    *)
(* without results; the sequential graph goes from its last node straight  *)
(* to the end, past _failed_node.                                          *)
KeptAfterReview ==
    IF mode = "parallel" THEN <<<<>>, <<>>>>
                         ELSE <<final.results, final.ranks>>

ReviewRaises ==
    /\ Reviewable /\ harness.stage \in {"due", "reviewing"}
    /\ harness' = NoReview
    /\ node' = [node EXCEPT !["review"] = "failed"]
    /\ final' = Failed(KeptAfterReview[1], KeptAfterReview[2])
    /\ UNCHANGED <<mode, scope, layer, cursor, gis, poi, policy>>

-----------------------------------------------------------------------------
Outcomes == {"accepted", "human_review", "budget_exhausted", "failed"}

Work ==
    \/ Superstep
    \/ CollectPOI
    \/ SkipSpatial
    \/ Collect
    \/ Measure
    \/ Target
    \/ \E c \in Constraints : Observe(c)
    \/ SkipPolicy
    \/ Policy
    \/ Merge
    \/ SkipReview
    \/ Assemble
    \/ AssemblyRaises
    \/ OpenHarness
    \/ CallAgent
    \/ \E outcome \in Outcomes : CloseHarness(outcome)
    \/ ReviewRaises

Init == EvolutionInit /\ AnalysisInit

Next ==
    \/ Work /\ UNCHANGED evolutionVars
    \/ /\ \E l \in Layers, rows \in SUBSET Parcels : ReplaceLayer(l, rows)
       /\ UNCHANGED evolutionVars
    \/ EvolutionNext /\ UNCHANGED analysisVars

Spec == Init /\ [][Next]_vars

(* The graph runs in a thread of its worker: what can be done is done.     *)
FairSpec == Spec /\ WF_vars(Work /\ UNCHANGED evolutionVars)

-----------------------------------------------------------------------------
(* Properties                                                              *)

(* Types, and the revisions evidence names are revisions a layer has had.  *)
TypeOK ==
    /\ EvolutionTypeOK
    /\ mode \in Modes /\ scope \in {"market_selection", "full_compliance"}
    /\ node \in [Nodes -> Ended \cup {"waiting", "running"}]
    /\ cursor.parcel \in Parcels /\ cursor.todo \subseteq Constraints
    /\ \A p \in Parcels :
         /\ gis[p].metrics \in 0 .. Newest(Land)
         /\ gis[p].target \in 0 .. Newest(Land)
         /\ \A c \in Constraints : gis[p].seen[c] \in 0 .. Newest(c)
         /\ poi[p] \in Answer \cup {NoAnswer}
         /\ policy[p] \subseteq Constraints
    /\ final.status \in {"analyzing", "completed", "failed"}
    /\ harness.stage \in {"none", "due", "reviewing", "closed"}
    /\ harness.used \subseteq Versions

Completed == final.status = "completed"

(* However often the parcel layer is replaced while the branch loads it,   *)
(* no completed compliance analysis has metrics or observations of a       *)
(* parcel taken from a revision without rows for it.                       *)
RowsWereThere ==
    Completed /\ ~ Market =>
        \A p \in Parcels :
            /\ gis[p].metrics > 0 /\ p \in layer[Land][gis[p].metrics]
            /\ gis[p].target > 0 /\ p \in layer[Land][gis[p].target]

(* No failure is swallowed: whichever branch may fail while others' data   *)
(* survive it, in an analysis that completed every step succeeded, save    *)
(* those a market run does without, and what it reports rests on an answer *)
(* for every parcel, an observation of every constraint and a rule result  *)
(* for each observation (merge_branches, _add_guarded_edge).               *)
CompletedIsWhole ==
    Completed =>
        /\ \A n \in Nodes :
             node[n] = IF Market /\ n \in {"spatial_evidence", "policy_rules"}
                         THEN "skipped" ELSE "succeeded"
        /\ \A p \in Parcels :
             /\ poi[p] \in Answer /\ final.results[p] = poi[p].score
             /\ ~ Market =>
                  /\ \A c \in Constraints : gis[p].seen[c] > 0
                  /\ policy[p] = {c \in Constraints : gis[p].triggered[c]}

(* The trace of the parallel plan is causal: a node that succeeded did so  *)
(* after all its dependencies ended, none of them failed, and for a        *)
(* compliance run none of them was skipped.                                *)
TraceIsCausal ==
    mode = "parallel" =>
        \A n \in Nodes : node[n] = "succeeded" =>
            \A d \in DependsOn[n] :
                node[d] \in (IF Market THEN {"succeeded", "skipped"}
                                       ELSE {"succeeded"})

(* Soft ranks are competition ranks: one more than the number of parcels   *)
(* with a higher score, ties sharing theirs.                               *)
RanksAreCompetitionRanks ==
    Completed =>
        \A p \in Parcels : final.ranks[p] =
            1 + Cardinality({q \in Parcels :
                                final.results[q] > final.results[p]})

(* A version somebody answers for: configured, or activated with the       *)
(* approval its event names.                                               *)
Approved(v) == v = Initial \/ \E i \in DOMAIN events : events[i].to = v

(* Whatever is promoted or rolled back between two calls of a review, all  *)
(* its agents are called with the prompts of one approved version, and its *)
(* report names that version (AgentHarness.review, runtime_factory).       *)
ReportNamesPromptsUsed ==
    harness.stage = "closed" =>
        harness.used \subseteq {harness.named} /\ Approved(harness.named)

(* Every analysis ends, whatever fails and is replaced on the way.         *)
AnalysisEnds == <>(final.status # "analyzing")

(* What the notes say of every failed analysis, the sequential one's last  *)
(* step included: results and comparison are cleared.                      *)
(* notes/candidate-comparison-notes.md:187.                                *)
FailedIsCleared ==
    final.status = "failed" => final.results = <<>> /\ final.ranks = <<>>

(* The lineage an observation carries: the version of the manifest, read   *)
(* at start-up, is the revision the observation was made on.               *)
(* practice/site_selection/rules.py:77.                                    *)
LineageNamesRevision ==
    Completed /\ ~ Market =>
        \A p \in Parcels, c \in Constraints :
            c \in policy[p] => gis[p].seen[c] = 1

=============================================================================
