--------------------------- MODULE PromptEvolution ---------------------------
(***************************************************************************)
(* Versioned agent prompts: the registry of prompt bundles                 *)
(* (agent_harness.py) and the controlled evolution around it               *)
(* (agent_evolution.py): propose a child of the active version, evaluate   *)
(* it against the active version on one frozen suite, let a person promote *)
(* it, or roll back.  Each call is atomic (the registry's RLock; the       *)
(* engine's dictionary is written in one statement); any number of people  *)
(* and jobs make them in any order.                                        *)
(*                                                                         *)
(* A report of the frozen suite is a point of a scale: 0 is a report with  *)
(* failed cases, higher values are better metrics.  The suite is frozen    *)
(* and its models are scripted, so a version always measures the same:     *)
(* Measured is a constant of the specification.                            *)
(***************************************************************************)
EXTENDS Integers, Sequences

CONSTANTS
    Versions,      \* names of prompt versions
    Initial,       \* the configured version a process starts with
    Measured,      \* version -> what the frozen suite measures of it
    MaxEvents      \* bound on activations

ASSUME VersionsAssumption == Initial \in Versions
ASSUME MeasuredAssumption == Measured \in [Versions -> Nat]
ASSUME BoundAssumption == MaxEvents \in Nat

NoVersion == "none"
ASSUME NoVersionAssumption == NoVersion \notin Versions

VARIABLES
    parent,     \* registered version -> the version it was proposed from
    active,     \* _active_version
    events,     \* PromptActivationEvent, in order
    decisions   \* PromotionDecision the engine keeps

evolutionVars == <<parent, active, events, decisions>>

Registered == DOMAIN parent

EvolutionInit ==
    /\ parent = [v \in {Initial} |-> NoVersion]
    /\ active = Initial
    /\ events = <<>>
    /\ decisions = {}

(* propose_candidate: a new version, child of the active one; register     *)
(* refuses a name that is taken.                                           *)
Propose(v) ==
    /\ v \notin Registered
    /\ parent' = [w \in Registered \cup {v} |->
                     IF w = v THEN active ELSE parent[w]]
    /\ UNCHANGED <<active, events, decisions>>

(* _promotion_failures: no gate may be below the baseline's report, and a  *)
(* candidate with failed cases never passes.                               *)
(* Mutant: only the absolute threshold is applied.                         *)
PassesGatesAbsolute(baseline, candidate) == Measured[candidate] > 0

PassesGates(baseline, candidate) ==
    /\ Measured[candidate] > 0
    /\ Measured[candidate] >= Measured[baseline]

(* evaluate: the baseline must be the active version and have no failed    *)
(* case, the candidate its direct child.                                   *)
Comparable(baseline, candidate) ==
    /\ baseline = active
    /\ Measured[baseline] > 0
    /\ candidate \in Registered
    /\ parent[candidate] = baseline

Evaluate(baseline, candidate) ==
    /\ Comparable(baseline, candidate)
    /\ decisions' = decisions \cup
           {[baseline |-> baseline, candidate |-> candidate,
             passed   |-> PassesGates(baseline, candidate)]}
    /\ UNCHANGED <<parent, active, events>>

(* PromptVersionRegistry.activate: the target is registered and is not     *)
(* already active; the event names both ends.                              *)
Activate(v, isRollback) ==
    /\ v \in Registered \ {active}
    /\ Len(events) < MaxEvents
    /\ events' = Append(events, [from |-> active, to |-> v,
                                 rollback |-> isRollback])
    /\ active' = v

(* promote: any stored decision that passed, whatever is active by now.    *)
Promote(d) ==
    /\ d.passed
    /\ Activate(d.candidate, FALSE)
    /\ UNCHANGED <<parent, decisions>>

Rollback(v) ==
    /\ Activate(v, TRUE)
    /\ UNCHANGED <<parent, decisions>>

EvolutionNext ==
    \/ \E v \in Versions : Propose(v)
    \/ \E b, c \in Registered : Evaluate(b, c)
    \/ \E d \in decisions : Promote(d)
    \/ \E v \in Versions : Rollback(v)

EvolutionSpec == EvolutionInit /\ [][EvolutionNext]_evolutionVars

-----------------------------------------------------------------------------
(* Properties                                                              *)

(* Types of the registry and the engine.                                   *)
EvolutionTypeOK ==
    /\ parent \in [Registered -> Versions \cup {NoVersion}]
    /\ Registered \subseteq Versions
    /\ active \in Registered
    /\ events \in Seq([from : Versions, to : Versions, rollback : BOOLEAN])
    /\ decisions \subseteq
           [baseline : Versions, candidate : Versions, passed : BOOLEAN]

(* The audit trail explains the active version: the activation events form *)
(* a chain from the configured version to the active one.                  *)
AuditExplainsActive ==
    /\ active = IF events = <<>> THEN Initial ELSE events[Len(events)].to
    /\ \A i \in 1 .. Len(events) :
           events[i].from = IF i = 1 THEN Initial ELSE events[i - 1].to

(* Every promotion of the audit trail, however late it was approved and    *)
(* whatever was activated in between, is of a version that has a passed    *)
(* decision, measured on the frozen suite as no worse than the version it  *)
(* was proposed from, which itself had no failed case.                     *)
PromotedFromMeasured ==
    \A i \in 1 .. Len(events) :
        ~ events[i].rollback =>
            LET v == events[i].to IN
            /\ v \in Registered /\ parent[v] \in Registered
            /\ Measured[v] >= Measured[parent[v]] /\ Measured[parent[v]] > 0
            /\ \E d \in decisions : d.passed /\ d.candidate = v

(* What the document asks of a promotion: the version that replaces the    *)
(* active one measured no worse than the version it replaces.              *)
(* docs/agent-harness-evolution-evaluation.md.                             *)
PromotionNeverRegresses ==
    \A i \in 1 .. Len(events) :
        ~ events[i].rollback =>
            Measured[events[i].to] >= Measured[events[i].from]

=============================================================================
