----------------------------- MODULE Bootstrap -----------------------------
(***************************************************************************)
(* How a process gets its runtime and gives it up again                    *)
(* (app/site_selection_bootstrap.py, app/main.py,                          *)
(* app/services/site_selection_worker.py).                                 *)
(*                                                                         *)
(* The API opens everything once and closes it when it stops; a worker     *)
(* does the same anew for every job.  Opening is a long sequence in which  *)
(* each step may fail, for want of a service or because a setting is       *)
(* refused only where it is used; what was opened until then is unwound.   *)
(* Closing is a sequence too, and each resource may refuse to be closed.   *)
(*                                                                         *)
(* On the way every process migrates the database, writes the demo layers  *)
(* again and reads, once, what it will say about the authoritative land    *)
(* layer, which an operator may import anew at any time.                   *)
(***************************************************************************)
EXTENDS Naturals, Sequences

CONSTANTS
    Api,          \* the API process
    Jobs,         \* worker processes, one per job
    Always,       \* what the settings ask for in every deployment considered
    Optional,     \* what they may ask for besides
    MaxVersions,  \* bound: imports of the authoritative layer
    MaxFaults     \* bound: steps that fail for want of a service

Processes == {Api} \cup Jobs
Resources == {"engine", "redis", "llm", "checkpointer", "poi", "landUse", "queue"}
Features  == {"agents", "supervisor", "poi", "landUse", "land", "async", "llm"}
Settings  == {"agents", "poi", "landUse", "region", "async", "llm"}

ASSUME BootstrapAssumption ==
    /\ Api \notin Jobs /\ Always \cup Optional \subseteq Features
    /\ MaxVersions \in Nat /\ MaxFaults \in Nat

VARIABLES
    enabled,  \* the features the settings ask for
    refused,  \* the settings that are refused where they are used
    demo,     \* the settings name a demo layer as the authoritative one
    proc,     \* per process: where it is and what it holds
    land,     \* the layer the settings name: version (0: absent), kind
    answer,   \* what the last discovery said of that layer, and what it read
    faults

vars == <<enabled, refused, demo, proc, land, answer, faults>>

Starting == {"migrate", "seed", "redis", "ping", "agents", "checkpointer", "setup",
             "poi", "poiSettings", "landUse", "landSettings", "manifest", "region",
             "queue", "registry", "explainer"}
Stages   == Starting \cup {"off", "serving", "unwinding", "closing", "down"}

(* A start that failed and a bootstrap that is closed go through what they *)
(* hold in these orders.                                                   *)
Order(stage) ==
    IF stage = "unwinding"
    THEN <<"checkpointer", "queue", "poi", "landUse", "redis", "engine">>
    ELSE <<"queue", "checkpointer", "poi", "landUse", "redis", "engine">>

Before(stage, r, s) ==
    \E i, j \in 1..6 : i < j /\ Order(stage)[i] = r /\ Order(stage)[j] = s

Fresh == [stage |-> "off", open |-> {}, known |-> {}, todo |-> {}, broken |-> {},
          closes |-> [r \in Resources |-> 0], manifest |-> 0]

TypeOK ==
    /\ enabled \subseteq Features /\ refused \subseteq Settings /\ demo \in BOOLEAN
    /\ proc \in [Processes ->
         [stage : Stages, open : SUBSET Resources, known : SUBSET Resources,
          todo : SUBSET Resources, broken : SUBSET Resources,
          closes : [Resources -> Nat], manifest : 0..MaxVersions]]
    /\ land \in [version : 0..MaxVersions, kind : {"none", "fixture", "imported"}]
    /\ answer \in [said : 0..MaxVersions, held : 0..MaxVersions,
                   kind : {"none", "fixture", "imported"}]
    /\ faults \in 0..MaxFaults

(* Any settings, of which at most one is refused: the first one refused    *)
(* ends the start.                                                         *)
Init ==
    /\ enabled \in {Always \cup some : some \in SUBSET Optional}
    /\ refused \in {{}} \cup {{s} : s \in Settings \cap (enabled \cup {"region"})}
    /\ demo \in IF "land" \in enabled THEN BOOLEAN ELSE {FALSE}
    /\ proc = [p \in Processes |-> Fresh]
    /\ land = [version |-> 0, kind |-> "none"]
    /\ answer = [said |-> 0, held |-> 0, kind |-> "none"]
    /\ faults = 0

-----------------------------------------------------------------------------
(* Opening.  "made" is what a step opens, "told" what the function that    *)
(* unwinds has a name for from then on.                                    *)
Goes(p, from, to, made, told) ==
    /\ proc[p].stage = from
    /\ proc' = [proc EXCEPT ![p].stage = to, ![p].open = @ \cup made,
                            ![p].known = @ \cup told]

If(feature, made) == IF feature \in enabled THEN made ELSE {}

(* The settings read before anything is opened refuse the start for free:  *)
(* such a process never leaves "off".                                      *)
OpenEngine(p) ==
    /\ Goes(p, "off", "migrate", {"engine"}, {"engine"})
    /\ UNCHANGED <<enabled, refused, demo, land, answer, faults>>

Migrate(p) ==
    /\ Goes(p, "migrate", "seed", {}, {})
    /\ UNCHANGED <<enabled, refused, demo, land, answer, faults>>

(* One transaction replaces every demo layer.                              *)
Seed(p) ==
    /\ Goes(p, "seed", "redis", {}, {})
    /\ land' = IF demo THEN [land EXCEPT !.kind = "fixture"] ELSE land
    /\ UNCHANGED <<enabled, refused, demo, answer, faults>>

OpenRedis(p) ==
    /\ Goes(p, "redis", "ping", {"redis"}, {"redis"})
    /\ UNCHANGED <<enabled, refused, demo, land, answer, faults>>

Ping(p) ==
    /\ Goes(p, "ping", "agents", {}, {})
    /\ UNCHANGED <<enabled, refused, demo, land, answer, faults>>

BuildAgents(p) ==
    /\ "agents" \notin enabled \cap refused
    /\ Goes(p, "agents", "checkpointer", If("agents", {"llm"}), {})
    /\ UNCHANGED <<enabled, refused, demo, land, answer, faults>>

(* The checkpointer's context is entered first and handed over only after  *)
(* its tables are set up.                                                  *)
(* Mutant: it is handed over as soon as it is entered.                     *)
EnterAndHandOver(p) ==
    /\ Goes(p, "checkpointer", IF "supervisor" \in enabled THEN "setup" ELSE "poi",
            If("supervisor", {"checkpointer"}), If("supervisor", {"checkpointer"}))
    /\ UNCHANGED <<enabled, refused, demo, land, answer, faults>>

EnterCheckpointer(p) ==
    /\ Goes(p, "checkpointer", IF "supervisor" \in enabled THEN "setup" ELSE "poi",
            If("supervisor", {"checkpointer"}), {})
    /\ UNCHANGED <<enabled, refused, demo, land, answer, faults>>

SetupCheckpointer(p) ==
    /\ Goes(p, "setup", "poi", {}, {"checkpointer"})
    /\ UNCHANGED <<enabled, refused, demo, land, answer, faults>>

(* Both online providers open their HTTP client before they read the rest  *)
(* of their settings.                                                      *)
OpenPOIClient(p) ==
    /\ Goes(p, "poi", IF "poi" \in enabled THEN "poiSettings" ELSE "landUse",
            If("poi", {"poi"}), {})
    /\ UNCHANGED <<enabled, refused, demo, land, answer, faults>>

BuildPOIProvider(p) ==
    /\ "poi" \notin refused
    /\ Goes(p, "poiSettings", "landUse", {}, {"poi"})
    /\ UNCHANGED <<enabled, refused, demo, land, answer, faults>>

OpenLandUseClient(p) ==
    /\ Goes(p, "landUse", IF "landUse" \in enabled THEN "landSettings" ELSE "manifest",
            If("landUse", {"landUse"}), {})
    /\ UNCHANGED <<enabled, refused, demo, land, answer, faults>>

BuildLandUseProvider(p) ==
    /\ "landUse" \notin refused
    /\ Goes(p, "landSettings", "manifest", {}, {"landUse"})
    /\ UNCHANGED <<enabled, refused, demo, land, answer, faults>>

(* The layer named as authoritative must be stored and must not be a demo  *)
(* layer; its version and its licence are kept for the life of the process.*)
Authoritative == land.version > 0 /\ land.kind = "imported"

ReadManifest(p) ==
    /\ proc[p].stage = "manifest"
    /\ "land" \in enabled => Authoritative
    /\ proc' = [proc EXCEPT ![p].stage = "region",
                            ![p].manifest = IF "land" \in enabled THEN land.version ELSE 0]
    /\ UNCHANGED <<enabled, refused, demo, land, answer, faults>>

BuildRegionResolver(p) ==
    /\ "region" \notin refused
    /\ Goes(p, "region", "queue", {}, {})
    /\ UNCHANGED <<enabled, refused, demo, land, answer, faults>>

(* Only the API has a queue: a job runs its analysis itself.               *)
Queues(p) == p = Api /\ "async" \in enabled

OpenQueue(p) ==
    /\ ~(Queues(p) /\ "async" \in refused)
    /\ LET queue == IF Queues(p) THEN {"queue"} ELSE {}
       IN  Goes(p, "queue", "registry", queue, queue)
    /\ UNCHANGED <<enabled, refused, demo, land, answer, faults>>

BuildRegistry(p) ==
    /\ Goes(p, "registry", "explainer", {}, {})
    /\ UNCHANGED <<enabled, refused, demo, land, answer, faults>>

(* Explainer and interpreter, the last steps, make clients of the LLM that *)
(* nobody closes.                                                          *)
BuildExplainer(p) ==
    /\ "llm" \notin enabled \cap refused
    /\ Goes(p, "explainer", "serving", If("llm", {"llm"}), {})
    /\ UNCHANGED <<enabled, refused, demo, land, answer, faults>>

-----------------------------------------------------------------------------
(* Failing and closing.                                                    *)
Refusing(p) ==
    \/ proc[p].stage = "agents" /\ "agents" \in enabled \cap refused
    \/ proc[p].stage = "poiSettings" /\ "poi" \in refused
    \/ proc[p].stage = "landSettings" /\ "landUse" \in refused
    \/ proc[p].stage = "manifest" /\ "land" \in enabled /\ ~Authoritative
    \/ proc[p].stage = "region" /\ "region" \in refused
    \/ proc[p].stage = "queue" /\ Queues(p) /\ "async" \in refused
    \/ proc[p].stage = "explainer" /\ "llm" \in enabled \cap refused

(* Steps that talk to a service fail without it; RQ's alarm raises in a    *)
(* job wherever it is.                                                     *)
Talks(p) ==
    \/ proc[p].stage \in {"migrate", "seed", "ping", "setup"}
    \/ proc[p].stage = "checkpointer" /\ "supervisor" \in enabled
    \/ proc[p].stage = "manifest" /\ "land" \in enabled
    \/ p \in Jobs

(* Two builders give up what they made themselves before they raise.       *)
GivesUp(stage) ==
    CASE stage = "setup"        -> {"checkpointer"}
      [] stage = "landSettings" -> {"landUse"}
      [] OTHER                  -> {}

(* A start fails at a refused setting, or for one fault; giving up what is *)
(* the builder's own may fail too.                                         *)
Fails(p) ==
    /\ proc[p].stage \in Starting
    /\ Refusing(p) \/ Talks(p)
    /\ LET mine == GivesUp(proc[p].stage)
       IN  \E stuck \in SUBSET mine :
             /\ proc' = [proc EXCEPT
                  ![p].stage = "unwinding", ![p].todo = proc[p].known,
                  ![p].open = @ \ (mine \ stuck), ![p].broken = stuck,
                  ![p].closes = [r \in Resources |-> @[r] + IF r \in mine THEN 1 ELSE 0]]
             /\ faults' = faults + (IF Refusing(p) THEN 0 ELSE 1)
                                 + (IF stuck = {} THEN 0 ELSE 1)
    /\ faults' <= MaxFaults
    /\ UNCHANGED <<enabled, refused, demo, land, answer>>

Stop(p) ==
    /\ proc[p].stage = "serving"
    /\ proc' = [proc EXCEPT ![p].stage = "closing", ![p].todo = proc[p].known]
    /\ UNCHANGED <<enabled, refused, demo, land, answer, faults>>

(* What is left to close when closing a resource has raised.               *)
(* Mutant: nothing, the exception ends the closing.                        *)
AfterFailureNothing(todo, r) == {}

AfterFailure(todo, r) == todo \ {r}

Closes(p) ==
    /\ proc[p].stage \in {"unwinding", "closing"}
    /\ \E r \in proc[p].todo :
         /\ \A s \in proc[p].todo : ~Before(proc[p].stage, s, r)
         /\ \/ /\ proc' = [proc EXCEPT ![p].todo = @ \ {r}, ![p].open = @ \ {r},
                                        ![p].closes[r] = @ + 1]
               /\ UNCHANGED faults
            \/ /\ faults < MaxFaults
               /\ proc' = [proc EXCEPT ![p].todo = AfterFailure(@, r),
                                       ![p].broken = @ \cup {r}, ![p].closes[r] = @ + 1]
               /\ faults' = faults + 1
    /\ UNCHANGED <<enabled, refused, demo, land, answer>>

Down(p) ==
    /\ proc[p].stage \in {"unwinding", "closing"} /\ proc[p].todo = {}
    /\ proc' = [proc EXCEPT ![p].stage = "down"]
    /\ UNCHANGED <<enabled, refused, demo, land, answer, faults>>

(* The process ends and with it whatever it still held; the container or   *)
(* the queue may start it again.                                           *)
Exits(p) ==
    /\ proc[p].stage = "down"
    /\ proc' = [proc EXCEPT ![p] = Fresh]
    /\ UNCHANGED <<enabled, refused, demo, land, answer, faults>>

-----------------------------------------------------------------------------
(* The authoritative layer.                                                *)

(* An operator imports the layer: a new version with its own licence.      *)
Import ==
    /\ "land" \in enabled /\ land.version < MaxVersions
    /\ land' = [version |-> land.version + 1, kind |-> "imported"]
    /\ UNCHANGED <<enabled, refused, demo, proc, answer, faults>>

(* A discovery loads the rows stored now and names the version read when   *)
(* the process started.                                                    *)
Discover(p) ==
    /\ proc[p].stage = "serving" /\ proc[p].manifest > 0
    /\ answer' = [said |-> proc[p].manifest, held |-> land.version, kind |-> land.kind]
    /\ UNCHANGED <<enabled, refused, demo, proc, land, faults>>

Opens(p) ==
    \/ OpenEngine(p) \/ Migrate(p) \/ Seed(p) \/ OpenRedis(p) \/ Ping(p)
    \/ BuildAgents(p) \/ EnterCheckpointer(p) \/ SetupCheckpointer(p)
    \/ OpenPOIClient(p) \/ BuildPOIProvider(p)
    \/ OpenLandUseClient(p) \/ BuildLandUseProvider(p)
    \/ ReadManifest(p) \/ BuildRegionResolver(p) \/ OpenQueue(p)
    \/ BuildRegistry(p) \/ BuildExplainer(p)

Ends(p) == Fails(p) \/ Stop(p) \/ Closes(p) \/ Down(p) \/ Exits(p)

Next == Import \/ \E p \in Processes : Opens(p) \/ Ends(p) \/ Discover(p)

Spec == Init /\ [][Next]_vars

-----------------------------------------------------------------------------
(* Properties.                                                             *)

(* However a start fails and whatever refuses to be closed, a process that *)
(* is down has closed all the rest: only the LLM's clients, which nobody   *)
(* closes, and a POI client whose provider was never finished stay open.   *)
(* Each closing is guarded on its own (bootstrap.py:237-266, 668-690).     *)
TheRestIsClosed ==
    \A p \in Processes : proc[p].stage = "down" =>
        proc[p].open \subseteq proc[p].broken \cup {"llm"} \cup ({"poi"} \ proc[p].known)

(* Nothing is closed twice, although builders close what they made when    *)
(* they fail and the start that called them unwinds right after: entering  *)
(* and leaving a checkpointer's context are paired.                        *)
ClosedOnce == \A p \in Processes : \A r \in Resources : proc[p].closes[r] <= 1

(* The version a discovery names is that of the rows it read.  The code    *)
(* does not keep this when the layer is imported under a running process.  *)
VersionIsRead == answer.said = answer.held

(* No demo layer is ever served as authoritative.  The code does not keep  *)
(* this when the settings name a demo layer: it may be imported between a  *)
(* start's seeding and its check, and is seeded again by the next job.     *)
NoDemoIsAuthoritative == answer.kind # "fixture"

=============================================================================
