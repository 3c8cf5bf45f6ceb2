-------------------------- MODULE BootstrapProofs --------------------------
(***************************************************************************)
(* Proofs about Bootstrap, for any number of jobs, any settings and any    *)
(* number of failures.                                                     *)
(***************************************************************************)
EXTENDS Bootstrap, TLAPS

Rising == Starting \cup {"off", "serving"}
Ending == {"unwinding", "closing", "down"}

(* What is open at a stage without having been handed over to the start.   *)
Pending(stage) ==
    GivesUp(stage) \cup IF stage = "poiSettings" THEN {"poi"} ELSE {}

(* The stages in which a resource has not been handed over yet.            *)
Unheld(r) ==
    LET first  == {"off", "migrate", "seed", "redis", "ping", "agents", "checkpointer", "setup"}
        second == first \cup {"poi", "poiSettings"}
    IN  CASE r = "checkpointer" -> first
          [] r = "poi"          -> second
          [] r = "landUse"      -> second \cup {"landUse", "landSettings"}
          [] OTHER              -> {}

Holding ==
    [stage : Stages, open : SUBSET Resources, known : SUBSET Resources,
     todo : SUBSET Resources, broken : SUBSET Resources,
     closes : [Resources -> Nat], manifest : Nat]

(* What a rising process has open it knows of, or the builder at work will *)
(* give it up, or nobody will; it has closed nothing.                      *)
RisingHolds(x) ==
    x.stage \in Rising =>
        /\ x.open \subseteq x.known \cup {"llm"} \cup Pending(x.stage)
        /\ \A r \in Resources : x.closes[r] = 0

HandedOverLate(x) == \A r \in Resources : x.stage \in Unheld(r) => r \notin x.known

(* What an ending process has open is still to be closed, refused to be,   *)
(* or belongs to nobody.                                                   *)
EndingHolds(x) ==
    x.stage \in Ending =>
        /\ x.open \subseteq x.todo \cup x.broken \cup {"llm"} \cup ({"poi"} \ x.known)
        /\ \A r \in x.todo : x.closes[r] = 0
        /\ \A r \in Resources : x.closes[r] <= 1
        /\ x.stage = "down" => x.todo = {}

Holds(x) == RisingHolds(x) /\ HandedOverLate(x) /\ EndingHolds(x)

LayerOK == land \in [version : Nat, kind : {"none", "fixture", "imported"}]

IInv ==
    /\ LayerOK
    /\ proc \in [Processes -> Holding]
    /\ \A p \in Processes : Holds(proc[p])

(* Every stage is before, in or after the closing.                         *)
LEMMA StagesSplit == Stages = Rising \cup Ending /\ Rising \cap Ending = {}
BY DEF Stages, Rising, Ending, Starting

(* A process that has not started holds nothing.                           *)
LEMMA FreshHolds == Fresh \in Holding /\ Holds(Fresh)
BY DEF Fresh, Holding, Stages, Starting, Resources, Holds, RisingHolds, Rising, HandedOverLate,
       EndingHolds, Ending

(* The invariant holds initially.                                          *)
LEMMA InitIInv == Init => IInv
BY FreshHolds DEF Init, IInv, LayerOK

(* A change of one process needs a look at that process only.              *)
LEMMA OneProcess ==
    ASSUME IInv, LayerOK', NEW p \in Processes, NEW x \in Holding, Holds(x),
           proc' = [proc EXCEPT ![p] = x]
    PROVE  IInv'
BY DEF IInv

(* A step of the start: what it opens is told to the start, is pending or  *)
(* is the LLM's; what was pending is told or stays pending; and nothing is *)
(* told before its stage.                                                  *)
LEMMA GoesHolds ==
    ASSUME IInv, LayerOK', NEW p \in Processes,
           NEW from \in Starting \cup {"off"}, NEW to \in Starting \cup {"serving"},
           NEW made \in SUBSET Resources, NEW told \in SUBSET Resources,
           Goes(p, from, to, made, told),
           made \cup Pending(from) \subseteq told \cup {"llm"} \cup Pending(to),
           \A r \in Resources : to \in Unheld(r) => from \in Unheld(r) /\ r \notin told
    PROVE  IInv'
<1> DEFINE x == [proc[p] EXCEPT !.stage = to, !.open = @ \cup made, !.known = @ \cup told]
<1>1. proc[p] \in Holding /\ Holds(proc[p]) /\ proc[p].stage = from
    BY DEF IInv, Goes
<1>2. proc' = [proc EXCEPT ![p] = x]
    BY DEF Goes
<1>3. x \in Holding
    BY <1>1 DEF Holding, Stages
<1>4. x.stage = to /\ x.open = proc[p].open \cup made /\ x.known = proc[p].known \cup told
      /\ x.closes = proc[p].closes
    BY <1>1 DEF Holding
<1>5. from \in Rising /\ to \in Rising
    BY DEF Rising
<1>6. RisingHolds(x)
    BY <1>1, <1>4, <1>5 DEF Holds, RisingHolds
<1>7. HandedOverLate(x)
    BY <1>1, <1>4 DEF Holds, HandedOverLate
<1>8. EndingHolds(x)
    BY <1>4, <1>5, StagesSplit DEF EndingHolds
<1> QED BY <1>2, <1>3, <1>6, <1>7, <1>8, OneProcess DEF Holds

(* No step but an import makes a version.                                  *)
LEMMA LayerStays ==
    ASSUME IInv, NEW p \in Processes, Opens(p) \/ Ends(p) \/ Discover(p)
    PROVE  LayerOK'
<1>1. CASE Seed(p)
    BY <1>1 DEF IInv, LayerOK, Seed
<1>2. CASE UNCHANGED land
    BY <1>2 DEF IInv, LayerOK
<1> QED BY <1>1, <1>2 DEF Opens, Ends, Discover, OpenEngine, Migrate, OpenRedis, Ping, BuildAgents,
    EnterCheckpointer, SetupCheckpointer, OpenPOIClient, BuildPOIProvider, OpenLandUseClient,
    BuildLandUseProvider, ReadManifest, BuildRegionResolver, OpenQueue, BuildRegistry,
    BuildExplainer, Fails, Stop, Closes, Down, Exits

(* Every step of the start meets these conditions.                         *)
LEMMA OpensIInv == ASSUME IInv, NEW p \in Processes, Opens(p) PROVE IInv'
<1>0. LayerOK'
    BY LayerStays
<1> USE <1>0 DEF Starting, Resources, Pending, GivesUp, Unheld, If
<1>1. CASE OpenEngine(p)
    BY <1>1, GoesHolds DEF OpenEngine
<1>2. CASE Migrate(p)
    BY <1>2, GoesHolds DEF Migrate
<1>3. CASE Seed(p)
    BY <1>3, GoesHolds DEF Seed
<1>4. CASE OpenRedis(p)
    BY <1>4, GoesHolds DEF OpenRedis
<1>5. CASE Ping(p)
    BY <1>5, GoesHolds DEF Ping
<1>6. CASE BuildAgents(p)
    BY <1>6, GoesHolds DEF BuildAgents
<1>7. CASE EnterCheckpointer(p)
    BY <1>7, GoesHolds DEF EnterCheckpointer
<1>8. CASE SetupCheckpointer(p)
    BY <1>8, GoesHolds DEF SetupCheckpointer
<1>9. CASE OpenPOIClient(p)
    BY <1>9, GoesHolds DEF OpenPOIClient
<1>10. CASE BuildPOIProvider(p)
    BY <1>10, GoesHolds DEF BuildPOIProvider
<1>11. CASE OpenLandUseClient(p)
    BY <1>11, GoesHolds DEF OpenLandUseClient
<1>12. CASE BuildLandUseProvider(p)
    BY <1>12, GoesHolds DEF BuildLandUseProvider
<1>13. CASE ReadManifest(p)
  <2> DEFINE x == [proc[p] EXCEPT !.stage = "region",
                                  !.manifest = IF "land" \in enabled THEN land.version ELSE 0]
  <2>1. proc[p] \in Holding /\ Holds(proc[p]) /\ proc[p].stage = "manifest"
      BY <1>13 DEF IInv, ReadManifest
  <2>2. proc' = [proc EXCEPT ![p] = x]
      BY <1>13 DEF ReadManifest
  <2>3. x \in Holding
      BY <2>1 DEF Holding, Stages, IInv, LayerOK
  <2>4. Holds(x)
      BY <2>1 DEF Holds, RisingHolds, HandedOverLate, EndingHolds, Rising, Ending, Holding
  <2> QED BY <2>2, <2>3, <2>4, OneProcess
<1>14. CASE BuildRegionResolver(p)
    BY <1>14, GoesHolds DEF BuildRegionResolver
<1>15. CASE OpenQueue(p)
    BY <1>15, GoesHolds DEF OpenQueue
<1>16. CASE BuildRegistry(p)
    BY <1>16, GoesHolds DEF BuildRegistry
<1>17. CASE BuildExplainer(p)
    BY <1>17, GoesHolds DEF BuildExplainer
<1> QED BY <1>1, <1>2, <1>3, <1>4, <1>5, <1>6, <1>7, <1>8, <1>9, <1>10, <1>11, <1>12,
           <1>13, <1>14, <1>15, <1>16, <1>17 DEF Opens

(* A start that fails hands over what it knows of to the closing; what was *)
(* pending is given up, stuck, or the POI client nobody has a name for.    *)
LEMMA FailsIInv == ASSUME IInv, NEW p \in Processes, Fails(p) PROVE IInv'
<1> DEFINE y == proc[p]
           mine == GivesUp(y.stage)
<1>1. y \in Holding /\ Holds(y) /\ y.stage \in Starting
    BY DEF IInv, Fails
<1>2. PICK stuck \in SUBSET mine :
        proc' = [proc EXCEPT
            ![p].stage = "unwinding", ![p].todo = y.known,
            ![p].open = @ \ (mine \ stuck), ![p].broken = stuck,
            ![p].closes = [r \in Resources |-> @[r] + IF r \in mine THEN 1 ELSE 0]]
    BY DEF Fails
<1> DEFINE x == [y EXCEPT
        !.stage = "unwinding", !.todo = y.known, !.open = @ \ (mine \ stuck), !.broken = stuck,
        !.closes = [r \in Resources |-> @[r] + IF r \in mine THEN 1 ELSE 0]]
<1>3. proc' = [proc EXCEPT ![p] = x]
    BY <1>2
<1>4. mine \subseteq Resources /\ mine \cap y.known = {}
    BY <1>1 DEF GivesUp, Resources, Holds, HandedOverLate, Unheld
<1>5. x \in Holding
  <2> DEFINE counts == [r \in Resources |-> y.closes[r] + IF r \in mine THEN 1 ELSE 0]
  <2>1. counts \in [Resources -> Nat]
      BY <1>1 DEF Holding
  <2> HIDE DEF counts
  <2>2. [y EXCEPT !.stage = "unwinding", !.todo = y.known, !.open = @ \ (mine \ stuck),
                  !.broken = stuck, !.closes = counts] \in Holding
      BY <1>1, <1>4, <2>1 DEF Holding, Stages
  <2> QED BY <2>2 DEF counts
<1>6. \A r \in Resources : y.closes[r] = 0
    BY <1>1 DEF Holds, RisingHolds, Rising
<1>7. \A r \in Resources : x.closes[r] = IF r \in mine THEN 1 ELSE 0
    BY <1>1, <1>6 DEF Holding
<1>8. x.open \subseteq x.todo \cup x.broken \cup {"llm"} \cup ({"poi"} \ x.known)
  <2>1. y.open \subseteq y.known \cup {"llm"} \cup Pending(y.stage)
      BY <1>1 DEF Holds, RisingHolds, Rising
  <2> x.open = y.open \ (mine \ stuck) /\ x.todo = y.known /\ x.known = y.known
      /\ x.broken = stuck
      BY <1>1 DEF Holding
  <2>2. CASE y.stage = "poiSettings"
    <3>1. "poi" \notin y.known
        BY <1>1, <2>2 DEF Holds, HandedOverLate, Unheld, Resources
    <3> QED BY <2>1, <2>2, <3>1 DEF Pending
  <2>3. CASE y.stage # "poiSettings"
      BY <2>1, <2>3 DEF Pending
  <2> QED BY <2>2, <2>3
<1>9. EndingHolds(x)
    BY <1>1, <1>4, <1>7, <1>8 DEF EndingHolds, Holding
<1>10. RisingHolds(x) /\ HandedOverLate(x)
    BY <1>1 DEF Holding, RisingHolds, HandedOverLate, Rising, Starting, Unheld
<1> QED BY <1>3, <1>5, <1>9, <1>10, OneProcess, LayerStays DEF Holds, Ends

(* A resource that is closed, or refuses to be, is closed for the first    *)
(* time and leaves the others to be closed.                                *)
LEMMA ClosesIInv == ASSUME IInv, NEW p \in Processes, Closes(p) PROVE IInv'
<1> DEFINE y == proc[p]
<1>1. y \in Holding /\ Holds(y) /\ y.stage \in {"unwinding", "closing"}
    BY DEF IInv, Closes
<1>2. PICK r \in y.todo :
        \/ proc' = [proc EXCEPT ![p].todo = @ \ {r}, ![p].open = @ \ {r}, ![p].closes[r] = @ + 1]
        \/ proc' = [proc EXCEPT ![p].todo = @ \ {r},
                                ![p].broken = @ \cup {r}, ![p].closes[r] = @ + 1]
    BY DEF Closes, AfterFailure
<1>3. r \in Resources /\ EndingHolds(y) /\ y.stage \in Ending
    BY <1>1 DEF Holding, Holds, Ending
<1> DEFINE closes == [y.closes EXCEPT ![r] = @ + 1]
           closed == [y EXCEPT !.todo = @ \ {r}, !.open = @ \ {r}, !.closes[r] = @ + 1]
           failed == [y EXCEPT !.todo = @ \ {r}, !.broken = @ \cup {r}, !.closes[r] = @ + 1]
<1>4. proc' = [proc EXCEPT ![p] = closed] \/ proc' = [proc EXCEPT ![p] = failed]
    BY <1>2
<1>5. closes \in [Resources -> Nat] /\ closes[r] = 1
      /\ \A s \in Resources : s # r => closes[s] = y.closes[s]
    BY <1>1, <1>3 DEF Holding, EndingHolds
<1> closed.closes = closes /\ failed.closes = closes
    BY <1>1 DEF Holding
<1>6. closed \in Holding /\ failed \in Holding
    BY <1>1, <1>3, <1>5 DEF Holding
<1>7. EndingHolds(closed) /\ EndingHolds(failed)
    BY <1>1, <1>3, <1>5 DEF EndingHolds, Holding
<1>8. /\ RisingHolds(closed) /\ RisingHolds(failed)
      /\ HandedOverLate(closed) /\ HandedOverLate(failed)
    BY <1>1 DEF RisingHolds, HandedOverLate, Rising, Starting, Unheld, Holding
<1> QED BY <1>4, <1>6, <1>7, <1>8, OneProcess, LayerStays DEF Holds, Ends

(* Stopping is a closing of all that is known; a process that is down and  *)
(* exits is as good as new.                                                *)
LEMMA EndsIInv == ASSUME IInv, NEW p \in Processes, Ends(p) PROVE IInv'
<1>0. LayerOK'
    BY LayerStays
<1>1. proc[p] \in Holding /\ Holds(proc[p])
    BY DEF IInv
<1>2. CASE Stop(p)
  <2> DEFINE x == [proc[p] EXCEPT !.stage = "closing", !.todo = proc[p].known]
  <2>1. proc' = [proc EXCEPT ![p] = x] /\ proc[p].stage = "serving"
      BY <1>2 DEF Stop
  <2>2. x \in Holding
      BY <1>1 DEF Holding, Stages
  <2>3. Holds(x)
      BY <1>1, <2>1 DEF Holds, RisingHolds, HandedOverLate, EndingHolds, Rising, Ending, Starting,
                        Holding, Unheld, Pending, GivesUp
  <2> QED BY <1>0, <2>1, <2>2, <2>3, OneProcess
<1>3. CASE Down(p)
  <2> DEFINE x == [proc[p] EXCEPT !.stage = "down"]
  <2>1. proc' = [proc EXCEPT ![p] = x] /\ proc[p].stage \in {"unwinding", "closing"}
        /\ proc[p].todo = {}
      BY <1>3 DEF Down
  <2>2. x \in Holding
      BY <1>1 DEF Holding, Stages
  <2>3. Holds(x)
      BY <1>1, <2>1 DEF Holds, RisingHolds, HandedOverLate, EndingHolds, Rising, Ending, Starting,
                        Holding, Unheld
  <2> QED BY <1>0, <2>1, <2>2, <2>3, OneProcess
<1>4. CASE Exits(p)
    BY <1>0, <1>4, FreshHolds, OneProcess DEF Exits
<1> QED BY <1>2, <1>3, <1>4, FailsIInv, ClosesIInv DEF Ends

(* The invariant is inductive.                                             *)
LEMMA NextIInv == IInv /\ [Next]_vars => IInv'
<1> SUFFICES ASSUME IInv, [Next]_vars PROVE IInv'
    OBVIOUS
<1>1. CASE Import
    BY <1>1 DEF Import, IInv, LayerOK
<1>2. ASSUME NEW p \in Processes, Discover(p) PROVE IInv'
    BY <1>2 DEF Discover, IInv, LayerOK
<1>3. CASE UNCHANGED vars
    BY <1>3 DEF vars, IInv, LayerOK
<1> QED BY <1>1, <1>2, <1>3, OpensIInv, EndsIInv DEF Next

(* The invariant of all reachable states.                                  *)
LEMMA Inductive == Spec => []IInv
BY InitIInv, NextIInv, PTL DEF Spec

(* Whatever fails, a process that is down has closed all that can be       *)
(* closed (site_selection_bootstrap.py:237-266, 668-690).                  *)
THEOREM RestIsClosed == Spec => []TheRestIsClosed
<1>1. IInv => TheRestIsClosed
    BY DEF IInv, TheRestIsClosed, Holds, EndingHolds, Ending
<1> QED BY <1>1, Inductive, PTL

(* Nothing is closed twice (site_selection_bootstrap.py:693-710 and        *)
(* site_selection_land_use_provider.py:88-92 close what they made, the     *)
(* start that called them closes the rest).                                *)
THEOREM NothingClosedTwice == Spec => []ClosedOnce
<1>1. IInv => ClosedOnce
  <2> SUFFICES ASSUME IInv, NEW p \in Processes, NEW r \in Resources
               PROVE  proc[p].closes[r] <= 1
      BY DEF ClosedOnce
  <2>1. proc[p] \in Holding /\ Holds(proc[p])
      BY DEF IInv
  <2>2. CASE proc[p].stage \in Rising
      BY <2>1, <2>2 DEF Holds, RisingHolds
  <2>3. CASE proc[p].stage \in Ending
      BY <2>1, <2>3 DEF Holds, EndingHolds
  <2> QED BY <2>1, <2>2, <2>3, StagesSplit DEF Holding
<1> QED BY <1>1, Inductive, PTL

=============================================================================
