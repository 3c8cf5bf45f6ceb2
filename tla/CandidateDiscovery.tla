------------------------- MODULE CandidateDiscovery -------------------------
(* One candidate discovery and the analyses that reuse its POI evidence    *)
(* (candidate_discovery.py, evidence_snapshot.py).                         *)
(*                                                                         *)
(* The plane is a line: the search bounds are -Bound..Bound, a circle is   *)
(* an interval, and the 2 x 2 repair grid is two half-intervals. A scoring *)
(* group asks for one category, so a group misses its category exactly     *)
(* when it has no record. A POI is its place; a set of evidence says what  *)
(* its source metadata claim about it.                                     *)
EXTENDS Integers, FiniteSets, SequencesExt

CONSTANTS
    Groups,        \* the scoring groups, in the order of the profile
    LateGroups,    \* the groups a later version of the profile adds
    Context,       \* supported categories that score nothing, by batch
    Bound,         \* half the width of the searched bounds
    Reach,         \* query radius of a scoring group
    Limit,         \* poi_limit_per_group
    Budget,        \* supplement queries of one analysis
    RangeLimit,    \* request.range_poi_limit
    LandLimit,     \* parcels the public land-use service returns at most
    MaxCandidates, \* request.max_candidates
    Separation,    \* request.minimum_separation_m
    Towns,         \* the POIs there really are: functions of the groups
    Fixture,       \* the POIs of the synthetic catalogue, by group
    Persisted,     \* the POIs the database holds, by group
    Cadastres,     \* the land layers there may be
    Observations   \* the public land-use services there may be

ASSUME DiscoveryConstants ==
    /\ Bound \in Nat \ {0} /\ Reach \in Nat /\ Limit \in Nat \ {0}
    /\ Budget \in Nat \ {0} /\ MaxCandidates \in Nat \ {0}
    /\ Separation \in Nat /\ RangeLimit \in Nat \ {0}
    /\ LandLimit \in Nat \ {0}
    /\ Len(Groups) > 0 /\ Bound % 2 = 0
    /\ Groups \in Seq(Range(Groups)) /\ LateGroups \in Seq(Range(LateGroups))
    /\ Context \in Seq(Range(Context))

(* Only parcels within the bounds are read from a layer; a suitability is  *)
(* one of three words or blocks the gate (_load_registered_pool,           *)
(* _load_proxy_pool).                                                      *)
ASSUME CadastresAssumption ==
    \A c \in Cadastres :
        /\ DOMAIN c.suits \cup c.proxies \subseteq -Bound .. Bound
        /\ Range(c.suits) \subseteq
               {"allowed", "review_required", "excluded", "invalid"}

VARIABLES
    request,   \* fallback mode, the provider, and whether it is asked in bulk
    town,      \* POIs, land layers, land-use service: fixed by the world
    profile,   \* the scoring groups of the deployed profile
    land,      \* result of land_use_gate
    market,    \* scoring evidence, by group
    phase,     \* progress of the two parallel nodes and of the graph
    tried,     \* groups that were repaired
    range,     \* the range layer, and the context batches that were lost
    ranked,    \* the selected candidates, best first
    report,    \* is the report assembled?
    snapshot,  \* the stored evidence snapshot
    analysis   \* the evidence of the analysis that reuses it

vars == <<request, town, profile, land, market, phase, tried, range, ranked,
          report, snapshot, analysis>>

-----------------------------------------------------------------------------
(* Places, circles and what a provider returns for them.                   *)

Abs(x) == IF x < 0 THEN -x ELSE x
Span == Bound + Reach
Place == -Span .. Span
Sites == -Bound .. Bound
GroupSet == Range(Groups)

NoRange == [at |-> {}, truncated |-> FALSE, real |-> FALSE, lost |-> {}]

Circle(center, radius) == {p \in Place : Abs(p - center) <= radius}

(* Records are ordered by distance, then by identifier.                    *)
Before(p, q, center) ==
    \/ Abs(p - center) < Abs(q - center)
    \/ Abs(p - center) = Abs(q - center) /\ p < q
Nearest(S, center) ==
    {p \in S : Cardinality({q \in S : Before(q, p, center)}) < Limit}

Query(group, center, radius) ==
    [group |-> group, center |-> center, radius |-> radius]

(* A set of evidence: the records and the claims of its source. Error and  *)
(* reused are for the analysis: why there is no better set, and whether    *)
(* the records are those of the snapshot.                                  *)
Evidence(q, at, truncated) ==
    [query |-> q, at |-> at, truncated |-> truncated,
     synthetic |-> FALSE, fellBack |-> FALSE, missing |-> FALSE,
     stored |-> FALSE, error |-> "none", reused |-> FALSE]

Found(catalogue, q) == catalogue[q.group] \cap Circle(q.center, q.radius)

Live(q) ==
    LET hits == Found(town.poi, q)
    IN  Evidence(q, Nearest(hits, q.center), Cardinality(hits) > Limit)
(* The fixture answers in place of an online provider that is out, or as   *)
(* the configured provider; the answer says which.                         *)
Providers == {"online", "fallback", "fixture"}
FellBack == request.provider # "fixture"
Invented(q) ==
    LET hits == Found(Fixture, q)
    IN  [Evidence(q, Nearest(hits, q.center), Cardinality(hits) > Limit)
            EXCEPT !.synthetic = TRUE, !.fellBack = FellBack]
(* Rows read back from the database: never said to be truncated.           *)
Recovered(q) ==
    [Evidence(q, Nearest(Found(Persisted, q), q.center), FALSE)
        EXCEPT !.stored = TRUE]
Unavailable(q) == [Evidence(q, {}, TRUE) EXCEPT !.missing = TRUE]

(* How the gateway may answer. With a fallback an outage is answered by    *)
(* the fixture, without one it is raised; a malformed response is raised.  *)
Online(q) ==
    {"live", "malformed"}
    \cup (IF Found(Persisted, q) # {} THEN {"stored"} ELSE {})
Kinds(q) ==
    CASE request.provider = "fixture"  -> {"fixture"}
      [] request.provider = "fallback" -> Online(q) \cup {"fixture"}
      [] OTHER                         -> Online(q) \cup {"unavailable"}
Answer(kind, q) ==
    CASE kind = "live" -> Live(q)
      [] kind = "fixture" -> Invented(q)
      [] kind = "stored" -> Recovered(q)
      [] OTHER -> Unavailable(q)

-----------------------------------------------------------------------------
(* The land-use gate.                                                      *)

Strategies == {"registered_land", "public_land_observation",
               "commercial_land_proxy", "market_exploration"}
FallbackModes == {"strict", "commercial_land_proxy", "market_exploration"}
NoLand == [strategy |-> "none", pool |-> {}, review |-> {}]
Pool(strategy, sites, review) ==
    [strategy |-> strategy, pool |-> sites, review |-> review]

(* Only a parcel of the one registered layer may be analysed formally.     *)
Formal(result) == result.strategy = "registered_land"

(* Closed polygons of the service come largest first; those with a centre  *)
(* outside the bounds are dropped before the answer is cut. An answer that *)
(* was kept in the cache is given again, whatever the service is like now. *)
Parcels(polygons) ==
    LET upTo(i) == {j \in DOMAIN polygons : j <= i /\ polygons[j] \in Sites}
    IN  {polygons[i] : i \in {j \in DOMAIN polygons :
            polygons[j] \in Sites /\ Cardinality(upTo(j)) <= LandLimit}}
Observed ==
    CASE town.osm.kept # <<>> -> Parcels(town.osm.kept)
      [] town.osm.kept = <<>> /\ town.osm.up -> Parcels(town.osm.polygons)
      [] OTHER -> {}

Eligible == {s \in DOMAIN town.land.suits : town.land.suits[s] # "excluded"}
RegisterUsable ==
    /\ town.land.layers = 1 /\ town.land.readable
    /\ "invalid" \notin Range(town.land.suits)
    /\ Eligible # {}

(* What lets the gate go on to weaker land evidence.                       *)
(* Mutant: strict mode is honoured only while no layer is registered.      *)
MayFallBackUnlessMissing ==
    /\ town.land.layers < 2 /\ ~RegisterUsable
    /\ ~(request.mode = "strict" /\ town.land.layers = 0)
MayFallBack ==
    /\ town.land.layers < 2 /\ ~RegisterUsable
    /\ request.mode # "strict"

GateOpen == phase.land = "todo"
GateTo(result) ==
    /\ land' = result
    /\ phase' = [phase EXCEPT !.land = "done"]
GateRefuses ==
    /\ phase' = [phase EXCEPT !.land = "blocked"]
    /\ UNCHANGED land
GateRest == UNCHANGED <<request, town, profile, market, tried, range, ranked,
                        report, snapshot, analysis>>

FromRegister ==
    /\ GateOpen /\ RegisterUsable
    /\ GateTo(Pool("registered_land", Eligible,
                   {s \in Eligible :
                        town.land.suits[s] = "review_required"}))
    /\ GateRest

RegisterRefused ==
    /\ GateOpen /\ ~RegisterUsable /\ ~MayFallBack
    /\ GateRefuses
    /\ GateRest

FromObservation ==
    /\ GateOpen /\ MayFallBack
    /\ Observed # {}
    /\ GateTo(Pool("public_land_observation", Observed, Observed))
    /\ GateRest

(* A proxy parcel without a usable area blocks the whole discovery.        *)
FromProxies ==
    /\ GateOpen /\ MayFallBack /\ Observed = {}
    /\ town.land.proxies # {}
    /\ IF town.land.areas
       THEN GateTo(Pool("commercial_land_proxy", town.land.proxies,
                        town.land.proxies))
       ELSE GateRefuses
    /\ GateRest

FromGrid ==
    /\ GateOpen /\ MayFallBack
    /\ Observed = {} /\ town.land.proxies = {}
    /\ request.mode = "market_exploration"
    /\ GateTo(Pool("market_exploration", Sites, Sites))
    /\ GateRest

NoLandLeft ==
    /\ GateOpen /\ MayFallBack
    /\ Observed = {} /\ town.land.proxies = {}
    /\ request.mode # "market_exploration"
    /\ GateRefuses
    /\ GateRest

LandUseGate ==
    \/ FromRegister \/ RegisterRefused \/ FromObservation
    \/ FromProxies \/ FromGrid \/ NoLandLeft

-----------------------------------------------------------------------------
(* The market evidence: broad queries, then the repair of weak groups.     *)

ScopeQuery(group) == Query(group, 0, Bound + Reach)
Side == Bound \div 2
RepairQueries(group) ==
    {Query(group, center, Side + Reach) : center \in {-Side, Side}}

MarketRest == UNCHANGED <<request, town, profile, land, ranked, report,
                          snapshot, analysis>>
ScoringRest == MarketRest /\ UNCHANGED range
MarketTo(stage) == phase' = [phase EXCEPT !.market = stage]

(* Groups share the records of a bulk answer; each gets the slice of its   *)
(* category, and none of them knows what a truncated answer cut off.       *)
BulkHits(catalogue, groups, radius) ==
    {gp \in groups \X Circle(0, radius) : gp[2] \in catalogue[gp[1]]}
BulkBefore(a, b) ==
    \/ Abs(a[2]) < Abs(b[2])
    \/ Abs(a[2]) = Abs(b[2]) /\ a[2] < b[2]
Bulk(catalogue, groups, radius) ==
    LET hits == BulkHits(catalogue, groups, radius)
        kept == {a \in hits :
                    Cardinality({b \in hits : BulkBefore(b, a)}) < Limit}
    IN  [g \in groups |->
            Evidence(Query(g, 0, radius), {a[2] : a \in {b \in kept : b[1] = g}},
                     hits # kept)]
BulkInvented(groups, radius) ==
    [g \in groups |-> [Bulk(Fixture, groups, radius)[g]
                         EXCEPT !.synthetic = TRUE, !.fellBack = FellBack]]
(* A provider that is asked in bulk may be the caller's own, with or       *)
(* without a fallback; the fixture does not fail.                          *)
BulkSets(groups, radius) ==
    (IF request.provider = "fixture" THEN {}
                                     ELSE {Bulk(town.poi, groups, radius)})
    \cup (IF request.provider = "online" THEN {}
                                         ELSE {BulkInvented(groups, radius)})
MayFail == request.provider # "fixture"

LoadBulk ==
    /\ phase.market = "todo" /\ request.bulk
    /\ \/ market' \in BulkSets(Range(profile), Span) /\ MarketTo("broad")
       \/ MayFail /\ UNCHANGED market /\ MarketTo("blocked")
    /\ UNCHANGED tried
    /\ ScoringRest

(* The first query probes the provider: once it fell back, the others are  *)
(* answered by the cache or the fallback, without asking the network.      *)
LoadBalanced ==
    /\ phase.market = "todo" /\ ~request.bulk
    /\ \E kinds \in [Range(profile) ->
                        UNION {Kinds(ScopeQuery(g)) : g \in Range(profile)}] :
        /\ \A g \in Range(profile) : kinds[g] \in Kinds(ScopeQuery(g))
        /\ kinds[profile[1]] = "fixture" =>
               \A g \in Range(profile) : kinds[g] # "malformed"
        /\ IF \E g \in Range(profile) : kinds[g] = "malformed"
           THEN UNCHANGED market /\ MarketTo("blocked")
           ELSE /\ market' = [g \in Range(profile) |->
                                Answer(kinds[g], ScopeQuery(g))]
                /\ MarketTo("broad")
    /\ UNCHANGED tried
    /\ ScoringRest

(* A real answer cut at its own limit, with every category, is kept.       *)
Saturated(e) ==
    /\ ~e.synthetic /\ ~e.fellBack /\ e.truncated
    /\ Cardinality(e.at) = Limit /\ e.at # {}
Incomplete(e) ==
    e.fellBack \/ e.synthetic \/ e.truncated \/ e.missing \/ e.at = {}
Repairable(e) ==
    /\ Incomplete(e) /\ ~e.missing
    /\ \/ e.fellBack
       \/ e.truncated /\ ~Saturated(e)
       \/ ~e.synthetic /\ e.at = {}

(* Real answers of the tiles, with a real broad answer, become one set. It *)
(* is complete when every tile answered, none was cut, and no category is  *)
(* missing.                                                                *)
(* Mutant: a cut tile counts as covered.                                   *)
CoverageCompleteWhenAnswered(real, asked) ==
    Cardinality(real) = Cardinality(asked)
CoverageComplete(real, asked) ==
    /\ Cardinality(real) = Cardinality(asked)
    /\ \A e \in real : ~e.truncated
Merged(broad, real, asked) ==
    LET parts == real \cup (IF broad.synthetic THEN {} ELSE {broad})
        at == (UNION {e.at : e \in parts})
                 \cap Circle(broad.query.center, broad.query.radius)
    IN  [Evidence(broad.query, at,
                  ~CoverageComplete(real, asked) \/ at = {})
            EXCEPT !.stored = \E e \in parts : e.stored]

Repaired(g, kinds) ==
    LET asked == RepairQueries(g)
        real == {Answer(kinds[q], q) :
                    q \in {r \in asked : kinds[r] \in {"live", "stored"}}}
    IN  IF real = {} THEN market[g] ELSE Merged(market[g], real, asked)

NothingFound == \A g \in DOMAIN market : market[g].at = {}
WeakGroups == {g \in DOMAIN market : Repairable(market[g])}
AllFellBack == \A g \in DOMAIN market : market[g].fellBack

NoMarket ==
    /\ phase.market = "broad" /\ NothingFound
    /\ MarketTo("blocked")
    /\ UNCHANGED <<market, tried>>
    /\ ScoringRest

(* A whole outage is not amplified by asking for tiles.                    *)
SkipRepair ==
    /\ phase.market = "broad" /\ ~NothingFound
    /\ WeakGroups = {} \/ AllFellBack
    /\ MarketTo("scored")
    /\ UNCHANGED <<market, tried>>
    /\ ScoringRest

(* A tile that raises and one the fixture answers have both failed.        *)
RepairKinds(q) == {"failed"} \cup (Kinds(q) \cap {"live", "stored"})

Repair ==
    /\ phase.market = "broad" /\ ~NothingFound
    /\ WeakGroups # {} /\ ~AllFellBack
    /\ LET asked == UNION {RepairQueries(g) : g \in WeakGroups}
       IN  \E kinds \in [asked -> {"live", "stored", "failed"}] :
            /\ \A q \in asked : kinds[q] \in RepairKinds(q)
            /\ market' = [g \in DOMAIN market |->
                            IF g \in WeakGroups THEN Repaired(g, kinds)
                                                ELSE market[g]]
    /\ tried' = WeakGroups
    /\ MarketTo("scored")
    /\ ScoringRest

(* The categories that score nothing are searched within the bounds, in    *)
(* one query or in batches of which the first probes the provider; a batch *)
(* that raises is left out.                                                *)
ContextQuery(batch) == Query(batch, 0, Bound)
ContextKinds(batch) ==
    {"raised"} \cup (Kinds(ContextQuery(batch)) \ {"malformed", "unavailable"})
Batches(kinds) ==
    [b \in {c \in DOMAIN kinds : kinds[c] # "raised"} |->
        Answer(kinds[b], ContextQuery(b))]
ContextSets ==
    IF request.bulk
    THEN BulkSets(Range(Context), Bound)
         \cup (IF MayFail THEN {<<>>} ELSE {})
    ELSE {Batches(kinds) : kinds \in
            {k \in [Range(Context) -> UNION {ContextKinds(b) : b \in Range(Context)}] :
                /\ \A b \in Range(Context) : k[b] \in ContextKinds(b)
                /\ Context # <<>> /\ k[Head(Context)] = "fixture" =>
                       \A b \in Range(Context) : k[b] # "raised"}}

(* Records are listed by category, then by name.                           *)
Category(g) == CHOOSE i \in DOMAIN (profile \o Context) : (profile \o Context)[i] = g
ListedBefore(a, b) ==
    \/ Category(a[1]) < Category(b[1])
    \/ a[1] = b[1] /\ a[2] < b[2]

(* Every record within the bounds, once for each provider, as many as the  *)
(* response may hold. A cut set, or the cut itself, marks the layer.       *)
RangeLayer(sets) ==
    LET seen  == UNION {{<<g, p, sets[g].synthetic>> :
                            p \in sets[g].at \cap Sites} : g \in DOMAIN sets}
        shown == {r \in seen : Cardinality({x \in seen : ListedBefore(x, r)})
                                  < RangeLimit}
    IN  [at |-> shown,
         truncated |-> seen # shown \/ \E g \in DOMAIN sets : sets[g].truncated,
         real |-> \A g \in DOMAIN sets : ~sets[g].synthetic /\ ~sets[g].stored,
         lost |-> Range(Context) \ DOMAIN sets]

(* The layer is drawn from the scoring sets and the context batches.        *)
WithMarket(sets) ==
    [g \in DOMAIN market \cup DOMAIN sets |->
        IF g \in DOMAIN market THEN market[g] ELSE sets[g]]

LoadContext ==
    /\ phase.market = "scored"
    /\ \E sets \in ContextSets : range' = RangeLayer(WithMarket(sets))
    /\ MarketTo("done")
    /\ UNCHANGED <<market, tried>>
    /\ MarketRest

MarketEvidence ==
    LoadBulk \/ LoadBalanced \/ NoMarket \/ SkipRepair \/ Repair \/ LoadContext

-----------------------------------------------------------------------------
(* The join: ranking, snapshot, report.                                    *)

(* Records of the broad sets within reach of a site, synthetic or not.     *)
MarketScore(sets, s) ==
    Cardinality({gp \in (DOMAIN sets) \X Circle(s, Reach) :
                    gp[2] \in sets[gp[1]].at})
Better(sets, s, t) ==
    \/ MarketScore(sets, s) > MarketScore(sets, t)
    \/ MarketScore(sets, s) = MarketScore(sets, t) /\ s < t

(* The elements of a set, each after those that precede it.                *)
InOrder(S, precedes) ==
    [i \in 1 .. Cardinality(S) |->
        CHOOSE s \in S :
            Cardinality({t \in S : <<t, s>> \in precedes}) = i - 1]
ByScore(sets, sites) ==
    InOrder(sites, {st \in sites \X sites : Better(sets, st[1], st[2])})

(* Mutant: a site is compared with the last chosen one only.               *)
TooCloseToLast(s, chosen) ==
    chosen # <<>> /\ Abs(s - Last(chosen)) < Separation
TooClose(s, chosen) ==
    \E i \in DOMAIN chosen : Abs(s - chosen[i]) < Separation

Chosen(chosen, s) ==
    IF Len(chosen) >= MaxCandidates \/ TooClose(s, chosen)
    THEN chosen ELSE Append(chosen, s)
Diversified(sets, sites) == FoldLeft(Chosen, <<>>, ByScore(sets, sites))

RankDiversify ==
    /\ phase.land = "done" /\ phase.market = "done" /\ phase.graph = "gather"
    /\ ranked' = Diversified(market, land.pool)
    /\ phase' = [phase EXCEPT !.graph = "review"]
    /\ UNCHANGED <<request, town, profile, land, market, tried, range, report,
                   snapshot, analysis>>

(* Either branch failing fails the superstep, once both have ended.        *)
DiscoveryBlocked ==
    /\ phase.graph = "gather"
    /\ {phase.land, phase.market} \subseteq {"done", "blocked"}
    /\ "blocked" \in {phase.land, phase.market}
    /\ phase' = [phase EXCEPT !.graph = "blocked"]
    /\ UNCHANGED <<request, town, profile, land, market, tried, range, ranked,
                   report, snapshot, analysis>>

NoSnapshot == [state |-> "none", sites |-> {}, sets |-> <<>>]

SaveSnapshot ==
    /\ phase.graph = "review"
    /\ \/ /\ snapshot' = [state |-> "stored", sites |-> Range(ranked),
                          sets |-> market]
          /\ phase' = [phase EXCEPT !.graph = "saved"]
       \/ /\ phase' = [phase EXCEPT !.graph = "blocked"]
          /\ UNCHANGED snapshot
    /\ UNCHANGED <<request, town, profile, land, market, tried, range, ranked,
                   report, analysis>>

AssembleReport ==
    /\ phase.graph = "saved"
    /\ report' = TRUE
    /\ phase' = [phase EXCEPT !.graph = "reported"]
    /\ UNCHANGED <<request, town, profile, land, market, tried, range, ranked,
                   snapshot, analysis>>

(* Between discovery and analysis: the snapshot expires, or a new version  *)
(* of the profile is deployed, with groups the snapshot does not have.     *)
Expire ==
    /\ snapshot.state = "stored" /\ phase.graph = "reported"
    /\ snapshot' = [NoSnapshot EXCEPT !.state = "expired"]
    /\ UNCHANGED <<request, town, profile, land, market, phase, tried, range,
                   ranked, report, analysis>>

Deploy ==
    /\ report /\ analysis.state = "none"
    /\ LateGroups # <<>> /\ Len(profile) = Len(Groups)
    /\ profile' = Groups \o LateGroups
    /\ UNCHANGED <<request, town, land, market, phase, tried, range, ranked,
                   report, snapshot, analysis>>

-----------------------------------------------------------------------------
(* The analysis of some candidates, on the evidence of the snapshot.       *)

NoAnalysis == [state |-> "none", sites |-> {}, evidence |-> <<>>,
               refused |-> {}]

LocalQueries(sites) ==
    {Query(g, s, Reach) : g \in Range(profile), s \in sites}

InSnapshot(q) == q.group \in DOMAIN snapshot.sets

(* The circle of a query lies inside the radius up to which a truncated    *)
(* set retains every record, if the set is its nearest records.            *)
RetainedRadius(broad) ==
    CHOOSE r \in {Abs(p - broad.query.center) : p \in broad.at} :
        \A p \in broad.at : Abs(p - broad.query.center) <= r
(* Mutant: the retained radius itself counts as covered.                   *)
TruncatedCoversUpTo(broad, q) ==
    /\ ~broad.synthetic /\ ~broad.fellBack
    /\ Cardinality(broad.at) = Limit
    /\ Abs(broad.query.center - q.center) + q.radius <= RetainedRadius(broad)
TruncatedCovers(broad, q) ==
    /\ ~broad.synthetic /\ ~broad.fellBack
    /\ Cardinality(broad.at) = Limit
    /\ Abs(broad.query.center - q.center) + q.radius < RetainedRadius(broad)

NeedsSupplement(q) ==
    \/ ~InSnapshot(q)
    \/ LET broad == snapshot.sets[q.group]
       IN  \/ broad.synthetic \/ broad.fellBack
           \/ broad.truncated /\ ~TruncatedCovers(broad, q)

(* The snapshot's records within the circle of a query.                    *)
Slice(q, error) ==
    LET broad == snapshot.sets[q.group]
        hits == broad.at \cap Circle(q.center, q.radius)
        kept == Nearest(hits, q.center)
    IN  [broad EXCEPT !.query = q, !.at = kept,
            !.truncated = \/ broad.truncated /\ ~TruncatedCovers(broad, q)
                          \/ hits # kept,
            !.error = error, !.reused = TRUE]

(* The candidates are asked for in the order of the request, each for      *)
(* every group of the profile.                                             *)
Orders(sites) == Injection(sites, 1 .. Cardinality(sites))
AskedAt(q, turn) ==
    (turn[q.center] - 1) * Len(profile)
        + (CHOOSE i \in DOMAIN profile : profile[i] = q.group)

(* Whole groups are supplemented, larger cohorts first, then those asked   *)
(* for first, as long as they fit; groups the snapshot lacks come before   *)
(* them, whatever they cost.                                               *)
Cohort(weak, g) == {q \in weak : q.group = g}
Larger(weak, turn, g, h) ==
    LET size(k) == Cardinality(Cohort(weak, k))
        first(k) == Min({AskedAt(q, turn) : q \in Cohort(weak, k)})
    IN  \/ size(g) > size(h)
        \/ size(g) = size(h) /\ first(g) < first(h)
Mandatory(weak) == {q \in weak : ~InSnapshot(q)}
Left(weak) ==
    IF Cardinality(Mandatory(weak)) >= Budget THEN 0
    ELSE Budget - Cardinality(Mandatory(weak))
Affordable(weak, turn) ==
    LET groups == {q.group : q \in weak \ Mandatory(weak)}
        larger == InOrder(groups, {gh \in groups \X groups :
                                      Larger(weak, turn, gh[1], gh[2])})
    IN  FoldLeft(LAMBDA chosen, g :
                    IF Cardinality(chosen \cup Cohort(weak, g)) <= Left(weak)
                    THEN chosen \cup Cohort(weak, g) ELSE chosen,
                 {}, larger)
(* Mutant: the budget is spent query by query.                             *)
SelectedOneByOne(weak, turn) ==
    LET rest == SetToSeq(weak \ Mandatory(weak))
    IN  Mandatory(weak)
        \cup {rest[i] : i \in {j \in DOMAIN rest : j <= Left(weak)}}
Selected(weak, turn) == Mandatory(weak) \cup Affordable(weak, turn)

(* What a supplement leaves behind: a live answer replaces the slice, a    *)
(* fixture or an error does not; a group the snapshot lacks has no slice.  *)
Supplemented(q, kind) ==
    IF kind \in {"live", "stored"}
    THEN Answer(kind, q)
    ELSE IF InSnapshot(q) THEN Slice(q, "failed")
    ELSE [Invented(q) EXCEPT !.error = "failed"]

AnalysisRefused(sites) ==
    /\ snapshot.state # "stored" \/ ~(sites \subseteq snapshot.sites)
    /\ analysis' = [NoAnalysis EXCEPT !.state = "refused", !.sites = sites]

AnalysisRuns(sites) ==
    LET asked == LocalQueries(sites)
        weak == {q \in asked : NeedsSupplement(q)}
    IN  /\ snapshot.state = "stored" /\ sites \subseteq snapshot.sites
        /\ \E live \in {Selected(weak, turn) : turn \in Orders(sites)} :
           \E kinds \in [live -> {"live", "stored", "fixture", "raised"}] :
            /\ \A q \in live :
                 /\ kinds[q] = "raised" => MayFail
                 /\ kinds[q] # "raised" => kinds[q] \in Kinds(q)
            /\ analysis' =
                 IF \E q \in live : kinds[q] = "raised" /\ ~InSnapshot(q)
                 THEN [NoAnalysis EXCEPT !.state = "blocked", !.sites = sites]
                 ELSE [state |-> "done", sites |-> sites,
                       refused |-> weak \ live,
                       evidence |-> [q \in asked |->
                            IF q \in live THEN Supplemented(q, kinds[q])
                            ELSE Slice(q, IF q \in weak THEN "budget"
                                                        ELSE "none")]]

Analyse ==
    /\ report /\ analysis.state = "none"
    /\ \E sites \in SUBSET Sites :
        /\ sites # {} /\ Cardinality(sites) <= MaxCandidates
        /\ AnalysisRefused(sites) \/ AnalysisRuns(sites)
    /\ UNCHANGED <<request, town, profile, land, market, phase, tried, range,
                   ranked, report, snapshot>>

-----------------------------------------------------------------------------
Init ==
    /\ request \in [mode : FallbackModes, bulk : BOOLEAN,
                    provider : Providers]
    /\ request.provider = "fixture" => request.bulk
    /\ town \in [poi : Towns, land : Cadastres, osm : Observations]
    /\ profile = Groups
    /\ land = NoLand
    /\ market = <<>>
    /\ phase = [land |-> "todo", market |-> "todo", graph |-> "gather"]
    /\ tried = {}
    /\ range = NoRange
    /\ ranked = <<>>
    /\ report = FALSE
    /\ snapshot = NoSnapshot
    /\ analysis = NoAnalysis

Next ==
    \/ LandUseGate \/ MarketEvidence
    \/ RankDiversify \/ DiscoveryBlocked \/ SaveSnapshot \/ AssembleReport
    \/ Expire \/ Deploy \/ Analyse

Spec == Init /\ [][Next]_vars

-----------------------------------------------------------------------------
(* Properties.                                                             *)

(* Ranked candidates stand apart from each other, the better one first,    *)
(* and a site that was left out is too close to a better chosen one or the *)
(* list is full (_rank_and_diversify).                                     *)
SelectedAreSpread ==
    phase.graph \in {"review", "saved", "reported"} =>
        /\ \A i, j \in DOMAIN ranked : i < j =>
              /\ Abs(ranked[i] - ranked[j]) >= Separation
              /\ Better(market, ranked[i], ranked[j])
        /\ \A s \in land.pool \ Range(ranked) :
              \/ Len(ranked) = MaxCandidates
              \/ \E i \in DOMAIN ranked :
                    /\ Better(market, ranked[i], s)
                    /\ Abs(ranked[i] - s) < Separation

(* A report that allows formal analysis lists parcels of the one readable  *)
(* registered layer which are not excluded, and strict mode reports        *)
(* nothing else (_load_candidate_pool).                                    *)
FormalNeedsRegister ==
    report =>
        /\ request.mode = "strict" => Formal(land)
        /\ Formal(land) =>
              /\ town.land.layers = 1 /\ town.land.readable
              /\ \A s \in Range(ranked) :
                    town.land.suits[s] \in {"allowed", "review_required"}

Claims(e) == ~e.synthetic /\ ~e.missing /\ ~e.truncated /\ ~e.stored

(* Scoring evidence that claims to be real and complete, and was not read  *)
(* back from the database, holds every POI within reach of the bounds,     *)
(* repaired or not (_merge_repaired_scoring_group), and a real range layer *)
(* that is not marked and lost no batch shows every POI within the bounds. *)
CompleteMeansAll ==
    /\ \A g \in DOMAIN market :
          Claims(market[g]) => market[g].at = Found(town.poi, ScopeQuery(g))
    /\ range.real /\ ~range.truncated /\ range.lost = {} =>
          \A g \in DOMAIN market \cup Range(Context) :
              \A p \in Found(town.poi, Query(g, 0, Bound)) : <<g, p, FALSE>> \in range.at

(* A range layer that is not marked has lost no batch. The code does not   *)
(* keep this: only a warning says that a batch is missing.                 *)
UnmarkedRangeIsWhole ==
    phase.market = "done" /\ ~range.truncated => range.lost = {}

HasAll(e) == Claims(e) => e.at = Found(town.poi, e.query)

(* Evidence of an analysis that claims to be real and complete holds every *)
(* POI of its circle, when its group was never repaired: a slice of the    *)
(* nearest records, or a supplement (_truncated_snapshot_covers_query).    *)
SlicesAreHonest ==
    \A q \in DOMAIN analysis.evidence :
        q.group \notin tried => HasAll(analysis.evidence[q])

(* The same of every group, repaired ones included: the docstring's claim  *)
(* that a covered circle lies inside the retained nearest-record radius.   *)
RepairedSlicesAreHonest ==
    \A q \in DOMAIN analysis.evidence : HasAll(analysis.evidence[q])

(* Two candidates that both need a supplement for a group are treated      *)
(* alike: both are asked or both are refused for the budget (search_many). *)
CohortsAreComparable ==
    \A q, r \in DOMAIN analysis.evidence :
        /\ q.group = r.group /\ q \in analysis.refused
        => analysis.evidence[r].reused
=============================================================================
