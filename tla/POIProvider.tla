----------------------------- MODULE POIProvider -----------------------------
(***************************************************************************)
(* The chain of adapters that answers a POI query, as                      *)
(* build_configured_poi_provider assembles it, shared by the threads that  *)
(* search concurrently:                                                    *)
(*                                                                         *)
(*   cache > (partition > cache) > persist > (fixture) > PostGIS recovery  *)
(*         > retries and circuit breaker > rate limiter > HTTP             *)
(*                                                                         *)
(* A query is the set of categories asked for around one place.  An answer *)
(* is its provenance: whether it is live, recovered or synthetic, and the  *)
(* categories it reports as unavailable; the records are left out.  Time   *)
(* is what the limiter and the breaker compare: how long is left.          *)
(***************************************************************************)
EXTENDS Integers, FiniteSets

CONSTANTS
    Threads,        \* the threads that search
    Categories,
    Modes,          \* the configurations of the chain and their clients
    MaxAttempts,    \* max_attempts of the breaker
    Threshold,      \* failure_threshold of the breaker
    Recovery,       \* recovery_timeout_seconds, in ticks
    Interval,       \* of the rate limiter, in ticks
    Requests,       \* endpoints of Overpass, or pages of an Amap search
    MaxIdle,        \* bound: how far a permit may lie in the past
    MaxFaults       \* bound: how often the provider or the database fails

(* Of the cached adapter, search and search_fallback; and preview_poi.     *)
Operations == {"search", "fallback", "preview"}

ASSUME ConstantsAssumption ==
    /\ Modes \subseteq [online   : {"amap", "overpass"},
                        fallback : BOOLEAN,
                        queries  : SUBSET ((SUBSET Categories) \ {{}}),
                        uses     : [Threads -> SUBSET Operations]]
    /\ {MaxAttempts, Threshold, Recovery, Interval, Requests} \subseteq Nat \ {0}
    /\ {MaxIdle, MaxFaults} \subseteq Nat

VARIABLES
    mode,           \* the configuration
    upstream,       \* the provider: "up", "down", or "bad" payloads
    db,             \* PostGIS: "up" or "down"
    cache,          \* Redis: the workflow's cache, by query
    previews,       \* Redis: the cache of the preview endpoint
    rows,           \* PostGIS: the categories whose records are stored
    failures,       \* breaker: consecutive failures, counted to Threshold
    openFor,        \* breaker: _open_until - now, 0 when closed
    wait,           \* limiter: _next_allowed_at - now
    call,           \* the search of each thread
    faults,
    fetched,        \* history: categories the provider has delivered
    gap,            \* history: ticks since a permit, counted to Interval
    calm            \* history: searches that met no fault

breaker == <<failures, openFor>>
stores  == <<cache, previews, rows>>
world   == <<mode, upstream, db, faults>>
history == <<fetched, gap, calm>>
vars    == <<world, stores, breaker, wait, call, history>>

-----------------------------------------------------------------------------

Keys == (SUBSET Categories) \ {{}}

(* CategoryPartitioningPOIAdapter is only put around Overpass without the  *)
(* fixture.                                                                *)
Partitioned == mode.online = "overpass" /\ ~mode.fallback

(* POISourceMeta: provider and dataset, unavailable_categories.            *)
Answers == [from : {"live", "postgis", "fixture"}, missing : SUBSET Categories]
Nothing == [from |-> "none", missing |-> {}]
Whole(from) == [from |-> from, missing |-> {}]

(* FixturePOIAdapter, marked as the fallback of the provider.              *)
Synthetic == Whole("fixture")

(* fallback_from is set, or a partition failed.                            *)
Degraded(answer) == answer.from = "fixture" \/ answer.missing # {}

Search == [pc      : {"idle", "refresh", "preview", "cache", "part", "inner",
                      "gate", "pace", "http", "recover", "persist", "store",
                      "merge", "outer", "keep", "done"},
           op      : Operations,
           query   : Keys,
           part    : SUBSET Categories,         \* of the partition in hand
           todo    : SUBSET Categories,
           got     : SUBSET [part : Keys, from : {"live", "postgis"}],
           attempt : 0..MaxAttempts,
           left    : 0..Requests,
           answer  : Answers \cup {Nothing},
           error   : {"none", "unavailable", "malformed", "mixed", "database"}]

Fresh(op, q) == [pc |-> "cache", op |-> op, query |-> q, part |-> {},
                 todo |-> {}, got |-> {}, attempt |-> 0, left |-> 0,
                 answer |-> Nothing, error |-> "none"]

TypeOK ==
    /\ mode \in Modes
    /\ upstream \in {"up", "down", "bad"}
    /\ db \in {"up", "down"}
    /\ cache \in [Keys -> Answers \cup {Nothing}]
    /\ previews \in [Keys -> Answers \cup {Nothing}]
    /\ rows \subseteq Categories
    /\ failures \in 0..Threshold
    /\ openFor \in 0..Recovery
    /\ wait \in -MaxIdle..Interval
    /\ call \in [Threads -> Search]
    /\ faults \in 0..MaxFaults
    /\ fetched \subseteq Categories
    /\ gap \in 0..Interval
    /\ calm \subseteq Threads

Init ==
    /\ mode \in Modes
    /\ upstream = "up"
    /\ db = "up"
    /\ cache = [q \in Keys |-> Nothing]
    /\ previews = [q \in Keys |-> Nothing]
    /\ rows = {}
    /\ failures = 0
    /\ openFor = 0
    /\ wait = 0
    /\ call \in [Threads -> {[Fresh("search", q) EXCEPT !.pc = "idle"] : q \in mode.queries}]
    /\ faults = 0
    /\ fetched = {}
    /\ gap = Interval
    /\ calm = {}

-----------------------------------------------------------------------------
(* The search of a thread.                                                 *)

Step(t, c) == call' = [call EXCEPT ![t] = c]

At(t, pc) == call[t].pc = pc

(* What a search returns: straight to its caller, or to the preview        *)
(* endpoint, which keeps it first.                                         *)
Return(t, answer) ==
    Step(t, [call[t] EXCEPT !.answer = answer,
                            !.pc = IF @ \in {"preview", "keep"} \/ call[t].op # "preview"
                                   THEN "done" ELSE "keep"])

Raise(t, error) == Step(t, [call[t] EXCEPT !.pc = "done", !.error = error])

Start(t) ==
    /\ call[t].pc \in {"idle", "done"}
    /\ \E q \in mode.queries, op \in mode.uses[t] \ {"preview"} : Step(t, Fresh(op, q))
    /\ calm' = IF upstream = "up" /\ db = "up" /\ openFor = 0
               THEN calm \cup {t} ELSE calm \ {t}
    /\ UNCHANGED <<world, stores, breaker, wait, fetched, gap>>

(* preview_poi: with refresh its own key is deleted first.                 *)
Preview(t) ==
    /\ call[t].pc \in {"idle", "done"} /\ "preview" \in mode.uses[t]
    /\ \E q \in mode.queries, pc \in {"refresh", "preview"} :
          Step(t, [Fresh("preview", q) EXCEPT !.pc = pc])
    /\ calm' = calm \ {t}
    /\ UNCHANGED <<world, stores, breaker, wait, fetched, gap>>

Refresh(t) ==
    /\ At(t, "refresh")
    /\ previews' = [previews EXCEPT ![call[t].query] = Nothing]
    /\ Step(t, [call[t] EXCEPT !.pc = "preview"])
    /\ UNCHANGED <<world, cache, rows, breaker, wait, history>>

ReadPreview(t) ==
    /\ At(t, "preview")
    /\ LET kept == previews[call[t].query] IN
          IF kept # Nothing THEN Return(t, kept)
          ELSE Step(t, [call[t] EXCEPT !.pc = "cache"])
    /\ UNCHANGED <<world, stores, breaker, wait, history>>

KeepPreview(t) ==
    /\ At(t, "keep")
    /\ previews' = [previews EXCEPT ![call[t].query] = call[t].answer]
    /\ Return(t, call[t].answer)
    /\ UNCHANGED <<world, cache, rows, breaker, wait, history>>

(* CachedPOIAdapter, the outermost.  A miss descends to the next adapter;  *)
(* search_fallback skips the provider and asks the fixture, where there is *)
(* one, and nothing of it is kept.                                         *)
ReadCache(t) ==
    /\ At(t, "cache")
    /\ LET c == call[t] IN
       LET kept == cache[c.query] IN
          CASE kept # Nothing                        -> Return(t, kept)
            [] kept = Nothing /\ c.op = "fallback" /\ mode.fallback
                                                     -> Return(t, Synthetic)
            [] kept = Nothing /\ ~(c.op = "fallback" /\ mode.fallback)
               -> Step(t, IF Partitioned
                          THEN [c EXCEPT !.pc = "part", !.todo = c.query]
                          ELSE [c EXCEPT !.pc = "gate", !.part = c.query])
    /\ UNCHANGED <<world, stores, breaker, wait, history>>

(* The next category, or the whole query if it has only one; an inner      *)
(* cache is asked first.                                                   *)
NextPart(t) ==
    /\ At(t, "part")
    /\ IF call[t].todo = {} THEN Step(t, [call[t] EXCEPT !.pc = "merge"])
       ELSE \E k \in call[t].todo :
               Step(t, [call[t] EXCEPT !.pc = "inner", !.part = {k}, !.todo = @ \ {k}])
    /\ UNCHANGED <<world, stores, breaker, wait, history>>

Collected(c, from) == [c EXCEPT !.pc = "part", !.got = @ \cup {[part |-> c.part, from |-> from]}]

ReadInner(t) ==
    /\ At(t, "inner")
    /\ LET kept == cache[call[t].part] IN
          Step(t, IF kept # Nothing THEN Collected(call[t], kept.from)
                  ELSE [call[t] EXCEPT !.pc = "gate"])
    /\ UNCHANGED <<world, stores, breaker, wait, history>>

(* RetryingCircuitBreakerPOIAdapter.search: the circuit is looked at once. *)
Gate(t) ==
    /\ At(t, "gate")
    /\ IF openFor > 0
       THEN Step(t, [call[t] EXCEPT !.pc = "recover"]) /\ calm' = calm \ {t}
       ELSE Step(t, [call[t] EXCEPT !.pc = "pace", !.attempt = 1, !.left = Requests])
            /\ UNCHANGED calm
    /\ UNCHANGED <<world, stores, breaker, wait, fetched, gap>>

(* Mutant: the time already passed counts towards the next permits.        *)
NextAllowedCredit == wait + Interval

(* FixedIntervalRateLimiter.acquire: the lock is held through the sleep.   *)
NextAllowed == IF wait > 0 THEN wait + Interval ELSE Interval

Pace(t) ==
    /\ At(t, "pace")
    /\ wait <= 0
    /\ wait' = NextAllowed
    /\ gap' = 0
    /\ Step(t, [call[t] EXCEPT !.pc = "http", !.left = @ - 1])
    /\ UNCHANGED <<world, stores, breaker, fetched, calm>>

(* _record_success and _record_failure.                                    *)
RecordSuccess == failures' = 0 /\ openFor' = 0

RecordFailure ==
    /\ failures' = IF failures < Threshold THEN failures + 1 ELSE failures
    /\ openFor' = IF failures + 1 >= Threshold THEN Recovery ELSE openFor

(* An Amap search may go on while its page budget lasts; an Overpass       *)
(* search ends with the first of its endpoints that answers.               *)
MorePages(c) == mode.online = "amap" /\ c.left > 0

MoreEndpoints(c) == mode.online = "overpass" /\ c.left > 0

Delivered(t) ==
    /\ At(t, "http")
    /\ upstream = "up"
    /\ \/ /\ MorePages(call[t])
          /\ Step(t, [call[t] EXCEPT !.pc = "pace"])
          /\ UNCHANGED <<breaker, fetched>>
       \/ /\ RecordSuccess
          /\ fetched' = fetched \cup call[t].part
          /\ Step(t, [call[t] EXCEPT !.pc = "persist", !.answer = Whole("live")])
    /\ UNCHANGED <<world, stores, wait, gap, calm>>

(* Mutant: attempts are not counted.                                       *)
RetryForEver(c) == [c EXCEPT !.pc = "pace", !.left = Requests]

(* POIAvailabilityError: the next endpoint, the next attempt, or none.     *)
MoreAttempts(c) == c.attempt < MaxAttempts

Retry(c) == [c EXCEPT !.pc = "pace", !.attempt = @ + 1, !.left = Requests]

Unavailable(t) ==
    /\ At(t, "http")
    /\ upstream = "down"
    /\ LET c == call[t] IN
          \/ /\ MoreEndpoints(c)
             /\ Step(t, [c EXCEPT !.pc = "pace"])
             /\ UNCHANGED breaker
          \/ /\ ~MoreEndpoints(c)
             /\ IF MoreAttempts(c)
                THEN Step(t, Retry(c)) /\ UNCHANGED breaker
                ELSE Step(t, [c EXCEPT !.pc = "recover"]) /\ RecordFailure
    /\ UNCHANGED <<world, stores, wait, history>>

(* POIResponseError passes every adapter, and the breaker does not count.  *)
Malformed(t) ==
    /\ At(t, "http")
    /\ upstream = "bad"
    /\ Raise(t, "malformed")
    /\ UNCHANGED <<world, stores, breaker, wait, history>>

(* PostGIS answers with the stored records of any of the categories; no    *)
(* record, or no database, leaves the provider's error.                    *)
Recoverable(c) == db = "up" /\ rows \cap c.part # {}

(* PostGISPOIRecoveryAdapter, then FallbackPOIAdapter.  A category that    *)
(* cannot be had is a failed partition, or the failure of the search.      *)
Recover(t) ==
    /\ At(t, "recover")
    /\ LET c == call[t] IN
          CASE Recoverable(c) ->
                  Step(t, [c EXCEPT !.pc = "persist", !.answer = Whole("postgis")])
            [] ~Recoverable(c) /\ mode.fallback ->
                  Step(t, [c EXCEPT !.pc = "persist", !.answer = Synthetic])
            [] ~Recoverable(c) /\ Partitioned ->
                  Step(t, [c EXCEPT !.pc = "part"])
            [] OTHER -> Raise(t, "unavailable")
    /\ UNCHANGED <<world, stores, breaker, wait, history>>

(* Mutant: synthetic answers are saved too.                                *)
SavedAlways(c) == c.part

(* The sink saves no synthetic records.                                    *)
Saved(c) == CASE c.answer.from = "live"    -> c.part
              [] c.answer.from = "postgis" -> c.part \cap rows
              [] OTHER                     -> {}

(* PersistingPOIAdapter: a database error is the error of the search.      *)
Persist(t) ==
    /\ At(t, "persist")
    /\ IF db = "up" \/ Saved(call[t]) = {}
       THEN /\ rows' = rows \cup Saved(call[t])
            /\ Step(t, [call[t] EXCEPT !.pc = "store"])
       ELSE Raise(t, "database") /\ UNCHANGED rows
    /\ UNCHANGED <<world, cache, previews, breaker, wait, history>>

(* CachedPOIAdapter keeps what is not degraded; its search_fallback keeps  *)
(* nothing.                                                                *)
Kept(q, answer) == IF Degraded(answer) THEN cache
                   ELSE [cache EXCEPT ![q] = answer]

Store(t) ==
    /\ At(t, "store")
    /\ cache' = IF call[t].op = "fallback" /\ ~Partitioned THEN cache
                ELSE Kept(call[t].part, call[t].answer)
    /\ IF Partitioned THEN Step(t, Collected(call[t], call[t].answer.from))
       ELSE Return(t, call[t].answer)
    /\ UNCHANGED <<world, previews, rows, breaker, wait, history>>

(* CategoryPartitioningPOIAdapter: no partition, partitions of different   *)
(* datasets, or their union.  A query of one category is not partitioned.  *)
Merge(t) ==
    /\ At(t, "merge")
    /\ LET c       == call[t]
           sources == {g.from : g \in c.got}
           covered == UNION {g.part : g \in c.got}
       IN CASE sources = {}             -> Raise(t, "unavailable")
            [] Cardinality(sources) > 1 -> Raise(t, "mixed")
            [] OTHER -> Step(t, [c EXCEPT !.pc = "outer",
                                  !.answer = [from |-> CHOOSE s \in sources : TRUE,
                                              missing |-> c.query \ covered]])
    /\ UNCHANGED <<world, stores, breaker, wait, history>>

StoreOuter(t) ==
    /\ At(t, "outer")
    /\ cache' = Kept(call[t].query, call[t].answer)
    /\ Return(t, call[t].answer)
    /\ UNCHANGED <<world, previews, rows, breaker, wait, history>>

-----------------------------------------------------------------------------
(* The provider, the database, the keys' TTL and the clock.                *)

UpstreamFails ==
    /\ upstream = "up" /\ faults < MaxFaults
    /\ upstream' \in {"down", "bad"}
    /\ faults' = faults + 1
    /\ calm' = {}
    /\ UNCHANGED <<mode, db, stores, breaker, wait, call, fetched, gap>>

UpstreamRecovers ==
    /\ upstream # "up"
    /\ upstream' = "up"
    /\ UNCHANGED <<mode, db, faults, stores, breaker, wait, call, history>>

DatabaseFails ==
    /\ db = "up" /\ faults < MaxFaults
    /\ db' = "down"
    /\ faults' = faults + 1
    /\ calm' = {}
    /\ UNCHANGED <<mode, upstream, stores, breaker, wait, call, fetched, gap>>

DatabaseRecovers ==
    /\ db = "down"
    /\ db' = "up"
    /\ UNCHANGED <<mode, upstream, faults, stores, breaker, wait, call, history>>

KeyExpires ==
    /\ \E q \in Keys :
          \/ /\ cache[q] # Nothing
             /\ cache' = [cache EXCEPT ![q] = Nothing]
             /\ UNCHANGED previews
          \/ /\ previews[q] # Nothing
             /\ previews' = [previews EXCEPT ![q] = Nothing]
             /\ UNCHANGED cache
    /\ UNCHANGED <<world, rows, breaker, wait, call, history>>

Tick ==
    /\ openFor > 0 \/ wait > -MaxIdle \/ gap < Interval
    /\ openFor' = IF openFor > 0 THEN openFor - 1 ELSE 0
    /\ wait' = IF wait > -MaxIdle THEN wait - 1 ELSE wait
    /\ gap' = IF gap < Interval THEN gap + 1 ELSE gap
    /\ UNCHANGED <<world, stores, failures, call, fetched, calm>>

Proceed(t) ==
    \/ Refresh(t) \/ ReadPreview(t) \/ KeepPreview(t)
    \/ ReadCache(t) \/ NextPart(t) \/ ReadInner(t) \/ Gate(t)
    \/ Delivered(t) \/ Unavailable(t) \/ Malformed(t)
    \/ Recover(t) \/ Persist(t) \/ Store(t) \/ Merge(t) \/ StoreOuter(t)

Next ==
    \/ \E t \in Threads : Start(t) \/ Preview(t) \/ Pace(t) \/ Proceed(t)
    \/ UpstreamFails \/ UpstreamRecovers \/ DatabaseFails \/ DatabaseRecovers
    \/ KeyExpires \/ Tick

Spec == Init /\ [][Next]_vars

(* Threads run, time passes, and a thread that waits for the limiter's     *)
(* lock gets it sometime; nobody has to search, and nothing has to recover.*)
Fairness ==
    /\ \A t \in Threads : WF_vars(Proceed(t)) /\ SF_vars(Pace(t))
    /\ WF_vars(Tick)

FairSpec == Spec /\ Fairness

-----------------------------------------------------------------------------

(* What PostGIS holds was delivered by the provider, so that a recovered   *)
(* answer is never built on synthetic records: PostGISPOIRecoveryAdapter   *)
(* "never creates synthetic records and only returns rows previously       *)
(* written by the live provider", across any fallbacks in between.         *)
RecoveredIsReal == rows \subseteq fetched

(* A search that met no fault from its start to its end is answered with   *)
(* the provider's own data, whatever other searches left in the caches and *)
(* in the breaker: keeping a degraded answer would "suppress upstream      *)
(* recovery".                                                              *)
CalmIsLive ==
    \A t \in calm :
        call[t].pc = "done" /\ call[t].op = "search" /\ call[t].error = "none"
            => ~Degraded(call[t].answer)

(* FixedIntervalRateLimiter paces all threads: between two permits passes  *)
(* an interval, also after the limiter has been idle.                      *)
PermitsAreSpaced ==
    [][(\E t \in Threads : call[t].pc = "pace" /\ call'[t].pc = "http")
          => gap = Interval]_vars

(* Retries are bounded and nobody waits for ever: every search is answered *)
(* or fails, through outages of the provider, the database and the circuit *)
(* and whatever the other threads do with the limiter.                     *)
SearchEnds ==
    \A t \in Threads : (call[t].pc \notin {"idle", "done"}) ~> (call[t].pc = "done")

(* "Query expensive providers per category and retain auditable partial    *)
(* data": a search that met no fault does not fail for what earlier        *)
(* searches left behind.                                                   *)
CalmIsAnswered ==
    \A t \in calm : call[t].pc = "done" => call[t].error = "none"

=============================================================================
