--------------------------- MODULE MCPOIProvider ---------------------------
(* Small instances of POIProvider for TLC.                                 *)
EXTENDS POIProvider, TLC

CONSTANTS t1, t2, metro, bus

TwoThreads    == {t1, t2}
TwoCategories == {metro, bus}

(* Amap with the fixture behind it: a worker and an API thread compete for *)
(* the breaker, the limiter and the caches of one query.                   *)
WithFixture == [online |-> "amap", fallback |-> TRUE, queries |-> {{metro}},
                uses |-> (t1 :> {"search"}) @@ (t2 :> {"fallback", "preview"})]

(* Overpass without it: one client, whose query has two partitions.        *)
WithPartitions == [online |-> "overpass", fallback |-> FALSE,
                   queries |-> {TwoCategories},
                   uses |-> (t1 :> Operations) @@ (t2 :> {})]

BothModes  == {WithFixture, WithPartitions}
Partitions == {WithPartitions}

=============================================================================
