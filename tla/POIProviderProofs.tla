-------------------------- MODULE POIProviderProofs --------------------------
(***************************************************************************)
(* Proofs about POIProvider, for any number of threads and categories, any *)
(* configurations, thresholds, intervals and faults.                       *)
(***************************************************************************)
EXTENDS POIProvider, TLAPS

PCs == {"idle", "refresh", "preview", "cache", "part", "inner", "gate", "pace",
        "http", "recover", "persist", "store", "merge", "outer", "keep", "done"}

(* A partition, or the whole query, is being asked for.                    *)
Asking == {"inner", "gate", "pace", "http", "recover", "persist", "store"}

(* A search on its way knows what it asks for, has requests left when it   *)
(* is to be paced, and holds an answer once it is to be kept: a live one   *)
(* for categories that were delivered, a synthetic one only where there is *)
(* a fixture.                                                              *)
Held(c, f) ==
    /\ c.pc \in Asking => c.part # {}
    /\ c.pc = "pace" => c.left > 0
    /\ c.pc \in {"persist", "store"} =>
          c.answer \in Answers /\ (c.answer.from = "fixture" => mode.fallback)
    /\ c.pc = "persist" /\ c.answer.from = "live" => c.part \subseteq f

Covered(c) == UNION {g.part : g \in c.got}

(* A search that has met no fault holds no degraded answer, and has not    *)
(* lost a category of its query.                                           *)
Unspoilt(c) ==
    c.op = "search" =>
        /\ c.pc \notin {"recover", "refresh", "preview", "keep"}
        /\ c.pc \in {"persist", "store", "outer"} => ~Degraded(c.answer)
        /\ c.pc = "done" /\ c.error = "none" => ~Degraded(c.answer)
        /\ c.pc \in {"part", "merge"} => c.query \subseteq c.todo \cup Covered(c)
        /\ c.pc = "merge" => c.todo = {}
        /\ c.pc = "inner" \/ (Partitioned /\ c.pc \in Asking)
              => c.query \subseteq c.todo \cup Covered(c) \cup c.part

Calls ==
    \A t \in Threads : /\ call[t] \in Search /\ Held(call[t], fetched)
                       /\ t \in calm => Unspoilt(call[t])

(* Since the last permit, the limiter waits for what the interval has left.*)
Spaced == gap = Interval \/ gap + wait >= Interval

(* The state that the searches share.                                      *)
SharedOK ==
    /\ mode \in Modes /\ upstream \in {"up", "down", "bad"} /\ db \in {"up", "down"}
    /\ cache \in [Keys -> Answers \cup {Nothing}]
    /\ previews \in [Keys -> Answers \cup {Nothing}]
    /\ rows \subseteq Categories /\ fetched \subseteq Categories
    /\ failures \in 0..Threshold /\ openFor \in 0..Recovery
    /\ wait \in -MaxIdle..Interval /\ gap \in 0..Interval
    /\ faults \in 0..MaxFaults /\ calm \subseteq Threads

Shared ==
    /\ SharedOK /\ Spaced /\ RecoveredIsReal
    /\ \A q \in Keys : ~Degraded(cache[q])
    /\ calm # {} => upstream = "up" /\ db = "up"

IInv ==
    /\ Shared
    /\ call \in [Threads -> Search]
    /\ Calls

-----------------------------------------------------------------------------
(* The constants.                                                          *)
LEMMA Numbers ==
    /\ MaxAttempts \in Nat /\ MaxAttempts > 0 /\ Threshold \in Nat /\ Threshold > 0
    /\ Recovery \in Nat /\ Recovery > 0 /\ Interval \in Nat /\ Interval > 0
    /\ Requests \in Nat /\ Requests > 0 /\ MaxIdle \in Nat /\ MaxFaults \in Nat
  BY ConstantsAssumption

LEMMA ModeTyped ==
    ASSUME mode \in Modes
    PROVE  /\ mode.online \in {"amap", "overpass"} /\ mode.fallback \in BOOLEAN
           /\ mode.queries \subseteq Keys
           /\ \A t \in Threads : mode.uses[t] \subseteq Operations
  BY ConstantsAssumption DEF Keys

LEMMA AnswersTyped ==
    /\ Nothing.from = "none" /\ Nothing.missing = {} /\ Nothing \notin Answers
    /\ \A from \in {"live", "postgis", "fixture"} :
          /\ Whole(from) \in Answers
          /\ Whole(from).from = from /\ Whole(from).missing = {}
    /\ Synthetic \in Answers /\ Synthetic.from = "fixture"
    /\ \A a \in Answers : a.from \in {"live", "postgis", "fixture"}
                          /\ a.missing \subseteq Categories
  BY DEF Nothing, Answers, Whole, Synthetic

-----------------------------------------------------------------------------
(* Records.                                                                *)
LEMMA SearchFields ==
    ASSUME NEW c \in Search
    PROVE  /\ c.pc \in PCs /\ c.op \in Operations /\ c.query \in Keys
           /\ c.part \subseteq Categories /\ c.todo \subseteq Categories
           /\ c.got \subseteq [part : Keys, from : {"live", "postgis"}]
           /\ c.attempt \in 0..MaxAttempts /\ c.left \in 0..Requests
           /\ c.answer \in Answers \cup {Nothing}
  BY DEF Search, PCs

LEMMA FreshTyped ==
    ASSUME NEW op \in Operations, NEW q \in Keys
    PROVE  /\ Fresh(op, q) \in Search /\ Fresh(op, q).pc = "cache"
           /\ Fresh(op, q).op = op
<1>1. 0 \in 0..MaxAttempts /\ 0 \in 0..Requests
  BY Numbers
<1> QED
  BY <1>1 DEF Fresh, Search

(* A search moves on.                                                      *)
LEMMA Moved ==
    ASSUME NEW c \in Search, NEW pc \in PCs
    PROVE  LET x == [c EXCEPT !.pc = pc] IN
           /\ x \in Search /\ x.pc = pc /\ x.op = c.op /\ x.query = c.query
           /\ x.part = c.part /\ x.todo = c.todo /\ x.got = c.got
           /\ x.left = c.left /\ x.answer = c.answer /\ x.error = c.error
  BY DEF Search, PCs

(* It has an answer.                                                       *)
LEMMA Answered ==
    ASSUME NEW c \in Search, NEW pc \in PCs, NEW answer \in Answers \cup {Nothing}
    PROVE  LET x == [c EXCEPT !.pc = pc, !.answer = answer] IN
           /\ x \in Search /\ x.pc = pc /\ x.op = c.op /\ x.query = c.query
           /\ x.part = c.part /\ x.todo = c.todo /\ x.got = c.got
           /\ x.left = c.left /\ x.answer = answer /\ x.error = c.error
  BY DEF Search, PCs

(* It has failed.                                                          *)
LEMMA Raised ==
    ASSUME NEW c \in Search,
           NEW error \in {"unavailable", "malformed", "mixed", "database"}
    PROVE  LET x == [c EXCEPT !.pc = "done", !.error = error] IN
           /\ x \in Search /\ x.pc = "done" /\ x.error # "none"
  BY DEF Search

(* It counts its requests.                                                 *)
LEMMA Attempted ==
    ASSUME NEW c \in Search, NEW n \in 0..MaxAttempts, NEW k \in 0..Requests
    PROVE  LET x == [c EXCEPT !.pc = "pace", !.attempt = n, !.left = k] IN
           /\ x \in Search /\ x.pc = "pace" /\ x.op = c.op /\ x.query = c.query
           /\ x.part = c.part /\ x.todo = c.todo /\ x.got = c.got
           /\ x.left = k
  BY DEF Search

LEMMA Sent ==
    ASSUME NEW c \in Search, NEW k \in 0..Requests
    PROVE  LET x == [c EXCEPT !.pc = "http", !.left = k] IN
           /\ x \in Search /\ x.pc = "http" /\ x.op = c.op /\ x.query = c.query
           /\ x.part = c.part /\ x.todo = c.todo /\ x.got = c.got
  BY DEF Search

(* It is split, and its partitions are taken and collected.                *)
LEMMA Parted ==
    ASSUME NEW c \in Search, NEW p \in SUBSET Categories, NEW d \in SUBSET Categories,
           NEW pc \in PCs
    PROVE  LET x == [c EXCEPT !.pc = pc, !.part = p, !.todo = d] IN
           /\ x \in Search /\ x.pc = pc /\ x.op = c.op /\ x.query = c.query
           /\ x.part = p /\ x.todo = d /\ x.got = c.got
  BY DEF Search, PCs

LEMMA CollectedTyped ==
    ASSUME NEW c \in Search, c.part # {}, NEW from \in {"live", "postgis"}
    PROVE  LET x == Collected(c, from) IN
           /\ x \in Search /\ x.pc = "part" /\ x.op = c.op /\ x.query = c.query
           /\ x.todo = c.todo /\ Covered(x) = Covered(c) \cup c.part
<1> DEFINE r == [part |-> c.part, from |-> from]
           g == c.got \cup {r}
           x == [c EXCEPT !.pc = "part", !.got = g]
<1>1. Collected(c, from) = x
  BY DEF Collected
<1>2. r \in [part : Keys, from : {"live", "postgis"}] /\ r.part = c.part
  BY SearchFields DEF Keys
<1> HIDE DEF r
<1>3. UNION {h.part : h \in g} = (UNION {h.part : h \in c.got}) \cup c.part
  <2>1. \A h : h \in g <=> h \in c.got \/ h = r
    OBVIOUS
  <2> HIDE DEF g
  <2>2. ASSUME NEW e PROVE e \in UNION {h.part : h \in g} <=> \E h \in g : e \in h.part
    OBVIOUS
  <2>3. ASSUME NEW e
        PROVE  e \in UNION {h.part : h \in c.got} <=> \E h \in c.got : e \in h.part
    OBVIOUS
  <2>4. ASSUME NEW e
        PROVE  (\E h \in g : e \in h.part) <=> e \in c.part \/ \E h \in c.got : e \in h.part
    BY <1>2, <2>1
  <2> QED
    BY <2>2, <2>3, <2>4
<1>5. g \subseteq [part : Keys, from : {"live", "postgis"}]
  BY <1>2, SearchFields
<1> HIDE DEF g
<1>4. x \in Search /\ x.pc = "part" /\ x.op = c.op /\ x.query = c.query
      /\ x.todo = c.todo /\ x.got = g
  BY <1>5 DEF Search
<1> QED
  BY <1>1, <1>3, <1>4 DEF Covered

-----------------------------------------------------------------------------
(* Steps of a search.                                                      *)
LEMMA Facts ==
    ASSUME IInv, NEW t \in Threads
    PROVE  /\ call[t] \in Search /\ Held(call[t], fetched) /\ (t \in calm => Unspoilt(call[t]))
           /\ call[t].query \in Keys /\ cache[call[t].query] \in Answers \cup {Nothing}
           /\ previews[call[t].query] \in Answers \cup {Nothing}
           /\ mode \in Modes /\ mode.fallback \in BOOLEAN
BY SearchFields, ModeTyped DEF IInv, Calls, Shared, SharedOK

(* A step of one search, once what is shared is as it must be.             *)
LEMMA StepHolds ==
    ASSUME IInv, NEW t \in Threads, NEW x \in Search, Step(t, x),
           Shared', mode' = mode, fetched \subseteq fetched', calm' \subseteq calm \cup {t},
           Held(x, fetched'), t \in calm' => Unspoilt(x)
    PROVE  IInv'
<1>1. call \in [Threads -> Search] /\ call' = [call EXCEPT ![t] = x]
  BY DEF IInv, Step
<1>2. call' \in [Threads -> Search]
  BY <1>1
<1>3. ASSUME NEW u \in Threads
      PROVE  /\ call'[u] \in Search /\ Held(call[u], fetched)'
             /\ u \in calm' => Unspoilt(call[u])'
  <2>1. CASE u = t
    BY <1>1, <1>2, <2>1 DEF Held, Unspoilt, Partitioned
  <2>2. CASE u # t
    <3>1. call'[u] = call[u] /\ (u \in calm' => u \in calm)
      BY <1>1, <2>2
    <3>2. Held(call[u], fetched) /\ (u \in calm => Unspoilt(call[u]))
      BY Facts
    <3> QED
      BY <1>2, <3>1, <3>2 DEF Held, Unspoilt, Partitioned
  <2> QED
    BY <2>1, <2>2
<1> QED
  BY <1>2, <1>3 DEF IInv, Calls

(* A step that leaves alone what is shared.                                *)
LEMMA LocalHolds ==
    ASSUME IInv, NEW t \in Threads, NEW x \in Search, Step(t, x),
           UNCHANGED <<world, stores, breaker, wait, fetched, gap>>,
           calm' \subseteq calm, Held(x, fetched), t \in calm' => Unspoilt(x)
    PROVE  IInv'
<1>1. Shared'
  BY DEF IInv, Shared, SharedOK, Spaced, RecoveredIsReal, world, stores, breaker
<1>2. fetched' = fetched /\ mode' = mode
  BY DEF world
<1> QED
  BY <1>1, <1>2, StepHolds

(* What is returned is not degraded, if nothing has spoilt the search.     *)
LEMMA Returned ==
    ASSUME NEW t \in Threads, call[t] \in Search, NEW answer \in Answers \cup {Nothing},
           Return(t, answer)
    PROVE  \E x \in Search : /\ Step(t, x) /\ Held(x, fetched)
                             /\ call[t].op # "search" \/ ~Degraded(answer) => Unspoilt(x)
<1> DEFINE c == call[t]
           p == IF c.pc \in {"preview", "keep"} \/ c.op # "preview" THEN "done" ELSE "keep"
           x == [c EXCEPT !.pc = p, !.answer = answer]
<1>1. Step(t, [c EXCEPT !.answer = answer, !.pc = p])
  BY DEF Return
<1>2. [c EXCEPT !.answer = answer, !.pc = p] = x
  BY DEF Search
<1>3. p \in {"done", "keep"} /\ (c.op = "search" => p = "done")
  OBVIOUS
<1> HIDE DEF p, c
<1>4. x \in Search /\ x.pc = p /\ x.op = c.op /\ x.answer = answer
  <2> USE DEF c
  <2>1. c \in Search
    OBVIOUS
  <2> HIDE DEF c
  <2> QED
    BY <1>3, <2>1 DEF Search
<1>5. Step(t, x)
  BY <1>1, <1>2
<1> HIDE DEF x
<1>6. Held(x, fetched)
  BY <1>3, <1>4 DEF Held, Asking
<1>7. c.op # "search" \/ ~Degraded(answer) => Unspoilt(x)
  BY <1>3, <1>4 DEF Unspoilt, Asking
<1> QED
  BY <1>4, <1>5, <1>6, <1>7 DEF c

LEMMA RaiseHolds ==
    ASSUME IInv, NEW t \in Threads,
           NEW error \in {"unavailable", "malformed", "mixed", "database"},
           Raise(t, error), UNCHANGED <<world, stores, breaker, wait, history>>
    PROVE  IInv'
<1> DEFINE x == [call[t] EXCEPT !.pc = "done", !.error = error]
<1>1. call[t] \in Search
  BY Facts
<1>2. Step(t, x)
  BY DEF Raise
<1>4. x \in Search /\ x.pc = "done" /\ x.error # "none"
  <2> DEFINE c == call[t]
  <2>1. c \in Search
    BY <1>1
  <2> HIDE DEF c
  <2>2. LET y == [c EXCEPT !.pc = "done", !.error = error]
        IN  y \in Search /\ y.pc = "done" /\ y.error # "none"
    BY <2>1, Raised
  <2> QED
    BY <2>2 DEF c
<1> HIDE DEF x
<1>3. Held(x, fetched) /\ Unspoilt(x)
  BY <1>4 DEF Held, Unspoilt, Asking
<1> QED
  BY <1>2, <1>3, <1>4, LocalHolds DEF history

-----------------------------------------------------------------------------
LEMMA StartHolds ==
    ASSUME IInv, NEW t \in Threads, Start(t)
    PROVE  IInv'
<1>1. PICK q \in mode.queries, op \in mode.uses[t] \ {"preview"} : Step(t, Fresh(op, q))
  BY DEF Start
<1>2. q \in Keys /\ op \in Operations
  BY Facts, ModeTyped
<1> DEFINE x == Fresh(op, q)
<1>3. x \in Search /\ x.pc = "cache"
  BY <1>2, FreshTyped
<1>4. Step(t, x)
  BY <1>1
<1> HIDE DEF x
<1>5. Held(x, fetched) /\ Unspoilt(x)
  BY <1>3 DEF Held, Unspoilt, Asking
<1>6. /\ UNCHANGED <<world, stores, breaker, wait, fetched, gap>>
      /\ calm' = IF upstream = "up" /\ db = "up" /\ openFor = 0
                 THEN calm \cup {t} ELSE calm \ {t}
  BY DEF Start
<1>7. Shared'
  BY <1>6 DEF IInv, Shared, SharedOK, Spaced, RecoveredIsReal, world, stores, breaker
<1>8. Held(x, fetched') /\ mode' = mode /\ fetched \subseteq fetched' /\ calm' \subseteq calm \cup {t}
  BY <1>5, <1>6 DEF Held, world
<1> QED
  BY <1>3, <1>4, <1>5, <1>7, <1>8, StepHolds

LEMMA PreviewHolds ==
    ASSUME IInv, NEW t \in Threads, Preview(t)
    PROVE  IInv'
<1>1. PICK q \in mode.queries, pc \in {"refresh", "preview"} :
         Step(t, [Fresh("preview", q) EXCEPT !.pc = pc])
  BY DEF Preview
<1>2. q \in Keys /\ "preview" \in Operations
  BY Facts, ModeTyped DEF Operations
<1> DEFINE f == Fresh("preview", q)
           x == [f EXCEPT !.pc = pc]
<1>3. f \in Search
  BY <1>2, FreshTyped
<1>4. Step(t, x) /\ UNCHANGED <<world, stores, breaker, wait, fetched, gap>>
      /\ calm' = calm \ {t}
  BY <1>1 DEF Preview
<1> HIDE DEF f
<1>5. x \in Search /\ x.pc = pc
  BY <1>3 DEF Search
<1> HIDE DEF x
<1>6. Held(x, fetched)
  BY <1>5 DEF Held, Asking
<1> QED
  BY <1>4, <1>5, <1>6, LocalHolds

LEMMA RefreshHolds ==
    ASSUME IInv, NEW t \in Threads, Refresh(t)
    PROVE  IInv'
<1> DEFINE c == call[t]
           x == [c EXCEPT !.pc = "preview"]
<1>1. c \in Search /\ c.pc = "refresh" /\ (t \in calm => Unspoilt(c))
  BY Facts DEF Refresh, At
<1>2. Step(t, x) /\ UNCHANGED <<world, cache, rows, breaker, wait, history>>
      /\ previews' = [previews EXCEPT ![c.query] = Nothing]
  BY DEF Refresh
<1> HIDE DEF c
<1>3. x \in Search /\ x.pc = "preview" /\ x.op = c.op
  BY <1>1, Moved DEF PCs
<1> HIDE DEF x
<1>4. Held(x, fetched')
  BY <1>3 DEF Held, Asking
<1>5. t \in calm => Unspoilt(x)
  BY <1>1, <1>3 DEF Unspoilt
<1>6. Shared'
  BY <1>2
  DEF IInv, Shared, SharedOK, Spaced, RecoveredIsReal, world, breaker, history
<1> QED
  BY <1>2, <1>3, <1>4, <1>5, <1>6, StepHolds DEF world, history

LEMMA ReadPreviewHolds ==
    ASSUME IInv, NEW t \in Threads, ReadPreview(t)
    PROVE  IInv'
<1> DEFINE c == call[t]
           x == [c EXCEPT !.pc = "cache"]
           kept == previews[c.query]
<1>1. c \in Search /\ c.pc = "preview" /\ (t \in calm => Unspoilt(c))
      /\ kept \in Answers \cup {Nothing}
  BY Facts DEF ReadPreview, At
<1>2. /\ IF kept # Nothing THEN Return(t, kept) ELSE Step(t, x)
      /\ UNCHANGED <<world, stores, breaker, wait, history>>
  BY DEF ReadPreview
<1>3. t \in calm => c.op # "search"
  BY <1>1 DEF Unspoilt
<1>4. CASE Return(t, kept)
  <2>1. \E y \in Search : Step(t, y) /\ Held(y, fetched) /\ (t \in calm => Unspoilt(y))
    BY <1>1, <1>3, <1>4, Returned
  <2> QED
    BY <1>2, <2>1, LocalHolds DEF history
<1> HIDE DEF c
<1>5. CASE Step(t, x)
  <2>1. x \in Search /\ x.pc = "cache"
    BY <1>1, Moved DEF PCs
  <2> HIDE DEF x
  <2>2. Held(x, fetched) /\ Unspoilt(x)
    BY <2>1 DEF Held, Unspoilt, Asking
  <2> QED
    BY <1>2, <1>5, <2>1, <2>2, LocalHolds DEF history
<1> QED
  BY <1>2, <1>4, <1>5

LEMMA KeepPreviewHolds ==
    ASSUME IInv, NEW t \in Threads, KeepPreview(t)
    PROVE  IInv'
<1>1. /\ call[t] \in Search /\ call[t].pc = "keep" /\ (t \in calm => Unspoilt(call[t]))
      /\ call[t].answer \in Answers \cup {Nothing}
  BY Facts, SearchFields DEF KeepPreview, At
<1>2. t \in calm => call[t].op # "search"
  BY <1>1 DEF Unspoilt
<1>3. /\ previews' = [previews EXCEPT ![call[t].query] = call[t].answer]
      /\ UNCHANGED <<world, cache, rows, breaker, wait, history>>
  BY DEF KeepPreview
<1>4. PICK x \in Search : Step(t, x) /\ Held(x, fetched) /\ (t \in calm => Unspoilt(x))
  BY <1>1, <1>2, Returned DEF KeepPreview
<1>5. Shared'
  BY <1>1, <1>3
  DEF IInv, Shared, SharedOK, Spaced, RecoveredIsReal, world, breaker, history
<1>6. Held(x, fetched')
  BY <1>3, <1>4 DEF history
<1> QED
  BY <1>3, <1>4, <1>5, <1>6, StepHolds DEF world, history

LEMMA ReadCacheHolds ==
    ASSUME IInv, NEW t \in Threads, ReadCache(t)
    PROVE  IInv'
<1> DEFINE c == call[t]
           kept == cache[c.query]
           x == [c EXCEPT !.pc = "part", !.todo = c.query]
           y == [c EXCEPT !.pc = "gate", !.part = c.query]
<1>1. /\ c \in Search /\ c.pc = "cache" /\ (t \in calm => Unspoilt(c))
      /\ kept \in Answers \cup {Nothing} /\ ~Degraded(kept) /\ c.query \in Keys
  BY Facts DEF ReadCache, At, IInv, Shared
<1>2. UNCHANGED <<world, stores, breaker, wait, history>>
  BY DEF ReadCache
<1>3. \/ Return(t, kept)
      \/ c.op = "fallback" /\ Return(t, Synthetic)
      \/ Step(t, IF Partitioned THEN x ELSE y)
  BY DEF ReadCache
<1>4. CASE Return(t, kept)
  <2>1. \E z \in Search : Step(t, z) /\ Held(z, fetched) /\ (t \in calm => Unspoilt(z))
    BY <1>1, <1>4, Returned
  <2> QED
    BY <1>2, <2>1, LocalHolds DEF history
<1>5. CASE c.op = "fallback" /\ Return(t, Synthetic)
  <2>1. \E z \in Search : Step(t, z) /\ Held(z, fetched) /\ (t \in calm => Unspoilt(z))
    BY <1>1, <1>5, AnswersTyped, Returned
  <2> QED
    BY <1>2, <2>1, LocalHolds DEF history
<1>6. CASE Step(t, IF Partitioned THEN x ELSE y)
  <2> HIDE DEF c
  <2>1. c.query \in SUBSET Categories /\ c.query # {}
    BY <1>1 DEF Keys
  <2>2. /\ x \in Search /\ x.pc = "part" /\ x.query = c.query /\ x.todo = c.query
        /\ y \in Search /\ y.pc = "gate" /\ y.query = c.query /\ y.part = c.query
    BY <1>1, <2>1 DEF Search
  <2> HIDE DEF x, y
  <2>3. Held(x, fetched) /\ Unspoilt(x) /\ Held(y, fetched) /\ Unspoilt(y)
    BY <2>1, <2>2 DEF Held, Unspoilt, Asking
  <2>4. CASE Partitioned
    BY <1>2, <1>6, <2>2, <2>3, <2>4, LocalHolds DEF history
  <2>5. CASE ~Partitioned
    BY <1>2, <1>6, <2>2, <2>3, <2>5, LocalHolds DEF history
  <2> QED
    BY <2>4, <2>5
<1> QED
  BY <1>3, <1>4, <1>5, <1>6

LEMMA NextPartHolds ==
    ASSUME IInv, NEW t \in Threads, NextPart(t)
    PROVE  IInv'
<1> DEFINE c == call[t]
           m == [c EXCEPT !.pc = "merge"]
<1>1. /\ c \in Search /\ c.pc = "part" /\ (t \in calm => Unspoilt(c))
      /\ UNCHANGED <<world, stores, breaker, wait, history>>
  BY Facts DEF NextPart, At
<1>2. CASE c.todo = {}
  <2>1. Step(t, m)
    BY <1>2 DEF NextPart
  <2> HIDE DEF c
  <2>2. /\ m \in Search /\ m.pc = "merge" /\ m.op = c.op /\ m.query = c.query
        /\ m.todo = c.todo /\ m.got = c.got
    BY <1>1, Moved DEF PCs
  <2> HIDE DEF m
  <2>3. Held(m, fetched) /\ (t \in calm => Unspoilt(m))
    BY <1>1, <1>2, <2>2 DEF Held, Unspoilt, Asking, Covered
  <2> QED
    BY <1>1, <2>1, <2>2, <2>3, LocalHolds DEF history
<1>3. ASSUME NEW k \in c.todo,
             Step(t, [c EXCEPT !.pc = "inner", !.part = {k}, !.todo = @ \ {k}])
      PROVE  IInv'
  <2> DEFINE d == c.todo \ {k}
             x == [c EXCEPT !.pc = "inner", !.part = {k}, !.todo = d]
  <2>1. Step(t, x)
    BY <1>3
  <2> HIDE DEF c
  <2>2. {k} \in SUBSET Categories /\ d \in SUBSET Categories /\ c.todo = d \cup {k}
    BY <1>1, <1>3, SearchFields
  <2> HIDE DEF d
  <2>3. /\ x \in Search /\ x.pc = "inner" /\ x.op = c.op /\ x.query = c.query
        /\ x.part = {k} /\ x.todo = d /\ x.got = c.got
    BY <1>1, <2>2 DEF Search
  <2> HIDE DEF x
  <2>4. Held(x, fetched)
    BY <2>3 DEF Held, Asking
  <2>5. t \in calm => Unspoilt(x)
    BY <1>1, <2>2, <2>3 DEF Unspoilt, Asking, Covered
  <2> QED
    BY <1>1, <2>1, <2>3, <2>4, <2>5, LocalHolds DEF history
<1> QED
  BY <1>2, <1>3 DEF NextPart

(* A partition that is had, from an inner cache or the provider.           *)
LEMMA CollectedHolds ==
    ASSUME IInv, NEW t \in Threads, NEW from \in {"live", "postgis"},
           call[t].part # {},
           call[t].pc = "inner" \/ (Partitioned /\ call[t].pc \in Asking)
    PROVE  LET x == Collected(call[t], from) IN
           /\ x \in Search /\ Held(x, fetched) /\ (t \in calm => Unspoilt(x))
<1> DEFINE c == call[t]
           x == Collected(c, from)
<1>1. c \in Search /\ (t \in calm => Unspoilt(c)) /\ c.part # {}
      /\ (c.pc = "inner" \/ (Partitioned /\ c.pc \in Asking))
  BY Facts
<1> HIDE DEF c
<1>2. /\ x \in Search /\ x.pc = "part" /\ x.op = c.op /\ x.query = c.query
      /\ x.todo = c.todo /\ Covered(x) = Covered(c) \cup c.part
  BY <1>1, CollectedTyped
<1> HIDE DEF x
<1>3. Held(x, fetched)
  BY <1>2 DEF Held, Asking
<1>4. t \in calm => Unspoilt(x)
  BY <1>1, <1>2 DEF Unspoilt, Asking
<1> QED
  BY <1>2, <1>3, <1>4 DEF x, c

LEMMA ReadInnerHolds ==
    ASSUME IInv, NEW t \in Threads, ReadInner(t)
    PROVE  IInv'
<1> DEFINE c == call[t]
           kept == cache[c.part]
           x == [c EXCEPT !.pc = "gate"]
<1>1. /\ c \in Search /\ c.pc = "inner" /\ (t \in calm => Unspoilt(c))
      /\ Held(c, fetched) /\ UNCHANGED <<world, stores, breaker, wait, history>>
  BY Facts DEF ReadInner, At
<1>2. c.part \in Keys
  BY <1>1, SearchFields DEF Held, Asking, Keys
<1>3. kept \in Answers \cup {Nothing} /\ ~Degraded(kept)
  BY <1>2 DEF IInv, Shared, SharedOK
<1>4. CASE kept # Nothing
  <2>1. kept.from \in {"live", "postgis"}
    BY <1>3, <1>4, AnswersTyped DEF Degraded
  <2>2. Step(t, Collected(c, kept.from))
    BY <1>4 DEF ReadInner
  <2>3. c.part # {}
    BY <1>2 DEF Keys
  <2>4. LET y == Collected(c, kept.from) IN
        y \in Search /\ Held(y, fetched) /\ (t \in calm => Unspoilt(y))
    BY <1>1, <2>1, <2>3, CollectedHolds
  <2> QED
    BY <1>1, <2>2, <2>4, LocalHolds DEF history
<1>5. CASE kept = Nothing
  <2>1. Step(t, x)
    BY <1>5 DEF ReadInner
  <2> HIDE DEF c
  <2>2. /\ x \in Search /\ x.pc = "gate" /\ x.op = c.op /\ x.query = c.query
        /\ x.todo = c.todo /\ x.got = c.got /\ x.part = c.part
    BY <1>1 DEF Search
  <2> HIDE DEF x
  <2>3. Held(x, fetched) /\ (t \in calm => Unspoilt(x))
    BY <1>1, <2>2 DEF Held, Unspoilt, Asking, Covered
  <2> QED
    BY <1>1, <2>1, <2>2, <2>3, LocalHolds DEF history
<1> QED
  BY <1>4, <1>5

(* The step of a search that goes on asking for what it asks for.          *)
SameQuery(x, c) ==
    /\ x.op = c.op /\ x.query = c.query /\ x.part = c.part /\ x.todo = c.todo
    /\ x.got = c.got

LEMMA AskingStays ==
    ASSUME NEW c \in Search, NEW x, SameQuery(x, c), c.pc \in Asking,
           x.pc \in {"gate", "pace", "http"}, Unspoilt(c)
    PROVE  Unspoilt(x)
  BY DEF SameQuery, Unspoilt, Asking, Covered

LEMMA GateHolds ==
    ASSUME IInv, NEW t \in Threads, Gate(t)
    PROVE  IInv'
<1> DEFINE c == call[t]
           r == [c EXCEPT !.pc = "recover"]
           x == [c EXCEPT !.pc = "pace", !.attempt = 1, !.left = Requests]
<1>1. /\ c \in Search /\ c.pc = "gate" /\ (t \in calm => Unspoilt(c))
      /\ Held(c, fetched) /\ UNCHANGED <<world, stores, breaker, wait, fetched, gap>>
  BY Facts DEF Gate, At
<1>2. \/ Step(t, r) /\ calm' = calm \ {t}
      \/ Step(t, x) /\ calm' = calm
  BY DEF Gate
<1>3. 1 \in 0..MaxAttempts /\ Requests \in 0..Requests /\ Requests > 0
  BY Numbers
<1> HIDE DEF c
<1>4. /\ r \in Search /\ r.pc = "recover" /\ r.part = c.part
      /\ x \in Search /\ x.pc = "pace" /\ SameQuery(x, c) /\ x.left = Requests
  BY <1>1, <1>3 DEF Search, SameQuery
<1> HIDE DEF r, x
<1>5. Held(r, fetched) /\ Held(x, fetched)
  BY <1>1, <1>3, <1>4 DEF Held, Asking, SameQuery
<1>6. t \in calm => Unspoilt(x)
  BY <1>1, <1>4, AskingStays DEF Asking
<1> QED
  BY <1>1, <1>2, <1>4, <1>5, <1>6, LocalHolds

LEMMA PaceHolds ==
    ASSUME IInv, NEW t \in Threads, Pace(t)
    PROVE  IInv'
<1> DEFINE c == call[t]
           k == c.left - 1
           x == [c EXCEPT !.pc = "http", !.left = k]
<1>1. /\ c \in Search /\ c.pc = "pace" /\ (t \in calm => Unspoilt(c))
      /\ Held(c, fetched) /\ UNCHANGED <<world, stores, breaker, fetched, calm>>
      /\ gap' = 0 /\ wait' = Interval
  BY Facts, Numbers DEF Pace, At, NextAllowed, IInv, Shared, SharedOK
<1>2. Step(t, x)
  BY DEF Pace
<1>3. k \in 0..Requests
  <2>1. c.left \in 0..Requests /\ c.left > 0
    BY <1>1, SearchFields DEF Held
  <2> QED
    BY <2>1, Numbers
<1> HIDE DEF c, k
<1>4. x \in Search /\ x.pc = "http" /\ SameQuery(x, c)
  BY <1>1, <1>3 DEF Search, SameQuery
<1> HIDE DEF x
<1>5. Held(x, fetched')
  BY <1>1, <1>4 DEF Held, Asking, SameQuery
<1>6. t \in calm' => Unspoilt(x)
  BY <1>1, <1>4, AskingStays DEF Asking
<1>7. Shared'
  <2>1. wait' \in -MaxIdle..Interval /\ gap' \in 0..Interval /\ gap' + wait' >= Interval
    BY <1>1, Numbers
  <2> QED
    BY <1>1, <2>1
    DEF IInv, Shared, SharedOK, Spaced, RecoveredIsReal, world, stores, breaker
<1>8. mode' = mode /\ fetched \subseteq fetched' /\ calm' \subseteq calm \cup {t}
  BY <1>1 DEF world
<1> QED
  BY <1>2, <1>4, <1>5, <1>6, <1>7, <1>8, StepHolds

LEMMA DeliveredHolds ==
    ASSUME IInv, NEW t \in Threads, Delivered(t)
    PROVE  IInv'
<1> DEFINE c == call[t]
           x == [c EXCEPT !.pc = "pace"]
           y == [c EXCEPT !.pc = "persist", !.answer = Whole("live")]
<1>1. /\ c \in Search /\ c.pc = "http" /\ (t \in calm => Unspoilt(c))
      /\ Held(c, fetched) /\ UNCHANGED <<world, stores, wait, gap, calm>>
  BY Facts DEF Delivered, At
<1>2. \/ MorePages(c) /\ Step(t, x) /\ UNCHANGED <<breaker, fetched>>
      \/ RecordSuccess /\ fetched' = fetched \cup c.part /\ Step(t, y)
  BY DEF Delivered
<1>0. Whole("live") \in Answers /\ Whole("live").from = "live" /\ Whole("live").missing = {}
  BY AnswersTyped
<1> HIDE DEF c
<1>3. /\ x \in Search /\ x.pc = "pace" /\ SameQuery(x, c) /\ x.left = c.left
      /\ y \in Search /\ y.pc = "persist" /\ SameQuery(y, c) /\ y.answer = Whole("live")
  BY <1>0, <1>1 DEF Search, SameQuery
<1> HIDE DEF x, y
<1>4. CASE MorePages(c) /\ Step(t, x) /\ UNCHANGED <<breaker, fetched>>
  <2>1. Held(x, fetched) /\ (t \in calm => Unspoilt(x))
    BY <1>1, <1>3, <1>4, AskingStays DEF Held, Asking, SameQuery, MorePages
  <2> QED
    BY <1>1, <1>3, <1>4, <2>1, LocalHolds
<1>5. CASE RecordSuccess /\ fetched' = fetched \cup c.part /\ Step(t, y)
  <2>1. Held(y, fetched')
    BY <1>0, <1>1, <1>3, <1>5 DEF Held, Asking, SameQuery
  <2>2. t \in calm' => Unspoilt(y)
    BY <1>0, <1>1, <1>3 DEF Unspoilt, Asking, SameQuery, Degraded, Covered
  <2>3. c.part \subseteq Categories
    BY <1>1, SearchFields
  <2>4. Shared'
    BY <1>1, <1>5, <2>3, Numbers
    DEF IInv, Shared, SharedOK, Spaced, RecoveredIsReal, world, stores, RecordSuccess
  <2>5. mode' = mode /\ fetched \subseteq fetched' /\ calm' \subseteq calm \cup {t}
    BY <1>1, <1>5 DEF world
  <2> QED
    BY <1>3, <1>5, <2>1, <2>2, <2>4, <2>5, StepHolds
<1> QED
  BY <1>2, <1>4, <1>5

LEMMA UnavailableHolds ==
    ASSUME IInv, NEW t \in Threads, Unavailable(t)
    PROVE  IInv'
<1> DEFINE c == call[t]
           n == c.attempt + 1
           x == [c EXCEPT !.pc = "pace"]
           y == [c EXCEPT !.pc = "pace", !.attempt = n, !.left = Requests]
           z == [c EXCEPT !.pc = "recover"]
<1>1. /\ c \in Search /\ c.pc = "http" /\ Held(c, fetched) /\ calm = {}
      /\ UNCHANGED <<world, stores, wait, history>>
  BY Facts DEF Unavailable, At, IInv, Shared
<1>2. \/ MoreEndpoints(c) /\ Step(t, x) /\ UNCHANGED breaker
      \/ MoreAttempts(c) /\ Step(t, y) /\ UNCHANGED breaker
      \/ Step(t, z) /\ RecordFailure
  BY DEF Unavailable, Retry
<1>3. c.part # {}
  BY <1>1 DEF Held, Asking
<1> HIDE DEF c
<1>4. CASE MoreEndpoints(c) /\ Step(t, x) /\ UNCHANGED breaker
  <2>1. x \in Search /\ x.pc = "pace" /\ x.part = c.part /\ x.left = c.left
    BY <1>1 DEF Search
  <2> HIDE DEF x
  <2>2. Held(x, fetched)
    BY <1>3, <1>4, <2>1 DEF Held, Asking, MoreEndpoints
  <2> QED
    BY <1>1, <1>4, <2>1, <2>2, LocalHolds DEF history
<1>5. CASE MoreAttempts(c) /\ Step(t, y) /\ UNCHANGED breaker
  <2>1. n \in 0..MaxAttempts
    <3>1. c.attempt \in 0..MaxAttempts
      BY <1>1, SearchFields
    <3> QED
      BY <1>5, <3>1, Numbers DEF MoreAttempts
  <2>2. Requests \in 0..Requests /\ Requests > 0
    BY Numbers
  <2> HIDE DEF n
  <2>3. y \in Search /\ y.pc = "pace" /\ y.part = c.part /\ y.left = Requests
    BY <1>1, <2>1, <2>2 DEF Search
  <2> HIDE DEF y
  <2>4. Held(y, fetched)
    BY <1>3, <2>2, <2>3 DEF Held, Asking
  <2> QED
    BY <1>1, <1>5, <2>3, <2>4, LocalHolds DEF history
<1>6. CASE Step(t, z) /\ RecordFailure
  <2>1. z \in Search /\ z.pc = "recover" /\ z.part = c.part
    BY <1>1 DEF Search
  <2> HIDE DEF z
  <2>2. Held(z, fetched') /\ (t \in calm' => Unspoilt(z))
    BY <1>1, <1>3, <2>1 DEF Held, Asking, history
  <2>3. failures' \in 0..Threshold /\ openFor' \in 0..Recovery
    BY <1>6, Numbers DEF IInv, Shared, SharedOK, RecordFailure
  <2>4. Shared'
    BY <1>1, <2>3
    DEF IInv, Shared, SharedOK, Spaced, RecoveredIsReal, world, stores, history
  <2>5. mode' = mode /\ fetched \subseteq fetched' /\ calm' \subseteq calm \cup {t}
    BY <1>1 DEF world, history
  <2> QED
    BY <1>6, <2>1, <2>2, <2>4, <2>5, StepHolds
<1> QED
  BY <1>2, <1>4, <1>5, <1>6

LEMMA RecoverHolds ==
    ASSUME IInv, NEW t \in Threads, Recover(t)
    PROVE  IInv'
<1> DEFINE c == call[t]
           x == [c EXCEPT !.pc = "persist", !.answer = Whole("postgis")]
           y == [c EXCEPT !.pc = "persist", !.answer = Synthetic]
           z == [c EXCEPT !.pc = "part"]
<1>1. /\ c \in Search /\ c.pc = "recover" /\ (t \in calm => Unspoilt(c))
      /\ Held(c, fetched) /\ UNCHANGED <<world, stores, breaker, wait, history>>
  BY Facts DEF Recover, At
<1>2. \/ Step(t, x)
      \/ mode.fallback /\ Step(t, y)
      \/ Step(t, z)
      \/ Raise(t, "unavailable")
  BY DEF Recover
<1>3. CASE Raise(t, "unavailable")
  BY <1>1, <1>3, RaiseHolds
<1>4. c.part # {} /\ (t \in calm => c.op # "search")
  BY <1>1 DEF Held, Asking, Unspoilt
<1>5. /\ Whole("postgis") \in Answers /\ Whole("postgis").from = "postgis"
      /\ Synthetic \in Answers
  BY AnswersTyped
<1> HIDE DEF c
<1>6. /\ x \in Search /\ x.pc = "persist" /\ x.op = c.op /\ x.part = c.part
      /\ x.answer = Whole("postgis")
      /\ y \in Search /\ y.pc = "persist" /\ y.op = c.op /\ y.part = c.part
      /\ y.answer = Synthetic
      /\ z \in Search /\ z.pc = "part" /\ z.op = c.op
  BY <1>1, <1>5 DEF Search
<1> HIDE DEF x, y, z
<1>7. /\ Held(x, fetched) /\ Held(z, fetched)
      /\ mode.fallback => Held(y, fetched)
  BY <1>4, <1>5, <1>6, AnswersTyped DEF Held, Asking
<1>8. t \in calm => Unspoilt(x) /\ Unspoilt(y) /\ Unspoilt(z)
  BY <1>4, <1>6 DEF Unspoilt
<1> QED
  BY <1>1, <1>2, <1>3, <1>6, <1>7, <1>8, LocalHolds DEF history

LEMMA PersistHolds ==
    ASSUME IInv, NEW t \in Threads, Persist(t)
    PROVE  IInv'
<1> DEFINE c == call[t]
           x == [c EXCEPT !.pc = "store"]
<1>1. /\ c \in Search /\ c.pc = "persist" /\ (t \in calm => Unspoilt(c))
      /\ Held(c, fetched)
      /\ UNCHANGED <<world, cache, previews, breaker, wait, history>>
  BY Facts DEF Persist, At
<1>2. \/ rows' = rows \cup Saved(c) /\ Step(t, x)
      \/ Raise(t, "database") /\ UNCHANGED rows
  BY DEF Persist
<1>3. CASE Raise(t, "database") /\ UNCHANGED rows
  BY <1>1, <1>3, RaiseHolds DEF stores
<1>4. Saved(c) \subseteq fetched
  BY <1>1 DEF IInv, Shared, RecoveredIsReal, Held, Saved
<1> HIDE DEF c
<1>5. CASE rows' = rows \cup Saved(c) /\ Step(t, x)
  <2>1. /\ x \in Search /\ x.pc = "store" /\ SameQuery(x, c)
        /\ x.answer = c.answer
    BY <1>1 DEF Search, SameQuery
  <2> HIDE DEF x
  <2>2. Held(x, fetched')
    BY <1>1, <2>1 DEF Held, Asking, SameQuery, history
  <2>3. t \in calm' => Unspoilt(x)
    BY <1>1, <2>1 DEF Unspoilt, Asking, SameQuery, Covered, history
  <2>4. Shared'
    BY <1>1, <1>4, <1>5
    DEF IInv, Shared, SharedOK, Spaced, RecoveredIsReal, world, breaker, history
  <2>5. mode' = mode /\ fetched \subseteq fetched' /\ calm' \subseteq calm \cup {t}
    BY <1>1 DEF world, history
  <2> QED
    BY <1>5, <2>1, <2>2, <2>3, <2>4, <2>5, StepHolds
<1> QED
  BY <1>2, <1>3, <1>5

(* What the cache keeps is never degraded.                                 *)
LEMMA KeptHolds ==
    ASSUME IInv, NEW q \in Keys, NEW answer \in Answers \cup {Nothing},
           cache' = cache \/ cache' = Kept(q, answer),
           UNCHANGED <<world, previews, rows, breaker, wait, history>>
    PROVE  Shared'
<1>1. /\ cache' \in [Keys -> Answers \cup {Nothing}]
      /\ \A k \in Keys : ~Degraded(cache'[k])
  <2>1. /\ cache \in [Keys -> Answers \cup {Nothing}]
        /\ \A k \in Keys : ~Degraded(cache[k])
    BY DEF IInv, Shared, SharedOK
  <2> QED
    BY <2>1 DEF Kept
<1> QED
  BY <1>1
  DEF IInv, Shared, SharedOK, Spaced, RecoveredIsReal, world, breaker, history, Degraded

LEMMA StoreHolds ==
    ASSUME IInv, NEW t \in Threads, Store(t)
    PROVE  IInv'
<1> DEFINE c == call[t]
<1>1. /\ c \in Search /\ c.pc = "store" /\ (t \in calm => Unspoilt(c))
      /\ Held(c, fetched)
      /\ UNCHANGED <<world, previews, rows, breaker, wait, history>>
  BY Facts DEF Store, At
<1>2. c.part \in Keys /\ c.answer \in Answers /\ (c.answer.from = "fixture" => mode.fallback)
  BY <1>1, SearchFields DEF Held, Asking, Keys
<1>3. Shared'
  BY <1>1, <1>2, KeptHolds DEF Store
<1>4. \E x \in Search : Step(t, x) /\ Held(x, fetched) /\ (t \in calm => Unspoilt(x))
  <2>1. CASE Partitioned
    <3>1. c.answer.from \in {"live", "postgis"}
      BY <1>2, <2>1, AnswersTyped DEF Partitioned
    <3>2. c.part # {} /\ c.pc \in Asking
      BY <1>1, <1>2 DEF Keys, Asking
    <3>3. Step(t, Collected(c, c.answer.from))
      BY <2>1 DEF Store
    <3>4. LET x == Collected(c, c.answer.from) IN
          x \in Search /\ Held(x, fetched) /\ (t \in calm => Unspoilt(x))
      BY <2>1, <3>1, <3>2, CollectedHolds
    <3> QED
      BY <3>3, <3>4
  <2>2. CASE ~Partitioned
    <3>1. Return(t, c.answer)
      BY <2>2 DEF Store
    <3>2. t \in calm => c.op # "search" \/ ~Degraded(c.answer)
      BY <1>1 DEF Unspoilt
    <3> QED
      BY <1>1, <1>2, <3>1, <3>2, Returned
  <2> QED
    BY <2>1, <2>2
<1>5. PICK x \in Search : Step(t, x) /\ Held(x, fetched) /\ (t \in calm => Unspoilt(x))
  BY <1>4
<1>6. /\ Held(x, fetched') /\ (t \in calm' => Unspoilt(x))
      /\ mode' = mode /\ fetched \subseteq fetched' /\ calm' \subseteq calm \cup {t}
  BY <1>1, <1>5 DEF world, history
<1> QED
  BY <1>3, <1>5, <1>6, StepHolds

LEMMA MergeHolds ==
    ASSUME IInv, NEW t \in Threads, Merge(t)
    PROVE  IInv'
<1> DEFINE c == call[t]
           sources == {g.from : g \in c.got}
           covered == UNION {g.part : g \in c.got}
           a == [from |-> CHOOSE s \in sources : TRUE, missing |-> c.query \ covered]
           x == [c EXCEPT !.pc = "outer", !.answer = a]
<1>1. /\ c \in Search /\ c.pc = "merge" /\ (t \in calm => Unspoilt(c))
      /\ UNCHANGED <<world, stores, breaker, wait, history>>
  BY Facts DEF Merge, At
<1>2. \/ Raise(t, "unavailable")
      \/ Raise(t, "mixed")
      \/ sources # {} /\ Step(t, x)
  BY DEF Merge
<1>3. CASE Raise(t, "unavailable") \/ Raise(t, "mixed")
  BY <1>1, <1>3, RaiseHolds
<1>4. CASE sources # {} /\ Step(t, x)
  <2> HIDE DEF c
  <2>1. c.got \subseteq [part : Keys, from : {"live", "postgis"}] /\ c.query \subseteq Categories
    BY <1>1, SearchFields DEF Keys
  <2>2. sources \subseteq {"live", "postgis"}
    BY <2>1
  <2> DEFINE from == CHOOSE s \in sources : TRUE
  <2>3. from \in {"live", "postgis"}
    <3> HIDE DEF sources
    <3> QED
      BY <1>4, <2>2
  <2>4. a = [from |-> from, missing |-> c.query \ covered]
    OBVIOUS
  <2>5. covered = Covered(c)
    BY DEF Covered
  <2> HIDE DEF from, covered, sources
  <2>6. a \in Answers /\ a.from \in {"live", "postgis"} /\ a.missing = c.query \ Covered(c)
    BY <2>1, <2>3, <2>4, <2>5 DEF Answers
  <2> HIDE DEF a
  <2>7. x \in Search /\ x.pc = "outer" /\ x.op = c.op /\ x.answer = a
    BY <1>1, <2>6 DEF Search
  <2> HIDE DEF x
  <2>8. Held(x, fetched)
    BY <2>7 DEF Held, Asking
  <2>9. t \in calm => Unspoilt(x)
    BY <1>1, <2>6, <2>7 DEF Unspoilt, Degraded, Asking
  <2> QED
    BY <1>1, <1>4, <2>7, <2>8, <2>9, LocalHolds DEF history
<1> QED
  BY <1>2, <1>3, <1>4

LEMMA StoreOuterHolds ==
    ASSUME IInv, NEW t \in Threads, StoreOuter(t)
    PROVE  IInv'
<1> DEFINE c == call[t]
<1>1. /\ c \in Search /\ c.pc = "outer" /\ (t \in calm => Unspoilt(c))
      /\ c.query \in Keys /\ c.answer \in Answers \cup {Nothing}
      /\ UNCHANGED <<world, previews, rows, breaker, wait, history>>
  BY Facts, SearchFields DEF StoreOuter, At
<1>2. Shared'
  BY <1>1, KeptHolds DEF StoreOuter
<1>3. t \in calm => c.op # "search" \/ ~Degraded(c.answer)
  BY <1>1 DEF Unspoilt
<1>4. PICK x \in Search : Step(t, x) /\ Held(x, fetched) /\ (t \in calm => Unspoilt(x))
  BY <1>1, <1>3, Returned DEF StoreOuter
<1>5. /\ Held(x, fetched') /\ (t \in calm' => Unspoilt(x))
      /\ mode' = mode /\ fetched \subseteq fetched' /\ calm' \subseteq calm \cup {t}
  BY <1>1, <1>4 DEF world, history
<1> QED
  BY <1>2, <1>4, <1>5, StepHolds

-----------------------------------------------------------------------------
(* The provider, the database, the keys and the clock.                     *)
LEMMA CallsHold ==
    ASSUME IInv, Shared', call' = call, mode' = mode, fetched' = fetched,
           calm' \subseteq calm
    PROVE  IInv'
<1>1. call' \in [Threads -> Search]
  BY DEF IInv
<1>2. Calls'
  BY DEF IInv, Calls, Held, Unspoilt, Partitioned
<1> QED
  BY <1>1, <1>2 DEF IInv

LEMMA FaultsHold ==
    ASSUME IInv, UpstreamFails \/ UpstreamRecovers \/ DatabaseFails \/ DatabaseRecovers
    PROVE  IInv'
<1> USE DEF UpstreamFails, UpstreamRecovers, DatabaseFails, DatabaseRecovers
<1>1. /\ UNCHANGED <<mode, stores, breaker, wait, call, fetched, gap>>
      /\ calm' = {} \/ (calm' = calm /\ (upstream = "up" => upstream' = "up")
                                     /\ (db = "up" => db' = "up"))
  BY DEF history
<1>2. faults' \in 0..MaxFaults
  BY Numbers DEF IInv, Shared, SharedOK
<1>3. upstream' \in {"up", "down", "bad"} /\ db' \in {"up", "down"}
  BY DEF IInv, Shared, SharedOK
<1>4. Shared'
  BY <1>1, <1>2, <1>3
  DEF IInv, Shared, SharedOK, Spaced, RecoveredIsReal, stores, breaker
<1>5. calm' \subseteq calm
  BY <1>1
<1> QED
  BY <1>1, <1>4, <1>5, CallsHold

LEMMA KeyExpiresHolds == ASSUME IInv, KeyExpires PROVE IInv'
<1>1. UNCHANGED <<world, rows, breaker, wait, call, history>>
  BY DEF KeyExpires
<1>2. /\ cache' \in [Keys -> Answers \cup {Nothing}]
      /\ previews' \in [Keys -> Answers \cup {Nothing}]
      /\ \A q \in Keys : ~Degraded(cache'[q])
  <2>1. /\ cache \in [Keys -> Answers \cup {Nothing}]
        /\ previews \in [Keys -> Answers \cup {Nothing}]
        /\ \A q \in Keys : ~Degraded(cache[q])
    BY DEF IInv, Shared, SharedOK
  <2>2. ~Degraded(Nothing)
    BY AnswersTyped DEF Degraded
  <2>3. PICK q \in Keys :
           \/ cache' = [cache EXCEPT ![q] = Nothing] /\ UNCHANGED previews
           \/ previews' = [previews EXCEPT ![q] = Nothing] /\ UNCHANGED cache
    BY DEF KeyExpires
  <2> QED
    BY <2>1, <2>2, <2>3
<1>3. Shared'
  BY <1>1, <1>2
  DEF IInv, Shared, SharedOK, Spaced, RecoveredIsReal, world, breaker, history, Degraded
<1> QED
  BY <1>1, <1>3, CallsHold DEF world, history

LEMMA TickHolds == ASSUME IInv, Tick PROVE IInv'
<1>1. UNCHANGED <<world, stores, failures, call, fetched, calm>>
  BY DEF Tick
<1>2. /\ openFor \in 0..Recovery /\ wait \in -MaxIdle..Interval /\ gap \in 0..Interval
      /\ Spaced
  BY DEF IInv, Shared, SharedOK
<1>3. /\ openFor' \in 0..Recovery /\ wait' \in -MaxIdle..Interval /\ gap' \in 0..Interval
      /\ Spaced'
  <2>1. openFor' \in 0..Recovery
    BY <1>2, Numbers DEF Tick
  <2>2. wait' \in -MaxIdle..Interval /\ gap' \in 0..Interval
    BY <1>2, Numbers DEF Tick
  <2>3. Spaced'
    BY <1>2, Numbers DEF Tick, Spaced
  <2> QED
    BY <2>1, <2>2, <2>3
<1>4. Shared'
  BY <1>1, <1>3 DEF IInv, Shared, SharedOK, RecoveredIsReal, world, stores
<1> QED
  BY <1>1, <1>4, CallsHold DEF world

-----------------------------------------------------------------------------
(* Every state, and every step.                                            *)
LEMMA InitHolds == Init => IInv
<1> SUFFICES ASSUME Init PROVE IInv
  OBVIOUS
<1>1. /\ mode \in Modes /\ mode.queries \subseteq Keys
      /\ "search" \in Operations
  BY ModeTyped DEF Init, Operations
<1>2. ASSUME NEW q \in mode.queries
      PROVE  LET x == [Fresh("search", q) EXCEPT !.pc = "idle"] IN
             x \in Search /\ x.pc = "idle"
  <2> DEFINE f == Fresh("search", q)
  <2>1. f \in Search
    BY <1>1, FreshTyped
  <2> HIDE DEF f
  <2>2. LET x == [f EXCEPT !.pc = "idle"] IN x \in Search /\ x.pc = "idle"
    BY <2>1 DEF Search
  <2> QED
    BY <2>2 DEF f
<1>3. call \in [Threads -> Search] /\ \A t \in Threads : call[t].pc = "idle"
  <2> DEFINE F(q) == [Fresh("search", q) EXCEPT !.pc = "idle"]
             S == {F(q) : q \in mode.queries}
  <2>1. call \in [Threads -> S]
    BY DEF Init
  <2>2. \A q \in mode.queries : F(q) \in Search /\ F(q).pc = "idle"
    BY <1>2
  <2> HIDE DEF F
  <2>3. \A x \in S : x \in Search /\ x.pc = "idle"
    BY <2>2
  <2> HIDE DEF S
  <2> QED
    BY <2>1, <2>3
<1>4. Calls
  BY <1>3 DEF Calls, Held, Asking, Init
<1>5. Shared
  <2>1. SharedOK
    BY <1>1, Numbers DEF Init, SharedOK
  <2>2. \A q \in Keys : ~Degraded(cache[q])
    BY AnswersTyped DEF Init, Degraded
  <2> QED
    BY <2>1, <2>2 DEF Init, Shared, Spaced, RecoveredIsReal
<1> QED
  BY <1>3, <1>4, <1>5 DEF IInv

LEMMA ProceedHolds ==
    ASSUME IInv, NEW t \in Threads, Proceed(t)
    PROVE  IInv'
<1>1. CASE Malformed(t)
  BY <1>1, RaiseHolds DEF Malformed
<1>2. CASE Refresh(t) \/ ReadPreview(t) \/ KeepPreview(t)
  BY <1>2, RefreshHolds, ReadPreviewHolds, KeepPreviewHolds
<1>3. CASE ReadCache(t) \/ NextPart(t) \/ ReadInner(t) \/ Gate(t)
  BY <1>3, ReadCacheHolds, NextPartHolds, ReadInnerHolds, GateHolds
<1>4. CASE Delivered(t) \/ Unavailable(t) \/ Recover(t)
  BY <1>4, DeliveredHolds, UnavailableHolds, RecoverHolds
<1>5. CASE Persist(t) \/ Store(t) \/ Merge(t) \/ StoreOuter(t)
  BY <1>5, PersistHolds, StoreHolds, MergeHolds, StoreOuterHolds
<1> QED
  BY <1>1, <1>2, <1>3, <1>4, <1>5 DEF Proceed

LEMMA NextHolds == IInv /\ [Next]_vars => IInv'
<1> SUFFICES ASSUME IInv, [Next]_vars PROVE IInv'
  OBVIOUS
<1>1. ASSUME NEW t \in Threads, Start(t) \/ Preview(t) \/ Pace(t) \/ Proceed(t)
      PROVE  IInv'
  BY <1>1, StartHolds, PreviewHolds, PaceHolds, ProceedHolds
<1>2. CASE UpstreamFails \/ UpstreamRecovers \/ DatabaseFails \/ DatabaseRecovers
  BY <1>2, FaultsHold
<1>3. CASE KeyExpires \/ Tick
  BY <1>3, KeyExpiresHolds, TickHolds
<1>4. CASE UNCHANGED vars
  <2>1. UNCHANGED <<world, stores, breaker, wait, call, history>>
    BY <1>4 DEF vars
  <2>2. Shared'
    BY <2>1
    DEF IInv, Shared, SharedOK, Spaced, RecoveredIsReal, world, stores, breaker, history
  <2> QED
    BY <2>1, <2>2, CallsHold DEF world, history
<1> QED
  BY <1>1, <1>2, <1>3, <1>4 DEF Next

LEMMA Invariance == Spec => []IInv
  BY InitHolds, NextHolds, PTL DEF Spec

(* A step of a search is its own, and only the limiter's step lets one go  *)
(* on that is to be paced.                                                 *)
LEMMA OneSteps ==
    ASSUME NEW u \in Threads, Start(u) \/ Preview(u) \/ Pace(u) \/ Proceed(u)
    PROVE  \E x : Step(u, x)
<1>1. CASE Start(u) \/ Preview(u) \/ Pace(u)
  BY <1>1 DEF Start, Preview, Pace
<1>2. CASE Refresh(u) \/ ReadPreview(u) \/ KeepPreview(u) \/ ReadCache(u)
  BY <1>2 DEF Refresh, ReadPreview, KeepPreview, ReadCache, Return
<1>3. CASE NextPart(u) \/ ReadInner(u) \/ Gate(u) \/ Delivered(u)
  BY <1>3 DEF NextPart, ReadInner, Gate, Delivered
<1>4. CASE Unavailable(u) \/ Malformed(u) \/ Recover(u) \/ Persist(u)
  BY <1>4 DEF Unavailable, Malformed, Recover, Persist, Raise
<1>5. CASE Store(u) \/ Merge(u) \/ StoreOuter(u)
  BY <1>5 DEF Store, Merge, StoreOuter, Return, Raise
<1> QED
  BY <1>1, <1>2, <1>3, <1>4, <1>5 DEF Proceed

LEMMA OnlyPaceSends ==
    ASSUME NEW u \in Threads, Start(u) \/ Preview(u) \/ Proceed(u)
    PROVE  call[u].pc # "pace"
  BY DEF Start, Preview, Proceed, Refresh, ReadPreview, KeepPreview, ReadCache,
         NextPart, ReadInner, Gate, Delivered, Unavailable, Malformed, Recover,
         Persist, Store, Merge, StoreOuter, At

LEMMA PermitHolds ==
    ASSUME IInv, Next, NEW t \in Threads, call[t].pc = "pace", call'[t].pc = "http"
    PROVE  gap = Interval
<1>1. ASSUME NEW u \in Threads, Start(u) \/ Preview(u) \/ Pace(u) \/ Proceed(u)
      PROVE  gap = Interval
  <2>1. PICK x : Step(u, x)
    BY <1>1, OneSteps
  <2>2. u = t
    BY <2>1 DEF Step, IInv
  <2>3. Pace(t)
    BY <1>1, <2>2, OnlyPaceSends
  <2>4. wait <= 0 /\ Spaced /\ wait \in -MaxIdle..Interval /\ gap \in 0..Interval
    BY <2>3 DEF Pace, IInv, Shared, SharedOK
  <2> QED
    BY <2>4, Numbers DEF Spaced
<1>2. CASE \/ UpstreamFails \/ UpstreamRecovers \/ DatabaseFails \/ DatabaseRecovers
           \/ KeyExpires \/ Tick
  BY <1>2
  DEF UpstreamFails, UpstreamRecovers, DatabaseFails, DatabaseRecovers, KeyExpires, Tick
<1> QED
  BY <1>1, <1>2 DEF Next

-----------------------------------------------------------------------------
(* The variables keep their types.                                         *)
THEOREM TypeCorrect == Spec => []TypeOK
<1>1. IInv => TypeOK
  BY DEF IInv, Shared, SharedOK, TypeOK
<1> QED
  BY <1>1, Invariance, PTL

(* What PostGIS holds was delivered by the provider: synthetic records     *)
(* never become recovered ones (PersistingPOIAdapter and                   *)
(* PostGISPOIRecoveryAdapter), for any number of searches.                 *)
THEOREM RecoveredCorrect == Spec => []RecoveredIsReal
<1>1. IInv => RecoveredIsReal
  BY DEF IInv, Shared
<1> QED
  BY <1>1, Invariance, PTL

(* A search that met no fault is answered with the provider's own data, or *)
(* with recovered data that is not degraded (CachedPOIAdapter and          *)
(* CategoryPartitioningPOIAdapter), whatever the other searches did.       *)
THEOREM CalmCorrect == Spec => []CalmIsLive
<1>1. IInv => CalmIsLive
  BY DEF IInv, Shared, SharedOK, Calls, Unspoilt, CalmIsLive
<1> QED
  BY <1>1, Invariance, PTL

(* Between two permits passes an interval, for any number of threads and   *)
(* however long the limiter was idle (FixedIntervalRateLimiter.acquire).   *)
THEOREM PermitsCorrect == Spec => PermitsAreSpaced
<1> DEFINE Permit == (\E t \in Threads : call[t].pc = "pace" /\ call'[t].pc = "http")
                        => gap = Interval
<1>1. IInv /\ Next => Permit
  BY PermitHolds
<1>2. IInv /\ [Next]_vars => [Permit]_vars
  BY <1>1
<1>3. Spec => [][Permit]_vars
  BY <1>2, Invariance, PTL DEF Spec
<1> QED
  BY <1>3 DEF PermitsAreSpaced

=============================================================================
