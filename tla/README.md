# TLA+ verification of the spatial decision agent

This directory holds TLA+ models of the site-selection system under `src/`, the
TLC configurations that check them on small instances, and TLAPS proofs of the
properties that matter most.  `PROJECT.json` maps every definition to the source
lines it stands for and lists runs, mutants, hazards and theorems.

Paths below are relative to the repository (`src/`).

## 1. The system

A client (HTTP, MCP, or the Streamlit workbench) describes a project in a
conversation, confirms a scenario, has candidates discovered, confirms
candidates, and has them analysed in a *run*.  An analysis takes minutes and is
executed by an RQ worker; Redis holds everything the API processes and the
worker share, Postgres the layers, the checkpoints and the memory.

    Workbench ── HTTP ──> conversation ──> discovery ──> Supervisor session ──> run
                              |               |                  |               |
                           memory        POI providers      checkpoints     RQ worker
                                         land use           lease, lock          |
                                                                          analysis workflow
                                                                                 |
                                                              agent review (collaboration)

| Component | State it keeps | Operations | What is hard about it | What makes it correct |
|---|---|---|---|---|
| **Run lifecycle** `app/services/site_selection_run_service.py`, `site_selection_queue.py`, `storage/redis_state.py`, `redis_runtime.py` | one `RunState` per run, an idempotency record per key, an event list per run | create, enqueue, execute, cancel, get (reconciles), time out, acknowledge | every decision is made on a read that may be stale; a status and its event are two commands; timeouts race late answers; keys expire | one outcome wins, is final, and is logged once; running runs settle |
| **RQ worker** `app/services/site_selection_worker.py` | RQ's job; a work horse process | run a job, failure callback | alarms raised anywhere, silent deaths, stop commands | a job cannot disturb a decided run |
| **Supervisor session** `supervisor.py`, `app/services/site_selection_supervisor.py`, `storage/redis_supervisor.py` | a LangGraph checkpoint thread, a session lease, a transition lock, an event list | start, get, confirm, complete, expiry | three stores with different lifetimes; a lock that expires while its holder works; a worker and a poll completing together | one run per session, of the choice it records; the session follows the run to its outcome |
| **Scenario conversation and memory** `app/services/site_selection_conversation.py`, `scenario.py`, `memory.py` | a Redis document with all versions; preferences in Postgres | converse, confirm, get memory, delete memory | read, modify, write without a lock around a slow interpreter | the stored session is one a single user could have made; what is confirmed can be executed |
| **POI providers** `online_poi_adapters.py`, `poi_adapters.py`, `app/services/site_selection_poi_provider.py` | circuit breaker, rate limiter, two caches, persisted rows | search, search_fallback, preview | adapters in seven layers, shared by threads; synthetic answers next to live ones | recovered data is real; requests are paced; a search ends |
| **Candidate discovery and evidence snapshots** `candidate_discovery.py`, `evidence_snapshot.py`, `online_land_use.py` | a snapshot in Redis | discover; search and search_many over the snapshot | what truncated, partial or synthetic evidence may claim; spacing and quotas | what is called formal, complete or untruncated is; an analysis uses the evidence its user confirmed |
| **Analysis workflow** `workflow.py`, `parallel_workflow.py`, `agent_orchestration.py` | graph state | POI and spatial branches, merge, comparison, review, harness | a branch fails or is skipped while the other runs; layers are replaced between loads; prompts change between calls | no failure is swallowed; the trace is causal; one approved version of the prompts per review |
| **Agent collaboration** `agent_collaboration.py`, `agent_harness.py` | role memory in Redis (WATCH), budgets | supervise, ask a specialist, review | retries of optimistic writes; budgets over failing calls; recursion | budgets hold; failures end in human review |
| **Agent evolution** `agent_evolution.py`, `agent_harness.py` | prompt versions, audit list, decisions | propose, evaluate, promote, roll back | the baseline moves between evaluation and promotion | every version in use was measured |
| **Workbench** `workbench/app.py`, `workbench/site_selection_client.py` | Streamlit session state, the URL | some twenty buttons, three polling fragments | a click abandons the running script at any call of Streamlit; widget state is dropped; several steps store what belongs together | what is confirmed is what is shown |
| **Bootstrap** `app/site_selection_bootstrap.py`, `app/main.py` | clients, pools, contexts | start, stop, unwind, import of layers | sixteen steps, each of which may fail, and closings that may fail too | everything is closed, once |
| Explanation, reports, region resolution, policy retrieval, spatial gateways, Postgres repositories, MCP, evaluation | little or none | adapters and formatting | I/O | see section 10 |

The hazards of this code, each at its line, are the `hazards` of
`PROJECT.json`; the properties below are aimed at them.

## 2. Modules

    RunSpec              what the run store promises (abstract)
    RunLifecycle         handlers, worker, RQ and Redis commands
    RunLifecycleProofs   inductive invariants and the refinement

    SessionSpec          what a Supervisor session promises (abstract)
    SupervisorSession    confirmations, polls, worker reports, lease, lock,
                         checkpoints and audit list
    SupervisorSessionProofs

    ScenarioConversation requests that load, change and store one conversation
    CandidateDiscovery   discovery, its snapshot and the analysis that reuses it
    ScenarioProofs       of both
    POIProvider          the chain of POI adapters and its shared state
    POIProviderProofs
    PromptEvolution      prompt versions: propose, evaluate, promote, roll back
    AnalysisWorkflow     EXTENDS PromptEvolution: both graphs of an analysis
    AnalysisWorkflowProofs
    AgentCollaboration   concurrent agent reviews over shared role memory
    AgentCollaborationProofs
    Workbench            the operator's page against the API's answers
    WorkbenchProofs
    Bootstrap            starting and stopping API and job processes
    BootstrapProofs

    MC<module>           instances of <module> for TLC
    <run>.cfg            what `PROJECT.json` runs
    Bug<property>.cfg    instances in which TLC finds a promise violated (section 8)
    <module>Types.cfg    type invariants and lesser properties, run by hand

`RunLifecycle` is the core: processes really interleave there, the documentation
makes its strongest promises about it, and every other component ends in it.
It is composed with the session through the abstract specification: `RunSpec` is
proved to be what `RunLifecycle` does, and `SupervisorSession` instantiates
`RunSpec` (`RunStore`) as the run service it calls, so a session is checked
against every behaviour a run can have without the cost of its internals.

    SupervisorSession --RunStore--> RunSpec <==implements== RunLifecycle
           ||
       implements
           ||
       SessionSpec

    AnalysisWorkflow == analysis x PromptEvolution (one Next, shared `active`)

The other modules meet at what one hands the other, and abstract it to that: the
workbench sees a session as the status of its run (which `ReportsOutcome` and
`ImplementsSessionSpec` justify), discovery sees the provider chain as the kinds
of answer `POIProvider` can give (live, stored, synthetic, unavailable,
malformed), the analysis sees a snapshot or provider as evidence that is
complete or degraded.

## 3. How RunLifecycle corresponds to the code

**Granularity.**  One action is one Redis (or RQ) command together with the
local code up to the next command.  A handler is a program counter `pc` and the
values it carries (`run`, `seen`, `note`, `running`); so is the executor of a
run (`base`, `review`, `report`, `verdict`).  Nothing a handler read stays true
until it writes, unless the command that writes compares: that is the Lua script
of `RedisRunStateStore.transition`, the operator `Wins`.

**State.**

| Variable | Code |
|---|---|
| `run` | the key `run_state:<id>`; status, and of `details` the four fields other steps depend on: `queue_job_id`, `human_review.status`, `human_review.note`, `report_url` |
| `idem` | the key `idempotency:<key>`: run id and request fingerprint |
| `log` | the list of `RunEvent`s.  Its own TTL is left out: the list is kept as the history of what was appended, the strongest reading of "audit log" |
| `job` | the RQ job: not enqueued, queued, started, removed by `job.cancel()` |
| `exec` | the process executing the run: RQ's work horse, its failure callback, or (`Async = FALSE`) the API thread |
| `handler` | API threads |
| `payload` | the command each run id was proposed for (a fresh `run_id_factory()` value is a run whose payload is still `None`) |
| `alarm`, `overdue` | RQ's timeout has fired; the run has been RUNNING longer than timeout + grace |
| `faults` | crashes and I/O errors so far, bounded by `MaxFaults` |
| `outcome` | history variable: the terminal status first written |

**Operations.**

| Code | Actions |
|---|---|
| `create_run` / `prepare_run` | `CreateRun` (SET NX), or `KeyTaken`, `ReplayRead`, `Replay`; then `Save`, `LogCreated` |
| `mark_enqueued`, `enqueue`, `mark_enqueue_failed` | `EnqRead`, `EnqCas`, `LogEnqueued`, `Enqueue`; `EnqueueRaises`, `EqfRead`, `EqfCas`, `LogEqf` |
| `cancel_run`, `mark_cancelled`, `queue.cancel` | `CancelRun`, `CancelRead`, `CancelCas`, `LogCancelled`, `CancelJob` |
| `get_run` of the facade, `mark_timed_out` | `GetRun` (only when it reconciles), `TimedOutRead`, `TimedOutCas`, `LogTimedOut` |
| `acknowledge_human_review` | `Acknowledge`, `AckWrite`, `LogAck` |
| `execute_run` | `ExecRead`, `ExecClaim`, `LogStarted`, `WorkflowEnds`, `ExecCheck`, `ReviewEnds`, `ExplainEnds`, `ReportEnds`, `Publish`, `LogCompleted`, `Fail`, `LogFailed` |
| `record_site_selection_job_failure` | `CallbackRead`, `CallbackCas`, `LogCallback` |
| RQ, Redis, time | `JobStarts`, `AlarmFires`, `ExecRaises`, `HorseDies`, `HorseKilled`, `HandlerFails`, `GracePasses`, `KeyExpires`, `RunExpires` |

Three readings deserve a word:

* `AlarmFires`.  RQ raises `JobTimeoutException`, an `Exception`, wherever the
  horse is.  Outside a `try` it reaches the failure callback (`Escape`); inside a
  stage the stage's own handler takes it, and inside the workflow a provider may
  take it for a network error and go on (`online_poi_adapters.py:980`).
* `Fail` stands for the four failure blocks of `execute_run`: they differ in the
  details gathered so far, which the executor's record carries.
* `AckWrite` refuses a failed run because `RunState` demands an error text for
  that status (`redis_state.py:53`) and the acknowledgement passes none.

**Abstractions.**  Request bodies are model values (`Commands`, compared by
fingerprint); details no other step reads, traces, wording and timestamps are
left out; time appears as the two flags `alarm` and `overdue`, constrained by
what the code compares (the alarm is set for the job timeout, so by timeout +
grace it has fired unless nothing executes the run).  The worker's call into the
Supervisor after the run has ended changes no run state: it is `WorkerResume`
of `SupervisorSession`.

## 4. How SupervisorSession corresponds to the code

A session lives in three places with three lifetimes: a LangGraph thread in
Postgres, a lease and a lock in Redis, a run in the run store.  Requests move
all three, one command at a time, and may die or fail between any two.

| Variable | Code |
|---|---|
| `thread`, `version` | the latest checkpoint of the thread: the node it resumes at, the confirmation, the run submitted, the outcome recorded; and its checkpoint id |
| `lease` | the key `<ns>:supervisor:session:<id>` exists (`activate`, `is_active`, `deactivate`) |
| `lock` | the key `<ns>:supervisor:lock:<id>`, holding the token of a request.  A request stands for its token: tokens are fresh UUIDs, and a request holds one lock in its life |
| `events` | the audit list, without its rejections (nothing reads them, and they are unbounded) |
| `claim` | the idempotency record `supervisor:<id>:analysis` that `create_run` writes for the session |
| `req` | requests in progress: program counter and the values they carry |
| `resumed` | the worker, or its failure callback, has made its one report |
| `status`, `outcome` | the run store, by `RunSpec` |

| Code | Actions |
|---|---|
| `start` | `Start`.  The session id is private until it returns, so its commands are one action |
| `_require_active`, `_discard_session`, `delete` | `Alive` in each request; `DropLease`, `DropLock`, `DropThread`, `DropFails` |
| `confirm` of the service | `Confirm`, `Acquire`, `Before`, `CheckConfirm`, the graph, `View`, `Activate`, `Event`, `Event2`, `Reject`, `Release`, then `Reconcile` |
| `get`, `_reconcile_if_terminal` | `Get`, `GetThread`, `Reconcile`, and the actions of a completion |
| `complete_analysis` | `Active`, `Current`, `Acquire`, `CheckComplete`, the graph, `View`, `Activate`, `Event`, `Event2`, `Release` |
| `resume_supervisor_for_terminal_run` of the worker | `WorkerResume`, then a completion |
| `graph.invoke(Command(resume=...))` | `Load`, one action per node, `Put` for its checkpoint, `GraphStops` at the next pause or the end |
| `SiteSelectionSupervisorAnalysisSubmitter`, `prepare_run` | `AnalysisSubmitted` (the claim), `SaveRun`, `RunSubmitted`, or `ReplayRun` |
| Redis, processes, the run service | `LeaseLapses`, `LockLapses`, `Dies`, `Raises`, `RunMoves` |

*The graph executor* is LangGraph's and external.  From how the code uses it
(`interrupt`, `Command(resume=...)`, a checkpointer given to `compile`) it is
modelled as: load the latest checkpoint, hand the resume value to the node that
waits, run nodes in memory and put a checkpoint after each.  The put overlaps
the execution of the next node (`unsaved`), which is LangGraph's default
durability, but precedes the put after it.  A checkpoint put after its thread
was deleted is taken to be complete.

*Left out.*  `ttl` and `list_events` change state only by expiring a session,
as `get` does.  The session's run and idempotency record do not expire: their
TTL (86400 s) outlives the session's (7200 s).  Candidates, discovery results
and trace events are data no other step reads; a reviewer's choice is a model
value, and `Allowed` are those `_validate_confirmation` accepts.

## 5. How the other modules correspond to the code

### ScenarioConversation

`store` is the Redis document of one conversation with its versions, `memory`
the actor's preferences in Postgres, `op` the requests in flight.  A request
loads the session, works on its copy and stores the copy whole; nothing compares
what it replaces.  `converse` is `Open` or `Converse` (the load), `Recall`
(memory) and `Reply` (interpretation done, `BuildVersion`, the save); `confirm`
is `Confirm`, `Remember` (the preference is committed first) and `ConfirmSaved`;
`DeleteMemory` empties the memory between any two; `SessionExpires` is the TTL,
which a later save undoes; `Die` is a request that raises or a reader that only
looked.

A message is a sequence of constraint actions: turning words into actions is a
language model or regular expressions, and the choice of `Messages` stands for
it.  Four of the six fields are kept: one with an enumeration, one that is
resolved by a service that may be off line, one with a range, and one with a range
that is converted before it is looked at.  `_validate_number` casts a count with
`int`: 20.5 becomes 20, in range and without a conflict, while the record keeps what
was said (`site_selection_conversation.py:578-593`, `:688`); a region loses the
blanks around it (`:597`).  `Truncated`, `Converted` and `Cast` are these
conversions (counts are in halves, so that a fraction exists; `Padded` maps a region
said with blanks to the one without), and `BuildVersion` casts, then validates.
`RecordedIsExecutedWhenClear` says accordingly that a version executes the
*conversion* of what it records.  The silent truncation itself is what the code
does; no document promises otherwise.  Not told apart: `minimum_separation_m`, which
is converted as a count is, and `fallback_mode`, an enumeration; compaction of the
dialogue, answers, episodes of the memory (written with the preferences and only
shown).

What the model shows and no property forbids: a confirmation can be lost to a
message that began before it (`OnlyStaleWritesUndo` says only such a request can
do it), deleted preferences return with a confirmation that was in flight, and a
preference is kept although the save of its session then fails.

### POIProvider

The chain `build_configured_poi_provider` assembles, outermost first: cache,
category partitions with a cache of their own, persisting, fixture fallback,
PostGIS recovery, retries and breaker, rate limiter, HTTP.  A thread's `call`
holds the layer it is in (`pc`) and what the layers above remember; one action is
what runs between two waits: a Redis command, an acquisition of the limiter, one
HTTP request, one transaction.  The breaker's counters change between two
requests of other threads, as their lock allows.

`NextPart`, `Collected`, `Merge` are the partition adapter (partitions run one
after another), `Gate`, `RecordSuccess`, `RecordFailure`, `Retry` the breaker,
`Pace` the limiter, `Delivered`, `Unavailable`, `Malformed` an HTTP answer with
its pages or endpoints, `Recover` and `Synthetic` the two fallbacks, `Persist`
the sink, `Kept` the rule which answers may be cached, `Preview`, `Refresh`,
`KeepPreview` the preview endpoint with its cache.  Provider and database fail
and recover at any moment, at most `MaxFaults` times; cache keys expire.  An
answer is its provenance and the categories it reports as unavailable; records,
queries and parsing are left out.

Visible in the model, forbidden by no property: a search already retrying goes on
sending requests while the breaker is open (the gate is passed once,
`online_poi_adapters.py:195`, where
`notes/reliability-hitl-observability-notes.md:64` says none are sent); a late
success closes an open breaker; recovered records are persisted again with new
timestamps and said to be complete; a database that fails while a live answer is
persisted fails the search; the preview caches synthetic answers, which the
search's cache refuses.

### CandidateDiscovery

One discovery and the analyses that reuse its snapshot.  Two parallel nodes:
`LandUseGate` (register, public observation, proxies, grid, by the mode the
request asks for) and `MarketEvidence` (bulk or one query per group, repair of
truncated or missing groups in tiles, context batches and the range layer); then
`RankDiversify`, `SaveSnapshot`, `AssembleReport`, or `DiscoveryBlocked`.
`Expire` and `Deploy` (a profile with more groups) come between discovery and
`Analyse`, which slices the snapshot, supplements what the slices do not cover,
within a budget, or refuses.

The plane is a line: a circle is an interval, the 2 x 2 repair grid two halves.
What the properties are about, which of the nearest records are retained, what
lies within reach of a bound, which candidates are too close, is about distances
and survives; shapes and projections do not.  The code's sorts have keys without
ties (a score and then the parcel's id; a distance and then the record's), so a
sorted list is the one in which each element stands behind those before it
(`InOrder`).  Cohorts of one size are supplemented in the order of their first
query, which is the order of the request's candidates and of the profile's groups
(`Orders`, `AskedAt`).  The gateway has one of three `Providers`: an online one,
an online one with the fixture behind it, whose synthetic answers name what they
stand in for (`fellBack`), or the fixture alone, whose answers do not, which never
fails and, having no budget of categories, is always asked in bulk.  A call is
answered live (cut at the limit), from the database, synthetically, not at all, or
malformed, as its provider can; scores are small numbers.

Visible, and forbidden by no property: scoring a single candidate drops the mark
of truncation; a proxy parcel without an area blocks all of discovery
(`candidate_discovery.py:949`); an observation drops the warnings collected before
it (`:771`); mandatory supplements may exceed the budget
(`evidence_snapshot.py:217`); a failed supplement of an untruncated synthetic
slice is not marked as truncated; public parcels are cut at `max_features`
without a mark.

### AnalysisWorkflow and PromptEvolution

`mode` is which of the two compiled graphs runs: the parallel plan of
`build_parallel_site_selection_graph` or the sequential graph of
`build_site_selection_graph`.  `node` is what the trace would say of each step.
`Superstep` is LangGraph's schedule (external): ready nodes start together after
all running ones ended.  `CollectPOI`, `Collect`, `Measure`, `Target`, `Observe`
(the spatial branch with its three loads of the parcel layer and one load of each
constraint layer per parcel), `Policy`, `Merge`, `Assemble`, `SkipReview`,
`OpenHarness`, `CallAgent`, `CloseHarness` follow the nodes; each may fail where its
code can, the assembly of the review and the harness in actions of their own
(`AssemblyRaises`, `ReviewRaises`).  `ReplaceLayer` is an import between any two loads.

The harness reads the active bundle once, and the runtime it builds from it gives each
role its profile; each `CallAgent` is one model call (`RoleAgent.generate`), with the
profile its role was built with (`Prompted`), and collects it in `harness.used`.  Which
role calls, and what the answers do, is `AgentCollaboration`'s; here promotions and
rollbacks come between any two calls, and a context the harness refuses is reported
without one.

`PromptEvolution` is `PromptVersionRegistry` and the engine around it, every call
one action (the registry has a lock).  The repository wires the engine into no
running process; it is modelled as its classes promise to work when a job calls
it beside the analyses of the same process.

### AgentCollaboration

A review is a walk over the graph of supervisor, specialists and critic: `Enters`
a node, `Recall` the role's memory, `Think` (one model call, with any reply the
contracts tell apart), `Watch` and `Commit` (the optimistic transaction of
`RedisAgentMemoryStore.upsert`; `Notify` marks the watchers of a hash that was
written or expired), then the node's routing; `Exhaust`, `ForceReview`,
`Finalize` are what budgets lead to, `Abort` LangGraph's recursion limit
(external).  Two reviews share the memory; `Expire` is the TTL of a role's hash,
after which revisions start over.

Visible: a message its contract refuses is built outside the node's `try` and
raises out of the graph (`agent_collaboration.py:760`), after which the review
branch turns a completed analysis into a failed one; a configured budget of up to
60 calls exceeds LangGraph's 25 supersteps, which `ReviewEnds` therefore assumes
it does not; two roles can delegate to each other until the budget is gone.

### Workbench

The page is a script over session state.  Session state is the variables
`kept`, widget state is `type`, `mode`, `unticked` (Streamlit drops the state of
widgets that are no longer rendered), `url` survives a reload.  `script` is where
the script is: recovering the session of the URL, the sidebar with the box for an
earlier session, a pending discovery, the analysis action.  Every click starts
the script afresh, wherever it stands, and callbacks of buttons (`ConfirmScenario`,
`QueueScenario`, `Demo`) run before it.  A click abandons a run of the script at any
call of Streamlit (its scripts look for one at each call and at each access of the
session state) and where a call of the API returns, and the script's actions split
there: `Start`, `PopPending` and `StoreDiscovered`; `Confirm` and `StoreAnswered`;
`CreateRun`, `StoreRun` and `StorePayload`.  `store_supervisor_state` is an action per
write:

| `workbench/app.py` | Action |
|---|---|
| `:346` the session, with the answer that is stored | `Store` |
| `:347` the URL | `StoreURL` |
| `:352-362` the range is known | `StoreReady`; it goes on to the report only if `report_changed`, which is `Changed`, evaluated on the session before `:346` |
| `:369` the report | `StoreReport` |
| `:372` the rows of the table | `StoreTable` |
| `:375` the editor's revision | `StoreEdits`, which drops the edits |
| `:389` the payload of a completed session | `StoreOutcome` |
| `:394` its run, one more call of the API | `ReadRun`, `ReadRunFails` |

A click between them leaves the rest unwritten.  The history variable `partial` holds
the types whose last store of a new session has not come to its end, `torn` that only
one of payload and run was stored.  The fragments `PollSession` and `PollRun` run every
two seconds on an idle page.  The server's half, `owner` and `runs`, is what its
handlers answer with, including an answer lost on its way (`MaxFaults`).

`StatusOf` takes a GET to settle a session whose run has ended.  `SupervisorSession`
shows that of sessions no request crashed in (`CalmPollingReconciles`) and shows that
it fails where a completion crashed between its two checkpoints
(`BugPollingReconciles`); `AwaitedIsShown` speaks of the former.

### Bootstrap

`proc` is, per process, where it is in `Starting`, `Order(stage)` or serving, and
what it holds open.  Each step of `build_site_selection_bootstrap_from_environment`
is an action that opens something, goes on, or `Fails` (a service does not answer,
or a setting is refused where it is used); then the resources are unwound in the
code's order, each closing failing on its own; `Stop` closes a serving process.
The API starts once, every job starts anew.  `Import` replaces the authoritative
layer under running processes, `Seed` writes the demo layers at each start, and
`Discover` compares what a process read at its start with the rows it reads now.

Visible: nobody closes the OpenAI clients, and a POI client is lost when a later
setting of its provider is refused (`TheRestIsClosed` names both exceptions; RQ
forks a work horse per job, so what a job leaks goes with it).  `close()` of a served
process returns at once when it is called again (`_closed`,
`site_selection_bootstrap.py:238-240`); `Stop` happens once, so what `ClosedOnce`
watches are the builders and the unwinding, which have no such guard.

## 6. The abstract specifications

`RunSpec` is what a client may rely on: a status register that goes from absent
through queued and running to one outcome.  A key may expire, and an
acknowledgement that had read it may write it back, but then with the outcome
that was decided.  `ImplementsRunSpec == Abstract!Spec` in `RunLifecycle` states
that the detailed model implements it under the mapping
`status <- [r |-> run[r].status]`, `outcome <- outcome`.

`SessionSpec` is what a reviewer may rely on: a session goes from choosing
through submitting and awaiting to its end in that order, records one choice,
waits for one run of that choice, and ends with the outcome that run was decided
to have.  It composes `RunSpec` as well.  It is promised as long as no lease and
no held lock runs out; what remains true without that is checked in `session_storm`.
`ImplementsSessionSpec` maps the latest checkpoint to it.

## 7. Properties and runs

| Property | Statement | Hazard |
|---|---|---|
| *RunLifecycle* | | |
| `OneTerminalEvent` | the log names at most one terminal event, the decided one | transition and event are two commands |
| `AcknowledgedStays` | no step undoes an acknowledgement | the acknowledgement's plain SET against every other writer |
| `ReplayMatchesRequest` | a replay answers with a run of its own request | expiry between SET NX and GET |
| `RunningSettles` | a running run reaches an outcome (or expires) | hangs, silent deaths |
| `ImplementsRunSpec` | the steps are those of the register: one outcome, final | every writer acts on an earlier read; keys expire |
| *SupervisorSession* | | |
| `OneRunPerSession` | a session has at most one run, whatever lapses, crashes or is retried | a confirmation that dies after `create_run`; a lock that lapses under a synchronous analysis |
| `ConfirmedIsAnalysed` | the run a session waits for analyses the choice it records, which was validated | two confirmations in the graph with different choices |
| `ReportsOutcome` | the outcome recorded is that of the session's run | worker and poll completing together |
| `AuditIsTrue` | the audit list names no submission without a run and no outcome but the run's | events written after the lock is lost |
| `AuditIsOrdered` | nothing is confirmed after an outcome | the run ends while its confirmation is still recorded |
| `CalmPollingReconciles` | while nothing has crashed, a polled session whose run has ended ends | the worker's report lost or refused |
| `ImplementsSessionSpec` | checkpoints are the states of `SessionSpec`, one at a time | crashes between checkpoints |
| *ScenarioConversation* | | |
| `SessionIsCoherent` | the confirmed version is the active one, the proposed one the pending one; numbers count up | whole-document writes of stale copies |
| `ConfirmedIsExecutable` | what is confirmed has no conflict, nothing to clarify and valid ranges | readiness computed in another request than the confirmation |
| `RecordedIsExecutedWhenClear` | without a conflict in its line of descent a version executes the conversion of all it records | a record and a field updated at different places, one before and one after validation |
| `OnlyStaleWritesUndo` | a confirmation is replaced only by a later one or a stale write | read, modify, write |
| *POIProvider* | | |
| `RecoveredIsReal` | rows PostGIS recovers from were delivered by the provider | fallbacks between the provider and the sink |
| `PermitsAreSpaced` | an interval passes between two permits, of whatever threads | the limiter after an idle time |
| `SearchEnds` | a search that began ends | retries, pages, partitions and a half-open breaker |
| *CandidateDiscovery* | | |
| `SelectedAreSpread` | selected sites are apart, and what is left out is too close to a better one or the list is full | greedy selection with ties |
| `FormalNeedsRegister` | only parcels of the one readable register are called formal | four sources of land, by mode |
| `CompleteMeansAll` | evidence, repaired or not, and a range layer that claim to be complete are | tiles, merges, limits |
| `SlicesAreHonest` | a slice of a snapshot that claims to be complete is | truncation by distance and ties |
| `CohortsAreComparable` | candidates needing a supplement of one group are all asked or all refused | the budget runs out within a group |
| *AnalysisWorkflow* | | |
| `RowsWereThere` | a completed compliance analysis measured parcels that had rows | a layer replaced between its loads |
| `CompletedIsWhole` | a completed analysis ran every step and reports an answer per parcel and a rule result per observation | one branch fails while the others' results survive |
| `TraceIsCausal` | a node succeeded only after its dependencies did | barriers and supersteps |
| `ReportNamesPromptsUsed` | all agents of a review are called with the prompts of one approved version, which its report names | a promotion or rollback between two calls |
| `PromotedFromMeasured` | every promotion has a passing measurement behind it | a decision approved late |
| `AnalysisEnds` | an analysis ends | a barrier that waits for a skipped node |
| *AgentCollaboration* | | |
| `WithinBudget` | delegations, rounds, calls and supersteps stay in budget | failing calls, redelegation |
| `FailsClosed` | a review one of whose agents failed is not accepted | failures absorbed on the way to the end |
| `NoLostRevision` | the write that commits sets the record one above what it holds at that moment, and no other role's | two reviews between WATCH and EXEC |
| `StaleMemoryRefused` | an update naming the revision shown never replaces a later one | the same, across a model call |
| `ReviewEnds` | a review ends | delegation loops |
| *Workbench* | | |
| `ConfirmsWhatIsShown` | the session a confirmation names is the one in the table, and the rows taken out were of it, for a type whose last store came to its end | abandoned scripts, recovered and resumed sessions, dropped widgets |
| `ResultsMatch` | run and results belong together, unless one of the two was not stored | two steps, three paths |
| `AwaitedIsShown` | the end of an awaited run is announced without a click | only an idle page polls |
| *Bootstrap* | | |
| `TheRestIsClosed` | a process that is down has closed what it could (two named exceptions) | a failure at any step, and of any closing |
| `ClosedOnce` | nothing is closed twice | builders that close what they made, under a caller that unwinds |

| Run | Instance | Distinct states |
|---|---|---|
| `expiry` | 1 asynchronous run, 2 API threads, 1 key, 1 note, 1 fault; TTLs elapse at any moment; under fairness | 338 000 |
| `replay` | 2 runs, 2 API threads, 2 fingerprints, 1 key that expires at any moment | 245 000 |
| `session_calm` | 2 requests and the worker, a valid and a forged choice, 1 fault; leases last, locks lapse only when their holder is dead; under fairness | 398 000 |
| `session_storm` | 2 requests, 2 runs, 2 choices, 1 fault; leases expire and locks lapse at any moment | about 1 400 000 |
| `conversation` | 2 requests at a time of at most 4, 5 messages, 3 versions; a count with a fraction, a region with blanks | 1 410 000 |
| `provider` | 2 threads, 2 categories, 2 attempts, threshold 2, 1 fault; Amap with the fixture and Overpass without | 249 000 |
| `discovery` | 2 scoring groups, a third deployed late, 1 context batch, 5 sites, 3 towns, 5 registers, 3 services, 3 providers | 1 075 000 |
| `workflow` | 2 parcels, 1 constraint, 2 revisions per layer, 3 prompt versions, 2 activations, both graphs | 569 000 |
| `collaboration` | 2 reviews, 2 specialists, 3 budgets: two that contend for memory, one that goes on, one beyond the recursion limit | 134 000 |
| `workbench` | 2 retail types and another, 2 sessions, 1 fixture run, 5 clicks, 1 lost answer; under fairness | 718 000 |
| `bootstrap` | the API and a job, each feature on or off, one setting refused, 2 faults, 1 import | 1 640 000 |
| `recorded_is_executed` | 2 requests, a radius out of range | violation expected (section 8) |

*Bounds.*  Runs share no state but the idempotency records, so one run shows what
happens to a run; a replay needs a second: the key expires between the SET NX that
fails and the GET, and the other request claims it for the other run.  `replay` has
both and lets only one of the two runs be executed beyond its start (`OneExecuted`:
a replay reads nothing of an execution).  Sessions share nothing.  Two handlers are enough for every pair of API requests to
race each other and the worker, the callback and the alarm; a third would only
repeat a role, since a compare-and-set and a SET NX have one winner.  One fault
stops any one process at any step; the proofs cover any number.
`session_storm` cuts (`NoWorker`, `MaxVersion`, `MaxEvents`): an undisturbed
session has five checkpoints and five or six events, and the states one past a
bound are still checked, which leaves room for a transition to be repeated; the
worker's report is the completion a poll makes.  Two conversation requests are
one stale copy and what it overwrites; the four requests let a third version
descend from a lost one.  Two provider threads (one behind Overpass, whose
partitions are several searches already) are one that opens the breaker and one
that meets it; a threshold and a number of attempts of two separate the first
failure from the last.  Discovery's limit of two records is exceeded, met and
undershot by the towns, and `Before` breaks ties in them.  Two parcels are enough
for ties and for a parcel replaced while the other is measured.  The budgets of
`collaboration` lie just within and just beyond the recursion limit of 11.  Five
clicks of the workbench suffice to start, abandon, start again, confirm and
reload; the counterexamples of section 8 need at most five.  Two faults of
`bootstrap` are a failed step and a failed closing.

*State-space reductions.*  `session_storm`, `conversation` and `replay` declare symmetry, of
sets whose members no action or property names, and check no liveness.
`WhenItMatters` of `workflow` cuts steps that no later step can see: layers are
replaced only while the spatial branch may load them, and prompts are changed only
once a harness review is due, for one representative evidence, because the harness
looks at no evidence and the registry at no analysis.  `Confirmable` of `workbench` cuts
messages that leave the scenario unconfirmable: they start the script afresh, as every
click does, and nothing a property reads depends on them.

*Deadlock* is checked where a system has no end: sessions can always be polled, the
API restarts.  It is not checked where the story ends because a bound is reached
(runs, searches, reviews, one discovery, clicks) or the analysis has ended.

*Fairness.*  Each is what a thread, a process or a timer does by itself:

* runs: handlers and the executor take their next step unless killed, RQ starts
  queued jobs, fires alarms and kills overdue horses, time passes.  Stages may
  hang: nothing is assumed of `WorkflowEnds` and its kind.  `GetRun` is strongly
  fair: the workbench polls a run it shows, and each poll may be the one that finds
  it overdue;
* sessions: requests take their next step, a TTL elapses, a page polls the session
  it shows (strongly, since a poll may find every thread busy), reviewers do not
  confirm for ever.  The worker's report need not come;
* provider: threads and time go on; the limiter's lock is granted sometime
  (strong fairness of `Pace`).  Nothing has to recover;
* workflow and collaboration: what the graph's thread can do, it does; a model's
  call times out.  Imports, promotions and expiry need not happen;
* workbench: the script and the fragments run on, and the operator stops clicking
  at some time, for a click at every instant would abandon every run of the script.

*Mutants.*  The operators marked "Mutant" before a definition are plausible bugs (a
comparison dropped, a lock taken without NX, a reset forgotten, a guard on the
wrong half).  `PROJECT.json` says which property refuses each.

*Run by hand.*  `WorkflowTypes` checks the type invariant of the analysis and
`RanksAreCompetitionRanks`, which no theorem states.  The type invariants of the
modules with proofs are theorems.

## 8. Where documents, comments and the code disagree

`recorded_is_executed` is checked with the project: `_build_version` records a
constraint as executable before it validates the value; an invalid value is
replaced by a default in the version's fields while the record keeps it, and
conflicts are computed from the current turn only.  A radius out of range followed
by an unrelated message makes a version that may be confirmed, executes the
default and shows the invalid value as executed
(`site_selection_conversation.py:562`, against the reason it records at `:566`).

The following are instances a reader can run (`tlc -config Bug<...>.cfg <MC
module>`); in each TLC finds the property violated by what the code does.

| Configuration | Promise | What happens |
|---|---|---|
| `BugEnqueuedSettles` | `README.md:46`: timeout callback and reconciliation bring every run to an outcome | a worker that dies before writing RUNNING leaves the run queued; `get_run` looks at RUNNING only |
| `BugFirstNoteStays` | `notes/reliability-hitl-observability-notes.md:55`: a repeated acknowledgement keeps the first note | two that overlap do not |
| `BugRejectionKeepsPause` | `supervisor.py:475`: a rejected request does not consume the interrupt | the graph checkpoints the confirmation before `create_run`; when that raises, the request is audited as rejected and the pause is gone |
| `BugCompletionAuditedOnce` | `docs/agent-implementation-guide.md:1621`: a repeated completion appends no event | two that both saw the session waiting before either took the lock both append theirs |
| `BugPollingReconciles` | the guide, `:1583`: later polls repair a completion that failed | one that failed between its two checkpoints has left the pause polls look for |
| `BugOneTransition` | the guide, `:1621`: at most one call resumes the checkpoint | `deactivate` deletes the lock without comparing its token |
| `BugCalmIsAnswered` | docstring at `online_poi_adapters.py:452`: auditable partial data | partitions of a live and of a recovered dataset cannot be merged and raise, in a search that met no fault itself |
| `BugRepairedSlices` | docstring at `evidence_snapshot.py:419`: a covered circle lies inside the retained radius | a repaired group keeps the nearest records of its tiles, not of its centre |
| `BugUnmarkedRange` | `docs/candidate-discovery.md:75`, `docs/data-dictionary.md:69`: the flag marks records that may be incomplete | a lost context batch leaves the flag unset; only a warning says so |
| `BugAnalysis` (`FailedIsCleared`) | `notes/candidate-comparison-notes.md:187`: a failed node clears results and comparison | the last node of the sequential graph has no edge to the failed node (`workflow.py:214`) |
| `BugAnalysis` (`LineageNamesRevision`; TLC's `-continue` shows both) | `rules.py:77`: complete observation lineage | the lineage carries the version of the manifest read at start, not of the rows |
| `BugPromotionNeverRegresses` | `docs/agent-harness-evolution-evaluation.md:7`, `:46`: measured against the active version, no regression | a stored decision may be promoted after a better version was |
| `BugVersionIsRead` | the version a discovery reports is that of its rows | it was read at the start of the process (`site_selection_bootstrap.py:782`) |
| `BugNoDemoIsAuthoritative` | the guide, 36.6: a demo layer is not authoritative | existence is checked once, and a later job seeds a demo layer of that name again |
| `BugConfirmsShownSession` | the guide, `:1456`: a confirmation submits the checkpoint the page shows | a click between two writes of a store leaves the new session beside the report of the one before |
| `BugWorkbench` (`SummaryIsOfSession`) | the guide, `:2515`: the summary of a completed session reads its run | after a run of another session was stored, `app.py:776` summarises that one |
| `BugWorkbench` (`CompletedIsRead`) | the guide, `:1601`: after the end the page reads the run | when that one call fails, nothing calls again (`app.py:394`) |
| `BugWorkbench` (`DiscoveredOnce`, `StartsWhatIsShown`) | a discovery is started once, for the scenario shown (`app.py:176`; the guide, `:2096`, asks the operator not to click twice) | the pending request outlives a new version and, when the run of the script is abandoned, the discovery it started |

In `BugConfirmsShownSession`, `store_supervisor_state` writes the session
(`workbench/app.py:346`) and its report (`:369`) with calls of Streamlit in between.
Nothing repairs what a click there leaves, because `report_changed` (`:363-367`)
compares the session to be stored with the one stored already: a poll or a resumption of
the same session finds its report unchanged.  Where the ids of the candidates agree the
confirmation is accepted.  `ConfirmsWhatIsShown` is what remains true: a type whose last
store came to its end shows the session it confirms, and the next whole store of another
session of the type sets it right.

`BugWorkbench` holds four promises, of which TLC reports `DiscoveredOnce` first; leave
one of them in to see each (`CompletedIsRead` takes a minute, `StartsWhatIsShown` needs
`MaxVersions = 2`).

Two more are visible in the actions of `RunLifecycle`: the stages' `except
Exception` catch RQ's timeout, which `notes/async-worker-runtime-notes.md:38` calls
a hard limit recorded as `timed_out` (`AlarmFires`, `Fail`); and between the claim
of a key and the first save there is no run to return to a repeated request
(`Replay`), which `:30` of the same notes says is returned.

## 9. What is proved

All theorems hold for all values of the constants under the named assumptions of
the modules (names that are not `None`, bounds that are natural numbers, disjoint
roles, layers whose parcels lie within the bounds); none of TLC's bounds on runs, requests, faults, clicks or processes is
used.

| Module | Theorem | Statement |
|---|---|---|
| `RunLifecycleProofs` | `TypeCorrect`, `ReviewCorrect` | `Spec => []TypeOK`, `Spec => []ReviewNeedsOutcome` |
| | `TerminalStays` | `Spec => TerminalIsFinal` |
| | `AcknowledgementStays` | `Spec => AcknowledgedStays` |
| | `LogCorrect` | `Spec => []OneTerminalEvent` |
| | `ReplayCorrect` | `Spec => []ReplayMatchesRequest` |
| | `Refinement` | `Spec => ImplementsRunSpec` |
| `SupervisorSessionProofs` | `TypeCorrect` | `Spec => []TypeOK` |
| | `OneRun` | `Spec => []OneRunPerSession` |
| | `ChoiceIsAnalysed` | `Spec => []ConfirmedIsAnalysed` |
| | `OutcomeReported` | `Spec => []ReportsOutcome` |
| | `AuditCorrect` | `Spec => []AuditIsTrue` |
| | `OneTransitionCorrect` | `InTime`: `Spec => []OneTransition` |
| | `AuditInOrder` | `InTime`: `Spec => []AuditIsOrdered` |
| | `SessionRefinement` | `InTime`: `Spec => ImplementsSessionSpec` |
| `AnalysisWorkflowProofs` | `EvolutionTypeCorrect`, `AuditIsComplete` | `EvolutionSpec => []EvolutionTypeOK`, `EvolutionSpec => []AuditExplainsActive` |
| | `PromotionsAreMeasured` | `EvolutionSpec => []PromotedFromMeasured` |
| | `WorkflowTypeCorrect` | `Spec => []TypeOK` |
| | `TraceCorrect` | `Spec => []TraceIsCausal` |
| | `RowsCorrect` | `Spec => []RowsWereThere` |
| | `CompletedCorrect` | `Spec => []CompletedIsWhole` |
| | `ReportCorrect` | `Spec => []ReportNamesPromptsUsed` |
| | `PromptsBesideAnalysis` | `Spec => [](AuditExplainsActive /\ PromotedFromMeasured)` |
| `ScenarioProofs` | `ConversationTypeCorrect` | `ConversationSpec => []TalkTypes` |
| | `CoherenceCorrect` | `ConversationSpec => []SessionIsCoherent` |
| | `ExecutableCorrect` | `ConversationSpec => []ConfirmedIsExecutable` |
| | `RecordedCorrect` | `ConversationSpec => []RecordedIsExecutedWhenClear` |
| | `UndoingCorrect` | `ConversationSpec => OnlyStaleWritesUndo` |
| | `SelectionCorrect`, `FormalCorrect` | `Spec => []SelectedAreSpread`, `Spec => []FormalNeedsRegister` |
| | `EvidenceCorrect`, `SlicesCorrect` | `Spec => []CompleteMeansAll`, `Spec => []SlicesAreHonest` |
| | `CohortsCorrect` | `Spec => []CohortsAreComparable` |
| `POIProviderProofs` | `TypeCorrect` | `Spec => []TypeOK` |
| | `RecoveredCorrect` | `Spec => []RecoveredIsReal` |
| | `CalmCorrect` | `Spec => []CalmIsLive` |
| | `PermitsCorrect` | `Spec => PermitsAreSpaced` |
| `AgentCollaborationProofs` | `TypeCorrect` | `Spec => []TypeOK` |
| | `BudgetHolds` | `Spec => []WithinBudget` |
| | `ClosedCorrect` | `Spec => []FailsClosed` |
| | `RevisionsCorrect` | `Spec => NoLostRevision` |
| | `StaleRefused` | `Spec => StaleMemoryRefused` |
| `WorkbenchProofs` | `TypeCorrect` | `Spec => []TypeOK` |
| | `ConfirmsCorrect` | `Spec => []ConfirmsWhatIsShown` |
| | `ResultsCorrect` | `Spec => []ResultsMatch` |
| `BootstrapProofs` | `RestIsClosed` | `Spec => []TheRestIsClosed` |
| | `NothingClosedTwice` | `Spec => []ClosedOnce` |

**Runs.**  The inductive invariant has three layers, each proved on top of the last.

1. `TypeInv`: the types, and that a handler past its first step holds a run
   (`Located`) and a callback a verdict (`HasVerdict`).
2. `RunInv`: `Decided` (a terminal status is the outcome, an active one has
   none), `ReviewNeedsOutcome`, `CleanReads` (whoever will write from a stale
   read read no review), `AckKnowsOutcome` (an acknowledgement about to write
   holds the outcome even if the key has expired since), `Fresh` and `Saving`
   (only the thread that proposed a run id saves it, once).  Without
   `AckKnowsOutcome` the plain SET could not be shown harmless.
3. `LogInv`: a writer between its transition and its event is *due*; `OneDue`
   says at most one is, `DueIsDecided` that its event is the outcome, and
   `UndecidedIsUnlogged` that nothing terminal was logged before.

Beside them stands `ReplayInv`: an idempotency record names the request its run was
proposed for, and so does a replay, whatever has become of the record it read.  It
holds of any number of runs, keys and requests, expiry included.

The proofs do not consider every action against every conjunct.  Each action is
first shown to be one of a few *moves* of one run (`Submits`, `Proceeds`,
`Settles`, `Vanishes`, `IsAcknowledged`: lemma `NextMovesOne`), and one of a few
moves of the log; the invariants, the action properties and the refinement follow
from the moves.

**Sessions.**  The first five theorems hold in particular with `LeaseExpires = SlowHolders =
TRUE`, so without relying on the transition lock.  The invariant `SessionInv` says
why a stale request is harmless.  Requests carry copies of the session's state and
write them back over whatever is there; `Coherent` says that every copy, like the
thread itself, agrees with two things that are decided once: the run and choice of
the session's idempotency record, and the outcome of that run.  `Carries` adds what
a request knows at each program counter (a validated choice once it may load the
graph, the decided outcome while it is to be reported, the claimed run while it is
being saved), and `Decisions` that the only run is the claimed one.  While the world
only `Grows`, a copy stays coherent (`CoherentStays`, `CarriesStays`), so each action
has to be considered only for the request that takes it.

What the lock adds is proved under `InTime == ~LeaseExpires /\ ~SlowHolders`, which is
also what the run `session_calm` assumes; crashes and raises are still unbounded.
`LockInv` says that whoever is between `Acquire` and `Release` holds the key
(`Exclusive`: a lock left behind by a crash lapses only when nobody uses it), that a
session with a checkpoint has its lease, so that no request drops it (`Begun`), and
what the holder's copy is worth (`Faithful`): it is the thread, or the thread `Ahead`
by the one node whose checkpoint is still to be written.  `Ahead` is a disjunction of
the four steps of `SessionSpec`, so `Put` is the only action that needs an argument in
the refinement.  `Told` (an outcome is recorded only of a session at its end) gives
the order of the audit list, because a confirmation that still writes to it keeps the
session in its second pause.

**Prompt versions.**  A decision outlives the state it was made in; `DecisionsHold`
says what it is worth for ever (its candidate is a registered child of its baseline,
the measurements it compared do not change), which is all `Promote` reads.

**Analyses.**  Any number of candidates, constraints, layers and versions of them.
`StartsAfter` says that both graphs start a node only when those whose answers it
reads have ended, `BranchesAreClean` that the merge gate, the last node that looks at
the branches, passes on nothing a failed branch left and that a review follows no
refused gate; `TraceIsCausal` is their consequence.  `SpatialProgress` follows the three
passes of the spatial branch over the parcels: behind its cursor every parcel has
metrics, or a target, of a revision that holds rows for it.  Replacing a layer adds a
revision and changes none, so what the branch has read stays good, and a branch that
succeeded has read everything.  `EvidenceStands` adds what an ended branch leaves
behind until the review has ended: an answer for each parcel (`POIAnswered`), an
observation of each constraint (`Observing`), a rule result for each observation
(`RulesStand`), a result from the answers once one is assembled (`ResultsStand`), and
that a branch that failed has had its failure reach the gate (`NoneSwallowed`);
`CompletedIsWhole` is its conclusion.  Promotions and rollbacks happen beside the
analysis and touch nothing of it (`NextEvolution`), so the theorems about prompts hold
of the composed module as well.  `CallsItsBundle` says that every call of a review was
made with the bundle that was read, `PromptsApproved` that the bundle read is a
configured version or one an activation in the audit list answers for;
`ReportNamesPromptsUsed` is both.

**Conversations.**  Any number of requests, messages of any length and content, no
bound on versions.  The invariant `TalkInv` says of every session, whether it is the
stored one or a copy in the hands of a request, what `Sound` lists: identifiers are
distinct and were handed out, numbers are positions, a status is what the two pointers
say, parents precede children, a version that may be confirmed has what the executors
need, and as long as no version met a conflict each executes what it records.
`Confirming` carries the check of a confirmation to the moment it stores, across
whatever others store meanwhile; `Current` says that a copy as new as the store names
the same active version.  Neither needs a lock: a late writer stores a sound session,
only an older one, and `UndoingCorrect` says that this is the only harm.  What a message
makes of a draft is a fold over its actions; `AppliedIsIn` shows by induction that a set
of drafts closed under single actions contains the fold, and `TakenTyped` that typed
drafts, and those that execute the conversion of what they record, are such sets.
What is cast has nothing left to convert (`CastIs`, `ConvertedIs`), so validating a
cast draft changes only the values it refuses (`NormalIsCast`).

**Discovery.**  Any bounds, radius, limits, budget, profile, towns, layers and
services; `Spec` here is that of `CandidateDiscovery`.  `DiscoveryInv` says, besides
three of the properties themselves, how far each node and the graph are
(`ProgressHolds`: once joined, the ranking is that of the evidence and the pool), what
a passed gate has let through (`LandHolds`), that a stored snapshot is the evidence the
ranking was made from (`AnalysisHolds`) and what a set of evidence is worth
(`MarketHolds`): a set is `Honest` if what it neither invented nor read back are POIs
there are, all of them when it claims so, and as long as its group was not repaired it
`KeepsNearest`.  A repair gives the last up, which is why `SlicesAreHonest` speaks of the
groups that were never repaired and `BugRepairedSlices` finds the others wrong.  The
rest are facts about what the code computes:

* the order of a finite set is the ranking by the number of predecessors; that number
  is different for each element, so by counting every rank is taken once
  (`InOrderLists`), and a cut at a limit keeps those that come first
  (`CutKeepsFirst`, `NearestKeeps`);
* tiles over both halves of the bounds cover all that is in reach of the bounds, so a
  repaired group whose tiles are all complete has everything (`RepairIsHonest`);
* a circle inside the distance of the farthest record kept lost nothing to the cut
  (`SliceIsHonest`);
* what the greedy selection and the budget have after a prefix of their lists is
  proved by induction over the prefixes (`LeftFoldIn`): every site seen so far is
  chosen, or too close to a better one, or the list is full (`ChosenSettles`); the
  supplements are a union of whole cohorts (`AffordableIsWhole`).

**Induction.**  The library's induction theorems take an operator as a parameter and
cannot be used here.  What can be used is that strict inclusion of finite sets is
well-founded: it gives least elements of sets of naturals (`LeastNatural`), from them
induction over a *set* of numbers (`Induction`), and over the finite sets the folds of
the community modules run through (`SubsetInduction`); `FoldExists` shows that their
recursive function is one.

**Providers.**  Any number of threads, categories, configurations, attempts and
faults.  `Spaced` is what makes the limiter right whoever calls it: either an interval
has passed since the last permit, or what has passed and what the limiter still waits
for make one.  `Held` follows a search through the layers (a live answer on its way to
the sink is of categories already delivered; a synthetic one exists only where there
is a fixture, so never among partitions), from which `RecoveredIsReal` follows at the
one step that writes rows.  `Unspoilt` is what a search without faults has at each
layer: every category of its query is still to be asked for, in hand or collected.
With it the theorem shows that none of the seven layers loses a category or passes on
a degraded answer that the provider did not force.

**Agent reviews.**  Any number of reviews, roles, retries and supersteps, and any
budgets.  Of the invariant, `Counted` strengthens `WithinBudget`: an agent at work has
a call left (and the supervisor a delegation), and supersteps run `Ahead` of calls and
rounds by one at a forced review, which either ends the graph or costs a round, by two
at the end and by three when it is over.  `Remembers` relates a review to the memory
of its role: as long as the hash has not expired since the review was shown a
revision, revisions have only grown, strictly if another review wrote; an undisturbed
transaction replaces exactly what it read; and a checked update at EXEC has read what
it was shown.  `NotifyHolds` carries this across the writes of others, and
`NoLostRevision` and `StaleMemoryRefused` follow at the step that commits.  `Leaving`:
a broken review is on its way out with the status it fails with.

**Workbench.**  `IInv` is `Typed`, `Agreed` and `Matched`.  `Agreed` follows a session
through the writes of its store: the page holds it from the first on, what has been
written of it is there (its report at `table`, its report and rows at `edits`), and until
its table is whole its type is among the `partial` ones.  Without the last conjunct a
click in between could not be told from one at the end.  `Matched` says which half is
stored while a call is in between: at `reading` the payload is that of the run about to
be read, at `stored` the run is that of the payload about to be stored.  A step that
leaves the script without an answer changes neither (`QuietHolds`), which covers every
click; `StoreHolds` is one lemma for the ways to begin a store, `WritesHold` for the
writes that follow.

**Bootstrap.**  `RisingHolds`: what a starting process has open it knows of, or the
builder at work will give it up, or nobody will.  `HandedOverLate`: a resource is
known only past the stage that makes it, so a builder that closes its own is never
followed by an unwinding that closes it again.  `EndingHolds`: what an ending process
has open is still to be closed, refused to be, or belongs to nobody.

*Model-checked only.*  Liveness under fairness is out of the prover's reach:
`RunningSettles`, `CalmPollingReconciles`, `SearchEnds`, `AnalysisEnds`, `ReviewEnds`,
`AwaitedIsShown`.  Every safety property and every action property a passing run
checks is stated by a theorem.

## 10. Not modelled

* **Formatting and wording**: explanations, HTML and JSON reports, traces, warnings,
  tables, maps.  They are stages whose success or failure `RunLifecycle` enumerates.
* **Policy retrieval** (`policy_rag`): a pure function from a text index to passages.
* **MCP tools**: stateless adapters over the services modelled here.
* **Evaluation and scripts**: offline measurement.  The import of the authoritative
  layer and the migrations are actions of `Bootstrap`.
* **Geometry, projections, floating-point scores and their formulas**: outside TLC's
  reach; a score is a number that orders, a distance lies on a line.
* **HTTP**: routing, validation and the mapping of errors to status codes.  What a
  handler answers the page with is in `Workbench`.  A `create_app` that fails after
  its bootstrap leaks it until the process ends, which it then does.
* **SQL**: each repository operation is one statement or one transaction and is an
  atomic step of the module that calls it.
* **External**: Redis, RQ, LangGraph's scheduler and checkpointer, Streamlit,
  Overpass, Amap and the models are modelled as the code uses them, and marked
  external in the map where they take steps of their own.  RQ's alarm inside an
  `except` block that is already unwinding a failed start is left out.
* **The listing order of a trace** (`order_agent_traces`): `TraceIsCausal` is about what
  each step was when it ran, not about the sorted list that shows it.
* **Workbench**: the values of the range widgets, and the acknowledgement of a review,
  which changes only the run the page shows and is `Acknowledge` of `RunLifecycle`.
* **Land use**: parsing of polygons and the expiry of a cached answer (a kept answer
  or none is a parameter of `Observations`).
* **Plans of agents** (`agent_orchestration.py`): validation of plans nobody in the
  repository builds.

## 11. What could follow

1. A proof of `RanksAreCompetitionRanks`, which counts the rows above a row.
2. An abstract specification of a circuit breaker that `POIProvider` implements only
   without retries in flight.
3. Two repair tiles per axis and two scoring groups repaired together.
