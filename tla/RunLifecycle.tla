--------------------------- MODULE RunLifecycle ---------------------------
(***************************************************************************)
(* The life of an asynchronous site-selection run: API handlers that       *)
(* create, cancel, poll and acknowledge a run, the RQ job that executes    *)
(* it, RQ's timeout alarm and failure callback, and the Redis keys they    *)
(* all share.  A handler or an executor is a program counter and the local *)
(* values it carries; each action is one Redis command and the local code  *)
(* up to the next one, so every read made before a write can be stale.     *)
(***************************************************************************)
EXTENDS Naturals, Sequences

CONSTANTS
    Runs,          \* run identifiers handed out by run_id_factory
    Keys,          \* Idempotency-Key values
    Commands,      \* request fingerprints
    Handlers,      \* API request threads
    Notes,         \* notes an operator may write in an acknowledgement
    None,          \* no run, key, command or note
    Async,         \* TRUE: RQ facade; FALSE: the API executes the run itself
    KeysExpire,    \* whether Redis TTLs may elapse
    MaxFaults      \* crashes and I/O errors in one behaviour

ASSUME ConstantsAssumption ==
    /\ None \notin Runs \cup Keys \cup Commands \cup Notes
    /\ Async \in BOOLEAN
    /\ KeysExpire \in BOOLEAN
    /\ MaxFaults \in Nat

VARIABLES
    run,           \* Redis: the RunState stored under each run id
    idem,          \* Redis: the IdempotencyRecord stored under each key
    log,           \* Redis: the list of events of each run
    job,           \* RQ: what became of the run's job
    exec,          \* the process executing each run
    handler,       \* the API request threads
    payload,       \* the command a run id was proposed for
    alarm,         \* RQ's timeout alarm has fired for the run's job
    overdue,       \* RUNNING for longer than job timeout + grace
    faults,        \* crashes and I/O errors so far
    outcome        \* history: the terminal status first written, or "none"

vars == <<run, idem, log, job, exec, handler, payload, alarm, overdue,
          faults, outcome>>

-----------------------------------------------------------------------------

Terminal == {"completed", "failed", "cancelled", "timed_out"}
Active   == {"queued", "running"}
Status   == {"absent"} \cup Active \cup Terminal

Review == {"none", "not_required", "pending", "acknowledged"}

(* RunState: the status and the details other steps depend on. "absent" is *)
(* a missing key.                                                          *)
RunRecord == [status : Status,
              job    : BOOLEAN,              \* details.queue_job_id
              review : Review,               \* details.human_review.status
              note   : Notes \cup {None},    \* details.human_review.note
              report : BOOLEAN]              \* details.report_url

Absent == [status |-> "absent", job |-> FALSE, review |-> "none",
           note |-> None, report |-> FALSE]

IdemRecord == [run : Runs \cup {None}, cmd : Commands \cup {None}]

NoClaim == [run |-> None, cmd |-> None]

EventTypes == {"created", "enqueued", "started", "completed", "failed",
               "cancelled", "timed_out", "human_review_acknowledged"}

HandlerPCs ==
    {"idle",
     "replay_read", "replay",                             \* claim not created
     "save", "log_created",                               \* prepare_run
     "enq_read", "enq_cas", "log_enqueued", "enqueue",    \* mark_enqueued
     "eqf_read", "eqf_cas", "log_eqf",                    \* mark_enqueue_failed
     "can_read", "can_cas", "log_can", "can_stop",        \* cancel_run
     "to_read", "to_cas", "log_to",                       \* mark_timed_out
     "ack_write", "log_ack"}                              \* acknowledge

HandlerRecord == [pc      : HandlerPCs,
                  run     : Runs \cup {None},
                  key     : Keys \cup {None},
                  cmd     : Commands \cup {None},
                  seen    : RunRecord,       \* the state it read
                  note    : Notes \cup {None},
                  running : BOOLEAN]         \* cancel_run saw RUNNING

Idle == [pc |-> "idle", run |-> None, key |-> None, cmd |-> None,
         seen |-> Absent, note |-> None, running |-> FALSE]

(* Steps of execute_run inside a try block, and the ones outside.          *)
Staged    == {"workflow", "review", "explain", "report"}
Unguarded == {"read", "claim", "log_started", "check_error", "check_ok",
              "check_failed", "check_final", "publish", "log_completed",
              "fail", "log_failed"}
Callback  == {"cb_read", "cb_cas", "log_cb"}
Live      == Staged \cup Unguarded \cup Callback

ExecRecord == [pc     : {"none", "done"} \cup Live,
               base   : RunRecord,           \* the state it read
               review : Review,
               report : BOOLEAN,
               verdict: {"none", "failed", "timed_out"},  \* of the callback
               stop   : BOOLEAN]             \* a stop command was sent

NoExec == [pc |-> "none", base |-> Absent, review |-> "none",
           report |-> FALSE, verdict |-> "none", stop |-> FALSE]

Done == [NoExec EXCEPT !.pc = "done"]

TypeOK ==
    /\ run \in [Runs -> RunRecord]
    /\ idem \in [Keys -> IdemRecord]
    /\ log \in [Runs -> Seq(EventTypes)]
    /\ job \in [Runs -> {"none", "queued", "started", "removed"}]
    /\ exec \in [Runs -> ExecRecord]
    /\ handler \in [Handlers -> HandlerRecord]
    /\ payload \in [Runs -> Commands \cup {None}]
    /\ alarm \in [Runs -> BOOLEAN]
    /\ overdue \in [Runs -> BOOLEAN]
    /\ faults \in 0..MaxFaults
    /\ outcome \in [Runs -> {"none"} \cup Terminal]

Init ==
    /\ run = [r \in Runs |-> Absent]
    /\ idem = [k \in Keys |-> NoClaim]
    /\ log = [r \in Runs |-> <<>>]
    /\ job = [r \in Runs |-> "none"]
    /\ exec = [r \in Runs |-> NoExec]
    /\ handler = [h \in Handlers |-> Idle]
    /\ payload = [r \in Runs |-> None]
    /\ alarm = [r \in Runs |-> FALSE]
    /\ overdue = [r \in Runs |-> FALSE]
    /\ faults = 0
    /\ outcome = [r \in Runs |-> "none"]

-----------------------------------------------------------------------------
(* Redis and local-state helpers.                                          *)

(* The comparison made by the Lua script behind run_states.transition.     *)
Wins(r, from) == run[r].status \in from

(* A won transition: the new status with details computed by the caller.   *)
Write(r, record, t) ==
    /\ run' = [run EXCEPT ![r] = [record EXCEPT !.status = t]]
    /\ outcome' = IF t \in Terminal THEN [outcome EXCEPT ![r] = t]
                                    ELSE outcome

(* The details a writer adds to the ones it read.                          *)
WithJob(x) == [x EXCEPT !.job = TRUE]

WithReview(x, v) == [x EXCEPT !.review = v]

WithReport(x, v, made) == [x EXCEPT !.review = v, !.report = made]

WithAck(x, n) == [x EXCEPT !.review = "acknowledged", !.note = n]

LogEvent(r, e) == log' = [log EXCEPT ![r] = Append(@, e)]

Goto(h, pc) == handler' = [handler EXCEPT ![h].pc = pc]

Begin(h, record) == handler' = [handler EXCEPT ![h] = record]

Return(h) == handler' = [handler EXCEPT ![h] = Idle]

(* The handler reads the run it works on and goes on with what it saw.     *)
ReadThen(h, pc) ==
    handler' = [handler EXCEPT ![h].seen = run[handler[h].run], ![h].pc = pc]

ExecGoto(r, pc) == exec' = [exec EXCEPT ![r].pc = pc]

ExecReadThen(r, pc) == exec' = [exec EXCEPT ![r].base = run[r], ![r].pc = pc]

(* A stage hands a detail of the final status to the steps after it.       *)
KeepReview(r, v, pc) == exec' = [exec EXCEPT ![r].review = v, ![r].pc = pc]

KeepReport(r, made, pc) == exec' = [exec EXCEPT ![r].report = made, ![r].pc = pc]

ExecReturn(r) == exec' = [exec EXCEPT ![r] = Done]

(* Mutant: the callback does not look at the type of the exception.        *)
EscapeUntyped(r, verdict) ==
    exec' = [exec EXCEPT ![r] =
               IF Async THEN [Done EXCEPT !.pc = "cb_read", !.stop = exec[r].stop]
                        ELSE Done]

(* An exception leaves execute_run: RQ calls the failure callback; in the  *)
(* synchronous mode it becomes an HTTP error and nothing else happens.     *)
Escape(r, verdict) ==
    exec' = [exec EXCEPT ![r] =
               IF Async
                 THEN [Done EXCEPT !.pc = "cb_read", !.verdict = verdict,
                                   !.stop = exec[r].stop]
                 ELSE Done]

Fault == faults < MaxFaults /\ faults' = faults + 1

-----------------------------------------------------------------------------
(* create_run: prepare_run, then mark_enqueued and the RQ enqueue.         *)

(* A POST proposes a fresh run id and claims its idempotency key, if any,  *)
(* with SET NX.                                                            *)
KeyIsFree(k) == idem[k].run = None

CreateRun(h, c, k, r) ==
    /\ handler[h].pc = "idle"
    /\ payload[r] = None
    /\ k # None => KeyIsFree(k)
    /\ Begin(h, [Idle EXCEPT !.pc = "save", !.run = r, !.key = k, !.cmd = c])
    /\ payload' = [payload EXCEPT ![r] = c]
    /\ idem' = IF k = None THEN idem
                           ELSE [idem EXCEPT ![k] = [run |-> r, cmd |-> c]]
    /\ UNCHANGED <<run, log, job, exec, alarm, overdue, faults, outcome>>

(* SET NX found the key taken: the record is read by a second command.     *)
KeyTaken(h, c, k) ==
    /\ handler[h].pc = "idle"
    /\ ~KeyIsFree(k)
    /\ Begin(h, [Idle EXCEPT !.pc = "replay_read", !.key = k, !.cmd = c])
    /\ UNCHANGED <<run, idem, log, job, exec, payload, alarm, overdue, faults,
                   outcome>>

(* The record may have expired, or belong to another request: both raise.  *)
SameRequest(k, c) == idem[k].run # None /\ idem[k].cmd = c

(* Mutant: the record is read once for its fingerprint and again for its   *)
(* run.                                                                    *)
ReplayReadTwice(h) ==
    /\ handler[h].pc = "replay_read"
    /\ LET k == handler[h].key
       IN  IF handler[h].run = None
           THEN IF SameRequest(k, handler[h].cmd)
                THEN handler' = [handler EXCEPT ![h].run = idem[k].run]
                ELSE Return(h)
           ELSE IF KeyIsFree(k) THEN Return(h)
                ELSE handler' = [handler EXCEPT ![h].run = idem[k].run,
                                                ![h].pc = "replay"]
    /\ UNCHANGED <<run, idem, log, job, exec, payload, alarm, overdue, faults,
                   outcome>>

ReplayRead(h) ==
    /\ handler[h].pc = "replay_read"
    /\ IF SameRequest(handler[h].key, handler[h].cmd)
         THEN handler' = [handler EXCEPT ![h].run = idem[handler[h].key].run,
                                         ![h].pc = "replay"]
         ELSE Return(h)
    /\ UNCHANGED <<run, idem, log, job, exec, payload, alarm, overdue, faults,
                   outcome>>

(* Reads the claimed run: answers with it, or raises when it is absent.    *)
Replay(h) ==
    /\ handler[h].pc = "replay"
    /\ Return(h)
    /\ UNCHANGED <<run, idem, log, job, exec, payload, alarm, overdue, faults,
                   outcome>>

Save(h) ==
    /\ handler[h].pc = "save"
    /\ Write(handler[h].run, Absent, "queued")
    /\ Goto(h, "log_created")
    /\ UNCHANGED <<idem, log, job, exec, payload, alarm, overdue, faults>>

(* The synchronous service goes on to execute_run in the same request.     *)
LogCreated(h) ==
    /\ handler[h].pc = "log_created"
    /\ LogEvent(handler[h].run, "created")
    /\ IF Async
         THEN Goto(h, "enq_read") /\ UNCHANGED exec
         ELSE Return(h) /\ ExecGoto(handler[h].run, "read")
    /\ UNCHANGED <<run, idem, job, payload, alarm, overdue, faults, outcome>>

EnqRead(h) ==
    /\ handler[h].pc = "enq_read"
    /\ IF Wins(handler[h].run, {"queued"}) THEN ReadThen(h, "enq_cas")
                                           ELSE Return(h)
    /\ UNCHANGED <<run, idem, log, job, exec, payload, alarm, overdue, faults,
                   outcome>>

(* Mutant: RQ is given the job before the event is recorded.               *)
EnqCasAndEnqueue(h) ==
    /\ handler[h].pc = "enq_cas"
    /\ IF Wins(handler[h].run, {"queued"})
         THEN /\ Write(handler[h].run, WithJob(handler[h].seen), "queued")
              /\ job' = [job EXCEPT ![handler[h].run] = "queued"]
              /\ Goto(h, "log_enqueued")
         ELSE Return(h) /\ UNCHANGED <<run, job, outcome>>
    /\ UNCHANGED <<idem, log, exec, payload, alarm, overdue, faults>>

EnqCas(h) ==
    /\ handler[h].pc = "enq_cas"
    /\ IF Wins(handler[h].run, {"queued"})
         THEN /\ Write(handler[h].run, WithJob(handler[h].seen), "queued")
              /\ Goto(h, "log_enqueued")
         ELSE Return(h) /\ UNCHANGED <<run, outcome>>
    /\ UNCHANGED <<idem, log, job, exec, payload, alarm, overdue, faults>>

LogEnqueued(h) ==
    /\ handler[h].pc = "log_enqueued"
    /\ LogEvent(handler[h].run, "enqueued")
    /\ Goto(h, "enqueue")
    /\ UNCHANGED <<run, idem, job, exec, payload, alarm, overdue, faults,
                   outcome>>

Enqueue(h) ==
    /\ handler[h].pc = "enqueue"
    /\ job' = [job EXCEPT ![handler[h].run] = "queued"]
    /\ Return(h)
    /\ UNCHANGED <<run, idem, log, exec, payload, alarm, overdue, faults,
                   outcome>>

(* enqueue_call raises, perhaps after Redis has already taken the job.     *)
EnqueueRaises(h) ==
    /\ handler[h].pc = "enqueue"
    /\ Fault
    /\ \/ UNCHANGED job
       \/ job' = [job EXCEPT ![handler[h].run] = "queued"]
    /\ Goto(h, "eqf_read")
    /\ UNCHANGED <<run, idem, log, exec, payload, alarm, overdue, outcome>>

EqfRead(h) ==
    /\ handler[h].pc = "eqf_read"
    /\ IF Wins(handler[h].run, {"absent"}) THEN Return(h)
                                           ELSE ReadThen(h, "eqf_cas")
    /\ UNCHANGED <<run, idem, log, job, exec, payload, alarm, overdue, faults,
                   outcome>>

EqfCas(h) ==
    /\ handler[h].pc = "eqf_cas"
    /\ IF Wins(handler[h].run, {"queued"})
         THEN Write(handler[h].run, handler[h].seen, "failed") /\ Goto(h, "log_eqf")
         ELSE Return(h) /\ UNCHANGED <<run, outcome>>
    /\ UNCHANGED <<idem, log, job, exec, payload, alarm, overdue, faults>>

LogEqf(h) ==
    /\ handler[h].pc = "log_eqf"
    /\ LogEvent(handler[h].run, "failed")
    /\ Return(h)
    /\ UNCHANGED <<run, idem, job, exec, payload, alarm, overdue, faults,
                   outcome>>

-----------------------------------------------------------------------------
(* cancel_run.  The facade's first read decides how RQ is told; requests   *)
(* it refuses (already terminal, no queue job yet) change nothing.         *)
CancelRun(h, r) ==
    /\ handler[h].pc = "idle"
    /\ Wins(r, Active)
    /\ Async => run[r].job
    /\ Begin(h, [Idle EXCEPT !.pc = "can_read", !.run = r,
                             !.running = Async /\ Wins(r, {"running"})])
    /\ UNCHANGED <<run, idem, log, job, exec, payload, alarm, overdue, faults,
                   outcome>>

CancelRead(h) ==
    /\ handler[h].pc = "can_read"
    /\ IF Wins(handler[h].run, Active) THEN ReadThen(h, "can_cas") ELSE Return(h)
    /\ UNCHANGED <<run, idem, log, job, exec, payload, alarm, overdue, faults,
                   outcome>>

(* Mutants: the status read before is trusted instead of compared again;   *)
(* the event is appended whether or not the transition was won.            *)
CancelBlindly(h) ==
    /\ handler[h].pc = "can_cas"
    /\ Write(handler[h].run, handler[h].seen, "cancelled")
    /\ Goto(h, "log_can")
    /\ UNCHANGED <<idem, log, job, exec, payload, alarm, overdue, faults>>

CancelLogsAnyway(h) ==
    /\ handler[h].pc = "can_cas"
    /\ IF Wins(handler[h].run, Active)
         THEN Write(handler[h].run, handler[h].seen, "cancelled")
         ELSE UNCHANGED <<run, outcome>>
    /\ Goto(h, "log_can")
    /\ UNCHANGED <<idem, log, job, exec, payload, alarm, overdue, faults>>

CancelCas(h) ==
    /\ handler[h].pc = "can_cas"
    /\ IF Wins(handler[h].run, Active)
         THEN /\ Write(handler[h].run, handler[h].seen, "cancelled")
              /\ Goto(h, "log_can")
         ELSE Return(h) /\ UNCHANGED <<run, outcome>>
    /\ UNCHANGED <<idem, log, job, exec, payload, alarm, overdue, faults>>

LogCancelled(h) ==
    /\ handler[h].pc = "log_can"
    /\ LogEvent(handler[h].run, "cancelled")
    /\ IF Async THEN Goto(h, "can_stop") ELSE Return(h)
    /\ UNCHANGED <<run, idem, job, exec, payload, alarm, overdue, faults,
                   outcome>>

(* queue.cancel: best effort, told by a possibly stale running flag.       *)
CancelJob(h) ==
    LET r == handler[h].run
    IN  /\ handler[h].pc = "can_stop"
        /\ exec' = IF handler[h].running /\ exec[r].pc \in Live
                     THEN [exec EXCEPT ![r].stop = TRUE] ELSE exec
        /\ job' = IF ~handler[h].running /\ job[r] = "queued"
                    THEN [job EXCEPT ![r] = "removed"] ELSE job
        /\ Return(h)
        /\ UNCHANGED <<run, idem, log, payload, alarm, overdue, faults, outcome>>

(* Mutant: the reconciliation looks for the wrong status.                  *)
GetRunOfQueued(h, r) ==
    /\ handler[h].pc = "idle"
    /\ Async
    /\ Wins(r, {"queued"})
    /\ overdue[r]
    /\ Begin(h, [Idle EXCEPT !.pc = "to_read", !.run = r])
    /\ UNCHANGED <<run, idem, log, job, exec, payload, alarm, overdue, faults,
                   outcome>>

-----------------------------------------------------------------------------
(* QueuedSiteSelectionRunService.get_run: the reconciliation of stale runs.*)
GetRun(h, r) ==
    /\ handler[h].pc = "idle"
    /\ Async
    /\ Wins(r, {"running"})
    /\ overdue[r]
    /\ Begin(h, [Idle EXCEPT !.pc = "to_read", !.run = r])
    /\ UNCHANGED <<run, idem, log, job, exec, payload, alarm, overdue, faults,
                   outcome>>

TimedOutRead(h) ==
    /\ handler[h].pc = "to_read"
    /\ IF Wins(handler[h].run, Active) THEN ReadThen(h, "to_cas") ELSE Return(h)
    /\ UNCHANGED <<run, idem, log, job, exec, payload, alarm, overdue, faults,
                   outcome>>

(* Mutant: the status read before is trusted instead of compared again.    *)
TimeOutBlindly(h) ==
    /\ handler[h].pc = "to_cas"
    /\ Write(handler[h].run, handler[h].seen, "timed_out")
    /\ Goto(h, "log_to")
    /\ UNCHANGED <<idem, log, job, exec, payload, alarm, overdue, faults>>

TimedOutCas(h) ==
    /\ handler[h].pc = "to_cas"
    /\ IF Wins(handler[h].run, Active)
         THEN /\ Write(handler[h].run, handler[h].seen, "timed_out")
              /\ Goto(h, "log_to")
         ELSE Return(h) /\ UNCHANGED <<run, outcome>>
    /\ UNCHANGED <<idem, log, job, exec, payload, alarm, overdue, faults>>

LogTimedOut(h) ==
    /\ handler[h].pc = "log_to"
    /\ LogEvent(handler[h].run, "timed_out")
    /\ Return(h)
    /\ UNCHANGED <<run, idem, job, exec, payload, alarm, overdue, faults,
                   outcome>>

(* Mutant: a run is acknowledged without a pending review.                 *)
AcknowledgeAnyRun(h, r, n) ==
    /\ handler[h].pc = "idle"
    /\ ~Wins(r, {"absent"})
    /\ Begin(h, [Idle EXCEPT !.pc = "ack_write", !.run = r, !.note = n,
                             !.seen = run[r]])
    /\ UNCHANGED <<run, idem, log, job, exec, payload, alarm, overdue, faults,
                   outcome>>

-----------------------------------------------------------------------------
(* acknowledge_human_review.  Every other review status answers without a  *)
(* write.                                                                  *)
Acknowledge(h, r, n) ==
    /\ handler[h].pc = "idle"
    /\ run[r].review = "pending"
    /\ Begin(h, [Idle EXCEPT !.pc = "ack_write", !.run = r, !.note = n,
                             !.seen = run[r]])
    /\ UNCHANGED <<run, idem, log, job, exec, payload, alarm, overdue, faults,
                   outcome>>

(* run_states.update, a plain SET of the status that was read.  It passes  *)
(* no error text, which RunState refuses for a failed run.                 *)
AckWrite(h) ==
    /\ handler[h].pc = "ack_write"
    /\ IF handler[h].seen.status \in {"failed", "timed_out"}
         THEN Return(h) /\ UNCHANGED run
         ELSE /\ run' = [run EXCEPT ![handler[h].run] =
                                     WithAck(handler[h].seen, handler[h].note)]
              /\ Goto(h, "log_ack")
    /\ UNCHANGED <<idem, log, job, exec, payload, alarm, overdue, faults,
                   outcome>>

LogAck(h) ==
    /\ handler[h].pc = "log_ack"
    /\ LogEvent(handler[h].run, "human_review_acknowledged")
    /\ Return(h)
    /\ UNCHANGED <<run, idem, job, exec, payload, alarm, overdue, faults,
                   outcome>>

(* The API process dies, or a Redis call of the handler raises.            *)
HandlerFails(h) ==
    /\ handler[h].pc # "idle"
    /\ Fault
    /\ Return(h)
    /\ UNCHANGED <<run, idem, log, job, exec, payload, alarm, overdue, outcome>>

-----------------------------------------------------------------------------
(* The RQ worker and execute_run.                                          *)

JobStarts(r) ==
    /\ job[r] = "queued"
    /\ exec[r].pc = "none"
    /\ job' = [job EXCEPT ![r] = "started"]
    /\ ExecGoto(r, "read")
    /\ UNCHANGED <<run, idem, log, handler, payload, alarm, overdue, faults,
                   outcome>>

(* get_run and the checks before the claim.  A missing run, a run that is  *)
(* not queued, or an evidence snapshot that has expired raises.            *)
ExecRead(r) ==
    /\ exec[r].pc = "read"
    /\ \/ Wins(r, {"queued"}) /\ ExecReadThen(r, "claim")
       \/ Wins(r, Terminal) /\ ExecReturn(r)
       \/ ~Wins(r, Terminal) /\ Escape(r, "failed")
    /\ UNCHANGED <<run, idem, log, job, handler, payload, alarm, overdue,
                   faults, outcome>>

(* Mutants: the claim does not compare the status; it replaces the details *)
(* of the run instead of adding to them.                                   *)
ClaimBlindly(r) ==
    /\ exec[r].pc = "claim"
    /\ Write(r, exec[r].base, "running")
    /\ ExecGoto(r, "log_started")
    /\ UNCHANGED <<idem, log, job, handler, payload, alarm, overdue, faults>>

ClaimDropsDetails(r) ==
    /\ exec[r].pc = "claim"
    /\ IF Wins(r, {"queued"})
         THEN Write(r, Absent, "running") /\ ExecGoto(r, "log_started")
         ELSE /\ IF Wins(r, Terminal) THEN ExecReturn(r) ELSE Escape(r, "failed")
              /\ UNCHANGED <<run, outcome>>
    /\ UNCHANGED <<idem, log, job, handler, payload, alarm, overdue, faults>>

(* The re-read after a lost claim only chooses between a return and a      *)
(* raise; the terminal statuses it looks for cannot change back.           *)
ExecClaim(r) ==
    /\ exec[r].pc = "claim"
    /\ IF Wins(r, {"queued"})
         THEN Write(r, exec[r].base, "running") /\ ExecGoto(r, "log_started")
         ELSE /\ IF Wins(r, Terminal) THEN ExecReturn(r) ELSE Escape(r, "failed")
              /\ UNCHANGED <<run, outcome>>
    /\ UNCHANGED <<idem, log, job, handler, payload, alarm, overdue, faults>>

LogStarted(r) ==
    /\ exec[r].pc = "log_started"
    /\ LogEvent(r, "started")
    /\ ExecGoto(r, "workflow")
    /\ UNCHANGED <<run, idem, job, handler, payload, alarm, overdue, faults,
                   outcome>>

(* The workflow raises, or returns a completed or a failed analysis.       *)
WorkflowEnds(r) ==
    /\ exec[r].pc = "workflow"
    /\ \E pc \in {"check_error", "check_ok", "check_failed"} : ExecGoto(r, pc)
    /\ UNCHANGED <<run, idem, log, job, handler, payload, alarm, overdue,
                   faults, outcome>>

(* _externally_terminated looks for CANCELLED and TIMED_OUT only.          *)
StoppedOutside(r) == Wins(r, {"cancelled", "timed_out"})

ExecCheck(r) ==
    /\ exec[r].pc \in {"check_error", "check_ok", "check_failed", "check_final"}
    /\ IF StoppedOutside(r) THEN ExecReturn(r)
       ELSE IF Wins(r, {"absent"}) THEN Escape(r, "failed")
       ELSE ExecGoto(r, CASE exec[r].pc = "check_ok"    -> "review"
                          [] exec[r].pc = "check_final" -> "publish"
                          [] OTHER                      -> "fail")
    /\ UNCHANGED <<run, idem, log, job, handler, payload, alarm, overdue,
                   faults, outcome>>

(* build_human_review_state; a missing evidence review raises.             *)
ReviewEnds(r) ==
    /\ exec[r].pc = "review"
    /\ \/ \E v \in {"not_required", "pending"} : KeepReview(r, v, "explain")
       \/ ExecGoto(r, "fail")
    /\ UNCHANGED <<run, idem, log, job, handler, payload, alarm, overdue,
                   faults, outcome>>

(* An explainer that raises is recorded as a failed explanation.           *)
ExplainEnds(r) ==
    /\ exec[r].pc = "explain"
    /\ ExecGoto(r, "report")
    /\ UNCHANGED <<run, idem, log, job, handler, payload, alarm, overdue,
                   faults, outcome>>

(* The report is written, is not configured, or fails to be written.       *)
ReportEnds(r) ==
    /\ exec[r].pc = "report"
    /\ \/ \E made \in BOOLEAN : KeepReport(r, made, "check_final")
       \/ ExecGoto(r, "fail")
    /\ UNCHANGED <<run, idem, log, job, handler, payload, alarm, overdue,
                   faults, outcome>>

(* Mutant: the final transition does not compare the status.               *)
PublishBlindly(r) ==
    /\ exec[r].pc = "publish"
    /\ Write(r, WithReport(exec[r].base, exec[r].review, exec[r].report), "completed")
    /\ ExecGoto(r, "log_completed")
    /\ UNCHANGED <<idem, log, job, handler, payload, alarm, overdue, faults>>

Publish(r) ==
    /\ exec[r].pc = "publish"
    /\ IF Wins(r, {"running"})
         THEN /\ Write(r, WithReport(exec[r].base, exec[r].review, exec[r].report),
                       "completed")
              /\ ExecGoto(r, "log_completed")
         ELSE /\ IF Wins(r, {"absent"}) THEN Escape(r, "failed") ELSE ExecReturn(r)
              /\ UNCHANGED <<run, outcome>>
    /\ UNCHANGED <<idem, log, job, handler, payload, alarm, overdue, faults>>

LogCompleted(r) ==
    /\ exec[r].pc = "log_completed"
    /\ LogEvent(r, "completed")
    /\ ExecReturn(r)
    /\ UNCHANGED <<run, idem, job, handler, payload, alarm, overdue, faults,
                   outcome>>

(* Every failure path of execute_run: the details written are the ones     *)
(* gathered so far, so a failed report keeps the review that precedes it.  *)
Fail(r) ==
    /\ exec[r].pc = "fail"
    /\ IF Wins(r, {"running"})
         THEN /\ Write(r, WithReview(exec[r].base, exec[r].review), "failed")
              /\ ExecGoto(r, "log_failed")
         ELSE /\ IF Wins(r, {"absent"}) THEN Escape(r, "failed") ELSE ExecReturn(r)
              /\ UNCHANGED <<run, outcome>>
    /\ UNCHANGED <<idem, log, job, handler, payload, alarm, overdue, faults>>

LogFailed(r) ==
    /\ exec[r].pc = "log_failed"
    /\ LogEvent(r, "failed")
    /\ ExecReturn(r)
    /\ UNCHANGED <<run, idem, job, handler, payload, alarm, overdue, faults,
                   outcome>>

-----------------------------------------------------------------------------
(* record_site_selection_job_failure, called by RQ after an exception.     *)
CallbackRead(r) ==
    /\ exec[r].pc = "cb_read"
    /\ IF Wins(r, Active) THEN ExecReadThen(r, "cb_cas") ELSE ExecReturn(r)
    /\ UNCHANGED <<run, idem, log, job, handler, payload, alarm, overdue,
                   faults, outcome>>

(* Mutant: the callback appends its event even if it came too late.        *)
CallbackLogsAnyway(r) ==
    /\ exec[r].pc = "cb_cas"
    /\ IF Wins(r, Active) THEN Write(r, exec[r].base, exec[r].verdict)
                          ELSE UNCHANGED <<run, outcome>>
    /\ ExecGoto(r, "log_cb")
    /\ UNCHANGED <<idem, log, job, handler, payload, alarm, overdue, faults>>

CallbackCas(r) ==
    /\ exec[r].pc = "cb_cas"
    /\ IF Wins(r, Active)
         THEN Write(r, exec[r].base, exec[r].verdict) /\ ExecGoto(r, "log_cb")
         ELSE ExecReturn(r) /\ UNCHANGED <<run, outcome>>
    /\ UNCHANGED <<idem, log, job, handler, payload, alarm, overdue, faults>>

LogCallback(r) ==
    /\ exec[r].pc = "log_cb"
    /\ LogEvent(r, exec[r].verdict)
    /\ ExecReturn(r)
    /\ UNCHANGED <<run, idem, job, handler, payload, alarm, overdue, faults,
                   outcome>>

-----------------------------------------------------------------------------
(* The world around the executor.                                          *)

(* JobTimeoutException is raised wherever the job happens to be. It is an  *)
(* Exception, so the try blocks around the stages handle it as any other,  *)
(* and a provider inside the workflow may take it for a network error.     *)
AlarmFires(r) ==
    /\ Async
    /\ ~alarm[r]
    /\ exec[r].pc \in Staged \cup Unguarded
    /\ alarm' = [alarm EXCEPT ![r] = TRUE]
    /\ \/ exec[r].pc \in Unguarded /\ Escape(r, "timed_out")
       \/ exec[r].pc = "workflow" /\ ExecGoto(r, "check_error")
       \/ exec[r].pc = "workflow" /\ ExecGoto(r, "check_failed")
       \/ exec[r].pc = "workflow" /\ UNCHANGED exec
       \/ exec[r].pc \in {"review", "report"} /\ ExecGoto(r, "fail")
       \/ exec[r].pc = "explain" /\ ExecGoto(r, "report")
    /\ UNCHANGED <<run, idem, log, job, handler, payload, overdue, faults,
                   outcome>>

(* A Redis call outside the stages raises.  The callback takes any type    *)
(* whose name contains Timeout, Redis's own too, for a timeout.            *)
ExecRaises(r) ==
    /\ exec[r].pc \in Unguarded
    /\ Fault
    /\ \E verdict \in {"failed", "timed_out"} : Escape(r, verdict)
    /\ UNCHANGED <<run, idem, log, job, handler, payload, alarm, overdue,
                   outcome>>

(* The work horse (or the API process that executes a run) dies. RQ may    *)
(* find the job abandoned and call the failure callback for it.            *)
HorseDies(r) ==
    /\ exec[r].pc \in Live
    /\ Fault
    /\ \/ ExecReturn(r)
       \/ exec[r].pc \notin Callback /\ Escape(r, "failed")
    /\ UNCHANGED <<run, idem, log, job, handler, payload, alarm, overdue,
                   outcome>>

(* RQ kills a horse told to stop, or one that outlives its alarm.          *)
HorseKilled(r) ==
    /\ exec[r].pc \in Live
    /\ exec[r].stop \/ alarm[r]
    /\ ExecReturn(r)
    /\ UNCHANGED <<run, idem, log, job, handler, payload, alarm, overdue,
                   faults, outcome>>

(* job_timeout + stale_run_grace_seconds have passed since RUNNING was     *)
(* written: the alarm is set for job_timeout, so it has fired by then      *)
(* unless nothing executes the run any more.                               *)
GracePasses(r) ==
    /\ Async
    /\ Wins(r, {"running"})
    /\ ~overdue[r]
    /\ alarm[r] \/ exec[r].pc \notin Live
    /\ overdue' = [overdue EXCEPT ![r] = TRUE]
    /\ UNCHANGED <<run, idem, log, job, exec, handler, payload, alarm, faults,
                   outcome>>

KeyExpires(k) ==
    /\ KeysExpire
    /\ idem[k] # NoClaim
    /\ idem' = [idem EXCEPT ![k] = NoClaim]
    /\ UNCHANGED <<run, log, job, exec, handler, payload, alarm, overdue,
                   faults, outcome>>

(* The idempotency TTL is at most the run TTL and starts earlier: the key  *)
(* that names a run is gone before the run is.                             *)
RunExpires(r) ==
    /\ KeysExpire
    /\ run[r].status # "absent"
    /\ \A k \in Keys : idem[k].run # r
    /\ run' = [run EXCEPT ![r] = Absent]
    /\ UNCHANGED <<idem, log, job, exec, handler, payload, alarm, overdue,
                   faults, outcome>>

-----------------------------------------------------------------------------

Request(h) ==
    \/ \E c \in Commands, k \in Keys \cup {None}, r \in Runs : CreateRun(h, c, k, r)
    \/ \E c \in Commands, k \in Keys : KeyTaken(h, c, k)
    \/ \E r \in Runs : CancelRun(h, r)
    \/ \E r \in Runs : GetRun(h, r)
    \/ \E r \in Runs, n \in Notes \cup {None} : Acknowledge(h, r, n)

HandlerStep(h) ==
    \/ ReplayRead(h) \/ Replay(h) \/ Save(h) \/ LogCreated(h)
    \/ EnqRead(h) \/ EnqCas(h) \/ LogEnqueued(h) \/ Enqueue(h)
    \/ EqfRead(h) \/ EqfCas(h) \/ LogEqf(h)
    \/ CancelRead(h) \/ CancelCas(h) \/ LogCancelled(h) \/ CancelJob(h)
    \/ TimedOutRead(h) \/ TimedOutCas(h) \/ LogTimedOut(h)
    \/ AckWrite(h) \/ LogAck(h)

StageEnds(r) == WorkflowEnds(r) \/ ReviewEnds(r) \/ ExplainEnds(r) \/ ReportEnds(r)

ExecStep(r) ==
    \/ ExecRead(r) \/ ExecClaim(r) \/ LogStarted(r) \/ ExecCheck(r)
    \/ Publish(r) \/ LogCompleted(r) \/ Fail(r) \/ LogFailed(r)
    \/ CallbackRead(r) \/ CallbackCas(r) \/ LogCallback(r)

Environment(r) ==
    \/ JobStarts(r) \/ AlarmFires(r) \/ HorseKilled(r) \/ GracePasses(r)
    \/ ExecRaises(r) \/ HorseDies(r) \/ RunExpires(r)

Next ==
    \/ \E h \in Handlers :
         Request(h) \/ HandlerStep(h) \/ EnqueueRaises(h) \/ HandlerFails(h)
    \/ \E r \in Runs : ExecStep(r) \/ StageEnds(r) \/ Environment(r)
    \/ \E k \in Keys : KeyExpires(k)

Spec == Init /\ [][Next]_vars

(* A process that is not killed goes on: handlers and the executor take    *)
(* their next step, RQ starts a queued job, fires its alarm and kills an   *)
(* overrunning horse, and time passes.  A stage may hang: nothing is       *)
(* assumed of StageEnds.  The workbench keeps polling a run it shows, so a *)
(* poll that can find it overdue again and again is eventually made.       *)
Fairness ==
    /\ \A h \in Handlers :
         /\ WF_vars(HandlerStep(h))
         /\ \A r \in Runs : SF_vars(GetRun(h, r))
    /\ \A r \in Runs :
         /\ WF_vars(ExecStep(r))
         /\ WF_vars(JobStarts(r))
         /\ WF_vars(AlarmFires(r))
         /\ WF_vars(HorseKilled(r))
         /\ WF_vars(GracePasses(r))

FairSpec == Spec /\ Fairness

-----------------------------------------------------------------------------
(* Correctness.                                                            *)

(* A terminal status never changes again: a late worker, callback,         *)
(* cancellation, reconciliation or acknowledgement, all of which act on an *)
(* earlier read, cannot overwrite the outcome that won.                    *)
TerminalIsFinal ==
    [][\A r \in Runs : run[r].status \in Terminal
                         => run'[r].status \in {run[r].status, "absent"}]_vars

(* The audit log of a run names at most one terminal event, and it is the  *)
(* outcome that was decided, although every writer appends its event in a  *)
(* command of its own after its transition, and may die in between.        *)
OneTerminalEvent ==
    \A r \in Runs : \A i, j \in DOMAIN log[r] :
        log[r][i] \in Terminal
          => log[r][i] = outcome[r] /\ (log[r][j] \in Terminal => i = j)

(* A human review appears only together with a terminal status. The        *)
(* acknowledgement writes the status it read with a plain SET, which is    *)
(* harmless only because of this.                                          *)
ReviewNeedsOutcome ==
    \A r \in Runs : run[r].review # "none" => run[r].status \in {"completed", "failed"}

(* An acknowledgement is never undone while the run exists.                *)
AcknowledgedStays ==
    [][\A r \in Runs : run[r].review = "acknowledged"
                         => \/ run'[r].review = "acknowledged"
                            \/ run'[r].status = "absent"]_vars

(* Whatever RQ executes can be cancelled: the queue job id that cancel_run *)
(* needs was recorded before the worker could read the run, and the        *)
(* details the worker writes from its own read do not drop it.             *)
RunningIsCancellable ==
    \A r \in Runs : Async /\ run[r].status = "running" => run[r].job

(* The events of a run are enqueued before started, and started once, in   *)
(* every interleaving of the API thread that enqueues and the worker.      *)
StartFollowsEnqueue ==
    \A r \in Runs : \A i \in DOMAIN log[r] :
        Async /\ log[r][i] = "started"
          => /\ \E j \in 1..(i - 1) : log[r][j] = "enqueued"
             /\ \A j \in 1..(i - 1) : log[r][j] # "started"

(* A replayed idempotency key never answers with a run that was created    *)
(* for another request (RedisSiteSelectionRuntimeStore.claim_idempotency,  *)
(* a SET NX and, when it fails, a GET): not even when the key expires and  *)
(* another request claims it for its own run between the two.              *)
ReplayMatchesRequest ==
    \A h \in Handlers :
        handler[h].pc = "replay" => payload[handler[h].run] = handler[h].cmd

(* A running run reaches an outcome, although its worker may hang or die   *)
(* silently: the alarm, the callback and the polled reconciliation cover   *)
(* for each other.                                                         *)
RunningSettles ==
    \A r \in Runs : run[r].status = "running" ~> run[r].status # "running"

(* What clients see of a run is the status register of RunSpec.            *)
Abstract == INSTANCE RunSpec WITH status  <- [r \in Runs |-> run[r].status],
                                  outcome <- outcome

ImplementsRunSpec == Abstract!Spec

-----------------------------------------------------------------------------
(* Statements of the documentation that the code does not keep.            *)

(* README: the timeout callback and the reconciliation together bring      *)
(* every run to a definite outcome; here, every run RQ was given.          *)
EnqueuedSettles ==
    \A r \in Runs : job[r] = "queued" ~> run[r].status \in Terminal

(* Reliability notes: a repeated acknowledgement does not overwrite the    *)
(* note of the first.                                                      *)
FirstNoteStays ==
    [][\A r \in Runs :
         run[r].review = "acknowledged" /\ run'[r].review = "acknowledged"
           => run'[r].note = run[r].note]_vars

=============================================================================
