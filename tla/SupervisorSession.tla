-------------------------- MODULE SupervisorSession --------------------------
(***************************************************************************)
(* A Supervisor session: a LangGraph thread checkpointed in Postgres, its  *)
(* lease, transition lock and event list in Redis, and the requests that   *)
(* move it: confirmations and polls from the API, and the worker that      *)
(* reports the end of the session's run.  The run service it drives is the *)
(* register of RunSpec.                                                    *)
(*                                                                         *)
(* Sessions share nothing, so the module describes one.  A request is a    *)
(* program counter and the values it carries; an action is one command to  *)
(* Redis, Postgres or the run service and the local code up to the next.   *)
(***************************************************************************)
EXTENDS Naturals, Sequences

CONSTANTS
    Runs,          \* run identifiers
    Selections,    \* what a reviewer may send
    Allowed,       \* the selections _validate_confirmation lets pass
    Handlers,      \* API request threads
    Worker,        \* the RQ worker, or its failure callback
    None,          \* no run, selection or request
    LeaseExpires,  \* whether the session's TTL may elapse
    SlowHolders,   \* whether the lock's TTL may elapse under its holder
    MaxFaults      \* crashes and I/O errors in one behaviour

ASSUME ConstantsAssumption ==
    /\ Allowed \subseteq Selections
    /\ None \notin Runs \cup Selections \cup Handlers \cup {Worker}
    /\ Worker \notin Handlers
    /\ LeaseExpires \in BOOLEAN
    /\ SlowHolders \in BOOLEAN
    /\ MaxFaults \in Nat

VARIABLES
    thread,        \* Postgres: the channel values of the latest checkpoint
    version,       \* Postgres: the id of the latest checkpoint
    lease,         \* Redis: the session key exists
    lock,          \* Redis: the request whose token the lock key holds
    events,        \* Redis: the audit list, without its rejections
    claim,         \* Redis: the record of the session's idempotency key
    req,           \* the requests in progress
    resumed,       \* the worker has reported the end of the run
    faults,        \* crashes and I/O errors so far
    status,        \* the run store: see RunSpec
    outcome

store == <<thread, version>>
redis == <<lease, lock, events, claim>>
runs  == <<status, outcome>>
vars  == <<store, redis, req, resumed, faults, runs>>

RunStore == INSTANCE RunSpec

Terminal == RunStore!Terminal

-----------------------------------------------------------------------------

Processes == Handlers \cup {Worker}

(* The node a resumed graph executes next.  Nodes before the first pause   *)
(* are executed by start; "end" is a finished graph, "absent" no thread.   *)
Nodes == {"candidate_confirmation", "analysis_submitted", "analysis_wait",
          "analysis_completed", "end"}

(* SiteSelectionSupervisorState: the channels other steps depend on.       *)
ThreadRecord == [next : {"absent"} \cup Nodes,
                 pick : Selections \cup {None},     \* confirmation
                 run  : Runs \cup {None},           \* analysis_submission
                 done : {"none"} \cup Terminal]     \* analysis_completion

NoThread == [next |-> "absent", pick |-> None, run |-> None, done |-> "none"]

Discovered == [NoThread EXCEPT !.next = "candidate_confirmation"]

ClaimRecord == [run : Runs \cup {None}, pick : Selections \cup {None}]

EventTypes == {"started", "awaiting_confirmation", "confirmed",
               "analysis_submitted", "analysis_completed", "analysis_failed",
               "analysis_cancelled", "analysis_timed_out", "completed"}

(* The steps of a request, in the order of the code.                       *)
Graph    == {"load", "node", "save", "submitted"}
Guarded  == {"check", "view", "activate", "event", "event2", "reject"} \cup Graph
Locked   == {"before", "release", "unwind"} \cup Guarded
Dropping == {"drop_lease", "drop_lock", "drop_thread"}
PCs      == {"idle", "get", "reconcile", "active", "current", "acquire"}
              \cup Dropping \cup Locked

Request == [pc       : PCs,
            op       : {"none", "confirm", "get", "complete"},
            expected : Nat,                    \* expected_checkpoint_id
            pick     : Selections \cup {None},
            run      : Runs \cup {None},       \* the RunState it carries
            out      : {"none"} \cup Terminal,
            mem      : ThreadRecord,           \* the graph's state, or its view
            fresh    : BOOLEAN,                \* the resume value is unread
            unsaved  : BOOLEAN]                \* mem waits for its checkpoint

Idle == [pc |-> "idle", op |-> "none", expected |-> 0, pick |-> None,
         run |-> None, out |-> "none", mem |-> NoThread, fresh |-> FALSE,
         unsaved |-> FALSE]

TypeOK ==
    /\ thread \in ThreadRecord
    /\ version \in Nat
    /\ lease \in BOOLEAN
    /\ lock \in Processes \cup {None}
    /\ events \in Seq(EventTypes)
    /\ claim \in ClaimRecord
    /\ req \in [Processes -> Request]
    /\ resumed \in BOOLEAN
    /\ faults \in 0..MaxFaults
    /\ RunStore!TypeOK

Init ==
    /\ thread = NoThread
    /\ version = 0
    /\ lease = FALSE
    /\ lock = None
    /\ events = <<>>
    /\ claim = [run |-> None, pick |-> None]
    /\ req = [p \in Processes |-> Idle]
    /\ resumed = FALSE
    /\ faults = 0
    /\ RunStore!Init

-----------------------------------------------------------------------------

At(p, pc) == req[p].pc = pc

Goto(p, pc) == req' = [req EXCEPT ![p].pc = pc]

Return(p) == req' = [req EXCEPT ![p] = Idle]

(* An exception in a try block.  A confirmation that raises before its     *)
(* session is active again is recorded as rejected.                        *)
Unwinding(p) ==
    IF req[p].op = "confirm" /\ req[p].pc \in Graph \cup {"check", "view"}
      THEN "reject" ELSE "unwind"

Fail(p) == Goto(p, Unwinding(p))

Audit(e) == events' = Append(events, e)

(* Sessions begin: the graph runs to its first pause and the session is    *)
(* activated.  Nobody knows the session id before start returns, so its    *)
(* commands are one action; a start that fails leaves nothing that can be  *)
(* named.                                                                  *)
Start ==
    /\ version = 0
    /\ thread' = Discovered
    /\ version' = 1
    /\ lease' = TRUE
    /\ events' = <<"started", "awaiting_confirmation">>
    /\ UNCHANGED <<lock, claim, req, resumed, faults, runs>>

-----------------------------------------------------------------------------
(* Requests arrive.  Each first asks whether the lease is alive, and drops *)
(* the session if it is not.                                               *)

Alive(pc) == IF lease THEN pc ELSE "drop_lease"

(* The page a reviewer confirms from shows the latest checkpoint or an     *)
(* older one: the first stands for all of them.                            *)
Confirm(p, v, s) ==
    /\ At(p, "idle")
    /\ version > 0
    /\ req' = [req EXCEPT ![p] = [Idle EXCEPT !.pc = Alive("acquire"),
                                    !.op = "confirm", !.expected = v, !.pick = s]]
    /\ UNCHANGED <<store, redis, resumed, faults, runs>>

Get(p) ==
    /\ At(p, "idle")
    /\ version > 0
    /\ req' = [req EXCEPT ![p] = [Idle EXCEPT !.pc = Alive("get"), !.op = "get"]]
    /\ UNCHANGED <<store, redis, resumed, faults, runs>>

(* The worker, or its failure callback, reports a run that has ended to    *)
(* the session its details name, once.                                     *)
WorkerResume(r) ==
    /\ At(Worker, "idle")
    /\ ~resumed
    /\ r = claim.run
    /\ status[r] \in Terminal
    /\ resumed' = TRUE
    /\ req' = [req EXCEPT ![Worker] = [Idle EXCEPT !.pc = "active",
                                         !.op = "complete", !.run = r,
                                         !.out = status[r]]]
    /\ UNCHANGED <<store, redis, faults, runs>>

GetThread(p) ==
    /\ At(p, "get")
    /\ IF thread.next = "analysis_wait"
         THEN req' = [req EXCEPT ![p].pc = "reconcile", ![p].mem = thread]
         ELSE Return(p)
    /\ UNCHANGED <<store, redis, resumed, faults, runs>>

(* Mutant: any run that has begun counts as ended.                         *)
EndedOrRunning(r) == status[r] \in Terminal \cup {"running"}

(* _reconcile_if_terminal, of polls and of confirmations.                  *)
Ended(r) == status[r] \in Terminal

(* Mutant: polls reconcile completed runs only.                            *)
ReconcileCompleted(p) ==
    /\ At(p, "reconcile")
    /\ LET r == req[p].mem.run IN
         IF status[r] = "completed"
           THEN req' = [req EXCEPT ![p] = [Idle EXCEPT !.pc = "active",
                                             !.op = "complete", !.run = r,
                                             !.out = status[r]]]
           ELSE Return(p)
    /\ UNCHANGED <<store, redis, resumed, faults, runs>>

Reconcile(p) ==
    /\ At(p, "reconcile")
    /\ LET r == req[p].mem.run IN
         IF Ended(r)
           THEN req' = [req EXCEPT ![p] = [Idle EXCEPT !.pc = "active",
                                             !.op = "complete", !.run = r,
                                             !.out = status[r]]]
           ELSE Return(p)
    /\ UNCHANGED <<store, redis, resumed, faults, runs>>

(* complete_analysis: _require_active, then a look at the session before   *)
(* the lock is taken.  Whoever finds it past its pause returns.            *)
Active(p) ==
    /\ At(p, "active")
    /\ Goto(p, Alive("current"))
    /\ UNCHANGED <<store, redis, resumed, faults, runs>>

Current(p) ==
    /\ At(p, "current")
    /\ IF thread.next = "analysis_wait" THEN Goto(p, "acquire") ELSE Return(p)
    /\ UNCHANGED <<store, redis, resumed, faults, runs>>

-----------------------------------------------------------------------------
(* The lock, and the expiry of a session.                                  *)

(* Mutant: the lock is set without NX.                                     *)
LockIsIgnored == TRUE

LockIsFree == lock = None

(* The claim script: no lock without a lease, none that is taken.          *)
Acquire(p) ==
    /\ At(p, "acquire")
    /\ IF ~lease
         THEN Goto(p, "drop_lease") /\ UNCHANGED lock
         ELSE IF LockIsFree
                THEN /\ lock' = p
                     /\ Goto(p, IF req[p].op = "confirm" THEN "before" ELSE "check")
                ELSE Return(p) /\ UNCHANGED lock
    /\ UNCHANGED <<store, lease, events, claim, resumed, faults, runs>>

(* The release script deletes the lock only if it still holds the token.   *)
Unlock(p) == lock' = IF lock = p THEN None ELSE lock

Release(p) ==
    /\ req[p].pc \in {"release", "unwind"}
    /\ Unlock(p)
    /\ IF /\ At(p, "release")
          /\ req[p].op = "confirm"
          /\ req[p].mem.next = "analysis_wait"
         THEN Goto(p, "reconcile")
         ELSE Return(p)
    /\ UNCHANGED <<store, lease, events, claim, resumed, faults, runs>>

(* _discard_session: two DELs in Redis, then the thread in Postgres.       *)
DropLease(p) ==
    /\ At(p, "drop_lease")
    /\ lease' = FALSE
    /\ Goto(p, "drop_lock")
    /\ UNCHANGED <<store, lock, events, claim, resumed, faults, runs>>

DropLock(p) ==
    /\ At(p, "drop_lock")
    /\ lock' = None
    /\ Goto(p, "drop_thread")
    /\ UNCHANGED <<store, lease, events, claim, resumed, faults, runs>>

DropThread(p) ==
    /\ At(p, "drop_thread")
    /\ thread' = NoThread
    /\ Return(p)
    /\ UNCHANGED <<version, redis, resumed, faults, runs>>

-----------------------------------------------------------------------------
(* Inside the lock: the checks made before the graph is resumed.           *)

(* confirm reads the session for its audit trail outside the try block: if *)
(* the thread is gone, the lock stays behind.                              *)
Before(p) ==
    /\ At(p, "before")
    /\ IF thread = NoThread THEN Return(p) ELSE Goto(p, "check")
    /\ UNCHANGED <<store, redis, resumed, faults, runs>>

Awaits(p) ==
    /\ version = req[p].expected
    /\ thread.next = "candidate_confirmation"

(* Only candidates of the report, and only those it allows.                *)
Valid(p) == req[p].pick \in Allowed

CheckConfirm(p) ==
    /\ At(p, "check")
    /\ req[p].op = "confirm"
    /\ IF Awaits(p) /\ Valid(p) THEN Goto(p, "load") ELSE Fail(p)
    /\ UNCHANGED <<store, redis, resumed, faults, runs>>

(* A completion that finds the same run already recorded answers with the  *)
(* session as it is; one that finds anything else unexpected raises.       *)
CheckComplete(p) ==
    /\ At(p, "check")
    /\ req[p].op = "complete"
    /\ LET mine == thread.run = req[p].run IN
         CASE mine /\ thread.next = "analysis_wait" -> Goto(p, "load")
           [] mine /\ thread.done # "none" ->
                req' = [req EXCEPT ![p].mem = thread, ![p].pc = "activate"]
           [] OTHER -> Fail(p)
    /\ UNCHANGED <<store, redis, resumed, faults, runs>>

-----------------------------------------------------------------------------
(* graph.invoke(Command(resume = ...)): loads the latest checkpoint, hands *)
(* the value to the node that waits for it, executes nodes in memory until *)
(* the next pause, and checkpoints after each one while the next runs.     *)

(* The values that fit the pause the graph is found in.                    *)
Fits(p) ==
    CASE thread.next = "candidate_confirmation" -> req[p].op = "confirm"
      [] thread.next = "analysis_wait" ->
           req[p].op = "complete" /\ thread.run = req[p].run
      [] thread.next = "absent" -> FALSE
      [] OTHER -> TRUE

Load(p) ==
    /\ At(p, "load")
    /\ IF Fits(p)
         THEN req' = [req EXCEPT ![p].mem = thread, ![p].fresh = TRUE,
                                 ![p].pc = "node"]
         ELSE Fail(p)
    /\ UNCHANGED <<store, redis, resumed, faults, runs>>

(* A node is done: its writes are in memory and wait for the checkpoint.   *)
Finished(p, mem) ==
    req' = [req EXCEPT ![p].mem = mem, ![p].pc = "node", ![p].fresh = FALSE,
                       ![p].unsaved = TRUE]

Ready(p, node) == At(p, "node") /\ req[p].mem.next = node

Put(p) ==
    /\ req[p].unsaved
    /\ thread' = req[p].mem
    /\ version' = version + 1
    /\ req' = [req EXCEPT ![p].unsaved = FALSE]
    /\ UNCHANGED <<redis, resumed, faults, runs>>

CandidateConfirmation(p) ==
    /\ Ready(p, "candidate_confirmation")
    /\ Finished(p, [req[p].mem EXCEPT !.pick = req[p].pick,
                                      !.next = "analysis_submitted"])
    /\ UNCHANGED <<store, redis, resumed, faults, runs>>

(* Mutant: the session's runs carry no idempotency key.                    *)
ClaimAlways(p, r) ==
    /\ status[r] = "absent"
    /\ \A q \in Processes : req[q].run # r
    /\ claim' = [run |-> r, pick |-> req[p].mem.pick]
    /\ req' = [req EXCEPT ![p].run = r, ![p].pc = "save"]

(* create_run claims the session's idempotency key with a fresh run id ... *)
Claims(p, r) ==
    /\ claim.run = None
    /\ claim' = [run |-> r, pick |-> req[p].mem.pick]
    /\ req' = [req EXCEPT ![p].run = r, ![p].pc = "save"]

AnalysisSubmitted(p, r) ==
    /\ Ready(p, "analysis_submitted")
    /\ Claims(p, r)
    /\ UNCHANGED <<store, lease, lock, events, resumed, faults, runs>>

(* Mutant: a replay does not compare the fingerprints of the requests.     *)
SameKey(p) == status[claim.run] # "absent"

(* ... or replays the run the key names, if it was saved and was submitted *)
(* for the same candidates; otherwise it raises.                           *)
SameRequest(p) ==
    /\ claim.pick = req[p].mem.pick
    /\ status[claim.run] # "absent"

Submitted(mem, r) == [mem EXCEPT !.run = r, !.next = "analysis_wait"]

ReplayRun(p) ==
    /\ Ready(p, "analysis_submitted")
    /\ claim.run # None
    /\ ~req[p].unsaved
    /\ IF SameRequest(p) THEN Finished(p, Submitted(req[p].mem, claim.run))
                         ELSE Fail(p)
    /\ UNCHANGED <<store, redis, resumed, faults, runs>>

(* prepare_run saves the run; what follows up to the return of create_run  *)
(* is in RunLifecycle.                                                     *)
SaveRun(p) ==
    /\ At(p, "save")
    /\ RunStore!Submit(req[p].run)
    /\ Goto(p, "submitted")
    /\ UNCHANGED <<store, redis, resumed, faults>>

RunSubmitted(p) ==
    /\ At(p, "submitted")
    /\ ~req[p].unsaved
    /\ Finished(p, Submitted(req[p].mem, req[p].run))
    /\ UNCHANGED <<store, redis, resumed, faults, runs>>

(* Mutant: whatever ended the run, it is taken for a success.              *)
WaitAssumesSuccess(p) ==
    /\ Ready(p, "analysis_wait")
    /\ req[p].fresh
    /\ Finished(p, [req[p].mem EXCEPT !.done = "completed",
                                      !.next = "analysis_completed"])
    /\ UNCHANGED <<store, redis, resumed, faults, runs>>

AnalysisWait(p) ==
    /\ Ready(p, "analysis_wait")
    /\ req[p].fresh
    /\ Finished(p, [req[p].mem EXCEPT !.done = req[p].out,
                                      !.next = "analysis_completed"])
    /\ UNCHANGED <<store, redis, resumed, faults, runs>>

AnalysisCompleted(p) ==
    /\ Ready(p, "analysis_completed")
    /\ ~req[p].unsaved
    /\ Finished(p, [req[p].mem EXCEPT !.next = "end"])
    /\ UNCHANGED <<store, redis, resumed, faults, runs>>

(* A pause nobody has answered, or the end.                                *)
GraphStops(p) ==
    /\ \/ Ready(p, "analysis_wait") /\ ~req[p].fresh
       \/ Ready(p, "end")
    /\ ~req[p].unsaved
    /\ Goto(p, "view")
    /\ UNCHANGED <<store, redis, resumed, faults, runs>>

-----------------------------------------------------------------------------
(* After the graph: the session is read again, activated and audited.      *)

View(p) ==
    /\ At(p, "view")
    /\ IF thread = NoThread
         THEN Fail(p)
         ELSE req' = [req EXCEPT ![p].mem = thread, ![p].pc = "activate"]
    /\ UNCHANGED <<store, redis, resumed, faults, runs>>

(* Mutant: the lock is given back before the audit events are written.     *)
ActivateAndRelease(p) ==
    /\ At(p, "activate")
    /\ lease' = TRUE
    /\ lock' = None
    /\ Goto(p, IF req[p].op = "complete" /\ req[p].mem.next # "end"
                 THEN "unwind" ELSE "event")
    /\ UNCHANGED <<store, events, claim, resumed, faults, runs>>

(* A completed analysis names its event by the status it reached; a status *)
(* that is no outcome is a KeyError.                                       *)
Activate(p) ==
    /\ At(p, "activate")
    /\ lease' = TRUE
    /\ Goto(p, IF req[p].op = "complete" /\ req[p].mem.next # "end"
                 THEN "unwind" ELSE "event")
    /\ UNCHANGED <<store, lock, events, claim, resumed, faults, runs>>

EventOf == [completed |-> "analysis_completed", failed |-> "analysis_failed",
            cancelled |-> "analysis_cancelled", timed_out |-> "analysis_timed_out"]

(* Mutant: every outcome is followed by the event of success.              *)
EventCompletes(p) ==
    /\ At(p, "event")
    /\ Audit(IF req[p].op = "confirm" THEN "confirmed" ELSE EventOf[req[p].mem.done])
    /\ Goto(p, "event2")
    /\ UNCHANGED <<store, lease, lock, claim, resumed, faults, runs>>

Event(p) ==
    /\ At(p, "event")
    /\ IF req[p].op = "confirm"
         THEN Audit("confirmed") /\ Goto(p, "event2")
         ELSE /\ Audit(EventOf[req[p].mem.done])
              /\ Goto(p, IF req[p].mem.done = "completed" THEN "event2"
                                                          ELSE "release")
    /\ UNCHANGED <<store, lease, lock, claim, resumed, faults, runs>>

Event2(p) ==
    /\ At(p, "event2")
    /\ Audit(IF req[p].op = "confirm" THEN "analysis_submitted" ELSE "completed")
    /\ Goto(p, "release")
    /\ UNCHANGED <<store, lease, lock, claim, resumed, faults, runs>>

(* CONFIRMATION_REJECTED: reviewers may be rejected without end, and no    *)
(* step reads the list, so it is left out of "events".                     *)
Reject(p) ==
    /\ At(p, "reject")
    /\ Goto(p, "unwind")
    /\ UNCHANGED <<store, redis, resumed, faults, runs>>

-----------------------------------------------------------------------------
(* Failures, time, and the run service.                                    *)

Fault == faults < MaxFaults /\ faults' = faults + 1

(* The process dies: what it holds in Redis stays.                         *)
Dies(p) ==
    /\ ~At(p, "idle")
    /\ Fault
    /\ Return(p)
    /\ UNCHANGED <<store, redis, resumed, runs>>

(* A command inside a try block raises; the graph gives up a checkpoint it *)
(* could not write.                                                        *)
Raises(p) ==
    /\ req[p].pc \in Guarded
    /\ Fault
    /\ req' = [req EXCEPT ![p].unsaved = FALSE, ![p].pc = Unwinding(p)]
    /\ UNCHANGED <<store, redis, resumed, runs>>

(* deactivate raises, which is suppressed: the thread is deleted anyway.   *)
DropFails(p) ==
    /\ req[p].pc \in {"drop_lease", "drop_lock"}
    /\ Fault
    /\ Goto(p, "drop_thread")
    /\ UNCHANGED <<store, redis, resumed, runs>>

LeaseLapses ==
    /\ LeaseExpires
    /\ lease
    /\ lease' = FALSE
    /\ UNCHANGED <<store, lock, events, claim, req, resumed, faults, runs>>

(* The lock outlives its holder by at most its TTL.                        *)
Held == lock # None /\ req[lock].pc \in Locked

LockLapses ==
    /\ lock # None
    /\ Held => SlowHolders
    /\ lock' = None
    /\ UNCHANGED <<store, lease, events, claim, req, resumed, faults, runs>>

RunMoves(r) ==
    /\ RunStore!Start(r) \/ \E t \in Terminal : RunStore!Finish(r, t)
    /\ UNCHANGED <<store, redis, req, resumed, faults>>

-----------------------------------------------------------------------------

GraphStep(p) ==
    \/ Load(p)
    \/ Put(p)
    \/ CandidateConfirmation(p)
    \/ \E r \in Runs : AnalysisSubmitted(p, r)
    \/ ReplayRun(p)
    \/ SaveRun(p)
    \/ RunSubmitted(p)
    \/ AnalysisWait(p)
    \/ AnalysisCompleted(p)
    \/ GraphStops(p)

Step(p) ==
    \/ GetThread(p)
    \/ Reconcile(p)
    \/ Active(p)
    \/ Current(p)
    \/ Acquire(p)
    \/ Release(p)
    \/ DropLease(p)
    \/ DropLock(p)
    \/ DropThread(p)
    \/ Before(p)
    \/ CheckConfirm(p)
    \/ CheckComplete(p)
    \/ GraphStep(p)
    \/ View(p)
    \/ Activate(p)
    \/ Event(p)
    \/ Event2(p)
    \/ Reject(p)

Next ==
    \/ Start
    \/ \E p \in Handlers :
         \/ \E v \in {1, version}, s \in Selections : Confirm(p, v, s)
         \/ Get(p)
    \/ \E r \in Runs : WorkerResume(r) \/ RunMoves(r)
    \/ \E p \in Processes : Step(p) \/ Dies(p) \/ Raises(p) \/ DropFails(p)
    \/ LeaseLapses
    \/ LockLapses

Spec == Init /\ [][Next]_vars

(* Requests take their next step unless they are killed, and a page that   *)
(* shows a session polls it.  Nothing makes a reviewer confirm, and no     *)
(* reviewer confirms for ever.                                             *)
Fairness ==
    /\ \A p \in Processes : WF_vars(Step(p))
    /\ WF_vars(LockLapses)
    /\ SF_vars(\E p \in Handlers : Get(p))
    /\ <>[][~\E p \in Handlers, v \in {1, version}, s \in Selections :
               Confirm(p, v, s)]_vars

FairSpec == Spec /\ Fairness

-----------------------------------------------------------------------------
(* Properties.                                                             *)

(* However often a session is confirmed, by concurrent requests, retries   *)
(* after crashes or after its lock has lapsed, it has at most one run: the *)
(* purpose of the submitter's idempotency key.                             *)
OneRunPerSession ==
    \A r, s \in Runs : status[r] # "absent" /\ status[s] # "absent" => r = s

(* The run a session waits for analyses the candidates recorded as its     *)
(* confirmation, and these passed validation, whoever wrote the checkpoint *)
(* last.                                                                   *)
ConfirmedIsAnalysed ==
    thread.run # None =>
      /\ claim = [run |-> thread.run, pick |-> thread.pick]
      /\ thread.pick \in Allowed
      /\ status[thread.run] # "absent"

(* What a session reports is the outcome its run was decided to have.      *)
ReportsOutcome ==
    thread.done # "none" =>
      /\ thread.run # None
      /\ thread.done = outcome[thread.run]

Entries == {events[i] : i \in DOMAIN events}

Outcomes == {EventOf[t] : t \in Terminal} \cup {"completed"}

(* The audit list never contradicts the run: a submission or an outcome it *)
(* names has a run, and the outcome is that of the run.                    *)
AuditIsTrue ==
    /\ Entries \cap ({"analysis_submitted"} \cup Outcomes) # {} => claim.run # None
    /\ \A t \in Terminal :
         EventOf[t] \in Entries => outcome[claim.run] = t
    /\ "completed" \in Entries => outcome[claim.run] = "completed"

(* The audit list tells the story in order: nothing is confirmed after an  *)
(* outcome, although the worker may report it while the confirmation that  *)
(* submitted the run is still being recorded.                              *)
AuditIsOrdered ==
    \A i, j \in DOMAIN events :
      events[i] \in {"confirmed", "analysis_submitted"} /\ events[j] \in Outcomes
        => i < j

(* The transition lock: no two requests resume the graph together.         *)
OneTransition ==
    \A p, q \in Processes : req[p].pc \in Graph /\ req[q].pc \in Graph => p = q

PhaseOf == [absent |-> "absent",
            candidate_confirmation |-> "choosing",
            analysis_submitted |-> "submitting",
            analysis_wait |-> "awaiting",
            analysis_completed |-> "settling",
            end |-> "ended"]

Abstract == INSTANCE SessionSpec WITH
    phase <- PhaseOf[thread.next], choice <- thread.pick,
    analysis <- thread.run, result <- thread.done

(* The checkpoints of a session are the states of SessionSpec, one at a    *)
(* time and in order, for all the crashes between them.                    *)
ImplementsSessionSpec == Abstract!Spec

(* A session whose run has ended is brought to its end: the worker reports *)
(* it, or else a poll finds it and does the same.                          *)
PollingReconciles ==
    (thread.next = "analysis_wait" /\ Ended(thread.run)) ~> (thread.next = "end")

(* As long as nothing crashes or fails, the report of the worker and the   *)
(* polls bring every session whose run has ended to its end.               *)
CalmPollingReconciles == [](faults = 0) => PollingReconciles

(* A confirmation that is rejected has not advanced the session past the   *)
(* pause in which it waits for the reviewer (supervisor.py, confirm).      *)
RejectionKeepsPause ==
    \A p \in Processes :
      At(p, "reject") /\ req[p].mem # NoThread
        => thread.next = "candidate_confirmation"

(* The repeated completion of a run adds no audit event                    *)
(* (docs/agent-implementation-guide.md, 29.5).                             *)
CompletionAuditedOnce ==
    \A i, j \in DOMAIN events :
      events[i] = events[j] /\ events[i] \in Outcomes => i = j

=============================================================================
