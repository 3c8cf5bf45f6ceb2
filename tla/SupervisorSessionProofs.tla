----------------------- MODULE SupervisorSessionProofs -----------------------
(***************************************************************************)
(* Theorems about SupervisorSession for every number of runs, selections,  *)
(* requests and faults.  Those of the first part hold whether or not       *)
(* leases expire and locks lapse under their holders: nothing in them      *)
(* relies on the transition lock.  The second part is about a lock that    *)
(* does its work, and ends in the refinement of SessionSpec.               *)
(***************************************************************************)
EXTENDS SupervisorSession, TLAPS

-----------------------------------------------------------------------------
(* The inductive invariant.  A request carries a copy of the session's     *)
(* state and will write it over whatever is there.  That is harmless       *)
(* because every copy, however old, agrees with two facts that are decided *)
(* once: which run the session's key names, and how that run ended.        *)

Coherent(m) ==
    /\ m.next \in {"absent", "candidate_confirmation"}
         => m.run = None /\ m.done = "none"
    /\ m.next = "analysis_submitted" => m.pick \in Allowed
    /\ m.next = "analysis_wait" => m.run \in Runs
    /\ m.next \in {"analysis_completed", "end"} => m.done # "none"
    /\ m.run # None => claim = [run |-> m.run, pick |-> m.pick]
    /\ m.run # None => status[m.run] # "absent"
    /\ m.done # "none" => m.run # None /\ m.done = outcome[m.run]

(* What a completion reports, while it is still to be given to the graph.  *)
Reports(x, r) ==
    r \in Runs /\ x.out \in Terminal /\ x.out = outcome[r]

Answers  == {"active", "current", "acquire", "check", "load"}
Recorded == {"view", "activate", "event", "event2"}

Carries(x) ==
    /\ Coherent(x.mem)
    /\ x.pc \in Locked \cup Answers => x.op \in {"confirm", "complete"}
    /\ x.pc = "before" => x.op = "confirm"
    /\ x.pc = "reconcile" => x.mem.next = "analysis_wait"
    /\ x.op = "complete" /\ x.pc \in Answers => Reports(x, x.run)
    /\ x.op = "confirm" /\ x.pc = "load" => x.pick \in Allowed
    /\ x.pc = "node" /\ x.mem.next = "candidate_confirmation" => x.pick \in Allowed
    /\ x.pc = "node" /\ x.mem.next = "analysis_wait" /\ x.fresh
         => Reports(x, x.mem.run)
    /\ x.pc \in {"save", "submitted"}
         => x.run \in Runs /\ claim = [run |-> x.run, pick |-> x.mem.pick]
    /\ x.pc = "submitted" => status[x.run] # "absent"
    /\ x.pc \in Recorded => claim.run \in Runs
    /\ x.pc = "event" /\ x.op # "confirm" => x.mem.done # "none"
    /\ x.pc = "event2" /\ x.op # "confirm" => x.mem.done = "completed"

(* The run store, as the session sees it.                                  *)
Decisions ==
    /\ claim.run # None => claim.pick \in Allowed
    /\ \A r \in Runs : status[r] # "absent" => r = claim.run
    /\ \A r \in Runs : status[r] \in Terminal => outcome[r] = status[r]

Requests == \A p \in Processes : Carries(req[p])

SessionInv ==
    /\ TypeOK
    /\ Decisions
    /\ Coherent(thread)
    /\ Requests
    /\ AuditIsTrue

-----------------------------------------------------------------------------
(* Two decisions, once taken, stay.                                        *)

Grows ==
    /\ claim.run # None => claim' = claim
    /\ \A r \in Runs : status[r] # "absent" => status'[r] # "absent"
    /\ \A r \in Runs : outcome[r] # "none" => outcome'[r] = outcome[r]

(* A step that leaves the claim and the run store alone.                   *)
Still == UNCHANGED <<claim, status, outcome>>

(* A copy of the session's state stays coherent while the world moves on.  *)
LEMMA CoherentStays ==
    ASSUME TypeOK, Grows, NEW m \in ThreadRecord, Coherent(m)
    PROVE  Coherent(m)'
<1>1. m.run \in Runs \cup {None} /\ m.pick \in Selections \cup {None}
  BY DEF ThreadRecord
<1>2. m.run # None => claim.run # None
  BY DEF Coherent
<1>3. QED
  BY <1>1, <1>2 DEF Coherent, Grows

(* So does all that a request carries.                                     *)
LEMMA CarriesStays ==
    ASSUME TypeOK, Grows, NEW x \in Request, Carries(x)
    PROVE  Carries(x)'
<1>1. x.mem \in ThreadRecord
  BY DEF Request
<1>2. Coherent(x.mem)'
  BY <1>1, CoherentStays DEF Carries
<1>3. ASSUME NEW r, Reports(x, r)
      PROVE  Reports(x, r)'
  BY <1>3 DEF Reports, Grows, RunStore!Terminal, Terminal
<1>4. x.pc \in {"save", "submitted"} \cup Recorded => claim.run # None
  BY ConstantsAssumption DEF Carries
<1>5. QED
  BY <1>2, <1>3, <1>4 DEF Carries, Grows

-----------------------------------------------------------------------------
(* What the helpers do to a request.                                       *)

(* Same as y in all that Carries looks at, except the program counter.     *)
Like(x, y) ==
    /\ x.op = y.op
    /\ x.pick = y.pick
    /\ x.run = y.run
    /\ x.out = y.out
    /\ x.mem = y.mem
    /\ x.fresh = y.fresh

Becomes(p, x) == req' = [req EXCEPT ![p] = x]

(* The constant records have their types.                                  *)
LEMMA ConstantRecords ==
    NoThread \in ThreadRecord /\ Idle \in Request
  BY DEF NoThread, ThreadRecord, Idle, Request, PCs, Nodes

(* No thread, no claim to agree with.                                      *)
LEMMA NoThreadCoherent == Coherent(NoThread)
<1>1. /\ NoThread.next = "absent"
      /\ NoThread.run = None
      /\ NoThread.done = "none"
  BY DEF NoThread
<1>2. QED
  BY <1>1 DEF Coherent

(* A request that has been answered carries nothing.                       *)
LEMMA IdleCarries == Carries(Idle)
<1>1. Idle.pc = "idle" /\ Idle.mem = NoThread
  BY DEF Idle
<1>2. QED
  BY <1>1, NoThreadCoherent
     DEF Carries, Locked, Guarded, Graph, Answers, Recorded

(* A request moves on.                                                     *)
LEMMA GotoEffect ==
    ASSUME TypeOK, NEW p \in Processes, NEW pc \in PCs, Goto(p, pc)
    PROVE  \E x \in Request : Becomes(p, x) /\ x.pc = pc /\ Like(x, req[p])
<1>1. req[p] \in Request
  BY DEF TypeOK
<1>2. [req[p] EXCEPT !.pc = pc] \in Request
  BY <1>1 DEF Request
<1>3. req' = [req EXCEPT ![p] = [req[p] EXCEPT !.pc = pc]]
  BY DEF TypeOK, Goto
<1>4. QED
  BY <1>1, <1>2, <1>3 DEF Becomes, Like, Request

(* A node of the graph is done.                                            *)
LEMMA FinishedEffect ==
    ASSUME TypeOK, NEW p \in Processes, NEW m \in ThreadRecord, Finished(p, m)
    PROVE  \E x \in Request :
             /\ Becomes(p, x)
             /\ x.pc = "node"
             /\ x.op = req[p].op
             /\ x.pick = req[p].pick
             /\ x.mem = m
             /\ ~x.fresh
<1> DEFINE x == [req[p] EXCEPT !.mem = m, !.pc = "node", !.fresh = FALSE,
                               !.unsaved = TRUE]
<1>1. req[p] \in Request
  BY DEF TypeOK
<1>2. x \in Request
  BY <1>1 DEF Request, PCs, Locked, Guarded, Graph
<1>3. req' = [req EXCEPT ![p] = x]
  BY DEF TypeOK, Finished
<1>4. QED
  BY <1>1, <1>2, <1>3 DEF Becomes, Request

(* A poll or a worker that found a run ended begins a completion.          *)
Completion(r) ==
    [Idle EXCEPT !.pc = "active", !.op = "complete", !.run = r, !.out = status[r]]

(* Such a completion carries the truth.                                    *)
LEMMA CompletionCarries ==
    ASSUME SessionInv, NEW r \in Runs, status[r] \in Terminal
    PROVE  Completion(r) \in Request /\ Carries(Completion(r))
<1>1. Completion(r) \in Request
  BY DEF Completion, Idle, Request, PCs, NoThread, ThreadRecord
<1>2. outcome[r] = status[r]
  BY DEF SessionInv, Decisions
<1>3. /\ Completion(r).pc = "active"
      /\ Completion(r).op = "complete"
      /\ Completion(r).run = r
      /\ Completion(r).out = status[r]
      /\ Completion(r).mem = NoThread
  BY DEF Completion, Idle
<1>4. Reports(Completion(r), Completion(r).run)
  BY <1>2, <1>3 DEF Reports
<1>5. QED
  BY <1>1, <1>3, <1>4, NoThreadCoherent
     DEF Carries, Locked, Guarded, Graph, Recorded

-----------------------------------------------------------------------------
(* Steps that concern one request.                                         *)

(* If a request carries the truth after the step, all of them do.          *)
LEMMA RequestMoves ==
    ASSUME SessionInv, Grows, NEW p \in Processes, NEW x \in Request,
           Becomes(p, x), Carries(req[p])'
    PROVE  req' \in [Processes -> Request] /\ Requests'
<1>1. req' \in [Processes -> Request]
  BY DEF SessionInv, TypeOK, Becomes
<1>2. ASSUME NEW q \in Processes
      PROVE  Carries(req[q])'
  <2>1. CASE q = p
    BY <2>1
  <2>2. CASE q # p
    <3>1. PICK y \in Request : y = req[q]
      BY DEF SessionInv, TypeOK
    <3>2. Carries(y)'
      BY <3>1, CarriesStays DEF SessionInv, Requests
    <3>3. req'[q] = y
      BY <3>1, <2>2 DEF SessionInv, TypeOK, Becomes
    <3>4. QED
      BY <3>2, <3>3
  <2>3. QED
    BY <2>1, <2>2
<1>3. QED
  BY <1>1, <1>2 DEF Requests

(* A step that touches a request, the lease, the lock or the bookkeeping.  *)
Local ==
    /\ Still
    /\ UNCHANGED <<thread, version, events>>
    /\ lease' \in BOOLEAN
    /\ lock' \in Processes \cup {None}
    /\ resumed' \in BOOLEAN
    /\ faults' \in 0..MaxFaults

(* Such a step is harmless if the request goes on to carry the truth.      *)
LEMMA LocalStep ==
    ASSUME SessionInv, Local,
           NEW p \in Processes, NEW x \in Request, Becomes(p, x), Carries(x)
    PROVE  SessionInv'
<1>1. Grows
  BY DEF Local, Still, Grows
<1>2. Carries(x)'
  BY <1>1, CarriesStays DEF SessionInv
<1>3. req'[p] = x
  BY DEF SessionInv, TypeOK, Becomes
<1>4. req' \in [Processes -> Request] /\ Requests'
  BY <1>1, <1>2, <1>3, RequestMoves
<1>5. TypeOK'
  BY <1>4 DEF SessionInv, TypeOK, Local, Still, RunStore!TypeOK
<1>6. Decisions' /\ Coherent(thread)' /\ AuditIsTrue'
  BY DEF SessionInv, Decisions, Coherent, AuditIsTrue, Entries, Local, Still
<1>7. QED
  BY <1>4, <1>5, <1>6 DEF SessionInv

(* A step that moves one request on.                                       *)
LEMMA GotoStep ==
    ASSUME SessionInv, Local, NEW p \in Processes, NEW pc \in PCs, Goto(p, pc),
           \A x \in Request : x.pc = pc /\ Like(x, req[p]) => Carries(x)
    PROVE  SessionInv'
<1>1. PICK x \in Request : Becomes(p, x) /\ x.pc = pc /\ Like(x, req[p])
  BY GotoEffect DEF SessionInv
<1>2. QED
  BY <1>1, LocalStep

(* A step that answers one request.                                        *)
LEMMA ReturnStep ==
    ASSUME SessionInv, Local, NEW p \in Processes, Return(p)
    PROVE  SessionInv'
  BY ConstantRecords, IdleCarries, LocalStep DEF Return, Becomes

(* A step in which an executed node writes the state of the graph.         *)
LEMMA FinishedStep ==
    ASSUME SessionInv, Local, NEW p \in Processes, NEW m \in ThreadRecord,
           Finished(p, m), Coherent(m), m.next # "candidate_confirmation",
           req[p].op \in {"confirm", "complete"}
    PROVE  SessionInv'
<1>1. PICK x \in Request : /\ Becomes(p, x)
                           /\ x.pc = "node"
                           /\ x.op = req[p].op
                           /\ x.mem = m
                           /\ ~x.fresh
  BY FinishedEffect DEF SessionInv
<1>2. x.op \in {"confirm", "complete"} => Carries(x)
  BY <1>1 DEF Carries, Locked, Guarded, Graph, Answers, Recorded
<1>3. QED
  BY <1>1, <1>2, LocalStep

-----------------------------------------------------------------------------
(* Requests arrive, and look at the session before the lock.               *)

(* What is known of a request before the step.                             *)
LEMMA Known ==
    ASSUME SessionInv, NEW p \in Processes
    PROVE  req[p] \in Request /\ Carries(req[p]) /\ Coherent(req[p].mem)
  BY DEF SessionInv, TypeOK, Requests, Carries

(* A confirmation or a poll that arrives carries no copy yet.              *)
LEMMA ArrivalStays ==
    ASSUME SessionInv, NEW p \in Handlers,
           \/ \E v \in {1, version}, s \in Selections : Confirm(p, v, s)
           \/ Get(p)
    PROVE  SessionInv'
<1>1. p \in Processes
  BY DEF Processes
<1>2. Local
  BY DEF Confirm, Get, Local, Still, redis, store, runs, SessionInv, TypeOK
<1>3. ASSUME NEW v \in {1, version}, NEW s \in Selections, Confirm(p, v, s)
      PROVE  SessionInv'
  <2> DEFINE x == [Idle EXCEPT !.pc = Alive("acquire"), !.op = "confirm",
                               !.expected = v, !.pick = s]
  <2>1. v \in Nat /\ Alive("acquire") \in {"acquire", "drop_lease"}
    BY DEF SessionInv, TypeOK, Alive
  <2>2. x \in Request
    BY <2>1 DEF Idle, Request, PCs, Dropping, NoThread, ThreadRecord
  <2>3. /\ x.pc \in {"acquire", "drop_lease"}
        /\ x.op = "confirm"
        /\ x.mem = NoThread
    BY <2>1 DEF Idle
  <2>4. Carries(x)
    <3> HIDE DEF x
    <3> QED
      BY <2>3, NoThreadCoherent
         DEF Carries, Locked, Guarded, Graph, Answers, Recorded
  <2>5. Becomes(p, x)
    BY <1>3 DEF Confirm, Becomes
  <2>6. QED
    BY <1>1, <1>2, <2>2, <2>4, <2>5, LocalStep
<1>4. ASSUME Get(p)
      PROVE  SessionInv'
  <2> DEFINE x == [Idle EXCEPT !.pc = Alive("get"), !.op = "get"]
  <2>1. Alive("get") \in {"get", "drop_lease"}
    BY DEF Alive
  <2>2. x \in Request
    BY <2>1 DEF Idle, Request, PCs, Dropping, NoThread, ThreadRecord
  <2>3. x.pc \in {"get", "drop_lease"} /\ x.mem = NoThread
    BY <2>1 DEF Idle
  <2>4. Carries(x)
    <3> HIDE DEF x
    <3> QED
      BY <2>3, NoThreadCoherent
         DEF Carries, Locked, Guarded, Graph, Answers, Recorded
  <2>5. Becomes(p, x)
    BY <1>4 DEF Get, Becomes
  <2>6. QED
    BY <1>1, <1>2, <2>2, <2>4, <2>5, LocalStep
<1>5. QED
  BY <1>3, <1>4

(* The worker reports the outcome that was decided.                        *)
LEMMA WorkerResumeStays ==
    ASSUME SessionInv, NEW r \in Runs, WorkerResume(r)
    PROVE  SessionInv'
<1>1. Local
  BY DEF WorkerResume, Local, Still, redis, store, runs, SessionInv, TypeOK
<1>2. Worker \in Processes /\ status[r] \in Terminal
  BY DEF Processes, WorkerResume
<1>3. Becomes(Worker, Completion(r))
  BY DEF WorkerResume, Becomes, Completion
<1>4. QED
  BY <1>1, <1>2, <1>3, CompletionCarries, LocalStep

(* A poll that finds the session waiting takes a copy of it.               *)
LEMMA GetThreadStays ==
    ASSUME SessionInv, NEW p \in Processes, GetThread(p)
    PROVE  SessionInv'
<1>1. Local
  BY DEF GetThread, Local, Still, redis, store, runs, SessionInv, TypeOK
<1>2. CASE thread.next = "analysis_wait"
  <2> DEFINE x == [req[p] EXCEPT !.pc = "reconcile", !.mem = thread]
  <2>1. x \in Request
    BY Known DEF Request, PCs, SessionInv, TypeOK
  <2>2. x.pc = "reconcile" /\ x.mem = thread
    BY Known DEF Request
  <2>3. Carries(x)
    <3> HIDE DEF x
    <3> QED
      BY <1>2, <2>2
         DEF Carries, Locked, Guarded, Graph, Answers, Recorded, SessionInv
  <2>4. Becomes(p, x)
    BY <1>2 DEF GetThread, Becomes, SessionInv, TypeOK
  <2>5. QED
    BY <1>1, <2>1, <2>3, <2>4, LocalStep
<1>3. CASE thread.next # "analysis_wait"
  BY <1>1, <1>3, ReturnStep DEF GetThread
<1>4. QED
  BY <1>2, <1>3

(* A poll that finds the run ended begins a completion of its own.         *)
LEMMA ReconcileStays ==
    ASSUME SessionInv, NEW p \in Processes, Reconcile(p)
    PROVE  SessionInv'
<1> DEFINE r == req[p].mem.run
<1>1. Local
  BY DEF Reconcile, Local, Still, redis, store, runs, SessionInv, TypeOK
<1>2. r \in Runs
  BY Known DEF Reconcile, At, Carries, Coherent
<1>3. CASE Ended(r)
  <2>1. Becomes(p, Completion(r))
    BY <1>3 DEF Reconcile, Becomes, Completion
  <2>2. QED
    BY <1>1, <1>2, <1>3, <2>1, CompletionCarries, LocalStep DEF Ended
<1>4. CASE ~Ended(r)
  BY <1>1, <1>4, ReturnStep DEF Reconcile
<1>5. QED
  BY <1>3, <1>4

(* A completion looks at the lease and at the session.                     *)
LEMMA LooksStay ==
    ASSUME SessionInv, NEW p \in Processes, Active(p) \/ Current(p)
    PROVE  SessionInv'
<1>1. Local
  BY DEF Active, Current, Local, Still, redis, store, runs, SessionInv, TypeOK
<1>2. CASE Active(p)
  <2>1. PICK pc \in {"current", "drop_lease"} : Goto(p, pc)
    BY <1>2 DEF Active, Alive
  <2>2. pc \in PCs
    BY DEF PCs, Dropping
  <2>3. \A x \in Request : x.pc = pc /\ Like(x, req[p]) => Carries(x)
    BY <1>2, Known
       DEF Active, At, Carries, Like, Reports, Locked, Guarded, Graph, Answers,
           Recorded
  <2>4. QED
    BY <1>1, <2>1, <2>2, <2>3, GotoStep
<1>3. CASE Current(p)
  <2>1. CASE Return(p)
    BY <1>1, <2>1, ReturnStep
  <2>2. CASE Goto(p, "acquire")
    <3>1. \A x \in Request : x.pc = "acquire" /\ Like(x, req[p]) => Carries(x)
      BY <1>3, Known
         DEF Current, At, Carries, Like, Reports, Locked, Guarded, Graph, Answers,
             Recorded
    <3>2. QED
      BY <1>1, <2>2, <3>1, GotoStep DEF PCs
  <2>3. QED
    BY <1>3, <2>1, <2>2 DEF Current
<1>4. QED
  BY <1>2, <1>3

-----------------------------------------------------------------------------
(* The lock, expiry, and the checks inside the lock.                       *)

(* Program counters at which a request carries nothing but its copy.       *)
Light == {"release", "unwind", "reject"} \cup Dropping

(* A step to a point where only the copy is carried.                       *)
LEMMA LightStep ==
    ASSUME SessionInv, Local, NEW p \in Processes, NEW pc \in Light, Goto(p, pc),
           pc \notin Dropping => req[p].pc \in Locked \cup Answers
    PROVE  SessionInv'
<1>1. pc \in PCs
  BY DEF Light, PCs, Locked, Guarded, Dropping
<1>2. pc \notin Dropping => req[p].op \in {"confirm", "complete"}
  BY Known DEF Carries
<1>3. \A x \in Request : x.pc = pc /\ Like(x, req[p]) => Carries(x)
  BY <1>2, Known
     DEF Carries, Like, Light, Dropping, Locked, Guarded, Graph, Answers, Recorded
<1>4. QED
  BY <1>1, <1>3, GotoStep

(* Whoever gets the lock goes on to its checks.                            *)
LEMMA AcquireStays ==
    ASSUME SessionInv, NEW p \in Processes, Acquire(p)
    PROVE  SessionInv'
<1>1. Local
  BY DEF Acquire, Local, Still, store, runs, SessionInv, TypeOK
<1>2. CASE Goto(p, "drop_lease")
  BY <1>1, <1>2, LightStep DEF Light, Dropping
<1>3. CASE Return(p)
  BY <1>1, <1>3, ReturnStep
<1>4. CASE Goto(p, "before") /\ req[p].op = "confirm"
  <2>1. \A x \in Request : x.pc = "before" /\ Like(x, req[p]) => Carries(x)
    BY <1>4, Known
       DEF Carries, Like, Locked, Guarded, Graph, Answers, Recorded
  <2>2. QED
    BY <1>1, <1>4, <2>1, GotoStep DEF PCs, Locked
<1>5. CASE Goto(p, "check") /\ req[p].op # "confirm"
  <2>1. \A x \in Request : x.pc = "check" /\ Like(x, req[p]) => Carries(x)
    BY <1>5, Known
       DEF Acquire, At, Carries, Like, Reports, Locked, Guarded, Graph, Answers,
           Recorded
  <2>2. QED
    BY <1>1, <1>5, <2>1, GotoStep DEF PCs, Locked, Guarded
<1>6. QED
  BY <1>2, <1>3, <1>4, <1>5 DEF Acquire

(* A confirmation that leaves its session waiting looks at the run.        *)
LEMMA ReleaseStays ==
    ASSUME SessionInv, NEW p \in Processes, Release(p)
    PROVE  SessionInv'
<1>1. Local
  BY DEF Release, Unlock, Local, Still, store, runs, SessionInv, TypeOK
<1>2. CASE Return(p)
  BY <1>1, <1>2, ReturnStep
<1>3. CASE Goto(p, "reconcile") /\ req[p].mem.next = "analysis_wait"
  <2>1. \A x \in Request : x.pc = "reconcile" /\ Like(x, req[p]) => Carries(x)
    BY <1>3, Known DEF Carries, Like, Locked, Guarded, Graph, Answers, Recorded
  <2>2. QED
    BY <1>1, <1>3, <2>1, GotoStep DEF PCs
<1>4. QED
  BY <1>2, <1>3 DEF Release

(* An expired session loses its lease, its lock and its thread.            *)
LEMMA DropsStay ==
    ASSUME SessionInv, NEW p \in Processes,
           DropLease(p) \/ DropLock(p) \/ DropFails(p) \/ DropThread(p)
    PROVE  SessionInv'
<1>1. CASE DropLease(p)
  <2>1. Local
    BY <1>1 DEF DropLease, Local, Still, store, runs, SessionInv, TypeOK
  <2>2. QED
    BY <1>1, <2>1, LightStep DEF DropLease, Light, Dropping
<1>2. CASE DropLock(p)
  <2>1. Local
    BY <1>2 DEF DropLock, Local, Still, store, runs, SessionInv, TypeOK
  <2>2. QED
    BY <1>2, <2>1, LightStep DEF DropLock, Light, Dropping
<1>3. CASE DropFails(p)
  <2>1. faults' \in 0..MaxFaults
    BY <1>3, ConstantsAssumption DEF DropFails, Fault, SessionInv, TypeOK
  <2>2. Local
    BY <1>3, <2>1 DEF DropFails, Local, Still, store, redis, runs, SessionInv, TypeOK
  <2>3. QED
    BY <1>3, <2>2, LightStep DEF DropFails, Light, Dropping
<1>4. CASE DropThread(p)
  <2>1. /\ req' = [req EXCEPT ![p] = Idle]
        /\ thread' = NoThread
        /\ UNCHANGED <<version, redis, resumed, faults, runs>>
    BY <1>4 DEF DropThread, Return
  <2>2. Still /\ Grows
    BY <2>1 DEF Still, Grows, redis, runs
  <2>3. Becomes(p, Idle) /\ req'[p] = Idle
    BY <2>1 DEF Becomes, SessionInv, TypeOK
  <2>4. Carries(Idle)'
    BY <2>2, ConstantRecords, IdleCarries, CarriesStays DEF SessionInv
  <2>5. req' \in [Processes -> Request] /\ Requests'
    BY <2>2, <2>3, <2>4, ConstantRecords, RequestMoves
  <2>6. TypeOK'
    BY <2>1, <2>5, ConstantRecords
       DEF SessionInv, TypeOK, redis, runs, RunStore!TypeOK
  <2>7. Coherent(thread)'
    BY <2>1, <2>2, NoThreadCoherent DEF Coherent, Still
  <2>8. Decisions' /\ AuditIsTrue'
    BY <2>1, <2>2
       DEF SessionInv, Decisions, AuditIsTrue, Entries, Still, redis
  <2>9. QED
    BY <2>5, <2>6, <2>7, <2>8 DEF SessionInv
<1>5. QED
  BY <1>1, <1>2, <1>3, <1>4

(* A confirmation is let through with a selection that was validated.      *)
LEMMA ConfirmChecksStay ==
    ASSUME SessionInv, NEW p \in Processes, Before(p) \/ CheckConfirm(p)
    PROVE  SessionInv'
<1>1. Local
  BY DEF Before, CheckConfirm, Local, Still, store, redis, runs, SessionInv, TypeOK
<1>2. CASE Return(p)
  BY <1>1, <1>2, ReturnStep
<1>3. CASE Before(p) /\ Goto(p, "check")
  <2>1. \A x \in Request : x.pc = "check" /\ Like(x, req[p]) => Carries(x)
    BY <1>3, Known
       DEF Before, At, Carries, Like, Reports, Locked, Guarded, Graph, Answers,
           Recorded
  <2>2. QED
    BY <1>1, <1>3, <2>1, GotoStep DEF PCs, Locked, Guarded
<1>4. CASE CheckConfirm(p) /\ Goto(p, "load") /\ req[p].pick \in Allowed
  <2>1. \A x \in Request : x.pc = "load" /\ Like(x, req[p]) => Carries(x)
    BY <1>4, Known
       DEF CheckConfirm, At, Carries, Like, Locked, Guarded, Graph, Answers,
           Recorded
  <2>2. QED
    BY <1>1, <1>4, <2>1, GotoStep DEF PCs, Locked, Guarded, Graph
<1>5. CASE CheckConfirm(p) /\ Fail(p)
  BY <1>1, <1>5, LightStep
     DEF CheckConfirm, At, Fail, Unwinding, Light, Locked, Guarded, Answers
<1>6. QED
  BY <1>2, <1>3, <1>4, <1>5 DEF Before, CheckConfirm, Valid

(* A request takes a copy of the thread, and its resume value is unread.   *)
LEMMA CopyEffect ==
    ASSUME SessionInv, NEW p \in Processes, NEW pc \in PCs,
           req' = [req EXCEPT ![p].mem = thread, ![p].fresh = TRUE, ![p].pc = pc]
    PROVE  \E x \in Request :
             /\ Becomes(p, x)
             /\ x.pc = pc
             /\ x.op = req[p].op
             /\ x.pick = req[p].pick
             /\ x.run = req[p].run
             /\ x.out = req[p].out
             /\ x.mem = thread
             /\ x.fresh = TRUE
<1> DEFINE x == [req[p] EXCEPT !.mem = thread, !.fresh = TRUE, !.pc = pc]
<1>1. x \in Request
  BY Known DEF Request, SessionInv, TypeOK
<1>2. req' = [req EXCEPT ![p] = x]
  BY DEF SessionInv, TypeOK
<1>3. QED
  BY <1>1, <1>2, Known DEF Becomes, Request

(* The same, but the resume value is as it was.                            *)
LEMMA ViewEffect ==
    ASSUME SessionInv, NEW p \in Processes, NEW pc \in PCs,
           req' = [req EXCEPT ![p].mem = thread, ![p].pc = pc]
    PROVE  \E x \in Request :
             /\ Becomes(p, x)
             /\ x.pc = pc
             /\ x.op = req[p].op
             /\ x.mem = thread
<1> DEFINE x == [req[p] EXCEPT !.mem = thread, !.pc = pc]
<1>1. x \in Request
  BY Known DEF Request, SessionInv, TypeOK
<1>2. req' = [req EXCEPT ![p] = x]
  BY DEF SessionInv, TypeOK
<1>3. QED
  BY <1>1, <1>2, Known DEF Becomes, Request

(* A thread that records a run, or an outcome, belongs to a claim.         *)
LEMMA RecordedIsClaimed ==
    ASSUME SessionInv, NEW m \in ThreadRecord, Coherent(m),
           m.run # None \/ m.done # "none"
    PROVE  claim.run \in Runs
<1>1. m.run # None
  BY DEF Coherent
<1>2. m.run \in Runs
  BY <1>1 DEF ThreadRecord
<1>3. QED
  BY <1>1, <1>2 DEF Coherent

(* A completion is let through, or finds the outcome recorded.             *)
LEMMA CheckCompleteStays ==
    ASSUME SessionInv, NEW p \in Processes, CheckComplete(p)
    PROVE  SessionInv'
<1>1. Local
  BY DEF CheckComplete, Local, Still, store, redis, runs, SessionInv, TypeOK
<1>2. req[p].pc = "check" /\ req[p].op = "complete"
  BY DEF CheckComplete, At
<1>3. CASE Goto(p, "load")
  <2>1. \A x \in Request : x.pc = "load" /\ Like(x, req[p]) => Carries(x)
    BY <1>2, Known
       DEF Carries, Like, Reports, Locked, Guarded, Graph, Answers, Recorded
  <2>2. QED
    BY <1>1, <1>3, <2>1, GotoStep DEF PCs, Locked, Guarded, Graph
<1>4. CASE /\ req' = [req EXCEPT ![p].mem = thread, ![p].pc = "activate"]
           /\ thread.done # "none"
  <2>1. PICK x \in Request : /\ Becomes(p, x)
                             /\ x.pc = "activate"
                             /\ x.op = req[p].op
                             /\ x.mem = thread
    BY <1>4, ViewEffect DEF PCs, Locked, Guarded
  <2>2. claim.run \in Runs
    BY <1>4, RecordedIsClaimed DEF SessionInv, TypeOK
  <2>3. Carries(x)
    BY <1>2, <2>1, <2>2
       DEF Carries, Locked, Guarded, Graph, Answers, Recorded, SessionInv
  <2>4. QED
    BY <1>1, <2>1, <2>3, LocalStep
<1>5. CASE Fail(p)
  BY <1>1, <1>2, <1>5, LightStep
     DEF Fail, Unwinding, Light, Locked, Guarded, Answers
<1>6. QED
  BY <1>3, <1>4, <1>5 DEF CheckComplete

-----------------------------------------------------------------------------
(* The graph.                                                              *)

(* The graph is loaded, and its resume value fits the pause.               *)
LEMMA LoadStays ==
    ASSUME SessionInv, NEW p \in Processes, Load(p)
    PROVE  SessionInv'
<1>1. Local
  BY DEF Load, Local, Still, store, redis, runs, SessionInv, TypeOK
<1>2. req[p].pc = "load"
  BY DEF Load, At
<1>3. CASE Fits(p)
  <2>1. PICK x \in Request : /\ Becomes(p, x)
                             /\ x.pc = "node"
                             /\ x.op = req[p].op
                             /\ x.pick = req[p].pick
                             /\ x.run = req[p].run
                             /\ x.out = req[p].out
                             /\ x.mem = thread
                             /\ x.fresh = TRUE
    <3>1. "node" \in PCs
      BY DEF PCs, Locked, Guarded, Graph
    <3>2. req' = [req EXCEPT ![p].mem = thread, ![p].fresh = TRUE, ![p].pc = "node"]
      BY <1>3 DEF Load
    <3>3. QED
      BY <3>1, <3>2, CopyEffect
  <2>2. thread.next = "candidate_confirmation" => x.pick \in Allowed
    BY <1>2, <1>3, <2>1, Known DEF Fits, Carries
  <2>3. ASSUME thread.next = "analysis_wait"
        PROVE  Reports(x, x.mem.run)
    <3>1. req[p].op = "complete" /\ thread.run = req[p].run
      BY <1>3, <2>3 DEF Fits
    <3>2. Reports(req[p], req[p].run)
      BY <1>2, <3>1, Known DEF Carries, Answers
    <3>3. QED
      BY <2>1, <3>1, <3>2 DEF Reports
  <2>4. x.op \in {"confirm", "complete"}
    BY <1>2, <2>1, Known DEF Carries, Answers
  <2>5. Carries(x)
    BY <2>1, <2>2, <2>3, <2>4
       DEF Carries, Locked, Guarded, Graph, Answers, Recorded, SessionInv
  <2>6. QED
    BY <1>1, <2>1, <2>5, LocalStep
<1>4. CASE Fail(p)
  BY <1>1, <1>2, <1>4, LightStep
     DEF Fail, Unwinding, Light, Locked, Guarded, Graph, Answers
<1>5. QED
  BY <1>3, <1>4 DEF Load

(* The checkpoint of a request, however late, is coherent.                 *)
LEMMA PutStays ==
    ASSUME SessionInv, NEW p \in Processes, Put(p)
    PROVE  SessionInv'
<1> DEFINE x == [req[p] EXCEPT !.unsaved = FALSE]
<1>1. /\ thread' = req[p].mem
      /\ version' = version + 1
      /\ UNCHANGED <<redis, resumed, faults, runs>>
      /\ Becomes(p, x)
  BY DEF Put, Becomes, SessionInv, TypeOK
<1>2. x \in Request /\ x.pc = req[p].pc /\ Like(x, req[p])
  BY Known DEF Request, Like
<1>3. PICK y \in Request : Becomes(p, y) /\ y.pc = req[p].pc /\ Like(y, req[p])
  BY <1>1, <1>2
<1>4. Still /\ Grows
  BY <1>1 DEF Still, Grows, redis, runs
<1>5. Carries(y)
  BY <1>3, Known DEF Carries, Like, Reports
<1>6. Carries(y)' /\ req'[p] = y
  BY <1>3, <1>4, <1>5, CarriesStays DEF SessionInv, Becomes, TypeOK
<1>7. req' \in [Processes -> Request] /\ Requests'
  BY <1>3, <1>4, <1>6, RequestMoves
<1>8. TypeOK'
  BY <1>1, <1>7, Known
     DEF SessionInv, TypeOK, redis, runs, RunStore!TypeOK, Request
<1>9. Coherent(thread)'
  BY <1>1, <1>4, Known DEF Coherent, Still
<1>10. Decisions' /\ AuditIsTrue'
  BY <1>1 DEF SessionInv, Decisions, AuditIsTrue, Entries, redis, runs
<1>11. QED
  BY <1>7, <1>8, <1>9, <1>10 DEF SessionInv

(* Nodes write what coherence demands: a validated choice, the claimed     *)
(* run, the outcome decided.                                               *)
LEMMA NodesStay ==
    ASSUME SessionInv, NEW p \in Processes,
           \/ CandidateConfirmation(p)
           \/ ReplayRun(p)
           \/ RunSubmitted(p)
           \/ AnalysisWait(p)
           \/ AnalysisCompleted(p)
    PROVE  SessionInv'
<1> DEFINE m == req[p].mem
<1>1. Local
  BY DEF CandidateConfirmation, ReplayRun, RunSubmitted, AnalysisWait,
         AnalysisCompleted, Local, Still, store, redis, runs, SessionInv, TypeOK
<1>2. m \in ThreadRecord /\ Coherent(m) /\ Carries(req[p])
  BY Known DEF Request
<1>3. req[p].op \in {"confirm", "complete"}
  BY <1>2 DEF Carries, CandidateConfirmation, ReplayRun, RunSubmitted,
     AnalysisWait, AnalysisCompleted, Ready, At, Locked, Guarded, Graph
<1>4. CASE CandidateConfirmation(p)
  <2> DEFINE n == [m EXCEPT !.pick = req[p].pick, !.next = "analysis_submitted"]
  <2>1. req[p].pc = "node" /\ m.next = "candidate_confirmation" /\ Finished(p, n)
    BY <1>4 DEF CandidateConfirmation, Ready, At
  <2>2. req[p].pick \in Allowed
    BY <1>2, <2>1 DEF Carries
  <2>3. /\ n \in ThreadRecord
        /\ n.next = "analysis_submitted"
        /\ n.pick = req[p].pick
        /\ n.run = m.run
        /\ n.done = m.done
    BY <1>2, Known DEF ThreadRecord, Nodes, Request
  <2>4. m.run = None /\ m.done = "none"
    BY <1>2, <2>1 DEF Coherent
  <2>5. Coherent(n)
    <3> HIDE DEF n
    <3> QED
      BY <2>2, <2>3, <2>4 DEF Coherent
  <2>6. QED
    <3> HIDE DEF n
    <3> QED
      BY <1>1, <1>3, <2>1, <2>3, <2>5, FinishedStep
<1>5. ASSUME NEW r \in Runs, Finished(p, Submitted(m, r)), status[r] # "absent",
             claim = [run |-> r, pick |-> m.pick]
      PROVE  SessionInv'
  <2>1. /\ Submitted(m, r) \in ThreadRecord
        /\ Submitted(m, r).next = "analysis_wait"
        /\ Submitted(m, r).pick = m.pick
        /\ Submitted(m, r).run = r
        /\ Submitted(m, r).done = m.done
    BY <1>2 DEF Submitted, ThreadRecord, Nodes
  <2>2. m.done # "none" => m.run = r /\ m.done = outcome[r]
    BY <1>2, <1>5 DEF Coherent
  <2>3. Coherent(Submitted(m, r))
    BY <1>5, <2>1, <2>2, ConstantsAssumption DEF Coherent
  <2>4. QED
    BY <1>1, <1>3, <1>5, <2>1, <2>3, FinishedStep
<1>6. CASE ReplayRun(p)
  <2>1. CASE SameRequest(p)
    <3>1. claim \in ClaimRecord /\ claim.run # None
      BY <1>6 DEF ReplayRun, SessionInv, TypeOK
    <3>2. claim.run \in Runs /\ claim = [run |-> claim.run, pick |-> claim.pick]
      BY <3>1 DEF ClaimRecord
    <3>3. claim.pick = m.pick /\ status[claim.run] # "absent"
      BY <2>1 DEF SameRequest
    <3>4. Finished(p, Submitted(m, claim.run))
      BY <1>6, <2>1 DEF ReplayRun
    <3>5. PICK r \in Runs : r = claim.run
      BY <3>2
    <3>6. QED
      BY <1>5, <3>2, <3>3, <3>4, <3>5
  <2>2. CASE ~SameRequest(p)
    <3>1. Goto(p, Unwinding(p)) /\ req[p].pc = "node"
      BY <1>6, <2>2 DEF ReplayRun, Ready, At, Fail
    <3>2. Unwinding(p) \in {"reject", "unwind"}
      BY DEF Unwinding
    <3>3. QED
      BY <1>1, <3>1, <3>2, LightStep DEF Light, Locked, Guarded, Graph
  <2>3. QED
    BY <2>1, <2>2
<1>7. CASE RunSubmitted(p)
  <2>1. /\ req[p].run \in Runs
        /\ claim = [run |-> req[p].run, pick |-> m.pick]
        /\ status[req[p].run] # "absent"
    BY <1>2, <1>7 DEF RunSubmitted, At, Carries
  <2>2. Finished(p, Submitted(m, req[p].run))
    BY <1>7 DEF RunSubmitted
  <2>3. PICK r \in Runs : r = req[p].run
    BY <2>1
  <2>4. QED
    BY <1>5, <2>1, <2>2, <2>3
<1>8. CASE AnalysisWait(p)
  <2> DEFINE n == [m EXCEPT !.done = req[p].out, !.next = "analysis_completed"]
  <2>1. /\ req[p].pc = "node"
        /\ m.next = "analysis_wait"
        /\ req[p].fresh
        /\ Finished(p, n)
    BY <1>8 DEF AnalysisWait, Ready, At
  <2>2. Reports(req[p], m.run)
    BY <1>2, <2>1 DEF Carries
  <2>3. /\ n \in ThreadRecord
        /\ n.next = "analysis_completed"
        /\ n.pick = m.pick
        /\ n.run = m.run
        /\ n.done = req[p].out
    BY <1>2, Known DEF ThreadRecord, Nodes, Request
  <2>4. m.run # None /\ req[p].out = outcome[m.run] /\ req[p].out # "none"
    BY <2>2, ConstantsAssumption DEF Reports, Terminal, RunStore!Terminal
  <2>5. Coherent(n)
    <3> HIDE DEF n
    <3> QED
      BY <1>2, <2>3, <2>4 DEF Coherent
  <2>6. QED
    <3> HIDE DEF n
    <3> QED
      BY <1>1, <1>3, <2>1, <2>3, <2>5, FinishedStep
<1>9. CASE AnalysisCompleted(p)
  <2> DEFINE n == [m EXCEPT !.next = "end"]
  <2>1. m.next = "analysis_completed" /\ Finished(p, n)
    BY <1>9 DEF AnalysisCompleted, Ready
  <2>2. /\ n \in ThreadRecord
        /\ n.next = "end"
        /\ n.pick = m.pick
        /\ n.run = m.run
        /\ n.done = m.done
    BY <1>2 DEF ThreadRecord, Nodes
  <2>3. Coherent(n)
    <3> HIDE DEF n
    <3> QED
      BY <1>2, <2>1, <2>2 DEF Coherent
  <2>4. QED
    <3> HIDE DEF n
    <3> QED
      BY <1>1, <1>3, <2>1, <2>2, <2>3, FinishedStep
<1>10. QED
  BY <1>4, <1>6, <1>7, <1>8, <1>9

(* A graph that stops has recorded a run.                                  *)
LEMMA GraphStopsStays ==
    ASSUME SessionInv, NEW p \in Processes, GraphStops(p)
    PROVE  SessionInv'
<1>1. Local
  BY DEF GraphStops, Local, Still, store, redis, runs, SessionInv, TypeOK
<1>2. /\ req[p].pc = "node"
      /\ req[p].mem.next \in {"analysis_wait", "end"}
      /\ Goto(p, "view")
  BY DEF GraphStops, Ready, At
<1>3. req[p].mem.run # None \/ req[p].mem.done # "none"
  BY <1>2, Known, ConstantsAssumption DEF Coherent
<1>4. claim.run \in Runs
  BY <1>3, Known, RecordedIsClaimed DEF Request
<1>5. \A x \in Request : x.pc = "view" /\ Like(x, req[p]) => Carries(x)
  BY <1>2, <1>4, Known
     DEF Carries, Like, Locked, Guarded, Graph, Answers, Recorded
<1>6. QED
  BY <1>1, <1>2, <1>5, GotoStep DEF PCs, Locked, Guarded

-----------------------------------------------------------------------------
(* After the graph.                                                        *)

(* The session is read again after the graph.                              *)
LEMMA ViewStays ==
    ASSUME SessionInv, NEW p \in Processes, View(p)
    PROVE  SessionInv'
<1>1. Local
  BY DEF View, Local, Still, store, redis, runs, SessionInv, TypeOK
<1>2. req[p].pc = "view"
  BY DEF View, At
<1>3. CASE thread = NoThread
  BY <1>1, <1>2, <1>3, LightStep
     DEF View, Fail, Unwinding, Light, Locked, Guarded
<1>4. CASE thread # NoThread
  <2>1. req' = [req EXCEPT ![p].mem = thread, ![p].pc = "activate"]
    BY <1>4 DEF View
  <2>2. PICK x \in Request : /\ Becomes(p, x)
                             /\ x.pc = "activate"
                             /\ x.op = req[p].op
                             /\ x.mem = thread
    BY <2>1, ViewEffect DEF PCs, Locked, Guarded
  <2>3. Carries(x)
    BY <1>2, <2>2, Known
       DEF Carries, Locked, Guarded, Graph, Answers, Recorded, SessionInv
  <2>4. QED
    BY <1>1, <2>2, <2>3, LocalStep
<1>5. QED
  BY <1>3, <1>4

(* A completion that is audited has an outcome.                            *)
LEMMA ActivateStays ==
    ASSUME SessionInv, NEW p \in Processes, Activate(p)
    PROVE  SessionInv'
<1>1. Local
  BY DEF Activate, Local, Still, store, runs, SessionInv, TypeOK
<1>2. req[p].pc = "activate"
  BY DEF Activate, At
<1>3. CASE Goto(p, "unwind")
  BY <1>1, <1>2, <1>3, LightStep DEF Light, Locked, Guarded
<1>4. CASE /\ Goto(p, "event")
           /\ req[p].op = "complete" => req[p].mem.next = "end"
  <2>1. req[p].op # "confirm" => req[p].mem.done # "none"
    BY <1>2, <1>4, Known DEF Carries, Coherent, Locked, Guarded
  <2>2. \A x \in Request : x.pc = "event" /\ Like(x, req[p]) => Carries(x)
    BY <1>2, <2>1, Known
       DEF Carries, Like, Locked, Guarded, Graph, Answers, Recorded
  <2>3. QED
    BY <1>1, <1>4, <2>2, GotoStep DEF PCs, Locked, Guarded
<1>5. QED
  BY <1>3, <1>4 DEF Activate

(* A rejected confirmation goes on to release the lock.                    *)
LEMMA RejectStays ==
    ASSUME SessionInv, NEW p \in Processes, Reject(p)
    PROVE  SessionInv'
<1>1. Local
  BY DEF Reject, Local, Still, store, redis, runs, SessionInv, TypeOK
<1>2. QED
  BY <1>1, LightStep DEF Reject, At, Light, Locked, Guarded

(* Each outcome has an event of its own.                                   *)
LEMMA EventNames ==
    /\ \A t \in Terminal :
         EventOf[t] \in EventTypes \ {"confirmed", "completed", "analysis_submitted"}
    /\ \A t, u \in Terminal : EventOf[t] = EventOf[u] => t = u
  BY DEF Terminal, RunStore!Terminal, EventOf, EventTypes

(* What an event says is true when it is appended, and stays true.         *)
LEMMA AuditStep ==
    ASSUME SessionInv, Still, NEW p \in Processes, NEW pc \in PCs, Goto(p, pc),
           UNCHANGED <<thread, version, lease, lock, resumed, faults>>,
           \A x \in Request : x.pc = pc /\ Like(x, req[p]) => Carries(x),
           NEW e \in EventTypes, events' = Append(events, e),
           e # "confirmed" => claim.run # None,
           \A t \in Terminal : e = EventOf[t] => outcome[claim.run] = t,
           e = "completed" => outcome[claim.run] = "completed"
    PROVE  SessionInv'
<1>1. PICK x \in Request : Becomes(p, x) /\ x.pc = pc /\ Like(x, req[p])
  BY GotoEffect DEF SessionInv
<1>2. Grows
  BY DEF Still, Grows
<1>3. Carries(x)' /\ req'[p] = x
  BY <1>1, <1>2, CarriesStays DEF SessionInv, Becomes, TypeOK
<1>4. req' \in [Processes -> Request] /\ Requests'
  BY <1>1, <1>2, <1>3, RequestMoves
<1>5. events' \in Seq(EventTypes)
  BY DEF SessionInv, TypeOK
<1>6. TypeOK'
  BY <1>4, <1>5 DEF SessionInv, TypeOK, Still, RunStore!TypeOK
<1>7. \A i \in DOMAIN events' : events'[i] \in Entries \cup {e}
  BY DEF SessionInv, TypeOK, Entries
<1>8. AuditIsTrue'
  <2>1. Entries' \subseteq Entries \cup {e}
    BY <1>7 DEF Entries
  <2>2. Entries' \cap ({"analysis_submitted"} \cup Outcomes) # {} => claim.run # None
    BY <2>1, EventNames DEF SessionInv, AuditIsTrue, Outcomes
  <2>3. QED
    BY <2>1, <2>2 DEF SessionInv, AuditIsTrue, Still
<1>9. Decisions' /\ Coherent(thread)'
  BY DEF SessionInv, Decisions, Coherent, Still
<1>10. QED
  BY <1>4, <1>6, <1>8, <1>9 DEF SessionInv

(* The audit events of a confirmation and of a completion.                 *)
LEMMA EventsStay ==
    ASSUME SessionInv, NEW p \in Processes, Event(p) \/ Event2(p)
    PROVE  SessionInv'
<1>1. /\ Still
      /\ UNCHANGED <<thread, version, lease, lock, resumed, faults>>
  BY DEF Event, Event2, Still, store, runs
<1>2. claim.run \in Runs /\ req[p].op \in {"confirm", "complete"}
  BY Known DEF Event, Event2, At, Carries, Recorded, Locked, Guarded
<1>3. claim.run # None
  BY <1>2, ConstantsAssumption
<1>4. ASSUME req[p].mem.done # "none"
      PROVE  /\ req[p].mem.done \in Terminal
             /\ req[p].mem.done = outcome[claim.run]
  <2>1. req[p].mem \in ThreadRecord /\ req[p].mem.run # None
    BY <1>4, Known DEF Request, Coherent
  <2>2. claim.run = req[p].mem.run /\ req[p].mem.done = outcome[req[p].mem.run]
    BY <1>4, <2>1, Known DEF Coherent
  <2>3. QED
    BY <1>4, <2>1, <2>2 DEF ThreadRecord
<1>5. "event2" \in PCs /\ "release" \in PCs
  BY DEF PCs, Locked, Guarded
<1>6. \A x \in Request : x.pc = "release" /\ Like(x, req[p]) => Carries(x)
  BY <1>2, Known DEF Carries, Like, Locked, Guarded, Graph, Answers, Recorded
<1>7. ASSUME req[p].op = "confirm" \/ req[p].mem.done = "completed"
      PROVE  \A x \in Request : x.pc = "event2" /\ Like(x, req[p]) => Carries(x)
  BY <1>2, <1>7, Known
     DEF Carries, Like, Locked, Guarded, Graph, Answers, Recorded
<1>8. CASE Event(p) /\ req[p].op = "confirm"
  <2>1. Goto(p, "event2") /\ events' = Append(events, "confirmed")
    BY <1>8 DEF Event, Audit
  <2>2. "confirmed" \in EventTypes
    BY DEF EventTypes
  <2>3. \A t \in Terminal : "confirmed" # EventOf[t]
    BY EventNames
  <2>4. QED
    BY <1>1, <1>5, <1>7, <1>8, <2>1, <2>2, <2>3, AuditStep
<1>9. CASE Event(p) /\ req[p].op # "confirm"
  <2> DEFINE d == req[p].mem.done
  <2>1. d \in Terminal /\ d = outcome[claim.run]
    BY <1>4, <1>9, Known DEF Event, At, Carries
  <2>2. events' = Append(events, EventOf[d])
    BY <1>9 DEF Event, Audit
  <2>3. /\ EventOf[d] \in EventTypes
        /\ EventOf[d] # "analysis_submitted"
        /\ EventOf[d] # "completed"
        /\ \A t \in Terminal : EventOf[d] = EventOf[t] => outcome[claim.run] = t
    BY <2>1, EventNames
  <2>4. PICK pc \in PCs : /\ Goto(p, pc)
                          /\ \A x \in Request :
                               x.pc = pc /\ Like(x, req[p]) => Carries(x)
    BY <1>5, <1>6, <1>7, <1>9 DEF Event
  <2>5. QED
    BY <1>1, <1>3, <2>2, <2>3, <2>4, AuditStep
<1>10. CASE Event2(p) /\ req[p].op = "confirm"
  <2>1. Goto(p, "release") /\ events' = Append(events, "analysis_submitted")
    BY <1>10 DEF Event2, Audit
  <2>2. "analysis_submitted" \in EventTypes
    BY DEF EventTypes
  <2>3. \A t \in Terminal : "analysis_submitted" # EventOf[t]
    BY EventNames
  <2>4. QED
    BY <1>1, <1>3, <1>5, <1>6, <2>1, <2>2, <2>3, AuditStep
<1>11. CASE Event2(p) /\ req[p].op # "confirm"
  <2>1. Goto(p, "release") /\ events' = Append(events, "completed")
    BY <1>11 DEF Event2, Audit
  <2>2. outcome[claim.run] = "completed"
    BY <1>4, <1>11, Known DEF Event2, At, Carries
  <2>3. "completed" \in EventTypes
    BY DEF EventTypes
  <2>4. \A t \in Terminal : "completed" # EventOf[t]
    BY EventNames
  <2>5. QED
    BY <1>1, <1>3, <1>5, <1>6, <2>1, <2>2, <2>3, <2>4, AuditStep
<1>12. QED
  BY <1>8, <1>9, <1>10, <1>11

-----------------------------------------------------------------------------
(* Failures, time, and the steps that decide something.                    *)

(* A crash, or a command that raises.                                      *)
LEMMA FaultsStay ==
    ASSUME SessionInv, NEW p \in Processes, Dies(p) \/ Raises(p)
    PROVE  SessionInv'
<1>1. faults' \in 0..MaxFaults
  BY ConstantsAssumption DEF Dies, Raises, Fault, SessionInv, TypeOK
<1>2. Local
  BY <1>1 DEF Dies, Raises, Local, Still, store, redis, runs, SessionInv, TypeOK
<1>3. CASE Dies(p)
  BY <1>2, <1>3, ReturnStep DEF Dies
<1>4. CASE Raises(p)
  <2> DEFINE x == [req[p] EXCEPT !.unsaved = FALSE, !.pc = Unwinding(p)]
  <2>1. Unwinding(p) \in {"reject", "unwind"} /\ req[p].pc \in Guarded
    BY <1>4 DEF Unwinding, Raises
  <2>2. x \in Request
    BY <2>1, Known DEF Request, PCs, Locked, Guarded
  <2>3. x.pc \in {"reject", "unwind"} /\ x.op = req[p].op /\ x.mem = req[p].mem
    BY <2>1, Known DEF Request
  <2>4. x.op \in {"confirm", "complete"}
    BY <2>1, <2>3, Known DEF Carries, Locked
  <2>5. Carries(x)
    <3> HIDE DEF x
    <3> QED
      BY <2>3, <2>4, Known
         DEF Carries, Locked, Guarded, Graph, Answers, Recorded
  <2>6. Becomes(p, x)
    BY <1>4 DEF Raises, Becomes, SessionInv, TypeOK
  <2>7. QED
    BY <1>2, <2>2, <2>5, <2>6, LocalStep
<1>5. QED
  BY <1>3, <1>4

(* Keys that vanish are read by no one for the truth.                      *)
LEMMA LapsesStay ==
    ASSUME SessionInv, LeaseLapses \/ LockLapses
    PROVE  SessionInv'
<1>1. /\ Still
      /\ UNCHANGED <<thread, version, events, req, resumed, faults>>
      /\ lease' \in BOOLEAN
      /\ lock' \in Processes \cup {None}
  BY DEF LeaseLapses, LockLapses, Still, store, runs, SessionInv, TypeOK
<1>2. TypeOK'
  BY <1>1 DEF SessionInv, TypeOK, Still, RunStore!TypeOK
<1>3. Decisions' /\ Coherent(thread)' /\ AuditIsTrue'
  BY <1>1 DEF SessionInv, Decisions, Coherent, AuditIsTrue, Entries, Still
<1>4. Requests'
  BY <1>1 DEF SessionInv, Requests, Carries, Coherent, Reports, Still
<1>5. QED
  BY <1>2, <1>3, <1>4 DEF SessionInv

(* The session's key is claimed once, for a run and a validated choice.    *)
LEMMA AnalysisSubmittedStays ==
    ASSUME SessionInv, NEW p \in Processes, NEW r \in Runs, AnalysisSubmitted(p, r)
    PROVE  SessionInv'
<1> DEFINE x == [req[p] EXCEPT !.run = r, !.pc = "save"]
<1>1. /\ req[p].pc = "node"
      /\ req[p].mem.next = "analysis_submitted"
      /\ claim.run = None
      /\ claim' = [run |-> r, pick |-> req[p].mem.pick]
      /\ UNCHANGED <<store, lease, lock, events, resumed, faults, runs>>
      /\ Becomes(p, x)
  BY DEF AnalysisSubmitted, Claims, Ready, At, Becomes, SessionInv, TypeOK
<1>2. /\ x \in Request
      /\ x.pc = "save"
      /\ x.run = r
      /\ x.mem = req[p].mem
      /\ x.op = req[p].op
  BY Known DEF Request, PCs, Locked, Guarded, Graph
<1>3. PICK y \in Request : /\ Becomes(p, y)
                           /\ y.pc = "save"
                           /\ y.run = r
                           /\ y.mem = req[p].mem
                           /\ y.op = req[p].op
  BY <1>1, <1>2
<1>4. Grows
  BY <1>1 DEF Grows, runs
<1>5. req[p].mem.pick \in Allowed /\ claim' \in ClaimRecord
  BY <1>1, Known DEF Coherent, Request, ThreadRecord, ClaimRecord
<1>6. req'[p] = y
  BY <1>3 DEF SessionInv, TypeOK, Becomes
<1>7. Coherent(req[p].mem)'
  <2>1. y.mem \in ThreadRecord /\ Coherent(y.mem)
    BY <1>3, Known DEF Request
  <2>2. Coherent(y.mem)'
    BY <1>4, <2>1, CoherentStays DEF SessionInv
  <2>3. QED
    BY <1>6, <2>2
<1>8. Carries(req[p])'
  BY <1>1, <1>3, <1>6, <1>7, Known
     DEF Carries, Locked, Guarded, Graph, Answers, Recorded
<1>9. req' \in [Processes -> Request] /\ Requests'
  BY <1>3, <1>4, <1>8, RequestMoves
<1>10. TypeOK'
  BY <1>1, <1>5, <1>9 DEF SessionInv, TypeOK, store, runs, RunStore!TypeOK
<1>11. \A q \in Runs : status[q] = "absent"
  BY <1>1, ConstantsAssumption DEF SessionInv, Decisions
<1>12. Decisions'
  BY <1>1, <1>5, <1>11 DEF SessionInv, Decisions, runs
<1>13. Coherent(thread)'
  <2>1. PICK m \in ThreadRecord : m = thread
    BY DEF SessionInv, TypeOK
  <2>2. Coherent(m)'
    BY <1>4, <2>1, CoherentStays DEF SessionInv
  <2>3. thread' = m
    BY <1>1, <2>1 DEF store
  <2>4. QED
    BY <2>2, <2>3
<1>14. AuditIsTrue'
  <2>1. Entries \cap ({"analysis_submitted"} \cup Outcomes) = {}
    BY <1>1 DEF SessionInv, AuditIsTrue
  <2>2. Entries' = Entries
    BY <1>1 DEF Entries
  <2>3. QED
    BY <2>1, <2>2 DEF AuditIsTrue, Outcomes
<1>15. QED
  BY <1>9, <1>10, <1>12, <1>13, <1>14 DEF SessionInv

(* prepare_run saves the run that was claimed, and no other.               *)
LEMMA SaveRunStays ==
    ASSUME SessionInv, NEW p \in Processes, SaveRun(p)
    PROVE  SessionInv'
<1> DEFINE r == req[p].run
<1>1. /\ req[p].pc = "save"
      /\ Goto(p, "submitted")
      /\ UNCHANGED <<store, redis, resumed, faults>>
      /\ status[r] = "absent"
      /\ status' = [status EXCEPT ![r] = "queued"]
      /\ outcome' = outcome
  BY DEF SaveRun, At, RunStore!Submit
<1>2. r \in Runs /\ claim = [run |-> r, pick |-> req[p].mem.pick]
  BY <1>1, Known DEF Carries
<1>3. /\ status' \in [Runs -> RunStore!Status]
      /\ status'[r] = "queued"
      /\ \A q \in Runs : q # r => status'[q] = status[q]
  BY <1>1, <1>2 DEF SessionInv, TypeOK, RunStore!TypeOK, RunStore!Status,
     RunStore!Active
<1>4. Grows
  BY <1>1, <1>3 DEF Grows, redis
<1>5. PICK x \in Request : /\ Becomes(p, x)
                           /\ x.pc = "submitted"
                           /\ Like(x, req[p])
  <2>1. "submitted" \in PCs
    BY DEF PCs, Locked, Guarded, Graph
  <2>2. QED
    BY <1>1, <2>1, GotoEffect DEF SessionInv
<1>6. req'[p] = x
  BY <1>5 DEF SessionInv, TypeOK, Becomes
<1>7. Coherent(x.mem)'
  <2>1. x.mem \in ThreadRecord /\ Coherent(x.mem)
    BY <1>5, Known DEF Request, Like
  <2>2. QED
    BY <1>4, <2>1, CoherentStays DEF SessionInv
<1>8. Carries(req[p])'
  BY <1>1, <1>2, <1>3, <1>5, <1>6, <1>7, Known
     DEF Carries, Like, Locked, Guarded, Graph, Answers, Recorded, redis
<1>9. req' \in [Processes -> Request] /\ Requests'
  BY <1>4, <1>5, <1>8, RequestMoves
<1>10. TypeOK'
  BY <1>1, <1>3, <1>9 DEF SessionInv, TypeOK, store, redis, RunStore!TypeOK
<1>11. Decisions'
  BY <1>1, <1>2, <1>3
     DEF SessionInv, Decisions, redis, Terminal, RunStore!Terminal
<1>12. Coherent(thread)'
  <2>1. PICK m \in ThreadRecord : m = thread
    BY DEF SessionInv, TypeOK
  <2>2. Coherent(m)' /\ thread' = m
    BY <1>1, <1>4, <2>1, CoherentStays DEF SessionInv, store
  <2>3. QED
    BY <2>2
<1>13. AuditIsTrue'
  BY <1>1 DEF SessionInv, AuditIsTrue, Entries, redis
<1>14. QED
  BY <1>9, <1>10, <1>11, <1>12, <1>13 DEF SessionInv

(* A run starts and ends once.                                             *)
LEMMA RunMovesStay ==
    ASSUME SessionInv, NEW r \in Runs, RunMoves(r)
    PROVE  SessionInv'
<1>1. UNCHANGED <<store, redis, req, resumed, faults>>
  BY DEF RunMoves
<1>2. /\ status[r] \in {"queued", "running"}
      /\ \A q \in Runs : q # r => status'[q] = status[q] /\ outcome'[q] = outcome[q]
      /\ \/ status'[r] = "running" /\ outcome'[r] = outcome[r]
         \/ /\ outcome[r] = "none"
            /\ outcome'[r] \in Terminal
            /\ status'[r] = outcome'[r]
  BY DEF RunMoves, RunStore!Start, RunStore!Finish, RunStore!Active, SessionInv,
         TypeOK, RunStore!TypeOK, Terminal
<1>3. /\ status' \in [Runs -> RunStore!Status]
      /\ outcome' \in [Runs -> {"none"} \cup Terminal]
  BY DEF RunMoves, RunStore!Start, RunStore!Finish, SessionInv, TypeOK,
         RunStore!TypeOK, RunStore!Status, RunStore!Active, Terminal
<1>4. \A q \in Runs : status'[q] # "absent" => status[q] # "absent"
  BY <1>2
<1>5. Grows
  BY <1>1, <1>2 DEF Grows, redis, Terminal, RunStore!Terminal
<1>6. Requests'
  <2>1. ASSUME NEW q \in Processes
        PROVE  Carries(req[q])'
    <3>1. PICK y \in Request : y = req[q] /\ Carries(y)
      BY Known
    <3>2. Carries(y)' /\ req'[q] = y
      BY <1>1, <1>5, <3>1, CarriesStays DEF SessionInv
    <3>3. QED
      BY <3>2
  <2>2. QED
    BY <2>1 DEF Requests
<1>7. TypeOK'
  BY <1>1, <1>3 DEF SessionInv, TypeOK, store, redis, RunStore!TypeOK, Terminal
<1>8. Decisions'
  BY <1>1, <1>2, <1>4
     DEF SessionInv, Decisions, redis, Terminal, RunStore!Terminal
<1>9. Coherent(thread)'
  <2>1. PICK m \in ThreadRecord : m = thread
    BY DEF SessionInv, TypeOK
  <2>2. Coherent(m)' /\ thread' = m
    BY <1>1, <1>5, <2>1, CoherentStays DEF SessionInv, store
  <2>3. QED
    BY <2>2
<1>10. AuditIsTrue'
  <2>1. claim' = claim /\ Entries' = Entries
    BY <1>1 DEF redis, Entries
  <2>2. claim.run \in Runs \cup {None}
    BY DEF SessionInv, TypeOK, ClaimRecord
  <2>3. \A t \in Terminal :
          claim.run \in Runs /\ outcome[claim.run] = t => outcome'[claim.run] = t
    BY <1>5 DEF Grows, Terminal, RunStore!Terminal
  <2>4. \A t \in Terminal : EventOf[t] \in Entries => claim.run \in Runs
    BY <2>2 DEF SessionInv, AuditIsTrue, Outcomes
  <2>5. "completed" \in Entries => claim.run \in Runs
    BY <2>2 DEF SessionInv, AuditIsTrue, Outcomes
  <2>6. "completed" \in Terminal
    BY DEF Terminal, RunStore!Terminal
  <2>7. QED
    BY <2>1, <2>3, <2>4, <2>5, <2>6 DEF SessionInv, AuditIsTrue
<1>11. QED
  BY <1>1, <1>6, <1>7, <1>8, <1>9, <1>10 DEF SessionInv

(* A session begins with nothing to disagree about.                        *)
LEMMA StartStays ==
    ASSUME SessionInv, Start
    PROVE  SessionInv'
<1>1. /\ thread' = Discovered
      /\ version' = 1
      /\ lease' = TRUE
      /\ events' = <<"started", "awaiting_confirmation">>
      /\ UNCHANGED <<lock, claim, req, resumed, faults, status, outcome>>
  BY DEF Start, runs
<1>2. /\ Discovered \in ThreadRecord
      /\ Discovered.next = "candidate_confirmation"
      /\ Discovered.run = None
      /\ Discovered.done = "none"
  BY DEF Discovered, NoThread, ThreadRecord, Nodes
<1>3. events' \in Seq(EventTypes)
  BY <1>1 DEF EventTypes
<1>4. TypeOK'
  BY <1>1, <1>2, <1>3 DEF SessionInv, TypeOK, RunStore!TypeOK
<1>5. Coherent(thread)'
  BY <1>1, <1>2 DEF Coherent
<1>6. Decisions' /\ Requests'
  BY <1>1 DEF SessionInv, Decisions, Requests, Carries, Coherent, Reports
<1>7. AuditIsTrue'
  <2>1. Entries' = {"started", "awaiting_confirmation"}
    BY <1>1 DEF Entries
  <2>2. \A t \in Terminal : EventOf[t] \notin {"started", "awaiting_confirmation"}
    BY DEF Terminal, RunStore!Terminal, EventOf
  <2>3. QED
    BY <2>1, <2>2 DEF AuditIsTrue, Outcomes
<1>8. QED
  BY <1>4, <1>5, <1>6, <1>7 DEF SessionInv

-----------------------------------------------------------------------------
(* The invariant, and what it implies.                                     *)

(* No session, no requests.                                                *)
LEMMA InitIsSession == Init => SessionInv
<1> SUFFICES ASSUME Init PROVE SessionInv
  OBVIOUS
<1>1. TypeOK
  <2>1. thread \in ThreadRecord /\ req \in [Processes -> Request]
    BY ConstantRecords DEF Init
  <2>2. claim \in ClaimRecord /\ events \in Seq(EventTypes)
    BY DEF Init, ClaimRecord
  <2>3. faults \in 0..MaxFaults
    BY ConstantsAssumption DEF Init
  <2>4. RunStore!TypeOK
    BY DEF Init, RunStore!Init, RunStore!TypeOK, RunStore!Status
  <2>5. QED
    BY <2>1, <2>2, <2>3, <2>4 DEF Init, TypeOK
<1>2. Decisions
  BY DEF Init, Decisions, RunStore!Init, Terminal, RunStore!Terminal
<1>3. Coherent(thread)
  BY NoThreadCoherent DEF Init
<1>4. Requests
  BY IdleCarries DEF Init, Requests
<1>5. AuditIsTrue
  BY DEF Init, AuditIsTrue, Entries
<1>6. QED
  BY <1>1, <1>2, <1>3, <1>4, <1>5 DEF SessionInv

(* Every step keeps the invariant.                                         *)
LEMMA NextIsSession == SessionInv /\ [Next]_vars => SessionInv'
<1> SUFFICES ASSUME SessionInv, [Next]_vars PROVE SessionInv'
  OBVIOUS
<1>1. CASE Start
  BY <1>1, StartStays
<1>2. ASSUME NEW p \in Handlers,
             \/ \E v \in {1, version}, s \in Selections : Confirm(p, v, s)
             \/ Get(p)
      PROVE  SessionInv'
  BY <1>2, ArrivalStays
<1>3. ASSUME NEW r \in Runs, WorkerResume(r) \/ RunMoves(r)
      PROVE  SessionInv'
  BY <1>3, WorkerResumeStays, RunMovesStay
<1>4. ASSUME NEW p \in Processes, GraphStep(p)
      PROVE  SessionInv'
  BY <1>4, LoadStays, PutStays, NodesStay, AnalysisSubmittedStays, SaveRunStays,
     GraphStopsStays DEF GraphStep
<1>5. ASSUME NEW p \in Processes, Step(p)
      PROVE  SessionInv'
  BY <1>4, <1>5, GetThreadStays, ReconcileStays, LooksStay, AcquireStays,
     ReleaseStays, DropsStay, ConfirmChecksStay, CheckCompleteStays, ViewStays,
     ActivateStays, EventsStay, RejectStays DEF Step
<1>6. ASSUME NEW p \in Processes, Dies(p) \/ Raises(p) \/ DropFails(p)
      PROVE  SessionInv'
  BY <1>6, FaultsStay, DropsStay
<1>7. CASE LeaseLapses \/ LockLapses
  BY <1>7, LapsesStay
<1>8. CASE UNCHANGED vars
  <2>1. UNCHANGED <<thread, version, lease, lock, events, claim, req, resumed,
                    faults, status, outcome>>
    BY <1>8 DEF vars, store, redis, runs
  <2>2. TypeOK' /\ Decisions' /\ Coherent(thread)'
    BY <2>1 DEF SessionInv, TypeOK, RunStore!TypeOK, Decisions, Coherent
  <2>3. Requests' /\ AuditIsTrue'
    BY <2>1 DEF SessionInv, Requests, Carries, Coherent, Reports, AuditIsTrue, Entries
  <2>4. QED
    BY <2>2, <2>3 DEF SessionInv
<1>9. QED
  BY <1>1, <1>2, <1>3, <1>5, <1>6, <1>7, <1>8 DEF Next

(* The invariant holds in every reachable state.                           *)
LEMMA SessionAlways == Spec => []SessionInv
  BY InitIsSession, NextIsSession, PTL DEF Spec

(* Every reachable state has its types.                                    *)
THEOREM TypeCorrect == Spec => []TypeOK
<1>1. SessionInv => TypeOK
  BY DEF SessionInv
<1>2. QED
  BY <1>1, SessionAlways, PTL

(* A session has at most one run, however often and however concurrently   *)
(* it is confirmed, with or without a working transition lock              *)
(* (site_selection_supervisor.py, the submitter's idempotency key).        *)
THEOREM OneRun == Spec => []OneRunPerSession
<1>1. SessionInv => OneRunPerSession
  BY DEF SessionInv, Decisions, OneRunPerSession
<1>2. QED
  BY <1>1, SessionAlways, PTL

(* The run a session waits for analyses the validated candidates that the  *)
(* session records as confirmed, whoever checkpointed last                 *)
(* (supervisor.py, candidate_confirmation and analysis_submitted).         *)
THEOREM ChoiceIsAnalysed == Spec => []ConfirmedIsAnalysed
<1>1. SessionInv => ConfirmedIsAnalysed
  <2> SUFFICES ASSUME SessionInv, thread.run # None
               PROVE  /\ claim = [run |-> thread.run, pick |-> thread.pick]
                      /\ thread.pick \in Allowed
                      /\ status[thread.run] # "absent"
    BY DEF ConfirmedIsAnalysed
  <2>1. /\ claim = [run |-> thread.run, pick |-> thread.pick]
        /\ status[thread.run] # "absent"
    BY DEF SessionInv, Coherent
  <2>2. claim.run # None /\ claim.pick = thread.pick
    BY <2>1
  <2>3. QED
    BY <2>1, <2>2 DEF SessionInv, Decisions
<1>2. QED
  BY <1>1, SessionAlways, PTL

(* What a session reports is the outcome its run was decided to have       *)
(* (supervisor.py, analysis_wait; the worker and polls alike).             *)
THEOREM OutcomeReported == Spec => []ReportsOutcome
<1>1. SessionInv => ReportsOutcome
  BY DEF SessionInv, Coherent, ReportsOutcome
<1>2. QED
  BY <1>1, SessionAlways, PTL

(* The audit list never names a submission without a run or an outcome     *)
(* that is not the run's (site_selection_supervisor.py, append_event).     *)
THEOREM AuditCorrect == Spec => []AuditIsTrue
<1>1. SessionInv => AuditIsTrue
  BY DEF SessionInv
<1>2. QED
  BY <1>1, SessionAlways, PTL

-----------------------------------------------------------------------------
(* While no lease and no held lock runs out, the transition lock makes the *)
(* session's checkpoints the states of SessionSpec, one at a time.         *)

InTime == ~LeaseExpires /\ ~SlowHolders

-----------------------------------------------------------------------------
(* The inductive invariant, beside SessionInv.                             *)

(* The requests that run the graph.                                        *)
Running == {"node", "save", "submitted"}

(* The state of the graph one node ahead of its latest checkpoint.         *)
Chosen(m) ==
    /\ thread.next = "candidate_confirmation" /\ m.next = "analysis_submitted"
    /\ m.pick \in Selections /\ m.run = thread.run /\ m.done = thread.done

Awaiting(m) ==
    /\ thread.next = "analysis_submitted" /\ m.next = "analysis_wait"
    /\ m.run \in Runs /\ status[m.run] # "absent"
    /\ m.pick = thread.pick /\ m.done = thread.done

Settled(m) ==
    /\ thread.next = "analysis_wait" /\ m.next = "analysis_completed"
    /\ thread.run \in Runs
    /\ m.done \in Terminal /\ outcome[thread.run] = m.done
    /\ m.pick = thread.pick /\ m.run = thread.run

Ending(m) ==
    /\ thread.next = "analysis_completed" /\ m.next = "end"
    /\ m.pick = thread.pick /\ m.run = thread.run /\ m.done = thread.done

Ahead(m) == Chosen(m) \/ Awaiting(m) \/ Settled(m) \/ Ending(m)

(* What the copy of the lock's holder is worth.                            *)
Faithful(x) ==
    /\ x.unsaved => x.pc \in Running /\ ~x.fresh /\ Ahead(x.mem)
    /\ x.pc \in Running /\ ~x.unsaved => x.mem = thread
    /\ x.pc \in {"save", "submitted"} => x.mem.next = "analysis_submitted"
    /\ x.pc = "activate" => x.mem = thread
    /\ x.op = "confirm" =>
         /\ x.pc = "load" => thread.next = "candidate_confirmation"
         /\ x.pc \in Running =>
              \/ x.mem.next = "candidate_confirmation"
              \/ x.mem.next \in {"analysis_submitted", "analysis_wait"} /\ ~x.fresh
         /\ x.pc \in Recorded => thread.next = "analysis_wait"
    /\ x.op = "complete" /\ x.pc \in {"event", "event2"} => thread.next = "end"

(* The lock is held by whoever is between taking it and giving it back.    *)
Exclusive == \A p \in Processes : req[p].pc \in Locked => lock = p

(* A session keeps its lease from its start, and nothing comes before it.  *)
Begun ==
    /\ version = 0 => /\ thread = NoThread /\ claim.run = None
                      /\ \A p \in Processes : req[p].pc = "idle"
    /\ version > 0 => lease
    /\ \A p \in Processes : req[p].pc \notin Dropping

(* An outcome is recorded only of a session at its end.                    *)
Told == Entries \cap Outcomes # {} => thread.next = "end"

LockInv ==
    /\ Begun /\ Exclusive /\ Told /\ AuditIsOrdered
    /\ \A p \in Processes : Faithful(req[p])

-----------------------------------------------------------------------------
(* What is known before a step.                                            *)
LEMMA KnownLock ==
    ASSUME SessionInv, LockInv, NEW p \in Processes
    PROVE  /\ req[p] \in Request /\ Carries(req[p]) /\ Faithful(req[p])
           /\ req[p].pc \notin Dropping
           /\ req[p].pc \in Locked => lock = p
           /\ req[p].pc # "idle" => version > 0
           /\ version > 0 => lease
           /\ req[p].pc \notin Running => ~req[p].unsaved
           /\ thread \in ThreadRecord
<1>1. version \in Nat
  BY DEF SessionInv, TypeOK
<1> QED
  BY <1>1, Known DEF SessionInv, TypeOK, LockInv, Begun, Exclusive, Faithful

(* A request that holds no copy.                                           *)
Plain == PCs \ (Dropping \cup Running \cup {"load", "view", "activate", "event", "event2"})

LEMMA PlainFaithful ==
    ASSUME NEW x, ~x.unsaved, x.pc \in Plain
    PROVE  Faithful(x)
  BY DEF Faithful, Plain, Running, Recorded

(* Copies stay faithful while runs are submitted and decided.              *)
LEMMA FaithfulStays ==
    ASSUME SessionInv, Grows, thread' = thread, NEW x \in Request, Faithful(x)
    PROVE  Faithful(x)'
<1>1. Ahead(x.mem) => Ahead(x.mem)'
  <2>1. Awaiting(x.mem) => Awaiting(x.mem)'
    BY DEF Awaiting, Grows
  <2>2. Settled(x.mem) => Settled(x.mem)'
    BY DEF Settled, Grows, Terminal, RunStore!Terminal
  <2>3. (Chosen(x.mem) => Chosen(x.mem)') /\ (Ending(x.mem) => Ending(x.mem)')
    BY DEF Chosen, Ending
  <2> QED
    BY <2>1, <2>2, <2>3 DEF Ahead
<1> QED
  BY <1>1 DEF Faithful

-----------------------------------------------------------------------------
(* A step of one request that writes no checkpoint.                        *)
Quiet(p) ==
    /\ Grows /\ version > 0
    /\ UNCHANGED <<thread, version>>
    /\ lease' = lease \/ lease' = TRUE
    /\ lock' = lock \/ (lock = None /\ lock' = p) \/ (lock = p /\ lock' = None)

Holding ==
    Begun /\ Exclusive /\ \A p \in Processes : Faithful(req[p])

LEMMA QuietHolds ==
    ASSUME SessionInv, LockInv, NEW p \in Processes, Quiet(p),
           NEW x \in Request, Becomes(p, x), Faithful(x), x.pc \notin Dropping,
           x.pc \in Locked => lock' = p
    PROVE  Holding'
<1>1. /\ req'[p] = x
      /\ \A q \in Processes : q # p => req'[q] = req[q]
  BY DEF SessionInv, TypeOK, Becomes
<1>2. Begun'
  <2>0. version > 0 /\ lease
    BY DEF LockInv, Begun, Quiet
  <2>1. version' > 0 /\ lease'
    BY <2>0 DEF Quiet
  <2>2. \A q \in Processes : req'[q].pc \notin Dropping
    BY <1>1 DEF LockInv, Begun
  <2>3. version' # 0
    BY <2>1
  <2> QED
    BY <2>1, <2>2, <2>3 DEF Begun
<1>3. Exclusive'
  <2>1. None \notin Processes
    BY ConstantsAssumption DEF Processes
  <2> QED
    BY <1>1, <2>1 DEF LockInv, Exclusive, Quiet
<1>4. ASSUME NEW q \in Processes
      PROVE  Faithful(req[q])'
  <2>1. CASE q = p
    <3>1. Faithful(x)'
      BY FaithfulStays DEF Quiet
    <3> QED
      BY <1>1, <2>1, <3>1
  <2>2. CASE q # p
    <3>1. PICK y \in Request : y = req[q] /\ Faithful(y)
      BY KnownLock
    <3>2. Faithful(y)' /\ req'[q] = y
      BY <1>1, <2>2, <3>1, FaithfulStays DEF Quiet
    <3> QED
      BY <3>2
  <2> QED
    BY <2>1, <2>2
<1> QED
  BY <1>2, <1>3, <1>4 DEF Holding

LEMMA LockStep ==
    ASSUME SessionInv, LockInv, NEW p \in Processes, Quiet(p), events' = events,
           NEW x \in Request, Becomes(p, x), Faithful(x), x.pc \notin Dropping,
           x.pc \in Locked => lock' = p
    PROVE  LockInv'
<1>1. Holding'
  BY QuietHolds
<1>2. Told' /\ AuditIsOrdered'
  BY DEF LockInv, Told, AuditIsOrdered, Entries, Quiet
<1> QED
  BY <1>1, <1>2 DEF LockInv, Holding

LEMMA ReturnLocks ==
    ASSUME SessionInv, LockInv, NEW p \in Processes, Quiet(p), events' = events,
           Return(p)
    PROVE  LockInv'
<1>1. Idle \in Request /\ Becomes(p, Idle)
  BY ConstantRecords DEF Return, Becomes
<1>2. Idle.pc = "idle" /\ ~Idle.unsaved
  BY DEF Idle
<1>3. /\ "idle" \in Plain /\ "idle" \notin Dropping /\ "idle" \notin Locked
  BY DEF Plain, PCs, Dropping, Running, Locked, Guarded, Graph
<1>4. Faithful(Idle)
  BY <1>2, <1>3, PlainFaithful
<1> QED
  BY <1>1, <1>2, <1>3, <1>4, LockStep

LEMMA GotoWhole ==
    ASSUME TypeOK, NEW p \in Processes, NEW pc \in PCs, Goto(p, pc)
    PROVE  \E x \in Request : /\ Becomes(p, x) /\ x.pc = pc /\ Like(x, req[p])
                              /\ x.unsaved = req[p].unsaved
<1>1. req[p] \in Request
  BY DEF TypeOK
<1>2. [req[p] EXCEPT !.pc = pc] \in Request
  BY <1>1 DEF Request
<1>3. req' = [req EXCEPT ![p] = [req[p] EXCEPT !.pc = pc]]
  BY DEF TypeOK, Goto
<1> QED
  BY <1>1, <1>2, <1>3 DEF Becomes, Like, Request

LEMMA FinishedWhole ==
    ASSUME TypeOK, NEW p \in Processes, NEW m \in ThreadRecord, Finished(p, m)
    PROVE  \E x \in Request :
             /\ Becomes(p, x) /\ x.pc = "node" /\ x.op = req[p].op
             /\ x.mem = m /\ ~x.fresh /\ x.unsaved
<1> DEFINE x == [req[p] EXCEPT !.mem = m, !.pc = "node", !.fresh = FALSE,
                               !.unsaved = TRUE]
<1>1. req[p] \in Request
  BY DEF TypeOK
<1>2. x \in Request
  BY <1>1 DEF Request, PCs, Locked, Guarded, Graph
<1>3. req' = [req EXCEPT ![p] = x]
  BY DEF TypeOK, Finished
<1> QED
  BY <1>1, <1>2, <1>3 DEF Becomes, Request

LEMMA GotoLocks ==
    ASSUME SessionInv, LockInv, NEW p \in Processes, Quiet(p), events' = events,
           NEW pc \in PCs \ Dropping, Goto(p, pc), pc \in Locked => lock' = p,
           \A x \in Request : x.pc = pc /\ Like(x, req[p]) /\ x.unsaved = req[p].unsaved
              => Faithful(x)
    PROVE  LockInv'
<1>1. PICK x \in Request : /\ Becomes(p, x) /\ x.pc = pc /\ Like(x, req[p])
                           /\ x.unsaved = req[p].unsaved
  BY GotoWhole DEF SessionInv
<1> QED
  BY <1>1, LockStep

(* It moves on without a copy.                                             *)
LEMMA PlainLocks ==
    ASSUME SessionInv, LockInv, NEW p \in Processes, Quiet(p), events' = events,
           NEW pc \in Plain, Goto(p, pc), pc \in Locked => lock' = p,
           ~req[p].unsaved
    PROVE  LockInv'
<1>1. pc \in PCs \ Dropping
  BY DEF Plain
<1>2. \A x \in Request : x.pc = pc /\ x.unsaved = req[p].unsaved => Faithful(x)
  BY PlainFaithful
<1> QED
  BY <1>1, <1>2, GotoLocks

(* An exception.                                                           *)
LEMMA FailLocks ==
    ASSUME SessionInv, LockInv, NEW p \in Processes, Quiet(p), events' = events,
           lock' = p, Fail(p), ~req[p].unsaved
    PROVE  LockInv'
<1>1. Unwinding(p) \in {"reject", "unwind"}
  BY DEF Unwinding
<1>2. Unwinding(p) \in Plain
  BY <1>1 DEF Plain, PCs, Locked, Guarded, Running, Dropping, Graph
<1> QED
  BY <1>2, PlainLocks DEF Fail

LEMMA Unmoved ==
    ASSUME SessionInv, LockInv, NEW p \in Processes, version > 0,
           UNCHANGED <<store, lease, lock, claim, runs>>
    PROVE  Quiet(p)
  BY DEF Quiet, Grows, store, runs

-----------------------------------------------------------------------------
(* Requests before and after the lock.                                     *)
LEMMA ArrivalLocks ==
    ASSUME SessionInv, LockInv, NEW p \in Handlers,
           \/ \E v \in {1, version}, s \in Selections : Confirm(p, v, s)
           \/ Get(p)
    PROVE  LockInv'
<1>1. p \in Processes
  BY DEF Processes
<1>2. version > 0 /\ UNCHANGED <<store, redis, resumed, faults, runs>>
  BY DEF Confirm, Get
<1>3. lease /\ Quiet(p) /\ events' = events
  BY <1>1, <1>2, KnownLock, Unmoved DEF redis
<1>4. ASSUME NEW v \in {1, version}, NEW s \in Selections, Confirm(p, v, s)
      PROVE  LockInv'
  <2> DEFINE x == [Idle EXCEPT !.pc = "acquire", !.op = "confirm",
                               !.expected = v, !.pick = s]
  <2>1. Becomes(p, x)
    BY <1>3, <1>4 DEF Confirm, Becomes, Alive
  <2>2. v \in Nat
    BY DEF SessionInv, TypeOK
  <2>3. x \in Request /\ x.pc = "acquire" /\ ~x.unsaved
    BY <2>2 DEF Idle, Request, PCs, NoThread, ThreadRecord
  <2> HIDE DEF x
  <2>4. Faithful(x)
    BY <2>3, PlainFaithful DEF Plain, PCs, Running, Dropping
  <2> QED
    BY <1>1, <1>3, <2>1, <2>3, <2>4, LockStep DEF Dropping, Locked, Guarded, Graph
<1>5. ASSUME Get(p)
      PROVE  LockInv'
  <2> DEFINE x == [Idle EXCEPT !.pc = "get", !.op = "get"]
  <2>1. Becomes(p, x)
    BY <1>3, <1>5 DEF Get, Becomes, Alive
  <2>2. x \in Request /\ x.pc = "get" /\ ~x.unsaved
    BY DEF Idle, Request, PCs, NoThread, ThreadRecord
  <2> HIDE DEF x
  <2>3. Faithful(x)
    BY <2>2, PlainFaithful DEF Plain, PCs, Running, Dropping
  <2> QED
    BY <1>1, <1>3, <2>1, <2>2, <2>3, LockStep DEF Dropping, Locked, Guarded, Graph
<1> QED
  BY <1>4, <1>5

(* A completion begins, of the worker or of a poll.                        *)
LEMMA CompletionLocks ==
    ASSUME SessionInv, LockInv, NEW p \in Processes, Quiet(p), events' = events,
           NEW r \in Runs, status[r] \in Terminal, Becomes(p, Completion(r))
    PROVE  LockInv'
<1> DEFINE x == Completion(r)
<1>1. x \in Request
  BY CompletionCarries
<1>2. x.pc = "active" /\ ~x.unsaved
  BY DEF Completion, Idle
<1> HIDE DEF x
<1>3. Faithful(x)
  BY <1>2, PlainFaithful DEF Plain, PCs, Running, Dropping
<1>4. Becomes(p, x)
  BY DEF x
<1> QED
  BY <1>1, <1>2, <1>3, <1>4, LockStep DEF Dropping, Locked, Guarded, Graph

LEMMA WorkerLocks ==
    ASSUME SessionInv, LockInv, NEW r \in Runs, WorkerResume(r)
    PROVE  LockInv'
<1>1. /\ r = claim.run /\ status[r] \in Terminal
      /\ UNCHANGED <<store, redis, faults, runs>>
      /\ Becomes(Worker, Completion(r))
  BY DEF WorkerResume, Becomes, Completion
<1>2. Worker \in Processes
  BY DEF Processes
<1>3. version > 0
  <2>1. r # None /\ version \in Nat
    BY ConstantsAssumption DEF SessionInv, TypeOK
  <2> QED
    BY <1>1, <2>1 DEF LockInv, Begun
<1>4. Quiet(Worker) /\ events' = events
  BY <1>1, <1>2, <1>3, Unmoved DEF redis
<1> QED
  BY <1>1, <1>2, <1>4, CompletionLocks

LEMMA PollLocks ==
    ASSUME SessionInv, LockInv, NEW p \in Processes, GetThread(p) \/ Reconcile(p)
    PROVE  LockInv'
<1>1. /\ req[p].pc \in {"get", "reconcile"}
      /\ UNCHANGED <<store, redis, resumed, faults, runs>>
  BY DEF GetThread, Reconcile, At
<1>2. Quiet(p) /\ events' = events /\ ~req[p].unsaved
  BY <1>1, KnownLock, Unmoved DEF redis, Running
<1>3. CASE Return(p)
  BY <1>2, <1>3, ReturnLocks
<1>4. CASE GetThread(p) /\ thread.next = "analysis_wait"
  <2> DEFINE x == [req[p] EXCEPT !.pc = "reconcile", !.mem = thread]
  <2>1. Becomes(p, x)
    BY <1>4 DEF GetThread, Becomes, SessionInv, TypeOK
  <2>2. x \in Request /\ x.pc = "reconcile" /\ ~x.unsaved
    BY <1>2, KnownLock DEF Request, PCs
  <2> HIDE DEF x
  <2>3. Faithful(x)
    BY <2>2, PlainFaithful DEF Plain, PCs, Running, Dropping
  <2> QED
    BY <1>2, <2>1, <2>2, <2>3, LockStep DEF Dropping, Locked, Guarded, Graph
<1>5. CASE Reconcile(p) /\ ~Return(p)
  <2> DEFINE r == req[p].mem.run
  <2>1. status[r] \in Terminal /\ Becomes(p, Completion(r))
    BY <1>5 DEF Reconcile, Ended, Becomes, Completion
  <2>2. r \in Runs
    BY <1>5, KnownLock DEF Reconcile, At, Carries, Coherent
  <2> QED
    BY <1>2, <2>1, <2>2, CompletionLocks
<1> QED
  BY <1>3, <1>4, <1>5 DEF GetThread

LEMMA LookLocks ==
    ASSUME SessionInv, LockInv, NEW p \in Processes, Active(p) \/ Current(p)
    PROVE  LockInv'
<1>1. /\ req[p].pc \in {"active", "current"}
      /\ UNCHANGED <<store, redis, resumed, faults, runs>>
  BY DEF Active, Current, At
<1>2. Quiet(p) /\ events' = events /\ ~req[p].unsaved /\ lease
  BY <1>1, KnownLock, Unmoved DEF redis, Running
<1>3. Goto(p, "current") \/ Goto(p, "acquire") \/ Return(p)
  BY <1>2 DEF Active, Current, Alive
<1>4. /\ {"current", "acquire"} \subseteq Plain
      /\ {"current", "acquire"} \cap Locked = {}
  BY DEF Plain, PCs, Running, Dropping, Locked, Guarded, Graph
<1> QED
  BY <1>2, <1>3, <1>4, ReturnLocks, PlainLocks

-----------------------------------------------------------------------------
(* The lock is taken, given back, and never dropped.                       *)
LEMMA AcquireLocks ==
    ASSUME SessionInv, LockInv, NEW p \in Processes, Acquire(p)
    PROVE  LockInv'
<1>1. /\ req[p].pc = "acquire"
      /\ UNCHANGED <<store, lease, events, claim, resumed, faults, runs>>
  BY DEF Acquire, At
<1>2. version > 0 /\ lease /\ ~req[p].unsaved
  BY <1>1, KnownLock DEF Running
<1>3. \/ /\ lock = None /\ lock' = p
         /\ Goto(p, "before") \/ Goto(p, "check")
      \/ Return(p) /\ lock' = lock
  BY <1>2 DEF Acquire, LockIsFree
<1>4. Quiet(p)
  BY <1>1, <1>2, <1>3 DEF Quiet, Grows, store, runs
<1>5. {"before", "check"} \subseteq Plain
  BY DEF Plain, PCs, Running, Dropping, Locked, Guarded, Graph
<1> QED
  BY <1>1, <1>2, <1>3, <1>4, <1>5, ReturnLocks, PlainLocks

LEMMA ReleaseLocks ==
    ASSUME SessionInv, LockInv, NEW p \in Processes, Release(p)
    PROVE  LockInv'
<1>1. /\ req[p].pc \in {"release", "unwind"}
      /\ UNCHANGED <<store, lease, events, claim, resumed, faults, runs>>
      /\ Goto(p, "reconcile") \/ Return(p)
  BY DEF Release
<1>2. version > 0 /\ ~req[p].unsaved /\ lock = p
  BY <1>1, KnownLock DEF Running, Locked
<1>3. lock' = None
  BY <1>2 DEF Release, Unlock
<1>4. Quiet(p)
  BY <1>1, <1>2, <1>3 DEF Quiet, Grows, store, runs
<1>5. "reconcile" \in Plain /\ "reconcile" \notin Locked
  BY DEF Plain, PCs, Running, Dropping, Locked, Guarded, Graph
<1> QED
  BY <1>1, <1>2, <1>4, <1>5, ReturnLocks, PlainLocks

LEMMA NothingDropped ==
    ASSUME SessionInv, LockInv, NEW p \in Processes
    PROVE  ~(DropLease(p) \/ DropLock(p) \/ DropThread(p) \/ DropFails(p))
  BY KnownLock DEF DropLease, DropLock, DropThread, DropFails, At, Dropping

(* Only a lock nobody uses lapses, and no lease.                           *)
LEMMA LapseLocks ==
    ASSUME InTime, SessionInv, LockInv, LeaseLapses \/ LockLapses
    PROVE  LockInv'
<1>1. LockLapses
  BY DEF InTime, LeaseLapses
<1>2. /\ lock' = None /\ lock # None /\ req[lock].pc \notin Locked
      /\ UNCHANGED <<thread, version, lease, events, claim, req, status, outcome>>
  BY <1>1 DEF LockLapses, InTime, Held, store, runs
<1>3. Exclusive'
  BY <1>2 DEF LockInv, Exclusive
<1>4. Begun' /\ Told' /\ AuditIsOrdered'
  BY <1>2 DEF LockInv, Begun, Told, AuditIsOrdered, Entries
<1>5. ASSUME NEW q \in Processes
      PROVE  Faithful(req[q])'
  <2>1. PICK y \in Request : y = req[q] /\ Faithful(y)
    BY KnownLock
  <2>2. Grows
    BY <1>2 DEF Grows
  <2>3. Faithful(y)' /\ req'[q] = y
    BY <1>2, <2>1, <2>2, FaithfulStays
  <2> QED
    BY <2>3
<1> QED
  BY <1>3, <1>4, <1>5 DEF LockInv

-----------------------------------------------------------------------------
(* Inside the lock.                                                        *)
LEMMA Inside ==
    ASSUME SessionInv, LockInv, NEW p \in Processes, req[p].pc \in Locked,
           UNCHANGED <<store, lease, lock, claim, runs>>
    PROVE  Quiet(p) /\ lock = p /\ lock' = p /\ req[p].op \in {"confirm", "complete"}
<1>1. req[p].pc # "idle"
  BY DEF Locked, Guarded, Graph
<1> QED
  BY <1>1, KnownLock, Unmoved DEF Carries

LEMMA CheckLocks ==
    ASSUME SessionInv, LockInv, NEW p \in Processes,
           Before(p) \/ CheckConfirm(p) \/ CheckComplete(p) \/ Reject(p)
    PROVE  LockInv'
<1>1. /\ req[p].pc \in {"before", "check", "reject"}
      /\ UNCHANGED <<store, redis, resumed, faults, runs>>
  BY DEF Before, CheckConfirm, CheckComplete, Reject, At
<1>2. Quiet(p) /\ events' = events /\ lock' = p /\ ~req[p].unsaved
  BY <1>1, Inside, KnownLock DEF redis, Running, Locked, Guarded
<1>3. {"check", "unwind"} \subseteq Plain /\ "load" \in PCs \ Dropping
  BY DEF Plain, PCs, Running, Dropping, Locked, Guarded, Graph
<1>4. CASE Before(p) \/ Reject(p)
  BY <1>2, <1>3, <1>4, ReturnLocks, PlainLocks DEF Before, Reject
<1>5. CASE Fail(p)
  BY <1>2, <1>5, FailLocks
<1>6. CASE CheckConfirm(p) /\ Goto(p, "load")
  <2>1. thread.next = "candidate_confirmation"
    <3>1. CASE Awaits(p)
      BY <3>1 DEF Awaits
    <3>2. CASE ~Awaits(p)
      <4>1. Goto(p, Unwinding(p)) /\ Unwinding(p) # "load"
        BY <1>6, <3>2 DEF CheckConfirm, Fail, Unwinding
      <4>2. req'[p].pc = "load" /\ req'[p].pc = Unwinding(p)
        BY <1>6, <4>1, KnownLock DEF Goto, SessionInv, TypeOK, Request
      <4> QED
        BY <4>1, <4>2
    <3> QED
      BY <3>1, <3>2
  <2>2. \A x \in Request : x.pc = "load" /\ Like(x, req[p]) /\ x.unsaved = req[p].unsaved
           => Faithful(x)
    BY <1>2, <2>1 DEF Faithful, Running, Recorded
  <2> QED
    BY <1>2, <1>3, <1>6, <2>2, GotoLocks
<1>7. CASE CheckComplete(p) /\ Goto(p, "load")
  <2>1. req[p].op = "complete"
    BY <1>7 DEF CheckComplete
  <2>2. \A x \in Request : x.pc = "load" /\ Like(x, req[p]) /\ x.unsaved = req[p].unsaved
           => Faithful(x)
    BY <1>2, <2>1 DEF Faithful, Running, Recorded, Like
  <2> QED
    BY <1>2, <1>3, <1>7, <2>2, GotoLocks
<1>8. CASE /\ CheckComplete(p)
           /\ req' = [req EXCEPT ![p].mem = thread, ![p].pc = "activate"]
  <2> DEFINE x == [req[p] EXCEPT !.mem = thread, !.pc = "activate"]
  <2>1. Becomes(p, x) /\ req[p].op = "complete"
    BY <1>8 DEF CheckComplete, Becomes, SessionInv, TypeOK
  <2>2. /\ x \in Request /\ x.pc = "activate" /\ ~x.unsaved /\ x.op = "complete"
        /\ x.mem = thread
    BY <1>2, <2>1, KnownLock DEF Request, PCs, Locked, Guarded
  <2> HIDE DEF x
  <2>3. Faithful(x)
    BY <2>2 DEF Faithful, Running, Recorded
  <2> QED
    BY <1>2, <2>1, <2>2, <2>3, LockStep DEF Dropping
<1> QED
  BY <1>4, <1>5, <1>6, <1>7, <1>8 DEF CheckConfirm, CheckComplete

(* The graph is handed a copy of the thread, ...                           *)
LEMMA LoadLocks ==
    ASSUME SessionInv, LockInv, NEW p \in Processes, Load(p)
    PROVE  LockInv'
<1>1. /\ req[p].pc = "load" /\ UNCHANGED <<store, redis, resumed, faults, runs>>
  BY DEF Load, At
<1>2. Quiet(p) /\ events' = events /\ lock' = p /\ ~req[p].unsaved
  BY <1>1, Inside, KnownLock DEF redis, Running, Locked, Guarded, Graph
<1>3. CASE Fail(p)
  BY <1>2, <1>3, FailLocks
<1>4. CASE req' = [req EXCEPT ![p].mem = thread, ![p].fresh = TRUE, ![p].pc = "node"]
  <2> DEFINE x == [req[p] EXCEPT !.mem = thread, !.fresh = TRUE, !.pc = "node"]
  <2>1. Becomes(p, x)
    BY <1>4 DEF Becomes, SessionInv, TypeOK
  <2>2. /\ x \in Request /\ x.pc = "node" /\ ~x.unsaved /\ x.op = req[p].op
        /\ x.mem = thread
    BY <1>2, KnownLock DEF Request, PCs, Locked, Guarded, Graph
  <2> HIDE DEF x
  <2>3. x.op = "confirm" => thread.next = "candidate_confirmation"
    BY <1>1, <2>2, KnownLock DEF Faithful
  <2>4. Faithful(x)
    BY <2>2, <2>3 DEF Faithful, Running, Recorded
  <2> QED
    BY <1>2, <2>1, <2>2, <2>4, LockStep DEF Dropping
<1> QED
  BY <1>3, <1>4 DEF Load

(* ... and gets one node ahead of it.                                      *)
LEMMA NodeLocks ==
    ASSUME SessionInv, LockInv, NEW p \in Processes, Quiet(p), events' = events,
           lock' = p, NEW m \in ThreadRecord, Finished(p, m), Ahead(m),
           req[p].op = "confirm" => m.next \in {"analysis_submitted", "analysis_wait"}
    PROVE  LockInv'
<1>1. PICK x \in Request : /\ Becomes(p, x) /\ x.pc = "node" /\ x.op = req[p].op
                           /\ x.mem = m /\ ~x.fresh /\ x.unsaved
  BY FinishedWhole DEF SessionInv
<1>2. Faithful(x)
  BY <1>1 DEF Faithful, Running, Recorded
<1> QED
  BY <1>1, <1>2, LockStep DEF Dropping

LEMMA NodesLock ==
    ASSUME SessionInv, LockInv, NEW p \in Processes,
           \/ CandidateConfirmation(p) \/ ReplayRun(p) \/ RunSubmitted(p)
           \/ AnalysisWait(p) \/ AnalysisCompleted(p)
    PROVE  LockInv'
<1> DEFINE m == req[p].mem
<1> USE DEF Ready, At
<1>1. /\ req[p].pc \in {"node", "submitted"}
      /\ UNCHANGED <<store, redis, resumed, faults, runs>>
  BY DEF CandidateConfirmation, ReplayRun, RunSubmitted, AnalysisWait, AnalysisCompleted
<1>2. Quiet(p) /\ events' = events /\ lock' = p
  BY <1>1, Inside DEF redis, Locked, Guarded, Graph
<1>3. /\ m \in ThreadRecord /\ thread \in ThreadRecord
      /\ Carries(req[p]) /\ Faithful(req[p])
      /\ ~req[p].unsaved => m = thread
  BY <1>1, KnownLock DEF Request, Faithful, Running
<1>4. CASE CandidateConfirmation(p)
  <2> DEFINE n == [m EXCEPT !.pick = req[p].pick, !.next = "analysis_submitted"]
  <2>1. m.next = "candidate_confirmation" /\ Finished(p, [m EXCEPT !.pick = req[p].pick,
                                                   !.next = "analysis_submitted"])
    BY <1>4 DEF CandidateConfirmation
  <2>2. req[p].pick \in Selections
    BY <1>3, <1>4, <2>1, ConstantsAssumption DEF CandidateConfirmation, Carries
  <2>3. m = thread
    BY <1>3, <2>1 DEF Faithful, Ahead, Chosen, Awaiting, Settled, Ending
  <2> HIDE DEF m
  <2>4. /\ n \in ThreadRecord /\ n.next = "analysis_submitted" /\ n.pick = req[p].pick
        /\ n.run = m.run /\ n.done = m.done
    BY <1>3, <2>2 DEF ThreadRecord, Nodes
  <2>5. Finished(p, n)
    BY <2>1
  <2> HIDE DEF n
  <2>6. Ahead(n)
    BY <2>1, <2>2, <2>3, <2>4 DEF Ahead, Chosen
  <2> QED
    BY <1>2, <2>4, <2>5, <2>6, NodeLocks
<1>5. CASE ReplayRun(p) \/ RunSubmitted(p)
  <2>1. CASE Fail(p)
    BY <1>2, <1>3, <1>5, <2>1, FailLocks DEF ReplayRun, RunSubmitted
  <2>2. ASSUME NEW r, Finished(p, Submitted(m, r)), r \in Runs, status[r] # "absent",
               m.next = "analysis_submitted", ~req[p].unsaved
        PROVE  LockInv'
    <3> DEFINE n == Submitted(m, r)
    <3>1. m = thread
      BY <1>3, <2>2
    <3> HIDE DEF m
    <3>2. /\ n \in ThreadRecord /\ n.next = "analysis_wait" /\ n.run = r
          /\ n.pick = m.pick /\ n.done = m.done
      BY <1>3, <2>2 DEF Submitted, ThreadRecord, Nodes
    <3>3. Finished(p, n)
      BY <2>2
    <3> HIDE DEF n
    <3>4. Ahead(n)
      BY <2>2, <3>1, <3>2 DEF Ahead, Awaiting
    <3> QED
      BY <1>2, <3>2, <3>3, <3>4, NodeLocks
  <2>3. CASE RunSubmitted(p)
    <3>1. m.next = "analysis_submitted" /\ req[p].run \in Runs
          /\ status[req[p].run] # "absent"
      BY <1>3, <2>3 DEF RunSubmitted, Faithful, Carries
    <3> QED
      BY <2>2, <2>3, <3>1 DEF RunSubmitted
  <2>4. CASE ReplayRun(p) /\ SameRequest(p)
    <3>1. claim.run \in Runs /\ status[claim.run] # "absent"
      BY <2>4 DEF ReplayRun, SameRequest, SessionInv, TypeOK, ClaimRecord
    <3> QED
      BY <2>2, <2>4, <3>1 DEF ReplayRun
  <2> QED
    BY <1>5, <2>1, <2>3, <2>4 DEF ReplayRun
<1>6. CASE AnalysisWait(p)
  <2> DEFINE n == [m EXCEPT !.done = req[p].out, !.next = "analysis_completed"]
  <2>1. m.next = "analysis_wait" /\ req[p].fresh
        /\ Finished(p, [m EXCEPT !.done = req[p].out, !.next = "analysis_completed"])
    BY <1>6 DEF AnalysisWait
  <2>2. m.run \in Runs /\ req[p].out \in Terminal /\ req[p].out = outcome[m.run]
    BY <1>3, <1>6, <2>1 DEF AnalysisWait, Carries, Reports
  <2>3. m = thread /\ req[p].op # "confirm"
    BY <1>1, <1>3, <1>6, <2>1 DEF Faithful, Running, AnalysisWait
  <2> HIDE DEF m
  <2>4. /\ n \in ThreadRecord /\ n.next = "analysis_completed" /\ n.done = req[p].out
        /\ n.run = m.run /\ n.pick = m.pick
    BY <1>3, <2>2 DEF ThreadRecord, Nodes
  <2>5. Finished(p, n)
    BY <2>1
  <2> HIDE DEF n
  <2>6. Ahead(n)
    BY <2>1, <2>2, <2>3, <2>4 DEF Ahead, Settled
  <2> QED
    BY <1>2, <2>3, <2>4, <2>5, <2>6, NodeLocks
<1>7. CASE AnalysisCompleted(p)
  <2> DEFINE n == [m EXCEPT !.next = "end"]
  <2>1. m.next = "analysis_completed" /\ m = thread /\ Finished(p, [m EXCEPT !.next = "end"])
    BY <1>3, <1>7 DEF AnalysisCompleted
  <2>2. req[p].op # "confirm"
    BY <1>3, <1>7, <2>1 DEF Faithful, Running, AnalysisCompleted
  <2> HIDE DEF m
  <2>3. /\ n \in ThreadRecord /\ n.next = "end" /\ n.done = m.done
        /\ n.run = m.run /\ n.pick = m.pick
    BY <1>3 DEF ThreadRecord, Nodes
  <2>4. Finished(p, n)
    BY <2>1
  <2> HIDE DEF n
  <2>5. Ahead(n)
    BY <2>1, <2>3 DEF Ahead, Ending
  <2> QED
    BY <1>2, <2>2, <2>3, <2>4, <2>5, NodeLocks
<1> QED
  BY <1>4, <1>5, <1>6, <1>7

(* A run is claimed and saved while the last checkpoint may be written.    *)
LEMMA ClaimLocks ==
    ASSUME SessionInv, LockInv, NEW p \in Processes, NEW r \in Runs,
           AnalysisSubmitted(p, r)
    PROVE  LockInv'
<1> DEFINE x == [req[p] EXCEPT !.run = r, !.pc = "save"]
<1>1. /\ req[p].pc = "node" /\ req[p].mem.next = "analysis_submitted" /\ claim.run = None
      /\ UNCHANGED <<store, lease, lock, events, resumed, faults, runs>>
      /\ Becomes(p, x)
  BY DEF AnalysisSubmitted, Claims, Ready, At, Becomes, SessionInv, TypeOK
<1>2. Quiet(p) /\ lock' = p
  <2>1. version > 0 /\ lock = p
    BY <1>1, KnownLock DEF Locked, Guarded, Graph
  <2> QED
    BY <1>1, <2>1 DEF Quiet, Grows, store, runs
<1>3. /\ x \in Request /\ x.pc = "save" /\ x.mem = req[p].mem /\ x.op = req[p].op
      /\ x.fresh = req[p].fresh /\ x.unsaved = req[p].unsaved
  BY KnownLock DEF Request, PCs, Locked, Guarded, Graph
<1> HIDE DEF x
<1>4. Faithful(x)
  BY <1>1, <1>3, KnownLock DEF Faithful, Running, Recorded
<1> QED
  BY <1>1, <1>2, <1>3, <1>4, LockStep DEF Dropping

LEMMA SaveLocks ==
    ASSUME SessionInv, LockInv, NEW p \in Processes, SaveRun(p)
    PROVE  LockInv'
<1>1. /\ req[p].pc = "save" /\ Goto(p, "submitted")
      /\ UNCHANGED <<store, redis, resumed, faults>>
      /\ status' = [status EXCEPT ![req[p].run] = "queued"]
      /\ outcome' = outcome
  BY DEF SaveRun, At, RunStore!Submit
<1>2. Quiet(p) /\ lock' = p /\ events' = events
  <2>1. version > 0 /\ lock = p
    BY <1>1, KnownLock DEF Locked, Guarded, Graph
  <2>2. Grows
    BY <1>1 DEF Grows, redis, SessionInv, TypeOK, RunStore!TypeOK
  <2> QED
    BY <1>1, <2>1, <2>2 DEF Quiet, store, redis
<1>3. \A x \in Request : x.pc = "submitted" /\ Like(x, req[p]) /\ x.unsaved = req[p].unsaved
         => Faithful(x)
  BY <1>1, KnownLock DEF Faithful, Running, Recorded, Like
<1>4. "submitted" \in PCs \ Dropping
  BY DEF PCs, Dropping, Locked, Guarded, Graph
<1> QED
  BY <1>1, <1>2, <1>3, <1>4, GotoLocks

(* A checkpoint: the thread catches up with the graph.                     *)
LEMMA PutLocks ==
    ASSUME SessionInv, LockInv, NEW p \in Processes, Put(p)
    PROVE  LockInv'
<1> DEFINE z == [req[p] EXCEPT !.unsaved = FALSE]
<1>1. /\ req[p].unsaved /\ thread' = req[p].mem /\ version' = version + 1
      /\ UNCHANGED <<lease, lock, events, claim, status, outcome>>
      /\ Becomes(p, z)
  BY DEF Put, redis, runs, Becomes, SessionInv, TypeOK
<1>2. /\ req[p] \in Request /\ Faithful(req[p]) /\ req[p].pc \in Running
      /\ ~req[p].fresh /\ Ahead(req[p].mem)
  BY <1>1, KnownLock DEF Faithful
<1>3. lock = p /\ lease /\ version > 0
  BY <1>2, KnownLock DEF Running, Locked, Guarded, Graph
<1>4. PICK x \in Request : /\ Becomes(p, x) /\ x.pc = req[p].pc
                           /\ x.mem = req[p].mem /\ x.op = req[p].op
                           /\ ~x.unsaved /\ x.fresh = req[p].fresh
  <2>1. /\ z \in Request /\ z.pc = req[p].pc /\ z.mem = req[p].mem /\ z.op = req[p].op
        /\ ~z.unsaved /\ z.fresh = req[p].fresh
    BY <1>2 DEF Request
  <2> QED
    BY <1>1, <2>1
<1>5. /\ req'[p] = x
      /\ \A q \in Processes : q # p => req'[q] = req[q]
  BY <1>4 DEF SessionInv, TypeOK, Becomes
<1>6. Exclusive'
  BY <1>1, <1>4, <1>5 DEF LockInv, Exclusive
<1>7. Begun'
  <2>1. version' > 0 /\ version' # 0
    BY <1>1, <1>3 DEF SessionInv, TypeOK
  <2>2. \A q \in Processes : req'[q].pc \notin Dropping
    BY <1>4, <1>5 DEF LockInv, Begun
  <2> QED
    BY <1>1, <1>3, <2>1, <2>2 DEF Begun
<1>8. Told' /\ AuditIsOrdered'
  <2>1. thread.next # "end"
    BY <1>2 DEF Ahead, Chosen, Awaiting, Settled, Ending
  <2>2. Entries' = Entries
    BY <1>1 DEF Entries
  <2> QED
    BY <1>1, <2>1, <2>2 DEF LockInv, Told, AuditIsOrdered
<1>9. ASSUME NEW q \in Processes
      PROVE  Faithful(req[q])'
  <2>1. CASE q = p
    <3>1. Faithful(x)'
      BY <1>1, <1>2, <1>4 DEF Faithful, Running, Recorded
    <3> QED
      BY <1>5, <2>1, <3>1
  <2>2. CASE q # p
    <3>1. PICK y \in Request : y = req[q] /\ Faithful(y) /\ y.pc \notin Locked
      BY <1>3, <2>2, KnownLock
    <3>2. ~y.unsaved /\ y.pc \in Plain
      BY <3>1, KnownLock
      DEF Request, Plain, PCs, Running, Locked, Guarded, Graph
    <3>3. Faithful(y)'
      BY <3>2 DEF Faithful, Plain, Running, Recorded
    <3>4. req'[q] = y
      BY <1>5, <2>2, <3>1
    <3> QED
      BY <3>3, <3>4
  <2> QED
    BY <2>1, <2>2
<1> QED
  BY <1>6, <1>7, <1>8, <1>9 DEF LockInv

-----------------------------------------------------------------------------
(* After the graph.                                                        *)
LEMMA ViewLocks ==
    ASSUME SessionInv, LockInv, NEW p \in Processes,
           GraphStops(p) \/ View(p) \/ Activate(p)
    PROVE  LockInv'
<1>1. /\ req[p].pc \in {"node", "view", "activate"} /\ ~req[p].unsaved
      /\ UNCHANGED <<store, lock, events, claim, resumed, faults, runs>>
      /\ lease' = lease \/ lease' = TRUE
  BY KnownLock DEF GraphStops, Ready, View, Activate, At, redis, Running
<1>2. version > 0 /\ lock = p /\ lock' = p /\ req[p].op \in {"confirm", "complete"}
  BY <1>1, KnownLock DEF Locked, Guarded, Graph, Carries
<1>3. Quiet(p) /\ events' = events
  BY <1>1, <1>2 DEF Quiet, Grows, store, runs
<1>4. CASE GraphStops(p)
  <2>1. Goto(p, "view") /\ req[p].pc = "node"
        /\ (req[p].mem.next = "analysis_wait" \/ req[p].mem.next = "end")
    BY <1>4 DEF GraphStops, Ready, At
  <2>2. req[p].op = "confirm" => thread.next = "analysis_wait"
    BY <1>1, <2>1, KnownLock DEF Faithful, Running
  <2>3. \A x \in Request : x.pc = "view" /\ Like(x, req[p]) /\ x.unsaved = req[p].unsaved
           => Faithful(x)
    BY <1>1, <2>2 DEF Faithful, Running, Recorded, Like
  <2>4. "view" \in PCs \ Dropping
    BY DEF PCs, Dropping, Locked, Guarded
  <2> QED
    BY <1>2, <1>3, <2>1, <2>3, <2>4, GotoLocks
<1>5. CASE View(p)
  <2>1. CASE Fail(p)
    BY <1>1, <1>2, <1>3, <2>1, FailLocks
  <2>2. CASE req' = [req EXCEPT ![p].mem = thread, ![p].pc = "activate"]
    <3> DEFINE x == [req[p] EXCEPT !.mem = thread, !.pc = "activate"]
    <3>1. Becomes(p, x)
      BY <2>2 DEF Becomes, SessionInv, TypeOK
    <3>2. /\ x \in Request /\ x.pc = "activate" /\ ~x.unsaved /\ x.op = req[p].op
          /\ x.mem = thread
      BY <1>1, KnownLock DEF Request, PCs, Locked, Guarded
    <3> HIDE DEF x
    <3>3. Faithful(x)
      BY <1>5, <3>2, KnownLock DEF Faithful, Running, Recorded, View, At
    <3> QED
      BY <1>2, <1>3, <3>1, <3>2, <3>3, LockStep DEF Dropping
  <2> QED
    BY <1>5, <2>1, <2>2 DEF View
<1>6. CASE Activate(p)
  <2>1. req[p].pc = "activate" /\ req[p].mem = thread
        /\ (req[p].op = "confirm" => thread.next = "analysis_wait")
    BY <1>6, KnownLock DEF Activate, At, Faithful, Recorded
  <2>2. CASE Goto(p, "unwind")
    <3>1. "unwind" \in Plain
      BY DEF Plain, PCs, Running, Dropping, Locked, Guarded, Graph
    <3> QED
      BY <1>1, <1>2, <1>3, <2>2, <3>1, PlainLocks
  <2>3. CASE Goto(p, "event") /\ (req[p].op = "complete" => thread.next = "end")
    <3>1. \A x \in Request : x.pc = "event" /\ Like(x, req[p]) /\ x.unsaved = req[p].unsaved
             => Faithful(x)
      BY <1>1, <2>1, <2>3 DEF Faithful, Running, Recorded, Like
    <3>2. "event" \in PCs \ Dropping
      BY DEF PCs, Dropping, Locked, Guarded
    <3> QED
      BY <1>2, <1>3, <2>3, <3>1, <3>2, GotoLocks
  <2> QED
    BY <1>6, <2>1, <2>2, <2>3 DEF Activate
<1> QED
  BY <1>4, <1>5, <1>6

(* An entry of the audit list: of a confirmation while the session waits,  *)
(* or of an outcome once it is at its end.                                 *)
LEMMA AuditLocks ==
    ASSUME SessionInv, LockInv, NEW e \in EventTypes, events' = Append(events, e),
           thread' = thread,
           \/ e \notin Outcomes /\ thread.next # "end"
           \/ e \notin {"confirmed", "analysis_submitted"} /\ thread.next = "end"
    PROVE  Told' /\ AuditIsOrdered'
<1> DEFINE n == Len(events) + 1
<1>1. events \in Seq(EventTypes) /\ Told /\ AuditIsOrdered
  BY DEF SessionInv, TypeOK, LockInv
<1>2. /\ DOMAIN events = 1..Len(events) /\ Len(events) \in Nat
      /\ DOMAIN events' = 1..n /\ events'[n] = e
      /\ \A i \in DOMAIN events : events'[i] = events[i]
  BY <1>1
<1>3. \A j \in DOMAIN events : events[j] \in Outcomes => thread.next = "end"
  BY <1>1 DEF Told, Entries
<1>4. Told'
  <2>1. ASSUME NEW j \in DOMAIN events', events'[j] \in Outcomes
        PROVE  thread.next = "end"
    <3>1. CASE j = n
      BY <1>2, <2>1, <3>1
    <3>2. CASE j # n
      BY <1>2, <1>3, <2>1, <3>2
    <3> QED
      BY <3>1, <3>2
  <2> QED
    BY <2>1 DEF Told, Entries, Outcomes
<1>5. AuditIsOrdered'
  <2>1. ASSUME NEW i \in DOMAIN events', NEW j \in DOMAIN events',
               events'[i] \in {"confirmed", "analysis_submitted"},
               events'[j] \in Outcomes
        PROVE  i < j
    <3>0. "confirmed" \notin Outcomes /\ "analysis_submitted" \notin Outcomes
      BY DEF Outcomes, EventOf, Terminal, RunStore!Terminal
    <3>1. CASE i = n /\ j = n
      BY <1>2, <2>1, <3>0, <3>1
    <3>2. CASE i = n /\ j # n
      BY <1>2, <1>3, <2>1, <3>0, <3>2
    <3>3. CASE i # n /\ j = n
      BY <1>2, <3>3
    <3>4. CASE i # n /\ j # n
      <4>1. i \in DOMAIN events /\ j \in DOMAIN events
        BY <1>2, <3>4
      <4> QED
        BY <1>1, <1>2, <2>1, <4>1 DEF AuditIsOrdered
    <3> QED
      BY <3>1, <3>2, <3>3, <3>4
  <2> QED
    BY <2>1 DEF AuditIsOrdered, Outcomes
<1> QED
  BY <1>4, <1>5

LEMMA EventLocks ==
    ASSUME SessionInv, LockInv, NEW p \in Processes, Event(p) \/ Event2(p)
    PROVE  LockInv'
<1>1. /\ req[p].pc \in {"event", "event2"}
      /\ UNCHANGED <<store, lease, lock, claim, resumed, faults, runs>>
  BY DEF Event, Event2, At
<1>2. Quiet(p) /\ lock' = p /\ req[p].op \in {"confirm", "complete"} /\ ~req[p].unsaved
  BY <1>1, Inside, KnownLock DEF Running, Locked, Guarded
<1>3. /\ Carries(req[p])
      /\ req[p].op = "confirm" => thread.next = "analysis_wait"
      /\ req[p].op = "complete" => thread.next = "end"
  BY <1>1, KnownLock DEF Faithful, Recorded
<1>4. PICK e : /\ events' = Append(events, e)
               /\ IF req[p].op = "confirm" THEN e \in {"confirmed", "analysis_submitted"}
                  ELSE e \in Outcomes
  <2>1. CASE Event(p)
    <3>1. req[p].op # "confirm" => req[p].mem.done \in Terminal
      BY <1>2, <1>3, <2>1, KnownLock
      DEF Event, At, Carries, Request, ThreadRecord
    <3> QED
      BY <2>1, <3>1 DEF Event, Audit, Outcomes
  <2>2. CASE Event2(p)
    BY <2>2 DEF Event2, Audit, Outcomes
  <2> QED
    BY <1>1, <2>1, <2>2
<1>5. /\ Outcomes \subseteq EventTypes
      /\ {"confirmed", "analysis_submitted"} \subseteq EventTypes
      /\ {"confirmed", "analysis_submitted"} \cap Outcomes = {}
  BY DEF Outcomes, EventOf, Terminal, RunStore!Terminal, EventTypes
<1>6. Told' /\ AuditIsOrdered'
  BY <1>2, <1>3, <1>4, <1>5, AuditLocks DEF Quiet
<1>7. Goto(p, "event2") \/ Goto(p, "release")
  BY DEF Event, Event2
<1>8. ASSUME NEW pc \in {"event2", "release"}, Goto(p, pc)
      PROVE  Holding'
  <2>1. pc \in PCs /\ pc \notin Dropping
    BY DEF PCs, Dropping, Locked, Guarded
  <2>2. PICK x \in Request : /\ Becomes(p, x) /\ x.pc = pc /\ Like(x, req[p])
                             /\ x.unsaved = req[p].unsaved
    BY <1>8, <2>1, GotoWhole DEF SessionInv
  <2>3. Faithful(x)
    BY <1>2, <1>3, <2>2 DEF Faithful, Running, Recorded, Like
  <2> QED
    BY <1>2, <2>1, <2>2, <2>3, QuietHolds
<1> QED
  BY <1>6, <1>7, <1>8 DEF LockInv, Holding

-----------------------------------------------------------------------------
(* Faults, the run store and the beginning.                                *)
LEMMA FaultLocks ==
    ASSUME SessionInv, LockInv, NEW p \in Processes, Dies(p) \/ Raises(p)
    PROVE  LockInv'
<1>1. req[p].pc # "idle" /\ UNCHANGED <<store, redis, resumed, runs>>
  BY DEF Dies, Raises, At, Guarded, Graph
<1>2. Quiet(p) /\ events' = events /\ lock' = lock
  BY <1>1, KnownLock, Unmoved DEF redis
<1>3. CASE Dies(p)
  BY <1>2, <1>3, ReturnLocks DEF Dies
<1>4. CASE Raises(p)
  <2> DEFINE x == [req[p] EXCEPT !.unsaved = FALSE, !.pc = Unwinding(p)]
  <2>1. Unwinding(p) \in {"reject", "unwind"} /\ req[p].pc \in Locked
    BY <1>4 DEF Unwinding, Raises, Locked
  <2>2. Becomes(p, x)
    BY <1>4 DEF Raises, Becomes, SessionInv, TypeOK
  <2>3. x \in Request /\ x.pc \in {"reject", "unwind"} /\ ~x.unsaved
    BY <2>1, KnownLock DEF Request, PCs, Locked, Guarded
  <2> HIDE DEF x
  <2>4. Faithful(x)
    BY <2>3, PlainFaithful DEF Plain, PCs, Running, Dropping, Locked, Guarded, Graph
  <2>5. lock = p
    BY <2>1, KnownLock
  <2> QED
    BY <1>2, <2>2, <2>3, <2>4, <2>5, LockStep DEF Dropping
<1> QED
  BY <1>3, <1>4

LEMMA RunLocks ==
    ASSUME SessionInv, LockInv, NEW r \in Runs, RunMoves(r)
    PROVE  LockInv'
<1>1. UNCHANGED <<thread, version, lease, lock, events, claim, req>>
  BY DEF RunMoves, store, redis
<1>2. Grows
  <2>1. /\ status[r] \in {"queued", "running"}
        /\ \A q \in Runs : q # r => status'[q] = status[q] /\ outcome'[q] = outcome[q]
        /\ \/ status'[r] = "running" /\ outcome'[r] = outcome[r]
           \/ /\ outcome[r] = "none"
              /\ outcome'[r] \in Terminal
              /\ status'[r] = outcome'[r]
    BY DEF RunMoves, RunStore!Start, RunStore!Finish, RunStore!Active, SessionInv,
           TypeOK, RunStore!TypeOK, Terminal
  <2> QED
    BY <1>1, <2>1 DEF Grows, Terminal, RunStore!Terminal
<1>3. Exclusive' /\ Begun' /\ Told' /\ AuditIsOrdered'
  BY <1>1 DEF LockInv, Exclusive, Begun, Told, AuditIsOrdered, Entries
<1>4. ASSUME NEW q \in Processes
      PROVE  Faithful(req[q])'
  <2>1. PICK y \in Request : y = req[q] /\ Faithful(y)
    BY KnownLock
  <2>2. Faithful(y)' /\ req'[q] = y
    BY <1>1, <1>2, <2>1, FaithfulStays
  <2> QED
    BY <2>2
<1> QED
  BY <1>3, <1>4 DEF LockInv

LEMMA StartLocks ==
    ASSUME SessionInv, LockInv, Start
    PROVE  LockInv'
<1>1. /\ version = 0 /\ version' = 1 /\ lease' = TRUE
      /\ events' = <<"started", "awaiting_confirmation">>
      /\ req' = req
  BY DEF Start
<1>2. \A p \in Processes : req[p].pc = "idle" /\ ~req[p].unsaved
  BY <1>1, KnownLock DEF LockInv, Begun, Running
<1>3. Begun' /\ Exclusive'
  BY <1>1, <1>2 DEF Begun, Exclusive, Dropping, Locked, Guarded, Graph
<1>4. (\A p \in Processes : Faithful(req[p]))'
  BY <1>1, <1>2 DEF Faithful, Running, Recorded
<1>5. Told' /\ AuditIsOrdered'
  <2>1. \A i \in DOMAIN events' : events'[i] \in {"started", "awaiting_confirmation"}
    BY <1>1
  <2>2. Outcomes \cap {"started", "awaiting_confirmation"} = {}
    BY DEF Outcomes, EventOf, Terminal, RunStore!Terminal
  <2> QED
    BY <2>1, <2>2 DEF Told, Entries, AuditIsOrdered, Outcomes
<1> QED
  BY <1>3, <1>4, <1>5 DEF LockInv

LEMMA InitIsLocked == Init => LockInv
<1> SUFFICES ASSUME Init PROVE LockInv
  OBVIOUS
<1>1. \A p \in Processes : req[p].pc = "idle" /\ ~req[p].unsaved
  BY DEF Init, Idle
<1>2. Begun /\ Exclusive
  BY <1>1 DEF Init, Begun, Exclusive, Dropping, Locked, Guarded, Graph
<1>3. \A p \in Processes : Faithful(req[p])
  BY <1>1 DEF Faithful, Running, Recorded
<1>4. Told /\ AuditIsOrdered
  BY DEF Init, Told, Entries, AuditIsOrdered
<1> QED
  BY <1>2, <1>3, <1>4 DEF LockInv

LEMMA NextIsLocked ==
    ASSUME InTime, SessionInv, LockInv, [Next]_vars
    PROVE  LockInv'
<1>1. CASE Start
  BY <1>1, StartLocks
<1>2. ASSUME NEW p \in Handlers,
             \/ \E v \in {1, version}, s \in Selections : Confirm(p, v, s)
             \/ Get(p)
      PROVE  LockInv'
  BY <1>2, ArrivalLocks
<1>3. ASSUME NEW r \in Runs, WorkerResume(r) \/ RunMoves(r)
      PROVE  LockInv'
  BY <1>3, WorkerLocks, RunLocks
<1>4. ASSUME NEW p \in Processes, GraphStep(p)
      PROVE  LockInv'
  BY <1>4, LoadLocks, PutLocks, NodesLock, ClaimLocks, SaveLocks, ViewLocks
     DEF GraphStep
<1>5. ASSUME NEW p \in Processes, Step(p)
      PROVE  LockInv'
  BY <1>4, <1>5, PollLocks, LookLocks, AcquireLocks, ReleaseLocks, NothingDropped,
     CheckLocks, ViewLocks, EventLocks DEF Step
<1>6. ASSUME NEW p \in Processes, Dies(p) \/ Raises(p) \/ DropFails(p)
      PROVE  LockInv'
  BY <1>6, FaultLocks, NothingDropped
<1>7. CASE LeaseLapses \/ LockLapses
  BY <1>7, LapseLocks
<1>8. CASE UNCHANGED vars
  <2>1. UNCHANGED <<thread, version, lease, lock, events, claim, req, status, outcome>>
    BY <1>8 DEF vars, store, redis, runs
  <2>2. Exclusive' /\ Begun' /\ Told' /\ AuditIsOrdered'
    BY <2>1 DEF LockInv, Exclusive, Begun, Told, AuditIsOrdered, Entries
  <2>3. (\A p \in Processes : Faithful(req[p]))'
    BY <2>1
    DEF LockInv, Faithful, Ahead, Chosen, Awaiting, Settled, Ending
  <2> QED
    BY <2>2, <2>3 DEF LockInv
<1> QED
  BY <1>1, <1>2, <1>3, <1>5, <1>6, <1>7, <1>8 DEF Next

-----------------------------------------------------------------------------
(* Refinement: a checkpoint is a step of SessionSpec.                      *)
LEMMA InitRefines == Init => Abstract!Init
  BY DEF Init, NoThread, PhaseOf, Abstract!Init, Abstract!RunStore!Init, RunStore!Init

LEMMA StartRefines ==
    ASSUME SessionInv, LockInv, Start
    PROVE  Abstract!Next
<1>1. /\ thread = NoThread /\ thread' = Discovered
      /\ UNCHANGED <<status, outcome>>
  BY DEF Start, LockInv, Begun, runs
<1>2. Abstract!Open
  BY <1>1 DEF Abstract!Open, NoThread, Discovered, PhaseOf
<1> QED
  BY <1>1, <1>2 DEF Abstract!Next

LEMMA PutRefines ==
    ASSUME SessionInv, LockInv, NEW p \in Processes, Put(p)
    PROVE  Abstract!Next
<1>1. /\ req[p].unsaved /\ thread' = req[p].mem
      /\ UNCHANGED <<status, outcome>>
  BY DEF Put, runs
<1>2. PICK m : m = req[p].mem /\ Ahead(m)
  BY <1>1, KnownLock DEF Faithful
<1>3. thread' = m
  BY <1>1, <1>2
<1>4. CASE Chosen(m)
  <2>1. Abstract!Choose(m.pick) /\ m.pick \in Selections
    BY <1>3, <1>4 DEF Chosen, Abstract!Choose, PhaseOf
  <2> QED
    BY <1>1, <2>1 DEF Abstract!Next
<1>5. CASE Awaiting(m)
  <2>1. Abstract!Await(m.run) /\ m.run \in Runs
    BY <1>3, <1>5 DEF Awaiting, Abstract!Await, PhaseOf
  <2> QED
    BY <1>1, <2>1 DEF Abstract!Next
<1>6. CASE Settled(m)
  <2>1. Abstract!Learn(m.done) /\ m.done \in Abstract!RunStore!Terminal
    BY <1>3, <1>6
    DEF Settled, Abstract!Learn, PhaseOf, Terminal, RunStore!Terminal,
        Abstract!RunStore!Terminal
  <2> QED
    BY <1>1, <2>1 DEF Abstract!Next
<1>7. CASE Ending(m)
  <2>1. Abstract!End
    BY <1>3, <1>7 DEF Ending, Abstract!End, PhaseOf
  <2> QED
    BY <1>1, <2>1 DEF Abstract!Next
<1> QED
  BY <1>2, <1>4, <1>5, <1>6, <1>7 DEF Ahead

LEMMA RunRefines ==
    ASSUME SessionInv, (\E p \in Processes : SaveRun(p)) \/ (\E r \in Runs : RunMoves(r))
    PROVE  Abstract!Next
<1>1. thread' = thread
  BY DEF SaveRun, RunMoves, store
<1>2. Abstract!RunStore!Next
  <2>1. ASSUME NEW p \in Processes, SaveRun(p)
        PROVE  Abstract!RunStore!Next
    <3>1. req[p].run \in Runs /\ RunStore!Submit(req[p].run)
      BY <2>1, Known DEF SaveRun, At, Carries
    <3> QED
      BY <3>1
      DEF Abstract!RunStore!Next, Abstract!RunStore!Submit, RunStore!Submit
  <2>2. ASSUME NEW r \in Runs, RunMoves(r)
        PROVE  Abstract!RunStore!Next
    BY <2>2
    DEF RunMoves, RunStore!Start, RunStore!Finish, RunStore!Active, Terminal,
        RunStore!Terminal, Abstract!RunStore!Next, Abstract!RunStore!Start,
        Abstract!RunStore!Finish, Abstract!RunStore!Active, Abstract!RunStore!Terminal
  <2> QED
    BY <2>1, <2>2
<1> QED
  BY <1>1, <1>2 DEF Abstract!Next, Abstract!session

(* All other steps are invisible.                                          *)
LEMMA OthersStutter ==
    ASSUME NEW p \in Processes, Step(p), ~Put(p), ~SaveRun(p), ~DropThread(p)
    PROVE  UNCHANGED <<thread, status, outcome>>
<1> USE DEF store, runs
<1>1. CASE GetThread(p) \/ Reconcile(p) \/ Active(p) \/ Current(p) \/ Acquire(p)
  BY <1>1 DEF GetThread, Reconcile, Active, Current, Acquire
<1>2. CASE Release(p) \/ DropLease(p) \/ DropLock(p) \/ Before(p) \/ CheckConfirm(p)
  BY <1>2 DEF Release, DropLease, DropLock, Before, CheckConfirm
<1>3. CASE CheckComplete(p) \/ View(p) \/ Activate(p) \/ Event(p) \/ Event2(p) \/ Reject(p)
  BY <1>3 DEF CheckComplete, View, Activate, Event, Event2, Reject
<1>4. CASE GraphStep(p)
  BY <1>4
  DEF GraphStep, Load, CandidateConfirmation, AnalysisSubmitted, ReplayRun,
      RunSubmitted, AnalysisWait, AnalysisCompleted, GraphStops
<1> QED
  BY <1>1, <1>2, <1>3, <1>4 DEF Step

LEMMA NextRefines ==
    ASSUME SessionInv, LockInv, [Next]_vars
    PROVE  [Abstract!Next]_(Abstract!vars)
<1>1. CASE Start
  BY <1>1, StartRefines
<1>2. CASE \E p \in Processes : Put(p)
  BY <1>2, PutRefines
<1>3. CASE (\E p \in Processes : SaveRun(p)) \/ (\E r \in Runs : RunMoves(r))
  BY <1>3, RunRefines
<1>4. CASE UNCHANGED <<thread, status, outcome>>
  BY <1>4 DEF Abstract!vars, Abstract!session
<1>5. ASSUME NEW p \in Handlers,
             \/ \E v \in {1, version}, s \in Selections : Confirm(p, v, s)
             \/ Get(p)
      PROVE  UNCHANGED <<thread, status, outcome>>
  BY <1>5 DEF Confirm, Get, store, runs
<1>6. ASSUME NEW r \in Runs, WorkerResume(r)
      PROVE  UNCHANGED <<thread, status, outcome>>
  BY <1>6 DEF WorkerResume, store, runs
<1>7. ASSUME NEW p \in Processes, Dies(p) \/ Raises(p) \/ DropFails(p)
      PROVE  UNCHANGED <<thread, status, outcome>>
  BY <1>7 DEF Dies, Raises, DropFails, store, runs
<1>8. CASE LeaseLapses \/ LockLapses \/ UNCHANGED vars
  BY <1>4, <1>8 DEF LeaseLapses, LockLapses, vars, store, runs
<1>9. ASSUME NEW p \in Processes, Step(p)
      PROVE  Put(p) \/ SaveRun(p) \/ UNCHANGED <<thread, status, outcome>>
  BY <1>9, NothingDropped, OthersStutter
<1> QED
  BY <1>1, <1>2, <1>3, <1>4, <1>5, <1>6, <1>7, <1>8, <1>9 DEF Next

-----------------------------------------------------------------------------
LEMMA LockAlways == ASSUME InTime PROVE Spec => []LockInv
<1>1. SessionInv /\ LockInv /\ [Next]_vars => LockInv'
  BY NextIsLocked
<1> QED
  BY <1>1, InitIsLocked, SessionAlways, PTL DEF Spec

(* No two requests resume the graph of a session together, whatever        *)
(* crashes and raises (storage/redis_supervisor.py, the claim and release  *)
(* scripts of the transition lock).                                        *)
THEOREM OneTransitionCorrect ==
    ASSUME InTime PROVE Spec => []OneTransition
<1>1. LockInv => OneTransition
  BY DEF LockInv, Exclusive, OneTransition, Locked, Guarded
<1> QED
  BY <1>1, LockAlways, PTL

(* The audit list tells the story in order: a confirmation is recorded     *)
(* before the outcome of the run it submitted, although the worker may     *)
(* report that in between (site_selection_supervisor.py, append_event      *)
(* inside the lock).                                                       *)
THEOREM AuditInOrder ==
    ASSUME InTime PROVE Spec => []AuditIsOrdered
<1>1. LockInv => AuditIsOrdered
  BY DEF LockInv
<1> QED
  BY <1>1, LockAlways, PTL

(* The checkpoints of a session are the states of SessionSpec, in order    *)
(* and one at a time, for any number of requests, crashes and retries      *)
(* (site_selection_supervisor.py and supervisor.py).                       *)
THEOREM SessionRefinement ==
    ASSUME InTime PROVE Spec => ImplementsSessionSpec
<1>1. SessionInv /\ LockInv /\ [Next]_vars => [Abstract!Next]_(Abstract!vars)
  BY NextRefines
<1> QED
  BY <1>1, InitRefines, SessionAlways, LockAlways, PTL
  DEF Spec, ImplementsSessionSpec, Abstract!Spec

=============================================================================
