------------------------- MODULE RunLifecycleProofs -------------------------
(***************************************************************************)
(* Theorems about RunLifecycle for every number of runs, keys, commands,   *)
(* handlers, notes and faults, in both modes, with and without key expiry. *)
(***************************************************************************)
EXTENDS RunLifecycle, TLAPS

-----------------------------------------------------------------------------
(* Records.  The effect lemmas below say what one helper does to the       *)
(* record it touches, so that no later proof opens a record again.         *)

(* The constant records have their types.                                  *)
LEMMA ConstantRecords ==
    /\ Absent \in RunRecord
    /\ NoClaim \in IdemRecord
    /\ Idle \in HandlerRecord
    /\ NoExec \in ExecRecord
    /\ Done \in ExecRecord
  BY DEF Absent, RunRecord, Status, Active, Terminal, Review, NoClaim,
         IdemRecord, Idle, HandlerRecord, HandlerPCs, NoExec, Done, ExecRecord

(* The types of the fields of a handler record.                            *)
LEMMA HandlerFields ==
    ASSUME NEW x \in HandlerRecord
    PROVE  /\ x.pc \in HandlerPCs
           /\ x.run \in Runs \cup {None}
           /\ x.key \in Keys \cup {None}
           /\ x.cmd \in Commands \cup {None}
           /\ x.seen \in RunRecord
           /\ x.note \in Notes \cup {None}
           /\ x.running \in BOOLEAN
  BY DEF HandlerRecord

(* The types of the fields of an executor record.                          *)
LEMMA ExecFields ==
    ASSUME NEW x \in ExecRecord
    PROVE  /\ x.pc \in {"none", "done"} \cup Live
           /\ x.base \in RunRecord
           /\ x.review \in Review
           /\ x.report \in BOOLEAN
           /\ x.verdict \in {"none", "failed", "timed_out"}
           /\ x.stop \in BOOLEAN
  BY DEF ExecRecord

(* The details a writer adds to the ones it read.                          *)
LEMMA WithJobType ==
    ASSUME NEW x \in RunRecord
    PROVE  /\ WithJob(x) \in RunRecord
           /\ WithJob(x).review = x.review
  BY DEF WithJob, RunRecord

(* A failed run keeps the review made before the failure.                  *)
LEMMA WithReviewType ==
    ASSUME NEW x \in RunRecord, NEW v \in Review
    PROVE  /\ WithReview(x, v) \in RunRecord
           /\ WithReview(x, v).review = v
  BY DEF WithReview, RunRecord

(* A completed run has the review and the report of its stages.            *)
LEMMA WithReportType ==
    ASSUME NEW x \in RunRecord, NEW v \in Review, NEW b \in BOOLEAN
    PROVE  /\ WithReport(x, v, b) \in RunRecord
           /\ WithReport(x, v, b).review = v
  BY DEF WithReport, RunRecord

(* An acknowledgement keeps the status it read.                            *)
LEMMA WithAckType ==
    ASSUME NEW x \in RunRecord, NEW n \in Notes \cup {None}
    PROVE  /\ WithAck(x, n) \in RunRecord
           /\ WithAck(x, n).review = "acknowledged"
           /\ WithAck(x, n).status = x.status
  BY DEF WithAck, RunRecord, Review

(* A handler moves on.                                                     *)
LEMMA GotoEffect ==
    ASSUME TypeOK, NEW h \in Handlers, NEW pc \in HandlerPCs, Goto(h, pc)
    PROVE  /\ handler' \in [Handlers -> HandlerRecord]
           /\ \A g \in Handlers : g # h => handler'[g] = handler[g]
           /\ handler'[h].pc = pc
           /\ handler'[h].run = handler[h].run
           /\ handler'[h].key = handler[h].key
           /\ handler'[h].cmd = handler[h].cmd
           /\ handler'[h].seen = handler[h].seen
           /\ handler'[h].note = handler[h].note
  BY DEF TypeOK, Goto, HandlerRecord

(* A handler takes a request.                                              *)
LEMMA BeginEffect ==
    ASSUME TypeOK, NEW h \in Handlers, NEW x \in HandlerRecord, Begin(h, x)
    PROVE  /\ handler' \in [Handlers -> HandlerRecord]
           /\ \A g \in Handlers : g # h => handler'[g] = handler[g]
           /\ handler'[h] = x
  BY DEF TypeOK, Begin

(* A handler answers its request.                                          *)
LEMMA ReturnEffect ==
    ASSUME TypeOK, NEW h \in Handlers, Return(h)
    PROVE  /\ handler' \in [Handlers -> HandlerRecord]
           /\ \A g \in Handlers : g # h => handler'[g] = handler[g]
           /\ handler'[h].pc = "idle"
  BY ConstantRecords DEF TypeOK, Return, Idle

(* A handler keeps the state it reads.                                     *)
LEMMA ReadThenEffect ==
    ASSUME TypeOK, NEW h \in Handlers, handler[h].run \in Runs,
           NEW pc \in HandlerPCs, ReadThen(h, pc)
    PROVE  /\ handler' \in [Handlers -> HandlerRecord]
           /\ \A g \in Handlers : g # h => handler'[g] = handler[g]
           /\ handler'[h].pc = pc
           /\ handler'[h].run = handler[h].run
           /\ handler'[h].key = handler[h].key
           /\ handler'[h].cmd = handler[h].cmd
           /\ handler'[h].seen = run[handler[h].run]
           /\ handler'[h].note = handler[h].note
<1>1. handler[h] \in HandlerRecord /\ run[handler[h].run] \in RunRecord
  BY DEF TypeOK
<1>2. [handler[h] EXCEPT !.seen = run[handler[h].run], !.pc = pc] \in HandlerRecord
  BY <1>1 DEF HandlerRecord
<1>3. handler' = [handler EXCEPT ![h] =
                    [handler[h] EXCEPT !.seen = run[handler[h].run], !.pc = pc]]
  BY DEF ReadThen, TypeOK
<1>4. QED
  BY <1>1, <1>2, <1>3 DEF TypeOK, HandlerRecord

(* A transition is written.                                                *)
LEMMA WriteEffect ==
    ASSUME TypeOK, NEW r \in Runs, NEW x \in RunRecord, NEW t \in Status,
           Write(r, x, t)
    PROVE  /\ run' \in [Runs -> RunRecord]
           /\ outcome' \in [Runs -> {"none"} \cup Terminal]
           /\ \A q \in Runs : q # r => run'[q] = run[q] /\ outcome'[q] = outcome[q]
           /\ run'[r].status = t
           /\ run'[r].job = x.job
           /\ run'[r].review = x.review
           /\ run'[r].note = x.note
           /\ run'[r].report = x.report
           /\ t \in Terminal => outcome'[r] = t
           /\ t \notin Terminal => outcome'[r] = outcome[r]
  BY DEF TypeOK, Write, RunRecord

(* An event is appended.                                                   *)
LEMMA LogEffect ==
    ASSUME TypeOK, NEW r \in Runs, NEW e \in EventTypes, LogEvent(r, e)
    PROVE  /\ log' \in [Runs -> Seq(EventTypes)]
           /\ \A q \in Runs : q # r => log'[q] = log[q]
           /\ log'[r] = Append(log[r], e)
  BY DEF TypeOK, LogEvent

(* An executor moves on.                                                   *)
LEMMA ExecGotoEffect ==
    ASSUME TypeOK, NEW r \in Runs, NEW pc \in Live, ExecGoto(r, pc)
    PROVE  /\ exec' \in [Runs -> ExecRecord]
           /\ \A q \in Runs : q # r => exec'[q] = exec[q]
           /\ exec'[r].pc = pc
           /\ exec'[r].base = exec[r].base
           /\ exec'[r].review = exec[r].review
           /\ exec'[r].verdict = exec[r].verdict
<1>1. exec[r] \in ExecRecord
  BY DEF TypeOK
<1>2. [exec[r] EXCEPT !.pc = pc] \in ExecRecord
  BY <1>1 DEF ExecRecord
<1>3. exec' = [exec EXCEPT ![r] = [exec[r] EXCEPT !.pc = pc]]
  BY DEF ExecGoto, TypeOK
<1>4. QED
  BY <1>1, <1>2, <1>3 DEF TypeOK, ExecRecord

(* An executor keeps the state it reads.                                   *)
LEMMA ExecReadEffect ==
    ASSUME TypeOK, NEW r \in Runs, NEW pc \in Live, ExecReadThen(r, pc)
    PROVE  /\ exec' \in [Runs -> ExecRecord]
           /\ \A q \in Runs : q # r => exec'[q] = exec[q]
           /\ exec'[r].pc = pc
           /\ exec'[r].base = run[r]
           /\ exec'[r].review = exec[r].review
           /\ exec'[r].verdict = exec[r].verdict
<1>1. exec[r] \in ExecRecord /\ run[r] \in RunRecord
  BY DEF TypeOK
<1>2. [exec[r] EXCEPT !.base = run[r], !.pc = pc] \in ExecRecord
  BY <1>1 DEF ExecRecord
<1>3. exec' = [exec EXCEPT ![r] = [exec[r] EXCEPT !.base = run[r], !.pc = pc]]
  BY DEF ExecReadThen, TypeOK
<1>4. QED
  BY <1>1, <1>2, <1>3 DEF TypeOK, ExecRecord

(* An executor ends.                                                       *)
LEMMA ExecReturnEffect ==
    ASSUME TypeOK, NEW r \in Runs, ExecReturn(r)
    PROVE  /\ exec' \in [Runs -> ExecRecord]
           /\ \A q \in Runs : q # r => exec'[q] = exec[q]
           /\ exec'[r].pc = "done"
           /\ exec'[r].base = Absent
  BY ConstantRecords DEF TypeOK, ExecReturn, Done, NoExec

(* An exception escapes from an executor.                                  *)
LEMMA EscapeEffect ==
    ASSUME TypeOK, NEW r \in Runs, NEW v \in {"failed", "timed_out"}, Escape(r, v)
    PROVE  /\ exec' \in [Runs -> ExecRecord]
           /\ \A q \in Runs : q # r => exec'[q] = exec[q]
           /\ exec'[r].pc \in {"cb_read", "done"}
           /\ exec'[r].base = Absent
           /\ exec'[r].pc = "cb_read" => exec'[r].verdict = v
<1>1. [Done EXCEPT !.pc = "cb_read", !.verdict = v, !.stop = exec[r].stop] \in ExecRecord
  BY ConstantRecords, ExecFields
     DEF TypeOK, Done, NoExec, ExecRecord, Live, Callback
<1>2. QED
  BY <1>1, ConstantRecords DEF TypeOK, Escape, Done, NoExec
-----------------------------------------------------------------------------
(* Type correctness.  TypeOK is not inductive alone: a handler past its    *)
(* first step must hold a run, and a callback must hold a verdict.         *)
Located ==
    \A h \in Handlers :
        /\ handler[h].pc \notin {"idle", "replay_read"} => handler[h].run \in Runs
        /\ handler[h].pc = "replay_read" => handler[h].key \in Keys

HasVerdict ==
    \A r \in Runs : exec[r].pc \in Callback => exec[r].verdict \in {"failed", "timed_out"}

TypeInv == TypeOK /\ Located /\ HasVerdict

(* A stage keeps the review or the report it made.                         *)
LEMMA KeepReviewEffect ==
    ASSUME TypeOK, NEW r \in Runs, NEW pc \in Live, NEW v \in Review,
           KeepReview(r, v, pc)
    PROVE  /\ exec' \in [Runs -> ExecRecord]
           /\ \A q \in Runs : q # r => exec'[q] = exec[q]
           /\ exec'[r].pc = pc
           /\ exec'[r].base = exec[r].base
           /\ exec'[r].verdict = exec[r].verdict
<1>1. exec[r] \in ExecRecord
  BY DEF TypeOK
<1>2. [exec[r] EXCEPT !.review = v, !.pc = pc] \in ExecRecord
  BY <1>1 DEF ExecRecord
<1>3. exec' = [exec EXCEPT ![r] = [exec[r] EXCEPT !.review = v, !.pc = pc]]
  BY DEF KeepReview, TypeOK
<1>4. QED
  BY <1>1, <1>2, <1>3 DEF TypeOK, ExecRecord

(* The report stage keeps what it made.                                    *)
LEMMA KeepReportEffect ==
    ASSUME TypeOK, NEW r \in Runs, NEW pc \in Live, NEW b \in BOOLEAN,
           KeepReport(r, b, pc)
    PROVE  /\ exec' \in [Runs -> ExecRecord]
           /\ \A q \in Runs : q # r => exec'[q] = exec[q]
           /\ exec'[r].pc = pc
           /\ exec'[r].base = exec[r].base
           /\ exec'[r].verdict = exec[r].verdict
<1>1. exec[r] \in ExecRecord
  BY DEF TypeOK
<1>2. [exec[r] EXCEPT !.report = b, !.pc = pc] \in ExecRecord
  BY <1>1 DEF ExecRecord
<1>3. exec' = [exec EXCEPT ![r] = [exec[r] EXCEPT !.report = b, !.pc = pc]]
  BY DEF KeepReport, TypeOK
<1>4. QED
  BY <1>1, <1>2, <1>3 DEF TypeOK, ExecRecord

(* The key of a replayed request names the run it answers with.            *)
LEMMA ReplayReadEffect ==
    ASSUME TypeOK, Located, NEW h \in Handlers, ReplayRead(h)
    PROVE  /\ handler' \in [Handlers -> HandlerRecord]
           /\ \A g \in Handlers : g # h => handler'[g] = handler[g]
           /\ handler'[h].pc \in {"idle", "replay"}
           /\ handler'[h].pc = "replay" => handler'[h].run \in Runs
<1>1. CASE SameRequest(handler[h].key, handler[h].cmd)
  <2>1. handler[h] \in HandlerRecord /\ idem[handler[h].key].run \in Runs
    BY <1>1 DEF ReplayRead, SameRequest, TypeOK, Located, IdemRecord
  <2>2. [handler[h] EXCEPT !.run = idem[handler[h].key].run, !.pc = "replay"] \in HandlerRecord
    BY <2>1 DEF HandlerRecord, HandlerPCs
  <2>3. handler' = [handler EXCEPT ![h] =
                      [handler[h] EXCEPT !.run = idem[handler[h].key].run, !.pc = "replay"]]
    BY <1>1 DEF ReplayRead, TypeOK
  <2>4. QED
    BY <2>1, <2>2, <2>3 DEF TypeOK, HandlerRecord
<1>2. CASE ~SameRequest(handler[h].key, handler[h].cmd)
  BY <1>2, ReturnEffect DEF ReplayRead
<1>3. QED
  BY <1>1, <1>2

(* A handler tells RQ to drop or to stop the job.                          *)
LEMMA CancelJobEffect ==
    ASSUME TypeOK, Located, NEW h \in Handlers, CancelJob(h)
    PROVE  /\ exec' \in [Runs -> ExecRecord]
           /\ job' \in [Runs -> {"none", "queued", "started", "removed"}]
           /\ \A q \in Runs : /\ exec'[q].pc = exec[q].pc
                              /\ exec'[q].base = exec[q].base
                              /\ exec'[q].review = exec[q].review
                              /\ exec'[q].verdict = exec[q].verdict
<1>1. handler[h].run \in Runs
  BY DEF CancelJob, Located
<1>2. exec' \in [Runs -> ExecRecord]
  <2>1. [exec[handler[h].run] EXCEPT !.stop = TRUE] \in ExecRecord
    <3>1. exec[handler[h].run] \in ExecRecord
      BY <1>1 DEF TypeOK
    <3>2. QED
      BY <3>1 DEF ExecRecord
  <2>2. QED
    BY <1>1, <2>1 DEF CancelJob, TypeOK
<1>3. job' \in [Runs -> {"none", "queued", "started", "removed"}]
  BY <1>1 DEF CancelJob, TypeOK
<1>4. \A q \in Runs : /\ exec'[q].pc = exec[q].pc
                      /\ exec'[q].base = exec[q].base
                      /\ exec'[q].review = exec[q].review
                      /\ exec'[q].verdict = exec[q].verdict
  BY <1>1 DEF CancelJob, TypeOK, ExecRecord
<1>5. QED
  BY <1>2, <1>3, <1>4

(* An acknowledgement is written.                                          *)
LEMMA AckWriteEffect ==
    ASSUME TypeOK, Located, NEW h \in Handlers, AckWrite(h)
    PROVE  /\ run' \in [Runs -> RunRecord]
           /\ \A q \in Runs : q # handler[h].run => run'[q] = run[q]
           /\ \/ run' = run
              \/ /\ handler[h].seen.status \notin {"failed", "timed_out"}
                 /\ run'[handler[h].run].status = handler[h].seen.status
                 /\ run'[handler[h].run].review = "acknowledged"
<1>1. /\ handler[h].run \in Runs
      /\ handler[h].seen \in RunRecord
      /\ handler[h].note \in Notes \cup {None}
  BY HandlerFields DEF AckWrite, Located, TypeOK
<1>2. CASE handler[h].seen.status \in {"failed", "timed_out"}
  BY <1>1, <1>2 DEF AckWrite, TypeOK
<1>3. CASE handler[h].seen.status \notin {"failed", "timed_out"}
  <2>1. run' = [run EXCEPT ![handler[h].run] = WithAck(handler[h].seen, handler[h].note)]
    BY <1>3 DEF AckWrite
  <2>2. QED
    BY <1>1, <1>3, <2>1, WithAckType DEF TypeOK
<1>4. QED
  BY <1>2, <1>3

(* A fault is counted.                                                     *)
LEMMA FaultEffect ==
    ASSUME TypeOK, Fault
    PROVE  faults' \in 0..MaxFaults
  BY ConstantsAssumption DEF TypeOK, Fault

(* Every step of a handler keeps the types.                                *)
LEMMA HandlerTypeOK ==
    ASSUME TypeOK, Located, NEW h \in Handlers,
           HandlerStep(h) \/ EnqueueRaises(h) \/ HandlerFails(h)
    PROVE  TypeOK'
<1> USE DEF Located
<1>1. CASE ReplayRead(h)
  BY <1>1, ReplayReadEffect, ReturnEffect DEF ReplayRead, TypeOK, HandlerPCs
<1>2. CASE Replay(h)
  BY <1>2, ReturnEffect DEF Replay, TypeOK
<1>3. CASE Save(h)
  BY <1>3, WriteEffect, GotoEffect, ConstantRecords
     DEF Save, TypeOK, HandlerPCs, Status, Active, Terminal
<1>4. CASE LogCreated(h)
  BY <1>4, LogEffect, GotoEffect, ReturnEffect, ExecGotoEffect
     DEF LogCreated, TypeOK, HandlerPCs, Live, Unguarded, EventTypes
<1>5. CASE EnqRead(h)
  BY <1>5, ReadThenEffect, ReturnEffect DEF EnqRead, TypeOK, HandlerPCs
<1>6. CASE EnqCas(h)
  <2>1. CASE Wins(handler[h].run, {"queued"})
    BY <1>6, <2>1, WriteEffect, GotoEffect, HandlerFields, WithJobType
       DEF EnqCas, TypeOK, HandlerPCs, Status, Active, Terminal
  <2>2. CASE ~Wins(handler[h].run, {"queued"})
    BY <1>6, <2>2, ReturnEffect DEF EnqCas, TypeOK
  <2>3. QED
    BY <2>1, <2>2
<1>7. CASE LogEnqueued(h)
  BY <1>7, LogEffect, GotoEffect DEF LogEnqueued, TypeOK, HandlerPCs, EventTypes
<1>8. CASE Enqueue(h)
  BY <1>8, ReturnEffect DEF Enqueue, TypeOK
<1>9. CASE EqfRead(h)
  BY <1>9, ReturnEffect, ReadThenEffect DEF EqfRead, TypeOK, HandlerPCs
<1>10. CASE EqfCas(h)
  <2>1. CASE Wins(handler[h].run, {"queued"})
    BY <1>10, <2>1, WriteEffect, GotoEffect, HandlerFields
       DEF EqfCas, TypeOK, HandlerPCs, Status, Active, Terminal
  <2>2. CASE ~Wins(handler[h].run, {"queued"})
    BY <1>10, <2>2, ReturnEffect DEF EqfCas, TypeOK
  <2>3. QED
    BY <2>1, <2>2
<1>11. CASE LogEqf(h)
  BY <1>11, LogEffect, ReturnEffect DEF LogEqf, TypeOK, EventTypes
<1>12. CASE CancelRead(h)
  BY <1>12, ReadThenEffect, ReturnEffect DEF CancelRead, TypeOK, HandlerPCs
<1>13. CASE CancelCas(h)
  <2>1. CASE Wins(handler[h].run, Active)
    BY <1>13, <2>1, WriteEffect, GotoEffect, HandlerFields
       DEF CancelCas, TypeOK, HandlerPCs, Status, Active, Terminal
  <2>2. CASE ~Wins(handler[h].run, Active)
    BY <1>13, <2>2, ReturnEffect DEF CancelCas, TypeOK
  <2>3. QED
    BY <2>1, <2>2
<1>14. CASE LogCancelled(h)
  BY <1>14, LogEffect, GotoEffect, ReturnEffect
     DEF LogCancelled, TypeOK, HandlerPCs, EventTypes
<1>15. CASE CancelJob(h)
  BY <1>15, CancelJobEffect, ReturnEffect DEF CancelJob, TypeOK
<1>16. CASE TimedOutRead(h)
  BY <1>16, ReadThenEffect, ReturnEffect DEF TimedOutRead, TypeOK, HandlerPCs
<1>17. CASE TimedOutCas(h)
  <2>1. CASE Wins(handler[h].run, Active)
    BY <1>17, <2>1, WriteEffect, GotoEffect, HandlerFields
       DEF TimedOutCas, TypeOK, HandlerPCs, Status, Active, Terminal
  <2>2. CASE ~Wins(handler[h].run, Active)
    BY <1>17, <2>2, ReturnEffect DEF TimedOutCas, TypeOK
  <2>3. QED
    BY <2>1, <2>2
<1>18. CASE LogTimedOut(h)
  BY <1>18, LogEffect, ReturnEffect DEF LogTimedOut, TypeOK, EventTypes
<1>19. CASE AckWrite(h)
  BY <1>19, AckWriteEffect, GotoEffect, ReturnEffect
     DEF AckWrite, TypeOK, HandlerPCs
<1>20. CASE LogAck(h)
  BY <1>20, LogEffect, ReturnEffect DEF LogAck, TypeOK, EventTypes
<1>21. CASE EnqueueRaises(h)
  <2>1. handler' \in [Handlers -> HandlerRecord]
    BY <1>21, GotoEffect DEF EnqueueRaises, HandlerPCs
  <2>2. faults' \in 0..MaxFaults
    BY <1>21, FaultEffect DEF EnqueueRaises
  <2>3. job' \in [Runs -> {"none", "queued", "started", "removed"}]
    BY <1>21 DEF EnqueueRaises, TypeOK
  <2>4. QED
    BY <1>21, <2>1, <2>2, <2>3 DEF EnqueueRaises, TypeOK
<1>22. CASE HandlerFails(h)
  BY <1>22, FaultEffect, ReturnEffect DEF HandlerFails, TypeOK
<1> QED
  BY <1>1, <1>2, <1>3, <1>4, <1>5, <1>6, <1>7, <1>8, <1>9, <1>10, <1>11, <1>12,
     <1>13, <1>14, <1>15, <1>16, <1>17, <1>18, <1>19, <1>20, <1>21, <1>22
     DEF HandlerStep

(* Every step of a handler past its first holds a run.                     *)
LEMMA HandlerLocated ==
    ASSUME TypeOK, Located, NEW h \in Handlers,
           HandlerStep(h) \/ EnqueueRaises(h) \/ HandlerFails(h)
    PROVE  Located'
<1> USE DEF Located
<1>1. CASE ReplayRead(h)
  BY <1>1, ReplayReadEffect, ReturnEffect DEF ReplayRead, HandlerPCs
<1>2. CASE Replay(h)
  BY <1>2, ReturnEffect DEF Replay
<1>3. CASE Save(h)
  BY <1>3, WriteEffect, GotoEffect, ConstantRecords DEF Save, HandlerPCs
<1>4. CASE LogCreated(h)
  BY <1>4, LogEffect, GotoEffect, ReturnEffect, ExecGotoEffect
     DEF LogCreated, HandlerPCs
<1>5. CASE EnqRead(h)
  BY <1>5, ReadThenEffect, ReturnEffect DEF EnqRead, HandlerPCs
<1>6. CASE EnqCas(h)
  BY <1>6, WriteEffect, GotoEffect, ReturnEffect, HandlerFields, WithJobType
     DEF EnqCas, HandlerPCs
<1>7. CASE LogEnqueued(h)
  BY <1>7, LogEffect, GotoEffect DEF LogEnqueued, HandlerPCs
<1>8. CASE Enqueue(h)
  BY <1>8, ReturnEffect DEF Enqueue
<1>9. CASE EqfRead(h)
  BY <1>9, ReturnEffect, ReadThenEffect DEF EqfRead, HandlerPCs
<1>10. CASE EqfCas(h)
  BY <1>10, WriteEffect, GotoEffect, ReturnEffect, HandlerFields
     DEF EqfCas, HandlerPCs
<1>11. CASE LogEqf(h)
  BY <1>11, LogEffect, ReturnEffect DEF LogEqf
<1>12. CASE CancelRead(h)
  BY <1>12, ReadThenEffect, ReturnEffect DEF CancelRead, HandlerPCs
<1>13. CASE CancelCas(h)
  BY <1>13, WriteEffect, GotoEffect, ReturnEffect, HandlerFields
     DEF CancelCas, HandlerPCs
<1>14. CASE LogCancelled(h)
  BY <1>14, LogEffect, GotoEffect, ReturnEffect DEF LogCancelled, HandlerPCs
<1>15. CASE CancelJob(h)
  BY <1>15, CancelJobEffect, ReturnEffect DEF CancelJob
<1>16. CASE TimedOutRead(h)
  BY <1>16, ReadThenEffect, ReturnEffect DEF TimedOutRead, HandlerPCs
<1>17. CASE TimedOutCas(h)
  BY <1>17, WriteEffect, GotoEffect, ReturnEffect, HandlerFields
     DEF TimedOutCas, HandlerPCs
<1>18. CASE LogTimedOut(h)
  BY <1>18, LogEffect, ReturnEffect DEF LogTimedOut
<1>19. CASE AckWrite(h)
  BY <1>19, AckWriteEffect, GotoEffect, ReturnEffect DEF AckWrite, HandlerPCs
<1>20. CASE LogAck(h)
  BY <1>20, LogEffect, ReturnEffect DEF LogAck
<1>21. CASE EnqueueRaises(h)
  BY <1>21, FaultEffect, GotoEffect DEF EnqueueRaises, HandlerPCs
<1>22. CASE HandlerFails(h)
  BY <1>22, FaultEffect, ReturnEffect DEF HandlerFails
<1> QED
  BY <1>1, <1>2, <1>3, <1>4, <1>5, <1>6, <1>7, <1>8, <1>9, <1>10, <1>11, <1>12,
     <1>13, <1>14, <1>15, <1>16, <1>17, <1>18, <1>19, <1>20, <1>21, <1>22
     DEF HandlerStep

(* A handler touches no callback.                                          *)
LEMMA HandlerVerdict ==
    ASSUME TypeOK, Located, HasVerdict, NEW h \in Handlers,
           HandlerStep(h) \/ EnqueueRaises(h) \/ HandlerFails(h)
    PROVE  HasVerdict'
<1> USE DEF Located, HasVerdict
<1>1. CASE ReplayRead(h)
  BY <1>1, ReplayReadEffect, ReturnEffect DEF ReplayRead
<1>2. CASE Replay(h)
  BY <1>2, ReturnEffect DEF Replay
<1>3. CASE Save(h)
  BY <1>3, WriteEffect, GotoEffect, ConstantRecords DEF Save
<1>4. CASE LogCreated(h)
  BY <1>4, LogEffect, GotoEffect, ReturnEffect, ExecGotoEffect
     DEF LogCreated, Callback, Live, Unguarded
<1>5. CASE EnqRead(h)
  BY <1>5, ReadThenEffect, ReturnEffect DEF EnqRead
<1>6. CASE EnqCas(h)
  BY <1>6, WriteEffect, GotoEffect, ReturnEffect, HandlerFields, WithJobType
     DEF EnqCas
<1>7. CASE LogEnqueued(h)
  BY <1>7, LogEffect, GotoEffect DEF LogEnqueued
<1>8. CASE Enqueue(h)
  BY <1>8, ReturnEffect DEF Enqueue
<1>9. CASE EqfRead(h)
  BY <1>9, ReturnEffect, ReadThenEffect DEF EqfRead
<1>10. CASE EqfCas(h)
  BY <1>10, WriteEffect, GotoEffect, ReturnEffect, HandlerFields DEF EqfCas
<1>11. CASE LogEqf(h)
  BY <1>11, LogEffect, ReturnEffect DEF LogEqf
<1>12. CASE CancelRead(h)
  BY <1>12, ReadThenEffect, ReturnEffect DEF CancelRead
<1>13. CASE CancelCas(h)
  BY <1>13, WriteEffect, GotoEffect, ReturnEffect, HandlerFields DEF CancelCas
<1>14. CASE LogCancelled(h)
  BY <1>14, LogEffect, GotoEffect, ReturnEffect DEF LogCancelled
<1>15. CASE CancelJob(h)
  BY <1>15, CancelJobEffect, ReturnEffect DEF CancelJob
<1>16. CASE TimedOutRead(h)
  BY <1>16, ReadThenEffect, ReturnEffect DEF TimedOutRead
<1>17. CASE TimedOutCas(h)
  BY <1>17, WriteEffect, GotoEffect, ReturnEffect, HandlerFields DEF TimedOutCas
<1>18. CASE LogTimedOut(h)
  BY <1>18, LogEffect, ReturnEffect DEF LogTimedOut
<1>19. CASE AckWrite(h)
  BY <1>19, AckWriteEffect, GotoEffect, ReturnEffect DEF AckWrite
<1>20. CASE LogAck(h)
  BY <1>20, LogEffect, ReturnEffect DEF LogAck
<1>21. CASE EnqueueRaises(h)
  BY <1>21, FaultEffect, GotoEffect DEF EnqueueRaises, Callback
<1>22. CASE HandlerFails(h)
  BY <1>22, FaultEffect, ReturnEffect DEF HandlerFails, Callback
<1> QED
  BY <1>1, <1>2, <1>3, <1>4, <1>5, <1>6, <1>7, <1>8, <1>9, <1>10, <1>11, <1>12,
     <1>13, <1>14, <1>15, <1>16, <1>17, <1>18, <1>19, <1>20, <1>21, <1>22
     DEF HandlerStep

(* Every step around the executor keeps the types.                         *)
LEMMA ExecTypeOK ==
    ASSUME TypeOK, HasVerdict, NEW r \in Runs,
           ExecStep(r) \/ StageEnds(r) \/ Environment(r)
    PROVE  TypeOK'
<1> USE DEF HasVerdict
<1>1. CASE ExecRead(r)
  BY <1>1, ExecReadEffect, ExecReturnEffect, EscapeEffect
     DEF ExecRead, TypeOK, Live, Staged, Unguarded, Callback
<1>2. CASE ExecClaim(r)
  BY <1>2, WriteEffect, ExecGotoEffect, ExecReturnEffect, EscapeEffect, ExecFields
     DEF ExecClaim, TypeOK, Live, Staged, Unguarded, Callback, Status, Active,
         Terminal
<1>3. CASE LogStarted(r)
  BY <1>3, LogEffect, ExecGotoEffect
     DEF LogStarted, TypeOK, Live, Staged, Unguarded, Callback, EventTypes
<1>4. CASE ExecCheck(r)
  BY <1>4, ExecReturnEffect, EscapeEffect, ExecGotoEffect
     DEF ExecCheck, TypeOK, Live, Staged, Unguarded, Callback
<1>5. CASE Publish(r)
  <2>1. CASE Wins(r, {"running"})
    <3>1. Write(r, WithReport(exec[r].base, exec[r].review, exec[r].report), "completed")
      BY <1>5, <2>1 DEF Publish
    <3>2. WithReport(exec[r].base, exec[r].review, exec[r].report) \in RunRecord
      BY ExecFields, WithReportType DEF TypeOK
    <3>3. QED
      BY <1>5, <2>1, <3>1, <3>2, WriteEffect, ExecGotoEffect
         DEF Publish, TypeOK, Status, Active, Terminal, Live, Unguarded
  <2>2. CASE ~Wins(r, {"running"})
    BY <1>5, <2>2, ExecReturnEffect, EscapeEffect DEF Publish, TypeOK
  <2>3. QED
    BY <2>1, <2>2
<1>6. CASE LogCompleted(r)
  BY <1>6, LogEffect, ExecReturnEffect
     DEF LogCompleted, TypeOK, Live, Staged, Unguarded, Callback, EventTypes
<1>7. CASE Fail(r)
  BY <1>7, WriteEffect, ExecGotoEffect, ExecReturnEffect, EscapeEffect, ExecFields,
     WithReviewType
     DEF Fail, TypeOK, Live, Staged, Unguarded, Callback, Status, Active, Terminal
<1>8. CASE LogFailed(r)
  BY <1>8, LogEffect, ExecReturnEffect
     DEF LogFailed, TypeOK, Live, Staged, Unguarded, Callback, EventTypes
<1>9. CASE CallbackRead(r)
  BY <1>9, ExecReadEffect, ExecReturnEffect
     DEF CallbackRead, TypeOK, Live, Staged, Unguarded, Callback
<1>10. CASE CallbackCas(r)
  <2>1. CASE Wins(r, Active)
    <3>1. /\ Write(r, exec[r].base, exec[r].verdict)
          /\ exec[r].base \in RunRecord
          /\ exec[r].verdict \in Status
      BY <1>10, <2>1, ExecFields DEF CallbackCas, TypeOK, Callback, Status, Terminal
    <3>2. QED
      BY <1>10, <2>1, <3>1, WriteEffect, ExecGotoEffect
         DEF CallbackCas, TypeOK, Live, Callback
  <2>2. CASE ~Wins(r, Active)
    BY <1>10, <2>2, ExecReturnEffect DEF CallbackCas, TypeOK
  <2>3. QED
    BY <2>1, <2>2
<1>11. CASE LogCallback(r)
  BY <1>11, LogEffect, ExecReturnEffect
     DEF LogCallback, TypeOK, Live, Staged, Unguarded, Callback, EventTypes
<1>12. CASE WorkflowEnds(r)
  BY <1>12, ExecGotoEffect
     DEF WorkflowEnds, TypeOK, Live, Staged, Unguarded, Callback
<1>13. CASE ReviewEnds(r)
  BY <1>13, KeepReviewEffect, ExecGotoEffect
     DEF ReviewEnds, TypeOK, Live, Staged, Unguarded, Callback, Review
<1>14. CASE ExplainEnds(r)
  BY <1>14, ExecGotoEffect
     DEF ExplainEnds, TypeOK, Live, Staged, Unguarded, Callback
<1>15. CASE ReportEnds(r)
  BY <1>15, KeepReportEffect, ExecGotoEffect
     DEF ReportEnds, TypeOK, Live, Staged, Unguarded, Callback
<1>16. CASE JobStarts(r)
  BY <1>16, ExecGotoEffect DEF JobStarts, TypeOK, Live, Staged, Unguarded, Callback
<1>17. CASE AlarmFires(r)
  BY <1>17, EscapeEffect, ExecGotoEffect
     DEF AlarmFires, TypeOK, Live, Staged, Unguarded, Callback
<1>18. CASE HorseKilled(r)
  BY <1>18, ExecReturnEffect
     DEF HorseKilled, TypeOK, Live, Staged, Unguarded, Callback
<1>19. CASE GracePasses(r)
  BY <1>19 DEF GracePasses, TypeOK
<1>20. CASE ExecRaises(r)
  BY <1>20, FaultEffect, EscapeEffect
     DEF ExecRaises, TypeOK, Live, Staged, Unguarded, Callback
<1>21. CASE HorseDies(r)
  BY <1>21, FaultEffect, ExecReturnEffect, EscapeEffect
     DEF HorseDies, TypeOK, Live, Staged, Unguarded, Callback
<1>22. CASE RunExpires(r)
  BY <1>22, ConstantRecords DEF RunExpires, TypeOK
<1> QED
  BY <1>1, <1>2, <1>3, <1>4, <1>5, <1>6, <1>7, <1>8, <1>9, <1>10, <1>11, <1>12,
     <1>13, <1>14, <1>15, <1>16, <1>17, <1>18, <1>19, <1>20, <1>21, <1>22
     DEF ExecStep, StageEnds, Environment

(* A callback is entered with a verdict and keeps it.                      *)
LEMMA ExecVerdict ==
    ASSUME TypeOK, HasVerdict, NEW r \in Runs,
           ExecStep(r) \/ StageEnds(r) \/ Environment(r)
    PROVE  HasVerdict'
<1> USE DEF HasVerdict
<1>1. CASE ExecRead(r)
  BY <1>1, ExecReadEffect, ExecReturnEffect, EscapeEffect
     DEF ExecRead, Live, Staged, Unguarded, Callback
<1>2. CASE ExecClaim(r)
  BY <1>2, WriteEffect, ExecGotoEffect, ExecReturnEffect, EscapeEffect, ExecFields
     DEF ExecClaim, Live, Staged, Unguarded, Callback, Status, Active, Terminal
<1>3. CASE LogStarted(r)
  BY <1>3, LogEffect, ExecGotoEffect
     DEF LogStarted, Live, Staged, Unguarded, Callback, EventTypes
<1>4. CASE ExecCheck(r)
  BY <1>4, ExecReturnEffect, EscapeEffect, ExecGotoEffect
     DEF ExecCheck, Live, Staged, Unguarded, Callback
<1>5. CASE Publish(r)
  BY <1>5, ExecGotoEffect, ExecReturnEffect, EscapeEffect
     DEF Publish, Live, Staged, Unguarded, Callback
<1>6. CASE LogCompleted(r)
  BY <1>6, LogEffect, ExecReturnEffect
     DEF LogCompleted, Live, Staged, Unguarded, Callback, EventTypes
<1>7. CASE Fail(r)
  BY <1>7, ExecGotoEffect, ExecReturnEffect, EscapeEffect
     DEF Fail, Live, Staged, Unguarded, Callback
<1>8. CASE LogFailed(r)
  BY <1>8, LogEffect, ExecReturnEffect
     DEF LogFailed, Live, Staged, Unguarded, Callback, EventTypes
<1>9. CASE CallbackRead(r)
  BY <1>9, ExecReadEffect, ExecReturnEffect
     DEF CallbackRead, Live, Staged, Unguarded, Callback
<1>10. CASE CallbackCas(r)
  BY <1>10, WriteEffect, ExecGotoEffect, ExecReturnEffect, ExecFields
     DEF CallbackCas, Live, Staged, Unguarded, Callback, Status, Active, Terminal
<1>11. CASE LogCallback(r)
  BY <1>11, LogEffect, ExecReturnEffect
     DEF LogCallback, Live, Staged, Unguarded, Callback, EventTypes
<1>12. CASE WorkflowEnds(r)
  BY <1>12, ExecGotoEffect DEF WorkflowEnds, Live, Staged, Unguarded, Callback
<1>13. CASE ReviewEnds(r)
  BY <1>13, KeepReviewEffect, ExecGotoEffect
     DEF ReviewEnds, Live, Staged, Unguarded, Callback, Review
<1>14. CASE ExplainEnds(r)
  BY <1>14, ExecGotoEffect DEF ExplainEnds, Live, Staged, Unguarded, Callback
<1>15. CASE ReportEnds(r)
  BY <1>15, KeepReportEffect, ExecGotoEffect
     DEF ReportEnds, Live, Staged, Unguarded, Callback
<1>16. CASE JobStarts(r)
  BY <1>16, ExecGotoEffect DEF JobStarts, Live, Staged, Unguarded, Callback
<1>17. CASE AlarmFires(r)
  BY <1>17, EscapeEffect, ExecGotoEffect
     DEF AlarmFires, Live, Staged, Unguarded, Callback
<1>18. CASE HorseKilled(r)
  BY <1>18, ExecReturnEffect DEF HorseKilled, Live, Staged, Unguarded, Callback
<1>19. CASE GracePasses(r)
  BY <1>19 DEF GracePasses
<1>20. CASE ExecRaises(r)
  BY <1>20, FaultEffect, EscapeEffect
     DEF ExecRaises, Live, Staged, Unguarded, Callback
<1>21. CASE HorseDies(r)
  BY <1>21, FaultEffect, ExecReturnEffect, EscapeEffect
     DEF HorseDies, Live, Staged, Unguarded, Callback
<1>22. CASE RunExpires(r)
  BY <1>22, ConstantRecords DEF RunExpires
<1> QED
  BY <1>1, <1>2, <1>3, <1>4, <1>5, <1>6, <1>7, <1>8, <1>9, <1>10, <1>11, <1>12,
     <1>13, <1>14, <1>15, <1>16, <1>17, <1>18, <1>19, <1>20, <1>21, <1>22
     DEF ExecStep, StageEnds, Environment

(* The executor and its environment touch no handler.                      *)
LEMMA ExecFrame ==
    ASSUME NEW r \in Runs, ExecStep(r) \/ StageEnds(r) \/ Environment(r)
    PROVE  handler' = handler /\ payload' = payload
  BY DEF ExecStep, StageEnds, Environment, ExecRead, ExecClaim, LogStarted,
         ExecCheck, Publish, LogCompleted, Fail, LogFailed, CallbackRead,
         CallbackCas, LogCallback, WorkflowEnds, ReviewEnds, ExplainEnds,
         ReportEnds, JobStarts, AlarmFires, HorseKilled, GracePasses, ExecRaises,
         HorseDies, RunExpires

(* A request begins: the record its handler starts from.                   *)
LEMMA CreateRunEffect ==
    ASSUME TypeOK, NEW h \in Handlers, NEW c \in Commands, NEW k \in Keys \cup {None},
           NEW r \in Runs, CreateRun(h, c, k, r)
    PROVE  /\ handler' \in [Handlers -> HandlerRecord]
           /\ \A g \in Handlers : g # h => handler'[g] = handler[g]
           /\ handler'[h].pc = "save"
           /\ handler'[h].run = r
<1> DEFINE x == [Idle EXCEPT !.pc = "save", !.run = r, !.key = k, !.cmd = c]
<1>1. x \in HandlerRecord /\ x.pc = "save" /\ x.run = r
  BY ConstantRecords DEF Idle, HandlerRecord, HandlerPCs
<1>2. Begin(h, x)
  BY DEF CreateRun
<1> HIDE DEF x
<1>3. QED
  BY <1>1, <1>2, BeginEffect

(* A replay starts from its key.                                           *)
LEMMA KeyTakenEffect ==
    ASSUME TypeOK, NEW h \in Handlers, NEW c \in Commands, NEW k \in Keys,
           KeyTaken(h, c, k)
    PROVE  /\ handler' \in [Handlers -> HandlerRecord]
           /\ \A g \in Handlers : g # h => handler'[g] = handler[g]
           /\ handler'[h].pc = "replay_read"
           /\ handler'[h].key = k
<1> DEFINE x == [Idle EXCEPT !.pc = "replay_read", !.key = k, !.cmd = c]
<1>1. x \in HandlerRecord /\ x.pc = "replay_read" /\ x.key = k
  BY ConstantRecords DEF Idle, HandlerRecord, HandlerPCs
<1>2. Begin(h, x)
  BY DEF KeyTaken
<1> HIDE DEF x
<1>3. QED
  BY <1>1, <1>2, BeginEffect

(* A cancellation starts from its run.                                     *)
LEMMA CancelRunEffect ==
    ASSUME TypeOK, NEW h \in Handlers, NEW r \in Runs, CancelRun(h, r)
    PROVE  /\ handler' \in [Handlers -> HandlerRecord]
           /\ \A g \in Handlers : g # h => handler'[g] = handler[g]
           /\ handler'[h].pc = "can_read"
           /\ handler'[h].run = r
<1> DEFINE flag == Async /\ Wins(r, {"running"})
           x == [Idle EXCEPT !.pc = "can_read", !.run = r, !.running = flag]
<1>1. flag \in BOOLEAN
  BY ConstantsAssumption DEF Wins
<1>2. Begin(h, x)
  BY DEF CancelRun
<1>3. x \in HandlerRecord /\ x.pc = "can_read" /\ x.run = r
  <2> HIDE DEF flag
  <2> QED
    BY <1>1, ConstantRecords DEF Idle, HandlerRecord, HandlerPCs
<1> HIDE DEF x
<1>4. QED
  BY <1>2, <1>3, BeginEffect

(* A poll that finds the run overdue starts from it.                       *)
LEMMA GetRunEffect ==
    ASSUME TypeOK, NEW h \in Handlers, NEW r \in Runs, GetRun(h, r)
    PROVE  /\ handler' \in [Handlers -> HandlerRecord]
           /\ \A g \in Handlers : g # h => handler'[g] = handler[g]
           /\ handler'[h].pc = "to_read"
           /\ handler'[h].run = r
<1> DEFINE x == [Idle EXCEPT !.pc = "to_read", !.run = r]
<1>1. x \in HandlerRecord /\ x.pc = "to_read" /\ x.run = r
  BY ConstantRecords DEF Idle, HandlerRecord, HandlerPCs
<1>2. Begin(h, x)
  BY DEF GetRun
<1> HIDE DEF x
<1>3. QED
  BY <1>1, <1>2, BeginEffect

(* An acknowledgement starts from the run it read.                         *)
LEMMA AcknowledgeEffect ==
    ASSUME TypeOK, NEW h \in Handlers, NEW r \in Runs, NEW n \in Notes \cup {None},
           Acknowledge(h, r, n)
    PROVE  /\ handler' \in [Handlers -> HandlerRecord]
           /\ \A g \in Handlers : g # h => handler'[g] = handler[g]
           /\ handler'[h].pc = "ack_write"
           /\ handler'[h].run = r
           /\ handler'[h].seen = run[r]
<1> DEFINE x == [Idle EXCEPT !.pc = "ack_write", !.run = r, !.note = n, !.seen = run[r]]
<1>1. run[r] \in RunRecord
  BY DEF TypeOK
<1>2. x \in HandlerRecord /\ x.pc = "ack_write" /\ x.run = r /\ x.seen = run[r]
  BY <1>1, ConstantRecords DEF Idle, HandlerRecord, HandlerPCs
<1>3. Begin(h, x)
  BY DEF Acknowledge
<1> HIDE DEF x
<1>4. QED
  BY <1>2, <1>3, BeginEffect

(* A request is one of these.                                              *)
LEMMA RequestTypeInv ==
    ASSUME TypeInv, NEW h \in Handlers, Request(h)
    PROVE  TypeInv'
<1>0. TypeOK /\ Located /\ HasVerdict
  BY DEF TypeInv
<1>1. ASSUME NEW c \in Commands, NEW k \in Keys \cup {None}, NEW r \in Runs,
             CreateRun(h, c, k, r)
      PROVE  TypeInv'
  <2>1. TypeOK'
    BY <1>0, <1>1, CreateRunEffect DEF CreateRun, TypeOK, IdemRecord
  <2>2. Located'
    BY <1>0, <1>1, CreateRunEffect DEF Located
  <2>3. HasVerdict'
    BY <1>0, <1>1 DEF CreateRun, HasVerdict
  <2>4. QED
    BY <2>1, <2>2, <2>3 DEF TypeInv
<1>2. ASSUME NEW c \in Commands, NEW k \in Keys, KeyTaken(h, c, k)
      PROVE  TypeInv'
  <2>1. TypeOK'
    BY <1>0, <1>2, KeyTakenEffect DEF KeyTaken, TypeOK
  <2>2. Located'
    BY <1>0, <1>2, KeyTakenEffect DEF Located
  <2>3. HasVerdict'
    BY <1>0, <1>2 DEF KeyTaken, HasVerdict
  <2>4. QED
    BY <2>1, <2>2, <2>3 DEF TypeInv
<1>3. ASSUME NEW r \in Runs, CancelRun(h, r)
      PROVE  TypeInv'
  <2>1. TypeOK'
    BY <1>0, <1>3, CancelRunEffect DEF CancelRun, TypeOK
  <2>2. Located'
    BY <1>0, <1>3, CancelRunEffect DEF Located
  <2>3. HasVerdict'
    BY <1>0, <1>3 DEF CancelRun, HasVerdict
  <2>4. QED
    BY <2>1, <2>2, <2>3 DEF TypeInv
<1>4. ASSUME NEW r \in Runs, GetRun(h, r)
      PROVE  TypeInv'
  <2>1. TypeOK'
    BY <1>0, <1>4, GetRunEffect DEF GetRun, TypeOK
  <2>2. Located'
    BY <1>0, <1>4, GetRunEffect DEF Located
  <2>3. HasVerdict'
    BY <1>0, <1>4 DEF GetRun, HasVerdict
  <2>4. QED
    BY <2>1, <2>2, <2>3 DEF TypeInv
<1>5. ASSUME NEW r \in Runs, NEW n \in Notes \cup {None}, Acknowledge(h, r, n)
      PROVE  TypeInv'
  <2>1. TypeOK'
    BY <1>0, <1>5, AcknowledgeEffect DEF Acknowledge, TypeOK
  <2>2. Located'
    BY <1>0, <1>5, AcknowledgeEffect DEF Located
  <2>3. HasVerdict'
    BY <1>0, <1>5 DEF Acknowledge, HasVerdict
  <2>4. QED
    BY <2>1, <2>2, <2>3 DEF TypeInv
<1>6. QED
  BY <1>1, <1>2, <1>3, <1>4, <1>5 DEF Request

(* The initial state, and every step, is of the right type.                *)
LEMMA TypeInvInit == Init => TypeInv
<1> SUFFICES ASSUME Init PROVE TypeInv
  OBVIOUS
<1>1. TypeOK
  BY ConstantRecords, ConstantsAssumption DEF Init, TypeOK
<1>2. Located
  BY DEF Init, Located, Idle
<1>3. HasVerdict
  BY DEF Init, HasVerdict, NoExec, Callback
<1>4. QED
  BY <1>1, <1>2, <1>3 DEF TypeInv

(* Every step keeps the types.                                             *)
LEMMA TypeInvNext == TypeInv /\ [Next]_vars => TypeInv'
<1> SUFFICES ASSUME TypeInv, [Next]_vars PROVE TypeInv'
  OBVIOUS
<1>1. ASSUME NEW h \in Handlers, Request(h) PROVE TypeInv'
  BY <1>1, RequestTypeInv
<1>2. ASSUME NEW h \in Handlers, HandlerStep(h) \/ EnqueueRaises(h) \/ HandlerFails(h)
      PROVE  TypeInv'
  BY <1>2, HandlerTypeOK, HandlerLocated, HandlerVerdict DEF TypeInv
<1>3. ASSUME NEW r \in Runs, ExecStep(r) \/ StageEnds(r) \/ Environment(r)
      PROVE  TypeInv'
  <2>1. Located'
    BY <1>3, ExecFrame DEF TypeInv, Located
  <2>2. QED
    BY <1>3, <2>1, ExecTypeOK, ExecVerdict DEF TypeInv
<1>4. ASSUME NEW k \in Keys, KeyExpires(k) PROVE TypeInv'
  <2>1. TypeOK'
    BY <1>4, ConstantRecords DEF KeyExpires, TypeInv, TypeOK
  <2>2. QED
    BY <1>4, <2>1 DEF KeyExpires, TypeInv, Located, HasVerdict
<1>5. CASE UNCHANGED vars
  <2>1. TypeOK'
    BY <1>5 DEF vars, TypeInv, TypeOK
  <2>2. QED
    BY <1>5, <2>1 DEF vars, TypeInv, Located, HasVerdict
<1>6. QED
  BY <1>1, <1>2, <1>3, <1>4, <1>5 DEF Next

(* Every state is of the right type.                                       *)
THEOREM TypeInvHolds == Spec => []TypeInv
  BY TypeInvInit, TypeInvNext, PTL DEF Spec

(* The variables have their types in every reachable state.                *)
THEOREM TypeCorrect == Spec => []TypeOK
<1>1. TypeInv => TypeOK
  BY DEF TypeInv
<1>2. QED
  BY <1>1, TypeInvHolds, PTL

-----------------------------------------------------------------------------
(* The inductive invariant.                                                *)

(* The outcome is decided exactly while the run is not active; the key may *)
(* have expired in either case.                                            *)
Decided ==
    \A r \in Runs :
        /\ run[r].status \in Terminal => outcome[r] = run[r].status
        /\ run[r].status \in Active => outcome[r] = "none"

(* What a later write carries over from an earlier read has no review.     *)
CleanReads ==
    /\ \A h \in Handlers :
         handler[h].pc \in {"enq_cas", "can_cas", "to_cas"} => handler[h].seen.review = "none"
    /\ \A r \in Runs : exec[r].base.review = "none"

(* An acknowledgement holds the outcome of its run, however stale the rest *)
(* of what it read may be.                                                 *)
AckKnowsOutcome ==
    \A h \in Handlers :
        handler[h].pc = "ack_write"
          => /\ handler[h].seen.status \in {"completed", "failed"}
             /\ outcome[handler[h].run] = handler[h].seen.status

(* A run id that was not proposed, or is about to be saved, was never used; *)
(* only one request is about to save it.                                   *)
Fresh ==
    \A r \in Runs :
        payload[r] = None => run[r].status = "absent" /\ outcome[r] = "none"

Saving ==
    \A h \in Handlers :
        handler[h].pc = "save"
          => /\ payload[handler[h].run] # None
             /\ run[handler[h].run].status = "absent"
             /\ outcome[handler[h].run] = "none"
             /\ \A g \in Handlers :
                  g # h /\ handler[g].pc = "save" => handler[g].run # handler[h].run

RunInv == /\ Decided
          /\ ReviewNeedsOutcome
          /\ CleanReads
          /\ AckKnowsOutcome
          /\ Fresh
          /\ Saving

(* The terminal event a writer still has to append, or "none".             *)
HandlerDue(h) ==
    CASE handler[h].pc = "log_eqf" -> "failed"
      [] handler[h].pc = "log_can" -> "cancelled"
      [] handler[h].pc = "log_to"  -> "timed_out"
      [] OTHER -> "none"

ExecDue(r) ==
    CASE exec[r].pc = "log_completed" -> "completed"
      [] exec[r].pc = "log_failed" -> "failed"
      [] exec[r].pc = "log_cb" -> exec[r].verdict
      [] OTHER -> "none"

Unlogged(r) == \A i \in DOMAIN log[r] : log[r][i] \notin Terminal

(* Whoever still has to append a terminal event won the transition.        *)
DueIsDecided ==
    /\ \A h \in Handlers :
         HandlerDue(h) # "none"
           => outcome[handler[h].run] = HandlerDue(h) /\ Unlogged(handler[h].run)
    /\ \A r \in Runs :
         ExecDue(r) # "none" => outcome[r] = ExecDue(r) /\ Unlogged(r)

(* At most one writer has to.                                              *)
OneDue ==
    /\ \A g, h \in Handlers :
         HandlerDue(g) # "none" /\ HandlerDue(h) # "none" /\ g # h
           => handler[g].run # handler[h].run
    /\ \A h \in Handlers :
         HandlerDue(h) # "none" => ExecDue(handler[h].run) = "none"

UndecidedIsUnlogged == \A r \in Runs : outcome[r] = "none" => Unlogged(r)

LogInv == DueIsDecided /\ OneDue /\ UndecidedIsUnlogged /\ OneTerminalEvent

(* How the record of one run may change in a step.                         *)
Submits(r) ==
    /\ run[r].status = "absent" /\ outcome[r] = "none"
    /\ run'[r].status = "queued" /\ run'[r].review = "none"
    /\ outcome'[r] = "none"
    /\ \E g \in Handlers : /\ handler[g].pc = "save" /\ handler[g].run = r
                           /\ handler'[g].pc # "save"

Proceeds(r) ==
    /\ run[r].status = "queued"
    /\ run'[r].status \in Active /\ run'[r].review = "none"
    /\ outcome'[r] = outcome[r]

Settles(r) ==
    /\ run[r].status \in Active
    /\ run'[r].status \in Terminal
    /\ run'[r].status = "completed" => run[r].status = "running"
    /\ run'[r].review # "none" => run'[r].status \in {"completed", "failed"}
    /\ outcome'[r] = run'[r].status

Vanishes(r) ==
    /\ run[r].status # "absent"
    /\ run'[r] = Absent
    /\ outcome'[r] = outcome[r]

IsAcknowledged(r) ==
    /\ outcome[r] = "completed"
    /\ run'[r].status = "completed" /\ run'[r].review = "acknowledged"
    /\ outcome'[r] = outcome[r]

RunMoves(r) ==
    Submits(r) \/ Proceeds(r) \/ Settles(r) \/ Vanishes(r) \/ IsAcknowledged(r)

OneRunMoves ==
    \/ run' = run /\ outcome' = outcome
    \/ \E r \in Runs :
         /\ \A q \in Runs : q # r => run'[q] = run[q] /\ outcome'[q] = outcome[q]
         /\ RunMoves(r)

(* A handler moves at most the run it works on.                            *)
LEMMA HandlerMovesOne ==
    ASSUME TypeInv, RunInv, NEW h \in Handlers,
           HandlerStep(h) \/ EnqueueRaises(h) \/ HandlerFails(h)
    PROVE  OneRunMoves
<1>0. TypeOK /\ Located 
        /\ (handler[h].pc \notin {"idle", "replay_read"} => handler[h].run \in Runs)
  BY DEF TypeInv, Located
<1>1. CASE ReplayRead(h)
  BY <1>1 DEF ReplayRead, OneRunMoves
<1>2. CASE Replay(h)
  BY <1>2 DEF Replay, OneRunMoves
<1>3. CASE Save(h)
  <2>0. handler[h].run \in Runs
    BY <1>0, <1>3 DEF Save
  <2>1. Write(handler[h].run, Absent, "queued")
    BY <1>0, <1>3 DEF Save
  <2>2. handler'[h].pc # "save" /\ run[handler[h].run].status = "absent" /\ outcome[handler[h].run] = "none"
    BY <1>0, <1>3, GotoEffect DEF Save, RunInv, Saving, HandlerPCs
  <2>3. Submits(handler[h].run)
    BY <1>0, <1>3, <2>0, <2>1, <2>2, WriteEffect, ConstantRecords
       DEF Save, Submits, Status, Active, Terminal, Absent
  <2>4. QED
    BY <1>0, <2>0, <2>1, <2>3, WriteEffect, ConstantRecords
       DEF OneRunMoves, RunMoves, Status, Active
<1>4. CASE LogCreated(h)
  BY <1>4 DEF LogCreated, OneRunMoves
<1>5. CASE EnqRead(h)
  BY <1>5 DEF EnqRead, OneRunMoves
<1>6. CASE EnqCas(h)
  <2>0. handler[h].run \in Runs
    BY <1>0, <1>6 DEF EnqCas
  <2>1. CASE Wins(handler[h].run, {"queued"})
    <3>1. Write(handler[h].run, WithJob(handler[h].seen), "queued")
      BY <1>0, <1>6, <2>1 DEF EnqCas
    <3>2. WithJob(handler[h].seen) \in RunRecord
      BY <1>0, HandlerFields, WithJobType DEF TypeOK
    <3>3. WithJob(handler[h].seen).review = "none"
      <4>1. handler[h].seen.review = "none"
        BY <1>6 DEF EnqCas, RunInv, CleanReads
      <4>2. handler[h].seen \in RunRecord
        BY <1>0, HandlerFields DEF TypeOK
      <4>3. QED
        BY <4>1, <4>2, WithJobType
    <3>4. Proceeds(handler[h].run)
      BY <1>0, <3>3, <1>6, <2>0, <2>1, <3>1, <3>2, WriteEffect
         DEF Wins, Proceeds, Status, Active, Terminal
    <3>5. QED
      BY <1>0, <2>0, <3>1, <3>2, <3>4, WriteEffect
         DEF OneRunMoves, RunMoves, Status, Active, Terminal
  <2>2. CASE ~Wins(handler[h].run, {"queued"})
    BY <1>0, <1>6, <2>2 DEF EnqCas, OneRunMoves
  <2>3. QED
    BY <1>0, <2>1, <2>2
<1>7. CASE LogEnqueued(h)
  BY <1>7 DEF LogEnqueued, OneRunMoves
<1>8. CASE Enqueue(h)
  BY <1>8 DEF Enqueue, OneRunMoves
<1>9. CASE EqfRead(h)
  BY <1>9 DEF EqfRead, OneRunMoves
<1>10. CASE EqfCas(h)
  <2>0. handler[h].run \in Runs
    BY <1>0, <1>10 DEF EqfCas
  <2>1. CASE Wins(handler[h].run, {"queued"})
    <3>1. Write(handler[h].run, handler[h].seen, "failed")
      BY <1>0, <1>10, <2>1 DEF EqfCas
    <3>2. handler[h].seen \in RunRecord
      BY <1>0, HandlerFields DEF TypeOK
    <3>4. Settles(handler[h].run)
      BY <1>0, <1>10, <2>0, <2>1, <3>1, <3>2, WriteEffect
         DEF Wins, Settles, Status, Active, Terminal
    <3>5. QED
      BY <1>0, <2>0, <3>1, <3>2, <3>4, WriteEffect
         DEF OneRunMoves, RunMoves, Status, Active, Terminal
  <2>2. CASE ~Wins(handler[h].run, {"queued"})
    BY <1>0, <1>10, <2>2 DEF EqfCas, OneRunMoves
  <2>3. QED
    BY <1>0, <2>1, <2>2
<1>11. CASE LogEqf(h)
  BY <1>11 DEF LogEqf, OneRunMoves
<1>12. CASE CancelRead(h)
  BY <1>12 DEF CancelRead, OneRunMoves
<1>13. CASE CancelCas(h)
  <2>0. handler[h].run \in Runs
    BY <1>0, <1>13 DEF CancelCas
  <2>1. CASE Wins(handler[h].run, Active)
    <3>1. Write(handler[h].run, handler[h].seen, "cancelled")
      BY <1>0, <1>13, <2>1 DEF CancelCas
    <3>2. handler[h].seen \in RunRecord
      BY <1>0, HandlerFields DEF TypeOK
    <3>3. handler[h].seen.review = "none"
      BY <1>0, <1>13 DEF CancelCas, RunInv, CleanReads
    <3>4. Settles(handler[h].run)
      BY <1>0, <3>3, <1>13, <2>0, <2>1, <3>1, <3>2, WriteEffect
         DEF Wins, Settles, Status, Active, Terminal
    <3>5. QED
      BY <1>0, <2>0, <3>1, <3>2, <3>4, WriteEffect
         DEF OneRunMoves, RunMoves, Status, Active, Terminal
  <2>2. CASE ~Wins(handler[h].run, Active)
    BY <1>0, <1>13, <2>2 DEF CancelCas, OneRunMoves
  <2>3. QED
    BY <1>0, <2>1, <2>2
<1>14. CASE LogCancelled(h)
  BY <1>14 DEF LogCancelled, OneRunMoves
<1>15. CASE CancelJob(h)
  BY <1>15 DEF CancelJob, OneRunMoves
<1>16. CASE TimedOutRead(h)
  BY <1>16 DEF TimedOutRead, OneRunMoves
<1>17. CASE TimedOutCas(h)
  <2>0. handler[h].run \in Runs
    BY <1>0, <1>17 DEF TimedOutCas
  <2>1. CASE Wins(handler[h].run, Active)
    <3>1. Write(handler[h].run, handler[h].seen, "timed_out")
      BY <1>0, <1>17, <2>1 DEF TimedOutCas
    <3>2. handler[h].seen \in RunRecord
      BY <1>0, HandlerFields DEF TypeOK
    <3>3. handler[h].seen.review = "none"
      BY <1>0, <1>17 DEF TimedOutCas, RunInv, CleanReads
    <3>4. Settles(handler[h].run)
      BY <1>0, <3>3, <1>17, <2>0, <2>1, <3>1, <3>2, WriteEffect
         DEF Wins, Settles, Status, Active, Terminal
    <3>5. QED
      BY <1>0, <2>0, <3>1, <3>2, <3>4, WriteEffect
         DEF OneRunMoves, RunMoves, Status, Active, Terminal
  <2>2. CASE ~Wins(handler[h].run, Active)
    BY <1>0, <1>17, <2>2 DEF TimedOutCas, OneRunMoves
  <2>3. QED
    BY <1>0, <2>1, <2>2
<1>18. CASE LogTimedOut(h)
  BY <1>18 DEF LogTimedOut, OneRunMoves
<1>19. CASE AckWrite(h)
  <2>1. handler[h].seen.status \in {"completed", "failed"} /\ outcome[handler[h].run] = handler[h].seen.status
    BY <1>0, <1>19 DEF AckWrite, RunInv, AckKnowsOutcome
  <2>2. CASE run' = run
    BY <1>0, <1>19, <2>2 DEF AckWrite, OneRunMoves
  <2>3. CASE run' # run
    <3>1. IsAcknowledged(handler[h].run)
      BY <1>0, <1>19, <2>1, <2>3, AckWriteEffect DEF AckWrite, IsAcknowledged
    <3>2. QED
      BY <1>0, <1>19, <3>1, AckWriteEffect DEF AckWrite, OneRunMoves, RunMoves
  <2>4. QED
    BY <1>0, <2>2, <2>3
<1>20. CASE LogAck(h)
  BY <1>20 DEF LogAck, OneRunMoves
<1>21. CASE EnqueueRaises(h)
  BY <1>21 DEF EnqueueRaises, OneRunMoves
<1>22. CASE HandlerFails(h)
  BY <1>22 DEF HandlerFails, OneRunMoves
<1> QED
  BY <1>1, <1>2, <1>3, <1>4, <1>5, <1>6, <1>7, <1>8, <1>9, <1>10, <1>11, <1>12,
     <1>13, <1>14, <1>15, <1>16, <1>17, <1>18, <1>19, <1>20, <1>21, <1>22
     DEF HandlerStep

(* An executor moves at most its own run.                                  *)
LEMMA ExecMovesOne ==
    ASSUME TypeInv, RunInv, NEW r \in Runs,
           ExecStep(r) \/ StageEnds(r) \/ Environment(r)
    PROVE  OneRunMoves
<1>0. TypeOK /\ HasVerdict
  BY DEF TypeInv
<1>1. CASE ExecRead(r)
  BY <1>1 DEF ExecRead, OneRunMoves
<1>2. CASE ExecClaim(r)
  <2>1. CASE Wins(r, {"queued"})
    <3>1. Write(r, exec[r].base, "running")
      BY <1>0, <1>2, <2>1 DEF ExecClaim
    <3>2. exec[r].base \in RunRecord
      BY <1>0, ExecFields DEF TypeOK
    <3>3. Proceeds(r)
      BY <1>0, <1>2, <2>1, <3>1, <3>2, WriteEffect
         DEF ExecClaim, RunInv, CleanReads, HasVerdict, Wins, Proceeds, Status,
             Active, Terminal, Callback
    <3>4. QED
      BY <1>0, <1>2, <3>1, <3>2, <3>3, WriteEffect
         DEF ExecClaim, HasVerdict, Callback, OneRunMoves, RunMoves, Status,
             Active, Terminal
  <2>2. CASE ~Wins(r, {"queued"})
    BY <1>0, <1>2, <2>2 DEF ExecClaim, OneRunMoves
  <2>3. QED
    BY <1>0, <2>1, <2>2
<1>3. CASE LogStarted(r)
  BY <1>3 DEF LogStarted, OneRunMoves
<1>4. CASE ExecCheck(r)
  BY <1>4 DEF ExecCheck, OneRunMoves
<1>5. CASE Publish(r)
  <2>1. CASE Wins(r, {"running"})
    <3>1. Write(r, WithReport(exec[r].base, exec[r].review, exec[r].report), "completed")
      BY <1>0, <1>5, <2>1 DEF Publish
    <3>2. WithReport(exec[r].base, exec[r].review, exec[r].report) \in RunRecord
      BY <1>0, ExecFields, WithReportType DEF TypeOK
    <3>3. Settles(r)
      BY <1>0, <1>5, <2>1, <3>1, <3>2, WriteEffect, WithReportType
         DEF Publish, RunInv, CleanReads, HasVerdict, Wins, Settles, Status,
             Active, Terminal, Callback
    <3>4. QED
      BY <1>0, <1>5, <3>1, <3>2, <3>3, WriteEffect
         DEF Publish, HasVerdict, Callback, OneRunMoves, RunMoves, Status, Active,
             Terminal
  <2>2. CASE ~Wins(r, {"running"})
    BY <1>0, <1>5, <2>2 DEF Publish, OneRunMoves
  <2>3. QED
    BY <1>0, <2>1, <2>2
<1>6. CASE LogCompleted(r)
  BY <1>6 DEF LogCompleted, OneRunMoves
<1>7. CASE Fail(r)
  <2>1. CASE Wins(r, {"running"})
    <3>1. Write(r, WithReview(exec[r].base, exec[r].review), "failed")
      BY <1>0, <1>7, <2>1 DEF Fail
    <3>2. WithReview(exec[r].base, exec[r].review) \in RunRecord
      BY <1>0, ExecFields, WithReviewType DEF TypeOK
    <3>3. Settles(r)
      BY <1>0, <1>7, <2>1, <3>1, <3>2, WriteEffect, WithReviewType
         DEF Fail, RunInv, CleanReads, HasVerdict, Wins, Settles, Status, Active,
             Terminal, Callback
    <3>4. QED
      BY <1>0, <1>7, <3>1, <3>2, <3>3, WriteEffect
         DEF Fail, HasVerdict, Callback, OneRunMoves, RunMoves, Status, Active,
             Terminal
  <2>2. CASE ~Wins(r, {"running"})
    BY <1>0, <1>7, <2>2 DEF Fail, OneRunMoves
  <2>3. QED
    BY <1>0, <2>1, <2>2
<1>8. CASE LogFailed(r)
  BY <1>8 DEF LogFailed, OneRunMoves
<1>9. CASE CallbackRead(r)
  BY <1>9 DEF CallbackRead, OneRunMoves
<1>10. CASE CallbackCas(r)
  <2>1. CASE Wins(r, Active)
    <3>1. Write(r, exec[r].base, exec[r].verdict)
      BY <1>0, <1>10, <2>1 DEF CallbackCas
    <3>2. exec[r].base \in RunRecord
      BY <1>0, ExecFields DEF TypeOK
    <3>3. Settles(r)
      BY <1>0, <1>10, <2>1, <3>1, <3>2, WriteEffect
         DEF CallbackCas, RunInv, CleanReads, HasVerdict, Wins, Settles, Status,
             Active, Terminal, Callback
    <3>4. QED
      BY <1>0, <1>10, <3>1, <3>2, <3>3, WriteEffect
         DEF CallbackCas, HasVerdict, Callback, OneRunMoves, RunMoves, Status,
             Active, Terminal
  <2>2. CASE ~Wins(r, Active)
    BY <1>0, <1>10, <2>2 DEF CallbackCas, OneRunMoves
  <2>3. QED
    BY <1>0, <2>1, <2>2
<1>11. CASE LogCallback(r)
  BY <1>11 DEF LogCallback, OneRunMoves
<1>12. CASE WorkflowEnds(r)
  BY <1>12 DEF WorkflowEnds, OneRunMoves
<1>13. CASE ReviewEnds(r)
  BY <1>13 DEF ReviewEnds, OneRunMoves
<1>14. CASE ExplainEnds(r)
  BY <1>14 DEF ExplainEnds, OneRunMoves
<1>15. CASE ReportEnds(r)
  BY <1>15 DEF ReportEnds, OneRunMoves
<1>16. CASE JobStarts(r)
  BY <1>16 DEF JobStarts, OneRunMoves
<1>17. CASE AlarmFires(r)
  BY <1>17 DEF AlarmFires, OneRunMoves
<1>18. CASE HorseKilled(r)
  BY <1>18 DEF HorseKilled, OneRunMoves
<1>19. CASE GracePasses(r)
  BY <1>19 DEF GracePasses, OneRunMoves
<1>20. CASE ExecRaises(r)
  BY <1>20 DEF ExecRaises, OneRunMoves
<1>21. CASE HorseDies(r)
  BY <1>21 DEF HorseDies, OneRunMoves
<1>22. CASE RunExpires(r)
  <2>1. Vanishes(r)
    BY <1>0, <1>22 DEF RunExpires, Vanishes, TypeOK
  <2>2. QED
    BY <1>0, <1>22, <2>1 DEF RunExpires, OneRunMoves, RunMoves, TypeOK
<1> QED
  BY <1>1, <1>2, <1>3, <1>4, <1>5, <1>6, <1>7, <1>8, <1>9, <1>10, <1>11, <1>12,
     <1>13, <1>14, <1>15, <1>16, <1>17, <1>18, <1>19, <1>20, <1>21, <1>22
     DEF ExecStep, StageEnds, Environment

(* Every step moves at most one run, in one of these ways.                 *)
LEMMA NextMovesOne ==
    ASSUME TypeInv, RunInv, [Next]_vars
    PROVE  OneRunMoves
<1>1. ASSUME NEW h \in Handlers, Request(h) PROVE OneRunMoves
  BY <1>1
     DEF Request, CreateRun, KeyTaken, CancelRun, GetRun, Acknowledge, OneRunMoves
<1>2. ASSUME NEW h \in Handlers, HandlerStep(h) \/ EnqueueRaises(h) \/ HandlerFails(h)
      PROVE  OneRunMoves
  BY <1>2, HandlerMovesOne
<1>3. ASSUME NEW r \in Runs, ExecStep(r) \/ StageEnds(r) \/ Environment(r)
      PROVE  OneRunMoves
  BY <1>3, ExecMovesOne
<1>4. ASSUME NEW k \in Keys, KeyExpires(k) PROVE OneRunMoves
  BY <1>4 DEF KeyExpires, OneRunMoves
<1>5. CASE UNCHANGED vars
  BY <1>5 DEF vars, OneRunMoves
<1>6. QED
  BY <1>1, <1>2, <1>3, <1>4, <1>5 DEF Next

(* Such a move keeps what the outcome and the review say of the status.    *)
LEMMA MovesKeepDecided ==
    ASSUME TypeInv, Decided, ReviewNeedsOutcome, OneRunMoves
    PROVE  Decided' /\ ReviewNeedsOutcome'
<1> SUFFICES ASSUME NEW q \in Runs
             PROVE  /\ run'[q].status \in Terminal => outcome'[q] = run'[q].status
                    /\ run'[q].status \in Active => outcome'[q] = "none"
                    /\ run'[q].review # "none" => run'[q].status \in {"completed", "failed"}
  BY DEF Decided, ReviewNeedsOutcome
<1>1. /\ run[q].status \in Terminal => outcome[q] = run[q].status
      /\ run[q].status \in Active => outcome[q] = "none"
      /\ run[q].review # "none" => run[q].status \in {"completed", "failed"}
  BY DEF Decided, ReviewNeedsOutcome
<1>2. CASE run'[q] = run[q] /\ outcome'[q] = outcome[q]
  BY <1>1, <1>2
<1>3. CASE RunMoves(q)
  BY <1>1, <1>3 DEF RunMoves, Submits, Proceeds, Settles, Vanishes, IsAcknowledged,
                    Terminal, Active, Absent
<1>4. QED
  BY <1>2, <1>3 DEF OneRunMoves

(* A decided outcome is decided for good.                                  *)
LEMMA OutcomeIsFinal ==
    ASSUME Decided, OneRunMoves, NEW q \in Runs, outcome[q] # "none"
    PROVE  outcome'[q] = outcome[q]
<1>1. CASE RunMoves(q)
  BY <1>1
     DEF Decided, RunMoves, Submits, Proceeds, Settles, Vanishes, IsAcknowledged
<1>2. QED
  BY <1>1 DEF OneRunMoves

(* What a step of a handler leaves alone.                                  *)
LEMMA HandlerFrame ==
    ASSUME TypeInv, NEW h \in Handlers,
           HandlerStep(h) \/ EnqueueRaises(h) \/ HandlerFails(h)
    PROVE  /\ payload' = payload
           /\ \A g \in Handlers : g # h => handler'[g] = handler[g]
           /\ handler'[h].pc \notin {"save", "ack_write"}
<1>0. TypeOK /\ Located
  BY DEF TypeInv
<1> USE <1>0 DEF Located
<1>1. CASE ReplayRead(h)
  BY <1>1, ReplayReadEffect, ReturnEffect DEF ReplayRead, HandlerPCs
<1>2. CASE Replay(h)
  BY <1>2, ReturnEffect DEF Replay
<1>3. CASE Save(h)
  BY <1>3, GotoEffect, ConstantRecords DEF Save, HandlerPCs
<1>4. CASE LogCreated(h)
  BY <1>4, GotoEffect, ReturnEffect DEF LogCreated, HandlerPCs
<1>5. CASE EnqRead(h)
  BY <1>5, ReadThenEffect, ReturnEffect DEF EnqRead, HandlerPCs
<1>6. CASE EnqCas(h)
  BY <1>6, GotoEffect, ReturnEffect DEF EnqCas, HandlerPCs
<1>7. CASE LogEnqueued(h)
  BY <1>7, GotoEffect DEF LogEnqueued, HandlerPCs
<1>8. CASE Enqueue(h)
  BY <1>8, ReturnEffect DEF Enqueue
<1>9. CASE EqfRead(h)
  BY <1>9, ReturnEffect, ReadThenEffect DEF EqfRead, HandlerPCs
<1>10. CASE EqfCas(h)
  BY <1>10, GotoEffect, ReturnEffect DEF EqfCas, HandlerPCs
<1>11. CASE LogEqf(h)
  BY <1>11, ReturnEffect DEF LogEqf
<1>12. CASE CancelRead(h)
  BY <1>12, ReadThenEffect, ReturnEffect DEF CancelRead, HandlerPCs
<1>13. CASE CancelCas(h)
  BY <1>13, GotoEffect, ReturnEffect DEF CancelCas, HandlerPCs
<1>14. CASE LogCancelled(h)
  BY <1>14, GotoEffect, ReturnEffect DEF LogCancelled, HandlerPCs
<1>15. CASE CancelJob(h)
  BY <1>15, CancelJobEffect, ReturnEffect DEF CancelJob
<1>16. CASE TimedOutRead(h)
  BY <1>16, ReadThenEffect, ReturnEffect DEF TimedOutRead, HandlerPCs
<1>17. CASE TimedOutCas(h)
  BY <1>17, GotoEffect, ReturnEffect DEF TimedOutCas, HandlerPCs
<1>18. CASE LogTimedOut(h)
  BY <1>18, ReturnEffect DEF LogTimedOut
<1>19. CASE AckWrite(h)
  BY <1>19, AckWriteEffect, GotoEffect, ReturnEffect DEF AckWrite, HandlerPCs
<1>20. CASE LogAck(h)
  BY <1>20, ReturnEffect DEF LogAck
<1>21. CASE EnqueueRaises(h)
  BY <1>21, GotoEffect DEF EnqueueRaises, HandlerPCs
<1>22. CASE HandlerFails(h)
  BY <1>22, ReturnEffect DEF HandlerFails
<1> QED
  BY <1>1, <1>2, <1>3, <1>4, <1>5, <1>6, <1>7, <1>8, <1>9, <1>10, <1>11, <1>12,
     <1>13, <1>14, <1>15, <1>16, <1>17, <1>18, <1>19, <1>20, <1>21, <1>22
     DEF HandlerStep

(* The handlers and payloads of any step: a handler is unchanged, has gone *)
(* on from a request it already had, or takes a new one.                   *)
Begins(h) ==
    \/ \E c \in Commands, k \in Keys \cup {None}, r \in Runs : CreateRun(h, c, k, r)
    \/ \E r \in Runs, n \in Notes \cup {None} : Acknowledge(h, r, n)

(* A handler about to save or to acknowledge has just begun, or waits.     *)
LEMMA NextFrame ==
    ASSUME TypeInv, [Next]_vars, NEW g \in Handlers,
           handler'[g].pc \in {"save", "ack_write"}
    PROVE  handler'[g] = handler[g] \/ Begins(g)
<1>1. ASSUME NEW h \in Handlers, Request(h) PROVE handler'[g] = handler[g] \/ Begins(g)
  <2>0. TypeOK
    BY DEF TypeInv
  <2>1. CASE g = h
    BY <1>1, <2>0, <2>1, KeyTakenEffect, CancelRunEffect, GetRunEffect
       DEF Request, Begins
  <2>2. CASE g # h
    BY <1>1, <2>0, <2>2, CreateRunEffect, KeyTakenEffect, CancelRunEffect,
       GetRunEffect, AcknowledgeEffect
       DEF Request
  <2>3. QED
    BY <2>1, <2>2
<1>2. ASSUME NEW h \in Handlers, HandlerStep(h) \/ EnqueueRaises(h) \/ HandlerFails(h)
      PROVE  handler'[g] = handler[g] \/ Begins(g)
  BY <1>2, HandlerFrame
<1>3. ASSUME NEW r \in Runs, ExecStep(r) \/ StageEnds(r) \/ Environment(r)
      PROVE  handler'[g] = handler[g] \/ Begins(g)
  BY <1>3, ExecFrame
<1>4. ASSUME NEW k \in Keys, KeyExpires(k) PROVE handler'[g] = handler[g]
  BY <1>4 DEF KeyExpires
<1>5. CASE UNCHANGED vars
  BY <1>5 DEF vars
<1>6. QED
  BY <1>1, <1>2, <1>3, <1>4, <1>5 DEF Next

(* An acknowledgement knows the outcome from its read on.                  *)
LEMMA AckKnowsOutcomeNext ==
    ASSUME TypeInv, RunInv, [Next]_vars
    PROVE  AckKnowsOutcome'
<1> SUFFICES ASSUME NEW g \in Handlers, handler'[g].pc = "ack_write"
             PROVE  /\ handler'[g].seen.status \in {"completed", "failed"}
                    /\ outcome'[handler'[g].run] = handler'[g].seen.status
  BY DEF AckKnowsOutcome
<1>0. TypeOK /\ Located /\ Decided /\ ReviewNeedsOutcome /\ OneRunMoves
  BY NextMovesOne DEF TypeInv, RunInv
<1>1. CASE handler'[g] = handler[g]
  <2>1. /\ handler[g].seen.status \in {"completed", "failed"}
        /\ outcome[handler[g].run] = handler[g].seen.status
        /\ handler[g].run \in Runs
    BY <1>0, <1>1 DEF RunInv, AckKnowsOutcome, Located
  <2>2. QED
    BY <1>0, <1>1, <2>1, OutcomeIsFinal
<1>2. CASE Begins(g)
  <2>1. PICK r \in Runs, n \in Notes \cup {None} : Acknowledge(g, r, n)
    BY <1>0, <1>2, CreateRunEffect DEF Begins
  <2>2. handler'[g].run = r /\ handler'[g].seen = run[r] /\ outcome' = outcome
    BY <1>0, <2>1, AcknowledgeEffect DEF Acknowledge
  <2>3. run[r].review # "none"
    BY <2>1 DEF Acknowledge
  <2>4. QED
    BY <1>0, <2>2, <2>3 DEF ReviewNeedsOutcome, Decided, Terminal
<1>3. QED
  BY <1>1, <1>2, NextFrame

(* Only a creation proposes a run id.                                      *)
LEMMA PayloadFrame ==
    ASSUME [Next]_vars
    PROVE  \/ payload' = payload
           \/ \E h \in Handlers, c \in Commands, k \in Keys \cup {None}, r \in Runs :
                CreateRun(h, c, k, r)
<1>1. ASSUME NEW h \in Handlers, HandlerStep(h) \/ EnqueueRaises(h) \/ HandlerFails(h)
      PROVE  payload' = payload
  BY <1>1
     DEF HandlerStep, ReplayRead, Replay, Save, LogCreated, EnqRead, EnqCas,
         LogEnqueued, Enqueue, EqfRead, EqfCas, LogEqf, CancelRead, CancelCas,
         LogCancelled, CancelJob, TimedOutRead, TimedOutCas, LogTimedOut,
         AckWrite, LogAck, EnqueueRaises, HandlerFails
<1>2. ASSUME NEW r \in Runs, ExecStep(r) \/ StageEnds(r) \/ Environment(r)
      PROVE  payload' = payload
  BY <1>2, ExecFrame
<1>3. ASSUME NEW h \in Handlers, Request(h)
      PROVE  \/ payload' = payload
             \/ \E c \in Commands, k \in Keys \cup {None}, r \in Runs : CreateRun(h, c, k, r)
  BY <1>3 DEF Request, KeyTaken, CancelRun, GetRun, Acknowledge
<1>4. QED
  BY <1>1, <1>2, <1>3 DEF Next, vars, KeyExpires

(* A run id is fresh until a creation proposes it, and its record absent   *)
(* until that creation saves it.                                           *)
LEMMA FreshNext ==
    ASSUME TypeInv, RunInv, [Next]_vars
    PROVE  Fresh'
<1> SUFFICES ASSUME NEW q \in Runs, payload'[q] = None
             PROVE  run'[q].status = "absent" /\ outcome'[q] = "none"
  BY DEF Fresh
<1>1. payload[q] = None
  <2>1. ASSUME NEW h \in Handlers, NEW c \in Commands, NEW k \in Keys \cup {None},
               NEW r \in Runs, CreateRun(h, c, k, r)
        PROVE  payload[q] = None
    BY <2>1, ConstantsAssumption DEF CreateRun, TypeInv, TypeOK
  <2>2. QED
    BY <2>1, PayloadFrame
<1>2. run[q].status = "absent" /\ outcome[q] = "none"
  BY <1>1 DEF RunInv, Fresh
<1>3. ~RunMoves(q)
  BY <1>1, <1>2 DEF RunInv, Saving, RunMoves, Submits, Proceeds, Settles, Vanishes,
                    IsAcknowledged, Active
<1>4. QED
  BY <1>2, <1>3, NextMovesOne DEF OneRunMoves

(* What is about to be saved stays unused until it is.                     *)
LEMMA SavingNext ==
    ASSUME TypeInv, RunInv, [Next]_vars
    PROVE  Saving'
<1>0. TypeOK /\ Saving /\ OneRunMoves
  BY NextMovesOne DEF TypeInv, RunInv
<1> SUFFICES ASSUME NEW h \in Handlers, handler'[h].pc = "save"
             PROVE  /\ payload'[handler'[h].run] # None
                    /\ run'[handler'[h].run].status = "absent"
                    /\ outcome'[handler'[h].run] = "none"
                    /\ \A g \in Handlers :
                         g # h /\ handler'[g].pc = "save"
                           => handler'[g].run # handler'[h].run
  BY DEF Saving
<1>1. ASSUME NEW g \in Handlers, NEW c \in Commands, NEW k \in Keys \cup {None},
             NEW r \in Runs, CreateRun(g, c, k, r)
      PROVE  Saving'
  <2>1. /\ handler'[g].run = r /\ \A f \in Handlers : f # g => handler'[f] = handler[f]
        /\ run' = run /\ outcome' = outcome /\ payload[r] = None
        /\ payload' = [payload EXCEPT ![r] = c]
    BY <1>0, <1>1, CreateRunEffect DEF CreateRun
  <2>2. run[r].status = "absent" /\ outcome[r] = "none"
    BY <2>1 DEF RunInv, Fresh
  <2>3. c # None
    BY ConstantsAssumption
  <2>4. payload'[r] # None /\ \A q \in Runs : payload[q] # None => payload'[q] # None
    BY <1>0, <2>1, <2>3 DEF TypeOK
  <2>5. \A f \in Handlers : handler[f].pc = "save" => handler[f].run \in Runs
    BY DEF TypeInv, Located
  <2>6. QED
    BY <1>0, <2>1, <2>2, <2>4, <2>5 DEF Saving
<1>2. CASE payload' = payload
  <2>1. \A g \in Handlers : handler'[g].pc = "save" => handler'[g] = handler[g]
    <3>1. SUFFICES ASSUME NEW g \in Handlers, handler'[g].pc = "save", Begins(g)
                   PROVE  handler'[g] = handler[g]
      BY NextFrame
    <3>2. PICK c \in Commands, k \in Keys \cup {None}, r \in Runs : CreateRun(g, c, k, r)
      BY <1>0, <3>1, AcknowledgeEffect DEF Begins
    <3>3. payload[r] = None /\ payload'[r] = c
      BY <1>0, <3>2 DEF CreateRun, TypeOK
    <3>4. QED
      BY <1>2, <3>3, ConstantsAssumption
  <2>2. handler[h].pc = "save" /\ handler'[h].run = handler[h].run /\ handler[h].run \in Runs
    BY <2>1 DEF TypeInv, Located
  <2>3. ~RunMoves(handler[h].run)
    <3>1. run[handler[h].run].status = "absent" /\ outcome[handler[h].run] = "none"
      BY <1>0, <2>2 DEF Saving
    <3>2. ~Submits(handler[h].run)
      BY <1>0, <2>1, <2>2 DEF Saving, Submits
    <3>3. QED
      BY <3>1, <3>2
         DEF RunMoves, Proceeds, Settles, Vanishes, IsAcknowledged, Active
  <2>4. run'[handler[h].run] = run[handler[h].run] /\ outcome'[handler[h].run] = outcome[handler[h].run]
    BY <1>0, <2>2, <2>3 DEF OneRunMoves
  <2>5. QED
    BY <1>0, <1>2, <2>1, <2>2, <2>4 DEF Saving
<1>3. CASE ~(payload' = payload)
  <2>1. Saving'
    BY <1>1, <1>3, PayloadFrame
  <2>2. QED
    BY <2>1 DEF Saving
<1>4. QED
  BY <1>2, <1>3

(* What a handler or an executor carries over has no review.               *)
LEMMA HandlerCleanReads ==
    ASSUME TypeInv, RunInv, NEW h \in Handlers,
           HandlerStep(h) \/ EnqueueRaises(h) \/ HandlerFails(h)
    PROVE  CleanReads'
<1>0. TypeOK /\ Located /\ CleanReads /\ ReviewNeedsOutcome
  BY DEF TypeInv, RunInv
<1> USE <1>0 DEF Located
<1>1. CASE ReplayRead(h)
  BY <1>1, ReplayReadEffect, ReturnEffect DEF ReplayRead, HandlerPCs, CleanReads
<1>2. CASE Replay(h)
  BY <1>2, ReturnEffect DEF Replay, CleanReads
<1>3. CASE Save(h)
  BY <1>3, GotoEffect DEF Save, HandlerPCs, CleanReads
<1>4. CASE LogCreated(h)
  <2>1. CASE Async
    BY <1>4, <2>1, GotoEffect DEF LogCreated, HandlerPCs, CleanReads
  <2>2. CASE ~Async
    BY <1>4, <2>2, ReturnEffect, ExecGotoEffect
       DEF LogCreated, CleanReads, Live, Unguarded
  <2>3. QED
    BY <2>1, <2>2
<1>5. CASE EnqRead(h)
  <2>1. exec' = exec /\ \A g \in Handlers : g # h => handler'[g] = handler[g]
    BY <1>5, ReadThenEffect, ReturnEffect DEF EnqRead, HandlerPCs
  <2>2. handler'[h].pc \in {"enq_cas", "can_cas", "to_cas"}
          => handler'[h].seen.review = "none"
    BY <1>5, ReadThenEffect, ReturnEffect
       DEF EnqRead, HandlerPCs, Wins, ReviewNeedsOutcome, Active
  <2>3. QED
    BY <2>1, <2>2 DEF CleanReads
<1>6. CASE EnqCas(h)
  BY <1>6, GotoEffect, ReturnEffect DEF EnqCas, HandlerPCs, CleanReads
<1>7. CASE LogEnqueued(h)
  BY <1>7, GotoEffect DEF LogEnqueued, HandlerPCs, CleanReads
<1>8. CASE Enqueue(h)
  BY <1>8, ReturnEffect DEF Enqueue, CleanReads
<1>9. CASE EqfRead(h)
  <2>1. exec' = exec /\ \A g \in Handlers : g # h => handler'[g] = handler[g]
    BY <1>9, ReadThenEffect, ReturnEffect DEF EqfRead, HandlerPCs
  <2>2. handler'[h].pc \in {"enq_cas", "can_cas", "to_cas"}
          => handler'[h].seen.review = "none"
    BY <1>9, ReadThenEffect, ReturnEffect
       DEF EqfRead, HandlerPCs, Wins, ReviewNeedsOutcome, Active
  <2>3. QED
    BY <2>1, <2>2 DEF CleanReads
<1>10. CASE EqfCas(h)
  BY <1>10, GotoEffect, ReturnEffect DEF EqfCas, HandlerPCs, CleanReads
<1>11. CASE LogEqf(h)
  BY <1>11, ReturnEffect DEF LogEqf, CleanReads
<1>12. CASE CancelRead(h)
  <2>1. exec' = exec /\ \A g \in Handlers : g # h => handler'[g] = handler[g]
    BY <1>12, ReadThenEffect, ReturnEffect DEF CancelRead, HandlerPCs
  <2>2. handler'[h].pc \in {"enq_cas", "can_cas", "to_cas"}
          => handler'[h].seen.review = "none"
    BY <1>12, ReadThenEffect, ReturnEffect
       DEF CancelRead, HandlerPCs, Wins, ReviewNeedsOutcome, Active
  <2>3. QED
    BY <2>1, <2>2 DEF CleanReads
<1>13. CASE CancelCas(h)
  BY <1>13, GotoEffect, ReturnEffect DEF CancelCas, HandlerPCs, CleanReads
<1>14. CASE LogCancelled(h)
  BY <1>14, GotoEffect, ReturnEffect DEF LogCancelled, HandlerPCs, CleanReads
<1>15. CASE CancelJob(h)
  <2>1. \A q \in Runs : exec'[q].base = exec[q].base
    BY <1>15, CancelJobEffect
  <2>2. /\ handler'[h].pc = "idle"
        /\ \A g \in Handlers : g # h => handler'[g] = handler[g]
    BY <1>15, ReturnEffect DEF CancelJob
  <2>3. QED
    BY <2>1, <2>2 DEF CleanReads
<1>16. CASE TimedOutRead(h)
  <2>1. exec' = exec /\ \A g \in Handlers : g # h => handler'[g] = handler[g]
    BY <1>16, ReadThenEffect, ReturnEffect DEF TimedOutRead, HandlerPCs
  <2>2. handler'[h].pc \in {"enq_cas", "can_cas", "to_cas"}
          => handler'[h].seen.review = "none"
    BY <1>16, ReadThenEffect, ReturnEffect
       DEF TimedOutRead, HandlerPCs, Wins, ReviewNeedsOutcome, Active
  <2>3. QED
    BY <2>1, <2>2 DEF CleanReads
<1>17. CASE TimedOutCas(h)
  BY <1>17, GotoEffect, ReturnEffect DEF TimedOutCas, HandlerPCs, CleanReads
<1>18. CASE LogTimedOut(h)
  BY <1>18, ReturnEffect DEF LogTimedOut, CleanReads
<1>19. CASE AckWrite(h)
  BY <1>19, GotoEffect, ReturnEffect DEF AckWrite, HandlerPCs, CleanReads
<1>20. CASE LogAck(h)
  BY <1>20, ReturnEffect DEF LogAck, CleanReads
<1>21. CASE EnqueueRaises(h)
  BY <1>21, GotoEffect DEF EnqueueRaises, HandlerPCs, CleanReads
<1>22. CASE HandlerFails(h)
  BY <1>22, ReturnEffect DEF HandlerFails, CleanReads
<1> QED
  BY <1>1, <1>2, <1>3, <1>4, <1>5, <1>6, <1>7, <1>8, <1>9, <1>10, <1>11, <1>12,
     <1>13, <1>14, <1>15, <1>16, <1>17, <1>18, <1>19, <1>20, <1>21, <1>22
     DEF HandlerStep

(* What an executor read has no review.                                    *)
LEMMA ExecCleanReads ==
    ASSUME TypeInv, RunInv, NEW r \in Runs,
           ExecStep(r) \/ StageEnds(r) \/ Environment(r)
    PROVE  CleanReads'
<1>0. TypeOK /\ CleanReads /\ ReviewNeedsOutcome
  BY DEF TypeInv, RunInv
<1> USE <1>0
<1>1. CASE ExecRead(r)
  <2>1. handler' = handler /\ \A q \in Runs : q # r => exec'[q] = exec[q]
    BY <1>1, ExecReadEffect, ExecReturnEffect, EscapeEffect
       DEF ExecRead, Live, Unguarded, Callback
  <2>2. exec'[r].base.review = "none"
    BY <1>1, ExecReadEffect, ExecReturnEffect, EscapeEffect
       DEF ExecRead, Live, Unguarded, Callback, Wins, ReviewNeedsOutcome, Active,
           Absent
  <2>3. QED
    BY <2>1, <2>2 DEF CleanReads
<1>2. CASE ExecClaim(r)
  BY <1>2, ExecGotoEffect, ExecReturnEffect, EscapeEffect
     DEF ExecClaim, CleanReads, Absent, Live, Staged, Unguarded, Callback
<1>3. CASE LogStarted(r)
  BY <1>3, ExecGotoEffect
     DEF LogStarted, CleanReads, Absent, Live, Staged, Unguarded, Callback
<1>4. CASE ExecCheck(r)
  BY <1>4, ExecReturnEffect, EscapeEffect, ExecGotoEffect
     DEF ExecCheck, CleanReads, Absent, Live, Staged, Unguarded, Callback
<1>5. CASE Publish(r)
  BY <1>5, ExecGotoEffect, ExecReturnEffect, EscapeEffect
     DEF Publish, CleanReads, Absent, Live, Staged, Unguarded, Callback
<1>6. CASE LogCompleted(r)
  BY <1>6, ExecReturnEffect
     DEF LogCompleted, CleanReads, Absent, Live, Staged, Unguarded, Callback
<1>7. CASE Fail(r)
  BY <1>7, ExecGotoEffect, ExecReturnEffect, EscapeEffect
     DEF Fail, CleanReads, Absent, Live, Staged, Unguarded, Callback
<1>8. CASE LogFailed(r)
  BY <1>8, ExecReturnEffect
     DEF LogFailed, CleanReads, Absent, Live, Staged, Unguarded, Callback
<1>9. CASE CallbackRead(r)
  <2>1. handler' = handler /\ \A q \in Runs : q # r => exec'[q] = exec[q]
    BY <1>9, ExecReadEffect, ExecReturnEffect, EscapeEffect
       DEF CallbackRead, Live, Unguarded, Callback
  <2>2. exec'[r].base.review = "none"
    BY <1>9, ExecReadEffect, ExecReturnEffect, EscapeEffect
       DEF CallbackRead, Live, Unguarded, Callback, Wins, ReviewNeedsOutcome,
           Active, Absent
  <2>3. QED
    BY <2>1, <2>2 DEF CleanReads
<1>10. CASE CallbackCas(r)
  BY <1>10, ExecGotoEffect, ExecReturnEffect
     DEF CallbackCas, CleanReads, Absent, Live, Staged, Unguarded, Callback
<1>11. CASE LogCallback(r)
  BY <1>11, ExecReturnEffect
     DEF LogCallback, CleanReads, Absent, Live, Staged, Unguarded, Callback
<1>12. CASE WorkflowEnds(r)
  BY <1>12, ExecGotoEffect
     DEF WorkflowEnds, CleanReads, Absent, Live, Staged, Unguarded, Callback
<1>13. CASE ReviewEnds(r)
  BY <1>13, KeepReviewEffect, ExecGotoEffect
     DEF ReviewEnds, CleanReads, Absent, Live, Staged, Unguarded, Callback, Review
<1>14. CASE ExplainEnds(r)
  BY <1>14, ExecGotoEffect
     DEF ExplainEnds, CleanReads, Absent, Live, Staged, Unguarded, Callback
<1>15. CASE ReportEnds(r)
  BY <1>15, KeepReportEffect, ExecGotoEffect
     DEF ReportEnds, CleanReads, Absent, Live, Staged, Unguarded, Callback
<1>16. CASE JobStarts(r)
  BY <1>16, ExecGotoEffect
     DEF JobStarts, CleanReads, Absent, Live, Staged, Unguarded, Callback
<1>17. CASE AlarmFires(r)
  BY <1>17, EscapeEffect, ExecGotoEffect
     DEF AlarmFires, CleanReads, Absent, Live, Staged, Unguarded, Callback
<1>18. CASE HorseKilled(r)
  BY <1>18, ExecReturnEffect
     DEF HorseKilled, CleanReads, Absent, Live, Staged, Unguarded, Callback
<1>19. CASE GracePasses(r)
  BY <1>19 DEF GracePasses, CleanReads, Absent
<1>20. CASE ExecRaises(r)
  BY <1>20, EscapeEffect
     DEF ExecRaises, CleanReads, Absent, Live, Staged, Unguarded, Callback
<1>21. CASE HorseDies(r)
  BY <1>21, ExecReturnEffect, EscapeEffect
     DEF HorseDies, CleanReads, Absent, Live, Staged, Unguarded, Callback
<1>22. CASE RunExpires(r)
  BY <1>22, ConstantRecords DEF RunExpires, CleanReads, Absent
<1> QED
  BY <1>1, <1>2, <1>3, <1>4, <1>5, <1>6, <1>7, <1>8, <1>9, <1>10, <1>11, <1>12,
     <1>13, <1>14, <1>15, <1>16, <1>17, <1>18, <1>19, <1>20, <1>21, <1>22
     DEF ExecStep, StageEnds, Environment

(* No step puts a review into what a later write carries over.             *)
LEMMA CleanReadsNext ==
    ASSUME TypeInv, RunInv, [Next]_vars
    PROVE  CleanReads'
<1>0. TypeOK /\ CleanReads
  BY DEF TypeInv, RunInv
<1>1. ASSUME NEW h \in Handlers, Request(h) PROVE CleanReads'
  <2> DEFINE Frame == /\ \A g \in Handlers : g # h => handler'[g] = handler[g]
                      /\ handler'[h].pc \notin {"enq_cas", "can_cas", "to_cas"}
  <2>1. ASSUME NEW c \in Commands, NEW k \in Keys \cup {None}, NEW r \in Runs,
               CreateRun(h, c, k, r)
        PROVE  Frame
    BY <1>0, <2>1, CreateRunEffect
  <2>2. ASSUME NEW c \in Commands, NEW k \in Keys, KeyTaken(h, c, k) PROVE Frame
    BY <1>0, <2>2, KeyTakenEffect
  <2>3. ASSUME NEW r \in Runs, CancelRun(h, r) PROVE Frame
    BY <1>0, <2>3, CancelRunEffect
  <2>4. ASSUME NEW r \in Runs, GetRun(h, r) PROVE Frame
    BY <1>0, <2>4, GetRunEffect
  <2>5. ASSUME NEW r \in Runs, NEW n \in Notes \cup {None}, Acknowledge(h, r, n)
        PROVE  Frame
    BY <1>0, <2>5, AcknowledgeEffect
  <2>6. exec' = exec
    BY <1>1 DEF Request, CreateRun, KeyTaken, CancelRun, GetRun, Acknowledge
  <2>7. Frame
    <3> HIDE DEF Frame
    <3> QED
      BY <1>1, <2>1, <2>2, <2>3, <2>4, <2>5 DEF Request
  <2>8. QED
    BY <1>0, <2>6, <2>7 DEF CleanReads
<1>2. ASSUME NEW h \in Handlers, HandlerStep(h) \/ EnqueueRaises(h) \/ HandlerFails(h)
      PROVE  CleanReads'
  BY <1>2, HandlerCleanReads
<1>3. ASSUME NEW r \in Runs, ExecStep(r) \/ StageEnds(r) \/ Environment(r)
      PROVE  CleanReads'
  BY <1>3, ExecCleanReads
<1>4. ASSUME NEW k \in Keys, KeyExpires(k) PROVE CleanReads'
  BY <1>0, <1>4 DEF KeyExpires, CleanReads
<1>5. CASE UNCHANGED vars
  BY <1>0, <1>5 DEF vars, CleanReads
<1>6. QED
  BY <1>1, <1>2, <1>3, <1>4, <1>5 DEF Next

(* The invariant of the run records holds initially.                       *)
LEMMA RunInvInit == Init => RunInv
<1> SUFFICES ASSUME Init PROVE RunInv
  OBVIOUS
<1>1. Decided /\ ReviewNeedsOutcome /\ Fresh
  BY DEF Init, Absent, Decided, ReviewNeedsOutcome, Fresh, Active, Terminal
<1>2. CleanReads /\ AckKnowsOutcome /\ Saving
  BY DEF Init, Idle, NoExec, Absent, CleanReads, AckKnowsOutcome, Saving
<1>3. QED
  BY <1>1, <1>2 DEF RunInv

(* Every step keeps the invariant of the run records.                      *)
LEMMA RunInvNext == TypeInv /\ RunInv /\ [Next]_vars => RunInv'
<1> SUFFICES ASSUME TypeInv, RunInv, [Next]_vars PROVE RunInv'
  OBVIOUS
<1>1. Decided' /\ ReviewNeedsOutcome'
  BY NextMovesOne, MovesKeepDecided DEF RunInv
<1>2. CleanReads' /\ AckKnowsOutcome' /\ Fresh' /\ Saving'
  BY CleanReadsNext, AckKnowsOutcomeNext, FreshNext, SavingNext
<1>3. QED
  BY <1>1, <1>2 DEF RunInv

(* The invariant of the run records holds in every reachable state.        *)
THEOREM RunInvHolds == Spec => []RunInv
  BY TypeInvHolds, RunInvInit, RunInvNext, PTL DEF Spec

(* A human review appears only together with a terminal status.            *)
THEOREM ReviewCorrect == Spec => []ReviewNeedsOutcome
<1>1. RunInv => ReviewNeedsOutcome
  BY DEF RunInv
<1>2. QED
  BY <1>1, RunInvHolds, PTL

(* No step overwrites a terminal status, whoever takes it.                 *)
LEMMA MovesKeepTerminal ==
    ASSUME Decided, OneRunMoves, NEW r \in Runs, run[r].status \in Terminal
    PROVE  run'[r].status \in {run[r].status, "absent"}
<1>1. CASE RunMoves(r)
  BY <1>1
     DEF Decided, RunMoves, Submits, Proceeds, Settles, Vanishes, IsAcknowledged,
         Terminal, Active, Absent
<1>2. QED
  BY <1>1 DEF OneRunMoves

(* A late writer never overwrites the outcome that won.                    *)
THEOREM TerminalStays == Spec => TerminalIsFinal
<1>1. TypeInv /\ RunInv /\ [Next]_vars
        => \A r \in Runs : run[r].status \in Terminal
                             => run'[r].status \in {run[r].status, "absent"}
  BY NextMovesOne, MovesKeepTerminal DEF RunInv
<1>2. TypeInv /\ RunInv /\ [Next]_vars
        => [\A r \in Runs : run[r].status \in Terminal
                              => run'[r].status \in {run[r].status, "absent"}]_vars
  BY <1>1
<1>3. QED
  BY <1>2, TypeInvHolds, RunInvHolds, PTL DEF Spec, TerminalIsFinal

(* No step takes an acknowledgement back.                                  *)
LEMMA MovesKeepAcknowledged ==
    ASSUME ReviewNeedsOutcome, OneRunMoves, NEW r \in Runs, run[r].review = "acknowledged"
    PROVE  run'[r].review = "acknowledged" \/ run'[r].status = "absent"
<1>1. run[r].status \in {"completed", "failed"}
  BY DEF ReviewNeedsOutcome
<1>2. CASE RunMoves(r)
  BY <1>1, <1>2 DEF RunMoves, Submits, Proceeds, Settles, Vanishes, IsAcknowledged,
                    Terminal, Active, Absent
<1>3. QED
  BY <1>2 DEF OneRunMoves

(* An acknowledgement is never undone while the run exists.                *)
THEOREM AcknowledgementStays == Spec => AcknowledgedStays
<1>1. TypeInv /\ RunInv /\ [Next]_vars
        => [\A r \in Runs : run[r].review = "acknowledged"
                              => \/ run'[r].review = "acknowledged"
                                 \/ run'[r].status = "absent"]_vars
  BY NextMovesOne, MovesKeepAcknowledged DEF RunInv
<1>2. QED
  BY <1>1, TypeInvHolds, RunInvHolds, PTL DEF Spec, AcknowledgedStays

(* How a step may change the log and who has to append to it.              *)
HandlerQuiet(g) ==
    HandlerDue(g)' # "none"
      => HandlerDue(g)' = HandlerDue(g) /\ handler'[g].run = handler[g].run

ExecQuiet(q) == ExecDue(q)' # "none" => ExecDue(q)' = ExecDue(q)

NobodyWins ==
    /\ outcome' = outcome
    /\ \A g \in Handlers : HandlerQuiet(g)
    /\ \A q \in Runs : ExecQuiet(q)

Records == \E r \in Runs, e \in EventTypes \ Terminal : LogEvent(r, e)

HandlerWins(h) ==
    /\ handler[h].run \in Runs
    /\ outcome[handler[h].run] = "none"
    /\ handler'[h].run = handler[h].run
    /\ HandlerDue(h)' # "none"
    /\ outcome'[handler[h].run] = HandlerDue(h)'
    /\ \A q \in Runs : q # handler[h].run => outcome'[q] = outcome[q]
    /\ \A g \in Handlers : g # h => HandlerQuiet(g)
    /\ \A q \in Runs : ExecQuiet(q)

ExecWins(r) ==
    /\ outcome[r] = "none"
    /\ ExecDue(r)' # "none"
    /\ outcome'[r] = ExecDue(r)'
    /\ \A q \in Runs : q # r => outcome'[q] = outcome[q] /\ ExecQuiet(q)
    /\ \A g \in Handlers : HandlerQuiet(g)

HandlerPays(h) ==
    /\ HandlerDue(h) # "none"
    /\ LogEvent(handler[h].run, HandlerDue(h))
    /\ HandlerDue(h)' = "none"

ExecPays(r) ==
    /\ ExecDue(r) # "none"
    /\ LogEvent(r, ExecDue(r))
    /\ ExecDue(r)' = "none"

LogMoves ==
    \/ NobodyWins /\ log' = log
    \/ NobodyWins /\ Records
    \/ NobodyWins /\ \E h \in Handlers : HandlerPays(h)
    \/ NobodyWins /\ \E r \in Runs : ExecPays(r)
    \/ log' = log /\ \E h \in Handlers : HandlerWins(h)
    \/ log' = log /\ \E r \in Runs : ExecWins(r)

(* The entries of a log after an append.                                   *)
LEMMA AppendEntries ==
    ASSUME NEW s \in Seq(EventTypes), NEW e \in EventTypes,
           NEW i \in DOMAIN Append(s, e)
    PROVE  \/ i \in DOMAIN s /\ Append(s, e)[i] = s[i]
           \/ i = Len(s) + 1 /\ i \notin DOMAIN s /\ Append(s, e)[i] = e
  OBVIOUS

(* Events that are not terminal are due to nobody.                         *)
LEMMA DueTypes ==
    ASSUME TypeInv
    PROVE  /\ \A h \in Handlers : HandlerDue(h) # "none"
                => HandlerDue(h) \in Terminal /\ handler[h].run \in Runs
           /\ \A r \in Runs : ExecDue(r) # "none" => ExecDue(r) \in Terminal
<1>1. ASSUME NEW h \in Handlers, HandlerDue(h) # "none"
      PROVE  HandlerDue(h) \in Terminal /\ handler[h].run \in Runs
  BY <1>1 DEF TypeInv, Located, HandlerDue, Terminal
<1>2. ASSUME NEW r \in Runs, ExecDue(r) # "none"
      PROVE  ExecDue(r) \in Terminal
  BY <1>2 DEF TypeInv, HasVerdict, ExecDue, Terminal, Callback
<1>3. QED
  BY <1>1, <1>2

(* The log keeps its invariant in each of these moves.                     *)
LEMMA QuietKeepsLog ==
    ASSUME TypeInv, LogInv, NobodyWins, log' = log
    PROVE  LogInv'
<1>1. \A q \in Runs : Unlogged(q)' = Unlogged(q)
  BY DEF Unlogged
<1>2. DueIsDecided'
  BY <1>1, DueTypes DEF LogInv, NobodyWins, HandlerQuiet, ExecQuiet, DueIsDecided
<1>3. OneDue'
  BY DueTypes DEF LogInv, NobodyWins, HandlerQuiet, ExecQuiet, OneDue
<1>4. UndecidedIsUnlogged' /\ OneTerminalEvent'
  BY <1>1 DEF LogInv, NobodyWins, UndecidedIsUnlogged, OneTerminalEvent
<1>5. QED
  BY <1>2, <1>3, <1>4 DEF LogInv

(* Recording an event that is not terminal.                                *)
LEMMA RecordKeepsLog ==
    ASSUME TypeInv, LogInv, NobodyWins, Records
    PROVE  LogInv'
<1>1. PICK r \in Runs, e \in EventTypes \ Terminal : LogEvent(r, e)
  BY DEF Records
<1>2. /\ \A q \in Runs : q # r => log'[q] = log[q]
      /\ log'[r] = Append(log[r], e)
      /\ log[r] \in Seq(EventTypes)
  BY <1>1, LogEffect DEF TypeInv, TypeOK
<1>3. ASSUME NEW q \in Runs, NEW i \in DOMAIN log'[q], log'[q][i] \in Terminal
      PROVE  i \in DOMAIN log[q] /\ log[q][i] = log'[q][i]
  BY SMTT(30), <1>1, <1>2, <1>3, AppendEntries
<1>4. \A q \in Runs : Unlogged(q) => Unlogged(q)'
  BY <1>3 DEF Unlogged
<1>5. DueIsDecided'
  BY <1>4, DueTypes DEF LogInv, NobodyWins, HandlerQuiet, ExecQuiet, DueIsDecided
<1>6. OneDue'
  BY DueTypes DEF LogInv, NobodyWins, HandlerQuiet, ExecQuiet, OneDue
<1>7. UndecidedIsUnlogged'
  BY <1>4 DEF LogInv, NobodyWins, UndecidedIsUnlogged
<1>8. OneTerminalEvent'
  BY <1>3 DEF LogInv, NobodyWins, OneTerminalEvent
<1>9. QED
  BY <1>5, <1>6, <1>7, <1>8 DEF LogInv

(* Paying: the run had no terminal event, and nobody else owes it one.     *)
LEMMA PayKeepsLog ==
    ASSUME TypeInv, LogInv, NobodyWins, NEW r \in Runs, NEW e \in Terminal,
           LogEvent(r, e), Unlogged(r), outcome[r] = e,
           \A g \in Handlers : HandlerDue(g)' # "none" => handler[g].run # r,
           ExecDue(r)' = "none"
    PROVE  LogInv'
<1>1. /\ \A q \in Runs : q # r => log'[q] = log[q]
      /\ log'[r] = Append(log[r], e)
      /\ log[r] \in Seq(EventTypes)
      /\ e \in EventTypes
  <2>1. e \in EventTypes
    BY DEF Terminal, EventTypes
  <2>2. QED
    BY <2>1, LogEffect DEF TypeInv, TypeOK
<1>2. \A q \in Runs : q # r => Unlogged(q)' = Unlogged(q)
  BY <1>1 DEF Unlogged
<1>3. DueIsDecided'
  BY <1>2, DueTypes DEF LogInv, NobodyWins, HandlerQuiet, ExecQuiet, DueIsDecided
<1>4. OneDue'
  BY DueTypes DEF LogInv, NobodyWins, HandlerQuiet, ExecQuiet, OneDue
<1>5. UndecidedIsUnlogged'
  <2>1. e # "none"
    BY DEF Terminal
  <2>2. QED
    BY <1>2, <2>1 DEF LogInv, NobodyWins, UndecidedIsUnlogged
<1>6. OneTerminalEvent'
  <2>1. ASSUME NEW i \in DOMAIN log'[r], log'[r][i] \in Terminal
        PROVE  i = Len(log[r]) + 1 /\ log'[r][i] = e
    BY <1>1, <2>1, AppendEntries DEF Unlogged
  <2>2. ASSUME NEW q \in Runs, NEW i \in DOMAIN log'[q], NEW j \in DOMAIN log'[q],
               log'[q][i] \in Terminal
        PROVE  log'[q][i] = outcome'[q] /\ (log'[q][j] \in Terminal => i = j)
    <3>1. CASE q = r
      BY <2>1, <2>2, <3>1 DEF NobodyWins
    <3>2. CASE q # r
      <4>1. log'[q] = log[q] /\ outcome'[q] = outcome[q]
        BY <1>1, <3>2 DEF NobodyWins
      <4>2. QED
        BY <2>2, <4>1 DEF LogInv, OneTerminalEvent
    <3>3. QED
      BY <3>1, <3>2
  <2>3. QED
    BY <2>2 DEF OneTerminalEvent
<1>7. QED
  BY <1>3, <1>4, <1>5, <1>6 DEF LogInv

(* Winning: an undecided run has no terminal event and nobody owes it one. *)
LEMMA HandlerWinKeepsLog ==
    ASSUME TypeInv, LogInv, log' = log, NEW h \in Handlers, HandlerWins(h)
    PROVE  LogInv'
<1> DEFINE r == handler[h].run
<1>1. r \in Runs /\ Unlogged(r) /\ \A i \in DOMAIN log[r] : log[r][i] \notin Terminal
  BY DEF HandlerWins, LogInv, UndecidedIsUnlogged, Unlogged
<1>2. \A q \in Runs : Unlogged(q)' = Unlogged(q)
  BY DEF Unlogged
<1>3. /\ \A g \in Handlers : g # h /\ HandlerDue(g)' # "none"
             => /\ HandlerDue(g)' = HandlerDue(g)
                /\ handler'[g].run = handler[g].run
                /\ handler[g].run # r
                /\ outcome'[handler[g].run] = outcome[handler[g].run]
      /\ \A q \in Runs : ExecDue(q)' # "none"
             => ExecDue(q)' = ExecDue(q) /\ q # r /\ outcome'[q] = outcome[q]
  BY DueTypes DEF HandlerWins, HandlerQuiet, ExecQuiet, LogInv, DueIsDecided
<1>4. DueIsDecided'
  <2>1. ASSUME NEW q \in Runs, Unlogged(q) PROVE Unlogged(q)'
    BY <1>2, <2>1
  <2>2. ASSUME NEW g \in Handlers, HandlerDue(g)' # "none"
        PROVE  /\ outcome'[handler'[g].run] = HandlerDue(g)'
               /\ \A q \in Runs : q = handler'[g].run => Unlogged(q)'
               /\ handler'[g].run \in Runs
    <3>1. CASE g = h
      BY <1>1, <2>1, <3>1 DEF HandlerWins
    <3>2. CASE g # h
      <4>1. /\ HandlerDue(g)' = HandlerDue(g) /\ handler'[g].run = handler[g].run
            /\ outcome'[handler[g].run] = outcome[handler[g].run]
        BY <1>3, <2>2, <3>2
      <4>2. HandlerDue(g) # "none" /\ handler[g].run \in Runs
        BY <2>2, <4>1, DueTypes
      <4>3. outcome[handler[g].run] = HandlerDue(g) /\ Unlogged(handler[g].run)
        BY <4>2 DEF LogInv, DueIsDecided
      <4>4. QED
        BY <2>1, <4>1, <4>2, <4>3
    <3>3. QED
      BY <3>1, <3>2
  <2>3. ASSUME NEW q \in Runs, ExecDue(q)' # "none"
        PROVE  outcome'[q] = ExecDue(q)' /\ Unlogged(q)'
    BY <1>3, <2>1, <2>3 DEF LogInv, DueIsDecided
  <2>4. QED
    BY <2>2, <2>3 DEF DueIsDecided
<1>5. OneDue'
  BY <1>1, <1>3, DueTypes DEF HandlerWins, LogInv, OneDue
<1>6. UndecidedIsUnlogged'
  BY <1>1, <1>2 DEF HandlerWins, LogInv, UndecidedIsUnlogged
<1>7. OneTerminalEvent'
  BY <1>1 DEF HandlerWins, LogInv, OneTerminalEvent
<1>8. QED
  BY <1>4, <1>5, <1>6, <1>7 DEF LogInv

(* The same for an executor that wins.                                     *)
LEMMA ExecWinKeepsLog ==
    ASSUME TypeInv, LogInv, log' = log, NEW r \in Runs, ExecWins(r)
    PROVE  LogInv'
<1>1. Unlogged(r) /\ \A i \in DOMAIN log[r] : log[r][i] \notin Terminal
  BY DEF ExecWins, LogInv, UndecidedIsUnlogged, Unlogged
<1>2. \A q \in Runs : Unlogged(q)' = Unlogged(q)
  BY DEF Unlogged
<1>3. /\ \A g \in Handlers : HandlerDue(g)' # "none"
             => /\ HandlerDue(g)' = HandlerDue(g)
                /\ handler'[g].run = handler[g].run
                /\ handler[g].run # r
                /\ handler[g].run \in Runs
                /\ outcome'[handler[g].run] = outcome[handler[g].run]
      /\ \A q \in Runs : q # r /\ ExecDue(q)' # "none"
             => ExecDue(q)' = ExecDue(q) /\ outcome'[q] = outcome[q]
  BY DueTypes DEF ExecWins, HandlerQuiet, ExecQuiet, LogInv, DueIsDecided
<1>4. DueIsDecided'
  BY <1>1, <1>2, <1>3 DEF ExecWins, LogInv, DueIsDecided
<1>5. OneDue'
  BY <1>3 DEF ExecWins, LogInv, OneDue
<1>6. UndecidedIsUnlogged'
  BY <1>1, <1>2 DEF ExecWins, LogInv, UndecidedIsUnlogged
<1>7. OneTerminalEvent'
  BY <1>1 DEF ExecWins, LogInv, OneTerminalEvent
<1>8. QED
  BY <1>4, <1>5, <1>6, <1>7 DEF LogInv

(* Each way of changing the log keeps its invariant.                       *)
LEMMA LogMovesKeepLog ==
    ASSUME TypeInv, LogInv, LogMoves
    PROVE  LogInv'
<1>1. CASE NobodyWins /\ log' = log
  BY <1>1, QuietKeepsLog
<1>2. CASE NobodyWins /\ Records
  BY <1>2, RecordKeepsLog
<1>3. ASSUME NobodyWins, NEW h \in Handlers, HandlerPays(h) PROVE LogInv'
  <2>1. /\ handler[h].run \in Runs
        /\ HandlerDue(h) \in Terminal /\ HandlerDue(h) # "none"
    BY <1>3, DueTypes DEF HandlerPays
  <2>2. PICK r \in Runs, e \in Terminal : r = handler[h].run /\ e = HandlerDue(h)
    BY <2>1
  <2>3. LogEvent(r, e) /\ Unlogged(r) /\ outcome[r] = e
    BY <1>3, <2>1, <2>2 DEF HandlerPays, LogInv, DueIsDecided
  <2>4. \A g \in Handlers : HandlerDue(g)' # "none" => handler[g].run # r
    BY <1>3, <2>2 DEF HandlerPays, NobodyWins, HandlerQuiet, LogInv, OneDue
  <2>5. ExecDue(r)' = "none"
    BY <1>3, <2>1, <2>2 DEF HandlerPays, NobodyWins, ExecQuiet, LogInv, OneDue
  <2>6. QED
    BY <1>3, <2>3, <2>4, <2>5, PayKeepsLog
<1>4. ASSUME NobodyWins, NEW r \in Runs, ExecPays(r) PROVE LogInv'
  <2>1. /\ ExecDue(r) \in Terminal /\ LogEvent(r, ExecDue(r))
        /\ Unlogged(r) /\ outcome[r] = ExecDue(r) /\ ExecDue(r)' = "none"
    BY <1>4, DueTypes DEF ExecPays, LogInv, DueIsDecided
  <2>2. \A g \in Handlers : HandlerDue(g)' # "none" => handler[g].run # r
    BY <1>4 DEF ExecPays, NobodyWins, HandlerQuiet, LogInv, OneDue
  <2>3. QED
    BY <1>4, <2>1, <2>2, PayKeepsLog
<1>5. ASSUME log' = log, NEW h \in Handlers, HandlerWins(h) PROVE LogInv'
  BY <1>5, HandlerWinKeepsLog
<1>6. ASSUME log' = log, NEW r \in Runs, ExecWins(r) PROVE LogInv'
  BY <1>6, ExecWinKeepsLog
<1>7. QED
  BY <1>1, <1>2, <1>3, <1>4, <1>5, <1>6 DEF LogMoves

(* The steps of a handler, sorted by what they do to the log.              *)
LEMMA HandlerLogMoves ==
    ASSUME TypeInv, RunInv, NEW h \in Handlers,
           HandlerStep(h) \/ EnqueueRaises(h) \/ HandlerFails(h)
    PROVE  LogMoves
<1>0. TypeOK /\ Located /\ Decided
  BY DEF TypeInv, RunInv
<1>a. \A g \in Handlers : g # h => HandlerQuiet(g)
  BY HandlerFrame DEF HandlerQuiet, HandlerDue
<1>b. exec' = exec => \A q \in Runs : ExecQuiet(q)
  BY DEF ExecQuiet, ExecDue
<1>c. HandlerDue(h)' = "none" /\ outcome' = outcome
        /\ (exec' = exec \/ \A q \in Runs : ExecQuiet(q)) => NobodyWins
  BY <1>a, <1>b DEF NobodyWins, HandlerQuiet
<1> USE <1>0 DEF Located
<1>1. CASE ReplayRead(h)
  BY <1>1, <1>c, ReplayReadEffect, ReturnEffect
     DEF ReplayRead, HandlerPCs, HandlerDue, LogMoves
<1>2. CASE Replay(h)
  BY <1>2, <1>c, ReturnEffect DEF Replay, HandlerPCs, HandlerDue, LogMoves
<1>3. CASE Save(h)
  BY <1>3, <1>c, GotoEffect
     DEF Save, HandlerPCs, HandlerDue, Write, Terminal, LogMoves
<1>4. CASE LogCreated(h)
  <2>1. HandlerDue(h)' = "none"
    BY <1>4, GotoEffect, ReturnEffect DEF LogCreated, HandlerPCs, HandlerDue
  <2>2. outcome' = outcome /\ \A q \in Runs : ExecQuiet(q)
    BY <1>4, <1>b, ExecGotoEffect
       DEF LogCreated, ExecQuiet, ExecDue, Live, Unguarded
  <2>3. Records
    BY <1>4 DEF LogCreated, Records, EventTypes, Terminal
  <2>4. QED
    BY <1>c, <2>1, <2>2, <2>3 DEF LogMoves
<1>5. CASE EnqRead(h)
  BY <1>5, <1>c, ReadThenEffect, ReturnEffect
     DEF EnqRead, HandlerPCs, HandlerDue, LogMoves
<1>6. CASE EnqCas(h)
  BY <1>6, <1>c, GotoEffect, ReturnEffect
     DEF EnqCas, HandlerPCs, HandlerDue, Write, Terminal, LogMoves
<1>7. CASE LogEnqueued(h)
  <2>1. HandlerDue(h)' = "none"
    BY <1>7, GotoEffect DEF LogEnqueued, HandlerPCs, HandlerDue
  <2>2. outcome' = outcome /\ exec' = exec
    BY <1>7 DEF LogEnqueued
  <2>3. Records
    BY <1>7 DEF LogEnqueued, Records, EventTypes, Terminal
  <2>4. QED
    BY <1>c, <2>1, <2>2, <2>3 DEF LogMoves
<1>8. CASE Enqueue(h)
  BY <1>8, <1>c, ReturnEffect DEF Enqueue, HandlerPCs, HandlerDue, LogMoves
<1>9. CASE EqfRead(h)
  BY <1>9, <1>c, ReturnEffect, ReadThenEffect
     DEF EqfRead, HandlerPCs, HandlerDue, LogMoves
<1>10. CASE EqfCas(h)
  <2>1. CASE Wins(handler[h].run, {"queued"})
    <3>1. /\ handler[h].run \in Runs /\ handler[h].seen \in RunRecord
          /\ Write(handler[h].run, handler[h].seen, "failed")
      BY <1>10, <2>1, HandlerFields DEF EqfCas, TypeOK
    <3>2. outcome[handler[h].run] = "none"
      BY <2>1, <3>1 DEF Wins, Decided, Active
    <3>3. handler'[h].run = handler[h].run /\ HandlerDue(h)' = "failed"
      BY <1>10, <2>1, GotoEffect DEF EqfCas, HandlerPCs, HandlerDue
    <3>4. /\ outcome'[handler[h].run] = "failed"
          /\ \A q \in Runs : q # handler[h].run => outcome'[q] = outcome[q]
      BY <3>1, WriteEffect DEF Status, Terminal
    <3>5. log' = log /\ exec' = exec
      BY <1>10 DEF EqfCas
    <3>6. HandlerWins(h)
      BY <1>a, <1>b, <3>1, <3>2, <3>3, <3>4, <3>5 DEF HandlerWins
    <3>7. QED
      BY <3>5, <3>6 DEF LogMoves
  <2>2. CASE ~Wins(handler[h].run, {"queued"})
    <3>1. HandlerDue(h)' = "none"
      BY <1>10, <2>2, ReturnEffect DEF EqfCas, HandlerDue
    <3>2. log' = log /\ outcome' = outcome /\ exec' = exec
      BY <1>10, <2>2 DEF EqfCas
    <3>3. QED
      BY <1>c, <3>1, <3>2 DEF LogMoves
  <2>3. QED
    BY <2>1, <2>2
<1>11. CASE LogEqf(h)
  <2>1. HandlerDue(h)' = "none"
    BY <1>11, ReturnEffect DEF LogEqf, HandlerPCs, HandlerDue
  <2>2. outcome' = outcome /\ exec' = exec
    BY <1>11 DEF LogEqf
  <2>3. HandlerPays(h)
    BY <1>11, <2>1 DEF LogEqf, HandlerPays, HandlerDue
  <2>4. QED
    BY <1>c, <2>1, <2>2, <2>3 DEF LogMoves
<1>12. CASE CancelRead(h)
  BY <1>12, <1>c, ReadThenEffect, ReturnEffect
     DEF CancelRead, HandlerPCs, HandlerDue, LogMoves
<1>13. CASE CancelCas(h)
  <2>1. CASE Wins(handler[h].run, Active)
    <3>1. /\ handler[h].run \in Runs /\ handler[h].seen \in RunRecord
          /\ Write(handler[h].run, handler[h].seen, "cancelled")
      BY <1>13, <2>1, HandlerFields DEF CancelCas, TypeOK
    <3>2. outcome[handler[h].run] = "none"
      BY <2>1, <3>1 DEF Wins, Decided, Active
    <3>3. handler'[h].run = handler[h].run /\ HandlerDue(h)' = "cancelled"
      BY <1>13, <2>1, GotoEffect DEF CancelCas, HandlerPCs, HandlerDue
    <3>4. /\ outcome'[handler[h].run] = "cancelled"
          /\ \A q \in Runs : q # handler[h].run => outcome'[q] = outcome[q]
      BY <3>1, WriteEffect DEF Status, Terminal
    <3>5. log' = log /\ exec' = exec
      BY <1>13 DEF CancelCas
    <3>6. HandlerWins(h)
      BY <1>a, <1>b, <3>1, <3>2, <3>3, <3>4, <3>5 DEF HandlerWins
    <3>7. QED
      BY <3>5, <3>6 DEF LogMoves
  <2>2. CASE ~Wins(handler[h].run, Active)
    <3>1. HandlerDue(h)' = "none"
      BY <1>13, <2>2, ReturnEffect DEF CancelCas, HandlerDue
    <3>2. log' = log /\ outcome' = outcome /\ exec' = exec
      BY <1>13, <2>2 DEF CancelCas
    <3>3. QED
      BY <1>c, <3>1, <3>2 DEF LogMoves
  <2>3. QED
    BY <2>1, <2>2
<1>14. CASE LogCancelled(h)
  <2>1. HandlerDue(h)' = "none"
    BY <1>14, GotoEffect, ReturnEffect DEF LogCancelled, HandlerPCs, HandlerDue
  <2>2. outcome' = outcome /\ exec' = exec
    BY <1>14 DEF LogCancelled
  <2>3. HandlerPays(h)
    BY <1>14, <2>1 DEF LogCancelled, HandlerPays, HandlerDue
  <2>4. QED
    BY <1>c, <2>1, <2>2, <2>3 DEF LogMoves
<1>15. CASE CancelJob(h)
  <2>1. HandlerDue(h)' = "none"
    BY <1>15, ReturnEffect DEF CancelJob, HandlerDue
  <2>2. log' = log /\ outcome' = outcome /\ \A q \in Runs : ExecQuiet(q)
    BY <1>15, CancelJobEffect DEF CancelJob, ExecQuiet, ExecDue
  <2>3. QED
    BY <1>c, <2>1, <2>2 DEF LogMoves
<1>16. CASE TimedOutRead(h)
  BY <1>16, <1>c, ReadThenEffect, ReturnEffect
     DEF TimedOutRead, HandlerPCs, HandlerDue, LogMoves
<1>17. CASE TimedOutCas(h)
  <2>1. CASE Wins(handler[h].run, Active)
    <3>1. /\ handler[h].run \in Runs /\ handler[h].seen \in RunRecord
          /\ Write(handler[h].run, handler[h].seen, "timed_out")
      BY <1>17, <2>1, HandlerFields DEF TimedOutCas, TypeOK
    <3>2. outcome[handler[h].run] = "none"
      BY <2>1, <3>1 DEF Wins, Decided, Active
    <3>3. handler'[h].run = handler[h].run /\ HandlerDue(h)' = "timed_out"
      BY <1>17, <2>1, GotoEffect DEF TimedOutCas, HandlerPCs, HandlerDue
    <3>4. /\ outcome'[handler[h].run] = "timed_out"
          /\ \A q \in Runs : q # handler[h].run => outcome'[q] = outcome[q]
      BY <3>1, WriteEffect DEF Status, Terminal
    <3>5. log' = log /\ exec' = exec
      BY <1>17 DEF TimedOutCas
    <3>6. HandlerWins(h)
      BY <1>a, <1>b, <3>1, <3>2, <3>3, <3>4, <3>5 DEF HandlerWins
    <3>7. QED
      BY <3>5, <3>6 DEF LogMoves
  <2>2. CASE ~Wins(handler[h].run, Active)
    <3>1. HandlerDue(h)' = "none"
      BY <1>17, <2>2, ReturnEffect DEF TimedOutCas, HandlerDue
    <3>2. log' = log /\ outcome' = outcome /\ exec' = exec
      BY <1>17, <2>2 DEF TimedOutCas
    <3>3. QED
      BY <1>c, <3>1, <3>2 DEF LogMoves
  <2>3. QED
    BY <2>1, <2>2
<1>18. CASE LogTimedOut(h)
  <2>1. HandlerDue(h)' = "none"
    BY <1>18, ReturnEffect DEF LogTimedOut, HandlerPCs, HandlerDue
  <2>2. outcome' = outcome /\ exec' = exec
    BY <1>18 DEF LogTimedOut
  <2>3. HandlerPays(h)
    BY <1>18, <2>1 DEF LogTimedOut, HandlerPays, HandlerDue
  <2>4. QED
    BY <1>c, <2>1, <2>2, <2>3 DEF LogMoves
<1>19. CASE AckWrite(h)
  BY <1>19, <1>c, GotoEffect, ReturnEffect
     DEF AckWrite, HandlerPCs, HandlerDue, LogMoves
<1>20. CASE LogAck(h)
  <2>1. HandlerDue(h)' = "none"
    BY <1>20, ReturnEffect DEF LogAck, HandlerPCs, HandlerDue
  <2>2. outcome' = outcome /\ exec' = exec
    BY <1>20 DEF LogAck
  <2>3. Records
    BY <1>20 DEF LogAck, Records, EventTypes, Terminal
  <2>4. QED
    BY <1>c, <2>1, <2>2, <2>3 DEF LogMoves
<1>21. CASE EnqueueRaises(h)
  BY <1>21, <1>c, GotoEffect DEF EnqueueRaises, HandlerPCs, HandlerDue, LogMoves
<1>22. CASE HandlerFails(h)
  BY <1>22, <1>c, ReturnEffect DEF HandlerFails, HandlerPCs, HandlerDue, LogMoves
<1> QED
  BY <1>1, <1>2, <1>3, <1>4, <1>5, <1>6, <1>7, <1>8, <1>9, <1>10, <1>11, <1>12,
     <1>13, <1>14, <1>15, <1>16, <1>17, <1>18, <1>19, <1>20, <1>21, <1>22
     DEF HandlerStep

(* "none" is no outcome.                                                   *)
LEMMA NoneIsNotTerminal == "none" \notin Terminal
  BY DEF Terminal

(* The steps around an executor, sorted by what they do to the log.        *)
LEMMA ExecLogMoves ==
    ASSUME TypeInv, RunInv, NEW r \in Runs,
           ExecStep(r) \/ StageEnds(r) \/ Environment(r)
    PROVE  LogMoves
<1>0. TypeOK /\ HasVerdict /\ Decided
  BY DEF TypeInv, RunInv
<1>a. \A g \in Handlers : HandlerQuiet(g)
  BY ExecFrame DEF HandlerQuiet, HandlerDue
<1>b. \A q \in Runs : exec'[q] = exec[q] => ExecQuiet(q)
  BY DEF ExecQuiet, ExecDue
<1>c. ExecDue(r)' = "none" /\ outcome' = outcome
        /\ (\A q \in Runs : q # r => exec'[q] = exec[q]) => NobodyWins
  BY <1>a, <1>b DEF NobodyWins, ExecQuiet
<1>d. outcome' = outcome /\ exec' = exec => NobodyWins
  BY <1>a, <1>b DEF NobodyWins
<1> USE <1>0
<1>1. CASE ExecRead(r)
  BY <1>1, <1>c, ExecReadEffect, ExecReturnEffect, EscapeEffect
     DEF ExecRead, ExecDue, LogMoves, Live, Staged, Unguarded, Callback
<1>2. CASE ExecClaim(r)
  BY <1>2, <1>c, ExecGotoEffect, ExecReturnEffect, EscapeEffect
     DEF ExecClaim, ExecDue, Write, Terminal, LogMoves, Live, Staged, Unguarded,
         Callback
<1>3. CASE LogStarted(r)
  <2>1. ExecDue(r)' = "none" /\ \A q \in Runs : q # r => exec'[q] = exec[q]
    BY <1>3, ExecGotoEffect DEF LogStarted, ExecDue, Live, Staged
  <2>2. outcome' = outcome
    BY <1>3 DEF LogStarted
  <2>3. Records
    BY <1>3 DEF LogStarted, Records, EventTypes, Terminal
  <2>4. QED
    BY <1>c, <2>1, <2>2, <2>3 DEF LogMoves
<1>4. CASE ExecCheck(r)
  BY <1>4, <1>c, ExecReturnEffect, EscapeEffect, ExecGotoEffect
     DEF ExecCheck, ExecDue, LogMoves, Live, Staged, Unguarded, Callback
<1>5. CASE Publish(r)
  <2>1. CASE Wins(r, {"running"})
    <3>1. /\ Write(r, WithReport(exec[r].base, exec[r].review, exec[r].report), "completed")
          /\ WithReport(exec[r].base, exec[r].review, exec[r].report) \in RunRecord
          /\ "completed" \in Terminal
      BY <1>5, <2>1, ExecFields, WithReportType
         DEF Publish, TypeOK, HasVerdict, Callback, Terminal
    <3>2. outcome[r] = "none"
      BY <2>1 DEF Wins, Decided, Active
    <3>3. ExecDue(r)' = "completed" /\ \A q \in Runs : q # r => exec'[q] = exec[q]
      BY <1>5, <2>1, ExecGotoEffect
         DEF Publish, ExecDue, Live, Staged, Unguarded, Callback
    <3>4. outcome'[r] = "completed" /\ \A q \in Runs : q # r => outcome'[q] = outcome[q]
      BY <3>1, WriteEffect DEF Status, Active, Terminal
    <3>5. log' = log
      BY <1>5 DEF Publish
    <3>6. ExecWins(r)
      BY <1>a, <1>b, <3>1, <3>2, <3>3, <3>4, NoneIsNotTerminal DEF ExecWins
    <3>7. QED
      BY <3>5, <3>6 DEF LogMoves
  <2>2. CASE ~Wins(r, {"running"})
    <3>1. ExecDue(r)' = "none" /\ \A q \in Runs : q # r => exec'[q] = exec[q]
      BY <1>5, <2>2, ExecReturnEffect, EscapeEffect DEF Publish, ExecDue
    <3>2. log' = log /\ outcome' = outcome
      BY <1>5, <2>2 DEF Publish
    <3>3. QED
      BY <1>c, <3>1, <3>2 DEF LogMoves
  <2>3. QED
    BY <2>1, <2>2
<1>6. CASE LogCompleted(r)
  <2>1. ExecDue(r)' = "none" /\ \A q \in Runs : q # r => exec'[q] = exec[q]
    BY <1>6, ExecReturnEffect DEF LogCompleted, ExecDue
  <2>2. outcome' = outcome
    BY <1>6 DEF LogCompleted
  <2>3. ExecPays(r)
    BY <1>6, <2>1 DEF LogCompleted, ExecPays, ExecDue, HasVerdict, Callback
  <2>4. QED
    BY <1>c, <2>1, <2>2, <2>3 DEF LogMoves
<1>7. CASE Fail(r)
  <2>1. CASE Wins(r, {"running"})
    <3>1. /\ Write(r, WithReview(exec[r].base, exec[r].review), "failed")
          /\ WithReview(exec[r].base, exec[r].review) \in RunRecord
          /\ "failed" \in Terminal
      BY <1>7, <2>1, ExecFields, WithReviewType
         DEF Fail, TypeOK, HasVerdict, Callback, Terminal
    <3>2. outcome[r] = "none"
      BY <2>1 DEF Wins, Decided, Active
    <3>3. ExecDue(r)' = "failed" /\ \A q \in Runs : q # r => exec'[q] = exec[q]
      BY <1>7, <2>1, ExecGotoEffect
         DEF Fail, ExecDue, Live, Staged, Unguarded, Callback
    <3>4. outcome'[r] = "failed" /\ \A q \in Runs : q # r => outcome'[q] = outcome[q]
      BY <3>1, WriteEffect DEF Status, Active, Terminal
    <3>5. log' = log
      BY <1>7 DEF Fail
    <3>6. ExecWins(r)
      BY <1>a, <1>b, <3>1, <3>2, <3>3, <3>4, NoneIsNotTerminal DEF ExecWins
    <3>7. QED
      BY <3>5, <3>6 DEF LogMoves
  <2>2. CASE ~Wins(r, {"running"})
    <3>1. ExecDue(r)' = "none" /\ \A q \in Runs : q # r => exec'[q] = exec[q]
      BY <1>7, <2>2, ExecReturnEffect, EscapeEffect DEF Fail, ExecDue
    <3>2. log' = log /\ outcome' = outcome
      BY <1>7, <2>2 DEF Fail
    <3>3. QED
      BY <1>c, <3>1, <3>2 DEF LogMoves
  <2>3. QED
    BY <2>1, <2>2
<1>8. CASE LogFailed(r)
  <2>1. ExecDue(r)' = "none" /\ \A q \in Runs : q # r => exec'[q] = exec[q]
    BY <1>8, ExecReturnEffect DEF LogFailed, ExecDue
  <2>2. outcome' = outcome
    BY <1>8 DEF LogFailed
  <2>3. ExecPays(r)
    BY <1>8, <2>1 DEF LogFailed, ExecPays, ExecDue, HasVerdict, Callback
  <2>4. QED
    BY <1>c, <2>1, <2>2, <2>3 DEF LogMoves
<1>9. CASE CallbackRead(r)
  BY <1>9, <1>c, ExecReadEffect, ExecReturnEffect
     DEF CallbackRead, ExecDue, LogMoves, Live, Staged, Unguarded, Callback
<1>10. CASE CallbackCas(r)
  <2>1. CASE Wins(r, Active)
    <3>1. /\ Write(r, exec[r].base, exec[r].verdict)
          /\ exec[r].base \in RunRecord
          /\ exec[r].verdict \in Terminal
      BY <1>10, <2>1, ExecFields
         DEF CallbackCas, TypeOK, HasVerdict, Callback, Terminal
    <3>2. outcome[r] = "none"
      BY <2>1 DEF Wins, Decided, Active
    <3>3. ExecDue(r)' = exec[r].verdict /\ \A q \in Runs : q # r => exec'[q] = exec[q]
      BY <1>10, <2>1, ExecGotoEffect
         DEF CallbackCas, ExecDue, Live, Staged, Unguarded, Callback
    <3>4. outcome'[r] = exec[r].verdict /\ \A q \in Runs : q # r => outcome'[q] = outcome[q]
      BY <3>1, WriteEffect DEF Status, Active, Terminal
    <3>5. log' = log
      BY <1>10 DEF CallbackCas
    <3>6. ExecWins(r)
      BY <1>a, <1>b, <3>1, <3>2, <3>3, <3>4, NoneIsNotTerminal DEF ExecWins
    <3>7. QED
      BY <3>5, <3>6 DEF LogMoves
  <2>2. CASE ~Wins(r, Active)
    <3>1. ExecDue(r)' = "none" /\ \A q \in Runs : q # r => exec'[q] = exec[q]
      BY <1>10, <2>2, ExecReturnEffect, EscapeEffect DEF CallbackCas, ExecDue
    <3>2. log' = log /\ outcome' = outcome
      BY <1>10, <2>2 DEF CallbackCas
    <3>3. QED
      BY <1>c, <3>1, <3>2 DEF LogMoves
  <2>3. QED
    BY <2>1, <2>2
<1>11. CASE LogCallback(r)
  <2>1. ExecDue(r)' = "none" /\ \A q \in Runs : q # r => exec'[q] = exec[q]
    BY <1>11, ExecReturnEffect DEF LogCallback, ExecDue
  <2>2. outcome' = outcome
    BY <1>11 DEF LogCallback
  <2>3. ExecPays(r)
    BY <1>11, <2>1 DEF LogCallback, ExecPays, ExecDue, HasVerdict, Callback
  <2>4. QED
    BY <1>c, <2>1, <2>2, <2>3 DEF LogMoves
<1>12. CASE WorkflowEnds(r)
  BY <1>12, <1>c, ExecGotoEffect
     DEF WorkflowEnds, ExecDue, LogMoves, Live, Staged, Unguarded, Callback
<1>13. CASE ReviewEnds(r)
  BY <1>13, <1>c, KeepReviewEffect, ExecGotoEffect
     DEF ReviewEnds, ExecDue, LogMoves, Live, Staged, Unguarded, Callback, Review
<1>14. CASE ExplainEnds(r)
  BY <1>14, <1>c, ExecGotoEffect
     DEF ExplainEnds, ExecDue, LogMoves, Live, Staged, Unguarded, Callback
<1>15. CASE ReportEnds(r)
  BY <1>15, <1>c, KeepReportEffect, ExecGotoEffect
     DEF ReportEnds, ExecDue, LogMoves, Live, Staged, Unguarded, Callback
<1>16. CASE JobStarts(r)
  BY <1>16, <1>c, ExecGotoEffect
     DEF JobStarts, ExecDue, LogMoves, Live, Staged, Unguarded, Callback
<1>17. CASE AlarmFires(r)
  BY <1>17, <1>c, EscapeEffect, ExecGotoEffect
     DEF AlarmFires, ExecDue, LogMoves, Live, Staged, Unguarded, Callback
<1>18. CASE HorseKilled(r)
  BY <1>18, <1>c, ExecReturnEffect
     DEF HorseKilled, ExecDue, LogMoves, Live, Staged, Unguarded, Callback
<1>19. CASE GracePasses(r)
  <2>1. log' = log /\ outcome' = outcome /\ exec' = exec
    BY <1>19 DEF GracePasses
  <2>2. QED
    BY <1>d, <2>1 DEF LogMoves
<1>20. CASE ExecRaises(r)
  BY <1>20, <1>c, EscapeEffect
     DEF ExecRaises, ExecDue, LogMoves, Live, Staged, Unguarded, Callback
<1>21. CASE HorseDies(r)
  BY <1>21, <1>c, ExecReturnEffect, EscapeEffect
     DEF HorseDies, ExecDue, LogMoves, Live, Staged, Unguarded, Callback
<1>22. CASE RunExpires(r)
  <2>1. log' = log /\ outcome' = outcome /\ exec' = exec
    BY <1>22 DEF RunExpires
  <2>2. QED
    BY <1>d, <2>1 DEF LogMoves
<1> QED
  BY <1>1, <1>2, <1>3, <1>4, <1>5, <1>6, <1>7, <1>8, <1>9, <1>10, <1>11, <1>12,
     <1>13, <1>14, <1>15, <1>16, <1>17, <1>18, <1>19, <1>20, <1>21, <1>22
     DEF ExecStep, StageEnds, Environment

(* Every step changes the log in one of these ways.                        *)
LEMMA NextLogMoves ==
    ASSUME TypeInv, RunInv, [Next]_vars
    PROVE  LogMoves
<1>0. TypeOK
  BY DEF TypeInv
<1>1. ASSUME NEW h \in Handlers, Request(h) PROVE LogMoves
  <2> DEFINE Frame == /\ \A g \in Handlers : g # h => handler'[g] = handler[g]
                      /\ handler'[h].pc \in {"save", "replay_read", "can_read", "to_read",
                                             "ack_write"}
  <2>1. ASSUME NEW c \in Commands, NEW k \in Keys \cup {None}, NEW r \in Runs,
               CreateRun(h, c, k, r)
        PROVE  Frame
    BY <1>0, <2>1, CreateRunEffect
  <2>2. ASSUME NEW c \in Commands, NEW k \in Keys, KeyTaken(h, c, k) PROVE Frame
    BY <1>0, <2>2, KeyTakenEffect
  <2>3. ASSUME NEW r \in Runs, CancelRun(h, r) PROVE Frame
    BY <1>0, <2>3, CancelRunEffect
  <2>4. ASSUME NEW r \in Runs, GetRun(h, r) PROVE Frame
    BY <1>0, <2>4, GetRunEffect
  <2>5. ASSUME NEW r \in Runs, NEW n \in Notes \cup {None}, Acknowledge(h, r, n)
        PROVE  Frame
    BY <1>0, <2>5, AcknowledgeEffect
  <2>6. exec' = exec /\ log' = log /\ outcome' = outcome
    BY <1>1 DEF Request, CreateRun, KeyTaken, CancelRun, GetRun, Acknowledge
  <2>7. Frame
    <3> HIDE DEF Frame
    <3> QED
      BY <1>1, <2>1, <2>2, <2>3, <2>4, <2>5 DEF Request
  <2>8. NobodyWins
    BY <2>6, <2>7 DEF NobodyWins, HandlerQuiet, HandlerDue, ExecQuiet, ExecDue
  <2>9. QED
    BY <2>6, <2>8 DEF LogMoves
<1>2. ASSUME NEW h \in Handlers, HandlerStep(h) \/ EnqueueRaises(h) \/ HandlerFails(h)
      PROVE  LogMoves
  BY <1>2, HandlerLogMoves
<1>3. ASSUME NEW r \in Runs, ExecStep(r) \/ StageEnds(r) \/ Environment(r)
      PROVE  LogMoves
  BY <1>3, ExecLogMoves
<1>4. ASSUME log' = log, outcome' = outcome, exec' = exec, handler' = handler
      PROVE  LogMoves
  BY <1>4 DEF LogMoves, NobodyWins, HandlerQuiet, HandlerDue, ExecQuiet, ExecDue
<1>5. QED
  BY <1>1, <1>2, <1>3, <1>4 DEF Next, KeyExpires, vars

(* The logs are empty initially.                                           *)
LEMMA LogInvInit == Init => LogInv
<1> SUFFICES ASSUME Init PROVE LogInv
  OBVIOUS
<1>1. \A r \in Runs : DOMAIN log[r] = {}
  <2>1. \A r \in Runs : log[r] = <<>>
    BY DEF Init
  <2>2. ASSUME NEW r \in Runs PROVE log[r] = <<>>
    BY <2>1
  <2>3. DOMAIN <<>> = {}
    OBVIOUS
  <2>4. QED
    BY <2>1, <2>3
<1>2. DueIsDecided /\ OneDue
  BY DEF Init, Idle, NoExec, DueIsDecided, OneDue, HandlerDue, ExecDue
<1>3. UndecidedIsUnlogged /\ OneTerminalEvent
  BY <1>1 DEF UndecidedIsUnlogged, Unlogged, OneTerminalEvent
<1>4. QED
  BY <1>2, <1>3 DEF LogInv

(* The invariant of the logs holds in every reachable state.               *)
THEOREM LogInvHolds == Spec => []LogInv
<1>1. TypeInv /\ RunInv /\ LogInv /\ [Next]_vars => LogInv'
  BY NextLogMoves, LogMovesKeepLog
<1>2. QED
  BY <1>1, LogInvInit, TypeInvHolds, RunInvHolds, PTL DEF Spec

(* The log of a run names one terminal event, the outcome that won.        *)
THEOREM LogCorrect == Spec => []OneTerminalEvent
<1>1. LogInv => OneTerminalEvent
  BY DEF LogInv
<1>2. QED
  BY <1>1, LogInvHolds, PTL

-----------------------------------------------------------------------------
(* Idempotency: a record names the request its run was proposed for.       *)
ClaimsAgree ==
    \A k \in Keys :
        idem[k].run # None => /\ idem[k].run \in Runs /\ idem[k].cmd \in Commands
                              /\ payload[idem[k].run] = idem[k].cmd

(* So does a replay, whatever has become of the record it read.            *)
ReplaysAgree ==
    \A h \in Handlers :
        handler[h].pc = "replay" => /\ handler[h].run \in Runs
                                    /\ handler[h].cmd \in Commands
                                    /\ payload[handler[h].run] = handler[h].cmd

ReplayInv == ClaimsAgree /\ ReplaysAgree

(* Only the read of a claim makes a handler answer a replay.               *)
LEMMA HandlerReplays ==
    ASSUME TypeInv, NEW h \in Handlers,
           HandlerStep(h) \/ EnqueueRaises(h) \/ HandlerFails(h)
    PROVE  /\ idem' = idem /\ payload' = payload
           /\ \A g \in Handlers : g # h => handler'[g] = handler[g]
           /\ handler'[h].pc = "replay" => ReplayRead(h)
<1>0. TypeOK /\ Located
  BY DEF TypeInv
<1> USE <1>0 DEF Located
<1>1. CASE ReplayRead(h)
  BY <1>1, ReplayReadEffect DEF ReplayRead
<1>2. CASE Replay(h) \/ Enqueue(h) \/ LogEqf(h) \/ LogTimedOut(h) \/ LogAck(h)
           \/ CancelJob(h) \/ HandlerFails(h)
  BY <1>2, ReturnEffect
     DEF Replay, Enqueue, LogEqf, LogTimedOut, LogAck, CancelJob, HandlerFails
<1>3. CASE Save(h)
  BY <1>3, GotoEffect DEF Save, HandlerPCs
<1>4. CASE LogCreated(h)
  BY <1>4, GotoEffect, ReturnEffect DEF LogCreated, HandlerPCs
<1>5. CASE EnqRead(h)
  BY <1>5, ReadThenEffect, ReturnEffect DEF EnqRead, HandlerPCs
<1>6. CASE EnqCas(h)
  BY <1>6, GotoEffect, ReturnEffect DEF EnqCas, HandlerPCs
<1>7. CASE LogEnqueued(h)
  BY <1>7, GotoEffect DEF LogEnqueued, HandlerPCs
<1>8. CASE EqfRead(h)
  BY <1>8, ReturnEffect, ReadThenEffect DEF EqfRead, HandlerPCs
<1>9. CASE EqfCas(h)
  BY <1>9, GotoEffect, ReturnEffect DEF EqfCas, HandlerPCs
<1>10. CASE CancelRead(h)
  BY <1>10, ReadThenEffect, ReturnEffect DEF CancelRead, HandlerPCs
<1>11. CASE CancelCas(h)
  BY <1>11, GotoEffect, ReturnEffect DEF CancelCas, HandlerPCs
<1>12. CASE LogCancelled(h)
  BY <1>12, GotoEffect, ReturnEffect DEF LogCancelled, HandlerPCs
<1>13. CASE TimedOutRead(h)
  BY <1>13, ReadThenEffect, ReturnEffect DEF TimedOutRead, HandlerPCs
<1>14. CASE TimedOutCas(h)
  BY <1>14, GotoEffect, ReturnEffect DEF TimedOutCas, HandlerPCs
<1>15. CASE AckWrite(h)
  BY <1>15, GotoEffect, ReturnEffect DEF AckWrite, HandlerPCs
<1>16. CASE EnqueueRaises(h)
  BY <1>16, GotoEffect DEF EnqueueRaises, HandlerPCs
<1> QED
  BY <1>1, <1>2, <1>3, <1>4, <1>5, <1>6, <1>7, <1>8, <1>9, <1>10, <1>11, <1>12,
     <1>13, <1>14, <1>15, <1>16
     DEF HandlerStep

(* A new request never starts with the answer.                             *)
LEMMA RequestReplays ==
    ASSUME TypeInv, NEW h \in Handlers, Request(h)
    PROVE  /\ \A g \in Handlers : g # h => handler'[g] = handler[g]
           /\ handler'[h].pc # "replay"
<1>0. TypeOK
  BY DEF TypeInv
<1>1. ASSUME NEW c \in Commands, NEW k \in Keys \cup {None}, NEW r \in Runs,
             CreateRun(h, c, k, r)
      PROVE  /\ \A g \in Handlers : g # h => handler'[g] = handler[g]
             /\ handler'[h].pc # "replay"
  BY <1>0, <1>1, CreateRunEffect
<1>2. CASE ~\E c \in Commands, k \in Keys \cup {None}, r \in Runs : CreateRun(h, c, k, r)
  BY <1>0, <1>2, KeyTakenEffect, CancelRunEffect, GetRunEffect, AcknowledgeEffect
     DEF Request
<1> QED
  BY <1>1, <1>2

(* What a run id was proposed for stays, and so does what agrees with it.  *)
LEMMA CreateKeepsClaims ==
    ASSUME TypeInv, ClaimsAgree, NEW h \in Handlers, NEW c \in Commands,
           NEW k \in Keys \cup {None}, NEW r \in Runs, CreateRun(h, c, k, r)
    PROVE  /\ ClaimsAgree'
           /\ \A q \in Runs : payload[q] \in Commands => payload'[q] = payload[q]
<1>1. payload \in [Runs -> Commands \cup {None}] /\ idem \in [Keys -> IdemRecord]
  BY DEF TypeInv, TypeOK
<1>2. payload[r] = None /\ payload' = [payload EXCEPT ![r] = c]
      /\ idem' = IF k = None THEN idem ELSE [idem EXCEPT ![k] = [run |-> r, cmd |-> c]]
  BY DEF CreateRun
<1>3. \A q \in Runs : payload[q] \in Commands => payload'[q] = payload[q]
  BY <1>1, <1>2, ConstantsAssumption
<1>4. ASSUME NEW j \in Keys, idem'[j].run # None
      PROVE  /\ idem'[j].run \in Runs /\ idem'[j].cmd \in Commands
             /\ payload'[idem'[j].run] = idem'[j].cmd
  <2>1. CASE j = k
    <3>1. k # None
      BY <2>1, ConstantsAssumption
    <3>2. idem'[j] = [run |-> r, cmd |-> c]
      BY <1>1, <1>2, <2>1, <3>1
    <3> QED
      BY <1>1, <1>2, <3>2
  <2>2. CASE j # k
    <3>1. idem'[j] = idem[j]
      BY <1>1, <1>2, <2>2
    <3> QED
      BY <1>3, <1>4, <3>1 DEF ClaimsAgree
  <2> QED
    BY <2>1, <2>2
<1> QED
  BY <1>3, <1>4 DEF ClaimsAgree

(* The claim that a replay reads names the run of its own request.         *)
LEMMA ReplayReadAgrees ==
    ASSUME TypeInv, ClaimsAgree, NEW h \in Handlers, ReplayRead(h),
           handler'[h].pc = "replay"
    PROVE  /\ handler'[h].run \in Runs /\ handler'[h].cmd \in Commands
           /\ payload[handler'[h].run] = handler'[h].cmd
<1>0. TypeOK /\ Located
  BY DEF TypeInv
<1>1. SameRequest(handler[h].key, handler[h].cmd)
  BY <1>0, ReturnEffect DEF ReplayRead
<1> DEFINE k == handler[h].key
<1>2. k \in Keys /\ idem[k].run # None /\ idem[k].cmd = handler[h].cmd
  BY <1>0, <1>1 DEF ReplayRead, Located, SameRequest
<1>3. handler[h] \in HandlerRecord
  BY <1>0 DEF TypeOK
<1>4. handler' = [handler EXCEPT ![h] = [handler[h] EXCEPT !.run = idem[k].run,
                                                           !.pc = "replay"]]
  BY <1>0, <1>1 DEF ReplayRead, TypeOK
<1> HIDE DEF k
<1>5. handler'[h].run = idem[k].run /\ handler'[h].cmd = handler[h].cmd
  BY <1>0, <1>3, <1>4 DEF TypeOK, HandlerRecord
<1> QED
  BY <1>2, <1>5 DEF ClaimsAgree

LEMMA ReplayInvNext ==
    ASSUME TypeInv, ReplayInv, [Next]_vars
    PROVE  ReplayInv'
<1>0. ClaimsAgree /\ ReplaysAgree
  BY DEF ReplayInv
<1>1. ASSUME NEW h \in Handlers, Request(h) PROVE ReplayInv'
  <2>1. CASE \E c \in Commands, k \in Keys \cup {None}, r \in Runs : CreateRun(h, c, k, r)
    <3>1. ClaimsAgree'
          /\ \A q \in Runs : payload[q] \in Commands => payload'[q] = payload[q]
      BY <1>0, <2>1, CreateKeepsClaims
    <3> QED
      BY <1>0, <1>1, <3>1, RequestReplays DEF ReplayInv, ReplaysAgree
  <2>2. ASSUME NEW c \in Commands, NEW k \in Keys, KeyTaken(h, c, k)
        PROVE  idem' = idem /\ payload' = payload
    BY <2>2 DEF KeyTaken
  <2>3. ASSUME NEW r \in Runs, CancelRun(h, r) \/ GetRun(h, r)
        PROVE  idem' = idem /\ payload' = payload
    BY <2>3 DEF CancelRun, GetRun
  <2>4. ASSUME NEW r \in Runs, NEW n \in Notes \cup {None}, Acknowledge(h, r, n)
        PROVE  idem' = idem /\ payload' = payload
    BY <2>4 DEF Acknowledge
  <2>5. CASE idem' = idem /\ payload' = payload
    BY <1>0, <1>1, <2>5, RequestReplays DEF ReplayInv, ReplaysAgree, ClaimsAgree
  <2> QED
    BY <1>1, <2>1, <2>2, <2>3, <2>4, <2>5 DEF Request
<1>2. ASSUME NEW h \in Handlers, HandlerStep(h) \/ EnqueueRaises(h) \/ HandlerFails(h)
      PROVE  ReplayInv'
  <2>1. /\ idem' = idem /\ payload' = payload
        /\ \A g \in Handlers : g # h => handler'[g] = handler[g]
        /\ handler'[h].pc = "replay" => ReplayRead(h)
    BY <1>2, HandlerReplays
  <2>2. ClaimsAgree'
    BY <1>0, <2>1 DEF ClaimsAgree
  <2>3. ASSUME NEW g \in Handlers, handler'[g].pc = "replay"
        PROVE  /\ handler'[g].run \in Runs /\ handler'[g].cmd \in Commands
               /\ payload'[handler'[g].run] = handler'[g].cmd
    BY <1>0, <2>1, <2>3, ReplayReadAgrees DEF ReplaysAgree
  <2> QED
    BY <2>2, <2>3 DEF ReplayInv, ReplaysAgree
<1>3. ASSUME NEW r \in Runs, ExecStep(r) \/ StageEnds(r) \/ Environment(r)
      PROVE  ReplayInv'
  <2>1. idem' = idem /\ payload' = payload /\ handler' = handler
    BY <1>3, ExecFrame
       DEF ExecStep, StageEnds, Environment, ExecRead, ExecClaim, LogStarted, ExecCheck,
           Publish, LogCompleted, Fail, LogFailed, CallbackRead, CallbackCas,
           LogCallback, WorkflowEnds, ReviewEnds, ExplainEnds, ReportEnds, JobStarts,
           AlarmFires, HorseKilled, GracePasses, ExecRaises, HorseDies, RunExpires
  <2> QED
    BY <1>0, <2>1 DEF ReplayInv, ReplaysAgree, ClaimsAgree
<1>4. ASSUME NEW k \in Keys, KeyExpires(k) PROVE ReplayInv'
  <2>1. idem' = [idem EXCEPT ![k] = NoClaim] /\ payload' = payload /\ handler' = handler
    BY <1>4 DEF KeyExpires
  <2>2. idem \in [Keys -> IdemRecord] /\ NoClaim.run = None
    BY DEF TypeInv, TypeOK, NoClaim
  <2>3. ClaimsAgree'
    BY <1>0, <2>1, <2>2 DEF ClaimsAgree
  <2> QED
    BY <1>0, <2>1, <2>3 DEF ReplayInv, ReplaysAgree
<1>5. CASE UNCHANGED vars
  BY <1>0, <1>5 DEF vars, ReplayInv, ReplaysAgree, ClaimsAgree
<1> QED
  BY <1>1, <1>2, <1>3, <1>4, <1>5 DEF Next

(* A replayed key answers only with a run that was created for the same    *)
(* request, even if the key expires and is claimed again in between.       *)
THEOREM ReplayCorrect == Spec => []ReplayMatchesRequest
<1>1. Init => ReplayInv
  BY DEF Init, ReplayInv, ClaimsAgree, ReplaysAgree, NoClaim, Idle
<1>2. ReplayInv => ReplayMatchesRequest
  BY DEF ReplayInv, ReplaysAgree, ReplayMatchesRequest
<1> QED
  BY <1>1, <1>2, TypeInvHolds, ReplayInvNext, PTL DEF Spec

-----------------------------------------------------------------------------
(* Refinement: the moves of a run are the actions of its specification.    *)
LEMMA InitRefines == Init => Abstract!Init
  BY DEF Init, Absent, Abstract!Init

(* A move of a run is a step of the specification, or a stutter.           *)
LEMMA MoveRefines ==
    ASSUME TypeInv, RunInv, OneRunMoves, TypeInv'
    PROVE  [Abstract!Next]_(Abstract!vars)
<1> DEFINE s == [q \in Runs |-> run[q].status]
           t == [q \in Runs |-> run'[q].status]
<1>0. /\ outcome \in [Runs -> {"none"} \cup Terminal]
      /\ outcome' \in [Runs -> {"none"} \cup Terminal]
      /\ Decided
  BY DEF TypeInv, TypeOK, RunInv
<1>1. CASE run' = run /\ outcome' = outcome
  BY <1>1 DEF Abstract!vars
<1>2. ASSUME NEW r \in Runs, RunMoves(r),
             \A q \in Runs : q # r => run'[q] = run[q] /\ outcome'[q] = outcome[q]
      PROVE  [Abstract!Next]_(Abstract!vars)
  <2>1. t = [s EXCEPT ![r] = run'[r].status]
    BY <1>2
  <2>2. outcome' = [outcome EXCEPT ![r] = outcome'[r]]
    BY <1>0, <1>2
  <2>3. outcome'[r] = outcome[r] => outcome' = outcome
    BY <1>0, <2>2
  <2>4. run'[r].status = run[r].status => t = s
    BY <2>1
  <2>5. s[r] = run[r].status
    OBVIOUS
  <2> HIDE DEF s, t
  <2>6. CASE Submits(r)
    BY <2>1, <2>3, <2>5, <2>6 DEF Submits, s, t, Abstract!Next, Abstract!Submit
  <2>7. CASE Proceeds(r)
    BY <2>1, <2>3, <2>4, <2>5, <2>7
       DEF Proceeds, Active, s, t, Abstract!Next, Abstract!Start, Abstract!vars
  <2>8. CASE Settles(r)
    <3>1. outcome[r] = "none"
      BY <1>0, <2>8 DEF Settles, Decided
    <3>2. PICK x \in Terminal : x = run'[r].status
      BY <2>8 DEF Settles
    <3>3. Abstract!Finish(r, x)
      BY <2>1, <2>2, <2>5, <2>8, <3>1, <3>2
         DEF Settles, Active, Terminal, s, t, Abstract!Finish, Abstract!Active
    <3>4. QED
      BY <3>3 DEF Terminal, Abstract!Terminal, Abstract!Next
  <2>9. CASE Vanishes(r)
    <3>1. /\ run[r].status # "absent" /\ run'[r].status = "absent"
          /\ outcome'[r] = outcome[r]
      BY <2>9 DEF Vanishes, Absent
    <3>2. Abstract!Expire(r)
      BY <2>1, <2>3, <2>5, <3>1 DEF s, t, Abstract!Expire
    <3>3. QED
      BY <3>2 DEF Abstract!Next
  <2>10. CASE IsAcknowledged(r)
    <3>1. run[r].status \in {"absent", "completed"}
      BY <1>0, <2>10
         DEF IsAcknowledged, Decided, TypeInv, TypeOK, RunRecord, Status, Active,
             Terminal
    <3>2. QED
      BY <2>1, <2>3, <2>4, <2>5, <2>10, <3>1
         DEF IsAcknowledged, s, t, Abstract!Next, Abstract!Restore, Abstract!vars
  <2>11. QED
    BY <1>2, <2>6, <2>7, <2>8, <2>9, <2>10 DEF RunMoves
<1>3. QED
  BY <1>1, <1>2 DEF OneRunMoves

(* Clients of the run store see the status register that RunSpec describes. *)
THEOREM Refinement == Spec => ImplementsRunSpec
<1>1. TypeInv /\ RunInv /\ [Next]_vars => [Abstract!Next]_(Abstract!vars)
  BY TypeInvNext, NextMovesOne, MoveRefines
<1>2. QED
  BY <1>1, InitRefines, TypeInvHolds, RunInvHolds, PTL
     DEF Spec, ImplementsRunSpec, Abstract!Spec

=============================================================================
