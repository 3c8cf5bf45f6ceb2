------------------------------ MODULE RunSpec ------------------------------
(***************************************************************************)
(* What the run store promises to its clients: a run is a status register  *)
(* that moves from queued through running to one outcome.  Whoever looks   *)
(* at the run, at any time, sees at most that one outcome, even though the *)
(* Redis key that holds it may expire and may be written back by a request *)
(* that had read it before.                                                *)
(*                                                                         *)
(* Nothing is said here of handlers, workers, queues or timers: they are   *)
(* in RunLifecycle, which implements this module.                          *)
(***************************************************************************)
CONSTANT Runs                   \* run identifiers

VARIABLES status,               \* the visible status, "absent" without a key
          outcome               \* the outcome ever decided, "none" before

vars == <<status, outcome>>

(* RunStatus: the statuses a run never leaves, and the ones it may leave.  *)
Terminal == {"completed", "failed", "cancelled", "timed_out"}
Active   == {"queued", "running"}
Status   == {"absent"} \cup Active \cup Terminal

TypeOK ==
    /\ status \in [Runs -> Status]
    /\ outcome \in [Runs -> {"none"} \cup Terminal]

Init ==
    /\ status = [r \in Runs |-> "absent"]
    /\ outcome = [r \in Runs |-> "none"]

-----------------------------------------------------------------------------

Submit(r) ==
    /\ status[r] = "absent"
    /\ outcome[r] = "none"
    /\ status' = [status EXCEPT ![r] = "queued"]
    /\ UNCHANGED outcome

Start(r) ==
    /\ status[r] = "queued"
    /\ status' = [status EXCEPT ![r] = "running"]
    /\ UNCHANGED outcome

(* Only a running run completes; the other outcomes may come earlier.      *)
Finish(r, t) ==
    /\ status[r] \in Active
    /\ t = "completed" => status[r] = "running"
    /\ outcome[r] = "none"
    /\ status' = [status EXCEPT ![r] = t]
    /\ outcome' = [outcome EXCEPT ![r] = t]

Expire(r) ==
    /\ status[r] # "absent"
    /\ status' = [status EXCEPT ![r] = "absent"]
    /\ UNCHANGED outcome

(* An acknowledgement that read the run before its key expired writes it   *)
(* back: the outcome it restores is the one that was decided.              *)
Restore(r) ==
    /\ status[r] = "absent"
    /\ outcome[r] # "none"
    /\ status' = [status EXCEPT ![r] = outcome[r]]
    /\ UNCHANGED outcome

Next ==
    \E r \in Runs :
        \/ Submit(r)
        \/ Start(r)
        \/ \E t \in Terminal : Finish(r, t)
        \/ Expire(r)
        \/ Restore(r)

Spec == Init /\ [][Next]_vars

=============================================================================
