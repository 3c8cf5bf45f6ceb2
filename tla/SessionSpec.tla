----------------------------- MODULE SessionSpec -----------------------------
(***************************************************************************)
(* What a Supervisor session promises: a reviewer chooses candidates once, *)
(* the choice is submitted as one run, and the session ends with the       *)
(* outcome of that run, which RunSpec decides.                             *)
(*                                                                         *)
(* Requests, locks, leases and checkpoints are in SupervisorSession, which *)
(* implements this module as long as no lease and no held lock runs out.   *)
(***************************************************************************)
CONSTANTS Runs,                 \* run identifiers
          Selections,           \* what a reviewer may choose
          None                  \* no run, no selection

VARIABLES phase,                \* where the session stands
          choice,               \* the selection submitted
          analysis,             \* the run submitted for it
          result,               \* the outcome reported to the reviewer
          status, outcome       \* the run store

session == <<phase, choice, analysis, result>>
vars    == <<session, status, outcome>>

RunStore == INSTANCE RunSpec

Init ==
    /\ phase = "absent"
    /\ choice = None
    /\ analysis = None
    /\ result = "none"
    /\ RunStore!Init

-----------------------------------------------------------------------------

Open ==
    /\ phase = "absent"
    /\ phase' = "choosing"
    /\ UNCHANGED <<choice, analysis, result>>

Choose(s) ==
    /\ phase = "choosing"
    /\ phase' = "submitting"
    /\ choice' = s
    /\ UNCHANGED <<analysis, result>>

Await(r) ==
    /\ phase = "submitting"
    /\ status[r] # "absent"
    /\ phase' = "awaiting"
    /\ analysis' = r
    /\ UNCHANGED <<choice, result>>

(* The result is the outcome of the session's own run.                     *)
Learn(t) ==
    /\ phase = "awaiting"
    /\ outcome[analysis] = t
    /\ phase' = "settling"
    /\ result' = t
    /\ UNCHANGED <<choice, analysis>>

End ==
    /\ phase = "settling"
    /\ phase' = "ended"
    /\ UNCHANGED <<choice, analysis, result>>

Next ==
    \/ /\ \/ Open
          \/ \E s \in Selections : Choose(s)
          \/ \E r \in Runs : Await(r)
          \/ \E t \in RunStore!Terminal : Learn(t)
          \/ End
       /\ UNCHANGED <<status, outcome>>
    \/ RunStore!Next /\ UNCHANGED session

Spec == Init /\ [][Next]_vars

=============================================================================
