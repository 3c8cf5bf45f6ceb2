------------------------ MODULE MCSupervisorSession ------------------------
(* Small instances of SupervisorSession for TLC.                           *)
EXTENDS SupervisorSession, TLC

CONSTANTS r1, r2, a, b, forged, h1, h2, w

OneRun        == {r1}
TwoRuns       == {r1, r2}
OneSelection  == {a}
TwoSelections == {a, b}
WithForgery   == {a, forged}
OneHandler    == {h1}
TwoHandlers   == {h1, h2}

(* Handlers and runs are interchangeable in every action, and so are       *)
(* selections where all are allowed.                                       *)
Symmetry == Permutations(TwoHandlers) \cup Permutations(TwoRuns)
              \cup Permutations(TwoSelections)

(* Bounds of the runs in which locks or leases run out.  A run that has    *)
(* started is to a session what a queued one is, and the outcomes other    *)
(* than "completed" differ in the names of their events.  A session that   *)
(* is never disturbed has five checkpoints, and five events or six; states *)
(* one past a bound are still checked, but not left.                       *)
MaxVersion == 6
MaxEvents  == 5

Bounded ==
    /\ \A r \in Runs : status[r] \in {"absent", "queued", "completed", "failed"}
    /\ version <= MaxVersion
    /\ Len(events) <= MaxEvents

(* A worker reports a run as a poll that has found its end does.           *)
NoWorker == Bounded /\ ~resumed

=============================================================================
