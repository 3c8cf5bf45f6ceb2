-------------------------- MODULE MCRunLifecycle --------------------------
(* Small instances of RunLifecycle for TLC.                                *)
EXTENDS RunLifecycle, TLC

CONSTANTS r1, r2, k1, c1, c2, h1, h2, n1

OneRun       == {r1}
TwoRuns      == {r1, r2}
NoKeys       == {}
OneKey       == {k1}
OneCommand   == {c1}
TwoCommands  == {c1, c2}
OneHandler   == {h1}
TwoHandlers  == {h1, h2}
OneNote      == {n1}
NoNotes      == {}

(* Of a run's execution nothing is read that answers a repeated request:   *)
(* one of the runs is not executed further than to its start.              *)
OneExecuted ==
    \A r, s \in Runs : r # s => \E x \in {r, s} : exec[x].pc \in {"none", "read"}

(* Runs, requests and threads are interchangeable in every action.         *)
Alike == Permutations(Runs) \cup Permutations(Commands) \cup Permutations(Handlers)

=============================================================================
