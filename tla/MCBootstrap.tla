---------------------------- MODULE MCBootstrap ----------------------------
(* Small instances of Bootstrap for TLC.                                   *)
EXTENDS Bootstrap, TLC

CONSTANTS api, job

OneJob     == {job}
NoJobs     == {}
Nothing    == {}
Online     == {"poi", "landUse", "supervisor"}
Choices    == {"land", "async", "agents"}
OnlyLand   == {"land"}

=============================================================================
