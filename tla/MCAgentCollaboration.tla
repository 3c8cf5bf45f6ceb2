------------------------ MODULE MCAgentCollaboration ------------------------
(* Small instances of AgentCollaboration for TLC.                          *)
EXTENDS AgentCollaboration

CONSTANTS a1, a2, poi, spatial

TwoConversations == {a1, a2}
TwoSpecialists   == {poi, spatial}

(* Two reviews contend for the memory of the supervisor and the critic.    *)
Shared == [delegations |-> 1, reflections |-> 0, calls |-> 2,
           users |-> TwoConversations]

(* One review with room for redelegations, just within LangGraph's limit;  *)
(* and one whose budget goes beyond it.                                    *)
Long  == [delegations |-> 2, reflections |-> 2, calls |-> 6, users |-> {a1}]
Large == [delegations |-> 1, reflections |-> 4, calls |-> 12, users |-> {a1}]

AllBudgets == {Shared, Long, Large}

=============================================================================
