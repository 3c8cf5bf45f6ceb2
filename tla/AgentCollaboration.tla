-------------------------- MODULE AgentCollaboration --------------------------
(***************************************************************************)
(* The optional review of a finished analysis by language-model agents: a  *)
(* supervisor delegates to specialists and hands over to a critic, within  *)
(* a budget, behind the harness that projects the evidence.  Reviews of    *)
(* several runs go on at once and share, through Redis, one memory hash    *)
(* per role.                                                               *)
(*                                                                         *)
(* A model's reply is what the graph tells apart of it: what it asks for,  *)
(* whether it cites only known evidence, whether the message made of it is *)
(* valid, and whether it updates the memory of its role, blindly or naming *)
(* the revision it was shown.                                              *)
(***************************************************************************)
EXTENDS Integers, FiniteSets

CONSTANTS
    Conversations,
    Specialists,    \* roles: POI, spatial and policy agents
    Budgets,        \* the configured budgets, with the reviews they are for
    MaxRetries,     \* max_conflict_retries of the memory store
    RecursionLimit  \* supersteps LangGraph grants a graph

ASSUME ConstantsAssumption ==
    /\ Budgets \subseteq [delegations : Nat \ {0}, reflections : Nat,
                          calls : Nat \ {0, 1}, users : SUBSET Conversations]
    /\ {MaxRetries, RecursionLimit} \subseteq Nat \ {0}
    /\ Specialists # {}
    /\ {"supervisor", "review", "accept", "redelegate", "human_review",
        "finding"} \cap Specialists = {}

VARIABLES
    budget,     \* CollaborationBudget
    memory,     \* Redis: the revision of the record of each role, 0 if none
    call,       \* the state of each review
    broken      \* history: reviews one of whose agents failed

vars == <<budget, memory, call, broken>>

-----------------------------------------------------------------------------

Roles == Specialists \cup {"supervisor", "review"}

(* SupervisorDecision, SpecialistResponse and ReviewVerdict.  To delegate  *)
(* is to name a specialist.                                                *)
Acts(role) ==
    CASE role = "supervisor" -> Specialists \cup {"review", "human_review"}
      [] role = "review"     -> {"accept", "redelegate", "human_review"}
      [] OTHER               -> {"finding"}

Replies(role) == [act    : Acts(role),
                  cites  : {"known", "unknown"},
                  valid  : BOOLEAN,
                  update : {"none", "blind", "checked"}]

AnyReply == UNION {Replies(role) : role \in Roles}
NoReply  == [act |-> "finding", cites |-> "known", valid |-> TRUE, update |-> "none"]

Statuses == {"accepted", "human_review", "budget_exhausted", "failed"}

(* CollaborationGraphState, and the call of the agent in hand: the         *)
(* revision it was shown, what became of that record since, and the        *)
(* optimistic transaction that writes its memory.                          *)
Graph == [pc          : {"idle", "enter", "think", "watch", "exec",
                         "finalize", "done", "raised", "aborted"},
          node        : Roles,
          delegations : Nat,
          rounds      : Nat,
          calls       : Nat,
          steps       : Nat,         \* supersteps of the graph
          status      : Statuses \cup {"none"},
          reply       : AnyReply,
          shown       : Nat,
          since       : SUBSET {"written", "expired"},
          read        : Nat,
          dirty       : BOOLEAN,     \* the watched hash has changed
          tries       : 0..MaxRetries]

TypeOK ==
    /\ budget \in Budgets
    /\ memory \in [Roles -> Nat]
    /\ call \in [Conversations -> Graph]
    /\ broken \subseteq Conversations

Init ==
    /\ budget \in Budgets
    /\ memory = [role \in Roles |-> 0]
    /\ call = [c \in Conversations |->
                 [pc |-> "idle", node |-> "supervisor", delegations |-> 0,
                  rounds |-> 0, calls |-> 0, steps |-> 0, status |-> "none",
                  reply |-> NoReply, shown |-> 0, since |-> {}, read |-> 0,
                  dirty |-> FALSE, tries |-> 0]]
    /\ broken = {}

-----------------------------------------------------------------------------
(* How a node of the graph returns.                                        *)

At(c, pc) == call[c].pc = pc

Forget(s) == [s EXCEPT !.reply = NoReply, !.shown = 0, !.since = {},
                       !.read = 0, !.dirty = FALSE, !.tries = 0]

Goto(s, node) == [Forget(s) EXCEPT !.pc = "enter", !.node = node,
                                   !.steps = s.steps + 1]

(* A terminal status routes every node to finalize.                        *)
Stop(s, status) == [Forget(s) EXCEPT !.pc = "finalize", !.status = status,
                                     !.steps = s.steps + 1]

Charged(s) == [s EXCEPT !.calls = @ + 1]

(* _agent_failure.                                                         *)
Failed(s) == Stop(Charged(s), "failed")

AfterSupervisor(s) ==
    LET act == s.reply.act IN
    CASE act = "human_review" -> Stop(Charged(s), "human_review")
      [] act = "review"       -> Goto(Charged(s), "review")
      [] OTHER -> Goto([Charged(s) EXCEPT !.delegations = @ + 1], act)

AfterSpecialist(s) == Goto(Charged(s), "supervisor")

(* Mutant: the round in hand is not counted.                               *)
SpentByOne(s) == s.rounds > budget.reflections
Spent(s) == s.rounds + 1 > budget.reflections

AfterReview(s) ==
    LET act == s.reply.act IN
    CASE act = "accept"       -> Stop(Charged(s), "accepted")
      [] act = "human_review" -> Stop(Charged(s), "human_review")
      [] OTHER -> IF Spent(s)
                  THEN Stop(Charged(s), "budget_exhausted")
                  ELSE Goto([Charged(s) EXCEPT !.rounds = @ + 1], "supervisor")

(* The message is built outside the handler that turns an agent's failure  *)
(* into a status: one its contract refuses, for its length or a repeated   *)
(* reference, is an exception that leaves the graph.                       *)
Posted(s) ==
    IF ~s.reply.valid THEN [Forget(s) EXCEPT !.pc = "raised"]
    ELSE CASE s.node = "supervisor" -> AfterSupervisor(s)
           [] s.node = "review"     -> AfterReview(s)
           [] OTHER                 -> AfterSpecialist(s)

-----------------------------------------------------------------------------
(* A review.                                                               *)

Step(c, s) == call' = [call EXCEPT ![c] = s]

(* AgentHarness.review: evidence beyond the context budget is reported     *)
(* without a call of a model.                                              *)
Start(c) ==
    /\ At(c, "idle") /\ c \in budget.users
    /\ \/ Step(c, [call[c] EXCEPT !.pc = "enter"])
       \/ Step(c, [call[c] EXCEPT !.pc = "done", !.status = "failed"])
    /\ UNCHANGED <<budget, memory, broken>>

Overdrawn(s) == s.calls >= budget.calls

Saturated(s) == s.node = "supervisor" /\ s.delegations >= budget.delegations

(* The next node would be one superstep too many: GraphRecursionError.     *)
Abort(c) ==
    /\ At(c, "enter") \/ At(c, "finalize")
    /\ call[c].steps >= RecursionLimit
    /\ Step(c, [call[c] EXCEPT !.pc = "aborted"])
    /\ UNCHANGED <<budget, memory, broken>>

Enters(c) == At(c, "enter") /\ call[c].steps < RecursionLimit

(* Every node first asks whether a model may still be called.              *)
Exhaust(c) ==
    /\ Enters(c) /\ Overdrawn(call[c])
    /\ Step(c, Stop(call[c], "budget_exhausted"))
    /\ UNCHANGED <<budget, memory, broken>>

(* Mutant: the graph is routed by the decision before, to the supervisor.  *)
ForcedToSupervisor == "supervisor"
Forced == "review"

(* Out of delegations, the supervisor is not asked.                        *)
ForceReview(c) ==
    /\ Enters(c) /\ ~Overdrawn(call[c]) /\ Saturated(call[c])
    /\ Step(c, Goto(call[c], Forced))
    /\ UNCHANGED <<budget, memory, broken>>

Break(c) == broken' = broken \cup {c}

(* The memory of the role goes into the prompt.                            *)
Recall(c) ==
    /\ Enters(c) /\ ~Overdrawn(call[c]) /\ ~Saturated(call[c])
    /\ \/ /\ Step(c, [call[c] EXCEPT !.pc = "think", !.shown = memory[call[c].node]])
          /\ UNCHANGED broken
       \/ Step(c, Failed(call[c])) /\ Break(c)
    /\ UNCHANGED <<budget, memory>>

(* Mutant: only a specialist's references are checked.                     *)
RefusedOfSpecialists(node, reply) == reply.cites = "unknown" /\ node \in Specialists
(* _validate_output; the references of a memory update are held to the     *)
(* same list.                                                              *)
Refused(node, reply) == reply.cites = "unknown"

(* The model answers, or fails: a timeout, an empty or malformed output.   *)
Think(c) ==
    /\ At(c, "think")
    /\ \/ \E reply \in Replies(call[c].node) :
            LET s == [call[c] EXCEPT !.reply = reply] IN
            /\ IF Refused(s.node, reply) THEN Step(c, Failed(s))
               ELSE IF reply.update = "none" THEN Step(c, Posted(s))
               ELSE Step(c, [s EXCEPT !.pc = "watch"])
            /\ IF reply.cites = "unknown" THEN Break(c) ELSE UNCHANGED broken
       \/ Step(c, Failed(call[c])) /\ Break(c)
    /\ UNCHANGED <<budget, memory>>

(* Mutant: the expected revision is not compared.                          *)
ConflictNever(s) == FALSE
Conflict(s) == s.reply.update = "checked" /\ memory[s.node] # s.shown

(* WATCH, then read the record.                                            *)
Watch(c) ==
    /\ At(c, "watch")
    /\ IF Conflict(call[c])
       THEN Step(c, Failed(call[c])) /\ Break(c)
       ELSE /\ Step(c, [call[c] EXCEPT !.pc = "exec", !.dirty = FALSE,
                                       !.read = memory[call[c].node]])
            /\ UNCHANGED broken
    /\ UNCHANGED <<budget, memory>>

(* Redis: who has read a hash is told that it changed.                     *)
Notify(s, role, event) ==
    IF s.node = role /\ s.pc \in {"think", "watch", "exec"}
    THEN [s EXCEPT !.since = @ \cup {event}, !.dirty = (s.pc = "exec")]
    ELSE s

(* Mutant: HSET without MULTI, which no WATCH guards.                      *)
UndisturbedAlways(s) == TRUE
Undisturbed(s) == ~s.dirty

(* MULTI, HSET, EXPIRE, EXEC.                                              *)
Commit(c) ==
    LET s == call[c] IN
    /\ At(c, "exec") /\ Undisturbed(s)
    /\ memory' = [memory EXCEPT ![s.node] = s.read + 1]
    /\ call' = [d \in Conversations |-> IF d = c THEN Posted(s)
                                        ELSE Notify(call[d], s.node, "written")]
    /\ UNCHANGED <<budget, broken>>

(* WatchError: again from WATCH, max_conflict_retries times in all.        *)
Retry(c) ==
    LET s == call[c] IN
    /\ At(c, "exec") /\ ~Undisturbed(s)
    /\ IF s.tries + 1 < MaxRetries
       THEN /\ Step(c, [s EXCEPT !.pc = "watch", !.tries = @ + 1,
                                 !.dirty = FALSE, !.read = 0])
            /\ UNCHANGED broken
       ELSE Step(c, Failed(s)) /\ Break(c)
    /\ UNCHANGED <<budget, memory>>

(* The report reads every role's memory; failing that, it is a failure.    *)
Finalize(c) ==
    /\ At(c, "finalize") /\ call[c].steps < RecursionLimit
    /\ \E status \in {call[c].status, "failed"} :
         Step(c, [call[c] EXCEPT !.pc = "done", !.status = status,
                                 !.steps = @ + 1])
    /\ UNCHANGED <<budget, memory, broken>>

(* The hash of a role outlives its last write by ttl_seconds.              *)
Expire(role) ==
    /\ memory[role] > 0
    /\ memory' = [memory EXCEPT ![role] = 0]
    /\ call' = [c \in Conversations |-> Notify(call[c], role, "expired")]
    /\ UNCHANGED <<budget, broken>>

Run(c) ==
    \/ Abort(c) \/ Exhaust(c) \/ ForceReview(c) \/ Recall(c) \/ Think(c)
    \/ Watch(c) \/ Commit(c) \/ Retry(c) \/ Finalize(c)

Next ==
    \/ \E c \in Conversations : Start(c) \/ Run(c)
    \/ \E role \in Roles : Expire(role)

Spec == Init /\ [][Next]_vars

(* A review runs in a thread of its worker, and a model's answer times     *)
(* out.                                                                    *)
FairSpec == Spec /\ \A c \in Conversations : WF_vars(Run(c))

-----------------------------------------------------------------------------
(* Properties.                                                             *)

(* No review delegates, reflects or calls a model beyond its budget, and   *)
(* its graph takes at most three supersteps more than calls and rounds:    *)
(* seventeen with the default budget (CollaborationBudget,                 *)
(* _supervisor_node).                                                      *)
WithinBudget ==
    \A c \in Conversations :
        LET s == call[c] IN
        /\ s.delegations <= budget.delegations
        /\ s.rounds <= budget.reflections
        /\ s.calls <= budget.calls
        /\ s.steps <= s.calls + s.rounds + 3

(* A review one of whose agents failed, cited unknown evidence or lost its *)
(* memory to another writer is never reported as accepted: the             *)
(* collaboration fails closed (_agent_failure, _validate_references).      *)
FailsClosed == \A c \in broken : call[c].status # "accepted"

(* Concurrent writers never share a revision: the write that commits is    *)
(* one above the record its role holds at that moment, whoever has written *)
(* it since the writer read it, and leaves the other roles' records alone  *)
(* (RedisAgentMemoryStore.upsert).                                         *)
NoLostRevision ==
    [][\A c \in Conversations : Commit(c) =>
         memory' = [memory EXCEPT ![call[c].node] = @ + 1]]_vars

(* An update that names the revision it was shown never replaces a record  *)
(* written since, unless the hash expired in between and its revisions     *)
(* began anew (AgentMemoryConflictError).                                  *)
StaleMemoryRefused ==
    [][\A c \in Conversations :
         LET s == call[c] IN
         Commit(c) /\ s.reply.update = "checked" /\ "written" \in s.since
             => "expired" \in s.since]_vars

(* Every review that has begun is reported or raises for a message its     *)
(* contract refuses: redelegation is no endless loop, and a budget that    *)
(* leaves LangGraph's limit three supersteps never meets it                *)
(* (_route_after_review, CollaborationBudget).                             *)
ReviewEnds ==
    budget.calls + budget.reflections + 3 <= RecursionLimit =>
        \A c \in Conversations :
            At(c, "enter") ~> (At(c, "done") \/ At(c, "raised"))

=============================================================================
