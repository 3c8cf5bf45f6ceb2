---------------------- MODULE AgentCollaborationProofs ----------------------
(***************************************************************************)
(* Proofs about AgentCollaboration, for any number of reviews, roles,      *)
(* retries and supersteps, and any budgets.                                *)
(***************************************************************************)
EXTENDS AgentCollaboration, TLAPS

(* An agent is at work, between its recall and what becomes of its reply.  *)
Thinking == {"think", "watch", "exec"}

(* Supersteps run ahead of calls and rounds only where no model is called: *)
(* by a forced review, which ends or costs a round, and at the end.        *)
Ahead(s) ==
    IF s.pc = "done" THEN 3
    ELSE IF s.pc \in {"finalize", "aborted"} THEN 2
    ELSE IF s.node = "review" THEN 1 ELSE 0

Counted(s) ==
    /\ s.delegations <= budget.delegations
    /\ s.rounds <= budget.reflections
    /\ s.calls <= budget.calls
    /\ s.pc \in Thinking =>
          /\ s.calls < budget.calls
          /\ s.node = "supervisor" => s.delegations < budget.delegations
    /\ s.steps <= s.calls + s.rounds + Ahead(s)

Replied(s) == s.pc \in {"watch", "exec"} => s.reply \in Replies(s.node)

(* What a review knows of a memory m since it was shown it: how it has     *)
(* grown, and that an undisturbed transaction replaces what it has read.   *)
Remembers(s, m) ==
    /\ s.pc \in {"idle", "enter"} => s.since = {}
    /\ s.pc \in Thinking =>
          /\ "expired" \notin s.since =>
                /\ s.shown <= m[s.node]
                /\ "written" \in s.since => s.shown < m[s.node]
          /\ s.pc = "exec" /\ ~s.dirty => s.read = m[s.node]
          /\ s.pc = "exec" /\ s.reply.update = "checked" => s.read = s.shown

(* A broken review is on its way out.                                      *)
Leaving(c) ==
    c \in broken => /\ call[c].pc \in {"finalize", "done", "aborted"}
                    /\ call[c].status = "failed"

IInv ==
    /\ TypeOK
    /\ \A c \in Conversations :
          /\ Counted(call[c]) /\ Replied(call[c]) /\ Remembers(call[c], memory)
          /\ Leaving(c)

-----------------------------------------------------------------------------
(* The constants.                                                          *)
LEMMA BudgetTyped ==
    ASSUME budget \in Budgets
    PROVE  /\ budget.delegations \in Nat /\ budget.reflections \in Nat
           /\ budget.calls \in Nat /\ budget.delegations > 0 /\ budget.calls > 1
  BY ConstantsAssumption

LEMMA Names ==
    /\ \A role \in Specialists : role \notin {"supervisor", "review", "accept",
                                      "redelegate", "human_review", "finding"}
    /\ MaxRetries \in Nat /\ MaxRetries > 0 /\ RecursionLimit \in Nat
  BY ConstantsAssumption

LEMMA RepliesTyped ==
    /\ NoReply \in AnyReply
    /\ \A role \in Roles : \A reply \in Replies(role) :
          /\ reply \in AnyReply
          /\ reply.act \in Acts(role)
          /\ reply.update \in {"none", "blind", "checked"}
<1>1. PICK role \in Specialists : TRUE
  BY ConstantsAssumption
<1>2. role \in Roles /\ Acts(role) = {"finding"}
  BY <1>1, Names DEF Roles, Acts
<1>3. NoReply \in Replies(role)
  BY <1>2 DEF NoReply, Replies
<1> QED
  BY <1>2, <1>3 DEF Replies, AnyReply

-----------------------------------------------------------------------------
(* How a node returns.                                                     *)
LEMMA ForgetTyped ==
    ASSUME NEW s \in Graph
    PROVE  /\ Forget(s) \in Graph
           /\ Forget(s).pc = s.pc /\ Forget(s).node = s.node
           /\ Forget(s).delegations = s.delegations /\ Forget(s).rounds = s.rounds
           /\ Forget(s).calls = s.calls /\ Forget(s).steps = s.steps
           /\ Forget(s).status = s.status /\ Forget(s).since = {}
<1>1. 0 \in 0..MaxRetries
  BY Names
<1>2. NoReply \in AnyReply
  BY RepliesTyped
<1> DEFINE f == [s EXCEPT !.reply = NoReply, !.shown = 0, !.since = {}]
<1>3. f \in Graph
  BY <1>2 DEF Graph
<1>4. Forget(s) = [f EXCEPT !.read = 0, !.dirty = FALSE, !.tries = 0]
  BY DEF Forget
<1>5. f.pc = s.pc /\ f.node = s.node /\ f.delegations = s.delegations
      /\ f.rounds = s.rounds /\ f.calls = s.calls /\ f.steps = s.steps
      /\ f.status = s.status /\ f.since = {}
  BY DEF Graph
<1> HIDE DEF f
<1> DEFINE g == [f EXCEPT !.read = 0, !.dirty = FALSE, !.tries = 0]
<1>6. g \in Graph
  BY <1>1, <1>3 DEF Graph
<1>7. g.pc = f.pc /\ g.node = f.node /\ g.delegations = f.delegations
      /\ g.rounds = f.rounds /\ g.calls = f.calls /\ g.steps = f.steps
      /\ g.status = f.status /\ g.since = f.since
  BY <1>3 DEF Graph
<1> HIDE DEF g
<1> QED
  BY <1>4, <1>5, <1>6, <1>7 DEF g

LEMMA GotoTyped ==
    ASSUME NEW s \in Graph, NEW node \in Roles
    PROVE  /\ Goto(s, node) \in Graph
           /\ Goto(s, node).pc = "enter" /\ Goto(s, node).node = node
           /\ Goto(s, node).delegations = s.delegations
           /\ Goto(s, node).rounds = s.rounds /\ Goto(s, node).calls = s.calls
           /\ Goto(s, node).steps = s.steps + 1 /\ Goto(s, node).since = {}
<1> DEFINE f == Forget(s)
           n == s.steps + 1
<1>1. f \in Graph /\ f.delegations = s.delegations /\ f.rounds = s.rounds
      /\ f.calls = s.calls /\ f.since = {}
  BY ForgetTyped
<1>2. Goto(s, node) = [f EXCEPT !.pc = "enter", !.node = node, !.steps = n]
  BY DEF Goto
<1>3. n \in Nat
  BY DEF Graph
<1> HIDE DEF f, n
<1>4. Goto(s, node) \in Graph
  BY <1>1, <1>2, <1>3 DEF Graph
<1>5. Goto(s, node).pc = "enter" /\ Goto(s, node).node = node
      /\ Goto(s, node).delegations = f.delegations /\ Goto(s, node).rounds = f.rounds
      /\ Goto(s, node).calls = f.calls /\ Goto(s, node).steps = n
      /\ Goto(s, node).since = f.since
  BY <1>1, <1>2 DEF Graph
<1> QED
  BY <1>1, <1>4, <1>5 DEF n

LEMMA StopTyped ==
    ASSUME NEW s \in Graph, NEW status \in Statuses
    PROVE  /\ Stop(s, status) \in Graph
           /\ Stop(s, status).pc = "finalize" /\ Stop(s, status).status = status
           /\ Stop(s, status).delegations = s.delegations
           /\ Stop(s, status).rounds = s.rounds /\ Stop(s, status).calls = s.calls
           /\ Stop(s, status).steps = s.steps + 1
<1> DEFINE f == Forget(s)
           n == s.steps + 1
<1>1. f \in Graph /\ f.delegations = s.delegations /\ f.rounds = s.rounds
      /\ f.calls = s.calls
  BY ForgetTyped
<1>2. Stop(s, status) = [f EXCEPT !.pc = "finalize", !.status = status, !.steps = n]
  BY DEF Stop
<1>3. n \in Nat
  BY DEF Graph
<1> HIDE DEF f, n
<1>4. Stop(s, status) \in Graph
  BY <1>1, <1>2, <1>3 DEF Graph
<1>5. Stop(s, status).pc = "finalize" /\ Stop(s, status).status = status
      /\ Stop(s, status).delegations = f.delegations
      /\ Stop(s, status).rounds = f.rounds
      /\ Stop(s, status).calls = f.calls /\ Stop(s, status).steps = n
  BY <1>1, <1>2 DEF Graph
<1> QED
  BY <1>1, <1>4, <1>5 DEF n

LEMMA ChargedTyped ==
    ASSUME NEW s \in Graph
    PROVE  /\ Charged(s) \in Graph
           /\ Charged(s).pc = s.pc /\ Charged(s).node = s.node
           /\ Charged(s).delegations = s.delegations
           /\ Charged(s).rounds = s.rounds
           /\ Charged(s).calls = s.calls + 1 /\ Charged(s).steps = s.steps
  BY DEF Charged, Graph

(* Where a node returns to another one, and where it ends the review.      *)
Fits(s) ==
    /\ s.delegations <= budget.delegations
    /\ s.rounds <= budget.reflections /\ s.calls <= budget.calls

LEMMA GotoHolds ==
    ASSUME budget \in Budgets, NEW s \in Graph, Fits(s), NEW node \in Roles,
           s.steps + 1 <= s.calls + s.rounds + (IF node = "review" THEN 1 ELSE 0)
    PROVE  /\ Goto(s, node) \in Graph /\ Counted(Goto(s, node))
           /\ Goto(s, node).pc = "enter" /\ Goto(s, node).since = {}
<1> DEFINE g == Goto(s, node)
<1>1. /\ g \in Graph /\ g.pc = "enter" /\ g.node = node /\ g.since = {}
      /\ g.delegations = s.delegations /\ g.rounds = s.rounds /\ g.calls = s.calls
      /\ g.steps = s.steps + 1
  BY GotoTyped
<1> HIDE DEF g
<1>2. Counted(g)
  BY <1>1 DEF Counted, Ahead, Fits, Thinking
<1> QED
  BY <1>1, <1>2 DEF g

(* A reply that was accepted, with its message.                            *)
Returned(x) ==
    /\ x \in Graph /\ Counted(x) /\ x.pc \in {"enter", "finalize", "raised"}
    /\ x.pc = "enter" => x.since = {}

LEMMA GotoReturns ==
    ASSUME budget \in Budgets, NEW s \in Graph, Fits(s), NEW node \in Roles,
           s.steps + 1 <= s.calls + s.rounds
    PROVE  Returned(Goto(s, node))
<1>1. s.steps + 1 <= s.calls + s.rounds + (IF node = "review" THEN 1 ELSE 0)
  BY DEF Graph
<1> QED
  BY <1>1, GotoHolds DEF Returned

LEMMA ReviewReturns ==
    ASSUME budget \in Budgets, NEW s \in Graph, Fits(s),
           s.steps + 1 <= s.calls + s.rounds + 1
    PROVE  Returned(Goto(s, "review"))
<1> DEFINE node == "review"
<1>1. node \in Roles
  BY DEF Roles
<1>2. s.steps + 1 <= s.calls + s.rounds + (IF node = "review" THEN 1 ELSE 0)
  OBVIOUS
<1> HIDE DEF node
<1>3. Returned(Goto(s, node))
  BY <1>1, <1>2, GotoHolds DEF Returned
<1> QED
  BY <1>3 DEF node

LEMMA StopHolds ==
    ASSUME budget \in Budgets, NEW s \in Graph, Fits(s), NEW status \in Statuses,
           s.steps + 1 <= s.calls + s.rounds + 2
    PROVE  /\ Stop(s, status) \in Graph /\ Counted(Stop(s, status))
           /\ Stop(s, status).pc = "finalize" /\ Stop(s, status).status = status
<1> DEFINE g == Stop(s, status)
<1>1. /\ g \in Graph /\ g.pc = "finalize" /\ g.status = status
      /\ g.delegations = s.delegations /\ g.rounds = s.rounds /\ g.calls = s.calls
      /\ g.steps = s.steps + 1
  BY StopTyped
<1> HIDE DEF g
<1>2. Counted(g)
  BY <1>1 DEF Counted, Ahead, Fits, Thinking
<1> QED
  BY <1>1, <1>2 DEF g

(* An agent at work, or about to be, is charged for its call.              *)
LEMMA ChargedFits ==
    ASSUME budget \in Budgets, NEW s \in Graph, Counted(s),
           s.calls < budget.calls, s.pc \in Thinking \cup {"enter"}
    PROVE  /\ Charged(s) \in Graph /\ Fits(Charged(s))
           /\ Charged(s).delegations = s.delegations
           /\ Charged(s).rounds = s.rounds
           /\ Charged(s).steps
                 <= Charged(s).calls + Charged(s).rounds
                      + (IF s.node = "review" THEN 0 ELSE -1)
<1>1. /\ s.calls \in Nat /\ s.rounds \in Nat /\ s.steps \in Nat
      /\ s.steps <= s.calls + s.rounds + (IF s.node = "review" THEN 1 ELSE 0)
  <2>1. s.calls \in Nat /\ s.rounds \in Nat /\ s.steps \in Nat
    BY DEF Graph
  <2>2. Ahead(s) = IF s.node = "review" THEN 1 ELSE 0
    BY DEF Ahead, Thinking
  <2> QED
    BY <2>1, <2>2 DEF Counted
<1>2. /\ Charged(s) \in Graph /\ Charged(s).delegations = s.delegations
      /\ Charged(s).rounds = s.rounds /\ Charged(s).calls = s.calls + 1
      /\ Charged(s).steps = s.steps
  BY ChargedTyped
<1> HIDE DEF Charged
<1>3. Fits(Charged(s))
  BY <1>1, <1>2, BudgetTyped DEF Counted, Fits
<1>4. CASE s.node = "review"
  BY <1>1, <1>2, <1>3, <1>4
<1>5. CASE s.node # "review"
  BY <1>1, <1>2, <1>3, <1>5
<1> QED
  BY <1>4, <1>5

LEMMA FailedHolds ==
    ASSUME budget \in Budgets, NEW s \in Graph, Counted(s),
           s.calls < budget.calls, s.pc \in Thinking \cup {"enter"}
    PROVE  /\ Failed(s) \in Graph /\ Counted(Failed(s))
           /\ Failed(s).pc = "finalize" /\ Failed(s).status = "failed"
<1> DEFINE x == Charged(s)
<1>1. x \in Graph /\ Fits(x) /\ x.steps <= x.calls + x.rounds
  <2>1. x \in Graph /\ Fits(x)
        /\ x.steps <= x.calls + x.rounds + (IF s.node = "review" THEN 0 ELSE -1)
    BY ChargedFits
  <2> HIDE DEF x
  <2> QED
    BY <2>1 DEF Graph
<1> HIDE DEF x
<1>2. x.steps + 1 <= x.calls + x.rounds + 2
  BY <1>1 DEF Graph
<1>3. "failed" \in Statuses
  BY DEF Statuses
<1>4. /\ Stop(x, "failed") \in Graph /\ Counted(Stop(x, "failed"))
      /\ Stop(x, "failed").pc = "finalize" /\ Stop(x, "failed").status = "failed"
  BY <1>1, <1>2, <1>3, StopHolds
<1> QED
  BY <1>4 DEF x, Failed

LEMMA DelegatedTyped ==
    ASSUME NEW s \in Graph
    PROVE  LET d == [s EXCEPT !.delegations = @ + 1]
               r == [s EXCEPT !.rounds = @ + 1]
           IN  /\ d \in Graph /\ d.delegations = s.delegations + 1
               /\ d.rounds = s.rounds /\ d.calls = s.calls /\ d.steps = s.steps
               /\ r \in Graph /\ r.delegations = s.delegations
               /\ r.rounds = s.rounds + 1 /\ r.calls = s.calls /\ r.steps = s.steps
  BY DEF Graph

LEMMA PostedHolds ==
    ASSUME budget \in Budgets, NEW s \in Graph, Counted(s), s.pc \in Thinking,
           s.reply \in Replies(s.node)
    PROVE  Returned(Posted(s))
<1>0. /\ s.node \in Roles /\ s.calls < budget.calls
      /\ s.node = "supervisor" => s.delegations < budget.delegations
      /\ {"failed", "accepted", "human_review", "budget_exhausted"} \subseteq Statuses
      /\ {"supervisor", "review"} \subseteq Roles
  BY DEF Counted, Graph, Statuses, Roles
<1> DEFINE x == Charged(s)
           d == [x EXCEPT !.delegations = @ + 1]
           r == [x EXCEPT !.rounds = @ + 1]
<1>1. /\ x \in Graph /\ Fits(x) /\ x.delegations = s.delegations
      /\ x.rounds = s.rounds
      /\ x.steps <= x.calls + x.rounds + (IF s.node = "review" THEN 0 ELSE -1)
  BY <1>0, ChargedFits
<1>2. /\ x.steps \in Nat /\ x.calls \in Nat /\ x.rounds \in Nat
      /\ x.delegations \in Nat
  <2> HIDE DEF x
  <2> QED
    BY <1>1 DEF Graph
<1>3. /\ d \in Graph /\ d.delegations = x.delegations + 1
      /\ d.rounds = x.rounds /\ d.calls = x.calls /\ d.steps = x.steps
      /\ r \in Graph /\ r.delegations = x.delegations
      /\ r.rounds = x.rounds + 1 /\ r.calls = x.calls /\ r.steps = x.steps
  <2> HIDE DEF x
  <2> QED
    BY <1>1, DelegatedTyped
<1>4. AfterSupervisor(s) = CASE s.reply.act = "human_review" -> Stop(x, "human_review")
                             [] s.reply.act = "review" -> Goto(x, "review")
                             [] OTHER -> Goto(d, s.reply.act)
  BY DEF AfterSupervisor
<1>5. AfterSpecialist(s) = Goto(x, "supervisor")
  BY DEF AfterSpecialist
<1>6. AfterReview(s) = CASE s.reply.act = "accept" -> Stop(x, "accepted")
                         [] s.reply.act = "human_review" -> Stop(x, "human_review")
                         [] OTHER -> IF Spent(s) THEN Stop(x, "budget_exhausted")
                                     ELSE Goto(r, "supervisor")
  BY DEF AfterReview
<1> HIDE DEF x, d, r
<1>7. \A status \in Statuses : Returned(Stop(x, status))
  <2> SUFFICES ASSUME NEW status \in Statuses PROVE Returned(Stop(x, status))
    OBVIOUS
  <2>1. x.steps + 1 <= x.calls + x.rounds + 2
    BY <1>1, <1>2
  <2> QED
    BY <1>1, <2>1, StopHolds DEF Returned
<1>8. CASE s.node = "supervisor" /\ s.reply.valid
  <2>1. Posted(s) = AfterSupervisor(s)
    BY <1>8 DEF Posted
  <2>2. CASE s.reply.act = "human_review"
    BY <1>0, <1>4, <1>7, <2>1, <2>2
  <2>3. CASE s.reply.act = "review"
    <3>1. x.steps + 1 <= x.calls + x.rounds + 1
      BY <1>1, <1>2
    <3> QED
      BY <1>0, <1>1, <1>4, <2>1, <2>3, <3>1, ReviewReturns
  <2>4. CASE s.reply.act \notin {"human_review", "review"}
    <3>1. s.reply.act \in Specialists
      BY <1>0, <1>8, <2>4, RepliesTyped DEF Acts
    <3>2. s.reply.act \in Roles /\ s.reply.act # "review"
      BY <3>1, Names DEF Roles
    <3>3. d.steps + 1 <= d.calls + d.rounds
      BY <1>1, <1>2, <1>3, <1>8
    <3>4. Fits(d)
      BY <1>0, <1>1, <1>2, <1>3, <1>8, BudgetTyped DEF Fits
    <3>5. Returned(Goto(d, s.reply.act))
      BY <1>3, <3>2, <3>3, <3>4, GotoReturns
    <3> QED
      BY <1>4, <2>1, <2>4, <3>5
  <2> QED
    BY <2>2, <2>3, <2>4
<1>9. CASE s.node = "review" /\ s.reply.valid
  <2>1. Posted(s) = AfterReview(s)
    BY <1>9 DEF Posted
  <2>2. ~Spent(s) => Returned(Goto(r, "supervisor"))
    <3> SUFFICES ASSUME ~Spent(s) PROVE Returned(Goto(r, "supervisor"))
      OBVIOUS
    <3>1. Fits(r)
      BY <1>1, <1>2, <1>3, BudgetTyped DEF Fits, Spent
    <3>2. r.steps + 1 <= r.calls + r.rounds
      BY <1>1, <1>2, <1>3, <1>9
    <3> QED
      BY <1>0, <1>3, <3>1, <3>2, GotoReturns
  <2> QED
    BY <1>0, <1>6, <1>7, <2>1, <2>2
<1>10. CASE s.node \notin {"supervisor", "review"} /\ s.reply.valid
  <2>1. Posted(s) = Goto(x, "supervisor")
    BY <1>5, <1>10 DEF Posted
  <2>2. x.steps + 1 <= x.calls + x.rounds
    BY <1>1, <1>2, <1>10
  <2> QED
    BY <1>0, <1>1, <2>1, <2>2, GotoReturns
<1>11. CASE ~s.reply.valid
  <2> DEFINE f == Forget(s)
  <2>1. /\ f \in Graph /\ f.node = s.node /\ f.delegations = s.delegations
        /\ f.rounds = s.rounds /\ f.calls = s.calls /\ f.steps = s.steps
    BY ForgetTyped
  <2>2. Posted(s) = [f EXCEPT !.pc = "raised"]
    BY <1>11 DEF Posted
  <2> HIDE DEF f
  <2>3. /\ Posted(s) \in Graph /\ Posted(s).pc = "raised"
        /\ Posted(s).node = s.node /\ Posted(s).delegations = s.delegations
        /\ Posted(s).rounds = s.rounds /\ Posted(s).calls = s.calls
        /\ Posted(s).steps = s.steps
    BY <2>1, <2>2 DEF Graph
  <2> QED
    BY <2>3 DEF Returned, Counted, Ahead, Thinking
<1> QED
  BY <1>8, <1>9, <1>10, <1>11

-----------------------------------------------------------------------------
(* The steps of a review.                                                  *)
Kept(c, x) ==
    /\ x \in Graph /\ Counted(x) /\ Replied(x) /\ Remembers(x, memory)
    /\ c \in broken' => x.pc \in {"finalize", "done", "aborted"} /\ x.status = "failed"

LEMMA Facts ==
    ASSUME IInv, NEW c \in Conversations
    PROVE  /\ call[c] \in Graph /\ Counted(call[c]) /\ Replied(call[c])
           /\ Remembers(call[c], memory) /\ Leaving(c)
           /\ budget \in Budgets /\ memory \in [Roles -> Nat]
           /\ call[c].node \in Roles /\ memory[call[c].node] \in Nat
<1>1. call[c] \in Graph /\ memory \in [Roles -> Nat]
  BY DEF IInv, TypeOK
<1>2. call[c].node \in Roles
  BY <1>1 DEF Graph
<1> QED
  BY <1>1, <1>2 DEF IInv, TypeOK

LEMMA StepHolds ==
    ASSUME IInv, NEW c \in Conversations, NEW x, Kept(c, x), Step(c, x),
           UNCHANGED <<budget, memory>>, broken' \in {broken, broken \cup {c}}
    PROVE  IInv'
<1>1. call \in [Conversations -> Graph] /\ broken \subseteq Conversations
  BY DEF IInv, TypeOK
<1>2. call' = [call EXCEPT ![c] = x] /\ x \in Graph
  BY DEF Step, Kept
<1>3. TypeOK'
  <2>1. call' \in [Conversations -> Graph]
    BY <1>1, <1>2
  <2> QED
    BY <1>1, <2>1 DEF IInv, TypeOK
<1>4. call'[c] = x /\ \A d \in Conversations \ {c} : call'[d] = call[d]
  BY <1>1, <1>2
<1>5. Counted(x)' /\ Replied(x) /\ Remembers(x, memory') /\ Leaving(c)'
  BY <1>4 DEF Kept, Counted, Leaving
<1>6. ASSUME NEW d \in Conversations
      PROVE  (Counted(call[d]) /\ Replied(call[d]) /\ Remembers(call[d], memory)
                /\ Leaving(d))'
  <2>1. CASE d = c
    BY <1>4, <1>5, <2>1 DEF Counted, Replied, Ahead
  <2>2. CASE d # c
    <3>1. call'[d] = call[d] /\ (d \in broken' <=> d \in broken)
      BY <1>4, <2>2
    <3>2. Counted(call[d]) /\ Replied(call[d]) /\ Remembers(call[d], memory)
          /\ Leaving(d)
      BY DEF IInv
    <3> QED
      BY <3>1, <3>2 DEF Counted, Replied, Leaving
  <2> QED
    BY <2>1, <2>2
<1> QED
  BY <1>3, <1>6 DEF IInv

(* Every agent that fails ends its review.                                 *)
LEMMA FailHolds ==
    ASSUME IInv, NEW c \in Conversations, NEW s \in Graph, Counted(s),
           s.calls < budget.calls, s.pc \in Thinking \cup {"enter"},
           Step(c, Failed(s)), UNCHANGED <<budget, memory>>, Break(c)
    PROVE  IInv'
<1>1. /\ Failed(s) \in Graph /\ Counted(Failed(s))
      /\ Failed(s).pc = "finalize" /\ Failed(s).status = "failed"
  BY Facts, FailedHolds
<1>2. Kept(c, Failed(s))
  BY <1>1 DEF Kept, Replied, Remembers, Thinking
<1> QED
  BY <1>2, StepHolds DEF Break

LEMMA StartHolds ==
    ASSUME IInv, NEW c \in Conversations, Start(c)
    PROVE  IInv'
<1> DEFINE s == call[c]
           e == [s EXCEPT !.pc = "enter"]
           f == [s EXCEPT !.pc = "done", !.status = "failed"]
<1>1. s \in Graph /\ Counted(s) /\ Remembers(s, memory) /\ Leaving(c) /\ s.pc = "idle"
  BY Facts DEF Start, At
<1>2. c \notin broken' /\ broken' = broken /\ s.since = {} /\ UNCHANGED <<budget, memory>>
  BY <1>1 DEF Leaving, Remembers, Start
<1>3. Step(c, e) \/ Step(c, f)
  BY DEF Start
<1> HIDE DEF s
<1>4. /\ e \in Graph /\ e.pc = "enter" /\ e.node = s.node /\ e.since = s.since
      /\ e.delegations = s.delegations /\ e.rounds = s.rounds
      /\ e.calls = s.calls /\ e.steps = s.steps
  BY <1>1 DEF Graph
<1>5. /\ f \in Graph /\ f.pc = "done" /\ f.node = s.node
      /\ f.delegations = s.delegations /\ f.rounds = s.rounds
      /\ f.calls = s.calls /\ f.steps = s.steps
  BY <1>1 DEF Graph, Statuses
<1> HIDE DEF e, f
<1>6. s.steps \in Nat /\ s.calls \in Nat /\ s.rounds \in Nat
  BY <1>1 DEF Graph
<1>7. Counted(e) /\ Counted(f)
  BY <1>1, <1>4, <1>5, <1>6 DEF Counted, Ahead, Thinking
<1>8. Kept(c, e) /\ Kept(c, f)
  BY <1>2, <1>4, <1>5, <1>7 DEF Kept, Replied, Remembers, Thinking
<1> QED
  BY <1>2, <1>3, <1>8, StepHolds

LEMMA AbortHolds ==
    ASSUME IInv, NEW c \in Conversations, Abort(c)
    PROVE  IInv'
<1> DEFINE s == call[c]
           x == [s EXCEPT !.pc = "aborted"]
<1>1. s \in Graph /\ Counted(s) /\ Leaving(c) /\ s.pc \in {"enter", "finalize"}
  BY Facts DEF Abort, At
<1>2. Step(c, x) /\ UNCHANGED <<budget, memory, broken>>
  BY DEF Abort
<1>3. c \in broken => s.status = "failed"
  BY <1>1 DEF Leaving
<1> HIDE DEF s
<1>4. /\ x \in Graph /\ x.pc = "aborted" /\ x.node = s.node /\ x.status = s.status
      /\ x.delegations = s.delegations /\ x.rounds = s.rounds
      /\ x.calls = s.calls /\ x.steps = s.steps
  BY <1>1 DEF Graph
<1> HIDE DEF x
<1>5. s.steps \in Nat /\ s.calls \in Nat /\ s.rounds \in Nat
  BY <1>1 DEF Graph
<1>6. Counted(x)
  BY <1>1, <1>4, <1>5 DEF Counted, Ahead, Thinking
<1>7. Kept(c, x)
  BY <1>2, <1>3, <1>4, <1>6 DEF Kept, Replied, Remembers, Thinking
<1> QED
  BY <1>2, <1>7, StepHolds

(* A node that is entered, within what the supersteps count.               *)
LEMMA Entered ==
    ASSUME IInv, NEW c \in Conversations, Enters(c)
    PROVE  LET s == call[c] IN
           /\ s \in Graph /\ s.pc = "enter" /\ Fits(s) /\ c \notin broken
           /\ Counted(s) /\ s.since = {}
           /\ s.steps <= s.calls + s.rounds + (IF s.node = "review" THEN 1 ELSE 0)
<1> DEFINE s == call[c]
<1>1. s \in Graph /\ Counted(s) /\ Remembers(s, memory) /\ Leaving(c) /\ s.pc = "enter"
  BY Facts DEF Enters, At
<1>2. c \notin broken /\ s.since = {}
  BY <1>1 DEF Leaving, Remembers
<1>3. Ahead(s) = IF s.node = "review" THEN 1 ELSE 0
  BY <1>1 DEF Ahead
<1> QED
  BY <1>1, <1>2, <1>3 DEF Counted, Fits

(* A review that returns from a node is as it must be.                     *)
LEMMA ReturnHolds ==
    ASSUME IInv, NEW c \in Conversations, NEW x, Returned(x), c \notin broken,
           Step(c, x), UNCHANGED <<budget, memory, broken>>
    PROVE  IInv'
<1>1. Kept(c, x)
  BY DEF Returned, Kept, Replied, Remembers, Thinking
<1> QED
  BY <1>1, StepHolds

LEMMA ExhaustHolds ==
    ASSUME IInv, NEW c \in Conversations, Exhaust(c)
    PROVE  IInv'
<1> DEFINE s == call[c]
<1>1. s \in Graph /\ Fits(s) /\ c \notin broken
      /\ s.steps <= s.calls + s.rounds + (IF s.node = "review" THEN 1 ELSE 0)
  BY Entered DEF Exhaust
<1>2. budget \in Budgets /\ "budget_exhausted" \in Statuses
  BY Facts DEF Statuses
<1>3. Step(c, Stop(s, "budget_exhausted")) /\ UNCHANGED <<budget, memory, broken>>
  BY DEF Exhaust
<1> HIDE DEF s
<1>4. s.steps + 1 <= s.calls + s.rounds + 2
  <2>1. s.steps \in Nat /\ s.calls \in Nat /\ s.rounds \in Nat
    BY <1>1 DEF Graph
  <2> QED
    BY <1>1, <2>1
<1>5. Returned(Stop(s, "budget_exhausted"))
  BY <1>1, <1>2, <1>4, StopHolds DEF Returned
<1> QED
  BY <1>1, <1>3, <1>5, ReturnHolds

LEMMA ForceReviewHolds ==
    ASSUME IInv, NEW c \in Conversations, ForceReview(c)
    PROVE  IInv'
<1> DEFINE s == call[c]
<1>1. s \in Graph /\ Fits(s) /\ c \notin broken
      /\ s.steps <= s.calls + s.rounds + (IF s.node = "review" THEN 1 ELSE 0)
  BY Entered DEF ForceReview
<1>2. budget \in Budgets /\ s.node = "supervisor"
  BY Facts DEF ForceReview, Saturated
<1>3. Step(c, Goto(s, "review")) /\ UNCHANGED <<budget, memory, broken>>
  BY DEF ForceReview, Forced
<1> HIDE DEF s
<1>4. s.steps + 1 <= s.calls + s.rounds + 1
  <2>1. s.steps \in Nat /\ s.calls \in Nat /\ s.rounds \in Nat
    BY <1>1 DEF Graph
  <2> QED
    BY <1>1, <1>2, <2>1
<1>5. Returned(Goto(s, "review"))
  BY <1>1, <1>2, <1>4, ReviewReturns
<1> QED
  BY <1>1, <1>3, <1>5, ReturnHolds

LEMMA RecallHolds ==
    ASSUME IInv, NEW c \in Conversations, Recall(c)
    PROVE  IInv'
<1> DEFINE s == call[c]
           m == memory[call[c].node]
           x == [s EXCEPT !.pc = "think", !.shown = m]
<1>1. /\ s \in Graph /\ Fits(s) /\ c \notin broken /\ s.pc = "enter" /\ Counted(s)
      /\ s.since = {}
      /\ s.steps <= s.calls + s.rounds + (IF s.node = "review" THEN 1 ELSE 0)
  BY Entered DEF Recall
<1>2. /\ budget \in Budgets /\ m \in Nat /\ m = memory[s.node]
      /\ UNCHANGED <<budget, memory>>
  BY Facts DEF Recall
<1>3. (Step(c, x) /\ UNCHANGED broken) \/ (Step(c, Failed(s)) /\ Break(c))
  BY DEF Recall
<1>4. /\ s.calls < budget.calls
      /\ s.node = "supervisor" => s.delegations < budget.delegations
  <2>1. ~(s.calls >= budget.calls)
        /\ ~(s.node = "supervisor" /\ s.delegations >= budget.delegations)
    BY DEF Recall, Overdrawn, Saturated
  <2>2. s.calls \in Nat /\ s.delegations \in Nat
    BY <1>1 DEF Graph
  <2> QED
    BY <1>2, <2>1, <2>2, BudgetTyped
<1> HIDE DEF s, m
<1>5. /\ x \in Graph /\ x.pc = "think" /\ x.node = s.node /\ x.since = s.since
      /\ x.delegations = s.delegations /\ x.rounds = s.rounds
      /\ x.calls = s.calls /\ x.steps = s.steps /\ x.shown = m
  BY <1>1, <1>2 DEF Graph
<1> HIDE DEF x
<1>6. Counted(x)
  BY <1>1, <1>4, <1>5 DEF Counted, Ahead, Fits
<1>7. CASE Step(c, x) /\ UNCHANGED broken
  <2>1. Remembers(x, memory)
    BY <1>1, <1>2, <1>5 DEF Remembers
  <2>2. Kept(c, x)
    BY <1>1, <1>5, <1>6, <1>7, <2>1 DEF Kept, Replied
  <2> QED
    BY <1>2, <1>7, <2>2, StepHolds
<1>8. CASE Step(c, Failed(s)) /\ Break(c)
  BY <1>1, <1>2, <1>4, <1>8, FailHolds
<1> QED
  BY <1>3, <1>7, <1>8

(* An agent at work has not failed, and has a call left.                   *)
LEMMA AtWork ==
    ASSUME IInv, NEW c \in Conversations, call[c].pc \in Thinking
    PROVE  LET s == call[c] IN
           /\ s \in Graph /\ Counted(s) /\ Replied(s) /\ Remembers(s, memory)
           /\ c \notin broken /\ s.calls < budget.calls
           /\ budget \in Budgets /\ s.node \in Roles /\ memory[s.node] \in Nat
BY Facts DEF Leaving, Thinking, Counted

LEMMA ThinkHolds ==
    ASSUME IInv, NEW c \in Conversations, Think(c)
    PROVE  IInv'
<1> DEFINE o == call[c]
<1>1. /\ o \in Graph /\ Counted(o) /\ o.pc = "think" /\ Remembers(o, memory)
      /\ c \notin broken /\ o.calls < budget.calls /\ budget \in Budgets
      /\ o.node \in Roles /\ UNCHANGED <<budget, memory>>
  BY AtWork DEF Think, At, Thinking
<1>2. CASE Step(c, Failed(o)) /\ Break(c)
  BY <1>1, <1>2, FailHolds DEF Thinking
<1>3. ASSUME NEW reply \in Replies(o.node),
             LET s == [o EXCEPT !.reply = reply] IN
             /\ IF Refused(s.node, reply) THEN Step(c, Failed(s))
                ELSE IF reply.update = "none" THEN Step(c, Posted(s))
                ELSE Step(c, [s EXCEPT !.pc = "watch"])
             /\ IF reply.cites = "unknown" THEN Break(c) ELSE UNCHANGED broken
      PROVE  IInv'
  <2> DEFINE s == [o EXCEPT !.reply = reply]
             w == [s EXCEPT !.pc = "watch"]
  <2>1. IF Refused(s.node, reply) THEN Step(c, Failed(s))
        ELSE IF reply.update = "none" THEN Step(c, Posted(s)) ELSE Step(c, w)
    BY <1>3
  <2>2. reply \in AnyReply
    BY <1>1, RepliesTyped
  <2> HIDE DEF o
  <2>3. /\ s \in Graph /\ s.pc = o.pc /\ s.node = o.node /\ s.reply = reply
        /\ s.delegations = o.delegations /\ s.rounds = o.rounds
        /\ s.calls = o.calls /\ s.steps = o.steps /\ s.since = o.since
        /\ s.shown = o.shown
    BY <1>1, <2>2 DEF Graph
  <2> HIDE DEF s
  <2>4. /\ w \in Graph /\ w.pc = "watch" /\ w.node = s.node /\ w.reply = s.reply
        /\ w.delegations = s.delegations /\ w.rounds = s.rounds
        /\ w.calls = s.calls /\ w.steps = s.steps /\ w.since = s.since
        /\ w.shown = s.shown
    BY <2>3 DEF Graph
  <2> HIDE DEF w
  <2>5. Counted(s)
    BY <1>1, <2>3 DEF Counted, Ahead
  <2>6. CASE Refused(s.node, reply)
    BY <1>1, <1>3, <2>1, <2>3, <2>5, <2>6, FailHolds DEF Refused, Thinking
  <2>7. CASE ~Refused(s.node, reply) /\ reply.update = "none"
    <3>1. Returned(Posted(s))
      BY <1>1, <2>3, <2>5, PostedHolds DEF Thinking
    <3> QED
      BY <1>1, <1>3, <2>1, <2>7, <3>1, ReturnHolds DEF Refused
  <2>8. CASE ~Refused(s.node, reply) /\ reply.update # "none"
    <3>1. Counted(w)
      BY <1>1, <2>3, <2>4 DEF Counted, Ahead, Thinking
    <3>2. Remembers(w, memory)
      BY <1>1, <2>3, <2>4 DEF Remembers, Thinking
    <3>3. UNCHANGED broken /\ Step(c, w)
      BY <1>3, <2>1, <2>8 DEF Refused
    <3>4. Kept(c, w)
      BY <1>1, <2>3, <2>4, <3>1, <3>2, <3>3 DEF Kept, Replied
    <3> QED
      BY <1>1, <3>3, <3>4, StepHolds
  <2> QED
    BY <2>6, <2>7, <2>8
<1> QED
  BY <1>2, <1>3 DEF Think

LEMMA WatchHolds ==
    ASSUME IInv, NEW c \in Conversations, Watch(c)
    PROVE  IInv'
<1> DEFINE s == call[c]
           m == memory[call[c].node]
           x == [s EXCEPT !.pc = "exec", !.dirty = FALSE, !.read = m]
<1>1. /\ s \in Graph /\ Counted(s) /\ s.pc = "watch" /\ Remembers(s, memory)
      /\ c \notin broken /\ s.calls < budget.calls /\ budget \in Budgets
      /\ Replied(s) /\ m \in Nat /\ m = memory[s.node] /\ UNCHANGED <<budget, memory>>
  BY AtWork DEF Watch, At, Thinking
<1>2. IF Conflict(s) THEN Step(c, Failed(s)) /\ Break(c)
      ELSE Step(c, x) /\ UNCHANGED broken
  BY DEF Watch
<1> HIDE DEF s, m
<1>3. CASE Conflict(s)
  BY <1>1, <1>2, <1>3, FailHolds DEF Thinking
<1>4. CASE ~Conflict(s)
  <2>1. /\ x \in Graph /\ x.pc = "exec" /\ x.node = s.node /\ x.reply = s.reply
        /\ x.delegations = s.delegations /\ x.rounds = s.rounds
        /\ x.calls = s.calls /\ x.steps = s.steps /\ x.since = s.since
        /\ x.shown = s.shown /\ x.read = m
    BY <1>1 DEF Graph
  <2> HIDE DEF x
  <2>2. Counted(x)
    BY <1>1, <2>1 DEF Counted, Ahead, Thinking
  <2>3. Remembers(x, memory)
    BY <1>1, <1>4, <2>1 DEF Remembers, Thinking, Conflict
  <2>4. Kept(c, x)
    BY <1>1, <1>2, <1>4, <2>1, <2>2, <2>3 DEF Kept, Replied
  <2> QED
    BY <1>1, <1>2, <1>4, <2>4, StepHolds
<1> QED
  BY <1>3, <1>4

LEMMA RetryHolds ==
    ASSUME IInv, NEW c \in Conversations, Retry(c)
    PROVE  IInv'
<1> DEFINE s == call[c]
           n == s.tries + 1
           y == [s EXCEPT !.pc = "watch", !.tries = n]
           x == [y EXCEPT !.dirty = FALSE, !.read = 0]
<1>1. /\ s \in Graph /\ Counted(s) /\ s.pc = "exec" /\ Remembers(s, memory)
      /\ c \notin broken /\ s.calls < budget.calls /\ budget \in Budgets
      /\ Replied(s) /\ UNCHANGED <<budget, memory>>
  BY AtWork DEF Retry, At, Thinking
<1>2. IF n < MaxRetries THEN Step(c, x) /\ UNCHANGED broken
      ELSE Step(c, Failed(s)) /\ Break(c)
  BY DEF Retry
<1> HIDE DEF s
<1>3. CASE ~(n < MaxRetries)
  BY <1>1, <1>2, <1>3, FailHolds DEF Thinking
<1>4. CASE n < MaxRetries
  <2>1. n \in 0..MaxRetries
    BY <1>1, <1>4, Names DEF Graph
  <2> HIDE DEF n
  <2>2. /\ y \in Graph /\ y.pc = "watch" /\ y.node = s.node /\ y.reply = s.reply
        /\ y.delegations = s.delegations /\ y.rounds = s.rounds
        /\ y.calls = s.calls /\ y.steps = s.steps /\ y.since = s.since
        /\ y.shown = s.shown
    BY <1>1, <2>1 DEF Graph
  <2> HIDE DEF y
  <2>3. /\ x \in Graph /\ x.pc = "watch" /\ x.node = s.node /\ x.reply = s.reply
        /\ x.delegations = s.delegations /\ x.rounds = s.rounds
        /\ x.calls = s.calls /\ x.steps = s.steps /\ x.since = s.since
        /\ x.shown = s.shown
    BY <2>2 DEF Graph
  <2> HIDE DEF x
  <2>4. Counted(x)
    BY <1>1, <2>3 DEF Counted, Ahead, Thinking
  <2>5. Remembers(x, memory)
    BY <1>1, <2>3 DEF Remembers, Thinking
  <2>6. Kept(c, x)
    BY <1>1, <1>2, <1>4, <2>3, <2>4, <2>5 DEF Kept, Replied
  <2> QED
    BY <1>1, <1>2, <1>4, <2>6, StepHolds
<1> QED
  BY <1>3, <1>4

LEMMA FinalizeHolds ==
    ASSUME IInv, NEW c \in Conversations, Finalize(c)
    PROVE  IInv'
<1> DEFINE s == call[c]
<1>1. s \in Graph /\ Counted(s) /\ s.pc = "finalize" /\ Leaving(c)
  BY Facts DEF Finalize, At
<1>2. PICK status \in {s.status, "failed"} :
         Step(c, [s EXCEPT !.pc = "done", !.status = status, !.steps = @ + 1])
  BY DEF Finalize
<1>3. UNCHANGED <<budget, memory, broken>> /\ (c \in broken => status = "failed")
  BY <1>1, <1>2 DEF Finalize, Leaving
<1> DEFINE n == s.steps + 1
           x == [s EXCEPT !.pc = "done", !.status = status, !.steps = n]
<1>4. Step(c, x)
  BY <1>2
<1> HIDE DEF s
<1>5. status \in Statuses \cup {"none"} /\ n \in Nat
  BY <1>1, <1>2 DEF Graph, Statuses
<1>6. s.steps \in Nat /\ s.calls \in Nat /\ s.rounds \in Nat
      /\ n <= s.calls + s.rounds + 3
  BY <1>1 DEF Graph, Counted, Ahead
<1> HIDE DEF n
<1>7. /\ x \in Graph /\ x.pc = "done" /\ x.node = s.node /\ x.status = status
      /\ x.delegations = s.delegations /\ x.rounds = s.rounds
      /\ x.calls = s.calls /\ x.steps = n
  BY <1>1, <1>5 DEF Graph
<1> HIDE DEF x
<1>8. Counted(x)
  BY <1>1, <1>6, <1>7 DEF Counted, Ahead, Thinking
<1>9. Kept(c, x)
  BY <1>3, <1>7, <1>8 DEF Kept, Replied, Remembers, Thinking
<1> QED
  BY <1>3, <1>4, <1>9, StepHolds

-----------------------------------------------------------------------------
(* The steps that other reviews are told of.                               *)
LEMMA NotifyHolds ==
    ASSUME budget \in Budgets, memory \in [Roles -> Nat],
           NEW s \in Graph, Counted(s), Replied(s), Remembers(s, memory),
           NEW role \in Roles, NEW r \in Nat, NEW event \in {"written", "expired"},
           event = "written" => r > memory[role]
    PROVE  LET x == Notify(s, role, event)
               m == [memory EXCEPT ![role] = r]
           IN  /\ x \in Graph /\ Counted(x) /\ Replied(x) /\ Remembers(x, m)
               /\ x.pc = s.pc /\ x.status = s.status
<1> DEFINE m == [memory EXCEPT ![role] = r]
           e == s.since \cup {event}
           b == (s.pc = "exec")
           y == [s EXCEPT !.since = e, !.dirty = b]
<1>1. /\ s.node \in Roles /\ memory[role] \in Nat /\ memory[s.node] \in Nat
      /\ m[role] = r /\ (s.node # role => m[s.node] = memory[s.node])
  BY DEF Graph
<1>2. CASE s.node = role /\ s.pc \in {"think", "watch", "exec"}
  <2>1. Notify(s, role, event) = y
    BY <1>2 DEF Notify
  <2>2. e \in SUBSET {"written", "expired"} /\ b \in BOOLEAN
    BY DEF Graph
  <2>3. ("expired" \notin e => "expired" \notin s.since /\ event = "written")
        /\ (s.pc = "exec" => b)
    OBVIOUS
  <2> HIDE DEF e, b, m
  <2>4. /\ y \in Graph /\ y.pc = s.pc /\ y.node = s.node /\ y.reply = s.reply
        /\ y.delegations = s.delegations /\ y.rounds = s.rounds
        /\ y.calls = s.calls /\ y.steps = s.steps /\ y.since = e
        /\ y.dirty = b /\ y.shown = s.shown /\ y.read = s.read
        /\ y.status = s.status /\ s.shown \in Nat
    BY <2>2 DEF Graph
  <2> HIDE DEF y
  <2>5. Counted(y) /\ Replied(y)
    BY <2>4 DEF Counted, Ahead, Replied
  <2>6. "expired" \notin e => s.shown <= r /\ s.shown < r
    BY <1>1, <1>2, <2>3, <2>4 DEF Remembers, Thinking
  <2>7. Remembers(y, m)
    <3>1. y.pc \in {"think", "watch", "exec"}
      BY <1>2, <2>4
    <3>2. "expired" \notin y.since => y.shown <= m[y.node] /\ y.shown < m[y.node]
      BY <1>1, <1>2, <2>4, <2>6
    <3>3. ~(y.pc = "exec" /\ ~y.dirty)
      BY <2>3, <2>4
    <3>4. y.pc = "exec" /\ y.reply.update = "checked" => y.read = y.shown
      BY <2>4 DEF Remembers, Thinking
    <3> QED
      BY <3>1, <3>2, <3>3, <3>4 DEF Remembers
  <2> QED
    BY <2>1, <2>4, <2>5, <2>7 DEF m
<1>3. CASE ~(s.node = role /\ s.pc \in {"think", "watch", "exec"})
  <2>1. Notify(s, role, event) = s
    BY <1>3 DEF Notify
  <2>2. s.pc \in Thinking => m[s.node] = memory[s.node]
    BY <1>1, <1>3 DEF Thinking
  <2> HIDE DEF m
  <2>3. Remembers(s, m)
    BY <2>2 DEF Remembers
  <2> QED
    BY <2>1, <2>3 DEF m
<1> QED
  BY <1>2, <1>3

(* An undisturbed transaction writes the revision after the one it read.   *)
LEMMA CommitWrites ==
    ASSUME IInv, NEW c \in Conversations, Commit(c)
    PROVE  LET s == call[c] IN
           /\ s \in Graph /\ Counted(s) /\ Replied(s) /\ s.pc = "exec"
           /\ Remembers(s, memory)
           /\ c \notin broken /\ s.calls < budget.calls /\ budget \in Budgets
           /\ memory \in [Roles -> Nat] /\ s.node \in Roles
           /\ memory[s.node] \in Nat /\ s.read = memory[s.node]
           /\ memory' = [memory EXCEPT ![s.node] = memory[s.node] + 1]
<1> DEFINE s == call[c]
<1>1. s.pc = "exec" /\ ~s.dirty /\ memory' = [memory EXCEPT ![s.node] = s.read + 1]
  BY DEF Commit, At, Undisturbed
<1>2. /\ s \in Graph /\ Counted(s) /\ Replied(s) /\ Remembers(s, memory)
      /\ c \notin broken /\ s.calls < budget.calls /\ budget \in Budgets
      /\ s.node \in Roles /\ memory[s.node] \in Nat /\ memory \in [Roles -> Nat]
  BY <1>1, AtWork, Facts DEF Thinking
<1>3. s.read = memory[s.node]
  BY <1>1, <1>2 DEF Remembers, Thinking
<1> QED
  BY <1>1, <1>2, <1>3

LEMMA CommitHolds ==
    ASSUME IInv, NEW c \in Conversations, Commit(c)
    PROVE  IInv'
<1> DEFINE s == call[c]
           r == memory[call[c].node] + 1
<1>1. /\ s \in Graph /\ Counted(s) /\ Replied(s) /\ s.pc = "exec"
      /\ c \notin broken /\ s.calls < budget.calls /\ budget \in Budgets
      /\ memory \in [Roles -> Nat] /\ s.node \in Roles
      /\ r \in Nat /\ r > memory[s.node]
      /\ memory' = [memory EXCEPT ![s.node] = r]
  BY CommitWrites
<1>2. /\ call' = [d \in Conversations |-> IF d = c THEN Posted(s)
                                          ELSE Notify(call[d], s.node, "written")]
      /\ UNCHANGED <<budget, broken>>
  BY DEF Commit
<1>3. Returned(Posted(s))
  BY <1>1, PostedHolds DEF Thinking, Replied
<1> HIDE DEF r
<1>4. ASSUME NEW d \in Conversations
      PROVE  /\ call'[d] \in Graph /\ Counted(call[d])' /\ Replied(call[d])'
             /\ Remembers(call[d], memory)' /\ Leaving(d)'
  <2>1. CASE d = c
    <3>1. call'[d] = Posted(s)
      BY <1>2, <2>1
    <3> HIDE DEF s
    <3> QED
      BY <1>1, <1>2, <1>3, <2>1, <3>1
      DEF Returned, Counted, Ahead, Replied, Remembers, Leaving, Thinking
  <2>2. CASE d # c
    <3> DEFINE x == Notify(call[d], s.node, "written")
    <3>1. call'[d] = x
      BY <1>2, <2>2
    <3>2. /\ call[d] \in Graph /\ Counted(call[d]) /\ Replied(call[d])
          /\ Remembers(call[d], memory) /\ Leaving(d)
      BY Facts
    <3> HIDE DEF s
    <3>3. /\ x \in Graph /\ Counted(x) /\ Replied(x) /\ Remembers(x, memory')
          /\ x.pc = call[d].pc /\ x.status = call[d].status
      BY <1>1, <3>2, NotifyHolds
    <3> HIDE DEF x
    <3> QED
      BY <1>2, <3>1, <3>2, <3>3 DEF Counted, Ahead, Replied, Remembers, Leaving
  <2> QED
    BY <2>1, <2>2
<1>5. TypeOK'
  <2>1. call' \in [Conversations -> Graph]
    BY <1>2, <1>4
  <2>2. memory' \in [Roles -> Nat]
    BY <1>1
  <2> QED
    BY <1>2, <2>1, <2>2 DEF IInv, TypeOK
<1> QED
  BY <1>4, <1>5 DEF IInv

LEMMA ExpireHolds ==
    ASSUME IInv, NEW role \in Roles, Expire(role)
    PROVE  IInv'
<1>1. /\ memory' = [memory EXCEPT ![role] = 0]
      /\ call' = [c \in Conversations |-> Notify(call[c], role, "expired")]
      /\ UNCHANGED <<budget, broken>>
      /\ memory \in [Roles -> Nat] /\ budget \in Budgets
  BY DEF Expire, IInv, TypeOK
<1>2. ASSUME NEW d \in Conversations
      PROVE  /\ call'[d] \in Graph /\ Counted(call[d])' /\ Replied(call[d])'
             /\ Remembers(call[d], memory)' /\ Leaving(d)'
  <2> DEFINE x == Notify(call[d], role, "expired")
  <2>1. call'[d] = x
    BY <1>1
  <2>2. /\ call[d] \in Graph /\ Counted(call[d]) /\ Replied(call[d])
        /\ Remembers(call[d], memory) /\ Leaving(d)
    BY Facts
  <2>3. /\ x \in Graph /\ Counted(x) /\ Replied(x) /\ Remembers(x, memory')
        /\ x.pc = call[d].pc /\ x.status = call[d].status
    BY <1>1, <2>2, NotifyHolds
  <2> HIDE DEF x
  <2> QED
    BY <1>1, <2>1, <2>2, <2>3 DEF Counted, Ahead, Replied, Remembers, Leaving
<1>3. TypeOK'
  <2>1. call' \in [Conversations -> Graph]
    BY <1>1, <1>2
  <2>2. memory' \in [Roles -> Nat]
    BY <1>1
  <2> QED
    BY <1>1, <2>1, <2>2 DEF IInv, TypeOK
<1> QED
  BY <1>2, <1>3 DEF IInv

-----------------------------------------------------------------------------
(* The invariant.                                                          *)
LEMMA InitHolds == Init => IInv
<1> SUFFICES ASSUME Init PROVE IInv
  OBVIOUS
<1> DEFINE g == [pc |-> "idle", node |-> "supervisor", delegations |-> 0,
                 rounds |-> 0, calls |-> 0, steps |-> 0, status |-> "none",
                 reply |-> NoReply, shown |-> 0, since |-> {}, read |-> 0,
                 dirty |-> FALSE, tries |-> 0]
<1>1. budget \in Budgets /\ broken = {} /\ call = [c \in Conversations |-> g]
      /\ memory = [role \in Roles |-> 0]
  BY DEF Init
<1>2. NoReply \in AnyReply /\ 0 \in 0..MaxRetries /\ "supervisor" \in Roles
  BY RepliesTyped, Names DEF Roles
<1>3. g \in Graph
  BY <1>2 DEF Graph
<1>4. /\ g.pc = "idle" /\ g.delegations = 0 /\ g.rounds = 0 /\ g.calls = 0
      /\ g.steps = 0 /\ g.since = {} /\ g.node = "supervisor"
  OBVIOUS
<1> HIDE DEF g
<1>5. TypeOK
  BY <1>1, <1>3 DEF TypeOK
<1>6. Counted(g) /\ Replied(g) /\ Remembers(g, memory)
  BY <1>1, <1>4, BudgetTyped DEF Counted, Ahead, Thinking, Replied, Remembers
<1> QED
  BY <1>1, <1>5, <1>6 DEF IInv, Leaving

LEMMA NextHolds == IInv /\ [Next]_vars => IInv'
<1> SUFFICES ASSUME IInv, [Next]_vars PROVE IInv'
  OBVIOUS
<1>1. ASSUME NEW c \in Conversations, Start(c) PROVE IInv'
  BY <1>1, StartHolds
<1>2. ASSUME NEW c \in Conversations, Run(c) PROVE IInv'
  BY <1>2, AbortHolds, ExhaustHolds, ForceReviewHolds, RecallHolds, ThinkHolds,
     WatchHolds, CommitHolds, RetryHolds, FinalizeHolds DEF Run
<1>3. ASSUME NEW role \in Roles, Expire(role) PROVE IInv'
  BY <1>3, ExpireHolds
<1>4. ASSUME UNCHANGED vars PROVE IInv'
  BY <1>4 DEF vars, IInv, TypeOK, Counted, Replied, Remembers, Leaving
<1> QED
  BY <1>1, <1>2, <1>3, <1>4 DEF Next

LEMMA Invariant == Spec => []IInv
  BY InitHolds, NextHolds, PTL DEF Spec

(* Budgets, memory and the state of each review are of their type, a reply *)
(* always one of its role's contract.                                      *)
THEOREM TypeCorrect == Spec => []TypeOK
<1>1. IInv => TypeOK
  BY DEF IInv
<1> QED
  BY <1>1, Invariant, PTL

(* No review exceeds its budget, whatever the models answer, for every     *)
(* configured budget (CollaborationBudget).                                *)
THEOREM BudgetHolds == Spec => []WithinBudget
<1>1. IInv => WithinBudget
  <2> SUFFICES ASSUME IInv, NEW c \in Conversations
               PROVE  LET s == call[c] IN
                      /\ s.delegations <= budget.delegations
                      /\ s.rounds <= budget.reflections
                      /\ s.calls <= budget.calls
                      /\ s.steps <= s.calls + s.rounds + 3
    BY DEF WithinBudget
  <2> DEFINE s == call[c]
  <2>1. s \in Graph /\ Counted(s)
    BY Facts
  <2> HIDE DEF s
  <2>2. s.steps \in Nat /\ s.calls \in Nat /\ s.rounds \in Nat /\ Ahead(s) \in 0..3
    BY <2>1 DEF Graph, Ahead
  <2>3. s.steps <= s.calls + s.rounds + 3
    BY <2>1, <2>2 DEF Counted
  <2> QED
    BY <2>1, <2>3 DEF Counted, s
<1> QED
  BY <1>1, Invariant, PTL

(* A review one of whose agents failed is never accepted                   *)
(* (_agent_failure, _validate_references).                                 *)
THEOREM ClosedCorrect == Spec => []FailsClosed
<1>1. IInv => FailsClosed
  BY DEF IInv, TypeOK, FailsClosed, Leaving
<1> QED
  BY <1>1, Invariant, PTL

(* However many reviews write the memory of a role, the one that commits   *)
(* writes the revision after the record that is there when it does, and no *)
(* other role's: no update is lost (RedisAgentMemoryStore.upsert).         *)
THEOREM RevisionsCorrect == Spec => NoLostRevision
<1>1. IInv => \A c \in Conversations : Commit(c) =>
                 memory' = [memory EXCEPT ![call[c].node] = @ + 1]
  <2> SUFFICES ASSUME IInv, NEW c \in Conversations, Commit(c)
               PROVE  memory' = [memory EXCEPT ![call[c].node] = @ + 1]
    OBVIOUS
  <2>1. memory' = [memory EXCEPT ![call[c].node] = memory[call[c].node] + 1]
    BY CommitWrites
  <2> QED
    BY <2>1
<1> QED
  BY <1>1, Invariant, PTL DEF NoLostRevision

(* An update that names the revision it was shown replaces only that       *)
(* record, or one of a hash begun anew (AgentMemoryConflictError).         *)
THEOREM StaleRefused == Spec => StaleMemoryRefused
<1>1. IInv => \A c \in Conversations :
                 LET s == call[c] IN
                 Commit(c) /\ s.reply.update = "checked" /\ "written" \in s.since
                     => "expired" \in s.since
  <2> SUFFICES ASSUME IInv, NEW c \in Conversations, Commit(c),
                      call[c].reply.update = "checked",
                      "written" \in call[c].since, "expired" \notin call[c].since
               PROVE  FALSE
    OBVIOUS
  <2>1. LET s == call[c] IN
        /\ s \in Graph /\ s.pc = "exec" /\ Remembers(s, memory)
        /\ memory[s.node] \in Nat /\ s.read = memory[s.node]
    BY CommitWrites
  <2>2. call[c].shown < memory[call[c].node] /\ call[c].read = call[c].shown
    BY <2>1 DEF Remembers, Thinking
  <2> QED
    BY <2>1, <2>2
<1> QED
  BY <1>1, Invariant, PTL DEF StaleMemoryRefused

=============================================================================
