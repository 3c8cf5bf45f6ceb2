------------------------ MODULE ScenarioConversation ------------------------
(* One scenario conversation, kept in Redis as a whole, and the memory of  *)
(* its actor's confirmed preferences (site_selection_conversation.py,      *)
(* scenario.py, memory.py). Requests load the session, work on their copy  *)
(* and store it; no lock and no version check stands between two of them.  *)
EXTENDS Integers, FiniteSets, SequencesExt

CONSTANTS
    Clients,        \* requests in flight at a time
    Messages,       \* what users may say: sequences of constraint actions
    MemoryModes,    \* memory modes users ask for
    Sometimes,      \* regions only the online resolver knows
    Never,          \* regions no resolver knows
    Padded,         \* regions said with blanks around them, and without
    MinRadius, DefaultRadius, MaxRadius,
    MinCount, DefaultCount, MaxCount,   \* candidates, counted in halves
    MaxVersions,    \* bound: versions of one conversation
    MaxRequests     \* bound: requests of one conversation

ASSUME ConversationConstants ==
    /\ MinRadius \in Nat \ {0} /\ MaxRadius \in Nat
    /\ DefaultRadius \in MinRadius .. MaxRadius
    /\ MinCount \in Nat \ {0} /\ MaxCount \in Nat
    /\ DefaultCount \in MinCount .. MaxCount /\ DefaultCount % 2 = 0
    /\ MaxVersions \in Nat \ {0}
    /\ Sometimes \cap Never = {}

(* What is left of a region without its blanks has none; it may be empty,  *)
(* which is no region.                                                     *)
ASSUME PaddedAssumption ==
    /\ "none" \notin DOMAIN Padded
    /\ \A text \in DOMAIN Padded : Padded[text] \notin DOMAIN Padded

(* A message is a sequence of constraint actions.                          *)
ASSUME MessagesAssumption ==
    \A m \in Messages : Len(m) \in Nat /\ DOMAIN m = 1 .. Len(m)

VARIABLES
    store,    \* the stored session
    op,       \* what each client's request is doing
    memory,   \* preferences of the actor, by project type
    issued,   \* version identifiers handed out
    requests, \* requests begun
    created   \* has the conversation been opened?

conversationVars == <<store, op, memory, issued, requests, created>>

-----------------------------------------------------------------------------
(* Scenario versions and the constraint actions that make them.            *)

Fields == {"project", "region", "radius", "count"}
Unset == [project |-> "none", region |-> "none", radius |-> 0, count |-> 0]
Retail == {"coffee_shop"}
Projects == Retail \cup {"logistics_park"}
NoId == 0
None == "none"

(* rent, footfall and competitor distance are recorded, never executed.    *)
Executable(key) == key \in Fields

Values(message, key) ==
    {message[i].value : i \in {j \in DOMAIN message : message[j].key = key}}
Keys(message) == {message[i].key : i \in DOMAIN message}
Duplicates(message) ==
    {key \in Keys(message) : Cardinality(Values(message, key)) > 1}

(* A preference is the radius and the count of a confirmed scenario.       *)
NoPreference == [radius |-> 0, count |-> 0]
Preferred(values) == [radius |-> values.radius, count |-> values.count]

Defaults(preference) ==
    IF preference = NoPreference
    THEN [Unset EXCEPT !.radius = DefaultRadius, !.count = DefaultCount]
    ELSE [Unset EXCEPT !.radius = preference.radius,
                       !.count = preference.count]

Draft(base, preference) ==
    IF base # <<>>
    THEN [values |-> base[1].values, recorded |-> base[1].recorded]
    ELSE [values |-> Defaults(preference),
          recorded |-> IF preference = NoPreference THEN {}
                       ELSE {[key |-> "radius", value |-> preference.radius],
                             [key |-> "count", value |-> preference.count]}]

Without(recorded, key) == {r \in recorded : r.key # key}

(* Mutant: a removed constraint stays on record.                           *)
ForgetNothing(draft, action, defaults) ==
    [draft EXCEPT !.values = IF Executable(action.key)
        THEN [@ EXCEPT ![action.key] = defaults[action.key]] ELSE @]
Forget(draft, action, defaults) ==
    [recorded |-> Without(draft.recorded, action.key),
     values |-> IF Executable(action.key)
        THEN [draft.values EXCEPT ![action.key] = defaults[action.key]]
        ELSE draft.values]
Record(draft, action) ==
    [recorded |-> Without(draft.recorded, action.key)
                    \cup {[key |-> action.key, value |-> action.value]},
     values |-> IF Executable(action.key)
        THEN [draft.values EXCEPT ![action.key] = action.value]
        ELSE draft.values]

Taken(draft, action, defaults) ==
    IF action.op = "remove" THEN Forget(draft, action, defaults)
                            ELSE Record(draft, action)

Applied(base, preference, message) ==
    LET defaults == Defaults(IF base = <<>> THEN preference
                                          ELSE NoPreference)
    IN  FoldLeft(LAMBDA draft, action : Taken(draft, action, defaults),
                 Draft(base, preference), message)

(* What is executed of a value: a count loses its fraction, without a word *)
(* to the user, and a region its blanks. The record keeps what was said.   *)
Truncated(number) == number - (number % 2)
Converted(key, value) ==
    IF key = "count" /\ value \in Nat THEN Truncated(value)
    ELSE IF key = "region" /\ value \in DOMAIN Padded THEN Padded[value]
    ELSE value
Cast(values) == [values EXCEPT !.region = Converted("region", @),
                               !.count = Converted("count", @)]

ValidProject(values) == values.project \in Projects \cup {None}
ValidRadius(values) == values.radius \in MinRadius .. MaxRadius
ValidCount(values) == values.count \in MinCount .. MaxCount

(* The regions that can be resolved now; asked only when the radius is one *)
(* a search window can be built from.                                      *)
Resolves(values, online) ==
    /\ values.region # None /\ ValidRadius(values)
    /\ values.region \notin Never
    /\ values.region \in Sometimes => online

Conflicts(message, values, online) ==
    Duplicates(message)
    \cup (IF ValidProject(values) THEN {} ELSE {"project"})
    \cup (IF ValidRadius(values) THEN {} ELSE {"radius"})
    \cup (IF ValidCount(values) THEN {} ELSE {"count"})
    \cup (IF /\ values.region # None /\ ValidRadius(values)
             /\ ~Resolves(values, online)
          THEN {"region"} ELSE {})

(* What a version holds of values that are cast: one that is not valid     *)
(* gives way to a default.                                                 *)
Normal(values) ==
    [values EXCEPT !.project = IF ValidProject(values) THEN @ ELSE None,
                   !.radius = IF ValidRadius(values) THEN @ ELSE DefaultRadius,
                   !.count = IF ValidCount(values) THEN @ ELSE DefaultCount]

Clarify(values) ==
    \/ values.project = None
    \/ values.project \in Retail /\ values.region = None

BuildVersion(id, number, base, preference, message, online) ==
    LET draft == Applied(base, preference, message)
        cast == Cast(draft.values)
        values == Normal(cast)
    IN  [id |-> id, number |-> number,
         parent |-> IF base = <<>> THEN NoId ELSE base[1].id,
         status |-> "proposed", values |-> values,
         said |-> message,
         recorded |-> draft.recorded,
         resolved |-> Resolves(cast, online),
         conflicts |-> Conflicts(message, cast, online),
         unclear |-> Clarify(values)]

(* Mutant: only clarifications hold a confirmation back.                   *)
ReadyWhenClear(v) == ~v.unclear
Ready(v) == v.conflicts = {} /\ ~v.unclear
DiscoveryReady(v) == Ready(v) /\ v.values.project \in Retail /\ v.resolved

-----------------------------------------------------------------------------
(* Sessions.                                                               *)

Absent == [state |-> "absent", versions |-> <<>>, active |-> NoId,
           pending |-> NoId, actor |-> FALSE, mode |-> "disabled",
           revision |-> 0]
NewSession(actor, mode) ==
    [Absent EXCEPT !.state = "open", !.actor = actor, !.mode = mode]

(* The first version of that identifier, if there is one.                  *)
VersionOf(session, id) ==
    LET named == {i \in DOMAIN session.versions : session.versions[i].id = id}
    IN  IF named = {} THEN <<>> ELSE <<session.versions[Min(named)]>>
Base(session) ==
    IF session.pending # NoId THEN VersionOf(session, session.pending)
                              ELSE VersionOf(session, session.active)

Marked(session, id, status) ==
    [i \in DOMAIN session.versions |->
        IF session.versions[i].id = id
        THEN [session.versions[i] EXCEPT !.status = status]
        ELSE session.versions[i]]

(* The session a turn stores: the pending version gives way to the new one.*)
(* Mutant: a turn starts over and forgets what was confirmed.              *)
SpokenAnew(session, version, mode) ==
    [session EXCEPT !.versions = Append(Marked(session, session.pending,
                                               "superseded"), version),
                    !.pending = version.id, !.active = NoId, !.mode = mode]
Spoken(session, version, mode) ==
    [session EXCEPT !.versions = Append(Marked(session, session.pending,
                                               "superseded"), version),
                    !.pending = version.id, !.mode = mode]

(* The session a confirmation stores.                                      *)
(* Mutant: the version confirmed before keeps its status.                  *)
AcceptedBeside(session) ==
    [session EXCEPT !.versions = Marked(session, session.pending, "confirmed"),
                    !.active = session.pending, !.pending = NoId]
Accepted(session) ==
    LET outdated == [session EXCEPT !.versions =
                        Marked(session, session.active, "superseded")]
    IN  [session EXCEPT
            !.versions = Marked(outdated, session.pending, "confirmed"),
            !.active = session.pending, !.pending = NoId]

-----------------------------------------------------------------------------
(* Requests.                                                               *)

Idle == [kind |-> "idle", copy |-> Absent, message |-> <<>>,
         mode |-> "disabled", recalled |-> NoPreference,
         remember |-> FALSE]

Begins(c) == op[c] = Idle /\ requests < MaxRequests
Writes(session) ==
    store' = [session EXCEPT !.revision = store.revision + 1]

(* The first turn opens the conversation.                                  *)
Open(c) ==
    /\ Begins(c) /\ ~created
    /\ \E m \in Messages, mode \in MemoryModes, actor \in BOOLEAN :
        op' = [op EXCEPT ![c] = [Idle EXCEPT
                !.kind = "turn", !.message = m, !.mode = mode,
                !.copy = NewSession(actor, mode)]]
    /\ created' = TRUE
    /\ requests' = requests + 1
    /\ UNCHANGED <<store, memory, issued>>

(* A turn keeps the memory mode of the session or sets another.            *)
Converse(c) ==
    /\ Begins(c) /\ store.state = "open"
    /\ Len(store.versions) < MaxVersions
    /\ \E m \in Messages, mode \in MemoryModes \cup {store.mode} :
        op' = [op EXCEPT ![c] = [Idle EXCEPT
                !.kind = "turn", !.message = m, !.mode = mode,
                !.copy = store]]
    /\ requests' = requests + 1
    /\ UNCHANGED <<store, memory, issued, created>>

(* The project type preferences are looked up for: the last one named that *)
(* is not taken back, or that of the scenario so far.                      *)
Named(message) ==
    SelectSeq(message, LAMBDA a : a.key = "project" /\ a.op # "remove")
RecallType(session, message) ==
    IF Named(message) # <<>> THEN Last(Named(message)).value
    ELSE IF Base(session) # <<>> THEN Base(session)[1].values.project
    ELSE None

Applies(session, mode) ==
    session.actor /\ mode = "apply_defaults" /\ Base(session) = <<>>

(* The preferences are read, or cannot be: a warning, and no preference.   *)
Recall(c) ==
    /\ op[c].kind = "turn"
    /\ LET type == RecallType(op[c].copy, op[c].message)
           known == IF type \in Projects /\ Applies(op[c].copy, op[c].mode)
                    THEN memory[type] ELSE NoPreference
       IN  \E read \in {known, NoPreference} :
            op' = [op EXCEPT ![c].kind = "recalled", ![c].recalled = read]
    /\ UNCHANGED <<store, memory, issued, requests, created>>

(* The turn builds its version and stores the session.                     *)
Reply(c) ==
    /\ op[c].kind = "recalled"
    /\ \E online \in BOOLEAN :
        LET session == op[c].copy
            version == BuildVersion(issued + 1, Len(session.versions) + 1,
                            Base(session), op[c].recalled, op[c].message,
                            online)
        IN  Writes(Spoken(session, version, op[c].mode))
    /\ issued' = issued + 1
    /\ op' = [op EXCEPT ![c] = Idle]
    /\ UNCHANGED <<memory, requests, created>>

(* A confirmation names the pending version; one that is not ready, or     *)
(* wants to remember preferences of nobody, is refused.                    *)
Confirm(c) ==
    /\ Begins(c) /\ store.state = "open" /\ store.pending # NoId
    /\ Ready(VersionOf(store, store.pending)[1])
    /\ \E remember \in BOOLEAN :
        /\ remember => store.actor
        /\ op' = [op EXCEPT ![c] = [Idle EXCEPT
                !.kind = "confirm", !.copy = store, !.remember = remember]]
    /\ requests' = requests + 1
    /\ UNCHANGED <<store, memory, issued, created>>

(* Preference and episode are saved in one transaction, or not at all; the *)
(* confirmation goes on either way.                                        *)
Remember(c) ==
    /\ op[c].kind = "confirm" /\ op[c].remember
    /\ LET values == VersionOf(op[c].copy, op[c].copy.pending)[1].values
       IN  \/ memory' = [memory EXCEPT ![values.project] = Preferred(values)]
           \/ UNCHANGED memory
    /\ op' = [op EXCEPT ![c].remember = FALSE]
    /\ UNCHANGED <<store, issued, requests, created>>

ConfirmSaved(c) ==
    /\ op[c].kind = "confirm" /\ ~op[c].remember
    /\ Writes(Accepted(op[c].copy))
    /\ op' = [op EXCEPT ![c] = Idle]
    /\ UNCHANGED <<memory, issued, requests, created>>

(* A request dies before it stores anything (Redis, a resolver, the model).*)
Die(c) ==
    /\ op[c] # Idle
    /\ op' = [op EXCEPT ![c] = Idle]
    /\ UNCHANGED <<store, memory, issued, requests, created>>

DeleteMemory ==
    /\ \E p \in Projects : memory[p] # NoPreference
    /\ memory' = [p \in Projects |-> NoPreference]
    /\ UNCHANGED <<store, op, issued, requests, created>>

SessionExpires ==
    /\ store.state = "open"
    /\ store' = [Absent EXCEPT !.revision = store.revision]
    /\ UNCHANGED <<op, memory, issued, requests, created>>

-----------------------------------------------------------------------------
ConversationInit ==
    /\ store = Absent
    /\ op = [c \in Clients |-> Idle]
    /\ memory \in {[p \in Projects |-> NoPreference],
                   [p \in Projects |->
                        [radius |-> MaxRadius, count |-> DefaultCount]]}
    /\ issued = 0
    /\ requests = 0
    /\ created = FALSE

ConversationNext ==
    \/ \E c \in Clients :
        \/ Open(c) \/ Converse(c) \/ Recall(c) \/ Reply(c)
        \/ Confirm(c) \/ Remember(c) \/ ConfirmSaved(c) \/ Die(c)
    \/ DeleteMemory \/ SessionExpires

ConversationSpec ==
    ConversationInit /\ [][ConversationNext]_conversationVars

-----------------------------------------------------------------------------
(* Properties.                                                             *)

Stored == {store.versions[i] : i \in DOMAIN store.versions}
Status(id) == {v.status : v \in {w \in Stored : w.id = id}}

(* Whatever requests overlap, the stored session is one a single user      *)
(* could have made: the confirmed version is the active one and the only   *)
(* one, the proposed one is the pending one and the only one, numbers      *)
(* count up and a parent comes before its child (converse, confirm).       *)
SessionIsCoherent ==
    /\ \A v \in Stored :
        /\ v.status = "confirmed" <=> v.id = store.active
        /\ v.status = "proposed" <=> v.id = store.pending
        /\ v.parent # NoId => \E w \in Stored : w.id = v.parent
                                             /\ w.number < v.number
    /\ \A i \in DOMAIN store.versions : store.versions[i].number = i

(* A confirmed version has no conflict and nothing left to clarify, and    *)
(* runs in the ranges the executors accept (ScenarioVersion,               *)
(* ready_for_confirmation).                                                *)
ConfirmedIsExecutable ==
    \A v \in Stored : v.status = "confirmed" =>
        /\ v.conflicts = {}
        /\ v.values.project \in Projects
        /\ ValidRadius(v.values) /\ ValidCount(v.values)
        /\ v.values = Cast(v.values)
        /\ v.values.project \in Retail => DiscoveryReady(v)

(* A version whose own line of descent met no conflict executes every      *)
(* value it records, once converted: a fraction of a candidate is dropped  *)
(* and no conflict tells, but nothing else is lost, neither to a default   *)
(* nor to a value said before (_build_version, _validate_number).          *)
Executes(v) ==
    \A r \in v.recorded : Executable(r.key) =>
        v.values[r.key] = Converted(r.key, r.value)
Cleared == {v \in Stored : \A w \in Stored : w.number <= v.number =>
                                w.conflicts = {}}
RecordedIsExecutedWhenClear == \A v \in Cleared : Executes(v)

(* The same of every version that may be confirmed: "the constraint has a  *)
(* deterministic field and a consumer that executes it" (_build_version).  *)
RecordedIsExecuted == \A v \in Stored : Ready(v) => Executes(v)

(* What the store forgets of a confirmation, but for its expiry, it        *)
(* forgets to a request that began before the session was last stored: a   *)
(* version confirmed last stays active until a later confirmation          *)
(* (converse, confirm: load, then save).                                   *)
Stale(c) == op[c].copy.revision # store.revision
OnlyStaleWritesUndo ==
    [][/\ store.active # NoId /\ store'.state = "open"
       /\ store'.active # store.active
       => \E c \in Clients :
            /\ op'[c] = Idle /\ op[c] # Idle
            /\ op[c].kind = "confirm" \/ Stale(c)]_conversationVars
=============================================================================
