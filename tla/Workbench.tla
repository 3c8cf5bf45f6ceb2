----------------------------- MODULE Workbench -----------------------------
(***************************************************************************)
(* The operator's page (workbench/app.py), its client                      *)
(* (workbench/site_selection_client.py) and what the handlers of           *)
(* app/api/site_selection.py answer it.                                    *)
(*                                                                         *)
(* The page is a script that runs from top to bottom after every click,    *)
(* over the session state that survives from one run of it to the next.    *)
(* A click during a run abandons that run at its next call of Streamlit,   *)
(* which is where a call to the API returns: the answer is lost, its       *)
(* effect on the server is not.  Fragments poll every two seconds while    *)
(* the script is idle.  A reload loses the session state and keeps the URL.*)
(*                                                                         *)
(* What the server does with sessions and runs is the matter of            *)
(* SupervisorSession and RunLifecycle: here a session is the project type  *)
(* it was started for and the status of its run.  Layout, maps, tables and *)
(* the values of the range widgets are left out.                           *)
(***************************************************************************)
EXTENDS Integers, FiniteSets

CONSTANTS
    Retail,       \* project types with candidate discovery
    Other,        \* project types that have only the fixture candidates
    First,        \* the type a fresh page shows
    Rows,         \* rows of a candidate table
    Fixtures,     \* runs the fixture mode may create
    MaxSessions,  \* bound: sessions started
    MaxVersions,  \* bound: turns of the conversation
    MaxClicks,    \* bound: what the operator does
    MaxFaults,    \* bound: calls whose answer does not arrive
    None

ASSUME WorkbenchAssumption ==
    /\ First \in Retail /\ Retail \cap Other = {} /\ None \notin Retail
    /\ {MaxSessions, MaxVersions, MaxClicks, MaxFaults} \subseteq Nat

VARIABLES
    type,      \* sidebar: the project type
    mode,      \* widget per retail type: "discovery" or "fixture"
    unticked,  \* table per retail type: the rows taken out, each with the
               \* session whose candidates were its rows when it was
    chat,      \* the conversation: version, type and status, or None
    pending,   \* scenario_discovery_pending: type and version (0: the demo)
    ready,     \* discovery-bounds-ready per retail type
    report,    \* per retail type the session whose report the page shows
    table,     \* per retail type the session whose candidates are its rows
    sup,       \* site_selection_supervisor: id and status, or None
    run,       \* site_selection_run: id and status, or None
    payload,   \* site_selection_payload: the run it belongs to, or None
    url,       \* the session named in the URL, or None
    script,    \* where the script is, the click it answers, the call's answer
    owner,     \* server: the project type of each session, None if not started
    runs,      \* server: the status of the run of each session and fixture run
    clicks, faults,
    partial,   \* history: types whose report, rows and edits were not all stored
    torn       \* history: run and payload were not both stored

widgets == <<type, mode, unticked>>
shown   == <<ready, report, table>>
kept    == <<chat, pending, shown, sup, run, payload>>
server  == <<owner, runs>>
history == <<partial, torn>>
vars    == <<widgets, kept, url, script, server, clicks, faults, history>>

Sessions == 1..MaxSessions
Ended    == {"completed", "failed", "cancelled"}
Clicks   == {"none", "rediscover", "resume", "confirm", "run"}

TypeOK ==
    /\ type \in Retail \cup Other
    /\ mode \in [Retail -> {"discovery", "fixture"}]
    /\ unticked \in [Retail -> SUBSET (Sessions \X Rows)]
    /\ chat \in [version : 1..MaxVersions, type : Retail,
                 status : {"needs", "awaiting", "confirmed"}] \cup {None}
    /\ pending \in [type : Retail, version : 0..MaxVersions] \cup {None}
    /\ ready \in [Retail -> BOOLEAN]
    /\ report \in [Retail -> Sessions \cup {None}]
    /\ table \in [Retail -> Sessions \cup {None}]
    /\ sup \in [id : Sessions,
                status : Ended \cup {"awaiting_confirmation", "awaiting_analysis"}]
                 \cup {None}
    /\ run \in [id : Sessions \cup Fixtures, status : Ended \cup {"running"}]
                 \cup {None}
    /\ payload \in Sessions \cup Fixtures \cup {None}
    /\ url \in Sessions \cup {None}
    /\ script.pc \in {"idle", "recover", "side", "discover", "discovered", "popped",
                      "act", "answered", "created", "stored", "url", "ready", "report",
                      "table", "edits", "payload", "reading"}
    /\ script.click \in Clicks
    /\ script.id \in Sessions \cup {None}
    /\ script.call \in Sessions \cup Fixtures \cup {None}
    /\ owner \in [Sessions -> Retail \cup {None}]
    /\ runs \in [Sessions \cup Fixtures -> Ended \cup {"absent", "running"}]
    /\ clicks \in 0..MaxClicks
    /\ faults \in 0..MaxFaults
    /\ partial \in SUBSET Retail
    /\ torn \in BOOLEAN

(* The script: the click it answers with the id in the box for earlier     *)
(* sessions, the answer of its last call, and, while it stores a session,  *)
(* whether its report is new to the page and where the script goes on.     *)
Afresh(click, id) ==
    [pc |-> "recover", click |-> click, id |-> id, call |-> None, status |-> None,
     new |-> FALSE, ok |-> "idle", failed |-> "idle"]

GoTo(pc) ==
    CASE pc = "recover" -> Afresh("none", None)
      [] pc = "idle"    -> [Afresh("none", None) EXCEPT !.pc = "idle"]
      [] OTHER          -> [Afresh(script.click, script.id) EXCEPT !.pc = pc]

Answer(pc, call, status) == [GoTo(pc) EXCEPT !.call = call, !.status = status]

Init ==
    /\ type = First
    /\ mode = [t \in Retail |-> "discovery"]
    /\ unticked = [t \in Retail |-> {}]
    /\ chat = None /\ pending = None /\ sup = None /\ run = None /\ payload = None
    /\ ready = [t \in Retail |-> FALSE]
    /\ report = [t \in Retail |-> None]
    /\ table = [t \in Retail |-> None]
    /\ url = None
    /\ script = Afresh("none", None)
    /\ owner = [s \in Sessions |-> None]
    /\ runs = [r \in Sessions \cup Fixtures |-> "absent"]
    /\ clicks = 0 /\ faults = 0 /\ partial = {} /\ torn = FALSE

-----------------------------------------------------------------------------
(* What the page shows.                                                    *)

Discovery == type \in Retail /\ mode[type] = "discovery"

(* current_supervisor: the stored session if it is of the type shown.      *)
Current == Discovery /\ sup # None /\ owner[sup.id] = type

(* analysis_allowed                                                        *)
Allowed ==
    /\ Current /\ sup.status = "awaiting_confirmation"
    /\ report[type] # None
    /\ table[type] # None /\ {e[2] : e \in unticked[type]} # Rows

(* The status the API reports for a session.  Its GET settles the session  *)
(* with the run it waits for: taken here as if it always did, which        *)
(* SupervisorSession shows of a session no request crashed in              *)
(* (CalmPollingReconciles) and not of one where a completion was cut short *)
(* between its two checkpoints (BugPollingReconciles.cfg).                 *)
StatusOf(s) ==
    CASE runs[s] = "absent"  -> "awaiting_confirmation"
      [] runs[s] = "running" -> "awaiting_analysis"
      [] OTHER               -> runs[s]

(* What a run is when the call that created it answers: queued, or ended   *)
(* where it is executed within the call.                                   *)
Created == {"running", "completed", "failed"}

Fault == faults < MaxFaults /\ faults' = faults + 1

-----------------------------------------------------------------------------
(* The operator.  Every click starts the script afresh, wherever it is.    *)

(* The sidebar's type; the widgets of the type left are no longer rendered *)
(* and Streamlit drops their state.                                        *)
Switch(t) ==
    /\ t # type
    /\ type' = t
    /\ IF type \in Retail
       THEN /\ mode' = [mode EXCEPT ![type] = "discovery"]
            /\ unticked' = [unticked EXCEPT ![type] = {}]
       ELSE UNCHANGED <<mode, unticked>>
    /\ script' = Afresh("none", None)
    /\ UNCHANGED <<kept, url, server, faults, history>>

(* The source of candidates, with a table of its own.                      *)
Source(m) ==
    /\ type \in Retail /\ m # mode[type]
    /\ mode' = [mode EXCEPT ![type] = m]
    /\ unticked' = [unticked EXCEPT ![type] = {}]
    /\ script' = Afresh("none", None)
    /\ UNCHANGED <<type, kept, url, server, faults, history>>

Tick(row) ==
    /\ Discovery /\ table[type] # None
    /\ LET others == {e \in unticked[type] : e[2] # row}
       IN  unticked' = [unticked EXCEPT ![type] =
                          IF others = @ THEN @ \cup {<<table[type], row>>} ELSE others]
    /\ script' = Afresh("none", None)
    /\ UNCHANGED <<type, mode, kept, url, server, faults, history>>

Version == IF chat = None THEN 0 ELSE chat.version

(* A message: the reply is a new version of the scenario, of the type the  *)
(* message asks for, whatever the sidebar shows.                           *)
Say(t, status) ==
    /\ Version < MaxVersions
    /\ chat' = [version |-> Version + 1, type |-> t, status |-> status]
    /\ script' = Afresh("none", None)
    /\ UNCHANGED <<widgets, pending, shown, sup, run, payload, url, server,
                   faults, history>>

(* apply_confirmed_scenario, refused for another type than the one shown.  *)
Apply ==
    IF chat.type = type
    THEN /\ mode' = [mode EXCEPT ![type] = "discovery"]
         /\ ready' = [ready EXCEPT ![type] = TRUE]
         /\ unticked' = IF mode[type] = "discovery" THEN unticked
                        ELSE [unticked EXCEPT ![type] = {}]
    ELSE UNCHANGED <<mode, ready, unticked>>

(* queue_confirmed_scenario_discovery asks for the discovery first and     *)
(* applies the scenario to the page then.                                  *)
Queue ==
    /\ pending' = [type |-> chat.type, version |-> chat.version]
    /\ Apply
    /\ script' = Afresh("none", None)
    /\ UNCHANGED <<type, report, table, sup, run, payload, url, server, faults, history>>

ConfirmScenario ==
    /\ chat # None /\ chat.status = "awaiting"
    /\ chat' = [chat EXCEPT !.status = "confirmed"]
    /\ Queue

QueueScenario ==
    /\ chat # None /\ chat.status = "confirmed"
    /\ pending = None /\ (type \in Retail => report[type] = None)
    /\ chat' = chat
    /\ Queue

(* queue_fixture_land_demo_discovery                                       *)
Demo ==
    /\ Discovery
    /\ pending' = [type |-> type, version |-> 0]
    /\ ready' = [ready EXCEPT ![type] = TRUE]
    /\ script' = Afresh("none", None)
    /\ UNCHANGED <<widgets, chat, report, table, sup, run, payload, url, server,
                   faults, history>>

(* The buttons whose calls the script itself makes when it comes to them.  *)
Click(click, id) ==
    /\ \/ click = "rediscover" /\ Discovery /\ ready[type] /\ id = None
       \/ click = "resume" /\ Discovery /\ id \in Sessions /\ owner[id] # None
       \/ click = "confirm" /\ Allowed /\ id = None
       \/ click = "run" /\ ~Discovery /\ id = None
    /\ script' = Afresh(click, id)
    /\ UNCHANGED <<widgets, kept, url, server, faults, history>>

Reload ==
    /\ type' = First
    /\ mode' = [t \in Retail |-> "discovery"]
    /\ unticked' = [t \in Retail |-> {}]
    /\ chat' = None /\ pending' = None /\ sup' = None /\ run' = None /\ payload' = None
    /\ ready' = [t \in Retail |-> FALSE]
    /\ report' = [t \in Retail |-> None]
    /\ table' = [t \in Retail |-> None]
    /\ script' = Afresh("none", None)
    /\ partial' = {} /\ torn' = FALSE
    /\ UNCHANGED <<url, server, faults>>

-----------------------------------------------------------------------------
(* store_supervisor_state writes the session, the URL, the range and, if   *)
(* the session is new to the page, its report, the rows of the table and a *)
(* table without edits, then the payload of a completed session and, with  *)
(* one more call, its run.  Each write is a call of Streamlit, and a click *)
(* in between leaves the rest unwritten; the next store of the same        *)
(* session finds nothing new.  Every session it is called for has a        *)
(* report, which never changes: a discovery without one is no answer.      *)

Changed(s) == sup = None \/ sup.id # s

(* The call's answer and the first write.                                  *)
Store(s, status, ok, failed) ==
    /\ sup' = [id |-> s, status |-> status]
    /\ partial' = IF Changed(s) THEN partial \cup {owner[s]} ELSE partial
    /\ script' = [script EXCEPT !.pc = "url", !.call = s, !.status = status,
                                !.new = Changed(s), !.ok = ok, !.failed = failed]
    /\ UNCHANGED <<widgets, chat, shown, run, payload, url, server, clicks, torn>>

StoreURL ==
    /\ script.pc = "url"
    /\ url' = script.call
    /\ script' = [script EXCEPT !.pc = "ready"]
    /\ UNCHANGED <<widgets, kept, server, clicks, faults, history>>

(* A completed session goes on to its results.                             *)
Whole ==
    script' = IF script.status = "completed" THEN [script EXCEPT !.pc = "payload"]
              ELSE GoTo(script.ok)

StoreReady ==
    /\ script.pc = "ready"
    /\ ready' = [ready EXCEPT ![owner[script.call]] = TRUE]
    /\ IF script.new THEN script' = [script EXCEPT !.pc = "report"] ELSE Whole
    /\ UNCHANGED <<widgets, chat, pending, report, table, sup, run, payload, url,
                   server, clicks, faults, history>>

StoreReport ==
    /\ script.pc = "report"
    /\ report' = [report EXCEPT ![owner[script.call]] = script.call]
    /\ script' = [script EXCEPT !.pc = "table"]
    /\ UNCHANGED <<widgets, chat, pending, ready, table, sup, run, payload, url,
                   server, clicks, faults, history>>

StoreTable ==
    /\ script.pc = "table"
    /\ table' = [table EXCEPT ![owner[script.call]] = script.call]
    /\ script' = [script EXCEPT !.pc = "edits"]
    /\ UNCHANGED <<widgets, chat, pending, ready, report, sup, run, payload, url,
                   server, clicks, faults, history>>

(* Mutant: the edits of the last table stay in the next.                   *)
StoreKeepsEdits ==
    /\ script.pc = "edits"
    /\ partial' = partial \ {owner[script.call]}
    /\ Whole
    /\ UNCHANGED <<widgets, kept, url, server, clicks, faults, torn>>

(* A new revision of the table's editor, without edits.                    *)
StoreEdits ==
    /\ script.pc = "edits"
    /\ unticked' = [unticked EXCEPT ![owner[script.call]] = {}]
    /\ partial' = partial \ {owner[script.call]}
    /\ Whole
    /\ UNCHANGED <<type, mode, kept, url, server, clicks, faults, torn>>

(* Mutant: the payload is stored with the report, when that is new.        *)
OutcomeOfNewReport ==
    /\ script.pc = "payload"
    /\ payload' = IF script.new THEN script.call ELSE payload
    /\ torn' = TRUE
    /\ script' = [script EXCEPT !.pc = "reading"]
    /\ UNCHANGED <<widgets, chat, pending, shown, sup, run, url, server, clicks,
                   faults, partial>>

StoreOutcome ==
    /\ script.pc = "payload"
    /\ payload' = script.call
    /\ torn' = TRUE
    /\ script' = [script EXCEPT !.pc = "reading"]
    /\ UNCHANGED <<widgets, chat, pending, shown, sup, run, url, server, clicks,
                   faults, partial>>

(* The call for the run.                                                   *)
ReadRun ==
    /\ script.pc = "reading"
    /\ run' = [id |-> script.call, status |-> runs[script.call]]
    /\ torn' = FALSE
    /\ script' = GoTo(script.ok)
    /\ UNCHANGED <<widgets, chat, pending, shown, sup, payload, url, server,
                   clicks, faults, partial>>

ReadRunFails ==
    /\ script.pc = "reading"
    /\ Fault
    /\ script' = GoTo(script.failed)
    /\ UNCHANGED <<widgets, kept, url, server, clicks, history>>

Storing ==
    \/ StoreURL \/ StoreReady \/ StoreReport \/ StoreTable \/ StoreEdits
    \/ StoreOutcome \/ ReadRun \/ ReadRunFails

-----------------------------------------------------------------------------
(* The script.                                                             *)

Silent == UNCHANGED <<widgets, kept, url, server, clicks, history>>

(* The session of the URL, if the page has none.                           *)
Recoverable == Discovery /\ url # None /\ sup = None

Recover ==
    /\ script.pc = "recover" /\ Recoverable /\ owner[url] = type
    /\ Store(url, StatusOf(url), "side", "side")
    /\ UNCHANGED <<pending, faults>>

NoRecovery ==
    /\ script.pc = "recover"
    /\ IF Recoverable /\ owner[url] = type THEN Fault ELSE UNCHANGED faults
    /\ script' = GoTo("side")
    /\ Silent

(* The box for the id of an earlier session.                               *)
Resumable == script.click = "resume" /\ Discovery /\ owner[script.id] = type

Resume ==
    /\ script.pc = "side" /\ Resumable
    /\ Store(script.id, StatusOf(script.id), "recover", "discover")
    /\ UNCHANGED <<pending, faults>>

NoResume ==
    /\ script.pc = "side"
    /\ IF Resumable THEN Fault ELSE UNCHANGED faults
    /\ script' = GoTo("discover")
    /\ Silent

(* A discovery is started for the pending request or else for the range in *)
(* the sidebar; the session is announced before the page has its answer.   *)
Discovering ==
    Discovery /\ (pending # None \/ (script.click = "rediscover" /\ ready[type]))

Opened(s) ==
    /\ owner[s] = None /\ \A n \in 1..(s - 1) : owner[n] # None
    /\ owner' = [owner EXCEPT ![s] = IF pending # None THEN pending.type ELSE type]
    /\ UNCHANGED runs

Start(s) ==
    /\ script.pc = "discover" /\ Discovering
    /\ Opened(s)
    /\ script' = Answer("discovered", s, "awaiting_confirmation")
    /\ UNCHANGED <<widgets, kept, url, clicks, faults, history>>

(* The client gives up after 150 s; the API goes on.                       *)
StartTimesOut(s) ==
    /\ script.pc = "discover" /\ Discovering
    /\ Fault
    /\ Opened(s)
    /\ pending' = None
    /\ script' = GoTo("act")
    /\ UNCHANGED <<widgets, chat, shown, sup, run, payload, url, clicks, history>>

(* The evidence does not allow it (409), or nothing answers (503).         *)
StartRefused ==
    /\ script.pc = "discover" /\ Discovering
    /\ pending' = None
    /\ script' = GoTo("act")
    /\ UNCHANGED <<widgets, chat, shown, sup, run, payload, url, server,
                   clicks, faults, history>>

NoDiscovery ==
    /\ script.pc = "discover" /\ ~Discovering
    /\ script' = GoTo("act")
    /\ UNCHANGED faults /\ Silent

(* The request is taken off the page before the session is stored.         *)
PopPending ==
    /\ script.pc = "discovered"
    /\ pending' = None
    /\ script' = [script EXCEPT !.pc = "popped"]
    /\ UNCHANGED <<widgets, chat, shown, sup, run, payload, url, server,
                   clicks, faults, history>>

StoreDiscovered ==
    /\ script.pc = "popped"
    /\ Store(script.call, script.status, "recover", "recover")
    /\ UNCHANGED <<pending, faults>>

(* render_analysis_action: the rows still ticked are confirmed for the     *)
(* session the page holds.  A session that was confirmed before answers    *)
(* 409, and so may one whose report has other candidates than the rows.    *)
Confirm(status) ==
    /\ script.pc = "act" /\ script.click = "confirm" /\ Allowed
    /\ runs[sup.id] = "absent"
    /\ runs' = [runs EXCEPT ![sup.id] = status]
    /\ \/ /\ script' = Answer("answered", sup.id,
                            IF status = "running" THEN "awaiting_analysis" ELSE status)
          /\ UNCHANGED faults
       \/ Fault /\ script' = GoTo("idle")
    /\ UNCHANGED <<widgets, kept, url, owner, clicks, history>>

(* The answer to a confirmation or a cancellation.                         *)
StoreAnswered ==
    /\ script.pc = "answered"
    /\ Store(script.call, script.status, "recover", "idle")
    /\ UNCHANGED <<pending, faults>>

CreateRun(f, status) ==
    /\ script.pc = "act" /\ script.click = "run" /\ ~Discovery
    /\ runs[f] = "absent"
    /\ runs' = [runs EXCEPT ![f] = status]
    /\ \/ script' = Answer("created", f, status) /\ UNCHANGED faults
       \/ Fault /\ script' = GoTo("idle")
    /\ UNCHANGED <<widgets, kept, url, owner, clicks, history>>

StoreRun ==
    /\ script.pc = "created"
    /\ run' = [id |-> script.call, status |-> script.status]
    /\ torn' = TRUE
    /\ script' = Answer("stored", script.call, None)
    /\ UNCHANGED <<widgets, chat, pending, shown, sup, payload, url, server,
                   clicks, faults, partial>>

StorePayload ==
    /\ script.pc = "stored"
    /\ payload' = script.call
    /\ torn' = FALSE
    /\ script' = GoTo("idle")
    /\ UNCHANGED <<widgets, chat, pending, shown, sup, run, url, server,
                   clicks, faults, partial>>

NoAction ==
    /\ script.pc = "act"
    /\ \/ script.click \notin {"confirm", "run"}
       \/ /\ script.click = "confirm"
          /\ ~(Allowed /\ runs[sup.id] = "absent" /\ table[type] = sup.id)
       \/ script.click = "run" /\ (Discovery \/ \A f \in Fixtures : runs[f] # "absent")
    /\ script' = GoTo("idle")
    /\ UNCHANGED faults /\ Silent

-----------------------------------------------------------------------------
(* The fragments, every two seconds while the script is idle, and their    *)
(* buttons.                                                                *)

(* The status of a session is polled where its report is shown.            *)
Waiting == Current /\ report[type] # None /\ sup.status = "awaiting_analysis"

(* Mutant: only results are looked for.                                    *)
PollForResult ==
    /\ script.pc = "idle" /\ Waiting
    /\ runs[sup.id] = "completed"
    /\ Store(sup.id, StatusOf(sup.id), "recover", "recover")
    /\ UNCHANGED <<pending, faults>>

(* The page runs afresh once the session has ended.                        *)
PollSession ==
    /\ script.pc = "idle" /\ Waiting
    /\ LET next == IF runs[sup.id] \in Ended THEN "recover" ELSE "idle"
       IN  Store(sup.id, StatusOf(sup.id), next, next)
    /\ UNCHANGED <<pending, faults>>

(* The run is cancelled and the session read, which its GET settles.       *)
CancelAnalysis ==
    /\ script.pc = "idle" /\ Waiting
    /\ runs[sup.id] = "running"
    /\ runs' = [runs EXCEPT ![sup.id] = "cancelled"]
    /\ \/ script' = Answer("answered", sup.id, "cancelled") /\ UNCHANGED faults
       \/ Fault /\ script' = GoTo("idle")
    /\ UNCHANGED <<widgets, kept, url, owner, clicks, history>>

Live == run # None /\ payload # None /\ run.status = "running"

PollRun ==
    /\ script.pc = "idle" /\ Live
    /\ runs[run.id] \in Ended
    /\ run' = [run EXCEPT !.status = runs[run.id]]
    /\ script' = Afresh("none", None)
    /\ UNCHANGED <<widgets, chat, pending, shown, sup, payload, url, server,
                   clicks, faults, history>>

CancelRun ==
    /\ script.pc = "idle" /\ Live
    /\ runs[run.id] = "running"
    /\ runs' = [runs EXCEPT ![run.id] = "cancelled"]
    /\ run' = [run EXCEPT !.status = "cancelled"]
    /\ script' = Afresh("none", None)
    /\ UNCHANGED <<widgets, chat, pending, shown, sup, payload, url, owner,
                   clicks, faults, history>>

(* The server: workers end runs.                                           *)
RunEnds(r) ==
    /\ runs[r] = "running"
    /\ \E status \in {"completed", "failed"} : runs' = [runs EXCEPT ![r] = status]
    /\ UNCHANGED <<widgets, kept, url, script, owner, clicks, faults, history>>

-----------------------------------------------------------------------------
Clicking ==
    \/ \E t \in Retail \cup Other : Switch(t)
    \/ \E m \in {"discovery", "fixture"} : Source(m)
    \/ \E row \in Rows : Tick(row)
    \/ \E t \in Retail, status \in {"needs", "awaiting"} : Say(t, status)
    \/ ConfirmScenario
    \/ QueueScenario
    \/ Demo
    \/ \E click \in Clicks, id \in Sessions \cup {None} : Click(click, id)
    \/ Reload

Operator == clicks < MaxClicks /\ clicks' = clicks + 1 /\ Clicking

Script ==
    \/ Recover \/ NoRecovery \/ Resume \/ NoResume
    \/ \E s \in Sessions : Start(s) \/ StartTimesOut(s)
    \/ StartRefused \/ NoDiscovery \/ PopPending \/ StoreDiscovered
    \/ \E status \in Created : Confirm(status)
    \/ StoreAnswered
    \/ \E f \in Fixtures, status \in Created : CreateRun(f, status)
    \/ StoreRun \/ StorePayload \/ NoAction
    \/ Storing

Fragments == PollSession \/ PollRun

Next ==
    \/ Operator \/ Script \/ Fragments
    \/ CancelAnalysis \/ CancelRun
    \/ \E r \in Sessions \cup Fixtures : RunEnds(r)

Spec == Init /\ [][Next]_vars

(* The script and the fragments run on; the operator stops clicking some   *)
(* time (a click every instant would abandon every run of the script).     *)
Fairness ==
    /\ WF_vars(Script)
    /\ WF_vars(PollSession)
    /\ WF_vars(PollRun)
    /\ <>[][~Operator]_vars

FairSpec == Spec /\ Fairness

-----------------------------------------------------------------------------
(* Properties.                                                             *)

(* What is confirmed is what is shown: the session a confirmation names is *)
(* the one whose report and candidates stand on the page, and rows were    *)
(* taken out of that table, not of one that stood there before; whatever   *)
(* order sessions are started, recovered and resumed in, for whichever     *)
(* type, unless a click cut short the store of a session of that type and  *)
(* no other session of the type was stored since.                          *)
ConfirmsWhatIsShown ==
    \A t \in Retail \ partial :
        /\ sup # None /\ owner[sup.id] = t => {report[t], table[t]} = {sup.id}
        /\ \A e \in unticked[t] : e[1] = table[t]

(* A confirmation submits the checkpoint the page shows                    *)
(* (docs/agent-implementation-guide.md:1456): the session it names is the  *)
(* one whose report stands beside the button.  A click within              *)
(* store_supervisor_state breaks it.                                       *)
ConfirmsShownSession ==
    [][ \A status \in Created : Confirm(status) => report[type] = sup.id ]_vars

(* The results shown are shown with the request they answer, unless one of *)
(* the two was stored and the other not, by a call that failed or a click  *)
(* that came in between.                                                   *)
ResultsMatch ==
    run # None /\ payload # None /\ ~torn => run.id = payload

(* A run that ends while its session is polled on the page is announced    *)
(* there without a click (docs/agent-implementation-guide.md, 29.3).       *)
AwaitedIsShown ==
    \A s \in Sessions :
        (Waiting /\ sup.id = s /\ runs[s] \in Ended)
          ~> (~Current \/ sup.id # s \/ sup.status = runs[s])

(* The summary of a completed session is of its own run                    *)
(* (docs/agent-implementation-guide.md, 37.3).                             *)
SummaryIsOfSession ==
    Current /\ sup.status = "completed" /\ script.pc = "idle" /\ Live = FALSE
      /\ run # None /\ payload # None /\ ~torn
      => run.id = sup.id

(* The run of a completed session is read once the session is shown as     *)
(* completed (docs/agent-implementation-guide.md, 28.7).                   *)
CompletedIsRead ==
    \A s \in Sessions :
        (Current /\ sup = [id |-> s, status |-> "completed"])
          ~> (~Current \/ sup.id # s \/ (run # None /\ run.id = s))

(* The scenario a discovery is started for is the one the page shows.      *)
StartsWhatIsShown ==
    [][ (\E s \in Sessions : Start(s)) /\ pending # None /\ chat # None
          => pending.version \in {0, chat.version} ]_vars

(* A confirmed scenario is discovered once.                                *)
DiscoveredOnce ==
    [][ script.pc = "discovered" /\ script'.pc # "discovered" => pending' = None ]_vars

=============================================================================
