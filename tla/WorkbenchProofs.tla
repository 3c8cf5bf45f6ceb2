-------------------------- MODULE WorkbenchProofs --------------------------
(***************************************************************************)
(* Proofs about Workbench, for any project types, candidates, sessions and *)
(* number of clicks and faults.                                            *)
(***************************************************************************)
EXTENDS Workbench, TLAPS

Statuses == Ended \cup {"awaiting_confirmation", "awaiting_analysis"}
(* Where a session is being stored, and where an answer is about to be.    *)
Storings == {"url", "ready", "report", "table", "edits", "payload", "reading"}
Answers  == {"discovered", "popped", "answered"}
Places   == {"idle", "recover", "side", "discover", "act", "created", "stored"}
              \cup Answers \cup Storings

(* Where a script may go on from a call of the store.                      *)
Returns == {"idle", "recover", "side", "discover"}

ScriptTyped ==
    /\ script.click = "resume" => script.id \in Sessions
    /\ script \in [pc : Places, click : Clicks, id : Sessions \cup {None},
                   call : Sessions \cup Fixtures \cup {None},
                   status : Statuses \cup {"running", None},
                   new : BOOLEAN, ok : Returns, failed : Returns]

Typed == TypeOK /\ ScriptTyped

(* The session the page holds, and the one an answer is stored for, are    *)
(* sessions the server has started; while a session is stored the page     *)
(* holds it, what is written of it is there, and its type counts as partly *)
(* stored until its table is whole.                                        *)
Agreed ==
    /\ ConfirmsWhatIsShown
    /\ sup # None => owner[sup.id] # None
    /\ script.pc \in Answers \cup Storings =>
          /\ script.call \in Sessions /\ owner[script.call] # None
          /\ script.status \in Statuses
    /\ script.pc \in Storings /\ sup # None => sup.id = script.call
    /\ script.pc \in {"report", "table", "edits"}
         \/ (script.pc \in {"url", "ready"} /\ script.new) =>
          owner[script.call] \in partial
    /\ script.pc \in {"table", "edits"} => report[owner[script.call]] = script.call
    /\ script.pc = "edits" => table[owner[script.call]] = script.call

(* The half that is stored already is of what the call is about.           *)
Matched ==
    /\ ResultsMatch
    /\ script.pc \in {"payload", "reading"} => script.status = "completed"
    /\ script.pc = "reading" => payload = script.call
    /\ script.pc \in Answers \cup Storings /\ script.status = "completed" =>
          runs[script.call] # "absent"
    /\ script.pc \in {"created", "stored"} =>
          script.call \in Sessions \cup Fixtures
    /\ script.pc = "created" => script.status \in Ended \cup {"running"}
    /\ script.pc = "stored" => run.id = script.call

IInv == Typed /\ Agreed /\ Matched

LEMMA Bounds ==
    /\ MaxSessions \in Nat /\ MaxVersions \in Nat
    /\ MaxClicks \in Nat /\ MaxFaults \in Nat
  BY WorkbenchAssumption

(* What TypeOK says of the script.                                         *)
LEMMA ScriptPart ==
    ASSUME ScriptTyped
    PROVE  /\ script.pc \in {"idle", "recover", "side", "discover", "discovered", "popped",
                             "act", "answered", "created", "stored", "url", "ready",
                             "report", "table", "edits", "payload", "reading"}
           /\ script.click \in Clicks
           /\ script.id \in Sessions \cup {None}
           /\ script.call \in Sessions \cup Fixtures \cup {None}
  BY DEF ScriptTyped, Places, Answers, Storings

LEMMA ScriptPrimed ==
    ASSUME ScriptTyped'
    PROVE  /\ script'.pc \in {"idle", "recover", "side", "discover", "discovered",
                              "popped", "act", "answered", "created", "stored", "url",
                              "ready", "report", "table", "edits", "payload",
                              "reading"}
           /\ script'.click \in Clicks
           /\ script'.id \in Sessions \cup {None}
           /\ script'.call \in Sessions \cup Fixtures \cup {None}
  BY DEF ScriptTyped, Places, Answers, Storings

LEMMA InitHolds == Init => IInv
<1> SUFFICES ASSUME Init PROVE IInv
  OBVIOUS
<1>1. ScriptTyped /\ script.pc = "recover"
  BY DEF Init, ScriptTyped, Afresh, Places, Returns, Clicks
<1>2. Typed
  <2>1. /\ type \in Retail \cup Other
        /\ mode \in [Retail -> {"discovery", "fixture"}]
        /\ unticked \in [Retail -> SUBSET (Sessions \X Rows)]
        /\ ready \in [Retail -> BOOLEAN]
        /\ report \in [Retail -> Sessions \cup {None}]
        /\ table \in [Retail -> Sessions \cup {None}]
    <3>1. unticked \in [Retail -> SUBSET (Sessions \X Rows)]
      BY DEF Init
    <3> QED
      BY <3>1, WorkbenchAssumption DEF Init
  <2>2. /\ owner \in [Sessions -> Retail \cup {None}]
        /\ runs \in [Sessions \cup Fixtures -> Ended \cup {"absent", "running"}]
    BY DEF Init
  <2>3. clicks \in 0..MaxClicks /\ faults \in 0..MaxFaults
    BY Bounds DEF Init
  <2>4. partial \in SUBSET Retail /\ torn \in BOOLEAN
    BY DEF Init
  <2> QED
    BY <1>1, <2>1, <2>2, <2>3, <2>4, ScriptPart DEF Init, Typed, TypeOK
<1>3. Agreed
  BY <1>1 DEF Init, Agreed, ConfirmsWhatIsShown, Answers, Storings
<1>4. Matched
  BY <1>1 DEF Init, Matched, ResultsMatch, Answers, Storings
<1> QED
  BY <1>2, <1>3, <1>4 DEF IInv

-----------------------------------------------------------------------------
(* Where the script stands.                                                *)

Stops == {"idle", "recover", "side", "discover", "act"}

LEMMA GoesOn ==
    ASSUME IInv, NEW pc \in Stops, script' = GoTo(pc)
    PROVE  ScriptTyped' /\ script'.pc \in Stops
<1>1. /\ script.click \in Clicks /\ script.id \in Sessions \cup {None}
      /\ script.click = "resume" => script.id \in Sessions
  BY DEF IInv, Typed, ScriptTyped
<1>2. PICK click \in Clicks, id \in Sessions \cup {None} :
          /\ click = "resume" => id \in Sessions
          /\ GoTo(pc) = [pc |-> pc, click |-> click, id |-> id, call |-> None,
                         status |-> None, new |-> FALSE, ok |-> "idle",
                         failed |-> "idle"]
  <2>1. CASE pc = "recover"
    BY <2>1 DEF GoTo, Afresh, Clicks
  <2>2. CASE pc = "idle"
    BY <2>2 DEF GoTo, Afresh, Clicks
  <2>3. CASE pc \notin {"recover", "idle"}
    <3>1. GoTo(pc) = [Afresh(script.click, script.id) EXCEPT !.pc = pc]
      BY <2>3 DEF GoTo
    <3> QED
      BY <1>1, <3>1 DEF Afresh
  <2> QED
    BY <2>1, <2>2, <2>3
<1> QED
  BY <1>2 DEF ScriptTyped, Places, Returns, Stops

LEMMA StartsAfresh ==
    ASSUME NEW click \in Clicks, NEW id \in Sessions \cup {None},
           click = "resume" => id \in Sessions,
           script' = Afresh(click, id)
    PROVE  ScriptTyped' /\ script'.pc \in Stops
  BY DEF ScriptTyped, Afresh, Places, Returns, Stops

LEMMA Answered ==
    ASSUME IInv, NEW pc \in {"discovered", "answered", "created", "stored"},
           NEW call \in Sessions \cup Fixtures,
           NEW status \in Statuses \cup {"running", None},
           script' = Answer(pc, call, status)
    PROVE  /\ ScriptTyped'
           /\ script'.pc = pc /\ script'.call = call /\ script'.status = status
<1>1. GoTo(pc) = [pc |-> pc, click |-> script.click, id |-> script.id, call |-> None,
                  status |-> None, new |-> FALSE, ok |-> "idle", failed |-> "idle"]
  BY DEF GoTo, Afresh
<1>2. script' = [pc |-> pc, click |-> script.click, id |-> script.id, call |-> call,
                 status |-> status, new |-> FALSE, ok |-> "idle", failed |-> "idle"]
  <2> DEFINE base == [pc |-> pc, click |-> script.click, id |-> script.id,
                      call |-> None, status |-> None, new |-> FALSE, ok |-> "idle",
                      failed |-> "idle"]
  <2>1. script' = [base EXCEPT !.call = call, !.status = status]
    BY <1>1 DEF Answer
  <2> QED
    BY <2>1
<1>3. /\ script.click \in Clicks /\ script.id \in Sessions \cup {None}
      /\ script.click = "resume" => script.id \in Sessions
  BY DEF IInv, Typed, ScriptTyped
<1> QED
  BY <1>2, <1>3 DEF ScriptTyped, Places, Answers, Returns

(* A step that stores nothing of a session or a run, and leaves the script *)
(* with no answer.                                                         *)
LEMMA QuietHolds ==
    ASSUME IInv, script'.pc \in Stops,
           UNCHANGED <<sup, report, table, unticked, owner, run, payload, history>>
    PROVE  Agreed' /\ Matched'
  BY DEF IInv, Agreed, ConfirmsWhatIsShown, Matched, ResultsMatch, Stops, Answers,
         Storings, history

-----------------------------------------------------------------------------
(* store_supervisor_state                                                  *)
LEMMA StoreHolds ==
    ASSUME IInv, NEW s \in Sessions, owner[s] # None, NEW status \in Statuses,
           NEW ok \in Returns, NEW failed \in Returns,
           Store(s, status, ok, failed),
           status = "completed" => runs[s] # "absent",
           pending' \in [type : Retail, version : 0..MaxVersions] \cup {None},
           faults' \in 0..MaxFaults
    PROVE  IInv'
<1>1. owner[s] \in Retail
  BY DEF IInv, Typed, TypeOK
<1>2. /\ sup' = [id |-> s, status |-> status]
      /\ UNCHANGED <<type, mode, unticked, chat, ready, report, table, run, payload,
                     url, owner, runs, clicks, torn>>
  BY DEF Store, widgets, shown, server
<1>3. /\ script' = [script EXCEPT !.pc = "url", !.call = s, !.status = status,
                                  !.new = Changed(s), !.ok = ok, !.failed = failed]
      /\ partial' = IF Changed(s) THEN partial \cup {owner[s]} ELSE partial
  BY DEF Store
<1>4. /\ ScriptTyped' /\ script'.pc = "url" /\ script'.call = s
      /\ script'.status = status /\ script'.new = Changed(s)
  <2>1. Changed(s) \in BOOLEAN
    BY DEF Changed
  <2> QED
    BY <1>3, <2>1 DEF IInv, Typed, ScriptTyped, Places, Storings
<1>5. TypeOK'
  <2>1. sup' \in [id : Sessions, status : Statuses] /\ partial' \in SUBSET Retail
    BY <1>1, <1>2, <1>3 DEF IInv, Typed, TypeOK
  <2> QED
    BY <1>2, <1>4, <2>1, ScriptPrimed DEF IInv, Typed, TypeOK, Statuses
<1>6. ConfirmsWhatIsShown'
  <2> SUFFICES ASSUME NEW t \in Retail \ partial'
               PROVE  /\ owner[s] = t => {report[t], table[t]} = {s}
                      /\ \A e \in unticked[t] : e[1] = table[t]
    BY <1>2 DEF ConfirmsWhatIsShown
  <2>1. t \notin partial /\ (owner[s] = t => sup # None /\ sup.id = s)
    BY <1>3 DEF Changed
  <2> QED
    BY <2>1 DEF IInv, Agreed, ConfirmsWhatIsShown
<1>7. Agreed'
  BY <1>1, <1>2, <1>3, <1>4, <1>6 DEF Agreed
<1>8. Matched'
  BY <1>2, <1>4 DEF IInv, Matched, ResultsMatch
<1> QED
  BY <1>4, <1>5, <1>7, <1>8 DEF IInv, Typed

(* The next write of the store, at the same session.                       *)
LEMMA NextWrite ==
    ASSUME IInv, script.pc \in Storings, NEW pc \in Storings,
           script' = [script EXCEPT !.pc = pc]
    PROVE  /\ ScriptTyped'
           /\ script'.pc = pc
           /\ script'.call = script.call /\ script'.status = script.status
           /\ script'.new = script.new
  BY DEF IInv, Typed, ScriptTyped, Places

LEMMA WholeGoesOn ==
    ASSUME IInv, script.pc \in Storings, Whole
    PROVE  /\ ScriptTyped'
           /\ \/ script'.pc \in Stops
              \/ /\ script'.pc = "payload" /\ script'.call = script.call
                 /\ script'.status = "completed" /\ script.status = "completed"
                 /\ script'.new = script.new
<1>1. CASE script.status = "completed"
  BY <1>1, NextWrite DEF Whole, Storings
<1>2. CASE script.status # "completed"
  <2>1. script.ok \in Stops
    BY DEF IInv, Typed, ScriptTyped, Returns, Stops
  <2> QED
    BY <1>2, <2>1, GoesOn DEF Whole
<1> QED
  BY <1>1, <1>2

(* What is known of the session being stored.                              *)
LEMMA StoredSession ==
    ASSUME IInv, script.pc \in Storings
    PROVE  /\ script.call \in Sessions /\ owner[script.call] \in Retail
           /\ sup # None => sup.id = script.call
           /\ script.status \in Statuses
  BY DEF IInv, Typed, TypeOK, Agreed

LEMMA WritesHold ==
    ASSUME IInv,
           StoreURL \/ StoreReady \/ StoreReport \/ StoreTable \/ StoreEdits
    PROVE  IInv'
<1> DEFINE s == script.call
           o == owner[script.call]
<1>0. script.pc \in Storings \ {"payload", "reading"}
  BY DEF StoreURL, StoreReady, StoreReport, StoreTable, StoreEdits, Storings
<1>1. /\ s \in Sessions /\ o \in Retail /\ (sup # None => sup.id = s)
      /\ script.status \in Statuses
      /\ StoreReport \/ StoreTable \/ StoreEdits => o \in partial
  BY <1>0, StoredSession DEF IInv, Agreed, StoreReport, StoreTable, StoreEdits
<1>2. /\ UNCHANGED <<type, mode, chat, pending, sup, run, payload, owner, runs,
                     clicks, faults, torn>>
  BY DEF StoreURL, StoreReady, StoreReport, StoreTable, StoreEdits, widgets, kept,
         shown, server, history
<1>3. /\ ScriptTyped'
      /\ \/ script'.pc \in Stops
         \/ /\ script'.pc \in Storings /\ script'.call = s
            /\ script'.status = script.status /\ script'.new = script.new
      /\ script'.pc # "reading"
      /\ script'.pc = "payload" => script.status = "completed"
      /\ script'.pc = "ready" => StoreURL
      /\ script'.pc # "url"
      /\ script'.pc = "report" => StoreReady /\ script.new
      /\ script'.pc \in {"table", "edits"} => (StoreReport \/ StoreTable)
      /\ script'.pc = "edits" => StoreTable
  <2>1. CASE StoreURL
    <3>1. /\ ScriptTyped' /\ script'.pc = "ready" /\ script'.call = s
          /\ script'.status = script.status /\ script'.new = script.new
      BY <1>0, <2>1, NextWrite DEF StoreURL, Storings
    <3> QED
      BY <2>1, <3>1 DEF Storings
  <2>2. CASE StoreReady
    <3>1. CASE script.new
      <4>1. /\ ScriptTyped' /\ script'.pc = "report" /\ script'.call = s
            /\ script'.status = script.status /\ script'.new = script.new
        BY <1>0, <2>2, <3>1, NextWrite DEF StoreReady, Storings
      <4> QED
        BY <2>2, <3>1, <4>1 DEF Storings
    <3>2. CASE ~script.new
      BY <1>0, <2>2, <3>2, WholeGoesOn DEF StoreReady, Storings, Stops
    <3> QED
      BY <3>1, <3>2
  <2>3. CASE StoreReport
    <3>1. /\ ScriptTyped' /\ script'.pc = "table" /\ script'.call = s
          /\ script'.status = script.status /\ script'.new = script.new
      BY <1>0, <2>3, NextWrite DEF StoreReport, Storings
    <3> QED
      BY <2>3, <3>1 DEF Storings
  <2>4. CASE StoreTable
    <3>1. /\ ScriptTyped' /\ script'.pc = "edits" /\ script'.call = s
          /\ script'.status = script.status /\ script'.new = script.new
      BY <1>0, <2>4, NextWrite DEF StoreTable, Storings
    <3> QED
      BY <2>4, <3>1 DEF Storings
  <2>5. CASE StoreEdits
    <3>1. /\ ScriptTyped'
          /\ \/ script'.pc \in Stops
             \/ /\ script'.pc = "payload" /\ script'.call = s
                /\ script'.status = "completed" /\ script.status = "completed"
                /\ script'.new = script.new
      BY <1>0, <2>5, WholeGoesOn DEF StoreEdits
    <3> QED
      BY <2>5, <3>1 DEF Storings, Stops
  <2> QED
    BY <2>1, <2>2, <2>3, <2>4, <2>5
<1>4. /\ url' \in Sessions \cup {None}
      /\ ready' \in [Retail -> BOOLEAN]
      /\ report' \in [Retail -> Sessions \cup {None}]
      /\ table' \in [Retail -> Sessions \cup {None}]
      /\ unticked' \in [Retail -> SUBSET (Sessions \X Rows)]
      /\ partial' \in SUBSET Retail
  <2>1. /\ url \in Sessions \cup {None}
        /\ ready \in [Retail -> BOOLEAN]
        /\ report \in [Retail -> Sessions \cup {None}]
        /\ table \in [Retail -> Sessions \cup {None}]
        /\ unticked \in [Retail -> SUBSET (Sessions \X Rows)]
        /\ partial \in SUBSET Retail
    BY DEF IInv, Typed, TypeOK
  <2> QED
    BY <1>1, <2>1
       DEF StoreURL, StoreReady, StoreReport, StoreTable, StoreEdits, widgets, kept,
           shown, history
<1>5. Typed'
  BY <1>2, <1>3, <1>4, ScriptPrimed DEF IInv, Typed, TypeOK
<1>6. ConfirmsWhatIsShown' /\ (StoreReport \/ StoreTable => report'[o] = s)
        /\ (StoreTable => table'[o] = s)
  <2>0. /\ report \in [Retail -> Sessions \cup {None}]
        /\ table \in [Retail -> Sessions \cup {None}]
        /\ unticked \in [Retail -> SUBSET (Sessions \X Rows)]
        /\ ConfirmsWhatIsShown
    BY DEF IInv, Typed, TypeOK, Agreed
  <2>1. CASE StoreURL \/ StoreReady
    <3>1. UNCHANGED <<unticked, report, table, partial>>
      BY <2>1 DEF StoreURL, StoreReady, widgets, kept, shown, history
    <3>2. ~(StoreReport \/ StoreTable)
      BY <2>1 DEF StoreURL, StoreReady, StoreReport, StoreTable
    <3> QED
      BY <1>2, <2>0, <3>1, <3>2 DEF ConfirmsWhatIsShown
  <2>2. CASE StoreReport
    <3>1. report' = [report EXCEPT ![o] = s] /\ UNCHANGED <<unticked, table, partial>>
      BY <2>2 DEF StoreReport, widgets, history
    <3>2. ~StoreTable
      BY <2>2 DEF StoreReport, StoreTable
    <3> QED
      BY <1>1, <1>2, <2>0, <2>2, <3>1, <3>2 DEF ConfirmsWhatIsShown
  <2>3. CASE StoreTable
    <3>1. table' = [table EXCEPT ![o] = s] /\ UNCHANGED <<unticked, report, partial>>
      BY <2>3 DEF StoreTable, widgets, history
    <3>2. report[o] = s
      BY <2>3 DEF IInv, Agreed, StoreTable
    <3>3. ASSUME NEW t \in Retail \ partial PROVE table'[t] = table[t]
      BY <1>1, <2>0, <2>3, <3>1, <3>3
    <3> QED
      BY <1>1, <1>2, <2>0, <3>1, <3>2, <3>3 DEF ConfirmsWhatIsShown
  <2>4. CASE StoreEdits
    <3>1. /\ unticked' = [unticked EXCEPT ![o] = {}] /\ partial' = partial \ {o}
          /\ UNCHANGED <<report, table>>
      BY <2>4 DEF StoreEdits, kept, shown
    <3>2. report[o] = s /\ table[o] = s /\ ~(StoreReport \/ StoreTable)
      BY <2>4 DEF IInv, Agreed, StoreEdits, StoreReport, StoreTable
    <3> SUFFICES ASSUME NEW t \in Retail \ partial'
                 PROVE  /\ owner[s] = t => {report[t], table[t]} = {s}
                        /\ \A e \in unticked'[t] : e[1] = table[t]
      BY <1>1, <1>2, <3>1, <3>2 DEF ConfirmsWhatIsShown
    <3> QED
      BY <1>1, <2>0, <3>1, <3>2 DEF ConfirmsWhatIsShown
  <2> QED
    BY <2>1, <2>2, <2>3, <2>4
<1>7. Agreed'
  <2>1. StoreURL \/ StoreReady \/ StoreReport \/ StoreTable => partial' = partial
    BY DEF StoreURL, StoreReady, StoreReport, StoreTable, history
  <2>2. StoreURL /\ script.new => o \in partial
    BY DEF IInv, Agreed, StoreURL
  <2>3. StoreReady /\ script.new => o \in partial
    BY DEF IInv, Agreed, StoreReady
  <2> HIDE DEF s, o
  <2>4. ConfirmsWhatIsShown' /\ (sup' # None => owner'[sup'.id] # None)
    BY <1>2, <1>6 DEF IInv, Agreed
  <2>5. CASE script'.pc \in Stops
    BY <2>4, <2>5 DEF Agreed, Stops, Answers, Storings
  <2>6. CASE /\ script'.pc \in Storings /\ script'.call = s
             /\ script'.status = script.status /\ script'.new = script.new
    <3>1. /\ s \in Sessions /\ owner[s] # None /\ script.status \in Statuses
          /\ sup # None => sup.id = s
      BY <1>0, <1>1 DEF IInv, Agreed, s
    <3>2. /\ script'.pc \in {"table", "edits"} => report'[owner'[script'.call]] = s
          /\ script'.pc = "edits" => table'[owner'[script'.call]] = s
      BY <1>2, <1>3, <1>6, <2>6 DEF s, o
    <3>3. \/ script'.pc \in {"report", "table", "edits"}
          \/ script'.pc \in {"url", "ready"} /\ script'.new
          => owner'[script'.call] \in partial'
      BY <1>1, <1>2, <1>3, <2>1, <2>2, <2>3, <2>6 DEF s, o
    <3> QED
      BY <1>2, <2>4, <2>6, <3>1, <3>2, <3>3 DEF Agreed
  <2> QED
    BY <1>3, <2>5, <2>6
<1>8. Matched'
  BY <1>0, <1>2, <1>3 DEF IInv, Matched, ResultsMatch, Stops, Answers, Storings
<1> QED
  BY <1>5, <1>7, <1>8 DEF IInv

LEMMA StoreOutcomeHolds == ASSUME IInv, StoreOutcome PROVE IInv'
<1>1. /\ script.pc = "payload" /\ script.pc \in Storings
      /\ script' = [script EXCEPT !.pc = "reading"]
      /\ payload' = script.call /\ torn' = TRUE
      /\ UNCHANGED <<widgets, chat, pending, shown, sup, run, url, server, clicks,
                     faults, partial>>
  BY DEF StoreOutcome, Storings
<1>2. /\ ScriptTyped' /\ script'.pc = "reading"
      /\ script'.call = script.call /\ script'.status = script.status
  BY <1>1, NextWrite DEF Storings
<1>3. script.call \in Sessions
  BY <1>1, StoredSession
<1>4. Typed'
  BY <1>1, <1>2, <1>3, ScriptPrimed DEF IInv, Typed, TypeOK, widgets, shown, server
<1>5. Agreed'
  BY <1>1, <1>2
     DEF IInv, Agreed, ConfirmsWhatIsShown, widgets, shown, server, Storings
<1>6. Matched'
  BY <1>1, <1>2 DEF IInv, Matched, ResultsMatch, server, Storings
<1> QED
  BY <1>4, <1>5, <1>6 DEF IInv

-----------------------------------------------------------------------------
(* The operator.                                                           *)

(* Clicks that change widgets, the conversation and what is pending only.  *)
LEMMA WidgetsHold ==
    ASSUME IInv, Operator,
           \/ \E t \in Retail \cup Other : Switch(t)
           \/ \E m \in {"discovery", "fixture"} : Source(m)
           \/ \E row \in Rows : Tick(row)
    PROVE  IInv'
<1>1. ScriptTyped' /\ script'.pc \in Stops
  BY StartsAfresh DEF Switch, Source, Tick, Clicks
<1>2. clicks' \in 0..MaxClicks /\ UNCHANGED <<kept, url, server, faults, history>>
  BY Bounds
     DEF Operator, IInv, Typed, TypeOK, Switch, Source, Tick, history, shown
<1>3. /\ type' \in Retail \cup Other
      /\ mode' \in [Retail -> {"discovery", "fixture"}]
      /\ unticked' \in [Retail -> SUBSET (Sessions \X Rows)]
      /\ \A t \in Retail \ partial : \A e \in unticked'[t] : e[1] = table[t]
  <2>0. /\ type \in Retail \cup Other
        /\ mode \in [Retail -> {"discovery", "fixture"}]
        /\ unticked \in [Retail -> SUBSET (Sessions \X Rows)]
        /\ table \in [Retail -> Sessions \cup {None}]
        /\ \A t \in Retail \ partial : \A e \in unticked[t] : e[1] = table[t]
    BY DEF IInv, Typed, TypeOK, Agreed, ConfirmsWhatIsShown, Answers, Storings,
           history, shown
  <2>1. CASE \E t \in Retail \cup Other : Switch(t)
    BY <2>0, <2>1 DEF Switch
  <2>2. CASE \E m \in {"discovery", "fixture"} : Source(m)
    BY <2>0, <2>2 DEF Source
  <2>3. CASE \E row \in Rows : Tick(row)
    <3>1. PICK row \in Rows : Tick(row)
      BY <2>3
    <3>2. /\ type \in Retail /\ table[type] \in Sessions
          /\ UNCHANGED <<type, mode>>
      BY <2>0, <3>1 DEF Tick, Discovery
    <3> DEFINE rest == {e \in unticked[type] : e[2] # row}
    <3>3. PICK S \in {rest, unticked[type] \cup {<<table[type], row>>}} :
              unticked' = [unticked EXCEPT ![type] = S]
      BY <3>1 DEF Tick
    <3>4. /\ S \in SUBSET (Sessions \X Rows)
          /\ type \notin partial => \A e \in S : e[1] = table[type]
      BY <2>0, <3>2, <3>3
    <3> HIDE DEF rest
    <3> QED
      BY <2>0, <3>2, <3>3, <3>4
  <2> QED
    BY <2>1, <2>2, <2>3
<1>4. Typed'
  BY <1>1, <1>2, <1>3, ScriptPrimed
     DEF IInv, Typed, TypeOK, kept, server, shown, history
<1>5. Agreed' /\ Matched'
  BY <1>1, <1>2, <1>3
     DEF IInv, Agreed, Matched, ResultsMatch, kept, server, Stops,
         ConfirmsWhatIsShown, Answers, Storings, shown, history
<1> QED
  BY <1>4, <1>5 DEF IInv

(* The conversation and the discovery it asks for.                         *)
LEMMA ScenarioHolds ==
    ASSUME IInv, Operator,
           \/ \E t \in Retail, status \in {"needs", "awaiting"} : Say(t, status)
           \/ ConfirmScenario
           \/ QueueScenario
           \/ Demo
    PROVE  IInv'
<1>0. /\ type \in Retail \cup Other
      /\ mode \in [Retail -> {"discovery", "fixture"}]
      /\ unticked \in [Retail -> SUBSET (Sessions \X Rows)]
      /\ ready \in [Retail -> BOOLEAN]
      /\ chat \in [version : 1..MaxVersions, type : Retail,
                   status : {"needs", "awaiting", "confirmed"}] \cup {None}
      /\ pending \in [type : Retail, version : 0..MaxVersions] \cup {None}
      /\ \A t \in Retail \ partial : \A e \in unticked[t] : e[1] = table[t]
  BY DEF IInv, Typed, TypeOK, Agreed, ConfirmsWhatIsShown, Answers, Storings,
         history
<1>1. ScriptTyped' /\ script'.pc \in Stops
  BY StartsAfresh DEF Say, ConfirmScenario, QueueScenario, Queue, Demo, Clicks
<1>2. /\ clicks' \in 0..MaxClicks
      /\ UNCHANGED <<type, report, table, sup, run, payload, url, owner, runs,
                     faults, history>>
  BY Bounds
     DEF Operator, IInv, Typed, TypeOK, Say, ConfirmScenario, QueueScenario,
         Queue, Demo, widgets, shown, server
<1>3. CASE \E t \in Retail, status \in {"needs", "awaiting"} : Say(t, status)
  <2>1. PICK t \in Retail, status \in {"needs", "awaiting"} : Say(t, status)
    BY <1>3
  <2>2. /\ chat' = [version |-> Version + 1, type |-> t, status |-> status]
        /\ UNCHANGED <<mode, unticked, ready, pending>>
    BY <2>1 DEF Say, widgets, shown
  <2>3. Version + 1 \in 1..MaxVersions
    BY <1>0, <2>1, Bounds DEF Say, Version
  <2>4. chat' \in [version : 1..MaxVersions, type : Retail,
                   status : {"needs", "awaiting", "confirmed"}]
    BY <2>2, <2>3
  <2> QED
    BY <1>0, <1>1, <1>2, <2>2, <2>4, ScriptPrimed, QuietHolds
       DEF IInv, Typed, TypeOK, history
<1>4. CASE ConfirmScenario \/ QueueScenario
  <2>1. chat # None /\ Queue
    BY <1>4 DEF ConfirmScenario, QueueScenario
  <2>2. chat' \in [version : 1..MaxVersions, type : Retail,
                   status : {"needs", "awaiting", "confirmed"}]
    BY <1>0, <1>4, <2>1 DEF ConfirmScenario, QueueScenario
  <2>3. pending' \in [type : Retail, version : 0..MaxVersions]
    BY <1>0, <2>1, Bounds DEF Queue
  <2>4. /\ mode' \in [Retail -> {"discovery", "fixture"}]
        /\ unticked' \in [Retail -> SUBSET (Sessions \X Rows)]
        /\ ready' \in [Retail -> BOOLEAN]
        /\ \A t \in Retail \ partial : \A e \in unticked'[t] : e[1] = table[t]
    <3>1. CASE chat.type = type
      <4>1. chat.type \in Retail
        BY <1>0, <2>1
      <4>2. /\ mode' = [mode EXCEPT ![type] = "discovery"]
            /\ ready' = [ready EXCEPT ![type] = TRUE]
            /\ unticked' \in {unticked, [unticked EXCEPT ![type] = {}]}
        BY <2>1, <3>1 DEF Queue, Apply
      <4> QED
        BY <1>0, <3>1, <4>1, <4>2
    <3>2. CASE chat.type # type
      <4>1. UNCHANGED <<mode, ready, unticked>>
        BY <2>1, <3>2 DEF Queue, Apply
      <4> QED
        BY <1>0, <4>1
    <3> QED
      BY <3>1, <3>2
  <2>5. Typed'
    BY <1>0, <1>1, <1>2, <2>2, <2>3, <2>4, ScriptPrimed
       DEF IInv, Typed, TypeOK, history
  <2>6. Agreed' /\ Matched'
    BY <1>1, <1>2, <2>4
       DEF IInv, Agreed, Matched, ResultsMatch, Stops, ConfirmsWhatIsShown,
           Answers, Storings, history
  <2> QED
    BY <2>5, <2>6 DEF IInv
<1>5. CASE Demo
  <2>1. /\ pending' \in [type : Retail, version : 0..MaxVersions]
        /\ ready' \in [Retail -> BOOLEAN]
        /\ UNCHANGED <<mode, unticked, chat>>
    BY <1>0, <1>5, Bounds DEF Demo, Discovery, widgets
  <2> QED
    BY <1>0, <1>1, <1>2, <2>1, ScriptPrimed, QuietHolds
       DEF IInv, Typed, TypeOK, history
<1> QED
  BY <1>3, <1>4, <1>5

LEMMA ClickHolds ==
    ASSUME IInv, Operator,
           NEW click \in Clicks, NEW id \in Sessions \cup {None}, Click(click, id)
    PROVE  IInv'
<1>1. ScriptTyped' /\ script'.pc \in Stops
  BY StartsAfresh DEF Click
<1>2. /\ clicks' \in 0..MaxClicks
      /\ UNCHANGED <<widgets, kept, url, server, faults, history>>
  BY Bounds DEF Operator, IInv, Typed, TypeOK, Click, history, shown
<1>3. Typed'
  BY <1>1, <1>2, ScriptPrimed
     DEF IInv, Typed, TypeOK, widgets, kept, server, shown, history
<1> QED
  BY <1>1, <1>2, <1>3, QuietHolds
     DEF IInv, widgets, kept, server, shown, history

LEMMA ReloadHolds == ASSUME IInv, Operator, Reload PROVE IInv'
<1>1. ScriptTyped' /\ script'.pc \in Stops
  BY StartsAfresh DEF Reload, Clicks
<1>2. /\ clicks' \in 0..MaxClicks
      /\ UNCHANGED <<url, owner, runs, faults>>
  BY Bounds DEF Operator, IInv, Typed, TypeOK, Reload, server, history
<1>3. unticked' \in [Retail -> SUBSET (Sessions \X Rows)]
  BY DEF Reload
<1>4. Typed'
  BY <1>1, <1>2, <1>3, ScriptPrimed, WorkbenchAssumption
     DEF Reload, IInv, Typed, TypeOK, history
<1>5. Agreed' /\ Matched'
  BY <1>1
     DEF Reload, Agreed, Matched, ResultsMatch, Stops, ConfirmsWhatIsShown,
         Answers, Storings, history
<1> QED
  BY <1>4, <1>5 DEF IInv

-----------------------------------------------------------------------------
(* The script.                                                             *)

LEMMA StatusTyped ==
    ASSUME IInv, NEW s \in Sessions
    PROVE  /\ StatusOf(s) \in Statuses
           /\ StatusOf(s) = "completed" => runs[s] # "absent"
  BY DEF IInv, Typed, TypeOK, StatusOf, Statuses, Ended, history

LEMMA FaultTyped ==
    ASSUME IInv, Fault \/ UNCHANGED faults
    PROVE  faults' \in 0..MaxFaults
  BY Bounds DEF IInv, Typed, TypeOK, Fault, history, shown

(* A session of the type shown, or of the page, is one that was started.   *)
LEMMA StartedIsOwned ==
    ASSUME IInv
    PROVE  /\ Discovery => type # None
           /\ sup # None => sup.id \in Sessions /\ owner[sup.id] # None
  BY WorkbenchAssumption
     DEF IInv, Typed, TypeOK, Agreed, Discovery, ConfirmsWhatIsShown, Answers,
         Storings, history

LEMMA StoresHold ==
    ASSUME IInv, Recover \/ Resume \/ StoreDiscovered \/ StoreAnswered
           \/ PollSession
    PROVE  IInv'
<1>0. pending \in [type : Retail, version : 0..MaxVersions] \cup {None}
      /\ faults \in 0..MaxFaults /\ url \in Sessions \cup {None}
      /\ script.id \in Sessions \cup {None}
  BY DEF IInv, Typed, TypeOK, history
<1>1. CASE Recover
  <2>1. url \in Sessions /\ owner[url] # None /\ UNCHANGED <<pending, faults>>
        /\ Store(url, StatusOf(url), "side", "side")
    BY <1>0, <1>1, StartedIsOwned DEF Recover, Recoverable
  <2> QED
    BY <1>0, <2>1, StatusTyped, StoreHolds DEF Returns
<1>2. CASE Resume
  <2>1. Discovery /\ owner[script.id] = type /\ UNCHANGED <<pending, faults>>
        /\ Store(script.id, StatusOf(script.id), "recover", "discover")
        /\ script.click = "resume"
    BY <1>2 DEF Resume, Resumable
  <2>2. script.id \in Sessions /\ owner[script.id] # None
    BY <2>1, StartedIsOwned DEF IInv, Typed, ScriptTyped, history
  <2> QED
    BY <1>0, <2>1, <2>2, StatusTyped, StoreHolds DEF Returns
<1>3. CASE StoreDiscovered \/ StoreAnswered
  <2>1. PICK next \in Returns :
            /\ script.pc \in Answers /\ UNCHANGED <<pending, faults>>
            /\ Store(script.call, script.status, "recover", next)
    BY <1>3 DEF StoreDiscovered, StoreAnswered, Answers, Returns
  <2>2. /\ script.call \in Sessions /\ owner[script.call] # None
        /\ script.status \in Statuses
        /\ script.status = "completed" => runs[script.call] # "absent"
    BY <2>1 DEF IInv, Agreed, Matched
  <2> QED
    BY <1>0, <2>1, <2>2, StoreHolds DEF Returns
<1>4. CASE PollSession
  <2>1. PICK next \in Returns :
            /\ sup # None /\ UNCHANGED <<pending, faults>>
            /\ Store(sup.id, StatusOf(sup.id), next, next)
    BY <1>4 DEF PollSession, Waiting, Current, Returns
  <2>2. sup.id \in Sessions /\ owner[sup.id] # None
    BY <2>1, StartedIsOwned
  <2> QED
    BY <1>0, <2>1, <2>2, StatusTyped, StoreHolds
<1> QED
  BY <1>1, <1>2, <1>3, <1>4

LEMMA PopHolds == ASSUME IInv, PopPending PROVE IInv'
<1>1. /\ script.pc = "discovered" /\ pending' = None
      /\ script' = [script EXCEPT !.pc = "popped"]
      /\ UNCHANGED <<widgets, chat, shown, sup, run, payload, url, server, clicks,
                     faults, history>>
  BY DEF PopPending
<1>2. /\ ScriptTyped' /\ script'.pc = "popped"
      /\ script'.call = script.call /\ script'.status = script.status
  BY <1>1 DEF IInv, Typed, ScriptTyped, Places, Answers
<1>3. Typed'
  BY <1>1, <1>2, ScriptPrimed
     DEF IInv, Typed, TypeOK, widgets, shown, server, history
<1>4. Agreed' /\ Matched'
  BY <1>1, <1>2
     DEF IInv, Agreed, ConfirmsWhatIsShown, Matched, ResultsMatch, widgets, shown,
         server, history, Answers, Storings
<1> QED
  BY <1>3, <1>4 DEF IInv

(* Steps that find nothing to do, or are refused.                          *)
LEMMA IdlingHolds ==
    ASSUME IInv, NoRecovery \/ NoResume \/ NoDiscovery \/ NoAction \/ StartRefused
    PROVE  IInv'
<1>1. ScriptTyped' /\ script'.pc \in Stops
  BY GoesOn DEF NoRecovery, NoResume, NoDiscovery, NoAction, StartRefused, Stops
<1>2. /\ UNCHANGED <<widgets, chat, shown, sup, run, payload, url, server,
                     clicks, history>>
      /\ pending' \in {pending, None}
  BY DEF NoRecovery, NoResume, NoDiscovery, NoAction, StartRefused, Silent,
         kept, shown, history
<1>3. faults' \in 0..MaxFaults
  BY FaultTyped DEF NoRecovery, NoResume, NoDiscovery, NoAction, StartRefused
<1>4. Typed'
  BY <1>1, <1>2, <1>3, ScriptPrimed
     DEF IInv, Typed, TypeOK, widgets, server, history, shown
<1> QED
  BY <1>1, <1>2, <1>4, QuietHolds DEF IInv, widgets, server, shown

LEMMA OpenedOwner ==
    ASSUME IInv, NEW s \in Sessions, Discovering, Opened(s)
    PROVE  /\ owner' \in [Sessions -> Retail \cup {None}]
           /\ owner'[s] # None /\ owner[s] = None
           /\ \A x \in Sessions : owner[x] # None => owner'[x] = owner[x]
           /\ UNCHANGED runs
<1>1. PICK t \in Retail : owner' = [owner EXCEPT ![s] = t]
  BY DEF IInv, Typed, TypeOK, Discovering, Discovery, Opened, history
<1> QED
  BY <1>1, WorkbenchAssumption DEF IInv, Typed, TypeOK, Opened, history

LEMMA StartHolds ==
    ASSUME IInv, NEW s \in Sessions, Start(s) \/ StartTimesOut(s)
    PROVE  IInv'
<1>1. /\ owner' \in [Sessions -> Retail \cup {None}]
      /\ owner'[s] # None
      /\ \A x \in Sessions : owner[x] # None => owner'[x] = owner[x]
      /\ UNCHANGED runs
  BY OpenedOwner DEF Start, StartTimesOut
<1>2. /\ UNCHANGED <<widgets, chat, shown, sup, run, payload, url, clicks, history>>
      /\ pending' \in {pending, None}
  BY DEF Start, StartTimesOut, kept, shown, history
<1>3. faults' \in 0..MaxFaults
  BY FaultTyped DEF Start, StartTimesOut
<1>4. /\ ScriptTyped'
      /\ \/ script'.pc \in Stops
         \/ /\ script'.pc = "discovered" /\ script'.call = s
            /\ script'.status = "awaiting_confirmation"
  <2>1. CASE Start(s)
    BY <2>1, Answered DEF Start, Statuses
  <2>2. CASE StartTimesOut(s)
    BY <2>2, GoesOn DEF StartTimesOut, Stops
  <2> QED
    BY <2>1, <2>2
<1>5. Typed'
  BY <1>1, <1>2, <1>3, <1>4, ScriptPrimed
     DEF IInv, Typed, TypeOK, widgets, history, shown
<1>6. Agreed'
  <2>1. sup # None => sup.id \in Sessions
    BY DEF IInv, Typed, TypeOK, history, shown
  <2> QED
    BY <1>1, <1>2, <1>4, <2>1
       DEF IInv, Agreed, widgets, Stops, Statuses, ConfirmsWhatIsShown, Answers,
           Storings, history, shown
<1>7. Matched'
  BY <1>2, <1>4
     DEF IInv, Matched, ResultsMatch, Stops, Answers, Storings, history
<1> QED
  BY <1>5, <1>6, <1>7 DEF IInv

LEMMA ConfirmHolds ==
    ASSUME IInv, NEW status \in Created, Confirm(status)
    PROVE  IInv'
<1>1. /\ sup # None /\ sup.id \in Sessions /\ owner[sup.id] # None
      /\ runs[sup.id] = "absent" /\ runs' = [runs EXCEPT ![sup.id] = status]
      /\ UNCHANGED <<widgets, kept, url, owner, clicks, history>>
  BY StartedIsOwned DEF Confirm, Allowed, Current
<1>2. /\ runs' \in [Sessions \cup Fixtures -> Ended \cup {"absent", "running"}]
      /\ runs'[sup.id] # "absent"
  BY <1>1 DEF IInv, Typed, TypeOK, Created, Ended, history, shown
<1>3. faults' \in 0..MaxFaults
  BY FaultTyped DEF Confirm
<1>4. /\ ScriptTyped'
      /\ \/ script'.pc \in Stops
         \/ /\ script'.pc = "answered" /\ script'.call = sup.id
            /\ script'.status \in Statuses
  <2> DEFINE told == IF status = "running" THEN "awaiting_analysis" ELSE status
  <2>1. told \in Statuses
    BY DEF Created, Statuses, Ended
  <2>2. script' = Answer("answered", sup.id, told) \/ script' = GoTo("idle")
    BY DEF Confirm
  <2> HIDE DEF told
  <2>3. CASE script' = Answer("answered", sup.id, told)
    BY <1>1, <2>1, <2>3, Answered
  <2>4. CASE script' = GoTo("idle")
    BY <2>4, GoesOn DEF Stops
  <2> QED
    BY <2>2, <2>3, <2>4
<1>5. Typed'
  BY <1>1, <1>2, <1>3, <1>4, ScriptPrimed
     DEF IInv, Typed, TypeOK, widgets, kept, shown, history
<1>6. Agreed'
  BY <1>1, <1>4
     DEF IInv, Agreed, widgets, kept, Stops, ConfirmsWhatIsShown, Answers,
         Storings, shown, history
<1>7. Matched'
  BY <1>1, <1>2, <1>4
     DEF IInv, Matched, ResultsMatch, kept, Stops, Answers, Storings, shown,
         history
<1> QED
  BY <1>5, <1>6, <1>7 DEF IInv

LEMMA CreateHolds ==
    ASSUME IInv, NEW f \in Fixtures, NEW status \in Created, CreateRun(f, status)
    PROVE  IInv'
<1>1. /\ runs' = [runs EXCEPT ![f] = status]
      /\ UNCHANGED <<widgets, kept, url, owner, clicks, history>>
  BY DEF CreateRun
<1>2. runs' \in [Sessions \cup Fixtures -> Ended \cup {"absent", "running"}]
  BY <1>1 DEF IInv, Typed, TypeOK, Created, Ended, history, shown
<1>3. faults' \in 0..MaxFaults
  BY FaultTyped DEF CreateRun
<1>4. /\ ScriptTyped'
      /\ \/ script'.pc \in Stops
         \/ /\ script'.pc = "created" /\ script'.call = f
            /\ script'.status = status
  <2>1. CASE script' = Answer("created", f, status)
    <3>1. status \in Statuses \cup {"running", None}
      BY DEF Created, Statuses, Ended
    <3> QED
      BY <2>1, <3>1, Answered
  <2>2. CASE script' = GoTo("idle")
    BY <2>2, GoesOn DEF Stops
  <2> QED
    BY <2>1, <2>2 DEF CreateRun
<1>5. Typed'
  BY <1>1, <1>2, <1>3, <1>4, ScriptPrimed
     DEF IInv, Typed, TypeOK, widgets, kept, shown, history
<1>6. Agreed'
  BY <1>1, <1>4
     DEF IInv, Agreed, widgets, kept, Stops, ConfirmsWhatIsShown, Answers,
         Storings, shown, history
<1>7. Matched'
  BY <1>1, <1>4
     DEF IInv, Matched, ResultsMatch, kept, Stops, Created, Ended, Answers,
         Storings, shown, history
<1> QED
  BY <1>5, <1>6, <1>7 DEF IInv

(* The run and its payload are stored one after the other.                 *)
LEMMA StoreRunHolds == ASSUME IInv, StoreRun PROVE IInv'
<1>1. /\ script.call \in Sessions \cup Fixtures
      /\ script.status \in Ended \cup {"running"}
  BY DEF IInv, Matched, StoreRun, Answers, Storings, history
<1>2. /\ run' = [id |-> script.call, status |-> script.status] /\ torn' = TRUE
      /\ UNCHANGED <<widgets, chat, pending, shown, sup, payload, url, server,
                     clicks, faults, partial>>
  BY DEF StoreRun
<1>3. /\ ScriptTyped' /\ script'.pc = "stored" /\ script'.call = script.call
  BY <1>1, Answered DEF StoreRun
<1>4. run' \in [id : Sessions \cup Fixtures, status : Ended \cup {"running"}]
  BY <1>1, <1>2
<1>5. Typed'
  BY <1>2, <1>3, <1>4, ScriptPrimed
     DEF IInv, Typed, TypeOK, widgets, server, history, shown
<1>6. Agreed'
  BY <1>2, <1>3
     DEF IInv, Agreed, widgets, server, ConfirmsWhatIsShown, Answers, Storings,
         history, shown
<1>7. Matched'
  BY <1>1, <1>2, <1>3
     DEF IInv, Matched, ResultsMatch, Answers, Storings, history
<1> QED
  BY <1>5, <1>6, <1>7 DEF IInv

LEMMA StorePayloadHolds == ASSUME IInv, StorePayload PROVE IInv'
<1>1. /\ script.call \in Sessions \cup Fixtures /\ run.id = script.call
      /\ payload' = script.call /\ torn' = FALSE
      /\ UNCHANGED <<widgets, chat, pending, shown, sup, run, url, server,
                     clicks, faults, partial>>
  BY DEF IInv, Matched, StorePayload
<1>2. ScriptTyped' /\ script'.pc \in Stops
  BY GoesOn DEF StorePayload, Stops
<1>3. Typed'
  <2>1. payload' \in Sessions \cup Fixtures \cup {None} /\ torn' \in BOOLEAN
    BY <1>1
  <2> QED
    BY <1>1, <1>2, <2>1, ScriptPrimed
       DEF IInv, Typed, TypeOK, widgets, server, history, shown
<1>4. Agreed'
  BY <1>1, <1>2
     DEF IInv, Agreed, widgets, server, Stops, ConfirmsWhatIsShown, Answers,
         Storings, history, shown
<1>5. Matched'
  BY <1>1, <1>2 DEF Matched, ResultsMatch, Stops, Answers, Storings, history
<1> QED
  BY <1>3, <1>4, <1>5 DEF IInv

(* The run whose payload is stored already exists, so its status is one a  *)
(* run can have.                                                           *)
LEMMA ReadRunHolds == ASSUME IInv, ReadRun PROVE IInv'
<1>1. /\ script.call \in Sessions /\ payload = script.call
      /\ runs[script.call] \in Ended \cup {"running"}
  <2>1. script.call \in Sessions /\ payload = script.call
        /\ runs[script.call] # "absent"
    BY DEF IInv, Agreed, Matched, ReadRun, Storings
  <2> QED
    BY <2>1 DEF IInv, Typed, TypeOK
<1>2. /\ run' = [id |-> script.call, status |-> runs[script.call]] /\ torn' = FALSE
      /\ UNCHANGED <<widgets, chat, pending, shown, sup, payload, url, server,
                     clicks, faults, partial>>
  BY DEF ReadRun
<1>3. ScriptTyped' /\ script'.pc \in Stops
  <2>1. script.ok \in Stops
    BY DEF IInv, Typed, ScriptTyped, Returns, Stops, history, shown
  <2> QED
    BY <2>1, GoesOn DEF ReadRun
<1>4. run' \in [id : Sessions \cup Fixtures, status : Ended \cup {"running"}]
  BY <1>1, <1>2
<1>5. Typed'
  BY <1>2, <1>3, <1>4, ScriptPrimed
     DEF IInv, Typed, TypeOK, widgets, server, history, shown
<1>6. Agreed'
  BY <1>2, <1>3
     DEF IInv, Agreed, widgets, server, Stops, ConfirmsWhatIsShown, Answers,
         Storings, history, shown
<1>7. Matched'
  BY <1>1, <1>2, <1>3
     DEF Matched, ResultsMatch, Stops, Answers, Storings, history
<1> QED
  BY <1>5, <1>6, <1>7 DEF IInv

LEMMA ReadRunFailsHolds == ASSUME IInv, ReadRunFails PROVE IInv'
<1>1. ScriptTyped' /\ script'.pc \in Stops
  <2>1. script.failed \in Stops
    BY DEF IInv, Typed, ScriptTyped, Returns, Stops, history, shown
  <2> QED
    BY <2>1, GoesOn DEF ReadRunFails
<1>2. UNCHANGED <<widgets, kept, url, server, clicks, history>>
      /\ faults' \in 0..MaxFaults
  BY FaultTyped DEF ReadRunFails
<1>3. Typed'
  BY <1>1, <1>2, ScriptPrimed
     DEF IInv, Typed, TypeOK, widgets, kept, server, shown, history
<1> QED
  BY <1>1, <1>2, <1>3, QuietHolds
     DEF IInv, kept, widgets, server, shown, history

-----------------------------------------------------------------------------
(* The fragments' buttons, their poll of a run, and the workers.           *)
LEMMA CancelAnalysisHolds == ASSUME IInv, CancelAnalysis PROVE IInv'
<1>1. /\ sup # None /\ sup.id \in Sessions /\ owner[sup.id] # None
      /\ runs' = [runs EXCEPT ![sup.id] = "cancelled"]
      /\ UNCHANGED <<widgets, kept, url, owner, clicks, history>>
  BY StartedIsOwned DEF CancelAnalysis, Waiting, Current
<1>2. /\ runs' \in [Sessions \cup Fixtures -> Ended \cup {"absent", "running"}]
      /\ runs'[sup.id] # "absent"
  BY <1>1 DEF IInv, Typed, TypeOK, Ended
<1>3. faults' \in 0..MaxFaults
  BY FaultTyped DEF CancelAnalysis
<1>4. /\ ScriptTyped'
      /\ \/ script'.pc \in Stops
         \/ /\ script'.pc = "answered" /\ script'.call = sup.id
            /\ script'.status \in Statuses
  <2>1. CASE script' = Answer("answered", sup.id, "cancelled")
    BY <1>1, <2>1, Answered DEF Statuses, Ended
  <2>2. CASE script' = GoTo("idle")
    BY <2>2, GoesOn DEF Stops
  <2> QED
    BY <2>1, <2>2 DEF CancelAnalysis
<1>5. Typed'
  BY <1>1, <1>2, <1>3, <1>4, ScriptPrimed
     DEF IInv, Typed, TypeOK, widgets, kept, shown, history
<1>6. Agreed'
  BY <1>1, <1>4
     DEF IInv, Agreed, ConfirmsWhatIsShown, widgets, kept, shown, history, Stops,
         Answers, Storings
<1>7. Matched'
  BY <1>1, <1>2, <1>4
     DEF IInv, Matched, ResultsMatch, kept, history, Stops, Answers, Storings
<1> QED
  BY <1>5, <1>6, <1>7 DEF IInv

LEMMA RunShownHolds == ASSUME IInv, PollRun \/ CancelRun PROVE IInv'
<1>1. /\ run # None
      /\ run \in [id : Sessions \cup Fixtures, status : Ended \cup {"running"}]
  BY DEF IInv, Typed, TypeOK, PollRun, CancelRun, Live, history, shown
<1>2. /\ run' \in [id : Sessions \cup Fixtures, status : Ended \cup {"running"}]
      /\ run'.id = run.id
      /\ runs' \in [Sessions \cup Fixtures -> Ended \cup {"absent", "running"}]
  BY <1>1
     DEF IInv, Typed, TypeOK, PollRun, CancelRun, Ended, server, history, shown
<1>3. /\ UNCHANGED <<widgets, chat, pending, shown, sup, payload, url, owner,
                     clicks, faults, history>>
  BY DEF PollRun, CancelRun, server
<1>4. ScriptTyped' /\ script'.pc \in Stops
  BY StartsAfresh DEF PollRun, CancelRun, Clicks
<1>5. Typed'
  BY <1>2, <1>3, <1>4, ScriptPrimed
     DEF IInv, Typed, TypeOK, widgets, history, shown
<1>6. Agreed'
  BY <1>3, <1>4
     DEF IInv, Agreed, widgets, Stops, ConfirmsWhatIsShown, Answers, Storings,
         history, shown
<1>7. Matched'
  BY <1>1, <1>2, <1>3, <1>4
     DEF IInv, Matched, ResultsMatch, Stops, Answers, Storings, history
<1> QED
  BY <1>5, <1>6, <1>7 DEF IInv

(* A run that exists does not cease to.                                    *)
LEMMA RunEndsHolds ==
    ASSUME IInv, NEW r \in Sessions \cup Fixtures, RunEnds(r)
    PROVE  IInv'
<1>1. PICK status \in {"completed", "failed"} : runs' = [runs EXCEPT ![r] = status]
  BY DEF RunEnds
<1>2. UNCHANGED <<widgets, kept, url, script, owner, clicks, faults, history>>
  BY DEF RunEnds
<1>3. /\ runs' \in [Sessions \cup Fixtures -> Ended \cup {"absent", "running"}]
      /\ \A x \in Sessions : runs[x] # "absent" => runs'[x] # "absent"
  BY <1>1 DEF IInv, Typed, TypeOK, Ended, history, shown
<1>4. Typed'
  BY <1>2, <1>3, ScriptPrimed
     DEF IInv, Typed, TypeOK, ScriptTyped, widgets, kept, shown, history
<1>5. Agreed'
  BY <1>2
     DEF IInv, Agreed, widgets, kept, ConfirmsWhatIsShown, Answers, Storings,
         shown, history
<1>6. Matched'
  BY <1>2, <1>3
     DEF IInv, Agreed, Matched, ResultsMatch, kept, ConfirmsWhatIsShown,
         Answers, Storings, shown, history
<1> QED
  BY <1>4, <1>5, <1>6 DEF IInv

-----------------------------------------------------------------------------
LEMMA StutterHolds == ASSUME IInv, UNCHANGED vars PROVE IInv'
<1>1. UNCHANGED <<widgets, kept, url, script, server, clicks, faults, history>>
  BY DEF vars
<1>2. Typed'
  BY <1>1
     DEF IInv, Typed, TypeOK, ScriptTyped, widgets, kept, server, shown, history
<1> QED
  BY <1>1, <1>2
     DEF IInv, Agreed, Matched, ResultsMatch, widgets, kept, server,
         ConfirmsWhatIsShown, Answers, Storings, shown, history

LEMMA OperatorHolds == ASSUME IInv, Operator PROVE IInv'
<1> USE DEF Operator, Clicking
<1>1. CASE \/ \E t \in Retail \cup Other : Switch(t)
           \/ \E m \in {"discovery", "fixture"} : Source(m)
           \/ \E row \in Rows : Tick(row)
  BY <1>1, WidgetsHold
<1>2. CASE \/ \E t \in Retail, status \in {"needs", "awaiting"} : Say(t, status)
           \/ ConfirmScenario \/ QueueScenario \/ Demo
  BY <1>2, ScenarioHolds
<1>3. CASE \E click \in Clicks, id \in Sessions \cup {None} : Click(click, id)
  BY <1>3, ClickHolds
<1>4. CASE Reload
  BY <1>4, ReloadHolds
<1> QED
  BY <1>1, <1>2, <1>3, <1>4

LEMMA ScriptHolds == ASSUME IInv, Script PROVE IInv'
<1>1. CASE Recover \/ Resume \/ StoreDiscovered \/ StoreAnswered
  BY <1>1, StoresHold
<1>2. CASE NoRecovery \/ NoResume \/ NoDiscovery \/ NoAction \/ StartRefused
  BY <1>2, IdlingHolds
<1>3. CASE \E s \in Sessions : Start(s) \/ StartTimesOut(s)
  BY <1>3, StartHolds
<1>4. CASE \E status \in Created : Confirm(status)
  BY <1>4, ConfirmHolds
<1>5. CASE \E f \in Fixtures, status \in Created : CreateRun(f, status)
  BY <1>5, CreateHolds
<1>6. CASE StoreRun \/ StorePayload
  BY <1>6, StoreRunHolds, StorePayloadHolds
<1>7. CASE Storing
  BY <1>7, WritesHold, StoreOutcomeHolds, ReadRunHolds, ReadRunFailsHolds DEF Storing
<1>8. CASE PopPending
  BY <1>8, PopHolds
<1> QED
  BY <1>1, <1>2, <1>3, <1>4, <1>5, <1>6, <1>7, <1>8 DEF Script

LEMMA StepHolds == IInv /\ [Next]_vars => IInv'
<1> SUFFICES ASSUME IInv, [Next]_vars PROVE IInv'
  OBVIOUS
<1>1. CASE Operator
  BY <1>1, OperatorHolds
<1>2. CASE Script
  BY <1>2, ScriptHolds
<1>3. CASE Fragments
  BY <1>3, StoresHold, RunShownHolds DEF Fragments
<1>4. CASE CancelAnalysis \/ CancelRun
  BY <1>4, CancelAnalysisHolds, RunShownHolds
<1>5. CASE \E r \in Sessions \cup Fixtures : RunEnds(r)
  BY <1>5, RunEndsHolds
<1>6. CASE UNCHANGED vars
  BY <1>6, StutterHolds
<1> QED
  BY <1>1, <1>2, <1>3, <1>4, <1>5, <1>6 DEF Next

LEMMA Invariance == Spec => []IInv
  BY InitHolds, StepHolds, PTL DEF Spec

-----------------------------------------------------------------------------
(* The variables keep their types (the state of workbench/app.py).         *)
THEOREM TypeCorrect == Spec => []TypeOK
<1>1. IInv => TypeOK
  BY DEF IInv, Typed, history
<1> QED
  BY <1>1, Invariance, PTL

(* What the operator confirms is what the page shows, for any number of    *)
(* project types, sessions and clicks, for every type whose last store no  *)
(* click cut short (workbench/app.py, store_supervisor_state and           *)
(* render_analysis_action).                                                *)
THEOREM ConfirmsCorrect == Spec => []ConfirmsWhatIsShown
<1>1. IInv => ConfirmsWhatIsShown
  BY DEF IInv, Agreed
<1> QED
  BY <1>1, Invariance, PTL

(* Results are shown with their request unless only one of the two was     *)
(* stored (workbench/app.py, store_run and store_supervisor_state).        *)
THEOREM ResultsCorrect == Spec => []ResultsMatch
<1>1. IInv => ResultsMatch
  BY DEF IInv, Matched, Answers, Storings, history
<1> QED
  BY <1>1, Invariance, PTL

=============================================================================
