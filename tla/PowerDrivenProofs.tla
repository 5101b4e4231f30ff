-------------------------- MODULE PowerDrivenProofs --------------------------
(* Proofs about PowerDriven: the type invariant, that the remembered status     *)
(* tells whether the session is open, and that a machine is not taken for idle  *)
(* after a rise of the power.                                                   *)
EXTENDS PowerDriven, TLAPS

-----------------------------------------------------------------------------
(* The inductive invariant *)

\* What is remembered of a known plug is a status, and so is what a running
\* update has found; only an update to IDLE has a closed session to report.
CacheInv ==
    /\ known => cached # NoStatus
    /\ update.pc # "idle" => update.previous # NoStatus
    /\ update.pc = "report" => update.status = "IDLE"

\* The timer runs only while no high reading has been processed.
TimerInv == timer => calm

RunsActive == update.pc # "idle" /\ update.status = "ACTIVE"

\* An update to ACTIVE waits or runs exactly while the handler waits for it, and
\* it is the last one: neither a reading nor the timer adds another.
WaitInv ==
    /\ handler.pc # "wait" =>
         /\ ~ RunsActive
         /\ \A i \in 1..Len(waiting) : waiting[i] = "IDLE"
    /\ handler.pc = "wait" =>
         /\ ~ timer
         /\ handler.reading \in High
         /\ RunsActive => waiting = <<>>
         /\ ~ RunsActive => /\ Len(waiting) > 0
                            /\ waiting[Len(waiting)] = "ACTIVE"
                            /\ \A i \in 1..(Len(waiting) - 1) : waiting[i] = "IDLE"

\* An update to IDLE that is older than a processed high reading has the update
\* of that reading behind it.
CalmInv ==
    ~ calm /\ (\E i \in 1..Len(waiting) : waiting[i] = "IDLE")
        => handler.pc = "wait"

\* The reading that is being handled is the latest, unless a mapping has made
\* the service forget it.
ReadInv ==
    handler.pc # "idle" => /\ handler.reading \in Reading
                           /\ latest \in {handler.reading, NoReading}

\* A mapped machine has no plug; an edit that has found the plug leaves it, and
\* one that maps the machine has done so before it changes the memory.
PlugInv ==
    /\ ~ (row.mac /\ row.thinq)
    /\ admin.pc = "finish" => admin.kind = "unmap"
    /\ admin.pc = "cache" /\ admin.kind = "map" => row.thinq
    /\ admin.pc # "idle" /\ admin.kind \in {"plain", "unmap"} /\ admin.mac
         => row.mac

\* The reading that is being handled was forgotten, and its update is not running.
Forgotten ==
    /\ handler.pc # "idle"
    /\ latest = NoReading
    /\ ~ RunsActive

\* Then the machine is still mapped, or it is idle and every memory of it says so.
ForgottenInv ==
    Forgotten =>
        /\ row.thinq \/ row.status = "IDLE"
        /\ known => cached = "IDLE"
        /\ admin.kind = "commission" /\ admin.pc \in {"update", "cache"}
             => admin.status = "IDLE"
        /\ admin.kind \in {"plain", "unmap"} /\ admin.pc = "cache" /\ admin.mac
             => admin.status = "IDLE"

IdleInv == TimerInv /\ WaitInv /\ CalmInv /\ ReadInv /\ PlugInv /\ ForgottenInv

-----------------------------------------------------------------------------
(* Types *)

\* The variables that a step of MatterConnectionService hands a reading to.
StreamOK ==
    /\ lastPower \in Reading
    /\ queue \in Seq(Reading)
    /\ Len(queue) <= QueueLimit
    /\ handler \in Handler
    /\ latest \in Reading \cup {NoReading}

\* A reading that is taken, queued or dropped leaves the stream well typed.
LEMMA EmitType == TypeOK /\ EmitPowerChanges => StreamOK'
<1> SUFFICES ASSUME TypeOK, EmitPowerChanges PROVE StreamOK'
  OBVIOUS
<1> USE BoundAssumption
<1>1. lastPower' \in Reading
  BY DEF TypeOK, EmitPowerChanges
<1>2. CASE handler.pc = "idle" /\ queue = <<>> /\ Take(power) /\ UNCHANGED queue
  BY <1>1, <1>2 DEF TypeOK, Take, StreamOK, Handler
<1>3. CASE /\ Len(queue) < QueueLimit
           /\ queue' = Append(queue, power)
           /\ UNCHANGED <<handler, latest>>
  <2>1. queue' \in Seq(Reading) /\ Len(queue') = Len(queue) + 1
    BY <1>3 DEF TypeOK
  <2>2. Len(queue') <= QueueLimit
    BY <1>3, <2>1 DEF TypeOK
  <2> QED
    BY <1>1, <1>3, <2>1, <2>2 DEF TypeOK, StreamOK
<1>4. CASE UNCHANGED <<queue, handler, latest>>
  BY <1>1, <1>4 DEF TypeOK, StreamOK
<1> QED
  BY <1>2, <1>3, <1>4 DEF EmitPowerChanges

LEMMA InitType == Init => TypeOK
<1> SUFFICES ASSUME Init PROVE TypeOK
  OBVIOUS
<1> USE BoundAssumption, ReadingAssumption
<1>1. row \in Row /\ handler \in Handler /\ update \in UpdateRun /\ admin \in Admin
  BY DEF Init, Row, Status, Handler, NoUpdate, UpdateRun, NoStatus, NoAdmin, Admin,
         AdminPC, AdminKind
<1>2. queue \in Seq(Reading) /\ Len(queue) <= QueueLimit /\ waiting \in Seq(Status)
  BY DEF Init
<1>3. cached \in Status \cup {NoStatus} /\ known \in BOOLEAN
  BY DEF Init, Status, Found
<1>4. latest \in Reading /\ lastPower \in Reading
  BY DEF Init
<1>5. timer \in BOOLEAN /\ calm \in BOOLEAN /\ open \in BOOLEAN /\ astray \in BOOLEAN
  BY DEF Init
<1>6. troubles \in 0..MaxTroubles
  BY DEF Init
<1> QED
  BY <1>1, <1>2, <1>3, <1>4, <1>5, <1>6 DEF Init, TypeOK

\* Readings, the connection and the timer.
LEMMA ReadingType ==
    TypeOK /\ ((\E r \in Reading : PlugChanges(r)) \/ NodesChanged \/ ConnectionLost
               \/ Reconnect \/ ReadingStep \/ TimerFires)
        => TypeOK'
<1> USE BoundAssumption
<1>1. ASSUME TypeOK, NEW r \in Reading, PlugChanges(r) PROVE TypeOK'
  BY <1>1 DEF TypeOK, PlugChanges, timerVars, memoryVars, updateVars, tableVars
<1>2. ASSUME TypeOK, NodesChanged PROVE TypeOK'
  <2>1. StreamOK'
    BY <1>2, EmitType DEF NodesChanged
  <2> QED
    BY <1>2, <2>1 DEF TypeOK, StreamOK, NodesChanged, timerVars, memoryVars,
                      updateVars, tableVars
<1>3. ASSUME TypeOK, ConnectionLost PROVE TypeOK'
  BY <1>3 DEF TypeOK, ConnectionLost, timerVars, memoryVars, updateVars, tableVars
<1>4. ASSUME TypeOK, Reconnect PROVE TypeOK'
  <2>1. StreamOK'
    <3>1. CASE EmitPowerChanges
      BY <1>4, <3>1, EmitType
    <3>2. CASE UNCHANGED <<lastPower, queue, handler, latest>>
      BY <1>4, <3>2 DEF TypeOK, StreamOK
    <3> QED
      BY <1>4, <3>1, <3>2 DEF Reconnect
  <2> QED
    BY <1>4, <2>1 DEF TypeOK, StreamOK, Reconnect, timerVars, memoryVars,
                      updateVars, tableVars
<1>5. ASSUME TypeOK, Pump PROVE TypeOK'
  <2>1. Head(queue) \in Reading /\ Tail(queue) \in Seq(Reading)
        /\ Len(Tail(queue)) <= QueueLimit
    BY <1>5 DEF TypeOK, Pump
  <2>2. handler' \in Handler /\ latest' \in Reading
    BY <1>5, <2>1 DEF Pump, Take, Handler
  <2> QED
    BY <1>5, <2>1, <2>2 DEF TypeOK, Pump, timerVars, memoryVars, updateVars, tableVars
<1>6. ASSUME TypeOK, RecordPower PROVE TypeOK'
  <2>1. handler' \in Handler
    BY <1>6 DEF TypeOK, RecordPower, ScheduleIdle, Rise, NoHandler, Handler
  <2>2. timer' \in BOOLEAN /\ calm' \in BOOLEAN
    BY <1>6, Zenon DEF TypeOK, RecordPower, ScheduleIdle, Rise, timerVars
  <2>3. waiting' = waiting \/ waiting' = Append(waiting, "ACTIVE")
    BY <1>6 DEF RecordPower, ScheduleIdle, Rise
  <2>4. waiting' \in Seq(Status)
    <3>1. waiting \in Seq(Status) /\ "ACTIVE" \in Status
      BY <1>6 DEF TypeOK, Status
    <3> QED
      BY <2>3, <3>1
  <2> QED
    BY <1>6, <2>1, <2>2, <2>4 DEF TypeOK, RecordPower, matterVars, memoryVars, tableVars
<1>7. ASSUME TypeOK, RecordFails PROVE TypeOK'
  BY <1>7 DEF TypeOK, RecordFails, Trouble, NoHandler, Handler, matterVars, timerVars,
              memoryVars, updateVars, tableVars
<1>8. ASSUME TypeOK, TimerFires PROVE TypeOK'
  <2>1. waiting' \in Seq(Status)
    BY <1>8 DEF TypeOK, TimerFires, Status
  <2> QED
    BY <1>8, <2>1 DEF TypeOK, TimerFires, matterVars, memoryVars, tableVars
<1> QED
  BY <1>1, <1>2, <1>3, <1>4, <1>5, <1>6, <1>7, <1>8 DEF ReadingStep

\* Status updates.
LEMMA UpdateType == TypeOK /\ (UpdateStep \/ UpdateFails) => TypeOK'
<1> USE BoundAssumption
<1>0. ASSUME TypeOK, NEW status \in Status, Done(status)
      PROVE  update' \in UpdateRun /\ handler' \in Handler
  BY <1>0 DEF TypeOK, Done, NoUpdate, UpdateRun, Status, NoStatus, NoHandler, Handler
<1>1. ASSUME TypeOK, UpdateBegin PROVE TypeOK'
  <2>1. Head(waiting) \in Status /\ waiting' \in Seq(Status)
    BY <1>1 DEF TypeOK, UpdateBegin
  <2>2. update' \in UpdateRun /\ handler' \in Handler
    <3>1. CASE Done(Head(waiting))
      BY <1>0, <1>1, <2>1, <3>1
    <3>2. CASE /\ update' = [pc |-> "status", status |-> Head(waiting),
                             previous |-> cached]
               /\ UNCHANGED handler
      BY <1>1, <2>1, <3>2 DEF TypeOK, UpdateRun
    <3> QED
      BY <1>1, <3>1, <3>2 DEF UpdateBegin
  <2> QED
    BY <1>1, <2>1, <2>2 DEF TypeOK, UpdateBegin, matterVars, timerVars, memoryVars,
                            tableVars
<1>2. ASSUME TypeOK, UpdateStatus PROVE TypeOK'
  <2>0. update.status \in Status
    BY <1>2 DEF TypeOK, UpdateRun
  <2>1. row' \in Row
    BY <1>2, <2>0 DEF TypeOK, UpdateStatus, Row
  <2>2. update' \in UpdateRun /\ handler' \in Handler /\ cached' \in Status \cup {NoStatus}
    <3>1. CASE known /\ update.previous # NoStatus
      BY <1>2, <3>1 DEF TypeOK, UpdateStatus, UpdateRun
    <3>2. CASE ~ (known /\ update.previous # NoStatus)
      BY <1>0, <1>2, <2>0, <3>2 DEF TypeOK, UpdateStatus
    <3> QED
      BY <3>1, <3>2
  <2> QED
    BY <1>2, <2>1, <2>2 DEF TypeOK, UpdateStatus, matterVars, timerVars
<1>3. ASSUME TypeOK, UpdateUsage PROVE TypeOK'
  <2>0. update.status \in Status
    BY <1>3 DEF TypeOK, UpdateRun
  <2>1. update' \in UpdateRun /\ handler' \in Handler
    <3>1. CASE Done(update.status)
      BY <1>0, <1>3, <2>0, <3>1
    <3>2. CASE update' = [update EXCEPT !.pc = "report"] /\ UNCHANGED handler
      BY <1>3, <3>2 DEF TypeOK, UpdateRun
    <3> QED
      BY <1>3, <3>1, <3>2 DEF UpdateUsage
  <2>2. cached' \in Status \cup {NoStatus}
    BY <1>3, <2>0 DEF TypeOK, UpdateUsage
  <2>3. open' \in BOOLEAN /\ astray' \in BOOLEAN
    BY <1>3, Zenon DEF TypeOK, UpdateUsage
  <2> QED
    BY <1>3, <2>1, <2>2, <2>3 DEF TypeOK, UpdateUsage, matterVars, timerVars
<1>4. ASSUME TypeOK, UpdateFails PROVE TypeOK'
  <2>1. update' \in UpdateRun /\ handler' \in Handler
    BY <1>0, <1>4 DEF TypeOK, UpdateRun, UpdateFails
  <2>2. astray' \in BOOLEAN
    <3>1. CASE update.pc = "report"
      BY <1>4, <3>1, Zenon DEF UpdateFails, Apart
    <3>2. CASE update.pc # "report"
      BY <1>4, <3>2 DEF TypeOK, UpdateFails
    <3> QED
      BY <3>1, <3>2
  <2> QED
    BY <1>4, <2>1, <2>2 DEF TypeOK, UpdateFails, Trouble, matterVars, timerVars,
                            memoryVars, tableVars
<1>5. ASSUME TypeOK, UpdateReport PROVE TypeOK'
  <2>0. update.status \in Status
    BY <1>5 DEF TypeOK, UpdateRun
  <2>1. update' \in UpdateRun /\ handler' \in Handler
    BY <1>0, <1>5, <2>0 DEF UpdateReport
  <2> QED
    BY <1>5, <2>0, <2>1 DEF TypeOK, UpdateReport, matterVars, timerVars, tableVars
<1> QED
  BY <1>1, <1>2, <1>3, <1>4, <1>5 DEF UpdateStep

\* Admin requests.
LEMMA AdminType ==
    TypeOK /\ ((\E kind \in AdminKind \ {"none"} : AdminBegin(kind)) \/ AdminStep
               \/ DeleteMachine)
        => TypeOK'
<1> USE BoundAssumption
<1>0. NoAdmin \in Admin
  BY DEF NoAdmin, Admin, AdminPC, AdminKind, Status
<1>1. ASSUME TypeOK, NEW kind \in AdminKind \ {"none"}, AdminBegin(kind) PROVE TypeOK'
  <2>1. admin' \in Admin
    BY <1>0, <1>1 DEF AdminBegin, NoAdmin, Admin, AdminPC
  <2> QED
    BY <1>1, <2>1 DEF TypeOK, AdminBegin, Trouble, matterVars, timerVars, memoryVars,
                      updateVars, tableVars
<1>2. ASSUME TypeOK, AdminPrevious PROVE TypeOK'
  <2>1. Found \in BOOLEAN /\ row.status \in Status
    BY <1>2 DEF TypeOK, Found, Row
  <2>2. admin' \in Admin
    BY <1>0, <1>2, <2>1 DEF TypeOK, AdminPrevious, Admin, AdminPC
  <2> QED
    BY <1>2, <2>2 DEF TypeOK, AdminPrevious, matterVars, timerVars, memoryVars,
                      updateVars, tableVars
<1>3. ASSUME TypeOK, AdminFinish PROVE TypeOK'
  <2>1. admin' \in Admin
    BY <1>3 DEF TypeOK, AdminFinish, Admin, AdminPC
  <2>2. open' \in BOOLEAN /\ astray' \in BOOLEAN
    BY <1>3, Zenon DEF TypeOK, AdminFinish, Apart
  <2> QED
    BY <1>3, <2>1, <2>2 DEF TypeOK, AdminFinish, matterVars, timerVars, memoryVars,
                            updateVars
<1>4. ASSUME TypeOK, AdminUpdate PROVE TypeOK'
  <2>1. Updated(admin.kind) \in Row
    BY <1>4 DEF TypeOK, Updated, Row, Status
  <2>2. row' \in Row
    BY <1>4, <2>1 DEF TypeOK, AdminUpdate
  <2>3. row'.status \in Status
    BY <2>2 DEF Row
  <2>4. admin' \in Admin
    BY <1>0, <1>4, <2>3 DEF TypeOK, AdminUpdate, Admin, AdminPC
  <2> QED
    BY <1>4, <2>2, <2>4 DEF TypeOK, AdminUpdate, matterVars, timerVars, memoryVars,
                            updateVars
<1>5. ASSUME TypeOK, AdminCache PROVE TypeOK'
  <2>0. admin.status \in Status
    BY <1>5 DEF TypeOK, Admin
  <2>1. /\ known' \in BOOLEAN
        /\ cached' \in Status \cup {NoStatus}
        /\ latest' \in Reading \cup {NoReading}
        /\ timer' \in BOOLEAN
    <3>1. CASE admin.kind = "map"
      BY <1>5, <3>1 DEF TypeOK, AdminCache, memoryVars
    <3>2. CASE admin.kind = "commission"
      BY <1>5, <2>0, <3>2 DEF TypeOK, AdminCache
    <3>3. CASE admin.kind \in {"plain", "unmap"}
      BY <1>5, <2>0, <3>3 DEF TypeOK, AdminCache
    <3> QED
      BY <1>5, <3>1, <3>2, <3>3 DEF AdminCache
  <2>2. astray' \in BOOLEAN
    BY <1>5, Zenon DEF AdminCache, Apart
  <2> QED
    BY <1>0, <1>5, <2>1, <2>2 DEF TypeOK, AdminCache, matterVars, updateVars, tableVars
<1>6. ASSUME TypeOK, DeleteMachine PROVE TypeOK'
  <2>1. row' \in Row
    BY <1>6 DEF TypeOK, DeleteMachine, Row
  <2> QED
    BY <1>6, <2>1 DEF TypeOK, DeleteMachine, Trouble, matterVars, timerVars, memoryVars,
                      updateVars
<1> QED
  BY <1>1, <1>2, <1>3, <1>4, <1>5, <1>6 DEF AdminStep

LEMMA RestartType == TypeOK /\ Restart => TypeOK'
<1> SUFFICES ASSUME TypeOK, Restart PROVE TypeOK'
  OBVIOUS
<1> USE BoundAssumption
<1>1. handler' \in Handler /\ latest' \in Reading
  BY DEF TypeOK, Restart, Boot, Take, Handler
<1>2. update' \in UpdateRun /\ admin' \in Admin
  BY DEF Restart, Boot, NoUpdate, UpdateRun, Status, NoStatus, NoAdmin, Admin, AdminPC,
         AdminKind
<1>3. queue' \in Seq(Reading) /\ Len(queue') <= QueueLimit /\ waiting' \in Seq(Status)
  BY DEF Restart, Boot
<1>4. known' \in BOOLEAN /\ cached' \in Status \cup {NoStatus}
  BY DEF TypeOK, Restart, Boot, Found, Row
<1>5. astray' \in BOOLEAN
  BY Zenon DEF Restart, Apart
<1>6. timer' \in BOOLEAN /\ calm' \in BOOLEAN /\ lastPower' \in Reading
      /\ link' \in {"up", "lost", "down"}
  BY DEF TypeOK, Restart, Boot
<1> QED
  BY <1>1, <1>2, <1>3, <1>4, <1>5, <1>6 DEF TypeOK, Restart, Trouble, tableVars

LEMMA NextType == TypeOK /\ [Next]_vars => TypeOK'
<1>1. ASSUME TypeOK, UNCHANGED vars PROVE TypeOK'
  BY <1>1 DEF TypeOK, vars, matterVars, timerVars, memoryVars, updateVars, tableVars
<1> QED
  BY <1>1, ReadingType, UpdateType, AdminType, RestartType DEF Next

\* Every variable keeps its type and the queue its limit, for every set of
\* readings, every limit and every number of faults, restarts and requests.
THEOREM TypeCorrect == Spec => []TypeOK
<1>1. Init => TypeOK
  BY InitType
<1>2. TypeOK /\ [Next]_vars => TypeOK'
  BY NextType
<1> QED
  BY <1>1, <1>2, PTL DEF Spec
-----------------------------------------------------------------------------
(* The remembered status and the session *)

CacheOK == CacheInv /\ CacheTellsSession

LEMMA InitCache == Init => CacheOK
BY DEF Init, CacheOK, CacheInv, CacheTellsSession, Remembered, NoUpdate, NoStatus

\* Steps that leave the memory, the tables and the running update alone.
LEMMA ReadingCache ==
    TypeOK /\ CacheOK
    /\ ((\E r \in Reading : PlugChanges(r)) \/ NodesChanged \/ ConnectionLost
        \/ Reconnect \/ ReadingStep \/ TimerFires)
        => CacheOK'
<1> SUFFICES ASSUME CacheOK, UNCHANGED <<known, cached, update, row, open, astray>>
             PROVE  CacheOK'
  BY DEF PlugChanges, NodesChanged, ConnectionLost, Reconnect, ReadingStep, Pump,
         RecordPower, RecordFails, TimerFires, memoryVars, updateVars, tableVars
<1> QED
  BY DEF CacheOK, CacheInv, CacheTellsSession, Remembered

\* A step that compares status and session itself.
LEMMA ApartCache ==
    ASSUME TypeOK', CacheInv', astray' = Apart
    PROVE  CacheOK'
BY DEF CacheOK, CacheTellsSession, Apart, TypeOK

\* An update changes what is remembered together with the session, or neither,
\* unless it fails when it has closed the session.
LEMMA UpdateCache == TypeOK /\ CacheOK /\ (UpdateStep \/ UpdateFails) => CacheOK'
<1> USE DEF CacheOK, CacheInv, Remembered
<1>1. ASSUME TypeOK, CacheOK, UpdateBegin PROVE CacheOK'
  BY <1>1 DEF UpdateBegin, Done, NoUpdate, CacheTellsSession, memoryVars, tableVars
<1>2. ASSUME TypeOK, CacheOK, UpdateStatus PROVE CacheOK'
  <2>1. row'.deleted = row.deleted
    BY <1>2 DEF TypeOK, UpdateStatus, Row
  <2>2. CASE known
    <3>1. update' = [update EXCEPT !.pc = "usage"] /\ UNCHANGED cached
      BY <1>2, <2>2 DEF UpdateStatus
    <3> QED
      BY <1>2, <2>1, <3>1 DEF TypeOK, UpdateRun, UpdateStatus, CacheTellsSession
  <2>3. CASE ~ known
    BY <1>2, <2>3 DEF UpdateStatus, Done, NoUpdate, CacheTellsSession
  <2> QED
    BY <2>2, <2>3
<1>3. ASSUME TypeOK, CacheOK, UpdateUsage PROVE CacheOK'
  <2>0. update.status \in {"IDLE", "ACTIVE"} /\ open \in BOOLEAN
    BY <1>3 DEF TypeOK, UpdateRun, Status
  <2>1. CASE update.status = "IDLE" /\ open /\ ~ row.deleted
    <3>1. /\ update' = [update EXCEPT !.pc = "report"]
          /\ open' = FALSE
          /\ UNCHANGED <<known, cached, row>>
      BY <1>3, <2>1 DEF UpdateUsage
    <3>2. update'.pc = "report" /\ update'.status = "IDLE"
          /\ update'.previous = update.previous
      BY <1>3, <2>1, <3>1 DEF TypeOK, UpdateRun
    <3> QED
      BY <1>3, <3>1, <3>2 DEF UpdateUsage, CacheTellsSession
  <2>2. CASE ~ (update.status = "IDLE" /\ open /\ ~ row.deleted)
    <3>1. update' = NoUpdate /\ UNCHANGED <<known, row>>
      BY <1>3, <2>2 DEF UpdateUsage, Done
    <3>2. CacheInv'
      BY <1>3, <2>0, <2>2, <3>1 DEF UpdateUsage, NoUpdate, NoStatus
    <3>3. CASE row.deleted
      BY <3>1, <3>2, <3>3 DEF CacheTellsSession
    <3>4. CASE ~ row.deleted
      <4>1. known => cached' = update.status
        BY <1>3, <2>2, <3>4 DEF UpdateUsage
      <4>2. open' = (update.status = "ACTIVE")
        <5>1. CASE update.status = "IDLE"
          BY <1>3, <2>0, <2>2, <3>4, <5>1 DEF UpdateUsage
        <5>2. CASE update.status = "ACTIVE"
          BY <1>3, <2>2, <3>4, <5>2 DEF UpdateUsage
        <5> QED
          BY <2>0, <5>1, <5>2
      <4> QED
        BY <3>1, <3>2, <4>1, <4>2 DEF CacheTellsSession, NoUpdate
    <3> QED
      BY <3>3, <3>4
  <2> QED
    BY <2>1, <2>2
<1>4. ASSUME TypeOK, CacheOK, UpdateFails PROVE CacheOK'
  <2>1. /\ update' = NoUpdate
        /\ UNCHANGED <<known, cached, row, open>>
    BY <1>4 DEF UpdateFails, Done, memoryVars, tableVars
  <2>2. CacheInv'
    BY <1>4, <2>1 DEF NoUpdate, NoStatus
  <2>3. CASE update.pc = "report"
    BY <1>4, <2>2, <2>3, UpdateType, ApartCache DEF UpdateFails
  <2>4. CASE update.pc # "report"
    BY <1>4, <2>1, <2>2, <2>4 DEF UpdateFails, CacheTellsSession, NoUpdate
  <2> QED
    BY <2>3, <2>4
<1>5. ASSUME TypeOK, CacheOK, UpdateReport PROVE CacheOK'
  BY <1>5 DEF UpdateReport, Done, NoUpdate, NoStatus, CacheTellsSession, tableVars
<1> QED
  BY <1>1, <1>2, <1>3, <1>4, <1>5 DEF UpdateStep

LEMMA AdminCacheOK ==
    TypeOK /\ CacheOK
    /\ ((\E kind \in AdminKind \ {"none"} : AdminBegin(kind)) \/ AdminStep
        \/ DeleteMachine \/ Restart)
        => CacheOK'
<1>1. ASSUME CacheOK, UNCHANGED <<known, cached, update, open, astray>>,
             row'.deleted = row.deleted \/ row'.deleted
      PROVE  CacheOK'
  BY <1>1 DEF CacheOK, CacheInv, CacheTellsSession, Remembered
<1>2. ASSUME TypeOK, CacheOK, NEW kind \in AdminKind, AdminBegin(kind) PROVE CacheOK'
  BY <1>1, <1>2 DEF AdminBegin, memoryVars, updateVars, tableVars
<1>3. ASSUME TypeOK, CacheOK, AdminPrevious PROVE CacheOK'
  BY <1>1, <1>3 DEF AdminPrevious, memoryVars, updateVars, tableVars
<1>4. ASSUME TypeOK, CacheOK, AdminFinish PROVE CacheOK'
  <2>1. CacheInv'
    BY <1>4 DEF CacheOK, CacheInv, AdminFinish, memoryVars, updateVars
  <2> QED
    BY <1>4, <2>1, AdminType, ApartCache DEF AdminFinish, AdminStep
<1>5. ASSUME TypeOK, CacheOK, AdminUpdate PROVE CacheOK'
  <2>1. row'.deleted = row.deleted
    BY <1>5 DEF TypeOK, AdminUpdate, Updated, Row
  <2> QED
    BY <1>1, <1>5, <2>1 DEF AdminUpdate, memoryVars, updateVars
<1>6. ASSUME TypeOK, CacheOK, AdminCache PROVE CacheOK'
  <2>1. admin.status # NoStatus
    BY <1>6 DEF TypeOK, Admin, Status, NoStatus
  <2>2. CacheInv'
    BY <1>6, <2>1 DEF CacheOK, CacheInv, AdminCache, memoryVars, updateVars
  <2>3. TypeOK'
    BY <1>6, AdminType DEF AdminStep
  <2> QED
    BY <1>6, <2>2, <2>3, ApartCache DEF AdminCache
<1>7. ASSUME TypeOK, CacheOK, DeleteMachine PROVE CacheOK'
  <2>1. row'.deleted
    BY <1>7 DEF TypeOK, DeleteMachine, Row
  <2> QED
    BY <1>1, <1>7, <2>1 DEF DeleteMachine, memoryVars, updateVars
<1>8. ASSUME TypeOK, CacheOK, Restart PROVE CacheOK'
  <2>1. row.status # NoStatus
    BY <1>8 DEF TypeOK, Row, Status, NoStatus
  <2>2. CacheInv'
    BY <1>8, <2>1 DEF CacheInv, Restart, Boot, NoUpdate
  <2> QED
    BY <1>8, <2>2, RestartType, ApartCache DEF Restart
<1> QED
  BY <1>2, <1>3, <1>4, <1>5, <1>6, <1>7, <1>8 DEF AdminStep

LEMMA NextCache == TypeOK /\ CacheOK /\ [Next]_vars => CacheOK'
<1>1. ASSUME CacheOK, UNCHANGED vars PROVE CacheOK'
  BY <1>1 DEF CacheOK, CacheInv, CacheTellsSession, Remembered, vars, memoryVars,
              updateVars, tableVars
<1> QED
  BY <1>1, ReadingCache, UpdateCache, AdminCacheOK DEF Next

\* The remembered status of a known plug tells whether the machine's session is
\* open, whatever statements fail and in whatever order updates and requests run,
\* except after a restart or an admin request that met a half-done update, and after
\* a finish that failed when it had closed the session.
THEOREM CacheTellsSessionHolds == Spec => []CacheTellsSession
<1>1. Init => TypeOK /\ CacheOK
  BY InitType, InitCache
<1>2. TypeOK /\ CacheOK /\ [Next]_vars => TypeOK' /\ CacheOK'
  BY NextType, NextCache
<1>3. CacheOK => CacheTellsSession
  BY DEF CacheOK
<1> QED
  BY <1>1, <1>2, <1>3, PTL DEF Spec
-----------------------------------------------------------------------------
(* No early IDLE *)

LEMMA InitIdle == Init => IdleInv
<1> SUFFICES ASSUME Init PROVE IdleInv
  OBVIOUS
<1>1. TimerInv /\ CalmInv
  BY DEF Init, TimerInv, CalmInv
<1>2. WaitInv
  BY DEF Init, WaitInv, RunsActive, NoUpdate
<1>3. ReadInv /\ ForgottenInv
  BY ReadingAssumption DEF Init, ReadInv, ForgottenInv, Forgotten
<1>4. PlugInv
  BY DEF Init, PlugInv, NoAdmin
<1> QED
  BY <1>1, <1>2, <1>3, <1>4 DEF IdleInv

\* What the invariant is about.
idleVars == <<handler, latest, timerVars, memoryVars, updateVars, row, admin>>

LEMMA SameIdle == IdleInv /\ UNCHANGED idleVars => IdleInv'
BY DEF idleVars, timerVars, memoryVars, updateVars, IdleInv, TimerInv, WaitInv, CalmInv,
       ReadInv, PlugInv, ForgottenInv, Forgotten, RunsActive

\* The handler takes a reading when it is idle.
LEMMA TakeIdle ==
    ASSUME IdleInv, NEW r \in Reading, handler.pc = "idle", Take(r),
           UNCHANGED <<timerVars, memoryVars, updateVars, row, admin>>
    PROVE  IdleInv'
<1> USE DEF IdleInv, Take, timerVars, memoryVars, updateVars
<1>1. TimerInv' /\ CalmInv'
  BY DEF TimerInv, CalmInv
<1>2. WaitInv'
  BY DEF WaitInv, RunsActive
<1>3. ReadInv' /\ ForgottenInv'
  BY ReadingAssumption DEF ReadInv, ForgottenInv, Forgotten
<1>4. PlugInv'
  BY DEF PlugInv
<1> QED
  BY <1>1, <1>2, <1>3, <1>4

\* The handler is done with its reading, and nothing else changes.
LEMMA ReleaseIdle ==
    ASSUME IdleInv, handler.pc # "wait", handler' = NoHandler,
           UNCHANGED <<latest, timerVars, memoryVars, updateVars, row, admin>>
    PROVE  IdleInv'
<1> USE DEF IdleInv, NoHandler, timerVars, memoryVars, updateVars
<1>1. TimerInv' /\ CalmInv'
  BY DEF TimerInv, CalmInv
<1>2. WaitInv'
  BY DEF WaitInv, RunsActive
<1>3. ReadInv' /\ ForgottenInv' /\ PlugInv'
  BY DEF ReadInv, ForgottenInv, Forgotten, PlugInv
<1> QED
  BY <1>1, <1>2, <1>3

LEMMA EmitIdle ==
    ASSUME TypeOK, IdleInv, EmitPowerChanges,
           UNCHANGED <<timerVars, memoryVars, updateVars, row, admin>>
    PROVE  IdleInv'
<1>1. CASE handler.pc = "idle" /\ Take(power)
  BY <1>1, TakeIdle DEF TypeOK
<1>2. CASE UNCHANGED <<handler, latest>>
  BY <1>2, SameIdle DEF idleVars
<1> QED
  BY <1>1, <1>2 DEF EmitPowerChanges

\* A recorded reading: the timer is set, or the handler waits for its update.
LEMMA RecordIdle == TypeOK /\ IdleInv /\ RecordPower => IdleInv'
<1> SUFFICES ASSUME TypeOK, IdleInv, RecordPower PROVE IdleInv'
  OBVIOUS
<1> USE DEF memoryVars, tableVars
<1>1. handler.pc = "record" /\ UNCHANGED <<latest, memoryVars, update, row, admin>>
  BY DEF RecordPower
<1>2. CASE ~ known
  BY <1>1, <1>2, ReleaseIdle DEF RecordPower, ScheduleIdle, Rise, updateVars
<1>3. CASE ScheduleIdle
  <2>1. calm'
    BY <1>3 DEF ScheduleIdle, IdleInv, TimerInv, TypeOK
  <2>2. TimerInv' /\ CalmInv'
    BY <2>1 DEF TimerInv, CalmInv
  <2>3. WaitInv'
    BY <1>1, <1>3 DEF IdleInv, WaitInv, RunsActive, ScheduleIdle, NoHandler
  <2>4. ReadInv' /\ ForgottenInv' /\ PlugInv'
    BY <1>1, <1>3 DEF IdleInv, ReadInv, ForgottenInv, Forgotten, PlugInv, ScheduleIdle,
                      NoHandler
  <2> QED
    BY <2>2, <2>3, <2>4 DEF IdleInv
<1>4. CASE handler.reading \in High /\ Rise
  <2>1. /\ handler'.pc = "wait" /\ handler'.reading = handler.reading
        /\ waiting' = Append(waiting, "ACTIVE") /\ ~ timer' /\ ~ calm'
    BY <1>4 DEF Rise, TypeOK, Handler
  <2>2. TimerInv' /\ CalmInv'
    BY <2>1 DEF TimerInv, CalmInv
  <2>3. WaitInv'
    <3>1. ~ RunsActive' /\ \A i \in 1..Len(waiting) : waiting[i] = "IDLE"
      BY <1>1 DEF IdleInv, WaitInv, RunsActive
    <3>2. /\ Len(waiting') = Len(waiting) + 1
          /\ waiting'[Len(waiting')] = "ACTIVE"
          /\ \A i \in 1..Len(waiting) : waiting'[i] = waiting[i]
      BY <2>1 DEF TypeOK
    <3>3. Len(waiting) \in Nat
      BY DEF TypeOK
    <3> QED
      BY <1>4, <2>1, <3>1, <3>2, <3>3 DEF WaitInv
  <2>4. ReadInv' /\ PlugInv'
    BY <1>1, <2>1 DEF IdleInv, ReadInv, PlugInv
  <2>5. ForgottenInv'
    BY <1>1 DEF IdleInv, ForgottenInv, Forgotten, RunsActive
  <2> QED
    BY <2>2, <2>3, <2>4, <2>5 DEF IdleInv
<1> QED
  BY <1>2, <1>3, <1>4 DEF RecordPower

\* The timer fires only while no update to ACTIVE is pending.
LEMMA TimerIdle == TypeOK /\ IdleInv /\ TimerFires => IdleInv'
<1> SUFFICES ASSUME TypeOK, IdleInv, TimerFires PROVE IdleInv'
  OBVIOUS
<1> USE DEF memoryVars, tableVars
<1>1. handler.pc # "wait" /\ calm
  BY DEF TimerFires, IdleInv, WaitInv, TimerInv
<1>2. TimerInv' /\ CalmInv'
  BY <1>1 DEF TimerFires, TimerInv, CalmInv
<1>3. WaitInv'
  <2>1. /\ Len(waiting') = Len(waiting) + 1
        /\ waiting'[Len(waiting')] = "IDLE"
        /\ \A i \in 1..Len(waiting) : waiting'[i] = waiting[i]
        /\ Len(waiting) \in Nat
    BY DEF TimerFires, TypeOK
  <2> QED
    BY <1>1, <2>1 DEF TimerFires, IdleInv, WaitInv, RunsActive
<1>4. ReadInv' /\ PlugInv' /\ ForgottenInv'
  BY DEF TimerFires, IdleInv, ReadInv, PlugInv, ForgottenInv, Forgotten, RunsActive
<1> QED
  BY <1>2, <1>3, <1>4 DEF IdleInv
\* The next update begins or is dropped.
LEMMA BeginIdle == TypeOK /\ IdleInv /\ UpdateBegin => IdleInv'
<1> SUFFICES ASSUME TypeOK, IdleInv, UpdateBegin PROVE IdleInv'
  OBVIOUS
<1> USE DEF timerVars, memoryVars, tableVars
<1> DEFINE status == Head(waiting)
<1>1. /\ UNCHANGED <<latest, timer, calm, known, cached, row, admin>>
      /\ update.pc = "idle" /\ waiting # <<>> /\ waiting' = Tail(waiting)
  BY DEF UpdateBegin
<1>2. /\ Len(waiting) \in Nat /\ Len(waiting) > 0 /\ status = waiting[1]
      /\ Len(waiting') = Len(waiting) - 1
      /\ \A i \in 1..Len(waiting') : waiting'[i] = waiting[i + 1]
      /\ status \in {"IDLE", "ACTIVE"}
  BY <1>1 DEF TypeOK, Status
<1>3. ~ RunsActive
  BY <1>1 DEF RunsActive
<1>4. TimerInv' /\ PlugInv'
  BY <1>1 DEF IdleInv, TimerInv, PlugInv
<1>5. CASE status = "ACTIVE"
  <2>1. handler.pc = "wait" /\ Len(waiting) = 1
    BY <1>2, <1>3, <1>5 DEF IdleInv, WaitInv
  <2>2. waiting' = <<>>
    BY <1>1, <1>2, <2>1 DEF TypeOK
  <2>3. \/ handler' = NoHandler /\ update' = NoUpdate
        \/ handler' = handler /\ update' = [pc |-> "status", status |-> "ACTIVE",
                                           previous |-> cached]
    BY <1>5 DEF UpdateBegin, Done
  <2>4. WaitInv' /\ CalmInv'
    BY <1>1, <2>1, <2>2, <2>3 DEF IdleInv, WaitInv, CalmInv, RunsActive, NoHandler, NoUpdate
  <2>5. ReadInv' /\ ForgottenInv'
    BY <1>1, <2>3 DEF IdleInv, ReadInv, ForgottenInv, Forgotten, RunsActive, NoHandler
  <2> QED
    BY <1>4, <2>4, <2>5 DEF IdleInv
<1>6. CASE status = "IDLE"
  <2>1. UNCHANGED handler /\ ~ RunsActive'
    BY <1>6 DEF UpdateBegin, Done, RunsActive, NoUpdate
  <2>2. WaitInv'
    <3>1. CASE handler.pc = "wait"
      <4>1. /\ waiting[Len(waiting)] = "ACTIVE"
            /\ \A i \in 1..(Len(waiting) - 1) : waiting[i] = "IDLE"
            /\ ~ timer /\ handler.reading \in High
        BY <1>3, <3>1 DEF IdleInv, WaitInv
      <4>2. Len(waiting) > 1
        BY <1>2, <1>6, <4>1
      <4>3. /\ Len(waiting') > 0
            /\ waiting'[Len(waiting')] = "ACTIVE"
            /\ \A i \in 1..(Len(waiting') - 1) : waiting'[i] = "IDLE"
        BY <1>2, <4>1, <4>2
      <4> QED
        BY <1>1, <2>1, <3>1, <4>1, <4>3 DEF WaitInv
    <3>2. CASE handler.pc # "wait"
      BY <1>2, <2>1, <3>2 DEF IdleInv, WaitInv
    <3> QED
      BY <3>1, <3>2
  <2>3. CalmInv'
    BY <1>1, <1>2, <2>1 DEF IdleInv, CalmInv
  <2>4. ReadInv' /\ ForgottenInv'
    BY <1>1, <1>3, <2>1 DEF IdleInv, ReadInv, ForgottenInv, Forgotten
  <2> QED
    BY <1>4, <2>2, <2>3, <2>4 DEF IdleInv
<1> QED
  BY <1>2, <1>5, <1>6

\* The running update ends: with it the wait of the handler for an ACTIVE one.
\* The status in the row and in the memory is the old one or that of the update.
LEMMA DoneIdle ==
    ASSUME TypeOK, IdleInv, update.pc # "idle", Done(update.status),
           UNCHANGED <<latest, timerVars, known, waiting, admin>>,
           UNCHANGED <<row.mac, row.thinq>>,
           row'.status \in {row.status, update.status},
           cached' \in {cached, update.status}
    PROVE  IdleInv'
<1> USE DEF timerVars
<1>1. TimerInv' /\ PlugInv'
  BY DEF IdleInv, TimerInv, PlugInv
<1>2. ~ RunsActive'
  BY DEF Done, NoUpdate, RunsActive
<1>3. CASE update.status = "ACTIVE"
  <2>1. handler' = NoHandler /\ waiting = <<>>
    BY <1>3 DEF Done, IdleInv, WaitInv, RunsActive
  <2>2. WaitInv' /\ CalmInv'
    BY <1>2, <2>1 DEF WaitInv, CalmInv, NoHandler
  <2>3. ReadInv' /\ ForgottenInv'
    BY <2>1 DEF ReadInv, ForgottenInv, Forgotten, NoHandler
  <2> QED
    BY <1>1, <2>2, <2>3 DEF IdleInv
<1>4. CASE update.status = "IDLE"
  <2>1. UNCHANGED handler /\ ~ RunsActive
    BY <1>4 DEF Done, RunsActive
  <2>2. WaitInv' /\ CalmInv'
    BY <1>2, <2>1 DEF IdleInv, WaitInv, CalmInv
  <2>3. ReadInv' /\ ForgottenInv'
    BY <1>4, <2>1 DEF IdleInv, ReadInv, ForgottenInv, Forgotten
  <2> QED
    BY <1>1, <2>2, <2>3 DEF IdleInv
<1> QED
  BY <1>3, <1>4 DEF TypeOK, UpdateRun, Status

LEMMA StatusIdle == TypeOK /\ IdleInv /\ UpdateStatus => IdleInv'
<1> SUFFICES ASSUME TypeOK, IdleInv, UpdateStatus PROVE IdleInv'
  OBVIOUS
<1> USE DEF timerVars
<1>1. /\ UNCHANGED <<row.mac, row.thinq>>
      /\ row'.status \in {row.status, update.status}
  BY DEF TypeOK, UpdateStatus, Row
<1>2. /\ UNCHANGED <<latest, timer, calm, known, waiting, admin>>
      /\ update.pc = "status"
  BY DEF UpdateStatus
<1>3. CASE known /\ update.previous # NoStatus
  <2>1. UNCHANGED <<handler, cached, update.status>> /\ update'.pc = "usage"
    BY <1>3 DEF UpdateStatus, TypeOK, UpdateRun
  <2>2. RunsActive' = RunsActive
    BY <1>2, <2>1 DEF RunsActive
  <2>3. TimerInv' /\ PlugInv' /\ WaitInv' /\ CalmInv' /\ ReadInv'
    BY <1>1, <1>2, <2>1, <2>2 DEF IdleInv, TimerInv, PlugInv, WaitInv, CalmInv, ReadInv
  <2>4. ForgottenInv'
    BY <1>1, <1>2, <2>1, <2>2 DEF IdleInv, ForgottenInv, Forgotten, RunsActive, TypeOK,
                                  UpdateRun, Status
  <2> QED
    BY <2>3, <2>4 DEF IdleInv
<1>4. CASE ~ (known /\ update.previous # NoStatus)
  <2>1. Done(update.status) /\ cached' \in {cached, update.status}
    BY <1>4 DEF UpdateStatus
  <2> QED
    BY <1>1, <1>2, <2>1, DoneIdle
<1> QED
  BY <1>3, <1>4

LEMMA UpdateIdle == TypeOK /\ IdleInv /\ (UpdateStep \/ UpdateFails) => IdleInv'
<1> USE DEF memoryVars, tableVars
<1>1. ASSUME TypeOK, IdleInv, UpdateUsage PROVE IdleInv'
  <2>1. UNCHANGED <<latest, timerVars, known, waiting, row, admin>> /\ update.pc = "usage"
    BY <1>1 DEF UpdateUsage
  <2>2. CASE update' = [update EXCEPT !.pc = "report"] /\ UNCHANGED <<handler, cached>>
    <3>1. update'.status = update.status /\ update'.pc = "report"
      BY <1>1, <2>2 DEF TypeOK, UpdateRun
    <3>2. RunsActive' = RunsActive
      BY <2>1, <3>1 DEF RunsActive
    <3>3. TimerInv' /\ PlugInv' /\ WaitInv' /\ CalmInv' /\ ReadInv' /\ ForgottenInv'
      BY <1>1, <2>1, <2>2, <3>2 DEF IdleInv, TimerInv, PlugInv, WaitInv, CalmInv, ReadInv,
                                    ForgottenInv, Forgotten, timerVars
    <3> QED
      BY <3>3 DEF IdleInv
  <2>3. CASE Done(update.status) /\ cached' \in {cached, update.status}
    BY <1>1, <2>1, <2>3, DoneIdle
  <2> QED
    BY <1>1, <2>2, <2>3 DEF UpdateUsage
<1>2. ASSUME TypeOK, IdleInv, UpdateFails PROVE IdleInv'
  BY <1>2, DoneIdle DEF UpdateFails
<1>3. ASSUME TypeOK, IdleInv, UpdateReport PROVE IdleInv'
  <2>1. cached' \in {cached, update.status} /\ update.pc # "idle" /\ UNCHANGED row
    BY <1>3 DEF UpdateReport
  <2> QED
    BY <1>3, <2>1, DoneIdle DEF UpdateReport
<1> QED
  BY <1>1, <1>2, <1>3, BeginIdle, StatusIdle DEF UpdateStep

-----------------------------------------------------------------------------

\* An admin request does not touch the stream of updates; what is left to show
\* is what it does to the row and the memory.
LEMMA AdminOnly ==
    ASSUME IdleInv, UNCHANGED <<handler, latest, timerVars, updateVars>>,
           PlugInv', ForgottenInv'
    PROVE  IdleInv'
BY DEF IdleInv, TimerInv, WaitInv, CalmInv, ReadInv, RunsActive, timerVars, updateVars

LEMMA AdminIdle ==
    TypeOK /\ IdleInv
    /\ ((\E kind \in AdminKind \ {"none"} : AdminBegin(kind)) \/ AdminStep
        \/ DeleteMachine)
        => IdleInv'
<1> USE DEF memoryVars, updateVars, tableVars
<1>1. ASSUME TypeOK, IdleInv, NEW kind \in AdminKind, AdminBegin(kind) PROVE IdleInv'
  <2>1. PlugInv' /\ ForgottenInv'
    BY <1>1 DEF IdleInv, PlugInv, ForgottenInv, Forgotten, RunsActive, AdminBegin, NoAdmin
  <2> QED
    BY <1>1, <2>1, AdminOnly DEF AdminBegin
<1>2. ASSUME TypeOK, IdleInv, AdminPrevious PROVE IdleInv'
  <2>1. PlugInv' /\ ForgottenInv'
    BY <1>2 DEF IdleInv, PlugInv, ForgottenInv, Forgotten, RunsActive, AdminPrevious,
                NoAdmin, Found, TypeOK, Admin
  <2> QED
    BY <1>2, <2>1, AdminOnly DEF AdminPrevious
<1>3. ASSUME TypeOK, IdleInv, AdminFinish PROVE IdleInv'
  <2>1. PlugInv' /\ ForgottenInv'
    BY <1>3 DEF IdleInv, PlugInv, ForgottenInv, Forgotten, RunsActive, AdminFinish,
                TypeOK, Admin
  <2> QED
    BY <1>3, <2>1, AdminOnly DEF AdminFinish
<1>4. ASSUME TypeOK, IdleInv, AdminUpdate PROVE IdleInv'
  <2>1. CASE UNCHANGED row /\ admin' = NoAdmin
    <3>1. PlugInv' /\ ForgottenInv'
      BY <1>4, <2>1 DEF IdleInv, PlugInv, ForgottenInv, Forgotten, RunsActive,
                        AdminUpdate, NoAdmin
    <3> QED
      BY <1>4, <3>1, AdminOnly DEF AdminUpdate
  <2>2. CASE /\ ~ row.deleted
             /\ admin.kind # "commission" \/ ~ row.thinq
             /\ row' = Updated(admin.kind)
             /\ admin' = [admin EXCEPT !.pc = "cache",
                                       !.status = IF admin.kind = "commission"
                                                  THEN @ ELSE row'.status]
    <3>1. PlugInv'
      BY <1>4, <2>2 DEF IdleInv, PlugInv, AdminUpdate, Updated, TypeOK, Admin, Row
    <3>2. ForgottenInv'
      BY <1>4, <2>2 DEF IdleInv, PlugInv, ForgottenInv, Forgotten, RunsActive,
                        AdminUpdate, Updated, TypeOK, Admin, Row
    <3> QED
      BY <1>4, <3>1, <3>2, AdminOnly DEF AdminUpdate
  <2> QED
    BY <1>4, <2>1, <2>2 DEF AdminUpdate
<1>5. ASSUME TypeOK, IdleInv, AdminCache PROVE IdleInv'
  <2>1. PlugInv'
    BY <1>5 DEF IdleInv, PlugInv, AdminCache, NoAdmin
  <2>2. CASE admin.kind = "map" /\ admin.mac
    <3>1. latest' = NoReading /\ ~ timer' /\ ~ known' /\ UNCHANGED <<handler, calm>>
      BY <1>5, <2>2 DEF AdminCache
    <3>2. TimerInv' /\ WaitInv' /\ CalmInv'
      BY <1>5, <3>1 DEF IdleInv, TimerInv, WaitInv, CalmInv, RunsActive, AdminCache
    <3>3. ReadInv'
      BY <3>1, <1>5 DEF IdleInv, ReadInv
    <3>4. ForgottenInv'
      BY <1>5, <2>2, <3>1 DEF IdleInv, PlugInv, ForgottenInv, Forgotten, AdminCache,
                              NoAdmin
    <3> QED
      BY <2>1, <3>2, <3>3, <3>4 DEF IdleInv
  <2>3. CASE ~ (admin.kind = "map" /\ admin.mac)
    <3>1. UNCHANGED <<handler, latest, timerVars>>
      BY <1>5, <2>3 DEF AdminCache, timerVars
    <3>2. ForgottenInv'
      BY <1>5, <2>3, <3>1 DEF IdleInv, ForgottenInv, Forgotten, RunsActive, AdminCache,
                              NoAdmin
    <3> QED
      BY <1>5, <2>1, <3>1, <3>2, AdminOnly DEF AdminCache
  <2> QED
    BY <2>2, <2>3
<1>6. ASSUME TypeOK, IdleInv, DeleteMachine PROVE IdleInv'
  <2>1. UNCHANGED <<row.mac, row.thinq, row.status>>
    BY <1>6 DEF TypeOK, DeleteMachine, Row
  <2>2. PlugInv' /\ ForgottenInv'
    BY <1>6, <2>1 DEF IdleInv, PlugInv, ForgottenInv, Forgotten, RunsActive,
                      DeleteMachine
  <2> QED
    BY <1>6, <2>2, AdminOnly DEF DeleteMachine
<1> QED
  BY <1>1, <1>2, <1>3, <1>4, <1>5, <1>6 DEF AdminStep

LEMMA RestartIdle == TypeOK /\ IdleInv /\ Restart => IdleInv'
<1> SUFFICES ASSUME TypeOK, IdleInv, Restart PROVE IdleInv'
  OBVIOUS
<1> USE DEF Restart, Boot, tableVars
<1>1. TimerInv' /\ CalmInv'
  BY DEF TimerInv, CalmInv
<1>2. WaitInv'
  BY DEF WaitInv, RunsActive, NoUpdate, Take
<1>3. ReadInv' /\ ForgottenInv'
  BY ReadingAssumption DEF TypeOK, ReadInv, ForgottenInv, Forgotten, Take
<1>4. PlugInv'
  BY DEF IdleInv, PlugInv, NoAdmin
<1> QED
  BY <1>1, <1>2, <1>3, <1>4 DEF IdleInv

LEMMA NextIdle == TypeOK /\ IdleInv /\ [Next]_vars => IdleInv'
<1> USE DEF tableVars
<1>1. ASSUME TypeOK, IdleInv, NEW r \in Reading, PlugChanges(r) PROVE IdleInv'
  BY <1>1, SameIdle DEF PlugChanges, idleVars
<1>2. ASSUME TypeOK, IdleInv, NodesChanged PROVE IdleInv'
  BY <1>2, EmitIdle DEF NodesChanged
<1>3. ASSUME TypeOK, IdleInv, ConnectionLost PROVE IdleInv'
  BY <1>3, SameIdle DEF ConnectionLost, idleVars
<1>4. ASSUME TypeOK, IdleInv, Reconnect PROVE IdleInv'
  <2>1. CASE EmitPowerChanges
    BY <1>4, <2>1, EmitIdle DEF Reconnect
  <2>2. CASE UNCHANGED <<handler, latest>>
    BY <1>4, <2>2, SameIdle DEF Reconnect, idleVars
  <2> QED
    BY <1>4, <2>1, <2>2 DEF Reconnect
<1>5. ASSUME TypeOK, IdleInv, Pump PROVE IdleInv'
  <2>1. Head(queue) \in Reading
    BY <1>5 DEF Pump, TypeOK
  <2> QED
    BY <1>5, <2>1, TakeIdle DEF Pump
<1>6. ASSUME TypeOK, IdleInv, RecordFails PROVE IdleInv'
  BY <1>6, ReleaseIdle DEF RecordFails
<1>7. ASSUME IdleInv, UNCHANGED vars PROVE IdleInv'
  BY <1>7, SameIdle DEF vars, idleVars
<1> QED
  BY <1>1, <1>2, <1>3, <1>4, <1>5, <1>6, <1>7, RecordIdle, TimerIdle, UpdateIdle,
     AdminIdle, RestartIdle DEF Next, ReadingStep

\* An update to IDLE that begins has no rise behind it that was processed after
\* its low reading: either the latest reading is that high one, or the service has
\* forgotten the plug, or it was commissioned anew and its status is IDLE.
LEMMA IdleIsCalm == TypeOK /\ IdleInv /\ Next /\ IdleBegins => calm
<1> SUFFICES ASSUME TypeOK, IdleInv, Next, IdleBegins, ~ calm PROVE FALSE
  BY DEF TypeOK
<1>1. UpdateBegin
  <2>1. update' # update /\ update'.pc # "idle" /\ update.pc = "idle"
    BY DEF IdleBegins
  <2>2. ~ ((\E r \in Reading : PlugChanges(r)) \/ NodesChanged \/ ConnectionLost
           \/ Reconnect \/ ReadingStep \/ TimerFires)
    BY <2>1 DEF PlugChanges, NodesChanged, ConnectionLost, Reconnect, ReadingStep, Pump,
                RecordPower, RecordFails, TimerFires, updateVars
  <2>3. ~ (UpdateStatus \/ UpdateUsage \/ UpdateReport \/ UpdateFails)
    BY <2>1 DEF UpdateStatus, UpdateUsage, UpdateReport, UpdateFails
  <2>4. ~ ((\E kind \in AdminKind \ {"none"} : AdminBegin(kind)) \/ AdminStep
           \/ DeleteMachine)
    BY <2>1 DEF AdminBegin, AdminStep, AdminPrevious, AdminFinish, AdminUpdate,
                AdminCache, DeleteMachine, updateVars
  <2>5. ~ Restart
    BY <2>1 DEF Restart, Boot, NoUpdate
  <2> QED
    BY <2>2, <2>3, <2>4, <2>5 DEF Next, UpdateStep
<1>2. /\ Head(waiting) = "IDLE" /\ known /\ waiting # <<>> /\ update.pc = "idle"
      /\ ShouldUpdate("IDLE") /\ cached # "IDLE"
  BY <1>1 DEF IdleBegins, UpdateBegin, Done, NoUpdate, Settled
<1>3. Len(waiting) > 0 /\ waiting[1] = "IDLE" /\ Len(waiting) \in Nat
  BY <1>2 DEF TypeOK
<1>4. handler.pc = "wait"
  BY <1>3 DEF IdleInv, CalmInv
<1>5. handler.reading \in High /\ latest \in {handler.reading, NoReading}
  BY <1>4 DEF IdleInv, WaitInv, ReadInv
<1>6. latest = NoReading
  BY <1>2, <1>5 DEF ShouldUpdate
<1>7. Forgotten
  BY <1>2, <1>4, <1>6 DEF Forgotten, RunsActive
<1> QED
  BY <1>2, <1>7 DEF IdleInv, ForgottenInv

\* A machine is not taken for idle once a high reading was processed after the low
\* reading that started the timer, for every number of faults and requests.
THEOREM NoEarlyIdleHolds == Spec => NoEarlyIdle
<1>1. Init => TypeOK /\ IdleInv
  BY InitType, InitIdle
<1>2. TypeOK /\ IdleInv /\ [Next]_vars => TypeOK' /\ IdleInv'
  BY NextType, NextIdle
<1>3. TypeOK /\ IdleInv /\ [Next]_vars => [IdleBegins => calm]_vars
  BY IdleIsCalm
<1> QED
  BY <1>1, <1>2, <1>3, PTL DEF Spec, NoEarlyIdle
-----------------------------------------------------------------------------
(* The session table *)

\* The one machine of this module, as the session table sees it.
TheHolder == [m \in {"machine"} |-> IF open THEN "occupied" ELSE "free"]
Gone == IF row.deleted THEN {"machine"} ELSE {}

\* The session table that UsageSession implements, without users.
Table == INSTANCE Occupancy WITH Machine <- {"machine"}, User <- {},
                                 NoUser <- "occupied", Free <- "free",
                                 holder <- TheHolder, deleted <- Gone

\* Only these steps touch the session, and only a deletion deletes the machine.
LEMMA SessionSteps ==
    ASSUME TypeOK, [Next]_vars
    PROVE  \/ UNCHANGED open /\ row'.deleted = row.deleted
           \/ UpdateUsage \/ AdminFinish \/ DeleteMachine
<1> DEFINE Same == UNCHANGED open /\ row'.deleted = row.deleted
<1>1. ASSUME NEW r \in Reading, PlugChanges(r) PROVE Same
  BY <1>1 DEF PlugChanges, tableVars
<1>2. CASE NodesChanged \/ ConnectionLost \/ Reconnect \/ ReadingStep \/ TimerFires
  BY <1>2 DEF NodesChanged, ConnectionLost, Reconnect, ReadingStep, Pump,
              RecordPower, RecordFails, TimerFires, tableVars
<1>3. CASE UpdateBegin \/ UpdateReport \/ UpdateFails
  BY <1>3 DEF UpdateBegin, UpdateReport, UpdateFails, tableVars
<1>4. CASE UpdateStatus
  BY <1>4 DEF UpdateStatus, TypeOK, Row
<1>5. ASSUME NEW kind \in AdminKind \ {"none"}, AdminBegin(kind) PROVE Same
  BY <1>5 DEF AdminBegin, tableVars
<1>6. CASE AdminPrevious \/ AdminCache
  BY <1>6 DEF AdminPrevious, AdminCache, tableVars
<1>7. CASE AdminUpdate
  BY <1>7 DEF AdminUpdate, Updated, TypeOK, Row
<1>8. CASE Restart \/ UNCHANGED vars
  BY <1>8 DEF Restart, tableVars, vars
<1> QED
  BY <1>1, <1>2, <1>3, <1>4, <1>5, <1>6, <1>7, <1>8 DEF Next, UpdateStep, AdminStep

\* Readings, admin edits and restarts touch the session of a power-driven machine
\* only by the operations of the session table, whatever the remembered status says:
\* a deleted machine's session is neither started nor finished.
THEOREM SessionsOfOccupancy == Spec => [][Table!Next]_<<TheHolder, Gone>>
<1>1. TypeOK /\ [Next]_vars => [Table!Next]_<<TheHolder, Gone>>
  <2> SUFFICES ASSUME TypeOK, [Next]_vars
               PROVE  Table!Next \/ UNCHANGED <<TheHolder, Gone>>
    OBVIOUS
  <2>1. CASE UNCHANGED open /\ row'.deleted = row.deleted
    BY <2>1 DEF TheHolder, Gone
  <2>2. CASE DeleteMachine
    <3>1. TheHolder' = TheHolder /\ Gone = {} /\ Gone' = {"machine"}
      BY <2>2 DEF DeleteMachine, TheHolder, Gone, TypeOK, Row
    <3>2. Table!Delete("machine")
      BY <3>1 DEF Table!Delete
    <3> QED
      BY <3>2 DEF Table!Next
  <2>3. CASE UpdateUsage \/ AdminFinish
    <3>1. UNCHANGED Gone /\ (row.deleted => open' = open)
      BY <2>3 DEF UpdateUsage, AdminFinish, tableVars, TypeOK, Gone
    <3>2. CASE open' = open
      BY <3>1, <3>2 DEF TheHolder
    <3>3. CASE open' # open
      <4>1. Gone = {} /\ open \in BOOLEAN /\ open' \in BOOLEAN
        BY <3>1, <3>3, NextType DEF Gone, TypeOK
      <4>2. CASE open
        <5>1. TheHolder' = [TheHolder EXCEPT !["machine"] = "free"]
          BY <3>3, <4>1, <4>2 DEF TheHolder
        <5>2. Table!Finish("machine")
          BY <3>1, <4>1, <4>2, <5>1 DEF Table!Finish, TheHolder
        <5> QED
          BY <5>2 DEF Table!Next
      <4>3. CASE ~ open
        <5>1. TheHolder' = [TheHolder EXCEPT !["machine"] = "occupied"]
          BY <3>3, <4>1, <4>3 DEF TheHolder
        <5>2. Table!Start("machine")
          BY <3>1, <4>1, <4>3, <5>1 DEF Table!Start, TheHolder
        <5> QED
          BY <5>2 DEF Table!Next
      <4> QED
        BY <4>2, <4>3
    <3> QED
      BY <3>2, <3>3
  <2> QED
    BY <2>1, <2>2, <2>3, SessionSteps
<1> QED
  BY <1>1, TypeCorrect, PTL DEF Spec
=============================================================================
