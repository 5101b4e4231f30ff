---------------------------- MODULE PowerDriven ----------------------------
(***************************************************************************)
(* A machine behind a Matter power plug: the readings that                  *)
(* MatterConnectionService queues for MachineService.handlePowerUpdate, the *)
(* low-power timer, the queue of status updates, and the admin requests     *)
(* that change what MachineService remembers of the plug.                   *)
(*                                                                          *)
(* The queues, timers and maps are kept per MAC address, so one plug and    *)
(* one machine stand for all.  One step is one SQL statement with the code  *)
(* up to the next await.  A session is only open or not here: that a start  *)
(* or a finish is atomic is what UsageSession implements of Occupancy.      *)
(***************************************************************************)
EXTENDS Integers, Sequences

CONSTANTS
    Reading,     \* power values the plug reports
    High,        \* those of at least MACHINE_ON_POWER_THRESHOLD_WATTS
    NoReading,   \* no entry in latestPowerWattsByMacAddress
    QueueLimit,  \* POWER_UPDATE_QUEUE_LIMIT
    MaxUpdates,  \* bound on status updates waiting at a time
    MaxTroubles  \* bound on failed statements, restarts of the server and admin
                 \* requests together

ASSUME ReadingAssumption == High \subseteq Reading /\ NoReading \notin Reading

ASSUME BoundAssumption ==
    /\ {QueueLimit, MaxUpdates} \subseteq Nat \ {0}
    /\ MaxTroubles \in Nat

VARIABLES
    power,     \* what the plug measures
    link,      \* the connection to the Matter server of the site
    lastPower, \* lastPowerByMac
    queue,     \* readings that wait for the listener
    handler,   \* handlePowerUpdate, one reading at a time
    latest,    \* latestPowerWattsByMacAddress
    timer,     \* powerBelowThresholdTimers has an entry
    calm,      \* no high reading was processed since its start (history)
    known,     \* machineUuidsByMacAddress has an entry
    cached,    \* machineStatusesByMacAddress
    waiting,   \* statusUpdateQueues: updates behind the running one
    update,    \* the running status update
    row,       \* the machine row
    open,      \* the machine has an open session
    admin,     \* the admin request under way
    astray,    \* a restart, an admin request or a finish that failed after its
               \* commit has left a status in memory that does not go with the
               \* session (history)
    troubles   \* how many there have been

matterVars == <<power, link, lastPower, queue>>
timerVars == <<timer, calm>>
memoryVars == <<known, cached>>
updateVars == <<waiting, update>>
tableVars == <<row, open>>
vars == <<matterVars, handler, latest, timerVars, memoryVars, updateVars,
          tableVars, admin, astray, troubles>>

-----------------------------------------------------------------------------
(* Records *)

Status == {"IDLE", "ACTIVE"}   \* ACTIVE: WASH or DRY, by the type
NoStatus == "none"

Handler == [pc: {"idle", "record", "wait"}, reading: Reading \cup {NoReading}]
NoHandler == [pc |-> "idle", reading |-> NoReading]

UpdateRun == [pc: {"idle", "status", "usage", "report"}, status: Status,
              previous: Status \cup {NoStatus}]
NoUpdate == [pc |-> "idle", status |-> "IDLE", previous |-> NoStatus]

Row == [mac: BOOLEAN, thinq: BOOLEAN, status: Status, deleted: BOOLEAN]

AdminKind == {"none", "plain", "map", "unmap", "commission"}
AdminPC == {"idle", "previous", "finish", "update", "cache"}
Admin == [pc: AdminPC, kind: AdminKind, mac: BOOLEAN, status: Status]
NoAdmin == [pc |-> "idle", kind |-> "none", mac |-> FALSE, status |-> "IDLE"]

Trouble ==
    /\ troubles < MaxTroubles
    /\ troubles' = troubles + 1

\* WHERE mac_address = the plug's AND deleted_at IS NULL finds the row.
Found == row.mac /\ ~ row.deleted

\* The remembered status, as the running update leaves it: one that has closed the
\* session has only to report that and will remember IDLE.
Remembered == IF update.pc = "report" THEN "IDLE" ELSE cached

\* After a step that sets them, status and session do not go together.
Apart == known' /\ (open' # (Remembered' = "ACTIVE"))

-----------------------------------------------------------------------------
(* MatterConnectionService *)

PlugChanges(r) ==
    /\ r # power
    /\ power' = r
    /\ UNCHANGED <<link, lastPower, queue, handler, latest, timerVars,
                   memoryVars, updateVars, tableVars, admin, astray, troubles>>

\* handlePowerUpdate notes the reading before its first await.
Take(r) ==
    /\ handler' = [pc |-> "record", reading |-> r]
    /\ latest' = r

\* Mutant: one reading too many fits in the queue.
EmitPastLimit ==
    /\ lastPower' = power
    /\ \/ /\ handler.pc = "idle"
          /\ queue = <<>>
          /\ Take(power)
          /\ UNCHANGED queue
       \/ /\ handler.pc # "idle" \/ queue # <<>>
          /\ Len(queue) <= QueueLimit
          /\ queue' = Append(queue, power)
          /\ UNCHANGED <<handler, latest>>
       \/ /\ Len(queue) > QueueLimit
          /\ UNCHANGED <<queue, handler, latest>>

\* collectPowerUpdates and enqueuePowerUpdates: a reading that differs from the
\* last one goes to the listener, or into its queue, or is dropped.
EmitPowerChanges ==
    /\ lastPower' = power
    /\ \/ /\ handler.pc = "idle"
          /\ queue = <<>>
          /\ Take(power)
          /\ UNCHANGED queue
       \/ /\ handler.pc # "idle" \/ queue # <<>>
          /\ Len(queue) < QueueLimit
          /\ queue' = Append(queue, power)
          /\ UNCHANGED <<handler, latest>>
       \/ /\ Len(queue) >= QueueLimit
          /\ UNCHANGED <<queue, handler, latest>>

NodesChanged ==
    /\ link = "up"
    /\ power # lastPower
    /\ EmitPowerChanges
    /\ UNCHANGED <<power, link, timerVars, memoryVars, updateVars, tableVars,
                   admin, astray, troubles>>

ConnectionLost ==
    /\ link = "up"
    /\ link' = "lost"
    /\ UNCHANGED <<power, lastPower, queue, handler, latest, timerVars,
                   memoryVars, updateVars, tableVars, admin, astray, troubles>>

\* One second later startListening is tried once more; a failure is logged.
Reconnect ==
    /\ link = "lost"
    /\ \/ /\ link' = "up"
          /\ IF power # lastPower
             THEN EmitPowerChanges
             ELSE UNCHANGED <<lastPower, queue, handler, latest>>
       \/ /\ link' = "down"
          /\ UNCHANGED <<lastPower, queue, handler, latest>>
    /\ UNCHANGED <<power, timerVars, memoryVars, updateVars, tableVars, admin,
                   astray, troubles>>

\* boundedConcatMap: the next reading when the one before is done with.
Pump ==
    /\ handler.pc = "idle"
    /\ queue # <<>>
    /\ Take(Head(queue))
    /\ queue' = Tail(queue)
    /\ UNCHANGED <<power, link, lastPower, timerVars, memoryVars, updateVars,
                   tableVars, admin, astray, troubles>>

-----------------------------------------------------------------------------
(* handlePowerUpdate and the low-power timer *)

\* scheduleIdleAfterLowPower: a running timer goes on.
ScheduleIdle ==
    /\ timer' = TRUE
    /\ calm' = (calm \/ ~ timer)
    /\ handler' = NoHandler
    /\ UNCHANGED waiting

\* Mutant: a rise of the power leaves the timer running.
RiseKeepsTimer ==
    /\ calm' = FALSE
    /\ waiting' = Append(waiting, "ACTIVE")
    /\ handler' = [handler EXCEPT !.pc = "wait"]
    /\ UNCHANGED timer

\* clearPowerBelowThresholdTimer, then an update that the handler waits for.
Rise ==
    /\ timer' = FALSE
    /\ calm' = FALSE
    /\ waiting' = Append(waiting, "ACTIVE")
    /\ handler' = [handler EXCEPT !.pc = "wait"]

\* recordMachinePowerByMacAddress has returned.
RecordPower ==
    /\ handler.pc = "record"
    /\ Found
    /\ \/ /\ ~ known
          /\ handler' = NoHandler
          /\ UNCHANGED <<timerVars, waiting>>
       \/ known /\ handler.reading \notin High /\ ScheduleIdle
       \/ known /\ handler.reading \in High /\ Rise
    /\ UNCHANGED <<matterVars, latest, memoryVars, update, tableVars, admin,
                   astray, troubles>>

\* It throws: the reading is given up, with its effect on the timer.
RecordFails ==
    /\ handler.pc = "record"
    /\ \/ ~ Found /\ UNCHANGED troubles
       \/ Found /\ Trouble
    /\ handler' = NoHandler
    /\ UNCHANGED <<matterVars, latest, timerVars, memoryVars, updateVars,
                   tableVars, admin, astray>>

\* The timer, MACHINE_ON_DURATION_MS after the low reading that set it.
TimerFires ==
    /\ timer
    /\ Len(waiting) < MaxUpdates
    /\ timer' = FALSE
    /\ waiting' = Append(waiting, "IDLE")
    /\ UNCHANGED <<matterVars, handler, latest, calm, memoryVars, update,
                   tableVars, admin, astray, troubles>>

-----------------------------------------------------------------------------
(* enqueueMachineStatusUpdate: one update at a time *)

\* The update is over, whatever it did; the handler waits for ACTIVE ones.
Done(status) ==
    /\ update' = NoUpdate
    /\ handler' = IF status = "ACTIVE" THEN NoHandler ELSE handler

\* shouldUpdate of a status, by the latest reading.
ShouldUpdate(status) == (latest \in High) <=> (status = "ACTIVE")


\* The status is the remembered one: nothing would change.
Settled(status) == cached = status

\* It is dropped when the plug is forgotten, the power has changed its mind or
\* nothing would change.
UpdateBegin ==
    LET status == Head(waiting) IN
    /\ update.pc = "idle"
    /\ waiting # <<>>
    /\ waiting' = Tail(waiting)
    /\ \/ /\ ~ known \/ ~ ShouldUpdate(status) \/ Settled(status)
          /\ Done(status)
       \/ /\ known
          /\ ShouldUpdate(status)
          /\ ~ Settled(status)
          /\ update' = [pc |-> "status", status |-> status, previous |-> cached]
          /\ UNCHANGED handler
    /\ UNCHANGED <<matterVars, latest, timerVars, memoryVars, tableVars, admin,
                   astray, troubles>>

\* Mutant: the status is remembered as soon as it is written.
UpdateStatusRemembers ==
    /\ update.pc = "status"
    /\ row' = IF Found THEN [row EXCEPT !.status = update.status] ELSE row
    /\ update' = [update EXCEPT !.pc = "usage"]
    /\ cached' = update.status
    /\ UNCHANGED <<matterVars, handler, latest, timerVars, known, waiting,
                   open, admin, astray, troubles>>

\* updateMachineStatusByMacAddress; without an earlier status no session is
\* started or finished.
UpdateStatus ==
    /\ update.pc = "status"
    /\ row' = IF Found THEN [row EXCEPT !.status = update.status] ELSE row
    /\ IF known /\ update.previous # NoStatus
       THEN /\ update' = [update EXCEPT !.pc = "usage"]
            /\ UNCHANGED <<handler, cached>>
       ELSE /\ Done(update.status)
            /\ cached' = IF known THEN update.status ELSE cached
    /\ UNCHANGED <<matterVars, latest, timerVars, known, waiting, open, admin,
                   astray, troubles>>

\* The transaction of finishUsingMachine or startUsingMachine.  A start throws when
\* the machine is gone; a finish that has closed a session goes on to report it.
\* Else the new status is remembered.
UpdateUsage ==
    LET closes == update.status = "IDLE" /\ open /\ ~ row.deleted
        refused == update.status = "ACTIVE" /\ row.deleted IN
    /\ update.pc = "usage"
    /\ \/ /\ closes
          /\ open' = FALSE
          /\ update' = [update EXCEPT !.pc = "report"]
          /\ UNCHANGED <<handler, cached>>
       \/ /\ ~ closes
          /\ open' = (open \/ (update.status = "ACTIVE" /\ ~ refused))
          /\ cached' = IF known /\ ~ refused THEN update.status ELSE cached
          /\ Done(update.status)
    /\ astray' = (astray /\ row.deleted)
    /\ UNCHANGED <<matterVars, latest, timerVars, known, waiting, row, admin,
                   troubles>>

\* getMachine and the notices of finishUsingMachine; only then IDLE is remembered.
UpdateReport ==
    /\ update.pc = "report"
    /\ cached' = IF known THEN update.status ELSE cached
    /\ Done(update.status)
    /\ UNCHANGED <<matterVars, latest, timerVars, known, waiting, tableVars, admin,
                   astray, troubles>>

\* A statement of the update fails: what it remembers stays, so that the next
\* reading tries again.  Too late for a finish that has closed the session: its
\* getMachine leaves it remembered as running, and higher readings change nothing.
UpdateFails ==
    /\ update.pc # "idle"
    /\ Trouble
    /\ Done(update.status)
    /\ UNCHANGED <<matterVars, latest, timerVars, memoryVars, waiting,
                   tableVars, admin>>
    /\ astray' = IF update.pc = "report" THEN Apart ELSE astray

-----------------------------------------------------------------------------
(* updateMachine, commissionMachine and deleteMachine *)

AdminBegin(kind) ==
    /\ admin.pc = "idle"
    /\ Trouble
    /\ admin' = [NoAdmin EXCEPT !.pc = "previous", !.kind = kind]
    /\ UNCHANGED <<matterVars, handler, latest, timerVars, memoryVars,
                   updateVars, tableVars, astray>>

\* getMachine.  An edit goes on without a row and fails at its update; one that
\* removes a mapping finishes the session first.  Commissioning needs a machine
\* that is neither mapped nor commissioned.
AdminPrevious ==
    LET refused == admin.kind = "commission"
                   /\ (row.deleted \/ row.thinq \/ row.mac)
        unmaps == admin.kind = "unmap" /\ row.thinq /\ ~ row.deleted IN
    /\ admin.pc = "previous"
    /\ admin' = IF refused
                THEN NoAdmin
                ELSE [admin EXCEPT !.pc = IF unmaps THEN "finish" ELSE "update",
                                   !.mac = Found, !.status = row.status]
    /\ UNCHANGED <<matterVars, handler, latest, timerVars, memoryVars,
                   updateVars, tableVars, astray, troubles>>

AdminFinish ==
    /\ admin.pc = "finish"
    /\ open' = (open /\ row.deleted)
    /\ admin' = [admin EXCEPT !.pc = "update"]
    /\ UNCHANGED <<matterVars, handler, latest, timerVars, memoryVars,
                   updateVars, row, troubles>>
    /\ astray' = Apart

\* The row after the update of a request of this kind.
Updated(kind) ==
    CASE kind = "map" -> [row EXCEPT !.thinq = TRUE, !.mac = FALSE]
      [] kind = "unmap" /\ row.thinq ->
           [row EXCEPT !.thinq = FALSE, !.status = "IDLE"]
      [] kind = "commission" -> [row EXCEPT !.mac = TRUE]
      [] OTHER -> row

\* The update; the CHECK machine_thinq_device_without_mac refuses a plug on a
\* mapped machine.  A commissioned machine keeps the status read before.
AdminUpdate ==
    /\ admin.pc = "update"
    /\ \/ /\ row.deleted \/ (admin.kind = "commission" /\ row.thinq)
          /\ admin' = NoAdmin
          /\ UNCHANGED row
       \/ /\ ~ row.deleted
          /\ admin.kind # "commission" \/ ~ row.thinq
          /\ row' = Updated(admin.kind)
          /\ admin' = [admin EXCEPT !.pc = "cache",
                                    !.status = IF admin.kind = "commission"
                                               THEN @ ELSE row'.status]
    /\ UNCHANGED <<matterVars, handler, latest, timerVars, memoryVars,
                   updateVars, open, astray, troubles>>

\* What the request changes in memory: forgetMacAddress after a mapping, the
\* plug after commissioning, else the status the update returned.
AdminCache ==
    /\ admin.pc = "cache"
    /\ admin' = NoAdmin
    /\ \/ /\ admin.kind = "map"
          /\ IF admin.mac
             THEN /\ known' = FALSE
                  /\ cached' = NoStatus
                  /\ latest' = NoReading
                  /\ timer' = FALSE
             ELSE UNCHANGED <<memoryVars, latest, timer>>
       \/ /\ admin.kind = "commission"
          /\ known' = TRUE
          /\ cached' = admin.status
          /\ UNCHANGED <<latest, timer>>
       \/ /\ admin.kind \in {"plain", "unmap"}
          /\ cached' = IF admin.mac THEN admin.status ELSE cached
          /\ UNCHANGED <<known, latest, timer>>
    /\ UNCHANGED <<matterVars, handler, calm, updateVars, tableVars, troubles>>
    /\ astray' = Apart

DeleteMachine ==
    /\ ~ row.deleted
    /\ Trouble
    /\ row' = [row EXCEPT !.deleted = TRUE]
    /\ UNCHANGED <<matterVars, handler, latest, timerVars, memoryVars,
                   updateVars, open, admin, astray>>

-----------------------------------------------------------------------------
(* Restart *)

\* onModuleInit: statuses come from the rows, and the listener gets the reading
\* of the moment.
Boot ==
    /\ lastPower' = power
    /\ link' = "up"
    /\ queue' = <<>>
    /\ Take(power)
    /\ timer' = FALSE
    /\ calm' = TRUE
    /\ known' = Found
    /\ cached' = IF Found THEN row.status ELSE NoStatus
    /\ waiting' = <<>>
    /\ update' = NoUpdate
    /\ admin' = NoAdmin

Restart ==
    /\ Trouble
    /\ Boot
    /\ UNCHANGED <<power, tableVars>>
    /\ astray' = Apart

-----------------------------------------------------------------------------
(* Specification *)

Init ==
    /\ power \in Reading
    /\ link = "up"
    /\ lastPower = power
    /\ queue = <<>>
    /\ handler = [pc |-> "record", reading |-> power]
    /\ latest = power
    /\ timer = FALSE
    /\ calm = TRUE
    /\ row \in [mac: BOOLEAN, thinq: BOOLEAN, status: {"IDLE"}, deleted: BOOLEAN]
    /\ ~ (row.mac /\ row.thinq)
    /\ known = Found
    /\ cached = IF Found THEN "IDLE" ELSE NoStatus
    /\ waiting = <<>>
    /\ update = NoUpdate
    /\ open = FALSE
    /\ admin = NoAdmin
    /\ astray = FALSE
    /\ troubles = 0

ReadingStep == Pump \/ RecordPower \/ RecordFails
UpdateStep == UpdateBegin \/ UpdateStatus \/ UpdateUsage \/ UpdateReport
AdminStep == AdminPrevious \/ AdminFinish \/ AdminUpdate \/ AdminCache

Next ==
    \/ \E r \in Reading : PlugChanges(r)
    \/ NodesChanged \/ ConnectionLost \/ Reconnect
    \/ ReadingStep
    \/ TimerFires
    \/ UpdateStep
    \/ UpdateFails
    \/ \E kind \in AdminKind \ {"none"} : AdminBegin(kind)
    \/ AdminStep
    \/ DeleteMachine
    \/ Restart

Spec == Init /\ [][Next]_vars

\* Handlers, updates and requests under way go on, a timer fires, and a
\* connected Matter client reports changes.
Fairness ==
    /\ WF_vars(NodesChanged)
    /\ WF_vars(Reconnect)
    /\ WF_vars(ReadingStep)
    /\ WF_vars(TimerFires)
    /\ WF_vars(UpdateStep)
    /\ WF_vars(AdminStep)

FairSpec == Spec /\ Fairness

-----------------------------------------------------------------------------
(* Properties *)

\* Every variable has its type; no more readings wait than
\* POWER_UPDATE_QUEUE_LIMIT.
TypeOK ==
    /\ power \in Reading
    /\ link \in {"up", "lost", "down"}
    /\ lastPower \in Reading
    /\ queue \in Seq(Reading)
    /\ Len(queue) <= QueueLimit
    /\ handler \in Handler
    /\ latest \in Reading \cup {NoReading}
    /\ timer \in BOOLEAN
    /\ calm \in BOOLEAN
    /\ known \in BOOLEAN
    /\ cached \in Status \cup {NoStatus}
    /\ waiting \in Seq(Status)
    /\ update \in UpdateRun
    /\ row \in Row
    /\ open \in BOOLEAN
    /\ admin \in Admin
    /\ astray \in BOOLEAN
    /\ troubles \in 0..MaxTroubles

\* The remembered status says whether the session is open, through failed
\* statements, restarts and edits: that is why it changes only after the start or
\* the finish went through, and what makes the next reading try again.  It is led
\* astray, until a session is started or finished again, only by a restart or an
\* admin request that meets a half-done update, whose status is in the row already,
\* and by a finish that fails when it has closed the session.
CacheTellsSession ==
    known /\ ~ row.deleted /\ ~ astray => (open <=> Remembered = "ACTIVE")

\* handlePowerUpdate clears the timer when the power rises: a status update to IDLE
\* begins only if no high reading was processed since the low reading that started
\* its timer, however late it gets its turn.
IdleBegins ==
    /\ update.pc = "idle"
    /\ update'.pc = "status"
    /\ update'.status = "IDLE"

NoEarlyIdle == [][IdleBegins => calm]_vars

\* The plug keeps sending readings of one side of the threshold.
Steady(S) ==
    /\ <>[](known /\ Found /\ ~ astray /\ power \in S)
    /\ []<>(handler.pc = "record" /\ handler.reading \in S)

=============================================================================
