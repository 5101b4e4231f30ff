----------------------------- MODULE ThinqDryer -----------------------------
(***************************************************************************)
(* Dryers that LG ThinQ drives: the pushes of ThinqMqttService, the         *)
(* snapshots of ThinqPollingService and of a reconnect, and the admin edits *)
(* of the mapping, all of which end in MachineService.updateThinqDryerState *)
(* or finishUsingMachine.  A dryer without a mapping may have a Matter plug, *)
(* of which only what it writes is kept here; PowerDriven has the rest.      *)
(*                                                                          *)
(* One step of a job is one SQL statement, one ThinQ request or one         *)
(* response.  A session is only open or not here: that a start or a finish  *)
(* is atomic is what UsageSession implements of Occupancy.                   *)
(***************************************************************************)
EXTENDS Integers, Sequences, FiniteSets

CONSTANTS
    Machine,     \* dryers
    Device,      \* ThinQ device ids
    NoDevice,    \* thinqDeviceId is null
    MaxChanges,  \* bound on changes of an appliance
    MaxTimers,   \* bound on timer-only reports
    MaxEdits,    \* bound on admin requests
    MaxFaults    \* bound on failing jobs and restarts

ASSUME DeviceAssumption == Device \cap {"poll", "reconnect", NoDevice} = {}
ASSUME MachineAssumption ==
    /\ Machine # {}
    /\ Machine \cap (Device \cup {"poll", "reconnect"}) = {}

VARIABLES
    appliance,    \* what each appliance is doing
    row,          \* machine rows: thinqDeviceId, status, thinqCurrentState
    source,       \* the device whose report the row shows, NoDevice for a plug
                  \* (history variable)
    alerted,      \* jobs that sent an alert for the ERROR the row shows (history)
    open,         \* machines with an open session
    deleted,      \* machines with deleted_at set
    cache,        \* stateByDeviceId
    dropping,     \* devices whose event subscription is being cancelled
    queue,        \* pushByDeviceId: reports of each device, oldest first
    job,          \* the running poll, reconnect snapshot, pushes and plug updates
    todo,         \* rows a poll or a snapshot has listed and not visited
    failed,       \* the running poll has met an error
    initialDone,  \* initialSnapshotDone
    edit,         \* the admin request under way
    spent         \* how much of each bound is used

machineVars == <<row, source, alerted, open, deleted>>
memoryVars == <<cache, dropping, queue, todo, failed, initialDone>>
vars == <<appliance, machineVars, memoryVars, job, edit, spent>>

-----------------------------------------------------------------------------
(* States, jobs and edits *)

NoState == "none"
Run == "RUNNING"   \* and DETECTING, COOLING, PAUSE
Stop == "END"      \* and POWER_OFF, SLEEP, INITIAL, WRINKLE_CARE
Fault == "ERROR"   \* like RESERVED and unknown states, says nothing of the end
State == {Run, Stop, Fault}

Sweeper == {"poll", "reconnect"}
Worker == Sweeper \cup Device \cup Machine  \* a device its pushes, a machine its plug

JobPC == {"idle", "next", "response", "previous", "write", "alert", "recheck",
          "start", "finish"}
Job == [pc: JobPC, machine: Machine, device: Device \cup {NoDevice},
        state: State \cup {NoState}, alert: BOOLEAN]

EditPC == {"idle", "previous", "finish", "read", "update"}
Edit == [pc: EditPC, machine: Machine, device: Device \cup {NoDevice},
         reset: BOOLEAN]

AnyMachine == CHOOSE m \in Machine : TRUE
NoJob == [pc |-> "idle", machine |-> AnyMachine, device |-> NoDevice,
          state |-> NoState, alert |-> FALSE]
NoEdit == [pc |-> "idle", machine |-> AnyMachine, device |-> NoDevice,
           reset |-> FALSE]

Bound == [changes |-> MaxChanges, timers |-> MaxTimers, edits |-> MaxEdits,
          faults |-> MaxFaults]
Spend(b) ==
    /\ spent[b] < Bound[b]
    /\ spent' = [spent EXCEPT ![b] = @ + 1]

Goto(w, label) == job' = [job EXCEPT ![w].pc = label]

Visit(label, m, d, s) ==
    [pc |-> label, machine |-> m, device |-> d, state |-> s, alert |-> FALSE]

\* Where updateThinqDryerState begins.
FirstStep(s) == IF s = Fault THEN "previous" ELSE "write"

\* Worker w is done with its machine: a sweep goes on, others are over.
Over(w) ==
    job' = [job EXCEPT ![w] =
              IF w \in Sweeper THEN [NoJob EXCEPT !.pc = "next"] ELSE NoJob]

\* The dryers that getMachines lists with a mapping.
Mapped == {m \in Machine \ deleted : row[m].device # NoDevice}

-----------------------------------------------------------------------------
(* ThinqPollingService.refresh and snapshotMappedDryers: a sweep over dryers *)

\* Mutant: polling ends with the startup snapshot.
VisitedAtStartup(w) == {m \in Mapped : w = "poll" => ~ initialDone}

\* After the startup snapshot a poll visits dryers already in use only.
Visited(w) ==
    {m \in Mapped : w = "poll" /\ initialDone => row[m].status = "DRY"}

\* poll() by the interval timer, or a new MQTT session, lists the machines;
\* neither overlaps itself.
SweepBegin(w) ==
    /\ job[w].pc = "idle"
    /\ todo' = [todo EXCEPT ![w] = {<<m, row[m].device>> : m \in Visited(w)}]
    /\ Goto(w, "next")
    /\ failed' = (failed /\ w # "poll")
    /\ UNCHANGED <<appliance, machineVars, dropping, cache, queue, initialDone,
                   edit, spent>>

\* getDryerState: ThinQ answers with the state of the moment ...
Request(w) ==
    /\ job[w].pc = "next"
    /\ \E e \in todo[w] :
         /\ todo' = [todo EXCEPT ![w] = @ \ {e}]
         /\ job' = [job EXCEPT ![w] = Visit("response", e[1], e[2],
                                            appliance[e[2]])]
    /\ UNCHANGED <<appliance, machineVars, dropping, cache, queue, failed,
                   initialDone, edit, spent>>

\* ... and the answer arrives some time later: rememberDeviceState, then
\* updateThinqDryerState.
Response(w) ==
    /\ job[w].pc = "response"
    /\ cache' = [cache EXCEPT ![job[w].device] = job[w].state]
    /\ Goto(w, FirstStep(job[w].state))
    /\ UNCHANGED <<appliance, machineVars, dropping, queue, todo, failed,
                   initialDone, edit, spent>>

\* Mutant: initialSnapshotDone whether or not a machine failed.
SweepEndAnyway(w) ==
    /\ job[w].pc = "next"
    /\ todo[w] = {}
    /\ job' = [job EXCEPT ![w] = NoJob]
    /\ initialDone' = (initialDone \/ w = "poll")
    /\ failed' = (failed /\ w # "poll")
    /\ UNCHANGED <<appliance, machineVars, dropping, cache, queue, todo, edit,
                   spent>>

SweepEnd(w) ==
    /\ job[w].pc = "next"
    /\ todo[w] = {}
    /\ job' = [job EXCEPT ![w] = NoJob]
    /\ initialDone' = (initialDone \/ (w = "poll" /\ ~ failed))
    /\ failed' = (failed /\ w # "poll")
    /\ UNCHANGED <<appliance, machineVars, dropping, cache, queue, todo, edit,
                   spent>>

-----------------------------------------------------------------------------
(* ThinqMqttService.handlePushPayload: one push of a device at a time *)

\* mergeThinqDryerReport: a report without a run state keeps the cached one.
Merge(previous, report) == IF report = NoState THEN previous ELSE report

\* applyPush: the front report is merged into the cache when getMachines finds
\* its device mapped.
PushBegin(d) ==
    LET merged == Merge(cache[d], Head(queue[d]))
        Owner == {m \in Mapped : row[m].device = d} IN
    /\ job[d].pc = "idle"
    /\ queue[d] # <<>>
    /\ queue' = [queue EXCEPT ![d] = Tail(@)]
    /\ \/ /\ Owner = {}
          /\ UNCHANGED <<cache, job>>
       \/ \E m \in Owner :
            /\ cache' = [cache EXCEPT ![d] = merged]
            /\ job' = [job EXCEPT ![d] = Visit(FirstStep(merged), m, d, merged)]
    /\ UNCHANGED <<appliance, machineVars, dropping, todo, failed, initialDone,
                   edit, spent>>

-----------------------------------------------------------------------------
(* refreshEventSubscriptions: the cached state of unmapped devices is dropped *)

\* The devices with a cached state that no listed dryer is mapped to; the list
\* is read before the first unsubscribe request.
RefreshBegin ==
    LET unwanted == {d \in Device : /\ cache[d] # NoState
                                    /\ \A m \in Mapped : row[m].device # d} IN
    /\ dropping = {}
    /\ unwanted # {}
    /\ dropping' = unwanted
    /\ UNCHANGED <<appliance, machineVars, cache, queue, todo, failed, initialDone,
                   job, edit, spent>>

\* The answer to unsubscribeDeviceEvent; a failure keeps the cached state.
Unsubscribe(d) ==
    /\ d \in dropping
    /\ dropping' = dropping \ {d}
    /\ \/ cache' = [cache EXCEPT ![d] = NoState]
       \/ UNCHANGED cache
    /\ UNCHANGED <<appliance, machineVars, queue, todo, failed, initialDone, job,
                   edit, spent>>

-----------------------------------------------------------------------------
(* MachineService.updateThinqDryerState *)

\* Mutant: a state that says nothing of the status overwrites it with null.
ShownNull(m, s) ==
    [row[m] EXCEPT !.state = s,
                   !.status = CASE s = Run -> "DRY"
                                [] s = Stop -> "IDLE"
                                [] OTHER -> NoState]

\* The row of machine m after a report of state s.
Shown(m, s) ==
    [row[m] EXCEPT !.state = s,
                   !.status = CASE s = Run -> "DRY"
                                [] s = Stop -> "IDLE"
                                [] OTHER -> @]

\* Mutant: every ERROR report raises an alert.
PreviousIgnored(w) ==
    /\ job[w].pc = "previous"
    /\ job' = [job EXCEPT ![w].pc = "write", ![w].alert = TRUE]
    /\ UNCHANGED <<appliance, machineVars, memoryVars, edit, spent>>

\* An ERROR is news when the stored state is another one.
Previous(w) ==
    /\ job[w].pc = "previous"
    /\ job' = [job EXCEPT ![w].pc = "write",
                          ![w].alert = row[job[w].machine].state # Fault]
    /\ UNCHANGED <<appliance, machineVars, memoryVars, edit, spent>>

\* An ERROR or an unknown state starts and finishes nothing.
AfterWrite(w) ==
    CASE job[w].alert -> Goto(w, "alert")
      [] job[w].state = Run -> Goto(w, "recheck")
      [] job[w].state = Stop -> Goto(w, "finish")
      [] OTHER -> Over(w)

\* The alerts raised for what the row shows once it shows state s.
AlertsFor(m, s) == IF s = Fault THEN alerted[m] ELSE {}

\* Mutant: the update does not ask for the mapping it was fetched under.
WriteUnconditionally(w) ==
    LET m == job[w].machine IN
    /\ job[w].pc = "write"
    /\ row' = [row EXCEPT ![m] = Shown(m, job[w].state)]
    /\ source' = [source EXCEPT ![m] = job[w].device]
    /\ alerted' = [alerted EXCEPT ![m] = AlertsFor(m, job[w].state)]
    /\ AfterWrite(w)
    /\ UNCHANGED <<appliance, open, deleted, memoryVars, edit, spent>>

\* updateMany WHERE uuid = m AND deleted_at IS NULL AND thinq_device_id = d.
Write(w) ==
    LET m == job[w].machine
        d == job[w].device IN
    /\ job[w].pc = "write"
    /\ \/ /\ m \notin deleted
          /\ row[m].device = d
          /\ row' = [row EXCEPT ![m] = Shown(m, job[w].state)]
          /\ source' = [source EXCEPT ![m] = d]
          /\ alerted' = [alerted EXCEPT ![m] = AlertsFor(m, job[w].state)]
          /\ AfterWrite(w)
       \/ /\ m \in deleted \/ row[m].device # d
          /\ Over(w)
          /\ UNCHANGED <<row, source, alerted>>
    /\ UNCHANGED <<appliance, open, deleted, memoryVars, edit, spent>>

\* notifyThinqDryerError: the open session may have a user to alert.
Alert(w) ==
    LET m == job[w].machine IN
    /\ job[w].pc = "alert"
    /\ \/ /\ m \in open \ deleted
          /\ alerted' = [alerted EXCEPT ![m] =
                           IF row[m].state = Fault THEN @ \cup {w} ELSE @]
       \/ UNCHANGED alerted
    /\ Over(w)
    /\ UNCHANGED <<appliance, row, source, open, deleted, memoryVars, edit,
                   spent>>

\* "Re-check after the snapshot write so an admin unmap cannot reopen usage."
Recheck(w) ==
    LET m == job[w].machine IN
    /\ job[w].pc = "recheck"
    /\ \/ /\ m \notin deleted
          /\ row[m].device = job[w].device
          /\ Goto(w, "start")
       \/ /\ m \in deleted \/ row[m].device # job[w].device
          /\ Over(w)
    /\ UNCHANGED <<appliance, machineVars, memoryVars, edit, spent>>

\* Job w throws; the poll loop remembers that a machine failed.
Throw(w) ==
    /\ Over(w)
    /\ failed' = (failed \/ w = "poll")

\* startUsingMachine throws when the machine is gone.
StartUsing(w) ==
    LET m == job[w].machine IN
    /\ job[w].pc = "start"
    /\ \/ /\ m \notin deleted
          /\ open' = open \cup {m}
          /\ Over(w)
          /\ UNCHANGED failed
       \/ /\ m \in deleted
          /\ Throw(w)
          /\ UNCHANGED open
    /\ UNCHANGED <<appliance, row, source, alerted, deleted, dropping, cache,
                   queue, todo, initialDone, edit, spent>>

FinishUsing(w) ==
    LET m == job[w].machine IN
    /\ job[w].pc = "finish"
    /\ open' = IF m \in deleted THEN open ELSE open \ {m}
    /\ Over(w)
    /\ UNCHANGED <<appliance, row, source, alerted, deleted, memoryVars, edit,
                   spent>>

-----------------------------------------------------------------------------
(* MachineService.enqueueMachineStatusUpdate for the plug of an unmapped dryer *)

\* updateMachineStatusByMacAddress; a mapped dryer has no MAC address.  The start
\* or the finish follows, perhaps after a mapping, or does not, when the plug has been
\* forgotten by then.
PlugWrites(m) ==
    /\ job[m].pc = "idle"
    /\ m \notin deleted
    /\ row[m].device = NoDevice
    /\ \E status \in {"IDLE", "DRY"} :
         /\ row' = [row EXCEPT ![m].status = status]
         /\ \/ job' = [job EXCEPT ![m] = Visit(IF status = "DRY" THEN "start" ELSE "finish",
                                               m, NoDevice, NoState)]
            \/ UNCHANGED job
    /\ source' = [source EXCEPT ![m] = NoDevice]
    /\ UNCHANGED <<appliance, alerted, open, deleted, memoryVars, edit, spent>>

-----------------------------------------------------------------------------
(* MachineService.updateMachine with a thinqDeviceId, and deleteMachine *)

EditBegin(m, d) ==
    /\ edit.pc = "idle"
    /\ Spend("edits")
    /\ edit' = [pc |-> "previous", machine |-> m, device |-> d, reset |-> FALSE]
    /\ UNCHANGED <<appliance, machineVars, memoryVars, job>>

EditGoto(label) == edit' = [edit EXCEPT !.pc = label]

\* getMachine, then finishUsingMachine first when a mapping is replaced.
EditPrevious ==
    LET m == edit.machine IN
    /\ edit.pc = "previous"
    /\ EditGoto(IF m \in Mapped /\ row[m].device # edit.device
                THEN "finish" ELSE "read")
    /\ UNCHANGED <<appliance, machineVars, memoryVars, job, spent>>

EditFinish ==
    /\ edit.pc = "finish"
    /\ open' = IF edit.machine \in deleted THEN open ELSE open \ {edit.machine}
    /\ EditGoto("read")
    /\ UNCHANGED <<appliance, row, source, alerted, deleted, memoryVars, job,
                   spent>>

\* findUnique: does the row have a mapping that this request changes?
EditRead ==
    LET m == edit.machine IN
    /\ edit.pc = "read"
    /\ edit' = IF m \in deleted
               THEN NoEdit
               ELSE [edit EXCEPT !.pc = "update",
                                 !.reset = m \in Mapped
                                           /\ row[m].device # edit.device]
    /\ UNCHANGED <<appliance, machineVars, memoryVars, job, spent>>

\* update: thinq_device_id is unique, so a device mapped elsewhere is refused.
Taken(m, d) == d # NoDevice /\ \E k \in Machine \ {m} : row[k].device = d

EditUpdate ==
    LET m == edit.machine
        d == edit.device IN
    /\ edit.pc = "update"
    /\ edit' = NoEdit
    /\ \/ /\ m \in deleted \/ Taken(m, d)
          /\ UNCHANGED <<row, alerted>>
       \/ /\ m \notin deleted
          /\ ~ Taken(m, d)
          /\ alerted' = [alerted EXCEPT ![m] = IF edit.reset THEN {} ELSE @]
          /\ row' = [row EXCEPT ![m] =
                       IF edit.reset
                       THEN [device |-> d, status |-> "IDLE", state |-> NoState]
                       ELSE [@ EXCEPT !.device = d]]
    /\ UNCHANGED <<appliance, source, open, deleted, memoryVars, job, spent>>

DeleteMachine(m) ==
    /\ m \notin deleted
    /\ Spend("edits")
    /\ deleted' = deleted \cup {m}
    /\ UNCHANGED <<appliance, row, source, alerted, open, memoryVars, job,
                   edit>>

-----------------------------------------------------------------------------
(* The appliances and what can fail *)

\* An appliance changes its state and reports it, or the report is lost: no
\* event subscription, no connection.
ApplianceChanges(d) ==
    /\ Spend("changes")
    /\ \E s \in State \ {appliance[d]} :
         /\ appliance' = [appliance EXCEPT ![d] = s]
         /\ \/ queue' = [queue EXCEPT ![d] = Append(@, s)]
            \/ UNCHANGED queue
    /\ UNCHANGED <<machineVars, dropping, cache, todo, failed, initialDone, job,
                   edit>>

\* A report with changed timer fields only.
TimerReport(d) ==
    /\ Spend("timers")
    /\ queue' = [queue EXCEPT ![d] = Append(@, NoState)]
    /\ UNCHANGED <<appliance, machineVars, dropping, cache, todo, failed,
                   initialDone, job, edit>>

\* Mutant: a push that fails rejects those chained to it (no catch).
JobFailsThroughChain(w) ==
    /\ Spend("faults")
    /\ job[w].pc \notin {"idle", "next"}
    /\ Throw(w)
    /\ queue' = [d \in Device |-> IF d = w THEN <<>> ELSE queue[d]]
    /\ UNCHANGED <<appliance, machineVars, dropping, cache, todo, initialDone, edit>>

\* A statement of a job or a ThinQ request fails; the pushes behind it go on.
JobFails(w) ==
    /\ Spend("faults")
    /\ job[w].pc \notin {"idle", "next"}
    /\ Throw(w)
    /\ UNCHANGED <<appliance, machineVars, dropping, cache, queue, todo,
                   initialDone, edit>>

\* The first read of a push fails: the report is dropped.
PushFails(d) ==
    /\ Spend("faults")
    /\ job[d].pc = "idle"
    /\ queue[d] # <<>>
    /\ queue' = [queue EXCEPT ![d] = Tail(@)]
    /\ UNCHANGED <<appliance, machineVars, dropping, cache, todo, failed,
                   initialDone, job, edit>>

\* A statement of the admin request fails and the request with it.
EditFails ==
    /\ edit.pc # "idle"
    /\ edit' = NoEdit
    /\ UNCHANGED <<appliance, machineVars, memoryVars, job, spent>>

\* The process restarts: what is not in the database is gone.
Restart ==
    /\ Spend("faults")
    /\ cache' = [d \in Device |-> NoState]
    /\ dropping' = {}
    /\ queue' = [d \in Device |-> <<>>]
    /\ job' = [w \in Worker |-> NoJob]
    /\ todo' = [w \in Sweeper |-> {}]
    /\ failed' = FALSE
    /\ initialDone' = FALSE
    /\ edit' = NoEdit
    /\ UNCHANGED <<appliance, machineVars>>

-----------------------------------------------------------------------------
(* Specification *)

Init ==
    /\ appliance \in [Device -> State]
    /\ row \in [Machine -> [device: Device \cup {NoDevice}, status: {"IDLE"},
                            state: {NoState}]]
    /\ \A m, k \in Machine :
         row[m].device = row[k].device => m = k \/ row[m].device = NoDevice
    /\ source = [m \in Machine |-> NoDevice]
    /\ alerted = [m \in Machine |-> {}]
    /\ open = {}
    /\ deleted = {}
    /\ cache = [d \in Device |-> NoState]
    /\ dropping = {}
    /\ queue = [d \in Device |-> <<>>]
    /\ job = [w \in Worker |-> NoJob]
    /\ todo = [w \in Sweeper |-> {}]
    /\ failed = FALSE
    /\ initialDone = FALSE
    /\ edit = NoEdit
    /\ spent = [b \in DOMAIN Bound |-> 0]

Update(w) ==
    \/ Previous(w) \/ Write(w) \/ Alert(w) \/ Recheck(w) \/ StartUsing(w)
    \/ FinishUsing(w)

Sweep(w) == Request(w) \/ Response(w) \/ SweepEnd(w)

Work(w) ==
    \/ Update(w)
    \/ w \in Sweeper /\ Sweep(w)
    \/ w \in Device /\ PushBegin(w)

EditStep == EditPrevious \/ EditFinish \/ EditRead \/ EditUpdate

Next ==
    \/ \E w \in Sweeper : SweepBegin(w)
    \/ \E w \in Worker : Work(w) \/ JobFails(w)
    \/ RefreshBegin
    \/ \E d \in Device : Unsubscribe(d)
    \/ \E m \in Machine, d \in Device \cup {NoDevice} : EditBegin(m, d)
    \/ EditStep
    \/ \E m \in Machine : PlugWrites(m) \/ DeleteMachine(m)
    \/ \E d \in Device : ApplianceChanges(d) \/ TimerReport(d) \/ PushFails(d)
    \/ EditFails
    \/ Restart

Spec == Init /\ [][Next]_vars

\* Jobs under way go on, and the interval timer goes on polling; nothing forces
\* a reconnect, a report or an admin.
Fairness ==
    /\ \A w \in Worker : WF_vars(Work(w))
    /\ WF_vars(SweepBegin("poll"))
    /\ WF_vars(EditStep)

FairSpec == Spec /\ Fairness

-----------------------------------------------------------------------------
(* Properties *)

\* Every variable has its type; in particular a report that says nothing of the
\* status leaves it IDLE or DRY.
TypeOK ==
    /\ appliance \in [Device -> State]
    /\ row \in [Machine -> [device: Device \cup {NoDevice},
                            status: {"IDLE", "DRY"}, state: State \cup {NoState}]]
    /\ source \in [Machine -> Device \cup {NoDevice}]
    /\ alerted \in [Machine -> SUBSET Worker]
    /\ open \subseteq Machine
    /\ deleted \subseteq Machine
    /\ cache \in [Device -> State \cup {NoState}]
    /\ dropping \subseteq Device
    /\ queue \in [Device -> Seq(State \cup {NoState})]
    /\ job \in [Worker -> Job]
    /\ todo \in [Sweeper -> SUBSET (Machine \X Device)]
    /\ failed \in BOOLEAN
    /\ initialDone \in BOOLEAN
    /\ edit \in Edit
    /\ spent \in [DOMAIN Bound -> Nat]

\* What a row shows of ThinQ comes from the device it is mapped to now: neither a
\* late answer of a former device nor what it had written survives a new mapping
\* (updateMachine resets, updateThinqDryerState is conditional).  A status DRY may
\* also be what a plug showed before the first mapping, which resets nothing.
ShownIsOfMappedDevice ==
    \A m \in Machine :
        /\ row[m].state # NoState => source[m] = row[m].device
        /\ row[m].status = "DRY" => source[m] \in {row[m].device, NoDevice}

\* "Compare against the stored snapshot so repeated polls do not re-alert": as
\* long as the row shows an ERROR, no poll alerts twice, nor does the chain of
\* pushes or the reconnect snapshot.
AlertIsNews ==
    \A m \in Machine, w \in Worker :
        job[w].pc = "alert" /\ job[w].machine = m => w \notin alerted[m]

\* A dryer that was running before the backend started is found by the startup
\* snapshot, however often it has to be repeated.
StartupFindsRunning ==
    \A m \in Machine, d \in Device :
        (/\ ~ initialDone
         /\ job["poll"].pc = "idle"
         /\ m \in Mapped
         /\ row[m].device = d
         /\ appliance[d] = Run)
        ~> (\/ row[m].status = "DRY"
            \/ m \notin Mapped
            \/ row[m].device # d
            \/ appliance[d] # Run)

\* A dryer that has stopped for good is shown as idle in the end, also when the
\* push is lost or an old answer overwrites a newer one: DRY is polled again.
StoppedIsShown ==
    \A m \in Machine, d \in Device :
        <>[](m \in Mapped /\ row[m].device = d /\ appliance[d] = Stop)
        => <>[](row[m].status = "IDLE")

\* A push that waits for the one before it gets its turn, also when that one fails:
\* handlePushPayload catches the rejection in the chain.  Until the next restart.
PushesGetTheirTurn ==
    \A d \in Device :
        initialDone /\ job[d].pc # "idle" /\ queue[d] # <<>>
            ~> ~ initialDone \/ (job[d].pc = "idle" /\ queue[d] # <<>>)

\* "retries a failed usage transition on the next poll" and "These operations
\* are idempotent and retried on the next successful poll": a dryer that has
\* stopped for good has no open session in the end.
StoppedIsClosed ==
    \A m \in Machine, d \in Device :
        <>[](m \in Mapped /\ row[m].device = d /\ appliance[d] = Stop)
        => <>[](m \notin open)
=============================================================================
