---------------------------- MODULE UsageSession ----------------------------
(***************************************************************************)
(* Usage sessions of laundry machines: the using_machine table, the         *)
(* transactions of UsingMachineRepository that write it and the handlers of *)
(* MachineService that call them.                                           *)
(*                                                                          *)
(* A session is a row of using_machine; endedAt = NotEnded is an open one.  *)
(* Handlers run concurrently (HTTP requests, power events, ThinQ pushes and *)
(* polls, admin updates); one step of a handler is one SQL statement or one *)
(* notification.  The statements that write inside a transaction take       *)
(* effect at its commit: no other transaction sees them before, and the     *)
(* rows stay locked meanwhile (PostgreSQL, READ COMMITTED).                  *)
(***************************************************************************)
EXTENDS Integers, Sequences, FiniteSets

CONSTANTS
    Machine,        \* machine rows
    User,           \* user rows
    Usage,          \* pool of session uuids
    Proc,           \* handlers in flight
    Gender,         \* laundry room genders
    MachineGender,  \* the gender of a machine's laundry room
    Threshold,      \* MACHINE_REREGISTRATION_MIN_DURATION_MS, in clock ticks
    MaxClock,       \* bound on the clock
    MaxFaults,      \* bound on database errors and crashes
    NoUser, NoGender, NoUsage, NoProc, NoMachine,
    Free            \* a machine without an open session, for Occupancy

ASSUME NullsAssumption ==
    /\ NoUser \notin User
    /\ Free \notin User \cup {NoUser}
    /\ NoUsage \notin Usage
    /\ NoProc \notin Proc
    /\ NoMachine \notin Machine
    /\ NoGender \notin Gender

ASSUME GenderAssumption == MachineGender \in [Machine -> Gender]

ASSUME BoundAssumption ==
    /\ Threshold \in Nat
    /\ MaxClock \in Nat
    /\ MaxFaults \in Nat

VARIABLES
    usage,        \* the using_machine table: uuid -> row
    deleted,      \* machines with deleted_at set
    machineLock,  \* holder of the FOR UPDATE lock on a machine row
    usageLock,    \* holder of the FOR UPDATE lock on a session row
    pc,           \* where each handler stands
    arg,          \* what each handler works on
    notices,      \* push notifications dispatched on behalf of a session
    reply,        \* the answer the last step gave its caller, if any
    clock,        \* wall-clock time of the server
    faults        \* database errors and crashes so far

vars == <<usage, deleted, machineLock, usageLock, pc, arg, notices, reply,
          clock, faults>>
locks == <<machineLock, usageLock>>

-----------------------------------------------------------------------------
(* Rows, handlers and replies *)

NotEnded == -1

UsageRow == [machine: Machine, user: User \cup {NoUser}, notify: BOOLEAN,
             startedAt: Nat, endedAt: Nat \cup {NotEnded}]

\* Where a handler stands: the name of the statement it runs next.
StartPC == {"start_lock", "start_find", "start_create"}
FinishPC == {"finish_lock", "finish_update", "finish_machine", "finish_notify"}
RegisterPC == {"register_detail", "register_update", "register_wait",
               "register_diagnose"}
ConfirmPC == {"confirm_detail", "confirm_lock", "confirm_usage_lock",
              "confirm_find", "confirm_write", "confirm_notify"}
OwnPC == {"disable_wait", "unlink_wait"}
PC == {"idle"} \cup StartPC \cup FinishPC \cup RegisterPC \cup ConfirmPC
      \cup OwnPC

\* Handlers whose transaction holds the lock on their machine row.
MachineLockPC == {"start_find", "start_create", "finish_update",
                  "confirm_usage_lock", "confirm_find", "confirm_write"}
UsageLockPC == {"confirm_find", "confirm_write"}

\* Handlers that act for a user, and those that have a session to act on.
UserPC == RegisterPC \cup (ConfirmPC \ {"confirm_notify"}) \cup OwnPC
TargetPC == ConfirmPC \cup {"register_wait", "finish_machine", "finish_notify"}
            \cup OwnPC

\* Statements that have found a session row and wait for its lock.
WaitPC == {"register_wait"} \cup OwnPC

\* The gender is the one that UserStrategy read from the user's profile for this
\* request: a login rewrites it, so two requests of a user may differ in it.
Arg == [machine: Machine \cup {NoMachine}, user: User \cup {NoUser},
        gender: Gender \cup {NoGender}, target: Usage \cup {NoUsage}, at: Nat]

Args(m, u, g, s, t) ==
    [machine |-> m, user |-> u, gender |-> g, target |-> s, at |-> t]
NoArg == Args(NoMachine, NoUser, NoGender, NoUsage, 0)

Notice == [kind: {"completed", "replaced"}, user: User]

NoReply == "none"
Reply == {NoReply, "ok", "not_found", "forbidden", "not_running", "changed",
          "confirm_required", "already_registered", "not_yet"}

IsOpen(s) == usage[s].endedAt = NotEnded

\* Mutant: the WHERE clause forgets "endedAt IS NULL".
AnyUsages(m) == {s \in DOMAIN usage : usage[s].machine = m}

\* The rows "machineUuid = m AND endedAt IS NULL" selects.
OpenUsages(m) == {s \in DOMAIN usage : usage[s].machine = m /\ IsOpen(s)}

\* The bound on session ids: handlers that create rows are admitted while one
\* is left.
IdLeft == DOMAIN usage # Usage

-----------------------------------------------------------------------------
(* Steps shared by the handlers *)

Goto(p, label) ==
    /\ pc' = [pc EXCEPT ![p] = label]
    /\ reply' = NoReply

\* Handler p is over.
Leave(p) ==
    /\ pc' = [pc EXCEPT ![p] = "idle"]
    /\ arg' = [arg EXCEPT ![p] = NoArg]

\* The handler of an event ends; nobody waits for an answer.
End(p) ==
    /\ Leave(p)
    /\ reply' = NoReply

\* The handler of an HTTP request answers its user.
Return(p, code) ==
    /\ Leave(p)
    /\ reply' = code

\* Mutant: the transaction is left open after its last statement.
KeepLocks(p) == UNCHANGED locks

\* The end of p's transaction, by commit or by rollback.
Release(p) ==
    /\ machineLock' = [m \in Machine |->
            IF machineLock[m] = p THEN NoProc ELSE machineLock[m]]
    /\ usageLock' = [s \in Usage |->
            IF usageLock[s] = p THEN NoProc ELSE usageLock[s]]

Begin(p, label, a) ==
    /\ pc[p] = "idle"
    /\ Goto(p, label)
    /\ arg' = [arg EXCEPT ![p] = a]
    /\ UNCHANGED <<usage, deleted, locks, notices, clock, faults>>

\* Mutant: the same SELECT without FOR UPDATE.
ReadMachine(p, next) ==
    /\ arg[p].machine \notin deleted
    /\ Goto(p, next)
    /\ UNCHANGED <<usage, deleted, locks, arg, notices, clock, faults>>

\* Mutant: the same SELECT without "deleted_at IS NULL".
LockAnyMachine(p, next) ==
    /\ machineLock[arg[p].machine] = NoProc
    /\ machineLock' = [machineLock EXCEPT ![arg[p].machine] = p]
    /\ Goto(p, next)
    /\ UNCHANGED <<usage, deleted, usageLock, arg, notices, clock, faults>>

\* SELECT ... FROM machine WHERE uuid = m AND deleted_at IS NULL FOR UPDATE:
\* waits for the lock, then looks at the row as it is by then.
LockMachine(p, next) ==
    /\ machineLock[arg[p].machine] = NoProc
    /\ arg[p].machine \notin deleted
    /\ machineLock' = [machineLock EXCEPT ![arg[p].machine] = p]
    /\ Goto(p, next)
    /\ UNCHANGED <<usage, deleted, usageLock, arg, notices, clock, faults>>

MachineGone(p) ==
    /\ machineLock[arg[p].machine] = NoProc
    /\ arg[p].machine \in deleted
    /\ UNCHANGED <<usage, deleted, locks, notices, clock, faults>>

\* Mutant: ensureMachineGenderMatches is not called.
MachineDetailAnyGender(p, next) ==
    /\ \/ /\ arg[p].machine \in deleted
          /\ Return(p, "not_found")
       \/ /\ arg[p].machine \notin deleted
          /\ Goto(p, next)
          /\ UNCHANGED arg
    /\ UNCHANGED <<usage, deleted, locks, notices, clock, faults>>

\* getMachineDetail: the machine must exist and be of the gender that the request
\* brings along.
MachineDetail(p, next) ==
    LET m == arg[p].machine
        g == arg[p].gender IN
    /\ \/ /\ m \in deleted
          /\ Return(p, "not_found")
       \/ /\ m \notin deleted
          /\ MachineGender[m] # g
          /\ Return(p, "forbidden")
       \/ /\ m \notin deleted
          /\ MachineGender[m] = g
          /\ Goto(p, next)
          /\ UNCHANGED arg
    /\ UNCHANGED <<usage, deleted, locks, notices, clock, faults>>

Dispatch(s, kind, u) ==
    notices' = [notices EXCEPT ![s] = Append(@, [kind |-> kind, user |-> u])]

-----------------------------------------------------------------------------
(* startUsingMachine: a machine has begun to run *)

StartBegin(p, m) ==
    /\ IdLeft
    /\ Begin(p, "start_lock", Args(m, NoUser, NoGender, NoUsage, clock))

StartLock(p) ==
    /\ pc[p] = "start_lock"
    /\ \/ LockMachine(p, "start_find")
       \/ MachineGone(p) /\ End(p)

\* A repeated start event keeps the session that is already open.
StartFind(p) ==
    /\ pc[p] = "start_find"
    /\ \/ /\ OpenUsages(arg[p].machine) # {}
          /\ End(p)
          /\ Release(p)
       \/ /\ OpenUsages(arg[p].machine) = {}
          /\ Goto(p, "start_create")
          /\ UNCHANGED <<arg, locks>>
    /\ UNCHANGED <<usage, deleted, notices, clock, faults>>

\* startedAt defaults to now(), taken somewhere between the begin of the
\* transaction and the insert.
StartCreate(p) ==
    /\ pc[p] = "start_create"
    /\ \E n \in Usage \ DOMAIN usage, t \in arg[p].at..clock :
         usage' = [s \in DOMAIN usage \cup {n} |->
                     IF s = n THEN [machine |-> arg[p].machine, user |-> NoUser,
                                    notify |-> TRUE, startedAt |-> t,
                                    endedAt |-> NotEnded]
                              ELSE usage[s]]
    /\ End(p)
    /\ Release(p)
    /\ UNCHANGED <<deleted, notices, clock, faults>>

-----------------------------------------------------------------------------
(* finishUsingMachine: a machine has stopped *)

FinishBegin(p, m) ==
    Begin(p, "finish_lock", Args(m, NoUser, NoGender, NoUsage, 0))

FinishLock(p) ==
    /\ pc[p] = "finish_lock"
    /\ \/ LockMachine(p, "finish_update")
       \/ MachineGone(p) /\ End(p)

\* Mutant: endedAt is set to a fixed time instead of now.
CloseAtEpoch(S) ==
    usage' = [s \in DOMAIN usage |->
                IF s \in S THEN [usage[s] EXCEPT !.endedAt = 0] ELSE usage[s]]

Close(S) ==
    usage' = [s \in DOMAIN usage |->
                IF s \in S THEN [usage[s] EXCEPT !.endedAt = clock]
                           ELSE usage[s]]

\* Mutant: a user who switched the notification off is notified too.
RecipientAnyway(s) == usage[s].user

\* Who hears of the completion of session s.
Recipient(s) == IF usage[s].notify THEN usage[s].user ELSE NoUser

\* updateManyAndReturn closes every open row; the handler goes on with the
\* first one and remembers whom to notify.
FinishUpdate(p) ==
    LET open == OpenUsages(arg[p].machine) IN
    /\ pc[p] = "finish_update"
    /\ \A s \in open : usageLock[s] = NoProc
    /\ Close(open)
    /\ \/ /\ open = {}
          /\ End(p)
       \/ \E s \in open :
            /\ arg' = [arg EXCEPT ![p] = Args(@.machine, Recipient(s), NoGender,
                                               s, 0)]
            /\ Goto(p, "finish_machine")
    /\ Release(p)
    /\ UNCHANGED <<deleted, notices, clock, faults>>

\* Mutant: the handler returns before it notifies.
FinishMachineQuiet(p) ==
    /\ pc[p] = "finish_machine"
    /\ End(p)
    /\ UNCHANGED <<usage, deleted, locks, notices, clock, faults>>

\* getMachine: a machine deleted meanwhile silences the notifications.
FinishMachine(p) ==
    /\ pc[p] = "finish_machine"
    /\ \/ /\ arg[p].machine \in deleted
          /\ End(p)
       \/ /\ arg[p].machine \notin deleted
          /\ Goto(p, "finish_notify")
          /\ UNCHANGED arg
    /\ UNCHANGED <<usage, deleted, locks, notices, clock, faults>>

\* Mutant: a notice is sent although nobody is registered.
FinishNotifyAlways(p) ==
    /\ pc[p] = "finish_notify"
    /\ Dispatch(arg[p].target, "completed", arg[p].user)
    /\ End(p)
    /\ UNCHANGED <<usage, deleted, locks, clock, faults>>

\* The completion notice, then notifyLaundryRoomAvailable, which writes nothing
\* of this module.
FinishNotify(p) ==
    /\ pc[p] = "finish_notify"
    /\ IF arg[p].user # NoUser
       THEN Dispatch(arg[p].target, "completed", arg[p].user)
       ELSE UNCHANGED notices
    /\ End(p)
    /\ UNCHANGED <<usage, deleted, locks, clock, faults>>

-----------------------------------------------------------------------------
(* enableMachineNotification: a user registers for the running session *)

RegisterBegin(p, u, g, m) ==
    Begin(p, "register_detail", Args(m, u, g, NoUsage, 0))

RegisterDetail(p) ==
    /\ pc[p] = "register_detail"
    /\ MachineDetail(p, "register_update")

\* Mutant: the condition on userUuid is dropped.
RegistrableByAnyone(u, m) == {s \in OpenUsages(m) : m \notin deleted}

\* May user u register on session s?
Claimable(s, u) == usage[s].user \in {NoUser, u}

\* The rows the conditional update of user u matches on machine m.
Registrable(u, m) == {s \in OpenUsages(m) : m \notin deleted /\ Claimable(s, u)}

SetRegistered(S, u) ==
    usage' = [s \in DOMAIN usage |->
                IF s \in S THEN [usage[s] EXCEPT !.user = u, !.notify = TRUE]
                           ELSE usage[s]]

\* The update runs at once, or finds nothing to update, or waits for the lock
\* on the row it has found.
RegisterUpdate(p) ==
    LET u == arg[p].user
        S == Registrable(u, arg[p].machine) IN
    /\ pc[p] = "register_update"
    /\ \/ /\ S # {}
          /\ \A s \in S : usageLock[s] = NoProc
          /\ SetRegistered(S, u)
          /\ Return(p, "ok")
       \/ /\ S = {}
          /\ Goto(p, "register_diagnose")
          /\ UNCHANGED <<usage, arg>>
       \/ \E s \in S :
            /\ usageLock[s] # NoProc
            /\ Goto(p, "register_wait")
            /\ arg' = [arg EXCEPT ![p].target = s]
            /\ UNCHANGED usage
    /\ UNCHANGED <<deleted, locks, notices, clock, faults>>

\* The lock is free again: what the condition says of the row itself is evaluated
\* anew.  The joined machine is not read again: that it was not deleted is what the
\* statement found before it waited.
RegisterWait(p) ==
    LET u == arg[p].user
        s == arg[p].target
        matches == IsOpen(s) /\ Claimable(s, u) IN
    /\ pc[p] = "register_wait"
    /\ usageLock[s] = NoProc
    /\ \/ /\ matches
          /\ SetRegistered({s}, u)
          /\ Return(p, "ok")
       \/ /\ ~ matches
          /\ Goto(p, "register_diagnose")
          /\ UNCHANGED <<usage, arg>>
    /\ UNCHANGED <<deleted, locks, notices, clock, faults>>

\* Why the update matched no row, from a second read.
RegisterDiagnose(p) ==
    LET u == arg[p].user
        m == arg[p].machine
        open == {s \in OpenUsages(m) : m \notin deleted} IN
    /\ pc[p] = "register_diagnose"
    /\ \/ /\ open = {}
          /\ Return(p, "not_running")
       \/ \E s \in open :
            /\ usage[s].user \notin {NoUser, u}
            /\ clock - usage[s].startedAt >= Threshold
            /\ Return(p, "confirm_required")
       \/ \E s \in open :
            /\ \/ usage[s].user \in {NoUser, u}
               \/ clock - usage[s].startedAt < Threshold
            /\ Return(p, "already_registered")
    /\ UNCHANGED <<usage, deleted, locks, notices, clock, faults>>

-----------------------------------------------------------------------------
(* confirmCompletedAndRegister: a user takes over a machine whose session    *)
(* s the client showed as possibly completed                                 *)

ConfirmBegin(p, u, g, m, s) ==
    /\ IdLeft
    /\ Begin(p, "confirm_detail", Args(m, u, g, s, 0))

ConfirmDetail(p) ==
    /\ pc[p] = "confirm_detail"
    /\ MachineDetail(p, "confirm_lock")

ConfirmLock(p) ==
    /\ pc[p] = "confirm_lock"
    /\ \/ LockMachine(p, "confirm_usage_lock")
       \/ MachineGone(p) /\ Return(p, "not_found")

\* Mutant: the session row is not locked.
ConfirmReadUsage(p) ==
    /\ pc[p] = "confirm_usage_lock"
    /\ Goto(p, "confirm_find")
    /\ UNCHANGED <<usage, deleted, locks, arg, notices, clock, faults>>

\* SELECT ... FROM using_machine ... FOR UPDATE keeps register, disable and
\* unlink off the open row until the commit.
ConfirmUsageLock(p) ==
    LET open == OpenUsages(arg[p].machine) IN
    /\ pc[p] = "confirm_usage_lock"
    /\ \A s \in open : usageLock[s] = NoProc
    /\ usageLock' = [s \in Usage |-> IF s \in open THEN p ELSE usageLock[s]]
    /\ Goto(p, "confirm_find")
    /\ UNCHANGED <<usage, deleted, machineLock, arg, notices, clock, faults>>

\* May user u replace session s at time t?
Replaceable(s, u, t) ==
    /\ usage[s].user \notin {NoUser, u}
    /\ t - usage[s].startedAt >= Threshold

ConfirmFind(p) ==
    LET open == OpenUsages(arg[p].machine) IN
    /\ pc[p] = "confirm_find"
    /\ \/ /\ open = {}
          /\ Return(p, "not_running")
          /\ Release(p)
       \/ \E s \in open :
            \/ /\ s # arg[p].target
               /\ Return(p, "changed")
               /\ Release(p)
            \/ /\ s = arg[p].target
               /\ ~ Replaceable(s, arg[p].user, clock)
               /\ Return(p, "not_yet")
               /\ Release(p)
            \/ /\ s = arg[p].target
               /\ Replaceable(s, arg[p].user, clock)
               /\ Goto(p, "confirm_write")
               /\ arg' = [arg EXCEPT ![p].at = clock]
               /\ UNCHANGED locks
    /\ UNCHANGED <<usage, deleted, notices, clock, faults>>

\* Close the previous session with duration zero and open the new one, in one
\* commit.
ConfirmWrite(p) ==
    LET old == arg[p].target IN
    /\ pc[p] = "confirm_write"
    /\ \E n \in Usage \ DOMAIN usage :
         usage' = [s \in DOMAIN usage \cup {n} |->
                     IF s = n THEN [machine |-> arg[p].machine,
                                    user |-> arg[p].user, notify |-> TRUE,
                                    startedAt |-> arg[p].at,
                                    endedAt |-> NotEnded]
                     ELSE IF s = old THEN [usage[old] EXCEPT
                                             !.endedAt = usage[old].startedAt,
                                             !.notify = FALSE]
                     ELSE usage[s]]
    /\ Goto(p, "confirm_notify")
    /\ arg' = [arg EXCEPT ![p] = Args(@.machine, usage[old].user, NoGender,
                                       old, 0)]
    /\ Release(p)
    /\ UNCHANGED <<deleted, notices, clock, faults>>

ConfirmNotify(p) ==
    /\ pc[p] = "confirm_notify"
    /\ IF arg[p].user # NoUser
       THEN Dispatch(arg[p].target, "replaced", arg[p].user)
       ELSE UNCHANGED notices
    /\ Return(p, "ok")
    /\ UNCHANGED <<usage, deleted, locks, clock, faults>>

-----------------------------------------------------------------------------
(* Handlers that are one statement *)

\* The open session of user u on machine m.
OwnUsages(u, m) == {s \in OpenUsages(m) : m \notin deleted /\ usage[s].user = u}

OwnUsagesUnlocked(u, m) ==
    /\ OwnUsages(u, m) # {}
    /\ \A s \in OwnUsages(u, m) : usageLock[s] = NoProc

SetQuiet(S) ==
    usage' = [s \in DOMAIN usage |->
                IF s \in S THEN [usage[s] EXCEPT !.notify = FALSE] ELSE usage[s]]

SetUnlinked(S) ==
    usage' = [s \in DOMAIN usage |->
                IF s \in S THEN [usage[s] EXCEPT !.user = NoUser, !.notify = FALSE]
                           ELSE usage[s]]

DisableMachineNotification(u, m) ==
    /\ OwnUsagesUnlocked(u, m)
    /\ SetQuiet(OwnUsages(u, m))
    /\ reply' = NoReply
    /\ UNCHANGED <<deleted, locks, pc, arg, notices, clock, faults>>

UnlinkUserFromMachine(u, m) ==
    /\ OwnUsagesUnlocked(u, m)
    /\ SetUnlinked(OwnUsages(u, m))
    /\ reply' = NoReply
    /\ UNCHANGED <<deleted, locks, pc, arg, notices, clock, faults>>

\* Either statement finds the row locked and waits.
OwnBegin(p, label, u, m) ==
    \E s \in OwnUsages(u, m) :
        /\ usageLock[s] # NoProc
        /\ Begin(p, label, Args(m, u, NoGender, s, 0))

\* The lock is free again: the condition is evaluated anew, on that row alone.
StillOwn(p) ==
    {s \in {arg[p].target} : IsOpen(s) /\ usage[s].user = arg[p].user}

OwnWait(p) ==
    /\ pc[p] \in OwnPC
    /\ usageLock[arg[p].target] = NoProc
    /\ \/ pc[p] = "disable_wait" /\ SetQuiet(StillOwn(p))
       \/ pc[p] = "unlink_wait" /\ SetUnlinked(StillOwn(p))
    /\ Return(p, IF StillOwn(p) = {} THEN "not_found" ELSE "ok")
    /\ UNCHANGED <<deleted, locks, notices, clock, faults>>

\* A soft delete, which waits for a transaction that has locked the row.
DeleteMachine(m) ==
    /\ m \notin deleted
    /\ machineLock[m] = NoProc
    /\ deleted' = deleted \cup {m}
    /\ reply' = NoReply
    /\ UNCHANGED <<usage, locks, pc, arg, notices, clock, faults>>

-----------------------------------------------------------------------------
(* The environment *)

Tick ==
    /\ clock < MaxClock
    /\ clock' = clock + 1
    /\ reply' = NoReply
    /\ UNCHANGED <<usage, deleted, locks, pc, arg, notices, faults>>

\* Handlers whose next step asks the database; a notification that fails is
\* only logged.
DatabasePC == PC \ {"idle", "finish_notify", "confirm_notify"}

\* A statement or a commit fails: the transaction, if any, is rolled back and
\* the handler throws.
DatabaseError(p) ==
    /\ faults < MaxFaults
    /\ pc[p] \in DatabasePC
    /\ faults' = faults + 1
    /\ End(p)
    /\ Release(p)
    /\ UNCHANGED <<usage, deleted, notices, clock>>

\* The pool is used up: the insert fails like any other statement.
InsertFails(p) ==
    /\ DOMAIN usage = Usage
    /\ pc[p] \in {"start_create", "confirm_write"}
    /\ End(p)
    /\ Release(p)
    /\ UNCHANGED <<usage, deleted, notices, clock, faults>>

\* The server process dies and comes back: its transactions are rolled back,
\* its handlers are gone.
Crash ==
    /\ faults < MaxFaults
    /\ faults' = faults + 1
    /\ pc' = [p \in Proc |-> "idle"]
    /\ arg' = [p \in Proc |-> NoArg]
    /\ machineLock' = [m \in Machine |-> NoProc]
    /\ usageLock' = [s \in Usage |-> NoProc]
    /\ reply' = NoReply
    /\ UNCHANGED <<usage, deleted, notices, clock>>

-----------------------------------------------------------------------------
(* Specification *)

Init ==
    /\ usage = <<>>
    /\ deleted = {}
    /\ machineLock = [m \in Machine |-> NoProc]
    /\ usageLock = [s \in Usage |-> NoProc]
    /\ pc = [p \in Proc |-> "idle"]
    /\ arg = [p \in Proc |-> NoArg]
    /\ notices = [s \in Usage |-> <<>>]
    /\ reply = NoReply
    /\ clock = 0
    /\ faults = 0

Start(p) == StartLock(p) \/ StartFind(p) \/ StartCreate(p)

Finish(p) ==
    \/ FinishLock(p) \/ FinishUpdate(p) \/ FinishMachine(p)
    \/ FinishNotify(p)

Register(p) ==
    \/ RegisterDetail(p) \/ RegisterUpdate(p) \/ RegisterWait(p)
    \/ RegisterDiagnose(p)

Confirm(p) ==
    \/ ConfirmDetail(p) \/ ConfirmLock(p) \/ ConfirmUsageLock(p)
    \/ ConfirmFind(p) \/ ConfirmWrite(p) \/ ConfirmNotify(p)

Step(p) ==
    \/ Start(p) \/ Finish(p) \/ Register(p) \/ Confirm(p) \/ OwnWait(p)
    \/ InsertFails(p)

NewRequest(p) ==
    \E m \in Machine :
        \/ StartBegin(p, m)
        \/ FinishBegin(p, m)
        \/ \E u \in User, g \in Gender : RegisterBegin(p, u, g, m)
        \/ \E u \in User, g \in Gender, s \in DOMAIN usage :
             ConfirmBegin(p, u, g, m, s)
        \/ \E u \in User, label \in OwnPC : OwnBegin(p, label, u, m)

Next ==
    \/ \E p \in Proc : NewRequest(p) \/ Step(p) \/ DatabaseError(p)
    \/ \E u \in User, m \in Machine :
         DisableMachineNotification(u, m) \/ UnlinkUserFromMachine(u, m)
    \/ \E m \in Machine : DeleteMachine(m)
    \/ Tick
    \/ Crash

Spec == Init /\ [][Next]_vars

\* A handler that can take its next step does: the event loop runs every ready
\* continuation.  PostgreSQL queues the waiters of a row lock, so one that
\* finds the lock free again and again gets it in the end.
Fairness == \A p \in Proc : SF_vars(Step(p))

FairSpec == Spec /\ Fairness
-----------------------------------------------------------------------------
(* Properties *)

UsageTypeOK ==
    /\ DOMAIN usage \subseteq Usage
    /\ \A s \in DOMAIN usage : usage[s] \in UsageRow

LockTypeOK ==
    /\ machineLock \in [Machine -> Proc \cup {NoProc}]
    /\ usageLock \in [Usage -> Proc \cup {NoProc}]

\* A handler at label l has the machine, the user and the session that the
\* steps from there on use.
HasArgs(l, a) ==
    /\ l # "idle" => a.machine \in Machine
    /\ l \in UserPC => a.user \in User
    /\ l \in TargetPC => a.target \in Usage

HandlerTypeOK ==
    /\ pc \in [Proc -> PC]
    /\ arg \in [Proc -> Arg]
    /\ \A p \in Proc : HasArgs(pc[p], arg[p])

\* Every variable has its type: rows of using_machine are well formed, and a
\* handler has all that the rest of its steps work on.
TypeOK ==
    /\ UsageTypeOK
    /\ deleted \subseteq Machine
    /\ LockTypeOK
    /\ HandlerTypeOK
    /\ notices \in [Usage -> Seq(Notice)]
    /\ reply \in Reply
    /\ clock \in Nat
    /\ faults \in Nat

\* A machine has at most one open session, by the row locks alone: the insert
\* of createUsingMachine or confirmCompletedAndRegister never runs into the
\* partial unique index using_machine_one_active_session_per_machine.
OneOpenSession ==
    \A s, t \in DOMAIN usage :
        IsOpen(s) /\ IsOpen(t) /\ usage[s].machine = usage[t].machine => s = t

\* A session never ends before it starts, however long a handler waited for
\* its lock: finishUsingMachine never runs into the CHECK constraint
\* using_machine_valid_period.
ValidPeriod ==
    \A s \in DOMAIN usage :
        /\ usage[s].startedAt <= clock
        /\ ~ IsOpen(s) => usage[s].endedAt >= usage[s].startedAt

MachineLockOK ==
    \A p \in Proc, m \in Machine :
        machineLock[m] = p <=> pc[p] \in MachineLockPC /\ arg[p].machine = m

UsageLockOK ==
    \A p \in Proc, s \in Usage :
        usageLock[s] = p <=>
            pc[p] \in UsageLockPC /\ s \in OpenUsages(arg[p].machine)

\* A lock is held exactly by the transaction that took it and has neither
\* committed nor rolled back, on every path out of a handler.
LockDiscipline == MachineLockOK /\ UsageLockOK

\* A session gives rise to one notification at most: a duplicate finish event
\* does not repeat the completion notice, and a session that was taken over is
\* not reported as completed as well, whatever the order of both.
NoticeOnce == \A s \in Usage : Len(notices[s]) <= 1

\* A notification goes to the user on the closed row: "completed" when that
\* user wanted it at the moment of the close, "replaced" when the session was
\* taken over.
NoticeRight ==
    \A s \in Usage : \A i \in 1..Len(notices[s]) :
        /\ s \in DOMAIN usage
        /\ ~ IsOpen(s)
        /\ notices[s][i].user = usage[s].user
        /\ notices[s][i].kind = "completed" <=> usage[s].notify

\* History is final: no step changes a closed row or removes any row.
HistoryKept ==
    /\ DOMAIN usage \subseteq DOMAIN usage'
    /\ \A s \in DOMAIN usage : ~ IsOpen(s) => usage'[s] = usage[s]

ClosedFrozen == [][HistoryKept]_vars

\* A step that closes a session either frees its machine, or is a takeover: it
\* leaves the machine occupied without a gap, by a new session of another user
\* that still holds the closed one's place, after at least the threshold, and
\* the closed one gets duration zero.
ClosingIsSound ==
    \A s \in DOMAIN usage :
        IsOpen(s) /\ ~ IsOpen(s)' =>
            \/ OpenUsages(usage[s].machine)' = {}
            \/ \E n \in OpenUsages(usage[s].machine)' :
                 /\ n \notin DOMAIN usage
                 /\ usage[s].user # NoUser
                 /\ usage'[n].user \notin {NoUser, usage[s].user}
                 /\ clock - usage[s].startedAt >= Threshold
                 /\ usage'[s].endedAt = usage[s].startedAt

TakeoverSound == [][ClosingIsSound]_vars

\* The sessions of a deleted machine are over as far as the machine goes: none is
\* opened, closed or moved, by handlers that were under way either.  Whose session
\* it is may still change, but only by a register, disable or unlink that found the
\* row before the deletion and waited for it since.
DeletedUsagesKept ==
    \A s \in DOMAIN usage' :
        usage'[s].machine \in deleted =>
            /\ s \in DOMAIN usage
            /\ usage'[s].machine = usage[s].machine
            /\ usage'[s].startedAt = usage[s].startedAt
            /\ usage'[s].endedAt = usage[s].endedAt
            /\ usage'[s] # usage[s] =>
                 \E p \in Proc : /\ pc[p] \in WaitPC
                                /\ arg[p].target = s
                                /\ pc'[p] # pc[p]

DeletedFrozen == [][DeletedUsagesKept]_vars

\* Whoever gets a session, by registering or by a takeover, has passed the check
\* of the room's gender with this very request, although the check is made several
\* statements earlier and the row may have been waited for.  (That the user's
\* profile still has that gender is not promised: a login may rewrite it.)
Vouched(p, s) ==
    /\ pc[p] \in RegisterPC \cup ConfirmPC
    /\ arg[p].user = usage'[s].user
    /\ arg[p].machine = usage'[s].machine
    /\ arg[p].gender = MachineGender[arg[p].machine]

NewUsersVouched ==
    \A s \in DOMAIN usage' :
        \/ usage'[s].user = NoUser
        \/ s \in DOMAIN usage /\ usage'[s].user = usage[s].user
        \/ \E p \in Proc : Vouched(p, s)

GenderSegregated == [][NewUsersVouched]_vars

\* A registration is never stolen: the user of a row changes only from or to
\* nobody, so another user gets the machine by a takeover or after an unlink.
OwnersKept ==
    \A s \in DOMAIN usage :
        usage[s].user # NoUser => usage'[s].user \in {usage[s].user, NoUser}

NoStealing == [][OwnersKept]_vars

\* The refinement: who holds a machine, as the open row says.
Holder ==
    [m \in Machine |->
        IF OpenUsages(m) = {} THEN Free
                              ELSE usage[CHOOSE s \in OpenUsages(m) : TRUE].user]

Promise == INSTANCE Occupancy WITH holder <- Holder

\* Whatever the handlers interleave, fail or lose, their effect on a machine is
\* a sequence of atomic starts, finishes, registrations, unlinks and takeovers,
\* each from a state that allows it: the transactions of UsingMachineRepository
\* implement Occupancy.
ImplementsOccupancy == Promise!Spec

\* Every handler ends: no wait for a row lock lasts for ever.
EveryRequestEnds ==
    \A p \in Proc : pc[p] # "idle" ~> pc[p] = "idle"

\* Without faults, a session closed by finishUsingMachine whose user wanted it
\* is reported to that user, unless its machine is deleted meanwhile.
CompletionReported ==
    \A s \in Usage :
        (/\ s \in DOMAIN usage
         /\ ~ IsOpen(s)
         /\ usage[s].notify
         /\ usage[s].user # NoUser)
        ~> (\/ notices[s] # <<>>
            \/ s \in DOMAIN usage /\ usage[s].machine \in deleted)
=============================================================================
