-------------------------- MODULE RoomSubscription --------------------------
(***************************************************************************)
(* Users waiting for a free machine: the subscriptions to one laundry room  *)
(* (a location, gender and machine type), the announcements that            *)
(* MachineService dispatches when a machine is freed or enabled, and the    *)
(* web pushes that carry them.                                               *)
(*                                                                          *)
(* One step of a job is one SQL statement or the outcome of one push.  A    *)
(* session is only open or not here: that a start or a finish is atomic is  *)
(* what UsageSession implements of Occupancy.                                *)
(***************************************************************************)
EXTENDS Integers, FiniteSets

CONSTANTS
    Machine,     \* machines the room may have
    User,        \* users of its gender
    Endpoint,    \* push endpoints, one per browser
    Proc,        \* requests and announcements in flight
    NoUser, NoMachine,
    MaxUpserts,  \* bound on upserts of subscriptions
    MaxFaults,   \* bound on failing statements and crashes
    MaxLost      \* bound on pushes that the push service refuses

ASSUME NullsAssumption == NoUser \notin User /\ NoMachine \notin Machine

ASSUME BoundAssumption == {MaxUpserts, MaxFaults, MaxLost} \subseteq Nat

VARIABLES
    live,         \* machine rows with deleted_at null
    retired,      \* machine rows with deleted_at set
    disabled,     \* machines with is_available false
    busy,         \* machines with an open session
    unannounced,  \* machines freed without an announcement (history)
    sub,          \* laundry_room_subscription, by user
    upserts,      \* upserts of rows so far
    owner,        \* user_push_subscription: whom an endpoint belongs to
    left,         \* deactivated users
    job,          \* the requests and announcements
    faults,       \* failed statements and crashes so far
    lost          \* refused pushes so far

machineVars == <<live, retired, disabled, busy, unannounced>>
tableVars == <<sub, upserts, owner, left>>
boundVars == <<faults, lost>>
vars == <<machineVars, tableVars, job, boundVars>>

-----------------------------------------------------------------------------
(* Rows and jobs *)

\* A row of the table: its uuid, told apart by the number of the upsert that
\* created it, and createdAt, by that of the last one.
Row == [uuid: Nat, createdAt: Nat]
NoRow == [uuid |-> 0, createdAt |-> 0]
Subscribed(u) == sub[u] # NoRow

\* What an announcement has read of a subscriber and how far its push is: to be
\* looked up, dispatched, or given up because the lookup failed.
Entry == [row: Row, push: {"none", "lookup", "sent", "failed"}, ok: BOOLEAN]
NoEntry == [row |-> NoRow, push |-> "none", ok |-> TRUE]

AnnouncePC == {"machine", "subscribers", "count", "send", "delete"}
SubscribePC == {"check", "upsert", "recheck", "rollback"}
AdminPC == {"previous", "update"}
PC == {"idle"} \cup AnnouncePC \cup SubscribePC \cup AdminPC

Job == [pc: PC, machine: Machine \cup {NoMachine}, user: User \cup {NoUser},
        uuid: Nat, enabled: BOOLEAN, enable: BOOLEAN, list: [User -> Entry],
        sending: SUBSET (User \X Endpoint), pruning: SUBSET (User \X Endpoint)]
NoJob == [pc |-> "idle", machine |-> NoMachine, user |-> NoUser, uuid |-> 0,
          enabled |-> FALSE, enable |-> FALSE,
          list |-> [u \in User |-> NoEntry], sending |-> {}, pruning |-> {}]

\* AVAILABLE_MACHINE_WHERE: "A machine is free when it is enabled and has no
\* open usage session."
Available == live \ (disabled \cup busy)

Begin(p, j) ==
    /\ job[p].pc = "idle"
    /\ job' = [job EXCEPT ![p] = j]

Goto(p, label) == job' = [job EXCEPT ![p].pc = label]
End(p) == job' = [job EXCEPT ![p] = NoJob]

-----------------------------------------------------------------------------
(* The machines of the room *)

StartUsing(m) ==
    /\ m \in live \ busy
    /\ busy' = busy \cup {m}
    /\ UNCHANGED <<live, retired, disabled, unannounced, tableVars, job,
                   boundVars>>

\* finishUsingMachine has closed the session.
FinishUsing(p, m) ==
    /\ m \in live \cap busy
    /\ busy' = busy \ {m}
    /\ unannounced' = unannounced \ {m}
    /\ Begin(p, [NoJob EXCEPT !.pc = "machine", !.machine = m])
    /\ UNCHANGED <<live, retired, disabled, tableVars, boundVars>>

\* getMachine: a machine deleted meanwhile is not announced.
FinishMachine(p) ==
    /\ job[p].pc = "machine"
    /\ \/ /\ job[p].machine \in live
          /\ Goto(p, "subscribers")
       \/ /\ job[p].machine \notin live
          /\ End(p)
    /\ UNCHANGED <<machineVars, tableVars, boundVars>>

\* updateMachine with isAvailable: the row before ...
AdminBegin(p, m, enable) ==
    /\ m \in live
    /\ Begin(p, [NoJob EXCEPT !.pc = "previous", !.machine = m,
                              !.enable = enable])
    /\ UNCHANGED <<machineVars, tableVars, boundVars>>

AdminPrevious(p) ==
    /\ job[p].pc = "previous"
    /\ job' = [job EXCEPT ![p].pc = "update",
                          ![p].enabled = job[p].machine \notin disabled]
    /\ UNCHANGED <<machineVars, tableVars, boundVars>>

\* ... and the update, which is announced when it enabled a machine that was
\* disabled by the row before: that is a stale row when another request has
\* disabled the machine since.
AdminUpdate(p) ==
    LET m == job[p].machine
        enable == job[p].enable
        announced == enable /\ ~ job[p].enabled IN
    /\ job[p].pc = "update"
    /\ m \in live
    /\ disabled' = IF enable THEN disabled \ {m} ELSE disabled \cup {m}
    /\ unannounced' = IF announced THEN unannounced \ {m}
                      ELSE IF enable /\ m \in disabled THEN unannounced \cup {m}
                      ELSE unannounced
    /\ IF announced THEN Goto(p, "subscribers") ELSE End(p)
    /\ UNCHANGED <<live, retired, busy, tableVars, boundVars>>

\* "Machine not found."
AdminRefused(p) ==
    /\ job[p].pc = "update"
    /\ job[p].machine \notin live
    /\ End(p)
    /\ UNCHANGED <<machineVars, tableVars, boundVars>>

DeleteMachine(m) ==
    /\ m \in live
    /\ live' = live \ {m}
    /\ retired' = retired \cup {m}
    /\ UNCHANGED <<disabled, busy, unannounced, tableVars, job, boundVars>>

\* createMachine: a new machine is free, and nobody is told.
CreateMachine(m) ==
    /\ m \notin live \cup retired
    /\ live' = live \cup {m}
    /\ unannounced' = unannounced \cup {m}
    /\ UNCHANGED <<retired, disabled, busy, tableVars, job, boundVars>>

-----------------------------------------------------------------------------
(* createLaundryRoomSubscription and deleteLaundryRoomSubscription *)

SubscribeBegin(p, u) ==
    /\ u \notin left
    /\ Begin(p, [NoJob EXCEPT !.pc = "check", !.user = u])
    /\ UNCHANGED <<machineVars, tableVars, boundVars>>

\* ensureLaundryRoomUnavailable, or a 409.
SubscribeCheck(p) ==
    /\ job[p].pc = "check"
    /\ \/ Available = {} /\ Goto(p, "upsert")
       \/ Available # {} /\ End(p)
    /\ UNCHANGED <<machineVars, tableVars, boundVars>>

\* Mutant: createdAt is set when a subscription is renewed, not when it is new.
UpsertUndated(p) ==
    LET u == job[p].user
        n == upserts + 1
        row == [uuid |-> IF Subscribed(u) THEN sub[u].uuid ELSE n,
                createdAt |-> IF Subscribed(u) THEN n ELSE 0] IN
    /\ job[p].pc = "upsert"
    /\ n <= MaxUpserts
    /\ upserts' = n
    /\ sub' = [sub EXCEPT ![u] = row]
    /\ job' = [job EXCEPT ![p].pc = "recheck", ![p].uuid = row.uuid]
    /\ UNCHANGED <<machineVars, owner, left, boundVars>>

\* A second subscription of the user renews createdAt and keeps the uuid.
SubscribeUpsert(p) ==
    LET u == job[p].user
        n == upserts + 1
        row == [uuid |-> IF Subscribed(u) THEN sub[u].uuid ELSE n,
                createdAt |-> n] IN
    /\ job[p].pc = "upsert"
    /\ n <= MaxUpserts
    /\ upserts' = n
    /\ sub' = [sub EXCEPT ![u] = row]
    /\ job' = [job EXCEPT ![p].pc = "recheck", ![p].uuid = row.uuid]
    /\ UNCHANGED <<machineVars, owner, left, boundVars>>

\* The bound on upserts: the statement fails like any other.
UpsertFails(p) ==
    /\ job[p].pc = "upsert"
    /\ upserts = MaxUpserts
    /\ End(p)
    /\ UNCHANGED <<machineVars, tableVars, boundVars>>

\* Mutant: the second count is left out.
RecheckSkipped(p) ==
    /\ job[p].pc = "recheck"
    /\ End(p)
    /\ UNCHANGED <<machineVars, tableVars, boundVars>>

\* "A machine may have freed up between the check and the insert; its
\* availability notification could then have missed this subscription."
SubscribeRecheck(p) ==
    /\ job[p].pc = "recheck"
    /\ \/ Available = {} /\ End(p)
       \/ Available # {} /\ Goto(p, "rollback")
    /\ UNCHANGED <<machineVars, tableVars, boundVars>>

\* Remove the rows with these uuids, one per user.
DeleteByUuids(uuid) ==
    sub' = [u \in User |-> IF Subscribed(u) /\ sub[u].uuid = uuid[u]
                           THEN NoRow ELSE sub[u]]

SubscribeRollback(p) ==
    /\ job[p].pc = "rollback"
    /\ DeleteByUuids([u \in User |-> IF u = job[p].user THEN job[p].uuid ELSE 0])
    /\ End(p)
    /\ UNCHANGED <<machineVars, upserts, owner, left, boundVars>>

Unsubscribe(u) ==
    /\ Subscribed(u)
    /\ sub' = [sub EXCEPT ![u] = NoRow]
    /\ UNCHANGED <<machineVars, upserts, owner, left, job, boundVars>>

-----------------------------------------------------------------------------
(* notifyLaundryRoomAvailable *)

Subscribers(p) ==
    /\ job[p].pc = "subscribers"
    /\ \/ /\ \A u \in User : ~ Subscribed(u)
          /\ End(p)
       \/ /\ \E u \in User : Subscribed(u)
          /\ job' = [job EXCEPT ![p].pc = "count",
                                ![p].list = [u \in User |->
                                    IF Subscribed(u)
                                    THEN [row |-> sub[u], push |-> "lookup",
                                          ok |-> TRUE]
                                    ELSE NoEntry]]
    /\ UNCHANGED <<machineVars, tableVars, boundVars>>

\* "Skip when the freed machine is disabled/deleted or got taken right away."
Count(p) ==
    /\ job[p].pc = "count"
    /\ \/ Available = {} /\ End(p)
       \/ Available # {} /\ Goto(p, "send")
    /\ UNCHANGED <<machineVars, tableVars, boundVars>>

\* Promise.allSettled: every lookup and every push of all of them is over.
AllSettled(p) ==
    /\ job[p].pc = "send"
    /\ \A u \in User : job[p].list[u].push # "lookup"
    /\ job[p].sending = {}
    /\ job[p].pruning = {}
    /\ Goto(p, "delete")
    /\ UNCHANGED <<machineVars, tableVars, boundVars>>

\* The subscriptions whose push was "fulfilled".
DeleteNotified(p) ==
    /\ job[p].pc = "delete"
    /\ DeleteByUuids([u \in User |-> IF job[p].list[u].push = "sent"
                                     THEN job[p].list[u].row.uuid ELSE 0])
    /\ End(p)
    /\ UNCHANGED <<machineVars, upserts, owner, left, boundVars>>

-----------------------------------------------------------------------------
(* WebPushService.sendWebPushToUser and the endpoints *)

\* getUserPushSubscriptions; a user without a device is done with.
Lookup(p, u) ==
    /\ job[p].pc = "send"
    /\ job[p].list[u].push = "lookup"
    /\ job' = [job EXCEPT ![p].list[u].push = "sent",
                          ![p].sending = @ \cup {<<u, e>> : e \in
                                                 {f \in Endpoint : owner[f] = u}}]
    /\ UNCHANGED <<machineVars, tableVars, boundVars>>

\* The push service accepts the push for the endpoint.
Delivered(p, u, e) ==
    /\ <<u, e>> \in job[p].sending
    /\ job' = [job EXCEPT ![p].sending = @ \ {<<u, e>>}]
    /\ UNCHANGED <<machineVars, tableVars, boundVars>>

\* It refuses it: with 404 or 410 the endpoint is cleaned up, otherwise the
\* error is logged.
Refused(p, u, e) ==
    /\ <<u, e>> \in job[p].sending
    /\ lost < MaxLost
    /\ lost' = lost + 1
    /\ \E gone \in BOOLEAN :
         job' = [job EXCEPT ![p].sending = @ \ {<<u, e>>},
                            ![p].list[u].ok = FALSE,
                            ![p].pruning = IF gone THEN @ \cup {<<u, e>>} ELSE @]
    /\ UNCHANGED <<machineVars, tableVars, faults>>

\* Mutant: the cleanup does not ask whose endpoint it is.
PruneAnyOwner(p, u, e) ==
    /\ <<u, e>> \in job[p].pruning
    /\ owner' = [owner EXCEPT ![e] = NoUser]
    /\ job' = [job EXCEPT ![p].pruning = @ \ {<<u, e>>}]
    /\ UNCHANGED <<machineVars, sub, upserts, left, boundVars>>

\* unregisterPush: deleteMany WHERE endpoint = e AND userUuid = u.
Prune(p, u, e) ==
    /\ <<u, e>> \in job[p].pruning
    /\ owner' = [owner EXCEPT ![e] = IF @ = u THEN NoUser ELSE @]
    /\ job' = [job EXCEPT ![p].pruning = @ \ {<<u, e>>}]
    /\ UNCHANGED <<machineVars, sub, upserts, left, boundVars>>

\* registerPush: the endpoint of a browser goes to the user logged in there.
RegisterPush(u, e) ==
    /\ u \notin left
    /\ owner[e] # u
    /\ owner' = [owner EXCEPT ![e] = u]
    /\ UNCHANGED <<machineVars, sub, upserts, left, job, boundVars>>

UnregisterPush(u, e) ==
    /\ owner[e] = u
    /\ owner' = [owner EXCEPT ![e] = NoUser]
    /\ UNCHANGED <<machineVars, sub, upserts, left, job, boundVars>>

\* deactivateUser: its transaction deletes both kinds of rows.
DeactivateUser(u) ==
    /\ u \notin left
    /\ left' = left \cup {u}
    /\ sub' = [sub EXCEPT ![u] = NoRow]
    /\ owner' = [e \in Endpoint |-> IF owner[e] = u THEN NoUser ELSE owner[e]]
    /\ UNCHANGED <<machineVars, upserts, job, boundVars>>

-----------------------------------------------------------------------------
(* What can fail *)

Fault ==
    /\ faults < MaxFaults
    /\ faults' = faults + 1
    /\ unannounced' = unannounced \cup Available

\* A statement fails: a request throws, an announcement is given up with a log
\* line.
DatabaseError(p) ==
    /\ job[p].pc \notin {"idle", "send"}
    /\ Fault
    /\ End(p)
    /\ UNCHANGED <<live, retired, disabled, busy, tableVars, lost>>

\* The lookup of one subscriber fails: the others go on.
LookupFails(p, u) ==
    /\ job[p].pc = "send"
    /\ job[p].list[u].push = "lookup"
    /\ Fault
    /\ job' = [job EXCEPT ![p].list[u].push = "failed"]
    /\ UNCHANGED <<live, retired, disabled, busy, tableVars, lost>>

\* The cleanup of an endpoint fails, which is only logged.
PruneFails(p, u, e) ==
    /\ <<u, e>> \in job[p].pruning
    /\ Fault
    /\ job' = [job EXCEPT ![p].pruning = @ \ {<<u, e>>}]
    /\ UNCHANGED <<live, retired, disabled, busy, tableVars, lost>>

Crash ==
    /\ Fault
    /\ job' = [p \in Proc |-> NoJob]
    /\ UNCHANGED <<live, retired, disabled, busy, tableVars, lost>>

-----------------------------------------------------------------------------
(* Specification *)

Init ==
    /\ live \in SUBSET Machine
    /\ retired = {}
    /\ disabled = {}
    /\ busy = {}
    /\ unannounced = {}
    /\ sub = [u \in User |-> NoRow]
    /\ upserts = 0
    /\ owner = [e \in Endpoint |-> NoUser]
    /\ left = {}
    /\ job = [p \in Proc |-> NoJob]
    /\ faults = 0
    /\ lost = 0

Request(p) ==
    \/ \E m \in Machine : FinishUsing(p, m)
    \/ \E m \in Machine, enable \in BOOLEAN : AdminBegin(p, m, enable)
    \/ \E u \in User : SubscribeBegin(p, u)

Subscribe(p) ==
    \/ SubscribeCheck(p) \/ SubscribeUpsert(p) \/ UpsertFails(p)
    \/ SubscribeRecheck(p) \/ SubscribeRollback(p)

Announce(p) ==
    \/ FinishMachine(p) \/ Subscribers(p) \/ Count(p) \/ AllSettled(p)
    \/ DeleteNotified(p)

Send(p) ==
    \E u \in User :
        \/ Lookup(p, u)
        \/ \E e \in Endpoint : Delivered(p, u, e) \/ Refused(p, u, e)
                               \/ Prune(p, u, e)

Administer(p) == AdminPrevious(p) \/ AdminUpdate(p) \/ AdminRefused(p)

Step(p) == Subscribe(p) \/ Announce(p) \/ Send(p) \/ Administer(p)

Failure(p) ==
    \/ DatabaseError(p)
    \/ \E u \in User : \/ LookupFails(p, u)
                       \/ \E e \in Endpoint : PruneFails(p, u, e)

Next ==
    \/ \E p \in Proc : Request(p) \/ Step(p) \/ Failure(p)
    \/ \E m \in Machine : StartUsing(m) \/ DeleteMachine(m) \/ CreateMachine(m)
    \/ \E u \in User : Unsubscribe(u) \/ DeactivateUser(u)
    \/ \E u \in User, e \in Endpoint : RegisterPush(u, e) \/ UnregisterPush(u, e)
    \/ Crash

Spec == Init /\ [][Next]_vars

-----------------------------------------------------------------------------
(* Properties *)

\* Jobs have their type, and a subscribe request knows its user.
JobsOK ==
    /\ job \in [Proc -> Job]
    /\ \A p \in Proc : job[p].pc \in SubscribePC => job[p].user \in User

\* Rows have their type, and createdAt is not before the row's creation.
RowsOK ==
    /\ sub \in [User -> Row]
    /\ upserts \in Nat
    /\ \A u \in User : sub[u].uuid <= sub[u].createdAt
                       /\ sub[u].createdAt <= upserts

\* Every variable has its type, and a row is at least as old as its createdAt
\* says, which no upsert exceeds.
TypeOK ==
    /\ live \subseteq Machine
    /\ retired \subseteq Machine \ live
    /\ disabled \subseteq Machine
    /\ busy \subseteq Machine
    /\ unannounced \subseteq Machine
    /\ RowsOK
    /\ owner \in [Endpoint -> User \cup {NoUser}]
    /\ left \subseteq User
    /\ JobsOK
    /\ faults \in Nat
    /\ lost \in Nat

\* Job p announces machine m or will still read the subscribers, or has yet to
\* delete or to check the row of user u.
Minds(p, u, m) ==
    \/ job[p].pc = "machine" /\ job[p].machine = m
    \/ job[p].pc = "subscribers"
    \/ /\ job[p].pc \in {"count", "send"}
       /\ job[p].list[u].row.uuid = sub[u].uuid
       /\ job[p].list[u].push \in {"lookup", "sent"}
    \/ /\ job[p].pc = "delete"
       /\ job[p].list[u].row.uuid = sub[u].uuid
       /\ job[p].list[u].push = "sent"
    \/ /\ job[p].pc \in {"recheck", "rollback"}
       /\ job[p].user = u
       /\ job[p].uuid = sub[u].uuid

\* Nobody goes on waiting in a room with a free machine: for every free machine
\* and every subscription some announcement, or the subscribe request itself,
\* has yet to deal with it.  Machines created, enabled on the word of a stale
\* row, or free at the time of a fault are excepted.
NoStranded ==
    \A u \in User, m \in Available \ unannounced :
        Subscribed(u) => \E p \in Proc : Minds(p, u, m)

\* Cleaning up after a push that was refused for user u takes no browser away
\* from another user, who may have logged in there meanwhile.
PruneIsOwn ==
    \A p \in Proc, u \in User, e \in Endpoint :
        <<u, e>> \in job[p].pruning /\ <<u, e>> \notin job'[p].pruning =>
            owner'[e] = owner[e] \/ (owner[e] = u /\ owner'[e] = NoUser)

OthersKeepBrowsers == [][PruneIsOwn]_vars

\* "Delete only what was notified so failed sends and subscriptions created
\* meanwhile survive for the next availability event": what an announcement
\* deletes, when no subscribe request of that user is under way, is as it was
\* read, and its push was not refused.
DeletedWasNotified ==
    \A p \in Proc, u \in User :
        /\ job[p].pc = "delete"
        /\ \A q \in Proc : job[q].pc \in SubscribePC => job[q].user # u
        /\ job'[p].pc = "idle"
        /\ Subscribed(u)
        /\ sub'[u] = NoRow
        => /\ job[p].list[u].row.createdAt = sub[u].createdAt
           /\ job[p].list[u].ok

OnlyNotifiedDeleted == [][DeletedWasNotified]_vars
=============================================================================
