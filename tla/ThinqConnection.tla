--------------------------- MODULE ThinqConnection ---------------------------
(* The MQTT connection to ThinQ (ThinqMqttService), the event subscriptions of  *)
(* the mapped dryers, and the gate that every request to ThinQ passes           *)
(* (ThinqService.request).                                                      *)
(*                                                                              *)
(* Time is relative: wait is what is left until retryAt, in ticks.  What the    *)
(* pushes and the snapshots do to the machines is in ThinqDryer.                *)
EXTENDS Naturals

CONSTANTS
    Device,       \* ThinQ devices of dryers
    NoDevice,
    Base,         \* the first back-off after a 429 (60 s), in ticks
    Long,         \* the longest one, and the one after a 401 or 403 (900 s)
    MaxTroubles   \* bound on failing requests and statements, lost connections,
                  \* lapsed registrations, edits, shutdowns and crashes together

ASSUME NullAssumption == NoDevice \notin Device
ASSUME GateAssumption == Base \in Nat /\ Long \in Nat /\ 0 < Base /\ Base <= Long
ASSUME BoundAssumption == MaxTroubles \in Nat

VARIABLES
    status,      \* of the process: "up", "stopping", "closing" or "down"
    client,      \* this.client is set, and connected
    orphans,     \* open sockets that this.client does not refer to
    attempt,     \* where connect() stands; "idle": connecting is undefined
    timer,       \* reconnectTimer is set
    missed,      \* history: it last fired into an attempt that was under way
    run,         \* run[r]: the refreshEventSubscriptions under way
    subscribed,  \* subscribedDeviceIds
    due,         \* lastEventRenewAt is 0 or EVENT_RENEW_MS ago
    flight,      \* flight[w]: the request that worker w waits for
    wait,        \* ticks until retryAt
    backoff,     \* rateLimitBackoffMs, in ticks
    quiet,       \* history: ticks since the last 429, up to Base
    mapped,      \* the devices that dryers are mapped to
    registered,  \* the devices whose events ThinQ sends
    troubles     \* how many there have been

socketVars == <<client, orphans, attempt, timer, missed>>
eventVars == <<run, subscribed, due>>
gateVars == <<flight, wait, backoff, quiet>>
worldVars == <<mapped, registered>>
vars == <<status, socketVars, eventVars, gateVars, worldVars, troubles>>

-----------------------------------------------------------------------------
(* Requests, runs and bounds *)

\* The interval timer and a new MQTT session refresh the subscriptions.
Runner == {"connect", "interval"}
Worker == Runner \cup {"poll"}

\* A subscription is for a device; other calls may be for none.
Request == [op: {"call"}, device: Device \cup {NoDevice}]
           \cup [op: {"subscribe", "unsubscribe"}, device: Device]
Flight == [at: {"none", "sent", "served"}, request: Request]

Call == [op |-> "call", device |-> NoDevice]
NoFlight == [at |-> "none", request |-> Call]

Run == [pc: {"idle", "list", "drop", "add"}, renewAll: BOOLEAN,
        wanted: SUBSET Device, todo: SUBSET Device]
NoRun == [pc |-> "idle", renewAll |-> FALSE, wanted |-> {}, todo |-> {}]

\* The requests before the connection, and what follows each of them.
Prepare == {"route", "register", "certificate"}
After == [route |-> "register", register |-> "certificate", certificate |-> "ca"]
Attempt == Prepare \cup {"idle", "ca", "dial", "subscribe", "refresh",
                         "snapshot", "visit"}

Trouble ==
    /\ troubles < MaxTroubles
    /\ troubles' = troubles + 1

-----------------------------------------------------------------------------
(* ThinqService.request *)

\* What a refresh asks for next: an unsubscription, or a subscription unless
\* the device has one that need not be renewed.
RunAsks(r) ==
    CASE run[r].pc = "drop" ->
            {[op |-> "unsubscribe", device |-> d] : d \in run[r].todo}
      [] run[r].pc = "add" ->
            {[op |-> "subscribe", device |-> d] :
                d \in {e \in run[r].todo : run[r].renewAll \/ e \notin subscribed}}
      [] OTHER -> {}

\* What worker w asks ThinQ for next.
Asks(w) ==
    CASE w = "poll" -> {Call}
      [] w = "interval" -> RunAsks(w)
      [] w = "connect" /\ (attempt \in Prepare \/ status = "closing") -> {Call}
      [] w = "connect" /\ attempt = "visit" ->
            {[op |-> "call", device |-> d] : d \in {e \in run[w].todo : status = "up"}}
      [] OTHER -> RunAsks(w)

\* The request leaves when the gate is open.
Send(w) ==
    /\ status # "down"
    /\ flight[w].at = "none"
    /\ wait = 0
    /\ \E q \in Asks(w) : flight' = [flight EXCEPT ![w] = [at |-> "sent",
                                                           request |-> q]]
    /\ UNCHANGED <<status, socketVars, eventVars, wait, backoff, quiet,
                   worldVars, troubles>>

\* ThinQ carries it out.
Serve(w) ==
    LET q == flight[w].request IN
    /\ flight[w].at = "sent"
    /\ flight' = [flight EXCEPT ![w].at = "served"]
    /\ registered' = CASE q.op = "subscribe" -> registered \cup {q.device}
                       [] q.op = "unsubscribe" -> registered \ {q.device}
                       [] OTHER -> registered
    /\ UNCHANGED <<status, socketVars, eventVars, wait, backoff, quiet, mapped,
                   troubles>>

\* Mutant: a success opens the gate as well.
SucceedsAndOpens(w) ==
    /\ flight[w].at = "served"
    /\ flight' = [flight EXCEPT ![w] = NoFlight]
    /\ backoff' = Base
    /\ wait' = 0
    /\ UNCHANGED <<quiet, troubles>>

\* The answer is a success: the next 429 starts with the first back-off again.
Succeeds(w) ==
    /\ flight[w].at = "served"
    /\ flight' = [flight EXCEPT ![w] = NoFlight]
    /\ backoff' = Base
    /\ UNCHANGED <<wait, quiet, troubles>>

\* Mutant: the back-off is not capped.
DoubledForEver(b) == 2 * b

\* The back-off after back-off b.
Doubled(b) == IF 2 * b < Long THEN 2 * b ELSE Long

\* Request q throws without being sent: "ThinQ requests are backing off."
Refused(w, q) ==
    /\ flight[w].at = "none"
    /\ wait > 0
    /\ q \in Asks(w)
    /\ UNCHANGED <<gateVars, troubles>>

\* Request q throws after it was sent: 429, 401 or 403, an answer with a body
\* that cannot be used, or any other failure, after which ThinQ may or may not
\* have carried the request out.
Fails(w, q) ==
    /\ flight[w].at # "none"
    /\ q = flight[w].request
    /\ Trouble
    /\ flight' = [flight EXCEPT ![w] = NoFlight]
    /\ \/ /\ flight[w].at = "sent"
          /\ wait' = backoff
          /\ backoff' = Doubled(backoff)
          /\ quiet' = 0
       \/ /\ flight[w].at = "sent"
          /\ wait' = Long
          /\ UNCHANGED <<backoff, quiet>>
       \/ /\ backoff' \in {backoff, IF flight[w].at = "served" /\ q.op = "call"
                                   THEN Base ELSE backoff}
          /\ UNCHANGED <<wait, quiet>>

Throws(w, q) == Refused(w, q) \/ Fails(w, q)

Tick ==
    /\ wait > 0 \/ quiet < Base
    /\ wait' = IF wait > 0 THEN wait - 1 ELSE 0
    /\ quiet' = IF quiet < Base THEN quiet + 1 ELSE quiet
    /\ UNCHANGED <<status, socketVars, eventVars, flight, backoff, worldVars,
                   troubles>>

\* A request of ThinqPollingService is over, whichever way.
PollOver ==
    /\ status # "down"
    /\ Succeeds("poll") \/ Throws("poll", Call)
    /\ UNCHANGED <<status, socketVars, eventVars, worldVars>>

-----------------------------------------------------------------------------
(* ensureConnected, connect and scheduleReconnect *)

\* Mutant: a client that is connected already does not matter.
EnsureAnyway ==
    attempt' = IF status = "up" /\ attempt = "idle" THEN "route" ELSE attempt

EnsureConnected ==
    attempt' = IF status = "up" /\ attempt = "idle" /\ ~ client
               THEN "route" ELSE attempt

ScheduleReconnect == timer' = (timer \/ status = "up")

\* Mutant: the handler of the rejection only logs it.
ConnectFailsLogged ==
    /\ attempt' = "idle"
    /\ UNCHANGED timer

\* connect() is rejected.
ConnectFails ==
    /\ attempt' = "idle"
    /\ ScheduleReconnect

TimerFires ==
    /\ timer
    /\ timer' = FALSE
    /\ EnsureConnected
    /\ missed' = (attempt # "idle")
    /\ UNCHANGED <<status, client, orphans, eventVars, gateVars, worldVars, troubles>>

\* getMqttHost, registerMqttClient and issueMqttCertificate, one by one.
PrepareReturns ==
    /\ attempt \in Prepare
    /\ Succeeds("connect")
    /\ attempt' = After[attempt]
    /\ UNCHANGED <<status, client, orphans, timer, missed, eventVars, worldVars>>

PrepareThrows ==
    /\ attempt \in Prepare
    /\ Throws("connect", Call)
    /\ ConnectFails
    /\ UNCHANGED <<status, client, orphans, missed, eventVars, worldVars>>

\* downloadAmazonRootCa; a process that is stopping goes no further.
DownloadCa ==
    /\ attempt = "ca"
    /\ \/ /\ attempt' = IF status = "up" THEN "dial" ELSE "idle"
          /\ UNCHANGED <<timer, troubles>>
       \/ /\ Trouble
          /\ ConnectFails
    /\ UNCHANGED <<status, client, orphans, missed, eventVars, gateVars, worldVars>>

\* mqtt.connect: "connect" makes the new client this.client; "error" and "close"
\* before it reject.
Dial ==
    /\ attempt = "dial"
    /\ \/ /\ attempt' = "subscribe"
          /\ client' = TRUE
          /\ orphans' = IF client THEN orphans + 1 ELSE orphans
          /\ UNCHANGED <<timer, troubles>>
       \/ /\ Trouble
          /\ ConnectFails
          /\ UNCHANGED <<client, orphans>>
    /\ UNCHANGED <<status, missed, eventVars, gateVars, worldVars>>

\* Where a refresh begins; renewAll is read before the first await.
BeginRun(r, renewAll) ==
    run' = [run EXCEPT ![r] = [NoRun EXCEPT !.pc = "list", !.renewAll = renewAll]]

\* The topic is subscribed: "New MQTT session: re-register device event
\* subscriptions."  A process that is stopping refreshes nothing.
Subscribed ==
    /\ attempt = "subscribe"
    /\ due' = TRUE
    /\ \/ /\ status = "up"
          /\ attempt' = "refresh"
          /\ BeginRun("connect", TRUE)
       \/ /\ status # "up"
          /\ attempt' = "snapshot"
          /\ UNCHANGED run
    /\ UNCHANGED <<status, client, orphans, timer, missed, subscribed, gateVars,
                   worldVars, troubles>>

\* The subscription fails, or the connection with it: end(true), rejection.
SubscribeFails ==
    /\ attempt = "subscribe"
    /\ Trouble
    /\ client' = FALSE
    /\ ConnectFails
    /\ UNCHANGED <<status, orphans, missed, eventVars, gateVars, worldVars>>

\* "close" of the connected client.
Close ==
    /\ client
    /\ attempt # "subscribe"
    /\ Trouble
    /\ client' = FALSE
    /\ ScheduleReconnect
    /\ UNCHANGED <<status, orphans, attempt, missed, eventVars, gateVars, worldVars>>

\* snapshotMappedDryers lists the dryers ...
Snapshot ==
    /\ attempt = "snapshot"
    /\ attempt' = "visit"
    /\ run' = [run EXCEPT !["connect"] = [NoRun EXCEPT !.todo = mapped]]
    /\ UNCHANGED <<status, client, orphans, timer, missed, subscribed, due, gateVars,
                   worldVars, troubles>>

SnapshotFails ==
    /\ attempt = "snapshot"
    /\ Trouble
    /\ ConnectFails
    /\ UNCHANGED <<status, client, orphans, missed, eventVars, gateVars, worldVars>>

\* ... and asks for the state of each; a failure is logged.
VisitOver ==
    /\ attempt = "visit"
    /\ \E d \in run["connect"].todo :
         LET q == [op |-> "call", device |-> d] IN
         /\ \/ flight["connect"].request = q /\ Succeeds("connect")
            \/ Throws("connect", q)
         /\ run' = [run EXCEPT !["connect"].todo = @ \ {d}]
    /\ UNCHANGED <<status, socketVars, subscribed, due, worldVars>>

SnapshotEnd ==
    /\ attempt = "visit"
    /\ flight["connect"].at = "none"
    /\ run["connect"].todo = {} \/ status # "up"
    /\ attempt' = "idle"
    /\ run' = [run EXCEPT !["connect"] = NoRun]
    /\ UNCHANGED <<status, client, orphans, timer, missed, subscribed, due, gateVars,
                   worldVars, troubles>>

-----------------------------------------------------------------------------
(* refreshEventSubscriptions *)

IntervalFires ==
    /\ status = "up"
    /\ run["interval"].pc = "idle"
    /\ BeginRun("interval", due)
    /\ UNCHANGED <<status, socketVars, subscribed, due, gateVars, worldVars,
                   troubles>>

\* EVENT_RENEW_MS have passed since lastEventRenewAt.
RenewDue ==
    /\ status = "up"
    /\ ~ due
    /\ due' = TRUE
    /\ UNCHANGED <<status, socketVars, run, subscribed, gateVars, worldVars,
                   troubles>>

\* getMachines: which devices are wanted, and which are no longer.
List(r) ==
    /\ run[r].pc = "list"
    /\ run' = [run EXCEPT ![r].pc = "drop", ![r].wanted = mapped,
                          ![r].todo = subscribed \ mapped]
    /\ UNCHANGED <<status, socketVars, subscribed, due, gateVars, worldVars,
                   troubles>>

\* It throws: within connect() that is a failed attempt.
ListFails(r) ==
    /\ run[r].pc = "list"
    /\ Trouble
    /\ run' = [run EXCEPT ![r] = NoRun]
    /\ IF r = "connect" THEN ConnectFails ELSE UNCHANGED <<attempt, timer>>
    /\ UNCHANGED <<status, client, orphans, missed, subscribed, due, gateVars,
                   worldVars>>

\* subscribedDeviceIds after request q, which went well or threw.
Noted(q, ok) ==
    CASE ok /\ q.op = "subscribe" -> subscribed \cup {q.device}
      [] ok /\ q.op = "unsubscribe" -> subscribed \ {q.device}
      [] OTHER -> subscribed

\* The request for one device is over; the loop goes on with the others.
EventOver(r) ==
    /\ run[r].pc \in {"drop", "add"}
    /\ \E d \in run[r].todo, ok \in BOOLEAN :
         LET q == [op |-> IF run[r].pc = "drop" THEN "unsubscribe" ELSE "subscribe",
                   device |-> d] IN
         /\ \/ ok /\ flight[r].request = q /\ Succeeds(r)
            \/ ~ ok /\ Throws(r, q)
         /\ subscribed' = Noted(q, ok)
         /\ run' = [run EXCEPT ![r].todo = @ \ {d}]
    /\ UNCHANGED <<status, socketVars, due, worldVars>>

\* Nothing is left to unsubscribe.
Dropped(r) ==
    /\ run[r].pc = "drop"
    /\ run[r].todo = {}
    /\ run' = [run EXCEPT ![r].pc = "add", ![r].todo = run[r].wanted]
    /\ UNCHANGED <<status, socketVars, subscribed, due, gateVars, worldVars,
                   troubles>>

\* Mutant: a renewal passes over subscribed devices, too.
SkippableAlways(r) == {d \in run[r].todo : d \in subscribed}

\* A subscribed device is passed over unless all are to be renewed.
Skippable(r) == {d \in run[r].todo : ~ run[r].renewAll /\ d \in subscribed}

Skip(r) ==
    /\ run[r].pc = "add"
    /\ flight[r].at = "none"
    /\ \E d \in Skippable(r) : run' = [run EXCEPT ![r].todo = @ \ {d}]
    /\ UNCHANGED <<status, socketVars, subscribed, due, gateVars, worldVars,
                   troubles>>

RefreshEnd(r) ==
    /\ run[r].pc = "add"
    /\ run[r].todo = {}
    /\ run' = [run EXCEPT ![r] = NoRun]
    /\ due' = (due /\ ~ run[r].renewAll)
    /\ attempt' = IF r = "connect" THEN "snapshot" ELSE attempt
    /\ UNCHANGED <<status, client, orphans, timer, missed, subscribed, gateVars,
                   worldVars, troubles>>

-----------------------------------------------------------------------------
(* Shutdown, crash, and the world outside *)

StopBegin ==
    /\ status = "up"
    /\ Trouble
    /\ status' = "stopping"
    /\ timer' = FALSE
    /\ UNCHANGED <<client, orphans, attempt, missed, eventVars, gateVars, worldVars>>

\* onModuleDestroy goes on once connecting is settled, ends the client ...
StopEnd ==
    /\ status = "stopping"
    /\ attempt = "idle"
    /\ status' = IF client THEN "closing" ELSE "down"
    /\ client' = FALSE
    /\ UNCHANGED <<orphans, attempt, timer, missed, eventVars, gateVars, worldVars,
                   troubles>>

\* ... and unregisters it; a failure is logged.
Unregistered ==
    /\ status = "closing"
    /\ Succeeds("connect") \/ Throws("connect", Call)
    /\ status' = "down"
    /\ UNCHANGED <<socketVars, eventVars, worldVars>>

\* A new process: onModuleInit.
Boot ==
    /\ status' = "up"
    /\ client' = FALSE
    /\ orphans' = 0
    /\ attempt' = "route"
    /\ timer' = FALSE
    /\ missed' = FALSE
    /\ run' = [r \in Runner |-> NoRun]
    /\ subscribed' = {}
    /\ due' = TRUE
    /\ flight' = [w \in Worker |-> NoFlight]
    /\ wait' = 0
    /\ backoff' = Base
    /\ quiet' = Base
    /\ UNCHANGED worldVars

Restart ==
    /\ \/ status = "down" /\ UNCHANGED troubles
       \/ status # "down" /\ Trouble
    /\ Boot

\* An administrator maps a dryer to device d, or removes the mapping.
EditMapping(d) ==
    /\ Trouble
    /\ mapped' = IF d \in mapped THEN mapped \ {d} ELSE mapped \cup {d}
    /\ UNCHANGED <<status, socketVars, eventVars, gateVars, registered>>

\* ThinQ forgets a registration, as it does 4464 hours after the last renewal.
Lapse(d) ==
    /\ d \in registered
    /\ Trouble
    /\ registered' = registered \ {d}
    /\ UNCHANGED <<status, socketVars, eventVars, gateVars, mapped>>

-----------------------------------------------------------------------------
(* Specification *)

Init ==
    /\ status = "up"
    /\ client = FALSE
    /\ orphans = 0
    /\ attempt = "route"
    /\ timer = FALSE
    /\ missed = FALSE
    /\ run = [r \in Runner |-> NoRun]
    /\ subscribed = {}
    /\ due = TRUE
    /\ flight = [w \in Worker |-> NoFlight]
    /\ wait = 0
    /\ backoff = Base
    /\ quiet = Base
    /\ mapped \in SUBSET Device
    /\ registered = {}
    /\ troubles = 0

ConnectStep ==
    PrepareReturns \/ PrepareThrows \/ DownloadCa \/ Dial \/ Subscribed
    \/ SubscribeFails \/ Snapshot \/ SnapshotFails \/ VisitOver \/ SnapshotEnd
RefreshStep(r) ==
    List(r) \/ ListFails(r) \/ EventOver(r) \/ Dropped(r) \/ Skip(r) \/ RefreshEnd(r)

Next ==
    \/ \E w \in Worker : Send(w) \/ Serve(w)
    \/ Tick
    \/ PollOver
    \/ TimerFires
    \/ ConnectStep
    \/ Close
    \/ IntervalFires
    \/ RenewDue
    \/ \E r \in Runner : RefreshStep(r)
    \/ StopBegin
    \/ StopEnd
    \/ Unregistered
    \/ Restart
    \/ \E d \in Device : EditMapping(d) \/ Lapse(d)

Spec == Init /\ [][Next]_vars

\* Requests are answered or time out, what waits for them goes on, timers fire
\* and time passes.  Nothing forces a poll, an edit, a loss or a failure.
Fairness ==
    /\ \A w \in Worker : WF_vars(Serve(w))
    /\ \A r \in Runner : WF_vars(Send(r)) /\ WF_vars(RefreshStep(r))
    /\ WF_vars(PollOver)
    /\ WF_vars(ConnectStep)
    /\ WF_vars(Tick)
    /\ WF_vars(TimerFires)
    /\ WF_vars(IntervalFires)
    /\ WF_vars(RenewDue)

FairSpec == Spec /\ Fairness

-----------------------------------------------------------------------------
(* Properties *)

\* Every variable has its type, and the wait never exceeds the longest back-off.
TypeOK ==
    /\ status \in {"up", "stopping", "closing", "down"}
    /\ client \in BOOLEAN
    /\ orphans \in Nat
    /\ attempt \in Attempt
    /\ timer \in BOOLEAN
    /\ missed \in BOOLEAN
    /\ run \in [Runner -> Run]
    /\ subscribed \in SUBSET Device
    /\ due \in BOOLEAN
    /\ flight \in [Worker -> Flight]
    /\ wait \in 0..Long
    /\ backoff \in Base..Long
    /\ quiet \in 0..Base
    /\ mapped \in SUBSET Device
    /\ registered \in SUBSET Device
    /\ troubles \in 0..MaxTroubles

\* At most one socket is open and this.client refers to it, whatever timers,
\* failures and losses come together; after a shutdown none is, and nothing is
\* left that would open one.
SocketOwned ==
    /\ orphans = 0
    /\ status \in {"closing", "down"} => ~ client /\ ~ timer /\ attempt = "idle"

\* "backs off shared requests after 429" (thinq.service.spec.ts): no request of
\* any worker leaves within the first back-off after a 429 to any of them.
GateHolds ==
    [][\A w \in Worker : flight[w].at = "none" /\ flight'[w].at = "sent"
                            => quiet = Base]_vars

\* "MQTT disconnect: exponential reconnect" (2026-11-03-thinq-mqtt-design.md): a
\* running service without a client connects, or has a timer set to do so.
NeverGivesUp == status = "up" /\ attempt = "idle" => client \/ timer

\* A connection that is lost, or cannot be made, comes about once requests succeed
\* again, unless the reconnect timer fired into an attempt that was still running.
Reconnects == <>[](status = "up" /\ ~ missed) => <>[]client

\* A device that stays mapped ends up registered for events, whatever
\* subscriptions fail, lapse or race with each other: the renewal finds it.
MappedIsRegistered ==
    \A d \in Device :
        <>[](status = "up" /\ d \in mapped) => <>[](d \in registered)
=============================================================================
