---------------------------- MODULE Connectivity ----------------------------
(* The reachability of the machines' plugs over Matter                          *)
(* (MachineConnectivityService.check), the connections to the Matter sites that *)
(* it asks, and the alert that a machine is offline.                            *)
(*                                                                              *)
(* Time is relative: an age counts ticks up to Grace.  lastSeenAt, which no     *)
(* decision depends on, and the recipients of an alert are left out.            *)
EXTENDS Naturals

CONSTANTS
    Machine,
    Site,         \* Matter sites
    SiteOf,       \* the site of each machine's location
    NoMachine,
    NoAge,        \* unavailableSince is null
    Grace,        \* OFFLINE_GRACE_MS, in ticks
    MaxTroubles   \* bound on failing queries and statements, lost connections,
                  \* edits, shutdowns and crashes together

ASSUME SiteAssumption == SiteOf \in [Machine -> Site]
ASSUME NullAssumption == NoMachine \notin Machine /\ NoAge \notin Nat
ASSUME BoundAssumption == Grace \in Nat /\ Grace > 0 /\ MaxTroubles \in Nat

VARIABLES
    status,     \* of the process: "up", "stopping" or "down"
    link,       \* link[s]: "up", "lost" until the reconnect timer fires, or
                \* "dead": no timer is left
    available,  \* the machines whose plugs their site can reach
    row,        \* row[m]: "watched", "unwatched" (not commissioned, or mapped to
                \* a ThinQ device) or "deleted"
    states,     \* states[m]: isOnline and unavailableSince; no entry is Fresh
    check,      \* the refresh under way
    missing,    \* history: age of the first of the visits that have found m
                \* missing since it was last recorded online
    told,       \* history: the machines alerted since then
    troubles    \* how many there have been

worldVars == <<link, available, row>>
historyVars == <<missing, told>>
vars == <<status, worldVars, states, check, historyVars, troubles>>

-----------------------------------------------------------------------------
(* States and visits *)

Age == 0..Grace \cup {NoAge}
\* A machine is offline only after the grace period.
State == {st \in [online: {"unknown", "online", "offline"}, since: Age] :
            st.online = "offline" => st.since = Grace}
Fresh == [online |-> "unknown", since |-> NoAge]

Check == [pc: {"idle", "sites", "visit", "recheck", "notify"},
          pending: SUBSET Site, answered: SUBSET Site, present: SUBSET Machine,
          monitored: SUBSET Machine, todo: SUBSET Machine,
          machine: Machine \cup {NoMachine}, state: State]
NoCheck == [pc |-> "idle", pending |-> {}, answered |-> {}, present |-> {},
            monitored |-> {}, todo |-> {}, machine |-> NoMachine, state |-> Fresh]

Trouble ==
    /\ troubles < MaxTroubles
    /\ troubles' = troubles + 1

\* Age a one tick later.
Older(a) == IF a = NoAge \/ a = Grace THEN a ELSE a + 1

\* Mutant: each check that misses the machine starts the grace period.
SinceNow(st) == 0

\* unavailableSince ??= now
Since(st) == IF st.since = NoAge THEN 0 ELSE st.since

\* Mutant: only a machine that was online is given the grace period.
ObservedAtOnce(st, present) ==
    IF present
    THEN [online |-> "online", since |-> NoAge]
    ELSE [online |-> IF Since(st) = Grace \/ st.online = "unknown" THEN "offline"
                     ELSE st.online,
          since |-> Since(st)]

\* The new state of a machine whose site has answered.
Observed(st, present) ==
    IF present
    THEN [online |-> "online", since |-> NoAge]
    ELSE [online |-> IF Since(st) = Grace THEN "offline" ELSE st.online,
          since |-> Since(st)]

\* What the clients see: get().
Shown(m) == IF row[m] = "watched" THEN states[m].online ELSE "unknown"

-----------------------------------------------------------------------------
(* check and refresh *)

\* The timer fires and no refresh is under way: the connected sites are asked.
CheckBegins ==
    /\ status = "up"
    /\ check.pc = "idle"
    /\ check' = [NoCheck EXCEPT !.pc = "sites",
                                !.pending = {s \in Site : link[s] = "up"}]
    /\ UNCHANGED <<status, worldVars, states, historyVars, troubles>>

\* Site s answers with the nodes it can reach.
SiteAnswers(s) ==
    /\ check.pc = "sites"
    /\ s \in check.pending
    /\ link[s] = "up"
    /\ check' = [check EXCEPT !.pending = @ \ {s},
                              !.answered = @ \cup {s},
                              !.present = @ \cup {m \in available : SiteOf[m] = s}]
    /\ UNCHANGED <<status, worldVars, states, historyVars, troubles>>

\* Its connection is lost, or the query fails or times out: it is left out.
SiteSilent(s) ==
    /\ check.pc = "sites"
    /\ s \in check.pending
    /\ \/ link[s] # "up" /\ UNCHANGED troubles
       \/ link[s] = "up" /\ Trouble
    /\ check' = [check EXCEPT !.pending = @ \ {s}]
    /\ UNCHANGED <<status, worldVars, states, historyVars>>

\* getMachines, "after network I/O": the machines to visit.
List ==
    /\ check.pc = "sites"
    /\ check.pending = {}
    /\ LET watched == {m \in Machine : row[m] = "watched"} IN
       check' = IF status = "up"
                THEN [check EXCEPT !.pc = "visit", !.monitored = watched,
                                   !.todo = watched]
                ELSE NoCheck
    /\ UNCHANGED <<status, worldVars, states, historyVars, troubles>>

ListFails ==
    /\ check.pc = "sites"
    /\ check.pending = {}
    /\ Trouble
    /\ check' = NoCheck
    /\ UNCHANGED <<status, worldVars, states, historyVars>>

\* Mutant: a site that is left out counts as one without nodes.
HeardAnyway(m) == TRUE

\* "Missing sites indicate a failed query, not confirmed device unavailability."
Heard(m) == SiteOf[m] \in check.answered

Pass(m) ==
    /\ check.pc = "visit"
    /\ m \in check.todo
    /\ ~ Heard(m)
    /\ check' = [check EXCEPT !.todo = @ \ {m}]
    /\ UNCHANGED <<status, worldVars, states, historyVars, troubles>>

\* The loop's step for machine m: a state whose isOnline is as before is stored
\* at once, another one after the machine is read again.
Visit(m) ==
    LET present == m \in check.present
        next == Observed(states[m], present)
        same == next.online = states[m].online IN
    /\ check.pc = "visit"
    /\ m \in check.todo
    /\ Heard(m)
    /\ check' = IF same
                THEN [check EXCEPT !.todo = @ \ {m}]
                ELSE [check EXCEPT !.todo = @ \ {m}, !.pc = "recheck",
                                   !.machine = m, !.state = next]
    /\ states' = [states EXCEPT ![m] = IF same THEN next ELSE @]
    /\ missing' = [missing EXCEPT ![m] =
                     CASE SiteOf[m] \notin check.answered -> @
                       [] present -> IF same THEN NoAge ELSE @
                       [] OTHER -> IF @ = NoAge THEN 0 ELSE @]
    /\ UNCHANGED <<status, worldVars, told, troubles>>

\* "A deletion during this check must not generate a connectivity alert."
RecheckGone ==
    LET m == check.machine IN
    /\ check.pc = "recheck"
    /\ row[m] = "deleted"
    /\ check' = [check EXCEPT !.pc = "visit", !.machine = NoMachine, !.state = Fresh]
    /\ states' = [states EXCEPT ![m] = Fresh]
    /\ missing' = [missing EXCEPT ![m] = NoAge]
    /\ told' = told \ {m}
    /\ UNCHANGED <<status, worldVars, troubles>>

\* The machine is still there: the state is stored, and an outage is alerted.
Recheck ==
    LET m == check.machine IN
    /\ check.pc = "recheck"
    /\ row[m] # "deleted"
    /\ status = "up"
    /\ states' = [states EXCEPT ![m] = check.state]
    /\ \/ /\ check.state.online = "offline"
          /\ check' = [check EXCEPT !.pc = "notify"]
          /\ told' = told \cup {m}
          /\ UNCHANGED missing
       \/ /\ check.state.online # "offline"
          /\ check' = [check EXCEPT !.pc = "visit", !.machine = NoMachine,
                                    !.state = Fresh]
          /\ told' = told \ {m}
          /\ missing' = [missing EXCEPT ![m] = NoAge]
    /\ UNCHANGED <<status, worldVars, troubles>>

\* It cannot be read, or the process is stopping: the refresh ends here.
RecheckAborts ==
    /\ check.pc = "recheck"
    /\ \/ Trouble
       \/ row[check.machine] # "deleted" /\ status # "up" /\ UNCHANGED troubles
    /\ check' = NoCheck
    /\ UNCHANGED <<status, worldVars, states, historyVars>>

\* notifyMachineOffline is over; a failure is logged.
Notified ==
    /\ check.pc = "notify"
    /\ check' = [check EXCEPT !.pc = "visit", !.machine = NoMachine, !.state = Fresh]
    /\ UNCHANGED <<status, worldVars, states, historyVars, troubles>>

\* The states of machines that are not monitored are dropped.
CheckEnds ==
    LET dropped == Machine \ check.monitored IN
    /\ check.pc = "visit"
    /\ check.todo = {}
    /\ check' = NoCheck
    /\ states' = [m \in Machine |-> IF m \in dropped THEN Fresh ELSE states[m]]
    /\ missing' = [m \in Machine |-> IF m \in dropped THEN NoAge ELSE missing[m]]
    /\ told' = told \ dropped
    /\ UNCHANGED <<status, worldVars, troubles>>

Tick ==
    /\ states' = [m \in Machine |-> [states[m] EXCEPT !.since = Older(@)]]
    /\ check' = [check EXCEPT !.state.since = Older(@)]
    /\ missing' = [m \in Machine |-> Older(missing[m])]
    /\ UNCHANGED <<status, worldVars, told, troubles>>

-----------------------------------------------------------------------------
(* Shutdown and restart, sites, plugs and administrators *)

StopBegins ==
    /\ status = "up"
    /\ Trouble
    /\ status' = "stopping"
    /\ UNCHANGED <<worldVars, states, check, historyVars>>

\* onModuleDestroy goes on once the refresh under way is over.
StopEnds ==
    /\ status = "stopping"
    /\ check.pc = "idle"
    /\ status' = "down"
    /\ states' = [m \in Machine |-> Fresh]
    /\ missing' = [m \in Machine |-> NoAge]
    /\ told' = {}
    /\ UNCHANGED <<worldVars, check, troubles>>

\* A new process, after a shutdown or a crash; it starts only when every site can
\* be reached.
Restart ==
    /\ \/ status = "down" /\ UNCHANGED troubles
       \/ status # "down" /\ Trouble
    /\ status' = "up"
    /\ link' = [s \in Site |-> "up"]
    /\ states' = [m \in Machine |-> Fresh]
    /\ check' = NoCheck
    /\ missing' = [m \in Machine |-> NoAge]
    /\ told' = {}
    /\ UNCHANGED <<available, row>>

\* "connection_lost" of site s, which sets the reconnect timer.
ConnectionLost(s) ==
    /\ link[s] = "up"
    /\ Trouble
    /\ link' = [link EXCEPT ![s] = "lost"]
    /\ UNCHANGED <<status, available, row, states, check, historyVars>>

\* The timer fires.
Reconnected(s) ==
    /\ status = "up"
    /\ link[s] = "lost"
    /\ link' = [link EXCEPT ![s] = "up"]
    /\ UNCHANGED <<status, available, row, states, check, historyVars, troubles>>

\* The one attempt fails: the error is printed and nothing else happens.
ReconnectFails(s) ==
    /\ status = "up"
    /\ link[s] = "lost"
    /\ Trouble
    /\ link' = [link EXCEPT ![s] = "dead"]
    /\ UNCHANGED <<status, available, row, states, check, historyVars>>

\* A plug goes out of reach, or comes back.
PlugChanges(m) ==
    /\ available' = IF m \in available THEN available \ {m} ELSE available \cup {m}
    /\ UNCHANGED <<status, link, row, states, check, historyVars, troubles>>

\* Machine m is commissioned, mapped to a ThinQ device or no longer, or deleted.
Edit(m) ==
    /\ row[m] # "deleted"
    /\ Trouble
    /\ \E r \in {"watched", "unwatched", "deleted"} \ {row[m]} :
         row' = [row EXCEPT ![m] = r]
    /\ UNCHANGED <<status, link, available, states, check, historyVars>>

-----------------------------------------------------------------------------
(* Specification *)

Init ==
    /\ status = "up"
    /\ link = [s \in Site |-> "up"]
    /\ available \in SUBSET Machine
    /\ row \in [Machine -> {"watched", "unwatched"}]
    /\ states = [m \in Machine |-> Fresh]
    /\ check = NoCheck
    /\ missing = [m \in Machine |-> NoAge]
    /\ told = {}
    /\ troubles = 0

RefreshStep ==
    \/ \E s \in Site : SiteAnswers(s) \/ SiteSilent(s)
    \/ List
    \/ ListFails
    \/ \E m \in Machine : Pass(m) \/ Visit(m)
    \/ RecheckGone
    \/ Recheck
    \/ RecheckAborts
    \/ Notified
    \/ CheckEnds

Next ==
    \/ CheckBegins
    \/ RefreshStep
    \/ Tick
    \/ StopBegins
    \/ StopEnds
    \/ Restart
    \/ \E s \in Site : ConnectionLost(s) \/ Reconnected(s) \/ ReconnectFails(s)
    \/ \E m \in Machine : PlugChanges(m) \/ Edit(m)

Spec == Init /\ [][Next]_vars

\* Queries are answered or time out, the refresh goes on, its timer fires, time
\* passes and the reconnect timers fire.
Fairness ==
    /\ WF_vars(CheckBegins)
    /\ WF_vars(RefreshStep)
    /\ WF_vars(Tick)
    /\ \A s \in Site : WF_vars(Reconnected(s) \/ ReconnectFails(s))

FairSpec == Spec /\ Fairness

-----------------------------------------------------------------------------
(* Properties *)

\* Every variable has its type; in particular no state says offline, neither one that
\* is stored nor one that waits for the re-check, before its outage has lasted for
\* the grace period.
TypeOK ==
    /\ status \in {"up", "stopping", "down"}
    /\ link \in [Site -> {"up", "lost", "dead"}]
    /\ available \in SUBSET Machine
    /\ row \in [Machine -> {"watched", "unwatched", "deleted"}]
    /\ states \in [Machine -> State]
    /\ check \in Check
    /\ check.pc \in {"recheck", "notify"} => check.machine \in Machine
    /\ missing \in [Machine -> Age]
    /\ told \in SUBSET Machine
    /\ troubles \in 0..MaxTroubles

\* "debounces unavailability for 60 seconds, sends one alert"
\* (machine-connectivity.service.spec.ts): an alert about a machine goes out only
\* when, for the whole grace period, every answer of its site that was acted on
\* lacked the machine, only once in that time, and not from a stopping process.
AlertJustified ==
    [][\A m \in Machine :
         check.pc = "recheck" /\ check'.pc = "notify" /\ check.machine = m
            => missing[m] = Grace /\ m \notin told /\ status = "up"]_vars

\* A machine that stays out of reach of a site that stays connected is shown
\* offline and its administrators are told; one that stays in reach is shown
\* online, whatever checks fail on the way.
ConnectivityIsShown ==
    \A m \in Machine :
        LET settled == status = "up" /\ row[m] = "watched" /\ link[SiteOf[m]] = "up"
        IN /\ <>[](settled /\ m \in available) => <>[](Shown(m) = "online")
           /\ <>[](settled /\ m \notin available)
                 => <>[](Shown(m) = "offline" /\ m \in told)
=============================================================================
