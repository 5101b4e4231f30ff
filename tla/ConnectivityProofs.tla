------------------------- MODULE ConnectivityProofs -------------------------
(* Proofs about Connectivity: the type invariant, and that an alert that a      *)
(* machine is offline is justified.                                             *)
EXTENDS Connectivity, TLAPS

-----------------------------------------------------------------------------
(* Ages and states *)

LEMMA OlderAge ==
    ASSUME NEW a \in Age
    PROVE  /\ Older(a) \in Age
           /\ Older(a) = NoAge <=> a = NoAge
  BY BoundAssumption, NullAssumption DEF Older, Age

\* An outage that has lasted for the grace period goes on.
LEMMA OlderState ==
    ASSUME NEW st \in State
    PROVE  [st EXCEPT !.since = Older(@)] \in State
  <1>1. st.online = "offline" => Older(st.since) = Grace
    BY DEF State, Older
  <1>2. QED
    BY <1>1, OlderAge DEF State

\* No age overtakes an older one.
LEMMA OlderOrder ==
    ASSUME NEW a \in Age \ {NoAge}, NEW b \in Age \ {NoAge}, a <= b
    PROVE  Older(a) <= Older(b)
  BY BoundAssumption, NullAssumption DEF Older, Age

LEMMA FreshState == Fresh \in State /\ Fresh.since = NoAge /\ Fresh.online = "unknown"
  BY DEF Fresh, State, Age

LEMMA NoCheckType == NoCheck \in Check /\ NoCheck.pc = "idle"
  BY FreshState DEF NoCheck, Check

\* What a visit observes is a state, and an outage is as old as the grace period.
LEMMA ObservedState ==
    ASSUME NEW st \in State, NEW present \in BOOLEAN
    PROVE  /\ Observed(st, present) \in State
           /\ present => Observed(st, present).online = "online"
                         /\ Observed(st, present).since = NoAge
           /\ ~ present => Observed(st, present).since = Since(st)
           /\ ~ present /\ Observed(st, present).online # st.online
                => Observed(st, present).online = "offline" /\ st.since = Grace
  <1>1. Since(st) \in Age /\ Since(st) \in 0..Grace
    BY BoundAssumption, NullAssumption DEF Since, Age, State
  <1>2. Since(st) = Grace => st.since = Grace
    BY BoundAssumption, NullAssumption DEF Since, Age, State
  <1>3. CASE present
    BY <1>3 DEF Observed, State, Age
  <1>4. CASE ~ present
    <2>1. st.online = "offline" => Since(st) = Grace
      BY BoundAssumption, NullAssumption DEF Since, State
    <2>2. Observed(st, present) \in State
      BY <1>1, <1>4, <2>1 DEF Observed, State
    <2>3. QED
      BY <1>2, <1>4, <2>2 DEF Observed
  <1>5. QED
    BY <1>3, <1>4

-----------------------------------------------------------------------------
(* Type correctness *)

LEMMA InitType == Init => TypeOK
  BY FreshState, NoCheckType, BoundAssumption DEF Init, TypeOK, Age

LEMMA TroubleType == troubles \in 0..MaxTroubles /\ Trouble => troubles' \in 0..MaxTroubles
  BY BoundAssumption DEF Trouble

\* The steps between the timer and the loop over the machines.
LEMMA QueryType ==
    TypeOK /\ (\/ CheckBegins
               \/ \E s \in Site : SiteAnswers(s) \/ SiteSilent(s)
               \/ List
               \/ ListFails)
    => TypeOK'
  <1> SUFFICES ASSUME TypeOK,
                      \/ CheckBegins
                      \/ \E s \in Site : SiteAnswers(s) \/ SiteSilent(s)
                      \/ List
                      \/ ListFails
               PROVE  TypeOK'
    OBVIOUS
  <1>1. CASE CheckBegins
    BY <1>1, NoCheckType DEF CheckBegins, TypeOK, worldVars, historyVars, NoCheck, Check
  <1>2. ASSUME NEW s \in Site, SiteAnswers(s) PROVE TypeOK'
    <2>1. check' \in Check /\ check'.pc = "sites"
      BY <1>2 DEF SiteAnswers, TypeOK, Check
    <2>2. QED
      BY <1>2, <2>1 DEF SiteAnswers, TypeOK, worldVars, historyVars
  <1>3. ASSUME NEW s \in Site, SiteSilent(s) PROVE TypeOK'
    <2>1. check' \in Check /\ check'.pc = "sites"
      BY <1>3 DEF SiteSilent, TypeOK, Check
    <2>2. troubles' \in 0..MaxTroubles
      BY <1>3, TroubleType DEF SiteSilent, TypeOK
    <2>3. QED
      BY <1>3, <2>1, <2>2 DEF SiteSilent, TypeOK, worldVars, historyVars
  <1>4. CASE List
    <2>1. check' \in Check /\ check'.pc \in {"idle", "visit"}
      BY <1>4, NoCheckType DEF List, TypeOK, Check
    <2>2. QED
      BY <1>4, <2>1 DEF List, TypeOK, worldVars, historyVars
  <1>5. CASE ListFails
    BY <1>5, NoCheckType, TroubleType DEF ListFails, TypeOK, worldVars, historyVars
  <1>6. QED
    BY <1>1, <1>2, <1>3, <1>4, <1>5

LEMMA VisitType ==
    ASSUME TypeOK, NEW m \in Machine, Visit(m)
    PROVE  TypeOK'
  <1> DEFINE present == m \in check.present
             next == Observed(states[m], present)
  <1>1. next \in State
    <2>1. states[m] \in State /\ present \in BOOLEAN
      BY DEF TypeOK
    <2>2. QED
      BY <2>1, ObservedState
  <1>2. check' \in Check /\ (check'.pc \in {"recheck", "notify"} => check'.machine \in Machine)
    BY <1>1 DEF Visit, TypeOK, Check
  <1>3. states' \in [Machine -> State]
    BY <1>1 DEF Visit, TypeOK
  <1>4. missing' \in [Machine -> Age]
    BY BoundAssumption DEF Visit, TypeOK, Age
  <1>5. QED
    BY <1>2, <1>3, <1>4 DEF Visit, TypeOK, worldVars

\* The other steps of the loop.
LEMMA LoopType ==
    TypeOK /\ (\/ \E m \in Machine : Pass(m)
               \/ RecheckGone
               \/ Recheck
               \/ RecheckAborts
               \/ Notified
               \/ CheckEnds)
    => TypeOK'
  <1> SUFFICES ASSUME TypeOK,
                      \/ \E m \in Machine : Pass(m)
                      \/ RecheckGone
                      \/ Recheck
                      \/ RecheckAborts
                      \/ Notified
                      \/ CheckEnds
               PROVE  TypeOK'
    OBVIOUS
  <1>1. ASSUME NEW m \in Machine, Pass(m) PROVE TypeOK'
    <2>1. check' \in Check /\ check'.pc = "visit"
      BY <1>1 DEF Pass, TypeOK, Check
    <2>2. QED
      BY <1>1, <2>1 DEF Pass, TypeOK, worldVars, historyVars
  <1>2. CASE RecheckGone
    <2>1. check' \in Check /\ check'.pc = "visit"
      BY <1>2, FreshState DEF RecheckGone, TypeOK, Check
    <2>2. states' \in [Machine -> State] /\ missing' \in [Machine -> Age]
      BY <1>2, FreshState DEF RecheckGone, TypeOK, Age
    <2>3. QED
      BY <1>2, <2>1, <2>2 DEF RecheckGone, TypeOK, worldVars
  <1>3. CASE Recheck
    <2>1. check.machine \in Machine /\ check.state \in State
      BY <1>3 DEF Recheck, TypeOK, Check
    <2>2. check' \in Check /\ (check'.pc \in {"recheck", "notify"} => check'.machine \in Machine)
      BY <1>3, <2>1, FreshState DEF Recheck, TypeOK, Check
    <2>3. states' \in [Machine -> State] /\ missing' \in [Machine -> Age]
      BY <1>3, <2>1 DEF Recheck, TypeOK, Age
    <2>4. told' \in SUBSET Machine
      BY <1>3, <2>1 DEF Recheck, TypeOK
    <2>5. QED
      BY <1>3, <2>2, <2>3, <2>4 DEF Recheck, TypeOK, worldVars
  <1>4. CASE RecheckAborts
    BY <1>4, NoCheckType, TroubleType DEF RecheckAborts, TypeOK, worldVars, historyVars
  <1>5. CASE Notified
    <2>1. check' \in Check /\ check'.pc = "visit"
      BY <1>5, FreshState DEF Notified, TypeOK, Check
    <2>2. QED
      BY <1>5, <2>1 DEF Notified, TypeOK, worldVars, historyVars
  <1>6. CASE CheckEnds
    <2>1. states' \in [Machine -> State] /\ missing' \in [Machine -> Age]
      BY <1>6, FreshState DEF CheckEnds, TypeOK, Age
    <2>2. QED
      BY <1>6, <2>1, NoCheckType DEF CheckEnds, TypeOK, worldVars
  <1>7. QED
    BY <1>1, <1>2, <1>3, <1>4, <1>5, <1>6

LEMMA TickType == TypeOK /\ Tick => TypeOK'
  <1> SUFFICES ASSUME TypeOK, Tick PROVE TypeOK'
    OBVIOUS
  <1>1. states' \in [Machine -> State]
    <2>1. \A m \in Machine : [states[m] EXCEPT !.since = Older(@)] \in State
      BY OlderState DEF TypeOK
    <2>2. QED
      BY <2>1 DEF Tick
  <1>2. missing' \in [Machine -> Age]
    BY OlderAge DEF Tick, TypeOK
  <1>3. check' \in Check /\ check'.pc = check.pc /\ check'.machine = check.machine
    <2>1. [check.state EXCEPT !.since = Older(@)] \in State
      BY OlderState DEF TypeOK, Check
    <2>2. QED
      BY <2>1 DEF Tick, TypeOK, Check
  <1>4. QED
    BY <1>1, <1>2, <1>3 DEF Tick, TypeOK, worldVars

\* Shutdown, restart, and what happens outside.
LEMMA WorldType ==
    TypeOK /\ (\/ StopBegins \/ StopEnds \/ Restart
               \/ \E s \in Site : ConnectionLost(s) \/ Reconnected(s) \/ ReconnectFails(s)
               \/ \E m \in Machine : PlugChanges(m) \/ Edit(m))
    => TypeOK'
  <1> SUFFICES ASSUME TypeOK,
                      \/ StopBegins \/ StopEnds \/ Restart
                      \/ \E s \in Site :
                           ConnectionLost(s) \/ Reconnected(s) \/ ReconnectFails(s)
                      \/ \E m \in Machine : PlugChanges(m) \/ Edit(m)
               PROVE  TypeOK'
    OBVIOUS
  <1>1. CASE StopBegins
    BY <1>1, TroubleType DEF StopBegins, TypeOK, worldVars, historyVars
  <1>2. CASE StopEnds
    BY <1>2, FreshState DEF StopEnds, TypeOK, worldVars, Age
  <1>3. CASE Restart
    <2>1. troubles' \in 0..MaxTroubles
      BY <1>3, TroubleType DEF Restart, TypeOK
    <2>2. QED
      BY <1>3, <2>1, FreshState, NoCheckType DEF Restart, TypeOK, Age
  <1>4. ASSUME NEW s \in Site, ConnectionLost(s) \/ Reconnected(s) \/ ReconnectFails(s)
        PROVE  TypeOK'
    BY <1>4, TroubleType
       DEF ConnectionLost, Reconnected, ReconnectFails, TypeOK, historyVars
  <1>5. ASSUME NEW m \in Machine, PlugChanges(m) \/ Edit(m) PROVE TypeOK'
    BY <1>5, TroubleType DEF PlugChanges, Edit, TypeOK, historyVars
  <1>6. QED
    BY <1>1, <1>2, <1>3, <1>4, <1>5

LEMMA NextType == TypeOK /\ [Next]_vars => TypeOK'
  <1>1. TypeOK /\ UNCHANGED vars => TypeOK'
    BY DEF TypeOK, vars, worldVars, historyVars
  <1>2. QED
    BY <1>1, QueryType, VisitType, LoopType, TickType, WorldType DEF Next, RefreshStep

\* Every reachable state is well typed, and no state says offline before its outage
\* has lasted for the grace period, for any machines, sites, grace period and number
\* of troubles.
THEOREM TypeCorrect == Spec => []TypeOK
  BY InitType, NextType, PTL DEF Spec

-----------------------------------------------------------------------------
(* Alerts *)

\* An unavailableSince is no older than the visits that found the machine missing.
SinceInv ==
    \A m \in Machine :
        states[m].since # NoAge =>
            /\ missing[m] # NoAge
            /\ states[m].since <= missing[m]

\* Whoever was alerted is recorded offline.
ToldInv == \A m \in told : states[m].online = "offline"

\* The machine that is read again has changed, and to offline only after the
\* grace period.
RecheckInv ==
    check.pc = "recheck" =>
        /\ check.state.online # states[check.machine].online
        /\ check.state.online = "offline" => missing[check.machine] = Grace
        /\ check.state.online # "offline" => check.state.since = NoAge

AlertInv == SinceInv /\ ToldInv /\ RecheckInv

LEMMA InitAlert == Init => AlertInv
  BY FreshState, NoCheckType DEF Init, AlertInv, SinceInv, ToldInv, RecheckInv

\* Steps that leave the states and the machine in hand alone.
LEMMA AsideAlert ==
    ASSUME AlertInv, UNCHANGED <<states, missing, told>>,
           check'.pc = "recheck" => UNCHANGED check
    PROVE  AlertInv'
  BY DEF AlertInv, SinceInv, ToldInv, RecheckInv

LEMMA VisitAlert ==
    ASSUME TypeOK, AlertInv, NEW m \in Machine, Visit(m)
    PROVE  AlertInv'
  <1> DEFINE present == m \in check.present
             next == Observed(states[m], present)
             same == next.online = states[m].online
  <1>1. states[m] \in State /\ missing[m] \in Age /\ present \in BOOLEAN
    BY DEF TypeOK
  <1>2. SiteOf[m] \in check.answered
    BY DEF Visit, Heard
  <1>3. \A k \in Machine \ {m} : states'[k] = states[k] /\ missing'[k] = missing[k]
    BY DEF Visit, TypeOK
  <1>4. states'[m] = IF same THEN next ELSE states[m]
    BY DEF Visit, TypeOK
  <1>5. missing'[m] = IF present THEN (IF same THEN NoAge ELSE missing[m])
                      ELSE IF missing[m] = NoAge THEN 0 ELSE missing[m]
    BY <1>2 DEF Visit, TypeOK
  <1>6. /\ next \in State
        /\ present => next.online = "online" /\ next.since = NoAge
        /\ ~ present => next.since = Since(states[m])
        /\ ~ present /\ ~ same => next.online = "offline" /\ states[m].since = Grace
    BY <1>1, ObservedState
  <1>7. SinceInv'
    <2>1. ASSUME states'[m].since # NoAge
          PROVE  missing'[m] # NoAge /\ states'[m].since <= missing'[m]
      <3>1. states[m].since # NoAge =>
                missing[m] # NoAge /\ states[m].since <= missing[m]
        BY DEF AlertInv, SinceInv
      <3>2. CASE present
        BY <2>1, <1>4, <1>5, <1>6, <3>1, <3>2
      <3>3. CASE ~ present
        BY <2>1, <1>1, <1>4, <1>5, <1>6, <3>1, <3>3, NullAssumption, BoundAssumption
           DEF Since, Age, State
      <3>4. QED
        BY <3>2, <3>3
    <2>2. QED
      BY <2>1, <1>3 DEF SinceInv, AlertInv
  <1>8. ToldInv'
    BY <1>3, <1>4 DEF Visit, ToldInv, AlertInv, TypeOK
  <1>9. RecheckInv'
    <2>1. SUFFICES ASSUME check'.pc = "recheck" PROVE RecheckInv'
      BY DEF RecheckInv
    <2>2. ~ same /\ check'.machine = m /\ check'.state = next
      BY <2>1 DEF Visit, TypeOK, Check
    <2>3. states'[m] = states[m]
      BY <1>4, <2>2
    <2>4. next.online = "offline" => missing'[m] = Grace
      <3>1. SUFFICES ASSUME next.online = "offline" PROVE missing'[m] = Grace
        OBVIOUS
      <3>2. ~ present /\ states[m].since = Grace
        BY <3>1, <2>2, <1>6
      <3>3. missing[m] # NoAge /\ Grace <= missing[m]
        BY <3>2, NullAssumption, BoundAssumption DEF AlertInv, SinceInv
      <3>4. missing[m] = Grace
        BY <3>3, <1>1, BoundAssumption DEF Age
      <3>5. QED
        BY <3>2, <3>4, <1>5, NullAssumption, BoundAssumption
    <2>5. next.online # "offline" => next.since = NoAge
      BY <1>6, <2>2
    <2>6. QED
      BY <2>2, <2>3, <2>4, <2>5 DEF RecheckInv
  <1>10. QED
    BY <1>7, <1>8, <1>9 DEF AlertInv

LEMMA RecheckAlert == TypeOK /\ AlertInv /\ Recheck => AlertInv'
  <1> SUFFICES ASSUME TypeOK, AlertInv, Recheck PROVE AlertInv'
    OBVIOUS
  <1> DEFINE m == check.machine
  <1>1. m \in Machine /\ check.state \in State
    BY DEF Recheck, TypeOK, Check
  <1>2. states'[m] = check.state /\ \A k \in Machine \ {m} : states'[k] = states[k]
    BY <1>1 DEF Recheck, TypeOK
  <1>3. check'.pc # "recheck"
    BY DEF Recheck, TypeOK, Check
  <1>4. CASE check.state.online = "offline"
    <2>1. missing' = missing /\ missing[m] = Grace /\ told' = told \cup {m}
      BY <1>4 DEF Recheck, AlertInv, RecheckInv
    <2>2. check.state.since # NoAge => check.state.since <= Grace
      BY <1>1, BoundAssumption DEF State, Age
    <2>3. SinceInv'
      BY <1>1, <1>2, <2>1, <2>2, NullAssumption, BoundAssumption DEF AlertInv, SinceInv
    <2>4. ToldInv'
      BY <1>1, <1>2, <1>4, <2>1 DEF AlertInv, ToldInv, TypeOK
    <2>5. QED
      BY <1>3, <2>3, <2>4 DEF AlertInv, RecheckInv
  <1>5. CASE check.state.online # "offline"
    <2>1. /\ missing' = [missing EXCEPT ![m] = NoAge]
          /\ told' = told \ {m}
          /\ check.state.since = NoAge
      BY <1>5 DEF Recheck, AlertInv, RecheckInv
    <2>2. SinceInv'
      BY <1>1, <1>2, <2>1 DEF AlertInv, SinceInv, TypeOK
    <2>3. ToldInv'
      BY <1>1, <1>2, <2>1 DEF AlertInv, ToldInv, TypeOK
    <2>4. QED
      BY <1>3, <2>2, <2>3 DEF AlertInv, RecheckInv
  <1>6. QED
    BY <1>4, <1>5

\* The steps that forget states forget what was said of them.
LEMMA ForgetAlert ==
    TypeOK /\ AlertInv /\ (RecheckGone \/ CheckEnds \/ StopEnds \/ Restart) => AlertInv'
  <1> SUFFICES ASSUME TypeOK, AlertInv, RecheckGone \/ CheckEnds \/ StopEnds \/ Restart
               PROVE  AlertInv'
    OBVIOUS
  <1>1. CASE RecheckGone
    BY <1>1, FreshState
       DEF RecheckGone, TypeOK, Check, AlertInv, SinceInv, ToldInv, RecheckInv
  <1>2. CASE CheckEnds
    BY <1>2, FreshState, NoCheckType
       DEF CheckEnds, TypeOK, AlertInv, SinceInv, ToldInv, RecheckInv
  <1>3. CASE StopEnds
    BY <1>3, FreshState DEF StopEnds, AlertInv, SinceInv, ToldInv, RecheckInv
  <1>4. CASE Restart
    BY <1>4, FreshState, NoCheckType
       DEF Restart, AlertInv, SinceInv, ToldInv, RecheckInv
  <1>5. QED
    BY <1>1, <1>2, <1>3, <1>4

LEMMA TickAlert == TypeOK /\ AlertInv /\ Tick => AlertInv'
  <1> SUFFICES ASSUME TypeOK, AlertInv, Tick PROVE AlertInv'
    OBVIOUS
  <1>1. \A m \in Machine : /\ states'[m].online = states[m].online
                           /\ states'[m].since = Older(states[m].since)
                           /\ missing'[m] = Older(missing[m])
                           /\ states[m].since \in Age
                           /\ missing[m] \in Age
    BY DEF Tick, TypeOK, State
  <1>2. SinceInv'
    <2>1. SUFFICES ASSUME NEW m \in Machine, states'[m].since # NoAge
                   PROVE  missing'[m] # NoAge /\ states'[m].since <= missing'[m]
      BY DEF SinceInv
    <2>2. states[m].since # NoAge
      BY <1>1, <2>1, OlderAge
    <2>3. missing[m] # NoAge /\ states[m].since <= missing[m]
      BY <2>2 DEF AlertInv, SinceInv
    <2>4. QED
      BY <1>1, <2>2, <2>3, OlderAge, OlderOrder
  <1>3. ToldInv'
    BY <1>1 DEF Tick, AlertInv, ToldInv, TypeOK
  <1>4. /\ check'.pc = check.pc
        /\ check'.machine = check.machine
        /\ check'.state.online = check.state.online
        /\ check'.state.since = Older(check.state.since)
    BY DEF Tick, TypeOK, Check, State
  <1>5. Older(Grace) = Grace /\ Older(NoAge) = NoAge
    BY DEF Older
  <1>6. RecheckInv'
    <2>1. check.pc = "recheck" => check.machine \in Machine
      BY DEF TypeOK
    <2>2. QED
      BY <1>1, <1>4, <1>5, <2>1 DEF AlertInv, RecheckInv
  <1>7. QED
    BY <1>2, <1>3, <1>6 DEF AlertInv

LEMMA NextAlert == TypeOK /\ AlertInv /\ [Next]_vars => AlertInv'
  <1> SUFFICES ASSUME TypeOK, AlertInv, [Next]_vars PROVE AlertInv'
    OBVIOUS
  <1>1. CASE CheckBegins \/ List \/ ListFails
    <2>1. UNCHANGED <<states, missing, told>> /\ check'.pc # "recheck"
      BY <1>1, NoCheckType DEF CheckBegins, List, ListFails, historyVars, TypeOK, Check,
                               NoCheck
    <2>2. QED
      BY <2>1, AsideAlert
  <1>2. ASSUME NEW s \in Site, SiteAnswers(s) \/ SiteSilent(s) PROVE AlertInv'
    <2>1. UNCHANGED <<states, missing, told>> /\ check'.pc # "recheck"
      BY <1>2 DEF SiteAnswers, SiteSilent, historyVars, TypeOK, Check
    <2>2. QED
      BY <2>1, AsideAlert
  <1>3. ASSUME NEW m \in Machine, Pass(m) PROVE AlertInv'
    <2>1. UNCHANGED <<states, missing, told>> /\ check'.pc # "recheck"
      BY <1>3 DEF Pass, historyVars, TypeOK, Check
    <2>2. QED
      BY <2>1, AsideAlert
  <1>4. CASE RecheckAborts \/ Notified
    <2>1. UNCHANGED <<states, missing, told>> /\ check'.pc # "recheck"
      BY <1>4, NoCheckType DEF RecheckAborts, Notified, historyVars, TypeOK, Check
    <2>2. QED
      BY <2>1, AsideAlert
  <1>5. CASE StopBegins \/ UNCHANGED vars
    BY <1>5, AsideAlert DEF StopBegins, vars, historyVars
  <1>6. ASSUME NEW s \in Site, ConnectionLost(s) \/ Reconnected(s) \/ ReconnectFails(s)
        PROVE  AlertInv'
    BY <1>6, AsideAlert DEF ConnectionLost, Reconnected, ReconnectFails, historyVars
  <1>7. ASSUME NEW m \in Machine, PlugChanges(m) \/ Edit(m) PROVE AlertInv'
    BY <1>7, AsideAlert DEF PlugChanges, Edit, historyVars
  <1>8. QED
    BY <1>1, <1>2, <1>3, <1>4, <1>5, <1>6, <1>7, VisitAlert, RecheckAlert, ForgetAlert,
       TickAlert DEF Next, RefreshStep

LEMMA OnlyRecheckAlerts ==
    ASSUME TypeOK, [Next]_vars, check.pc = "recheck", check'.pc = "notify"
    PROVE  Recheck /\ check.state.online = "offline"
  <1>1. CASE \E m \in Machine : Pass(m) \/ Visit(m) \/ PlugChanges(m) \/ Edit(m)
    BY <1>1 DEF Pass, Visit, PlugChanges, Edit
  <1>2. CASE \E s \in Site : SiteAnswers(s) \/ SiteSilent(s) \/ ConnectionLost(s)
                             \/ Reconnected(s) \/ ReconnectFails(s)
    BY <1>2 DEF SiteAnswers, SiteSilent, ConnectionLost, Reconnected, ReconnectFails
  <1>3. CASE CheckBegins \/ List \/ ListFails \/ Notified \/ CheckEnds \/ StopEnds
    BY <1>3 DEF CheckBegins, List, ListFails, Notified, CheckEnds, StopEnds
  <1>4. CASE RecheckGone \/ RecheckAborts \/ Restart
    BY <1>4, NoCheckType DEF RecheckGone, RecheckAborts, Restart, TypeOK, Check
  <1>5. CASE StopBegins \/ UNCHANGED vars
    BY <1>5 DEF StopBegins, vars
  <1>6. CASE Tick
    BY <1>6 DEF Tick, TypeOK, Check
  <1>7. CASE Recheck
    BY <1>7 DEF Recheck, TypeOK, Check
  <1>8. QED
    BY <1>1, <1>2, <1>3, <1>4, <1>5, <1>6, <1>7 DEF Next, RefreshStep

\* "debounces unavailability for 60 seconds, sends one alert": for any machines,
\* sites and troubles, an alert follows a whole grace period of answers that lacked
\* the machine, and is the only one of that time.
THEOREM AlertJustifiedHolds == Spec => AlertJustified
  <1>1. TypeOK /\ AlertInv /\ [Next]_vars =>
          [\A m \in Machine :
             check.pc = "recheck" /\ check'.pc = "notify" /\ check.machine = m
                => missing[m] = Grace /\ m \notin told /\ status = "up"]_vars
    <2> SUFFICES ASSUME TypeOK, AlertInv, [Next]_vars, NEW m \in Machine,
                        check.pc = "recheck", check'.pc = "notify", check.machine = m
                 PROVE  missing[m] = Grace /\ m \notin told /\ status = "up"
      OBVIOUS
    <2>1. Recheck /\ check.state.online = "offline"
      BY OnlyRecheckAlerts
    <2>2. missing[m] = Grace /\ states[m].online # "offline"
      BY <2>1 DEF AlertInv, RecheckInv
    <2>3. m \notin told
      BY <2>2 DEF AlertInv, ToldInv
    <2>4. QED
      BY <2>1, <2>2, <2>3 DEF Recheck
  <1>2. Spec => []AlertInv
    <2>1. Spec => []TypeOK
      BY TypeCorrect
    <2>2. QED
      BY <2>1, InitAlert, NextAlert, PTL DEF Spec
  <1>3. QED
    BY <1>1, <1>2, TypeCorrect, PTL DEF Spec, AlertJustified
=============================================================================
