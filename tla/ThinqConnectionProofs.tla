------------------------ MODULE ThinqConnectionProofs ------------------------
(* Proofs about ThinqConnection: the type invariant, that sockets are owned,    *)
(* and that the gate holds.                                                     *)
EXTENDS ThinqConnection, TLAPS

-----------------------------------------------------------------------------
(* The type invariant in parts *)

StatusOK == status \in {"up", "stopping", "closing", "down"}

SocketOK ==
    /\ client \in BOOLEAN
    /\ orphans \in Nat
    /\ attempt \in Attempt
    /\ timer \in BOOLEAN
    /\ missed \in BOOLEAN

EventOK ==
    /\ run \in [Runner -> Run]
    /\ subscribed \in SUBSET Device
    /\ due \in BOOLEAN

GateOK ==
    /\ flight \in [Worker -> Flight]
    /\ wait \in 0..Long
    /\ backoff \in Base..Long
    /\ quiet \in 0..Base

WorldOK ==
    /\ mapped \in SUBSET Device
    /\ registered \in SUBSET Device

BoundOK == troubles \in 0..MaxTroubles

LEMMA TypeParts ==
    TypeOK <=> StatusOK /\ SocketOK /\ EventOK /\ GateOK /\ WorldOK /\ BoundOK
  BY DEF TypeOK, StatusOK, SocketOK, EventOK, GateOK, WorldOK, BoundOK

LEMMA TypePartsNext ==
    TypeOK' <=> StatusOK' /\ SocketOK' /\ EventOK' /\ GateOK' /\ WorldOK' /\ BoundOK'
  BY DEF TypeOK, StatusOK, SocketOK, EventOK, GateOK, WorldOK, BoundOK

LEMMA NullTypes ==
    /\ Call \in Request
    /\ NoFlight \in Flight /\ NoFlight.at = "none"
    /\ NoRun \in Run /\ NoRun.pc = "idle"
  BY DEF Call, Request, NoFlight, Flight, NoRun, Run

LEMMA AttemptTypes ==
    /\ Prepare \subseteq Attempt
    /\ {"idle", "route", "register", "certificate", "ca", "dial", "subscribe",
        "refresh", "snapshot", "visit"} = Attempt
    /\ \A a \in Prepare : After[a] \in {"register", "certificate", "ca"}
  BY DEF Prepare, Attempt, After

LEMMA RunnerTypes ==
    /\ "connect" \in Runner /\ "interval" \in Runner
    /\ Runner \subseteq Worker
    /\ "poll" \in Worker
  BY DEF Runner, Worker

LEMMA TroubleType == BoundOK /\ Trouble => BoundOK'
  BY BoundAssumption DEF BoundOK, Trouble

-----------------------------------------------------------------------------
(* The gate *)

\* After a 429 the rest of the wait covers the rest of the first back-off.
GateInv == quiet + wait >= Base

LEMMA DoubledType ==
    ASSUME NEW b \in Base..Long
    PROVE  Doubled(b) \in Base..Long
  BY GateAssumption DEF Doubled

LEMMA SucceedsType ==
    ASSUME GateOK, GateInv, NEW w \in Worker, Succeeds(w)
    PROVE  GateOK' /\ GateInv' /\ UNCHANGED troubles
  BY NullTypes, GateAssumption DEF GateOK, GateInv, Succeeds

LEMMA FailsType ==
    ASSUME GateOK, GateInv, BoundOK, NEW w \in Worker, NEW q, Fails(w, q)
    PROVE  GateOK' /\ GateInv' /\ BoundOK'
  <1>1. BoundOK'
    BY TroubleType DEF Fails
  <1>2. flight' \in [Worker -> Flight]
    BY NullTypes DEF Fails, GateOK
  <1>3. CASE wait' = backoff /\ backoff' = Doubled(backoff) /\ quiet' = 0
    BY <1>1, <1>2, <1>3, DoubledType, GateAssumption DEF GateOK, GateInv
  <1>4. CASE wait' = Long /\ UNCHANGED <<backoff, quiet>>
    BY <1>1, <1>2, <1>4, GateAssumption DEF GateOK, GateInv
  <1>5. CASE backoff' \in {backoff, Base} /\ UNCHANGED <<wait, quiet>>
    BY <1>1, <1>2, <1>5, GateAssumption DEF GateOK, GateInv
  <1>6. QED
    BY <1>3, <1>4, <1>5 DEF Fails

LEMMA ThrowsType ==
    ASSUME GateOK, GateInv, BoundOK, NEW w \in Worker, NEW q, Throws(w, q)
    PROVE  GateOK' /\ GateInv' /\ BoundOK'
  <1>1. CASE Refused(w, q)
    BY <1>1 DEF Refused, GateOK, GateInv, BoundOK, gateVars
  <1>2. CASE Fails(w, q)
    BY <1>2, FailsType
  <1>3. QED
    BY <1>1, <1>2 DEF Throws

\* A request of worker w is over, whichever way.
LEMMA OverType ==
    ASSUME GateOK, GateInv, BoundOK, NEW w \in Worker, NEW q,
           Succeeds(w) \/ Throws(w, q)
    PROVE  GateOK' /\ GateInv' /\ BoundOK'
  BY SucceedsType, ThrowsType DEF BoundOK

LEMMA AsideGate ==
    ASSUME GateOK, GateInv, UNCHANGED gateVars
    PROVE  GateOK' /\ GateInv'
  BY DEF GateOK, GateInv, gateVars

-----------------------------------------------------------------------------
(* Requests and time *)

LEMMA RunAsksType ==
    ASSUME EventOK, NEW r \in Runner
    PROVE  RunAsks(r) \subseteq Request
  <1>1. run[r].todo \subseteq Device
    BY DEF EventOK, Run
  <1>2. CASE run[r].pc = "drop"
    BY <1>1, <1>2 DEF RunAsks, Request
  <1>3. CASE run[r].pc = "add"
    BY <1>1, <1>3 DEF RunAsks, Request
  <1>4. CASE run[r].pc \notin {"drop", "add"}
    BY <1>4 DEF RunAsks
  <1>5. QED
    BY <1>2, <1>3, <1>4

LEMMA AsksType ==
    ASSUME EventOK, NEW w \in Worker
    PROVE  Asks(w) \subseteq Request
  <1>1. CASE w = "poll"
    BY <1>1, NullTypes DEF Asks
  <1>2. CASE w = "interval"
    BY <1>2, RunAsksType, RunnerTypes DEF Asks
  <1>3. CASE w = "connect"
    <2>1. RunAsks(w) \subseteq Request
      BY <1>3, RunAsksType, RunnerTypes
    <2>2. run[w].todo \subseteq Device
      BY <1>3, RunnerTypes DEF EventOK, Run
    <2>3. {[op |-> "call", device |-> d] : d \in {e \in run[w].todo : status = "up"}}
            \subseteq Request
      BY <2>2 DEF Request
    <2>4. QED
      BY <1>3, <2>1, <2>3, NullTypes DEF Asks
  <1>4. QED
    BY <1>1, <1>2, <1>3 DEF Worker, Runner

\* What the steps of the requests and of the clock preserve.
LEMMA RequestType ==
    TypeOK /\ GateInv /\ (Tick \/ PollOver \/ \E w \in Worker : Send(w) \/ Serve(w))
    => TypeOK' /\ GateInv'
  <1> SUFFICES ASSUME TypeOK, GateInv,
                      Tick \/ PollOver \/ \E w \in Worker : Send(w) \/ Serve(w)
               PROVE  TypeOK' /\ GateInv'
    OBVIOUS
  <1> USE TypeParts, TypePartsNext
  <1>1. CASE Tick
    <2>1. GateOK' /\ GateInv'
      BY <1>1, GateAssumption DEF Tick, GateOK, GateInv
    <2>2. QED
      BY <1>1, <2>1 DEF Tick, StatusOK, SocketOK, EventOK, WorldOK, BoundOK, socketVars,
                        eventVars, worldVars
  <1>2. CASE PollOver
    <2>1. GateOK' /\ GateInv' /\ BoundOK'
      BY <1>2, OverType, RunnerTypes DEF PollOver
    <2>2. QED
      BY <1>2, <2>1 DEF PollOver, StatusOK, SocketOK, EventOK, WorldOK, socketVars,
                        eventVars, worldVars
  <1>3. ASSUME NEW w \in Worker, Send(w) PROVE TypeOK' /\ GateInv'
    <2>1. PICK q \in Asks(w) : flight' = [flight EXCEPT ![w] = [at |-> "sent",
                                                                request |-> q]]
      BY <1>3 DEF Send
    <2>2. [at |-> "sent", request |-> q] \in Flight
      BY <2>1, AsksType DEF Flight
    <2>3. GateOK' /\ GateInv'
      BY <1>3, <2>1, <2>2 DEF Send, GateOK, GateInv
    <2>4. QED
      BY <1>3, <2>3 DEF Send, StatusOK, SocketOK, EventOK, WorldOK, BoundOK, socketVars,
                        eventVars, worldVars
  <1>4. ASSUME NEW w \in Worker, Serve(w) PROVE TypeOK' /\ GateInv'
    <2>1. GateOK' /\ GateInv'
      BY <1>4 DEF Serve, GateOK, GateInv, Flight
    <2>2. flight[w].request \in Request
      BY DEF GateOK, Flight
    <2>3. flight[w].request.op = "subscribe" => flight[w].request.device \in Device
      BY <2>2 DEF Request
    <2>4. WorldOK'
      BY <1>4, <2>3 DEF Serve, WorldOK
    <2>5. QED
      BY <1>4, <2>1, <2>4 DEF Serve, StatusOK, SocketOK, EventOK, BoundOK, socketVars,
                              eventVars
  <1>5. QED
    BY <1>1, <1>2, <1>3, <1>4

-----------------------------------------------------------------------------
(* Type correctness and the gate, action by action *)

LEMMA FailsSocket ==
    ASSUME SocketOK, ConnectFails
    PROVE  timer' \in BOOLEAN /\ attempt' \in Attempt
  BY AttemptTypes DEF SocketOK, ConnectFails, ScheduleReconnect

LEMMA EnsureType ==
    ASSUME SocketOK, EnsureConnected
    PROVE  attempt' \in Attempt
  BY AttemptTypes DEF SocketOK, EnsureConnected

LEMMA BeginType ==
    ASSUME EventOK, NEW r \in Runner, NEW b \in BOOLEAN, BeginRun(r, b)
    PROVE  run' \in [Runner -> Run]
  <1>1. [NoRun EXCEPT !.pc = "list", !.renewAll = b] \in Run
    BY NullTypes DEF Run
  <1>2. QED
    BY <1>1 DEF BeginRun, EventOK

LEMMA ConnectType ==
    TypeOK /\ GateInv /\ ConnectStep => TypeOK' /\ GateInv'
  <1> SUFFICES ASSUME TypeOK, GateInv, ConnectStep
               PROVE  TypeOK' /\ GateInv'
    OBVIOUS
  <1> USE TypeParts, TypePartsNext
  <1>1. CASE PrepareReturns
    <2>1. GateOK' /\ GateInv' /\ UNCHANGED troubles
      BY <1>1, SucceedsType, RunnerTypes DEF PrepareReturns
    <2>2. SocketOK'
      BY <1>1, AttemptTypes DEF PrepareReturns, SocketOK
    <2>3. QED
      BY <1>1, <2>1, <2>2 DEF PrepareReturns, StatusOK, EventOK, WorldOK, BoundOK,
                              eventVars, worldVars
  <1>2. CASE PrepareThrows
    <2>1. GateOK' /\ GateInv' /\ BoundOK'
      BY <1>2, ThrowsType, RunnerTypes DEF PrepareThrows
    <2>2. SocketOK'
      BY <1>2, FailsSocket DEF PrepareThrows, SocketOK
    <2>3. QED
      BY <1>2, <2>1, <2>2 DEF PrepareThrows, StatusOK, EventOK, WorldOK, eventVars,
                              worldVars
  <1>3. CASE DownloadCa
    <2>1. GateOK' /\ GateInv'
      BY <1>3, AsideGate DEF DownloadCa
    <2>2. SocketOK'
      BY <1>3, FailsSocket, AttemptTypes DEF DownloadCa, SocketOK
    <2>3. BoundOK'
      BY <1>3, TroubleType DEF DownloadCa, BoundOK
    <2>4. QED
      BY <1>3, <2>1, <2>2, <2>3 DEF DownloadCa, StatusOK, EventOK, WorldOK, eventVars,
                                    worldVars
  <1>4. CASE Dial
    <2>1. GateOK' /\ GateInv'
      BY <1>4, AsideGate DEF Dial
    <2>2. SocketOK'
      <3>1. CASE attempt' = "subscribe" /\ client' = TRUE /\ UNCHANGED timer
        <4>1. orphans' \in Nat /\ missed' = missed
          BY <1>4 DEF Dial, SocketOK
        <4>2. QED
          BY <3>1, <4>1, AttemptTypes DEF SocketOK
      <3>2. CASE ConnectFails /\ UNCHANGED <<client, orphans>>
        BY <1>4, <3>2, FailsSocket DEF Dial, SocketOK
      <3>3. QED
        BY <1>4, <3>1, <3>2 DEF Dial
    <2>3. BoundOK'
      BY <1>4, TroubleType DEF Dial, BoundOK
    <2>4. QED
      BY <1>4, <2>1, <2>2, <2>3 DEF Dial, StatusOK, EventOK, WorldOK, eventVars, worldVars
  <1>5. CASE Subscribed
    <2>1. GateOK' /\ GateInv'
      BY <1>5, AsideGate DEF Subscribed
    <2>2. SocketOK'
      BY <1>5, AttemptTypes DEF Subscribed, SocketOK
    <2>3. EventOK'
      BY <1>5, RunnerTypes, BeginType DEF Subscribed, EventOK
    <2>4. QED
      BY <1>5, <2>1, <2>2, <2>3 DEF Subscribed, StatusOK, WorldOK, BoundOK, worldVars
  <1>6. CASE SubscribeFails
    <2>1. GateOK' /\ GateInv'
      BY <1>6, AsideGate DEF SubscribeFails
    <2>2. SocketOK' /\ BoundOK'
      BY <1>6, FailsSocket, TroubleType DEF SubscribeFails, SocketOK
    <2>3. QED
      BY <1>6, <2>1, <2>2 DEF SubscribeFails, StatusOK, EventOK, WorldOK, eventVars,
                              worldVars
  <1>7. CASE Snapshot
    <2>1. GateOK' /\ GateInv'
      BY <1>7, AsideGate DEF Snapshot
    <2>2. SocketOK'
      BY <1>7, AttemptTypes DEF Snapshot, SocketOK
    <2>3. EventOK'
      BY <1>7, RunnerTypes, NullTypes DEF Snapshot, EventOK, Run, WorldOK
    <2>4. QED
      BY <1>7, <2>1, <2>2, <2>3 DEF Snapshot, StatusOK, WorldOK, BoundOK, worldVars
  <1>8. CASE SnapshotFails
    <2>1. GateOK' /\ GateInv'
      BY <1>8, AsideGate DEF SnapshotFails
    <2>2. SocketOK' /\ BoundOK'
      BY <1>8, FailsSocket, TroubleType DEF SnapshotFails, SocketOK
    <2>3. QED
      BY <1>8, <2>1, <2>2 DEF SnapshotFails, StatusOK, EventOK, WorldOK, eventVars,
                              worldVars
  <1>9. CASE VisitOver
    <2>1. PICK d \in run["connect"].todo :
            /\ \/ Succeeds("connect")
               \/ Throws("connect", [op |-> "call", device |-> d])
            /\ run' = [run EXCEPT !["connect"].todo = @ \ {d}]
      BY <1>9 DEF VisitOver
    <2>2. GateOK' /\ GateInv' /\ BoundOK'
      BY <2>1, OverType, RunnerTypes
    <2>3. EventOK'
      BY <1>9, <2>1, RunnerTypes DEF VisitOver, EventOK, Run
    <2>4. QED
      BY <1>9, <2>2, <2>3 DEF VisitOver, StatusOK, SocketOK, WorldOK, socketVars,
                              worldVars
  <1>10. CASE SnapshotEnd
    <2>1. GateOK' /\ GateInv'
      BY <1>10, AsideGate DEF SnapshotEnd
    <2>2. SocketOK'
      BY <1>10, AttemptTypes DEF SnapshotEnd, SocketOK
    <2>3. EventOK'
      BY <1>10, RunnerTypes, NullTypes DEF SnapshotEnd, EventOK
    <2>4. QED
      BY <1>10, <2>1, <2>2, <2>3 DEF SnapshotEnd, StatusOK, WorldOK, BoundOK, worldVars
  <1>11. QED
    BY <1>1, <1>2, <1>3, <1>4, <1>5, <1>6, <1>7, <1>8, <1>9, <1>10 DEF ConnectStep

LEMMA RefreshType ==
    ASSUME TypeOK, GateInv, NEW r \in Runner, RefreshStep(r)
    PROVE  TypeOK' /\ GateInv'
  <1> USE TypeParts, TypePartsNext
  <1>0. run[r] \in Run
    BY DEF EventOK
  <1>1. CASE List(r)
    <2>1. GateOK' /\ GateInv'
      BY <1>1, AsideGate DEF List
    <2>2. EventOK'
      BY <1>0, <1>1 DEF List, EventOK, Run, WorldOK
    <2>3. QED
      BY <1>1, <2>1, <2>2 DEF List, StatusOK, SocketOK, WorldOK, BoundOK, socketVars,
                              worldVars
  <1>2. CASE ListFails(r)
    <2>1. GateOK' /\ GateInv'
      BY <1>2, AsideGate DEF ListFails
    <2>2. SocketOK' /\ BoundOK'
      BY <1>2, FailsSocket, TroubleType DEF ListFails, SocketOK
    <2>3. EventOK'
      BY <1>2, NullTypes DEF ListFails, EventOK
    <2>4. QED
      BY <1>2, <2>1, <2>2, <2>3 DEF ListFails, StatusOK, WorldOK, worldVars
  <1>3. CASE EventOver(r)
    <2>1. PICK d \in run[r].todo, ok \in BOOLEAN, q \in Request :
            /\ Succeeds(r) \/ Throws(r, q)
            /\ subscribed' = Noted(q, ok)
            /\ q.device = d
            /\ run' = [run EXCEPT ![r].todo = @ \ {d}]
      <3>1. run[r].todo \subseteq Device
        BY <1>0 DEF Run
      <3>2. QED
        BY <1>3, <3>1 DEF EventOver, Request
    <2>2. GateOK' /\ GateInv' /\ BoundOK'
      BY <2>1, OverType, RunnerTypes
    <2>3. subscribed' \in SUBSET Device
      BY <1>0, <2>1 DEF Noted, EventOK, Run
    <2>4. run' \in [Runner -> Run]
      BY <1>0, <2>1 DEF EventOK, Run
    <2>5. QED
      BY <1>3, <2>2, <2>3, <2>4 DEF EventOver, EventOK, StatusOK, SocketOK, WorldOK,
                                    socketVars, worldVars
  <1>4. CASE Dropped(r) \/ Skip(r)
    <2>1. GateOK' /\ GateInv'
      BY <1>4, AsideGate DEF Dropped, Skip
    <2>2. EventOK'
      BY <1>0, <1>4 DEF Dropped, Skip, EventOK, Run
    <2>3. QED
      BY <1>4, <2>1, <2>2 DEF Dropped, Skip, StatusOK, SocketOK, WorldOK, BoundOK,
                              socketVars, worldVars
  <1>5. CASE RefreshEnd(r)
    <2>1. GateOK' /\ GateInv'
      BY <1>5, AsideGate DEF RefreshEnd
    <2>2. SocketOK'
      BY <1>5, AttemptTypes DEF RefreshEnd, SocketOK
    <2>3. EventOK'
      BY <1>0, <1>5, NullTypes DEF RefreshEnd, EventOK
    <2>4. QED
      BY <1>5, <2>1, <2>2, <2>3 DEF RefreshEnd, StatusOK, WorldOK, BoundOK, worldVars
  <1>6. QED
    BY <1>1, <1>2, <1>3, <1>4, <1>5 DEF RefreshStep

\* Timers, a closed connection, shutdown, restart and the world outside.
LEMMA OutsideType ==
    TypeOK /\ GateInv
    /\ (\/ TimerFires \/ Close \/ IntervalFires \/ RenewDue \/ StopBegin \/ StopEnd
        \/ Unregistered \/ Restart
        \/ \E d \in Device : EditMapping(d) \/ Lapse(d))
    => TypeOK' /\ GateInv'
  <1> SUFFICES ASSUME TypeOK, GateInv,
                      \/ TimerFires \/ Close \/ IntervalFires \/ RenewDue \/ StopBegin
                      \/ StopEnd \/ Unregistered \/ Restart
                      \/ \E d \in Device : EditMapping(d) \/ Lapse(d)
               PROVE  TypeOK' /\ GateInv'
    OBVIOUS
  <1> USE TypeParts, TypePartsNext
  <1>1. CASE TimerFires
    <2>1. SocketOK'
      BY <1>1, EnsureType DEF TimerFires, SocketOK
    <2>2. GateOK' /\ GateInv'
      BY <1>1, AsideGate DEF TimerFires
    <2>3. QED
      BY <1>1, <2>1, <2>2 DEF TimerFires, StatusOK, EventOK, WorldOK, BoundOK, eventVars,
                              worldVars
  <1>2. CASE Close
    <2>1. SocketOK' /\ BoundOK'
      BY <1>2, TroubleType DEF Close, SocketOK, ScheduleReconnect
    <2>2. GateOK' /\ GateInv'
      BY <1>2, AsideGate DEF Close
    <2>3. QED
      BY <1>2, <2>1, <2>2 DEF Close, StatusOK, EventOK, WorldOK, eventVars, worldVars
  <1>3. CASE IntervalFires \/ RenewDue
    <2>1. EventOK'
      <3>1. CASE IntervalFires
        <4>1. run' \in [Runner -> Run]
          <5>1. due \in BOOLEAN /\ "interval" \in Runner
            BY RunnerTypes DEF EventOK
          <5>2. QED
            BY <3>1, <5>1, BeginType DEF IntervalFires
        <4>2. QED
          BY <3>1, <4>1 DEF IntervalFires, EventOK
      <3>2. CASE RenewDue
        BY <3>2 DEF RenewDue, EventOK
      <3>3. QED
        BY <1>3, <3>1, <3>2
    <2>2. GateOK' /\ GateInv'
      BY <1>3, AsideGate DEF IntervalFires, RenewDue
    <2>3. QED
      BY <1>3, <2>1, <2>2 DEF IntervalFires, RenewDue, StatusOK, SocketOK, WorldOK,
                              BoundOK, socketVars, worldVars
  <1>4. CASE StopBegin \/ StopEnd
    <2>1. StatusOK' /\ SocketOK' /\ BoundOK'
      BY <1>4, TroubleType DEF StopBegin, StopEnd, StatusOK, SocketOK, BoundOK
    <2>2. GateOK' /\ GateInv'
      BY <1>4, AsideGate DEF StopBegin, StopEnd
    <2>3. QED
      BY <1>4, <2>1, <2>2 DEF StopBegin, StopEnd, EventOK, WorldOK, eventVars, worldVars
  <1>5. CASE Unregistered
    <2>1. GateOK' /\ GateInv' /\ BoundOK'
      BY <1>5, OverType, RunnerTypes DEF Unregistered
    <2>2. QED
      BY <1>5, <2>1 DEF Unregistered, StatusOK, SocketOK, EventOK, WorldOK, socketVars,
                        eventVars, worldVars
  <1>6. CASE Restart
    <2>1. Boot
      BY <1>6 DEF Restart
    <2>2. BoundOK'
      BY <1>6, TroubleType DEF Restart, BoundOK
    <2>3. StatusOK' /\ SocketOK' /\ EventOK'
      BY <2>1, NullTypes, AttemptTypes DEF Boot, StatusOK, SocketOK, EventOK
    <2>4. GateOK' /\ GateInv'
      BY <2>1, NullTypes, GateAssumption DEF Boot, GateOK, GateInv
    <2>5. QED
      BY <2>1, <2>2, <2>3, <2>4 DEF Boot, WorldOK, worldVars
  <1>7. ASSUME NEW d \in Device, EditMapping(d) \/ Lapse(d) PROVE TypeOK' /\ GateInv'
    <2>1. BoundOK' /\ WorldOK'
      BY <1>7, TroubleType DEF EditMapping, Lapse, WorldOK
    <2>2. GateOK' /\ GateInv'
      BY <1>7, AsideGate DEF EditMapping, Lapse
    <2>3. QED
      BY <1>7, <2>1, <2>2 DEF EditMapping, Lapse, StatusOK, SocketOK, EventOK, socketVars,
                              eventVars
  <1>8. QED
    BY <1>1, <1>2, <1>3, <1>4, <1>5, <1>6, <1>7

LEMMA InitType == Init => TypeOK /\ GateInv
  <1> SUFFICES ASSUME Init PROVE TypeOK /\ GateInv
    OBVIOUS
  <1>1. StatusOK /\ SocketOK
    BY AttemptTypes DEF Init, StatusOK, SocketOK
  <1>2. EventOK /\ WorldOK
    BY NullTypes DEF Init, EventOK, WorldOK
  <1>3. GateOK /\ GateInv
    BY NullTypes, GateAssumption DEF Init, GateOK, GateInv
  <1>4. BoundOK
    BY BoundAssumption DEF Init, BoundOK
  <1>5. QED
    BY <1>1, <1>2, <1>3, <1>4, TypeParts

LEMMA NextType == TypeOK /\ GateInv /\ [Next]_vars => TypeOK' /\ GateInv'
  <1>1. TypeOK /\ GateInv /\ UNCHANGED vars => TypeOK' /\ GateInv'
    BY DEF TypeOK, GateInv, vars, socketVars, eventVars, gateVars, worldVars
  <1>2. QED
    BY <1>1, RequestType, ConnectType, RefreshType, OutsideType DEF Next

LEMMA GateInvHolds == Spec => [](TypeOK /\ GateInv)
  BY InitType, NextType, PTL DEF Spec

\* Every reachable state is well typed; in particular the back-off stays between
\* its bounds, for any devices, back-offs and number of troubles.
THEOREM TypeCorrect == Spec => []TypeOK
  BY GateInvHolds, PTL

-----------------------------------------------------------------------------
(* The gate holds *)

\* Only Send gives a worker a request.
LEMMA OnlySendSends ==
    ASSUME TypeOK, [Next]_vars, NEW w \in Worker,
           flight[w].at = "none", flight'[w].at = "sent"
    PROVE  wait = 0
  <1> USE RunnerTypes
  <1>1. flight \in [Worker -> Flight] /\ flight'[w] # flight[w] /\ flight'[w] # NoFlight
    BY NullTypes DEF TypeOK
  <1>2. CASE \E v \in Worker : Send(v) \/ Serve(v)
    <2>1. PICK v \in Worker : Send(v) \/ Serve(v)
      BY <1>2
    <2>2. CASE Send(v)
      BY <2>2 DEF Send
    <2>3. CASE Serve(v)
      BY <1>1, <2>3 DEF Serve
    <2>4. QED
      BY <2>1, <2>2, <2>3
  <1>3. ASSUME NEW v \in Worker, NEW q, Succeeds(v) \/ Throws(v, q)
        PROVE  FALSE
    BY <1>1, <1>3 DEF Succeeds, Throws, Refused, Fails, gateVars
  <1>4. CASE PollOver \/ Unregistered
    BY <1>3, <1>4 DEF PollOver, Unregistered
  <1>5. CASE ConnectStep
    <2>1. CASE PrepareReturns \/ PrepareThrows \/ VisitOver
      BY <1>3, <2>1 DEF PrepareReturns, PrepareThrows, VisitOver
    <2>2. CASE DownloadCa \/ Dial \/ Subscribed \/ SubscribeFails \/ Snapshot
               \/ SnapshotFails \/ SnapshotEnd
      BY <1>1, <2>2 DEF DownloadCa, Dial, Subscribed, SubscribeFails, Snapshot,
                        SnapshotFails, SnapshotEnd, gateVars
    <2>3. QED
      BY <1>5, <2>1, <2>2 DEF ConnectStep
  <1>6. CASE \E r \in Runner : RefreshStep(r)
    <2>1. PICK r \in Runner : RefreshStep(r)
      BY <1>6
    <2>2. CASE EventOver(r)
      BY <1>3, <2>2 DEF EventOver
    <2>3. CASE List(r) \/ ListFails(r) \/ Dropped(r) \/ Skip(r) \/ RefreshEnd(r)
      BY <1>1, <2>3 DEF List, ListFails, Dropped, Skip, RefreshEnd, gateVars
    <2>4. QED
      BY <2>1, <2>2, <2>3 DEF RefreshStep
  <1>7. CASE Tick \/ TimerFires \/ Close \/ IntervalFires \/ RenewDue \/ StopBegin
             \/ StopEnd \/ UNCHANGED vars \/ \E d \in Device : EditMapping(d) \/ Lapse(d)
    BY <1>1, <1>7 DEF Tick, TimerFires, Close, IntervalFires, RenewDue, StopBegin,
                      StopEnd, EditMapping, Lapse, gateVars, vars
  <1>8. CASE Restart
    BY <1>1, <1>8 DEF Restart, Boot
  <1>9. QED
    BY <1>2, <1>4, <1>5, <1>6, <1>7, <1>8 DEF Next

\* "backs off shared requests after 429": no worker sends within the first back-off
\* after a 429 to any of them, for any back-offs and whatever is in flight.
THEOREM GateHoldsAlways == Spec => GateHolds
  <1>1. TypeOK /\ GateInv /\ [Next]_vars =>
          [\A w \in Worker : flight[w].at = "none" /\ flight'[w].at = "sent"
                                => quiet = Base]_vars
    <2> SUFFICES ASSUME TypeOK, GateInv, [Next]_vars, NEW w \in Worker,
                        flight[w].at = "none", flight'[w].at = "sent"
                 PROVE  quiet = Base
      OBVIOUS
    <2>1. wait = 0
      BY OnlySendSends
    <2>2. QED
      BY <2>1, GateAssumption DEF GateInv, TypeOK
  <1>2. QED
    BY <1>1, GateInvHolds, PTL DEF Spec, GateHolds

-----------------------------------------------------------------------------
(* Sockets *)

\* An attempt that has not connected yet was begun without a client, and none is
\* made meanwhile.
DialInv == attempt \in Prepare \cup {"ca", "dial"} => ~ client

\* A process that stops has no reconnect timer, and in the end no attempt.
StopInv ==
    /\ status # "up" => ~ timer
    /\ status \in {"closing", "down"} => ~ client /\ attempt = "idle"

\* The refresh of a new session is part of the attempt.
RunInv == run["connect"].pc # "idle" => attempt = "refresh"

SocketInv == orphans = 0 /\ DialInv /\ StopInv /\ RunInv

LEMMA InitSocket == Init => SocketInv
  BY NullTypes, RunnerTypes DEF Init, SocketInv, DialInv, StopInv, RunInv

LEMMA AsideSocket ==
    ASSUME SocketInv, UNCHANGED <<status, socketVars>>,
           run'["connect"].pc # "idle" => run["connect"].pc # "idle"
    PROVE  SocketInv'
  BY DEF SocketInv, DialInv, StopInv, RunInv, socketVars

LEMMA ConnectSocket == TypeOK /\ SocketInv /\ ConnectStep => SocketInv'
  <1> SUFFICES ASSUME TypeOK, SocketInv, ConnectStep PROVE SocketInv'
    OBVIOUS
  <1> USE RunnerTypes, NullTypes DEF SocketInv, DialInv, StopInv, RunInv
  <1>1. CASE PrepareReturns
    BY <1>1, AttemptTypes DEF PrepareReturns, eventVars, Prepare, After
  <1>2. CASE PrepareThrows
    BY <1>2 DEF PrepareThrows, ConnectFails, ScheduleReconnect, eventVars, Prepare
  <1>3. CASE DownloadCa
    <2>1. CASE attempt' \in {"dial", "idle"} /\ UNCHANGED timer
      BY <1>3, <2>1 DEF DownloadCa, eventVars
    <2>2. CASE ConnectFails
      BY <1>3, <2>2 DEF DownloadCa, ConnectFails, ScheduleReconnect, eventVars, Prepare
    <2>3. QED
      BY <1>3, <2>1, <2>2 DEF DownloadCa
  <1>4. CASE Dial
    <2>1. ~ client /\ status \notin {"closing", "down"} /\ run["connect"].pc = "idle"
      BY <1>4 DEF Dial
    <2>2. CASE attempt' = "subscribe" /\ UNCHANGED timer
      BY <1>4, <2>1, <2>2 DEF Dial, eventVars, Prepare
    <2>3. CASE ConnectFails
      BY <1>4, <2>1, <2>3 DEF Dial, ConnectFails, ScheduleReconnect, eventVars, Prepare
    <2>4. QED
      BY <1>4, <2>2, <2>3 DEF Dial
  <1>5. CASE Subscribed
    BY <1>5 DEF Subscribed, Prepare
  <1>6. CASE SubscribeFails
    BY <1>6 DEF SubscribeFails, ConnectFails, ScheduleReconnect, eventVars, Prepare
  <1>7. CASE Snapshot
    <2>1. run'["connect"].pc = "idle"
      BY <1>7 DEF Snapshot, TypeOK
    <2>2. QED
      BY <1>7, <2>1 DEF Snapshot, Prepare
  <1>8. CASE SnapshotFails
    BY <1>8 DEF SnapshotFails, ConnectFails, ScheduleReconnect, eventVars, Prepare
  <1>9. CASE VisitOver
    <2>1. run'["connect"].pc = run["connect"].pc
      BY <1>9 DEF VisitOver, TypeOK, Run
    <2>2. QED
      BY <1>9, <2>1 DEF VisitOver, socketVars
  <1>10. CASE SnapshotEnd
    <2>1. run'["connect"].pc = "idle"
      BY <1>10 DEF SnapshotEnd, TypeOK
    <2>2. QED
      BY <1>10, <2>1 DEF SnapshotEnd, Prepare
  <1>11. QED
    BY <1>1, <1>2, <1>3, <1>4, <1>5, <1>6, <1>7, <1>8, <1>9, <1>10 DEF ConnectStep

LEMMA RefreshSocket ==
    ASSUME TypeOK, SocketInv, NEW r \in Runner, RefreshStep(r)
    PROVE  SocketInv'
  <1>1. CASE List(r) \/ EventOver(r) \/ Dropped(r) \/ Skip(r)
    <2>1. run'["connect"].pc # "idle" => run["connect"].pc # "idle"
      BY <1>1, RunnerTypes DEF List, EventOver, Dropped, Skip, TypeOK, Run
    <2>2. QED
      BY <1>1, <2>1, AsideSocket DEF List, EventOver, Dropped, Skip
  <1>2. CASE ListFails(r) /\ r # "connect"
    <2>1. run'["connect"] = run["connect"]
      BY <1>2, RunnerTypes DEF ListFails, TypeOK
    <2>2. QED
      BY <1>2, <2>1, AsideSocket DEF ListFails, socketVars
  <1>3. CASE ListFails(r) /\ r = "connect"
    <2>1. run'["connect"].pc = "idle"
      BY <1>3, RunnerTypes, NullTypes DEF ListFails, TypeOK
    <2>2. QED
      BY <1>3, <2>1 DEF ListFails, ConnectFails, ScheduleReconnect, SocketInv, DialInv,
                        StopInv, RunInv, Prepare
  <1>4. CASE RefreshEnd(r) /\ r # "connect"
    <2>1. run'["connect"] = run["connect"]
      BY <1>4, RunnerTypes DEF RefreshEnd, TypeOK
    <2>2. QED
      BY <1>4, <2>1, AsideSocket DEF RefreshEnd, socketVars
  <1>5. CASE RefreshEnd(r) /\ r = "connect"
    <2>1. run'["connect"].pc = "idle" /\ attempt = "refresh"
      BY <1>5, RunnerTypes, NullTypes DEF RefreshEnd, TypeOK, SocketInv, RunInv
    <2>2. QED
      BY <1>5, <2>1 DEF RefreshEnd, SocketInv, DialInv, StopInv, RunInv, Prepare
  <1>6. QED
    BY <1>1, <1>2, <1>3, <1>4, <1>5 DEF RefreshStep

LEMMA NextSocket == TypeOK /\ SocketInv /\ [Next]_vars => SocketInv'
  <1> SUFFICES ASSUME TypeOK, SocketInv, [Next]_vars PROVE SocketInv'
    OBVIOUS
  <1>1. CASE \E w \in Worker : Send(w) \/ Serve(w)
    BY <1>1, AsideSocket DEF Send, Serve, eventVars
  <1>2. CASE Tick \/ PollOver \/ RenewDue \/ UNCHANGED vars
    BY <1>2, AsideSocket DEF Tick, PollOver, RenewDue, vars, eventVars
  <1>3. CASE \E d \in Device : EditMapping(d) \/ Lapse(d)
    BY <1>3, AsideSocket DEF EditMapping, Lapse, eventVars
  <1>4. CASE IntervalFires
    <2>1. run'["connect"] = run["connect"]
      BY <1>4, RunnerTypes DEF IntervalFires, BeginRun, TypeOK
    <2>2. QED
      BY <1>4, <2>1, AsideSocket DEF IntervalFires
  <1>5. CASE TimerFires
    BY <1>5 DEF TimerFires, EnsureConnected, SocketInv, DialInv, StopInv, RunInv, eventVars
  <1>6. CASE Close
    BY <1>6 DEF Close, ScheduleReconnect, SocketInv, DialInv, StopInv, RunInv, eventVars
  <1>7. CASE StopBegin \/ StopEnd
    BY <1>7 DEF StopBegin, StopEnd, SocketInv, DialInv, StopInv, RunInv, eventVars
  <1>8. CASE Unregistered
    BY <1>8 DEF Unregistered, SocketInv, DialInv, StopInv, RunInv, socketVars, eventVars
  <1>9. CASE Restart
    BY <1>9, NullTypes, RunnerTypes
       DEF Restart, Boot, SocketInv, DialInv, StopInv, RunInv
  <1>10. QED
    BY <1>1, <1>2, <1>3, <1>4, <1>5, <1>6, <1>7, <1>8, <1>9, ConnectSocket,
       RefreshSocket DEF Next

\* At most one socket is open and this.client refers to it, and a process that has
\* shut down leaves nothing behind, however timers, losses and failures meet.
THEOREM SocketOwnedHolds == Spec => []SocketOwned
  <1>1. SocketInv => SocketOwned
    BY DEF SocketInv, StopInv, SocketOwned
  <1>2. QED
    BY <1>1, InitSocket, NextSocket, TypeCorrect, PTL DEF Spec
-----------------------------------------------------------------------------
(* Reconnecting *)

\* A running service without a client connects, has a timer set to do so, or has
\* let a timer fire into an attempt that was still running.
GivesUpOnlyWhenMissed ==
    status = "up" /\ attempt = "idle" => client \/ timer \/ missed

\* The steps of an attempt after its client is made.
Connected == {"refresh", "snapshot", "visit"}

\* The invariant that is inductive: an attempt has its client until the topic is
\* subscribed; from then on a client that is lost has left a timer or a missed one.
OwedInv ==
    /\ attempt = "subscribe" => client
    /\ status = "up" /\ attempt \in Connected \cup {"idle"}
         => client \/ timer \/ missed

LEMMA AsideOwed ==
    ASSUME OwedInv, UNCHANGED <<status, socketVars>>
    PROVE  OwedInv'
  BY DEF OwedInv, socketVars

\* A rejected attempt leaves a timer.
LEMMA FailedOwed ==
    ASSUME ConnectFails, UNCHANGED status
    PROVE  OwedInv'
  BY DEF ConnectFails, ScheduleReconnect, OwedInv

LEMMA ConnectOwed == OwedInv /\ ConnectStep => OwedInv'
  <1> SUFFICES ASSUME OwedInv, ConnectStep PROVE OwedInv'
    OBVIOUS
  <1>1. CASE PrepareReturns
    <2>1. attempt' \in {"register", "certificate", "ca"}
      BY <1>1, AttemptTypes DEF PrepareReturns
    <2>2. QED
      BY <2>1 DEF OwedInv, Connected
  <1>2. CASE PrepareThrows \/ SubscribeFails \/ SnapshotFails
    BY <1>2, FailedOwed DEF PrepareThrows, SubscribeFails, SnapshotFails
  <1>3. CASE DownloadCa
    <2>1. ConnectFails \/ attempt' = "dial" \/ (attempt' = "idle" /\ status # "up")
      BY <1>3 DEF DownloadCa
    <2>2. UNCHANGED status
      BY <1>3 DEF DownloadCa
    <2>3. QED
      BY <2>1, <2>2, FailedOwed DEF OwedInv, Connected
  <1>4. CASE Dial
    <2>1. ConnectFails \/ (attempt' = "subscribe" /\ client')
      BY <1>4 DEF Dial
    <2>2. UNCHANGED status
      BY <1>4 DEF Dial
    <2>3. QED
      BY <2>1, <2>2, FailedOwed DEF OwedInv, Connected
  <1>5. CASE Subscribed
    BY <1>5 DEF Subscribed, OwedInv
  <1>6. CASE Snapshot \/ SnapshotEnd
    BY <1>6 DEF Snapshot, SnapshotEnd, OwedInv, Connected
  <1>7. CASE VisitOver
    BY <1>7, AsideOwed DEF VisitOver
  <1>8. QED
    BY <1>1, <1>2, <1>3, <1>4, <1>5, <1>6, <1>7 DEF ConnectStep

LEMMA RefreshOwed ==
    ASSUME TypeOK, SocketInv, OwedInv, NEW r \in Runner, RefreshStep(r)
    PROVE  OwedInv'
  <1>1. CASE List(r) \/ EventOver(r) \/ Dropped(r) \/ Skip(r)
    BY <1>1, AsideOwed DEF List, EventOver, Dropped, Skip
  <1>2. CASE ListFails(r)
    BY <1>2, FailedOwed, AsideOwed DEF ListFails, socketVars
  <1>3. CASE RefreshEnd(r)
    <2>1. r = "connect" => attempt = "refresh"
      BY <1>3 DEF RefreshEnd, SocketInv, RunInv
    <2>2. QED
      BY <1>3, <2>1 DEF RefreshEnd, OwedInv, Connected
  <1>4. QED
    BY <1>1, <1>2, <1>3 DEF RefreshStep

LEMMA NextOwed == TypeOK /\ SocketInv /\ OwedInv /\ [Next]_vars => OwedInv'
  <1> SUFFICES ASSUME TypeOK, SocketInv, OwedInv, [Next]_vars PROVE OwedInv'
    OBVIOUS
  <1>1. CASE \/ \E w \in Worker : Send(w) \/ Serve(w)
             \/ Tick \/ PollOver \/ RenewDue \/ IntervalFires
             \/ \E d \in Device : EditMapping(d) \/ Lapse(d)
             \/ UNCHANGED vars
    BY <1>1, AsideOwed DEF Send, Serve, Tick, PollOver, RenewDue, IntervalFires,
                           EditMapping, Lapse, vars
  <1>2. CASE TimerFires
    <2>1. attempt' = "route" \/ (attempt' = attempt /\ (client \/ status # "up" \/ missed'))
      BY <1>2 DEF TimerFires, EnsureConnected
    <2>2. QED
      BY <1>2, <2>1 DEF TimerFires, OwedInv, Connected
  <1>3. CASE Close
    BY <1>3 DEF Close, ScheduleReconnect, OwedInv
  <1>4. CASE StopBegin \/ StopEnd
    BY <1>4 DEF StopBegin, StopEnd, OwedInv
  <1>5. CASE Unregistered
    BY <1>5 DEF Unregistered, OwedInv, socketVars
  <1>6. CASE Restart
    BY <1>6 DEF Restart, Boot, OwedInv, Connected
  <1>7. QED
    BY <1>1, <1>2, <1>3, <1>4, <1>5, <1>6, ConnectOwed, RefreshOwed DEF Next

\* "MQTT disconnect: exponential reconnect" (2026-11-03-thinq-mqtt-design.md) holds
\* of the code with one exception, a timer that fires into a running attempt: for
\* any devices, back-offs and number of troubles.
THEOREM GivesUpOnlyWhenMissedHolds == Spec => []GivesUpOnlyWhenMissed
  <1>1. Init => OwedInv
    BY DEF Init, OwedInv, Connected
  <1>2. OwedInv => GivesUpOnlyWhenMissed
    BY DEF OwedInv, GivesUpOnlyWhenMissed
  <1>3. QED
    BY <1>1, <1>2, InitSocket, NextSocket, NextOwed, TypeCorrect, PTL DEF Spec
=============================================================================
