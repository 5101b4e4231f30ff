-------------------------- MODULE ThinqDryerProofs --------------------------
(* Proofs about ThinqDryer: the type invariant, that a row shows the device it  *)
(* is mapped to, and that no source alerts twice for one ERROR.                 *)
EXTENDS ThinqDryer, TLAPS

-----------------------------------------------------------------------------
(* The type invariant in parts *)

RowType == [device: Device \cup {NoDevice}, status: {"IDLE", "DRY"},
            state: State \cup {NoState}]

TableOK ==
    /\ row \in [Machine -> RowType]
    /\ source \in [Machine -> Device \cup {NoDevice}]
    /\ alerted \in [Machine -> SUBSET Worker]
    /\ open \subseteq Machine
    /\ deleted \subseteq Machine

MemoryOK ==
    /\ cache \in [Device -> State \cup {NoState}]
    /\ dropping \subseteq Device
    /\ queue \in [Device -> Seq(State \cup {NoState})]
    /\ todo \in [Sweeper -> SUBSET (Machine \X Device)]
    /\ failed \in BOOLEAN
    /\ initialDone \in BOOLEAN

ApplianceOK == appliance \in [Device -> State]
JobOK == job \in [Worker -> Job]
EditOK == edit \in Edit
SpentOK == spent \in [DOMAIN Bound -> Nat]

LEMMA TypeParts ==
    TypeOK <=> ApplianceOK /\ TableOK /\ MemoryOK /\ JobOK /\ EditOK /\ SpentOK
  BY DEF TypeOK, ApplianceOK, TableOK, MemoryOK, JobOK, EditOK, SpentOK, RowType

LEMMA TypePartsNext ==
    TypeOK' <=> ApplianceOK' /\ TableOK' /\ MemoryOK' /\ JobOK' /\ EditOK' /\ SpentOK'
  BY DEF TypeOK, ApplianceOK, TableOK, MemoryOK, JobOK, EditOK, SpentOK, RowType

-----------------------------------------------------------------------------
(* Parts that an action leaves alone, jobs and bounds *)

LEMMA TableSame == TableOK /\ UNCHANGED machineVars => TableOK'
  BY DEF TableOK, machineVars

LEMMA MemorySame == MemoryOK /\ UNCHANGED memoryVars => MemoryOK'
  BY DEF MemoryOK, memoryVars

LEMMA OtherSame ==
    /\ ApplianceOK /\ UNCHANGED appliance => ApplianceOK'
    /\ JobOK /\ UNCHANGED job => JobOK'
    /\ EditOK /\ UNCHANGED edit => EditOK'
    /\ SpentOK /\ UNCHANGED spent => SpentOK'
  BY DEF ApplianceOK, JobOK, EditOK, SpentOK

LEMMA WorkerTypes ==
    Sweeper \subseteq Worker /\ Device \subseteq Worker /\ Machine \subseteq Worker
  BY DEF Worker

LEMMA SpendType ==
    ASSUME SpentOK, NEW b \in {"changes", "timers", "edits", "faults"}, Spend(b)
    PROVE  SpentOK'
  BY DEF SpentOK, Spend, Bound

LEMMA NullTypes == /\ AnyMachine \in Machine
                   /\ NoJob \in Job /\ NoJob.pc = "idle"
                   /\ [NoJob EXCEPT !.pc = "next"] \in Job
                   /\ NoEdit \in Edit /\ NoEdit.pc = "idle"
  <1>1. AnyMachine \in Machine
    BY MachineAssumption DEF AnyMachine
  <1>2. QED
    BY <1>1 DEF NoJob, Job, JobPC, NoEdit, Edit, EditPC

LEMMA EmptyQueue == <<>> \in Seq(State \cup {NoState})
  OBVIOUS

LEMMA GotoType ==
    ASSUME JobOK, NEW w \in Worker, NEW label \in JobPC, Goto(w, label)
    PROVE  JobOK'
  BY DEF JobOK, Goto, Job

LEMMA OverType ==
    ASSUME JobOK, NEW w \in Worker, Over(w)
    PROVE  JobOK'
  BY NullTypes DEF JobOK, Over

LEMMA VisitType ==
    ASSUME NEW label \in JobPC, NEW m \in Machine, NEW d \in Device \cup {NoDevice},
           NEW s \in State \cup {NoState}
    PROVE  Visit(label, m, d, s) \in Job
  BY DEF Visit, Job

LEMMA MappedRows ==
    ASSUME TableOK, NEW m \in Mapped
    PROVE  m \in Machine /\ row[m].device \in Device
  BY DEF TableOK, Mapped, RowType

-----------------------------------------------------------------------------
(* Type correctness, action by action *)

LEMMA InitType == Init => TypeOK
  <1> SUFFICES ASSUME Init PROVE TypeOK
    OBVIOUS
  <1>1. ApplianceOK
    BY DEF Init, ApplianceOK
  <1>2. TableOK
    <2>1. row \in [Machine -> RowType]
      BY DEF Init, RowType
    <2>2. QED
      BY <2>1 DEF Init, TableOK
  <1>3. MemoryOK
    <2>1. queue \in [Device -> Seq(State \cup {NoState})]
      BY EmptyQueue DEF Init
    <2>2. todo \in [Sweeper -> SUBSET (Machine \X Device)]
      BY DEF Init
    <2>3. QED
      BY <2>1, <2>2 DEF Init, MemoryOK
  <1>4. JobOK /\ EditOK
    BY NullTypes DEF Init, JobOK, EditOK
  <1>5. SpentOK
    BY DEF Init, SpentOK
  <1>6. QED
    BY <1>1, <1>2, <1>3, <1>4, <1>5, TypeParts

LEMMA SweepType ==
    ASSUME TypeOK, NEW w \in Sweeper, SweepBegin(w) \/ Sweep(w)
    PROVE  TypeOK'
  <1> USE TypeParts, TypePartsNext, TableSame, OtherSame
  <1>0. w \in Worker
    BY WorkerTypes
  <1>1. CASE SweepBegin(w)
    <2>1. \A m \in Visited(w) : <<m, row[m].device>> \in Machine \X Device
      BY MappedRows DEF Visited
    <2>2. MemoryOK'
      BY <1>1, <2>1 DEF SweepBegin, MemoryOK
    <2>3. JobOK'
      BY <1>0, <1>1, GotoType DEF SweepBegin, JobPC
    <2>4. QED
      BY <1>1, <2>2, <2>3 DEF SweepBegin
  <1>2. CASE Request(w)
    <2>1. PICK e \in todo[w] :
            /\ todo' = [todo EXCEPT ![w] = @ \ {e}]
            /\ job' = [job EXCEPT ![w] = Visit("response", e[1], e[2], appliance[e[2]])]
      BY <1>2 DEF Request
    <2>2. e[1] \in Machine /\ e[2] \in Device
      BY DEF MemoryOK
    <2>3. MemoryOK'
      BY <1>2, <2>1 DEF Request, MemoryOK
    <2>4. JobOK'
      <3>1. appliance[e[2]] \in State
        BY <2>2 DEF ApplianceOK
      <3>2. Visit("response", e[1], e[2], appliance[e[2]]) \in Job
        BY <2>2, <3>1, VisitType DEF JobPC
      <3>3. QED
        BY <1>0, <2>1, <3>2 DEF JobOK
    <2>5. QED
      BY <1>2, <2>3, <2>4 DEF Request
  <1>3. CASE Response(w)
    <2>1. job[w].state \in State \cup {NoState}
      BY <1>0 DEF JobOK, Job
    <2>2. MemoryOK'
      BY <1>3, <2>1 DEF Response, MemoryOK
    <2>3. JobOK'
      BY <1>0, <1>3, GotoType DEF Response, FirstStep, JobPC
    <2>4. QED
      BY <1>3, <2>2, <2>3 DEF Response
  <1>4. CASE SweepEnd(w)
    <2>1. MemoryOK' /\ JobOK'
      BY <1>0, <1>4, NullTypes DEF SweepEnd, MemoryOK, JobOK
    <2>2. QED
      BY <1>4, <2>1 DEF SweepEnd
  <1>5. QED
    BY <1>1, <1>2, <1>3, <1>4 DEF Sweep

LEMMA PushType ==
    ASSUME TypeOK, NEW d \in Device, PushBegin(d)
    PROVE  TypeOK'
  <1> DEFINE merged == Merge(cache[d], Head(queue[d]))
  <1> USE TypeParts, TypePartsNext, TableSame, OtherSame
  <1>1. queue[d] \in Seq(State \cup {NoState}) /\ queue[d] # <<>>
    BY DEF PushBegin, MemoryOK
  <1>2. Head(queue[d]) \in State \cup {NoState} /\ Tail(queue[d]) \in Seq(State \cup {NoState})
    BY <1>1
  <1>3. merged \in State \cup {NoState}
    BY <1>2 DEF Merge, MemoryOK
  <1>4. queue' \in [Device -> Seq(State \cup {NoState})]
    BY <1>2 DEF PushBegin, MemoryOK
  <1>5. cache' \in [Device -> State \cup {NoState}]
    BY <1>3 DEF PushBegin, MemoryOK
  <1>6. MemoryOK'
    BY <1>4, <1>5 DEF PushBegin, MemoryOK
  <1>7. JobOK'
    <2>1. CASE UNCHANGED job
      BY <2>1
    <2>2. CASE \E m \in Mapped :
                 job' = [job EXCEPT ![d] = Visit(FirstStep(merged), m, d, merged)]
      <3>1. PICK m \in Mapped :
                 job' = [job EXCEPT ![d] = Visit(FirstStep(merged), m, d, merged)]
        BY <2>2
      <3>2. Visit(FirstStep(merged), m, d, merged) \in Job
        BY <1>3, VisitType, MappedRows DEF FirstStep, JobPC
      <3>3. QED
        BY <3>1, <3>2 DEF JobOK
    <2>3. QED
      BY <2>1, <2>2 DEF PushBegin
  <1>8. QED
    BY <1>6, <1>7 DEF PushBegin

LEMMA ShownType ==
    ASSUME TableOK, NEW m \in Machine, NEW s \in State \cup {NoState}
    PROVE  /\ Shown(m, s) \in RowType
           /\ Shown(m, s).device = row[m].device
           /\ Shown(m, s).state = s
  <1>1. row[m] \in RowType
    BY DEF TableOK
  <1>2. QED
    BY <1>1 DEF Shown, RowType

LEMMA AfterWriteType ==
    ASSUME JobOK, NEW w \in Worker, AfterWrite(w)
    PROVE  JobOK'
  <1>1. CASE Goto(w, "alert") \/ Goto(w, "recheck") \/ Goto(w, "finish")
    BY <1>1, GotoType DEF JobPC
  <1>2. CASE Over(w)
    BY <1>2, OverType
  <1>3. QED
    BY <1>1, <1>2 DEF AfterWrite

LEMMA UpdateType ==
    ASSUME TypeOK, NEW w \in Worker, Update(w)
    PROVE  TypeOK'
  <1> DEFINE m == job[w].machine
  <1> USE TypeParts, TypePartsNext, TableSame, MemorySame, OtherSame
  <1>0. job[w] \in Job /\ m \in Machine /\ job[w].state \in State \cup {NoState}
        /\ job[w].device \in Device \cup {NoDevice}
    BY DEF JobOK, Job
  <1>1. CASE Previous(w)
    <2>1. JobOK'
      BY <1>0, <1>1 DEF Previous, JobOK, Job, JobPC
    <2>2. QED
      BY <1>1, <2>1 DEF Previous
  <1>2. CASE Write(w)
    <2>1. JobOK'
      BY <1>2, AfterWriteType, OverType DEF Write
    <2>2. row' \in [Machine -> RowType]
      BY <1>0, <1>2, ShownType DEF Write, TableOK
    <2>3. source' \in [Machine -> Device \cup {NoDevice}]
      BY <1>0, <1>2 DEF Write, TableOK
    <2>4. alerted' \in [Machine -> SUBSET Worker]
      BY <1>0, <1>2 DEF Write, TableOK, AlertsFor
    <2>5. TableOK'
      BY <1>2, <2>2, <2>3, <2>4 DEF Write, TableOK
    <2>6. QED
      BY <1>2, <2>1, <2>5 DEF Write
  <1>3. CASE Alert(w)
    <2>1. JobOK'
      BY <1>3, OverType DEF Alert
    <2>2. alerted' \in [Machine -> SUBSET Worker]
      BY <1>0, <1>3 DEF Alert, TableOK
    <2>3. TableOK'
      BY <1>3, <2>2 DEF Alert, TableOK
    <2>4. QED
      BY <1>3, <2>1, <2>3 DEF Alert
  <1>4. CASE Recheck(w)
    <2>1. JobOK'
      BY <1>4, GotoType, OverType DEF Recheck, JobPC
    <2>2. QED
      BY <1>4, <2>1 DEF Recheck
  <1>5. CASE StartUsing(w)
    <2>1. JobOK'
      BY <1>5, OverType DEF StartUsing, Throw
    <2>2. TableOK'
      BY <1>0, <1>5 DEF StartUsing, TableOK
    <2>3. MemoryOK'
      BY <1>5 DEF StartUsing, Throw, MemoryOK
    <2>4. QED
      BY <1>5, <2>1, <2>2, <2>3 DEF StartUsing
  <1>6. CASE FinishUsing(w)
    <2>1. JobOK' /\ TableOK'
      BY <1>6, OverType DEF FinishUsing, TableOK
    <2>2. QED
      BY <1>6, <2>1 DEF FinishUsing
  <1>7. QED
    BY <1>1, <1>2, <1>3, <1>4, <1>5, <1>6 DEF Update

LEMMA PlugType ==
    ASSUME TypeOK, NEW m \in Machine, PlugWrites(m)
    PROVE  TypeOK'
  <1> USE TypeParts, TypePartsNext, MemorySame, OtherSame
  <1>1. PICK status \in {"IDLE", "DRY"} :
          /\ row' = [row EXCEPT ![m].status = status]
          /\ \/ job' = [job EXCEPT ![m] = Visit(IF status = "DRY" THEN "start"
                                                 ELSE "finish", m, NoDevice, NoState)]
             \/ UNCHANGED job
    BY DEF PlugWrites
  <1>2. row' \in [Machine -> RowType]
    BY <1>1 DEF TableOK, RowType
  <1>3. source' \in [Machine -> Device \cup {NoDevice}]
    BY DEF PlugWrites, TableOK
  <1>4. TableOK'
    BY <1>2, <1>3 DEF PlugWrites, TableOK
  <1>5. JobOK'
    <2>1. Visit(IF status = "DRY" THEN "start" ELSE "finish", m, NoDevice, NoState) \in Job
      BY VisitType DEF JobPC
    <2>2. QED
      BY <1>1, <2>1, WorkerTypes DEF JobOK
  <1>6. QED
    BY <1>4, <1>5 DEF PlugWrites

LEMMA EditType ==
    TypeOK /\ (\/ EditStep \/ EditFails
               \/ \E m \in Machine, d \in Device \cup {NoDevice} : EditBegin(m, d)
               \/ \E m \in Machine : DeleteMachine(m))
    => TypeOK'
  <1> SUFFICES ASSUME TypeOK,
                      \/ EditStep \/ EditFails
                      \/ \E m \in Machine, d \in Device \cup {NoDevice} : EditBegin(m, d)
                      \/ \E m \in Machine : DeleteMachine(m)
               PROVE  TypeOK'
    OBVIOUS
  <1> USE TypeParts, TypePartsNext, TableSame, MemorySame, OtherSame
  <1>0. edit \in Edit /\ edit.machine \in Machine /\ edit.device \in Device \cup {NoDevice}
    BY DEF EditOK, Edit
  <1>1. CASE EditPrevious
    <2>1. EditOK'
      BY <1>0, <1>1 DEF EditPrevious, EditGoto, EditOK, Edit, EditPC
    <2>2. QED
      BY <1>1, <2>1 DEF EditPrevious
  <1>2. CASE EditFinish
    <2>1. EditOK'
      BY <1>0, <1>2 DEF EditFinish, EditGoto, EditOK, Edit, EditPC
    <2>2. TableOK'
      BY <1>2 DEF EditFinish, TableOK
    <2>3. QED
      BY <1>2, <2>1, <2>2 DEF EditFinish
  <1>3. CASE EditRead
    <2>1. EditOK'
      BY <1>0, <1>3, NullTypes DEF EditRead, EditOK, Edit, EditPC
    <2>2. QED
      BY <1>3, <2>1 DEF EditRead
  <1>4. CASE EditUpdate
    <2>1. EditOK'
      BY <1>4, NullTypes DEF EditUpdate, EditOK
    <2>2. row' \in [Machine -> RowType]
      BY <1>0, <1>4 DEF EditUpdate, TableOK, RowType
    <2>3. alerted' \in [Machine -> SUBSET Worker]
      BY <1>0, <1>4 DEF EditUpdate, TableOK
    <2>4. TableOK'
      BY <1>4, <2>2, <2>3 DEF EditUpdate, TableOK
    <2>5. QED
      BY <1>4, <2>1, <2>4 DEF EditUpdate
  <1>5. CASE EditFails
    BY <1>5, NullTypes DEF EditFails, EditOK
  <1>6. ASSUME NEW m \in Machine, NEW d \in Device \cup {NoDevice}, EditBegin(m, d)
        PROVE  TypeOK'
    <2>1. EditOK'
      BY <1>6 DEF EditBegin, EditOK, Edit, EditPC
    <2>2. SpentOK'
      BY <1>6, SpendType DEF EditBegin
    <2>3. QED
      BY <1>6, <2>1, <2>2 DEF EditBegin
  <1>7. ASSUME NEW m \in Machine, DeleteMachine(m) PROVE TypeOK'
    <2>1. TableOK'
      BY <1>7 DEF DeleteMachine, TableOK
    <2>2. SpentOK'
      BY <1>7, SpendType DEF DeleteMachine
    <2>3. QED
      BY <1>7, <2>1, <2>2 DEF DeleteMachine
  <1>8. QED
    BY <1>1, <1>2, <1>3, <1>4, <1>5, <1>6, <1>7 DEF EditStep

\* The subscriptions, the appliances, failures and a restart.
LEMMA OutsideType ==
    TypeOK /\ (\/ RefreshBegin \/ Restart
               \/ \E d \in Device : \/ Unsubscribe(d) \/ ApplianceChanges(d)
                                    \/ TimerReport(d) \/ PushFails(d)
               \/ \E w \in Worker : JobFails(w))
    => TypeOK'
  <1> SUFFICES ASSUME TypeOK,
                      \/ RefreshBegin \/ Restart
                      \/ \E d \in Device : \/ Unsubscribe(d) \/ ApplianceChanges(d)
                                           \/ TimerReport(d) \/ PushFails(d)
                      \/ \E w \in Worker : JobFails(w)
               PROVE  TypeOK'
    OBVIOUS
  <1> USE TypeParts, TypePartsNext, TableSame, OtherSame
  <1>1. CASE RefreshBegin
    <2>1. MemoryOK'
      BY <1>1 DEF RefreshBegin, MemoryOK
    <2>2. QED
      BY <1>1, <2>1 DEF RefreshBegin
  <1>2. ASSUME NEW d \in Device, Unsubscribe(d) PROVE TypeOK'
    <2>1. MemoryOK'
      BY <1>2 DEF Unsubscribe, MemoryOK
    <2>2. QED
      BY <1>2, <2>1 DEF Unsubscribe
  <1>3. ASSUME NEW d \in Device, ApplianceChanges(d) PROVE TypeOK'
    <2>1. PICK s \in State : /\ appliance' = [appliance EXCEPT ![d] = s]
                             /\ queue' \in {[queue EXCEPT ![d] = Append(@, s)], queue}
      BY <1>3 DEF ApplianceChanges
    <2>2. Append(queue[d], s) \in Seq(State \cup {NoState})
      BY DEF MemoryOK
    <2>3. queue' \in [Device -> Seq(State \cup {NoState})]
      BY <2>1, <2>2 DEF MemoryOK
    <2>4. MemoryOK' /\ ApplianceOK'
      BY <1>3, <2>1, <2>3 DEF ApplianceChanges, MemoryOK, ApplianceOK
    <2>5. SpentOK'
      BY <1>3, SpendType DEF ApplianceChanges
    <2>6. QED
      BY <1>3, <2>4, <2>5 DEF ApplianceChanges
  <1>4. ASSUME NEW d \in Device, TimerReport(d) PROVE TypeOK'
    <2>1. Append(queue[d], NoState) \in Seq(State \cup {NoState})
      BY DEF MemoryOK
    <2>2. MemoryOK'
      BY <1>4, <2>1 DEF TimerReport, MemoryOK
    <2>3. SpentOK'
      BY <1>4, SpendType DEF TimerReport
    <2>4. QED
      BY <1>4, <2>2, <2>3 DEF TimerReport
  <1>5. ASSUME NEW d \in Device, PushFails(d) PROVE TypeOK'
    <2>1. queue[d] \in Seq(State \cup {NoState}) /\ queue[d] # <<>>
      BY <1>5 DEF PushFails, MemoryOK
    <2>2. Tail(queue[d]) \in Seq(State \cup {NoState})
      BY <2>1
    <2>3. MemoryOK'
      BY <1>5, <2>2 DEF PushFails, MemoryOK
    <2>4. SpentOK'
      BY <1>5, SpendType DEF PushFails
    <2>5. QED
      BY <1>5, <2>3, <2>4 DEF PushFails
  <1>6. ASSUME NEW w \in Worker, JobFails(w) PROVE TypeOK'
    <2>1. JobOK'
      BY <1>6, OverType DEF JobFails, Throw
    <2>2. MemoryOK'
      BY <1>6 DEF JobFails, Throw, MemoryOK
    <2>3. SpentOK'
      BY <1>6, SpendType DEF JobFails
    <2>4. QED
      BY <1>6, <2>1, <2>2, <2>3 DEF JobFails
  <1>7. CASE Restart
    <2>1. MemoryOK'
      <3>1. queue' \in [Device -> Seq(State \cup {NoState})]
        BY <1>7, EmptyQueue DEF Restart
      <3>2. todo' \in [Sweeper -> SUBSET (Machine \X Device)]
        BY <1>7 DEF Restart
      <3>3. QED
        BY <1>7, <3>1, <3>2 DEF Restart, MemoryOK
    <2>2. JobOK' /\ EditOK'
      BY <1>7, NullTypes DEF Restart, JobOK, EditOK
    <2>3. SpentOK'
      BY <1>7, SpendType DEF Restart
    <2>4. QED
      BY <1>7, <2>1, <2>2, <2>3 DEF Restart
  <1>8. QED
    BY <1>1, <1>2, <1>3, <1>4, <1>5, <1>6, <1>7

LEMMA NextType == TypeOK /\ [Next]_vars => TypeOK'
  <1> SUFFICES ASSUME TypeOK, [Next]_vars PROVE TypeOK'
    OBVIOUS
  <1>1. CASE UNCHANGED vars
    BY <1>1 DEF TypeOK, vars, machineVars, memoryVars
  <1>2. CASE \E w \in Worker : Work(w)
    BY <1>2, SweepType, PushType, UpdateType DEF Work
  <1>3. QED
    BY <1>1, <1>2, SweepType, PlugType, EditType, OutsideType DEF Next

\* Every reachable state is well typed, for any dryers, devices and bounds: no
\* report, known or not, gives a row a status other than IDLE or DRY.
THEOREM TypeCorrect == Spec => []TypeOK
  BY InitType, NextType, PTL DEF Spec

-----------------------------------------------------------------------------
(* Jobs under way *)

\* A job that has a report to apply; a start or a finish may also be a plug's.
Reporting(j) == j.pc \notin {"idle", "next", "start", "finish"}

\* A report is of a device, and what a job has asked for is no alert yet.
JobFine(j) ==
    /\ Reporting(j) => j.device \in Device
    /\ j.pc = "response" => ~ j.alert

JobInv == \A w \in Worker : JobFine(job[w])

LEMMA GotoFine ==
    ASSUME JobOK, JobInv, NEW w \in Worker, NEW label \in JobPC \ {"response"},
           Reporting(job[w]) \/ label \in {"next", "start", "finish"}, Goto(w, label)
    PROVE  JobInv'
  <1>1. /\ job'[w].pc = label /\ job'[w].device = job[w].device
        /\ \A v \in Worker \ {w} : job'[v] = job[v]
    BY DEF Goto, JobOK, Job
  <1>2. QED
    BY <1>1 DEF JobInv, JobFine, Reporting

LEMMA OverFine ==
    ASSUME JobOK, JobInv, NEW w \in Worker, Over(w)
    PROVE  JobInv'
  <1>1. /\ job'[w].pc \in {"idle", "next"}
        /\ \A v \in Worker \ {w} : job'[v] = job[v]
    BY NullTypes DEF Over, JobOK, Job
  <1>2. QED
    BY <1>1 DEF JobInv, JobFine, Reporting

LEMMA VisitFine ==
    ASSUME JobOK, JobInv, NEW w \in Worker, NEW label, NEW m, NEW d \in Device, NEW st,
           job' = [job EXCEPT ![w] = Visit(label, m, d, st)]
    PROVE  JobInv'
  BY DEF JobInv, JobFine, Reporting, JobOK, Visit

LEMMA JobSame == JobInv /\ UNCHANGED job => JobInv'
  BY DEF JobInv, JobFine, Reporting

LEMMA InitJob == Init => JobInv
  BY NullTypes DEF Init, JobInv, JobFine, Reporting

LEMMA WorkJob ==
    ASSUME TypeOK, JobInv, NEW w \in Worker, Work(w) \/ JobFails(w)
    PROVE  JobInv'
  <1> USE TypeParts, JobSame
  <1>1. CASE Request(w) /\ w \in Sweeper
    <2>1. PICK e \in todo[w] :
            job' = [job EXCEPT ![w] = Visit("response", e[1], e[2], appliance[e[2]])]
      BY <1>1 DEF Request
    <2>2. e[2] \in Device
      BY <1>1 DEF MemoryOK
    <2>3. QED
      BY <2>1, <2>2, VisitFine
  <1>2. CASE Response(w)
    BY <1>2, GotoFine DEF Response, FirstStep, Reporting, JobPC
  <1>3. CASE SweepEnd(w)
    <2>1. /\ job'[w].pc \in {"idle", "next"}
          /\ \A v \in Worker \ {w} : job'[v] = job[v]
      BY <1>3, NullTypes DEF SweepEnd, JobOK
    <2>2. QED
      BY <2>1 DEF JobInv, JobFine, Reporting
  <1>4. CASE PushBegin(w) /\ w \in Device
    BY <1>4, VisitFine DEF PushBegin
  <1>5. CASE Previous(w)
    <2>1. /\ job'[w].pc = "write" /\ job'[w].device = job[w].device
          /\ \A v \in Worker \ {w} : job'[v] = job[v]
      BY <1>5 DEF Previous, JobOK, Job
    <2>2. QED
      BY <1>5, <2>1 DEF Previous, JobInv, JobFine, Reporting
  <1>6. CASE Write(w)
    <2>1. CASE Over(w)
      BY <2>1, OverFine
    <2>2. CASE AfterWrite(w)
      <3>1. CASE Goto(w, "alert") \/ Goto(w, "recheck") \/ Goto(w, "finish")
        BY <1>6, <3>1, GotoFine DEF Write, Reporting, JobPC
      <3>2. CASE Over(w)
        BY <3>2, OverFine
      <3>3. QED
        BY <2>2, <3>1, <3>2 DEF AfterWrite
    <2>3. QED
      BY <1>6, <2>1, <2>2 DEF Write
  <1>7. CASE Alert(w) \/ StartUsing(w) \/ FinishUsing(w) \/ JobFails(w)
    BY <1>7, OverFine DEF Alert, StartUsing, FinishUsing, JobFails, Throw
  <1>8. CASE Recheck(w)
    BY <1>8, OverFine, GotoFine DEF Recheck, Reporting, JobPC
  <1>9. QED
    BY <1>1, <1>2, <1>3, <1>4, <1>5, <1>6, <1>7, <1>8 DEF Work, Sweep, Update

LEMMA NextJob == TypeOK /\ JobInv /\ [Next]_vars => JobInv'
  <1> SUFFICES ASSUME TypeOK, JobInv, [Next]_vars PROVE JobInv'
    OBVIOUS
  <1>1. CASE \E w \in Worker : Work(w) \/ JobFails(w)
    BY <1>1, WorkJob
  <1>2. ASSUME NEW w \in Sweeper, SweepBegin(w) PROVE JobInv'
    BY <1>2, GotoFine, WorkerTypes, TypeParts DEF SweepBegin, JobPC
  <1>3. CASE EditStep \/ EditFails \/ RefreshBegin \/ UNCHANGED vars
    BY <1>3, JobSame DEF EditStep, EditPrevious, EditFinish, EditRead, EditUpdate,
                         EditFails, RefreshBegin, vars
  <1>0. ASSUME NEW m \in Machine, PlugWrites(m) PROVE JobInv'
    <2>1. m \in Worker /\ JobOK
      BY WorkerTypes, TypeParts
    <2>2. job'[m].pc \in {"start", "finish", "idle"}
      BY <1>0, <2>1 DEF PlugWrites, Visit, JobOK
    <2>3. \A v \in Worker \ {m} : job'[v] = job[v]
      BY <1>0, <2>1 DEF PlugWrites, JobOK
    <2>4. QED
      BY <2>2, <2>3 DEF JobInv, JobFine, Reporting
  <1>4. ASSUME NEW m \in Machine, NEW d \in Device \cup {NoDevice},
               EditBegin(m, d) \/ DeleteMachine(m)
        PROVE  JobInv'
    BY <1>4, JobSame DEF EditBegin, DeleteMachine
  <1>5. ASSUME NEW d \in Device,
               Unsubscribe(d) \/ ApplianceChanges(d) \/ TimerReport(d) \/ PushFails(d)
        PROVE  JobInv'
    BY <1>5, JobSame DEF Unsubscribe, ApplianceChanges, TimerReport, PushFails
  <1>6. CASE Restart
    BY <1>6, NullTypes DEF Restart, JobInv, JobFine, Reporting
  <1>7. QED
    BY <1>0, <1>1, <1>2, <1>3, <1>4, <1>5, <1>6 DEF Next

-----------------------------------------------------------------------------
(* What a row shows *)

\* A row without a mapping shows nothing of ThinQ: the reset of an unmapping leaves
\* nothing.  A status DRY is then the plug's, by ShownIsOfMappedDevice.
UnmappedInv ==
    \A m \in Machine : row[m].device = NoDevice => row[m].state = NoState

\* An edit about to update still knows whether it replaces a mapping.
ResetInv ==
    LET m == edit.machine IN
    edit.pc = "update" /\ m \notin deleted =>
        (edit.reset <=> row[m].device # NoDevice /\ row[m].device # edit.device)

ShownInv == ShownIsOfMappedDevice /\ UnmappedInv /\ ResetInv

LEMMA InitShown == Init => ShownInv
  <1> SUFFICES ASSUME Init PROVE ShownInv
    OBVIOUS
  <1>1. \A m \in Machine : row[m].state = NoState /\ row[m].status = "IDLE"
    BY DEF Init
  <1>2. edit.pc = "idle"
    BY NullTypes DEF Init
  <1>3. QED
    BY <1>1, <1>2 DEF ShownInv, ShownIsOfMappedDevice, UnmappedInv, ResetInv

\* Steps that leave the rows alone and begin no update of the mapping.
LEMMA ShownSame ==
    ASSUME ShownInv, UNCHANGED <<row, source>>, deleted \subseteq deleted',
           edit'.pc = "update" => UNCHANGED edit
    PROVE  ShownInv'
  BY DEF ShownInv, ShownIsOfMappedDevice, UnmappedInv, ResetInv

LEMMA WriteShown ==
    ASSUME TypeOK, JobInv, ShownInv, NEW w \in Worker, Write(w)
    PROVE  ShownInv'
  <1> DEFINE m == job[w].machine
             d == job[w].device
  <1>1. m \in Machine /\ job[w].state \in State \cup {NoState} /\ TableOK
    BY TypeParts DEF JobOK, Job
  <1>2. d \in Device /\ d # NoDevice
    BY DeviceAssumption DEF Write, JobInv, JobFine, Reporting
  <1>3. CASE UNCHANGED <<row, source>>
    BY <1>3, ShownSame DEF Write
  <1>4. CASE /\ row[m].device = d
             /\ row' = [row EXCEPT ![m] = Shown(m, job[w].state)]
             /\ source' = [source EXCEPT ![m] = d]
    <2>1. row'[m].device = d /\ source'[m] = d
      BY <1>1, <1>4, ShownType DEF TableOK
    <2>2. \A k \in Machine \ {m} : row'[k] = row[k] /\ source'[k] = source[k]
      BY <1>1, <1>4 DEF TableOK
    <2>3. \A k \in Machine : row'[k].device = row[k].device
      BY <1>4, <2>1, <2>2
    <2>4. ShownIsOfMappedDevice'
      BY <2>1, <2>2 DEF ShownInv, ShownIsOfMappedDevice
    <2>5. UnmappedInv'
      BY <1>2, <2>1, <2>2 DEF ShownInv, UnmappedInv
    <2>6. UNCHANGED <<edit, deleted>> /\ edit.machine \in Machine
      BY TypeParts DEF Write, EditOK, Edit
    <2>7. ResetInv'
      BY <2>3, <2>6 DEF ShownInv, ResetInv
    <2>8. QED
      BY <2>4, <2>5, <2>7 DEF ShownInv
  <1>5. QED
    BY <1>3, <1>4 DEF Write

LEMMA PlugShown ==
    ASSUME TypeOK, ShownInv, NEW m \in Machine, PlugWrites(m)
    PROVE  ShownInv'
  <1>0. PICK status \in {"IDLE", "DRY"} : row' = [row EXCEPT ![m].status = status]
    BY DEF PlugWrites
  <1>1. TableOK /\ row[m].device = NoDevice /\ UNCHANGED <<edit, deleted>>
    BY TypeParts DEF PlugWrites
  <1>2. /\ row'[m].device = row[m].device /\ row'[m].state = row[m].state
        /\ source'[m] = NoDevice
        /\ \A k \in Machine \ {m} : row'[k] = row[k] /\ source'[k] = source[k]
    BY <1>0, <1>1 DEF PlugWrites, TableOK, RowType
  <1>3. edit.machine \in Machine
    BY TypeParts DEF EditOK, Edit
  <1>4. ShownIsOfMappedDevice' /\ UnmappedInv'
    BY <1>1, <1>2 DEF ShownInv, ShownIsOfMappedDevice, UnmappedInv
  <1>5. ResetInv'
    BY <1>1, <1>2, <1>3 DEF ShownInv, ResetInv
  <1>6. QED
    BY <1>4, <1>5 DEF ShownInv

LEMMA EditShown ==
    TypeOK /\ ShownInv /\ EditStep => ShownInv'
  <1> SUFFICES ASSUME TypeOK, ShownInv, EditStep PROVE ShownInv'
    OBVIOUS
  <1> DEFINE m == edit.machine
  <1>0. edit \in Edit /\ m \in Machine /\ TableOK
    BY TypeParts DEF EditOK, Edit
  <1>1. CASE EditPrevious
    <2>1. edit'.pc \in {"finish", "read"}
      BY <1>0, <1>1 DEF EditPrevious, EditGoto, Edit
    <2>2. QED
      BY <1>1, <2>1, ShownSame DEF EditPrevious, machineVars
  <1>2. CASE EditFinish
    <2>1. edit'.pc = "read"
      BY <1>0, <1>2 DEF EditFinish, EditGoto, Edit
    <2>2. QED
      BY <1>2, <2>1, ShownSame DEF EditFinish
  <1>3. CASE EditRead
    <2>1. UNCHANGED <<row, source, deleted>>
      BY <1>3 DEF EditRead, machineVars
    <2>2. CASE m \in deleted
      <3>1. edit'.pc = "idle"
        BY <1>3, <2>2, NullTypes DEF EditRead
      <3>2. QED
        BY <2>1, <3>1, ShownSame
    <2>3. CASE m \notin deleted
      <3>1. /\ edit'.machine = m /\ edit'.device = edit.device
            /\ edit'.reset <=> (m \in Mapped /\ row[m].device # edit.device)
        BY <1>0, <1>3, <2>3 DEF EditRead, Edit
      <3>2. m \in Mapped <=> row[m].device # NoDevice
        BY <1>0, <2>3 DEF Mapped
      <3>3. ResetInv'
        BY <2>1, <3>1, <3>2 DEF ResetInv
      <3>4. QED
        BY <2>1, <3>3 DEF ShownInv, ShownIsOfMappedDevice, UnmappedInv
    <2>4. QED
      BY <2>2, <2>3
  <1>4. CASE EditUpdate
    <2>0. edit'.pc = "idle" /\ UNCHANGED <<source, deleted>>
      BY <1>4, NullTypes DEF EditUpdate
    <2>1. CASE UNCHANGED row
      BY <2>0, <2>1, ShownSame
    <2>2. CASE /\ m \notin deleted
               /\ row' = [row EXCEPT ![m] =
                            IF edit.reset
                            THEN [device |-> edit.device, status |-> "IDLE",
                                  state |-> NoState]
                            ELSE [@ EXCEPT !.device = edit.device]]
      <3>1. \A k \in Machine \ {m} : row'[k] = row[k]
        BY <1>0, <2>2 DEF TableOK
      <3>2. row'[m].device = edit.device
        BY <1>0, <2>2 DEF TableOK, RowType
      <3>3. CASE edit.reset
        <4>1. row'[m].state = NoState /\ row'[m].status = "IDLE"
          BY <1>0, <2>2, <3>3 DEF TableOK
        <4>2. QED
          BY <2>0, <3>1, <4>1
             DEF ShownInv, ShownIsOfMappedDevice, UnmappedInv, ResetInv
      <3>4. CASE ~ edit.reset
        <4>1. row'[m].state = row[m].state /\ row'[m].status = row[m].status
          BY <1>0, <2>2, <3>4 DEF TableOK, RowType
        <4>2. row[m].device = NoDevice \/ row[m].device = edit.device
          BY <1>4, <2>2, <3>4 DEF EditUpdate, ShownInv, ResetInv
        <4>3. QED
          BY <1>0, <2>0, <3>1, <3>2, <4>1, <4>2
             DEF ShownInv, ShownIsOfMappedDevice, UnmappedInv, ResetInv
      <3>5. QED
        BY <3>3, <3>4
    <2>3. QED
      BY <1>4, <2>1, <2>2 DEF EditUpdate
  <1>5. QED
    BY <1>1, <1>2, <1>3, <1>4 DEF EditStep

LEMMA NextShown == TypeOK /\ JobInv /\ ShownInv /\ [Next]_vars => ShownInv'
  <1> SUFFICES ASSUME TypeOK, JobInv, ShownInv, [Next]_vars PROVE ShownInv'
    OBVIOUS
  <1>1. ASSUME NEW w \in Worker, Work(w) \/ JobFails(w) PROVE ShownInv'
    <2>1. CASE Write(w)
      BY <2>1, WriteShown
    <2>2. CASE Previous(w) \/ Alert(w) \/ Recheck(w) \/ StartUsing(w) \/ FinishUsing(w)
               \/ JobFails(w)
      BY <2>2, ShownSame DEF Previous, Alert, Recheck, StartUsing, FinishUsing, JobFails,
                             machineVars
    <2>3. CASE Sweep(w) \/ PushBegin(w)
      BY <2>3, ShownSame DEF Sweep, Request, Response, SweepEnd, PushBegin, machineVars
    <2>4. QED
      BY <1>1, <2>1, <2>2, <2>3 DEF Work, Update
  <1>2. ASSUME NEW w \in Sweeper, SweepBegin(w) PROVE ShownInv'
    BY <1>2, ShownSame DEF SweepBegin, machineVars
  <1>3. CASE RefreshBegin \/ UNCHANGED vars
    BY <1>3, ShownSame DEF RefreshBegin, vars, machineVars
  <1>4. CASE EditFails \/ Restart
    <2>1. edit'.pc = "idle" /\ UNCHANGED machineVars
      BY <1>4, NullTypes DEF EditFails, Restart
    <2>2. QED
      BY <2>1, ShownSame DEF machineVars
  <1>5. ASSUME NEW m \in Machine, NEW d \in Device \cup {NoDevice},
               EditBegin(m, d) \/ DeleteMachine(m)
        PROVE  ShownInv'
    BY <1>5, ShownSame DEF EditBegin, DeleteMachine, machineVars
  <1>6. ASSUME NEW d \in Device,
               Unsubscribe(d) \/ ApplianceChanges(d) \/ TimerReport(d) \/ PushFails(d)
        PROVE  ShownInv'
    BY <1>6, ShownSame DEF Unsubscribe, ApplianceChanges, TimerReport, PushFails,
                           machineVars
  <1>7. QED
    BY <1>1, <1>2, <1>3, <1>4, <1>5, <1>6, PlugShown, EditShown DEF Next

\* What a row shows of ThinQ always comes from the device it is mapped to now, for
\* any number of dryers, devices, late answers and edits; a status DRY comes from
\* there too, or from the plug that the dryer had before its first mapping.
THEOREM ShownIsOfMappedDeviceHolds == Spec => []ShownIsOfMappedDevice
  <1>1. ShownInv => ShownIsOfMappedDevice
    BY DEF ShownInv
  <1>2. QED
    BY <1>1, InitJob, NextJob, InitShown, NextShown, TypeCorrect, PTL DEF Spec

-----------------------------------------------------------------------------
(* Alerts *)

\* Alerts are remembered for an ERROR that the row shows.
FaultInv == \A m \in Machine : alerted[m] # {} => row[m].state = Fault

\* A worker that takes an ERROR for news has not alerted it.
NewsInv ==
    \A w \in Worker :
        \/ job[w].pc = "write" /\ job[w].alert
        \/ job[w].pc = "alert"
        => w \notin alerted[job[w].machine]

AlertInv == FaultInv /\ NewsInv

LEMMA InitAlert == Init => AlertInv
  BY NullTypes DEF Init, AlertInv, FaultInv, NewsInv

\* Steps that leave the rows alone, and take no job to where it alerts.
LEMMA AlertSame ==
    ASSUME AlertInv, UNCHANGED <<row, alerted>>,
           \A w \in Worker : \/ job'[w] = job[w]
                             \/ job'[w].pc \notin {"write", "alert"}
                             \/ job'[w].pc = "write" /\ ~ job'[w].alert
    PROVE  AlertInv'
  BY DEF AlertInv, FaultInv, NewsInv

LEMMA OverAlert ==
    ASSUME JobOK, NEW w \in Worker, Over(w)
    PROVE  /\ job'[w].pc \in {"idle", "next"}
           /\ \A v \in Worker \ {w} : job'[v] = job[v]
  BY NullTypes DEF Over, JobOK, Job

LEMMA GotoAlert ==
    ASSUME JobOK, NEW w \in Worker, NEW label, Goto(w, label)
    PROVE  /\ job'[w].pc = label
           /\ job'[w].machine = job[w].machine
           /\ job'[w].alert = job[w].alert
           /\ \A v \in Worker \ {w} : job'[v] = job[v]
  BY DEF Goto, JobOK, Job

LEMMA UpdateAlert ==
    ASSUME TypeOK, AlertInv, NEW w \in Worker, Update(w)
    PROVE  AlertInv'
  <1> DEFINE m == job[w].machine
  <1>0. /\ JobOK /\ TableOK /\ m \in Machine
        /\ job[w].state \in State \cup {NoState} /\ job[w].alert \in BOOLEAN
    BY TypeParts DEF JobOK, Job
  <1>1. CASE Previous(w)
    <2>1. /\ UNCHANGED <<row, alerted>>
          /\ job'[w].machine = m /\ job'[w].pc = "write"
          /\ job'[w].alert <=> row[m].state # Fault
          /\ \A v \in Worker \ {w} : job'[v] = job[v]
      BY <1>0, <1>1 DEF Previous, machineVars, JobOK, Job
    <2>2. job'[w].alert => alerted[m] = {}
      BY <1>0, <2>1 DEF AlertInv, FaultInv
    <2>3. QED
      BY <2>1, <2>2 DEF AlertInv, FaultInv, NewsInv
  <1>2. CASE Write(w)
    <2>1. CASE UNCHANGED <<row, source, alerted>> /\ Over(w)
      BY <1>0, <2>1, OverAlert, AlertSame
    <2>2. CASE /\ row' = [row EXCEPT ![m] = Shown(m, job[w].state)]
               /\ alerted' = [alerted EXCEPT ![m] = AlertsFor(m, job[w].state)]
               /\ AfterWrite(w)
      <3>1. /\ row'[m].state = job[w].state
            /\ alerted'[m] = IF job[w].state = Fault THEN alerted[m] ELSE {}
            /\ \A k \in Machine \ {m} : row'[k] = row[k] /\ alerted'[k] = alerted[k]
        BY <1>0, <2>2, ShownType DEF TableOK, AlertsFor
      <3>2. FaultInv'
        BY <3>1 DEF AlertInv, FaultInv
      <3>3. /\ \A v \in Worker \ {w} : job'[v] = job[v]
            /\ \/ job'[w].pc \notin {"write", "alert"}
               \/ job'[w].pc = "alert" /\ job'[w].machine = m /\ job[w].alert
        <4>1. CASE job[w].alert
          BY <1>0, <2>2, <4>1, GotoAlert DEF AfterWrite
        <4>2. CASE ~ job[w].alert
          <5>1. CASE Goto(w, "recheck") \/ Goto(w, "finish")
            BY <1>0, <5>1, GotoAlert
          <5>2. CASE Over(w)
            BY <1>0, <5>2, OverAlert
          <5>3. QED
            BY <2>2, <4>2, <5>1, <5>2 DEF AfterWrite
        <4>3. QED
          BY <1>0, <4>1, <4>2
      <3>4. \A k \in Machine : alerted'[k] \subseteq alerted[k]
        BY <3>1
      <3>5. NewsInv'
        <4>1. \A v \in Worker : job[v].machine \in Machine
          BY <1>0 DEF JobOK, Job
        <4>2. job[w].alert => w \notin alerted[m]
          BY <1>2 DEF Write, AlertInv, NewsInv
        <4>3. QED
          BY <1>0, <3>3, <3>4, <4>1, <4>2 DEF AlertInv, NewsInv
      <3>6. QED
        BY <3>2, <3>5 DEF AlertInv
    <2>3. QED
      BY <1>2, <2>1, <2>2 DEF Write
  <1>3. CASE Alert(w)
    <2>1. /\ UNCHANGED row
          /\ job'[w].pc \in {"idle", "next"}
          /\ \A v \in Worker \ {w} : job'[v] = job[v]
      BY <1>0, <1>3, OverAlert DEF Alert
    <2>2. \A k \in Machine :
            \/ alerted'[k] = alerted[k]
            \/ alerted'[k] = alerted[k] \cup {w} /\ row[k].state = Fault
      BY <1>0, <1>3 DEF Alert, TableOK
    <2>3. FaultInv'
      BY <2>1, <2>2 DEF AlertInv, FaultInv
    <2>4. NewsInv'
      <3>1. \A v \in Worker : job[v].machine \in Machine
        BY <1>0 DEF JobOK, Job
      <3>2. QED
        BY <2>1, <2>2, <3>1 DEF AlertInv, NewsInv
    <2>5. QED
      BY <2>3, <2>4 DEF AlertInv
  <1>4. CASE Recheck(w) \/ StartUsing(w) \/ FinishUsing(w)
    <2>1. UNCHANGED <<row, alerted>>
      BY <1>4 DEF Recheck, StartUsing, FinishUsing, machineVars
    <2>2. Over(w) \/ Goto(w, "start")
      BY <1>4 DEF Recheck, StartUsing, FinishUsing, Throw
    <2>3. QED
      BY <1>0, <2>1, <2>2, OverAlert, GotoAlert, AlertSame
  <1>5. QED
    BY <1>1, <1>2, <1>3, <1>4 DEF Update

LEMMA NextAlert == TypeOK /\ JobInv /\ AlertInv /\ [Next]_vars => AlertInv'
  <1> SUFFICES ASSUME TypeOK, JobInv, AlertInv, [Next]_vars PROVE AlertInv'
    OBVIOUS
  <1>0. JobOK /\ TableOK
    BY TypeParts
  <1>1. ASSUME NEW w \in Worker, Update(w) PROVE AlertInv'
    BY <1>1, UpdateAlert
  <1>2. ASSUME NEW w \in Worker, Request(w) \/ SweepEnd(w) \/ PushBegin(w)
        PROVE  AlertInv'
    <2>1. UNCHANGED <<row, alerted>>
      BY <1>2 DEF Request, SweepEnd, PushBegin, machineVars
    <2>2. \A v \in Worker : \/ job'[v] = job[v]
                            \/ job'[v].pc \notin {"write", "alert"}
                            \/ job'[v].pc = "write" /\ ~ job'[v].alert
      BY <1>0, <1>2, NullTypes
         DEF Request, SweepEnd, PushBegin, Visit, FirstStep, JobOK
    <2>3. QED
      BY <2>1, <2>2, AlertSame
  <1>3. ASSUME NEW w \in Worker, Response(w) PROVE AlertInv'
    <2>1. UNCHANGED <<row, alerted>> /\ Goto(w, FirstStep(job[w].state))
      BY <1>3 DEF Response, machineVars
    <2>2. ~ job'[w].alert /\ job'[w].pc \in {"previous", "write"}
      BY <1>0, <1>3, <2>1, GotoAlert DEF Response, FirstStep, JobInv, JobFine
    <2>3. QED
      BY <1>0, <2>1, <2>2, GotoAlert, AlertSame
  <1>4. ASSUME NEW w \in Worker, JobFails(w) PROVE AlertInv'
    BY <1>0, <1>4, OverAlert, AlertSame DEF JobFails, Throw, machineVars
  <1>5. ASSUME NEW w \in Sweeper, SweepBegin(w) PROVE AlertInv'
    BY <1>0, <1>5, WorkerTypes, GotoAlert, AlertSame DEF SweepBegin, machineVars
  <1>6. CASE EditUpdate
    <2>1. UNCHANGED job /\ edit.machine \in Machine
      BY <1>6, TypeParts DEF EditUpdate, EditOK, Edit
    <2>2. \A k \in Machine : /\ alerted'[k] \subseteq alerted[k]
                             /\ alerted'[k] # {} => row'[k].state = row[k].state
      BY <1>0, <1>6, <2>1 DEF EditUpdate, TableOK, RowType
    <2>3. \A v \in Worker : job[v].machine \in Machine
      BY <1>0 DEF JobOK, Job
    <2>4. QED
      BY <2>1, <2>2, <2>3 DEF AlertInv, FaultInv, NewsInv
  <1>7. CASE EditPrevious \/ EditFinish \/ EditRead \/ EditFails \/ RefreshBegin
             \/ UNCHANGED vars
    BY <1>7, AlertSame DEF EditPrevious, EditFinish, EditRead, EditFails, RefreshBegin,
                           vars, machineVars
  <1>12. ASSUME NEW m \in Machine, PlugWrites(m) PROVE AlertInv'
    <2>1. m \in Worker
      BY WorkerTypes
    <2>2. /\ UNCHANGED alerted
          /\ \A k \in Machine : row'[k].state = row[k].state
      BY <1>0, <1>12 DEF PlugWrites, TableOK, RowType
    <2>3. job'[m].pc \in {"start", "finish", "idle"}
      BY <1>0, <1>12, <2>1 DEF PlugWrites, Visit, JobOK
    <2>4. \A v \in Worker \ {m} : job'[v] = job[v]
      BY <1>0, <1>12, <2>1 DEF PlugWrites, JobOK
    <2>5. QED
      BY <2>2, <2>3, <2>4 DEF AlertInv, FaultInv, NewsInv
  <1>8. ASSUME NEW m \in Machine, NEW d \in Device \cup {NoDevice},
               EditBegin(m, d) \/ DeleteMachine(m)
        PROVE  AlertInv'
    BY <1>8, AlertSame DEF EditBegin, DeleteMachine, machineVars
  <1>9. ASSUME NEW d \in Device,
               Unsubscribe(d) \/ ApplianceChanges(d) \/ TimerReport(d) \/ PushFails(d)
        PROVE  AlertInv'
    BY <1>9, AlertSame DEF Unsubscribe, ApplianceChanges, TimerReport, PushFails,
                           machineVars
  <1>10. CASE Restart
    BY <1>10, NullTypes, AlertSame DEF Restart, machineVars
  <1>11. QED
    BY <1>12, <1>1, <1>2, <1>3, <1>4, <1>5, <1>6, <1>7, <1>8, <1>9, <1>10
       DEF Next, Work, Sweep, EditStep

\* "Compare against the stored snapshot so repeated polls do not re-alert": no poll,
\* reconnect snapshot or push chain alerts twice while a row shows an ERROR.
THEOREM AlertIsNewsHolds == Spec => []AlertIsNews
  <1>1. AlertInv => AlertIsNews
    BY DEF AlertInv, NewsInv, AlertIsNews
  <1>2. QED
    BY <1>1, InitJob, NextJob, InitAlert, NextAlert, TypeCorrect, PTL DEF Spec
-----------------------------------------------------------------------------
(* The session table *)

\* What this module knows of the holder of a machine.
OpenHolder == [m \in Machine |-> IF m \in open THEN "occupied" ELSE "free"]

\* The session table that UsageSession implements, without users.
Table == INSTANCE Occupancy WITH User <- {}, NoUser <- "occupied",
                                 Free <- "free", holder <- OpenHolder

\* A session that is opened or closed, or neither, on a machine that exists.
LEMMA OpenMoves ==
    ASSUME NEW m \in Machine, UNCHANGED deleted,
           m \in deleted => open' = open,
           open' \in {open, open \cup {m}, open \ {m}}
    PROVE  Table!Next \/ UNCHANGED <<OpenHolder, deleted>>
  <1>1. CASE open' = open
    BY <1>1 DEF OpenHolder
  <1>2. CASE open' # open /\ open' = open \cup {m}
    <2>1. m \notin deleted /\ m \notin open
      BY <1>2
    <2>2. OpenHolder' = [OpenHolder EXCEPT ![m] = "occupied"]
      BY <1>2 DEF OpenHolder
    <2>3. OpenHolder[m] = "free"
      BY <2>1 DEF OpenHolder
    <2>4. Table!Start(m)
      BY <2>1, <2>2, <2>3 DEF Table!Start
    <2>5. QED
      BY <2>4 DEF Table!Next
  <1>3. CASE open' # open /\ open' = open \ {m}
    <2>1. m \notin deleted /\ m \in open
      BY <1>3
    <2>2. OpenHolder' = [OpenHolder EXCEPT ![m] = "free"]
      BY <1>3 DEF OpenHolder
    <2>3. OpenHolder[m] # "free"
      BY <2>1 DEF OpenHolder
    <2>4. Table!Finish(m)
      BY <2>1, <2>2, <2>3 DEF Table!Finish
    <2>5. QED
      BY <2>4 DEF Table!Next
  <1>4. QED
    BY <1>1, <1>2, <1>3

\* Pushes, polls, reconnect snapshots and admin edits touch sessions only by the
\* operations of the session table, each as a single step: a session is started or
\* finished on a machine that is not deleted, whatever has happened since the job
\* or the request last looked.
THEOREM SessionsOfOccupancy == Spec => Table!Spec
  <1>1. Init => Table!Init
    BY DEF Init, Table!Init, OpenHolder
  <1>2. TypeOK /\ [Next]_vars => [Table!Next]_<<OpenHolder, deleted>>
    <2> SUFFICES ASSUME TypeOK, [Next]_vars
                 PROVE  Table!Next \/ UNCHANGED <<OpenHolder, deleted>>
      OBVIOUS
    <2>1. ASSUME NEW w \in Worker, StartUsing(w) \/ FinishUsing(w)
          PROVE  Table!Next \/ UNCHANGED <<OpenHolder, deleted>>
      <3>1. PICK m \in Machine : m = job[w].machine
        BY TypeParts DEF JobOK, Job
      <3>2. UNCHANGED deleted /\ (m \in deleted => open' = open)
        BY <2>1, <3>1 DEF StartUsing, FinishUsing
      <3>3. open' \in {open, open \cup {m}, open \ {m}}
        BY <2>1, <3>1 DEF StartUsing, FinishUsing
      <3>4. QED
        BY <3>2, <3>3, OpenMoves
    <2>2. CASE EditFinish
      <3>1. PICK m \in Machine : m = edit.machine
        BY TypeParts DEF EditOK, Edit
      <3>2. UNCHANGED deleted /\ (m \in deleted => open' = open)
        BY <2>2, <3>1 DEF EditFinish
      <3>3. open' \in {open, open \cup {m}, open \ {m}}
        BY <2>2, <3>1 DEF EditFinish
      <3>4. QED
        BY <3>2, <3>3, OpenMoves
    <2>3. ASSUME NEW m \in Machine, DeleteMachine(m)
          PROVE  Table!Next
      <3>1. Table!Delete(m)
        BY <2>3 DEF DeleteMachine, Table!Delete, OpenHolder
      <3>2. QED
        BY <3>1 DEF Table!Next
    <2>4. ASSUME UNCHANGED <<open, deleted>>
          PROVE  UNCHANGED <<OpenHolder, deleted>>
      BY <2>4 DEF OpenHolder
    <2>5. ASSUME NEW w \in Worker,
                 \/ Previous(w) \/ Write(w) \/ Alert(w) \/ Recheck(w)
                 \/ Request(w) \/ Response(w) \/ SweepEnd(w)
                 \/ PushBegin(w) \/ JobFails(w)
          PROVE  UNCHANGED <<open, deleted>>
      BY <2>5 DEF Previous, Write, Alert, Recheck, Request, Response, SweepEnd,
                  PushBegin, JobFails, machineVars
    <2>9. ASSUME NEW m \in Machine, PlugWrites(m) PROVE UNCHANGED <<open, deleted>>
      BY <2>9 DEF PlugWrites
    <2>6. CASE \/ EditPrevious \/ EditRead \/ EditUpdate \/ EditFails
               \/ RefreshBegin \/ Restart \/ UNCHANGED vars
               \/ \E w \in Sweeper : SweepBegin(w)
               \/ \E m \in Machine, d \in Device \cup {NoDevice} : EditBegin(m, d)
      BY <2>4, <2>6 DEF EditPrevious, EditRead, EditUpdate, EditFails, RefreshBegin,
                        Restart, SweepBegin, EditBegin, vars, machineVars
    <2>7. ASSUME NEW d \in Device,
                 Unsubscribe(d) \/ ApplianceChanges(d) \/ TimerReport(d) \/ PushFails(d)
          PROVE  UNCHANGED <<open, deleted>>
      BY <2>7 DEF Unsubscribe, ApplianceChanges, TimerReport, PushFails, machineVars
    <2>8. QED
      BY <2>1, <2>2, <2>3, <2>4, <2>5, <2>6, <2>7, <2>9 DEF Next, Work, Update, Sweep, EditStep
  <1>3. QED
    BY <1>1, <1>2, TypeCorrect, PTL DEF Spec, Table!Spec
=============================================================================
