----------------------- MODULE RoomSubscriptionProofs -----------------------
(***************************************************************************)
(* RoomSubscription for any room: type correctness, and that no subscriber  *)
(* is left waiting in a room with a free machine.                            *)
(***************************************************************************)
EXTENDS RoomSubscription, TLAPS

\* A job that is over has its type.
LEMMA NoJobType == NoJob \in Job
BY DEF NoJob, Job, PC, NoEntry, NoRow, Entry, Row

\* The initial state has its type.
LEMMA InitType == Init => TypeOK
BY NoJobType DEF Init, TypeOK, JobsOK, RowsOK, NoRow, Row, NoJob, SubscribePC

\* Replacing one job by a job keeps JobsOK.
LEMMA JobReplaced ==
    ASSUME JobsOK, NEW p \in Proc, NEW j \in Job,
           j.pc \in SubscribePC => j.user \in User,
           job' = [job EXCEPT ![p] = j]
    PROVE  JobsOK'
BY DEF JobsOK

\* So does moving it to a label, when that is one of a subscribe request only if
\* it was one before.
LEMMA GotoType ==
    ASSUME JobsOK, NEW p \in Proc, NEW label \in PC, Goto(p, label),
           label \in SubscribePC => job[p].pc \in SubscribePC
    PROVE  JobsOK'
<1>. DEFINE j == [job[p] EXCEPT !.pc = label]
<1>1. j \in Job /\ (j.pc \in SubscribePC => j.user \in User)
  BY DEF JobsOK, Job
<1>2. job' = [job EXCEPT ![p] = j]
  BY DEF Goto
<1>. QED
  BY <1>1, <1>2, JobReplaced

\* So does ending it.
LEMMA EndType ==
    ASSUME JobsOK, NEW p \in Proc, End(p)
    PROVE  JobsOK'
BY NoJobType, JobReplaced DEF End, NoJob, SubscribePC

\* Deleting rows by uuid leaves rows.
LEMMA DeleteType ==
    ASSUME RowsOK, NEW uuid, DeleteByUuids(uuid), upserts' = upserts
    PROVE  RowsOK'
BY DEF DeleteByUuids, RowsOK, Row, NoRow

\* A new request keeps the types.
LEMMA RequestType ==
    ASSUME TypeOK, NEW p \in Proc, Request(p)
    PROVE  TypeOK'
<1>. USE DEF machineVars, tableVars, boundVars
<1>1. ASSUME NEW m \in Machine, FinishUsing(p, m)
      PROVE  TypeOK'
  <2>. DEFINE j == [NoJob EXCEPT !.pc = "machine", !.machine = m]
  <2>1. j \in Job /\ j.pc \notin SubscribePC
    BY NoJobType DEF Job, PC, AnnouncePC, SubscribePC
  <2>2. JobsOK'
    BY <1>1, <2>1, JobReplaced DEF FinishUsing, Begin, TypeOK
  <2>. QED
    BY <1>1, <2>2 DEF FinishUsing, TypeOK, RowsOK
<1>2. ASSUME NEW m \in Machine, NEW enable \in BOOLEAN, AdminBegin(p, m, enable)
      PROVE  TypeOK'
  <2>. DEFINE j == [NoJob EXCEPT !.pc = "previous", !.machine = m,
                                 !.enable = enable]
  <2>1. j \in Job /\ j.pc \notin SubscribePC
    BY NoJobType DEF Job, PC, AdminPC, SubscribePC
  <2>2. JobsOK'
    BY <1>2, <2>1, JobReplaced DEF AdminBegin, Begin, TypeOK
  <2>. QED
    BY <1>2, <2>2 DEF AdminBegin, TypeOK, RowsOK
<1>3. ASSUME NEW u \in User, SubscribeBegin(p, u)
      PROVE  TypeOK'
  <2>. DEFINE j == [NoJob EXCEPT !.pc = "check", !.user = u]
  <2>1. j \in Job /\ j.user \in User
    BY NoJobType DEF Job, PC, SubscribePC
  <2>2. JobsOK'
    BY <1>3, <2>1, JobReplaced DEF SubscribeBegin, Begin, TypeOK
  <2>. QED
    BY <1>3, <2>2 DEF SubscribeBegin, TypeOK, RowsOK
<1>. QED
  BY <1>1, <1>2, <1>3 DEF Request

\* The steps of a subscribe request keep the types.
LEMMA SubscribeType ==
    ASSUME TypeOK, NEW p \in Proc, Subscribe(p)
    PROVE  TypeOK'
<1>. USE DEF machineVars, tableVars, boundVars
<1>0. JobsOK /\ RowsOK /\ "upsert" \in PC /\ "rollback" \in PC
  BY DEF TypeOK, PC, SubscribePC
<1>1. CASE SubscribeCheck(p)
  <2>1. JobsOK'
    BY <1>0, <1>1, GotoType, EndType DEF SubscribeCheck, SubscribePC
  <2>. QED
    BY <1>1, <2>1 DEF SubscribeCheck, TypeOK, RowsOK
<1>2. CASE SubscribeUpsert(p)
  <2>. DEFINE u == job[p].user
              n == upserts + 1
              row == [uuid |-> IF Subscribed(u) THEN sub[u].uuid ELSE n,
                      createdAt |-> n]
              j == [job[p] EXCEPT !.pc = "recheck", !.uuid = row.uuid]
  <2>1. u \in User /\ n \in Nat
    BY <1>0, <1>2 DEF SubscribeUpsert, JobsOK, SubscribePC, RowsOK
  <2>2. row \in Row /\ row.uuid <= n
    BY <1>0, <2>1 DEF RowsOK, Row
  <2>3. j \in Job /\ j.user \in User
    <3>1. job[p] \in Job /\ row.uuid \in Nat /\ "recheck" \in PC
      BY <1>0, <2>2 DEF JobsOK, Row, PC, SubscribePC
    <3>2. j.user = job[p].user
      BY <3>1 DEF Job
    <3>. HIDE DEF row
    <3>3. j \in Job
      BY <3>1 DEF Job
    <3>. QED
      BY <2>1, <3>2, <3>3
  <2>4. job' = [job EXCEPT ![p] = j]
    BY <1>0, <1>2 DEF SubscribeUpsert, JobsOK, Job
  <2>5. JobsOK'
    BY <1>0, <2>3, <2>4, JobReplaced
  <2>6. RowsOK'
    BY <1>0, <1>2, <2>1, <2>2 DEF SubscribeUpsert, RowsOK, Row
  <2>. QED
    BY <1>2, <2>5, <2>6 DEF SubscribeUpsert, TypeOK
<1>3. CASE UpsertFails(p)
  <2>1. JobsOK'
    BY <1>0, <1>3, EndType DEF UpsertFails
  <2>. QED
    BY <1>3, <2>1 DEF UpsertFails, TypeOK, RowsOK
<1>4. CASE SubscribeRecheck(p)
  <2>1. JobsOK'
    BY <1>0, <1>4, GotoType, EndType DEF SubscribeRecheck, SubscribePC
  <2>. QED
    BY <1>4, <2>1 DEF SubscribeRecheck, TypeOK, RowsOK
<1>5. CASE SubscribeRollback(p)
  <2>1. JobsOK'
    BY <1>0, <1>5, EndType DEF SubscribeRollback
  <2>2. RowsOK'
    BY <1>0, <1>5, DeleteType DEF SubscribeRollback
  <2>. QED
    BY <1>5, <2>1, <2>2 DEF SubscribeRollback, TypeOK
<1>. QED
  BY <1>1, <1>2, <1>3, <1>4, <1>5 DEF Subscribe

\* The steps of an announcement keep the types.
LEMMA AnnounceType ==
    ASSUME TypeOK, NEW p \in Proc, Announce(p)
    PROVE  TypeOK'
<1>. USE DEF machineVars, tableVars, boundVars
<1>0. JobsOK /\ RowsOK /\ {"subscribers", "send", "delete", "count"} \subseteq PC
  BY DEF TypeOK, PC, AnnouncePC
<1>1. CASE FinishMachine(p)
  <2>1. JobsOK'
    BY <1>0, <1>1, GotoType, EndType DEF FinishMachine, SubscribePC
  <2>. QED
    BY <1>1, <2>1 DEF FinishMachine, TypeOK, RowsOK
<1>2. CASE Subscribers(p)
  <2>. DEFINE list == [u \in User |->
                          IF Subscribed(u)
                          THEN [row |-> sub[u], push |-> "lookup", ok |-> TRUE]
                          ELSE NoEntry]
              j == [job[p] EXCEPT !.pc = "count", !.list = list]
  <2>1. list \in [User -> Entry]
    BY <1>0 DEF RowsOK, Entry, NoEntry, NoRow, Row
  <2>2. j \in Job /\ j.pc \notin SubscribePC
    <3>1. job[p] \in Job
      BY <1>0 DEF JobsOK
    <3>. HIDE DEF list
    <3>. QED
      BY <1>0, <2>1, <3>1 DEF Job, SubscribePC
  <2>3. End(p) \/ job' = [job EXCEPT ![p] = j]
    BY <1>0, <1>2 DEF Subscribers, JobsOK, Job
  <2>4. JobsOK'
    BY <1>0, <2>2, <2>3, JobReplaced, EndType
  <2>. QED
    BY <1>2, <2>4 DEF Subscribers, TypeOK, RowsOK
<1>3. CASE Count(p)
  <2>1. JobsOK'
    BY <1>0, <1>3, GotoType, EndType DEF Count, SubscribePC
  <2>. QED
    BY <1>3, <2>1 DEF Count, TypeOK, RowsOK
<1>4. CASE AllSettled(p)
  <2>1. JobsOK'
    BY <1>0, <1>4, GotoType DEF AllSettled, SubscribePC
  <2>. QED
    BY <1>4, <2>1 DEF AllSettled, TypeOK, RowsOK
<1>5. CASE DeleteNotified(p)
  <2>1. JobsOK'
    BY <1>0, <1>5, EndType DEF DeleteNotified
  <2>2. RowsOK'
    BY <1>0, <1>5, DeleteType DEF DeleteNotified
  <2>. QED
    BY <1>5, <2>1, <2>2 DEF DeleteNotified, TypeOK
<1>. QED
  BY <1>1, <1>2, <1>3, <1>4, <1>5 DEF Announce

\* The steps of a push keep the types.
LEMMA SendType ==
    ASSUME TypeOK, NEW p \in Proc, Send(p)
    PROVE  TypeOK'
<1>. USE DEF machineVars, tableVars, boundVars
<1>0. JobsOK /\ job[p] \in Job
  BY DEF TypeOK, JobsOK
<1>1. ASSUME NEW u \in User, Lookup(p, u)
      PROVE  TypeOK'
  <2>. DEFINE new == {<<u, e>> : e \in {f \in Endpoint : owner[f] = u}}
              list == [job[p].list EXCEPT ![u].push = "sent"]
              sending == job[p].sending \cup new
              j == [job[p] EXCEPT !.list = list, !.sending = sending]
  <2>1. list \in [User -> Entry] /\ sending \in SUBSET (User \X Endpoint)
    <3>1. list \in [User -> Entry]
      <4>1. job[p].list \in [User -> Entry]
        BY <1>0 DEF Job
      <4>2. [job[p].list[u] EXCEPT !.push = "sent"] \in Entry
        BY <4>1 DEF Entry
      <4>. QED
        BY <4>1, <4>2
    <3>2. new \in SUBSET (User \X Endpoint)
      OBVIOUS
    <3>3. job[p].sending \in SUBSET (User \X Endpoint)
      BY <1>0 DEF Job
    <3>. QED
      BY <3>1, <3>2, <3>3
  <2>2. j \in Job /\ j.pc \notin SubscribePC
    <3>1. job[p].pc = "send"
      BY <1>1 DEF Lookup
    <3>. HIDE DEF list, sending
    <3>. QED
      BY <1>0, <2>1, <3>1 DEF Job, SubscribePC
  <2>3. job' = [job EXCEPT ![p] = j]
    BY <1>1 DEF Lookup
  <2>4. JobsOK'
    BY <1>0, <2>2, <2>3, JobReplaced
  <2>. QED
    BY <1>1, <2>4 DEF Lookup, TypeOK, RowsOK
<1>2. ASSUME NEW u \in User, NEW e \in Endpoint, Delivered(p, u, e)
      PROVE  TypeOK'
  <2>. DEFINE j == [job[p] EXCEPT !.sending = @ \ {<<u, e>>}]
  <2>1. j \in Job /\ (j.pc \in SubscribePC => j.user \in User)
    BY <1>0 DEF Job, JobsOK
  <2>2. job' = [job EXCEPT ![p] = j]
    BY <1>2 DEF Delivered
  <2>3. JobsOK'
    BY <1>0, <2>1, <2>2, JobReplaced
  <2>. QED
    BY <1>2, <2>3 DEF Delivered, TypeOK, RowsOK
<1>3. ASSUME NEW u \in User, NEW e \in Endpoint, Refused(p, u, e)
      PROVE  TypeOK'
  <2>1. PICK gone \in BOOLEAN :
          job' = [job EXCEPT ![p].sending = @ \ {<<u, e>>},
                             ![p].list[u].ok = FALSE,
                             ![p].pruning = IF gone THEN @ \cup {<<u, e>>} ELSE @]
    BY <1>3 DEF Refused
  <2>. DEFINE list == [job[p].list EXCEPT ![u].ok = FALSE]
              prune == IF gone THEN job[p].pruning \cup {<<u, e>>}
                               ELSE job[p].pruning
              j == [job[p] EXCEPT !.sending = @ \ {<<u, e>>}, !.list = list,
                                  !.pruning = prune]
  <2>2. list \in [User -> Entry] /\ prune \in SUBSET (User \X Endpoint)
    <3>1. list \in [User -> Entry]
      <4>1. job[p].list \in [User -> Entry]
        BY <1>0 DEF Job
      <4>2. [job[p].list[u] EXCEPT !.ok = FALSE] \in Entry
        BY <4>1 DEF Entry
      <4>. QED
        BY <4>1, <4>2
    <3>2. job[p].pruning \in SUBSET (User \X Endpoint)
      BY <1>0 DEF Job
    <3>. QED
      BY <3>1, <3>2
  <2>3. j \in Job /\ (j.pc \in SubscribePC => j.user \in User)
    BY <1>0, <2>2 DEF Job, JobsOK
  <2>4. job' = [job EXCEPT ![p] = j]
    BY <2>1
  <2>5. JobsOK'
    BY <1>0, <2>3, <2>4, JobReplaced
  <2>. QED
    BY <1>3, <2>5 DEF Refused, TypeOK, RowsOK
<1>4. ASSUME NEW u \in User, NEW e \in Endpoint, Prune(p, u, e)
      PROVE  TypeOK'
  <2>. DEFINE j == [job[p] EXCEPT !.pruning = @ \ {<<u, e>>}]
  <2>1. j \in Job /\ (j.pc \in SubscribePC => j.user \in User)
    BY <1>0 DEF Job, JobsOK
  <2>2. job' = [job EXCEPT ![p] = j]
    BY <1>4 DEF Prune
  <2>3. JobsOK'
    BY <1>0, <2>1, <2>2, JobReplaced
  <2>. QED
    BY <1>4, <2>3 DEF Prune, TypeOK, RowsOK
<1>. QED
  BY <1>1, <1>2, <1>3, <1>4 DEF Send

\* The steps of an admin request keep the types.
LEMMA AdministerType ==
    ASSUME TypeOK, NEW p \in Proc, Administer(p)
    PROVE  TypeOK'
<1>. USE DEF machineVars, tableVars, boundVars
<1>0. JobsOK /\ job[p] \in Job /\ {"update", "subscribers"} \subseteq PC
  BY DEF TypeOK, JobsOK, PC, AdminPC, AnnouncePC
<1>1. CASE AdminPrevious(p)
  <2>. DEFINE j == [job[p] EXCEPT !.pc = "update",
                                  !.enabled = job[p].machine \notin disabled]
  <2>1. j \in Job /\ j.pc \notin SubscribePC
    BY <1>0 DEF Job, SubscribePC
  <2>2. job' = [job EXCEPT ![p] = j]
    BY <1>1 DEF AdminPrevious
  <2>3. JobsOK'
    BY <1>0, <2>1, <2>2, JobReplaced
  <2>. QED
    BY <1>1, <2>3 DEF AdminPrevious, TypeOK, RowsOK
<1>2. CASE AdminUpdate(p)
  <2>1. JobsOK'
    BY <1>0, <1>2, GotoType, EndType DEF AdminUpdate, SubscribePC
  <2>. QED
    BY <1>2, <2>1 DEF AdminUpdate, TypeOK, RowsOK
<1>3. CASE AdminRefused(p)
  <2>1. JobsOK'
    BY <1>0, <1>3, EndType DEF AdminRefused
  <2>. QED
    BY <1>3, <2>1 DEF AdminRefused, TypeOK, RowsOK
<1>. QED
  BY <1>1, <1>2, <1>3 DEF Administer

\* Failing statements keep the types.
LEMMA FailureType ==
    ASSUME TypeOK, NEW p \in Proc, Failure(p)
    PROVE  TypeOK'
<1>. USE DEF machineVars, tableVars, boundVars
<1>0. JobsOK /\ job[p] \in Job
  BY DEF TypeOK, JobsOK
<1>1. Fault => faults' \in Nat /\ unannounced' \subseteq Machine
  BY DEF Fault, TypeOK, Available
<1>2. CASE DatabaseError(p)
  <2>1. JobsOK'
    BY <1>0, <1>2, EndType DEF DatabaseError
  <2>. QED
    BY <1>1, <1>2, <2>1 DEF DatabaseError, TypeOK, RowsOK
<1>3. ASSUME NEW u \in User, LookupFails(p, u)
      PROVE  TypeOK'
  <2>. DEFINE list == [job[p].list EXCEPT ![u].push = "failed"]
              j == [job[p] EXCEPT !.list = list]
  <2>1. list \in [User -> Entry]
    BY <1>0 DEF Job, Entry
  <2>2. j \in Job /\ j.pc \notin SubscribePC
    BY <1>0, <1>3, <2>1 DEF LookupFails, Job, SubscribePC
  <2>3. job' = [job EXCEPT ![p] = j]
    BY <1>0, <1>3 DEF LookupFails, Job
  <2>4. JobsOK'
    BY <1>0, <2>2, <2>3, JobReplaced
  <2>. QED
    BY <1>1, <1>3, <2>4 DEF LookupFails, TypeOK, RowsOK
<1>4. ASSUME NEW u \in User, NEW e \in Endpoint, PruneFails(p, u, e)
      PROVE  TypeOK'
  <2>. DEFINE j == [job[p] EXCEPT !.pruning = @ \ {<<u, e>>}]
  <2>1. j \in Job /\ (j.pc \in SubscribePC => j.user \in User)
    BY <1>0 DEF Job, JobsOK
  <2>2. job' = [job EXCEPT ![p] = j]
    BY <1>4 DEF PruneFails
  <2>3. JobsOK'
    BY <1>0, <2>1, <2>2, JobReplaced
  <2>. QED
    BY <1>1, <1>4, <2>3 DEF PruneFails, TypeOK, RowsOK
<1>. QED
  BY <1>2, <1>3, <1>4 DEF Failure

\* Every step keeps the types.
LEMMA TypeStep == TypeOK /\ [Next]_vars => TypeOK'
<1>. SUFFICES ASSUME TypeOK, [Next]_vars
              PROVE  TypeOK'
  OBVIOUS
<1>. USE DEF machineVars, tableVars, boundVars
<1>1. ASSUME NEW p \in Proc, Request(p) \/ Step(p) \/ Failure(p)
      PROVE  TypeOK'
  BY <1>1, RequestType, SubscribeType, AnnounceType, SendType, AdministerType,
     FailureType DEF Step
<1>2. ASSUME NEW m \in Machine,
             StartUsing(m) \/ DeleteMachine(m) \/ CreateMachine(m)
      PROVE  TypeOK'
  BY <1>2 DEF StartUsing, DeleteMachine, CreateMachine, TypeOK, JobsOK, RowsOK
<1>3. ASSUME NEW u \in User, Unsubscribe(u) \/ DeactivateUser(u)
      PROVE  TypeOK'
  <2>1. RowsOK'
    BY <1>3 DEF Unsubscribe, DeactivateUser, TypeOK, RowsOK, NoRow, Row
  <2>. QED
    BY <1>3, <2>1 DEF Unsubscribe, DeactivateUser, TypeOK, JobsOK
<1>4. ASSUME NEW u \in User, NEW e \in Endpoint,
             RegisterPush(u, e) \/ UnregisterPush(u, e)
      PROVE  TypeOK'
  BY <1>4 DEF RegisterPush, UnregisterPush, TypeOK, JobsOK, RowsOK
<1>5. CASE Crash
  <2>1. JobsOK'
    BY <1>5, NoJobType DEF Crash, JobsOK, NoJob, SubscribePC
  <2>. QED
    BY <1>5, <2>1 DEF Crash, Fault, Available, TypeOK, RowsOK
<1>6. CASE UNCHANGED vars
  BY <1>6 DEF vars, TypeOK, JobsOK, RowsOK
<1>. QED
  BY <1>1, <1>2, <1>3, <1>4, <1>5, <1>6 DEF Next

\* Every reachable state of the subscription tables, the endpoints and the
\* handlers of NotificationService has its type, for any room.
THEOREM TypeCorrect == Spec => []TypeOK
<1>1. Init => TypeOK
  BY InitType
<1>2. TypeOK /\ [Next]_vars => TypeOK'
  BY TypeStep
<1>. QED
  BY <1>1, <1>2, PTL DEF Spec

-----------------------------------------------------------------------------
(* No subscriber is stranded *)

\* A job that is not touched goes on minding a subscription that is not touched.
LEMMA MindsKept ==
    ASSUME NEW q, NEW u, NEW m, Minds(q, u, m), job'[q] = job[q], sub'[u] = sub[u]
    PROVE  Minds(q, u, m)'
BY DEF Minds

\* A step that frees no machine without marking it, and in which every job goes
\* on minding what it minded of the rows that stay, keeps NoStranded.
LEMMA StrandedFrame ==
    ASSUME NoStranded,
           (Available \ unannounced)' \subseteq Available \ unannounced,
           \A u \in User : Subscribed(u)' => Subscribed(u),
           \A q \in Proc, u \in User, m \in Available \ unannounced :
               Minds(q, u, m) /\ Subscribed(u)' => Minds(q, u, m)'
    PROVE  NoStranded'
BY DEF NoStranded

\* A step in which every job that minded anything keeps its label and what Minds
\* reads of it.
LEMMA QuietStep ==
    ASSUME NoStranded, NEW p \in Proc,
           UNCHANGED <<machineVars, sub>>,
           \A q \in Proc \ {p} : job'[q] = job[q],
           \A u \in User, m \in Machine : Minds(p, u, m) => Minds(p, u, m)',
           live \subseteq Machine
    PROVE  NoStranded'
<1>1. Available' = Available /\ unannounced' = unannounced
  BY DEF Available, machineVars
<1>2. \A u \in User : Subscribed(u)' <=> Subscribed(u)
  BY DEF Subscribed
<1>3. \A q \in Proc, u \in User, m \in Available \ unannounced :
        Minds(q, u, m) => Minds(q, u, m)'
  BY MindsKept DEF Available
<1>. QED
  BY <1>1, <1>2, <1>3, StrandedFrame

\* A step that leaves no announced machine free.
LEMMA NothingFree ==
    ASSUME (Available \ unannounced)' = {}
    PROVE  NoStranded'
BY DEF NoStranded

\* New requests: a finish minds the machine that it frees.
LEMMA RequestStranded ==
    ASSUME TypeOK, NoStranded, NEW p \in Proc, Request(p)
    PROVE  NoStranded'
<1>0. /\ job \in [Proc -> Job]
      /\ live \subseteq Machine
      /\ \A u, m : job[p].pc = "idle" => ~ Minds(p, u, m)
  BY DEF TypeOK, JobsOK, Minds
<1>1. ASSUME NEW k \in Machine, FinishUsing(p, k)
      PROVE  NoStranded'
  <2>1. /\ job'[p].pc = "machine"
        /\ job'[p].machine = k
        /\ \A q \in Proc \ {p} : job'[q] = job[q]
        /\ job[p].pc = "idle"
        /\ sub' = sub
    BY <1>0, <1>1 DEF FinishUsing, Begin, NoJob, tableVars
  <2>2. (Available \ unannounced)' \subseteq (Available \ unannounced) \cup {k}
    BY <1>1 DEF FinishUsing, Available
  <2>3. SUFFICES ASSUME NEW u \in User, NEW m \in (Available \ unannounced)',
                        Subscribed(u)'
                 PROVE  \E q \in Proc : Minds(q, u, m)'
    BY DEF NoStranded
  <2>4. CASE m = k
    BY <2>1, <2>4 DEF Minds
  <2>5. CASE m \in Available \ unannounced
    <3>1. PICK q \in Proc : Minds(q, u, m)
      BY <2>1, <2>3, <2>5 DEF NoStranded, Subscribed
    <3>. QED
      BY <1>0, <2>1, <3>1, MindsKept
  <2>. QED
    BY <2>2, <2>4, <2>5
<1>2. ASSUME NEW k \in Machine, NEW enable \in BOOLEAN, AdminBegin(p, k, enable)
      PROVE  NoStranded'
  BY <1>0, <1>2, QuietStep DEF AdminBegin, Begin, tableVars
<1>3. ASSUME NEW v \in User, SubscribeBegin(p, v)
      PROVE  NoStranded'
  BY <1>0, <1>3, QuietStep DEF SubscribeBegin, Begin, tableVars
<1>. QED
  BY <1>1, <1>2, <1>3 DEF Request

\* Subscribe requests: the upsert minds its row, and is done with it when no
\* machine is free or the row is gone.
LEMMA SubscribeStranded ==
    ASSUME TypeOK, NoStranded, NEW p \in Proc, Subscribe(p)
    PROVE  NoStranded'
<1>0. job \in [Proc -> Job] /\ live \subseteq Machine
  BY DEF TypeOK, JobsOK
<1>1. CASE SubscribeCheck(p) \/ UpsertFails(p)
  <2>1. UNCHANGED <<machineVars, sub>> /\ \A q \in Proc \ {p} : job'[q] = job[q]
    BY <1>0, <1>1 DEF SubscribeCheck, UpsertFails, Goto, End, tableVars
  <2>2. \A u, m : ~ Minds(p, u, m)
    BY <1>1 DEF SubscribeCheck, UpsertFails, Minds
  <2>. QED
    BY <1>0, <2>1, <2>2, QuietStep
<1>2. CASE SubscribeUpsert(p)
  <2>. DEFINE v == job[p].user
  <2>1. /\ v \in User
        /\ \A q \in Proc \ {p} : job'[q] = job[q]
        /\ job'[p].pc = "recheck"
        /\ job'[p].user = v
        /\ job'[p].uuid = sub'[v].uuid
        /\ \A u \in User \ {v} : sub'[u] = sub[u]
        /\ UNCHANGED machineVars
    BY <1>0, <1>2 DEF SubscribeUpsert, TypeOK, JobsOK, RowsOK, Job, SubscribePC
  <2>2. Available' = Available /\ unannounced' = unannounced
    BY <2>1 DEF Available, machineVars
  <2>3. SUFFICES ASSUME NEW u \in User, NEW m \in Available \ unannounced,
                        Subscribed(u)'
                 PROVE  \E q \in Proc : Minds(q, u, m)'
    BY <2>2 DEF NoStranded
  <2>4. CASE u = v
    BY <2>1, <2>4 DEF Minds
  <2>5. CASE u # v
    <3>1. PICK q \in Proc : Minds(q, u, m)
      BY <2>1, <2>3, <2>5 DEF NoStranded, Subscribed
    <3>2. q # p
      BY <1>2, <3>1 DEF SubscribeUpsert, Minds
    <3>. QED
      BY <2>1, <2>5, <3>1, <3>2, MindsKept
  <2>. QED
    BY <2>4, <2>5
<1>3. CASE SubscribeRecheck(p)
  <2>1. CASE Available = {}
    BY <1>3, <2>1, NothingFree DEF SubscribeRecheck, Available, machineVars
  <2>2. CASE Available # {}
    <3>1. /\ UNCHANGED <<machineVars, sub>>
          /\ \A q \in Proc \ {p} : job'[q] = job[q]
          /\ job[p].pc = "recheck"
          /\ job'[p].pc = "rollback"
          /\ job'[p].user = job[p].user
          /\ job'[p].uuid = job[p].uuid
      BY <1>0, <1>3, <2>2 DEF SubscribeRecheck, Goto, tableVars, Job
    <3>2. \A u \in User, m \in Machine : Minds(p, u, m) => Minds(p, u, m)'
      BY <3>1 DEF Minds
    <3>. QED
      BY <1>0, <3>1, <3>2, QuietStep
  <2>. QED
    BY <2>1, <2>2
<1>4. CASE SubscribeRollback(p)
  <2>1. /\ UNCHANGED machineVars
        /\ \A q \in Proc \ {p} : job'[q] = job[q]
        /\ job[p].pc = "rollback"
    BY <1>0, <1>4 DEF SubscribeRollback, End
  <2>2. \A u \in User : Subscribed(u)' =>
            /\ Subscribed(u)
            /\ sub'[u] = sub[u]
            /\ u = job[p].user => sub[u].uuid # job[p].uuid
    BY <1>4 DEF SubscribeRollback, DeleteByUuids, Subscribed
  <2>3. Available' = Available /\ unannounced' = unannounced
    BY <2>1 DEF Available, machineVars
  <2>4. ASSUME NEW q \in Proc, NEW u \in User, NEW m, Minds(q, u, m), Subscribed(u)'
        PROVE  Minds(q, u, m)'
    <3>1. q # p
      BY <2>1, <2>2, <2>4 DEF Minds
    <3>. QED
      BY <2>1, <2>2, <2>4, <3>1, MindsKept
  <2>. QED
    BY <2>2, <2>3, <2>4, StrandedFrame
<1>. QED
  BY <1>1, <1>2, <1>3, <1>4 DEF Subscribe

\* Announcements: a job minds whom it has read until it has deleted the row or
\* finds that no machine is free.
LEMMA AnnounceStranded ==
    ASSUME TypeOK, NoStranded, NEW p \in Proc, Announce(p)
    PROVE  NoStranded'
<1>0. job \in [Proc -> Job] /\ live \subseteq Machine
  BY DEF TypeOK, JobsOK
<1>1. CASE FinishMachine(p)
  <2>1. UNCHANGED <<machineVars, sub>> /\ \A q \in Proc \ {p} : job'[q] = job[q]
    BY <1>0, <1>1 DEF FinishMachine, Goto, End, tableVars
  <2>2. CASE job[p].machine \in live
    <3>1. job'[p].pc = "subscribers"
      BY <1>0, <1>1, <2>2 DEF FinishMachine, Goto, Job
    <3>. QED
      BY <1>0, <2>1, <3>1, QuietStep DEF Minds
  <2>3. CASE job[p].machine \notin live
    <3>1. Available' = Available /\ unannounced' = unannounced
      BY <2>1 DEF Available, machineVars
    <3>2. \A u, m : m \in Available => ~ Minds(p, u, m)
      BY <1>1, <2>3 DEF FinishMachine, Minds, Available
    <3>. QED
      BY <2>1, <3>1, <3>2, MindsKept, StrandedFrame DEF Subscribed
  <2>. QED
    BY <2>2, <2>3
<1>2. CASE Subscribers(p)
  <2>1. UNCHANGED <<machineVars, sub>> /\ \A q \in Proc \ {p} : job'[q] = job[q]
    BY <1>0, <1>2 DEF Subscribers, End, tableVars
  <2>2. SUFFICES ASSUME NEW u \in User, Subscribed(u)', NEW m
                 PROVE  Minds(p, u, m)'
    BY DEF NoStranded
  <2>3. Subscribed(u)
    BY <2>1, <2>2 DEF Subscribed
  <2>4. job' = [job EXCEPT ![p].pc = "count",
                           ![p].list = [w \in User |->
                               IF Subscribed(w)
                               THEN [row |-> sub[w], push |-> "lookup",
                                     ok |-> TRUE]
                               ELSE NoEntry]]
    BY <1>2, <2>3 DEF Subscribers
  <2>5. /\ job'[p].pc = "count"
        /\ job'[p].list[u].row = sub[u]
        /\ job'[p].list[u].push = "lookup"
    BY <1>0, <2>3, <2>4 DEF Job
  <2>. QED
    BY <2>1, <2>5 DEF Minds
<1>3. CASE Count(p)
  <2>1. CASE Available = {}
    BY <1>3, <2>1, NothingFree DEF Count, Available, machineVars
  <2>2. CASE Available # {}
    <3>1. /\ UNCHANGED <<machineVars, sub>>
          /\ \A q \in Proc \ {p} : job'[q] = job[q]
          /\ job[p].pc = "count"
          /\ job'[p].pc = "send"
          /\ job'[p].list = job[p].list
      BY <1>0, <1>3, <2>2 DEF Count, Goto, tableVars, Job
    <3>2. \A u \in User, m \in Machine : Minds(p, u, m) => Minds(p, u, m)'
      BY <3>1 DEF Minds
    <3>. QED
      BY <1>0, <3>1, <3>2, QuietStep
  <2>. QED
    BY <2>1, <2>2
<1>4. CASE AllSettled(p)
  <2>1. /\ UNCHANGED <<machineVars, sub>>
        /\ \A q \in Proc \ {p} : job'[q] = job[q]
        /\ job[p].pc = "send"
        /\ \A u \in User : job[p].list[u].push # "lookup"
        /\ job'[p].pc = "delete"
        /\ job'[p].list = job[p].list
    BY <1>0, <1>4 DEF AllSettled, Goto, tableVars, Job
  <2>2. \A u \in User, m \in Machine : Minds(p, u, m) => Minds(p, u, m)'
    BY <2>1 DEF Minds
  <2>. QED
    BY <1>0, <2>1, <2>2, QuietStep
<1>5. CASE DeleteNotified(p)
  <2>1. /\ UNCHANGED machineVars
        /\ \A q \in Proc \ {p} : job'[q] = job[q]
        /\ job[p].pc = "delete"
    BY <1>0, <1>5 DEF DeleteNotified, End
  <2>2. \A u \in User : Subscribed(u)' =>
            /\ Subscribed(u)
            /\ sub'[u] = sub[u]
            /\ job[p].list[u].push = "sent" =>
                   sub[u].uuid # job[p].list[u].row.uuid
    BY <1>5 DEF DeleteNotified, DeleteByUuids, Subscribed
  <2>3. Available' = Available /\ unannounced' = unannounced
    BY <2>1 DEF Available, machineVars
  <2>4. ASSUME NEW q \in Proc, NEW u \in User, NEW m, Minds(q, u, m), Subscribed(u)'
        PROVE  Minds(q, u, m)'
    <3>1. q # p
      BY <2>1, <2>2, <2>4 DEF Minds
    <3>. QED
      BY <2>1, <2>2, <2>4, <3>1, MindsKept
  <2>. QED
    BY <2>2, <2>3, <2>4, StrandedFrame
<1>. QED
  BY <1>1, <1>2, <1>3, <1>4, <1>5 DEF Announce

\* Pushes change nothing that Minds depends on, except that a lookup is done.
LEMMA SendStranded ==
    ASSUME TypeOK, NoStranded, NEW p \in Proc, Send(p)
    PROVE  NoStranded'
<1>0. job \in [Proc -> Job] /\ job[p] \in Job /\ live \subseteq Machine
  BY DEF TypeOK, JobsOK
<1>1. ASSUME NEW v \in User, Lookup(p, v)
      PROVE  NoStranded'
  <2>1. UNCHANGED <<machineVars, sub>> /\ \A q \in Proc \ {p} : job'[q] = job[q]
    BY <1>0, <1>1 DEF Lookup, tableVars
  <2>2. /\ job[p].pc = "send"
        /\ job'[p].pc = "send"
        /\ job'[p].list = [job[p].list EXCEPT ![v].push = "sent"]
    BY <1>0, <1>1 DEF Lookup, Job
  <2>3. \A u \in User : /\ job'[p].list[u].row = job[p].list[u].row
                        /\ job'[p].list[u].push \in {job[p].list[u].push, "sent"}
    BY <1>0, <2>2 DEF Job, Entry
  <2>4. \A u \in User, m \in Machine : Minds(p, u, m) => Minds(p, u, m)'
    BY <2>1, <2>2, <2>3 DEF Minds
  <2>. QED
    BY <1>0, <2>1, <2>4, QuietStep
<1>2. ASSUME NEW v \in User, NEW e \in Endpoint,
             Delivered(p, v, e) \/ Refused(p, v, e) \/ Prune(p, v, e)
      PROVE  NoStranded'
  <2>1. UNCHANGED <<machineVars, sub>> /\ \A q \in Proc \ {p} : job'[q] = job[q]
    BY <1>0, <1>2 DEF Delivered, Refused, Prune, tableVars
  <2>2. /\ job'[p].pc = job[p].pc
        /\ job'[p].machine = job[p].machine
        /\ job'[p].user = job[p].user
        /\ job'[p].uuid = job[p].uuid
        /\ \/ job'[p].list = job[p].list
           \/ job'[p].list = [job[p].list EXCEPT ![v].ok = FALSE]
    BY <1>0, <1>2 DEF Delivered, Refused, Prune, Job
  <2>3. \A u \in User : /\ job'[p].list[u].row = job[p].list[u].row
                        /\ job'[p].list[u].push = job[p].list[u].push
    BY <1>0, <2>2 DEF Job, Entry
  <2>4. \A u \in User, m \in Machine : Minds(p, u, m) => Minds(p, u, m)'
    BY <2>1, <2>2, <2>3 DEF Minds
  <2>. QED
    BY <1>0, <2>1, <2>4, QuietStep
<1>. QED
  BY <1>1, <1>2 DEF Send

\* Admin requests: one that enables a machine announces it, or has it marked.
LEMMA AdministerStranded ==
    ASSUME TypeOK, NoStranded, NEW p \in Proc, Administer(p)
    PROVE  NoStranded'
<1>0. job \in [Proc -> Job] /\ live \subseteq Machine
  BY DEF TypeOK, JobsOK
<1>1. CASE AdminPrevious(p) \/ AdminRefused(p)
  <2>1. UNCHANGED <<machineVars, sub>> /\ \A q \in Proc \ {p} : job'[q] = job[q]
    BY <1>0, <1>1 DEF AdminPrevious, AdminRefused, End, tableVars
  <2>2. \A u, m : ~ Minds(p, u, m)
    BY <1>1 DEF AdminPrevious, AdminRefused, Minds
  <2>. QED
    BY <1>0, <2>1, <2>2, QuietStep
<1>2. CASE AdminUpdate(p)
  <2>1. CASE job[p].enable /\ ~ job[p].enabled
    <3>1. job'[p].pc = "subscribers"
      BY <1>0, <1>2, <2>1 DEF AdminUpdate, Goto, Job
    <3>. QED
      BY <3>1 DEF NoStranded, Minds
  <2>2. CASE ~ (job[p].enable /\ ~ job[p].enabled)
    <3>1. (Available \ unannounced)' \subseteq Available \ unannounced
      BY <1>2, <2>2 DEF AdminUpdate, Available
    <3>2. sub' = sub /\ \A q \in Proc \ {p} : job'[q] = job[q]
      BY <1>0, <1>2, <2>2 DEF AdminUpdate, End, tableVars
    <3>3. \A u, m : ~ Minds(p, u, m)
      BY <1>2 DEF AdminUpdate, Minds
    <3>. QED
      BY <3>1, <3>2, <3>3, MindsKept, StrandedFrame DEF Subscribed
  <2>. QED
    BY <2>1, <2>2
<1>. QED
  BY <1>1, <1>2 DEF Administer

\* Steps outside the jobs: machines, the owners of rows and faults.
LEMMA OutsideStranded ==
    ASSUME TypeOK, NoStranded,
           \/ \E m \in Machine : StartUsing(m) \/ DeleteMachine(m) \/ CreateMachine(m)
           \/ \E u \in User : Unsubscribe(u) \/ DeactivateUser(u)
           \/ \E u \in User, e \in Endpoint : RegisterPush(u, e)
                                             \/ UnregisterPush(u, e)
    PROVE  NoStranded'
<1>1. job' = job
  BY DEF StartUsing, DeleteMachine, CreateMachine, Unsubscribe, DeactivateUser,
         RegisterPush, UnregisterPush
<1>2. (Available \ unannounced)' \subseteq Available \ unannounced
  BY DEF StartUsing, DeleteMachine, CreateMachine, Unsubscribe, DeactivateUser,
         RegisterPush, UnregisterPush, machineVars, Available
<1>3. \A u \in User : Subscribed(u)' => Subscribed(u) /\ sub'[u] = sub[u]
  BY DEF StartUsing, DeleteMachine, CreateMachine, Unsubscribe, DeactivateUser,
         RegisterPush, UnregisterPush, tableVars, Subscribed, TypeOK, RowsOK
<1>. QED
  BY <1>1, <1>2, <1>3, MindsKept, StrandedFrame

\* A fault marks the machines that are free.
LEMMA FaultStranded ==
    ASSUME Fault, UNCHANGED <<live, disabled, busy>>
    PROVE  NoStranded'
BY NothingFree DEF Fault, Available

\* Every step keeps NoStranded.
LEMMA StrandedStep == TypeOK /\ NoStranded /\ [Next]_vars => NoStranded'
<1>. SUFFICES ASSUME TypeOK, NoStranded, [Next]_vars
              PROVE  NoStranded'
  OBVIOUS
<1>1. ASSUME NEW p \in Proc, Request(p) \/ Step(p)
      PROVE  NoStranded'
  BY <1>1, RequestStranded, SubscribeStranded, AnnounceStranded, SendStranded,
     AdministerStranded DEF Step
<1>2. ASSUME NEW p \in Proc, Failure(p)
      PROVE  NoStranded'
  BY <1>2, FaultStranded DEF Failure, DatabaseError, LookupFails, PruneFails
<1>3. CASE Crash
  BY <1>3, FaultStranded DEF Crash
<1>4. CASE UNCHANGED vars
  BY <1>4 DEF vars, machineVars, tableVars, NoStranded, Available, Subscribed, Minds
<1>. QED
  BY <1>1, <1>2, <1>3, <1>4, OutsideStranded DEF Next

\* Whatever subscribe requests, announcements, admin requests and pushes
\* interleave, the second count of createLaundryRoomSubscription and the order
\* read-count-send-delete of notifyLaundryRoomAvailable leave no subscriber
\* waiting for a machine that is free.
THEOREM NoStrandedHolds == Spec => []NoStranded
<1>1. Init => NoStranded
  BY DEF Init, NoStranded, Subscribed
<1>2. TypeOK /\ NoStranded /\ [Next]_vars => NoStranded'
  BY StrandedStep
<1>. QED
  BY <1>1, <1>2, TypeCorrect, PTL DEF Spec

\* unregisterPush after a refused push deletes WHERE endpoint and userUuid, so a
\* browser in which another user has logged in meanwhile keeps its
\* registration.
THEOREM OthersKeepBrowsersHolds == Spec => OthersKeepBrowsers
<1>1. TypeOK /\ [Next]_vars => [PruneIsOwn]_vars
  <2>. SUFFICES ASSUME TypeOK, [Next]_vars,
                       NEW p \in Proc, NEW u \in User, NEW e \in Endpoint,
                       <<u, e>> \in job[p].pruning,
                       <<u, e>> \notin job'[p].pruning
                PROVE  owner'[e] = owner[e] \/ (owner[e] = u /\ owner'[e] = NoUser)
    BY DEF PruneIsOwn
  <2>0. job \in [Proc -> Job] /\ owner \in [Endpoint -> User \cup {NoUser}]
    BY DEF TypeOK, JobsOK
  <2>1. owner' = owner \/ job' = job \/ \E q \in Proc, v \in User, f \in Endpoint :
                                             Prune(q, v, f)
    <3>1. ASSUME NEW q \in Proc, Request(q) \/ Subscribe(q)
          PROVE  owner' = owner
      BY <3>1 DEF Request, FinishUsing, AdminBegin, SubscribeBegin, Subscribe,
                  SubscribeCheck, SubscribeUpsert, UpsertFails, SubscribeRecheck,
                  SubscribeRollback, tableVars
    <3>2. ASSUME NEW q \in Proc, Announce(q) \/ Administer(q)
          PROVE  owner' = owner
      BY <3>2 DEF Announce, FinishMachine, Subscribers, Count, AllSettled,
                  DeleteNotified, Administer, AdminPrevious, AdminUpdate,
                  AdminRefused, tableVars
    <3>3. ASSUME NEW q \in Proc, Send(q)
          PROVE  owner' = owner \/ \E v \in User, f \in Endpoint : Prune(q, v, f)
      BY <3>3 DEF Send, Lookup, Delivered, Refused, tableVars
    <3>4. ASSUME NEW q \in Proc, Failure(q)
          PROVE  owner' = owner
      BY <3>4 DEF Failure, DatabaseError, LookupFails, PruneFails, tableVars
    <3>5. ASSUME NEW m \in Machine,
                 StartUsing(m) \/ DeleteMachine(m) \/ CreateMachine(m)
          PROVE  job' = job
      BY <3>5 DEF StartUsing, DeleteMachine, CreateMachine
    <3>6. ASSUME NEW v \in User, Unsubscribe(v) \/ DeactivateUser(v)
          PROVE  job' = job
      BY <3>6 DEF Unsubscribe, DeactivateUser
    <3>7. ASSUME NEW v \in User, NEW f \in Endpoint,
                 RegisterPush(v, f) \/ UnregisterPush(v, f)
          PROVE  job' = job
      BY <3>7 DEF RegisterPush, UnregisterPush
    <3>8. CASE Crash \/ UNCHANGED vars
      BY <3>8 DEF Crash, tableVars, vars
    <3>. QED
      BY <3>1, <3>2, <3>3, <3>4, <3>5, <3>6, <3>7, <3>8 DEF Next, Step
  <2>2. ASSUME NEW q \in Proc, NEW v \in User, NEW f \in Endpoint, Prune(q, v, f)
        PROVE  owner'[e] = owner[e] \/ (owner[e] = u /\ owner'[e] = NoUser)
    <3>1. q = p /\ v = u /\ f = e
      BY <2>0, <2>2 DEF Prune, Job
    <3>. QED
      BY <2>0, <2>2, <3>1 DEF Prune
  <2>. QED
    BY <2>1, <2>2
<1>. QED
  BY <1>1, TypeCorrect, PTL DEF Spec, OthersKeepBrowsers
-----------------------------------------------------------------------------
(* The session table *)

\* What this module knows of the holder of a machine.
BusyHolder == [m \in Machine |-> IF m \in busy THEN "occupied" ELSE "free"]

\* The session table that UsageSession implements, without users; a machine that
\* is not created yet is free.
Table == INSTANCE Occupancy WITH User <- {}, NoUser <- "occupied",
                                 Free <- "free", holder <- BusyHolder,
                                 deleted <- retired

\* The machines of the room are taken and freed as the session table allows: the
\* availability that announcements are about is the one UsageSession keeps.
THEOREM SessionsOfOccupancy == Spec => Table!Spec
<1>1. Init => Table!Init
  BY DEF Init, Table!Init, BusyHolder
<1>2. TypeOK /\ [Next]_vars => [Table!Next]_<<BusyHolder, retired>>
  <2> SUFFICES ASSUME TypeOK, [Next]_vars
               PROVE  Table!Next \/ UNCHANGED <<BusyHolder, retired>>
    OBVIOUS
  <2>1. ASSUME NEW m \in Machine, StartUsing(m)
        PROVE  Table!Next
    <3>1. BusyHolder' = [BusyHolder EXCEPT ![m] = "occupied"]
      BY <2>1 DEF StartUsing, BusyHolder
    <3>2. m \notin retired /\ BusyHolder[m] = "free"
      BY <2>1 DEF StartUsing, BusyHolder, TypeOK
    <3>3. Table!Start(m)
      BY <2>1, <3>1, <3>2 DEF StartUsing, Table!Start
    <3>. QED
      BY <3>3 DEF Table!Next
  <2>2. ASSUME NEW p \in Proc, NEW m \in Machine, FinishUsing(p, m)
        PROVE  Table!Next
    <3>1. BusyHolder' = [BusyHolder EXCEPT ![m] = "free"]
      BY <2>2 DEF FinishUsing, BusyHolder
    <3>2. m \notin retired /\ BusyHolder[m] # "free"
      BY <2>2 DEF FinishUsing, BusyHolder, TypeOK
    <3>3. Table!Finish(m)
      BY <2>2, <3>1, <3>2 DEF FinishUsing, Table!Finish
    <3>. QED
      BY <3>3 DEF Table!Next
  <2>3. ASSUME NEW m \in Machine, DeleteMachine(m)
        PROVE  Table!Next
    <3>1. m \notin retired
      BY <2>3 DEF DeleteMachine, TypeOK
    <3>2. Table!Delete(m)
      BY <2>3, <3>1 DEF DeleteMachine, Table!Delete, BusyHolder
    <3>. QED
      BY <3>2 DEF Table!Next
  <2>4. ASSUME UNCHANGED <<busy, retired>>
        PROVE  UNCHANGED <<BusyHolder, retired>>
    BY <2>4 DEF BusyHolder
  <2>5. ASSUME NEW p \in Proc,
               Request(p), \A m \in Machine : ~ FinishUsing(p, m)
        PROVE  UNCHANGED <<busy, retired>>
    BY <2>5 DEF Request, AdminBegin, SubscribeBegin, machineVars
  <2>6. ASSUME NEW p \in Proc, Step(p) \/ Failure(p)
        PROVE  UNCHANGED <<busy, retired>>
    <3>1. CASE Subscribe(p) \/ Administer(p)
      BY <3>1 DEF Subscribe, SubscribeCheck, SubscribeUpsert, UpsertFails,
                  SubscribeRecheck, SubscribeRollback, Administer, AdminPrevious,
                  AdminUpdate, AdminRefused, machineVars
    <3>2. CASE Announce(p) \/ Send(p)
      BY <3>2 DEF Announce, FinishMachine, Subscribers, Count, AllSettled,
                  DeleteNotified, Send, Lookup, Delivered, Refused, Prune,
                  machineVars
    <3>3. CASE Failure(p)
      BY <3>3 DEF Failure, DatabaseError, LookupFails, PruneFails
    <3>. QED
      BY <2>6, <3>1, <3>2, <3>3 DEF Step
  <2>7. CASE \/ \E m \in Machine : CreateMachine(m)
             \/ \E u \in User : Unsubscribe(u) \/ DeactivateUser(u)
             \/ \E u \in User, e \in Endpoint : RegisterPush(u, e) \/ UnregisterPush(u, e)
             \/ Crash \/ UNCHANGED vars
    BY <2>4, <2>7 DEF CreateMachine, Unsubscribe, DeactivateUser, RegisterPush,
                      UnregisterPush, Crash, machineVars, vars
  <2>. QED
    BY <2>1, <2>2, <2>3, <2>4, <2>5, <2>6, <2>7 DEF Next
<1>. QED
  BY <1>1, <1>2, TypeCorrect, PTL DEF Spec, Table!Spec
=============================================================================
