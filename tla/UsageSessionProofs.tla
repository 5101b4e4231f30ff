------------------------- MODULE UsageSessionProofs -------------------------
(***************************************************************************)
(* Proofs about UsageSession, for every number of machines, users, session *)
(* ids and handlers.                                                        *)
(***************************************************************************)
EXTENDS UsageSession, SequenceTheorems, TLAPS

\* A session that a handler holds on to is a row of the table.
TargetExists ==
    \A p \in Proc : pc[p] \in TargetPC => arg[p].target \in DOMAIN usage

\* The session that a register, disable or unlink waits for is one of its machine.
WaitTarget ==
    \A p \in Proc : pc[p] \in WaitPC =>
        usage[arg[p].target].machine = arg[p].machine

-----------------------------------------------------------------------------
(* Types of the shared steps *)

\* Each update of a session row leaves it well formed.
LEMMA RowUpdates ==
    ASSUME NEW r \in UsageRow, NEW u \in User \cup {NoUser}, NEW b \in BOOLEAN,
           NEW t \in Nat
    PROVE  /\ [r EXCEPT !.endedAt = t] \in UsageRow
           /\ [r EXCEPT !.endedAt = t, !.notify = b] \in UsageRow
           /\ [r EXCEPT !.user = u, !.notify = b] \in UsageRow
           /\ [r EXCEPT !.notify = b] \in UsageRow
  BY DEF UsageRow

\* The replies and arguments the steps build are well formed.
LEMMA NoReplyType == NoReply \in Reply
  BY DEF Reply

\* The arguments of an idle handler are well typed.
LEMMA NoArgType == NoArg \in Arg
  BY DEF NoArg, Args, Arg

\* Setting one handler to a label whose arguments it has keeps the types.
LEMMA SetHandler ==
    ASSUME HandlerTypeOK, NEW p \in Proc, NEW l \in PC, NEW a \in Arg,
           HasArgs(l, a),
           pc' = [pc EXCEPT ![p] = l], arg' = [arg EXCEPT ![p] = a]
    PROVE  HandlerTypeOK'
  BY DEF HandlerTypeOK, HasArgs

\* Any handler may leave.
LEMMA LeaveType ==
    ASSUME HandlerTypeOK, NEW p \in Proc, Leave(p)
    PROVE  HandlerTypeOK'
<1>1. "idle" \in PC /\ HasArgs("idle", NoArg)
  BY DEF PC, HasArgs, UserPC, TargetPC, OwnPC, RegisterPC, ConfirmPC
<1> QED
  BY <1>1, NoArgType, SetHandler DEF Leave

\* A handler may go on to a label that needs no argument it lacks.
LEMMA GotoType ==
    ASSUME HandlerTypeOK, NEW p \in Proc, NEW l \in PC, Goto(p, l),
           UNCHANGED arg, pc[p] # "idle",
           l \in UserPC => pc[p] \in UserPC,
           l \in TargetPC => pc[p] \in TargetPC
    PROVE  HandlerTypeOK' /\ reply' \in Reply
<1>1. HandlerTypeOK'
  BY DEF HandlerTypeOK, HasArgs, Goto
<1> QED
  BY <1>1, NoReplyType DEF Goto

\* The end of a transaction keeps the types of the locks.
LEMMA ReleaseType ==
    ASSUME LockTypeOK, NEW p \in Proc, Release(p)
    PROVE  LockTypeOK'
  BY DEF LockTypeOK, Release

\* So does the answer to a request.
LEMMA ReturnType ==
    ASSUME HandlerTypeOK, NEW p \in Proc, NEW c \in Reply, Return(p, c)
    PROVE  HandlerTypeOK' /\ reply' \in Reply
  BY LeaveType DEF Return

\* The end of an event handler keeps the handler types.
LEMMA EndType ==
    ASSUME HandlerTypeOK, NEW p \in Proc, End(p)
    PROVE  HandlerTypeOK' /\ reply' \in Reply
  BY LeaveType, NoReplyType DEF End

\* A handler that begins with the arguments its label needs keeps the types.
LEMMA BeginType ==
    ASSUME TypeOK, NEW p \in Proc, NEW l \in PC, NEW a \in Arg, HasArgs(l, a),
           Begin(p, l, a)
    PROVE  TypeOK'
<1>1. HandlerTypeOK'
  BY SetHandler DEF Begin, Goto, TypeOK
<1> QED
  BY <1>1, NoReplyType
  DEF Begin, Goto, TypeOK, UsageTypeOK, LockTypeOK, locks

\* A SELECT ... FOR UPDATE on the machine row keeps the types.
LEMMA LockMachineType ==
    ASSUME TypeOK, NEW p \in Proc, NEW l \in PC, pc[p] # "idle",
           l \in UserPC => pc[p] \in UserPC,
           l \in TargetPC => pc[p] \in TargetPC,
           LockMachine(p, l)
    PROVE  TypeOK'
<1>1. HandlerTypeOK' /\ reply' \in Reply
  BY GotoType DEF LockMachine, TypeOK
<1>2. LockTypeOK'
  BY DEF LockMachine, TypeOK, LockTypeOK
<1> QED
  BY <1>1, <1>2 DEF LockMachine, TypeOK, UsageTypeOK

\* A dispatched notice is a well-typed entry of the log.
LEMMA DispatchType ==
    ASSUME notices \in [Usage -> Seq(Notice)], NEW s \in Usage,
           NEW k \in {"completed", "replaced"}, NEW u \in User,
           Dispatch(s, k, u)
    PROVE  notices' \in [Usage -> Seq(Notice)]
<1>1. [kind |-> k, user |-> u] \in Notice
  BY DEF Notice
<1> QED
  BY <1>1 DEF Dispatch

-----------------------------------------------------------------------------
(* Type correctness *)

\* The initial state is well typed.
LEMMA InitType == Init => TypeOK
<1> SUFFICES ASSUME Init PROVE TypeOK
  OBVIOUS
<1>1. HandlerTypeOK
  BY NoArgType
  DEF Init, HandlerTypeOK, HasArgs, PC, UserPC, TargetPC, OwnPC, RegisterPC, ConfirmPC
<1>2. UsageTypeOK
  BY DEF Init, UsageTypeOK
<1> QED
  BY <1>1, <1>2, NoReplyType DEF Init, TypeOK, LockTypeOK

\* The steps of startUsingMachine.
LEMMA StartType ==
    ASSUME TypeOK, NEW p \in Proc, Start(p)
    PROVE  TypeOK'
<1> USE DEF PC, UserPC, TargetPC, OwnPC, StartPC, RegisterPC, ConfirmPC
<1>1. CASE StartLock(p)
  <2>1. CASE LockMachine(p, "start_find")
    BY <1>1, <2>1, LockMachineType DEF StartLock
  <2>2. CASE MachineGone(p) /\ End(p)
    BY <2>2, EndType DEF MachineGone, TypeOK, UsageTypeOK, LockTypeOK, locks
  <2> QED
    BY <1>1, <2>1, <2>2 DEF StartLock
<1>2. CASE StartFind(p)
  <2>1. HandlerTypeOK' /\ reply' \in Reply
    BY <1>2, EndType, GotoType DEF StartFind, TypeOK
  <2> QED
    BY <1>2, <2>1, ReleaseType
    DEF StartFind, TypeOK, UsageTypeOK, LockTypeOK, locks
<1>3. CASE StartCreate(p)
  <2>1. arg[p].machine \in Machine /\ arg[p].at \in Nat
    BY <1>3 DEF StartCreate, TypeOK, HandlerTypeOK, HasArgs, Arg
  <2>2. UsageTypeOK'
    BY <1>3, <2>1 DEF StartCreate, TypeOK, UsageTypeOK, UsageRow, NotEnded
  <2> QED
    BY <1>3, <2>2, EndType, ReleaseType DEF StartCreate, TypeOK
<1> QED
  BY <1>1, <1>2, <1>3 DEF Start

\* The steps of finishUsingMachine.
LEMMA FinishType ==
    ASSUME TypeOK, NEW p \in Proc, Finish(p)
    PROVE  TypeOK'
<1> USE DEF PC, UserPC, TargetPC, OwnPC, FinishPC, RegisterPC, ConfirmPC
<1>1. CASE FinishLock(p)
  <2>1. CASE LockMachine(p, "finish_update")
    BY <1>1, <2>1, LockMachineType DEF FinishLock
  <2>2. CASE MachineGone(p) /\ End(p)
    BY <2>2, EndType DEF MachineGone, TypeOK, UsageTypeOK, LockTypeOK, locks
  <2> QED
    BY <1>1, <2>1, <2>2 DEF FinishLock
<1>2. CASE FinishUpdate(p)
  <2>1. UsageTypeOK'
    BY <1>2, RowUpdates DEF FinishUpdate, Close, Recipient, TypeOK, UsageTypeOK
  <2>2. HandlerTypeOK' /\ reply' \in Reply
    <3>1. CASE End(p)
      BY <3>1, EndType DEF TypeOK
    <3>2. ASSUME NEW s \in OpenUsages(arg[p].machine),
                 arg' = [arg EXCEPT ![p] =
                           Args(@.machine,
                                IF usage[s].notify THEN usage[s].user ELSE NoUser,
                                NoGender, s, 0)],
                 Goto(p, "finish_machine")
          PROVE  HandlerTypeOK' /\ reply' \in Reply
      <4> DEFINE a == Args(arg[p].machine,
                           IF usage[s].notify THEN usage[s].user ELSE NoUser,
                           NoGender, s, 0)
      <4>1. arg[p].machine \in Machine
        BY <1>2 DEF
          FinishUpdate, Close, Recipient, TypeOK, HandlerTypeOK, HasArgs
      <4>2. s \in Usage /\ usage[s].user \in User \cup {NoUser}
        BY DEF TypeOK, UsageTypeOK, UsageRow, OpenUsages
      <4>3. a \in Arg /\ HasArgs("finish_machine", a)
        BY <4>1, <4>2 DEF Arg, Args, HasArgs
      <4>4. arg' = [arg EXCEPT ![p] = a]
        BY <3>2
      <4> HIDE DEF a
      <4> QED
        BY <3>2, <4>3, <4>4, SetHandler, NoReplyType DEF Goto, TypeOK
    <3> QED
      BY <1>2, <3>1, <3>2 DEF FinishUpdate, Close, Recipient
  <2> QED
    BY <1>2, <2>1, <2>2, ReleaseType DEF FinishUpdate, Close, Recipient, TypeOK
<1>3. CASE FinishMachine(p)
  <2>1. HandlerTypeOK' /\ reply' \in Reply
    BY <1>3, EndType, GotoType DEF FinishMachine, TypeOK
  <2> QED
    BY <1>3, <2>1 DEF FinishMachine, TypeOK, UsageTypeOK, LockTypeOK, locks
<1>4. CASE FinishNotify(p)
  <2>1. arg[p].target \in Usage /\ arg[p].user \in User \cup {NoUser}
    BY <1>4 DEF FinishNotify, TypeOK, HandlerTypeOK, HasArgs, Arg
  <2>2. notices' \in [Usage -> Seq(Notice)]
    BY <1>4, <2>1, DispatchType DEF FinishNotify, TypeOK
  <2> QED
    BY <1>4, <2>2, EndType
    DEF FinishNotify, TypeOK, UsageTypeOK, LockTypeOK, locks
<1> QED
  BY <1>1, <1>2, <1>3, <1>4 DEF Finish

\* getMachineDetail.
LEMMA MachineDetailType ==
    ASSUME TypeOK, NEW p \in Proc, NEW l \in PC, pc[p] # "idle",
           l \in UserPC => pc[p] \in UserPC,
           l \in TargetPC => pc[p] \in TargetPC,
           MachineDetail(p, l)
    PROVE  TypeOK'
<1>1. HandlerTypeOK' /\ reply' \in Reply
  <2>1. CASE Return(p, "not_found")
    BY <2>1, ReturnType DEF TypeOK, Reply
  <2>2. CASE Return(p, "forbidden")
    BY <2>2, ReturnType DEF TypeOK, Reply
  <2>3. CASE Goto(p, l) /\ UNCHANGED arg
    BY <2>3, GotoType DEF TypeOK
  <2> QED
    BY <2>1, <2>2, <2>3 DEF MachineDetail
<1> QED
  BY <1>1 DEF MachineDetail, TypeOK, UsageTypeOK, LockTypeOK, locks

\* The update of register keeps the rows well formed.
LEMMA SetRegisteredType ==
    ASSUME UsageTypeOK, NEW S, NEW u \in User, SetRegistered(S, u)
    PROVE  UsageTypeOK'
  BY RowUpdates DEF SetRegistered, UsageTypeOK

\* The steps of enableMachineNotification.
LEMMA RegisterType ==
    ASSUME TypeOK, NEW p \in Proc, Register(p)
    PROVE  TypeOK'
<1> USE DEF PC, UserPC, TargetPC, OwnPC, RegisterPC, ConfirmPC
<1>1. CASE RegisterDetail(p)
  BY <1>1, MachineDetailType DEF RegisterDetail
<1>2. CASE RegisterUpdate(p)
  <2>0. arg[p].user \in User /\ arg[p].machine \in Machine
    BY <1>2 DEF RegisterUpdate, TypeOK, HandlerTypeOK, HasArgs
  <2>1. UsageTypeOK'
    BY <1>2, <2>0, SetRegisteredType DEF RegisterUpdate, TypeOK, UsageTypeOK
  <2>2. HandlerTypeOK' /\ reply' \in Reply
    <3>1. CASE Return(p, "ok")
      BY <3>1, ReturnType DEF TypeOK, Reply
    <3>2. CASE Goto(p, "register_diagnose") /\ UNCHANGED arg
      BY <1>2, <3>2, GotoType DEF RegisterUpdate, TypeOK
    <3>3. ASSUME NEW s \in OpenUsages(arg[p].machine),
                 Goto(p, "register_wait"),
                 arg' = [arg EXCEPT ![p].target = s]
          PROVE  HandlerTypeOK' /\ reply' \in Reply
      <4> DEFINE a == [arg[p] EXCEPT !.target = s]
      <4>1. s \in Usage /\ arg[p] \in Arg
        BY DEF TypeOK, HandlerTypeOK, UsageTypeOK, OpenUsages
      <4>2. a \in Arg /\ HasArgs("register_wait", a)
        BY <2>0, <4>1 DEF Arg, HasArgs
      <4>3. arg' = [arg EXCEPT ![p] = a]
        BY <3>3
      <4> HIDE DEF a
      <4> QED
        BY <3>3, <4>2, <4>3, SetHandler, NoReplyType DEF Goto, TypeOK
    <3> QED
      BY <1>2, <3>1, <3>2, <3>3 DEF RegisterUpdate, Registrable
  <2> QED
    BY <1>2, <2>1, <2>2 DEF RegisterUpdate, TypeOK, LockTypeOK, locks
<1>3. CASE RegisterWait(p)
  <2>0. arg[p].user \in User
    BY <1>3 DEF RegisterWait, TypeOK, HandlerTypeOK, HasArgs
  <2>1. UsageTypeOK'
    BY <1>3, <2>0, SetRegisteredType DEF RegisterWait, TypeOK, UsageTypeOK
  <2>2. HandlerTypeOK' /\ reply' \in Reply
    <3>1. CASE Return(p, "ok")
      BY <3>1, ReturnType DEF TypeOK, Reply
    <3>2. CASE Goto(p, "register_diagnose") /\ UNCHANGED arg
      BY <1>3, <3>2, GotoType DEF RegisterWait, TypeOK
    <3> QED
      BY <1>3, <3>1, <3>2 DEF RegisterWait
  <2> QED
    BY <1>3, <2>1, <2>2 DEF RegisterWait, TypeOK, LockTypeOK, locks
<1>4. CASE RegisterDiagnose(p)
  <2>1. \E c \in Reply : Return(p, c)
    BY <1>4 DEF RegisterDiagnose, Reply
  <2>2. HandlerTypeOK' /\ reply' \in Reply
    BY <2>1, ReturnType DEF TypeOK
  <2> QED
    BY <1>4, <2>2 DEF RegisterDiagnose, TypeOK, UsageTypeOK, LockTypeOK, locks
<1> QED
  BY <1>1, <1>2, <1>3, <1>4 DEF Register

\* The steps of confirmCompletedAndRegister.
LEMMA ConfirmType ==
    ASSUME TypeOK, TargetExists, NEW p \in Proc, Confirm(p)
    PROVE  TypeOK'
<1> USE DEF PC, UserPC, TargetPC, OwnPC, RegisterPC, ConfirmPC
<1>1. CASE ConfirmDetail(p)
  BY <1>1, MachineDetailType DEF ConfirmDetail
<1>2. CASE ConfirmLock(p)
  <2>1. CASE LockMachine(p, "confirm_usage_lock")
    BY <1>2, <2>1, LockMachineType DEF ConfirmLock
  <2>2. CASE MachineGone(p) /\ Return(p, "not_found")
    BY <2>2, ReturnType
    DEF MachineGone, TypeOK, UsageTypeOK, LockTypeOK, locks, Reply
  <2> QED
    BY <1>2, <2>1, <2>2 DEF ConfirmLock
<1>3. CASE ConfirmUsageLock(p)
  <2>1. HandlerTypeOK' /\ reply' \in Reply
    BY <1>3, GotoType DEF ConfirmUsageLock, TypeOK
  <2>2. LockTypeOK'
    BY <1>3 DEF ConfirmUsageLock, TypeOK, LockTypeOK
  <2> QED
    BY <1>3, <2>1, <2>2 DEF ConfirmUsageLock, TypeOK, UsageTypeOK
<1>4. CASE ConfirmFind(p)
  <2>0. /\ arg[p].machine \in Machine /\ arg[p].user \in User
        /\ arg[p].target \in Usage
    BY <1>4 DEF ConfirmFind, TypeOK, HandlerTypeOK, HasArgs
  <2>1. CASE \E c \in Reply : Return(p, c) /\ Release(p)
    <3>1. HandlerTypeOK' /\ reply' \in Reply
      BY <2>1, ReturnType DEF TypeOK
    <3> QED
      BY <1>4, <2>1, <3>1, ReleaseType DEF ConfirmFind, TypeOK, UsageTypeOK
  <2>2. CASE /\ Goto(p, "confirm_write")
             /\ arg' = [arg EXCEPT ![p].at = clock]
             /\ UNCHANGED locks
    <3> DEFINE a == [arg[p] EXCEPT !.at = clock]
    <3>1. a \in Arg /\ HasArgs("confirm_write", a)
      BY <2>0 DEF Arg, HasArgs, TypeOK, HandlerTypeOK
    <3>2. arg' = [arg EXCEPT ![p] = a]
      BY <2>2
    <3> HIDE DEF a
    <3>3. HandlerTypeOK' /\ reply' \in Reply
      BY <2>2, <3>1, <3>2, SetHandler, NoReplyType DEF Goto, TypeOK
    <3> QED
      BY <1>4, <2>2, <3>3
      DEF ConfirmFind, TypeOK, UsageTypeOK, LockTypeOK, locks
  <2> QED
    BY <1>4, <2>1, <2>2 DEF ConfirmFind, Reply
<1>5. CASE ConfirmWrite(p)
  <2> DEFINE old == arg[p].target
  <2>0. /\ arg[p].machine \in Machine /\ arg[p].user \in User
        /\ old \in Usage /\ arg[p].at \in Nat
    BY <1>5 DEF ConfirmWrite, TypeOK, HandlerTypeOK, HasArgs, Arg
  <2>1. old \in DOMAIN usage
    BY <1>5 DEF ConfirmWrite, TargetExists
  <2>2. /\ usage[old] \in UsageRow
        /\ usage[old].startedAt \in Nat
        /\ usage[old].user \in User \cup {NoUser}
    BY <2>1 DEF TypeOK, UsageTypeOK, UsageRow
  <2>3. UsageTypeOK'
    <3> DEFINE closed == [usage[old] EXCEPT !.endedAt = usage[old].startedAt,
                                            !.notify = FALSE]
               new == [machine |-> arg[p].machine, user |-> arg[p].user,
                       notify |-> TRUE, startedAt |-> arg[p].at,
                       endedAt |-> NotEnded]
    <3>1. closed \in UsageRow
      BY <2>2, RowUpdates
    <3>2. new \in UsageRow
      BY <2>0 DEF UsageRow
    <3>3. \E n \in Usage : usage' = [s \in DOMAIN usage \cup {n} |->
            IF s = n THEN new ELSE IF s = old THEN closed ELSE usage[s]]
      BY <1>5 DEF ConfirmWrite
    <3> HIDE DEF closed, new
    <3> QED
      BY <3>1, <3>2, <3>3 DEF TypeOK, UsageTypeOK
  <2>4. HandlerTypeOK' /\ reply' \in Reply
    <3> DEFINE a == Args(arg[p].machine, usage[old].user, NoGender, old, 0)
    <3>1. a \in Arg /\ HasArgs("confirm_notify", a)
      BY <2>0, <2>2 DEF Arg, Args, HasArgs
    <3>2. arg' = [arg EXCEPT ![p] = a]
      BY <1>5 DEF ConfirmWrite
    <3> HIDE DEF a
    <3> QED
      BY <1>5, <3>1, <3>2, SetHandler, NoReplyType
      DEF ConfirmWrite, Goto, TypeOK
  <2> QED
    BY <1>5, <2>3, <2>4, ReleaseType DEF ConfirmWrite, TypeOK
<1>6. CASE ConfirmNotify(p)
  <2>1. arg[p].target \in Usage /\ arg[p].user \in User \cup {NoUser}
    BY <1>6 DEF ConfirmNotify, TypeOK, HandlerTypeOK, HasArgs, Arg
  <2>2. notices' \in [Usage -> Seq(Notice)]
    BY <1>6, <2>1, DispatchType DEF ConfirmNotify, TypeOK
  <2>3. HandlerTypeOK' /\ reply' \in Reply
    BY <1>6, ReturnType DEF ConfirmNotify, TypeOK, Reply
  <2> QED
    BY <1>6, <2>2, <2>3
    DEF ConfirmNotify, TypeOK, UsageTypeOK, LockTypeOK, locks
<1> QED
  BY <1>1, <1>2, <1>3, <1>4, <1>5, <1>6 DEF Confirm

\* The updates of disable and unlink keep the rows well formed.
LEMMA OwnUpdatesType ==
    ASSUME UsageTypeOK, NEW S, SetQuiet(S) \/ SetUnlinked(S)
    PROVE  UsageTypeOK'
<1>1. CASE SetQuiet(S)
  BY <1>1, RowUpdates DEF SetQuiet, UsageTypeOK
<1>2. CASE SetUnlinked(S)
  BY <1>2, RowUpdates DEF SetUnlinked, UsageTypeOK
<1> QED
  BY <1>1, <1>2

\* Requests, faults and the handlers that are one statement.
LEMMA OtherType ==
    ASSUME TypeOK,
           \/ \E p \in Proc : \/ NewRequest(p) \/ OwnWait(p) \/ InsertFails(p)
                             \/ DatabaseError(p)
           \/ \E u \in User, m \in Machine :
                DisableMachineNotification(u, m) \/ UnlinkUserFromMachine(u, m)
           \/ \E m \in Machine : DeleteMachine(m)
           \/ Tick
           \/ Crash
    PROVE  TypeOK'
<1> USE DEF PC, UserPC, TargetPC, OwnPC, RegisterPC, ConfirmPC, StartPC, FinishPC
<1>1. ASSUME NEW p \in Proc, NEW m \in Machine, StartBegin(p, m)
      PROVE  TypeOK'
  <2>1. /\ Args(m, NoUser, NoGender, NoUsage, clock) \in Arg
        /\ HasArgs("start_lock", Args(m, NoUser, NoGender, NoUsage, clock))
    BY DEF Arg, Args, HasArgs, TypeOK
  <2> QED
    BY <1>1, <2>1, BeginType DEF StartBegin
<1>2. ASSUME NEW p \in Proc, NEW m \in Machine, FinishBegin(p, m)
      PROVE  TypeOK'
  <2>1. /\ Args(m, NoUser, NoGender, NoUsage, 0) \in Arg
        /\ HasArgs("finish_lock", Args(m, NoUser, NoGender, NoUsage, 0))
    BY DEF Arg, Args, HasArgs
  <2> QED
    BY <1>2, <2>1, BeginType DEF FinishBegin
<1>3. ASSUME NEW p \in Proc, NEW u \in User, NEW g \in Gender,
             NEW m \in Machine, RegisterBegin(p, u, g, m)
      PROVE  TypeOK'
  <2>1. /\ Args(m, u, g, NoUsage, 0) \in Arg
        /\ HasArgs("register_detail", Args(m, u, g, NoUsage, 0))
    BY DEF Arg, Args, HasArgs
  <2> QED
    BY <1>3, <2>1, BeginType DEF RegisterBegin
<1>4. ASSUME NEW p \in Proc, NEW u \in User, NEW g \in Gender,
             NEW m \in Machine, NEW s \in DOMAIN usage,
             ConfirmBegin(p, u, g, m, s)
      PROVE  TypeOK'
  <2>1. /\ Args(m, u, g, s, 0) \in Arg
        /\ HasArgs("confirm_detail", Args(m, u, g, s, 0))
    BY DEF Arg, Args, HasArgs, TypeOK, UsageTypeOK
  <2> QED
    BY <1>4, <2>1, BeginType DEF ConfirmBegin
<1>5. ASSUME NEW p \in Proc, InsertFails(p)
      PROVE  TypeOK'
  BY <1>5, EndType, ReleaseType DEF InsertFails, TypeOK, UsageTypeOK
<1>6. ASSUME NEW p \in Proc, DatabaseError(p)
      PROVE  TypeOK'
  BY <1>6, EndType, ReleaseType DEF DatabaseError, TypeOK, UsageTypeOK
<1>7. ASSUME NEW u \in User, NEW m \in Machine,
             \/ DisableMachineNotification(u, m)
             \/ UnlinkUserFromMachine(u, m)
      PROVE  TypeOK'
  <2>1. UsageTypeOK'
    <3>1. CASE DisableMachineNotification(u, m)
      BY <3>1, OwnUpdatesType DEF DisableMachineNotification, TypeOK
    <3>2. CASE UnlinkUserFromMachine(u, m)
      BY <3>2, OwnUpdatesType DEF UnlinkUserFromMachine, TypeOK
    <3> QED
      BY <1>7, <3>1, <3>2
  <2>2. /\ UNCHANGED <<deleted, locks, pc, arg, notices, clock, faults>>
        /\ reply' = NoReply
    BY <1>7 DEF DisableMachineNotification, UnlinkUserFromMachine
  <2> QED
    BY <2>1, <2>2, NoReplyType
    DEF TypeOK, LockTypeOK, HandlerTypeOK, HasArgs, locks
<1>8. ASSUME NEW m \in Machine, DeleteMachine(m)
      PROVE  TypeOK'
  BY <1>8, NoReplyType
  DEF DeleteMachine, TypeOK, UsageTypeOK, LockTypeOK, HandlerTypeOK, HasArgs, locks
<1>9. CASE Tick
  BY <1>9, NoReplyType
  DEF Tick, TypeOK, UsageTypeOK, LockTypeOK, HandlerTypeOK, HasArgs, locks
<1>10. CASE Crash
  <2>1. HandlerTypeOK'
    BY <1>10, NoArgType DEF Crash, HandlerTypeOK, HasArgs
  <2> QED
    BY <1>10, <2>1, NoReplyType DEF Crash, TypeOK, UsageTypeOK, LockTypeOK
<1>11. ASSUME NEW p \in Proc, NEW u \in User, NEW l \in OwnPC,
              NEW m \in Machine, OwnBegin(p, l, u, m)
       PROVE  TypeOK'
  <2>1. PICK s \in OwnUsages(u, m) :
          Begin(p, l, Args(m, u, NoGender, s, 0))
    BY <1>11 DEF OwnBegin
  <2>2. s \in Usage
    BY DEF OwnUsages, OpenUsages, TypeOK, UsageTypeOK
  <2>3. /\ Args(m, u, NoGender, s, 0) \in Arg
        /\ HasArgs(l, Args(m, u, NoGender, s, 0))
    BY <2>2 DEF Arg, Args, HasArgs
  <2> QED
    BY <2>1, <2>3, BeginType
<1>12. ASSUME NEW p \in Proc, OwnWait(p)
       PROVE  TypeOK'
  <2>1. UsageTypeOK'
    BY <1>12, OwnUpdatesType DEF OwnWait, TypeOK
  <2>2. HandlerTypeOK' /\ reply' \in Reply
    BY <1>12, ReturnType DEF OwnWait, Reply, TypeOK
  <2> QED
    BY <1>12, <2>1, <2>2 DEF OwnWait, TypeOK, LockTypeOK, locks
<1> QED
  BY <1>1, <1>2, <1>3, <1>4, <1>5, <1>6, <1>7, <1>8, <1>9, <1>10, <1>11, <1>12
  DEF NewRequest

-----------------------------------------------------------------------------
(* What a step does to the table and to the handlers *)

\* No step removes a row.
LEMMA RowsStay ==
    ASSUME [Next]_vars
    PROVE  DOMAIN usage \subseteq DOMAIN usage'
<1>1. ASSUME NEW p \in Proc, Step(p)
      PROVE  DOMAIN usage \subseteq DOMAIN usage'
  BY <1>1
  DEF Step, OwnWait, Start, Finish, Register, Confirm, InsertFails, StartLock, StartFind,
      StartCreate, FinishLock,
        FinishUpdate, Close, Recipient, FinishMachine, FinishNotify,
      RegisterDetail, RegisterUpdate, RegisterWait, RegisterDiagnose,
      SetRegistered, ConfirmDetail, ConfirmLock, ConfirmUsageLock, ConfirmFind,
      ConfirmWrite, ConfirmNotify, MachineDetail, LockMachine, MachineGone,
      SetQuiet, SetUnlinked
<1>2. ASSUME NEW p \in Proc, NewRequest(p) \/ DatabaseError(p)
      PROVE  DOMAIN usage \subseteq DOMAIN usage'
  BY <1>2
  DEF NewRequest, StartBegin, FinishBegin, RegisterBegin, ConfirmBegin, OwnBegin, Begin,
      DatabaseError
<1>3. ASSUME NEW u \in User, NEW m \in Machine,
             \/ DisableMachineNotification(u, m)
             \/ UnlinkUserFromMachine(u, m)
             \/ DeleteMachine(m)
             \/ Tick
             \/ Crash
             \/ UNCHANGED vars
      PROVE  DOMAIN usage \subseteq DOMAIN usage'
  BY <1>3
  DEF DisableMachineNotification, UnlinkUserFromMachine, DeleteMachine, Tick,
      Crash, SetQuiet, SetUnlinked, vars
<1> QED
  BY <1>1, <1>2, <1>3
  DEF Next, DeleteMachine, Tick, Crash, vars

\* A step of handler p leaves the others where they are.
Frame(p) == \A q \in Proc \ {p} : pc'[q] = pc[q] /\ arg'[q] = arg[q]

\* The three things a step of p can do to the lock on its machine row.
Takes(p) ==
    /\ pc[p] \in {"start_lock", "finish_lock", "confirm_lock"}
    /\ pc'[p] \in {"start_find", "finish_update", "confirm_usage_lock"}
    /\ arg'[p] = arg[p]
    /\ machineLock[arg[p].machine] = NoProc
    /\ arg[p].machine \notin deleted
    /\ machineLock' = [machineLock EXCEPT ![arg[p].machine] = p]
    /\ UNCHANGED <<usage, usageLock>>

Releases(p) == Release(p) /\ pc'[p] \notin MachineLockPC

Keeps(p) ==
    /\ UNCHANGED machineLock
    /\ pc'[p] \in MachineLockPC <=> pc[p] \in MachineLockPC
    /\ pc[p] \in MachineLockPC => arg'[p].machine = arg[p].machine

\* Every step of a handler is of one of the three kinds.
LEMMA HandlerStep ==
    ASSUME TypeOK, NEW p \in Proc,
           Step(p) \/ NewRequest(p) \/ DatabaseError(p)
    PROVE  Frame(p) /\ (Takes(p) \/ Releases(p) \/ Keeps(p))
<1> USE DEF MachineLockPC, TypeOK, HandlerTypeOK
<1>1. CASE Start(p)
  BY <1>1
  DEF Start, StartLock, StartFind, StartCreate, LockMachine, MachineGone, Goto,
      End, Leave, Frame, Takes, Releases, Keeps, locks
<1>2. CASE Finish(p)
  BY <1>2
  DEF Finish, FinishLock,
    FinishUpdate, Close, Recipient, FinishMachine, FinishNotify,
      LockMachine, MachineGone, Goto, End, Leave, Frame, Takes, Releases, Keeps,
      locks
<1>3. CASE Register(p)
  BY <1>3
  DEF Register, RegisterDetail, RegisterUpdate, RegisterWait, RegisterDiagnose,
      MachineDetail, Goto, Return, Leave, Frame, Takes, Releases, Keeps, Arg,
      locks
<1>4. CASE Confirm(p)
  BY <1>4
  DEF Confirm, ConfirmDetail, ConfirmLock, ConfirmUsageLock, ConfirmFind,
      ConfirmWrite, ConfirmNotify, LockMachine, MachineGone, MachineDetail, Goto,
      Return, Leave, Args, Arg, Frame, Takes, Releases, Keeps, locks
<1>5. CASE InsertFails(p) \/ DatabaseError(p)
  BY <1>5
  DEF InsertFails, DatabaseError, End, Leave, Frame, Releases
<1>6. CASE NewRequest(p)
  BY <1>6
  DEF NewRequest, StartBegin, FinishBegin, RegisterBegin, ConfirmBegin, OwnBegin, Begin,
      OwnPC, Goto, Frame, Keeps, locks
<1>7. CASE OwnWait(p)
  BY <1>7 DEF OwnWait, OwnPC, Return, Leave, Frame, Keeps, locks
<1> QED
  BY <1>1, <1>2, <1>3, <1>4, <1>5, <1>6, <1>7 DEF Step

\* A step that is not one of a handler touches neither handlers nor locks,
\* except for a crash, which drops all of them.
Outside ==
    \/ \E u \in User, m \in Machine :
         DisableMachineNotification(u, m) \/ UnlinkUserFromMachine(u, m)
    \/ \E m \in Machine : DeleteMachine(m)
    \/ Tick
    \/ UNCHANGED vars

\* What is done outside the handlers leaves them and the locks alone.
LEMMA OutsideStep ==
    ASSUME Outside
    PROVE  UNCHANGED <<pc, arg, locks>>
  BY DEF Outside, DisableMachineNotification, UnlinkUserFromMachine,
         DeleteMachine, Tick, vars, locks

\* Every step is one of a handler, one outside of them, or a crash.
LEMMA NextCases ==
    ASSUME [Next]_vars
    PROVE  \/ \E p \in Proc : Step(p) \/ NewRequest(p) \/ DatabaseError(p)
           \/ Outside
           \/ Crash
  BY DEF Next, Outside

\* The machine locks are held by exactly the open transactions.
LEMMA MachineLockStep ==
    ASSUME TypeOK, MachineLockOK, [Next]_vars
    PROVE  MachineLockOK'
<1> USE NullsAssumption
<1>1. ASSUME NEW p \in Proc, Step(p) \/ NewRequest(p) \/ DatabaseError(p)
      PROVE  MachineLockOK'
  <2>1. Frame(p) /\ (Takes(p) \/ Releases(p) \/ Keeps(p))
    BY <1>1, HandlerStep
  <2>2. CASE Takes(p)
    BY <2>1, <2>2
    DEF Takes, Frame, MachineLockOK, MachineLockPC, TypeOK, LockTypeOK,
        HandlerTypeOK, HasArgs
  <2>3. CASE Releases(p)
    BY <2>1, <2>3 DEF Releases, Release, Frame, MachineLockOK
  <2>4. CASE Keeps(p)
    BY <2>1, <2>4 DEF Keeps, Frame, MachineLockOK
  <2> QED
    BY <2>1, <2>2, <2>3, <2>4
<1>2. CASE Outside
  BY <1>2, OutsideStep DEF MachineLockOK, locks
<1>3. CASE Crash
  BY <1>3 DEF Crash, MachineLockOK, MachineLockPC
<1> QED
  BY <1>1, <1>2, <1>3, NextCases

-----------------------------------------------------------------------------
(* What a step does to the table *)

\* Register, disable and unlink: rows keep their machine and period, and only
\* open, unlocked rows of one machine change at all, from nobody to a registering
\* user or from a user to nobody.  A row of a deleted machine changes only by a
\* statement that had found it and waited for it.
Relinks ==
    /\ DOMAIN usage' = DOMAIN usage
    /\ \E m \in Machine : \A s \in DOMAIN usage :
         usage[s].machine # m => usage'[s] = usage[s]
    /\ \A s \in DOMAIN usage :
         /\ usage'[s].machine = usage[s].machine
         /\ usage'[s].startedAt = usage[s].startedAt
         /\ usage'[s].endedAt = usage[s].endedAt
         /\ \/ usage'[s] = usage[s]
            \/ /\ IsOpen(s)
               /\ usageLock[s] = NoProc
               /\ \/ usage[s].machine \notin deleted
                  \/ \E p \in Proc : /\ pc[p] \in WaitPC
                                    /\ arg[p].target = s
                                    /\ pc'[p] # pc[p]
               /\ \/ usage'[s].user \in {usage[s].user, NoUser}
                  \/ /\ usage[s].user = NoUser
                     /\ \E p \in Proc :
                          /\ pc[p] \in {"register_update", "register_wait"}
                          /\ usage'[s].user = arg[p].user
                          /\ usage[s].machine = arg[p].machine

\* What EXCEPT leaves alone in a row.
LEMMA RowFields ==
    ASSUME NEW r \in UsageRow, NEW u, NEW b
    PROVE  /\ [r EXCEPT !.user = u, !.notify = b].machine = r.machine
           /\ [r EXCEPT !.user = u, !.notify = b].startedAt = r.startedAt
           /\ [r EXCEPT !.user = u, !.notify = b].endedAt = r.endedAt
           /\ [r EXCEPT !.user = u, !.notify = b].user = u
           /\ [r EXCEPT !.notify = b].machine = r.machine
           /\ [r EXCEPT !.notify = b].startedAt = r.startedAt
           /\ [r EXCEPT !.notify = b].endedAt = r.endedAt
           /\ [r EXCEPT !.notify = b].user = r.user
  BY DEF UsageRow

\* What a registration does to a row.
LEMMA RegisterFields ==
    ASSUME TypeOK, NEW S, NEW u, SetRegistered(S, u), NEW s \in DOMAIN usage
    PROVE  /\ usage'[s].machine = usage[s].machine
           /\ usage'[s].startedAt = usage[s].startedAt
           /\ usage'[s].endedAt = usage[s].endedAt
           /\ s \notin S => usage'[s] = usage[s]
           /\ s \in S => usage'[s].user = u
<1>1. /\ usage[s] \in UsageRow
      /\ usage'[s] = IF s \in S
                     THEN [usage[s] EXCEPT !.user = u, !.notify = TRUE]
                     ELSE usage[s]
  BY DEF SetRegistered, TypeOK, UsageTypeOK
<1> QED
  BY <1>1, RowFields

\* What a disable or an unlink does to a row.
LEMMA OwnFields ==
    ASSUME TypeOK, NEW S, SetQuiet(S) \/ SetUnlinked(S), NEW s \in DOMAIN usage
    PROVE  /\ usage'[s].machine = usage[s].machine
           /\ usage'[s].startedAt = usage[s].startedAt
           /\ usage'[s].endedAt = usage[s].endedAt
           /\ s \notin S => usage'[s] = usage[s]
           /\ usage'[s].user \in {usage[s].user, NoUser}
<1>1. /\ usage[s] \in UsageRow
      /\ \/ usage'[s] = usage[s]
         \/ s \in S /\ usage'[s] = [usage[s] EXCEPT !.notify = FALSE]
         \/ s \in S /\ usage'[s] = [usage[s] EXCEPT !.user = NoUser,
                                                     !.notify = FALSE]
  BY DEF SetQuiet, SetUnlinked, TypeOK, UsageTypeOK
<1>2. CASE usage'[s] = [usage[s] EXCEPT !.notify = FALSE] /\ s \in S
  BY <1>1, <1>2, RowFields
<1>3. CASE usage'[s] = [usage[s] EXCEPT !.user = NoUser, !.notify = FALSE] /\ s \in S
  BY <1>1, <1>3, RowFields
<1> QED
  BY <1>1, <1>2, <1>3

\* A handler that has waited is over or goes on to find out why it matched nothing.
LEMMA WaitMoves ==
    ASSUME TypeOK, NEW p \in Proc, RegisterWait(p) \/ OwnWait(p)
    PROVE  pc[p] \in WaitPC /\ pc'[p] # pc[p]
  BY DEF RegisterWait, OwnWait, WaitPC, OwnPC, Goto, Return, Leave, TypeOK,
         HandlerTypeOK

\* The conditional update of enableMachineNotification, immediate or after a
\* wait, links its user and changes nothing else.
LEMMA RegisterRelinks ==
    ASSUME TypeOK, WaitTarget, NEW p \in Proc, RegisterUpdate(p) \/ RegisterWait(p)
    PROVE  UNCHANGED usage \/ Relinks
<1> DEFINE u == arg[p].user
           m == arg[p].machine
<1>0. m \in Machine /\ pc[p] \in {"register_update", "register_wait"}
  BY DEF RegisterUpdate, RegisterWait, TypeOK, HandlerTypeOK, HasArgs
<1>1. ASSUME NEW S, SetRegistered(S, u),
             \A s \in S : /\ usageLock[s] = NoProc
                          /\ s \in DOMAIN usage => IsOpen(s) /\ Claimable(s, u)
                          /\ usage[s].machine = m
                          /\ \/ m \notin deleted
                             \/ /\ pc[p] \in WaitPC
                                /\ arg[p].target = s
                                /\ pc'[p] # pc[p]
      PROVE  Relinks
  <2>1. DOMAIN usage' = DOMAIN usage
    BY <1>1 DEF SetRegistered
  <2>2. ASSUME NEW s \in DOMAIN usage
        PROVE  /\ usage'[s].machine = usage[s].machine
               /\ usage'[s].startedAt = usage[s].startedAt
               /\ usage'[s].endedAt = usage[s].endedAt
               /\ s \notin S => usage'[s] = usage[s]
               /\ s \in S => usage'[s].user = u
    BY <1>1, RegisterFields
  <2>3. \A s \in DOMAIN usage : usage[s].machine # m => usage'[s] = usage[s]
    BY <1>1, <2>2
  <2> QED
    BY <1>0, <1>1, <2>1, <2>2, <2>3 DEF Relinks, Claimable
<1>2. CASE RegisterUpdate(p)
  BY <1>1, <1>2 DEF RegisterUpdate, Registrable, OpenUsages
<1>3. CASE RegisterWait(p)
  <2>1. arg[p].target \in {arg[p].target} /\ pc[p] \in WaitPC /\ pc'[p] # pc[p]
    BY <1>3, WaitMoves
  <2>2. usage[arg[p].target].machine = m
    BY <2>1 DEF WaitTarget
  <2>3. CASE UNCHANGED usage
    BY <2>3
  <2>4. CASE ~ UNCHANGED usage
    <3>1. /\ SetRegistered({arg[p].target}, u)
          /\ IsOpen(arg[p].target) /\ Claimable(arg[p].target, u)
          /\ usageLock[arg[p].target] = NoProc
      BY <1>3, <2>4 DEF RegisterWait
    <3> QED
      BY <1>1, <2>1, <2>2, <3>1
  <2> QED
    BY <2>3, <2>4
<1> QED
  BY <1>2, <1>3

\* disableMachineNotification and unlinkUserFromMachine only touch the user
\* and the notification flag of open rows.
LEMMA UnlinkRelinks ==
    ASSUME TypeOK, NEW u \in User, NEW m \in Machine,
           DisableMachineNotification(u, m) \/ UnlinkUserFromMachine(u, m)
    PROVE  Relinks
<1> DEFINE S == OwnUsages(u, m)
<1>1. SetQuiet(S) \/ SetUnlinked(S)
  BY DEF DisableMachineNotification, UnlinkUserFromMachine
<1>2. DOMAIN usage' = DOMAIN usage
  BY <1>1 DEF SetQuiet, SetUnlinked
<1>3. ASSUME NEW s \in DOMAIN usage
      PROVE  /\ usage'[s].machine = usage[s].machine
             /\ usage'[s].startedAt = usage[s].startedAt
             /\ usage'[s].endedAt = usage[s].endedAt
             /\ s \notin S => usage'[s] = usage[s]
             /\ usage'[s].user \in {usage[s].user, NoUser}
  BY <1>1, OwnFields
<1>4. ASSUME NEW s \in S
      PROVE  /\ IsOpen(s)
             /\ usageLock[s] = NoProc
             /\ usage[s].machine = m
             /\ m \notin deleted
  BY DEF OwnUsages, OpenUsages, OwnUsagesUnlocked, DisableMachineNotification,
         UnlinkUserFromMachine
<1>5. \A s \in DOMAIN usage : usage[s].machine # m => usage'[s] = usage[s]
  BY <1>3, <1>4
<1> QED
  BY <1>2, <1>3, <1>4, <1>5 DEF Relinks

\* So they do after a wait, on the row they have waited for.
LEMMA OwnWaitRelinks ==
    ASSUME TypeOK, WaitTarget, NEW p \in Proc, OwnWait(p)
    PROVE  Relinks
<1> DEFINE S == StillOwn(p)
           m == arg[p].machine
<1>1. SetQuiet(S) \/ SetUnlinked(S)
  BY DEF OwnWait
<1>2. DOMAIN usage' = DOMAIN usage
  BY <1>1 DEF SetQuiet, SetUnlinked
<1>3. ASSUME NEW s \in DOMAIN usage
      PROVE  /\ usage'[s].machine = usage[s].machine
             /\ usage'[s].startedAt = usage[s].startedAt
             /\ usage'[s].endedAt = usage[s].endedAt
             /\ s \notin S => usage'[s] = usage[s]
             /\ usage'[s].user \in {usage[s].user, NoUser}
  BY <1>1, OwnFields
<1>4. pc[p] \in WaitPC /\ pc'[p] # pc[p]
  BY WaitMoves
<1>5. ASSUME NEW s \in S
      PROVE  /\ IsOpen(s)
             /\ usageLock[s] = NoProc
             /\ usage[s].machine = m
             /\ s = arg[p].target
  BY <1>4 DEF StillOwn, OwnWait, WaitTarget
<1>6. m \in Machine
  BY <1>4 DEF TypeOK, HandlerTypeOK, HasArgs, WaitPC, OwnPC
<1>7. \A s \in DOMAIN usage : usage[s].machine # m => usage'[s] = usage[s]
  BY <1>3, <1>5
<1> QED
  BY <1>2, <1>3, <1>4, <1>5, <1>6, <1>7 DEF Relinks

\* The five kinds of step, as far as the table goes.
LEMMA TableStep ==
    ASSUME TypeOK, WaitTarget, [Next]_vars
    PROVE  \/ UNCHANGED usage
           \/ Relinks
           \/ \E p \in Proc : StartCreate(p) \/ FinishUpdate(p) \/ ConfirmWrite(p)
<1>1. ASSUME NEW p \in Proc, Step(p)
      PROVE  \/ UNCHANGED usage
             \/ Relinks
             \/ StartCreate(p) \/ FinishUpdate(p) \/ ConfirmWrite(p)
  <2>1. CASE RegisterUpdate(p) \/ RegisterWait(p)
    BY <2>1, RegisterRelinks
  <2>2. CASE OwnWait(p)
    BY <2>2, OwnWaitRelinks
  <2>3. CASE ~ (RegisterUpdate(p) \/ RegisterWait(p) \/ OwnWait(p))
    BY <1>1, <2>3
    DEF Step, Start, Finish, Register, Confirm, InsertFails, StartLock,
        StartFind, FinishLock, FinishMachine, FinishNotify, RegisterDetail,
        RegisterDiagnose, ConfirmDetail, ConfirmLock, ConfirmUsageLock,
        ConfirmFind, ConfirmNotify, MachineDetail, LockMachine, MachineGone
  <2> QED
    BY <2>1, <2>2, <2>3
<1>2. ASSUME NEW p \in Proc, NewRequest(p) \/ DatabaseError(p)
      PROVE  UNCHANGED usage
  BY <1>2
  DEF NewRequest, StartBegin, FinishBegin, RegisterBegin, ConfirmBegin, OwnBegin, Begin,
      DatabaseError
<1>3. CASE Outside
  <2>1. CASE \E u \in User, m \in Machine :
               DisableMachineNotification(u, m) \/ UnlinkUserFromMachine(u, m)
    BY <2>1, UnlinkRelinks
  <2>2. CASE (\E m \in Machine : DeleteMachine(m)) \/ Tick \/ UNCHANGED vars
    BY <2>2 DEF DeleteMachine, Tick, vars
  <2> QED
    BY <1>3, <2>1, <2>2 DEF Outside
<1>4. CASE Crash
  BY <1>4 DEF Crash
<1> QED
  BY <1>1, <1>2, <1>3, <1>4, NextCases

-----------------------------------------------------------------------------
(* The inductive invariant of the row locks *)

\* A handler about to insert a session has seen that none is open, and nobody
\* has opened one since.
StartClear ==
    \A p \in Proc : pc[p] = "start_create" => OpenUsages(arg[p].machine) = {}

\* A handler about to take over has found the session its user confirmed open,
\* registered to another user and old enough, and that is still so.
ConfirmHolds ==
    \A p \in Proc : pc[p] = "confirm_write" =>
        /\ arg[p].target \in OpenUsages(arg[p].machine)
        /\ Replaceable(arg[p].target, arg[p].user, arg[p].at)
        /\ arg[p].at <= clock

\* A machine whose row is locked is not deleted.
LockedNotDeleted ==
    \A p \in Proc : pc[p] \in MachineLockPC => arg[p].machine \notin deleted

LockInv ==
    /\ TypeOK
    /\ TargetExists
    /\ WaitTarget
    /\ MachineLockOK
    /\ UsageLockOK
    /\ StartClear
    /\ ConfirmHolds
    /\ LockedNotDeleted
    /\ OneOpenSession

\* Two open transactions work on different machines.
LEMMA LockExcludes ==
    ASSUME TypeOK, MachineLockOK, NEW p \in Proc, NEW q \in Proc, p # q,
           pc[p] \in MachineLockPC, pc[q] \in MachineLockPC
    PROVE  arg[p].machine # arg[q].machine
  BY DEF MachineLockOK, TypeOK, HandlerTypeOK, HasArgs, MachineLockPC

\* The rows of other machines are not touched by the three steps that open and
\* close sessions.
LEMMA WritersStayOnTheirMachine ==
    ASSUME TypeOK, ConfirmHolds, NEW p \in Proc,
           StartCreate(p) \/ FinishUpdate(p) \/ ConfirmWrite(p)
    PROVE  /\ pc[p] \in MachineLockPC
           /\ \A s \in DOMAIN usage :
                usage[s].machine # arg[p].machine => usage'[s] = usage[s]
           /\ \A s \in DOMAIN usage' \ DOMAIN usage :
                usage'[s].machine = arg[p].machine
           /\ \A s \in DOMAIN usage :
                /\ usage'[s].machine = usage[s].machine
                /\ usage'[s].startedAt = usage[s].startedAt
                /\ usage'[s].user = usage[s].user
                /\ ~ IsOpen(s) => usage'[s] = usage[s]
<1>1. CASE StartCreate(p)
  BY <1>1 DEF StartCreate, MachineLockPC
<1>2. CASE FinishUpdate(p)
  <2>1. DOMAIN usage' = DOMAIN usage /\ pc[p] = "finish_update"
    BY <1>2 DEF FinishUpdate, Close, Recipient
  <2>2. ASSUME NEW s \in DOMAIN usage
        PROVE  /\ usage[s] \in UsageRow
               /\ usage'[s] = IF s \in OpenUsages(arg[p].machine)
                              THEN [usage[s] EXCEPT !.endedAt = clock]
                              ELSE usage[s]
    BY <1>2 DEF FinishUpdate, Close, Recipient, TypeOK, UsageTypeOK
  <2>3. ASSUME NEW s \in DOMAIN usage
        PROVE  /\ usage'[s].machine = usage[s].machine
               /\ usage'[s].startedAt = usage[s].startedAt
               /\ usage'[s].user = usage[s].user
    <3>1. /\ usage[s] \in UsageRow
          /\ \/ usage'[s] = usage[s]
             \/ usage'[s] = [usage[s] EXCEPT !.endedAt = clock]
      BY <2>2
    <3> QED
      BY <3>1 DEF UsageRow
  <2> QED
    BY <2>1, <2>2, <2>3 DEF OpenUsages, MachineLockPC
<1>3. CASE ConfirmWrite(p)
  <2> DEFINE old == arg[p].target
  <2>1. pc[p] = "confirm_write" /\ old \in OpenUsages(arg[p].machine)
    BY <1>3 DEF ConfirmWrite, ConfirmHolds
  <2>2. ASSUME NEW s \in DOMAIN usage
        PROVE  /\ usage[s] \in UsageRow
               /\ usage'[s] = IF s = old
                              THEN [usage[s] EXCEPT !.endedAt = usage[s].startedAt,
                                                    !.notify = FALSE]
                              ELSE usage[s]
    BY <1>3 DEF ConfirmWrite, TypeOK, UsageTypeOK
  <2>3. ASSUME NEW s \in DOMAIN usage
        PROVE  /\ usage'[s].machine = usage[s].machine
               /\ usage'[s].startedAt = usage[s].startedAt
               /\ usage'[s].user = usage[s].user
    <3>1. /\ usage[s] \in UsageRow
          /\ \/ usage'[s] = usage[s]
             \/ usage'[s] = [usage[s] EXCEPT !.endedAt = usage[s].startedAt,
                                            !.notify = FALSE]
      BY <2>2
    <3> QED
      BY <3>1 DEF UsageRow
  <2>4. ASSUME NEW s \in DOMAIN usage' \ DOMAIN usage
        PROVE  usage'[s].machine = arg[p].machine
    BY <1>3 DEF ConfirmWrite
  <2> QED
    BY <2>1, <2>2, <2>3, <2>4 DEF OpenUsages, MachineLockPC
<1> QED
  BY <1>1, <1>2, <1>3

\* Only the handler that has locked a machine row opens or closes a session of
\* it.
LEMMA OpenElsewhere ==
    ASSUME TypeOK, WaitTarget, MachineLockOK, ConfirmHolds, [Next]_vars,
           NEW m \in Machine,
           OpenUsages(m)' # OpenUsages(m)
    PROVE  \E p \in Proc :
             /\ StartCreate(p) \/ FinishUpdate(p) \/ ConfirmWrite(p)
             /\ pc[p] \in MachineLockPC
             /\ arg[p].machine = m
<1>1. CASE UNCHANGED usage
  BY <1>1 DEF OpenUsages, IsOpen
<1>2. CASE Relinks
  BY <1>2 DEF Relinks, OpenUsages, IsOpen
<1>3. ASSUME NEW p \in Proc,
             StartCreate(p) \/ FinishUpdate(p) \/ ConfirmWrite(p),
             arg[p].machine # m
      PROVE  FALSE
  <2>1. DOMAIN usage \subseteq DOMAIN usage'
    BY RowsStay
  <2> QED
    BY <1>3, <2>1, WritersStayOnTheirMachine DEF OpenUsages, IsOpen
<1> QED
  BY <1>1, <1>2, <1>3, TableStep, WritersStayOnTheirMachine

\* The rows that a takeover has locked change in its own steps only.
LEMMA LockedRowStays ==
    ASSUME LockInv, [Next]_vars, NEW q \in Proc, pc[q] \in UsageLockPC,
           NEW s \in OpenUsages(arg[q].machine),
           ~ (StartCreate(q) \/ FinishUpdate(q) \/ ConfirmWrite(q))
    PROVE  usage'[s] = usage[s]
<1>1. s \in DOMAIN usage /\ s \in Usage /\ usage[s].machine = arg[q].machine
  BY DEF OpenUsages, LockInv, TypeOK, UsageTypeOK
<1>2. usageLock[s] = q /\ q # NoProc
  BY <1>1, NullsAssumption DEF LockInv, UsageLockOK
<1>3. CASE Relinks
  BY <1>1, <1>2, <1>3 DEF Relinks
<1>4. ASSUME NEW p \in Proc, StartCreate(p) \/ FinishUpdate(p) \/ ConfirmWrite(p)
      PROVE  usage'[s] = usage[s]
  <2>1. p # q /\ pc[p] \in MachineLockPC /\ pc[q] \in MachineLockPC
    BY <1>4, WritersStayOnTheirMachine DEF LockInv, UsageLockPC, MachineLockPC
  <2>2. arg[p].machine # arg[q].machine
    BY <2>1, LockExcludes DEF LockInv
  <2> QED
    BY <1>1, <1>4, <2>2, WritersStayOnTheirMachine DEF LockInv
<1> QED
  BY <1>3, <1>4, TableStep DEF LockInv

\* The three things a step of p can do to the lock on a session row.
LEMMA UsageLockKinds ==
    ASSUME TypeOK, NEW p \in Proc,
           Step(p) \/ NewRequest(p) \/ DatabaseError(p)
    PROVE  \/ ConfirmUsageLock(p)
           \/ Release(p) /\ pc'[p] \notin UsageLockPC
           \/ /\ UNCHANGED usageLock
              /\ pc'[p] \in UsageLockPC <=> pc[p] \in UsageLockPC
              /\ pc[p] \in UsageLockPC => arg'[p].machine = arg[p].machine
<1> USE DEF UsageLockPC, TypeOK, HandlerTypeOK
<1>1. CASE Start(p)
  BY <1>1
  DEF Start, StartLock, StartFind, StartCreate, LockMachine, MachineGone, Goto,
      End, Leave, locks
<1>2. CASE Finish(p)
  BY <1>2
  DEF Finish, FinishLock,
    FinishUpdate, Close, Recipient, FinishMachine, FinishNotify,
      LockMachine, MachineGone, Goto, End, Leave, locks
<1>3. CASE Register(p)
  BY <1>3
  DEF Register, RegisterDetail, RegisterUpdate, RegisterWait, RegisterDiagnose,
      MachineDetail, Goto, Return, Leave, Arg, locks
<1>4. CASE Confirm(p)
  BY <1>4
  DEF Confirm, ConfirmDetail, ConfirmLock, ConfirmFind, ConfirmWrite,
      ConfirmNotify, LockMachine, MachineGone, MachineDetail, Goto, Return,
      Leave, Args, Arg, locks
<1>5. CASE InsertFails(p) \/ DatabaseError(p)
  BY <1>5 DEF InsertFails, DatabaseError, End, Leave
<1>6. CASE NewRequest(p)
  BY <1>6
  DEF NewRequest, StartBegin, FinishBegin, RegisterBegin, ConfirmBegin, OwnBegin,
      OwnPC, Begin, Goto, locks
<1>7. CASE OwnWait(p)
  BY <1>7 DEF OwnWait, OwnPC, Return, Leave, locks
<1> QED
  BY <1>1, <1>2, <1>3, <1>4, <1>5, <1>6, <1>7 DEF Step

\* A handler inside a transaction finds the same rows of its machine open after
\* any step of another one.
LEMMA OpenStays ==
    ASSUME LockInv, [Next]_vars, NEW q \in Proc, pc[q] \in MachineLockPC,
           NEW m, m = arg[q].machine,
           ~ (StartCreate(q) \/ FinishUpdate(q) \/ ConfirmWrite(q))
    PROVE  OpenUsages(m)' = OpenUsages(m)
<1>1. m \in Machine
  BY DEF LockInv, TypeOK, HandlerTypeOK, HasArgs, MachineLockPC
<1>2. ASSUME NEW p \in Proc, StartCreate(p) \/ FinishUpdate(p) \/ ConfirmWrite(p),
             pc[p] \in MachineLockPC, arg[p].machine = m
      PROVE  FALSE
  BY <1>2, LockExcludes DEF LockInv
<1> QED
  BY <1>1, <1>2, OpenElsewhere DEF LockInv

\* Rows are never removed, so the session a handler goes by stays in the
\* table.
LEMMA TargetStep ==
    ASSUME LockInv, [Next]_vars
    PROVE  TargetExists'
<1> USE DEF LockInv
<1>1. DOMAIN usage \subseteq DOMAIN usage'
  BY RowsStay
<1>2. ASSUME NEW p \in Proc, Step(p) \/ NewRequest(p) \/ DatabaseError(p)
      PROVE  TargetExists'
  <2> USE DEF TargetPC, ConfirmPC, RegisterPC, OwnPC, TypeOK, HandlerTypeOK
  <2>1. Frame(p)
    BY <1>2, HandlerStep
  <2>2. pc'[p] \in TargetPC => arg'[p].target \in DOMAIN usage'
    <3>1. CASE Start(p) \/ InsertFails(p) \/ DatabaseError(p)
      BY <3>1
      DEF Start, StartLock, StartFind, StartCreate, LockMachine, Goto, End,
          Leave, InsertFails, DatabaseError
    <3>2. CASE Finish(p)
      <4>1. CASE FinishUpdate(p)
        BY <4>1, <1>1 DEF
          FinishUpdate, Close, Recipient, Goto, End, Leave, Args, OpenUsages
      <4> QED
        BY <1>1, <3>2, <4>1
        DEF Finish, FinishLock, FinishMachine, FinishNotify, LockMachine, Goto,
            End, Leave, TargetExists
    <3>3. CASE Register(p)
      <4>1. CASE RegisterUpdate(p)
        BY <4>1, <1>1
        DEF RegisterUpdate, Goto, Return, Leave, Arg, OpenUsages, Registrable
      <4> QED
        BY <1>1, <3>3, <4>1
        DEF Register, RegisterDetail, RegisterWait, RegisterDiagnose,
            MachineDetail, Goto, Return, Leave, TargetExists
    <3>4. CASE Confirm(p)
      <4>1. CASE ConfirmFind(p)
        BY <1>1, <4>1 DEF ConfirmFind, Goto, Return, Leave, Arg, OpenUsages
      <4>2. CASE ConfirmWrite(p)
        BY <1>1, <4>2 DEF ConfirmWrite, Goto, Args, TargetExists
      <4> QED
        BY <1>1, <3>4, <4>1, <4>2
        DEF Confirm, ConfirmDetail, ConfirmLock, ConfirmUsageLock, ConfirmNotify,
            LockMachine, MachineDetail, MachineGone, Goto, Return, Leave,
            TargetExists
    <3>5. CASE NewRequest(p)
      BY <1>1, <3>5
      DEF NewRequest, StartBegin, FinishBegin, RegisterBegin, ConfirmBegin, OwnBegin,
          Begin, Goto, Args, OwnUsages, OpenUsages
    <3>6. CASE OwnWait(p)
      BY <3>6 DEF OwnWait, Return, Leave
    <3> QED
      BY <1>2, <3>1, <3>2, <3>3, <3>4, <3>5, <3>6 DEF Step
  <2> QED
    BY <1>1, <2>1, <2>2 DEF Frame, TargetExists
<1>3. CASE Outside
  BY <1>1, <1>3, OutsideStep DEF TargetExists
<1>4. CASE Crash
  BY <1>4 DEF Crash, TargetExists, TargetPC, ConfirmPC, OwnPC
<1> QED
  BY <1>2, <1>3, <1>4, NextCases

\* A row never moves to another machine.
LEMMA MachineKept ==
    ASSUME LockInv, [Next]_vars, NEW s \in DOMAIN usage
    PROVE  usage'[s].machine = usage[s].machine
  BY TableStep, WritersStayOnTheirMachine DEF Relinks, LockInv

\* So the row a statement waits for stays one of its machine.
LEMMA WaitTargetStep ==
    ASSUME LockInv, [Next]_vars
    PROVE  WaitTarget'
<1> USE DEF LockInv
<1>1. ASSUME NEW q \in Proc, pc[q] \in WaitPC, arg'[q] = arg[q]
      PROVE  usage'[arg'[q].target].machine = arg'[q].machine
  <2>1. arg[q].target \in DOMAIN usage
    BY <1>1 DEF TargetExists, TargetPC, WaitPC
  <2> QED
    BY <1>1, <2>1, MachineKept DEF WaitTarget
<1>2. ASSUME NEW p \in Proc, Step(p) \/ NewRequest(p) \/ DatabaseError(p),
             NEW q \in Proc, pc'[q] \in WaitPC
      PROVE  usage'[arg'[q].target].machine = arg'[q].machine
  <2>1. CASE q # p
    BY <1>1, <1>2, <2>1, HandlerStep DEF Frame
  <2>2. CASE q = p
    <3>1. RegisterUpdate(p) \/ NewRequest(p)
      BY <1>2, <2>2
      DEF Step, OwnWait, Start, Finish, Register, Confirm, StartLock, StartFind,
          StartCreate, FinishLock, FinishUpdate, FinishMachine, FinishNotify,
          RegisterDetail, RegisterWait, RegisterDiagnose, ConfirmDetail,
          ConfirmLock, ConfirmUsageLock, ConfirmFind, ConfirmWrite,
          ConfirmNotify, InsertFails, DatabaseError, LockMachine, MachineGone,
          MachineDetail, Goto, End, Return, Leave, WaitPC, OwnPC, TypeOK,
          HandlerTypeOK
    <3>2. CASE RegisterUpdate(p)
      <4>1. PICK s \in OpenUsages(arg[p].machine) :
              /\ arg' = [arg EXCEPT ![p].target = s]
              /\ UNCHANGED usage
        BY <1>2, <2>2, <3>2
        DEF RegisterUpdate, Registrable, Goto, Return, Leave, WaitPC, OwnPC,
            TypeOK, HandlerTypeOK
      <4>2. arg'[p] = [arg[p] EXCEPT !.target = s] /\ arg[p] \in Arg
        BY <4>1 DEF TypeOK, HandlerTypeOK
      <4> QED
        BY <2>2, <4>1, <4>2 DEF OpenUsages, Arg
    <3>3. CASE NewRequest(p)
      <4>1. PICK u \in User, m \in Machine, label \in OwnPC :
              OwnBegin(p, label, u, m)
        BY <1>2, <2>2, <3>3
        DEF NewRequest, StartBegin, FinishBegin, RegisterBegin, ConfirmBegin,
            Begin, Goto, WaitPC, OwnPC, TypeOK, HandlerTypeOK
      <4>2. PICK s \in OwnUsages(u, m) :
              /\ arg' = [arg EXCEPT ![p] = Args(m, u, NoGender, s, 0)]
              /\ UNCHANGED usage
        BY <4>1 DEF OwnBegin, Begin
      <4>3. arg'[p] = Args(m, u, NoGender, s, 0)
        BY <4>2 DEF TypeOK, HandlerTypeOK
      <4> QED
        BY <2>2, <4>2, <4>3 DEF OwnUsages, OpenUsages, Args
    <3> QED
      BY <3>1, <3>2, <3>3
  <2> QED
    BY <2>1, <2>2
<1>3. CASE Outside
  BY <1>1, <1>3, OutsideStep DEF WaitTarget
<1>4. CASE Crash
  BY <1>4 DEF Crash, WaitTarget, WaitPC, OwnPC
<1> QED
  BY <1>2, <1>3, <1>4, NextCases DEF WaitTarget

\* The session locks are held by exactly the takeovers under way, on the open
\* row of their machine.
LEMMA UsageLockStep ==
    ASSUME LockInv, [Next]_vars
    PROVE  UsageLockOK'
<1> USE NullsAssumption DEF LockInv
<1>1. ASSUME NEW q \in Proc, NEW s \in Usage, pc[q] \in UsageLockPC,
             pc'[q] \in UsageLockPC, arg'[q].machine = arg[q].machine
      PROVE  s \in OpenUsages(arg[q].machine)' <=> s \in OpenUsages(arg[q].machine)
  <2>1. pc[q] \in MachineLockPC
    BY <1>1 DEF UsageLockPC, MachineLockPC
  <2>2. ~ (StartCreate(q) \/ FinishUpdate(q) \/ ConfirmWrite(q))
    BY <1>1
    DEF StartCreate,
      FinishUpdate, Close, Recipient, ConfirmWrite, Goto, End, Leave, UsageLockPC,
        TypeOK, HandlerTypeOK
  <2> QED
    BY <1>1, <2>1, <2>2, OpenStays
<1>2. ASSUME NEW p \in Proc, Step(p) \/ NewRequest(p) \/ DatabaseError(p),
             NEW q \in Proc, NEW s \in Usage
      PROVE  (usageLock[s] = q <=> /\ pc[q] \in UsageLockPC
                                   /\ s \in OpenUsages(arg[q].machine))'
  <2>1. Frame(p)
    BY <1>2, HandlerStep
  <2>2. usageLock[s] = q <=> /\ pc[q] \in UsageLockPC
                             /\ s \in OpenUsages(arg[q].machine)
    BY DEF UsageLockOK
  <2>3. CASE ConfirmUsageLock(p)
    <3>1. /\ UNCHANGED <<usage, arg>>
          /\ pc[p] = "confirm_usage_lock"
          /\ pc'[p] = "confirm_find"
          /\ usageLock'[s] = IF s \in OpenUsages(arg[p].machine) THEN p
                                                                 ELSE usageLock[s]
          /\ s \in OpenUsages(arg[p].machine) => usageLock[s] = NoProc
      BY <2>3 DEF ConfirmUsageLock, Goto, TypeOK, HandlerTypeOK
    <3>2. OpenUsages(arg[q].machine)' = OpenUsages(arg[q].machine)
      BY <3>1 DEF OpenUsages, IsOpen
    <3> QED
      BY <2>1, <2>2, <3>1, <3>2 DEF Frame, UsageLockPC
  <2>4. CASE Release(p) /\ pc'[p] \notin UsageLockPC
    <3>1. usageLock'[s] = q <=> usageLock[s] = q /\ q # p
      BY <2>4 DEF Release
    <3> QED
      BY <1>1, <2>1, <2>2, <2>4, <3>1 DEF Frame
  <2>5. CASE /\ UNCHANGED usageLock
             /\ pc'[p] \in UsageLockPC <=> pc[p] \in UsageLockPC
             /\ pc[p] \in UsageLockPC => arg'[p].machine = arg[p].machine
    BY <1>1, <2>1, <2>2, <2>5 DEF Frame
  <2> QED
    BY <1>2, <2>3, <2>4, <2>5, UsageLockKinds
<1>3. CASE Outside
  BY <1>1, <1>3, OutsideStep DEF UsageLockOK, locks
<1>4. CASE Crash
  BY <1>4 DEF Crash, UsageLockOK, UsageLockPC
<1> QED
  BY <1>2, <1>3, <1>4, NextCases DEF UsageLockOK

\* Between the lookup and the insert of createUsingMachine no other handler
\* opens a session on the locked machine.
LEMMA StartClearStep ==
    ASSUME LockInv, [Next]_vars
    PROVE  StartClear'
<1> USE DEF LockInv
<1>1. ASSUME NEW q \in Proc, pc[q] = "start_create", pc'[q] = "start_create",
             arg'[q] = arg[q]
      PROVE  (OpenUsages(arg[q].machine) = {})'
  <2>1. ~ (StartCreate(q) \/ FinishUpdate(q) \/ ConfirmWrite(q))
    BY <1>1
    DEF StartCreate,
      FinishUpdate, Close, Recipient, ConfirmWrite, End, Leave, TypeOK,
        HandlerTypeOK
  <2> QED
    BY <1>1, <2>1, OpenStays DEF StartClear, MachineLockPC
<1>2. ASSUME NEW p \in Proc, Step(p) \/ NewRequest(p) \/ DatabaseError(p),
             NEW q \in Proc, pc'[q] = "start_create"
      PROVE  (OpenUsages(arg[q].machine) = {})'
  <2>1. CASE q # p
    BY <1>1, <1>2, <2>1, HandlerStep DEF Frame
  <2>2. CASE q = p
    <3>1. StartFind(p)
      BY <1>2, <2>2
      DEF Step, OwnWait, Start, Finish, Register, Confirm, StartLock, StartCreate,
          FinishLock,
            FinishUpdate, Close, Recipient, FinishMachine, FinishNotify, RegisterDetail,
          RegisterUpdate, RegisterWait, RegisterDiagnose, ConfirmDetail,
          ConfirmLock, ConfirmUsageLock, ConfirmFind, ConfirmWrite,
          ConfirmNotify, InsertFails, DatabaseError, NewRequest, StartBegin,
          FinishBegin, RegisterBegin, ConfirmBegin, OwnBegin, Begin, LockMachine,
          MachineGone, MachineDetail, Goto, End, Return, Leave, OwnPC, TypeOK,
          HandlerTypeOK
    <3>2. /\ OpenUsages(arg[p].machine) = {}
          /\ UNCHANGED <<usage, arg>>
      BY <1>2, <2>2, <3>1
      DEF StartFind, End, Leave, Goto, TypeOK, HandlerTypeOK
    <3> QED
      BY <2>2, <3>2 DEF OpenUsages, IsOpen
  <2> QED
    BY <2>1, <2>2
<1>3. CASE Outside
  BY <1>1, <1>3, OutsideStep DEF StartClear
<1>4. CASE Crash
  BY <1>4 DEF Crash, StartClear
<1> QED
  BY <1>2, <1>3, <1>4, NextCases DEF StartClear

\* The clock never goes back.
LEMMA ClockStep ==
    ASSUME TypeOK, [Next]_vars
    PROVE  clock' \in Nat /\ clock <= clock'
<1>0. clock \in Nat
  BY DEF TypeOK
<1>1. ASSUME NEW p \in Proc, Step(p) \/ NewRequest(p) \/ DatabaseError(p)
      PROVE  UNCHANGED clock
  BY <1>1
  DEF Step, OwnWait, Start, Finish, Register, Confirm, StartLock, StartFind, StartCreate,
      FinishLock,
        FinishUpdate, Close, Recipient, FinishMachine, FinishNotify, RegisterDetail,
      RegisterUpdate, RegisterWait, RegisterDiagnose, ConfirmDetail, ConfirmLock,
      ConfirmUsageLock, ConfirmFind, ConfirmWrite, ConfirmNotify, InsertFails,
      DatabaseError, NewRequest, StartBegin, FinishBegin, RegisterBegin,
      ConfirmBegin, OwnBegin, Begin, LockMachine, MachineGone, MachineDetail
<1>2. CASE Outside
  <2>1. clock' = clock \/ clock' = clock + 1
    BY <1>2
    DEF Outside, DisableMachineNotification, UnlinkUserFromMachine,
        DeleteMachine, Tick, vars
  <2> QED
    BY <1>0, <2>1
<1>3. CASE Crash
  BY <1>0, <1>3 DEF Crash
<1>4. UNCHANGED clock => clock' \in Nat /\ clock <= clock'
  BY <1>0
<1> QED
  BY <1>1, <1>2, <1>3, <1>4, NextCases

\* What confirmCompletedAndRegister has checked still holds when it writes:
\* the locked row stays open, of the same user and old enough.
LEMMA ConfirmHoldsStep ==
    ASSUME LockInv, [Next]_vars
    PROVE  ConfirmHolds'
<1> USE DEF LockInv
<1> DEFINE H(q) == /\ arg[q].target \in OpenUsages(arg[q].machine)
                   /\ Replaceable(arg[q].target, arg[q].user, arg[q].at)
                   /\ arg[q].at <= clock
<1>1. ASSUME NEW q \in Proc, pc[q] = "confirm_write", pc'[q] = "confirm_write",
             arg'[q] = arg[q]
      PROVE  H(q)'
  <2> DEFINE s == arg[q].target
             m == arg[q].machine
  <2>1. ~ (StartCreate(q) \/ FinishUpdate(q) \/ ConfirmWrite(q))
    BY <1>1
    DEF StartCreate,
      FinishUpdate, Close, Recipient, ConfirmWrite, End, Leave, Goto, TypeOK,
        HandlerTypeOK
  <2>2. H(q)
    BY <1>1 DEF ConfirmHolds
  <2>3. usage'[s] = usage[s]
    BY <1>1, <2>1, <2>2, LockedRowStays DEF UsageLockPC
  <2>4. s \in OpenUsages(m)'
    BY <1>1, <2>1, <2>2, OpenStays DEF MachineLockPC
  <2>5. arg[q].at \in Nat /\ clock \in Nat /\ clock' \in Nat /\ clock <= clock'
    BY ClockStep DEF TypeOK, HandlerTypeOK, Arg
  <2> QED
    BY <1>1, <2>2, <2>3, <2>4, <2>5 DEF Replaceable
<1>2. ASSUME NEW p \in Proc, Step(p) \/ NewRequest(p) \/ DatabaseError(p),
             NEW q \in Proc, pc'[q] = "confirm_write"
      PROVE  H(q)'
  <2>1. CASE q # p
    BY <1>1, <1>2, <2>1, HandlerStep DEF Frame
  <2>2. CASE q = p
    <3>1. ConfirmFind(p)
      BY <1>2, <2>2
      DEF Step, OwnWait, Start, Finish, Register, Confirm, StartLock, StartFind,
          StartCreate, FinishLock,
            FinishUpdate, Close, Recipient, FinishMachine, FinishNotify,
          RegisterDetail, RegisterUpdate, RegisterWait, RegisterDiagnose,
          ConfirmDetail, ConfirmLock, ConfirmUsageLock, ConfirmWrite,
          ConfirmNotify, InsertFails, DatabaseError, NewRequest, StartBegin,
          FinishBegin, RegisterBegin, ConfirmBegin, OwnBegin, Begin, LockMachine,
          MachineGone, MachineDetail, Goto, End, Return, Leave, OwnPC, TypeOK,
          HandlerTypeOK
    <3>2. PICK s \in OpenUsages(arg[p].machine) :
            /\ s = arg[p].target
            /\ Replaceable(s, arg[p].user, clock)
            /\ arg' = [arg EXCEPT ![p].at = clock]
            /\ UNCHANGED <<usage, clock>>
      BY <1>2, <2>2, <3>1
      DEF ConfirmFind, Return, Leave, TypeOK, HandlerTypeOK
    <3>3. arg'[p] = [arg[p] EXCEPT !.at = clock] /\ arg[p] \in Arg
      BY <3>2 DEF TypeOK, HandlerTypeOK
    <3> QED
      BY <2>2, <3>2, <3>3
      DEF OpenUsages, IsOpen, Replaceable, Arg, TypeOK
  <2> QED
    BY <2>1, <2>2
<1>3. CASE Outside
  BY <1>1, <1>3, OutsideStep DEF ConfirmHolds
<1>4. CASE Crash
  BY <1>4 DEF Crash, ConfirmHolds
<1> QED
  BY <1>2, <1>3, <1>4, NextCases DEF ConfirmHolds

\* A machine cannot be deleted under a transaction that holds its lock.
LEMMA NotDeletedStep ==
    ASSUME LockInv, [Next]_vars
    PROVE  LockedNotDeleted'
<1> USE DEF LockInv
<1>1. ASSUME NEW p \in Proc, Step(p) \/ NewRequest(p) \/ DatabaseError(p)
      PROVE  LockedNotDeleted'
  <2>1. UNCHANGED deleted
    BY <1>1
    DEF Step, OwnWait, Start, Finish, Register, Confirm, StartLock, StartFind,
        StartCreate, FinishLock,
          FinishUpdate, Close, Recipient, FinishMachine, FinishNotify,
        RegisterDetail, RegisterUpdate, RegisterWait, RegisterDiagnose,
        ConfirmDetail, ConfirmLock, ConfirmUsageLock, ConfirmFind, ConfirmWrite,
        ConfirmNotify, InsertFails, DatabaseError, NewRequest, StartBegin,
        FinishBegin, RegisterBegin, ConfirmBegin, OwnBegin, Begin, LockMachine,
        MachineGone, MachineDetail
  <2>2. Frame(p) /\ (Takes(p) \/ Releases(p) \/ Keeps(p))
    BY <1>1, HandlerStep
  <2> QED
    BY <2>1, <2>2 DEF Frame, Takes, Releases, Keeps, LockedNotDeleted
<1>2. CASE Outside
  <2>1. UNCHANGED <<pc, arg>>
    BY <1>2, OutsideStep
  <2>2. CASE \E m \in Machine : DeleteMachine(m)
    <3>1. PICK m \in Machine : DeleteMachine(m)
      BY <2>2
    <3>2. ASSUME NEW p \in Proc, pc[p] \in MachineLockPC
          PROVE  arg[p].machine # m
      BY <3>1, <3>2, NullsAssumption DEF DeleteMachine, MachineLockOK
    <3> QED
      BY <2>1, <3>1, <3>2 DEF DeleteMachine, LockedNotDeleted
  <2>3. CASE UNCHANGED deleted
    BY <2>1, <2>3 DEF LockedNotDeleted
  <2> QED
    BY <1>2, <2>2, <2>3
    DEF Outside, DisableMachineNotification, UnlinkUserFromMachine, Tick, vars
<1>3. CASE Crash
  BY <1>3 DEF Crash, LockedNotDeleted, MachineLockPC
<1> QED
  BY <1>1, <1>2, <1>3, NextCases

\* No step opens a second session on a machine.
LEMMA OneOpenStep ==
    ASSUME LockInv, [Next]_vars
    PROVE  OneOpenSession'
<1> USE DEF LockInv
<1>1. CASE UNCHANGED usage
  BY <1>1 DEF OneOpenSession, IsOpen
<1>2. CASE Relinks
  BY <1>2 DEF Relinks, OneOpenSession, IsOpen
<1>3. ASSUME NEW p \in Proc, StartCreate(p)
      PROVE  OneOpenSession'
  <2>1. OpenUsages(arg[p].machine) = {}
    BY <1>3 DEF StartCreate, StartClear
  <2> QED
    BY <1>3, <2>1 DEF StartCreate, OneOpenSession, OpenUsages, IsOpen
<1>4. ASSUME NEW p \in Proc, FinishUpdate(p)
      PROVE  OneOpenSession'
  <2>1. DOMAIN usage' = DOMAIN usage
    BY <1>4 DEF FinishUpdate, Close, Recipient
  <2>2. ASSUME NEW s \in DOMAIN usage
        PROVE  /\ usage'[s].machine = usage[s].machine
               /\ ~ IsOpen(s) => ~ IsOpen(s)'
    BY <1>4, WritersStayOnTheirMachine DEF IsOpen
  <2> QED
    BY <2>1, <2>2 DEF OneOpenSession, IsOpen
<1>5. ASSUME NEW p \in Proc, ConfirmWrite(p)
      PROVE  OneOpenSession'
  <2> DEFINE old == arg[p].target
             m == arg[p].machine
  <2>1. old \in DOMAIN usage /\ IsOpen(old) /\ usage[old].machine = m
    BY <1>5 DEF ConfirmWrite, ConfirmHolds, OpenUsages
  <2>2. usage[old] \in UsageRow /\ usage[old].startedAt \in Nat
    BY <2>1 DEF TypeOK, UsageTypeOK, UsageRow
  <2>3. PICK n \in Usage \ DOMAIN usage :
          /\ DOMAIN usage' = DOMAIN usage \cup {n}
          /\ usage'[n].machine = m
          /\ \A s \in DOMAIN usage : s # old => usage'[s] = usage[s]
          /\ usage'[old] = [usage[old] EXCEPT !.endedAt = usage[old].startedAt,
                                              !.notify = FALSE]
    BY <1>5, <2>1 DEF ConfirmWrite
  <2>4. usage'[old].endedAt # NotEnded
    BY <2>2, <2>3 DEF UsageRow, NotEnded
  <2>5. ASSUME NEW s \in DOMAIN usage, s # old, IsOpen(s)
        PROVE  usage[s].machine # m
    BY <2>1, <2>5 DEF OneOpenSession
  <2> QED
    BY <2>3, <2>4, <2>5 DEF OneOpenSession, IsOpen
<1> QED
  BY <1>1, <1>2, <1>3, <1>4, <1>5, TableStep

-----------------------------------------------------------------------------
(* Theorems *)

\* Every step keeps the types.
LEMMA NextType ==
    ASSUME TypeOK, TargetExists, [Next]_vars
    PROVE  TypeOK'
<1>1. CASE UNCHANGED vars
  BY <1>1
  DEF vars, TypeOK, UsageTypeOK, LockTypeOK, HandlerTypeOK, HasArgs
<1>2. CASE Next
  BY <1>2, StartType, FinishType, RegisterType, ConfirmType, OtherType
  DEF Next, Step
<1> QED
  BY <1>1, <1>2

\* The locks, what the transactions rely on while they hold them, and the
\* uniqueness of the open session are inductive together.
LEMMA LockInvHolds == Spec => []LockInv
<1>1. Init => LockInv
  <2> SUFFICES ASSUME Init PROVE LockInv
    OBVIOUS
  <2>1. \A p \in Proc : pc[p] = "idle"
    BY DEF Init
  <2>2. DOMAIN usage = {}
    BY DEF Init
  <2> QED
    BY <2>1, <2>2, InitType, NullsAssumption
    DEF LockInv, Init, TargetExists, MachineLockOK, UsageLockOK, StartClear,
        ConfirmHolds, LockedNotDeleted, OneOpenSession, TargetPC, ConfirmPC,
        MachineLockPC, UsageLockPC, OpenUsages, WaitTarget, WaitPC, OwnPC
<1>2. LockInv /\ [Next]_vars => LockInv'
  BY NextType, TargetStep, WaitTargetStep, MachineLockStep, UsageLockStep, StartClearStep,
     ConfirmHoldsStep, NotDeletedStep, OneOpenStep
  DEF LockInv
<1> QED
  BY <1>1, <1>2, PTL DEF Spec

\* Type correctness.
THEOREM TypeCorrect == Spec => []TypeOK
<1>1. LockInv => TypeOK
  BY DEF LockInv
<1> QED
  BY <1>1, LockInvHolds, PTL

\* A machine never has two open sessions: the row locks of the transactions
\* keep every insert clear of the partial unique index.
THEOREM OneOpenSessionHolds == Spec => []OneOpenSession
<1>1. LockInv => OneOpenSession
  BY DEF LockInv
<1> QED
  BY <1>1, LockInvHolds, PTL

\* Locks are held by open transactions only, and by all of them.
THEOREM LockDisciplineHolds == Spec => []LockDiscipline
<1>1. LockInv => LockDiscipline
  BY DEF LockInv, LockDiscipline
<1> QED
  BY <1>1, LockInvHolds, PTL

\* Steps that ask for the lock on a machine row, and those that ask for the lock
\* on its open session.
AsksMachine(p) == pc[p] \in {"start_lock", "finish_lock", "confirm_lock"}
AsksUsage(p) ==
    pc[p] \in {"finish_update", "confirm_usage_lock", "register_update",
               "register_wait", "disable_wait", "unlink_wait"}

HoldsLock(p) ==
    \/ \E m \in Machine : machineLock[m] = p
    \/ \E s \in Usage : usageLock[s] = p

\* Whoever holds a lock can go on: it asks for no machine row, and when it asks
\* for the open session of its machine nobody has locked that.
HoldersGoOn ==
    \A p \in Proc : HoldsLock(p) =>
        /\ ~ AsksMachine(p)
        /\ AsksUsage(p) =>
             \A s \in OpenUsages(arg[p].machine) : usageLock[s] = NoProc

\* No handler that holds a row lock waits for one, so handlers never wait for
\* each other in a circle: the transactions lock the machine before its session.
\* EveryRequestEnds rests on it.
THEOREM HoldersGoOnHolds == Spec => []HoldersGoOn
<1>1. LockInv => HoldersGoOn
  <2> SUFFICES ASSUME LockInv, NEW p \in Proc, HoldsLock(p)
               PROVE  /\ ~ AsksMachine(p)
                      /\ AsksUsage(p) =>
                           \A s \in OpenUsages(arg[p].machine) :
                               usageLock[s] = NoProc
    BY DEF HoldersGoOn
  <2> USE DEF LockInv
  <2>1. pc[p] \in MachineLockPC
    BY DEF HoldsLock, MachineLockOK, UsageLockOK, UsageLockPC, MachineLockPC
  <2>2. ~ AsksMachine(p)
    BY <2>1 DEF AsksMachine, MachineLockPC
  <2>3. ASSUME AsksUsage(p), NEW s \in OpenUsages(arg[p].machine)
        PROVE  usageLock[s] = NoProc
    <3>1. pc[p] \notin UsageLockPC
      BY <2>3 DEF AsksUsage, UsageLockPC
    <3>2. s \in Usage /\ usage[s].machine = arg[p].machine
      BY DEF OpenUsages, TypeOK, UsageTypeOK
    <3>3. ASSUME NEW q \in Proc, usageLock[s] = q
          PROVE  FALSE
      <4>1. pc[q] \in UsageLockPC /\ arg[q].machine = arg[p].machine
        BY <3>2, <3>3 DEF UsageLockOK, OpenUsages
      <4>2. pc[q] \in MachineLockPC /\ q # p
        BY <3>1, <4>1 DEF UsageLockPC, MachineLockPC
      <4> QED
        BY <2>1, <4>1, <4>2, LockExcludes
    <3> QED
      BY <3>2, <3>3 DEF TypeOK, LockTypeOK
  <2> QED
    BY <2>2, <2>3
<1> QED
  BY <1>1, LockInvHolds, PTL

-----------------------------------------------------------------------------
(* What a step may never do *)

\* Rows are never removed, and closed ones never change.
LEMMA HistoryStep ==
    ASSUME LockInv, [Next]_vars
    PROVE  HistoryKept
<1> USE DEF LockInv
<1>1. DOMAIN usage \subseteq DOMAIN usage'
  BY RowsStay
<1>2. ASSUME NEW s \in DOMAIN usage, ~ IsOpen(s)
      PROVE  usage'[s] = usage[s]
  BY <1>2, TableStep, WritersStayOnTheirMachine DEF Relinks
<1> QED
  BY <1>1, <1>2 DEF HistoryKept

\* No step rewrites a closed session or removes one.
THEOREM ClosedFrozenHolds == Spec => ClosedFrozen
<1>1. LockInv /\ [Next]_vars => [HistoryKept]_vars
  BY HistoryStep
<1> QED
  BY <1>1, LockInvHolds, PTL DEF Spec, ClosedFrozen

\* A step that closes a session frees the machine or is a sound takeover.
THEOREM TakeoverSoundHolds == Spec => TakeoverSound
<1>1. LockInv /\ [Next]_vars => [ClosingIsSound]_vars
  <2> SUFFICES ASSUME LockInv, [Next]_vars, NEW s \in DOMAIN usage,
                      IsOpen(s), ~ IsOpen(s)'
               PROVE  \/ OpenUsages(usage[s].machine)' = {}
                      \/ \E n \in OpenUsages(usage[s].machine)' :
                           /\ n \notin DOMAIN usage
                           /\ usage[s].user # NoUser
                           /\ usage'[n].user \notin {NoUser, usage[s].user}
                           /\ clock - usage[s].startedAt >= Threshold
                           /\ usage'[s].endedAt = usage[s].startedAt
    BY DEF ClosingIsSound
  <2> USE DEF LockInv
  <2>1. CASE UNCHANGED usage \/ Relinks
    BY <2>1 DEF Relinks, IsOpen
  <2>2. ASSUME NEW p \in Proc, StartCreate(p)
        PROVE  FALSE
    BY <2>2 DEF StartCreate, IsOpen
  <2>3. ASSUME NEW p \in Proc, FinishUpdate(p)
        PROVE  OpenUsages(usage[s].machine)' = {}
    <3>1. /\ usage[s].machine = arg[p].machine
          /\ usage'[s].machine = usage[s].machine
          /\ DOMAIN usage' = DOMAIN usage
      BY <2>3, WritersStayOnTheirMachine DEF
        FinishUpdate, Close, Recipient, IsOpen
    <3>2. ASSUME NEW t \in DOMAIN usage, usage'[t].machine = arg[p].machine
          PROVE  ~ IsOpen(t)'
      <4>1. usage[t].machine = arg[p].machine
        BY <2>3, <3>2, WritersStayOnTheirMachine
      <4>2. CASE IsOpen(t)
        <5>1. t \in OpenUsages(arg[p].machine) /\ usage[t] \in UsageRow
          BY <4>1, <4>2 DEF OpenUsages, TypeOK, UsageTypeOK
        <5>2. usage'[t] = [usage[t] EXCEPT !.endedAt = clock]
          BY <2>3, <5>1 DEF FinishUpdate, Close, Recipient
        <5>3. usage'[t].endedAt = clock
          BY <5>1, <5>2 DEF UsageRow
        <5> QED
          BY <5>3 DEF IsOpen, NotEnded, TypeOK
      <4>3. CASE ~ IsOpen(t)
        BY <2>3, <4>3, WritersStayOnTheirMachine DEF IsOpen
      <4> QED
        BY <4>2, <4>3
    <3> QED
      BY <3>1, <3>2 DEF OpenUsages
  <2>4. ASSUME NEW p \in Proc, ConfirmWrite(p)
        PROVE  \E n \in OpenUsages(usage[s].machine)' :
                 /\ n \notin DOMAIN usage
                 /\ usage[s].user # NoUser
                 /\ usage'[n].user \notin {NoUser, usage[s].user}
                 /\ clock - usage[s].startedAt >= Threshold
                 /\ usage'[s].endedAt = usage[s].startedAt
    <3>1. PICK n \in Usage \ DOMAIN usage :
            /\ DOMAIN usage' = DOMAIN usage \cup {n}
            /\ usage'[n] = [machine |-> arg[p].machine, user |-> arg[p].user,
                            notify |-> TRUE, startedAt |-> arg[p].at,
                            endedAt |-> NotEnded]
            /\ \A t \in DOMAIN usage : t # arg[p].target => usage'[t] = usage[t]
            /\ s = arg[p].target =>
                 usage'[s] = [usage[s] EXCEPT !.endedAt = usage[s].startedAt,
                                              !.notify = FALSE]
      BY <2>4 DEF ConfirmWrite
    <3>2. s = arg[p].target
      BY <3>1 DEF IsOpen
    <3>3. /\ usage[s].machine = arg[p].machine
          /\ usage'[s].machine = usage[s].machine
          /\ usage[s].user \notin {NoUser, arg[p].user}
          /\ arg[p].at - usage[s].startedAt >= Threshold
          /\ arg[p].at <= clock
      BY <2>4, <3>2, WritersStayOnTheirMachine
      DEF ConfirmWrite, ConfirmHolds, OpenUsages, Replaceable
    <3>4. /\ usage[s] \in UsageRow
          /\ usage[s].startedAt \in Nat
          /\ arg[p].at \in Nat
          /\ arg[p].user \in User
          /\ clock \in Nat
      BY <2>4
      DEF ConfirmWrite, TypeOK, UsageTypeOK, UsageRow, HandlerTypeOK, HasArgs,
          Arg, UserPC, ConfirmPC
    <3>5. usage'[s].endedAt = usage[s].startedAt
      BY <3>1, <3>2, <3>4 DEF UsageRow
    <3>6. clock - usage[s].startedAt >= Threshold
      BY <3>3, <3>4, BoundAssumption
    <3>7. n \in OpenUsages(usage[s].machine)'
      BY <3>1, <3>3 DEF OpenUsages, IsOpen
    <3>8. usage'[n].user \notin {NoUser, usage[s].user}
      BY <3>1, <3>3, <3>4, NullsAssumption
    <3> QED
      BY <3>3, <3>5, <3>6, <3>7, <3>8
  <2> QED
    BY <2>1, <2>2, <2>3, <2>4, TableStep
<1> QED
  BY <1>1, LockInvHolds, PTL DEF Spec, TakeoverSound

\* The sessions of a deleted machine are neither opened nor closed nor moved, and
\* change at all only by a statement that found them before and waited.
THEOREM DeletedFrozenHolds == Spec => DeletedFrozen
<1>1. LockInv /\ [Next]_vars => [DeletedUsagesKept]_vars
  <2> SUFFICES ASSUME LockInv, [Next]_vars, NEW s \in DOMAIN usage',
                      usage'[s].machine \in deleted
               PROVE  /\ s \in DOMAIN usage
                      /\ usage'[s].machine = usage[s].machine
                      /\ usage'[s].startedAt = usage[s].startedAt
                      /\ usage'[s].endedAt = usage[s].endedAt
                      /\ usage'[s] # usage[s] =>
                           \E p \in Proc : /\ pc[p] \in WaitPC
                                          /\ arg[p].target = s
                                          /\ pc'[p] # pc[p]
    BY DEF DeletedUsagesKept
  <2> USE DEF LockInv
  <2>1. CASE UNCHANGED usage
    BY <2>1
  <2>2. CASE Relinks
    BY <2>2 DEF Relinks
  <2>3. ASSUME NEW p \in Proc,
               StartCreate(p) \/ FinishUpdate(p) \/ ConfirmWrite(p)
        PROVE  s \in DOMAIN usage /\ usage'[s] = usage[s]
    BY <2>3, WritersStayOnTheirMachine DEF LockedNotDeleted
  <2> QED
    BY <2>1, <2>2, <2>3, TableStep
<1> QED
  BY <1>1, LockInvHolds, PTL DEF Spec, DeletedFrozen

\* No step gives a registered session to another user.
THEOREM NoStealingHolds == Spec => NoStealing
<1>1. LockInv /\ [Next]_vars => [OwnersKept]_vars
  <2> SUFFICES ASSUME LockInv, [Next]_vars, NEW s \in DOMAIN usage,
                      usage[s].user # NoUser
               PROVE  usage'[s].user \in {usage[s].user, NoUser}
    BY DEF OwnersKept
  <2> QED
    BY TableStep, WritersStayOnTheirMachine DEF Relinks, LockInv
<1> QED
  BY <1>1, LockInvHolds, PTL DEF Spec, NoStealing

-----------------------------------------------------------------------------
(* Periods *)

\* What the two steps that close sessions and the two that open them write of
\* the period of a row.
LEMMA PeriodStep ==
    ASSUME LockInv, ValidPeriod, [Next]_vars, NEW s \in DOMAIN usage'
    PROVE  /\ usage'[s].startedAt <= clock
           /\ \/ usage'[s].endedAt = NotEnded
              \/ usage'[s].endedAt >= usage'[s].startedAt
<1> USE DEF LockInv
<1>0. clock \in Nat
  BY DEF TypeOK
<1>1. ASSUME NEW t \in DOMAIN usage
      PROVE  /\ usage[t] \in UsageRow
             /\ usage[t].startedAt \in Nat
             /\ usage[t].startedAt <= clock
             /\ usage[t].endedAt # NotEnded =>
                  usage[t].endedAt >= usage[t].startedAt
  BY DEF TypeOK, UsageTypeOK, UsageRow, ValidPeriod, IsOpen
<1>2. CASE UNCHANGED usage
  BY <1>1, <1>2
<1>3. CASE Relinks
  BY <1>1, <1>3 DEF Relinks
<1>4. ASSUME NEW p \in Proc, StartCreate(p)
      PROVE  /\ usage'[s].startedAt <= clock
             /\ \/ usage'[s].endedAt = NotEnded
                \/ usage'[s].endedAt >= usage'[s].startedAt
  <2>1. PICK n \in Usage \ DOMAIN usage, t \in arg[p].at..clock :
          usage' = [k \in DOMAIN usage \cup {n} |->
                      IF k = n THEN [machine |-> arg[p].machine, user |-> NoUser,
                                     notify |-> TRUE, startedAt |-> t,
                                     endedAt |-> NotEnded]
                               ELSE usage[k]]
    BY <1>4 DEF StartCreate
  <2>2. arg[p].at \in Nat
    BY DEF TypeOK, HandlerTypeOK, Arg
  <2>3. CASE s = n
    BY <1>0, <2>1, <2>2, <2>3
  <2>4. CASE s # n
    BY <1>1, <2>1, <2>4
  <2> QED
    BY <2>3, <2>4
<1>5. ASSUME NEW p \in Proc, FinishUpdate(p)
      PROVE  /\ usage'[s].startedAt <= clock
             /\ \/ usage'[s].endedAt = NotEnded
                \/ usage'[s].endedAt >= usage'[s].startedAt
  <2>1. /\ s \in DOMAIN usage
        /\ \/ usage'[s] = [usage[s] EXCEPT !.endedAt = clock]
           \/ usage'[s] = usage[s]
    BY <1>5 DEF FinishUpdate, Close
  <2>2. CASE usage'[s] = [usage[s] EXCEPT !.endedAt = clock]
    <3>1. usage'[s].startedAt = usage[s].startedAt /\ usage'[s].endedAt = clock
      BY <1>1, <2>1, <2>2 DEF UsageRow
    <3> QED
      BY <1>0, <1>1, <2>1, <3>1
  <2> QED
    BY <1>1, <2>1, <2>2
<1>6. ASSUME NEW p \in Proc, ConfirmWrite(p)
      PROVE  /\ usage'[s].startedAt <= clock
             /\ \/ usage'[s].endedAt = NotEnded
                \/ usage'[s].endedAt >= usage'[s].startedAt
  <2> DEFINE old == arg[p].target
  <2>1. arg[p].at <= clock /\ old \in DOMAIN usage
    BY <1>6 DEF ConfirmWrite, ConfirmHolds, OpenUsages
  <2>2. PICK n \in Usage \ DOMAIN usage :
          /\ DOMAIN usage' = DOMAIN usage \cup {n}
          /\ usage'[n].startedAt = arg[p].at
          /\ usage'[n].endedAt = NotEnded
          /\ \A k \in DOMAIN usage : k # old => usage'[k] = usage[k]
          /\ usage'[old] = [usage[old] EXCEPT !.endedAt = usage[old].startedAt,
                                              !.notify = FALSE]
    BY <1>6, <2>1 DEF ConfirmWrite
  <2>3. /\ usage'[old].startedAt = usage[old].startedAt
        /\ usage'[old].endedAt = usage[old].startedAt
    BY <1>1, <2>1, <2>2 DEF UsageRow
  <2>4. CASE s \in DOMAIN usage /\ s # old
    BY <1>1, <2>2, <2>4
  <2>5. CASE s = old
    BY <1>1, <2>1, <2>3, <2>5
  <2>6. CASE s = n
    BY <2>1, <2>2, <2>6
  <2> QED
    BY <2>2, <2>4, <2>5, <2>6
<1> QED
  BY <1>2, <1>3, <1>4, <1>5, <1>6, TableStep

\* No session starts in the future or ends before it starts: the insert takes a
\* time no later than now, and the clock goes on until the close.
THEOREM ValidPeriodHolds == Spec => []ValidPeriod
<1>1. Init => ValidPeriod
  BY DEF Init, ValidPeriod
<1>2. LockInv /\ ValidPeriod /\ [Next]_vars => ValidPeriod'
  <2> SUFFICES ASSUME LockInv, ValidPeriod, [Next]_vars,
                      NEW s \in DOMAIN usage'
               PROVE  /\ usage'[s].startedAt <= clock'
                      /\ \/ usage'[s].endedAt = NotEnded
                         \/ usage'[s].endedAt >= usage'[s].startedAt
    BY DEF ValidPeriod, IsOpen
  <2>1. clock \in Nat /\ clock' \in Nat /\ clock <= clock'
    BY ClockStep DEF LockInv, TypeOK
  <2>2. usage'[s] \in UsageRow
    BY NextType DEF LockInv, TypeOK, UsageTypeOK
  <2>3. usage'[s].startedAt \in Nat
    BY <2>2 DEF UsageRow
  <2> QED
    BY <2>1, <2>3, PeriodStep
<1> QED
  BY <1>1, <1>2, LockInvHolds, PTL DEF Spec

-----------------------------------------------------------------------------
(* Genders *)

\* Handlers that getMachineDetail has let through for their user.
CheckedPC == (RegisterPC \cup ConfirmPC)
             \ {"register_detail", "confirm_detail", "confirm_notify"}

\* Nobody gets past getMachineDetail on a machine of another gender.
GenderChecked ==
    \A p \in Proc : pc[p] \in CheckedPC =>
        arg[p].gender = MachineGender[arg[p].machine]

\* A handler has been let through before a step unless the step does it, and
\* goes on for the same user and machine.
LEMMA CheckedBefore ==
    ASSUME TypeOK, NEW p \in Proc,
           Step(p) \/ NewRequest(p) \/ DatabaseError(p),
           pc'[p] \in CheckedPC
    PROVE  /\ \/ pc[p] \in CheckedPC
              \/ arg[p].gender = MachineGender[arg[p].machine]
           /\ arg'[p].user = arg[p].user
           /\ arg'[p].gender = arg[p].gender
           /\ arg'[p].machine = arg[p].machine
<1> USE DEF CheckedPC, RegisterPC, ConfirmPC, Arg, TypeOK, HandlerTypeOK
<1>1. CASE Start(p) \/ Finish(p)
  BY <1>1
  DEF Start, StartLock, StartFind, StartCreate, Finish, FinishLock,
      FinishUpdate, FinishMachine, FinishNotify, LockMachine, Goto, End, Leave
<1>2. CASE Register(p)
  BY <1>2
  DEF Register, RegisterDetail, RegisterUpdate, RegisterWait, RegisterDiagnose,
      MachineDetail, Goto, Return, Leave, Args
<1>3. CASE Confirm(p)
  BY <1>3
  DEF Confirm, ConfirmDetail, ConfirmLock, ConfirmUsageLock, ConfirmFind,
      ConfirmWrite, ConfirmNotify, MachineDetail, LockMachine, Goto, Return,
      Leave, Args
<1>4. CASE InsertFails(p) \/ DatabaseError(p)
  BY <1>4 DEF InsertFails, DatabaseError, End, Leave
<1>5. CASE NewRequest(p)
  BY <1>5
  DEF NewRequest, StartBegin, FinishBegin, RegisterBegin, ConfirmBegin, OwnBegin,
      OwnPC, Begin, Goto
<1>6. CASE OwnWait(p)
  BY <1>6 DEF OwnWait, Return, Leave
<1> QED
  BY <1>1, <1>2, <1>3, <1>4, <1>5, <1>6 DEF Step

\* The gender check of a handler stays good for the rest of it.
LEMMA GenderCheckedStep ==
    ASSUME LockInv, GenderChecked, [Next]_vars
    PROVE  GenderChecked'
<1>1. ASSUME NEW p \in Proc, Step(p) \/ NewRequest(p) \/ DatabaseError(p)
      PROVE  GenderChecked'
  BY <1>1, HandlerStep, CheckedBefore DEF Frame, GenderChecked, LockInv
<1>2. CASE Outside
  BY <1>2, OutsideStep DEF GenderChecked
<1>3. CASE Crash
  BY <1>3
  DEF Crash, GenderChecked, CheckedPC, RegisterPC, ConfirmPC
<1> QED
  BY <1>1, <1>2, <1>3, NextCases

\* Whoever gets a session has been checked for its machine's room by the request
\* that gets it.
LEMMA GenderStep ==
    ASSUME LockInv, GenderChecked, [Next]_vars
    PROVE  NewUsersVouched
<1> USE DEF LockInv
<1> DEFINE OK(s) == \/ usage'[s].user = NoUser
                    \/ s \in DOMAIN usage /\ usage'[s].user = usage[s].user
                    \/ \E p \in Proc : Vouched(p, s)
<1>1. CASE UNCHANGED usage
  BY <1>1 DEF NewUsersVouched
<1>2. ASSUME Relinks, NEW s \in DOMAIN usage
      PROVE  OK(s)
  <2>1. usage'[s].machine = usage[s].machine
    BY <1>2 DEF Relinks
  <2>2. \/ usage'[s].user \in {usage[s].user, NoUser}
        \/ \E p \in Proc : /\ pc[p] \in {"register_update", "register_wait"}
                          /\ usage'[s].user = arg[p].user
                          /\ usage[s].machine = arg[p].machine
    BY <1>2 DEF Relinks
  <2> QED
    BY <1>2, <2>1, <2>2
    DEF Vouched, GenderChecked, CheckedPC, RegisterPC, ConfirmPC
<1>3. ASSUME NEW p \in Proc, StartCreate(p) \/ FinishUpdate(p) \/ ConfirmWrite(p),
             NEW s \in DOMAIN usage
      PROVE  OK(s)
  BY <1>3, WritersStayOnTheirMachine
<1>4. ASSUME NEW p \in Proc, StartCreate(p), NEW s \in DOMAIN usage' \ DOMAIN usage
      PROVE  OK(s)
  BY <1>4 DEF StartCreate
<1>5. ASSUME NEW p \in Proc, FinishUpdate(p)
      PROVE  DOMAIN usage' = DOMAIN usage
  BY <1>5 DEF FinishUpdate, Close
<1>6. ASSUME NEW p \in Proc, ConfirmWrite(p),
             NEW s \in DOMAIN usage' \ DOMAIN usage
      PROVE  OK(s)
  <2>1. usage'[s].user = arg[p].user /\ usage'[s].machine = arg[p].machine
    BY <1>6 DEF ConfirmWrite
  <2> QED
    BY <1>6, <2>1
    DEF ConfirmWrite, Vouched, GenderChecked, CheckedPC, RegisterPC, ConfirmPC
<1>7. CASE Relinks
  BY <1>2, <1>7 DEF NewUsersVouched, Relinks
<1>8. ASSUME NEW p \in Proc, StartCreate(p) \/ FinishUpdate(p) \/ ConfirmWrite(p)
      PROVE  NewUsersVouched
  BY <1>3, <1>4, <1>5, <1>6, <1>8 DEF NewUsersVouched
<1> QED
  BY <1>1, <1>7, <1>8, TableStep

\* Nobody is registered on a session but by a request whose gender was checked
\* against the machine's room, however late its update comes.
THEOREM GenderSegregatedHolds == Spec => GenderSegregated
<1>1. Init => GenderChecked
  BY DEF Init, GenderChecked, CheckedPC, RegisterPC, ConfirmPC
<1>2. LockInv /\ GenderChecked /\ [Next]_vars => GenderChecked'
  BY GenderCheckedStep
<1>3. LockInv /\ GenderChecked /\ [Next]_vars => [NewUsersVouched]_vars
  BY GenderStep
<1> QED
  BY <1>1, <1>2, <1>3, LockInvHolds, PTL DEF Spec, GenderSegregated

-----------------------------------------------------------------------------
(* Notices *)

\* Handlers that have closed a session and will report it.
ReportPC == {"finish_machine", "finish_notify", "confirm_notify"}

\* Session s is closed, and the user u whom a handler at label l will tell of it,
\* if any, is the one on the closed row.
Reportable(s, u, l) ==
    /\ s \in DOMAIN usage
    /\ ~ IsOpen(s)
    /\ u # NoUser => /\ u = usage[s].user
                     /\ usage[s].notify <=> l # "confirm_notify"

\* Who is going to report a session can, and nobody has done so yet.
PendingOK ==
    \A p \in Proc : pc[p] \in ReportPC =>
        /\ Reportable(arg[p].target, arg[p].user, pc[p])
        /\ notices[arg[p].target] = <<>>

\* No two handlers are going to report the same session.
OneReporter ==
    \A p, q \in Proc :
        /\ pc[p] \in ReportPC
        /\ pc[q] \in ReportPC
        /\ arg[p].target = arg[q].target
        => p = q

NoticeInv == NoticeOnce /\ NoticeRight /\ PendingOK /\ OneReporter

\* The handlers that report sessions keep what they know of them.
ReportersKept ==
    \A q \in Proc : pc'[q] \in ReportPC =>
        /\ pc[q] \in ReportPC
        /\ arg'[q] = arg[q]
        /\ pc'[q] = "confirm_notify" <=> pc[q] = "confirm_notify"

\* Four kinds of step, as far as notices go: a close, which makes its handler
\* the reporter; a report, which makes the handler idle; and everything else.
LEMMA ReportStep ==
    ASSUME TypeOK, [Next]_vars
    PROVE  \/ UNCHANGED notices /\ ReportersKept
           \/ \E p \in Proc :
                /\ Frame(p)
                /\ \/ FinishUpdate(p) \/ ConfirmWrite(p)
                   \/ FinishNotify(p) \/ ConfirmNotify(p)
<1> USE DEF ReportPC, TypeOK, HandlerTypeOK
<1>1. ASSUME NEW p \in Proc, Step(p) \/ NewRequest(p) \/ DatabaseError(p),
             ~ (FinishUpdate(p) \/ ConfirmWrite(p)),
             ~ (FinishNotify(p) \/ ConfirmNotify(p))
      PROVE  /\ UNCHANGED notices
             /\ pc'[p] \in ReportPC =>
                  /\ pc[p] \in ReportPC
                  /\ arg'[p] = arg[p]
                  /\ pc'[p] = "confirm_notify" <=> pc[p] = "confirm_notify"
  <2>1. CASE Start(p)
    BY <2>1
    DEF Start, StartLock, StartFind, StartCreate, LockMachine, MachineGone,
        Goto, End, Leave
  <2>2. CASE Finish(p)
    BY <1>1, <2>2
    DEF Finish, FinishLock, FinishMachine, LockMachine, MachineGone, Goto, End,
        Leave
  <2>3. CASE Register(p)
    BY <2>3
    DEF Register, RegisterDetail, RegisterUpdate, RegisterWait,
        RegisterDiagnose, MachineDetail, Goto, Return, Leave
  <2>4. CASE Confirm(p)
    BY <1>1, <2>4
    DEF Confirm, ConfirmDetail, ConfirmLock, ConfirmUsageLock, ConfirmFind,
        MachineDetail, LockMachine, MachineGone, Goto, Return, Leave
  <2>5. CASE InsertFails(p) \/ DatabaseError(p)
    BY <2>5 DEF InsertFails, DatabaseError, End, Leave
  <2>6. CASE NewRequest(p)
    BY <2>6
    DEF NewRequest, StartBegin, FinishBegin, RegisterBegin, ConfirmBegin, OwnBegin,
        OwnPC, Begin, Goto
  <2>7. CASE OwnWait(p)
    BY <2>7 DEF OwnWait, Return, Leave
  <2> QED
    BY <1>1, <2>1, <2>2, <2>3, <2>4, <2>5, <2>6, <2>7 DEF Step
<1>2. ASSUME NEW p \in Proc, Step(p) \/ NewRequest(p) \/ DatabaseError(p)
      PROVE  Frame(p)
  BY <1>2, HandlerStep
<1>3. CASE Outside
  <2>1. UNCHANGED notices
    BY <1>3
    DEF Outside, DisableMachineNotification, UnlinkUserFromMachine,
        DeleteMachine, Tick, vars
  <2> QED
    BY <1>3, <2>1, OutsideStep DEF ReportersKept
<1>4. CASE Crash
  BY <1>4 DEF Crash, ReportersKept
<1> QED
  BY <1>1, <1>2, <1>3, <1>4, NextCases DEF ReportersKept, Frame

\* A step that sends nothing leaves reported sessions as they were reported.
LEMMA NoticesStay ==
    ASSUME LockInv, NoticeInv, [Next]_vars, UNCHANGED notices
    PROVE  NoticeOnce' /\ NoticeRight'
<1>1. HistoryKept
  BY HistoryStep
<1>2. NoticeOnce'
  BY DEF NoticeInv, NoticeOnce
<1>3. ASSUME NEW s \in Usage, NEW i \in 1..Len(notices[s])
      PROVE  /\ s \in DOMAIN usage'
             /\ ~ IsOpen(s)'
             /\ usage'[s] = usage[s]
  BY <1>1, <1>3 DEF NoticeInv, NoticeRight, HistoryKept, IsOpen
<1>4. NoticeRight'
  BY <1>3 DEF NoticeInv, NoticeRight
<1> QED
  BY <1>2, <1>4

\* A handler that is going to report a session still can after a step of
\* another one.
LEMMA PendingStays ==
    ASSUME LockInv, NoticeInv, [Next]_vars, NEW q \in Proc, pc[q] \in ReportPC,
           pc'[q] \in ReportPC, arg'[q] = arg[q],
           pc'[q] = "confirm_notify" <=> pc[q] = "confirm_notify"
    PROVE  Reportable(arg[q].target, arg[q].user, pc[q])'
<1>1. Reportable(arg[q].target, arg[q].user, pc[q])
  BY DEF NoticeInv, PendingOK
<1>2. HistoryKept
  BY HistoryStep
<1>3. /\ arg[q].target \in DOMAIN usage'
      /\ usage'[arg[q].target] = usage[arg[q].target]
  BY <1>1, <1>2 DEF Reportable, HistoryKept
<1> QED
  BY <1>1, <1>3 DEF Reportable, IsOpen

\* The handler that closes a session becomes its only reporter: nobody could
\* report an open one.
LEMMA CloseReports ==
    ASSUME LockInv, NoticeInv, [Next]_vars, NEW p \in Proc, Frame(p),
           UNCHANGED notices,
           pc[p] \notin ReportPC,
           pc'[p] \in ReportPC =>
             /\ Reportable(arg[p].target, arg[p].user, pc[p])'
             /\ \E s \in DOMAIN usage : arg'[p].target = s /\ IsOpen(s)
    PROVE  NoticeInv'
<1>1. NoticeOnce' /\ NoticeRight'
  BY NoticesStay
<1>2. DOMAIN usage \subseteq DOMAIN usage'
  BY RowsStay
<1>3. ASSUME NEW s \in DOMAIN usage, IsOpen(s)
      PROVE  /\ notices[s] = <<>>
             /\ \A q \in Proc : pc[q] \in ReportPC => arg[q].target # s
  <2>1. notices[s] \in Seq(Notice) /\ s \in Usage
    BY DEF LockInv, TypeOK, UsageTypeOK
  <2>2. Len(notices[s]) = 0
    BY <1>3, <2>1 DEF NoticeInv, NoticeRight, NoticeOnce
  <2>3. notices[s] = <<>>
    BY <2>1, <2>2
  <2> QED
    BY <1>3, <2>3 DEF NoticeInv, PendingOK, Reportable
<1>4. PendingOK'
  <2> SUFFICES ASSUME NEW q \in Proc, pc'[q] \in ReportPC
               PROVE  /\ Reportable(arg[q].target, arg[q].user, pc[q])'
                      /\ notices[arg'[q].target] = <<>>
    BY DEF PendingOK
  <2>1. CASE q = p
    BY <1>3, <2>1
  <2>2. CASE q # p
    <3>1. pc[q] \in ReportPC /\ pc'[q] = pc[q] /\ arg'[q] = arg[q]
      BY <2>2 DEF Frame
    <3> QED
      BY <3>1, PendingStays DEF NoticeInv, PendingOK
  <2> QED
    BY <2>1, <2>2
<1>5. OneReporter'
  <2> SUFFICES ASSUME NEW q \in Proc, NEW r \in Proc, q # r,
                      pc'[q] \in ReportPC, pc'[r] \in ReportPC
               PROVE  arg'[q].target # arg'[r].target
    BY DEF OneReporter
  <2>1. CASE q # p /\ r # p
    BY <2>1 DEF Frame, NoticeInv, OneReporter
  <2>2. CASE q = p \/ r = p
    BY <1>3, <2>2 DEF Frame
  <2> QED
    BY <2>1, <2>2
<1> QED
  BY <1>1, <1>4, <1>5 DEF NoticeInv

\* finishUsingMachine closes the one open session of its machine and remembers
\* the user on it, when that user wants to know.
LEMMA FinishReports ==
    ASSUME LockInv, NoticeInv, [Next]_vars, NEW p \in Proc, Frame(p),
           FinishUpdate(p)
    PROVE  NoticeInv'
<1>1. pc[p] \notin ReportPC /\ UNCHANGED notices
  BY DEF FinishUpdate, ReportPC
<1>2. ASSUME pc'[p] \in ReportPC
      PROVE  /\ Reportable(arg[p].target, arg[p].user, pc[p])'
             /\ \E s \in DOMAIN usage : arg'[p].target = s /\ IsOpen(s)
  <2>1. PICK s \in OpenUsages(arg[p].machine) :
          /\ arg' = [arg EXCEPT ![p] = Args(@.machine, Recipient(s), NoGender, s, 0)]
          /\ pc' = [pc EXCEPT ![p] = "finish_machine"]
    BY <1>2
    DEF FinishUpdate, End, Leave, Goto, ReportPC, LockInv, TypeOK, HandlerTypeOK
  <2>2. s \in DOMAIN usage /\ IsOpen(s) /\ usage[s] \in UsageRow
    BY DEF OpenUsages, LockInv, TypeOK, UsageTypeOK
  <2>3. usage'[s] = [usage[s] EXCEPT !.endedAt = clock]
    BY <2>2 DEF FinishUpdate, Close
  <2>4. /\ usage'[s].endedAt = clock
        /\ usage'[s].user = usage[s].user
        /\ usage'[s].notify = usage[s].notify
        /\ usage[s].notify \in BOOLEAN
    BY <2>2, <2>3 DEF UsageRow
  <2>5. s \in DOMAIN usage' /\ usage'[s].endedAt # NotEnded
    BY <2>2, <2>4, RowsStay DEF NotEnded, LockInv, TypeOK
  <2>6. /\ arg'[p].target = s
        /\ arg'[p].user = Recipient(s)
        /\ pc'[p] = "finish_machine"
    BY <2>1 DEF Args, LockInv, TypeOK, HandlerTypeOK
  <2> QED
    BY <2>2, <2>4, <2>5, <2>6 DEF Recipient, Reportable, IsOpen
<1> QED
  BY <1>1, <1>2, CloseReports

\* confirmCompletedAndRegister closes the session it has locked and remembers
\* the user on it.
LEMMA ConfirmReports ==
    ASSUME LockInv, NoticeInv, [Next]_vars, NEW p \in Proc, Frame(p),
           ConfirmWrite(p)
    PROVE  NoticeInv'
<1>0. PICK s : s = arg[p].target
  OBVIOUS
<1>1. pc[p] \notin ReportPC /\ UNCHANGED notices
  BY DEF ConfirmWrite, ReportPC
<1>2. s \in DOMAIN usage /\ IsOpen(s) /\ usage[s] \in UsageRow
  BY <1>0 DEF ConfirmWrite, LockInv, ConfirmHolds, OpenUsages, TypeOK, UsageTypeOK
<1>3. usage'[s] = [usage[s] EXCEPT !.endedAt = usage[s].startedAt,
                                   !.notify = FALSE]
  BY <1>0, <1>2 DEF ConfirmWrite
<1>4. /\ usage'[s].endedAt = usage[s].startedAt
      /\ usage'[s].user = usage[s].user
      /\ usage'[s].notify = FALSE
      /\ usage[s].startedAt \in Nat
  BY <1>2, <1>3 DEF UsageRow
<1>5. s \in DOMAIN usage' /\ usage'[s].endedAt # NotEnded
  BY <1>2, <1>4, RowsStay DEF NotEnded
<1>6. /\ arg'[p].target = s
      /\ arg'[p].user = usage[s].user
      /\ pc'[p] = "confirm_notify"
  BY <1>0 DEF ConfirmWrite, Goto, Args, LockInv, TypeOK, HandlerTypeOK
<1>7. Reportable(arg[p].target, arg[p].user, pc[p])'
  BY <1>4, <1>5, <1>6 DEF Reportable, IsOpen
<1> QED
  BY <1>1, <1>2, <1>6, <1>7, CloseReports

\* A report goes to the user on the closed row, of the right kind, and makes
\* its handler idle.
LEMMA NotifyReports ==
    ASSUME LockInv, NoticeInv, [Next]_vars, NEW p \in Proc, Frame(p),
           FinishNotify(p) \/ ConfirmNotify(p)
    PROVE  NoticeInv'
<1> DEFINE s == arg[p].target
           k == IF pc[p] = "confirm_notify" THEN "replaced" ELSE "completed"
           n == [kind |-> k, user |-> arg[p].user]
<1>0. pc[p] \in {"finish_notify", "confirm_notify"} /\ pc'[p] = "idle"
  BY DEF FinishNotify, ConfirmNotify, End, Return, Leave, LockInv, TypeOK,
         HandlerTypeOK
<1>1. /\ s \in Usage
      /\ s \in DOMAIN usage
      /\ ~ IsOpen(s)
      /\ notices[s] = <<>>
      /\ arg[p].user # NoUser =>
           /\ arg[p].user = usage[s].user
           /\ usage[s].notify <=> pc[p] # "confirm_notify"
  BY <1>0
  DEF ReportPC, NoticeInv, PendingOK, Reportable, LockInv, TypeOK, UsageTypeOK
<1>2. UNCHANGED usage
  BY DEF FinishNotify, ConfirmNotify
<1>3. \/ UNCHANGED notices
      \/ /\ arg[p].user # NoUser
         /\ notices' = [notices EXCEPT ![s] = Append(@, n)]
  BY <1>0 DEF FinishNotify, ConfirmNotify, Dispatch
<1>4. ReportersKept
  BY <1>0 DEF Frame, ReportersKept, ReportPC
<1>5. ASSUME NEW t \in Usage, notices'[t] # notices[t]
      PROVE  t = s /\ arg[p].user # NoUser /\ notices'[t] = <<n>>
  <2>1. notices \in [Usage -> Seq(Notice)]
    BY DEF LockInv, TypeOK
  <2>2. /\ arg[p].user # NoUser
        /\ notices' = [notices EXCEPT ![s] = Append(@, n)]
    BY <1>3, <1>5
  <2>3. t = s
    BY <1>5, <2>1, <2>2
  <2>4. notices'[s] = Append(<<>>, n)
    BY <1>1, <2>1, <2>2
  <2> QED
    BY <2>2, <2>3, <2>4
<1>6. NoticeOnce'
  <2> SUFFICES ASSUME NEW t \in Usage
               PROVE  Len(notices'[t]) <= 1
    BY DEF NoticeOnce
  <2>1. CASE notices'[t] = notices[t]
    BY <2>1 DEF NoticeInv, NoticeOnce
  <2>2. CASE notices'[t] # notices[t]
    <3>1. notices'[t] = <<n>>
      BY <1>5, <2>2
    <3>2. Len(<<n>>) = 1
      OBVIOUS
    <3>3. Len(notices'[t]) = 1
      BY <3>1, <3>2
    <3> HIDE DEF n
    <3> QED
      BY <3>3
  <2> QED
    BY <2>1, <2>2
<1>7. NoticeRight'
  <2> SUFFICES ASSUME NEW t \in Usage, NEW i \in 1..Len(notices'[t])
               PROVE  /\ t \in DOMAIN usage
                      /\ ~ IsOpen(t)
                      /\ notices'[t][i].user = usage[t].user
                      /\ notices'[t][i].kind = "completed" <=> usage[t].notify
    BY <1>2 DEF NoticeRight, IsOpen
  <2>1. CASE notices'[t] = notices[t]
    BY <2>1 DEF NoticeInv, NoticeRight
  <2>2. CASE notices'[t] # notices[t]
    <3>1. t = s /\ arg[p].user # NoUser /\ notices'[t] = <<n>>
      BY <1>5, <2>2
    <3>2. notices'[t][i] = n
      BY <3>1
    <3> QED
      BY <1>1, <3>1, <3>2
  <2> QED
    BY <2>1, <2>2
<1>8. ASSUME NEW q \in Proc, pc'[q] \in ReportPC
      PROVE  /\ pc[q] \in ReportPC /\ pc'[q] = pc[q] /\ arg'[q] = arg[q]
             /\ arg[q].target # s
  BY <1>0, <1>8 DEF ReportPC, Frame, NoticeInv, OneReporter
<1>9. PendingOK'
  <2> SUFFICES ASSUME NEW q \in Proc, pc'[q] \in ReportPC
               PROVE  /\ Reportable(arg[q].target, arg[q].user, pc[q])'
                      /\ notices'[arg[q].target] = <<>>
    BY <1>8 DEF PendingOK
  <2>1. Reportable(arg[q].target, arg[q].user, pc[q])'
    BY <1>8, PendingStays
  <2>2. arg[q].target \in Usage /\ notices[arg[q].target] = <<>>
    BY <1>8
    DEF NoticeInv, PendingOK, Reportable, LockInv, TypeOK, UsageTypeOK
  <2>3. notices'[arg[q].target] = notices[arg[q].target]
    BY <1>5, <1>8, <2>2
  <2> QED
    BY <2>1, <2>2, <2>3
<1>10. OneReporter'
  BY <1>8 DEF NoticeInv, OneReporter
<1> QED
  BY <1>6, <1>7, <1>9, <1>10 DEF NoticeInv

\* Every step keeps the notices right.
LEMMA NoticeStep ==
    ASSUME LockInv, NoticeInv, [Next]_vars
    PROVE  NoticeInv'
<1>1. CASE UNCHANGED notices /\ ReportersKept
  <2>1. NoticeOnce' /\ NoticeRight'
    BY <1>1, NoticesStay
  <2>2. PendingOK'
    BY <1>1, PendingStays DEF ReportersKept, NoticeInv, PendingOK
  <2>3. OneReporter'
    BY <1>1 DEF ReportersKept, NoticeInv, OneReporter
  <2> QED
    BY <2>1, <2>2, <2>3 DEF NoticeInv
<1>2. CASE ~ (UNCHANGED notices /\ ReportersKept)
  BY <1>2, ReportStep, FinishReports, ConfirmReports, NotifyReports DEF LockInv
<1> QED
  BY <1>1, <1>2

\* Whoever closes a session is its only reporter, so notices are sent once and
\* to the right user.
LEMMA NoticeInvHolds == Spec => []NoticeInv
<1>1. Init => NoticeInv
  BY DEF Init, NoticeInv, NoticeOnce, NoticeRight, PendingOK, OneReporter,
         ReportPC
<1>2. LockInv /\ NoticeInv /\ [Next]_vars => NoticeInv'
  BY NoticeStep
<1> QED
  BY <1>1, <1>2, LockInvHolds, PTL DEF Spec

\* A session gives rise to one notice at most, whatever the finish events, the
\* takeovers and the faults.
THEOREM NoticeOnceHolds == Spec => []NoticeOnce
<1>1. NoticeInv => NoticeOnce
  BY DEF NoticeInv
<1> QED
  BY <1>1, NoticeInvHolds, PTL

\* A notice has the kind of its session's end and goes to the user who held it.
THEOREM NoticeRightHolds == Spec => []NoticeRight
<1>1. NoticeInv => NoticeRight
  BY DEF NoticeInv
<1> QED
  BY <1>1, NoticeInvHolds, PTL

-----------------------------------------------------------------------------
(* Completions that are owed *)

\* Handler p is going to tell a user that session s is completed.
WillTell(p, s) ==
    /\ pc[p] \in {"finish_machine", "finish_notify"}
    /\ arg[p].target = s
    /\ arg[p].user # NoUser

\* As long as nothing has failed, a session that ended by itself and whose user
\* wanted to know is reported, or its machine is gone, or a handler is about to
\* report it.
CompletionOwed ==
    faults = 0 =>
        \A s \in DOMAIN usage :
            ~ IsOpen(s) /\ usage[s].notify /\ usage[s].user # NoUser =>
                \/ notices[s] # <<>>
                \/ usage[s].machine \in deleted
                \/ \E p \in Proc : WillTell(p, s)

\* What a step keeps of what was done for a session: notices stay, machines
\* stay deleted, and faults are not forgotten.
LEMMA DoneStays ==
    ASSUME LockInv, [Next]_vars
    PROVE  /\ \A s \in Usage : notices[s] # <<>> => notices'[s] # <<>>
           /\ deleted \subseteq deleted'
           /\ faults' = 0 => faults = 0
<1> USE DEF LockInv
<1>1. notices \in [Usage -> Seq(Notice)] /\ faults \in Nat
  BY DEF TypeOK
<1>2. ASSUME NEW p \in Proc, FinishNotify(p) \/ ConfirmNotify(p)
      PROVE  /\ \A s \in Usage : notices[s] # <<>> => notices'[s] # <<>>
             /\ UNCHANGED <<deleted, faults>>
  <2>1. \/ UNCHANGED notices
        \/ \E k \in {"completed", "replaced"}, u \in User :
             Dispatch(arg[p].target, k, u)
    <3>1. arg[p].user \in User \cup {NoUser}
      BY DEF TypeOK, HandlerTypeOK, Arg
    <3>2. CASE arg[p].user = NoUser
      BY <1>2, <3>2 DEF FinishNotify, ConfirmNotify
    <3>3. CASE arg[p].user \in User /\ arg[p].user # NoUser
      BY <1>2, <3>3 DEF FinishNotify, ConfirmNotify
    <3> QED
      BY <3>1, <3>2, <3>3
  <2>2. ASSUME NEW k \in {"completed", "replaced"}, NEW u \in User,
               Dispatch(arg[p].target, k, u), NEW s \in Usage
        PROVE  \/ notices'[s] = notices[s]
               \/ notices'[s] = Append(notices[s], [kind |-> k, user |-> u])
    BY <1>1, <2>2 DEF Dispatch
  <2>3. ASSUME NEW q \in Seq(Notice), NEW n \in Notice
        PROVE  Append(q, n) # <<>>
    BY AppendProperties
  <2>4. ASSUME NEW k \in {"completed", "replaced"}, NEW u \in User
        PROVE  [kind |-> k, user |-> u] \in Notice
    BY DEF Notice
  <2>5. \A s \in Usage : notices[s] # <<>> => notices'[s] # <<>>
    <3>1. CASE UNCHANGED notices
      BY <3>1
    <3>2. ASSUME NEW k \in {"completed", "replaced"}, NEW u \in User,
                 Dispatch(arg[p].target, k, u), NEW s \in Usage,
                 notices[s] # <<>>
          PROVE  notices'[s] # <<>>
      <4>1. notices[s] \in Seq(Notice)
        BY <1>1
      <4>2. Append(notices[s], [kind |-> k, user |-> u]) # <<>>
        BY <2>3, <2>4, <4>1
      <4> QED
        BY <2>2, <3>2, <4>2
    <3> QED
      BY <2>1, <3>1, <3>2
  <2> QED
    BY <1>2, <2>5 DEF FinishNotify, ConfirmNotify
<1>3. ASSUME NEW p \in Proc, Step(p), ~ (FinishNotify(p) \/ ConfirmNotify(p))
      PROVE  UNCHANGED <<notices, deleted, faults>>
  BY <1>3
  DEF Step, OwnWait, Start, Finish, Register, Confirm, StartLock, StartFind, StartCreate,
      FinishLock, FinishUpdate, FinishMachine, RegisterDetail, RegisterUpdate,
      RegisterWait, RegisterDiagnose, ConfirmDetail, ConfirmLock,
      ConfirmUsageLock, ConfirmFind, ConfirmWrite, InsertFails, LockMachine,
      MachineGone, MachineDetail
<1>4. ASSUME NEW p \in Proc, NewRequest(p)
      PROVE  UNCHANGED <<notices, deleted, faults>>
  BY <1>4
  DEF NewRequest, StartBegin, FinishBegin, RegisterBegin, ConfirmBegin, OwnBegin, Begin
<1>5. CASE Crash \/ \E p \in Proc : DatabaseError(p)
  <2>1. UNCHANGED <<notices, deleted>> /\ faults' = faults + 1
    BY <1>5 DEF Crash, DatabaseError
  <2> QED
    BY <1>1, <2>1
<1>6. CASE Outside
  <2>1. UNCHANGED <<notices, faults>> /\ deleted \subseteq deleted'
    BY <1>6
    DEF Outside, DisableMachineNotification, UnlinkUserFromMachine,
        DeleteMachine, Tick, vars
  <2> QED
    BY <2>1
<1> QED
  BY <1>2, <1>3, <1>4, <1>5, <1>6, NextCases

\* A handler that is about to tell a user does, or goes on to, unless its machine
\* is deleted or something fails.
LEMMA TellerStep ==
    ASSUME LockInv, NoticeInv, [Next]_vars, faults' = 0, NEW p \in Proc,
           NEW s \in DOMAIN usage, WillTell(p, s)
    PROVE  \/ notices'[s] # <<>>
           \/ arg[p].machine \in deleted'
           \/ WillTell(p, s)'
<1> USE DEF LockInv
<1>1. s \in Usage /\ notices \in [Usage -> Seq(Notice)]
  BY DEF TypeOK, UsageTypeOK
<1>2. ASSUME NEW q \in Proc, Step(q) \/ NewRequest(q)
      PROVE  \/ notices'[s] # <<>>
             \/ arg[p].machine \in deleted'
             \/ WillTell(p, s)'
  <2>1. CASE q # p
    BY <1>2, <2>1, HandlerStep DEF Frame, WillTell
  <2>2. CASE q = p
    <3>1. FinishMachine(p) \/ FinishNotify(p)
      BY <1>2, <2>2
      DEF WillTell, Step, OwnWait, OwnPC, Start, Finish, Register, Confirm, StartLock, StartFind,
          StartCreate, FinishLock, FinishUpdate, RegisterDetail, RegisterUpdate,
          RegisterWait, RegisterDiagnose, ConfirmDetail, ConfirmLock,
          ConfirmUsageLock, ConfirmFind, ConfirmWrite, ConfirmNotify,
          InsertFails, NewRequest, StartBegin, FinishBegin, RegisterBegin,
          ConfirmBegin, OwnBegin, Begin
    <3>2. CASE FinishMachine(p)
      BY <3>2 DEF FinishMachine, Goto, WillTell, TypeOK, HandlerTypeOK
    <3>3. CASE FinishNotify(p)
      <4>1. notices' = [notices EXCEPT ![s] =
                          Append(@, [kind |-> "completed", user |-> arg[p].user])]
        BY <3>3 DEF FinishNotify, Dispatch, WillTell
      <4> DEFINE n == [kind |-> "completed", user |-> arg[p].user]
      <4>2. notices'[s] = Append(notices[s], n)
        BY <1>1, <4>1
      <4>3. notices[s] \in Seq(Notice)
        BY <1>1
      <4> HIDE DEF n
      <4>4. Append(notices[s], n) # <<>>
        BY <4>3
      <4> QED
        BY <4>2, <4>4
    <3> QED
      BY <3>1, <3>2, <3>3
  <2> QED
    BY <2>1, <2>2
<1>3. CASE Outside
  BY <1>3, OutsideStep DEF WillTell
<1>4. CASE Crash \/ \E q \in Proc : DatabaseError(q)
  <2>1. faults' = faults + 1 /\ faults \in Nat
    BY <1>4 DEF Crash, DatabaseError, TypeOK
  <2> QED
    BY <2>1
<1> QED
  BY <1>2, <1>3, <1>4, NextCases

\* The machine of a handler that reports is the one of the session.
ReportsOwn ==
    \A p \in Proc : pc[p] \in {"finish_machine", "finish_notify"} =>
        /\ arg[p].target \in DOMAIN usage
        /\ usage[arg[p].target].machine = arg[p].machine

\* No step changes the machine of a session or of a handler that reports it.
LEMMA ReportsOwnStep ==
    ASSUME LockInv, NoticeInv, ReportsOwn, [Next]_vars
    PROVE  ReportsOwn'
<1> USE DEF LockInv
<1>1. ASSUME NEW s \in DOMAIN usage
      PROVE  s \in DOMAIN usage' /\ usage'[s].machine = usage[s].machine
  BY TableStep, RowsStay, WritersStayOnTheirMachine DEF Relinks
<1>2. CASE UNCHANGED notices /\ ReportersKept
  <2>1. ASSUME NEW q \in Proc, pc'[q] \in {"finish_machine", "finish_notify"}
        PROVE  pc[q] \in {"finish_machine", "finish_notify"} /\ arg'[q] = arg[q]
    BY <1>2, <2>1 DEF ReportersKept, ReportPC
  <2> QED
    BY <1>1, <2>1 DEF ReportsOwn
<1>3. ASSUME NEW p \in Proc, Frame(p),
             \/ FinishUpdate(p) \/ ConfirmWrite(p)
             \/ FinishNotify(p) \/ ConfirmNotify(p)
      PROVE  ReportsOwn'
  <2>1. ASSUME pc'[p] \in {"finish_machine", "finish_notify"}
        PROVE  /\ arg'[p].target \in DOMAIN usage
               /\ usage[arg'[p].target].machine = arg'[p].machine
    <3>1. FinishUpdate(p)
      BY <1>3, <2>1
      DEF ConfirmWrite, FinishNotify, ConfirmNotify, Goto, End, Return, Leave,
          TypeOK, HandlerTypeOK
    <3>2. PICK s \in OpenUsages(arg[p].machine) :
            arg' = [arg EXCEPT ![p] = Args(@.machine, Recipient(s), NoGender, s, 0)]
      BY <2>1, <3>1 DEF FinishUpdate, End, Leave, TypeOK, HandlerTypeOK
    <3>3. arg'[p].target = s /\ arg'[p].machine = arg[p].machine
      BY <3>2 DEF Args, TypeOK, HandlerTypeOK
    <3> QED
      BY <3>3 DEF OpenUsages
  <2>2. ASSUME NEW q \in Proc, pc'[q] \in {"finish_machine", "finish_notify"}
        PROVE  /\ arg'[q].target \in DOMAIN usage
               /\ usage[arg'[q].target].machine = arg'[q].machine
    BY <1>3, <2>1, <2>2 DEF Frame, ReportsOwn
  <2> QED
    BY <1>1, <2>2 DEF ReportsOwn
<1> QED
  BY <1>2, <1>3, ReportStep

\* A close makes its handler the one to tell the user, when the user wants it.
LEMMA CloseTells ==
    ASSUME LockInv, [Next]_vars, NEW s \in DOMAIN usage', ~ IsOpen(s)',
           usage'[s].notify, usage'[s].user # NoUser,
           ~ (s \in DOMAIN usage /\ ~ IsOpen(s))
    PROVE  \E p \in Proc : WillTell(p, s)'
<1> USE DEF LockInv
<1>1. CASE UNCHANGED usage \/ Relinks
  BY <1>1 DEF Relinks, IsOpen
<1>2. ASSUME NEW p \in Proc, StartCreate(p)
      PROVE  FALSE
  BY <1>2 DEF StartCreate, IsOpen
<1>3. ASSUME NEW p \in Proc, ConfirmWrite(p)
      PROVE  FALSE
  <2>1. arg[p].target \in DOMAIN usage /\ usage[arg[p].target] \in UsageRow
    BY <1>3
    DEF ConfirmWrite, ConfirmHolds, OpenUsages, TypeOK, UsageTypeOK
  <2> HIDE DEF LockInv
  <2>2. \/ s \in DOMAIN usage /\ usage'[s] = usage[s]
        \/ usage'[s].endedAt = NotEnded
        \/ /\ s = arg[p].target
           /\ usage'[s] = [usage[s] EXCEPT !.endedAt = usage[s].startedAt,
                                           !.notify = FALSE]
    <3>1. PICK n \in Usage \ DOMAIN usage :
            /\ DOMAIN usage' = DOMAIN usage \cup {n}
            /\ usage'[n].endedAt = NotEnded
            /\ \A t \in DOMAIN usage \ {arg[p].target} : usage'[t] = usage[t]
            /\ usage'[arg[p].target] =
                 [usage[arg[p].target] EXCEPT
                    !.endedAt = usage[arg[p].target].startedAt,
                    !.notify = FALSE]
      BY <1>3, <2>1 DEF ConfirmWrite
    <3> QED
      BY <3>1
  <2>3. CASE s = arg[p].target
             /\ usage'[s] = [usage[s] EXCEPT !.endedAt = usage[s].startedAt,
                                             !.notify = FALSE]
    BY <2>1, <2>3 DEF UsageRow
  <2> QED
    BY <2>2, <2>3 DEF IsOpen
<1>4. ASSUME NEW p \in Proc, FinishUpdate(p)
      PROVE  WillTell(p, s)'
  <2>1. s \in DOMAIN usage
    BY <1>4 DEF FinishUpdate, Close
  <2>2. s \in OpenUsages(arg[p].machine)
    BY <1>4, <2>1 DEF FinishUpdate, Close, IsOpen
  <2>3. OpenUsages(arg[p].machine) = {s} /\ usage[s] \in UsageRow
    BY <2>1, <2>2 DEF OpenUsages, OneOpenSession, TypeOK, UsageTypeOK
  <2>4. usage'[s] = [usage[s] EXCEPT !.endedAt = clock]
    BY <1>4, <2>1, <2>2 DEF FinishUpdate, Close
  <2>5. usage'[s].user = usage[s].user /\ usage'[s].notify = usage[s].notify
    BY <2>3, <2>4 DEF UsageRow
  <2>6. /\ arg' = [arg EXCEPT ![p] = Args(@.machine, Recipient(s), NoGender, s, 0)]
        /\ pc' = [pc EXCEPT ![p] = "finish_machine"]
    BY <1>4, <2>3 DEF FinishUpdate, Goto
  <2>7. /\ arg'[p].target = s
        /\ arg'[p].user = Recipient(s)
        /\ pc'[p] = "finish_machine"
    BY <2>6 DEF Args, TypeOK, HandlerTypeOK
  <2> QED
    BY <2>5, <2>7 DEF WillTell, Recipient
<1> QED
  BY <1>1, <1>2, <1>3, <1>4, TableStep

\* Without faults no completion is lost between the commit that closes a session
\* and its notice: this is the safety half of CompletionReported.
THEOREM CompletionOwedHolds == Spec => []CompletionOwed
<1> DEFINE Inv == ReportsOwn /\ CompletionOwed
<1>1. Init => Inv
  BY DEF Init, ReportsOwn, CompletionOwed
<1>2. LockInv /\ NoticeInv /\ Inv /\ [Next]_vars => Inv'
  <2> SUFFICES ASSUME LockInv, NoticeInv, Inv, [Next]_vars
               PROVE  Inv'
    OBVIOUS
  <2>1. ASSUME faults' = 0, NEW s \in DOMAIN usage', ~ IsOpen(s)',
               usage'[s].notify, usage'[s].user # NoUser
        PROVE  \/ notices'[s] # <<>>
               \/ usage'[s].machine \in deleted'
               \/ \E p \in Proc : WillTell(p, s)'
    <3>1. CASE s \in DOMAIN usage /\ ~ IsOpen(s)
      <4>1. usage'[s] = usage[s] /\ s \in Usage
        BY <3>1, HistoryStep DEF HistoryKept, LockInv, TypeOK, UsageTypeOK
      <4>2. \/ notices[s] # <<>>
            \/ usage[s].machine \in deleted
            \/ \E p \in Proc : WillTell(p, s)
        BY <2>1, <3>1, <4>1, DoneStays DEF CompletionOwed
      <4>3. ASSUME NEW p \in Proc, WillTell(p, s)
            PROVE  \/ notices'[s] # <<>>
                   \/ usage'[s].machine \in deleted'
                   \/ WillTell(p, s)'
        <5>1. arg[p].machine = usage[s].machine
          BY <4>3 DEF WillTell, ReportsOwn
        <5> QED
          BY <2>1, <3>1, <4>1, <4>3, <5>1, TellerStep
      <4> QED
        BY <4>1, <4>2, <4>3, DoneStays
    <3>2. CASE ~ (s \in DOMAIN usage /\ ~ IsOpen(s))
      BY <2>1, <3>2, CloseTells
    <3> QED
      BY <3>1, <3>2
  <2>2. CompletionOwed'
    BY <2>1 DEF CompletionOwed
  <2> QED
    BY <2>2, ReportsOwnStep
<1>3. Inv => CompletionOwed
  OBVIOUS
<1> HIDE DEF Inv
<1> QED
  BY <1>1, <1>2, <1>3, LockInvHolds, NoticeInvHolds, PTL DEF Spec
=============================================================================
