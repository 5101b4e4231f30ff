-------------------------- MODULE OccupancyProofs --------------------------
(***************************************************************************)
(* UsageSession implements Occupancy: every step of the handlers, seen      *)
(* through Holder, is one step of Occupancy or none.                        *)
(***************************************************************************)
EXTENDS UsageSessionProofs

\* Only a deletion changes the set of deleted machines, and it leaves the table
\* alone.
LEMMA DeletedStep ==
    ASSUME [Next]_vars
    PROVE  \/ UNCHANGED deleted
           \/ \E m \in Machine : DeleteMachine(m)
<1>1. ASSUME NEW p \in Proc, Step(p)
      PROVE  UNCHANGED deleted
  BY <1>1
  DEF Step, OwnWait, Start, Finish, Register, Confirm, InsertFails, StartLock, StartFind,
      StartCreate, FinishLock, FinishUpdate, FinishMachine, FinishNotify,
      RegisterDetail, RegisterUpdate, RegisterWait, RegisterDiagnose,
      ConfirmDetail, ConfirmLock, ConfirmUsageLock, ConfirmFind, ConfirmWrite,
      ConfirmNotify, LockMachine, MachineGone, MachineDetail
<1>2. ASSUME NEW p \in Proc, NewRequest(p) \/ DatabaseError(p)
      PROVE  UNCHANGED deleted
  BY <1>2
  DEF NewRequest, StartBegin, FinishBegin, RegisterBegin, ConfirmBegin, OwnBegin,
      Begin, DatabaseError
<1> QED
  BY <1>1, <1>2
  DEF Next, DisableMachineNotification, UnlinkUserFromMachine, Tick, Crash, vars

\* Who holds a machine with exactly one open session.
LEMMA OneHolder ==
    ASSUME NEW S, NEW s, S = {s}
    PROVE  (CHOOSE t \in S : TRUE) = s
  OBVIOUS

\* The holder of a machine whose open rows keep their users is the same.
LEMMA HolderKept ==
    ASSUME NEW m \in Machine, OpenUsages(m)' = OpenUsages(m),
           \A s \in OpenUsages(m) : usage'[s].user = usage[s].user
    PROVE  Holder'[m] = Holder[m]
<1>1. CASE OpenUsages(m) = {}
  BY <1>1 DEF Holder
<1>2. CASE OpenUsages(m) # {}
  <2>1. (CHOOSE t \in OpenUsages(m) : TRUE) \in OpenUsages(m)
    BY <1>2
  <2> QED
    BY <1>2, <2>1 DEF Holder
<1> QED
  BY <1>1, <1>2

\* A new value for one machine.
LEMMA HolderAt ==
    ASSUME NEW m \in Machine, NEW h,
           Holder'[m] = h,
           \A k \in Machine \ {m} : Holder'[k] = Holder[k]
    PROVE  Holder' = [Holder EXCEPT ![m] = h]
<1>1. Holder = [k \in Machine |-> Holder[k]]
  BY DEF Holder
<1>2. Holder' = [k \in Machine |-> Holder'[k]]
  BY DEF Holder
<1> QED
  BY <1>1, <1>2

\* The open sessions of a machine after a step of a writer on another one.
LEMMA HolderElsewhere ==
    ASSUME LockInv, [Next]_vars, NEW p \in Proc,
           StartCreate(p) \/ FinishUpdate(p) \/ ConfirmWrite(p),
           NEW k \in Machine \ {arg[p].machine}
    PROVE  Holder'[k] = Holder[k]
<1> USE DEF LockInv
<1>1. DOMAIN usage \subseteq DOMAIN usage'
  BY RowsStay
<1>2. OpenUsages(k)' = OpenUsages(k)
  BY <1>1, WritersStayOnTheirMachine DEF OpenUsages, IsOpen
<1>3. \A s \in OpenUsages(k) : usage'[s].user = usage[s].user
  BY WritersStayOnTheirMachine DEF OpenUsages
<1> QED
  BY <1>2, <1>3, HolderKept

\* At most one open session, as a set.
LEMMA OpenSingle ==
    ASSUME LockInv, NEW m \in Machine, NEW s \in OpenUsages(m)
    PROVE  OpenUsages(m) = {s} /\ Holder[m] = usage[s].user
<1>1. OpenUsages(m) = {s}
  BY DEF LockInv, OneOpenSession, OpenUsages
<1> QED
  BY <1>1, OneHolder DEF Holder

\* createUsingMachine starts a free machine.
LEMMA CreateStarts ==
    ASSUME LockInv, [Next]_vars, NEW p \in Proc, StartCreate(p)
    PROVE  Promise!Start(arg[p].machine) \/ UNCHANGED <<Holder, deleted>>
<1>0. PICK m \in Machine : m = arg[p].machine
  BY DEF StartCreate, LockInv, TypeOK, HandlerTypeOK, HasArgs
<1>1. m \notin deleted /\ OpenUsages(m) = {}
  BY <1>0
  DEF StartCreate, LockInv, StartClear, LockedNotDeleted, MachineLockPC
<1>2. Holder[m] = Free
  BY <1>1 DEF Holder
<1>3. PICK n \in Usage \ DOMAIN usage :
        /\ DOMAIN usage' = DOMAIN usage \cup {n}
        /\ usage'[n].machine = m
        /\ usage'[n].user = NoUser
        /\ usage'[n].endedAt = NotEnded
        /\ \A s \in DOMAIN usage : usage'[s] = usage[s]
  BY <1>0 DEF StartCreate
<1>4. OpenUsages(m)' = {n}
  BY <1>1, <1>3 DEF OpenUsages, IsOpen
<1>5. Holder'[m] = NoUser
  BY <1>1, <1>3, <1>4, OneHolder DEF Holder
<1>6. Holder' = [Holder EXCEPT ![m] = NoUser]
  BY <1>0, <1>5, HolderElsewhere, HolderAt
<1>7. UNCHANGED deleted
  BY DEF StartCreate
<1> QED
  BY <1>0, <1>1, <1>2, <1>6, <1>7 DEF Promise!Start

\* finishUsingMachine frees an occupied machine, or finds it free.
LEMMA UpdateFinishes ==
    ASSUME LockInv, [Next]_vars, NEW p \in Proc, FinishUpdate(p)
    PROVE  Promise!Finish(arg[p].machine) \/ UNCHANGED <<Holder, deleted>>
<1>0. PICK m \in Machine : m = arg[p].machine
  BY DEF FinishUpdate, LockInv, TypeOK, HandlerTypeOK, HasArgs
<1>1. m \notin deleted /\ UNCHANGED deleted
  BY <1>0 DEF FinishUpdate, LockInv, LockedNotDeleted, MachineLockPC
<1>2. DOMAIN usage' = DOMAIN usage
  BY DEF FinishUpdate, Close
<1>3. ASSUME NEW s \in DOMAIN usage, usage'[s].machine = m, IsOpen(s)'
      PROVE  FALSE
  <2>1. usage[s].machine = m /\ IsOpen(s)
    BY <1>0, <1>3, WritersStayOnTheirMachine DEF LockInv, IsOpen
  <2>2. s \in OpenUsages(m) /\ usage[s] \in UsageRow
    BY <2>1 DEF OpenUsages, LockInv, TypeOK, UsageTypeOK
  <2>3. usage'[s] = [usage[s] EXCEPT !.endedAt = clock]
    BY <1>0, <2>2 DEF FinishUpdate, Close
  <2>4. usage'[s].endedAt = clock
    BY <2>2, <2>3 DEF UsageRow
  <2> QED
    BY <1>3, <2>4 DEF IsOpen, NotEnded, LockInv, TypeOK
<1>4. OpenUsages(m)' = {}
  BY <1>2, <1>3 DEF OpenUsages
<1>5. Holder'[m] = Free
  BY <1>1, <1>4 DEF Holder
<1>6. Holder' = [Holder EXCEPT ![m] = Free]
  BY <1>0, <1>5, HolderElsewhere, HolderAt
<1>7. CASE Holder[m] = Free
  BY <1>1, <1>6, <1>7 DEF Holder
<1> QED
  BY <1>0, <1>1, <1>6, <1>7 DEF Promise!Finish

\* confirmCompletedAndRegister hands the machine over.
LEMMA ConfirmTakesOver ==
    ASSUME LockInv, [Next]_vars, NEW p \in Proc, ConfirmWrite(p)
    PROVE  /\ arg[p].user \in User
           /\ Promise!Takeover(arg[p].machine, arg[p].user)
<1>0. PICK m \in Machine, u \in User, old \in Usage :
        m = arg[p].machine /\ u = arg[p].user /\ old = arg[p].target
  BY DEF ConfirmWrite, LockInv, TypeOK, HandlerTypeOK, HasArgs, UserPC, TargetPC,
         ConfirmPC
<1>1. m \notin deleted /\ UNCHANGED deleted
  BY <1>0 DEF ConfirmWrite, LockInv, LockedNotDeleted, MachineLockPC
<1>2. old \in OpenUsages(m) /\ usage[old].user \notin {NoUser, u}
  BY <1>0 DEF ConfirmWrite, LockInv, ConfirmHolds, Replaceable
<1>3. old \in DOMAIN usage /\ usage[old] \in UsageRow
  BY <1>2 DEF OpenUsages, LockInv, TypeOK, UsageTypeOK
<1>4. OpenUsages(m) = {old} /\ Holder[m] = usage[old].user
  BY <1>1, <1>2, OpenSingle
<1>5. Holder[m] \in User \ {u}
  BY <1>2, <1>3, <1>4 DEF UsageRow
<1>6. PICK n \in Usage \ DOMAIN usage :
        /\ DOMAIN usage' = DOMAIN usage \cup {n}
        /\ usage'[n].machine = m
        /\ usage'[n].user = u
        /\ usage'[n].endedAt = NotEnded
        /\ \A s \in DOMAIN usage : s # old => usage'[s] = usage[s]
        /\ usage'[old] = [usage[old] EXCEPT !.endedAt = usage[old].startedAt,
                                            !.notify = FALSE]
  BY <1>0, <1>3 DEF ConfirmWrite
<1>7. usage'[old].endedAt # NotEnded
  BY <1>3, <1>6 DEF UsageRow, NotEnded
<1>8. OpenUsages(m)' = {n}
  <2>1. ASSUME NEW s \in DOMAIN usage, s # old
        PROVE  s \notin OpenUsages(m)'
    BY <1>4, <1>6, <2>1 DEF OpenUsages, IsOpen
  <2>2. n \in OpenUsages(m)' /\ old \notin OpenUsages(m)'
    BY <1>6, <1>7 DEF OpenUsages, IsOpen
  <2>3. OpenUsages(m)' \subseteq DOMAIN usage'
    BY DEF OpenUsages
  <2> QED
    BY <1>6, <2>1, <2>2, <2>3
<1>9. Holder'[m] = u
  BY <1>1, <1>6, <1>8, OneHolder DEF Holder
<1>10. Holder' = [Holder EXCEPT ![m] = u]
  BY <1>0, <1>9, HolderElsewhere, HolderAt
<1> QED
  BY <1>0, <1>1, <1>5, <1>10 DEF Promise!Takeover

\* A registration, a switched-off notification or an unlink.
LEMMA RelinkMoves ==
    ASSUME LockInv, [Next]_vars, Relinks, UNCHANGED deleted
    PROVE  \/ UNCHANGED <<Holder, deleted>>
           \/ \E m \in Machine, u \in User :
                Promise!Register(m, u) \/ Promise!Unlink(m, u)
<1> USE DEF LockInv
<1>1. ASSUME NEW k \in Machine
      PROVE  OpenUsages(k)' = OpenUsages(k)
  BY DEF Relinks, OpenUsages, IsOpen
<1>2. PICK m \in Machine : \A s \in DOMAIN usage :
        usage[s].machine # m => usage'[s] = usage[s]
  BY DEF Relinks
<1>3. ASSUME NEW k \in Machine \ {m}
      PROVE  Holder'[k] = Holder[k]
  <2>1. \A s \in OpenUsages(k) : usage'[s].user = usage[s].user
    BY <1>2 DEF OpenUsages
  <2> QED
    BY <1>1, <2>1, HolderKept
<1>4. CASE Holder'[m] = Holder[m]
  <2>1. Holder' = Holder
    BY <1>3, <1>4 DEF Holder
  <2> QED
    BY <2>1
<1>5. CASE Holder'[m] # Holder[m]
  <2>1. PICK s \in OpenUsages(m) : usage'[s].user # usage[s].user
    BY <1>1, <1>5, HolderKept
  <2>2. /\ OpenUsages(m) = {s} /\ Holder[m] = usage[s].user
        /\ OpenUsages(m)' = {s}
    BY <1>1, OpenSingle
  <2>3. Holder'[m] = usage'[s].user
    BY <2>2, OneHolder DEF Holder
  <2>4. Holder' = [Holder EXCEPT ![m] = usage'[s].user]
    BY <1>3, <2>3, HolderAt
  <2>5. s \in DOMAIN usage /\ usage[s] \in UsageRow /\ usage[s].machine = m
    BY DEF OpenUsages, TypeOK, UsageTypeOK
  <2>6. CASE usage'[s].user = NoUser
    <3>1. usage[s].user \in User
      BY <2>1, <2>5, <2>6 DEF UsageRow
    <3>2. Promise!Unlink(m, usage[s].user)
      BY <2>2, <2>4, <2>6 DEF Promise!Unlink
    <3> QED
      BY <3>1, <3>2
  <2>7. CASE usage'[s].user # NoUser
    <3>1. PICK p \in Proc :
            /\ pc[p] \in {"register_update", "register_wait"}
            /\ usage'[s].user = arg[p].user
            /\ usage[s].user = NoUser
      BY <2>1, <2>5, <2>7 DEF Relinks
    <3>2. arg[p].user \in User
      BY <3>1 DEF TypeOK, HandlerTypeOK, HasArgs, UserPC, RegisterPC
    <3>3. Promise!Register(m, arg[p].user)
      BY <2>2, <2>4, <3>1 DEF Promise!Register
    <3> QED
      BY <3>2, <3>3
  <2> QED
    BY <2>6, <2>7
<1> QED
  BY <1>4, <1>5

\* The transactions of UsingMachineRepository, with all that can interleave,
\* fail or crash between their statements, implement the atomic table that
\* Occupancy describes.
THEOREM OccupancyImplemented == Spec => ImplementsOccupancy
<1>1. Init => Promise!Init
  BY DEF Init, Promise!Init, Holder, OpenUsages
<1>2. LockInv /\ [Next]_vars => [Promise!Next]_<<Holder, deleted>>
  <2> SUFFICES ASSUME LockInv, [Next]_vars
               PROVE  Promise!Next \/ UNCHANGED <<Holder, deleted>>
    OBVIOUS
  <2>1. CASE UNCHANGED usage
    <3>1. Holder' = Holder
      BY <2>1 DEF Holder, OpenUsages, IsOpen
    <3>2. ASSUME NEW m \in Machine, DeleteMachine(m)
          PROVE  Promise!Delete(m)
      BY <3>1, <3>2 DEF DeleteMachine, Promise!Delete
    <3> QED
      BY <3>1, <3>2, DeletedStep DEF Promise!Next
  <2>2. CASE Relinks
    <3>1. CASE UNCHANGED deleted
      BY <2>2, <3>1, RelinkMoves DEF Promise!Next
    <3>2. CASE \E m \in Machine : DeleteMachine(m)
      BY <2>1, <3>2 DEF DeleteMachine
    <3> QED
      BY <3>1, <3>2, DeletedStep
  <2>3. ASSUME NEW p \in Proc,
               StartCreate(p) \/ FinishUpdate(p) \/ ConfirmWrite(p)
        PROVE  Promise!Next \/ UNCHANGED <<Holder, deleted>>
    <3>1. arg[p].machine \in Machine
      BY <2>3, WritersStayOnTheirMachine
      DEF LockInv, TypeOK, HandlerTypeOK, HasArgs, MachineLockPC
    <3> QED
      BY <2>3, <3>1, CreateStarts, UpdateFinishes, ConfirmTakesOver
      DEF Promise!Next
  <2> QED
    BY <2>1, <2>2, <2>3, TableStep DEF LockInv
<1> QED
  BY <1>1, <1>2, LockInvHolds, PTL DEF Spec, ImplementsOccupancy, Promise!Spec
=============================================================================
