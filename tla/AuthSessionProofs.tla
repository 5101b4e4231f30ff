-------------------------- MODULE AuthSessionProofs --------------------------
(***************************************************************************)
(* AuthSession for any students, accounts, sessions, tokens and requests:   *)
(* type correctness, consents, expiry, the audit log and the end of         *)
(* sessions.  What is known of a request is stated over the values of the   *)
(* tables, so that one lemma says why the steps of others do not disturb    *)
(* it: JobFineGrows.                                                        *)
(***************************************************************************)
EXTENDS AuthSession, FiniteSetTheorems, TLAPS

-----------------------------------------------------------------------------
(* The inductive invariant *)

IsActive(u, a) == a \in Account /\ u[a].state = "active"

\* What a request j knows of users u, consents c, tokens m and logins l.
JobFine(j, u, c, m, l) ==
    /\ j \in Job
    /\ j.pc \in LoginPC => j.student \in Student
    /\ j.pc \in {"terms", "privacy", "session"} \cup RefreshPC \cup Guarded
         => j.account \in Account
    /\ j.pc \in {"session"} \cup RefreshPC \cup Guarded => j.session \in Session
    /\ j.pc \in RefreshPC =>
         /\ j.token \in m
         /\ j.account = l[j.session].account
         /\ j.expiredAt = l[j.session].at + Lifetime
    /\ j.account \in Account => u[j.account].state # "none"
    /\ j.pc \in LoginPC \ {"policy"} => j.seen \in [Doc -> Version]
    /\ j.pc \in {"policy", "find", "terms"} => j.latest = NoVersions
    /\ j.pc = "privacy" => j.latest["PRIVACY_POLICY"] = 0
    /\ j.pc \in {"policy", "find"} => j.account = NoAccount
    /\ j.pc = "write" /\ j.account = NoAccount => j.latest = NoVersions
    /\ j.pc \in LoginPC /\ IsActive(u, j.account) =>
         \A d \in Doc : j.latest[d] = j.seen[d] =>
                            j.seen[d] \in c[j.account][d].all

\* A step may add users, tokens, logins and the consents of active users, and
\* deactivate users; it takes back nothing else that a request relies on.
Grows(u, c, m, l, u2, c2, m2, l2) ==
    /\ m \subseteq m2
    /\ \A a \in Account : u[a].state # "none" =>
         /\ u2[a].state # "none"
         /\ IsActive(u2, a) =>
              /\ IsActive(u, a)
              /\ \A d \in Doc : c[a][d].all \subseteq c2[a][d].all
    /\ \A s \in Session : l[s].account # NoAccount => l2[s] = l[s]

TableTypes ==
    /\ user \in [Account -> User]
    /\ consent \in [Account -> [Doc -> Consent]]
    /\ row \in [Token -> TokenRow]
    /\ minted \subseteq Token
    /\ login \in [Session -> Login]
    /\ audit \in [Account -> [login: Nat, deactivate: Nat]]
    /\ policy \in [Doc -> Version]
    /\ now \in 0..MaxClock

LatestIsOnFile ==
    \A a \in Account, d \in Doc :
        consent[a][d].latest # 0 => consent[a][d].latest \in consent[a][d].all

JobsFine ==
    /\ job \in [Proc -> Job]
    /\ \A p \in Proc : JobFine(job[p], user, consent, minted, login)

Inv ==
    /\ TableTypes
    /\ RowsOK
    /\ SessionExpiry
    /\ LatestIsOnFile
    /\ ConsentedSessions
    /\ JobsFine

-----------------------------------------------------------------------------
(* Requests *)

\* A request that is over is fine, whatever the tables hold.
LEMMA NoJobFine ==
    ASSUME NEW u, NEW c, NEW m, NEW l
    PROVE  JobFine(NoJob, u, c, m, l)
<1>1. NoJob \in Job
  BY BoundAssumption DEF NoJob, Job, PC, Guarded, Versions, NoVersions, Time
<1>2. NoJob.pc = "idle" /\ NoJob.account = NoAccount
  BY DEF NoJob
<1>. QED
  BY <1>1, <1>2, NullsAssumption DEF JobFine, LoginPC, RefreshPC, Guarded

\* What a request knows stays true while the tables grow.
LEMMA JobFineGrows ==
    ASSUME NEW u, NEW c, NEW m, NEW l, NEW u2, NEW c2, NEW m2, NEW l2,
           Grows(u, c, m, l, u2, c2, m2, l2), NEW j, JobFine(j, u, c, m, l)
    PROVE  JobFine(j, u2, c2, m2, l2)
<1>1. j.pc \in RefreshPC =>
        /\ j.token \in m2
        /\ j.account = l2[j.session].account
        /\ j.expiredAt = l2[j.session].at + Lifetime
  BY NullsAssumption DEF JobFine, Grows
<1>2. j.account \in Account => u2[j.account].state # "none"
  BY DEF JobFine, Grows
<1>3. j.pc \in LoginPC /\ IsActive(u2, j.account) =>
         \A d \in Doc : j.latest[d] = j.seen[d] =>
                            j.seen[d] \in c2[j.account][d].all
  BY DEF JobFine, Grows, IsActive
<1>. QED
  BY <1>1, <1>2, <1>3 DEF JobFine

\* Replacing one request by a fine one, while the tables grow, keeps all fine.
LEMMA JobsFineStep ==
    ASSUME JobsFine, NEW p \in Proc, NEW j,
           JobFine(j, user', consent', minted', login'),
           job' = [job EXCEPT ![p] = j],
           Grows(user, consent, minted, login, user', consent', minted', login')
    PROVE  JobsFine'
<1>1. job' \in [Proc -> Job]
  BY DEF JobsFine, JobFine
<1>2. ASSUME NEW q \in Proc
      PROVE  JobFine(job'[q], user', consent', minted', login')
  <2>1. CASE q = p
    BY <2>1 DEF JobsFine
  <2>2. CASE q # p
    <3>1. job'[q] = job[q]
      BY <2>2 DEF JobsFine
    <3>2. JobFine(job[q], user, consent, minted, login)
      BY DEF JobsFine
    <3>. QED
      BY <3>1, <3>2, JobFineGrows
  <2>. QED
    BY <2>1, <2>2
<1>. QED
  BY <1>1, <1>2 DEF JobsFine

\* Tables that stay as they are grow.
LEMMA GrowsSame ==
    ASSUME NEW u, NEW c, NEW m, NEW l
    PROVE  Grows(u, c, m, l, u, c, m, l)
BY DEF Grows

\* A step that changes one request only keeps the invariant.
LEMMA JobOnly ==
    ASSUME Inv, NEW p \in Proc, NEW j,
           JobFine(j, user, consent, minted, login),
           job' = [job EXCEPT ![p] = j], UNCHANGED <<tables, world>>
    PROVE  Inv'
<1>1. JobsFine'
  <2>1. user' = user /\ consent' = consent /\ minted' = minted /\ login' = login
    BY DEF tables
  <2>. QED
    BY <2>1, JobsFineStep, GrowsSame DEF Inv
<1>. QED
  BY <1>1 DEF Inv, tables, world, TableTypes, RowsOK, SessionExpiry,
              LatestIsOnFile, ConsentedSessions, Issued, Active

\* Ending a request keeps the invariant.
LEMMA EndOnly ==
    ASSUME Inv, NEW p \in Proc, End(p), UNCHANGED <<tables, world>>
    PROVE  Inv'
BY NoJobFine, JobOnly DEF End

-----------------------------------------------------------------------------
(* Steps that only read *)

\* The reads of a login keep the invariant.
LEMMA LoginReads ==
    ASSUME Inv, NEW p \in Proc
    PROVE  /\ \A s \in Student : LoginBegin(p, s) => Inv'
           /\ LoginPolicy(p) => Inv'
           /\ LoginFind(p) => Inv'
           /\ LoginTerms(p) => Inv'
           /\ LoginPrivacy(p) => Inv'
           /\ \A body \in Body : LoginRefused(p, body) => Inv'
<1>0. /\ JobFine(job[p], user, consent, minted, login)
      /\ job[p] \in Job
      /\ job \in [Proc -> Job]
  BY DEF Inv, JobsFine
<1>1. ASSUME NEW s \in Student, LoginBegin(p, s)
      PROVE  Inv'
  <2>. DEFINE j == [NoJob EXCEPT !.pc = "policy", !.student = s]
  <2>1. JobFine(j, user, consent, minted, login)
    <3>1. j \in Job /\ j.account = NoAccount /\ j.latest = NoVersions
      BY NoJobFine DEF JobFine, NoJob, Job, PC, LoginPC
    <3>. QED
      BY <3>1, NullsAssumption
      DEF JobFine, Job, LoginPC, RefreshPC, Guarded, IsActive, NoJob
  <2>. QED
    BY <1>1, <2>1, JobOnly DEF LoginBegin, Begin
<1>2. CASE LoginPolicy(p)
  <2>. DEFINE j == [job[p] EXCEPT !.pc = "find", !.seen = policy]
  <2>1. JobFine(j, user, consent, minted, login)
    <3>1. policy \in [Doc -> Version] /\ policy \in Versions
      BY DEF Inv, TableTypes, Versions, Version
    <3>2. j \in Job /\ job[p].pc = "policy"
      BY <1>0, <1>2, <3>1 DEF LoginPolicy, Job, PC, LoginPC
    <3>3. /\ j.pc = "find" /\ j.seen = policy
          /\ j.student = job[p].student /\ j.account = job[p].account
          /\ j.latest = job[p].latest
      BY <1>0 DEF Job
    <3>4. /\ j.student \in Student /\ j.latest = NoVersions
          /\ j.account = NoAccount /\ NoAccount \notin Account
      BY <1>0, <3>2, <3>3, NullsAssumption DEF JobFine, LoginPC
    <3>. HIDE DEF j
    <3>. QED
      BY <3>1, <3>2, <3>3, <3>4 DEF JobFine, RefreshPC, Guarded, IsActive
  <2>. QED
    BY <1>0, <1>2, <2>1, JobOnly DEF LoginPolicy, Job
<1>3. CASE LoginFind(p)
  <2>0. job[p].pc = "find"
    BY <1>3 DEF LoginFind
  <2>1. CASE Goto(p, "write")
    <3>. DEFINE j == [job[p] EXCEPT !.pc = "write"]
    <3>1. JobFine(j, user, consent, minted, login)
      <4>1. j \in Job
        BY <1>0 DEF Job, PC, LoginPC
      <4>. QED
        BY <1>0, <2>0, <4>1, NullsAssumption
        DEF JobFine, Job, LoginPC, RefreshPC, Guarded, IsActive
    <3>. QED
      BY <1>0, <1>3, <2>1, <3>1, JobOnly DEF LoginFind, Goto, Job
  <2>2. ASSUME NEW a \in Holders(job[p].student),
               job' = [job EXCEPT ![p].pc = "terms", ![p].account = a]
        PROVE  Inv'
    <3>. DEFINE j == [job[p] EXCEPT !.pc = "terms", !.account = a]
    <3>1. JobFine(j, user, consent, minted, login)
      <4>1. a \in Account /\ user[a].state # "none"
        BY DEF Holders
      <4>2. j \in Job
        BY <1>0, <4>1 DEF Job, PC, LoginPC
      <4>3. \A d \in Doc : j.latest[d] # j.seen[d]
        BY <1>0, <2>0, BoundAssumption
        DEF JobFine, Job, LoginPC, NoVersions, Version
      <4>. QED
        BY <1>0, <2>0, <4>1, <4>2, <4>3
        DEF JobFine, Job, LoginPC, RefreshPC, Guarded
    <3>2. job' = [job EXCEPT ![p] = j]
      BY <1>0, <2>2 DEF Job
    <3>3. UNCHANGED <<tables, world>>
      BY <1>3 DEF LoginFind
    <3>. HIDE DEF j
    <3>. QED
      BY <3>1, <3>2, <3>3, JobOnly
  <2>. QED
    BY <1>3, <2>1, <2>2 DEF LoginFind
<1>4. ASSUME NEW d \in Doc, NEW next \in {"privacy", "write"},
             job[p].pc = IF next = "privacy" THEN "terms" ELSE "privacy",
             d = IF next = "privacy" THEN "TERMS_OF_SERVICE"
                                     ELSE "PRIVACY_POLICY",
             LoginConsent(p, job[p].pc, d, next)
      PROVE  Inv'
  <2>. DEFINE a == job[p].account
              latest == [job[p].latest EXCEPT ![d] = consent[a][d].latest]
              j == [job[p] EXCEPT !.pc = next, !.latest = latest]
  <2>1. a \in Account /\ consent[a][d] \in Consent
    BY <1>0, <1>4 DEF JobFine, Inv, TableTypes
  <2>2. latest \in Versions /\ \A e \in Doc \ {d} : latest[e] = job[p].latest[e]
    BY <1>0, <2>1 DEF Job, Versions, Consent
  <2>3. latest[d] = consent[a][d].latest
    BY <1>0, <2>1 DEF Job, Versions
  <2>4. j \in Job
    <3>. HIDE DEF latest
    <3>. QED
      BY <1>0, <2>2 DEF Job, PC, LoginPC
  <2>5. next = "privacy" => latest["PRIVACY_POLICY"] = 0
    BY <1>0, <1>4, <2>2 DEF JobFine, NoVersions, Doc
  <2>6. ASSUME IsActive(user, a), NEW e \in Doc, latest[e] = job[p].seen[e]
        PROVE  job[p].seen[e] \in consent[a][e].all
    <3>1. job[p].seen[e] # 0
      BY <1>0, <1>4, BoundAssumption DEF JobFine, LoginPC, Version
    <3>2. CASE e = d
      BY <2>1, <2>3, <2>6, <3>1, <3>2 DEF Inv, LatestIsOnFile
    <3>3. CASE e # d
      BY <1>0, <1>4, <2>2, <2>6, <3>3 DEF JobFine, LoginPC
    <3>. QED
      BY <3>2, <3>3
  <2>7. JobFine(j, user, consent, minted, login)
    <3>. HIDE DEF latest
    <3>1. j.pc = next /\ j.latest = latest /\ j.seen = job[p].seen
            /\ j.account = a /\ j.student = job[p].student
      BY <1>0 DEF Job
    <3>. HIDE DEF j
    <3>. QED
      BY <1>0, <1>4, <2>1, <2>4, <2>5, <2>6, <3>1, NullsAssumption
      DEF JobFine, LoginPC, RefreshPC, Guarded
  <2>8. job' = [job EXCEPT ![p] = j]
    BY <1>0, <1>4 DEF LoginConsent, Job
  <2>. QED
    BY <1>4, <2>7, <2>8, JobOnly DEF LoginConsent
<1>5. CASE LoginTerms(p)
  BY <1>4, <1>5 DEF LoginTerms, LoginConsent, Doc
<1>6. CASE LoginPrivacy(p)
  BY <1>4, <1>6 DEF LoginPrivacy, LoginConsent, Doc
<1>7. ASSUME NEW body \in Body, LoginRefused(p, body)
      PROVE  Inv'
  BY <1>7, EndOnly DEF LoginRefused
<1>. QED
  BY <1>1, <1>2, <1>3, <1>5, <1>6, <1>7

\* The read of a refresh keeps the invariant: what it has read is SessionExpiry.
LEMMA RefreshReads ==
    ASSUME Inv, NEW p \in Proc, NEW t \in Token, RefreshFind(p, t)
    PROVE  Inv'
<1>. DEFINE j == [NoJob EXCEPT !.pc = "rotate", !.token = t,
                               !.account = row[t].account,
                               !.session = row[t].session,
                               !.expiredAt = row[t].expiredAt]
<1>1. /\ row[t] \in TokenRow /\ t \in minted
      /\ row[t].session \in Session
      /\ row[t].account \in Account
      /\ user[row[t].account].state # "none"
      /\ row[t].account = login[row[t].session].account
      /\ row[t].expiredAt = login[row[t].session].at + Lifetime
  BY DEF RefreshFind, Inv, TableTypes, RowsOK, SessionExpiry
<1>2. j \in Job
  <2>1. NoJob \in Job
    BY NoJobFine DEF JobFine
  <2>. QED
    BY <1>1, <2>1 DEF TokenRow, Job, PC, RefreshPC
<1>3. JobFine(j, user, consent, minted, login)
  BY <1>1, <1>2 DEF JobFine, NoJob, LoginPC, RefreshPC, Guarded
<1>. QED
  BY <1>3, JobOnly DEF RefreshFind, Begin

\* The guard keeps the invariant.
LEMMA GuardReads ==
    ASSUME Inv, NEW p \in Proc
    PROVE  /\ \A s \in Session, op \in Guarded : GuardUser(p, s, op) => Inv'
           /\ GuardSession(p) => Inv'
<1>0. /\ JobFine(job[p], user, consent, minted, login)
      /\ job[p] \in Job
      /\ job \in [Proc -> Job]
  BY DEF Inv, JobsFine
<1>1. ASSUME NEW s \in Session, NEW op \in Guarded, GuardUser(p, s, op)
      PROVE  Inv'
  <2>. DEFINE a == login[s].account
              j == [NoJob EXCEPT !.pc = "session", !.account = a,
                                 !.session = s, !.op = op]
  <2>1. a \in Account /\ user[a].state # "none"
    BY <1>1 DEF GuardUser, Active
  <2>2. NoJob \in Job
    BY NoJobFine DEF JobFine
  <2>3. j \in Job
    BY <2>1, <2>2 DEF Job, PC
  <2>4. JobFine(j, user, consent, minted, login)
    BY <2>1, <2>3 DEF JobFine, NoJob, LoginPC, RefreshPC, Guarded
  <2>. QED
    BY <1>1, <2>4, JobOnly DEF GuardUser, Begin
<1>2. CASE GuardSession(p)
  <2>1. CASE End(p)
    BY <1>2, <2>1, EndOnly DEF GuardSession
  <2>2. CASE Goto(p, job[p].op)
    <3>. DEFINE j == [job[p] EXCEPT !.pc = job[p].op]
    <3>1. job[p].op \in Guarded /\ job[p].pc = "session"
      BY <1>0, <1>2 DEF GuardSession, Job
    <3>2. j \in Job
      BY <1>0, <3>1 DEF Job, PC
    <3>3. JobFine(j, user, consent, minted, login)
      BY <1>0, <3>1, <3>2 DEF JobFine, Job, LoginPC, RefreshPC, Guarded
    <3>. QED
      BY <1>0, <1>2, <2>2, <3>3, JobOnly DEF GuardSession, Goto, Job
  <2>. QED
    BY <1>2, <2>1, <2>2 DEF GuardSession
<1>. QED
  BY <1>1, <1>2

-----------------------------------------------------------------------------
(* Steps that write *)

\* Removing rows keeps what is known of the rows that stay.
LEMMA RowsRemoved ==
    ASSUME Inv, \A t \in Token : row'[t] = row[t] \/ row'[t] = NoRow,
           row' \in [Token -> TokenRow], minted' = minted, login' = login,
           \A a \in Account : user[a].state # "none" => user'[a].state # "none",
           \A a \in Account : user'[a].state = "none" =>
               user'[a] = user[a] /\ consent'[a] = consent[a]
    PROVE  RowsOK' /\ SessionExpiry'
<1>1. \A t \in Token : row'[t] # NoRow => row[t] # NoRow /\ row'[t] = row[t]
  OBVIOUS
<1>2. SessionExpiry'
  BY <1>1 DEF Inv, SessionExpiry
<1>3. \A s \in Session : Issued(s)' =>
          Issued(s) /\ login[s].account \in Account
  BY DEF Issued, Inv, TableTypes, Login
<1>4. RowsOK'
  BY <1>1, <1>3 DEF Inv, RowsOK, Issued
<1>. QED
  BY <1>2, <1>4

\* A missing row has its type.
LEMMA NoRowType == NoRow \in TokenRow
BY BoundAssumption DEF NoRow, TokenRow, Time

\* The delete of a refresh and that of a logout keep the invariant.
LEMMA DeleteInv ==
    ASSUME Inv, NEW p \in Proc, RefreshDelete(p) \/ Logout(p)
    PROVE  Inv'
<1>0. /\ JobFine(job[p], user, consent, minted, login)
      /\ job[p] \in Job
      /\ job \in [Proc -> Job]
      /\ TableTypes
  BY DEF Inv, JobsFine
<1>1. /\ user' = user /\ consent' = consent /\ minted' = minted
      /\ login' = login /\ audit' = audit /\ policy' = policy /\ now' = now
  BY DEF RefreshDelete, Logout, world
<1>2. /\ row' \in [Token -> TokenRow]
      /\ \A t \in Token : row'[t] = row[t] \/ row'[t] = NoRow
  BY <1>0, NoRowType DEF RefreshDelete, Logout, TableTypes
<1>3. RowsOK' /\ SessionExpiry'
  BY <1>1, <1>2, RowsRemoved
<1>4. JobsFine'
  <2>0. Grows(user, consent, minted, login, user', consent', minted', login')
    BY <1>1, GrowsSame
  <2>1. CASE Logout(p)
    <3>1. JobsFine /\ job' = [job EXCEPT ![p] = NoJob]
      BY <2>1 DEF Logout, End, Inv
    <3>. QED
      BY <2>0, <3>1, NoJobFine, JobsFineStep
  <2>2. CASE RefreshDelete(p)
    <3>. DEFINE j == [job[p] EXCEPT !.pc = "create"]
    <3>1. job[p].pc = "rotate" /\ job' = [job EXCEPT ![p] = j]
      BY <1>0, <2>2 DEF RefreshDelete, Goto, Job
    <3>2. j \in Job
      BY <1>0 DEF Job, PC, RefreshPC
    <3>3. JobFine(j, user, consent, minted, login)
      BY <1>0, <3>1, <3>2 DEF JobFine, Job, LoginPC, RefreshPC, Guarded
    <3>. HIDE DEF j
    <3>. QED
      BY <1>1, <2>0, <3>1, <3>3, JobsFineStep DEF Inv
  <2>. QED
    BY <2>1, <2>2
<1>. QED
  BY <1>0, <1>1, <1>2, <1>3, <1>4
  DEF Inv, TableTypes, LatestIsOnFile, ConsentedSessions, Issued, Active

\* A deactivation keeps the invariant.
LEMMA DeactivateInv ==
    ASSUME Inv, NEW p \in Proc, Deactivate(p)
    PROVE  Inv'
<1>. DEFINE a == job[p].account
<1>0. /\ TableTypes /\ policy' = policy /\ now' = now
      /\ minted' = minted /\ login' = login
  BY DEF Inv, Deactivate, world
<1>1. CASE ~ Active(a)
  BY <1>1, EndOnly DEF Deactivate, tables, world
<1>2. CASE Active(a)
  <2>1. a \in Account /\ user[a].state = "active" /\ Deactivated(a) /\ End(p)
    BY <1>2 DEF Active, Deactivate
  <2>2. /\ user' \in [Account -> User]
        /\ consent' \in [Account -> [Doc -> Consent]]
        /\ row' \in [Token -> TokenRow]
        /\ audit' \in [Account -> [login: Nat, deactivate: Nat]]
    <3>1. [state |-> "deleted", number |-> NoStudent] \in User
      BY DEF User
    <3>2. NoConsent \in Consent
      BY BoundAssumption DEF NoConsent, Consent
    <3>3. user' \in [Account -> User]
      BY <1>0, <2>1, <3>1 DEF Deactivated, TableTypes
    <3>4. consent' \in [Account -> [Doc -> Consent]]
      BY <1>0, <2>1, <3>2 DEF Deactivated, TableTypes
    <3>5. row' \in [Token -> TokenRow]
      BY <1>0, <2>1, NoRowType DEF Deactivated, TableTypes
    <3>6. audit' \in [Account -> [login: Nat, deactivate: Nat]]
      BY <1>0, <2>1 DEF Deactivated, TableTypes
    <3>. QED
      BY <3>3, <3>4, <3>5, <3>6
  <2>3. /\ user'[a].state = "deleted"
        /\ \A b \in Account \ {a} : user'[b] = user[b] /\ consent'[b] = consent[b]
        /\ \A d \in Doc : consent'[a][d] = NoConsent
        /\ \A t \in Token : row'[t] = row[t] \/ row'[t] = NoRow
    BY <1>0, <2>1 DEF Deactivated, TableTypes
  <2>4. RowsOK' /\ SessionExpiry'
    BY <1>0, <2>2, <2>3, RowsRemoved
  <2>5. LatestIsOnFile'
    BY <2>3 DEF Inv, LatestIsOnFile, NoConsent
  <2>6. ConsentedSessions'
    BY <1>0, <2>3 DEF Inv, ConsentedSessions, Issued, Active
  <2>7. Grows(user, consent, minted, login, user', consent', minted', login')
    BY <1>0, <2>3 DEF Grows, IsActive
  <2>8. JobsFine'
    BY <2>1, <2>7, NoJobFine, JobsFineStep DEF End, Inv
  <2>. QED
    BY <1>0, <2>2, <2>4, <2>5, <2>6, <2>8 DEF Inv, TableTypes
<1>. QED
  BY <1>1, <1>2

\* The insert of a refresh keeps the invariant: the request knows the user and
\* the end of its session.
LEMMA RefreshCreateInv ==
    ASSUME Inv, NEW p \in Proc, NEW t \in Token, RefreshCreate(p, t)
    PROVE  Inv'
<1>. DEFINE j == job[p]
            new == [account |-> j.account, session |-> j.session,
                    expiredAt |-> j.expiredAt]
<1>0. /\ JobFine(j, user, consent, minted, login)
      /\ j \in Job
      /\ j.pc = "create"
      /\ TableTypes
  BY DEF Inv, JobsFine, RefreshCreate
<1>1. /\ user' = user /\ consent' = consent /\ login' = login
      /\ audit' = audit /\ policy' = policy /\ now' = now /\ End(p)
      /\ row' = [row EXCEPT ![t] = new]
      /\ minted' = minted \cup {t}
  BY DEF RefreshCreate, SetUserRefreshToken, world
<1>2. /\ new \in TokenRow
      /\ new.session \in Session /\ new.account \in Account
      /\ user[new.account].state # "none"
      /\ new.account = login[new.session].account
      /\ new.expiredAt = login[new.session].at + Lifetime
  BY <1>0 DEF JobFine, Job, TokenRow, RefreshPC
<1>. HIDE DEF new
<1>3. row' \in [Token -> TokenRow] /\ minted' \subseteq Token
  BY <1>0, <1>1, <1>2 DEF TableTypes
<1>4. row'[t] = new /\ \A r \in Token \ {t} : row'[r] = row[r]
  BY <1>0, <1>1 DEF TableTypes
<1>5. SessionExpiry'
  BY <1>1, <1>2, <1>4 DEF Inv, SessionExpiry
<1>6. RowsOK'
  BY <1>1, <1>2, <1>4 DEF Inv, RowsOK, Issued
<1>7. JobsFine'
  <2>1. Grows(user, consent, minted, login, user', consent', minted', login')
    BY <1>1 DEF Grows
  <2>. QED
    BY <1>1, <2>1, NoJobFine, JobsFineStep DEF End, Inv
<1>. QED
  BY <1>0, <1>1, <1>3, <1>5, <1>6, <1>7
  DEF Inv, TableTypes, LatestIsOnFile, ConsentedSessions, Issued, Active

\* The consents a login leaves: of their type, none lost, and for a user who
\* stays or becomes active all the published versions the login has seen.
LEMMA SavedConsents ==
    ASSUME Inv, NEW p \in Proc, NEW body \in Body, NEW a \in Account,
           job[p].pc = "write", ConsentGiven(job[p], body),
           UpsertUser(job[p], a)
    PROVE  LET saved == Saved(job[p], body, a) IN
           /\ saved \in [Doc -> Consent]
           /\ \A d \in Doc :
                /\ consent[a][d].all \subseteq saved[d].all
                /\ saved[d].latest # 0 => saved[d].latest \in saved[d].all
                /\ user'[a].state = "active" => job[p].seen[d] \in saved[d].all
<1>. DEFINE j == job[p]
            saved == Saved(j, body, a)
<1>0. /\ JobFine(j, user, consent, minted, login)
      /\ TableTypes /\ LatestIsOnFile
  BY DEF Inv, JobsFine
<1>1. j.seen \in [Doc -> Version] /\ body.agree \in Versions
  BY <1>0 DEF JobFine, LoginPC, Body
<1>2. ASSUME NEW d \in Doc
      PROVE  /\ saved[d] \in Consent
             /\ consent[a][d].all \subseteq saved[d].all
             /\ saved[d].latest # 0 => saved[d].latest \in saved[d].all
             /\ user'[a].state = "active" => j.seen[d] \in saved[d].all
  <2>0. consent[a][d] \in Consent
    BY <1>0 DEF TableTypes
  <2>1. CASE d \in Needed(j)
    <3>1. saved[d] = [latest |-> j.seen[d],
                      all |-> consent[a][d].all \cup {j.seen[d]}]
      BY <2>1 DEF Saved, ConsentGiven
    <3>2. j.seen[d] \in Version
      BY <1>1
    <3>. QED
      BY <2>0, <3>1, <3>2, BoundAssumption DEF Consent, Version
  <2>2. CASE d \notin Needed(j)
    <3>1. saved[d] = consent[a][d] /\ j.latest[d] = j.seen[d]
      BY <2>2 DEF Saved, Needed
    <3>2. j.account # NoAccount
      BY <1>0, <1>1, <3>1, BoundAssumption DEF JobFine, NoVersions, Version
    <3>3. a = j.account /\ user'[a].state = user[a].state
      BY <1>0, <3>2 DEF UpsertUser, TableTypes, User
    <3>4. user'[a].state = "active" => j.seen[d] \in consent[a][d].all
      BY <1>0, <3>1, <3>3 DEF JobFine, LoginPC, IsActive
    <3>. QED
      BY <1>0, <2>0, <3>1, <3>4 DEF LatestIsOnFile
  <2>. QED
    BY <2>1, <2>2
<1>3. saved \in [Doc -> Consent]
  BY <1>2 DEF Saved
<1>. QED
  BY <1>2, <1>3

\* A login that commits keeps the invariant.
LEMMA LoginCommitInv ==
    ASSUME Inv, NEW p \in Proc, NEW body \in Body, NEW a \in Account,
           NEW s \in Session, NEW t \in Token, LoginCommit(p, body, a, s, t)
    PROVE  Inv'
<1>. DEFINE j == job[p]
            saved == Saved(j, body, a)
            new == [account |-> a, session |-> s, expiredAt |-> now + Lifetime]
            began == [account |-> a, at |-> now, seen |-> j.seen]
<1>0. /\ JobFine(j, user, consent, minted, login)
      /\ j \in Job /\ j.pc = "write"
      /\ TableTypes /\ RowsOK /\ SessionExpiry
  BY DEF Inv, JobsFine, LoginCommit
<1>1. /\ ConsentGiven(j, body) /\ UpsertUser(j, a)
      /\ ~ Issued(s) /\ End(p)
      /\ row' = [row EXCEPT ![t] = new]
      /\ minted' = minted \cup {t}
      /\ consent' = [consent EXCEPT ![a] = saved]
      /\ login' = [login EXCEPT ![s] = began]
      /\ audit' = [audit EXCEPT ![a].login = @ + 1]
      /\ policy' = policy /\ now' = now
  BY DEF LoginCommit, SetUserRefreshToken, NewSession, world
<1>2. /\ saved \in [Doc -> Consent]
      /\ \A d \in Doc :
           /\ consent[a][d].all \subseteq saved[d].all
           /\ saved[d].latest # 0 => saved[d].latest \in saved[d].all
           /\ user'[a].state = "active" => j.seen[d] \in saved[d].all
  BY <1>0, <1>1, SavedConsents
<1>3. /\ user' \in [Account -> User]
      /\ user'[a].state # "none"
      /\ user[a].state # "none" => user'[a].state = user[a].state
      /\ \A b \in Account \ {a} : user'[b] = user[b]
  <2>1. j.student \in Student
    BY <1>0 DEF JobFine, LoginPC
  <2>2. CASE j.account = NoAccount
    BY <1>0, <1>1, <2>1, <2>2 DEF UpsertUser, TableTypes, User
  <2>3. CASE j.account # NoAccount
    BY <1>0, <1>1, <2>1, <2>3 DEF UpsertUser, TableTypes, User, JobFine
  <2>. QED
    BY <2>2, <2>3
<1>4. /\ new \in TokenRow /\ new.account = a /\ new.session = s
      /\ new.expiredAt = now + Lifetime
      /\ began \in Login /\ began.account = a /\ began.at = now
      /\ began.seen = j.seen
  <2>1. now \in Time /\ now + Lifetime \in Time
    BY <1>0, BoundAssumption DEF TableTypes, Time
  <2>. QED
    BY <1>0, <2>1 DEF TokenRow, Login, Job
<1>. HIDE DEF saved, new, began
<1>5. /\ row' \in [Token -> TokenRow] /\ row'[t] = new
      /\ \A r \in Token \ {t} : row'[r] = row[r]
      /\ consent' \in [Account -> [Doc -> Consent]] /\ consent'[a] = saved
      /\ \A b \in Account \ {a} : consent'[b] = consent[b]
      /\ login' \in [Session -> Login] /\ login'[s] = began
      /\ \A q \in Session \ {s} : login'[q] = login[q]
      /\ minted' \subseteq Token
  BY <1>0, <1>1, <1>2, <1>4 DEF TableTypes
<1>6. audit' \in [Account -> [login: Nat, deactivate: Nat]]
  <2>1. audit \in [Account -> [login: Nat, deactivate: Nat]]
    BY <1>0 DEF TableTypes
  <2>2. audit' = [audit EXCEPT ![a].login = @ + 1]
    BY <1>1
  <2>. QED
    BY <2>1, <2>2
<1>7. \A q \in Session : Issued(q) =>
          /\ q # s /\ login[q].account \in Account
          /\ user[login[q].account].state # "none"
  BY <1>0, <1>1 DEF Issued, TableTypes, Login, RowsOK
<1>8. RowsOK'
  <2>1. \A r \in Token : row'[r] # NoRow =>
          /\ r \in minted'
          /\ row'[r].session \in Session
          /\ row'[r].account \in Account
          /\ user'[row'[r].account].state # "none"
    BY <1>0, <1>1, <1>3, <1>4, <1>5 DEF RowsOK
  <2>2. \A b \in Account : user'[b].state = "none" =>
          /\ user'[b] = NoUser
          /\ consent'[b] = [d \in Doc |-> NoConsent]
    BY <1>0, <1>3, <1>5 DEF RowsOK
  <2>3. \A q \in Session : login'[q].account # NoAccount =>
          user'[login'[q].account].state # "none"
    BY <1>3, <1>4, <1>5, <1>7 DEF Issued
  <2>. QED
    BY <2>1, <2>2, <2>3 DEF RowsOK, Issued
<1>9. SessionExpiry'
  <2>1. \A r \in Token : row[r] # NoRow => row[r].session \in Session \ {s}
    BY <1>0, <1>7, NullsAssumption DEF RowsOK, SessionExpiry, Issued
  <2>. QED
    BY <1>0, <1>4, <1>5, <2>1 DEF SessionExpiry
<1>10. LatestIsOnFile'
  BY <1>2, <1>5 DEF Inv, LatestIsOnFile
<1>11. ConsentedSessions'
  <2>1. ASSUME NEW q \in Session, login'[q].account # NoAccount,
               user'[login'[q].account].state = "active", NEW d \in Doc
        PROVE  login'[q].seen[d] \in consent'[login'[q].account][d].all
    <3>1. CASE q = s
      BY <1>2, <1>4, <1>5, <2>1, <3>1
    <3>2. CASE q # s
      <4>1. /\ login'[q] = login[q] /\ Issued(q)
            /\ login[q].account \in Account
            /\ user[login[q].account].state # "none"
        BY <1>5, <1>7, <2>1, <3>2 DEF Issued
      <4>2. user[login[q].account].state = "active"
        BY <1>3, <2>1, <4>1
      <4>3. login[q].seen[d] \in consent[login[q].account][d].all
        BY <4>1, <4>2 DEF Inv, ConsentedSessions, Active
      <4>. QED
        BY <1>2, <1>5, <4>1, <4>3
    <3>. QED
      BY <3>1, <3>2
  <2>. QED
    BY <2>1 DEF ConsentedSessions, Issued, Active
<1>12. JobsFine'
  <2>1. Grows(user, consent, minted, login, user', consent', minted', login')
    BY <1>1, <1>2, <1>3, <1>5, <1>7 DEF Grows, IsActive, Issued
  <2>. QED
    BY <1>1, <2>1, NoJobFine, JobsFineStep DEF End, Inv
<1>. QED
  BY <1>0, <1>1, <1>3, <1>5, <1>6, <1>8, <1>9, <1>10, <1>11, <1>12
  DEF Inv, TableTypes

-----------------------------------------------------------------------------
(* The theorems *)

\* The invariant holds initially: there is nothing yet.
LEMMA InitInv == Init => Inv
<1>. SUFFICES ASSUME Init PROVE Inv
  OBVIOUS
<1>1. TableTypes
  <2>1. NoUser \in User /\ NoConsent \in Consent /\ NoLogin \in Login
    BY BoundAssumption DEF NoUser, User, NoConsent, Consent, NoLogin, Login,
                           Versions, NoVersions, Time
  <2>. QED
    BY <2>1, NoRowType, BoundAssumption DEF Init, TableTypes, Version
<1>2. JobsFine
  BY NoJobFine DEF Init, JobsFine, JobFine
<1>. QED
  BY <1>1, <1>2
  DEF Init, Inv, RowsOK, SessionExpiry, LatestIsOnFile, ConsentedSessions,
      Issued, NoUser, NoLogin, NoConsent

\* Every step keeps the invariant.
LEMMA NextInv == Inv /\ [Next]_vars => Inv'
<1>. SUFFICES ASSUME Inv, [Next]_vars PROVE Inv'
  OBVIOUS
<1>1. ASSUME NEW p \in Proc, LoginNext(p)
      PROVE  Inv'
  BY <1>1, LoginReads, LoginCommitInv DEF LoginNext
<1>2. ASSUME NEW p \in Proc, RefreshNext(p)
      PROVE  Inv'
  BY <1>2, RefreshReads, DeleteInv, RefreshCreateInv DEF RefreshNext
<1>3. ASSUME NEW p \in Proc, GuardedNext(p)
      PROVE  Inv'
  BY <1>3, GuardReads, DeleteInv, DeactivateInv DEF GuardedNext
<1>4. ASSUME NEW p \in Proc, Fail(p)
      PROVE  Inv'
  BY <1>4, EndOnly DEF Fail
<1>5. ASSUME NEW d \in Doc, Publish(d)
      PROVE  Inv'
  <2>1. policy' \in [Doc -> Version]
    BY <1>5, BoundAssumption DEF Publish, Inv, TableTypes, Version
  <2>. QED
    BY <1>5, <2>1
    DEF Publish, tables, Inv, TableTypes, RowsOK, SessionExpiry,
        LatestIsOnFile, ConsentedSessions, JobsFine, Issued, Active
<1>6. CASE Tick
  <2>1. now' \in 0..MaxClock
    BY <1>6, BoundAssumption DEF Tick, Inv, TableTypes
  <2>. QED
    BY <1>6, <2>1
    DEF Tick, tables, Inv, TableTypes, RowsOK, SessionExpiry,
        LatestIsOnFile, ConsentedSessions, JobsFine, Issued, Active
<1>7. CASE UNCHANGED vars
  BY <1>7
  DEF vars, tables, world, Inv, TableTypes, RowsOK, SessionExpiry,
      LatestIsOnFile, ConsentedSessions, JobsFine, Issued, Active
<1>. QED
  BY <1>1, <1>2, <1>3, <1>4, <1>5, <1>6, <1>7 DEF Next

\* So the invariant always holds.
LEMMA InvHolds == Spec => []Inv
BY InitInv, NextInv, PTL DEF Spec

\* The variables keep their types, and rows and requests refer only to what
\* there is: no handler of AuthService goes on with a row it did not find.
THEOREM TypeCorrect == Spec => []TypeOK
<1>1. Inv => TypeOK
  <2>. SUFFICES ASSUME Inv PROVE TypeOK
    OBVIOUS
  <2>1. JobsOK
    BY DEF Inv, JobsFine, JobFine, JobsOK
  <2>. QED
    BY <2>1 DEF Inv, TableTypes, JobsFine, TypeOK
<1>. QED
  BY <1>1, InvHolds, PTL

\* Rotation of refresh tokens (userRefresh) never prolongs a session nor hands
\* it to another user.
THEOREM SessionExpiryHolds == Spec => []SessionExpiry
<1>1. Inv => SessionExpiry
  BY DEF Inv
<1>. QED
  BY <1>1, InvHolds, PTL

\* Whoever is active and in a session has agreed to what was published when the
\* login asked (userLogin).
THEOREM ConsentedSessionsHolds == Spec => []ConsentedSessions
<1>1. Inv => ConsentedSessions
  BY DEF Inv
<1>. QED
  BY <1>1, InvHolds, PTL

\* A session without a token and without a refresh that has read one has ended
\* for good, whatever logins, refreshes and logouts follow.
THEOREM EndedStaysEndedHolds == Spec => EndedStaysEnded
<1>. DEFINE Stays == \A s \in Session : Issued(s) /\ Ended(s) => Ended(s)'
<1>1. ASSUME Inv, [Next]_vars, NEW s \in Session, Issued(s), Ended(s)
      PROVE  Ended(s)'
  <2>0. /\ job \in [Proc -> Job] /\ TableTypes /\ RowsOK
        /\ \A p \in Proc : JobFine(job[p], user, consent, minted, login)
    BY <1>1 DEF Inv, JobsFine
  <2>2. NoRow.session # s /\ NoJob.pc \notin RefreshPC
    BY NullsAssumption DEF NoRow, NoJob, RefreshPC
  <2>3. ASSUME NEW p \in Proc, NEW j, job' = [job EXCEPT ![p] = j],
               j.pc \in RefreshPC => j.session # s,
               \A t \in Token : row'[t].session # s
        PROVE  Ended(s)'
    BY <1>1, <2>0, <2>3 DEF Ended
  <2>4. ASSUME NEW p \in Proc, End(p), \A t \in Token : row'[t].session # s
        PROVE  Ended(s)'
    BY <2>2, <2>3, <2>4 DEF End
  <2>5. ASSUME NEW p \in Proc, LoginNext(p)
        PROVE  Ended(s)'
    <3>2. ASSUME NEW n \in Student, LoginBegin(p, n)
          PROVE  Ended(s)'
      BY <1>1, <2>0, <3>2 DEF LoginBegin, Begin, tables, Ended, NoJob, RefreshPC
    <3>3. CASE LoginPolicy(p)
      BY <1>1, <2>0, <3>3 DEF LoginPolicy, tables, Ended, Job, RefreshPC
    <3>4. CASE LoginFind(p)
      BY <1>1, <2>0, <3>4 DEF LoginFind, Goto, tables, Ended, Job, RefreshPC
    <3>5. CASE LoginTerms(p)
      BY <1>1, <2>0, <3>5
      DEF LoginTerms, LoginConsent, tables, Ended, Job, RefreshPC
    <3>6. CASE LoginPrivacy(p)
      BY <1>1, <2>0, <3>6
      DEF LoginPrivacy, LoginConsent, tables, Ended, Job, RefreshPC
    <3>7. ASSUME NEW body \in Body, LoginRefused(p, body)
          PROVE  Ended(s)'
      BY <1>1, <2>4, <3>7 DEF LoginRefused, tables, Ended
    <3>8. ASSUME NEW body \in Body, NEW a \in Account, NEW q \in Session,
                 NEW t \in Token, LoginCommit(p, body, a, q, t)
          PROVE  Ended(s)'
      BY <1>1, <2>0, <2>4, <3>8
      DEF LoginCommit, SetUserRefreshToken, NewSession, TableTypes, Ended
    <3>. QED
      BY <2>5, <3>2, <3>3, <3>4, <3>5, <3>6, <3>7, <3>8 DEF LoginNext
  <2>6. ASSUME NEW p \in Proc, RefreshNext(p)
        PROVE  Ended(s)'
    <3>1. ASSUME NEW t \in Token, RefreshFind(p, t)
          PROVE  Ended(s)'
      BY <1>1, <2>0, <3>1 DEF RefreshFind, Begin, tables, Ended, NoJob
    <3>2. CASE RefreshDelete(p)
      BY <1>1, <2>0, <2>2, <3>2
      DEF RefreshDelete, Goto, TableTypes, Ended, Job, RefreshPC
    <3>3. ASSUME NEW t \in Token, RefreshCreate(p, t)
          PROVE  Ended(s)'
      BY <1>1, <2>0, <2>4, <3>3
      DEF RefreshCreate, SetUserRefreshToken, TableTypes, Ended, RefreshPC
    <3>. QED
      BY <2>6, <3>1, <3>2, <3>3 DEF RefreshNext
  <2>7. ASSUME NEW p \in Proc, GuardedNext(p)
        PROVE  Ended(s)'
    <3>1. ASSUME NEW q \in Session, NEW op \in Guarded, GuardUser(p, q, op)
          PROVE  Ended(s)'
      BY <1>1, <2>0, <3>1
      DEF GuardUser, Begin, tables, Ended, NoJob, RefreshPC
    <3>2. CASE GuardSession(p)
      BY <1>1, <2>0, <2>4, <3>2
      DEF GuardSession, Goto, tables, Ended, Job, Guarded, RefreshPC
    <3>3. CASE Logout(p)
      BY <1>1, <2>2, <2>4, <3>3 DEF Logout, Ended
    <3>4. CASE Deactivate(p)
      BY <1>1, <2>2, <2>4, <3>4 DEF Deactivate, Deactivated, Ended
    <3>. QED
      BY <2>7, <3>1, <3>2, <3>3, <3>4 DEF GuardedNext
  <2>8. ASSUME NEW p \in Proc, Fail(p)
        PROVE  Ended(s)'
    BY <1>1, <2>4, <2>8 DEF Fail, tables, Ended
  <2>9. CASE (\E d \in Doc : Publish(d)) \/ Tick \/ UNCHANGED vars
    BY <1>1, <2>9 DEF Publish, Tick, vars, tables, Ended
  <2>. QED
    BY <1>1, <2>5, <2>6, <2>7, <2>8, <2>9 DEF Next, Ended
<1>2. Inv /\ [Next]_vars => [Stays]_vars
  BY <1>1
<1>. QED
  BY <1>2, InvHolds, PTL DEF Spec, EndedStaysEnded

\* One USER_LOGIN for every session and one USER_DEACTIVATE for a deactivated
\* user, however many requests log in or deactivate at once.
THEOREM AuditTrueHolds == Spec => []AuditTrue
<1>. DEFINE Of(l, a) == {s \in Session : l[s].account = a}
<1>0. \A l, a : IsFiniteSet(Of(l, a))
  BY FiniteAssumption, FS_Subset
<1>1. Init => AuditTrue
  <2>1. ASSUME NEW a \in Account
        PROVE  {s \in Session : NoLogin.account = a} = {}
    BY NullsAssumption DEF NoLogin
  <2>2. Cardinality({}) = 0
    BY FS_EmptySet
  <2>3. ASSUME Init, NEW a \in Account
        PROVE  {s \in Session : login[s].account = a} = {}
    BY <2>1, <2>3 DEF Init
  <2>4. ASSUME Init, NEW a \in Account
        PROVE  /\ audit[a].login = 0 /\ audit[a].deactivate = 0
               /\ user[a].state = "none"
    BY <2>4 DEF Init, NoUser
  <2>5. ASSUME Init, NEW a \in Account
        PROVE  /\ audit[a].login
                    = Cardinality({s \in Session : login[s].account = a})
               /\ audit[a].deactivate = IF user[a].state = "deleted" THEN 1 ELSE 0
    <3>1. Cardinality({s \in Session : login[s].account = a}) = 0
      BY <2>2, <2>3, <2>5
    <3>. QED
      BY <2>4, <2>5, <3>1
  <2>. QED
    BY <2>5 DEF AuditTrue
<1>2. Inv /\ AuditTrue /\ [Next]_vars => AuditTrue'
  <2>. SUFFICES ASSUME Inv, AuditTrue, [Next]_vars PROVE AuditTrue'
    OBVIOUS
  <2>0. /\ JobsFine /\ TableTypes /\ RowsOK
        /\ \A p \in Proc : JobFine(job[p], user, consent, minted, login)
    BY DEF Inv, JobsFine
  <2>1. ASSUME user' = user, login' = login, audit' = audit
        PROVE  AuditTrue'
    BY <2>1 DEF AuditTrue
  <2>2. ASSUME NEW p \in Proc, NEW body \in Body, NEW a \in Account,
               NEW s \in Session, NEW t \in Token, LoginCommit(p, body, a, s, t)
        PROVE  AuditTrue'
    <3>1. /\ ~ Issued(s) /\ UpsertUser(job[p], a)
          /\ audit' = [audit EXCEPT ![a].login = @ + 1]
          /\ login' = [login EXCEPT ![s] = [account |-> a, at |-> now,
                                            seen |-> job[p].seen]]
      BY <2>2 DEF LoginCommit, NewSession
    <3>2. \A b \in Account : user'[b].state = "deleted" <=>
                             user[b].state = "deleted"
      <4>1. CASE job[p].account = NoAccount
        <5>. DEFINE new == [state |-> "active", number |-> job[p].student]
        <5>1. user[a].state = "none" /\ user' = [user EXCEPT ![a] = new]
          BY <3>1, <4>1 DEF UpsertUser
        <5>2. user \in [Account -> User] /\ new.state = "active"
          BY <2>0 DEF TableTypes
        <5>. HIDE DEF new
        <5>. QED
          BY <5>1, <5>2
      <4>2. CASE job[p].account # NoAccount
        <5>1. user' = [user EXCEPT ![a].number = job[p].student]
          BY <3>1, <4>2 DEF UpsertUser
        <5>2. user \in [Account -> User]
          BY <2>0 DEF TableTypes
        <5>. QED
          BY <5>1, <5>2 DEF User
      <4>. QED
        BY <4>1, <4>2
    <3>0. /\ login[s].account = NoAccount /\ login'[s].account = a
          /\ \A q \in Session \ {s} : login'[q] = login[q]
      BY <2>0, <3>1 DEF TableTypes, Issued
    <3>3. Of(login', a) = Of(login, a) \cup {s} /\ s \notin Of(login, a)
      <4>1. \A q : q \in Of(login', a) <=> q \in Of(login, a) \/ q = s
        BY <3>0
      <4>2. s \notin Of(login, a)
        BY <3>0, NullsAssumption
      <4>. QED
        BY <4>1, <4>2
    <3>4. Cardinality(Of(login', a)) = Cardinality(Of(login, a)) + 1
      <4>1. IsFiniteSet(Of(login, a))
        BY <1>0
      <4>. HIDE DEF Of
      <4>2. Cardinality(Of(login, a) \cup {s}) = Cardinality(Of(login, a)) + 1
        BY <3>3, <4>1, FS_AddElement
      <4>. QED
        BY <3>3, <4>2
    <3>5. ASSUME NEW b \in Account \ {a}
          PROVE  Of(login', b) = Of(login, b)
      <4>1. \A q : q \in Of(login', b) <=> q \in Of(login, b)
        BY <3>0, NullsAssumption
      <4>. QED
        BY <4>1
    <3>6. /\ audit'[a].login = audit[a].login + 1
          /\ audit'[a].deactivate = audit[a].deactivate
          /\ \A b \in Account \ {a} : audit'[b] = audit[b]
      BY <2>0, <3>1 DEF TableTypes
    <3>7. ASSUME NEW b \in Account
          PROVE  /\ audit'[b].login = Cardinality(Of(login', b))
                 /\ audit'[b].deactivate
                      = IF user'[b].state = "deleted" THEN 1 ELSE 0
      <4>1. /\ audit[b].login = Cardinality(Of(login, b))
            /\ audit[b].deactivate = IF user[b].state = "deleted" THEN 1 ELSE 0
        BY DEF AuditTrue
      <4>. HIDE DEF Of
      <4>2. CASE b = a
        BY <3>2, <3>4, <3>6, <4>1, <4>2
      <4>3. CASE b # a
        BY <3>2, <3>5, <3>6, <4>1, <4>3
      <4>. QED
        BY <4>2, <4>3
    <3>. QED
      BY <3>7 DEF AuditTrue
  <2>3. ASSUME NEW p \in Proc, Deactivate(p)
        PROVE  AuditTrue'
    <3>. DEFINE a == job[p].account
    <3>1. CASE ~ Active(a)
      BY <2>1, <2>3, <3>1 DEF Deactivate
    <3>2. CASE Active(a)
      <4>1. /\ a \in Account /\ user[a].state = "active" /\ login' = login
            /\ Deactivated(a)
        BY <2>3, <3>2 DEF Deactivate, Active
      <4>2. /\ user'[a].state = "deleted"
            /\ audit'[a].login = audit[a].login
            /\ audit'[a].deactivate = audit[a].deactivate + 1
            /\ \A b \in Account \ {a} : user'[b] = user[b] /\ audit'[b] = audit[b]
        BY <2>0, <4>1 DEF Deactivated, TableTypes
      <4>. QED
        BY <4>1, <4>2 DEF AuditTrue
    <3>. QED
      BY <3>1, <3>2
  <2>4. CASE UNCHANGED vars
    BY <2>1, <2>4 DEF vars, tables
  <2>5. ASSUME NEW p \in Proc, LoginNext(p)
        PROVE  AuditTrue'
    BY <2>1, <2>2, <2>5
    DEF LoginNext, LoginBegin, LoginPolicy, LoginFind, LoginTerms, LoginPrivacy,
        LoginConsent, LoginRefused, tables
  <2>6. ASSUME NEW p \in Proc, RefreshNext(p) \/ Fail(p)
        PROVE  AuditTrue'
    BY <2>1, <2>6
    DEF RefreshNext, RefreshFind, RefreshDelete, RefreshCreate, Fail, tables
  <2>7. ASSUME NEW p \in Proc, GuardedNext(p)
        PROVE  AuditTrue'
    BY <2>1, <2>3, <2>7
    DEF GuardedNext, GuardUser, GuardSession, Logout, tables
  <2>8. CASE (\E d \in Doc : Publish(d)) \/ Tick
    BY <2>1, <2>8 DEF Publish, Tick, tables
  <2>. QED
    BY <2>4, <2>5, <2>6, <2>7, <2>8 DEF Next
<1>. QED
  BY <1>1, <1>2, InvHolds, PTL DEF Spec
=============================================================================
