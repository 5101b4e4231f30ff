----------------------------- MODULE AuthSession -----------------------------
(***************************************************************************)
(* Accounts and their sessions: login with its consents, rotation of the    *)
(* refresh token, the guard in front of every other request, logout and     *)
(* deactivation.                                                             *)
(*                                                                          *)
(* One step of a job is one SQL statement, or the statements that end a     *)
(* transaction: from its first write on a transaction holds the lock on the *)
(* user's row (or on its student number), so its writes and its commit are  *)
(* one step, while each of its reads before sees what was committed then.   *)
(* That a deactivated user also loses the push and room subscriptions is    *)
(* in RoomSubscription.                                                     *)
(***************************************************************************)
EXTENDS Integers, FiniteSets

CONSTANTS
    Student,     \* student numbers
    Account,     \* uuids of users
    Session,     \* session ids
    Token,       \* refresh tokens, each told from the others by its hash
    Proc,        \* requests in flight
    NoStudent,   \* the number of a deactivated user, deleted_<uuid>
    NoAccount, NoSession, NoToken,
    MaxVersion,  \* bound on the versions of a policy document
    Lifetime,    \* USER_REFRESH_TOKEN_EXPIRE
    MaxClock     \* bound on the clock

ASSUME NullsAssumption ==
    /\ NoStudent \notin Student
    /\ NoAccount \notin Account
    /\ NoSession \notin Session
    /\ NoToken \notin Token

ASSUME BoundAssumption ==
    /\ MaxVersion \in Nat \ {0}
    /\ Lifetime \in Nat \ {0}
    /\ MaxClock \in Nat

ASSUME FiniteAssumption == IsFiniteSet(Session)

VARIABLES
    user,     \* user: whether the row exists or is deactivated, and its number
    consent,  \* user_consent, by user and document
    row,      \* user_refresh_token, by token
    minted,   \* the refresh tokens generated so far
    login,    \* the login that began a session (history)
    audit,    \* audit_log, counted by user and action
    policy,   \* the versions the policy service publishes
    now,      \* the clock
    job       \* the requests

tables == <<user, consent, row, minted, login, audit>>
world == <<policy, now>>
vars == <<tables, world, job>>

-----------------------------------------------------------------------------
(* Rows and jobs *)

Doc == {"TERMS_OF_SERVICE", "PRIVACY_POLICY"}
Version == 1..MaxVersion

\* A version of each document, 0 for none.
Versions == [Doc -> 0..MaxVersion]
NoVersions == [d \in Doc |-> 0]

User == [state: {"none", "active", "deleted"}, number: Student \cup {NoStudent}]
NoUser == [state |-> "none", number |-> NoStudent]

\* The rows of one user and document: their versions and that of the latest.
Consent == [latest: 0..MaxVersion, all: SUBSET Version]
NoConsent == [latest |-> 0, all |-> {}]

Time == 0..(MaxClock + Lifetime)

TokenRow == [account: Account \cup {NoAccount},
             session: Session \cup {NoSession}, expiredAt: Time]
NoRow == [account |-> NoAccount, session |-> NoSession, expiredAt |-> 0]

Login == [account: Account \cup {NoAccount}, at: Time, seen: Versions]
NoLogin == [account |-> NoAccount, at |-> 0, seen |-> NoVersions]

LoginPC == {"policy", "find", "terms", "privacy", "write"}
RefreshPC == {"rotate", "create"}
Guarded == {"logout", "deactivate"}
PC == {"idle", "session"} \cup LoginPC \cup RefreshPC \cup Guarded

Job == [pc: PC,
        student: Student \cup {NoStudent},  \* login: the provider's answer,
        seen: Versions,                     \* the published versions,
        latest: Versions,                   \* and the consents on file
        account: Account \cup {NoAccount},
        session: Session \cup {NoSession},
        token: Token \cup {NoToken},        \* refresh: the token shown
        expiredAt: Time,
        op: Guarded]                        \* what waits behind the guard
NoJob == [pc |-> "idle", student |-> NoStudent, seen |-> NoVersions,
          latest |-> NoVersions, account |-> NoAccount, session |-> NoSession,
          token |-> NoToken, expiredAt |-> 0, op |-> "logout"]

Begin(p, j) ==
    /\ job[p].pc = "idle"
    /\ job' = [job EXCEPT ![p] = j]

Goto(p, label) == job' = [job EXCEPT ![p].pc = label]
End(p) == job' = [job EXCEPT ![p] = NoJob]

Active(a) == a \in Account /\ user[a].state = "active"
Issued(s) == login[s].account # NoAccount

-----------------------------------------------------------------------------
(* userLogin *)

\* getUserInfo: the account provider has named a verified student.
LoginBegin(p, s) ==
    /\ Begin(p, [NoJob EXCEPT !.pc = "policy", !.student = s])
    /\ UNCHANGED <<tables, world>>

\* getLatestPolicyVersions; a timeout or a wrong answer is a Fail.
LoginPolicy(p) ==
    /\ job[p].pc = "policy"
    /\ job' = [job EXCEPT ![p].pc = "find", ![p].seen = policy]
    /\ UNCHANGED <<tables, world>>

\* findUserByStudentNumberInTx does not ask for deletedAt.
Holders(s) == {a \in Account : user[a].state # "none" /\ user[a].number = s}

LoginFind(p) ==
    /\ job[p].pc = "find"
    /\ \/ /\ Holders(job[p].student) = {}
          /\ Goto(p, "write")
       \/ \E a \in Holders(job[p].student) :
            job' = [job EXCEPT ![p].pc = "terms", ![p].account = a]
    /\ UNCHANGED <<tables, world>>

\* getLatestUserConsentInTx for one document, then the other.
LoginConsent(p, here, d, next) ==
    /\ job[p].pc = here
    /\ job' = [job EXCEPT ![p].pc = next,
                          ![p].latest[d] = consent[job[p].account][d].latest]
    /\ UNCHANGED <<tables, world>>

LoginTerms(p) == LoginConsent(p, "terms", "TERMS_OF_SERVICE", "privacy")
LoginPrivacy(p) == LoginConsent(p, "privacy", "PRIVACY_POLICY", "write")

\* checkConsentRequirement: the documents whose latest consent is not to the
\* published version.
Needed(j) == {d \in Doc : j.latest[d] # j.seen[d]}

\* What the request's body says, which nothing before looked at: the versions
\* it agrees to and whether it has a gender.
Body == [agree: Versions, gender: BOOLEAN]

\* checkMissingConsents and checkConsentVersionMismatch.
ConsentGiven(j, body) == \A d \in Needed(j) : body.agree[d] = j.seen[d]

\* The unique index on the student number: another user has it.
Conflict(j) == Holders(j.student) \ {j.account} # {}

\* ConsentRequiredException, GenderRequiredException or a 409: the
\* transaction is rolled back.
LoginRefused(p, body) ==
    LET j == job[p] IN
    /\ j.pc = "write"
    /\ \/ ~ ConsentGiven(j, body)
       \/ j.account = NoAccount /\ ~ body.gender
       \/ Conflict(j)
    /\ End(p)
    /\ UNCHANGED <<tables, world>>

\* Mutant: the consents of a new user only are saved.
SavedFirstOnly(j, body, a) ==
    [d \in Doc |-> IF j.account = NoAccount
                   THEN [latest |-> body.agree[d], all |-> {body.agree[d]}]
                   ELSE consent[a][d]]

\* saveConsentsIfNeeded: the consents of the user after j.
Saved(j, body, a) ==
    [d \in Doc |-> IF d \in Needed(j)
                   THEN [latest |-> body.agree[d],
                         all |-> consent[a][d].all \cup {body.agree[d]}]
                   ELSE consent[a][d]]

\* upsertUserInTx: a new user for whom nobody was found, or the number (and
\* name and gender) of the user that was, deactivated or not.
UpsertUser(j, a) ==
    IF j.account = NoAccount
    THEN /\ user[a].state = "none"
         /\ user' = [user EXCEPT ![a] = [state |-> "active",
                                         number |-> j.student]]
    ELSE /\ a = j.account
         /\ user' = [user EXCEPT ![a].number = j.student]

\* Mutant: a login may go on with a session id there was before.
AnySession(s) == TRUE

\* generateSessionId and generateOpaqueToken: random, so not used before.
NewSession(s) == ~ Issued(s)
NewToken(t) == t \notin minted

\* setUserRefreshToken(InTx).
SetUserRefreshToken(t, a, s, expiredAt) ==
    /\ NewToken(t)
    /\ row' = [row EXCEPT ![t] = [account |-> a, session |-> s,
                                  expiredAt |-> expiredAt]]
    /\ minted' = minted \cup {t}

\* The upsert, the audit log entry, the consents and the refresh token of a
\* new session.
LoginCommit(p, body, a, s, t) ==
    LET j == job[p] IN
    /\ j.pc = "write"
    /\ ConsentGiven(j, body)
    /\ j.account = NoAccount => body.gender
    /\ ~ Conflict(j)
    /\ NewSession(s)
    /\ UpsertUser(j, a)
    /\ audit' = [audit EXCEPT ![a].login = @ + 1]
    /\ consent' = [consent EXCEPT ![a] = Saved(j, body, a)]
    /\ SetUserRefreshToken(t, a, s, now + Lifetime)
    /\ login' = [login EXCEPT ![s] = [account |-> a, at |-> now,
                                      seen |-> j.seen]]
    /\ End(p)
    /\ UNCHANGED world

-----------------------------------------------------------------------------
(* userRefresh *)

\* Mutant: a token without a row is not refused.
RefreshFindAny(p, t) ==
    /\ t \in minted
    /\ Begin(p, [NoJob EXCEPT !.pc = "rotate", !.token = t,
                              !.account = row[t].account,
                              !.session = row[t].session,
                              !.expiredAt = row[t].expiredAt])
    /\ UNCHANGED <<tables, world>>

\* findUserByRefreshToken of a cookie: the row is there and has not expired.
\* Otherwise the answer is a 401 and nothing happens.
RefreshFind(p, t) ==
    /\ row[t] # NoRow
    /\ row[t].expiredAt > now
    /\ Begin(p, [NoJob EXCEPT !.pc = "rotate", !.token = t,
                              !.account = row[t].account,
                              !.session = row[t].session,
                              !.expiredAt = row[t].expiredAt])
    /\ UNCHANGED <<tables, world>>

\* deleteUserRefreshToken is a deleteMany: a row that is gone is no error.
RefreshDelete(p) ==
    /\ job[p].pc = "rotate"
    /\ row' = [row EXCEPT ![job[p].token] = NoRow]
    /\ Goto(p, "create")
    /\ UNCHANGED <<user, consent, minted, login, audit, world>>

\* Mutant: a rotated token starts a new period.
RefreshCreateRenewed(p, t) ==
    /\ job[p].pc = "create"
    /\ SetUserRefreshToken(t, job[p].account, job[p].session, now + Lifetime)
    /\ End(p)
    /\ UNCHANGED <<user, consent, login, audit, world>>

\* setUserRefreshToken: a new token in the same session, until the same time.
RefreshCreate(p, t) ==
    /\ job[p].pc = "create"
    /\ SetUserRefreshToken(t, job[p].account, job[p].session,
                           job[p].expiredAt)
    /\ End(p)
    /\ UNCHANGED <<user, consent, login, audit, world>>

-----------------------------------------------------------------------------
(* Requests behind UserGuard: logout and deactivateUser *)

\* UserStrategy.validate of the access token of a session: findUser ...
GuardUser(p, s, op) ==
    /\ Issued(s)
    /\ Active(login[s].account)
    /\ Begin(p, [NoJob EXCEPT !.pc = "session", !.account = login[s].account,
                              !.session = s, !.op = op])
    /\ UNCHANGED <<tables, world>>

\* The rows of a session, as deleteMany and findFirst see them.
RowsOf(a, s) == {t \in Token : row[t].account = a /\ row[t].session = s}

\* ... and findUserRefreshTokenBySessionId, or 'invalid session'.
GuardSession(p) ==
    LET live == {t \in RowsOf(job[p].account, job[p].session) :
                     row[t].expiredAt > now} IN
    /\ job[p].pc = "session"
    /\ \/ live # {} /\ Goto(p, job[p].op)
       \/ live = {} /\ End(p)
    /\ UNCHANGED <<tables, world>>

Logout(p) ==
    /\ job[p].pc = "logout"
    /\ row' = [t \in Token |-> IF t \in RowsOf(job[p].account, job[p].session)
                               THEN NoRow ELSE row[t]]
    /\ End(p)
    /\ UNCHANGED <<user, consent, minted, login, audit, world>>

\* The transaction: the user's row is made anonymous, tokens and consents go.
Deactivated(a) ==
    /\ user' = [user EXCEPT ![a] = [state |-> "deleted", number |-> NoStudent]]
    /\ row' = [t \in Token |-> IF row[t].account = a THEN NoRow ELSE row[t]]
    /\ consent' = [consent EXCEPT ![a] = [d \in Doc |-> NoConsent]]
    /\ audit' = [audit EXCEPT ![a].deactivate = @ + 1]

\* Mutant: updateMany without deletedAt: null.
DeactivateAgain(p) ==
    /\ job[p].pc = "deactivate"
    /\ Deactivated(job[p].account)
    /\ End(p)
    /\ UNCHANGED <<minted, login, world>>

\* deleteUserInTx finds no active row when another request was first, and the
\* transaction is rolled back with a 404.
Deactivate(p) ==
    /\ job[p].pc = "deactivate"
    /\ \/ /\ Active(job[p].account)
          /\ Deactivated(job[p].account)
       \/ /\ ~ Active(job[p].account)
          /\ UNCHANGED <<user, row, consent, audit>>
    /\ End(p)
    /\ UNCHANGED <<minted, login, world>>

-----------------------------------------------------------------------------
(* The specification *)

\* A statement fails or the server stops: what was committed stays.
Fail(p) ==
    /\ job[p].pc # "idle"
    /\ End(p)
    /\ UNCHANGED <<tables, world>>

Publish(d) ==
    /\ policy[d] < MaxVersion
    /\ policy' = [policy EXCEPT ![d] = @ + 1]
    /\ UNCHANGED <<tables, now, job>>

Tick ==
    /\ now < MaxClock
    /\ now' = now + 1
    /\ UNCHANGED <<tables, policy, job>>

Init ==
    /\ user = [a \in Account |-> NoUser]
    /\ consent = [a \in Account |-> [d \in Doc |-> NoConsent]]
    /\ row = [t \in Token |-> NoRow]
    /\ minted = {}
    /\ login = [s \in Session |-> NoLogin]
    /\ audit = [a \in Account |-> [login |-> 0, deactivate |-> 0]]
    /\ policy = [d \in Doc |-> 1]
    /\ now = 0
    /\ job = [p \in Proc |-> NoJob]

LoginNext(p) ==
    \/ \E s \in Student : LoginBegin(p, s)
    \/ LoginPolicy(p)
    \/ LoginFind(p)
    \/ LoginTerms(p)
    \/ LoginPrivacy(p)
    \/ \E body \in Body :
         \/ LoginRefused(p, body)
         \/ \E a \in Account, s \in Session, t \in Token :
              LoginCommit(p, body, a, s, t)

RefreshNext(p) ==
    \/ \E t \in Token : RefreshFind(p, t)
    \/ RefreshDelete(p)
    \/ \E t \in Token : RefreshCreate(p, t)

GuardedNext(p) ==
    \/ \E s \in Session, op \in Guarded : GuardUser(p, s, op)
    \/ GuardSession(p)
    \/ Logout(p)
    \/ Deactivate(p)

Next ==
    \/ \E p \in Proc :
         LoginNext(p) \/ RefreshNext(p) \/ GuardedNext(p) \/ Fail(p)
    \/ \E d \in Doc : Publish(d)
    \/ Tick

Spec == Init /\ [][Next]_vars

-----------------------------------------------------------------------------
(* Properties *)

\* A row is of a generated token, a session and a user that exists; nobody has
\* agreed or logged in before there was a user.
RowsOK ==
    /\ \A t \in Token : row[t] # NoRow =>
         /\ t \in minted
         /\ row[t].session \in Session
         /\ row[t].account \in Account
         /\ user[row[t].account].state # "none"
    /\ \A a \in Account : user[a].state = "none" =>
         /\ user[a] = NoUser
         /\ consent[a] = [d \in Doc |-> NoConsent]
    /\ \A s \in Session : Issued(s) => user[login[s].account].state # "none"

\* A request names the user, session and token it is about.
JobsOK ==
    \A p \in Proc :
        /\ job[p].pc \in LoginPC => job[p].student \in Student
        /\ job[p].pc \in {"terms", "privacy", "session"} \cup RefreshPC \cup Guarded
             => job[p].account \in Account
        /\ job[p].pc \in {"session"} \cup RefreshPC \cup Guarded
             => job[p].session \in Session
        /\ job[p].pc \in RefreshPC => job[p].token \in minted
        /\ job[p].account \in Account => user[job[p].account].state # "none"

\* The variables are of their types, and rows and requests refer only to users,
\* sessions and tokens there are: no handler goes on with a row it did not find
\* (findUserByRefreshToken, UserStrategy.validate, upsertUserInTx).
TypeOK ==
    /\ user \in [Account -> User]
    /\ consent \in [Account -> [Doc -> Consent]]
    /\ row \in [Token -> TokenRow]
    /\ minted \subseteq Token
    /\ login \in [Session -> Login]
    /\ audit \in [Account -> [login: Nat, deactivate: Nat]]
    /\ policy \in [Doc -> Version]
    /\ now \in 0..MaxClock
    /\ job \in [Proc -> Job]
    /\ RowsOK
    /\ JobsOK

\* Whoever is in a session has agreed: for an active user, the versions that
\* the policy service published when the login of a session asked for them are
\* on file, whatever other logins, publications and deactivations came between
\* its reads and its writes (checkConsentRequirements, saveConsentsIfNeeded).
ConsentedSessions ==
    \A s \in Session : Issued(s) /\ Active(login[s].account) =>
        \A d \in Doc : login[s].seen[d] \in consent[login[s].account][d].all

\* Rotation does not prolong a session and does not move it: every token, also
\* of refreshes that raced each other, is of the user of the session's login
\* and expires USER_REFRESH_TOKEN_EXPIRE after that login (userRefresh).
SessionExpiry ==
    \A t \in Token : row[t] # NoRow =>
        /\ row[t].account = login[row[t].session].account
        /\ row[t].expiredAt = login[row[t].session].at + Lifetime

\* The audit log is right: one USER_LOGIN for every session there has been and
\* one USER_DEACTIVATE for a deactivated user, also when two requests of two
\* sessions deactivate at once (deactivateUser, deleteUserInTx).
AuditTrue ==
    \A a \in Account :
        /\ audit[a].login = Cardinality({s \in Session : login[s].account = a})
        /\ audit[a].deactivate = IF user[a].state = "deleted" THEN 1 ELSE 0

\* A session that has no token, and no refresh that has read one.
Ended(s) ==
    /\ \A t \in Token : row[t].session # s
    /\ \A p \in Proc : job[p].pc \in RefreshPC => job[p].session # s

\* A session that has ended, by logout, deactivation or a refresh that failed
\* half-way, has ended for good: only a refresh that had read a token before
\* can give it one again, no old cookie and no later login does.
EndedStaysEnded ==
    [][\A s \in Session : Issued(s) /\ Ended(s) => Ended(s)']_vars
=============================================================================
