------------------------------ MODULE Sessions ------------------------------
(* The web sessions of the server (src/backend/src/auth/): their deadlines,  *)
(* and the transactions that create and revoke them, one PostgreSQL statement *)
(* per action under READ COMMITTED with the row locks the statements take.    *)
(*                                                                            *)
(* A credential is the session it opens: 256 random bits of which the server  *)
(* keeps a hash. Passwords are not modelled: a handler starts once the        *)
(* password was accepted. Nothing in src/ changes a password.                 *)
EXTENDS Naturals, Sequences

CONSTANTS
    Users,          \* e-mail addresses, registered or not
    SessionIds,     \* bounds the sessions ever created
    Handlers,       \* requests running at the same time
    Idle, Absolute, \* lifetimes of standard (FALSE) and persistent (TRUE) sessions
    MaxTime,        \* bounds the clock
    NoRow, Pruned,  \* a row not yet inserted, a row deleted
    NoSession,      \* no cookie
    NoTx,           \* no transaction
    Free            \* a row nobody locks

ASSUME PolicyAssumption ==
    /\ Idle \in [BOOLEAN -> Nat \ {0}]
    /\ Absolute \in [BOOLEAN -> Nat \ {0}]
    /\ \A persistent \in BOOLEAN : Idle[persistent] <= Absolute[persistent]
    /\ MaxTime \in Nat

VARIABLES session, account, now, userLock, rowLock, tx
vars == <<session, account, now, userLock, rowLock, tx>>

SessionRow == [user : Users, persistent : BOOLEAN, createdAt : Nat, lastSeenAt : Nat,
               idleExpiresAt : Nat, expiresAt : Nat, revoked : BOOLEAN]

ASSUME RowsDiffer ==
    /\ NoRow \notin SessionRow \union {Pruned}
    /\ Pruned \notin SessionRow
    /\ NoSession \notin SessionIds
    /\ Free \notin Handlers

\* Mutant of Statements: a login revokes its cookie before it locks the account.
StatementsSessionFirst ==
    [register  |-> <<"createUser", "insert", "revokePrevious", "commit">>,
     login     |-> <<"revokePrevious", "lockUser", "insert", "commit">>,
     logoutAll |-> <<"lockUser", "lockSession", "snapshot", "sweep", "commit">>]

(* The statements of the transactions, in the order the code sends them. A    *)
(* registration inserts its User row, which locks it as a login does.         *)
Statements ==
    [register  |-> <<"createUser", "insert", "revokePrevious", "commit">>,
     login     |-> <<"lockUser", "insert", "revokePrevious", "commit">>,
     logoutAll |-> <<"lockUser", "lockSession", "snapshot", "sweep", "commit">>]

Tx == [kind : DOMAIN Statements, step : Nat, user : Users, persistent : BOOLEAN,
       credential : SessionIds \union {NoSession}, \* the cookie of the request
       id : SessionIds \union {NoSession}, row : SessionRow \union {NoRow}, \* to insert
       todo : SUBSET SessionIds,                    \* rows the sweep has not reached
       revoked : SUBSET SessionIds]                 \* revocations not yet committed

ASSUME NoTxAssumption == NoTx \notin Tx

LockHolders == {userLock[u] : u \in Users} \union {rowLock[s] : s \in SessionIds}

\* The types of the rows, and only running transactions hold locks.
TypeOK ==
    /\ session \in [SessionIds -> SessionRow \union {NoRow, Pruned}]
    /\ account \in SUBSET Users
    /\ now \in 0..MaxTime
    /\ userLock \in [Users -> Handlers \union {Free}]
    /\ rowLock \in [SessionIds -> Handlers \union {Free}]
    /\ tx \in [Handlers -> Tx \union {NoTx}]
    /\ \A h \in Handlers : tx[h] = NoTx => h \notin LockHolders

Init ==
    /\ session = [s \in SessionIds |-> NoRow]
    /\ account = {}
    /\ now = 0
    /\ userLock = [u \in Users |-> Free]
    /\ rowLock = [s \in SessionIds |-> Free]
    /\ tx = [h \in Handlers |-> NoTx]

-----------------------------------------------------------------------------
(* State formulae. *)

Exists(s) == session[s] \in SessionRow
Credentials == {s \in SessionIds : session[s] # NoRow}

\* Mutant of WithinDeadlines: inactivity forgotten.
WithinLifetime(row) == row.expiresAt > now

WithinDeadlines(row) == row.idleExpiresAt > now /\ row.expiresAt > now
Live(s) == Exists(s) /\ ~session[s].revoked /\ WithinDeadlines(session[s])

Least(a, b) == IF a <= b THEN a ELSE b
Greatest(a, b) == IF a >= b THEN a ELSE b

At(h, statement) ==
    /\ tx[h] # NoTx
    /\ Statements[tx[h].kind][tx[h].step] = statement

\* The next statement of h, with its tx as it becomes.
Proceed(h, next) == tx' = [tx EXCEPT ![h] = [next EXCEPT !.step = @ + 1]]

\* Mutant of LockUser: SELECT without FOR NO KEY UPDATE.
ReadUser(h, u) == UNCHANGED userLock

LockUser(h, u) ==
    /\ userLock[u] \in {Free, h}
    /\ userLock' = [userLock EXCEPT ![u] = h]
LockRow(h, s) ==
    /\ rowLock[s] \in {Free, h}
    /\ rowLock' = [rowLock EXCEPT ![s] = h]

\* Commit or rollback: the transaction gives its locks back.
Release(h) ==
    /\ tx' = [tx EXCEPT ![h] = NoTx]
    /\ userLock' = [u \in Users |-> IF userLock[u] = h THEN Free ELSE userLock[u]]
    /\ rowLock' = [s \in SessionIds |-> IF rowLock[s] = h THEN Free ELSE rowLock[s]]

Rollback(h) ==
    /\ Release(h)
    /\ UNCHANGED <<session, account, now>>

-----------------------------------------------------------------------------
(* Beginning: what is checked before the transaction. *)

Begin(h, kind, u, persistent, credential, id) ==
    /\ tx[h] = NoTx
    /\ tx' = [tx EXCEPT ![h] =
            [kind |-> kind, step |-> 1, user |-> u, persistent |-> persistent,
             credential |-> credential, id |-> id, row |-> NoRow,
             todo |-> {}, revoked |-> {}]]
    /\ UNCHANGED <<session, account, now, userLock, rowLock>>

\* An identifier nobody drew, for a session to come.
Fresh(s) ==
    /\ session[s] = NoRow
    /\ \A h \in Handlers : tx[h] # NoTx => tx[h].id # s

BeginRegister(h, u, credential, id) ==
    /\ u \notin account
    /\ Fresh(id)
    /\ Begin(h, "register", u, FALSE, credential, id)

BeginLogin(h, u, persistent, credential, id) ==
    /\ u \in account
    /\ Fresh(id)
    /\ Begin(h, "login", u, persistent, credential, id)

BeginLogoutAll(h, credential) ==
    /\ Live(credential)
    /\ Begin(h, "logoutAll", session[credential].user, FALSE, credential, NoSession)

-----------------------------------------------------------------------------
(* Statements. *)

\* The unique e-mail makes a second registration wait for the first.
CreateUser(h) ==
    /\ At(h, "createUser")
    /\ LET u == tx[h].user IN
         \/ /\ u \notin account
            /\ LockUser(h, u)
            /\ Proceed(h, tx[h])
            /\ UNCHANGED <<session, account, now, rowLock>>
         \/ /\ u \in account
            /\ Rollback(h)

\* Mutant of LockAccount: a login does not lock, only the global logout does.
LockAccountForLogoutAll(h) ==
    /\ At(h, "lockUser")
    /\ IF tx[h].kind = "login" THEN UNCHANGED userLock ELSE LockUser(h, tx[h].user)
    /\ Proceed(h, tx[h])
    /\ UNCHANGED <<session, account, now, rowLock>>

LockAccount(h) ==
    /\ At(h, "lockUser")
    /\ LockUser(h, tx[h].user)
    /\ Proceed(h, tx[h])
    /\ UNCHANGED <<session, account, now, rowLock>>

NewRow(u, persistent) ==
    [user |-> u, persistent |-> persistent, createdAt |-> now, lastSeenAt |-> now,
     idleExpiresAt |-> now + Idle[persistent], expiresAt |-> now + Absolute[persistent],
     revoked |-> FALSE]

Insert(h) ==
    /\ At(h, "insert")
    /\ Proceed(h, [tx[h] EXCEPT !.row = NewRow(tx[h].user, tx[h].persistent)])
    /\ UNCHANGED <<session, account, now, userLock, rowLock>>

\* UPDATE ... WHERE "revokedAt" IS NULL waits for a row it found, then reads it
\* again: a row revoked meanwhile is left alone.
RevokePrevious(h) ==
    /\ At(h, "revokePrevious")
    /\ LET s == tx[h].credential IN
         IF s \in SessionIds /\ Exists(s) /\ ~session[s].revoked
         THEN /\ LockRow(h, s)
              /\ Proceed(h, [tx[h] EXCEPT !.revoked = @ \union {s}])
         ELSE /\ Proceed(h, tx[h])
              /\ UNCHANGED rowLock
    /\ UNCHANGED <<session, account, now, userLock>>

LockSession(h) ==
    /\ At(h, "lockSession")
    /\ LET s == tx[h].credential IN
         \/ /\ Live(s)
            /\ LockRow(h, s)
            /\ Proceed(h, tx[h])
            /\ UNCHANGED <<session, account, now, userLock>>
         \/ /\ ~Live(s)
            /\ rowLock[s] = Free
            /\ Rollback(h)

\* The rows the revokeAll statement sees: its snapshot is taken as it starts.
Unrevoked(u) == {s \in SessionIds :
    Exists(s) /\ session[s].user = u /\ ~session[s].revoked}

Snapshot(h) ==
    /\ At(h, "snapshot")
    /\ Proceed(h, [tx[h] EXCEPT !.todo = Unrevoked(tx[h].user)])
    /\ UNCHANGED <<session, account, now, userLock, rowLock>>

\* One row after another, each waited for and then read again.
Sweep(h) ==
    /\ At(h, "sweep")
    /\ \/ /\ tx[h].todo = {}
          /\ Proceed(h, tx[h])
          /\ UNCHANGED rowLock
       \/ \E s \in tx[h].todo :
            /\ LockRow(h, s)
            /\ tx' = [tx EXCEPT ![h].todo = @ \ {s}, ![h].revoked = @ \union {s}]
    /\ UNCHANGED <<session, account, now, userLock>>

Commit(h) ==
    /\ At(h, "commit")
    /\ session' = [s \in SessionIds |->
            IF s = tx[h].id THEN tx[h].row
            ELSE IF s \in tx[h].revoked /\ Exists(s)
                 THEN [session[s] EXCEPT !.revoked = TRUE]
                 ELSE session[s]]
    /\ account' = account \union {tx[h].user}
    /\ Release(h)
    /\ UNCHANGED now

\* The connection or the process is lost, or the request is cancelled.
Abort(h) ==
    /\ tx[h] # NoTx
    /\ Rollback(h)

-----------------------------------------------------------------------------
(* Requests of one statement, which waits for the row. *)

\* Mutant of Renewed: no LEAST against the lifetime.
RenewedForever(row, later) ==
    [row EXCEPT
        !.lastSeenAt = Greatest(row.lastSeenAt, later),
        !.idleExpiresAt = Greatest(row.idleExpiresAt, later + Idle[row.persistent])]

Renewed(row, later) ==
    [row EXCEPT
        !.lastSeenAt = Least(row.expiresAt, Greatest(row.lastSeenAt, later)),
        !.idleExpiresAt = Least(row.expiresAt,
            Greatest(row.idleExpiresAt, later + Idle[row.persistent]))]

\* The deadlines are compared with one reading of the clock and renewed from
\* a later one.
Authenticate(s) ==
    /\ Live(s)
    /\ rowLock[s] = Free
    /\ \E later \in {now, now + 1} \intersect (0..MaxTime) :
         /\ session' = [session EXCEPT ![s] = Renewed(@, later)]
         /\ now' = later
    /\ UNCHANGED <<account, userLock, rowLock, tx>>

Logout(s) ==
    /\ Live(s)
    /\ rowLock[s] = Free
    /\ session' = [session EXCEPT ![s].revoked = TRUE]
    /\ UNCHANGED <<account, now, userLock, rowLock, tx>>

\* Nothing calls it in src/: an operator may, at any moment. SKIP LOCKED.
Prune ==
    LET dead == {s \in SessionIds : Exists(s) /\ ~Live(s) /\ rowLock[s] = Free} IN
    /\ dead # {}
    /\ session' = [s \in SessionIds |-> IF s \in dead THEN Pruned ELSE session[s]]
    /\ UNCHANGED <<account, now, userLock, rowLock, tx>>

Tick ==
    /\ now < MaxTime
    /\ now' = now + 1
    /\ UNCHANGED <<session, account, userLock, rowLock, tx>>

-----------------------------------------------------------------------------
Statement(h) ==
    \/ CreateUser(h)
    \/ LockAccount(h)
    \/ Insert(h)
    \/ RevokePrevious(h)
    \/ LockSession(h)
    \/ Snapshot(h)
    \/ Sweep(h)
    \/ Commit(h)

Next ==
    \/ \E h \in Handlers :
         \/ \E u \in Users, credential \in Credentials \union {NoSession}, id \in SessionIds :
              \/ BeginRegister(h, u, credential, id)
              \/ \E persistent \in BOOLEAN : BeginLogin(h, u, persistent, credential, id)
         \/ \E credential \in Credentials : BeginLogoutAll(h, credential)
         \/ Statement(h)
         \/ Abort(h)
    \/ \E s \in SessionIds : Authenticate(s) \/ Logout(s)
    \/ Prune
    \/ Tick

Spec == Init /\ [][Next]_vars

(* PostgreSQL grants a row in the order it was asked for, hence strong        *)
(* fairness of a statement that waits; no request need ever be made or fail.  *)
FairSpec == Spec /\ \A h \in Handlers : SF_vars(Statement(h))

-----------------------------------------------------------------------------
(* Properties. *)

\* The CHECK of the table, and the lifetime fixed at sign-in.
InOrder(row) ==
    /\ row.createdAt <= row.lastSeenAt
    /\ row.lastSeenAt <= row.idleExpiresAt
    /\ row.idleExpiresAt <= row.expiresAt
    /\ row.createdAt < row.idleExpiresAt
    /\ row.expiresAt = row.createdAt + Absolute[row.persistent]

(* The CHECK of the table never fails, whatever renewals raced: the deadlines *)
(* stay in order and no renewal goes past the lifetime fixed at sign-in       *)
(* (session.service.ts 102-108, migration 20261020095600_web_sessions).       *)
TimelineHolds == \A s \in SessionIds : Exists(s) => InOrder(session[s])

Dead(s) ==
    \/ session[s] = Pruned
    \/ /\ Exists(s)
       /\ \/ session[s].revoked
          \/ session[s].idleExpiresAt <= now
          \/ session[s].expiresAt <= now

(* A session revoked, expired or deleted never opens again, not even for a    *)
(* request that waited for its row ("waiting must never renew an expired      *)
(* row", session.service.ts 90).                                              *)
DeadStaysDead == [][\A s \in SessionIds : Dead(s) => Dead(s)']_vars

(* "Creation and global revocation serialize on the same user row" (session.  *)
(* service.ts 134): when a global logout is about to commit it has revoked    *)
(* every session of its account, the ones signed in meanwhile included.       *)
GlobalLogoutReachesAll ==
    \A h \in Handlers :
        At(h, "commit") /\ tx[h].kind = "logoutAll"
            => Unrevoked(tx[h].user) \subseteq tx[h].revoked

(* Two registrations of one address: the second never gets past its insertion *)
(* while the first may still commit (auth.service.ts 56-67, 97-102).          *)
RegistersOnce ==
    \A h \in Handlers :
        tx[h] # NoTx /\ tx[h].kind = "register" /\ tx[h].step > 1
            => tx[h].user \notin account

-----------------------------------------------------------------------------
\* What is left of a session, as its owner and its browser see it.
State(s) ==
    IF session[s] = NoRow THEN "unborn"
    ELSE IF session[s] = Pruned THEN "deleted"
    ELSE IF session[s].revoked THEN "revoked"
    ELSE IF Dead(s) THEN "expired"
    ELSE "live"

Service == INSTANCE SessionService WITH
    Accounts <- Users,
    Ids <- SessionIds,
    Nobody <- NoRow,
    registered <- account,
    state <- [s \in SessionIds |-> State(s)],
    owner <- [s \in SessionIds |-> IF Exists(s) THEN session[s].user ELSE NoRow]

(* The transactions, interleaved statement by statement, act on accounts and  *)
(* sessions as if every request ran alone (SessionService): a sign-in and a   *)
(* global logout happen at once, when they commit, and to the sessions of     *)
(* that moment.                                                               *)
ImplementsService == Service!ServiceSpec

-----------------------------------------------------------------------------
(* No request waits forever: the User row is always taken before Session rows *)
(* (session.service.ts 148), so waits never form a cycle.                     *)
RequestsEnd == \A h \in Handlers : tx[h] # NoTx ~> tx[h] = NoTx
=============================================================================
