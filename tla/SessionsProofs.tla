--------------------------- MODULE SessionsProofs ---------------------------
(* Proofs about Sessions, for any number of accounts, sessions and requests   *)
(* and any policy. The inductive invariant has four parts: the types, the     *)
(* account lock every transaction holds from its first statement on, the      *)
(* identifier that only one transaction may insert, and the coverage of a     *)
(* global logout from its snapshot on. Two more facts follow: who holds which *)
(* row, so that waits never form a cycle, and what a request knows of its     *)
(* account, so that the transactions implement SessionService.                *)
EXTENDS Sessions, TLAPS

Running(h) == tx[h] # NoTx

TxTypes ==
    \A h \in Handlers : Running(h) => tx[h].step \in 1..Len(Statements[tx[h].kind])

HoldsAccount ==
    \A h \in Handlers : Running(h) /\ tx[h].step > 1 => userLock[tx[h].user] = h

OwnIdentifier ==
    \A h \in Handlers : Running(h) =>
        /\ tx[h].kind = "logoutAll" =>
              tx[h].id = NoSession /\ tx[h].row = NoRow /\ tx[h].credential \in SessionIds
        /\ tx[h].row # NoRow => tx[h].step > 1 /\ tx[h].row.user = tx[h].user
        /\ tx[h].id # NoSession =>
              /\ session[tx[h].id] = NoRow
              /\ \A other \in Handlers \ {h} : Running(other) => tx[other].id # tx[h].id

Covered ==
    \A h \in Handlers :
        Running(h) /\ tx[h].kind = "logoutAll" /\ tx[h].step > 3 =>
            /\ Unrevoked(tx[h].user) \subseteq tx[h].todo \union tx[h].revoked
            /\ tx[h].step = 5 => tx[h].todo = {}

Inv == TypeOK /\ TxTypes /\ HoldsAccount /\ OwnIdentifier /\ Covered

-----------------------------------------------------------------------------
(* Which statement a position stands for. *)

LEMMA Positions ==
    ASSUME NEW h \in Handlers, Running(h), tx[h] \in Tx,
           tx[h].step \in 1..Len(Statements[tx[h].kind])
    PROVE  /\ At(h, "createUser") => tx[h].kind = "register" /\ tx[h].step = 1
           /\ At(h, "lockUser") => tx[h].kind # "register" /\ tx[h].step = 1
           /\ At(h, "insert") => tx[h].kind # "logoutAll" /\ tx[h].step = 2
           /\ At(h, "revokePrevious") => tx[h].kind # "logoutAll" /\ tx[h].step = 3
           /\ At(h, "lockSession") => tx[h].kind = "logoutAll" /\ tx[h].step = 2
           /\ At(h, "snapshot") => tx[h].kind = "logoutAll" /\ tx[h].step = 3
           /\ At(h, "sweep") => tx[h].kind = "logoutAll" /\ tx[h].step = 4
           /\ At(h, "commit") => tx[h].step = Len(Statements[tx[h].kind])
           /\ tx[h].kind = "logoutAll" => Len(Statements[tx[h].kind]) = 5
           /\ tx[h].kind # "logoutAll" => Len(Statements[tx[h].kind]) = 4
<1>1. tx[h].kind \in {"register", "login", "logoutAll"}
  BY DEF Tx, Statements
<1>2. CASE tx[h].kind = "register"
  <2>1. Statements[tx[h].kind] = <<"createUser", "insert", "revokePrevious", "commit">>
    BY <1>2 DEF Statements
  <2>2. tx[h].step \in {1, 2, 3, 4}
    BY <2>1
  <2>. QED
    BY <1>2, <2>1, <2>2 DEF At
<1>3. CASE tx[h].kind = "login"
  <2>1. Statements[tx[h].kind] = <<"lockUser", "insert", "revokePrevious", "commit">>
    BY <1>3 DEF Statements
  <2>2. tx[h].step \in {1, 2, 3, 4}
    BY <2>1
  <2>. QED
    BY <1>3, <2>1, <2>2 DEF At
<1>4. CASE tx[h].kind = "logoutAll"
  <2>1. Statements[tx[h].kind] = <<"lockUser", "lockSession", "snapshot", "sweep", "commit">>
    BY <1>4 DEF Statements
  <2>2. tx[h].step \in {1, 2, 3, 4, 5}
    BY <2>1
  <2>. QED
    BY <1>4, <2>1, <2>2 DEF At
<1>. QED
  BY <1>1, <1>2, <1>3, <1>4

\* Every position but the last has a next one, and the last is the commit.
LEMMA NextPosition ==
    ASSUME NEW h \in Handlers, Running(h), tx[h] \in Tx,
           tx[h].step \in 1..Len(Statements[tx[h].kind]), ~At(h, "commit")
    PROVE  tx[h].step + 1 \in 1..Len(Statements[tx[h].kind])
<1>1. tx[h].kind \in {"register", "login", "logoutAll"}
  BY DEF Tx, Statements
<1>2. /\ Len(Statements[tx[h].kind]) \in Nat
      /\ Statements[tx[h].kind][Len(Statements[tx[h].kind])] = "commit"
  <2>1. CASE tx[h].kind = "register"
    BY <2>1 DEF Statements
  <2>2. CASE tx[h].kind = "login"
    BY <2>2 DEF Statements
  <2>3. CASE tx[h].kind = "logoutAll"
    BY <2>3 DEF Statements
  <2>. QED
    BY <1>1, <2>1, <2>2, <2>3
<1>3. tx[h].step # Len(Statements[tx[h].kind])
  BY <1>2 DEF At, Running
<1>. QED
  BY <1>2, <1>3

-----------------------------------------------------------------------------
(* What the pieces of the actions do to the transactions and the locks. *)

LEMMA Kinds == DOMAIN Statements = {"register", "login", "logoutAll"}
BY DEF Statements

\* A transaction that goes on keeps its request, and the others do not move.
Advances(h, n) ==
    /\ tx' \in [Handlers -> Tx \union {NoTx}]
    /\ Running(h) /\ Running(h)'
    /\ \A o \in Handlers \ {h} : tx'[o] = tx[o]
    /\ tx'[h].kind = tx[h].kind
    /\ tx'[h].user = tx[h].user
    /\ tx'[h].id = tx[h].id
    /\ tx'[h].credential = tx[h].credential
    /\ tx'[h].step = n

LEMMA ProceedAdvances ==
    ASSUME TypeOK, NEW h \in Handlers, Running(h), NEW next \in Tx, Proceed(h, next),
           next.kind = tx[h].kind, next.user = tx[h].user, next.id = tx[h].id,
           next.credential = tx[h].credential, next.step = tx[h].step
    PROVE  /\ Advances(h, tx[h].step + 1)
           /\ tx'[h].row = next.row
           /\ tx'[h].todo = next.todo
           /\ tx'[h].revoked = next.revoked
<1>1. tx'[h] = [next EXCEPT !.step = @ + 1]
  BY DEF Proceed, TypeOK
<1>2. tx'[h] \in Tx
  BY <1>1 DEF Tx
<1>3. tx'[h] # NoTx
  BY <1>2, NoTxAssumption
<1>4. tx' \in [Handlers -> Tx \union {NoTx}]
  BY <1>2, <1>1 DEF Proceed, TypeOK
<1>5. \A o \in Handlers \ {h} : tx'[o] = tx[o]
  BY DEF Proceed, TypeOK
<1>6. /\ tx'[h].kind = next.kind
      /\ tx'[h].user = next.user
      /\ tx'[h].id = next.id
      /\ tx'[h].credential = next.credential
      /\ tx'[h].step = next.step + 1
      /\ tx'[h].row = next.row
      /\ tx'[h].todo = next.todo
      /\ tx'[h].revoked = next.revoked
  BY <1>1 DEF Tx
<1>. QED
  BY <1>3, <1>4, <1>5, <1>6 DEF Advances, Running

\* An account lock is never taken from its holder.
LEMMA LockUserFacts ==
    ASSUME TypeOK, NEW h \in Handlers, NEW u \in Users, LockUser(h, u)
    PROVE  /\ userLock' \in [Users -> Handlers \union {Free}]
           /\ userLock'[u] = h
           /\ \A v \in Users, o \in Handlers : userLock[v] = o => userLock'[v] = o
           /\ \A v \in Users : userLock'[v] \in {userLock[v], h}
BY RowsDiffer DEF TypeOK, LockUser

LEMMA LockRowFacts ==
    ASSUME TypeOK, NEW h \in Handlers, NEW s \in SessionIds, LockRow(h, s)
    PROVE  /\ rowLock' \in [SessionIds -> Handlers \union {Free}]
           /\ \A r \in SessionIds : rowLock'[r] \in {rowLock[r], h}
BY DEF TypeOK, LockRow

LEMMA ReleaseFacts ==
    ASSUME TypeOK, NEW h \in Handlers, Release(h)
    PROVE  /\ tx' \in [Handlers -> Tx \union {NoTx}]
           /\ ~Running(h)'
           /\ \A o \in Handlers \ {h} : tx'[o] = tx[o]
           /\ userLock' \in [Users -> Handlers \union {Free}]
           /\ rowLock' \in [SessionIds -> Handlers \union {Free}]
           /\ \A u \in Users, o \in Handlers \ {h} : userLock[u] = o => userLock'[u] = o
           /\ \A u \in Users : userLock'[u] \in {userLock[u], Free} \ {h}
           /\ \A s \in SessionIds : rowLock'[s] \in {rowLock[s], Free} \ {h}
BY RowsDiffer DEF TypeOK, Release, Running

(* The locks of a step: none is granted to a handler that is not running. *)
LEMMA HoldersAfter ==
    ASSUME TypeOK, NEW h \in Handlers,
           \A o \in Handlers \ {h} : tx'[o] = tx[o],
           \A u \in Users : userLock'[u] \in {userLock[u], Free, h},
           \A s \in SessionIds : rowLock'[s] \in {rowLock[s], Free, h},
           tx'[h] = NoTx => /\ \A u \in Users : userLock'[u] # h
                            /\ \A s \in SessionIds : rowLock'[s] # h
    PROVE  \A o \in Handlers : tx'[o] = NoTx => o \notin LockHolders'
BY RowsDiffer DEF TypeOK, LockHolders

(* A statement that leaves the Session table alone keeps the invariant if it  *)
(* holds the account, inserts for it, and covers what a global logout must.   *)
LEMMA AdvancePreserves ==
    ASSUME Inv, NEW h \in Handlers, NEW n \in 1..Len(Statements[tx[h].kind]),
           Advances(h, n), session' = session,
           \A v \in Users, o \in Handlers : userLock[v] = o => userLock'[v] = o,
           n > 1 => userLock'[tx[h].user] = h,
           tx'[h].row # NoRow =>
               n > 1 /\ tx'[h].row.user = tx[h].user /\ tx[h].kind # "logoutAll",
           tx[h].kind = "logoutAll" /\ n > 3 =>
               /\ Unrevoked(tx[h].user) \subseteq tx'[h].todo \union tx'[h].revoked
               /\ n = 5 => tx'[h].todo = {}
    PROVE  TxTypes' /\ HoldsAccount' /\ OwnIdentifier' /\ Covered'
<1>1. /\ \A o \in Handlers \ {h} : tx'[o] = tx[o]
      /\ tx[h] # NoTx /\ tx'[h] # NoTx
      /\ tx'[h].kind = tx[h].kind /\ tx'[h].user = tx[h].user
      /\ tx'[h].id = tx[h].id /\ tx'[h].step = n
      /\ tx'[h].credential = tx[h].credential
  BY DEF Advances, Running
<1>2. TxTypes'
  BY <1>1 DEF TxTypes, Inv, Running
<1>3. HoldsAccount'
  <2>. SUFFICES ASSUME NEW o \in Handlers, tx'[o] # NoTx, tx'[o].step > 1
                PROVE  userLock'[tx'[o].user] = o
    BY DEF HoldsAccount, Running
  <2>1. CASE o = h
    BY <2>1, <1>1
  <2>2. CASE o # h
    <3>1. tx[o] \in Tx /\ tx[o].user \in Users
      BY <2>2, <1>1 DEF Inv, TypeOK, Tx
    <3>. QED
      BY <2>2, <3>1, <1>1 DEF Inv, HoldsAccount, Running
  <2>. QED
    BY <2>1, <2>2
<1>4. OwnIdentifier'
  BY <1>1 DEF Inv, OwnIdentifier, Running
<1>5. Covered'
  <2>. SUFFICES ASSUME NEW o \in Handlers, tx'[o] # NoTx, tx'[o].kind = "logoutAll",
                       tx'[o].step > 3
                PROVE  /\ Unrevoked(tx[o].user)' \subseteq tx'[o].todo \union tx'[o].revoked
                       /\ tx'[o].step = 5 => tx'[o].todo = {}
    BY DEF Covered, Running
  <2>1. CASE o = h
    BY <2>1, <1>1 DEF Unrevoked, Exists
  <2>2. CASE o # h
    BY <2>2, <1>1 DEF Inv, Covered, Running, Unrevoked, Exists
  <2>. QED
    BY <2>1, <2>2
<1>. QED
  BY <1>2, <1>3, <1>4, <1>5

(* A transaction that ends without a trace. *)
LEMMA RollbackPreserves ==
    ASSUME Inv, NEW h \in Handlers, Rollback(h)
    PROVE  Inv'
<1>1. /\ session' = session /\ account' = account /\ now' = now
      /\ Release(h)
  BY DEF Rollback
<1>2. /\ tx' \in [Handlers -> Tx \union {NoTx}]
      /\ tx'[h] = NoTx
      /\ \A o \in Handlers \ {h} : tx'[o] = tx[o]
      /\ userLock' \in [Users -> Handlers \union {Free}]
      /\ rowLock' \in [SessionIds -> Handlers \union {Free}]
      /\ \A u \in Users, o \in Handlers \ {h} : userLock[u] = o => userLock'[u] = o
      /\ \A u \in Users : userLock'[u] \in {userLock[u], Free} \ {h}
      /\ \A s \in SessionIds : rowLock'[s] \in {rowLock[s], Free} \ {h}
  BY <1>1, ReleaseFacts DEF Inv, Running
<1>3. \A o \in Handlers : tx'[o] = NoTx => o \notin LockHolders'
  BY <1>2, HoldersAfter DEF Inv
<1>4. TypeOK'
  BY <1>1, <1>2, <1>3 DEF TypeOK, Inv
<1>5. TxTypes' /\ OwnIdentifier'
  BY <1>1, <1>2 DEF TxTypes, OwnIdentifier, Running, Inv
<1>6. HoldsAccount'
  <2>. SUFFICES ASSUME NEW o \in Handlers \ {h}, tx[o] # NoTx, tx[o].step > 1
                PROVE  userLock'[tx[o].user] = o
    BY <1>2 DEF HoldsAccount, Running
  <2>1. tx[o] \in Tx /\ tx[o].user \in Users
    BY DEF Inv, TypeOK, Tx
  <2>. QED
    BY <2>1, <1>2 DEF Inv, HoldsAccount, Running
<1>7. Covered'
  BY <1>1, <1>2 DEF Covered, Running, Inv, Unrevoked, Exists
<1>. QED
  BY <1>4, <1>5, <1>6, <1>7 DEF Inv

(* A step without a transaction: it revokes, renews or deletes sessions.      *)
LEMMA RequestPreserves ==
    ASSUME Inv, UNCHANGED <<account, userLock, rowLock, tx>>, now' \in 0..MaxTime,
           session' \in [SessionIds -> SessionRow \union {NoRow, Pruned}],
           \A s \in SessionIds : session[s] = NoRow => session'[s] = NoRow,
           \A u \in Users : Unrevoked(u)' \subseteq Unrevoked(u)
    PROVE  Inv'
<1>1. TypeOK'
  BY DEF Inv, TypeOK, LockHolders
<1>2. TxTypes' /\ HoldsAccount'
  BY DEF Inv, TxTypes, HoldsAccount, Running
<1>3. OwnIdentifier'
  <2>. SUFFICES ASSUME NEW h \in Handlers, tx[h] # NoTx, tx[h].id # NoSession
                PROVE  session'[tx[h].id] = NoRow
    BY DEF Inv, OwnIdentifier, Running
  <2>1. tx[h].id \in SessionIds
    BY DEF Inv, TypeOK, Tx
  <2>. QED
    BY <2>1 DEF Inv, OwnIdentifier, Running
<1>4. Covered'
  <2>. SUFFICES ASSUME NEW h \in Handlers, tx[h] # NoTx, tx[h].kind = "logoutAll",
                       tx[h].step > 3
                PROVE  Unrevoked(tx[h].user)' \subseteq tx[h].todo \union tx[h].revoked
    BY DEF Inv, Covered, Running, Unrevoked, Exists
  <2>1. tx[h].user \in Users
    BY DEF Inv, TypeOK, Tx
  <2>. QED
    BY <2>1 DEF Inv, Covered, Running
<1>. QED
  BY <1>1, <1>2, <1>3, <1>4 DEF Inv

-----------------------------------------------------------------------------
(* One lemma per group of actions. *)

LEMMA BeginPreserves ==
    ASSUME Inv, NEW h \in Handlers, NEW kind \in DOMAIN Statements, NEW u \in Users,
           NEW persistent \in BOOLEAN, NEW credential \in SessionIds \union {NoSession},
           NEW id \in SessionIds \union {NoSession}, Begin(h, kind, u, persistent, credential, id),
           id # NoSession => Fresh(id),
           kind = "logoutAll" => id = NoSession /\ credential \in SessionIds
    PROVE  Inv'
<1>. DEFINE begun == [kind |-> kind, step |-> 1, user |-> u, persistent |-> persistent,
                      credential |-> credential, id |-> id, row |-> NoRow,
                      todo |-> {}, revoked |-> {}]
<1>1. begun \in Tx
  BY DEF Tx
<1>2. /\ begun.kind = kind /\ begun.step = 1 /\ begun.user = u
      /\ begun.id = id /\ begun.row = NoRow /\ begun.credential = credential
  OBVIOUS
<1>3. /\ tx' = [tx EXCEPT ![h] = begun]
      /\ tx[h] = NoTx
      /\ UNCHANGED <<session, account, now, userLock, rowLock>>
  BY DEF Begin
<1>. HIDE DEF begun
<1>4. /\ tx' \in [Handlers -> Tx \union {NoTx}]
      /\ tx'[h] = begun
      /\ \A o \in Handlers \ {h} : tx'[o] = tx[o]
  BY <1>1, <1>3 DEF Inv, TypeOK
<1>5. begun # NoTx
  BY <1>1, NoTxAssumption
<1>6. \A o \in Handlers : tx'[o] = NoTx => o \notin LockHolders'
  BY <1>3, <1>4, <1>5, HoldersAfter DEF Inv, TypeOK
<1>7. TypeOK'
  BY <1>3, <1>4, <1>6 DEF Inv, TypeOK
<1>8. TxTypes'
  <2>1. 1 \in 1..Len(Statements[kind])
    <3>1. kind \in {"register", "login", "logoutAll"}
      BY Kinds
    <3>2. CASE kind = "register"
      BY <3>2 DEF Statements
    <3>3. CASE kind = "login"
      BY <3>3 DEF Statements
    <3>4. CASE kind = "logoutAll"
      BY <3>4 DEF Statements
    <3>. QED
      BY <3>1, <3>2, <3>3, <3>4
  <2>. QED
    BY <2>1, <1>2, <1>4 DEF Inv, TxTypes, Running
<1>9. HoldsAccount'
  BY <1>2, <1>3, <1>4 DEF Inv, HoldsAccount, Running
<1>10. OwnIdentifier'
  <2>1. id # NoSession =>
           /\ session[id] = NoRow
           /\ \A o \in Handlers : tx[o] # NoTx => tx[o].id # id
    BY DEF Fresh
  <2>. QED
    BY <2>1, <1>2, <1>3, <1>4 DEF Inv, OwnIdentifier, Running
<1>11. Covered'
  <2>1. \A o \in Handlers : tx'[o] # NoTx /\ tx'[o].step > 3 => o # h
    BY <1>2, <1>4
  <2>. QED
    BY <2>1, <1>3, <1>4 DEF Inv, Covered, Running, Unrevoked, Exists
<1>. QED
  BY <1>7, <1>8, <1>9, <1>10, <1>11 DEF Inv

(* The statements before the end of a transaction. Each goes on with the same *)
(* request, one position further except in the sweep.                         *)
LEMMA StatementPreserves ==
    ASSUME Inv, NEW h \in Handlers, Running(h), tx[h] \in Tx
    PROVE  /\ CreateUser(h) => Inv'
           /\ LockAccount(h) => Inv'
           /\ Insert(h) => Inv'
           /\ RevokePrevious(h) => Inv'
           /\ LockSession(h) => Inv'
           /\ Snapshot(h) => Inv'
           /\ Sweep(h) => Inv'
<1>. DEFINE t == tx[h]
<1>1. t.step \in 1..Len(Statements[t.kind])
  BY DEF Inv, TxTypes
<1>p. /\ At(h, "createUser") => t.kind = "register" /\ t.step = 1
      /\ At(h, "lockUser") => t.kind # "register" /\ t.step = 1
      /\ At(h, "insert") => t.kind # "logoutAll" /\ t.step = 2
      /\ At(h, "revokePrevious") => t.kind # "logoutAll" /\ t.step = 3
      /\ At(h, "lockSession") => t.kind = "logoutAll" /\ t.step = 2
      /\ At(h, "snapshot") => t.kind = "logoutAll" /\ t.step = 3
      /\ At(h, "sweep") => t.kind = "logoutAll" /\ t.step = 4
  BY <1>1, Positions
<1>q. \A statement \in {"createUser", "lockUser", "insert", "revokePrevious",
                        "lockSession", "snapshot", "sweep"} :
          At(h, statement) => t.step + 1 \in 1..Len(Statements[t.kind])
  <2>. SUFFICES ASSUME ~At(h, "commit")
                PROVE  t.step + 1 \in 1..Len(Statements[t.kind])
    BY DEF At
  <2>. QED
    BY <1>1, NextPosition
<1>2. /\ t.kind \in DOMAIN Statements /\ t.user \in Users /\ t.step \in Nat
      /\ t.credential \in SessionIds \union {NoSession}
      /\ t.row \in SessionRow \union {NoRow}
      /\ t.todo \in SUBSET SessionIds /\ t.revoked \in SUBSET SessionIds
  BY DEF Tx
<1>3. /\ t.step > 1 => userLock[t.user] = h
      /\ t.kind = "logoutAll" => t.row = NoRow
      /\ t.row # NoRow => t.step > 1 /\ t.row.user = t.user /\ t.kind # "logoutAll"
  BY DEF Inv, HoldsAccount, OwnIdentifier
<1>4. ASSUME At(h, "createUser") \/ At(h, "lockUser"), LockUser(h, t.user), Proceed(h, t),
             UNCHANGED <<session, account, now, rowLock>>
      PROVE  Inv'
  <2>1. t.step = 1 /\ t.step + 1 \in 1..Len(Statements[t.kind])
    <3>1. CASE At(h, "createUser")
      BY <1>p, <1>q, <3>1
    <3>2. CASE At(h, "lockUser")
      BY <1>p, <1>q, <3>2
    <3>. QED
      BY <1>4, <3>1, <3>2
  <2>2. /\ Advances(h, t.step + 1)
        /\ tx'[h].row = t.row /\ tx'[h].todo = t.todo /\ tx'[h].revoked = t.revoked
    BY <1>4, ProceedAdvances DEF Inv
  <2>3. /\ userLock' \in [Users -> Handlers \union {Free}]
        /\ userLock'[t.user] = h
        /\ \A v \in Users, o \in Handlers : userLock[v] = o => userLock'[v] = o
        /\ \A v \in Users : userLock'[v] \in {userLock[v], h}
    BY <1>2, <1>4, LockUserFacts DEF Inv
  <2>4. TxTypes' /\ HoldsAccount' /\ OwnIdentifier' /\ Covered'
    BY <1>3, <1>4, <2>1, <2>2, <2>3, AdvancePreserves
  <2>5. \A o \in Handlers : tx'[o] = NoTx => o \notin LockHolders'
    BY <1>4, <2>2, <2>3, HoldersAfter DEF Inv, Advances, Running
  <2>6. TypeOK'
    BY <1>4, <2>2, <2>3, <2>5 DEF Inv, TypeOK, Advances
  <2>. QED
    BY <2>4, <2>6 DEF Inv
<1>5. ASSUME CreateUser(h)
      PROVE  Inv'
  BY <1>4, <1>5, RollbackPreserves DEF CreateUser
<1>6. ASSUME LockAccount(h)
      PROVE  Inv'
  BY <1>4, <1>6 DEF LockAccount
<1>7. ASSUME Insert(h)
      PROVE  Inv'
  <2>. DEFINE row == NewRow(t.user, t.persistent)
              next == [t EXCEPT !.row = row]
  <2>1. t.persistent \in BOOLEAN /\ now \in Nat
    BY DEF Tx, Inv, TypeOK
  <2>2. row \in SessionRow /\ row.user = t.user
    BY <1>2, <2>1, PolicyAssumption DEF NewRow, SessionRow
  <2>. HIDE DEF row
  <2>3. /\ next \in Tx /\ next.kind = t.kind /\ next.user = t.user /\ next.id = t.id
        /\ next.credential = t.credential
        /\ next.step = t.step /\ next.row = row /\ next.todo = t.todo
        /\ next.revoked = t.revoked
    BY <2>2 DEF Tx
  <2>4. Proceed(h, next) /\ UNCHANGED <<session, account, now, userLock, rowLock>>
    BY <1>7 DEF Insert, row
  <2>. HIDE DEF next
  <2>5. t.step = 2 /\ t.kind # "logoutAll" /\ t.step + 1 \in 1..Len(Statements[t.kind])
    BY <1>p, <1>q, <1>7 DEF Insert
  <2>6. Advances(h, t.step + 1) /\ tx'[h].row = row
    BY <2>3, <2>4, ProceedAdvances DEF Inv
  <2>7. TxTypes' /\ HoldsAccount' /\ OwnIdentifier' /\ Covered'
    BY <1>3, <2>2, <2>4, <2>5, <2>6, AdvancePreserves
  <2>8. \A o \in Handlers : tx'[o] = NoTx => o \notin LockHolders'
    BY <2>4, <2>6, HoldersAfter DEF Inv, Advances, Running
  <2>9. TypeOK'
    BY <2>4, <2>6, <2>8 DEF Inv, TypeOK, Advances
  <2>. QED
    BY <2>7, <2>9 DEF Inv
<1>8. ASSUME RevokePrevious(h)
      PROVE  Inv'
  <2>1. t.step = 3 /\ t.kind # "logoutAll" /\ t.step + 1 \in 1..Len(Statements[t.kind])
    <3>1. At(h, "revokePrevious")
      BY <1>8 DEF RevokePrevious
    <3>. QED
      BY <1>p, <1>q, <3>1
  <2>2. PICK next \in Tx :
           /\ Proceed(h, next) /\ next.kind = t.kind /\ next.user = t.user
           /\ next.credential = t.credential /\ next.id = t.id /\ next.step = t.step /\ next.row = t.row
           /\ rowLock' \in [SessionIds -> Handlers \union {Free}]
           /\ \A s \in SessionIds : rowLock'[s] \in {rowLock[s], h}
    <3>1. CASE t.credential \in SessionIds /\ Exists(t.credential)
                  /\ ~session[t.credential].revoked
      <4>. DEFINE next == [t EXCEPT !.revoked = @ \union {t.credential}]
      <4>1. /\ next \in Tx /\ next.kind = t.kind /\ next.user = t.user /\ next.id = t.id
            /\ next.credential = t.credential
            /\ next.step = t.step /\ next.row = t.row
        BY <3>1 DEF Tx
      <4>2. Proceed(h, next) /\ LockRow(h, t.credential)
        BY <1>8, <3>1 DEF RevokePrevious
      <4>. HIDE DEF next
      <4>. QED
        BY <4>1, <4>2, <3>1, LockRowFacts DEF Inv
    <3>2. CASE ~(t.credential \in SessionIds /\ Exists(t.credential)
                  /\ ~session[t.credential].revoked)
      <4>1. Proceed(h, t) /\ UNCHANGED rowLock
        BY <1>8, <3>2 DEF RevokePrevious
      <4>. QED
        BY <4>1 DEF Inv, TypeOK
    <3>. QED
      BY <3>1, <3>2
  <2>3. UNCHANGED <<session, account, now, userLock>>
    BY <1>8 DEF RevokePrevious
  <2>4. Advances(h, t.step + 1) /\ tx'[h].row = t.row
    BY <2>2, ProceedAdvances DEF Inv
  <2>5. TxTypes' /\ HoldsAccount' /\ OwnIdentifier' /\ Covered'
    BY <1>3, <2>1, <2>3, <2>4, AdvancePreserves
  <2>6. \A o \in Handlers : tx'[o] = NoTx => o \notin LockHolders'
    BY <2>2, <2>3, <2>4, HoldersAfter DEF Inv, Advances, Running
  <2>7. TypeOK'
    BY <2>2, <2>3, <2>4, <2>6 DEF Inv, TypeOK, Advances
  <2>. QED
    BY <2>5, <2>7 DEF Inv
<1>9. ASSUME LockSession(h)
      PROVE  Inv'
  <2>1. CASE Rollback(h)
    BY <2>1, RollbackPreserves
  <2>2. CASE Live(t.credential) /\ LockRow(h, t.credential) /\ Proceed(h, t)
                /\ UNCHANGED <<session, account, now, userLock>>
    <3>1. t.step = 2 /\ t.kind = "logoutAll" /\ t.step + 1 \in 1..Len(Statements[t.kind])
      <4>1. At(h, "lockSession")
        BY <1>9 DEF LockSession
      <4>. QED
        BY <1>p, <1>q, <4>1
    <3>2. t.credential \in SessionIds
      BY <3>1 DEF Inv, OwnIdentifier
    <3>3. /\ rowLock' \in [SessionIds -> Handlers \union {Free}]
          /\ \A s \in SessionIds : rowLock'[s] \in {rowLock[s], h}
      BY <2>2, <3>2, LockRowFacts DEF Inv
    <3>4. Advances(h, t.step + 1) /\ tx'[h].row = t.row
      BY <2>2, ProceedAdvances DEF Inv
    <3>5. TxTypes' /\ HoldsAccount' /\ OwnIdentifier' /\ Covered'
      BY <1>3, <2>2, <3>1, <3>4, AdvancePreserves
    <3>6. \A o \in Handlers : tx'[o] = NoTx => o \notin LockHolders'
      BY <2>2, <3>3, <3>4, HoldersAfter DEF Inv, Advances, Running
    <3>7. TypeOK'
      BY <2>2, <3>3, <3>4, <3>6 DEF Inv, TypeOK, Advances
    <3>. QED
      BY <3>5, <3>7 DEF Inv
  <2>. QED
    BY <1>9, <2>1, <2>2 DEF LockSession
<1>10. ASSUME Snapshot(h)
       PROVE  Inv'
  <2>. DEFINE next == [t EXCEPT !.todo = Unrevoked(t.user)]
  <2>1. /\ next \in Tx /\ next.kind = t.kind /\ next.user = t.user /\ next.id = t.id
        /\ next.credential = t.credential
        /\ next.step = t.step /\ next.row = t.row /\ next.todo = Unrevoked(t.user)
    BY DEF Tx, Unrevoked
  <2>2. Proceed(h, next) /\ UNCHANGED <<session, account, now, userLock, rowLock>>
    BY <1>10 DEF Snapshot
  <2>. HIDE DEF next
  <2>3. t.step = 3 /\ t.kind = "logoutAll" /\ t.step + 1 \in 1..Len(Statements[t.kind])
    BY <1>p, <1>q, <1>10 DEF Snapshot
  <2>4. /\ Advances(h, t.step + 1) /\ tx'[h].row = t.row
        /\ tx'[h].todo = Unrevoked(t.user)
    BY <2>1, <2>2, ProceedAdvances DEF Inv
  <2>5. TxTypes' /\ HoldsAccount' /\ OwnIdentifier' /\ Covered'
    BY <1>3, <2>2, <2>3, <2>4, AdvancePreserves
  <2>6. \A o \in Handlers : tx'[o] = NoTx => o \notin LockHolders'
    BY <2>2, <2>4, HoldersAfter DEF Inv, Advances, Running, TypeOK
  <2>7. TypeOK'
    BY <2>2, <2>4, <2>6 DEF Inv, TypeOK, Advances
  <2>. QED
    BY <2>5, <2>7 DEF Inv
<1>11. ASSUME Sweep(h)
       PROVE  Inv'
  <2>1. t.step = 4 /\ t.kind = "logoutAll" /\ t.step + 1 \in 1..Len(Statements[t.kind])
    <3>1. At(h, "sweep")
      BY <1>11 DEF Sweep
    <3>. QED
      BY <1>p, <1>q, <3>1
  <2>2. Unrevoked(t.user) \subseteq t.todo \union t.revoked
    BY <2>1 DEF Inv, Covered
  <2>3. UNCHANGED <<session, account, now, userLock>>
    BY <1>11 DEF Sweep
  <2>4. CASE t.todo = {} /\ Proceed(h, t) /\ UNCHANGED rowLock
    <3>1. /\ Advances(h, t.step + 1) /\ tx'[h].row = t.row /\ tx'[h].todo = {}
          /\ tx'[h].revoked = t.revoked
      BY <2>4, ProceedAdvances DEF Inv
    <3>2. TxTypes' /\ HoldsAccount' /\ OwnIdentifier' /\ Covered'
      BY <1>3, <2>1, <2>2, <2>3, <2>4, <3>1, AdvancePreserves
    <3>3. \A o \in Handlers : tx'[o] = NoTx => o \notin LockHolders'
      BY <2>3, <2>4, <3>1, HoldersAfter DEF Inv, Advances, Running, TypeOK
    <3>4. TypeOK'
      BY <2>3, <2>4, <3>1, <3>3 DEF Inv, TypeOK, Advances
    <3>. QED
      BY <3>2, <3>4 DEF Inv
  <2>5. ASSUME NEW s \in t.todo, LockRow(h, s),
               tx' = [tx EXCEPT ![h].todo = @ \ {s}, ![h].revoked = @ \union {s}]
        PROVE  Inv'
    <3>. DEFINE next == [t EXCEPT !.todo = @ \ {s}, !.revoked = @ \union {s}]
    <3>1. /\ next \in Tx /\ next.kind = t.kind /\ next.user = t.user /\ next.id = t.id
          /\ next.credential = t.credential
          /\ next.step = t.step /\ next.row = t.row
          /\ next.todo = t.todo \ {s} /\ next.revoked = t.revoked \union {s}
      BY <1>2 DEF Tx
    <3>2. tx' = [tx EXCEPT ![h] = next]
      BY <2>5 DEF Inv, TypeOK
    <3>. HIDE DEF next
    <3>3. next # NoTx
      BY <3>1, NoTxAssumption
    <3>4. /\ Advances(h, t.step) /\ tx'[h].row = t.row
          /\ tx'[h].todo = t.todo \ {s} /\ tx'[h].revoked = t.revoked \union {s}
      BY <3>1, <3>2, <3>3 DEF Inv, TypeOK, Advances, Running
    <3>5. /\ rowLock' \in [SessionIds -> Handlers \union {Free}]
          /\ \A r \in SessionIds : rowLock'[r] \in {rowLock[r], h}
      BY <1>2, <2>5, LockRowFacts DEF Inv
    <3>6. TxTypes' /\ HoldsAccount' /\ OwnIdentifier' /\ Covered'
      BY <1>1, <1>3, <2>1, <2>2, <2>3, <3>4, AdvancePreserves
    <3>7. \A o \in Handlers : tx'[o] = NoTx => o \notin LockHolders'
      BY <2>3, <3>4, <3>5, HoldersAfter DEF Inv, Advances, Running
    <3>8. TypeOK'
      BY <2>3, <3>4, <3>5, <3>7 DEF Inv, TypeOK, Advances
    <3>. QED
      BY <3>6, <3>8 DEF Inv
  <2>. QED
    BY <1>11, <2>4, <2>5 DEF Sweep
<1>. QED
  BY <1>5, <1>6, <1>7, <1>8, <1>9, <1>10, <1>11

(* A commit adds sessions only to the account it locks, so it takes nothing   *)
(* from the coverage of a global logout of another account.                   *)
LEMMA CommitPreserves ==
    ASSUME Inv, NEW h \in Handlers, Commit(h)
    PROVE  Inv'
<1>. DEFINE t == tx[h]
<1>1. t # NoTx /\ t \in Tx /\ Running(h) /\ At(h, "commit")
  BY DEF Commit, At, Inv, TypeOK, Running
<1>2. t.step \in 1..Len(Statements[t.kind]) /\ t.step = Len(Statements[t.kind])
  BY <1>1, Positions DEF Inv, TxTypes
<1>3. t.step > 1
  <2>1. /\ t.kind = "logoutAll" => Len(Statements[t.kind]) = 5
        /\ t.kind # "logoutAll" => Len(Statements[t.kind]) = 4
    BY <1>1, <1>2, Positions
  <2>. QED
    BY <1>2, <2>1
<1>4. /\ tx' \in [Handlers -> Tx \union {NoTx}]
      /\ tx'[h] = NoTx
      /\ \A o \in Handlers \ {h} : tx'[o] = tx[o]
      /\ userLock' \in [Users -> Handlers \union {Free}]
      /\ rowLock' \in [SessionIds -> Handlers \union {Free}]
      /\ \A u \in Users, o \in Handlers \ {h} : userLock[u] = o => userLock'[u] = o
      /\ \A u \in Users : userLock'[u] \in {userLock[u], Free} \ {h}
      /\ \A s \in SessionIds : rowLock'[s] \in {rowLock[s], Free} \ {h}
  BY ReleaseFacts DEF Inv, Running, Commit
<1>5. now' = now /\ account' = account \union {t.user}
  BY DEF Commit
<1>6. /\ t.user \in Users /\ t.id \in SessionIds \union {NoSession}
      /\ t.row \in SessionRow \union {NoRow} /\ t.revoked \in SUBSET SessionIds
  BY <1>1 DEF Tx
<1>7. \A s \in SessionIds : session'[s] =
          IF s = t.id THEN t.row
          ELSE IF s \in t.revoked /\ Exists(s)
               THEN [session[s] EXCEPT !.revoked = TRUE]
               ELSE session[s]
  BY DEF Commit
<1>8. session' \in [SessionIds -> SessionRow \union {NoRow, Pruned}]
  <2>1. \A s \in SessionIds : Exists(s) =>
            [session[s] EXCEPT !.revoked = TRUE] \in SessionRow
    BY DEF Exists, SessionRow
  <2>2. session \in [SessionIds -> SessionRow \union {NoRow, Pruned}]
    BY DEF Inv, TypeOK
  <2>3. \A s \in SessionIds : session'[s] \in SessionRow \union {NoRow, Pruned}
    BY <1>6, <1>7, <2>1, <2>2
  <2>4. DOMAIN session' = SessionIds /\ session' = [s \in DOMAIN session' |-> session'[s]]
    BY DEF Commit
  <2>. QED
    BY <2>3, <2>4
<1>9. \A o \in Handlers : tx'[o] = NoTx => o \notin LockHolders'
  BY <1>4, HoldersAfter DEF Inv
<1>10. TypeOK'
  BY <1>4, <1>5, <1>6, <1>8, <1>9 DEF Inv, TypeOK
<1>11. TxTypes'
  BY <1>4 DEF Inv, TxTypes, Running
<1>12. HoldsAccount'
  <2>. SUFFICES ASSUME NEW o \in Handlers \ {h}, tx[o] # NoTx, tx[o].step > 1
                PROVE  userLock'[tx[o].user] = o
    BY <1>4 DEF HoldsAccount, Running
  <2>1. tx[o] \in Tx /\ tx[o].user \in Users
    BY DEF Inv, TypeOK, Tx
  <2>. QED
    BY <2>1, <1>4 DEF Inv, HoldsAccount, Running
<1>13. OwnIdentifier'
  <2>. SUFFICES ASSUME NEW o \in Handlers \ {h}, tx[o] # NoTx, tx[o].id # NoSession
                PROVE  session'[tx[o].id] = NoRow
    BY <1>4 DEF Inv, OwnIdentifier, Running
  <2>1. tx[o].id \in SessionIds
    BY DEF Inv, TypeOK, Tx
  <2>2. session[tx[o].id] = NoRow /\ tx[o].id # t.id
    BY <1>1 DEF Inv, OwnIdentifier, Running
  <2>3. ~Exists(tx[o].id)
    BY <2>2, RowsDiffer DEF Exists
  <2>. QED
    BY <1>7, <2>1, <2>2, <2>3
<1>14. Covered'
  <2>. SUFFICES ASSUME NEW o \in Handlers \ {h}, tx[o] # NoTx, tx[o].kind = "logoutAll",
                       tx[o].step > 3
                PROVE  Unrevoked(tx[o].user)' \subseteq tx[o].todo \union tx[o].revoked
    BY <1>4 DEF Inv, Covered, Running, Unrevoked, Exists
  <2>1. tx[o].step \in Nat
    BY DEF Inv, TypeOK, Tx
  <2>2. userLock[tx[o].user] = o /\ userLock[t.user] = h
    BY <1>1, <1>3, <2>1 DEF Inv, HoldsAccount, Running
  <2>3. t.user # tx[o].user
    BY <2>2
  <2>4. t.row # NoRow => t.row.user = t.user
    BY <1>1 DEF Inv, OwnIdentifier
  <2>5. ASSUME NEW s \in SessionIds, session'[s] \in SessionRow,
               session'[s].user = tx[o].user, ~session'[s].revoked
        PROVE  s \in Unrevoked(tx[o].user)
    <3>1. s # t.id
      BY <1>7, <2>3, <2>4, <2>5, RowsDiffer
    <3>2. ~(s \in t.revoked /\ Exists(s))
      <4>. SUFFICES ASSUME s \in t.revoked, Exists(s)
                    PROVE  session'[s].revoked
        BY <2>5
      <4>1. session'[s] = [session[s] EXCEPT !.revoked = TRUE] /\ session[s] \in SessionRow
        BY <1>7, <3>1 DEF Exists
      <4>. QED
        BY <4>1 DEF SessionRow
    <3>. QED
      BY <1>7, <2>5, <3>1, <3>2 DEF Unrevoked, Exists
  <2>6. Unrevoked(tx[o].user)' \subseteq Unrevoked(tx[o].user)
    BY <1>4, <2>5 DEF Unrevoked, Exists
  <2>. QED
    BY <2>6 DEF Inv, Covered, Running
<1>. QED
  BY <1>10, <1>11, <1>12, <1>13, <1>14 DEF Inv

\* A renewed row is a row of the same account, revoked as it was.
LEMMA RenewedFacts ==
    ASSUME NEW row \in SessionRow, NEW later \in Nat
    PROVE  /\ Renewed(row, later) \in SessionRow
           /\ Renewed(row, later).user = row.user
           /\ Renewed(row, later).revoked = row.revoked
           /\ Renewed(row, later).persistent = row.persistent
           /\ Renewed(row, later).createdAt = row.createdAt
           /\ Renewed(row, later).expiresAt = row.expiresAt
           /\ Renewed(row, later).lastSeenAt =
                 Least(row.expiresAt, Greatest(row.lastSeenAt, later))
           /\ Renewed(row, later).idleExpiresAt =
                 Least(row.expiresAt, Greatest(row.idleExpiresAt, later + Idle[row.persistent]))
<1>. DEFINE seen == Least(row.expiresAt, Greatest(row.lastSeenAt, later))
            idle == Least(row.expiresAt,
                          Greatest(row.idleExpiresAt, later + Idle[row.persistent]))
<1>1. /\ row.expiresAt \in Nat /\ row.lastSeenAt \in Nat /\ row.idleExpiresAt \in Nat
      /\ row.persistent \in BOOLEAN
  BY DEF SessionRow
<1>2. Idle[row.persistent] \in Nat
  BY <1>1, PolicyAssumption
<1>3. seen \in Nat /\ idle \in Nat
  BY <1>1, <1>2 DEF Least, Greatest
<1>4. Renewed(row, later) = [row EXCEPT !.lastSeenAt = seen, !.idleExpiresAt = idle]
  BY DEF Renewed
<1>. HIDE DEF seen, idle
<1>5. /\ Renewed(row, later) \in SessionRow
      /\ Renewed(row, later).user = row.user
      /\ Renewed(row, later).revoked = row.revoked
      /\ Renewed(row, later).persistent = row.persistent
      /\ Renewed(row, later).createdAt = row.createdAt
      /\ Renewed(row, later).expiresAt = row.expiresAt
      /\ Renewed(row, later).lastSeenAt = seen
      /\ Renewed(row, later).idleExpiresAt = idle
  BY <1>3, <1>4 DEF SessionRow
<1>. QED
  BY <1>5 DEF seen, idle

-----------------------------------------------------------------------------
(* The inductive invariant holds in every reachable state: types, lock        *)
(* ownership, identifiers and the coverage of global logouts together.        *)
THEOREM SessionsInvariant == Spec => []Inv
<1>1. Init => Inv
  <2>. SUFFICES ASSUME Init
                PROVE  Inv
    OBVIOUS
  <2>1. TypeOK
    BY PolicyAssumption, RowsDiffer DEF Init, TypeOK, LockHolders
  <2>. QED
    BY <2>1 DEF Init, Inv, TxTypes, HoldsAccount, OwnIdentifier, Covered, Running
<1>2. Inv /\ [Next]_vars => Inv'
  <2>. SUFFICES ASSUME Inv, [Next]_vars
                PROVE  Inv'
    OBVIOUS
  <2>1. CASE UNCHANGED vars
    BY <2>1 DEF vars, Inv, TypeOK, LockHolders, TxTypes, HoldsAccount, OwnIdentifier,
                Covered, Running, Unrevoked, Exists
  <2>2. ASSUME NEW h \in Handlers, NEW u \in Users,
               NEW credential \in Credentials \union {NoSession}, NEW id \in SessionIds,
               BeginRegister(h, u, credential, id)
        PROVE  Inv'
    <3>1. Begin(h, "register", u, FALSE, credential, id) /\ Fresh(id)
      BY <2>2 DEF BeginRegister
    <3>2. credential \in SessionIds \union {NoSession}
      BY DEF Credentials
    <3>. QED
      BY <3>1, <3>2, Kinds, BeginPreserves
  <2>3. ASSUME NEW h \in Handlers, NEW u \in Users,
               NEW credential \in Credentials \union {NoSession}, NEW id \in SessionIds,
               NEW persistent \in BOOLEAN, BeginLogin(h, u, persistent, credential, id)
        PROVE  Inv'
    <3>1. Begin(h, "login", u, persistent, credential, id) /\ Fresh(id)
      BY <2>3 DEF BeginLogin
    <3>2. credential \in SessionIds \union {NoSession}
      BY DEF Credentials
    <3>. QED
      BY <3>1, <3>2, Kinds, BeginPreserves
  <2>4. ASSUME NEW h \in Handlers, NEW credential \in Credentials,
               BeginLogoutAll(h, credential)
        PROVE  Inv'
    <3>1. /\ Begin(h, "logoutAll", session[credential].user, FALSE, credential, NoSession)
          /\ session[credential] \in SessionRow
      BY <2>4 DEF BeginLogoutAll, Live, Exists
    <3>2. credential \in SessionIds
      BY DEF Credentials
    <3>3. session[credential].user \in Users
      BY <3>1 DEF SessionRow
    <3>. QED
      BY <3>1, <3>2, <3>3, Kinds, BeginPreserves
  <2>5. ASSUME NEW h \in Handlers, Statement(h)
        PROVE  Inv'
    <3>1. tx[h] # NoTx
      BY <2>5 DEF Statement, CreateUser, LockAccount, Insert, RevokePrevious, LockSession,
                  Snapshot, Sweep, Commit, At
    <3>2. Running(h) /\ tx[h] \in Tx
      BY <3>1 DEF Inv, TypeOK, Running
    <3>. QED
      BY <2>5, <3>2, StatementPreserves, CommitPreserves DEF Statement
  <2>6. ASSUME NEW h \in Handlers, Abort(h)
        PROVE  Inv'
    BY <2>6, RollbackPreserves DEF Abort
  <2>7. ASSUME NEW s \in SessionIds, Authenticate(s)
        PROVE  Inv'
    <3>1. PICK later \in {now, now + 1} \intersect (0..MaxTime) :
              session' = [session EXCEPT ![s] = Renewed(@, later)] /\ now' = later
      BY <2>7 DEF Authenticate
    <3>2. /\ session[s] \in SessionRow /\ later \in Nat /\ later \in 0..MaxTime
          /\ UNCHANGED <<account, userLock, rowLock, tx>>
      BY <2>7, <3>1 DEF Authenticate, Live, Exists, Inv, TypeOK
    <3>. DEFINE renewed == Renewed(session[s], later)
    <3>3. /\ renewed \in SessionRow /\ renewed.user = session[s].user
          /\ renewed.revoked = session[s].revoked
      BY <3>2, RenewedFacts
    <3>. HIDE DEF renewed
    <3>4. session' = [session EXCEPT ![s] = renewed]
      BY <3>1 DEF renewed
    <3>5. /\ session' \in [SessionIds -> SessionRow \union {NoRow, Pruned}]
          /\ \A r \in SessionIds : session[r] = NoRow => session'[r] = NoRow
      BY <3>2, <3>3, <3>4, RowsDiffer DEF Inv, TypeOK
    <3>6. \A u \in Users : Unrevoked(u)' \subseteq Unrevoked(u)
      BY <3>2, <3>3, <3>4 DEF Inv, TypeOK, Unrevoked, Exists
    <3>. QED
      BY <3>1, <3>2, <3>5, <3>6, RequestPreserves
  <2>8. ASSUME NEW s \in SessionIds, Logout(s)
        PROVE  Inv'
    <3>1. /\ session[s] \in SessionRow
          /\ session' = [session EXCEPT ![s].revoked = TRUE]
          /\ UNCHANGED <<account, now, userLock, rowLock, tx>>
      BY <2>8 DEF Logout, Live, Exists
    <3>. DEFINE ended == [session[s] EXCEPT !.revoked = TRUE]
    <3>2. ended \in SessionRow /\ ended.revoked
      BY <3>1 DEF SessionRow
    <3>3. session' = [session EXCEPT ![s] = ended]
      BY <3>1 DEF Inv, TypeOK
    <3>. HIDE DEF ended
    <3>4. /\ session' \in [SessionIds -> SessionRow \union {NoRow, Pruned}]
          /\ \A r \in SessionIds : session[r] = NoRow => session'[r] = NoRow
      BY <3>1, <3>2, <3>3, RowsDiffer DEF Inv, TypeOK
    <3>5. \A u \in Users : Unrevoked(u)' \subseteq Unrevoked(u)
      BY <3>2, <3>3 DEF Inv, TypeOK, Unrevoked, Exists
    <3>. QED
      BY <3>1, <3>4, <3>5, RequestPreserves DEF Inv, TypeOK
  <2>9. CASE Prune
    <3>. DEFINE dead == {s \in SessionIds : Exists(s) /\ ~Live(s) /\ rowLock[s] = Free}
    <3>1. /\ session' = [s \in SessionIds |-> IF s \in dead THEN Pruned ELSE session[s]]
          /\ UNCHANGED <<account, now, userLock, rowLock, tx>>
      BY <2>9 DEF Prune
    <3>2. \A s \in dead : session[s] # NoRow
      BY RowsDiffer DEF Exists
    <3>. HIDE DEF dead
    <3>3. /\ session' \in [SessionIds -> SessionRow \union {NoRow, Pruned}]
          /\ \A r \in SessionIds : session[r] = NoRow => session'[r] = NoRow
      BY <3>1, <3>2 DEF Inv, TypeOK
    <3>4. \A u \in Users : Unrevoked(u)' \subseteq Unrevoked(u)
      BY <3>1, RowsDiffer DEF Unrevoked, Exists
    <3>. QED
      BY <3>1, <3>3, <3>4, RequestPreserves DEF Inv, TypeOK
  <2>10. CASE Tick
    <3>1. now' \in 0..MaxTime /\ UNCHANGED <<session, account, userLock, rowLock, tx>>
      BY <2>10, PolicyAssumption DEF Tick, Inv, TypeOK
    <3>2. \A u \in Users : Unrevoked(u)' \subseteq Unrevoked(u)
      BY <3>1 DEF Unrevoked, Exists
    <3>. QED
      BY <3>1, <3>2, RequestPreserves DEF Inv, TypeOK
  <2>. QED
    BY <2>1, <2>2, <2>3, <2>4, <2>5, <2>6, <2>7, <2>8, <2>9, <2>10 DEF Next
<1>. QED
  BY <1>1, <1>2, PTL DEF Spec

(* For any number of accounts, sessions and requests, a global logout that is *)
(* about to commit has revoked every session of its account                   *)
(* (session.service.ts 134-146).                                              *)
THEOREM GlobalLogoutIsComplete == Spec => []GlobalLogoutReachesAll
<1>1. Inv => GlobalLogoutReachesAll
  <2>. SUFFICES ASSUME Inv, NEW h \in Handlers, At(h, "commit"), tx[h].kind = "logoutAll"
                PROVE  Unrevoked(tx[h].user) \subseteq tx[h].revoked
    BY DEF GlobalLogoutReachesAll
  <2>1. Running(h) /\ tx[h] \in Tx
    BY DEF At, Running, Inv, TypeOK
  <2>2. tx[h].step = Len(Statements[tx[h].kind]) /\ Len(Statements[tx[h].kind]) = 5
    BY <2>1, Positions DEF Inv, TxTypes
  <2>. QED
    BY <2>1, <2>2 DEF Inv, Covered
<1>. QED
  BY <1>1, SessionsInvariant, PTL

-----------------------------------------------------------------------------
(* What one step may do to one row of the table. *)

Inserted(s) ==
    /\ session[s] = NoRow
    /\ \E h \in Handlers :
          Running(h) /\ tx[h].row # NoRow /\ session'[s] = tx[h].row

Revoked(s) == Exists(s) /\ session'[s] = [session[s] EXCEPT !.revoked = TRUE]

WasRenewed(s) ==
    /\ Live(s)
    /\ \E later \in Nat : later >= now /\ session'[s] = Renewed(session[s], later)

Deleted(s) == Exists(s) /\ session'[s] = Pruned

LEMMA CommitChangesRows ==
    ASSUME Inv, Inv', NEW h \in Handlers, Commit(h), NEW s \in SessionIds
    PROVE  session'[s] = session[s] \/ Inserted(s) \/ Revoked(s)
<1>1. /\ Running(h) /\ tx[h] \in Tx
      /\ session'[s] = IF s = tx[h].id THEN tx[h].row
                       ELSE IF s \in tx[h].revoked /\ Exists(s)
                            THEN [session[s] EXCEPT !.revoked = TRUE]
                            ELSE session[s]
  BY DEF Commit, At, Running, Inv, TypeOK
<1>2. CASE s = tx[h].id
  <2>1. session[s] = NoRow
    BY <1>1, <1>2, RowsDiffer DEF Inv, OwnIdentifier
  <2>2. CASE tx[h].row = NoRow
    BY <1>1, <1>2, <2>1, <2>2
  <2>3. CASE tx[h].row # NoRow
    BY <1>1, <1>2, <2>1, <2>3 DEF Inserted
  <2>. QED
    BY <2>2, <2>3
<1>3. CASE s # tx[h].id
  BY <1>1, <1>3 DEF Revoked
<1>. QED
  BY <1>2, <1>3

LEMMA StepChangesRows ==
    ASSUME Inv, Inv', [Next]_vars, NEW s \in SessionIds
    PROVE  /\ \/ session'[s] = session[s]
              \/ Inserted(s)
              \/ Revoked(s)
              \/ WasRenewed(s)
              \/ Deleted(s)
           /\ now' >= now
<1>1. now \in Nat /\ now' \in Nat
  BY PolicyAssumption DEF Inv, TypeOK
<1>3. ASSUME NEW h \in Handlers, Commit(h)
      PROVE  session'[s] = session[s] \/ Inserted(s) \/ Revoked(s)
  BY <1>3, CommitChangesRows
<1>4. ASSUME NEW h \in Handlers, Statement(h), ~Commit(h)
      PROVE  UNCHANGED <<session, now>>
  BY <1>4 DEF Statement, CreateUser, LockAccount, Insert, RevokePrevious, LockSession,
              Snapshot, Sweep, Rollback
<1>5. ASSUME NEW r \in SessionIds, Authenticate(r)
      PROVE  /\ session'[s] = session[s] \/ WasRenewed(s)
             /\ now' >= now
  <2>1. PICK later \in {now, now + 1} \intersect (0..MaxTime) :
            session' = [session EXCEPT ![r] = Renewed(@, later)] /\ now' = later
    BY <1>5 DEF Authenticate
  <2>2. later \in Nat /\ later >= now
    BY <1>1, <2>1
  <2>3. Live(r)
    BY <1>5 DEF Authenticate
  <2>4. CASE s = r
    BY <2>1, <2>2, <2>3, <2>4 DEF WasRenewed, Inv, TypeOK
  <2>5. CASE s # r
    BY <2>1, <2>2, <2>5 DEF Inv, TypeOK
  <2>. QED
    BY <2>1, <2>2, <2>4, <2>5
<1>6. ASSUME NEW r \in SessionIds, Logout(r)
      PROVE  (session'[s] = session[s] \/ Revoked(s)) /\ now' = now
  <2>. DEFINE ended == [session[r] EXCEPT !.revoked = TRUE]
  <2>1. session' = [session EXCEPT ![r] = ended] /\ now' = now /\ Exists(r)
    BY <1>6 DEF Logout, Live, Inv, TypeOK
  <2>2. CASE s = r
    BY <2>1, <2>2 DEF Revoked, Inv, TypeOK
  <2>3. CASE s # r
    BY <2>1, <2>3 DEF Inv, TypeOK
  <2>. QED
    BY <2>1, <2>2, <2>3
<1>7. CASE Prune
  <2>1. (session'[s] = session[s] \/ Deleted(s)) /\ now' = now
    BY <1>7 DEF Prune, Deleted
  <2>. QED
    BY <1>1, <2>1
<1>8. CASE Tick
  BY <1>1, <1>8 DEF Tick
<1>9. ASSUME NEW h \in Handlers, Commit(h)
      PROVE  now' = now
  BY <1>9 DEF Commit
<1>11. ASSUME NEW h \in Handlers, Abort(h)
       PROVE  UNCHANGED <<session, now>>
  BY <1>11 DEF Abort, Rollback
<1>12. ASSUME NEW h \in Handlers, NEW u \in Users,
              NEW credential \in Credentials \union {NoSession}, NEW id \in SessionIds,
              BeginRegister(h, u, credential, id)
       PROVE  UNCHANGED <<session, now>>
  BY <1>12 DEF BeginRegister, Begin
<1>13. ASSUME NEW h \in Handlers, NEW u \in Users,
              NEW credential \in Credentials \union {NoSession}, NEW id \in SessionIds,
              NEW persistent \in BOOLEAN, BeginLogin(h, u, persistent, credential, id)
       PROVE  UNCHANGED <<session, now>>
  BY <1>13 DEF BeginLogin, Begin
<1>14. ASSUME NEW h \in Handlers, NEW credential \in Credentials,
              BeginLogoutAll(h, credential)
       PROVE  UNCHANGED <<session, now>>
  BY <1>14 DEF BeginLogoutAll, Begin
<1>. DEFINE allowed == /\ \/ session'[s] = session[s]
                          \/ Inserted(s)
                          \/ Revoked(s)
                          \/ WasRenewed(s)
                          \/ Deleted(s)
                       /\ now' >= now
<1>15. UNCHANGED <<session, now>> => allowed
  BY <1>1
<1>16. ASSUME NEW h \in Handlers, Statement(h)
       PROVE  allowed
  BY <1>16, <1>1, <1>3, <1>4, <1>9, <1>15
<1>17. ASSUME NEW r \in SessionIds, Authenticate(r)
       PROVE  allowed
  BY <1>17, <1>5
<1>18. ASSUME NEW r \in SessionIds, Logout(r)
       PROVE  allowed
  BY <1>18, <1>1, <1>6
<1>19. Prune \/ Tick => allowed
  BY <1>7, <1>8
<1>20. UNCHANGED vars => allowed
  BY <1>15 DEF vars
<1>. HIDE DEF allowed
<1>21. allowed
  <2>1. CASE Next
    BY <2>1, <1>11, <1>12, <1>13, <1>14, <1>15, <1>16, <1>17, <1>18, <1>19 DEF Next
  <2>. QED
    BY <2>1, <1>20
<1>. QED
  BY <1>21 DEF allowed

-----------------------------------------------------------------------------
(* Deadlines. *)

\* A renewal keeps the deadlines in order and never brings one closer.
LEMMA RenewalKeepsOrder ==
    ASSUME NEW row \in SessionRow, InOrder(row), NEW later \in Nat
    PROVE  /\ InOrder(Renewed(row, later))
           /\ Renewed(row, later).idleExpiresAt >= row.idleExpiresAt
<1>. DEFINE new == Renewed(row, later)
<1>1. /\ row.createdAt \in Nat /\ row.lastSeenAt \in Nat
      /\ row.idleExpiresAt \in Nat /\ row.expiresAt \in Nat
      /\ row.persistent \in BOOLEAN
  BY DEF SessionRow
<1>2. Idle[row.persistent] \in Nat
  BY <1>1, PolicyAssumption
<1>3. /\ new.createdAt = row.createdAt /\ new.expiresAt = row.expiresAt
      /\ new.persistent = row.persistent
      /\ new.lastSeenAt = Least(row.expiresAt, Greatest(row.lastSeenAt, later))
      /\ new.idleExpiresAt =
            Least(row.expiresAt, Greatest(row.idleExpiresAt, later + Idle[row.persistent]))
  BY RenewedFacts
<1>. HIDE DEF new
<1>. QED
  BY <1>1, <1>2, <1>3 DEF InOrder, Least, Greatest, new

\* The row of a new session is in order from the start.
LEMMA NewRowInOrder ==
    ASSUME now \in Nat, NEW u \in Users, NEW persistent \in BOOLEAN
    PROVE  NewRow(u, persistent) \in SessionRow /\ InOrder(NewRow(u, persistent))
<1>1. /\ Idle[persistent] \in Nat \ {0} /\ Absolute[persistent] \in Nat \ {0}
      /\ Idle[persistent] <= Absolute[persistent]
  BY PolicyAssumption
<1>. QED
  BY <1>1 DEF NewRow, InOrder, SessionRow

\* The rows about to be inserted are in order too.
PendingInOrder ==
    \A h \in Handlers : Running(h) /\ tx[h].row # NoRow => InOrder(tx[h].row)

LEMMA RowsStayInOrder ==
    ASSUME Inv, Inv', TimelineHolds, PendingInOrder, [Next]_vars
    PROVE  TimelineHolds'
<1>. SUFFICES ASSUME NEW s \in SessionIds, Exists(s)'
              PROVE  InOrder(session'[s])
  BY DEF TimelineHolds, InOrder
<1>1. CASE session'[s] = session[s]
  BY <1>1 DEF TimelineHolds, Exists
<1>2. CASE Inserted(s)
  BY <1>2 DEF Inserted, PendingInOrder
<1>3. CASE Revoked(s)
  <2>1. session[s] \in SessionRow /\ InOrder(session[s])
    BY <1>3 DEF Revoked, TimelineHolds, Exists
  <2>. QED
    BY <1>3, <2>1 DEF Revoked, InOrder, SessionRow
<1>4. CASE WasRenewed(s)
  <2>1. session[s] \in SessionRow /\ InOrder(session[s])
    BY <1>4 DEF WasRenewed, Live, TimelineHolds, Exists
  <2>. QED
    BY <1>4, <2>1, RenewalKeepsOrder DEF WasRenewed
<1>5. CASE Deleted(s)
  BY <1>5, RowsDiffer DEF Deleted, Exists
<1>. QED
  BY <1>1, <1>2, <1>3, <1>4, <1>5, StepChangesRows

\* One step of a transaction other than the insertion keeps its pending row.
KeepsRows ==
    \A o \in Handlers :
        \/ ~Running(o)'
        \/ tx'[o].row = NoRow
        \/ Running(o) /\ tx'[o].row = tx[o].row

LEMMA ProceedKeepsRows ==
    ASSUME TypeOK, NEW h \in Handlers, Running(h), NEW next \in Tx, Proceed(h, next)
    PROVE  /\ tx'[h].row = next.row
           /\ \A o \in Handlers \ {h} : tx'[o] = tx[o]
<1>1. tx'[h] = [next EXCEPT !.step = @ + 1]
  BY DEF Proceed, TypeOK
<1>. QED
  BY <1>1 DEF Proceed, TypeOK, Tx

LEMMA ReleaseKeepsRows ==
    ASSUME TypeOK, NEW h \in Handlers, Release(h)
    PROVE  KeepsRows
<1>1. tx' = [tx EXCEPT ![h] = NoTx]
  BY DEF Release
<1>. QED
  BY <1>1 DEF KeepsRows, TypeOK, Running

LEMMA BeginKeepsRows ==
    ASSUME TypeOK, NEW h \in Handlers, NEW kind, NEW u, NEW persistent, NEW credential,
           NEW id, Begin(h, kind, u, persistent, credential, id)
    PROVE  KeepsRows
<1>1. tx'[h].row = NoRow
  BY DEF Begin, TypeOK
<1>2. \A o \in Handlers \ {h} : tx'[o] = tx[o]
  BY DEF Begin, TypeOK
<1>. QED
  BY <1>1, <1>2 DEF KeepsRows, Running

LEMMA StatementKeepsRows ==
    ASSUME TypeOK, NEW h \in Handlers, Statement(h), ~Insert(h)
    PROVE  KeepsRows
<1>1. CASE Release(h)
  BY <1>1, ReleaseKeepsRows
<1>2. CASE ~Release(h)
  <2>1. Running(h) /\ tx[h] \in Tx
    BY DEF Statement, CreateUser, LockAccount, Insert, RevokePrevious, LockSession,
           Snapshot, Sweep, Commit, At, Running, TypeOK
  <2>2. ASSUME NEW next \in Tx, next.row = tx[h].row, Proceed(h, next)
        PROVE  KeepsRows
    BY <2>1, <2>2, ProceedKeepsRows DEF KeepsRows, Running
  <2>3. CASE CreateUser(h) \/ LockAccount(h) \/ LockSession(h)
    BY <1>2, <2>1, <2>2, <2>3 DEF CreateUser, LockAccount, LockSession, Rollback
  <2>4. CASE RevokePrevious(h)
    <3>. DEFINE guard == /\ tx[h].credential \in SessionIds
                         /\ Exists(tx[h].credential)
                         /\ ~session[tx[h].credential].revoked
                next == [tx[h] EXCEPT !.revoked = @ \union {tx[h].credential}]
    <3>1. CASE guard
      <4>1. next \in Tx /\ next.row = tx[h].row
        BY <2>1, <3>1 DEF Tx
      <4>2. Proceed(h, next)
        BY <2>4, <3>1 DEF RevokePrevious
      <4>. HIDE DEF next
      <4>. QED
        BY <2>2, <4>1, <4>2
    <3>2. CASE ~guard
      <4>1. Proceed(h, tx[h])
        BY <2>4, <3>2 DEF RevokePrevious
      <4>. QED
        BY <2>1, <2>2, <4>1
    <3>. QED
      BY <3>1, <3>2
  <2>5. CASE Snapshot(h)
    <3>. DEFINE next == [tx[h] EXCEPT !.todo = Unrevoked(tx[h].user)]
    <3>1. next \in Tx /\ next.row = tx[h].row
      BY <2>1 DEF Tx, Unrevoked
    <3>2. Proceed(h, next)
      BY <2>5 DEF Snapshot
    <3>. HIDE DEF next
    <3>. QED
      BY <2>2, <3>1, <3>2
  <2>6. CASE Sweep(h)
    <3>1. CASE Proceed(h, tx[h])
      BY <2>1, <2>2, <3>1
    <3>2. ASSUME NEW s \in tx[h].todo,
                 tx' = [tx EXCEPT ![h].todo = @ \ {s}, ![h].revoked = @ \union {s}]
          PROVE  KeepsRows
      <4>. DEFINE next == [tx[h] EXCEPT !.todo = @ \ {s}, !.revoked = @ \union {s}]
      <4>1. next.row = tx[h].row
        BY <2>1 DEF Tx
      <4>2. tx' = [tx EXCEPT ![h] = next]
        BY <3>2
      <4>. HIDE DEF next
      <4>. QED
        BY <2>1, <4>1, <4>2 DEF KeepsRows, TypeOK, Running
    <3>. QED
      BY <2>6, <3>1, <3>2 DEF Sweep
  <2>7. ~Commit(h)
    BY <1>2 DEF Commit
  <2>. QED
    BY <2>3, <2>4, <2>5, <2>6, <2>7 DEF Statement
<1>. QED
  BY <1>1, <1>2

LEMMA PendingStaysInOrder ==
    ASSUME Inv, PendingInOrder, [Next]_vars
    PROVE  PendingInOrder'
<1>1. KeepsRows => PendingInOrder'
  BY NoTxAssumption DEF KeepsRows, PendingInOrder, Running, InOrder
<1>2. TypeOK
  BY DEF Inv
<1>3. UNCHANGED tx => KeepsRows
  BY DEF KeepsRows, Running
<1>4. ASSUME NEW h \in Handlers, Insert(h)
      PROVE  PendingInOrder'
  <2>1. Running(h) /\ tx[h] \in Tx
    BY <1>2, <1>4 DEF Insert, At, Running, TypeOK
  <2>. DEFINE new == NewRow(tx[h].user, tx[h].persistent)
              next == [tx[h] EXCEPT !.row = new]
  <2>2. new \in SessionRow /\ InOrder(new)
    <3>1. now \in Nat /\ tx[h].user \in Users /\ tx[h].persistent \in BOOLEAN
      BY <1>2, <2>1, PolicyAssumption DEF Tx, TypeOK
    <3>. QED
      BY <3>1, NewRowInOrder
  <2>. HIDE DEF new
  <2>3. next \in Tx /\ next.row = new
    BY <2>1, <2>2 DEF Tx
  <2>4. Proceed(h, next)
    BY <1>4 DEF Insert, new
  <2>. HIDE DEF next
  <2>5. tx'[h].row = new /\ \A o \in Handlers \ {h} : tx'[o] = tx[o]
    BY <1>2, <2>1, <2>3, <2>4, ProceedKeepsRows
  <2>. QED
    BY <2>2, <2>5 DEF PendingInOrder, Running, InOrder
<1>5. ASSUME NEW h \in Handlers, Statement(h)
      PROVE  PendingInOrder'
  BY <1>1, <1>2, <1>4, <1>5, StatementKeepsRows
<1>6. ASSUME NEW h \in Handlers, Abort(h)
      PROVE  KeepsRows
  BY <1>2, <1>6, ReleaseKeepsRows DEF Abort, Rollback
<1>7. ASSUME NEW h \in Handlers, NEW u \in Users,
             NEW credential \in Credentials \union {NoSession}, NEW id \in SessionIds,
             BeginRegister(h, u, credential, id)
      PROVE  KeepsRows
  BY <1>2, <1>7, BeginKeepsRows DEF BeginRegister
<1>8. ASSUME NEW h \in Handlers, NEW u \in Users,
             NEW credential \in Credentials \union {NoSession}, NEW id \in SessionIds,
             NEW persistent \in BOOLEAN, BeginLogin(h, u, persistent, credential, id)
      PROVE  KeepsRows
  BY <1>2, <1>8, BeginKeepsRows DEF BeginLogin
<1>9. ASSUME NEW h \in Handlers, NEW credential \in Credentials,
             BeginLogoutAll(h, credential)
      PROVE  KeepsRows
  BY <1>2, <1>9, BeginKeepsRows DEF BeginLogoutAll
<1>10. ASSUME NEW s \in SessionIds, Authenticate(s) \/ Logout(s)
       PROVE  UNCHANGED tx
  BY <1>10 DEF Authenticate, Logout
<1>11. Prune \/ Tick => UNCHANGED tx
  BY DEF Prune, Tick
<1>12. UNCHANGED vars => UNCHANGED tx
  BY DEF vars
<1>13. Next => KeepsRows \/ UNCHANGED tx \/ PendingInOrder'
  BY <1>5, <1>6, <1>7, <1>8, <1>9, <1>10, <1>11 DEF Next
<1>. QED
  BY <1>1, <1>3, <1>12, <1>13

(* The deadlines of every session are in order in every reachable state, and  *)
(* its lifetime is the one fixed at sign-in (session.service.ts 102-108).     *)
THEOREM TimelinesHold == Spec => []TimelineHolds
<1>1. Init => TimelineHolds /\ PendingInOrder
  BY RowsDiffer DEF Init, TimelineHolds, PendingInOrder, Exists, Running
<1>2. Inv /\ Inv' /\ TimelineHolds /\ PendingInOrder /\ [Next]_vars
          => TimelineHolds' /\ PendingInOrder'
  BY RowsStayInOrder, PendingStaysInOrder
<1>. QED
  BY <1>1, <1>2, SessionsInvariant, PTL DEF Spec

\* Nothing brings a dead session back: a renewal is for a live one.
LEMMA DeadRemains ==
    ASSUME Inv, Inv', [Next]_vars, NEW s \in SessionIds, Dead(s)
    PROVE  Dead(s)'
<1>1. now \in Nat /\ now' \in Nat /\ now' >= now
  BY StepChangesRows, PolicyAssumption DEF Inv, TypeOK
<1>2. Exists(s) => session[s].idleExpiresAt \in Nat /\ session[s].expiresAt \in Nat
  BY DEF Exists, SessionRow
<1>3. CASE session'[s] = session[s]
  BY <1>1, <1>2, <1>3 DEF Dead, Exists
<1>4. CASE Inserted(s)
  BY <1>4, RowsDiffer DEF Inserted, Dead, Exists
<1>5. CASE Revoked(s)
  BY <1>5 DEF Revoked, Dead, Exists, SessionRow
<1>6. CASE WasRenewed(s)
  BY <1>1, <1>2, <1>6, RowsDiffer DEF WasRenewed, Live, WithinDeadlines, Dead, Exists
<1>7. CASE Deleted(s)
  BY <1>7 DEF Deleted, Dead
<1>. QED
  BY <1>3, <1>4, <1>5, <1>6, <1>7, StepChangesRows

(* A session revoked, expired or deleted never opens again, whatever requests *)
(* wait for its row (session.service.ts 90, 101).                             *)
THEOREM DeadSessionsStayDead == Spec => DeadStaysDead
<1>1. Inv /\ Inv' /\ [Next]_vars => [\A s \in SessionIds : Dead(s) => Dead(s)']_vars
  BY DeadRemains
<1>. QED
  BY <1>1, SessionsInvariant, PTL DEF Spec, DeadStaysDead
-----------------------------------------------------------------------------
(* One registration of an address at a time. *)

\* What a step makes of a transaction: it is untouched, over, new, or it goes on
\* with the same request.
Continues(h) ==
    \/ tx'[h] = tx[h]
    \/ tx'[h] = NoTx
    \/ tx'[h].step = 1
    \/ /\ Running(h)
       /\ tx'[h].kind = tx[h].kind /\ tx'[h].user = tx[h].user
       /\ tx[h].step > 1 \/ CreateUser(h) \/ tx[h].kind # "register"

LEMMA ProceedContinues ==
    ASSUME TypeOK, TxTypes, NEW h \in Handlers, Running(h), NEW next \in Tx, Proceed(h, next),
           next.kind = tx[h].kind, next.user = tx[h].user,
           CreateUser(h) \/ ~At(h, "createUser")
    PROVE  \A o \in Handlers : Continues(o)
<1>1. tx[h] \in Tx /\ tx[h].step \in 1..Len(Statements[tx[h].kind])
  BY DEF TypeOK, TxTypes, Running
<1>2. tx[h].kind = "register" /\ ~At(h, "createUser") => tx[h].step > 1
  <2>. SUFFICES ASSUME tx[h].kind = "register", tx[h].step = 1
                PROVE  At(h, "createUser")
    BY <1>1 DEF Tx
  <2>. QED
    BY DEF At, Statements, Running
<1>3. tx'[h] = [next EXCEPT !.step = @ + 1]
  BY DEF Proceed, TypeOK
<1>4. tx'[h].kind = tx[h].kind /\ tx'[h].user = tx[h].user
  BY <1>3 DEF Tx
<1>5. \A o \in Handlers \ {h} : tx'[o] = tx[o]
  BY DEF Proceed, TypeOK
<1>. QED
  BY <1>2, <1>4, <1>5 DEF Continues

LEMMA ReleaseContinues ==
    ASSUME TypeOK, NEW h \in Handlers, Release(h)
    PROVE  \A o \in Handlers : Continues(o)
BY ReleaseFacts DEF Continues, Running

LEMMA StatementContinues ==
    ASSUME Inv, NEW h \in Handlers, Statement(h)
    PROVE  \A o \in Handlers : Continues(o)
<1>0. TypeOK /\ TxTypes
  BY DEF Inv
<1>1. Running(h) /\ tx[h] \in Tx
  BY <1>0 DEF Statement, CreateUser, LockAccount, Insert, RevokePrevious, LockSession,
              Snapshot, Sweep, Commit, At, Running, TypeOK
<1>2. ASSUME NEW next \in Tx, next.kind = tx[h].kind, next.user = tx[h].user,
             Proceed(h, next), CreateUser(h) \/ ~At(h, "createUser")
      PROVE  \A o \in Handlers : Continues(o)
  BY <1>0, <1>1, <1>2, ProceedContinues
<1>3. CASE Release(h)
  BY <1>0, <1>3, ReleaseContinues
<1>4. CASE CreateUser(h) /\ ~Release(h)
  BY <1>1, <1>2, <1>4 DEF CreateUser, Rollback
<1>5. CASE (LockAccount(h) \/ LockSession(h)) /\ ~Release(h)
  BY <1>1, <1>2, <1>5 DEF LockAccount, LockSession, Rollback, At
<1>6. CASE Insert(h)
  <2>. DEFINE next == [tx[h] EXCEPT !.row = NewRow(tx[h].user, tx[h].persistent)]
  <2>1. NewRow(tx[h].user, tx[h].persistent) \in SessionRow
    <3>1. now \in Nat /\ tx[h].user \in Users /\ tx[h].persistent \in BOOLEAN
      BY <1>0, <1>1, PolicyAssumption DEF Tx, TypeOK
    <3>. QED
      BY <3>1, NewRowInOrder
  <2>2. next \in Tx /\ next.kind = tx[h].kind /\ next.user = tx[h].user
    BY <1>1, <2>1 DEF Tx
  <2>3. Proceed(h, next) /\ ~At(h, "createUser")
    BY <1>6 DEF Insert, At
  <2>. HIDE DEF next
  <2>. QED
    BY <1>2, <2>2, <2>3
<1>7. CASE RevokePrevious(h)
  <2>. DEFINE next == [tx[h] EXCEPT !.revoked = @ \union {tx[h].credential}]
  <2>0. ~At(h, "createUser")
    BY <1>7 DEF RevokePrevious, At
  <2>1. CASE Proceed(h, tx[h])
    BY <1>1, <1>2, <2>0, <2>1
  <2>2. CASE tx[h].credential \in SessionIds /\ Proceed(h, next)
    <3>1. next \in Tx /\ next.kind = tx[h].kind /\ next.user = tx[h].user
      BY <1>1, <2>2 DEF Tx
    <3>2. Proceed(h, next)
      BY <2>2
    <3>. HIDE DEF next
    <3>. QED
      BY <1>2, <2>0, <3>1, <3>2
  <2>. QED
    BY <1>7, <2>1, <2>2 DEF RevokePrevious
<1>8. CASE Snapshot(h)
  <2>. DEFINE next == [tx[h] EXCEPT !.todo = Unrevoked(tx[h].user)]
  <2>1. next \in Tx /\ next.kind = tx[h].kind /\ next.user = tx[h].user
    BY <1>1 DEF Tx, Unrevoked
  <2>2. Proceed(h, next) /\ ~At(h, "createUser")
    BY <1>8 DEF Snapshot, At
  <2>. HIDE DEF next
  <2>. QED
    BY <1>2, <2>1, <2>2
<1>9. CASE Sweep(h)
  <2>1. CASE Proceed(h, tx[h])
    BY <1>1, <1>2, <1>9, <2>1 DEF Sweep, At
  <2>2. ASSUME NEW s \in tx[h].todo,
               tx' = [tx EXCEPT ![h].todo = @ \ {s}, ![h].revoked = @ \union {s}]
        PROVE  \A o \in Handlers : Continues(o)
    <3>1. At(h, "sweep") /\ tx[h].step \in 1..Len(Statements[tx[h].kind])
      BY <1>0, <1>1, <1>9 DEF Sweep, TxTypes
    <3>2. tx[h].kind = "logoutAll"
      BY <1>1, <3>1, Positions
    <3>. DEFINE next == [tx[h] EXCEPT !.todo = @ \ {s}, !.revoked = @ \union {s}]
    <3>3. next.kind = tx[h].kind /\ next.user = tx[h].user
      BY <1>1 DEF Tx
    <3>4. tx' = [tx EXCEPT ![h] = next]
      BY <2>2
    <3>. HIDE DEF next
    <3>5. tx'[h] = next /\ \A o \in Handlers \ {h} : tx'[o] = tx[o]
      BY <1>0, <3>4 DEF TypeOK
    <3>. QED
      BY <1>1, <3>2, <3>3, <3>5 DEF Continues
  <2>. QED
    BY <1>9, <2>1, <2>2 DEF Sweep
<1>10. ~Commit(h) \/ Release(h)
  BY DEF Commit
<1>. QED
  BY <1>3, <1>4, <1>5, <1>6, <1>7, <1>8, <1>9, <1>10 DEF Statement

LEMMA StepContinues ==
    ASSUME Inv, [Next]_vars
    PROVE  \A o \in Handlers : Continues(o)
<1>0. TypeOK
  BY DEF Inv
<1>1. ASSUME NEW h \in Handlers, NEW kind, NEW u, NEW persistent, NEW credential, NEW id,
             Begin(h, kind, u, persistent, credential, id)
      PROVE  \A o \in Handlers : Continues(o)
  <2>1. tx'[h].step = 1 /\ \A o \in Handlers \ {h} : tx'[o] = tx[o]
    BY <1>0, <1>1 DEF Begin, TypeOK
  <2>. QED
    BY <2>1 DEF Continues
<1>2. ASSUME NEW h \in Handlers, NEW u, NEW credential, NEW id,
             BeginRegister(h, u, credential, id)
      PROVE  \A o \in Handlers : Continues(o)
  BY <1>1, <1>2 DEF BeginRegister
<1>3. ASSUME NEW h \in Handlers, NEW u, NEW persistent, NEW credential, NEW id,
             BeginLogin(h, u, persistent, credential, id)
      PROVE  \A o \in Handlers : Continues(o)
  BY <1>1, <1>3 DEF BeginLogin
<1>4. ASSUME NEW h \in Handlers, NEW credential, BeginLogoutAll(h, credential)
      PROVE  \A o \in Handlers : Continues(o)
  BY <1>1, <1>4 DEF BeginLogoutAll
<1>5. ASSUME NEW h \in Handlers, Abort(h)
      PROVE  \A o \in Handlers : Continues(o)
  BY <1>0, <1>5, ReleaseContinues DEF Abort, Rollback
<1>6. UNCHANGED tx => \A o \in Handlers : Continues(o)
  BY DEF Continues
<1>7. ASSUME NEW s \in SessionIds, Authenticate(s) \/ Logout(s)
      PROVE  UNCHANGED tx
  BY <1>7 DEF Authenticate, Logout
<1>8. Prune \/ Tick \/ UNCHANGED vars => UNCHANGED tx
  BY DEF Prune, Tick, vars
<1>. QED
  BY <1>2, <1>3, <1>4, <1>5, <1>6, <1>7, <1>8, StatementContinues DEF Next

\* An address gets its account when a transaction that holds it commits.
LEMMA AccountsComeFromCommits ==
    ASSUME Inv, [Next]_vars
    PROVE  \/ account' = account
           \/ \E h \in Handlers : Commit(h) /\ account' = account \union {tx[h].user}
<1>1. ASSUME NEW h \in Handlers, Statement(h)
      PROVE  \/ account' = account
             \/ Commit(h) /\ account' = account \union {tx[h].user}
  <2>1. CreateUser(h) => account' = account
    BY DEF CreateUser, Rollback
  <2>2. LockAccount(h) => account' = account
    BY DEF LockAccount
  <2>3. Insert(h) => account' = account
    BY DEF Insert
  <2>4. RevokePrevious(h) => account' = account
    BY DEF RevokePrevious
  <2>5. LockSession(h) => account' = account
    BY DEF LockSession, Rollback
  <2>6. Snapshot(h) => account' = account
    BY DEF Snapshot
  <2>7. Sweep(h) => account' = account
    BY DEF Sweep
  <2>8. CASE Commit(h)
    BY <2>8 DEF Commit
  <2>9. CASE ~Commit(h)
    BY <1>1, <2>1, <2>2, <2>3, <2>4, <2>5, <2>6, <2>7, <2>9 DEF Statement
  <2>. QED
    BY <2>8, <2>9
<1>2. ASSUME NEW h \in Handlers, NEW u \in Users, NEW credential, NEW id,
             BeginRegister(h, u, credential, id)
      PROVE  account' = account
  BY <1>2 DEF BeginRegister, Begin
<1>3. ASSUME NEW h \in Handlers, NEW u \in Users, NEW credential, NEW id, NEW persistent,
             BeginLogin(h, u, persistent, credential, id)
      PROVE  account' = account
  BY <1>3 DEF BeginLogin, Begin
<1>4. ASSUME NEW h \in Handlers, NEW credential, BeginLogoutAll(h, credential)
      PROVE  account' = account
  BY <1>4 DEF BeginLogoutAll, Begin
<1>5. ASSUME NEW h \in Handlers, Abort(h)
      PROVE  account' = account
  BY <1>5 DEF Abort, Rollback
<1>6. ASSUME NEW s \in SessionIds, Authenticate(s) \/ Logout(s)
      PROVE  account' = account
  BY <1>6 DEF Authenticate, Logout
<1>7. Prune \/ Tick \/ UNCHANGED vars => account' = account
  BY DEF Prune, Tick, vars
<1>. QED
  BY <1>1, <1>2, <1>3, <1>4, <1>5, <1>6, <1>7 DEF Next

(* The insertion of an account makes a second registration of the address     *)
(* wait for the first one's outcome, so no transaction that got past it finds *)
(* the address taken (auth.service.ts 56-67, 97-102).                         *)
THEOREM RegistrationsAreUnique == Spec => []RegistersOnce
<1>1. Init => RegistersOnce
  BY DEF Init, RegistersOnce
<1>2. ASSUME Inv, Inv', RegistersOnce, [Next]_vars, NEW h \in Handlers,
             tx'[h] # NoTx, tx'[h].kind = "register", tx'[h].step > 1
      PROVE  tx'[h].user \notin account'
  <2>1. Continues(h) /\ tx'[h].step # 1
    <3>1. tx'[h].step \in Nat
      BY <1>2 DEF Inv, TypeOK, Tx
    <3>. QED
      BY <1>2, <3>1, StepContinues
  <2>2. /\ Running(h) /\ tx[h].kind = "register" /\ tx'[h].user = tx[h].user
        /\ tx[h].step > 1 \/ CreateUser(h)
    BY <1>2, <2>1 DEF Continues, Running
  <2>3. CASE CreateUser(h)
    BY <1>2, <2>2, <2>3 DEF CreateUser, Rollback, Release, Inv, TypeOK
  <2>4. CASE tx[h].step > 1
    <3>1. tx[h].user \notin account /\ userLock[tx[h].user] = h
      BY <1>2, <2>2, <2>4 DEF RegistersOnce, Running, Inv, HoldsAccount
    <3>2. ASSUME NEW g \in Handlers, Commit(g)
          PROVE  tx[g].user # tx[h].user
      <4>1. g # h
        BY <1>2, <3>2, ReleaseFacts DEF Commit, Inv, Running
      <4>2. Running(g) /\ tx[g] \in Tx /\ tx[g].step \in 1..Len(Statements[tx[g].kind])
        BY <1>2, <3>2 DEF Commit, At, Running, Inv, TypeOK, TxTypes
      <4>3. tx[g].step > 1
        BY <3>2, <4>2, Positions DEF Commit
      <4>. QED
        BY <1>2, <3>1, <4>1, <4>2, <4>3 DEF Inv, HoldsAccount
    <3>. QED
      BY <1>2, <2>2, <3>1, <3>2, AccountsComeFromCommits
  <2>. QED
    BY <2>2, <2>3, <2>4
<1>3. Inv /\ Inv' /\ RegistersOnce /\ [Next]_vars => RegistersOnce'
  BY <1>2 DEF RegistersOnce
<1>. QED
  BY <1>1, <1>3, SessionsInvariant, PTL DEF Spec
-----------------------------------------------------------------------------
(* Waits. A request waits for the row of its account on its first statement,  *)
(* and for rows of sessions afterwards. Whoever holds the row it waits for is *)
(* further on, so waits never form a cycle, of whatever length. The delicate  *)
(* case is two global logouts that sweep: those of one account exclude each   *)
(* other by its row, and those of different accounts have no row in common.   *)

\* The row of an account is held by a transaction of that account.
AccountLocks ==
    \A u \in Users :
        userLock[u] # Free =>
            LET g == userLock[u] IN Running(g) /\ tx[g].user = u /\ tx[g].step > 1

\* When a transaction may hold the row of a session: a login or a registration
\* when all that is left to it is to commit, a global logout from its second
\* statement on, and only rows it has asked for.
HoldsRow(g, s) ==
    /\ Running(g)
    /\ IF tx[g].kind = "logoutAll"
       THEN \/ tx[g].step > 2 /\ s = tx[g].credential
            \/ tx[g].step > 3 /\ s \in tx[g].todo \union tx[g].revoked
       ELSE tx[g].step = 4

SessionLocks == \A s \in SessionIds : rowLock[s] # Free => HoldsRow(rowLock[s], s)

LoggingOut(h) == Running(h) /\ tx[h].kind = "logoutAll"

\* The rows a global logout locks, sooner or later.
Claims(h) == {tx[h].credential} \union tx[h].todo \union tx[h].revoked

\* A row claimed for an account is one of its sessions, unless it is deleted.
OfAccount(s, u) == session[s] = Pruned \/ (Exists(s) /\ session[s].user = u)

ClaimsOwn ==
    \A h \in Handlers : LoggingOut(h) => \A s \in Claims(h) : OfAccount(s, tx[h].user)

ClaimsApart ==
    \A g, h \in Handlers :
        LoggingOut(g) /\ LoggingOut(h) /\ tx[g].user # tx[h].user
            => Claims(g) \intersect Claims(h) = {}

LocksInv == AccountLocks /\ SessionLocks /\ ClaimsOwn /\ ClaimsApart

\* The statement revokes the session of the cookie, so it locks its row.
RevokesCookie(h) ==
    LET s == tx[h].credential
    IN  At(h, "revokePrevious") /\ s \in SessionIds /\ Exists(s) /\ ~session[s].revoked

\* The next statement of h cannot complete before the transaction of g ends.
WaitsFor(h, g) ==
    /\ g # h
    /\ \/ /\ (At(h, "createUser") /\ tx[h].user \notin account) \/ At(h, "lockUser")
          /\ userLock[tx[h].user] = g
       \/ RevokesCookie(h) /\ rowLock[tx[h].credential] = g
       \/ At(h, "lockSession") /\ rowLock[tx[h].credential] = g
       \/ At(h, "sweep") /\ \E s \in tx[h].todo : rowLock[s] = g

\* How many waits a transaction may still meet.
WaitsLeft(h) ==
    IF At(h, "createUser") \/ At(h, "lockUser") THEN 3
    ELSE IF At(h, "revokePrevious") THEN 2
    ELSE IF At(h, "lockSession") \/ At(h, "sweep") THEN 1
    ELSE 0

WaitsDescend ==
    \A h, g \in Handlers : WaitsFor(h, g) => Running(g) /\ WaitsLeft(g) < WaitsLeft(h)

\* The next statement of h finds the rows it locks free.
Unblocked(h) ==
    /\ (At(h, "createUser") /\ tx[h].user \notin account) \/ At(h, "lockUser")
         => userLock[tx[h].user] \in {Free, h}
    /\ RevokesCookie(h) => rowLock[tx[h].credential] \in {Free, h}
    /\ At(h, "lockSession") => rowLock[tx[h].credential] = Free
    /\ At(h, "sweep") => \A s \in tx[h].todo : rowLock[s] \in {Free, h}

\* As long as a transaction is open, the next statement of one is not blocked.
SomeoneProceeds ==
    (\E h \in Handlers : Running(h)) => \E h \in Handlers : Running(h) /\ Unblocked(h)

\* Rows are never given to another account.
LEMMA RowsKeepTheirAccount ==
    ASSUME Inv, Inv', [Next]_vars, NEW s \in SessionIds, NEW u, OfAccount(s, u)
    PROVE  OfAccount(s, u)'
<1>1. CASE session'[s] = session[s]
  BY <1>1 DEF OfAccount, Exists
<1>2. session[s] # NoRow
  BY RowsDiffer DEF OfAccount, Exists
<1>3. CASE Revoked(s)
  <2>1. session[s] \in SessionRow /\ session[s].user = u
    BY <1>3, RowsDiffer DEF OfAccount, Revoked, Exists
  <2>2. session'[s] \in SessionRow /\ session'[s].user = u
    BY <1>3, <2>1 DEF Revoked, SessionRow
  <2>. QED
    BY <2>2 DEF OfAccount, Exists
<1>4. CASE WasRenewed(s)
  <2>1. session[s] \in SessionRow /\ session[s].user = u
    BY <1>4, RowsDiffer DEF OfAccount, WasRenewed, Live, Exists
  <2>2. PICK later \in Nat : session'[s] = Renewed(session[s], later)
    BY <1>4 DEF WasRenewed
  <2>3. session'[s] \in SessionRow /\ session'[s].user = u
    BY <2>1, <2>2, RenewedFacts
  <2>. QED
    BY <2>3 DEF OfAccount, Exists
<1>5. CASE Deleted(s)
  BY <1>5 DEF Deleted, OfAccount
<1>. QED
  BY <1>1, <1>2, <1>3, <1>4, <1>5, StepChangesRows DEF Inserted

\* A step of one handler, in terms of what it locks and claims.
LEMMA LocksAfter ==
    ASSUME Inv, LocksInv, NEW h \in Handlers,
           \A o \in Handlers \ {h} : tx'[o] = tx[o],
           \A u \in Users :
              IF userLock'[u] = h
              THEN tx'[h] # NoTx /\ tx'[h].user = u /\ tx'[h].step > 1
              ELSE userLock'[u] \in {userLock[u], Free},
           \A s \in SessionIds :
              IF rowLock'[s] = h THEN HoldsRow(h, s)' ELSE rowLock'[s] \in {rowLock[s], Free},
           LoggingOut(h)' => \A s \in Claims(h)' :
              \/ LoggingOut(h) /\ tx'[h].user = tx[h].user /\ s \in Claims(h)
              \/ Exists(s) /\ session[s].user = tx'[h].user,
           \A o \in Handlers : LoggingOut(o)' => Claims(o)' \subseteq SessionIds,
           \A s \in SessionIds, u \in Users : OfAccount(s, u) => OfAccount(s, u)',
           tx' \in [Handlers -> Tx \union {NoTx}]
    PROVE  LocksInv'
<1>1. AccountLocks'
  BY DEF AccountLocks, LocksInv, Running, Inv, TypeOK
<1>2. SessionLocks'
  BY DEF SessionLocks, HoldsRow, LocksInv, Running, Inv, TypeOK
<1>3. ASSUME NEW o \in Handlers \ {h}
      PROVE  /\ LoggingOut(o)' = LoggingOut(o) /\ Claims(o)' = Claims(o)
             /\ tx'[o].user = tx[o].user /\ (LoggingOut(o) => tx[o].user \in Users)
  BY DEF LoggingOut, Claims, Running, Inv, TypeOK, Tx
<1>4. ASSUME LoggingOut(h)'
      PROVE  tx'[h].user \in Users
  BY <1>4 DEF LoggingOut, Running, Tx
<1>5. ClaimsOwn'
  <2>. SUFFICES ASSUME NEW o \in Handlers, LoggingOut(o)', NEW s \in Claims(o)'
                PROVE  OfAccount(s, tx[o].user)'
    BY DEF ClaimsOwn
  <2>1. /\ s \in SessionIds
        /\ OfAccount(s, tx[o].user)' =
              \/ session'[s] = Pruned
              \/ session'[s] \in SessionRow /\ session'[s].user = tx'[o].user
    BY DEF OfAccount, Exists
  <2>. DEFINE before(u) == OfAccount(s, u)
              after(u) == session'[s] = Pruned \/ (session'[s] \in SessionRow /\ session'[s].user = u)
  <2>4. \A u \in Users : before(u) => after(u)
    BY <2>1 DEF OfAccount, Exists
  <2>2. CASE o = h
    <3>1. OfAccount(s, tx'[h].user)
      <4>1. CASE LoggingOut(h) /\ tx'[h].user = tx[h].user /\ s \in Claims(h)
        BY <4>1 DEF LocksInv, ClaimsOwn
      <4>2. CASE Exists(s) /\ session[s].user = tx'[h].user
        BY <4>2 DEF OfAccount
      <4>. QED
        BY <2>2, <4>1, <4>2
    <3>. QED
      BY <1>4, <2>1, <2>2, <2>4, <3>1
  <2>3. CASE o # h
    <3>1. OfAccount(s, tx[o].user)
      BY <1>3, <2>3 DEF LocksInv, ClaimsOwn
    <3>. QED
      BY <1>3, <2>1, <2>3, <2>4, <3>1
  <2>. QED
    BY <2>2, <2>3
<1>6. ASSUME NEW g \in Handlers \ {h}, NEW o \in Handlers, LoggingOut(g)', LoggingOut(o)',
             NEW s, s \in Claims(g)', s \in Claims(o)'
      PROVE  tx'[g].user = tx'[o].user
  <2>1. LoggingOut(g) /\ s \in Claims(g) /\ OfAccount(s, tx[g].user) /\ tx'[g].user = tx[g].user
    BY <1>3, <1>6 DEF LocksInv, ClaimsOwn
  <2>2. CASE o # h
    BY <1>3, <1>6, <2>1, <2>2 DEF LocksInv, ClaimsApart
  <2>3. CASE o = h /\ LoggingOut(h) /\ tx'[h].user = tx[h].user /\ s \in Claims(h)
    BY <2>1, <2>3 DEF LocksInv, ClaimsApart
  <2>4. CASE o = h /\ Exists(s) /\ session[s].user = tx'[h].user
    BY <2>1, <2>4, RowsDiffer DEF OfAccount, Exists
  <2>. QED
    BY <1>6, <2>2, <2>3, <2>4
<1>7. ClaimsApart'
  <2>. SUFFICES ASSUME NEW g \in Handlers, NEW o \in Handlers, LoggingOut(g)', LoggingOut(o)',
                       tx'[g].user # tx'[o].user, NEW s, s \in Claims(g)', s \in Claims(o)'
                PROVE  FALSE
    BY DEF ClaimsApart
  <2>1. g # h \/ o # h
    OBVIOUS
  <2>. QED
    BY <1>6, <2>1
<1>. QED
  BY <1>1, <1>2, <1>5, <1>7 DEF LocksInv

(* Going on: the same request, one statement further or as far. *)
LEMMA AdvanceLocks ==
    ASSUME Inv, LocksInv, NEW h \in Handlers, NEW n \in Nat, n > 1, Advances(h, n),
           n >= tx[h].step, tx[h].kind # "logoutAll" => tx[h].step < 4,
           \A u \in Users : userLock'[u] = userLock[u] \/ (u = tx[h].user /\ userLock'[u] = h),
           \A s \in SessionIds : rowLock'[s] = rowLock[s] \/ (rowLock'[s] = h /\ HoldsRow(h, s)'),
           tx[h].todo \subseteq tx'[h].todo \union tx'[h].revoked \/ tx[h].step < 4,
           tx[h].revoked \subseteq tx'[h].revoked,
           tx[h].kind = "logoutAll" =>
               tx'[h].todo \union tx'[h].revoked \subseteq
                   tx[h].todo \union tx[h].revoked \union Unrevoked(tx[h].user),
           session' = session
    PROVE  LocksInv'
<1>1. /\ tx' \in [Handlers -> Tx \union {NoTx}]
      /\ \A o \in Handlers \ {h} : tx'[o] = tx[o]
      /\ tx[h] # NoTx /\ tx'[h] # NoTx /\ tx[h] \in Tx /\ tx'[h] \in Tx
      /\ tx'[h].kind = tx[h].kind /\ tx'[h].user = tx[h].user /\ tx'[h].step = n
      /\ tx'[h].credential = tx[h].credential
  BY DEF Advances, Running, Inv, TypeOK
<1>2. ASSUME NEW u \in Users
      PROVE  IF userLock'[u] = h
             THEN tx'[h] # NoTx /\ tx'[h].user = u /\ tx'[h].step > 1
             ELSE userLock'[u] \in {userLock[u], Free}
  BY <1>1, RowsDiffer DEF LocksInv, AccountLocks
<1>3. ASSUME NEW s \in SessionIds
      PROVE  IF rowLock'[s] = h THEN HoldsRow(h, s)' ELSE rowLock'[s] \in {rowLock[s], Free}
  <2>. SUFFICES ASSUME rowLock[s] = h PROVE HoldsRow(h, s)'
    OBVIOUS
  <2>1. HoldsRow(h, s)
    BY RowsDiffer DEF LocksInv, SessionLocks
  <2>2. tx[h].kind = "logoutAll"
    BY <2>1 DEF HoldsRow
  <2>3. tx[h].step \in Nat
    BY <1>1 DEF Tx
  <2>. QED
    BY <1>1, <2>1, <2>2, <2>3 DEF HoldsRow, Running
<1>4. ASSUME LoggingOut(h)', NEW s \in Claims(h)'
      PROVE  \/ LoggingOut(h) /\ tx'[h].user = tx[h].user /\ s \in Claims(h)
             \/ Exists(s) /\ session[s].user = tx'[h].user
  <2>1. LoggingOut(h) /\ (s \in Claims(h) \/ s \in Unrevoked(tx[h].user))
    BY <1>1, <1>4 DEF LoggingOut, Running, Claims
  <2>. QED
    BY <1>1, <2>1 DEF Unrevoked
<1>5. ASSUME NEW o \in Handlers, LoggingOut(o)'
      PROVE  Claims(o)' \subseteq SessionIds
  <2>1. CASE o = h
    <3>1. tx[h].kind = "logoutAll" /\ Running(h)
      BY <1>1, <1>5, <2>1 DEF LoggingOut, Running
    <3>2. tx'[h].credential \in SessionIds
      BY <1>1, <3>1 DEF Inv, OwnIdentifier
    <3>3. tx'[h].todo \subseteq SessionIds /\ tx'[h].revoked \subseteq SessionIds
      BY <1>1 DEF Tx
    <3>. QED
      BY <2>1, <3>2, <3>3 DEF Claims
  <2>2. CASE o # h
    <3>1. tx[o].kind = "logoutAll" /\ Running(o) /\ tx[o] \in Tx
      BY <1>1, <1>5, <2>2 DEF LoggingOut, Running, Inv, TypeOK
    <3>2. tx[o].credential \in SessionIds /\ tx[o].todo \subseteq SessionIds
          /\ tx[o].revoked \subseteq SessionIds
      BY <3>1 DEF Inv, OwnIdentifier, Tx
    <3>. QED
      BY <1>1, <2>2, <3>2 DEF Claims
  <2>. QED
    BY <2>1, <2>2
<1>6. \A s \in SessionIds, u \in Users : OfAccount(s, u) => OfAccount(s, u)'
  BY DEF OfAccount, Exists
<1>. QED
  BY <1>1, <1>2, <1>3, <1>4, <1>5, <1>6, LocksAfter

(* A transaction that ends gives its locks back; its row changes keep accounts. *)
LEMMA ReleaseLocks ==
    ASSUME Inv, Inv', [Next]_vars, LocksInv, NEW h \in Handlers, Release(h)
    PROVE  LocksInv'
<1>1. /\ tx' \in [Handlers -> Tx \union {NoTx}] /\ tx'[h] = NoTx
      /\ \A o \in Handlers \ {h} : tx'[o] = tx[o]
      /\ \A u \in Users : userLock'[u] \in {userLock[u], Free} \ {h}
      /\ \A s \in SessionIds : rowLock'[s] \in {rowLock[s], Free} \ {h}
  BY ReleaseFacts DEF Inv, Running
<1>2. \A o \in Handlers : LoggingOut(o)' => Claims(o)' \subseteq SessionIds
  BY DEF LoggingOut, Running, Claims, Inv, TypeOK, OwnIdentifier, Tx
<1>3. ~LoggingOut(h)'
  BY <1>1 DEF LoggingOut, Running
<1>. QED
  BY <1>1, <1>2, <1>3, LocksAfter, RowsKeepTheirAccount

(* A transaction that begins locks nothing. *)
LEMMA BeginLocks ==
    ASSUME Inv, Inv', LocksInv, NEW h \in Handlers, NEW kind, NEW u, NEW persistent,
           NEW credential, NEW id, Begin(h, kind, u, persistent, credential, id),
           kind = "logoutAll" => Exists(credential) /\ session[credential].user = u
    PROVE  LocksInv'
<1>1. /\ tx' \in [Handlers -> Tx \union {NoTx}] /\ tx[h] = NoTx
      /\ \A o \in Handlers \ {h} : tx'[o] = tx[o]
      /\ UNCHANGED <<session, userLock, rowLock>>
      /\ tx'[h].kind = kind /\ tx'[h].user = u /\ tx'[h].credential = credential
      /\ tx'[h].todo = {} /\ tx'[h].revoked = {}
  BY DEF Begin, Inv, TypeOK
<1>2. h \notin LockHolders
  BY <1>1 DEF Inv, TypeOK
<1>3. (\A v \in Users : userLock[v] # h) /\ (\A s \in SessionIds : rowLock[s] # h)
  BY <1>2 DEF LockHolders
<1>4. \A o \in Handlers : LoggingOut(o)' => Claims(o)' \subseteq SessionIds
  BY DEF LoggingOut, Running, Claims, Inv, TypeOK, OwnIdentifier, Tx
<1>5. LoggingOut(h)' => \A s \in Claims(h)' : Exists(s) /\ session[s].user = tx'[h].user
  BY <1>1 DEF LoggingOut, Claims
<1>6. \A s \in SessionIds, v \in Users : OfAccount(s, v) => OfAccount(s, v)'
  BY <1>1 DEF OfAccount, Exists
<1>. QED
  BY <1>1, <1>3, <1>4, <1>5, <1>6, LocksAfter

(* A step without a transaction. *)
LEMMA RequestLocks ==
    ASSUME Inv, Inv', [Next]_vars, LocksInv, UNCHANGED <<userLock, rowLock, tx>>
    PROVE  LocksInv'
<1>1. AccountLocks' /\ SessionLocks' /\ ClaimsApart'
  BY DEF LocksInv, AccountLocks, SessionLocks, HoldsRow, ClaimsApart, LoggingOut, Claims, Running
<1>2. ASSUME NEW h \in Handlers, LoggingOut(h), NEW s \in Claims(h)
      PROVE  OfAccount(s, tx[h].user)'
  <2>1. OfAccount(s, tx[h].user)
    BY <1>2 DEF LocksInv, ClaimsOwn
  <2>2. s \in SessionIds
    BY <1>2 DEF LoggingOut, Running, Claims, Inv, TypeOK, OwnIdentifier, Tx
  <2>. DEFINE u == tx[h].user
  <2>3. OfAccount(s, u)
    BY <2>1
  <2>4. u' = u
    OBVIOUS
  <2>. QED
    BY <2>2, <2>3, <2>4, RowsKeepTheirAccount
<1>3. ClaimsOwn'
  BY <1>2 DEF ClaimsOwn, LoggingOut, Claims, Running
<1>. QED
  BY <1>1, <1>3 DEF LocksInv

(* The statements of a transaction, the commit included. *)
LEMMA StatementLocks ==
    ASSUME Inv, Inv', [Next]_vars, LocksInv, NEW h \in Handlers, Statement(h)
    PROVE  LocksInv'
<1>. DEFINE t == tx[h]
<1>0. TypeOK /\ TxTypes
  BY DEF Inv
<1>1. Running(h) /\ t \in Tx /\ t.step \in 1..Len(Statements[t.kind])
  BY <1>0 DEF Statement, CreateUser, LockAccount, Insert, RevokePrevious, LockSession,
              Snapshot, Sweep, Commit, At, Running, TypeOK, TxTypes
<1>2. /\ At(h, "createUser") => t.kind = "register" /\ t.step = 1
      /\ At(h, "lockUser") => t.kind # "register" /\ t.step = 1
      /\ At(h, "insert") => t.kind # "logoutAll" /\ t.step = 2
      /\ At(h, "revokePrevious") => t.kind # "logoutAll" /\ t.step = 3
      /\ At(h, "lockSession") => t.kind = "logoutAll" /\ t.step = 2
      /\ At(h, "snapshot") => t.kind = "logoutAll" /\ t.step = 3
      /\ At(h, "sweep") => t.kind = "logoutAll" /\ t.step = 4
  BY <1>1, Positions
<1>3. /\ t.user \in Users /\ t.step \in Nat
      /\ t.todo \subseteq SessionIds /\ t.revoked \subseteq SessionIds
  BY <1>1 DEF Tx
<1>4. CASE Release(h)
  BY <1>4, ReleaseLocks
<1>5. ASSUME ~Release(h), CreateUser(h) \/ LockAccount(h)
      PROVE  LocksInv'
  <2>1. /\ LockUser(h, t.user) /\ Proceed(h, t) /\ UNCHANGED <<session, rowLock>>
        /\ t.step = 1
    BY <1>2, <1>5 DEF CreateUser, LockAccount, Rollback
  <2>2. Advances(h, 2) /\ tx'[h].todo = t.todo /\ tx'[h].revoked = t.revoked
    BY <1>0, <1>1, <2>1, ProceedAdvances
  <2>3. \A v \in Users : userLock'[v] = userLock[v] \/ (v = t.user /\ userLock'[v] = h)
    BY <1>0, <1>3, <2>1 DEF LockUser, TypeOK
  <2>. QED
    BY <2>1, <2>2, <2>3, AdvanceLocks
<1>6. ASSUME Insert(h)
      PROVE  LocksInv'
  <2>. DEFINE next == [tx[h] EXCEPT !.row = NewRow(tx[h].user, tx[h].persistent)]
  <2>1. NewRow(tx[h].user, tx[h].persistent) \in SessionRow
    <3>1. now \in Nat /\ tx[h].user \in Users /\ tx[h].persistent \in BOOLEAN
      BY <1>0, <1>1, PolicyAssumption DEF Tx, TypeOK
    <3>. QED
      BY <3>1, NewRowInOrder
  <2>2. /\ next \in Tx /\ next.kind = t.kind /\ next.user = t.user /\ next.id = t.id
        /\ next.credential = t.credential /\ next.step = t.step
        /\ next.todo = t.todo /\ next.revoked = t.revoked
    BY <1>1, <2>1 DEF Tx
  <2>3. Proceed(h, next) /\ UNCHANGED <<session, userLock, rowLock>> /\ t.step = 2
    BY <1>2, <1>6 DEF Insert
  <2>. HIDE DEF next
  <2>4. Advances(h, 3) /\ tx'[h].todo = t.todo /\ tx'[h].revoked = t.revoked
    BY <1>0, <1>1, <2>2, <2>3, ProceedAdvances
  <2>. QED
    BY <2>3, <2>4, AdvanceLocks
<1>7. ASSUME RevokePrevious(h)
      PROVE  LocksInv'
  <2>. DEFINE s == t.credential
              next == [tx[h] EXCEPT !.revoked = @ \union {s}]
  <2>1. t.step = 3 /\ t.kind # "logoutAll" /\ UNCHANGED <<session, userLock>>
    BY <1>2, <1>7 DEF RevokePrevious
  <2>2. CASE Proceed(h, tx[h]) /\ UNCHANGED rowLock
    <3>1. Advances(h, 4) /\ tx'[h].todo = t.todo /\ tx'[h].revoked = t.revoked
      BY <1>0, <1>1, <2>1, <2>2, ProceedAdvances
    <3>. QED
      BY <2>1, <2>2, <3>1, AdvanceLocks
  <2>3. CASE s \in SessionIds /\ Exists(s) /\ LockRow(h, s) /\ Proceed(h, next)
    <3>1. /\ next \in Tx /\ next.kind = t.kind /\ next.user = t.user /\ next.id = t.id
          /\ next.credential = t.credential /\ next.step = t.step
          /\ next.todo = t.todo /\ next.revoked = t.revoked \union {s}
      BY <1>1, <2>3 DEF Tx
    <3>2. Proceed(h, next) /\ LockRow(h, s) /\ s \in SessionIds
      BY <2>3
    <3>. HIDE DEF next
    <3>3. /\ Advances(h, 4) /\ tx'[h].todo = t.todo
          /\ tx'[h].revoked = t.revoked \union {s}
      BY <1>0, <1>1, <2>1, <3>1, <3>2, ProceedAdvances
    <3>4. \A r \in SessionIds : HoldsRow(h, r)'
      BY <2>1, <3>3 DEF HoldsRow, Advances
    <3>5. \A r \in SessionIds : rowLock'[r] = rowLock[r] \/ (r = s /\ rowLock'[r] = h)
      BY <1>0, <3>2 DEF LockRow, TypeOK
    <3>. QED
      BY <2>1, <3>3, <3>4, <3>5, AdvanceLocks
  <2>. QED
    BY <1>7, <2>2, <2>3 DEF RevokePrevious
<1>8. ASSUME ~Release(h), LockSession(h)
      PROVE  LocksInv'
  <2>1. /\ LockRow(h, t.credential) /\ Proceed(h, t) /\ UNCHANGED <<session, userLock>>
        /\ t.step = 2 /\ t.kind = "logoutAll"
    BY <1>2, <1>8 DEF LockSession, Rollback
  <2>2. Advances(h, 3) /\ tx'[h].todo = t.todo /\ tx'[h].revoked = t.revoked
    BY <1>0, <1>1, <2>1, ProceedAdvances
  <2>3. \A s \in SessionIds :
            rowLock'[s] = rowLock[s] \/ (s = t.credential /\ rowLock'[s] = h)
    BY <1>0, <2>1 DEF LockRow, TypeOK
  <2>4. \A s \in SessionIds : s = t.credential => HoldsRow(h, s)'
    BY <2>1, <2>2 DEF HoldsRow, Advances
  <2>. QED
    BY <2>1, <2>2, <2>3, <2>4, AdvanceLocks
<1>9. ASSUME Snapshot(h)
      PROVE  LocksInv'
  <2>. DEFINE next == [tx[h] EXCEPT !.todo = Unrevoked(tx[h].user)]
  <2>1. /\ next \in Tx /\ next.kind = t.kind /\ next.user = t.user /\ next.id = t.id
        /\ next.credential = t.credential /\ next.step = t.step
        /\ next.todo = Unrevoked(t.user) /\ next.revoked = t.revoked
    BY <1>1 DEF Tx, Unrevoked
  <2>2. /\ Proceed(h, next) /\ UNCHANGED <<session, userLock, rowLock>>
        /\ t.step = 3 /\ t.kind = "logoutAll"
    BY <1>2, <1>9 DEF Snapshot
  <2>. HIDE DEF next
  <2>3. Advances(h, 4) /\ tx'[h].todo = Unrevoked(t.user) /\ tx'[h].revoked = t.revoked
    BY <1>0, <1>1, <2>1, <2>2, ProceedAdvances
  <2>. QED
    BY <2>2, <2>3, AdvanceLocks
<1>10. ASSUME Sweep(h)
       PROVE  LocksInv'
  <2>1. t.step = 4 /\ t.kind = "logoutAll" /\ UNCHANGED <<session, userLock>>
    BY <1>2, <1>10 DEF Sweep
  <2>2. CASE Proceed(h, tx[h]) /\ UNCHANGED rowLock
    <3>1. Advances(h, 5) /\ tx'[h].todo = t.todo /\ tx'[h].revoked = t.revoked
      BY <1>0, <1>1, <2>1, <2>2, ProceedAdvances
    <3>. QED
      BY <2>1, <2>2, <3>1, AdvanceLocks
  <2>3. ASSUME NEW s \in t.todo, LockRow(h, s),
               tx' = [tx EXCEPT ![h].todo = @ \ {s}, ![h].revoked = @ \union {s}]
        PROVE  LocksInv'
    <3>. DEFINE next == [tx[h] EXCEPT !.todo = @ \ {s}, !.revoked = @ \union {s}]
    <3>1. /\ next \in Tx /\ next.kind = t.kind /\ next.user = t.user /\ next.id = t.id
          /\ next.credential = t.credential /\ next.step = t.step
          /\ next.todo = t.todo \ {s} /\ next.revoked = t.revoked \union {s}
      BY <1>1, <1>3 DEF Tx
    <3>2. tx' = [tx EXCEPT ![h] = next]
      BY <2>3
    <3>. HIDE DEF next
    <3>3. /\ tx'[h] = next /\ next # NoTx
          /\ \A o \in Handlers \ {h} : tx'[o] = tx[o]
          /\ tx' \in [Handlers -> Tx \union {NoTx}]
      BY <1>0, <3>1, <3>2, NoTxAssumption DEF TypeOK
    <3>4. Advances(h, 4)
      BY <1>1, <2>1, <3>1, <3>3 DEF Advances, Running
    <3>5. HoldsRow(h, s)'
      BY <2>1, <3>1, <3>3 DEF HoldsRow, Running
    <3>6. \A r \in SessionIds : rowLock'[r] = rowLock[r] \/ (r = s /\ rowLock'[r] = h)
      BY <1>0, <2>3 DEF LockRow, TypeOK
    <3>7. /\ t.todo \subseteq tx'[h].todo \union tx'[h].revoked
          /\ t.revoked \subseteq tx'[h].revoked
          /\ tx'[h].todo \union tx'[h].revoked \subseteq t.todo \union t.revoked
      BY <3>1, <3>3
    <3>. QED
      BY <2>1, <3>4, <3>5, <3>6, <3>7, AdvanceLocks
  <2>. QED
    BY <1>10, <2>2, <2>3 DEF Sweep
<1>11. Commit(h) => Release(h)
  BY DEF Commit
<1>. QED
  BY <1>4, <1>5, <1>6, <1>7, <1>8, <1>9, <1>10, <1>11 DEF Statement

LEMMA LocksKept ==
    ASSUME Inv, Inv', LocksInv, [Next]_vars
    PROVE  LocksInv'
<1>1. ASSUME NEW h \in Handlers, NEW u, NEW credential, NEW id, BeginRegister(h, u, credential, id)
      PROVE  LocksInv'
  BY <1>1, BeginLocks DEF BeginRegister
<1>2. ASSUME NEW h \in Handlers, NEW u, NEW persistent, NEW credential, NEW id,
             BeginLogin(h, u, persistent, credential, id)
      PROVE  LocksInv'
  BY <1>2, BeginLocks DEF BeginLogin
<1>3. ASSUME NEW h \in Handlers, NEW credential, BeginLogoutAll(h, credential)
      PROVE  LocksInv'
  <2>. DEFINE u == session[credential].user
  <2>1. Begin(h, "logoutAll", u, FALSE, credential, NoSession) /\ Exists(credential)
        /\ session[credential].user = u
    BY <1>3 DEF BeginLogoutAll, Live
  <2>. HIDE DEF u
  <2>. QED
    BY <2>1, BeginLocks
<1>4. ASSUME NEW h \in Handlers, Abort(h)
      PROVE  LocksInv'
  BY <1>4, ReleaseLocks DEF Abort, Rollback
<1>5. ASSUME NEW s \in SessionIds, Authenticate(s) \/ Logout(s)
      PROVE  UNCHANGED <<userLock, rowLock, tx>>
  BY <1>5 DEF Authenticate, Logout
<1>6. Prune \/ Tick \/ UNCHANGED vars => UNCHANGED <<userLock, rowLock, tx>>
  BY DEF Prune, Tick, vars
<1>7. UNCHANGED <<userLock, rowLock, tx>> => LocksInv'
  BY RequestLocks
<1>. QED
  BY <1>1, <1>2, <1>3, <1>4, <1>5, <1>6, <1>7, StatementLocks DEF Next

(* Where a transaction stands when it has the row of its account, or of a     *)
(* session, and what it may still wait for.                                   *)
LEMMA HoldersWaitLess ==
    ASSUME Inv, LocksInv, NEW g \in Handlers, Running(g)
    PROVE  /\ tx[g].step > 1 => WaitsLeft(g) < 3
           /\ \A s \in SessionIds : HoldsRow(g, s) => WaitsLeft(g) < 2
           /\ tx[g].kind # "logoutAll" /\ tx[g].step = 4 => WaitsLeft(g) = 0
<1>1. tx[g] \in Tx /\ tx[g].step \in 1..Len(Statements[tx[g].kind])
  BY DEF Inv, TypeOK, TxTypes, Running
<1>2. /\ At(g, "createUser") \/ At(g, "lockUser") => tx[g].step = 1
      /\ At(g, "revokePrevious") => tx[g].kind # "logoutAll" /\ tx[g].step = 3
      /\ At(g, "lockSession") \/ At(g, "sweep") => tx[g].kind = "logoutAll"
      /\ At(g, "lockSession") => tx[g].step = 2
  BY <1>1, Positions
<1>3. tx[g].step \in Nat
  BY <1>1 DEF Tx
<1>4. tx[g].step > 1 => WaitsLeft(g) < 3
  BY <1>2 DEF WaitsLeft
<1>5. ASSUME NEW s \in SessionIds, HoldsRow(g, s)
      PROVE  WaitsLeft(g) < 2
  <2>1. IF tx[g].kind = "logoutAll" THEN tx[g].step > 2 ELSE tx[g].step = 4
    BY <1>3, <1>5 DEF HoldsRow
  <2>. QED
    BY <1>2, <2>1 DEF WaitsLeft
<1>6. tx[g].kind # "logoutAll" /\ tx[g].step = 4 => WaitsLeft(g) = 0
  BY <1>2 DEF WaitsLeft
<1>. QED
  BY <1>4, <1>5, <1>6

\* Two global logouts never have a row in common: those of one account exclude
\* each other once they are past its row, the others claim different sessions.
LEMMA LogoutsDoNotMeet ==
    ASSUME Inv, LocksInv, NEW h \in Handlers, NEW g \in Handlers \ {h}, LoggingOut(h),
           tx[h].step > 1, NEW s \in Claims(h) \intersect SessionIds, HoldsRow(g, s)
    PROVE  tx[g].kind # "logoutAll" /\ tx[g].step = 4
<1>. SUFFICES ASSUME tx[g].kind = "logoutAll" PROVE FALSE
  BY DEF HoldsRow
<1>1. LoggingOut(g) /\ s \in Claims(g) /\ tx[g].step > 2
  <2>1. tx[g].step \in Nat
    BY DEF HoldsRow, Running, Inv, TypeOK, Tx
  <2>. QED
    BY <2>1 DEF HoldsRow, LoggingOut, Claims
<1>2. tx[g].user = tx[h].user
  BY <1>1 DEF LocksInv, ClaimsApart
<1>3. userLock[tx[g].user] = g /\ userLock[tx[h].user] = h
  <2>1. tx[g].step \in Nat
    BY <1>1 DEF LoggingOut, Running, Inv, TypeOK, Tx
  <2>. QED
    BY <1>1, <2>1 DEF Inv, HoldsAccount, LoggingOut
<1>. QED
  BY <1>2, <1>3

\* Whoever is waited for is further on in its transaction than who waits.
LEMMA WaitedForIsFurther == Inv /\ LocksInv => WaitsDescend
<1>. SUFFICES ASSUME Inv, LocksInv, NEW h \in Handlers, NEW g \in Handlers, WaitsFor(h, g)
              PROVE  Running(g) /\ WaitsLeft(g) < WaitsLeft(h)
  BY DEF WaitsDescend
<1>1. Running(h) /\ tx[h] \in Tx /\ tx[h].step \in 1..Len(Statements[tx[h].kind])
  BY DEF WaitsFor, RevokesCookie, At, Running, Inv, TypeOK, TxTypes
<1>2. g # h /\ g # Free /\ tx[h].user \in Users
  BY <1>1, RowsDiffer DEF WaitsFor, Tx
<1>3. ASSUME At(h, "createUser") \/ At(h, "lockUser"), userLock[tx[h].user] = g
      PROVE  Running(g) /\ WaitsLeft(g) < WaitsLeft(h)
  <2>1. Running(g) /\ tx[g].step > 1
    BY <1>2, <1>3 DEF LocksInv, AccountLocks
  <2>2. WaitsLeft(h) = 3
    BY <1>3 DEF WaitsLeft
  <2>. QED
    BY <2>1, <2>2, HoldersWaitLess
<1>4. ASSUME RevokesCookie(h), rowLock[tx[h].credential] = g
      PROVE  Running(g) /\ WaitsLeft(g) < WaitsLeft(h)
  <2>1. HoldsRow(g, tx[h].credential) /\ tx[h].credential \in SessionIds
    BY <1>2, <1>4 DEF RevokesCookie, LocksInv, SessionLocks
  <2>2. WaitsLeft(h) = 2
    BY <1>1, <1>4, Positions DEF RevokesCookie, WaitsLeft
  <2>. QED
    BY <2>1, <2>2, HoldersWaitLess DEF HoldsRow
<1>5. ASSUME At(h, "lockSession") \/ At(h, "sweep"), NEW s \in SessionIds,
             s \in Claims(h), rowLock[s] = g
      PROVE  Running(g) /\ WaitsLeft(g) < WaitsLeft(h)
  <2>1. HoldsRow(g, s) /\ Running(g)
    BY <1>2, <1>5 DEF LocksInv, SessionLocks, HoldsRow
  <2>2. LoggingOut(h) /\ tx[h].step > 1 /\ WaitsLeft(h) = 1
    BY <1>1, <1>5, Positions DEF LoggingOut, WaitsLeft
  <2>3. tx[g].kind # "logoutAll" /\ tx[g].step = 4
    BY <1>2, <1>5, <2>1, <2>2, LogoutsDoNotMeet
  <2>. QED
    BY <2>1, <2>2, <2>3, HoldersWaitLess
<1>6. ASSUME At(h, "lockSession"), rowLock[tx[h].credential] = g
      PROVE  tx[h].credential \in SessionIds /\ tx[h].credential \in Claims(h)
  BY <1>1, <1>6, Positions DEF Inv, OwnIdentifier, Claims
<1>7. ASSUME At(h, "sweep"), NEW s \in tx[h].todo
      PROVE  s \in SessionIds /\ s \in Claims(h)
  BY <1>1, <1>7 DEF Tx, Claims
<1>. QED
  BY <1>3, <1>4, <1>5, <1>6, <1>7 DEF WaitsFor

\* Who waits for nobody is not blocked.
LEMMA WaitingForNobody ==
    ASSUME Inv, LocksInv, NEW h \in Handlers, Running(h), \A g \in Handlers : ~WaitsFor(h, g)
    PROVE  Unblocked(h)
<1>1. /\ tx[h] \in Tx /\ tx[h].step \in 1..Len(Statements[tx[h].kind])
      /\ userLock \in [Users -> Handlers \union {Free}]
      /\ rowLock \in [SessionIds -> Handlers \union {Free}]
  BY DEF Running, Inv, TypeOK, TxTypes
<1>2. /\ tx[h].user \in Users /\ tx[h].todo \subseteq SessionIds
      /\ tx[h].credential \in SessionIds \union {NoSession}
  BY <1>1 DEF Tx
<1>3. (At(h, "createUser") /\ tx[h].user \notin account) \/ At(h, "lockUser")
         => userLock[tx[h].user] \in {Free, h}
  BY <1>1, <1>2 DEF WaitsFor
<1>4. RevokesCookie(h) => rowLock[tx[h].credential] \in {Free, h}
  BY <1>1, <1>2 DEF WaitsFor, RevokesCookie
<1>5. ASSUME At(h, "lockSession")
      PROVE  rowLock[tx[h].credential] = Free
  <2>1. tx[h].kind = "logoutAll" /\ tx[h].step = 2
    BY <1>1, <1>5, Positions
  <2>2. tx[h].credential \in SessionIds
    BY <2>1 DEF Inv, OwnIdentifier
  <2>3. rowLock[tx[h].credential] # h
    BY <2>1, <2>2, RowsDiffer DEF LocksInv, SessionLocks, HoldsRow
  <2>. QED
    BY <1>1, <1>5, <2>2, <2>3 DEF WaitsFor
<1>6. At(h, "sweep") => \A s \in tx[h].todo : rowLock[s] \in {Free, h}
  BY <1>1, <1>2 DEF WaitsFor
<1>. QED
  BY <1>3, <1>4, <1>5, <1>6 DEF Unblocked

\* Of the open transactions, one that may meet fewest waits meets none.
LEMMA DescentLeavesSomeone == Inv /\ LocksInv /\ WaitsDescend => SomeoneProceeds
<1>. SUFFICES ASSUME Inv, LocksInv, WaitsDescend, NEW h \in Handlers, Running(h)
              PROVE  \E k \in Handlers : Running(k) /\ \A g \in Handlers : ~WaitsFor(k, g)
  BY WaitingForNobody DEF SomeoneProceeds
<1>. DEFINE SomeoneBelow(n) == \A k \in Handlers : Running(k) /\ WaitsLeft(k) < n =>
                \E j \in Handlers : Running(j) /\ \A g \in Handlers : ~WaitsFor(j, g)
<1>1. \A k \in Handlers : WaitsLeft(k) \in 0..3
  BY DEF WaitsLeft
<1>2. ASSUME NEW n \in 0..3, SomeoneBelow(n)
      PROVE  SomeoneBelow(n + 1)
  <2>. SUFFICES ASSUME NEW k \in Handlers, Running(k), WaitsLeft(k) < n + 1
                PROVE  \E j \in Handlers : Running(j) /\ \A g \in Handlers : ~WaitsFor(j, g)
    OBVIOUS
  <2>1. CASE \A g \in Handlers : ~WaitsFor(k, g)
    BY <2>1
  <2>2. CASE \E g \in Handlers : WaitsFor(k, g)
    <3>1. PICK g \in Handlers : WaitsFor(k, g)
      BY <2>2
    <3>2. Running(g) /\ WaitsLeft(g) < n
      BY <1>1, <3>1 DEF WaitsDescend
    <3>. QED
      BY <1>2, <3>2
  <2>. QED
    BY <2>1, <2>2
<1>3. SomeoneBelow(0)
  BY <1>1
<1>. HIDE DEF SomeoneBelow
<1>4. SomeoneBelow(1) /\ SomeoneBelow(2) /\ SomeoneBelow(3) /\ SomeoneBelow(4)
  <2>1. SomeoneBelow(1)
    BY <1>2, <1>3
  <2>2. SomeoneBelow(2)
    BY <1>2, <2>1
  <2>3. SomeoneBelow(3)
    BY <1>2, <2>2
  <2>4. SomeoneBelow(4)
    BY <1>2, <2>3
  <2>. QED
    BY <2>1, <2>2, <2>3, <2>4
<1>5. WaitsLeft(h) < 4
  BY <1>1
<1>. QED
  BY <1>4, <1>5 DEF SomeoneBelow

(* Deadlock freedom of the web sessions ("the User row is always taken before *)
(* Session rows", session.service.ts 148): each request waits for one that is *)
(* further on, and as long as a transaction is open the next statement of one *)
(* is not blocked, for any number of accounts, sessions and requests.         *)
THEOREM SessionsNeverDeadlock == Spec => [](WaitsDescend /\ SomeoneProceeds)
<1>1. Init => LocksInv
  BY DEF Init, LocksInv, AccountLocks, SessionLocks, ClaimsOwn, ClaimsApart, LoggingOut, Running
<1>2. Inv /\ Inv' /\ LocksInv /\ [Next]_vars => LocksInv'
  BY LocksKept
<1>3. Inv /\ LocksInv => WaitsDescend /\ SomeoneProceeds
  BY WaitedForIsFurther, DescentLeavesSomeone
<1>. QED
  BY <1>1, <1>2, <1>3, SessionsInvariant, PTL DEF Spec
-----------------------------------------------------------------------------
(* Refinement: the transactions act as if every request ran alone.            *)

\* What is known of a request from its beginning: a login or a global logout is
\* for an account that exists, a sign-in has an identifier and, once it has
\* inserted, a row to commit, and it revokes nothing but its cookie.
RequestKnown(h) ==
    /\ tx[h].kind # "register" => tx[h].user \in account
    /\ tx[h].kind # "logoutAll" =>
          /\ tx[h].id \in SessionIds
          /\ tx[h].revoked \subseteq {tx[h].credential}
          /\ tx[h].step > 2 => tx[h].row # NoRow
    /\ tx[h].row # NoRow => ~tx[h].row.revoked

KnownInv ==
    /\ \A s \in SessionIds : Exists(s) => session[s].user \in account
    /\ \A h \in Handlers : Running(h) => RequestKnown(h)

LEMMA KnownAfter ==
    ASSUME KnownInv, NEW h \in Handlers, \A o \in Handlers \ {h} : tx'[o] = tx[o],
           account \subseteq account', Running(h)' => RequestKnown(h)'
    PROVE  \A o \in Handlers : Running(o)' => RequestKnown(o)'
<1>. SUFFICES ASSUME NEW o \in Handlers \ {h}, Running(o)'
              PROVE  RequestKnown(o)'
  OBVIOUS
<1>1. RequestKnown(o) /\ tx'[o] = tx[o]
  BY DEF KnownInv, Running
<1>. QED
  BY <1>1 DEF RequestKnown

\* A statement that goes on to the next one.
LEMMA AdvanceKnown ==
    ASSUME Inv, KnownInv, NEW h \in Handlers, NEW n, Advances(h, n),
           account \subseteq account',
           tx'[h].row = tx[h].row \/ (tx'[h].row # NoRow /\ ~tx'[h].row.revoked),
           tx[h].kind # "logoutAll" =>
               /\ tx'[h].revoked \subseteq {tx[h].credential}
               /\ n > 2 => tx'[h].row # NoRow
    PROVE  \A o \in Handlers : Running(o)' => RequestKnown(o)'
<1>1. /\ \A o \in Handlers \ {h} : tx'[o] = tx[o]
      /\ RequestKnown(h)
      /\ tx'[h].kind = tx[h].kind /\ tx'[h].user = tx[h].user /\ tx'[h].step = n
      /\ tx'[h].id = tx[h].id /\ tx'[h].credential = tx[h].credential
  BY DEF Advances, KnownInv
<1>2. RequestKnown(h)'
  BY <1>1 DEF RequestKnown
<1>. QED
  BY <1>1, <1>2, KnownAfter

LEMMA ReleaseKnown ==
    ASSUME Inv, KnownInv, NEW h \in Handlers, Release(h), account \subseteq account'
    PROVE  \A o \in Handlers : Running(o)' => RequestKnown(o)'
BY ReleaseFacts, KnownAfter DEF Inv

LEMMA BeginKnown ==
    ASSUME Inv, KnownInv, NEW h \in Handlers, NEW kind, NEW u, NEW persistent,
           NEW credential, NEW id, Begin(h, kind, u, persistent, credential, id),
           kind # "register" => u \in account, kind # "logoutAll" => id \in SessionIds
    PROVE  \A o \in Handlers : Running(o)' => RequestKnown(o)'
<1>1. /\ account' = account /\ \A o \in Handlers \ {h} : tx'[o] = tx[o]
      /\ tx'[h].kind = kind /\ tx'[h].user = u /\ tx'[h].id = id /\ tx'[h].step = 1
      /\ tx'[h].row = NoRow /\ tx'[h].revoked = {}
  BY DEF Begin, Inv, TypeOK
<1>2. RequestKnown(h)'
  BY <1>1 DEF RequestKnown
<1>. QED
  BY <1>1, <1>2, KnownAfter

LEMMA StatementKnown ==
    ASSUME Inv, KnownInv, NEW h \in Handlers, Statement(h), account \subseteq account'
    PROVE  \A o \in Handlers : Running(o)' => RequestKnown(o)'
<1>. DEFINE t == tx[h]
            known == \A o \in Handlers : Running(o)' => RequestKnown(o)'
<1>0. TypeOK /\ TxTypes
  BY DEF Inv
<1>1. Running(h) /\ t \in Tx /\ t.step \in 1..Len(Statements[t.kind])
  BY <1>0 DEF Statement, CreateUser, LockAccount, Insert, RevokePrevious, LockSession,
              Snapshot, Sweep, Commit, At, Running, TypeOK, TxTypes
<1>2. /\ At(h, "createUser") => t.kind = "register" /\ t.step = 1
      /\ At(h, "lockUser") => t.kind # "register" /\ t.step = 1
      /\ At(h, "insert") => t.kind # "logoutAll" /\ t.step = 2
      /\ At(h, "revokePrevious") => t.kind # "logoutAll" /\ t.step = 3
      /\ At(h, "lockSession") => t.kind = "logoutAll" /\ t.step = 2
      /\ At(h, "snapshot") => t.kind = "logoutAll" /\ t.step = 3
      /\ At(h, "sweep") => t.kind = "logoutAll" /\ t.step = 4
  BY <1>1, Positions
<1>3. RequestKnown(h)
  BY <1>1 DEF KnownInv
<1>4. CASE Release(h)
  BY <1>4, ReleaseKnown
<1>5. ASSUME ~Release(h), CreateUser(h) \/ LockAccount(h) \/ LockSession(h)
      PROVE  known
  <2>1. Proceed(h, t) /\ (t.step = 1 \/ t.kind = "logoutAll")
    BY <1>2, <1>5 DEF CreateUser, LockAccount, LockSession, Rollback
  <2>2. Advances(h, t.step + 1) /\ tx'[h].row = t.row /\ tx'[h].revoked = t.revoked
    BY <1>0, <1>1, <2>1, ProceedAdvances
  <2>. QED
    BY <1>3, <2>1, <2>2, AdvanceKnown DEF RequestKnown
<1>6. ASSUME Insert(h)
      PROVE  known
  <2>. DEFINE new == NewRow(t.user, t.persistent)
              next == [tx[h] EXCEPT !.row = new]
  <2>1. new \in SessionRow /\ ~new.revoked
    <3>1. now \in Nat /\ tx[h].user \in Users /\ tx[h].persistent \in BOOLEAN
      BY <1>0, <1>1, PolicyAssumption DEF Tx, TypeOK
    <3>. QED
      BY <3>1, NewRowInOrder DEF NewRow
  <2>2. Proceed(h, next) /\ t.step = 2
    BY <1>2, <1>6 DEF Insert
  <2>. HIDE DEF new
  <2>3. /\ next \in Tx /\ next.kind = t.kind /\ next.user = t.user /\ next.id = t.id
        /\ next.credential = t.credential /\ next.step = t.step
        /\ next.row = new /\ next.revoked = t.revoked
    BY <1>1, <2>1 DEF Tx
  <2>. HIDE DEF next
  <2>4. Advances(h, 3) /\ tx'[h].row = new /\ tx'[h].revoked = t.revoked
    BY <1>0, <1>1, <2>2, <2>3, ProceedAdvances
  <2>5. new # NoRow
    BY <2>1, RowsDiffer
  <2>. QED
    BY <1>3, <2>1, <2>4, <2>5, AdvanceKnown DEF RequestKnown
<1>7. ASSUME RevokePrevious(h)
      PROVE  known
  <2>. DEFINE s == t.credential
              next == [tx[h] EXCEPT !.revoked = @ \union {s}]
  <2>1. t.step = 3 /\ t.kind # "logoutAll"
    BY <1>2, <1>7 DEF RevokePrevious
  <2>2. CASE Proceed(h, tx[h])
    <3>1. Advances(h, 4) /\ tx'[h].row = t.row /\ tx'[h].revoked = t.revoked
      BY <1>0, <1>1, <2>1, <2>2, ProceedAdvances
    <3>. QED
      BY <1>3, <2>1, <3>1, AdvanceKnown DEF RequestKnown
  <2>3. CASE s \in SessionIds /\ Proceed(h, next)
    <3>1. /\ next \in Tx /\ next.kind = t.kind /\ next.user = t.user /\ next.id = t.id
          /\ next.credential = t.credential /\ next.step = t.step
          /\ next.row = t.row /\ next.revoked = t.revoked \union {s}
      BY <1>1, <2>3 DEF Tx
    <3>2. Proceed(h, next)
      BY <2>3
    <3>. HIDE DEF next
    <3>3. Advances(h, 4) /\ tx'[h].row = t.row /\ tx'[h].revoked = t.revoked \union {s}
      BY <1>0, <1>1, <2>1, <3>1, <3>2, ProceedAdvances
    <3>. QED
      BY <1>3, <2>1, <3>3, AdvanceKnown DEF RequestKnown
  <2>. QED
    BY <1>7, <2>2, <2>3 DEF RevokePrevious
<1>8. ASSUME Snapshot(h)
      PROVE  known
  <2>. DEFINE next == [tx[h] EXCEPT !.todo = Unrevoked(tx[h].user)]
  <2>1. /\ next \in Tx /\ next.kind = t.kind /\ next.user = t.user /\ next.id = t.id
        /\ next.credential = t.credential /\ next.step = t.step /\ next.row = t.row
    BY <1>1 DEF Tx, Unrevoked
  <2>2. Proceed(h, next) /\ t.kind = "logoutAll"
    BY <1>2, <1>8 DEF Snapshot
  <2>. HIDE DEF next
  <2>3. Advances(h, t.step + 1) /\ tx'[h].row = t.row
    BY <1>0, <1>1, <2>1, <2>2, ProceedAdvances
  <2>. QED
    BY <2>2, <2>3, AdvanceKnown
<1>9. ASSUME Sweep(h)
      PROVE  known
  <2>1. t.kind = "logoutAll" /\ t.step = 4
    BY <1>2, <1>9 DEF Sweep
  <2>2. CASE Proceed(h, tx[h])
    <3>1. Advances(h, 5) /\ tx'[h].row = t.row
      BY <1>0, <1>1, <2>1, <2>2, ProceedAdvances
    <3>. QED
      BY <2>1, <3>1, AdvanceKnown
  <2>3. ASSUME NEW s \in t.todo,
               tx' = [tx EXCEPT ![h].todo = @ \ {s}, ![h].revoked = @ \union {s}]
        PROVE  known
    <3>. DEFINE next == [tx[h] EXCEPT !.todo = @ \ {s}, !.revoked = @ \union {s}]
    <3>1. /\ next.kind = t.kind /\ next.user = t.user /\ next.id = t.id
          /\ next.credential = t.credential /\ next.step = t.step /\ next.row = t.row
          /\ next \in Tx
      BY <1>1 DEF Tx
    <3>2. tx' = [tx EXCEPT ![h] = next]
      BY <2>3
    <3>. HIDE DEF next
    <3>3. tx'[h] = next /\ \A o \in Handlers \ {h} : tx'[o] = tx[o]
      BY <1>0, <3>2 DEF TypeOK
    <3>4. RequestKnown(h)'
      BY <1>3, <2>1, <3>1, <3>3 DEF RequestKnown
    <3>. QED
      BY <3>3, <3>4, KnownAfter
  <2>. QED
    BY <1>9, <2>2, <2>3 DEF Sweep
<1>10. Commit(h) => Release(h)
  BY DEF Commit
<1>. QED
  BY <1>4, <1>5, <1>6, <1>7, <1>8, <1>9, <1>10 DEF Statement

\* Rows are born in commits, and an account lasts.
LEMMA OnlyCommitsInsert ==
    ASSUME Inv, [Next]_vars
    PROVE  /\ account \subseteq account'
           /\ \/ \E h \in Handlers : Commit(h)
              \/ /\ account' = account
                 /\ \A s \in SessionIds : session[s] = NoRow => session'[s] = NoRow
<1>. DEFINE quiet == /\ account' = account
                     /\ \A s \in SessionIds : session[s] = NoRow => session'[s] = NoRow
<1>1. ASSUME NEW h \in Handlers, Statement(h), ~Commit(h)
      PROVE  quiet
  BY <1>1 DEF Statement, CreateUser, LockAccount, Insert, RevokePrevious, LockSession,
              Snapshot, Sweep, Rollback
<1>2. ASSUME NEW h \in Handlers, NEW kind, NEW u, NEW persistent, NEW credential, NEW id,
             Begin(h, kind, u, persistent, credential, id)
      PROVE  quiet
  BY <1>2 DEF Begin
<1>3. ASSUME NEW r \in SessionIds, Authenticate(r) \/ Logout(r)
      PROVE  quiet
  <2>1. Live(r) /\ session[r] # NoRow /\ account' = account
    BY <1>3, RowsDiffer DEF Authenticate, Logout, Live, Exists
  <2>2. \A s \in SessionIds : s # r => session'[s] = session[s]
    BY <1>3 DEF Authenticate, Logout, Inv, TypeOK
  <2>. QED
    BY <2>1, <2>2
<1>4. Prune \/ Tick \/ UNCHANGED vars => quiet
  BY RowsDiffer DEF Prune, Tick, vars, Exists
<1>5. ASSUME NEW h \in Handlers, Abort(h)
      PROVE  quiet
  BY <1>5 DEF Abort, Rollback
<1>6. ASSUME NEW h \in Handlers, NEW u, NEW credential, NEW id, BeginRegister(h, u, credential, id)
      PROVE  quiet
  BY <1>2, <1>6 DEF BeginRegister
<1>7. ASSUME NEW h \in Handlers, NEW u, NEW persistent, NEW credential, NEW id,
             BeginLogin(h, u, persistent, credential, id)
      PROVE  quiet
  BY <1>2, <1>7 DEF BeginLogin
<1>8. ASSUME NEW h \in Handlers, NEW credential, BeginLogoutAll(h, credential)
      PROVE  quiet
  BY <1>2, <1>8 DEF BeginLogoutAll
<1>9. ASSUME NEW h \in Handlers, Commit(h)
      PROVE  account \subseteq account'
  BY <1>9 DEF Commit
<1>. HIDE DEF quiet
<1>10. (\E h \in Handlers : Commit(h)) \/ quiet
  BY <1>1, <1>3, <1>4, <1>5, <1>6, <1>7, <1>8 DEF Next
<1>. QED
  BY <1>9, <1>10 DEF quiet

LEMMA KnownKept ==
    ASSUME Inv, Inv', KnownInv, [Next]_vars
    PROVE  KnownInv'
<1>0. account \subseteq account'
  BY OnlyCommitsInsert
<1>1. ASSUME NEW s \in SessionIds, Exists(s)'
      PROVE  session'[s].user \in account'
  <2>1. CASE session[s] = NoRow
    <3>1. PICK h \in Handlers : Commit(h)
      BY <1>1, <2>1, RowsDiffer, OnlyCommitsInsert DEF Exists
    <3>2. Running(h) /\ session'[s] = tx[h].row /\ tx[h].row # NoRow
      BY <1>1, <2>1, <3>1, RowsDiffer DEF Commit, At, Running, Exists
    <3>3. tx[h].row.user = tx[h].user /\ account' = account \union {tx[h].user}
      BY <3>1, <3>2 DEF Commit, Inv, OwnIdentifier
    <3>. QED
      BY <3>2, <3>3
  <2>2. CASE session[s] # NoRow
    <3>1. session[s] # Pruned
      <4>1. CASE session[s] = Pruned
        <5>1. session'[s] = Pruned
          BY <2>2, <4>1, RowsDiffer, StepChangesRows
             DEF Inserted, Revoked, WasRenewed, Deleted, Live, Exists
        <5>. QED
          BY <1>1, <5>1, RowsDiffer DEF Exists
      <4>. QED
        BY <4>1
    <3>2. Exists(s)
      BY <2>2, <3>1 DEF Inv, TypeOK, Exists
    <3>3. session'[s].user = session[s].user
      <4>1. CASE Revoked(s)
        BY <3>2, <4>1 DEF Revoked, Exists, SessionRow
      <4>2. CASE WasRenewed(s)
        BY <3>2, <4>2, RenewedFacts DEF WasRenewed, Exists
      <4>3. ~Deleted(s)
        BY <1>1, RowsDiffer DEF Deleted, Exists
      <4>. QED
        BY <2>2, <4>1, <4>2, <4>3, StepChangesRows DEF Inserted
    <3>. QED
      BY <1>0, <3>2, <3>3 DEF KnownInv
  <2>. QED
    BY <2>1, <2>2
<1>2. ASSUME NEW h \in Handlers, NEW u, NEW credential, NEW id, BeginRegister(h, u, credential, id),
             id \in SessionIds
      PROVE  \A o \in Handlers : Running(o)' => RequestKnown(o)'
  BY <1>2, BeginKnown DEF BeginRegister
<1>3. ASSUME NEW h \in Handlers, NEW u, NEW persistent, NEW credential, NEW id,
             BeginLogin(h, u, persistent, credential, id), id \in SessionIds
      PROVE  \A o \in Handlers : Running(o)' => RequestKnown(o)'
  BY <1>3, BeginKnown DEF BeginLogin
<1>4. ASSUME NEW h \in Handlers, NEW credential \in SessionIds, BeginLogoutAll(h, credential)
      PROVE  \A o \in Handlers : Running(o)' => RequestKnown(o)'
  <2>. DEFINE u == session[credential].user
  <2>1. Begin(h, "logoutAll", u, FALSE, credential, NoSession) /\ u \in account
    BY <1>4 DEF BeginLogoutAll, Live, KnownInv
  <2>. HIDE DEF u
  <2>. QED
    BY <2>1, BeginKnown
<1>5. ASSUME NEW h \in Handlers, Abort(h)
      PROVE  \A o \in Handlers : Running(o)' => RequestKnown(o)'
  BY <1>0, <1>5, ReleaseKnown DEF Abort, Rollback
<1>6. ASSUME NEW s \in SessionIds, Authenticate(s) \/ Logout(s)
      PROVE  UNCHANGED <<tx, account>>
  BY <1>6 DEF Authenticate, Logout
<1>7. Prune \/ Tick \/ UNCHANGED vars => UNCHANGED <<tx, account>>
  BY DEF Prune, Tick, vars
<1>8. UNCHANGED <<tx, account>> => \A o \in Handlers : Running(o)' => RequestKnown(o)'
  BY DEF KnownInv, RequestKnown, Running
<1>9. ASSUME NEW h \in Handlers, Statement(h)
      PROVE  \A o \in Handlers : Running(o)' => RequestKnown(o)'
  BY <1>0, <1>9, StatementKnown
<1>10. \A o \in Handlers : Running(o)' => RequestKnown(o)'
  BY <1>2, <1>3, <1>4, <1>5, <1>6, <1>7, <1>8, <1>9 DEF Next, Credentials
<1>. QED
  BY <1>1, <1>10 DEF KnownInv

-----------------------------------------------------------------------------
(* What a step does to the sessions that SessionService knows.                *)

\* A state names one kind of row, before a step and after it.
RowStates(s) ==
    /\ State(s) = "unborn" <=> session[s] = NoRow
    /\ State(s) = "deleted" <=> session[s] = Pruned
    /\ State(s) = "revoked" <=> Exists(s) /\ session[s].revoked
    /\ State(s) = "expired" <=> Exists(s) /\ ~session[s].revoked /\ Dead(s)
    /\ State(s) = "live" <=> Live(s)
    /\ Live(s) <=> Exists(s) /\ ~Dead(s)

OwnerOf(s) == IF Exists(s) THEN session[s].user ELSE NoRow

LEMMA RowsHaveStates ==
    ASSUME Inv, Inv', NEW s \in SessionIds
    PROVE  RowStates(s) /\ RowStates(s)'
<1>1. RowStates(s)
  <2>1. session[s] \in SessionRow \union {NoRow, Pruned} /\ now \in Nat
    BY PolicyAssumption DEF Inv, TypeOK
  <2>2. Exists(s) => session[s].idleExpiresAt \in Nat /\ session[s].expiresAt \in Nat
    BY DEF Exists, SessionRow
  <2>3. Live(s) <=> Exists(s) /\ ~Dead(s)
    BY <2>1, <2>2, RowsDiffer DEF Live, Dead, Exists, WithinDeadlines
  <2>. QED
    BY <2>1, <2>3, RowsDiffer DEF RowStates, State, Exists, Dead
<1>2. RowStates(s)'
  <2>1. session'[s] \in SessionRow \union {NoRow, Pruned} /\ now' \in Nat
    BY PolicyAssumption DEF Inv, TypeOK
  <2>2. Exists(s)' => session'[s].idleExpiresAt \in Nat /\ session'[s].expiresAt \in Nat
    BY DEF Exists, SessionRow
  <2>3. Live(s)' <=> Exists(s)' /\ ~Dead(s)'
    BY <2>1, <2>2, RowsDiffer DEF Live, Dead, Exists, WithinDeadlines
  <2>. QED
    BY <2>1, <2>3, RowsDiffer DEF RowStates, State, Exists, Dead
<1>. QED
  BY <1>1, <1>2

\* A row left as it is, or renewed, keeps its state unless its time is over.
LEMMA TimePassesForRow ==
    ASSUME Inv, Inv', [Next]_vars, NEW s \in SessionIds,
           session'[s] = session[s] \/ WasRenewed(s)
    PROVE  /\ State(s)' = IF Live(s) /\ ~Live(s)' THEN "expired" ELSE State(s)
           /\ OwnerOf(s)' = OwnerOf(s)
<1>1. RowStates(s) /\ RowStates(s)'
  BY RowsHaveStates
<1>2. Dead(s) => Dead(s)'
  BY DeadRemains
<1>3. CASE session'[s] = session[s]
  <2>1. Exists(s)' = Exists(s) /\ OwnerOf(s)' = OwnerOf(s)
    BY <1>3 DEF Exists, OwnerOf
  <2>2. CASE Live(s) /\ ~Live(s)'
    <3>1. Exists(s) /\ ~session[s].revoked
      BY <2>2 DEF Live
    <3>2. Exists(s)' /\ ~session'[s].revoked
      BY <1>3, <2>1, <3>1
    <3>3. State(s)' = "expired"
      BY <1>1, <2>2, <3>2 DEF RowStates
    <3>. QED
      BY <2>1, <2>2, <3>3
  <2>3. CASE Live(s) /\ Live(s)'
    BY <1>1, <2>1, <2>3 DEF RowStates
  <2>4. CASE ~Live(s)
    <3>1. session[s] \in SessionRow \union {NoRow, Pruned}
      BY DEF Inv, TypeOK
    <3>2. CASE Exists(s)
      <4>1. Dead(s) /\ Dead(s)' /\ Exists(s)'
        BY <1>1, <1>2, <2>1, <2>4, <3>2 DEF RowStates
      <4>2. session'[s].revoked = session[s].revoked
        BY <1>3
      <4>3. CASE session[s].revoked
        <5>1. State(s) = "revoked" /\ State(s)' = "revoked"
          BY <1>1, <3>2, <4>1, <4>2, <4>3 DEF RowStates
        <5>. QED
          BY <2>1, <2>4, <5>1
      <4>4. CASE ~session[s].revoked
        <5>1. State(s) = "expired" /\ State(s)' = "expired"
          BY <1>1, <3>2, <4>1, <4>2, <4>4 DEF RowStates
        <5>. QED
          BY <2>1, <2>4, <5>1
      <4>. QED
        BY <4>3, <4>4
    <3>3. CASE ~Exists(s)
      BY <1>1, <1>3, <2>1, <2>4, <3>1, <3>3 DEF RowStates, Exists
    <3>. QED
      BY <3>2, <3>3
  <2>. QED
    BY <2>1, <2>2, <2>3, <2>4
<1>4. CASE WasRenewed(s)
  <2>1. Live(s) /\ Exists(s) /\ ~session[s].revoked
    BY <1>4 DEF WasRenewed, Live
  <2>2. PICK later \in Nat : session'[s] = Renewed(session[s], later)
    BY <1>4 DEF WasRenewed
  <2>3. Exists(s)' /\ session'[s].user = session[s].user /\ session'[s].revoked = session[s].revoked
    BY <2>1, <2>2, RenewedFacts DEF Exists
  <2>4. OwnerOf(s)' = OwnerOf(s)
    BY <2>1, <2>3 DEF OwnerOf
  <2>5. State(s)' = IF Live(s)' THEN "live" ELSE "expired"
    BY <1>1, <2>1, <2>3 DEF RowStates
  <2>. QED
    BY <1>1, <2>1, <2>4, <2>5 DEF RowStates
<1>. QED
  BY <1>3, <1>4

LEMMA TimePasses ==
    ASSUME Inv, Inv', [Next]_vars, account' = account,
           \A s \in SessionIds : session'[s] = session[s] \/ WasRenewed(s)
    PROVE  Service!ServiceNext
<1>. DEFINE S == {s \in SessionIds : Live(s) /\ ~Live(s)'}
<1>1. \A s \in S : State(s) = "live"
  BY RowsHaveStates DEF RowStates
<1>2. \A s \in SessionIds : State(s)' = IF s \in S THEN "expired" ELSE State(s)
  BY TimePassesForRow
<1>3. \A s \in SessionIds : OwnerOf(s)' = OwnerOf(s)
  BY TimePassesForRow
<1>4. S \in SUBSET SessionIds
  OBVIOUS
<1>. HIDE DEF S
<1>5. Service!Expire(S)
  BY <1>1, <1>2, <1>3, <1>4 DEF Service!Expire, OwnerOf
<1>. QED
  BY <1>4, <1>5 DEF Service!ServiceNext

\* A row that is revoked, if it is one that can be.
LEMMA RevocationOfRow ==
    ASSUME Inv, Inv', now' = now, NEW s \in SessionIds, NEW now_revoked \in BOOLEAN,
           session'[s] = IF now_revoked /\ Exists(s)
                         THEN [session[s] EXCEPT !.revoked = TRUE] ELSE session[s]
    PROVE  /\ State(s)' = IF now_revoked /\ State(s) \in {"live", "expired"}
                          THEN "revoked" ELSE State(s)
           /\ OwnerOf(s)' = OwnerOf(s)
<1>1. RowStates(s) /\ RowStates(s)'
  BY RowsHaveStates
<1>2. CASE now_revoked /\ Exists(s)
  <2>1. Exists(s)' /\ session'[s].user = session[s].user /\ session'[s].revoked
    BY <1>2 DEF Exists, SessionRow
  <2>2. State(s)' = "revoked"
    BY <1>1, <2>1 DEF RowStates
  <2>3. State(s) \in {"live", "expired", "revoked"}
    BY <1>1, <1>2 DEF RowStates
  <2>4. OwnerOf(s)' = OwnerOf(s)
    BY <1>2, <2>1 DEF OwnerOf
  <2>. QED
    BY <1>2, <2>2, <2>3, <2>4
<1>3. CASE ~(now_revoked /\ Exists(s))
  <2>1. session'[s] = session[s]
    BY <1>3
  <2>2. State(s)' = State(s) /\ OwnerOf(s)' = OwnerOf(s)
    BY <2>1 DEF State, Dead, OwnerOf, Exists
  <2>3. ~Exists(s) => State(s) \notin {"live", "expired"}
    BY <1>1 DEF RowStates
  <2>. QED
    BY <1>3, <2>2, <2>3
<1>. QED
  BY <1>2, <1>3

LEMMA LogoutIsLogout ==
    ASSUME Inv, Inv', NEW r \in SessionIds, Logout(r)
    PROVE  Service!ServiceNext
<1>1. /\ Live(r) /\ account' = account /\ now' = now
      /\ session' = [session EXCEPT ![r].revoked = TRUE]
  BY DEF Logout
<1>2. ASSUME NEW s \in SessionIds
      PROVE  session'[s] = IF s = r /\ Exists(s)
                           THEN [session[s] EXCEPT !.revoked = TRUE] ELSE session[s]
  BY <1>1 DEF Live, Inv, TypeOK
<1>3. ASSUME NEW s \in SessionIds
      PROVE  /\ State(s)' = IF s = r /\ State(s) \in {"live", "expired"}
                            THEN "revoked" ELSE State(s)
             /\ OwnerOf(s)' = OwnerOf(s)
  <2>. DEFINE now_revoked == s = r
  <2>1. /\ now_revoked \in BOOLEAN
        /\ session'[s] = IF now_revoked /\ Exists(s)
                         THEN [session[s] EXCEPT !.revoked = TRUE] ELSE session[s]
    BY <1>2
  <2>. HIDE DEF now_revoked
  <2>2. /\ State(s)' = IF now_revoked /\ State(s) \in {"live", "expired"}
                       THEN "revoked" ELSE State(s)
        /\ OwnerOf(s)' = OwnerOf(s)
    BY <1>1, <2>1, RevocationOfRow
  <2>. QED
    BY <2>2 DEF now_revoked
<1>4. State(r) = "live"
  BY <1>1, RowsHaveStates DEF RowStates
<1>5. Service!Logout(r)
  BY <1>1, <1>3, <1>4 DEF Service!Logout, Service!Revoking, Service!Unrevoked, OwnerOf
<1>. QED
  BY <1>5 DEF Service!ServiceNext

LEMMA PruneIsDelete ==
    ASSUME Inv, Inv', Prune
    PROVE  Service!ServiceNext
<1>0. PICK S \in SUBSET SessionIds :
         S = {s \in SessionIds : Exists(s) /\ ~Live(s) /\ rowLock[s] = Free}
  OBVIOUS
<1>1. /\ account' = account /\ now' = now
      /\ session' = [s \in SessionIds |-> IF s \in S THEN Pruned ELSE session[s]]
  BY <1>0 DEF Prune
<1>3. ASSUME NEW s \in S
      PROVE  State(s) \in {"expired", "revoked", "deleted"}
  BY <1>0, RowsHaveStates DEF RowStates
<1>4. ASSUME NEW s \in SessionIds
      PROVE  /\ State(s)' = IF s \in S THEN "deleted" ELSE State(s)
             /\ OwnerOf(s)' = IF s \in S THEN NoRow ELSE OwnerOf(s)
  <2>1. CASE s \in S
    <3>1. session'[s] = Pruned
      BY <1>1, <2>1
    <3>2. State(s)' = "deleted"
      BY <3>1, RowsHaveStates DEF RowStates
    <3>3. OwnerOf(s)' = NoRow
      BY <3>1, RowsDiffer DEF OwnerOf, Exists
    <3>. QED
      BY <2>1, <3>2, <3>3
  <2>2. CASE s \notin S
    <3>1. session'[s] = session[s]
      BY <1>1, <2>2
    <3>. QED
      BY <1>1, <2>2, <3>1 DEF State, Dead, OwnerOf, Exists
  <2>. QED
    BY <2>1, <2>2
<1>5. Service!Delete(S)
  <2>1. \A s \in S : Service!Ended(s)
    BY <1>3 DEF Service!Ended
  <2>. QED
    BY <1>1, <1>4, <2>1 DEF Service!Delete, OwnerOf
<1>. QED
  BY <1>5 DEF Service!ServiceNext

\* What a commit does to a row that it does not insert.
LEMMA CommitRevokes ==
    ASSUME Inv, Inv', NEW h \in Handlers, Commit(h), NEW s \in SessionIds, s # tx[h].id
    PROVE  /\ State(s)' = IF s \in tx[h].revoked /\ State(s) \in {"live", "expired"}
                          THEN "revoked" ELSE State(s)
           /\ OwnerOf(s)' = OwnerOf(s)
<1>. DEFINE now_revoked == s \in tx[h].revoked
<1>1. /\ now_revoked \in BOOLEAN /\ now' = now
      /\ session'[s] = IF now_revoked /\ Exists(s)
                       THEN [session[s] EXCEPT !.revoked = TRUE] ELSE session[s]
  BY DEF Commit
<1>. HIDE DEF now_revoked
<1>2. /\ State(s)' = IF now_revoked /\ State(s) \in {"live", "expired"}
                     THEN "revoked" ELSE State(s)
      /\ OwnerOf(s)' = OwnerOf(s)
  BY <1>1, RevocationOfRow
<1>. QED
  BY <1>2 DEF now_revoked

\* The sign-in happens as its transaction commits.
LEMMA SignInCommits ==
    ASSUME Inv, Inv', KnownInv, RegistersOnce, NEW h \in Handlers, Commit(h),
           tx[h].kind # "logoutAll"
    PROVE  Service!ServiceNext
<1>1. /\ Running(h) /\ tx[h] \in Tx /\ RequestKnown(h)
      /\ tx[h].step \in 1..Len(Statements[tx[h].kind])
  BY DEF Commit, At, Running, Inv, TypeOK, TxTypes, KnownInv
<1>2. tx[h].step = 4
  BY <1>1, Positions DEF Commit
<1>3. PICK u \in Users, i \in SessionIds, R \in SUBSET SessionIds :
         u = tx[h].user /\ i = tx[h].id /\ R = tx[h].revoked
  BY <1>1 DEF RequestKnown, Tx
<1>4. R \in {{}} \union {{r} : r \in SessionIds}
  <2>1. R \subseteq {tx[h].credential}
    BY <1>1, <1>3 DEF RequestKnown
  <2>2. R = {} \/ (R = {tx[h].credential} /\ tx[h].credential \in SessionIds)
    BY <1>3, <2>1
  <2>. QED
    BY <2>2
<1>5. /\ session[i] = NoRow /\ session'[i] = tx[h].row
      /\ tx[h].row \in SessionRow /\ ~tx[h].row.revoked /\ tx[h].row.user = u
  <2>1. tx[h].row # NoRow /\ tx[h].row \in SessionRow \union {NoRow}
    BY <1>1, <1>2 DEF RequestKnown, Tx
  <2>2. session[i] = NoRow /\ tx[h].row.user = u
    BY <1>1, <1>3, <2>1, RowsDiffer DEF Inv, OwnIdentifier
  <2>. QED
    BY <1>1, <1>3, <2>1, <2>2 DEF Commit, RequestKnown
<1>6. State(i) = "unborn" /\ State(i)' \in {"live", "expired"} /\ OwnerOf(i)' = u
  <2>1. RowStates(i) /\ RowStates(i)'
    BY RowsHaveStates
  <2>2. Exists(i)' /\ ~session'[i].revoked /\ session'[i].user = u
    BY <1>5 DEF Exists
  <2>3. OwnerOf(i)' = u
    BY <2>2 DEF OwnerOf
  <2>. QED
    BY <1>5, <2>1, <2>2, <2>3 DEF RowStates
<1>7. ASSUME NEW s \in SessionIds, s # i
      PROVE  /\ State(s)' = IF s \in R /\ State(s) \in {"live", "expired"}
                            THEN "revoked" ELSE State(s)
             /\ OwnerOf(s)' = OwnerOf(s)
  BY <1>3, <1>7, CommitRevokes
<1>8. Service!SignIn(u, i, R)
  <2>1. PICK first \in {"live", "expired"} : first = State(i)'
    BY <1>6
  <2>2. [s \in SessionIds |-> State(s)]' = [Service!Revoking(R) EXCEPT ![i] = first]
    BY <1>7, <2>1 DEF Service!Revoking, Service!Unrevoked
  <2>3. [s \in SessionIds |-> OwnerOf(s)]' = [[s \in SessionIds |-> OwnerOf(s)] EXCEPT ![i] = u]
    BY <1>6, <1>7
  <2>. QED
    BY <1>6, <2>2, <2>3 DEF Service!SignIn, OwnerOf
<1>9. account' = account \union {u}
  BY <1>3 DEF Commit
<1>10. CASE tx[h].kind = "register"
  <2>1. u \notin account
    BY <1>1, <1>2, <1>3, <1>10 DEF RegistersOnce, Running
  <2>2. Service!Register(u, i, R)
    BY <1>8, <1>9, <2>1 DEF Service!Register
  <2>. QED
    BY <1>4, <2>2 DEF Service!ServiceNext
<1>11. CASE tx[h].kind # "register"
  <2>1. u \in account /\ account' = account
    BY <1>1, <1>3, <1>9, <1>11 DEF RequestKnown
  <2>2. Service!Login(u, i, R)
    BY <1>8, <2>1 DEF Service!Login
  <2>. QED
    BY <1>4, <2>2 DEF Service!ServiceNext
<1>. QED
  BY <1>10, <1>11

\* The global logout happens as its transaction commits: it has reached every
\* session of its account, and no row of another one.
LEMMA LogoutAllCommits ==
    ASSUME Inv, Inv', LocksInv, KnownInv, NEW h \in Handlers, Commit(h),
           tx[h].kind = "logoutAll"
    PROVE  Service!ServiceNext
<1>1. /\ Running(h) /\ tx[h] \in Tx /\ RequestKnown(h)
      /\ tx[h].step \in 1..Len(Statements[tx[h].kind])
  BY DEF Commit, At, Running, Inv, TypeOK, TxTypes, KnownInv
<1>2. tx[h].step = 5
  BY <1>1, Positions DEF Commit
<1>3. PICK u \in Users : u = tx[h].user
  BY <1>1 DEF Tx
<1>4. account' = account
  BY <1>1, <1>3 DEF Commit, RequestKnown
<1>5. Unrevoked(u) \subseteq tx[h].revoked
  BY <1>1, <1>2, <1>3 DEF Inv, Covered
<1>6. \A s \in tx[h].revoked : OfAccount(s, u)
  BY <1>1, <1>3 DEF LocksInv, ClaimsOwn, LoggingOut, Claims
<1>7. ASSUME NEW s \in SessionIds
      PROVE  /\ State(s)' = IF OwnerOf(s) = u /\ State(s) \in {"live", "expired"}
                            THEN "revoked" ELSE State(s)
             /\ OwnerOf(s)' = OwnerOf(s)
  <2>1. s # tx[h].id
    BY <1>1, RowsDiffer DEF Inv, OwnIdentifier
  <2>2. /\ State(s)' = IF s \in tx[h].revoked /\ State(s) \in {"live", "expired"}
                       THEN "revoked" ELSE State(s)
        /\ OwnerOf(s)' = OwnerOf(s)
    BY <2>1, CommitRevokes
  <2>3. ASSUME State(s) \in {"live", "expired"}
        PROVE  OwnerOf(s) = u <=> s \in tx[h].revoked
    <3>1. Exists(s) /\ ~session[s].revoked
      BY <2>3, RowsHaveStates DEF RowStates, Live
    <3>2. OwnerOf(s) = session[s].user /\ session[s] # Pruned
      BY <3>1, RowsDiffer DEF OwnerOf, Exists
    <3>3. OwnerOf(s) = u => s \in Unrevoked(u)
      BY <3>1, <3>2 DEF Unrevoked
    <3>. QED
      BY <1>5, <1>6, <3>2, <3>3 DEF OfAccount
  <2>. QED
    BY <2>2, <2>3
<1>8. Service!LogoutAll(u)
  BY <1>4, <1>7 DEF Service!LogoutAll, Service!Revoking, Service!Unrevoked, OwnerOf
<1>. QED
  BY <1>8 DEF Service!ServiceNext

\* Every other step leaves each row as it is, or renews it.
LEMMA OtherStepsOnlyRenew ==
    ASSUME Inv, Inv', [Next]_vars, ~Prune,
           \A h \in Handlers : ~Commit(h), \A r \in SessionIds : ~Logout(r)
    PROVE  /\ account' = account
           /\ \A s \in SessionIds : session'[s] = session[s] \/ WasRenewed(s)
<1>1. account' = account
  BY OnlyCommitsInsert
<1>2. ASSUME NEW h \in Handlers, Statement(h)
      PROVE  session' = session
  BY <1>2 DEF Statement, CreateUser, LockAccount, Insert, RevokePrevious, LockSession,
              Snapshot, Sweep, Rollback
<1>3. ASSUME NEW h \in Handlers, NEW kind, NEW u, NEW persistent, NEW credential, NEW id,
             Begin(h, kind, u, persistent, credential, id)
      PROVE  session' = session
  BY <1>3 DEF Begin
<1>4. ASSUME NEW h \in Handlers, NEW u, NEW credential, NEW id,
             BeginRegister(h, u, credential, id)
      PROVE  session' = session
  BY <1>3, <1>4 DEF BeginRegister
<1>5. ASSUME NEW h \in Handlers, NEW u, NEW persistent, NEW credential, NEW id,
             BeginLogin(h, u, persistent, credential, id)
      PROVE  session' = session
  BY <1>3, <1>5 DEF BeginLogin
<1>6. ASSUME NEW h \in Handlers, NEW credential, BeginLogoutAll(h, credential)
      PROVE  session' = session
  BY <1>3, <1>6 DEF BeginLogoutAll
<1>7. ASSUME NEW h \in Handlers, Abort(h)
      PROVE  session' = session
  BY <1>7 DEF Abort, Rollback
<1>8. Tick \/ UNCHANGED vars => session' = session
  BY DEF Tick, vars
<1>9. ASSUME NEW r \in SessionIds, Authenticate(r), NEW s \in SessionIds
      PROVE  session'[s] = session[s] \/ WasRenewed(s)
  <2>1. PICK later \in {now, now + 1} \intersect (0..MaxTime) :
            session' = [session EXCEPT ![r] = Renewed(@, later)]
    BY <1>9 DEF Authenticate
  <2>2. later \in Nat /\ later >= now /\ Live(r)
    BY <1>9, <2>1, PolicyAssumption DEF Authenticate, Inv, TypeOK
  <2>3. session'[s] = IF s = r THEN Renewed(session[r], later) ELSE session[s]
    BY <2>1 DEF Inv, TypeOK
  <2>. QED
    BY <2>2, <2>3 DEF WasRenewed
<1>10. session' = session \/ \E r \in SessionIds : Authenticate(r)
  BY <1>2, <1>4, <1>5, <1>6, <1>7, <1>8 DEF Next
<1>. QED
  BY <1>1, <1>9, <1>10

(* The transactions, interleaved statement by statement, implement the        *)
(* service that does every sign-in and every global logout at once, for any   *)
(* number of accounts, sessions and requests and any deadlines: a registration*)
(* and a login happen as they commit, a global logout ends all sessions of its*)
(* account and no other, and every other statement is invisible               *)
(* (session.service.ts 49-75, 134-168; auth.service.ts 78-105, 128-155).      *)
THEOREM SessionsImplementService == Spec => ImplementsService
<1>1. Init => Service!ServiceInit
  BY RowsDiffer DEF Init, Service!ServiceInit, State, Exists
<1>2. Init => KnownInv
  BY RowsDiffer DEF Init, KnownInv, Running, Exists
<1>3. Inv /\ Inv' /\ KnownInv /\ [Next]_vars => KnownInv'
  BY KnownKept
<1>4. Init => LocksInv
  BY DEF Init, LocksInv, AccountLocks, SessionLocks, ClaimsOwn, ClaimsApart, LoggingOut, Running
<1>5. Inv /\ Inv' /\ LocksInv /\ [Next]_vars => LocksInv'
  BY LocksKept
<1>6. ASSUME Inv, Inv', LocksInv, KnownInv, RegistersOnce, [Next]_vars
      PROVE  Service!ServiceNext
  <2>1. ASSUME NEW h \in Handlers, Commit(h)
        PROVE  Service!ServiceNext
    BY <1>6, <2>1, SignInCommits, LogoutAllCommits
  <2>2. ASSUME NEW r \in SessionIds, Logout(r)
        PROVE  Service!ServiceNext
    BY <1>6, <2>2, LogoutIsLogout
  <2>3. CASE Prune
    BY <1>6, <2>3, PruneIsDelete
  <2>4. CASE /\ ~Prune
             /\ \A h \in Handlers : ~Commit(h)
             /\ \A r \in SessionIds : ~Logout(r)
    BY <1>6, <2>4, OtherStepsOnlyRenew, TimePasses
  <2>. QED
    BY <2>1, <2>2, <2>3, <2>4
<1>7. Inv /\ Inv' /\ LocksInv /\ KnownInv /\ RegistersOnce /\ [Next]_vars
         => [Service!ServiceNext]_(Service!serviceVars)
  BY <1>6
<1>. QED
  BY <1>1, <1>2, <1>3, <1>4, <1>5, <1>7, SessionsInvariant, RegistrationsAreUnique, PTL
     DEF Spec, ImplementsService, Service!ServiceSpec
=============================================================================
