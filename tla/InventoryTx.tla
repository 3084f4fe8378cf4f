---------------------------- MODULE InventoryTx -----------------------------
(***************************************************************************)
(* The transactions behind Bars and Inventory, statement by statement, as  *)
(* request handlers run them concurrently against PostgreSQL at READ       *)
(* COMMITTED.  Every handler locks its workspace row first, then reads the *)
(* membership, the product and the receipt, writes, and commits; it may    *)
(* roll back at any point.  Clients send an intention at any time after    *)
(* forming it, and any number of times: requests are delayed, duplicated   *)
(* and retried, and answers may be lost.  The committed rows are the       *)
(* variables of Inventory, whose specification this module implements.     *)
(***************************************************************************)
EXTENDS Inventory

CONSTANTS
    Handlers,      \* concurrent request handlers
    Amounts,       \* bound: the quantities clients enter
    MaxIntents,    \* bound on the intentions clients form
    Free           \* a workspace row nobody has locked

ASSUME AmountsAssumption == Amounts \subseteq Quantity

\* No handler is the free lock, and a row is never the missing row.
ASSUME FreeAssumption == Free \notin Handlers
ASSUME NoRowIsNoMovement == NoRow \notin Movement

VARIABLES
    intents,       \* intentions formed by clients from versions they loaded
    tx,            \* the open transaction of each handler
    wsLock,        \* FOR NO KEY UPDATE holder of each workspace row
    revocations    \* history: how often each account was revoked from a Bar

txVars == <<intents, tx, wsLock, revocations>>
allVars == <<vars, txVars>>

StockIntent == [actor: Users, requestId: RequestIds, content: Intent, era: Nat]

Idle == [pc |-> "idle"]

pc(h) == tx[h].pc

\* A transaction still to run: what was asked, nothing read or written yet.
Opened(op, u, w, body, r, target) ==
    [pc |-> "begun", op |-> op, actor |-> u, workspace |-> w, body |-> body,
     requestId |-> r, target |-> target, seen |-> NoRow, line |-> NoRow]

TxTypeOK ==
    /\ TypeOK
    /\ intents \subseteq StockIntent
    /\ wsLock \in [Workspaces -> Handlers \union {Free}]
    /\ revocations \in [Workspaces -> [Users -> Version]]
    /\ \A h \in Handlers :
          pc(h) \in {"idle", "begun", "locked", "granted", "loaded", "fresh", "written"}

-----------------------------------------------------------------------------

\* A client forms an intention from the versions its screen has just loaded.
FormIntent(u, r, content) ==
    /\ Cardinality(intents) < MaxIntents
    /\ intents' = intents \union
          {[actor |-> u, requestId |-> r, content |-> content,
            era |-> revocations[content.workspace][u]]}
    /\ UNCHANGED <<vars, tx, wsLock, revocations>>

FormCreate(u, r, w, amount, settings) ==
    /\ IsOwner(w, u)
    /\ FormIntent(u, r, CreateIntent(w, amount, settings, accessVersion[w]))

FormMove(u, r, w, p, kind, amount) ==
    /\ Active(w, u)
    /\ ProductIn(w, p)
    /\ FormIntent(u, r, MoveIntent(kind, w, p, amount, product[p].version, accessVersion[w]))

\* The creation of a Bar holds the row of its author's account throughout.
OpenBar(u, w, r, payload) ==
    CreateBar(u, w, r, payload) /\ UNCHANGED <<inventoryVars, txVars>>

Open(h, transaction) ==
    /\ pc(h) = "idle"
    /\ tx' = [tx EXCEPT ![h] = transaction]
    /\ UNCHANGED <<vars, intents, wsLock, revocations>>

\* POST .../products and POST .../movements: first send, retry or duplicate.
SendIntent(h, i) ==
    Open(h, Opened(IF i.content.kind = "INITIAL" THEN "create" ELSE "move",
                   i.actor, i.content.workspace, i.content, i.requestId, NoRow))

\* PUT .../products/:id, which carries versions but no intention identifier.
SendSettings(h, u, w, p, settings) ==
    /\ ProductIn(w, p)
    /\ Open(h, Opened("settings", u, w,
                      [CreateIntent(w, 0, settings, accessVersion[w]) EXCEPT
                         !.product = p, !.expectedProductVersion = product[p].version],
                      NoRow, NoRow))

\* The owner's screen adds or revokes an account with the version it shows.
SendMembership(h, op, u, w, target) ==
    /\ bar[w] # NoRow
    /\ Open(h, Opened(op, u, w, CreateIntent(w, 0, NoSettings, accessVersion[w]),
                      NoRow, target))

-----------------------------------------------------------------------------

Goto(h, label) == tx' = [tx EXCEPT ![h].pc = label]

\* Mutation: the row locks outlive the transaction.
EndHoldingLocks(h) == tx' = [tx EXCEPT ![h] = Idle] /\ UNCHANGED wsLock

\* A transaction ends, committed or rolled back: its locks are released.
End(h) ==
    /\ tx' = [tx EXCEPT ![h] = Idle]
    /\ wsLock' = [w \in Workspaces |-> IF wsLock[w] = h THEN Free ELSE wsLock[w]]

\* Mutation: the workspace row is read without FOR NO KEY UPDATE.
ReadWorkspace(h) ==
    /\ pc(h) = "begun"
    /\ Goto(h, "locked")
    /\ UNCHANGED <<vars, wsLock, intents, revocations>>

\* The first statement of every Bar transaction.
LockWorkspace(h) ==
    /\ pc(h) = "begun"
    /\ wsLock[tx[h].workspace] = Free
    /\ wsLock' = [wsLock EXCEPT ![tx[h].workspace] = h]
    /\ Goto(h, "locked")
    /\ UNCHANGED <<vars, intents, revocations>>

\* The membership and access version are read under the lock.
CheckAccess(h) ==
    LET t == tx[h]
        granted == IF t.op = "move"
                   THEN Authorized(t.workspace, t.actor, t.body.expectedAccessVersion)
                   ELSE OwnerAuthorized(t.workspace, t.actor, t.body.expectedAccessVersion)
    IN  /\ pc(h) = "locked"
        /\ IF granted THEN Goto(h, "granted") /\ UNCHANGED wsLock ELSE End(h)
        /\ UNCHANGED <<vars, intents, revocations>>

\* The product row, locked and read: the counter and version used below.
LoadProduct(h) ==
    LET t == tx[h]
    IN  /\ pc(h) = "granted"
        /\ t.op \in {"move", "settings"}
        /\ IF ProductIn(t.workspace, t.body.product)
           THEN /\ tx' = [tx EXCEPT ![h].pc = "loaded", ![h].seen = product[t.body.product]]
                /\ UNCHANGED wsLock
           ELSE End(h)
        /\ UNCHANGED <<vars, intents, revocations>>

\* The receipt lookup: an identical intention is answered from its receipt, a
\* different one is refused: both end here.  Only an unknown identifier goes on.
CheckPrior(h) ==
    LET t == tx[h]
    IN  /\ \/ pc(h) = "granted" /\ t.op = "create"
           \/ pc(h) = "loaded" /\ t.op = "move"
        /\ IF Prior(t.actor, t.requestId) = {} THEN Goto(h, "fresh") /\ UNCHANGED wsLock ELSE End(h)
        /\ UNCHANGED <<vars, intents, revocations>>

\* The unique index on (actorId, requestId): another open transaction that has
\* inserted the same key makes the insertion wait for its outcome.
KeyInFlight(h) ==
    \E g \in Handlers \ {h} :
        /\ pc(g) = "written"
        /\ tx[g].line # NoRow
        /\ tx[g].actor = tx[h].actor
        /\ tx[g].requestId = tx[h].requestId

\* Mutation: there is no unique index.
KeyNeverTaken(h) == FALSE

KeyTaken(h) == Prior(tx[h].actor, tx[h].requestId) # {}

\* A write whose line collides with a committed one raises P2002: rollback.
Insert(h, line) ==
    /\ ~KeyInFlight(h)
    /\ IF KeyTaken(h) THEN End(h)
       ELSE tx' = [tx EXCEPT ![h].pc = "written", ![h].line = line] /\ UNCHANGED wsLock

WriteCreate(h) ==
    LET t == tx[h]
    IN  /\ pc(h) = "fresh"
        /\ t.op = "create"
        /\ \E p \in Products :
              /\ product[p] = NoRow
              /\ \A g \in Handlers \ {h} : pc(g) = "written" /\ tx[g].line # NoRow
                                              => tx[g].line.product # p
              /\ Insert(h, [actor |-> t.actor, requestId |-> t.requestId,
                            fingerprint |-> t.body, product |-> p,
                            beforeQuantity |-> 0, afterQuantity |-> t.body.amount,
                            productVersion |-> 0])
        /\ UNCHANGED <<vars, intents, revocations>>

WriteMove(h) ==
    LET t == tx[h]
        quantity == t.seen.quantity
    IN  /\ pc(h) = "fresh"
        /\ t.op = "move"
        /\ IF /\ VersionMatches(t.seen.version, t.body.expectedProductVersion)
              /\ ValidChange(quantity, t.body.kind, t.body.amount)
              /\ HasCapacity(t.seen.version)
           THEN Insert(h, [actor |-> t.actor, requestId |-> t.requestId,
                           fingerprint |-> t.body, product |-> t.body.product,
                           beforeQuantity |-> quantity,
                           afterQuantity |-> After(quantity, t.body.kind, t.body.amount),
                           productVersion |-> t.seen.version + 1])
           ELSE End(h)
        /\ UNCHANGED <<vars, intents, revocations>>

WriteSettings(h) ==
    LET t == tx[h]
    IN  /\ pc(h) = "loaded"
        /\ t.op = "settings"
        /\ IF /\ VersionMatches(t.seen.version, t.body.expectedProductVersion)
              /\ t.seen.settings # t.body.settings
              /\ HasCapacity(t.seen.version)
           THEN Goto(h, "written") /\ UNCHANGED wsLock
           ELSE End(h)
        /\ UNCHANGED <<vars, intents, revocations>>

\* The target's row is read, then written together with the access version.
WriteMembership(h) ==
    LET t == tx[h]
        status == member[t.workspace][t.target]
    IN  /\ pc(h) = "granted"
        /\ t.op \in {"add", "revoke"}
        /\ IF /\ status \in IF t.op = "add" THEN {"none", "revoked"} ELSE {"MEMBER"}
              /\ HasCapacity(accessVersion[t.workspace])
           THEN Goto(h, "written") /\ UNCHANGED wsLock
           ELSE End(h)
        /\ UNCHANGED <<vars, intents, revocations>>

-----------------------------------------------------------------------------

\* COMMIT: the pending rows become visible and the answer is sent.
CommitStock(h) ==
    LET t == tx[h]
        line == t.line
    IN  /\ pc(h) = "written"
        /\ t.op \in {"create", "move"}
        /\ product' =
              IF t.op = "create"
              THEN [product EXCEPT ![line.product] =
                      [workspace |-> t.workspace, quantity |-> line.afterQuantity,
                       settings |-> t.body.settings, version |-> 0]]
              ELSE [product EXCEPT ![line.product].quantity = line.afterQuantity,
                                   ![line.product].version = @ + 1]
        /\ movements' = movements \union {line}
        /\ End(h)
        /\ UNCHANGED <<barVars, intents, revocations>>

CommitSettings(h) ==
    LET t == tx[h]
    IN  /\ pc(h) = "written"
        /\ t.op = "settings"
        /\ product' = [product EXCEPT ![t.body.product].settings = t.body.settings,
                                      ![t.body.product].version = @ + 1]
        /\ End(h)
        /\ UNCHANGED <<barVars, movements, intents, revocations>>

CommitMembership(h) ==
    LET t == tx[h]
        w == t.workspace
    IN  /\ pc(h) = "written"
        /\ t.op \in {"add", "revoke"}
        /\ member' = [member EXCEPT ![w][t.target] =
                        IF t.op = "add" THEN "MEMBER" ELSE "revoked"]
        /\ accessVersion' = [accessVersion EXCEPT ![w] = @ + 1]
        /\ revocations' = IF t.op = "add" THEN revocations
                          ELSE [revocations EXCEPT ![w][t.target] = @ + 1]
        /\ End(h)
        /\ UNCHANGED <<bar, inventoryVars, intents>>

\* A statement fails, the transaction times out or the server stops: nothing
\* of the transaction remains and the client has no answer.
Rollback(h) ==
    /\ pc(h) # "idle"
    /\ End(h)
    /\ UNCHANGED <<vars, intents, revocations>>

-----------------------------------------------------------------------------

TxInit ==
    /\ Init
    /\ intents = {}
    /\ tx = [h \in Handlers |-> Idle]
    /\ wsLock = [w \in Workspaces |-> Free]
    /\ revocations = [w \in Workspaces |-> [u \in Users |-> 0]]

Client ==
    \E u \in Users :
        \/ \E r \in RequestIds, w \in Workspaces, amount \in Amounts :
              \/ \E settings \in Settings : FormCreate(u, r, w, amount, settings)
              \/ \E p \in Products, kind \in {"ADD", "REMOVE", "SET"} :
                    FormMove(u, r, w, p, kind, amount)
        \/ \E w \in Workspaces, r \in BarRequestIds, payload \in BarPayloads :
              OpenBar(u, w, r, payload)

Arrival(h) ==
    \/ \E i \in intents : SendIntent(h, i)
    \/ \E u \in Users, w \in Workspaces :
          \/ \E p \in Products, settings \in Settings : SendSettings(h, u, w, p, settings)
          \/ \E op \in {"add", "revoke"}, target \in Users :
                SendMembership(h, op, u, w, target)

Statement(h) ==
    \/ CheckAccess(h)
    \/ LoadProduct(h)
    \/ CheckPrior(h)
    \/ WriteSettings(h)
    \/ WriteMembership(h)
    \/ CommitStock(h)
    \/ CommitSettings(h)
    \/ CommitMembership(h)

\* The statements that may wait for another transaction's lock or key.
Waiting(h) == LockWorkspace(h) \/ WriteCreate(h) \/ WriteMove(h)

TxNext ==
    \/ Client
    \/ \E h \in Handlers : Arrival(h) \/ Statement(h) \/ Waiting(h) \/ Rollback(h)

TxSpec == TxInit /\ [][TxNext]_allVars

\* A handler keeps executing its statements, and PostgreSQL serves the waiters
\* of a row in their order of arrival, so a wait that keeps ending is served.
TxFairness ==
    \A h \in Handlers : WF_allVars(Statement(h)) /\ SF_allVars(Waiting(h))

FairTxSpec == TxSpec /\ TxFairness

-----------------------------------------------------------------------------

\* The transactions, interleaved statement by statement, produce only the
\* atomic steps of Inventory: locks and unique keys make them serializable.
ImplementsInventory == Spec

\* The readmission fence: a movement whose author was revoked after forming its
\* intention is never applied, even when he is readmitted before it arrives.
NoEffectAcrossRevocation ==
    [][\A m \in movements' \ movements :
          \E i \in intents :
              /\ i.actor = m.actor
              /\ i.requestId = m.requestId
              /\ i.content = m.fingerprint
              /\ i.era = revocations[m.fingerprint.workspace][m.actor]]_allVars

\* No handler waits for ever: every transaction ends, so the waits for rows
\* and keys never form a cycle.
TransactionsEnd == \A h \in Handlers : pc(h) # "idle" ~> pc(h) = "idle"
=============================================================================
