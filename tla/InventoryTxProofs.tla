------------------------- MODULE InventoryTxProofs --------------------------
(***************************************************************************)
(* The transactions of InventoryTx, interleaved statement by statement,    *)
(* implement the atomic actions of Inventory, for any number of handlers,  *)
(* accounts, Bars, products and intentions.  The argument: whatever a      *)
(* handler read under the lock of its workspace row is still what the      *)
(* tables say when it commits, because only the holder of that lock writes *)
(* the members and products of the Bar; and two lines that wait for their  *)
(* commits never carry the same key, because of the unique index.  Last,   *)
(* waits: whoever holds the row or the key a handler waits for is further  *)
(* on than this handler, so that some open transaction always proceeds.    *)
(***************************************************************************)
EXTENDS InventoryTx, InventoryProofs

Labels == {"begun", "locked", "granted", "loaded", "fresh", "written"}
Stocking == {"create", "move"}

Transaction ==
    [pc : Labels, op : {"create", "move", "settings", "add", "revoke"},
     actor : Users, workspace : Workspaces, body : Intent,
     requestId : RequestIds \union {NoRow}, target : Users \union {NoRow},
     seen : Row \union {NoRow}, line : Movement \union {NoRow}]

TxTypes ==
    /\ tx \in [Handlers -> Transaction \union {Idle}]
    /\ wsLock \in [Workspaces -> Handlers \union {Free}]
    /\ intents \subseteq StockIntent
    /\ revocations \in [Workspaces -> [Users -> Nat]]

Running(h) == tx[h] # Idle

\* What a stock intention may say about Bar w.
IsCreation(content, w) ==
    \E amount \in Quantity, settings \in Settings, v \in Precondition :
        content = CreateIntent(w, amount, settings, v)
IsMove(content, w) ==
    \E kind \in {"ADD", "REMOVE", "SET"}, p \in Products, amount \in Quantity,
       productV \in Precondition, v \in Precondition :
        content = MoveIntent(kind, w, p, amount, productV, v)

\* An intention carries a version of the past, and the revocations of its author
\* are counted as they were: while the version is current, so is the count.
IntentsOK ==
    \A i \in intents :
        LET c == i.content
        IN  /\ IsCreation(c, c.workspace) \/ IsMove(c, c.workspace)
            /\ c.expectedAccessVersion \in Version
            /\ c.expectedAccessVersion <= accessVersion[c.workspace]
            /\ c.expectedAccessVersion = accessVersion[c.workspace]
                  => i.era = revocations[c.workspace][i.actor]

\* What was asked: a stock transaction carries the intention of a client.
Requested(t) ==
    /\ t.op = "create" => IsCreation(t.body, t.workspace)
    /\ t.op = "move" => IsMove(t.body, t.workspace)
    /\ t.op \in Stocking => t.requestId \in RequestIds
    /\ t.op \in Stocking =>
          \E i \in intents :
              i.actor = t.actor /\ i.requestId = t.requestId /\ i.content = t.body
    /\ t.op = "settings" => t.body.settings \in Settings /\ t.body.product \in Products
    /\ t.op \in {"add", "revoke"} => t.target \in Users

\* What was read is still what the tables say.
Granted(t) ==
    IF t.op = "move"
    THEN Authorized(t.workspace, t.actor, t.body.expectedAccessVersion)
    ELSE OwnerAuthorized(t.workspace, t.actor, t.body.expectedAccessVersion)

Seen(t) == ProductIn(t.workspace, t.body.product) /\ t.seen = product[t.body.product]

InitialLine(t, p) == NewLine(t.actor, t.requestId, t.body, p, 0, t.body.amount, 0)
MoveLine(t) ==
    NewLine(t.actor, t.requestId, t.body, t.body.product, t.seen.quantity,
            After(t.seen.quantity, t.body.kind, t.body.amount), t.seen.version + 1)

\* What is written may be committed: its preconditions still hold.
Written(t) ==
    /\ t.op = "create" =>
          \E p \in Products : product[p] = NoRow /\ t.line = InitialLine(t, p)
    /\ t.op = "move" =>
          /\ VersionMatches(t.seen.version, t.body.expectedProductVersion)
          /\ ValidChange(t.seen.quantity, t.body.kind, t.body.amount)
          /\ HasCapacity(t.seen.version)
          /\ t.line = MoveLine(t)
    /\ t.op \in Stocking => t.line \in Movement /\ Prior(t.actor, t.requestId) = {}
    /\ t.op = "settings" =>
          /\ VersionMatches(t.seen.version, t.body.expectedProductVersion)
          /\ t.seen.settings # t.body.settings
          /\ HasCapacity(t.seen.version)
    /\ t.op = "add" => member[t.workspace][t.target] \in {"none", "revoked"}
    /\ t.op = "revoke" => member[t.workspace][t.target] = "MEMBER"
    /\ t.op \in {"add", "revoke"} => HasCapacity(accessVersion[t.workspace])

TxOK(h) ==
    LET t == tx[h]
    IN  /\ Requested(t)
        /\ t.pc # "begun" => wsLock[t.workspace] = h
        /\ t.pc \in {"granted", "loaded", "fresh", "written"} => Granted(t)
        /\ t.pc = "loaded" => t.op \in {"move", "settings"}
        /\ t.pc = "fresh" => t.op \in Stocking
        /\ t.pc \in {"loaded", "fresh", "written"} /\ t.op \in {"move", "settings"} => Seen(t)
        /\ t.pc = "written" => Written(t)

HasLine(h) == Running(h) /\ tx[h].pc = "written" /\ tx[h].op \in Stocking

\* Two lines that wait for their commits differ in their keys, and two new
\* products are not the same one.
Compatible(g, h) ==
    HasLine(g) /\ HasLine(h) =>
        /\ tx[g].actor = tx[h].actor => tx[g].requestId # tx[h].requestId
        /\ tx[g].op = "create" /\ tx[h].op = "create" => tx[g].line.product # tx[h].line.product

\* Every revocation is one of the changes the access version counts.
RevocationsCounted ==
    \A w \in Workspaces, u \in Users : revocations[w][u] <= accessVersion[w]

TxInv ==
    /\ IInv
    /\ TxTypes
    /\ IntentsOK
    /\ RevocationsCounted
    /\ \A h \in Handlers : Running(h) => TxOK(h)
    /\ \A g, h \in Handlers : g # h => Compatible(g, h)
-----------------------------------------------------------------------------
(* Steps that leave the tables alone. *)

\* What is asked and what was read depend on the tables and the intentions only.
LEMMA TablesDecide ==
    ASSUME NEW t, UNCHANGED vars, intents \subseteq intents'
    PROVE  /\ Requested(t) => Requested(t)'
           /\ Granted(t) => Granted(t)'
           /\ Seen(t) => Seen(t)'
           /\ Written(t) => Written(t)'
<1>1. Requested(t) => Requested(t)'
  BY DEF Requested
<1>2. Granted(t) => Granted(t)'
  BY DEF Granted, Authorized, OwnerAuthorized, Active, IsOwner, vars
<1>3. Seen(t) => Seen(t)'
  BY DEF Seen, ProductIn, vars
<1>4. Written(t) => Written(t)'
  BY DEF Written, Prior, vars
<1> QED BY <1>1, <1>2, <1>3, <1>4

LEMMA IdleIsNoTransaction == Idle \notin Transaction
BY DEF Idle, Transaction, Labels

\* One handler moves on, or a client forms an intention; the others keep their
\* locks.
LEMMA LocalStep ==
    ASSUME TxInv, NEW h \in Handlers, UNCHANGED vars, UNCHANGED revocations,
           intents' = intents,
           tx' \in [Handlers -> Transaction \union {Idle}],
           wsLock' \in [Workspaces -> Handlers \union {Free}],
           \A g \in Handlers \ {h} : tx'[g] = tx[g],
           \A g \in Handlers \ {h}, w \in Workspaces : wsLock[w] = g => wsLock'[w] = g,
           Running(h)' => TxOK(h)',
           HasLine(h)' => \A g \in Handlers \ {h} : Compatible(g, h)'
    PROVE  TxInv'
<1>1. IInv'
  BY IInvInductive DEF TxInv
<1>2. TxTypes'
  BY DEF TxInv, TxTypes
<1>3. IntentsOK' /\ RevocationsCounted'
  BY DEF TxInv, IntentsOK, RevocationsCounted, vars
<1>4. ASSUME NEW g \in Handlers, g # h, Running(g)'
      PROVE  TxOK(g)'
  <2>1. tx'[g] = tx[g] /\ TxOK(g) /\ tx[g] \in Transaction
    BY <1>4 DEF TxInv, Running, TxTypes
  <2>2. tx[g].pc # "begun" => wsLock'[tx[g].workspace] = g
    BY <1>4, <2>1 DEF TxOK, Transaction
  <2>3. /\ Requested(tx[g])'
        /\ Granted(tx[g]) => Granted(tx[g])'
        /\ Seen(tx[g]) => Seen(tx[g])'
        /\ Written(tx[g]) => Written(tx[g])'
    BY <2>1, TablesDecide DEF TxOK
  <2> QED BY <2>1, <2>2, <2>3 DEF TxOK
<1>5. ASSUME NEW f \in Handlers, NEW g \in Handlers, f # g
      PROVE  Compatible(f, g)'
  <2>1. CASE f # h /\ g # h
    BY <1>5, <2>1 DEF TxInv, Compatible, HasLine, Running
  <2>2. CASE g = h
    BY <1>5, <2>2 DEF Compatible
  <2>3. CASE f = h
    <3>1. Compatible(g, h)' \/ ~HasLine(h)'
      BY <1>5, <2>3
    <3> QED BY <2>3, <3>1 DEF Compatible
  <2> QED BY <2>1, <2>2, <2>3
<1> QED BY <1>1, <1>2, <1>3, <1>4, <1>5 DEF TxInv
\* A transaction that ends gives its lock back and leaves the others theirs.
LEMMA EndFacts ==
    ASSUME TxTypes, NEW h \in Handlers, End(h)
    PROVE  /\ tx' \in [Handlers -> Transaction \union {Idle}]
           /\ ~Running(h)'
           /\ \A g \in Handlers \ {h} : tx'[g] = tx[g]
           /\ wsLock' \in [Workspaces -> Handlers \union {Free}]
           /\ \A g \in Handlers \ {h}, w \in Workspaces : wsLock[w] = g => wsLock'[w] = g
BY DEF TxTypes, End, Running

LEMMA EndPreserves ==
    ASSUME TxInv, NEW h \in Handlers, End(h), UNCHANGED <<vars, intents, revocations>>
    PROVE  TxInv'
<1>1. UNCHANGED vars /\ intents' = intents /\ revocations' = revocations
  OBVIOUS
<1>2. ~HasLine(h)'
  BY EndFacts DEF HasLine, TxInv
<1> QED BY <1>1, <1>2, EndFacts, LocalStep DEF TxInv

\* A transaction that goes on keeps what was asked and what it read.
LEMMA GotoFacts ==
    ASSUME TxTypes, NEW h \in Handlers, Running(h), NEW label \in Labels, Goto(h, label)
    PROVE  /\ tx' \in [Handlers -> Transaction \union {Idle}]
           /\ tx[h] \in Transaction
           /\ tx'[h] = [tx[h] EXCEPT !.pc = label]
           /\ tx'[h] \in Transaction
           /\ tx'[h].pc = label
           /\ \A g \in Handlers \ {h} : tx'[g] = tx[g]
<1>1. tx[h] \in Transaction /\ tx'[h] = [tx[h] EXCEPT !.pc = label]
  BY DEF TxTypes, Running, Goto
<1>2. tx'[h] \in Transaction /\ tx'[h].pc = label
  BY <1>1 DEF Transaction
<1>3. \A g \in Handlers \ {h} : tx'[g] = tx[g]
  BY DEF TxTypes, Goto
<1>4. tx' \in [Handlers -> Transaction \union {Idle}]
  BY <1>2 DEF TxTypes, Goto
<1> QED BY <1>1, <1>2, <1>3, <1>4

\* What is asked and read of two records that differ in their labels only.
SameBut(t, next) ==
    /\ next.op = t.op /\ next.actor = t.actor /\ next.workspace = t.workspace
    /\ next.body = t.body /\ next.requestId = t.requestId /\ next.target = t.target

LEMMA LabelIsNoMatter ==
    ASSUME NEW t, NEW next, SameBut(t, next), UNCHANGED vars, intents \subseteq intents'
    PROVE  /\ Requested(t) => Requested(next)'
           /\ Granted(t) => Granted(next)'
           /\ Seen(t) /\ next.seen = t.seen => Seen(next)'
<1>1. Requested(t) => Requested(next)'
  BY DEF Requested, SameBut
<1>2. Granted(t) => Granted(next)'
  BY DEF Granted, Authorized, OwnerAuthorized, Active, IsOwner, vars, SameBut
<1>3. Seen(t) /\ next.seen = t.seen => Seen(next)'
  BY DEF Seen, ProductIn, vars, SameBut
<1> QED BY <1>1, <1>2, <1>3

\* A statement that reads: from begun to locked, granted, loaded and fresh.
LEMMA ReadPreserves ==
    ASSUME TxInv, NEW h \in Handlers, Running(h), UNCHANGED vars,
           intents' = intents, revocations' = revocations,
           tx' \in [Handlers -> Transaction \union {Idle}],
           \A g \in Handlers \ {h} : tx'[g] = tx[g],
           tx'[h] \in Transaction, SameBut(tx[h], tx'[h]),
           tx'[h].pc \in Labels \ {"written", "begun"},
           wsLock' \in [Workspaces -> Handlers \union {Free}],
           \A g \in Handlers \ {h}, w \in Workspaces : wsLock[w] = g => wsLock'[w] = g,
           wsLock'[tx[h].workspace] = h,
           tx'[h].pc # "locked" => Granted(tx[h]),
           tx'[h].pc = "loaded" => tx[h].op \in {"move", "settings"},
           tx'[h].pc = "fresh" => tx[h].op \in Stocking,
           tx'[h].pc \in {"loaded", "fresh"} /\ tx[h].op \in {"move", "settings"}
              => Seen(tx[h])'
    PROVE  TxInv'
<1>1. Requested(tx[h])
  BY DEF TxInv, TxOK
<1>2. Requested(tx[h])' /\ (tx'[h].pc # "locked" => Granted(tx[h])')
  BY <1>1, LabelIsNoMatter
<1>3. TxOK(h)'
  BY <1>2 DEF TxOK, SameBut, Labels
<1>4. ~HasLine(h)'
  BY DEF HasLine
<1> QED BY <1>3, <1>4, LocalStep
\* Where a handler stands, in terms of its record.
LEMMA RunningByLabel ==
    ASSUME TxInv, NEW h \in Handlers, pc(h) # "idle"
    PROVE  /\ Running(h) /\ tx[h] \in Transaction /\ TxOK(h)
           /\ tx[h].workspace \in Workspaces
BY DEF TxInv, TxTypes, Running, pc, Idle, Transaction

LEMMA LockWorkspacePreserves ==
    ASSUME TxInv, NEW h \in Handlers, LockWorkspace(h)
    PROVE  TxInv'
<1>1. pc(h) = "begun" /\ Goto(h, "locked") /\ UNCHANGED <<vars, intents, revocations>>
  BY DEF LockWorkspace
<1>2. Running(h) /\ tx[h].workspace \in Workspaces
  BY <1>1, RunningByLabel
<1>3. /\ tx' \in [Handlers -> Transaction \union {Idle}]
      /\ tx[h] \in Transaction /\ tx'[h] \in Transaction
      /\ tx'[h].pc = "locked" /\ SameBut(tx[h], tx'[h])
      /\ \A g \in Handlers \ {h} : tx'[g] = tx[g]
  BY <1>1, <1>2, GotoFacts DEF TxInv, Labels, SameBut, Transaction
<1>4. /\ wsLock' \in [Workspaces -> Handlers \union {Free}]
      /\ \A g \in Handlers \ {h}, w \in Workspaces : wsLock[w] = g => wsLock'[w] = g
      /\ wsLock'[tx[h].workspace] = h
  BY <1>2, FreeAssumption DEF LockWorkspace, TxInv, TxTypes
<1> QED BY <1>1, <1>2, <1>3, <1>4, ReadPreserves DEF Labels

\* A read under the lock that leads to the next statement.
LEMMA GotoPreserves ==
    ASSUME TxInv, NEW h \in Handlers, pc(h) \notin {"idle", "begun"},
           NEW label \in {"granted", "loaded", "fresh"}, Goto(h, label),
           UNCHANGED <<vars, wsLock, intents, revocations>>,
           Granted(tx[h]),
           label = "loaded" => tx[h].op \in {"move", "settings"},
           label = "fresh" => tx[h].op \in Stocking,
           label \in {"loaded", "fresh"} /\ tx[h].op \in {"move", "settings"} => Seen(tx[h])
    PROVE  TxInv'
<1>1. Running(h) /\ tx[h] \in Transaction /\ TxOK(h) /\ wsLock[tx[h].workspace] = h
  BY RunningByLabel DEF TxOK, pc
<1>2. /\ tx' \in [Handlers -> Transaction \union {Idle}]
      /\ tx'[h] \in Transaction /\ tx'[h].pc = label
      /\ tx'[h].seen = tx[h].seen /\ SameBut(tx[h], tx'[h])
      /\ \A g \in Handlers \ {h} : tx'[g] = tx[g]
  <2>1. label \in Labels /\ TxTypes
    BY DEF Labels, TxInv
  <2>2. tx'[h] = [tx[h] EXCEPT !.pc = label] /\ tx'[h] \in Transaction
    BY <1>1, <2>1, GotoFacts
  <2>3. tx'[h].seen = tx[h].seen /\ SameBut(tx[h], tx'[h])
    BY <1>1, <2>2 DEF SameBut, Transaction
  <2> QED BY <1>1, <2>1, <2>3, GotoFacts
<1>3. tx'[h].pc \in {"loaded", "fresh"} /\ tx[h].op \in {"move", "settings"} => Seen(tx[h])'
  BY <1>2, LabelIsNoMatter
<1>4. wsLock' = wsLock /\ wsLock \in [Workspaces -> Handlers \union {Free}]
  BY DEF TxInv, TxTypes
<1> QED BY <1>1, <1>2, <1>3, <1>4, ReadPreserves DEF Labels

LEMMA CheckAccessPreserves ==
    ASSUME TxInv, NEW h \in Handlers, CheckAccess(h)
    PROVE  TxInv'
<1>1. pc(h) = "locked" /\ UNCHANGED <<vars, intents, revocations>>
  BY DEF CheckAccess
<1>2. CASE End(h)
  BY <1>1, <1>2, EndPreserves
<1>3. CASE ~End(h)
  <2>1. Granted(tx[h]) /\ Goto(h, "granted") /\ UNCHANGED wsLock
    BY <1>3 DEF CheckAccess, Granted
  <2> QED BY <1>1, <2>1, GotoPreserves
<1> QED BY <1>2, <1>3

LEMMA CheckPriorPreserves ==
    ASSUME TxInv, NEW h \in Handlers, CheckPrior(h)
    PROVE  TxInv'
<1>1. pc(h) \in {"granted", "loaded"} /\ UNCHANGED <<vars, intents, revocations>>
  BY DEF CheckPrior
<1>2. CASE End(h)
  BY <1>1, <1>2, EndPreserves
<1>3. CASE ~End(h)
  <2>1. /\ Goto(h, "fresh") /\ UNCHANGED wsLock
        /\ \/ pc(h) = "granted" /\ tx[h].op = "create"
           \/ pc(h) = "loaded" /\ tx[h].op = "move"
    BY <1>3 DEF CheckPrior
  <2>2. Granted(tx[h]) /\ (tx[h].op = "move" => Seen(tx[h]))
    BY <1>1, <2>1, RunningByLabel DEF TxOK, pc
  <2> QED BY <1>1, <2>1, <2>2, GotoPreserves DEF Stocking
<1> QED BY <1>2, <1>3

LEMMA LoadProductPreserves ==
    ASSUME TxInv, NEW h \in Handlers, LoadProduct(h)
    PROVE  TxInv'
<1>1. pc(h) = "granted" /\ tx[h].op \in {"move", "settings"}
      /\ UNCHANGED <<vars, intents, revocations>>
  BY DEF LoadProduct
<1>2. CASE End(h)
  BY <1>1, <1>2, EndPreserves
<1>3. CASE ~End(h)
  <2> DEFINE row == product[tx[h].body.product]
  <2>1. /\ ProductIn(tx[h].workspace, tx[h].body.product)
        /\ tx' = [tx EXCEPT ![h].pc = "loaded", ![h].seen = row]
        /\ UNCHANGED wsLock
    BY <1>3 DEF LoadProduct
  <2>2. Running(h) /\ tx[h] \in Transaction /\ TxOK(h) /\ wsLock[tx[h].workspace] = h
        /\ Granted(tx[h])
    BY <1>1, RunningByLabel DEF TxOK, pc
  <2>3. tx[h].body.product \in Products
    <3>1. CASE tx[h].op = "move"
      <4>1. IsMove(tx[h].body, tx[h].workspace)
        BY <2>2, <3>1 DEF TxOK, Requested
      <4> QED BY <4>1 DEF IsMove, MoveIntent
    <3>2. CASE tx[h].op = "settings"
      BY <2>2, <3>2 DEF TxOK, Requested
    <3> QED BY <1>1, <3>1, <3>2
  <2>4. row \in Row
    BY <2>1, <2>3 DEF ProductIn, TxInv, IInv, TypeOK
  <2>5. tx'[h] = [tx[h] EXCEPT !.pc = "loaded", !.seen = row]
    BY <2>1 DEF TxInv, TxTypes
  <2>6. /\ tx'[h] \in Transaction /\ tx'[h].pc = "loaded" /\ tx'[h].seen = row
        /\ SameBut(tx[h], tx'[h])
    BY <2>2, <2>4, <2>5 DEF Transaction, Labels, SameBut
  <2>7. /\ tx' \in [Handlers -> Transaction \union {Idle}]
        /\ \A g \in Handlers \ {h} : tx'[g] = tx[g]
    BY <2>1, <2>5, <2>6 DEF TxInv, TxTypes
  <2>8. Seen(tx[h])'
    BY <1>1, <2>1, <2>6 DEF Seen, ProductIn, SameBut, vars
  <2>9. wsLock' = wsLock /\ wsLock \in [Workspaces -> Handlers \union {Free}]
    BY <2>1 DEF TxInv, TxTypes
  <2> HIDE DEF row
  <2> QED BY <1>1, <2>2, <2>6, <2>7, <2>8, <2>9, ReadPreserves DEF Labels
<1> QED BY <1>2, <1>3
\* A statement that writes: what it leaves may be committed.
LEMMA WritePreserves ==
    ASSUME TxInv, NEW h \in Handlers, pc(h) \notin {"idle", "begun"}, Granted(tx[h]),
           UNCHANGED <<vars, wsLock, intents, revocations>>,
           tx' \in [Handlers -> Transaction \union {Idle}],
           \A g \in Handlers \ {h} : tx'[g] = tx[g],
           tx'[h] \in Transaction, SameBut(tx[h], tx'[h]),
           tx'[h].seen = tx[h].seen, tx'[h].pc = "written",
           tx[h].op \in {"move", "settings"} => Seen(tx[h]),
           Written(tx[h])',
           tx[h].op \in Stocking => \A g \in Handlers \ {h} : Compatible(g, h)'
    PROVE  TxInv'
<1>1. Running(h) /\ TxOK(h) /\ wsLock[tx[h].workspace] = h
  BY RunningByLabel DEF TxOK, pc
<1>2. /\ Requested(tx[h])' /\ Granted(tx[h])'
      /\ tx[h].op \in {"move", "settings"} => Seen(tx[h])'
  BY <1>1, LabelIsNoMatter DEF TxOK
<1>3. TxOK(h)'
  BY <1>1, <1>2 DEF TxOK, SameBut
<1>4. HasLine(h)' => \A g \in Handlers \ {h} : Compatible(g, h)'
  BY DEF HasLine, SameBut
<1>5. wsLock' = wsLock /\ wsLock \in [Workspaces -> Handlers \union {Free}]
  BY DEF TxInv, TxTypes
<1> QED BY <1>3, <1>4, <1>5, LocalStep

\* The unique index: a line that is inserted has a key of its own.
LEMMA InsertFacts ==
    ASSUME TxInv, NEW h \in Handlers, NEW line \in Movement, Insert(h, line), ~End(h),
           pc(h) \notin {"idle", "begun"}
    PROVE  /\ UNCHANGED wsLock
           /\ tx' \in [Handlers -> Transaction \union {Idle}]
           /\ tx'[h] \in Transaction /\ SameBut(tx[h], tx'[h])
           /\ tx'[h].seen = tx[h].seen /\ tx'[h].pc = "written" /\ tx'[h].line = line
           /\ \A g \in Handlers \ {h} : tx'[g] = tx[g]
           /\ Prior(tx[h].actor, tx[h].requestId) = {}
           /\ \A g \in Handlers \ {h} :
                 HasLine(g) => /\ pc(g) = "written" /\ tx[g].line # NoRow
                               /\ tx[g].actor = tx[h].actor => tx[g].requestId # tx[h].requestId
<1>1. /\ tx' = [tx EXCEPT ![h].pc = "written", ![h].line = line]
      /\ UNCHANGED wsLock /\ ~KeyInFlight(h) /\ ~KeyTaken(h)
  BY DEF Insert
<1>2. tx[h] \in Transaction
  BY RunningByLabel
<1>3. tx'[h] = [tx[h] EXCEPT !.pc = "written", !.line = line]
  BY <1>1 DEF TxInv, TxTypes
<1>4. /\ tx'[h] \in Transaction /\ SameBut(tx[h], tx'[h])
      /\ tx'[h].seen = tx[h].seen /\ tx'[h].pc = "written" /\ tx'[h].line = line
  BY <1>2, <1>3 DEF Transaction, Labels, SameBut
<1>5. /\ tx' \in [Handlers -> Transaction \union {Idle}]
      /\ \A g \in Handlers \ {h} : tx'[g] = tx[g]
  BY <1>1, <1>3, <1>4 DEF TxInv, TxTypes
<1>6. ASSUME NEW g \in Handlers \ {h}, HasLine(g)
      PROVE  /\ pc(g) = "written" /\ tx[g].line # NoRow
             /\ tx[g].actor = tx[h].actor => tx[g].requestId # tx[h].requestId
  <2>1. Running(g) /\ pc(g) = "written" /\ tx[g].op \in Stocking
    BY <1>6 DEF HasLine, pc
  <2>2. tx[g].line \in Movement
    BY <2>1 DEF TxInv, TxOK, Written, pc
  <2> QED BY <1>1, <2>1, <2>2, NoRowIsNoMovement DEF KeyInFlight
<1> QED BY <1>1, <1>4, <1>5, <1>6 DEF KeyTaken

LEMMA WriteCreatePreserves ==
    ASSUME TxInv, NEW h \in Handlers, WriteCreate(h)
    PROVE  TxInv'
<1> DEFINE t == tx[h]
<1>1. pc(h) = "fresh" /\ t.op = "create" /\ UNCHANGED <<vars, intents, revocations>>
  BY DEF WriteCreate
<1>2. CASE End(h)
  BY <1>1, <1>2, EndPreserves
<1>3. CASE ~End(h)
  <2>1. PICK p \in Products :
            /\ product[p] = NoRow
            /\ \A g \in Handlers \ {h} : pc(g) = "written" /\ tx[g].line # NoRow
                                            => tx[g].line.product # p
            /\ Insert(h, InitialLine(t, p))
    BY DEF WriteCreate, InitialLine, NewLine
  <2>2. Granted(t) /\ t \in Transaction /\ t.requestId \in RequestIds
    BY <1>1, RunningByLabel DEF TxOK, pc, Requested, Stocking
  <2>3. InitialLine(t, p) \in Movement
    <3>1. t.body.amount \in Quantity /\ 0 \in Quantity /\ 0 \in Version
      BY <2>2, MaxQuantityAssumption, MaxVersionAssumption
      DEF Transaction, Intent, Quantity, Version
    <3> QED BY <2>2, <3>1 DEF InitialLine, NewLine, Movement, Transaction
  <2>4. /\ UNCHANGED wsLock
        /\ tx' \in [Handlers -> Transaction \union {Idle}]
        /\ tx'[h] \in Transaction /\ SameBut(t, tx'[h])
        /\ tx'[h].seen = t.seen /\ tx'[h].pc = "written" /\ tx'[h].line = InitialLine(t, p)
        /\ \A g \in Handlers \ {h} : tx'[g] = tx[g]
        /\ Prior(t.actor, t.requestId) = {}
        /\ \A g \in Handlers \ {h} :
              HasLine(g) => /\ pc(g) = "written" /\ tx[g].line # NoRow
                            /\ tx[g].actor = t.actor => tx[g].requestId # t.requestId
    BY <1>1, <1>3, <2>1, <2>3, InsertFacts
  <2>5. InitialLine(t, p) = InitialLine(tx'[h], p) /\ InitialLine(t, p).product = p
    BY <2>4 DEF SameBut, InitialLine, NewLine
  <2>6. Written(tx[h])'
    <3>1. product'[p] = NoRow /\ movements' = movements
      BY <1>1, <2>1 DEF vars
    <3> QED BY <1>1, <2>3, <2>4, <2>5, <3>1
            DEF Written, SameBut, Prior, Stocking, InitialLine
  <2>7. \A g \in Handlers \ {h} : Compatible(g, h)'
    BY <2>1, <2>4, <2>5 DEF Compatible, HasLine, Running, SameBut
  <2> QED BY <1>1, <2>2, <2>4, <2>6, <2>7, WritePreserves
<1> QED BY <1>2, <1>3
\* The row a handler has read, and the product it belongs to.
LEMMA SeenFacts ==
    ASSUME TxInv, NEW h \in Handlers, Running(h), tx[h].op \in {"move", "settings"},
           Seen(tx[h])
    PROVE  /\ tx[h].body.product \in Products
           /\ product[tx[h].body.product] \in Row
           /\ product[tx[h].body.product].workspace = tx[h].workspace
           /\ tx[h].seen = product[tx[h].body.product]
<1>1. Requested(tx[h])
  BY DEF TxInv, TxOK
<1>2. tx[h].body.product \in Products
  <2>1. CASE tx[h].op = "move"
    <3>1. IsMove(tx[h].body, tx[h].workspace)
      BY <1>1, <2>1 DEF Requested
    <3> QED BY <3>1 DEF IsMove, MoveIntent
  <2>2. CASE tx[h].op = "settings"
    BY <1>1, <2>2 DEF Requested
  <2> QED BY <2>1, <2>2
<1>3. product[tx[h].body.product] \in Row
  BY <1>2 DEF Seen, ProductIn, TxInv, IInv, TypeOK
<1> QED BY <1>2, <1>3 DEF Seen, ProductIn

LEMMA WriteMovePreserves ==
    ASSUME TxInv, NEW h \in Handlers, WriteMove(h)
    PROVE  TxInv'
<1> DEFINE t == tx[h]
<1>1. pc(h) = "fresh" /\ t.op = "move" /\ UNCHANGED <<vars, intents, revocations>>
  BY DEF WriteMove
<1>2. CASE End(h)
  BY <1>1, <1>2, EndPreserves
<1>3. CASE ~End(h)
  <2>1. /\ VersionMatches(t.seen.version, t.body.expectedProductVersion)
        /\ ValidChange(t.seen.quantity, t.body.kind, t.body.amount)
        /\ HasCapacity(t.seen.version)
        /\ Insert(h, MoveLine(t))
    BY <1>3 DEF WriteMove, MoveLine, NewLine
  <2>2. Granted(t) /\ Seen(t) /\ t \in Transaction /\ t.requestId \in RequestIds /\ Running(h)
    BY <1>1, RunningByLabel DEF TxOK, pc, Requested, Stocking
  <2>3. t.seen \in Row /\ t.body.product \in Products
    BY <1>1, <2>2, SeenFacts
  <2>4. MoveLine(t) \in Movement
    <3>1. t.seen.version + 1 \in Version /\ t.seen.quantity \in Quantity
      BY <2>1, <2>3, MaxVersionAssumption DEF HasCapacity, Row, Version
    <3>2. After(t.seen.quantity, t.body.kind, t.body.amount) \in Quantity
      BY <2>1 DEF ValidChange
    <3> QED BY <2>2, <2>3, <3>1, <3>2 DEF MoveLine, NewLine, Movement, Transaction
  <2>5. /\ UNCHANGED wsLock
        /\ tx' \in [Handlers -> Transaction \union {Idle}]
        /\ tx'[h] \in Transaction /\ SameBut(t, tx'[h])
        /\ tx'[h].seen = t.seen /\ tx'[h].pc = "written" /\ tx'[h].line = MoveLine(t)
        /\ \A g \in Handlers \ {h} : tx'[g] = tx[g]
        /\ Prior(t.actor, t.requestId) = {}
        /\ \A g \in Handlers \ {h} :
              HasLine(g) => /\ pc(g) = "written" /\ tx[g].line # NoRow
                            /\ tx[g].actor = t.actor => tx[g].requestId # t.requestId
    BY <1>1, <1>3, <2>1, <2>4, InsertFacts
  <2>6. MoveLine(t) = MoveLine(tx'[h])
    BY <2>5 DEF SameBut, MoveLine
  <2>7. Written(tx[h])'
    BY <1>1, <2>1, <2>4, <2>5, <2>6 DEF Written, SameBut, Prior, Stocking, MoveLine, vars
  <2>8. \A g \in Handlers \ {h} : Compatible(g, h)'
    BY <1>1, <2>5 DEF Compatible, HasLine, Running, SameBut
  <2> QED BY <1>1, <2>2, <2>5, <2>7, <2>8, WritePreserves
<1> QED BY <1>2, <1>3

\* A write that no ledger line records.
LEMMA PlainWritePreserves ==
    ASSUME TxInv, NEW h \in Handlers, pc(h) \notin {"idle", "begun"}, tx[h].op \notin Stocking,
           Goto(h, "written"), UNCHANGED <<vars, wsLock, intents, revocations>>,
           Granted(tx[h]), tx[h].op = "settings" => Seen(tx[h]), Written(tx[h])
    PROVE  TxInv'
<1>1. "written" \in Labels /\ Running(h) /\ TxTypes
  BY RunningByLabel DEF Labels, TxInv
<1>2. /\ tx' \in [Handlers -> Transaction \union {Idle}]
      /\ tx[h] \in Transaction /\ tx'[h] = [tx[h] EXCEPT !.pc = "written"]
      /\ tx'[h] \in Transaction /\ tx'[h].pc = "written"
      /\ \A g \in Handlers \ {h} : tx'[g] = tx[g]
  BY <1>1, GotoFacts
<1>3. SameBut(tx[h], tx'[h]) /\ tx'[h].seen = tx[h].seen /\ tx'[h].line = tx[h].line
  BY <1>2 DEF SameBut, Transaction
<1>4. Written(tx[h])'
  BY <1>3 DEF Written, SameBut, Stocking, vars
<1> QED BY <1>2, <1>3, <1>4, WritePreserves DEF Stocking

LEMMA WriteSettingsPreserves ==
    ASSUME TxInv, NEW h \in Handlers, WriteSettings(h)
    PROVE  TxInv'
<1>1. pc(h) = "loaded" /\ tx[h].op = "settings" /\ UNCHANGED <<vars, intents, revocations>>
  BY DEF WriteSettings
<1>2. CASE End(h)
  BY <1>1, <1>2, EndPreserves
<1>3. CASE ~End(h)
  <2>1. /\ Goto(h, "written") /\ UNCHANGED wsLock
        /\ VersionMatches(tx[h].seen.version, tx[h].body.expectedProductVersion)
        /\ tx[h].seen.settings # tx[h].body.settings
        /\ HasCapacity(tx[h].seen.version)
    BY <1>3 DEF WriteSettings
  <2>2. Granted(tx[h]) /\ Seen(tx[h])
    BY <1>1, RunningByLabel DEF TxOK, pc
  <2>3. Written(tx[h])
    BY <1>1, <2>1 DEF Written, Stocking
  <2> QED BY <1>1, <2>1, <2>2, <2>3, PlainWritePreserves DEF Stocking
<1> QED BY <1>2, <1>3

LEMMA WriteMembershipPreserves ==
    ASSUME TxInv, NEW h \in Handlers, WriteMembership(h)
    PROVE  TxInv'
<1>1. /\ pc(h) = "granted" /\ tx[h].op \in {"add", "revoke"}
      /\ UNCHANGED <<vars, intents, revocations>>
  BY DEF WriteMembership
<1>2. CASE End(h)
  BY <1>1, <1>2, EndPreserves
<1>3. CASE ~End(h)
  <2>1. /\ Goto(h, "written") /\ UNCHANGED wsLock
        /\ member[tx[h].workspace][tx[h].target]
              \in IF tx[h].op = "add" THEN {"none", "revoked"} ELSE {"MEMBER"}
        /\ HasCapacity(accessVersion[tx[h].workspace])
    BY <1>3 DEF WriteMembership
  <2>2. Granted(tx[h])
    BY <1>1, RunningByLabel DEF TxOK, pc
  <2>3. Written(tx[h])
    BY <1>1, <2>1 DEF Written, Stocking
  <2> QED BY <1>1, <2>1, <2>2, <2>3, PlainWritePreserves DEF Stocking
<1> QED BY <1>2, <1>3

LEMMA RollbackPreserves ==
    ASSUME TxInv, NEW h \in Handlers, Rollback(h)
    PROVE  TxInv'
BY EndPreserves DEF Rollback

\* A request arrives: nothing is read yet.
LEMMA OpenPreserves ==
    ASSUME TxInv, NEW h \in Handlers, NEW t \in Transaction, Open(h, t),
           t.pc = "begun", Requested(t)
    PROVE  TxInv'
<1>1. /\ tx' = [tx EXCEPT ![h] = t]
      /\ UNCHANGED vars /\ intents' = intents /\ wsLock' = wsLock /\ revocations' = revocations
  BY DEF Open
<1>2. /\ tx'[h] = t
      /\ tx' \in [Handlers -> Transaction \union {Idle}]
      /\ \A g \in Handlers \ {h} : tx'[g] = tx[g]
      /\ wsLock' \in [Workspaces -> Handlers \union {Free}]
  BY <1>1 DEF TxInv, TxTypes
<1>3. Requested(t)'
  BY <1>1, TablesDecide
<1>4. TxOK(h)'
  BY <1>2, <1>3 DEF TxOK
<1>5. ~HasLine(h)'
  BY <1>2 DEF HasLine
<1> QED BY <1>1, <1>2, <1>4, <1>5, LocalStep

\* A bound precondition of the current access version.
LEMMA CurrentVersion ==
    ASSUME TypeOK, NEW w \in Workspaces
    PROVE  accessVersion[w] \in Version /\ accessVersion[w] \in Precondition
BY DEF TypeOK, BarsTypeOK, Precondition

LEMMA SendIntentPreserves ==
    ASSUME TxInv, NEW h \in Handlers, NEW i \in intents, SendIntent(h, i)
    PROVE  TxInv'
<1> DEFINE c == i.content
           op == IF c.kind = "INITIAL" THEN "create" ELSE "move"
           t == Opened(op, i.actor, c.workspace, c, i.requestId, NoRow)
<1>1. /\ i.actor \in Users /\ i.requestId \in RequestIds /\ c \in Intent
      /\ c.workspace \in Workspaces
  BY DEF TxInv, TxTypes, StockIntent, Intent
<1>2. t \in Transaction /\ t.pc = "begun"
  BY <1>1 DEF Opened, Transaction, Labels
<1>3. IsCreation(c, c.workspace) \/ IsMove(c, c.workspace)
  BY DEF TxInv, IntentsOK
<1>4. IsCreation(c, c.workspace) => c.kind = "INITIAL"
  BY DEF IsCreation, CreateIntent
<1>5. IsMove(c, c.workspace) => c.kind # "INITIAL"
  BY DEF IsMove, MoveIntent
<1>6. Requested(t)
  BY <1>1, <1>3, <1>4, <1>5 DEF Requested, Opened, Stocking
<1>7. Open(h, t)
  BY DEF SendIntent
<1> QED BY <1>2, <1>6, <1>7, OpenPreserves

LEMMA SendSettingsPreserves ==
    ASSUME TxInv, NEW h \in Handlers, NEW u \in Users, NEW w \in Workspaces,
           NEW p \in Products, NEW settings \in Settings, SendSettings(h, u, w, p, settings)
    PROVE  TxInv'
<1> DEFINE body == [CreateIntent(w, 0, settings, accessVersion[w]) EXCEPT
                      !.product = p, !.expectedProductVersion = product[p].version]
           t == Opened("settings", u, w, body, NoRow, NoRow)
<1>1. product[p] \in Row /\ Open(h, t)
  BY DEF SendSettings, ProductIn, TxInv, IInv, TypeOK
<1>2. product[p].version \in Precondition /\ accessVersion[w] \in Precondition /\ 0 \in Quantity
  BY <1>1, CurrentVersion, MaxQuantityAssumption DEF TxInv, IInv, Row, Precondition, Quantity
<1>3. body \in Intent /\ body.settings = settings /\ body.product = p
  BY <1>2 DEF CreateIntent, Intent
<1>4. t \in Transaction /\ t.pc = "begun"
  BY <1>3 DEF Opened, Transaction, Labels
<1>5. Requested(t)
  BY <1>3 DEF Requested, Opened, Stocking
<1> QED BY <1>1, <1>4, <1>5, OpenPreserves

LEMMA SendMembershipPreserves ==
    ASSUME TxInv, NEW h \in Handlers, NEW op \in {"add", "revoke"}, NEW u \in Users,
           NEW w \in Workspaces, NEW target \in Users, SendMembership(h, op, u, w, target)
    PROVE  TxInv'
<1> DEFINE body == CreateIntent(w, 0, NoSettings, accessVersion[w])
           t == Opened(op, u, w, body, NoRow, target)
<1>1. accessVersion[w] \in Precondition /\ 0 \in Quantity /\ NoVersion \in Precondition
  BY CurrentVersion, MaxQuantityAssumption DEF TxInv, IInv, Quantity, Precondition
<1>2. body \in Intent
  BY <1>1 DEF CreateIntent, Intent
<1>3. t \in Transaction /\ t.pc = "begun"
  BY <1>2 DEF Opened, Transaction, Labels
<1>4. Requested(t)
  BY DEF Requested, Opened, Stocking
<1>5. Open(h, t)
  BY DEF SendMembership
<1> QED BY <1>3, <1>4, <1>5, OpenPreserves

\* A client forms an intention: the counts of the moment are recorded in it.
LEMMA FormIntentPreserves ==
    ASSUME TxInv, NEW u \in Users, NEW r \in RequestIds, NEW c \in Intent,
           FormIntent(u, r, c), c.expectedAccessVersion = accessVersion[c.workspace],
           IsCreation(c, c.workspace) \/ IsMove(c, c.workspace)
    PROVE  TxInv'
<1> DEFINE i == [actor |-> u, requestId |-> r, content |-> c,
                 era |-> revocations[c.workspace][u]]
<1>1. /\ intents' = intents \union {i}
      /\ UNCHANGED vars /\ tx' = tx /\ wsLock' = wsLock /\ revocations' = revocations
  BY DEF FormIntent
<1>2. c.workspace \in Workspaces
  BY DEF Intent
<1>3. i \in StockIntent
  BY <1>2 DEF StockIntent, TxInv, TxTypes
<1>4. TxTypes' /\ IInv' /\ RevocationsCounted'
  BY <1>1, <1>3, IInvInductive DEF TxInv, TxTypes, RevocationsCounted, vars
<1>5. accessVersion[c.workspace] \in Nat /\ c.expectedAccessVersion \in Version
  BY <1>2, CurrentVersion DEF TxInv, IInv, Version
<1>6. IntentsOK'
  BY <1>1, <1>5 DEF TxInv, IntentsOK, vars
<1>7. ASSUME NEW h \in Handlers, Running(h)'
      PROVE  TxOK(h)'
  <2>1. Running(h) /\ TxOK(h) /\ tx'[h] = tx[h]
    BY <1>1, <1>7 DEF TxInv, Running
  <2>2. /\ Requested(tx[h])'
        /\ Granted(tx[h]) => Granted(tx[h])'
        /\ Seen(tx[h]) => Seen(tx[h])'
        /\ Written(tx[h]) => Written(tx[h])'
    BY <1>1, <2>1, TablesDecide DEF TxOK
  <2> QED BY <1>1, <2>1, <2>2 DEF TxOK
<1>8. \A g, h \in Handlers : g # h => Compatible(g, h)'
  BY <1>1 DEF TxInv, Compatible, HasLine, Running
<1> QED BY <1>4, <1>6, <1>7, <1>8 DEF TxInv

LEMMA FormPreserves ==
    ASSUME TxInv, NEW u \in Users, NEW r \in RequestIds, NEW w \in Workspaces,
           NEW amount \in Amounts,
           \/ \E settings \in Settings : FormCreate(u, r, w, amount, settings)
           \/ \E p \in Products, kind \in {"ADD", "REMOVE", "SET"} :
                 FormMove(u, r, w, p, kind, amount)
    PROVE  TxInv'
<1>1. accessVersion[w] \in Precondition /\ amount \in Quantity /\ NoVersion \in Precondition
  BY CurrentVersion, AmountsAssumption DEF TxInv, IInv, Precondition
<1>2. ASSUME NEW settings \in Settings, FormCreate(u, r, w, amount, settings)
      PROVE  TxInv'
  <2> DEFINE c == CreateIntent(w, amount, settings, accessVersion[w])
  <2>1. /\ c \in Intent /\ c.workspace = w /\ c.expectedAccessVersion = accessVersion[w]
        /\ IsCreation(c, w)
    BY <1>1 DEF CreateIntent, Intent, IsCreation
  <2>2. FormIntent(u, r, c)
    BY <1>2 DEF FormCreate
  <2> QED BY <2>1, <2>2, FormIntentPreserves
<1>3. ASSUME NEW p \in Products, NEW kind \in {"ADD", "REMOVE", "SET"},
             FormMove(u, r, w, p, kind, amount)
      PROVE  TxInv'
  <2> DEFINE c == MoveIntent(kind, w, p, amount, product[p].version, accessVersion[w])
  <2>1. product[p].version \in Precondition
    BY <1>3 DEF FormMove, ProductIn, TxInv, IInv, TypeOK, Row, Precondition
  <2>2. /\ c \in Intent /\ c.workspace = w /\ c.expectedAccessVersion = accessVersion[w]
        /\ IsMove(c, w)
    BY <1>1, <2>1 DEF MoveIntent, Intent, IsMove
  <2>3. FormIntent(u, r, c)
    BY <1>3 DEF FormMove
  <2> QED BY <2>2, <2>3, FormIntentPreserves
<1> QED BY <1>2, <1>3
-----------------------------------------------------------------------------
(* Steps that write the tables: openings of Bars and commits. *)

\* A transaction keeps its grant while the rows of its Bar stay as they are.
LEMMA SameBarSameGrant ==
    ASSUME NEW t, member'[t.workspace] = member[t.workspace],
           accessVersion'[t.workspace] = accessVersion[t.workspace]
    PROVE  Granted(t) => Granted(t)'
BY DEF Granted, Authorized, OwnerAuthorized, Active, IsOwner

\* What it wrote stays fit to commit while nobody takes its key or its product.
LEMMA SameRowsSameWrites ==
    ASSUME NEW t, member'[t.workspace] = member[t.workspace],
           accessVersion'[t.workspace] = accessVersion[t.workspace],
           \A p \in Products :
              t.op = "create" /\ product[p] = NoRow /\ t.line = InitialLine(t, p)
                 => product'[p] = NoRow,
           t.op \in Stocking /\ Prior(t.actor, t.requestId) = {}
              => \A m \in movements' : ~ (m.actor = t.actor /\ m.requestId = t.requestId)
    PROVE  Written(t) => Written(t)'
<1> SUFFICES ASSUME Written(t) PROVE Written(t)'
  OBVIOUS
<1>1. t.op = "create" => \E p \in Products : product'[p] = NoRow /\ t.line = InitialLine(t, p)
  BY DEF Written
<1>2. t.op \in Stocking => t.line \in Movement /\ Prior(t.actor, t.requestId)' = {}
  BY DEF Written, Prior
<1>3. t.op = "move" =>
          /\ VersionMatches(t.seen.version, t.body.expectedProductVersion)
          /\ ValidChange(t.seen.quantity, t.body.kind, t.body.amount)
          /\ HasCapacity(t.seen.version)
          /\ t.line = MoveLine(t)
  BY DEF Written
<1>4. t.op = "settings" =>
          /\ VersionMatches(t.seen.version, t.body.expectedProductVersion)
          /\ t.seen.settings # t.body.settings
          /\ HasCapacity(t.seen.version)
  BY DEF Written
<1>5. /\ t.op = "add" => member'[t.workspace][t.target] \in {"none", "revoked"}
      /\ t.op = "revoke" => member'[t.workspace][t.target] = "MEMBER"
      /\ t.op \in {"add", "revoke"} => HasCapacity(accessVersion[t.workspace])'
  BY DEF Written, HasCapacity
<1> QED BY <1>1, <1>2, <1>3, <1>4, <1>5 DEF Written, InitialLine, MoveLine

\* A Bar that did not exist has no transaction past its access check.
LEMMA OpenBarPreserves ==
    ASSUME TxInv, NEW u \in Users, NEW w \in Workspaces, NEW r \in BarRequestIds,
           NEW payload \in BarPayloads, OpenBar(u, w, r, payload)
    PROVE  TxInv' /\ Next
<1>1. /\ bar[w] = NoRow /\ member' = [member EXCEPT ![w][u] = "OWNER"]
      /\ accessVersion' = accessVersion /\ product' = product /\ movements' = movements
      /\ UNCHANGED txVars
  BY DEF OpenBar, CreateBar, inventoryVars
<1>2. Next
  BY DEF OpenBar, Next, MembershipStep, BarsNext
<1>3. IInv'
  BY <1>2, IInvInductive DEF TxInv
<1>4. TxTypes' /\ IntentsOK' /\ RevocationsCounted'
  BY <1>1 DEF TxInv, TxTypes, IntentsOK, RevocationsCounted, txVars
<1>5. ASSUME NEW h \in Handlers, Running(h)'
      PROVE  TxOK(h)'
  <2> DEFINE t == tx[h]
  <2>1. t \in Transaction /\ TxOK(h) /\ tx' = tx /\ wsLock' = wsLock /\ intents' = intents
    BY <1>1, <1>5 DEF TxInv, TxTypes, Running, txVars
  <2>2. Requested(t)' /\ (Seen(t) => Seen(t)')
    BY <1>1, <2>1 DEF TxOK, Requested, Seen, ProductIn
  <2>3. t.workspace \in Workspaces /\ t.actor \in Users
    BY <2>1 DEF Transaction
  <2>4. ASSUME Granted(t)
        PROVE  t.workspace # w
    <3>1. member[t.workspace][t.actor] # "none"
      BY <2>4 DEF Granted, Authorized, OwnerAuthorized, Active, IsOwner
    <3> QED BY <1>1, <2>3, <3>1 DEF TxInv, IInv, BarsInv, OwnerIsCreator
  <2>5. ASSUME Granted(t)
        PROVE  Granted(t)' /\ (Written(t) => Written(t)')
    <3>0. t.workspace # w
      BY <2>4, <2>5
    <3>1. /\ member'[t.workspace] = member[t.workspace]
          /\ accessVersion'[t.workspace] = accessVersion[t.workspace]
      BY <1>1, <2>3, <3>0 DEF TxInv, IInv, TypeOK, BarsTypeOK
    <3>2. Granted(t)'
      BY <2>1, <2>5, <3>1, SameBarSameGrant
    <3>3. Written(t) => Written(t)'
      BY <1>1, <2>1, <3>1, SameRowsSameWrites DEF Prior
    <3> QED BY <3>2, <3>3
  <2> QED BY <2>1, <2>2, <2>5 DEF TxOK, Labels, Transaction
<1>6. \A g, h \in Handlers : g # h => Compatible(g, h)'
  BY <1>1 DEF TxInv, Compatible, HasLine, Running, txVars
<1> QED BY <1>2, <1>3, <1>4, <1>5, <1>6 DEF TxInv

\* A commit changes rows of the holder's Bar, and lines of its own key, alone.
CommitsOwnRows(h) ==
    /\ \A w \in Workspaces \ {tx[h].workspace} :
          member'[w] = member[w] /\ accessVersion'[w] = accessVersion[w]
    /\ \A p \in Products : product'[p] # product[p] =>
          IF tx[h].op = "create" THEN p = tx[h].line.product
          ELSE ProductIn(tx[h].workspace, p)
    /\ \A m \in movements' \ movements :
          tx[h].op \in Stocking /\ m.actor = tx[h].actor /\ m.requestId = tx[h].requestId

\* The other handlers: the holder's Bar is not theirs, nor is its key.
LEMMA OthersKeepTheirs ==
    ASSUME TxInv, NEW h \in Handlers, pc(h) = "written", CommitsOwnRows(h),
           intents' = intents,
           NEW g \in Handlers, g # h, Running(g), tx'[g] = tx[g],
           \A w \in Workspaces : wsLock[w] = g => wsLock'[w] = g
    PROVE  TxOK(g)'
<1> DEFINE t == tx[g]
           own == tx[h]
<1>1. t \in Transaction /\ TxOK(g) /\ own \in Transaction /\ TxOK(h) /\ Running(h)
  BY RunningByLabel DEF TxInv, TxTypes, Running, pc
<1>2. t.workspace \in Workspaces /\ own.workspace \in Workspaces
  BY <1>1 DEF Transaction
<1>3. wsLock[own.workspace] = h
  BY <1>1 DEF TxOK, pc
<1>4. Requested(t)'
  BY <1>1 DEF TxOK, Requested
<1>5. CASE t.pc = "begun"
  BY <1>4, <1>5 DEF TxOK
<1>6. CASE t.pc # "begun"
  <2>1. wsLock[t.workspace] = g /\ wsLock'[t.workspace] = g /\ t.workspace # own.workspace
    BY <1>1, <1>2, <1>3, <1>6 DEF TxOK
  <2>2. /\ member'[t.workspace] = member[t.workspace]
        /\ accessVersion'[t.workspace] = accessVersion[t.workspace]
    BY <1>2, <2>1 DEF CommitsOwnRows
  <2>3. Granted(t) => Granted(t)'
    BY <2>2, SameBarSameGrant
  <2>4. ASSUME Seen(t), t.op \in {"move", "settings"}
        PROVE  Seen(t)'
    <3>0. t.body.product \in Products
      BY <2>4, SeenFacts
    <3>1. t.body.product \in Products /\ ProductIn(t.workspace, t.body.product)
      BY <2>4, <3>0 DEF Seen
    <3>2. own.op = "create" => product[own.line.product] = NoRow
      <4>1. Written(own)
        BY <1>1 DEF TxOK, pc
      <4>2. \A p : InitialLine(own, p).product = p
        BY DEF InitialLine, NewLine
      <4> QED BY <4>1, <4>2 DEF Written
    <3>3. product'[t.body.product] = product[t.body.product]
      BY <2>1, <3>1, <3>2 DEF CommitsOwnRows, ProductIn
    <3> QED BY <2>4, <3>3 DEF Seen, ProductIn
  <2>5. ASSUME Written(t), t.pc = "written"
        PROVE  Written(t)'
    <3>1. HasLine(h) <=> own.op \in Stocking
      BY <1>1 DEF HasLine, pc
    <3>2. HasLine(g) <=> t.op \in Stocking
      BY <2>5 DEF HasLine
    <3>3. ASSUME NEW p \in Products, t.op = "create", product[p] = NoRow,
                 t.line = InitialLine(t, p)
          PROVE  product'[p] = NoRow
      <4>1. own.op = "create" => own.line.product # p
        BY <3>1, <3>2, <3>3 DEF TxInv, Compatible, Stocking, InitialLine, NewLine
      <4> QED BY <3>3, <4>1 DEF CommitsOwnRows, ProductIn
    <3>4. ASSUME t.op \in Stocking, Prior(t.actor, t.requestId) = {}
          PROVE  \A m \in movements' : ~ (m.actor = t.actor /\ m.requestId = t.requestId)
      <4>1. own.op \in Stocking /\ own.actor = t.actor => own.requestId # t.requestId
        BY <3>1, <3>2, <3>4 DEF TxInv, Compatible
      <4> QED BY <3>4, <4>1 DEF CommitsOwnRows, Prior
    <3>5. Written(t) => Written(t)'
      BY <2>2, <3>3, <3>4, SameRowsSameWrites
    <3> QED BY <2>5, <3>5
  <2>6. tx'[g] = t
    OBVIOUS
  <2> QED BY <1>1, <1>4, <1>6, <2>1, <2>3, <2>4, <2>5, <2>6 DEF TxOK
<1> QED BY <1>5, <1>6

LEMMA CommitFrame ==
    ASSUME TxInv, NEW h \in Handlers, pc(h) = "written", CommitsOwnRows(h), End(h),
           intents' = intents, revocations' \in [Workspaces -> [Users -> Nat]],
           [Next]_vars, IntentsOK', RevocationsCounted'
    PROVE  TxInv'
<1>1. IInv'
  BY IInvInductive DEF TxInv
<1>2. /\ tx' \in [Handlers -> Transaction \union {Idle}]
      /\ ~Running(h)'
      /\ \A g \in Handlers \ {h} : tx'[g] = tx[g]
      /\ wsLock' \in [Workspaces -> Handlers \union {Free}]
      /\ \A g \in Handlers \ {h}, w \in Workspaces : wsLock[w] = g => wsLock'[w] = g
  BY EndFacts DEF TxInv
<1>3. TxTypes'
  BY <1>2 DEF TxInv, TxTypes
<1>4. ASSUME NEW g \in Handlers, Running(g)'
      PROVE  TxOK(g)'
  <2>1. g # h /\ tx'[g] = tx[g] /\ Running(g)
    BY <1>2, <1>4 DEF Running
  <2> QED BY <1>2, <2>1, OthersKeepTheirs
<1>5. ASSUME NEW f \in Handlers, NEW g \in Handlers, f # g
      PROVE  Compatible(f, g)'
  <2>1. CASE f = h \/ g = h
    BY <1>2, <2>1 DEF Compatible, HasLine
  <2>2. CASE f # h /\ g # h
    BY <1>2, <1>5, <2>2 DEF TxInv, Compatible, HasLine, Running
  <2> QED BY <2>1, <2>2
<1> QED BY <1>1, <1>3, <1>4, <1>5 DEF TxInv

LEMMA CommitCreate ==
    ASSUME TxInv, NEW h \in Handlers, CommitStock(h), tx[h].op = "create"
    PROVE  Next /\ CommitsOwnRows(h)
<1> DEFINE t == tx[h]
           line == t.line
<1>1. /\ pc(h) = "written" /\ t.op = "create" /\ UNCHANGED barVars
      /\ movements' = movements \union {line}
      /\ product' = [product EXCEPT ![line.product] =
            [workspace |-> t.workspace, quantity |-> line.afterQuantity,
             settings |-> t.body.settings, version |-> 0]]
  BY DEF CommitStock
<1>2. t \in Transaction /\ TxOK(h)
  BY <1>1, RunningByLabel
<1>3. /\ Requested(t) /\ Granted(t) /\ Written(t)
      /\ t.actor \in Users /\ t.workspace \in Workspaces /\ t.requestId \in RequestIds
  BY <1>1, <1>2 DEF TxOK, pc, Requested, Stocking, Transaction
<1>4. PICK p \in Products : product[p] = NoRow /\ line = InitialLine(t, p)
  BY <1>1, <1>3 DEF Written
<1>5. PICK amount \in Quantity, settings \in Settings, v \in Precondition :
          t.body = CreateIntent(t.workspace, amount, settings, v)
  BY <1>1, <1>3 DEF Requested, IsCreation
<1>6. /\ t.body.amount = amount /\ t.body.settings = settings
      /\ t.body.expectedAccessVersion = v
  BY <1>5 DEF CreateIntent
<1>7. Prior(t.actor, t.requestId) = {} /\ OwnerAuthorized(t.workspace, t.actor, v)
  BY <1>1, <1>3, <1>6 DEF Written, Granted, Stocking
<1>8. CreateProduct(t.actor, t.workspace, p, t.requestId, amount, settings, v)
  BY <1>1, <1>4, <1>5, <1>6, <1>7 DEF CreateProduct, InitialLine, NewLine
<1>9. Next
  BY <1>3, <1>8 DEF Next, StockStep
<1>10. CommitsOwnRows(h)
  BY <1>1, <1>4 DEF CommitsOwnRows, barVars, InitialLine, NewLine, Stocking, TxInv, IInv, TypeOK
<1> QED BY <1>9, <1>10

LEMMA CommitMove ==
    ASSUME TxInv, NEW h \in Handlers, CommitStock(h), tx[h].op = "move"
    PROVE  Next /\ CommitsOwnRows(h)
<1> DEFINE t == tx[h]
           line == t.line
<1>1. /\ pc(h) = "written" /\ t.op = "move" /\ UNCHANGED barVars
      /\ movements' = movements \union {line}
      /\ product' = [product EXCEPT ![line.product].quantity = line.afterQuantity,
                                    ![line.product].version = @ + 1]
  BY DEF CommitStock
<1>2. t \in Transaction /\ TxOK(h) /\ Running(h)
  BY <1>1, RunningByLabel
<1>3. /\ Requested(t) /\ Granted(t) /\ Written(t) /\ Seen(t)
      /\ t.actor \in Users /\ t.workspace \in Workspaces /\ t.requestId \in RequestIds
  BY <1>1, <1>2 DEF TxOK, pc, Requested, Stocking, Transaction
<1>4. PICK kind \in {"ADD", "REMOVE", "SET"}, p \in Products, amount \in Quantity,
           productV \in Precondition, v \in Precondition :
          t.body = MoveIntent(kind, t.workspace, p, amount, productV, v)
  BY <1>1, <1>3 DEF Requested, IsMove
<1>5. /\ t.body.amount = amount /\ t.body.kind = kind /\ t.body.product = p
      /\ t.body.expectedAccessVersion = v /\ t.body.expectedProductVersion = productV
  BY <1>4 DEF MoveIntent
<1>6. /\ product[p] \in Row /\ t.seen = product[p]
      /\ product[p].workspace = t.workspace /\ ProductIn(t.workspace, p)
  BY <1>1, <1>2, <1>3, <1>5, SeenFacts DEF Seen
<1>7. /\ Prior(t.actor, t.requestId) = {} /\ Authorized(t.workspace, t.actor, v)
      /\ VersionMatches(product[p].version, productV)
      /\ ValidChange(product[p].quantity, kind, amount)
      /\ HasCapacity(product[p].version)
      /\ line = MoveLine(t)
  BY <1>1, <1>3, <1>5, <1>6 DEF Written, Granted, Stocking
<1>8. /\ line = NewLine(t.actor, t.requestId, t.body, p, product[p].quantity,
                        After(product[p].quantity, kind, amount), product[p].version + 1)
      /\ line.product = p /\ line.afterQuantity = After(product[p].quantity, kind, amount)
  BY <1>5, <1>6, <1>7 DEF MoveLine, NewLine
<1>9. MoveStock(t.actor, t.workspace, p, t.requestId, kind, amount, productV, v)
  BY <1>1, <1>4, <1>6, <1>7, <1>8 DEF MoveStock, NewLine
<1>10. Next
  BY <1>3, <1>9 DEF Next, StockStep
<1>11. CommitsOwnRows(h)
  BY <1>1, <1>6, <1>8 DEF CommitsOwnRows, barVars, NewLine, Stocking, TxInv, IInv, TypeOK
<1> QED BY <1>10, <1>11

LEMMA CommitStockPreserves ==
    ASSUME TxInv, NEW h \in Handlers, CommitStock(h)
    PROVE  TxInv' /\ Next
<1>1. /\ pc(h) = "written" /\ End(h) /\ UNCHANGED <<barVars, intents, revocations>>
      /\ tx[h].op \in {"create", "move"}
  BY DEF CommitStock
<1>2. Next /\ CommitsOwnRows(h)
  BY <1>1, CommitCreate, CommitMove
<1>3. /\ revocations' \in [Workspaces -> [Users -> Nat]] /\ intents' = intents
      /\ IntentsOK' /\ RevocationsCounted'
  BY <1>1 DEF TxInv, TxTypes, IntentsOK, RevocationsCounted, barVars
<1> QED BY <1>1, <1>2, <1>3, CommitFrame

LEMMA CommitSettingsPreserves ==
    ASSUME TxInv, NEW h \in Handlers, CommitSettings(h)
    PROVE  TxInv' /\ Next
<1> DEFINE t == tx[h]
           p == t.body.product
<1>1. /\ pc(h) = "written" /\ t.op = "settings" /\ End(h)
      /\ UNCHANGED <<barVars, movements, intents, revocations>>
      /\ product' = [product EXCEPT ![p].settings = t.body.settings, ![p].version = @ + 1]
  BY DEF CommitSettings
<1>2. t \in Transaction /\ TxOK(h) /\ Running(h)
  BY <1>1, RunningByLabel
<1>3. /\ Requested(t) /\ Granted(t) /\ Written(t) /\ Seen(t)
      /\ t.actor \in Users /\ t.workspace \in Workspaces
      /\ t.body.settings \in Settings /\ t.body.expectedAccessVersion \in Precondition
      /\ t.body.expectedProductVersion \in Precondition
  BY <1>1, <1>2 DEF TxOK, pc, Requested, Transaction, Intent
<1>4. /\ p \in Products /\ product[p] \in Row /\ t.seen = product[p]
      /\ product[p].workspace = t.workspace /\ ProductIn(t.workspace, p)
  BY <1>1, <1>2, <1>3, SeenFacts DEF Seen
<1>5. /\ OwnerAuthorized(t.workspace, t.actor, t.body.expectedAccessVersion)
      /\ VersionMatches(product[p].version, t.body.expectedProductVersion)
      /\ t.body.settings # product[p].settings
      /\ HasCapacity(product[p].version)
  BY <1>1, <1>3, <1>4 DEF Written, Granted
<1>6. ChangeSettings(t.actor, t.workspace, p, t.body.settings,
                     t.body.expectedProductVersion, t.body.expectedAccessVersion)
  BY <1>1, <1>4, <1>5 DEF ChangeSettings
<1>7. Next
  BY <1>3, <1>4, <1>6 DEF Next, StockStep
<1>8. CommitsOwnRows(h)
  BY <1>1, <1>4 DEF CommitsOwnRows, barVars, TxInv, IInv, TypeOK
<1>9. /\ revocations' \in [Workspaces -> [Users -> Nat]] /\ intents' = intents
      /\ IntentsOK' /\ RevocationsCounted'
  BY <1>1 DEF TxInv, TxTypes, IntentsOK, RevocationsCounted, barVars
<1> QED BY <1>1, <1>7, <1>8, <1>9, CommitFrame

\* A change of the members leaves every intention of the Bar with a version of
\* the past, so the count of the revocations may move with it.
LEMMA CommitMembershipPreserves ==
    ASSUME TxInv, NEW h \in Handlers, CommitMembership(h)
    PROVE  TxInv' /\ Next
<1> DEFINE t == tx[h]
           w == t.workspace
           v == t.body.expectedAccessVersion
<1>1. /\ pc(h) = "written" /\ t.op \in {"add", "revoke"} /\ End(h)
      /\ UNCHANGED <<bar, inventoryVars, intents>>
      /\ member' = [member EXCEPT ![w][t.target] =
                      IF t.op = "add" THEN "MEMBER" ELSE "revoked"]
      /\ accessVersion' = [accessVersion EXCEPT ![w] = @ + 1]
      /\ revocations' = IF t.op = "add" THEN revocations
                        ELSE [revocations EXCEPT ![w][t.target] = @ + 1]
  BY DEF CommitMembership
<1>2. t \in Transaction /\ TxOK(h)
  BY <1>1, RunningByLabel
<1>3. Requested(t) /\ Granted(t) /\ Written(t)
  BY <1>1, <1>2 DEF TxOK, pc
<1>4. t.actor \in Users /\ w \in Workspaces /\ v \in Precondition /\ t.target \in Users
  BY <1>1, <1>2, <1>3 DEF Transaction, Intent, Requested
<1>5. OwnerAuthorized(w, t.actor, v) /\ HasCapacity(accessVersion[w])
  BY <1>1, <1>3 DEF Written, Granted
<1>6. AddMember(t.actor, w, t.target, v) \/ RevokeMember(t.actor, w, t.target, v)
  BY <1>1, <1>3, <1>5 DEF AddMember, RevokeMember, Written
<1>7. Next
  BY <1>1, <1>4, <1>6 DEF Next, MembershipStep, BarsNext
<1>8. \A x \in Workspaces : accessVersion[x] \in Nat
  BY DEF TxInv, IInv, TypeOK, BarsTypeOK, Version
<1>9. /\ accessVersion'[w] = accessVersion[w] + 1
      /\ \A x \in Workspaces \ {w} :
            /\ accessVersion'[x] = accessVersion[x] /\ member'[x] = member[x]
            /\ revocations'[x] = revocations[x]
  BY <1>1, <1>4 DEF TxInv, TxTypes, IInv, TypeOK, BarsTypeOK
<1>10. /\ revocations' \in [Workspaces -> [Users -> Nat]]
       /\ \A u \in Users : revocations'[w][u] <= revocations[w][u] + 1
  BY <1>1, <1>4 DEF TxInv, TxTypes
<1>11. CommitsOwnRows(h)
  BY <1>1, <1>9 DEF CommitsOwnRows, inventoryVars
<1>12. RevocationsCounted'
  BY <1>4, <1>8, <1>9, <1>10 DEF TxInv, TxTypes, RevocationsCounted
<1>13. IntentsOK'
  <2>1. SUFFICES ASSUME NEW i \in intents
                 PROVE  LET c == i.content
                        IN  /\ IsCreation(c, c.workspace) \/ IsMove(c, c.workspace)
                            /\ c.expectedAccessVersion \in Version
                            /\ c.expectedAccessVersion <= accessVersion'[c.workspace]
                            /\ c.expectedAccessVersion = accessVersion'[c.workspace]
                                  => i.era = revocations'[c.workspace][i.actor]
    BY <1>1 DEF IntentsOK
  <2> DEFINE c == i.content
  <2>2. /\ IsCreation(c, c.workspace) \/ IsMove(c, c.workspace)
        /\ c.expectedAccessVersion \in Version
        /\ c.expectedAccessVersion <= accessVersion[c.workspace]
        /\ c.expectedAccessVersion = accessVersion[c.workspace]
              => i.era = revocations[c.workspace][i.actor]
    BY DEF TxInv, IntentsOK
  <2>3. c.workspace \in Workspaces /\ c.expectedAccessVersion \in Nat
    BY <2>2 DEF TxInv, TxTypes, StockIntent, Intent, Version
  <2>4. CASE c.workspace = w
    BY <1>8, <1>9, <2>2, <2>3, <2>4
  <2>5. CASE c.workspace # w
    BY <1>9, <2>2, <2>3, <2>5
  <2> QED BY <2>4, <2>5
<1>14. intents' = intents
  BY <1>1
<1> QED BY <1>1, <1>7, <1>10, <1>11, <1>12, <1>13, <1>14, CommitFrame
-----------------------------------------------------------------------------
(* The theorems. *)

LEMMA TxInitOK == TxInit => TxInv
<1> SUFFICES ASSUME TxInit PROVE TxInv
  OBVIOUS
<1>1. IInv
  BY InitIInv DEF TxInit
<1>2. TxTypes /\ IntentsOK /\ RevocationsCounted
  <2>1. TxTypes
    BY DEF TxInit, TxTypes
  <2>2. IntentsOK
    BY DEF TxInit, IntentsOK
  <2>3. RevocationsCounted
    BY DEF TxInit, RevocationsCounted, Init, BarsInit
  <2> QED BY <2>1, <2>2, <2>3
<1>3. \A h \in Handlers : ~Running(h)
  BY DEF TxInit, Running
<1> QED BY <1>1, <1>2, <1>3 DEF TxInv, Compatible, HasLine

\* Every step keeps the invariant and is a step of Inventory, or none of it.
LEMMA TxStepOK ==
    ASSUME TxInv, [TxNext]_allVars
    PROVE  TxInv' /\ [Next]_vars
<1>1. CASE UNCHANGED allVars
  <2>1. UNCHANGED vars /\ intents' = intents /\ tx' = tx /\ wsLock' = wsLock
        /\ revocations' = revocations
    BY <1>1 DEF allVars, txVars
  <2>2. IInv' /\ TxTypes' /\ IntentsOK' /\ RevocationsCounted'
    BY <2>1, IInvInductive DEF TxInv, TxTypes, IntentsOK, RevocationsCounted, vars
  <2>3. ASSUME NEW h \in Handlers, Running(h)'
        PROVE  TxOK(h)'
    <3>1. TxOK(h) /\ tx'[h] = tx[h]
      BY <2>1, <2>3 DEF TxInv, Running
    <3>2. /\ Requested(tx[h])'
          /\ Granted(tx[h]) => Granted(tx[h])'
          /\ Seen(tx[h]) => Seen(tx[h])'
          /\ Written(tx[h]) => Written(tx[h])'
      BY <2>1, <3>1, TablesDecide DEF TxOK
    <3> QED BY <2>1, <3>1, <3>2 DEF TxOK
  <2>4. \A g, h \in Handlers : g # h => Compatible(g, h)'
    BY <2>1 DEF TxInv, Compatible, HasLine, Running
  <2> QED BY <2>1, <2>2, <2>3, <2>4 DEF TxInv
<1>2. CASE Client
  <2>1. PICK u \in Users :
            \/ \E r \in RequestIds, w \in Workspaces, amount \in Amounts :
                  \/ \E settings \in Settings : FormCreate(u, r, w, amount, settings)
                  \/ \E p \in Products, kind \in {"ADD", "REMOVE", "SET"} :
                        FormMove(u, r, w, p, kind, amount)
            \/ \E w \in Workspaces, r \in BarRequestIds, payload \in BarPayloads :
                  OpenBar(u, w, r, payload)
    BY <1>2 DEF Client
  <2>2. ASSUME NEW r \in RequestIds, NEW w \in Workspaces, NEW amount \in Amounts,
               \/ \E settings \in Settings : FormCreate(u, r, w, amount, settings)
               \/ \E p \in Products, kind \in {"ADD", "REMOVE", "SET"} :
                     FormMove(u, r, w, p, kind, amount)
        PROVE  TxInv' /\ [Next]_vars
    <3>1. UNCHANGED vars
      BY <2>2 DEF FormCreate, FormMove, FormIntent
    <3> QED BY <2>2, <3>1, FormPreserves
  <2>3. ASSUME NEW w \in Workspaces, NEW r \in BarRequestIds, NEW payload \in BarPayloads,
               OpenBar(u, w, r, payload)
        PROVE  TxInv' /\ [Next]_vars
    BY <2>3, OpenBarPreserves
  <2> QED BY <2>1, <2>2, <2>3
<1>3. ASSUME NEW h \in Handlers, Arrival(h)
      PROVE  TxInv' /\ [Next]_vars
  <2>1. UNCHANGED vars
    BY <1>3 DEF Arrival, SendIntent, SendSettings, SendMembership, Open
  <2>2. TxInv'
    BY <1>3, SendIntentPreserves, SendSettingsPreserves, SendMembershipPreserves DEF Arrival
  <2> QED BY <2>1, <2>2
<1>4. ASSUME NEW h \in Handlers, Statement(h)
      PROVE  TxInv' /\ [Next]_vars
  <2>1. CASE CommitStock(h) \/ CommitSettings(h) \/ CommitMembership(h)
    BY <2>1, CommitStockPreserves, CommitSettingsPreserves, CommitMembershipPreserves
  <2>2. CASE CheckAccess(h) \/ LoadProduct(h) \/ CheckPrior(h)
             \/ WriteSettings(h) \/ WriteMembership(h)
    <3>1. UNCHANGED vars
      BY <2>2 DEF CheckAccess, LoadProduct, CheckPrior, WriteSettings, WriteMembership
    <3> QED BY <2>2, <3>1, CheckAccessPreserves, LoadProductPreserves, CheckPriorPreserves,
               WriteSettingsPreserves, WriteMembershipPreserves
  <2> QED BY <1>4, <2>1, <2>2 DEF Statement
<1>5. ASSUME NEW h \in Handlers, Waiting(h) \/ Rollback(h)
      PROVE  TxInv' /\ [Next]_vars
  <2>1. UNCHANGED vars
    BY <1>5 DEF Waiting, LockWorkspace, WriteCreate, WriteMove, Rollback
  <2> QED BY <1>5, <2>1, LockWorkspacePreserves, WriteCreatePreserves, WriteMovePreserves,
             RollbackPreserves DEF Waiting
<1> QED BY <1>1, <1>2, <1>3, <1>4, <1>5 DEF TxNext

\* What a handler read under the lock of its workspace row stays what the tables
\* say until it ends, in every reachable state of the concurrent transactions.
THEOREM TransactionsInvariant == TxSpec => []TxInv
<1>1. TxInv /\ [TxNext]_allVars => TxInv'
  BY TxStepOK
<1> QED BY TxInitOK, <1>1, PTL DEF TxSpec

\* Serializability: the transactions, interleaved statement by statement, commit
\* exactly the atomic steps of InventoryService that Inventory describes.
THEOREM TransactionsImplementInventory == TxSpec => ImplementsInventory
<1>1. TxInit => Init
  BY DEF TxInit
<1>2. TxInv /\ [TxNext]_allVars => [Next]_vars
  BY TxStepOK
<1> QED BY TransactionsInvariant, <1>1, <1>2, PTL DEF TxSpec, ImplementsInventory, Spec

\* The ledger, under any interleaving of handlers: it explains the counter, and a
\* retried, duplicated or raced intention writes one line.
THEOREM ConcurrentLedgerCorrect ==
    TxSpec => [](LedgerExplainsCounter /\ OneMovementPerIntention /\ LineHonoursIntention)
<1>1. IInv => LedgerExplainsCounter /\ OneMovementPerIntention /\ LineHonoursIntention
  BY DEF IInv, StockInv
<1> QED BY TransactionsImplementInventory, InventoryInvariant, <1>1, PTL DEF ImplementsInventory

\* The line a commit adds is the one its transaction had written, on the access
\* version that is current.
LEMMA CommittedLine ==
    ASSUME TxInv, TxNext, NEW m \in movements' \ movements
    PROVE  \E h \in Handlers :
              /\ CommitStock(h) /\ Running(h) /\ TxOK(h) /\ pc(h) = "written"
              /\ tx[h].op \in Stocking /\ m = tx[h].line
<1>1. PICK h \in Handlers : CommitStock(h)
  <2>1. ~Client
    BY DEF Client, FormCreate, FormMove, FormIntent, OpenBar, inventoryVars, vars
  <2>2. \A h \in Handlers : ~Arrival(h) /\ ~Waiting(h) /\ ~Rollback(h)
    BY DEF Arrival, SendIntent, SendSettings, SendMembership, Open, Waiting, LockWorkspace,
           WriteCreate, WriteMove, Rollback, vars
  <2>3. \A h \in Handlers : Statement(h) => CommitStock(h)
    BY DEF Statement, CheckAccess, LoadProduct, CheckPrior, WriteSettings, WriteMembership,
           CommitSettings, CommitMembership, inventoryVars, vars
  <2> QED BY <2>1, <2>2, <2>3 DEF TxNext
<1>2. pc(h) = "written" /\ tx[h].op \in Stocking /\ m = tx[h].line
  BY <1>1 DEF CommitStock, Stocking
<1> QED BY <1>1, <1>2, RunningByLabel

\* The readmission fence, for every number of handlers, revocations and retries:
\* an intention formed before its author was revoked never becomes a movement.
THEOREM RevocationFencesIntentions == TxSpec => NoEffectAcrossRevocation
<1> DEFINE Fenced ==
        \A m \in movements' \ movements :
          \E i \in intents :
              /\ i.actor = m.actor
              /\ i.requestId = m.requestId
              /\ i.content = m.fingerprint
              /\ i.era = revocations[m.fingerprint.workspace][m.actor]
<1>1. ASSUME TxInv, TxNext, NEW m \in movements' \ movements
      PROVE  \E i \in intents :
                /\ i.actor = m.actor
                /\ i.requestId = m.requestId
                /\ i.content = m.fingerprint
                /\ i.era = revocations[m.fingerprint.workspace][m.actor]
  <2>1. PICK h \in Handlers : /\ Running(h) /\ TxOK(h) /\ pc(h) = "written"
                              /\ tx[h].op \in Stocking /\ m = tx[h].line
    BY <1>1, CommittedLine
  <2> DEFINE t == tx[h]
  <2>2. Requested(t) /\ Granted(t) /\ Written(t)
    BY <2>1 DEF TxOK, pc
  <2>3. m.actor = t.actor /\ m.requestId = t.requestId /\ m.fingerprint = t.body
    <3>1. /\ MoveLine(t).actor = t.actor /\ MoveLine(t).requestId = t.requestId
          /\ MoveLine(t).fingerprint = t.body
          /\ \A p : /\ InitialLine(t, p).actor = t.actor
                   /\ InitialLine(t, p).requestId = t.requestId
                   /\ InitialLine(t, p).fingerprint = t.body
      BY DEF InitialLine, MoveLine, NewLine
    <3> QED BY <2>1, <2>2, <3>1 DEF Written, Stocking
  <2>4. PICK i \in intents :
            i.actor = t.actor /\ i.requestId = t.requestId /\ i.content = t.body
    BY <2>1, <2>2 DEF Requested
  <2>5. t.body.workspace = t.workspace
    <3>1. IsCreation(t.body, t.workspace) \/ IsMove(t.body, t.workspace)
      BY <2>1, <2>2 DEF Requested, Stocking
    <3>2. IsCreation(t.body, t.workspace) => t.body.workspace = t.workspace
      BY DEF IsCreation, CreateIntent
    <3>3. IsMove(t.body, t.workspace) => t.body.workspace = t.workspace
      BY DEF IsMove, MoveIntent
    <3> QED BY <3>1, <3>2, <3>3
  <2>6. t.body.expectedAccessVersion = accessVersion[t.workspace]
    BY <2>2 DEF Granted, Authorized, OwnerAuthorized, VersionMatches
  <2>7. i.era = revocations[t.workspace][t.actor]
    BY <1>1, <2>4, <2>5, <2>6 DEF TxInv, IntentsOK
  <2> QED BY <2>3, <2>4, <2>5, <2>7
<1>2. TxInv /\ [TxNext]_allVars => [Fenced]_allVars
  BY <1>1
<1> QED BY TransactionsInvariant, <1>2, PTL DEF TxSpec, NoEffectAcrossRevocation

\* The type invariant of the transactions.
THEOREM TransactionTypes == TxSpec => []TxTypeOK
<1>1. TxInv => TxTypeOK
  <2> SUFFICES ASSUME TxInv PROVE TxTypeOK
    OBVIOUS
  <2>1. revocations \in [Workspaces -> [Users -> Version]]
    <3>1. accessVersion \in [Workspaces -> Version]
      BY DEF TxInv, IInv, TypeOK, BarsTypeOK
    <3>2. \A w \in Workspaces, u \in Users : revocations[w][u] \in Version
      BY <3>1, MaxVersionAssumption DEF TxInv, TxTypes, RevocationsCounted, Version
    <3> QED BY <3>2 DEF TxInv, TxTypes
  <2>2. \A h \in Handlers :
           pc(h) \in {"idle", "begun", "locked", "granted", "loaded", "fresh", "written"}
    BY DEF TxInv, TxTypes, Transaction, Labels, Idle, pc
  <2> QED BY <2>1, <2>2 DEF TxInv, TxTypes, IInv, TxTypeOK
<1> QED BY TransactionsInvariant, <1>1, PTL

-----------------------------------------------------------------------------
(***************************************************************************)
(* Waits.  A handler waits for another on two statements: the lock of its  *)
(* workspace row, and the insertion of a key that another transaction has  *)
(* inserted and not committed.  Whoever is waited for is further on, so    *)
(* waits never form a cycle, of whatever length.                           *)
(***************************************************************************)

\* A workspace row is held by the transaction of that Bar that locked it.
LockHeld ==
    \A w \in Workspaces :
        wsLock[w] # Free =>
            LET g == wsLock[w]
            IN  Running(g) /\ tx[g].pc # "begun" /\ tx[g].workspace = w

\* The next statement of h cannot complete before the transaction of g ends.
WaitsFor(h, g) ==
    /\ Running(h) /\ g # h
    /\ \/ pc(h) = "begun" /\ wsLock[tx[h].workspace] = g
       \/ /\ pc(h) = "fresh"
          /\ pc(g) = "written"
          /\ tx[g].line # NoRow
          /\ tx[g].actor = tx[h].actor
          /\ tx[g].requestId = tx[h].requestId

\* How many waits a transaction may still meet.
WaitsLeft(h) == IF pc(h) = "begun" THEN 2 ELSE IF pc(h) = "fresh" THEN 1 ELSE 0

WaitsDescend ==
    \A h, g \in Handlers : WaitsFor(h, g) => Running(g) /\ WaitsLeft(g) < WaitsLeft(h)

\* The next statement of h finds the row it locks and the key it inserts free.
Unblocked(h) ==
    /\ pc(h) = "begun" => wsLock[tx[h].workspace] = Free
    /\ pc(h) = "fresh" => ~KeyInFlight(h)

\* As long as a transaction is open, the next statement of one is not blocked.
SomeoneProceeds ==
    (\E h \in Handlers : Running(h)) => \E h \in Handlers : Running(h) /\ Unblocked(h)

LEMMA EndReleases ==
    ASSUME TxInv, LockHeld, NEW h \in Handlers, End(h)
    PROVE  LockHeld'
<1> SUFFICES ASSUME NEW w \in Workspaces, wsLock'[w] # Free
             PROVE  LET g == wsLock'[w]
                    IN  tx'[g] # Idle /\ tx'[g].pc # "begun" /\ tx'[g].workspace = w
  BY DEF LockHeld, Running
<1>1. wsLock[w] \in Handlers \ {h} /\ wsLock'[w] = wsLock[w]
  BY DEF End, TxInv, TxTypes
<1>2. tx'[wsLock[w]] = tx[wsLock[w]]
  BY <1>1, EndFacts DEF TxInv
<1> QED BY <1>1, <1>2 DEF LockHeld, Running

\* A transaction that goes on keeps its locks, and none is back at its beginning.
LEMMA GoingOnHolds ==
    ASSUME TxInv, LockHeld, NEW h \in Handlers, Running(h), UNCHANGED wsLock,
           tx'[h] # Idle, tx'[h].pc # "begun", tx'[h].workspace = tx[h].workspace,
           \A g \in Handlers \ {h} : tx'[g] = tx[g]
    PROVE  LockHeld'
<1> SUFFICES ASSUME NEW w \in Workspaces, wsLock[w] # Free
             PROVE  LET g == wsLock[w]
                    IN  tx'[g] # Idle /\ tx'[g].pc # "begun" /\ tx'[g].workspace = w
  BY DEF LockHeld, Running
<1>1. wsLock[w] \in Handlers
  BY DEF TxInv, TxTypes
<1> QED BY <1>1 DEF LockHeld, Running

\* Setting a label other than the first.
LEMMA GotoHolds ==
    ASSUME TxInv, LockHeld, NEW h \in Handlers, pc(h) # "idle", UNCHANGED wsLock,
           tx'[h].pc \in Labels \ {"begun"}, tx'[h].workspace = tx[h].workspace,
           \A g \in Handlers \ {h} : tx'[g] = tx[g]
    PROVE  LockHeld'
<1>1. Running(h)
  BY RunningByLabel
<1>2. Idle.pc = "idle" /\ "idle" \notin Labels
  BY DEF Idle, Labels
<1>3. tx'[h] # Idle /\ tx'[h].pc # "begun"
  BY <1>2
<1> QED BY <1>1, <1>3, GoingOnHolds

LEMMA LockHeldKept ==
    ASSUME TxInv, LockHeld, [TxNext]_allVars
    PROVE  LockHeld'
<1>1. CASE tx' = tx /\ wsLock' = wsLock
  BY <1>1 DEF LockHeld, Running
<1>2. ASSUME NEW h \in Handlers, Arrival(h)
      PROVE  LockHeld'
  <2>1. ~Running(h) /\ UNCHANGED wsLock /\ \A g \in Handlers \ {h} : tx'[g] = tx[g]
    BY <1>2, RunningByLabel
       DEF Arrival, SendIntent, SendSettings, SendMembership, Open, TxInv, TxTypes,
           Running, pc, Transaction, Labels, Idle
  <2>2. \A w \in Workspaces : wsLock[w] \in Handlers \union {Free}
    BY DEF TxInv, TxTypes
  <2> QED BY <2>1, <2>2 DEF LockHeld, Running
<1>3. ASSUME NEW h \in Handlers, Statement(h) \/ WriteCreate(h) \/ WriteMove(h) \/ Rollback(h)
      PROVE  LockHeld'
  <2>1. CASE End(h)
    BY <2>1, EndReleases
  <2>2. CASE ~End(h)
    <3>1. tx \in [Handlers -> Transaction \union {Idle}] /\ pc(h) # "idle"
      BY <1>3 DEF TxInv, TxTypes, Statement, CheckAccess, LoadProduct, CheckPrior, WriteSettings,
          WriteMembership, CommitStock, CommitSettings, CommitMembership, WriteCreate,
          WriteMove, Rollback
    <3>2. tx[h] \in Transaction
      BY <3>1, RunningByLabel
    <3>3. /\ UNCHANGED wsLock
          /\ \/ \E label \in {"granted", "fresh", "written"} : Goto(h, label)
             \/ \E row : tx' = [tx EXCEPT ![h].pc = "loaded", ![h].seen = row]
             \/ \E line : tx' = [tx EXCEPT ![h].pc = "written", ![h].line = line]
      BY <1>3, <2>2 DEF Statement, CheckAccess, LoadProduct, CheckPrior, WriteSettings,
          WriteMembership, CommitStock, CommitSettings, CommitMembership, WriteCreate,
          WriteMove, Rollback, Insert
    <3>4. \A g \in Handlers \ {h} : tx'[g] = tx[g]
      BY <3>1, <3>3 DEF Goto
    <3>5. CASE \E label \in {"granted", "fresh", "written"} : Goto(h, label)
      <4>1. PICK label \in {"granted", "fresh", "written"} : Goto(h, label)
        BY <3>5
      <4>2. tx'[h] = [tx[h] EXCEPT !.pc = label, !.seen = tx[h].seen, !.line = tx[h].line]
        BY <3>1, <3>2, <4>1 DEF Goto, Transaction
      <4>3. tx'[h].pc \in Labels \ {"begun"} /\ tx'[h].workspace = tx[h].workspace
        BY <3>2, <4>2 DEF Transaction, Labels
      <4> QED BY <3>1, <3>3, <3>4, <4>3, GotoHolds
    <3>6. CASE \E row : tx' = [tx EXCEPT ![h].pc = "loaded", ![h].seen = row]
      <4>1. PICK row : tx' = [tx EXCEPT ![h].pc = "loaded", ![h].seen = row]
        BY <3>6
      <4>2. tx'[h] = [tx[h] EXCEPT !.pc = "loaded", !.seen = row, !.line = tx[h].line]
        BY <3>1, <3>2, <4>1 DEF Transaction
      <4>3. tx'[h].pc \in Labels \ {"begun"} /\ tx'[h].workspace = tx[h].workspace
        BY <3>2, <4>2 DEF Transaction, Labels
      <4> QED BY <3>1, <3>3, <3>4, <4>3, GotoHolds
    <3>7. CASE \E line : tx' = [tx EXCEPT ![h].pc = "written", ![h].line = line]
      <4>1. PICK line : tx' = [tx EXCEPT ![h].pc = "written", ![h].line = line]
        BY <3>7
      <4>2. tx'[h] = [tx[h] EXCEPT !.pc = "written", !.seen = tx[h].seen, !.line = line]
        BY <3>1, <3>2, <4>1 DEF Transaction
      <4>3. tx'[h].pc \in Labels \ {"begun"} /\ tx'[h].workspace = tx[h].workspace
        BY <3>2, <4>2 DEF Transaction, Labels
      <4> QED BY <3>1, <3>3, <3>4, <4>3, GotoHolds
    <3> QED BY <3>3, <3>5, <3>6, <3>7
  <2> QED BY <2>1, <2>2
<1>4. ASSUME NEW h \in Handlers, LockWorkspace(h)
      PROVE  LockHeld'
  <2>1. tx \in [Handlers -> Transaction \union {Idle}] /\ tx[h] \in Transaction
        /\ wsLock \in [Workspaces -> Handlers \union {Free}]
    BY <1>4, RunningByLabel DEF LockWorkspace, TxInv, TxTypes
  <2>2. /\ tx'[h].pc = "locked" /\ tx'[h].workspace = tx[h].workspace
        /\ \A g \in Handlers \ {h} : tx'[g] = tx[g]
    BY <1>4, <2>1 DEF LockWorkspace, Goto, Transaction
  <2>3. tx'[h] # Idle
    BY <2>2 DEF Idle
  <2>4. ~\E w \in Workspaces : wsLock[w] = h
    BY <1>4, FreeAssumption DEF LockHeld, LockWorkspace, pc
  <2>5. \A w \in Workspaces :
           wsLock'[w] = IF w = tx[h].workspace THEN h ELSE wsLock[w]
    BY <1>4, <2>1 DEF LockWorkspace
  <2> QED BY <2>1, <2>2, <2>3, <2>4, <2>5 DEF LockHeld, Running
<1>5. ASSUME Client PROVE tx' = tx /\ wsLock' = wsLock
  BY <1>5 DEF Client, FormCreate, FormMove, FormIntent, OpenBar, txVars
<1>6. UNCHANGED allVars => tx' = tx /\ wsLock' = wsLock
  BY DEF allVars, txVars
<1> QED BY <1>1, <1>2, <1>3, <1>4, <1>5, <1>6 DEF TxNext, Waiting

\* Whoever is waited for is further on in its transaction than who waits.
LEMMA WaitedForIsFurther == TxInv /\ LockHeld => WaitsDescend
<1> SUFFICES ASSUME TxInv, LockHeld, NEW h \in Handlers, NEW g \in Handlers, WaitsFor(h, g)
             PROVE  Running(g) /\ WaitsLeft(g) < WaitsLeft(h)
  BY DEF WaitsDescend
<1>1. CASE pc(h) = "begun"
  <2>1. tx[h].workspace \in Workspaces
    BY <1>1, RunningByLabel
  <2>2. wsLock[tx[h].workspace] = g /\ g # Free
    BY <1>1, FreeAssumption DEF WaitsFor
  <2>3. Running(g) /\ pc(g) # "begun"
    BY <2>1, <2>2 DEF LockHeld, pc
  <2> QED BY <1>1, <2>3 DEF WaitsLeft
<1>2. CASE pc(h) # "begun"
  <2>1. pc(h) = "fresh" /\ pc(g) = "written"
    BY <1>2 DEF WaitsFor
  <2> QED BY <2>1, RunningByLabel DEF WaitsLeft
<1> QED BY <1>1, <1>2

\* Who waits for nobody is not blocked.
LEMMA WaitingForNobody ==
    ASSUME TxInv, LockHeld, NEW h \in Handlers, Running(h), \A g \in Handlers : ~WaitsFor(h, g)
    PROVE  Unblocked(h)
<1>1. CASE pc(h) = "begun"
  <2>1. tx[h].workspace \in Workspaces
    BY <1>1, RunningByLabel
  <2>2. wsLock[tx[h].workspace] \in Handlers \union {Free}
    BY <2>1 DEF TxInv, TxTypes
  <2>3. wsLock[tx[h].workspace] # h
    BY <1>1, <2>1, FreeAssumption DEF LockHeld, pc
  <2> QED BY <1>1, <2>2, <2>3 DEF WaitsFor, Unblocked
<1>2. CASE pc(h) # "begun"
  BY <1>2 DEF WaitsFor, Unblocked, KeyInFlight
<1> QED BY <1>1, <1>2

\* Of the open transactions, one that may meet fewest waits meets none.
LEMMA DescentLeavesSomeone == TxInv /\ LockHeld /\ WaitsDescend => SomeoneProceeds
<1> SUFFICES ASSUME TxInv, LockHeld, WaitsDescend, NEW h \in Handlers, Running(h)
             PROVE  \E k \in Handlers : Running(k) /\ \A g \in Handlers : ~WaitsFor(k, g)
  BY WaitingForNobody DEF SomeoneProceeds
<1>1. \A k \in Handlers : WaitsLeft(k) \in 0..2
  BY DEF WaitsLeft
<1>2. ASSUME NEW k \in Handlers, Running(k), WaitsLeft(k) = 0
      PROVE  \A g \in Handlers : ~WaitsFor(k, g)
  BY <1>1, <1>2 DEF WaitsDescend
<1>3. ASSUME NEW k \in Handlers, Running(k), WaitsLeft(k) = 1
      PROVE  \E j \in Handlers : Running(j) /\ \A g \in Handlers : ~WaitsFor(j, g)
  <2>1. CASE \A g \in Handlers : ~WaitsFor(k, g)
    BY <1>3, <2>1
  <2>2. CASE \E g \in Handlers : WaitsFor(k, g)
    <3>1. PICK g \in Handlers : WaitsFor(k, g)
      BY <2>2
    <3>2. Running(g) /\ WaitsLeft(g) = 0
      BY <1>1, <1>3, <3>1 DEF WaitsDescend
    <3> QED BY <1>2, <3>2
  <2> QED BY <2>1, <2>2
<1>4. CASE \A g \in Handlers : ~WaitsFor(h, g)
  BY <1>4
<1>5. CASE \E g \in Handlers : WaitsFor(h, g)
  <2>1. PICK g \in Handlers : WaitsFor(h, g)
    BY <1>5
  <2>2. Running(g) /\ WaitsLeft(g) \in {0, 1}
    BY <1>1, <2>1 DEF WaitsDescend
  <2> QED BY <1>2, <1>3, <2>2
<1> QED BY <1>4, <1>5

\* Deadlock freedom of InventoryService: whatever handlers wait for the rows of
\* Bars and for the keys of movements, each waits for one that is further on,
\* and as long as a transaction is open, the next statement of one is not blocked.
THEOREM TransactionsNeverDeadlock == TxSpec => [](WaitsDescend /\ SomeoneProceeds)
<1>1. TxInit => LockHeld
  BY DEF TxInit, LockHeld
<1>2. TxInv /\ LockHeld /\ [TxNext]_allVars => LockHeld'
  BY LockHeldKept
<1>3. TxInv /\ LockHeld => WaitsDescend /\ SomeoneProceeds
  BY WaitedForIsFurther, DescentLeavesSomeone
<1> QED BY TransactionsInvariant, <1>1, <1>2, <1>3, PTL DEF TxSpec
=============================================================================
