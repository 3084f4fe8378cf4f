-------------------------- MODULE InventoryProofs ---------------------------
(***************************************************************************)
(* Proofs about Bars and Inventory, for every set of accounts, Bars,       *)
(* products and intentions and every capacity: ownership, creation         *)
(* intentions and access versions that date the membership; the ledger     *)
(* explains the counter, and an intention is applied at most once.         *)
(***************************************************************************)
EXTENDS Inventory, TLAPS

-----------------------------------------------------------------------------
(* Bars. *)

\* What creating a Bar leaves true: types, ownership, one Bar per intention.
LEMMA CreateBarPreserves ==
    ASSUME BarsTypeOK, BarsInv,
           NEW u \in Users, NEW w \in Workspaces, NEW r \in BarRequestIds,
           NEW payload \in BarPayloads,
           CreateBar(u, w, r, payload)
    PROVE  BarsTypeOK' /\ BarsInv'
<1> DEFINE row == [actor |-> u, requestId |-> r, fingerprint |-> payload]
<1>1. row \in Creation /\ row # NoRow
  BY NoRowIsNoCreation DEF Creation
<1>2. BarsTypeOK'
  BY <1>1 DEF CreateBar, BarsTypeOK, MembershipStatus
<1>3. OwnerIsCreator'
  <2>1. SUFFICES ASSUME NEW w2 \in Workspaces, NEW u2 \in Users
                 PROVE  /\ IsOwner(w2, u2)' <=> bar'[w2] # NoRow /\ bar'[w2].actor = u2
                        /\ bar'[w2] = NoRow => member'[w2][u2] = "none"
    BY DEF OwnerIsCreator
  <2>2. CASE w2 = w
    BY <1>1, <2>2 DEF CreateBar, BarsTypeOK, BarsInv, OwnerIsCreator, IsOwner
  <2>3. CASE w2 # w
    BY <2>3 DEF CreateBar, BarsTypeOK, BarsInv, OwnerIsCreator, IsOwner
  <2> QED BY <2>2, <2>3
<1>4. OneBarPerIntention'
  BY <1>1 DEF CreateBar, CreatedBy, BarsTypeOK, BarsInv, OneBarPerIntention
<1> QED BY <1>2, <1>3, <1>4 DEF BarsInv

\* What adding or revoking a member leaves true: the owner's row is out of
\* reach of both, so ownership stays where the creation put it.
LEMMA MembershipChangePreserves ==
    ASSUME BarsTypeOK, BarsInv,
           NEW u \in Users, NEW w \in Workspaces, NEW target \in Users,
           NEW v \in Precondition,
           AddMember(u, w, target, v) \/ RevokeMember(u, w, target, v)
    PROVE  BarsTypeOK' /\ BarsInv'
<1>1. accessVersion[w] \in Version /\ accessVersion[w] + 1 \in Version
  BY MaxVersionAssumption
  DEF AddMember, RevokeMember, BarsTypeOK, HasCapacity, Version
<1>2. BarsTypeOK'
  <2>1. CASE AddMember(u, w, target, v)
    BY <1>1, <2>1 DEF AddMember, BarsTypeOK, MembershipStatus
  <2>2. CASE RevokeMember(u, w, target, v)
    BY <1>1, <2>2 DEF RevokeMember, BarsTypeOK, MembershipStatus
  <2> QED BY <2>1, <2>2
<1>3. OwnerIsCreator'
  <2>1. SUFFICES ASSUME NEW w2 \in Workspaces, NEW u2 \in Users
                 PROVE  /\ IsOwner(w2, u2)' <=> bar'[w2] # NoRow /\ bar'[w2].actor = u2
                        /\ bar'[w2] = NoRow => member'[w2][u2] = "none"
    BY DEF OwnerIsCreator
  <2>2. bar' = bar /\ bar[w] # NoRow
    BY DEF AddMember, RevokeMember, OwnerAuthorized, BarsInv, OwnerIsCreator
  <2>3. CASE w2 = w /\ u2 = target
    BY <2>2, <2>3
    DEF AddMember, RevokeMember, BarsTypeOK, BarsInv, OwnerIsCreator, IsOwner
  <2>4. CASE ~ (w2 = w /\ u2 = target)
    BY <2>2, <2>4
    DEF AddMember, RevokeMember, BarsTypeOK, BarsInv, OwnerIsCreator, IsOwner
  <2> QED BY <2>3, <2>4
<1>4. OneBarPerIntention'
  BY DEF AddMember, RevokeMember, BarsInv, OneBarPerIntention
<1> QED BY <1>2, <1>3, <1>4 DEF BarsInv

\* The initial state, for the specifications that start from BarsInit.
LEMMA BarsInitOK == BarsInit => BarsTypeOK /\ BarsInv
<1>1. 0 \in Version
  BY MaxVersionAssumption DEF Version
<1> QED
  BY <1>1 DEF BarsInit, BarsTypeOK, BarsInv, OwnerIsCreator, OneBarPerIntention,
              IsOwner, MembershipStatus

\* The inductive step, for the specifications that compose BarsNext.
LEMMA BarsStepOK == BarsTypeOK /\ BarsInv /\ [BarsNext]_barVars => BarsTypeOK' /\ BarsInv'
<1> SUFFICES ASSUME BarsTypeOK, BarsInv, [BarsNext]_barVars
             PROVE  BarsTypeOK' /\ BarsInv'
  OBVIOUS
<1>1. CASE UNCHANGED barVars
  BY <1>1 DEF barVars, BarsTypeOK, BarsInv, OwnerIsCreator, OneBarPerIntention, IsOwner
<1>2. CASE BarsNext
  BY <1>2, CreateBarPreserves, MembershipChangePreserves DEF BarsNext
<1> QED BY <1>1, <1>2

\* Types, ownership and creation intentions hold in every reachable state.
THEOREM BarsSafe == BarsSpec => [](BarsTypeOK /\ OwnerIsCreator /\ OneBarPerIntention)
<1>1. BarsInit => BarsTypeOK /\ BarsInv
  BY BarsInitOK
<1>2. (BarsTypeOK /\ BarsInv) /\ [BarsNext]_barVars => (BarsTypeOK /\ BarsInv)'
  BY BarsStepOK
<1> QED BY <1>1, <1>2, PTL DEF BarsSpec, BarsInv

\* One step of BarsNext dates every change of membership.
LEMMA BarsStepDatesMembership ==
    ASSUME BarsTypeOK, BarsInv, [BarsNext]_barVars,
           NEW w \in Workspaces, bar[w] # NoRow
    PROVE  /\ bar'[w] = bar[w]
           /\ accessVersion'[w] \in accessVersion[w] .. MaxVersion
           /\ member'[w] # member[w] => accessVersion'[w] > accessVersion[w]
<1>1. accessVersion[w] \in 0 .. MaxVersion /\ accessVersion'[w] \in 0 .. MaxVersion /\ MaxVersion \in Nat
  BY BarsStepOK, MaxVersionAssumption DEF BarsTypeOK, Version
<1>2. CASE UNCHANGED barVars
  BY <1>1, <1>2 DEF barVars
<1>3. ASSUME NEW u \in Users, NEW w2 \in Workspaces, NEW r \in BarRequestIds,
             NEW payload \in BarPayloads, CreateBar(u, w2, r, payload)
      PROVE  bar'[w] = bar[w] /\ member'[w] = member[w]
                /\ accessVersion'[w] = accessVersion[w]
  BY <1>3 DEF CreateBar, BarsTypeOK
<1>4. ASSUME NEW u \in Users, NEW w2 \in Workspaces, NEW target \in Users,
             NEW v \in Precondition,
             AddMember(u, w2, target, v) \/ RevokeMember(u, w2, target, v)
      PROVE  /\ bar'[w] = bar[w]
             /\ accessVersion'[w] \in accessVersion[w] .. MaxVersion
             /\ member'[w] # member[w] => accessVersion'[w] > accessVersion[w]
  BY <1>1, <1>4 DEF AddMember, RevokeMember, BarsTypeOK
<1> QED BY <1>1, <1>2, <1>3, <1>4 DEF BarsNext

\* Two reads of one access version saw the same members.
THEOREM BarsMembershipIsDated == BarsSpec => AccessVersionDatesMembership
<1>1. BarsTypeOK /\ BarsInv /\ [BarsNext]_barVars
        => [\A w \in Workspaces : bar[w] # NoRow =>
              /\ bar'[w] = bar[w]
              /\ accessVersion'[w] \in accessVersion[w] .. MaxVersion
              /\ member'[w] # member[w] => accessVersion'[w] > accessVersion[w]]_barVars
  BY BarsStepDatesMembership
<1> QED BY <1>1, BarsSafe, PTL DEF BarsSpec, BarsInv, AccessVersionDatesMembership

\* A creation intention of an account yields one Bar, however often it is sent.
THEOREM IntentionsCreateOneBar == BarsSpec => []OneBarPerIntention
BY BarsSafe, PTL
-----------------------------------------------------------------------------
(* Products and their ledger. *)

IInv == TypeOK /\ BarsInv /\ StockInv

\* The line and the row a transaction writes, named for the proofs.
NewLine(u, r, intent, p, before, after, version) ==
    [actor |-> u, requestId |-> r, fingerprint |-> intent, product |-> p,
     beforeQuantity |-> before, afterQuantity |-> after, productVersion |-> version]

\* The arithmetic heart of both writing transactions: appending a line above
\* every line of its product keeps the ledger well formed.
LEMMA AppendKeepsUniqueness ==
    ASSUME TypeOK, StockInv, NEW line \in Movement,
           movements' = movements \union {line},
           Prior(line.actor, line.requestId) = {},
           \A m \in LedgerOf(line.product) : m.productVersion < line.productVersion
    PROVE  OneMovementPerIntention' /\ OneMovementPerVersion'
<1>1. \A m \in movements : m.productVersion \in Nat
  BY DEF TypeOK, Movement, Version
<1>2. OneMovementPerIntention'
  BY DEF StockInv, OneMovementPerIntention, Prior
<1>3. OneMovementPerVersion'
  <2>1. SUFFICES ASSUME NEW m \in movements', NEW n \in movements',
                        m.product = n.product, m.productVersion = n.productVersion
                 PROVE  m = n
    BY DEF OneMovementPerVersion
  <2>2. CASE m \in movements /\ n \in movements
    BY <2>1, <2>2 DEF StockInv, OneMovementPerVersion
  <2>3. CASE m = line /\ n = line
    BY <2>3
  <2>4. CASE m = line /\ n \in movements
    BY <1>1, <2>1, <2>4 DEF LedgerOf
  <2>5. CASE m \in movements /\ n = line
    BY <1>1, <2>1, <2>5 DEF LedgerOf
  <2> QED BY <2>2, <2>3, <2>4, <2>5
<1> QED BY <1>2, <1>3

\* An older line keeps its predecessor when a line is appended above it.
LEMMA AppendKeepsPredecessors ==
    ASSUME TypeOK, StockInv, NEW line \in Movement,
           movements' = movements \union {line},
           \A x \in LedgerOf(line.product) : x.productVersion < line.productVersion,
           NEW m \in movements, NEW n \in movements, Follows(m, n)
    PROVE  Follows(m, n)'
<1>1. \A x \in movements' : x.productVersion \in Nat
  BY DEF TypeOK, Movement, Version
<1> QED
  BY <1>1 DEF Follows, LedgerOf

\* Creating a product opens its ledger with the INITIAL line.
LEMMA CreateProductPreserves ==
    ASSUME IInv,
           NEW u \in Users, NEW w \in Workspaces, NEW p \in Products,
           NEW r \in RequestIds, NEW amount \in Quantity, NEW settings \in Settings,
           NEW accessV \in Precondition,
           CreateProduct(u, w, p, r, amount, settings, accessV)
    PROVE  TypeOK' /\ StockInv'
<1> DEFINE intent == CreateIntent(w, amount, settings, accessV)
           line == NewLine(u, r, intent, p, 0, amount, 0)
           row == [workspace |-> w, quantity |-> amount, settings |-> settings,
                   version |-> 0]
<1>1. 0 \in Version /\ 0 \in Quantity
  BY MaxVersionAssumption, MaxQuantityAssumption DEF Version, Quantity
<1>2. intent \in Intent /\ line \in Movement /\ row \in Row
  BY <1>1 DEF CreateIntent, Intent, NewLine, Movement, Row, Precondition
<1>3. movements' = movements \union {line} /\ product' = [product EXCEPT ![p] = row]
  BY DEF CreateProduct, NewLine
<1>4. TypeOK'
  BY <1>2, <1>3 DEF CreateProduct, IInv, TypeOK, BarsTypeOK, barVars
<1>5. LedgerOf(p) = {} /\ product[p] = NoRow
  BY DEF IInv, StockInv, LedgerExplainsCounter, LedgerOf, CreateProduct
<1>6. OneMovementPerIntention' /\ OneMovementPerVersion'
  <2>1. line.actor = u /\ line.requestId = r /\ line.product = p
    BY DEF NewLine
  <2> QED
    BY <1>2, <1>3, <1>5, <2>1, AppendKeepsUniqueness DEF IInv, CreateProduct
<1>7. LineHonoursIntention'
  <2>1. line.fingerprint.kind = "INITIAL"
    BY DEF NewLine, CreateIntent
  <2> QED BY <1>3, <2>1 DEF IInv, StockInv, LineHonoursIntention
<1>8. LedgerExplainsCounter'
  <2>1. \A m \in movements : m.product # p /\ m.product \in Products
    BY <1>5 DEF LedgerOf, IInv, TypeOK, Movement
  <2>2. product'[p] = row /\ row # NoRow /\ (\A q \in Products \ {p} : product'[q] = product[q])
    BY <1>2, <1>3, NoRowIsNoProduct DEF IInv, TypeOK
  <2>3. ASSUME NEW q \in Products, product'[q] # NoRow
        PROVE  \E m \in LedgerOf(q)' : IsLatest(m)' /\ m.afterQuantity = product'[q].quantity
    <3>1. CASE q = p
      <4>1. LedgerOf(p)' = {line}
        BY <1>3, <2>1 DEF LedgerOf, NewLine
      <4> QED
        BY <2>2, <3>1, <4>1 DEF IsLatest, NewLine
    <3>2. CASE q # p
      <4>1. LedgerOf(q)' = LedgerOf(q)
        BY <1>3, <3>2 DEF LedgerOf, NewLine
      <4>2. PICK m \in LedgerOf(q) : IsLatest(m) /\ m.afterQuantity = product[q].quantity
        BY <2>2, <2>3, <3>2 DEF IInv, StockInv, LedgerExplainsCounter
      <4>3. m.product = q
        BY DEF LedgerOf
      <4> QED
        BY <2>2, <3>2, <4>1, <4>2, <4>3 DEF IsLatest
    <3> QED BY <3>1, <3>2
  <2>4. ASSUME NEW m \in movements'
        PROVE  /\ product'[m.product] # NoRow
               /\ m.fingerprint.workspace = product'[m.product].workspace
               /\ m.productVersion <= product'[m.product].version
               /\ m.productVersion = 0 <=> m.fingerprint.kind = "INITIAL"
               /\ m.productVersion = 0 => m.beforeQuantity = 0
               /\ m.productVersion # 0 =>
                     \E n \in movements' :
                         Follows(m, n)' /\ n.afterQuantity = m.beforeQuantity
    <3>1. CASE m = line
      BY <2>2, <3>1 DEF NewLine, CreateIntent
    <3>2. CASE m \in movements
      <4>1. product'[m.product] = product[m.product]
        BY <2>1, <2>2, <3>2
      <4>2. \A x \in LedgerOf(line.product) : x.productVersion < line.productVersion
        BY <1>5 DEF NewLine
      <4>3. m.productVersion # 0 =>
               \E n \in movements : Follows(m, n)' /\ n.afterQuantity = m.beforeQuantity
        BY <1>2, <1>3, <3>2, <4>2, AppendKeepsPredecessors
        DEF IInv, StockInv, LedgerExplainsCounter
      <4> QED
        BY <1>3, <3>2, <4>1, <4>3 DEF IInv, StockInv, LedgerExplainsCounter
    <3> QED BY <1>3, <3>1, <3>2
  <2> QED BY <2>3, <2>4 DEF LedgerExplainsCounter
<1> QED BY <1>4, <1>6, <1>7, <1>8 DEF StockInv

\* Changing the settings moves the version and nothing the ledger speaks of.
LEMMA ChangeSettingsPreserves ==
    ASSUME IInv,
           NEW u \in Users, NEW w \in Workspaces, NEW p \in Products,
           NEW settings \in Settings, NEW productV \in Precondition,
           NEW accessV \in Precondition,
           ChangeSettings(u, w, p, settings, productV, accessV)
    PROVE  TypeOK' /\ StockInv'
<1> DEFINE row == [product[p] EXCEPT !.settings = settings, !.version = @ + 1]
<1>1. product[p] \in Row /\ product[p] # NoRow
  BY DEF ChangeSettings, ProductIn, IInv, TypeOK
<1>2. product[p].version \in Nat /\ product[p].version + 1 \in Version
  BY <1>1, MaxVersionAssumption DEF ChangeSettings, HasCapacity, Row, Version
<1>3. product' = [product EXCEPT ![p] = row] /\ movements' = movements
  BY DEF ChangeSettings
<1>4. row \in Row /\ row # NoRow
  BY <1>1, <1>2, NoRowIsNoProduct DEF Row
<1>5. TypeOK'
  BY <1>3, <1>4 DEF ChangeSettings, IInv, TypeOK, BarsTypeOK, barVars
<1>6. \A q \in Products :
         /\ product'[q] # NoRow => product[q] # NoRow
         /\ product[q] # NoRow =>
               /\ product'[q] # NoRow
               /\ product'[q].workspace = product[q].workspace
               /\ product'[q].quantity = product[q].quantity
               /\ product'[q].version \in Nat
               /\ product'[q].version >= product[q].version
  <2>1. /\ row.workspace = product[p].workspace
        /\ row.quantity = product[p].quantity
        /\ row.version = product[p].version + 1
    BY <1>1 DEF Row
  <2>2. TAKE q \in Products
  <2>3. CASE q = p
    BY <1>1, <1>2, <1>3, <1>4, <2>1, <2>3 DEF IInv, TypeOK
  <2>4. CASE q # p
    BY <1>3, <2>4 DEF IInv, TypeOK, Row, Version
  <2> QED BY <2>3, <2>4
<1>7. OneMovementPerIntention' /\ OneMovementPerVersion' /\ LineHonoursIntention'
  BY <1>3 DEF IInv, StockInv, OneMovementPerIntention, OneMovementPerVersion,
              LineHonoursIntention
<1>8. LedgerExplainsCounter'
  <2>1. \A m \in movements : m.product \in Products /\ m.productVersion \in Nat
    BY DEF IInv, TypeOK, Movement, Version
  <2>2. \A m \in movements : m.productVersion <= product'[m.product].version
    <3> TAKE m \in movements
    <3>1. product[m.product] # NoRow /\ m.productVersion <= product[m.product].version
      BY DEF IInv, StockInv, LedgerExplainsCounter
    <3>2. product[m.product].version \in Nat
      BY <2>1, <3>1 DEF IInv, TypeOK, Row, Version
    <3> QED BY <1>6, <2>1, <3>1, <3>2
  <2> QED
    BY <1>3, <1>6, <2>1, <2>2
    DEF IInv, StockInv, LedgerExplainsCounter, LedgerOf, IsLatest, Follows
<1> QED BY <1>5, <1>7, <1>8 DEF StockInv

\* The counter a valid movement leaves fits its column.
LEMMA ValidChangeStaysInRange ==
    ASSUME NEW quantity \in Quantity, NEW kind, NEW amount \in Quantity,
           ValidChange(quantity, kind, amount)
    PROVE  After(quantity, kind, amount) \in Quantity
BY DEF ValidChange

\* Moving the stock appends the line that explains the new counter.
LEMMA MoveStockPreserves ==
    ASSUME IInv,
           NEW u \in Users, NEW w \in Workspaces, NEW p \in Products,
           NEW r \in RequestIds, NEW kind \in {"ADD", "REMOVE", "SET"},
           NEW amount \in Quantity, NEW productV \in Precondition,
           NEW accessV \in Precondition,
           MoveStock(u, w, p, r, kind, amount, productV, accessV)
    PROVE  TypeOK' /\ StockInv'
<1>1. product[p] \in Row /\ product[p] # NoRow /\ product[p].workspace = w
  BY DEF MoveStock, ProductIn, IInv, TypeOK
<1>a. PICK before \in Quantity : before = product[p].quantity
  BY <1>1 DEF Row
<1>b. PICK version \in Nat : version = product[p].version
  BY <1>1 DEF Row, Version
<1>2. version + 1 \in Version
  BY <1>1, <1>b, MaxVersionAssumption DEF MoveStock, HasCapacity, Version
<1>3. PICK after \in Quantity : after = After(before, kind, amount)
  BY <1>a, ValidChangeStaysInRange DEF MoveStock
<1> DEFINE intent == MoveIntent(kind, w, p, amount, productV, accessV)
           line == NewLine(u, r, intent, p, before, after, version + 1)
<1>c. PICK row \in Row :
         row = [product[p] EXCEPT !.quantity = after, !.version = version + 1]
  BY <1>1, <1>2 DEF Row
<1>4. movements' = movements \union {line} /\ product' = [product EXCEPT ![p] = row]
  BY <1>a, <1>b, <1>3, <1>c DEF MoveStock, NewLine
<1>5. intent \in Intent /\ line \in Movement
  BY <1>2 DEF MoveIntent, Intent, NewLine, Movement, Precondition
<1>6. /\ row # NoRow /\ row.workspace = w
      /\ row.quantity = after /\ row.version = version + 1
  BY <1>1, <1>c, NoRowIsNoProduct DEF Row
<1>7. /\ line.actor = u /\ line.requestId = r /\ line.product = p
      /\ line.fingerprint = intent /\ line.beforeQuantity = before
      /\ line.afterQuantity = after /\ line.productVersion = version + 1
  BY DEF NewLine
<1>8. /\ intent.kind = kind /\ intent.workspace = w /\ intent.product = p
      /\ intent.amount = amount /\ intent.expectedProductVersion = version
  BY <1>b DEF MoveIntent, MoveStock, VersionMatches
<1>9. TypeOK'
  BY <1>4, <1>5, <1>6 DEF MoveStock, IInv, TypeOK, BarsTypeOK, barVars
<1>10. \A m \in movements :
          /\ m.product \in Products /\ m.productVersion \in Nat
          /\ product[m.product] # NoRow
          /\ m.productVersion <= product[m.product].version
  BY DEF IInv, TypeOK, Movement, Version, StockInv, LedgerExplainsCounter
<1>11. \A x \in LedgerOf(line.product) : x.productVersion < line.productVersion
  BY <1>b, <1>7, <1>10 DEF LedgerOf
<1> HIDE DEF intent, line
<1>12. OneMovementPerIntention' /\ OneMovementPerVersion'
  BY <1>4, <1>5, <1>7, <1>11, AppendKeepsUniqueness DEF IInv, MoveStock
<1>13. LineHonoursIntention'
  BY <1>3, <1>4, <1>7, <1>8 DEF IInv, StockInv, LineHonoursIntention
<1>14. product'[p] = row /\ (\A q \in Products \ {p} : product'[q] = product[q])
  BY <1>4 DEF IInv, TypeOK
<1>15. ASSUME NEW q \in Products, product'[q] # NoRow
       PROVE  \E m \in LedgerOf(q)' : IsLatest(m)' /\ m.afterQuantity = product'[q].quantity
  <2>1. CASE q = p
    <3>1. line \in LedgerOf(q)'
      BY <1>4, <1>7, <2>1 DEF LedgerOf
    <3>2. IsLatest(line)'
      <4>1. \A x \in LedgerOf(p)' : x = line \/ x \in LedgerOf(p)
        BY <1>4 DEF LedgerOf
      <4>2. \A x \in LedgerOf(p) : x.productVersion <= line.productVersion
        BY <1>b, <1>7, <1>10, <1>11 DEF LedgerOf
      <4>3. line.productVersion <= line.productVersion
        BY <1>b, <1>7
      <4> QED BY <1>7, <4>1, <4>2, <4>3 DEF IsLatest
    <3> QED BY <1>6, <1>7, <1>14, <2>1, <3>1, <3>2
  <2>2. CASE q # p
    <3>1. LedgerOf(q)' = LedgerOf(q)
      BY <1>4, <1>7, <2>2 DEF LedgerOf
    <3>2. PICK m \in LedgerOf(q) : IsLatest(m) /\ m.afterQuantity = product[q].quantity
      BY <1>14, <1>15, <2>2 DEF IInv, StockInv, LedgerExplainsCounter
    <3>3. m.product = q
      BY DEF LedgerOf
    <3> QED BY <1>14, <2>2, <3>1, <3>2, <3>3 DEF IsLatest
  <2> QED BY <2>1, <2>2
<1>16. \E n \in movements : Follows(line, n)' /\ n.afterQuantity = before
  <2>1. PICK n \in LedgerOf(p) : IsLatest(n) /\ n.afterQuantity = before
    BY <1>1, <1>a DEF IInv, StockInv, LedgerExplainsCounter
  <2>2. n \in movements /\ n.product = p
    BY DEF LedgerOf
  <2>3. Follows(line, n)'
    <3>1. n.productVersion < line.productVersion
      BY <1>7, <1>11, <2>1
    <3>2. ASSUME NEW x \in LedgerOf(p)',
                 n.productVersion < x.productVersion,
                 x.productVersion < line.productVersion
          PROVE  FALSE
      <4>1. x \in LedgerOf(p)
        BY <1>2, <1>4, <1>7, <3>2 DEF LedgerOf
      <4>2. x.productVersion <= n.productVersion
        BY <2>1, <2>2, <4>1 DEF IsLatest
      <4> QED BY <1>10, <2>2, <3>2, <4>1, <4>2 DEF LedgerOf
    <3> QED BY <1>7, <2>2, <3>1, <3>2 DEF Follows
  <2> QED BY <2>1, <2>2, <2>3
<1>17. ASSUME NEW m \in movements'
       PROVE  /\ product'[m.product] # NoRow
              /\ m.fingerprint.workspace = product'[m.product].workspace
              /\ m.productVersion <= product'[m.product].version
              /\ m.productVersion = 0 <=> m.fingerprint.kind = "INITIAL"
              /\ m.productVersion = 0 => m.beforeQuantity = 0
              /\ m.productVersion # 0 =>
                    \E n \in movements' :
                        Follows(m, n)' /\ n.afterQuantity = m.beforeQuantity
  <2>1. CASE m = line
    <3>1. line.productVersion # 0
      BY <1>2, <1>7
    <3>2. line.productVersion <= product'[line.product].version
      BY <1>2, <1>6, <1>7, <1>14
    <3> QED BY <1>4, <1>6, <1>7, <1>8, <1>14, <1>16, <2>1, <3>1, <3>2
  <2>2. CASE m \in movements
    <3>1. /\ product[m.product] # NoRow
          /\ m.fingerprint.workspace = product[m.product].workspace
          /\ m.productVersion = 0 <=> m.fingerprint.kind = "INITIAL"
          /\ m.productVersion = 0 => m.beforeQuantity = 0
      BY <2>2 DEF IInv, StockInv, LedgerExplainsCounter
    <3>2. m.productVersion # 0 =>
             \E n \in movements : Follows(m, n)' /\ n.afterQuantity = m.beforeQuantity
      BY <1>4, <1>5, <1>11, <2>2, AppendKeepsPredecessors
      DEF IInv, StockInv, LedgerExplainsCounter
    <3>3. CASE m.product = p
      BY <1>1, <1>b, <1>4, <1>6, <1>10, <1>14, <2>2, <3>1, <3>2, <3>3
    <3>4. CASE m.product # p
      BY <1>4, <1>10, <1>14, <2>2, <3>1, <3>2, <3>4
    <3> QED BY <3>3, <3>4
  <2> QED BY <1>4, <2>1, <2>2
<1>18. LedgerExplainsCounter'
  BY <1>15, <1>17 DEF LedgerExplainsCounter
<1> QED BY <1>9, <1>12, <1>13, <1>18 DEF StockInv

\* Membership transactions leave products and ledger alone.
LEMMA MembershipStepPreserves ==
    IInv /\ MembershipStep => TypeOK' /\ StockInv'
<1> SUFFICES ASSUME IInv, MembershipStep
             PROVE  TypeOK' /\ StockInv'
  OBVIOUS
<1>1. product' = product /\ movements' = movements
  BY DEF MembershipStep, inventoryVars
<1>2. BarsTypeOK'
  BY BarsStepOK DEF IInv, TypeOK, MembershipStep
<1>3. TypeOK'
  BY <1>1, <1>2 DEF IInv, TypeOK
<1>4. StockInv'
  BY <1>1 DEF IInv, StockInv, OneMovementPerIntention, OneMovementPerVersion,
              LedgerExplainsCounter, LineHonoursIntention, LedgerOf, IsLatest, Follows
<1> QED BY <1>3, <1>4

\* Every step of Inventory is a step of Bars or leaves the Bars alone.
LEMMA NextRefinesBars == [Next]_vars => [BarsNext]_barVars
<1>1. StockStep => UNCHANGED barVars
  <2>1. ASSUME NEW u, NEW w, NEW p, NEW r, NEW amount, NEW settings, NEW v,
               CreateProduct(u, w, p, r, amount, settings, v)
        PROVE  UNCHANGED barVars
    BY <2>1 DEF CreateProduct
  <2>2. ASSUME NEW u, NEW w, NEW p, NEW settings, NEW productV, NEW v,
               ChangeSettings(u, w, p, settings, productV, v)
        PROVE  UNCHANGED barVars
    BY <2>2 DEF ChangeSettings
  <2>3. ASSUME NEW u, NEW w, NEW p, NEW r, NEW kind, NEW amount, NEW productV, NEW v,
               MoveStock(u, w, p, r, kind, amount, productV, v)
        PROVE  UNCHANGED barVars
    BY <2>3 DEF MoveStock
  <2> QED BY <2>1, <2>2, <2>3, Zenon DEF StockStep
<1>2. MembershipStep => BarsNext
  BY DEF MembershipStep
<1>3. UNCHANGED vars => UNCHANGED barVars
  BY DEF vars, barVars
<1> QED BY <1>1, <1>2, <1>3 DEF Next

\* The invariant the theorems rest on is inductive.
LEMMA IInvInductive == IInv /\ [Next]_vars => IInv'
<1> SUFFICES ASSUME IInv, [Next]_vars
             PROVE  IInv'
  OBVIOUS
<1>1. BarsInv'
  BY NextRefinesBars, BarsStepOK DEF IInv, TypeOK
<1>2. CASE UNCHANGED vars
  BY <1>2 DEF vars, IInv, TypeOK, BarsTypeOK, BarsInv, OwnerIsCreator,
              OneBarPerIntention, IsOwner, StockInv, OneMovementPerIntention,
              OneMovementPerVersion, LedgerExplainsCounter, LineHonoursIntention,
              LedgerOf, IsLatest, Follows
<1>3. CASE MembershipStep
  BY <1>1, <1>3, MembershipStepPreserves DEF IInv
<1>4. CASE StockStep
  BY <1>1, <1>4, CreateProductPreserves, ChangeSettingsPreserves, MoveStockPreserves
  DEF StockStep, IInv
<1> QED BY <1>2, <1>3, <1>4 DEF Next

LEMMA InitIInv == Init => IInv
<1> SUFFICES ASSUME Init PROVE IInv
  OBVIOUS
<1>1. BarsTypeOK /\ BarsInv
  BY BarsInitOK DEF Init
<1>2. TypeOK
  BY <1>1 DEF Init, TypeOK
<1>3. StockInv
  BY DEF Init, StockInv, OneMovementPerIntention, OneMovementPerVersion,
         LedgerExplainsCounter, LineHonoursIntention
<1> QED BY <1>1, <1>2, <1>3 DEF IInv

\* The inductive invariant holds in every reachable state.
THEOREM InventoryInvariant == Spec => []IInv
BY InitIInv, IInvInductive, PTL DEF Spec

\* Every variable keeps its type: in particular no counter or version ever
\* leaves the range of its column, whatever the amounts clients send.
THEOREM InventoryTypes == Spec => []TypeOK
<1>1. IInv => TypeOK
  BY DEF IInv
<1> QED BY <1>1, InventoryInvariant, PTL

\* The ledger of every product explains its counter.
THEOREM LedgerCorrect == Spec => []LedgerExplainsCounter
<1>1. IInv => LedgerExplainsCounter
  BY DEF IInv, StockInv
<1> QED BY <1>1, InventoryInvariant, PTL

\* An intention is applied at most once, however often it is sent.
THEOREM IntentionsApplyOnce == Spec => []OneMovementPerIntention
<1>1. IInv => OneMovementPerIntention
  BY DEF IInv, StockInv
<1> QED BY <1>1, InventoryInvariant, PTL

\* Every recorded line is what its author asked, on the version he had read.
THEOREM LinesHonourIntentions == Spec => []LineHonoursIntention
<1>1. IInv => LineHonoursIntention
  BY DEF IInv, StockInv
<1> QED BY <1>1, InventoryInvariant, PTL

\* The composition keeps what Bars promises: its runs are runs of Bars.
THEOREM InventoryImplementsBars == Spec => BarsSpec
<1>1. Init => BarsInit
  BY DEF Init
<1> QED BY <1>1, NextRefinesBars, PTL DEF Spec, BarsSpec

\* One version of a product is written by at most one ledger line: no movement
\* overwrites another, whatever the number of Bars, products and accounts.
THEOREM VersionsCarryOneMovement == Spec => []OneMovementPerVersion
<1>1. IInv => OneMovementPerVersion
  BY DEF IInv, StockInv
<1> QED BY <1>1, InventoryInvariant, PTL
=============================================================================
