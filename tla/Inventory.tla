----------------------------- MODULE Inventory ------------------------------
(***************************************************************************)
(* The manual stock of the Bars: products with a counter, and the ledger   *)
(* of movements that is also the receipt book of client intentions.        *)
(* Every action is one committed transaction of InventoryService.          *)
(***************************************************************************)
EXTENDS Bars, Integers, FiniteSets

CONSTANTS
    Products,      \* product identifiers
    RequestIds,    \* identifiers of stock intentions (UUIDs clients choose)
    MaxQuantity,   \* the largest value a quantity column can hold (2147483647)
    Settings,      \* pairs of a threshold and a target
    NoProduct,     \* the product an INITIAL intention does not know yet
    NoSettings     \* the settings a movement intention does not carry

ASSUME MaxQuantityAssumption == MaxQuantity \in Nat
ASSUME NoProductAssumption == NoProduct \notin Products

VARIABLES
    product,       \* StockProduct rows, or NoRow
    movements      \* the set of StockMovement rows

inventoryVars == <<product, movements>>
vars == <<bar, accessVersion, member, product, movements>>

Quantity == 0 .. MaxQuantity

\* The fingerprinted content of an intention: everything the hash covers.
Intent ==
    [kind: {"INITIAL", "ADD", "REMOVE", "SET"},
     workspace: Workspaces,
     product: Products \union {NoProduct},
     amount: Quantity,
     settings: Settings \union {NoSettings},
     expectedProductVersion: Precondition,
     expectedAccessVersion: Precondition]

MoveIntent(kind, w, p, amount, productV, accessV) ==
    [kind |-> kind, workspace |-> w, product |-> p, amount |-> amount,
     settings |-> NoSettings,
     expectedProductVersion |-> productV, expectedAccessVersion |-> accessV]

CreateIntent(w, amount, settings, accessV) ==
    [kind |-> "INITIAL", workspace |-> w, product |-> NoProduct, amount |-> amount,
     settings |-> settings,
     expectedProductVersion |-> NoVersion, expectedAccessVersion |-> accessV]

Row == [workspace: Workspaces, quantity: Quantity, settings: Settings, version: Version]

\* A row is never the missing row.
ASSUME NoRowIsNoProduct == NoRow \notin Row

Movement ==
    [actor: Users, requestId: RequestIds, fingerprint: Intent, product: Products,
     beforeQuantity: Quantity, afterQuantity: Quantity, productVersion: Version]

TypeOK ==
    /\ BarsTypeOK
    /\ product \in [Products -> Row \union {NoRow}]
    /\ movements \subseteq Movement

-----------------------------------------------------------------------------

\* Mutation: creations and movements keep separate receipts.
PriorMovement(u, r) ==
    { m \in movements : m.actor = u /\ m.requestId = r /\ m.fingerprint.kind # "INITIAL" }

\* The receipt of an intention, looked up by account and identifier only:
\* one identifier serves one movement, whatever the Bar, product or kind.
Prior(u, r) == { m \in movements : m.actor = u /\ m.requestId = r }

ProductIn(w, p) == product[p] # NoRow /\ product[p].workspace = w

\* The counter a movement asks for; it may leave the range of the column.
After(quantity, kind, amount) ==
    IF kind = "SET" THEN amount
    ELSE IF kind = "ADD" THEN quantity + amount ELSE quantity - amount

ValidChange(quantity, kind, amount) ==
    /\ kind # "SET" => amount # 0
    /\ After(quantity, kind, amount) # quantity
    /\ After(quantity, kind, amount) \in Quantity

-----------------------------------------------------------------------------

Init ==
    /\ BarsInit
    /\ product = [p \in Products |-> NoRow]
    /\ movements = {}

\* The owner creates a product; its INITIAL movement is the creation receipt.
CreateProduct(u, w, p, r, amount, settings, accessV) ==
    /\ OwnerAuthorized(w, u, accessV)
    /\ Prior(u, r) = {}
    /\ product[p] = NoRow
    /\ product' = [product EXCEPT ![p] =
                     [workspace |-> w, quantity |-> amount,
                      settings |-> settings, version |-> 0]]
    /\ movements' = movements \union
          {[actor |-> u, requestId |-> r,
            fingerprint |-> CreateIntent(w, amount, settings, accessV),
            product |-> p, beforeQuantity |-> 0, afterQuantity |-> amount,
            productVersion |-> 0]}
    /\ UNCHANGED barVars

\* Mutation: the settings are saved as a whole row, its counter and version back
\* to the defaults of the columns.
ReplaceSettings(u, w, p, settings, productV, accessV) ==
    /\ OwnerAuthorized(w, u, accessV)
    /\ ProductIn(w, p)
    /\ VersionMatches(product[p].version, productV)
    /\ product' = [product EXCEPT ![p] =
          [workspace |-> w, quantity |-> 0, settings |-> settings, version |-> 0]]
    /\ UNCHANGED <<barVars, movements>>

\* The owner changes the thresholds; the counter's version moves with them.
ChangeSettings(u, w, p, settings, productV, accessV) ==
    /\ OwnerAuthorized(w, u, accessV)
    /\ ProductIn(w, p)
    /\ VersionMatches(product[p].version, productV)
    /\ settings # product[p].settings
    /\ HasCapacity(product[p].version)
    /\ product' = [product EXCEPT ![p].settings = settings, ![p].version = @ + 1]
    /\ UNCHANGED <<barVars, movements>>

\* Any active member moves the counter and writes the ledger line with it.
MoveStock(u, w, p, r, kind, amount, productV, accessV) ==
    /\ Authorized(w, u, accessV)
    /\ ProductIn(w, p)
    /\ Prior(u, r) = {}
    /\ VersionMatches(product[p].version, productV)
    /\ ValidChange(product[p].quantity, kind, amount)
    /\ HasCapacity(product[p].version)
    /\ LET after == After(product[p].quantity, kind, amount)
       IN  /\ product' = [product EXCEPT ![p].quantity = after, ![p].version = @ + 1]
           /\ movements' = movements \union
                 {[actor |-> u, requestId |-> r,
                   fingerprint |-> MoveIntent(kind, w, p, amount, productV, accessV),
                   product |-> p, beforeQuantity |-> product[p].quantity,
                   afterQuantity |-> after,
                   productVersion |-> product[p].version + 1]}
    /\ UNCHANGED barVars

MembershipStep == BarsNext /\ UNCHANGED inventoryVars

StockStep ==
    \E u \in Users, w \in Workspaces, p \in Products, accessV \in Precondition :
        \/ \E r \in RequestIds, amount \in Quantity, settings \in Settings :
              CreateProduct(u, w, p, r, amount, settings, accessV)
        \/ \E settings \in Settings, productV \in Precondition :
              ChangeSettings(u, w, p, settings, productV, accessV)
        \/ \E r \in RequestIds, kind \in {"ADD", "REMOVE", "SET"},
              amount \in Quantity, productV \in Precondition :
              MoveStock(u, w, p, r, kind, amount, productV, accessV)

Next == MembershipStep \/ StockStep

Spec == Init /\ [][Next]_vars

-----------------------------------------------------------------------------

LedgerOf(p) == { m \in movements : m.product = p }

\* n is the line written just before m in the ledger of their product.
Follows(m, n) ==
    /\ n.product = m.product
    /\ n.productVersion < m.productVersion
    /\ \A x \in LedgerOf(m.product) :
          ~ (n.productVersion < x.productVersion /\ x.productVersion < m.productVersion)

IsLatest(m) ==
    \A x \in LedgerOf(m.product) : x.productVersion <= m.productVersion

\* One intention, one movement: the ledger never holds two lines for the same
\* account and intention identifier, across products, kinds and Bars.
OneMovementPerIntention ==
    \A m, n \in movements :
        m.actor = n.actor /\ m.requestId = n.requestId => m = n

\* One version, one movement: a product version is written by at most one
\* ledger line, so no counter change is overwritten by a concurrent one.
OneMovementPerVersion ==
    \A m, n \in movements :
        m.product = n.product /\ m.productVersion = n.productVersion => m = n

\* The ledger explains the counter: the latest line of a product ends at the
\* current quantity, every other line starts where its predecessor ended, the
\* first one is INITIAL from zero, and no line is ahead of the product.
LedgerExplainsCounter ==
    /\ \A p \in Products : product[p] # NoRow =>
          \E m \in LedgerOf(p) :
              IsLatest(m) /\ m.afterQuantity = product[p].quantity
    /\ \A m \in movements :
          /\ product[m.product] # NoRow
          /\ m.fingerprint.workspace = product[m.product].workspace
          /\ m.productVersion <= product[m.product].version
          /\ m.productVersion = 0 <=> m.fingerprint.kind = "INITIAL"
          /\ m.productVersion = 0 => m.beforeQuantity = 0
          /\ m.productVersion # 0 =>
                \E n \in movements : Follows(m, n) /\ n.afterQuantity = m.beforeQuantity

\* A line does what its author asked: the recorded before and after quantities
\* are the ones of the fingerprinted intention, on the version it was based on.
LineHonoursIntention ==
    \A m \in movements : m.fingerprint.kind # "INITIAL" =>
        /\ m.product = m.fingerprint.product
        /\ m.productVersion = m.fingerprint.expectedProductVersion + 1
        /\ m.afterQuantity =
              After(m.beforeQuantity, m.fingerprint.kind, m.fingerprint.amount)

StockInv ==
    /\ OneMovementPerIntention
    /\ OneMovementPerVersion
    /\ LedgerExplainsCounter
    /\ LineHonoursIntention

=============================================================================
