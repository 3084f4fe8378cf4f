-------------------------- MODULE InventoryClient ---------------------------
(***************************************************************************)
(* The stock movement form of the browser (InventoryCommand) against the   *)
(* server of Inventory, over HTTP calls that are slow or lost.  The form   *)
(* freezes one intention, gives up waiting after a timeout while the       *)
(* request may still be on its way, looks the receipt up, retries the same *)
(* intention, inspects the state and prepares a new intention.  The page   *)
(* may be taken from under it at any moment, with a result awaited or      *)
(* uncertain.  Meanwhile other members and other tabs use the Bar.  The    *)
(* create form follows the same code; the settings form, which has no      *)
(* receipt, is not modelled.                                               *)
(***************************************************************************)
EXTENDS Inventory

CONSTANTS
    Me,                   \* the account signed in to this browser
    MyBar, MyProduct,     \* what the form was opened on
    FormIds,              \* intention identifiers this form may draw
    FormAmounts           \* bound: the amounts the user enters

ASSUME ClientAssumption ==
    /\ Me \in Users /\ MyBar \in Workspaces /\ MyProduct \in Products
    /\ FormIds \subseteq RequestIds
    /\ FormAmounts \subseteq Quantity

VARIABLES
    context,       \* access version of the confirmed workspace, or NoVersion
    form,          \* the fields and signals of the form, and, as history, the
                   \* intentions it replaced by a new one
    posts,         \* POSTs sent and not yet handled by the server
    reply,         \* the response to the call being waited for
    abandoned,     \* history: intentions given up for a new one
    told,          \* history: intentions the user was told are recorded
    forgotten      \* history: intentions whose form was destroyed before it
                   \* knew what became of them

clientVars == <<context, form, posts, reply, abandoned, told, forgotten>>
allVars == <<vars, clientVars>>

NoIntent == [requestId |-> NoRow]

Closed ==
    [open |-> FALSE, busy |-> "no", intent |-> NoIntent, blocked |-> FALSE,
     uncertain |-> FALSE, missing |-> FALSE, inspected |-> FALSE,
     source |-> NoRow, access |-> NoVersion, reviewed |-> NoRow,
     reviewedAccess |-> NoVersion, replaced |-> {}]

ClientTypeOK ==
    /\ TypeOK
    /\ context \in Precondition
    /\ DOMAIN form = DOMAIN Closed
    /\ form.busy \in {"no", "send", "receipt", "verify", "detail"}
    /\ \A x \in posts : x.intent.requestId \in FormIds /\ x.awaited \in BOOLEAN
    /\ reply \in {"none", "saved", "refused", "notFound"}

-----------------------------------------------------------------------------

\* The answer of the server to a movement, checks in the order of the code.
MoveAnswer(i) ==
    LET prior == Prior(Me, i.requestId)
    IN  IF ~ Active(MyBar, Me) \/ ~ ProductIn(MyBar, MyProduct) THEN "notFound"
        ELSE IF ~ VersionMatches(accessVersion[MyBar], i.body.expectedAccessVersion)
             THEN "refused"
        ELSE IF prior # {}
             THEN IF \A m \in prior : m.fingerprint = i.body THEN "saved" ELSE "refused"
        ELSE IF /\ VersionMatches(product[MyProduct].version, i.body.expectedProductVersion)
                /\ ValidChange(product[MyProduct].quantity, i.body.kind, i.body.amount)
                /\ HasCapacity(product[MyProduct].version)
             THEN "apply"
        ELSE "refused"

\* A POST reaches the server, perhaps long after the form stopped waiting.
ServePost(x) ==
    LET i == x.intent
        answer == MoveAnswer(i)
    IN  /\ x \in posts
        /\ posts' = posts \ {x}
        /\ IF answer = "apply"
           THEN MoveStock(Me, MyBar, MyProduct, i.requestId, i.body.kind, i.body.amount,
                          i.body.expectedProductVersion, i.body.expectedAccessVersion)
           ELSE UNCHANGED vars
        /\ reply' = IF ~ x.awaited THEN reply
                    ELSE IF answer = "apply" THEN "saved" ELSE answer
        /\ UNCHANGED <<context, form, abandoned, told, forgotten>>

\* A request is lost before the server handles it.
LosePost(x) ==
    /\ x \in posts
    /\ posts' = posts \ {x}
    /\ UNCHANGED <<vars, context, form, reply, abandoned, told, forgotten>>

\* GET receipts/:requestId.
ServeReceipt ==
    /\ form.busy = "receipt"
    /\ reply = "none"
    /\ reply' = IF Active(MyBar, Me) /\ Prior(Me, form.intent.requestId) # {}
                THEN "saved" ELSE "notFound"
    /\ UNCHANGED <<vars, context, form, posts, abandoned, told, forgotten>>

-----------------------------------------------------------------------------

\* The Bar is confirmed and its access version adopted: the end of a session's
\* confirmation, whose beginning took the form away (ContextLost), or the rights
\* verified from the page, which refuses while a form is open.
ConfirmContext ==
    /\ ~ form.open
    /\ Active(MyBar, Me)
    /\ context' = accessVersion[MyBar]
    /\ UNCHANGED <<vars, form, posts, reply, abandoned, told, forgotten>>

\* The form opens on a row of the catalogue and the access version it came with,
\* which canAct() wants to be that of the context.
OpenForm ==
    /\ ~ form.open
    /\ context = accessVersion[MyBar]
    /\ Active(MyBar, Me)
    /\ ProductIn(MyBar, MyProduct)
    /\ form' = [Closed EXCEPT !.open = TRUE, !.source = product[MyProduct],
                              !.access = accessVersion[MyBar]]
    /\ UNCHANGED <<vars, context, posts, reply, abandoned, told, forgotten>>

Refusal == [form EXCEPT !.busy = "no", !.blocked = TRUE, !.uncertain = FALSE,
                        !.missing = FALSE, !.inspected = FALSE]

\* send(): one POST, unless the confirmed access version has moved on, which
\* WorkspaceContext.request answers with a 409 of its own.
Send(intent) ==
    IF context # intent.body.expectedAccessVersion
    THEN /\ form' = [Refusal EXCEPT !.intent = intent]
         /\ UNCHANGED posts
    ELSE /\ form' = [form EXCEPT !.intent = intent, !.busy = "send",
                                 !.inspected = FALSE, !.missing = FALSE]
         /\ posts' = posts \union {[intent |-> intent, awaited |-> TRUE]}

Ready(kind, amount) ==
    /\ form.busy = "no"
    /\ ~ form.blocked
    /\ context # NoVersion
    /\ ValidChange(form.source.quantity, kind, amount)

\* submit(): the first one draws the identifier and freezes the intention.
Submit(kind, amount, r) ==
    /\ form.open
    /\ Ready(kind, amount)
    /\ form.intent = NoIntent
    /\ r \notin { i.requestId : i \in abandoned \union forgotten }
    /\ r \notin { m.requestId : m \in movements }
    /\ \A x \in posts : x.intent.requestId # r
    /\ Send([requestId |-> r,
             body |-> MoveIntent(kind, MyBar, MyProduct, amount,
                                 form.source.version, form.access)])
    /\ reply' = "none"
    /\ UNCHANGED <<vars, context, abandoned, told, forgotten>>

\* retrySame(): the same intention, once a receipt lookup has answered 404.
RetrySame ==
    /\ form.uncertain
    /\ form.missing
    /\ form.busy = "no"
    /\ context # NoVersion
    /\ Send(form.intent)
    /\ reply' = "none"
    /\ UNCHANGED <<vars, context, abandoned, told, forgotten>>

\* Mutation: an unknown receipt is taken for the success of a retry.
SavedOrUnknown ==
    /\ form.busy \in {"send", "receipt"}
    /\ reply \in {"saved", "notFound"}
    /\ form' = Closed
    /\ reply' = "none"
    /\ told' = told \union {form.intent}
    /\ UNCHANGED <<vars, context, posts, abandoned, forgotten>>

\* A confirmed result closes the form; the catalogue is shown again.
Saved ==
    /\ form.busy \in {"send", "receipt"}
    /\ reply = "saved"
    /\ form' = Closed
    /\ reply' = "none"
    /\ told' = told \union {form.intent}
    /\ UNCHANGED <<vars, context, posts, abandoned, forgotten>>

\* A 400, 404 or 409 is a known refusal.  After any 404 WorkspaceContext asks for
\* the membership again; what follows from its answer is ContextLost.
Refused ==
    /\ form.busy = "send"
    /\ reply \in {"refused", "notFound"}
    /\ form' = Refusal
    /\ reply' = "none"
    /\ UNCHANGED <<vars, context, posts, abandoned, told, forgotten>>

\* Mutation: a timeout is handled like a refusal.
TimeoutAsRefusal ==
    /\ form.busy # "no"
    /\ form' = Refusal
    /\ posts' = { [x EXCEPT !.awaited = FALSE] : x \in posts }
    /\ reply' = "none"
    /\ UNCHANGED <<vars, context, abandoned, told, forgotten>>

\* 15 seconds without a response, or a response lost on the way: the outcome of
\* a POST becomes uncertain, and a POST on its way is no longer waited for.
Timeout ==
    /\ form.busy # "no"
    /\ form' = IF form.busy = "send"
               THEN [form EXCEPT !.busy = "no", !.blocked = TRUE, !.uncertain = TRUE]
               ELSE [form EXCEPT !.busy = "no"]
    /\ posts' = { [x EXCEPT !.awaited = FALSE] : x \in posts }
    /\ reply' = "none"
    /\ UNCHANGED <<vars, context, abandoned, told, forgotten>>

\* inspectReceipt(): asks whether the intention is recorded.
InspectReceipt ==
    /\ form.busy = "no"
    /\ form.blocked
    /\ context # NoVersion
    /\ form' = [form EXCEPT !.busy = "receipt", !.missing = FALSE]
    /\ UNCHANGED <<vars, context, posts, reply, abandoned, told, forgotten>>

\* Mutation: a missing receipt proves that nothing was recorded.
ReceiptMissingFreesForm ==
    /\ form.busy = "receipt"
    /\ reply = "notFound"
    /\ form' = [Refusal EXCEPT !.intent = NoIntent, !.blocked = FALSE]
    /\ reply' = "none"
    /\ UNCHANGED <<vars, context, posts, abandoned, told, forgotten>>

\* A 404 only says that no receipt was visible when it was looked up.
ReceiptMissing ==
    /\ form.busy = "receipt"
    /\ reply = "notFound"
    /\ form' = [form EXCEPT !.busy = "no", !.missing = TRUE]
    /\ reply' = "none"
    /\ UNCHANGED <<vars, context, posts, abandoned, told, forgotten>>

\* inspectState(): confirms the rights again, then reads the product.  The page
\* offers it for a movement only once the outcome is no longer uncertain.
InspectState ==
    /\ form.busy = "no"
    /\ form.blocked
    /\ ~ form.uncertain
    /\ context # NoVersion
    /\ form' = [form EXCEPT !.busy = "verify", !.inspected = FALSE]
    /\ UNCHANGED <<vars, context, posts, reply, abandoned, told, forgotten>>

\* verifyCurrentAccess(): a membership that is gone withdraws the workspace, and
\* the form with it.
VerifyAccess ==
    /\ form.busy = "verify"
    /\ IF Active(MyBar, Me)
       THEN /\ context' = accessVersion[MyBar]
            /\ form' = [form EXCEPT !.busy = "detail"]
       ELSE /\ context' = NoVersion
            /\ form' = Closed
    /\ UNCHANGED <<vars, posts, reply, abandoned, told, forgotten>>

ReviewProduct ==
    /\ form.busy = "detail"
    /\ form' = IF Active(MyBar, Me)
               THEN [form EXCEPT !.busy = "no", !.reviewed = product[MyProduct],
                                 !.reviewedAccess = context, !.inspected = TRUE]
               ELSE [form EXCEPT !.busy = "no"]
    /\ UNCHANGED <<vars, context, posts, reply, abandoned, told, forgotten>>

\* newIntention(): the inspected state is adopted and the old intention dropped.
NewIntention ==
    /\ form.inspected
    /\ ~ form.uncertain
    /\ form.reviewedAccess # NoVersion
    /\ form.busy = "no"
    /\ form' = [form EXCEPT !.source = form.reviewed, !.access = form.reviewedAccess,
                            !.intent = NoIntent, !.blocked = FALSE, !.inspected = FALSE,
                            !.replaced = @ \union {form.intent}]
    /\ abandoned' = abandoned \union {form.intent}
    /\ UNCHANGED <<vars, context, posts, reply, told, forgotten>>

\* close(): refused while a result is awaited or uncertain.
Close ==
    /\ form.open
    /\ form.busy = "no"
    /\ ~ form.uncertain
    /\ form' = Closed
    /\ UNCHANGED <<vars, context, posts, reply, abandoned, told, forgotten>>

\* An intention was sent and the form does not know what became of it.
Unsettled == form.busy = "send" \/ form.uncertain

\* The form is destroyed as it stands: no guard asks, its fields and its key go,
\* the answers it waited for are dropped, and the requests stay on their way.
Destroyed ==
    /\ form' = Closed
    /\ posts' = { [x EXCEPT !.awaited = FALSE] : x \in posts }
    /\ reply' = "none"
    /\ forgotten' = IF Unsettled THEN forgotten \union {form.intent} ELSE forgotten

\* The form goes and the context stays: the user opens another page, the route
\* having no exit guard, or starts to choose another workspace.
PageAbandoned ==
    /\ form.open
    /\ Destroyed
    /\ UNCHANGED <<vars, context, abandoned, told>>

\* current() becomes null, and the shell shows no page while it is: a session is
\* confirmed again or ends, the membership is found to be lost, another workspace
\* is chosen, the page is reloaded.
ContextLost ==
    /\ context # NoVersion
    /\ context' = NoVersion
    /\ Destroyed
    /\ UNCHANGED <<vars, abandoned, told>>

-----------------------------------------------------------------------------

\* Everybody else, and the same account in another tab.
Others ==
    /\ \E u \in Users, v \in Version :
          \/ \E r \in BarRequestIds, payload \in BarPayloads :
                CreateBar(u, MyBar, r, payload) /\ UNCHANGED inventoryVars
          \/ /\ \E target \in Users :
                   AddMember(u, MyBar, target, v) \/ RevokeMember(u, MyBar, target, v)
             /\ UNCHANGED inventoryVars
          \/ \E r \in RequestIds \ FormIds, amount \in FormAmounts :
                \/ \E settings \in Settings :
                      CreateProduct(u, MyBar, MyProduct, r, amount, settings, v)
                \/ \E kind \in {"ADD", "REMOVE"}, productV \in Version :
                      MoveStock(u, MyBar, MyProduct, r, kind, amount, productV, v)
    /\ UNCHANGED clientVars

FormInit ==
    /\ context = NoVersion
    /\ form = Closed
    /\ posts = {}
    /\ reply = "none"
    /\ abandoned = {}
    /\ told = {}
    /\ forgotten = {}

ClientInit == Init /\ FormInit

ClientNext ==
    \/ Others
    \/ \E x \in posts : ServePost(x) \/ LosePost(x)
    \/ ServeReceipt
    \/ ConfirmContext
    \/ OpenForm
    \/ \E kind \in {"ADD", "REMOVE", "SET"}, amount \in FormAmounts, r \in FormIds :
          Submit(kind, amount, r)
    \/ RetrySame
    \/ Saved
    \/ Refused
    \/ Timeout
    \/ InspectReceipt
    \/ ReceiptMissing
    \/ InspectState
    \/ VerifyAccess
    \/ ReviewProduct
    \/ NewIntention
    \/ Close
    \/ PageAbandoned
    \/ ContextLost

ClientSpec == ClientInit /\ [][ClientNext]_allVars

-----------------------------------------------------------------------------

Recorded(i) == \E m \in Prior(Me, i.requestId) : m.fingerprint = i.body

\* What the user is told is true: an intention announced as confirmed, by the
\* POST or by a receipt found later, is in the ledger with the frozen content.
ConfirmedIsRecorded == \A i \in told : Recorded(i)

\* A lost answer never doubles a change: when a new intention takes the place of
\* one whose answer was lost, at most one of them ends up in the ledger.
LostAnswerNeverDoubles ==
    \A i \in form.replaced : Recorded(i) => ~ Recorded(form.intent)

\* No double application while the members stay the same: as long as the access
\* version is the one the intention was formed under, an intention given up for
\* a new one is not in the ledger, neither then nor when a delayed request
\* finally arrives.  (LostAnswerNeverDoubles asks it of any member change too.)
AbandonedIsNeverRecorded ==
    \A i \in abandoned :
        Recorded(i) => accessVersion[MyBar] # i.body.expectedAccessVersion

\* No blind replay: while an outcome is uncertain the form sends nothing but the
\* same frozen intention.  And as long as the form is there, an intention sent is
\* its intention until it is known: refused, or announced and in the ledger.  Only
\* its destruction takes it away before, and then nothing was announced of it: the
\* user has the stock and its history to look at, as the form itself says.
UncertainIntentionIsFrozen ==
    [][/\ form.uncertain => \A x \in posts' \ posts : x.intent = form.intent
       /\ Unsettled /\ form'.intent # form.intent =>
             \/ form.intent \in told' /\ Recorded(form.intent)
             \/ form' = Closed /\ form.intent \in forgotten' \ told']_allVars
=============================================================================
