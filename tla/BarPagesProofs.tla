--------------------------- MODULE BarPagesProofs ---------------------------
(***************************************************************************)
(* Proofs about the pages of a tab that act on a Bar, for any accounts,    *)
(* Bars, products, identifiers, page sizes and version capacities: the     *)
(* creations the page lets go of are settled, commands act on the members  *)
(* that were shown, and the movement form tells the truth about its        *)
(* intentions.                                                             *)
(***************************************************************************)
EXTENDS InventoryClient, BarCreation, BarMembers, InventoryProofs, FiniteSetTheorems

-----------------------------------------------------------------------------
(* The creation of Bars (BarCreation). *)

\* The intentions the form or a request still holds.
Live == ({creation.intent} \union { c.intent : c \in calls }) \ {NoRow}

\* An identifier stands for one intention, in requests and in the tables.
IntentsInv ==
    /\ \A i \in Live, j \in Live : i.requestId = j.requestId => i = j
    /\ \A i \in Live, w \in Workspaces :
          bar[w] # NoRow /\ bar[w].requestId = i.requestId => bar[w] = i

\* What is known of a request: whom it speaks for, and that its answer is true.
CallOK(c) ==
    /\ c.ask # "list" => c.intent \in Creation /\ c.intent # NoRow
    /\ c.fresh => c.actor = signedIn /\ (c.ask # "list" => c.intent = creation.intent)
    /\ c.fresh /\ c.ask # "list" => creation.result = NoRow
    /\ c.fresh /\ c.ask = "get" => creation.uncertain
    /\ c.ask # "list" => \A w \in c.bars : bar[w] = c.intent
    /\ c.ask = "list" => \A w \in c.bars : member[w][c.actor] # "none"

OneAwaited ==
    \A c, d \in calls : c.fresh /\ c.ask # "list" /\ d.fresh /\ d.ask # "list" => c = d

CallsInv == OneAwaited /\ \A c \in calls : CallOK(c)

\* An intention is awaited, uncertain, or recorded.
FormInv ==
    /\ creation.intent # NoRow =>
          /\ creation.intent.actor = signedIn
          /\ Busy \/ creation.uncertain \/ \E w \in Workspaces : bar[w] = creation.intent
    /\ creation.result # NoRow => creation.intent # NoRow /\ bar[creation.result] = creation.intent
    /\ creation.uncertain => creation.intent # NoRow /\ creation.result = NoRow

ShelfInv == \A w \in shelf.bars : signedIn # Nobody /\ member[w][signedIn] # "none"

LetGoInv == \A i \in letGo : \E w \in Workspaces : bar[w] = i

CreationInv ==
    /\ CreationTypeOK
    /\ BarsInv
    /\ IntentsInv
    /\ CallsInv
    /\ FormInv
    /\ ShelfInv
    /\ LetGoInv

\* What a step may do to the tables: rows and memberships are never erased, and
\* a new row is that of the intention its identifier stands for.
TablesGrow ==
    /\ BarsTypeOK'
    /\ BarsInv'
    /\ \A w \in Workspaces : bar[w] # NoRow => bar'[w] = bar[w]
    /\ \A w \in Workspaces, u \in Users : member[w][u] # "none" => member'[w][u] # "none"
    /\ \A w \in Workspaces : bar'[w] # bar[w] =>
          \A i \in Live : bar'[w].requestId = i.requestId => bar'[w] = i

LEMMA TablesStay ==
    ASSUME CreationInv, UNCHANGED barVars
    PROVE  TablesGrow
BY DEF TablesGrow, CreationInv, CreationTypeOK, BarsTypeOK, BarsInv, OwnerIsCreator, OneBarPerIntention,
       IsOwner, barVars

LEMMA NewBarGrows ==
    ASSUME CreationInv, NEW u \in Users, NEW w \in Workspaces, NEW r \in BarRequestIds,
           NEW payload \in BarPayloads, CreateBar(u, w, r, payload),
           \A i \in Live : i.requestId = r =>
                i = [actor |-> u, requestId |-> r, fingerprint |-> payload]
    PROVE  TablesGrow
<1>1. BarsTypeOK' /\ BarsInv'
  BY CreateBarPreserves DEF CreationInv, CreationTypeOK
<1>2. \A v \in Workspaces : bar'[v] = IF v = w THEN [actor |-> u, requestId |-> r, fingerprint |-> payload]
                                              ELSE bar[v]
  BY DEF CreateBar, CreationInv, CreationTypeOK, BarsTypeOK
<1>3. \A v \in Workspaces, t \in Users :
         member'[v][t] = IF v = w /\ t = u THEN "OWNER" ELSE member[v][t]
  BY DEF CreateBar, CreationInv, CreationTypeOK, BarsTypeOK
<1>4. bar[w] = NoRow
  BY DEF CreateBar
<1> QED BY <1>1, <1>2, <1>3, <1>4 DEF TablesGrow

LEMMA MembershipChangeGrows ==
    ASSUME CreationInv, NEW u \in Users, NEW w \in Workspaces, NEW target \in Users,
           NEW v \in Precondition, AddMember(u, w, target, v) \/ RevokeMember(u, w, target, v)
    PROVE  TablesGrow
<1>1. BarsTypeOK' /\ BarsInv'
  BY MembershipChangePreserves DEF CreationInv, CreationTypeOK
<1>2. bar' = bar
  BY DEF AddMember, RevokeMember
<1>3. \A x \in Workspaces, t \in Users :
         member'[x][t] = member[x][t] \/ member'[x][t] \in {"MEMBER", "revoked"}
  BY DEF AddMember, RevokeMember, CreationInv, CreationTypeOK, BarsTypeOK
<1> QED BY <1>1, <1>2, <1>3 DEF TablesGrow

-----------------------------------------------------------------------------
(* What the invariant needs of a step, part by part.                         *)

LEMMA IntentsKept ==
    ASSUME CreationInv, TablesGrow, Live' \subseteq Live
    PROVE  IntentsInv'
<1>1. \A i \in Live', w \in Workspaces : bar'[w] # NoRow /\ bar'[w].requestId = i.requestId => bar'[w] = i
  BY DEF CreationInv, IntentsInv, TablesGrow
<1> QED BY <1>1 DEF CreationInv, IntentsInv

LEMMA CallKept ==
    ASSUME CreationInv, TablesGrow, NEW c \in calls,
           c.fresh => /\ signedIn' = signedIn
                      /\ c.ask # "list" => /\ creation'.intent = creation.intent
                                           /\ creation'.result = creation.result
                      /\ c.ask = "get" => creation'.uncertain
    PROVE  CallOK(c)'
<1>1. CallOK(c) /\ c \in Calls
  BY DEF CreationInv, CallsInv, CreationTypeOK
<1>2. c.ask # "list" => \A w \in c.bars : bar'[w] = c.intent
  BY <1>1 DEF CallOK, TablesGrow, Calls
<1>3. c.ask = "list" => \A w \in c.bars : member'[w][c.actor] # "none"
  BY <1>1 DEF CallOK, TablesGrow, Calls
<1> QED BY <1>1, <1>2, <1>3 DEF CallOK

LEMMA ShelfKept ==
    ASSUME CreationInv, TablesGrow,
           shelf'.bars = {} \/ (shelf'.bars = shelf.bars /\ signedIn' = signedIn)
    PROVE  ShelfInv'
<1>1. shelf.bars \subseteq Workspaces /\ (signedIn # Nobody => signedIn \in Users)
  BY DEF CreationInv, CreationTypeOK
<1> QED BY <1>1 DEF CreationInv, ShelfInv, TablesGrow

LEMMA LetGoKept ==
    ASSUME CreationInv, TablesGrow, letGo' = letGo
    PROVE  LetGoInv'
<1>1. \A i \in letGo : i # NoRow
  BY NoRowIsNoCreation DEF CreationInv, CreationTypeOK
<1> QED BY <1>1 DEF CreationInv, LetGoInv, TablesGrow

LEMMA FormKept ==
    ASSUME CreationInv, TablesGrow, signedIn' = signedIn, creation' = creation, Busy => Busy'
    PROVE  FormInv'
<1>1. /\ creation.intent # NoRow => \A w \in Workspaces : bar[w] = creation.intent => bar'[w] = creation.intent
      /\ creation.result # NoRow /\ creation.intent # NoRow => bar'[creation.result] = creation.intent
  BY DEF CreationInv, FormInv, TablesGrow, CreationTypeOK
<1> QED BY <1>1 DEF CreationInv, FormInv

\* A step that lets go of calls, marks some as given up, and shows nothing new.
LEMMA CallsKept ==
    ASSUME CreationInv, TablesGrow,
           \A c \in calls' :
              \/ /\ c \in calls
                 /\ c.fresh => /\ signedIn' = signedIn
                               /\ c.ask # "list" => /\ creation'.intent = creation.intent
                                                    /\ creation'.result = creation.result
                               /\ c.ask = "get" => creation'.uncertain
              \/ c \in GivenUp(calls)
    PROVE  CallsInv'
<1>1. ASSUME NEW c \in calls' PROVE CallOK(c)' /\ (c.fresh => c \in calls)
  <2>1. ASSUME c \in calls,
               c.fresh => /\ signedIn' = signedIn
                          /\ c.ask # "list" => /\ creation'.intent = creation.intent
                                               /\ creation'.result = creation.result
                          /\ c.ask = "get" => creation'.uncertain
        PROVE  CallOK(c)'
    BY <2>1, CallKept
  <2>2. CASE c \in GivenUp(calls)
    <3>1. PICK d \in calls : d.ask = "post" /\ c = [d EXCEPT !.fresh = FALSE]
      BY <2>2 DEF GivenUp
    <3>2. d \in Calls
      BY DEF CreationInv, CreationTypeOK
    <3>3. /\ c.ask = "post" /\ c.intent = d.intent /\ c.bars = d.bars /\ c.actor = d.actor /\ ~ c.fresh
      BY <3>1, <3>2 DEF Calls
    <3>4. CallOK(d) /\ d.bars \subseteq Workspaces
      BY <3>2 DEF CreationInv, CallsInv, Calls
    <3>5. \A w \in d.bars : bar'[w] = d.intent
      BY <3>1, <3>4 DEF CallOK, TablesGrow
    <3> QED BY <3>1, <3>3, <3>4, <3>5 DEF CallOK
  <2> QED BY <1>1, <2>1, <2>2
<1> QED BY <1>1 DEF CreationInv, CallsInv, OneAwaited

\* What giving calls up leaves of them.
LEMMA GivenUpCalls ==
    ASSUME CreationTypeOK, NEW S \in SUBSET calls
    PROVE  /\ GivenUp(S) \subseteq Calls
           /\ \A c \in GivenUp(S) : ~ c.fresh /\ c.ask = "post" /\ \E d \in S : c.intent = d.intent
           /\ GivenUp(S) \subseteq GivenUp(calls)
<1>1. ASSUME NEW d \in S
      PROVE  /\ [d EXCEPT !.fresh = FALSE] \in Calls
             /\ ~ [d EXCEPT !.fresh = FALSE].fresh
             /\ [d EXCEPT !.fresh = FALSE].ask = d.ask
             /\ [d EXCEPT !.fresh = FALSE].intent = d.intent
  <2>1. d \in Calls
    BY DEF CreationTypeOK
  <2> QED BY <2>1 DEF Calls
<1> QED BY <1>1 DEF GivenUp

\* A request that reaches the server is answered with what is true of it, if
\* somebody waits for the answer, and forgotten otherwise.
LEMMA AnsweredStep ==
    ASSUME CreationInv, TablesGrow, UNCHANGED <<signedIn, creation, shelf, letGo>>,
           NEW c \in calls, NEW status \in {"ok", "missing", "refused"}, NEW bars \in SUBSET Workspaces,
           NEW total \in Nat, Answered(c, status, bars, total),
           c.ask # "list" => \A w \in bars : bar'[w] = c.intent,
           c.ask = "list" => \A w \in bars : member'[w][c.actor] # "none"
    PROVE  CreationInv'
<1> DEFINE d == [c EXCEPT !.status = status, !.bars = bars, !.total = total]
<1>1. c \in Calls /\ CallOK(c)
  BY DEF CreationInv, CreationTypeOK, CallsInv
<1>2. /\ d \in Calls /\ d.ask = c.ask /\ d.fresh = c.fresh /\ d.intent = c.intent /\ d.actor = c.actor
      /\ d.bars = bars
  BY <1>1 DEF Calls
<1>3. calls' = (calls \ {c}) \union IF c.fresh THEN {d} ELSE {}
  BY DEF Answered
<1> HIDE DEF d
<1>4. CreationTypeOK'
  BY <1>2, <1>3 DEF CreationInv, CreationTypeOK, TablesGrow
<1>5. Live' \subseteq Live
  BY <1>2, <1>3 DEF Live
<1>6. CallsInv'
  <2>1. CallOK(c)'
    BY CallKept DEF CreationInv, CallsInv, CallOK
  <2>2. CallOK(d)'
    BY <1>2, <2>1 DEF CallOK
  <2>3. \A e \in calls : CallOK(e)'
    BY CallKept DEF CreationInv, CallsInv, CallOK
  <2>4. OneAwaited'
    BY <1>2, <1>3 DEF CreationInv, CallsInv, OneAwaited
  <2> QED BY <1>3, <2>2, <2>3, <2>4 DEF CallsInv
<1>7. FormInv'
  <2>1. Busy => Busy'
    BY <1>2, <1>3 DEF Busy
  <2> QED BY <2>1, FormKept
<1> QED BY <1>4, <1>5, <1>6, <1>7, IntentsKept, ShelfKept, LetGoKept DEF CreationInv, TablesGrow

-----------------------------------------------------------------------------
(* The steps of the server and of everybody else.                            *)

LEMMA ServeCreationStep ==
    ASSUME CreationInv, NEW c \in calls, ServeCreation(c)
    PROVE  CreationInv'
<1> DEFINE i == c.intent
           made == CreatedBy(i.actor, i.requestId)
<1>1. c \in Calls /\ CallOK(c) /\ c.ask = "post" /\ i \in Creation /\ i # NoRow
  BY DEF CreationInv, CreationTypeOK, CallsInv, CallOK, ServeCreation
<1>2. i \in Live
  BY <1>1 DEF Live
<1>3. CASE made = {}
  <2>1. PICK w \in Workspaces : CreateBar(i.actor, w, i.requestId, i.fingerprint) /\ Answered(c, "ok", {w}, 1)
    BY <1>3 DEF ServeCreation
  <2>2. /\ i.actor \in Users /\ i.requestId \in BarRequestIds /\ i.fingerprint \in BarPayloads
        /\ i = [actor |-> i.actor, requestId |-> i.requestId, fingerprint |-> i.fingerprint]
    BY <1>1 DEF Creation
  <2>3. \A j \in Live : j.requestId = i.requestId => j = i
    BY <1>2 DEF CreationInv, IntentsInv
  <2>4. TablesGrow
    BY <2>1, <2>2, <2>3, NewBarGrows
  <2>5. bar'[w] = i
    BY <2>1, <2>2 DEF CreateBar, CreationInv, CreationTypeOK, BarsTypeOK
  <2>6. UNCHANGED <<signedIn, creation, shelf, letGo>>
    BY DEF ServeCreation
  <2> QED BY <1>1, <2>1, <2>4, <2>5, <2>6, AnsweredStep
<1>4. CASE made # {}
  <2>1. UNCHANGED barVars /\ UNCHANGED <<signedIn, creation, shelf, letGo>>
    BY <1>4 DEF ServeCreation
  <2>2. TablesGrow
    BY <2>1, TablesStay
  <2>3. \A w \in made : w \in Workspaces /\ bar'[w] = i
    BY <1>2, <2>1 DEF CreatedBy, CreationInv, IntentsInv, barVars
  <2>4. Answered(c, "ok", made, 1) \/ Answered(c, "refused", {}, 0)
    BY <1>4 DEF ServeCreation
  <2> HIDE DEF made
  <2>5. CASE Answered(c, "ok", made, 1)
    BY <1>1, <2>1, <2>2, <2>3, <2>5, AnsweredStep
  <2>6. CASE Answered(c, "refused", {}, 0)
    BY <1>1, <2>1, <2>2, <2>6, AnsweredStep
  <2> QED BY <2>4, <2>5, <2>6
<1> QED BY <1>3, <1>4

LEMMA ServeReceiptStep ==
    ASSUME CreationInv, NEW c \in calls, ServeCreationReceipt(c)
    PROVE  CreationInv'
<1> DEFINE made == { w \in CreatedBy(c.intent.actor, c.intent.requestId) : Active(w, c.intent.actor) }
           status == IF made = {} THEN "missing" ELSE "ok"
<1>1. c \in Calls /\ CallOK(c) /\ c.ask = "get" /\ c.intent # NoRow
  BY DEF CreationInv, CreationTypeOK, CallsInv, CallOK, ServeCreationReceipt
<1>2. c.intent \in Live
  BY <1>1 DEF Live
<1>3. UNCHANGED barVars /\ UNCHANGED <<signedIn, creation, shelf, letGo>>
  BY DEF ServeCreationReceipt
<1>4. TablesGrow
  BY <1>3, TablesStay
<1>5. \A w \in made : w \in Workspaces /\ bar'[w] = c.intent
  BY <1>2, <1>3 DEF CreatedBy, CreationInv, IntentsInv, barVars
<1>6. Answered(c, status, made, 1) /\ status \in {"ok", "missing", "refused"}
  BY DEF ServeCreationReceipt
<1> HIDE DEF made, status
<1> QED BY <1>1, <1>3, <1>4, <1>5, <1>6, AnsweredStep

LEMMA ServeBarsStep ==
    ASSUME CreationInv, NEW c \in calls, ServeBars(c)
    PROVE  CreationInv'
<1> DEFINE all == BarsOf(c.actor)
           rows == Rows(all, c.page - 1, c.page)
<1>1. c \in Calls /\ c.ask = "list" /\ c.actor \in Users
  BY DEF CreationInv, CreationTypeOK, Calls, ServeBars
<1>2. UNCHANGED barVars /\ UNCHANGED <<signedIn, creation, shelf, letGo>>
  BY DEF ServeBars
<1>3. TablesGrow
  BY <1>2, TablesStay
<1>4. all \subseteq Workspaces /\ Cardinality(all) \in Nat
  BY CreationAssumption, FS_Subset, FS_CardinalityType DEF BarsOf
<1>5. \A w \in rows : w \in Workspaces /\ member'[w][c.actor] # "none"
  BY <1>2 DEF Rows, BarsOf, Active, barVars
<1>6. Answered(c, "ok", rows, Cardinality(all))
  BY DEF ServeBars
<1> HIDE DEF all, rows
<1> QED BY <1>1, <1>2, <1>3, <1>4, <1>5, <1>6, AnsweredStep

\* A call that vanishes, and the steps of everybody else, touch nothing here.
LEMMA AsideStep ==
    ASSUME CreationInv, TablesGrow, UNCHANGED <<signedIn, creation, shelf, letGo>>,
           calls' = calls \/ \E c \in calls : ~ c.fresh /\ calls' = calls \ {c}
    PROVE  CreationInv'
<1>1. CreationTypeOK'
  BY DEF CreationInv, CreationTypeOK, TablesGrow
<1>2. Live' \subseteq Live
  BY DEF Live
<1>3. CallsInv'
  <2>1. \A c \in calls : c.fresh /\ c.ask = "get" => creation.uncertain
    BY DEF CreationInv, CallsInv, CallOK
  <2> QED BY <2>1, CallsKept
<1>4. FormInv'
  BY FormKept DEF Busy
<1> QED BY <1>1, <1>2, <1>3, <1>4, IntentsKept, ShelfKept, LetGoKept DEF CreationInv, TablesGrow

LEMMA BarsElsewhereStep == CreationInv /\ BarsElsewhere => CreationInv'
<1> SUFFICES ASSUME CreationInv, BarsElsewhere PROVE CreationInv'
  OBVIOUS
<1>1. ASSUME NEW u \in Users, NEW w \in Workspaces, NEW r \in BarRequestIds, NEW payload \in BarPayloads,
             Unused(r), CreateBar(u, w, r, payload)
      PROVE  TablesGrow
  <2>1. \A i \in Live : i.requestId # r
    BY <1>1 DEF Live, Unused
  <2> QED BY <1>1, <2>1, NewBarGrows
<1>2. TablesGrow
  BY <1>1, MembershipChangeGrows DEF BarsElsewhere, Precondition
<1> QED BY <1>2, AsideStep DEF BarsElsewhere, creationVars

-----------------------------------------------------------------------------
(* The steps of the list and of the form: the tables stay.                   *)

LEMMA NewCall ==
    ASSUME CreationTypeOK, signedIn # Nobody, NEW ask \in {"post", "get", "list"},
           NEW intent \in Creation \union {NoRow}, NEW page \in Nat
    PROVE  /\ Call(ask, intent, page) \in Calls
           /\ Call(ask, intent, page).ask = ask
           /\ Call(ask, intent, page).intent = intent
           /\ Call(ask, intent, page).fresh
           /\ Call(ask, intent, page).actor = signedIn
           /\ Call(ask, intent, page).bars = {}
BY DEF Call, Calls, CreationTypeOK

LEMMA LoadBarsStep ==
    ASSUME CreationInv, NEW first \in BOOLEAN, LoadBars(first)
    PROVE  CreationInv'
<1> DEFINE page == IF first THEN 1 ELSE shelf.page + 1
<1>1. UNCHANGED <<signedIn, creation, letGo>> /\ UNCHANGED barVars
  BY DEF LoadBars
<1>2. TablesGrow
  BY <1>1, TablesStay
<1>a. page \in Nat /\ signedIn # Nobody
  BY DEF LoadBars, CreationInv, CreationTypeOK
<1>b. calls' = { c \in calls : c.ask # "list" } \union {Call("list", NoRow, page)}
  BY DEF LoadBars
<1> HIDE DEF page
<1>3. PICK new \in Calls :
         /\ new = Call("list", NoRow, page) /\ new.ask = "list" /\ new.intent = NoRow
         /\ new.fresh /\ new.actor = signedIn /\ new.bars = {}
  BY <1>a, NewCall DEF CreationInv
<1>4. calls' = { c \in calls : c.ask # "list" } \union {new}
  BY <1>3, <1>b
<1>5. shelf'.bars = {} \/ shelf' = shelf
  BY DEF LoadBars, CreationInv, CreationTypeOK
<1>6. CreationTypeOK'
  BY <1>1, <1>2, <1>3, <1>4 DEF LoadBars, CreationInv, CreationTypeOK, TablesGrow
<1>7. Live' \subseteq Live
  BY <1>1, <1>3, <1>4 DEF Live
<1>8. CallsInv'
  <2>1. CallOK(new)'
    BY <1>1, <1>3 DEF CallOK
  <2>2. \A c \in calls : CallOK(c)'
    BY <1>1, <1>2, CallKept DEF CreationInv, CallsInv, CallOK
  <2>3. OneAwaited'
    BY <1>3, <1>4 DEF CreationInv, CallsInv, OneAwaited
  <2> QED BY <1>4, <2>1, <2>2, <2>3 DEF CallsInv
<1>9. FormInv'
  BY <1>1, <1>2, <1>4, FormKept DEF Busy
<1> QED BY <1>1, <1>2, <1>5, <1>6, <1>7, <1>8, <1>9, IntentsKept, ShelfKept, LetGoKept DEF CreationInv, TablesGrow

LEMMA BarsLoadedStep ==
    ASSUME CreationInv, NEW c \in calls, BarsLoaded(c)
    PROVE  CreationInv'
<1>1. UNCHANGED <<signedIn, creation, letGo>> /\ UNCHANGED barVars /\ calls' = calls \ {c} /\ c.ask = "list"
  BY DEF BarsLoaded
<1>2. TablesGrow
  BY <1>1, TablesStay
<1>3. c \in Calls /\ CallOK(c) /\ c.fresh
  BY DEF CreationInv, CreationTypeOK, CallsInv, BarsLoaded
<1>4. shelf' = [bars |-> (IF c.page = 1 THEN {} ELSE shelf.bars) \union c.bars, total |-> c.total, page |-> c.page]
  BY DEF BarsLoaded
<1>5. CreationTypeOK'
  BY <1>1, <1>2, <1>3, <1>4 DEF CreationInv, CreationTypeOK, TablesGrow, Calls
<1>6. ShelfInv'
  <2>1. c.actor = signedIn /\ signedIn # Nobody
    BY <1>3, CreationAssumption DEF CallOK, Calls
  <2>2. \A w \in c.bars : member[w][signedIn] # "none"
    BY <1>1, <1>3, <2>1 DEF CallOK
  <2>3. member' = member /\ signedIn' = signedIn
    BY <1>1 DEF barVars
  <2> QED BY <1>4, <2>1, <2>2, <2>3 DEF CreationInv, ShelfInv
<1>7. Live' \subseteq Live
  BY <1>1 DEF Live
<1>8. CallsInv'
  <2>1. \A d \in calls : d.fresh /\ d.ask = "get" => creation.uncertain
    BY DEF CreationInv, CallsInv, CallOK
  <2> QED BY <1>1, <1>2, <2>1, CallsKept
<1>9. FormInv'
  BY <1>1, <1>2, FormKept DEF Busy
<1> QED BY <1>1, <1>2, <1>5, <1>6, <1>7, <1>8, <1>9, IntentsKept, LetGoKept DEF CreationInv, TablesGrow

\* A new attempt of the form's intention: nothing else is awaited.
LEMMA AttemptStep ==
    ASSUME CreationInv, UNCHANGED <<signedIn, shelf, letGo>>, UNCHANGED barVars, CreationTypeOK',
           signedIn # Nobody, ~ Busy, NEW ask \in {"post", "get"},
           creation'.intent \in Creation, creation'.intent # NoRow, creation'.intent.actor = signedIn,
           creation'.result = NoRow, ask = "get" => creation'.uncertain,
           calls' = calls \union {Call(ask, creation'.intent, 0)},
           IntentsInv'
    PROVE  CreationInv'
<1>1. TablesGrow
  BY TablesStay
<1>2. PICK new \in Calls :
         /\ new = Call(ask, creation'.intent, 0) /\ new.ask = ask /\ new.intent = creation'.intent
         /\ new.fresh /\ new.actor = signedIn /\ new.bars = {}
  BY NewCall DEF CreationInv
<1>3. calls' = calls \union {new}
  BY <1>2
<1>4. CallsInv'
  <2>1. CallOK(new)'
    BY <1>2 DEF CallOK
  <2>2. \A c \in calls : CallOK(c)'
    BY <1>1, CallKept DEF Busy
  <2>3. OneAwaited'
    BY <1>2, <1>3 DEF Busy, OneAwaited
  <2> QED BY <1>3, <2>1, <2>2, <2>3 DEF CallsInv
<1>5. FormInv'
  <2>1. Busy'
    BY <1>2, <1>3 DEF Busy
  <2> QED BY <2>1 DEF FormInv
<1> QED BY <1>1, <1>4, <1>5, ShelfKept, LetGoKept DEF CreationInv, TablesGrow

LEMMA CreateStep ==
    ASSUME CreationInv, NEW r \in BarRequestIds, NEW payload \in BarPayloads, Create(r, payload)
    PROVE  CreationInv'
<1> DEFINE i == [actor |-> signedIn, requestId |-> r, fingerprint |-> payload]
<1>1. signedIn \in Users /\ i \in Creation /\ i # NoRow
  BY NoRowIsNoCreation DEF Create, CreationInv, CreationTypeOK, Creation
<1>2. i.actor = signedIn /\ i.requestId = r
  OBVIOUS
<1>3. creation' = [creation EXCEPT !.intent = i, !.notFound = FALSE] /\ calls' = calls \union {Call("post", i, 0)}
  BY DEF Create
<1>4. Unused(r) /\ ~ Busy /\ creation.result = NoRow /\ signedIn # Nobody
      /\ UNCHANGED <<signedIn, shelf, letGo>> /\ UNCHANGED barVars
  BY DEF Create
<1> HIDE DEF i
<1>5. creation'.intent = i /\ creation'.result = NoRow
  BY <1>3, <1>4 DEF CreationInv, CreationTypeOK
<1>6. Call("post", i, 0) \in Calls /\ Call("post", i, 0).intent = i
  BY <1>1, <1>4, NewCall DEF CreationInv
<1>7. CreationTypeOK'
  BY <1>1, <1>3, <1>4, <1>6, TablesStay DEF CreationInv, CreationTypeOK, TablesGrow
<1>8. IntentsInv'
  <2>1. Live' \subseteq Live \union {i}
    BY <1>3, <1>5, <1>6 DEF Live
  <2>2. \A j \in Live : j.requestId # r
    BY <1>4 DEF Live, Unused
  <2>3. \A w \in Workspaces : bar'[w] # NoRow => bar'[w].requestId # r
    BY <1>4 DEF Unused, barVars
  <2>4. bar' = bar
    BY <1>4 DEF barVars
  <2> QED BY <1>2, <2>1, <2>2, <2>3, <2>4 DEF CreationInv, IntentsInv
<1> QED BY <1>1, <1>2, <1>3, <1>4, <1>5, <1>7, <1>8, AttemptStep

\* retry() and inspect() speak of the intention that is uncertain.
LEMMA AgainStep == CreationInv /\ (RetryCreation \/ InspectCreation) => CreationInv'
<1> SUFFICES ASSUME CreationInv, RetryCreation \/ InspectCreation PROVE CreationInv'
  OBVIOUS
<1> DEFINE i == creation.intent
<1>1. /\ UNCHANGED <<signedIn, shelf, letGo>> /\ UNCHANGED barVars
      /\ creation.uncertain /\ ~ Busy
      /\ creation' = [creation EXCEPT !.notFound = FALSE]
  BY DEF RetryCreation, InspectCreation
<1>2. PICK ask \in {"post", "get"} : calls' = calls \union {Call(ask, i, 0)}
  BY DEF RetryCreation, InspectCreation
<1>3. i # NoRow /\ i \in Creation /\ i.actor = signedIn
  BY <1>1 DEF CreationInv, FormInv, CreationTypeOK
<1>4. signedIn # Nobody
  BY <1>3, CreationAssumption DEF Creation
<1>5. creation'.intent = i /\ creation'.uncertain /\ creation'.result = creation.result
  BY <1>1 DEF CreationInv, CreationTypeOK
<1>6. Call(ask, i, 0) \in Calls /\ Call(ask, i, 0).intent = i
  BY <1>3, <1>4, NewCall DEF CreationInv
<1>7. CreationTypeOK'
  BY <1>1, <1>2, <1>6, TablesStay DEF CreationInv, CreationTypeOK, TablesGrow
<1>8. IntentsInv'
  <2>1. Live' \subseteq Live
    BY <1>2, <1>3, <1>5, <1>6 DEF Live
  <2> QED BY <1>1, <2>1, TablesStay, IntentsKept
<1>9. creation.result = NoRow
  BY <1>1 DEF CreationInv, FormInv
<1> QED BY <1>1, <1>2, <1>3, <1>4, <1>5, <1>7, <1>8, <1>9, AttemptStep

\* The one call awaited confirms the intention: nothing else is.
LEMMA CreationSucceededStep ==
    ASSUME CreationInv, NEW c \in calls, CreationSucceeded(c)
    PROVE  CreationInv'
<1>1. /\ UNCHANGED <<signedIn, letGo>> /\ UNCHANGED barVars
      /\ c.ask # "list" /\ c.fresh
  BY DEF CreationSucceeded
<1>2. TablesGrow
  BY <1>1, TablesStay
<1>3. c \in Calls /\ CallOK(c)
  BY DEF CreationInv, CreationTypeOK, CallsInv
<1>4. PICK w \in c.bars : creation' = [creation EXCEPT !.result = w, !.uncertain = FALSE, !.notFound = FALSE]
  BY DEF CreationSucceeded
<1>5. /\ creation.intent = c.intent /\ creation.intent # NoRow /\ creation.intent.actor = signedIn
      /\ signedIn # Nobody
  BY <1>1, <1>3, CreationAssumption DEF CallOK, CreationInv, FormInv, Calls
<1>6. w \in Workspaces /\ bar[w] = creation.intent /\ bar' = bar
  BY <1>1, <1>3, <1>5 DEF CallOK, Calls, barVars
<1>7. /\ creation'.intent = creation.intent /\ creation'.result = w /\ creation'.uncertain = FALSE
      /\ creation' \in [intent : Creation \union {NoRow}, uncertain : BOOLEAN, notFound : BOOLEAN,
                        result : Workspaces \union {NoRow}]
  BY <1>4, <1>6 DEF CreationInv, CreationTypeOK
<1>8. FormInv'
  BY <1>1, <1>5, <1>6, <1>7 DEF FormInv
<1>9. \A d \in calls \ {c} : d.ask # "list" => ~ d.fresh
  BY <1>1 DEF CreationInv, CallsInv, OneAwaited
<1>10. ASSUME NEW d \in calls \ {c} PROVE CallOK(d)'
  BY <1>1, <1>2, <1>9, CallKept
<1>11. CASE /\ calls' = { d \in calls \ {c} : d.ask # "list" } \union {Call("list", NoRow, 1)}
            /\ shelf' = [shelf EXCEPT !.bars = {}, !.total = 0]
  <2>1. PICK new \in Calls :
           /\ new = Call("list", NoRow, 1) /\ new.ask = "list" /\ new.intent = NoRow
           /\ new.fresh /\ new.actor = signedIn /\ new.bars = {}
    BY <1>5, NewCall DEF CreationInv
  <2>2. calls' = { d \in calls \ {c} : d.ask # "list" } \union {new}
    BY <1>11, <2>1
  <2>3. CreationTypeOK'
    BY <1>1, <1>2, <1>7, <1>11, <2>2 DEF CreationInv, CreationTypeOK, TablesGrow
  <2>4. Live' \subseteq Live
    BY <1>7, <2>1, <2>2 DEF Live
  <2>5. CallsInv'
    <3>1. CallOK(new)'
      BY <1>1, <2>1 DEF CallOK
    <3>2. OneAwaited'
      BY <1>9, <2>1, <2>2 DEF OneAwaited
    <3> QED BY <1>10, <2>2, <3>1, <3>2 DEF CallsInv
  <2>6. shelf'.bars = {}
    BY <1>11 DEF CreationInv, CreationTypeOK
  <2> QED BY <1>1, <1>2, <1>8, <2>3, <2>4, <2>5, <2>6, IntentsKept, ShelfKept, LetGoKept
          DEF CreationInv, TablesGrow
<1>12. CASE calls' = calls \ {c} /\ UNCHANGED shelf
  <2>1. CreationTypeOK'
    BY <1>1, <1>2, <1>7, <1>12 DEF CreationInv, CreationTypeOK, TablesGrow
  <2>2. Live' \subseteq Live
    BY <1>7, <1>12 DEF Live
  <2>3. CallsInv'
    BY <1>10, <1>12 DEF CreationInv, CallsInv, OneAwaited
  <2> QED BY <1>1, <1>2, <1>8, <1>12, <2>1, <2>2, <2>3, IntentsKept, ShelfKept, LetGoKept
          DEF CreationInv, TablesGrow
<1> QED BY <1>11, <1>12 DEF CreationSucceeded

\* What is not confirmed is uncertain: the form lets go of nothing.
LEMMA NotConfirmedStep ==
    ASSUME CreationInv, NEW c \in calls, NotConfirmed(c)
    PROVE  CreationInv'
<1>1. /\ UNCHANGED <<signedIn, shelf, letGo>> /\ UNCHANGED barVars
      /\ c.fresh /\ calls' = (calls \ {c}) \union GivenUp({c})
  BY DEF NotConfirmed
<1>2. TablesGrow
  BY <1>1, TablesStay
<1>3. c \in Calls /\ CallOK(c)
  BY DEF CreationInv, CreationTypeOK, CallsInv
<1>4. /\ creation'.intent = creation.intent /\ creation'.result = creation.result
      /\ creation'.uncertain = (creation.uncertain \/ c.ask = "post")
      /\ creation' \in [intent : Creation \union {NoRow}, uncertain : BOOLEAN, notFound : BOOLEAN,
                        result : Workspaces \union {NoRow}]
  BY <1>3 DEF NotConfirmed, CreationInv, CreationTypeOK, Calls
<1>5. /\ GivenUp({c}) \subseteq Calls /\ GivenUp({c}) \subseteq GivenUp(calls)
      /\ \A d \in GivenUp({c}) : d.intent = c.intent
  BY GivenUpCalls DEF CreationInv
<1>6. CreationTypeOK'
  BY <1>1, <1>2, <1>4, <1>5 DEF CreationInv, CreationTypeOK, TablesGrow
<1>7. Live' \subseteq Live
  BY <1>1, <1>4, <1>5 DEF Live
<1>8. CallsInv'
  <2>1. \A d \in calls : d.fresh /\ d.ask = "get" => creation.uncertain
    BY DEF CreationInv, CallsInv, CallOK
  <2> QED BY <1>1, <1>2, <1>4, <1>5, <2>1, CallsKept
<1>9. FormInv'
  <2>1. creation'.intent # NoRow =>
           Busy' \/ creation'.uncertain \/ \E w \in Workspaces : bar'[w] = creation'.intent
    <3>1. CASE c.ask = "post"
      BY <1>4, <3>1
    <3>2. CASE c.ask = "get"
      BY <1>1, <1>3, <1>4, <3>2 DEF CallOK
    <3>3. CASE c.ask = "list"
      <4>1. Busy => Busy'
        BY <1>1, <3>3 DEF Busy
      <4> QED BY <1>1, <1>4, <4>1 DEF CreationInv, FormInv, barVars
    <3> QED BY <1>3, <3>1, <3>2, <3>3 DEF Calls
  <2>2. c.ask = "post" => creation.intent # NoRow /\ creation.result = NoRow
    BY <1>1, <1>3 DEF CallOK
  <2> QED BY <1>1, <1>4, <2>1, <2>2 DEF CreationInv, FormInv, barVars
<1> QED BY <1>1, <1>2, <1>6, <1>7, <1>8, <1>9, IntentsKept, ShelfKept, LetGoKept DEF CreationInv, TablesGrow

\* The form closes on an intention that is neither awaited nor uncertain: it is
\* recorded.
LEMMA CancelCreationStep == CreationInv /\ CancelCreation => CreationInv'
<1> SUFFICES ASSUME CreationInv, CancelCreation PROVE CreationInv'
  OBVIOUS
<1>1. /\ UNCHANGED <<signedIn, shelf, calls>> /\ UNCHANGED barVars
      /\ ~ Busy /\ ~ creation.uncertain /\ creation.intent # NoRow
      /\ letGo' = letGo \union {creation.intent} /\ creation' = NoCreation
  BY DEF CancelCreation
<1>2. TablesGrow
  BY <1>1, TablesStay
<1>3. creation'.intent = NoRow /\ creation'.result = NoRow /\ ~ creation'.uncertain
  BY <1>1 DEF NoCreation
<1>4. CreationTypeOK'
  BY <1>1, <1>2 DEF CreationInv, CreationTypeOK, TablesGrow, NoCreation
<1>5. Live' \subseteq Live
  BY <1>1, <1>3 DEF Live
<1>6. CallsInv'
  <2>1. \A c \in calls : c.fresh => c.ask = "list"
    BY <1>1 DEF Busy
  <2> QED BY <1>1, <1>2, <2>1, CallsKept
<1>7. LetGoInv'
  <2>1. \E w \in Workspaces : bar[w] = creation.intent
    BY <1>1 DEF CreationInv, FormInv
  <2> QED BY <1>1, <2>1 DEF CreationInv, LetGoInv, barVars
<1>8. FormInv'
  BY <1>3 DEF FormInv
<1> QED BY <1>1, <1>2, <1>4, <1>5, <1>6, <1>7, <1>8, IntentsKept, ShelfKept DEF CreationInv, TablesGrow

\* Whatever clears the page leaves nothing of it but requests on their way.
LEMMA ClearedStep ==
    ASSUME CreationInv, Cleared, UNCHANGED barVars, letGo' = letGo,
           signedIn' \in Users \union {Nobody}
    PROVE  CreationInv'
<1>1. creation' = NoCreation /\ shelf' = NoShelf /\ calls' = GivenUp(calls)
  BY DEF Cleared
<1>2. TablesGrow
  BY TablesStay
<1>3. creation'.intent = NoRow /\ creation'.result = NoRow /\ ~ creation'.uncertain /\ shelf'.bars = {}
  BY <1>1 DEF NoCreation, NoShelf
<1>4. GivenUp(calls) \subseteq Calls /\ \A c \in GivenUp(calls) : \E d \in calls : c.intent = d.intent
  BY GivenUpCalls DEF CreationInv
<1>5. CreationTypeOK'
  BY <1>1, <1>2, <1>4 DEF CreationInv, CreationTypeOK, TablesGrow, NoCreation, NoShelf
<1>6. Live' \subseteq Live
  BY <1>1, <1>3, <1>4 DEF Live
<1>7. CallsInv'
  BY <1>1, <1>2, CallsKept
<1>8. FormInv'
  BY <1>3 DEF FormInv
<1> QED BY <1>2, <1>3, <1>5, <1>6, <1>7, <1>8, IntentsKept, ShelfKept, LetGoKept DEF CreationInv, TablesGrow

-----------------------------------------------------------------------------

LEMMA CreationInitOK == CreationInit => CreationInv
<1> SUFFICES ASSUME CreationInit PROVE CreationInv
  OBVIOUS
<1>1. BarsTypeOK /\ BarsInv
  BY BarsInitOK DEF CreationInit
<1>2. /\ signedIn = Nobody /\ creation = NoCreation /\ shelf = NoShelf /\ calls = {} /\ letGo = {}
  BY DEF CreationInit, SwitcherInit
<1>3. creation.intent = NoRow /\ creation.result = NoRow /\ ~ creation.uncertain /\ shelf.bars = {}
  BY <1>2 DEF NoCreation, NoShelf
<1>4. CreationTypeOK
  BY <1>1, <1>2 DEF CreationTypeOK, NoCreation, NoShelf
<1>5. Live = {}
  BY <1>2, <1>3 DEF Live
<1>6. IntentsInv
  BY <1>5 DEF IntentsInv
<1>7. CallsInv
  BY <1>2 DEF CallsInv, OneAwaited
<1> QED BY <1>1, <1>2, <1>3, <1>4, <1>6, <1>7 DEF CreationInv, FormInv, ShelfInv, LetGoInv

LEMMA CreationStep == CreationInv /\ [CreationNext]_<<barVars, creationVars>> => CreationInv'
<1> SUFFICES ASSUME CreationInv, [CreationNext]_<<barVars, creationVars>> PROVE CreationInv'
  OBVIOUS
<1>1. ASSUME NEW u \in Users, SignedIn(u) PROVE CreationInv'
  BY <1>1, ClearedStep DEF SignedIn
<1>2. CASE SignedOut
  BY <1>2, ClearedStep DEF SignedOut
<1>3. CASE PageLeft
  <2>1. signedIn \in Users \union {Nobody}
    BY DEF CreationInv, CreationTypeOK
  <2> QED BY <1>3, <2>1, ClearedStep DEF PageLeft
<1>4. ASSUME NEW c \in calls, Vanish(c) PROVE CreationInv'
  BY <1>4, TablesStay, AsideStep DEF Vanish
<1>5. CASE UNCHANGED <<barVars, creationVars>>
  <2>1. TablesGrow
    BY <1>5, TablesStay
  <2> QED BY <1>5, <2>1, AsideStep DEF creationVars
<1> QED BY <1>1, <1>2, <1>3, <1>4, <1>5, LoadBarsStep, CreateStep, AgainStep, CancelCreationStep,
           ServeCreationStep, ServeReceiptStep, ServeBarsStep, BarsLoadedStep, CreationSucceededStep,
           NotConfirmedStep, BarsElsewhereStep DEF CreationNext

\* In every reachable state the intentions of the page and of its requests agree
\* with the tables, and none is let go of that is not recorded.
THEOREM CreationInvariant == CreationSpec => []CreationInv
BY CreationInitOK, CreationStep, PTL DEF CreationSpec

LEMMA CreationInvSettles == CreationInv => CreationsAreSettled
<1> SUFFICES ASSUME CreationInv PROVE CreationsAreSettled
  OBVIOUS
<1>1. ASSUME NEW i \in letGo
      PROVE  \E w \in Workspaces : CreatedBy(i.actor, i.requestId) = {w} /\ bar[w] = i
  <2>1. PICK w \in Workspaces : bar[w] = i
    BY DEF CreationInv, LetGoInv
  <2>2. i # NoRow
    BY NoRowIsNoCreation DEF CreationInv, CreationTypeOK
  <2>3. CreatedBy(i.actor, i.requestId) = {w}
    BY <2>1, <2>2 DEF CreatedBy, CreationInv, BarsInv, OneBarPerIntention
  <2> QED BY <2>1, <2>3
<1> QED BY <1>1 DEF CreationsAreSettled, CreationInv, FormInv, ShelfInv

\* The Bar announced is that of the form's intention, an intention let go of made
\* exactly one Bar, and the account shown sees no Bar of another one.
THEOREM CreationsSettled == CreationSpec => []CreationsAreSettled
BY CreationInvariant, CreationInvSettles, PTL
-----------------------------------------------------------------------------
(* The members of a Bar (BarMembers).  Access versions date the memberships  *)
(* (BarsMembershipIsDated), so a claim about a version is either about the    *)
(* members of now or about nothing any more.                                 *)

\* What is claimed of a version holds of it, and it has been reached.
Claim(version, items, page) ==
    /\ WhatWasShown(version, items, page)
    /\ version # NoVersion => version <= accessVersion[Managed]

\* A page that was answered continues the pages shown.
ListInv ==
    Awaited({"list"}) =>
        /\ pending.page = IF pending.first THEN 1 ELSE panel.page + 1
        /\ pending.answer.status = "ok" =>
              /\ pending.answer.version \in Version
              /\ pending.answer.version <= accessVersion[Managed]
              /\ pending.answer.version = accessVersion[Managed] =>
                    pending.answer.items = Rows(ActiveMembers, pending.page - 1, pending.page)

SentInv ==
    \A c \in { c \in late \union {pending} : IsCommand(c) } : Claim(c.version, c.shown.items, c.shown.page)

MembersInv ==
    /\ MembersTypeOK
    /\ BarsInv
    /\ Claim(panel.version, panel.items, panel.page)
    /\ ListInv
    /\ SentInv

\* What a step may do to the tables: nothing, or raise the access version.
TablesMove ==
    /\ BarsTypeOK'
    /\ BarsInv'
    /\ UNCHANGED barVars \/ accessVersion'[Managed] > accessVersion[Managed]

\* Consecutive pages make the first pages.
LEMMA PagesJoin ==
    ASSUME NEW S, NEW page \in Nat
    PROVE  /\ Rows(S, 0, page) \union Rows(S, page, page + 1) = Rows(S, 0, page + 1)
           /\ Rows(S, 0, page) \subseteq S
<1>1. ASSUME NEW a \in Nat, NEW b \in Nat, NEW n
      PROVE  n \in 0 .. a + b - 1 <=> n \in 0 .. a - 1 \/ n \in a .. a + b - 1
  OBVIOUS
<1>2. page * PageSize \in Nat /\ PageSize \in Nat /\ 0 * PageSize = 0
  BY PageAssumption
<1>3. (page + 1) * PageSize = page * PageSize + PageSize
  BY PageAssumption
<1>4. \A n : n \in 0 .. (page + 1) * PageSize - 1
               <=> n \in 0 .. page * PageSize - 1 \/ n \in page * PageSize .. (page + 1) * PageSize - 1
  BY <1>1, <1>2, <1>3
<1>5. \A n : n \in 0 * PageSize .. (page + 1) * PageSize - 1
               <=> n \in 0 * PageSize .. page * PageSize - 1 \/ n \in page * PageSize .. (page + 1) * PageSize - 1
  BY <1>2, <1>4, Zenon
<1> QED BY <1>5, Zenon DEF Rows

\* A claim outlives every step: its members are still those of its version.
LEMMA ClaimsLast ==
    ASSUME MembersTypeOK, TablesMove,
           NEW version \in Precondition, NEW items, NEW page,
           Claim(version, items, page)
    PROVE  Claim(version, items, page)'
<1>1. accessVersion[Managed] \in Nat /\ accessVersion'[Managed] \in Nat
  BY MembersAssumption DEF MembersTypeOK, TablesMove, BarsTypeOK, Version
<1>2. version = NoVersion \/ version \in Nat
  BY DEF Precondition, Version
<1>3. CASE UNCHANGED barVars
  BY <1>3 DEF Claim, WhatWasShown, ActiveMembers, Active, barVars
<1>4. CASE accessVersion'[Managed] > accessVersion[Managed]
  BY <1>1, <1>2, <1>4, NoVersionAssumption DEF Claim, WhatWasShown
<1> QED BY <1>3, <1>4 DEF TablesMove

\* An addition or a revocation raises the access version of the Bar.
LEMMA MembershipChangeMovesTables ==
    ASSUME MembersTypeOK, BarsInv, NEW target \in Users, NEW v \in Precondition,
           AddMember(Owner, Managed, target, v) \/ RevokeMember(Owner, Managed, target, v)
    PROVE  TablesMove
<1>1. BarsTypeOK' /\ BarsInv'
  BY MembershipChangePreserves, MembersAssumption DEF MembersTypeOK
<1>2. accessVersion[Managed] \in Nat
  BY MembersAssumption DEF MembersTypeOK, BarsTypeOK, Version
<1>3. accessVersion'[Managed] = accessVersion[Managed] + 1
  BY MembersAssumption DEF AddMember, RevokeMember, MembersTypeOK, BarsTypeOK
<1> QED BY <1>1, <1>2, <1>3 DEF TablesMove

LEMMA MembersStay ==
    ASSUME MembersTypeOK, BarsInv, UNCHANGED barVars
    PROVE  TablesMove
BY DEF TablesMove, MembersTypeOK, BarsTypeOK, BarsInv, OwnerIsCreator, OneBarPerIntention, IsOwner, barVars

-----------------------------------------------------------------------------
(* What the invariant needs of a step, part by part.                         *)

LEMMA PanelClaimKept ==
    ASSUME MembersInv, TablesMove, MembersTypeOK',
           panel'.items = panel.items, panel'.page = panel.page,
           panel'.version = panel.version \/ panel'.version = NoVersion
    PROVE  Claim(panel.version, panel.items, panel.page)'
<1>1. panel.version \in Precondition
  BY DEF MembersInv, MembersTypeOK
<1>2. Claim(panel.version, panel.items, panel.page)
  BY DEF MembersInv
<1>3. CASE panel'.version = panel.version
  <2> DEFINE v == panel.version  i == panel.items  p == panel.page
  <2>1. v' = v /\ i' = i /\ p' = p
    BY <1>3
  <2>2. ASSUME NEW version \in Precondition, NEW items, NEW page, Claim(version, items, page)
        PROVE  Claim(version, items, page)'
    BY <2>2, ClaimsLast DEF MembersInv
  <2>3. \A version \in Precondition : \A items, page :
            Claim(version, items, page) =>
                /\ version = accessVersion'[Managed] => items = Rows(ActiveMembers', 0, page)
                /\ version # NoVersion => version <= accessVersion'[Managed]
    BY <2>2 DEF Claim, WhatWasShown
  <2> QED BY <1>1, <1>2, <2>1, <2>3 DEF Claim, WhatWasShown
<1>4. CASE panel'.version = NoVersion
  <2>1. accessVersion'[Managed] \in Nat
    BY MembersAssumption DEF MembersTypeOK, BarsTypeOK, Version
  <2> QED BY <1>4, <2>1, NoVersionAssumption DEF Claim, WhatWasShown
<1> QED BY <1>3, <1>4

LEMMA ListInvKept ==
    ASSUME MembersInv, TablesMove,
           Awaited({"list"})' => /\ Awaited({"list"})
                                 /\ pending'.page = pending.page /\ pending'.first = pending.first
                                 /\ pending'.answer = pending.answer /\ panel'.page = panel.page
    PROVE  ListInv'
<1>1. SUFFICES ASSUME Awaited({"list"})'
               PROVE  /\ pending'.page = IF pending'.first THEN 1 ELSE panel'.page + 1
                      /\ pending'.answer.status = "ok" =>
                            /\ pending'.answer.version \in Version
                            /\ pending'.answer.version <= accessVersion'[Managed]
                            /\ pending'.answer.version = accessVersion'[Managed] =>
                                  pending'.answer.items = Rows(ActiveMembers', pending'.page - 1, pending'.page)
  BY DEF ListInv
<1>2. accessVersion[Managed] \in Nat /\ accessVersion'[Managed] \in Nat
  BY MembersAssumption DEF MembersInv, MembersTypeOK, TablesMove, BarsTypeOK, Version
<1>3. UNCHANGED barVars => ActiveMembers' = ActiveMembers /\ accessVersion'[Managed] = accessVersion[Managed]
  BY DEF ActiveMembers, Active, barVars
<1> QED BY <1>1, <1>2, <1>3 DEF MembersInv, ListInv, TablesMove, Version

LEMMA SentInvKept ==
    ASSUME MembersInv, TablesMove,
           \A c \in late' \union {pending'} : IsCommand(c) =>
              \E d \in late \union {pending} :
                 IsCommand(d) /\ c.version = d.version /\ c.shown = d.shown
    PROVE  SentInv'
<1>1. SUFFICES ASSUME NEW c \in late' \union {pending'}, IsCommand(c)
               PROVE  Claim(c.version, c.shown.items, c.shown.page)'
  BY DEF SentInv, IsCommand
<1>2. PICK d \in late \union {pending} : IsCommand(d) /\ c.version = d.version /\ c.shown = d.shown
  BY <1>1
<1>3. d.version \in Precondition
  BY <1>2 DEF MembersInv, MembersTypeOK, IsCommand, Commands, ListCalls, CommandCalls, RefreshCalls,
              Precondition
<1>4. Claim(d.version, d.shown.items, d.shown.page)
  BY <1>2 DEF MembersInv, SentInv
<1>5. Claim(d.version, d.shown.items, d.shown.page)'
  <2> DEFINE v == c.version  i == c.shown.items  p == c.shown.page
  <2>1. Claim(v, i, p) /\ v \in Precondition
    BY <1>2, <1>3, <1>4
  <2> HIDE DEF v, i, p
  <2>2. \A version \in Precondition : \A items, page : Claim(version, items, page) => Claim(version, items, page)'
    BY ClaimsLast DEF MembersInv
  <2> QED BY <1>2, <2>1, <2>2 DEF v, i, p
<1> QED BY <1>2, <1>5

-----------------------------------------------------------------------------
(* The steps.  First those of the server and of other tabs.                  *)

LEMMA MembersAreFinite ==
    ActiveMembers \subseteq Users /\ Cardinality(ActiveMembers) \in Nat
BY MembersAssumption, FS_Subset, FS_CardinalityType DEF ActiveMembers

LEMMA ServeMembersStep == MembersInv /\ ServeMembers => MembersInv'
<1> SUFFICES ASSUME MembersInv, ServeMembers PROVE MembersInv'
  OBVIOUS
<1>1. TablesMove
  BY MembersStay DEF MembersInv, ServeMembers
<1>2. pending \in ListCalls
  BY DEF ServeMembers, Awaited, MembersInv, MembersTypeOK, ListCalls, CommandCalls, RefreshCalls, Commands
<1> DEFINE given == [status |-> "ok", version |-> accessVersion[Managed],
                     items |-> Rows(ActiveMembers, pending.page - 1, pending.page),
                     total |-> Cardinality(ActiveMembers)]
<1>3. given \in Answers
  BY MembersAreFinite, MembersAssumption
  DEF MembersInv, MembersTypeOK, BarsTypeOK, Answers, Rows, Precondition
<1>4. pending' = [pending EXCEPT !.answer = given]
  BY DEF ServeMembers
<1> HIDE DEF given
<1>5. /\ pending' \in ListCalls /\ pending'.page = pending.page /\ pending'.first = pending.first
      /\ pending'.answer = given
  BY <1>2, <1>3, <1>4 DEF ListCalls
<1>6. MembersTypeOK'
  BY <1>1, <1>5 DEF MembersInv, MembersTypeOK, ServeMembers, TablesMove
<1>7. Claim(panel.version, panel.items, panel.page)'
  BY <1>1, <1>6, PanelClaimKept DEF ServeMembers
<1>8. ListInv'
  <2>1. accessVersion' = accessVersion /\ ActiveMembers' = ActiveMembers /\ panel' = panel
    BY DEF ServeMembers, barVars, ActiveMembers, Active
  <2>2. accessVersion[Managed] \in Version
    BY MembersAssumption DEF MembersInv, MembersTypeOK, BarsTypeOK
  <2>3. accessVersion[Managed] <= accessVersion[Managed]
    BY <2>2 DEF Version
  <2>4. pending.page = IF pending.first THEN 1 ELSE panel.page + 1
    BY DEF MembersInv, ListInv, ServeMembers
  <2> QED BY <1>5, <2>1, <2>2, <2>3, <2>4 DEF ListInv, given
<1>9. SentInv'
  <2>1. \A c \in late' \union {pending'} : IsCommand(c) => c \in late
    BY <1>5 DEF ServeMembers, IsCommand, Commands, ListCalls
  <2> QED BY <1>1, <2>1, SentInvKept
<1> QED BY <1>1, <1>6, <1>7, <1>8, <1>9 DEF MembersInv, TablesMove

LEMMA ServeCommandStep ==
    ASSUME MembersInv, NEW c \in late \union {pending}, IsCommand(c), ServeCommand(c)
    PROVE  MembersInv'
<1>1. c \in CommandCalls
  BY DEF IsCommand, MembersInv, MembersTypeOK, ListCalls, CommandCalls, RefreshCalls, Commands
<1>2. TablesMove
  <2>1. c.target \in Users /\ c.version \in Precondition
    BY <1>1 DEF CommandCalls, Precondition
  <2>2. Take(c) => TablesMove
    BY <2>1, MembershipChangeMovesTables DEF Take, MembersInv
  <2> QED BY <2>2, MembersStay DEF ServeCommand, MembersInv
<1>3. /\ late' \subseteq late
      /\ \/ pending' = pending
         \/ \E status \in {"ok", "refused"} :
               c = pending /\ pending' = [c EXCEPT !.answer.status = status]
      /\ UNCHANGED <<here, panel>>
  BY DEF ServeCommand, CommandAnswered
<1>4. \/ pending' = pending
      \/ c = pending /\ pending' \in CommandCalls /\ pending'.version = c.version /\ pending'.shown = c.shown
  BY <1>1, <1>3 DEF CommandCalls, Answers
<1>5. MembersTypeOK'
  BY <1>2, <1>3, <1>4 DEF MembersInv, MembersTypeOK, TablesMove
<1>6. Claim(panel.version, panel.items, panel.page)'
  BY <1>2, <1>3, <1>5, PanelClaimKept
<1>7. ListInv'
  <2>1. Awaited({"list"})' => pending' = pending
    BY <1>4 DEF Awaited, CommandCalls, Commands
  <2> QED BY <1>2, <1>3, <2>1, ListInvKept DEF Awaited
<1>8. SentInv'
  BY <1>2, <1>3, <1>4, SentInvKept DEF IsCommand
<1> QED BY <1>2, <1>5, <1>6, <1>7, <1>8 DEF MembersInv, TablesMove

LEMMA MembersElsewhereStep == MembersInv /\ MembersElsewhere => MembersInv'
<1> SUFFICES ASSUME MembersInv, MembersElsewhere PROVE MembersInv'
  OBVIOUS
<1>1. TablesMove
  BY MembershipChangeMovesTables DEF MembersElsewhere, MembersInv, Precondition
<1>2. UNCHANGED <<here, panel, pending, late>>
  BY DEF MembersElsewhere, membersVars
<1>3. MembersTypeOK'
  BY <1>1, <1>2 DEF MembersInv, MembersTypeOK, TablesMove
<1>4. Claim(panel.version, panel.items, panel.page)'
  BY <1>1, <1>2, <1>3, PanelClaimKept
<1>5. ListInv'
  BY <1>1, <1>2, ListInvKept DEF Awaited
<1>6. SentInv'
  BY <1>1, <1>2, SentInvKept
<1> QED BY <1>1, <1>3, <1>4, <1>5, <1>6 DEF MembersInv, TablesMove

-----------------------------------------------------------------------------
(* The steps of the tab leave the tables alone.                              *)

LEMMA NewCalls ==
    ASSUME MembersTypeOK
    PROVE  /\ \A first \in BOOLEAN : ListCall(first) \in ListCalls
           /\ RefreshCall \in RefreshCalls
           /\ \A ask \in Commands, target \in Users :
                 panel.version # NoVersion => CommandCall(ask, target) \in CommandCalls
<1>1. Unanswered \in Answers
  BY DEF Unanswered, Answers, Precondition
<1>2. panel.page \in Nat /\ panel.items \in SUBSET Users
      /\ (panel.version # NoVersion => panel.version \in Version)
  BY DEF MembersTypeOK, Precondition
<1> QED BY <1>1, <1>2 DEF ListCall, RefreshCall, CommandCall, ListCalls, RefreshCalls, CommandCalls, Shown

\* A step that ends a call, begins a list, or neither; and shows nothing new.
LEMMA QuietStep ==
    ASSUME MembersInv, MembersTypeOK', UNCHANGED barVars, late' \subseteq late \union {[pending EXCEPT !.scoped = FALSE]},
           late' \subseteq late \/ IsCommand(pending),
           panel'.items = panel.items, panel'.page = panel.page,
           panel'.version = panel.version \/ panel'.version = NoVersion,
           \/ pending' = pending
           \/ pending' = Unscoped
           \/ pending' \in {NoRow, RefreshCall}
           \/ \E first \in BOOLEAN : pending' = ListCall(first)
    PROVE  MembersInv'
<1>1. TablesMove
  BY MembersStay DEF MembersInv
<1>2. Claim(panel.version, panel.items, panel.page)'
  BY <1>1, PanelClaimKept
<1>3. ASSUME pending # NoRow
      PROVE  LET d == [pending EXCEPT !.scoped = FALSE]
             IN  d.ask = pending.ask
                 /\ (pending.ask = "list" => d.page = pending.page /\ d.first = pending.first
                                              /\ d.answer = pending.answer)
                 /\ (pending.ask \in Commands => d.version = pending.version /\ d.shown = pending.shown)
  BY <1>3 DEF MembersInv, MembersTypeOK, ListCalls, CommandCalls, RefreshCalls, Commands
<1>4. ListInv'
  <2>1. CASE \E first \in BOOLEAN : pending' = ListCall(first)
    BY <2>1 DEF ListInv, ListCall, Unanswered
  <2>2. CASE pending' = pending \/ pending' = Unscoped
    BY <1>1, <1>3, <2>2, ListInvKept DEF Unscoped, Awaited
  <2>3. CASE pending' \in {NoRow, RefreshCall}
    BY <2>3 DEF ListInv, Awaited, RefreshCall
  <2> QED BY <2>1, <2>2, <2>3
<1>5. SentInv'
  <2>1. ASSUME NEW c \in late' \union {pending'}, IsCommand(c)
        PROVE  \E d \in late \union {pending} :
                  IsCommand(d) /\ c.version = d.version /\ c.shown = d.shown
    <3>1. CASE c \in late
      BY <2>1, <3>1
    <3>2. CASE c = [pending EXCEPT !.scoped = FALSE] /\ IsCommand(pending)
      BY <1>3, <2>1, <3>2 DEF IsCommand
    <3>3. CASE c = pending' /\ (pending' = pending \/ pending' = Unscoped)
      BY <1>3, <2>1, <3>3 DEF IsCommand, Unscoped
    <3>4. CASE c = pending' /\ ((\E first \in BOOLEAN : pending' = ListCall(first)) \/ pending' \in {NoRow, RefreshCall})
      BY <2>1, <3>4 DEF IsCommand, Commands, ListCall, RefreshCall
    <3> QED BY <2>1, <3>1, <3>2, <3>3, <3>4
  <2> QED BY <1>1, <2>1, SentInvKept
<1> QED BY <1>1, <1>2, <1>4, <1>5 DEF MembersInv, TablesMove

\* The steps QuietStep speaks of.
QuietAction ==
    \/ ContextWithdrawn \/ ContextConfirmed \/ ContextVerified \/ TogglePanel \/ MoreMembers
    \/ MembersNotListed \/ CommandSettled \/ CommandRejected \/ CommandUncertain
    \/ RefreshMembers \/ MembersRefreshed \/ MembersNotRefreshed \/ Acknowledge
    \/ \E c \in late : CommandVanishes(c)

LEMMA QuietActionStep == MembersInv /\ QuietAction => MembersInv'
<1> SUFFICES ASSUME MembersInv, QuietAction PROVE MembersInv'
  OBVIOUS
<1>1. accessVersion[Managed] \in Precondition /\ NoVersion \in Precondition
  BY MembersAssumption DEF MembersInv, MembersTypeOK, BarsTypeOK, Precondition
<1>2. /\ UNCHANGED barVars
      /\ here' \in Precondition
      /\ panel' \in {panel, [panel EXCEPT !.opened = ~ @], [panel EXCEPT !.version = NoVersion],
                     [panel EXCEPT !.uncertain = TRUE], [panel EXCEPT !.inspected = FALSE],
                     [panel EXCEPT !.opened = TRUE], [panel EXCEPT !.uncertain = FALSE]}
  BY <1>1 DEF QuietAction, MembersInv, MembersTypeOK, ContextWithdrawn, ContextConfirmed, ContextVerified,
         TogglePanel, MoreMembers, MembersNotListed, CommandSettled, CommandRejected, CommandUncertain,
         RefreshMembers, MembersRefreshed, MembersNotRefreshed, Acknowledge, CommandVanishes
<1>3. /\ \/ pending' = pending
         \/ pending' = Unscoped
         \/ pending' \in {NoRow, RefreshCall}
         \/ \E first \in BOOLEAN : pending' = ListCall(first)
      /\ late' \subseteq late \union {[pending EXCEPT !.scoped = FALSE]}
      /\ late' \subseteq late \/ IsCommand(pending)
  BY DEF QuietAction, ContextWithdrawn, ContextConfirmed, ContextVerified,
         TogglePanel, MoreMembers, MembersNotListed, CommandSettled, CommandRejected, CommandUncertain,
         RefreshMembers, MembersRefreshed, MembersNotRefreshed, Acknowledge, CommandVanishes,
         Awaited, IsCommand
<1>4. /\ panel' \in [opened : BOOLEAN, uncertain : BOOLEAN, inspected : BOOLEAN,
                     items : SUBSET Users, total : Nat, version : Precondition, page : Nat]
      /\ panel'.items = panel.items /\ panel'.page = panel.page
      /\ panel'.version = panel.version \/ panel'.version = NoVersion
  BY <1>1, <1>2 DEF MembersInv, MembersTypeOK
<1>5. /\ Unscoped \in ListCalls \union CommandCalls \union RefreshCalls \union {NoRow}
      /\ IsCommand(pending) => [pending EXCEPT !.scoped = FALSE] \in CommandCalls
  BY DEF Unscoped, IsCommand, MembersInv, MembersTypeOK, ListCalls, CommandCalls, RefreshCalls, Commands
<1>6. MembersTypeOK'
  <2>1. BarsTypeOK'
    BY <1>2, MembersStay DEF MembersInv, TablesMove
  <2>2. late' \subseteq CommandCalls
    BY <1>3, <1>5 DEF MembersInv, MembersTypeOK
  <2>3. pending' \in ListCalls \union CommandCalls \union RefreshCalls \union {NoRow}
    BY <1>3, <1>5, NewCalls DEF MembersInv, MembersTypeOK
  <2> QED BY <1>2, <1>4, <2>1, <2>2, <2>3 DEF MembersTypeOK
<1> QED BY <1>2, <1>3, <1>4, <1>6, QuietStep

\* A command is sent from the list shown.
LEMMA CommandStep ==
    ASSUME MembersInv, NEW ask \in Commands, NEW target \in Users, Command(ask, target)
    PROVE  MembersInv'
<1>1. UNCHANGED <<barVars, here, late>> /\ panel.version # NoVersion
  BY DEF Command
<1>2. TablesMove
  BY <1>1, MembersStay DEF MembersInv
<1>3. /\ panel' \in {[panel EXCEPT !.inspected = FALSE],
                     [panel EXCEPT !.inspected = FALSE, !.version = NoVersion]}
      /\ pending' = NoRow \/ pending' = CommandCall(ask, target)
  BY DEF Command, Free
<1>4. /\ panel' \in [opened : BOOLEAN, uncertain : BOOLEAN, inspected : BOOLEAN,
                     items : SUBSET Users, total : Nat, version : Precondition, page : Nat]
      /\ panel'.items = panel.items /\ panel'.page = panel.page
      /\ panel'.version = panel.version \/ panel'.version = NoVersion
  BY <1>3 DEF MembersInv, MembersTypeOK, Precondition
<1>5. MembersTypeOK'
  BY <1>1, <1>2, <1>3, <1>4, NewCalls DEF MembersInv, MembersTypeOK, TablesMove
<1>6. Claim(panel.version, panel.items, panel.page)'
  BY <1>2, <1>4, <1>5, PanelClaimKept
<1>7. ListInv'
  BY <1>3 DEF ListInv, Awaited, CommandCall, Commands
<1>8. SentInv'
  <2>1. SUFFICES ASSUME NEW c \in late' \union {pending'}, IsCommand(c)
                 PROVE  Claim(c.version, c.shown.items, c.shown.page)'
    BY DEF SentInv, IsCommand
  <2>2. Claim(c.version, c.shown.items, c.shown.page)
    <3>1. CASE c \in late
      BY <2>1, <3>1 DEF MembersInv, SentInv
    <3>2. CASE c = CommandCall(ask, target)
      BY <3>2 DEF MembersInv, CommandCall
    <3> QED BY <1>1, <1>3, <2>1, <3>1, <3>2 DEF IsCommand
  <2>3. accessVersion' = accessVersion /\ ActiveMembers' = ActiveMembers
    BY <1>1 DEF barVars, ActiveMembers, Active
  <2> QED BY <2>2, <2>3 DEF Claim, WhatWasShown
<1> QED BY <1>2, <1>5, <1>6, <1>7, <1>8 DEF MembersInv, TablesMove

\* A page answered is joined to those of its version, or refused.
LEMMA MembersListedStep == MembersInv /\ MembersListed => MembersInv'
<1> SUFFICES ASSUME MembersInv, MembersListed PROVE MembersInv'
  OBVIOUS
<1> DEFINE shown == [panel EXCEPT
                       !.items = (IF pending.first THEN {} ELSE @) \union pending.answer.items,
                       !.total = pending.answer.total, !.version = pending.answer.version,
                       !.page = pending.page, !.inspected = TRUE]
<1>1. UNCHANGED <<barVars, here, late>> /\ pending' = NoRow
  BY DEF MembersListed
<1>2. TablesMove
  BY <1>1, MembersStay DEF MembersInv
<1>3. CASE panel' = panel \/ panel' = [panel EXCEPT !.version = NoVersion]
  <2>1. MembersTypeOK'
    BY <1>1, <1>2, <1>3 DEF MembersInv, MembersTypeOK, TablesMove, Precondition
  <2>2. /\ panel'.items = panel.items /\ panel'.page = panel.page
        /\ panel'.version = panel.version \/ panel'.version = NoVersion
    BY <1>3 DEF MembersInv, MembersTypeOK
  <2> QED BY <1>1, <2>1, <2>2, QuietStep
<1>4. CASE panel' = shown /\ Continues(pending)
  <2>1. pending \in ListCalls /\ pending.answer.status = "ok"
    BY DEF MembersListed, Awaited, MembersInv, MembersTypeOK, ListCalls, CommandCalls, RefreshCalls, Commands
  <2>2. /\ pending.page = IF pending.first THEN 1 ELSE panel.page + 1
        /\ pending.answer.version \in Version
        /\ pending.answer.version <= accessVersion[Managed]
        /\ pending.answer.version = accessVersion[Managed] =>
              pending.answer.items = Rows(ActiveMembers, pending.page - 1, pending.page)
    BY <2>1 DEF MembersInv, ListInv, MembersListed
  <2>3. pending.page \in Nat /\ pending.first \in BOOLEAN /\ pending.answer \in Answers
    BY <2>1 DEF ListCalls
  <2>4. MembersTypeOK'
    BY <1>1, <1>2, <1>4, <2>3 DEF MembersInv, MembersTypeOK, TablesMove, Answers
  <2>5. panel'.items = (IF pending.first THEN {} ELSE panel.items) \union pending.answer.items
        /\ panel'.version = pending.answer.version /\ panel'.page = pending.page
    BY <1>4 DEF MembersInv, MembersTypeOK
  <2>6. accessVersion' = accessVersion /\ ActiveMembers' = ActiveMembers
    BY <1>1 DEF barVars, ActiveMembers, Active
  <2>7. pending.answer.version = accessVersion[Managed] => panel'.items = Rows(ActiveMembers, 0, pending.page)
    <3>1. CASE pending.first
      BY <2>2, <2>5, <3>1
    <3>2. CASE ~ pending.first
      <4>1. panel.page \in Nat
        BY DEF MembersInv, MembersTypeOK
      <4>2. panel.version = accessVersion[Managed] => panel.items = Rows(ActiveMembers, 0, panel.page)
        BY DEF MembersInv, Claim, WhatWasShown
      <4>3. pending.page = panel.page + 1 /\ pending.page - 1 = panel.page
        BY <2>2, <3>2, <4>1
      <4> QED BY <1>4, <2>2, <2>5, <3>2, <4>1, <4>2, <4>3, PagesJoin DEF Continues
    <3> QED BY <2>3, <3>1, <3>2
  <2>8. Claim(panel.version, panel.items, panel.page)'
    BY <2>2, <2>5, <2>6, <2>7 DEF Claim, WhatWasShown
  <2>9. ListInv'
    BY <1>1 DEF ListInv, Awaited
  <2>10. SentInv'
    BY <1>1, <1>2, SentInvKept DEF IsCommand
  <2> QED BY <1>2, <2>4, <2>8, <2>9, <2>10 DEF MembersInv, TablesMove
<1> QED BY <1>3, <1>4 DEF MembersListed

-----------------------------------------------------------------------------

LEMMA MembersInitOK == MembersInit => MembersInv
<1> SUFFICES ASSUME MembersInit PROVE MembersInv
  OBVIOUS
<1>1. 0 \in Version
  BY MaxVersionAssumption DEF Version
<1>2. PICK r \in BarRequestIds, payload \in BarPayloads :
         bar = [w \in Workspaces |-> IF w = Managed
                  THEN [actor |-> Owner, requestId |-> r, fingerprint |-> payload] ELSE NoRow]
  BY DEF MembersInit, ManagedInit
<1>3. [actor |-> Owner, requestId |-> r, fingerprint |-> payload] \in Creation
  BY MembersAssumption DEF Creation
<1>4. BarsTypeOK
  BY <1>1, <1>2, <1>3 DEF MembersInit, ManagedInit, BarsTypeOK, MembershipStatus
<1>5. BarsInv
  BY <1>2, <1>3, NoRowIsNoCreation
  DEF MembersInit, ManagedInit, BarsInv, OwnerIsCreator, OneBarPerIntention, IsOwner
<1>6. MembersTypeOK
  BY <1>4 DEF MembersInit, PanelInit, EmptyPanel, MembersTypeOK, Precondition
<1>7. accessVersion[Managed] \in Nat
  BY <1>4, MembersAssumption DEF BarsTypeOK, Version
<1>8. Claim(panel.version, panel.items, panel.page)
  BY <1>7, NoVersionAssumption DEF MembersInit, PanelInit, EmptyPanel, Claim, WhatWasShown
<1>9. ListInv /\ SentInv
  BY DEF MembersInit, PanelInit, ListInv, SentInv, Awaited, IsCommand
<1> QED BY <1>5, <1>6, <1>8, <1>9 DEF MembersInv

LEMMA MembersStepOK ==
    MembersInv /\ [MembersNext]_<<barVars, membersVars>> => MembersInv'
<1> SUFFICES ASSUME MembersInv, [MembersNext]_<<barVars, membersVars>> PROVE MembersInv'
  OBVIOUS
<1>1. CASE UNCHANGED <<barVars, membersVars>>
  <2>1. MembersTypeOK'
    BY <1>1, MembersStay DEF MembersInv, TablesMove, MembersTypeOK, membersVars
  <2> QED BY <1>1, <2>1, QuietStep DEF membersVars
<1>2. CASE MembersNext
  BY <1>2, ServeMembersStep, ServeCommandStep, MembersElsewhereStep, QuietActionStep, CommandStep,
     MembersListedStep DEF MembersNext, QuietAction
<1> QED BY <1>1, <1>2

\* The inductive invariant holds in every reachable state of the page.
THEOREM MembersInvariant == MembersSpec => []MembersInv
BY MembersInitOK, MembersStepOK, PTL DEF MembersSpec

\* A command that can be applied acts on exactly the members its author was
\* shown, whatever happened between the pages of the list.
THEOREM CommandsActOnTheListShown == MembersSpec => []CommandsActOnWhatWasShown
<1>1. MembersInv => CommandsActOnWhatWasShown
  BY DEF MembersInv, SentInv, Claim, CommandsActOnWhatWasShown
<1> QED BY <1>1, MembersInvariant, PTL
-----------------------------------------------------------------------------
(* The number of members the page goes by: as long as it has fewer rows it    *)
(* offers to read on.                                                         *)

Numbers(version, total) == version = accessVersion[Managed] => total = Cardinality(ActiveMembers)

TotalInv ==
    /\ Numbers(panel.version, panel.total)
    /\ Awaited({"list"}) /\ pending.answer.status = "ok"
          => Numbers(pending.answer.version, pending.answer.total)

WholeListIsWhole ==
    panel.version = accessVersion[Managed] /\ ~ (Cardinality(panel.items) < panel.total)
        => panel.items = ActiveMembers

\* What was known of the number of members stays true, or is of another version.
LEMMA NumbersLast ==
    ASSUME MembersInv, TotalInv, TablesMove, MembersTypeOK',
           panel'.version = NoVersion \/ (panel'.version = panel.version /\ panel'.total = panel.total),
           Awaited({"list"})' /\ pending'.answer.status = "ok"
               => Awaited({"list"}) /\ pending'.answer = pending.answer
    PROVE  TotalInv'
<1>1. accessVersion[Managed] \in Nat /\ accessVersion'[Managed] \in Nat
  BY MembersAssumption DEF MembersInv, MembersTypeOK, TablesMove, BarsTypeOK, Version
<1>2. UNCHANGED barVars => ActiveMembers' = ActiveMembers /\ accessVersion' = accessVersion
  BY DEF ActiveMembers, Active, barVars
<1>3. panel.version = NoVersion \/ (panel.version \in Nat /\ panel.version <= accessVersion[Managed])
  BY DEF MembersInv, MembersTypeOK, Claim, Precondition, Version
<1>4. Numbers(panel.version, panel.total)'
  BY <1>1, <1>2, <1>3, NoVersionAssumption DEF Numbers, TotalInv, TablesMove
<1>5. ASSUME Awaited({"list"})', pending'.answer.status = "ok"
      PROVE  Numbers(pending.answer.version, pending.answer.total)'
  <2>1. /\ Awaited({"list"}) /\ pending'.answer = pending.answer /\ pending.answer.status = "ok"
    BY <1>5
  <2>2. pending.answer.version \in Nat /\ pending.answer.version <= accessVersion[Managed]
    BY <2>1 DEF MembersInv, ListInv, Version
  <2> QED BY <1>1, <1>2, <2>1, <2>2 DEF Numbers, TotalInv, TablesMove
<1> QED BY <1>4, <1>5 DEF TotalInv

\* A step of the page that neither receives a list nor has one answered.
LEMMA QuietNumbers ==
    ASSUME MembersInv, MembersTypeOK', TotalInv, UNCHANGED barVars,
           panel'.version = NoVersion \/ (panel'.version = panel.version /\ panel'.total = panel.total),
           \/ pending' = pending
           \/ pending' = Unscoped
           \/ pending' \in {NoRow, RefreshCall}
           \/ \E first \in BOOLEAN : pending' = ListCall(first)
           \/ IsCommand(pending')
    PROVE  TotalInv'
<1>1. TablesMove
  BY MembersStay DEF MembersInv
<1>2. ASSUME pending # NoRow
      PROVE  LET d == [pending EXCEPT !.scoped = FALSE]
             IN  d.ask = pending.ask /\ d.answer = pending.answer
  BY <1>2 DEF MembersInv, MembersTypeOK, ListCalls, CommandCalls, RefreshCalls
<1>3. ASSUME Awaited({"list"})', pending'.answer.status = "ok"
      PROVE  Awaited({"list"}) /\ pending'.answer = pending.answer
  <2>1. ~ \E first \in BOOLEAN : pending' = ListCall(first)
    BY <1>3 DEF ListCall, Unanswered
  <2>2. pending' \notin {NoRow, RefreshCall} /\ ~ IsCommand(pending')
    BY <1>3 DEF Awaited, RefreshCall, IsCommand, Commands
  <2>3. pending' = pending \/ pending' = Unscoped
    BY <2>1, <2>2
  <2> QED BY <1>2, <1>3, <2>3 DEF Unscoped, Awaited
<1> QED BY <1>1, <1>3, NumbersLast

LEMMA TotalStep ==
    ASSUME MembersInv, MembersInv', TotalInv, [MembersNext]_<<barVars, membersVars>>
    PROVE  TotalInv'
<1>0. MembersTypeOK' /\ MembersTypeOK /\ BarsInv
  BY DEF MembersInv
<1>1. CASE UNCHANGED <<barVars, membersVars>>
  BY <1>0, <1>1, QuietNumbers DEF membersVars
<1>2. CASE QuietAction
  <2>1. /\ UNCHANGED barVars
        /\ panel' \in {panel, [panel EXCEPT !.opened = ~ @], [panel EXCEPT !.version = NoVersion],
                       [panel EXCEPT !.uncertain = TRUE], [panel EXCEPT !.inspected = FALSE],
                       [panel EXCEPT !.opened = TRUE], [panel EXCEPT !.uncertain = FALSE]}
    BY <1>2 DEF QuietAction, ContextWithdrawn, ContextConfirmed, ContextVerified,
         TogglePanel, MoreMembers, MembersNotListed, CommandSettled, CommandRejected, CommandUncertain,
         RefreshMembers, MembersRefreshed, MembersNotRefreshed, Acknowledge, CommandVanishes
  <2>2. \/ pending' = pending
        \/ pending' = Unscoped
        \/ pending' \in {NoRow, RefreshCall}
        \/ \E first \in BOOLEAN : pending' = ListCall(first)
    BY <1>2 DEF QuietAction, ContextWithdrawn, ContextConfirmed, ContextVerified,
         TogglePanel, MoreMembers, MembersNotListed, CommandSettled, CommandRejected, CommandUncertain,
         RefreshMembers, MembersRefreshed, MembersNotRefreshed, Acknowledge, CommandVanishes
  <2>3. panel'.version = NoVersion \/ (panel'.version = panel.version /\ panel'.total = panel.total)
    BY <1>0, <2>1 DEF MembersTypeOK
  <2> QED BY <1>0, <2>1, <2>2, <2>3, QuietNumbers
<1>3. ASSUME NEW ask \in Commands, NEW target \in Users, Command(ask, target)
      PROVE  TotalInv'
  <2>1. /\ UNCHANGED barVars
        /\ pending' = pending \/ pending' = CommandCall(ask, target)
        /\ panel' \in {[panel EXCEPT !.inspected = FALSE],
                       [panel EXCEPT !.inspected = FALSE, !.version = NoVersion]}
    BY <1>3 DEF Command
  <2>2. panel'.version = NoVersion \/ (panel'.version = panel.version /\ panel'.total = panel.total)
    BY <1>0, <2>1 DEF MembersTypeOK
  <2>3. CASE pending' = pending
    BY <1>0, <2>1, <2>2, <2>3, QuietNumbers
  <2>4. CASE pending' = CommandCall(ask, target)
    <3>1. pending'.ask = ask
      BY <2>4 DEF CommandCall
    <3>2. Awaited({"list"})' => FALSE
      BY <3>1 DEF Awaited, Commands
    <3>3. TablesMove
      BY <1>0, <2>1, MembersStay
    <3> QED BY <1>0, <2>2, <3>2, <3>3, NumbersLast
  <2> QED BY <2>1, <2>3, <2>4
<1>4. ASSUME NEW c \in late \union {pending}, IsCommand(c), ServeCommand(c)
      PROVE  TotalInv'
  <2>1. c \in CommandCalls
    BY <1>0, <1>4 DEF IsCommand, MembersTypeOK, ListCalls, CommandCalls, RefreshCalls, Commands
  <2>2. TablesMove
    <3>1. c.target \in Users /\ c.version \in Precondition
      BY <2>1 DEF CommandCalls, Precondition
    <3>2. Take(c) => TablesMove
      BY <1>0, <3>1, MembershipChangeMovesTables DEF Take
    <3> QED BY <1>0, <1>4, <3>2, MembersStay DEF ServeCommand
  <2>3. panel' = panel /\ (pending' = pending \/ \E status : pending' = [c EXCEPT !.answer.status = status])
    BY <1>4 DEF ServeCommand, CommandAnswered
  <2>4. pending' = pending \/ pending'.ask = c.ask
    BY <2>1, <2>3 DEF CommandCalls
  <2>5. Awaited({"list"})' => pending' = pending
    BY <1>4, <2>4 DEF Awaited, IsCommand, Commands
  <2>6. Awaited({"list"})' => Awaited({"list"})
    BY <2>5 DEF Awaited
  <2> QED BY <1>0, <2>2, <2>3, <2>5, <2>6, NumbersLast
<1>5. CASE MembersElsewhere
  <2>1. TablesMove
    BY <1>0, <1>5, MembershipChangeMovesTables DEF MembersElsewhere, Precondition
  <2>2. panel' = panel /\ pending' = pending
    BY <1>5 DEF MembersElsewhere, membersVars
  <2> QED BY <1>0, <2>1, <2>2, NumbersLast DEF Awaited
<1>6. CASE ServeMembers
  <2> DEFINE given == [status |-> "ok", version |-> accessVersion[Managed],
                       items |-> Rows(ActiveMembers, pending.page - 1, pending.page),
                       total |-> Cardinality(ActiveMembers)]
  <2>1. pending \in ListCalls
    BY <1>0, <1>6 DEF ServeMembers, Awaited, MembersTypeOK, CommandCalls, RefreshCalls, Commands
  <2>2. pending' = [pending EXCEPT !.answer = given] /\ panel' = panel
    BY <1>6 DEF ServeMembers
  <2>3. pending'.answer = given
    BY <2>1, <2>2 DEF ListCalls
  <2>4. pending'.answer.total = Cardinality(ActiveMembers)
    BY <2>3
  <2>5. accessVersion' = accessVersion /\ ActiveMembers' = ActiveMembers
    BY <1>6 DEF ServeMembers, barVars, ActiveMembers, Active
  <2> QED BY <2>2, <2>4, <2>5 DEF TotalInv, Numbers
<1>7. CASE MembersListed
  <2> DEFINE shown == [panel EXCEPT
                         !.items = (IF pending.first THEN {} ELSE @) \union pending.answer.items,
                         !.total = pending.answer.total, !.version = pending.answer.version,
                         !.page = pending.page, !.inspected = TRUE]
  <2>1. /\ UNCHANGED barVars /\ pending' = NoRow
        /\ panel' \in {panel, [panel EXCEPT !.version = NoVersion], shown}
    BY <1>7 DEF MembersListed
  <2>2. CASE panel' # shown
    <3>1. panel'.version = NoVersion \/ (panel'.version = panel.version /\ panel'.total = panel.total)
      BY <1>0, <2>1, <2>2 DEF MembersTypeOK
    <3> QED BY <1>0, <2>1, <3>1, QuietNumbers
  <2>3. CASE panel' = shown
    <3>1. panel'.version = pending.answer.version /\ panel'.total = pending.answer.total
      BY <1>0, <2>3 DEF MembersTypeOK
    <3>2. Numbers(pending.answer.version, pending.answer.total)
      BY <1>7 DEF TotalInv, MembersListed
    <3>3. accessVersion' = accessVersion /\ ActiveMembers' = ActiveMembers
      BY <2>1 DEF barVars, ActiveMembers, Active
    <3>4. Numbers(panel.version, panel.total)'
      BY <3>1, <3>2, <3>3 DEF Numbers
    <3> QED BY <2>1, <3>4 DEF TotalInv, Awaited
  <2> QED BY <2>2, <2>3
<1> QED BY <1>1, <1>2, <1>3, <1>4, <1>5, <1>6, <1>7 DEF MembersNext, QuietAction

\* A list of the present access version that offers no further page shows every
\* member: a page missed, or read in the middle of an addition, cannot pass for
\* the whole list.
THEOREM WholeListsShowEveryMember == MembersSpec => []WholeListIsWhole
<1>1. MembersInit => TotalInv
  <2> SUFFICES ASSUME MembersInit PROVE TotalInv
    OBVIOUS
  <2>1. accessVersion[Managed] \in Nat
    BY MembersInitOK, MembersAssumption DEF MembersInv, MembersTypeOK, BarsTypeOK, Version
  <2> QED BY <2>1, NoVersionAssumption
          DEF MembersInit, PanelInit, EmptyPanel, TotalInv, Numbers, Awaited
<1>2. MembersInv /\ MembersInv' /\ TotalInv /\ [MembersNext]_<<barVars, membersVars>> => TotalInv'
  BY TotalStep
<1>3. MembersInv /\ TotalInv => WholeListIsWhole
  <2> SUFFICES ASSUME MembersInv, TotalInv, panel.version = accessVersion[Managed],
                      ~ (Cardinality(panel.items) < panel.total)
               PROVE  panel.items = ActiveMembers
    BY DEF WholeListIsWhole
  <2>1. panel.items = Rows(ActiveMembers, 0, panel.page)
    BY DEF MembersInv, Claim, WhatWasShown
  <2>2. panel.items \subseteq ActiveMembers
    BY <2>1 DEF Rows
  <2>3. IsFiniteSet(ActiveMembers)
    BY MembersAreFinite, MembersAssumption, FS_Subset
  <2>4. /\ Cardinality(panel.items) <= Cardinality(ActiveMembers)
        /\ Cardinality(panel.items) = Cardinality(ActiveMembers) => panel.items = ActiveMembers
    BY <2>2, <2>3, FS_Subset
  <2>5. panel.total = Cardinality(ActiveMembers)
    BY DEF TotalInv, Numbers
  <2>6. Cardinality(panel.items) \in Nat /\ Cardinality(ActiveMembers) \in Nat
    BY <2>2, <2>3, FS_Subset, FS_CardinalityType
  <2> QED BY <2>4, <2>5, <2>6
<1> QED BY <1>1, <1>2, <1>3, MembersInvariant, PTL DEF MembersSpec
-----------------------------------------------------------------------------
(* The movement form (InventoryClient).  The argument: an identifier stands   *)
(* for one frozen intention, wherever it still is (in the form, on its way,   *)
(* given up); what the form was told of it is true; and an intention that may *)
(* be replaced is hopeless: its access version is past, or nothing of it is   *)
(* recorded and nothing can be any more.                                      *)

FormIntent == [requestId : FormIds, body : Intent]

FormType ==
    [open : BOOLEAN, busy : {"no", "send", "receipt", "verify", "detail"},
     intent : FormIntent \union {NoIntent}, blocked : BOOLEAN, uncertain : BOOLEAN,
     missing : BOOLEAN, inspected : BOOLEAN, source : Row \union {NoRow},
     access : Precondition, reviewed : Row \union {NoRow}, reviewedAccess : Precondition,
     replaced : SUBSET FormIntent]

ClientTypes ==
    /\ context \in Precondition
    /\ form \in FormType
    /\ posts \subseteq [intent : FormIntent, awaited : BOOLEAN]
    /\ reply \in {"none", "saved", "refused", "notFound"}
    /\ abandoned \subseteq FormIntent
    /\ told \subseteq FormIntent
    /\ forgotten \subseteq FormIntent

\* Where an intention may still be.
HeldIntents ==
    ({form.intent} \ {NoIntent}) \union { x.intent : x \in posts } \union abandoned

\* A version the browser holds is of the past, or Me is a member under it.
AccessHolds(v) ==
    v # NoVersion =>
        /\ v <= accessVersion[MyBar]
        /\ v = accessVersion[MyBar] => Active(MyBar, Me)

\* A row the browser holds is of the past, or its counter is the current one.
RowHolds(row) ==
    /\ row \in Row
    /\ ProductIn(MyBar, MyProduct)
    /\ row.version <= product[MyProduct].version
    /\ row.version = product[MyProduct].version
          => row.quantity = product[MyProduct].quantity

\* What every frozen intention is, and what the ledger may say under its key.
IntentionOK(i) ==
    LET b == i.body
        row == product[MyProduct]
    IN  /\ i \in FormIntent
        /\ b = MoveIntent(b.kind, MyBar, MyProduct, b.amount,
                          b.expectedProductVersion, b.expectedAccessVersion)
        /\ b.kind # "INITIAL"
        /\ b.expectedAccessVersion \in Version /\ b.expectedProductVersion \in Version
        /\ AccessHolds(b.expectedAccessVersion)
        /\ ProductIn(MyBar, MyProduct)
        /\ b.expectedProductVersion <= row.version
        /\ b.expectedProductVersion = row.version => ValidChange(row.quantity, b.kind, b.amount)
        /\ \A m \in Prior(Me, i.requestId) : m.fingerprint = b

IntentionsOK ==
    /\ \A i \in HeldIntents : IntentionOK(i)
    /\ \A i, j \in HeldIntents : i.requestId = j.requestId => i = j

\* Nothing of the intention is recorded under the members it was formed with,
\* and nothing ever will be.
Hopeless(i) ==
    \/ i.body.expectedAccessVersion # accessVersion[MyBar]
    \/ /\ Prior(Me, i.requestId) = {}
       /\ \/ product[MyProduct].version # i.body.expectedProductVersion
          \/ ~ HasCapacity(product[MyProduct].version)
          \/ \A x \in posts : x.intent # i

\* The signals of the form.
SignalsOK ==
    /\ ~ form.open => form = Closed
    /\ form.open => RowHolds(form.source) /\ form.access \in Version /\ context # NoVersion
    /\ AccessHolds(context) /\ AccessHolds(form.access) /\ AccessHolds(form.reviewedAccess)
    /\ form.inspected => form.blocked /\ RowHolds(form.reviewed)
    /\ form.blocked \/ form.busy = "send" => form.intent # NoIntent
    /\ form.uncertain => form.blocked
    /\ form.busy \in {"receipt", "verify", "detail"} => form.blocked
    /\ form.busy \in {"verify", "detail"} => ~ form.uncertain
    /\ form.busy = "send" => context = form.intent.body.expectedAccessVersion
    /\ form.uncertain => context = form.intent.body.expectedAccessVersion
    /\ form.intent \notin abandoned \union told \union forgotten

\* Whose answer is awaited, and that the answers are true.
AnswersOK ==
    /\ \A x \in posts : x.awaited =>
          form.busy = "send" /\ x.intent = form.intent /\ reply = "none"
    /\ reply # "none" => form.busy \in {"send", "receipt"}
    /\ reply = "saved" => Recorded(form.intent)
    /\ reply \in {"refused", "notFound"} /\ form.busy = "send" => Hopeless(form.intent)

FatesOK ==
    /\ form.blocked /\ ~ form.uncertain => Hopeless(form.intent)
    /\ \A i \in abandoned : Hopeless(i)
    /\ \A i \in told : Recorded(i)

ClientInv ==
    /\ IInv
    /\ ClientTypes
    /\ IntentionsOK
    /\ SignalsOK
    /\ AnswersOK
    /\ FatesOK

\* What a step of the tables leaves true of the Bar and the product of the form.
TablesProgress ==
    /\ movements \subseteq movements'
    /\ accessVersion[MyBar] <= accessVersion'[MyBar]
    /\ accessVersion'[MyBar] = accessVersion[MyBar] /\ Active(MyBar, Me) => Active(MyBar, Me)'
    /\ ProductIn(MyBar, MyProduct) =>
          /\ ProductIn(MyBar, MyProduct)'
          /\ product[MyProduct].version <= product'[MyProduct].version
          /\ product'[MyProduct].version = product[MyProduct].version
                => product'[MyProduct].quantity = product[MyProduct].quantity

\* A row of the stock changes only together with its version, within its Bar.
LEMMA RowsProgress ==
    ASSUME TypeOK, StockStep, NEW p \in Products, product[p] \in Row
    PROVE  /\ product'[p] \in Row
           /\ product'[p].workspace = product[p].workspace
           /\ product'[p] = product[p] \/ product'[p].version = product[p].version + 1
           /\ movements \subseteq movements'
           /\ UNCHANGED barVars
<1> DEFINE Progress ==
        /\ product'[p] \in Row
        /\ product'[p].workspace = product[p].workspace
        /\ product'[p] = product[p] \/ product'[p].version = product[p].version + 1
        /\ movements \subseteq movements'
        /\ UNCHANGED barVars
<1>1. product[p] # NoRow
  BY NoRowIsNoProduct
<1>2. ASSUME NEW u \in Users, NEW w \in Workspaces, NEW q \in Products,
             NEW accessV \in Precondition, NEW r \in RequestIds, NEW amount \in Quantity,
             NEW settings \in Settings, CreateProduct(u, w, q, r, amount, settings, accessV)
      PROVE  Progress
  <2>1. p # q
    BY <1>1, <1>2 DEF CreateProduct
  <2> QED BY <1>2, <2>1 DEF CreateProduct, TypeOK
<1>3. ASSUME NEW u \in Users, NEW w \in Workspaces, NEW q \in Products,
             NEW accessV \in Precondition, NEW settings \in Settings,
             NEW productV \in Precondition, ChangeSettings(u, w, q, settings, productV, accessV)
      PROVE  Progress
  <2>1. CASE p # q
    BY <1>3, <2>1 DEF ChangeSettings, TypeOK
  <2>2. CASE p = q
    <3>1. product'[p] = [product[p] EXCEPT !.settings = settings, !.version = @ + 1]
      BY <1>3, <2>2 DEF ChangeSettings, TypeOK, Row
    <3>2. product[p].version + 1 \in Version
      BY <1>3, <2>2, MaxVersionAssumption DEF ChangeSettings, HasCapacity, Row, Version
    <3> QED BY <1>3, <3>1, <3>2 DEF ChangeSettings, Row
  <2> QED BY <2>1, <2>2
<1>4. ASSUME NEW u \in Users, NEW w \in Workspaces, NEW q \in Products,
             NEW accessV \in Precondition, NEW r \in RequestIds,
             NEW kind \in {"ADD", "REMOVE", "SET"}, NEW amount \in Quantity,
             NEW productV \in Precondition,
             MoveStock(u, w, q, r, kind, amount, productV, accessV)
      PROVE  Progress
  <2>1. CASE p # q
    BY <1>4, <2>1 DEF MoveStock, TypeOK
  <2>2. CASE p = q
    <3> DEFINE after == After(product[p].quantity, kind, amount)
    <3>1. product'[p] = [product[p] EXCEPT !.quantity = after, !.version = @ + 1]
      BY <1>4, <2>2 DEF MoveStock, TypeOK, Row
    <3>2. product[p].version + 1 \in Version
      BY <1>4, <2>2, MaxVersionAssumption DEF MoveStock, HasCapacity, Row, Version
    <3>3. after \in Quantity
      BY <1>4, <2>2 DEF MoveStock, ValidChange
    <3> HIDE DEF after
    <3> QED BY <1>4, <3>1, <3>2, <3>3 DEF MoveStock, Row
  <2> QED BY <2>1, <2>2
<1> QED BY <1>2, <1>3, <1>4 DEF StockStep

LEMMA TablesMakeProgress ==
    ASSUME IInv, [Next]_vars
    PROVE  IInv' /\ TablesProgress
<1>1. MyBar \in Workspaces /\ MyProduct \in Products /\ Me \in Users
  BY ClientAssumption
<1>2. /\ accessVersion[MyBar] \in Nat /\ accessVersion'[MyBar] \in Nat
      /\ product[MyProduct] \in Row \union {NoRow} /\ IInv'
  BY <1>1, IInvInductive DEF IInv, TypeOK, BarsTypeOK, Version
<1>3. CASE UNCHANGED vars
  BY <1>2, <1>3 DEF TablesProgress, ProductIn, Active, vars, Row, Version
<1>4. CASE MembershipStep
  <2>1. BarsNext /\ product' = product /\ movements' = movements
    BY <1>4 DEF MembershipStep, inventoryVars
  <2>2. CASE bar[MyBar] # NoRow
    <3>1. /\ accessVersion'[MyBar] \in accessVersion[MyBar] .. MaxVersion
          /\ member'[MyBar] # member[MyBar] => accessVersion'[MyBar] > accessVersion[MyBar]
      BY <1>1, <2>1, <2>2, BarsStepDatesMembership DEF IInv, TypeOK
    <3> QED BY <1>2, <2>1, <3>1 DEF TablesProgress, ProductIn, Active, Row, Version
  <2>3. CASE bar[MyBar] = NoRow
    <3>1. ~ Active(MyBar, Me)
      BY <1>1, <2>3 DEF IInv, BarsInv, OwnerIsCreator, Active
    <3>2. accessVersion[MyBar] <= accessVersion'[MyBar]
      <4>1. ASSUME NEW u \in Users, NEW w \in Workspaces, NEW target \in Users,
                   NEW v \in Precondition,
                   AddMember(u, w, target, v) \/ RevokeMember(u, w, target, v)
            PROVE  accessVersion[MyBar] <= accessVersion'[MyBar]
        BY <1>1, <1>2, <4>1 DEF AddMember, RevokeMember, IInv, TypeOK, BarsTypeOK
      <4>2. ASSUME NEW u \in Users, NEW w \in Workspaces, NEW r \in BarRequestIds,
                   NEW payload \in BarPayloads, CreateBar(u, w, r, payload)
            PROVE  accessVersion[MyBar] <= accessVersion'[MyBar]
        BY <1>2, <4>2 DEF CreateBar
      <4> QED BY <2>1, <4>1, <4>2 DEF BarsNext
    <3> QED BY <1>2, <2>1, <3>1, <3>2 DEF TablesProgress, ProductIn, Row, Version
  <2> QED BY <2>2, <2>3
<1>5. CASE StockStep
  <2>1. CASE product[MyProduct] = NoRow
    <3>1. movements \subseteq movements' /\ UNCHANGED barVars
      <4>1. \A u, w, q, r, amount, settings, v :
               CreateProduct(u, w, q, r, amount, settings, v)
                 => movements \subseteq movements' /\ UNCHANGED barVars
        BY DEF CreateProduct
      <4>2. \A u, w, q, settings, pv, v :
               ChangeSettings(u, w, q, settings, pv, v)
                 => movements \subseteq movements' /\ UNCHANGED barVars
        BY DEF ChangeSettings
      <4>3. \A u, w, q, r, kind, amount, pv, v :
               MoveStock(u, w, q, r, kind, amount, pv, v)
                 => movements \subseteq movements' /\ UNCHANGED barVars
        BY DEF MoveStock
      <4> QED BY <1>5, <4>1, <4>2, <4>3 DEF StockStep
    <3> QED BY <1>2, <2>1, <3>1 DEF TablesProgress, ProductIn, Active, barVars
  <2>2. CASE product[MyProduct] # NoRow
    <3>1. /\ product'[MyProduct] \in Row
          /\ product'[MyProduct].workspace = product[MyProduct].workspace
          /\ \/ product'[MyProduct] = product[MyProduct]
             \/ product'[MyProduct].version = product[MyProduct].version + 1
          /\ movements \subseteq movements'
          /\ UNCHANGED barVars
      BY <1>1, <1>2, <1>5, <2>2, RowsProgress DEF IInv
    <3>2. product[MyProduct].version \in Nat /\ product'[MyProduct] # NoRow
      BY <1>2, <2>2, <3>1, NoRowIsNoProduct DEF Row, Version
    <3> QED BY <1>2, <3>1, <3>2 DEF TablesProgress, ProductIn, Active, barVars
  <2> QED BY <2>1, <2>2
<1> QED BY <1>3, <1>4, <1>5 DEF Next

\* Today the server would apply it, were it not for its receipt and the rights.
Applicable(i) ==
    /\ i.body.expectedAccessVersion = accessVersion[MyBar]
    /\ i.body.expectedProductVersion = product[MyProduct].version
    /\ HasCapacity(product[MyProduct].version)

\* The lines of the form's identifiers are those of its own requests.
OwnLines ==
    \A m \in movements' \ movements : m.actor = Me /\ m.requestId \in FormIds =>
        \E x \in posts : /\ m.requestId = x.intent.requestId
                         /\ m.fingerprint = x.intent.body
                         /\ Applicable(x.intent)

LEMMA BarAndProduct ==
    ASSUME IInv
    PROVE  /\ Me \in Users /\ MyBar \in Workspaces /\ MyProduct \in Products
           /\ accessVersion[MyBar] \in Version /\ accessVersion[MyBar] \in Nat
           /\ ProductIn(MyBar, MyProduct) =>
                 /\ product[MyProduct] \in Row
                 /\ product[MyProduct].version \in Nat
                 /\ product[MyProduct].version \in Version
                 /\ product[MyProduct].quantity \in Quantity
BY ClientAssumption DEF IInv, TypeOK, BarsTypeOK, ProductIn, Row, Version

LEMMA BarAndProductNext ==
    ASSUME IInv'
    PROVE  /\ accessVersion'[MyBar] \in Nat
           /\ ProductIn(MyBar, MyProduct)' => product'[MyProduct].version \in Nat
BY ClientAssumption DEF IInv, TypeOK, BarsTypeOK, ProductIn, Row, Version

LEMMA HopelessKept ==
    ASSUME ClientInv, IInv', TablesProgress, OwnLines, NEW i \in HeldIntents, Hopeless(i),
           \A x \in posts' : x.intent = i => \E y \in posts : y.intent = i
    PROVE  Hopeless(i)'
<1> DEFINE b == i.body
<1>1. /\ accessVersion[MyBar] \in Nat /\ accessVersion'[MyBar] \in Nat
      /\ accessVersion[MyBar] <= accessVersion'[MyBar]
  BY BarAndProduct, BarAndProductNext DEF ClientInv, TablesProgress
<1>2. /\ IntentionOK(i) /\ b.expectedAccessVersion \in Nat /\ b.expectedProductVersion \in Nat
      /\ i.requestId \in FormIds
  BY DEF ClientInv, IntentionsOK, IntentionOK, Version, FormIntent
<1>3. b.expectedAccessVersion <= accessVersion[MyBar]
  BY <1>2, NoVersionAssumption DEF IntentionOK, AccessHolds
<1>4. CASE b.expectedAccessVersion # accessVersion[MyBar]
  BY <1>1, <1>2, <1>3, <1>4 DEF Hopeless
<1>5. CASE b.expectedAccessVersion = accessVersion[MyBar]
  <2>1. /\ Prior(Me, i.requestId) = {}
        /\ \/ product[MyProduct].version # b.expectedProductVersion
           \/ ~ HasCapacity(product[MyProduct].version)
           \/ \A x \in posts : x.intent # i
    BY <1>5 DEF Hopeless
  <2>2. Prior(Me, i.requestId)' = {}
    <3>1. SUFFICES ASSUME NEW m \in movements', m.actor = Me, m.requestId = i.requestId
                   PROVE  FALSE
      BY DEF Prior
    <3>2. m \notin movements
      BY <2>1, <3>1 DEF Prior
    <3>3. PICK x \in posts : m.requestId = x.intent.requestId /\ Applicable(x.intent)
      BY <1>2, <3>1, <3>2 DEF OwnLines
    <3>4. x.intent \in HeldIntents
      BY DEF HeldIntents
    <3>5. x.intent = i
      BY <3>1, <3>3, <3>4 DEF ClientInv, IntentionsOK
    <3> QED BY <2>1, <3>3, <3>5 DEF Applicable
  <2>3. /\ product[MyProduct].version \in Nat /\ product'[MyProduct].version \in Nat
        /\ product[MyProduct].version <= product'[MyProduct].version
        /\ b.expectedProductVersion <= product[MyProduct].version
    <3>1. ProductIn(MyBar, MyProduct) /\ ProductIn(MyBar, MyProduct)'
      BY <1>2 DEF IntentionOK, TablesProgress
    <3>2. product[MyProduct].version \in Nat /\ product'[MyProduct].version \in Nat
      BY <3>1, BarAndProduct, BarAndProductNext DEF ClientInv
    <3> QED BY <1>2, <3>1, <3>2 DEF IntentionOK, TablesProgress
  <2>4. CASE product[MyProduct].version # b.expectedProductVersion
    BY <1>2, <2>2, <2>3, <2>4 DEF Hopeless
  <2>5. CASE ~ HasCapacity(product[MyProduct].version)
    BY <2>2, <2>3, <2>5, MaxVersionAssumption DEF Hopeless, HasCapacity
  <2>6. CASE \A x \in posts : x.intent # i
    BY <2>2, <2>6 DEF Hopeless
  <2> QED BY <2>1, <2>4, <2>5, <2>6
<1> QED BY <1>4, <1>5

\* What the browser holds stays true while the tables move.
LEMMA HoldsKept ==
    ASSUME IInv, IInv', TablesProgress
    PROVE  /\ \A v \in Precondition : AccessHolds(v) => AccessHolds(v)'
           /\ \A row : RowHolds(row) => RowHolds(row)'
           /\ \A i : Recorded(i) => Recorded(i)'
<1>1. ASSUME NEW v \in Precondition, AccessHolds(v)
      PROVE  AccessHolds(v)'
  <2>1. accessVersion[MyBar] \in Nat /\ accessVersion'[MyBar] \in Nat
    BY BarAndProduct, BarAndProductNext
  <2> QED BY <1>1, <2>1 DEF AccessHolds, TablesProgress, Precondition, Version
<1>2. ASSUME NEW row, RowHolds(row)
      PROVE  RowHolds(row)'
  <2>1. ProductIn(MyBar, MyProduct) /\ ProductIn(MyBar, MyProduct)' /\ row \in Row
    BY <1>2 DEF RowHolds, TablesProgress
  <2>2. product[MyProduct].version \in Nat /\ product'[MyProduct].version \in Nat
        /\ row.version \in Nat
    BY <2>1, BarAndProduct, BarAndProductNext DEF Row, Version
  <2> QED BY <1>2, <2>1, <2>2 DEF RowHolds, TablesProgress
<1>3. ASSUME NEW i, Recorded(i)
      PROVE  Recorded(i)'
  BY <1>3 DEF Recorded, Prior, TablesProgress
<1> QED BY <1>1, <1>2, <1>3

LEMMA IntentionKept ==
    ASSUME ClientInv, IInv', TablesProgress, OwnLines, NEW i \in HeldIntents
    PROVE  IntentionOK(i)'
<1> DEFINE b == i.body
<1>1. IntentionOK(i)
  BY DEF ClientInv, IntentionsOK
<1>2. AccessHolds(b.expectedAccessVersion)'
  BY <1>1, HoldsKept DEF IntentionOK, ClientInv, Precondition
<1>3. /\ ProductIn(MyBar, MyProduct)'
      /\ b.expectedProductVersion <= product'[MyProduct].version
      /\ b.expectedProductVersion = product'[MyProduct].version
            => ValidChange(product'[MyProduct].quantity, b.kind, b.amount)
  <2>1. ProductIn(MyBar, MyProduct) /\ ProductIn(MyBar, MyProduct)'
    BY <1>1 DEF IntentionOK, TablesProgress
  <2>2. product[MyProduct].version \in Nat /\ product'[MyProduct].version \in Nat
    BY <2>1, BarAndProduct, BarAndProductNext DEF ClientInv
  <2>3. /\ b.expectedProductVersion \in Nat
        /\ b.expectedProductVersion <= product[MyProduct].version
        /\ b.expectedProductVersion = product[MyProduct].version
              => ValidChange(product[MyProduct].quantity, b.kind, b.amount)
    BY <1>1 DEF IntentionOK, Version
  <2>4. /\ product[MyProduct].version <= product'[MyProduct].version
        /\ product'[MyProduct].version = product[MyProduct].version
              => product'[MyProduct].quantity = product[MyProduct].quantity
    BY <2>1 DEF TablesProgress
  <2> QED BY <2>1, <2>2, <2>3, <2>4
<1>4. \A m \in Prior(Me, i.requestId)' : m.fingerprint = b
  <2>1. SUFFICES ASSUME NEW m \in movements', m.actor = Me, m.requestId = i.requestId
                 PROVE  m.fingerprint = b
    BY DEF Prior
  <2>2. CASE m \in movements
    BY <1>1, <2>1, <2>2 DEF IntentionOK, Prior
  <2>3. CASE m \notin movements
    <3>1. i.requestId \in FormIds
      BY <1>1 DEF IntentionOK, FormIntent
    <3>2. PICK x \in posts : m.requestId = x.intent.requestId /\ m.fingerprint = x.intent.body
      BY <2>1, <2>3, <3>1 DEF OwnLines
    <3>3. x.intent \in HeldIntents
      BY DEF HeldIntents
    <3> QED BY <2>1, <3>2, <3>3 DEF ClientInv, IntentionsOK
  <2> QED BY <2>2, <2>3
<1>5. ValidChange(product[MyProduct].quantity, b.kind, b.amount)'
        = ValidChange(product'[MyProduct].quantity, b.kind, b.amount)
  BY DEF ValidChange, After
<1> QED BY <1>1, <1>2, <1>3, <1>4, <1>5 DEF IntentionOK

\* A step of the tables, and perhaps the arrival or the loss of a request.
LEMMA TablesKeepForm ==
    ASSUME ClientInv, IInv', TablesProgress, OwnLines, posts' \subseteq posts,
           UNCHANGED <<context, form, abandoned, told, forgotten>>,
           reply' \in {"none", "saved", "refused", "notFound"}
    PROVE  /\ ClientTypes' /\ IntentionsOK' /\ SignalsOK' /\ FatesOK'
           /\ \A i \in HeldIntents : Hopeless(i) => Hopeless(i)'
           /\ \A i : Recorded(i) => Recorded(i)'
<1>1. ClientTypes'
  BY DEF ClientInv, ClientTypes
<1>2. HeldIntents' \subseteq HeldIntents
  BY DEF HeldIntents
<1>3. IntentionsOK'
  <2>1. \A i \in HeldIntents' : IntentionOK(i)'
    BY <1>2, IntentionKept
  <2>2. \A i, j \in HeldIntents' : i.requestId = j.requestId => i = j
    BY <1>2 DEF ClientInv, IntentionsOK
  <2> QED BY <2>1, <2>2 DEF IntentionsOK
<1>4. \A i \in HeldIntents : Hopeless(i) => Hopeless(i)'
  BY HopelessKept
<1>5. /\ \A v \in Precondition : AccessHolds(v) => AccessHolds(v)'
      /\ \A row : RowHolds(row) => RowHolds(row)'
      /\ \A i : Recorded(i) => Recorded(i)'
  BY HoldsKept DEF ClientInv
<1>6. SignalsOK'
  <2>1. SignalsOK /\ context \in Precondition
        /\ form.access \in Precondition /\ form.reviewedAccess \in Precondition
    BY DEF ClientInv, ClientTypes, FormType
  <2>2. AccessHolds(context)' /\ AccessHolds(form.access)' /\ AccessHolds(form.reviewedAccess)'
    BY <1>5, <2>1 DEF SignalsOK
  <2>3. /\ form.open => RowHolds(form.source)'
        /\ form.inspected => RowHolds(form.reviewed)'
    BY <1>5, <2>1 DEF SignalsOK
  <2> QED BY <2>1, <2>2, <2>3 DEF SignalsOK
<1>7. FatesOK'
  <2>1. form.blocked => form.intent \in HeldIntents
    BY DEF ClientInv, SignalsOK, HeldIntents
  <2>2. abandoned \subseteq HeldIntents
    BY DEF HeldIntents
  <2> QED BY <1>4, <1>5, <2>1, <2>2 DEF ClientInv, FatesOK
<1> QED BY <1>1, <1>3, <1>4, <1>5, <1>6, <1>7

LEMMA OthersFacts ==
    ASSUME Others
    PROVE  Next /\ OwnLines
<1>1. PICK u \in Users, v \in Version :
          \/ \E r \in BarRequestIds, payload \in BarPayloads :
                CreateBar(u, MyBar, r, payload) /\ UNCHANGED inventoryVars
          \/ /\ \E target \in Users :
                   AddMember(u, MyBar, target, v) \/ RevokeMember(u, MyBar, target, v)
             /\ UNCHANGED inventoryVars
          \/ \E r \in RequestIds \ FormIds, amount \in FormAmounts :
                \/ \E settings \in Settings :
                      CreateProduct(u, MyBar, MyProduct, r, amount, settings, v)
                \/ \E kind \in {"ADD", "REMOVE"}, productV \in Version :
                      MoveStock(u, MyBar, MyProduct, r, kind, amount, productV, v)
  BY DEF Others
<1>2. /\ MyBar \in Workspaces /\ MyProduct \in Products /\ v \in Precondition
      /\ FormAmounts \subseteq Quantity /\ Version \subseteq Precondition
  BY ClientAssumption DEF Precondition
<1>3. CASE \E r \in BarRequestIds, payload \in BarPayloads :
              CreateBar(u, MyBar, r, payload) /\ UNCHANGED inventoryVars
  BY <1>2, <1>3 DEF Next, MembershipStep, BarsNext, OwnLines, inventoryVars
<1>4. CASE /\ \E target \in Users :
                 AddMember(u, MyBar, target, v) \/ RevokeMember(u, MyBar, target, v)
           /\ UNCHANGED inventoryVars
  BY <1>2, <1>4 DEF Next, MembershipStep, BarsNext, OwnLines, inventoryVars
<1>5. ASSUME NEW r \in RequestIds \ FormIds, NEW amount \in FormAmounts, NEW settings \in Settings,
             CreateProduct(u, MyBar, MyProduct, r, amount, settings, v)
      PROVE  Next /\ OwnLines
  <2>1. Next
    BY <1>2, <1>5 DEF Next, StockStep
  <2>2. OwnLines
    BY <1>5 DEF CreateProduct, OwnLines
  <2> QED BY <2>1, <2>2
<1>6. ASSUME NEW r \in RequestIds \ FormIds, NEW amount \in FormAmounts,
             NEW kind \in {"ADD", "REMOVE"}, NEW productV \in Version,
             MoveStock(u, MyBar, MyProduct, r, kind, amount, productV, v)
      PROVE  Next /\ OwnLines
  <2>1. Next
    BY <1>2, <1>6 DEF Next, StockStep
  <2>2. OwnLines
    BY <1>6 DEF MoveStock, OwnLines
  <2> QED BY <2>1, <2>2
<1> QED BY <1>1, <1>3, <1>4, <1>5, <1>6

LEMMA OthersPreserves == ClientInv /\ Others => ClientInv'
<1> SUFFICES ASSUME ClientInv, Others PROVE ClientInv'
  OBVIOUS
<1>1. IInv' /\ TablesProgress /\ OwnLines
  BY OthersFacts, TablesMakeProgress DEF ClientInv
<1>2. context' = context /\ form' = form /\ posts' = posts /\ reply' = reply
      /\ abandoned' = abandoned /\ told' = told /\ forgotten' = forgotten
  BY DEF Others, clientVars
<1>3. /\ ClientTypes' /\ IntentionsOK' /\ SignalsOK' /\ FatesOK'
      /\ \A i \in HeldIntents : Hopeless(i) => Hopeless(i)'
      /\ \A i : Recorded(i) => Recorded(i)'
  BY <1>1, <1>2, TablesKeepForm DEF ClientInv, ClientTypes
<1>4. form.busy = "send" => form.intent \in HeldIntents
  BY DEF ClientInv, SignalsOK, HeldIntents
<1>5. AnswersOK'
  BY <1>2, <1>3, <1>4 DEF ClientInv, AnswersOK
<1> QED BY <1>1, <1>3, <1>5 DEF ClientInv

LEMMA LosePostPreserves == ASSUME ClientInv, NEW x \in posts, LosePost(x) PROVE ClientInv'
<1>1. vars' = vars /\ context' = context /\ form' = form /\ posts' \subseteq posts
      /\ reply' = reply /\ abandoned' = abandoned /\ told' = told /\ forgotten' = forgotten
  BY DEF LosePost
<1>2. IInv' /\ TablesProgress /\ OwnLines
  BY <1>1, TablesMakeProgress DEF ClientInv, OwnLines, vars
<1>3. /\ ClientTypes' /\ IntentionsOK' /\ SignalsOK' /\ FatesOK'
      /\ \A i \in HeldIntents : Hopeless(i) => Hopeless(i)'
      /\ \A i : Recorded(i) => Recorded(i)'
  BY <1>1, <1>2, TablesKeepForm DEF ClientInv, ClientTypes
<1>4. form.busy = "send" => form.intent \in HeldIntents
  BY DEF ClientInv, SignalsOK, HeldIntents
<1>5. AnswersOK'
  BY <1>1, <1>3, <1>4 DEF ClientInv, AnswersOK
<1> QED BY <1>2, <1>3, <1>5 DEF ClientInv

\* What the server answers is true, and a refusal is for good.
LEMMA AnswerFacts ==
    ASSUME ClientInv, NEW i \in HeldIntents
    PROVE  /\ MoveAnswer(i) = "saved" => Recorded(i)
           /\ MoveAnswer(i) \in {"refused", "notFound"} => Hopeless(i)
           /\ MoveAnswer(i) = "apply" =>
                 /\ Applicable(i)
                 /\ Authorized(MyBar, Me, i.body.expectedAccessVersion)
                 /\ VersionMatches(product[MyProduct].version, i.body.expectedProductVersion)
                 /\ ValidChange(product[MyProduct].quantity, i.body.kind, i.body.amount)
           /\ MoveAnswer(i) \in {"saved", "refused", "notFound", "apply"}
<1> DEFINE b == i.body
           row == product[MyProduct]
<1>1. IntentionOK(i)
  BY DEF ClientInv, IntentionsOK
<1>2. /\ b.expectedAccessVersion \in Nat /\ b.expectedProductVersion \in Nat
      /\ b.expectedAccessVersion # NoVersion /\ b.expectedProductVersion # NoVersion
      /\ ProductIn(MyBar, MyProduct) /\ (\A m \in Prior(Me, i.requestId) : m.fingerprint = b)
  BY <1>1, NoVersionAssumption DEF IntentionOK, Version
<1>3. /\ b.expectedAccessVersion = accessVersion[MyBar] => Active(MyBar, Me)
      /\ b.expectedProductVersion = row.version => ValidChange(row.quantity, b.kind, b.amount)
  BY <1>1, <1>2 DEF IntentionOK, AccessHolds
<1>4. MoveAnswer(i) = "saved" => Recorded(i)
  <2>1. MoveAnswer(i) = "saved" => Prior(Me, i.requestId) # {}
    BY DEF MoveAnswer
  <2> QED BY <1>2, <2>1 DEF Recorded
<1>5. MoveAnswer(i) \in {"refused", "notFound"} => Hopeless(i)
  <2>1. ASSUME b.expectedAccessVersion = accessVersion[MyBar],
               MoveAnswer(i) \in {"refused", "notFound"}
        PROVE  Hopeless(i)
    <3>1. Active(MyBar, Me) /\ VersionMatches(accessVersion[MyBar], b.expectedAccessVersion)
      BY <1>2, <1>3, <2>1 DEF VersionMatches
    <3>2. Prior(Me, i.requestId) = {}
      BY <1>2, <2>1, <3>1 DEF MoveAnswer
    <3>3. ~ (/\ VersionMatches(row.version, b.expectedProductVersion)
             /\ ValidChange(row.quantity, b.kind, b.amount)
             /\ HasCapacity(row.version))
      BY <1>2, <2>1, <3>1, <3>2 DEF MoveAnswer
    <3>4. row.version # b.expectedProductVersion \/ ~ HasCapacity(row.version)
      BY <1>2, <1>3, <3>3 DEF VersionMatches
    <3> QED BY <3>2, <3>4 DEF Hopeless
  <2> QED BY <2>1 DEF Hopeless
<1>6. ASSUME MoveAnswer(i) = "apply"
      PROVE  /\ Active(MyBar, Me)
             /\ VersionMatches(accessVersion[MyBar], b.expectedAccessVersion)
             /\ VersionMatches(row.version, b.expectedProductVersion)
             /\ ValidChange(row.quantity, b.kind, b.amount)
             /\ HasCapacity(row.version)
  BY <1>6 DEF MoveAnswer
<1>7. MoveAnswer(i) \in {"saved", "refused", "notFound", "apply"}
  BY DEF MoveAnswer
<1> QED BY <1>4, <1>5, <1>6, <1>7 DEF Applicable, Authorized, VersionMatches

LEMMA ServePostFacts ==
    ASSUME ClientInv, NEW x \in posts, ServePost(x)
    PROVE  /\ [Next]_vars /\ OwnLines
           /\ MoveAnswer(x.intent) = "apply" => Recorded(x.intent)'
<1> DEFINE i == x.intent
           b == i.body
<1>1. i \in HeldIntents
  BY DEF HeldIntents
<1>2. IntentionOK(i)
  BY <1>1 DEF ClientInv, IntentionsOK
<1>3. CASE MoveAnswer(i) = "apply"
  <2>1. MoveStock(Me, MyBar, MyProduct, i.requestId, b.kind, b.amount,
                  b.expectedProductVersion, b.expectedAccessVersion)
    BY <1>3 DEF ServePost
  <2>2. /\ Me \in Users /\ MyBar \in Workspaces /\ MyProduct \in Products
        /\ i.requestId \in RequestIds /\ b.kind \in {"ADD", "REMOVE", "SET"} /\ b.amount \in Quantity
        /\ b.expectedProductVersion \in Precondition /\ b.expectedAccessVersion \in Precondition
    BY <1>2, ClientAssumption DEF IntentionOK, FormIntent, Intent
  <2>3. Next
    BY <2>1, <2>2 DEF Next, StockStep
  <2>4. PICK m \in movements' : /\ movements' = movements \union {m}
                                /\ m.actor = Me /\ m.requestId = i.requestId /\ m.fingerprint = b
    <3>1. b = MoveIntent(b.kind, MyBar, MyProduct, b.amount,
                         b.expectedProductVersion, b.expectedAccessVersion)
      BY <1>2 DEF IntentionOK
    <3> DEFINE line == NewLine(Me, i.requestId, b, MyProduct, product[MyProduct].quantity,
                               After(product[MyProduct].quantity, b.kind, b.amount),
                               product[MyProduct].version + 1)
    <3>2. movements' = movements \union {line}
      BY <2>1, <3>1 DEF MoveStock, NewLine
    <3>3. line.actor = Me /\ line.requestId = i.requestId /\ line.fingerprint = b
      BY DEF NewLine
    <3> HIDE DEF line
    <3> QED BY <3>2, <3>3
  <2>5. Applicable(i)
    BY <1>1, <1>3, AnswerFacts
  <2> QED BY <2>3, <2>4, <2>5 DEF OwnLines, Recorded, Prior
<1>4. CASE MoveAnswer(i) # "apply"
  <2>1. UNCHANGED vars
    BY <1>4 DEF ServePost
  <2> QED BY <1>4, <2>1 DEF OwnLines, vars
<1> QED BY <1>3, <1>4

LEMMA ServePostPreserves == ASSUME ClientInv, NEW x \in posts, ServePost(x) PROVE ClientInv'
<1> DEFINE i == x.intent
<1>1. IInv' /\ TablesProgress /\ OwnLines
  BY ServePostFacts, TablesMakeProgress DEF ClientInv
<1>2. /\ context' = context /\ form' = form /\ posts' = posts \ {x}
      /\ abandoned' = abandoned /\ told' = told /\ forgotten' = forgotten
      /\ reply' = IF ~ x.awaited THEN reply
                  ELSE IF MoveAnswer(i) = "apply" THEN "saved" ELSE MoveAnswer(i)
  BY DEF ServePost
<1>3. i \in HeldIntents
  BY DEF HeldIntents
<1>4. /\ MoveAnswer(i) = "saved" => Recorded(i)
      /\ MoveAnswer(i) \in {"refused", "notFound"} => Hopeless(i)
      /\ MoveAnswer(i) \in {"saved", "refused", "notFound", "apply"}
  BY <1>3, AnswerFacts
<1>5. /\ ClientTypes' /\ IntentionsOK' /\ SignalsOK' /\ FatesOK'
      /\ \A j \in HeldIntents : Hopeless(j) => Hopeless(j)'
      /\ \A j : Recorded(j) => Recorded(j)'
  BY <1>1, <1>2, <1>4, TablesKeepForm DEF ClientInv, ClientTypes
<1>6. form.busy = "send" => form.intent \in HeldIntents
  BY DEF ClientInv, SignalsOK, HeldIntents
<1>7. AnswersOK'
  <2>1. CASE ~ x.awaited
    BY <1>2, <1>5, <1>6, <2>1 DEF ClientInv, AnswersOK
  <2>2. CASE x.awaited
    <3>1. form.busy = "send" /\ i = form.intent
      BY <2>2 DEF ClientInv, AnswersOK
    <3>2. \A y \in posts' : ~ y.awaited
      <4>1. SUFFICES ASSUME NEW y \in posts', y.awaited PROVE FALSE
        OBVIOUS
      <4>2. y \in posts /\ y # x /\ y.intent = form.intent
        BY <1>2, <4>1 DEF ClientInv, AnswersOK
      <4>3. y = x
        BY <2>2, <3>1, <4>1, <4>2 DEF ClientInv, ClientTypes
      <4> QED BY <4>2, <4>3
    <3>3. reply' = "saved" => Recorded(form.intent)'
      <4>1. MoveAnswer(i) \in {"apply", "saved"} => Recorded(i)'
        BY <1>4, <1>5, ServePostFacts
      <4> QED BY <1>2, <2>2, <3>1, <4>1
    <3>4. reply' \in {"refused", "notFound"} => Hopeless(form.intent)'
      BY <1>2, <1>3, <1>4, <1>5, <2>2, <3>1
    <3> QED BY <1>2, <3>1, <3>2, <3>3, <3>4 DEF AnswersOK
  <2> QED BY <2>1, <2>2
<1> QED BY <1>1, <1>5, <1>7 DEF ClientInv

\* A step of the form alone: the tables and what is known of them stay.
LEMMA FormAlone ==
    ASSUME ClientInv, UNCHANGED vars
    PROVE  /\ IInv'
           /\ \A v : AccessHolds(v)' <=> AccessHolds(v)
           /\ \A row : RowHolds(row)' <=> RowHolds(row)
           /\ \A i : Recorded(i)' <=> Recorded(i)
           /\ \A i : IntentionOK(i)' <=> IntentionOK(i)
           /\ \A i : (\A x \in posts' : x.intent = i => \E y \in posts : y.intent = i)
                        /\ Hopeless(i) => Hopeless(i)'
<1>1. IInv'
  BY IInvInductive DEF ClientInv
<1>2. \A v : AccessHolds(v)' <=> AccessHolds(v)
  BY DEF AccessHolds, Active, vars
<1>3. \A row : RowHolds(row)' <=> RowHolds(row)
  BY DEF RowHolds, ProductIn, vars
<1>4. \A i : Recorded(i)' <=> Recorded(i)
  BY DEF Recorded, Prior, vars
<1>5. \A i : IntentionOK(i)' <=> IntentionOK(i)
  BY DEF IntentionOK, AccessHolds, Active, ProductIn, Prior, ValidChange, After, vars
<1>6. \A i : (\A x \in posts' : x.intent = i => \E y \in posts : y.intent = i)
                /\ Hopeless(i) => Hopeless(i)'
  BY DEF Hopeless, Prior, vars
<1> QED BY <1>1, <1>2, <1>3, <1>4, <1>5, <1>6

\* A form step that draws no intention keeps what is known of them.
LEMMA FormStep ==
    ASSUME ClientInv, UNCHANGED vars, ClientTypes', SignalsOK', AnswersOK',
           \A x \in posts' : \E y \in posts : y.intent = x.intent,
           form'.intent \in {form.intent, NoIntent},
           abandoned' \subseteq abandoned \union ({form.intent} \ {NoIntent}),
           \A i \in abandoned' \ abandoned : Hopeless(i),
           form'.blocked /\ ~ form'.uncertain => Hopeless(form.intent) /\ form'.intent = form.intent,
           \A i \in told' \ told : Recorded(i)
    PROVE  ClientInv'
<1>1. HeldIntents' \subseteq HeldIntents
  BY DEF HeldIntents
<1>2. IntentionsOK'
  BY <1>1, FormAlone DEF ClientInv, IntentionsOK
<1>3. \A i : Hopeless(i) => Hopeless(i)'
  BY FormAlone
<1>4. FatesOK'
  <2>1. form'.blocked /\ ~ form'.uncertain => Hopeless(form.intent)'
    BY <1>3
  <2>2. \A i \in abandoned' : Hopeless(i)'
    BY <1>3 DEF ClientInv, FatesOK
  <2>3. \A i \in told' : Recorded(i)'
    BY FormAlone DEF ClientInv, FatesOK
  <2> QED BY <2>1, <2>2, <2>3 DEF FatesOK
<1> QED BY <1>2, <1>4, FormAlone DEF ClientInv

LEMMA ServeReceiptPreserves == ClientInv /\ ServeReceipt => ClientInv'
<1> SUFFICES ASSUME ClientInv, ServeReceipt PROVE ClientInv'
  OBVIOUS
<1>1. /\ UNCHANGED vars /\ context' = context /\ form' = form /\ posts' = posts
      /\ abandoned' = abandoned /\ told' = told /\ forgotten' = forgotten
      /\ form.busy = "receipt" /\ reply' \in {"saved", "notFound"}
      /\ reply' = "saved" => Prior(Me, form.intent.requestId) # {}
  BY DEF ServeReceipt
<1>2. ClientTypes' /\ SignalsOK'
  BY <1>1, FormAlone DEF ClientInv, ClientTypes, SignalsOK
<1>3. reply' = "saved" => Recorded(form.intent)
  <2>1. form.intent \in HeldIntents
    BY <1>1 DEF ClientInv, SignalsOK, HeldIntents
  <2> QED BY <1>1, <2>1 DEF ClientInv, IntentionsOK, IntentionOK, Recorded
<1>4. AnswersOK'
  BY <1>1, <1>3, FormAlone DEF ClientInv, AnswersOK
<1> QED BY <1>1, <1>2, <1>4, FormStep DEF ClientInv, FatesOK

LEMMA ConfirmContextPreserves == ClientInv /\ ConfirmContext => ClientInv'
<1> SUFFICES ASSUME ClientInv, ConfirmContext PROVE ClientInv'
  OBVIOUS
<1>1. /\ UNCHANGED vars /\ form' = form /\ posts' = posts /\ reply' = reply
      /\ abandoned' = abandoned /\ told' = told /\ forgotten' = forgotten
      /\ form = Closed /\ Active(MyBar, Me) /\ context' = accessVersion[MyBar]
  BY DEF ConfirmContext, ClientInv, SignalsOK
<1>2. accessVersion[MyBar] \in Nat /\ accessVersion[MyBar] \in Precondition
  BY BarAndProduct DEF ClientInv, Precondition
<1>3. AccessHolds(context')
  BY <1>1, <1>2 DEF AccessHolds
<1>4. ClientTypes'
  BY <1>1, <1>2 DEF ClientInv, ClientTypes
<1>5. SignalsOK'
  BY <1>1, <1>3, FormAlone DEF ClientInv, SignalsOK, Closed
<1>6. AnswersOK'
  BY <1>1, FormAlone DEF ClientInv, AnswersOK, Closed
<1> QED BY <1>1, <1>4, <1>5, <1>6, FormStep DEF ClientInv, FatesOK

LEMMA OpenFormPreserves == ClientInv /\ OpenForm => ClientInv'
<1> SUFFICES ASSUME ClientInv, OpenForm PROVE ClientInv'
  OBVIOUS
<1>1. /\ UNCHANGED vars /\ context' = context /\ posts' = posts /\ reply' = reply
      /\ abandoned' = abandoned /\ told' = told /\ forgotten' = forgotten
      /\ form = Closed /\ Active(MyBar, Me) /\ ProductIn(MyBar, MyProduct)
      /\ context = accessVersion[MyBar]
      /\ form' = [Closed EXCEPT !.open = TRUE, !.source = product[MyProduct],
                                !.access = accessVersion[MyBar]]
  BY DEF OpenForm, ClientInv, SignalsOK
<1>2. /\ accessVersion[MyBar] \in Nat /\ accessVersion[MyBar] \in Version
      /\ accessVersion[MyBar] \in Precondition
      /\ product[MyProduct] \in Row /\ product[MyProduct].version \in Nat
      /\ context' # NoVersion
  BY <1>1, BarAndProduct, NoVersionAssumption DEF ClientInv, Precondition, Version
<1>3. /\ form' \in FormType /\ form'.open /\ form'.busy = "no" /\ form'.intent = NoIntent
      /\ ~ form'.blocked /\ ~ form'.uncertain /\ ~ form'.inspected
      /\ form'.source = product[MyProduct] /\ form'.access = accessVersion[MyBar]
      /\ form'.reviewedAccess = NoVersion
  BY <1>1, <1>2 DEF Closed, FormType, Precondition
<1>4. AccessHolds(accessVersion[MyBar]) /\ RowHolds(product[MyProduct]) /\ AccessHolds(NoVersion)
  BY <1>1, <1>2 DEF AccessHolds, RowHolds
<1>5. ClientTypes'
  BY <1>1, <1>3 DEF ClientInv, ClientTypes
<1>6. SignalsOK'
  BY <1>1, <1>2, <1>3, <1>4, FormAlone DEF ClientInv, SignalsOK, Closed
<1>7. AnswersOK'
  BY <1>1, <1>3, FormAlone DEF ClientInv, AnswersOK, Closed
<1> QED BY <1>1, <1>3, <1>5, <1>6, <1>7, FormStep DEF ClientInv, FatesOK, Closed

\* A refusal is known to be for good: the form blocks, and lets nothing through.
LEMMA RefusalFacts ==
    ASSUME ClientInv
    PROVE  /\ Refusal \in FormType
           /\ Refusal.busy = "no" /\ Refusal.blocked /\ ~ Refusal.uncertain
           /\ ~ Refusal.inspected
           /\ Refusal.open = form.open /\ Refusal.intent = form.intent
           /\ Refusal.source = form.source /\ Refusal.access = form.access
           /\ Refusal.reviewedAccess = form.reviewedAccess /\ Refusal.reviewed = form.reviewed
BY DEF ClientInv, ClientTypes, FormType, Refusal

LEMMA SavedPreserves == ClientInv /\ Saved => ClientInv'
<1> SUFFICES ASSUME ClientInv, Saved PROVE ClientInv'
  OBVIOUS
<1>1. /\ UNCHANGED vars /\ context' = context /\ posts' = posts /\ reply' = "none"
      /\ abandoned' = abandoned /\ told' = told \union {form.intent} /\ forgotten' = forgotten
      /\ form' = Closed /\ reply = "saved"
  BY DEF Saved
<1>2. Closed \in FormType
  BY DEF Closed, FormType, Precondition
<1>3. ClientTypes'
  BY <1>1, <1>2 DEF Saved, ClientInv, ClientTypes, SignalsOK, FormType
<1>4. AccessHolds(NoVersion)
  BY DEF AccessHolds
<1>5. NoIntent \notin FormIntent
  BY DEF FormIntent, NoIntent
<1>6. SignalsOK'
  BY <1>1, <1>3, <1>4, <1>5, FormAlone DEF ClientInv, ClientTypes, SignalsOK, Closed
<1>7. AnswersOK'
  BY <1>1 DEF ClientInv, AnswersOK
<1>8. Recorded(form.intent)
  BY <1>1 DEF ClientInv, AnswersOK
<1> QED BY <1>1, <1>3, <1>6, <1>7, <1>8, FormStep DEF ClientInv, Closed

LEMMA RefusedPreserves == ClientInv /\ Refused => ClientInv'
<1> SUFFICES ASSUME ClientInv, Refused PROVE ClientInv'
  OBVIOUS
<1>1. /\ UNCHANGED vars /\ context' = context /\ posts' = posts /\ reply' = "none"
      /\ abandoned' = abandoned /\ told' = told /\ forgotten' = forgotten
      /\ form' = Refusal /\ form.busy = "send" /\ reply \in {"refused", "notFound"}
  BY DEF Refused
<1>2. ClientTypes'
  BY <1>1, RefusalFacts DEF ClientInv, ClientTypes
<1>3. form.open
  BY <1>1 DEF ClientInv, SignalsOK, Closed
<1>4. SignalsOK'
  BY <1>1, <1>3, RefusalFacts, FormAlone DEF ClientInv, SignalsOK
<1>5. \A x \in posts : ~ x.awaited
  BY <1>1 DEF ClientInv, AnswersOK
<1>6. AnswersOK'
  BY <1>1, <1>5 DEF AnswersOK
<1>7. Hopeless(form.intent)
  BY <1>1 DEF ClientInv, AnswersOK
<1> QED BY <1>1, <1>2, <1>4, <1>6, <1>7, RefusalFacts, FormStep DEF ClientInv

\* The fields a step of the form leaves alone.
SameFields(f, g, S) ==
    /\ f \in FormType /\ g \in FormType
    /\ "open" \in S => f.open = g.open
    /\ "intent" \in S => f.intent = g.intent
    /\ "signals" \in S => f.blocked = g.blocked /\ f.uncertain = g.uncertain
    /\ "source" \in S => f.source = g.source /\ f.access = g.access
    /\ "review" \in S => /\ f.inspected = g.inspected /\ f.reviewed = g.reviewed
                         /\ f.reviewedAccess = g.reviewedAccess

AllFields == {"open", "intent", "signals", "source", "review"}

LEMMA TimeoutPreserves == ClientInv /\ Timeout => ClientInv'
<1> SUFFICES ASSUME ClientInv, Timeout PROVE ClientInv'
  OBVIOUS
<1>1. /\ UNCHANGED vars /\ context' = context /\ reply' = "none"
      /\ posts' = { [x EXCEPT !.awaited = FALSE] : x \in posts }
      /\ abandoned' = abandoned /\ told' = told /\ forgotten' = forgotten
      /\ form.busy # "no"
      /\ form' = IF form.busy = "send"
                 THEN [form EXCEPT !.busy = "no", !.blocked = TRUE, !.uncertain = TRUE]
                 ELSE [form EXCEPT !.busy = "no"]
  BY DEF Timeout
<1>2. form.open
  BY <1>1 DEF ClientInv, SignalsOK, Closed
<1>3. /\ \A x \in posts' : x \in [intent : FormIntent, awaited : BOOLEAN] /\ ~ x.awaited
      /\ \A x \in posts' : \E y \in posts : y.intent = x.intent
  BY <1>1 DEF ClientInv, ClientTypes
<1>4. CASE form.busy = "send"
  <2>1. /\ SameFields(form', form, {"open", "intent", "source", "review"})
        /\ form'.busy = "no" /\ form'.blocked /\ form'.uncertain
    BY <1>1, <1>4 DEF ClientInv, ClientTypes, FormType, SameFields
  <2>2. ClientTypes' /\ AnswersOK'
    BY <1>1, <1>3, <2>1 DEF ClientInv, ClientTypes, AnswersOK, SameFields
  <2>3. SignalsOK'
    BY <1>1, <1>2, <1>4, <2>1, FormAlone DEF ClientInv, SignalsOK, SameFields
  <2> QED BY <1>1, <1>3, <2>1, <2>2, <2>3, FormStep DEF SameFields
<1>5. CASE form.busy # "send"
  <2>1. SameFields(form', form, AllFields) /\ form'.busy = "no"
    BY <1>1, <1>5 DEF ClientInv, ClientTypes, FormType, SameFields
  <2>2. ClientTypes' /\ AnswersOK'
    BY <1>1, <1>3, <2>1 DEF ClientInv, ClientTypes, AnswersOK, SameFields
  <2>3. SignalsOK'
    BY <1>1, <1>2, <2>1, FormAlone DEF ClientInv, SignalsOK, SameFields, AllFields
  <2> QED BY <1>1, <1>3, <2>1, <2>2, <2>3, FormStep DEF SameFields, AllFields, ClientInv, FatesOK
<1> QED BY <1>4, <1>5

LEMMA AskingPreserves ==
    ASSUME ClientInv, InspectReceipt \/ InspectState
    PROVE  ClientInv'
<1>1. /\ UNCHANGED vars /\ context' = context /\ posts' = posts /\ reply' = reply
      /\ abandoned' = abandoned /\ told' = told /\ forgotten' = forgotten
      /\ form.busy = "no" /\ form.blocked
      /\ \/ form' = [form EXCEPT !.busy = "receipt", !.missing = FALSE]
         \/ form' = [form EXCEPT !.busy = "verify", !.inspected = FALSE] /\ ~ form.uncertain
  BY DEF InspectReceipt, InspectState
<1>2. form.open
  BY <1>1 DEF ClientInv, SignalsOK, Closed
<1>3. /\ SameFields(form', form, {"open", "intent", "signals", "source"})
      /\ form'.reviewedAccess = form.reviewedAccess /\ form'.reviewed = form.reviewed
      /\ form'.inspected => form.inspected
      /\ \/ form'.busy = "receipt"
         \/ form'.busy = "verify" /\ ~ form.uncertain
  BY <1>1 DEF ClientInv, ClientTypes, FormType, SameFields
<1>4. ClientTypes'
  BY <1>1, <1>3 DEF ClientInv, ClientTypes, SameFields
<1>5. SignalsOK'
  BY <1>1, <1>2, <1>3, FormAlone DEF ClientInv, SignalsOK, SameFields
<1>6. AnswersOK'
  BY <1>1, <1>3, FormAlone DEF ClientInv, AnswersOK, SameFields
<1> QED BY <1>1, <1>3, <1>4, <1>5, <1>6, FormStep DEF SameFields, ClientInv, FatesOK

LEMMA ReceiptMissingPreserves == ClientInv /\ ReceiptMissing => ClientInv'
<1> SUFFICES ASSUME ClientInv, ReceiptMissing PROVE ClientInv'
  OBVIOUS
<1>1. /\ UNCHANGED vars /\ context' = context /\ posts' = posts /\ reply' = "none"
      /\ abandoned' = abandoned /\ told' = told /\ forgotten' = forgotten
      /\ form.busy = "receipt" /\ reply = "notFound"
      /\ form' = [form EXCEPT !.busy = "no", !.missing = TRUE]
  BY DEF ReceiptMissing
<1>2. form.open
  BY <1>1 DEF ClientInv, SignalsOK, Closed
<1>3. SameFields(form', form, AllFields) /\ form'.busy = "no"
  BY <1>1 DEF ClientInv, ClientTypes, FormType, SameFields
<1>4. ClientTypes'
  BY <1>1, <1>3 DEF ClientInv, ClientTypes, SameFields
<1>5. SignalsOK'
  BY <1>1, <1>2, <1>3, FormAlone DEF ClientInv, SignalsOK, SameFields, AllFields
<1>6. AnswersOK'
  BY <1>1 DEF ClientInv, AnswersOK
<1> QED BY <1>1, <1>3, <1>4, <1>5, <1>6, FormStep DEF SameFields, AllFields, ClientInv, FatesOK

LEMMA VerifyAccessPreserves == ClientInv /\ VerifyAccess => ClientInv'
<1> SUFFICES ASSUME ClientInv, VerifyAccess PROVE ClientInv'
  OBVIOUS
<1>1. /\ UNCHANGED vars /\ posts' = posts /\ reply' = reply
      /\ abandoned' = abandoned /\ told' = told /\ forgotten' = forgotten
      /\ form.busy = "verify"
  BY DEF VerifyAccess
<1>2. form.open /\ form.blocked /\ ~ form.uncertain /\ reply = "none"
  BY <1>1 DEF ClientInv, SignalsOK, AnswersOK, Closed
<1>3. AnswersOK'
  <2>1. \A x \in posts : ~ x.awaited
    BY <1>1 DEF ClientInv, AnswersOK
  <2> QED BY <1>1, <1>2, <2>1 DEF AnswersOK
<1>4. CASE Active(MyBar, Me)
  <2>1. context' = accessVersion[MyBar] /\ form' = [form EXCEPT !.busy = "detail"]
    BY <1>4 DEF VerifyAccess
  <2>2. SameFields(form', form, AllFields) /\ form'.busy = "detail"
    BY <2>1 DEF ClientInv, ClientTypes, FormType, SameFields
  <2>3. /\ accessVersion[MyBar] \in Nat /\ accessVersion[MyBar] \in Version
        /\ accessVersion[MyBar] # NoVersion
    BY BarAndProduct, NoVersionAssumption DEF ClientInv, Version
  <2>4. ClientTypes'
    BY <1>1, <2>1, <2>2, <2>3 DEF ClientInv, ClientTypes, SameFields, Precondition
  <2>5. AccessHolds(context')
    BY <1>4, <2>1, <2>3 DEF AccessHolds
  <2>6. SignalsOK'
    BY <1>1, <1>2, <2>1, <2>2, <2>3, <2>5, FormAlone
       DEF ClientInv, SignalsOK, SameFields, AllFields
  <2> QED BY <1>1, <1>3, <2>2, <2>4, <2>6, FormStep DEF SameFields, AllFields, ClientInv, FatesOK
<1>5. CASE ~ Active(MyBar, Me)
  <2>1. context' = NoVersion /\ form' = Closed
    BY <1>5 DEF VerifyAccess
  <2>2. ClientTypes'
    BY <1>1, <2>1 DEF ClientInv, ClientTypes, Closed, FormType, Precondition
  <2>3. AccessHolds(NoVersion) /\ NoIntent \notin FormIntent
    BY DEF AccessHolds, FormIntent, NoIntent
  <2>4. SignalsOK'
    BY <1>1, <2>1, <2>3, FormAlone DEF ClientInv, ClientTypes, SignalsOK, Closed
  <2> QED BY <1>1, <1>3, <2>1, <2>2, <2>4, FormStep DEF Closed
<1> QED BY <1>4, <1>5

LEMMA ReviewProductPreserves == ClientInv /\ ReviewProduct => ClientInv'
<1> SUFFICES ASSUME ClientInv, ReviewProduct PROVE ClientInv'
  OBVIOUS
<1>1. /\ UNCHANGED vars /\ posts' = posts /\ reply' = reply
      /\ abandoned' = abandoned /\ told' = told /\ forgotten' = forgotten
      /\ form.busy = "detail"
      /\ context' = context
      /\ \/ form' = [form EXCEPT !.busy = "no", !.reviewed = product[MyProduct],
                                 !.reviewedAccess = context, !.inspected = TRUE]
         \/ form' = [form EXCEPT !.busy = "no"]
  BY DEF ReviewProduct
<1>2. form.open /\ form.blocked /\ ~ form.uncertain
  BY <1>1 DEF ClientInv, SignalsOK, Closed
<1>3. /\ ProductIn(MyBar, MyProduct) /\ product[MyProduct] \in Row
      /\ product[MyProduct].version \in Nat
  BY <1>2, BarAndProduct DEF ClientInv, SignalsOK, RowHolds
<1>4. RowHolds(product[MyProduct])
  BY <1>3 DEF RowHolds
<1>5. SameFields(form', form, {"open", "intent", "signals", "source"}) /\ form'.busy = "no"
  BY <1>1, <1>3 DEF ClientInv, ClientTypes, FormType, SameFields
<1>6. \/ form'.reviewed = product[MyProduct] /\ form'.reviewedAccess = context
      \/ SameFields(form', form, {"review"})
  BY <1>1, <1>3 DEF ClientInv, ClientTypes, FormType, SameFields
<1>7. ClientTypes'
  BY <1>1, <1>5 DEF ClientInv, ClientTypes, SameFields
<1>8. AccessHolds(form'.reviewedAccess)
  BY <1>6 DEF ClientInv, SignalsOK, SameFields
<1>9. form'.inspected => RowHolds(form'.reviewed)
  BY <1>4, <1>6 DEF ClientInv, SignalsOK, SameFields
<1>10. SignalsOK'
  BY <1>1, <1>2, <1>5, <1>8, <1>9, FormAlone DEF ClientInv, SignalsOK, SameFields
<1>11. AnswersOK'
  BY <1>1, <1>5 DEF ClientInv, AnswersOK
<1> QED BY <1>1, <1>5, <1>7, <1>10, <1>11, FormStep DEF SameFields, ClientInv, FatesOK

LEMMA NewIntentionPreserves == ClientInv /\ NewIntention => ClientInv'
<1> SUFFICES ASSUME ClientInv, NewIntention PROVE ClientInv'
  OBVIOUS
<1>1. /\ UNCHANGED vars /\ context' = context /\ posts' = posts /\ reply' = reply /\ told' = told
      /\ forgotten' = forgotten
      /\ abandoned' = abandoned \union {form.intent}
      /\ form.inspected /\ ~ form.uncertain /\ form.busy = "no" /\ form.reviewedAccess # NoVersion
      /\ form' = [form EXCEPT !.source = form.reviewed, !.access = form.reviewedAccess,
                              !.intent = NoIntent, !.blocked = FALSE, !.inspected = FALSE,
                              !.replaced = @ \union {form.intent}]
  BY DEF NewIntention
<1>2. /\ form.open /\ form.blocked /\ form.intent # NoIntent /\ form.intent \in FormIntent
      /\ RowHolds(form.reviewed) /\ form.reviewedAccess \in Version
  BY <1>1 DEF ClientInv, SignalsOK, ClientTypes, FormType, Closed, Precondition
<1>3. /\ form' \in FormType /\ form'.open /\ form'.intent = NoIntent /\ form'.busy = "no"
      /\ ~ form'.blocked /\ ~ form'.uncertain /\ ~ form'.inspected
      /\ form'.source = form.reviewed /\ form'.access = form.reviewedAccess
      /\ form'.reviewedAccess = form.reviewedAccess
  BY <1>1, <1>2 DEF ClientInv, ClientTypes, FormType
<1>4. ClientTypes'
  BY <1>1, <1>2, <1>3 DEF ClientInv, ClientTypes
<1>5. NoIntent \notin FormIntent
  BY DEF FormIntent, NoIntent
<1>6. SignalsOK'
  BY <1>1, <1>2, <1>3, <1>4, <1>5, FormAlone DEF ClientInv, ClientTypes, SignalsOK
<1>7. AnswersOK'
  BY <1>1 DEF ClientInv, AnswersOK
<1>8. Hopeless(form.intent)
  BY <1>1, <1>2 DEF ClientInv, FatesOK
<1> QED BY <1>1, <1>2, <1>3, <1>4, <1>6, <1>7, <1>8, FormStep

LEMMA ClosePreserves == ClientInv /\ Close => ClientInv'
<1> SUFFICES ASSUME ClientInv, Close PROVE ClientInv'
  OBVIOUS
<1>1. /\ UNCHANGED vars /\ context' = context /\ posts' = posts /\ reply' = reply
      /\ abandoned' = abandoned /\ told' = told /\ forgotten' = forgotten
      /\ form.busy = "no" /\ form' = Closed
  BY DEF Close
<1>2. ClientTypes'
  BY <1>1 DEF ClientInv, ClientTypes, Closed, FormType, Precondition
<1>3. AccessHolds(NoVersion) /\ NoIntent \notin FormIntent
  BY DEF AccessHolds, FormIntent, NoIntent
<1>4. SignalsOK'
  BY <1>1, <1>2, <1>3, FormAlone DEF ClientInv, ClientTypes, SignalsOK, Closed
<1>5. AnswersOK'
  BY <1>1 DEF ClientInv, AnswersOK
<1> QED BY <1>1, <1>2, <1>4, <1>5, FormStep DEF Closed

\* The form destroyed by its page: its requests are no longer waited for.
LEMMA DestroyedPreserves == ClientInv /\ (PageAbandoned \/ ContextLost) => ClientInv'
<1> SUFFICES ASSUME ClientInv, PageAbandoned \/ ContextLost PROVE ClientInv'
  OBVIOUS
<1>1. /\ UNCHANGED vars /\ context' \in {context, NoVersion} /\ reply' = "none"
      /\ posts' = { [x EXCEPT !.awaited = FALSE] : x \in posts }
      /\ abandoned' = abandoned /\ told' = told /\ form' = Closed
      /\ forgotten' = IF Unsettled THEN forgotten \union {form.intent} ELSE forgotten
  BY DEF PageAbandoned, ContextLost, Destroyed
<1>2. /\ \A x \in posts' : x \in [intent : FormIntent, awaited : BOOLEAN] /\ ~ x.awaited
      /\ \A x \in posts' : \E y \in posts : y.intent = x.intent
  BY <1>1 DEF ClientInv, ClientTypes
<1>3. forgotten' \subseteq FormIntent
  BY <1>1 DEF Unsettled, ClientInv, ClientTypes, SignalsOK, FormType
<1>4. ClientTypes'
  BY <1>1, <1>2, <1>3 DEF ClientInv, ClientTypes, Closed, FormType, Precondition
<1>5. AccessHolds(NoVersion) /\ NoIntent \notin FormIntent
  BY DEF AccessHolds, FormIntent, NoIntent
<1>6. SignalsOK'
  BY <1>1, <1>4, <1>5, FormAlone DEF ClientInv, ClientTypes, SignalsOK, Closed
<1>7. AnswersOK'
  BY <1>1, <1>2 DEF AnswersOK
<1> QED BY <1>1, <1>2, <1>4, <1>6, <1>7, FormStep DEF Closed

\* An uncertain intention keeps the access version it may be sent under, so a
\* retry always leaves, and nothing else leaves.
LEMMA RetryFacts ==
    ASSUME ClientInv, RetrySame
    PROVE  /\ UNCHANGED vars /\ context' = context /\ reply' = "none"
           /\ abandoned' = abandoned /\ told' = told /\ forgotten' = forgotten
           /\ form.uncertain /\ form.blocked /\ form.open /\ form.busy = "no"
           /\ form.intent # NoIntent /\ form.intent \in FormIntent
           /\ context = form.intent.body.expectedAccessVersion
           /\ SameFields(form', form, {"open", "intent", "signals", "source"})
           /\ form'.reviewedAccess = form.reviewedAccess
           /\ form'.busy = "send" /\ ~ form'.inspected
           /\ posts' = posts \union {[intent |-> form.intent, awaited |-> TRUE]}
<1>1. /\ UNCHANGED vars /\ context' = context /\ reply' = "none"
      /\ abandoned' = abandoned /\ told' = told /\ forgotten' = forgotten
      /\ form.uncertain /\ form.busy = "no" /\ context # NoVersion /\ Send(form.intent)
  BY DEF RetrySame
<1>2. /\ form.open /\ form.blocked /\ form.intent # NoIntent /\ form.intent \in FormIntent
      /\ context = form.intent.body.expectedAccessVersion
  BY <1>1 DEF ClientInv, SignalsOK, Closed, ClientTypes, FormType
<1>3. /\ form' = [form EXCEPT !.intent = form.intent, !.busy = "send",
                              !.inspected = FALSE, !.missing = FALSE]
      /\ posts' = posts \union {[intent |-> form.intent, awaited |-> TRUE]}
  BY <1>1, <1>2 DEF Send
<1> QED BY <1>1, <1>2, <1>3 DEF ClientInv, ClientTypes, FormType, SameFields

LEMMA RetryPreserves == ClientInv /\ RetrySame => ClientInv'
<1> SUFFICES ASSUME ClientInv, RetrySame PROVE ClientInv'
  OBVIOUS
<1>1. ClientTypes'
  <2>1. [intent |-> form.intent, awaited |-> TRUE] \in [intent : FormIntent, awaited : BOOLEAN]
    BY RetryFacts
  <2>2. form' \in FormType
    BY RetryFacts DEF SameFields
  <2> QED BY <2>1, <2>2, RetryFacts DEF ClientInv, ClientTypes
<1>2. IInv'
  BY RetryFacts, FormAlone
<1>3. HeldIntents' \subseteq HeldIntents
  BY RetryFacts DEF HeldIntents, SameFields
<1>4. IntentionsOK'
  BY <1>3, RetryFacts, FormAlone DEF ClientInv, IntentionsOK
<1>5. SignalsOK'
  BY RetryFacts, FormAlone DEF ClientInv, SignalsOK, SameFields
<1>6. AnswersOK'
  <2>1. \A x \in posts : ~ x.awaited
    BY RetryFacts DEF ClientInv, AnswersOK
  <2> QED BY <2>1, RetryFacts DEF AnswersOK, SameFields
<1>7. FatesOK'
  <2>1. \A i \in abandoned : i # form.intent /\ Hopeless(i)
    BY DEF ClientInv, SignalsOK, FatesOK
  <2>2. \A i \in abandoned : Hopeless(i)'
    BY <2>1, RetryFacts, FormAlone
  <2> QED BY <2>2, RetryFacts, FormAlone DEF ClientInv, FatesOK, SameFields
<1> QED BY <1>1, <1>2, <1>4, <1>5, <1>6, <1>7 DEF ClientInv

LEMMA SubmitPreserves ==
    ASSUME ClientInv, NEW kind \in {"ADD", "REMOVE", "SET"}, NEW amount \in FormAmounts,
           NEW r \in FormIds, Submit(kind, amount, r)
    PROVE  ClientInv'
<1> DEFINE b == MoveIntent(kind, MyBar, MyProduct, amount, form.source.version, form.access)
           i == [requestId |-> r, body |-> b]
<1>1. /\ UNCHANGED vars /\ context' = context /\ reply' = "none"
      /\ abandoned' = abandoned /\ told' = told /\ forgotten' = forgotten
      /\ form.open /\ form.busy = "no" /\ ~ form.blocked /\ context # NoVersion
      /\ ValidChange(form.source.quantity, kind, amount) /\ form.intent = NoIntent
      /\ \A j \in abandoned \union forgotten : j.requestId # r
      /\ \A m \in movements : m.requestId # r
      /\ \A x \in posts : x.intent.requestId # r
      /\ Send(i)
  BY DEF Submit, Ready
<1>2. /\ form \in FormType /\ ~ form.uncertain /\ ~ form.inspected
      /\ RowHolds(form.source) /\ form.access \in Version /\ AccessHolds(form.access)
      /\ AccessHolds(context) /\ AccessHolds(form.reviewedAccess)
  BY <1>1 DEF ClientInv, ClientTypes, SignalsOK
<1>3. form.source \in Row /\ form.source.version \in Version /\ ProductIn(MyBar, MyProduct)
  BY <1>2 DEF RowHolds, Row
<1>4. /\ b.kind = kind /\ b.amount = amount /\ b.expectedProductVersion = form.source.version
      /\ b.expectedAccessVersion = form.access /\ i.requestId = r /\ i.body = b
  BY DEF MoveIntent
<1>5. i \in FormIntent /\ i # NoIntent
  <2>1. b \in Intent
    BY <1>2, <1>3, ClientAssumption DEF MoveIntent, Intent, Precondition
  <2>2. i \in FormIntent
    BY <2>1 DEF FormIntent
  <2> QED BY <2>2 DEF FormIntent, NoIntent
<1>6. IntentionOK(i)
  <2>1. Prior(Me, r) = {}
    BY <1>1 DEF Prior
  <2>2. b = MoveIntent(b.kind, MyBar, MyProduct, b.amount,
                       b.expectedProductVersion, b.expectedAccessVersion)
    BY <1>4
  <2>3. /\ form.source.version <= product[MyProduct].version
        /\ form.source.version = product[MyProduct].version
              => ValidChange(product[MyProduct].quantity, kind, amount)
    BY <1>1, <1>2 DEF RowHolds
  <2> HIDE DEF b
  <2> QED BY <1>2, <1>3, <1>4, <1>5, <2>1, <2>2, <2>3 DEF IntentionOK
<1>7. Hopeless(i)
  <2>1. Prior(Me, i.requestId) = {}
    BY <1>1, <1>4 DEF Prior
  <2>2. \A x \in posts : x.intent # i
    BY <1>1, <1>4
  <2> QED BY <2>1, <2>2 DEF Hopeless
<1>8. \A j \in HeldIntents : j.requestId # r
  BY <1>1 DEF HeldIntents
<1> HIDE DEF i, b
<1>9. \/ /\ SameFields(form', form, {"open", "source"}) /\ form'.reviewedAccess = form.reviewedAccess
         /\ form'.intent = i /\ form'.busy = "no" /\ form'.blocked /\ ~ form'.uncertain
         /\ ~ form'.inspected /\ posts' = posts
      \/ /\ SameFields(form', form, {"open", "signals", "source"})
         /\ form'.reviewedAccess = form.reviewedAccess
         /\ form'.intent = i /\ form'.busy = "send" /\ ~ form'.inspected
         /\ context = i.body.expectedAccessVersion
         /\ posts' = posts \union {[intent |-> i, awaited |-> TRUE]}
  <2>1. CASE context # i.body.expectedAccessVersion
    <3>1. form' = [Refusal EXCEPT !.intent = i] /\ posts' = posts
      BY <1>1, <2>1 DEF Send
    <3> QED BY <1>2, <1>5, <3>1 DEF Refusal, FormType, SameFields
  <2>2. CASE context = i.body.expectedAccessVersion
    <3>1. /\ form' = [form EXCEPT !.intent = i, !.busy = "send",
                                  !.inspected = FALSE, !.missing = FALSE]
          /\ posts' = posts \union {[intent |-> i, awaited |-> TRUE]}
      BY <1>1, <2>2 DEF Send
    <3> QED BY <1>2, <1>5, <2>2, <3>1 DEF FormType, SameFields
  <2> QED BY <2>1, <2>2
<1>10. ClientTypes'
  <2>1. form' \in FormType /\ posts' \subseteq posts \union {[intent |-> i, awaited |-> TRUE]}
    BY <1>9 DEF SameFields
  <2>2. [intent |-> i, awaited |-> TRUE] \in [intent : FormIntent, awaited : BOOLEAN]
    BY <1>5
  <2> QED BY <1>1, <2>1, <2>2 DEF ClientInv, ClientTypes
<1>11. HeldIntents' \subseteq HeldIntents \union {i}
  BY <1>1, <1>9 DEF HeldIntents
<1>12. IntentionsOK'
  BY <1>1, <1>4, <1>6, <1>8, <1>11, FormAlone DEF ClientInv, IntentionsOK
<1>13. i \notin abandoned \union told \union forgotten
  <2>1. \A j \in told : j.requestId # r
    BY <1>1 DEF ClientInv, FatesOK, Recorded, Prior
  <2> QED BY <1>1, <1>4, <2>1
<1>14. SignalsOK'
  BY <1>1, <1>2, <1>5, <1>9, <1>13, FormAlone DEF ClientInv, SignalsOK, SameFields
<1>15. AnswersOK'
  <2>1. \A x \in posts : ~ x.awaited
    BY <1>1 DEF ClientInv, AnswersOK
  <2> QED BY <1>1, <1>9, <2>1 DEF AnswersOK
<1>16. FatesOK'
  <2>1. \A j \in abandoned : Hopeless(j)'
    <3>1. \A j \in abandoned : Hopeless(j) /\ j # i
      BY <1>13 DEF ClientInv, FatesOK
    <3> QED BY <1>1, <1>9, <3>1, FormAlone
  <2>2. \A j \in told : Recorded(j)'
    BY <1>1, FormAlone DEF ClientInv, FatesOK
  <2>3. form'.blocked /\ ~ form'.uncertain => form'.intent = i /\ posts' = posts
    BY <1>1, <1>2, <1>9 DEF SameFields
  <2>4. form'.blocked /\ ~ form'.uncertain => Hopeless(form.intent)'
    BY <1>1, <1>7, <2>3, FormAlone
  <2> QED BY <1>1, <2>1, <2>2, <2>4 DEF FatesOK
<1>17. IInv'
  BY <1>1, FormAlone
<1> QED BY <1>10, <1>12, <1>14, <1>15, <1>16, <1>17 DEF ClientInv

LEMMA ClientInitOK == ClientInit => ClientInv
<1> SUFFICES ASSUME ClientInit PROVE ClientInv
  OBVIOUS
<1>1. IInv
  BY InitIInv DEF ClientInit
<1>2. /\ context = NoVersion /\ form = Closed /\ posts = {} /\ reply = "none"
      /\ abandoned = {} /\ told = {} /\ forgotten = {}
  BY DEF ClientInit, FormInit
<1>3. ClientTypes
  BY <1>2 DEF ClientTypes, Closed, FormType, Precondition
<1>4. HeldIntents = {}
  BY <1>2 DEF HeldIntents, Closed
<1>5. SignalsOK
  BY <1>2 DEF SignalsOK, Closed, AccessHolds
<1> QED BY <1>1, <1>2, <1>3, <1>4, <1>5
        DEF ClientInv, IntentionsOK, AnswersOK, FatesOK, Closed

\* Every step keeps the invariant and is a step of Inventory, or none of it.
LEMMA ClientStepOK ==
    ASSUME ClientInv, [ClientNext]_allVars
    PROVE  ClientInv' /\ [Next]_vars
<1>1. CASE UNCHANGED allVars
  <2>1. /\ UNCHANGED vars /\ context' = context /\ form' = form /\ posts' = posts
        /\ reply' = reply /\ abandoned' = abandoned /\ told' = told /\ forgotten' = forgotten
    BY <1>1 DEF allVars, clientVars
  <2>2. IInv' /\ TablesProgress /\ OwnLines
    BY <2>1, TablesMakeProgress DEF ClientInv, OwnLines, vars
  <2>3. ClientTypes' /\ IntentionsOK' /\ SignalsOK' /\ FatesOK'
    BY <2>1, <2>2, TablesKeepForm DEF ClientInv, ClientTypes
  <2>4. AnswersOK'
    <3>1. form.busy = "send" => (Hopeless(form.intent) => Hopeless(form.intent)')
      BY <2>1, FormAlone
    <3> QED BY <2>1, <3>1, FormAlone DEF ClientInv, AnswersOK
  <2> QED BY <2>1, <2>2, <2>3, <2>4 DEF ClientInv
<1>2. CASE Others
  BY <1>2, OthersPreserves, OthersFacts
<1>3. ASSUME NEW x \in posts, ServePost(x) \/ LosePost(x)
      PROVE  ClientInv' /\ [Next]_vars
  <2>1. CASE ServePost(x)
    BY <2>1, ServePostPreserves, ServePostFacts
  <2>2. CASE LosePost(x)
    BY <2>2, LosePostPreserves DEF LosePost
  <2> QED BY <1>3, <2>1, <2>2
<1>4. ASSUME NEW kind \in {"ADD", "REMOVE", "SET"}, NEW amount \in FormAmounts, NEW r \in FormIds,
             Submit(kind, amount, r)
      PROVE  ClientInv' /\ [Next]_vars
  BY <1>4, SubmitPreserves DEF Submit
<1>5. CASE ServeReceipt \/ ConfirmContext \/ OpenForm \/ RetrySame \/ Saved \/ Refused \/ Timeout
  <2>1. UNCHANGED vars
    BY <1>5 DEF ServeReceipt, ConfirmContext, OpenForm, RetrySame, Saved, Refused, Timeout
  <2> QED BY <1>5, <2>1, ServeReceiptPreserves, ConfirmContextPreserves, OpenFormPreserves,
             RetryPreserves, SavedPreserves, RefusedPreserves, TimeoutPreserves
<1>6. CASE InspectReceipt \/ ReceiptMissing \/ InspectState \/ VerifyAccess \/ ReviewProduct
           \/ NewIntention \/ Close \/ PageAbandoned \/ ContextLost
  <2>1. UNCHANGED vars
    BY <1>6 DEF InspectReceipt, ReceiptMissing, InspectState, VerifyAccess, ReviewProduct,
                NewIntention, Close, PageAbandoned, ContextLost
  <2> QED BY <1>6, <2>1, AskingPreserves, ReceiptMissingPreserves, VerifyAccessPreserves,
             ReviewProductPreserves, NewIntentionPreserves, ClosePreserves, DestroyedPreserves
<1> QED BY <1>1, <1>2, <1>3, <1>4, <1>5, <1>6 DEF ClientNext

\* What the form knows of its intentions is true in every reachable state,
\* however many requests are delayed, lost or retried.
THEOREM FormInvariant == ClientSpec => []ClientInv
<1>1. ClientInv /\ [ClientNext]_allVars => ClientInv'
  BY ClientStepOK
<1> QED BY ClientInitOK, <1>1, PTL DEF ClientSpec

\* With the form and its slow network, the stock is still that of Inventory.
THEOREM FormImplementsInventory == ClientSpec => Spec
<1>1. ClientInit => Init
  BY DEF ClientInit
<1>2. ClientInv /\ [ClientNext]_allVars => [Next]_vars
  BY ClientStepOK
<1> QED BY FormInvariant, <1>1, <1>2, PTL DEF ClientSpec, Spec

\* What the user is told is recorded, by the POST or by a receipt found later.
THEOREM ToldIsRecorded == ClientSpec => []ConfirmedIsRecorded
<1>1. ClientInv => ConfirmedIsRecorded
  BY DEF ClientInv, FatesOK, ConfirmedIsRecorded
<1> QED BY FormInvariant, <1>1, PTL

\* An intention given up for a new one is not applied, then or later, under the
\* members it was formed with.
THEOREM AbandonedStaysOut == ClientSpec => []AbandonedIsNeverRecorded
<1>1. ClientInv => AbandonedIsNeverRecorded
  <2>1. ASSUME ClientInv, NEW i \in abandoned, Recorded(i)
        PROVE  accessVersion[MyBar] # i.body.expectedAccessVersion
    <3>1. Hopeless(i) /\ Prior(Me, i.requestId) # {}
      BY <2>1 DEF ClientInv, FatesOK, Recorded
    <3> QED BY <3>1 DEF Hopeless
  <2> QED BY <2>1 DEF AbandonedIsNeverRecorded
<1> QED BY FormInvariant, <1>1, PTL

\* Requests that are no longer waited for keep their intention.
LEMMA NothingNewIsSent ==
    ASSUME ClientInv, posts' = { [x EXCEPT !.awaited = FALSE] : x \in posts }
    PROVE  \A x \in posts' \ posts : x.intent = form.intent
<1>1. \A x \in posts : /\ x \in [intent : FormIntent, awaited : BOOLEAN]
                       /\ x.awaited => x.intent = form.intent
  BY DEF ClientInv, ClientTypes, AnswersOK
<1>2. \A x \in posts : ~ x.awaited => [x EXCEPT !.awaited = FALSE] = x
  BY <1>1
<1>3. \A x \in posts : [x EXCEPT !.awaited = FALSE].intent = x.intent
  BY <1>1
<1>4. \A x \in posts : [x EXCEPT !.awaited = FALSE] \notin posts => x.awaited
  BY <1>1, <1>2
<1>5. ASSUME NEW y \in posts' \ posts
      PROVE  y.intent = form.intent
  <2>1. PICK x \in posts : y = [x EXCEPT !.awaited = FALSE]
    OBVIOUS
  <2> QED BY <1>1, <1>3, <1>4, <2>1
<1> QED BY <1>5

\* While an outcome is uncertain, nothing but the frozen intention is sent; and
\* the form keeps what it sent until it is refused, or told and recorded, unless
\* its page destroys it, which is recorded as forgotten and announced nowhere.
THEOREM FrozenWhileUncertain == ClientSpec => UncertainIntentionIsFrozen
<1> DEFINE OneIntention ==
              form.uncertain => \A x \in posts' \ posts : x.intent = form.intent
           Kept ==
              Unsettled /\ form'.intent # form.intent =>
                \/ form.intent \in told' /\ Recorded(form.intent)
                \/ form' = Closed /\ form.intent \in forgotten' \ told'
<1>1. ASSUME ClientInv, ClientNext
      PROVE  OneIntention /\ Kept
  <2>1. /\ form.uncertain => form.blocked
        /\ Unsettled => form.open /\ form.intent # NoIntent
        /\ form \in FormType
    BY <1>1 DEF ClientInv, ClientTypes, SignalsOK, Closed, Unsettled
  <2>2. CASE Others
    BY <2>2 DEF Others, clientVars
  <2>3. CASE \E x \in posts : ServePost(x) \/ LosePost(x)
    BY <2>3 DEF ServePost, LosePost
  <2>4. CASE ConfirmContext \/ OpenForm \/ InspectState \/ NewIntention \/ Close
             \/ ServeReceipt \/ InspectReceipt \/ ReceiptMissing \/ VerifyAccess \/ ReviewProduct
    <3>1. posts' = posts
      BY <2>4 DEF ConfirmContext, OpenForm, InspectState, NewIntention, Close,
                  ServeReceipt, InspectReceipt, ReceiptMissing, VerifyAccess, ReviewProduct
    <3>2. CASE ConfirmContext \/ OpenForm \/ NewIntention \/ Close \/ VerifyAccess
      <4>1. ~ Unsettled
        BY <1>1, <2>1, <3>2 DEF ConfirmContext, OpenForm, NewIntention, Close, VerifyAccess,
                                Unsettled, ClientInv, SignalsOK
      <4> QED BY <3>1, <4>1
    <3>3. CASE InspectState \/ ServeReceipt \/ InspectReceipt \/ ReceiptMissing \/ ReviewProduct
      <4>1. form'.intent = form.intent
        BY <2>1, <3>3 DEF InspectState, ServeReceipt, InspectReceipt, ReceiptMissing,
                          ReviewProduct, FormType
      <4> QED BY <3>1, <4>1
    <3> QED BY <2>4, <3>2, <3>3
  <2>5. ASSUME NEW kind \in {"ADD", "REMOVE", "SET"}, NEW amount \in FormAmounts,
               NEW r \in FormIds, Submit(kind, amount, r)
        PROVE  OneIntention /\ Kept
    BY <2>1, <2>5 DEF Submit, Ready, Unsettled
  <2>6. CASE RetrySame
    BY <1>1, <2>6, RetryFacts DEF SameFields
  <2>7. CASE Saved
    BY <1>1, <2>7 DEF Saved, ClientInv, AnswersOK
  <2>8. CASE Refused
    BY <1>1, <2>8, RefusalFacts DEF Refused
  <2>9. CASE Timeout
    <3>1. form'.intent = form.intent
      BY <2>1, <2>9 DEF Timeout, FormType
    <3> QED BY <1>1, <2>9, <3>1, NothingNewIsSent DEF Timeout
  <2>10. CASE PageAbandoned \/ ContextLost
    <3>1. Destroyed /\ told' = told
      BY <2>10 DEF PageAbandoned, ContextLost
    <3>2. OneIntention
      BY <1>1, <3>1, NothingNewIsSent DEF Destroyed
    <3>3. form.intent \notin told
      BY <1>1 DEF ClientInv, SignalsOK
    <3> QED BY <3>1, <3>2, <3>3 DEF Destroyed
  <2> HIDE DEF OneIntention, Kept
  <2> QED BY <1>1, <2>2, <2>3, <2>4, <2>5, <2>6, <2>7, <2>8, <2>9, <2>10 DEF ClientNext
<1>2. ClientInv /\ [ClientNext]_allVars => [OneIntention /\ Kept]_allVars
  BY <1>1
<1> QED BY FormInvariant, <1>2, PTL DEF ClientSpec, UncertainIntentionIsFrozen
=============================================================================
