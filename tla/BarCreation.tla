---------------------------- MODULE BarCreation -----------------------------
(***************************************************************************)
(* The page that lists the Bars of an account and creates new ones         *)
(* (WorkspaceSwitcher and BarCreate), over HTTP calls that are slow, lost, *)
(* or answered after the account changed.  A creation whose answer does    *)
(* not confirm it stays uncertain, whatever the answer was, until its      *)
(* receipt or a repetition of the same intention confirms it.              *)
(***************************************************************************)
EXTENDS Bars, Pages

CONSTANT Nobody       \* no account is signed in

ASSUME CreationAssumption == Nobody \notin Users /\ IsFiniteSet(Workspaces)

VARIABLES signedIn,   \* the account the tab shows, or Nobody
          creation,   \* the form: its intention and what is known of it
          shelf,      \* the Bars listed, their number, the last page read
          calls,      \* requests whose answer is awaited, or that may still be handled
          letGo       \* history: intentions the user closed the form on

creationVars == <<signedIn, creation, shelf, calls, letGo>>

NoCreation == [intent |-> NoRow, uncertain |-> FALSE, notFound |-> FALSE, result |-> NoRow]
NoShelf == [bars |-> {}, total |-> 0, page |-> 0]

\* A call is fresh until the generation it was sent in ends.
Call(ask, intent, page) ==
    [ask |-> ask, actor |-> signedIn, intent |-> intent, page |-> page, fresh |-> TRUE,
     status |-> "none", bars |-> {}, total |-> 0]

Calls ==
    [ask : {"post", "get", "list"}, actor : Users, intent : Creation \union {NoRow}, page : Nat,
     fresh : BOOLEAN, status : {"none", "ok", "missing", "refused"},
     bars : SUBSET Workspaces, total : Nat]

CreationTypeOK ==
    /\ BarsTypeOK
    /\ signedIn \in Users \union {Nobody}
    /\ creation \in [intent : Creation \union {NoRow}, uncertain : BOOLEAN, notFound : BOOLEAN,
                     result : Workspaces \union {NoRow}]
    /\ shelf \in [bars : SUBSET Workspaces, total : Nat, page : Nat]
    /\ calls \subseteq Calls
    /\ letGo \subseteq Creation

Busy == \E c \in calls : c.fresh /\ c.ask # "list"
Loading == \E c \in calls : c.fresh /\ c.ask = "list"

\* A request that has left may be handled although nobody waits for it.
GivenUp(S) == { [c EXCEPT !.fresh = FALSE] : c \in { c \in S : c.ask = "post" /\ c.status = "none" } }

\* An identifier that was never drawn.
Unused(r) ==
    /\ \A w \in Workspaces : bar[w] # NoRow => bar[w].requestId # r
    /\ \A i \in {creation.intent} \union { c.intent : c \in calls } : i # NoRow => i.requestId # r

-----------------------------------------------------------------------------

BarsOf(u) == { w \in Workspaces : Active(w, u) }

Answered(c, status, bars, total) ==
    calls' = (calls \ {c}) \union
                IF c.fresh THEN {[c EXCEPT !.status = status, !.bars = bars, !.total = total]} ELSE {}

\* POST workspaces: an intention already recorded is answered with its Bar.
ServeCreation(c) ==
    LET i == c.intent
        made == CreatedBy(i.actor, i.requestId)
    IN  /\ c.ask = "post"
        /\ IF made = {}
           THEN \E w \in Workspaces :
                   /\ CreateBar(i.actor, w, i.requestId, i.fingerprint)
                   /\ Answered(c, "ok", {w}, 1)
           ELSE /\ IF \A w \in made : bar[w].fingerprint = i.fingerprint /\ Active(w, i.actor)
                   THEN Answered(c, "ok", made, 1)
                   ELSE Answered(c, "refused", {}, 0)
                /\ UNCHANGED barVars
        /\ UNCHANGED <<signedIn, creation, shelf, letGo>>

\* GET workspaces/creation-intents/:requestId.
ServeCreationReceipt(c) ==
    /\ c.ask = "get"
    /\ LET made == { w \in CreatedBy(c.intent.actor, c.intent.requestId) : Active(w, c.intent.actor) }
       IN Answered(c, IF made = {} THEN "missing" ELSE "ok", made, 1)
    /\ UNCHANGED <<barVars, signedIn, creation, shelf, letGo>>

\* GET workspaces: one page of the Bars of the account.
ServeBars(c) ==
    /\ c.ask = "list"
    /\ LET all == BarsOf(c.actor)
       IN Answered(c, "ok", Rows(all, c.page - 1, c.page), Cardinality(all))
    /\ UNCHANGED <<barVars, signedIn, creation, shelf, letGo>>

\* A request nobody waits for is lost on its way.
Vanish(c) ==
    /\ ~ c.fresh
    /\ calls' = calls \ {c}
    /\ UNCHANGED <<barVars, signedIn, creation, shelf, letGo>>

-----------------------------------------------------------------------------

\* A list already awaited is superseded; a first page empties the list.
LoadBars(first) ==
    /\ signedIn # Nobody
    /\ first \/ (~ Loading /\ Cardinality(shelf.bars) < shelf.total)
    /\ calls' = { c \in calls : c.ask # "list" }
                  \union {Call("list", NoRow, IF first THEN 1 ELSE shelf.page + 1)}
    /\ shelf' = IF first THEN [shelf EXCEPT !.bars = {}, !.total = 0] ELSE shelf
    /\ UNCHANGED <<barVars, signedIn, creation, letGo>>

\* The rows are added to those shown, once each.
BarsLoaded(c) ==
    /\ c.ask = "list" /\ c.fresh /\ c.status = "ok"
    /\ shelf' = [bars |-> (IF c.page = 1 THEN {} ELSE shelf.bars) \union c.bars,
                 total |-> c.total, page |-> c.page]
    /\ calls' = calls \ {c}
    /\ UNCHANGED <<barVars, signedIn, creation, letGo>>

-----------------------------------------------------------------------------

\* create(): the intention is drawn once, and no other before it is settled.
Create(r, payload) ==
    /\ signedIn # Nobody
    /\ ~ Busy /\ ~ creation.uncertain /\ creation.result = NoRow
    /\ Unused(r)
    /\ LET i == [actor |-> signedIn, requestId |-> r, fingerprint |-> payload]
       IN /\ creation' = [creation EXCEPT !.intent = i, !.notFound = FALSE]
          /\ calls' = calls \union {Call("post", i, 0)}
    /\ UNCHANGED <<barVars, signedIn, shelf, letGo>>

\* retry(): the same intention, after a receipt was looked up and not found.
RetryCreation ==
    /\ creation.uncertain /\ creation.notFound /\ ~ Busy
    /\ creation' = [creation EXCEPT !.notFound = FALSE]
    /\ calls' = calls \union {Call("post", creation.intent, 0)}
    /\ UNCHANGED <<barVars, signedIn, shelf, letGo>>

\* inspect(): offered once the outcome is uncertain.
InspectCreation ==
    /\ creation.uncertain /\ ~ Busy
    /\ creation' = [creation EXCEPT !.notFound = FALSE]
    /\ calls' = calls \union {Call("get", creation.intent, 0)}
    /\ UNCHANGED <<barVars, signedIn, shelf, letGo>>

\* succeeded(): the Bar is announced, and the list read again, unless another
\* workspace is being opened.
CreationSucceeded(c) ==
    /\ c.ask # "list" /\ c.fresh /\ c.status = "ok"
    /\ \E w \in c.bars :
          creation' = [creation EXCEPT !.result = w, !.uncertain = FALSE, !.notFound = FALSE]
    /\ \/ /\ calls' = { d \in calls \ {c} : d.ask # "list" } \union {Call("list", NoRow, 1)}
          /\ shelf' = [shelf EXCEPT !.bars = {}, !.total = 0]
       \/ calls' = calls \ {c} /\ UNCHANGED shelf
    /\ UNCHANGED <<barVars, signedIn, letGo>>

\* Mutation: a creation that times out is taken for refused.
TimeoutMeansNoBar(c) ==
    /\ c.fresh /\ c.status # "ok"
    /\ creation' = IF c.ask = "get" THEN [creation EXCEPT !.notFound = c.status = "missing"] ELSE creation
    /\ calls' = (calls \ {c}) \union GivenUp({c})
    /\ UNCHANGED <<barVars, signedIn, shelf, letGo>>

\* Any answer but a Bar, 15 seconds without one, or a lost one.  Only a 404 that
\* answers the receipt is told apart.
NotConfirmed(c) ==
    /\ c.fresh
    /\ creation' = CASE c.ask = "post" -> [creation EXCEPT !.uncertain = TRUE]
                     [] c.ask = "get"  -> [creation EXCEPT !.notFound = c.status = "missing"]
                     [] OTHER          -> creation
    /\ calls' = (calls \ {c}) \union GivenUp({c})
    /\ UNCHANGED <<barVars, signedIn, shelf, letGo>>

\* cancel(), also when the Bar created is opened.
CancelCreation ==
    /\ ~ Busy /\ ~ creation.uncertain /\ creation.intent # NoRow
    /\ letGo' = letGo \union {creation.intent}
    /\ creation' = NoCreation
    /\ UNCHANGED <<barVars, signedIn, shelf, calls>>

\* clear(), and the end of the list: what the calls answer is not adopted.
Cleared ==
    /\ creation' = NoCreation
    /\ shelf' = NoShelf
    /\ calls' = GivenUp(calls)

\* The session is suspended, ended or replaced; another account signs in later.
SignedOut ==
    /\ signedIn # Nobody
    /\ signedIn' = Nobody
    /\ Cleared
    /\ UNCHANGED <<barVars, letGo>>

SignedIn(u) ==
    /\ signedIn = Nobody
    /\ signedIn' = u
    /\ Cleared
    /\ UNCHANGED <<barVars, letGo>>

\* The page is left or reloaded: the form was only in memory.
PageLeft ==
    /\ creation # NoCreation \/ shelf # NoShelf
    /\ Cleared
    /\ UNCHANGED <<barVars, signedIn, letGo>>

\* Other accounts, and the same ones in other tabs.
BarsElsewhere ==
    /\ \E u \in Users, w \in Workspaces :
          \/ \E r \in BarRequestIds, payload \in BarPayloads : Unused(r) /\ CreateBar(u, w, r, payload)
          \/ \E target \in Users, v \in Version :
                AddMember(u, w, target, v) \/ RevokeMember(u, w, target, v)
    /\ UNCHANGED creationVars

-----------------------------------------------------------------------------

SwitcherInit ==
    /\ signedIn = Nobody
    /\ creation = NoCreation
    /\ shelf = NoShelf
    /\ calls = {}
    /\ letGo = {}

CreationInit == BarsInit /\ SwitcherInit

CreationNext ==
    \/ \E u \in Users : SignedIn(u)
    \/ \E first \in BOOLEAN : LoadBars(first)
    \/ \E r \in BarRequestIds, payload \in BarPayloads : Create(r, payload)
    \/ RetryCreation \/ InspectCreation \/ CancelCreation \/ SignedOut \/ PageLeft
    \/ \E c \in calls :
          \/ c.status = "none" /\ (ServeCreation(c) \/ ServeCreationReceipt(c) \/ ServeBars(c))
          \/ Vanish(c) \/ BarsLoaded(c) \/ CreationSucceeded(c) \/ NotConfirmed(c)
    \/ BarsElsewhere

CreationSpec == CreationInit /\ [][CreationNext]_<<barVars, creationVars>>

-----------------------------------------------------------------------------

\* Creations are settled: the Bar announced is the one of the form's intention,
\* and the intentions the user closed the form on each made exactly one Bar, of
\* the name given: after timeouts, receipts looked up while the creation may
\* still commit, repetitions and late answers.  The account shown sees no Bar
\* announced or listed to another one.
CreationsAreSettled ==
    /\ creation.result # NoRow => bar[creation.result] = creation.intent
    /\ creation.intent # NoRow => creation.intent.actor = signedIn
    /\ \A i \in letGo : \E w \in Workspaces : CreatedBy(i.actor, i.requestId) = {w} /\ bar[w] = i
    /\ \A w \in shelf.bars : signedIn # Nobody /\ member[w][signedIn] # "none"
=============================================================================
