----------------------------- MODULE BarMembers ------------------------------
(***************************************************************************)
(* The page on which the owner of a Bar reads its members, page by page,   *)
(* adds one by his address and revokes one of those listed                 *)
(* (WorkspaceMembers).  A command names the access version of the list     *)
(* shown.  Its answer may be late or lost; the workspace may be withdrawn  *)
(* and confirmed again meanwhile, which makes every answer awaited void.   *)
(***************************************************************************)
EXTENDS Bars, Pages

CONSTANTS Owner, Managed,   \* the account and the Bar of the page
          MaxLate           \* bound: commands given up and still on their way

ASSUME MembersAssumption == Owner \in Users /\ Managed \in Workspaces /\ IsFiniteSet(Users)

VARIABLES here,       \* the access version of the confirmed Bar, or NoVersion
          panel,      \* the list shown and what is known of the last command
          pending,    \* the call whose answer is awaited, or NoRow
          late        \* commands given up that may still be handled

membersVars == <<here, panel, pending, late>>

EmptyPanel ==
    [opened |-> FALSE, uncertain |-> FALSE, inspected |-> FALSE,
     items |-> {}, total |-> 0, version |-> NoVersion, page |-> 0]

ActiveMembers == { u \in Users : Active(Managed, u) }

\* Calls.  `scoped` until the workspace confirmed when it was sent is replaced.
Unanswered == [status |-> "none", version |-> NoVersion, items |-> {}, total |-> 0]
ListCall(first) ==
    [ask |-> "list", first |-> first, page |-> IF first THEN 1 ELSE panel.page + 1,
     scoped |-> TRUE, answer |-> Unanswered]
CommandCall(ask, target) ==
    [ask |-> ask, target |-> target, version |-> panel.version,
     shown |-> [items |-> panel.items, page |-> panel.page],
     scoped |-> TRUE, answer |-> Unanswered]
RefreshCall == [ask |-> "refresh", scoped |-> TRUE, answer |-> Unanswered]

Commands == {"add", "revoke"}

Shown == [items : SUBSET Users, page : Nat]
Answers == [status : {"none", "ok", "refused"}, version : Precondition, items : SUBSET Users, total : Nat]
ListCalls == [ask : {"list"}, first : BOOLEAN, page : Nat \ {0}, scoped : BOOLEAN, answer : Answers]
CommandCalls == [ask : Commands, target : Users, version : Version, shown : Shown,
                 scoped : BOOLEAN, answer : Answers]
RefreshCalls == [ask : {"refresh"}, scoped : BOOLEAN, answer : Answers]

MembersTypeOK ==
    /\ BarsTypeOK
    /\ here \in Precondition
    /\ panel \in [opened : BOOLEAN, uncertain : BOOLEAN, inspected : BOOLEAN,
                  items : SUBSET Users, total : Nat, version : Precondition, page : Nat]
    /\ pending \in ListCalls \union CommandCalls \union RefreshCalls \union {NoRow}
    /\ late \subseteq CommandCalls

IsCommand(c) == c # NoRow /\ c.ask \in Commands
Awaited(ask) == pending # NoRow /\ pending.ask \in ask
Unscoped == IF pending = NoRow THEN NoRow ELSE [pending EXCEPT !.scoped = FALSE]

-----------------------------------------------------------------------------

\* GET members: the access version and one page, read under the same lock.
ServeMembers ==
    /\ Awaited({"list"}) /\ pending.answer.status = "none"
    /\ pending' = [pending EXCEPT !.answer =
          [status |-> "ok", version |-> accessVersion[Managed],
           items |-> Rows(ActiveMembers, pending.page - 1, pending.page),
           total |-> Cardinality(ActiveMembers)]]
    /\ UNCHANGED <<barVars, here, panel, late>>

\* POST members, POST members/:userId/revoke: a member already as asked is a
\* success that changes nothing.
Take(c) ==
    \/ c.ask = "add" /\ AddMember(Owner, Managed, c.target, c.version)
    \/ c.ask = "revoke" /\ RevokeMember(Owner, Managed, c.target, c.version)

Already(c) ==
    /\ OwnerAuthorized(Managed, Owner, c.version)
    /\ member[Managed][c.target] = IF c.ask = "add" THEN "MEMBER" ELSE "revoked"

Changes(c) ==
    /\ OwnerAuthorized(Managed, Owner, c.version)
    /\ HasCapacity(accessVersion[Managed])
    /\ member[Managed][c.target] \in IF c.ask = "add" THEN {"none", "revoked"} ELSE {"MEMBER"}

CommandAnswered(c, status) ==
    IF c = pending
    THEN pending' = [c EXCEPT !.answer.status = status] /\ UNCHANGED late
    ELSE late' = late \ {c} /\ UNCHANGED pending

ServeCommand(c) ==
    /\ c.answer.status = "none"
    /\ \/ Take(c) /\ CommandAnswered(c, "ok")
       \/ ~ Changes(c) /\ Already(c) /\ CommandAnswered(c, "ok") /\ UNCHANGED barVars
       \/ ~ Changes(c) /\ ~ Already(c) /\ CommandAnswered(c, "refused") /\ UNCHANGED barVars
    /\ UNCHANGED <<here, panel>>

\* A command nobody waits for is lost on its way.
CommandVanishes(c) ==
    /\ late' = late \ {c}
    /\ UNCHANGED <<barVars, here, panel, pending>>

-----------------------------------------------------------------------------

\* The session is suspended or being confirmed again: the form is kept.
ContextWithdrawn ==
    /\ here # NoVersion
    /\ here' = NoVersion
    /\ pending' = Unscoped
    /\ UNCHANGED <<barVars, panel, late>>

ContextConfirmed ==
    /\ here = NoVersion
    /\ here' = accessVersion[Managed]
    /\ UNCHANGED <<barVars, panel, pending, late>>

\* verifyCurrentAccess(), asked by another page of the Bar; never in the middle
\* of a command.
ContextVerified ==
    /\ here # NoVersion
    /\ ~ Awaited(Commands)
    /\ here' = accessVersion[Managed]
    /\ pending' = Unscoped
    /\ UNCHANGED <<barVars, panel, late>>

-----------------------------------------------------------------------------

Free == here # NoVersion /\ pending = NoRow

\* open(): shows the list, read again, or hides it.
TogglePanel ==
    /\ Free
    /\ panel' = [panel EXCEPT !.opened = ~ @]
    /\ pending' = IF panel.opened THEN NoRow ELSE ListCall(TRUE)
    /\ UNCHANGED <<barVars, here, late>>

\* The next page, while more members are known than are shown.
MoreMembers ==
    /\ Free /\ panel.opened
    /\ Cardinality(panel.items) < panel.total
    /\ pending' = ListCall(FALSE)
    /\ UNCHANGED <<barVars, here, panel, late>>

\* Mutation: any further page is joined to those shown.
AnyPageContinues(c) == c.first \/ panel.version # NoVersion

\* A further page is only joined to those of the same access version.
Continues(c) == c.first \/ panel.version = c.answer.version

\* An answer to the workspace of another confirmation is dropped.
MembersListed ==
    /\ Awaited({"list"}) /\ pending.answer.status = "ok"
    /\ pending' = NoRow
    /\ panel' =
         IF ~ pending.scoped THEN panel
         ELSE IF ~ Continues(pending) THEN [panel EXCEPT !.version = NoVersion]
         ELSE [panel EXCEPT !.items = (IF pending.first THEN {} ELSE @) \union pending.answer.items,
                            !.total = pending.answer.total, !.version = pending.answer.version,
                            !.page = pending.page, !.inspected = TRUE]
    /\ UNCHANGED <<barVars, here, late>>

\* No list within 15 seconds, or a refusal: what is shown stays.
MembersNotListed ==
    /\ Awaited({"list"})
    /\ pending' = NoRow
    /\ UNCHANGED <<barVars, here, panel, late>>

\* add(), revoke(): WorkspaceContext answers 409 by itself when the list is not
\* of the access version it has confirmed.
Command(ask, target) ==
    /\ Free /\ panel.opened
    /\ ~ panel.uncertain /\ panel.version # NoVersion
    /\ ask = "revoke" => target \in panel.items /\ target # Owner
    /\ IF here = panel.version
       THEN /\ panel' = [panel EXCEPT !.inspected = FALSE]
            /\ pending' = CommandCall(ask, target)
       ELSE /\ panel' = [panel EXCEPT !.inspected = FALSE, !.version = NoVersion]
            /\ UNCHANGED pending
    /\ UNCHANGED <<barVars, here, late>>

\* Confirmed, or refused by a 409: another list is needed before another command.
CommandSettled ==
    /\ Awaited(Commands) /\ pending.answer.status # "none"
    /\ panel' = IF pending.scoped THEN [panel EXCEPT !.version = NoVersion] ELSE panel
    /\ pending' = NoRow
    /\ UNCHANGED <<barVars, here, late>>

\* A refusal that does not concern versions (an address without an account, 401,
\* 403): the list stays good for another command.
CommandRejected ==
    /\ Awaited(Commands) /\ pending.answer.status = "none"
    /\ pending' = NoRow
    /\ UNCHANGED <<barVars, here, panel, late>>

\* No answer: the outcome is uncertain, and the command may still be handled.
CommandUncertain ==
    /\ Awaited(Commands)
    /\ panel' = IF pending.scoped THEN [panel EXCEPT !.uncertain = TRUE] ELSE panel
    /\ IF pending.answer.status = "none"
       THEN /\ Cardinality(late) < MaxLate
            /\ late' = late \union {[pending EXCEPT !.scoped = FALSE]}
       ELSE UNCHANGED late
    /\ pending' = NoRow
    /\ UNCHANGED <<barVars, here>>

\* refresh(): the session is confirmed again first.
RefreshMembers ==
    /\ Free /\ panel.opened
    /\ here' = NoVersion
    /\ panel' = [panel EXCEPT !.inspected = FALSE]
    /\ pending' = RefreshCall
    /\ UNCHANGED <<barVars, late>>

\* It ends when the Bar is confirmed, by this confirmation or by another one,
\* and the list is read; or it is not, and nothing is shown.
MembersRefreshed ==
    /\ Awaited({"refresh"})
    /\ here' = IF here = NoVersion THEN accessVersion[Managed] ELSE here
    /\ panel' = [panel EXCEPT !.opened = TRUE]
    /\ pending' = ListCall(TRUE)
    /\ UNCHANGED <<barVars, late>>

MembersNotRefreshed ==
    /\ Awaited({"refresh"})
    /\ here = NoVersion
    /\ pending' = NoRow
    /\ UNCHANGED <<barVars, here, panel, late>>

\* acknowledge(): a list was read since the last command was sent.
Acknowledge ==
    /\ Free /\ panel.opened /\ panel.uncertain /\ panel.inspected
    /\ panel' = [panel EXCEPT !.uncertain = FALSE]
    /\ UNCHANGED <<barVars, here, pending, late>>

\* The same owner in another tab.
MembersElsewhere ==
    /\ \E target \in Users, v \in Version :
          AddMember(Owner, Managed, target, v) \/ RevokeMember(Owner, Managed, target, v)
    /\ UNCHANGED membersVars

-----------------------------------------------------------------------------

PanelInit ==
    /\ here = NoVersion
    /\ panel = EmptyPanel
    /\ pending = NoRow
    /\ late = {}

MembersNext ==
    \/ ServeMembers \/ ContextWithdrawn \/ ContextConfirmed \/ ContextVerified
    \/ TogglePanel \/ MoreMembers \/ MembersListed \/ MembersNotListed
    \/ CommandSettled \/ CommandRejected \/ CommandUncertain
    \/ RefreshMembers \/ MembersRefreshed \/ MembersNotRefreshed \/ Acknowledge
    \/ \E ask \in Commands, target \in Users : Command(ask, target)
    \/ \E c \in late \union {pending} : IsCommand(c) /\ ServeCommand(c)
    \/ \E c \in late : CommandVanishes(c)
    \/ MembersElsewhere

\* The page is opened on a Bar that exists.
ManagedInit ==
    /\ \E r \in BarRequestIds, payload \in BarPayloads :
          bar = [w \in Workspaces |-> IF w = Managed
                    THEN [actor |-> Owner, requestId |-> r, fingerprint |-> payload] ELSE NoRow]
    /\ accessVersion = [w \in Workspaces |-> 0]
    /\ member = [w \in Workspaces |-> [u \in Users |->
                    IF w = Managed /\ u = Owner THEN "OWNER" ELSE "none"]]

MembersInit == ManagedInit /\ PanelInit

MembersSpec == MembersInit /\ [][MembersNext]_<<barVars, membersVars>>

-----------------------------------------------------------------------------

WhatWasShown(version, items, page) ==
    version = accessVersion[Managed] => items = Rows(ActiveMembers, 0, page)

\* Commands act on the members that were shown: while the access version shown
\* is that of the Bar, the list is exactly the first pages of its members, and
\* a command that can still be applied was sent from such a list: pages read in
\* the middle of additions and revocations, late answers and repetitions included.
CommandsActOnWhatWasShown ==
    /\ WhatWasShown(panel.version, panel.items, panel.page)
    /\ \A c \in { c \in late \union {pending} : IsCommand(c) } :
          WhatWasShown(c.version, c.shown.items, c.shown.page)
=============================================================================
