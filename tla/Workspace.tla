----------------------------- MODULE Workspace -----------------------------
(***************************************************************************)
(* The workspace shown in a tab (WorkspaceContext): the personal notebook  *)
(* of the account or one Bar, confirmed by the server before anything is   *)
(* shown, chosen in the switcher, verified again, withdrawn. It drives the *)
(* draft store of Drafts and carries the commands of its forms.            *)
(*                                                                         *)
(* A lookup is a GET of a Bar whose answer is awaited. It is fresh until   *)
(* the context's generation moves; a lookup that is no longer fresh is     *)
(* forgotten, except the selection's, which keeps the page inert until it  *)
(* ends.                                                                   *)
(***************************************************************************)
EXTENDS Drafts

CONSTANTS Users, NoUser,
          Home          \* the personal place of each user

Bars == Places \ {Home[u] : u \in Users}
At(u, p) == [user |-> u, place |-> p]

ASSUME WorkspaceAssumption ==
    /\ NoUser \notin Users
    /\ Home \in [Users -> Places]
    /\ \A u \in Users : At(u, Home[u]) \in Personal
    /\ \A u \in Users, p \in Bars : At(u, p) \in Owners \ Personal

VARIABLES auth,      \* the account whose session was confirmed, or NoUser
          ctx,       \* the workspace shown: [place, access], or None
          last,      \* the last workspace installed: [user, place, access], or None
          chosen,    \* the Bar remembered for the next confirmation, or None
          lookups,   \* the lookups whose answer is awaited
          sent,      \* for each form's command: "kept", "stale" or "local" answer
          members,   \* server: the accounts of each Bar
          access,    \* server: the access version of each Bar
          asked      \* history: the workspace last asked for, or None

contextVars == <<auth, ctx, last, chosen, lookups, sent, members, access, asked>>
vars == <<draftVars, contextVars>>

Lookups == [why : {"confirm", "select", "navigate", "verify", "recheck"}, place : Places, fresh : BOOLEAN]

WorkspaceTypeOK ==
    /\ TypeOK
    /\ auth \in Users \cup {NoUser}
    /\ ctx = None \/ ctx \in [place : Places, access : 0..MaxAccess]
    /\ lookups \subseteq Lookups
    /\ sent \in [Keys -> {"kept", "stale", "local"}]
    /\ asked = None \/ asked \in Owners

Transitioning == \E l \in lookups : l.why \in {"select", "navigate"}

(* Commands carried by request(): the organization save is sent directly.  *)
Carried == Keys \ {"organize"}
PendingCommands == \E k \in Carried : Waiting(k)

(* Mutation: the lookups under way survive a new generation.               *)
NewEpochKeepingLookups(added) ==
    /\ lookups' = lookups \cup added
    /\ sent' = [k \in Keys |-> IF k \in Carried /\ Waiting(k) /\ sent[k] = "kept" THEN "stale" ELSE sent[k]]

(* generation++: answers awaited under the previous one are not adopted.   *)
NewEpoch(added) ==
    /\ lookups' = {[l EXCEPT !.fresh = l.why = "navigate"] : l \in {l \in lookups : l.why \in {"select", "navigate"}}}
                    \cup added
    /\ sent' = [k \in Keys |-> IF k \in Carried /\ Waiting(k) /\ sent[k] = "kept" THEN "stale" ELSE sent[k]]

Ended(l) == lookups' = lookups \ {l}

(* The steps of the store and of the leases, for a new state s of the store*)
Drive(s, leasesEnd) ==
    /\ SetStore(s, unknown)
    /\ forms' = IF leasesEnd THEN EndLeases(forms) ELSE forms
    /\ UNCHANGED srv

(* install: the access version of the same workspace moved: leases end.    *)
Install(u, p, a, from) ==
    LET moved == last # None /\ last.user = u /\ last.place = p /\ last.access # a
        s     == IF moved THEN Suspend(from) ELSE from
    IN /\ \E t \in ConfirmIdentity(s, At(u, p)) :
             Drive(t, moved \/ store.owner # At(u, p) \/ from # store)
       /\ ctx' = [place |-> p, access |-> a]
       /\ last' = [user |-> u, place |-> p, access |-> a]
       /\ chosen' = IF p \in Bars THEN At(u, p) ELSE None

(* Mutation: the drafts stay active when the workspace is withdrawn.       *)
WithdrawnWithDrafts ==
    /\ ctx' = None
    /\ NewEpoch({})
    /\ Drive(store, FALSE)

(* The workspace is withdrawn, its drafts suspended.                       *)
Withdrawn ==
    /\ ctx' = None
    /\ NewEpoch({})
    /\ Drive(Suspend(store), TRUE)

----------------------------------------------------------------------------
(* What the account's session asks of the context (AuthService).           *)

(* Sign-in starts, or the session expired: nothing is erased.              *)
SessionSuspended ==
    /\ auth' = NoUser /\ asked' = None
    /\ Withdrawn
    /\ UNCHANGED <<last, chosen, members, access>>

(* Logout, revocation, or another account found in the tab: drafts purged. *)
SessionEnded ==
    /\ auth' = NoUser /\ asked' = None /\ chosen' = None
    /\ ctx' = None
    /\ NewEpoch({})
    /\ \E s \in Purge(store) : Drive(s, TRUE)
    /\ UNCHANGED <<last, members, access>>

(* confirmSession: the Bar remembered for this account, or its notebook,   *)
(* which needs no lookup.                                                  *)
SessionConfirmed(u) ==
    /\ auth = u \/ (ctx = None /\ ~store.active)
    /\ auth' = u
    /\ LET p == IF chosen # None /\ chosen.user = u THEN chosen.place ELSE Home[u]
       IN /\ asked' = At(u, p)
          /\ IF p = Home[u]
             THEN Install(u, p, 0, store) /\ NewEpoch({})
             ELSE /\ ctx' = None
                  /\ NewEpoch({[why |-> "confirm", place |-> p, fresh |-> TRUE]})
                  /\ UNCHANGED <<draftVars, last, chosen>>
    /\ UNCHANGED <<members, access>>

(* The answer to a lookup: the Bar, for its members; 403 or 404, for the   *)
(* others; or no answer.                                                   *)
Replies(l) ==
    CASE ~l.fresh           -> {"failed"}
      [] l.fresh /\ l.why = "navigate" -> {"bar", "failed"}
      [] OTHER              -> {IF auth \in members[l.place] THEN "bar" ELSE "gone", "failed"}

(* A Bar that is not confirmed leaves nothing shown: the notebook is not   *)
(* opened in its place.                                                    *)
ConfirmAnswered(l, reply) ==
    /\ l.why = "confirm"
    /\ IF reply = "bar"
       THEN Install(auth, l.place, access[l.place], store)
       ELSE Drive(Suspend(store), TRUE) /\ UNCHANGED <<ctx, last, chosen>>
    /\ Ended(l)
    /\ UNCHANGED <<auth, sent, members, access, asked>>

----------------------------------------------------------------------------
(* The switcher: select, once the user accepted to lose the tab's drafts.  *)

Select(p) ==
    /\ auth # NoUser /\ ~Transitioning
    /\ ~PendingCommands /\ store.pending = {}
    /\ ctx # None => ctx.place # p
    /\ p \in Bars \cup {Home[auth]}
    /\ asked' = At(auth, p)
    /\ IF p = Home[auth]
       THEN /\ \E s \in Purge(store) : Install(auth, p, 0, s)
            /\ NewEpoch({[why |-> "navigate", place |-> p, fresh |-> TRUE]})
       ELSE /\ lookups' = lookups \cup {[why |-> "select", place |-> p, fresh |-> TRUE]}
            /\ UNCHANGED <<draftVars, ctx, last, chosen, sent>>
    /\ UNCHANGED <<auth, members, access>>

SelectAnswered(l, reply) ==
    /\ l.why = "select"
    /\ IF reply = "bar" /\ l.fresh
       THEN /\ \E s \in Purge(store) : Install(auth, l.place, access[l.place], s)
            /\ lookups' = {[why |-> "navigate", place |-> l.place, fresh |-> TRUE]}
            /\ sent' = [k \in Keys |-> IF k \in Carried /\ Waiting(k) THEN "stale" ELSE sent[k]]
       ELSE /\ Ended(l)
            /\ UNCHANGED <<draftVars, ctx, last, chosen, sent>>
    /\ UNCHANGED <<auth, members, access, asked>>

(* The new page is shown, or cannot be: then the context is suspended.     *)
Navigated(l, reply) ==
    /\ l.why = "navigate"
    /\ IF reply = "bar"
       THEN /\ Ended(l)
            /\ UNCHANGED <<draftVars, auth, ctx, sent, asked>>
       ELSE /\ auth' = NoUser /\ ctx' = None /\ asked' = None
            /\ lookups' = {}
            /\ sent' = [k \in Keys |-> IF k \in Carried /\ Waiting(k) THEN "stale" ELSE sent[k]]
            /\ Drive(Suspend(store), TRUE)
    /\ UNCHANGED <<last, chosen, members, access>>

----------------------------------------------------------------------------
(* Verifying the rights of the Bar shown, its forms still mounted.         *)

Verify ==
    /\ auth # NoUser /\ ctx # None /\ ctx.place \in Bars /\ ~Transitioning
    /\ ~PendingCommands /\ store.pending = {}
    /\ lookups' = lookups \cup {[why |-> "verify", place |-> ctx.place, fresh |-> TRUE]}
    /\ UNCHANGED <<draftVars, auth, ctx, last, chosen, sent, members, access, asked>>

(* Mutation: a command begun since the verification left is not looked for.*)
VerifyAnsweredAnyway(l, reply) ==
    /\ l.why = "verify"
    /\ CASE reply = "bar"  -> Install(auth, l.place, access[l.place], store) /\ NewEpoch({})
         [] reply = "gone" -> Withdrawn /\ UNCHANGED <<last, chosen>>
         [] OTHER          -> Ended(l) /\ UNCHANGED <<draftVars, ctx, last, chosen, sent>>
    /\ UNCHANGED <<auth, members, access, asked>>

VerifyAnswered(l, reply) ==
    /\ l.why = "verify"
    /\ CASE reply = "bar" /\ ~PendingCommands /\ store.pending = {} ->
              Install(auth, l.place, access[l.place], store) /\ NewEpoch({})
         [] reply = "gone" ->
              Withdrawn /\ UNCHANGED <<last, chosen>>
         [] OTHER ->
              Ended(l) /\ UNCHANGED <<draftVars, ctx, last, chosen, sent>>
    /\ UNCHANGED <<auth, members, access, asked>>

(* A command answered 404: the membership is looked up, the command is not *)
(* repeated; any error withdraws the Bar.                                  *)
RecheckAnswered(l, reply) ==
    /\ l.why = "recheck"
    /\ IF reply = "bar"
       THEN Ended(l) /\ UNCHANGED <<draftVars, ctx, sent>>
       ELSE Withdrawn
    /\ UNCHANGED <<auth, last, chosen, members, access, asked>>

Answered(l) ==
    \E reply \in Replies(l) :
        \/ ConfirmAnswered(l, reply) \/ SelectAnswered(l, reply) \/ Navigated(l, reply)
        \/ VerifyAnswered(l, reply) \/ RecheckAnswered(l, reply)

----------------------------------------------------------------------------
(* The pages, shown for a confirmed workspace that is not being left.      *)
Shown == auth # NoUser /\ ctx # None /\ ~Transitioning
InBar == ctx # None /\ ctx.place \in Bars

(* A page reads the recipe with the access version it has on the server.   *)
ReadAccess(k) == IF InBar THEN IF k = "create" THEN ctx.access ELSE access[ctx.place] ELSE 0

(* request: in a Bar, a command that names another access version than the *)
(* one shown is answered 409 without being sent.                           *)
Command(k, what) ==
    /\ Shown /\ Begin(k, what)
    /\ sent' = [sent EXCEPT ![k] = IF k \in Carried /\ InBar /\ forms[k].access # ctx.access
                                   THEN "local" ELSE "kept"]
    /\ UNCHANGED <<auth, ctx, last, chosen, lookups, members, access, asked>>

(* The server takes a Bar's command from a member naming its access version*)
Takes(c) == c.home.place \in Bars =>
              c.home.user \in members[c.home.place] /\ c.access = access[c.home.place]

CommandDone(k) ==
    /\ sent[k] = "kept" /\ Waiting(k) /\ Takes(CallOf(k))
    /\ AnswerOk(k)
    /\ UNCHANGED contextVars

(* request() passes a refusal on whatever has become of the context since; *)
(* it looks the membership up again only in the epoch of the command.      *)
CommandRefused(k, status) ==
    /\ sent[k] = "local" => status = "conflict"
    /\ AnswerRefused(k, status)
    /\ LET gone == /\ status = "refused" /\ sent[k] = "kept" /\ k \in Carried /\ InBar /\ auth # NoUser
       IN lookups' = IF gone
                     THEN lookups \cup {[why |-> "recheck", place |-> ctx.place, fresh |-> TRUE]}
                     ELSE lookups
    /\ UNCHANGED <<auth, ctx, last, chosen, sent, members, access, asked>>

CommandUnknown(k) ==
    /\ sent[k] # "local"
    /\ AnswerUnknown(k)
    /\ UNCHANGED contextVars

FormUsed(k) ==
    /\ Shown
    /\ \/ Open(k, ReadAccess(k)) \/ Type(k) \/ Restore(k) \/ VerifiedAbsent(k) \/ Discard(k)
       \/ k = "edit" /\ forms[k] # None /\ (CompareServer \/ \E a \in {forms[k].shown, ReadAccess(k)} : UseServer(a))
       \/ k = "organize" /\ ReloadOrganization
    /\ UNCHANGED contextVars

FormLeft(k) == Leave(k) /\ UNCHANGED contextVars

(* The server, the other devices, the owners of the Bars.                  *)
ElsewhereEdited(p, k) == Elsewhere(p, k) /\ UNCHANGED contextVars

(* A member leaves or joins, a role changes: the access version moves.     *)
AccessMoves(b, u) ==
    /\ access[b] < MaxAccess
    /\ access' = [access EXCEPT ![b] = @ + 1]
    /\ members' \in {members, [members EXCEPT ![b] = (@ \ {u}) \cup ({u} \ @)]}
    /\ UNCHANGED <<draftVars, auth, ctx, last, chosen, lookups, sent, asked>>

(* The tab is reloaded: the storage is kept, and the Bar remembered in it. *)
TabReloaded ==
    /\ Reload
    /\ auth' = NoUser /\ ctx' = None /\ last' = None /\ asked' = None
    /\ lookups' = {} /\ sent' = [k \in Keys |-> "kept"]
    /\ UNCHANGED <<chosen, members, access>>

WorkspaceInit ==
    /\ Init
    /\ auth = NoUser /\ ctx = None /\ last = None /\ chosen = None
    /\ lookups = {} /\ sent = [k \in Keys |-> "kept"] /\ asked = None
    /\ members = [b \in Bars |-> Users]
    /\ access = [b \in Bars |-> 0]

WorkspaceNext ==
    \/ SessionSuspended \/ SessionEnded
    \/ \E u \in Users : SessionConfirmed(u)
    \/ \E p \in Places : Select(p)
    \/ Verify
    \/ \E l \in lookups : Answered(l)
    \/ \E k \in Keys :
          \/ FormUsed(k) \/ FormLeft(k) \/ CommandDone(k) \/ CommandUnknown(k)
          \/ \E what \in {"save", "folder"} : Command(k, what)
          \/ \E status \in {"refused", "conflict"} : CommandRefused(k, status)
    \/ \E p \in Places, k \in Keys : ElsewhereEdited(p, k)
    \/ \E b \in Bars, u \in Users : AccessMoves(b, u)
    \/ TabReloaded

WorkspaceSpec == WorkspaceInit /\ [][WorkspaceNext]_vars

----------------------------------------------------------------------------
(* A workspace opens only if it is the one asked for last, or the Bar      *)
(* remembered for the account, whose confirmation was under way when       *)
(* another was selected: a selection does not cancel it while nothing is   *)
(* shown. A late answer about any other one, or about another account's,   *)
(* opens nothing.                                                          *)
Opens == ctx' # None /\ (ctx = None \/ ctx.place # ctx'.place \/ auth # auth')
OnlyTheLastChoiceOpens ==
    [][Opens => \/ asked' = At(auth', ctx'.place)
                \/ ctx = None /\ auth = auth' /\ chosen = At(auth, ctx'.place)]_vars

(* The drafts offered are those of the workspace shown, and nobody's once  *)
(* the account is gone.                                                    *)
ShownIsServed ==
    /\ ctx # None => store.active /\ store.owner = At(auth, ctx.place)
    /\ store.active => auth # NoUser /\ store.owner.user = auth

(* The context moves under a command whose answer is awaited only when the *)
(* workspace is withdrawn or the session confirms the notebook again:      *)
(* neither a verification nor a change of workspace makes the tab discard  *)
(* an answer it could have had.                                            *)
AwaitedAnswersKeepTheirContext ==
    [][(\E k \in Carried : sent[k] = "kept" /\ sent'[k] = "stale")
          => ctx' = None \/ (ctx # None /\ ctx.place = ctx'.place /\ ctx.place \notin Bars)]_vars
=============================================================================
