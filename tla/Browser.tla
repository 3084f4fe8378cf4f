------------------------------ MODULE Browser ------------------------------
(***************************************************************************)
(* The tabs of one browser (AuthService, authInterceptor, SessionResume),  *)
(* which share one cookie and a BroadcastChannel, in front of the web      *)
(* sessions of the server.  Every call is sent with the cookie of that     *)
(* moment, served at any later time, and answered at any time after that;  *)
(* the tab may have moved on to another identity in between.               *)
(*                                                                         *)
(* The counters the tabs compare before they trust an answer (generation   *)
(* of AuthService, generation of WorkspaceContext) are abstracted: a call  *)
(* carries the two facts the comparisons yield, "fresh" and "here", and    *)
(* raising a counter clears the fact in all calls of the tab.  Two calls   *)
(* of a tab equal in every field are one: they are answered alike.         *)
(***************************************************************************)
EXTENDS FiniteSets, Naturals

CONSTANTS
    Tabs, Users,
    Remembered,      \* the accounts whose Bar a tab may remember at the start
    Sessions,        \* the sessions the server may still issue
    Owner,           \* the account of each of them
    MaxCalls,        \* bound: calls under way, by number of open tabs
    MaxNotices,      \* bound: notices under way
    None

ASSUME BrowserAssumption ==
    /\ Owner \in [Sessions -> Users]
    /\ MaxCalls \in [1..Cardinality(Tabs) -> Nat]
    /\ Remembered \subseteq Users
    /\ None \notin Sessions \cup Users

VARIABLES
    status,      \* the rows of the sessions on the server
    jar,         \* the session cookie of the browser
    open,        \* the tabs that are open, from the start
    tab,         \* the memory and the session storage of each tab
    calls,       \* HTTP calls under way
    notices,     \* notices of the BroadcastChannel under way
    announced    \* history: sessions the user was told are closed

vars == <<status, jar, open, tab, calls, notices, announced>>

Maybe(S) == S \cup {None}
Places == {"personal", "bar"}

NoDrafts == [owner |-> None, active |-> FALSE]

\* A document just loaded: nothing is confirmed.
Blank ==
    [session |-> None, lastConfirmed |-> None, pendingLogout |-> None,
     logoutUncertain |-> FALSE, globalLogoutUncertain |-> FALSE,
     logoutPending |-> FALSE, bootstrap |-> FALSE,
     place |-> None, candidate |-> None, drafts |-> NoDrafts, shown |-> None]

TabType ==
    [session : Maybe(Sessions), lastConfirmed : Maybe(Sessions),
     pendingLogout : Maybe(Sessions), logoutUncertain : BOOLEAN,
     globalLogoutUncertain : BOOLEAN, logoutPending : BOOLEAN, bootstrap : BOOLEAN,
     place : Maybe(Places),       \* WorkspaceContext.current
     candidate : Maybe(Users),    \* whose Bar the tab remembers as selected
     drafts : [owner : Maybe([user : Users, place : Places]), active : BOOLEAN],
     shown : Maybe(Users)]        \* whose private data the outlet displays

Kinds == {"login", "confirm", "bootstrap", "resume", "adopt", "logout", "logoutAll", "data"}
Answers == {"none", "issued", "ok", "denied", "revoked", "changed", "refused", "failed"}

CallType ==
    [tab : Tabs, kind : Kinds,
     via : Kinds,                 \* of an adoption: the call that led to it
     about : Maybe(Sessions),     \* the snapshot it is sent with, or the session issued
     previous : Maybe(Sessions),  \* what a sign-in replaces in its tab
     cookie : Maybe(Sessions), answer : Answers,
     fresh : BOOLEAN, here : BOOLEAN, awaited : BOOLEAN]

NoticeType ==
    [to : Tabs, kind : {"logout", "identity"}, about : Sessions, next : Maybe(Sessions),
     heard : BOOLEAN, fresh : BOOLEAN]

TypeOK ==
    /\ status \in [Sessions -> {"unborn", "live", "revoked", "expired"}]
    /\ jar \in Maybe(Sessions)
    /\ open \subseteq Tabs
    /\ tab \in [open -> TabType]
    /\ calls \subseteq CallType
    /\ notices \subseteq NoticeType
    /\ announced \subseteq Sessions

-----------------------------------------------------------------------------
(* Pieces of the handlers                                                   *)

Rendered(x) == x.session # None /\ x.place # None /\ ~ x.logoutUncertain

\* The outlet of the shell is removed, with what it displays.
Settle(x) == IF Rendered(x) THEN x ELSE [x EXCEPT !.shown = None]

\* Mutant of Closed: any end of a session costs the drafts.
ClosedWithDrafts(x, purge) ==
    [x EXCEPT !.session = None, !.bootstrap = FALSE, !.place = None, !.shown = None,
              !.candidate = IF purge THEN None ELSE @, !.drafts = NoDrafts]

\* AuthService.expire, and what signIn and requestLogout share with it.
Closed(x, purge) ==
    [x EXCEPT !.session = None, !.bootstrap = FALSE, !.place = None, !.shown = None,
              !.candidate = IF purge THEN None ELSE @,
              !.drafts = IF purge THEN NoDrafts ELSE [@ EXCEPT !.active = FALSE]]

\* Mutant of NewGeneration: the generation is not raised.
SameGeneration(C, t) == C

\* The calls, or the notices, of a tab once its generation is raised.
NewGeneration(C, t) ==
    {IF c.tab = t THEN [c EXCEPT !.fresh = FALSE, !.here = FALSE] ELSE c : c \in C}
NewAuthGeneration(C, t) == {IF c.tab = t THEN [c EXCEPT !.fresh = FALSE] ELSE c : c \in C}
NewPlaceGeneration(C, t) == {IF c.tab = t THEN [c EXCEPT !.here = FALSE] ELSE c : c \in C}
Outdated(N, t) == {IF n.to = t /\ n.heard THEN [n EXCEPT !.fresh = FALSE] ELSE n : n \in N}

Call(t, kind, about, cookie) ==
    [tab |-> t, kind |-> kind, via |-> kind, about |-> about, previous |-> None,
     cookie |-> cookie, answer |-> "none", fresh |-> TRUE,
     here |-> kind \in {"adopt", "data"}, awaited |-> TRUE]

\* Nobody waits for the answer any more.
Abandoned(c) ==
    [c EXCEPT !.awaited = FALSE, !.fresh = FALSE, !.here = FALSE, !.previous = None]

Room == Cardinality(calls) < MaxCalls[Cardinality(open)]

\* A notice reaches the other tabs, or none where the channel is unavailable.
Notified(N, t, kind, about, next) ==
    LET new == {[to |-> u, kind |-> kind, about |-> about, next |-> next,
                 heard |-> FALSE, fresh |-> FALSE] : u \in open \ {t}}
    IN  {N} \cup {M \in {N \cup new} : about # None /\ Cardinality(M) <= MaxNotices}

\* Tab t becomes x in a new generation, with the calls C left.
Reset(t, x, C) ==
    /\ tab' = [tab EXCEPT ![t] = x]
    /\ calls' = NewGeneration(C, t)
    /\ notices' = Outdated(notices, t)

HasEffect(c) == c.kind \in {"login", "logout", "logoutAll"}
Answered(c) == c.awaited /\ c.answer \notin {"none", "issued"}

-----------------------------------------------------------------------------
(* The server                                                              *)

Live(s) == s # None /\ status[s] = "live"

\* WebSessionService.authenticationFailure.
Failure(s) == IF s # None /\ status[s] = "revoked" THEN "revoked" ELSE "denied"

\* The answer takes the place of the request; nobody reads it once given up.
Answer(c, answer) ==
    calls' = (calls \ {c}) \cup
             (IF c.awaited THEN {[c EXCEPT !.answer = answer]} ELSE {})

SameOwner(s, r) == s # None /\ r # None /\ Owner[s] = Owner[r]

\* Mutant of ContextFailure: the cookie alone is trusted.
CookieSuffices(c) == {}

\* assertExpectedSessionContext, then assertSessionCsrf for an unsafe method.
ContextFailure(c) ==
    CASE ~ SameOwner(c.about, c.cookie) -> {"changed"}
      [] SameOwner(c.about, c.cookie) /\ c.kind \in {"logout", "logoutAll"}
         /\ c.about # c.cookie -> {"refused"}
      [] OTHER -> {}

\* POST login, register: a new session, and the one of the cookie is revoked.
ServeLogin(c, s) ==
    /\ c.kind = "login" /\ c.answer = "none"
    /\ status[s] = "unborn"
    /\ status' = [r \in Sessions |-> IF r = s THEN "live"
                                     ELSE IF r = c.cookie /\ status[r] # "unborn" THEN "revoked"
                                     ELSE status[r]]
    /\ calls' = (calls \ {c}) \cup {[c EXCEPT !.answer = "issued", !.about = s]}
    /\ UNCHANGED <<jar, open, tab, notices, announced>>

\* GET /me, GET of a Bar, GET of private data.
ServeRead(c) ==
    /\ c.kind \in {"confirm", "bootstrap", "resume", "adopt", "data"} /\ c.answer = "none"
    /\ IF ~ Live(c.cookie) THEN Answer(c, Failure(c.cookie))
       ELSE IF c.kind \in {"adopt", "data"} /\ ContextFailure(c) # {}
            THEN \E a \in ContextFailure(c) : Answer(c, a)
       ELSE \E a \in {"ok"} \cup (IF c.kind = "adopt" THEN {"refused"} ELSE {}) : Answer(c, a)
    /\ UNCHANGED <<status, jar, open, tab, notices, announced>>

\* POST logout: a cookie without a live session has nothing left to revoke.
ServeLogout(c) ==
    /\ c.kind = "logout" /\ c.answer = "none"
    /\ IF ~ Live(c.cookie) THEN Answer(c, "ok") /\ UNCHANGED status
       ELSE IF ContextFailure(c) # {}
            THEN (\E a \in ContextFailure(c) : Answer(c, a)) /\ UNCHANGED status
       ELSE Answer(c, "ok") /\ status' = [status EXCEPT ![c.cookie] = "revoked"]
    /\ UNCHANGED <<jar, open, tab, notices, announced>>

\* POST logout-all, with the right password or a wrong one.
ServeLogoutAll(c) ==
    /\ c.kind = "logoutAll" /\ c.answer = "none"
    /\ IF ~ Live(c.cookie) THEN Answer(c, Failure(c.cookie)) /\ UNCHANGED status
       ELSE IF ContextFailure(c) # {}
            THEN (\E a \in ContextFailure(c) : Answer(c, a)) /\ UNCHANGED status
       ELSE \/ Answer(c, "refused") /\ UNCHANGED status
            \/ /\ Answer(c, "ok")
               /\ status' = [s \in Sessions |->
                                IF Owner[s] = Owner[c.cookie] /\ status[s] # "unborn"
                                THEN "revoked" ELSE status[s]]
    /\ UNCHANGED <<jar, open, tab, notices, announced>>

\* A deadline passes, or another device revokes all sessions of the account.
EndElsewhere(s) ==
    /\ status[s] = "live"
    /\ \/ status' = [status EXCEPT ![s] = "expired"]
       \/ status' = [r \in Sessions |-> IF Owner[r] = Owner[s] /\ status[r] # "unborn"
                                        THEN "revoked" ELSE status[r]]
    /\ UNCHANGED <<jar, open, tab, calls, notices, announced>>

-----------------------------------------------------------------------------
(* Confirmation of an identity                                             *)

\* WorkspaceContext.install: the drafts of another owner are purged.
Installed(x, s, place) ==
    [x EXCEPT !.place = place,
              !.candidate = IF place = "bar" THEN Owner[s] ELSE None,
              !.drafts = [owner |-> [user |-> Owner[s], place |-> place], active |-> TRUE]]

\* The session is set; a sign-in then leaves for another page, or stays on it.
Adopt(t, x, s, c, C) ==
    /\ \E y \in {x} \cup (IF c.via = "confirm" THEN {[x EXCEPT !.shown = None]} ELSE {}) :
          tab' = [tab EXCEPT ![t] =
                    Settle([y EXCEPT !.session = s, !.lastConfirmed = s,
                                     !.bootstrap = IF c.via = "confirm" THEN @ ELSE FALSE])]
    /\ calls' = C
    /\ IF c.via = "confirm"
       THEN notices' \in Notified(notices, t, "identity", c.previous, s)
       ELSE UNCHANGED notices

\* WorkspaceContext.confirmSession: Personal at once, a remembered Bar on demand.
ConfirmSession(t, c, s) ==
    LET rest == NewPlaceGeneration(calls \ {c}, t)
        bare == [tab[t] EXCEPT !.place = None]
    IN  IF tab[t].candidate # Owner[s]
        THEN Adopt(t, Installed(bare, s, "personal"), s, c, rest)
        ELSE /\ tab' = [tab EXCEPT ![t] = Settle(bare)]
             /\ calls' = rest \cup {[Call(t, "adopt", s, jar) EXCEPT
                                        !.via = c.kind, !.previous = c.previous]}
             /\ UNCHANGED notices

\* A call ends without any other effect than the end of its wait.
Forget(c) ==
    /\ calls' = calls \ {c}
    /\ tab' = [tab EXCEPT ![c.tab].bootstrap = @ /\ c.via \notin {"bootstrap", "resume"}]
    /\ UNCHANGED notices

\* Mutant of Expires: the answer of any generation counts.
ExpiresLate(c) == c.answer \in {"denied", "revoked", "changed"}

\* authInterceptor: a refused identity closes the tab that still carries it.
Expires(c) == c.fresh /\ c.answer \in {"denied", "revoked", "changed"}
Expire(c) == Reset(c.tab, Closed(tab[c.tab], c.answer = "revoked"), calls \ {c})

\* SessionResume closes a document it could not check; a guard only redirects.
GiveUp(c) ==
    IF c.via = "resume" /\ c.fresh
    THEN Reset(c.tab, Closed(tab[c.tab], FALSE), calls \ {c})
    ELSE Forget(c)

-----------------------------------------------------------------------------
(* What the user and the documents start                                   *)

SignIn(t) ==
    /\ Room
    /\ LET x == tab[t]
           previous == IF x.session # None THEN x.session ELSE x.lastConfirmed
       IN  /\ tab' = [tab EXCEPT ![t] =
                        [Closed(x, FALSE) EXCEPT !.pendingLogout = None,
                                                 !.logoutUncertain = FALSE,
                                                 !.globalLogoutUncertain = FALSE]]
           /\ calls' = NewGeneration(calls, t) \cup
                         {[Call(t, "login", None, jar) EXCEPT !.previous = previous]}
    /\ notices' = Outdated(notices, t)
    /\ UNCHANGED <<status, jar, open, announced>>

\* authGuard on a private route of a tab without identity.
Bootstrap(t) ==
    /\ Room
    /\ tab[t].session = None /\ ~ tab[t].logoutUncertain /\ ~ tab[t].bootstrap
    /\ tab' = [tab EXCEPT ![t].bootstrap = TRUE]
    /\ calls' = calls \cup {Call(t, "bootstrap", None, jar)}
    /\ UNCHANGED <<status, jar, open, notices, announced>>

\* SessionResume: the document is shown again; an earlier check is cancelled.
Revalidate(t) ==
    LET kept == {c \in calls : c.tab # t \/ c.via # "resume"}
    IN  /\ Cardinality(kept) < MaxCalls[Cardinality(open)]
        /\ IF tab[t].logoutUncertain
           THEN Reset(t, Closed(tab[t], FALSE), kept)
           ELSE /\ tab' = [tab EXCEPT ![t].bootstrap = TRUE]
                /\ calls' = NewAuthGeneration(kept, t) \cup {Call(t, "resume", None, jar)}
                /\ notices' = Outdated(notices, t)
        /\ UNCHANGED <<status, jar, open, announced>>

RequestLogout(t, global) ==
    LET x == tab[t]
        snapshot == IF x.pendingLogout # None THEN x.pendingLogout ELSE x.session
    IN  /\ Room
        /\ ~ x.logoutPending
        /\ ~ global => ~ x.globalLogoutUncertain
        /\ global => snapshot # None
        /\ tab' = [tab EXCEPT ![t] =
                     [Closed(x, TRUE) EXCEPT !.pendingLogout = snapshot,
                                             !.logoutPending = TRUE,
                                             !.logoutUncertain = TRUE,
                                             !.globalLogoutUncertain = global]]
        /\ calls' = NewGeneration(calls, t) \cup
                      {Call(t, IF global THEN "logoutAll" ELSE "logout", snapshot, jar)}
        /\ notices' \in Notified(Outdated(notices, t), t, "logout", snapshot, None)
        /\ UNCHANGED <<status, jar, open, announced>>

\* A page of the rendered shell asks for private data.
Load(t) ==
    /\ Room
    /\ Rendered(tab[t])
    /\ calls' = calls \cup {Call(t, "data", tab[t].session, jar)}
    /\ UNCHANGED <<status, jar, open, tab, notices, announced>>

\* The document is loaded again: its memory is lost, its session storage is
\* not, and what it had already sent may still be handled.
Reload(t) ==
    /\ tab' = [tab EXCEPT ![t] = [Blank EXCEPT !.candidate = tab[t].candidate,
                                               !.drafts = [tab[t].drafts EXCEPT !.active = FALSE]]]
    /\ calls' = {c \in calls : c.tab # t} \cup
                {Abandoned(c) : c \in {c \in calls : c.tab = t /\ HasEffect(c)
                                                      /\ c.answer \in {"none", "issued"}}}
    /\ notices' = {n \in notices : n.to # t}
    /\ UNCHANGED <<status, jar, open, announced>>

-----------------------------------------------------------------------------
(* Answers                                                                 *)

\* The browser stores the cookie of an answer, before any script reads it; the
\* answer to a document that is gone may be dropped instead.
StoreCookie(c) ==
    /\ c.answer = "issued"
    /\ jar' = c.about
    /\ calls' = (calls \ {c}) \cup (IF c.awaited THEN {[c EXCEPT !.answer = "ok"]} ELSE {})
    /\ UNCHANGED <<status, open, tab, notices, announced>>

DropAnswer(c) ==
    /\ ~ c.awaited /\ c.answer = "issued"
    /\ calls' = calls \ {c}
    /\ UNCHANGED <<status, jar, open, tab, notices, announced>>

\* The network fails, or the wait times out: the request may yet be handled.
\* An answer lost on its way back is a request handled after the wait.
Fail(c) ==
    /\ c.awaited
    /\ c.answer \in {"none"} \cup (IF c.kind = "login" THEN {"ok"} ELSE {})
    /\ calls' = (calls \ {c}) \cup {[c EXCEPT !.answer = "failed"]} \cup
                (IF HasEffect(c) /\ c.answer = "none"
                 THEN {Abandoned(c)} ELSE {})
    /\ UNCHANGED <<status, jar, open, tab, notices, announced>>

\* A request given up never reaches the server.
LoseRequest(c) ==
    /\ ~ c.awaited /\ c.answer = "none"
    /\ calls' = calls \ {c}
    /\ UNCHANGED <<status, jar, open, tab, notices, announced>>

ReceiveLogin(c) ==
    /\ c.kind = "login" /\ Answered(c)
    /\ calls' = (calls \ {c}) \cup
                (IF c.fresh /\ c.answer = "ok"
                 THEN {[Call(c.tab, "confirm", c.about, jar) EXCEPT !.previous = c.previous]}
                 ELSE {})
    /\ UNCHANGED <<status, jar, open, tab, notices, announced>>

ReceiveConfirm(c) ==
    /\ c.kind = "confirm" /\ Answered(c)
    /\ IF Expires(c) THEN Expire(c)
       ELSE IF c.fresh /\ c.answer = "ok" /\ c.cookie = c.about
            THEN ConfirmSession(c.tab, c, c.about)
       ELSE Forget(c)
    /\ UNCHANGED <<status, jar, open, announced>>

ReceiveBootstrap(c) ==
    LET x == tab[c.tab]
        other == x.session # None /\ x.session # c.cookie
    IN  /\ c.kind \in {"bootstrap", "resume"} /\ Answered(c)
        /\ IF Expires(c) THEN Expire(c)
           ELSE IF ~ c.fresh \/ c.answer # "ok" THEN GiveUp(c)
           ELSE IF other
                THEN Reset(c.tab,
                           Closed(IF SameOwner(x.session, c.cookie) THEN x
                                  ELSE [x EXCEPT !.drafts = NoDrafts], FALSE),
                           calls \ {c})
           ELSE ConfirmSession(c.tab, c, c.cookie)
        /\ UNCHANGED <<status, jar, open, announced>>

\* The Bar remembered by the tab is confirmed or not: in neither case does the
\* tab fall back on the personal library.
ReceiveAdopt(c) ==
    LET x == tab[c.tab]
        unconfirmed == [x EXCEPT !.drafts.active = FALSE]
        left == calls \ {c}
    IN  /\ c.kind = "adopt" /\ Answered(c)
        /\ IF Expires(c) THEN Expire(c)
           ELSE IF ~ c.here THEN GiveUp(c)
           ELSE IF ~ c.fresh
                THEN /\ tab' = [tab EXCEPT ![c.tab] =
                                  [unconfirmed EXCEPT !.bootstrap = @ /\ c.via = "confirm"]]
                     /\ calls' = left
                     /\ UNCHANGED notices
           ELSE IF c.answer = "ok"
                THEN Adopt(c.tab, Installed(x, c.about, "bar"), c.about, c, left)
           ELSE Adopt(c.tab, unconfirmed, c.about, c, left)
        /\ UNCHANGED <<status, jar, open, announced>>

\* Mutant of Confirms: the end of the wait counts as the confirmation.
ConfirmsAnyEnd(c) == c.fresh

\* The tap of requestLogout: only an answer of this generation confirms.
Confirms(c) == c.fresh /\ c.answer = "ok"

ReceiveLogout(c) ==
    LET closed == Confirms(c)
    IN  /\ c.kind \in {"logout", "logoutAll"} /\ Answered(c)
        /\ calls' = calls \ {c}
        /\ tab' = [tab EXCEPT ![c.tab] =
                     [tab[c.tab] EXCEPT !.logoutPending = FALSE,
                                        !.pendingLogout = IF closed THEN None ELSE @,
                                        !.logoutUncertain = @ /\ ~ closed,
                                        !.globalLogoutUncertain = @ /\ ~ closed]]
        /\ announced' = IF closed THEN announced \cup ({c.about} \ {None}) ELSE announced
        /\ UNCHANGED <<status, jar, open, notices>>

ReceiveData(c) ==
    /\ c.kind = "data" /\ Answered(c)
    /\ IF Expires(c) THEN Expire(c)
       ELSE IF c.fresh /\ c.here /\ c.answer = "ok"
            THEN /\ tab' = [tab EXCEPT ![c.tab].shown = Owner[c.cookie]]
                 /\ calls' = calls \ {c}
                 /\ UNCHANGED notices
       ELSE Forget(c)
    /\ UNCHANGED <<status, jar, open, announced>>

-----------------------------------------------------------------------------
(* Notices of the other tabs                                               *)

\* receiveNotification up to its await: the session known to the tab and the
\* generation are captured, the digest of the session is on its way.
HearNotice(n) ==
    LET x == tab[n.to]
        current == IF x.session # None THEN x.session ELSE x.lastConfirmed
    IN  /\ ~ n.heard
        /\ notices' = (notices \ {n}) \cup
                      (IF current = n.about
                       THEN {[n EXCEPT !.heard = TRUE, !.fresh = TRUE]} ELSE {})
        /\ UNCHANGED <<status, jar, open, tab, calls, announced>>

\* The digest is there: the notice applies unless the generation has changed.
ApplyNotice(n) ==
    LET purge == n.kind = "logout" \/ ~ SameOwner(n.next, n.about)
        x == tab[n.to]
    IN  /\ n.heard
        /\ IF n.fresh
           THEN /\ tab' = [tab EXCEPT ![n.to] =
                             Closed(IF purge THEN [x EXCEPT !.drafts = NoDrafts] ELSE x, FALSE)]
                /\ calls' = NewGeneration(calls, n.to)
                /\ notices' = Outdated(notices \ {n}, n.to)
           ELSE /\ notices' = notices \ {n}
                /\ UNCHANGED <<tab, calls>>
        /\ UNCHANGED <<status, jar, open, announced>>

-----------------------------------------------------------------------------

\* A tab may be opened on the session storage of an earlier document.
Init ==
    /\ status = [s \in Sessions |-> "unborn"]
    /\ jar = None
    /\ open \in (SUBSET Tabs) \ {{}}
    /\ tab \in [open -> {Blank} \cup
                  {[Blank EXCEPT !.candidate = u,
                                 !.drafts.owner = [user |-> u, place |-> "bar"]] : u \in Remembered}]
    /\ calls = {}
    /\ notices = {}
    /\ announced = {}

Next ==
    \/ \E t \in open :
          \/ SignIn(t) \/ Bootstrap(t) \/ Revalidate(t) \/ Load(t) \/ Reload(t)
          \/ \E global \in BOOLEAN : RequestLogout(t, global)
    \/ \E c \in calls :
          \/ \E s \in Sessions : ServeLogin(c, s)
          \/ ServeRead(c) \/ ServeLogout(c) \/ ServeLogoutAll(c)
          \/ StoreCookie(c) \/ DropAnswer(c) \/ Fail(c) \/ LoseRequest(c)
          \/ ReceiveLogin(c) \/ ReceiveConfirm(c) \/ ReceiveBootstrap(c)
          \/ ReceiveAdopt(c) \/ ReceiveLogout(c) \/ ReceiveData(c)
    \/ \E n \in notices : HearNotice(n) \/ ApplyNotice(n)
    \/ \E s \in Sessions : EndElsewhere(s)

Spec == Init /\ [][Next]_vars

-----------------------------------------------------------------------------
(* Properties                                                              *)

\* The step takes call c away, and does not merely outdate it.
Consumed(c) ==
    {c, [c EXCEPT !.here = FALSE], [c EXCEPT !.fresh = FALSE, !.here = FALSE]} \cap calls' = {}

\* While a logout is not confirmed, the tab holds no identity and shows nothing:
\* neither a late confirmation nor a notice nor a document shown again may bring
\* the session back (loadCurrentUser and the generation checks of AuthService).
UncertainLogoutStaysClosed ==
    \A t \in open : tab[t].logoutUncertain => tab[t].session = None /\ tab[t].shown = None

\* A session the user was told is closed can no longer be used from this
\* browser: it is dead on the server, or its credential is gone from the jar
\* (requestLogout announces a logout only on the answer of the server).
AnnouncedLogoutHolds ==
    \A s \in announced : jar = s => ~ Live(s)

\* A logout closes the session it was asked for, and a global one sessions of
\* the same account, whatever cookie another tab has put in the jar meanwhile
\* (AUTH_SNAPSHOT against the context checks of WebSessionService).
LogoutSparesOthers ==
    [][\A c \in {c \in calls : Consumed(c)} :
         \A s \in Sessions :
            c.answer = "none" /\ status[s] # "revoked" /\ status'[s] = "revoked" =>
              /\ c.kind = "logout" => s = c.about
              /\ c.kind = "logoutAll" => Owner[s] = Owner[c.about]]_vars

\* An answer to an earlier generation of a tab neither opens nor closes an
\* identity, shows nothing and purges nothing (authInterceptor, AuthService).
LateAnswersAreHarmless ==
    [][\A c \in {c \in calls : Consumed(c)} :
         c.awaited /\ ~ c.fresh /\ c.answer # "none" /\ ~ Reload(c.tab) =>
           /\ tab'[c.tab].session = tab[c.tab].session
           /\ tab'[c.tab].shown = tab[c.tab].shown
           /\ tab'[c.tab].drafts.owner = tab[c.tab].drafts.owner]_vars

\* Drafts survive whatever is not a decision: they are given up only by a logout
\* of this tab or a notice of one, by another account found or confirmed in this
\* tab, or by the answer that says the session was revoked.  A Bar that cannot
\* be confirmed, in particular, never costs them (comment of confirmSession).
DraftsOutliveExpiry ==
    [][\A t \in open :
         LET lost == tab[t].drafts.owner
         IN  lost # None /\ tab'[t].drafts.owner # lost =>
               \/ tab'[t].logoutUncertain
               \/ \E n \in notices \ notices' : n.to = t
               \/ \E c \in calls \ calls' :
                     /\ c.tab = t /\ Answered(c)
                     /\ \/ c.answer = "revoked"
                        \/ c.cookie # None /\ Owner[c.cookie] # lost.user]_vars

\* A notice about to be applied concerns the session the tab is in: a delayed
\* notice does not close a newer session of the same account
\* (docs/maintenance/frontend-authentication.md).
NoticesSpareNewerSessions ==
    \A n \in notices :
       n.heard /\ n.fresh => tab[n.to].session \in {None, n.about}

\* What a tab displays belongs to the account it displays as connected
\* (docs/project/l4-design.md, L4-10).
ShownBelongsToIdentity ==
    \A t \in open : tab[t].shown # None => tab[t].shown = Owner[tab[t].session]
=============================================================================
