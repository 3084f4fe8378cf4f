--------------------------- MODULE BrowserProofs ---------------------------
(* Proofs about Browser, for any number of tabs, accounts, sessions, calls    *)
(* and notices.  The invariant says what a session, a tab and a call under    *)
(* way have to do with each other.                                            *)
(*                                                                            *)
(* A session is spent once the browser has stored its cookie: no answer that  *)
(* would store it again is under way, so that once it has left the jar it     *)
(* never returns to it.  This is why a logout answered for another cookie     *)
(* still tells the truth to its user.                                         *)
EXTENDS Browser, TLAPS

LogoutKinds == {"logout", "logoutAll"}

Issuing(c, s) == c.answer = "issued" /\ c.about = s
Spent(s) == s \in Sessions /\ status[s] # "unborn" /\ \A c \in calls : ~ Issuing(c, s)
SpentIfAny(s) == s # None => Spent(s)

\* The drafts of a tab are those of the workspace it remembers and of the
\* account it displays.
DraftsFit(x) ==
    x.drafts.owner # None =>
      /\ x.drafts.owner.place = "bar" => x.candidate = x.drafts.owner.user
      /\ x.drafts.owner.place = "personal" => x.candidate = None
      /\ x.session # None => x.drafts.owner.user = Owner[x.session]

ClosedIfUncertain(x) == x.logoutUncertain => x.session = None /\ x.shown = None

TabOK(x) ==
    /\ SpentIfAny(x.session)
    /\ SpentIfAny(x.pendingLogout)
    /\ ClosedIfUncertain(x)
    /\ DraftsFit(x)

\* What a call the tab still trusts has to do with the tab.
Suits(c, x) ==
    /\ c.fresh /\ x.logoutUncertain => c.kind \in LogoutKinds
    /\ c.kind = "adopt" /\ c.here => x.candidate = Owner[c.about]

\* A logout was sent with the cookie it is about, or about a session whose
\* cookie is gone; once answered, that session is of no use to this browser.
LogoutTells(c) ==
    c.kind \in LogoutKinds /\ c.about # None =>
      /\ c.cookie = c.about \/ jar # c.about
      /\ c.answer = "ok" => jar # c.about \/ ~ Live(c.about)

\* What a call says by itself.
Fields(c) ==
    /\ c.here => c.kind \in {"adopt", "data"}
    /\ c.answer = "issued" => c.kind = "login" /\ c.about \in Sessions
    /\ c.kind \in {"confirm", "adopt"} \/ (c.kind = "login" /\ c.answer = "ok") => c.about # None
    /\ c.answer = "ok" /\ c.kind \in {"bootstrap", "resume", "data", "adopt"} => c.cookie # None
    /\ c.answer = "ok" /\ c.kind = "adopt" => SameOwner(c.about, c.cookie)
    /\ ~ c.awaited => ~ c.fresh /\ ~ c.here

CallOK(c) ==
    /\ c.tab \in open
    /\ Fields(c)
    /\ c.answer = "issued" => status[c.about] # "unborn"
    /\ c.answer # "issued" => SpentIfAny(c.about)
    /\ SpentIfAny(c.cookie)
    /\ LogoutTells(c)

IssuedOnce ==
    \A c, d \in calls : \A s \in Sessions : Issuing(c, s) /\ Issuing(d, s) => c = d

BrowserInv ==
    /\ TypeOK
    /\ \A t \in open : TabOK(tab[t])
    /\ \A c \in calls : CallOK(c)
    /\ \A c \in calls : Suits(c, tab[c.tab])
    /\ \A n \in notices : n.to \in open
    /\ IssuedOnce
    /\ SpentIfAny(jar)
    /\ \A s \in announced : Spent(s) /\ (jar = s => ~ Live(s))

-----------------------------------------------------------------------------
(* Tabs and calls                                                           *)

LEMMA TabFields ==
    ASSUME NEW x \in TabType
    PROVE  /\ x.session \in Maybe(Sessions)
           /\ x.pendingLogout \in Maybe(Sessions)
           /\ x.logoutUncertain \in BOOLEAN
           /\ x.bootstrap \in BOOLEAN
           /\ x.candidate \in Maybe(Users)
           /\ x.drafts.owner \in Maybe([user : Users, place : Places])
           /\ x.drafts.active \in BOOLEAN
BY DEF TabType

LEMMA CallFields ==
    ASSUME NEW c \in CallType
    PROVE  /\ c.tab \in Tabs
           /\ c.kind \in Kinds
           /\ c.via \in Kinds
           /\ c.about \in Maybe(Sessions)
           /\ c.previous \in Maybe(Sessions)
           /\ c.cookie \in Maybe(Sessions)
           /\ c.answer \in Answers
           /\ c.fresh \in BOOLEAN
           /\ c.here \in BOOLEAN
           /\ c.awaited \in BOOLEAN
BY DEF CallType

\* A tab that closes forgets its identity, shows nothing, and keeps its drafts
\* or gives them up with the workspace they are of.
LEMMA ClosedTab ==
    ASSUME NEW x \in TabType, NEW purge \in BOOLEAN
    PROVE  /\ Closed(x, purge) \in TabType
           /\ Closed(x, purge).session = None
           /\ Closed(x, purge).shown = None
           /\ Closed(x, purge).pendingLogout = x.pendingLogout
           /\ Closed(x, purge).logoutUncertain = x.logoutUncertain
           /\ ~ purge => /\ Closed(x, purge).drafts.owner = x.drafts.owner
                         /\ Closed(x, purge).candidate = x.candidate
           /\ TabOK(x) => TabOK(Closed(x, purge))
<1> DEFINE y == Closed(x, purge)
<1>1. /\ y \in TabType
      /\ y.session = None
      /\ y.shown = None
      /\ y.pendingLogout = x.pendingLogout
      /\ y.logoutUncertain = x.logoutUncertain
  BY DEF TabType, Closed, NoDrafts, Maybe
<1>2. /\ y.drafts.owner = IF purge THEN None ELSE x.drafts.owner
      /\ y.candidate = IF purge THEN None ELSE x.candidate
  BY DEF TabType, Closed, NoDrafts
<1>3. TabOK(x) => TabOK(y)
  BY <1>1, <1>2 DEF TabOK, SpentIfAny, ClosedIfUncertain, DraftsFit
<1> QED BY <1>1, <1>2, <1>3

\* A call that changed nothing but what its tab still expects of it.
Trimmed(d, c) ==
    d \in {c, [c EXCEPT !.here = FALSE], [c EXCEPT !.fresh = FALSE],
           [c EXCEPT !.fresh = FALSE, !.here = FALSE], Abandoned(c)}

LEMMA TrimmedCall ==
    ASSUME NEW c \in CallType, NEW d, Trimmed(d, c)
    PROVE  /\ d \in CallType
           /\ d.tab = c.tab /\ d.kind = c.kind /\ d.about = c.about
           /\ d.cookie = c.cookie /\ d.answer = c.answer
           /\ d.fresh => c.fresh
           /\ d.here => c.here
           /\ Fields(c) => Fields(d)
<1>1. /\ d \in CallType
      /\ d.tab = c.tab /\ d.kind = c.kind /\ d.about = c.about
      /\ d.cookie = c.cookie /\ d.answer = c.answer
      /\ d.fresh => c.fresh
      /\ d.here => c.here
      /\ ~ d.awaited => ~ c.awaited \/ (~ d.fresh /\ ~ d.here)
  BY DEF Trimmed, CallType, Abandoned, Maybe
<1>2. Fields(c) => Fields(d)
  BY <1>1 DEF Fields
<1> QED BY <1>1, <1>2

\* What is said of a call is about the fields a trimmed call keeps.
LEMMA TrimmedOK ==
    ASSUME NEW c \in CallType, NEW d, Trimmed(d, c), CallOK(c)
    PROVE  CallOK(d)
BY TrimmedCall DEF CallOK, LogoutTells

LEMMA TrimmedSuits ==
    ASSUME NEW c \in CallType, NEW d, Trimmed(d, c), NEW x, NEW y, Suits(c, x),
           y.logoutUncertain => x.logoutUncertain, y.candidate = x.candidate
    PROVE  Suits(d, y)
BY TrimmedCall DEF Suits

-----------------------------------------------------------------------------
(* Two kinds of steps                                                       *)

\* Calls N that a tab that became x starts.
Fitting(N, t, x) ==
    \A d \in N : d \in CallType /\ d.answer # "issued" /\ CallOK(d) /\ d.tab = t /\ Suits(d, x)

\* What every step of a tab leaves in order.
AroundTab ==
    /\ notices' \subseteq NoticeType
    /\ \A n \in notices' : n.to \in open
    /\ \A s \in announced' : Spent(s) /\ (jar = s => ~ Live(s))
    /\ UNCHANGED <<status, jar, open>>

\* The calls under way as function f leaves them when the tab becomes x.
Moved(f, t, x) ==
    \A c \in calls :
       /\ Trimmed(f[c], c)
       /\ c.tab = t => Suits(f[c], x)
       /\ c.tab # t => f[c] = c

\* One tab becomes x, trims the calls under way (f) and starts others (N).
LEMMA TabStep ==
    ASSUME BrowserInv, NEW t \in open, NEW x \in TabType, TabOK(x), NEW f, NEW N,
           Moved(f, t, x), Fitting(N, t, x), AroundTab,
           \A d \in calls' : d \in N \/ \E c \in calls : d = f[c],
           tab' = [tab EXCEPT ![t] = x]
    PROVE  BrowserInv'
<1>1. /\ calls \subseteq CallType
      /\ tab \in [open -> TabType]
  BY DEF BrowserInv, TypeOK
<1>2. ASSUME NEW d \in calls', d.answer = "issued"
      PROVE  \E c \in calls : d = f[c] /\ c.answer = "issued" /\ d.about = c.about
  BY <1>1, <1>2, TrimmedCall DEF Moved, Fitting
<1>3. ASSUME NEW s, Spent(s)
      PROVE  Spent(s)'
  BY <1>2, <1>3 DEF Spent, Issuing, AroundTab
<1>4. TypeOK'
  <2>1. calls' \subseteq CallType
    BY <1>1, TrimmedCall DEF Moved, Fitting
  <2>2. announced' \subseteq Sessions
    BY DEF Spent, AroundTab
  <2>3. tab' \in [open' -> TabType]
    BY <1>1 DEF AroundTab
  <2> QED BY <2>1, <2>2, <2>3 DEF BrowserInv, TypeOK, AroundTab
<1>5. ASSUME NEW u \in open'
      PROVE  TabOK(tab[u])'
  <2>1. TabOK(tab'[u])
    BY <1>1 DEF BrowserInv, AroundTab
  <2> QED BY <2>1, <1>3 DEF TabOK, SpentIfAny, ClosedIfUncertain, DraftsFit
<1>6. ASSUME NEW d \in calls'
      PROVE  CallOK(d)' /\ Suits(d, tab[d.tab])'
  <2>1. CallOK(d)
    BY <1>1, TrimmedOK DEF BrowserInv, Moved, Fitting
  <2>2. CallOK(d)'
    BY <2>1, <1>3 DEF CallOK, SpentIfAny, LogoutTells, Live, Fields, SameOwner, AroundTab
  <2>3. Suits(d, tab'[d.tab])
    BY <1>1, TrimmedCall DEF BrowserInv, CallOK, Moved, Fitting
  <2> QED BY <2>2, <2>3 DEF Suits
<1>7. IssuedOnce'
  <2> SUFFICES ASSUME NEW d \in calls', NEW e \in calls', NEW s \in Sessions,
                      d.answer = "issued", e.answer = "issued", d.about = s, e.about = s
               PROVE  d = e
    BY DEF IssuedOnce, Issuing
  <2>1. PICK c \in calls : d = f[c] /\ c.answer = "issued" /\ d.about = c.about
    BY <1>2
  <2>2. PICK b \in calls : e = f[b] /\ b.answer = "issued" /\ e.about = b.about
    BY <1>2
  <2>3. c = b
    BY <2>1, <2>2 DEF BrowserInv, IssuedOnce, Issuing
  <2> QED BY <2>1, <2>2, <2>3
<1>8. SpentIfAny(jar)' /\ \A s \in announced' : Spent(s)' /\ (jar' = s => ~ Live(s)')
  BY <1>3 DEF BrowserInv, SpentIfAny, Live, AroundTab
<1>9. \A n \in notices' : n.to \in open'
  BY DEF AroundTab
<1> QED BY <1>4, <1>5, <1>6, <1>7, <1>8, <1>9 DEF BrowserInv

\* A call that is answered, or given up, while its tab does not notice.
Entering(d) ==
    /\ d \in CallType /\ d.answer # "issued" /\ d.tab \in open
    /\ Fields(d)
    /\ SpentIfAny(d.cookie)
    /\ Suits(d, tab[d.tab])
Entered(d) == SpentIfAny(d.about) /\ LogoutTells(d)

\* No session is born again, and no cookie comes back into the jar.
StatusMoves ==
    /\ status' \in [Sessions -> {"unborn", "live", "revoked", "expired"}]
    /\ \A s \in Sessions : status[s] # "unborn" =>
          status'[s] # "unborn" /\ (status'[s] = "live" => status[s] = "live")
JarMoves == jar' = jar \/ \E s \in Sessions : jar' = s /\ ~ Spent(s) /\ Spent(s)'

\* The server, the network or the browser takes a step: calls are dropped or
\* answered (a, b), and the tabs do not notice.
LEMMA CallStep ==
    ASSUME BrowserInv, NEW a, NEW b,
           calls' \subseteq calls \cup {a, b},
           a \in calls \/ (Entering(a) /\ Entered(a)'),
           b \in calls \/ (Entering(b) /\ Entered(b)'),
           StatusMoves, JarMoves,
           UNCHANGED <<open, tab, notices, announced>>
    PROVE  BrowserInv'
<1>1. ASSUME NEW s, Spent(s)
      PROVE  /\ Spent(s)'
             /\ jar # s => jar' # s
             /\ ~ Live(s) => ~ Live(s)'
  BY <1>1 DEF Spent, Issuing, Live, Entering, StatusMoves, JarMoves
<1>2. TypeOK'
  BY DEF BrowserInv, TypeOK, Maybe, Entering, StatusMoves, JarMoves
<1>3. ASSUME NEW u \in open'
      PROVE  TabOK(tab[u])'
  BY <1>1 DEF BrowserInv, TabOK, SpentIfAny, ClosedIfUncertain, DraftsFit
<1>4. ASSUME NEW d \in calls'
      PROVE  CallOK(d)' /\ Suits(d, tab[d.tab])'
  <2>1. CASE Entering(d) /\ Entered(d)'
    BY <2>1, <1>1 DEF CallOK, SpentIfAny, Fields, Suits, SameOwner, Entering, Entered
  <2>2. CASE d \in calls
    <3>1. CallOK(d) /\ Suits(d, tab[d.tab]) /\ d.about \in Maybe(Sessions)
      BY <2>2 DEF BrowserInv, TypeOK, CallType
    <3>2. LogoutTells(d)'
      <4> SUFFICES ASSUME d.kind \in LogoutKinds, d.about # None
                   PROVE  /\ d.cookie = d.about \/ jar' # d.about
                          /\ d.answer = "ok" => jar' # d.about \/ ~ Live(d.about)'
        BY DEF LogoutTells
      <4>1. Spent(d.about)
        BY <3>1 DEF CallOK, SpentIfAny, Fields, LogoutKinds
      <4> QED BY <4>1, <3>1, <1>1 DEF CallOK, LogoutTells
    <3>3. (d.answer = "issued" => status[d.about] # "unborn")'
      BY <3>1 DEF CallOK, Fields, StatusMoves
    <3>4. (d.answer # "issued" => SpentIfAny(d.about))' /\ SpentIfAny(d.cookie)'
      BY <3>1, <1>1 DEF CallOK, SpentIfAny
    <3> QED BY <3>1, <3>2, <3>3, <3>4 DEF CallOK, Fields, Suits, SameOwner
  <2> QED BY <2>1, <2>2
<1>5. IssuedOnce'
  <2>1. ASSUME NEW d \in calls', d.answer = "issued"
        PROVE  d \in calls
    BY <2>1 DEF Entering
  <2>2. ASSUME NEW d \in calls', NEW e \in calls', NEW s \in Sessions,
               d.answer = "issued", d.about = s, e.answer = "issued", e.about = s
        PROVE  d = e
    <3>1. d \in calls /\ e \in calls
      BY <2>1, <2>2
    <3> QED BY <3>1, <2>2 DEF BrowserInv, IssuedOnce, Issuing
  <2> QED BY <2>2 DEF IssuedOnce, Issuing
<1>6. SpentIfAny(jar)'
  BY <1>1 DEF BrowserInv, SpentIfAny, JarMoves
<1>7. \A s \in announced' : Spent(s)' /\ (jar' = s => ~ Live(s)')
  BY <1>1 DEF BrowserInv
<1>8. \A n \in notices' : n.to \in open'
  BY DEF BrowserInv
<1> QED BY <1>2, <1>3, <1>4, <1>5, <1>6, <1>7, <1>8 DEF BrowserInv

-----------------------------------------------------------------------------
(* The server                                                               *)

LEMMA InitBrowser == Init => BrowserInv
<1> SUFFICES ASSUME Init
             PROVE  BrowserInv
  OBVIOUS
<1> DEFINE Old(u) == [Blank EXCEPT !.candidate = u,
                                   !.drafts.owner = [user |-> u, place |-> "bar"]]
<1>1. Blank \in TabType /\ TabOK(Blank)
  BY DEF Blank, TabType, NoDrafts, Maybe, TabOK, SpentIfAny, ClosedIfUncertain, DraftsFit
<1>2. ASSUME NEW u \in Remembered
      PROVE  Old(u) \in TabType /\ TabOK(Old(u))
  <2>1. u \in Users /\ "bar" \in Places
    BY BrowserAssumption DEF Places
  <2> DEFINE D == [NoDrafts EXCEPT !.owner = [user |-> u, place |-> "bar"]]
  <2>2. /\ D \in [owner : Maybe([user : Users, place : Places]), active : BOOLEAN]
        /\ D.owner = [user |-> u, place |-> "bar"]
    BY <2>1 DEF NoDrafts, Maybe
  <2>3. Old(u) = [Blank EXCEPT !.candidate = u, !.drafts = D]
    BY DEF Blank
  <2> HIDE DEF D
  <2>4. /\ Old(u) \in TabType
        /\ Old(u).session = None /\ Old(u).pendingLogout = None
        /\ Old(u).logoutUncertain = FALSE /\ Old(u).candidate = u
        /\ Old(u).drafts.owner = [user |-> u, place |-> "bar"]
    BY <2>1, <2>2, <2>3 DEF Blank, TabType, Maybe
  <2> HIDE DEF Old
  <2> QED BY <2>4 DEF TabOK, SpentIfAny, ClosedIfUncertain, DraftsFit
<1> HIDE DEF Old
<1>4. tab \in [open -> {Blank} \cup {Old(u) : u \in Remembered}]
  BY DEF Init, Old
<1>5. ASSUME NEW t \in open
      PROVE  tab[t] \in TabType /\ TabOK(tab[t])
  BY <1>1, <1>2, <1>4
<1>6. tab \in [open -> TabType]
  BY <1>4, <1>5
<1>3. TypeOK
  BY <1>6 DEF Init, TypeOK, Maybe
<1> QED BY <1>5, <1>3 DEF Init, BrowserInv, IssuedOnce, SpentIfAny

\* An answer that is not a cookie to store takes the place of its request.
LEMMA AnswerStep ==
    ASSUME BrowserInv, NEW c \in calls, NEW a \in Answers, Answer(c, a),
           c.answer = "none", a # "issued",
           c.kind # "login", c.kind # "confirm" \/ a # "ok" \/ c.about # None,
           a = "ok" /\ c.kind \in {"bootstrap", "resume", "data", "adopt"} => c.cookie # None,
           a = "ok" /\ c.kind = "adopt" => SameOwner(c.about, c.cookie),
           c.kind \in LogoutKinds /\ c.about # None /\ a = "ok" =>
               jar # c.about \/ (status'[c.about] # "live"),
           StatusMoves,
           UNCHANGED <<jar, open, tab, notices, announced>>
    PROVE  BrowserInv'
<1>0. PICK d : d = [c EXCEPT !.answer = a]
  OBVIOUS
<1>1. c \in CallType /\ CallOK(c) /\ Suits(c, tab[c.tab])
  BY DEF BrowserInv, TypeOK
<1>2. /\ d \in CallType
      /\ d.tab = c.tab /\ d.kind = c.kind /\ d.about = c.about /\ d.cookie = c.cookie
      /\ d.fresh = c.fresh /\ d.here = c.here /\ d.awaited = c.awaited /\ d.answer = a
  BY <1>0, <1>1 DEF CallType
<1>3. calls' \subseteq calls \cup {d}
  BY <1>0 DEF Answer
<1>4. Fields(d) /\ Suits(d, tab[d.tab]) /\ d.tab \in open /\ SpentIfAny(d.cookie)
  BY <1>1, <1>2 DEF Fields, Suits, CallOK
<1>5. SpentIfAny(d.about)'
  BY <1>1, <1>2, <1>3 DEF CallOK, SpentIfAny, Spent, Issuing, StatusMoves
<1>6. LogoutTells(d)'
  <2> SUFFICES ASSUME c.kind \in LogoutKinds, c.about # None
               PROVE  /\ c.cookie = c.about \/ jar' # c.about
                      /\ a = "ok" => jar' # c.about \/ ~ Live(c.about)'
    BY <1>2 DEF LogoutTells
  <2>1. c.cookie = c.about \/ jar # c.about
    BY <1>1 DEF CallOK, LogoutTells
  <2> QED BY <2>1 DEF Live
<1>7. Entering(d) /\ Entered(d)'
  BY <1>2, <1>4, <1>5, <1>6 DEF Entering, Entered
<1>8. JarMoves
  BY DEF JarMoves
<1> QED BY <1>3, <1>7, <1>8, CallStep

\* A session is only issued once, to the sign-in that created it.
LEMMA ServeLoginStep ==
    ASSUME BrowserInv, NEW c \in calls, NEW s \in Sessions, ServeLogin(c, s)
    PROVE  BrowserInv'
<1>0. PICK d : d = [c EXCEPT !.answer = "issued", !.about = s]
  OBVIOUS
<1>1. c \in CallType /\ CallOK(c) /\ Suits(c, tab[c.tab])
  BY DEF BrowserInv, TypeOK
<1>2. /\ d \in CallType
      /\ d.tab = c.tab /\ d.kind = "login" /\ d.about = s /\ d.cookie = c.cookie
      /\ d.fresh = c.fresh /\ d.here = c.here /\ d.awaited = c.awaited /\ d.answer = "issued"
  BY <1>0, <1>1 DEF CallType, Answers, Maybe, ServeLogin
<1>3. /\ calls' = (calls \ {c}) \cup {d}
      /\ UNCHANGED <<jar, open, tab, notices, announced>>
      /\ status' \in [Sessions -> {"unborn", "live", "revoked", "expired"}]
      /\ status[s] = "unborn" /\ status'[s] = "live"
      /\ \A r \in Sessions \ {s} :
           /\ status[r] # "unborn" => status'[r] # "unborn"
           /\ status'[r] = "live" => status[r] = "live"
  BY <1>0 DEF ServeLogin, BrowserInv, TypeOK
<1>4. ASSUME NEW r, Spent(r)
      PROVE  /\ r # s
             /\ Spent(r)'
             /\ ~ Live(r) => ~ Live(r)'
  BY <1>2, <1>3, <1>4 DEF Spent, Issuing, Live
<1>5. TypeOK'
  BY <1>2, <1>3 DEF BrowserInv, TypeOK
<1>6. ASSUME NEW u \in open'
      PROVE  TabOK(tab[u])'
  BY <1>3, <1>4 DEF BrowserInv, TabOK, SpentIfAny, ClosedIfUncertain, DraftsFit
<1>7. ASSUME NEW e \in calls'
      PROVE  CallOK(e)' /\ Suits(e, tab[e.tab])'
  <2>1. CASE e = d
    <3>1. SpentIfAny(d.cookie)'
      BY <1>1, <1>2, <1>4 DEF CallOK, SpentIfAny
    <3>2. Fields(d) /\ Suits(d, tab[d.tab])
      BY <1>1, <1>2, BrowserAssumption DEF ServeLogin, CallOK, Fields, Suits, LogoutKinds
    <3> QED BY <2>1, <1>1, <1>2, <1>3, <3>1, <3>2 DEF CallOK, Fields, Suits, LogoutTells, LogoutKinds, SameOwner
  <2>2. CASE e \in calls
    <3>1. CallOK(e) /\ Suits(e, tab[e.tab])
      BY <2>2 DEF BrowserInv
    <3>2. LogoutTells(e)'
      <4> SUFFICES ASSUME e.kind \in LogoutKinds, e.about # None
                   PROVE  /\ e.cookie = e.about \/ jar' # e.about
                          /\ e.answer = "ok" => jar' # e.about \/ ~ Live(e.about)'
        BY DEF LogoutTells
      <4>1. Spent(e.about)
        BY <3>1 DEF CallOK, SpentIfAny, Fields, LogoutKinds
      <4> QED BY <4>1, <3>1, <1>3, <1>4 DEF CallOK, LogoutTells
    <3>3. (e.answer = "issued" => status[e.about] # "unborn")'
      BY <3>1, <1>3 DEF CallOK, Fields
    <3>4. (e.answer # "issued" => SpentIfAny(e.about))' /\ SpentIfAny(e.cookie)'
      BY <3>1, <1>4 DEF CallOK, SpentIfAny
    <3> QED BY <3>1, <3>2, <3>3, <3>4, <1>3 DEF CallOK, Fields, Suits, SameOwner
  <2> QED BY <2>1, <2>2, <1>3
<1>8. IssuedOnce'
  <2>1. ASSUME NEW e \in calls, e.answer = "issued"
        PROVE  e.about # s
    BY <2>1, <1>3 DEF BrowserInv, CallOK
  <2>2. ASSUME NEW e \in calls', NEW g \in calls', NEW r \in Sessions,
               e.answer = "issued", e.about = r, g.answer = "issued", g.about = r
        PROVE  e = g
    <3>1. CASE e \in calls /\ g \in calls
      BY <3>1, <2>2 DEF BrowserInv, IssuedOnce, Issuing
    <3> QED BY <3>1, <2>1, <2>2, <1>2, <1>3
  <2> QED BY <2>2 DEF IssuedOnce, Issuing
<1>9. SpentIfAny(jar)' /\ \A r \in announced' : Spent(r)' /\ (jar' = r => ~ Live(r)')
  BY <1>3, <1>4 DEF BrowserInv, SpentIfAny
<1>10. \A n \in notices' : n.to \in open'
  BY <1>3 DEF BrowserInv
<1> QED BY <1>5, <1>6, <1>7, <1>8, <1>9, <1>10 DEF BrowserInv

LEMMA ServeReadStep ==
    ASSUME BrowserInv, NEW c \in calls, ServeRead(c)
    PROVE  BrowserInv'
<1>1. c \in CallType /\ CallOK(c) /\ StatusMoves
  BY DEF BrowserInv, TypeOK, ServeRead, StatusMoves
<1>2. PICK a \in Answers :
        /\ Answer(c, a) /\ a # "issued"
        /\ a = "ok" => Live(c.cookie) /\ (c.kind \in {"adopt", "data"} => ContextFailure(c) = {})
  BY DEF ServeRead, Failure, ContextFailure, Answers
<1>3. /\ a = "ok" => c.cookie # None
      /\ a = "ok" /\ c.kind = "adopt" => SameOwner(c.about, c.cookie)
  BY <1>2 DEF Live, ContextFailure
<1>4. c.kind = "confirm" => c.about # None
  BY <1>1 DEF CallOK, Fields
<1> QED BY <1>1, <1>2, <1>3, <1>4, AnswerStep DEF ServeRead, LogoutKinds

\* Told "ok", the user has no use of the session left: it is revoked, or its
\* cookie is not the one of the jar and never will be again.
LEMMA ServeLogoutStep ==
    ASSUME BrowserInv, NEW c \in calls, ServeLogout(c) \/ ServeLogoutAll(c)
    PROVE  BrowserInv'
<1>1. c \in CallType /\ CallOK(c) /\ c.kind \in LogoutKinds /\ c.answer = "none"
  BY DEF BrowserInv, TypeOK, ServeLogout, ServeLogoutAll, LogoutKinds
<1>2. StatusMoves
  BY <1>1 DEF BrowserInv, TypeOK, ServeLogout, ServeLogoutAll, StatusMoves, Live, CallType, Maybe
<1>3. PICK a \in Answers :
        /\ Answer(c, a) /\ a # "issued"
        /\ a = "ok" => ~ Live(c.cookie) \/ (ContextFailure(c) = {} /\ status'[c.cookie] # "live")
  BY <1>1 DEF ServeLogout, ServeLogoutAll, Failure, ContextFailure, Answers, Live, BrowserInv, TypeOK,
              CallType, Maybe
<1>4. ASSUME c.about # None, a = "ok"
      PROVE  jar # c.about \/ status'[c.about] # "live"
  <2>1. c.cookie = c.about \/ jar # c.about
    BY <1>1, <1>4 DEF CallOK, LogoutTells
  <2>2. Spent(c.about) /\ c.about \in Sessions
    BY <1>1, <1>4 DEF CallOK, SpentIfAny, Spent
  <2>3. CASE c.cookie = c.about /\ ~ Live(c.cookie)
    BY <2>2, <2>3, <1>2, <1>4 DEF StatusMoves, Spent, Live
  <2> QED BY <2>1, <2>3, <1>3, <1>4
<1> QED BY <1>1, <1>2, <1>3, <1>4, AnswerStep DEF ServeLogout, ServeLogoutAll, LogoutKinds

LEMMA EndElsewhereStep ==
    ASSUME BrowserInv, NEW s \in Sessions, EndElsewhere(s)
    PROVE  BrowserInv'
<1>1. StatusMoves /\ JarMoves
  BY DEF BrowserInv, TypeOK, EndElsewhere, StatusMoves, JarMoves
<1>2. calls' \subseteq calls /\ UNCHANGED <<open, tab, notices, announced>>
  BY DEF EndElsewhere
<1>3. CASE calls = {}
  <2>1. TypeOK' /\ IssuedOnce'
    BY <1>1, <1>2, <1>3 DEF BrowserInv, TypeOK, IssuedOnce, StatusMoves, EndElsewhere
  <2>2. ASSUME NEW r, Spent(r)
        PROVE  Spent(r)' /\ (~ Live(r) => ~ Live(r)')
    BY <2>2, <1>1, <1>2, <1>3 DEF Spent, StatusMoves, Live
  <2>3. jar' = jar
    BY DEF EndElsewhere
  <2> QED BY <2>1, <2>2, <2>3, <1>2, <1>3
         DEF BrowserInv, TabOK, SpentIfAny, ClosedIfUncertain, DraftsFit
<1>4. ASSUME NEW c \in calls
      PROVE  BrowserInv'
  BY <1>1, <1>2, CallStep
<1> QED BY <1>3, <1>4

\* Dropping a call, with or without a mark that it is over.
LEMMA DropStep ==
    ASSUME BrowserInv, NEW c \in calls, calls' \subseteq calls,
           UNCHANGED <<status, jar, open, tab, notices, announced>>
    PROVE  BrowserInv'
<1>1. StatusMoves /\ JarMoves
  BY DEF BrowserInv, TypeOK, StatusMoves, JarMoves
<1> QED BY <1>1, CallStep

LEMMA StoreCookieStep ==
    ASSUME BrowserInv, NEW c \in calls, StoreCookie(c)
    PROVE  BrowserInv'
<1>0. PICK d : d = [c EXCEPT !.answer = "ok"]
  OBVIOUS
<1>1. c \in CallType /\ CallOK(c) /\ Suits(c, tab[c.tab]) /\ c.kind = "login" /\ c.about \in Sessions
  BY DEF BrowserInv, TypeOK, StoreCookie, CallOK, Fields
<1>2. /\ d \in CallType
      /\ d.tab = c.tab /\ d.kind = c.kind /\ d.about = c.about /\ d.cookie = c.cookie
      /\ d.fresh = c.fresh /\ d.here = c.here /\ d.awaited = c.awaited /\ d.answer = "ok"
  BY <1>0, <1>1 DEF CallType, Answers
<1>3. calls' \subseteq (calls \ {c}) \cup {d}
  BY <1>0 DEF StoreCookie
<1>4. Spent(c.about)'
  <2>1. ASSUME NEW e \in calls', e.answer = "issued"
        PROVE  e.about # c.about
    <3>1. e \in calls /\ e # c
      BY <2>1, <1>2, <1>3
    <3> QED BY <3>1, <2>1, <1>1 DEF BrowserInv, IssuedOnce, Issuing, StoreCookie
  <2> QED BY <2>1, <1>1 DEF Spent, Issuing, CallOK, StoreCookie
<1>5. ~ Spent(c.about)
  BY DEF Spent, Issuing, StoreCookie
<1>6. JarMoves
  BY <1>1, <1>4, <1>5 DEF JarMoves, StoreCookie
<1>7. Entering(d)
  BY <1>1, <1>2, BrowserAssumption DEF Entering, CallOK, Fields, Suits
<1>8. Entered(d)'
  BY <1>2, <1>1, <1>4 DEF Entered, SpentIfAny, LogoutTells, LogoutKinds
<1>9. StatusMoves
  BY DEF BrowserInv, TypeOK, StatusMoves, StoreCookie
<1> QED BY <1>3, <1>6, <1>7, <1>8, <1>9, CallStep DEF StoreCookie

\* The wait for an answer ends; the request may stay under way.
LEMMA FailStep ==
    ASSUME BrowserInv, NEW c \in calls, Fail(c)
    PROVE  BrowserInv'
<1>0. PICK d, e : d = [c EXCEPT !.answer = "failed"] /\ e = Abandoned(c)
  OBVIOUS
<1>1. c \in CallType /\ CallOK(c) /\ Suits(c, tab[c.tab]) /\ c.answer # "issued"
  BY DEF BrowserInv, TypeOK, Fail
<1>2. /\ d \in CallType
      /\ d.tab = c.tab /\ d.kind = c.kind /\ d.about = c.about /\ d.cookie = c.cookie
      /\ d.fresh = c.fresh /\ d.here = c.here /\ d.awaited = c.awaited /\ d.answer = "failed"
  BY <1>0, <1>1 DEF CallType, Answers
<1>3. Trimmed(e, c)
  BY <1>0 DEF Trimmed
<1>4. /\ e \in CallType /\ CallOK(e) /\ Suits(e, tab[e.tab])
      /\ e.tab = c.tab /\ e.kind = c.kind /\ e.about = c.about /\ e.cookie = c.cookie
      /\ e.answer = c.answer
  BY <1>1, <1>3, TrimmedCall, TrimmedOK, TrimmedSuits
<1>5. calls' \subseteq calls \cup {d, e}
  BY <1>0 DEF Fail
<1>6. Entering(d) /\ Entering(e)
  BY <1>1, <1>2, <1>4 DEF Entering, CallOK, Fields, Suits
<1>7. SpentIfAny(c.about)'
  BY <1>1, <1>2, <1>4, <1>5 DEF CallOK, SpentIfAny, Spent, Issuing, Fail
<1>8. LogoutTells(c)'
  BY <1>1 DEF CallOK, LogoutTells, Live, Fail
<1>9. Entered(d)' /\ Entered(e)'
  BY <1>1, <1>2, <1>4, <1>7, <1>8 DEF Entered, SpentIfAny, LogoutTells
<1>10. StatusMoves /\ JarMoves
  BY DEF BrowserInv, TypeOK, StatusMoves, JarMoves, Fail
<1> QED BY <1>5, <1>6, <1>9, <1>10, CallStep DEF Fail

-----------------------------------------------------------------------------
(* The pieces of a step of a tab                                            *)

NoticesOK(N) == N \subseteq NoticeType /\ \A n \in N : n.to \in open

LEMMA OutdatedNotices ==
    ASSUME NEW N, NoticesOK(N), NEW t
    PROVE  NoticesOK(Outdated(N, t))
BY DEF NoticesOK, Outdated, NoticeType

LEMMA NotifiedNotices ==
    ASSUME NEW N, NoticesOK(N), open \subseteq Tabs, NEW t, NEW kind \in {"logout", "identity"},
           NEW about \in Maybe(Sessions), NEW next \in Maybe(Sessions),
           NEW P \in Notified(N, t, kind, about, next)
    PROVE  NoticesOK(P)
<1> DEFINE new == {[to |-> u, kind |-> kind, about |-> about, next |-> next,
                    heard |-> FALSE, fresh |-> FALSE] : u \in open \ {t}}
<1>1. P = N \/ (about # None /\ P = N \cup new)
  BY DEF Notified
<1>2. ASSUME about # None, NEW n \in new
      PROVE  n \in NoticeType /\ n.to \in open
  <2>1. PICK u \in open \ {t} : n = [to |-> u, kind |-> kind, about |-> about, next |-> next,
                                     heard |-> FALSE, fresh |-> FALSE]
    BY <1>2
  <2>2. about \in Sessions /\ u \in Tabs
    BY <1>2 DEF Maybe
  <2> QED BY <2>1, <2>2 DEF NoticeType
<1> QED BY <1>1, <1>2 DEF NoticesOK

\* A call a tab starts is sent with the cookie of the moment.
Started(d, t, kind, about) ==
    /\ d \in CallType
    /\ d.tab = t /\ d.kind = kind /\ d.about = about /\ d.cookie = jar
    /\ d.answer = "none" /\ d.awaited
    /\ d.here => kind \in {"adopt", "data"}

LEMMA StartedCall ==
    ASSUME BrowserInv, NEW t \in open, NEW kind \in Kinds, NEW about \in Maybe(Sessions),
           SpentIfAny(about), kind \in {"confirm", "adopt"} => about # None,
           NEW d, Started(d, t, kind, about)
    PROVE  /\ d \in CallType /\ CallOK(d)
           /\ d.answer = "none" /\ d.tab = t /\ d.kind = kind /\ d.about = about
<1>1. SpentIfAny(jar)
  BY DEF BrowserInv
<1>2. Fields(d)
  BY DEF Fields, Started
<1> QED BY <1>1, <1>2 DEF CallOK, LogoutTells, Started

LEMMA StartedPlainly ==
    ASSUME BrowserInv, NEW t \in open, NEW kind \in Kinds, NEW about \in Maybe(Sessions),
           NEW via \in Kinds, NEW previous \in Maybe(Sessions)
    PROVE  /\ Started(Call(t, kind, about, jar), t, kind, about)
           /\ Started([Call(t, kind, about, jar) EXCEPT !.previous = previous], t, kind, about)
           /\ Started([Call(t, kind, about, jar) EXCEPT !.via = via, !.previous = previous],
                      t, kind, about)
<1>1. t \in Tabs /\ jar \in Maybe(Sessions) /\ None \in Maybe(Sessions)
  BY DEF BrowserInv, TypeOK, Maybe
<1>2. (kind \in {"adopt", "data"}) \in BOOLEAN
  OBVIOUS
<1>3. /\ Call(t, kind, about, jar) \in CallType
      /\ Started(Call(t, kind, about, jar), t, kind, about)
  BY <1>1, <1>2 DEF Call, CallType, Answers, Started
<1> QED BY <1>3 DEF Started, CallType

\* The generation of the tab is raised.
LEMMA GenerationStep ==
    ASSUME BrowserInv, NEW t \in open, NEW x \in TabType, TabOK(x), NEW N, Fitting(N, t, x),
           NEW C \in SUBSET calls, calls' \subseteq NewGeneration(C, t) \cup N,
           tab' = [tab EXCEPT ![t] = x], AroundTab
    PROVE  BrowserInv'
<1>1. PICK f : f = [c \in calls |-> IF c.tab = t THEN [c EXCEPT !.fresh = FALSE, !.here = FALSE] ELSE c]
  OBVIOUS
<1>2. \A c \in calls : Trimmed(f[c], c) /\ (c.tab # t => f[c] = c)
  BY <1>1 DEF Trimmed
<1>3. ASSUME NEW c \in calls, c.tab = t
      PROVE  Suits(f[c], x)
  <2>1. f[c].fresh = FALSE /\ f[c].here = FALSE
    BY <1>1, <1>3 DEF BrowserInv, TypeOK, CallType
  <2> QED BY <2>1 DEF Suits
<1>4. \A d \in calls' : d \in N \/ \E c \in calls : d = f[c]
  BY <1>1 DEF NewGeneration
<1>5. Moved(f, t, x)
  BY <1>2, <1>3 DEF Moved
<1> QED BY <1>4, <1>5, TabStep

\* The place of the tab is being confirmed, its candidate may change.
LEMMA PlaceStep ==
    ASSUME BrowserInv, NEW t \in open, NEW x \in TabType, TabOK(x), NEW N, Fitting(N, t, x),
           NEW C \in SUBSET calls, calls' \subseteq NewPlaceGeneration(C, t) \cup N,
           x.logoutUncertain => tab[t].logoutUncertain,
           tab' = [tab EXCEPT ![t] = x], AroundTab
    PROVE  BrowserInv'
<1>1. PICK f : f = [c \in calls |-> IF c.tab = t THEN [c EXCEPT !.here = FALSE] ELSE c]
  OBVIOUS
<1>2. \A c \in calls : Trimmed(f[c], c) /\ (c.tab # t => f[c] = c)
  BY <1>1 DEF Trimmed
<1>3. ASSUME NEW c \in calls, c.tab = t
      PROVE  Suits(f[c], x)
  <2>1. f[c].fresh = c.fresh /\ f[c].here = FALSE /\ f[c].kind = c.kind
    BY <1>1, <1>3 DEF BrowserInv, TypeOK, CallType
  <2>2. Suits(c, tab[t])
    BY <1>3 DEF BrowserInv
  <2> QED BY <2>1, <2>2 DEF Suits
<1>4. \A d \in calls' : d \in N \/ \E c \in calls : d = f[c]
  BY <1>1 DEF NewPlaceGeneration
<1>5. Moved(f, t, x)
  BY <1>2, <1>3 DEF Moved
<1> QED BY <1>4, <1>5, TabStep

\* The calls of the tab that was resumed no longer count for its identity.
LEMMA AuthStep ==
    ASSUME BrowserInv, NEW t \in open, NEW x \in TabType, TabOK(x), NEW N, Fitting(N, t, x),
           NEW C \in SUBSET calls, calls' \subseteq NewAuthGeneration(C, t) \cup N,
           x.candidate = tab[t].candidate,
           tab' = [tab EXCEPT ![t] = x], AroundTab
    PROVE  BrowserInv'
<1>1. PICK f : f = [c \in calls |-> IF c.tab = t THEN [c EXCEPT !.fresh = FALSE] ELSE c]
  OBVIOUS
<1>2. \A c \in calls : Trimmed(f[c], c) /\ (c.tab # t => f[c] = c)
  BY <1>1 DEF Trimmed
<1>3. ASSUME NEW c \in calls, c.tab = t
      PROVE  Suits(f[c], x)
  <2>1. f[c].fresh = FALSE /\ f[c].here = c.here /\ f[c].kind = c.kind /\ f[c].about = c.about
    BY <1>1, <1>3 DEF BrowserInv, TypeOK, CallType
  <2>2. Suits(c, tab[t])
    BY <1>3 DEF BrowserInv
  <2> QED BY <2>1, <2>2 DEF Suits
<1>4. \A d \in calls' : d \in N \/ \E c \in calls : d = f[c]
  BY <1>1 DEF NewAuthGeneration
<1>5. Moved(f, t, x)
  BY <1>2, <1>3 DEF Moved
<1> QED BY <1>4, <1>5, TabStep

\* The tab keeps its generations.
LEMMA PlainStep ==
    ASSUME BrowserInv, NEW t \in open, NEW x \in TabType, TabOK(x), NEW N, Fitting(N, t, x),
           calls' \subseteq calls \cup N,
           x.logoutUncertain => tab[t].logoutUncertain,
           x.candidate = tab[t].candidate,
           tab' = [tab EXCEPT ![t] = x], AroundTab
    PROVE  BrowserInv'
<1>1. PICK f : f = [c \in calls |-> c]
  OBVIOUS
<1>2. \A c \in calls : Trimmed(f[c], c) /\ f[c] = c
  BY <1>1 DEF Trimmed
<1>3. ASSUME NEW c \in calls, c.tab = t
      PROVE  Suits(f[c], x)
  BY <1>2, <1>3 DEF BrowserInv, Suits
<1>4. \A d \in calls' : d \in N \/ \E c \in calls : d = f[c]
  BY <1>2
<1>5. Moved(f, t, x)
  BY <1>2, <1>3 DEF Moved
<1> QED BY <1>4, <1>5, TabStep

LEMMA NoNewCall == \A t, x : Fitting({}, t, x)
BY DEF Fitting

-----------------------------------------------------------------------------
(* What the user and the documents start                                    *)

LEMMA TabHere ==
    ASSUME BrowserInv, NEW t \in open
    PROVE  tab[t] \in TabType /\ TabOK(tab[t]) /\ NoticesOK(notices) /\ open \subseteq Tabs
BY DEF BrowserInv, TypeOK, NoticesOK

\* A step that announces nothing and keeps the server, with notices in order.
LEMMA Around ==
    ASSUME BrowserInv, NoticesOK(notices)', UNCHANGED <<status, jar, open, announced>>
    PROVE  AroundTab
BY DEF BrowserInv, NoticesOK, AroundTab

LEMMA SignInStep ==
    ASSUME BrowserInv, NEW t \in open, SignIn(t)
    PROVE  BrowserInv'
<1> DEFINE x == Closed(tab[t], FALSE)
           y == [x EXCEPT !.pendingLogout = None, !.logoutUncertain = FALSE,
                          !.globalLogoutUncertain = FALSE]
<1>1. tab[t] \in TabType /\ TabOK(tab[t]) /\ NoticesOK(notices)
  BY TabHere
<1>2. x \in TabType /\ TabOK(x)
  BY <1>1, ClosedTab
<1> HIDE DEF x
<1>3. y \in TabType /\ TabOK(y)
  BY <1>2 DEF TabType, Maybe, TabOK, SpentIfAny, ClosedIfUncertain, DraftsFit
<1>4. PICK p \in Maybe(Sessions) :
        calls' = NewGeneration(calls, t) \cup
                   {[Call(t, "login", None, jar) EXCEPT !.previous = p]}
  <2>1. tab[t].session \in Maybe(Sessions) /\ tab[t].lastConfirmed \in Maybe(Sessions)
    BY <1>1 DEF TabType
  <2> QED BY <2>1 DEF SignIn
<1>5. PICK d : d = [Call(t, "login", None, jar) EXCEPT !.previous = p]
  OBVIOUS
<1>6. Started(d, t, "login", None)
  BY <1>5, StartedPlainly DEF Kinds, Maybe
<1>7. Fitting({d}, t, y)
  <2>1. d \in CallType /\ CallOK(d) /\ d.answer = "none" /\ d.tab = t /\ d.kind = "login"
    BY <1>6, StartedCall DEF Kinds, Maybe, SpentIfAny
  <2>2. y.logoutUncertain = FALSE
    BY <1>2 DEF TabType
  <2> QED BY <2>1, <2>2 DEF Fitting, Suits
<1>8. AroundTab
  BY <1>1, OutdatedNotices, Around DEF SignIn, NoticesOK
<1>9. tab' = [tab EXCEPT ![t] = y]
  BY DEF SignIn, x
<1> HIDE DEF y
<1> QED BY <1>3, <1>4, <1>5, <1>7, <1>8, <1>9, GenerationStep

LEMMA BootstrapStep ==
    ASSUME BrowserInv, NEW t \in open, Bootstrap(t)
    PROVE  BrowserInv'
<1> DEFINE y == [tab[t] EXCEPT !.bootstrap = TRUE]
<1>1. tab[t] \in TabType /\ TabOK(tab[t]) /\ NoticesOK(notices)
  BY TabHere
<1>3. /\ y \in TabType /\ TabOK(y)
      /\ y.logoutUncertain = tab[t].logoutUncertain /\ y.candidate = tab[t].candidate
      /\ ~ y.logoutUncertain
  BY <1>1 DEF TabType, TabOK, ClosedIfUncertain, DraftsFit, Bootstrap
<1>5. PICK d : d = Call(t, "bootstrap", None, jar)
  OBVIOUS
<1>6. Started(d, t, "bootstrap", None)
  BY <1>5, StartedPlainly DEF Kinds, Maybe
<1>7. Fitting({d}, t, y)
  <2>1. d \in CallType /\ CallOK(d) /\ d.answer = "none" /\ d.tab = t /\ d.kind = "bootstrap"
    BY <1>6, StartedCall DEF Kinds, Maybe, SpentIfAny
  <2> QED BY <2>1, <1>3 DEF Fitting, Suits
<1>8. AroundTab
  BY <1>1, Around DEF Bootstrap, NoticesOK
<1>9. tab' = [tab EXCEPT ![t] = y] /\ calls' \subseteq calls \cup {d}
  BY <1>5 DEF Bootstrap
<1> HIDE DEF y
<1> QED BY <1>3, <1>7, <1>8, <1>9, PlainStep

LEMMA RevalidateStep ==
    ASSUME BrowserInv, NEW t \in open, Revalidate(t)
    PROVE  BrowserInv'
<1> DEFINE kept == {c \in calls : c.tab # t \/ c.via # "resume"}
<1>1. tab[t] \in TabType /\ TabOK(tab[t]) /\ NoticesOK(notices)
  BY TabHere
<1>2. AroundTab
  <2>1. notices' = Outdated(notices, t) /\ UNCHANGED <<status, jar, open, announced>>
    BY DEF Revalidate, Reset
  <2>2. NoticesOK(Outdated(notices, t))
    BY <1>1, OutdatedNotices
  <2> QED BY <2>1, <2>2, Around DEF NoticesOK
<1>5. kept \in SUBSET calls
  OBVIOUS
<1> HIDE DEF kept
<1>3. CASE tab[t].logoutUncertain
  <2>1. Closed(tab[t], FALSE) \in TabType /\ TabOK(Closed(tab[t], FALSE))
    BY <1>1, ClosedTab
  <2>2. /\ tab' = [tab EXCEPT ![t] = Closed(tab[t], FALSE)]
        /\ calls' \subseteq NewGeneration(kept, t) \cup {}
    BY <1>3 DEF Revalidate, Reset, kept
  <2> QED BY <2>1, <2>2, <1>2, <1>5, NoNewCall, GenerationStep
<1>4. CASE ~ tab[t].logoutUncertain
  <2> DEFINE y == [tab[t] EXCEPT !.bootstrap = TRUE]
  <2>3. /\ y \in TabType /\ TabOK(y)
        /\ y.candidate = tab[t].candidate
        /\ ~ y.logoutUncertain
    BY <1>1, <1>4 DEF TabType, TabOK, ClosedIfUncertain, DraftsFit
  <2>5. PICK d : d = Call(t, "resume", None, jar)
    OBVIOUS
  <2>6. Started(d, t, "resume", None)
    BY <2>5, StartedPlainly DEF Kinds, Maybe
  <2>7. Fitting({d}, t, y)
    <3>1. d \in CallType /\ CallOK(d) /\ d.answer = "none" /\ d.tab = t /\ d.kind = "resume"
      BY <2>6, StartedCall DEF Kinds, Maybe, SpentIfAny
    <3> QED BY <3>1, <2>3 DEF Fitting, Suits
  <2>9. tab' = [tab EXCEPT ![t] = y] /\ calls' \subseteq NewAuthGeneration(kept, t) \cup {d}
    BY <2>5, <1>4 DEF Revalidate, kept
  <2> HIDE DEF y
  <2> QED BY <2>3, <2>7, <2>9, <1>2, <1>5, AuthStep
<1> QED BY <1>3, <1>4

\* The cookie of the moment is that of the session to close, or that session
\* has left the jar for good.
LEMMA RequestLogoutStep ==
    ASSUME BrowserInv, NEW t \in open, NEW global \in BOOLEAN, RequestLogout(t, global)
    PROVE  BrowserInv'
<1>1. tab[t] \in TabType /\ TabOK(tab[t]) /\ NoticesOK(notices) /\ open \subseteq Tabs
  BY TabHere
<1>2. PICK s : s = IF tab[t].pendingLogout # None THEN tab[t].pendingLogout ELSE tab[t].session
  OBVIOUS
<1>3. s \in Maybe(Sessions) /\ SpentIfAny(s)
  BY <1>1, <1>2 DEF TabType, TabOK
<1> DEFINE x == Closed(tab[t], TRUE)
           y == [x EXCEPT !.pendingLogout = s, !.logoutPending = TRUE,
                          !.logoutUncertain = TRUE, !.globalLogoutUncertain = global]
<1>4. x \in TabType /\ TabOK(x) /\ x.session = None /\ x.shown = None
  BY <1>1, ClosedTab
<1>5. tab' = [tab EXCEPT ![t] = y]
  BY <1>2 DEF RequestLogout
<1> HIDE DEF x
<1>6. y \in TabType /\ TabOK(y)
  BY <1>3, <1>4 DEF TabType, TabOK, ClosedIfUncertain, DraftsFit
<1>7. PICK kind \in LogoutKinds : kind = IF global THEN "logoutAll" ELSE "logout"
  BY DEF LogoutKinds
<1>8. PICK d : d = Call(t, kind, s, jar)
  OBVIOUS
<1>9. Started(d, t, kind, s) /\ kind \in Kinds /\ kind \notin {"confirm", "adopt"}
  BY <1>3, <1>7, <1>8, StartedPlainly DEF Kinds, Maybe, LogoutKinds
<1>10. Fitting({d}, t, y)
  <2>1. d \in CallType /\ CallOK(d) /\ d.answer = "none" /\ d.tab = t /\ d.kind = kind
    BY <1>3, <1>9, StartedCall
  <2> QED BY <2>1, <1>7 DEF Fitting, Suits, LogoutKinds
<1>11. calls' \subseteq NewGeneration(calls, t) \cup {d}
  BY <1>2, <1>7, <1>8 DEF RequestLogout
<1>12. AroundTab
  <2>1. NoticesOK(Outdated(notices, t))
    BY <1>1, OutdatedNotices
  <2>2. notices' \in Notified(Outdated(notices, t), t, "logout", s, None)
    BY <1>2 DEF RequestLogout
  <2>3. NoticesOK(notices')
    BY <1>1, <1>3, <2>1, <2>2, NotifiedNotices DEF Maybe
  <2> QED BY <2>3, Around DEF RequestLogout, NoticesOK
<1> HIDE DEF y
<1> QED BY <1>5, <1>6, <1>10, <1>11, <1>12, GenerationStep

LEMMA LoadStep ==
    ASSUME BrowserInv, NEW t \in open, Load(t)
    PROVE  BrowserInv'
<1>1. tab[t] \in TabType /\ TabOK(tab[t]) /\ NoticesOK(notices)
  BY TabHere
<1>2. PICK s : s = tab[t].session
  OBVIOUS
<1>3. s \in Maybe(Sessions) /\ SpentIfAny(s) /\ ~ tab[t].logoutUncertain
  BY <1>1, <1>2 DEF TabType, TabOK, Load, Rendered
<1>4. PICK d : d = Call(t, "data", s, jar)
  OBVIOUS
<1>5. Started(d, t, "data", s)
  BY <1>3, <1>4, StartedPlainly DEF Kinds, Maybe
<1>6. Fitting({d}, t, tab[t])
  <2>1. d \in CallType /\ CallOK(d) /\ d.answer = "none" /\ d.tab = t /\ d.kind = "data"
    BY <1>3, <1>5, StartedCall DEF Kinds
  <2> QED BY <2>1, <1>3 DEF Fitting, Suits
<1>7. AroundTab
  BY <1>1, Around DEF Load, NoticesOK
<1>8. tab' = [tab EXCEPT ![t] = tab[t]] /\ calls' \subseteq calls \cup {d}
  BY <1>2, <1>4 DEF Load, BrowserInv, TypeOK
<1>9. PICK x : x = tab[t]
  OBVIOUS
<1> QED BY <1>1, <1>6, <1>7, <1>8, <1>9, PlainStep

LEMMA ReloadStep ==
    ASSUME BrowserInv, NEW t \in open, Reload(t)
    PROVE  BrowserInv'
<1> DEFINE y == [Blank EXCEPT !.candidate = tab[t].candidate,
                              !.drafts = [tab[t].drafts EXCEPT !.active = FALSE]]
<1>1. tab[t] \in TabType /\ TabOK(tab[t]) /\ NoticesOK(notices)
  BY TabHere
<1>2. PICK dr, ca : dr = [tab[t].drafts EXCEPT !.active = FALSE] /\ ca = tab[t].candidate
  OBVIOUS
<1>3. /\ dr \in [owner : Maybe([user : Users, place : Places]), active : BOOLEAN]
      /\ dr.owner = tab[t].drafts.owner
      /\ ca \in Maybe(Users)
  BY <1>1, <1>2 DEF TabType
<1>4. y = [Blank EXCEPT !.candidate = ca, !.drafts = dr]
  BY <1>2
<1>5. y \in TabType
  BY <1>3, <1>4 DEF Blank, TabType, Maybe
<1>6. /\ y.session = None /\ y.pendingLogout = None /\ y.logoutUncertain = FALSE
      /\ y.candidate = ca /\ y.drafts = dr
  BY <1>4 DEF Blank
<1>7. tab' = [tab EXCEPT ![t] = y]
  BY DEF Reload
<1> HIDE DEF y
<1>8. TabOK(y)
  BY <1>1, <1>2, <1>3, <1>6 DEF TabOK, SpentIfAny, ClosedIfUncertain, DraftsFit
<1>9. PICK f : f = [c \in calls |-> IF c.tab = t THEN Abandoned(c) ELSE c]
  OBVIOUS
<1>10. Moved(f, t, y)
  <2>1. ASSUME NEW c \in calls, c.tab = t
        PROVE  Suits(f[c], y)
    <3>1. f[c].fresh = FALSE /\ f[c].here = FALSE
      BY <1>9, <2>1 DEF BrowserInv, TypeOK, CallType, Abandoned
    <3> QED BY <3>1 DEF Suits
  <2> QED BY <1>9, <2>1 DEF Moved, Trimmed
<1>11. \A d \in calls' : d \in {} \/ \E c \in calls : d = f[c]
  BY <1>9 DEF Reload
<1>12. AroundTab
  BY <1>1, Around DEF Reload, NoticesOK
<1> QED BY <1>5, <1>7, <1>8, <1>10, <1>11, <1>12, NoNewCall, TabStep

-----------------------------------------------------------------------------
(* Answers                                                                  *)

LEMMA CallHere ==
    ASSUME BrowserInv, NEW c \in calls
    PROVE  /\ c \in CallType /\ CallOK(c) /\ Suits(c, tab[c.tab])
           /\ c.tab \in open /\ tab[c.tab] \in TabType /\ TabOK(tab[c.tab])
           /\ NoticesOK(notices) /\ open \subseteq Tabs
BY DEF BrowserInv, TypeOK, CallOK, NoticesOK

LEMMA SettledTab ==
    ASSUME NEW x \in TabType
    PROVE  /\ Settle(x) \in TabType
           /\ Settle(x).session = x.session
           /\ Settle(x).logoutUncertain = x.logoutUncertain
           /\ Settle(x).candidate = x.candidate
           /\ Settle(x).drafts = x.drafts
           /\ Settle(x).shown \in {x.shown, None}
           /\ TabOK(x) => TabOK(Settle(x))
<1>1. /\ Settle(x) \in TabType
      /\ Settle(x).session = x.session
      /\ Settle(x).pendingLogout = x.pendingLogout
      /\ Settle(x).logoutUncertain = x.logoutUncertain
      /\ Settle(x).candidate = x.candidate
      /\ Settle(x).drafts = x.drafts
      /\ Settle(x).shown \in {x.shown, None}
  BY DEF Settle, TabType, Maybe
<1>2. TabOK(x) => TabOK(Settle(x))
  BY <1>1 DEF TabOK, ClosedIfUncertain, DraftsFit
<1> QED BY <1>1, <1>2

LEMMA ForgetStep ==
    ASSUME BrowserInv, NEW c \in calls, Forget(c), UNCHANGED <<status, jar, open, announced>>
    PROVE  BrowserInv'
<1> DEFINE y == [tab[c.tab] EXCEPT !.bootstrap = @ /\ c.via \notin {"bootstrap", "resume"}]
<1>1. c.tab \in open /\ tab[c.tab] \in TabType /\ TabOK(tab[c.tab]) /\ NoticesOK(notices)
  BY CallHere
<1>2. (tab[c.tab].bootstrap /\ c.via \notin {"bootstrap", "resume"}) \in BOOLEAN
  OBVIOUS
<1>3. /\ y \in TabType /\ TabOK(y)
      /\ y.logoutUncertain = tab[c.tab].logoutUncertain /\ y.candidate = tab[c.tab].candidate
  BY <1>1, <1>2 DEF TabType, TabOK, ClosedIfUncertain, DraftsFit
<1>4. tab' = [tab EXCEPT ![c.tab] = y] /\ calls' \subseteq calls \cup {}
  BY DEF Forget
<1>5. AroundTab
  BY <1>1, Around DEF Forget, NoticesOK
<1> HIDE DEF y
<1> QED BY <1>1, <1>3, <1>4, <1>5, NoNewCall, PlainStep

\* A tab that becomes a closed one in a new generation.
LEMMA ResetStep ==
    ASSUME BrowserInv, NEW t \in open, NEW x \in TabType, TabOK(x), NEW C \in SUBSET calls,
           Reset(t, x, C), UNCHANGED <<status, jar, open, announced>>
    PROVE  BrowserInv'
<1>1. NoticesOK(notices)
  BY TabHere
<1>2. AroundTab
  BY <1>1, OutdatedNotices, Around DEF Reset, NoticesOK
<1> QED BY <1>2, NoNewCall, GenerationStep DEF Reset

LEMMA ExpireStep ==
    ASSUME BrowserInv, NEW c \in calls, Expire(c), UNCHANGED <<status, jar, open, announced>>
    PROVE  BrowserInv'
<1>1. c.tab \in open /\ tab[c.tab] \in TabType /\ TabOK(tab[c.tab])
  BY CallHere
<1>2. PICK purge \in BOOLEAN : purge = (c.answer = "revoked")
  OBVIOUS
<1>3. Closed(tab[c.tab], purge) \in TabType /\ TabOK(Closed(tab[c.tab], purge))
  BY <1>1, ClosedTab
<1>4. Reset(c.tab, Closed(tab[c.tab], purge), calls \ {c})
  BY <1>2 DEF Expire
<1> QED BY <1>1, <1>3, <1>4, ResetStep

LEMMA GiveUpStep ==
    ASSUME BrowserInv, NEW c \in calls, GiveUp(c), UNCHANGED <<status, jar, open, announced>>
    PROVE  BrowserInv'
<1>1. c.tab \in open /\ tab[c.tab] \in TabType /\ TabOK(tab[c.tab])
  BY CallHere
<1>2. Closed(tab[c.tab], FALSE) \in TabType /\ TabOK(Closed(tab[c.tab], FALSE))
  BY <1>1, ClosedTab
<1> QED BY <1>1, <1>2, ResetStep, ForgetStep DEF GiveUp

\* A tab that may take the identity of another account: its drafts are those of
\* the workspace it remembers, its own session need not be theirs.
Adoptable(x) ==
    /\ SpentIfAny(x.pendingLogout)
    /\ ~ x.logoutUncertain
    /\ x.drafts.owner # None =>
         /\ x.drafts.owner.place = "bar" => x.candidate = x.drafts.owner.user
         /\ x.drafts.owner.place = "personal" => x.candidate = None

\* The tab that displays the account of session s, whose drafts it may keep.
LEMMA AdoptTab ==
    ASSUME BrowserInv, NEW t \in open, NEW x \in TabType, Adoptable(x),
           NEW s \in Sessions, Spent(s), NEW c \in CallType, NEW C, Adopt(t, x, s, c, C),
           x.drafts.owner # None => x.drafts.owner.user = Owner[s],
           UNCHANGED <<status, jar, open, announced>>
    PROVE  \E z \in TabType :
             /\ tab' = [tab EXCEPT ![t] = z]
             /\ TabOK(z) /\ ~ z.logoutUncertain /\ z.candidate = x.candidate
             /\ z.session = s /\ z.drafts = x.drafts
             /\ AroundTab
<1>1. PICK y \in {x, [x EXCEPT !.shown = None]}, b \in BOOLEAN :
        tab' = [tab EXCEPT ![t] = Settle([y EXCEPT !.session = s, !.lastConfirmed = s, !.bootstrap = b])]
  <2>1. \A y \in {x, [x EXCEPT !.shown = None]} :
          (IF c.via = "confirm" THEN y.bootstrap ELSE FALSE) \in BOOLEAN
    BY DEF TabType
  <2> QED BY <2>1 DEF Adopt
<1>2. /\ y \in TabType /\ y.logoutUncertain = FALSE /\ y.candidate = x.candidate
      /\ y.drafts = x.drafts /\ y.pendingLogout = x.pendingLogout
  BY DEF TabType, Maybe, Adoptable
<1> DEFINE w == [y EXCEPT !.session = s, !.lastConfirmed = s, !.bootstrap = b]
<1>3. /\ w \in TabType /\ w.logoutUncertain = FALSE /\ w.candidate = x.candidate
      /\ w.drafts = x.drafts /\ w.pendingLogout = x.pendingLogout /\ w.session = s
  BY <1>2 DEF TabType, Maybe
<1>4. tab' = [tab EXCEPT ![t] = Settle(w)]
  BY <1>1
<1> HIDE DEF w
<1>5. TabOK(w)
  BY <1>3 DEF TabOK, SpentIfAny, ClosedIfUncertain, DraftsFit, Adoptable
<1>6. AroundTab
  <2>1. NoticesOK(notices) /\ open \subseteq Tabs /\ c.previous \in Maybe(Sessions)
    BY TabHere DEF CallType
  <2>2. NoticesOK(notices')
    BY <2>1, NotifiedNotices DEF Adopt, Maybe
  <2> QED BY <2>2, Around DEF NoticesOK
<1> QED BY <1>3, <1>4, <1>5, <1>6, SettledTab

\* Installing a place makes its drafts those of the account confirmed.
LEMMA InstalledTab ==
    ASSUME NEW x \in TabType, NEW s \in Sessions, NEW place \in Places,
           SpentIfAny(x.pendingLogout), ~ x.logoutUncertain
    PROVE  /\ Installed(x, s, place) \in TabType
           /\ Adoptable(Installed(x, s, place))
           /\ Installed(x, s, place).candidate = IF place = "bar" THEN Owner[s] ELSE None
           /\ Installed(x, s, place).drafts.owner = [user |-> Owner[s], place |-> place]
<1> DEFINE y == Installed(x, s, place)
<1>1. Owner[s] \in Users
  BY BrowserAssumption
<1>2. /\ y \in TabType
      /\ y.pendingLogout = x.pendingLogout
      /\ y.logoutUncertain = x.logoutUncertain
      /\ y.candidate = IF place = "bar" THEN Owner[s] ELSE None
      /\ y.drafts.owner = [user |-> Owner[s], place |-> place]
  BY <1>1 DEF Installed, TabType, Maybe, Places
<1> HIDE DEF y
<1>3. Adoptable(y)
  BY <1>2 DEF Adoptable
<1> QED BY <1>2, <1>3 DEF y

\* The identity of a session the browser holds is confirmed: Personal at once,
\* or a remembered Bar on demand, in the generation of the tab.
LEMMA ConfirmSessionStep ==
    ASSUME BrowserInv, NEW c \in calls, NEW s \in Sessions, Spent(s),
           ~ tab[c.tab].logoutUncertain, ConfirmSession(c.tab, c, s),
           UNCHANGED <<status, jar, open, announced>>
    PROVE  BrowserInv'
<1> DEFINE t == c.tab
           rest == NewPlaceGeneration(calls \ {c}, t)
           bare == [tab[t] EXCEPT !.place = None]
<1>1. /\ c \in CallType /\ t \in open /\ tab[t] \in TabType /\ TabOK(tab[t])
      /\ NoticesOK(notices)
  BY CallHere
<1>2. /\ bare \in TabType /\ TabOK(bare) /\ bare.logoutUncertain = FALSE
      /\ bare.candidate = tab[t].candidate /\ SpentIfAny(bare.pendingLogout)
  BY <1>1 DEF TabType, TabOK, ClosedIfUncertain, DraftsFit, Maybe
<1>5. PICK C \in SUBSET calls : C = calls \ {c}
  OBVIOUS
<1>3. CASE tab[t].candidate # Owner[s]
  <2> DEFINE x == Installed(bare, s, "personal")
  <2>1. /\ x \in TabType /\ Adoptable(x)
        /\ x.drafts.owner = [user |-> Owner[s], place |-> "personal"]
    BY <1>2, InstalledTab DEF Places
  <2>2. Adopt(t, x, s, c, rest)
    BY <1>3 DEF ConfirmSession
  <2> HIDE DEF x, bare
  <2>3. PICK z \in TabType : /\ tab' = [tab EXCEPT ![t] = z]
                             /\ TabOK(z) /\ ~ z.logoutUncertain /\ AroundTab
    BY <1>1, <2>1, <2>2, AdoptTab
  <2>4. calls' \subseteq NewPlaceGeneration(C, t) \cup {}
    BY <2>2, <1>5 DEF Adopt
  <2> QED BY <1>1, <2>3, <2>4, NoNewCall, PlaceStep
<1>4. CASE tab[t].candidate = Owner[s]
  <2>1. /\ Settle(bare) \in TabType /\ TabOK(Settle(bare))
        /\ Settle(bare).logoutUncertain = FALSE /\ Settle(bare).candidate = Owner[s]
    BY <1>2, <1>4, SettledTab
  <2>2. PICK d : d = [Call(t, "adopt", s, jar) EXCEPT !.via = c.kind, !.previous = c.previous]
    OBVIOUS
  <2>3. c.kind \in Kinds /\ c.previous \in Maybe(Sessions) /\ s \in Maybe(Sessions)
    BY <1>1 DEF CallType, Maybe
  <2>4. Started(d, t, "adopt", s)
    BY <1>1, <2>2, <2>3, StartedPlainly DEF Kinds
  <2>5. /\ d \in CallType /\ CallOK(d) /\ d.answer = "none" /\ d.tab = t /\ d.kind = "adopt"
        /\ d.about = s
    BY <1>1, <2>3, <2>4, StartedCall, BrowserAssumption DEF Kinds, SpentIfAny
  <2>6. /\ tab' = [tab EXCEPT ![t] = Settle(bare)]
        /\ calls' \subseteq NewPlaceGeneration(C, t) \cup {d}
        /\ notices' = notices
    BY <1>4, <1>5, <2>2 DEF ConfirmSession
  <2> HIDE DEF bare
  <2>7. Fitting({d}, t, Settle(bare))
    BY <2>1, <2>5 DEF Fitting, Suits
  <2>8. AroundTab
    BY <1>1, <2>6, Around DEF NoticesOK
  <2> QED BY <1>1, <2>1, <2>6, <2>7, <2>8, PlaceStep
<1> QED BY <1>3, <1>4

LEMMA ReceiveLoginStep ==
    ASSUME BrowserInv, NEW c \in calls, ReceiveLogin(c)
    PROVE  BrowserInv'
<1>1. /\ c \in CallType /\ CallOK(c) /\ Suits(c, tab[c.tab])
      /\ c.tab \in open /\ tab[c.tab] \in TabType /\ TabOK(tab[c.tab]) /\ NoticesOK(notices)
  BY CallHere
<1>2. AroundTab
  BY <1>1, Around DEF ReceiveLogin, NoticesOK
<1>3. tab' = [tab EXCEPT ![c.tab] = tab[c.tab]]
  BY DEF ReceiveLogin, BrowserInv, TypeOK
<1>4. CASE c.fresh /\ c.answer = "ok"
  <2>1. PICK s \in Sessions : s = c.about /\ Spent(s)
    BY <1>1, <1>4 DEF ReceiveLogin, CallOK, Fields, SpentIfAny, CallType, Maybe
  <2>2. PICK d : d = [Call(c.tab, "confirm", c.about, jar) EXCEPT !.previous = c.previous]
    OBVIOUS
  <2>3. c.previous \in Maybe(Sessions) /\ s \in Maybe(Sessions)
    BY <1>1 DEF CallType, Maybe
  <2>4. Started(d, c.tab, "confirm", s)
    BY <1>1, <2>1, <2>2, <2>3, StartedPlainly DEF Kinds
  <2>5. d \in CallType /\ CallOK(d) /\ d.answer = "none" /\ d.tab = c.tab /\ d.kind = "confirm"
    BY <1>1, <2>1, <2>3, <2>4, StartedCall, BrowserAssumption DEF Kinds, SpentIfAny
  <2>6. ~ tab[c.tab].logoutUncertain
    BY <1>1, <1>4 DEF Suits, ReceiveLogin, LogoutKinds
  <2>7. Fitting({d}, c.tab, tab[c.tab])
    BY <2>5, <2>6 DEF Fitting, Suits
  <2>8. calls' \subseteq calls \cup {d}
    BY <2>2 DEF ReceiveLogin
  <2> QED BY <1>1, <1>2, <1>3, <2>7, <2>8, PlainStep
<1>5. CASE ~ (c.fresh /\ c.answer = "ok")
  <2>1. calls' \subseteq calls \cup {}
    BY <1>5 DEF ReceiveLogin
  <2> QED BY <1>1, <1>2, <1>3, <2>1, NoNewCall, PlainStep
<1> QED BY <1>4, <1>5

\* A call a tab still trusts, and that is no logout, finds it open.
LEMMA TrustedTabIsOpen ==
    ASSUME BrowserInv, NEW c \in calls, c.fresh, c.kind \notin LogoutKinds
    PROVE  ~ tab[c.tab].logoutUncertain
BY CallHere DEF Suits

LEMMA ReceiveConfirmStep ==
    ASSUME BrowserInv, NEW c \in calls, ReceiveConfirm(c)
    PROVE  BrowserInv'
<1>1. UNCHANGED <<status, jar, open, announced>> /\ c.kind = "confirm" /\ c.answer # "issued"
  BY DEF ReceiveConfirm, Answered
<1>2. CASE Expire(c) \/ Forget(c)
  BY <1>1, <1>2, ExpireStep, ForgetStep
<1>3. CASE c.fresh /\ ConfirmSession(c.tab, c, c.about)
  <2>1. PICK s \in Sessions : s = c.about /\ Spent(s)
    BY <1>1, CallHere DEF CallOK, Fields, SpentIfAny, CallType, Maybe
  <2>2. ~ tab[c.tab].logoutUncertain
    BY <1>1, <1>3, TrustedTabIsOpen DEF LogoutKinds
  <2> QED BY <1>1, <1>3, <2>1, <2>2, ConfirmSessionStep
<1> QED BY <1>2, <1>3 DEF ReceiveConfirm

\* Giving up the drafts keeps a tab in order.
LEMMA WithoutDrafts ==
    ASSUME NEW x \in TabType, TabOK(x)
    PROVE  [x EXCEPT !.drafts = NoDrafts] \in TabType /\ TabOK([x EXCEPT !.drafts = NoDrafts])
BY DEF TabType, NoDrafts, Maybe, TabOK, ClosedIfUncertain, DraftsFit

LEMMA ReceiveBootstrapStep ==
    ASSUME BrowserInv, NEW c \in calls, ReceiveBootstrap(c)
    PROVE  BrowserInv'
<1>1. /\ UNCHANGED <<status, jar, open, announced>>
      /\ c.kind \in {"bootstrap", "resume"} /\ c.answer # "issued"
  BY DEF ReceiveBootstrap, Answered
<1>2. CASE Expire(c) \/ GiveUp(c)
  BY <1>1, <1>2, ExpireStep, GiveUpStep
<1>3. ASSUME NEW x, x \in {tab[c.tab], [tab[c.tab] EXCEPT !.drafts = NoDrafts]},
             Reset(c.tab, Closed(x, FALSE), calls \ {c})
      PROVE  BrowserInv'
  <2>1. c.tab \in open /\ x \in TabType /\ TabOK(x)
    BY <1>3, CallHere, WithoutDrafts
  <2>2. Closed(x, FALSE) \in TabType /\ TabOK(Closed(x, FALSE))
    BY <2>1, ClosedTab
  <2> QED BY <1>1, <1>3, <2>1, <2>2, ResetStep
<1>4. CASE c.fresh /\ c.answer = "ok" /\ ConfirmSession(c.tab, c, c.cookie)
  <2>1. PICK s \in Sessions : s = c.cookie /\ Spent(s)
    BY <1>1, <1>4, CallHere DEF CallOK, Fields, SpentIfAny, CallType, Maybe
  <2>2. ~ tab[c.tab].logoutUncertain
    BY <1>1, <1>4, TrustedTabIsOpen DEF LogoutKinds
  <2> QED BY <1>1, <1>4, <2>1, <2>2, ConfirmSessionStep
<1> QED BY <1>2, <1>3, <1>4 DEF ReceiveBootstrap

LEMMA ReceiveAdoptStep ==
    ASSUME BrowserInv, NEW c \in calls, ReceiveAdopt(c)
    PROVE  BrowserInv'
<1> DEFINE t == c.tab
           x == tab[t]
           unconfirmed == [x EXCEPT !.drafts.active = FALSE]
<1>1. /\ UNCHANGED <<status, jar, open, announced>>
      /\ c.kind = "adopt" /\ c.answer # "issued"
  BY DEF ReceiveAdopt, Answered
<1>2. /\ c \in CallType /\ CallOK(c) /\ Suits(c, x)
      /\ t \in open /\ x \in TabType /\ TabOK(x) /\ NoticesOK(notices)
  BY CallHere
<1>3. /\ unconfirmed \in TabType /\ TabOK(unconfirmed)
      /\ unconfirmed.logoutUncertain = x.logoutUncertain
      /\ unconfirmed.candidate = x.candidate
      /\ unconfirmed.drafts.owner = x.drafts.owner
  <2>1. PICK dr : dr = [x.drafts EXCEPT !.active = FALSE]
    OBVIOUS
  <2>2. dr \in [owner : Maybe([user : Users, place : Places]), active : BOOLEAN]
        /\ dr.owner = x.drafts.owner
    BY <1>2, <2>1 DEF TabType
  <2>3. unconfirmed = [x EXCEPT !.drafts = dr]
    BY <2>1
  <2>4. /\ unconfirmed \in TabType
        /\ unconfirmed.session = x.session /\ unconfirmed.shown = x.shown
        /\ unconfirmed.pendingLogout = x.pendingLogout
        /\ unconfirmed.logoutUncertain = x.logoutUncertain
        /\ unconfirmed.candidate = x.candidate
        /\ unconfirmed.drafts = dr
    BY <1>2, <2>2, <2>3 DEF TabType
  <2> HIDE DEF unconfirmed
  <2> QED BY <1>2, <2>2, <2>4 DEF TabOK, ClosedIfUncertain, DraftsFit
<1>4. PICK s \in Sessions : s = c.about /\ Spent(s)
  BY <1>1, <1>2 DEF CallOK, Fields, SpentIfAny, CallType, Maybe
<1>5. CASE Expire(c) \/ GiveUp(c)
  BY <1>1, <1>5, ExpireStep, GiveUpStep
<1>6. CASE /\ tab' = [tab EXCEPT ![t] = [unconfirmed EXCEPT !.bootstrap = @ /\ c.via = "confirm"]]
           /\ calls' = calls \ {c} /\ UNCHANGED notices
  <2> DEFINE y == [unconfirmed EXCEPT !.bootstrap = @ /\ c.via = "confirm"]
  <2>0. PICK u : u = unconfirmed
    OBVIOUS
  <2>1. (u.bootstrap /\ c.via = "confirm") \in BOOLEAN
    OBVIOUS
  <2>2. y = [u EXCEPT !.bootstrap = @ /\ c.via = "confirm"]
    BY <2>0
  <2> HIDE DEF unconfirmed
  <2>3. /\ y \in TabType /\ TabOK(y)
        /\ y.logoutUncertain = x.logoutUncertain /\ y.candidate = x.candidate
    BY <1>3, <2>0, <2>1, <2>2 DEF TabType, TabOK, ClosedIfUncertain, DraftsFit
  <2> HIDE DEF y
  <2>4. AroundTab
    BY <1>1, <1>2, <1>6, Around DEF NoticesOK
  <2>5. tab' = [tab EXCEPT ![t] = y] /\ calls' \subseteq calls \cup {}
    BY <1>6 DEF y
  <2> QED BY <1>2, <2>3, <2>4, <2>5, NoNewCall, PlainStep
<1>7. ASSUME c.here, c.fresh, NEW y, y \in {Installed(x, c.about, "bar"), unconfirmed},
             Adopt(t, y, c.about, c, calls \ {c})
      PROVE  BrowserInv'
  <2>1. ~ x.logoutUncertain /\ x.candidate = Owner[s] /\ Owner[s] \in Users
    BY <1>1, <1>2, <1>4, <1>7, BrowserAssumption DEF Suits, LogoutKinds
  <2>2. /\ y \in TabType /\ Adoptable(y) /\ y.candidate = x.candidate
        /\ y.drafts.owner # None => y.drafts.owner.user = Owner[s]
    <3>1. CASE y = Installed(x, s, "bar")
      <4> HIDE DEF unconfirmed
      <4>1. "bar" \in Places
        BY DEF Places
      <4>2. SpentIfAny(x.pendingLogout)
        BY <1>2 DEF TabOK
      <4>3. y \in TabType /\ Adoptable(y) /\ y.candidate = Owner[s]
            /\ y.drafts.owner = [user |-> Owner[s], place |-> "bar"]
        BY <1>2, <2>1, <3>1, <4>1, <4>2, InstalledTab
      <4> QED BY <2>1, <4>3
    <3>2. CASE y = unconfirmed
      <4>1. x.drafts.owner # None => x.drafts.owner.place \in Places
        BY <1>2 DEF TabType, Maybe
      <4> HIDE DEF unconfirmed
      <4> QED BY <1>2, <1>3, <2>1, <3>2, <4>1, BrowserAssumption DEF Adoptable, TabOK, DraftsFit, Places
    <3> QED BY <1>4, <1>7, <3>1, <3>2
  <2>3. PICK z \in TabType : /\ tab' = [tab EXCEPT ![t] = z]
                             /\ TabOK(z) /\ ~ z.logoutUncertain /\ z.candidate = y.candidate
                             /\ AroundTab
    BY <1>1, <1>2, <1>4, <1>7, <2>2, AdoptTab
  <2>4. calls' \subseteq calls \cup {}
    BY <1>7 DEF Adopt
  <2> QED BY <1>2, <2>2, <2>3, <2>4, NoNewCall, PlainStep
<1> QED BY <1>5, <1>6, <1>7 DEF ReceiveAdopt

\* Only the answer of the server to this generation announces the end of a
\* session, and what the answer says is true of the browser by then.
LEMMA ReceiveLogoutStep ==
    ASSUME BrowserInv, NEW c \in calls, ReceiveLogout(c)
    PROVE  BrowserInv'
<1> DEFINE t == c.tab
<1>1. /\ c \in CallType /\ CallOK(c) /\ t \in open /\ tab[t] \in TabType /\ TabOK(tab[t])
      /\ NoticesOK(notices)
  BY CallHere
<1>2. PICK x \in TabType : x = tab[t]
  BY <1>1
<1>0. PICK p, u, g :
        /\ p = (IF Confirms(c) THEN None ELSE x.pendingLogout)
        /\ u = (x.logoutUncertain /\ ~ Confirms(c))
        /\ g = (x.globalLogoutUncertain /\ ~ Confirms(c))
  OBVIOUS
<1> DEFINE y == [x EXCEPT !.logoutPending = FALSE, !.pendingLogout = p,
                          !.logoutUncertain = u, !.globalLogoutUncertain = g]
<1>3. tab' = [tab EXCEPT ![t] = y] /\ calls' \subseteq calls \cup {}
  <2>1. tab' = [tab EXCEPT ![t] =
                  [tab[t] EXCEPT !.logoutPending = FALSE,
                                 !.pendingLogout = IF Confirms(c) THEN None ELSE @,
                                 !.logoutUncertain = @ /\ ~ Confirms(c),
                                 !.globalLogoutUncertain = @ /\ ~ Confirms(c)]]
    BY DEF ReceiveLogout
  <2>2. y = [x EXCEPT !.logoutPending = FALSE,
                      !.pendingLogout = IF Confirms(c) THEN None ELSE @,
                      !.logoutUncertain = @ /\ ~ Confirms(c),
                      !.globalLogoutUncertain = @ /\ ~ Confirms(c)]
    BY <1>0, Zenon
  <2>3. tab' = [tab EXCEPT ![t] = y]
    BY <1>2, <2>1, <2>2, Zenon
  <2> QED BY <2>3 DEF ReceiveLogout
<1>4. /\ y \in TabType
      /\ y.session = tab[t].session /\ y.shown = tab[t].shown
      /\ y.pendingLogout \in {None, tab[t].pendingLogout}
      /\ y.logoutUncertain => tab[t].logoutUncertain
      /\ y.candidate = tab[t].candidate
      /\ y.drafts = tab[t].drafts
  <2>1. u \in BOOLEAN /\ g \in BOOLEAN /\ (u => x.logoutUncertain)
    BY <1>0, Zenon
  <2>2. p \in Maybe(Sessions) /\ p \in {None, x.pendingLogout}
    BY <1>0, TabFields DEF Maybe
  <2> QED BY <1>2, <2>1, <2>2 DEF TabType
<1> HIDE DEF y
<1>5. TabOK(y)
  BY <1>1, <1>4 DEF TabOK, SpentIfAny, ClosedIfUncertain, DraftsFit
<1>6. ASSUME NEW s \in announced'
      PROVE  Spent(s) /\ (jar = s => ~ Live(s))
  <2>1. CASE s \in announced
    BY <2>1 DEF BrowserInv
  <2>2. CASE s = c.about /\ s # None /\ c.answer = "ok" /\ c.kind \in LogoutKinds
    BY <1>1, <2>2 DEF CallOK, SpentIfAny, LogoutTells
  <2> QED BY <2>1, <2>2, <1>6 DEF ReceiveLogout, Confirms, LogoutKinds
<1>7. AroundTab
  BY <1>1, <1>6 DEF AroundTab, NoticesOK, ReceiveLogout
<1> QED BY <1>1, <1>3, <1>4, <1>5, <1>7, NoNewCall, PlainStep

LEMMA ReceiveDataStep ==
    ASSUME BrowserInv, NEW c \in calls, ReceiveData(c)
    PROVE  BrowserInv'
<1>1. UNCHANGED <<status, jar, open, announced>> /\ c.kind = "data"
  BY DEF ReceiveData
<1>2. CASE Expire(c) \/ Forget(c)
  BY <1>1, <1>2, ExpireStep, ForgetStep
<1>3. CASE /\ c.fresh /\ c.answer = "ok"
           /\ tab' = [tab EXCEPT ![c.tab].shown = Owner[c.cookie]]
           /\ calls' = calls \ {c} /\ UNCHANGED notices
  <2> DEFINE y == [tab[c.tab] EXCEPT !.shown = Owner[c.cookie]]
  <2>1. /\ c.tab \in open /\ tab[c.tab] \in TabType /\ TabOK(tab[c.tab]) /\ NoticesOK(notices)
        /\ c.cookie \in Sessions
    BY <1>1, <1>3, CallHere DEF CallOK, Fields, CallType, Maybe
  <2>2. ~ tab[c.tab].logoutUncertain
    BY <1>1, <1>3, TrustedTabIsOpen DEF LogoutKinds
  <2>3. Owner[c.cookie] \in Users
    BY <2>1, BrowserAssumption
  <2>4. /\ y \in TabType /\ TabOK(y)
        /\ y.candidate = tab[c.tab].candidate /\ ~ y.logoutUncertain
    BY <2>1, <2>2, <2>3 DEF TabType, Maybe, TabOK, ClosedIfUncertain, DraftsFit
  <2>5. tab' = [tab EXCEPT ![c.tab] = y] /\ calls' \subseteq calls \cup {}
    BY <1>3
  <2>6. AroundTab
    BY <1>1, <1>3, <2>1, Around DEF NoticesOK
  <2> HIDE DEF y
  <2> QED BY <2>1, <2>4, <2>5, <2>6, NoNewCall, PlainStep
<1> QED BY <1>2, <1>3 DEF ReceiveData

-----------------------------------------------------------------------------
(* Notices                                                                  *)

LEMMA HearNoticeStep ==
    ASSUME BrowserInv, NEW n \in notices, HearNotice(n)
    PROVE  BrowserInv'
<1>1. n \in NoticeType /\ n.to \in open /\ tab[n.to] \in TabType /\ TabOK(tab[n.to])
  BY DEF BrowserInv, TypeOK
<1>2. PICK m : m = [n EXCEPT !.heard = TRUE, !.fresh = TRUE]
  OBVIOUS
<1>3. m \in NoticeType /\ m.to \in open
  BY <1>1, <1>2 DEF NoticeType
<1>4. /\ notices' \subseteq notices \cup {m}
      /\ UNCHANGED <<status, jar, open, announced>>
      /\ tab' = [tab EXCEPT ![n.to] = tab[n.to]] /\ calls' \subseteq calls \cup {}
  BY <1>2 DEF HearNotice, BrowserInv, TypeOK
<1>5. AroundTab
  BY <1>3, <1>4, Around DEF BrowserInv, TypeOK, NoticesOK
<1> QED BY <1>1, <1>4, <1>5, NoNewCall, PlainStep

LEMMA ApplyNoticeStep ==
    ASSUME BrowserInv, NEW n \in notices, ApplyNotice(n)
    PROVE  BrowserInv'
<1>1. /\ n.to \in open /\ tab[n.to] \in TabType /\ TabOK(tab[n.to])
      /\ UNCHANGED <<status, jar, open, announced>> /\ NoticesOK(notices)
  BY DEF BrowserInv, TypeOK, ApplyNotice, NoticesOK
<1>2. CASE n.fresh
  <2>1. PICK x \in {tab[n.to], [tab[n.to] EXCEPT !.drafts = NoDrafts]} :
          tab' = [tab EXCEPT ![n.to] = Closed(x, FALSE)]
    BY <1>2 DEF ApplyNotice
  <2>2. x \in TabType /\ TabOK(x)
    BY <1>1, <2>1, WithoutDrafts
  <2>3. Closed(x, FALSE) \in TabType /\ TabOK(Closed(x, FALSE))
    BY <2>2, ClosedTab
  <2>4. AroundTab
    <3>1. NoticesOK(Outdated(notices \ {n}, n.to))
      BY <1>1, OutdatedNotices DEF NoticesOK
    <3> QED BY <3>1, <1>1, <1>2, Around DEF ApplyNotice, NoticesOK
  <2>5. calls' \subseteq NewGeneration(calls, n.to) \cup {}
    BY <1>2 DEF ApplyNotice
  <2> QED BY <1>1, <2>1, <2>3, <2>4, <2>5, NoNewCall, GenerationStep
<1>3. CASE ~ n.fresh
  <2>1. AroundTab
    BY <1>1, <1>3, Around DEF ApplyNotice, NoticesOK
  <2>2. tab' = [tab EXCEPT ![n.to] = tab[n.to]] /\ calls' \subseteq calls \cup {}
    BY <1>3 DEF ApplyNotice, BrowserInv, TypeOK
  <2> QED BY <1>1, <2>1, <2>2, NoNewCall, PlainStep
<1> QED BY <1>2, <1>3

-----------------------------------------------------------------------------
(* The invariant                                                            *)

LEMMA BrowserStutter ==
    ASSUME BrowserInv, UNCHANGED vars
    PROVE  BrowserInv'
<1>1. \A s : Spent(s)' <=> Spent(s)
  BY DEF vars, Spent, Issuing
<1>2. \A s : Live(s)' <=> Live(s)
  BY DEF vars, Live
<1>3. TypeOK' /\ IssuedOnce'
  BY DEF BrowserInv, vars, TypeOK, IssuedOnce, Issuing
<1>4. \A t \in open' : TabOK(tab[t])'
  BY <1>1 DEF BrowserInv, vars, TabOK, SpentIfAny, ClosedIfUncertain, DraftsFit
<1>5. \A c \in calls' : CallOK(c)' /\ Suits(c, tab[c.tab])'
  <2> SUFFICES ASSUME NEW c \in calls
               PROVE  CallOK(c)' /\ Suits(c, tab[c.tab])'
    BY DEF vars
  <2>1. CallOK(c) /\ Suits(c, tab[c.tab])
    BY DEF BrowserInv
  <2> QED BY <1>1, <1>2, <2>1 DEF vars, CallOK, Fields, LogoutTells, SpentIfAny, Suits, SameOwner
<1> QED BY <1>1, <1>2, <1>3, <1>4, <1>5 DEF BrowserInv, vars, SpentIfAny

LEMMA BrowserSteps == BrowserInv /\ [Next]_vars => BrowserInv'
<1> SUFFICES ASSUME BrowserInv, [Next]_vars
             PROVE  BrowserInv'
  OBVIOUS
<1>1. ASSUME NEW t \in open,
             SignIn(t) \/ Bootstrap(t) \/ Revalidate(t) \/ Load(t) \/ Reload(t)
               \/ \E global \in BOOLEAN : RequestLogout(t, global)
      PROVE  BrowserInv'
  BY <1>1, SignInStep, BootstrapStep, RevalidateStep, LoadStep, ReloadStep, RequestLogoutStep
<1>2. ASSUME NEW c \in calls,
             (\E s \in Sessions : ServeLogin(c, s))
               \/ ServeRead(c) \/ ServeLogout(c) \/ ServeLogoutAll(c) \/ StoreCookie(c) \/ Fail(c)
      PROVE  BrowserInv'
  BY <1>2, ServeLoginStep, ServeReadStep, ServeLogoutStep, StoreCookieStep, FailStep
<1>3. ASSUME NEW c \in calls, DropAnswer(c) \/ LoseRequest(c)
      PROVE  BrowserInv'
  <2>1. calls' \subseteq calls /\ UNCHANGED <<status, jar, open, tab, notices, announced>>
    BY <1>3 DEF DropAnswer, LoseRequest
  <2> QED BY <2>1, DropStep
<1>4. ASSUME NEW c \in calls,
             ReceiveLogin(c) \/ ReceiveConfirm(c) \/ ReceiveBootstrap(c)
               \/ ReceiveAdopt(c) \/ ReceiveLogout(c) \/ ReceiveData(c)
      PROVE  BrowserInv'
  BY <1>4, ReceiveLoginStep, ReceiveConfirmStep, ReceiveBootstrapStep, ReceiveAdoptStep,
     ReceiveLogoutStep, ReceiveDataStep
<1>5. ASSUME NEW n \in notices, HearNotice(n) \/ ApplyNotice(n)
      PROVE  BrowserInv'
  BY <1>5, HearNoticeStep, ApplyNoticeStep
<1>6. ASSUME NEW s \in Sessions, EndElsewhere(s)
      PROVE  BrowserInv'
  BY <1>6, EndElsewhereStep
<1>7. CASE UNCHANGED vars
  BY <1>7, BrowserStutter
<1> QED BY <1>1, <1>2, <1>3, <1>4, <1>5, <1>6, <1>7 DEF Next

(* What tabs, calls under way and the cookie of the browser have to do with   *)
(* each other holds whatever the tabs do to the cookie they share.            *)
THEOREM BrowserInvariant == Spec => []BrowserInv
<1>1. BrowserInv /\ [Next]_vars => BrowserInv'
  BY BrowserSteps
<1> QED BY InitBrowser, <1>1, PTL DEF Spec

(* Tabs, calls, notices and sessions have the types Browser declares.         *)
THEOREM BrowserTypes == Spec => []TypeOK
<1>1. BrowserInv => TypeOK
  BY DEF BrowserInv
<1> QED BY <1>1, BrowserInvariant, PTL

(* AuthService: while a logout is not confirmed the tab shows nothing and has *)
(* no identity; no late answer, notice or document shown again brings one.    *)
THEOREM UncertainLogoutHolds == Spec => []UncertainLogoutStaysClosed
<1>1. BrowserInv => UncertainLogoutStaysClosed
  BY DEF BrowserInv, TabOK, ClosedIfUncertain, UncertainLogoutStaysClosed
<1> QED BY <1>1, BrowserInvariant, PTL

(* A session whose end was announced is dead, or out of the jar for good:     *)
(* even when the server answered for another cookie than the one to revoke.   *)
THEOREM AnnouncementsHold == Spec => []AnnouncedLogoutHolds
<1>1. BrowserInv => AnnouncedLogoutHolds
  BY DEF BrowserInv, AnnouncedLogoutHolds
<1> QED BY <1>1, BrowserInvariant, PTL

-----------------------------------------------------------------------------
(* What a step may never do                                                 *)

\* A call whose generation is raised is not consumed.
LEMMA KeptCalls ==
    ASSUME NEW C, NEW c \in C, NEW t,
           \/ C \subseteq calls'
           \/ NewGeneration(C, t) \subseteq calls'
           \/ NewPlaceGeneration(C, t) \subseteq calls'
    PROVE  ~ Consumed(c)
BY DEF Consumed, NewGeneration, NewPlaceGeneration

LEMMA AnswerKeeps ==
    ASSUME NEW c, NEW a, Answer(c, a), NEW d \in calls \ {c}
    PROVE  ~ Consumed(d)
BY DEF Answer, Consumed

\* Tabs never touch the rows of the server.
LEMMA OnlyServerEnds ==
    ASSUME [Next]_vars
    PROVE  \/ \E c \in calls : \/ \E s \in Sessions : ServeLogin(c, s)
                             \/ ServeLogout(c)
                             \/ ServeLogoutAll(c)
           \/ \E s \in Sessions : EndElsewhere(s)
           \/ UNCHANGED status
BY DEF Next, vars, SignIn, Bootstrap, Revalidate, Load, Reload, RequestLogout, ServeRead, StoreCookie,
   DropAnswer, Fail, LoseRequest, ReceiveLogin, ReceiveConfirm, ReceiveBootstrap, ReceiveAdopt,
   ReceiveLogout, ReceiveData, HearNotice, ApplyNotice

\* One logout revokes the session it is about, a global one sessions of its
\* account: never those of the cookie another tab has put in the jar.
LEMMA SparesStep ==
    ASSUME BrowserInv, [Next]_vars, NEW c \in calls, Consumed(c), NEW s \in Sessions,
           c.answer = "none", status[s] # "revoked", status'[s] = "revoked"
    PROVE  /\ c.kind = "logout" => s = c.about
           /\ c.kind = "logoutAll" => Owner[s] = Owner[c.about]
<1>1. status \in [Sessions -> {"unborn", "live", "revoked", "expired"}]
  BY DEF BrowserInv, TypeOK
<1>2. ASSUME NEW d \in calls, NEW r \in Sessions, ServeLogin(d, r)
      PROVE  c.kind = "login"
  <2>1. d # c => c \in calls'
    BY <1>2 DEF ServeLogin
  <2> QED BY <1>2, <2>1 DEF Consumed, ServeLogin
<1>3. ASSUME NEW d \in calls, ServeLogout(d)
      PROVE  c.kind = "logout" /\ s = c.about
  <2>1. PICK a : Answer(d, a)
    BY <1>3 DEF ServeLogout
  <2>2. d = c
    BY <2>1, AnswerKeeps
  <2>3. ContextFailure(c) = {} /\ status' = [status EXCEPT ![c.cookie] = "revoked"]
    BY <1>3, <2>2 DEF ServeLogout
  <2>4. s = c.cookie
    BY <1>1, <2>3
  <2> QED BY <1>3, <2>2, <2>3, <2>4 DEF ServeLogout, ContextFailure
<1>4. ASSUME NEW d \in calls, ServeLogoutAll(d)
      PROVE  c.kind = "logoutAll" /\ Owner[s] = Owner[c.about]
  <2>1. PICK a : Answer(d, a)
    BY <1>4 DEF ServeLogoutAll
  <2>2. d = c
    BY <2>1, AnswerKeeps
  <2>3. ContextFailure(c) = {} /\ Owner[s] = Owner[c.cookie]
    BY <1>4, <2>2 DEF ServeLogoutAll
  <2> QED BY <1>4, <2>2, <2>3 DEF ServeLogoutAll, ContextFailure, SameOwner
<1>5. ASSUME NEW r \in Sessions, EndElsewhere(r)
      PROVE  FALSE
  BY <1>5 DEF EndElsewhere, Consumed
<1>6. CASE UNCHANGED status
  BY <1>6
<1> QED BY <1>2, <1>3, <1>4, <1>5, <1>6, OnlyServerEnds

(* WebSessionService: whatever cookie another tab has put in the jar, a       *)
(* logout closes the session it was asked for, a global one those of the same *)
(* account.                                                                   *)
THEOREM LogoutsSpareOthers == Spec => LogoutSparesOthers
<1> DEFINE Spares ==
        \A c \in {c \in calls : Consumed(c)} :
           \A s \in Sessions :
              c.answer = "none" /\ status[s] # "revoked" /\ status'[s] = "revoked" =>
                /\ c.kind = "logout" => s = c.about
                /\ c.kind = "logoutAll" => Owner[s] = Owner[c.about]
<1>1. BrowserInv /\ [Next]_vars => [Spares]_vars
  BY SparesStep
<1> QED BY BrowserInvariant, <1>1, PTL DEF Spec, LogoutSparesOthers, Consumed

\* What a late answer may not touch in a tab.
Same(y, x) == y.session = x.session /\ y.shown = x.shown /\ y.drafts.owner = x.drafts.owner

LEMMA SameTab ==
    ASSUME BrowserInv, NEW t \in open, NEW y, tab' = [tab EXCEPT ![t] = y], NEW u \in open,
           u = t => Same(y, tab[t])
    PROVE  Same(tab'[u], tab[u])
BY DEF BrowserInv, TypeOK, Same

\* The end of a wait that the tab no longer trusts.
LEMMA ForgetSame ==
    ASSUME BrowserInv, NEW c \in calls, Forget(c)
    PROVE  Same(tab'[c.tab], tab[c.tab])
<1>1. c.tab \in open /\ tab[c.tab] \in TabType
  BY CallHere
<1>2. PICK y : y = [tab[c.tab] EXCEPT !.bootstrap = @ /\ c.via \notin {"bootstrap", "resume"}]
  OBVIOUS
<1>3. tab' = [tab EXCEPT ![c.tab] = y]
  BY <1>2 DEF Forget
<1>4. Same(y, tab[c.tab])
  BY <1>1, <1>2 DEF TabType, Same
<1> QED BY <1>1, <1>3, <1>4, SameTab

\* Confirming an identity leaves the other calls under way.
LEMMA ConfirmSessionKeeps ==
    ASSUME NEW d, NEW s, ConfirmSession(d.tab, d, s), NEW c \in calls \ {d}
    PROVE  ~ Consumed(c)
<1>1. NewPlaceGeneration(calls \ {d}, d.tab) \subseteq calls'
  BY DEF ConfirmSession, Adopt
<1> QED BY <1>1, KeptCalls

\* The answer of one call leaves the other ones under way.
LEMMA ReceiveKeeps ==
    ASSUME NEW d \in calls, NEW c \in calls \ {d},
           \/ ReceiveLogin(d) \/ ReceiveConfirm(d) \/ ReceiveBootstrap(d)
           \/ ReceiveAdopt(d) \/ ReceiveLogout(d) \/ ReceiveData(d)
    PROVE  ~ Consumed(c)
<1>1. CASE \E s : ConfirmSession(d.tab, d, s)
  BY <1>1, ConfirmSessionKeeps
<1>2. CASE \/ calls \ {d} \subseteq calls'
           \/ NewGeneration(calls \ {d}, d.tab) \subseteq calls'
  BY <1>2, KeptCalls
<1> QED BY <1>1, <1>2 DEF ReceiveLogin, ReceiveConfirm, ReceiveBootstrap, ReceiveAdopt, ReceiveLogout,
           ReceiveData, Expire, Forget, GiveUp, Reset, Adopt

\* The late answer itself only ends a wait.
LEMMA LateReceive ==
    ASSUME BrowserInv, NEW c \in calls, ~ c.fresh,
           \/ ReceiveLogin(c) \/ ReceiveConfirm(c) \/ ReceiveBootstrap(c)
           \/ ReceiveAdopt(c) \/ ReceiveLogout(c) \/ ReceiveData(c)
    PROVE  Same(tab'[c.tab], tab[c.tab])
<1>1. c.tab \in open /\ tab[c.tab] \in TabType
  BY CallHere
<1>2. CASE Forget(c)
  BY <1>2, ForgetSame
<1>3. CASE ReceiveLogin(c)
  BY <1>3 DEF ReceiveLogin, Same
<1>4. CASE ReceiveAdopt(c) /\ ~ Forget(c)
  <2>1. PICK u : u = [tab[c.tab] EXCEPT !.drafts.active = FALSE]
    OBVIOUS
  <2>2. PICK y : y = [u EXCEPT !.bootstrap = @ /\ c.via = "confirm"]
    OBVIOUS
  <2>3. tab' = [tab EXCEPT ![c.tab] = y]
    BY <1>4, <2>1, <2>2 DEF ReceiveAdopt, Expires, GiveUp
  <2>4. /\ u.session = tab[c.tab].session /\ u.shown = tab[c.tab].shown
        /\ u.drafts.owner = tab[c.tab].drafts.owner
        /\ DOMAIN u = DOMAIN tab[c.tab]
    BY <1>1, <2>1 DEF TabType
  <2>5. Same(y, tab[c.tab])
    BY <1>1, <2>2, <2>4 DEF TabType, Same
  <2> QED BY <1>1, <2>3, <2>5, SameTab
<1>5. CASE ReceiveLogout(c)
  <2>1. PICK y : y = [tab[c.tab] EXCEPT !.logoutPending = FALSE,
                         !.pendingLogout = IF Confirms(c) THEN None ELSE @,
                         !.logoutUncertain = @ /\ ~ Confirms(c),
                         !.globalLogoutUncertain = @ /\ ~ Confirms(c)]
    OBVIOUS
  <2>2. tab' = [tab EXCEPT ![c.tab] = y]
    BY <1>5, <2>1, Zenon DEF ReceiveLogout
  <2>3. Same(y, tab[c.tab])
    BY <1>1, <2>1 DEF TabType, Same
  <2> QED BY <1>1, <2>2, <2>3, SameTab
<1>6. CASE ReceiveConfirm(c) \/ ReceiveBootstrap(c) \/ ReceiveData(c)
  <2>1. Forget(c)
    BY <1>6 DEF ReceiveConfirm, ReceiveBootstrap, ReceiveData, Expires, GiveUp
  <2> QED BY <2>1, ForgetSame
<1> QED BY <1>2, <1>3, <1>4, <1>5, <1>6

\* A document shown again forgets the check of its session that was under way.
LEMMA LateRevalidate ==
    ASSUME BrowserInv, NEW t \in open, Revalidate(t), NEW c \in calls, ~ c.fresh, Consumed(c)
    PROVE  Same(tab'[c.tab], tab[c.tab])
<1> DEFINE kept == {d \in calls : d.tab # t \/ d.via # "resume"}
<1>1. c \in CallType /\ c.tab \in open /\ tab[t] \in TabType /\ TabOK(tab[t])
  BY CallHere, TabHere
<1>2. CASE c \in kept /\ tab[t].logoutUncertain
  <2>1. NewGeneration(kept, t) \subseteq calls'
    BY <1>2 DEF Revalidate, Reset
  <2> HIDE DEF kept
  <2> QED BY <1>2, <2>1, KeptCalls
<1>3. CASE c \in kept /\ ~ tab[t].logoutUncertain
  <2>1. NewAuthGeneration(kept, t) \subseteq calls'
    BY <1>3 DEF Revalidate
  <2>2. [c EXCEPT !.fresh = FALSE] = c
    BY <1>1 DEF CallType
  <2>3. c \in NewAuthGeneration(kept, t)
    BY <1>3, <2>2 DEF NewAuthGeneration
  <2> QED BY <2>1, <2>3 DEF Consumed
<1>4. CASE c \notin kept
  <2>1. c.tab = t
    BY <1>4
  <2>2. CASE tab[t].logoutUncertain
    <3>1. tab' = [tab EXCEPT ![t] = Closed(tab[t], FALSE)]
      BY <2>2 DEF Revalidate, Reset
    <3>2. Same(Closed(tab[t], FALSE), tab[t])
      BY <1>1, <2>2, ClosedTab DEF Same, TabOK, ClosedIfUncertain
    <3> QED BY <1>1, <2>1, <3>1, <3>2, SameTab
  <2>3. CASE ~ tab[t].logoutUncertain
    <3>1. PICK y : y = [tab[t] EXCEPT !.bootstrap = TRUE] /\ tab' = [tab EXCEPT ![t] = y]
      BY <2>3 DEF Revalidate
    <3>2. Same(y, tab[t])
      BY <1>1, <3>1 DEF TabType, Same
    <3> QED BY <1>1, <2>1, <3>1, <3>2, SameTab
  <2> QED BY <2>2, <2>3
<1> QED BY <1>2, <1>3, <1>4

LEMMA LateStep ==
    ASSUME BrowserInv, [Next]_vars, NEW c \in calls, Consumed(c),
           c.awaited, ~ c.fresh, c.answer # "none", ~ Reload(c.tab)
    PROVE  Same(tab'[c.tab], tab[c.tab])
<1>1. ASSUME NEW t \in open, SignIn(t) \/ Bootstrap(t) \/ Load(t)
                               \/ \E global \in BOOLEAN : RequestLogout(t, global)
      PROVE  FALSE
  <2>1. calls \subseteq calls' \/ NewGeneration(calls, t) \subseteq calls'
    BY <1>1 DEF SignIn, Bootstrap, Load, RequestLogout
  <2> QED BY <2>1, KeptCalls
<1>2. ASSUME NEW t \in open, Revalidate(t)
      PROVE  Same(tab'[c.tab], tab[c.tab])
  BY <1>2, LateRevalidate
<1>3. ASSUME NEW t \in open, Reload(t)
      PROVE  FALSE
  <2>1. c.tab # t
    BY <1>3
  <2>2. c \in calls'
    BY <1>3, <2>1 DEF Reload
  <2> QED BY <2>2 DEF Consumed
<1>4. ASSUME NEW d \in calls,
             \/ ReceiveLogin(d) \/ ReceiveConfirm(d) \/ ReceiveBootstrap(d)
             \/ ReceiveAdopt(d) \/ ReceiveLogout(d) \/ ReceiveData(d)
      PROVE  Same(tab'[c.tab], tab[c.tab])
  <2>1. d = c
    BY <1>4, ReceiveKeeps
  <2> QED BY <1>4, <2>1, LateReceive
<1>5. ASSUME NEW n \in notices, HearNotice(n) \/ ApplyNotice(n)
      PROVE  FALSE
  <2>1. calls \subseteq calls' \/ NewGeneration(calls, n.to) \subseteq calls'
    BY <1>5 DEF HearNotice, ApplyNotice
  <2> QED BY <2>1, KeptCalls
<1>6. CASE tab' = tab
  BY <1>6 DEF Same
<1>7. \/ \E t \in open : SignIn(t) \/ Bootstrap(t) \/ Revalidate(t) \/ Load(t) \/ Reload(t)
                          \/ \E global \in BOOLEAN : RequestLogout(t, global)
      \/ \E d \in calls : \/ ReceiveLogin(d) \/ ReceiveConfirm(d) \/ ReceiveBootstrap(d)
                          \/ ReceiveAdopt(d) \/ ReceiveLogout(d) \/ ReceiveData(d)
      \/ \E n \in notices : HearNotice(n) \/ ApplyNotice(n)
      \/ tab' = tab
  BY DEF Next, vars, ServeLogin, ServeRead, ServeLogout, ServeLogoutAll, StoreCookie, DropAnswer,
     Fail, LoseRequest, EndElsewhere
<1> QED BY <1>1, <1>2, <1>3, <1>4, <1>5, <1>6, <1>7

(* authInterceptor and the generations of AuthService: an answer to an        *)
(* earlier generation of a tab neither opens nor closes an identity, shows    *)
(* nothing and gives up no drafts.                                            *)
THEOREM LateAnswersDoNothing == Spec => LateAnswersAreHarmless
<1> DEFINE Harmless ==
        \A c \in {c \in calls : Consumed(c)} :
           c.awaited /\ ~ c.fresh /\ c.answer # "none" /\ ~ Reload(c.tab) =>
             /\ tab'[c.tab].session = tab[c.tab].session
             /\ tab'[c.tab].shown = tab[c.tab].shown
             /\ tab'[c.tab].drafts.owner = tab[c.tab].drafts.owner
<1>1. BrowserInv /\ [Next]_vars => [Harmless]_vars
  BY LateStep DEF Same
<1> QED BY BrowserInvariant, <1>1, PTL DEF Spec, LateAnswersAreHarmless, Consumed, Reload

-----------------------------------------------------------------------------
(* Drafts are given up by decisions only                                    *)

\* The reasons for which tab t may give up the drafts of owner lost.
Decided(t, lost) ==
    \/ tab'[t].logoutUncertain
    \/ \E n \in notices \ notices' : n.to = t
    \/ \E c \in calls \ calls' :
          /\ c.tab = t /\ Answered(c)
          /\ \/ c.answer = "revoked"
             \/ c.cookie # None /\ Owner[c.cookie] # lost.user

\* A step that puts y in the place of tab t keeps the drafts, or gives up those
\* of t for a reason.
LEMMA OneTab ==
    ASSUME BrowserInv, NEW t \in open, NEW y, tab' = [tab EXCEPT ![t] = y], NEW u \in open,
           tab'[u].drafts.owner # tab[u].drafts.owner
    PROVE  u = t /\ y.drafts.owner # tab[t].drafts.owner
BY DEF BrowserInv, TypeOK

LEMMA RaisedConsumes ==
    ASSUME BrowserInv, NEW c \in calls, c.fresh, calls' = NewGeneration(calls \ {c}, c.tab)
    PROVE  c \in calls \ calls'
<1> SUFFICES ASSUME NEW e \in calls \ {c},
                    c = IF e.tab = c.tab THEN [e EXCEPT !.fresh = FALSE, !.here = FALSE] ELSE e
             PROVE  FALSE
  BY DEF NewGeneration
<1>1. e \in CallType /\ c \in CallType
  BY DEF BrowserInv, TypeOK
<1>2. CASE e.tab = c.tab
  <2>1. [e EXCEPT !.fresh = FALSE, !.here = FALSE].fresh = FALSE
    BY <1>1 DEF CallType
  <2> QED BY <1>2, <2>1
<1> QED BY <1>2

LEMMA ExpireDecides ==
    ASSUME BrowserInv, NEW c \in calls, Answered(c), Expires(c), Expire(c), NEW u \in open,
           tab'[u].drafts.owner # tab[u].drafts.owner
    PROVE  Decided(u, tab[u].drafts.owner)
<1>1. c.tab \in open /\ tab[c.tab] \in TabType
  BY CallHere
<1>2. PICK purge \in BOOLEAN : purge = (c.answer = "revoked")
  OBVIOUS
<1>3. tab' = [tab EXCEPT ![c.tab] = Closed(tab[c.tab], purge)]
  BY <1>2 DEF Expire, Reset
<1>4. u = c.tab /\ Closed(tab[c.tab], purge).drafts.owner # tab[c.tab].drafts.owner
  BY <1>1, <1>3, OneTab
<1>5. c.answer = "revoked"
  BY <1>1, <1>2, <1>4, ClosedTab
<1>6. c \in calls \ calls'
  BY RaisedConsumes DEF Expire, Reset, Expires
<1> QED BY <1>4, <1>5, <1>6 DEF Decided

LEMMA GiveUpKeepsDrafts ==
    ASSUME BrowserInv, NEW c \in calls, GiveUp(c) \/ Forget(c), NEW u \in open
    PROVE  tab'[u].drafts.owner = tab[u].drafts.owner
<1>1. c.tab \in open /\ tab[c.tab] \in TabType
  BY CallHere
<1>2. CASE Forget(c)
  <2>1. PICK y : y = [tab[c.tab] EXCEPT !.bootstrap = @ /\ c.via \notin {"bootstrap", "resume"}]
    OBVIOUS
  <2>2. tab' = [tab EXCEPT ![c.tab] = y] /\ y.drafts = tab[c.tab].drafts
    BY <1>1, <1>2, <2>1 DEF Forget, TabType
  <2> QED BY <1>1, <2>2, OneTab
<1>3. CASE Reset(c.tab, Closed(tab[c.tab], FALSE), calls \ {c})
  <2>1. Closed(tab[c.tab], FALSE).drafts.owner = tab[c.tab].drafts.owner
    BY <1>1, ClosedTab
  <2>2. tab' = [tab EXCEPT ![c.tab] = Closed(tab[c.tab], FALSE)]
    BY <1>3 DEF Reset
  <2> QED BY <1>1, <2>1, <2>2, OneTab
<1> QED BY <1>2, <1>3 DEF GiveUp

\* Confirming an identity consumes the call that confirms it.
LEMMA PlaceConsumes ==
    ASSUME BrowserInv, NEW c \in calls, c.kind \notin {"adopt", "data"},
           calls' = NewPlaceGeneration(calls \ {c}, c.tab)
    PROVE  c \in calls \ calls'
<1> SUFFICES ASSUME NEW e \in calls \ {c}, c = [e EXCEPT !.here = FALSE]
             PROVE  FALSE
  BY DEF NewPlaceGeneration
<1>1. e \in CallType /\ Fields(e)
  BY CallHere DEF CallOK
<1>2. c.kind = e.kind
  BY <1>1 DEF CallType
<1>3. e.here = FALSE
  BY <1>1, <1>2 DEF CallType, Fields
<1>4. [e EXCEPT !.here = FALSE] = e
  BY <1>1, <1>3 DEF CallType
<1> QED BY <1>4

\* The drafts of a confirmed account are kept; those of another one are purged.
LEMMA ConfirmSessionDecides ==
    ASSUME BrowserInv, NEW c \in calls, NEW s \in Sessions, Spent(s), s = c.cookie,
           Answered(c), c.kind \notin {"adopt", "data"}, ~ tab[c.tab].logoutUncertain,
           ConfirmSession(c.tab, c, s), UNCHANGED <<status, jar, open, announced>>,
           NEW u \in open, tab[u].drafts.owner # None,
           tab'[u].drafts.owner # tab[u].drafts.owner
    PROVE  Decided(u, tab[u].drafts.owner)
<1> DEFINE t == c.tab
           rest == NewPlaceGeneration(calls \ {c}, t)
           bare == [tab[t] EXCEPT !.place = None]
<1>1. c \in CallType /\ t \in open /\ tab[t] \in TabType /\ TabOK(tab[t])
  BY CallHere
<1>2. /\ bare \in TabType /\ bare.logoutUncertain = FALSE
      /\ bare.drafts = tab[t].drafts /\ SpentIfAny(bare.pendingLogout)
  BY <1>1 DEF TabType, TabOK, Maybe
<1>3. CASE tab[t].candidate # Owner[s]
  <2> DEFINE x == Installed(bare, s, "personal")
  <2>1. /\ x \in TabType /\ Adoptable(x)
        /\ x.drafts.owner = [user |-> Owner[s], place |-> "personal"]
    BY <1>2, InstalledTab DEF Places
  <2>2. Adopt(t, x, s, c, rest)
    BY <1>3 DEF ConfirmSession
  <2> HIDE DEF x, bare
  <2>3. PICK z \in TabType : tab' = [tab EXCEPT ![t] = z] /\ z.drafts = x.drafts
    BY <1>1, <2>1, <2>2, AdoptTab
  <2>4. u = t /\ x.drafts.owner # tab[t].drafts.owner
    BY <1>1, <2>3, OneTab
  <2>5. Owner[c.cookie] # tab[u].drafts.owner.user
    <3>1. tab[t].drafts.owner \in [user : Users, place : Places]
      BY <1>1, <2>4, TabFields DEF Maybe
    <3>2. SUFFICES ASSUME tab[t].drafts.owner.user = Owner[s]
                   PROVE  FALSE
      BY <2>4
    <3>3. tab[t].drafts.owner.place = "personal"
      BY <1>1, <1>3, <2>4, <3>1, <3>2 DEF TabOK, DraftsFit, Places
    <3> QED BY <2>1, <2>4, <3>1, <3>2, <3>3
  <2>6. c \in calls \ calls'
    BY <2>2, PlaceConsumes DEF Adopt
  <2>7. c.cookie # None
    BY BrowserAssumption
  <2> QED BY <2>4, <2>5, <2>6, <2>7 DEF Decided
<1>4. CASE tab[t].candidate = Owner[s]
  <2>1. tab' = [tab EXCEPT ![t] = Settle(bare)]
    BY <1>4 DEF ConfirmSession
  <2> HIDE DEF bare
  <2>2. Settle(bare).drafts = tab[t].drafts
    BY <1>2, SettledTab
  <2> QED BY <1>1, <2>1, <2>2, OneTab
<1> QED BY <1>3, <1>4

LEMMA ReceiveConfirmDecides ==
    ASSUME BrowserInv, NEW c \in calls, ReceiveConfirm(c), NEW u \in open,
           tab[u].drafts.owner # None, tab'[u].drafts.owner # tab[u].drafts.owner
    PROVE  Decided(u, tab[u].drafts.owner)
<1>1. /\ UNCHANGED <<status, jar, open, announced>>
      /\ c.kind = "confirm" /\ Answered(c) /\ c.answer # "issued"
  BY DEF ReceiveConfirm, Answered
<1>2. CASE Expires(c) /\ Expire(c)
  BY <1>1, <1>2, ExpireDecides
<1>3. CASE Forget(c)
  BY <1>3, GiveUpKeepsDrafts
<1>4. CASE c.fresh /\ c.cookie = c.about /\ ConfirmSession(c.tab, c, c.about)
  <2>1. PICK s \in Sessions : s = c.about /\ Spent(s)
    BY <1>1, CallHere DEF CallOK, Fields, SpentIfAny, CallType, Maybe
  <2>2. ~ tab[c.tab].logoutUncertain
    BY <1>1, <1>4, TrustedTabIsOpen DEF LogoutKinds
  <2> QED BY <1>1, <1>4, <2>1, <2>2, ConfirmSessionDecides
<1> QED BY <1>2, <1>3, <1>4 DEF ReceiveConfirm

LEMMA ReceiveBootstrapDecides ==
    ASSUME BrowserInv, NEW c \in calls, ReceiveBootstrap(c), NEW u \in open,
           tab[u].drafts.owner # None, tab'[u].drafts.owner # tab[u].drafts.owner
    PROVE  Decided(u, tab[u].drafts.owner)
<1>1. /\ UNCHANGED <<status, jar, open, announced>>
      /\ c.kind \in {"bootstrap", "resume"} /\ Answered(c) /\ c.answer # "issued"
      /\ c \in CallType /\ c.tab \in open /\ tab[c.tab] \in TabType /\ TabOK(tab[c.tab])
      /\ Fields(c) /\ SpentIfAny(c.cookie)
  BY CallHere DEF ReceiveBootstrap, Answered, CallOK
<1>2. CASE Expires(c) /\ Expire(c)
  BY <1>1, <1>2, ExpireDecides
<1>3. CASE GiveUp(c)
  BY <1>3, GiveUpKeepsDrafts
<1>4. ASSUME c.fresh, c.answer = "ok", tab[c.tab].session # None,
             NEW x, x = IF SameOwner(tab[c.tab].session, c.cookie) THEN tab[c.tab]
                        ELSE [tab[c.tab] EXCEPT !.drafts = NoDrafts],
             Reset(c.tab, Closed(x, FALSE), calls \ {c})
      PROVE  Decided(u, tab[u].drafts.owner)
  <2>1. x \in TabType
    BY <1>1, <1>4, WithoutDrafts
  <2>2. u = c.tab /\ Closed(x, FALSE).drafts.owner # tab[c.tab].drafts.owner
    BY <1>1, <1>4, OneTab DEF Reset
  <2>3. x.drafts.owner # tab[c.tab].drafts.owner
    BY <2>1, <2>2, ClosedTab
  <2>4. ~ SameOwner(tab[c.tab].session, c.cookie)
    BY <1>4, <2>3
  <2>5. c.cookie # None
    BY <1>1, <1>4 DEF Fields
  <2>6. tab[u].drafts.owner.user = Owner[tab[c.tab].session]
    BY <1>1, <1>4, <2>2 DEF TabOK, DraftsFit
  <2>7. c \in calls \ calls'
    BY <1>4, RaisedConsumes DEF Reset
  <2> QED BY <1>1, <1>4, <2>2, <2>4, <2>5, <2>6, <2>7 DEF Decided, SameOwner
<1>5. CASE c.fresh /\ c.answer = "ok" /\ ConfirmSession(c.tab, c, c.cookie)
  <2>1. PICK s \in Sessions : s = c.cookie /\ Spent(s)
    BY <1>1, <1>5 DEF Fields, SpentIfAny, CallType, Maybe
  <2>2. ~ tab[c.tab].logoutUncertain
    BY <1>1, <1>5, TrustedTabIsOpen DEF LogoutKinds
  <2> QED BY <1>1, <1>5, <2>1, <2>2, ConfirmSessionDecides
<1> QED BY <1>2, <1>3, <1>4, <1>5 DEF ReceiveBootstrap

\* A Bar the tab remembers is that of its drafts: whether it is confirmed or
\* not, they are kept.
LEMMA ReceiveAdoptDecides ==
    ASSUME BrowserInv, NEW c \in calls, ReceiveAdopt(c), NEW u \in open,
           tab[u].drafts.owner # None, tab'[u].drafts.owner # tab[u].drafts.owner
    PROVE  Decided(u, tab[u].drafts.owner)
<1> DEFINE t == c.tab
           x == tab[t]
           unconfirmed == [x EXCEPT !.drafts.active = FALSE]
<1>1. /\ UNCHANGED <<status, jar, open, announced>>
      /\ c.kind = "adopt" /\ Answered(c) /\ c.answer # "issued"
      /\ c \in CallType /\ CallOK(c) /\ Suits(c, x)
      /\ t \in open /\ x \in TabType /\ TabOK(x)
  BY CallHere DEF ReceiveAdopt, Answered
<1>2. /\ unconfirmed \in TabType
      /\ unconfirmed.logoutUncertain = x.logoutUncertain
      /\ unconfirmed.pendingLogout = x.pendingLogout
      /\ unconfirmed.candidate = x.candidate
      /\ unconfirmed.drafts.owner = x.drafts.owner
  <2>1. PICK dr : dr = [x.drafts EXCEPT !.active = FALSE]
    OBVIOUS
  <2>2. /\ dr \in [owner : Maybe([user : Users, place : Places]), active : BOOLEAN]
        /\ dr.owner = x.drafts.owner
    BY <1>1, <2>1 DEF TabType
  <2>3. unconfirmed = [x EXCEPT !.drafts = dr]
    BY <2>1
  <2> QED BY <1>1, <2>2, <2>3 DEF TabType
<1>3. CASE Expires(c) /\ Expire(c)
  BY <1>1, <1>3, ExpireDecides
<1>4. CASE GiveUp(c)
  BY <1>4, GiveUpKeepsDrafts
<1>5. CASE tab' = [tab EXCEPT ![t] = [unconfirmed EXCEPT !.bootstrap = @ /\ c.via = "confirm"]]
  <2>1. PICK w : w = unconfirmed
    OBVIOUS
  <2>2. PICK y : y = [w EXCEPT !.bootstrap = @ /\ c.via = "confirm"]
    OBVIOUS
  <2>3. tab' = [tab EXCEPT ![t] = y]
    BY <1>5, <2>1, <2>2
  <2> HIDE DEF unconfirmed
  <2>4. y.drafts.owner = x.drafts.owner
    BY <1>2, <2>1, <2>2 DEF TabType
  <2> QED BY <1>1, <2>3, <2>4, OneTab
<1>6. ASSUME c.here, c.fresh, NEW y, y \in {Installed(x, c.about, "bar"), unconfirmed},
             Adopt(t, y, c.about, c, calls \ {c})
      PROVE  Decided(u, tab[u].drafts.owner)
  <2>1. PICK s \in Sessions : s = c.about /\ Spent(s)
    BY <1>1 DEF CallOK, Fields, SpentIfAny, CallType, Maybe
  <2>2. /\ ~ x.logoutUncertain /\ x.candidate = Owner[s] /\ Owner[s] \in Users
        /\ SpentIfAny(x.pendingLogout)
    BY <1>1, <1>6, <2>1, BrowserAssumption DEF Suits, LogoutKinds, TabOK
  <2>3. x.drafts.owner # None => x.drafts.owner = [user |-> Owner[s], place |-> "bar"]
    <3>1. x.drafts.owner # None => x.drafts.owner \in [user : Users, place : Places]
      BY <1>1, TabFields DEF Maybe
    <3> QED BY <1>1, <2>2, <3>1, BrowserAssumption DEF TabOK, DraftsFit, Places
  <2>4. /\ y \in TabType /\ Adoptable(y)
        /\ y.drafts.owner # None => y.drafts.owner.user = Owner[s]
        /\ x.drafts.owner # None => y.drafts.owner = x.drafts.owner
    <3>1. CASE y = Installed(x, s, "bar")
      <4> HIDE DEF unconfirmed
      <4>1. /\ y \in TabType /\ Adoptable(y)
            /\ y.drafts.owner = [user |-> Owner[s], place |-> "bar"]
        BY <1>1, <2>2, <3>1, InstalledTab DEF Places
      <4> QED BY <2>3, <4>1
    <3>2. CASE y = unconfirmed
      <4> HIDE DEF unconfirmed
      <4> QED BY <1>2, <2>2, <2>3, <3>2, BrowserAssumption DEF Adoptable
    <3> QED BY <1>6, <2>1, <3>1, <3>2
  <2>5. PICK z \in TabType : tab' = [tab EXCEPT ![t] = z] /\ z.drafts = y.drafts
    BY <1>1, <1>6, <2>1, <2>4, AdoptTab
  <2>6. u = t /\ z.drafts.owner # x.drafts.owner
    BY <1>1, <2>5, OneTab
  <2> QED BY <2>4, <2>5, <2>6
<1> QED BY <1>3, <1>4, <1>5, <1>6 DEF ReceiveAdopt

LEMMA ReceiveLogoutKeepsDrafts ==
    ASSUME BrowserInv, NEW c \in calls, ReceiveLogout(c), NEW u \in open
    PROVE  tab'[u].drafts.owner = tab[u].drafts.owner
<1>1. c.tab \in open /\ tab[c.tab] \in TabType
  BY CallHere
<1>2. PICK y : y = [tab[c.tab] EXCEPT !.logoutPending = FALSE,
                       !.pendingLogout = IF Confirms(c) THEN None ELSE @,
                       !.logoutUncertain = @ /\ ~ Confirms(c),
                       !.globalLogoutUncertain = @ /\ ~ Confirms(c)]
  OBVIOUS
<1>3. tab' = [tab EXCEPT ![c.tab] = y]
  BY <1>2, Zenon DEF ReceiveLogout
<1>4. y.drafts = tab[c.tab].drafts
  BY <1>1, <1>2 DEF TabType
<1> QED BY <1>1, <1>3, <1>4, OneTab

LEMMA ReceiveDataDecides ==
    ASSUME BrowserInv, NEW c \in calls, ReceiveData(c), NEW u \in open,
           tab'[u].drafts.owner # tab[u].drafts.owner
    PROVE  Decided(u, tab[u].drafts.owner)
<1>1. c.tab \in open /\ tab[c.tab] \in TabType /\ Answered(c)
  BY CallHere DEF ReceiveData
<1>2. CASE Expires(c) /\ Expire(c)
  BY <1>1, <1>2, ExpireDecides
<1>3. CASE Forget(c)
  BY <1>3, GiveUpKeepsDrafts
<1>4. CASE tab' = [tab EXCEPT ![c.tab].shown = Owner[c.cookie]]
  <2>1. PICK y : y = [tab[c.tab] EXCEPT !.shown = Owner[c.cookie]]
    OBVIOUS
  <2>2. tab' = [tab EXCEPT ![c.tab] = y] /\ y.drafts = tab[c.tab].drafts
    BY <1>1, <1>4, <2>1 DEF TabType
  <2> QED BY <1>1, <2>2, OneTab
<1> QED BY <1>2, <1>3, <1>4 DEF ReceiveData

\* The notice that closes a tab is applied once.
LEMMA ApplyNoticeDecides ==
    ASSUME BrowserInv, NEW n \in notices, ApplyNotice(n), NEW u \in open,
           tab'[u].drafts.owner # tab[u].drafts.owner
    PROVE  Decided(u, tab[u].drafts.owner)
<1>1. n \in NoticeType /\ n.to \in open /\ n.heard
  BY DEF BrowserInv, TypeOK, ApplyNotice
<1>2. CASE n.fresh
  <2>1. PICK y : tab' = [tab EXCEPT ![n.to] = y]
    BY <1>2 DEF ApplyNotice
  <2>2. u = n.to
    BY <1>1, <2>1, OneTab
  <2>3. n \notin Outdated(notices \ {n}, n.to)
    <3> SUFFICES ASSUME NEW m \in notices, n = [m EXCEPT !.fresh = FALSE]
                 PROVE  FALSE
      BY DEF Outdated
    <3>1. m \in NoticeType
      BY DEF BrowserInv, TypeOK
    <3>2. n.fresh = FALSE
      BY <3>1 DEF NoticeType
    <3> QED BY <1>2, <3>2
  <2> QED BY <1>2, <2>2, <2>3 DEF Decided, ApplyNotice
<1>3. CASE ~ n.fresh
  BY <1>3 DEF ApplyNotice
<1> QED BY <1>2, <1>3

\* What the user starts gives drafts up only with a logout.
LEMMA StartDecides ==
    ASSUME BrowserInv, NEW t \in open,
           \/ SignIn(t) \/ Bootstrap(t) \/ Revalidate(t) \/ Load(t) \/ Reload(t)
           \/ \E global \in BOOLEAN : RequestLogout(t, global),
           NEW u \in open, tab'[u].drafts.owner # tab[u].drafts.owner
    PROVE  Decided(u, tab[u].drafts.owner)
<1>1. tab[t] \in TabType
  BY TabHere
<1> DEFINE x == Closed(tab[t], FALSE)
<1>2. x \in TabType /\ x.drafts.owner = tab[t].drafts.owner
  BY <1>1, ClosedTab
<1> HIDE DEF x
<1>3. CASE SignIn(t)
  <2>1. PICK y : y = [x EXCEPT !.pendingLogout = None, !.logoutUncertain = FALSE,
                               !.globalLogoutUncertain = FALSE]
    OBVIOUS
  <2>2. tab' = [tab EXCEPT ![t] = y]
    BY <1>3, <2>1 DEF SignIn, x
  <2>3. y.drafts = x.drafts
    BY <1>2, <2>1 DEF TabType
  <2> QED BY <1>2, <2>2, <2>3, OneTab
<1>4. CASE tab' = [tab EXCEPT ![t].bootstrap = TRUE]
  <2>1. PICK y : y = [tab[t] EXCEPT !.bootstrap = TRUE]
    OBVIOUS
  <2>2. tab' = [tab EXCEPT ![t] = y] /\ y.drafts = tab[t].drafts
    BY <1>1, <1>4, <2>1 DEF TabType
  <2> QED BY <2>2, OneTab
<1>5. CASE tab' = [tab EXCEPT ![t] = x]
  BY <1>2, <1>5, OneTab
<1>6. CASE Reload(t)
  <2>1. PICK dr : dr = [tab[t].drafts EXCEPT !.active = FALSE]
    OBVIOUS
  <2>2. PICK y : y = [Blank EXCEPT !.candidate = tab[t].candidate, !.drafts = dr]
    OBVIOUS
  <2>3. tab' = [tab EXCEPT ![t] = y] /\ y.drafts.owner = tab[t].drafts.owner
    BY <1>1, <1>6, <2>1, <2>2 DEF Reload, TabType, Blank
  <2> QED BY <2>3, OneTab
<1>7. ASSUME NEW global \in BOOLEAN, RequestLogout(t, global)
      PROVE  Decided(u, tab[u].drafts.owner)
  <2>1. PICK z : z = Closed(tab[t], TRUE)
    OBVIOUS
  <2>2. PICK s : s = IF tab[t].pendingLogout # None THEN tab[t].pendingLogout ELSE tab[t].session
    OBVIOUS
  <2>3. PICK y : y = [z EXCEPT !.pendingLogout = s, !.logoutPending = TRUE,
                               !.logoutUncertain = TRUE, !.globalLogoutUncertain = global]
    OBVIOUS
  <2>4. tab' = [tab EXCEPT ![t] = y]
    BY <1>7, <2>1, <2>2, <2>3 DEF RequestLogout
  <2>5. y.logoutUncertain
    BY <1>1, <2>1, <2>3, ClosedTab DEF TabType
  <2>6. u = t /\ tab'[t] = y
    BY <2>4, OneTab DEF BrowserInv, TypeOK
  <2> QED BY <2>5, <2>6 DEF Decided
<1> QED BY <1>3, <1>4, <1>5, <1>6, <1>7 DEF Bootstrap, Revalidate, Reset, Load, x

LEMMA DecisionStep ==
    ASSUME BrowserInv, [Next]_vars, NEW u \in open,
           tab[u].drafts.owner # None, tab'[u].drafts.owner # tab[u].drafts.owner
    PROVE  Decided(u, tab[u].drafts.owner)
<1>1. ASSUME NEW c \in calls,
             \/ ReceiveConfirm(c) \/ ReceiveBootstrap(c) \/ ReceiveAdopt(c)
             \/ ReceiveLogout(c) \/ ReceiveData(c)
      PROVE  Decided(u, tab[u].drafts.owner)
  BY <1>1, ReceiveConfirmDecides, ReceiveBootstrapDecides, ReceiveAdoptDecides,
     ReceiveLogoutKeepsDrafts, ReceiveDataDecides
<1>2. CASE UNCHANGED tab
  BY <1>2
<1>3. \/ \E t \in open : \/ SignIn(t) \/ Bootstrap(t) \/ Revalidate(t) \/ Load(t) \/ Reload(t)
                         \/ \E global \in BOOLEAN : RequestLogout(t, global)
      \/ \E c \in calls : \/ ReceiveConfirm(c) \/ ReceiveBootstrap(c) \/ ReceiveAdopt(c)
                          \/ ReceiveLogout(c) \/ ReceiveData(c)
      \/ \E n \in notices : ApplyNotice(n)
      \/ UNCHANGED tab
  BY DEF Next, vars, ServeLogin, ServeRead, ServeLogout, ServeLogoutAll, StoreCookie, DropAnswer,
     Fail, LoseRequest, ReceiveLogin, HearNotice, EndElsewhere
<1> QED BY <1>1, <1>2, <1>3, StartDecides, ApplyNoticeDecides

(* WorkspaceContext and the drafts of a tab: they are given up only by a      *)
(* logout of this tab or a notice of one, by another account found or         *)
(* confirmed in it, or by the answer that says the session was revoked; never *)
(* by an expiry, a failure or a Bar that could not be confirmed.              *)
THEOREM DraftsOutlive == Spec => DraftsOutliveExpiry
<1> DEFINE Outlive ==
        \A t \in open :
           LET lost == tab[t].drafts.owner
           IN  lost # None /\ tab'[t].drafts.owner # lost =>
                 \/ tab'[t].logoutUncertain
                 \/ \E n \in notices \ notices' : n.to = t
                 \/ \E c \in calls \ calls' :
                       /\ c.tab = t /\ Answered(c)
                       /\ \/ c.answer = "revoked"
                          \/ c.cookie # None /\ Owner[c.cookie] # lost.user
<1>1. BrowserInv /\ [Next]_vars => [Outlive]_vars
  BY DecisionStep DEF Decided
<1> QED BY BrowserInvariant, <1>1, PTL DEF Spec, DraftsOutliveExpiry, Answered

-----------------------------------------------------------------------------
(* The server the tabs talk to                                              *)

OwnerOf(s) == IF status[s] = "unborn" THEN None ELSE Owner[s]

\* The server of this module, as SessionService sees it: the one Sessions
\* implements with its transactions.
Server == INSTANCE SessionService WITH
    Accounts <- Users,
    Ids <- Sessions,
    Nobody <- None,
    registered <- {Owner[s] : s \in {r \in Sessions : status[r] # "unborn"}},
    state <- status,
    owner <- [s \in Sessions |-> OwnerOf(s)]

LEMMA ServeLoginSigns ==
    ASSUME BrowserInv, NEW c \in calls, NEW s \in Sessions, ServeLogin(c, s)
    PROVE  Server!ServiceNext
<1>1. status \in [Sessions -> {"unborn", "live", "revoked", "expired"}] /\ c \in CallType
  BY DEF BrowserInv, TypeOK
<1>2. PICK u \in Users : u = Owner[s]
  BY BrowserAssumption
<1>3. PICK R \in {{}} \cup {{r} : r \in Sessions} :
         \A r \in Sessions : r \in R <=> r = c.cookie
  <2>1. c.cookie \in Maybe(Sessions)
    BY <1>1, CallFields
  <2>2. CASE c.cookie = None
    <3>1. \A r \in Sessions : r \in {} <=> r = c.cookie
      BY <2>2, BrowserAssumption
    <3>2. {} \in {{}} \cup {{r} : r \in Sessions}
      OBVIOUS
    <3> QED BY <3>1, <3>2
  <2>3. CASE c.cookie \in Sessions
    <3>1. {c.cookie} \in {{r} : r \in Sessions}
      BY <2>3
    <3> QED BY <3>1
  <2> QED BY <2>1, <2>2, <2>3 DEF Maybe
<1>4. /\ status[s] = "unborn"
      /\ status' = [r \in Sessions |-> IF r = s THEN "live"
                                       ELSE IF r = c.cookie /\ status[r] # "unborn" THEN "revoked"
                                       ELSE status[r]]
  BY DEF ServeLogin
<1>5. Server!SignIn(u, s, R)
  <2>1. status' = [Server!Revoking(R) EXCEPT ![s] = "live"]
    BY <1>1, <1>3, <1>4 DEF Server!Revoking, Server!Unrevoked
  <2>2. [r \in Sessions |-> OwnerOf(r)]' = [[r \in Sessions |-> OwnerOf(r)] EXCEPT ![s] = u]
    BY <1>1, <1>2, <1>4 DEF OwnerOf
  <2> QED BY <1>4, <2>1, <2>2 DEF Server!SignIn
<1>6. \A r \in Sessions : status'[r] # "unborn" <=> status[r] # "unborn" \/ r = s
  BY <1>4
<1>7. PICK A : A = {Owner[r] : r \in {r \in Sessions : status[r] # "unborn"}}
  OBVIOUS
<1>8. {Owner[r] : r \in {r \in Sessions : status[r] # "unborn"}}' = A \cup {u}
  BY <1>2, <1>6, <1>7
<1>9. CASE u \in A
  <2>1. Server!Login(u, s, R)
    BY <1>5, <1>7, <1>8, <1>9 DEF Server!Login
  <2> QED BY <2>1 DEF Server!ServiceNext
<1>10. CASE u \notin A
  <2>1. Server!Register(u, s, R)
    BY <1>5, <1>7, <1>8, <1>10 DEF Server!Register
  <2> QED BY <2>1 DEF Server!ServiceNext
<1> QED BY <1>9, <1>10

\* Nothing is born: the accounts and the owners stay what they are.
LEMMA NobodySignsIn ==
    ASSUME BrowserInv, \A s \in Sessions : status'[s] = "unborn" <=> status[s] = "unborn"
    PROVE  /\ UNCHANGED {Owner[s] : s \in {r \in Sessions : status[r] # "unborn"}}
           /\ UNCHANGED [s \in Sessions |-> OwnerOf(s)]
BY DEF OwnerOf

\* All sessions of an account end, one live among them.
LEMMA AllRevoked ==
    ASSUME BrowserInv, NEW u \in Users,
           status' = [s \in Sessions |-> IF Owner[s] = u /\ status[s] # "unborn"
                                         THEN "revoked" ELSE status[s]]
    PROVE  Server!ServiceNext
<1>1. status \in [Sessions -> {"unborn", "live", "revoked", "expired"}]
  BY DEF BrowserInv, TypeOK
<1>2. \A s \in Sessions : status'[s] = "unborn" <=> status[s] = "unborn"
  BY <1>1
<1>3. Server!LogoutAll(u)
  <2>1. status' = Server!Revoking({s \in Sessions : OwnerOf(s) = u})
    BY <1>1, BrowserAssumption DEF Server!Revoking, Server!Unrevoked, OwnerOf, Maybe
  <2> QED BY <1>2, <2>1, NobodySignsIn DEF Server!LogoutAll
<1> QED BY <1>3 DEF Server!ServiceNext

LEMMA ServeLogoutEnds ==
    ASSUME BrowserInv, NEW c \in calls, ServeLogout(c) \/ ServeLogoutAll(c)
    PROVE  Server!ServiceNext \/ UNCHANGED status
<1>1. status \in [Sessions -> {"unborn", "live", "revoked", "expired"}] /\ c \in CallType
  BY DEF BrowserInv, TypeOK
<1>2. ASSUME Live(c.cookie)
      PROVE  c.cookie \in Sessions
  BY <1>1, <1>2, CallFields DEF Live, Maybe
<1>3. ASSUME Live(c.cookie), status' = [status EXCEPT ![c.cookie] = "revoked"]
      PROVE  Server!ServiceNext
  <2>1. PICK s \in Sessions : s = c.cookie /\ status[s] = "live"
    BY <1>2, <1>3 DEF Live
  <2>2. \A r \in Sessions : status'[r] = "unborn" <=> status[r] = "unborn"
    BY <1>1, <1>3, <2>1
  <2>3. status' = Server!Revoking({s})
    BY <1>1, <1>3, <2>1 DEF Server!Revoking, Server!Unrevoked
  <2>4. Server!Logout(s)
    BY <2>1, <2>2, <2>3, NobodySignsIn DEF Server!Logout
  <2> QED BY <2>4 DEF Server!ServiceNext
<1>4. ASSUME Live(c.cookie),
             status' = [s \in Sessions |->
                          IF Owner[s] = Owner[c.cookie] /\ status[s] # "unborn"
                          THEN "revoked" ELSE status[s]]
      PROVE  Server!ServiceNext
  <2>1. PICK u \in Users : u = Owner[c.cookie]
    BY <1>2, <1>4, BrowserAssumption
  <2> QED BY <1>4, <2>1, AllRevoked
<1> QED BY <1>3, <1>4 DEF ServeLogout, ServeLogoutAll

LEMMA EndElsewhereEnds ==
    ASSUME BrowserInv, NEW s \in Sessions, EndElsewhere(s)
    PROVE  Server!ServiceNext
<1>1. status \in [Sessions -> {"unborn", "live", "revoked", "expired"}]
  BY DEF BrowserInv, TypeOK
<1>2. CASE status' = [status EXCEPT ![s] = "expired"]
  <2>1. status[s] = "live"
    BY DEF EndElsewhere
  <2>2. \A r \in Sessions : status'[r] = "unborn" <=> status[r] = "unborn"
    BY <1>1, <1>2, <2>1
  <2>3. status' = [r \in Sessions |-> IF r \in {s} THEN "expired" ELSE status[r]]
    BY <1>1, <1>2
  <2>4. Server!Expire({s})
    BY <2>1, <2>2, <2>3, NobodySignsIn DEF Server!Expire
  <2>5. {s} \in SUBSET Sessions
    OBVIOUS
  <2> QED BY <2>4, <2>5 DEF Server!ServiceNext
<1>3. CASE status' = [r \in Sessions |-> IF Owner[r] = Owner[s] /\ status[r] # "unborn"
                                         THEN "revoked" ELSE status[r]]
  <2>1. PICK u \in Users : u = Owner[s]
    BY BrowserAssumption
  <2> QED BY <1>3, <2>1, AllRevoked
<1> QED BY <1>2, <1>3 DEF EndElsewhere

(* The server in front of which the tabs run keeps the promises that Sessions *)
(* proves of its transactions (SessionService): what Browser assumes of it is *)
(* no more than what auth.service.ts and session.service.ts provide.          *)
THEOREM ServerImplementsService == Spec => Server!ServiceSpec
<1>1. Init => Server!ServiceInit
  BY DEF Init, Server!ServiceInit, OwnerOf
<1>2. ASSUME BrowserInv, [Next]_vars
      PROVE  Server!ServiceNext \/ UNCHANGED status
  BY <1>2, OnlyServerEnds, ServeLoginSigns, ServeLogoutEnds, EndElsewhereEnds
<1>3. UNCHANGED status => UNCHANGED (Server!serviceVars)
  BY DEF Server!serviceVars, OwnerOf
<1>4. BrowserInv /\ [Next]_vars => [Server!ServiceNext]_(Server!serviceVars)
  BY <1>2, <1>3
<1> QED BY <1>1, <1>4, BrowserInvariant, PTL DEF Spec, Server!ServiceSpec
=============================================================================
