--------------------------- MODULE SessionService ---------------------------
(***************************************************************************)
(* What the server promises about web sessions, as if every request ran    *)
(* alone: a session opens once, for one account, and ends for good; an     *)
(* account is created once; a sign-in replaces at most the session of its  *)
(* cookie; a global logout ends every session of its account and no other. *)
(* Sessions implements this specification, statement by statement, and the *)
(* server in front of which Browser runs its tabs is one of its            *)
(* implementations.                                                        *)
(***************************************************************************)
CONSTANTS
    Accounts,      \* e-mail addresses, registered or not
    Ids,           \* the sessions the server may ever issue
    Nobody         \* the owner of no session

VARIABLES
    registered,    \* the addresses that have an account
    state,         \* what is left of each session
    owner          \* its account, as long as it is stored

serviceVars == <<registered, state, owner>>

ServiceInit ==
    /\ registered = {}
    /\ state = [s \in Ids |-> "unborn"]
    /\ owner = [s \in Ids |-> Nobody]

\* Stored and not revoked: live, or past one of its deadlines.
Unrevoked == {s \in Ids : state[s] \in {"live", "expired"}}

Ended(s) == state[s] \in {"expired", "revoked", "deleted"}

\* The sessions once those of S are revoked.
Revoking(S) == [s \in Ids |-> IF s \in S \intersect Unrevoked THEN "revoked" ELSE state[s]]

(* A new session of account u takes the place of the one in the cookie, if    *)
(* there is one. Its deadlines run from its insertion, so it may be past them *)
(* when the sign-in commits.                                                  *)
SignIn(u, s, replaced) ==
    /\ state[s] = "unborn"
    /\ \E first \in {"live", "expired"} : state' = [Revoking(replaced) EXCEPT ![s] = first]
    /\ owner' = [owner EXCEPT ![s] = u]

Register(u, s, replaced) ==
    /\ u \notin registered
    /\ registered' = registered \union {u}
    /\ SignIn(u, s, replaced)

Login(u, s, replaced) ==
    /\ u \in registered
    /\ UNCHANGED registered
    /\ SignIn(u, s, replaced)

Logout(s) ==
    /\ state[s] = "live"
    /\ state' = Revoking({s})
    /\ UNCHANGED <<registered, owner>>

LogoutAll(u) ==
    /\ state' = Revoking({s \in Ids : owner[s] = u})
    /\ UNCHANGED <<registered, owner>>

\* Time passes: the deadlines of the sessions of S with it.
Expire(S) ==
    /\ \A s \in S : state[s] = "live"
    /\ state' = [s \in Ids |-> IF s \in S THEN "expired" ELSE state[s]]
    /\ UNCHANGED <<registered, owner>>

\* The rows of ended sessions may be deleted.
Delete(S) ==
    /\ \A s \in S : Ended(s)
    /\ state' = [s \in Ids |-> IF s \in S THEN "deleted" ELSE state[s]]
    /\ owner' = [s \in Ids |-> IF s \in S THEN Nobody ELSE owner[s]]
    /\ UNCHANGED registered

ServiceNext ==
    \/ \E u \in Accounts, s \in Ids, replaced \in {{}} \union {{r} : r \in Ids} :
          Register(u, s, replaced) \/ Login(u, s, replaced)
    \/ \E s \in Ids : Logout(s)
    \/ \E u \in Accounts : LogoutAll(u)
    \/ \E S \in SUBSET Ids : Expire(S) \/ Delete(S)

ServiceSpec == ServiceInit /\ [][ServiceNext]_serviceVars
=============================================================================
