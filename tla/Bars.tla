-------------------------------- MODULE Bars --------------------------------
(***************************************************************************)
(* Shared workspaces ("Bars"): creation by intention, membership and the   *)
(* access gate every Bar command goes through.  Every action is one        *)
(* committed transaction; InventoryTx shows that the row locks the code    *)
(* takes make the transactions of a Bar atomic.  A transaction that is     *)
(* refused, replays a receipt or changes nothing is a stuttering step.     *)
(***************************************************************************)
EXTENDS Versions

CONSTANTS
    Users,         \* registered accounts
    Workspaces,    \* identifiers of shared workspaces
    BarRequestIds, \* identifiers of creation intentions (UUIDs clients choose)
    BarPayloads,   \* name and accent of a new Bar
    NoRow          \* a row that does not exist

VARIABLES
    bar,           \* the Workspace row: its creation intention, or NoRow
    accessVersion, \* Workspace.accessVersion
    member         \* WorkspaceMember rows, by workspace and account

barVars == <<bar, accessVersion, member>>

MembershipStatus == {"none", "OWNER", "MEMBER", "revoked"}

Creation == [actor: Users, requestId: BarRequestIds, fingerprint: BarPayloads]

\* A row is never the missing row.
ASSUME NoRowIsNoCreation == NoRow \notin Creation

BarsTypeOK ==
    /\ bar \in [Workspaces -> Creation \union {NoRow}]
    /\ accessVersion \in [Workspaces -> Version]
    /\ member \in [Workspaces -> [Users -> MembershipStatus]]

-----------------------------------------------------------------------------

Active(w, u) == member[w][u] \in {"OWNER", "MEMBER"}

IsOwner(w, u) == member[w][u] = "OWNER"

\* WorkspaceAccessService.inTransaction with a command: the membership first,
\* then the access version, and only then the operation (receipts included).
Authorized(w, u, expectedAccessVersion) ==
    /\ Active(w, u)
    /\ VersionMatches(accessVersion[w], expectedAccessVersion)

OwnerAuthorized(w, u, expectedAccessVersion) ==
    /\ IsOwner(w, u)
    /\ VersionMatches(accessVersion[w], expectedAccessVersion)

\* The receipt of a creation intention.
CreatedBy(u, r) ==
    { w \in Workspaces : bar[w] # NoRow /\ bar[w].actor = u /\ bar[w].requestId = r }

-----------------------------------------------------------------------------

BarsInit ==
    /\ bar = [w \in Workspaces |-> NoRow]
    /\ accessVersion = [w \in Workspaces |-> 0]
    /\ member = [w \in Workspaces |-> [u \in Users |-> "none"]]

\* A known intention is answered from the existing row (or refused when its
\* payload differs), so only an unknown one inserts a workspace and its owner.
CreateBar(u, w, r, payload) ==
    /\ CreatedBy(u, r) = {}
    /\ bar[w] = NoRow
    /\ bar' = [bar EXCEPT ![w] =
                 [actor |-> u, requestId |-> r, fingerprint |-> payload]]
    /\ member' = [member EXCEPT ![w][u] = "OWNER"]
    /\ UNCHANGED accessVersion

\* The owner adds a registered account, or readmits a revoked one.
AddMember(u, w, target, expectedAccessVersion) ==
    /\ OwnerAuthorized(w, u, expectedAccessVersion)
    /\ member[w][target] \in {"none", "revoked"}
    /\ HasCapacity(accessVersion[w])
    /\ member' = [member EXCEPT ![w][target] = "MEMBER"]
    /\ accessVersion' = [accessVersion EXCEPT ![w] = @ + 1]
    /\ UNCHANGED bar

\* Mutation: a revocation leaves the access version as it was.
RevokeSilently(u, w, target, expectedAccessVersion) ==
    /\ OwnerAuthorized(w, u, expectedAccessVersion)
    /\ member[w][target] = "MEMBER"
    /\ member' = [member EXCEPT ![w][target] = "revoked"]
    /\ UNCHANGED <<bar, accessVersion>>

\* The owner revokes an active member; the owner's own row is out of reach.
RevokeMember(u, w, target, expectedAccessVersion) ==
    /\ OwnerAuthorized(w, u, expectedAccessVersion)
    /\ member[w][target] = "MEMBER"
    /\ HasCapacity(accessVersion[w])
    /\ member' = [member EXCEPT ![w][target] = "revoked"]
    /\ accessVersion' = [accessVersion EXCEPT ![w] = @ + 1]
    /\ UNCHANGED bar

BarsNext ==
    \E u \in Users, w \in Workspaces :
        \/ \E r \in BarRequestIds, payload \in BarPayloads : CreateBar(u, w, r, payload)
        \/ \E target \in Users, v \in Precondition :
              \/ AddMember(u, w, target, v)
              \/ RevokeMember(u, w, target, v)

BarsSpec == BarsInit /\ [][BarsNext]_barVars

-----------------------------------------------------------------------------

\* Ownership: an existing Bar is owned by the account that created it and by
\* nobody else, whatever additions and revocations follow; an identifier that
\* names no Bar has no member.  No handler of the code transfers ownership.
OwnerIsCreator ==
    \A w \in Workspaces, u \in Users :
        /\ IsOwner(w, u) <=> bar[w] # NoRow /\ bar[w].actor = u
        /\ bar[w] = NoRow => member[w][u] = "none"

\* Creation intentions: a retried or duplicated creation request never yields
\* a second Bar for the same account and intention identifier.
OneBarPerIntention ==
    \A v, w \in Workspaces :
        /\ bar[v] # NoRow
        /\ bar[w] # NoRow
        /\ bar[v].actor = bar[w].actor
        /\ bar[v].requestId = bar[w].requestId
        => v = w

BarsInv == OwnerIsCreator /\ OneBarPerIntention

\* Access versions date memberships: while a Bar exists its access version only
\* grows, never past its column, and two reads of the same access version saw the
\* same members.
\* A client that holds a version therefore knows the membership it was shown.
AccessVersionDatesMembership ==
    [][\A w \in Workspaces :
          bar[w] # NoRow =>
              /\ bar'[w] = bar[w]
              /\ accessVersion'[w] \in accessVersion[w] .. MaxVersion
              /\ member'[w] # member[w] => accessVersion'[w] > accessVersion[w]]_barVars
=============================================================================
