----------------------------- MODULE DraftVault -----------------------------
(***************************************************************************)
(* What the browser promises about unsent work, whatever the storage does: *)
(* a copy of a form belongs to one owner (an account in one workspace) and *)
(* grows only while that owner is being served, and a copy whose form was  *)
(* sent with an answer nobody saw is never offered as unsent again, not    *)
(* even after a reload, until the user has said what became of it or the   *)
(* copies of the form were given up (expiry, purge, full storage).         *)
(* Drafts implements this specification.                                   *)
(***************************************************************************)
CONSTANTS Owners,   \* accounts in a workspace
          Keys,     \* the forms a draft can be kept for
          Nobody    \* stands for no owner

VARIABLES served,   \* the owner being served, or Nobody
          offers,   \* what is kept for each owner and form, and how it is offered
          unknown   \* the owners and forms whose last submission has an unknown fate

vaultVars == <<served, offers, unknown>>

Slots  == Owners \X Keys
Offers == SUBSET {"unsent", "uncertain"}

VaultTypeOK ==
    /\ served \in Owners \cup {Nobody}
    /\ offers \in [Slots -> Offers]
    /\ unknown \subseteq Slots

(* A form whose submission has an unknown fate is not offered as unsent.   *)
NeverOfferedAgain == \A s \in unknown : "unsent" \notin offers[s]

VaultInit ==
    /\ served = Nobody
    /\ offers = [s \in Slots |-> {}]
    /\ unknown = {}

(* Copies outside S may vanish (storage full, expiry, purge), never appear;*)
(* a submission is unknown only as long as a copy of its form is left.     *)
OnlyLess(S) ==
    /\ offers' \in [Slots -> Offers]
    /\ \A s \in Slots \ S : offers'[s] \subseteq offers[s]
    /\ unknown' \subseteq unknown \cup S

Serve(o) == served' = o /\ OnlyLess({})

Forget == OnlyLess({}) /\ UNCHANGED served

(* The owner's work in a form is kept, in the way it may be offered.       *)
Keep(k) ==
    LET slot == <<served, k>>
    IN /\ served \in Owners
       /\ offers' \in [Slots -> Offers]
       /\ slot \in unknown => "unsent" \notin offers'[slot]
       /\ OnlyLess({slot})
       /\ unknown' \subseteq unknown
       /\ UNCHANGED served

(* A submission leaves: before it does, no copy says the form is unsent.   *)
Submit(k) ==
    /\ served \in Owners
    /\ offers'[<<served, k>>] \subseteq {"uncertain"}
    /\ OnlyLess({<<served, k>>})
    /\ UNCHANGED served

(* The server's definite answer, or the user's own check.                  *)
Resolve(k) ==
    /\ served \in Owners
    /\ offers' \in [Slots -> Offers]
    /\ unknown' = unknown \ {<<served, k>>}
    /\ \A s \in Slots \ {<<served, k>>} : offers'[s] \subseteq offers[s]
    /\ UNCHANGED served

VaultNext ==
    \/ \E o \in Owners \cup {Nobody} : Serve(o)
    \/ Forget
    \/ \E k \in Keys : Keep(k) \/ Submit(k) \/ Resolve(k)

VaultSpec == VaultInit /\ [][VaultNext]_vaultVars
=============================================================================
