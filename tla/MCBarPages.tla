------------------------------ MODULE MCBarPages ------------------------------
(* The pages of a tab that act on a Bar, one per behaviour: they share the     *)
(* tables only.                                                                *)
EXTENDS InventoryClient, BarCreation, BarMembers

CONSTANTS alice, bob, w1, w2, p1, b1, b2, low, init, f1, f2

VARIABLE shown

MCRank == [x \in {alice, bob, w1, w2} |-> CASE x \in {w1, bob} -> 1 [] OTHER -> 2]

PagesVars == <<allVars, creationVars, membersVars, shown>>

NoStock == product = [p \in Products |-> NoRow] /\ movements = {}

PagesInit ==
    /\ \/ shown \in {"movement", "creation"} /\ BarsInit
       \/ shown = "members" /\ ManagedInit
    /\ NoStock /\ FormInit /\ SwitcherInit /\ PanelInit

PagesNext ==
    /\ \/ shown = "movement" /\ ClientNext /\ UNCHANGED <<creationVars, membersVars>>
       \/ shown = "creation" /\ CreationNext /\ UNCHANGED <<inventoryVars, clientVars, membersVars>>
       \/ shown = "members" /\ MembersNext /\ UNCHANGED <<inventoryVars, clientVars, creationVars>>
    /\ UNCHANGED shown

PagesSpec == PagesInit /\ [][PagesNext]_PagesVars
=============================================================================
