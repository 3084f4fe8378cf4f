------------------------------ MODULE MCDrafts ------------------------------
(* One shared computer tab: two accounts, a Bar and a personal notebook.   *)
EXTENDS Drafts

AliceAtHome == [user |-> "alice", place |-> "home"]
AliceAtBar  == [user |-> "alice", place |-> "bar"]
BobAtBar    == [user |-> "bob", place |-> "bar"]
MCOwners    == {AliceAtHome, BobAtBar}
MCPersonal  == {AliceAtHome}
=============================================================================
