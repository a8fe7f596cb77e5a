------------------------------ MODULE MCAccounts ------------------------------
(* Instances of Accounts for TLC: every id has the same username.            *)
EXTENDS Accounts, TLC

CONSTANT Bob    \* a username other than admin

OneName == [u \in Ids |-> Bob]
===============================================================================
