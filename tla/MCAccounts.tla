------------------------------ MODULE MCAccounts ------------------------------
(* Two commands or turns at once, two connectors of one account.            *)
EXTENDS Accounts, TLC
Symmetry == Permutations(Process) \cup Permutations(Connector)
=============================================================================
