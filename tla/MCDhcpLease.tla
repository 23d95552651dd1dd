---------------------------- MODULE MCDhcpLease ----------------------------
EXTENDS DhcpLease, TLC
Symm == Permutations(Server)
=============================================================================
