---------------------------- MODULE MCSocketRecv ----------------------------
EXTENDS SocketRecvProofs, TLC
Symm == Permutations(Byte)
=============================================================================
