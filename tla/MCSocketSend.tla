---------------------------- MODULE MCSocketSend ----------------------------
EXTENDS SocketSendProofs, TLC
Symm == Permutations(Byte)
=============================================================================
