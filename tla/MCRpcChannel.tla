---------------------------- MODULE MCRpcChannel ----------------------------
EXTENDS RpcChannel, TLC

Symmetry == Permutations(Call)
=============================================================================
