----------------------------- MODULE MCScanToPC -----------------------------
EXTENDS ScanToPC, TLC
AnyUser == Permutations(Users)
=============================================================================
