------------------------------ MODULE MCVmList ------------------------------
(* Model-checking instances of VmList: the listing the window starts with  *)
(* and as many more as the changes at the server can start.                *)
EXTENDS VmList, TLC

CONSTANTS v1, v2, l1, l2, l3, l4

TwoVMs == {v1, v2}
FourListings == {l1, l2, l3, l4}
Alike == Permutations(TwoVMs) \cup Permutations(FourListings \ {First})
=============================================================================
