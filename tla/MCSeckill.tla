----------------------------- MODULE MCSeckill ------------------------------
(***************************************************************************)
(* AsyncSeckill for TLC: users, enablers and workers are model values that *)
(* no definition tells apart, so their permutations are a symmetry.        *)
(***************************************************************************)
EXTENDS AsyncSeckillInv, VoucherView, TLC

Symmetry ==
    Permutations(Users) \cup Permutations(Enablers) \cup Permutations(Workers)
=============================================================================
