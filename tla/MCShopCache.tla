---------------------------- MODULE MCShopCache -----------------------------
(* ShopCache for TLC: no definition tells its processes, shops, readers or   *)
(* editors apart.                                                            *)
EXTENDS ShopCache, TLC

Symmetry ==
    Permutations(Procs) \cup Permutations(Shops)
        \cup Permutations(Readers) \cup Permutations(Editors)
=============================================================================
