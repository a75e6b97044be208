----------------------------- MODULE MCCommunity -----------------------------
(* Community for TLC: no definition tells requests, pictures or names apart. *)
EXTENDS Community, TLC

Symmetry ==
    Permutations(Signers) \cup Permutations(Uploads)
        \cup Permutations(Pictures) \cup Permutations(Names)
=============================================================================
