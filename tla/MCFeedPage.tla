----------------------------- MODULE MCFeedPage -----------------------------
(* FeedPage for TLC: neither readers nor authors are told apart.             *)
EXTENDS FeedPage, TLC

Symmetry == Permutations(Readers) \cup Permutations(Authors)
=============================================================================
