---------------------------- MODULE MCFeedIndex -----------------------------
(* FeedIndex for TLC: neither readers nor authors are told apart.            *)
EXTENDS FeedIndex, TLC

Symmetry == Permutations(Readers) \cup Permutations(Authors)
=============================================================================
