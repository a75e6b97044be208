----------------------------- MODULE MCGeoIndex -----------------------------
(* GeoIndex for TLC: s3 is the shop beyond the range of a GEO index, the     *)
(* other shops, the categories and the builders are not told apart.          *)
EXTENDS GeoIndex, TLC

Symmetry == Permutations(Shops \ Polar) \cup Permutations(Types)
            \cup Permutations(Builders)
=============================================================================
