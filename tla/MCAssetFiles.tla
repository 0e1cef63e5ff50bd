----------------------------- MODULE MCAssetFiles -----------------------------
(* An instance of AssetFiles for TLC.                                        *)
EXTENDS AssetFiles, TLC

Symmetry == Permutations(Photos) \cup Permutations(Tokens) \cup Permutations(Requests)
=============================================================================
