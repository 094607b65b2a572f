---------------------------- MODULE MCBuildCache ----------------------------
(* Instances of BuildCache for TLC.                                        *)
EXTENDS BuildCache, TLC

\* The .mc files are alike, and so are the values of the options.
MCSymmetry == Permutations(McFiles) \cup Permutations(Compared)
=============================================================================
