--------------------------- MODULE MCHttpRegistry ---------------------------
(* Two publishers of three versions of a package.                            *)
EXTENDS HttpRegistry, TLC

CONSTANTS p1, p2, v1, v2, v3

MCPublishers == {p1, p2}
MCVersions == {v1, v2, v3}
Symmetry == Permutations(MCPublishers) \cup Permutations(MCVersions)
=============================================================================
