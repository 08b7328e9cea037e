--------------------------- MODULE MCCredentials ---------------------------
(* Two processes that log in to and out of two hosts.                    *)
EXTENDS Credentials, TLC

CONSTANTS p1, p2, s1, f1, f2, f3

MCProcs == {p1, p2}
MCHosts == {1, 2}
MCSecrets == {s1}
MCFiles == {f1, f2, f3}
MCSymmetry == Permutations(MCProcs) \cup Permutations(MCFiles)
=============================================================================
