------------------------------ MODULE MCCache ------------------------------
(* The cache shared by three processes that put a key and one that     *)
(* gets it.  Keys share no name and no file: one key is enough.            *)
EXTENDS Cache

CONSTANTS p1, p2, p3, p4, d1, f1, f2, f3

MCPutters == {p1, p2, p3}
MCGetters == {p4}
MCDigests == {d1}
MCFiles == {f1, f2, f3}
=============================================================================
