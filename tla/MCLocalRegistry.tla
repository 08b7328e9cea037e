-------------------------- MODULE MCLocalRegistry --------------------------
(* Three publishers of two versions of a package, and somebody who yanks.    *)
EXTENDS LocalRegistry

CONSTANTS p1, p2, p3, v1, v2

MCPublishers == {p1, p2, p3}
MCVersions == {v1, v2}
=============================================================================
