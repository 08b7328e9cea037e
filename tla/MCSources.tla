----------------------------- MODULE MCSources -----------------------------
(***************************************************************************)
(* At most three commands, two at a time, and a lock with two versions of  *)
(* one package: one has a file before ip.toml in its archive, the other    *)
(* one after it.  The lock pins both, or has lost the second checksum.     *)
(***************************************************************************)
EXTENDS Sources, TLC

CONSTANTS p1, p2, fifo, r1, r2

MCProcs == {p1, p2}
MCCores == {1, 2}
MCPackage == [c \in MCCores |-> fifo]
MCHolds == [c \in MCCores |-> IF c = 1 THEN {1, 2} ELSE {2, 3}]
MCRevisions == {r1, r2}
MCLocks == {<< <<1, r1>>, <<2, r1>> >>, << <<1, r1>>, NoSum >>}
Symmetry == Permutations(MCProcs)
=============================================================================
