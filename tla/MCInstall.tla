----------------------------- MODULE MCInstall -----------------------------
(***************************************************************************)
(* Two commands on one project.  Package 1 needs package 2, of which there *)
(* are two versions, and the first of these, in its second revision, needs *)
(* package 1.  The registry changes once.                                  *)
(***************************************************************************)
EXTENDS Install, TLC

CONSTANTS p1, p2, r1, r2

MCProcs == {p1, p2}
MCRefs == {1, 2}
MCCores == {<<1, 1>>, <<2, 1>>, <<2, 2>>}
MCPublished == {<<1, 1>>, <<2, 1>>}
MCRevisions == {r1, r2}
MCOriginal == [c \in MCCores |-> r1]
MCNeeds ==
    [d \in MCCores \X MCRevisions |->
        CASE d[1][1] = 1 -> {2}
          [] d = <<<<2, 1>>, r2>> -> {1}
          [] OTHER -> {}]
Symmetry == Permutations(MCProcs)
=============================================================================
