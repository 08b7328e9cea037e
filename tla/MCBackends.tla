----------------------------- MODULE MCBackends -----------------------------
(* Two commands of one user.  The first two commits hold one version with  *)
(* different bytes, the third the next version; an OCI and an HTTP         *)
(* registry serve one of the versions each, with bytes of their own.       *)
EXTENDS Backends, TLC

CONSTANTS c1, c2, t1, t2

MCCommands == {c1, c2}
MCCommits == 1..3
MCCore == <<[ver |-> 1, bytes |-> 1], [ver |-> 1, bytes |-> 2], [ver |-> 2, bytes |-> 3]>>
MCTags == {t1, t2}
MCTagOf == (t1 :> 1) @@ (t2 :> 2)
oci == [kind |-> "oci", ref |-> None]
http == [kind |-> "http", ref |-> None]
MCRemotes == {oci, http}
MCServed == (oci :> {[ver |-> 1, bytes |-> 4]}) @@ (http :> {[ver |-> 2, bytes |-> 5]})
MCSearchPaths == {<<GitAt(t1), GitAt(t2)>>, <<http, oci, GitAt(Tip)>>}
MCSymmetry == Permutations(MCCommands)
=============================================================================
