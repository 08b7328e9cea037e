--------------------------- MODULE MCOciRegistry ---------------------------
(***************************************************************************)
(* Two publishers of one version: the server lets anybody pull or not, and *)
(* the credentials are a token or a password, for pulling or for pushing.  *)
(***************************************************************************)
EXTENDS OciRegistry, TLC

CONSTANTS p1, p2, v1
MCPublishers == {p1, p2}
MCVersions == {v1}

With(open, first, second, static) ==
    [open |-> open, rights |-> (p1 :> first @@ p2 :> second), static |-> static]

MCSetups == {
    With(FALSE, "push", "push", {p2}),
    With(TRUE, "push", "pull", {}),
    With(FALSE, "pull", "push", {p1}),
    With(TRUE, "push", "push", {p1})}
=============================================================================
