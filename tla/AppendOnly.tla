----------------------------- MODULE AppendOnly -----------------------------
(***************************************************************************)
(* What every writable registry promises of one package, whichever backend *)
(* holds it: a version, once it can be fetched, is one publisher's core    *)
(* and stays that core; yanking hides it and changes nothing else.         *)
(* publish_core and yank of class Registry (registry.py) are the two       *)
(* operations.                                                             *)
(***************************************************************************)
CONSTANTS
    Publishers,     \* who may publish; each has a core of its own to offer
    Versions,       \* versions of the package
    None

VARIABLES
    store,      \* [Versions -> Publishers \cup {None}]: whose core it is
    hidden      \* versions new resolves are not offered

Init ==
    /\ store = [v \in Versions |-> None]
    /\ hidden = {}

Publish(p, v) ==
    /\ store[v] = None
    /\ store' = [store EXCEPT ![v] = p]
    /\ UNCHANGED hidden

Yank(v) ==
    /\ hidden' = hidden \cup {v}
    /\ UNCHANGED store

Next ==
    \E v \in Versions : Yank(v) \/ \E p \in Publishers : Publish(p, v)

Spec == Init /\ [][Next]_<<store, hidden>>
=============================================================================
