---------------------------- MODULE HttpRegistry ----------------------------
(***************************************************************************)
(* HttpRegistry (registry.py): a package on a server that knows GET and    *)
(* PUT and nothing else.  publish_core reads the list of versions, puts    *)
(* the two files of a version and then puts the list back with the version *)
(* added.  Any request may fail, also after the server has carried it out, *)
(* and any publisher may die between two requests.                         *)
(***************************************************************************)
EXTENDS FiniteSets

CONSTANTS
    Publishers,     \* commands that publish; each has a core of its own
    Versions,       \* versions of the package
    None            \* no file, nobody

ASSUME NoneAssumption == None \notin Publishers \cup Versions

VARIABLES
    listed,     \* versions.json; {} too if the server has none
    toml, ipkg, \* [Versions -> Publishers or None]: whose file it serves
    pc, ver,    \* where each publisher is in publish_core, and of what
    names,      \* [Publishers -> versions it read from versions.json]
    acked,      \* history: <<publisher, version>> reported as published
    blind,      \* history: publishers whose GET of the list failed
    raced,      \* history: two publishers have been at work at once
    blinded     \* history: a publisher has gone on after a failed GET

serverVars == <<listed, toml, ipkg>>
histVars == <<acked, raced, blinded>>
vars == <<serverVars, pc, ver, names, blind, histVars>>

Init ==
    /\ listed = {}
    /\ toml = [v \in Versions |-> None]
    /\ ipkg = [v \in Versions |-> None]
    /\ pc = [p \in Publishers |-> "idle"]
    /\ ver = [p \in Publishers |-> None]
    /\ names = [p \in Publishers |-> {}]
    /\ acked = {}
    /\ blind = {}
    /\ raced = FALSE
    /\ blinded = FALSE

AtWork == {p \in Publishers : pc[p] # "idle"}

Leave(p) ==
    /\ pc' = [pc EXCEPT ![p] = "idle"]
    /\ ver' = [ver EXCEPT ![p] = None]
    /\ names' = [names EXCEPT ![p] = {}]
    /\ blind' = blind \ {p}

\* Mutant of Enter: the list is read but not looked at.
EnterAnyway(p, v, seen) ==
    /\ pc[p] = "idle"
    /\ pc' = [pc EXCEPT ![p] = "toml"]
    /\ ver' = [ver EXCEPT ![p] = v]
    /\ names' = [names EXCEPT ![p] = seen]
    /\ raced' = (raced \/ AtWork # {})

Enter(p, v, seen) ==
    /\ pc[p] = "idle"
    /\ v \notin seen
    /\ pc' = [pc EXCEPT ![p] = "toml"]
    /\ ver' = [ver EXCEPT ![p] = v]
    /\ names' = [names EXCEPT ![p] = seen]
    /\ raced' = (raced \/ AtWork # {})

\* The version is in the list: refused.
Refused(p, v) ==
    /\ pc[p] = "idle" /\ v \in listed
    /\ UNCHANGED vars

ReadsList(p, v) ==
    /\ Enter(p, v, listed)
    /\ UNCHANGED <<serverVars, blind, acked, blinded>>

\* versions() takes any failed GET, a timeout or a 503 as well as a 404, for
\* "no versions".
MissesList(p, v) ==
    /\ Enter(p, v, {})
    /\ blind' = blind \cup {p}
    /\ blinded' = TRUE
    /\ UNCHANGED <<serverVars, acked>>

\* Mutant of PutToml: the artifact is forgotten.
PutTomlOnly(p) ==
    /\ pc[p] = "toml"
    /\ toml' = [toml EXCEPT ![ver[p]] = p]
    /\ pc' = [pc EXCEPT ![p] = "list"]
    /\ UNCHANGED <<listed, ipkg, ver, names, blind, histVars>>

PutToml(p) ==
    /\ pc[p] = "toml"
    /\ toml' = [toml EXCEPT ![ver[p]] = p]
    /\ pc' = [pc EXCEPT ![p] = "ipkg"]
    /\ UNCHANGED <<listed, ipkg, ver, names, blind, histVars>>

PutIpkg(p) ==
    /\ pc[p] = "ipkg"
    /\ ipkg' = [ipkg EXCEPT ![ver[p]] = p]
    /\ pc' = [pc EXCEPT ![p] = "list"]
    /\ UNCHANGED <<listed, toml, ver, names, blind, histVars>>

\* Mutant of PutList: the names that were read are not put back.
PutListAnew(p) ==
    /\ pc[p] = "list"
    /\ listed' = {ver[p]}
    /\ acked' = acked \cup {<<p, ver[p]>>}
    /\ Leave(p)
    /\ UNCHANGED <<toml, ipkg, raced, blinded>>

PutList(p) ==
    /\ pc[p] = "list"
    /\ listed' = names[p] \cup {ver[p]}
    /\ acked' = acked \cup {<<p, ver[p]>>}
    /\ Leave(p)
    /\ UNCHANGED <<toml, ipkg, raced, blinded>>

\* The server carries a PUT out but the answer is lost: the publisher sees a
\* failure and stops there.
AckLost(p) ==
    /\ \/ /\ pc[p] = "toml"
          /\ toml' = [toml EXCEPT ![ver[p]] = p] /\ UNCHANGED <<listed, ipkg>>
       \/ /\ pc[p] = "ipkg"
          /\ ipkg' = [ipkg EXCEPT ![ver[p]] = p] /\ UNCHANGED <<listed, toml>>
       \/ /\ pc[p] = "list"
          /\ listed' = names[p] \cup {ver[p]} /\ UNCHANGED <<toml, ipkg>>
    /\ Leave(p)
    /\ UNCHANGED histVars

\* A PUT fails, the core cannot be packed, or the publisher is killed.
Stop(p) ==
    /\ pc[p] # "idle"
    /\ Leave(p)
    /\ UNCHANGED <<serverVars, histVars>>

Next ==
    \/ \E p \in Publishers, v \in Versions :
        Refused(p, v) \/ ReadsList(p, v) \/ MissesList(p, v)
    \/ \E p \in Publishers :
        PutToml(p) \/ PutIpkg(p) \/ PutList(p) \/ AckLost(p) \/ Stop(p)

Spec == Init /\ [][Next]_vars

-----------------------------------------------------------------------------
(* Properties.                                                             *)

TypeOK ==
    /\ listed \subseteq Versions
    /\ toml \in [Versions -> Publishers \cup {None}]
    /\ ipkg \in [Versions -> Publishers \cup {None}]
    /\ pc \in [Publishers -> {"idle", "toml", "ipkg", "list"}]
    /\ ver \in [Publishers -> Versions \cup {None}]
    /\ \A p \in AtWork : ver[p] \in Versions /\ ver[p] \notin names[p]
    /\ names \in [Publishers -> SUBSET Versions]
    /\ acked \subseteq Publishers \X Versions
    /\ blind \subseteq AtWork
    /\ raced \in BOOLEAN /\ blinded \in BOOLEAN

\* The list is put last, so what it offers can be fetched: no crash, lost
\* answer, failed read or race makes it name a version with a file missing.
ListedIsFetchable ==
    \A v \in listed : toml[v] # None /\ ipkg[v] # None

\* A publisher that was told its core is published can rely on it: it stays
\* listed, with both its files, unless publishers overlapped or one of them
\* could not read the list.  Crashes, lost answers and retries by others on
\* the same version do no harm.
AckedStays ==
    ~raced /\ ~blinded =>
        \A a \in acked : a[2] \in listed /\ toml[a[2]] = a[1] /\ ipkg[a[2]] = a[1]

\* A version leaves the list only by the hand of a publisher that could not
\* read the list, or after publishers have overlapped: no crash, lost answer or
\* repeated publish takes one away.
VanishesOnlyUnseen ==
    [][listed \subseteq listed' \/ raced \/ \E p \in blind : pc[p] = "list"]_vars
=============================================================================
