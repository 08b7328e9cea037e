---------------------------- MODULE LocalRegistry ----------------------------
(***************************************************************************)
(* LocalRegistry (registry.py): a package in a directory tree that several *)
(* hdlpkg publish and yank commands share, without a lock file.  Creating  *)
(* the version's directory is the one step that only one of them can win.  *)
(*                                                                         *)
(* A file is absent (None) or a record of who wrote it and whether it has  *)
(* been written to the end.  The versions are those of one package: no two *)
(* packages share a directory.                                             *)
(***************************************************************************)
EXTENDS FiniteSets

CONSTANTS
    Publishers,     \* commands that publish; each has a core of its own
    Versions,       \* versions of the package
    None            \* no file, nobody

File == [by : Publishers, whole : BOOLEAN]

ASSUME NoneAssumption == None \notin Publishers \cup File

VARIABLES
    owner,      \* history: who created the version's directory, or None
    toml, ipkg, \* [Versions -> File or None]: the two files in it
    yanked,     \* versions with a .yanked marker
    pc, ver,    \* where each publisher is in publish_core, and of what
    stuck       \* history: versions whose publisher died or could not pack

diskVars == <<owner, toml, ipkg, yanked>>
vars == <<diskVars, pc, ver, stuck>>

Exists(v) == owner[v] # None

Init ==
    /\ owner = [v \in Versions |-> None]
    /\ toml = [v \in Versions |-> None]
    /\ ipkg = [v \in Versions |-> None]
    /\ yanked = {}
    /\ pc = [p \in Publishers |-> "idle"]
    /\ ver \in [Publishers -> Versions]
    /\ stuck = {}

Goto(p, l) == pc' = [pc EXCEPT ![p] = l]

\* `if dest.exists()`: a version that is there is refused, even a yanked or a
\* half-published one.
Refused(p, v) ==
    /\ pc[p] = "idle" /\ Exists(v)
    /\ UNCHANGED vars

Begin(p, v) ==
    /\ pc[p] = "idle" /\ ~Exists(v)
    /\ ver' = [ver EXCEPT ![p] = v]
    /\ Goto(p, "mkdir")
    /\ UNCHANGED <<diskVars, stuck>>

\* Mutant of Mkdir: exist_ok=True.
MkdirExistOk(p) ==
    /\ pc[p] = "mkdir"
    /\ owner' = IF Exists(ver[p]) THEN owner ELSE [owner EXCEPT ![ver[p]] = p]
    /\ Goto(p, "opentoml")
    /\ UNCHANGED <<toml, ipkg, yanked, ver, stuck>>

\* dest.mkdir creates the directory or, if another publisher has done so since
\* the check, raises FileExistsError (LosesRace).
Mkdir(p) ==
    /\ pc[p] = "mkdir" /\ ~Exists(ver[p])
    /\ owner' = [owner EXCEPT ![ver[p]] = p]
    /\ Goto(p, "opentoml")
    /\ UNCHANGED <<toml, ipkg, yanked, ver, stuck>>

LosesRace(p) ==
    /\ pc[p] = "mkdir" /\ Exists(ver[p])
    /\ Goto(p, "idle")
    /\ UNCHANGED <<diskVars, ver, stuck>>

\* write_bytes creates or truncates the file, then writes it.
OpenToml(p) ==
    /\ pc[p] = "opentoml"
    /\ toml' = [toml EXCEPT ![ver[p]] = [by |-> p, whole |-> FALSE]]
    /\ Goto(p, "writetoml")
    /\ UNCHANGED <<owner, ipkg, yanked, ver, stuck>>

\* Mutant of WriteToml: the command returns before it has packed.
WriteTomlOnly(p) ==
    /\ pc[p] = "writetoml"
    /\ toml' = [toml EXCEPT ![ver[p]].whole = TRUE]
    /\ Goto(p, "idle")
    /\ UNCHANGED <<owner, ipkg, yanked, ver, stuck>>

WriteToml(p) ==
    /\ pc[p] = "writetoml"
    /\ toml' = [toml EXCEPT ![ver[p]].whole = TRUE]
    /\ Goto(p, "pack")
    /\ UNCHANGED <<owner, ipkg, yanked, ver, stuck>>

\* pack_core runs before core.ipkg is opened.  A fileset that names a missing
\* file makes it raise; nothing removes the directory again.
PackFails(p) ==
    /\ pc[p] = "pack"
    /\ stuck' = stuck \cup {ver[p]}
    /\ Goto(p, "idle")
    /\ UNCHANGED <<diskVars, ver>>

OpenIpkg(p) ==
    /\ pc[p] = "pack"
    /\ ipkg' = [ipkg EXCEPT ![ver[p]] = [by |-> p, whole |-> FALSE]]
    /\ Goto(p, "writeipkg")
    /\ UNCHANGED <<owner, toml, yanked, ver, stuck>>

WriteIpkg(p) ==
    /\ pc[p] = "writeipkg"
    /\ ipkg' = [ipkg EXCEPT ![ver[p]].whole = TRUE]
    /\ Goto(p, "idle")
    /\ UNCHANGED <<owner, toml, yanked, ver, stuck>>

\* The publisher is killed, or a read or a write fails.
Die(p) ==
    /\ pc[p] # "idle"
    /\ stuck' = IF pc[p] = "mkdir" THEN stuck ELSE stuck \cup {ver[p]}
    /\ Goto(p, "idle")
    /\ UNCHANGED <<diskVars, ver>>

\* yank() asks for the directory only: also a half-published version can go.
Yank(v) ==
    /\ Exists(v)
    /\ yanked' = yanked \cup {v}
    /\ UNCHANGED <<owner, toml, ipkg, pc, ver, stuck>>

Publishing(p) ==
    \/ Mkdir(p) \/ LosesRace(p) \/ OpenToml(p) \/ WriteToml(p)
    \/ PackFails(p) \/ OpenIpkg(p) \/ WriteIpkg(p)

Next ==
    \/ \E p \in Publishers, v \in Versions : Refused(p, v) \/ Begin(p, v)
    \/ \E p \in Publishers : Publishing(p) \/ Die(p)
    \/ \E v \in Versions : Yank(v)

Spec == Init /\ [][Next]_vars

\* A publisher that is not killed is scheduled until publish_core is over.
FairSpec == Spec /\ \A p \in Publishers : WF_vars(Publishing(p))

-----------------------------------------------------------------------------
(* Properties.                                                             *)

Pcs == {"idle", "mkdir", "opentoml", "writetoml", "pack", "writeipkg"}

TypeOK ==
    /\ owner \in [Versions -> Publishers \cup {None}]
    /\ toml \in [Versions -> File \cup {None}]
    /\ ipkg \in [Versions -> File \cup {None}]
    /\ yanked \subseteq {v \in Versions : Exists(v)}
    /\ pc \in [Publishers -> Pcs]
    /\ ver \in [Publishers -> Versions]
    /\ stuck \subseteq Versions

Whole(f) == f # None /\ f.whole
Fetchable(v) == Whole(toml[v]) /\ Whole(ipkg[v])

\* A resolver is offered each directory without a marker (versions), whether
\* or not there is anything to fetch in it.  However publishers race, die or
\* fail to pack, an offered version that cannot be fetched is still being
\* published, or its publisher failed.
Listed(v) == Exists(v) /\ v \notin yanked
ListedIsFetchable ==
    \A v \in Versions :
        Listed(v) /\ ~Fetchable(v) =>
            \/ v \in stuck
            \/ \E p \in Publishers : pc[p] \notin {"idle", "mkdir"} /\ ver[p] = v

\* Only the publisher that created the directory ever writes in it, and no
\* other believes it may.
OnePublisher ==
    \A p \in Publishers :
        pc[p] \notin {"idle", "mkdir"} => owner[ver[p]] = p

\* A version someone has started on becomes fetchable unless its publisher
\* dies or cannot pack.
PublishEnds ==
    \A v \in Versions : Exists(v) ~> Fetchable(v) \/ v \in stuck

\* publish_core and yank keep the promise of every registry: what can be
\* fetched is the core of one publisher, for good, and a yank changes nothing
\* but the list.
CoreOf(v) ==
    CASE ~Fetchable(v) -> None
      [] Fetchable(v) /\ toml[v].by = ipkg[v].by -> toml[v].by
      [] OTHER -> <<toml[v].by, ipkg[v].by>>
Registry == INSTANCE AppendOnly WITH
    store <- [v \in Versions |-> CoreOf(v)], hidden <- yanked
KeepsThePromise == Registry!Spec
=============================================================================
