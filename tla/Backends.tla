------------------------------- MODULE Backends -------------------------------
(***************************************************************************)
(* What a command reads cores from (registry.py): the backends of an       *)
(* ordered search path (CompositeRegistry), or the one a lock entry names  *)
(* (LockSourceRegistry).  One package is enough: the lists a composite     *)
(* remembers are per package, and a repository holds one core at its root. *)
(*                                                                         *)
(* All git locations of one repository share one clone on disk, with one   *)
(* working tree, whatever their refs.  A GitRegistry checks its commit out *)
(* and notes it when it is built; what it hands out later is read from the *)
(* tree as it is by then.  A remote (HTTP or OCI) answers or does not,     *)
(* each time it is asked.                                                  *)
(***************************************************************************)
EXTENDS Integers, Sequences, FiniteSets

CONSTANTS
    Commands,   \* processes of one user
    Commits,    \* 1..n, the history of the repository's default branch
    FirstTip,   \* the tip when the first command starts
    Core,       \* [Commits -> [ver, bytes]]: the core in each commit
    Tags,       \* tag names
    TagOf,      \* [Tags -> Commits]
    Remotes,    \* remote locations: records with kind "http" or "oci"
    Served,     \* [Remotes -> a set of cores]
    SearchPaths,\* sequences of locations: --registry, in order
    Tip,       \* the ref of a location without one: the default branch
    Unreachable,\* the answer of a backend that raised
    None        \* no commit, no entry

ASSUME CommitsAssumption == \A k \in Commits : k \in Nat \ {0} /\ 1..k \subseteq Commits
ASSUME TipAssumption == FirstTip \in Commits
ASSUME CoreAssumption == Core \in [Commits -> [ver : Int, bytes : Int]]
ASSUME TagsAssumption == TagOf \in [Tags -> Commits]

\* No tag or branch is named like a commit.
ASSUME RefsAssumption == Tags \cap Commits = {} /\ Tip \notin Commits /\ None \notin Commits

\* A remote serves one core of a version.
ASSUME ServedAssumption ==
    \A r \in Remotes : r.kind # "git" /\ \A x, y \in Served[r] : x.ver = y.ver => x = y
ASSUME PathsAssumption ==
    SearchPaths \subseteq Seq(Remotes \cup [kind : {"git"}, ref : Tags \cup {Tip} \cup Commits])

VARIABLES
    tip,        \* the tip of the default branch, at the remote
    clone,      \* the clone: "absent", "part" (under way, or killed) or "whole"
    known,      \* commits whose objects the clone has
    tracked,    \* origin/HEAD's branch in the clone, or None
    tree,       \* the commit in its working tree, or None
    lock,       \* ip.lock: an entry, or None
    pc,         \* where each command is
    path,       \* its locations
    built,      \* the backends it has built so far
    memo,       \* what each backend answered when asked for versions
    entry,      \* the lock entry it makes or installs
    warned,     \* the positions in path it has warned about
    moved,      \* history: commands with a backend whose commit has not been
                \* in the tree all the time since
    tainted     \* history: the lock was made by such a command

cloneVars == <<clone, known, tracked, tree>>
cmdVars   == <<path, built, memo, entry, warned>>
vars      == <<tip, cloneVars, lock, pc, cmdVars, moved, tainted>>

Versions == {Core[k].ver : k \in Commits}
            \cup {x.ver : x \in UNION {Served[r] : r \in Remotes}}
GitAt(ref) == [kind |-> "git", ref |-> ref]     \* git+<url>@<ref>
IsGit(loc) == loc.kind = "git"
Backend(aim) == [aim |-> aim, commit |-> None, vers |-> {}]
Blank == [ver |-> None, src |-> None, sum |-> None, locked |-> FALSE]

Init ==
    /\ tip = FirstTip
    /\ clone = "absent"
    /\ known = {}
    /\ tracked = None
    /\ tree = None
    /\ lock = None
    /\ pc = [c \in Commands |-> "idle"]
    /\ path = [c \in Commands |-> <<>>]
    /\ built = [c \in Commands |-> <<>>]
    /\ memo = [c \in Commands |-> <<>>]
    /\ entry = [c \in Commands |-> Blank]
    /\ warned = [c \in Commands |-> {}]
    /\ moved = {}
    /\ tainted = FALSE

Goto(c, where) == pc' = [pc EXCEPT ![c] = where]

\* The command returns, raises or is killed.
Ends(c) ==
    /\ Goto(c, "idle")
    /\ path' = [path EXCEPT ![c] = <<>>]
    /\ built' = [built EXCEPT ![c] = <<>>]
    /\ memo' = [memo EXCEPT ![c] = <<>>]
    /\ entry' = [entry EXCEPT ![c] = Blank]
    /\ warned' = [warned EXCEPT ![c] = {}]
    /\ moved' = moved \ {c}

-----------------------------------------------------------------------------
(* Building the backends, in the order of the path.                        *)

\* install or resolve with --registry flags (composite_registry_from_locations)
\* or a locked install, whose only location is the entry's source.
StartResolve(c) ==
    /\ pc[c] = "idle"
    /\ \E p \in SearchPaths : path' = [path EXCEPT ![c] = p]
    /\ Goto(c, "build")
    /\ UNCHANGED <<tip, cloneVars, lock, built, memo, entry, warned, moved, tainted>>

StartLocked(c) ==
    /\ pc[c] = "idle"
    /\ lock # None
    /\ path' = [path EXCEPT ![c] = <<lock.src>>]
    /\ entry' = [entry EXCEPT ![c] = [lock EXCEPT !.locked = TRUE]]
    /\ Goto(c, "build")
    /\ UNCHANGED <<tip, cloneVars, lock, built, memo, warned, moved, tainted>>

Nth(c) == Len(built[c]) + 1
Loc(c) == path[c][Nth(c)]
Building(c) == pc[c] = "build" /\ Nth(c) <= Len(path[c])
BuildingGit(c) == Building(c) /\ IsGit(Loc(c))

\* An HttpRegistry or OciRegistry is built without a request.
BuildRemote(c) ==
    /\ Building(c)
    /\ ~IsGit(Loc(c))
    /\ built' = [built EXCEPT ![c] = Append(@, Backend(None))]
    /\ UNCHANGED <<tip, cloneVars, lock, pc, path, memo, entry, warned, moved, tainted>>

Pushed == 1..tip \cup {TagOf[t] : t \in Tags}

\* Who has a backend whose commit is not, or no longer, k when the tree becomes k.
Loses(k) ==
    {c \in Commands : \E i \in DOMAIN built[c] : built[c][i].aim \notin {None, k}}

\* No .git yet: git clone, which makes one, and checks the default branch out when
\* it has everything.
CloneStarts(c) ==
    /\ BuildingGit(c)
    /\ clone = "absent"
    /\ clone' = "part"
    /\ Goto(c, "clone")
    /\ UNCHANGED <<tip, known, tracked, tree, lock, cmdVars, moved, tainted>>

CloneEnds(c) ==
    /\ pc[c] = "clone"
    /\ clone' = "whole"
    /\ known' = Pushed
    /\ tracked' = tip
    /\ tree' = tip
    /\ moved' = moved \cup Loses(tip)
    /\ Goto(c, "checkout")
    /\ UNCHANGED <<tip, lock, cmdVars, tainted>>

\* A clone that fails removes what it made.  One that is killed does not (Stop),
\* and leaves a .git that knows no branch of the remote, nor ever learns of one:
\* the refspec that a fetch would need was still to be written.
CloneFails(c) ==
    /\ pc[c] = "clone"
    /\ clone' = "absent"
    /\ known' = {}
    /\ tracked' = None
    /\ tree' = None
    /\ moved' = (moved \cup Loses(None)) \ {c}
    /\ Goto(c, "failed")
    /\ UNCHANGED <<tip, lock, cmdVars, tainted>>

\* _commit_present: an exact commit that the clone has needs no fetch.
Fetch(c) ==
    /\ BuildingGit(c)
    /\ clone # "absent"
    /\ Loc(c).ref \notin known
    /\ known' = known \cup Pushed
    /\ tracked' = IF clone = "whole" THEN tip ELSE tracked
    /\ Goto(c, "checkout")
    /\ UNCHANGED <<tip, clone, tree, lock, cmdVars, moved, tainted>>

NoFetch(c) ==
    /\ BuildingGit(c)
    /\ clone # "absent"
    /\ Loc(c).ref \in known
    /\ Goto(c, "checkout")
    /\ UNCHANGED <<tip, cloneVars, lock, cmdVars, moved, tainted>>

\* _resolve: a tag before a branch before a commit; None raises.
Target(ref) ==
    IF ref \in Tags THEN TagOf[ref]
    ELSE IF ref = Tip THEN tracked
    ELSE IF ref \in known THEN ref
    ELSE None

\* Mutant of Checkout: a tree that is there is taken as it is.
CheckoutOnce(c) ==
    /\ pc[c] = "checkout"
    /\ Target(Loc(c).ref) # None
    /\ LET k == Target(Loc(c).ref) IN
        /\ tree' = IF tree = None THEN k ELSE tree
        /\ moved' = moved \cup Loses(k)
        /\ built' = [built EXCEPT ![c] = Append(@, Backend(k))]
    /\ Goto(c, "note")
    /\ UNCHANGED <<tip, clone, known, tracked, lock, path, memo, entry, warned, tainted>>

\* git checkout --force: the tree changes under every command that reads it.
Checkout(c) ==
    /\ pc[c] = "checkout"
    /\ Target(Loc(c).ref) # None
    /\ LET k == Target(Loc(c).ref) IN
        /\ tree' = k
        /\ moved' = moved \cup Loses(k)
        /\ built' = [built EXCEPT ![c] = Append(@, Backend(k))]
    /\ Goto(c, "note")
    /\ UNCHANGED <<tip, clone, known, tracked, lock, path, memo, entry, warned, tainted>>

\* rev-parse HEAD is the backend's commit from now on.
Notes(c) ==
    /\ pc[c] = "note"
    /\ tree # None
    /\ built' = [built EXCEPT ![c][Len(built[c])].commit = tree]
    /\ Goto(c, "scan")
    /\ UNCHANGED <<tip, cloneVars, lock, path, memo, entry, warned, moved, tainted>>

\* LocalDirectoryRegistry.__init__: the cores found in the tree.
Scans(c) ==
    /\ pc[c] = "scan"
    /\ tree # None
    /\ built' = [built EXCEPT ![c][Len(built[c])].vers = {Core[tree].ver}]
    /\ Goto(c, "build")
    /\ UNCHANGED <<tip, cloneVars, lock, path, memo, entry, warned, moved, tainted>>

-----------------------------------------------------------------------------
(* Asking them.                                                            *)

\* What backend i of c may answer to versions(ref).  A git backend never fails,
\* it has its list; an HTTP one that cannot be reached says "no versions".
Answers(c, i) ==
    LET loc == path[c][i] IN
    IF IsGit(loc) THEN {built[c][i].vers}
    ELSE {{x.ver : x \in Served[loc]},
          IF loc.kind = "http" THEN {} ELSE {Unreachable}}

\* _versions_of: an answer is remembered for the rest of the command.
Asked(c) ==
    IF memo[c] # <<>> THEN {memo[c]}
    ELSE {m \in [DOMAIN path[c] -> SUBSET (Versions \cup {Unreachable})] :
            \A i \in DOMAIN m : m[i] \in Answers(c, i)}
Failed(m) == {i \in DOMAIN m : m[i] = {Unreachable}}

\* Mutant of Remembered: every call asks every backend again.
RememberedNot(m) == <<>>
Remembered(m) == m

\* _owner: the first backend, in order, that listed v.
Owners(m, v) == {i \in DOMAIN m : v \in m[i]}
Owner(m, v) == CHOOSE i \in Owners(m, v) : \A j \in Owners(m, v) : i <= j

\* What backend i hands out for v now: whatever lies in the tree, as artifact_bytes
\* does not look whether it is still v.
CoresAt(c, i, v) ==
    IF IsGit(path[c][i]) THEN {Core[k] : k \in {tree} \ {None}} ELSE {x \in Served[path[c][i]] : x.ver = v}

\* Mutant of Warns: an unreachable backend is skipped in silence.
WarnsNot(c, m) == warned' = warned
Warns(c, m) == warned' = [warned EXCEPT ![c] = @ \cup Failed(m)]

\* source_for: what was noted, not what is in the tree.
SourceOf(c, i) == IF IsGit(path[c][i]) THEN GitAt(built[c][i].commit) ELSE path[c][i]

\* available_from_registry, then the resolver: the manifests of all the versions
\* listed are read from their owners, and one of them is selected.  A single
\* backend that cannot be reached raises, and so do a manifest that is not there
\* and, in _owner, a version nobody listed.  source_for then looks at no backend.
Selects(c) ==
    /\ pc[c] = "build"
    /\ Nth(c) > Len(path[c])
    /\ ~entry[c].locked
    /\ \E m \in Asked(c) :
        LET listed == UNION {m[i] : i \in DOMAIN m \ Failed(m)}
            read == UNION {CoresAt(c, Owner(m, v), v) : v \in listed}
        IN  /\ Len(path[c]) = 1 => Failed(m) = {}
            /\ \E v \in listed \cap {x.ver : x \in read} :
                entry' = [entry EXCEPT ![c].ver = v, ![c].src = SourceOf(c, Owner(m, v))]
            /\ memo' = [memo EXCEPT ![c] = Remembered(m)]
            /\ Warns(c, m)
    /\ Goto(c, "sum")
    /\ UNCHANGED <<tip, cloneVars, lock, path, built, moved, tainted>>

\* _build_lock's checksum: artifact_bytes, by way of _owner.
Digests(c) ==
    /\ pc[c] = "sum"
    /\ \E m \in Asked(c) :
        /\ Owners(m, entry[c].ver) # {}
        /\ \E x \in CoresAt(c, Owner(m, entry[c].ver), entry[c].ver) :
            entry' = [entry EXCEPT ![c].sum = x]
        /\ memo' = [memo EXCEPT ![c] = Remembered(m)]
        /\ Warns(c, m)
    /\ Goto(c, "fetch")
    /\ UNCHANGED <<tip, cloneVars, lock, path, built, moved, tainted>>

WritesLock(c) ==
    /\ lock' = entry[c]
    /\ tainted' = (c \in moved)

\* `hdlpkg resolve` writes the lock and fetches nothing.
Resolves(c) ==
    /\ pc[c] = "fetch"
    /\ WritesLock(c)
    /\ Ends(c)
    /\ UNCHANGED <<tip, cloneVars>>

\* Registry.fetch and Lockfile.verify: the digest must be the entry's.
Fetching(c) ==
    \/ pc[c] = "fetch"
    \/ pc[c] = "build" /\ Nth(c) > Len(path[c]) /\ entry[c].locked

FetchOwner(c) ==
    IF entry[c].locked THEN {1}
    ELSE {Owner(m, entry[c].ver) : m \in {x \in Asked(c) : Owners(x, entry[c].ver) # {}}}

Installs(c) ==
    /\ Fetching(c)
    /\ \E i \in FetchOwner(c) : entry[c].sum \in CoresAt(c, i, entry[c].ver)
    /\ IF entry[c].locked THEN UNCHANGED <<lock, tainted>> ELSE WritesLock(c)
    /\ Ends(c)
    /\ UNCHANGED <<tip, cloneVars>>

Mismatch(c) ==
    /\ Fetching(c)
    /\ \E i \in FetchOwner(c) : \E x \in CoresAt(c, i, entry[c].ver) : x # entry[c].sum
    /\ Goto(c, "mismatch")
    /\ UNCHANGED <<tip, cloneVars, lock, cmdVars, moved, tainted>>

\* Any other error, a kill, or the end after a mismatch.
Stop(c) ==
    /\ pc[c] # "idle"
    /\ Ends(c)
    /\ UNCHANGED <<tip, cloneVars, lock, tainted>>

\* Others commit to the default branch.
Push ==
    /\ tip + 1 \in Commits
    /\ tip' = tip + 1
    /\ UNCHANGED <<cloneVars, lock, pc, cmdVars, moved, tainted>>

Next ==
    \/ Push
    \/ \E c \in Commands :
        \/ StartResolve(c) \/ StartLocked(c) \/ BuildRemote(c)
        \/ CloneStarts(c) \/ CloneEnds(c) \/ CloneFails(c) \/ Fetch(c) \/ NoFetch(c)
        \/ Checkout(c) \/ Notes(c) \/ Scans(c)
        \/ Selects(c) \/ Digests(c) \/ Resolves(c)
        \/ Installs(c) \/ Mismatch(c) \/ Stop(c)

Spec == Init /\ [][Next]_vars
-----------------------------------------------------------------------------
TypeOK ==
    /\ tip \in Commits
    /\ clone \in {"absent", "part", "whole"}
    /\ known \subseteq Commits
    /\ {tracked, tree} \subseteq Commits \cup {None}
    /\ pc \in [Commands -> {"idle", "build", "clone", "failed", "checkout", "note",
                             "scan", "sum", "fetch", "mismatch"}]
    /\ \A c \in Commands :
        /\ Len(built[c]) <= Len(path[c])
        /\ memo[c] # <<>> => DOMAIN memo[c] = DOMAIN path[c]
        /\ warned[c] \subseteq DOMAIN path[c]
    /\ moved \subseteq Commands

\* The entry's source, read by itself, holds the bytes that the entry pins, and
\* they are of the version that it names.
Truthful(e) ==
    /\ e.sum.ver = e.ver
    /\ IF IsGit(e.src) THEN e.sum = Core[e.src.ref] ELSE e.sum \in Served[e.src]

\* A lock entry's source, version and checksum belong together, whatever failed
\* and whoever committed meanwhile, but when the working tree was taken away from
\* the command that made it.
SourceNamesBytes == lock # None /\ ~tainted => Truthful(lock)

\* GitRegistry: "The lockfile ``source`` binds each pinned core to the exact commit
\* (``git+<url>@<sha>``), so a VLNV/version is traceable to immutable source."
LockBindsCommit == lock # None /\ IsGit(lock.src) => lock.sum = Core[lock.src.ref]

\* Bytes that differ from the entry's are the fault of a moved tree, under this
\* command or under the one that made the entry.
MismatchMeansMoved ==
    \A c \in Commands : pc[c] = "mismatch" =>
        \/ c \in moved
        \/ entry[c].locked /\ ~Truthful(entry[c])

\* The position in the path of the backend that the entry names.
Origin(c) == CHOOSE i \in DOMAIN path[c] :
    /\ SourceOf(c, i) = entry[c].src
    /\ \A j \in DOMAIN path[c] : SourceOf(c, j) = entry[c].src => i <= j

Offers(c, i, v) ==
    IF IsGit(path[c][i]) THEN v \in built[c][i].vers
    ELSE \E x \in Served[path[c][i]] : x.ver = v

\* The first location in order that has the version wins, and one that has it and
\* was passed over because it could not be reached has been warned about, unless
\* it is an HTTP one.
SkippedIsWarned ==
    \A c \in Commands : pc[c] \in {"sum", "fetch"} /\ ~entry[c].locked =>
        \A i \in 1..Origin(c) - 1 :
            Offers(c, i, entry[c].ver) => i \in warned[c] \/ path[c][i].kind = "http"
=============================================================================
