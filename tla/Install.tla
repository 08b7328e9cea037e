------------------------------ MODULE Install ------------------------------
(***************************************************************************)
(* install, resolve and their --locked, plain and add-a-dependency forms   *)
(* (cli.py) over one project directory and a registry that other people go *)
(* on changing.  Several commands may run at once, and any of them may die *)
(* or meet an error between two steps.                                     *)
(*                                                                         *)
(* A core is <<package, version>>.  The bytes of its artifact come in      *)
(* revisions, and a digest is the pair of a core and a revision: two       *)
(* artifacts digest alike exactly when they are the same bytes.  A core's  *)
(* manifest is part of them, so what it needs is a matter of its digest.   *)
(* Which versions are chosen is Resolver's affair: here a resolve takes    *)
(* the newest version on offer of everything the manifest needs, directly  *)
(* or through other cores.  What fetching does to the blob cache is        *)
(* Cache's.                                                                *)
(***************************************************************************)
EXTENDS Integers, FiniteSets

CONSTANTS
    Procs,      \* commands that run at the same time
    Refs,       \* packages, numbered in the order of their names
    Cores,      \* <<package, version>> pairs that may be published
    Revisions,  \* what the bytes of an artifact may be
    Needs,      \* per digest, the packages those bytes depend on
    Published,  \* cores on offer to begin with
    Original,   \* [Cores -> Revisions]: what the registry serves to begin with
    MaxDrift,   \* bound on the registry's changes
    NoSum       \* a lock entry without a checksum line

ASSUME RefsAssumption == Refs \subseteq Nat
ASSUME CoresAssumption == Cores \subseteq Refs \X Nat /\ IsFiniteSet(Cores)
ASSUME NeedsAssumption == Needs \in [Cores \X Revisions -> SUBSET Refs]
ASSUME PublishedAssumption == Published \subseteq Cores
ASSUME OriginalAssumption == Original \in [Cores -> Revisions]
ASSUME MaxDriftAssumption == MaxDrift \in Nat
ASSUME NoSumAssumption == NoSum \notin Cores \X Revisions

Digests == Cores \X Revisions
Entries == [core : Cores, sum : Digests \cup {NoSum}]
Kinds == {"add", "plain", "locked", "update", "resolve"}

VARIABLES
    offers,     \* cores the registry lists
    bytes,      \* [Cores -> Revisions]: the artifact the registry serves
    drift,      \* how often the registry has changed
    edited,     \* history: cores whose bytes changed after they were served
    manifest,   \* direct dependencies in ip.toml
    lock,       \* ip.lock: state "absent", "broken" or "text", and entries
    torn,       \* history: ip.lock is not the whole of one command's text
    mixed,      \* history: two commands have had ip.lock open at once
    basis,      \* history: what the resolve behind ip.lock has read
    pc, kind,   \* what each command is at, and which command it is
    wanted,     \* the manifest it is about to write
    plan,       \* the lock entries it works from
    got,        \* digests of what it has fetched
    read        \* history: digests of what its resolve selected, as it read them

regVars == <<offers, bytes, drift, edited>>
fileVars == <<manifest, lock, torn, mixed, basis>>
procVars == <<pc, kind, wanted, plan, got, read>>
vars == <<regVars, fileVars, procVars>>

Absent == [state |-> "absent", entries |-> {}]
Broken == [state |-> "broken", entries |-> {}]
Text(entries) == [state |-> "text", entries |-> entries]

Init ==
    /\ offers = Published
    /\ bytes = Original
    /\ drift = 0
    /\ edited = {}
    /\ manifest \in SUBSET Refs
    /\ lock = Absent
    /\ torn = FALSE
    /\ mixed = FALSE
    /\ basis = {}
    /\ pc = [p \in Procs |-> "idle"]
    /\ kind = [p \in Procs |-> "plain"]
    /\ wanted = [p \in Procs |-> {}]
    /\ plan = [p \in Procs |-> {}]
    /\ got = [p \in Procs |-> {}]
    /\ read = [p \in Procs |-> {}]

-----------------------------------------------------------------------------
(* The registry: publishing, yanking, and a source tree that is edited     *)
(* under --search, whose manifest and files are read anew every time: an   *)
(* edit may change what a core needs.                                      *)

Changes == drift < MaxDrift /\ drift' = drift + 1

Publish(c) ==
    /\ Changes /\ c \notin offers
    /\ offers' = offers \cup {c}
    /\ UNCHANGED <<bytes, edited, fileVars, procVars>>

Yank(c) ==
    /\ Changes /\ c \in offers
    /\ offers' = offers \ {c}
    /\ UNCHANGED <<bytes, edited, fileVars, procVars>>

Edit(c) ==
    /\ Changes
    /\ \E r \in Revisions \ {bytes[c]} : bytes' = [bytes EXCEPT ![c] = r]
    /\ edited' = edited \cup {c}
    /\ UNCHANGED <<offers, fileVars, procVars>>

-----------------------------------------------------------------------------
(* What a resolve selects.                                                 *)

\* The newest version on offer of a package.
NewestOffer(r) ==
    CHOOSE c \in offers : c[1] = r /\ \A d \in offers : d[1] = r => d[2] <= c[2]

Served(c) == <<c, bytes[c]>>

\* Offered cores, one per package and the newest, that between them have all
\* that refs and they themselves, as they are now, need.
Solves(S, refs) ==
    /\ \A r \in refs : \E c \in S : c[1] = r
    /\ \A c \in S : \A r \in Needs[Served(c)] : \E d \in S : d[1] = r
    /\ \A c \in S : c = NewestOffer(c[1])
\* Mutant: only what the manifest itself names.
SelectionsDirect(refs) ==
    {S \in SUBSET offers : /\ \A c \in S : c[1] \in refs /\ c = NewestOffer(c[1])
                           /\ \A r \in refs : \E c \in S : c[1] = r}

Selections(refs) ==
    {S \in SUBSET offers : Solves(S, refs) /\ \A T \in SUBSET S : Solves(T, refs) => T = S}

\* Each package is locked, at a version that its constraint may or may not match.
LockSatisfies(entries, refs) == \A r \in refs : \E e \in entries : e.core[1] = r

-----------------------------------------------------------------------------
(* The commands.                                                           *)

Goto(p, l) == pc' = [pc EXCEPT ![p] = l]

Start(p, k) ==
    /\ pc[p] = "idle"
    /\ kind' = [kind EXCEPT ![p] = k]
    /\ Goto(p, CASE k = "add" -> "edit"
                 [] k \in {"plain", "locked"} -> "readlock"
                 [] OTHER -> "resolve")
    /\ UNCHANGED <<regVars, fileVars, wanted, plan, got, read>>

\* install <dependency>: the manifest is edited before anything is resolved;
\* the rest is an install that resolves.
AddReads(p) ==
    /\ pc[p] = "edit"
    /\ \E r \in Refs : wanted' = [wanted EXCEPT ![p] = manifest \cup {r}]
    /\ Goto(p, "save")
    /\ UNCHANGED <<regVars, fileVars, kind, plan, got, read>>

AddWrites(p) ==
    /\ pc[p] = "save"
    /\ manifest' = wanted[p]
    /\ wanted' = [wanted EXCEPT ![p] = {}]
    /\ kind' = [kind EXCEPT ![p] = "update"]
    /\ Goto(p, "resolve")
    /\ UNCHANGED <<regVars, lock, torn, mixed, basis, plan, got, read>>

\* A plain install without a lock resolves; --locked stops without one (Stop).
NoLock(p) ==
    /\ pc[p] = "readlock" /\ kind[p] = "plain" /\ lock.state = "absent"
    /\ kind' = [kind EXCEPT ![p] = "update"]
    /\ Goto(p, "resolve")
    /\ UNCHANGED <<regVars, fileVars, wanted, plan, got, read>>

\* A lock that does not parse stops both (Stop).
ReadLock(p) ==
    /\ pc[p] = "readlock" /\ lock.state = "text"
    /\ plan' = [plan EXCEPT ![p] = lock.entries]
    /\ Goto(p, IF kind[p] = "locked" THEN "fetch" ELSE "check")
    /\ UNCHANGED <<regVars, fileVars, kind, wanted, got, read>>

\* A plain install uses the lock it read if that covers the direct
\* dependencies of the manifest as it is now: from there on it does what
\* --locked does.
UseLock(p) ==
    /\ pc[p] = "check" /\ LockSatisfies(plan[p], manifest)
    /\ kind' = [kind EXCEPT ![p] = "locked"]
    /\ Goto(p, "fetch")
    /\ UNCHANGED <<regVars, fileVars, wanted, plan, got, read>>

\* Otherwise it does what --update does.  A lock that covers them may still pin
\* a version that the manifest's constraint, of which nothing is said here, no
\* longer matches.
LeaveLock(p) ==
    /\ pc[p] = "check"
    /\ kind' = [kind EXCEPT ![p] = "update"]
    /\ plan' = [plan EXCEPT ![p] = {}]
    /\ Goto(p, "resolve")
    /\ UNCHANGED <<regVars, fileVars, wanted, got, read>>

\* Without a selection the resolver raises (Stop).
Resolve(p) ==
    /\ pc[p] = "resolve"
    /\ \E S \in Selections(manifest) :
        /\ plan' = [plan EXCEPT ![p] = [core : S, sum : {NoSum}]]
        /\ read' = [read EXCEPT ![p] = {Served(c) : c \in S}]
    /\ Goto(p, "digest")
    /\ UNCHANGED <<regVars, fileVars, kind, wanted, got>>

\* Mutant: the lock is written before its cores are fetched.
BuildLockFirst(p) ==
    /\ pc[p] = "digest"
    /\ plan' = [plan EXCEPT ![p] = {[core |-> e.core, sum |-> Served(e.core)] : e \in @}]
    /\ Goto(p, "write")
    /\ UNCHANGED <<regVars, fileVars, kind, wanted, got, read>>

\* _build_lock reads every artifact for its checksum; install reads them all
\* again to fetch them, resolve writes the lock at once.
BuildLock(p) ==
    /\ pc[p] = "digest"
    /\ plan' = [plan EXCEPT ![p] = {[core |-> e.core, sum |-> Served(e.core)] : e \in @}]
    /\ Goto(p, IF kind[p] = "resolve" THEN "write" ELSE "fetch")
    /\ UNCHANGED <<regVars, fileVars, kind, wanted, got, read>>

\* The order of the packages in a lock.
Before(c, d) == c[1] < d[1] \/ (c[1] = d[1] /\ c[2] < d[2])

Fetched(p) == {d[1] : d \in got[p]}
Unfetched(p) == {e.core : e \in plan[p]} \ Fetched(p)

\* The next artifact is read and put into the cache.  A yanked core is still
\* served.
Fetch(p) ==
    /\ pc[p] = "fetch"
    /\ \E c \in Unfetched(p) :
        /\ \A d \in Unfetched(p) \ {c} : Before(c, d)
        /\ got' = [got EXCEPT ![p] = @ \cup {Served(c)}]
    /\ UNCHANGED <<regVars, fileVars, pc, kind, wanted, plan, read>>

\* Mutants: any fetched artifact will do; an entry without a checksum fails.
AgreesByCore(p) == \A e \in plan[p] : e.sum = NoSum \/ e.core \in Fetched(p)
AgreesStrictly(p) == \A e \in plan[p] : e.sum \in got[p]

Agrees(p) == \A e \in plan[p] : e.sum = NoSum \/ e.sum \in got[p]

\* Lockfile.verify: every locked checksum against what was fetched.
Verify(p) ==
    /\ pc[p] = "fetch" /\ Unfetched(p) = {}
    /\ Goto(p, CASE ~Agrees(p) -> "mismatch"
                 [] Agrees(p) /\ kind[p] = "locked" -> "installed"
                 [] OTHER -> "write")
    /\ UNCHANGED <<regVars, fileVars, kind, wanted, plan, got, read>>

-----------------------------------------------------------------------------
(* Writing ip.lock: write_text truncates the file, then writes it.         *)

Writing == {p \in Procs : pc[p] = "writing"}

WriteOpens(p) ==
    /\ pc[p] = "write"
    /\ lock' = Broken
    /\ torn' = TRUE
    /\ mixed' = (Writing # {})
    /\ basis' = {}
    /\ Goto(p, "writing")
    /\ UNCHANGED <<regVars, manifest, kind, wanted, plan, got, read>>

\* Text beyond the buffer's size goes out in pieces: a prefix of the packages,
\* the last one perhaps without its checksum line.
WritePart(p) ==
    /\ pc[p] = "writing" /\ lock = Broken
    /\ \E e \in plan[p] : \E last \in {e, [e EXCEPT !.sum = NoSum]} :
        lock' = Text({f \in plan[p] : Before(f.core, e.core)} \cup {last})
    /\ UNCHANGED <<regVars, manifest, torn, mixed, basis, procVars>>

\* The rest.  When another command has the file open too, the two texts
\* overlay each other.
WriteCloses(p) ==
    /\ pc[p] = "writing"
    /\ IF mixed
       THEN /\ lock' \in {Broken, Text(plan[p]), Text(plan[p] \cup lock.entries)}
            /\ UNCHANGED <<torn, basis>>
       ELSE lock' = Text(plan[p]) /\ torn' = FALSE /\ basis' = read[p]
    /\ Goto(p, "installed")
    /\ UNCHANGED <<regVars, manifest, mixed, kind, wanted, plan, got, read>>

Forget(p) ==
    /\ pc' = [pc EXCEPT ![p] = "idle"]
    /\ kind' = [kind EXCEPT ![p] = "plain"]
    /\ wanted' = [wanted EXCEPT ![p] = {}]
    /\ plan' = [plan EXCEPT ![p] = {}]
    /\ got' = [got EXCEPT ![p] = {}]
    /\ read' = [read EXCEPT ![p] = {}]
    /\ UNCHANGED <<regVars, fileVars>>

Exit(p) == pc[p] \in {"installed", "mismatch"} /\ Forget(p)

\* An error (no lock, a broken lock, nothing to select, a registry that does
\* not answer) or a signal ends a command anywhere; what it wrote stays.
Stop(p) == pc[p] \notin {"idle", "installed", "mismatch"} /\ Forget(p)

Command(p) ==
    \/ AddReads(p) \/ AddWrites(p) \/ NoLock(p) \/ ReadLock(p) \/ UseLock(p) \/ LeaveLock(p)
    \/ Resolve(p) \/ BuildLock(p) \/ Fetch(p) \/ Verify(p)
    \/ WriteOpens(p) \/ WritePart(p) \/ WriteCloses(p)

Next ==
    \/ \E p \in Procs, k \in Kinds : Start(p, k)
    \/ \E p \in Procs : Command(p) \/ Exit(p) \/ Stop(p)
    \/ \E c \in Cores : Publish(c) \/ Yank(c) \/ Edit(c)

Spec == Init /\ [][Next]_vars

-----------------------------------------------------------------------------
(* Properties.                                                             *)

TypeOK ==
    /\ offers \subseteq Cores
    /\ bytes \in [Cores -> Revisions]
    /\ drift \in 0..MaxDrift
    /\ edited \subseteq Cores
    /\ manifest \subseteq Refs
    /\ lock \in [state : {"absent", "broken", "text"}, entries : SUBSET Entries]
    /\ lock.state # "text" => lock.entries = {}
    /\ torn \in BOOLEAN /\ mixed \in BOOLEAN
    /\ basis \subseteq Digests
    /\ pc \in [Procs -> {"idle", "edit", "save", "readlock", "check", "resolve", "digest",
                         "fetch", "write", "writing", "installed", "mismatch"}]
    /\ kind \in [Procs -> Kinds]
    /\ wanted \in [Procs -> SUBSET Refs]
    /\ plan \in [Procs -> SUBSET Entries]
    /\ got \in [Procs -> SUBSET Digests]
    /\ read \in [Procs -> SUBSET Digests]

\* An install that reports success has fetched the very bytes the
\* lock pins, for every entry with a checksum, though it read each artifact
\* twice (for the lock, then to fetch it) from a registry that may have
\* changed between the two, or long after the lock was written.
InstalledIsLocked ==
    \A p \in Procs :
        pc[p] = "installed" /\ kind[p] # "resolve" =>
            \A e \in plan[p] : e.sum # NoSum => e.sum \in got[p]

\* A registry failure, a mismatch or a crash on the way leaves ip.lock alone:
\* it changes only at the hands of a command that has fetched everything it is
\* about to pin and found it to agree (of hdlpkg resolve, which fetches nothing,
\* at the hands of that).
LockChangesOnlyVerified ==
    [][lock' # lock =>
        \E p \in Procs :
            /\ pc[p] \in {"write", "writing"}
            /\ kind[p] = "resolve" \/ (kind[p] # "locked" /\ Unfetched(p) = {} /\ Agrees(p))]_vars

\* Every entry has a checksum.  The bytes it pins are those that were read for the
\* resolve, and then all that they need is locked, or they are of a core that was
\* edited.
HasNeeds(entries, d) == \A r \in Needs[d] : \E e \in entries : e.core[1] = r
Pinned(entries, from) ==
    \A e \in entries :
        /\ e.sum # NoSum
        /\ IF e.sum \in from THEN HasNeeds(entries, e.sum) ELSE e.core \in edited

\* A lock file that was written to its end, by one command at a time, pins a core
\* for everything that the bytes it pins need: that is what lets a plain install
\* look at the direct dependencies only.  The exception is a core that was edited
\* after the resolve had read its manifest, which is pinned as it is by then.
WholeLockIsClosed == lock.state = "text" /\ ~torn => Pinned(lock.entries, basis)

\* lockfile.py:3-5: the lock is the "record of a resolve: the exact `Vlnv` chosen for
\* every package [...] Committing it gives reproducible, verifiable builds"; with
\* what the pinned bytes need, that is, whoever edited them.
EveryNeedIsLocked ==
    lock.state = "text" /\ ~torn =>
        \A e \in lock.entries : e.sum # NoSum => HasNeeds(lock.entries, e.sum)

\* Yanking, publishing newer versions and other people's installs never break
\* a lock: a checksum mismatch means the bytes of a locked core have changed.
MismatchMeansEdit ==
    \A p \in Procs : pc[p] = "mismatch" => \E e \in plan[p] : e.core \in edited

=============================================================================
