------------------------------ MODULE Sources ------------------------------
(***************************************************************************)
(* gen, vendor and pull (cli.py): how locked or resolved cores become      *)
(* source trees.  gen extracts an artifact into a directory of the cache   *)
(* that is named by its digest and reused as soon as it holds an ip.toml;  *)
(* vendor extracts into the project, one directory per package.  Nothing   *)
(* locks either kind of directory.                                         *)
(*                                                                         *)
(* The blob store is what Cache shows it to be while nothing overlaps: a   *)
(* digest is cached or not.  Which cores a resolve selects is Resolver's   *)
(* affair; here a plain gen uses the very cores the lock lists.            *)
(***************************************************************************)
EXTENDS Integers, FiniteSets

CONSTANTS
    Procs,      \* commands that run at the same time
    MaxCommands,\* bound on the commands run in all
    Cores,      \* what ip.lock lists, numbered in its order
    Package,    \* [Cores -> packages]: the core without its version
    Holds,      \* [Cores -> SUBSET Nat]: an artifact's files, in archive order
    Manifest,   \* the file that is ip.toml
    Revisions,  \* what the bytes of a core may be
    Locks,      \* the locks considered: [Cores -> Digests \cup {NoSum}]
    NoSum,      \* an entry without a checksum line
    None        \* no file, no digest

Digests == Cores \X Revisions

ASSUME CoresAssumption == Cores \subseteq Nat /\ Cores # {} /\ IsFiniteSet(Cores)
ASSUME HoldsAssumption ==
    /\ Holds \in [Cores -> SUBSET Nat]
    /\ \A c \in Cores : IsFiniteSet(Holds[c]) /\ Manifest \in Holds[c]
ASSUME LocksAssumption ==
    \A l \in Locks : \A c \in Cores : l[c] \in ({c} \X Revisions) \cup {NoSum}
ASSUME MaxCommandsAssumption == MaxCommands \in Nat
ASSUME NoneAssumption ==
    NoSum \notin Digests /\ None \notin Digests \cup [of : Digests, whole : BOOLEAN]

VARIABLES
    lock,       \* ip.lock
    served,     \* [Cores -> Revisions]: what the registry, or --search, has
    cached,     \* digests in the blob store
    tree,       \* [Digests -> [files -> "none", "torn" or "whole"]]
    vendored,   \* [packages -> [files -> None, or whose file and if whole]]
    pc, kind,   \* what each command is at, and which command it is
    via,        \* where it fetches from: "published", "search", "nothing"
    started,    \* how many commands have been started
    left,       \* cores it has still to deal with
    digest,     \* the artifact it is at
    todo,       \* files of it still to be extracted
    got,        \* digests vendor has fetched
    used,       \* what gen draws its files from, per core
    raced,      \* history: digests whose tree was looked at while extracted
    cut,        \* history: digests whose extraction died past ip.toml
    met         \* history: vendors that another overlapped or came after

worldVars == <<lock, served>>
diskVars == <<cached, tree, vendored>>
procVars == <<pc, kind, via, started, left, digest, todo, got, used>>
histVars == <<raced, cut, met>>
vars == <<worldVars, diskVars, procVars, histVars>>

Files == UNION {Holds[c] : c \in Cores}
Packages == {Package[c] : c \in Cores}
First(S) == CHOOSE n \in S : \A m \in S : n <= m
LastCore(S) == CHOOSE n \in S : \A m \in S : m <= n
Current(p) == First(left[p])
Idle(p) == pc[p] \in {"idle", "vendored"}

\* A command starts where another has ended, if any.
Starts(p) ==
    /\ Idle(p)
    /\ started < MaxCommands
    /\ started' = started + 1

Goto(p, l) == pc' = [pc EXCEPT ![p] = l]

Init ==
    /\ lock \in Locks
    /\ served \in [Cores -> Revisions]
    /\ \A c \in Cores : lock[c] # NoSum => lock[c] = <<c, served[c]>>
    /\ cached = {}
    /\ tree = [d \in Digests |-> [f \in Files |-> "none"]]
    /\ vendored = [k \in Packages |-> [f \in Files |-> None]]
    /\ pc = [p \in Procs |-> "idle"]
    /\ kind = [p \in Procs |-> "gen"]
    /\ via = [p \in Procs |-> "nothing"]
    /\ started = 0
    /\ left = [p \in Procs |-> {}]
    /\ digest = [p \in Procs |-> None]
    /\ todo = [p \in Procs |-> {}]
    /\ got = [p \in Procs |-> {}]
    /\ used = [p \in Procs |-> {}]
    /\ raced = {}
    /\ cut = {}
    /\ met = {}

\* The registry comes to serve other bytes for a core, or the tree under
\* --search is edited.
Drift(c) ==
    /\ \A e \in Cores : lock[e] \in {NoSum, <<e, served[e]>>}    \* bound: one pinned core
    /\ \E r \in Revisions \ {served[c]} : served' = [served EXCEPT ![c] = r]
    /\ UNCHANGED <<lock, diskVars, procVars, histVars>>

-----------------------------------------------------------------------------
(* gen.                                                                    *)

Pinned(p, c) == kind[p] = "genlocked" /\ lock[c] # NoSum
AllCached == \A c \in Cores : lock[c] \in cached

\* gen --locked opens no registry when everything it needs is cached.
StartGen(p, k) ==
    /\ Starts(p)
    /\ kind' = [kind EXCEPT ![p] = k]
    /\ \E source \in {"published", "search"} :
        via' = [via EXCEPT ![p] = IF k = "genlocked" /\ AllCached THEN "nothing" ELSE source]
    /\ left' = [left EXCEPT ![p] = Cores]
    /\ got' = [got EXCEPT ![p] = {}]
    /\ met' = met \ {p}
    /\ Goto(p, "next")
    /\ UNCHANGED <<worldVars, diskVars, digest, todo, used, raced, cut>>

FromCache(p) ==
    /\ pc[p] = "next" /\ left[p] # {}
    /\ LET c == Current(p) IN
        /\ Pinned(p, c) /\ lock[c] \in cached
        /\ digest' = [digest EXCEPT ![p] = lock[c]]
    /\ Goto(p, "look")
    /\ UNCHANGED <<worldVars, diskVars, kind, via, started, left, todo, got, used, histVars>>

Uses(p, c, d, whole) ==
    /\ used' = [used EXCEPT ![p] = @ \cup {[core |-> c, digest |-> d, whole |-> whole]}]
    /\ left' = [left EXCEPT ![p] = @ \ {c}]

\* A tree found by --search is used where it is, as it is.
FromSearch(p) ==
    /\ pc[p] = "next" /\ left[p] # {} /\ via[p] = "search"
    /\ LET c == Current(p) IN
        /\ ~(Pinned(p, c) /\ lock[c] \in cached)
        /\ Uses(p, c, <<c, served[c]>>, TRUE)
    /\ UNCHANGED <<worldVars, diskVars, pc, kind, via, started, digest, todo, got, histVars>>

\* Mutant of FromRegistry: what was fetched is not compared with the lock.
FromRegistryTrusting(p) ==
    /\ pc[p] = "next" /\ left[p] # {} /\ via[p] = "published"
    /\ LET c == Current(p)
           d == <<c, served[c]>>
       IN  /\ ~(Pinned(p, c) /\ lock[c] \in cached)
           /\ cached' = cached \cup {d}
           /\ digest' = [digest EXCEPT ![p] = d]
           /\ Goto(p, "look")
    /\ UNCHANGED <<worldVars, tree, vendored, kind, via, started, left, todo, got, used, histVars>>

\* The artifact is fetched into the cache; if it is not the pinned one, it
\* stays there but the command stops (Stop).
FromRegistry(p) ==
    /\ pc[p] = "next" /\ left[p] # {} /\ via[p] = "published"
    /\ LET c == Current(p)
           d == <<c, served[c]>>
       IN  /\ ~(Pinned(p, c) /\ lock[c] \in cached)
           /\ cached' = cached \cup {d}
           /\ digest' = [digest EXCEPT ![p] = d]
           /\ Goto(p, IF Pinned(p, c) /\ d # lock[c] THEN "refused" ELSE "look")
    /\ UNCHANGED <<worldVars, tree, vendored, kind, via, started, left, todo, got, used, histVars>>

Extracting(d) == {p \in Procs : pc[p] \in {"open", "write"} /\ digest[p] = d}

\* Mutant of Look: a directory that is there is taken for an extracted tree.
LookAtDirectory(p) ==
    LET d == digest[p]
        there == \E f \in Files : tree[d][f] # "none"
    IN  /\ pc[p] = "look"
        /\ Goto(p, IF there THEN "read" ELSE "open")
        /\ todo' = [todo EXCEPT ![p] = IF there THEN {} ELSE Holds[d[1]]]
        /\ raced' = IF Extracting(d) = {} THEN raced ELSE raced \cup {d}
        /\ UNCHANGED <<worldVars, diskVars, kind, via, started, left, digest, got, used, cut, met>>

\* Mutant of Look: the artifact is extracted every time.
LookNot(p) ==
    LET d == digest[p]
    IN  /\ pc[p] = "look"
        /\ Goto(p, "open")
        /\ todo' = [todo EXCEPT ![p] = Holds[d[1]]]
        /\ raced' = IF Extracting(d) = {} THEN raced ELSE raced \cup {d}
        /\ UNCHANGED <<worldVars, diskVars, kind, via, started, left, digest, got, used, cut, met>>

\* `if not (dest / "ip.toml").exists()`: then all files are extracted, in
\* archive order, over whatever is there.
Look(p) ==
    LET d == digest[p]
        there == tree[d][Manifest] # "none"
    IN  /\ pc[p] = "look"
        /\ Goto(p, IF there THEN "read" ELSE "open")
        /\ todo' = [todo EXCEPT ![p] = IF there THEN {} ELSE Holds[d[1]]]
        /\ raced' = IF Extracting(d) = {} THEN raced ELSE raced \cup {d}
        /\ UNCHANGED <<worldVars, diskVars, kind, via, started, left, digest, got, used, cut, met>>

\* Each file is truncated, then written.
Opens(p) ==
    /\ pc[p] = "open"
    /\ tree' = [tree EXCEPT ![digest[p]][First(todo[p])] = "torn"]
    /\ Goto(p, "write")
    /\ UNCHANGED <<worldVars, cached, vendored, kind, via, started, left, digest, todo, got, used, histVars>>

Writes(p) ==
    LET f == First(todo[p]) IN
    /\ pc[p] = "write"
    /\ tree' = [tree EXCEPT ![digest[p]][f] = "whole"]
    /\ todo' = [todo EXCEPT ![p] = @ \ {f}]
    /\ Goto(p, IF todo[p] = {f} THEN "read" ELSE "open")
    /\ UNCHANGED <<worldVars, cached, vendored, kind, via, started, left, digest, got, used, histVars>>

WholeTree(d) == \A f \in Holds[d[1]] : tree[d][f] = "whole"

\* The manifest and the files its filesets name are read.  A torn manifest may
\* still parse, or not (Stop); a pattern passes over files that are not there.
Reads(p) ==
    /\ pc[p] = "read"
    /\ Uses(p, Current(p), digest[p], WholeTree(digest[p]))
    /\ digest' = [digest EXCEPT ![p] = None]
    /\ Goto(p, "next")
    /\ UNCHANGED <<worldVars, diskVars, kind, via, started, todo, got, histVars>>

Generates(p) ==
    /\ pc[p] = "next" /\ left[p] = {}
    /\ Goto(p, "idle")
    /\ kind' = [kind EXCEPT ![p] = "gen"]
    /\ via' = [via EXCEPT ![p] = "nothing"]
    /\ used' = [used EXCEPT ![p] = {}]
    /\ UNCHANGED <<worldVars, diskVars, started, left, digest, todo, got, histVars>>

-----------------------------------------------------------------------------
(* pull and vendor.                                                        *)

\* pull fetches one core into the cache; what it extracts goes to a directory
\* of the user's own.
Pull(p) ==
    /\ Starts(p)
    /\ \E c \in Cores : cached' = cached \cup {<<c, served[c]>>}
    /\ UNCHANGED <<worldVars, tree, vendored, pc, kind, via, left, digest, todo, got, used, histVars>>

Vendors == {p \in Procs : kind[p] = "vendor" /\ pc[p] # "idle"}

StartVendor(p) ==
    /\ Starts(p)
    /\ kind' = [kind EXCEPT ![p] = "vendor"]
    /\ via' = [via EXCEPT ![p] = "nothing"]
    /\ left' = [left EXCEPT ![p] = Cores]
    /\ got' = [got EXCEPT ![p] = {}]
    /\ Goto(p, "fetch")
    /\ met' = IF Vendors \ {p} = {} THEN met \ {p} ELSE met \cup Vendors \cup {p}
    /\ UNCHANGED <<worldVars, diskVars, digest, todo, used, raced, cut>>

Fetches(p) ==
    /\ pc[p] = "fetch" /\ left[p] # {}
    /\ LET c == Current(p)
           d == <<c, served[c]>>
       IN  /\ cached' = cached \cup {d}
           /\ got' = [got EXCEPT ![p] = @ \cup {d}]
           /\ left' = [left EXCEPT ![p] = @ \ {c}]
    /\ UNCHANGED <<worldVars, tree, vendored, pc, kind, via, started, digest, todo, used, histVars>>

\* Nothing is laid down unless every locked checksum agrees (else Stop).
Verifies(p) ==
    /\ pc[p] = "fetch" /\ left[p] = {}
    /\ \A c \in Cores : lock[c] = NoSum \/ lock[c] \in got[p]
    /\ left' = [left EXCEPT ![p] = Cores]
    /\ Goto(p, "clear")
    /\ UNCHANGED <<worldVars, diskVars, kind, via, started, digest, todo, got, used, histVars>>

Destination(p) == Package[Current(p)]
There(k) == {f \in Files : vendored[k][f] # None}

\* shutil.rmtree, file by file.
Clears(p) ==
    /\ pc[p] = "clear"
    /\ \E f \in There(Destination(p)) :
        vendored' = [vendored EXCEPT ![Destination(p)][f] = None]
    /\ UNCHANGED <<worldVars, cached, tree, procVars, histVars>>

\* Mutant of Cleared: what is there already is left there.
ClearedNot(p) ==
    /\ pc[p] = "clear"
    /\ \E d \in got[p] :
        /\ d[1] = Current(p)
        /\ digest' = [digest EXCEPT ![p] = d]
        /\ todo' = [todo EXCEPT ![p] = Holds[d[1]]]
    /\ Goto(p, "layopen")
    /\ UNCHANGED <<worldVars, diskVars, kind, via, started, left, got, used, histVars>>

Cleared(p) ==
    /\ pc[p] = "clear" /\ There(Destination(p)) = {}
    /\ \E d \in got[p] :
        /\ d[1] = Current(p)
        /\ digest' = [digest EXCEPT ![p] = d]
        /\ todo' = [todo EXCEPT ![p] = Holds[d[1]]]
    /\ Goto(p, "layopen")
    /\ UNCHANGED <<worldVars, diskVars, kind, via, started, left, got, used, histVars>>

LayOpens(p) ==
    /\ pc[p] = "layopen"
    /\ vendored' = [vendored EXCEPT ![Destination(p)][First(todo[p])] =
                        [of |-> digest[p], whole |-> FALSE]]
    /\ Goto(p, "laywrite")
    /\ UNCHANGED <<worldVars, cached, tree, kind, via, started, left, digest, todo, got, used, histVars>>

\* The last file of the last core ends the command.  When another vendor has
\* unlinked or replaced the file meanwhile, what is written may be out of sight.
LayWrites(p) ==
    LET f == First(todo[p])
        k == Destination(p)
        laid == todo[p] = {f}
        written == [vendored EXCEPT ![k][f] = [of |-> digest[p], whole |-> TRUE]]
    IN  /\ pc[p] = "laywrite"
        /\ vendored' \in CASE vendored[k][f] = None -> {vendored}
                           [] vendored[k][f] = [of |-> digest[p], whole |-> FALSE] -> {written}
                           [] OTHER -> {vendored, written}
        /\ todo' = [todo EXCEPT ![p] = @ \ {f}]
        /\ left' = [left EXCEPT ![p] = IF laid THEN @ \ {Current(p)} ELSE @]
        /\ digest' = [digest EXCEPT ![p] = IF laid THEN None ELSE @]
        /\ Goto(p, CASE ~laid -> "layopen"
                     [] laid /\ left[p] # {Current(p)} -> "clear"
                     [] OTHER -> "vendored")
        /\ UNCHANGED <<worldVars, cached, tree, kind, via, started, got, used, histVars>>

-----------------------------------------------------------------------------
\* An error, also a registry that does not answer, or a signal.
Stop(p) ==
    /\ ~Idle(p)
    /\ cut' = IF pc[p] \in {"open", "write"} /\ tree[digest[p]][Manifest] # "none"
              THEN cut \cup {digest[p]} ELSE cut
    /\ Goto(p, "idle")
    /\ kind' = [kind EXCEPT ![p] = "gen"]
    /\ via' = [via EXCEPT ![p] = "nothing"]
    /\ met' = met \ {p}
    /\ left' = [left EXCEPT ![p] = {}]
    /\ digest' = [digest EXCEPT ![p] = None]
    /\ todo' = [todo EXCEPT ![p] = {}]
    /\ got' = [got EXCEPT ![p] = {}]
    /\ used' = [used EXCEPT ![p] = {}]
    /\ UNCHANGED <<worldVars, diskVars, started, raced>>

GenStep(p) ==
    \/ \E k \in {"gen", "genlocked"} : StartGen(p, k)
    \/ FromCache(p) \/ FromSearch(p) \/ FromRegistry(p)
    \/ Look(p) \/ Opens(p) \/ Writes(p) \/ Reads(p) \/ Generates(p)

VendorStep(p) ==
    \/ StartVendor(p) \/ Fetches(p) \/ Verifies(p)
    \/ Clears(p) \/ Cleared(p) \/ LayOpens(p) \/ LayWrites(p)

Next ==
    \/ \E p \in Procs : GenStep(p) \/ Pull(p) \/ VendorStep(p) \/ Stop(p)
    \/ \E c \in Cores : Drift(c)

Spec == Init /\ [][Next]_vars

-----------------------------------------------------------------------------
(* Properties.                                                             *)

FileOf == [of : Digests, whole : BOOLEAN]

TypeOK ==
    /\ lock \in Locks
    /\ served \in [Cores -> Revisions]
    /\ cached \subseteq Digests
    /\ tree \in [Digests -> [Files -> {"none", "torn", "whole"}]]
    /\ vendored \in [Packages -> [Files -> FileOf \cup {None}]]
    /\ pc \in [Procs -> {"idle", "next", "look", "open", "write", "read", "fetch",
                         "clear", "layopen", "laywrite", "vendored", "refused"}]
    /\ kind \in [Procs -> {"gen", "genlocked", "vendor"}]
    /\ via \in [Procs -> {"published", "search", "nothing"}]
    /\ started \in 0..MaxCommands
    /\ left \in [Procs -> SUBSET Cores]
    /\ digest \in [Procs -> Digests \cup {None}]
    /\ \A p \in Procs : pc[p] \in {"open", "write", "layopen", "laywrite"} =>
            todo[p] # {} /\ digest[p] \in Digests /\ digest[p][1] = Current(p)
    /\ todo \in [Procs -> SUBSET Files]
    /\ got \in [Procs -> SUBSET Digests]
    /\ used \in [Procs -> SUBSET [core : Cores, digest : Digests, whole : BOOLEAN]]
    /\ raced \subseteq Digests /\ cut \subseteq Digests /\ met \subseteq Procs

\* gen --locked that does not scan source trees generates from the pinned bytes
\* or not at all, wherever it found them: cached by anybody before or during its
\* run, or fetched from a registry that has drifted since.
LockedGenUsesPins ==
    \A p \in Procs : \A u \in used[p] :
        Pinned(p, u.core) /\ via[p] # "search" => u.digest = lock[u.core]

\* gen draws its files from an incomplete tree only if it, or another gen, looked
\* at that tree during an extraction, or one died after it had created ip.toml.
\* An extraction that died before that is repeated and does no harm.
PartialTreeIsExplained ==
    \A p \in Procs : \A u \in used[p] :
        ~u.whole => u.digest \in raced \cup cut

\* A tree that is complete stays complete, whatever commands extract, die or
\* drift, unless somebody looked at it while it was being extracted.
TreeStaysWhole ==
    [][\A d \in Digests : WholeTree(d) => WholeTree(d)' \/ d \in raced]_vars

\* Re-running vendor brings each package's directory to hold exactly the files
\* of the last of its versions in the lock, verified, with nothing left of what
\* earlier runs, of other versions or cut short, had put there.  (Of an earlier
\* version in the same lock nothing is left either.)
VendoredIsLocked ==
    \A p \in Procs :
        pc[p] = "vendored" /\ p \notin met =>
            \A k \in Packages :
                LET c == LastCore({e \in Cores : Package[e] = k})
                IN  \E d \in got[p] :
                        /\ d[1] = c
                        /\ lock[c] \in {NoSum, d}
                        /\ vendored[k] = [f \in Files |->
                                IF f \in Holds[c] THEN [of |-> d, whole |-> TRUE] ELSE None]

\* cli.py:949-950: "gen --locked must fail closed on drift, exactly like install
\* --locked's lock.verify: a registry serving different bytes than the lock pins
\* is rejected."
LockedGenFailsClosed ==
    \A p \in Procs : \A u \in used[p] :
        Pinned(p, u.core) => u.digest = lock[u.core]

=============================================================================
