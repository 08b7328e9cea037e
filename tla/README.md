# hdlpkg in TLA+

Models of [hdlpkg](../src/README.md), a package manager for HDL cores, with TLC
configurations that check them on small instances and TLAPS proofs of what
matters most for every instance. Paths below are relative to the repository;
`cache.py` alone means `src/hdlpkg/cache.py`.

To run: `tlc -config MCCache.cfg MCCache` (each `MC*.cfg` with its `MC*`
module; `MCBackendsCommit.cfg` is for `MCBackends` too), and `tlapm CacheProofs.tla`
(each `*Proofs.tla`).

## 1. The system

hdlpkg is a command-line program. A command reads the manifest (`ip.toml`) and
perhaps the lock (`ip.lock`) of a project, resolves dependencies against one or
several registries, fetches artifacts into a per-user cache, and writes the
lock, source trees or tool scripts. There are no threads and no locks; all
concurrency is between *processes*: several commands on one project directory,
on one user's cache (a CI runner, an editor and a shell), or on one registry
(many people's publishes). Whatever is shared is shared through files or
through a server, with no transaction around any sequence of accesses, and any
command can be killed between two of them.

| Component (source) | State it keeps | Operations | What makes it hard | What makes it correct |
|---|---|---|---|---|
| blob cache (`cache.py`) | files named by digest, one temporary name per digest | `has`, `put`, `get` | every process of a user writes the same temporary name; crash between open, write and rename | a file under a key is the key's bytes; a damaged one is never handed out |
| resolver (`resolver.py`) | recursion of `_solve`; clauses and choices per node | `resolve`, `available_from_registry` | backtracking over nodes that candidates create; groups; cycles; a policy applied after the search | result satisfies every constraint; failure means unsolvable (but for section 4); newest first; ends |
| install and lock (`cli.py`, `lockfile.py`) | `ip.toml`, `ip.lock` | `resolve`, `install` in four forms, `verify`, `lock_satisfies` | artifacts are read twice from a registry others change; files rewritten in place; commands overlap | an install has what the lock pins; the lock changes only when all was fetched and verified; a lock has all that its cores need (but for section 4) |
| local registry (`registry.py`) | a directory per version | `publish_core`, `yank`, `versions`, `manifest`, `artifact_bytes` | check, mkdir and writes are separate; death half way | append-only: one publisher per version, for good |
| HTTP registry (`registry.py`) | `versions.json` and two files per version on a server | the same without yank | no conditional request; lost answers; a failed read looks like an empty list | a listed version can be fetched; an acknowledged publish stays |
| OCI registry (`registry.py`) | tags, manifests, blobs; a bearer token | the same, with token exchange | push of blobs before the tag; one retry after 401 | as above |
| Git registry (`registry.py`) | a clone that all refs of one URL share, with one working tree | clone or fetch, checkout, note the commit, scan; then `versions`, `manifest`, `artifact_bytes` | a checkout by another backend of the same command or by another command; a killed clone | what is read is of the noted commit |
| composite and lock-source registries (`registry.py`, `cli.py`) | memoised version lists per backend | owner lookup, warnings | a backend that fails once is empty for the rest of the command | source, version and checksum in a lock entry belong together; a backend passed over is warned about |
| local directory registry (`registry.py`) | a scan of `--search` trees | packs on every read | the tree is edited between two reads | the lock's checksum catches it |
| gen, vendor, pull (`cli.py`) | extracted trees, vendored trees | `_dependency_source`, `vendor`, `pull` | a partly extracted tree is reused; destinations without a version | sources used are the locked ones |
| EDA design (`backends/edam.py`) | - | depth-first order of cores and of filesets | cycles, several versions of one package | every core after what it references |
| versions and constraints (`version.py`) | - | parse, compare, match, group | prereleases, `0.x` carets, opaque schemes | total order; ranges mean what they say |
| name mangling (`mangle.py`) | - | plan, refusals, rewriting | two versions in one library; declarations, references and refusals are found apart, by token patterns | versions are apart, and every reference follows a declaration |
| credentials (`credentials.py`) | one TOML file, one temporary name | login, logout | load, change, save through one temporary name | one login does not lose another; the file is whole |
| the rest: VLNV and manifest parsing, packaging, manifest editing, SBOM, tree view, tool backends, scaffolding, IP-XACT, argument parsing | - | one text in, one text out | - | unit tests reach it |

Interactions: `install` calls the resolver on what the registries list, reads
each selected artifact from its registry for the lock's checksum
(`_build_lock`), reads it again and `put`s it into the cache
(`Registry.fetch`), compares the two digests (`Lockfile.verify`), and then
writes `ip.lock`. `gen`, `vendor` and `pull` `get` from the cache; `gen` then mangles
the sources if two versions of a package are among them, orders them, and hands them
to a tool backend. Resolver and registry talk by calls within one process; everything
else by files.

`PROJECT.json` lists all components with their status and every hazard at its
line with the properties that cover it.

## 2. The modules and the code

### Cache (`cache.py`)

A file system keeps names and files apart, and the module does too: `blob[d]`
and `tmp[d]` are the files the two names of a key lead to, `content[f]` the
chunks in place in a file, `fd[p]` a process's open descriptor. `put` is
`PutFindsKey` or `PutMissesKey` (line 73), `OpenTmp` and `WriteChunk`
(`write_bytes`, line 76: truncating open, then the bytes), `Rename` or
`RenameFails` (line 77). `get` is `GetMisses` or `GetOpens`, `ReadChunk`, then
`GetReturns` or `GetRefuses` (lines 86-96). `has` is the guard of the first
two. `Abort` ends a process anywhere, by a signal or a failed write; `Decay`
damages a published blob. Bytes are abstracted to chunks that are right or
missing, since all writers of a key write the same bytes; a file digests to
its key when all are there. `orphaned`, `decayed`, `raced` and `wasIntact` are
history variables: the actions' other updates never read them.

### Resolver (`resolver.py`)

The recursion of `_solve` is `stack`, a frame per call with the clauses and
choices passed to it and the candidates it has yet to try. `TryDescends`,
`TryClashes`, `TryRaises` and `Backtrack` are the turns of its loop;
`EdgeNode`, `Group`, `Viable`, `First` and `AddClauses` are the helpers of
lines 128-232. `ApplyPolicy` is `_apply_policy`, `FollowEdge` a round of
`_collect_reachable` with `PickForEdge`. A constraint is the set of versions it
matches and the version it pins, if any. The walk's order is left free although
the code pops a list, which makes its results stronger. `Fulfils` says what a
solution is without the search's nodes: one version for each package and group, and one
that matches each constraint of the root and of all of them. `IsSolution` says it in the
search's terms, a version for each node; `Strays` is an edge whose two senses differ,
since no core chosen for it is in the group of its newest match.

### Install (`cli.py`, `lockfile.py`)

One action per file access or registry access of `install` and `resolve`:
`AddReads`/`AddWrites` (the manifest edit of `install <dependency>`), `NoLock`,
`ReadLock`, `UseLock` and `LeaveLock` (`lock_satisfies`), `Resolve`, `BuildLock` (`_build_lock`,
the first read of the artifacts), `Fetch` (the second), `Verify`, `WriteOpens`,
`WritePart` and `WriteCloses` (`write_text`: truncate, write, close). `Publish`,
`Yank` and `Edit` are other people and other trees; `Stop` is every error exit
and every kill. A digest is a pair of a core and a revision of its bytes, and a
core's manifest is among these, so `Needs` is a function of the digest: an `Edit` may
change what a core depends on. `LeaveLock` has no guard because a version that is
locked may no longer match the manifest's constraint, of which the model says nothing. A
resolve takes the newest offer of whatever is needed: how versions are chosen is
Resolver's business, how blobs are stored is Cache's. Reading all the artifacts
for the lock is one step; each fetch is a step of its own, so the registry may
change between the resolve and the first read of an artifact, between the two reads
and between two fetches. `edited`, `torn`, `mixed`, `read` (what a command's resolve
read) and `basis` (the same, of the command that wrote `ip.lock`) are history.

### AppendOnly and LocalRegistry (`registry.py`)

`AppendOnly` is what the class `Registry` promises: a version appears once, for
good, and a yank only hides it. `LocalRegistry` has one action per system call of
`publish_core` (lines 342-351: `Refused`/`Begin`, `Mkdir`/`LosesRace`,
`OpenToml`, `WriteToml`, `PackFails`/`OpenIpkg`, `WriteIpkg`) and `Yank`
(lines 353-358). Readers have no actions: what `versions`, `manifest` and
`artifact_bytes` find is `Listed` and `Fetchable`. It implements `AppendOnly`
with `store[v]` the owner of the two files once both are whole, and `hidden` the
markers.

### HttpRegistry (`registry.py`)

One action per request of `publish_core` (lines 267-286): `ReadsList` or
`MissesList` (`versions`, which takes a failed GET for an empty list),
`PutToml`, `PutIpkg`, `PutList`; `AckLost` is a PUT carried out whose answer is
lost, `Stop` a failed one or a kill. The server answers each request
atomically. It does not keep `AppendOnly`'s promise (section 4), so the
properties say what is left of it and on what condition.

### OciRegistry (`registry.py`)

`pc[p]` is the request a publisher is at: the `GET` of the tag (`Refused`,
`Unpublished`), for each of the two `part`s `HEAD` (`Found`, `NotFound`), `POST`
(`UploadStarts`) and `PUT` (`Uploaded`), and the `PUT` of the tag (`Tagged`).
`Challenged` is `_send`'s branch for a 401 whose exchange succeeds: `token` is what
the bearer is good for and `retried` the argument `_retried`; `Unauthorised` is the
401 that `_send` returns, `ServerError` any other status, and `AnyOther` what
`publish_core` and `_push_blob` make of a status they do not name. `setup` is the
server's and the credentials' kind, fixed in a behaviour. The server stores what
it is sent, does not compare a manifest with its blobs (servers may), and collects
blobs no tag needs (`Collect`). `swept`, `blind`, `behind` and `turned` are history.

### Sources (`cli.py`, `packaging.py`)

`gen` (`StartGen`, then for each core `FromCache`, `FromSearch` or
`FromRegistry`, the three ways of `_dependency_source`; `Look`, the test for
`ip.toml` in `_extract_dependency`; `Opens` and `Writes`, a file of
`extract_ipkg`; `Reads`, the manifest and the filesets; `Generates`), `pull`
(`Pull`) and `vendor` (`StartVendor`, `Fetches`, `Verifies`, and for each core
`Clears` and `Cleared`, which is `rmtree`, `LayOpens` and `LayWrites`). `tree[d]`
is the directory of the cache named by digest `d` and `vendored[k]` the
destination of package `k`, which has no version in it. `Drift` changes what the
registry or the tree under `--search` holds; `Stop` is every error exit, the
mismatch of line 951 (`pc = "refused"`) included, and every kill. Blobs are
simply cached or not, which is Cache's promise; the lock is one of `Locks`, with
or without a lost checksum, which is Install's affair. A plain `gen` uses the very
cores the lock lists. `raced`, `cut` and `met` are history: who looked at a tree
while it was extracted, whose extraction died past `ip.toml`, which vendors met.

### Versions (`version.py`)

Operators, translated one by one, over *tokens*: a word, numbers with the leading
zeros they are written with, the identifiers of a prerelease. `Lt` is the order of
each scheme (`CalVerLt` and `MonotonicLt` break ties by spelling, as `raw` does),
`Reading` what `VersionConstraint.parse` takes a constraint for before it knows the
candidate's scheme, `Matches` what it admits. `Parse` is a dependency's constraint
being read, and `admitted` what it then admits of all candidates.

### Credentials (`credentials.py`)

`Loads` is `load_credentials` with the change made by `with_token` or `without`;
`Refuses` is a file that does not parse, which refuses every later login and logout.
`OpenTmp`, `WriteTmp`, `Replace` and `ReplaceFails` are `save_credentials`, line by
line, on the two names; `Dies` is a kill or a failed write. As in Cache, names and
files are apart. A text is a sequence of tables or `Torn`; secrets have any length,
so a text written over another leaves any of the other's later tables behind it, or
half a table (`Overlay`). `behind` (who works on a store of the past), `shared` (files
that two had at once) and `last` are history.

### Backends (`registry.py`)

The locations of a command's `path` become backends in order: `BuildRemote` for HTTP
and OCI; for Git `CloneStarts`, `CloneEnds`, `CloneFails`, `Fetch`, `NoFetch`,
`Checkout`, `Notes` and `Scans` are the calls of `GitRegistry.__init__` and
`_sync`, on the one clone (`clone`, `known`, `tracked`, `tree`) that all refs of
a repository share. Clone and checkout are atomic in git's own terms, except that a
killed clone leaves its `.git` (`Stop`). `Selects` is `available_from_registry` and the
resolver's choice of any version found, `Digests` the second look for the lock's
checksum, `Installs` and `Mismatch` the fetch and `Lockfile.verify`, `StartLocked` an
install from the lock, whose one backend is the entry's source. `Asked` is what the
composite remembers (`_versions_of`), `Owner` its `_owner`; a remote answers or not each
time, an HTTP one that fails by an empty list. `moved` and `tainted` are history: whose
tree was changed under it, and whether such a command made the lock.

### Edam (`backends/edam.py`)

`build_eda_design`, call by call. `_topological_order` and `_expand_fileset_names` are one
depth-first `visit()` over different nodes, and so are they here: `kids` is what each node
names, `stack` is `visiting`, outermost first, `rest` what is left of the loops (over the
roots, and over the kids of each open node), `ordered` the list that is returned, whose
nodes are `placed`. `Enter` is a call that goes on, `PassOver` one that returns at once
(an unknown fileset, a node placed or under way), `Leave` the end of one, `OrderFound` the
return of `_topological_order`, `FilesListed` that of `_fileset_files` for the core at
`turn` with `add`. A core is a position in `GenCores`, a fileset a name of its core with
one file, and an order a set of pairs, by which `Sorted` lists a set.

### Gen (`cli.py`, `mangle.py`)

One `gen`, after the sources are collected: `Refuses`, one disjunct per reason of
`plan_package_mangling`, or `Proceeds`, and then `Assembles`, which is a step of Edam; Gen
extends Edam with the verdict and the texts. The operators are the program's functions over
*significant tokens*: `Declared` is `declared_by_kind`, `DeclaresAt` the scans behind it,
`SvModulePosition` and its like the patterns that decide what is rewritten, `Doubtful`
those that make gen refuse, `Rename` is `_rename_map_for`. Independently of them, `live`
says for each text where the *language* reads a unit of that name and of which kind,
which is what the properties compare with; `TextsAreSeen` says of a set of cores that
scans and language agree but for the places that `Overlooked` and `Mistaken` name, and
TLC evaluates it of every set in `MCGen` (`SeenAssumption`).

## 3. What is checked

| Run | Instance | Properties |
|---|---|---|
| `MCCache.cfg` | 3 putters, 1 getter, 1 key, 3 files, 2 chunks | `MissingChunksAreOwed`, `PublishedIsIntact`, `RenameFindsOwnFile`, `RefusalMeansDecay`; `HalfWrittenHeals` |
| `MCResolver.cfg` | 3 x 2 x 3 policies by 450 dependency choices over 4 packages | `SelectionIsSolution`, `FailsOnlyIfUnsolvable`, `NoNeedlesslyOldVersion`, `WalkAgreesWithSearch`; `Terminates` |
| `MCInstall.cfg` | 2 commands, 2 packages, 3 cores, 2 revisions, 1 change | `InstalledIsLocked`, `WholeLockIsClosed`, `MismatchMeansEdit`; `LockChangesOnlyVerified` |
| `MCLocalRegistry.cfg` | 3 publishers, 2 versions | `ListedIsFetchable`, `OnePublisher`; `PublishEnds`, `KeepsThePromise` |
| `MCHttpRegistry.cfg` | 2 publishers, 3 versions | `ListedIsFetchable`, `AckedStays`; `VanishesOnlyUnseen` |
| `MCOciRegistry.cfg` | 2 publishers, 1 version, 4 setups | `TaggedIsFetchable`, `OneRetryIsEnough`; `OverwrittenOnlyUnseen`, `RetriesEnd` |
| `MCVersions.cfg` | 98 tokens, 227 versions of four schemes, 1217 constraints | `OrderIsTotal`, `CaretIsGroup`, `RangesByValue` |
| `MCSources.cfg` | 2 processes, 3 commands, 2 versions of one package, 2 revisions, 2 locks, 1 drift | `LockedGenUsesPins`, `PartialTreeIsExplained`, `VendoredIsLocked`; `TreeStaysWhole` |
| `MCCredentials.cfg` | 2 processes, 2 hosts, 1 secret, 3 files | `PublishedIsLastSave`; `OnlyOverlapLosesOthers` |
| `MCBackends.cfg` | 2 commands, a repository of 3 commits and 2 tags, an OCI and an HTTP registry, 2 search paths | `SourceNamesBytes`, `MismatchMeansMoved`, `SkippedIsWarned` |
| `MCGen.cfg` | 7001 sets of cores | `ReferencesFollow`, `UnitsApart`, `DependenciesFirst` |
| `MCBackendsCommit.cfg` | as `MCBackends.cfg` | `LockBindsCommit`, which is violated (section 4) |
| `MCGenAttribute.cfg` | two versions of an entity with an attribute, two consumers | `OthersAreInert`, which is violated (section 4) |

Every module but AppendOnly, Versions, Edam and Gen also has a `TypeOK` (`CSTypeOK` in
Credentials); add it to a configuration to check it.

What they show:

- **Cache.** As long as no two puts of one key overlap, a published blob is
  complete, whoever died and left whatever temporary file (`PublishedIsIntact`),
  and the rename finds its file (`RenameFindsOwnFile`). When puts do overlap, a
  chunk that is missing is still owed by a live writer unless one died
  (`MissingChunksAreOwed`), and so the blob heals (`HalfWrittenHeals`). A `get`
  that opens a complete file never refuses it unless it decays under it, whatever
  putters do (`RefusalMeansDecay`).
- **Resolver.** The result meets every constraint of everything selected, except
  under `use_latest` on packages the warning names; the search fails only where every
  choice of versions that satisfies all constraints has an edge whose core is outside the
  group of the edge's newest match, compared with *all* sets of cores on offer
  (`Fulfils`, `Strays`; section 4); no chosen version could be newer while the other nodes
  keep theirs, compared with all assignments to nodes; the walk leads each edge to the version
  the search decided for it; nothing unreachable is returned; cycles end.
- **Install.** An install that reports success fetched the bytes that its lock
  pins, wherever there is a checksum; `ip.lock` changes only in the hands of a
  command that has fetched and verified (or of `resolve`); a lock that was written
  to its end by one command at a time has a checksum per entry and a core for
  everything that the bytes it pins need, which is what makes `lock_satisfies` enough;
  the exceptions are cores edited between the resolve and the read for the checksum
  (section 4). A mismatch means bytes that changed.
- **Local registry.** It implements `AppendOnly`; only the creator of a directory
  writes in it; a listed version that cannot be fetched is being published or its
  publisher failed; a version someone has begun is eventually fetchable or stuck.
- **HTTP registry.** A listed version always has both files; an acknowledged
  publish stays unless publishers overlapped or one could not read the list; a
  version leaves the list only by such a publisher.

- **OCI registry.** What a tag names can be fetched, but for blobs the server collects
  between HEAD and the tag; a tag is overwritten only by a publisher that checked
  before it was put, or whose check was answered neither 200 nor 404; whoever is
  entitled to push gets through with one retry per request, whatever its token was
  for or has become; every publish ends.
- **Sources.** `gen --locked` without `--search` generates from the pinned bytes or
  not at all, whoever filled the cache and whatever the registry serves by now. An
  incomplete tree is used only if somebody looked at it during an extraction or an
  extraction died after `ip.toml` was there; a complete tree stays complete unless
  somebody looked at it during an extraction. After a `vendor` that no other met,
  each destination is exactly the last locked version of its package, whatever
  earlier runs had left there.

- **Versions.** Each scheme's order is total, so "newest" is well defined; a caret
  never leaves its compatibility group and leaves out no stable version of it that
  is no older, which the resolver's node per group relies on; one or two clauses
  admit the stable versions between their bounds, by value, where a calendar tilde's
  upper bound is the last declared component raised by one (`version.py:417`; the module's
  document has another reading, section 4). The last two leave out calendar versions whose
  value ties with a bound but whose spelling does not; that one of them is admitted is in
  section 4 as well.
- **Credentials.** A store whose temporary file one writer alone had is exactly what
  that writer was to publish, whoever died before. A login or logout changes another
  host's credential only if it worked on a store that had changed since it was loaded,
  or shared its temporary file.
- **Backends.** In a lock entry, source, version and checksum belong together unless
  the working tree changed under the command that made it, whichever backends failed
  and when. A mismatch means such a change, then or now. Of the backends that offer the
  version the first one in the search path gives it, and one that was passed over was
  warned about, unless it is an HTTP one.
- **Gen.** When it does not refuse, two versions of a package declare no unit under
  one name; every place where the language reads a unit that coexists carries a name
  that some version declares and that the core's constraints admit, and no other place
  is renamed, except the places that `Overlooked` and `Mistaken` name (section 4). Files
  come after the files of everything their core refers to, in all versions, but on cycles;
  none comes twice, and in the end no dependency is left out.

### Bounds, and why they are enough

*Cache*: keys share no file and no name, so one key shows everything a key can
meet. Two chunks are the least that lets a file be incomplete with something in
it; three putters let one finish, one die and one come later (a process name is
reused after its operation ends, so the number of operations is not bounded);
three files are one under each name and one open descriptor left behind.
*Resolver*: four packages give a diamond, a cycle, an opaque package and a node
that only a candidate creates, in one problem; three versions in two groups give a
choice within a group and a conflict across groups. *Install*: two packages give
a transitive dependency, and one of three cores needs more in its second revision than in
its first, so an edit can add a dependency; `MaxDrift = 1` bounds the registry's changes during a
behaviour, and one change (a publish, a yank or an edit) can fall at any point of
either command; commands repeat without bound, so a lock can be older than the
change. *Local*: three publishers give a winner, a loser and a latecomer; two
versions give a publisher something else to do. *HTTP*: with three versions a
list can lose one version, keep one and gain one. *OCI*: the blobs and the tag of a version are its
own, so one version shows everything, and two publishers are an overlap; four setups
give each kind of credential and server to either. *Sources*: two commands at a time
meet in a directory and a third comes after; the two cores are versions of one
package, so they share a destination, and one has a file before `ip.toml` in its
archive, the other one after it; one drift (`Drift`'s guard) may precede or follow
any step.

*Versions*: numbers up to 2 give a bound above, a bound below and zero major, minor and
patch; prereleases of a word, a number and both; one leading zero before zero and
before another number; one to four numbers, so that two calendar versions can differ in
length and in a number that SemVer does not have. Two clauses make every kind of conjunction.

*Credentials*: two processes overlap; two hosts are one that is changed and one that
should not be; one secret, since a credential is lost, kept or out of date whatever it
is; three files are one under each name and one that a descriptor still leads to.
*Backends*: two commits hold one version with different bytes and the third another
version, so a moved tree shows as other bytes or another version; two tags in one path
are the checkout within a command, two commands the one between them; HTTP before OCI
before Git gives each kind a chance to fail and be passed over. `Commits` bounds the
pushes (`Push`'s guard). *Gen*: two or three versions of a package with every kind of unit in
them or only in some, by every mention in `MCGen.Mentions` in a consumer that depends on
the package or does not; graphs of up to four dependencies with cycles; filesets that
name each other and themselves.

Symmetry is used only where no liveness property is checked (Install, HTTP, Sources,
Credentials, Backends), in Install over the commands only.

### Fairness and deadlock

`Cache!FairSpec` and `LocalRegistry!FairSpec` assume of each process weak
fairness of the steps of an operation under way: the operating system goes on
scheduling a process that is not killed, and its file accesses block on nothing
another process holds. Nothing is assumed to start an operation; deaths stay
possible at each step and are named in the properties (`orphaned`, `stuck`).
`OciRegistry!FairSpec` assumes that each publisher's requests are answered or their
connections fail; the code sets no timeout, so a silent server is outside of it (a
hazard in `PROJECT.json`). A token just issued is assumed to last until the retry.
`Resolver!Spec` has weak fairness of the whole next-state relation: one
sequential computation that nothing interrupts. `MCResolver.cfg` switches the
deadlock check off because a search ends for good in one of four outcomes, and
`MCSources.cfg` does because `MaxCommands` bounds the commands that are ever
started, `MCVersions.cfg` because a dependency's constraint is parsed once and
`MCGen.cfg` because a design is built once; everywhere else a new command may
always start, and deadlock is checked.

## 4. Where the code and its documents disagree

The first has a run of its own that finds the violation; of the second, `tlc -config
MCGenAttribute.cfg MCGen` prints the trace. For the others in the list, add `INVARIANT` and
the name to the configuration named.

1. `registry.py:650-652` says that the lock's `source` binds each core to the exact
   commit (`MCBackendsCommit.cfg`, `LockBindsCommit`). The commit is noted when the
   registry is built, the bytes are read later, and all refs of a repository share one
   working tree. One command is enough: `--registry git+<url>@t1 --registry
   git+<url>@t2` with the version in both locks the commit of `t1` with the checksum of
   `t2`'s bytes, and `install --locked` then refuses it.
2. `mangle.py:30-31` says that what is no reference to a VHDL entity is inert
   (`MCGenAttribute.cfg`, `OthersAreInert`). The word after any `entity` is taken for a
   declared name, also in `attribute keep of n : entity is "yes";`. Two versions with such
   an attribute both declare `is`, and gen writes `entity is_v1_0_0 "yes"`, which no tool
   reads. With an attribute in a consumer too, gen refuses instead.
3. `cache.py:11-13` says a crash never leaves a half-written blob under a valid
   key (`MCCache.cfg`, `CrashNeverPublishesHalf`). All writers of a key share
   one temporary name: one renames the file while another, which has truncated it,
   dies. Later puts see the key and skip it; `get` refuses it for good.
4. `resolver.py:258-259` tells the user that no single version satisfies all
   dependents (`MCResolver.cfg`, `ConflictIsGenuine`). `>=1.0.0` falls in
   the group of the newest match, 2.x, and `^1.0.0` in 1.x, though a 1.x serves
   both.
5. `resolver.py:98-99` says that `resolve` raises if no assignment satisfies all
   constraints (`MCResolver.cfg`, `FailureIsGenuine`). An edge is bound to the group of
   the newest version it matches, before it is known whether that version can be used:
   with B at 2.0.0, which needs a package nobody offers, and at 1.0.0, which needs
   nothing, a root that asks for B `>=1.0.0` is refused, though 1.0.0 serves it.
6. `lockfile.py:3-5` calls the lock the record of a resolve that makes builds
   reproducible (`MCInstall.cfg`, `EveryNeedIsLocked`). A tree under `--search` is
   read anew on each call (`registry.py:156-161`): if a core's `ip.toml` gains a
   dependency after the resolve (`cli.py:580`) has read it and before `_build_lock`
   (`cli.py:523`) packs it, the lock pins the new bytes, by a checksum that verifies from then
   on, without an entry for what they need.
7. `docs/modules/versioning.md:88-89` says a bare constraint of another scheme than
   SemVer pins exactly (`MCVersions.cfg`, `BarePinMatches`). `2024.10.3` has the
   shape of SemVer, is read as a caret range, and matches no calendar version; so
   does `=2024.10.3`, which leaves such a core without an exact pin.
8. `docs/modules/versioning.md:81-82` says the year is the boundary of a calendar version
   and carets and tildes are year-based (`MCVersions.cfg`, `TildeIsYearBased`). The tilde
   raises the last declared component, as its docstring (`version.py:417`) and
   `docs/progress_tracker.md:775` have it: `~2024.1` refuses `2024.5`.
9. `version.py:417` calls that bound exclusive (`MCVersions.cfg`, `BoundIsExclusive`). It
   is written without leading zeros, and ties are broken by spelling: `~24.04` admits
   `24.05`, which is the bound `24.5` by value.
10. `cli.py:949-950` says `gen --locked` must fail closed on drift, and
    `docs/user_guide.md:522-524` that the build is byte for byte the same everywhere
    (`MCSources.cfg`, `LockedGenFailsClosed`). With `--search` a loose tree is
    used as it is, before the comparison with the lock.

More that shaped a property:

- `docs/user_guide.md:316-317` says a published version can never be overwritten, but
  `HttpRegistry.publish_core` checks a list it read earlier, or could not read, and PUTs
  unconditionally, which is why `AckedStays` needs its conditions
  (`OciRegistry.publish_core` may overwrite too: `OverwrittenOnlyUnseen` says when).
- `docs/user_guide.md:448` says an unreachable registry is skipped with a warning; an
  HTTP one answers "no versions" instead (`registry.py:249`) and is skipped in silence,
  which is why `SkippedIsWarned` leaves it out.
- `docs/user_guide.md:480` says a core in the cache is reused and a repeated install
  offline, but `install` fetches every artifact from its registry (`cli.py:651`,
  `cli.py:704`).
- `docs/user_guide.md:495-496` says the vendored copy always matches the lock, but of two
  versions of one package only the last is there.
- `credentials.py:238` and `docs/modules/credentials.md:29` say the store is written
  atomically. Overlapping saves share one temporary name: an empty, torn or mixed text
  can be published, and a torn one refuses every later login and logout
  (`PublishedIsLastSave` needs "not shared").
- `mangle.py:25-29` promises never a partial rewrite. `Overlooked` lists references that
  are neither rewritten nor refused (a module before a macro or an escaped instance name,
  or at the root of a hierarchical name; a VHDL entity in an attribute specification; a
  VHDL package selected by its simple name after `use work.N;`; anything in a consumer's
  file of another language), and `Mistaken` places that
  are rewritten though they are something else (the end of an architecture of that name, a
  signal of a type of that name), against `mangle.py:449-451`. A package is not looked for
  in other cores, as modules, interfaces and entities are. `MangledAlike` counts consumers'
  names too, so one can make up for two versions whose names are alike (the exception in
  `UnitsApart`). `_declared_after` (`mangle.py:153`) takes a lifetime for the name (`module
  automatic n`), so that such units are not told apart; no text of `MCGen` has one.
- `edam.py:179` says each core follows the deps it references. Two packages may refer to
  each other through different versions without a cycle of versions, but the visit goes
  by package, and one of them comes too early (the exception for cycles in
  `DependenciesFirst`).
- A `git clone` that is killed leaves a `.git` that every later command takes for the
  clone; a branch is never found in it again.
- `_safe_dirname` (`cli.py:1021`) gives `a_b:c:n:1.0.0` and `a:b_c:n:1.0.0` one directory of
  mangled sources. Not modelled: a core is a number in Gen.

## 5. What is proved

For every value of the constants, subject to the modules' named assumptions
(`Size` positive; `None` different from files, publishers, versions and file
records; `Setups` well-typed; in Backends, commits numbered from 1, no tag or branch
named like a commit, and one core of a version per remote; in Sources, a lock that lists
a core at least, with the `ip.toml` of each among its files; in Credentials, finitely
many hosts, at least one, numbered as they are sorted; in Resolver, finitely many
packages and versions, well-typed manifests, and groups that never fall as versions
rise, which `GroupsHaveNoGaps` proves of `version.py`; in Versions, that tokens and
clauses are of their types, whatever their numbers and lengths; in Edam, that the
dependencies are a list with one core per VLNV, as the resolver and the lock give them,
filesets, what they depend on and the target's filesets are lists, packages are numbered
in the order of their names and versions from 1):

| Module | Theorem | Statement |
|---|---|---|
| `CacheProofs` | `TypeCorrect`, `ChunksOwed`, `NoHalfWrittenBlob`, `RenameSafe`, `NoFalseAlarm` | `Spec => []` of `TypeOK`, `MissingChunksAreOwed`, `PublishedIsIntact`, `RenameFindsOwnFile`, `RefusalMeansDecay` |
| `LocalRegistryProofs` | `TypeCorrect`, `NoSecondPublisher`, `ListedFetchable` | `Spec => []` of `TypeOK`, `OnePublisher`, `ListedIsFetchable` |
| `OciRegistryProofs` | `TypeCorrect`, `TaggedFetchable`, `OneRetry`, `OverwritingExplained` | `Spec => ` `[]TypeOK`, `[]TaggedIsFetchable`, `[]OneRetryIsEnough`, `OverwrittenOnlyUnseen` |
| `LocalRegistryProofs` | `PromiseKept` | `Spec => KeepsThePromise`: the refinement of `AppendOnly` |
| `RemoteProofs`, HttpRegistry | `TypeCorrect`, `ListedFetchable`, `AcknowledgedStays`, `VanishingExplained` | `Spec => ` `[]TypeOK`, `[]ListedIsFetchable`, `[]AckedStays`, `VanishesOnlyUnseen` |
| `RemoteProofs`, Credentials | `LoneSaveIsWhole`, `OthersAreKept` | `CSSpec => ` `[]PublishedIsLastSave`, `OnlyOverlapLosesOthers` |
| `BackendsProofs` | `EntryIsTruthful`, `MismatchExplained`, `SkippedBackendsAreNamed` | `Spec => []` of `SourceNamesBytes`, `MismatchMeansMoved`, `SkippedIsWarned` |
| `ResolverProofs`, Resolver | `TypeCorrect`, `SelectionIsRight`, `SearchIsComplete`, `NewestIsKept`, `WalkFollowsSearch` | `Spec => []` of `TypeOK`, `SelectionIsSolution`, `FailsOnlyIfUnsolvable`, `NoNeedlesslyOldVersion`, `WalkAgreesWithSearch` |
| `ResolverProofs`, Versions | `VersionsAreOrdered`, `CaretsAreGroups`, `RangesAreByValue`, `GroupsHaveNoGaps` | `VSSpec => []` of `OrderIsTotal`, `CaretIsGroup`, `RangesByValue`, `GroupsAreIntervals` |
| `InstallProofs` | `TypeCorrect`, `InstalledAgrees`, `MismatchExplained`, `WholeLockCloses`, `OnlyVerifiedIsWritten` | `Spec => ` `[]TypeOK`, `[]InstalledIsLocked`, `[]MismatchMeansEdit`, `[]WholeLockIsClosed`, `LockChangesOnlyVerified` |
| `SourcesProofs`, Sources | `TypeCorrect`, `LockedGenPinned`, `PartialExplained`, `WholeStaysWhole`, `VendoredWhole` | `Spec => ` `[]TypeOK`, `[]LockedGenUsesPins`, `[]PartialTreeIsExplained`, `TreeStaysWhole`, `[]VendoredIsLocked` |
| `SourcesProofs`, Gen | `VersionsAreApart`, `ReferencesAreRenamed` | `GenSpec => []` of `UnitsApart` and, if `TextsAreSeen` of every set of cores, of `ReferencesFollow` |
| `SourcesProofs`, Edam | `FilesAreInOrder` | `GenSpec => []DependenciesFirst` |

*Cache.* `MissingChunksAreOwed` says nothing of a file whose writer died, and
`PublishedIsIntact` nothing of files that are not published yet, so neither is
inductive. `IInv` adds who may hold which file: no file is under two names
(`NamesApart`); a writer's file belongs to its key and is published under its
descriptor only by an overlapping put (`WritersOwn`); without an overlap a key
has one writer, whose file is still under the temporary name
(`UnracedIsSerial`); a file open for reading is under no temporary name
(`ReadersSafe`). There is one lemma per group of steps; a published file without
an overlap then has no live writer, owes nothing, and is complete.

*Local registry.* `IInv` is `OnePublisher` with `OwnFiles` (a file in a directory
was written by its creator) and `OwnProgress` (what a publisher finds is what it
has put there so far). A step that makes a version fetchable is then a `Publish`
by its owner and every other step leaves `CoreOf` alone, which is the refinement.

*OCI registry.* `PushedInOrder` (a publisher comes to the layer over its config, and to
the tag over both) makes the tag's blobs known, since what was there is there or was
collected (`KeptGrows`). `SeenAbsent` (past the check there is no tag, unless the
publisher is blind or behind) is what an overwriting step contradicts.
`SecondAttemptIsGood` ties a retry to a token good for its request.

*HTTP registry.* The list is put last and files are only replaced, so whatever a
publisher has read or put is there when it puts the list (`FilesFirst`). Without an
overlap one publisher is at work, and what it could read is still the list
(`AloneAndCurrent`); so the version it works on is not acknowledged yet, and the files
under it are its own (`OwnFiles`).

*Resolver.* The properties speak of the end of a search whose work lies in the stack, so
`IInv` says what each call of `_solve` knows. `Sound`: its clauses are what the root and
the versions chosen so far ask for (`AsksAll`, `AsksOnly`), the chosen versions meet them
(`ChoiceMeets`), and no solution that agrees with the other choices has a newer version of
one (`ChoiceIsNewest`). `Follows` and `Confined` are the memory of backtracking: a
solution that agrees with a call's choices decides its node as a candidate that is untried
or that its callee works on. A call without candidates then has no solution among its
choices and takes that back to its caller; the first call has made no choices, so when it
fails no assignment to nodes is a solution. Since a choice of cores that `Fulfils`
everything, with no edge that strays, is one (`ChoiceIsSolution`: decide each node by the
chosen core of its group), this is `SearchIsComplete`. What the search returns is a
decision (`IsDecision`), of which the policy and the walk need nothing more: the walk's
edges are those of selected versions, each to be followed or led to a version it reached
(`WalkInv`). That the newest kept version an edge matches is the one decided for its node
needs groups to be intervals of the order.

*Versions.* The state says nothing (`AdmittedOK`); the work is in the operators. Each
scheme compares by value and breaks ties in its own way (`Beats`, `Tie`), `Beats` is
lexicographic, so the first of two differences decides (`FirstDiff` exists by
well-foundedness of the naturals), and a total tie-break of a total comparison is total.
A bound above is its token with one number raised and the rest cut off (`Bumps`), and to
lie between the two is to agree on the numbers up to that one (`BumpIsAgreement`): this
is what a caret and a tilde admit and what a group is.

*Credentials.* A file that is not shared has one writer, is still under the temporary
name, and holds nothing until the writer has written and its text from then on
(`WritersAlone`); opening the temporary name never truncates the published file
(`NamesApart`). A text lists the hosts in their order, a host's place being the number
of hosts with a credential that are no later (`RankIsPlace`), so that what is read back
is what was rendered (`RoundTrip`). A process that nobody has saved over since it loaded
holds what is stored but for its own host (`KeepsOthers`).

*Backends.* The properties speak of the lock and of a command that failed; `IInv` follows an
entry on its way there. The Git backends of a command whose tree has held all noted the
commit that is in it (`BackendsOK`), the answers remembered are the backends' own
(`MemoOK`), so the owner found for the checksum is the one that gave the source
(`EntryOK`, `OwnerIsTrue`), and the same one is found for the fetch. That the first owner
exists is well-foundedness of the naturals. A remote remembered as failed has been warned
about, and one that did answer is remembered by what it lists (`WarnedOK`), so a remote
before the one in the entry (`OriginIsEarly`) that lists the version was either warned
about or taken.

*Install.* The properties speak of commands that are done and of a whole lock. `IInv`
follows a plan there: from a resolve on it has all that its cores, as the resolve read
them, need (`PlanOK`, `AsRead`), and a digest taken later is among those read or its core
was edited since (`Pinned`); it agrees with what was fetched before it is written
(`VerifiedOK`), and every digest in a plan, in the lock or fetched is of the bytes served
now or of a core edited since (`CarriedOK`, `LockOK`). `WritersNoted` (a lock that is
being written is torn, and two writers at once are noted as `mixed`) is what makes a lock
that is not torn one command's text.

*Sources.* Four invariants, the last three over the first. `Typed` says where a command of
each kind may be. `PinsOK` follows the pin from the fetch to the files used. `TreesOK`
is about trees nobody looked at during an extraction: one command extracts, the files it
has done are whole and precede the rest in the archive, and from `ip.toml` on nothing is
there that the extraction has not come to, whatever earlier ones left before it
(`Extracts`, `SoloTree`); so such an extraction never starts on a complete tree
(`ExtractedNotWhole`). `VendorsOK` is about a vendor that is alone: every directory but the one
it is at holds the last version so far (`Laid`), and that one exactly what it has extracted
(`Laying`). The last version exists because the invariant carries it along; no induction
over the set of cores is needed.

*Gen.* The state says little (`GenInv`: what is not refused has passed every check and is
rewritten by the plan); the work is in how the checks, the plan and the rewriter, which
each scan on their own, fit together. A declaration is always a place that is rewritten
(`DeclarationsAreRewritten`), and at any place at most one colliding unit is meant, since
gen refuses a name that collides twice (`TagThere`). Two versions that declare one name
therefore both carry their own tag (`OwnTag`); were these the same, there would be fewer
mangled names than versions (`FewerValues`), which gen refuses, unless a consumer adds
one. A place that is neither rewritten nor Overlooked is Doubtful, which gen refuses. The
version a consumer follows is the greatest of a finite set (`GreatestOf`), so one that
its constraints admit if they admit any (`ResolvedIsAdmitted`). What the theorem about
`ReferencesFollow` supposes of the texts, `TextsAreSeen`, is what a scan of tokens cannot
know; the attribute above is a text without it.

*Edam.* Every step of Gen is one of Edam or leaves its variables alone (`GenAssembles`),
so what is proved of `EdamSpec` holds of `gen`. `DependenciesFirst` speaks of the finished
lists, so `EdamInv` says what each open call knows. Each open node leads to those inside
it, and of what an open node names, whatever its loop is past is placed, is the next open
node, or leads back to it (`OpenNodes`). This is how a cycle is cut: a call passed over
because its node is under way comes from a node that node leads to. So when a call
returns, all that its node names is placed already or leads back to it, which keeps the
list in order (`Follows`); and when the visit ends, every root is placed (`Covers`). That
x leads to y is said by the sets that arrows do not leave: every one with x in it has y.
This is the paths' reachability without paths, so transitivity and one more arrow need no
induction (`LeadsOn`). That `Sorted` lists exactly the elements of a finite set, each
once, is by their ranks (`SortedLists`). Above the visits, `OrderOK` keeps the
first one's list and `DesignOK` says of any two files at which turns they came and, within
a turn, that the later is not one the earlier depends on.

Only model-checked: liveness and what it needs of fairness (`HalfWrittenHeals`,
`PublishEnds`, `RetriesEnd`, `Terminates`), which the prover does not reach; and
the claims of section 4, which do not hold. `GroupsAreIntervals`
is only proved by default; add it to `MCVersions.cfg` to check it too.

## 6. What is not modelled

- *Text*: TOML, JSON and VLNV syntax, messages, archive layout, generated scripts.
  What parsing does to a torn file is modelled (`Broken`, and a prefix that parses).
- *Version arithmetic* in Resolver: constraints are sets of versions there, with the
  groups given; what it assumes of them is a theorem about Versions.
- *`hdlpkg resolve -o`* elsewhere than the project's lock, and `tree`, which reads it.
- *What only one user's command writes*: `gen`'s output directory and `pull -o`.
- *Lexing* in mangle: comments, strings and escaped names are gone before Gen's tokens;
  the spelling of a mangled name is a tag that versions may share.
- *One resolve while trees change*: Install's `Resolve` reads all manifests at one moment;
  and an edit leaves a core its name and version.
- *Several packages in one repository or search path*: what a composite remembers is per
  package, and a lock entry is made from one backend's answers.
- Docker's configuration and the legacy table of credentials, which are only read.
- *A PUT still on its way* when its client dies: HttpRegistry and OciRegistry carry it out at
  once (`AckLost`) or not at all.
- *File systems without POSIX rename and unlink semantics* (Windows, some network
  shares).
- SHA-256 collisions.
- The components whose status in `PROJECT.json` is `not_modelled`, each with its
  reason.

## 7. Plan

Done: 1 Cache, 2 Resolver, 3 Install, 4 AppendOnly and LocalRegistry, 5 HttpRegistry,
6 Sources, 7 OciRegistry, 8 Versions, 9 Backends, 10 Credentials, 11 Gen and 12 Edam, all
with proofs of every safety property that is checked.

To do: that the visit of Edam ends, which no run checks. Each of its steps drops what it
calls or closes a call, and it enters each node once; that the search of the resolver
ends is checked (`Terminates`).
