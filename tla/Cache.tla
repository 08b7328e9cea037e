------------------------------- MODULE Cache -------------------------------
(***************************************************************************)
(* The content-addressed blob store (cache.py) on a POSIX file system,     *)
(* shared by several hdlpkg processes: every install, pull and gen of a    *)
(* user opens the same directory (default_cache_root) and nothing locks    *)
(* it.                                                                     *)
(*                                                                         *)
(* A name in a directory and the file it leads to are kept apart, because  *)
(* put() writes through a descriptor of the temporary file and then        *)
(* renames whatever file the temporary name leads to by then:              *)
(*                                                                         *)
(*   blob[d]    the file under path_for(d), or None                        *)
(*   tmp[d]     the file under path_for(d) + ".tmp", or None               *)
(*   content    for each file, which chunks of its bytes are in place      *)
(*                                                                         *)
(* The bytes of a blob are Size chunks; a file digests to its key exactly  *)
(* when all of them are in place (SHA-256 is taken to be collision-free).  *)
(* All writers of one key write the same bytes, so a chunk is either right *)
(* or missing (past the end of the file, or a hole read as zeros).         *)
(***************************************************************************)
EXTENDS Integers, FiniteSets

CONSTANTS
    Putters,    \* processes that put: install, pull, gen
    Getters,    \* processes that get: gen, vendor, pull
    Digests,    \* keys: "sha256:<hex>" of the blobs in play
    Files,      \* file identities (inodes) the file system can hand out
    Size,       \* chunks in a blob
    None        \* no file

ASSUME SizeAssumption == Size \in Nat \ {0}
ASSUME NoneAssumption == None \notin Files

VARIABLES
    blob,       \* [Digests -> Files \cup {None}]: the published names
    tmp,        \* [Digests -> Files \cup {None}]: the temporary names
    content,    \* [Files -> SUBSET Chunks]: the chunks in place
    pc,         \* where each process is in put() or get()
    key,        \* the digest the process is at work on
    fd,         \* the file its open descriptor leads to
    pos,        \* chunks written, or read, through that descriptor
    clean,      \* no chunk get() has read so far was missing
    orphaned,   \* history: files a writer died on with chunks still to write
    decayed,    \* history: files damaged after they were published
    raced,      \* history: keys whose temporary file was opened by a second
                \* writer while a first was still using it
    wasIntact   \* history: the file was complete when get() opened it

storeVars == <<blob, tmp, content>>
procVars  == <<pc, key, fd, pos, clean>>
histVars  == <<orphaned, decayed, raced, wasIntact>>
vars      == <<storeVars, procVars, histVars>>

Procs == Putters \cup Getters
Chunks == 1..Size
Intact(f) == content[f] = Chunks
HalfWritten(d) == blob[d] # None /\ ~Intact(blob[d])
Writers(d) == {p \in Procs : pc[p] \in {"write", "rename"} /\ key[p] = d}
InUse(f) ==
    \/ \E d \in Digests : f \in {blob[d], tmp[d]}
    \/ \E p \in Procs : pc[p] \in {"write", "rename", "read"} /\ fd[p] = f

NewFile == CHOOSE f \in Files : ~InUse(f)

Init ==
    /\ blob = [d \in Digests |-> None]
    /\ tmp = [d \in Digests |-> None]
    /\ content = [f \in Files |-> {}]
    /\ pc = [p \in Procs |-> "idle"]
    /\ key \in [Procs -> Digests]
    /\ fd = [p \in Procs |-> None]
    /\ pos = [p \in Procs |-> 0]
    /\ clean = [p \in Procs |-> TRUE]
    /\ orphaned = {}
    /\ decayed = {}
    /\ raced = {}
    /\ wasIntact = [p \in Procs |-> FALSE]

\* The operation returns or raises: the process holds no file any more.
Done(p) ==
    /\ pc' = [pc EXCEPT ![p] = "idle"]
    /\ fd' = [fd EXCEPT ![p] = None]
    /\ pos' = [pos EXCEPT ![p] = 0]
    /\ clean' = [clean EXCEPT ![p] = TRUE]
    /\ wasIntact' = [wasIntact EXCEPT ![p] = FALSE]
    /\ UNCHANGED key

-----------------------------------------------------------------------------
(* put(data): check the name, write the temporary file, rename it.         *)

\* `if not path.exists()`: a key that is already there, whatever its content,
\* makes put() return at once.
PutFindsKey(p, d) ==
    /\ pc[p] = "idle"
    /\ blob[d] # None
    /\ UNCHANGED vars

PutMissesKey(p, d) ==
    /\ pc[p] = "idle"
    /\ blob[d] = None
    /\ pc' = [pc EXCEPT ![p] = "open"]
    /\ key' = [key EXCEPT ![p] = d]
    /\ UNCHANGED <<storeVars, fd, pos, clean, histVars>>

\* Mutant of OpenTmp: no temporary file, the blob is written in place.
OpenInPlace(p) ==
    LET d == key[p] IN
    /\ pc[p] = "open"
    /\ blob[d] # None \/ \E f \in Files : ~InUse(f)
    /\ LET f == IF blob[d] # None THEN blob[d] ELSE NewFile IN
        /\ blob' = [blob EXCEPT ![d] = f]
        /\ tmp' = [tmp EXCEPT ![d] = f]
        /\ content' = [content EXCEPT ![f] = {}]
        /\ fd' = [fd EXCEPT ![p] = f]
        /\ orphaned' = orphaned \ {f}
        /\ decayed' = decayed \ {f}
    /\ pc' = [pc EXCEPT ![p] = "write"]
    /\ raced' = IF Writers(d) = {} THEN raced ELSE raced \cup {d}
    /\ UNCHANGED <<key, pos, clean, wasIntact>>

\* tmp.write_bytes opens the shared name for writing: an existing file is
\* truncated, also under another writer's descriptor; else one is created.
OpenTmp(p) ==
    LET d == key[p] IN
    /\ pc[p] = "open"
    /\ tmp[d] # None \/ \E f \in Files : ~InUse(f)
    /\ LET f == IF tmp[d] # None THEN tmp[d] ELSE NewFile IN
        /\ tmp' = [tmp EXCEPT ![d] = f]
        /\ content' = [content EXCEPT ![f] = {}]
        /\ fd' = [fd EXCEPT ![p] = f]
        /\ orphaned' = orphaned \ {f}
        /\ decayed' = decayed \ {f}
    /\ pc' = [pc EXCEPT ![p] = "write"]
    /\ pos' = [pos EXCEPT ![p] = 0]
    /\ raced' = IF Writers(d) = {} THEN raced ELSE raced \cup {d}
    /\ UNCHANGED <<blob, key, clean, wasIntact>>

\* Mutant of WriteChunk: one chunk too few.
WriteChunkShort(p) ==
    /\ pc[p] = "write"
    /\ content' = [content EXCEPT ![fd[p]] = @ \cup {pos[p] + 1}]
    /\ pos' = [pos EXCEPT ![p] = @ + 1]
    /\ pc' = [pc EXCEPT ![p] = IF pos[p] + 1 >= Size - 1 THEN "rename" ELSE "write"]
    /\ UNCHANGED <<blob, tmp, key, fd, clean, histVars>>

WriteChunk(p) ==
    /\ pc[p] = "write"
    /\ content' = [content EXCEPT ![fd[p]] = @ \cup {pos[p] + 1}]
    /\ pos' = [pos EXCEPT ![p] = @ + 1]
    /\ pc' = [pc EXCEPT ![p] = IF pos[p] + 1 = Size THEN "rename" ELSE "write"]
    /\ UNCHANGED <<blob, tmp, key, fd, clean, histVars>>

\* tmp.replace(path) moves whatever file the temporary name leads to now.
Rename(p) ==
    LET d == key[p] IN
    /\ pc[p] = "rename"
    /\ tmp[d] # None
    /\ blob' = [blob EXCEPT ![d] = tmp[d]]
    /\ tmp' = [tmp EXCEPT ![d] = None]
    /\ Done(p)
    /\ UNCHANGED <<content, orphaned, decayed, raced>>

\* Another writer has renamed the temporary file: FileNotFoundError leaves
\* put() and, as no caller catches it, the command.
RenameFails(p) ==
    /\ pc[p] = "rename"
    /\ tmp[key[p]] = None
    /\ Done(p)
    /\ UNCHANGED <<storeVars, orphaned, decayed, raced>>

-----------------------------------------------------------------------------
(* get(digest): read the whole file, then compare digests.                 *)

GetMisses(p, d) ==
    /\ pc[p] = "idle"
    /\ blob[d] = None
    /\ UNCHANGED vars

GetOpens(p, d) ==
    /\ pc[p] = "idle"
    /\ blob[d] # None
    /\ pc' = [pc EXCEPT ![p] = "read"]
    /\ key' = [key EXCEPT ![p] = d]
    /\ fd' = [fd EXCEPT ![p] = blob[d]]
    /\ pos' = [pos EXCEPT ![p] = 0]
    /\ clean' = [clean EXCEPT ![p] = TRUE]
    /\ wasIntact' = [wasIntact EXCEPT ![p] = Intact(blob[d])]
    /\ UNCHANGED <<storeVars, orphaned, decayed, raced>>

ReadChunk(p) ==
    /\ pc[p] = "read"
    /\ pos[p] < Size
    /\ pos' = [pos EXCEPT ![p] = @ + 1]
    /\ clean' = [clean EXCEPT ![p] = @ /\ pos[p] + 1 \in content[fd[p]]]
    /\ UNCHANGED <<storeVars, pc, key, fd, histVars>>

ReadDone(p) == pc[p] = "read" /\ pos[p] = Size

\* The digest of what was read agrees with the key: the bytes are returned.
GetReturns(p) ==
    /\ ReadDone(p)
    /\ clean[p]
    /\ Done(p)
    /\ UNCHANGED <<storeVars, orphaned, decayed, raced>>

\* It disagrees: RegistryError.
GetRefuses(p) ==
    /\ ReadDone(p)
    /\ ~clean[p]
    /\ Done(p)
    /\ UNCHANGED <<storeVars, orphaned, decayed, raced>>

-----------------------------------------------------------------------------
(* The environment.                                                        *)

\* Mutant of Abort: put() removes the temporary name on its way out, even
\* before it has opened the file.
AbortUnlinks(p) ==
    /\ pc[p] # "idle"
    /\ orphaned' = IF pc[p] = "write" THEN orphaned \cup {fd[p]} ELSE orphaned
    /\ tmp' = [tmp EXCEPT ![key[p]] = None]
    /\ Done(p)
    /\ UNCHANGED <<blob, content, decayed, raced>>

\* The process is killed, or a write fails (a full disk): put() cleans
\* nothing up.  The process name is then free for a new command.
Abort(p) ==
    /\ pc[p] # "idle"
    /\ orphaned' = IF pc[p] = "write" THEN orphaned \cup {fd[p]} ELSE orphaned
    /\ Done(p)
    /\ UNCHANGED <<storeVars, decayed, raced>>

\* A published blob is damaged on disk: bit rot, tampering, or data that did
\* not survive a power cut that the name survived (nothing calls fsync).
Decay(d) ==
    /\ blob[d] # None
    /\ \E c \in content[blob[d]] :
        content' = [content EXCEPT ![blob[d]] = @ \ {c}]
    /\ decayed' = decayed \cup {blob[d]}
    /\ UNCHANGED <<blob, tmp, procVars, orphaned, raced, wasIntact>>

-----------------------------------------------------------------------------
PutStep(p) == OpenTmp(p) \/ WriteChunk(p) \/ Rename(p) \/ RenameFails(p)
GetStep(p) == ReadChunk(p) \/ GetReturns(p) \/ GetRefuses(p)

Next ==
    \/ \E p \in Putters, d \in Digests : PutFindsKey(p, d) \/ PutMissesKey(p, d)
    \/ \E p \in Getters, d \in Digests : GetMisses(p, d) \/ GetOpens(p, d)
    \/ \E p \in Procs : PutStep(p) \/ GetStep(p) \/ Abort(p)
    \/ \E d \in Digests : Decay(d)

Spec == Init /\ [][Next]_vars

\* A process that is not killed is scheduled by the operating system until
\* its put() or get() is over; nothing makes it start another.
FairSpec == Spec /\ \A p \in Procs : WF_vars(PutStep(p) \/ GetStep(p))

-----------------------------------------------------------------------------
(* Properties.                                                             *)

TypeOK ==
    /\ blob \in [Digests -> Files \cup {None}]
    /\ tmp \in [Digests -> Files \cup {None}]
    /\ content \in [Files -> SUBSET Chunks]
    /\ pc \in [Procs -> {"idle", "open", "write", "rename", "read"}]
    /\ key \in [Procs -> Digests]
    /\ fd \in [Procs -> Files \cup {None}]
    /\ \A p \in Procs : pc[p] \in {"write", "rename", "read"} => fd[p] \in Files
    /\ pos \in [Procs -> 0..Size]
    /\ \A p \in Procs : pc[p] = "write" => pos[p] < Size
    /\ clean \in [Procs -> BOOLEAN]
    /\ orphaned \subseteq Files
    /\ decayed \subseteq Files
    /\ raced \subseteq Digests
    /\ wasIntact \in [Procs -> BOOLEAN]

\* Chunks a live writer has yet to put into file f.
Owed(f) ==
    {c \in Chunks : \E p \in Procs : pc[p] = "write" /\ fd[p] = f /\ c > pos[p]}

\* However puts of one key interleave on the shared temporary file, each
\* chunk that a file under either name lacks is still going to be written by
\* a live writer, unless a writer of that file died or the file decayed.
MissingChunksAreOwed ==
    \A d \in Digests : \A f \in {blob[d], tmp[d]} \ {None} :
        f \in orphaned \cup decayed \/ Chunks \ content[f] \subseteq Owed(f)

\* What cache.py promises of a crash, as far as it is true: as long as no two
\* puts of the same key overlap, a published blob is complete, whichever
\* writers died on the way and whatever temporary file they left behind.
PublishedIsIntact ==
    \A d \in Digests :
        HalfWritten(d) => d \in raced \/ blob[d] \in decayed

\* A put that overlaps no other finds its temporary file when it renames it:
\* only an overlap makes put() raise FileNotFoundError.
RenameFindsOwnFile ==
    \A p \in Procs :
        pc[p] = "rename" /\ key[p] \notin raced => tmp[key[p]] = fd[p]

\* No false alarm: a get() that opened a complete file and refuses it has met
\* real decay, though putters may rename, truncate and write meanwhile.
RefusalMeansDecay ==
    \A p \in Procs :
        ReadDone(p) /\ wasIntact[p] /\ ~clean[p] => fd[p] \in decayed

\* The race heals itself as long as nobody dies: a half-written blob under a
\* valid key does not stay that way unless a writer died or it decayed.
HalfWrittenHeals ==
    \A d \in Digests :
        HalfWritten(d) ~> ~HalfWritten(d) \/ blob[d] \in orphaned \cup decayed

\* cache.py:11-13: "Writes are atomic (temp file + os.replace) so a crash
\* mid-write never leaves a half-written blob under a valid-looking key."
CrashNeverPublishesHalf ==
    \A d \in Digests :
        HalfWritten(d) => blob[d] \notin orphaned \ decayed

=============================================================================
