---------------------------- MODULE CacheProofs ----------------------------
(***************************************************************************)
(* Safety of the content-addressed store for any number of processes,      *)
(* keys, files and chunks.                                                 *)
(*                                                                         *)
(* None of the properties is inductive alone.  Missing chunks are owed by  *)
(* live writers (MissingChunksAreOwed), which says nothing of a file whose *)
(* writer died; that file stays away from the published name because only  *)
(* its own writer can rename it, unless two puts of the key overlapped.    *)
(* The parts below state who may hold which file.                          *)
(***************************************************************************)
EXTENDS Cache, TLAPS

Writing(p) == pc[p] \in {"write", "rename"}

\* No file is under a temporary name and under another name too.
NamesApart ==
    \A d, e \in Digests :
        tmp[d] # None => /\ tmp[d] # blob[e]
                         /\ tmp[d] = tmp[e] => d = e

\* A writer's file is never another key's, and is published under its
\* descriptor only by an overlapping put.
WritersOwn ==
    \A p \in Procs, d \in Digests :
        Writing(p) => /\ fd[p] = tmp[d] => key[p] = d
                      /\ fd[p] = blob[d] => d \in raced

\* Without an overlap a key has one writer, whose file is still under the
\* temporary name, and no writer died on that file or on the published one.
UnracedIsSerial ==
    /\ \A p, q \in Procs :
        Writing(p) /\ Writing(q) /\ key[p] = key[q] => p = q \/ key[p] \in raced
    /\ \A p \in Procs :
        Writing(p) /\ key[p] \notin raced => tmp[key[p]] = fd[p] /\ fd[p] \notin orphaned
    /\ \A d \in Digests : blob[d] \in orphaned => d \in raced

\* A file open for reading is under no temporary name, so nobody truncates it.
ReadersSafe ==
    \A p \in Procs :
        pc[p] = "read" =>
            /\ \A d \in Digests : tmp[d] # fd[p]
            /\ wasIntact[p] => fd[p] \in decayed \/ (Intact(fd[p]) /\ clean[p])

IInv ==
    /\ TypeOK
    /\ MissingChunksAreOwed
    /\ NamesApart
    /\ WritersOwn
    /\ UnracedIsSerial
    /\ ReadersSafe

-----------------------------------------------------------------------------
(* Type correctness.                                                       *)

\* OpenTmp takes a file that nothing refers to, when there is one.
LEMMA NewFileIsFree ==
    ASSUME \E f \in Files : ~InUse(f)
    PROVE  NewFile \in Files /\ ~InUse(NewFile)
BY DEF NewFile

LEMMA TypeInit == Init => TypeOK
BY SizeAssumption DEF Init, TypeOK, Chunks

LEMMA TypeStep == TypeOK /\ [Next]_vars => TypeOK'
<1> SUFFICES ASSUME TypeOK, [Next]_vars PROVE TypeOK'
  OBVIOUS
<1> USE SizeAssumption, NoneAssumption
<1>1. ASSUME NEW p \in Procs, NEW d \in Digests, PutMissesKey(p, d)
      PROVE  TypeOK'
  BY <1>1 DEF PutMissesKey, TypeOK, Chunks, storeVars, histVars
<1>2. ASSUME NEW p \in Procs, OpenTmp(p)
      PROVE  TypeOK'
  <2> DEFINE f == IF tmp[key[p]] # None THEN tmp[key[p]] ELSE NewFile
  <2>1. f \in Files
    BY <1>2, NewFileIsFree DEF OpenTmp, TypeOK
  <2>2. QED
    BY <1>2, <2>1 DEF OpenTmp, TypeOK, Chunks
<1>3. ASSUME NEW p \in Procs, WriteChunk(p)
      PROVE  TypeOK'
  BY <1>3 DEF WriteChunk, TypeOK, Chunks, histVars
<1>4. ASSUME NEW p \in Procs, Rename(p)
      PROVE  TypeOK'
  BY <1>4 DEF Rename, Done, TypeOK, Chunks
<1>5. ASSUME NEW p \in Procs, Done(p),
             UNCHANGED <<storeVars, decayed, raced>>, orphaned' \subseteq Files
      PROVE  TypeOK'
  BY <1>5 DEF Done, TypeOK, Chunks, storeVars
<1>6. ASSUME NEW p \in Procs, NEW d \in Digests, GetOpens(p, d)
      PROVE  TypeOK'
  BY <1>6 DEF GetOpens, Intact, TypeOK, Chunks, storeVars
<1>7. ASSUME NEW p \in Procs, ReadChunk(p)
      PROVE  TypeOK'
  BY <1>7 DEF ReadChunk, TypeOK, Chunks, storeVars, histVars
<1>8. ASSUME NEW d \in Digests, Decay(d)
      PROVE  TypeOK'
  BY <1>8 DEF Decay, TypeOK, Chunks, procVars
<1>9. CASE UNCHANGED vars
  BY <1>9 DEF vars, storeVars, procVars, histVars, TypeOK
<1>10. ASSUME NEW p \in Procs, RenameFails(p) \/ GetReturns(p) \/ GetRefuses(p) \/ Abort(p)
       PROVE  TypeOK'
  <2>1. orphaned' \subseteq Files
    BY <1>10 DEF RenameFails, GetReturns, GetRefuses, Abort, TypeOK
  <2>2. QED
    BY <1>10, <1>5, <2>1 DEF RenameFails, GetReturns, GetRefuses, Abort, storeVars
<1>11. QED
  BY <1>1, <1>2, <1>3, <1>4, <1>6, <1>7, <1>8, <1>9, <1>10
     DEF Next, Procs, PutFindsKey, GetMisses, PutStep, GetStep

\* Type correctness of the store, for every number of processes and files.
THEOREM TypeCorrect == Spec => []TypeOK
BY TypeInit, TypeStep, PTL DEF Spec

-----------------------------------------------------------------------------
(* The inductive invariant, one lemma per group of steps.                  *)

LEMMA IInvInit == Init => IInv
<1> SUFFICES ASSUME Init PROVE IInv
  OBVIOUS
<1>1. TypeOK
  BY TypeInit
<1>2. MissingChunksAreOwed
  BY DEF Init, MissingChunksAreOwed
<1>3. NamesApart /\ WritersOwn /\ UnracedIsSerial /\ ReadersSafe
  BY DEF Init, NamesApart, WritersOwn, UnracedIsSerial, ReadersSafe, Writing
<1>4. QED
  BY <1>1, <1>2, <1>3 DEF IInv

\* OpenTmp truncates a file that only this key's temporary name leads to, and
\* owes all of it.
LEMMA OpenTmpStep ==
    ASSUME IInv, TypeOK', NEW p \in Procs, OpenTmp(p)
    PROVE  IInv'
<1> USE SizeAssumption, NoneAssumption
<1> DEFINE d == key[p]
           f == IF tmp[d] # None THEN tmp[d] ELSE NewFile
<1>1. /\ f \in Files /\ d \in Digests
      /\ tmp[d] # None => f = tmp[d]
      /\ tmp[d] = None => ~InUse(f)
  BY NewFileIsFree DEF OpenTmp, IInv, TypeOK
<1>2. /\ tmp' = [tmp EXCEPT ![d] = f]
      /\ content' = [content EXCEPT ![f] = {}]
      /\ fd' = [fd EXCEPT ![p] = f]
      /\ orphaned' = orphaned \ {f} /\ decayed' = decayed \ {f}
      /\ pc' = [pc EXCEPT ![p] = "write"] /\ pc[p] = "open"
      /\ pos' = [pos EXCEPT ![p] = 0]
      /\ UNCHANGED <<blob, key, clean, wasIntact>>
      /\ raced' = IF Writers(d) = {} THEN raced ELSE raced \cup {d}
  BY DEF OpenTmp
<1> HIDE DEF f
<1>3. \A e \in Digests : f # blob[e] /\ (f = tmp[e] => e = d)
  BY <1>1 DEF IInv, NamesApart, InUse
<1>4. \A q \in Procs : q # p =>
         /\ Writing(q) /\ fd[q] = f => key[q] = d
         /\ pc[q] = "read" => fd[q] # f
  BY <1>1 DEF IInv, WritersOwn, ReadersSafe, InUse, Writing
<1>5. MissingChunksAreOwed'
  <2> SUFFICES ASSUME NEW e \in Digests, NEW g \in {blob'[e], tmp'[e]} \ {None},
                      g \notin orphaned' \cup decayed',
                      NEW c \in Chunks, c \notin content'[g]
               PROVE  c \in Owed(g)'
    BY DEF MissingChunksAreOwed, Chunks
  <2>1. CASE g = f
    BY <1>2, <2>1 DEF Owed, Chunks, IInv, TypeOK
  <2>2. CASE g # f
    <3>1. g \in {blob[e], tmp[e]} /\ g \notin orphaned \cup decayed
          /\ g \in Files /\ c \notin content[g]
      BY <1>1, <1>2, <2>2 DEF IInv, TypeOK
    <3>2. c \in Owed(g)
      BY <3>1 DEF IInv, MissingChunksAreOwed
    <3>3. QED
      BY <1>2, <3>2 DEF Owed, Chunks, IInv, TypeOK
  <2>3. QED
    BY <2>1, <2>2
<1>6. NamesApart'
  BY <1>1, <1>2, <1>3 DEF NamesApart, IInv, TypeOK
<1>7. WritersOwn'
  BY <1>1, <1>2, <1>3, <1>4 DEF WritersOwn, Writing, IInv, TypeOK
<1>8. \A q \in Procs : q # p /\ Writing(q) /\ key[q] = d => d \in raced'
  BY <1>2 DEF Writers, Writing
<1>9. UnracedIsSerial'
  BY <1>1, <1>2, <1>3, <1>4, <1>8 DEF UnracedIsSerial, Writing, IInv, TypeOK
<1>10. ReadersSafe'
  BY <1>1, <1>2, <1>4 DEF ReadersSafe, Intact, IInv, TypeOK
<1>11. QED
  BY <1>5, <1>6, <1>7, <1>9, <1>10 DEF IInv

\* A writer only adds chunks, each of which it owed.
LEMMA WriteChunkStep ==
    ASSUME IInv, TypeOK', NEW p \in Procs, WriteChunk(p)
    PROVE  IInv'
<1> USE SizeAssumption, NoneAssumption
<1>1. MissingChunksAreOwed'
  <2> SUFFICES ASSUME NEW e \in Digests, NEW g \in {blob[e], tmp[e]} \ {None},
                      g \notin orphaned \cup decayed,
                      NEW c \in Chunks, c \notin content'[g]
               PROVE  c \in Owed(g)'
    BY DEF MissingChunksAreOwed, Chunks, WriteChunk, histVars
  <2>1. g \in Files /\ c \notin content[g]
    BY DEF WriteChunk, IInv, TypeOK
  <2>2. PICK q \in Procs : pc[q] = "write" /\ fd[q] = g /\ c > pos[q]
    BY <2>1 DEF IInv, MissingChunksAreOwed, Owed
  <2>3. CASE q = p
    BY <2>2, <2>3 DEF WriteChunk, Owed, Chunks, IInv, TypeOK
  <2>4. CASE q # p
    BY <2>2, <2>4 DEF WriteChunk, Owed, Chunks, IInv, TypeOK
  <2>5. QED
    BY <2>3, <2>4
<1>2. NamesApart' /\ WritersOwn' /\ UnracedIsSerial'
  BY DEF WriteChunk, histVars, NamesApart, WritersOwn, UnracedIsSerial, Writing,
         IInv, TypeOK
<1>3. ReadersSafe'
  <2>1. \A f \in Files : Intact(f) => Intact(f)'
    BY DEF WriteChunk, Intact, Chunks, IInv, TypeOK
  <2>2. \A q \in Procs : pc'[q] = "read" => pc[q] = "read" /\ fd[q] \in Files
    BY DEF WriteChunk, IInv, TypeOK
  <2>3. UNCHANGED <<tmp, fd, clean, wasIntact, decayed>>
    BY DEF WriteChunk, histVars
  <2>4. QED
    BY <2>1, <2>2, <2>3 DEF ReadersSafe, IInv
<1>4. QED
  BY <1>1, <1>2, <1>3 DEF IInv

\* Without an overlap, Rename publishes the file its own writer completed.
LEMMA RenameStep ==
    ASSUME IInv, TypeOK', NEW p \in Procs, Rename(p)
    PROVE  IInv'
<1> USE NoneAssumption
<1>1. MissingChunksAreOwed'
  <2> SUFFICES ASSUME NEW e \in Digests, NEW g \in {blob'[e], tmp'[e]} \ {None},
                      g \notin orphaned \cup decayed,
                      NEW c \in Chunks, c \notin content[g]
               PROVE  c \in Owed(g)'
    BY DEF MissingChunksAreOwed, Chunks, Rename
  <2>1. \E e2 \in Digests : g \in {blob[e2], tmp[e2]} \ {None}
    BY DEF Rename, IInv, TypeOK
  <2>2. PICK q \in Procs : pc[q] = "write" /\ fd[q] = g /\ c > pos[q]
    BY <2>1 DEF IInv, MissingChunksAreOwed, Owed
  <2>3. q # p
    BY <2>2 DEF Rename
  <2>4. QED
    BY <2>2, <2>3 DEF Rename, Done, Owed, IInv, TypeOK
<1>2. NamesApart'
  BY DEF Rename, NamesApart, IInv, TypeOK
<1>3. WritersOwn'
  BY DEF Rename, Done, WritersOwn, UnracedIsSerial, Writing, IInv, TypeOK
<1>4. UnracedIsSerial'
  BY DEF Rename, Done, NamesApart, WritersOwn, UnracedIsSerial, Writing, IInv, TypeOK
<1>5. ReadersSafe'
  BY DEF Rename, Done, ReadersSafe, Intact, IInv, TypeOK
<1>6. QED
  BY <1>1, <1>2, <1>3, <1>4, <1>5 DEF IInv

\* An operation that ends, or a process that dies: its descriptor is gone, and
\* if chunks were still owed on the file the file counts as orphaned.
LEMMA EndStep ==
    ASSUME IInv, TypeOK', NEW p \in Procs,
           RenameFails(p) \/ GetReturns(p) \/ GetRefuses(p) \/ Abort(p)
    PROVE  IInv'
<1> USE NoneAssumption
<1>1. /\ Done(p)
      /\ UNCHANGED <<blob, tmp, content, decayed, raced>>
      /\ orphaned' = IF pc[p] = "write" THEN orphaned \cup {fd[p]} ELSE orphaned
  BY DEF RenameFails, GetReturns, GetRefuses, ReadDone, Abort, storeVars
<1>2. MissingChunksAreOwed'
  <2> SUFFICES ASSUME NEW e \in Digests, NEW g \in {blob[e], tmp[e]} \ {None},
                      g \notin orphaned' \cup decayed,
                      NEW c \in Chunks, c \notin content[g]
               PROVE  c \in Owed(g)'
    BY <1>1 DEF MissingChunksAreOwed, Chunks
  <2>1. PICK q \in Procs : pc[q] = "write" /\ fd[q] = g /\ c > pos[q]
    BY <1>1 DEF IInv, MissingChunksAreOwed, Owed
  <2>2. q # p
    BY <1>1, <2>1
  <2>3. QED
    BY <1>1, <2>1, <2>2 DEF Done, Owed, IInv, TypeOK
<1>3. NamesApart'
  BY <1>1 DEF NamesApart, IInv
<1>4. WritersOwn'
  BY <1>1 DEF Done, WritersOwn, Writing, IInv, TypeOK
<1>5. UnracedIsSerial'
  BY <1>1 DEF Done, WritersOwn, UnracedIsSerial, Writing, IInv, TypeOK
<1>6. ReadersSafe'
  BY <1>1 DEF Done, ReadersSafe, Intact, IInv, TypeOK
<1>7. QED
  BY <1>2, <1>3, <1>4, <1>5, <1>6 DEF IInv

\* get() changes nothing in the store.
LEMMA ReadStep ==
    ASSUME IInv, TypeOK', NEW p \in Procs,
           ReadChunk(p) \/ \E d \in Digests : GetOpens(p, d)
    PROVE  IInv'
<1> USE NoneAssumption
<1>1. CASE ReadChunk(p)
  <2>1. MissingChunksAreOwed'
    BY <1>1 DEF ReadChunk, storeVars, histVars, MissingChunksAreOwed, Owed, IInv, TypeOK
  <2>2. NamesApart' /\ WritersOwn' /\ UnracedIsSerial'
    BY <1>1 DEF ReadChunk, storeVars, histVars, NamesApart, WritersOwn,
                UnracedIsSerial, Writing, IInv, TypeOK
  <2>3. ReadersSafe'
    BY <1>1, SizeAssumption
       DEF ReadChunk, storeVars, histVars, ReadersSafe, Intact, Chunks, IInv, TypeOK
  <2>4. QED
    BY <2>1, <2>2, <2>3 DEF IInv
<1>2. ASSUME NEW d \in Digests, GetOpens(p, d)
      PROVE  IInv'
  <2>1. MissingChunksAreOwed'
    BY <1>2 DEF GetOpens, storeVars, MissingChunksAreOwed, Owed, IInv, TypeOK
  <2>2. NamesApart' /\ WritersOwn' /\ UnracedIsSerial'
    BY <1>2 DEF GetOpens, storeVars, NamesApart, WritersOwn, UnracedIsSerial,
                Writing, IInv, TypeOK
  <2>3. ReadersSafe'
    BY <1>2 DEF GetOpens, storeVars, NamesApart, ReadersSafe, Intact, IInv, TypeOK
  <2>4. QED
    BY <2>1, <2>2, <2>3 DEF IInv
<1>3. QED
  BY <1>1, <1>2

\* Decay is recorded in decayed; a put that starts touches no file.
LEMMA OtherStep ==
    ASSUME IInv, TypeOK',
           \/ \E d \in Digests : Decay(d)
           \/ \E p \in Procs, d \in Digests : PutMissesKey(p, d)
           \/ UNCHANGED vars
    PROVE  IInv'
<1> USE NoneAssumption
<1>1. ASSUME NEW d \in Digests, Decay(d)
      PROVE  IInv'
  <2>1. MissingChunksAreOwed'
    BY <1>1 DEF Decay, procVars, MissingChunksAreOwed, Owed, Chunks, IInv, TypeOK
  <2>2. NamesApart' /\ WritersOwn' /\ UnracedIsSerial'
    BY <1>1 DEF Decay, procVars, NamesApart, WritersOwn, UnracedIsSerial, Writing, IInv
  <2>3. ReadersSafe'
    BY <1>1 DEF Decay, procVars, ReadersSafe, Intact, IInv, TypeOK
  <2>4. QED
    BY <2>1, <2>2, <2>3 DEF IInv
<1>2. ASSUME NEW p \in Procs, NEW d \in Digests, PutMissesKey(p, d)
      PROVE  IInv'
  <2>1. MissingChunksAreOwed'
    BY <1>2 DEF PutMissesKey, storeVars, histVars, MissingChunksAreOwed, Owed, IInv, TypeOK
  <2>2. NamesApart' /\ WritersOwn' /\ UnracedIsSerial' /\ ReadersSafe'
    BY <1>2 DEF PutMissesKey, storeVars, histVars, NamesApart, WritersOwn,
                UnracedIsSerial, ReadersSafe, Intact, Writing, IInv, TypeOK
  <2>3. QED
    BY <2>1, <2>2 DEF IInv
<1>3. CASE UNCHANGED vars
  BY <1>3 DEF vars, storeVars, procVars, histVars, IInv, MissingChunksAreOwed, Owed,
              NamesApart, WritersOwn, UnracedIsSerial, ReadersSafe, Intact, Writing
<1>4. QED
  BY <1>1, <1>2, <1>3

LEMMA IInvStep == IInv /\ [Next]_vars => IInv'
<1> SUFFICES ASSUME IInv, [Next]_vars PROVE IInv'
  OBVIOUS
<1>1. TypeOK'
  BY TypeStep DEF IInv
<1>2. QED
  BY <1>1, OpenTmpStep, WriteChunkStep, RenameStep, EndStep, ReadStep, OtherStep
     DEF Next, Procs, PutFindsKey, GetMisses, PutStep, GetStep

LEMMA StoreInvariant == Spec => []IInv
BY IInvInit, IInvStep, PTL DEF Spec

-----------------------------------------------------------------------------
(* The safety properties of the store.                                     *)

\* Missing chunks of a file under a name are owed by a live writer, or a
\* writer of the file died, or it decayed.
THEOREM ChunksOwed == Spec => []MissingChunksAreOwed
<1>1. IInv => MissingChunksAreOwed
  BY DEF IInv
<1>2. QED
  BY <1>1, StoreInvariant, PTL

\* A blob whose puts never overlapped is complete unless it decayed.
THEOREM NoHalfWrittenBlob == Spec => []PublishedIsIntact
<1>1. IInv => PublishedIsIntact
  <2> SUFFICES ASSUME IInv, NEW d \in Digests, HalfWritten(d),
                      d \notin raced, blob[d] \notin decayed
               PROVE  FALSE
    BY DEF PublishedIsIntact
  <2>1. blob[d] \notin orphaned
    BY DEF IInv, UnracedIsSerial
  <2>2. PICK c \in Chunks : c \notin content[blob[d]]
    BY DEF HalfWritten, Intact, IInv, TypeOK
  <2>3. c \in Owed(blob[d])
    BY <2>1, <2>2 DEF HalfWritten, IInv, MissingChunksAreOwed
  <2>4. PICK p \in Procs : pc[p] = "write" /\ fd[p] = blob[d]
    BY <2>3 DEF Owed
  <2>5. QED
    BY <2>4 DEF IInv, WritersOwn, Writing
<1>2. QED
  BY <1>1, StoreInvariant, PTL

\* A put that overlaps no other never fails at its rename.
THEOREM RenameSafe == Spec => []RenameFindsOwnFile
<1>1. IInv => RenameFindsOwnFile
  BY DEF IInv, UnracedIsSerial, RenameFindsOwnFile, Writing
<1>2. QED
  BY <1>1, StoreInvariant, PTL

\* A get that opened a complete file refuses it only if the file decayed.
THEOREM NoFalseAlarm == Spec => []RefusalMeansDecay
<1>1. IInv => RefusalMeansDecay
  BY DEF IInv, ReadersSafe, RefusalMeansDecay, ReadDone
<1>2. QED
  BY <1>1, StoreInvariant, PTL
=============================================================================
