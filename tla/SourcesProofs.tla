---------------------------- MODULE SourcesProofs ----------------------------
(***************************************************************************)
(* Source trees for any number of commands, cores, files and revisions,    *)
(* and what gen makes of them for any cores, constraints and texts.        *)
(*                                                                         *)
(* For the trees four invariants, each over the first: Typed (what a       *)
(* command is at fits which command it is), PinsOK (gen --locked is at the *)
(* tree of the pinned bytes), TreesOK (a tree nobody looked at during an   *)
(* extraction has been extracted by one command, in the archive's order,   *)
(* and from ip.toml on there is nothing the extraction has not come to)    *)
(* and VendorsOK (a vendor that is alone has left the last version so far  *)
(* in every package's directory but the one it is at). For what gen makes  *)
(* of them two: EdamInv (the calls of the visit that are open each lead to *)
(* the next, what has returned is placed or leads back to them, and the    *)
(* order and the design are lists of exactly what the visits have been     *)
(* through) and GenInv (what was not refused has passed every check and is *)
(* rewritten by the plan); and the facts that make the checks, the plan    *)
(* and the rewriter, which scan apart, agree.                              *)
(***************************************************************************)
EXTENDS Sources, Gen, FiniteSetTheorems, SequenceTheorems, WellFoundedInduction, TLAPS

VendorPcs == {"fetch", "clear", "layopen", "laywrite", "vendored"}
GenPcs == {"next", "look", "open", "write", "read", "refused"}
TreePcs == {"look", "open", "write", "read"}
LayPcs == {"clear", "layopen", "laywrite"}

\* Where a command is tells which command it is and that it is at a core.
Placed(p) ==
    /\ kind[p] = "vendor" <=> pc[p] \in VendorPcs
    /\ pc[p] \in TreePcs \cup LayPcs => left[p] # {}
    /\ pc[p] \in TreePcs => digest[p] \in Digests /\ digest[p][1] = Current(p)
    /\ pc[p] \notin GenPcs => used[p] = {}

Typed == TypeOK /\ \A p \in Procs : Placed(p)

-----------------------------------------------------------------------------
\* gen --locked is at the tree of the pinned bytes, if it is at any.
PinsOK(p) ==
    /\ pc[p] \in TreePcs /\ Pinned(p, Current(p)) => digest[p] = lock[Current(p)]
    /\ \A u \in used[p] : Pinned(p, u.core) /\ via[p] # "search" => u.digest = lock[u.core]

-----------------------------------------------------------------------------
\* What an extraction nobody looked at has done of a tree, and what not: the files
\* it has dealt with are whole and come before the others, and from ip.toml on the
\* others are not there yet.
Extracts(p, d) ==
    /\ todo[p] \subseteq Holds[d[1]]
    /\ \A f \in Holds[d[1]] \ todo[p] :
        tree[d][f] = "whole" /\ \A g \in todo[p] : f < g
    /\ \A f \in todo[p] : Manifest <= f =>
        tree[d][f] = IF pc[p] = "write" /\ f = First(todo[p]) THEN "torn" ELSE "none"

SoloTree(d) ==
    /\ \A p, q \in Extracting(d) : p = q
    /\ \A p \in Extracting(d) : Extracts(p, d)
    /\ tree[d][Manifest] = "none" =>
        \A f \in Holds[d[1]] : Manifest <= f => tree[d][f] = "none"

TreeOK(d) ==
    /\ d \notin raced => SoloTree(d)
    /\ d \notin raced \cup cut =>
        tree[d][Manifest] = "none" \/ WholeTree(d) \/ Extracting(d) # {}

ReadOK(p) ==
    /\ pc[p] = "read" => WholeTree(digest[p]) \/ digest[p] \in raced \cup cut
    /\ \A u \in used[p] : ~u.whole => u.digest \in raced \cup cut

TreesOK == (\A d \in Digests : TreeOK(d)) /\ \A p \in Procs : ReadOK(p)

-----------------------------------------------------------------------------
\* A vendor has one artifact of each core once it has fetched them, and the
\* locked one.
FetchedOK(p) ==
    pc[p] \in VendorPcs =>
        /\ \A d, e \in got[p] : d[1] = e[1] => d = e
        /\ pc[p] = "fetch" => \A d \in got[p] : d[1] \notin left[p]
        /\ pc[p] # "fetch" => \A c \in Cores : lock[c] = NoSum \/ lock[c] \in got[p]

Alone(p) == p \in Vendors /\ p \notin met
Done(p, k) == {c \in Cores \ left[p] : Package[c] = k}
AtCore(p, k) == pc[p] \in LayPcs /\ k = Destination(p)

\* The files of a core, as they are once it is vendored.
LaidFrom(d) == [f \in Files |-> IF f \in Holds[d[1]] THEN [of |-> d, whole |-> TRUE] ELSE None]

\* The directory of a package that is dealt with holds the latest core so far.
Laid(p, k) ==
    Done(p, k) # {} =>
        \E d \in got[p] :
            /\ d[1] \in Done(p, k)
            /\ \A c \in Done(p, k) : c <= d[1]
            /\ vendored[k] = LaidFrom(d)

\* The one it is at holds what has been extracted of the core it is at.
Laying(p) ==
    /\ digest[p] \in got[p]
    /\ todo[p] \subseteq Holds[Current(p)]
    /\ vendored[Destination(p)] =
        [f \in Files |->
            CASE f \in Holds[Current(p)] \ todo[p] -> [of |-> digest[p], whole |-> TRUE]
              [] f \in todo[p] /\ pc[p] = "laywrite" /\ f = First(todo[p]) ->
                    [of |-> digest[p], whole |-> FALSE]
              [] OTHER -> None]

LaidOK(p) ==
    Alone(p) =>
        /\ Vendors = {p}
        /\ pc[p] \in LayPcs => \A c \in Cores \ left[p] : \A e \in left[p] : c < e
        /\ pc[p] = "vendored" => left[p] = {}
        /\ pc[p] # "fetch" => \A k \in Packages : AtCore(p, k) \/ Laid(p, k)
        /\ pc[p] \in {"layopen", "laywrite"} => Laying(p)

VendorsOK == \A p \in Procs : FetchedOK(p) /\ LaidOK(p)

-----------------------------------------------------------------------------
(* Numbers and files.                                                      *)

LEMMA FirstOf ==
    ASSUME NEW S \in SUBSET Nat, S # {}
    PROVE  First(S) \in S /\ \A n \in S : First(S) <= n
<1> DEFINE R == OpToRel(<, Nat)
<1>1. PICK m \in S : \A n \in S : ~(<<n, m>> \in R)
  <2> HIDE DEF R
  <2> QED
    BY NatLessThanWellFounded, WFMin DEF R
<1>2. \A n \in S : m <= n
  <2>1. \A n \in S : ~(n < m)
    BY <1>1 DEF OpToRel
  <2>2. QED
    BY <2>1
<1>3. QED
  BY <1>2 DEF First

LEMMA LastIs ==
    ASSUME NEW S \in SUBSET Nat, NEW c \in S, \A n \in S : n <= c
    PROVE  LastCore(S) = c
<1>1. ASSUME NEW m \in S, \A n \in S : n <= m PROVE m = c
  <2>1. m <= c /\ c <= m /\ m \in Nat /\ c \in Nat
    BY <1>1
  <2>2. QED
    BY <2>1
<1>2. LastCore(S) \in S /\ \A n \in S : n <= LastCore(S)
  BY DEF LastCore
<1>3. QED
  BY <1>1, <1>2

LEMMA FilesAreNumbers ==
    /\ Files \subseteq Nat
    /\ \A d \in Digests : d[1] \in Cores /\ Holds[d[1]] \subseteq Files /\ Manifest \in Holds[d[1]]
BY HoldsAssumption DEF Files, Digests

LEMMA CurrentIsCore ==
    ASSUME TypeOK, NEW p \in Procs, left[p] # {}
    PROVE  /\ Current(p) \in left[p] /\ Current(p) \in Cores
           /\ \A c \in left[p] : Current(p) <= c
BY FirstOf, CoresAssumption DEF TypeOK, Current

LEMMA FirstFile ==
    ASSUME TypeOK, NEW p \in Procs, todo[p] # {}
    PROVE  /\ First(todo[p]) \in todo[p] /\ First(todo[p]) \in Files
           /\ \A f \in todo[p] : First(todo[p]) <= f
BY FirstOf, FilesAreNumbers DEF TypeOK

LEMMA DigestOf ==
    ASSUME NEW c \in Cores, NEW r \in Revisions
    PROVE  <<c, r>> \in Digests /\ <<c, r>>[1] = c
BY DEF Digests

LEMMA LockedDigest ==
    ASSUME TypeOK, NEW c \in Cores, lock[c] # NoSum
    PROVE  lock[c] \in Digests /\ lock[c][1] = c
BY LocksAssumption DEF TypeOK, Digests

-----------------------------------------------------------------------------
(* Types and places.                                                       *)

LEMMA TypedInit == Init => Typed
<1> SUFFICES ASSUME Init PROVE Typed
  OBVIOUS
<1>1. tree \in [Digests -> [Files -> {"none", "torn", "whole"}]]
  BY DEF Init
<1>2. vendored \in [Packages -> [Files -> FileOf \cup {None}]]
  BY DEF Init
<1>3. started \in 0..MaxCommands
  BY MaxCommandsAssumption DEF Init
<1>4. TypeOK
  BY <1>1, <1>2, <1>3 DEF Init, TypeOK
<1>5. \A p \in Procs : Placed(p)
  BY DEF Init, Placed, VendorPcs, GenPcs, TreePcs, LayPcs
<1>6. QED
  BY <1>4, <1>5 DEF Typed

\* What a step of one command leaves of another's place.
LEMMA OthersPlaced ==
    ASSUME NEW q \in Procs, Placed(q),
           UNCHANGED <<pc[q], kind[q], left[q], digest[q], used[q]>>
    PROVE  Placed(q)'
BY DEF Placed, Current

LEMMA TypedGen ==
    ASSUME Typed, NEW p \in Procs, GenStep(p)
    PROVE  Typed'
<1> USE DEF Typed, Goto, Starts, worldVars, diskVars, procVars, histVars
<1>a. TypeOK /\ \A q \in Procs : Placed(q)
  OBVIOUS
<1>b. \A q \in Procs \ {p} : UNCHANGED <<pc[q], kind[q], left[q], digest[q], used[q]>>
  BY <1>a DEF GenStep, StartGen, FromCache, FromSearch, FromRegistry, Look, Opens, Writes, Reads,
              Generates, Uses, TypeOK
<1>c. \A q \in Procs \ {p} : Placed(q)'
  BY <1>a, <1>b, OthersPlaced
<1>1. ASSUME NEW k \in {"gen", "genlocked"}, StartGen(p, k) PROVE TypeOK' /\ Placed(p)'
  <2>s. started' \in 0..MaxCommands
    BY <1>1, <1>a, MaxCommandsAssumption DEF StartGen, TypeOK
  <2>v. via' \in [Procs -> {"published", "search", "nothing"}]
    BY <1>1, <1>a DEF StartGen, TypeOK
  <2>1. TypeOK'
    BY <1>1, <1>a, <2>s, <2>v DEF StartGen, TypeOK, Current
  <2>2. Placed(p)'
    BY <1>1, <1>a DEF StartGen, TypeOK, Idle, Placed, VendorPcs, GenPcs, TreePcs, LayPcs
  <2>3. QED
    BY <2>1, <2>2
<1>2. CASE FromCache(p)
  <2>1. left[p] # {} /\ Current(p) \in Cores /\ lock[Current(p)] # NoSum
    BY <1>2, <1>a, CurrentIsCore DEF FromCache, Pinned
  <2>2. lock[Current(p)] \in Digests /\ lock[Current(p)][1] = Current(p)
    BY <1>a, <2>1, LockedDigest
  <2>3. TypeOK'
    BY <1>2, <1>a, <2>2 DEF FromCache, TypeOK, Current
  <2>4. Placed(p)'
    BY <1>2, <1>a, <2>2
       DEF FromCache, TypeOK, Placed, VendorPcs, GenPcs, TreePcs, LayPcs, Current
  <2>5. QED
    BY <1>c, <2>3, <2>4
<1>3. CASE FromSearch(p)
  <2>1. Current(p) \in Cores /\ <<Current(p), served[Current(p)]>> \in Digests
    BY <1>3, <1>a, CurrentIsCore DEF FromSearch, Digests, TypeOK
  <2>u. /\ used' \in [Procs -> SUBSET [core : Cores, digest : Digests, whole : BOOLEAN]]
        /\ left' \in [Procs -> SUBSET Cores]
    <3> DEFINE d == <<Current(p), served[Current(p)]>>
               u == [core |-> Current(p), digest |-> d, whole |-> TRUE]
    <3>1. /\ used' = [used EXCEPT ![p] = used[p] \cup {u}]
          /\ left' = [left EXCEPT ![p] = left[p] \ {Current(p)}]
      BY <1>3, <1>a DEF FromSearch, Uses, TypeOK
    <3>2. u \in [core : Cores, digest : Digests, whole : BOOLEAN]
      BY <2>1
    <3> HIDE DEF u
    <3>3. QED
      BY <1>a, <3>1, <3>2 DEF TypeOK
  <2>a. \A q \in Procs : pc'[q] \in {"open", "write", "layopen", "laywrite"} =>
            todo'[q] # {} /\ digest'[q] \in Digests /\ digest'[q][1] = Current(q)'
    BY <1>3, <1>a DEF FromSearch, Uses, TypeOK, Current
  <2>2. TypeOK'
    BY <1>3, <1>a, <2>u, <2>a DEF FromSearch, TypeOK
  <2>3. Placed(p)'
    BY <1>3, <1>a DEF FromSearch, Uses, TypeOK, Placed, VendorPcs, GenPcs, TreePcs, LayPcs
  <2>4. QED
    BY <1>c, <2>2, <2>3
<1>4. CASE FromRegistry(p)
  <2>1. Current(p) \in Cores /\ <<Current(p), served[Current(p)]>> \in Digests
    BY <1>4, <1>a, CurrentIsCore DEF FromRegistry, Digests, TypeOK
  <2>2. TypeOK'
    BY <1>4, <1>a, <2>1 DEF FromRegistry, TypeOK, Current
  <2>3. Placed(p)'
    BY <1>4, <1>a, <2>1
       DEF FromRegistry, TypeOK, Placed, VendorPcs, GenPcs, TreePcs, LayPcs, Current
  <2>4. QED
    BY <1>c, <2>2, <2>3
<1>5. CASE Look(p)
  <2>1. /\ digest[p] \in Digests /\ digest[p][1] = Current(p) /\ left[p] # {}
        /\ Holds[digest[p][1]] # {} /\ Holds[digest[p][1]] \subseteq Files
    BY <1>5, <1>a, FilesAreNumbers DEF Look, Placed, TreePcs
  <2>2. raced' \subseteq Digests
    BY <1>5, <1>a, <2>1 DEF Look, TypeOK
  <2>3. TypeOK'
    BY <1>5, <1>a, <2>1, <2>2 DEF Look, TypeOK, Current
  <2>4. Placed(p)'
    BY <1>5, <1>a, <2>1 DEF Look, TypeOK, Placed, VendorPcs, GenPcs, TreePcs, LayPcs, Current
  <2>5. QED
    BY <1>c, <2>3, <2>4
<1>6. CASE Opens(p)
  <2>1. tree' \in [Digests -> [Files -> {"none", "torn", "whole"}]]
    BY <1>6, <1>a, FirstFile DEF Opens, TypeOK
  <2>2. TypeOK'
    BY <1>6, <1>a, <2>1 DEF Opens, TypeOK, Current
  <2>3. Placed(p)'
    BY <1>6, <1>a DEF Opens, TypeOK, Placed, VendorPcs, GenPcs, TreePcs, LayPcs, Current
  <2>4. QED
    BY <1>c, <2>2, <2>3
<1>7. CASE Writes(p)
  <2>1. tree' \in [Digests -> [Files -> {"none", "torn", "whole"}]]
    BY <1>7, <1>a, FirstFile DEF Writes, TypeOK
  <2>2. TypeOK'
    BY <1>7, <1>a, <2>1, FirstFile DEF Writes, TypeOK, Current
  <2>3. Placed(p)'
    BY <1>7, <1>a DEF Writes, TypeOK, Placed, VendorPcs, GenPcs, TreePcs, LayPcs, Current
  <2>4. QED
    BY <1>c, <2>2, <2>3
<1>8. CASE Reads(p)
  <2>1. /\ digest[p] \in Digests /\ left[p] # {} /\ Current(p) \in Cores
        /\ WholeTree(digest[p]) \in BOOLEAN
    BY <1>8, <1>a, CurrentIsCore DEF Reads, Placed, TreePcs, WholeTree
  <2>2. TypeOK'
    BY <1>8, <1>a, <2>1 DEF Reads, Uses, TypeOK, Current
  <2>3. Placed(p)'
    BY <1>8, <1>a DEF Reads, Uses, TypeOK, Placed, VendorPcs, GenPcs, TreePcs, LayPcs
  <2>4. QED
    BY <1>c, <2>2, <2>3
<1>9. CASE Generates(p)
  <2>1. TypeOK'
    BY <1>9, <1>a DEF Generates, TypeOK, Current
  <2>2. Placed(p)'
    BY <1>9, <1>a DEF Generates, TypeOK, Placed, VendorPcs, GenPcs, TreePcs, LayPcs
  <2>3. QED
    BY <1>c, <2>1, <2>2
<1>10. QED
  BY <1>1, <1>2, <1>3, <1>4, <1>5, <1>6, <1>7, <1>8, <1>9, <1>c DEF GenStep

LEMMA TypedVendor ==
    ASSUME Typed, NEW p \in Procs, VendorStep(p)
    PROVE  Typed'
<1> USE DEF Typed, Goto, Starts, worldVars, diskVars, procVars, histVars
<1>a. TypeOK /\ \A q \in Procs : Placed(q)
  OBVIOUS
<1>b. \A q \in Procs \ {p} : UNCHANGED <<pc[q], kind[q], left[q], digest[q], used[q]>>
  BY <1>a DEF VendorStep, StartVendor, Fetches, Verifies, Clears, Cleared, LayOpens, LayWrites, TypeOK
<1>c. \A q \in Procs \ {p} : Placed(q)'
  BY <1>a, <1>b, OthersPlaced
<1>1. CASE StartVendor(p)
  <2>1. started' \in 0..MaxCommands
    BY <1>1, <1>a, MaxCommandsAssumption DEF StartVendor, TypeOK
  <2>2. met' \subseteq Procs
    BY <1>1, <1>a DEF StartVendor, TypeOK, Vendors
  <2>3. TypeOK'
    BY <1>1, <1>a, <2>1, <2>2 DEF StartVendor, TypeOK, Current
  <2>4. Placed(p)'
    BY <1>1, <1>a DEF StartVendor, TypeOK, Idle, Placed, VendorPcs, GenPcs, TreePcs, LayPcs
  <2>5. QED
    BY <1>c, <2>3, <2>4
<1>2. CASE Fetches(p)
  <2>1. <<Current(p), served[Current(p)]>> \in Digests
    BY <1>2, <1>a, CurrentIsCore DEF Fetches, Digests, TypeOK
  <2>2. TypeOK'
    BY <1>2, <1>a, <2>1 DEF Fetches, TypeOK, Current
  <2>3. Placed(p)'
    BY <1>2, <1>a DEF Fetches, TypeOK, Placed, VendorPcs, GenPcs, TreePcs, LayPcs
  <2>4. QED
    BY <1>c, <2>2, <2>3
<1>3. CASE Verifies(p)
  <2>1. TypeOK'
    BY <1>3, <1>a DEF Verifies, TypeOK, Current
  <2>2. Placed(p)'
    BY <1>3, <1>a, CoresAssumption
       DEF Verifies, TypeOK, Placed, VendorPcs, GenPcs, TreePcs, LayPcs
  <2>3. QED
    BY <1>c, <2>1, <2>2
<1>4. CASE Clears(p)
  <2>1. PICK f \in There(Destination(p)) :
            vendored' = [vendored EXCEPT ![Destination(p)][f] = None]
    BY <1>4 DEF Clears
  <2>2. TypeOK'
    BY <1>4, <1>a, <2>1 DEF Clears, TypeOK, Current
  <2>3. QED
    BY <1>4, <1>a, <2>2, OthersPlaced DEF Clears
<1>5. CASE Cleared(p)
  <2>1. PICK d \in got[p] :
            /\ d[1] = Current(p)
            /\ digest' = [digest EXCEPT ![p] = d]
            /\ todo' = [todo EXCEPT ![p] = Holds[d[1]]]
    BY <1>5 DEF Cleared
  <2>2. d \in Digests /\ Holds[d[1]] # {} /\ Holds[d[1]] \subseteq Files
    BY <1>a, FilesAreNumbers DEF TypeOK
  <2>3. TypeOK'
    BY <1>5, <1>a, <2>1, <2>2 DEF Cleared, TypeOK, Current
  <2>4. Placed(p)'
    BY <1>5, <1>a DEF Cleared, TypeOK, Placed, VendorPcs, GenPcs, TreePcs, LayPcs
  <2>5. QED
    BY <1>c, <2>3, <2>4
<1>6. CASE LayOpens(p)
  <2>1. [of |-> digest[p], whole |-> FALSE] \in FileOf
    BY <1>6, <1>a DEF LayOpens, TypeOK, FileOf
  <2>2. vendored' \in [Packages -> [Files -> FileOf \cup {None}]]
    BY <1>6, <1>a, <2>1 DEF LayOpens, TypeOK
  <2>3. TypeOK'
    BY <1>6, <1>a, <2>2 DEF LayOpens, TypeOK, Current
  <2>4. Placed(p)'
    BY <1>6, <1>a DEF LayOpens, TypeOK, Placed, VendorPcs, GenPcs, TreePcs, LayPcs
  <2>5. QED
    BY <1>c, <2>3, <2>4
<1>7. CASE LayWrites(p)
  <2> DEFINE written == [vendored EXCEPT ![Destination(p)][First(todo[p])] =
                            [of |-> digest[p], whole |-> TRUE]]
  <2>1. [of |-> digest[p], whole |-> TRUE] \in FileOf
    BY <1>7, <1>a DEF LayWrites, TypeOK, FileOf
  <2>2. vendored' \in {vendored, written}
    BY <1>7 DEF LayWrites
  <2>3. written \in [Packages -> [Files -> FileOf \cup {None}]]
    BY <1>a, <2>1 DEF TypeOK
  <2>4. vendored' \in [Packages -> [Files -> FileOf \cup {None}]]
    BY <1>a, <2>2, <2>3 DEF TypeOK
  <2>5. TypeOK'
    BY <1>7, <1>a, <2>4, FirstFile DEF LayWrites, TypeOK, Current
  <2>6. Placed(p)'
    <3>1. /\ left[p] # {} /\ kind[p] = "vendor" /\ kind' = kind
          /\ used[p] = {} /\ used' = used
      BY <1>7, <1>a DEF LayWrites, Placed, VendorPcs, GenPcs, LayPcs
    <3>2. /\ pc'[p] \in {"layopen", "clear", "vendored"}
          /\ pc'[p] = "layopen" => left'[p] = left[p]
          /\ pc'[p] = "clear" => left'[p] = left[p] \ {Current(p)} /\ left[p] # {Current(p)}
      BY <1>7, <1>a DEF LayWrites, TypeOK
    <3>3. pc'[p] \in LayPcs => left'[p] # {}
      BY <3>1, <3>2 DEF LayPcs
    <3>4. QED
      BY <3>1, <3>2, <3>3 DEF Placed, VendorPcs, GenPcs, TreePcs
  <2>7. QED
    BY <1>c, <2>5, <2>6
<1>8. QED
  BY <1>1, <1>2, <1>3, <1>4, <1>5, <1>6, <1>7 DEF VendorStep

LEMMA TypedRest ==
    ASSUME Typed,
           \/ \E p \in Procs : Pull(p) \/ Stop(p)
           \/ \E c \in Cores : Drift(c)
           \/ UNCHANGED vars
    PROVE  Typed'
<1> USE DEF Typed, Goto, Starts, worldVars, diskVars, procVars, histVars
<1>a. TypeOK /\ \A q \in Procs : Placed(q)
  OBVIOUS
<1>1. ASSUME NEW p \in Procs, Pull(p) PROVE Typed'
  <2>1. started' \in 0..MaxCommands
    BY <1>1, <1>a, MaxCommandsAssumption DEF Pull, TypeOK
  <2>2. cached' \subseteq Digests
    BY <1>1, <1>a DEF Pull, TypeOK, Digests
  <2>3. TypeOK'
    BY <1>1, <1>a, <2>1, <2>2 DEF Pull, TypeOK, Current
  <2>4. QED
    BY <1>1, <1>a, <2>3, OthersPlaced DEF Pull
<1>2. ASSUME NEW p \in Procs, Stop(p) PROVE Typed'
  <2>1. cut' \subseteq Digests
    BY <1>2, <1>a DEF Stop, TypeOK
  <2>2. TypeOK'
    BY <1>2, <1>a, <2>1 DEF Stop, TypeOK, Current
  <2>3. Placed(p)'
    BY <1>2, <1>a DEF Stop, TypeOK, Placed, VendorPcs, GenPcs, TreePcs, LayPcs
  <2>4. \A q \in Procs \ {p} : Placed(q)'
    BY <1>2, <1>a, OthersPlaced DEF Stop, TypeOK
  <2>5. QED
    BY <2>2, <2>3, <2>4
<1>3. ASSUME NEW c \in Cores, Drift(c) PROVE Typed'
  <2>1. served' \in [Cores -> Revisions]
    BY <1>3, <1>a DEF Drift, TypeOK
  <2>2. TypeOK'
    BY <1>3, <1>a, <2>1 DEF Drift, TypeOK, Current
  <2>3. QED
    BY <1>3, <1>a, <2>2, OthersPlaced DEF Drift
<1>4. CASE UNCHANGED vars
  <2>1. TypeOK'
    BY <1>4, <1>a DEF vars, TypeOK, Current
  <2>2. QED
    BY <1>4, <1>a, <2>1, OthersPlaced DEF vars
<1>5. QED
  BY <1>1, <1>2, <1>3, <1>4

LEMMA TypedStep == Typed /\ [Next]_vars => Typed'
BY TypedGen, TypedVendor, TypedRest DEF Next

LEMMA TypedAlways == Spec => []Typed
BY TypedInit, TypedStep, PTL DEF Spec

\* The type invariant of gen, vendor and pull.
THEOREM TypeCorrect == Spec => []TypeOK
<1>1. Typed => TypeOK
  BY DEF Typed
<1>2. QED
  BY <1>1, TypedAlways, PTL
-----------------------------------------------------------------------------
(* The pins.                                                               *)

LEMMA OthersPinned ==
    ASSUME NEW q \in Procs, PinsOK(q),
           UNCHANGED <<lock, pc[q], kind[q], via[q], left[q], digest[q], used[q]>>
    PROVE  PinsOK(q)'
BY DEF PinsOK, Pinned, Current

\* What a step may do to the pins of its command.
LEMMA KeepsPins ==
    ASSUME NEW p \in Procs, PinsOK(p), UNCHANGED <<lock, kind[p], via[p]>>,
           pc'[p] \in TreePcs /\ Pinned(p, Current(p)') => digest'[p] = lock[Current(p)'],
           \A u \in used'[p] : \/ u \in used[p] \/ via[p] = "search"
                               \/ Pinned(p, u.core) => u.digest = lock[u.core]
    PROVE  PinsOK(p)'
<1>1. \A c : Pinned(p, c)' = Pinned(p, c)
  BY DEF Pinned
<1>2. ASSUME pc'[p] \in TreePcs, Pinned(p, Current(p)') PROVE digest'[p] = lock'[Current(p)']
  BY <1>2
<1>3. ASSUME NEW u \in used'[p], Pinned(p, u.core), via[p] # "search"
      PROVE  u.digest = lock[u.core]
  BY <1>3 DEF PinsOK
<1>4. QED
  BY <1>1, <1>2, <1>3 DEF PinsOK

LEMMA PinsGen ==
    ASSUME Typed, \A q \in Procs : PinsOK(q), NEW p \in Procs, GenStep(p)
    PROVE  \A q \in Procs : PinsOK(q)'
<1> USE DEF Typed, TypeOK, Goto, worldVars, diskVars, procVars, histVars, TreePcs, GenPcs
<1>a. lock' = lock /\ Placed(p) /\ PinsOK(p)
  BY DEF GenStep, StartGen, FromCache, FromSearch, FromRegistry, Look, Opens, Writes, Reads, Generates
<1>b. \A q \in Procs \ {p} :
        UNCHANGED <<pc[q], kind[q], via[q], left[q], digest[q], used[q]>>
  BY DEF GenStep, StartGen, FromCache, FromSearch, FromRegistry, Look, Opens, Writes, Reads,
         Generates, Uses
<1>c. \A q \in Procs \ {p} : PinsOK(q)'
  BY <1>a, <1>b, OthersPinned
<1>1. ASSUME NEW k \in {"gen", "genlocked"}, StartGen(p, k) PROVE PinsOK(p)'
  BY <1>1, <1>a DEF StartGen, Starts, Idle, Placed, PinsOK
<1>2. CASE FromCache(p)
  BY <1>2, <1>a DEF FromCache, PinsOK, Pinned, Current
<1>3. CASE FromSearch(p)
  <2>1. /\ UNCHANGED <<lock, kind, via>> /\ via[p] = "search"
        /\ pc[p] = "next" /\ pc' = pc
    BY <1>3 DEF FromSearch
  <2>2. QED
    BY <1>a, <1>c, <2>1, KeepsPins
<1>4. CASE FromRegistry(p)
  <2> DEFINE c == Current(p)
             d == <<c, served[c]>>
  <2>1. /\ UNCHANGED <<lock, kind, via, left, used>>
        /\ digest'[p] = d
        /\ pc'[p] = IF Pinned(p, c) /\ d # lock[c] THEN "refused" ELSE "look"
    BY <1>4 DEF FromRegistry
  <2>2. Current(p)' = c
    BY <2>1 DEF Current
  <2>3. pc'[p] \in TreePcs /\ Pinned(p, c) => digest'[p] = lock[c]
    BY <2>1
  <2>4. QED
    BY <1>a, <1>c, <2>1, <2>2, <2>3, KeepsPins
<1>5. CASE Look(p) \/ Opens(p) \/ Writes(p)
  BY <1>5, <1>a DEF Look, Opens, Writes, PinsOK, Pinned, Current
<1>6. CASE Reads(p)
  <2>1. /\ UNCHANGED <<lock, kind, via>>
        /\ used'[p] = used[p] \cup {[core |-> Current(p), digest |-> digest[p],
                                     whole |-> WholeTree(digest[p])]}
        /\ pc[p] = "read" /\ pc'[p] = "next"
    BY <1>6 DEF Reads, Uses
  <2>2. Pinned(p, Current(p)) => digest[p] = lock[Current(p)]
    BY <1>a, <2>1 DEF PinsOK
  <2>3. QED
    BY <1>a, <1>c, <2>1, <2>2, KeepsPins
<1>7. CASE Generates(p)
  <2>1. used'[p] = {} /\ pc'[p] = "idle"
    BY <1>7 DEF Generates
  <2>2. QED
    BY <1>c, <2>1 DEF PinsOK
<1>8. QED
  BY <1>1, <1>2, <1>3, <1>4, <1>5, <1>6, <1>7, <1>c DEF GenStep

LEMMA PinsRest ==
    ASSUME Typed, \A q \in Procs : PinsOK(q),
           \/ \E p \in Procs : Pull(p) \/ VendorStep(p) \/ Stop(p)
           \/ \E c \in Cores : Drift(c)
           \/ UNCHANGED vars
    PROVE  \A q \in Procs : PinsOK(q)'
<1> USE DEF Typed, TypeOK, Goto, worldVars, diskVars, procVars, histVars
<1>1. ASSUME NEW p \in Procs, VendorStep(p) \/ Stop(p) PROVE \A q \in Procs : PinsOK(q)'
  <2>1. lock' = lock
    BY <1>1 DEF VendorStep, StartVendor, Fetches, Verifies, Clears, Cleared, LayOpens, LayWrites, Stop
  <2>2. \A q \in Procs \ {p} :
          UNCHANGED <<pc[q], kind[q], via[q], left[q], digest[q], used[q]>>
    BY <1>1 DEF VendorStep, StartVendor, Fetches, Verifies, Clears, Cleared, LayOpens, LayWrites, Stop
  <2>3. VendorStep(p) => pc[p] \notin GenPcs /\ used' = used
    BY DEF VendorStep, StartVendor, Starts, Idle, Fetches, Verifies, Clears, Cleared, LayOpens,
           LayWrites, GenPcs
  <2>4. used'[p] = {}
    BY <1>1, <2>3 DEF Placed, Stop
  <2>5. pc'[p] \notin TreePcs
    BY <1>1 DEF VendorStep, StartVendor, Fetches, Verifies, Clears, Cleared, LayOpens,
           LayWrites, Stop, TreePcs
  <2>6. QED
    BY <2>1, <2>2, <2>4, <2>5, OthersPinned DEF PinsOK
<1>2. ASSUME NEW p \in Procs, Pull(p) PROVE \A q \in Procs : PinsOK(q)'
  BY <1>2, OthersPinned DEF Pull
<1>3. ASSUME NEW c \in Cores, Drift(c) PROVE \A q \in Procs : PinsOK(q)'
  BY <1>3, OthersPinned DEF Drift
<1>4. CASE UNCHANGED vars
  BY <1>4, OthersPinned DEF vars
<1>5. QED
  BY <1>1, <1>2, <1>3, <1>4

\* gen --locked that does not scan source trees generates from the pinned bytes or
\* not at all, however many commands fill the cache it reads.
THEOREM LockedGenPinned == Spec => []LockedGenUsesPins
<1> DEFINE Pins == \A q \in Procs : PinsOK(q)
<1>1. Init => Pins
  BY DEF Init, PinsOK, TreePcs
<1>2. Typed /\ Pins /\ [Next]_vars => Pins'
  BY PinsGen, PinsRest DEF Next
<1>3. Pins => LockedGenUsesPins
  BY DEF PinsOK, LockedGenUsesPins
<1>4. QED
  BY <1>1, <1>2, <1>3, TypedAlways, PTL DEF Spec
-----------------------------------------------------------------------------
(* The trees.                                                              *)

\* A tree that one command extracts lacks a file until it is done.
LEMMA ExtractedNotWhole ==
    ASSUME Typed, TreesOK, NEW d \in Digests, NEW p \in Extracting(d), d \notin raced
    PROVE  ~WholeTree(d)
<1>1. Extracts(p, d) /\ p \in Procs /\ todo[p] # {} /\ todo[p] \subseteq Files
  BY DEF TreesOK, TreeOK, SoloTree, Extracting, Typed, TypeOK
<1>2. /\ Manifest \in Holds[d[1]] /\ Manifest \in Nat
      /\ Files \subseteq Nat
  BY FilesAreNumbers
<1>3. PICK f \in todo[p] : Manifest <= f
  <2>1. CASE Manifest \in todo[p]
    BY <1>2, <2>1
  <2>2. CASE Manifest \notin todo[p]
    <3>1. \A g \in todo[p] : Manifest < g /\ g \in Nat
      BY <1>1, <1>2, <2>2 DEF Extracts
    <3>2. QED
      BY <1>1, <1>2, <3>1
  <2>3. QED
    BY <2>1, <2>2
<1>4. f \in Holds[d[1]] /\ tree[d][f] # "whole"
  BY <1>1, <1>3 DEF Extracts
<1>5. QED
  BY <1>4 DEF WholeTree

\* Steps that are no part of an extraction.
LEMMA QuietTrees ==
    ASSUME TreesOK, NEW p \in Procs, UNCHANGED <<tree, raced, cut>>,
           \A q \in Procs \ {p} : UNCHANGED <<pc[q], digest[q], todo[q], used[q]>>,
           pc[p] \notin {"open", "write"}, pc'[p] \notin {"open", "write", "read"},
           \A u \in used'[p] : ~u.whole => u.digest \in raced \cup cut
    PROVE  TreesOK'
<1>1. ASSUME NEW d \in Digests PROVE TreeOK(d)'
  <2>1. Extracting(d)' = Extracting(d) /\ p \notin Extracting(d)
    BY DEF Extracting
  <2>2. \A q \in Extracting(d) : q \in Procs \ {p}
    BY <2>1 DEF Extracting
  <2>3. \A q \in Extracting(d) : Extracts(q, d)' = Extracts(q, d)
    BY <2>2 DEF Extracts
  <2>4. TreeOK(d)
    BY DEF TreesOK
  <2>5. QED
    BY <2>1, <2>3, <2>4 DEF TreeOK, SoloTree, WholeTree
<1>2. ASSUME NEW q \in Procs PROVE ReadOK(q)'
  BY DEF TreesOK, ReadOK, WholeTree
<1>3. QED
  BY <1>1, <1>2 DEF TreesOK

\* A step at one tree leaves the others alone.
LEMMA OtherTrees ==
    ASSUME NEW p \in Procs, NEW d \in Digests, NEW e \in Digests \ {d}, TreeOK(e),
           tree'[e] = tree[e], raced' \ {d} = raced \ {d}, cut' \ {d} = cut \ {d},
           digest[p] = d, pc'[p] \in {"open", "write"} => digest'[p] = d,
           \A q \in Procs \ {p} : UNCHANGED <<pc[q], digest[q], todo[q]>>
    PROVE  TreeOK(e)'
<1>1. Extracting(e)' = Extracting(e) /\ p \notin Extracting(e)
  BY DEF Extracting
<1>2. \A q \in Extracting(e) : q \in Procs \ {p}
  BY <1>1 DEF Extracting
<1>3. \A q \in Extracting(e) : Extracts(q, e)' = Extracts(q, e)
  BY <1>2 DEF Extracts
<1>4. (e \in raced' <=> e \in raced) /\ (e \in cut' <=> e \in cut)
  OBVIOUS
<1>5. QED
  BY <1>1, <1>3, <1>4 DEF TreeOK, SoloTree, WholeTree

LEMMA LookTrees ==
    ASSUME Typed, TreesOK, NEW p \in Procs, Look(p)
    PROVE  TreesOK'
<1>1. PICK d \in Digests : d = digest[p]
  BY DEF Look, Typed, Placed, TreePcs
<1> DEFINE there == tree[d][Manifest] # "none"
<1>0. pc[p] = "look"
  BY DEF Look
<1>2. /\ UNCHANGED <<tree, digest, used, cut>>
      /\ pc' = [pc EXCEPT ![p] = IF there THEN "read" ELSE "open"]
      /\ todo' = [todo EXCEPT ![p] = IF there THEN {} ELSE Holds[d[1]]]
      /\ raced' = IF Extracting(d) = {} THEN raced ELSE raced \cup {d}
  BY <1>1 DEF Look, Goto, diskVars
<1>3. \A q \in Procs \ {p} : UNCHANGED <<pc[q], digest[q], todo[q], used[q]>>
  BY <1>2 DEF Typed, TypeOK
<1>4. \A e \in Digests \ {d} : TreeOK(e)'
  BY <1>1, <1>2, <1>3, OtherTrees DEF TreesOK
<1>5. TreeOK(d)'
  <2>1. CASE there
    <3>1. pc'[p] = "read"
      BY <1>2, <2>1 DEF Typed, TypeOK
    <3>2. Extracting(d)' = Extracting(d) /\ p \notin Extracting(d)
      BY <1>0, <1>1, <1>2, <1>3, <3>1 DEF Extracting
    <3>3. \A q \in Extracting(d) : Extracts(q, d)' = Extracts(q, d)
      BY <1>2, <1>3, <3>2 DEF Extracts, Extracting
    <3>4. raced \subseteq raced' /\ TreeOK(d)
      BY <1>1, <1>2 DEF TreesOK
    <3>5. QED
      BY <1>2, <3>2, <3>3, <3>4 DEF TreeOK, SoloTree, WholeTree
  <2>2. CASE ~there
    <3>1. pc'[p] = "open" /\ todo'[p] = Holds[d[1]]
      BY <1>2, <2>2 DEF Typed, TypeOK
    <3>2. SUFFICES ASSUME d \notin raced' PROVE SoloTree(d)'
      BY <1>2, <2>2 DEF TreeOK
    <3>3. Extracting(d) = {} /\ d \notin raced
      BY <1>2, <3>2
    <3>4. Extracting(d)' = {p}
      BY <1>1, <1>2, <1>3, <3>1, <3>3 DEF Extracting
    <3>5. \A f \in Holds[d[1]] : Manifest <= f => tree[d][f] = "none"
      BY <1>1, <2>2, <3>3 DEF TreesOK, TreeOK, SoloTree
    <3>6. Extracts(p, d)'
      BY <1>2, <3>1, <3>5 DEF Extracts
    <3>7. QED
      BY <1>2, <3>4, <3>5, <3>6 DEF SoloTree
  <2>3. QED
    BY <2>1, <2>2
<1>6. ASSUME NEW q \in Procs PROVE ReadOK(q)'
  <2>1. raced \subseteq raced' /\ ReadOK(q)
    BY <1>2 DEF TreesOK
  <2>2. CASE q = p
    <3>1. pc'[p] = "read" => WholeTree(d) \/ d \in raced' \cup cut
      <4>1. pc'[p] = "read" => there
        BY <1>2 DEF Typed, TypeOK
      <4>2. TreeOK(d)
        BY <1>1 DEF TreesOK
      <4>3. QED
        BY <1>2, <4>1, <4>2 DEF TreeOK
    <3>2. QED
      BY <1>1, <1>2, <2>1, <2>2, <3>1 DEF ReadOK, WholeTree
  <2>3. CASE q # p
    BY <1>2, <1>3, <2>1, <2>3 DEF ReadOK, WholeTree
  <2>4. QED
    BY <2>2, <2>3
<1>7. QED
  BY <1>4, <1>5, <1>6 DEF TreesOK

LEMMA OpensTrees ==
    ASSUME Typed, TreesOK, NEW p \in Procs, Opens(p)
    PROVE  TreesOK'
<1>a. digest[p] \in Digests /\ todo[p] # {}
  BY DEF Opens, Typed, TypeOK
<1>b. PICK d \in Digests, f \in Files : d = digest[p] /\ f = First(todo[p])
  BY <1>a, FirstFile DEF Typed
<1>1. /\ d \in Digests /\ pc[p] = "open" /\ p \in Extracting(d)
      /\ f \in todo[p] /\ f \in Files /\ \A g \in todo[p] : f <= g
  BY <1>a, <1>b, FirstFile DEF Opens, Typed, Extracting
<1>2. /\ UNCHANGED <<digest, todo, used, raced, cut>>
      /\ pc' = [pc EXCEPT ![p] = "write"]
      /\ tree' = [tree EXCEPT ![d][f] = "torn"]
  BY <1>b DEF Opens, Goto, histVars
<1>3. /\ \A q \in Procs \ {p} : pc'[q] = pc[q]
      /\ pc'[p] = "write"
      /\ \A e \in Digests \ {d} : tree'[e] = tree[e]
      /\ \A g \in Files : tree'[d][g] = IF g = f THEN "torn" ELSE tree[d][g]
  BY <1>1, <1>2 DEF Typed, TypeOK
<1>4. \A e \in Digests \ {d} : TreeOK(e)'
  BY <1>b, <1>1, <1>2, <1>3, OtherTrees DEF TreesOK
<1>5. Extracting(d)' = Extracting(d)
  BY <1>1, <1>2, <1>3 DEF Extracting
<1>6. Holds[d[1]] \subseteq Files /\ Files \subseteq Nat /\ Manifest \in Holds[d[1]]
  BY <1>1, FilesAreNumbers
<1>7. ASSUME d \notin raced PROVE SoloTree(d)'
  <2>1. SoloTree(d) /\ Extracting(d) = {p} /\ Extracts(p, d)
    BY <1>1, <1>7 DEF TreesOK, TreeOK, SoloTree
  <2>2. Extracts(p, d)'
    <3>1. \A g \in Holds[d[1]] \ todo[p] : tree'[d][g] = "whole"
      BY <1>1, <1>3, <1>6, <2>1 DEF Extracts
    <3>2. ASSUME NEW g \in todo[p], Manifest <= g
          PROVE  tree'[d][g] = IF g = f THEN "torn" ELSE "none"
      BY <1>b, <1>1, <1>3, <1>6, <2>1, <3>2 DEF Extracts
    <3>3. QED
      BY <1>b, <1>2, <1>3, <2>1, <3>1, <3>2 DEF Extracts
  <2>3. ASSUME tree'[d][Manifest] = "none", NEW g \in Holds[d[1]], Manifest <= g
        PROVE  tree'[d][g] = "none"
    <3>1. tree[d][Manifest] = "none" /\ Manifest # f
      BY <1>3, <1>6, <2>3
    <3>2. tree[d][g] = "none"
      BY <2>1, <2>3, <3>1 DEF SoloTree
    <3>3. g # f
      <4>1. Manifest \in todo[p]
        BY <1>6, <2>1, <3>1 DEF Extracts
      <4>2. f <= Manifest /\ f \in Nat /\ Manifest \in Nat
        BY <1>1, <1>6, <4>1
      <4>3. QED
        BY <2>3, <3>1, <4>2
    <3>4. QED
      BY <1>3, <1>6, <3>2, <3>3
  <2>4. QED
    BY <1>5, <2>1, <2>2, <2>3 DEF SoloTree
<1>8. TreeOK(d)'
  BY <1>1, <1>2, <1>5, <1>7 DEF TreeOK
<1>9. ASSUME NEW q \in Procs PROVE ReadOK(q)'
  <2>1. ReadOK(q) /\ (d \notin raced => ~WholeTree(d))
    BY <1>1, ExtractedNotWhole DEF TreesOK
  <2>2. pc'[q] = "read" => pc[q] = "read" /\ digest[q] \in Digests
    BY <1>3 DEF Typed, Placed, TreePcs
  <2>3. digest[q] \in Digests /\ digest[q] # d => WholeTree(digest[q])' = WholeTree(digest[q])
    BY <1>2, <1>3 DEF WholeTree
  <2>4. QED
    BY <1>2, <2>1, <2>2, <2>3 DEF ReadOK, WholeTree
<1>10. QED
  BY <1>4, <1>8, <1>9 DEF TreesOK
LEMMA WritesTrees ==
    ASSUME Typed, TreesOK, NEW p \in Procs, Writes(p)
    PROVE  TreesOK'
<1>a. digest[p] \in Digests /\ todo[p] # {}
  BY DEF Writes, Typed, TypeOK
<1>b. PICK d \in Digests, f \in Files : d = digest[p] /\ f = First(todo[p])
  BY <1>a, FirstFile DEF Typed
<1>1. /\ d \in Digests /\ pc[p] = "write" /\ p \in Extracting(d)
      /\ f \in todo[p] /\ f \in Files /\ \A g \in todo[p] : f <= g
  BY <1>a, <1>b, FirstFile DEF Writes, Typed, Extracting
<1>2. /\ UNCHANGED <<digest, used, raced, cut>>
      /\ pc' = [pc EXCEPT ![p] = IF todo[p] = {f} THEN "read" ELSE "open"]
      /\ todo' = [todo EXCEPT ![p] = todo[p] \ {f}]
      /\ tree' = [tree EXCEPT ![d][f] = "whole"]
  BY <1>b DEF Writes, Goto, histVars
<1>3. /\ \A q \in Procs \ {p} : UNCHANGED <<pc[q], todo[q]>>
      /\ pc'[p] = IF todo[p] = {f} THEN "read" ELSE "open"
      /\ todo'[p] = todo[p] \ {f}
      /\ \A e \in Digests \ {d} : tree'[e] = tree[e]
      /\ \A g \in Files : tree'[d][g] = IF g = f THEN "whole" ELSE tree[d][g]
  BY <1>1, <1>2 DEF Typed, TypeOK
<1>4. \A e \in Digests \ {d} : TreeOK(e)'
  BY <1>b, <1>1, <1>2, <1>3, OtherTrees DEF TreesOK
<1>5. Holds[d[1]] \subseteq Files /\ Files \subseteq Nat /\ Manifest \in Holds[d[1]]
  BY <1>1, FilesAreNumbers
<1>6. Extracting(d)' = IF todo[p] = {f} THEN Extracting(d) \ {p} ELSE Extracting(d)
  BY <1>b, <1>1, <1>2, <1>3 DEF Extracting
<1>7. ASSUME d \notin raced
      PROVE  /\ SoloTree(d)'
             /\ todo[p] = {f} => WholeTree(d)'
  <2>1. SoloTree(d) /\ Extracting(d) = {p} /\ Extracts(p, d)
    BY <1>1, <1>7 DEF TreesOK, TreeOK, SoloTree
  <2>2. \A g \in Holds[d[1]] \ todo'[p] : tree'[d][g] = "whole"
    BY <1>3, <1>5, <2>1 DEF Extracts
  <2>3. todo[p] # {f} => Extracts(p, d)'
    <3>1. ASSUME NEW g \in Holds[d[1]] \ todo'[p], NEW h \in todo'[p] PROVE g < h
      <4>1. CASE g = f
        <5>1. f <= h /\ h # f /\ f \in Nat /\ h \in Nat
          BY <1>1, <1>3, <1>5, <2>1 DEF Extracts
        <5>2. QED
          BY <4>1, <5>1
      <4>2. CASE g # f
        BY <1>3, <2>1, <4>2 DEF Extracts
      <4>3. QED
        BY <4>1, <4>2
    <3>2. ASSUME NEW g \in todo'[p], Manifest <= g PROVE tree'[d][g] = "none"
      <4>1. g \in todo[p] /\ g # f /\ g \in Files
        BY <1>3, <1>5, <2>1 DEF Extracts
      <4>2. tree[d][g] = "none"
        BY <1>b, <2>1, <3>2, <4>1 DEF Extracts
      <4>3. QED
        BY <1>3, <4>1, <4>2
    <3>3. QED
      BY <1>2, <1>3, <2>1, <2>2, <3>1, <3>2 DEF Extracts
  <2>4. ASSUME tree'[d][Manifest] = "none", NEW g \in Holds[d[1]], Manifest <= g
        PROVE  tree'[d][g] = "none"
    <3>1. tree[d][Manifest] = "none" /\ Manifest # f
      BY <1>3, <1>5, <2>4
    <3>2. tree[d][g] = "none"
      BY <2>1, <2>4, <3>1 DEF SoloTree
    <3>3. g # f
      <4>1. Manifest \in todo[p]
        BY <1>5, <2>1, <3>1 DEF Extracts
      <4>2. f <= Manifest /\ f \in Nat /\ Manifest \in Nat
        BY <1>1, <1>5, <4>1
      <4>3. QED
        BY <2>4, <3>1, <4>2
    <3>4. QED
      BY <1>3, <1>5, <3>2, <3>3
  <2>5. SoloTree(d)'
    BY <1>2, <1>6, <2>1, <2>3, <2>4 DEF SoloTree
  <2>6. todo[p] = {f} => WholeTree(d)'
    BY <1>3, <2>2 DEF WholeTree
  <2>7. QED
    BY <2>5, <2>6
<1>8. TreeOK(d)'
  BY <1>1, <1>2, <1>6, <1>7 DEF TreeOK
<1>9. \A e \in Digests : WholeTree(e) => WholeTree(e)'
  BY <1>3, <1>5 DEF WholeTree
<1>10. ASSUME NEW q \in Procs PROVE ReadOK(q)'
  <2>1. ReadOK(q)
    BY DEF TreesOK
  <2>2. pc'[q] = "read" => IF q = p THEN todo[p] = {f} ELSE pc[q] = "read" /\ digest[q] \in Digests
    BY <1>3 DEF Typed, Placed, TreePcs
  <2>3. ASSUME pc'[q] = "read"
        PROVE  WholeTree(digest[q])' \/ digest[q] \in raced \cup cut
    <3>1. PICK e \in Digests : e = digest[q]
      BY <1>b, <2>2, <2>3
    <3>2. WholeTree(e)' \/ e \in raced \cup cut
      BY <1>b, <1>7, <1>9, <2>1, <2>2, <2>3, <3>1 DEF ReadOK
    <3>3. QED
      BY <1>2, <3>1, <3>2
  <2>4. QED
    BY <1>2, <2>1, <2>3 DEF ReadOK
<1>11. QED
  BY <1>4, <1>8, <1>10 DEF TreesOK

LEMMA StopTrees ==
    ASSUME Typed, TreesOK, NEW p \in Procs, Stop(p)
    PROVE  TreesOK'
<1>1. /\ UNCHANGED <<tree, raced>> /\ pc'[p] = "idle" /\ used'[p] = {}
      /\ \A q \in Procs \ {p} : UNCHANGED <<pc[q], digest[q], todo[q], used[q]>>
      /\ cut' = IF pc[p] \in {"open", "write"} /\ tree[digest[p]][Manifest] # "none"
                THEN cut \cup {digest[p]} ELSE cut
  BY DEF Stop, Goto, diskVars, Typed, TypeOK
<1>2. CASE pc[p] \notin {"open", "write"}
  BY <1>1, <1>2, QuietTrees
<1>3. CASE pc[p] \in {"open", "write"}
  <2>1. PICK d \in Digests : d = digest[p]
    BY <1>3 DEF Typed, TypeOK
  <2>2. \A e \in Digests \ {d} : TreeOK(e)'
    BY <1>1, <2>1, OtherTrees DEF TreesOK
  <2>3. Extracting(d)' = Extracting(d) \ {p}
    BY <1>1, <2>1 DEF Extracting
  <2>4. \A q \in Extracting(d) \ {p} : Extracts(q, d)' = Extracts(q, d)
    BY <1>1 DEF Extracts, Extracting
  <2>5. SoloTree(d) => SoloTree(d)'
    BY <1>1, <2>3, <2>4 DEF SoloTree
  <2>6. TreeOK(d)'
    BY <1>1, <1>3, <2>1, <2>5 DEF TreesOK, TreeOK
  <2>7. \A q \in Procs : ReadOK(q)'
    BY <1>1 DEF TreesOK, ReadOK, WholeTree
  <2>8. QED
    BY <2>2, <2>6, <2>7 DEF TreesOK
<1>4. QED
  BY <1>2, <1>3

LEMMA TreesStep == Typed /\ TreesOK /\ [Next]_vars => TreesOK'
<1> SUFFICES ASSUME Typed, TreesOK, [Next]_vars PROVE TreesOK'
  OBVIOUS
<1> USE DEF Goto, worldVars, diskVars, procVars, histVars
<1>1. ASSUME NEW p \in Procs,
             \/ \E k \in {"gen", "genlocked"} : StartGen(p, k)
             \/ FromCache(p) \/ FromSearch(p) \/ FromRegistry(p) \/ Reads(p) \/ Generates(p)
             \/ Pull(p) \/ VendorStep(p)
      PROVE  TreesOK'
  <2>1. UNCHANGED <<tree, raced, cut>>
    BY <1>1 DEF StartGen, FromCache, FromSearch, FromRegistry, Reads, Generates, Pull, VendorStep,
                StartVendor, Fetches, Verifies, Clears, Cleared, LayOpens, LayWrites
  <2>2. \A q \in Procs \ {p} : UNCHANGED <<pc[q], digest[q], todo[q], used[q]>>
    BY <1>1 DEF StartGen, FromCache, FromSearch, FromRegistry, Reads, Generates, Pull, VendorStep,
                StartVendor, Fetches, Verifies, Clears, Cleared, LayOpens, LayWrites, Uses,
                Typed, TypeOK
  <2>3. pc[p] \notin {"open", "write"} /\ pc'[p] \notin {"open", "write", "read"}
    BY <1>1 DEF StartGen, FromCache, FromSearch, FromRegistry, Reads, Generates, Pull, VendorStep,
                StartVendor, Fetches, Verifies, Clears, Cleared, LayOpens, LayWrites, Starts, Idle,
                Typed, TypeOK
  <2>4. ReadOK(p)
    BY DEF TreesOK
  <2>5. \A u \in used'[p] : ~u.whole => u.digest \in raced \cup cut
    <3>1. CASE FromSearch(p)
      <4>1. PICK c, d : used'[p] = used[p] \cup {[core |-> c, digest |-> d, whole |-> TRUE]}
        BY <3>1 DEF FromSearch, Uses, Typed, TypeOK
      <4>2. QED
        BY <2>4, <4>1 DEF ReadOK
    <3>2. CASE Reads(p)
      <4>1. PICK c : used'[p] = used[p] \cup
                        {[core |-> c, digest |-> digest[p], whole |-> WholeTree(digest[p])]}
        BY <3>2 DEF Reads, Uses, Typed, TypeOK
      <4>2. WholeTree(digest[p]) \/ digest[p] \in raced \cup cut
        BY <2>4, <3>2 DEF Reads, ReadOK
      <4>3. QED
        BY <2>4, <4>1, <4>2 DEF ReadOK
    <3>3. CASE ~FromSearch(p) /\ ~Reads(p)
      <4>1. used'[p] \in {used[p], {}}
        BY <1>1, <3>3 DEF StartGen, FromCache, FromRegistry, Generates, Pull, VendorStep,
                          StartVendor, Fetches, Verifies, Clears, Cleared, LayOpens, LayWrites,
                          Typed, TypeOK
      <4>2. QED
        BY <2>4, <4>1 DEF ReadOK
    <3>4. QED
      BY <3>1, <3>2, <3>3
  <2>6. QED
    BY <2>1, <2>2, <2>3, <2>5, QuietTrees
<1>2. ASSUME UNCHANGED <<tree, raced, cut, pc, digest, todo, used>> PROVE TreesOK'
  BY <1>2 DEF TreesOK, TreeOK, ReadOK, SoloTree, Extracting, Extracts, WholeTree
<1>3. (\E c \in Cores : Drift(c)) \/ UNCHANGED vars =>
        UNCHANGED <<tree, raced, cut, pc, digest, todo, used>>
  BY DEF Drift, vars
<1>4. QED
  BY <1>1, <1>2, <1>3, LookTrees, OpensTrees, WritesTrees, StopTrees DEF Next, GenStep

LEMMA TreesAlways == Spec => []TreesOK
<1>1. Init => TreesOK
  <2> SUFFICES ASSUME Init PROVE TreesOK
    OBVIOUS
  <2>1. \A d \in Digests : Extracting(d) = {}
    BY DEF Init, Extracting
  <2>2. \A d \in Digests : \A f \in Holds[d[1]] : tree[d][f] = "none"
    BY FilesAreNumbers DEF Init
  <2>3. \A d \in Digests : TreeOK(d)
    BY <2>1, <2>2, FilesAreNumbers DEF TreeOK, SoloTree
  <2>4. \A p \in Procs : ReadOK(p)
    BY DEF Init, ReadOK
  <2>5. QED
    BY <2>3, <2>4 DEF TreesOK
<1>2. QED
  BY <1>1, TreesStep, TypedAlways, PTL DEF Spec

\* gen draws its files from an incomplete tree only if the tree was looked at while
\* it was extracted, or an extraction died past ip.toml: an extraction that died
\* before that is repeated, and does no harm.
THEOREM PartialExplained == Spec => []PartialTreeIsExplained
<1>1. TreesOK => PartialTreeIsExplained
  BY DEF TreesOK, ReadOK, PartialTreeIsExplained
<1>2. QED
  BY <1>1, TreesAlways, PTL

\* A complete tree stays so unless it was looked at while it was extracted.
THEOREM WholeStaysWhole == Spec => TreeStaysWhole
<1> DEFINE Stays == \A d \in Digests : WholeTree(d) => WholeTree(d)' \/ d \in raced
<1>1. Typed /\ TreesOK /\ [Next]_vars => [Stays]_vars
  <2> SUFFICES ASSUME Typed, TreesOK, Next, NEW d \in Digests, WholeTree(d), d \notin raced
               PROVE  WholeTree(d)'
    OBVIOUS
  <2>1. CASE tree' = tree
    BY <2>1 DEF WholeTree
  <2>2. ASSUME NEW p \in Procs, Opens(p) PROVE tree'[d] = tree[d]
    <3>1. pc[p] = "open" /\ digest[p] \in Digests
      BY <2>2 DEF Opens, Typed, TypeOK
    <3>2. digest[p] # d
      BY <3>1, ExtractedNotWhole DEF Extracting
    <3>3. QED
      BY <2>2, <3>2 DEF Opens, Typed, TypeOK
  <2>3. ASSUME NEW p \in Procs, Writes(p) PROVE WholeTree(d)'
    <3>1. \A f \in Files : tree'[d][f] \in {tree[d][f], "whole"}
      BY <2>3 DEF Writes, Typed, TypeOK
    <3>2. QED
      BY <3>1, FilesAreNumbers DEF WholeTree
  <2>4. tree' = tree \/ \E p \in Procs : Opens(p) \/ Writes(p)
    BY DEF Next, GenStep, VendorStep, StartGen, FromCache, FromSearch, FromRegistry, Look, Reads,
           Generates, Pull, StartVendor, Fetches, Verifies, Clears, Cleared, LayOpens, LayWrites,
           Stop, Drift, diskVars
  <2>5. QED
    BY <2>1, <2>2, <2>3, <2>4 DEF WholeTree
<1>2. QED
  BY <1>1, TypedAlways, TreesAlways, PTL DEF Spec, TreeStaysWhole
-----------------------------------------------------------------------------
(* The vendored directories.                                               *)

LEMMA OthersVendored ==
    ASSUME NEW q \in Procs, FetchedOK(q), LaidOK(q),
           UNCHANGED <<lock, pc[q], left[q], digest[q], todo[q], got[q]>>,
           Alone(q)' => Alone(q) /\ Vendors' \subseteq Vendors /\ vendored' = vendored
    PROVE  FetchedOK(q)' /\ LaidOK(q)'
<1>1. FetchedOK(q)'
  BY DEF FetchedOK
<1>2. LaidOK(q)'
  <2> SUFFICES ASSUME Alone(q)' PROVE LaidOK(q)'
    BY DEF LaidOK
  <2>1. Alone(q) /\ Vendors' = {q} /\ vendored' = vendored
    BY DEF LaidOK, Alone
  <2>2. Current(q)' = Current(q) /\ Destination(q)' = Destination(q)
    BY DEF Current, Destination
  <2>3. \A k : AtCore(q, k)' = AtCore(q, k) /\ Done(q, k)' = Done(q, k)
    BY <2>2 DEF AtCore, Done
  <2>4. \A k : Laid(q, k)' = Laid(q, k)
    BY <2>1, <2>3 DEF Laid
  <2>5. Laying(q)' = Laying(q)
    BY <2>1, <2>2 DEF Laying
  <2>6. QED
    BY <2>1, <2>3, <2>4, <2>5 DEF LaidOK
<1>3. QED
  BY <1>1, <1>2

\* What no vendor does leaves the vendors as they are.
LEMMA VendorsRest ==
    ASSUME Typed, VendorsOK,
           \/ \E p \in Procs : GenStep(p) \/ Pull(p) \/ Stop(p)
           \/ \E c \in Cores : Drift(c)
           \/ UNCHANGED vars
    PROVE  VendorsOK'
<1> USE DEF Goto, worldVars, diskVars, procVars, histVars
<1>1. UNCHANGED <<lock, vendored>>
  BY DEF GenStep, StartGen, FromCache, FromSearch, FromRegistry, Look, Opens, Writes, Reads,
         Generates, Pull, Stop, Drift, vars
<1>2. ASSUME NEW p \in Procs, GenStep(p) \/ Stop(p) PROVE VendorsOK'
  <2>1. \A q \in Procs \ {p} :
          UNCHANGED <<pc[q], kind[q], left[q], digest[q], todo[q], got[q]>>
    BY <1>2 DEF GenStep, StartGen, FromCache, FromSearch, FromRegistry, Look, Opens, Writes, Reads,
                Generates, Uses, Stop, Typed, TypeOK
  <2>2. met \ {p} = met' \ {p}
    BY <1>2 DEF GenStep, StartGen, FromCache, FromSearch, FromRegistry, Look, Opens, Writes, Reads,
                Generates, Stop
  <2>3. GenStep(p) => pc'[p] \notin VendorPcs /\ kind'[p] # "vendor"
    <3>1. GenStep(p) => pc'[p] \notin VendorPcs
      BY DEF GenStep, StartGen, FromCache, FromSearch, FromRegistry, Look, Opens, Writes, Reads,
             Generates, VendorPcs, Typed, TypeOK
    <3>2. GenStep(p) => pc[p] \notin VendorPcs \/ kind'[p] # "vendor"
      BY DEF GenStep, StartGen, FromCache, FromSearch, FromRegistry, Look, Opens, Writes, Reads,
             Generates, VendorPcs, Typed, TypeOK
    <3>3. GenStep(p) => kind'[p] \in {kind[p], "gen", "genlocked"}
      BY DEF GenStep, StartGen, FromCache, FromSearch, FromRegistry, Look, Opens, Writes, Reads,
             Generates, Typed, TypeOK
    <3>4. QED
      BY <3>1, <3>2, <3>3 DEF Typed, Placed
  <2>4. Stop(p) => pc'[p] \notin VendorPcs /\ kind'[p] # "vendor"
    BY DEF Stop, VendorPcs, Typed, TypeOK
  <2>5. p \notin Vendors' /\ FetchedOK(p)' /\ LaidOK(p)'
    BY <1>2, <2>3, <2>4 DEF Vendors, FetchedOK, LaidOK, Alone
  <2>6. Vendors' \subseteq Vendors
    BY <2>1, <2>5 DEF Vendors
  <2>7. \A q \in Procs \ {p} : FetchedOK(q)' /\ LaidOK(q)'
    BY <1>1, <2>1, <2>2, <2>6, OthersVendored DEF VendorsOK, Alone
  <2>8. QED
    BY <2>5, <2>7 DEF VendorsOK
<1>3. ASSUME UNCHANGED <<pc, kind, left, digest, todo, got, met>> PROVE VendorsOK'
  <2>1. Vendors' = Vendors
    BY <1>3 DEF Vendors
  <2>2. QED
    BY <1>1, <1>3, <2>1, OthersVendored DEF VendorsOK, Alone
<1>4. (\E p \in Procs : Pull(p)) \/ (\E c \in Cores : Drift(c)) \/ UNCHANGED vars =>
        UNCHANGED <<pc, kind, left, digest, todo, got, met>>
  BY DEF Pull, Drift, vars
<1>5. QED
  BY <1>2, <1>3, <1>4

LEMMA StartVendorStep ==
    ASSUME Typed, VendorsOK, NEW p \in Procs, StartVendor(p)
    PROVE  VendorsOK'
<1>1. /\ kind' = [kind EXCEPT ![p] = "vendor"] /\ pc' = [pc EXCEPT ![p] = "fetch"]
      /\ left' = [left EXCEPT ![p] = Cores] /\ got' = [got EXCEPT ![p] = {}]
      /\ met' = IF Vendors \ {p} = {} THEN met \ {p} ELSE met \cup Vendors \cup {p}
      /\ UNCHANGED <<lock, vendored, digest, todo>>
  BY DEF StartVendor, Goto, worldVars, diskVars
<1>2. Vendors' = Vendors \cup {p}
  BY <1>1 DEF Vendors, Typed, TypeOK
<1>3. \A q \in Procs \ {p} : ~Alone(q)'
  BY <1>1, <1>2 DEF Alone
<1>4. Alone(p)' => Vendors' = {p}
  BY <1>1, <1>2 DEF Alone
<1>5. \A q \in Procs \ {p} : FetchedOK(q)' /\ LaidOK(q)'
  BY <1>1, <1>3 DEF VendorsOK, FetchedOK, LaidOK, Typed, TypeOK
<1>6. pc'[p] = "fetch" /\ got'[p] = {}
  BY <1>1 DEF Typed, TypeOK
<1>7. FetchedOK(p)' /\ LaidOK(p)'
  BY <1>4, <1>6 DEF FetchedOK, LaidOK, LayPcs
<1>8. QED
  BY <1>5, <1>7 DEF VendorsOK

\* While a vendor takes a step no other one is alone.
LEMMA VendorStepOthers ==
    ASSUME Typed, VendorsOK, NEW p \in Procs, pc[p] \in VendorPcs, pc'[p] \in VendorPcs,
           UNCHANGED <<lock, kind, met>>,
           \A q \in Procs \ {p} : UNCHANGED <<pc[q], left[q], got[q]>>
    PROVE  /\ \A q \in Procs \ {p} : FetchedOK(q)' /\ LaidOK(q)'
           /\ p \in Vendors /\ Vendors' = Vendors
           /\ Alone(p)' = Alone(p)
<1>1. p \in Vendors /\ Vendors' = Vendors
  BY DEF Vendors, VendorPcs, Typed, Placed
<1>2. \A q \in Procs \ {p} : ~Alone(q)'
  BY <1>1 DEF VendorsOK, LaidOK, Alone
<1>3. \A q \in Procs \ {p} : FetchedOK(q)'
  BY DEF VendorsOK, FetchedOK
<1>4. QED
  BY <1>1, <1>2, <1>3 DEF LaidOK, Alone

LEMMA FetchVendored ==
    ASSUME Typed, VendorsOK, NEW p \in Procs, Fetches(p) \/ Verifies(p)
    PROVE  VendorsOK'
<1>1. /\ UNCHANGED <<lock, vendored, kind, met, digest, todo>>
      /\ \A q \in Procs \ {p} : UNCHANGED <<pc[q], left[q], got[q]>>
      /\ pc[p] = "fetch" /\ pc'[p] \in {"fetch", "clear"}
  BY DEF Fetches, Verifies, Goto, worldVars, histVars, diskVars, Typed, TypeOK
<1>2. /\ \A q \in Procs \ {p} : FetchedOK(q)' /\ LaidOK(q)'
      /\ Vendors' = Vendors /\ Alone(p)' = Alone(p)
  BY <1>1, VendorStepOthers DEF VendorPcs
<1>3. CASE Fetches(p)
  <2> DEFINE c == Current(p)
             d == <<c, served[c]>>
  <2>1. /\ pc' = pc /\ got'[p] = got[p] \cup {d} /\ left'[p] = left[p] \ {c}
        /\ c \in left[p]
    BY <1>3, CurrentIsCore DEF Fetches, Typed, TypeOK
  <2>2. \A e \in got[p] : e[1] \notin left[p]
    BY <1>1 DEF VendorsOK, FetchedOK, VendorPcs
  <2>3. FetchedOK(p)'
    BY <1>1, <2>1, <2>2 DEF VendorsOK, FetchedOK, VendorPcs
  <2>4. LaidOK(p)'
    BY <1>1, <1>2, <2>1 DEF VendorsOK, LaidOK, LayPcs
  <2>5. QED
    BY <1>2, <2>3, <2>4 DEF VendorsOK
<1>4. CASE Verifies(p)
  <2>1. /\ got' = got /\ left'[p] = Cores /\ pc'[p] = "clear"
        /\ \A c \in Cores : lock[c] = NoSum \/ lock[c] \in got[p]
    BY <1>4 DEF Verifies, Goto, Typed, TypeOK
  <2>2. FetchedOK(p)'
    BY <1>1, <2>1 DEF VendorsOK, FetchedOK, VendorPcs
  <2>3. \A k : Done(p, k)' = {}
    BY <2>1 DEF Done
  <2>4. LaidOK(p)'
    BY <1>2, <2>1, <2>3 DEF VendorsOK, LaidOK, Laid
  <2>5. QED
    BY <1>2, <2>2, <2>4 DEF VendorsOK
<1>5. QED
  BY <1>3, <1>4

\* Steps at the directory of the core the vendor is at: the other directories and
\* what it has done stay.
LEMMA AtDirectory ==
    ASSUME Typed, VendorsOK, NEW p \in Procs,
           UNCHANGED <<lock, kind, met, left, got>>,
           pc[p] \in LayPcs, pc'[p] \in LayPcs,
           \A q \in Procs \ {p} : pc'[q] = pc[q],
           \A k \in Packages : k # Destination(p) => vendored'[k] = vendored[k],
           Alone(p) /\ pc'[p] \in {"layopen", "laywrite"} => Laying(p)'
    PROVE  VendorsOK'
<1>1. LayPcs \subseteq VendorPcs /\ "fetch" \notin LayPcs /\ "vendored" \notin LayPcs
  BY DEF LayPcs, VendorPcs
<1>2. /\ \A q \in Procs \ {p} : FetchedOK(q)' /\ LaidOK(q)'
      /\ Vendors' = Vendors /\ Alone(p)' = Alone(p)
  BY <1>1, VendorStepOthers
<1>3. FetchedOK(p)'
  BY <1>1 DEF VendorsOK, FetchedOK
<1>4. ASSUME Alone(p), NEW k \in Packages PROVE AtCore(p, k)' \/ Laid(p, k)'
  <2>1. AtCore(p, k)' = AtCore(p, k)
    BY DEF AtCore, Destination, Current
  <2>2. AtCore(p, k) \/ (k # Destination(p) /\ Laid(p, k))
    BY <1>1, <1>4 DEF VendorsOK, LaidOK, AtCore
  <2>3. k # Destination(p) => Laid(p, k)' = Laid(p, k)
    BY <1>4 DEF Laid, Done
  <2>4. QED
    BY <2>1, <2>2, <2>3
<1>5. LaidOK(p)'
  <2>1. Alone(p) => \A c \in Cores \ left[p] : \A e \in left[p] : c < e
    BY DEF VendorsOK, LaidOK
  <2>2. Alone(p) => Vendors = {p}
    BY DEF VendorsOK, LaidOK
  <2>3. QED
    BY <1>1, <1>2, <1>4, <2>1, <2>2 DEF LaidOK
<1>6. QED
  BY <1>2, <1>3, <1>5 DEF VendorsOK
LEMMA ClearVendored ==
    ASSUME Typed, VendorsOK, NEW p \in Procs, Clears(p) \/ Cleared(p)
    PROVE  VendorsOK'
<1> DEFINE k == Destination(p)
<1>1. /\ UNCHANGED <<lock, kind, met, left, got>> /\ pc[p] = "clear"
      /\ \A q \in Procs \ {p} : pc'[q] = pc[q]
  BY DEF Clears, Cleared, Goto, worldVars, procVars, histVars, diskVars, Typed, TypeOK
<1>2. CASE Clears(p)
  <2>1. pc' = pc /\ \A j \in Packages : j # k => vendored'[j] = vendored[j]
    BY <1>2 DEF Clears, procVars, Typed, TypeOK
  <2>2. QED
    BY <1>1, <2>1, AtDirectory DEF LayPcs
<1>3. CASE Cleared(p)
  <2>1. PICK d \in got[p] :
            /\ d[1] = Current(p)
            /\ digest' = [digest EXCEPT ![p] = d]
            /\ todo' = [todo EXCEPT ![p] = Holds[d[1]]]
    BY <1>3 DEF Cleared
  <2>2. /\ pc'[p] = "layopen" /\ digest'[p] = d /\ todo'[p] = Holds[d[1]]
        /\ vendored' = vendored /\ There(k) = {}
    BY <1>3, <2>1 DEF Cleared, Goto, diskVars, Typed, TypeOK
  <2>3. /\ Current(p)' = Current(p) /\ Destination(p)' = k
    BY <1>1 DEF Current, Destination
  <2>4. k \in Packages
    <3>1. left[p] # {}
      BY <1>1 DEF Typed, Placed, LayPcs
    <3>2. QED
      BY <3>1, CurrentIsCore DEF Destination, Packages, Typed
  <2>5. vendored[k] = [f \in Files |-> None]
    BY <2>2, <2>4 DEF There, Typed, TypeOK
  <2>6. Laying(p)'
    BY <1>1, <2>1, <2>2, <2>3, <2>5 DEF Laying
  <2>7. QED
    BY <1>1, <2>2, <2>6, AtDirectory DEF LayPcs
<1>4. QED
  BY <1>2, <1>3

LEMMA LayOpensVendored ==
    ASSUME Typed, VendorsOK, NEW p \in Procs, LayOpens(p)
    PROVE  VendorsOK'
<1> DEFINE k == Destination(p)
           f == First(todo[p])
<1>1. /\ UNCHANGED <<lock, kind, met, left, got, digest, todo>> /\ pc[p] = "layopen"
      /\ pc'[p] = "laywrite"
      /\ \A q \in Procs \ {p} : pc'[q] = pc[q]
      /\ vendored' = [vendored EXCEPT ![k][f] = [of |-> digest[p], whole |-> FALSE]]
  BY DEF LayOpens, Goto, worldVars, histVars, Typed, TypeOK
<1>2. k \in Packages /\ f \in todo[p] /\ f \in Files
  <2>1. left[p] # {} /\ todo[p] # {}
    BY <1>1 DEF Typed, TypeOK, Placed, LayPcs
  <2>2. QED
    BY <2>1, CurrentIsCore, FirstFile DEF Destination, Packages, Typed
<1>3. \A j \in Packages : j # k => vendored'[j] = vendored[j]
  BY <1>1 DEF Typed, TypeOK
<1>4. ASSUME Alone(p) PROVE Laying(p)'
  <2>1. Laying(p)
    BY <1>1, <1>4 DEF VendorsOK, LaidOK
  <2>2. Current(p)' = Current(p) /\ Destination(p)' = k
    BY <1>1 DEF Current, Destination
  <2>3. vendored'[k] = [vendored[k] EXCEPT ![f] = [of |-> digest[p], whole |-> FALSE]]
    BY <1>1, <1>2 DEF Typed, TypeOK
  <2>4. vendored'[k] =
            [g \in Files |->
                CASE g \in Holds[Current(p)] \ todo[p] -> [of |-> digest[p], whole |-> TRUE]
                  [] g \in todo[p] /\ pc'[p] = "laywrite" /\ g = f ->
                        [of |-> digest[p], whole |-> FALSE]
                  [] OTHER -> None]
    BY <1>1, <1>2, <2>1, <2>3 DEF Laying
  <2>5. QED
    BY <1>1, <2>1, <2>2, <2>4 DEF Laying
<1>5. QED
  BY <1>1, <1>3, <1>4, AtDirectory DEF LayPcs

\* What a vendor that is alone writes is what it has opened.
LEMMA WritesItsOwn ==
    ASSUME Typed, VendorsOK, NEW p \in Procs, LayWrites(p), Alone(p)
    PROVE  LET f == First(todo[p])
               k == Destination(p)
           IN  /\ Laying(p) /\ k \in Packages /\ f \in todo[p]
               /\ \A g \in todo[p] : f <= g
               /\ \A j \in Packages : j # k => vendored'[j] = vendored[j]
               /\ vendored'[k] =
                    [g \in Files |->
                        CASE g \in Holds[Current(p)] \ (todo[p] \ {f}) ->
                                [of |-> digest[p], whole |-> TRUE]
                          [] OTHER -> None]
<1> DEFINE k == Destination(p)
           f == First(todo[p])
<1>1. pc[p] = "laywrite" /\ Laying(p) /\ left[p] # {} /\ todo[p] # {} /\ digest[p] \in Digests
  BY DEF LayWrites, VendorsOK, LaidOK, Typed, TypeOK, Placed, LayPcs
<1>2. k \in Packages /\ f \in todo[p] /\ f \in Files /\ \A g \in todo[p] : f <= g
  BY <1>1, CurrentIsCore, FirstFile DEF Destination, Packages, Typed
<1>3. vendored[k][f] = [of |-> digest[p], whole |-> FALSE]
  BY <1>1, <1>2 DEF Laying
<1>4. vendored[k][f] # None
  <2>1. [of |-> digest[p], whole |-> FALSE] \in [of : Digests, whole : BOOLEAN]
    BY <1>1
  <2>2. QED
    BY <1>3, <2>1, NoneAssumption
<1>5. vendored' = [vendored EXCEPT ![k][f] = [of |-> digest[p], whole |-> TRUE]]
  BY <1>3, <1>4 DEF LayWrites
<1>6. /\ \A j \in Packages : j # k => vendored'[j] = vendored[j]
      /\ vendored'[k] = [vendored[k] EXCEPT ![f] = [of |-> digest[p], whole |-> TRUE]]
  BY <1>2, <1>5 DEF Typed, TypeOK
<1>7. f \in Holds[Current(p)] /\ todo[p] \subseteq Holds[Current(p)]
  BY <1>1, <1>2 DEF Laying
<1>8. vendored'[k] =
        [g \in Files |->
            CASE g \in Holds[Current(p)] \ (todo[p] \ {f}) -> [of |-> digest[p], whole |-> TRUE]
              [] OTHER -> None]
  BY <1>1, <1>2, <1>6, <1>7 DEF Laying
<1>9. QED
  BY <1>1, <1>2, <1>6, <1>8

LEMMA LayWritesVendored ==
    ASSUME Typed, VendorsOK, NEW p \in Procs, LayWrites(p)
    PROVE  VendorsOK'
<1>a. PICK k, f : k = Destination(p) /\ f = First(todo[p])
  OBVIOUS
<1> DEFINE laid == todo[p] = {f}
<1>1. /\ UNCHANGED <<lock, kind, met, got>> /\ pc[p] = "laywrite"
      /\ \A q \in Procs \ {p} : UNCHANGED <<pc[q], left[q], got[q]>>
      /\ todo'[p] = todo[p] \ {f}
      /\ left' = [left EXCEPT ![p] = IF laid THEN left[p] \ {Current(p)} ELSE left[p]]
      /\ digest'[p] = IF laid THEN None ELSE digest[p]
      /\ pc'[p] = CASE ~laid -> "layopen"
                    [] laid /\ left[p] # {Current(p)} -> "clear"
                    [] OTHER -> "vendored"
      /\ \A j \in Packages : j # k => vendored'[j] = vendored[j]
  BY <1>a DEF LayWrites, Goto, worldVars, histVars, Typed, TypeOK
<1>2. CASE ~laid
  <2>1. left' = left /\ pc'[p] = "layopen" /\ digest'[p] = digest[p]
    BY <1>1, <1>2 DEF Typed, TypeOK
  <2>2. ASSUME Alone(p) PROVE Laying(p)'
    <3>1. Current(p)' = Current(p) /\ Destination(p)' = k
      BY <1>a, <2>1 DEF Current, Destination
    <3>2. /\ Laying(p)
          /\ vendored'[k] =
                [g \in Files |->
                    CASE g \in Holds[Current(p)] \ (todo[p] \ {f}) ->
                            [of |-> digest[p], whole |-> TRUE]
                      [] OTHER -> None]
      BY <1>a, <2>2, WritesItsOwn
    <3>3. vendored'[k] =
            [g \in Files |->
                CASE g \in Holds[Current(p)] \ todo'[p] -> [of |-> digest'[p], whole |-> TRUE]
                  [] g \in todo'[p] /\ pc'[p] = "laywrite" /\ g = First(todo'[p]) ->
                        [of |-> digest'[p], whole |-> FALSE]
                  [] OTHER -> None]
      BY <1>1, <2>1, <3>2
    <3>4. QED
      BY <1>1, <2>1, <3>1, <3>2, <3>3 DEF Laying
  <2>3. QED
    BY <1>a, <1>1, <2>1, <2>2, AtDirectory DEF LayPcs
<1>3. CASE laid
  <2>a. PICK c, d : c = Current(p) /\ d = digest[p]
    OBVIOUS
  <2>1. /\ left'[p] = left[p] \ {c}
        /\ pc'[p] = IF left[p] # {c} THEN "clear" ELSE "vendored"
    BY <2>a, <1>1, <1>3 DEF Typed, TypeOK
  <2>2. /\ \A q \in Procs \ {p} : FetchedOK(q)' /\ LaidOK(q)'
        /\ Vendors' = Vendors /\ Alone(p)' = Alone(p)
    BY <1>1, <2>1, VendorStepOthers DEF VendorPcs
  <2>3. FetchedOK(p)'
    BY <1>1, <2>1 DEF VendorsOK, FetchedOK, VendorPcs
  <2>4. /\ c \in left[p] /\ c \in Cores /\ \A e \in left[p] : c <= e
        /\ d \in Digests /\ d[1] = c
    BY <2>a, <1>1, CurrentIsCore DEF Typed, TypeOK, Placed, LayPcs
  <2>5. ASSUME Alone(p) PROVE LaidOK(p)'
    <3>1. /\ Vendors = {p}
          /\ \A a \in Cores \ left[p] : \A e \in left[p] : a < e
          /\ \A j \in Packages : j # k => Laid(p, j)
      BY <1>a, <1>1, <2>5 DEF VendorsOK, LaidOK, AtCore, LayPcs
    <3>2. /\ d \in got[p] /\ k \in Packages
          /\ vendored'[k] =
                [g \in Files |->
                    CASE g \in Holds[c] \ (todo[p] \ {f}) -> [of |-> d, whole |-> TRUE]
                      [] OTHER -> None]
      <4>1. /\ Laying(p) /\ Destination(p) \in Packages
            /\ vendored'[Destination(p)] =
                [g \in Files |->
                    CASE g \in Holds[Current(p)] \ (todo[p] \ {First(todo[p])}) ->
                            [of |-> digest[p], whole |-> TRUE]
                      [] OTHER -> None]
        BY <2>5, WritesItsOwn
      <4>2. digest[p] \in got[p]
        BY <4>1 DEF Laying
      <4>3. QED
        BY <1>a, <2>a, <4>1, <4>2
    <3>3. vendored'[k] = LaidFrom(d)
      BY <1>3, <2>4, <3>2 DEF LaidFrom
    <3>4. Cores \ left'[p] = (Cores \ left[p]) \cup {c}
      BY <2>1, <2>4
    <3>5. Laid(p, k)'
      <4>1. c \in Done(p, k)'
        BY <1>a, <2>a, <2>4, <3>4 DEF Done, Destination
      <4>2. \A a \in Done(p, k)' : a <= c
        <5>1. \A a \in Cores \ left[p] : a < c
          BY <2>4, <3>1
        <5>2. QED
          BY <2>4, <3>4, <5>1, CoresAssumption DEF Done
      <4>3. d \in got'[p]
        BY <1>1, <3>2
      <4>4. QED
        BY <2>4, <3>3, <4>1, <4>2, <4>3 DEF Laid
    <3>6. ASSUME NEW j \in Packages, j # k PROVE Laid(p, j)'
      <4>1. Done(p, j)' = Done(p, j)
        BY <1>a, <2>a, <3>4, <3>6 DEF Done, Destination
      <4>2. vendored'[j] = vendored[j] /\ Laid(p, j)
        BY <1>1, <3>1, <3>6
      <4>3. QED
        BY <1>1, <4>1, <4>2 DEF Laid
    <3>7. \A a \in Cores \ left'[p] : \A e \in left'[p] : a < e
      <4>1. \A e \in left'[p] : c < e
        <5>1. \A e \in left'[p] : e # c /\ c <= e /\ e \in Nat /\ c \in Nat
          BY <2>1, <2>4, CoresAssumption DEF Typed, TypeOK
        <5>2. QED
          BY <5>1
      <4>2. QED
        BY <2>1, <3>1, <3>4, <4>1
    <3>8. left[p] = {c} => left'[p] = {}
      BY <2>1
    <3>9. \A j \in Packages : Laid(p, j)'
      BY <3>5, <3>6
    <3>10. /\ pc'[p] \in {"clear", "vendored"}
           /\ pc'[p] = "vendored" => left'[p] = {}
      BY <2>1, <3>8
    <3>11. Vendors' = {p}
      BY <2>2, <3>1
    <3>12. QED
      BY <3>7, <3>9, <3>10, <3>11 DEF LaidOK
  <2>6. LaidOK(p)'
    BY <2>2, <2>5 DEF LaidOK
  <2>7. QED
    BY <2>2, <2>3, <2>6 DEF VendorsOK
<1>4. QED
  BY <1>2, <1>3

LEMMA VendorsAlways == Spec => []VendorsOK
<1>1. Init => VendorsOK
  BY DEF Init, VendorsOK, FetchedOK, LaidOK, Alone, Vendors, VendorPcs
<1>2. Typed /\ VendorsOK /\ [Next]_vars => VendorsOK'
  BY VendorsRest, StartVendorStep, FetchVendored, ClearVendored, LayOpensVendored,
     LayWritesVendored DEF Next, VendorStep
<1>3. QED
  BY <1>1, <1>2, TypedAlways, PTL DEF Spec

\* A vendor that no other one overlapped leaves each package's directory with exactly
\* the files of the last of its versions, of the verified bytes, whatever runs before
\* it had left there.
THEOREM VendoredWhole == Spec => []VendoredIsLocked
<1>1. Typed /\ VendorsOK => VendoredIsLocked
  <2> SUFFICES ASSUME Typed, VendorsOK, NEW p \in Procs, pc[p] = "vendored", p \notin met,
                      NEW k \in Packages
               PROVE  LET c == LastCore({e \in Cores : Package[e] = k})
                      IN  \E d \in got[p] :
                            /\ d[1] = c
                            /\ lock[c] \in {NoSum, d}
                            /\ vendored[k] = [f \in Files |->
                                    IF f \in Holds[c] THEN [of |-> d, whole |-> TRUE] ELSE None]
    BY DEF VendoredIsLocked
  <2>1. Alone(p)
    BY DEF Alone, Vendors, Typed, Placed, VendorPcs
  <2>2. left[p] = {} /\ Laid(p, k)
    BY <2>1 DEF VendorsOK, LaidOK, AtCore, LayPcs
  <2>3. Done(p, k) = {e \in Cores : Package[e] = k} /\ Done(p, k) # {}
    BY <2>2 DEF Done, Packages
  <2>4. PICK d \in got[p] :
            /\ d[1] \in Done(p, k)
            /\ \A c \in Done(p, k) : c <= d[1]
            /\ vendored[k] = LaidFrom(d)
    BY <2>2, <2>3 DEF Laid
  <2>5. LastCore({e \in Cores : Package[e] = k}) = d[1]
    BY <2>3, <2>4, LastIs, CoresAssumption
  <2>6. lock[d[1]] \in {NoSum, d}
    <3>1. d[1] \in Cores /\ (lock[d[1]] = NoSum \/ lock[d[1]] \in got[p])
      BY <2>4 DEF VendorsOK, FetchedOK, VendorPcs, Done
    <3>2. lock[d[1]] # NoSum => lock[d[1]][1] = d[1]
      BY <3>1, LockedDigest DEF Typed
    <3>3. QED
      BY <3>1, <3>2 DEF VendorsOK, FetchedOK, VendorPcs
  <2>7. QED
    BY <2>4, <2>5, <2>6 DEF LaidFrom
<1>2. QED
  BY <1>1, TypedAlways, VendorsAlways, PTL

-----------------------------------------------------------------------------
(* Gen: finite sets.                                                       *)

LEMMA TwoOf ==
    ASSUME NEW S, IsFiniteSet(S), NEW i \in S, NEW j \in S, i # j
    PROVE  Cardinality(S) > 1
<1>1. IsFiniteSet({i}) /\ Cardinality({i}) = 1
  BY FS_Singleton
<1>2. IsFiniteSet({i} \cup {j}) /\ Cardinality({i} \cup {j}) = 2
  <2>1. PICK one : one = {i}
    OBVIOUS
  <2>2. /\ IsFiniteSet(one \cup {j})
        /\ Cardinality(one \cup {j}) = IF j \in one THEN Cardinality(one) ELSE Cardinality(one) + 1
    BY <1>1, <2>1, FS_AddElement
  <2>3. QED
    BY <1>1, <2>1, <2>2
<1>3. {i} \cup {j} \in SUBSET S
  OBVIOUS
<1>4. Cardinality({i} \cup {j}) <= Cardinality(S) /\ Cardinality(S) \in Nat
  BY <1>3, FS_Subset, FS_CardinalityType
<1>5. QED
  BY <1>2, <1>4

\* A map that takes two elements to one has fewer values than arguments.
LEMMA FewerValues ==
    ASSUME NEW f, IsFiniteSet(DOMAIN f),
           NEW i \in DOMAIN f, NEW j \in DOMAIN f, i # j, f[i] = f[j]
    PROVE  LET values == {f[x] : x \in DOMAIN f}
           IN  IsFiniteSet(values) /\ Cardinality(values) < Cardinality(DOMAIN f)
<1> DEFINE values == {f[x] : x \in DOMAIN f}
           T == DOMAIN f \ {j}
           g == [x \in T |-> f[x]]
<1>1. IsFiniteSet(T) /\ Cardinality(T) = Cardinality(DOMAIN f) - 1
  BY FS_RemoveElement
<1>2. g \in Surjection(T, values)
  <2>1. g \in [T -> values]
    OBVIOUS
  <2>2. \A y \in values : \E x \in T : g[x] = y
    OBVIOUS
  <2>3. QED
    BY <2>1, <2>2 DEF Surjection
<1>3. IsFiniteSet(values) /\ Cardinality(values) <= Cardinality(T)
  <2> HIDE DEF values, T, g
  <2> QED
    BY <1>1, <1>2, FS_Surjection
<1>4. Cardinality(DOMAIN f) \in Nat /\ Cardinality(values) \in Nat
  BY <1>3, FS_CardinalityType
<1>5. QED
  BY <1>1, <1>3, <1>4

LEMMA TwoIn ==
    ASSUME NEW S, IsFiniteSet(S), Cardinality(S) > 1
    PROVE  \E i, j \in S : i # j
<1>1. S # {}
  BY FS_EmptySet
<1>2. PICK i \in S : TRUE
  BY <1>1
<1>3. Cardinality(S \ {i}) = Cardinality(S) - 1 /\ IsFiniteSet(S \ {i}) /\ Cardinality(S) \in Nat
  BY FS_RemoveElement, FS_CardinalityType
<1>4. S \ {i} # {}
  BY <1>3, FS_EmptySet
<1>5. QED
  BY <1>4

\* A non-empty set of numbers has a least.
LEMMA LeastOf ==
    ASSUME NEW S \in SUBSET Nat, S # {}
    PROVE  \E m \in S : \A n \in S : m <= n
<1> DEFINE R == OpToRel(<, Nat)
<1>1. PICK m \in S : \A n \in S : ~(<<n, m>> \in R)
  <2> HIDE DEF R
  <2> QED
    BY NatLessThanWellFounded, WFMin DEF R
<1>2. \A n \in S : ~(n < m)
  BY <1>1 DEF OpToRel
<1>3. QED
  BY <1>2

\* A finite set of numbers has a greatest: one with the fewest above it.
LEMMA GreatestOf ==
    ASSUME NEW S \in SUBSET Nat, IsFiniteSet(S), S # {}
    PROVE  \E m \in S : \A n \in S : n <= m
<1> DEFINE above(v) == {w \in S : w > v}
           N == {Cardinality(above(v)) : v \in S}
<1>1. \A v \in S : IsFiniteSet(above(v)) /\ Cardinality(above(v)) \in Nat
  BY FS_Subset, FS_CardinalityType
<1>2. N \in SUBSET Nat /\ N # {}
  BY <1>1
<1>3. PICK m \in N : \A n \in N : m <= n
  <2> HIDE DEF N
  <2> QED
    BY <1>2, LeastOf
<1>4. PICK v \in S : m = Cardinality(above(v))
  BY <1>3
<1>5. ASSUME NEW w \in S, w > v PROVE FALSE
  <2>1. above(w) \in SUBSET (above(v) \ {w}) /\ w \in above(v)
    <3>1. \A u \in S : u > w => u > v /\ u # w
      BY <1>5
    <3>2. QED
      BY <1>5, <3>1
  <2>2. Cardinality(above(w)) \in N /\ Cardinality(above(w)) \in Nat /\ m \in Nat
    BY <1>1, <1>2
  <2> HIDE DEF N, above
  <2>3. IsFiniteSet(above(v) \ {w}) /\ Cardinality(above(v) \ {w}) = m - 1
    BY <1>1, <1>4, <2>1, FS_RemoveElement
  <2>4. Cardinality(above(w)) <= m - 1
    BY <2>1, <2>3, FS_Subset
  <2>5. QED
    BY <1>3, <2>2, <2>4
<1>6. QED
  BY <1>5

LEMMA FiniteValues ==
    ASSUME NEW f, IsFiniteSet(DOMAIN f)
    PROVE  IsFiniteSet({f[x] : x \in DOMAIN f})
<1> DEFINE S == DOMAIN f
           values == {f[x] : x \in S}
           g == [x \in S |-> f[x]]
<1>1. g \in Surjection(S, values)
  <2>1. g \in [S -> values] /\ \A y \in values : \E x \in S : g[x] = y
    OBVIOUS
  <2>2. QED
    BY <2>1 DEF Surjection
<1>2. IsFiniteSet(values)
  <2> HIDE DEF values, g, S
  <2> QED
    BY <1>1, FS_Surjection DEF S
<1>3. QED
  BY <1>2

-----------------------------------------------------------------------------
(* Edam: lists.                                                            *)

IsList(s) == s \in Seq(ToSet(s))

LEMMA ListIs ==
    ASSUME NEW s, IsList(s)
    PROVE  /\ Len(s) \in Nat /\ DOMAIN s = 1..Len(s)
           /\ ToSet(s) = {s[k] : k \in 1..Len(s)}
           /\ s = <<>> <=> Len(s) = 0
<1> DEFINE S == ToSet(s)
<1>1. s \in Seq(S)
  BY DEF IsList
<1>2. Len(s) \in Nat /\ DOMAIN s = 1..Len(s) /\ (s = <<>> <=> Len(s) = 0)
  <2> HIDE DEF S
  <2> QED
    BY <1>1
<1>3. QED
  BY <1>2 DEF ToSet

\* A sequence over any set is one over what is in it.
LEMMA ListOf ==
    ASSUME NEW S, NEW s \in Seq(S)
    PROVE  IsList(s) /\ ToSet(s) \subseteq S
<1>1. Len(s) \in Nat /\ DOMAIN s = 1..Len(s) /\ \A k \in 1..Len(s) : s[k] \in S
  OBVIOUS
<1>2. s \in Seq(Range(s))
  BY SeqOfRange
<1>3. Range(s) = ToSet(s)
  BY DEF ToSet, Range
<1>4. QED
  BY <1>1, <1>2, <1>3 DEF IsList, ToSet

LEMMA NothingListed == IsList(<<>>) /\ Len(<<>>) = 0 /\ ToSet(<<>>) = {}
<1>1. PICK s, S : s = <<>> /\ S = {}
  OBVIOUS
<1>2. s \in Seq(S) /\ Len(s) = 0
  BY <1>1
<1>3. IsList(s) /\ ToSet(s) \subseteq S
  BY <1>2, ListOf
<1>4. QED
  BY <1>1, <1>2, <1>3

LEMMA OneListed == \A x : IsList(<<x>>) /\ Len(<<x>>) = 1 /\ <<x>>[1] = x
<1> SUFFICES ASSUME NEW x PROVE IsList(<<x>>) /\ Len(<<x>>) = 1 /\ <<x>>[1] = x
  OBVIOUS
<1>1. <<x>> \in Seq({x}) /\ Len(<<x>>) = 1 /\ <<x>>[1] = x
  OBVIOUS
<1>2. QED
  BY <1>1, ListOf

LEMMA AppendList ==
    ASSUME NEW s, IsList(s), NEW x
    PROVE  /\ IsList(Append(s, x)) /\ Len(Append(s, x)) = Len(s) + 1
           /\ \A k \in 1..Len(s) : Append(s, x)[k] = s[k]
           /\ Append(s, x)[Len(s) + 1] = x
           /\ ToSet(Append(s, x)) = ToSet(s) \cup {x}
<1> DEFINE S == ToSet(s) \cup {x}
<1>1. s \in Seq(S)
  BY SeqMonotonic DEF IsList
<1>2. /\ Append(s, x) \in Seq(S) /\ Len(Append(s, x)) = Len(s) + 1
      /\ \A k \in 1..Len(s) : Append(s, x)[k] = s[k]
      /\ Append(s, x)[Len(s) + 1] = x
  <2>1. x \in S
    OBVIOUS
  <2> HIDE DEF S
  <2> QED
    BY <1>1, <2>1, AppendProperties
<1>3. IsList(Append(s, x))
  BY <1>2, ListOf
<1>4. Len(s) \in Nat /\ ToSet(s) = {s[k] : k \in 1..Len(s)}
  BY ListIs
<1>5. ToSet(Append(s, x)) = {Append(s, x)[k] : k \in 1..(Len(s) + 1)}
  BY <1>2, <1>3, ListIs
<1>6. ToSet(Append(s, x)) \subseteq S
  BY <1>2, ListOf
<1>7. S \subseteq ToSet(Append(s, x))
  <2>1. \A k \in 1..Len(s) : k \in 1..(Len(s) + 1)
    BY <1>4
  <2>2. Len(s) + 1 \in 1..(Len(s) + 1)
    BY <1>4
  <2>3. QED
    BY <1>2, <1>4, <1>5, <2>1, <2>2
<1>8. QED
  BY <1>2, <1>3, <1>6, <1>7

LEMMA FrontList ==
    ASSUME NEW s, IsList(s), s # <<>>
    PROVE  /\ IsList(Front(s)) /\ Len(Front(s)) = Len(s) - 1 /\ Len(s) \in Nat \ {0}
           /\ \A k \in 1..(Len(s) - 1) : Front(s)[k] = s[k]
           /\ ToSet(s) = ToSet(Front(s)) \cup {Last(s)}
<1> DEFINE S == ToSet(s)
           n == Len(s) - 1
<1>1. s \in Seq(S) /\ Len(s) \in Nat \ {0} /\ S = {s[k] : k \in 1..Len(s)}
  BY ListIs DEF IsList
<1>2. \A k \in 1..n : s[k] \in S
  BY <1>1
<1>3. /\ SubSeq(s, 1, n) \in Seq(S)
      /\ Len(SubSeq(s, 1, n)) = IF 1 <= n THEN n - 1 + 1 ELSE 0
      /\ \A k \in 1..(n - 1 + 1) : SubSeq(s, 1, n)[k] = s[1 + k - 1]
  <2>1. PICK o, m \in Int : o = 1 /\ m = n
    BY <1>1
  <2> HIDE DEF S, n
  <2>2. \A k \in o..m : s[k] \in S
    BY <1>2, <2>1
  <2>3. /\ SubSeq(s, o, m) \in Seq(S)
        /\ Len(SubSeq(s, o, m)) = IF o <= m THEN m - o + 1 ELSE 0
        /\ \A k \in 1..(m - o + 1) : SubSeq(s, o, m)[k] = s[o + k - 1]
    BY <2>2, SubSeqProperties
  <2>4. QED
    BY <2>1, <2>3
<1>4. /\ Front(s) \in Seq(S) /\ Len(Front(s)) = n
      /\ \A k \in 1..n : Front(s)[k] = s[k]
  <2>1. n \in Nat /\ \A k \in 1..n : k \in 1..(n - 1 + 1) /\ 1 + k - 1 = k
    BY <1>1
  <2>2. Front(s) = SubSeq(s, 1, n)
    BY DEF Front
  <2> HIDE DEF n, S
  <2>3. \A k \in 1..n : Front(s)[k] = s[k]
    BY <1>3, <2>1, <2>2
  <2>4. Len(Front(s)) = n
    BY <1>3, <2>1, <2>2
  <2>5. QED
    BY <1>3, <2>2, <2>3, <2>4
<1>5. IsList(Front(s)) /\ ToSet(Front(s)) \subseteq S
  BY <1>4, ListOf
<1>6. ToSet(Front(s)) = {Front(s)[k] : k \in 1..n}
  BY <1>4, <1>5, ListIs
<1>7. ToSet(s) \subseteq ToSet(Front(s)) \cup {Last(s)}
  <2>1. \A k \in 1..Len(s) : k \in 1..n \/ k = Len(s)
    BY <1>1
  <2>2. QED
    BY <1>1, <1>4, <1>6, <2>1 DEF Last
<1>8. Last(s) \in S
  BY <1>1 DEF Last
<1>9. QED
  BY <1>1, <1>4, <1>5, <1>7, <1>8

LEMMA TailList ==
    ASSUME NEW s, IsList(s), s # <<>>
    PROVE  IsList(Tail(s)) /\ ToSet(s) = {Head(s)} \cup ToSet(Tail(s))
<1> DEFINE S == ToSet(s)
<1>1. s \in Seq(S) /\ Len(s) \in Nat \ {0} /\ S = {s[k] : k \in 1..Len(s)}
  BY ListIs DEF IsList
<1>2. /\ Head(s) \in S /\ Tail(s) \in Seq(S) /\ Len(Tail(s)) = Len(s) - 1
      /\ \A k \in 1..Len(Tail(s)) : Tail(s)[k] = s[k + 1]
      /\ Head(s) = s[1]
  <2> HIDE DEF S
  <2> QED
    BY <1>1, HeadTailProperties
<1>3. IsList(Tail(s)) /\ ToSet(Tail(s)) \subseteq S
  BY <1>2, ListOf
<1>4. ToSet(Tail(s)) = {Tail(s)[k] : k \in 1..(Len(s) - 1)}
  BY <1>2, <1>3, ListIs
<1>5. ASSUME NEW k \in 1..Len(s) PROVE s[k] \in {Head(s)} \cup ToSet(Tail(s))
  <2>1. CASE k = 1
    BY <1>2, <2>1
  <2>2. CASE k # 1
    <3>1. k - 1 \in 1..(Len(s) - 1) /\ Tail(s)[k - 1] = s[k]
      BY <1>1, <1>2, <2>2
    <3>2. QED
      BY <1>4, <3>1
  <2>3. QED
    BY <2>1, <2>2
<1>6. QED
  BY <1>1, <1>2, <1>3, <1>5

\* The last of the lists loses its head.
LEMMA DroppedList ==
    ASSUME NEW s, IsList(s), s # <<>>
    PROVE  LET d == [s EXCEPT ![Len(s)] = Tail(@)]
           IN  /\ IsList(d) /\ Len(d) = Len(s) /\ d[Len(s)] = Tail(Last(s))
               /\ \A k \in 1..(Len(s) - 1) : d[k] = s[k]
<1> DEFINE d == [s EXCEPT ![Len(s)] = Tail(@)]
           S == ToSet(s) \cup {Tail(s[Len(s)])}
<1>1. Len(s) \in Nat \ {0} /\ DOMAIN s = 1..Len(s)
  BY ListIs
<1>2. s \in Seq(S)
  BY SeqMonotonic DEF IsList
<1>3. d \in Seq(S) /\ Len(d) = Len(s) /\ \A k \in 1..Len(s) : d[k] = IF k = Len(s) THEN Tail(s[Len(s)]) ELSE s[k]
  <2>1. PICK e : e = Tail(s[Len(s)])
    OBVIOUS
  <2>2. e \in S /\ Len(s) \in 1..Len(s) /\ d = [s EXCEPT ![Len(s)] = e]
    BY <1>1, <2>1
  <2> HIDE DEF d, S
  <2>3. QED
    BY <1>2, <2>1, <2>2, ExceptSeq
<1>4. IsList(d)
  <2> HIDE DEF d, S
  <2> QED
    BY <1>3, ListOf
<1>5. d[Len(s)] = Tail(Last(s)) /\ \A k \in 1..(Len(s) - 1) : d[k] = s[k]
  <2> HIDE DEF d, S
  <2>1. Len(s) \in 1..Len(s) /\ \A k \in 1..(Len(s) - 1) : k \in 1..Len(s) /\ k # Len(s)
    <3>1. PICK n \in Nat \ {0} : n = Len(s)
      BY <1>1
    <3>2. n \in 1..n /\ \A k \in 1..(n - 1) : k \in 1..n /\ k # n
      OBVIOUS
    <3>3. QED
      BY <3>1, <3>2
  <2>2. d[Len(s)] = Tail(s[Len(s)])
    BY <1>3, <2>1
  <2>3. \A k \in 1..(Len(s) - 1) : d[k] = s[k]
    BY <1>3, <2>1
  <2>4. QED
    BY <2>2, <2>3 DEF Last
<1>6. QED
  BY <1>3, <1>4, <1>5

-----------------------------------------------------------------------------
(* Edam: the visit.                                                        *)

\* What the nodes of the visit under way lead to, names of no node left out.
Arrows == [n \in DOMAIN kids |-> ToSet(kids[n]) \cap DOMAIN kids]

\* The loops are those of the roots and of the open nodes over their kids; a node is
\* open or placed once at most.
VisitShape ==
    /\ \A n \in DOMAIN kids : IsList(kids[n])
    /\ IsList(stack) /\ IsList(ordered) /\ IsList(rest)
    /\ Len(rest) = Len(stack) + 1
    /\ \A k \in 1..Len(rest) : IsList(rest[k])
    /\ \A k \in 1..Len(stack) : stack[k] \in DOMAIN kids
    /\ \A l \in 1..Len(ordered) : ordered[l] \in DOMAIN kids
    /\ \A k, m \in 1..Len(stack) : stack[k] = stack[m] => k = m
    /\ \A l, m \in 1..Len(ordered) : ordered[l] = ordered[m] => l = m
    /\ \A k \in 1..Len(stack), l \in 1..Len(ordered) : stack[k] # ordered[l]

\* An open node leads to those inside it; of its kids, those not left to call are placed,
\* or the next open node, or lead back to it.
OpenNodes ==
    /\ \A m, k \in 1..Len(stack) : m <= k => Leads(Arrows, stack[m], stack[k])
    /\ \A k \in 1..Len(stack) : ToSet(rest[k + 1]) \subseteq ToSet(kids[stack[k]])
    /\ \A k \in 1..Len(stack) : \A x \in Arrows[stack[k]] :
        \/ x \in ToSet(rest[k + 1])
        \/ x \in ToSet(ordered)
        \/ Leads(Arrows, x, stack[k])
        \/ k < Len(stack) /\ x = stack[k + 1]

\* In the list o, what a node points to comes before it or leads back to it.
Follows(to, o) ==
    \A l \in 1..Len(o) : \A x \in to[o[l]] :
        Leads(to, x, o[l]) \/ \E m \in 1..Len(o) : m < l /\ o[m] = x

VisitOK == VisitShape /\ OpenNodes /\ Follows(Arrows, ordered)

\* Every root that is a node is left to call, open or placed.
Covers(roots) ==
    \A x \in roots \cap DOMAIN kids :
        x \in ToSet(rest[1]) \/ x \in ToSet(stack) \/ x \in ToSet(ordered)

OrderOK ==
    /\ IsList(order) /\ ToSet(order) = Deps
    /\ \A l, m \in 1..Len(order) : order[l] = order[m] => l = m
    /\ Follows(Needs, order)

FilesetKids(i) == [n \in SetNames(i) |-> Sets(i)[Fileset(i, n)].depend]
Roots(i) == IF i = 1 THEN problem.target ELSE Exported(i)

\* The files of the design were listed in the order of the turns, and those of one turn
\* each after what it depends on; a turn of a core that exports something left a file.
Turns == {t \in 1..(Len(order) + 1) : t < turn}
DesignOK ==
    /\ IsList(design)
    /\ \A l, k \in 1..Len(design) : l <= k =>
        \E s, t \in Turns :
            /\ s <= t
            /\ design[l][1] = CoreAt(order, s)
            /\ design[k][1] = CoreAt(order, t)
            /\ s = t /\ l # k =>
                /\ design[l] # design[k]
                /\ ~Before(Depends(CoreAt(order, t)), design[k][2], design[l][2])
    /\ \A t \in Turns : t <= Len(order) /\ Exported(order[t]) # <<>> =>
        \E k \in 1..Len(design) : design[k][1] = order[t]

EdamInv ==
    /\ problem \in Problems
    /\ VisitOK
    /\ turn \in Nat
    /\ turn = 0 =>
        /\ kids = [i \in Deps |-> Kids(i)]
        /\ order = <<>> /\ design = <<>>
        /\ Covers(Deps)
    /\ turn > 0 =>
        /\ OrderOK
        /\ turn <= Len(order) + 1 =>
            /\ kids = FilesetKids(CoreAt(order, turn))
            /\ Covers(ToSet(Roots(CoreAt(order, turn))))
    /\ DesignOK

LEMMA LeadsToItself == \A to, n : Leads(to, n, n)
  BY DEF Leads

LEMMA LeadsOn ==
    ASSUME NEW to, NEW m, NEW n, Leads(to, m, n), NEW x \in to[n]
    PROVE  Leads(to, m, x)
  BY DEF Leads

\* What every step of a visit finds.
LEMMA VisitFacts ==
    ASSUME VisitShape
    PROVE  /\ Len(stack) \in Nat /\ Len(ordered) \in Nat
           /\ ToSet(stack) = {stack[k] : k \in 1..Len(stack)}
           /\ ToSet(ordered) = {ordered[l] : l \in 1..Len(ordered)}
           /\ rest # <<>> /\ Last(rest) = rest[Len(stack) + 1] /\ IsList(Last(rest))
<1>1. /\ Len(stack) \in Nat /\ Len(ordered) \in Nat /\ Len(rest) = Len(stack) + 1
      /\ ToSet(stack) = {stack[k] : k \in 1..Len(stack)}
      /\ ToSet(ordered) = {ordered[l] : l \in 1..Len(ordered)}
      /\ rest # <<>>
  BY ListIs DEF VisitShape
<1>2. Last(rest) = rest[Len(stack) + 1]
  BY <1>1 DEF Last
<1>3. Len(stack) + 1 \in 1..Len(rest)
  BY <1>1
<1>4. QED
  BY <1>1, <1>2, <1>3 DEF VisitShape

LEMMA EnterVisit ==
    ASSUME VisitOK, Enter, NEW R, Covers(R)
    PROVE  VisitOK' /\ Covers(R)'
<1> DEFINE n == Called
           h == Len(stack)
<1>s. VisitShape /\ OpenNodes /\ Follows(Arrows, ordered)
  BY DEF VisitOK
<1>0. /\ h \in Nat /\ Len(ordered) \in Nat /\ Len(rest) = h + 1
      /\ ToSet(stack) = {stack[k] : k \in 1..h}
      /\ ToSet(ordered) = {ordered[l] : l \in 1..Len(ordered)}
      /\ rest # <<>> /\ Last(rest) = rest[h + 1]
  BY <1>s, VisitFacts DEF VisitShape
<1>1. /\ n \in DOMAIN kids /\ n \notin ToSet(stack) /\ n \notin ToSet(ordered)
      /\ kids' = kids /\ ordered' = ordered
      /\ stack' = Append(stack, n) /\ rest' = Append(Dropped, kids[n])
      /\ rest[h + 1] # <<>>
  BY <1>0 DEF Enter, IsNew
<1>2. /\ IsList(stack') /\ Len(stack') = h + 1 /\ stack'[h + 1] = n
      /\ \A k \in 1..h : stack'[k] = stack[k]
      /\ ToSet(stack') = ToSet(stack) \cup {n}
  BY <1>s, <1>1, AppendList DEF VisitShape
<1>3. /\ IsList(Dropped) /\ Len(Dropped) = h + 1 /\ Dropped[h + 1] = Tail(rest[h + 1])
      /\ \A k \in 1..h : Dropped[k] = rest[k]
  <2>1. LET d == [rest EXCEPT ![Len(rest)] = Tail(@)]
        IN  /\ IsList(d) /\ Len(d) = Len(rest) /\ d[Len(rest)] = Tail(Last(rest))
            /\ \A k \in 1..(Len(rest) - 1) : d[k] = rest[k]
    BY <1>s, <1>0, DroppedList DEF VisitShape
  <2>2. Len(rest) - 1 = h
    BY <1>0
  <2>3. QED
    BY <1>0, <2>1, <2>2 DEF Dropped
<1>4. /\ IsList(rest') /\ Len(rest') = h + 2 /\ rest'[h + 2] = kids[n]
      /\ rest'[h + 1] = Tail(rest[h + 1])
      /\ \A k \in 1..h : rest'[k] = rest[k]
  <2>1. /\ IsList(rest') /\ Len(rest') = h + 1 + 1 /\ rest'[h + 1 + 1] = kids[n]
        /\ \A k \in 1..(h + 1) : rest'[k] = Dropped[k]
    BY <1>1, <1>3, AppendList
  <2>2. h + 1 + 1 = h + 2 /\ h + 1 \in 1..(h + 1) /\ \A k \in 1..h : k \in 1..(h + 1)
    BY <1>0
  <2>3. QED
    BY <1>3, <2>1, <2>2
<1>5. IsList(Tail(rest[h + 1])) /\ ToSet(rest[h + 1]) = {n} \cup ToSet(Tail(rest[h + 1]))
  <2>1. IsList(rest[h + 1])
    BY <1>s, <1>0 DEF VisitShape
  <2>2. QED
    BY <1>0, <1>1, <2>1, TailList DEF Called
<1>6. Arrows' = Arrows /\ \A x \in DOMAIN kids : Arrows[x] = ToSet(kids[x]) \cap DOMAIN kids
  BY <1>1 DEF Arrows
<1>7. VisitShape'
  <2>1. ASSUME NEW k \in 1..(h + 2) PROVE IsList(rest'[k])
    <3>1. k \in 1..h \/ k = h + 1 \/ k = h + 2
      BY <1>0
    <3>2. \A m \in 1..h : IsList(rest[m])
      BY <1>s, <1>0 DEF VisitShape
    <3>3. QED
      BY <1>s, <1>1, <1>4, <1>5, <3>1, <3>2 DEF VisitShape
  <2>2. \A k \in 1..(h + 1) : k \in 1..h \/ k = h + 1
    BY <1>0
  <2>3. \A k \in 1..h : stack[k] # n
    BY <1>0, <1>1
  <2>4. \A k \in 1..(h + 1) : stack'[k] \in DOMAIN kids
    BY <1>s, <1>1, <1>2, <2>2 DEF VisitShape
  <2>5. \A k, m \in 1..(h + 1) : stack'[k] = stack'[m] => k = m
    BY <1>s, <1>2, <2>2, <2>3 DEF VisitShape
  <2>6. \A k \in 1..(h + 1), l \in 1..Len(ordered) : stack'[k] # ordered[l]
    BY <1>s, <1>0, <1>1, <1>2, <2>2 DEF VisitShape
  <2>7. Len(rest') = Len(stack') + 1
    BY <1>0, <1>2, <1>4
  <2>8. QED
    BY <1>s, <1>1, <1>2, <1>4, <2>1, <2>4, <2>5, <2>6, <2>7 DEF VisitShape
<1>8. OpenNodes'
  <2>1. \A k \in 1..(h + 1) : k \in 1..h \/ k = h + 1
    BY <1>0
  <2>2. h = 0 \/ (h \in 1..h /\ n \in Arrows[stack[h]])
    <3>1. CASE h # 0
      <4>1. h \in 1..h /\ stack[h] \in DOMAIN kids
        BY <1>s, <1>0, <3>1 DEF VisitShape
      <4>2. ToSet(rest[h + 1]) \subseteq ToSet(kids[stack[h]])
        BY <1>s, <4>1 DEF OpenNodes
      <4>3. QED
        BY <1>1, <1>5, <1>6, <4>1, <4>2
    <3>2. QED
      BY <3>1
  <2>3. \A m \in 1..h : Leads(Arrows, stack[m], n)
    <3> SUFFICES ASSUME NEW m \in 1..h PROVE Leads(Arrows, stack[m], n)
      OBVIOUS
    <3>1. h # 0 /\ m <= h
      BY <1>0
    <3>2. Leads(Arrows, stack[m], stack[h])
      BY <1>s, <2>2, <3>1 DEF OpenNodes
    <3>3. QED
      BY <2>2, <3>1, <3>2, LeadsOn
  <2>4. \A m, k \in 1..(h + 1) : m <= k => Leads(Arrows, stack'[m], stack'[k])
    <3> SUFFICES ASSUME NEW m \in 1..(h + 1), NEW k \in 1..(h + 1), m <= k
                 PROVE  Leads(Arrows, stack'[m], stack'[k])
      OBVIOUS
    <3>1. CASE k \in 1..h
      <4>1. m \in 1..h
        BY <1>0, <3>1
      <4>2. QED
        BY <1>s, <1>2, <3>1, <4>1 DEF OpenNodes
    <3>2. CASE k = h + 1
      BY <1>2, <2>1, <2>3, <3>2, LeadsToItself
    <3>3. QED
      BY <2>1, <3>1, <3>2
  <2>5. \A k \in 1..(h + 1) : ToSet(rest'[k + 1]) \subseteq ToSet(kids[stack'[k]])
    <3> SUFFICES ASSUME NEW k \in 1..(h + 1)
                 PROVE  ToSet(rest'[k + 1]) \subseteq ToSet(kids[stack'[k]])
      OBVIOUS
    <3>1. CASE k = h + 1
      <4>1. k + 1 = h + 2
        BY <1>0, <3>1
      <4>2. QED
        BY <1>2, <1>4, <3>1, <4>1
    <3>2. CASE k \in 1..h
      <4>1. ToSet(rest[k + 1]) \subseteq ToSet(kids[stack[k]]) /\ stack'[k] = stack[k]
        BY <1>s, <1>2, <3>2 DEF OpenNodes
      <4>2. (k + 1 \in 1..h /\ rest'[k + 1] = rest[k + 1])
            \/ (k = h /\ rest'[k + 1] = Tail(rest[k + 1]))
        BY <1>0, <1>4, <3>2
      <4>3. QED
        BY <1>5, <4>1, <4>2
    <3>3. QED
      BY <2>1, <3>1, <3>2
  <2>6. ASSUME NEW k \in 1..(h + 1), NEW x \in Arrows[stack'[k]]
        PROVE  \/ x \in ToSet(rest'[k + 1])
               \/ x \in ToSet(ordered)
               \/ Leads(Arrows, x, stack'[k])
               \/ k < h + 1 /\ x = stack'[k + 1]
    <3>1. CASE k = h + 1
      <4>1. k + 1 = h + 2 /\ stack'[k] = n
        BY <1>0, <1>2, <3>1
      <4>2. QED
        BY <1>1, <1>4, <1>6, <2>6, <4>1
    <3>2. CASE k \in 1..h
      <4>1. /\ stack'[k] = stack[k] /\ k < h + 1
            /\ \/ x \in ToSet(rest[k + 1])
               \/ x \in ToSet(ordered)
               \/ Leads(Arrows, x, stack[k])
               \/ k < h /\ x = stack[k + 1]
        BY <1>s, <1>0, <1>2, <2>6, <3>2 DEF OpenNodes
      <4>2. CASE k < h
        <5>1. k + 1 \in 1..h
          BY <1>0, <3>2, <4>2
        <5>2. QED
          BY <1>2, <1>4, <4>1, <5>1
      <4>3. CASE k = h
        <5>1. rest'[k + 1] = Tail(rest[k + 1]) /\ stack'[k + 1] = n /\ ~(k < h)
          BY <1>0, <1>2, <1>4, <4>3
        <5>2. x \in ToSet(rest[k + 1]) => x = n \/ x \in ToSet(rest'[k + 1])
          BY <1>5, <4>3, <5>1
        <5>3. QED
          BY <4>1, <5>1, <5>2
      <4>4. QED
        BY <1>0, <3>2, <4>2, <4>3
    <3>3. QED
      BY <2>1, <3>1, <3>2
  <2>7. QED
    BY <1>1, <1>2, <1>6, <2>4, <2>5, <2>6 DEF OpenNodes
<1>9. Follows(Arrows, ordered)'
  BY <1>s, <1>1, <1>6
<1>10. Covers(R)'
  <2>1. ToSet(rest[1]) \subseteq ToSet(rest'[1]) \cup {n}
    <3>1. CASE h = 0
      <4>1. h + 1 = 1
        BY <3>1
      <4>2. QED
        BY <1>4, <1>5, <4>1
    <3>2. CASE h # 0
      <4>1. 1 \in 1..h
        BY <1>0, <3>2
      <4>2. QED
        BY <1>4, <4>1
    <3>3. QED
      BY <3>1, <3>2
  <2>2. QED
    BY <1>1, <1>2, <2>1 DEF Covers
<1>11. QED
  BY <1>7, <1>8, <1>9, <1>10 DEF VisitOK

LEMMA PassOverVisit ==
    ASSUME VisitOK, PassOver, NEW R, Covers(R)
    PROVE  VisitOK' /\ Covers(R)'
<1> DEFINE n == Called
           h == Len(stack)
<1>s. VisitShape /\ OpenNodes /\ Follows(Arrows, ordered)
  BY DEF VisitOK
<1>0. /\ h \in Nat /\ Len(ordered) \in Nat /\ Len(rest) = h + 1
      /\ ToSet(stack) = {stack[k] : k \in 1..h}
      /\ rest # <<>> /\ Last(rest) = rest[h + 1]
  BY <1>s, VisitFacts DEF VisitShape
<1>1. /\ n \in DOMAIN kids => n \in ToSet(stack) \/ n \in ToSet(ordered)
      /\ kids' = kids /\ ordered' = ordered /\ stack' = stack /\ rest' = Dropped
      /\ rest[h + 1] # <<>>
  BY <1>0 DEF PassOver, IsNew
<1>3. /\ IsList(rest') /\ Len(rest') = h + 1 /\ rest'[h + 1] = Tail(rest[h + 1])
      /\ \A k \in 1..h : rest'[k] = rest[k]
  <2>1. LET d == [rest EXCEPT ![Len(rest)] = Tail(@)]
        IN  /\ IsList(d) /\ Len(d) = Len(rest) /\ d[Len(rest)] = Tail(Last(rest))
            /\ \A k \in 1..(Len(rest) - 1) : d[k] = rest[k]
    BY <1>s, <1>0, DroppedList DEF VisitShape
  <2>2. Len(rest) - 1 = h
    BY <1>0
  <2>3. QED
    BY <1>0, <1>1, <2>1, <2>2 DEF Dropped
<1>4. \A k \in 1..(h + 1) : k \in 1..h \/ k = h + 1
  BY <1>0
<1>5. IsList(Tail(rest[h + 1])) /\ ToSet(rest[h + 1]) = {n} \cup ToSet(Tail(rest[h + 1]))
  <2>1. IsList(rest[h + 1])
    BY <1>s, <1>0 DEF VisitShape
  <2>2. QED
    BY <1>0, <1>1, <2>1, TailList DEF Called
<1>6. Arrows' = Arrows /\ \A x \in DOMAIN kids : Arrows[x] = ToSet(kids[x]) \cap DOMAIN kids
  BY <1>1 DEF Arrows
<1>7. VisitShape'
  <2>1. \A k \in 1..h : IsList(rest[k])
    BY <1>s, <1>0 DEF VisitShape
  <2>2. \A k \in 1..(h + 1) : IsList(rest'[k])
    BY <1>3, <1>4, <1>5, <2>1
  <2>3. QED
    BY <1>s, <1>1, <1>3, <2>2 DEF VisitShape
<1>8. OpenNodes'
  <2> SUFFICES ASSUME NEW k \in 1..h
               PROVE  /\ ToSet(rest'[k + 1]) \subseteq ToSet(kids[stack[k]])
                      /\ \A x \in Arrows[stack[k]] :
                            \/ x \in ToSet(rest'[k + 1])
                            \/ x \in ToSet(ordered)
                            \/ Leads(Arrows, x, stack[k])
                            \/ k < h /\ x = stack[k + 1]
    BY <1>s, <1>1, <1>6 DEF OpenNodes
  <2>1. /\ stack[k] \in DOMAIN kids
        /\ ToSet(rest[k + 1]) \subseteq ToSet(kids[stack[k]])
        /\ \A x \in Arrows[stack[k]] :
                            \/ x \in ToSet(rest[k + 1])
                            \/ x \in ToSet(ordered)
                            \/ Leads(Arrows, x, stack[k])
                            \/ k < h /\ x = stack[k + 1]
    BY <1>s DEF OpenNodes, VisitShape
  <2>2. CASE k < h
    <3>1. k + 1 \in 1..h
      BY <1>0, <2>2
    <3>2. QED
      BY <1>3, <2>1, <3>1
  <2>3. CASE k = h
    <3>1. /\ ToSet(rest'[k + 1]) \subseteq ToSet(rest[k + 1])
          /\ \A x \in ToSet(rest[k + 1]) : x = n \/ x \in ToSet(rest'[k + 1])
      BY <1>3, <1>5, <2>3
    <3>2. n \in Arrows[stack[k]] => n \in ToSet(ordered) \/ Leads(Arrows, n, stack[k])
      <4> SUFFICES ASSUME n \in Arrows[stack[k]], n \in ToSet(stack)
                   PROVE  Leads(Arrows, n, stack[k])
        BY <1>1, <1>6, <2>1
      <4>1. PICK m \in 1..h : n = stack[m]
        BY <1>0
      <4>2. m <= k
        BY <1>0, <2>3
      <4>3. QED
        BY <1>s, <4>1, <4>2 DEF OpenNodes
    <3>3. QED
      BY <2>1, <3>1, <3>2
  <2>4. QED
    BY <1>0, <2>2, <2>3
<1>9. Follows(Arrows, ordered)'
  BY <1>s, <1>1, <1>6
<1>10. Covers(R)'
  <2>1. ToSet(rest[1]) \subseteq ToSet(rest'[1]) \cup {n}
    <3>1. CASE h = 0
      <4>1. h + 1 = 1
        BY <3>1
      <4>2. QED
        BY <1>3, <1>5, <4>1
    <3>2. CASE h # 0
      <4>1. 1 \in 1..h
        BY <1>0, <3>2
      <4>2. QED
        BY <1>3, <4>1
    <3>3. QED
      BY <3>1, <3>2
  <2>2. QED
    BY <1>1, <2>1 DEF Covers
<1>11. QED
  BY <1>7, <1>8, <1>9, <1>10 DEF VisitOK

LEMMA LeaveVisit ==
    ASSUME VisitOK, Leave, NEW R, Covers(R)
    PROVE  VisitOK' /\ Covers(R)'
<1> DEFINE n == Last(stack)
           h == Len(stack)
           o == Len(ordered)
<1>s. VisitShape /\ OpenNodes /\ Follows(Arrows, ordered)
  BY DEF VisitOK
<1>0. /\ h \in Nat /\ o \in Nat /\ Len(rest) = h + 1
      /\ ToSet(stack) = {stack[k] : k \in 1..h}
      /\ ToSet(ordered) = {ordered[l] : l \in 1..o}
      /\ rest # <<>> /\ Last(rest) = rest[h + 1]
  BY <1>s, VisitFacts DEF VisitShape
<1>1. /\ kids' = kids /\ stack # <<>> /\ rest[h + 1] = <<>>
      /\ ordered' = Append(ordered, n) /\ stack' = Front(stack) /\ rest' = Front(rest)
  BY <1>0 DEF Leave
<1>2. /\ IsList(stack') /\ Len(stack') = h - 1 /\ h \in Nat \ {0}
      /\ \A k \in 1..(h - 1) : stack'[k] = stack[k]
      /\ ToSet(stack) = ToSet(stack') \cup {n}
  BY <1>s, <1>1, FrontList DEF VisitShape
<1>3. /\ IsList(rest') /\ Len(rest') = h
      /\ \A k \in 1..h : rest'[k] = rest[k]
  <2>1. /\ IsList(rest') /\ Len(rest') = Len(rest) - 1
        /\ \A k \in 1..(Len(rest) - 1) : rest'[k] = rest[k]
    BY <1>s, <1>0, <1>1, FrontList DEF VisitShape
  <2>2. Len(rest) - 1 = h
    BY <1>0
  <2>3. QED
    BY <2>1, <2>2
<1>4. /\ IsList(ordered') /\ Len(ordered') = o + 1 /\ ordered'[o + 1] = n
      /\ \A k \in 1..o : ordered'[k] = ordered[k]
      /\ ToSet(ordered') = ToSet(ordered) \cup {n}
  BY <1>s, <1>1, AppendList DEF VisitShape
<1>5. n = stack[h] /\ h \in 1..h /\ n \in DOMAIN kids
  BY <1>s, <1>2 DEF VisitShape, Last
<1>6. Arrows' = Arrows /\ \A x \in DOMAIN kids : Arrows[x] = ToSet(kids[x]) \cap DOMAIN kids
  BY <1>1 DEF Arrows
<1>a. \A k \in 1..(h - 1) : k \in 1..h /\ k # h
  BY <1>2
<1>b. \A l \in 1..(o + 1) : l \in 1..o \/ l = o + 1
  BY <1>0
<1>7. VisitShape'
  <2>1. \A k \in 1..(h - 1) : stack'[k] \in DOMAIN kids /\ stack'[k] # n
    BY <1>s, <1>2, <1>5, <1>a DEF VisitShape
  <2>2. \A k, m \in 1..(h - 1) : stack'[k] = stack'[m] => k = m
    BY <1>s, <1>2, <1>a DEF VisitShape
  <2>3. \A l \in 1..(o + 1) : ordered'[l] \in DOMAIN kids
    BY <1>s, <1>4, <1>5, <1>b DEF VisitShape
  <2>4. \A l \in 1..o : ordered[l] # n
    BY <1>s, <1>5 DEF VisitShape
  <2>5. \A l, m \in 1..(o + 1) : ordered'[l] = ordered'[m] => l = m
    BY <1>s, <1>4, <1>b, <2>4 DEF VisitShape
  <2>6. \A k \in 1..(h - 1), l \in 1..(o + 1) : stack'[k] # ordered'[l]
    BY <1>s, <1>2, <1>4, <1>a, <1>b, <2>1 DEF VisitShape
  <2>7. \A k \in 1..h : IsList(rest'[k])
    BY <1>s, <1>0, <1>3 DEF VisitShape
  <2>8. Len(rest') = Len(stack') + 1
    BY <1>2, <1>3
  <2>9. QED
    BY <1>s, <1>1, <1>2, <1>3, <1>4, <2>1, <2>2, <2>3, <2>5, <2>6, <2>7, <2>8 DEF VisitShape
<1>8. OpenNodes'
  <2>1. \A m, k \in 1..(h - 1) : m <= k => Leads(Arrows, stack'[m], stack'[k])
    BY <1>s, <1>2, <1>a DEF OpenNodes
  <2>2. \A k \in 1..(h - 1) : k + 1 \in 1..h /\ (k + 1 \in 1..(h - 1) \/ k + 1 = h)
    BY <1>2
  <2>3. ASSUME NEW k \in 1..(h - 1)
        PROVE  /\ ToSet(rest'[k + 1]) \subseteq ToSet(kids[stack'[k]])
               /\ \A x \in Arrows[stack'[k]] :
                    \/ x \in ToSet(rest'[k + 1])
                    \/ x \in ToSet(ordered')
                    \/ Leads(Arrows, x, stack'[k])
                    \/ k < h - 1 /\ x = stack'[k + 1]
    <3>1. /\ ToSet(rest[k + 1]) \subseteq ToSet(kids[stack[k]])
          /\ \A x \in Arrows[stack[k]] :
                    \/ x \in ToSet(rest[k + 1])
                    \/ x \in ToSet(ordered)
                    \/ Leads(Arrows, x, stack[k])
                    \/ k < h /\ x = stack[k + 1]
      BY <1>s, <1>a DEF OpenNodes
    <3>2. rest'[k + 1] = rest[k + 1] /\ stack'[k] = stack[k]
      BY <1>2, <1>3, <2>2
    <3>3. stack[k + 1] = n \/ (k < h - 1 /\ stack[k + 1] = stack'[k + 1])
      BY <1>2, <1>5, <2>2
    <3>4. QED
      BY <1>4, <3>1, <3>2, <3>3
  <2>4. QED
    BY <1>1, <1>2, <1>6, <2>1, <2>3 DEF OpenNodes
<1>9. Follows(Arrows, ordered)'
  <2> SUFFICES ASSUME NEW l \in 1..(o + 1), NEW x \in Arrows[ordered'[l]]
               PROVE  \/ Leads(Arrows, x, ordered'[l])
                      \/ \E m \in 1..(o + 1) : m < l /\ ordered'[m] = x
    BY <1>4, <1>6 DEF Follows
  <2>1. \A m \in 1..o : m \in 1..(o + 1) /\ m < o + 1
    BY <1>0
  <2>2. CASE l \in 1..o
    BY <1>s, <1>4, <2>1, <2>2 DEF Follows
  <2>3. CASE l = o + 1
    <3>1. ordered'[l] = n /\ x \in Arrows[n]
      BY <1>4, <2>3
    <3>2. \/ x \in ToSet(rest[h + 1])
          \/ x \in ToSet(ordered)
          \/ Leads(Arrows, x, n)
          \/ h < h /\ x = stack[h + 1]
      BY <1>s, <1>5, <3>1 DEF OpenNodes
    <3>3. x \notin ToSet(rest[h + 1]) /\ ~(h < h)
      BY <1>1, <1>2, NothingListed
    <3>4. x \in ToSet(ordered) => \E m \in 1..(o + 1) : m < l /\ ordered'[m] = x
      BY <1>0, <1>4, <2>1, <2>3
    <3>5. QED
      BY <3>1, <3>2, <3>3, <3>4
  <2>4. QED
    BY <1>b, <2>2, <2>3
<1>10. Covers(R)'
  <2>1. 1 \in 1..h
    BY <1>2
  <2>2. rest'[1] = rest[1]
    BY <1>3, <2>1
  <2>3. QED
    BY <1>1, <1>2, <1>4, <2>2 DEF Covers
<1>11. QED
  BY <1>7, <1>8, <1>9, <1>10 DEF VisitOK

LEMMA VisitStarts ==
    ASSUME NEW graph, NEW roots, Visiting(graph, roots), IsList(roots),
           \A n \in DOMAIN graph : IsList(graph[n])
    PROVE  VisitOK' /\ Covers(ToSet(roots))'
<1>1. kids' = graph /\ rest' = <<roots>> /\ stack' = <<>> /\ ordered' = <<>>
  BY DEF Visiting
<1>2. /\ IsList(rest') /\ Len(rest') = 1 /\ rest'[1] = roots
      /\ IsList(stack') /\ Len(stack') = 0 /\ IsList(ordered') /\ Len(ordered') = 0
  BY <1>1, OneListed, NothingListed
<1>3. VisitShape'
  <2>1. \A k \in 1..1 : IsList(rest'[k])
    BY <1>2
  <2>2. QED
    BY <1>1, <1>2, <2>1 DEF VisitShape
<1>4. OpenNodes'
  BY <1>2 DEF OpenNodes
<1>5. Follows(Arrows, ordered)'
  BY <1>2 DEF Follows
<1>6. Covers(ToSet(roots))'
  BY <1>2 DEF Covers
<1>7. QED
  BY <1>3, <1>4, <1>5, <1>6 DEF VisitOK

LEMMA VisitEnds ==
    ASSUME VisitOK, Visited, NEW R, Covers(R)
    PROVE  /\ R \cap DOMAIN kids \subseteq ToSet(ordered)
           /\ IsList(ordered) /\ ToSet(ordered) \subseteq DOMAIN kids
           /\ \A l, m \in 1..Len(ordered) : ordered[l] = ordered[m] => l = m
           /\ Follows(Arrows, ordered)
<1>1. VisitShape /\ Follows(Arrows, ordered)
  BY DEF VisitOK
<1>2. Len(rest) = 1 /\ rest[1] = <<>>
  BY OneListed DEF Visited
<1>3. Len(stack) \in Nat /\ Len(rest) = Len(stack) + 1
  BY <1>1, VisitFacts DEF VisitShape
<1>4. Len(stack) = 0
  BY <1>2, <1>3
<1>5. ToSet(stack) = {} /\ ToSet(rest[1]) = {}
  BY <1>1, <1>2, <1>4, VisitFacts, NothingListed
<1>6. ToSet(ordered) \subseteq DOMAIN kids
  BY <1>1, VisitFacts DEF VisitShape
<1>7. QED
  BY <1>1, <1>5, <1>6 DEF Covers, VisitShape

\* Of finitely many things in a total order, each comes in the list once; the place of
\* a thing is the number of those before it.
LEMMA SortedLists ==
    ASSUME NEW S, IsFiniteSet(S), NEW less,
           \A x, y \in S : x # y => <<x, y>> \in less \/ <<y, x>> \in less,
           \A x \in S : <<x, x>> \notin less,
           \A x, y, z \in S : <<x, y>> \in less /\ <<y, z>> \in less => <<x, z>> \in less
    PROVE  /\ IsList(Sorted(S, less)) /\ Len(Sorted(S, less)) = Cardinality(S)
           /\ ToSet(Sorted(S, less)) = S
<1> DEFINE n == Cardinality(S)
           under(x) == {y \in S : <<y, x>> \in less}
           rank(x) == Cardinality(under(x))
           f == [x \in S |-> rank(x) + 1]
           s == Sorted(S, less)
<1>1. n \in Nat
  BY FS_CardinalityType
<1>2. \A x \in S : IsFiniteSet(under(x)) /\ rank(x) \in Nat /\ rank(x) < n
  <2> SUFFICES ASSUME NEW x \in S
               PROVE  IsFiniteSet(under(x)) /\ rank(x) \in Nat /\ rank(x) < n
    OBVIOUS
  <2>1. under(x) \in SUBSET S /\ under(x) # S
    OBVIOUS
  <2>2. PICK U : U = under(x)
    OBVIOUS
  <2>3. IsFiniteSet(U) /\ Cardinality(U) <= n /\ (n = Cardinality(U) => S = U)
    BY <2>1, <2>2, FS_Subset
  <2>4. Cardinality(U) \in Nat
    BY <2>3, FS_CardinalityType
  <2>5. QED
    BY <1>1, <2>1, <2>2, <2>3, <2>4
<1>3. \A x, y \in S : <<x, y>> \in less => rank(x) < rank(y)
  <2> SUFFICES ASSUME NEW x \in S, NEW y \in S, <<x, y>> \in less PROVE rank(x) < rank(y)
    OBVIOUS
  <2>1. under(x) \in SUBSET (under(y) \ {x}) /\ x \in under(y)
    OBVIOUS
  <2>2. PICK U, V : U = under(x) /\ V = under(y)
    OBVIOUS
  <2>3. /\ IsFiniteSet(V) /\ Cardinality(V) \in Nat /\ Cardinality(U) \in Nat
        /\ U \in SUBSET (V \ {x}) /\ x \in V
    BY <1>2, <2>1, <2>2
  <2>4. IsFiniteSet(V \ {x}) /\ Cardinality(V \ {x}) = Cardinality(V) - 1
    BY <2>3, FS_RemoveElement
  <2>5. Cardinality(U) <= Cardinality(V \ {x})
    BY <2>3, <2>4, FS_Subset
  <2>6. QED
    BY <2>2, <2>3, <2>4, <2>5
<1>4. f \in Injection(S, 1..n)
  <2>1. f \in [S -> 1..n]
    <3>1. \A x \in S : rank(x) + 1 \in 1..n
      <4> SUFFICES ASSUME NEW x \in S PROVE rank(x) + 1 \in 1..n
        OBVIOUS
      <4>1. PICK a, b : a = rank(x) /\ b = n
        OBVIOUS
      <4>2. a \in Nat /\ b \in Nat /\ a < b
        BY <1>1, <1>2, <4>1
      <4>3. a + 1 \in 1..b
        BY <4>2
      <4>4. QED
        BY <4>1, <4>3
    <3> HIDE DEF rank, n
    <3>2. QED
      BY <3>1
  <2>2. \A x, y \in S : f[x] = f[y] => x = y
    <3> SUFFICES ASSUME NEW x \in S, NEW y \in S, x # y PROVE f[x] # f[y]
      OBVIOUS
    <3>1. rank(x) < rank(y) \/ rank(y) < rank(x)
      BY <1>3
    <3>2. f[x] = rank(x) + 1 /\ f[y] = rank(y) + 1 /\ rank(x) \in Nat /\ rank(y) \in Nat
      BY <1>2
    <3> HIDE DEF f, rank
    <3>3. QED
      BY <3>1, <3>2
  <2> HIDE DEF f
  <2>3. QED
    BY <2>1, <2>2 DEF Injection, IsInjective
<1>5. f \in Surjection(S, 1..n)
  <2>1. IsFiniteSet(1..n) /\ Cardinality(1..n) = n
    <3>1. Cardinality(1..n) = IF 1 > n THEN 0 ELSE n - 1 + 1
      <4>1. PICK a, b \in Int : a = 1 /\ b = n
        BY <1>1
      <4>2. Cardinality(a..b) = IF a > b THEN 0 ELSE b - a + 1
        BY FS_Interval
      <4>3. QED
        BY <4>1, <4>2
    <3>2. IsFiniteSet(1..n)
      BY <1>1, FS_Interval
    <3>3. QED
      BY <1>1, <3>1, <3>2
  <2>2. PICK g, T : g = f /\ T = 1..n
    OBVIOUS
  <2>3. g \in Injection(S, T) /\ IsFiniteSet(T) /\ Cardinality(S) = Cardinality(T)
    BY <1>4, <2>1, <2>2
  <2>4. g \in Surjection(S, T)
    BY <2>3, FS_Injection
  <2>5. QED
    BY <2>2, <2>4
<1>6. \A k \in 1..n : \E x \in S : rank(x) = k - 1
  <2>1. \A k \in 1..n : \E x \in S : f[x] = k
    BY <1>5 DEF Surjection
  <2>2. \A x \in S : f[x] = rank(x) + 1 /\ rank(x) \in Nat
    BY <1>2
  <2> HIDE DEF f, rank
  <2>3. QED
    BY <1>1, <2>1, <2>2
<1>7. s = [k \in 1..n |-> CHOOSE x \in S : rank(x) = k - 1]
  BY DEF Sorted
<1>8. \A k \in 1..n : s[k] \in S /\ rank(s[k]) = k - 1
  <2> HIDE DEF s, rank
  <2> QED
    BY <1>6, <1>7
<1>9. s \in Seq(S) /\ Len(s) = n
  <2>1. s \in [1..n -> S]
    BY <1>7, <1>8
  <2>2. s \in Seq(S)
    <3> HIDE DEF s, n
    <3> QED
      BY <1>1, <2>1
  <2>3. DOMAIN s = 1..n /\ DOMAIN s = 1..Len(s) /\ Len(s) \in Nat
    <3>1. DOMAIN s = 1..n
      BY <1>7
    <3> HIDE DEF s, n
    <3> QED
      BY <2>2, <3>1
  <2>4. QED
    <3> HIDE DEF s, n
    <3> QED
      BY <1>1, <2>2, <2>3
<1>10. IsList(s) /\ ToSet(s) \subseteq S
  <2> HIDE DEF s
  <2> QED
    BY <1>9, ListOf
<1>11. \A x \in S : rank(x) + 1 \in 1..n /\ s[rank(x) + 1] = x
  <2> SUFFICES ASSUME NEW x \in S PROVE rank(x) + 1 \in 1..n /\ s[rank(x) + 1] = x
    OBVIOUS
  <2>1. PICK k : k = rank(x) + 1
    OBVIOUS
  <2>2. k \in 1..n /\ k - 1 = rank(x)
    <3>1. PICK a, b : a = rank(x) /\ b = n
      OBVIOUS
    <3>2. a \in Nat /\ b \in Nat /\ a < b /\ k = a + 1
      BY <1>1, <1>2, <2>1, <3>1
    <3>3. k \in 1..b /\ k - 1 = a
      BY <3>2
    <3>4. QED
      BY <3>1, <3>3
  <2>3. s[k] \in S /\ rank(s[k]) = rank(x)
    BY <1>8, <2>2
  <2>4. ~(rank(x) < rank(s[k])) /\ ~(rank(s[k]) < rank(x))
    <3>1. PICK a, b : a = rank(x) /\ b = rank(s[k])
      OBVIOUS
    <3>2. a \in Nat /\ a = b
      BY <1>2, <2>3, <3>1
    <3>3. ~(a < b) /\ ~(b < a)
      BY <3>2
    <3>4. QED
      BY <3>1, <3>3
  <2>5. s[k] = x
    <3> HIDE DEF s
    <3> QED
      BY <1>3, <2>3, <2>4
  <2>6. QED
    BY <2>1, <2>2, <2>5
<1>12. S \subseteq ToSet(s)
  <2>1. ToSet(s) = {s[k] : k \in 1..n}
    BY <1>9, <1>10, ListIs
  <2> HIDE DEF s, rank
  <2>2. QED
    BY <1>11, <2>1
<1>13. QED
  BY <1>9, <1>10, <1>12

-----------------------------------------------------------------------------
(* Edam: the problem.                                                      *)

LEMMA CoresAre ==
    ASSUME problem \in Problems
    PROVE  /\ Len(GenCores) = Len(problem.deps) + 1 /\ Len(problem.deps) \in Nat
           /\ DOMAIN GenCores = 1..Len(GenCores) /\ DOMAIN problem.deps = 1..Len(problem.deps)
           /\ IsFiniteSet(DOMAIN GenCores)
           /\ \A i \in DOMAIN GenCores : GenCores[i] \in {problem.root} \cup ToSet(problem.deps)
           /\ \A i \in Deps :
                i - 1 \in DOMAIN problem.deps /\ GenCores[i] = problem.deps[i - 1]
<1> DEFINE All == {problem.root} \cup ToSet(problem.deps)
<1>1. problem.deps \in Seq(All) /\ <<problem.root>> \in Seq(All)
  <2>1. PICK deps, S : deps = problem.deps /\ S = ToSet(problem.deps)
    OBVIOUS
  <2>2. deps \in Seq(S) /\ S \subseteq All /\ problem.root \in All
    BY <2>1, ProblemsAssumption
  <2>3. deps \in Seq(All) /\ <<problem.root>> \in Seq(All)
    <3> HIDE DEF All
    <3> QED
      BY <2>2
  <2>4. QED
    BY <2>1, <2>3
<1>2. /\ Len(GenCores) = Len(problem.deps) + 1 /\ Len(problem.deps) \in Nat
      /\ DOMAIN GenCores = 1..Len(GenCores) /\ DOMAIN problem.deps = 1..Len(problem.deps)
      /\ \A i \in DOMAIN GenCores : GenCores[i] \in All
  <2> HIDE DEF All
  <2> QED
    BY <1>1 DEF GenCores
<1>3. ASSUME NEW i \in Deps
      PROVE  i - 1 \in DOMAIN problem.deps /\ GenCores[i] = problem.deps[i - 1]
  <2>1. i \in 2..Len(GenCores) /\ i - 1 \in DOMAIN problem.deps
    BY <1>2 DEF Deps
  <2>2. GenCores[i] = problem.deps[i - 1]
    <3> HIDE DEF All
    <3> QED
      BY <1>1, <1>2, <2>1 DEF GenCores
  <2>3. QED
    BY <2>1, <2>2
<1>4. QED
  BY <1>2, <1>3, FS_Interval

LEMMA DepsAre ==
    ASSUME problem \in Problems
    PROVE  /\ IsFiniteSet(Deps) /\ Deps \subseteq DOMAIN GenCores /\ Deps \subseteq Nat
           /\ 1 \notin Deps /\ 1 \in DOMAIN GenCores
           /\ \A i \in Deps : GenCores[i].ref \in Nat /\ GenCores[i].ver \in Nat
           /\ \A i, j \in Deps :
                GenCores[i].ref = GenCores[j].ref /\ GenCores[i].ver = GenCores[j].ver => i = j
<1>1. /\ IsFiniteSet(Deps) /\ Deps \subseteq DOMAIN GenCores /\ Deps \subseteq Nat
      /\ 1 \notin Deps /\ 1 \in DOMAIN GenCores
  <2>1. PICK n \in Nat : n = Len(problem.deps)
    BY CoresAre
  <2>2. Deps = 2..(n + 1) /\ DOMAIN GenCores = 1..(n + 1) /\ IsFiniteSet(DOMAIN GenCores)
    BY <2>1, CoresAre DEF Deps
  <2>3. /\ 2..(n + 1) \in SUBSET (1..(n + 1)) /\ 2..(n + 1) \subseteq Nat
        /\ 1 \notin 2..(n + 1) /\ 1 \in 1..(n + 1)
    OBVIOUS
  <2>4. QED
    BY <2>2, <2>3, FS_Subset
<1>2. \A i \in Deps : GenCores[i].ref \in Nat /\ GenCores[i].ver \in Nat
  BY <1>1, CoresAre, ProblemsAssumption
<1>3. ASSUME NEW i \in Deps, NEW j \in Deps,
             GenCores[i].ref = GenCores[j].ref /\ GenCores[i].ver = GenCores[j].ver
      PROVE  i = j
  <2>1. PICK deps, k, m : deps = problem.deps /\ k = i - 1 /\ m = j - 1
    OBVIOUS
  <2>2. /\ k \in DOMAIN deps /\ m \in DOMAIN deps
        /\ deps[k].ref = deps[m].ref /\ deps[k].ver = deps[m].ver
    BY <1>3, <2>1, CoresAre
  <2>3. k = m
    BY <2>1, <2>2, ProblemsAssumption
  <2>4. QED
    BY <1>1, <2>1, <2>3
<1>4. QED
  BY <1>1, <1>2, <1>3

LEMMA ByVlnvLists ==
    ASSUME problem \in Problems
    PROVE  IsList(ByVlnv) /\ ToSet(ByVlnv) = Deps
<1> DEFINE ref(i) == GenCores[i].ref
           ver(i) == GenCores[i].ver
           less == {e \in Deps \X Deps :
                        \/ ref(e[1]) < ref(e[2])
                        \/ ref(e[1]) = ref(e[2]) /\ ver(e[1]) < ver(e[2])}
<1>1. \A i \in Deps : ref(i) \in Nat /\ ver(i) \in Nat
  BY DepsAre
<1>2. \A i, j \in Deps : ref(i) = ref(j) /\ ver(i) = ver(j) => i = j
  BY DepsAre
<1>3. \A i, j \in Deps : <<i, j>> \in less <=>
            ref(i) < ref(j) \/ (ref(i) = ref(j) /\ ver(i) < ver(j))
  <2> HIDE DEF ref, ver
  <2> QED
    OBVIOUS
<1>4. /\ \A x, y \in Deps : x # y => <<x, y>> \in less \/ <<y, x>> \in less
      /\ \A x \in Deps : <<x, x>> \notin less
      /\ \A x, y, z \in Deps : <<x, y>> \in less /\ <<y, z>> \in less => <<x, z>> \in less
  <2> HIDE DEF ref, ver, less
  <2> QED
    BY <1>1, <1>2, <1>3
<1>5. IsList(Sorted(Deps, less)) /\ ToSet(Sorted(Deps, less)) = Deps
  <2> HIDE DEF less
  <2> QED
    BY <1>4, SortedLists, DepsAre
<1>6. QED
  BY <1>5 DEF ByVlnv

LEMMA KidsList ==
    ASSUME problem \in Problems, NEW i
    PROVE  IsList(Kids(i)) /\ ToSet(Kids(i)) = {j \in Deps : Refers(i, j)}
<1> DEFINE ref(j) == GenCores[j].ref
           S == {j \in Deps : Refers(i, j)}
<1>1. \A j \in Deps : ref(j) \in Nat /\ j \in Nat
  BY DepsAre
<1>2. \A j, k \in Deps : <<j, k>> \in ByRef <=> ref(j) < ref(k) \/ (ref(j) = ref(k) /\ j < k)
  <2>1. ByRef = {e \in Deps \X Deps : ref(e[1]) < ref(e[2]) \/ (ref(e[1]) = ref(e[2]) /\ e[1] < e[2])}
    BY DEF ByRef
  <2> HIDE DEF ref
  <2>2. QED
    BY <2>1
<1>3. /\ \A x, y \in Deps : x # y => <<x, y>> \in ByRef \/ <<y, x>> \in ByRef
      /\ \A x \in Deps : <<x, x>> \notin ByRef
      /\ \A x, y, z \in Deps : <<x, y>> \in ByRef /\ <<y, z>> \in ByRef => <<x, z>> \in ByRef
  <2> HIDE DEF ref
  <2> QED
    BY <1>1, <1>2
<1>4. S \in SUBSET Deps
  OBVIOUS
<1>5. IsFiniteSet(S)
  <2> HIDE DEF S
  <2> QED
    BY <1>4, DepsAre, FS_Subset
<1>6. IsList(Sorted(S, ByRef)) /\ ToSet(Sorted(S, ByRef)) = S
  <2> HIDE DEF S
  <2> QED
    BY <1>3, <1>4, <1>5, SortedLists
<1>7. QED
  BY <1>6 DEF Kids

LEMMA SetsAre ==
    ASSUME problem \in Problems, NEW i \in DOMAIN GenCores
    PROVE  /\ Len(Sets(i)) \in Nat /\ DOMAIN Sets(i) = 1..Len(Sets(i))
           /\ \A n \in SetNames(i) : IsList(Sets(i)[Fileset(i, n)].depend)
<1>1. PICK core : core = GenCores[i]
  OBVIOUS
<1>2. core \in {problem.root} \cup ToSet(problem.deps)
  BY <1>1, CoresAre
<1>3. /\ core.sets \in Seq(ToSet(core.sets))
      /\ \A set \in ToSet(core.sets) : set.depend \in Seq(ToSet(set.depend))
  BY <1>2, ProblemsAssumption
<1>4. Sets(i) = core.sets
  BY <1>1 DEF Sets
<1>5. Len(Sets(i)) \in Nat /\ DOMAIN Sets(i) = 1..Len(Sets(i))
  BY <1>3, <1>4, ListIs DEF IsList
<1>6. ASSUME NEW n \in SetNames(i) PROVE IsList(Sets(i)[Fileset(i, n)].depend)
  <2>1. Fileset(i, n) \in DOMAIN Sets(i)
    BY <1>6 DEF Fileset, SetNames
  <2>2. Sets(i)[Fileset(i, n)] \in ToSet(core.sets)
    BY <1>4, <2>1 DEF ToSet
  <2>3. QED
    BY <1>3, <2>2 DEF IsList
<1>7. QED
  BY <1>5, <1>6

LEMMA ExportedList ==
    ASSUME problem \in Problems, NEW i \in DOMAIN GenCores
    PROVE  IsList(Exported(i)) /\ ToSet(Exported(i)) \subseteq SetNames(i)
<1> DEFINE others == {f \in DOMAIN Sets(i) : Sets(i)[f].name \notin TestbenchSets}
           less == {e \in others \X others : e[1] < e[2]}
           listed == Sorted(others, less)
           names == [k \in DOMAIN listed |-> Sets(i)[listed[k]].name]
<1>1. CASE "rtl" \in SetNames(i)
  <2>1. Exported(i) = <<"rtl">> /\ ToSet(<<"rtl">>) = {"rtl"}
    <3>1. DOMAIN <<"rtl">> = 1..1 /\ <<"rtl">>[1] = "rtl"
      OBVIOUS
    <3>2. QED
      BY <1>1, <3>1 DEF Exported, ToSet
  <2>2. QED
    BY <1>1, <2>1, OneListed
<1>2. CASE "rtl" \notin SetNames(i)
  <2>1. others \in SUBSET DOMAIN Sets(i) /\ IsFiniteSet(DOMAIN Sets(i)) /\ DOMAIN Sets(i) \subseteq Nat
    <3>1. PICK n \in Nat : n = Len(Sets(i))
      BY SetsAre
    <3>2. IsFiniteSet(1..n) /\ 1..n \subseteq Nat
      BY FS_Interval
    <3>3. QED
      BY <3>1, <3>2, SetsAre
  <2>2. IsFiniteSet(others) /\ others \subseteq Nat
    <3> HIDE DEF others
    <3> QED
      BY <2>1, FS_Subset
  <2>3. \A x, y \in others : <<x, y>> \in less <=> x < y
    <3> HIDE DEF others
    <3> QED
      OBVIOUS
  <2>4. IsList(listed) /\ ToSet(listed) = others
    <3> HIDE DEF less, others
    <3>1. /\ \A x, y \in others : x # y => <<x, y>> \in less \/ <<y, x>> \in less
          /\ \A x \in others : <<x, x>> \notin less
          /\ \A x, y, z \in others : <<x, y>> \in less /\ <<y, z>> \in less => <<x, z>> \in less
      BY <2>2, <2>3
    <3>2. QED
      BY <2>2, <3>1, SortedLists
  <2>5. Exported(i) = names
    BY <1>2 DEF Exported
  <2>6. \A k \in DOMAIN listed : listed[k] \in DOMAIN Sets(i)
    <3>1. \A k \in DOMAIN listed : listed[k] \in others
      <4> HIDE DEF others, less, listed
      <4> QED
        BY <2>4 DEF ToSet
    <3>2. QED
      BY <2>1, <3>1
  <2>7. \A k \in DOMAIN listed : names[k] \in SetNames(i)
    <3> HIDE DEF listed
    <3> QED
      BY <2>6 DEF SetNames
  <2>8. names \in Seq(SetNames(i))
    <3>1. Len(listed) \in Nat /\ DOMAIN listed = 1..Len(listed)
      <4> HIDE DEF listed
      <4> QED
        BY <2>4, ListIs
    <3>2. names \in [1..Len(listed) -> SetNames(i)]
      <4> HIDE DEF listed
      <4> QED
        BY <2>7, <3>1
    <3>3. QED
      <4> HIDE DEF names, listed
      <4> QED
        BY <3>1, <3>2
  <2>9. QED
    <3> HIDE DEF names
    <3> QED
      BY <2>5, <2>8, ListOf
<1>3. QED
  BY <1>1, <1>2

\* What is worked out of the problem stays.
LEMMA EdamSame ==
    ASSUME problem' = problem
    PROVE  /\ GenCores' = GenCores /\ Deps' = Deps /\ Needs' = Needs
           /\ \A i : /\ Sets(i)' = Sets(i)
                     /\ FilesetKids(i)' = FilesetKids(i)
                     /\ Exported(i)' = Exported(i)
                     /\ Roots(i)' = Roots(i)
                     /\ Depends(i)' = Depends(i)
                     /\ Kids(i)' = Kids(i)
<1>1. GenCores' = GenCores
  BY DEF GenCores
<1>2. Deps' = Deps
  BY <1>1 DEF Deps
<1>3. \A i, j : Refers(i, j)' <=> Refers(i, j)
  BY <1>1 DEF Refers
<1>4. Needs' = Needs
  BY <1>2, <1>3 DEF Needs
<1>5. ByRef' = ByRef
  BY <1>1, <1>2 DEF ByRef
<1>6. \A i : Kids(i)' = Kids(i)
  <2> DEFINE S(i) == {j \in Deps : Refers(i, j)}
  <2>1. \A i : S(i)' = S(i)
    BY <1>2, <1>3
  <2>2. \A i : Kids(i) = Sorted(S(i), ByRef) /\ Kids(i)' = Sorted(S(i)', ByRef')
    BY DEF Kids
  <2> HIDE DEF S
  <2>3. QED
    BY <1>5, <2>1, <2>2
<1>7. \A i : Sets(i)' = Sets(i)
  BY <1>1 DEF Sets
<1>8. \A i : SetNames(i)' = SetNames(i)
  BY <1>7 DEF SetNames
<1>9. \A i, n : Fileset(i, n)' = Fileset(i, n)
  BY <1>7 DEF Fileset
<1>10. \A i : FilesetKids(i)' = FilesetKids(i)
  BY <1>7, <1>8, <1>9 DEF FilesetKids
<1>11. \A i : Depends(i)' = Depends(i)
  BY <1>7, <1>8, <1>9 DEF Depends
<1>12. \A i : Exported(i)' = Exported(i)
  <2> DEFINE others(i) == {f \in DOMAIN Sets(i) : Sets(i)[f].name \notin TestbenchSets}
             less(i) == {e \in others(i) \X others(i) : e[1] < e[2]}
             names(i, l) == [k \in DOMAIN l |-> Sets(i)[l[k]].name]
  <2>1. \A i : others(i)' = others(i)
    BY <1>7
  <2>2. \A i : less(i)' = less(i)
    <3> HIDE DEF others
    <3> QED
      BY <2>1
  <2>3. \A i, l : names(i, l)' = names(i, l)
    BY <1>7
  <2>4. \A i : /\ Exported(i) = IF "rtl" \in SetNames(i) THEN <<"rtl">>
                                ELSE names(i, Sorted(others(i), less(i)))
               /\ Exported(i)' = IF "rtl" \in SetNames(i)' THEN <<"rtl">>
                                 ELSE names(i, Sorted(others(i), less(i)))'
    BY DEF Exported
  <2>5. \A i : names(i, Sorted(others(i), less(i)))' = names(i, Sorted(others(i), less(i)))
    <3>1. \A i : Sorted(others(i), less(i))' = Sorted(others(i), less(i))
      <4> HIDE DEF others, less
      <4> QED
        BY <2>1, <2>2
    <3> DEFINE l(i) == Sorted(others(i), less(i))
    <3>2. \A i : names(i, l(i))' = names(i, l(i))
      <4>1. \A i : l(i)' = l(i)
        BY <3>1
      <4> HIDE DEF l
      <4>2. QED
        BY <1>7, <4>1
    <3>3. QED
      BY <3>2
  <2>6. QED
    <3> HIDE DEF names, others, less
    <3> QED
      BY <1>8, <2>4, <2>5
<1>13. \A i : Roots(i)' = Roots(i)
  BY <1>12 DEF Roots
<1>14. QED
  BY <1>1, <1>2, <1>4, <1>6, <1>7, <1>10, <1>11, <1>12, <1>13

-----------------------------------------------------------------------------
(* Edam: the order and the design.                                         *)

LEMMA ListingVisit ==
    ASSUME problem \in Problems, problem' = problem, NEW i \in DOMAIN GenCores, Listing(i)
    PROVE  VisitOK' /\ kids' = FilesetKids(i) /\ Covers(ToSet(Roots(i)))'
<1>1. PICK graph, roots : graph = FilesetKids(i) /\ roots = Roots(i)
  OBVIOUS
<1>2. Visiting(graph, roots)
  BY <1>1 DEF Listing, FilesetKids, Roots
<1>3. \A n \in DOMAIN graph : IsList(graph[n])
  BY <1>1, SetsAre DEF FilesetKids
<1>4. IsList(roots)
  <2>1. IsList(problem.target)
    BY ProblemsAssumption DEF IsList
  <2>2. QED
    BY <1>1, <2>1, ExportedList DEF Roots
<1>5. VisitOK' /\ Covers(ToSet(roots))'
  BY <1>2, <1>3, <1>4, VisitStarts
<1>6. roots = Roots(i)'
  BY <1>1, EdamSame
<1>7. kids' = FilesetKids(i)
  BY <1>1, <1>2 DEF Visiting
<1>8. Covers(ToSet(Roots(i)))'
  BY <1>5, <1>6
<1>9. QED
  BY <1>5, <1>7, <1>8

LEMMA ConcatLists ==
    ASSUME NEW s, IsList(s), NEW t, IsList(t)
    PROVE  /\ IsList(s \o t) /\ Len(s \o t) = Len(s) + Len(t)
           /\ \A k \in 1..Len(s) : (s \o t)[k] = s[k]
           /\ \A k \in 1..Len(t) : (s \o t)[Len(s) + k] = t[k]
<1> DEFINE S == ToSet(s) \cup ToSet(t)
<1>1. s \in Seq(S) /\ t \in Seq(S)
  BY SeqMonotonic DEF IsList
<1>2. /\ s \o t \in Seq(S) /\ Len(s \o t) = Len(s) + Len(t)
      /\ \A k \in 1..Len(s) : (s \o t)[k] = s[k]
      /\ \A k \in 1..Len(t) : (s \o t)[Len(s) + k] = t[k]
  <2> HIDE DEF S
  <2> QED
    BY <1>1
<1>3. IsList(s \o t)
  BY <1>2, ListOf
<1>4. QED
  BY <1>2, <1>3

LEMMA SameOrder ==
    ASSUME problem' = problem, order' = order, OrderOK
    PROVE  OrderOK'
<1>1. Needs' = Needs /\ Deps' = Deps
  BY EdamSame
<1>2. QED
  BY <1>1 DEF OrderOK

\* A design stays right while its turn lasts.
LEMMA SameDesign ==
    ASSUME problem' = problem, order' = order, design' = design, turn' = turn, DesignOK
    PROVE  DesignOK'
<1>1. Turns' = Turns
  BY DEF Turns
<1>2. \A i : Exported(i)' = Exported(i) /\ Depends(i)' = Depends(i)
  BY EdamSame
<1>3. QED
  BY <1>1, <1>2 DEF DesignOK

LEMMA VisitStep ==
    ASSUME EdamInv, Enter \/ PassOver \/ Leave
    PROVE  EdamInv'
<1>1. UNCHANGED <<problem, kids, turn, order, design>>
  BY DEF Enter, PassOver, Leave
<1>2. \A R : Covers(R) => VisitOK' /\ Covers(R)'
  BY EnterVisit, PassOverVisit, LeaveVisit DEF EdamInv
<1>3. VisitOK'
  <2>1. Covers({})
    BY DEF Covers
  <2>2. QED
    BY <1>2, <2>1
<1>4. /\ Deps' = Deps
      /\ \A i : Kids(i)' = Kids(i) /\ FilesetKids(i)' = FilesetKids(i) /\ Roots(i)' = Roots(i)
  BY <1>1, EdamSame
<1>5. ASSUME turn = 0
      PROVE  /\ kids' = [i \in Deps' |-> Kids(i)']
             /\ order' = <<>> /\ design' = <<>>
             /\ Covers(Deps)'
  <2>1. kids = [i \in Deps |-> Kids(i)] /\ order = <<>> /\ design = <<>> /\ Covers(Deps)
    BY <1>5 DEF EdamInv
  <2>2. PICK R : R = Deps
    OBVIOUS
  <2>3. Covers(R)' /\ R = Deps'
    BY <1>2, <1>4, <2>1, <2>2
  <2>4. QED
    BY <1>1, <1>4, <2>1, <2>3
<1>6. ASSUME turn > 0
      PROVE  /\ OrderOK'
             /\ turn' <= Len(order') + 1 =>
                 /\ kids' = FilesetKids(CoreAt(order, turn))'
                 /\ Covers(ToSet(Roots(CoreAt(order, turn))))'
  <2>1. OrderOK'
    BY <1>1, <1>6, SameOrder DEF EdamInv
  <2>2. ASSUME turn <= Len(order) + 1
        PROVE  /\ kids' = FilesetKids(CoreAt(order, turn))'
               /\ Covers(ToSet(Roots(CoreAt(order, turn))))'
    <3>1. PICK c, R : c = CoreAt(order, turn) /\ R = ToSet(Roots(c))
      OBVIOUS
    <3>2. kids = FilesetKids(c) /\ Covers(R)
      BY <1>6, <2>2, <3>1 DEF EdamInv
    <3>3. c = CoreAt(order', turn') /\ R = ToSet(Roots(c))'
      BY <1>1, <1>4, <3>1
    <3>4. kids' = FilesetKids(c)' /\ Covers(R)'
      BY <1>1, <1>2, <1>4, <3>2
    <3>5. QED
      BY <3>3, <3>4
  <2>3. QED
    BY <1>1, <2>1, <2>2
<1>7. DesignOK'
  BY <1>1, SameDesign DEF EdamInv
<1>8. QED
  BY <1>1, <1>3, <1>5, <1>6, <1>7 DEF EdamInv

LEMMA OrderStep ==
    ASSUME EdamInv, OrderFound
    PROVE  EdamInv'
<1>1. /\ problem \in Problems /\ problem' = problem /\ turn = 0 /\ turn' = 1
      /\ order' = ordered /\ design' = design /\ Visited /\ VisitOK
      /\ kids = [i \in Deps |-> Kids(i)] /\ design = <<>> /\ Covers(Deps)
  BY DEF OrderFound, EdamInv
<1>2. PICK R : R = Deps
  OBVIOUS
<1>3. /\ R \cap DOMAIN kids \subseteq ToSet(ordered)
      /\ IsList(ordered) /\ ToSet(ordered) \subseteq DOMAIN kids
      /\ \A l, m \in 1..Len(ordered) : ordered[l] = ordered[m] => l = m
      /\ Follows(Arrows, ordered)
  BY <1>1, <1>2, VisitEnds
<1>4. ToSet(ordered) = Deps
  BY <1>1, <1>2, <1>3
<1>5. Arrows = Needs
  <2>1. \A i : ToSet(Kids(i)) = {j \in Deps : Refers(i, j)}
    BY <1>1, KidsList
  <2>2. Arrows = [n \in Deps |-> ToSet(Kids(n)) \cap Deps]
    BY <1>1 DEF Arrows
  <2>3. \A n \in Deps : ToSet(Kids(n)) \cap Deps = {j \in Deps : Refers(n, j)}
    BY <2>1
  <2>4. QED
    BY <2>2, <2>3 DEF Needs
<1>6. OrderOK'
  <2>1. Needs' = Needs /\ Deps' = Deps
    BY <1>1, EdamSame
  <2>2. QED
    BY <1>1, <1>3, <1>4, <1>5, <2>1 DEF OrderOK
<1>7. PICK c : c = CoreAt(ordered, 1)
  OBVIOUS
<1>8. c \in DOMAIN GenCores
  <2>1. Len(ordered) \in Nat /\ ToSet(ordered) = {ordered[l] : l \in 1..Len(ordered)}
    BY <1>3, ListIs
  <2>2. 1 <= Len(ordered) => c \in Deps
    BY <1>4, <1>7, <2>1 DEF CoreAt
  <2>3. QED
    BY <1>1, <1>7, <2>2, DepsAre DEF CoreAt
<1>9. VisitOK' /\ kids' = FilesetKids(c) /\ Covers(ToSet(Roots(c)))'
  BY <1>1, <1>7, <1>8, ListingVisit DEF OrderFound
<1>10. c = CoreAt(order', turn') /\ FilesetKids(c)' = FilesetKids(c)
  BY <1>1, <1>7, EdamSame
<1>11. DesignOK'
  <2>1. IsList(design') /\ Len(design') = 0
    BY <1>1, NothingListed
  <2>2. Turns' = {}
    BY <1>1 DEF Turns
  <2>3. QED
    BY <2>1, <2>2 DEF DesignOK
<1>12. Covers(ToSet(Roots(CoreAt(order, turn))))'
  BY <1>9, <1>10
<1>13. kids' = FilesetKids(CoreAt(order, turn))'
  BY <1>9, <1>10
<1>14. QED
  BY <1>1, <1>6, <1>9, <1>11, <1>12, <1>13 DEF EdamInv

\* The files of one more core come after those of the cores before it.
LEMMA FilesDesign ==
    ASSUME EdamInv, FilesListed
    PROVE  DesignOK'
<1> DEFINE c == CoreAt(order, turn)
           new == [k \in DOMAIN ordered |-> <<c, ordered[k]>>]
           d == Len(design)
           o == Len(ordered)
<1>1. /\ problem \in Problems /\ problem' = problem /\ order' = order
      /\ turn \in Nat /\ turn > 0 /\ turn' = turn + 1
      /\ design' = design \o new /\ Visited /\ VisitOK /\ OrderOK /\ DesignOK
  BY DEF FilesListed, EdamInv
<1>2. Len(order) \in Nat /\ turn <= Len(order) + 1
  BY <1>1, ListIs DEF OrderOK, FilesListed, Finished
<1>3. kids = FilesetKids(c) /\ Covers(ToSet(Roots(c)))
  BY <1>1, <1>2 DEF EdamInv
<1>4. PICK R : R = ToSet(Roots(c))
  OBVIOUS
<1>5. /\ R \cap DOMAIN kids \subseteq ToSet(ordered)
      /\ IsList(ordered)
      /\ \A l, m \in 1..o : ordered[l] = ordered[m] => l = m
      /\ Follows(Arrows, ordered)
  BY <1>1, <1>3, <1>4, VisitEnds
<1>6. Arrows = Depends(c)
  BY <1>3 DEF Arrows, FilesetKids, Depends
<1>7. o \in Nat /\ DOMAIN ordered = 1..o /\ ToSet(ordered) = {ordered[l] : l \in 1..o}
  BY <1>5, ListIs
<1>8. d \in Nat /\ IsList(design)
  BY <1>1, ListIs DEF DesignOK
<1>9. IsList(new) /\ Len(new) = o
  <2>1. PICK S : S = {new[k] : k \in 1..o}
    OBVIOUS
  <2>2. new \in [1..o -> S]
    BY <1>7, <2>1
  <2>3. new \in Seq(S) /\ Len(new) = o
    <3>1. DOMAIN new = 1..o
      BY <1>7
    <3> HIDE DEF new, o
    <3> QED
      BY <1>7, <2>2, <3>1
  <2>4. QED
    <3> HIDE DEF new
    <3> QED
      BY <2>3, ListOf
<1>10. /\ IsList(design') /\ Len(design') = d + o
       /\ \A k \in 1..d : design'[k] = design[k]
       /\ \A k \in 1..o : design'[d + k] = <<c, ordered[k]>>
  <2>1. /\ IsList(design \o new) /\ Len(design \o new) = d + Len(new)
        /\ \A k \in 1..d : (design \o new)[k] = design[k]
        /\ \A k \in 1..Len(new) : (design \o new)[d + k] = new[k]
    <3>1. PICK these, those : these = design /\ those = new
      OBVIOUS
    <3>2. IsList(these) /\ IsList(those)
      BY <1>8, <1>9, <3>1
    <3>3. /\ IsList(these \o those) /\ Len(these \o those) = Len(these) + Len(those)
          /\ \A k \in 1..Len(these) : (these \o those)[k] = these[k]
          /\ \A k \in 1..Len(those) : (these \o those)[Len(these) + k] = those[k]
      BY <3>2, ConcatLists
    <3> HIDE DEF new
    <3>4. QED
      BY <3>1, <3>3
  <2>2. \A k \in 1..o : new[k] = <<c, ordered[k]>>
    BY <1>7
  <2> HIDE DEF new
  <2>3. QED
    BY <1>1, <1>9, <2>1, <2>2
<1>11. Turns' = Turns \cup {turn} /\ turn \in 1..(Len(order) + 1) /\ turn \notin Turns
  BY <1>1, <1>2 DEF Turns
<1>12. \A i : Exported(i)' = Exported(i) /\ Depends(i)' = Depends(i)
  BY <1>1, EdamSame
<1>13. \A k \in 1..(d + o) : k \in 1..d \/ \E m \in 1..o : k = d + m
  <2> SUFFICES ASSUME NEW k \in 1..(d + o), k \notin 1..d PROVE \E m \in 1..o : k = d + m
    OBVIOUS
  <2>1. k - d \in 1..o /\ k = d + (k - d)
    BY <1>7, <1>8
  <2>2. QED
    BY <2>1
<1>14. ASSUME NEW l \in 1..(d + o), NEW k \in 1..(d + o), l <= k
       PROVE  \E s, t \in Turns' :
                /\ s <= t
                /\ design'[l][1] = CoreAt(order, s)
                /\ design'[k][1] = CoreAt(order, t)
                /\ s = t /\ l # k =>
                    /\ design'[l] # design'[k]
                    /\ ~Before(Depends(CoreAt(order, t)), design'[k][2], design'[l][2])
  <2>1. CASE k \in 1..d
    <3>1. l \in 1..d
      BY <1>14, <2>1
    <3>2. design'[l] = design[l] /\ design'[k] = design[k]
      BY <1>10, <2>1, <3>1
    <3>3. PICK s, t \in Turns :
            /\ s <= t
            /\ design[l][1] = CoreAt(order, s)
            /\ design[k][1] = CoreAt(order, t)
            /\ s = t /\ l # k =>
                /\ design[l] # design[k]
                /\ ~Before(Depends(CoreAt(order, t)), design[k][2], design[l][2])
      BY <1>1, <1>14, <2>1, <3>1 DEF DesignOK
    <3>4. QED
      BY <1>11, <3>2, <3>3
  <2>2. CASE l \in 1..d /\ k \notin 1..d
    <3>1. PICK m \in 1..o : k = d + m
      BY <1>13, <2>2
    <3>2. design'[k][1] = c /\ design'[l] = design[l]
      BY <1>10, <2>2, <3>1
    <3>3. PICK s \in Turns : design[l][1] = CoreAt(order, s)
      BY <1>1, <1>8, <2>2 DEF DesignOK
    <3>4. s <= turn /\ s # turn
      BY <1>1, <1>11, <3>3 DEF Turns
    <3>5. s \in Turns' /\ turn \in Turns'
      BY <1>11
    <3>6. QED
      BY <3>2, <3>3, <3>4, <3>5
  <2>3. CASE l \notin 1..d
    <3>1. k \notin 1..d
      BY <1>8, <1>14, <2>3
    <3>2. PICK i, j \in 1..o : l = d + i /\ k = d + j
      BY <1>13, <2>3, <3>1
    <3>3. design'[l] = <<c, ordered[i]>> /\ design'[k] = <<c, ordered[j]>> /\ i <= j
      BY <1>7, <1>8, <1>10, <1>14, <3>2
    <3>4. ASSUME l # k
          PROVE  ordered[i] # ordered[j] /\ ~Before(Depends(c), ordered[j], ordered[i])
      <4>1. i # j /\ \A m \in 1..o : m < i => m # j
        BY <1>7, <3>2, <3>3, <3>4
      <4>2. ordered[i] # ordered[j] /\ \A m \in 1..o : m < i => ordered[m] # ordered[j]
        BY <1>5, <4>1
      <4>3. ordered[j] \in Depends(c)[ordered[i]] => Leads(Depends(c), ordered[j], ordered[i])
        BY <1>5, <1>6, <4>2 DEF Follows
      <4>4. QED
        BY <4>2, <4>3 DEF Before
    <3>5. QED
      <4>1. design'[l] # design'[k] \/ l = k
        BY <3>3, <3>4
      <4>2. /\ design'[l][1] = c /\ design'[k][1] = c
            /\ design'[l][2] = ordered[i] /\ design'[k][2] = ordered[j]
        BY <3>3
      <4>3. turn \in Turns' /\ turn <= turn
        BY <1>1, <1>11
      <4>4. QED
        BY <3>4, <4>1, <4>2, <4>3
  <2>4. QED
    BY <2>1, <2>2, <2>3
<1>15. ASSUME NEW t \in Turns', t <= Len(order), Exported(order[t]) # <<>>
       PROVE  \E k \in 1..(d + o) : design'[k][1] = order[t]
  <2>1. CASE t \in Turns
    <3>1. PICK k \in 1..d : design[k][1] = order[t]
      BY <1>1, <1>15, <2>1 DEF DesignOK
    <3>2. k \in 1..(d + o)
      BY <1>7, <1>8
    <3>3. QED
      BY <1>10, <3>1, <3>2
  <2>2. CASE t = turn
    <3>1. c = order[t]
      BY <1>15, <2>2 DEF CoreAt
    <3>2. c \in Deps
      <4>1. t \in 1..Len(order)
        BY <1>1, <1>2, <1>15, <2>2
      <4>2. order[t] \in ToSet(order)
        BY <1>1, <4>1, ListIs DEF OrderOK
      <4>3. QED
        BY <1>1, <3>1, <4>2 DEF OrderOK
    <3>3. c \in DOMAIN GenCores /\ c # 1
      BY <1>1, <3>2, DepsAre
    <3>4. IsList(Exported(c)) /\ ToSet(Exported(c)) \subseteq DOMAIN kids
      <4>1. DOMAIN kids = SetNames(c)
        BY <1>3 DEF FilesetKids
      <4>2. PICK i : i = c
        OBVIOUS
      <4>3. IsList(Exported(i)) /\ ToSet(Exported(i)) \subseteq SetNames(i)
        BY <1>1, <3>3, <4>2, ExportedList
      <4>4. QED
        BY <4>1, <4>2, <4>3
    <3>5. R = ToSet(Exported(c))
      BY <1>4, <3>3 DEF Roots
    <3>6. \E x : x \in ToSet(Exported(c))
      <4>1. PICK e : e = Exported(c)
        OBVIOUS
      <4>2. IsList(e) /\ e # <<>>
        BY <1>15, <3>1, <3>4, <4>1
      <4>3. Len(e) \in Nat /\ Len(e) # 0 /\ ToSet(e) = {e[k] : k \in 1..Len(e)}
        BY <4>2, ListIs
      <4>4. 1 \in 1..Len(e)
        BY <4>3
      <4>5. QED
        BY <4>1, <4>3, <4>4
    <3>7. PICK l \in 1..o : TRUE
      BY <1>5, <1>7, <3>4, <3>5, <3>6
    <3>8. d + l \in 1..(d + o) /\ design'[d + l][1] = c
      BY <1>7, <1>8, <1>10
    <3>9. QED
      BY <3>1, <3>8
  <2>3. QED
    BY <1>11, <2>1, <2>2
<1>16. QED
  <2>1. CoreAt(order', turn) = c /\ Len(design') = d + o
    BY <1>1, <1>10
  <2> HIDE DEF c, new, d, o
  <2>2. ASSUME NEW l \in 1..Len(design'), NEW k \in 1..Len(design'), l <= k
        PROVE  \E s, t \in Turns' :
                /\ s <= t
                /\ design'[l][1] = CoreAt(order', s)
                /\ design'[k][1] = CoreAt(order', t)
                /\ s = t /\ l # k =>
                    /\ design'[l] # design'[k]
                    /\ ~Before(Depends(CoreAt(order, t))', design'[k][2], design'[l][2])
    <3>1. \A t : Depends(CoreAt(order, t))' = Depends(CoreAt(order, t))
      BY <1>1, <1>12
    <3>2. QED
      BY <1>1, <1>14, <2>1, <2>2, <3>1
  <2>3. ASSUME NEW t \in Turns', t <= Len(order'), Exported(order[t])' # <<>>
        PROVE  \E k \in 1..Len(design') : design'[k][1] = order'[t]
    <3>1. Exported(order[t])' = Exported(order[t])
      BY <1>1, <1>12
    <3>2. QED
      BY <1>1, <1>15, <2>1, <2>3, <3>1
  <2>4. QED
    BY <1>10, <2>2, <2>3 DEF DesignOK

LEMMA FilesStep ==
    ASSUME EdamInv, FilesListed
    PROVE  EdamInv'
<1>1. /\ problem \in Problems /\ problem' = problem /\ order' = order
      /\ turn \in Nat /\ turn > 0 /\ turn' = turn + 1 /\ OrderOK /\ VisitOK
  BY DEF FilesListed, EdamInv
<1>2. Len(order) \in Nat /\ turn <= Len(order) + 1 /\ ToSet(order) = {order[l] : l \in 1..Len(order)}
  BY <1>1, ListIs DEF OrderOK, FilesListed, Finished
<1>3. OrderOK' /\ DesignOK'
  BY <1>1, SameOrder, FilesDesign
<1>4. CASE turn <= Len(order)
  <2>1. PICK c : c = CoreAt(order, turn + 1)
    OBVIOUS
  <2>2. c \in DOMAIN GenCores
    <3>1. turn + 1 <= Len(order) => c \in Deps
      BY <1>1, <1>2, <2>1 DEF CoreAt, OrderOK
    <3>2. QED
      BY <1>1, <2>1, <3>1, DepsAre DEF CoreAt
  <2>3. VisitOK' /\ kids' = FilesetKids(c) /\ Covers(ToSet(Roots(c)))'
    BY <1>1, <1>4, <2>1, <2>2, ListingVisit DEF FilesListed
  <2>4. c = CoreAt(order', turn') /\ FilesetKids(c)' = FilesetKids(c)
    BY <1>1, <2>1, EdamSame
  <2>5. kids' = FilesetKids(CoreAt(order, turn))' /\ Covers(ToSet(Roots(CoreAt(order, turn))))'
    BY <2>3, <2>4
  <2>6. QED
    BY <1>1, <1>3, <2>3, <2>5 DEF EdamInv
<1>5. CASE turn > Len(order)
  <2>1. UNCHANGED visitVars
    BY <1>1, <1>2, <1>5 DEF FilesListed
  <2>2. kids' = kids /\ stack' = stack /\ rest' = rest /\ ordered' = ordered
    BY <2>1 DEF visitVars
  <2>3. Arrows' = Arrows
    BY <2>2 DEF Arrows
  <2>4. VisitOK'
    BY <1>1, <2>2, <2>3 DEF VisitOK, VisitShape, OpenNodes
  <2>5. ~(turn' <= Len(order') + 1) /\ turn' \in Nat /\ turn' # 0
    BY <1>1, <1>2, <1>5
  <2>6. QED
    BY <1>1, <1>3, <2>4, <2>5 DEF EdamInv
<1>6. QED
  BY <1>1, <1>2, <1>4, <1>5

\* The invariant holds throughout.
LEMMA EdamInvariance == EdamSpec => []EdamInv
<1>1. EdamInit => EdamInv
  <2> SUFFICES ASSUME EdamInit PROVE EdamInv
    OBVIOUS
  <2>1. /\ problem \in Problems /\ kids = [i \in Deps |-> Kids(i)] /\ rest = <<ByVlnv>>
        /\ stack = <<>> /\ ordered = <<>> /\ turn = 0 /\ order = <<>> /\ design = <<>>
    BY DEF EdamInit
  <2>2. /\ IsList(rest) /\ Len(rest) = 1 /\ rest[1] = ByVlnv
        /\ IsList(stack) /\ Len(stack) = 0 /\ IsList(ordered) /\ Len(ordered) = 0
        /\ IsList(design) /\ Len(design) = 0
    BY <2>1, OneListed, NothingListed
  <2>3. IsList(ByVlnv) /\ ToSet(ByVlnv) = Deps
    BY <2>1, ByVlnvLists
  <2>4. VisitShape
    <3>1. \A n \in DOMAIN kids : IsList(kids[n])
      BY <2>1, KidsList
    <3>2. \A k \in 1..1 : IsList(rest[k])
      BY <2>2, <2>3
    <3>3. QED
      BY <2>2, <3>1, <3>2 DEF VisitShape
  <2>5. OpenNodes /\ Follows(Arrows, ordered)
    BY <2>2 DEF OpenNodes, Follows
  <2>6. Covers(Deps)
    BY <2>2, <2>3 DEF Covers
  <2>7. Turns = {}
    BY <2>1 DEF Turns
  <2>8. DesignOK
    BY <2>2, <2>7 DEF DesignOK
  <2>9. QED
    BY <2>1, <2>4, <2>5, <2>6, <2>8 DEF EdamInv, VisitOK
<1>2. EdamInv /\ [EdamNext]_edamVars => EdamInv'
  <2> SUFFICES ASSUME EdamInv, [EdamNext]_edamVars PROVE EdamInv'
    OBVIOUS
  <2>1. CASE Enter \/ PassOver \/ Leave
    BY <2>1, VisitStep
  <2>2. CASE OrderFound
    BY <2>2, OrderStep
  <2>3. CASE FilesListed
    BY <2>3, FilesStep
  <2>4. CASE UNCHANGED edamVars
    <3>1. /\ problem' = problem /\ kids' = kids /\ stack' = stack /\ rest' = rest
          /\ ordered' = ordered /\ turn' = turn /\ order' = order /\ design' = design
      BY <2>4 DEF edamVars, visitVars
    <3>2. Arrows' = Arrows
      BY <3>1 DEF Arrows
    <3>3. VisitOK'
      BY <3>1, <3>2 DEF EdamInv, VisitOK, VisitShape, OpenNodes
    <3>4. /\ Deps' = Deps
          /\ \A i : Kids(i)' = Kids(i) /\ FilesetKids(i)' = FilesetKids(i) /\ Roots(i)' = Roots(i)
      BY <3>1, EdamSame
    <3>5. \A R : Covers(R) => Covers(R)'
      BY <3>1 DEF Covers
    <3>6. DesignOK' /\ (turn > 0 => OrderOK')
      BY <3>1, SameDesign, SameOrder DEF EdamInv
    <3>7. turn = 0 => kids' = [i \in Deps' |-> Kids(i)'] /\ Covers(Deps)'
      <4>1. PICK R : R = Deps
        OBVIOUS
      <4>2. QED
        BY <3>1, <3>4, <3>5, <4>1 DEF EdamInv
    <3>8. turn > 0 /\ turn <= Len(order) + 1 =>
            kids' = FilesetKids(CoreAt(order, turn))' /\ Covers(ToSet(Roots(CoreAt(order, turn))))'
      <4>1. PICK c, R : c = CoreAt(order, turn) /\ R = ToSet(Roots(c))
        OBVIOUS
      <4>2. c = CoreAt(order', turn') /\ R = ToSet(Roots(c))'
        BY <3>1, <3>4, <4>1
      <4>3. turn > 0 /\ turn <= Len(order) + 1 => kids' = FilesetKids(c)' /\ Covers(R)'
        BY <3>1, <3>4, <3>5, <4>1 DEF EdamInv
      <4>4. QED
        BY <4>2, <4>3
    <3>9. QED
      BY <3>1, <3>3, <3>6, <3>7, <3>8 DEF EdamInv
  <2>5. QED
    BY <2>1, <2>2, <2>3, <2>4 DEF EdamNext
<1>3. QED
  BY <1>1, <1>2, PTL DEF EdamSpec

LEMMA InOrder ==
    ASSUME EdamInv
    PROVE  DependenciesFirst
<1> DEFINE d == Len(design)
<1>1. problem \in Problems /\ DesignOK /\ IsList(design) /\ (turn > 0 => OrderOK) /\ turn \in Nat
  BY DEF EdamInv, DesignOK
<1>2. d \in Nat /\ DOMAIN design = 1..d
  BY <1>1, ListIs
<1>3. ASSUME NEW k \in 1..d, NEW l \in 1..d, ~(k < l), k # l
      PROVE  /\ design[k] # design[l]
             /\ design[l][1] = 1 => design[k][1] = 1
             /\ 1 \notin {design[k][1], design[l][1]} =>
                    ~Before(Needs, design[k][1], design[l][1])
             /\ design[k][1] = design[l][1] =>
                    ~Before(Depends(design[k][1]), design[k][2], design[l][2])
  <2>1. l <= k
    BY <1>2, <1>3
  <2>2. PICK s, t \in Turns :
            /\ s <= t
            /\ design[l][1] = CoreAt(order, s)
            /\ design[k][1] = CoreAt(order, t)
            /\ s = t /\ l # k =>
                /\ design[l] # design[k]
                /\ ~Before(Depends(CoreAt(order, t)), design[k][2], design[l][2])
    BY <1>1, <2>1 DEF DesignOK
  <2>3. turn > 0 /\ OrderOK
    BY <1>1, <2>2 DEF Turns
  <2>4. /\ Len(order) \in Nat /\ ToSet(order) = {order[m] : m \in 1..Len(order)}
        /\ s \in 1..(Len(order) + 1) /\ t \in 1..(Len(order) + 1)
    BY <2>3, ListIs DEF OrderOK, Turns
  <2>5. \A m \in 1..(Len(order) + 1) :
            \/ m \in 1..Len(order) /\ CoreAt(order, m) = order[m] /\ order[m] \in Deps
            \/ m = Len(order) + 1 /\ CoreAt(order, m) = 1
    BY <2>3, <2>4 DEF CoreAt, OrderOK
  <2>6. 1 \notin Deps
    BY <1>1, DepsAre
  <2>7. design[l][1] = 1 => design[k][1] = 1
    <3>1. CoreAt(order, s) = 1 => s = Len(order) + 1
      BY <2>4, <2>5, <2>6
    <3>2. s = Len(order) + 1 => t = Len(order) + 1
      BY <2>2, <2>4
    <3>3. t = Len(order) + 1 => CoreAt(order, t) = 1
      BY <2>4, <2>5
    <3>4. QED
      BY <2>2, <3>1, <3>2, <3>3
  <2>8. CASE s = t
    <3>1. Leads(Needs, design[k][1], design[l][1])
      BY <2>2, <2>8, LeadsToItself
    <3>2. ~Before(Needs, design[k][1], design[l][1])
      BY <3>1 DEF Before
    <3>3. QED
      BY <1>3, <2>2, <2>7, <2>8, <3>2
  <2>9. CASE s # t
    <3>1. s < t
      BY <2>2, <2>4, <2>9
    <3>2. design[k][1] # design[l][1]
      <4>1. s \in 1..Len(order) /\ CoreAt(order, s) = order[s] /\ order[s] \in Deps
        BY <2>4, <2>5, <3>1
      <4>2. CASE t \in 1..Len(order)
        <5>1. CoreAt(order, t) = order[t] /\ s # t
          BY <2>9, <4>2 DEF CoreAt
        <5>2. order[s] # order[t]
          BY <2>3, <4>1, <4>2, <5>1 DEF OrderOK
        <5>3. QED
          BY <2>2, <4>1, <5>1, <5>2
      <4>3. CASE CoreAt(order, t) = 1
        BY <2>2, <2>6, <4>1, <4>3
      <4>4. QED
        BY <2>4, <2>5, <4>2, <4>3
    <3>3. ASSUME design[k][1] # 1, design[l][1] # 1
          PROVE  ~Before(Needs, design[k][1], design[l][1])
      <4>1. s \in 1..Len(order) /\ t \in 1..Len(order) /\ design[l][1] = order[s] /\ design[k][1] = order[t]
        BY <2>2, <2>4, <2>5, <3>3
      <4>2. \A m \in 1..Len(order) : m < s => order[m] # order[t]
        <5>1. \A m \in 1..Len(order) : m < s => m # t
          BY <2>4, <3>1
        <5>2. QED
          BY <2>3, <4>1, <5>1 DEF OrderOK
      <4>3. order[t] \in Needs[order[s]] => Leads(Needs, order[t], order[s])
        <5>1. Follows(Needs, order)
          BY <2>3 DEF OrderOK
        <5>2. \A x \in Needs[order[s]] :
                Leads(Needs, x, order[s]) \/ \E m \in 1..Len(order) : m < s /\ order[m] = x
          BY <4>1, <5>1 DEF Follows
        <5>3. QED
          BY <4>2, <5>2
      <4>4. QED
        BY <4>1, <4>3 DEF Before
    <3>4. QED
      BY <2>7, <3>2, <3>3
  <2>10. QED
    BY <2>8, <2>9
<1>4. ASSUME Finished, NEW i \in Deps, Exported(i) # <<>>
      PROVE  \E k \in 1..d : design[k][1] = i
  <2>1. turn > 0
    <3>1. turn = 0 => order = <<>>
      BY DEF EdamInv
    <3>2. QED
      BY <1>1, <1>4, <3>1, NothingListed DEF Finished
  <2>2. OrderOK
    BY <1>1, <2>1
  <2>3. PICK t \in 1..Len(order) : order[t] = i
    BY <2>2, ListIs DEF OrderOK
  <2>4. Len(order) \in Nat
    BY <2>2, ListIs DEF OrderOK
  <2>5. t \in Turns /\ t <= Len(order)
    BY <1>1, <1>4, <2>4 DEF Turns, Finished
  <2>6. QED
    BY <1>1, <1>4, <2>3, <2>5 DEF DesignOK
<1>5. QED
  BY <1>2, <1>3, <1>4 DEF DependenciesFirst

-----------------------------------------------------------------------------
(* Gen: what it has done once it has not refused.                          *)

Proceeded ==
    refused = "no" =>
        /\ Multiversion => MayMangle
        /\ tags = [i \in DOMAIN GenCores |-> [f \in DOMAIN Sets(i) |-> Final(i, f)]]

\* Nothing is assembled of what may be refused.
Waiting == refused # "no" => turn = 0 /\ order = <<>>

GenInv == problem \in Problems /\ Proceeded /\ Waiting

\* What is worked out of the problem stays.
LEMMA SameProblem ==
    ASSUME problem' = problem
    PROVE  /\ GenCores' = GenCores /\ Multiversion' = Multiversion /\ MayMangle' = MayMangle
           /\ \A i : Sets(i)' = Sets(i)
           /\ \A i, f : Final(i, f)' = Final(i, f)
<1>1. GenCores' = GenCores
  BY DEF GenCores
<1>2. \A i : Sets(i)' = Sets(i)
  BY <1>1 DEF Sets
<1>3. \A ref : Group(ref)' = Group(ref)
  BY <1>1 DEF Group
<1>4. \A i, sort : DeclaredIn(i, sort)' = DeclaredIn(i, sort)
  BY <1>2 DEF DeclaredIn
<1>5. Conflicted' = Conflicted
  BY <1>1, <1>3 DEF Conflicted
<1>6. Colliding' = Colliding
  <2> DEFINE names == UNION {DeclaredIn(i, sort) : i \in DOMAIN GenCores, sort \in Kinds}
             declare(c) == {i \in Group(c.ref) : c.name \in DeclaredIn(i, c.kind)}
  <2>1. names' = names
    BY <1>1, <1>4
  <2>2. \A c : declare(c)' = declare(c)
    BY <1>3, <1>4
  <2>3. /\ Colliding = {c \in [name : names, ref : Conflicted, kind : Kinds] :
                            Cardinality(declare(c)) > 1}
        /\ Colliding' = {c \in [name : names', ref : Conflicted', kind : Kinds] :
                            Cardinality(declare(c)') > 1}
    BY DEF Colliding
  <2> HIDE DEF names, declare
  <2>4. QED
    BY <1>5, <2>1, <2>2, <2>3
<1>7. \A i, ref : ResolvedVersion(i, ref)' = ResolvedVersion(i, ref)
  <2> SUFFICES ASSUME NEW i, NEW ref
               PROVE  ResolvedVersion(i, ref)' = ResolvedVersion(i, ref)
    OBVIOUS
  <2> DEFINE none == \A d \in GenCores[i].deps : d.ref # ref
             present == {GenCores[j].ver : j \in Group(ref)}
             matching == {v \in present : Admits(i, ref, v)}
             newest(S) == CHOOSE v \in S : \A w \in S : w <= v
             choice(P, M) == newest(IF M = {} THEN P ELSE M)
  <2>1. /\ none' <=> none
        /\ present' = present
        /\ \A v : Admits(i, ref, v)' <=> Admits(i, ref, v)
    BY <1>1, <1>3 DEF Admits
  <2>2. matching' = matching
    <3> HIDE DEF present
    <3> QED
      BY <2>1
  <2>3. /\ ResolvedVersion(i, ref) = IF none THEN 0 ELSE choice(present, matching)
        /\ ResolvedVersion(i, ref)' = IF none' THEN 0 ELSE choice(present', matching')
    BY DEF ResolvedVersion
  <2> HIDE DEF none, present, matching, choice
  <2>4. QED
    BY <2>1, <2>2, <2>3
<1>8. \A i, c : DeclaresSome(i, c)' <=> DeclaresSome(i, c)
  BY <1>4 DEF DeclaresSome
<1>9. \A i, c : Rename(i, c)' = Rename(i, c)
  BY <1>1, <1>7, <1>8 DEF Rename
<1>10. \A sort : Occurrences(sort)' = Occurrences(sort)
  BY <1>1, <1>2, <1>6 DEF Occurrences
<1>11. MangledAlike' <=> MangledAlike
  BY <1>1, <1>3, <1>6, <1>8, <1>9 DEF MangledAlike
<1>12. UnknownLanguage' <=> UnknownLanguage
  BY <1>2, <1>3, <1>5 DEF UnknownLanguage
<1>13. CollidesTwice' <=> CollidesTwice
  BY <1>6 DEF CollidesTwice
<1>14. DeclaredElsewhere' <=> DeclaredElsewhere
  BY <1>1, <1>4, <1>6 DEF DeclaredElsewhere
<1>15. \A sort : Unclassifiable(sort)' <=> Unclassifiable(sort)
  BY <1>2, <1>10 DEF Unclassifiable
<1>17. MayMangle' = MayMangle
  BY <1>11, <1>12, <1>13, <1>14, <1>15 DEF MayMangle
<1>18. Multiversion' = Multiversion
  BY <1>1 DEF Multiversion, Deps
<1>19. \A i, f : Rewritten(i, f)' = Rewritten(i, f) /\ Untouched(i, f)' = Untouched(i, f)
  <2> SUFFICES ASSUME NEW i, NEW f
               PROVE  Rewritten(i, f)' = Rewritten(i, f) /\ Untouched(i, f)' = Untouched(i, f)
    OBVIOUS
  <2> DEFINE hits(file, p) == {c \in Colliding :
                    /\ c.name = file.text[p]
                    /\ Position(file.lang, file.text, p, c.kind)}
             any(S) == CHOOSE c \in S : TRUE
             tag(p) == IF hits(Sets(i)[f], p) = {} THEN 0
                       ELSE Rename(i, any(hits(Sets(i)[f], p)))
  <2>1. \A file, p : hits(file, p)' = hits(file, p)
    BY <1>6
  <2>2. \A p : tag(p)' = tag(p)
    <3> HIDE DEF hits, any
    <3> QED
      BY <1>2, <1>9, <2>1
  <2>3. /\ Rewritten(i, f) = [p \in DOMAIN Sets(i)[f].text |-> tag(p)]
        /\ Rewritten(i, f)' = [p \in DOMAIN Sets(i)'[f].text |-> tag(p)']
    BY DEF Rewritten
  <2>4. Rewritten(i, f)' = Rewritten(i, f)
    <3> HIDE DEF tag
    <3> QED
      BY <1>2, <2>2, <2>3
  <2>5. QED
    BY <1>2, <2>4 DEF Untouched
<1>20. \A i, f : Final(i, f)' = Final(i, f)
  BY <1>18, <1>19 DEF Final
<1>21. QED
  BY <1>1, <1>2, <1>17, <1>18, <1>20

\* Every step of Gen keeps the invariant: no check is passed over.
LEMMA GenInvariance == GenSpec => []GenInv
<1>1. GenInit => GenInv
  BY UntoldAssumption DEF GenInit, EdamInit, GenInv, Proceeded, Waiting
<1>2. GenInv /\ [GenNext]_genVars => GenInv'
  <2> SUFFICES ASSUME GenInv, [GenNext]_genVars PROVE GenInv'
    OBVIOUS
  <2>1. ASSUME refused = Untold, UNCHANGED edamVars, refused' # "no" PROVE GenInv'
    BY <2>1, UntoldAssumption DEF GenInv, Proceeded, Waiting, edamVars
  <2>2. ASSUME NEW reason \in {"language", "kinds", "other core", "module", "interface", "alike"},
               NEW holds, Refuses(reason, holds)
        PROVE  GenInv'
    BY <2>1, <2>2 DEF Refuses
  <2>3. CASE Proceeds
    <3>1. problem' = problem /\ refused' = "no"
      BY <2>3 DEF Proceeds, edamVars
    <3>2. QED
      BY <2>3, <3>1, SameProblem DEF Proceeds, GenInv, Proceeded, Waiting
  <2>4. ASSUME problem' = problem, UNCHANGED <<refused, tags>>, refused = "no" \/ UNCHANGED edamVars
        PROVE  GenInv'
    <3>1. Proceeded'
      BY <2>4, SameProblem DEF GenInv, Proceeded
    <3>2. Waiting'
      BY <2>4 DEF GenInv, Waiting, edamVars
    <3>3. QED
      BY <2>4, <3>1, <3>2 DEF GenInv
  <2>5. CASE Assembles
    BY <2>4, <2>5 DEF Assembles, EdamNext, Enter, PassOver, Leave, OrderFound, FilesListed
  <2>6. CASE UNCHANGED genVars
    BY <2>4, <2>6 DEF genVars, edamVars
  <2>7. QED
    BY <2>2, <2>3, <2>5, <2>6 DEF GenNext
<1>3. QED
  BY <1>1, <1>2, PTL DEF GenSpec

\* With a design in hand gen has refused nothing.
LEMMA FinishedProceeded ==
    ASSUME GenInv, Finished
    PROVE  refused = "no"
BY NothingListed DEF GenInv, Waiting, Finished

-----------------------------------------------------------------------------
(* Gen: the design.                                                        *)

\* The assembling of the design within gen takes the steps of Edam, and no step of
\* gen but these touches Edam's state.
LEMMA GenAssembles == GenSpec => EdamSpec
<1>1. GenInit => EdamInit
  BY DEF GenInit
<1>2. [GenNext]_genVars => [EdamNext]_edamVars
  BY DEF GenNext, Refuses, Proceeds, Assembles, genVars
<1>3. QED
  BY <1>1, <1>2, PTL DEF GenSpec, EdamSpec

\* The files gen hands to the tool come in an order that compiles: what a core refers
\* to, in all its versions, and what a fileset depends on comes first, but on a cycle;
\* nothing comes twice and no dependency is left out (_topological_order,
\* _expand_fileset_names and build_eda_design, backends/edam.py).
THEOREM FilesAreInOrder == GenSpec => []DependenciesFirst
<1>1. EdamInv => DependenciesFirst
  BY InOrder
<1>2. QED
  BY <1>1, EdamInvariance, GenAssembles, PTL

-----------------------------------------------------------------------------
(* Gen: units apart.                                                       *)

\* Where a name is declared is a place that is rewritten.
LEMMA DeclarationsAreRewritten ==
    ASSUME NEW file, NEW sort, NEW p, DeclaresAt(file, sort, p)
    PROVE  Position(file.lang, file.text, p, sort)
BY DEF DeclaresAt, Position, SvPackagePosition, SvModulePosition, SvInterfacePosition,
       VhdlPackagePosition, VhdlEntityPosition

\* A unit that two versions declare collides.
LEMMA TwoCollide ==
    ASSUME problem \in Problems, NEW i \in DOMAIN GenCores, NEW j \in DOMAIN GenCores, i # j,
           GenCores[i].ref = GenCores[j].ref, NEW sort \in Kinds,
           NEW n \in DeclaredIn(i, sort) \cap DeclaredIn(j, sort)
    PROVE  [name |-> n, ref |-> GenCores[i].ref, kind |-> sort] \in Colliding
<1> DEFINE ref == GenCores[i].ref
           both == {k \in Group(ref) : n \in DeclaredIn(k, sort)}
<1>1. Group(ref) \in SUBSET DOMAIN GenCores /\ both \in SUBSET Group(ref)
  BY DEF Group
<1>2. IsFiniteSet(Group(ref)) /\ IsFiniteSet(both)
  BY <1>1, CoresAre, FS_Subset
<1>3. i \in Group(ref) /\ j \in Group(ref) /\ i \in both /\ j \in both
  BY DEF Group
<1>4. Cardinality(Group(ref)) > 1 /\ Cardinality(both) > 1
  <2> HIDE DEF both
  <2> QED
    BY <1>2, <1>3, TwoOf
<1>5. ref \in Conflicted
  BY <1>4 DEF Conflicted
<1> DEFINE names == UNION {DeclaredIn(h, k) : h \in DOMAIN GenCores, k \in Kinds}
<1>6. n \in names
  OBVIOUS
<1>7. PICK c : c = [name |-> n, ref |-> ref, kind |-> sort]
  OBVIOUS
<1>8. c \in [name : names, ref : Conflicted, kind : Kinds]
  BY <1>5, <1>6, <1>7
<1>9. Cardinality({h \in Group(c.ref) : c.name \in DeclaredIn(h, c.kind)}) > 1
  BY <1>4, <1>7
<1>10. QED
  <2>1. c \in Colliding
    BY <1>8, <1>9 DEF Colliding
  <2>2. QED
    BY <1>7, <2>1

\* With two versions of a package among the dependencies gen mangles.
LEMMA TwoVersions ==
    ASSUME problem \in Problems, NEW i \in Deps, NEW j \in Deps, i # j,
           GenCores[i].ref = GenCores[j].ref
    PROVE  Multiversion
<1> DEFINE f == [k \in Deps |-> GenCores[k].ref]
<1>1. /\ Len(GenCores) = Len(problem.deps) + 1 /\ Len(problem.deps) \in Nat
      /\ Deps = 2..Len(GenCores)
  BY CoresAre DEF Deps
<1>2. /\ IsFiniteSet(Deps) /\ Cardinality(Deps) = Len(problem.deps)
  <2>1. PICK N \in Nat : N = Len(GenCores)
    BY <1>1
  <2>2. IsFiniteSet(2..N) /\ Cardinality(2..N) = IF 2 > N THEN 0 ELSE N - 2 + 1
    <3>1. PICK two \in Int : two = 2
      OBVIOUS
    <3>2. N \in Int
      OBVIOUS
    <3>3. IsFiniteSet(two..N) /\ Cardinality(two..N) = IF two > N THEN 0 ELSE N - two + 1
      BY <3>2, FS_Interval
    <3>4. QED
      BY <3>1, <3>3
  <2>3. QED
    BY <1>1, <2>1, <2>2
<1>3. Cardinality({f[k] : k \in DOMAIN f}) < Cardinality(DOMAIN f)
  <2>1. IsFiniteSet(DOMAIN f) /\ i \in DOMAIN f /\ j \in DOMAIN f /\ f[i] = f[j]
    BY <1>2
  <2> HIDE DEF f
  <2> QED
    BY <2>1, FewerValues
<1>4. {f[k] : k \in DOMAIN f} = {GenCores[k].ref : k \in Deps}
  OBVIOUS
<1>5. QED
  BY <1>2, <1>3, <1>4 DEF Multiversion

\* A version that declares a unit declares it under its own tag.
LEMMA OwnTag ==
    ASSUME GenInv, refused = "no", Multiversion,
           NEW i \in DOMAIN GenCores, NEW sort \in Kinds, NEW x \in FinalNames(i, sort),
           NEW c \in Colliding, c = [name |-> x[1], ref |-> GenCores[i].ref, kind |-> sort]
    PROVE  /\ x[1] \in DeclaredIn(i, sort)
           /\ Rename(i, c) = problem.tag[GenCores[i].ver]
           /\ x[2] = Rename(i, c)
<1>1. PICK f \in DOMAIN Sets(i) : \E p \in DOMAIN Sets(i)[f].text :
            DeclaresAt(Sets(i)[f], sort, p) /\ x = <<Sets(i)[f].text[p], tags[i][f][p]>>
  BY DEF FinalNames
<1>2. PICK p \in DOMAIN Sets(i)[f].text :
            DeclaresAt(Sets(i)[f], sort, p) /\ x = <<Sets(i)[f].text[p], tags[i][f][p]>>
  BY <1>1
<1>3. x[1] \in Declared(Sets(i)[f], sort) /\ x[1] = Sets(i)[f].text[p]
  BY <1>2 DEF Declared
<1>4. x[1] \in DeclaredIn(i, sort)
  BY <1>3 DEF DeclaredIn
<1>5. Rename(i, c) = problem.tag[GenCores[i].ver]
  BY <1>4 DEF Rename, DeclaresSome
<1>6. tags[i][f] = Rewritten(i, f)
  BY DEF GenInv, Proceeded, Final
<1> DEFINE hits == {d \in Colliding :
                /\ d.name = Sets(i)[f].text[p]
                /\ Position(Sets(i)[f].lang, Sets(i)[f].text, p, d.kind)}
<1>7. c \in hits
  BY <1>2, <1>3, DeclarationsAreRewritten
<1>8. \A d \in hits : d = c
  BY <1>7 DEF GenInv, Proceeded, MayMangle, CollidesTwice
<1>9. tags[i][f][p] = Rename(i, c)
  <2>1. Rewritten(i, f)[p] = Rename(i, CHOOSE d \in hits : TRUE)
    BY <1>2, <1>7 DEF Rewritten
  <2>2. (CHOOSE d \in hits : TRUE) = c
    BY <1>7, <1>8
  <2>3. QED
    BY <1>6, <2>1, <2>2
<1>10. QED
  BY <1>2, <1>4, <1>5, <1>9

\* gen tells versions apart: of two that declare a unit of one name and kind each
\* declares it under a name of its own in the end, or gen has refused
\* (plan_package_mangling), unless a consumer of a version without the unit counts.
THEOREM VersionsAreApart == GenSpec => []UnitsApart
<1>1. ASSUME GenInv, refused = "no", NEW i \in Deps, NEW j \in Deps,
             NEW sort \in Kinds, i # j, GenCores[i].ref = GenCores[j].ref,
             NEW x \in FinalNames(i, sort) \cap FinalNames(j, sort),
             NEW c, c = [name |-> x[1], ref |-> GenCores[i].ref, kind |-> sort],
             \A k \in DOMAIN GenCores : Rename(k, c) # 0 => MeansAVersion(k, c)
      PROVE  FALSE
  <2>1. /\ problem \in Problems /\ i \in DOMAIN GenCores /\ j \in DOMAIN GenCores
        /\ IsFiniteSet(DOMAIN GenCores)
    <3>1. problem \in Problems
      BY <1>1 DEF GenInv
    <3>2. /\ Len(GenCores) \in Nat /\ DOMAIN GenCores = 1..Len(GenCores) /\ IsFiniteSet(DOMAIN GenCores)
          /\ Deps = 2..Len(GenCores)
      <4>1. Len(problem.deps) \in Nat /\ Len(GenCores) = Len(problem.deps) + 1
        BY <3>1, CoresAre
      <4>2. QED
        BY <3>1, <4>1, CoresAre DEF Deps
    <3>3. i \in 1..Len(GenCores) /\ j \in 1..Len(GenCores)
      BY <3>2
    <3>4. QED
      BY <3>1, <3>2, <3>3
  <2>2. Multiversion /\ ~MangledAlike
    BY <1>1, <2>1, TwoVersions DEF GenInv, Proceeded, MayMangle
  <2>3. c \in Colliding
    <3>1. ASSUME NEW k \in DOMAIN GenCores, x \in FinalNames(k, sort)
          PROVE  x[1] \in DeclaredIn(k, sort)
      BY <3>1 DEF FinalNames, DeclaredIn, Declared
    <3>2. x[1] \in DeclaredIn(i, sort) \cap DeclaredIn(j, sort)
      BY <2>1, <3>1
    <3>3. QED
      BY <1>1, <2>1, <3>2, TwoCollide
  <2>4. /\ x[1] \in DeclaredIn(i, sort) /\ x[1] \in DeclaredIn(j, sort)
        /\ problem.tag[GenCores[i].ver] = problem.tag[GenCores[j].ver]
    BY <1>1, <2>1, <2>2, <2>3, OwnTag
  <2> DEFINE declare == {k \in Group(c.ref) : DeclaresSome(k, c)}
             g == [k \in declare |-> problem.tag[GenCores[k].ver]]
             values == {g[k] : k \in DOMAIN g}
             taken == {Rename(k, c) : k \in DOMAIN GenCores} \ {0}
  <2>5. IsFiniteSet(declare) /\ i \in declare /\ j \in declare
    <3>1. declare \in SUBSET DOMAIN GenCores
      BY DEF Group
    <3>2. i \in declare /\ j \in declare
      BY <1>1, <2>1, <2>4 DEF Group, DeclaresSome
    <3>3. QED
      BY <2>1, <3>1, <3>2, FS_Subset
  <2>6. IsFiniteSet(values) /\ Cardinality(values) < Cardinality(declare)
    <3>1. DOMAIN g = declare /\ g[i] = g[j]
      BY <2>4, <2>5
    <3> HIDE DEF g, declare
    <3> QED
      BY <1>1, <2>5, <3>1, FewerValues
  <2>7. taken \in SUBSET values
    <3>1. SUFFICES ASSUME NEW k \in DOMAIN GenCores, Rename(k, c) # 0
                   PROVE  \E m \in declare : Rename(k, c) = problem.tag[GenCores[m].ver]
      OBVIOUS
    <3>2. CASE GenCores[k].ref = c.ref /\ DeclaresSome(k, c)
      BY <3>2 DEF Rename, Group
    <3>3. CASE ~(GenCores[k].ref = c.ref /\ DeclaresSome(k, c))
      <4>1. PICK m \in Group(c.ref) : GenCores[m].ver = ResolvedVersion(k, c.ref) /\ DeclaresSome(m, c)
        BY <1>1, <3>1, <3>3 DEF MeansAVersion
      <4>2. Rename(k, c) = problem.tag[ResolvedVersion(k, c.ref)]
        BY <3>1, <3>3 DEF Rename
      <4>3. QED
        BY <4>1, <4>2
    <3>4. QED
      BY <3>2, <3>3
  <2>8. Cardinality(taken) < Cardinality(declare)
    <3>1. /\ Cardinality(taken) <= Cardinality(values) /\ Cardinality(taken) \in Nat
          /\ Cardinality(values) \in Nat /\ Cardinality(declare) \in Nat
      <4> HIDE DEF taken, values, declare
      <4> QED
        BY <2>5, <2>6, <2>7, FS_Subset, FS_CardinalityType
    <3>2. QED
      BY <2>6, <3>1
  <2>9. QED
    BY <2>2, <2>3, <2>8 DEF MangledAlike
<1>2. GenInv => UnitsApart
  BY <1>1, FinishedProceeded DEF UnitsApart
<1>3. QED
  BY <1>2, GenInvariance, PTL

-----------------------------------------------------------------------------
(* Gen: references follow.                                                 *)

\* A name that coexists is declared by two versions of the package.
LEMMA CollidingIsDeclared ==
    ASSUME problem \in Problems, NEW c \in Colliding
    PROVE  /\ c.kind \in Kinds
           /\ \E i, j \in Group(c.ref) :
                i # j /\ c.name \in DeclaredIn(i, c.kind) \cap DeclaredIn(j, c.kind)
           /\ IsIdent(c.name)
<1> DEFINE declare == {i \in Group(c.ref) : c.name \in DeclaredIn(i, c.kind)}
<1>1. c.kind \in Kinds /\ Cardinality(declare) > 1
  BY DEF Colliding
<1>2. IsFiniteSet(declare)
  <2>1. declare \in SUBSET DOMAIN GenCores
    BY DEF Group
  <2>2. QED
    BY <2>1, CoresAre, FS_Subset
<1>3. PICK i, j \in declare : i # j
  <2> HIDE DEF declare
  <2> QED
    BY <1>1, <1>2, TwoIn
<1>4. IsIdent(c.name)
  <2>1. PICK f \in DOMAIN Sets(i) : c.name \in Declared(Sets(i)[f], c.kind)
    BY <1>3 DEF DeclaredIn
  <2>2. QED
    BY <2>1 DEF Declared, DeclaresAt
<1>5. QED
  BY <1>1, <1>3, <1>4

\* What the texts are supposed to be, at a place of a name that coexists.
LEMMA SeenThere ==
    ASSUME problem \in Problems, TextsAreSeen(problem), NEW c \in Colliding,
           NEW i \in DOMAIN GenCores, NEW f \in DOMAIN Sets(i),
           NEW p \in DOMAIN Sets(i)[f].text, Sets(i)[f].text[p] = c.name
    PROVE  LET file == Sets(i)[f]
               s == file.text
           IN  IF p \in DOMAIN file.live
               THEN file.live[p] = c.kind =>
                        \/ Position(file.lang, s, p, c.kind)
                        \/ Overlooked(file, p, c.kind)
                        \/ file.lang = "sv" /\ Doubtful(s, p, c.kind)
               ELSE Position(file.lang, s, p, c.kind) => Mistaken(s, p)
<1> DEFINE declared(k, sort) == UNION {Declared(g, sort) : g \in ToSet(GenCores[k].sets)}
<1>1. \A k, sort : declared(k, sort) = DeclaredIn(k, sort)
  BY DEF DeclaredIn, Sets, ToSet
<1>2. PICK j, k \in DOMAIN GenCores :
        /\ j # k /\ GenCores[j].ref = GenCores[k].ref
        /\ c.name \in declared(j, c.kind) \cap declared(k, c.kind)
  BY <1>1, CollidingIsDeclared DEF Group
<1>3. c.kind \in Kinds /\ Sets(i)[f] \in ToSet(GenCores[i].sets)
  BY CollidingIsDeclared DEF Sets, ToSet
<1>4. QED
  BY <1>2, <1>3 DEF TextsAreSeen, GenCores

\* A place is rewritten to what the one name that coexists becomes in the core.
LEMMA TagThere ==
    ASSUME GenInv, refused = "no", Multiversion, NEW c \in Colliding,
           NEW i \in DOMAIN GenCores, NEW f \in DOMAIN Sets(i),
           NEW p \in DOMAIN Sets(i)[f].text, Sets(i)[f].text[p] = c.name
    PROVE  tags[i][f][p] = IF Position(Sets(i)[f].lang, Sets(i)[f].text, p, c.kind)
                           THEN Rename(i, c) ELSE 0
<1> DEFINE hits == {d \in Colliding :
                /\ d.name = Sets(i)[f].text[p]
                /\ Position(Sets(i)[f].lang, Sets(i)[f].text, p, d.kind)}
<1>1. tags[i][f] = Rewritten(i, f)
  BY DEF GenInv, Proceeded, Final
<1>2. Rewritten(i, f)[p] = IF hits = {} THEN 0 ELSE Rename(i, CHOOSE d \in hits : TRUE)
  BY DEF Rewritten
<1>3. \A d \in hits : d = c
  BY DEF GenInv, Proceeded, MayMangle, CollidesTwice
<1>4. CASE Position(Sets(i)[f].lang, Sets(i)[f].text, p, c.kind)
  <2>1. c \in hits
    BY <1>4
  <2>2. (CHOOSE d \in hits : TRUE) = c
    BY <1>3, <2>1
  <2>3. QED
    BY <1>1, <1>2, <1>4, <2>1, <2>2
<1>5. CASE ~Position(Sets(i)[f].lang, Sets(i)[f].text, p, c.kind)
  <2>1. hits = {}
    BY <1>3, <1>5
  <2>2. QED
    BY <1>1, <1>2, <1>5, <2>1
<1>6. QED
  BY <1>4, <1>5

\* A version is a number, not 0.
LEMMA VersionsAreNumbers ==
    ASSUME problem \in Problems
    PROVE  \A j \in DOMAIN GenCores : GenCores[j].ver \in Nat \ {0}
BY CoresAre, ProblemsAssumption

\* The version a core resolved to is the newest that it admits, where it admits one.
LEMMA ResolvedIsAdmitted ==
    ASSUME problem \in Problems, NEW i, NEW ref, ResolvedVersion(i, ref) # 0,
           NEW m \in Group(ref), GenCores[m].ver = ResolvedVersion(i, ref)
    PROVE  \/ Admits(i, ref, GenCores[m].ver)
           \/ \A k \in Group(ref) : ~Admits(i, ref, GenCores[k].ver)
<1> DEFINE f == [j \in Group(ref) |-> GenCores[j].ver]
           present == {GenCores[j].ver : j \in Group(ref)}
           matching == {v \in present : Admits(i, ref, v)}
           newest(S) == CHOOSE v \in S : \A w \in S : w <= v
<1>1. IsFiniteSet(present) /\ present \in SUBSET Nat
  <2>1. Group(ref) \in SUBSET DOMAIN GenCores
    BY DEF Group
  <2>2. IsFiniteSet(DOMAIN f)
    BY <2>1, CoresAre, FS_Subset
  <2>3. IsFiniteSet({f[x] : x \in DOMAIN f})
    <3> HIDE DEF f
    <3> QED
      BY <2>2, FiniteValues
  <2>4. {f[x] : x \in DOMAIN f} = present
    OBVIOUS
  <2>5. QED
    BY <2>1, <2>3, <2>4, VersionsAreNumbers
<1>2. ResolvedVersion(i, ref) = newest(IF matching = {} THEN present ELSE matching)
  BY DEF ResolvedVersion
<1>3. ASSUME matching # {} PROVE newest(matching) \in matching
  <2>1. matching \in SUBSET Nat /\ IsFiniteSet(matching)
    BY <1>1, FS_Subset
  <2>2. \E v \in matching : \A w \in matching : w <= v
    <3> HIDE DEF matching
    <3> QED
      BY <1>3, <2>1, GreatestOf
  <2>3. QED
    BY <2>2
<1>4. CASE matching # {}
  BY <1>2, <1>3, <1>4
<1>5. CASE matching = {}
  BY <1>5
<1>6. QED
  BY <1>4, <1>5

\* gen never rewrites a part of the references only: where the scans of mangle.py see
\* in the texts what the language reads, a name that coexists follows in every core a
\* version that the core's own constraints admit, and nothing else is renamed.
THEOREM ReferencesAreRenamed ==
    ASSUME \A p \in Problems : TextsAreSeen(p)
    PROVE  GenSpec => []ReferencesFollow
<1> DEFINE follows(c, i, j, tag) ==
        /\ DeclaresSome(j, c)
        /\ tag = problem.tag[GenCores[j].ver]
        /\ \/ j = i
           \/ Admits(i, c.ref, GenCores[j].ver)
           \/ \A k \in Group(c.ref) : ~Admits(i, c.ref, GenCores[k].ver)
<1>1. ASSUME GenInv, NEW c \in Colliding, NEW i \in DOMAIN GenCores, MeansAVersion(i, c)
      PROVE  \E j \in Group(c.ref) : follows(c, i, j, Rename(i, c))
  <2>1. CASE GenCores[i].ref = c.ref /\ DeclaresSome(i, c)
    <3>1. i \in Group(c.ref) /\ Rename(i, c) = problem.tag[GenCores[i].ver]
      BY <2>1 DEF Group, Rename
    <3>2. QED
      BY <2>1, <3>1
  <2>2. CASE ~(GenCores[i].ref = c.ref /\ DeclaresSome(i, c))
    <3>1. PICK m \in Group(c.ref) : GenCores[m].ver = ResolvedVersion(i, c.ref) /\ DeclaresSome(m, c)
      BY <1>1, <2>2 DEF MeansAVersion
    <3>2. problem \in Problems /\ GenCores[m].ver # 0
      BY <1>1, VersionsAreNumbers DEF GenInv, Group
    <3>3. Rename(i, c) = problem.tag[GenCores[m].ver]
      BY <2>2, <3>1, <3>2 DEF Rename
    <3>4. \/ Admits(i, c.ref, GenCores[m].ver)
          \/ \A k \in Group(c.ref) : ~Admits(i, c.ref, GenCores[k].ver)
      <4>1. ResolvedVersion(i, c.ref) # 0
        BY <3>1, <3>2
      <4>2. QED
        BY <3>1, <3>2, <4>1, ResolvedIsAdmitted
    <3>5. QED
      BY <3>1, <3>3, <3>4
  <2>3. QED
    BY <2>1, <2>2
<1>2. ASSUME GenInv, refused = "no", Multiversion, NEW c \in Colliding,
             NEW i \in DOMAIN GenCores, NEW f \in DOMAIN Sets(i),
             NEW p \in DOMAIN Sets(i)[f].text, Sets(i)[f].text[p] = c.name
      PROVE  IF p \in DOMAIN Sets(i)[f].live
             THEN (/\ Sets(i)[f].live[p] = c.kind
                   /\ MeansAVersion(i, c)
                   /\ ~Overlooked(Sets(i)[f], p, c.kind)) =>
                    \E j \in Group(c.ref) : follows(c, i, j, tags[i][f][p])
             ELSE tags[i][f][p] = 0 \/ Mistaken(Sets(i)[f].text, p)
  <2> DEFINE file == Sets(i)[f]
             place == Position(file.lang, file.text, p, c.kind)
  <2>1. problem \in Problems /\ TextsAreSeen(problem)
    BY <1>2 DEF GenInv
  <2>2. tags[i][f][p] = IF place THEN Rename(i, c) ELSE 0
    BY <1>2, TagThere
  <2>3. ASSUME file.lang = "sv" PROVE ~Doubtful(file.text, p, c.kind)
    <3>1. <<i, f, p>> \in Occurrences(c.kind)
      BY <1>2, <2>1, <2>3, CollidingIsDeclared DEF Occurrences
    <3>2. ~Unclassifiable("module") /\ ~Unclassifiable("interface")
      BY <1>2 DEF GenInv, Proceeded, MayMangle
    <3>3. Doubtful(file.text, p, c.kind) => Unclassifiable(c.kind) /\ c.kind \in {"module", "interface"}
      BY <3>1 DEF Unclassifiable, Doubtful
    <3>4. QED
      BY <3>2, <3>3
  <2>4. CASE p \in DOMAIN file.live
    <3>1. SUFFICES ASSUME file.live[p] = c.kind, MeansAVersion(i, c), ~Overlooked(file, p, c.kind)
                   PROVE  \E j \in Group(c.ref) : follows(c, i, j, tags[i][f][p])
      BY <2>4
    <3>2. place
      BY <1>2, <2>1, <2>3, <2>4, <3>1, SeenThere
    <3>3. tags[i][f][p] = Rename(i, c)
      BY <2>2, <3>2
    <3>4. \E j \in Group(c.ref) : follows(c, i, j, Rename(i, c))
      BY <1>1, <1>2, <3>1
    <3>5. QED
      BY <3>3, <3>4
  <2>5. CASE p \notin DOMAIN file.live
    <3>1. place => Mistaken(file.text, p)
      BY <1>2, <2>1, <2>5, SeenThere
    <3>2. QED
      BY <2>2, <2>5, <3>1
  <2>6. QED
    BY <2>4, <2>5
<1>3. GenInv => ReferencesFollow
  BY <1>2, FinishedProceeded DEF ReferencesFollow
<1>4. QED
  BY <1>3, GenInvariance, PTL
=============================================================================
