--------------------------- MODULE BackendsProofs ---------------------------
(***************************************************************************)
(* What a lock entry says of a core belongs together, for any number of    *)
(* commands, commits, tags, remotes and search paths.                      *)
(*                                                                         *)
(* SourceNamesBytes speaks of the lock only.  The invariant follows an     *)
(* entry through the command that makes it: the backends of a command      *)
(* whose tree has not moved all noted the commit that is in the tree       *)
(* (BackendsOK), the answers it remembers are theirs (MemoOK), and so the  *)
(* owner of the selected version is the same when it is asked again        *)
(* (EntryOK).                                                              *)
(***************************************************************************)
EXTENDS Backends, SequenceTheorems, WellFoundedInduction, TLAPS

Locs == Remotes \cup [kind : {"git"}, ref : Tags \cup {Tip} \cup Commits]
BackendSet == [aim : Commits \cup {None}, commit : Commits \cup {None}, vers : SUBSET Int]
Early == {"build", "clone", "checkout", "failed"}
Pcs == Early \cup {"idle", "note", "scan", "sum", "fetch", "mismatch"}

IsEntry(e) == e = [ver |-> e.ver, src |-> e.src, sum |-> e.sum, locked |-> e.locked]

Shape ==
    /\ tip \in Commits
    /\ known \subseteq Commits
    /\ {tracked, tree} \subseteq Commits \cup {None}
    /\ pc \in [Commands -> Pcs]
    /\ path \in [Commands -> Seq(Locs)]
    /\ built \in [Commands -> Seq(BackendSet)]
    /\ \A c \in Commands : Len(built[c]) <= Len(path[c])
    /\ memo = [c \in Commands |-> memo[c]]
    /\ entry = [c \in Commands |-> entry[c]]
    /\ \A c \in Commands : IsEntry(entry[c])
    /\ moved \subseteq Commands

\* The tree is still what the command's backends took it for.
Holds(c) == c \notin moved /\ pc[c] # "failed"

Noted(c, i) == i < Len(built[c]) \/ pc[c] # "note"
Scanned(c, i) == i < Len(built[c]) \/ pc[c] \notin {"note", "scan"}

BackendsOK(c) ==
    \A i \in DOMAIN built[c] :
        /\ IsGit(path[c][i]) <=> built[c][i].aim # None
        /\ IsGit(path[c][i]) =>
            /\ path[c][i].ref \in Commits => built[c][i].aim = path[c][i].ref
            /\ Noted(c, i) => built[c][i].commit \in Commits
            /\ Holds(c) =>
                /\ tree = built[c][i].aim
                /\ Noted(c, i) => built[c][i].commit = built[c][i].aim
                /\ Scanned(c, i) => built[c][i].vers = {Core[built[c][i].aim].ver}

\* The next location is a git one.
Pending(c) == Nth(c) <= Len(path[c]) /\ IsGit(Loc(c))

PlaceOK(c) ==
    /\ pc[c] \in {"clone", "checkout"} => Pending(c)
    /\ pc[c] \in {"note", "scan"} =>
        Len(built[c]) > 0 /\ IsGit(path[c][Len(built[c])])

MemoOK(c) ==
    /\ pc[c] = "idle" => built[c] = <<>> /\ memo[c] = <<>> /\ entry[c] = Blank
    /\ IF memo[c] = <<>>
       THEN pc[c] \notin {"sum", "fetch"}
       ELSE /\ pc[c] \in {"sum", "fetch", "mismatch"}
            /\ Len(built[c]) = Len(path[c])
            /\ DOMAIN memo[c] = DOMAIN path[c]
            /\ \A i \in DOMAIN path[c] : IsGit(path[c][i]) => memo[c][i] = built[c][i].vers

EntryOK(c) ==
    /\ entry[c].locked =>
        /\ memo[c] = <<>>
        /\ path[c] = <<entry[c].src>>
        /\ IsGit(entry[c].src) => entry[c].src.ref \in Commits
    /\ memo[c] # <<>> =>
        /\ Owners(memo[c], entry[c].ver) # {}
        /\ entry[c].src = SourceOf(c, Owner(memo[c], entry[c].ver))
    /\ pc[c] = "fetch" /\ Holds(c) => Truthful(entry[c])
    /\ pc[c] = "mismatch" => c \in moved \/ (entry[c].locked /\ ~Truthful(entry[c]))

LockOK ==
    lock # None =>
        /\ IsEntry(lock)
        /\ lock.src \in Locs
        /\ IsGit(lock.src) => lock.src.ref \in Commits
        /\ tainted \/ Truthful(lock)

CmdOK(c) == BackendsOK(c) /\ PlaceOK(c) /\ MemoOK(c) /\ EntryOK(c)

IInv ==
    /\ Shape
    /\ \A c \in Commands : CmdOK(c)
    /\ LockOK

-----------------------------------------------------------------------------
(* Facts about one state.                                                  *)

LEMMA PushedAreCommits == Shape => Pushed \subseteq Commits
BY CommitsAssumption, TagsAssumption DEF Shape, Pushed

LEMMA TargetIsCommit ==
    ASSUME Shape, NEW ref, Target(ref) # None
    PROVE  /\ Target(ref) \in Commits
           /\ ref \in Commits => Target(ref) = ref
BY TagsAssumption, RefsAssumption DEF Shape, Target

\* A non-empty set of naturals has a least element.
LEMMA LeastOf ==
    ASSUME NEW S \in SUBSET Nat, S # {}
    PROVE  \E i \in S : \A j \in S : i <= j
<1> DEFINE R == OpToRel(<, Nat)
<1>1. PICK i \in S : \A j \in S : ~(<<j, i>> \in R)
  <2> HIDE DEF R
  <2> QED
    BY NatLessThanWellFounded, WFMin DEF R
<1>2. \A j \in S : ~(j < i)
  BY <1>1 DEF OpToRel
<1>3. QED
  BY <1>2

\* The owner of a version is the first backend that listed it.
LEMMA OwnerIsFirst ==
    ASSUME NEW m, NEW v, NEW n \in Nat, DOMAIN m = 1..n, Owners(m, v) # {}
    PROVE  Owner(m, v) \in Owners(m, v) /\ \A j \in Owners(m, v) : Owner(m, v) <= j
<1> DEFINE S == Owners(m, v)
<1>1. S \in SUBSET Nat /\ S # {}
  BY DEF Owners
<1>2. \E i \in S : \A j \in S : i <= j
  <2> HIDE DEF S
  <2> QED
    BY <1>1, LeastOf
<1>3. QED
  BY <1>2 DEF Owner

LEMMA OwnerListed ==
    ASSUME NEW m, NEW v, NEW n \in Nat, DOMAIN m = 1..n, Owners(m, v) # {}
    PROVE  Owner(m, v) \in 1..n /\ v \in m[Owner(m, v)]
BY OwnerIsFirst DEF Owners

-----------------------------------------------------------------------------
(* Steps that leave a command, or all of it but its place, as it is.       *)

\* Another command, or this one on its way, keeps its invariant if what it has is
\* unchanged and the tree is not taken away without its being counted as moved.
LEMMA Frame ==
    ASSUME IInv, NEW d \in Commands,
           path'[d] = path[d], built'[d] = built[d], memo'[d] = memo[d], entry'[d] = entry[d],
           \/ pc'[d] = pc[d]
           \/ /\ pc[d] \in Early /\ pc'[d] \in Early
              /\ pc'[d] \in {"clone", "checkout"} => Pending(d),
           Holds(d)' => /\ Holds(d)
                        /\ \/ tree' = tree
                           \/ \A i \in DOMAIN built[d] : built[d][i].aim \in {None, tree'}
    PROVE  CmdOK(d)'
<1>1. BackendsOK(d)'
  BY DEF IInv, CmdOK, BackendsOK, Noted, Scanned, Early
<1>2. MemoOK(d)'
  BY DEF IInv, CmdOK, MemoOK, Early
<1>3. EntryOK(d)'
  BY DEF IInv, CmdOK, EntryOK, SourceOf, Holds, Early
<1>4. PlaceOK(d)'
  BY DEF IInv, CmdOK, PlaceOK, Pending, Nth, Loc, Early
<1>5. QED
  BY <1>1, <1>2, <1>3, <1>4 DEF CmdOK

LEMMA EndsClean ==
    ASSUME IInv, NEW c \in Commands, Ends(c), UNCHANGED <<tip, cloneVars>>
    PROVE  Shape' /\ \A d \in Commands : CmdOK(d)'
<1>1. Shape'
  <2>1. \A d \in Commands : IsEntry(entry'[d])
    BY DEF IInv, Shape, Ends, Blank, IsEntry
  <2>2. /\ path' \in [Commands -> Seq(Locs)]
        /\ built' \in [Commands -> Seq(BackendSet)]
        /\ \A d \in Commands : Len(built'[d]) <= Len(path'[d])
    BY DEF IInv, Shape, Ends
  <2>3. /\ pc' \in [Commands -> Pcs]
        /\ memo' = [d \in Commands |-> memo'[d]]
        /\ entry' = [d \in Commands |-> entry'[d]]
        /\ moved' \subseteq Commands
    BY DEF IInv, Shape, Ends, Goto, Pcs
  <2>4. QED
    BY <2>1, <2>2, <2>3 DEF IInv, Shape, cloneVars
<1>2. CmdOK(c)'
  BY DEF IInv, Shape, Ends, Goto, CmdOK, BackendsOK, PlaceOK, MemoOK, EntryOK, Blank
<1>3. ASSUME NEW d \in Commands, d # c PROVE CmdOK(d)'
  <2>1. /\ path'[d] = path[d] /\ built'[d] = built[d] /\ memo'[d] = memo[d]
        /\ entry'[d] = entry[d] /\ pc'[d] = pc[d] /\ tree' = tree
    BY <1>3 DEF IInv, Shape, Ends, Goto, cloneVars
  <2>2. Holds(d)' => Holds(d)
    BY <1>3, <2>1 DEF Ends, Holds
  <2>3. QED
    BY <2>1, <2>2, Frame
<1>4. QED
  BY <1>1, <1>2, <1>3

\* A step that changes only the clone and c's place.
LEMMA CloneStep ==
    ASSUME IInv, NEW c \in Commands,
           UNCHANGED <<tip, lock, cmdVars, tainted>>,
           tracked' \in Commits \cup {None}, tree' \in Commits \cup {None},
           known' \subseteq Commits,
           pc[c] \in Early \ {"failed"}, Pending(c),
           \/ pc' = [pc EXCEPT ![c] = "clone"] /\ tree' = tree /\ moved' = moved
           \/ pc' = [pc EXCEPT ![c] = "checkout"] /\ tree' = tree /\ moved' = moved
           \/ pc' = [pc EXCEPT ![c] = "checkout"] /\ moved' = moved \cup Loses(tree')
           \/ pc' = [pc EXCEPT ![c] = "failed"] /\ moved' = (moved \cup Loses(tree')) \ {c}
    PROVE  IInv'
<1>1. Shape'
  BY DEF IInv, Shape, cmdVars, Pcs, Early, Loses
<1>2. LockOK'
  BY DEF IInv, LockOK
<1>3. ASSUME NEW d \in Commands PROVE CmdOK(d)'
  <2>1. /\ path'[d] = path[d] /\ built'[d] = built[d] /\ memo'[d] = memo[d]
        /\ entry'[d] = entry[d]
        /\ pc'[d] = pc[d] \/ (d = c /\ pc[d] \in Early \ {"failed"} /\ pc'[d] \in Early)
    BY DEF IInv, Shape, cmdVars, Early
  <2>2. ASSUME Holds(d)'
        PROVE  /\ Holds(d)
               /\ \/ tree' = tree
                  \/ \A i \in DOMAIN built[d] : built[d][i].aim \in {None, tree'}
    BY <2>1, <2>2 DEF IInv, Shape, Holds, Loses
  <2>3. QED
    BY <2>1, <2>2, Frame
<1>4. QED
  BY <1>1, <1>2, <1>3 DEF IInv

\* The commands that c's step leaves alone.
LEMMA Others ==
    ASSUME IInv, NEW c \in Commands,
           \A d \in Commands \ {c} : /\ path'[d] = path[d] /\ built'[d] = built[d]
                                      /\ memo'[d] = memo[d] /\ entry'[d] = entry[d]
                                      /\ pc'[d] = pc[d],
           \/ tree' = tree /\ moved' = moved
           \/ tree' \in Commits /\ moved' = moved \cup Loses(tree'),
           CmdOK(c)'
    PROVE  \A d \in Commands : CmdOK(d)'
<1> SUFFICES ASSUME NEW d \in Commands, d # c PROVE CmdOK(d)'
  OBVIOUS
<1>1. ASSUME Holds(d)'
      PROVE  /\ Holds(d)
             /\ \/ tree' = tree
                \/ \A i \in DOMAIN built[d] : built[d][i].aim \in {None, tree'}
  BY <1>1 DEF Holds, Loses
<1>2. QED
  BY <1>1, Frame

-----------------------------------------------------------------------------
(* Building the backends.                                                  *)

\* A command starts, on a search path or on the source of the lock's entry.
LEMMA StartStep ==
    ASSUME IInv, NEW c \in Commands, StartResolve(c) \/ StartLocked(c)
    PROVE  IInv'
<1>1. /\ pc[c] = "idle" /\ pc' = [pc EXCEPT ![c] = "build"]
      /\ UNCHANGED <<tip, cloneVars, lock, built, memo, warned, moved, tainted>>
      /\ built[c] = <<>> /\ memo[c] = <<>> /\ entry[c] = Blank
  BY DEF StartResolve, StartLocked, Goto, IInv, CmdOK, MemoOK
<1>2. PICK p \in Seq(Locs) :
        /\ path' = [path EXCEPT ![c] = p]
        /\ \/ entry' = entry
           \/ /\ lock # None
              /\ p = <<lock.src>>
              /\ entry' = [entry EXCEPT ![c] = [lock EXCEPT !.locked = TRUE]]
  <2>1. CASE StartResolve(c)
    BY <2>1, PathsAssumption DEF StartResolve, Locs
  <2>2. CASE StartLocked(c)
    <3>1. <<lock.src>> \in Seq(Locs)
      BY <2>2 DEF StartLocked, IInv, LockOK
    <3>2. QED
      BY <2>2, <3>1 DEF StartLocked
  <2>3. QED
    BY <2>1, <2>2
<1>3. entry'[c] = Blank \/ (/\ lock # None
                            /\ p = <<lock.src>>
                            /\ entry'[c] = [lock EXCEPT !.locked = TRUE])
  BY <1>1, <1>2 DEF IInv, Shape
<1>4. Shape'
  <2>1. IsEntry(entry'[c])
    BY <1>3 DEF IInv, LockOK, IsEntry, Blank
  <2>2. \A d \in Commands : Len(built'[d]) <= Len(path'[d])
    BY <1>1, <1>2 DEF IInv, Shape
  <2>3. QED
    BY <1>1, <1>2, <2>1, <2>2 DEF IInv, Shape, cloneVars, Pcs, Early
<1>5. CmdOK(c)'
  <2>1. pc'[c] = "build" /\ built'[c] = <<>> /\ memo'[c] = <<>> /\ path'[c] = p
    BY <1>1, <1>2 DEF IInv, Shape
  <2>2. entry'[c].locked => /\ p = <<entry'[c].src>>
                            /\ IsGit(entry'[c].src) => entry'[c].src.ref \in Commits
    BY <1>3 DEF IInv, LockOK, Blank, IsEntry
  <2>3. QED
    BY <2>1, <2>2 DEF CmdOK, BackendsOK, PlaceOK, MemoOK, EntryOK
<1>6. \A d \in Commands : CmdOK(d)'
  BY <1>1, <1>2, <1>5, Others DEF IInv, Shape, cloneVars
<1>7. LockOK'
  BY <1>1 DEF IInv, LockOK
<1>8. QED
  BY <1>4, <1>6, <1>7 DEF IInv

\* A backend is added, remote or with the commit that is checked out for it.
LEMMA AppendStep ==
    ASSUME IInv, NEW c \in Commands, BuildRemote(c) \/ Checkout(c)
    PROVE  IInv'
<1> DEFINE n == Len(built[c])
<1>1. /\ n \in Nat /\ built[c] \in Seq(BackendSet) /\ path[c] \in Seq(Locs)
      /\ UNCHANGED <<tip, clone, known, tracked, lock, path, memo, entry, tainted>>
  BY DEF IInv, Shape, BuildRemote, Checkout, cloneVars
<1>2. PICK k \in Commits \cup {None} :
        /\ built' = [built EXCEPT ![c] = Append(@, Backend(k))]
        /\ k = None => /\ BuildRemote(c)
                       /\ tree' = tree /\ moved' = moved /\ pc' = pc /\ pc[c] = "build"
        /\ k # None => /\ Checkout(c) /\ k = Target(Loc(c).ref)
                       /\ tree' = k /\ moved' = moved \cup Loses(k)
                       /\ pc' = [pc EXCEPT ![c] = "note"] /\ pc[c] = "checkout"
  <2>1. CASE BuildRemote(c)
    BY <2>1 DEF BuildRemote, Building, cloneVars
  <2>2. CASE Checkout(c)
    BY <2>2, TargetIsCommit, RefsAssumption DEF Checkout, Goto, IInv
  <2>3. QED
    BY <2>1, <2>2
<1>3. /\ n + 1 <= Len(path[c])
      /\ IsGit(path[c][n + 1]) <=> k # None
      /\ memo[c] = <<>>
  <2>1. memo[c] = <<>>
    BY <1>2 DEF IInv, CmdOK, MemoOK
  <2>2. CASE k = None
    BY <1>2, <2>1, <2>2 DEF BuildRemote, Building, Nth, Loc
  <2>3. CASE k # None
    BY <1>2, <2>1, <2>3 DEF IInv, CmdOK, PlaceOK, Pending, Nth, Loc
  <2>4. QED
    BY <2>2, <2>3
<1>4. /\ built'[c] = Append(built[c], Backend(k))
      /\ built'[c] \in Seq(BackendSet)
      /\ Len(built'[c]) = n + 1
      /\ built'[c][n + 1] = Backend(k)
      /\ \A i \in 1..n : built'[c][i] = built[c][i]
  <2>1. built'[c] = Append(built[c], Backend(k))
    BY <1>2 DEF IInv, Shape
  <2>2. Backend(k) \in BackendSet
    BY DEF Backend, BackendSet
  <2>3. QED
    BY <1>1, <2>1, <2>2
<1>5. Shape'
  <2>1. \A d \in Commands : Len(built'[d]) <= Len(path'[d])
    BY <1>1, <1>2, <1>3, <1>4 DEF IInv, Shape
  <2>2. built' \in [Commands -> Seq(BackendSet)]
    BY <1>2, <1>4 DEF IInv, Shape
  <2>3. pc' \in [Commands -> Pcs] /\ moved' \subseteq Commands /\ tree' \in Commits \cup {None}
    BY <1>2 DEF IInv, Shape, Pcs, Loses
  <2>4. QED
    BY <1>1, <2>1, <2>2, <2>3 DEF IInv, Shape
<1>6. BackendsOK(c)'
  <2>1. k = None => (Holds(c)' <=> Holds(c)) /\ pc'[c] = "build" /\ tree' = tree
    BY <1>2 DEF Holds, IInv, Shape
  <2>2. k # None => /\ pc'[c] = "note" /\ tree' = k
                    /\ Holds(c)' => /\ Holds(c)
                                    /\ \A i \in 1..n : built[c][i].aim \in {None, k}
    BY <1>1, <1>2 DEF Holds, IInv, Shape, Loses
  <2>3. k # None => (path[c][n + 1].ref \in Commits => k = path[c][n + 1].ref)
    BY <1>2, TargetIsCommit DEF IInv, Nth, Loc
  <2> SUFFICES ASSUME NEW i \in DOMAIN built'[c]
               PROVE
        /\ IsGit(path[c][i]) <=> built'[c][i].aim # None
        /\ IsGit(path[c][i]) =>
            /\ path[c][i].ref \in Commits => built'[c][i].aim = path[c][i].ref
            /\ Noted(c, i)' => built'[c][i].commit \in Commits
            /\ Holds(c)' =>
                /\ tree' = built'[c][i].aim
                /\ Noted(c, i)' => built'[c][i].commit = built'[c][i].aim
                /\ Scanned(c, i)' => built'[c][i].vers = {Core[built'[c][i].aim].ver}
    BY <1>1 DEF BackendsOK
  <2>4. CASE i \in 1..n
    <3>1. Noted(c, i) /\ Scanned(c, i)
      BY <1>2, <2>4 DEF Noted, Scanned
    <3>2. /\ IsGit(path[c][i]) <=> built[c][i].aim # None
          /\ IsGit(path[c][i]) =>
              /\ path[c][i].ref \in Commits => built[c][i].aim = path[c][i].ref
              /\ built[c][i].commit \in Commits
              /\ Holds(c) =>
                  /\ tree = built[c][i].aim
                  /\ built[c][i].commit = built[c][i].aim
                  /\ built[c][i].vers = {Core[built[c][i].aim].ver}
      BY <1>1, <2>4, <3>1 DEF IInv, CmdOK, BackendsOK
    <3>3. Holds(c)' => Holds(c) /\ (tree' = tree \/ built[c][i].aim \in {None, tree'})
      BY <2>1, <2>2, <2>4
    <3>4. QED
      BY <1>4, <2>4, <3>2, <3>3
  <2>5. CASE i = n + 1
    BY <1>1, <1>3, <1>4, <2>1, <2>2, <2>3, <2>5 DEF Backend, Noted, Scanned
  <2>6. QED
    BY <1>1, <1>4, <2>4, <2>5
<1>7. PlaceOK(c)'
  BY <1>1, <1>2, <1>3, <1>4 DEF PlaceOK, IInv, Shape
<1>8. MemoOK(c)' /\ EntryOK(c)'
  BY <1>1, <1>2, <1>3 DEF IInv, Shape, CmdOK, MemoOK, EntryOK
<1>9. \A d \in Commands : CmdOK(d)'
  <2>1. CmdOK(c)'
    BY <1>6, <1>7, <1>8 DEF CmdOK
  <2>2. \/ tree' = tree /\ moved' = moved
        \/ tree' \in Commits /\ moved' = moved \cup Loses(tree')
    BY <1>2
  <2>3. \A d \in Commands \ {c} : /\ path'[d] = path[d] /\ built'[d] = built[d]
                                   /\ memo'[d] = memo[d] /\ entry'[d] = entry[d]
                                   /\ pc'[d] = pc[d]
    BY <1>1, <1>2 DEF IInv, Shape
  <2>4. QED
    BY <2>1, <2>2, <2>3, Others
<1>10. LockOK'
  BY <1>1 DEF IInv, LockOK
<1>11. QED
  BY <1>5, <1>9, <1>10 DEF IInv

\* The last backend, just checked out, learns its commit and then its cores.
LEMMA LastStep ==
    ASSUME IInv, NEW c \in Commands, Notes(c) \/ Scans(c)
    PROVE  IInv'
<1> DEFINE n == Len(built[c])
           last == built[c][n]
           b == IF pc[c] = "note" THEN [last EXCEPT !.commit = tree]
                ELSE [last EXCEPT !.vers = {Core[tree].ver}]
<1>1. /\ pc[c] \in {"note", "scan"} /\ tree \in Commits
      /\ pc' = [pc EXCEPT ![c] = IF pc[c] = "note" THEN "scan" ELSE "build"]
      /\ built' = [built EXCEPT ![c] = [built[c] EXCEPT ![n] = b]]
      /\ UNCHANGED <<tip, cloneVars, lock, path, memo, entry, moved, tainted>>
  BY DEF Notes, Scans, Goto, IInv, Shape
<1>2. /\ n \in Nat \ {0} /\ IsGit(path[c][n]) /\ memo[c] = <<>>
      /\ built[c] \in Seq(BackendSet) /\ last \in BackendSet
  BY <1>1 DEF IInv, Shape, CmdOK, PlaceOK, MemoOK
<1>3. b \in BackendSet
  BY <1>1, <1>2, CoreAssumption DEF BackendSet
<1>4. /\ built'[c] \in Seq(BackendSet) /\ Len(built'[c]) = n /\ built'[c][n] = b
      /\ \A i \in 1..n : i # n => built'[c][i] = built[c][i]
  <2> HIDE DEF b
  <2>1. built'[c] = [built[c] EXCEPT ![n] = b]
    BY <1>1 DEF IInv, Shape
  <2>2. QED
    BY <1>2, <1>3, <2>1
<1>5. Shape'
  <2>1. built' \in [Commands -> Seq(BackendSet)] /\ \A d \in Commands : Len(built'[d]) <= Len(path'[d])
    BY <1>1, <1>4 DEF IInv, Shape
  <2>2. pc' \in [Commands -> Pcs]
    BY <1>1 DEF IInv, Shape, Pcs, Early
  <2>3. QED
    BY <1>1, <2>1, <2>2 DEF IInv, Shape, cloneVars
<1>6. BackendsOK(c)'
  <2> SUFFICES ASSUME NEW i \in 1..n
               PROVE
        /\ IsGit(path[c][i]) <=> built'[c][i].aim # None
        /\ IsGit(path[c][i]) =>
            /\ path[c][i].ref \in Commits => built'[c][i].aim = path[c][i].ref
            /\ Noted(c, i)' => built'[c][i].commit \in Commits
            /\ Holds(c) =>
                /\ tree = built'[c][i].aim
                /\ Noted(c, i)' => built'[c][i].commit = built'[c][i].aim
                /\ Scanned(c, i)' => built'[c][i].vers = {Core[built'[c][i].aim].ver}
    <3>1. Holds(c)' => Holds(c)
      BY <1>1 DEF Holds, IInv, Shape
    <3>2. DOMAIN built'[c] = 1..n /\ path' = path /\ tree' = tree
      BY <1>1, <1>4 DEF cloneVars
    <3>3. QED
      BY <3>1, <3>2 DEF BackendsOK
  <2>1. i \in DOMAIN built[c]
    BY <1>2
  <2>2. /\ IsGit(path[c][i]) <=> built[c][i].aim # None
        /\ IsGit(path[c][i]) =>
            /\ path[c][i].ref \in Commits => built[c][i].aim = path[c][i].ref
            /\ Noted(c, i) => built[c][i].commit \in Commits
            /\ Holds(c) =>
                /\ tree = built[c][i].aim
                /\ Noted(c, i) => built[c][i].commit = built[c][i].aim
                /\ Scanned(c, i) => built[c][i].vers = {Core[built[c][i].aim].ver}
    BY <2>1 DEF IInv, CmdOK, BackendsOK
  <2>3. CASE i # n
    <3>1. Noted(c, i) /\ Scanned(c, i) /\ built'[c][i] = built[c][i]
      BY <1>2, <1>4, <2>3 DEF Noted, Scanned
    <3>2. QED
      BY <2>2, <3>1
  <2>4. CASE i = n /\ pc[c] = "note"
    <3>1. built'[c][i] = [last EXCEPT !.commit = tree] /\ ~Scanned(c, i)'
      BY <1>1, <1>2, <1>4, <2>4 DEF Scanned, IInv, Shape
    <3>2. QED
      BY <1>1, <1>2, <2>2, <2>4, <3>1 DEF BackendSet
  <2>5. CASE i = n /\ pc[c] = "scan"
    <3>1. built'[c][i] = [last EXCEPT !.vers = {Core[tree].ver}] /\ Noted(c, i)
      BY <1>1, <1>4, <2>5 DEF Noted
    <3>2. QED
      BY <1>2, <2>2, <2>5, <3>1 DEF BackendSet
  <2>6. QED
    BY <1>1, <2>3, <2>4, <2>5
<1>7. PlaceOK(c)' /\ MemoOK(c)' /\ EntryOK(c)'
  BY <1>1, <1>2, <1>4 DEF IInv, Shape, CmdOK, PlaceOK, MemoOK, EntryOK, cloneVars
<1>8. \A d \in Commands : CmdOK(d)'
  <2>1. CmdOK(c)'
    BY <1>6, <1>7 DEF CmdOK
  <2>2. \A d \in Commands \ {c} : /\ path'[d] = path[d] /\ built'[d] = built[d]
                                   /\ memo'[d] = memo[d] /\ entry'[d] = entry[d]
                                   /\ pc'[d] = pc[d]
    BY <1>1 DEF IInv, Shape
  <2>3. QED
    BY <1>1, <2>1, <2>2, Others DEF cloneVars
<1>9. LockOK'
  BY <1>1 DEF IInv, LockOK
<1>10. QED
  BY <1>5, <1>8, <1>9 DEF IInv

-----------------------------------------------------------------------------
(* Asking them.                                                            *)

\* A version is selected: its source is that of the backend whose answer is kept.
LEMMA SelectsStep ==
    ASSUME IInv, NEW c \in Commands, Selects(c)
    PROVE  IInv'
<1>1. /\ pc[c] = "build" /\ Nth(c) > Len(path[c]) /\ ~entry[c].locked
      /\ pc' = [pc EXCEPT ![c] = "sum"]
      /\ UNCHANGED <<tip, cloneVars, lock, path, built, moved, tainted>>
  BY DEF Selects, Goto
<1>2. PICK m \in Asked(c) :
        /\ memo' = [memo EXCEPT ![c] = m]
        /\ \E v \in UNION {m[i] : i \in DOMAIN m \ Failed(m)} :
             entry' = [entry EXCEPT ![c].ver = v, ![c].src = SourceOf(c, Owner(m, v))]
  BY DEF Selects, Remembered
<1>3. PICK v \in UNION {m[i] : i \in DOMAIN m} :
        entry' = [entry EXCEPT ![c].ver = v, ![c].src = SourceOf(c, Owner(m, v))]
  BY <1>2
<1>4. /\ memo[c] = <<>>
      /\ DOMAIN m = DOMAIN path[c]
      /\ \A i \in DOMAIN path[c] : IsGit(path[c][i]) => m[i] = built[c][i].vers
  <2>1. memo[c] = <<>>
    BY <1>1 DEF IInv, CmdOK, MemoOK
  <2>2. \A i \in DOMAIN m : m[i] \in Answers(c, i)
    BY <1>2, <2>1 DEF Asked
  <2>3. DOMAIN m = DOMAIN path[c]
    BY <1>2, <2>1 DEF Asked
  <2>4. QED
    BY <2>1, <2>2, <2>3 DEF Answers
<1>5. Owners(m, v) # {} /\ m # <<>>
  BY <1>3 DEF Owners
<1>6. Len(built[c]) = Len(path[c])
  BY <1>1 DEF IInv, Shape, Nth
<1>7. /\ memo'[c] = m
      /\ IsEntry(entry'[c])
      /\ entry'[c].ver = v /\ entry'[c].src = SourceOf(c, Owner(m, v))
      /\ entry'[c].locked = entry[c].locked
  <2>1. entry'[c] = [entry[c] EXCEPT !.ver = v, !.src = SourceOf(c, Owner(m, v))]
    BY <1>3 DEF IInv, Shape
  <2>2. IsEntry(entry[c])
    BY DEF IInv, Shape
  <2>3. memo'[c] = m
    BY <1>2 DEF IInv, Shape
  <2>4. QED
    BY <2>1, <2>2, <2>3 DEF IsEntry
<1>8. Shape'
  <2>1. pc' \in [Commands -> Pcs] /\ memo' = [d \in Commands |-> memo'[d]]
    BY <1>1, <1>2 DEF IInv, Shape, Pcs
  <2>2. entry' = [d \in Commands |-> entry'[d]] /\ \A d \in Commands : IsEntry(entry'[d])
    BY <1>3, <1>7 DEF IInv, Shape
  <2>3. QED
    BY <1>1, <2>1, <2>2 DEF IInv, Shape, cloneVars
<1>9. CmdOK(c)'
  <2>1. pc'[c] = "sum"
    BY <1>1 DEF IInv, Shape
  <2>2. BackendsOK(c)' /\ PlaceOK(c)'
    BY <1>1, <2>1 DEF IInv, CmdOK, BackendsOK, PlaceOK, Holds, Noted, Scanned, cloneVars
  <2>3. MemoOK(c)'
    BY <1>1, <1>4, <1>5, <1>6, <1>7, <2>1 DEF MemoOK
  <2>4. EntryOK(c)'
    BY <1>1, <1>5, <1>7, <2>1 DEF EntryOK, SourceOf
  <2>5. QED
    BY <2>2, <2>3, <2>4 DEF CmdOK
<1>10. \A d \in Commands : CmdOK(d)'
  <2>1. \A d \in Commands \ {c} : /\ path'[d] = path[d] /\ built'[d] = built[d]
                                   /\ memo'[d] = memo[d] /\ entry'[d] = entry[d]
                                   /\ pc'[d] = pc[d]
    BY <1>1, <1>2, <1>3 DEF IInv, Shape
  <2>2. QED
    BY <1>1, <1>9, <2>1, Others DEF cloneVars
<1>11. LockOK'
  BY <1>1 DEF IInv, LockOK
<1>12. QED
  BY <1>8, <1>10, <1>11 DEF IInv

\* What a command whose tree holds gets from the owner is of the entry's version
\* and what its source holds.
LEMMA OwnerIsTrue ==
    ASSUME IInv, NEW c \in Commands, memo[c] # <<>>, Holds(c),
           NEW x \in CoresAt(c, Owner(memo[c], entry[c].ver), entry[c].ver)
    PROVE  /\ x.ver = entry[c].ver
           /\ entry[c].src \in Locs
           /\ IF IsGit(entry[c].src) THEN x = Core[entry[c].src.ref]
              ELSE entry[c].src \in Remotes /\ x \in Served[entry[c].src]
<1> DEFINE i == Owner(memo[c], entry[c].ver)
<1>1. /\ Len(built[c]) = Len(path[c]) /\ pc[c] \in {"sum", "fetch", "mismatch"}
      /\ DOMAIN memo[c] = DOMAIN path[c]
      /\ \A k \in DOMAIN path[c] : IsGit(path[c][k]) => memo[c][k] = built[c][k].vers
      /\ Owners(memo[c], entry[c].ver) # {}
      /\ entry[c].src = SourceOf(c, i)
  BY DEF IInv, CmdOK, MemoOK, EntryOK
<1>2. i \in DOMAIN path[c] /\ entry[c].ver \in memo[c][i]
  <2>1. Len(path[c]) \in Nat /\ DOMAIN path[c] = 1..Len(path[c])
    BY DEF IInv, Shape
  <2>2. QED
    BY <1>1, <2>1, OwnerListed
<1>3. i \in DOMAIN built[c] /\ path[c][i] \in Locs
  BY <1>1, <1>2 DEF IInv, Shape
<1>4. CASE IsGit(path[c][i])
  <2>1. /\ tree = built[c][i].aim /\ tree # None
        /\ built[c][i].commit = tree
        /\ built[c][i].commit \in Commits
        /\ built[c][i].vers = {Core[tree].ver}
    BY <1>1, <1>3, <1>4 DEF IInv, CmdOK, BackendsOK, Noted, Scanned
  <2>2. x = Core[tree] /\ entry[c].ver = Core[tree].ver
    BY <1>1, <1>2, <1>4, <2>1 DEF CoresAt
  <2>3. entry[c].src = GitAt(tree)
    BY <1>1, <1>4, <2>1 DEF SourceOf
  <2>4. GitAt(tree) \in Locs /\ IsGit(GitAt(tree)) /\ GitAt(tree).ref = tree
    BY <2>1 DEF GitAt, IsGit, Locs
  <2>5. QED
    BY <2>2, <2>3, <2>4
<1>5. CASE ~IsGit(path[c][i])
  <2>1. entry[c].src = path[c][i] /\ path[c][i] \in Remotes
    BY <1>1, <1>3, <1>5 DEF SourceOf, Locs, IsGit
  <2>2. QED
    BY <1>3, <1>5, <2>1 DEF CoresAt
<1>6. QED
  BY <1>4, <1>5

\* The checksum is of what the owner hands out.
LEMMA DigestsStep ==
    ASSUME IInv, NEW c \in Commands, Digests(c)
    PROVE  IInv'
<1>1. /\ pc[c] = "sum" /\ pc' = [pc EXCEPT ![c] = "fetch"]
      /\ UNCHANGED <<tip, cloneVars, lock, path, built, moved, tainted>>
      /\ memo[c] # <<>>
  BY DEF Digests, Goto, IInv, CmdOK, MemoOK
<1>2. Asked(c) = {memo[c]}
  BY <1>1 DEF Asked
<1>3. PICK x \in CoresAt(c, Owner(memo[c], entry[c].ver), entry[c].ver) :
        entry' = [entry EXCEPT ![c].sum = x]
  BY <1>2 DEF Digests
<1>4. memo' = memo
  BY <1>2 DEF Digests, Remembered, IInv, Shape
<1>5. /\ IsEntry(entry'[c]) /\ entry'[c].sum = x
      /\ entry'[c].ver = entry[c].ver /\ entry'[c].src = entry[c].src
      /\ entry'[c].locked = entry[c].locked
  BY <1>3 DEF IInv, Shape, IsEntry
<1>6. Shape'
  <2>1. pc' \in [Commands -> Pcs]
    BY <1>1 DEF IInv, Shape, Pcs
  <2>2. entry' = [d \in Commands |-> entry'[d]] /\ \A d \in Commands : IsEntry(entry'[d])
    BY <1>3, <1>5 DEF IInv, Shape
  <2>3. QED
    BY <1>1, <1>4, <2>1, <2>2 DEF IInv, Shape, cloneVars
<1>7. CmdOK(c)'
  <2>1. pc'[c] = "fetch" /\ (Holds(c)' => Holds(c))
    BY <1>1 DEF IInv, Shape, Holds
  <2>2. BackendsOK(c)' /\ PlaceOK(c)'
    BY <1>1, <2>1 DEF IInv, CmdOK, BackendsOK, PlaceOK, Noted, Scanned, cloneVars
  <2>3. MemoOK(c)'
    BY <1>1, <1>4, <2>1 DEF IInv, CmdOK, MemoOK
  <2>4. Holds(c)' => Truthful(entry'[c])
    BY <1>1, <1>5, <2>1, OwnerIsTrue DEF Truthful
  <2>5. EntryOK(c)'
    BY <1>1, <1>4, <1>5, <2>1, <2>4 DEF IInv, CmdOK, EntryOK, SourceOf
  <2>6. QED
    BY <2>2, <2>3, <2>5 DEF CmdOK
<1>8. \A d \in Commands : CmdOK(d)'
  <2>1. \A d \in Commands \ {c} : /\ path'[d] = path[d] /\ built'[d] = built[d]
                                   /\ memo'[d] = memo[d] /\ entry'[d] = entry[d]
                                   /\ pc'[d] = pc[d]
    BY <1>1, <1>3, <1>4 DEF IInv, Shape
  <2>2. QED
    BY <1>1, <1>7, <2>1, Others DEF cloneVars
<1>9. LockOK'
  BY <1>1 DEF IInv, LockOK
<1>10. QED
  BY <1>6, <1>8, <1>9 DEF IInv

\* An install finds other bytes than the entry's: the tree has moved, or the entry
\* was untruthful from the start.
LEMMA MismatchStep ==
    ASSUME IInv, NEW c \in Commands, Mismatch(c)
    PROVE  IInv'
<1>1. /\ Fetching(c) /\ pc[c] \in {"fetch", "build"}
      /\ pc' = [pc EXCEPT ![c] = "mismatch"]
      /\ UNCHANGED <<tip, cloneVars, lock, cmdVars, moved, tainted>>
  BY DEF Mismatch, Goto, Fetching
<1>2. PICK i \in FetchOwner(c) : \E x \in CoresAt(c, i, entry[c].ver) : x # entry[c].sum
  BY DEF Mismatch
<1>3. PICK x \in CoresAt(c, i, entry[c].ver) : x # entry[c].sum
  BY <1>2
<1>4. ASSUME c \notin moved PROVE entry[c].locked /\ ~Truthful(entry[c])
  <2>1. Holds(c)
    BY <1>1, <1>4 DEF Holds
  <2>2. CASE ~entry[c].locked
    <3>1. pc[c] = "fetch" /\ memo[c] # <<>>
      BY <1>1, <2>2 DEF Fetching, IInv, CmdOK, MemoOK
    <3>2. i = Owner(memo[c], entry[c].ver)
      BY <1>2, <2>2, <3>1 DEF FetchOwner, Asked
    <3>3. Truthful(entry[c])
      BY <2>1, <3>1 DEF IInv, CmdOK, EntryOK
    <3>4. QED
      BY <1>3, <2>1, <3>1, <3>2, <3>3, OwnerIsTrue, ServedAssumption DEF Truthful
  <2>3. CASE entry[c].locked
    <3>1. /\ pc[c] = "build" /\ path[c] = <<entry[c].src>> /\ i = 1
          /\ IsGit(entry[c].src) => entry[c].src.ref \in Commits
      BY <1>1, <1>2, <2>3 DEF FetchOwner, IInv, CmdOK, EntryOK, MemoOK
    <3>2. Len(built[c]) = 1 /\ 1 \in DOMAIN built[c] /\ path[c][1] = entry[c].src
          /\ entry[c].src \in Locs
      <4>1. Len(path[c]) = 1 /\ path[c][1] = entry[c].src
        BY <3>1
      <4>2. /\ path[c] \in Seq(Locs) /\ built[c] \in Seq(BackendSet)
            /\ Len(built[c]) <= Len(path[c])
        BY DEF IInv, Shape
      <4>3. Len(built[c]) + 1 > Len(path[c])
        BY <1>1, <3>1 DEF Fetching, Nth
      <4>4. Len(built[c]) = 1 /\ 1 \in DOMAIN built[c]
        BY <4>1, <4>2, <4>3
      <4>5. path[c][1] \in Locs
        BY <4>1, <4>2, ElementOfSeq
      <4>6. QED
        BY <4>1, <4>4, <4>5
    <3>3. SUFFICES ASSUME Truthful(entry[c]) PROVE FALSE
      BY <2>3
    <3>4. CASE IsGit(entry[c].src)
      <4>1. tree = entry[c].src.ref /\ tree # None
        BY <2>1, <3>1, <3>2, <3>4 DEF IInv, CmdOK, BackendsOK
      <4>2. x = Core[tree]
        BY <3>1, <3>2, <3>4, <4>1 DEF CoresAt
      <4>3. QED
        BY <1>3, <3>3, <3>4, <4>1, <4>2 DEF Truthful
    <3>5. CASE ~IsGit(entry[c].src)
      <4>1. entry[c].src \in Remotes
        BY <3>2, <3>5 DEF Locs, IsGit
      <4>2. x \in Served[entry[c].src] /\ x.ver = entry[c].ver
        BY <3>1, <3>2, <3>5 DEF CoresAt
      <4>3. QED
        BY <1>3, <3>3, <3>5, <4>1, <4>2, ServedAssumption DEF Truthful
    <3>6. QED
      BY <3>4, <3>5
  <2>4. QED
    BY <2>2, <2>3
<1>5. Shape'
  BY <1>1 DEF IInv, Shape, cloneVars, cmdVars, Pcs
<1>6. CmdOK(c)'
  <2>1. pc'[c] = "mismatch" /\ (Holds(c)' => Holds(c))
    BY <1>1 DEF IInv, Shape, Holds
  <2>2. BackendsOK(c)' /\ PlaceOK(c)'
    BY <1>1, <2>1 DEF IInv, CmdOK, BackendsOK, PlaceOK, Noted, Scanned, cloneVars, cmdVars
  <2>3. MemoOK(c)'
    BY <1>1, <2>1 DEF IInv, CmdOK, MemoOK, cmdVars
  <2>4. EntryOK(c)'
    BY <1>1, <1>4, <2>1 DEF IInv, CmdOK, EntryOK, SourceOf, cmdVars
  <2>5. QED
    BY <2>2, <2>3, <2>4 DEF CmdOK
<1>7. \A d \in Commands : CmdOK(d)'
  <2>1. \A d \in Commands \ {c} : /\ path'[d] = path[d] /\ built'[d] = built[d]
                                   /\ memo'[d] = memo[d] /\ entry'[d] = entry[d]
                                   /\ pc'[d] = pc[d]
    BY <1>1 DEF IInv, Shape, cmdVars
  <2>2. QED
    BY <1>1, <1>6, <2>1, Others DEF cloneVars
<1>8. LockOK'
  BY <1>1 DEF IInv, LockOK
<1>9. QED
  BY <1>5, <1>7, <1>8 DEF IInv

\* The lock is written, from an entry whose owner was asked for its checksum.
LEMMA WriteStep ==
    ASSUME IInv, NEW c \in Commands, WritesLock(c), pc[c] = "fetch", Ends(c),
           UNCHANGED <<tip, cloneVars>>
    PROVE  IInv'
<1>1. LockOK'
  <2>1. lock' = entry[c] /\ tainted' = (c \in moved) /\ IsEntry(entry[c])
    BY DEF WritesLock, IInv, Shape
  <2>2. c \in moved \/ Truthful(entry[c])
    BY DEF IInv, CmdOK, EntryOK, Holds
  <2>3. entry[c].src \in Locs /\ (IsGit(entry[c].src) => entry[c].src.ref \in Commits)
    <3> DEFINE i == Owner(memo[c], entry[c].ver)
    <3>1. /\ memo[c] # <<>> /\ Len(built[c]) = Len(path[c])
          /\ DOMAIN memo[c] = DOMAIN path[c]
          /\ Owners(memo[c], entry[c].ver) # {}
          /\ entry[c].src = SourceOf(c, i)
      BY DEF IInv, CmdOK, MemoOK, EntryOK
    <3>2. Len(path[c]) \in Nat /\ DOMAIN path[c] = 1..Len(path[c]) /\ DOMAIN built[c] = 1..Len(built[c])
      BY DEF IInv, Shape
    <3>3. i \in DOMAIN built[c] /\ path[c][i] \in Locs
      <4>1. i \in 1..Len(path[c])
        BY <3>1, <3>2, OwnerListed
      <4>2. QED
        BY <3>1, <3>2, <4>1 DEF IInv, Shape
    <3>4. IsGit(path[c][i]) => built[c][i].commit \in Commits
      BY <3>3 DEF IInv, CmdOK, BackendsOK, Noted
    <3>5. QED
      BY <3>1, <3>3, <3>4 DEF SourceOf, GitAt, IsGit, Locs
  <2>4. QED
    BY <2>1, <2>2, <2>3, Zenon DEF LockOK
<1>2. QED
  BY <1>1, EndsClean DEF IInv

-----------------------------------------------------------------------------
(* The theorems.                                                           *)

LEMMA IInvInit == Init => IInv
<1> SUFFICES ASSUME Init PROVE IInv
  OBVIOUS
<1>1. Shape
  <2>1. <<>> \in Seq(Locs) /\ <<>> \in Seq(BackendSet) /\ Len(<<>>) = 0
    OBVIOUS
  <2>2. /\ path \in [Commands -> Seq(Locs)] /\ built \in [Commands -> Seq(BackendSet)]
        /\ \A c \in Commands : Len(built[c]) <= Len(path[c])
    BY <2>1 DEF Init
  <2>3. entry = [c \in Commands |-> entry[c]] /\ \A c \in Commands : IsEntry(entry[c])
    BY DEF Init, Blank, IsEntry
  <2>4. /\ pc \in [Commands -> Pcs] /\ memo = [c \in Commands |-> memo[c]]
        /\ moved \subseteq Commands
    BY DEF Init, Pcs
  <2>5. QED
    BY <2>2, <2>3, <2>4, TipAssumption DEF Init, Shape
<1>2. \A c \in Commands : CmdOK(c)
  BY DEF Init, CmdOK, BackendsOK, PlaceOK, MemoOK, EntryOK, Blank
<1>3. QED
  BY <1>1, <1>2 DEF Init, IInv, LockOK

LEMMA IInvStep == IInv /\ [Next]_vars => IInv'
<1> SUFFICES ASSUME IInv, [Next]_vars PROVE IInv'
  OBVIOUS
<1>1. CASE Push \/ UNCHANGED vars
  <2>1. /\ tip' \in Commits
        /\ UNCHANGED <<cloneVars, lock, pc, cmdVars, moved, tainted>>
    BY <1>1 DEF Push, vars, IInv, Shape
  <2>2. Shape' /\ LockOK'
    BY <2>1 DEF IInv, Shape, LockOK, cloneVars, cmdVars
  <2>3. ASSUME NEW c \in Commands PROVE CmdOK(c)'
    BY <2>1, Frame DEF Holds, cloneVars, cmdVars
  <2>4. QED
    BY <2>2, <2>3 DEF IInv
<1>2. ASSUME NEW c \in Commands,
             CloneStarts(c) \/ CloneEnds(c) \/ CloneFails(c) \/ Fetch(c) \/ NoFetch(c)
      PROVE  IInv'
  <2>1. Pending(c) /\ pc[c] \in Early \ {"failed"}
    BY <1>2 DEF CloneStarts, CloneEnds, CloneFails, Fetch, NoFetch, BuildingGit, Building,
                Pending, IInv, CmdOK, PlaceOK, Early
  <2>2. Pushed \subseteq Commits /\ tip \in Commits /\ known \subseteq Commits
        /\ {tracked, tree} \subseteq Commits \cup {None}
    BY PushedAreCommits DEF IInv, Shape
  <2>3. /\ UNCHANGED <<tip, lock, cmdVars, tainted>>
        /\ tracked' \in Commits \cup {None} /\ tree' \in Commits \cup {None}
        /\ known' \subseteq Commits
    BY <1>2, <2>2 DEF CloneStarts, CloneEnds, CloneFails, Fetch, NoFetch, cloneVars
  <2>4. \/ pc' = [pc EXCEPT ![c] = "clone"] /\ tree' = tree /\ moved' = moved
        \/ pc' = [pc EXCEPT ![c] = "checkout"] /\ tree' = tree /\ moved' = moved
        \/ pc' = [pc EXCEPT ![c] = "checkout"] /\ moved' = moved \cup Loses(tree')
        \/ pc' = [pc EXCEPT ![c] = "failed"] /\ moved' = (moved \cup Loses(tree')) \ {c}
    BY <1>2 DEF CloneStarts, CloneEnds, CloneFails, Fetch, NoFetch, Goto, cloneVars
  <2>5. QED
    BY <2>1, <2>3, <2>4, CloneStep
<1>3. ASSUME NEW c \in Commands, Resolves(c) \/ Installs(c) \/ Stop(c)
      PROVE  IInv'
  <2>1. Ends(c) /\ UNCHANGED <<tip, cloneVars>>
    BY <1>3 DEF Resolves, Installs, Stop
  <2>2. CASE UNCHANGED <<lock, tainted>>
    BY <2>1, <2>2, EndsClean DEF IInv, LockOK
  <2>3. CASE WritesLock(c) /\ pc[c] = "fetch"
    BY <2>1, <2>3, WriteStep
  <2>4. QED
    BY <1>3, <2>2, <2>3 DEF Resolves, Installs, Stop, Fetching
<1>4. QED
  BY <1>1, <1>2, <1>3, StartStep, AppendStep, LastStep, SelectsStep, DigestsStep, MismatchStep
     DEF Next

\* An entry's source, version and checksum belong together, but when the working
\* tree was taken away from the command that made it (GitRegistry, CompositeRegistry).
THEOREM EntryIsTruthful == Spec => []SourceNamesBytes
<1>1. IInv => SourceNamesBytes
  BY DEF IInv, LockOK, SourceNamesBytes
<1>2. QED
  BY <1>1, IInvInit, IInvStep, PTL DEF Spec

\* An install that meets other bytes than its entry's has had its tree moved, or was
\* given an untruthful entry (Lockfile.verify, LockSourceRegistry).
THEOREM MismatchExplained == Spec => []MismatchMeansMoved
<1>1. IInv => MismatchMeansMoved
  BY DEF IInv, CmdOK, EntryOK, MismatchMeansMoved
<1>2. QED
  BY <1>1, IInvInit, IInvStep, PTL DEF Spec
-----------------------------------------------------------------------------
(* Who was warned about.                                                   *)

\* What a command remembers of a remote is what the remote listed, or that it could
\* not be reached; and of that it has warned.
WarnedOK(c) ==
    memo[c] # <<>> =>
        /\ \A i \in DOMAIN path[c] : ~IsGit(path[c][i]) => memo[c][i] \in Answers(c, i)
        /\ Failed(memo[c]) \subseteq warned[c]

WarnInv ==
    /\ warned = [c \in Commands |-> warned[c]]
    /\ \A c \in Commands : WarnedOK(c)

\* A command that remembers what it did, or nothing, keeps it.
LEMMA KeepsWarned ==
    ASSUME NEW c \in Commands, WarnedOK(c), memo'[c] \in {memo[c], <<>>},
           memo'[c] # <<>> => path'[c] = path[c] /\ warned'[c] = warned[c]
    PROVE  WarnedOK(c)'
BY DEF WarnedOK, Answers, Failed

\* A call that asks the backends remembers their answers and warns.
LEMMA AsksAndWarns ==
    ASSUME IInv, WarnInv, NEW c \in Commands, NEW m \in Asked(c),
           memo' = [memo EXCEPT ![c] = Remembered(m)], Warns(c, m), path' = path
    PROVE  WarnInv'
<1>1. memo'[c] = m /\ warned'[c] = warned[c] \cup Failed(m)
  BY DEF IInv, Shape, WarnInv, Remembered, Warns
<1>2. warned' = [d \in Commands |-> warned'[d]]
  BY DEF WarnInv, Warns
<1>3. ASSUME NEW d \in Commands, d # c PROVE WarnedOK(d)'
  <2>1. memo'[d] = memo[d] /\ warned'[d] = warned[d]
    BY <1>3 DEF IInv, Shape, WarnInv, Warns
  <2>2. QED
    BY <2>1, KeepsWarned DEF WarnInv
<1>4. WarnedOK(c)'
  <2>1. \A i \in DOMAIN path[c] : ~IsGit(path[c][i]) => m[i] \in Answers(c, i)
    <3>1. CASE memo[c] # <<>>
      BY <3>1 DEF Asked, WarnInv, WarnedOK
    <3>2. CASE memo[c] = <<>>
      BY <3>2 DEF Asked
    <3>3. QED
      BY <3>1, <3>2
  <2>2. \A i \in DOMAIN path'[c] : ~IsGit(path'[c][i]) => memo'[c][i] \in Answers(c, i)'
    BY <1>1, <2>1 DEF Answers
  <2>3. Failed(memo[c])' \subseteq warned'[c]
    BY <1>1 DEF Failed
  <2>4. QED
    BY <2>2, <2>3 DEF WarnedOK
<1>5. QED
  BY <1>2, <1>3, <1>4 DEF WarnInv

LEMMA WarnInvInit == Init => WarnInv
BY DEF Init, WarnInv, WarnedOK

LEMMA WarnInvStep == IInv /\ WarnInv /\ [Next]_vars => WarnInv'
<1> SUFFICES ASSUME IInv, WarnInv, [Next]_vars PROVE WarnInv'
  OBVIOUS
<1>1. ASSUME NEW c \in Commands, Ends(c) PROVE WarnInv'
  <2>1. warned' = [d \in Commands |-> warned'[d]]
    BY <1>1 DEF WarnInv, Ends
  <2>2. \A d \in Commands : /\ memo'[d] \in {memo[d], <<>>}
                            /\ memo'[d] # <<>> => path'[d] = path[d] /\ warned'[d] = warned[d]
    BY <1>1 DEF IInv, Shape, WarnInv, Ends
  <2>3. QED
    BY <2>1, <2>2, KeepsWarned DEF WarnInv
<1>2. ASSUME UNCHANGED <<path, memo, warned>> PROVE WarnInv'
  BY <1>2, KeepsWarned DEF WarnInv
<1>3. ASSUME NEW c \in Commands, StartResolve(c) \/ StartLocked(c) PROVE WarnInv'
  <2>1. memo[c] = <<>>
    BY <1>3 DEF StartResolve, StartLocked, IInv, CmdOK, MemoOK
  <2>2. UNCHANGED <<memo, warned>> /\ \A d \in Commands \ {c} : path'[d] = path[d]
    BY <1>3 DEF StartResolve, StartLocked, IInv, Shape
  <2>3. QED
    BY <2>1, <2>2, KeepsWarned DEF WarnInv
<1>4. ASSUME NEW c \in Commands, Selects(c) PROVE WarnInv'
  <2>1. PICK m \in Asked(c) : memo' = [memo EXCEPT ![c] = Remembered(m)] /\ Warns(c, m)
    BY <1>4 DEF Selects
  <2>2. QED
    BY <1>4, <2>1, AsksAndWarns DEF Selects
<1>5. ASSUME NEW c \in Commands, Digests(c) PROVE WarnInv'
  <2>1. PICK m \in Asked(c) : memo' = [memo EXCEPT ![c] = Remembered(m)] /\ Warns(c, m)
    BY <1>5 DEF Digests
  <2>2. QED
    BY <1>5, <2>1, AsksAndWarns DEF Digests
<1>6. ASSUME NEW c \in Commands,
             \/ BuildRemote(c) \/ CloneStarts(c) \/ CloneEnds(c) \/ CloneFails(c)
             \/ Fetch(c) \/ NoFetch(c) \/ Checkout(c) \/ Notes(c) \/ Scans(c) \/ Mismatch(c)
      PROVE  WarnInv'
  <2>1. UNCHANGED <<path, memo, warned>>
    BY <1>6 DEF BuildRemote, CloneStarts, CloneEnds, CloneFails, Fetch, NoFetch, Checkout,
                Notes, Scans, Mismatch, cmdVars
  <2>2. QED
    BY <1>2, <2>1
<1>7. ASSUME NEW c \in Commands, Resolves(c) \/ Installs(c) \/ Stop(c) PROVE WarnInv'
  BY <1>1, <1>7 DEF Resolves, Installs, Stop
<1>8. CASE Push \/ UNCHANGED vars
  <2>1. UNCHANGED <<path, memo, warned>>
    BY <1>8 DEF Push, vars, cmdVars
  <2>2. QED
    BY <1>2, <2>1
<1>9. QED
  BY <1>3, <1>4, <1>5, <1>6, <1>7, <1>8 DEF Next

\* The backend that an entry names comes no later in the path than the one that was
\* taken: two locations may name one source.
LEMMA OriginIsEarly ==
    ASSUME IInv, NEW c \in Commands, memo[c] # <<>>
    PROVE  /\ Owner(memo[c], entry[c].ver) \in DOMAIN path[c]
           /\ Origin(c) \in DOMAIN path[c] /\ Origin(c) <= Owner(memo[c], entry[c].ver)
<1> DEFINE own == Owner(memo[c], entry[c].ver)
<1>1. DOMAIN memo[c] = DOMAIN path[c] /\ Owners(memo[c], entry[c].ver) # {}
      /\ entry[c].src = SourceOf(c, own)
  BY DEF IInv, CmdOK, MemoOK, EntryOK
<1>2. Len(path[c]) \in Nat /\ DOMAIN path[c] = 1..Len(path[c])
  BY DEF IInv, Shape
<1>3. own \in DOMAIN path[c]
  BY <1>1, <1>2, OwnerListed
<1> DEFINE S == {i \in DOMAIN path[c] : SourceOf(c, i) = entry[c].src}
<1>4. S \in SUBSET Nat /\ own \in S
  BY <1>1, <1>2, <1>3
<1>5. PICK i \in S : \A j \in S : i <= j
  <2> HIDE DEF S
  <2> QED
    BY <1>4, LeastOf
<1>6. Origin(c) \in S /\ \A j \in S : Origin(c) <= j
  BY <1>5 DEF Origin
<1>7. QED
  BY <1>3, <1>4, <1>6

\* A backend before the one that was taken has the version only if it was asked and
\* did not answer; it has been warned about, or HttpRegistry.versions took its
\* silence for "no versions" (CompositeRegistry._owner, _versions_of).
THEOREM SkippedBackendsAreNamed == Spec => []SkippedIsWarned
<1>1. ASSUME IInv, WarnInv, NEW c \in Commands, pc[c] \in {"sum", "fetch"},
             NEW i \in 1..Origin(c) - 1, Offers(c, i, entry[c].ver)
      PROVE  i \in warned[c] \/ path[c][i].kind = "http"
  <2>1. /\ memo[c] # <<>> /\ DOMAIN memo[c] = DOMAIN path[c]
        /\ \A k \in DOMAIN path[c] : IsGit(path[c][k]) => memo[c][k] = built[c][k].vers
    BY <1>1 DEF IInv, CmdOK, MemoOK
  <2>2. PICK own : own = Owner(memo[c], entry[c].ver)
    OBVIOUS
  <2>3. own \in DOMAIN path[c] /\ Origin(c) \in DOMAIN path[c] /\ Origin(c) <= own
    BY <1>1, <2>1, <2>2, OriginIsEarly
  <2>4. Len(path[c]) \in Nat /\ DOMAIN path[c] = 1..Len(path[c])
    BY DEF IInv, Shape
  <2>5. i \in DOMAIN path[c] /\ i < own
    BY <2>3, <2>4
  <2>6. entry[c].ver \notin memo[c][i]
    <3>1. Owners(memo[c], entry[c].ver) # {}
      BY <1>1, <2>1 DEF IInv, CmdOK, EntryOK
    <3> DEFINE S == Owners(memo[c], entry[c].ver)
    <3>2. \A j \in S : own <= j
      BY <1>1, <2>1, <2>2, <2>4, <3>1, OwnerIsFirst
    <3>3. i \notin S
      BY <2>3, <2>4, <2>5, <3>2
    <3>4. QED
      BY <2>1, <2>5, <3>3 DEF Owners
  <2>7. ~IsGit(path[c][i])
    BY <1>1, <2>1, <2>5, <2>6 DEF Offers
  <2>8. memo[c][i] \in Answers(c, i)
    BY <1>1, <2>1, <2>5, <2>7 DEF WarnInv, WarnedOK
  <2>9. memo[c][i] # {x.ver : x \in Served[path[c][i]]}
    BY <1>1, <2>6, <2>7 DEF Offers
  <2>10. memo[c][i] = {Unreachable} \/ path[c][i].kind = "http"
    BY <2>7, <2>8, <2>9 DEF Answers
  <2>11. QED
    BY <1>1, <2>1, <2>5, <2>10 DEF WarnInv, WarnedOK, Failed
<1>2. IInv /\ WarnInv => SkippedIsWarned
  BY <1>1 DEF SkippedIsWarned
<1>3. QED
  BY <1>2, IInvInit, IInvStep, WarnInvInit, WarnInvStep, PTL DEF Spec
=============================================================================
