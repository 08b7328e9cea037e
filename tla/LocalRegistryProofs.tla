------------------------- MODULE LocalRegistryProofs -------------------------
(***************************************************************************)
(* The local registry keeps the promise of every registry, for every       *)
(* number of publishers and versions.  The argument: a file lies in the    *)
(* directory of whoever created it, and a publisher at work finds there    *)
(* exactly what it has itself put there so far.                            *)
(***************************************************************************)
EXTENDS LocalRegistry, TLAPS

Active(p) == pc[p] \in {"opentoml", "writetoml", "pack", "writeipkg"}

\* A file that is there was written by the directory's creator.
OwnFiles ==
    \A v \in Versions :
        /\ toml[v] # None => Exists(v) /\ toml[v].by = owner[v]
        /\ ipkg[v] # None => Exists(v) /\ ipkg[v].by = owner[v]

\* What a publisher at work finds in its version's directory.
Progress(p) ==
    /\ pc[p] = "opentoml" => toml[ver[p]] = None
    /\ pc[p] = "writetoml" => toml[ver[p]] # None
    /\ pc[p] \in {"pack", "writeipkg"} => Whole(toml[ver[p]])
    /\ pc[p] \in {"opentoml", "writetoml", "pack"} => ipkg[ver[p]] = None
    /\ pc[p] = "writeipkg" => ipkg[ver[p]] # None /\ ~Whole(ipkg[ver[p]])
OwnProgress == \A p \in Publishers : Progress(p)

IInv == TypeOK /\ OnePublisher /\ OwnFiles /\ OwnProgress

-----------------------------------------------------------------------------
LEMMA TypeInit == Init => TypeOK
BY DEF Init, TypeOK, Pcs

LEMMA IInvInit == Init => IInv
<1>1. Init => OnePublisher /\ OwnFiles /\ OwnProgress
  BY DEF Init, OnePublisher, OwnFiles, OwnProgress, Progress
<1>2. QED
  BY <1>1, TypeInit DEF IInv

\* Completing a file keeps its author.
LEMMA CompleteFile ==
    ASSUME NEW f \in [Versions -> File \cup {None}], NEW v \in Versions, f[v] # None
    PROVE  LET g == [f EXCEPT ![v].whole = TRUE] IN
           /\ g \in [Versions -> File \cup {None}]
           /\ g[v] = [by |-> f[v].by, whole |-> TRUE]
           /\ g[v] \in File
           /\ Whole(g[v])
           /\ \A w \in Versions \ {v} : g[w] = f[w]
<1> DEFINE g == [f EXCEPT ![v].whole = TRUE]
<1>1. f[v] \in File
  OBVIOUS
<1>2. g[v] = [by |-> f[v].by, whole |-> TRUE]
  BY <1>1 DEF File
<1>3. g[v] \in File
  BY <1>1, <1>2 DEF File
<1>4. \A w \in Versions \ {v} : g[w] = f[w]
  OBVIOUS
<1>5. g \in [Versions -> File \cup {None}]
  BY <1>3, <1>4
<1>6. Whole(g[v])
  <2>1. g[v] # None
    BY <1>3, NoneAssumption
  <2>2. g[v].whole
    BY <1>2
  <2>3. QED
    BY <2>1, <2>2 DEF Whole
<1>7. QED
  BY <1>2, <1>3, <1>4, <1>5, <1>6

LEMMA TypeStep == IInv /\ [Next]_vars => TypeOK'
<1> SUFFICES ASSUME IInv, [Next]_vars PROVE TypeOK'
  OBVIOUS
<1> USE NoneAssumption DEF IInv, TypeOK, Pcs, Goto, Exists
<1>1. ASSUME NEW p \in Publishers, NEW v \in Versions, Begin(p, v) PROVE TypeOK'
  BY <1>1 DEF Begin, diskVars
<1>2. ASSUME NEW p \in Publishers, Mkdir(p) PROVE TypeOK'
  BY <1>2 DEF Mkdir
<1>3. ASSUME NEW p \in Publishers, LosesRace(p) PROVE TypeOK'
  BY <1>3 DEF LosesRace, diskVars
<1>4. ASSUME NEW p \in Publishers, OpenToml(p) PROVE TypeOK'
  <2>1. toml' \in [Versions -> File \cup {None}]
    BY <1>4 DEF OpenToml, File
  <2>2. QED
    BY <1>4, <2>1 DEF OpenToml
<1>5. ASSUME NEW p \in Publishers, WriteToml(p) PROVE TypeOK'
  <2>1. toml' \in [Versions -> File \cup {None}]
    BY <1>5, CompleteFile DEF WriteToml, OwnProgress, Progress
  <2>2. QED
    BY <1>5, <2>1 DEF WriteToml
<1>6. ASSUME NEW p \in Publishers, PackFails(p) \/ Die(p) PROVE TypeOK'
  BY <1>6 DEF PackFails, Die, diskVars
<1>7. ASSUME NEW p \in Publishers, OpenIpkg(p) PROVE TypeOK'
  <2>1. ipkg' \in [Versions -> File \cup {None}]
    BY <1>7 DEF OpenIpkg, File
  <2>2. QED
    BY <1>7, <2>1 DEF OpenIpkg
<1>8. ASSUME NEW p \in Publishers, WriteIpkg(p) PROVE TypeOK'
  <2>1. ipkg' \in [Versions -> File \cup {None}]
    BY <1>8, CompleteFile DEF WriteIpkg, OwnProgress, Progress
  <2>2. QED
    BY <1>8, <2>1 DEF WriteIpkg
<1>9. ASSUME NEW v \in Versions, Yank(v) PROVE TypeOK'
  BY <1>9 DEF Yank
<1>10. CASE UNCHANGED vars
  BY <1>10 DEF vars, diskVars
<1>11. QED
  BY <1>1, <1>2, <1>3, <1>4, <1>5, <1>6, <1>7, <1>8, <1>9, <1>10
     DEF Next, Publishing, Refused

-----------------------------------------------------------------------------
(* The steps that write: the one who writes owns the directory, so no other *)
(* publisher at work has a claim on it.                                     *)

\* Nobody but the writer is at work on the version it writes.
LEMMA Alone ==
    ASSUME IInv, NEW p \in Publishers, Active(p)
    PROVE  /\ owner[ver[p]] = p
           /\ ver[p] \in Versions
           /\ \A q \in Publishers \ {p} : Active(q) => ver[q] # ver[p]
BY DEF IInv, TypeOK, OnePublisher, Active

\* A publisher whose directory is left alone keeps its place in it.
LEMMA OtherProgress ==
    ASSUME IInv, NEW q \in Publishers, pc'[q] = pc[q], ver'[q] = ver[q],
           Active(q) => toml'[ver[q]] = toml[ver[q]] /\ ipkg'[ver[q]] = ipkg[ver[q]]
    PROVE  Progress(q)'
BY DEF IInv, OwnProgress, Progress, Active, Whole

LEMMA MkdirStep ==
    ASSUME IInv, NEW p \in Publishers, Mkdir(p), TypeOK'
    PROVE  IInv'
<1> USE NoneAssumption DEF Mkdir, Goto, Exists, IInv, TypeOK
<1>1. OnePublisher'
  BY DEF OnePublisher
<1>2. OwnFiles'
  BY DEF OwnFiles
<1>3. Progress(p)'
  BY DEF Progress, OwnFiles
<1>4. \A q \in Publishers \ {p} : Progress(q)'
  BY OtherProgress
<1>5. QED
  BY <1>1, <1>2, <1>3, <1>4 DEF OwnProgress

LEMMA OpenTomlStep ==
    ASSUME IInv, NEW p \in Publishers, OpenToml(p), TypeOK'
    PROVE  IInv'
<1> USE NoneAssumption DEF OpenToml, Goto, Exists, IInv, TypeOK
<1>1. /\ owner[ver[p]] = p /\ ver[p] \in Versions
      /\ \A q \in Publishers \ {p} : Active(q) => ver[q] # ver[p]
  BY Alone DEF Active
<1>2. OnePublisher'
  BY DEF OnePublisher
<1>3. OwnFiles'
  BY <1>1 DEF OwnFiles
<1>4. Progress(p)'
  <2>1. ipkg[ver[p]] = None
    BY DEF OwnProgress, Progress
  <2>2. toml'[ver[p]] # None
    <3>1. [by |-> p, whole |-> FALSE] \in File
      BY DEF File
    <3>2. toml'[ver[p]] = [by |-> p, whole |-> FALSE]
      BY <1>1
    <3>3. QED
      BY <3>1, <3>2
  <2>3. QED
    BY <2>1, <2>2 DEF Progress
<1>5. \A q \in Publishers \ {p} : Progress(q)'
  <2> TAKE q \in Publishers \ {p}
  <2>1. Active(q) => toml'[ver[q]] = toml[ver[q]]
    BY <1>1
  <2>2. QED
    BY <2>1, OtherProgress
<1>6. QED
  BY <1>2, <1>3, <1>4, <1>5 DEF OwnProgress

LEMMA WriteTomlStep ==
    ASSUME IInv, NEW p \in Publishers, WriteToml(p), TypeOK'
    PROVE  IInv'
<1> USE NoneAssumption DEF WriteToml, Goto, Exists, IInv, TypeOK
<1>1. /\ owner[ver[p]] = p /\ ver[p] \in Versions
      /\ \A q \in Publishers \ {p} : Active(q) => ver[q] # ver[p]
  BY Alone DEF Active
<1>2. toml[ver[p]] # None /\ ipkg[ver[p]] = None
  BY DEF OwnProgress, Progress
<1>3. OnePublisher'
  BY DEF OnePublisher
<1>4. /\ toml'[ver[p]] = [by |-> toml[ver[p]].by, whole |-> TRUE]
      /\ Whole(toml'[ver[p]])
      /\ \A w \in Versions \ {ver[p]} : toml'[w] = toml[w]
  BY <1>1, <1>2, CompleteFile
<1>5. OwnFiles'
  <2>1. toml'[ver[p]].by = p
    <3>1. toml[ver[p]].by = p
      BY <1>1, <1>2 DEF OwnFiles
    <3>2. QED
      BY <1>4, <3>1
  <2>2. ASSUME NEW v \in Versions PROVE toml'[v] # None => Exists(v)' /\ toml'[v].by = owner'[v]
    BY <1>1, <1>4, <2>1 DEF OwnFiles
  <2>3. ASSUME NEW v \in Versions PROVE ipkg'[v] # None => Exists(v)' /\ ipkg'[v].by = owner'[v]
    BY DEF OwnFiles
  <2>4. QED
    BY <2>2, <2>3 DEF OwnFiles
<1>6. Progress(p)'
  BY <1>2, <1>4 DEF Progress, Whole
<1>7. \A q \in Publishers \ {p} : Progress(q)'
  BY <1>1, <1>4, OtherProgress
<1>8. QED
  BY <1>3, <1>5, <1>6, <1>7 DEF OwnProgress

LEMMA OpenIpkgStep ==
    ASSUME IInv, NEW p \in Publishers, OpenIpkg(p), TypeOK'
    PROVE  IInv'
<1> USE NoneAssumption DEF OpenIpkg, Goto, Exists, IInv, TypeOK
<1>1. /\ owner[ver[p]] = p /\ ver[p] \in Versions
      /\ \A q \in Publishers \ {p} : Active(q) => ver[q] # ver[p]
  BY Alone DEF Active
<1>2. OnePublisher'
  BY DEF OnePublisher
<1>3. OwnFiles'
  BY <1>1 DEF OwnFiles
<1>4. Progress(p)'
  <2>1. Whole(toml[ver[p]])
    BY DEF OwnProgress, Progress
  <2>2. ipkg'[ver[p]] # None /\ ~Whole(ipkg'[ver[p]])
    <3>1. [by |-> p, whole |-> FALSE] \in File
      BY DEF File
    <3>2. ipkg'[ver[p]] = [by |-> p, whole |-> FALSE]
      BY <1>1
    <3>3. QED
      BY <3>1, <3>2 DEF Whole
  <2>3. QED
    BY <2>1, <2>2 DEF Progress, Whole
<1>5. \A q \in Publishers \ {p} : Progress(q)'
  <2> TAKE q \in Publishers \ {p}
  <2>1. Active(q) => ipkg'[ver[q]] = ipkg[ver[q]]
    BY <1>1
  <2>2. QED
    BY <2>1, OtherProgress
<1>6. QED
  BY <1>2, <1>3, <1>4, <1>5 DEF OwnProgress

LEMMA WriteIpkgStep ==
    ASSUME IInv, NEW p \in Publishers, WriteIpkg(p), TypeOK'
    PROVE  IInv'
<1> USE NoneAssumption DEF WriteIpkg, Goto, Exists, IInv, TypeOK
<1>1. /\ owner[ver[p]] = p /\ ver[p] \in Versions
      /\ \A q \in Publishers \ {p} : Active(q) => ver[q] # ver[p]
  BY Alone DEF Active
<1>2. ipkg[ver[p]] # None
  BY DEF OwnProgress, Progress
<1>3. OnePublisher'
  BY DEF OnePublisher
<1>4. /\ ipkg'[ver[p]] = [by |-> ipkg[ver[p]].by, whole |-> TRUE]
      /\ \A w \in Versions \ {ver[p]} : ipkg'[w] = ipkg[w]
  BY <1>1, <1>2, CompleteFile
<1>5. OwnFiles'
  <2>1. ipkg'[ver[p]].by = p
    <3>1. ipkg[ver[p]].by = p
      BY <1>1, <1>2 DEF OwnFiles
    <3>2. QED
      BY <1>4, <3>1
  <2>2. ASSUME NEW v \in Versions PROVE ipkg'[v] # None => Exists(v)' /\ ipkg'[v].by = owner'[v]
    BY <1>1, <1>4, <2>1 DEF OwnFiles
  <2>3. ASSUME NEW v \in Versions PROVE toml'[v] # None => Exists(v)' /\ toml'[v].by = owner'[v]
    BY DEF OwnFiles
  <2>4. QED
    BY <2>2, <2>3 DEF OwnFiles
<1>6. Progress(p)'
  BY DEF Progress
<1>7. \A q \in Publishers \ {p} : Progress(q)'
  BY <1>1, <1>4, OtherProgress
<1>8. QED
  BY <1>3, <1>5, <1>6, <1>7 DEF OwnProgress

\* A publisher that begins, loses the race, fails to pack or dies leaves the
\* directories alone and is not at work on any.
LEMMA IdleStep ==
    ASSUME IInv, TypeOK', NEW p \in Publishers, UNCHANGED diskVars,
           pc' \in [Publishers -> Pcs], pc'[p] \in {"idle", "mkdir"},
           \A q \in Publishers \ {p} : pc'[q] = pc[q] /\ ver'[q] = ver[q]
    PROVE  IInv'
<1> USE DEF diskVars, IInv
<1>1. OnePublisher'
  BY DEF OnePublisher
<1>2. OwnFiles'
  BY DEF OwnFiles, Exists
<1>3. Progress(p)'
  BY DEF Progress
<1>4. \A q \in Publishers \ {p} : Progress(q)'
  BY OtherProgress
<1>5. QED
  BY <1>1, <1>2, <1>3, <1>4 DEF OwnProgress

LEMMA IInvStep == IInv /\ [Next]_vars => IInv'
<1> SUFFICES ASSUME IInv, [Next]_vars PROVE IInv'
  OBVIOUS
<1>1. TypeOK'
  BY TypeStep
<1>2. pc \in [Publishers -> Pcs] /\ ver \in [Publishers -> Versions]
  BY DEF IInv, TypeOK
<1>3. ASSUME NEW p \in Publishers, NEW v \in Versions, Begin(p, v) PROVE IInv'
  BY <1>1, <1>2, <1>3, IdleStep DEF Begin, Goto, TypeOK
<1>4. ASSUME NEW p \in Publishers, LosesRace(p) \/ PackFails(p) \/ Die(p) PROVE IInv'
  BY <1>1, <1>2, <1>4, IdleStep DEF LosesRace, PackFails, Die, Goto, TypeOK
<1>5. ASSUME NEW v \in Versions, Yank(v) PROVE IInv'
  <2>1. UNCHANGED <<owner, toml, ipkg, pc, ver>>
    BY <1>5 DEF Yank
  <2>2. (OnePublisher /\ OwnFiles /\ OwnProgress)'
    BY <2>1 DEF IInv, OnePublisher, OwnFiles, OwnProgress, Progress, Exists, Whole
  <2>3. QED
    BY <1>1, <2>2 DEF IInv
<1>6. CASE UNCHANGED vars
  <2>1. (OnePublisher /\ OwnFiles /\ OwnProgress)'
    BY <1>6 DEF vars, diskVars, IInv, OnePublisher, OwnFiles, OwnProgress, Progress, Exists, Whole
  <2>2. QED
    BY <1>1, <2>1 DEF IInv
<1>7. QED
  BY <1>1, <1>3, <1>4, <1>5, <1>6, MkdirStep, OpenTomlStep, WriteTomlStep, OpenIpkgStep,
     WriteIpkgStep DEF Next, Publishing, Refused

LEMMA DirectoryInvariant == Spec => []IInv
BY IInvInit, IInvStep, PTL DEF Spec

-----------------------------------------------------------------------------
\* Type correctness, for every number of publishers and versions.
THEOREM TypeCorrect == Spec => []TypeOK
<1>1. IInv => TypeOK
  BY DEF IInv
<1>2. QED
  BY <1>1, DirectoryInvariant, PTL

\* Only the publisher that created a version's directory writes in it: the
\* unguarded window between the check and mkdir does no harm.
THEOREM NoSecondPublisher == Spec => []OnePublisher
<1>1. IInv => OnePublisher
  BY DEF IInv
<1>2. QED
  BY <1>1, DirectoryInvariant, PTL

-----------------------------------------------------------------------------
(* What is listed can be fetched, and the promise of every registry.       *)

\* What a step does to what can be fetched of a version: WriteIpkg makes its
\* own version fetchable, no other step touches any.
LEMMA OnlyWriteIpkgCompletes ==
    ASSUME IInv, [Next]_vars, NEW v \in Versions,
           ~\E p \in Publishers : WriteIpkg(p) /\ ver[p] = v
    PROVE  /\ Fetchable(v)' <=> Fetchable(v)
           /\ Fetchable(v) => owner'[v] = owner[v]
<1> USE DEF Goto, IInv, TypeOK, Fetchable
<1>1. ASSUME NEW p \in Publishers, Mkdir(p)
      PROVE  (Fetchable(v)' <=> Fetchable(v)) /\ (Fetchable(v) => owner'[v] = owner[v])
  BY <1>1 DEF Mkdir, OwnFiles, Whole, Exists
<1>2. ASSUME NEW p \in Publishers, OpenToml(p)
      PROVE  (Fetchable(v)' <=> Fetchable(v)) /\ owner' = owner
  <2>1. ipkg[ver[p]] = None /\ ipkg' = ipkg
    BY <1>2 DEF OwnProgress, Progress, OpenToml
  <2>2. v # ver[p] => toml'[v] = toml[v]
    BY <1>2 DEF OpenToml
  <2>3. QED
    BY <1>2, <2>1, <2>2 DEF OpenToml, Whole
<1>3. ASSUME NEW p \in Publishers, WriteToml(p)
      PROVE  (Fetchable(v)' <=> Fetchable(v)) /\ owner' = owner
  <2>1. ipkg[ver[p]] = None /\ ipkg' = ipkg
    BY <1>3 DEF OwnProgress, Progress, WriteToml
  <2>2. v # ver[p] => toml'[v] = toml[v]
    BY <1>3 DEF WriteToml
  <2>3. QED
    BY <1>3, <2>1, <2>2 DEF WriteToml, Whole
<1>4. ASSUME NEW p \in Publishers, OpenIpkg(p)
      PROVE  (Fetchable(v)' <=> Fetchable(v)) /\ owner' = owner
  <2>1. ipkg[ver[p]] = None /\ toml' = toml /\ owner' = owner
    BY <1>4 DEF OwnProgress, Progress, OpenIpkg
  <2>2. v # ver[p] => ipkg'[v] = ipkg[v]
    BY <1>4 DEF OpenIpkg
  <2>3. v = ver[p] => ~Whole(ipkg'[v])
    <3>1. v = ver[p] => ipkg'[v] = [by |-> p, whole |-> FALSE]
      BY <1>4 DEF OpenIpkg
    <3>2. QED
      BY <3>1 DEF Whole
  <2>4. QED
    BY <2>1, <2>2, <2>3 DEF Whole
<1>5. ASSUME NEW p \in Publishers, WriteIpkg(p)
      PROVE  (Fetchable(v)' <=> Fetchable(v)) /\ owner' = owner
  <2>1. ver[p] # v
    BY <1>5
  <2>2. ipkg'[v] = ipkg[v] /\ toml' = toml /\ owner' = owner
    BY <1>5, <2>1 DEF WriteIpkg
  <2>3. QED
    BY <2>2 DEF Whole
<1>6. CASE UNCHANGED <<owner, toml, ipkg>>
  BY <1>6 DEF Whole
<1>7. QED
  BY <1>1, <1>2, <1>3, <1>4, <1>5, <1>6
     DEF Next, Publishing, Refused, Begin, LosesRace, PackFails, Die, Yank, vars, diskVars

\* WriteIpkg turns what could not be fetched into the writer's own core.
LEMMA WriteIpkgCompletes ==
    ASSUME IInv, NEW p \in Publishers, WriteIpkg(p)
    PROVE  /\ ver[p] \in Versions
           /\ ~Fetchable(ver[p])
           /\ Fetchable(ver[p])'
           /\ owner'[ver[p]] = p
<1>1. ver[p] \in Versions /\ owner[ver[p]] = p /\ owner' = owner /\ ver' = ver
  BY DEF WriteIpkg, IInv, TypeOK, OnePublisher
<1>2. Whole(toml[ver[p]]) /\ ipkg[ver[p]] # None /\ ~Whole(ipkg[ver[p]])
  BY DEF WriteIpkg, IInv, OwnProgress, Progress
<1>3. Whole(ipkg'[ver[p]]) /\ toml' = toml
  BY <1>1, <1>2, CompleteFile DEF WriteIpkg, IInv, TypeOK
<1>4. QED
  BY <1>1, <1>2, <1>3 DEF Fetchable, Whole

\* A version that cannot be fetched is being worked on, or its publisher gave
\* up.
Explained ==
    \A v \in Versions : Exists(v) /\ ~Fetchable(v) =>
        v \in stuck \/ \E p \in Publishers : Active(p) /\ ver[p] = v

LEMMA ExplainedInit == Init => Explained
BY DEF Init, Explained, Exists

LEMMA ExplainedStep == IInv /\ Explained /\ [Next]_vars => Explained'
<1> SUFFICES ASSUME IInv, Explained, [Next]_vars, NEW v \in Versions,
                    Exists(v)', ~Fetchable(v)'
             PROVE  v \in stuck' \/ \E p \in Publishers : Active(p)' /\ ver'[p] = v
  BY DEF Explained
<1> USE DEF Goto, IInv, TypeOK, Pcs
<1>1. ~\E p \in Publishers : WriteIpkg(p) /\ ver[p] = v
  <2> SUFFICES ASSUME NEW p \in Publishers, WriteIpkg(p), ver[p] = v PROVE FALSE
    OBVIOUS
  <2>1. ver' = ver
    BY DEF WriteIpkg
  <2>2. Fetchable(ver[p])'
    BY WriteIpkgCompletes
  <2>3. QED
    BY <2>1, <2>2 DEF Fetchable
<1>2. ~Fetchable(v)
  BY <1>1, OnlyWriteIpkgCompletes
<1>3. stuck \subseteq stuck'
  BY DEF Next, Publishing, Refused, Begin, Mkdir, LosesRace, OpenToml, WriteToml, PackFails,
         OpenIpkg, WriteIpkg, Die, Yank, vars
<1>4. CASE ~Exists(v)
  <2>1. PICK p \in Publishers : Mkdir(p)
    BY <1>4 DEF Next, Publishing, Refused, Begin, Mkdir, LosesRace, OpenToml, WriteToml,
                PackFails, OpenIpkg, WriteIpkg, Die, Yank, vars, diskVars, Exists
  <2>2. ver'[p] = v /\ pc'[p] = "opentoml"
    BY <1>4, <2>1 DEF Mkdir, Exists
  <2>3. QED
    BY <2>2 DEF Active
<1>5. CASE v \in stuck
  BY <1>3, <1>5
<1>6. ASSUME NEW p \in Publishers, Active(p), ver[p] = v
      PROVE  v \in stuck' \/ \E q \in Publishers : Active(q)' /\ ver'[q] = v
  <2>1. ASSUME NEW q \in Publishers, NEW w \in Versions, Begin(q, w) PROVE Active(p)' /\ ver'[p] = v
    BY <1>6, <2>1 DEF Begin, Active
  <2>2. ASSUME NEW q \in Publishers, Mkdir(q) \/ LosesRace(q) \/ OpenToml(q) \/ WriteToml(q) \/ OpenIpkg(q)
        PROVE  Active(p)' /\ ver'[p] = v
    BY <1>6, <2>2 DEF Mkdir, LosesRace, OpenToml, WriteToml, OpenIpkg, Active
  <2>3. ASSUME NEW q \in Publishers, WriteIpkg(q) PROVE Active(p)' /\ ver'[p] = v
    BY <1>1, <1>6, <2>3 DEF WriteIpkg, Active
  <2>4. ASSUME NEW q \in Publishers, PackFails(q) \/ Die(q)
        PROVE  v \in stuck' \/ (Active(p)' /\ ver'[p] = v)
    BY <1>6, <2>4 DEF PackFails, Die, Active
  <2>5. CASE UNCHANGED <<pc, ver>>
    BY <1>6, <2>5 DEF Active
  <2>6. QED
    BY <2>1, <2>2, <2>3, <2>4, <2>5 DEF Next, Publishing, Refused, Yank, vars
<1>7. QED
  BY <1>2, <1>4, <1>5, <1>6 DEF Explained

\* A listed version that cannot be fetched is still being published, or its
\* publisher died or could not pack.
THEOREM ListedFetchable == Spec => []ListedIsFetchable
<1>1. Explained => ListedIsFetchable
  BY DEF Explained, ListedIsFetchable, Listed, Active
<1>2. Spec => []Explained
  BY DirectoryInvariant, ExplainedInit, ExplainedStep, PTL DEF Spec
<1>3. QED
  BY <1>1, <1>2, PTL

\* Whose core a version is, told by who created the directory.
LEMMA CoreIsOwners ==
    ASSUME IInv, NEW v \in Versions
    PROVE  CoreOf(v) = IF Fetchable(v) THEN owner[v] ELSE None
BY DEF IInv, OwnFiles, CoreOf, Fetchable, Whole

LEMMA CoreIsOwnersNext ==
    ASSUME IInv', NEW v \in Versions
    PROVE  CoreOf(v)' = IF Fetchable(v)' THEN owner'[v] ELSE None
BY DEF IInv, OwnFiles, CoreOf, Fetchable, Whole

LEMMA PromiseInit == Init => Registry!Init
<1> SUFFICES ASSUME Init PROVE Registry!Init
  OBVIOUS
<1>1. \A v \in Versions : CoreOf(v) = None
  BY DEF Init, CoreOf, Fetchable, Whole
<1>2. QED
  BY <1>1 DEF Init, Registry!Init

LEMMA PromiseStep ==
    IInv /\ IInv' /\ [Next]_vars =>
        [Registry!Next]_<<[v \in Versions |-> CoreOf(v)], yanked>>
<1> SUFFICES ASSUME IInv, IInv', [Next]_vars
             PROVE  [Registry!Next]_<<[v \in Versions |-> CoreOf(v)], yanked>>
  OBVIOUS
<1>1. \A v \in Versions :
        /\ CoreOf(v) = IF Fetchable(v) THEN owner[v] ELSE None
        /\ CoreOf(v)' = IF Fetchable(v)' THEN owner'[v] ELSE None
  BY CoreIsOwners, CoreIsOwnersNext
<1>2. ASSUME NEW v \in Versions, ~\E p \in Publishers : WriteIpkg(p) /\ ver[p] = v
      PROVE  CoreOf(v)' = CoreOf(v)
  BY <1>1, <1>2, OnlyWriteIpkgCompletes
<1>3. ASSUME NEW p \in Publishers, WriteIpkg(p)
      PROVE  Registry!Publish(p, ver[p]) /\ ver[p] \in Versions
  <2>1. ver[p] \in Versions /\ CoreOf(ver[p]) = None /\ CoreOf(ver[p])' = p /\ ver' = ver
    BY <1>1, <1>3, WriteIpkgCompletes DEF WriteIpkg
  <2>2. \A v \in Versions \ {ver[p]} : CoreOf(v)' = CoreOf(v)
    <3> TAKE v \in Versions \ {ver[p]}
    <3>1. ~\E q \in Publishers : WriteIpkg(q) /\ ver[q] = v
      BY <1>3 DEF WriteIpkg, Goto, IInv, TypeOK
    <3>2. QED
      BY <1>2, <3>1
  <2>3. yanked' = yanked
    BY <1>3 DEF WriteIpkg
  <2>4. QED
    BY <2>1, <2>2, <2>3 DEF Registry!Publish
<1>4. ASSUME ~\E p \in Publishers : WriteIpkg(p)
      PROVE  [v \in Versions |-> CoreOf(v)]' = [v \in Versions |-> CoreOf(v)]
  BY <1>2, <1>4
<1>5. ASSUME NEW v \in Versions, Yank(v) PROVE Registry!Yank(v)
  <2>1. ~\E p \in Publishers : WriteIpkg(p)
    BY <1>5 DEF Yank, WriteIpkg, Goto, IInv, TypeOK
  <2>2. QED
    BY <1>4, <1>5, <2>1 DEF Registry!Yank, Yank
<1>6. CASE yanked' = yanked
  BY <1>3, <1>4, <1>6 DEF Registry!Next
<1>7. yanked' # yanked => \E v \in Versions : Yank(v)
  BY DEF Next, Publishing, Refused, Begin, Mkdir, LosesRace, OpenToml, WriteToml, PackFails,
         OpenIpkg, WriteIpkg, Die, vars, diskVars
<1>8. QED
  BY <1>5, <1>6, <1>7 DEF Registry!Next

\* A local registry implements the promise of every registry: a version that
\* can be fetched is one publisher's core for good.
THEOREM PromiseKept == Spec => KeepsThePromise
<1>1. Spec => Registry!Init
  BY PromiseInit DEF Spec
<1>2. QED
  BY <1>1, DirectoryInvariant, PromiseStep, PTL DEF Spec, KeepsThePromise, Registry!Spec
=============================================================================
