---------------------------- MODULE RemoteProofs ----------------------------
(***************************************************************************)
(* Publishing over HTTP, and the credentials file that gives access, each  *)
(* for any number of processes.  The two share no state.                   *)
(*                                                                         *)
(* HttpRegistry: the list is put last and files are only ever replaced, so *)
(* what a publisher has read or put is there when it puts the list         *)
(* (FilesFirst).  That an acknowledged version stays needs more: without   *)
(* an overlap one publisher is at work, and what it read, if it could      *)
(* read, is still the list (AloneAndCurrent); its own files are the ones   *)
(* it has put (OwnFiles).                                                  *)
(*                                                                         *)
(* Credentials: PublishedIsLastSave says nothing of a file before it is    *)
(* published, so it is not inductive.  A file that is not shared has one   *)
(* writer, is still under the temporary name, and holds nothing until the  *)
(* writer has written and its text from then on (WritersAlone).  That no   *)
(* other host is lost needs that whoever was not left behind still has the *)
(* others as they are stored (KeepsOthers), and that reading a text gives  *)
(* the store it was written of (RoundTrip).                                *)
(***************************************************************************)
EXTENDS HttpRegistry, Credentials, FiniteSetTheorems, SequenceTheorems, TLAPS

FilesFirst ==
    \A p \in Publishers :
        /\ \A v \in names[p] : toml[v] # None /\ ipkg[v] # None
        /\ pc[p] \in {"ipkg", "list"} => toml[ver[p]] # None
        /\ pc[p] = "list" => ipkg[ver[p]] # None

AloneAndCurrent ==
    ~raced => /\ \A p, q \in AtWork : p = q
              /\ \A p \in AtWork \ blind : names[p] = listed

OwnFiles ==
    ~raced => \A p \in Publishers :
        /\ pc[p] \in {"ipkg", "list"} => toml[ver[p]] = p
        /\ pc[p] = "list" => ipkg[ver[p]] = p

IInv ==
    /\ TypeOK
    /\ ListedIsFetchable
    /\ FilesFirst
    /\ AloneAndCurrent
    /\ OwnFiles
    /\ blinded \/ blind = {}
    /\ AckedStays

-----------------------------------------------------------------------------
(* Type correctness.                                                       *)

\* A PUT of a file is the same whether or not its answer arrives.
TomlIsPut(p) ==
    /\ pc[p] = "toml"
    /\ toml' = [toml EXCEPT ![ver[p]] = p]
    /\ UNCHANGED <<listed, ipkg>>

IpkgIsPut(p) ==
    /\ pc[p] = "ipkg"
    /\ ipkg' = [ipkg EXCEPT ![ver[p]] = p]
    /\ UNCHANGED <<listed, toml>>

ListIsPut(p) ==
    /\ pc[p] = "list"
    /\ listed' = names[p] \cup {ver[p]}
    /\ UNCHANGED <<toml, ipkg>>

LEMMA TypeInit == Init => TypeOK
BY NoneAssumption DEF Init, TypeOK, AtWork

LEMMA TypeStep == TypeOK /\ [Next]_vars => TypeOK'
<1> SUFFICES ASSUME TypeOK, [Next]_vars PROVE TypeOK'
  OBVIOUS
<1> USE NoneAssumption DEF TypeOK, AtWork
<1>1. ASSUME NEW p \in Publishers, NEW v \in Versions, ReadsList(p, v) \/ MissesList(p, v)
      PROVE  TypeOK'
  <2>1. /\ pc' = [pc EXCEPT ![p] = "toml"]
        /\ ver' = [ver EXCEPT ![p] = v]
        /\ UNCHANGED <<listed, toml, ipkg, acked>>
        /\ \/ /\ v \notin listed
              /\ names' = [names EXCEPT ![p] = listed]
              /\ UNCHANGED blind
           \/ /\ names' = [names EXCEPT ![p] = {}]
              /\ blind' = blind \cup {p}
    BY <1>1 DEF ReadsList, MissesList, Enter, serverVars
  <2>2. raced' \in BOOLEAN /\ blinded' \in BOOLEAN
    BY <1>1, Zenon DEF ReadsList, MissesList, Enter
  <2>3. /\ listed' \subseteq Versions
        /\ toml' \in [Versions -> Publishers \cup {None}]
        /\ ipkg' \in [Versions -> Publishers \cup {None}]
        /\ pc' \in [Publishers -> {"idle", "toml", "ipkg", "list"}]
        /\ ver' \in [Publishers -> Versions \cup {None}]
        /\ names' \in [Publishers -> SUBSET Versions]
        /\ acked' \subseteq Publishers \X Versions
    BY <2>1
  <2>4. \A q \in AtWork' : ver'[q] \in Versions /\ ver'[q] \notin names'[q]
    BY <2>1
  <2>5. blind' \subseteq AtWork'
    BY <2>1
  <2>6. QED
    BY <2>2, <2>3, <2>4, <2>5
<1>2. ASSUME NEW p \in Publishers, PutToml(p) PROVE TypeOK'
  BY <1>2 DEF PutToml, histVars
<1>3. ASSUME NEW p \in Publishers, PutIpkg(p) PROVE TypeOK'
  BY <1>3 DEF PutIpkg, histVars
<1>4. ASSUME NEW p \in Publishers, PutList(p) PROVE TypeOK'
  BY <1>4 DEF PutList, Leave
<1>5. ASSUME NEW p \in Publishers, AckLost(p) PROVE TypeOK'
  <2>1. /\ Leave(p)
        /\ UNCHANGED histVars
    BY <1>5 DEF AckLost
  <2>2. CASE TomlIsPut(p)
    BY <2>1, <2>2 DEF TomlIsPut, Leave, histVars
  <2>3. CASE IpkgIsPut(p)
    BY <2>1, <2>3 DEF IpkgIsPut, Leave, histVars
  <2>4. CASE ListIsPut(p)
    BY <2>1, <2>4 DEF ListIsPut, Leave, histVars
  <2>5. QED
    BY <1>5, <2>2, <2>3, <2>4 DEF AckLost, TomlIsPut, IpkgIsPut, ListIsPut
<1>6. ASSUME NEW p \in Publishers, Stop(p) PROVE TypeOK'
  BY <1>6 DEF Stop, Leave, serverVars, histVars
<1>7. CASE UNCHANGED vars
  BY <1>7 DEF vars, serverVars, histVars
<1>8. QED
  BY <1>1, <1>2, <1>3, <1>4, <1>5, <1>6, <1>7 DEF Next, Refused

\* Type correctness of the package on the server, for any number of publishers.
THEOREM TypeCorrect == Spec => []TypeOK
BY TypeInit, TypeStep, PTL DEF Spec

-----------------------------------------------------------------------------
(* The inductive invariant, one lemma per kind of request.                 *)

LEMMA IInvInit == Init => IInv
BY TypeInit, NoneAssumption
   DEF Init, IInv, ListedIsFetchable, FilesFirst, AloneAndCurrent, OwnFiles, AckedStays, AtWork

\* A publish begins: what it has read of the list is there, and nobody else is at
\* work or raced is set.
LEMMA EnterStep ==
    ASSUME IInv, TypeOK', NEW p \in Publishers, NEW v \in Versions,
           ReadsList(p, v) \/ MissesList(p, v)
    PROVE  IInv'
<1> USE NoneAssumption DEF IInv, TypeOK
<1>1. /\ pc[p] = "idle"
      /\ pc' = [pc EXCEPT ![p] = "toml"]
      /\ ver' = [ver EXCEPT ![p] = v]
      /\ raced' = (raced \/ AtWork # {})
      /\ UNCHANGED <<serverVars, acked>>
      /\ \/ /\ names' = [names EXCEPT ![p] = listed]
            /\ UNCHANGED <<blind, blinded>>
         \/ /\ names' = [names EXCEPT ![p] = {}]
            /\ blind' = blind \cup {p}
            /\ blinded' = TRUE
  BY DEF ReadsList, MissesList, Enter
<1>2. ListedIsFetchable' /\ FilesFirst'
  BY <1>1 DEF ListedIsFetchable, FilesFirst, serverVars
<1>3. AloneAndCurrent'
  <2> SUFFICES ASSUME ~raced'
               PROVE  /\ \A q, r \in AtWork' : q = r
                      /\ \A q \in AtWork' \ blind' : names'[q] = listed'
    BY DEF AloneAndCurrent
  <2>1. ~raced /\ AtWork = {}
    BY <1>1, Zenon
  <2>2. AtWork' = {p}
    BY <1>1, <2>1 DEF AtWork
  <2>3. p \notin blind' => names'[p] = listed'
    BY <1>1 DEF serverVars
  <2>4. QED
    BY <2>2, <2>3
<1>4. OwnFiles'
  BY <1>1 DEF OwnFiles, serverVars
<1>5. (blinded \/ blind = {})' /\ AckedStays'
  BY <1>1 DEF AckedStays, serverVars
<1>6. QED
  BY <1>2, <1>3, <1>4, <1>5

\* A publisher that has no overlap and could read works on a version that is not
\* in the list, hence not acknowledged.
LEMMA AloneIsNew ==
    ASSUME IInv, NEW p \in AtWork, ~raced, ~blinded
    PROVE  /\ names[p] = listed
           /\ ver[p] \notin listed
           /\ \A a \in acked : a[2] # ver[p]
BY DEF IInv, TypeOK, AloneAndCurrent, AckedStays, AtWork

\* A file is put, and the publisher goes on or, without an answer, stops.
LEMMA PutFileStep ==
    ASSUME IInv, TypeOK', NEW p \in Publishers, UNCHANGED histVars,
           \/ TomlIsPut(p) /\ (Leave(p) \/ PutToml(p))
           \/ IpkgIsPut(p) /\ (Leave(p) \/ PutIpkg(p))
    PROVE  IInv'
<1> USE NoneAssumption DEF IInv, TypeOK
<1>1. /\ p \in AtWork
      /\ ver[p] \in Versions
      /\ listed' = listed
      /\ \A v \in Versions : toml'[v] = toml[v] \/ (v = ver[p] /\ toml'[v] = p)
      /\ \A v \in Versions : ipkg'[v] = ipkg[v] \/ (v = ver[p] /\ ipkg'[v] = p)
      /\ UNCHANGED <<acked, raced, blinded>>
  BY DEF TomlIsPut, IpkgIsPut, AtWork, histVars
<1>2. /\ \A q \in Publishers \ {p} :
            pc'[q] = pc[q] /\ ver'[q] = ver[q] /\ names'[q] = names[q]
      /\ \/ /\ pc'[p] = "idle" /\ names'[p] = {} /\ blind' = blind \ {p}
         \/ /\ pc[p] = "toml" /\ pc'[p] = "ipkg" /\ toml'[ver[p]] = p
            /\ UNCHANGED <<ver, names, blind>>
         \/ /\ pc[p] = "ipkg" /\ pc'[p] = "list" /\ ipkg'[ver[p]] = p /\ toml' = toml
            /\ UNCHANGED <<ver, names, blind>>
  BY <1>1 DEF TomlIsPut, IpkgIsPut, PutToml, PutIpkg, Leave
<1>3. ListedIsFetchable'
  BY <1>1 DEF ListedIsFetchable
<1>4. FilesFirst'
  <2> SUFFICES ASSUME NEW q \in Publishers
               PROVE  /\ \A v \in names'[q] : toml'[v] # None /\ ipkg'[v] # None
                      /\ pc'[q] \in {"ipkg", "list"} => toml'[ver'[q]] # None
                      /\ pc'[q] = "list" => ipkg'[ver'[q]] # None
    BY DEF FilesFirst
  <2>1. CASE q = p
    BY <1>1, <1>2, <2>1 DEF FilesFirst
  <2>2. CASE q # p
    <3>1. pc[q] # "idle" => ver[q] \in Versions
      BY DEF AtWork
    <3>2. QED
      BY <1>1, <1>2, <2>2, <3>1 DEF FilesFirst
  <2>3. QED
    BY <2>1, <2>2
<1>5. AloneAndCurrent'
  BY <1>1, <1>2 DEF AloneAndCurrent, AtWork
<1>6. OwnFiles'
  <2> SUFFICES ASSUME ~raced, NEW q \in Publishers
               PROVE  /\ pc'[q] \in {"ipkg", "list"} => toml'[ver'[q]] = q
                      /\ pc'[q] = "list" => ipkg'[ver'[q]] = q
    BY <1>1 DEF OwnFiles
  <2>1. CASE q = p
    BY <1>1, <1>2, <2>1 DEF OwnFiles
  <2>2. CASE q # p
    BY <1>1, <1>2, <2>2 DEF AloneAndCurrent, AtWork
  <2>3. QED
    BY <2>1, <2>2
<1>7. (blinded \/ blind = {})'
  BY <1>1, <1>2
<1>8. AckedStays'
  BY <1>1, AloneIsNew DEF AckedStays
<1>9. QED
  BY <1>3, <1>4, <1>5, <1>6, <1>7, <1>8

\* The list is put: what it names has its files, and the publisher is done, told so
\* or not.
LEMMA PutListStep ==
    ASSUME IInv, TypeOK', NEW p \in Publishers, ListIsPut(p), Leave(p),
           UNCHANGED <<raced, blinded>>, acked' \in {acked, acked \cup {<<p, ver[p]>>}}
    PROVE  IInv'
<1> USE NoneAssumption DEF IInv, TypeOK
<1>1. p \in AtWork /\ ver[p] \in Versions
  BY DEF ListIsPut, AtWork
<1>2. ListedIsFetchable' /\ FilesFirst'
  BY <1>1 DEF ListedIsFetchable, FilesFirst, ListIsPut, Leave
<1>3. AloneAndCurrent'
  BY <1>1 DEF AloneAndCurrent, ListIsPut, Leave, AtWork
<1>4. OwnFiles'
  BY <1>1 DEF OwnFiles, ListIsPut, Leave
<1>5. (blinded \/ blind = {})'
  BY DEF Leave
<1>6. AckedStays'
  <2> SUFFICES ASSUME ~raced, ~blinded, NEW a \in acked'
               PROVE  a[2] \in listed' /\ toml'[a[2]] = a[1] /\ ipkg'[a[2]] = a[1]
    BY DEF AckedStays
  <2>1. CASE a \in acked
    BY <1>1, <2>1, AloneIsNew DEF AckedStays, ListIsPut
  <2>2. CASE a = <<p, ver[p]>>
    BY <1>1, <2>2 DEF OwnFiles, ListIsPut
  <2>3. QED
    BY <2>1, <2>2
<1>7. QED
  BY <1>2, <1>3, <1>4, <1>5, <1>6

\* A publisher that stops leaves the server as it is.
LEMMA StopStep ==
    ASSUME IInv, TypeOK', NEW p \in Publishers, Stop(p)
    PROVE  IInv'
BY DEF IInv, TypeOK, Stop, Leave, serverVars, histVars, ListedIsFetchable, FilesFirst,
       AloneAndCurrent, OwnFiles, AckedStays, AtWork

LEMMA IInvStep == IInv /\ [Next]_vars => IInv'
<1> SUFFICES ASSUME IInv, [Next]_vars PROVE IInv'
  OBVIOUS
<1>1. TypeOK'
  BY TypeStep DEF IInv
<1>2. ASSUME NEW p \in Publishers, PutToml(p) PROVE IInv'
  BY <1>1, <1>2, PutFileStep DEF PutToml, TomlIsPut
<1>3. ASSUME NEW p \in Publishers, PutIpkg(p) PROVE IInv'
  BY <1>1, <1>3, PutFileStep DEF PutIpkg, IpkgIsPut
<1>4. ASSUME NEW p \in Publishers, PutList(p) PROVE IInv'
  BY <1>1, <1>4, PutListStep DEF PutList, ListIsPut
<1>5. ASSUME NEW p \in Publishers, AckLost(p) PROVE IInv'
  <2>1. Leave(p) /\ UNCHANGED histVars /\ acked' = acked /\ UNCHANGED <<raced, blinded>>
    BY <1>5 DEF AckLost, histVars
  <2>2. TomlIsPut(p) \/ IpkgIsPut(p) \/ ListIsPut(p)
    BY <1>5 DEF AckLost, TomlIsPut, IpkgIsPut, ListIsPut
  <2>3. QED
    BY <1>1, <2>1, <2>2, PutFileStep, PutListStep
<1>6. CASE UNCHANGED vars
  BY <1>6 DEF vars, serverVars, histVars, IInv, TypeOK, ListedIsFetchable, FilesFirst,
              AloneAndCurrent, OwnFiles, AckedStays, AtWork
<1>7. QED
  BY <1>1, <1>2, <1>3, <1>4, <1>5, <1>6, EnterStep, StopStep DEF Next, Refused

-----------------------------------------------------------------------------
(* The theorems.                                                           *)

LEMMA Invariance == Spec => []IInv
BY IInvInit, IInvStep, PTL DEF Spec

\* publish_core puts versions.json last: a version in the list has both its files,
\* whoever crashed, raced or could not read the list.
THEOREM ListedFetchable == Spec => []ListedIsFetchable
<1>1. IInv => ListedIsFetchable
  BY DEF IInv
<1>2. QED
  BY <1>1, Invariance, PTL

\* An acknowledged publish stays, with its own files, as long as no publishers
\* overlapped and every one could read the list.
THEOREM AcknowledgedStays == Spec => []AckedStays
<1>1. IInv => AckedStays
  BY DEF IInv
<1>2. QED
  BY <1>1, Invariance, PTL

\* Without an overlap, only a publisher that could not read the list takes a
\* version out of it.
THEOREM VanishingExplained == Spec => VanishesOnlyUnseen
<1>1. IInv /\ [Next]_vars => [listed \subseteq listed' \/ raced \/ \E p \in blind : pc[p] = "list"]_vars
  <2> SUFFICES ASSUME IInv, Next, ~raced, NEW w \in listed, w \notin listed'
               PROVE  \E p \in blind : pc[p] = "list"
    OBVIOUS
  <2>1. PICK p \in Publishers : ListIsPut(p)
    BY DEF Next, Refused, ReadsList, MissesList, PutToml, PutIpkg, PutList, AckLost, Stop,
           ListIsPut, vars, serverVars
  <2>2. p \in AtWork /\ names[p] # listed
    BY <2>1 DEF ListIsPut, AtWork
  <2>3. QED
    BY <2>1, <2>2 DEF IInv, AloneAndCurrent, ListIsPut
<1>2. QED
  BY <1>1, Invariance, PTL DEF Spec, VanishesOnlyUnseen

-----------------------------------------------------------------------------
(* The credentials file: a writer alone.                                   *)

\* What of the type matters here: who stands where, and which files there are.
Shape ==
    /\ {name, temp} \subseteq Files \cup {Absent}
    /\ content = [f \in Files |-> content[f]]
    /\ stage \in [Procs -> {"idle", "open", "write", "rename"}]
    /\ store = [p \in Procs |-> store[p]]
    /\ fd \in [Procs -> Files \cup {Absent}]
    /\ \A p \in Procs : Saving(p) => fd[p] \in Files

\* The published file is not under the temporary name, so opening that name
\* truncates no published file.
NamesApart == name # Absent => name # temp

WritersAlone ==
    \A p \in Procs : Saving(p) /\ fd[p] \notin shared =>
        /\ fd[p] = temp
        /\ \A q \in Procs : Saving(q) /\ fd[q] = fd[p] => q = p
        /\ content[fd[p]] = IF stage[p] = "write" THEN <<>> ELSE ToToml(store[p])

StoreInv == Shape /\ NamesApart /\ WritersAlone /\ PublishedIsLastSave

-----------------------------------------------------------------------------
(* The inductive invariant of the credentials file.                        *)

\* The temporary name leads to the file that is there, or to one that is free.
LEMMA OpenableIsFree ==
    ASSUME Shape, NamesApart, NEW f \in Openable
    PROVE  /\ f \in Files /\ f # name
           /\ f = temp \/ \A q \in Procs : ~(Saving(q) /\ fd[q] = f)
BY AbsentAssumption DEF Shape, NamesApart, Openable, InUse

LEMMA StoreInvInit == CSInit => StoreInv
BY AbsentAssumption
   DEF CSInit, StoreInv, Shape, NamesApart, WritersAlone, PublishedIsLastSave, Saving, Nobody

\* Processes that do not save, or not any more, change nothing that matters.
LEMMA QuietStep ==
    ASSUME StoreInv, NEW p \in Procs, UNCHANGED <<name, temp, content, shared, last>>,
           stage' \in [Procs -> {"idle", "open", "write", "rename"}],
           ~Saving(p)',
           fd' \in [Procs -> Files \cup {Absent}], store' = [q \in Procs |-> store'[q]],
           \A q \in Procs \ {p} : stage'[q] = stage[q] /\ fd'[q] = fd[q] /\ store'[q] = store[q]
    PROVE  StoreInv'
<1>1. \A q \in Procs : Saving(q)' => q # p /\ Saving(q) /\ stage'[q] = stage[q] /\ fd'[q] = fd[q]
                                     /\ store'[q] = store[q]
  BY DEF Saving
<1>2. Shape'
  BY <1>1 DEF StoreInv, Shape
<1>3. NamesApart' /\ PublishedIsLastSave'
  BY DEF StoreInv, NamesApart, PublishedIsLastSave
<1>4. WritersAlone'
  BY <1>1 DEF StoreInv, WritersAlone
<1>5. QED
  BY <1>2, <1>3, <1>4 DEF StoreInv

\* What Ends does to the processes.
LEMMA EndsIsQuiet ==
    ASSUME Shape, NEW p \in Procs, Ends(p)
    PROVE  /\ stage' \in [Procs -> {"idle", "open", "write", "rename"}]
           /\ ~Saving(p)'
           /\ fd' \in [Procs -> Files \cup {Absent}]
           /\ store' = [q \in Procs |-> store'[q]]
           /\ \A q \in Procs \ {p} : stage'[q] = stage[q] /\ fd'[q] = fd[q] /\ store'[q] = store[q]
BY DEF Shape, Ends, Saving

LEMMA OpenStep ==
    ASSUME StoreInv, NEW p \in Procs, OpenTmp(p)
    PROVE  StoreInv'
<1> USE DEF StoreInv
<1>1. PICK f \in Openable :
        /\ temp' = f
        /\ content' = [content EXCEPT ![f] = <<>>]
        /\ fd' = [fd EXCEPT ![p] = f]
        /\ shared' = IF \E q \in Procs : Saving(q) /\ fd[q] = f
                     THEN shared \cup {f} ELSE shared \ {f}
  BY DEF OpenTmp
<1>2. /\ f \in Files /\ f # name
      /\ f = temp \/ \A q \in Procs : ~(Saving(q) /\ fd[q] = f)
  BY OpenableIsFree
<1>3. /\ stage' = [stage EXCEPT ![p] = "write"]
      /\ stage[p] = "open"
      /\ UNCHANGED <<name, store, last>>
  BY DEF OpenTmp
<1>4. Shape'
  BY <1>1, <1>2, <1>3 DEF Shape, Saving
<1>5. NamesApart'
  BY <1>1, <1>2, <1>3 DEF NamesApart
<1>6. ASSUME NEW q \in Procs, Saving(q)', fd'[q] \notin shared', q # p
      PROVE  FALSE
  <2>1. Saving(q) /\ fd'[q] = fd[q]
    BY <1>1, <1>3, <1>6 DEF Shape, Saving
  <2>2. fd[q] # f /\ fd[q] \notin shared
    BY <1>1, <1>6, <2>1
  <2>3. fd[q] = temp /\ fd[q] \in Files
    BY <2>1, <2>2 DEF WritersAlone, Shape
  <2>4. f = temp
    BY <1>1, <2>3, AbsentAssumption DEF Openable
  <2>5. QED
    BY <2>2, <2>3, <2>4
<1>7. ASSUME f \notin shared', NEW q \in Procs, Saving(q)', fd'[q] = f
      PROVE  q = p
  BY <1>1, <1>3, <1>7 DEF Shape, Saving
<1>8. WritersAlone'
  <2> SUFFICES ASSUME NEW q \in Procs, Saving(q)', fd'[q] \notin shared'
               PROVE  /\ fd'[q] = temp'
                      /\ \A r \in Procs : Saving(r)' /\ fd'[r] = fd'[q] => r = q
                      /\ content'[fd'[q]] = IF stage'[q] = "write" THEN <<>> ELSE ToToml(store[q])'
    BY DEF WritersAlone
  <2>1. q = p /\ fd'[q] = f /\ stage'[q] = "write"
    BY <1>1, <1>3, <1>6 DEF Shape
  <2>2. content'[f] = <<>>
    BY <1>1, <1>2 DEF Shape
  <2>3. QED
    BY <1>1, <1>7, <2>1, <2>2
<1>9. PublishedIsLastSave'
  BY <1>1, <1>2, <1>3 DEF PublishedIsLastSave, Shape
<1>10. QED
  BY <1>4, <1>5, <1>8, <1>9

LEMMA WriteStep ==
    ASSUME StoreInv, NEW p \in Procs, WriteTmp(p)
    PROVE  StoreInv'
<1> USE DEF StoreInv
<1>1. PICK text \in Overlay(ToToml(store[p]), content[fd[p]]) :
        content' = [content EXCEPT ![fd[p]] = text]
  BY DEF WriteTmp
<1>2. /\ stage[p] = "write" /\ Saving(p) /\ fd[p] \in Files
      /\ stage' = [stage EXCEPT ![p] = "rename"]
      /\ UNCHANGED <<name, temp, store, fd, shared, last>>
  BY DEF WriteTmp, Saving, Shape
<1>3. \A q \in Procs : Saving(q)' = Saving(q)
  BY <1>2 DEF Saving, Shape
<1>4. Shape'
  BY <1>1, <1>2, <1>3 DEF Shape, Saving
<1>5. fd[p] \notin shared => text = ToToml(store[p])
  BY <1>2 DEF WritersAlone, Overlay
<1>6. \A f \in Files : f # fd[p] => content'[f] = content[f]
  BY <1>1 DEF Shape
<1>7. content'[fd[p]] = text
  BY <1>1, <1>2 DEF Shape
<1>8. WritersAlone'
  <2> SUFFICES ASSUME NEW q \in Procs, Saving(q), fd[q] \notin shared
               PROVE  /\ fd[q] = temp
                      /\ \A r \in Procs : Saving(r) /\ fd[r] = fd[q] => r = q
                      /\ content'[fd[q]] = IF stage'[q] = "write" THEN <<>> ELSE ToToml(store[q])
    BY <1>2, <1>3 DEF WritersAlone
  <2>1. /\ fd[q] = temp
        /\ \A r \in Procs : Saving(r) /\ fd[r] = fd[q] => r = q
        /\ content[fd[q]] = IF stage[q] = "write" THEN <<>> ELSE ToToml(store[q])
    BY DEF WritersAlone
  <2>2. CASE q = p
    <3>1. stage'[q] = "rename"
      BY <1>2, <2>2 DEF Shape
    <3>2. QED
      BY <1>5, <1>7, <2>1, <2>2, <3>1
  <2>3. CASE q # p
    <3>1. fd[p] # fd[q] /\ stage'[q] = stage[q] /\ fd[q] \in Files
      BY <1>2, <2>1, <2>3 DEF Shape
    <3>2. QED
      BY <1>6, <2>1, <3>1
  <2>4. QED
    BY <2>2, <2>3
<1>9. NamesApart' /\ PublishedIsLastSave'
  <2>1. name # Absent /\ name \notin shared => fd[p] # name
    BY <1>2 DEF WritersAlone, NamesApart
  <2>2. QED
    BY <1>2, <1>6, <2>1 DEF NamesApart, PublishedIsLastSave, Shape
<1>10. QED
  BY <1>4, <1>8, <1>9

LEMMA ReplaceStep ==
    ASSUME StoreInv, NEW p \in Procs, Replace(p)
    PROVE  StoreInv'
<1> USE AbsentAssumption DEF StoreInv
<1>1. /\ stage[p] = "rename" /\ Saving(p)
      /\ temp # Absent /\ temp \in Files
      /\ name' = temp /\ temp' = Absent /\ last' = store[p] /\ content' = content
      /\ shared' = IF temp = fd[p] THEN shared ELSE shared \cup {temp}
      /\ Ends(p)
  BY DEF Replace, Saving, Shape
<1>2. /\ stage' \in [Procs -> {"idle", "open", "write", "rename"}]
      /\ ~Saving(p)'
      /\ fd' \in [Procs -> Files \cup {Absent}]
      /\ store' = [q \in Procs |-> store'[q]]
      /\ \A q \in Procs \ {p} : stage'[q] = stage[q] /\ fd'[q] = fd[q] /\ store'[q] = store[q]
  BY <1>1, EndsIsQuiet
<1>3. \A q \in Procs : Saving(q)' => q # p /\ Saving(q) /\ fd'[q] = fd[q]
  BY <1>2 DEF Saving
<1>4. Shape'
  BY <1>1, <1>2, <1>3 DEF Shape
<1>5. NamesApart'
  BY <1>1 DEF NamesApart
<1>6. WritersAlone'
  <2> SUFFICES ASSUME NEW q \in Procs, Saving(q)', fd'[q] \notin shared'
               PROVE  FALSE
    BY DEF WritersAlone
  <2>1. q # p /\ Saving(q) /\ fd[q] \notin shared' /\ fd[q] \notin shared
    BY <1>1, <1>3
  <2>2. fd[q] = temp /\ (fd[p] = fd[q] => p = q)
    BY <1>1, <2>1 DEF WritersAlone
  <2>3. QED
    BY <1>1, <2>1, <2>2
<1>7. PublishedIsLastSave'
  <2> SUFFICES ASSUME temp \notin shared' PROVE content[temp] = ToToml(store[p])
    BY <1>1 DEF PublishedIsLastSave
  <2>1. temp = fd[p] /\ temp \notin shared
    BY <1>1
  <2>2. QED
    BY <1>1, <2>1 DEF WritersAlone
<1>8. QED
  BY <1>4, <1>5, <1>6, <1>7

LEMMA StoreInvStep == StoreInv /\ [CSNext]_csVars => StoreInv'
<1> SUFFICES ASSUME StoreInv, [CSNext]_csVars PROVE StoreInv'
  OBVIOUS
<1>1. ASSUME NEW p \in Procs, Loads(p) PROVE StoreInv'
  <2>1. PICK h \in Hosts, c \in Secrets \cup {Absent} :
            /\ stage' = [stage EXCEPT ![p] = "open"]
            /\ store' = [store EXCEPT ![p] = Changed(Loaded, h, c)]
    BY <1>1 DEF Loads
  <2>2. UNCHANGED <<name, temp, content, fd, shared, last>>
    BY <1>1 DEF Loads, fileVars
  <2>3. /\ stage' \in [Procs -> {"idle", "open", "write", "rename"}]
        /\ ~Saving(p)'
        /\ fd' \in [Procs -> Files \cup {Absent}]
        /\ store' = [q \in Procs |-> store'[q]]
        /\ \A q \in Procs \ {p} : stage'[q] = stage[q] /\ fd'[q] = fd[q] /\ store'[q] = store[q]
    BY <2>1, <2>2 DEF StoreInv, Shape, Saving
  <2>4. QED
    BY <2>2, <2>3, QuietStep
<1>2. ASSUME NEW p \in Procs, ReplaceFails(p) \/ Dies(p) PROVE StoreInv'
  <2>1. Ends(p) /\ UNCHANGED <<name, temp, content, shared, last>>
    BY <1>2 DEF ReplaceFails, Dies, fileVars
  <2>2. QED
    BY <2>1, EndsIsQuiet, QuietStep DEF StoreInv
<1>3. CASE UNCHANGED csVars
  BY <1>3 DEF csVars, fileVars, procVars, StoreInv, Shape, NamesApart, WritersAlone,
              PublishedIsLastSave, Saving
<1>4. QED
  BY <1>1, <1>2, <1>3, OpenStep, WriteStep, ReplaceStep DEF CSNext, Refuses

-----------------------------------------------------------------------------
(* The text of a store.                                                    *)

\* Hosts have different ranks, and there are as many ranks as hosts.
LEMMA RankIsPlace ==
    ASSUME NEW K \in SUBSET Hosts
    PROVE  /\ \A h \in K : Rank(h, K) \in 1..Cardinality(K)
           /\ \A g, h \in K : Rank(g, K) = Rank(h, K) => g = h
           /\ \A i \in 1..Cardinality(K) : \E h \in K : Rank(h, K) = i
<1> DEFINE UpTo(h) == {g \in K : g <= h}
<1>1. K \in SUBSET Nat /\ IsFiniteSet(K) /\ Cardinality(K) \in Nat
  BY HostsAssumption, FS_Subset, FS_CardinalityType
<1>2. ASSUME NEW h \in K
      PROVE  /\ IsFiniteSet(UpTo(h)) /\ Cardinality(UpTo(h)) \in 1..Cardinality(K)
  <2>1. UpTo(h) \in SUBSET K /\ h \in UpTo(h)
    BY <1>1
  <2> HIDE DEF UpTo
  <2>2. IsFiniteSet(UpTo(h)) /\ Cardinality(UpTo(h)) <= Cardinality(K)
    BY <1>1, <2>1, FS_Subset
  <2>3. Cardinality(UpTo(h)) \in Nat /\ Cardinality(UpTo(h)) # 0
    BY <2>1, <2>2, FS_CardinalityType, FS_EmptySet
  <2>4. QED
    BY <1>1, <2>2, <2>3
<1>3. ASSUME NEW g \in K, NEW h \in K, g < h
      PROVE  Cardinality(UpTo(g)) # Cardinality(UpTo(h))
  <2>1. UpTo(g) \in SUBSET UpTo(h) /\ h \in UpTo(h) /\ h \notin UpTo(g)
    <3>1. \A x \in K : x <= g => x <= h
      BY <1>1, <1>3
    <3>2. g \in Nat /\ h \in Nat
      BY <1>1
    <3>3. ~(h <= g) /\ h <= h
      BY <1>3, <3>2
    <3>4. QED
      BY <3>1, <3>3
  <2>2. IsFiniteSet(UpTo(h))
    BY <1>2
  <2> HIDE DEF UpTo
  <2>3. QED
    BY <2>1, <2>2, FS_Subset
<1>4. ASSUME NEW g \in K, NEW h \in K, Cardinality(UpTo(g)) = Cardinality(UpTo(h))
      PROVE  g = h
  <2>1. g \in Nat /\ h \in Nat
    BY <1>1
  <2> HIDE DEF UpTo
  <2>2. QED
    BY <1>3, <1>4, <2>1
<1> DEFINE rank == [h \in K |-> Cardinality(UpTo(h))]
           places == 1..Cardinality(K)
<1>5. rank \in Injection(K, places)
  <2>1. rank \in [K -> places]
    BY <1>2
  <2>2. \A g, h \in K : rank[g] = rank[h] => g = h
    BY <1>4
  <2> HIDE DEF rank, places
  <2>3. QED
    BY <2>1, <2>2 DEF Injection, IsInjective
<1>6. IsFiniteSet(places) /\ Cardinality(places) = Cardinality(K)
  <2>1. PICK k \in Nat : k = Cardinality(K)
    BY <1>1
  <2>2. IsFiniteSet(1..k) /\ Cardinality(1..k) = k
    BY <2>1, FS_Interval
  <2>3. QED
    BY <2>1, <2>2
<1>7. rank \in Surjection(K, places)
  <2> HIDE DEF rank, places
  <2>1. QED
    BY <1>5, <1>6, FS_Injection
<1>8. \A i \in places : \E h \in K : rank[h] = i
  <2> HIDE DEF rank, places
  <2>1. QED
    BY <1>7 DEF Surjection
<1>9. QED
  BY <1>2, <1>4, <1>8 DEF Rank

\* What is written of a store is what is read of the text: to_toml and from_toml
\* are each other's inverse on a store.
LEMMA RoundTrip ==
    ASSUME NEW s \in Stores
    PROVE  /\ ToToml(s) \in Seq([host : Hosts, secret : Secrets])
           /\ Parses(ToToml(s))
           /\ FromToml(ToToml(s)) = s
<1> DEFINE K == Known(s)
           text == ToToml(s)
           n == Cardinality(K)
<1>1. K \in SUBSET Hosts
  BY DEF Known
<1>2. /\ \A h \in K : Rank(h, K) \in 1..n
      /\ \A g, h \in K : Rank(g, K) = Rank(h, K) => g = h
      /\ \A i \in 1..n : \E h \in K : Rank(h, K) = i
  BY <1>1, RankIsPlace
<1>3. n \in Nat
  BY <1>1, HostsAssumption, FS_Subset, FS_CardinalityType
<1>4. ASSUME NEW i \in 1..n
      PROVE  /\ NthHost(i, K) \in K /\ Rank(NthHost(i, K), K) = i
             /\ text[i] = [host |-> NthHost(i, K), secret |-> s[NthHost(i, K)]]
  BY <1>2 DEF NthHost, ToToml
<1>5. DOMAIN text = 1..n
  BY DEF ToToml
<1>6. \A h \in K : s[h] \in Secrets
  BY DEF Known, Stores
<1>7. ASSUME NEW i \in 1..n PROVE text[i] \in [host : Hosts, secret : Secrets]
  <2>1. PICK h : h = NthHost(i, K)
    OBVIOUS
  <2>2. h \in Hosts /\ s[h] \in Secrets /\ text[i] = [host |-> h, secret |-> s[h]]
    BY <1>1, <1>4, <1>6, <2>1
  <2> HIDE DEF text
  <2>3. QED
    BY <2>2
<1>8. text \in [1..n -> [host : Hosts, secret : Secrets]]
  <2>1. text = [i \in 1..n |-> text[i]]
    BY DEF ToToml
  <2> HIDE DEF text, n
  <2>2. QED
    BY <1>7, <2>1
<1>9. text \in Seq([host : Hosts, secret : Secrets])
  <2>1. PICK k \in Nat : k = n
    BY <1>3
  <2>2. text \in [1..k -> [host : Hosts, secret : Secrets]]
    BY <1>8, <2>1
  <2> HIDE DEF text, n
  <2>3. QED
    BY <2>2, SeqDef
<1>10. ASSUME NEW h \in Hosts
       PROVE  FromToml(text)[h] = s[h]
  <2>1. CASE h \in K
    <3>1. PICK i \in 1..n : i = Rank(h, K)
      BY <1>2, <2>1
    <3>2. text[i].host = h
      <4>1. PICK g : g = NthHost(i, K)
        OBVIOUS
      <4>2. g \in K /\ Rank(g, K) = i /\ text[i] = [host |-> g, secret |-> s[g]]
        BY <1>4, <4>1
      <4>3. g = h
        BY <1>2, <2>1, <3>1, <4>2
      <4>4. QED
        BY <4>2, <4>3
    <3>3. \A j \in DOMAIN text : text[j].host = h => text[j].secret = s[h]
      BY <1>4, <1>5
    <3> HIDE DEF text
    <3>4. PICK j : j = CHOOSE k \in DOMAIN text : text[k].host = h
      OBVIOUS
    <3>5. j \in DOMAIN text /\ text[j].host = h
      BY <1>5, <3>2, <3>4
    <3>6. FromToml(text)[h] = text[j].secret
      BY <1>5, <3>2, <3>4 DEF FromToml
    <3>7. QED
      BY <3>3, <3>5, <3>6
  <2>2. CASE h \notin K
    <3>1. \A i \in DOMAIN text : text[i].host # h
      BY <1>4, <1>5, <2>2
    <3>2. s[h] = Absent
      BY <2>2 DEF Known
    <3> HIDE DEF text
    <3>3. QED
      BY <3>1, <3>2 DEF FromToml
  <2>3. QED
    BY <2>1, <2>2
<1>11. FromToml(text) = s
  <2>1. FromToml(text) = [h \in Hosts |-> FromToml(text)[h]]
    BY DEF FromToml
  <2>2. s = [h \in Hosts |-> s[h]]
    BY DEF Stores
  <2> HIDE DEF text
  <2>3. QED
    BY <1>10, <2>1, <2>2
<1>12. Parses(text)
  <2> HIDE DEF text
  <2>1. QED
    BY <1>9, TornAssumption DEF Parses
<1>13. QED
  BY <1>9, <1>11, <1>12

\* What is read of a text is a store.
LEMMA ReadType ==
    ASSUME NEW text \in Seq([host : Hosts, secret : Secrets])
    PROVE  FromToml(text) \in Stores
<1>1. ASSUME NEW h \in Hosts, \E i \in DOMAIN text : text[i].host = h
      PROVE  text[CHOOSE i \in DOMAIN text : text[i].host = h].secret \in Secrets
  <2>1. PICK j : j = CHOOSE i \in DOMAIN text : text[i].host = h
    OBVIOUS
  <2>2. j \in DOMAIN text
    BY <1>1, <2>1
  <2>3. text[j] \in [host : Hosts, secret : Secrets]
    <3>1. PICK E : E = [host : Hosts, secret : Secrets]
      OBVIOUS
    <3>2. text \in Seq(E) /\ j \in 1..Len(text)
      BY <2>2, <3>1
    <3>3. text[j] \in E
      BY <3>2
    <3>4. QED
      BY <3>1, <3>3
  <2>4. QED
    BY <2>1, <2>3
<1>2. QED
  BY <1>1 DEF FromToml, Stores

\* What is left of a text that another is written over is of their entries, or torn.
LEMMA OverlayType ==
    ASSUME NEW E, NEW new \in Seq(E), NEW old \in Seq(E) \cup {Torn},
           NEW text \in Overlay(new, old)
    PROVE  text \in Seq(E) \cup {Torn}
<1>1. CASE old = Torn
  BY <1>1 DEF Overlay
<1>2. CASE old # Torn
  <2>1. old \in Seq(E)
    BY <1>2
  <2>2. \A i \in 2..Len(old) : new \o SubSeq(old, i, Len(old)) \in Seq(E)
    BY <2>1
  <2>3. QED
    BY <2>2 DEF Overlay
<1>3. QED
  BY <1>1, <1>2

-----------------------------------------------------------------------------
(* Types.                                                                  *)

Entries == [host : Hosts, secret : Secrets]

LEMMA LoadedType ==
    ASSUME CSTypeOK, name # Absent => Parses(content[name])
    PROVE  Loaded \in Stores
<1>1. CASE name = Absent
  BY <1>1 DEF Loaded, Nobody, Stores
<1>2. CASE name # Absent
  <2>1. content[name] \in Seq(Entries)
    BY <1>2 DEF CSTypeOK, Parses, Entries
  <2>2. FromToml(content[name]) \in Stores
    BY <2>1, ReadType DEF Entries
  <2>3. QED
    BY <1>2, <2>2 DEF Loaded
<1>3. QED
  BY <1>1, <1>2

LEMMA StoreTypeInit == CSInit => CSTypeOK
<1> SUFFICES ASSUME CSInit PROVE CSTypeOK
  OBVIOUS
<1>1. Nobody \in Stores
  BY DEF Nobody, Stores
<1>2. (CHOOSE h \in Hosts : TRUE) \in Hosts
  BY HostsAssumption
<1>3. <<>> \in Seq([host : Hosts, secret : Secrets])
  BY EmptySeq
<1>4. QED
  BY <1>1, <1>2, <1>3 DEF CSInit, CSTypeOK

LEMMA StoreTypeStep == CSTypeOK /\ Shape /\ [CSNext]_csVars => CSTypeOK'
<1> SUFFICES ASSUME CSTypeOK, Shape, [CSNext]_csVars PROVE CSTypeOK'
  OBVIOUS
<1>0. Nobody \in Stores /\ (CHOOSE h \in Hosts : TRUE) \in Hosts
  BY HostsAssumption DEF Nobody, Stores
<1>1. ASSUME NEW p \in Procs, Loads(p) PROVE CSTypeOK'
  <2>1. Loaded \in Stores
    BY <1>1, LoadedType DEF Loads
  <2>2. \A h \in Hosts, c \in Secrets \cup {Absent} : Changed(Loaded, h, c) \in Stores
    BY <2>1 DEF Changed, Stores
  <2>3. PICK h \in Hosts, c \in Secrets \cup {Absent} :
            /\ stage' = [stage EXCEPT ![p] = "open"]
            /\ host' = [host EXCEPT ![p] = h]
            /\ store' = [store EXCEPT ![p] = Changed(Loaded, h, c)]
    BY <1>1 DEF Loads
  <2>4. UNCHANGED <<name, temp, content, fd, behind, shared, last>>
    BY <1>1 DEF Loads, fileVars
  <2>5. PICK s \in Stores : s = Changed(Loaded, h, c)
    BY <2>2
  <2>6. QED
    BY <2>3, <2>4, <2>5 DEF CSTypeOK
<1>2. ASSUME NEW p \in Procs, OpenTmp(p) PROVE CSTypeOK'
  <2>1. Openable \subseteq Files
    BY DEF Openable, CSTypeOK
  <2>2. <<>> \in Seq(Entries)
    BY EmptySeq
  <2>3. PICK f \in Files :
            /\ temp' = f
            /\ content' = [content EXCEPT ![f] = <<>>]
            /\ fd' = [fd EXCEPT ![p] = f]
            /\ shared' = IF \E q \in Procs : Saving(q) /\ fd[q] = f
                         THEN shared \cup {f} ELSE shared \ {f}
    BY <1>2, <2>1 DEF OpenTmp
  <2>4. shared' \subseteq Files
    BY <2>3 DEF CSTypeOK
  <2>5. content' \in [Files -> Seq(Entries) \cup {Torn}]
    BY <2>2, <2>3 DEF CSTypeOK, Entries
  <2>6. QED
    BY <1>2, <2>3, <2>4, <2>5 DEF OpenTmp, CSTypeOK, Entries
<1>3. ASSUME NEW p \in Procs, WriteTmp(p) PROVE CSTypeOK'
  <2>1. PICK text \in Overlay(ToToml(store[p]), content[fd[p]]) :
            content' = [content EXCEPT ![fd[p]] = text]
    BY <1>3 DEF WriteTmp
  <2>2. stage[p] = "write" /\ fd[p] \in Files
    BY <1>3 DEF WriteTmp, Shape, Saving
  <2>3. ToToml(store[p]) \in Seq(Entries) /\ content[fd[p]] \in Seq(Entries) \cup {Torn}
    BY <2>2, RoundTrip DEF CSTypeOK, Entries
  <2>4. text \in Seq(Entries) \cup {Torn}
    BY <2>1, <2>3, OverlayType
  <2>5. content' \in [Files -> Seq(Entries) \cup {Torn}]
    BY <2>1, <2>4 DEF CSTypeOK, Entries
  <2>6. behind' \subseteq Procs
    BY <1>3 DEF WriteTmp, CSTypeOK, LeftBehind
  <2>7. QED
    BY <1>3, <2>5, <2>6 DEF WriteTmp, CSTypeOK, Entries
<1>4. ASSUME NEW p \in Procs, Replace(p) PROVE CSTypeOK'
  <2>1. behind' \subseteq Procs /\ shared' \subseteq Files /\ last' \in Stores
    BY <1>4 DEF Replace, CSTypeOK, LeftBehind
  <2>2. QED
    BY <1>0, <1>4, <2>1 DEF Replace, Ends, CSTypeOK
<1>5. ASSUME NEW p \in Procs, ReplaceFails(p) \/ Dies(p) PROVE CSTypeOK'
  <2>1. Ends(p) /\ behind' = behind \ {p} /\ UNCHANGED <<name, temp, content, shared, last>>
    BY <1>5 DEF ReplaceFails, Dies, fileVars
  <2>2. QED
    BY <1>0, <2>1 DEF Ends, CSTypeOK
<1>6. CASE UNCHANGED csVars
  BY <1>6 DEF csVars, fileVars, procVars, CSTypeOK
<1>7. QED
  BY <1>1, <1>2, <1>3, <1>4, <1>5, <1>6 DEF CSNext, Refuses

-----------------------------------------------------------------------------
(* Overlaps.                                                               *)

\* Whoever has not been left behind, and has its temporary file alone, is to save
\* what is stored but for its own host.
StoreReads == name # Absent => Parses(content[name])
KeepsOthers(p) ==
    stage[p] # "idle" /\ p \notin behind /\ ~(Saving(p) /\ fd[p] \in shared) =>
        StoreReads /\ \A h \in Hosts \ {host[p]} : Loaded[h] = store[p][h]

OverlapInv == CSTypeOK /\ StoreInv /\ \A p \in Procs : KeepsOthers(p)

\* The published text is written to only through a shared file.
LEMMA PublishedStays ==
    ASSUME CSTypeOK, StoreInv, NEW p \in Procs,
           OpenTmp(p) \/ (WriteTmp(p) /\ fd[p] # name)
    PROVE  name' = name /\ (name # Absent => content'[name] = content[name])
<1>1. CASE OpenTmp(p)
  <2>1. PICK f \in Openable : content' = [content EXCEPT ![f] = <<>>]
    BY <1>1 DEF OpenTmp
  <2>2. f # name
    BY OpenableIsFree DEF StoreInv
  <2>3. QED
    BY <1>1, <2>1, <2>2 DEF OpenTmp, CSTypeOK
<1>2. CASE WriteTmp(p) /\ fd[p] # name
  BY <1>2 DEF WriteTmp, CSTypeOK
<1>3. QED
  BY <1>1, <1>2

LEMMA WrittenIsShared ==
    ASSUME StoreInv, NEW p \in Procs, WriteTmp(p), fd[p] = name
    PROVE  name \in shared
BY AbsentAssumption DEF StoreInv, WritersAlone, NamesApart, Shape, WriteTmp, Saving

\* A process that goes on with its store while the published text stays.
LEMMA GoesOn ==
    ASSUME NEW q \in Procs, KeepsOthers(q),
           name' = name, name # Absent => content'[name] = content[name],
           stage[q] # "idle", host'[q] = host[q], store'[q] = store[q],
           q \notin behind' => q \notin behind,
           Saving(q) /\ fd[q] \in shared => Saving(q)' /\ fd'[q] \in shared'
    PROVE  KeepsOthers(q)'
<1>1. StoreReads' = StoreReads
  BY DEF StoreReads, Parses
<1>2. Loaded' = Loaded
  <2>1. CASE name = Absent
    BY <2>1 DEF Loaded, Nobody
  <2>2. CASE name # Absent
    BY <2>2 DEF Loaded, FromToml
  <2>3. QED
    BY <2>1, <2>2
<1>3. QED
  BY <1>1, <1>2 DEF KeepsOthers

LEMMA OverlapInvInit == CSInit => OverlapInv
BY StoreTypeInit, StoreInvInit DEF CSInit, OverlapInv, KeepsOthers

LEMMA OverlapInvStep == OverlapInv /\ [CSNext]_csVars => OverlapInv'
<1> SUFFICES ASSUME OverlapInv, [CSNext]_csVars PROVE OverlapInv'
  OBVIOUS
<1>0. CSTypeOK /\ StoreInv /\ CSTypeOK' /\ StoreInv'
  BY StoreTypeStep, StoreInvStep DEF OverlapInv, StoreInv
<1> SUFFICES ASSUME NEW q \in Procs PROVE KeepsOthers(q)'
  BY <1>0 DEF OverlapInv
<1>1. KeepsOthers(q)
  BY DEF OverlapInv
<1>2. ASSUME NEW p \in Procs, Loads(p) PROVE KeepsOthers(q)'
  <2>1. PICK h \in Hosts, c \in Secrets \cup {Absent} :
            /\ stage' = [stage EXCEPT ![p] = "open"]
            /\ host' = [host EXCEPT ![p] = h]
            /\ store' = [store EXCEPT ![p] = Changed(Loaded, h, c)]
    BY <1>2 DEF Loads
  <2>2. stage[p] = "idle" /\ StoreReads /\ UNCHANGED <<name, temp, content, fd, behind, shared>>
    BY <1>2 DEF Loads, fileVars, StoreReads
  <2>3. CASE q # p
    <3>1. stage'[q] = stage[q] /\ host'[q] = host[q] /\ store'[q] = store[q]
      BY <1>0, <2>1, <2>3 DEF CSTypeOK
    <3>2. CASE stage[q] = "idle"
      BY <3>1, <3>2 DEF KeepsOthers
    <3>3. CASE stage[q] # "idle"
      BY <1>1, <2>2, <3>1, <3>3, GoesOn DEF Saving
    <3>4. QED
      BY <3>2, <3>3
  <2>4. CASE q = p
    <3>1. Loaded \in Stores
      BY <1>0, <2>2, LoadedType DEF StoreReads
    <3>2. host'[q] = h /\ store'[q] = [Loaded EXCEPT ![h] = c]
      BY <1>0, <2>1, <2>4 DEF CSTypeOK, Changed
    <3>3. \A g \in Hosts \ {h} : Loaded[g] = store'[q][g]
      BY <3>1, <3>2 DEF Stores
    <3>4. StoreReads' /\ Loaded' = Loaded
      BY <2>2 DEF StoreReads, Parses, Loaded, FromToml, Nobody
    <3>5. QED
      BY <3>2, <3>3, <3>4 DEF KeepsOthers
  <2>5. QED
    BY <2>3, <2>4
<1>3. ASSUME NEW p \in Procs, OpenTmp(p) PROVE KeepsOthers(q)'
  <2>1. PICK f \in Openable :
            /\ fd' = [fd EXCEPT ![p] = f]
            /\ shared' = IF \E r \in Procs : Saving(r) /\ fd[r] = f
                         THEN shared \cup {f} ELSE shared \ {f}
    BY <1>3 DEF OpenTmp
  <2>2. /\ stage[p] = "open" /\ stage' = [stage EXCEPT ![p] = "write"]
        /\ UNCHANGED <<host, store, behind>>
    BY <1>3 DEF OpenTmp
  <2>3. ~Saving(p)
    BY <2>2 DEF Saving
  <2>4. ASSUME Saving(q), fd[q] \in shared PROVE Saving(q)' /\ fd'[q] \in shared'
    <3>1. q # p
      BY <2>3, <2>4
    <3>2. fd'[q] = fd[q] /\ Saving(q)'
      BY <1>0, <2>1, <2>2, <2>4, <3>1 DEF CSTypeOK, Saving
    <3>3. QED
      BY <2>1, <2>4, <3>2
  <2>5. name' = name /\ (name # Absent => content'[name] = content[name])
    BY <1>0, <1>3, PublishedStays
  <2>6. CASE stage[q] = "idle"
    BY <1>0, <2>2, <2>6 DEF KeepsOthers, CSTypeOK
  <2>7. CASE stage[q] # "idle"
    BY <1>1, <2>2, <2>4, <2>5, <2>7, GoesOn
  <2>8. QED
    BY <2>6, <2>7
<1>4. ASSUME NEW p \in Procs, WriteTmp(p) PROVE KeepsOthers(q)'
  <2>1. /\ stage[p] = "write" /\ stage' = [stage EXCEPT ![p] = "rename"]
        /\ behind' = IF fd[p] = name THEN behind \cup LeftBehind(p) ELSE behind
        /\ UNCHANGED <<name, temp, host, store, fd, shared>>
    BY <1>4 DEF WriteTmp
  <2>2. Saving(q)' <=> Saving(q)
    BY <1>0, <2>1 DEF CSTypeOK, Saving
  <2>3. stage[q] = "idle" <=> stage'[q] = "idle"
    BY <1>0, <2>1 DEF CSTypeOK
  <2>4. CASE stage[q] = "idle"
    BY <2>3, <2>4 DEF KeepsOthers
  <2>5. CASE stage[q] # "idle" /\ fd[p] # name
    <3>1. name' = name /\ (name # Absent => content'[name] = content[name])
      BY <1>0, <1>4, <2>5, PublishedStays
    <3>2. QED
      BY <1>1, <2>1, <2>2, <2>5, <3>1, GoesOn
  <2>6. CASE stage[q] # "idle" /\ fd[p] = name
    <3>1. CASE q = p
      <4>1. fd'[q] \in shared' /\ Saving(q)'
        BY <1>0, <1>4, <2>1, <2>2, <2>6, <3>1, WrittenIsShared DEF Saving
      <4>2. QED
        BY <4>1 DEF KeepsOthers
    <3>2. CASE q # p
      BY <2>1, <2>6, <3>2 DEF KeepsOthers, LeftBehind
    <3>3. QED
      BY <3>1, <3>2
  <2>7. QED
    BY <2>4, <2>5, <2>6
<1>5. ASSUME NEW p \in Procs, Replace(p) PROVE KeepsOthers(q)'
  <2>1. /\ stage' = [stage EXCEPT ![p] = "idle"]
        /\ behind' = (behind \cup LeftBehind(p)) \ {p}
    BY <1>5 DEF Replace, Ends
  <2>2. stage'[q] = "idle" \/ q \in behind'
    BY <1>0, <2>1 DEF CSTypeOK, LeftBehind
  <2>3. QED
    BY <2>2 DEF KeepsOthers
<1>6. ASSUME NEW p \in Procs, ReplaceFails(p) \/ Dies(p) PROVE KeepsOthers(q)'
  <2>1. Ends(p) /\ behind' = behind \ {p} /\ UNCHANGED <<name, temp, content, shared>>
    BY <1>6 DEF ReplaceFails, Dies, fileVars
  <2>2. CASE q = p
    <3>1. stage'[q] = "idle"
      BY <1>0, <2>1, <2>2 DEF Ends, CSTypeOK
    <3>2. QED
      BY <3>1 DEF KeepsOthers
  <2>3. CASE q # p
    <3>1. /\ stage'[q] = stage[q] /\ host'[q] = host[q] /\ store'[q] = store[q] /\ fd'[q] = fd[q]
      BY <1>0, <2>1, <2>3 DEF Ends, CSTypeOK
    <3>2. CASE stage[q] = "idle"
      BY <3>1, <3>2 DEF KeepsOthers
    <3>3. CASE stage[q] # "idle"
      BY <1>1, <2>1, <2>3, <3>1, <3>3, GoesOn DEF Saving
    <3>4. QED
      BY <3>2, <3>3
  <2>4. QED
    BY <2>2, <2>3
<1>7. CASE UNCHANGED csVars
  <2>1. UNCHANGED <<name, temp, content, stage, host, store, fd, behind, shared>>
    BY <1>7 DEF csVars, fileVars, procVars
  <2>2. CASE stage[q] = "idle"
    BY <2>1, <2>2 DEF KeepsOthers
  <2>3. CASE stage[q] # "idle"
    BY <1>1, <2>1, <2>3, GoesOn DEF Saving
  <2>4. QED
    BY <2>2, <2>3
<1>8. QED
  BY <1>2, <1>3, <1>4, <1>5, <1>6, <1>7 DEF CSNext, Refuses

LEMMA OverlapInvariance == CSSpec => []OverlapInv
BY OverlapInvInit, OverlapInvStep, PTL DEF CSSpec

\* A rename by one that was not left behind, of a file that it had alone.
LEMMA AloneSavesOthers ==
    ASSUME OverlapInv, NEW p \in Procs, Replace(p), p \notin behind, name' \notin shared'
    PROVE  \A h \in Hosts \ {host[p]} : Stored'[h] = Stored[h]
<1>1. /\ stage[p] = "rename" /\ temp # Absent
      /\ name' = temp /\ content' = content
      /\ shared' = IF temp = fd[p] THEN shared ELSE shared \cup {temp}
  BY DEF Replace
<1>2. temp = fd[p] /\ temp \notin shared /\ Saving(p)
  BY <1>1 DEF Saving
<1>3. content[temp] = ToToml(store[p])
  BY <1>1, <1>2 DEF OverlapInv, StoreInv, WritersAlone
<1>4. Parses(ToToml(store[p])) /\ FromToml(ToToml(store[p])) = store[p]
  BY RoundTrip DEF OverlapInv, CSTypeOK
<1>5. Stored' = store[p]
  <2>1. content'[name'] = ToToml(store[p]) /\ name' # Absent
    BY <1>1, <1>3
  <2>2. QED
    BY <1>4, <2>1 DEF Stored, Parses, FromToml
<1>6. StoreReads /\ \A h \in Hosts \ {host[p]} : Loaded[h] = store[p][h]
  BY <1>1, <1>2 DEF OverlapInv, KeepsOthers
<1>7. Stored = Loaded
  BY <1>6 DEF Stored, Loaded, StoreReads
<1>8. QED
  BY <1>5, <1>6, <1>7

\* Whoever logs in or out keeps every other host's credential, unless another has
\* saved since it loaded the store, or has had its temporary file.
THEOREM OthersAreKept == CSSpec => OnlyOverlapLosesOthers
<1> DEFINE A == \/ Stored' = Stored
                \/ name \in shared
                \/ \E p \in Procs :
                    /\ stage[p] = "rename" /\ name' = temp
                    /\ \/ p \in behind
                       \/ name' \in shared'
                       \/ \A h \in Hosts \ {host[p]} : Stored'[h] = Stored[h]
<1>1. OverlapInv /\ [CSNext]_csVars => [A]_csVars
  <2> SUFFICES ASSUME OverlapInv, CSNext PROVE A
    OBVIOUS
  <2>1. ASSUME name' = name, name # Absent => content'[name] = content[name]
        PROVE  Stored' = Stored
    <3>1. CASE name = Absent
      BY <2>1, <3>1 DEF Stored, Nobody
    <3>2. CASE name # Absent
      BY <2>1, <3>2 DEF Stored, Parses, FromToml
    <3>3. QED
      BY <3>1, <3>2
  <2>2. ASSUME NEW p \in Procs, Refuses(p) \/ Loads(p) \/ ReplaceFails(p) \/ Dies(p) PROVE A
    <3>1. name' = name /\ content' = content
      BY <2>2 DEF Refuses, Loads, ReplaceFails, Dies, csVars, fileVars
    <3>2. QED
      BY <2>1, <3>1
  <2>3. ASSUME NEW p \in Procs, OpenTmp(p) PROVE A
    BY <2>1, <2>3, PublishedStays DEF OverlapInv
  <2>4. ASSUME NEW p \in Procs, WriteTmp(p) PROVE A
    <3>1. CASE fd[p] = name
      BY <2>4, <3>1, WrittenIsShared DEF OverlapInv
    <3>2. CASE fd[p] # name
      BY <2>1, <2>4, <3>2, PublishedStays DEF OverlapInv
    <3>3. QED
      BY <3>1, <3>2
  <2>5. ASSUME NEW p \in Procs, Replace(p) PROVE A
    <3>1. stage[p] = "rename" /\ name' = temp
      BY <2>5 DEF Replace
    <3>2. QED
      BY <2>5, <3>1, AloneSavesOthers
  <2>6. QED
    BY <2>2, <2>3, <2>4, <2>5 DEF CSNext
<1>2. QED
  BY <1>1, OverlapInvariance, PTL DEF CSSpec, OnlyOverlapLosesOthers

-----------------------------------------------------------------------------
\* save_credentials is atomic for whoever has the temporary file alone: the store
\* that is there is the one the last login or logout was to publish, for any number
\* of processes, deaths and leftover temporary files.
THEOREM LoneSaveIsWhole == CSSpec => []PublishedIsLastSave
<1>1. StoreInv => PublishedIsLastSave
  BY DEF StoreInv
<1>2. QED
  BY <1>1, StoreInvInit, StoreInvStep, PTL DEF CSSpec
=============================================================================
