---------------------------- MODULE InstallProofs ----------------------------
(***************************************************************************)
(* Installs for any number of commands, packages, cores, revisions and     *)
(* changes of the registry.                                                *)
(*                                                                         *)
(* The properties speak of a command that is done and of a lock that is    *)
(* whole.  The invariant follows a plan there: it has all that its cores   *)
(* need, as the resolve has read them (PlanOK), it has been verified       *)
(* before it is written (VerifiedOK), and a digest that a command or the   *)
(* lock carries is of the bytes served now, or of a core edited since      *)
(* (CarriedOK, LockOK).  A lock with a writer at work is torn, and two     *)
(* writers at once are noted (WritersNoted).                               *)
(***************************************************************************)
EXTENDS Install, TLAPS

Genuine(d) == d = <<d[1], bytes[d[1]]>> \/ d[1] \in edited
EntryGenuine(e) == e.sum # NoSum => e.sum[1] = e.core /\ Genuine(e.sum)

\* The plan is of what was read, and has all that this needs.
AsRead(p) ==
    /\ \A e \in plan[p] : \E d \in read[p] : d[1] = e.core
    /\ \A d \in read[p] : HasNeeds(plan[p], d)

PlanOK(p) ==
    /\ pc[p] = "digest" => AsRead(p)
    /\ pc[p] = "fetch" /\ kind[p] # "locked" => Pinned(plan[p], read[p])
    /\ pc[p] \in {"write", "writing"} => Pinned(plan[p], read[p])

VerifiedOK(p) ==
    /\ pc[p] \in {"write", "writing"} =>
        kind[p] = "resolve" \/ (kind[p] # "locked" /\ Unfetched(p) = {} /\ Agrees(p))
    /\ pc[p] = "installed" /\ kind[p] # "resolve" => Agrees(p)
    /\ pc[p] = "mismatch" => \E e \in plan[p] : e.core \in edited

CarriedOK(p) ==
    /\ \A e \in plan[p] : EntryGenuine(e)
    /\ \A d \in got[p] \cup read[p] : Genuine(d)

CmdOK(p) == PlanOK(p) /\ VerifiedOK(p) /\ CarriedOK(p)

LockOK ==
    /\ \A e \in lock.entries : EntryGenuine(e)
    /\ WholeLockIsClosed

WritersNoted ==
    /\ Writing # {} => torn
    /\ ~mixed => \A p, q \in Writing : p = q

IInv == TypeOK /\ (\A p \in Procs : CmdOK(p)) /\ LockOK /\ WritersNoted

-----------------------------------------------------------------------------
(* Types.                                                                  *)

LEMMA TypeInit == Init => TypeOK
<1> SUFFICES ASSUME Init PROVE TypeOK
  OBVIOUS
<1>1. lock \in [state : {"absent", "broken", "text"}, entries : SUBSET Entries]
  BY DEF Init, Absent
<1>2. lock.state # "text" => lock.entries = {}
  BY DEF Init, Absent
<1>3. bytes \in [Cores -> Revisions] /\ offers \subseteq Cores /\ drift \in 0..MaxDrift
  BY PublishedAssumption, OriginalAssumption, MaxDriftAssumption DEF Init
<1>4. QED
  BY <1>1, <1>2, <1>3 DEF Init, TypeOK, Kinds

LEMMA TypeRegistry ==
    ASSUME TypeOK, NEW c \in Cores, Publish(c) \/ Yank(c) \/ Edit(c)
    PROVE  TypeOK'
<1>1. drift' \in 0..MaxDrift
  BY MaxDriftAssumption DEF TypeOK, Publish, Yank, Edit, Changes
<1>2. offers' \subseteq Cores /\ bytes' \in [Cores -> Revisions] /\ edited' \subseteq Cores
  BY DEF TypeOK, Publish, Yank, Edit
<1>3. UNCHANGED <<fileVars, procVars>>
  BY DEF Publish, Yank, Edit
<1>4. QED
  BY <1>1, <1>2, <1>3 DEF TypeOK, fileVars, procVars

LEMMA BuiltAreEntries ==
    ASSUME TypeOK, NEW p \in Procs
    PROVE  {[core |-> e.core, sum |-> Served(e.core)] : e \in plan[p]} \subseteq Entries
BY DEF TypeOK, Entries, Digests, Served

LEMMA PartIsEntries ==
    ASSUME TypeOK, NEW p \in Procs, NEW e \in plan[p], NEW last \in {e, [e EXCEPT !.sum = NoSum]}
    PROVE  {f \in plan[p] : Before(f.core, e.core)} \cup {last} \subseteq Entries
<1>1. plan[p] \subseteq Entries
  BY DEF TypeOK
<1>2. last \in Entries
  BY <1>1 DEF Entries
<1>3. QED
  BY <1>1, <1>2

LEMMA TypeCommand ==
    ASSUME TypeOK, NEW p \in Procs,
           (\E k \in Kinds : Start(p, k)) \/ Command(p) \/ Exit(p) \/ Stop(p)
    PROVE  TypeOK'
<1> USE DEF Goto, regVars, fileVars, procVars
<1>1. ASSUME NEW k \in Kinds, Start(p, k) PROVE TypeOK'
  BY <1>1 DEF Start, TypeOK, Kinds
<1>2. CASE AddReads(p)
  BY <1>2 DEF AddReads, TypeOK
<1>3. CASE AddWrites(p)
  BY <1>3 DEF AddWrites, TypeOK, Kinds
<1>4. CASE NoLock(p)
  BY <1>4 DEF NoLock, TypeOK, Kinds
<1>5. CASE ReadLock(p)
  BY <1>5 DEF ReadLock, TypeOK
<1>6. CASE UseLock(p) \/ LeaveLock(p)
  BY <1>6 DEF UseLock, LeaveLock, TypeOK, Kinds
<1>7. CASE Resolve(p)
  <2>1. PICK S \in Selections(manifest) : plan' = [plan EXCEPT ![p] = [core : S, sum : {NoSum}]]
    BY <1>7 DEF Resolve
  <2>2. [core : S, sum : {NoSum}] \subseteq Entries
    BY <2>1 DEF Selections, TypeOK, Entries
  <2>3. \A c \in offers : Served(c) \in Digests
    BY DEF TypeOK, Digests, Served
  <2>4. read' \in [Procs -> SUBSET Digests]
    <3>1. PICK T \in Selections(manifest) : read' = [read EXCEPT ![p] = {Served(c) : c \in T}]
      BY <1>7 DEF Resolve
    <3>2. {Served(c) : c \in T} \subseteq Digests
      BY <2>3, <3>1 DEF Selections
    <3>3. QED
      BY <3>1, <3>2 DEF TypeOK
  <2>5. QED
    BY <1>7, <2>1, <2>2, <2>4 DEF Resolve, TypeOK
<1>8. CASE BuildLock(p)
  <2>1. plan' = [plan EXCEPT ![p] =
            {[core |-> e.core, sum |-> Served(e.core)] : e \in plan[p]}]
    BY <1>8 DEF BuildLock, TypeOK
  <2>2. QED
    BY <1>8, <2>1, BuiltAreEntries DEF BuildLock, TypeOK
<1>9. CASE Fetch(p)
  <2>1. PICK c \in Unfetched(p) : got' = [got EXCEPT ![p] = got[p] \cup {Served(c)}]
    BY <1>9 DEF Fetch, TypeOK
  <2>2. c \in Cores
    BY DEF Unfetched, TypeOK, Entries
  <2>3. Served(c) \in Digests
    BY <2>2 DEF Digests, TypeOK, Served
  <2>4. QED
    BY <1>9, <2>1, <2>3 DEF Fetch, TypeOK
<1>10. CASE Verify(p)
  BY <1>10 DEF Verify, TypeOK
<1>11. CASE WriteOpens(p)
  BY <1>11 DEF WriteOpens, TypeOK, Broken
<1>12. CASE WritePart(p)
  <2>1. PICK e \in plan[p] : \E last \in {e, [e EXCEPT !.sum = NoSum]} :
            lock' = Text({f \in plan[p] : Before(f.core, e.core)} \cup {last})
    BY <1>12 DEF WritePart
  <2>2. PICK last \in {e, [e EXCEPT !.sum = NoSum]} :
            lock' = Text({f \in plan[p] : Before(f.core, e.core)} \cup {last})
    BY <2>1
  <2>3. {f \in plan[p] : Before(f.core, e.core)} \cup {last} \subseteq Entries
    BY PartIsEntries
  <2>4. QED
    BY <1>12, <2>2, <2>3 DEF WritePart, TypeOK, Text
<1>13. CASE WriteCloses(p)
  <2>1. lock' \in {Broken, Text(plan[p]), Text(plan[p] \cup lock.entries)}
    BY <1>13 DEF WriteCloses
  <2>2. plan[p] \subseteq Entries /\ lock.entries \subseteq Entries
    BY DEF TypeOK
  <2>3. /\ lock' \in [state : {"absent", "broken", "text"}, entries : SUBSET Entries]
        /\ lock'.state # "text" => lock'.entries = {}
    BY <2>1, <2>2 DEF Broken, Text
  <2>4. torn' \in BOOLEAN /\ basis' \subseteq Digests
    BY <1>13 DEF WriteCloses, TypeOK
  <2>5. QED
    BY <1>13, <2>3, <2>4 DEF WriteCloses, TypeOK
<1>14. CASE Exit(p) \/ Stop(p)
  BY <1>14 DEF Exit, Stop, Forget, TypeOK, Kinds
<1>15. QED
  BY <1>1, <1>2, <1>3, <1>4, <1>5, <1>6, <1>7, <1>8, <1>9, <1>10, <1>11, <1>12, <1>13, <1>14
     DEF Command

LEMMA TypeStep == TypeOK /\ [Next]_vars => TypeOK'
<1>1. TypeOK /\ UNCHANGED vars => TypeOK'
  BY DEF TypeOK, vars, regVars, fileVars, procVars
<1>2. QED
  BY <1>1, TypeRegistry, TypeCommand DEF Next

\* The type invariant of the installs.
THEOREM TypeCorrect == Spec => []TypeOK
BY TypeInit, TypeStep, PTL DEF Spec

-----------------------------------------------------------------------------
(* The inductive invariant.                                                *)

\* What a resolve selects has what it needs.
LEMMA SelectedIsClosed ==
    ASSUME NEW S, NEW refs, Solves(S, refs), NEW c \in S
    PROVE  HasNeeds([core : S, sum : {NoSum}], Served(c))
<1> SUFFICES ASSUME NEW r \in Needs[Served(c)]
             PROVE  \E e \in [core : S, sum : {NoSum}] : e.core[1] = r
  BY DEF HasNeeds
<1>1. PICK d \in S : d[1] = r
  BY DEF Solves
<1> DEFINE e == [core |-> d, sum |-> NoSum]
<1>2. e \in [core : S, sum : {NoSum}] /\ e.core = d
  OBVIOUS
<1>3. QED
  BY <1>1, <1>2

\* A mismatch names a core that was edited: what was fetched of it and what the
\* plan has for it would be the same bytes.
LEMMA DisagreeIsEdited ==
    ASSUME NEW p \in Procs, CarriedOK(p), Unfetched(p) = {}, ~Agrees(p)
    PROVE  \E e \in plan[p] : e.core \in edited
<1>1. PICK e \in plan[p] : e.sum # NoSum /\ e.sum \notin got[p]
  BY DEF Agrees
<1>2. PICK d \in got[p] : d[1] = e.core
  BY DEF Unfetched, Fetched
<1>3. e.sum[1] = e.core /\ Genuine(e.sum) /\ Genuine(d)
  BY <1>1 DEF CarriedOK, EntryGenuine
<1>4. e.core \notin edited => e.sum = d
  BY <1>2, <1>3 DEF Genuine
<1>5. QED
  BY <1>1, <1>4

LEMMA IInvInit == Init => IInv
<1> SUFFICES ASSUME Init PROVE IInv
  OBVIOUS
<1>1. \A p \in Procs : CmdOK(p)
  BY DEF Init, CmdOK, PlanOK, VerifiedOK, CarriedOK
<1>2. LockOK
  BY DEF Init, LockOK, Absent, WholeLockIsClosed
<1>3. WritersNoted
  BY DEF Init, WritersNoted, Writing
<1>4. QED
  BY <1>1, <1>2, <1>3, TypeInit DEF IInv

\* What the registry does: it edits a core, and nothing else that matters.
LEMMA RegistryStep ==
    ASSUME IInv, NEW c \in Cores, Publish(c) \/ Yank(c) \/ Edit(c)
    PROVE  IInv'
<1>1. UNCHANGED <<fileVars, procVars>> /\ edited \subseteq edited'
  BY DEF Publish, Yank, Edit
<1>2. \A d \in Cores : bytes'[d] = bytes[d] \/ d \in edited'
  BY DEF IInv, TypeOK, Publish, Yank, Edit
<1>3. ASSUME NEW d \in Digests, Genuine(d) PROVE Genuine(d)'
  <2>1. d[1] \in Cores
    BY DEF Digests
  <2>2. QED
    BY <1>1, <1>2, <1>3, <2>1 DEF Genuine
<1>4. ASSUME NEW e \in Entries, EntryGenuine(e) PROVE EntryGenuine(e)'
  BY <1>3, <1>4 DEF Entries, EntryGenuine
<1>5. ASSUME NEW p \in Procs PROVE CmdOK(p)'
  <2>1. PlanOK(p)' /\ VerifiedOK(p)'
    BY <1>1 DEF IInv, CmdOK, PlanOK, AsRead, Pinned, HasNeeds, VerifiedOK, procVars,
                Unfetched, Fetched, Agrees
  <2>2. plan[p] \subseteq Entries /\ got[p] \subseteq Digests /\ read[p] \subseteq Digests
    BY DEF IInv, TypeOK
  <2>3. CarriedOK(p)'
    BY <1>1, <1>3, <1>4, <2>2 DEF IInv, CmdOK, CarriedOK, procVars
  <2>4. QED
    BY <2>1, <2>3 DEF CmdOK
<1>6. LockOK'
  <2>1. lock.entries \subseteq Entries
    BY DEF IInv, TypeOK
  <2>2. QED
    BY <1>1, <1>4, <2>1 DEF IInv, LockOK, WholeLockIsClosed, Pinned, HasNeeds, fileVars
<1>7. WritersNoted'
  BY <1>1 DEF IInv, WritersNoted, Writing, fileVars, procVars
<1>8. QED
  BY <1>5, <1>6, <1>7, TypeRegistry DEF IInv

\* What holds of the other commands stays when one takes a step.
LEMMA OthersKeep ==
    ASSUME NEW q \in Procs, CmdOK(q), UNCHANGED <<bytes, edited>>,
           UNCHANGED <<pc[q], kind[q], plan[q], got[q], read[q]>>
    PROVE  CmdOK(q)'
BY DEF CmdOK, PlanOK, AsRead, Pinned, HasNeeds, VerifiedOK, CarriedOK, EntryGenuine, Genuine,
       Unfetched, Fetched, Agrees

\* A step of a command that leaves ip.lock alone and is not writing it afterwards.
LEMMA QuietStep ==
    ASSUME IInv, NEW p \in Procs, TypeOK', UNCHANGED <<bytes, edited, lock, torn, mixed, basis>>,
           \A q \in Procs \ {p} : UNCHANGED <<pc[q], kind[q], plan[q], got[q], read[q]>>,
           pc'[p] # "writing", CmdOK(p)'
    PROVE  IInv'
<1>1. \A q \in Procs : CmdOK(q)'
  BY OthersKeep DEF IInv
<1>2. LockOK'
  BY DEF IInv, LockOK, EntryGenuine, Genuine, WholeLockIsClosed, Pinned, HasNeeds
<1>3. Writing' \subseteq Writing
  BY DEF Writing
<1>4. WritersNoted'
  BY <1>3 DEF IInv, WritersNoted
<1>5. QED
  BY <1>1, <1>2, <1>4 DEF IInv
-----------------------------------------------------------------------------
(* The steps of a command.                                                 *)

\* Before the plan is made or read there is nothing to hold but the digests.
LEMMA EarlyStep ==
    ASSUME IInv, NEW p \in Procs,
           \/ \E k \in Kinds : Start(p, k)
           \/ AddReads(p) \/ AddWrites(p) \/ NoLock(p) \/ UseLock(p) \/ LeaveLock(p)
           \/ Exit(p) \/ Stop(p)
    PROVE  IInv'
<1> USE DEF IInv, TypeOK
<1>1. TypeOK'
  BY TypeCommand DEF Command
<1>2. UNCHANGED <<bytes, edited, lock, torn, mixed, basis>>
  BY DEF Start, AddReads, AddWrites, NoLock, UseLock, LeaveLock, Exit, Stop, Forget, regVars, fileVars
<1>3. \A q \in Procs \ {p} : UNCHANGED <<pc[q], kind[q], plan[q], got[q], read[q]>>
  BY DEF Start, AddReads, AddWrites, NoLock, UseLock, LeaveLock, Exit, Stop, Forget, Goto
<1>4. \/ pc'[p] \in {"idle", "edit", "save", "readlock", "resolve"}
      \/ pc'[p] = "fetch" /\ kind'[p] = "locked"
  BY DEF Start, AddReads, AddWrites, NoLock, UseLock, LeaveLock, Exit, Stop, Forget, Goto, Kinds
<1>5. plan'[p] \in {plan[p], {}} /\ got'[p] \in {got[p], {}} /\ read'[p] \in {read[p], {}}
  BY DEF Start, AddReads, AddWrites, NoLock, UseLock, LeaveLock, Exit, Stop, Forget
<1>6. CarriedOK(p)'
  BY <1>2, <1>5 DEF CmdOK, CarriedOK, EntryGenuine, Genuine
<1>7. CmdOK(p)'
  BY <1>4, <1>6 DEF CmdOK, PlanOK, VerifiedOK
<1>8. QED
  BY <1>1, <1>2, <1>3, <1>4, <1>7, QuietStep

LEMMA ReadLockStep ==
    ASSUME IInv, NEW p \in Procs, ReadLock(p)
    PROVE  IInv'
<1> USE DEF IInv, TypeOK
<1>1. TypeOK'
  BY TypeCommand DEF Command
<1>2. UNCHANGED <<bytes, edited, lock, torn, mixed, basis, kind, got, read>>
  BY DEF ReadLock, regVars, fileVars
<1>3. \A q \in Procs \ {p} : UNCHANGED <<pc[q], kind[q], plan[q], got[q], read[q]>>
  BY DEF ReadLock, Goto
<1>4. /\ plan'[p] = lock.entries
      /\ pc'[p] = "check" \/ (pc'[p] = "fetch" /\ kind'[p] = "locked")
  BY DEF ReadLock, Goto
<1>5. CarriedOK(p)'
  BY <1>2, <1>4 DEF CmdOK, CarriedOK, LockOK, EntryGenuine, Genuine
<1>6. CmdOK(p)'
  BY <1>4, <1>5 DEF CmdOK, PlanOK, VerifiedOK
<1>7. QED
  BY <1>1, <1>2, <1>3, <1>4, <1>6, QuietStep

LEMMA ResolveStep ==
    ASSUME IInv, NEW p \in Procs, Resolve(p)
    PROVE  IInv'
<1> USE DEF IInv, TypeOK
<1>1. TypeOK'
  BY TypeCommand DEF Command
<1>2. UNCHANGED <<bytes, edited, lock, torn, mixed, basis, kind, got>>
  BY DEF Resolve, regVars, fileVars
<1>3. \A q \in Procs \ {p} : UNCHANGED <<pc[q], kind[q], plan[q], got[q], read[q]>>
  BY DEF Resolve, Goto
<1>4. PICK S \in Selections(manifest) :
          plan'[p] = [core : S, sum : {NoSum}] /\ read'[p] = {Served(c) : c \in S}
  BY DEF Resolve
<1>5. AsRead(p)'
  <2>1. \A e \in plan'[p] : Served(e.core)[1] = e.core /\ Served(e.core) \in read'[p]
    BY <1>4 DEF Served
  <2>2. \A d \in read'[p] : HasNeeds(plan'[p], d)
    BY <1>4, SelectedIsClosed DEF Selections
  <2>3. QED
    BY <2>1, <2>2 DEF AsRead, HasNeeds
<1>6. pc'[p] = "digest"
  BY DEF Resolve, Goto
<1>7. CarriedOK(p)'
  BY <1>2, <1>4 DEF CmdOK, CarriedOK, EntryGenuine, Genuine, Served
<1>8. CmdOK(p)'
  BY <1>5, <1>6, <1>7 DEF CmdOK, PlanOK, VerifiedOK
<1>9. QED
  BY <1>1, <1>2, <1>3, <1>6, <1>8, QuietStep

LEMMA BuildLockStep ==
    ASSUME IInv, NEW p \in Procs, BuildLock(p)
    PROVE  IInv'
<1> DEFINE Pin(e) == [core |-> e.core, sum |-> Served(e.core)]
<1>1. TypeOK'
  BY TypeCommand DEF IInv, Command
<1>2. UNCHANGED <<bytes, edited, lock, torn, mixed, basis, kind, got, read>>
  BY DEF BuildLock, regVars, fileVars
<1>3. \A q \in Procs \ {p} : UNCHANGED <<pc[q], kind[q], plan[q], got[q], read[q]>>
  BY DEF IInv, TypeOK, BuildLock, Goto
<1>4. plan'[p] = {Pin(e) : e \in plan[p]}
  BY DEF IInv, TypeOK, BuildLock
<1>5. pc[p] = "digest" /\ pc'[p] = IF kind[p] = "resolve" THEN "write" ELSE "fetch"
  BY DEF IInv, TypeOK, BuildLock, Goto
<1>6. \A d : HasNeeds(plan[p], d) => HasNeeds(plan'[p], d)
  <2>1. \A e : Pin(e).core = e.core
    OBVIOUS
  <2> HIDE DEF Pin
  <2>2. \A e \in plan[p] : \E f \in plan'[p] : f.core = e.core
    BY <1>4, <2>1
  <2>3. QED
    BY <2>2 DEF HasNeeds
<1>7. \A e \in plan'[p] : /\ e.sum # NoSum /\ e.sum[1] = e.core /\ e.sum = <<e.core, bytes[e.core]>>
                          /\ \E f \in plan[p] : f.core = e.core
  <2>1. \A e \in plan[p] : e.core \in Cores /\ bytes[e.core] \in Revisions
    BY DEF IInv, TypeOK, Entries
  <2>2. QED
    BY <1>4, <2>1, NoSumAssumption DEF Served
<1>8. Pinned(plan[p], read[p])'
  <2>1. AsRead(p) /\ \A d \in read[p] : Genuine(d)
    BY <1>5 DEF IInv, CmdOK, PlanOK, CarriedOK
  <2>2. ASSUME NEW e \in plan'[p], e.sum \notin read[p] PROVE e.core \in edited
    <3>1. PICK d \in read[p] : d[1] = e.core
      BY <1>7, <2>1 DEF AsRead
    <3>2. QED
      BY <1>7, <2>1, <2>2, <3>1 DEF Genuine
  <2>3. ASSUME NEW e \in plan'[p], e.sum \in read[p] PROVE HasNeeds(plan'[p], e.sum)
    BY <1>6, <2>1, <2>3 DEF AsRead
  <2>4. QED
    BY <1>2, <1>7, <2>2, <2>3 DEF Pinned, HasNeeds
<1>9. CarriedOK(p)'
  BY <1>2, <1>7 DEF IInv, CmdOK, CarriedOK, EntryGenuine, Genuine
<1>10. CmdOK(p)'
  BY <1>2, <1>5, <1>8, <1>9 DEF CmdOK, PlanOK, VerifiedOK
<1>11. QED
  BY <1>1, <1>2, <1>3, <1>5, <1>10, QuietStep

LEMMA FetchStep ==
    ASSUME IInv, NEW p \in Procs, Fetch(p)
    PROVE  IInv'
<1> USE DEF IInv, TypeOK
<1>1. TypeOK'
  BY TypeCommand DEF Command
<1>2. UNCHANGED <<bytes, edited, lock, torn, mixed, basis, pc, kind, plan, read>> /\ pc[p] = "fetch"
  BY DEF Fetch, regVars, fileVars
<1>3. \A q \in Procs \ {p} : got'[q] = got[q]
  BY DEF Fetch
<1>4. PICK c \in Unfetched(p) : got'[p] = got[p] \cup {Served(c)}
  BY DEF Fetch
<1>5. CarriedOK(p)'
  BY <1>2, <1>4 DEF CmdOK, CarriedOK, EntryGenuine, Genuine, Served
<1>6. CmdOK(p)'
  BY <1>2, <1>5 DEF CmdOK, PlanOK, Pinned, HasNeeds, VerifiedOK
<1>7. QED
  BY <1>1, <1>2, <1>3, <1>6, QuietStep

\* The verdict: what goes on agrees, and what does not agree was edited.
LEMMA VerifyStep ==
    ASSUME IInv, NEW p \in Procs, Verify(p)
    PROVE  IInv'
<1> USE DEF IInv, TypeOK
<1>1. TypeOK'
  BY TypeCommand DEF Command
<1>2. /\ UNCHANGED <<bytes, edited, lock, torn, mixed, basis, kind, plan, got, read>>
      /\ pc[p] = "fetch" /\ Unfetched(p) = {}
  BY DEF Verify, regVars, fileVars
<1>3. \A q \in Procs \ {p} : pc'[q] = pc[q]
  BY DEF Verify, Goto
<1>4. \/ pc'[p] = "mismatch" /\ ~Agrees(p)
      \/ pc'[p] = "installed" /\ Agrees(p)
      \/ pc'[p] = "write" /\ Agrees(p) /\ kind[p] # "locked"
  BY DEF Verify, Goto
<1>5. CarriedOK(p) /\ CarriedOK(p)'
  BY <1>2 DEF CmdOK, CarriedOK, EntryGenuine, Genuine
<1>6. Unfetched(p)' = Unfetched(p) /\ Agrees(p)' = Agrees(p)
  BY <1>2 DEF Unfetched, Fetched, Agrees
<1>7. PlanOK(p)'
  BY <1>2, <1>4 DEF CmdOK, PlanOK, Pinned, HasNeeds
<1>8. pc'[p] = "mismatch" => \E e \in plan[p] : e.core \in edited
  BY <1>2, <1>4, <1>5, DisagreeIsEdited
<1>9. VerifiedOK(p)'
  BY <1>2, <1>4, <1>6, <1>8 DEF VerifiedOK
<1>10. QED
  BY <1>1, <1>2, <1>3, <1>4, <1>5, <1>7, <1>9, QuietStep DEF CmdOK

-----------------------------------------------------------------------------
(* The steps that write ip.lock.                                           *)

LEMMA WriteOpensStep ==
    ASSUME IInv, NEW p \in Procs, WriteOpens(p)
    PROVE  IInv'
<1> USE DEF IInv, TypeOK
<1>1. TypeOK'
  BY TypeCommand DEF Command
<1>2. /\ UNCHANGED <<bytes, edited, kind, plan, got, read>> /\ pc[p] = "write"
      /\ lock' = Broken /\ torn' = TRUE /\ mixed' = (Writing # {})
      /\ pc' = [pc EXCEPT ![p] = "writing"]
  BY DEF WriteOpens, Goto, regVars
<1>3. ASSUME NEW q \in Procs PROVE CmdOK(q)'
  <2>1. CASE q = p
    BY <1>2, <2>1 DEF CmdOK, PlanOK, Pinned, HasNeeds, VerifiedOK, CarriedOK, EntryGenuine,
                      Genuine, Unfetched, Fetched, Agrees
  <2>2. CASE q # p
    BY <1>2, <2>2, OthersKeep
  <2>3. QED
    BY <2>1, <2>2
<1>4. LockOK'
  BY <1>2 DEF LockOK, Broken, WholeLockIsClosed
<1>5. Writing' = Writing \cup {p}
  BY <1>2 DEF Writing
<1>6. WritersNoted'
  BY <1>2, <1>5 DEF WritersNoted
<1>7. QED
  BY <1>1, <1>3, <1>4, <1>6

LEMMA WritePartStep ==
    ASSUME IInv, NEW p \in Procs, WritePart(p)
    PROVE  IInv'
<1>1. TypeOK'
  BY TypeCommand DEF IInv, Command
<1>2. UNCHANGED <<bytes, edited, torn, mixed, basis, pc, kind, plan, got, read>> /\ pc[p] = "writing"
  BY DEF WritePart, regVars, procVars
<1>3. \A q \in Procs : CmdOK(q)'
  BY <1>2, OthersKeep DEF IInv
<1>4. torn
  BY <1>2 DEF IInv, WritersNoted, Writing
<1>5. ASSUME NEW e \in lock'.entries PROVE EntryGenuine(e)
  <2>1. PICK f \in plan[p] : \E last \in {f, [f EXCEPT !.sum = NoSum]} :
            lock' = Text({g \in plan[p] : Before(g.core, f.core)} \cup {last})
    BY DEF WritePart
  <2>2. PICK last \in {f, [f EXCEPT !.sum = NoSum]} :
            lock' = Text({g \in plan[p] : Before(g.core, f.core)} \cup {last})
    BY <2>1
  <2>3. e \in plan[p] \/ e = [f EXCEPT !.sum = NoSum]
    BY <2>2 DEF Text
  <2>4. f \in Entries
    BY DEF IInv, TypeOK
  <2>5. [f EXCEPT !.sum = NoSum].sum = NoSum
    BY <2>4 DEF Entries
  <2>6. QED
    BY <2>3, <2>5 DEF IInv, CmdOK, CarriedOK, EntryGenuine
<1>6. LockOK'
  BY <1>2, <1>4, <1>5 DEF LockOK, WholeLockIsClosed, EntryGenuine, Genuine
<1>7. WritersNoted'
  BY <1>2 DEF IInv, WritersNoted, Writing
<1>8. QED
  BY <1>1, <1>3, <1>6, <1>7 DEF IInv

LEMMA WriteClosesStep ==
    ASSUME IInv, NEW p \in Procs, WriteCloses(p)
    PROVE  IInv'
<1> USE DEF IInv, TypeOK
<1>1. TypeOK'
  BY TypeCommand DEF Command
<1>2. /\ UNCHANGED <<bytes, edited, mixed, kind, plan, got, read>> /\ pc[p] = "writing"
      /\ pc' = [pc EXCEPT ![p] = "installed"]
  BY DEF WriteCloses, Goto, regVars
<1>3. ASSUME NEW q \in Procs PROVE CmdOK(q)'
  <2>1. CASE q = p
    BY <1>2, <2>1 DEF CmdOK, PlanOK, Pinned, HasNeeds, VerifiedOK, CarriedOK, EntryGenuine,
                      Genuine, Unfetched, Fetched, Agrees
  <2>2. CASE q # p
    BY <1>2, <2>2, OthersKeep
  <2>3. QED
    BY <2>1, <2>2
<1>4. p \in Writing /\ torn /\ Writing' = Writing \ {p}
  BY <1>2 DEF WritersNoted, Writing
<1>5. lock' \in {Broken, Text(plan[p]), Text(plan[p] \cup lock.entries)}
  BY DEF WriteCloses
<1>6. \A e \in lock'.entries : EntryGenuine(e)'
  BY <1>2, <1>5 DEF Broken, Text, CmdOK, CarriedOK, LockOK, EntryGenuine, Genuine
<1>7. torn' \/ (lock' = Text(plan[p]) /\ basis' = read[p] /\ ~mixed)
  BY <1>4 DEF WriteCloses
<1>8. Pinned(plan[p], read[p])
  BY <1>2 DEF CmdOK, PlanOK
<1>9. WholeLockIsClosed'
  <2> SUFFICES ASSUME ~torn' PROVE Pinned(lock.entries, basis)'
    BY DEF WholeLockIsClosed
  <2>1. lock'.entries = plan[p] /\ basis' = read[p]
    BY <1>7 DEF Text
  <2>2. QED
    BY <1>2, <1>8, <2>1 DEF Pinned, HasNeeds
<1>10. WritersNoted'
  BY <1>2, <1>4, <1>7 DEF WritersNoted
<1>11. QED
  BY <1>1, <1>3, <1>6, <1>9, <1>10 DEF LockOK

LEMMA IInvStep == IInv /\ [Next]_vars => IInv'
<1>1. IInv /\ UNCHANGED vars => IInv'
  <2> SUFFICES ASSUME IInv, UNCHANGED vars PROVE IInv'
    OBVIOUS
  <2>1. TypeOK'
    BY TypeStep DEF IInv
  <2>2. UNCHANGED <<bytes, edited, lock, torn, mixed, basis, pc, kind, plan, got, read>>
    BY DEF vars, regVars, fileVars, procVars
  <2>3. \A q \in Procs : CmdOK(q)'
    BY <2>2, OthersKeep DEF IInv
  <2>4. LockOK' /\ WritersNoted'
    BY <2>2 DEF IInv, LockOK, EntryGenuine, Genuine, WholeLockIsClosed, Pinned, HasNeeds,
                WritersNoted, Writing
  <2>5. QED
    BY <2>1, <2>3, <2>4 DEF IInv
<1>2. QED
  BY <1>1, RegistryStep, EarlyStep, ReadLockStep, ResolveStep, BuildLockStep, FetchStep,
     VerifyStep, WriteOpensStep, WritePartStep, WriteClosesStep
     DEF Next, Command

LEMMA Invariant == Spec => []IInv
BY IInvInit, IInvStep, PTL DEF Spec

-----------------------------------------------------------------------------
(* What it gives.                                                          *)

\* An install that reports success has fetched what its lock pins, whatever the
\* registry did between the two reads and however many commands ran beside it.
THEOREM InstalledAgrees == Spec => []InstalledIsLocked
<1>1. IInv => InstalledIsLocked
  BY DEF IInv, CmdOK, VerifiedOK, Agrees, InstalledIsLocked
<1>2. QED
  BY <1>1, Invariant, PTL

\* A mismatch that install reports is never the work of publishing, of yanking or of
\* another command: a core of its lock was edited.
THEOREM MismatchExplained == Spec => []MismatchMeansEdit
<1>1. IInv => MismatchMeansEdit
  BY DEF IInv, CmdOK, VerifiedOK, MismatchMeansEdit
<1>2. QED
  BY <1>1, Invariant, PTL

\* A lock written to its end by one command at a time pins every core by checksum:
\* one whose pinned bytes the resolve read with all that those bytes need, and any
\* other was edited.
THEOREM WholeLockCloses == Spec => []WholeLockIsClosed
<1>1. IInv => WholeLockIsClosed
  BY DEF IInv, LockOK
<1>2. QED
  BY <1>1, Invariant, PTL

\* Nobody writes ip.lock but a command that has verified all of it (or resolve, which
\* fetches nothing): failures and deaths before that leave the file as it was.
THEOREM OnlyVerifiedIsWritten == Spec => LockChangesOnlyVerified
<1> DEFINE Explained ==
      lock' # lock =>
        \E p \in Procs :
            /\ pc[p] \in {"write", "writing"}
            /\ kind[p] = "resolve" \/ (kind[p] # "locked" /\ Unfetched(p) = {} /\ Agrees(p))
<1>1. IInv /\ [Next]_vars => [Explained]_vars
  <2> SUFFICES ASSUME IInv, Next, lock' # lock
               PROVE  \E p \in Procs :
                        /\ pc[p] \in {"write", "writing"}
                        /\ \/ kind[p] = "resolve"
                           \/ kind[p] # "locked" /\ Unfetched(p) = {} /\ Agrees(p)
    OBVIOUS
  <2>1. \E p \in Procs : WriteOpens(p) \/ WritePart(p) \/ WriteCloses(p)
    BY DEF Next, Start, Command, AddReads, AddWrites, NoLock, ReadLock, UseLock, LeaveLock, Resolve,
           BuildLock, Fetch, Verify, Exit, Stop, Forget, Publish, Yank, Edit, fileVars
  <2>2. PICK p \in Procs : pc[p] \in {"write", "writing"}
    BY <2>1 DEF WriteOpens, WritePart, WriteCloses
  <2>3. QED
    BY <2>2 DEF IInv, CmdOK, VerifiedOK
<1>2. QED
  BY <1>1, Invariant, PTL DEF Spec, LockChangesOnlyVerified
=============================================================================
