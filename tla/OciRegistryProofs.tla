------------------------- MODULE OciRegistryProofs -------------------------
(***************************************************************************)
(* What OciRegistry keeps of the promise for every number of publishers    *)
(* and versions and every mix of credentials.  Two arguments.  A publisher *)
(* comes to the tag only over its two blobs, and what has been there is    *)
(* there or was collected.  A publisher that got past the check is         *)
(* looking at a version without a tag, unless it is blind or behind.       *)
(***************************************************************************)
EXTENDS OciRegistry, TLAPS

Kept == blobs \cup swept
Pushing(p) == pc[p] \in {"head", "post", "upload", "tag"}

\* The blobs a publisher has dealt with.
Pushed(p) ==
    /\ Pushing(p) /\ part[p] = "layer" => Blob(ver[p], p, "config") \in Kept
    /\ pc[p] = "tag" => part[p] = "layer" /\ Blob(ver[p], p, "layer") \in Kept
PushedInOrder == \A p \in Publishers : Pushed(p)

\* A publisher past the check, with its eyes open, has no tag before it.
SeenAbsent ==
    \A p \in Publishers \ (blind \cup behind) : Pushing(p) => tags[ver[p]] = None

\* The second attempt of a publisher entitled to push carries a good token.
SecondAttemptIsGood ==
    \A p \in retried : setup.rights[p] = "push" => Allowed(p)

IInv ==
    /\ TypeOK
    /\ PushedInOrder
    /\ TaggedIsFetchable
    /\ SeenAbsent
    /\ SecondAttemptIsGood
    /\ OneRetryIsEnough

-----------------------------------------------------------------------------
LEMMA IInvInit == Init => IInv
BY NoneAssumption DEF Init, IInv, TypeOK, PushedInOrder, Pushed, Pushing, TaggedIsFetchable,
   SeenAbsent, SecondAttemptIsGood, OneRetryIsEnough, Rights, Parts, Blobs

\* What a publisher's steps do to its own variables, and to nobody else's.
LEMMA ProcTypes ==
    ASSUME TypeOK, NEW p \in Publishers,
           NEW l \in {"check", "head", "post", "upload", "tag"}, NEW b \in Parts,
           pc[p] # "idle", Goto(p, l, b), ver' = ver
    PROVE  /\ pc' \in [Publishers -> {"idle", "check", "head", "post", "upload", "tag"}]
           /\ part' \in [Publishers -> Parts]
           /\ retried' \subseteq {q \in Publishers : pc'[q] # "idle"}
           /\ \A q \in Publishers : pc'[q] = "idle" <=> ver'[q] = None
BY DEF TypeOK, Goto

LEMMA LeaveTypes ==
    ASSUME TypeOK, NEW p \in Publishers, Leave(p)
    PROVE  /\ pc' \in [Publishers -> {"idle", "check", "head", "post", "upload", "tag"}]
           /\ ver' \in [Publishers -> Versions \cup {None}]
           /\ part' \in [Publishers -> Parts]
           /\ token' \in [Publishers -> Rights \cup {"none", "stale"}]
           /\ retried' \subseteq {q \in Publishers : pc'[q] # "idle"}
           /\ \A q \in Publishers : pc'[q] = "idle" <=> ver'[q] = None
           /\ \A q \in Publishers \ {p} : pc'[q] = pc[q] /\ ver'[q] = ver[q]
           /\ pc'[p] = "idle"
BY DEF TypeOK, Leave, Goto, Parts

LEMMA StoreTypes ==
    ASSUME TypeOK, NEW p \in Publishers, pc[p] # "idle", Store(p)
    PROVE  blobs' \subseteq Blobs /\ swept' \subseteq Blobs \ blobs'
BY DEF TypeOK, Store, Blob, Blobs

LEMMA TypeAnyOther ==
    ASSUME TypeOK, NEW p \in Publishers, AnyOther(p), UNCHANGED <<serverVars, setup>>,
           turned' \subseteq Publishers
    PROVE  TypeOK'
<1>1. CASE pc[p] = "check"
  BY <1>1 DEF AnyOther, TypeOK, serverVars, Goto, Parts
<1>2. CASE pc[p] = "head"
  BY <1>2 DEF AnyOther, TypeOK, serverVars, Goto
<1>3. CASE pc[p] \in {"post", "upload", "tag"}
  BY <1>3, LeaveTypes DEF AnyOther, TypeOK, serverVars, Leave
<1>4. QED
  BY <1>1, <1>2, <1>3 DEF AnyOther

LEMMA TypeStep == IInv /\ [Next]_vars => TypeOK'
<1> SUFFICES ASSUME IInv, [Next]_vars PROVE TypeOK'
  OBVIOUS
<1>0. TypeOK
  BY DEF IInv
<1>1. ASSUME NEW p \in Publishers, NEW v \in Versions, Begin(p, v) PROVE TypeOK'
  <2>1. FirstToken(p) \in Rights \cup {"none", "stale"}
    BY <1>0, SetupsAssumption DEF FirstToken, TypeOK, Setup
  <2>2. v # None
    BY NoneAssumption
  <2>3. QED
    BY <1>0, <1>1, <2>1, <2>2 DEF Begin, TypeOK, serverVars
<1>2. ASSUME NEW p \in Publishers, Challenged(p) PROVE TypeOK'
  <2>1. Issued(p) \in Rights
    BY <1>0, SetupsAssumption DEF Issued, TypeOK, Setup, Rights
  <2>2. QED
    BY <1>0, <1>2, <2>1 DEF Challenged, TypeOK, serverVars
<1>3. ASSUME NEW p \in Publishers, Unauthorised(p) \/ ServerError(p) PROVE TypeOK'
  BY <1>0, <1>3, TypeAnyOther DEF Unauthorised, ServerError, TypeOK
<1>4. ASSUME NEW p \in Publishers, Refused(p) PROVE TypeOK'
  BY <1>0, <1>4, LeaveTypes DEF Refused, TypeOK, serverVars, Leave
<1>5. ASSUME NEW p \in Publishers, Unpublished(p) PROVE TypeOK'
  BY <1>0, <1>5 DEF Unpublished, Goto, TypeOK, serverVars, Parts
<1>6. ASSUME NEW p \in Publishers, Found(p) \/ NotFound(p) \/ UploadStarts(p) PROVE TypeOK'
  BY <1>0, <1>6 DEF Found, NotFound, UploadStarts, NextPart, Goto, TypeOK, serverVars, Parts
<1>7. ASSUME NEW p \in Publishers, Uploaded(p) PROVE TypeOK'
  <2>1. blobs' \subseteq Blobs /\ swept' \subseteq Blobs \ blobs' /\ tags' = tags
    BY <1>0, <1>7, StoreTypes DEF Uploaded, Store
  <2>2. QED
    BY <1>0, <1>7, <2>1 DEF Uploaded, NextPart, Goto, TypeOK, Parts
<1>8. ASSUME NEW p \in Publishers, PutTag(p), Leave(p), pc[p] = "tag", UNCHANGED <<setup, turned>>
      PROVE  TypeOK'
  <2>1. ver[p] \in Versions
    BY <1>0, <1>8 DEF TypeOK
  <2>2. tags' \in [Versions -> Publishers \cup {None}]
    BY <1>0, <1>8, <2>1 DEF PutTag, TypeOK
  <2>3. \A q \in Publishers : ver[q] = ver[p] => pc[q] # "idle"
    BY <1>0, <2>1, NoneAssumption DEF TypeOK
  <2>4. blind' \cup behind' \subseteq {q \in Publishers : pc'[q] \notin {"idle", "check"}}
    BY <1>0, <1>8, <2>3, LeaveTypes DEF PutTag, Leave, TypeOK
  <2>5. QED
    BY <1>0, <1>8, <2>2, <2>4, LeaveTypes DEF PutTag, TypeOK
<1>9. ASSUME NEW p \in Publishers, Tagged(p) PROVE TypeOK'
  BY <1>9, <1>8 DEF Tagged
<1>10. ASSUME NEW p \in Publishers, AckLost(p) PROVE TypeOK'
  <2>1. CASE pc[p] = "tag"
    BY <1>10, <1>8, <2>1 DEF AckLost
  <2>2. CASE pc[p] = "upload"
    <3>1. blobs' \subseteq Blobs /\ swept' \subseteq Blobs \ blobs' /\ tags' = tags
      BY <1>0, <1>10, <2>2, StoreTypes DEF AckLost, Store
    <3>2. QED
      BY <1>0, <1>10, <2>2, <3>1, LeaveTypes DEF AckLost, TypeOK, Leave
  <2>3. QED
    BY <1>10, <2>1, <2>2 DEF AckLost
<1>11. ASSUME NEW p \in Publishers, Stop(p) PROVE TypeOK'
  BY <1>0, <1>11, LeaveTypes DEF Stop, TypeOK, serverVars, Leave
<1>12. ASSUME NEW p \in Publishers, Expire(p) PROVE TypeOK'
  BY <1>0, <1>12 DEF Expire, TypeOK, serverVars
<1>13. ASSUME NEW b \in blobs, Collect(b) PROVE TypeOK'
  BY <1>0, <1>13 DEF Collect, TypeOK, procVars
<1>14. CASE UNCHANGED vars
  BY <1>0, <1>14 DEF vars, serverVars, procVars, TypeOK
<1>15. QED
  BY <1>1, <1>2, <1>3, <1>4, <1>5, <1>6, <1>7, <1>9, <1>10, <1>11, <1>12, <1>13, <1>14
     DEF Next, Step

-----------------------------------------------------------------------------
(* Blobs and tags.                                                         *)

\* What has been there is there, or was collected.
LEMMA KeptGrows == IInv /\ [Next]_vars => Kept \subseteq Kept'
<1> SUFFICES ASSUME IInv, [Next]_vars PROVE Kept \subseteq Kept'
  OBVIOUS
<1>1. CASE UNCHANGED <<blobs, swept>>
  BY <1>1 DEF Kept
<1>2. ASSUME NEW p \in Publishers, Store(p) PROVE Kept \subseteq Kept'
  BY <1>2 DEF Kept, Store
<1>3. ASSUME NEW b \in blobs, Collect(b) PROVE Kept \subseteq Kept'
  BY <1>3 DEF Kept, Collect
<1>4. ASSUME NEW p \in Publishers, PutTag(p) PROVE Kept \subseteq Kept'
  BY <1>4 DEF Kept, PutTag
<1>5. QED
  BY <1>1, <1>2, <1>3, <1>4
     DEF Next, Step, Begin, Challenged, Unauthorised, ServerError, Refused, Unpublished, Found,
         NotFound, UploadStarts, Uploaded, Tagged, AckLost, Stop, Expire, vars, serverVars

\* Which blob a step of p deals with, and where p goes from there.
LEMMA DealsWith ==
    ASSUME IInv, NEW p \in Publishers, Pushing(p),
           NextPart(p), ver' = ver, Blob(ver[p], p, part[p]) \in Kept', Kept \subseteq Kept'
    PROVE  Pushed(p)'
<1>1. pc[p] # "tag" \/ part[p] = "layer"
  BY DEF IInv, PushedInOrder, Pushed
<1>2. CASE part[p] = "config"
  BY <1>2 DEF IInv, TypeOK, NextPart, Goto, Pushed, Pushing
<1>3. CASE part[p] = "layer"
  <2>1. Blob(ver[p], p, "config") \in Kept'
    BY <1>3 DEF IInv, PushedInOrder, Pushed
  <2>2. pc'[p] = "tag" /\ part'[p] = "layer"
    BY <1>3 DEF IInv, TypeOK, NextPart, Goto
  <2>3. QED
    BY <1>3, <2>1, <2>2 DEF Pushed
<1>4. QED
  BY <1>2, <1>3 DEF IInv, TypeOK, Parts

\* A publisher that stays where it is keeps what it has dealt with.
LEMMA StaysPushed ==
    ASSUME IInv, NEW q \in Publishers, pc'[q] = pc[q], ver'[q] = ver[q], part'[q] = part[q],
           Kept \subseteq Kept'
    PROVE  Pushed(q)'
BY DEF IInv, PushedInOrder, Pushed, Pushing

\* So does one that goes on with the same part, and one at the start has
\* nothing to keep.
LEMMA GoesOnPushed ==
    ASSUME IInv, NEW p \in Publishers, NEW l \in {"idle", "check", "head", "post", "upload"},
           pc'[p] = l, Kept \subseteq Kept',
           part'[p] = "config" \/ (part'[p] = part[p] /\ Pushing(p) /\ ver'[p] = ver[p])
    PROVE  Pushed(p)'
BY DEF IInv, PushedInOrder, Pushed, Pushing

LEMMA PushedStep == IInv /\ [Next]_vars => PushedInOrder'
<1> SUFFICES ASSUME IInv, [Next]_vars, NEW q \in Publishers PROVE Pushed(q)'
  BY DEF PushedInOrder
<1>0. Kept \subseteq Kept'
  BY KeptGrows
<1>1. CASE UNCHANGED <<pc, ver, part>>
  BY <1>0, <1>1, StaysPushed
<1>2. ASSUME NEW p \in Publishers, NEW v \in Versions, Begin(p, v) PROVE Pushed(q)'
  <2>1. CASE q = p
    BY <1>2, <2>1 DEF Begin, Pushed, Pushing, IInv, TypeOK
  <2>2. CASE q # p
    BY <1>0, <1>2, <2>2, StaysPushed DEF Begin, IInv, TypeOK
  <2>3. QED
    BY <2>1, <2>2
<1>3. ASSUME NEW p \in Publishers, Leave(p) PROVE Pushed(q)'
  <2>1. CASE q = p
    BY <1>3, <2>1 DEF Leave, Goto, Pushed, Pushing, IInv, TypeOK
  <2>2. CASE q # p
    BY <1>0, <1>3, <2>2, StaysPushed DEF Leave, Goto, IInv, TypeOK
  <2>3. QED
    BY <2>1, <2>2
<1>4. ASSUME NEW p \in Publishers, NEW l \in {"head", "post", "upload"}, NEW b \in Parts,
             Goto(p, l, b), ver' = ver, b = "config" \/ (b = part[p] /\ Pushing(p))
      PROVE  Pushed(q)'
  <2>1. CASE q = p
    <3>1. pc'[p] = l /\ part'[p] = b
      BY <1>4 DEF Goto, IInv, TypeOK
    <3>2. QED
      BY <1>0, <1>4, <2>1, <3>1, GoesOnPushed
  <2>2. CASE q # p
    BY <1>0, <1>4, <2>2, StaysPushed DEF Goto, IInv, TypeOK
  <2>3. QED
    BY <2>1, <2>2
<1>5. ASSUME NEW p \in Publishers, Pushing(p), NextPart(p), ver' = ver,
             Blob(ver[p], p, part[p]) \in Kept'
      PROVE  Pushed(q)'
  <2>1. CASE q = p
    BY <1>0, <1>5, <2>1, DealsWith
  <2>2. CASE q # p
    BY <1>0, <1>5, <2>2, StaysPushed DEF NextPart, Goto, IInv, TypeOK
  <2>3. QED
    BY <2>1, <2>2
<1>6. ASSUME NEW p \in Publishers, AnyOther(p) PROVE Pushed(q)'
  <2>1. part[p] \in Parts /\ "config" \in Parts
    BY DEF IInv, TypeOK, Parts
  <2>2. CASE pc[p] = "check"
    BY <1>4, <1>6, <2>1, <2>2 DEF AnyOther
  <2>3. CASE pc[p] = "head"
    BY <1>4, <1>6, <2>1, <2>3 DEF AnyOther, Pushing
  <2>4. CASE pc[p] \in {"post", "upload", "tag"}
    BY <1>3, <1>6, <2>4 DEF AnyOther
  <2>5. QED
    BY <1>6, <2>2, <2>3, <2>4 DEF AnyOther
<1>7. ASSUME NEW p \in Publishers, Unpublished(p) \/ NotFound(p) \/ UploadStarts(p)
      PROVE  Pushed(q)'
  <2>1. part[p] \in Parts /\ "config" \in Parts
    BY DEF IInv, TypeOK, Parts
  <2>2. CASE Unpublished(p)
    BY <1>4, <2>1, <2>2 DEF Unpublished
  <2>3. CASE NotFound(p)
    BY <1>4, <2>1, <2>3 DEF NotFound, Pushing
  <2>4. CASE UploadStarts(p)
    BY <1>4, <2>1, <2>4 DEF UploadStarts, Pushing
  <2>5. QED
    BY <1>7, <2>2, <2>3, <2>4
<1>8. ASSUME NEW p \in Publishers, Found(p) PROVE Pushed(q)'
  <2>1. Blob(ver[p], p, part[p]) \in Kept'
    BY <1>0, <1>8 DEF Found, Kept
  <2>2. QED
    BY <1>5, <1>8, <2>1 DEF Found, Pushing
<1>9. ASSUME NEW p \in Publishers, Uploaded(p) PROVE Pushed(q)'
  <2>1. Blob(ver[p], p, part[p]) \in Kept'
    BY <1>9 DEF Uploaded, Store, Kept
  <2>2. QED
    BY <1>5, <1>9, <2>1 DEF Uploaded, Pushing
<1>10. QED
  BY <1>1, <1>2, <1>3, <1>6, <1>7, <1>8, <1>9
     DEF Next, Step, Challenged, Unauthorised, ServerError, Refused, Tagged, AckLost, Stop,
         Expire, Collect, vars, procVars

\* Who changes a tag.
LEMMA TagsChange ==
    ASSUME IInv, [Next]_vars
    PROVE  \/ tags' = tags
           \/ \E p \in Publishers : pc[p] = "tag" /\ Leave(p) /\ PutTag(p)
BY DEF Next, Step, Begin, Challenged, Unauthorised, ServerError, Refused, Unpublished, Found,
       NotFound, UploadStarts, Uploaded, Store, Tagged, AckLost, Stop, Expire, Collect,
       vars, serverVars

LEMMA FetchableStep == IInv /\ [Next]_vars => TaggedIsFetchable'
<1> SUFFICES ASSUME IInv, [Next]_vars PROVE TaggedIsFetchable'
  OBVIOUS
<1>0. Kept \subseteq Kept'
  BY KeptGrows
<1>1. CASE tags' = tags
  BY <1>0, <1>1 DEF IInv, TaggedIsFetchable, Kept
<1>2. ASSUME NEW p \in Publishers, pc[p] = "tag", PutTag(p) PROVE TaggedIsFetchable'
  <2>1. \A b \in Parts : Blob(ver[p], p, b) \in Kept'
    BY <1>0, <1>2 DEF IInv, PushedInOrder, Pushed, Pushing, Parts
  <2>2. \A v \in Versions : tags'[v] = IF v = ver[p] THEN p ELSE tags[v]
    BY <1>2 DEF PutTag, IInv, TypeOK
  <2>3. QED
    BY <1>0, <2>1, <2>2 DEF IInv, TaggedIsFetchable, Kept
<1>3. QED
  BY <1>1, <1>2, TagsChange

LEMMA SeenStep == IInv /\ [Next]_vars => SeenAbsent'
<1> SUFFICES ASSUME IInv, [Next]_vars, NEW q \in Publishers,
                    q \notin blind' \cup behind', Pushing(q)'
             PROVE  tags'[ver'[q]] = None
  BY DEF SeenAbsent
<1>1. ASSUME NEW p \in Publishers, pc[p] = "tag", Leave(p), PutTag(p)
      PROVE  tags'[ver'[q]] = None
  <2>1. q # p /\ pc'[q] = pc[q] /\ ver'[q] = ver[q] /\ (q \in blind <=> q \in blind')
    BY <1>1, LeaveTypes DEF Pushing, IInv, Leave
  <2>2. q \notin behind /\ ver[q] # ver[p]
    BY <1>1, <2>1 DEF PutTag, Pushing
  <2>3. tags[ver[q]] = None
    BY <2>1, <2>2 DEF IInv, SeenAbsent, Pushing
  <2>4. QED
    BY <1>1, <2>1, <2>2, <2>3 DEF PutTag, IInv, TypeOK
<1>2. ASSUME tags' = tags, q \notin blind \cup behind, Pushing(q), ver'[q] = ver[q]
      PROVE  tags'[ver'[q]] = None
  BY <1>2 DEF IInv, SeenAbsent
<1>3. ASSUME NEW p \in Publishers, tags' = tags, Leave(p), behind' = behind \ {p}
      PROVE  tags'[ver'[q]] = None
  <2>1. q # p /\ pc'[q] = pc[q] /\ ver'[q] = ver[q]
    BY <1>3, LeaveTypes DEF Pushing, IInv
  <2>2. QED
    BY <1>2, <1>3, <2>1 DEF Leave, Pushing
<1>4. ASSUME NEW p \in Publishers, NEW l \in {"head", "post", "upload", "tag"}, NEW b \in Parts,
             Goto(p, l, b), tags' = tags, ver' = ver, behind' = behind, blind' = blind,
             q = p => Pushing(p)
      PROVE  tags'[ver'[q]] = None
  <2>1. q # p => pc'[q] = pc[q]
    BY <1>4 DEF Goto, IInv, TypeOK
  <2>2. QED
    BY <1>2, <1>4, <2>1 DEF Pushing
<1>5. ASSUME NEW p \in Publishers, Refused(p) PROVE tags'[ver'[q]] = None
  <2>1. p \notin behind
    BY <1>5 DEF Refused, IInv, TypeOK
  <2>2. QED
    BY <1>3, <1>5, <2>1 DEF Refused, serverVars
<1>6. ASSUME NEW p \in Publishers, Unpublished(p) PROVE tags'[ver'[q]] = None
  <2>1. CASE q = p
    BY <1>6, <2>1 DEF Unpublished, serverVars
  <2>2. CASE q # p
    BY <1>4, <1>6, <2>2 DEF Unpublished, serverVars, Parts
  <2>3. QED
    BY <2>1, <2>2
<1>7. ASSUME NEW p \in Publishers, AnyOther(p), tags' = tags PROVE tags'[ver'[q]] = None
  <2>1. part[p] \in Parts
    BY DEF IInv, TypeOK
  <2>2. CASE pc[p] = "check"
    <3>1. q # p
      BY <1>7, <2>2 DEF AnyOther
    <3>2. pc'[q] = pc[q]
      BY <1>7, <2>2, <3>1 DEF AnyOther, Goto, IInv, TypeOK
    <3>3. QED
      BY <1>2, <1>7, <2>2, <3>1, <3>2 DEF AnyOther, Pushing
  <2>3. CASE pc[p] = "head"
    BY <1>4, <1>7, <2>1, <2>3 DEF AnyOther, Pushing
  <2>4. CASE pc[p] \in {"post", "upload", "tag"}
    BY <1>3, <1>7, <2>4 DEF AnyOther
  <2>5. QED
    BY <1>7, <2>2, <2>3, <2>4 DEF AnyOther
<1>8. ASSUME NEW p \in Publishers, Found(p) \/ NotFound(p) \/ UploadStarts(p) \/ Uploaded(p)
      PROVE  tags'[ver'[q]] = None
  <2>1. part[p] \in Parts /\ "layer" \in Parts /\ Pushing(p)
    BY <1>8 DEF IInv, TypeOK, Parts, Found, NotFound, UploadStarts, Uploaded, Pushing
  <2>2. tags' = tags /\ ver' = ver /\ behind' = behind /\ blind' = blind
    BY <1>8 DEF Found, NotFound, UploadStarts, Uploaded, Store, serverVars
  <2>3. \E l \in {"head", "post", "upload", "tag"}, b \in Parts : Goto(p, l, b)
    BY <1>8, <2>1 DEF Found, NotFound, UploadStarts, Uploaded, NextPart
  <2>4. QED
    BY <1>4, <2>1, <2>2, <2>3
<1>9. ASSUME NEW p \in Publishers, NEW v \in Versions, Begin(p, v) PROVE tags'[ver'[q]] = None
  <2>1. q # p /\ pc'[q] = pc[q] /\ ver'[q] = ver[q]
    BY <1>9 DEF Begin, Pushing, IInv, TypeOK
  <2>2. QED
    BY <1>2, <1>9, <2>1 DEF Begin, serverVars, Pushing
<1>10. CASE UNCHANGED <<tags, pc, ver, blind, behind>>
  BY <1>2, <1>10 DEF Pushing
<1>11. ASSUME NEW p \in Publishers, AckLost(p) PROVE tags'[ver'[q]] = None
  <2>1. CASE pc[p] = "upload"
    BY <1>3, <1>11, <2>1 DEF AckLost, Store
  <2>2. CASE pc[p] = "tag"
    BY <1>1, <1>11, <2>2 DEF AckLost
  <2>3. QED
    BY <1>11, <2>1, <2>2 DEF AckLost
<1>12. QED
  BY <1>1, <1>3, <1>5, <1>6, <1>7, <1>8, <1>9, <1>10, <1>11
     DEF Next, Step, Challenged, Unauthorised, ServerError, Tagged, Stop,
         Expire, Collect, vars, procVars, serverVars

-----------------------------------------------------------------------------
(* Tokens.                                                                 *)

\* A step that touches neither the request nor its token leaves an answer as it is.
LEMMA SameAnswer ==
    ASSUME IInv, NEW q \in retried, q \in Publishers, pc'[q] = pc[q], token'[q] = token[q],
           setup' = setup
    PROVE  setup'.rights[q] = "push" => Allowed(q)'
BY DEF IInv, SecondAttemptIsGood, Allowed, Reading

LEMMA SecondStep == IInv /\ [Next]_vars => SecondAttemptIsGood'
<1> SUFFICES ASSUME IInv, [Next]_vars, NEW q \in retried'
             PROVE  setup'.rights[q] = "push" => Allowed(q)'
  BY DEF SecondAttemptIsGood
<1>0. q \in Publishers
  BY TypeStep DEF TypeOK
<1>1. ASSUME NEW p \in Publishers, NEW l, NEW b, Goto(p, l, b), setup' = setup,
             token' = token \/ token' = [token EXCEPT ![p] = "none"]
      PROVE  setup'.rights[q] = "push" => Allowed(q)'
  <2>1. q # p /\ q \in retried
    BY <1>1 DEF Goto
  <2>2. pc'[q] = pc[q] /\ token'[q] = token[q]
    BY <1>0, <1>1, <2>1 DEF Goto, IInv, TypeOK
  <2>3. QED
    BY <1>0, <1>1, <2>1, <2>2, SameAnswer
<1>2. ASSUME NEW p \in Publishers, Challenged(p)
      PROVE  setup'.rights[q] = "push" => Allowed(q)'
  <2>1. CASE q = p
    <3>1. token'[p] = IF Reading(p) THEN "pull" ELSE setup.rights[p]
      BY <1>2 DEF Challenged, Issued, IInv, TypeOK
    <3>2. pc' = pc /\ setup' = setup
      BY <1>2 DEF Challenged
    <3>3. QED
      BY <2>1, <3>1, <3>2 DEF Allowed, Reading
  <2>2. CASE q # p
    <3>1. q \in retried /\ pc'[q] = pc[q] /\ token'[q] = token[q] /\ setup' = setup
      BY <1>0, <1>2, <2>2 DEF Challenged, IInv, TypeOK
    <3>2. QED
      BY <1>0, <3>1, SameAnswer
  <2>3. QED
    BY <2>1, <2>2
<1>3. ASSUME NEW p \in Publishers, NEW v \in Versions, Begin(p, v)
      PROVE  setup'.rights[q] = "push" => Allowed(q)'
  <2>1. q # p /\ q \in retried
    BY <1>3 DEF Begin, IInv, TypeOK
  <2>2. pc'[q] = pc[q] /\ token'[q] = token[q] /\ setup' = setup
    BY <1>0, <1>3, <2>1 DEF Begin, IInv, TypeOK
  <2>3. QED
    BY <1>0, <2>1, <2>2, SameAnswer
<1>4. ASSUME NEW p \in Publishers, Expire(p)
      PROVE  setup'.rights[q] = "push" => Allowed(q)'
  <2>1. q # p /\ q \in retried
    BY <1>4 DEF Expire
  <2>2. pc'[q] = pc[q] /\ token'[q] = token[q] /\ setup' = setup
    BY <1>0, <1>4, <2>1 DEF Expire, IInv, TypeOK
  <2>3. QED
    BY <1>0, <2>1, <2>2, SameAnswer
<1>5. CASE UNCHANGED <<pc, token, retried, setup>>
  BY <1>0, <1>5, SameAnswer
<1>6. ASSUME NEW p \in Publishers, Leave(p), setup' = setup
      PROVE  setup'.rights[q] = "push" => Allowed(q)'
  BY <1>1, <1>6 DEF Leave
<1>7. ASSUME NEW p \in Publishers, AnyOther(p), setup' = setup
      PROVE  setup'.rights[q] = "push" => Allowed(q)'
  BY <1>1, <1>6, <1>7 DEF AnyOther
<1>8. ASSUME NEW p \in Publishers,
             Unpublished(p) \/ Found(p) \/ NotFound(p) \/ UploadStarts(p) \/ Uploaded(p)
      PROVE  setup'.rights[q] = "push" => Allowed(q)'
  BY <1>1, <1>8 DEF Unpublished, Found, NotFound, UploadStarts, Uploaded, NextPart
<1>9. QED
  BY <1>2, <1>3, <1>4, <1>5, <1>6, <1>7, <1>8
     DEF Next, Step, Unauthorised, ServerError, Refused, Tagged, AckLost, Stop, Collect,
         vars, procVars

LEMMA RetryStep == IInv /\ [Next]_vars => OneRetryIsEnough'
<1> SUFFICES ASSUME IInv, [Next]_vars PROVE OneRetryIsEnough'
  OBVIOUS
<1>1. setup' = setup
  BY DEF Next, Step, Begin, Challenged, Unauthorised, ServerError, Refused, Unpublished, Found,
         NotFound, UploadStarts, Uploaded, Tagged, AckLost, Stop, Expire, Collect, vars
<1>2. ASSUME NEW p \in Publishers, Unauthorised(p) PROVE OneRetryIsEnough'
  <2>1. p \in retried => setup.rights[p] # "push"
    BY <1>2 DEF Unauthorised, IInv, SecondAttemptIsGood
  <2>2. QED
    BY <1>1, <1>2, <2>1 DEF Unauthorised, IInv, OneRetryIsEnough
<1>3. CASE turned' \subseteq turned
  BY <1>1, <1>3 DEF IInv, OneRetryIsEnough
<1>4. QED
  BY <1>2, <1>3
     DEF Next, Step, Begin, Challenged, ServerError, Refused, Unpublished, Found,
         NotFound, UploadStarts, Uploaded, Tagged, AckLost, Stop, Expire, Collect, vars

-----------------------------------------------------------------------------
LEMMA Inductive == Spec => []IInv
<1>1. IInv /\ [Next]_vars => IInv'
  BY TypeStep, PushedStep, FetchableStep, SeenStep, SecondStep, RetryStep DEF IInv
<1>2. QED
  BY <1>1, IInvInit, PTL DEF Spec

\* The server's and the publishers' variables keep their types, and only a
\* publisher past its check is blind or behind.
THEOREM TypeCorrect == Spec => []TypeOK
<1>1. IInv => TypeOK
  BY DEF IInv
<1>2. QED
  BY <1>1, Inductive, PTL

\* publish_core puts the tag last: what a tag names was pushed before, both parts.
THEOREM TaggedFetchable == Spec => []TaggedIsFetchable
<1>1. IInv => TaggedIsFetchable
  BY DEF IInv
<1>2. QED
  BY <1>1, Inductive, PTL

\* _send's single retry serves whoever is entitled.
THEOREM OneRetry == Spec => []OneRetryIsEnough
<1>1. IInv => OneRetryIsEnough
  BY DEF IInv
<1>2. QED
  BY <1>1, Inductive, PTL

\* A tag that is there is overwritten only by a publisher whose check came before
\* it or was not answered.
THEOREM OverwritingExplained == Spec => OverwrittenOnlyUnseen
<1> DEFINE Explained ==
        \A v \in Versions : tags[v] # None /\ tags'[v] # tags[v] =>
            \E p \in blind \cup behind : pc[p] = "tag" /\ ver[p] = v
<1>1. IInv /\ [Next]_vars => [Explained]_vars
  <2> SUFFICES ASSUME IInv, [Next]_vars, NEW v \in Versions,
                      tags[v] # None, tags'[v] # tags[v]
               PROVE  \E p \in blind \cup behind : pc[p] = "tag" /\ ver[p] = v
    OBVIOUS
  <2>1. PICK p \in Publishers : pc[p] = "tag" /\ PutTag(p)
    BY TagsChange
  <2>2. ver[p] = v
    BY <2>1 DEF PutTag, IInv, TypeOK
  <2>3. p \in blind \cup behind
    BY <2>1, <2>2 DEF IInv, SeenAbsent, Pushing
  <2>4. QED
    BY <2>1, <2>2, <2>3
<1>2. QED
  BY <1>1, Inductive, PTL DEF Spec, OverwrittenOnlyUnseen
=============================================================================
