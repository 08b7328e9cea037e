--------------------------- MODULE ResolverProofs ---------------------------
(***************************************************************************)
(* The resolver, for any finite set of packages and versions, any index,   *)
(* any root and each policy.                                               *)
(*                                                                         *)
(* None of the properties is inductive: they speak of the end of a search  *)
(* whose work lies in the stack.  What a call of _solve knows is Sound:    *)
(* its clauses are exactly those that the root and the versions chosen so  *)
(* far ask for, what is chosen meets them, and no newer choice of a single *)
(* package would do.  What it has given up is Confined: a solution that    *)
(* agrees with its choices decides its node as an untried version, or as   *)
(* the one its callee works on.  The walk then needs only that the node    *)
(* assignment is a solution (WalkInv).                                     *)
(*                                                                         *)
(* What the resolver takes a version and a constraint to be comes from     *)
(* version.py, so the theorems about Versions follow here: the orders are  *)
(* total, groups have no gaps, a caret is a group, and clauses go by  *)
(* value, for any tokens.  They rest on one reading of the orders: *)
(* each scheme compares by value (Beats) and then breaks ties in its own   *)
(* way (Tie).                                                              *)
(***************************************************************************)
EXTENDS Resolver, Versions, FiniteSetTheorems, SequenceTheorems, WellFoundedInduction, TLAPS

-----------------------------------------------------------------------------
(* Least and greatest elements.                                            *)

\* A non-empty set of naturals has a least element.
LEMMA LeastOf ==
    ASSUME NEW S \in SUBSET Nat, S # {}
    PROVE  \E m \in S : \A n \in S : m <= n
<1> DEFINE R == OpToRel(<, Nat)
<1>1. PICK m \in S : \A n \in S : ~(<<n, m>> \in R)
  <2> HIDE DEF R
  <2> QED
    BY NatLessThanWellFounded, WFMin DEF R
<1>2. \A n \in S : ~(n < m)
  BY <1>1 DEF OpToRel
<1>3. QED
  BY <1>2

\* Newest is well defined: of the versions in S, take one with the fewest above it.
LEMMA NewestOf ==
    ASSUME NEW S \in SUBSET Versions, S # {}
    PROVE  Newest(S) \in S /\ \A w \in S : w <= Newest(S)
<1> DEFINE Newer(v) == {w \in S : w > v}
           N == {Cardinality(Newer(v)) : v \in S}
<1> USE VersionsAssumption
<1>0. S \subseteq Nat
  OBVIOUS
<1>1. ASSUME NEW v \in S
      PROVE  IsFiniteSet(Newer(v)) /\ Cardinality(Newer(v)) \in Nat
  BY FS_Subset, FS_CardinalityType
<1>2. N \in SUBSET Nat /\ N # {}
  BY <1>1
<1>3. PICK m \in N : \A n \in N : m <= n
  <2> HIDE DEF N
  <2> QED
    BY <1>2, LeastOf
<1>4. PICK v \in S : m = Cardinality(Newer(v))
  BY <1>3
<1>5. ASSUME NEW w \in S, w > v PROVE FALSE
  <2>1. Newer(w) \in SUBSET (Newer(v) \ {w})
    <3>1. \A u \in S : u > w => u > v /\ u # w
      BY <1>5, <1>0
    <3>2. QED
      BY <3>1
  <2>2. /\ IsFiniteSet(Newer(v) \ {w})
        /\ Cardinality(Newer(v) \ {w}) = m - 1
    <3>1. w \in Newer(v)
      BY <1>5
    <3> HIDE DEF Newer
    <3> QED
      BY <1>1, <1>4, <3>1, FS_RemoveElement
  <2>3. Cardinality(Newer(w)) <= m - 1
    <3> HIDE DEF Newer
    <3> QED
      BY <2>1, <2>2, FS_Subset
  <2>4. Cardinality(Newer(w)) \in N /\ m \in Nat
    BY <1>2, <1>3
  <2>5. Cardinality(Newer(w)) \in Nat
    BY <1>1
  <2> HIDE DEF N, Newer
  <2>6. QED
    BY <1>3, <2>3, <2>4, <2>5
<1>6. \A w \in S : w <= v
  BY <1>5
<1>7. QED
  BY <1>6 DEF Newest

NodeSet == Refs \X Nat

\* The node decided next is one of those that are pending.
LEMMA FirstIsOne ==
    ASSUME NEW S \in SUBSET NodeSet, S # {}
    PROVE  First(S) \in S
<1> USE RefsAssumption DEF NodeSet
<1> DEFINE R == {n[1] : n \in S}
<1>1. PICK r \in R : \A s \in R : r <= s
  <2>1. R \in SUBSET Nat /\ R # {}
    OBVIOUS
  <2> HIDE DEF R
  <2> QED
    BY <2>1, LeastOf
<1> DEFINE T == {n \in S : n[1] = r}
           G == {n[2] : n \in T}
<1>2. PICK g \in G : \A h \in G : g <= h
  <2>1. G \in SUBSET Nat /\ G # {}
    BY <1>1
  <2> HIDE DEF G
  <2> QED
    BY <2>1, LeastOf
<1>3. PICK n \in T : n[2] = g
  BY <1>2
<1>4. ASSUME NEW m \in S PROVE n[1] < m[1] \/ (n[1] = m[1] /\ n[2] <= m[2])
  <2>1. r <= m[1] /\ m[1] \in Nat /\ r \in Nat /\ n[1] = r
    BY <1>1, <1>3
  <2>2. CASE m[1] = r
    <3>1. m[2] \in G
      BY <2>2
    <3>2. QED
      BY <1>2, <1>3, <2>1, <2>2, <3>1
  <2>3. QED
    BY <2>1, <2>2
<1>5. QED
  BY <1>3, <1>4 DEF First
-----------------------------------------------------------------------------
(* The inductive invariant.                                                *)

Assignments == UNION {[S -> Versions] : S \in SUBSET NodeSet}
ClauseSets == UNION {[S -> SUBSET Requirements] : S \in SUBSET NodeSet}
Frames == [clauses : ClauseSets, chosen : Assignments, untried : SUBSET Versions]

PendingOf(f) == Pending(f.clauses, f.chosen)
NodeOf(f) == First(PendingOf(f))

\* The manifests whose dependencies count once `chosen` is chosen.
Manifests(chosen) == {root} \cup {index[n[1]][chosen[n]] : n \in DOMAIN chosen}

AgreesOn(sol, chosen, S) == \A n \in S : n \in DOMAIN sol /\ sol[n] = chosen[n]

\* The clauses are what those manifests ask for, all of it and nothing else.
AsksAll(clauses, chosen) ==
    \A deps \in Manifests(chosen) : \A r \in DOMAIN deps :
        /\ EdgeNode(r, deps[r]) \in DOMAIN clauses
        /\ deps[r] \in clauses[EdgeNode(r, deps[r])]
AsksOnly(clauses, chosen) ==
    \A n \in DOMAIN clauses :
        /\ clauses[n] # {}
        /\ \A c \in clauses[n] : \E deps \in Manifests(chosen) : \E r \in DOMAIN deps :
                c = deps[r] /\ n = EdgeNode(r, deps[r])

\* No manifest that counts depends on an opaque package without a pin.
AllPinned(chosen) == \A deps \in Manifests(chosen) : ~Unpinned(deps)

\* What is chosen is on offer, of its node's group, and meets the clauses.
ChoiceMeets(f) ==
    \A n \in DOMAIN f.chosen : n \in DOMAIN f.clauses /\ f.chosen[n] \in Viable(n, f.clauses)

\* No solution has one package newer and agrees with the other choices.
ChoiceIsNewest(f) ==
    \A n \in DOMAIN f.chosen : \A sol :
        IsSolution(sol) /\ n \in DOMAIN sol /\ AgreesOn(sol, f.chosen, DOMAIN f.chosen \ {n})
            => sol[n] <= f.chosen[n]

\* What is still to be tried could be chosen.
UntriedFit(f) == PendingOf(f) # {} => f.untried \subseteq Viable(NodeOf(f), f.clauses)

Sound(f) ==
    /\ AsksAll(f.clauses, f.chosen)
    /\ AsksOnly(f.clauses, f.chosen)
    /\ AllPinned(f.chosen)
    /\ ChoiceMeets(f)
    /\ ChoiceIsNewest(f)
    /\ UntriedFit(f)

\* A solution that agrees with a call's choices decides the call's node in S.
Confined(f, S) ==
    \A sol : IsSolution(sol) /\ AgreesOn(sol, f.chosen, DOMAIN f.chosen) => sol[NodeOf(f)] \in S

\* g is the call that f made for a version of its node: that version and those
\* not tried yet are all that f has left.
Follows(f, g) ==
    /\ PendingOf(f) # {}
    /\ DOMAIN g.chosen = DOMAIN f.chosen \cup {NodeOf(f)}
    /\ AgreesOn(g.chosen, f.chosen, DOMAIN f.chosen)
    /\ Confined(f, f.untried \cup {g.chosen[NodeOf(f)]})

StackOK(s) ==
    /\ s \in Seq(Frames) /\ s # <<>>
    /\ \A i \in 1..Len(s) : Sound(s[i])
    /\ DOMAIN s[1].chosen = {}
    /\ \A i \in 1..Len(s) - 1 : Follows(s[i], s[i + 1])
    /\ PendingOf(s[Len(s)]) # {} => Confined(s[Len(s)], s[Len(s)].untried)

SearchInv == outcome = "search" => StackOK(stack) /\ found = {}
GaveUpInv == outcome = "unsolvable" => \A sol : ~IsSolution(sol)

\* The assignment that the search has found.
IsDecision(sol) ==
    /\ sol \in Assignments
    /\ IsSolution(sol)
    /\ AllPinned(sol)
    /\ \A n \in DOMAIN sol : \A v : IsSolution([sol EXCEPT ![n] = v]) => v <= sol[n]

DecisionInv == outcome \in {"walk", "resolved", "conflict"} => IsDecision(solution)

\* The walk keeps what the policy says, and an edge it knows of is still to be
\* followed or led to a version that it has reached.
WalkInv ==
    outcome \in {"walk", "resolved"} =>
        /\ \A r \in Refs : kept[r] = LET all == Assigned(r, solution)
                                      IN  IF policy = "use_latest" /\ all # {}
                                          THEN {Newest(all)} ELSE all
        /\ policy = "fail_on_conflict" => Conflicted(solution) = {}
        /\ queue \subseteq SelectedEdges
        /\ \A e \in SelectedEdges : e \in queue \/ <<e[1], PickForEdge(e[1], e[2])>> \in found
        /\ \A x \in found :
            /\ x[1] \in Refs /\ x[2] \in kept[x[1]]
            /\ \E e \in SelectedEdges : e[1] = x[1] /\ PickForEdge(e[1], e[2]) = x[2]
        /\ outcome = "resolved" => queue = {}

IInv ==
    /\ TypeOK
    /\ SearchInv /\ GaveUpInv /\ DecisionInv /\ WalkInv

-----------------------------------------------------------------------------
(* The operators of the model.                                             *)

LEMMA IndexType ==
    ASSUME problem \in Problems
    PROVE  /\ IsManifest(root) /\ policy \in Policies
           /\ \A r \in Refs : /\ Available(r) \subseteq Versions
                              /\ \A v \in Available(r) : IsManifest(index[r][v])
BY ProblemsAssumption DEF root, policy, Available, index

\* A node is of the edge's own package.
LEMMA EdgeNodeRef ==
    ASSUME NEW r, NEW c
    PROVE  EdgeNode(r, c)[1] = r
BY DEF EdgeNode

LEMMA EdgeNodeType ==
    ASSUME problem \in Problems, NEW deps, IsManifest(deps), ~Unpinned(deps),
           NEW r \in DOMAIN deps
    PROVE  EdgeNode(r, deps[r]) \in NodeSet /\ EdgeNode(r, deps[r])[1] = r
<1> DEFINE c == deps[r]
<1>1. r \in Refs /\ c \in Requirements /\ Available(r) \subseteq Versions
  BY IndexType DEF IsManifest
<1>2. CASE r \in Opaque
  <2>1. PICK v \in Versions : v = c.pin
    BY <1>1, <1>2 DEF Requirements, Unpinned
  <2>2. EdgeNode(r, c) = <<r, v>>
    BY <1>2, <2>1 DEF EdgeNode
  <2>3. QED
    BY <1>1, <2>2, VersionsAssumption DEF NodeSet
<1>3. CASE r \notin Opaque /\ Available(r) = {}
  BY <1>1, <1>3 DEF EdgeNode, NodeSet, Missing
<1>4. CASE r \notin Opaque /\ Available(r) # {}
  <2> DEFINE matching == Available(r) \cap c.match
             pivot == IF matching # {} THEN Newest(matching) ELSE Newest(Available(r))
  <2>1. pivot \in Versions
    BY <1>1, <1>4, NewestOf
  <2>2. EdgeNode(r, c) = <<r, Major[pivot]>>
    BY <1>4 DEF EdgeNode, Group
  <2>3. QED
    BY <1>1, <2>1, <2>2, MajorAssumption DEF NodeSet
<1>5. QED
  BY <1>2, <1>3, <1>4

LEMMA AssignmentType ==
    ASSUME NEW sol \in Assignments
    PROVE  /\ DOMAIN sol \in SUBSET NodeSet
           /\ \A n \in DOMAIN sol : sol[n] \in Versions
           /\ sol = [n \in DOMAIN sol |-> sol[n]]
BY DEF Assignments

LEMMA ClauseType ==
    ASSUME NEW clauses \in ClauseSets
    PROVE  /\ DOMAIN clauses \in SUBSET NodeSet
           /\ \A n \in DOMAIN clauses : clauses[n] \in SUBSET Requirements
BY DEF ClauseSets

LEMMA NodeIsPending ==
    ASSUME NEW f \in Frames, PendingOf(f) # {}
    PROVE  /\ NodeOf(f) \in NodeSet /\ NodeOf(f) \in DOMAIN f.clauses
           /\ NodeOf(f) \notin DOMAIN f.chosen
<1>1. PendingOf(f) \in SUBSET NodeSet
  BY ClauseType DEF Frames, PendingOf, Pending
<1>2. NodeOf(f) \in PendingOf(f)
  BY <1>1, FirstIsOne DEF NodeOf
<1>3. QED
  BY <1>1, <1>2 DEF PendingOf, Pending

\* `after` has the clauses that `before` has and those of the manifest, no others.
Adds(after, before, deps) ==
    /\ DOMAIN after = DOMAIN before \cup NodesOf(deps)
    /\ \A n \in DOMAIN after : \A c :
        c \in after[n] <=>
            \/ n \in DOMAIN before /\ c \in before[n]
            \/ \E r \in DOMAIN deps : c = deps[r] /\ n = EdgeNode(r, deps[r])

\* What one more manifest adds to the clauses.
LEMMA AddedClauses ==
    ASSUME problem \in Problems, NEW clauses \in ClauseSets,
           NEW deps, IsManifest(deps), ~Unpinned(deps)
    PROVE  /\ AddClauses(clauses, deps) \in ClauseSets
           /\ Adds(AddClauses(clauses, deps), clauses, deps)
<1> DEFINE added == AddClauses(clauses, deps)
<1>1. DOMAIN added = DOMAIN clauses \cup NodesOf(deps)
  BY DEF AddClauses
<1>2. \A n \in DOMAIN added : added[n] = ClausesOn(n, deps) \cup
                                    (IF n \in DOMAIN clauses THEN clauses[n] ELSE {})
  BY DEF AddClauses
<1>3. \A n, c : c \in ClausesOn(n, deps) <=>
                    \E r \in DOMAIN deps : c = deps[r] /\ n = EdgeNode(r, deps[r])
  BY DEF ClausesOn
<1>4. DOMAIN added \in SUBSET NodeSet
  BY <1>1, EdgeNodeType, ClauseType DEF NodesOf
<1>5. \A n \in DOMAIN added : added[n] \in SUBSET Requirements
  BY <1>2, <1>3, ClauseType DEF IsManifest
<1>6. added \in [DOMAIN added -> SUBSET Requirements]
  BY <1>5 DEF AddClauses
<1>7. added \in ClauseSets
  BY <1>4, <1>6 DEF ClauseSets
<1>8. Adds(added, clauses, deps)
  BY <1>1, <1>2, <1>3 DEF Adds
<1>9. QED
  BY <1>7, <1>8

\* What the clauses of a call ask is asked of every solution that agrees with it.
LEMMA SolutionIsViable ==
    ASSUME NEW f, AsksOnly(f.clauses, f.chosen), NEW sol, IsSolution(sol),
           AgreesOn(sol, f.chosen, DOMAIN f.chosen), NEW n \in DOMAIN f.clauses
    PROVE  n \in DOMAIN sol /\ sol[n] \in Viable(n, f.clauses)
<1>1. ASSUME NEW c \in f.clauses[n]
      PROVE  n \in DOMAIN sol /\ sol[n] \in c.match
  <2>1. PICK deps \in Manifests(f.chosen) :
            \E r \in DOMAIN deps : c = deps[r] /\ n = EdgeNode(r, deps[r])
    BY DEF AsksOnly
  <2>2. Meets(deps, sol)
    BY DEF Manifests, AgreesOn, IsSolution
  <2>3. QED
    BY <2>1, <2>2 DEF Meets
<1>2. n \in DOMAIN sol
  BY <1>1 DEF AsksOnly
<1>3. QED
  BY <1>1, <1>2 DEF IsSolution, Viable
-----------------------------------------------------------------------------
(* One call deeper.                                                        *)

\* A call that begins: what it knows, it knows of its own node too.
LEMMA NewCall ==
    ASSUME problem \in Problems, NEW clauses \in ClauseSets, NEW chosen \in Assignments,
           AsksOnly(clauses, chosen)
    PROVE  /\ Frame(clauses, chosen) \in Frames
           /\ Frame(clauses, chosen).clauses = clauses
           /\ Frame(clauses, chosen).chosen = chosen
           /\ UntriedFit(Frame(clauses, chosen))
           /\ PendingOf(Frame(clauses, chosen)) # {} =>
                Confined(Frame(clauses, chosen), Frame(clauses, chosen).untried)
<1> DEFINE g == Frame(clauses, chosen)
<1>1. g.clauses = clauses /\ g.chosen = chosen
  BY DEF Frame
<1>2. g.untried = IF PendingOf(g) = {} THEN {} ELSE Viable(NodeOf(g), clauses)
  BY DEF Frame, PendingOf, NodeOf
<1>3. PendingOf(g) \in SUBSET NodeSet /\ PendingOf(g) \subseteq DOMAIN clauses
  BY <1>1, ClauseType DEF PendingOf, Pending
<1>4. ASSUME PendingOf(g) # {}
      PROVE  NodeOf(g) \in NodeSet /\ NodeOf(g) \in DOMAIN clauses
  BY <1>3, <1>4, FirstIsOne DEF NodeOf
<1>5. g.untried \in SUBSET Versions
  <2>1. CASE PendingOf(g) = {}
    BY <1>2, <2>1
  <2>2. CASE PendingOf(g) # {}
    <3>1. NodeOf(g)[1] \in Refs
      BY <1>4, <2>2 DEF NodeSet
    <3>2. g.untried \subseteq Available(NodeOf(g)[1])
      BY <1>2, <2>2 DEF Viable
    <3>3. QED
      BY <3>1, <3>2, IndexType
  <2>3. QED
    BY <2>1, <2>2
<1>6. g = [clauses |-> clauses, chosen |-> chosen, untried |-> g.untried]
  BY DEF Frame
<1>7. g \in Frames
  BY <1>5, <1>6 DEF Frames
<1>8. ASSUME PendingOf(g) # {} PROVE Confined(g, g.untried)
  <2> SUFFICES ASSUME NEW sol, IsSolution(sol), AgreesOn(sol, g.chosen, DOMAIN g.chosen)
               PROVE  sol[NodeOf(g)] \in g.untried
    BY DEF Confined
  <2>1. NodeOf(g) \in DOMAIN g.clauses
    BY <1>1, <1>4, <1>8
  <2>2. sol[NodeOf(g)] \in Viable(NodeOf(g), g.clauses)
    <3>1. AsksOnly(g.clauses, g.chosen)
      BY <1>1
    <3> HIDE DEF g
    <3> QED
      BY <2>1, <3>1, SolutionIsViable
  <2>3. QED
    BY <1>1, <1>2, <1>8, <2>2
<1>9. UntriedFit(g)
  BY <1>1, <1>2 DEF UntriedFit
<1>10. QED
  BY <1>1, <1>7, <1>8, <1>9
\* A version that meets what is chosen so far: the call made for it is sound, and
\* the caller has one version less to try.
LEMMA DeeperCall ==
    ASSUME problem \in Problems, NEW f \in Frames, Sound(f), PendingOf(f) # {},
           Confined(f, f.untried), f.untried # {},
           NEW v, v = Newest(f.untried),
           NEW deps, deps = index[NodeOf(f)[1]][v], ~Unpinned(deps),
           NEW chosen, chosen = [n \in DOMAIN f.chosen \cup {NodeOf(f)} |->
                                    IF n = NodeOf(f) THEN v ELSE f.chosen[n]],
           ~Clashes(deps, chosen),
           NEW g, g = Frame(AddClauses(f.clauses, deps), chosen)
    PROVE  /\ g \in Frames /\ Sound(g)
           /\ Follows([f EXCEPT !.untried = @ \ {v}], g)
           /\ PendingOf(g) # {} => Confined(g, g.untried)
<1> DEFINE N == NodeOf(f)
<1>1. N \in NodeSet /\ N \in DOMAIN f.clauses /\ N \notin DOMAIN f.chosen
  BY NodeIsPending
<1>2. v \in f.untried /\ v \in Versions /\ v \in Viable(N, f.clauses)
      /\ \A w \in f.untried : w <= v
  BY NewestOf DEF Frames, Sound, UntriedFit
<1>3. IsManifest(deps)
  <2>1. N[1] \in Refs /\ v \in Available(N[1])
    BY <1>1, <1>2 DEF NodeSet, Viable
  <2>2. QED
    BY <2>1, IndexType
<1>4. f.clauses \in ClauseSets /\ f.chosen \in Assignments
  BY DEF Frames
<1>5. chosen \in Assignments
  <2>1. DOMAIN chosen \in SUBSET NodeSet
    BY <1>1, <1>4, AssignmentType
  <2>2. \A n \in DOMAIN chosen : chosen[n] \in Versions
    BY <1>2, <1>4, AssignmentType
  <2>3. chosen \in [DOMAIN chosen -> Versions]
    BY <2>2
  <2>4. QED
    BY <2>1, <2>3 DEF Assignments
<1>6. /\ DOMAIN chosen = DOMAIN f.chosen \cup {N}
      /\ chosen[N] = v
      /\ \A n \in DOMAIN f.chosen : chosen[n] = f.chosen[n]
  BY <1>1
<1>7. \A d : d \in Manifests(chosen) <=> d \in Manifests(f.chosen) \/ d = deps
  <2>1. deps \in Manifests(chosen)
    BY <1>6 DEF Manifests
  <2>2. Manifests(f.chosen) \subseteq Manifests(chosen)
    BY <1>6 DEF Manifests
  <2>3. ASSUME NEW n \in DOMAIN chosen
        PROVE  index[n[1]][chosen[n]] = deps \/ (n \in DOMAIN f.chosen /\ chosen[n] = f.chosen[n])
    <3>1. CASE n = N
      <4>1. n[1] = NodeOf(f)[1] /\ chosen[n] = v
        BY <1>6, <3>1
      <4>2. QED
        BY <4>1
    <3>2. CASE n # N
      BY <1>6, <3>2
    <3>3. QED
      BY <3>1, <3>2
  <2>4. ASSUME NEW d \in Manifests(chosen) PROVE d \in Manifests(f.chosen) \/ d = deps
    BY <2>3 DEF Manifests
  <2>5. QED
    BY <2>1, <2>2, <2>4
<1> DEFINE added == AddClauses(f.clauses, deps)
<1>8. added \in ClauseSets /\ Adds(added, f.clauses, deps)
  BY <1>3, <1>4, AddedClauses
<1>9. AsksOnly(added, chosen)
  <2> HIDE DEF added
  <2> SUFFICES ASSUME NEW n \in DOMAIN added
               PROVE  /\ added[n] # {}
                      /\ \A c \in added[n] :
                            \E d \in Manifests(chosen) : \E r \in DOMAIN d :
                                c = d[r] /\ n = EdgeNode(r, d[r])
    BY DEF AsksOnly
  <2>2. added[n] # {}
    <3>1. CASE n \in DOMAIN f.clauses
      <4>1. f.clauses[n] # {}
        BY <3>1 DEF Sound, AsksOnly
      <4>2. QED
        BY <1>8, <3>1, <4>1 DEF Adds
    <3>2. CASE n \in NodesOf(deps)
      <4>1. PICK r \in DOMAIN deps : n = EdgeNode(r, deps[r])
        BY <3>2 DEF NodesOf
      <4>2. QED
        BY <1>8, <4>1 DEF Adds
    <3>3. QED
      BY <3>1, <3>2, <1>8 DEF Adds
  <2>3. ASSUME NEW c \in added[n]
        PROVE  \E d \in Manifests(chosen) : \E r \in DOMAIN d :
                    c = d[r] /\ n = EdgeNode(r, d[r])
    <3>1. CASE n \in DOMAIN f.clauses /\ c \in f.clauses[n]
      <4>1. PICK d \in Manifests(f.chosen) :
                \E r \in DOMAIN d : c = d[r] /\ n = EdgeNode(r, d[r])
        BY <3>1 DEF Sound, AsksOnly
      <4>2. QED
        BY <1>7, <4>1
    <3>2. CASE \E r \in DOMAIN deps : c = deps[r] /\ n = EdgeNode(r, deps[r])
      BY <1>7, <3>2
    <3>3. \/ n \in DOMAIN f.clauses /\ c \in f.clauses[n]
          \/ \E r \in DOMAIN deps : c = deps[r] /\ n = EdgeNode(r, deps[r])
      BY <2>3, <1>8, Zenon DEF Adds
    <3>4. QED
      BY <3>1, <3>2, <3>3
  <2>4. QED
    BY <2>2, <2>3
<1>10. /\ g \in Frames /\ UntriedFit(g)
       /\ g.clauses = added /\ g.chosen = chosen
       /\ PendingOf(g) # {} => Confined(g, g.untried)
  BY <1>5, <1>8, <1>9, NewCall
<1> HIDE DEF added
<1>11. AsksAll(g.clauses, g.chosen)
  <2> SUFFICES ASSUME NEW d \in Manifests(chosen), NEW r \in DOMAIN d
               PROVE  EdgeNode(r, d[r]) \in DOMAIN g.clauses /\ d[r] \in g.clauses[EdgeNode(r, d[r])]
    BY <1>10 DEF AsksAll
  <2>1. CASE d \in Manifests(f.chosen)
    BY <1>8, <1>10, <2>1 DEF Sound, AsksAll, Adds
  <2>2. CASE d = deps
    <3>1. EdgeNode(r, d[r]) \in NodesOf(deps)
      BY <2>2 DEF NodesOf
    <3>2. EdgeNode(r, d[r]) \in DOMAIN added
      BY <1>8, <3>1 DEF Adds
    <3>3. d[r] \in added[EdgeNode(r, d[r])]
      BY <1>8, <2>2, <3>2, Zenon DEF Adds
    <3>4. QED
      BY <1>10, <3>2, <3>3
  <2>3. QED
    BY <1>7, <2>1, <2>2
<1>12. ChoiceMeets(g)
  <2> SUFFICES ASSUME NEW n \in DOMAIN chosen
               PROVE  n \in DOMAIN g.clauses /\ chosen[n] \in Viable(n, g.clauses)
    BY <1>10 DEF ChoiceMeets
  <2>1. n \in DOMAIN f.clauses /\ chosen[n] \in Viable(n, f.clauses)
    BY <1>1, <1>2, <1>6 DEF Sound, ChoiceMeets
  <2>2. n \in DOMAIN g.clauses
    BY <1>8, <1>10, <2>1 DEF Adds
  <2>3. ASSUME NEW c \in g.clauses[n] PROVE chosen[n] \in c.match
    <3>1. CASE c \in f.clauses[n]
      BY <2>1, <3>1 DEF Viable
    <3>2. CASE \E r \in DOMAIN deps : c = deps[r] /\ n = EdgeNode(r, deps[r])
      BY <1>6, <3>2 DEF Clashes
    <3>3. \/ n \in DOMAIN f.clauses /\ c \in f.clauses[n]
          \/ \E r \in DOMAIN deps : c = deps[r] /\ n = EdgeNode(r, deps[r])
      <4>1. n \in DOMAIN added /\ c \in added[n]
        BY <1>10, <2>2, <2>3
      <4>2. QED
        BY <1>8, <4>1 DEF Adds
    <3>4. QED
      BY <3>1, <3>2, <3>3
  <2>4. QED
    BY <2>1, <2>2, <2>3 DEF Viable
<1>13. ChoiceIsNewest(g)
  <2> SUFFICES ASSUME NEW n \in DOMAIN chosen, NEW sol, IsSolution(sol), n \in DOMAIN sol,
                      AgreesOn(sol, chosen, DOMAIN chosen \ {n})
               PROVE  sol[n] <= chosen[n]
    BY <1>10 DEF ChoiceIsNewest
  <2>1. CASE n = N
    <3>1. AgreesOn(sol, f.chosen, DOMAIN f.chosen)
      BY <1>1, <1>6, <2>1 DEF AgreesOn
    <3>2. sol[N] \in f.untried
      BY <3>1 DEF Confined
    <3>3. QED
      BY <1>2, <1>6, <2>1, <3>2
  <2>2. CASE n # N
    <3>1. n \in DOMAIN f.chosen /\ AgreesOn(sol, f.chosen, DOMAIN f.chosen \ {n})
      BY <1>1, <1>6, <2>2 DEF AgreesOn
    <3>2. QED
      BY <1>6, <3>1 DEF Sound, ChoiceIsNewest
  <2>3. QED
    BY <2>1, <2>2
<1>14. Follows([f EXCEPT !.untried = @ \ {v}], g)
  <2> DEFINE h == [f EXCEPT !.untried = @ \ {v}]
  <2>1. h.clauses = f.clauses /\ h.chosen = f.chosen /\ h.untried = f.untried \ {v}
    BY DEF Frames
  <2>2. PendingOf(h) = PendingOf(f) /\ NodeOf(h) = N
    BY <2>1 DEF PendingOf, NodeOf
  <2>3. AgreesOn(g.chosen, h.chosen, DOMAIN h.chosen)
    BY <1>6, <1>10, <2>1 DEF AgreesOn
  <2>4. Confined(h, h.untried \cup {g.chosen[NodeOf(h)]})
    BY <1>6, <1>10, <2>1, <2>2 DEF Confined
  <2> HIDE DEF h
  <2>5. Follows(h, g)
    BY <1>6, <1>10, <2>1, <2>2, <2>3, <2>4 DEF Follows
  <2>6. QED
    BY <2>5 DEF h
<1>15. AllPinned(chosen)
  BY <1>7 DEF Sound, AllPinned
<1>16. QED
  BY <1>9, <1>10, <1>11, <1>12, <1>13, <1>14, <1>15 DEF Sound
-----------------------------------------------------------------------------
(* The stack.                                                              *)

\* A call that has one version less to try.
Without(f, v) == [f EXCEPT !.untried = @ \ {v}]

LEMMA LessToTry ==
    ASSUME NEW f \in Frames, NEW v
    PROVE  /\ Without(f, v) \in Frames
           /\ Without(f, v).clauses = f.clauses /\ Without(f, v).chosen = f.chosen
           /\ Without(f, v).untried = f.untried \ {v}
           /\ PendingOf(Without(f, v)) = PendingOf(f) /\ NodeOf(Without(f, v)) = NodeOf(f)
           /\ Sound(f) => Sound(Without(f, v))
           /\ \A e : Follows(e, f) => Follows(e, Without(f, v))
<1> DEFINE h == Without(f, v)
<1>1. h \in Frames /\ h.clauses = f.clauses /\ h.chosen = f.chosen /\ h.untried = f.untried \ {v}
  BY DEF Frames, Without
<1> HIDE DEF h
<1>2. PendingOf(h) = PendingOf(f) /\ NodeOf(h) = NodeOf(f)
  BY <1>1 DEF PendingOf, NodeOf
<1>3. Sound(f) => Sound(h)
  <2>1. ChoiceMeets(f) => ChoiceMeets(h)
    BY <1>1 DEF ChoiceMeets
  <2>2. ChoiceIsNewest(f) => ChoiceIsNewest(h)
    BY <1>1 DEF ChoiceIsNewest
  <2>3. UntriedFit(f) => UntriedFit(h)
    BY <1>1, <1>2 DEF UntriedFit
  <2>4. QED
    BY <1>1, <2>1, <2>2, <2>3 DEF Sound
<1>4. \A e : Follows(e, f) => Follows(e, h)
  BY <1>1 DEF Follows
<1>5. QED
  BY <1>1, <1>2, <1>3, <1>4 DEF h

\* The stack with a version less to try in its last call.
LEMMA TopReplaced ==
    ASSUME NEW s, StackOK(s), NEW v, NEW t,
           t = [s EXCEPT ![Len(s)].untried = @ \ {v}]
    PROVE  /\ t \in Seq(Frames) /\ Len(t) = Len(s) /\ Len(s) \in Nat \ {0}
           /\ s[Len(s)] \in Frames
           /\ t[Len(s)] = Without(s[Len(s)], v)
           /\ \A i \in 1..Len(s) - 1 : t[i] = s[i]
           /\ \A i \in 1..Len(s) : Sound(t[i])
           /\ DOMAIN t[1].chosen = {}
           /\ \A i \in 1..Len(s) - 1 : Follows(t[i], t[i + 1])
<1> DEFINE k == Len(s)
           f == s[k]
<1>1. s \in Seq(Frames) /\ k \in Nat \ {0} /\ DOMAIN s = 1..k /\ f \in Frames
  BY DEF StackOK
<1>2. t = [s EXCEPT ![k] = Without(f, v)]
  BY DEF Without
<1>3. PICK h \in Frames : h = Without(f, v)
  BY <1>1, LessToTry
<1>4. /\ t \in Seq(Frames) /\ Len(t) = k
      /\ t[k] = Without(f, v)
      /\ \A i \in 1..k - 1 : t[i] = s[i]
  <2>1. k = Len(s) /\ k \in 1..k
    BY <1>1
  <2> HIDE DEF k, f
  <2> DEFINE w == [s EXCEPT ![k] = h]
  <2>2. /\ w \in Seq(Frames) /\ Len(w) = Len(s)
        /\ \A j \in 1..Len(s) : w[j] = IF j = k THEN h ELSE s[j]
    BY <1>1, <2>1, ExceptSeq
  <2>3. t = w
    BY <1>2, <1>3
  <2> HIDE DEF w
  <2>4. t[k] = h
    BY <2>1, <2>2, <2>3
  <2>5. \A i \in 1..k - 1 : i \in 1..k /\ i # k
    BY <1>1
  <2>6. \A i \in 1..k - 1 : t[i] = s[i]
    BY <2>1, <2>2, <2>3, <2>5
  <2>7. QED
    BY <1>3, <2>1, <2>2, <2>3, <2>4, <2>6
<1>5. ASSUME NEW i \in 1..k PROVE Sound(t[i])
  <2>1. CASE i = k
    <3>1. Sound(f)
      BY <1>1 DEF StackOK
    <3>2. Sound(Without(f, v))
      BY <1>1, <3>1, LessToTry
    <3>3. QED
      BY <1>4, <2>1, <3>2
  <2>2. CASE i # k
    BY <1>1, <1>4, <2>2 DEF StackOK
  <2>3. QED
    BY <2>1, <2>2
<1>6. DOMAIN t[1].chosen = {}
  <2>1. DOMAIN s[1].chosen = {}
    BY DEF StackOK
  <2>2. CASE k = 1
    BY <1>1, <1>4, <2>1, <2>2, LessToTry
  <2>3. CASE k # 1
    BY <1>1, <1>4, <2>1, <2>3
  <2>4. QED
    BY <2>2, <2>3
<1>7. ASSUME NEW i \in 1..k - 1 PROVE Follows(t[i], t[i + 1])
  <2>1. Follows(s[i], s[i + 1])
    BY DEF StackOK
  <2>2. CASE i + 1 = k
    <3>1. Follows(s[i], f)
      BY <2>1, <2>2
    <3>2. Follows(s[i], Without(f, v))
      BY <1>1, <3>1, LessToTry
    <3>3. QED
      BY <1>4, <2>2, <3>2
  <2>3. CASE i + 1 # k
    <3>1. i + 1 \in 1..k - 1
      BY <1>1, <2>3
    <3>2. QED
      BY <1>4, <2>1, <3>1
  <2>4. QED
    BY <2>2, <2>3
<1>8. QED
  BY <1>1, <1>4, <1>5, <1>6, <1>7

\* A call is made.
LEMMA Pushed ==
    ASSUME NEW s, StackOK(s), NEW v, NEW t,
           t = [s EXCEPT ![Len(s)].untried = @ \ {v}],
           NEW g \in Frames, Sound(g), Follows(Without(s[Len(s)], v), g),
           PendingOf(g) # {} => Confined(g, g.untried)
    PROVE  StackOK(Append(t, g))
<1> DEFINE k == Len(s)
           u == Append(t, g)
<1>1. /\ t \in Seq(Frames) /\ Len(t) = k /\ k \in Nat \ {0}
      /\ t[k] = Without(s[k], v)
      /\ \A i \in 1..k : Sound(t[i])
      /\ DOMAIN t[1].chosen = {}
      /\ \A i \in 1..k - 1 : Follows(t[i], t[i + 1])
  BY TopReplaced
<1>2. /\ u \in Seq(Frames) /\ Len(u) = k + 1 /\ u # <<>>
      /\ \A i \in 1..k : u[i] = t[i]
      /\ u[k + 1] = g
  <2>1. t \in Seq(Frames) /\ Len(t) = k /\ k \in Nat
    BY <1>1
  <2> HIDE DEF k
  <2>2. QED
    BY <2>1
<1> HIDE DEF u, k
<1>3. \A i \in 1..Len(u) : Sound(u[i])
  <2> SUFFICES ASSUME NEW i \in 1..k + 1 PROVE Sound(u[i])
    BY <1>2
  <2>1. CASE i = k + 1
    BY <1>2, <2>1
  <2>2. CASE i # k + 1
    <3>1. i \in 1..k
      BY <1>1, <2>2
    <3>2. QED
      BY <1>1, <1>2, <3>1
  <2>3. QED
    BY <2>1, <2>2
<1>4. DOMAIN u[1].chosen = {}
  <2>1. 1 \in 1..k
    BY <1>1
  <2>2. u[1] = t[1]
    BY <1>2, <2>1
  <2>3. QED
    BY <1>1, <2>2
<1>5. \A i \in 1..Len(u) - 1 : Follows(u[i], u[i + 1])
  <2> SUFFICES ASSUME NEW i \in 1..k PROVE Follows(u[i], u[i + 1])
    BY <1>1, <1>2
  <2>1. CASE i = k
    BY <1>1, <1>2, <2>1 DEF k
  <2>2. CASE i # k
    <3>1. i \in 1..k - 1 /\ i + 1 \in 1..k
      BY <1>1, <2>2
    <3>2. QED
      BY <1>1, <1>2, <3>1
  <2>3. QED
    BY <2>1, <2>2
<1>6. QED
  BY <1>2, <1>3, <1>4, <1>5 DEF StackOK, u
\* A version that what is chosen so far rules out: no solution is lost with it.
LEMMA Clashed ==
    ASSUME NEW s, StackOK(s), NEW f, f = s[Len(s)], PendingOf(f) # {},
           NEW v, NEW deps, deps = index[NodeOf(f)[1]][v],
           NEW chosen, chosen = [n \in DOMAIN f.chosen \cup {NodeOf(f)} |->
                                    IF n = NodeOf(f) THEN v ELSE f.chosen[n]],
           Clashes(deps, chosen)
    PROVE  StackOK([s EXCEPT ![Len(s)].untried = @ \ {v}])
<1> DEFINE N == NodeOf(f)
<1>1. PICK t, k : t = [s EXCEPT ![Len(s)].untried = @ \ {v}] /\ k = Len(s)
  OBVIOUS
<1>2. /\ t \in Seq(Frames) /\ Len(t) = k /\ k \in Nat \ {0}
      /\ f \in Frames
      /\ t[k] = Without(f, v)
      /\ \A i \in 1..k : Sound(t[i])
      /\ DOMAIN t[1].chosen = {}
      /\ \A i \in 1..k - 1 : Follows(t[i], t[i + 1])
  <2>1. /\ t \in Seq(Frames) /\ Len(t) = Len(s) /\ Len(s) \in Nat \ {0}
        /\ s[Len(s)] \in Frames
        /\ t[Len(s)] = Without(s[Len(s)], v)
        /\ \A i \in 1..Len(s) : Sound(t[i])
        /\ DOMAIN t[1].chosen = {}
        /\ \A i \in 1..Len(s) - 1 : Follows(t[i], t[i + 1])
    BY <1>1, TopReplaced
  <2>2. QED
    BY <1>1, <2>1
<1>3. t # <<>>
  BY <1>2
<1>4. PICK h : h = t[k] /\ h = Without(f, v)
  BY <1>2
<1>5. /\ h.chosen = f.chosen /\ h.untried = f.untried \ {v}
      /\ NodeOf(h) = N
  BY <1>2, <1>4, LessToTry
<1>6. Confined(f, f.untried)
  BY DEF StackOK
<1>7. N \notin DOMAIN f.chosen
  BY <1>2, NodeIsPending
<1>8. ASSUME NEW sol, IsSolution(sol), AgreesOn(sol, f.chosen, DOMAIN f.chosen), sol[N] = v,
             N \in DOMAIN sol
      PROVE  FALSE
  <2>1. AgreesOn(sol, chosen, DOMAIN chosen)
    BY <1>7, <1>8 DEF AgreesOn
  <2>2. Meets(deps, sol)
    BY <1>8 DEF IsSolution
  <2>3. QED
    BY <2>1, <2>2 DEF Clashes, Meets, AgreesOn
<1>9. ASSUME NEW sol, IsSolution(sol), AgreesOn(sol, f.chosen, DOMAIN f.chosen)
      PROVE  N \in DOMAIN sol
  <2>1. AsksOnly(f.clauses, f.chosen)
    BY <1>2 DEF StackOK, Sound
  <2>2. N \in DOMAIN f.clauses
    BY <1>2, NodeIsPending
  <2>3. QED
    BY <1>9, <2>1, <2>2, SolutionIsViable
<1>10. Confined(h, h.untried)
  BY <1>5, <1>6, <1>8, <1>9 DEF Confined
<1>11. StackOK(t)
  BY <1>2, <1>3, <1>4, <1>10 DEF StackOK
<1>12. QED
  BY <1>1, <1>11

\* The last call has nothing left: its caller has its untried versions left.
LEMMA Popped ==
    ASSUME NEW s, StackOK(s), Len(s) # 1,
           PendingOf(s[Len(s)]) # {}, s[Len(s)].untried = {}
    PROVE  StackOK(SubSeq(s, 1, Len(s) - 1))
<1>1. s \in Seq(Frames) /\ Len(s) \in Nat \ {0}
  BY DEF StackOK
<1>2. PICK k : k = Len(s) - 1 /\ k \in Nat \ {0}
  <2>1. Len(s) - 1 \in Nat \ {0}
    BY <1>1
  <2>2. QED
    BY <2>1
<1>3. PICK t : t = SubSeq(s, 1, k)
  OBVIOUS
<1>4. t \in Seq(Frames) /\ Len(t) = k /\ \A i \in 1..k : t[i] = s[i]
  BY <1>1, <1>2, <1>3
<1>5. k \in 1..k /\ 1 \in 1..k /\ k \in 1..Len(s) - 1
  BY <1>1, <1>2
<1>6. PICK f \in Frames, g \in Frames : f = s[k] /\ g = s[k + 1]
  BY <1>1, <1>2
<1>7. Follows(f, g) /\ Confined(g, {}) /\ t[k] = f
  BY <1>1, <1>2, <1>4, <1>5, <1>6 DEF StackOK
<1>8. Confined(f, f.untried)
  <2> SUFFICES ASSUME NEW sol, IsSolution(sol), AgreesOn(sol, f.chosen, DOMAIN f.chosen)
               PROVE  sol[NodeOf(f)] \in f.untried
    BY DEF Confined
  <2>1. sol[NodeOf(f)] \in f.untried \cup {g.chosen[NodeOf(f)]}
    BY <1>7 DEF Follows, Confined
  <2>2. ASSUME sol[NodeOf(f)] = g.chosen[NodeOf(f)] PROVE FALSE
    <3>1. NodeOf(f) \in DOMAIN sol
      <4>1. AsksOnly(f.clauses, f.chosen)
        BY <1>1, <1>2, <1>5, <1>6 DEF StackOK, Sound
      <4>2. NodeOf(f) \in DOMAIN f.clauses
        BY <1>7, NodeIsPending DEF Follows
      <4>3. QED
        BY <4>1, <4>2, SolutionIsViable
    <3>2. AgreesOn(sol, g.chosen, DOMAIN g.chosen)
      BY <1>7, <2>2, <3>1 DEF Follows, AgreesOn
    <3>3. QED
      BY <1>7, <3>2 DEF Confined
  <2>3. QED
    BY <2>1, <2>2
<1>9. \A i \in 1..k : Sound(t[i])
  BY <1>1, <1>2, <1>4 DEF StackOK
<1>10. DOMAIN t[1].chosen = {}
  BY <1>4, <1>5 DEF StackOK
<1>11. \A i \in 1..k - 1 : Follows(t[i], t[i + 1])
  <2> SUFFICES ASSUME NEW i \in 1..k - 1 PROVE Follows(t[i], t[i + 1])
    OBVIOUS
  <2>1. i \in 1..k /\ i + 1 \in 1..k /\ i \in 1..Len(s) - 1
    BY <1>1, <1>2
  <2>2. Follows(s[i], s[i + 1])
    BY <2>1 DEF StackOK
  <2>3. QED
    BY <1>4, <2>1, <2>2
<1>12. StackOK(t)
  BY <1>2, <1>4, <1>7, <1>8, <1>9, <1>10, <1>11 DEF StackOK
<1>13. QED
  BY <1>2, <1>3, <1>12

\* The only call has nothing left: there is no solution.
LEMMA NothingLeft ==
    ASSUME NEW s, StackOK(s), Len(s) = 1, PendingOf(s[1]) # {}, s[1].untried = {},
           NEW sol
    PROVE  ~IsSolution(sol)
<1>1. Confined(s[1], {}) /\ DOMAIN s[1].chosen = {}
  BY DEF StackOK
<1>2. AgreesOn(sol, s[1].chosen, DOMAIN s[1].chosen)
  BY <1>1 DEF AgreesOn
<1>3. QED
  BY <1>1, <1>2 DEF Confined

\* Nothing is pending: what is chosen is a solution, and the newest of its kind.
LEMMA Decides ==
    ASSUME NEW f \in Frames, Sound(f), PendingOf(f) = {}
    PROVE  IsDecision(f.chosen)
<1>1. DOMAIN f.clauses \subseteq DOMAIN f.chosen
  BY DEF PendingOf, Pending
<1>2. ASSUME NEW deps \in Manifests(f.chosen) PROVE Meets(deps, f.chosen)
  <2> SUFFICES ASSUME NEW r \in DOMAIN deps
               PROVE  /\ EdgeNode(r, deps[r]) \in DOMAIN f.chosen
                      /\ f.chosen[EdgeNode(r, deps[r])] \in deps[r].match
    BY DEF Meets
  <2>1. /\ EdgeNode(r, deps[r]) \in DOMAIN f.clauses
        /\ deps[r] \in f.clauses[EdgeNode(r, deps[r])]
    BY <1>2 DEF Sound, AsksAll
  <2>2. EdgeNode(r, deps[r]) \in DOMAIN f.chosen
    BY <1>1, <2>1
  <2>3. QED
    BY <2>1, <2>2 DEF Sound, ChoiceMeets, Viable
<1>3. IsSolution(f.chosen)
  BY <1>2 DEF IsSolution, Manifests, Sound, ChoiceMeets, Viable
<1>4. ASSUME NEW n \in DOMAIN f.chosen, NEW v, IsSolution([f.chosen EXCEPT ![n] = v])
      PROVE  v <= f.chosen[n]
  <2>1. PICK sol : sol = [f.chosen EXCEPT ![n] = v]
    OBVIOUS
  <2>2. f.chosen = [m \in DOMAIN f.chosen |-> f.chosen[m]]
    BY AssignmentType DEF Frames
  <2>3. /\ DOMAIN sol = DOMAIN f.chosen /\ sol[n] = v
        /\ \A m \in DOMAIN f.chosen \ {n} : sol[m] = f.chosen[m]
    BY <2>1, <2>2
  <2>4. IsSolution(sol) /\ AgreesOn(sol, f.chosen, DOMAIN f.chosen \ {n})
    BY <1>4, <2>1, <2>3 DEF AgreesOn
  <2>5. QED
    BY <2>3, <2>4 DEF Sound, ChoiceIsNewest
<1>5. QED
  BY <1>3, <1>4 DEF IsDecision, Frames, Sound
-----------------------------------------------------------------------------
(* The search keeps the invariant.                                         *)

\* The problem does not change, nor does what is said of rigid values.
LEMMA Frozen ==
    ASSUME problem' = problem
    PROVE  /\ root' = root /\ index' = index /\ policy' = policy
           /\ \A r, c : EdgeNode(r, c)' = EdgeNode(r, c)
           /\ \A sol : IsSolution(sol)' <=> IsSolution(sol)
           /\ \A sol : IsDecision(sol)' <=> IsDecision(sol)
           /\ \A s : StackOK(s)' <=> StackOK(s)
<1>1. root' = root /\ index' = index /\ policy' = policy
  BY DEF root, index, policy
<1>2. \A r : Available(r)' = Available(r)
  BY <1>1 DEF Available
<1>3. \A r, c : EdgeNode(r, c)' = EdgeNode(r, c)
  BY <1>2 DEF EdgeNode
<1>4. \A deps, sol : Meets(deps, sol)' <=> Meets(deps, sol)
  BY <1>3 DEF Meets
<1>5. \A sol : IsSolution(sol)' <=> IsSolution(sol)
  BY <1>1, <1>2, <1>4 DEF IsSolution
<1>6. \A n, clauses : Viable(n, clauses)' = Viable(n, clauses)
  BY <1>2 DEF Viable
<1>7. \A chosen : Manifests(chosen)' = Manifests(chosen)
  BY <1>1 DEF Manifests
<1>8. \A chosen : AllPinned(chosen)' <=> AllPinned(chosen)
  BY <1>7 DEF AllPinned
<1>9. \A sol : IsDecision(sol)' <=> IsDecision(sol)
  BY <1>5, <1>8 DEF IsDecision
<1>10. \A clauses, chosen : /\ AsksAll(clauses, chosen)' <=> AsksAll(clauses, chosen)
                            /\ AsksOnly(clauses, chosen)' <=> AsksOnly(clauses, chosen)
  BY <1>3, <1>7 DEF AsksAll, AsksOnly
<1>11. \A f : /\ ChoiceMeets(f)' <=> ChoiceMeets(f)
              /\ ChoiceIsNewest(f)' <=> ChoiceIsNewest(f)
              /\ UntriedFit(f)' <=> UntriedFit(f)
  BY <1>5, <1>6 DEF ChoiceMeets, ChoiceIsNewest, UntriedFit
<1>12. \A f : Sound(f)' <=> Sound(f)
  BY <1>8, <1>10, <1>11 DEF Sound
<1>13. \A f, S : Confined(f, S)' <=> Confined(f, S)
  BY <1>5 DEF Confined
<1>14. \A f, g : Follows(f, g)' <=> Follows(f, g)
  BY <1>13 DEF Follows
<1>15. \A s : StackOK(s)' <=> StackOK(s)
  BY <1>12, <1>13, <1>14 DEF StackOK
<1>16. QED
  BY <1>1, <1>3, <1>5, <1>9, <1>15
LEMMA IInvInit == Init => IInv
<1> SUFFICES ASSUME Init PROVE IInv
  OBVIOUS
<1>1. problem \in Problems /\ solution = <<>> /\ kept = [r \in Refs |-> {}] /\ found = {}
  BY DEF Init
<1>2. <<>> \in ClauseSets /\ <<>> \in Assignments /\ DOMAIN <<>> = {}
  <2>1. \A S : <<>> \in [{} -> S]
    <3> TAKE S
    <3>1. <<>> \in Seq(S) /\ Len(<<>>) = 0
      BY EmptySeq
    <3>2. <<>> \in [1..0 -> S]
      BY <3>1, LenProperties
    <3>3. QED
      BY <3>2
  <2>2. {} \in SUBSET NodeSet
    OBVIOUS
  <2>3. QED
    BY <2>1, <2>2 DEF ClauseSets, Assignments
<1>3. CASE Unpinned(root)
  <2>1. stack = <<>> /\ outcome = "raised"
    BY <1>3 DEF Init
  <2>2. QED
    BY <1>1, <1>2, <2>1 DEF IInv, TypeOK, Ended, SearchInv, GaveUpInv, DecisionInv, WalkInv
<1>4. CASE ~Unpinned(root)
  <2>1. PICK clauses \in ClauseSets :
            clauses = AddClauses(<<>>, root) /\ Adds(clauses, <<>>, root)
    BY <1>1, <1>2, <1>4, IndexType, AddedClauses
  <2>2. PICK f : f = Frame(clauses, <<>>)
    OBVIOUS
  <2>3. stack = <<f>> /\ outcome = "search"
    BY <1>4, <2>1, <2>2 DEF Init
  <2>4. \A d : d \in Manifests(<<>>) <=> d = root
    BY <1>2 DEF Manifests
  <2>5. /\ DOMAIN clauses = NodesOf(root)
        /\ \A n \in DOMAIN clauses : \A c :
                c \in clauses[n] <=> \E r \in DOMAIN root : c = root[r] /\ n = EdgeNode(r, root[r])
    BY <1>2, <2>1 DEF Adds
  <2>6. AsksOnly(clauses, <<>>)
    <3> SUFFICES ASSUME NEW n \in DOMAIN clauses
                 PROVE  /\ clauses[n] # {}
                        /\ \A c \in clauses[n] : \E d \in Manifests(<<>>) : \E r \in DOMAIN d :
                                c = d[r] /\ n = EdgeNode(r, d[r])
      BY DEF AsksOnly
    <3>1. PICK r \in DOMAIN root : n = EdgeNode(r, root[r])
      BY <2>5 DEF NodesOf
    <3>2. root[r] \in clauses[n]
      BY <2>5, <3>1
    <3>3. QED
      BY <2>4, <2>5, <3>2
  <2>7. AsksAll(clauses, <<>>)
    BY <2>4, <2>5 DEF AsksAll, NodesOf
  <2>8. /\ f \in Frames /\ f.clauses = clauses /\ f.chosen = <<>> /\ UntriedFit(f)
        /\ PendingOf(f) # {} => Confined(f, f.untried)
    BY <1>1, <1>2, <2>2, <2>6, NewCall
  <2>9. Sound(f)
    BY <1>2, <1>4, <2>4, <2>6, <2>7, <2>8 DEF Sound, AllPinned, ChoiceMeets, ChoiceIsNewest
  <2>10. StackOK(stack)
    <3>1. stack \in Seq(Frames) /\ Len(stack) = 1 /\ stack # <<>> /\ stack[1] = f
      BY <2>3, <2>8
    <3>2. QED
      BY <1>2, <2>8, <2>9, <3>1 DEF StackOK
  <2>11. stack # <<>>
    BY <2>10 DEF StackOK
  <2>12. QED
    BY <1>1, <1>2, <2>3, <2>10, <2>11
       DEF IInv, TypeOK, Ended, SearchInv, GaveUpInv, DecisionInv, WalkInv
<1>5. QED
  BY <1>3, <1>4

\* A step of the search that leaves the stack in order and goes on.
LEMMA SearchGoesOn ==
    ASSUME IInv, NEW s, stack' = s, StackOK(s), outcome = "search", outcome' = "search",
           UNCHANGED <<problem, solution, kept, queue, found>>
    PROVE  IInv'
<1>1. StackOK(s)'
  BY Frozen
<1>2. StackOK(stack)'
  BY <1>1
<1>3. stack' # <<>>
  BY DEF StackOK
<1>4. TypeOK'
  BY <1>3 DEF IInv, TypeOK
<1>5. QED
  BY <1>2, <1>4 DEF IInv, SearchInv, GaveUpInv, DecisionInv, WalkInv

LEMMA TopIs ==
    ASSUME IInv, Searching
    PROVE  /\ problem \in Problems /\ StackOK(stack) /\ outcome = "search"
           /\ Top = stack[Len(stack)] /\ Top \in Frames /\ Sound(Top)
           /\ Len(stack) \in Nat \ {0}
           /\ PendingOf(Top) # {} /\ Decided = NodeOf(Top)
           /\ Confined(Top, Top.untried)
<1>1. StackOK(stack) /\ problem \in Problems /\ outcome = "search"
  BY DEF IInv, TypeOK, SearchInv, Searching
<1>2. PendingOf(Top) # {} /\ Decided = NodeOf(Top)
  BY DEF Searching, TopPending, PendingOf, Decided, NodeOf
<1>3. Len(stack) \in Nat \ {0} /\ Top = stack[Len(stack)]
  BY <1>1 DEF StackOK, Top
<1>4. Top \in Frames /\ Sound(Top)
  BY <1>1, <1>3 DEF StackOK
<1>5. QED
  BY <1>1, <1>2, <1>3, <1>4 DEF StackOK

LEMMA DescendsStep ==
    ASSUME IInv, TryDescends
    PROVE  IInv'
<1>1. /\ Searching /\ Top.untried # {} /\ ~Unpinned(CandidateDeps)
      /\ ~Clashes(CandidateDeps, WithCandidate)
      /\ UNCHANGED <<problem, solution, kept, queue, found, outcome>>
  BY DEF TryDescends
<1>2. PICK f, v, deps, chosen, g, t :
        /\ f = Top /\ v = Candidate /\ deps = CandidateDeps /\ chosen = WithCandidate
        /\ g = Frame(AddClauses(Top.clauses, CandidateDeps), WithCandidate)
        /\ t = [stack EXCEPT ![Len(stack)].untried = @ \ {v}]
  OBVIOUS
<1>3. stack' = Append(t, g)
  BY <1>2 DEF TryDescends, Tried
<1>4. /\ problem \in Problems /\ StackOK(stack) /\ outcome = "search"
      /\ f = stack[Len(stack)] /\ f \in Frames /\ Sound(f)
      /\ PendingOf(f) # {} /\ Decided = NodeOf(f)
      /\ Confined(f, f.untried)
  BY <1>1, <1>2, TopIs
<1>5. /\ f.untried # {} /\ v = Newest(f.untried) /\ deps = index[NodeOf(f)[1]][v]
      /\ ~Unpinned(deps) /\ ~Clashes(deps, chosen)
      /\ chosen = [n \in DOMAIN f.chosen \cup {NodeOf(f)} |->
                        IF n = NodeOf(f) THEN v ELSE f.chosen[n]]
      /\ g = Frame(AddClauses(f.clauses, deps), chosen)
  BY <1>1, <1>2, <1>4 DEF Candidate, CandidateDeps, WithCandidate
<1>6. /\ g \in Frames /\ Sound(g)
      /\ Follows(Without(f, v), g)
      /\ PendingOf(g) # {} => Confined(g, g.untried)
  BY <1>4, <1>5, DeeperCall DEF Without
<1>7. StackOK(Append(t, g))
  BY <1>2, <1>4, <1>6, Pushed
<1>8. QED
  BY <1>1, <1>3, <1>4, <1>7, SearchGoesOn

LEMMA ClashesStep ==
    ASSUME IInv, TryClashes
    PROVE  IInv'
<1>1. /\ Searching /\ Clashes(CandidateDeps, WithCandidate)
      /\ UNCHANGED <<problem, solution, kept, queue, found, outcome>>
  BY DEF TryClashes
<1>2. PICK f, v, deps, chosen, t :
        /\ f = Top /\ v = Candidate /\ deps = CandidateDeps /\ chosen = WithCandidate
        /\ t = [stack EXCEPT ![Len(stack)].untried = @ \ {v}]
  OBVIOUS
<1>3. stack' = t
  BY <1>2 DEF TryClashes, Tried
<1>4. /\ StackOK(stack) /\ outcome = "search"
      /\ f = stack[Len(stack)] /\ PendingOf(f) # {} /\ Decided = NodeOf(f)
  BY <1>1, <1>2, TopIs
<1>5. /\ deps = index[NodeOf(f)[1]][v] /\ Clashes(deps, chosen)
      /\ chosen = [n \in DOMAIN f.chosen \cup {NodeOf(f)} |->
                        IF n = NodeOf(f) THEN v ELSE f.chosen[n]]
  BY <1>1, <1>2, <1>4 DEF CandidateDeps, WithCandidate
<1>6. StackOK(t)
  <2>1. StackOK([stack EXCEPT ![Len(stack)].untried = @ \ {v}])
    BY <1>4, <1>5, Clashed
  <2>2. QED
    BY <1>2, <2>1
<1>7. QED
  BY <1>1, <1>3, <1>4, <1>6, SearchGoesOn

LEMMA RaisesStep ==
    ASSUME IInv, TryRaises
    PROVE  IInv'
<1>1. /\ outcome' = "raised"
      /\ UNCHANGED <<problem, stack, solution, kept, queue, found>>
  BY DEF TryRaises
<1>2. QED
  BY <1>1 DEF IInv, TypeOK, Ended, SearchInv, GaveUpInv, DecisionInv, WalkInv

LEMMA BacktrackStep ==
    ASSUME IInv, Backtrack
    PROVE  IInv'
<1>1. /\ Searching /\ Top.untried = {}
      /\ stack' = SubSeq(stack, 1, Len(stack) - 1)
      /\ outcome' = IF Len(stack) = 1 THEN "unsolvable" ELSE "search"
      /\ UNCHANGED <<problem, solution, kept, queue, found>>
  BY DEF Backtrack
<1>2. /\ StackOK(stack) /\ outcome = "search" /\ Top = stack[Len(stack)]
      /\ PendingOf(Top) # {}
  BY <1>1, TopIs
<1>3. CASE Len(stack) # 1
  <2>1. StackOK(SubSeq(stack, 1, Len(stack) - 1))
    BY <1>1, <1>2, <1>3, Popped
  <2>2. QED
    BY <1>1, <1>2, <1>3, <2>1, SearchGoesOn
<1>4. CASE Len(stack) = 1
  <2>1. \A sol : ~IsSolution(sol)
    BY <1>1, <1>2, <1>4, NothingLeft
  <2>2. \A sol : ~IsSolution(sol)'
    BY <1>1, <2>1, Frozen
  <2>3. outcome' = "unsolvable"
    BY <1>1, <1>4
  <2>4. TypeOK'
    BY <1>1, <2>3 DEF IInv, TypeOK, Ended
  <2>5. QED
    BY <2>2, <2>3, <2>4 DEF IInv, SearchInv, GaveUpInv, DecisionInv, WalkInv
<1>5. QED
  BY <1>3, <1>4
\* A search that ends well: the assignment is a solution, and the walk begins.
LEMMA PolicyStep ==
    ASSUME IInv, ApplyPolicy
    PROVE  IInv'
<1>1. /\ outcome = "search" /\ TopPending = {}
      /\ problem' = problem /\ found' = found
  BY DEF ApplyPolicy
<1>2. PICK f : f = Top
  OBVIOUS
<1>3. StackOK(stack) /\ found = {}
  BY <1>1 DEF IInv, SearchInv
<1>4. f \in Frames /\ Sound(f)
  <2>1. Len(stack) \in 1..Len(stack) /\ f = stack[Len(stack)]
    BY <1>2, <1>3 DEF Top, StackOK
  <2>2. QED
    BY <1>3, <2>1 DEF StackOK
<1>5. PICK sol : sol = f.chosen
  OBVIOUS
<1>6. IsDecision(sol) /\ sol \in Assignments
  <2>1. PendingOf(f) = {}
    BY <1>1, <1>2 DEF TopPending, PendingOf
  <2>2. QED
    BY <1>4, <1>5, <2>1, Decides DEF Frames
<1>7. solution' = sol
  BY <1>2, <1>5 DEF ApplyPolicy
<1>8. IsDecision(solution)'
  <2>1. IsDecision(sol)'
    BY <1>1, <1>6, Frozen
  <2>2. QED
    BY <1>7, <2>1
<1>9. \A r \in Refs : Assigned(r, sol) \subseteq Versions
  BY <1>6, AssignmentType DEF Assigned
<1>10. DOMAIN solution' \subseteq Refs \X Nat
  BY <1>6, <1>7, AssignmentType DEF NodeSet
<1>11. CASE policy = "fail_on_conflict" /\ Conflicted(sol) # {}
  <2>1. outcome' = "conflict" /\ kept' = kept
    BY <1>2, <1>5, <1>11 DEF ApplyPolicy
  <2>2. TypeOK'
    BY <1>1, <1>10, <2>1 DEF IInv, TypeOK, Ended
  <2>3. QED
    BY <1>8, <2>1, <2>2 DEF IInv, SearchInv, GaveUpInv, DecisionInv, WalkInv
<1>12. CASE ~(policy = "fail_on_conflict" /\ Conflicted(sol) # {})
  <2>1. /\ outcome' = "walk" /\ queue' = EdgesOf(root)
        /\ kept' = [r \in Refs |->
                        LET all == Assigned(r, sol)
                        IN  IF policy = "use_latest" /\ all # {} THEN {Newest(all)} ELSE all]
    BY <1>2, <1>5, <1>12 DEF ApplyPolicy
  <2>2. kept' \in [Refs -> SUBSET Versions]
    BY <1>9, <2>1, NewestOf
  <2>3. TypeOK'
    BY <1>1, <1>10, <2>1, <2>2 DEF IInv, TypeOK, Ended
  <2>4. root' = root /\ policy' = policy
    BY <1>1, Frozen
  <2>5. found' = {} /\ SelectedEdges' = EdgesOf(root)
    BY <1>1, <1>3, <2>4 DEF SelectedEdges, EdgesAsked
  <2>6. \A r \in Refs : kept'[r] = LET all == Assigned(r, sol)
                                    IN  IF policy' = "use_latest" /\ all # {}
                                        THEN {Newest(all)} ELSE all
    BY <2>1, <2>4
  <2>7. policy' = "fail_on_conflict" => Conflicted(sol) = {}
    BY <1>12, <2>4
  <2>8. WalkInv'
    BY <1>7, <2>1, <2>5, <2>6, <2>7 DEF WalkInv
  <2>9. QED
    BY <1>8, <2>1, <2>3, <2>8 DEF IInv, SearchInv, GaveUpInv, DecisionInv
<1>13. QED
  BY <1>11, <1>12

-----------------------------------------------------------------------------
(* The walk.                                                               *)

Walking == outcome \in {"walk", "resolved"}

\* What the policy keeps of a package is assigned to one of its nodes.
LEMMA KeptOf ==
    ASSUME IInv, Walking, NEW r \in Refs
    PROVE  /\ Assigned(r, solution) \subseteq Available(r)
           /\ Assigned(r, solution) \subseteq Versions
           /\ kept[r] \subseteq Assigned(r, solution)
           /\ Assigned(r, solution) # {} => kept[r] # {}
<1>1. IsDecision(solution)
  BY DEF IInv, DecisionInv, Walking
<1>2. Assigned(r, solution) \subseteq Available(r)
  BY <1>1 DEF IsDecision, IsSolution, Assigned
<1>3. Assigned(r, solution) \subseteq Versions
  BY <1>1, AssignmentType DEF IsDecision, Assigned
<1>4. kept[r] = LET all == Assigned(r, solution)
                IN  IF policy = "use_latest" /\ all # {} THEN {Newest(all)} ELSE all
  BY DEF IInv, WalkInv, Walking
<1>5. QED
  BY <1>2, <1>3, <1>4, NewestOf

\* An edge that the walk meets is one of a manifest that the solution meets.
LEMMA EdgeSource ==
    ASSUME IInv, Walking, NEW e \in SelectedEdges
    PROVE  \E deps : /\ IsManifest(deps) /\ ~Unpinned(deps) /\ Meets(deps, solution)
                     /\ \E r \in DOMAIN deps : e = <<r, deps[r]>>
<1>1. IsDecision(solution) /\ problem \in Problems
  BY DEF IInv, DecisionInv, Walking, TypeOK
<1>2. CASE e \in EdgesOf(root)
  <2>1. IsManifest(root) /\ Meets(root, solution)
    BY <1>1, IndexType DEF IsDecision, IsSolution
  <2>2. ~Unpinned(root)
    BY <1>1 DEF IsDecision, AllPinned, Manifests
  <2>3. QED
    BY <1>2, <2>1, <2>2 DEF EdgesOf
<1>3. CASE \E x \in found : e \in EdgesOf(index[x[1]][x[2]])
  <2>1. PICK x \in found : e \in EdgesOf(index[x[1]][x[2]])
    BY <1>3
  <2>2. x[1] \in Refs /\ x[2] \in kept[x[1]]
    BY DEF IInv, WalkInv, Walking
  <2>3. x[2] \in Assigned(x[1], solution) /\ x[2] \in Available(x[1])
    BY <2>2, KeptOf
  <2>4. PICK n \in DOMAIN solution : n[1] = x[1] /\ solution[n] = x[2]
    BY <2>3 DEF Assigned
  <2>5. PICK deps : deps = index[x[1]][x[2]]
    OBVIOUS
  <2>6. deps = index[n[1]][solution[n]]
    BY <2>4, <2>5
  <2>7. Meets(deps, solution) /\ ~Unpinned(deps)
    BY <1>1, <2>6 DEF IsDecision, IsSolution, AllPinned, Manifests
  <2>8. IsManifest(deps)
    BY <1>1, <2>2, <2>3, <2>5, IndexType
  <2>9. QED
    BY <2>1, <2>5, <2>7, <2>8 DEF EdgesOf
<1>4. QED
  BY <1>2, <1>3 DEF SelectedEdges, EdgesAsked

\* The solution decides the edge's node as the edge wants, so something of the
\* package is kept, and the walk picks it; a match if there is one.
LEMMA EdgeMet ==
    ASSUME IInv, Walking, NEW e \in SelectedEdges
    PROVE  LET n == EdgeNode(e[1], e[2])
               pick == PickForEdge(e[1], e[2])
               matching == kept[e[1]] \cap e[2].match
           IN  /\ e[1] \in Refs /\ e[2] \in Requirements
               /\ n \in DOMAIN solution /\ n[1] = e[1]
               /\ solution[n] \in e[2].match /\ solution[n] \in Assigned(e[1], solution)
               /\ pick \in kept[e[1]]
               /\ matching # {} => pick \in matching /\ \A w \in matching : w <= pick
<1> DEFINE n == EdgeNode(e[1], e[2])
           matching == kept[e[1]] \cap e[2].match
<1>1. PICK deps : /\ IsManifest(deps) /\ ~Unpinned(deps) /\ Meets(deps, solution)
                  /\ \E r \in DOMAIN deps : e = <<r, deps[r]>>
  BY EdgeSource
<1>2. e[1] \in DOMAIN deps /\ e[2] = deps[e[1]]
  BY <1>1
<1>3. e[1] \in Refs /\ e[2] \in Requirements
  BY <1>1, <1>2 DEF IsManifest
<1>4. n \in DOMAIN solution /\ solution[n] \in e[2].match
  BY <1>1, <1>2 DEF Meets
<1>5. n[1] = e[1]
  BY EdgeNodeRef
<1>6. solution[n] \in Assigned(e[1], solution)
  BY <1>4, <1>5 DEF Assigned
<1>7. kept[e[1]] # {} /\ kept[e[1]] \subseteq Versions
  BY <1>3, <1>6, KeptOf
<1>8. /\ PickForEdge(e[1], e[2]) \in kept[e[1]]
      /\ matching # {} => /\ PickForEdge(e[1], e[2]) \in matching
                          /\ \A w \in matching : w <= PickForEdge(e[1], e[2])
  BY <1>7, NewestOf DEF PickForEdge
<1>9. QED
  BY <1>3, <1>4, <1>5, <1>6, <1>8
\* One edge more is followed: what it led to is of the package and is kept, and
\* the edges of what is new are still to be followed.
LEMMA FollowStep ==
    ASSUME IInv, FollowEdge
    PROVE  IInv'
<1>1. /\ outcome = "walk" /\ outcome' = "walk"
      /\ UNCHANGED <<problem, stack, solution, kept>>
  BY DEF FollowEdge
<1>2. Walking
  BY <1>1 DEF Walking
<1>3. PICK e \in queue :
        LET pick == PickForEdge(e[1], e[2])
            new == <<e[1], pick>> \notin found
        IN  /\ found' = found \cup {<<e[1], pick>>}
            /\ queue' = (queue \ {e})
                          \cup (IF new THEN EdgesOf(index[e[1]][pick]) ELSE {})
  BY DEF FollowEdge
<1>4. PICK pick, x : pick = PickForEdge(e[1], e[2]) /\ x = <<e[1], pick>>
  OBVIOUS
<1>5. /\ found' = found \cup {x}
      /\ queue' = (queue \ {e}) \cup (IF x \notin found THEN EdgesOf(index[e[1]][pick]) ELSE {})
  BY <1>3, <1>4
<1>6. /\ queue \subseteq SelectedEdges
      /\ \A d \in SelectedEdges : d \in queue \/ <<d[1], PickForEdge(d[1], d[2])>> \in found
      /\ \A y \in found :
            /\ y[1] \in Refs /\ y[2] \in kept[y[1]]
            /\ \E d \in SelectedEdges : d[1] = y[1] /\ PickForEdge(d[1], d[2]) = y[2]
  BY <1>2 DEF IInv, WalkInv, Walking
<1>7. e[1] \in Refs /\ pick \in kept[e[1]] /\ pick \in Versions
  BY <1>2, <1>4, <1>6, EdgeMet, KeptOf
<1>8. root' = root /\ index' = index /\ policy' = policy
  BY <1>1, Frozen
<1>9. \A r, c : PickForEdge(r, c)' = PickForEdge(r, c)
  BY <1>1 DEF PickForEdge
<1>10. SelectedEdges' = SelectedEdges \cup EdgesOf(index[e[1]][pick])
  BY <1>4, <1>5, <1>8 DEF SelectedEdges, EdgesAsked
<1>11. x \in found => SelectedEdges' = SelectedEdges
  BY <1>4, <1>10 DEF SelectedEdges, EdgesAsked
<1>12. queue' \subseteq SelectedEdges'
  BY <1>5, <1>6, <1>10
<1>13. \A d \in SelectedEdges' : d \in queue' \/ <<d[1], PickForEdge(d[1], d[2])'>> \in found'
  <2> SUFFICES ASSUME NEW d \in SelectedEdges'
               PROVE  d \in queue' \/ <<d[1], PickForEdge(d[1], d[2])>> \in found'
    BY <1>9
  <2>1. CASE d = e
    BY <1>4, <1>5, <2>1
  <2>2. CASE d \in SelectedEdges /\ d # e
    BY <1>5, <1>6, <2>2
  <2>3. CASE d \notin SelectedEdges
    BY <1>5, <1>10, <1>11, <2>3
  <2>4. QED
    BY <2>1, <2>2, <2>3
<1>14. ASSUME NEW y \in found'
       PROVE  /\ y[1] \in Refs /\ y[2] \in kept'[y[1]]
              /\ \E d \in SelectedEdges' : d[1] = y[1] /\ PickForEdge(d[1], d[2])' = y[2]
  <2>1. CASE y \in found
    BY <1>1, <1>6, <1>9, <1>10, <2>1
  <2>2. CASE y = x
    <3>1. e \in SelectedEdges' /\ y[1] = e[1] /\ y[2] = pick
      BY <1>4, <1>6, <1>10, <2>2
    <3>2. QED
      BY <1>1, <1>4, <1>7, <1>9, <3>1
  <2>3. QED
    BY <1>5, <2>1, <2>2
<1>15. /\ \A r \in Refs : kept'[r] = LET all == Assigned(r, solution')
                                      IN  IF policy' = "use_latest" /\ all # {}
                                          THEN {Newest(all)} ELSE all
       /\ policy' = "fail_on_conflict" => Conflicted(solution') = {}
  BY <1>1, <1>2, <1>8 DEF IInv, WalkInv, Walking
<1>16. WalkInv'
  BY <1>1, <1>12, <1>13, <1>14, <1>15 DEF WalkInv
<1>17. TypeOK'
  BY <1>1, <1>4, <1>5, <1>7 DEF IInv, TypeOK
<1>18. IsDecision(solution)'
  <2>1. PICK sol : sol = solution
    OBVIOUS
  <2>2. IsDecision(sol)' /\ solution' = sol
    BY <1>1, <1>2, <2>1, Frozen DEF IInv, DecisionInv, Walking
  <2>3. QED
    BY <2>2
<1>19. QED
  BY <1>1, <1>16, <1>17, <1>18 DEF IInv, SearchInv, GaveUpInv, DecisionInv

\* The last edge is followed.
LEMMA ResolvedStep ==
    ASSUME IInv, Resolved
    PROVE  IInv'
<1>1. /\ outcome = "walk" /\ outcome' = "resolved" /\ queue = {}
      /\ UNCHANGED <<problem, stack, solution, kept, queue, found>>
  BY DEF Resolved
<1>2. root' = root /\ index' = index /\ policy' = policy
  BY <1>1, Frozen
<1>3. \A r, c : PickForEdge(r, c)' = PickForEdge(r, c)
  BY <1>1 DEF PickForEdge
<1>4. SelectedEdges' = SelectedEdges
  BY <1>1, <1>2 DEF SelectedEdges, EdgesAsked
<1>5. WalkInv'
  BY <1>1, <1>2, <1>3, <1>4 DEF IInv, WalkInv
<1>6. TypeOK'
  BY <1>1 DEF IInv, TypeOK, Ended
<1>7. IsDecision(solution)'
  <2>1. PICK sol : sol = solution
    OBVIOUS
  <2>2. IsDecision(sol)' /\ solution' = sol
    BY <1>1, <2>1, Frozen DEF IInv, DecisionInv
  <2>3. QED
    BY <2>2
<1>8. QED
  BY <1>1, <1>5, <1>6, <1>7 DEF IInv, SearchInv, GaveUpInv, DecisionInv

\* Nothing happens.
LEMMA Stutter ==
    ASSUME IInv, UNCHANGED vars
    PROVE  IInv'
<1>1. UNCHANGED <<problem, stack, solution, kept, queue, found, outcome>>
  BY DEF vars
<1>2. PICK s, sol : s = stack /\ sol = solution
  OBVIOUS
<1>3. stack' = s /\ solution' = sol
  BY <1>1, <1>2
<1>4. root' = root /\ policy' = policy /\ index' = index
  BY <1>1, Frozen
<1>5. SearchInv'
  <2>1. outcome = "search" => StackOK(s)' /\ found = {}
    BY <1>1, <1>2, Frozen DEF IInv, SearchInv
  <2>2. QED
    BY <1>1, <1>3, <2>1 DEF SearchInv
<1>6. GaveUpInv'
  BY <1>1, Frozen DEF IInv, GaveUpInv
<1>7. DecisionInv'
  <2>1. outcome \in {"walk", "resolved", "conflict"} => IsDecision(sol)'
    BY <1>1, <1>2, Frozen DEF IInv, DecisionInv
  <2>2. QED
    BY <1>1, <1>3, <2>1 DEF DecisionInv
<1>8. WalkInv'
  <2>1. \A r, c : PickForEdge(r, c)' = PickForEdge(r, c)
    BY <1>1 DEF PickForEdge
  <2>2. SelectedEdges' = SelectedEdges
    BY <1>1, <1>4 DEF SelectedEdges, EdgesAsked
  <2>3. QED
    BY <1>1, <1>4, <2>1, <2>2 DEF IInv, WalkInv
<1>9. TypeOK'
  BY <1>1 DEF IInv, TypeOK
<1>10. QED
  BY <1>5, <1>6, <1>7, <1>8, <1>9 DEF IInv

LEMMA IInvStep == IInv /\ [Next]_vars => IInv'
<1> SUFFICES ASSUME IInv, [Next]_vars PROVE IInv'
  OBVIOUS
<1>1. CASE TryDescends
  BY <1>1, DescendsStep
<1>2. CASE TryClashes
  BY <1>2, ClashesStep
<1>3. CASE TryRaises
  BY <1>3, RaisesStep
<1>4. CASE Backtrack
  BY <1>4, BacktrackStep
<1>5. CASE ApplyPolicy
  BY <1>5, PolicyStep
<1>6. CASE FollowEdge
  BY <1>6, FollowStep
<1>7. CASE Resolved
  BY <1>7, ResolvedStep
<1>8. CASE UNCHANGED vars
  BY <1>8, Stutter
<1>9. QED
  BY <1>1, <1>2, <1>3, <1>4, <1>5, <1>6, <1>7, <1>8 DEF Next

LEMMA Invariant == Spec => []IInv
BY IInvInit, IInvStep, PTL DEF Spec
-----------------------------------------------------------------------------
(* What follows from it.                                                   *)

LEMMA TwoAreMany ==
    ASSUME NEW S, IsFiniteSet(S), NEW a \in S, NEW b \in S, a # b
    PROVE  Cardinality(S) > 1
<1>1. IsFiniteSet(S \ {a}) /\ Cardinality(S \ {a}) = Cardinality(S) - 1
  BY FS_RemoveElement
<1>2. b \in S \ {a}
  OBVIOUS
<1>3. IsFiniteSet((S \ {a}) \ {b}) /\ Cardinality((S \ {a}) \ {b}) = Cardinality(S \ {a}) - 1
  BY <1>1, <1>2, FS_RemoveElement
<1>4. Cardinality((S \ {a}) \ {b}) \in Nat /\ Cardinality(S) \in Nat
  BY <1>3, FS_CardinalityType
<1>5. QED
  BY <1>1, <1>3, <1>4

\* Every edge ends at a version that was reached, and matches unless use_latest
\* collapsed its package.
LEMMA Satisfied ==
    ASSUME IInv
    PROVE  SelectionSatisfies
<1> SUFFICES ASSUME outcome = "resolved", NEW e \in SelectedEdges
             PROVE  \/ \E v \in e[2].match : <<e[1], v>> \in found
                    \/ policy = "use_latest" /\ e[1] \in Conflicted(solution)
  BY DEF SelectionSatisfies
<1>1. Walking
  BY DEF Walking
<1>2. PICK pick : pick = PickForEdge(e[1], e[2])
  OBVIOUS
<1>3. <<e[1], pick>> \in found
  BY <1>2 DEF IInv, WalkInv
<1>4. PICK all, v : /\ all = Assigned(e[1], solution)
                    /\ v \in all /\ v \in e[2].match
  BY <1>1, EdgeMet
<1>5. e[1] \in Refs
  BY <1>1, EdgeMet
<1>6. kept[e[1]] = IF policy = "use_latest" /\ all # {} THEN {Newest(all)} ELSE all
  BY <1>4, <1>5 DEF IInv, WalkInv
<1>7. CASE kept[e[1]] \cap e[2].match # {}
  <2>1. pick \in e[2].match
    BY <1>1, <1>2, <1>7, EdgeMet
  <2>2. QED
    BY <1>3, <2>1
<1>8. CASE kept[e[1]] \cap e[2].match = {}
  <2>1. policy = "use_latest" /\ v # Newest(all)
    BY <1>4, <1>6, <1>8
  <2>2. all \subseteq Versions
    BY <1>1, <1>4, <1>5, KeptOf
  <2>3. Newest(all) \in all
    BY <1>4, <2>2, NewestOf
  <2>4. IsFiniteSet(all)
    BY <2>2, VersionsAssumption, FS_Subset
  <2>5. Cardinality(all) > 1
    BY <1>4, <2>1, <2>3, <2>4, TwoAreMany
  <2>6. QED
    BY <1>4, <1>5, <2>1, <2>5 DEF Conflicted
<1>9. QED
  BY <1>7, <1>8

\* With namespaces isolated, all that the search assigned is kept.  The version
\* of an edge's own node matches it; a newer one that does is of the same group,
\* so of the same node.
LEMMA Agrees ==
    ASSUME IInv
    PROVE  WalkAgreesWithSearch
<1> SUFFICES ASSUME Walking, policy = "isolate_namespaces", NEW e \in SelectedEdges
             PROVE  PickForEdge(e[1], e[2]) = solution[EdgeNode(e[1], e[2])]
  BY DEF WalkAgreesWithSearch, Walking
<1>1. PICK r, c, n, v, pick : /\ r = e[1] /\ c = e[2] /\ n = EdgeNode(r, c)
                              /\ v = solution[n] /\ pick = PickForEdge(r, c)
  OBVIOUS
<1>2. /\ r \in Refs /\ c \in Requirements /\ n \in DOMAIN solution /\ n[1] = r
      /\ v \in c.match /\ v \in Assigned(r, solution)
      /\ kept[r] \cap c.match # {} =>
            pick \in kept[r] \cap c.match /\ \A w \in kept[r] \cap c.match : w <= pick
  BY <1>1, EdgeMet
<1>3. kept[r] = Assigned(r, solution) /\ Assigned(r, solution) \subseteq Available(r)
      /\ Assigned(r, solution) \subseteq Versions
  BY <1>2, KeptOf DEF IInv, WalkInv, Walking
<1>4. pick \in Assigned(r, solution) /\ pick \in c.match /\ v <= pick
  BY <1>2, <1>3
<1>5. IsDecision(solution) /\ problem \in Problems
  BY DEF IInv, DecisionInv, Walking, TypeOK
<1>6. CASE r \in Opaque
  <2>1. PICK deps : /\ IsManifest(deps) /\ ~Unpinned(deps)
                    /\ \E s \in DOMAIN deps : e = <<s, deps[s]>>
    BY EdgeSource
  <2>2. r \in DOMAIN deps /\ c = deps[r]
    BY <1>1, <2>1
  <2>3. c.match \subseteq {c.pin}
    BY <1>6, <2>1, <2>2 DEF IsManifest, Unpinned
  <2>4. QED
    BY <1>1, <1>2, <1>4, <2>3
<1>7. CASE r \notin Opaque
  <2>1. PICK pivot : pivot = Newest(Available(r) \cap c.match)
    OBVIOUS
  <2>2. /\ pivot \in Versions /\ pick <= pivot
        /\ v \in Versions /\ pick \in Versions /\ v <= pick
    <3>1. /\ Available(r) \cap c.match \in SUBSET Versions
          /\ pick \in Available(r) \cap c.match
      BY <1>2, <1>3, <1>4 DEF Requirements
    <3>2. QED
      BY <1>2, <1>3, <1>4, <2>1, <3>1, NewestOf
  <2>3. n = <<r, Major[pivot]>>
    <3>1. Available(r) # {} /\ Available(r) \cap c.match # {}
      BY <1>3, <1>4
    <3>2. QED
      BY <1>1, <1>7, <2>1, <3>1 DEF EdgeNode, Group
  <2>4. Major[v] = Major[pivot]
    BY <1>1, <1>2, <1>5, <1>7, <2>3 DEF IsDecision, IsSolution, Group
  <2>5. Major[pick] = Major[pivot]
    <3>1. Major[v] <= Major[pick] /\ Major[pick] <= Major[pivot]
      BY <2>2, MajorAssumption
    <3>2. Major[pick] \in Nat /\ Major[pivot] \in Nat
      BY <2>2, MajorAssumption
    <3>3. QED
      BY <2>4, <3>1, <3>2
  <2>6. PICK m \in DOMAIN solution : m[1] = r /\ solution[m] = pick
    BY <1>4 DEF Assigned
  <2>7. m[2] = Major[pick]
    BY <1>5, <1>7, <2>6 DEF IsDecision, IsSolution, Group
  <2>8. m = <<m[1], m[2]>>
    BY <1>5, AssignmentType DEF IsDecision, NodeSet
  <2>9. m = n
    BY <2>3, <2>5, <2>6, <2>7, <2>8
  <2>10. QED
    BY <1>1, <2>6, <2>9
<1>8. QED
  BY <1>6, <1>7

\* Every state is of the model's types: the search under way has a call on its
\* stack, and only versions of the index are kept and reached.
THEOREM TypeCorrect == Spec => []TypeOK
<1>1. IInv => TypeOK
  BY DEF IInv
<1>2. QED
  BY <1>1, Invariant, PTL

\* What resolve() returns (resolver.py:81-125) satisfies every edge of the root
\* and of what it returns, but for the packages a use_latest warning names, and
\* holds nothing that no edge leads to, however the search came to it.
THEOREM SelectionIsRight == Spec => []SelectionIsSolution
<1>1. IInv => SelectionIsReached
  BY DEF IInv, WalkInv, SelectionIsReached
<1>2. IInv => SelectionIsSolution
  BY <1>1, Satisfied DEF SelectionIsSolution
<1>3. QED
  BY <1>2, Invariant, PTL

\* A choice of cores that satisfies all constraints, each edge in the group of
\* its newest match, is a solution in the terms of the search.
LEMMA ChoiceIsSolution ==
    ASSUME problem \in Problems,
           NEW S \in SUBSET Offered, Fulfils(S), \A e \in EdgesAsked(S) : ~Strays(e, S)
    PROVE  \E sol : IsSolution(sol)
<1> DEFINE Nd(x) == <<x[1], Group(x[1], x[2])>>
           sol == [n \in {Nd(x) : x \in S} |-> CHOOSE v : <<n[1], v>> \in S /\ Group(n[1], v) = n[2]]
<1>1. ASSUME NEW x \in S
      PROVE  Nd(x) \in DOMAIN sol /\ sol[Nd(x)] = x[2] /\ x = <<x[1], x[2]>>
             /\ x[1] \in Refs /\ x[2] \in Available(x[1])
  <2>1. x = <<x[1], x[2]>> /\ x[1] \in Refs /\ x[2] \in Available(x[1])
    BY DEF Offered
  <2>2. ASSUME NEW v, <<x[1], v>> \in S, Group(x[1], v) = Group(x[1], x[2])
        PROVE  v = x[2]
    <3>1. <<x[1], v>> = x
      BY <2>2 DEF Fulfils
    <3>2. QED
      BY <2>1, <3>1
  <2>3. QED
    BY <2>1, <2>2
<1>2. ASSUME NEW deps, IsManifest(deps), EdgesOf(deps) \subseteq EdgesAsked(S)
      PROVE  Meets(deps, sol)
  <2> SUFFICES ASSUME NEW r \in DOMAIN deps
               PROVE  /\ EdgeNode(r, deps[r]) \in DOMAIN sol
                      /\ sol[EdgeNode(r, deps[r])] \in deps[r].match
    BY DEF Meets
  <2> DEFINE c == deps[r]
             matching == Available(r) \cap c.match
  <2>1. <<r, c>> \in EdgesAsked(S) /\ r \in Refs /\ c \in Requirements
    BY <1>2 DEF EdgesOf, IsManifest
  <2>2. PICK v \in c.match : <<r, v>> \in S /\ Group(r, v) = Group(r, Newest(matching))
    BY <2>1 DEF Strays
  <2>3. v \in matching
    BY <1>1, <2>2
  <2>4. EdgeNode(r, c) = Nd(<<r, v>>)
    <3>1. CASE r \in Opaque
      <4>1. c.pin # NoPin
        BY <2>1, <3>1 DEF Fulfils
      <4>2. v = c.pin
        BY <1>2, <2>2, <3>1, <4>1 DEF IsManifest
      <4>3. QED
        BY <3>1, <4>2 DEF EdgeNode, Group
    <3>2. CASE r \notin Opaque
      BY <2>2, <2>3, <3>2 DEF EdgeNode
    <3>3. QED
      BY <3>1, <3>2
  <2>5. Nd(<<r, v>>) \in DOMAIN sol /\ sol[Nd(<<r, v>>)] = v
    BY <1>1, <2>2
  <2>6. QED
    BY <2>2, <2>4, <2>5
<1>3. Meets(root, sol)
  BY <1>2, IndexType DEF EdgesAsked
<1>4. ASSUME NEW n \in DOMAIN sol
      PROVE  /\ sol[n] \in Available(n[1]) /\ Group(n[1], sol[n]) = n[2]
             /\ Meets(index[n[1]][sol[n]], sol)
  <2>1. PICK x \in S : n = Nd(x)
    OBVIOUS
  <2>2. n[1] = x[1] /\ n[2] = Group(x[1], x[2]) /\ sol[n] = x[2]
    BY <1>1, <2>1
  <2>3. IsManifest(index[x[1]][x[2]]) /\ EdgesOf(index[x[1]][x[2]]) \subseteq EdgesAsked(S)
    BY <1>1, IndexType DEF EdgesAsked
  <2>4. QED
    BY <1>1, <1>2, <2>2, <2>3
<1>5. IsSolution(sol)
  BY <1>3, <1>4 DEF IsSolution
<1>6. QED
  BY <1>5

\* The backtracking of _solve is complete: where it answers that there is no
\* solution, every choice of versions that satisfies all constraints leads an
\* edge to another group than that of the newest version the edge matches.
THEOREM SearchIsComplete == Spec => []FailsOnlyIfUnsolvable
<1>1. ASSUME IInv, outcome = "unsolvable", NEW S \in SUBSET Offered, Fulfils(S)
      PROVE  \E e \in EdgesAsked(S) : Strays(e, S)
  <2>1. problem \in Problems /\ \A sol : ~IsSolution(sol)
    BY <1>1 DEF IInv, TypeOK, GaveUpInv
  <2>2. QED
    BY <1>1, <2>1, ChoiceIsSolution
<1>2. IInv => FailsOnlyIfUnsolvable
  BY <1>1 DEF FailsOnlyIfUnsolvable
<1>3. QED
  BY <1>2, Invariant, PTL

\* Newest first survives backtracking: no package of the assignment that _solve
\* returns could be newer with the others as they are.
THEOREM NewestIsKept == Spec => []NoNeedlesslyOldVersion
<1>1. ASSUME IInv, outcome \in {"walk", "resolved", "conflict"}, NEW n \in DOMAIN solution,
             NEW v \in Available(n[1]), v > solution[n]
      PROVE  ~IsSolution([solution EXCEPT ![n] = v])
  <2>1. IsDecision(solution)
    BY <1>1 DEF IInv, DecisionInv
  <2>2. n \in NodeSet /\ solution[n] \in Versions
    BY <2>1, AssignmentType DEF IsDecision
  <2>3. v \in Versions
    BY <1>1, <2>2, IndexType DEF NodeSet, IInv, TypeOK
  <2>4. ~(v <= solution[n])
    BY <1>1, <2>2, <2>3, VersionsAssumption
  <2>5. QED
    BY <2>1, <2>4 DEF IsDecision
<1>2. IInv => NoNeedlesslyOldVersion
  BY <1>1 DEF NoNeedlesslyOldVersion
<1>3. QED
  BY <1>2, Invariant, PTL

\* With isolate_namespaces, the walk (resolver.py:279-308) leads each edge to the
\* version that the search decided for the edge's own node.
THEOREM WalkFollowsSearch == Spec => []WalkAgreesWithSearch
<1>1. IInv => WalkAgreesWithSearch
  BY Agrees
<1>2. QED
  BY <1>1, Invariant, PTL
-----------------------------------------------------------------------------
(* The order of versions, by value.                                        *)

Place == Nat \ {0}

\* Exceeds, with no bound on the place.
Beats(a, b) == \E i \in Place : Number(a, i) > Number(b, i) /\ Agree(a, b, i - 1)
Equal(a, b) == \A i \in Place : Number(a, i) = Number(b, i)

LEMMA LeastAndGreatest ==
    ASSUME NEW m \in Nat, NEW n \in Nat
    PROVE  /\ Max({m, n}) = IF m >= n THEN m ELSE n
           /\ Min({m, n}) = IF m <= n THEN m ELSE n
<1>1. Max({m, n}) \in {m, n} /\ Max({m, n}) >= m /\ Max({m, n}) >= n
  <2>1. \E x \in {m, n} : \A y \in {m, n} : x >= y
    OBVIOUS
  <2>2. QED
    BY <2>1 DEF Max
<1>2. Min({m, n}) \in {m, n} /\ Min({m, n}) <= m /\ Min({m, n}) <= n
  <2>1. \E x \in {m, n} : \A y \in {m, n} : x <= y
    OBVIOUS
  <2>2. QED
    BY <2>1 DEF Min
<1>3. QED
  BY <1>1, <1>2

LEMMA NumberIsNat ==
    ASSUME NEW t \in Token, NEW i \in Place
    PROVE  /\ Number(t, i) \in Nat
           /\ Len(t.nums) \in Nat
           /\ i <= Len(t.nums) => t.nums[i] \in [n : Nat, zeros : Nat]
           /\ i > Len(t.nums) => Number(t, i) = 0
<1> PICK E : E = [n : Nat, zeros : Nat]
  OBVIOUS
<1>1. t.nums \in Seq(E)
  BY DEF Token
<1>2. Len(t.nums) \in Nat
  BY <1>1, LenProperties
<1>3. i <= Len(t.nums) => t.nums[i] \in E
  <2>1. i <= Len(t.nums) => i \in 1..Len(t.nums)
    BY <1>2 DEF Place
  <2>2. QED
    BY <1>1, <2>1, ElementOfSeq
<1>4. QED
  BY <1>2, <1>3 DEF Number, Place

\* FirstDiff is the first place where two sequences differ, if there is one.
LEMMA FirstDiffIs ==
    ASSUME NEW S, NEW a \in Seq(S), NEW b \in Seq(S)
    PROVE  \/ /\ FirstDiff(a, b) = 0
              /\ \A i \in Place : i <= Len(a) /\ i <= Len(b) => a[i] = b[i]
           \/ /\ FirstDiff(a, b) \in Place
              /\ FirstDiff(a, b) <= Len(a)
              /\ FirstDiff(a, b) <= Len(b)
              /\ a[FirstDiff(a, b)] # b[FirstDiff(a, b)]
              /\ \A i \in Place : i < FirstDiff(a, b) => a[i] = b[i]
<1> DEFINE D == {i \in Common(a, b) : a[i] # b[i]}
<1>1. Len(a) \in Nat /\ Len(b) \in Nat
  BY LenProperties
<1>2. Common(a, b) = {i \in Place : i <= Len(a) /\ i <= Len(b)}
  <2>1. Min({Len(a), Len(b)}) = IF Len(a) <= Len(b) THEN Len(a) ELSE Len(b)
    BY <1>1, LeastAndGreatest
  <2>2. QED
    BY <1>1, <2>1 DEF Common, Place
<1>3. CASE D = {}
  <2>1. FirstDiff(a, b) = 0
    BY <1>3 DEF FirstDiff
  <2>2. QED
    BY <1>2, <1>3, <2>1
<1>4. CASE D # {}
  <2>1. D \subseteq Nat
    BY <1>2 DEF Place
  <2>2. \E m \in D : \A n \in D : m <= n
    BY <1>4, <2>1, LeastOf
  <2>3. Min(D) \in D /\ \A n \in D : Min(D) <= n
    BY <2>2 DEF Min
  <2>4. FirstDiff(a, b) = Min(D)
    BY <1>4 DEF FirstDiff
  <2> DEFINE d == FirstDiff(a, b)
  <2>5. d \in D /\ \A n \in D : d <= n
    BY <2>3, <2>4
  <2> HIDE DEF d
  <2>6. d \in Place /\ d <= Len(a) /\ d <= Len(b) /\ a[d] # b[d]
    BY <1>2, <2>5
  <2>7. ASSUME NEW i \in Place, i < d
        PROVE  a[i] = b[i]
    <3>1. i \notin D
      BY <2>5, <2>6, <2>7 DEF Place
    <3>2. i \in Common(a, b)
      BY <1>1, <1>2, <2>6, <2>7 DEF Place
    <3>3. QED
      BY <3>1, <3>2
  <2>8. QED
    BY <2>6, <2>7 DEF d
<1>5. QED
  BY <1>3, <1>4

LEMMA FirstDiffAt ==
    ASSUME NEW S, NEW a \in Seq(S), NEW b \in Seq(S), NEW i \in Place,
           i <= Len(a), i <= Len(b), a[i] # b[i],
           \A j \in Place : j < i => a[j] = b[j]
    PROVE  FirstDiff(a, b) = i
<1>1. Len(a) \in Nat /\ Len(b) \in Nat
  BY LenProperties
<1>2. QED
  BY <1>1, FirstDiffIs DEF Place

LEMMA FirstDiffNone ==
    ASSUME NEW S, NEW a \in Seq(S), NEW b \in Seq(S),
           \A i \in Place : i <= Len(a) /\ i <= Len(b) => a[i] = b[i]
    PROVE  FirstDiff(a, b) = 0
BY FirstDiffIs DEF Place

LEMMA NumbersAreNats ==
    ASSUME NEW t \in Token, NEW w \in Nat
    PROVE  /\ Numbers(t, w) \in Seq(Nat)
           /\ Len(Numbers(t, w)) = w
           /\ \A i \in Place : i <= w => Numbers(t, w)[i] = Number(t, i)
<1>1. \A i \in 1..w : Number(t, i) \in Nat
  BY NumberIsNat DEF Place
<1>2. Numbers(t, w) \in [1..w -> Nat]
  BY <1>1 DEF Numbers
<1>3. Numbers(t, w) \in Seq(Nat)
  BY <1>2, SeqDef
<1>4. Len(Numbers(t, w)) = w
  BY <1>2, <1>3, LenProperties
<1>5. QED
  BY <1>3, <1>4 DEF Numbers, Place

\* Numbers side by side, wide enough for both, compare as the values do.
LEMMA NumsLtIsBeats ==
    ASSUME NEW a \in Token, NEW b \in Token,
           NEW w \in Nat, w >= Len(a.nums), w >= Len(b.nums)
    PROVE  /\ Numbers(a, w) = Numbers(b, w) <=> Equal(a, b)
           /\ NumsLt(Numbers(a, w), Numbers(b, w)) <=> Beats(b, a)
<1> DEFINE x == Numbers(a, w)
           y == Numbers(b, w)
<1>1. /\ x \in Seq(Nat) /\ Len(x) = w /\ \A i \in Place : i <= w => x[i] = Number(a, i)
      /\ y \in Seq(Nat) /\ Len(y) = w /\ \A i \in Place : i <= w => y[i] = Number(b, i)
  BY NumbersAreNats
<1>2. \A i \in Place : i > w => Number(a, i) = 0 /\ Number(b, i) = 0
  BY NumberIsNat DEF Place
<1>3. x = y <=> Equal(a, b)
  <2>1. x = [i \in 1..w |-> Number(a, i)] /\ y = [i \in 1..w |-> Number(b, i)]
    BY DEF Numbers
  <2>2. x = y => \A i \in Place : i <= w => Number(a, i) = Number(b, i)
    BY <1>1
  <2>3. (\A i \in Place : i <= w => Number(a, i) = Number(b, i)) => x = y
    BY <2>1 DEF Place
  <2>4. QED
    BY <1>2, <2>2, <2>3 DEF Equal, Place
<1>4. NumsLt(x, y) => Beats(b, a)
  <2> SUFFICES ASSUME NumsLt(x, y) PROVE Beats(b, a)
    OBVIOUS
  <2> DEFINE i == FirstDiff(x, y)
  <2>1. i # 0 /\ x[i] < y[i]
    BY DEF NumsLt
  <2> HIDE DEF x, y
  <2>2. i \in Place /\ i <= w /\ \A j \in Place : j < i => x[j] = y[j]
    BY <1>1, <2>1, FirstDiffIs
  <2> HIDE DEF i
  <2>3. Agree(b, a, i - 1)
    BY <1>1, <2>2 DEF Agree, Place
  <2>4. Number(b, i) > Number(a, i)
    <3>1. Number(a, i) \in Nat /\ Number(b, i) \in Nat
      BY <2>2, NumberIsNat
    <3>2. QED
      BY <1>1, <2>1, <2>2, <3>1
  <2>5. QED
    BY <2>2, <2>3, <2>4 DEF Beats
<1>5. Beats(b, a) => NumsLt(x, y)
  <2> SUFFICES ASSUME Beats(b, a) PROVE NumsLt(x, y)
    OBVIOUS
  <2> HIDE DEF x, y
  <2>1. PICK i \in Place : Number(b, i) > Number(a, i) /\ Agree(b, a, i - 1)
    BY DEF Beats
  <2>2. Number(a, i) \in Nat /\ Number(b, i) \in Nat
    BY NumberIsNat
  <2>3. i <= w
    BY <1>2, <2>1, <2>2 DEF Place
  <2>4. \A j \in Place : j < i => x[j] = y[j]
    BY <1>1, <2>1, <2>3 DEF Agree, Place
  <2>5. x[i] < y[i]
    BY <1>1, <2>1, <2>3
  <2>6. x[i] # y[i]
    BY <1>1, <2>2, <2>3, <2>5
  <2>7. FirstDiff(x, y) = i
    BY <1>1, <2>3, <2>4, <2>6, FirstDiffAt
  <2>8. QED
    BY <2>5, <2>7 DEF NumsLt, Place
<1>6. QED
  BY <1>3, <1>4, <1>5

LEMMA ExceedsIsBeats ==
    ASSUME NEW a \in Token, NEW b \in Token
    PROVE  /\ Exceeds(a, b) <=> Beats(a, b)
           /\ SameValue(a, b) <=> Equal(a, b)
<1>1. Len(a.nums) \in Nat /\ Len(b.nums) \in Nat
  BY NumberIsNat DEF Place
<1>2. \A i \in Place : \/ i \in Places(a, b)
                       \/ i > Len(a.nums) /\ i > Len(b.nums)
  <2>1. Max({Len(a.nums), Len(b.nums)})
            = IF Len(a.nums) >= Len(b.nums) THEN Len(a.nums) ELSE Len(b.nums)
    BY <1>1, LeastAndGreatest
  <2>2. QED
    BY <1>1, <2>1 DEF Places, Place
<1>3. Places(a, b) \subseteq Place
  <2>1. Max({Len(a.nums), Len(b.nums)}) \in Nat
    BY <1>1, LeastAndGreatest
  <2>2. QED
    BY <2>1 DEF Places, Place
<1>4. \A i \in Place : i \in Places(a, b) \/ (Number(a, i) = 0 /\ Number(b, i) = 0)
  BY <1>2, NumberIsNat
<1>5. QED
  BY <1>3, <1>4 DEF Exceeds, SameValue, Beats, Equal

\* Comparison by value is a total order up to equal values.
LEMMA BeatsOrders ==
    ASSUME NEW a \in Token, NEW b \in Token
    PROVE  /\ ~Beats(a, a)
           /\ ~(Beats(a, b) /\ Beats(b, a))
           /\ ~(Beats(a, b) /\ Equal(a, b))
           /\ Equal(a, b) => Equal(b, a)
           /\ Beats(a, b) \/ Beats(b, a) \/ Equal(a, b)
<1>1. \A i \in Place : Number(a, i) \in Nat /\ Number(b, i) \in Nat
  BY NumberIsNat
<1>2. ~Beats(a, a) /\ ~(Beats(a, b) /\ Equal(a, b)) /\ (Equal(a, b) => Equal(b, a))
  BY <1>1 DEF Beats, Equal
<1>3. ~(Beats(a, b) /\ Beats(b, a))
  <2> SUFFICES ASSUME NEW i \in Place, Number(a, i) > Number(b, i), Agree(a, b, i - 1),
                      NEW j \in Place, Number(b, j) > Number(a, j), Agree(b, a, j - 1)
               PROVE  FALSE
    BY DEF Beats
  <2>1. i < j => i \in 1..j - 1
    BY DEF Place
  <2>2. j < i => j \in 1..i - 1
    BY DEF Place
  <2>3. QED
    BY <1>1, <2>1, <2>2 DEF Agree, Place
<1>4. ASSUME ~Equal(a, b)
      PROVE  Beats(a, b) \/ Beats(b, a)
  <2> DEFINE D == {i \in Place : Number(a, i) # Number(b, i)}
  <2>1. D # {} /\ D \in SUBSET Nat
    BY <1>4 DEF Equal, Place
  <2>2. PICK i \in D : \A j \in D : i <= j
    <3> HIDE DEF D
    <3> QED
      BY <2>1, LeastOf
  <2>3. i \in Place /\ Number(a, i) # Number(b, i)
    BY <2>2
  <2>4. \A j \in 1..i - 1 : Number(a, j) = Number(b, j)
    BY <2>2, <2>3 DEF Place
  <2>5. QED
    BY <1>1, <2>3, <2>4 DEF Beats, Agree
<1>5. QED
  BY <1>2, <1>3, <1>4

LEMMA BeatsChains ==
    ASSUME NEW a \in Token, NEW b \in Token, NEW c \in Token
    PROVE  /\ Beats(a, b) /\ Beats(b, c) => Beats(a, c)
           /\ Beats(a, b) /\ Equal(b, c) => Beats(a, c)
           /\ Equal(a, b) /\ Beats(b, c) => Beats(a, c)
           /\ Equal(a, b) /\ Equal(b, c) => Equal(a, c)
<1>1. \A i \in Place : Number(a, i) \in Nat /\ Number(b, i) \in Nat /\ Number(c, i) \in Nat
  BY NumberIsNat
<1>2. ASSUME NEW i \in Place, Number(a, i) > Number(b, i), Agree(a, b, i - 1),
             NEW j \in Place, Number(b, j) > Number(c, j), Agree(b, c, j - 1)
      PROVE  Beats(a, c)
  <2> DEFINE k == IF i <= j THEN i ELSE j
  <2>1. /\ k \in Place
        /\ i < j => i \in 1..j - 1
        /\ j < i => j \in 1..i - 1
        /\ \A m \in 1..k - 1 : m \in 1..i - 1 /\ m \in 1..j - 1
    BY DEF Place
  <2>2. Number(a, k) > Number(c, k)
    BY <1>1, <1>2, <2>1 DEF Agree, Place
  <2>3. Agree(a, c, k - 1)
    BY <1>2, <2>1 DEF Agree
  <2> HIDE DEF k
  <2>4. QED
    BY <2>1, <2>2, <2>3 DEF Beats
<1>3. \A i \in Place : \A j \in 1..i - 1 : j \in Place
  BY DEF Place
<1>4. QED
  BY <1>2, <1>3 DEF Beats, Equal, Agree

-----------------------------------------------------------------------------
(* Spelling and prereleases: two orders by the first difference.           *)

\* Where the first difference of a and c lies, given those of a and b, of b and c.
LEMMA DiffOfThree ==
    ASSUME NEW S, NEW a \in Seq(S), NEW b \in Seq(S), NEW c \in Seq(S),
           NEW i, i = FirstDiff(a, b), NEW j, j = FirstDiff(b, c)
    PROVE  /\ Len(a) \in Nat /\ Len(b) \in Nat /\ Len(c) \in Nat
           /\ i \in Nat /\ j \in Nat
           /\ i = 0 /\ j = 0 /\ Len(a) < Len(b) => FirstDiff(a, c) = 0
           /\ i = 0 /\ j # 0 /\ Len(a) < j => FirstDiff(a, c) = 0 /\ Len(a) < Len(c)
           /\ i = 0 /\ j # 0 /\ j <= Len(a) => FirstDiff(a, c) = j /\ a[j] = b[j]
           /\ i # 0 /\ j = 0 /\ Len(b) < Len(c) => FirstDiff(a, c) = i /\ c[i] = b[i]
           /\ i # 0 /\ i < j => FirstDiff(a, c) = i /\ c[i] = b[i]
           /\ j # 0 /\ j < i => FirstDiff(a, c) = j /\ a[j] = b[j]
           /\ i # 0 /\ i = j /\ a[i] # c[i] => FirstDiff(a, c) = i
<1>1. Len(a) \in Nat /\ Len(b) \in Nat /\ Len(c) \in Nat
  BY LenProperties
<1>2. \/ i = 0 /\ \A k \in Place : k <= Len(a) /\ k <= Len(b) => a[k] = b[k]
      \/ /\ i \in Place /\ i <= Len(a) /\ i <= Len(b) /\ a[i] # b[i]
         /\ \A k \in Place : k < i => a[k] = b[k]
  BY FirstDiffIs
<1>3. \/ j = 0 /\ \A k \in Place : k <= Len(b) /\ k <= Len(c) => b[k] = c[k]
      \/ /\ j \in Place /\ j <= Len(b) /\ j <= Len(c) /\ b[j] # c[j]
         /\ \A k \in Place : k < j => b[k] = c[k]
  BY FirstDiffIs
<1>4. i \in Nat /\ j \in Nat
  BY <1>2, <1>3 DEF Place
<1>5. ASSUME i = 0, j = 0, Len(a) < Len(b) PROVE FirstDiff(a, c) = 0
  <2>1. \A k \in Place : k <= Len(a) /\ k <= Len(c) => a[k] = c[k]
    BY <1>1, <1>2, <1>3, <1>5 DEF Place
  <2>2. QED
    BY <2>1, FirstDiffNone
<1>6. ASSUME i = 0, j # 0, Len(a) < j PROVE FirstDiff(a, c) = 0 /\ Len(a) < Len(c)
  <2>1. \A k \in Place : k <= Len(a) /\ k <= Len(c) => a[k] = c[k]
    BY <1>1, <1>2, <1>3, <1>6 DEF Place
  <2>2. QED
    BY <1>1, <1>3, <1>4, <1>6, <2>1, FirstDiffNone
<1>7. ASSUME i = 0, j # 0, j <= Len(a) PROVE FirstDiff(a, c) = j /\ a[j] = b[j]
  <2>1. j \in Place /\ a[j] = b[j] /\ a[j] # c[j] /\ j <= Len(c)
    BY <1>1, <1>2, <1>3, <1>7 DEF Place
  <2>2. \A k \in Place : k < j => a[k] = c[k]
    BY <1>1, <1>2, <1>3, <1>7 DEF Place
  <2>3. QED
    BY <1>7, <2>1, <2>2, FirstDiffAt
<1>8. ASSUME i # 0, j = 0, Len(b) < Len(c) PROVE FirstDiff(a, c) = i /\ c[i] = b[i]
  <2>1. i \in Place /\ c[i] = b[i] /\ a[i] # c[i] /\ i <= Len(a) /\ i <= Len(c)
    BY <1>1, <1>2, <1>3, <1>8 DEF Place
  <2>2. \A k \in Place : k < i => a[k] = c[k]
    BY <1>1, <1>2, <1>3, <1>8, <2>1 DEF Place
  <2>3. QED
    BY <2>1, <2>2, FirstDiffAt
<1>9. ASSUME i # 0, i < j PROVE FirstDiff(a, c) = i /\ c[i] = b[i]
  <2>1. i \in Place /\ c[i] = b[i] /\ a[i] # c[i] /\ i <= Len(a) /\ i <= Len(c)
    BY <1>1, <1>2, <1>3, <1>9 DEF Place
  <2>2. \A k \in Place : k < i => a[k] = c[k]
    BY <1>1, <1>2, <1>3, <1>9, <2>1 DEF Place
  <2>3. QED
    BY <2>1, <2>2, FirstDiffAt
<1>10. ASSUME j # 0, j < i PROVE FirstDiff(a, c) = j /\ a[j] = b[j]
  <2>1. j \in Place /\ a[j] = b[j] /\ a[j] # c[j] /\ j <= Len(a) /\ j <= Len(c)
    BY <1>1, <1>2, <1>3, <1>10 DEF Place
  <2>2. \A k \in Place : k < j => a[k] = c[k]
    BY <1>1, <1>2, <1>3, <1>10, <2>1 DEF Place
  <2>3. QED
    BY <2>1, <2>2, FirstDiffAt
<1>11. ASSUME i # 0, i = j, a[i] # c[i] PROVE FirstDiff(a, c) = i
  <2>1. i \in Place /\ i <= Len(a) /\ i <= Len(c)
    BY <1>2, <1>3, <1>11
  <2>2. \A k \in Place : k < i => a[k] = c[k]
    BY <1>2, <1>3, <1>11
  <2>3. QED
    BY <1>11, <2>1, <2>2, FirstDiffAt
<1>12. QED
  BY <1>1, <1>4, <1>5, <1>6, <1>7, <1>8, <1>9, <1>10, <1>11

\* Sequences of one length without a difference are equal.
LEMMA NoDiffNoOther ==
    ASSUME NEW S, NEW a \in Seq(S), NEW b \in Seq(S), FirstDiff(a, b) = 0, Len(a) = Len(b)
    PROVE  a = b
<1>1. Len(a) \in Nat /\ \A i \in Place : i <= Len(a) => a[i] = b[i]
  BY LenProperties, FirstDiffIs DEF Place
<1>2. \A i \in 1..Len(a) : a[i] = b[i]
  BY <1>1 DEF Place
<1>3. QED
  BY <1>2, SeqEqual

LEMMA DiffIsSymmetric ==
    ASSUME NEW S, NEW a \in Seq(S), NEW b \in Seq(S)
    PROVE  FirstDiff(a, b) = FirstDiff(b, a)
<1>1. Common(a, b) = Common(b, a)
  <2>1. {Len(a), Len(b)} = {Len(b), Len(a)}
    OBVIOUS
  <2>2. QED
    BY <2>1 DEF Common
<1>2. {i \in Common(a, b) : a[i] # b[i]} = {i \in Common(b, a) : b[i] # a[i]}
  BY <1>1
<1>3. QED
  BY <1>2 DEF FirstDiff

\* The digits of numbers of equal value, in the order of the characters.
SpeltLower(x, y) == IF x.n = 0 THEN x.zeros < y.zeros ELSE x.zeros > y.zeros
Digits == [n : Nat, zeros : Nat]

LEMMA SpeltLowerOrders ==
    ASSUME NEW x \in Digits, NEW y \in Digits, NEW z \in Digits, x.n = y.n, y.n = z.n
    PROVE  /\ ~SpeltLower(x, x)
           /\ x # y => SpeltLower(x, y) \/ SpeltLower(y, x)
           /\ SpeltLower(x, y) /\ SpeltLower(y, z) => SpeltLower(x, z)
<1>1. x # y => x.zeros # y.zeros
  BY DEF Digits
<1>2. x.zeros \in Nat /\ y.zeros \in Nat /\ z.zeros \in Nat
  BY DEF Digits
<1>3. QED
  BY <1>1, <1>2 DEF SpeltLower

\* Numbers of equal value are of equal value place by place.
LEMMA EqualPlaces ==
    ASSUME NEW a \in Token, NEW b \in Token, Equal(a, b)
    PROVE  /\ a.nums \in Seq(Digits) /\ b.nums \in Seq(Digits)
           /\ \A i \in Place : i <= Len(a.nums) /\ i <= Len(b.nums) =>
                /\ a.nums[i] \in Digits /\ b.nums[i] \in Digits
                /\ a.nums[i].n = b.nums[i].n
<1>1. a.nums \in Seq(Digits) /\ b.nums \in Seq(Digits)
  BY DEF Token, Digits
<1>2. \A i \in Place : i <= Len(a.nums) /\ i <= Len(b.nums) =>
        a.nums[i] \in Digits /\ b.nums[i] \in Digits
  BY NumberIsNat DEF Digits
<1>3. \A i \in Place : i <= Len(a.nums) /\ i <= Len(b.nums) => a.nums[i].n = b.nums[i].n
  BY DEF Equal, Number
<1>4. QED
  BY <1>1, <1>2, <1>3

\* The spelling is a total order of the tokens of one value.
LEMMA RawOrders ==
    ASSUME NEW a \in Token, NEW b \in Token, Equal(a, b)
    PROVE  /\ ~RawLt(a.nums, a.nums)
           /\ a.nums # b.nums => RawLt(a.nums, b.nums) \/ RawLt(b.nums, a.nums)
<1> DEFINE x == a.nums
           y == b.nums
<1>1. x \in Seq(Digits) /\ y \in Seq(Digits) /\ Len(x) \in Nat /\ Len(y) \in Nat
  BY EqualPlaces, LenProperties
<1>2. \A i \in Place : i <= Len(x) /\ i <= Len(y) =>
        x[i] \in Digits /\ y[i] \in Digits /\ x[i].n = y[i].n
  BY EqualPlaces
<1> HIDE DEF x, y
<1>3. ~RawLt(x, x)
  <2>1. FirstDiff(x, x) = 0
    BY <1>1, FirstDiffNone
  <2>2. QED
    BY <1>1, <2>1 DEF RawLt
<1>4. ASSUME x # y PROVE RawLt(x, y) \/ RawLt(y, x)
  <2> DEFINE d == FirstDiff(x, y)
  <2>1. FirstDiff(y, x) = d
    BY <1>1, DiffIsSymmetric
  <2>2. CASE d = 0
    <3>1. Len(x) # Len(y)
      BY <1>1, <1>4, <2>2, NoDiffNoOther
    <3>2. QED
      BY <1>1, <2>1, <2>2, <3>1 DEF RawLt
  <2>3. CASE d # 0
    <3>1. d \in Place /\ d <= Len(x) /\ d <= Len(y) /\ x[d] # y[d]
      BY <1>1, <2>3, FirstDiffIs
    <3>2. SpeltLower(x[d], y[d]) \/ SpeltLower(y[d], x[d])
      BY <1>2, <3>1, SpeltLowerOrders
    <3>3. QED
      BY <2>1, <2>3, <3>2 DEF RawLt, SpeltLower
  <2>4. QED
    BY <2>2, <2>3
<1>5. QED
  BY <1>3, <1>4 DEF x, y

LEMMA RawChains ==
    ASSUME NEW a \in Token, NEW b \in Token, NEW c \in Token, Equal(a, b), Equal(b, c),
           RawLt(a.nums, b.nums), RawLt(b.nums, c.nums)
    PROVE  RawLt(a.nums, c.nums)
<1> DEFINE x == a.nums
           y == b.nums
           z == c.nums
<1>1. /\ x \in Seq(Digits) /\ y \in Seq(Digits) /\ z \in Seq(Digits)
      /\ \A i \in Place : i <= Len(x) /\ i <= Len(y) =>
            x[i] \in Digits /\ y[i] \in Digits /\ x[i].n = y[i].n
      /\ \A i \in Place : i <= Len(y) /\ i <= Len(z) =>
            y[i] \in Digits /\ z[i] \in Digits /\ y[i].n = z[i].n
  BY EqualPlaces
<1>2. RawLt(x, y) /\ RawLt(y, z)
  OBVIOUS
<1> HIDE DEF x, y, z
<1> DEFINE i == FirstDiff(x, y)
           j == FirstDiff(y, z)
<1>3. /\ IF i = 0 THEN Len(x) < Len(y) ELSE SpeltLower(x[i], y[i])
      /\ IF j = 0 THEN Len(y) < Len(z) ELSE SpeltLower(y[j], z[j])
  BY <1>2 DEF RawLt, SpeltLower
<1>4. /\ i # 0 => i \in Place /\ i <= Len(x) /\ i <= Len(y)
      /\ j # 0 => j \in Place /\ j <= Len(y) /\ j <= Len(z)
  BY <1>1, FirstDiffIs
<1> PICK ii : ii = i
  OBVIOUS
<1> PICK jj : jj = j
  OBVIOUS
<1>5. /\ Len(x) \in Nat /\ Len(y) \in Nat /\ Len(z) \in Nat /\ ii \in Nat /\ jj \in Nat
      /\ ii = 0 /\ jj = 0 /\ Len(x) < Len(y) => FirstDiff(x, z) = 0
      /\ ii = 0 /\ jj # 0 /\ Len(x) < jj => FirstDiff(x, z) = 0 /\ Len(x) < Len(z)
      /\ ii = 0 /\ jj # 0 /\ jj <= Len(x) => FirstDiff(x, z) = jj /\ x[jj] = y[jj]
      /\ ii # 0 /\ jj = 0 /\ Len(y) < Len(z) => FirstDiff(x, z) = ii /\ z[ii] = y[ii]
      /\ ii # 0 /\ ii < jj => FirstDiff(x, z) = ii /\ z[ii] = y[ii]
      /\ jj # 0 /\ jj < ii => FirstDiff(x, z) = jj /\ x[jj] = y[jj]
      /\ ii # 0 /\ ii = jj /\ x[ii] # z[ii] => FirstDiff(x, z) = ii
  BY <1>1, DiffOfThree
<1>6. ASSUME ii # 0, ii = jj PROVE x[ii] # z[ii] /\ SpeltLower(x[ii], z[ii])
  <2>1. x[ii] \in Digits /\ y[ii] \in Digits /\ z[ii] \in Digits
        /\ x[ii].n = y[ii].n /\ y[ii].n = z[ii].n
    BY <1>1, <1>4, <1>6
  <2>2. SpeltLower(x[ii], y[ii]) /\ SpeltLower(y[ii], z[ii])
    BY <1>3, <1>6
  <2>3. SpeltLower(x[ii], z[ii]) /\ ~SpeltLower(x[ii], x[ii])
    BY <2>1, <2>2, SpeltLowerOrders
  <2>4. QED
    BY <2>3
<1>7. IF FirstDiff(x, z) = 0 THEN Len(x) < Len(z)
      ELSE SpeltLower(x[FirstDiff(x, z)], z[FirstDiff(x, z)])
  <2> HIDE DEF i, j
  <2>1. CASE ii = 0 /\ jj = 0
    BY <1>3, <1>5, <2>1
  <2>2. CASE ii = 0 /\ jj # 0
    BY <1>3, <1>5, <2>2
  <2>3. CASE ii # 0 /\ jj = 0
    BY <1>3, <1>5, <2>3
  <2>4. CASE ii # 0 /\ jj # 0 /\ ii # jj
    BY <1>3, <1>5, <2>4
  <2>5. CASE ii # 0 /\ ii = jj
    BY <1>5, <1>6, <2>5
  <2>6. QED
    BY <2>1, <2>2, <2>3, <2>4, <2>5
<1>8. RawLt(x, z)
  BY <1>7 DEF RawLt, SpeltLower
<1>9. QED
  BY <1>8 DEF x, y, z

Identifier == [num : BOOLEAN, id : Nat]

LEMMA IdentifierOrders ==
    ASSUME NEW x \in Identifier, NEW y \in Identifier, NEW z \in Identifier
    PROVE  /\ ~IdentifierLt(x, x)
           /\ x # y => IdentifierLt(x, y) \/ IdentifierLt(y, x)
           /\ IdentifierLt(x, y) /\ IdentifierLt(y, z) => IdentifierLt(x, z)
<1>1. x.id \in Nat /\ y.id \in Nat /\ z.id \in Nat
  BY DEF Identifier
<1>2. x.num \in BOOLEAN /\ y.num \in BOOLEAN /\ z.num \in BOOLEAN
  BY DEF Identifier
<1>3. x # y /\ x.num = y.num => x.id # y.id
  BY DEF Identifier
<1>4. ~(x.id < x.id) /\ (x.id < y.id \/ y.id < x.id \/ x.id = y.id)
      /\ (x.id < y.id /\ y.id < z.id => x.id < z.id)
  BY <1>1
<1>5. ~IdentifierLt(x, x)
  BY <1>4 DEF IdentifierLt
<1>6. x # y => IdentifierLt(x, y) \/ IdentifierLt(y, x)
  <2>1. CASE x.num = y.num
    BY <1>3, <1>4, <2>1, Zenon DEF IdentifierLt
  <2>2. CASE x.num # y.num
    BY <1>2, <2>2, Zenon DEF IdentifierLt
  <2>3. QED
    BY <2>1, <2>2
<1>7. IdentifierLt(x, y) /\ IdentifierLt(y, z) => IdentifierLt(x, z)
  <2>1. CASE x.num = y.num /\ y.num = z.num
    BY <1>4, <2>1, Zenon DEF IdentifierLt
  <2>2. CASE x.num = y.num /\ y.num # z.num
    BY <2>2, Zenon DEF IdentifierLt
  <2>3. CASE x.num # y.num /\ y.num = z.num
    BY <2>3, Zenon DEF IdentifierLt
  <2>4. CASE x.num # y.num /\ y.num # z.num
    BY <1>2, <2>4, Zenon DEF IdentifierLt
  <2>5. QED
    BY <2>1, <2>2, <2>3, <2>4
<1>8. QED
  BY <1>5, <1>6, <1>7

\* _prerelease_lt is a total order of the prereleases, with no prerelease on top.
LEMMA PrereleaseOrders ==
    ASSUME NEW a \in Seq(Identifier), NEW b \in Seq(Identifier)
    PROVE  /\ ~PrereleaseLt(a, a)
           /\ a # b => PrereleaseLt(a, b) \/ PrereleaseLt(b, a)
<1> DEFINE d == FirstDiff(a, b)
<1>1. ~PrereleaseLt(a, a)
  BY DEF PrereleaseLt
<1>2. Len(a) \in Nat /\ Len(b) \in Nat
  BY LenProperties
<1>3. FirstDiff(b, a) = d
  BY DiffIsSymmetric
<1>4. ASSUME a # b, a # <<>>, b # <<>> PROVE PrereleaseLt(a, b) \/ PrereleaseLt(b, a)
  <2>1. CASE d = 0
    <3>1. Len(a) < Len(b) \/ Len(b) < Len(a)
      BY <1>2, <1>4, <2>1, NoDiffNoOther
    <3>2. QED
      BY <1>3, <1>4, <2>1, <3>1 DEF PrereleaseLt
  <2>2. CASE d # 0
    <3>1. d \in Place /\ d <= Len(a) /\ d <= Len(b) /\ a[d] # b[d]
      BY <2>2, FirstDiffIs
    <3>2. a[d] \in Identifier /\ b[d] \in Identifier
      <4>1. d \in 1..Len(a) /\ d \in 1..Len(b)
        BY <1>2, <3>1 DEF Place
      <4> HIDE DEF d
      <4>2. QED
        BY <4>1, ElementOfSeq
    <3>3. IdentifierLt(a[d], b[d]) \/ IdentifierLt(b[d], a[d])
      BY <3>1, <3>2, IdentifierOrders
    <3>4. QED
      BY <1>3, <1>4, <2>2, <3>3 DEF PrereleaseLt
  <2>3. QED
    BY <2>1, <2>2
<1>5. ASSUME a # b, a = <<>> \/ b = <<>> PROVE PrereleaseLt(a, b) \/ PrereleaseLt(b, a)
  BY <1>5 DEF PrereleaseLt
<1>6. QED
  BY <1>1, <1>4, <1>5

LEMMA PrereleaseChains ==
    ASSUME NEW a \in Seq(Identifier), NEW b \in Seq(Identifier), NEW c \in Seq(Identifier),
           PrereleaseLt(a, b), PrereleaseLt(b, c)
    PROVE  PrereleaseLt(a, c)
<1> DEFINE i == FirstDiff(a, b)
           j == FirstDiff(b, c)
<1>1. a # <<>> /\ b # <<>> /\ a # b /\ b # c
  BY DEF PrereleaseLt
<1>2. CASE c = <<>>
  BY <1>1, <1>2 DEF PrereleaseLt
<1>3. CASE c # <<>>
  <2> PICK ii : ii = i
    OBVIOUS
  <2> PICK jj : jj = j
    OBVIOUS
  <2>1. /\ IF ii = 0 THEN Len(a) < Len(b) ELSE IdentifierLt(a[ii], b[ii])
        /\ IF jj = 0 THEN Len(b) < Len(c) ELSE IdentifierLt(b[jj], c[jj])
    BY <1>1, <1>3 DEF PrereleaseLt
  <2>2. /\ ii # 0 => ii \in Place /\ ii <= Len(a) /\ ii <= Len(b)
        /\ jj # 0 => jj \in Place /\ jj <= Len(b) /\ jj <= Len(c)
    BY FirstDiffIs
  <2>3. /\ Len(a) \in Nat /\ Len(b) \in Nat /\ Len(c) \in Nat /\ ii \in Nat /\ jj \in Nat
        /\ ii = 0 /\ jj = 0 /\ Len(a) < Len(b) => FirstDiff(a, c) = 0
        /\ ii = 0 /\ jj # 0 /\ Len(a) < jj => FirstDiff(a, c) = 0 /\ Len(a) < Len(c)
        /\ ii = 0 /\ jj # 0 /\ jj <= Len(a) => FirstDiff(a, c) = jj /\ a[jj] = b[jj]
        /\ ii # 0 /\ jj = 0 /\ Len(b) < Len(c) => FirstDiff(a, c) = ii /\ c[ii] = b[ii]
        /\ ii # 0 /\ ii < jj => FirstDiff(a, c) = ii /\ c[ii] = b[ii]
        /\ jj # 0 /\ jj < ii => FirstDiff(a, c) = jj /\ a[jj] = b[jj]
        /\ ii # 0 /\ ii = jj /\ a[ii] # c[ii] => FirstDiff(a, c) = ii
    BY DiffOfThree
  <2>4. ASSUME ii # 0, ii = jj PROVE a[ii] # c[ii] /\ IdentifierLt(a[ii], c[ii])
    <3>1. ii \in 1..Len(a) /\ ii \in 1..Len(b) /\ ii \in 1..Len(c)
      BY <2>2, <2>3, <2>4 DEF Place
    <3>2. a[ii] \in Identifier /\ b[ii] \in Identifier /\ c[ii] \in Identifier
      BY <3>1, ElementOfSeq
    <3>3. IdentifierLt(a[ii], c[ii]) /\ ~IdentifierLt(a[ii], a[ii])
      BY <2>1, <2>4, <3>2, IdentifierOrders
    <3>4. QED
      BY <3>3
  <2> HIDE DEF i, j
  <2>5. IF FirstDiff(a, c) = 0 THEN Len(a) < Len(c)
        ELSE IdentifierLt(a[FirstDiff(a, c)], c[FirstDiff(a, c)])
    <3>1. CASE ii = 0 /\ jj = 0
      BY <2>1, <2>3, <3>1
    <3>2. CASE ii = 0 /\ jj # 0
      BY <2>1, <2>3, <3>2
    <3>3. CASE ii # 0 /\ jj = 0
      BY <2>1, <2>3, <3>3
    <3>4. CASE ii # 0 /\ jj # 0 /\ ii # jj
      BY <2>1, <2>3, <3>4
    <3>5. CASE ii # 0 /\ ii = jj
      BY <2>3, <2>4, <3>5
    <3>6. QED
      BY <3>1, <3>2, <3>3, <3>4, <3>5
  <2>6. a # c
    <3>1. ASSUME a = c PROVE FALSE
      <4>1. FirstDiff(a, a) = 0
        BY FirstDiffNone
      <4>2. QED
        BY <2>3, <2>5, <3>1, <4>1
    <3>2. QED
      BY <3>1
  <2>7. QED
    BY <1>1, <2>5, <2>6 DEF PrereleaseLt
<1>4. QED
  BY <1>2, <1>3

-----------------------------------------------------------------------------
(* The order of each scheme.                                               *)

\* What decides between tokens of one value.
Tie(s, a, b) ==
    \/ s = "semver" /\ PrereleaseLt(a.pre, b.pre)
    \/ s = "calver" /\ RawLt(a.nums, b.nums)
    \/ s = "monotonic" /\ (a.word < b.word \/ (a.word = b.word /\ RawLt(a.nums, b.nums)))

Ordering == {"semver", "calver", "monotonic"}

LEMMA TokenParts ==
    ASSUME NEW t \in Token
    PROVE  /\ t.word \in Nat
           /\ t.nums \in Seq(Digits)
           /\ t.pre \in Seq(Identifier)
           /\ Len(t.nums) \in Nat
           /\ t = [word |-> t.word, nums |-> t.nums, pre |-> t.pre]
<1>1. t.word \in Nat /\ t.nums \in Seq(Digits) /\ t.pre \in Seq(Identifier)
  BY DEF Token, Digits, Identifier
<1>2. t = [word |-> t.word, nums |-> t.nums, pre |-> t.pre]
  BY DEF Token
<1>3. QED
  BY <1>1, <1>2, LenProperties

\* Each scheme compares by value first and breaks ties in its own way.
LEMMA LtIs ==
    ASSUME NEW s \in Ordering, NEW a \in Token, NEW b \in Token, Parses(s, a), Parses(s, b)
    PROVE  Lt(s, a, b) <=> Beats(b, a) \/ (Equal(a, b) /\ Tie(s, a, b))
<1>1. Beats(b, a) => ~Equal(a, b)
  BY BeatsOrders
<1>2. CASE s = "semver"
  <2>1. Len(a.nums) = 3 /\ Len(b.nums) = 3
    BY <1>2 DEF Parses, IsSemVer
  <2>2. /\ Numbers(a, 3) = Numbers(b, 3) <=> Equal(a, b)
        /\ NumsLt(Numbers(a, 3), Numbers(b, 3)) <=> Beats(b, a)
    <3>1. PICK w \in Nat : w = 3 /\ w >= Len(a.nums) /\ w >= Len(b.nums)
      BY <2>1
    <3>2. /\ Numbers(a, w) = Numbers(b, w) <=> Equal(a, b)
          /\ NumsLt(Numbers(a, w), Numbers(b, w)) <=> Beats(b, a)
      BY <3>1, NumsLtIsBeats
    <3>3. QED
      BY <3>1, <3>2
  <2>3. Lt(s, a, b) <=> SemVerLt(a, b)
    BY <1>2 DEF Lt
  <2>4. Tie(s, a, b) <=> PrereleaseLt(a.pre, b.pre)
    BY <1>2 DEF Tie
  <2>5. QED
    BY <1>1, <2>2, <2>3, <2>4, Zenon DEF SemVerLt
<1>3. CASE s = "calver"
  <2> DEFINE w == Max({Len(a.nums), Len(b.nums)})
  <2>1. w \in Nat /\ w >= Len(a.nums) /\ w >= Len(b.nums)
    <3>1. Len(a.nums) \in Nat /\ Len(b.nums) \in Nat
      BY TokenParts
    <3>2. w = IF Len(a.nums) >= Len(b.nums) THEN Len(a.nums) ELSE Len(b.nums)
      BY <3>1, LeastAndGreatest
    <3>3. QED
      BY <3>1, <3>2
  <2>2. /\ Numbers(a, w) = Numbers(b, w) <=> Equal(a, b)
        /\ NumsLt(Numbers(a, w), Numbers(b, w)) <=> Beats(b, a)
    <3> HIDE DEF w
    <3> QED
      BY <2>1, NumsLtIsBeats
  <2>3. Lt(s, a, b) <=> CalVerLt(a, b)
    BY <1>3 DEF Lt
  <2>4. Tie(s, a, b) <=> RawLt(a.nums, b.nums)
    BY <1>3 DEF Tie
  <2>5. QED
    BY <1>1, <2>2, <2>3, <2>4, Zenon DEF CalVerLt
<1>4. CASE s = "monotonic"
  <2>1. Len(a.nums) = 1 /\ Len(b.nums) = 1
    BY <1>4 DEF Parses, IsMonotonic
  <2>2. Number(a, 1) = a.nums[1].n /\ Number(b, 1) = b.nums[1].n
    BY <2>1 DEF Number
  <2>3. \A i \in Place : i # 1 => Number(a, i) = 0 /\ Number(b, i) = 0
    <3>1. \A i \in Place : i # 1 => i > Len(a.nums) /\ i > Len(b.nums)
      BY <2>1 DEF Place
    <3>2. QED
      BY <3>1, NumberIsNat
  <2>4. Number(a, 1) \in Nat /\ Number(b, 1) \in Nat
    BY NumberIsNat DEF Place
  <2>5. 1 \in Place /\ Agree(b, a, 1 - 1)
    BY DEF Agree, Place
  <2>6. Equal(a, b) <=> a.nums[1].n = b.nums[1].n
    BY <2>2, <2>3, <2>5 DEF Equal
  <2>7. Beats(b, a) <=> b.nums[1].n > a.nums[1].n
    <3>1. \A i \in Place : i # 1 => ~(Number(b, i) > Number(a, i))
      BY <2>3
    <3>2. QED
      BY <2>2, <2>5, <3>1 DEF Beats
  <2>8. Lt(s, a, b) <=> MonotonicLt(a, b)
    BY <1>4 DEF Lt
  <2>9. Tie(s, a, b) <=> a.word < b.word \/ (a.word = b.word /\ RawLt(a.nums, b.nums))
    BY <1>4 DEF Tie
  <2>10. MonotonicLt(a, b) <=> \/ a.nums[1].n < b.nums[1].n
                               \/ /\ a.nums[1].n = b.nums[1].n
                                  /\ a.word < b.word \/ (a.word = b.word /\ RawLt(a.nums, b.nums))
    BY <2>2, <2>4, TokenParts DEF MonotonicLt
  <2>11. QED
    BY <2>2, <2>4, <2>6, <2>7, <2>8, <2>9, <2>10
<1>5. QED
  BY <1>2, <1>3, <1>4 DEF Ordering

\* Tokens of one scheme that tie in nothing are the same token.
LEMMA EqualTokens ==
    ASSUME NEW s \in Ordering, NEW a \in Token, NEW b \in Token, Parses(s, a), Parses(s, b),
           a.nums = b.nums, s = "semver" => a.pre = b.pre, s = "monotonic" => a.word = b.word
    PROVE  a = b
<1>1. a.word = b.word
  BY DEF Parses, IsSemVer, IsCalVer, Ordering
<1>2. a.pre = b.pre
  BY DEF Parses, IsCalVer, IsMonotonic, Ordering
<1>3. QED
  BY <1>1, <1>2, TokenParts

\* Numbers without leading zeros are told apart by their values.
LEMMA EqualSemVers ==
    ASSUME NEW a \in Token, NEW b \in Token, IsSemVer(a), IsSemVer(b), Equal(a, b)
    PROVE  a.nums = b.nums
<1>1. /\ Len(a.nums) = 3 /\ \A i \in 1..3 : a.nums[i].zeros = 0
      /\ Len(b.nums) = 3 /\ \A i \in 1..3 : b.nums[i].zeros = 0
  BY DEF IsSemVer
<1>2. \A i \in Place : i <= Len(a.nums) /\ i <= Len(b.nums) =>
        /\ a.nums[i] \in Digits /\ b.nums[i] \in Digits
        /\ a.nums[i].n = b.nums[i].n
  BY EqualPlaces
<1>3. ASSUME NEW i \in 1..3 PROVE a.nums[i] = b.nums[i]
  <2>1. i \in Place /\ i <= 3
    BY DEF Place
  <2>2. /\ a.nums[i] \in Digits /\ b.nums[i] \in Digits
        /\ a.nums[i].n = b.nums[i].n /\ a.nums[i].zeros = b.nums[i].zeros
    BY <1>1, <1>2, <2>1
  <2>3. QED
    BY <2>2 DEF Digits
<1>4. a.nums \in Seq(Digits) /\ b.nums \in Seq(Digits)
  BY TokenParts
<1>5. QED
  BY <1>1, <1>3, <1>4, SeqEqual

LEMMA TieOrders ==
    ASSUME NEW s \in Ordering, NEW a \in Token, NEW b \in Token, Parses(s, a), Parses(s, b),
           Equal(a, b)
    PROVE  /\ ~Tie(s, a, a)
           /\ a # b => Tie(s, a, b) \/ Tie(s, b, a)
<1>1. /\ ~RawLt(a.nums, a.nums)
      /\ a.nums # b.nums => RawLt(a.nums, b.nums) \/ RawLt(b.nums, a.nums)
  BY RawOrders
<1>2. /\ ~PrereleaseLt(a.pre, a.pre)
      /\ a.pre # b.pre => PrereleaseLt(a.pre, b.pre) \/ PrereleaseLt(b.pre, a.pre)
  BY TokenParts, PrereleaseOrders
<1>3. a.word \in Nat /\ b.word \in Nat
  BY TokenParts
<1>4. ~Tie(s, a, a)
  BY <1>1, <1>2, <1>3 DEF Tie
<1>5. ASSUME a # b PROVE Tie(s, a, b) \/ Tie(s, b, a)
  <2>1. CASE s = "semver"
    <3>1. a.nums = b.nums
      BY <2>1, EqualSemVers DEF Parses
    <3>2. a.pre # b.pre
      BY <1>5, <2>1, <3>1, EqualTokens
    <3>3. QED
      BY <1>2, <2>1, <3>2 DEF Tie
  <2>2. CASE s = "calver"
    <3>1. a.nums # b.nums
      BY <1>5, <2>2, EqualTokens
    <3>2. QED
      BY <1>1, <2>2, <3>1 DEF Tie
  <2>3. CASE s = "monotonic"
    <3>1. a.nums # b.nums \/ a.word # b.word
      BY <1>5, <2>3, EqualTokens
    <3>2. QED
      BY <1>1, <1>3, <2>3, <3>1 DEF Tie
  <2>4. QED
    BY <2>1, <2>2, <2>3 DEF Ordering
<1>6. QED
  BY <1>4, <1>5

LEMMA TieChains ==
    ASSUME NEW s \in Ordering, NEW a \in Token, NEW b \in Token, NEW c \in Token,
           Equal(a, b), Equal(b, c), Tie(s, a, b), Tie(s, b, c)
    PROVE  Tie(s, a, c)
<1>1. RawLt(a.nums, b.nums) /\ RawLt(b.nums, c.nums) => RawLt(a.nums, c.nums)
  BY RawChains
<1>2. PrereleaseLt(a.pre, b.pre) /\ PrereleaseLt(b.pre, c.pre) => PrereleaseLt(a.pre, c.pre)
  BY TokenParts, PrereleaseChains
<1>3. a.word \in Nat /\ b.word \in Nat /\ c.word \in Nat
  BY TokenParts
<1>4. QED
  BY <1>1, <1>2, <1>3 DEF Tie

\* Each scheme's order is strict and total.
LEMMA LtOrders ==
    ASSUME NEW s \in Ordering, NEW a \in Token, NEW b \in Token, Parses(s, a), Parses(s, b)
    PROVE  /\ ~Lt(s, a, a)
           /\ a # b => Lt(s, a, b) \/ Lt(s, b, a)
<1>1. Equal(a, a)
  BY DEF Equal
<1>2. ~Lt(s, a, a)
  BY <1>1, LtIs, BeatsOrders, TieOrders
<1>3. ASSUME a # b PROVE Lt(s, a, b) \/ Lt(s, b, a)
  <2>1. CASE Beats(a, b) \/ Beats(b, a)
    BY <2>1, LtIs
  <2>2. CASE Equal(a, b)
    BY <1>3, <2>2, LtIs, TieOrders, BeatsOrders
  <2>3. QED
    BY <2>1, <2>2, BeatsOrders
<1>4. QED
  BY <1>2, <1>3

LEMMA LtChains ==
    ASSUME NEW s \in Ordering, NEW a \in Token, NEW b \in Token, NEW c \in Token,
           Parses(s, a), Parses(s, b), Parses(s, c), Lt(s, a, b), Lt(s, b, c)
    PROVE  Lt(s, a, c)
<1>1. /\ Beats(b, a) \/ (Equal(a, b) /\ Tie(s, a, b))
      /\ Beats(c, b) \/ (Equal(b, c) /\ Tie(s, b, c))
  BY LtIs
<1>2. /\ Equal(a, b) => Equal(b, a)
      /\ Equal(b, c) => Equal(c, b)
      /\ Equal(c, b) => Equal(b, c)
  BY BeatsOrders
<1>3. /\ Beats(c, b) /\ Beats(b, a) => Beats(c, a)
      /\ Beats(c, b) /\ Equal(b, a) => Beats(c, a)
      /\ Equal(c, b) /\ Beats(b, a) => Beats(c, a)
  BY BeatsChains
<1>4. Equal(a, b) /\ Equal(b, c) => Equal(a, c)
  BY BeatsChains
<1>5. Equal(a, b) /\ Equal(b, c) /\ Tie(s, a, b) /\ Tie(s, b, c) => Tie(s, a, c)
  BY TieChains
<1>6. Beats(c, a) \/ (Equal(a, c) /\ Tie(s, a, c))
  BY <1>1, <1>2, <1>3, <1>4, <1>5
<1>7. QED
  BY <1>6, LtIs

LEMMA OrderedTokens ==
    ASSUME NEW v \in Ordered
    PROVE  v.scheme \in Ordering /\ v.tok \in Token /\ Parses(v.scheme, v.tok)
BY TokensAssumption DEF Ordered, Candidates, Schemes, Ordering

\* Whatever versions there are, each scheme's order of them is strict, total and
\* transitive (Version, CalVer and MonotonicVersion.__lt__ with total_ordering).
THEOREM VersionsAreOrdered == VSSpec => []OrderIsTotal
<1>1. OrderIsTotal
  <2> SUFFICES ASSUME NEW v \in Ordered, NEW s, s = v.scheme,
                      NEW P, P = {u.tok : u \in {w \in Ordered : w.scheme = s}}
               PROVE  LET Before == {t \in P : Lt(s, t, v.tok)}
                          After == {t \in P : Lt(s, v.tok, t)}
                      IN  /\ Before \cup After = P \ {v.tok}
                          /\ Before \cap After = {}
                          /\ \A a \in Before, b \in After : Lt(s, a, b)
    BY DEF OrderIsTotal
  <2>1. s \in Ordering /\ v.tok \in Token /\ Parses(s, v.tok)
    BY OrderedTokens
  <2>2. \A t \in P : t \in Token /\ Parses(s, t)
    BY OrderedTokens
  <2>3. \A t \in P : /\ ~Lt(s, t, t)
                     /\ ~Lt(s, v.tok, v.tok)
                     /\ t # v.tok => Lt(s, t, v.tok) \/ Lt(s, v.tok, t)
    BY <2>1, <2>2, LtOrders
  <2>4. \A t \in P : ~(Lt(s, t, v.tok) /\ Lt(s, v.tok, t))
    BY <2>1, <2>2, <2>3, LtChains
  <2>5. \A a \in P, b \in P : Lt(s, a, v.tok) /\ Lt(s, v.tok, b) => Lt(s, a, b)
    BY <2>1, <2>2, LtChains
  <2>6. QED
    BY <2>3, <2>4, <2>5, Zenon
<1>2. QED
  BY <1>1, PTL

-----------------------------------------------------------------------------
(* Groups.                                                                 *)

\* Two values compare at the first three places, at least as far as the third.
LEMMA NotBeaten ==
    ASSUME NEW a \in Token, NEW b \in Token, ~Beats(a, b)
    PROVE  /\ Number(a, 1) <= Number(b, 1)
           /\ Number(a, 1) = Number(b, 1) => Number(a, 2) <= Number(b, 2)
           /\ Number(a, 1) = Number(b, 1) /\ Number(a, 2) = Number(b, 2)
                => Number(a, 3) <= Number(b, 3)
<1>1. 1 \in Place /\ 2 \in Place /\ 3 \in Place
  BY DEF Place
<1>2. \A i \in {1, 2, 3} : Number(a, i) \in Nat /\ Number(b, i) \in Nat
  BY <1>1, NumberIsNat
<1>3. /\ Agree(a, b, 1 - 1)
      /\ Number(a, 1) = Number(b, 1) => Agree(a, b, 2 - 1)
      /\ Number(a, 1) = Number(b, 1) /\ Number(a, 2) = Number(b, 2) => Agree(a, b, 3 - 1)
  BY DEF Agree
<1>4. /\ ~(Number(a, 1) > Number(b, 1) /\ Agree(a, b, 1 - 1))
      /\ ~(Number(a, 2) > Number(b, 2) /\ Agree(a, b, 2 - 1))
      /\ ~(Number(a, 3) > Number(b, 3) /\ Agree(a, b, 3 - 1))
  BY <1>1 DEF Beats
<1>5. QED
  BY <1>2, <1>3, <1>4

LEMMA LeIsNotBeaten ==
    ASSUME NEW s \in Ordering, NEW a \in Token, NEW b \in Token, Parses(s, a), Parses(s, b),
           Le(s, a, b)
    PROVE  ~Beats(a, b)
<1>1. CASE a = b
  BY <1>1, BeatsOrders
<1>2. CASE Lt(s, a, b)
  BY <1>2, LtIs, BeatsOrders
<1>3. QED
  BY <1>1, <1>2 DEF Le

\* The place that decides a version's group: its first number that is not 0, the
\* third at the latest.
CaretPlace(t) ==
    IF Number(t, 1) > 0 THEN 1 ELSE IF Number(t, 2) > 0 THEN 2 ELSE 3

LEMMA SameSemVerGroup ==
    ASSUME NEW a \in Token, NEW b \in Token
    PROVE  SemVerGroup(a) = SemVerGroup(b) <=> Agree(a, b, CaretPlace(a))
<1>1. 1 \in Place /\ 2 \in Place /\ 3 \in Place
  BY DEF Place
<1>2. \A i \in {1, 2, 3} : Number(a, i) \in Nat /\ Number(b, i) \in Nat
  BY <1>1, NumberIsNat
<1>3. \A i \in {1, 2, 3} : Numbers(a, 3)[i] = Number(a, i) /\ Numbers(b, 3)[i] = Number(b, i)
  BY DEF Numbers
<1>4. /\ Agree(a, b, 1) <=> Number(a, 1) = Number(b, 1)
      /\ Agree(a, b, 2) <=> Number(a, 1) = Number(b, 1) /\ Number(a, 2) = Number(b, 2)
      /\ Agree(a, b, 3) <=> /\ Number(a, 1) = Number(b, 1) /\ Number(a, 2) = Number(b, 2)
                            /\ Number(a, 3) = Number(b, 3)
  BY DEF Agree
<1>5. ASSUME NEW t, t \in {a, b}
      PROVE  SemVerGroup(t) = IF Number(t, 1) > 0 THEN <<"semver", Number(t, 1)>>
                              ELSE IF Number(t, 2) > 0 THEN <<"semver", 0, Number(t, 2)>>
                              ELSE <<"semver", 0, 0, Number(t, 3)>>
  BY <1>2, <1>3, <1>5 DEF SemVerGroup
<1>6. \A x, y : /\ <<"semver", x>> = <<"semver", y>> <=> x = y
                /\ <<"semver", 0, x>> = <<"semver", 0, y>> <=> x = y
                /\ <<"semver", 0, 0, x>> = <<"semver", 0, 0, y>> <=> x = y
  OBVIOUS
<1>7. \A x, y : /\ <<"semver", x>> # <<"semver", 0, y>>
                /\ <<"semver", x>> # <<"semver", 0, 0, y>>
                /\ <<"semver", 0, x>> # <<"semver", 0, 0, y>>
  OBVIOUS
<1>8. QED
  BY <1>2, <1>4, <1>5, <1>6, <1>7 DEF CaretPlace

LEMMA SameGroup ==
    ASSUME NEW s \in Ordering, NEW a \in Token, NEW b \in Token, Parses(s, a), Parses(s, b)
    PROVE  CompatibilityGroup([scheme |-> s, tok |-> a])
                = CompatibilityGroup([scheme |-> s, tok |-> b])
           <=> CASE s = "semver" -> Agree(a, b, CaretPlace(a))
                 [] s = "calver" -> Agree(a, b, 1)
                 [] s = "monotonic" -> TRUE
<1> DEFINE v == [scheme |-> s, tok |-> a]
           w == [scheme |-> s, tok |-> b]
<1>1. v.scheme = s /\ v.tok = a /\ w.scheme = s /\ w.tok = b
  OBVIOUS
<1> HIDE DEF v, w
<1>2. CASE s = "semver"
  <2>1. CompatibilityGroup(v) = SemVerGroup(a) /\ CompatibilityGroup(w) = SemVerGroup(b)
    BY <1>1, <1>2 DEF CompatibilityGroup
  <2>2. QED
    BY <1>2, <2>1, SameSemVerGroup DEF v, w
<1>3. CASE s = "calver"
  <2>1. /\ CompatibilityGroup(v) = <<"calver", a.nums[1].n>>
        /\ CompatibilityGroup(w) = <<"calver", b.nums[1].n>>
    BY <1>1, <1>3 DEF CompatibilityGroup
  <2>2. Len(a.nums) >= 1 /\ Len(b.nums) >= 1
    <3>1. a.nums # <<>> /\ b.nums # <<>>
      BY <1>3 DEF Parses, IsCalVer
    <3>2. QED
      BY <3>1, TokenParts, EmptySeq
  <2>3. Number(a, 1) = a.nums[1].n /\ Number(b, 1) = b.nums[1].n
    BY <2>2 DEF Number
  <2>4. Agree(a, b, 1) <=> Number(a, 1) = Number(b, 1)
    BY DEF Agree
  <2>5. CompatibilityGroup(v) = CompatibilityGroup(w) <=> Agree(a, b, 1)
    BY <2>1, <2>3, <2>4
  <2>6. QED
    BY <1>3, <2>5 DEF v, w
<1>4. CASE s = "monotonic"
  BY <1>1, <1>4 DEF CompatibilityGroup, v, w
<1>5. QED
  BY <1>2, <1>3, <1>4 DEF Ordering

\* A group has no gaps: what resolver.py takes for newer within a package is never of
\* a lower group, as MajorAssumption has it (compatibility_group).
THEOREM GroupsHaveNoGaps == VSSpec => []GroupsAreIntervals
<1>1. ASSUME NEW s \in Ordering, NEW a \in Token, NEW b \in Token, NEW c \in Token,
             Parses(s, a), Parses(s, b), Parses(s, c), Le(s, a, b), Le(s, b, c),
             CompatibilityGroup([scheme |-> s, tok |-> a])
                = CompatibilityGroup([scheme |-> s, tok |-> c])
      PROVE  CompatibilityGroup([scheme |-> s, tok |-> b])
                = CompatibilityGroup([scheme |-> s, tok |-> a])
  <2>1. 1 \in Place /\ 2 \in Place /\ 3 \in Place
    BY DEF Place
  <2>2. \A i \in {1, 2, 3} : Number(a, i) \in Nat /\ Number(b, i) \in Nat /\ Number(c, i) \in Nat
    BY <2>1, NumberIsNat
  <2>3. ~Beats(a, b) /\ ~Beats(b, c)
    BY <1>1, LeIsNotBeaten
  <2>4. /\ Number(a, 1) <= Number(b, 1)
        /\ Number(a, 1) = Number(b, 1) => Number(a, 2) <= Number(b, 2)
        /\ Number(a, 1) = Number(b, 1) /\ Number(a, 2) = Number(b, 2)
             => Number(a, 3) <= Number(b, 3)
    BY <2>3, NotBeaten
  <2>5. /\ Number(b, 1) <= Number(c, 1)
        /\ Number(b, 1) = Number(c, 1) => Number(b, 2) <= Number(c, 2)
        /\ Number(b, 1) = Number(c, 1) /\ Number(b, 2) = Number(c, 2)
             => Number(b, 3) <= Number(c, 3)
    BY <2>3, NotBeaten
  <2>6. \A k \in {1, 2, 3} : Agree(a, c, k) => Agree(a, b, k)
    <3>1. \A x, y : /\ Agree(x, y, 1) <=> Number(x, 1) = Number(y, 1)
                    /\ Agree(x, y, 2) <=> Number(x, 1) = Number(y, 1) /\ Number(x, 2) = Number(y, 2)
                    /\ Agree(x, y, 3) <=> /\ Number(x, 1) = Number(y, 1)
                                          /\ Number(x, 2) = Number(y, 2)
                                          /\ Number(x, 3) = Number(y, 3)
      BY DEF Agree
    <3>2. QED
      BY <2>2, <2>4, <2>5, <3>1
  <2>7. CaretPlace(a) \in {1, 2, 3}
    BY DEF CaretPlace
  <2>8. CASE s = "semver"
    <3>1. Agree(a, c, CaretPlace(a))
      BY <1>1, <2>8, SameGroup
    <3>2. Agree(a, b, CaretPlace(a))
      BY <2>6, <2>7, <3>1
    <3>3. QED
      BY <1>1, <2>8, <3>2, SameGroup
  <2>9. CASE s = "calver"
    <3>1. Agree(a, b, 1)
      BY <1>1, <2>6, <2>9, SameGroup
    <3>2. QED
      BY <1>1, <2>9, <3>1, SameGroup
  <2>10. CASE s = "monotonic"
    BY <1>1, <2>10, SameGroup
  <2>11. QED
    BY <2>8, <2>9, <2>10 DEF Ordering
<1>2. GroupsAreIntervals
  <2> SUFFICES ASSUME NEW v \in Ordered, NEW w \in Ordered, NEW u \in Ordered,
                      v.scheme = w.scheme, CompatibilityGroup(v) = CompatibilityGroup(w),
                      u.scheme = v.scheme, Le(v.scheme, v.tok, u.tok), Le(v.scheme, u.tok, w.tok)
               PROVE  CompatibilityGroup(u) = CompatibilityGroup(v)
    BY DEF GroupsAreIntervals
  <2>1. \A x \in {u, v, w} : /\ x = [scheme |-> v.scheme, tok |-> x.tok]
                             /\ x.tok \in Token /\ Parses(v.scheme, x.tok)
    BY OrderedTokens DEF Ordered, Candidates
  <2>2. v.scheme \in Ordering
    BY OrderedTokens
  <2>3. QED
    BY <1>1, <2>1, <2>2
<1>3. QED
  BY <1>2, PTL

-----------------------------------------------------------------------------
(* What a constraint admits.                                               *)

AdmittedOK ==
    /\ constraint = <<>> \/ constraint \in Constraints
    /\ admitted = Admitted(constraint)

LEMMA AdmittedHolds == VSSpec => []AdmittedOK
<1>1. VSInit => AdmittedOK
  BY DEF VSInit, AdmittedOK
<1>2. AdmittedOK /\ [Parse]_vsVars => AdmittedOK'
  <2>1. ASSUME AdmittedOK, Parse PROVE AdmittedOK'
    BY <2>1 DEF AdmittedOK, Parse
  <2>2. ASSUME AdmittedOK, UNCHANGED vsVars PROVE AdmittedOK'
    BY <2>2 DEF AdmittedOK, vsVars
  <2>3. QED
    BY <2>1, <2>2
<1>3. QED
  BY <1>1, <1>2, PTL DEF VSSpec

LEMMA ClauseParts ==
    ASSUME AdmittedOK, NEW k \in Clauses(constraint)
    PROVE  k.op \in Ops /\ k.tok \in Token
<1> PICK K : K = [op : Ops, tok : Token]
  OBVIOUS
<1>1. constraint # <<>>
  BY DEF Clauses
<1>2. constraint \in Seq(K)
  BY <1>1, ConstraintsAssumption DEF AdmittedOK
<1>3. DOMAIN constraint = 1..Len(constraint)
  BY <1>2, LenProperties
<1>4. PICK i \in 1..Len(constraint) : k = constraint[i]
  BY <1>3 DEF Clauses
<1>5. k \in K
  BY <1>2, <1>4, ElementOfSeq
<1>6. QED
  BY <1>5

\* A bound is a token: its numbers are those it was made of, written plainly.
LEMMA PlainIsToken ==
    ASSUME NEW nums \in Seq(Nat)
    PROVE  /\ Plain(nums) \in Token
           /\ Plain(nums).word = 0 /\ Plain(nums).pre = <<>>
           /\ Len(Plain(nums).nums) = Len(nums)
           /\ \A i \in Place : Number(Plain(nums), i) = IF i <= Len(nums) THEN nums[i] ELSE 0
           /\ \A i \in 1..Len(nums) : Plain(nums).nums[i].zeros = 0
<1> DEFINE x == [i \in DOMAIN nums |-> Written(nums[i])]
<1>1. DOMAIN nums = 1..Len(nums) /\ Len(nums) \in Nat /\ \A i \in 1..Len(nums) : nums[i] \in Nat
  BY LenProperties, ElementOfSeq
<1>2. \A i \in 1..Len(nums) : Written(nums[i]) \in Digits
  BY <1>1 DEF Written, Digits
<1>3. x \in [1..Len(nums) -> Digits]
  BY <1>1, <1>2
<1>4. x \in Seq(Digits)
  BY <1>1, <1>3, SeqDef
<1>5. Len(x) = Len(nums)
  BY <1>1, <1>3, <1>4, LenProperties
<1>6. \A i \in 1..Len(nums) : x[i].n = nums[i] /\ x[i].zeros = 0
  BY <1>1 DEF Written
<1>7. Plain(nums) = [word |-> 0, nums |-> x, pre |-> <<>>]
  BY DEF Plain
<1> HIDE DEF x
<1>8. Plain(nums) \in Token
  <2>1. <<>> \in Seq(Identifier)
    BY EmptySeq
  <2>2. QED
    BY <1>4, <1>7, <2>1 DEF Token, Digits, Identifier
<1>9. \A i \in Place : Number(Plain(nums), i) = IF i <= Len(nums) THEN nums[i] ELSE 0
  BY <1>1, <1>5, <1>6, <1>7 DEF Number, Place
<1>10. QED
  BY <1>5, <1>6, <1>7, <1>8, <1>9

\* u is t with its number at place k one up and what follows cut off.
Bumps(u, t, k) ==
    /\ u \in Token /\ u.pre = <<>>
    /\ \A i \in Place : Number(u, i) = IF i < k THEN Number(t, i)
                                       ELSE IF i = k THEN Number(t, k) + 1
                                       ELSE 0

\* From t up to such a bound is where the first k numbers are those of t.
LEMMA BumpIsAgreement ==
    ASSUME NEW t \in Token, NEW c \in Token, NEW k \in Place, NEW u \in Token, Bumps(u, t, k),
           ~Beats(t, c)
    PROVE  /\ Beats(u, c) <=> Agree(t, c, k)
           /\ ~Equal(t, u)
<1>1. \A i \in Place : /\ Number(t, i) \in Nat /\ Number(c, i) \in Nat
                       /\ Number(u, i) = IF i < k THEN Number(t, i)
                                         ELSE IF i = k THEN Number(t, k) + 1 ELSE 0
  BY NumberIsNat DEF Bumps
<1>2. ASSUME Agree(t, c, k) PROVE Beats(u, c)
  <2>1. \A i \in 1..k : i \in Place /\ Number(t, i) = Number(c, i)
    BY <1>2 DEF Agree, Place
  <2>2. k \in 1..k
    BY DEF Place
  <2>3. Number(u, k) > Number(c, k)
    BY <1>1, <2>1, <2>2
  <2>4. Agree(u, c, k - 1)
    BY <1>1, <2>1 DEF Agree, Place
  <2>5. QED
    BY <2>3, <2>4 DEF Beats
<1>3. ASSUME Beats(u, c) PROVE Agree(t, c, k)
  <2>1. PICK j \in Place : Number(u, j) > Number(c, j) /\ Agree(u, c, j - 1)
    BY <1>3 DEF Beats
  <2>2. \A i \in Place : i < j => Number(u, i) = Number(c, i)
    BY <2>1 DEF Agree, Place
  <2>3. j <= k
    BY <1>1, <2>1 DEF Place
  <2>4. \A i \in Place : i < j => Number(t, i) = Number(c, i)
    BY <1>1, <2>2, <2>3 DEF Place
  <2>5. Agree(t, c, j - 1)
    BY <2>4 DEF Agree, Place
  <2>6. ~(Number(t, j) > Number(c, j))
    BY <2>5 DEF Beats
  <2>7. j = k /\ Number(t, k) = Number(c, k)
    BY <1>1, <2>1, <2>3, <2>6 DEF Place
  <2>8. QED
    BY <2>4, <2>7 DEF Agree, Place
<1>4. ~Equal(t, u)
  BY <1>1 DEF Equal, Place
<1>5. QED
  BY <1>2, <1>3, <1>4

LEMMA CaretUpperBumps ==
    ASSUME NEW t \in Token, IsSemVer(t)
    PROVE  Bumps(CaretUpper(t), t, CaretPlace(t)) /\ IsSemVer(CaretUpper(t))
<1>1. 1 \in Place /\ 2 \in Place /\ 3 \in Place
  BY DEF Place
<1>2. Number(t, 1) \in Nat /\ Number(t, 2) \in Nat /\ Number(t, 3) \in Nat
  BY <1>1, NumberIsNat
<1>3. Numbers(t, 3)[1] = Number(t, 1) /\ Numbers(t, 3)[2] = Number(t, 2)
      /\ Numbers(t, 3)[3] = Number(t, 3)
  BY DEF Numbers
<1> DEFINE s == IF Number(t, 1) > 0 THEN <<Number(t, 1) + 1, 0, 0>>
                ELSE IF Number(t, 2) > 0 THEN <<0, Number(t, 2) + 1, 0>>
                ELSE <<0, 0, Number(t, 3) + 1>>
<1>4. CaretUpper(t) = Plain(s)
  BY <1>2, <1>3 DEF CaretUpper
<1>5. s \in Seq(Nat) /\ Len(s) = 3
  BY <1>2
<1>6. \A i \in {1, 2, 3} : s[i] = IF i < CaretPlace(t) THEN Number(t, i)
                                  ELSE IF i = CaretPlace(t) THEN Number(t, i) + 1 ELSE 0
  BY <1>2 DEF CaretPlace
<1> HIDE DEF s
<1>7. /\ Plain(s) \in Token /\ Plain(s).pre = <<>> /\ Plain(s).word = 0
      /\ Len(Plain(s).nums) = 3
      /\ \A i \in Place : Number(Plain(s), i) = IF i <= 3 THEN s[i] ELSE 0
      /\ \A i \in 1..3 : Plain(s).nums[i].zeros = 0
  BY <1>5, PlainIsToken
<1>8. \A i \in Place : i <= 3 => i \in {1, 2, 3}
  BY DEF Place
<1>9. CaretPlace(t) \in {1, 2, 3}
  BY DEF CaretPlace
<1>10. \A i \in Place : Number(Plain(s), i)
            = IF i < CaretPlace(t) THEN Number(t, i)
              ELSE IF i = CaretPlace(t) THEN Number(t, CaretPlace(t)) + 1 ELSE 0
  BY <1>6, <1>7, <1>8, <1>9 DEF Place
<1>11. QED
  BY <1>4, <1>7, <1>10 DEF Bumps, IsSemVer

LEMMA TildeUpperBumps ==
    ASSUME NEW t \in Token, IsSemVer(t)
    PROVE  Bumps(TildeUpper(t), t, 2) /\ IsSemVer(TildeUpper(t))
<1>1. 1 \in Place /\ 2 \in Place /\ 3 \in Place
  BY DEF Place
<1>2. Len(t.nums) = 3
  BY DEF IsSemVer
<1>3. t.nums[1].n = Number(t, 1) /\ t.nums[2].n = Number(t, 2)
  BY <1>2 DEF Number
<1>4. Number(t, 1) \in Nat /\ Number(t, 2) \in Nat
  BY <1>1, NumberIsNat
<1> DEFINE s == <<Number(t, 1), Number(t, 2) + 1, 0>>
<1>5. TildeUpper(t) = Plain(s)
  BY <1>3 DEF TildeUpper
<1>6. s \in Seq(Nat) /\ Len(s) = 3 /\ s[1] = Number(t, 1) /\ s[2] = Number(t, 2) + 1 /\ s[3] = 0
  BY <1>4
<1> HIDE DEF s
<1>7. /\ Plain(s) \in Token /\ Plain(s).pre = <<>> /\ Plain(s).word = 0
      /\ Len(Plain(s).nums) = 3
      /\ \A i \in Place : Number(Plain(s), i) = IF i <= 3 THEN s[i] ELSE 0
      /\ \A i \in 1..3 : Plain(s).nums[i].zeros = 0
  BY <1>6, PlainIsToken
<1>8. \A i \in Place : Number(Plain(s), i)
            = IF i < 2 THEN Number(t, i) ELSE IF i = 2 THEN Number(t, 2) + 1 ELSE 0
  BY <1>6, <1>7 DEF Place
<1>9. QED
  BY <1>5, <1>7, <1>8 DEF Bumps, IsSemVer

LEMMA CalVerCaretUpperBumps ==
    ASSUME NEW t \in Token, IsCalVer(t)
    PROVE  Bumps(CalVerCaretUpper(t), t, 1) /\ IsCalVer(CalVerCaretUpper(t))
<1>1. Len(t.nums) \in Nat /\ Len(t.nums) >= 1
  BY TokenParts, EmptySeq DEF IsCalVer
<1>2. t.nums[1].n = Number(t, 1) /\ Number(t, 1) \in Nat
  BY <1>1, NumberIsNat DEF Number, Place
<1> DEFINE s == <<Number(t, 1) + 1>>
<1>3. CalVerCaretUpper(t) = Plain(s)
  BY <1>2 DEF CalVerCaretUpper
<1>4. s \in Seq(Nat) /\ Len(s) = 1 /\ s[1] = Number(t, 1) + 1
  BY <1>2
<1> HIDE DEF s
<1>5. /\ Plain(s) \in Token /\ Plain(s).pre = <<>> /\ Plain(s).word = 0
      /\ Len(Plain(s).nums) = 1
      /\ \A i \in Place : Number(Plain(s), i) = IF i <= 1 THEN s[i] ELSE 0
  BY <1>4, PlainIsToken
<1>6. \A i \in Place : Number(Plain(s), i)
            = IF i < 1 THEN Number(t, i) ELSE IF i = 1 THEN Number(t, 1) + 1 ELSE 0
  BY <1>4, <1>5 DEF Place
<1>7. Plain(s).nums # <<>>
  BY <1>5, EmptySeq
<1>8. QED
  BY <1>3, <1>5, <1>6, <1>7 DEF Bumps, IsCalVer

LEMMA CalVerTildeUpperBumps ==
    ASSUME NEW t \in Token, IsCalVer(t)
    PROVE  Bumps(CalVerTildeUpper(t), t, Len(t.nums)) /\ IsCalVer(CalVerTildeUpper(t))
<1> DEFINE m == Len(t.nums)
           x == Numbers(t, m)
           s == [x EXCEPT ![m] = @ + 1]
<1>1. m \in Nat /\ m >= 1
  BY TokenParts, EmptySeq DEF IsCalVer
<1>2. m \in Place
  BY <1>1 DEF Place
<1>3. x = [i \in 1..m |-> Number(t, i)] /\ x \in Seq(Nat) /\ Len(x) = m
  <2> HIDE DEF m
  <2>1. x = [i \in 1..m |-> Number(t, i)]
    BY DEF Numbers
  <2>2. QED
    BY <1>1, <2>1, NumbersAreNats
<1>4. \A i \in 1..m : Number(t, i) \in Nat
  BY NumberIsNat DEF Place
<1>5. CalVerTildeUpper(t) = Plain(s)
  BY <1>3 DEF CalVerTildeUpper
<1> HIDE DEF m, x
<1>6. /\ s \in [1..m -> Nat]
      /\ \A i \in 1..m : s[i] = IF i = m THEN Number(t, i) + 1 ELSE Number(t, i)
  BY <1>1, <1>3, <1>4
<1> HIDE DEF s
<1>7. s \in Seq(Nat) /\ Len(s) = m
  <2>1. s \in Seq(Nat)
    BY <1>1, <1>6, SeqDef
  <2>2. QED
    BY <1>1, <1>6, <2>1, LenProperties
<1>8. /\ Plain(s) \in Token /\ Plain(s).pre = <<>> /\ Plain(s).word = 0
      /\ Len(Plain(s).nums) = m
      /\ \A i \in Place : Number(Plain(s), i) = IF i <= m THEN s[i] ELSE 0
  BY <1>7, PlainIsToken
<1>9. \A i \in Place : Number(Plain(s), i)
            = IF i < m THEN Number(t, i) ELSE IF i = m THEN Number(t, m) + 1 ELSE 0
  BY <1>1, <1>6, <1>8 DEF Place
<1>10. Plain(s).nums # <<>>
  BY <1>1, <1>8, EmptySeq
<1>11. QED
  BY <1>5, <1>8, <1>9, <1>10 DEF Bumps, IsCalVer, m

\* What v being meant, of scheme s, says of the constraint.
LEMMA MeantParts ==
    ASSUME AdmittedOK, NEW s \in Ordering, NEW v \in Meant(s)
    PROVE  /\ v.scheme = s /\ v.tok \in Token /\ Parses(s, v.tok) /\ v \in Candidates
           /\ Reading(constraint) = (IF s = "semver" THEN "semver" ELSE "ordered")
           /\ \A k \in Clauses(constraint) :
                /\ k.op \in Ops /\ k.tok \in Token /\ Parses(s, k.tok)
                /\ s = "calver" => ~OddlySpelled(k.op, k.tok, v.tok)
<1>1. /\ Reading(constraint) = (IF s = "semver" THEN "semver" ELSE "ordered")
      /\ \A k \in Clauses(constraint) : Parses(s, k.tok)
      /\ v \in Candidates /\ v.scheme = s
      /\ s = "calver" => \A k \in Clauses(constraint) : ~OddlySpelled(k.op, k.tok, v.tok)
  BY DEF Meant
<1>2. v.tok \in Token /\ Parses(s, v.tok)
  BY <1>1, TokensAssumption DEF Candidates
<1>3. QED
  BY <1>1, <1>2, ClauseParts

\* What an admitted version of each scheme is.
LEMMA AdmittedIs ==
    ASSUME AdmittedOK, NEW s \in Ordering, NEW v \in Meant(s)
    PROVE  v \in admitted <=>
             CASE s = "semver" ->
                    /\ v.tok.pre # <<>> => PrereleaseAllowed(constraint, v.tok)
                    /\ \A k \in Clauses(constraint) : SemVerClause(k.op, k.tok, v.tok)
               [] s = "calver" -> \A k \in Clauses(constraint) : CalVerClause(k.op, k.tok, v.tok)
               [] s = "monotonic" ->
                    \A k \in Clauses(constraint) : MonotonicClause(k.op, k.tok, v.tok)
<1>1. /\ v.scheme = s /\ v \in Candidates
      /\ Reading(constraint) = (IF s = "semver" THEN "semver" ELSE "ordered")
  BY MeantParts
<1>2. v \in admitted <=> Matches(constraint, v)
  BY <1>1 DEF AdmittedOK, Admitted
<1>3. CASE s = "semver"
  BY <1>1, <1>2, <1>3 DEF Matches
<1>4. CASE s = "calver"
  BY <1>1, <1>2, <1>4 DEF Matches
<1>5. CASE s = "monotonic"
  BY <1>1, <1>2, <1>5 DEF Matches
<1>6. QED
  BY <1>3, <1>4, <1>5 DEF Ordering

\* The upper bound of a SemVer range, for a candidate no lower than its operand.
LEMMA BelowSemVerBound ==
    ASSUME NEW t \in Token, NEW c \in Token, NEW u \in Token, NEW k \in Place,
           IsSemVer(t), IsSemVer(c), IsSemVer(u), Bumps(u, t, k), ~Beats(t, c)
    PROVE  /\ Agree(t, c, k) => Lt("semver", c, u)
           /\ Lt("semver", c, u) => Agree(t, c, k) \/ (c.pre # <<>> /\ ~Equal(t, c))
<1> PICK s \in Ordering : s = "semver"
  BY DEF Ordering
<1>1. Lt(s, c, u) <=> Beats(u, c) \/ (Equal(c, u) /\ Tie(s, c, u))
  BY LtIs DEF Parses
<1>2. (Beats(u, c) <=> Agree(t, c, k)) /\ ~Equal(t, u)
  BY BumpIsAgreement
<1>3. Tie(s, c, u) => c.pre # <<>>
  BY DEF Tie, PrereleaseLt
<1>4. Equal(t, c) /\ Equal(c, u) => Equal(t, u)
  BY BeatsChains
<1>5. QED
  BY <1>1, <1>2, <1>3, <1>4

LEMMA BelowCalVerBound ==
    ASSUME NEW t \in Token, NEW c \in Token, NEW u \in Token, NEW k \in Place,
           IsCalVer(t), IsCalVer(c), IsCalVer(u), Bumps(u, t, k), ~Beats(t, c),
           ~(SameValue(u, c) /\ u # c)
    PROVE  Lt("calver", c, u) <=> Agree(t, c, k)
<1> PICK s \in Ordering : s = "calver"
  BY DEF Ordering
<1>1. Lt(s, c, u) <=> Beats(u, c) \/ (Equal(c, u) /\ Tie(s, c, u))
  BY LtIs DEF Parses
<1>2. Beats(u, c) <=> Agree(t, c, k)
  BY BumpIsAgreement
<1>3. Equal(c, u) => u = c
  BY ExceedsIsBeats, BeatsOrders
<1>4. Equal(u, u)
  BY DEF Equal
<1>5. ~Tie(s, u, u)
  BY <1>4, TieOrders DEF Parses
<1>6. QED
  BY <1>1, <1>2, <1>3, <1>5

\* The caret of a dependency and the groups of the resolver agree, for all versions:
\* _caret_upper and _calver_caret_upper against compatibility_group.
THEOREM CaretsAreGroups == VSSpec => []CaretIsGroup
<1>1. ASSUME AdmittedOK, Len(constraint) = 1, constraint[1].op = "^",
             NEW t, t = constraint[1].tok, NEW s \in Ordering, NEW v \in Meant(s),
             NEW c, c = v.tok
      PROVE  LET same == CompatibilityGroup([scheme |-> s, tok |-> t]) = CompatibilityGroup(v)
             IN  /\ v \in admitted => same
                 /\ same /\ c.pre = <<>> /\ Le(s, t, c) => v \in admitted
  <2> DEFINE same == CompatibilityGroup([scheme |-> s, tok |-> t]) = CompatibilityGroup(v)
  <2>1. Clauses(constraint) = {constraint[1]}
    <3>1. constraint # <<>>
      <4>1. ASSUME constraint = <<>> PROVE FALSE
        BY <1>1, <4>1
      <4>2. QED
        BY <4>1
    <3>2. constraint \in Seq([op : Ops, tok : Token])
      BY <1>1, <3>1, ConstraintsAssumption DEF AdmittedOK
    <3>3. DOMAIN constraint = 1..1
      BY <1>1, <3>2, LenProperties
    <3>4. QED
      BY <3>3 DEF Clauses
  <2>2. /\ v.scheme = s /\ c \in Token /\ Parses(s, c) /\ v \in Candidates
        /\ t \in Token /\ Parses(s, t)
        /\ s = "calver" => ~OddlySpelled("^", t, c)
    BY <1>1, <2>1, MeantParts
  <2>3. v \in admitted <=>
          CASE s = "semver" ->
                 /\ c.pre # <<>> => PrereleaseAllowed(constraint, c)
                 /\ SemVerClause("^", t, c)
            [] s = "calver" -> CalVerClause("^", t, c)
            [] s = "monotonic" -> MonotonicClause("^", t, c)
    <3>1. v \in admitted <=>
             CASE s = "semver" ->
                    /\ c.pre # <<>> => PrereleaseAllowed(constraint, c)
                    /\ \A k \in Clauses(constraint) : SemVerClause(k.op, k.tok, c)
               [] s = "calver" -> \A k \in Clauses(constraint) : CalVerClause(k.op, k.tok, c)
               [] s = "monotonic" ->
                    \A k \in Clauses(constraint) : MonotonicClause(k.op, k.tok, c)
      BY <1>1, AdmittedIs
    <3>2. QED
      BY <1>1, <2>1, <3>1 DEF Ordering
  <2>4. v = [scheme |-> s, tok |-> c]
    BY <1>1, <2>2 DEF Candidates
  <2>5. same <=> CASE s = "semver" -> Agree(t, c, CaretPlace(t))
                   [] s = "calver" -> Agree(t, c, 1)
                   [] s = "monotonic" -> TRUE
    <3>1. CompatibilityGroup([scheme |-> s, tok |-> t])
            = CompatibilityGroup([scheme |-> s, tok |-> c])
          <=> CASE s = "semver" -> Agree(t, c, CaretPlace(t))
                [] s = "calver" -> Agree(t, c, 1)
                [] s = "monotonic" -> TRUE
      BY <2>2, SameGroup
    <3>2. same <=> CompatibilityGroup([scheme |-> s, tok |-> t])
                     = CompatibilityGroup([scheme |-> s, tok |-> c])
      BY <2>4, Zenon
    <3> HIDE DEF same
    <3>3. QED
      BY <3>1, <3>2, Zenon
  <2>6. Le(s, t, c) => ~Beats(t, c)
    BY <2>2, LeIsNotBeaten
  <2> HIDE DEF same
  <2>7. CASE s = "semver"
    <3> DEFINE u == CaretUpper(t)
    <3>1. IsSemVer(t) /\ IsSemVer(c) /\ IsSemVer(u) /\ Bumps(u, t, CaretPlace(t)) /\ u \in Token
      BY <2>2, <2>7, CaretUpperBumps DEF Parses, Bumps
    <3>2. CaretPlace(t) \in Place
      BY DEF CaretPlace, Place
    <3>3. SemVerClause("^", t, c) <=> Le("semver", t, c) /\ Lt("semver", c, u)
      BY DEF SemVerClause, Within
    <3> HIDE DEF u
    <3>4. ~Beats(t, c) =>
            /\ Agree(t, c, CaretPlace(t)) => Lt("semver", c, u)
            /\ Lt("semver", c, u) => Agree(t, c, CaretPlace(t)) \/ (c.pre # <<>> /\ ~Equal(t, c))
      BY <2>2, <3>1, <3>2, BelowSemVerBound
    <3>5. PrereleaseAllowed(constraint, c) => Equal(t, c)
      <4>1. PrereleaseAllowed(constraint, c) => Numbers(t, 3) = Numbers(c, 3)
        BY <1>1, <2>1 DEF PrereleaseAllowed
      <4>2. PICK w \in Nat : w = 3 /\ w >= Len(t.nums) /\ w >= Len(c.nums)
        BY <3>1 DEF IsSemVer
      <4>3. Numbers(t, w) = Numbers(c, w) => Equal(t, c)
        BY <2>2, <4>2, NumsLtIsBeats
      <4>4. QED
        BY <4>1, <4>2, <4>3
    <3>6. QED
      BY <2>3, <2>5, <2>6, <2>7, <3>3, <3>4, <3>5 DEF same
  <2>8. CASE s = "calver"
    <3> DEFINE u == CalVerCaretUpper(t)
    <3>1. IsCalVer(t) /\ IsCalVer(c) /\ IsCalVer(u) /\ Bumps(u, t, 1) /\ u \in Token
      BY <2>2, <2>8, CalVerCaretUpperBumps DEF Parses, Bumps
    <3>2. CalVerClause("^", t, c) <=> Le("calver", t, c) /\ Lt("calver", c, u)
      BY <3>1 DEF CalVerClause, Within
    <3>3. ~(SameValue(u, c) /\ u # c)
      BY <2>2, <2>8 DEF OddlySpelled
    <3> HIDE DEF u
    <3>4. PICK k \in Place : k = 1
      BY DEF Place
    <3>5. ~Beats(t, c) => (Lt("calver", c, u) <=> Agree(t, c, k))
      BY <2>2, <3>1, <3>3, <3>4, BelowCalVerBound
    <3>6. QED
      BY <2>3, <2>5, <2>6, <2>8, <3>2, <3>4, <3>5 DEF same
  <2>9. CASE s = "monotonic"
    <3>1. MonotonicClause("^", t, c) <=> Le("monotonic", t, c)
      BY <2>2, <2>9 DEF MonotonicClause, Compares, Parses
    <3>2. QED
      BY <2>3, <2>5, <2>9, <3>1 DEF same
  <2>10. QED
    BY <2>7, <2>8, <2>9 DEF Ordering, same
<1>2. AdmittedOK => CaretIsGroup
  BY <1>1 DEF CaretIsGroup, Ordering
<1>3. QED
  BY <1>2, AdmittedHolds, PTL

\* A clause of a SemVer constraint, for a stable candidate, by value.
LEMMA SemVerClauseIs ==
    ASSUME NEW op \in Ops, NEW t \in Token, NEW c \in Token, IsSemVer(t), IsSemVer(c),
           c.pre = <<>>
    PROVE  SemVerClause(op, t, c) <=> ByValue("semver", op, t, c)
<1> PICK s \in Ordering : s = "semver"
  BY DEF Ordering
<1>1. Parses(s, t) /\ Parses(s, c)
  BY DEF Parses
<1>2. /\ Lt(s, t, c) <=> Beats(c, t) \/ (Equal(t, c) /\ Tie(s, t, c))
      /\ Lt(s, c, t) <=> Beats(t, c) \/ (Equal(c, t) /\ Tie(s, c, t))
  BY <1>1, LtIs
<1>3. ~Tie(s, c, t) /\ (t.pre # <<>> => Tie(s, t, c)) /\ (t.pre = <<>> => ~Tie(s, t, c))
  BY DEF Tie, PrereleaseLt
<1>4. /\ ~(Beats(t, c) /\ Beats(c, t))
      /\ Beats(t, c) \/ Beats(c, t) \/ Equal(t, c)
      /\ ~(Beats(t, c) /\ Equal(t, c)) /\ ~(Beats(c, t) /\ Equal(t, c))
  BY BeatsOrders
<1>5. c = t <=> Equal(t, c) /\ t.pre = <<>>
  <2>1. c = t => Equal(t, c) /\ t.pre = <<>>
    BY DEF Equal
  <2>2. ASSUME Equal(t, c), t.pre = <<>> PROVE c = t
    BY <1>1, <2>2, EqualSemVers, EqualTokens
  <2>3. QED
    BY <2>1, <2>2
<1>6. (Exceeds(t, c) <=> Beats(t, c)) /\ (Exceeds(c, t) <=> Beats(c, t))
  BY ExceedsIsBeats
<1>7. Le(s, t, c) <=> ~Beats(t, c)
  BY <1>2, <1>3, <1>4, <1>5 DEF Le
<1>8. Le(s, c, t) <=> IF t.pre = <<>> THEN ~Beats(c, t) ELSE Beats(t, c)
  BY <1>2, <1>3, <1>4, <1>5 DEF Le
<1>9. CASE op \in {"=", ">", ">=", "<", "<="}
  <2>1. SemVerClause(op, t, c) <=> Compares("semver", op, c, t)
    BY <1>9 DEF SemVerClause
  <2>2. QED
    BY <1>2, <1>3, <1>4, <1>5, <1>6, <1>7, <1>8, <1>9, <2>1 DEF Compares, ByValue
<1>10. CASE op = "~"
  <2> DEFINE u == TildeUpper(t)
  <2>1. IsSemVer(u) /\ Bumps(u, t, 2) /\ u \in Token
    BY TildeUpperBumps DEF Bumps
  <2>2. SemVerClause(op, t, c) <=> Le(s, t, c) /\ Lt(s, c, u)
    BY <1>10 DEF SemVerClause, Within
  <2> HIDE DEF u
  <2>3. PICK k \in Place : k = 2
    BY DEF Place
  <2>4. ~Beats(t, c) => (Lt("semver", c, u) <=> Agree(t, c, k))
    BY <2>1, <2>3, BelowSemVerBound
  <2>5. ByValue("semver", op, t, c) <=> ~Exceeds(t, c) /\ Agree(t, c, 2)
    BY <1>10 DEF ByValue
  <2>6. QED
    BY <1>6, <1>7, <2>2, <2>3, <2>4, <2>5
<1>11. CASE op \in {"", "^"}
  <2> DEFINE u == CaretUpper(t)
             k == CaretPlace(t)
  <2>1. IsSemVer(u) /\ Bumps(u, t, k) /\ u \in Token
    BY CaretUpperBumps DEF Bumps
  <2>2. SemVerClause(op, t, c) <=> Le(s, t, c) /\ Lt(s, c, u)
    BY <1>11 DEF SemVerClause, Within
  <2>3. k \in Place
    BY DEF CaretPlace, Place
  <2>4. Min({i \in 1..3 : i = 3 \/ t.nums[i].n > 0}) = k
    <3>1. /\ t.nums[1].n = Number(t, 1) /\ t.nums[2].n = Number(t, 2)
          /\ t.nums[3].n = Number(t, 3)
      BY DEF Number, IsSemVer
    <3> DEFINE S == {i \in 1..3 : i = 3 \/ t.nums[i].n > 0}
    <3>2. k \in S /\ \A i \in S : k <= i
      BY <3>1 DEF CaretPlace
    <3>3. S \subseteq Nat
      OBVIOUS
    <3> HIDE DEF S, k
    <3>4. Min(S) \in S /\ \A i \in S : Min(S) <= i
      BY <3>2 DEF Min
    <3>5. Min(S) = k
      <4> PICK m : m = Min(S)
        OBVIOUS
      <4>1. m \in S /\ m <= k
        BY <3>2, <3>4
      <4>2. k <= m /\ m \in Nat /\ k \in Nat
        BY <3>2, <3>3, <4>1
      <4>3. QED
        BY <4>1, <4>2
    <3>6. QED
      BY <3>5 DEF S
  <2> HIDE DEF u, k
  <2>5. ~Beats(t, c) => (Lt("semver", c, u) <=> Agree(t, c, k))
    BY <2>1, <2>3, BelowSemVerBound
  <2>6. ByValue("semver", op, t, c) <=> ~Exceeds(t, c) /\ Agree(t, c, k)
    BY <1>11, <2>4 DEF ByValue
  <2>7. QED
    BY <1>6, <1>7, <2>2, <2>5, <2>6
<1>12. QED
  BY <1>9, <1>10, <1>11 DEF Ops

LEMMA CalVerClauseIs ==
    ASSUME NEW op \in Ops, NEW t \in Token, NEW c \in Token, IsCalVer(t), IsCalVer(c),
           ~OddlySpelled(op, t, c)
    PROVE  CalVerClause(op, t, c) <=> ByValue("calver", op, t, c)
<1> PICK s \in Ordering : s = "calver"
  BY DEF Ordering
<1>1. Parses(s, t) /\ Parses(s, c) /\ t.pre = <<>>
  BY DEF Parses, IsCalVer
<1>2. /\ Lt(s, t, c) <=> Beats(c, t) \/ (Equal(t, c) /\ Tie(s, t, c))
      /\ Lt(s, c, t) <=> Beats(t, c) \/ (Equal(c, t) /\ Tie(s, c, t))
  BY <1>1, LtIs
<1>3. /\ ~(Beats(t, c) /\ Beats(c, t))
      /\ Beats(t, c) \/ Beats(c, t) \/ Equal(t, c)
      /\ ~(Beats(t, c) /\ Equal(t, c)) /\ ~(Beats(c, t) /\ Equal(t, c))
      /\ Equal(c, t) => Equal(t, c)
  BY BeatsOrders
<1>4. c = t <=> Equal(t, c)
  BY ExceedsIsBeats DEF OddlySpelled, Equal
<1>5. c = t => ~Tie(s, c, t) /\ ~Tie(s, t, c)
  BY <1>1, <1>4, TieOrders
<1>6. (Exceeds(t, c) <=> Beats(t, c)) /\ (Exceeds(c, t) <=> Beats(c, t))
  BY ExceedsIsBeats
<1>7. (Lt(s, t, c) <=> Beats(c, t)) /\ (Lt(s, c, t) <=> Beats(t, c))
  BY <1>2, <1>3, <1>4, <1>5
<1>8. (Le(s, t, c) <=> ~Beats(t, c)) /\ (Le(s, c, t) <=> ~Beats(c, t))
  BY <1>3, <1>4, <1>7 DEF Le
<1>9. CASE op \in {"=", ">", ">=", "<", "<="}
  <2>1. CalVerClause(op, t, c) <=> Compares("calver", op, c, t)
    BY <1>9 DEF CalVerClause
  <2>2. QED
    BY <1>1, <1>6, <1>7, <1>8, <1>9, <2>1 DEF Compares, ByValue
<1>10. CASE op = "~"
  <2> DEFINE u == CalVerTildeUpper(t)
             k == Len(t.nums)
  <2>1. IsCalVer(u) /\ Bumps(u, t, k) /\ u \in Token
    BY CalVerTildeUpperBumps DEF Bumps
  <2>2. CalVerClause(op, t, c) <=> Le(s, t, c) /\ Lt(s, c, u)
    BY <1>10 DEF CalVerClause, Within
  <2>3. k \in Place
    BY TokenParts, EmptySeq DEF Place, IsCalVer
  <2>4. ~(SameValue(u, c) /\ u # c)
    BY <1>10 DEF OddlySpelled
  <2>5. ByValue("calver", op, t, c) <=> ~Exceeds(t, c) /\ Agree(t, c, k)
    BY <1>10 DEF ByValue
  <2> HIDE DEF u, k
  <2>6. ~Beats(t, c) => (Lt("calver", c, u) <=> Agree(t, c, k))
    BY <2>1, <2>3, <2>4, BelowCalVerBound
  <2>7. QED
    BY <1>6, <1>8, <2>2, <2>5, <2>6
<1>11. CASE op \in {"", "^"}
  <2> DEFINE u == CalVerCaretUpper(t)
  <2>1. IsCalVer(u) /\ Bumps(u, t, 1) /\ u \in Token
    BY CalVerCaretUpperBumps DEF Bumps
  <2>2. CalVerClause(op, t, c) <=> Le(s, t, c) /\ Lt(s, c, u)
    BY <1>11 DEF CalVerClause, Within
  <2>3. PICK k \in Place : k = 1
    BY DEF Place
  <2>4. ~(SameValue(u, c) /\ u # c)
    BY <1>11 DEF OddlySpelled
  <2>5. ByValue("calver", op, t, c) <=> ~Exceeds(t, c) /\ Agree(t, c, k)
    BY <1>11, <2>3 DEF ByValue
  <2> HIDE DEF u
  <2>6. ~Beats(t, c) => (Lt("calver", c, u) <=> Agree(t, c, k))
    BY <2>1, <2>3, <2>4, BelowCalVerBound
  <2>7. QED
    BY <1>6, <1>8, <2>2, <2>5, <2>6
<1>12. QED
  BY <1>9, <1>10, <1>11 DEF Ops

\* A constraint admits, of all stable versions, those that its clauses' values say
\* (VersionConstraint.matches), with the calendar tilde read as its docstring has it.
THEOREM RangesAreByValue == VSSpec => []RangesByValue
<1>1. ASSUME AdmittedOK, NEW s \in {"semver", "calver"}, NEW v \in Meant(s), v.tok.pre = <<>>
      PROVE  v \in admitted <=>
                \A k \in Clauses(constraint) : ByValue(s, k.op, k.tok, v.tok)
  <2>1. s \in Ordering
    BY DEF Ordering
  <2>2. /\ v.tok \in Token /\ Parses(s, v.tok)
        /\ \A k \in Clauses(constraint) :
             /\ k.op \in Ops /\ k.tok \in Token /\ Parses(s, k.tok)
             /\ s = "calver" => ~OddlySpelled(k.op, k.tok, v.tok)
    BY <1>1, <2>1, MeantParts
  <2>3. CASE s = "semver"
    <3>1. v \in admitted <=> \A k \in Clauses(constraint) : SemVerClause(k.op, k.tok, v.tok)
      BY <1>1, <2>1, <2>3, AdmittedIs
    <3>2. \A k \in Clauses(constraint) :
            SemVerClause(k.op, k.tok, v.tok) <=> ByValue(s, k.op, k.tok, v.tok)
      BY <1>1, <2>2, <2>3, SemVerClauseIs DEF Parses
    <3>3. QED
      BY <3>1, <3>2, Zenon
  <2>4. CASE s = "calver"
    <3>1. v \in admitted <=> \A k \in Clauses(constraint) : CalVerClause(k.op, k.tok, v.tok)
      BY <1>1, <2>1, <2>4, AdmittedIs
    <3>2. \A k \in Clauses(constraint) :
            CalVerClause(k.op, k.tok, v.tok) <=> ByValue(s, k.op, k.tok, v.tok)
      BY <1>1, <2>2, <2>4, CalVerClauseIs DEF Parses
    <3>3. QED
      BY <3>1, <3>2, Zenon
  <2>5. QED
    BY <2>3, <2>4
<1>2. AdmittedOK => RangesByValue
  BY <1>1 DEF RangesByValue
<1>3. QED
  BY <1>2, AdmittedHolds, PTL
=============================================================================
