------------------------------ MODULE Resolver ------------------------------
(***************************************************************************)
(* Dependency resolution (resolver.py): a backtracking search over nodes,  *)
(* the conflict policy, and the walk that keeps what the root reaches.     *)
(*                                                                         *)
(* A version is a number, ordered as the scheme orders it.  A constraint   *)
(* is the set of versions it matches and the version it pins, if it is an  *)
(* exact pin; what it looks like as text is version.py's affair.  A node   *)
(* is a package with one of its compatibility groups.  The recursion of    *)
(* _solve is a stack of frames, one per call, so that each try and each    *)
(* retreat is a step.                                                      *)
(***************************************************************************)
EXTENDS Integers, Sequences, FiniteSets

CONSTANTS
    Refs,           \* packages, numbered in the order of their names
    Versions,       \* version numbers, greater is newer
    Major,          \* [Versions -> Nat]: compatibility group of a version
    Opaque,         \* packages on offer whose scheme is opaque
    Problems,       \* the problems posed; of each:
    IndexOf,        \*   per package, its versions and their dependencies
    RootOf,         \*   the root's dependencies
    PolicyOf        \*   the conflict policy in force

ASSUME RefsAssumption == Refs \subseteq Nat /\ IsFiniteSet(Refs)
ASSUME VersionsAssumption == Versions \subseteq Nat \ {0} /\ IsFiniteSet(Versions)
\* A group is an interval of the order: a newer version is never of a lower one.
ASSUME MajorAssumption ==
    /\ Major \in [Versions -> Nat \ {0}]
    /\ \A v, w \in Versions : v <= w => Major[v] <= Major[w]
\* A package without versions has no scheme of its own and counts as semver.
ASSUME OpaqueAssumption ==
    \A r \in Opaque : r \in Refs /\ \A p \in Problems : DOMAIN IndexOf[p][r] # {}

Policies == {"fail_on_conflict", "use_latest", "isolate_namespaces"}

\* The dependencies of a manifest: a constraint per package, which matches versions
\* and may pin one.  On an opaque package a pin matches no other version, and not
\* even its own when it is spelled as a SemVer version is.
NoPin == 0
Requirements == [match : SUBSET Versions, pin : Versions \cup {NoPin}]
IsManifest(deps) ==
    /\ DOMAIN deps \subseteq Refs
    /\ \A r \in DOMAIN deps :
        /\ deps[r] \in Requirements
        /\ r \in Opaque /\ deps[r].pin # NoPin => deps[r].match \subseteq {deps[r].pin}

ASSUME ProblemsAssumption ==
    \A p \in Problems :
        /\ IsManifest(RootOf[p])
        /\ PolicyOf[p] \in Policies
        /\ \A r \in Refs :
            /\ DOMAIN IndexOf[p][r] \subseteq Versions
            /\ \A v \in DOMAIN IndexOf[p][r] : IsManifest(IndexOf[p][r][v])

VARIABLES
    problem,    \* the problem at hand
    stack,      \* the calls of _solve under way
    solution,   \* the node assignment _solve returned
    kept,       \* per package, the versions the policy keeps
    queue,      \* dependency edges the walk has still to follow
    found,      \* <<package, version>> pairs the walk has reached
    outcome     \* "search", "walk", then how resolve() ended

vars == <<problem, stack, solution, kept, queue, found, outcome>>

index == IndexOf[problem]
root == RootOf[problem]
policy == PolicyOf[problem]
Available(r) == DOMAIN index[r]
Newest(S) == CHOOSE v \in S : \A w \in S : w <= v

-----------------------------------------------------------------------------
(* Nodes and clauses.                                                      *)

\* An opaque version is its own group.
Group(r, v) == IF r \in Opaque THEN v ELSE Major[v]
Missing == 0

\* Mutant of EdgeNode: the group of the newest version, matching or not.
EdgeNodeNewest(r, c) ==
    CASE r \in Opaque -> <<r, c.pin>>
      [] r \notin Opaque /\ Available(r) = {} -> <<r, Missing>>
      [] OTHER -> <<r, Group(r, Newest(Available(r)))>>

\* The node of one edge: the pinned version for an opaque package, else the
\* group of the newest version that matches (of the newest, if none does).
EdgeNode(r, c) ==
    LET matching == Available(r) \cap c.match
        pivot == IF matching # {} THEN Newest(matching) ELSE Newest(Available(r))
    IN  CASE r \in Opaque -> <<r, c.pin>>
          [] r \notin Opaque /\ Available(r) = {} -> <<r, Missing>>
          [] OTHER -> <<r, Group(r, pivot)>>

\* An opaque package must be pinned; anything else raises out of the search.
Unpinned(deps) == \E r \in DOMAIN deps \cap Opaque : deps[r].pin = NoPin

NodesOf(deps) == {EdgeNode(r, deps[r]) : r \in DOMAIN deps}
ClausesOn(n, deps) == {deps[r] : r \in {s \in DOMAIN deps : EdgeNode(s, deps[s]) = n}}

\* The clauses with those of one more manifest.
AddClauses(clauses, deps) ==
    [n \in DOMAIN clauses \cup NodesOf(deps) |->
        ClausesOn(n, deps) \cup (IF n \in DOMAIN clauses THEN clauses[n] ELSE {})]

\* Mutant of Clashes: later constraints on a decided node go unchecked.
ClashesNever(deps, chosen) == FALSE

\* A dependency is not met by the version already chosen for its node.
Clashes(deps, chosen) ==
    \E r \in DOMAIN deps :
        LET n == EdgeNode(r, deps[r])
        IN  n \in DOMAIN chosen /\ chosen[n] \notin deps[r].match

Pending(clauses, chosen) == DOMAIN clauses \ DOMAIN chosen
First(nodes) ==
    CHOOSE n \in nodes :
        \A m \in nodes : n[1] < m[1] \/ (n[1] = m[1] /\ n[2] <= m[2])

Viable(n, clauses) ==
    {v \in Available(n[1]) :
        Group(n[1], v) = n[2] /\ \A c \in clauses[n] : v \in c.match}

\* A call of _solve: the node it decides and the versions it has yet to try.
Frame(clauses, chosen) ==
    LET pending == Pending(clauses, chosen)
    IN  [clauses |-> clauses,
         chosen |-> chosen,
         untried |-> IF pending = {} THEN {} ELSE Viable(First(pending), clauses)]

Init ==
    /\ problem \in Problems
    /\ solution = <<>>
    /\ kept = [r \in Refs |-> {}]
    /\ queue = {}
    /\ found = {}
    /\ IF Unpinned(root)
       THEN stack = <<>> /\ outcome = "raised"
       ELSE stack = <<Frame(AddClauses(<<>>, root), <<>>)>> /\ outcome = "search"

-----------------------------------------------------------------------------
(* The search.                                                             *)

Top == stack[Len(stack)]
TopPending == Pending(Top.clauses, Top.chosen)
Decided == First(TopPending)
\* Mutant of Candidate: candidates are tried oldest first.
CandidateOldest == CHOOSE v \in Top.untried : \A w \in Top.untried : v <= w
Candidate == Newest(Top.untried)
CandidateDeps == index[Decided[1]][Candidate]
WithCandidate ==
    [n \in DOMAIN Top.chosen \cup {Decided} |->
        IF n = Decided THEN Candidate ELSE Top.chosen[n]]
Searching == outcome = "search" /\ TopPending # {}
\* Mutant of Tried: the first candidate is the only one.
TriedOnce == [stack EXCEPT ![Len(stack)].untried = {}]
Tried == [stack EXCEPT ![Len(stack)].untried = @ \ {Candidate}]

\* The newest untried version meets what is chosen so far: go one call deeper.
TryDescends ==
    /\ Searching /\ Top.untried # {}
    /\ ~Unpinned(CandidateDeps)
    /\ ~Clashes(CandidateDeps, WithCandidate)
    /\ stack' = Append(Tried, Frame(AddClauses(Top.clauses, CandidateDeps), WithCandidate))
    /\ UNCHANGED <<problem, solution, kept, queue, found, outcome>>

\* It needs another version of something already chosen: next candidate.
TryClashes ==
    /\ Searching /\ Top.untried # {}
    /\ Clashes(CandidateDeps, WithCandidate)
    /\ stack' = Tried
    /\ UNCHANGED <<problem, solution, kept, queue, found, outcome>>

\* It depends on an opaque package without a pin.  Whether the loop over its
\* dependencies meets that one or a clash first is the manifest's order.
TryRaises ==
    /\ Searching /\ Top.untried # {}
    /\ Unpinned(CandidateDeps)
    /\ outcome' = "raised"
    /\ UNCHANGED <<problem, stack, solution, kept, queue, found>>

\* No candidate is left: the call returns None, to the caller's next candidate.
Backtrack ==
    /\ Searching /\ Top.untried = {}
    /\ stack' = SubSeq(stack, 1, Len(stack) - 1)
    /\ outcome' = IF Len(stack) = 1 THEN "unsolvable" ELSE "search"
    /\ UNCHANGED <<problem, solution, kept, queue, found>>

-----------------------------------------------------------------------------
(* The policy and the walk.                                                *)

Assigned(r, sol) == {sol[n] : n \in {m \in DOMAIN sol : m[1] = r}}
Conflicted(sol) == {r \in Refs : Cardinality(Assigned(r, sol)) > 1}
EdgesOf(deps) == {<<r, deps[r]>> : r \in DOMAIN deps}

\* Every node is decided.  Two groups of one package are a conflict, which
\* fail_on_conflict refuses; use_latest keeps the newest, and the namespace
\* isolation keeps them all.
ApplyPolicy ==
    /\ outcome = "search"
    /\ TopPending = {}
    /\ solution' = Top.chosen
    /\ stack' = <<>>
    /\ IF policy = "fail_on_conflict" /\ Conflicted(Top.chosen) # {}
       THEN outcome' = "conflict" /\ UNCHANGED <<kept, queue>>
       ELSE /\ outcome' = "walk"
            /\ queue' = EdgesOf(root)
            /\ kept' = [r \in Refs |->
                  LET all == Assigned(r, Top.chosen)
                  IN  IF policy = "use_latest" /\ all # {}
                      THEN {Newest(all)} ELSE all]
    /\ UNCHANGED <<problem, found>>

\* Mutant of PickForEdge: the newest kept version, matching or not.
PickNewest(r, c) == Newest(kept[r])

\* The kept version an edge leads to: the newest that matches, else the newest.
PickForEdge(r, c) ==
    LET matching == kept[r] \cap c.match
    IN  Newest(IF matching # {} THEN matching ELSE kept[r])

\* Mutant of FollowEdge: an edge already followed is followed again.
FollowAgain ==
    /\ outcome = "walk"
    /\ \E edge \in queue :
        LET pick == PickForEdge(edge[1], edge[2])
        IN  /\ found' = found \cup {<<edge[1], pick>>}
            /\ queue' = (queue \ {edge}) \cup EdgesOf(index[edge[1]][pick])
    /\ UNCHANGED <<problem, stack, solution, kept, outcome>>

\* One round of the walk.  The code pops the last edge; the order is free here.
FollowEdge ==
    /\ outcome = "walk"
    /\ \E edge \in queue :
        LET pick == PickForEdge(edge[1], edge[2])
            new == <<edge[1], pick>> \notin found
        IN  /\ found' = found \cup {<<edge[1], pick>>}
            /\ queue' = (queue \ {edge})
                          \cup (IF new THEN EdgesOf(index[edge[1]][pick]) ELSE {})
    /\ UNCHANGED <<problem, stack, solution, kept, outcome>>

Resolved ==
    /\ outcome = "walk" /\ queue = {}
    /\ outcome' = "resolved"
    /\ UNCHANGED <<problem, stack, solution, kept, queue, found>>

Next ==
    \/ TryDescends \/ TryClashes \/ TryRaises \/ Backtrack
    \/ ApplyPolicy \/ FollowEdge \/ Resolved

Spec == Init /\ [][Next]_vars /\ WF_vars(Next)

-----------------------------------------------------------------------------
(* Properties.                                                             *)

Ended == {"raised", "unsolvable", "conflict", "resolved"}

TypeOK ==
    /\ problem \in Problems
    /\ outcome \in {"search", "walk"} \cup Ended
    /\ outcome = "search" => stack # <<>>
    /\ kept \in [Refs -> SUBSET Versions]
    /\ found \subseteq Refs \X Versions
    /\ DOMAIN solution \subseteq Refs \X Nat

\* The edges of the root and of a set of cores.
EdgesAsked(S) == EdgesOf(root) \cup UNION {EdgesOf(index[x[1]][x[2]]) : x \in S}
SelectedEdges == EdgesAsked(found)

\* What resolve() returns satisfies every edge of the root and of everything
\* returned, whatever was tried and undone on the way; under use_latest an
\* edge may be violated only on a package the warning names.
SelectionSatisfies ==
    outcome = "resolved" =>
        \A edge \in SelectedEdges :
            \/ \E v \in edge[2].match : <<edge[1], v>> \in found
            \/ policy = "use_latest" /\ edge[1] \in Conflicted(solution)

\* What "an assignment that satisfies all constraints" is, with no regard to how
\* the code searches: a set of cores on offer that has for each edge of the root
\* and of its own cores one that the edge matches.  Dependents of one group share
\* its version, and an opaque package must be pinned.
Offered == {x \in Refs \X Versions : x[2] \in Available(x[1])}
Fulfils(S) ==
    /\ \A x, y \in S : x[1] = y[1] /\ Group(x[1], x[2]) = Group(y[1], y[2]) => x = y
    /\ \A edge \in EdgesAsked(S) :
        /\ \E v \in edge[2].match : <<edge[1], v>> \in S
        /\ edge[1] \in Opaque => edge[2].pin # NoPin

\* All that S has for an edge is of another group than the newest version on
\* offer that the edge matches: its constraint reaches over more than one group.
Strays(edge, S) ==
    \A v \in edge[2].match : <<edge[1], v>> \in S =>
        Group(edge[1], v) # Group(edge[1], Newest(Available(edge[1]) \cap edge[2].match))

\* Backtracking gives up on nothing: every choice that would satisfy all
\* constraints has an edge to another group than that of its newest match.
FailsOnlyIfUnsolvable ==
    outcome = "unsolvable" =>
        \A S \in SUBSET Offered : Fulfils(S) => \E edge \in EdgesAsked(S) : Strays(edge, S)

\* resolver.py:98-99: "ResolutionError: if no assignment satisfies all
\* constraints".
FailureIsGenuine ==
    outcome = "unsolvable" => \A S \in SUBSET Offered : ~Fulfils(S)

\* The same in the terms of the search, of one node assignment: it meets every
\* constraint that it gives rise to, each on the constraint's own node.
Meets(deps, sol) ==
    \A r \in DOMAIN deps :
        LET n == EdgeNode(r, deps[r]) IN n \in DOMAIN sol /\ sol[n] \in deps[r].match
IsSolution(sol) ==
    /\ Meets(root, sol)
    /\ \A n \in DOMAIN sol :
        /\ sol[n] \in Available(n[1]) /\ Group(n[1], sol[n]) = n[2]
        /\ Meets(index[n[1]][sol[n]], sol)

\* "Newest first" survives backtracking: no single package of the assignment
\* could be at a newer version with everything else as it is.
NoNeedlesslyOldVersion ==
    outcome \in {"walk", "resolved", "conflict"} =>
        \A n \in DOMAIN solution :
            \A v \in {w \in Available(n[1]) : w > solution[n]} :
                ~IsSolution([solution EXCEPT ![n] = v])

\* With namespaces isolated, the walk takes each edge to the version the
\* search decided for that edge's own node, though it looks only at which
\* kept versions match.
WalkAgreesWithSearch ==
    outcome \in {"walk", "resolved"} /\ policy = "isolate_namespaces" =>
        \A edge \in SelectedEdges :
            PickForEdge(edge[1], edge[2]) = solution[EdgeNode(edge[1], edge[2])]

\* Nothing is returned that nothing selected needs: a use_latest collapse
\* leaves no orphan.
SelectionIsReached ==
    outcome = "resolved" =>
        \A x \in found :
            \E edge \in SelectedEdges : edge[1] = x[1] /\ PickForEdge(x[1], edge[2]) = x[2]

\* What resolve() returns is closed under needs and holds nothing else.
SelectionIsSolution == SelectionSatisfies /\ SelectionIsReached

\* Every problem, circular dependencies included, comes to an end.
Terminates == <>(outcome \in Ended)

\* resolver.py:258-259, the message of a refused conflict: "{ref} is required
\* at incompatible versions ({versions}); no single version satisfies all
\* dependents."
ConflictIsGenuine ==
    outcome = "conflict" =>
        \A r \in Conflicted(solution) : \A v \in Available(r) :
            \E edge \in EdgesAsked({<<n[1], solution[n]>> : n \in DOMAIN solution}) :
                edge[1] = r /\ v \notin edge[2].match

=============================================================================
