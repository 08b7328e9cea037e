-------------------------------- MODULE Edam --------------------------------
(***************************************************************************)
(* The design `hdlpkg gen` hands to a tool (build_eda_design, backends/    *)
(* edam.py): the cores in an order found by a depth-first visit of what    *)
(* they refer to, and of every core its filesets, in an order found by the *)
(* same visit of what the filesets name.                                   *)
(*                                                                         *)
(* A core is [ref, ver, deps, sets]: its package and version as numbers,   *)
(* its dependencies, of which only the package `ref` is read here, and its *)
(* filesets [name, depend] in the order of the manifest, with one file     *)
(* each. A step is a call of visit(), the return of one, or the return of  *)
(* the function around it.                                                 *)
(***************************************************************************)
EXTENDS Integers, Sequences, FiniteSets, SequencesExt

CONSTANT Problems   \* sets of cores: [root, deps, target], target the filesets of
                    \* the root's target

\* The cores collected are a sequence, one per VLNV; versions are numbered from 1.
ASSUME ProblemsAssumption ==
    \A p \in Problems :
        /\ p.deps \in Seq(ToSet(p.deps))
        /\ p.target \in Seq(ToSet(p.target))
        /\ \A i, j \in DOMAIN p.deps :
            p.deps[i].ref = p.deps[j].ref /\ p.deps[i].ver = p.deps[j].ver => i = j
        /\ \A core \in {p.root} \cup ToSet(p.deps) :
            /\ core.ref \in Nat /\ core.ver \in Nat \ {0}
            /\ core.sets \in Seq(ToSet(core.sets))
            /\ \A set \in ToSet(core.sets) : set.depend \in Seq(ToSet(set.depend))

VARIABLES
    problem,
    kids,       \* the graph of the visit under way: what each node names
    stack,      \* `visiting`: the nodes whose calls are open, the outermost first
    rest,       \* what is left to call of the roots, and of each open node's kids
    ordered,    \* the nodes in the order their calls returned
    turn,       \* 0 while the dependencies are put in order, then the place of the
                \* core whose filesets are, the root's after the last
    order,      \* the dependencies in order
    design      \* the files, as <<core, fileset>>, in the order for the tool

visitVars == <<kids, stack, rest, ordered>>
edamVars == <<problem, visitVars, turn, order, design>>

GenCores == <<problem.root>> \o problem.deps
Sets(i) == GenCores[i].sets

-----------------------------------------------------------------------------
\* The elements of S in the order `less`.
Sorted(S, less) ==
    [k \in 1..Cardinality(S) |->
        CHOOSE x \in S : Cardinality({y \in S : <<y, x>> \in less}) = k - 1]

\* The dependencies, as positions in GenCores.
Deps == 2..Len(GenCores)

\* In the order of their VLNV.
ByVlnv == Sorted(Deps, {e \in Deps \X Deps :
    \/ GenCores[e[1]].ref < GenCores[e[2]].ref
    \/ GenCores[e[1]].ref = GenCores[e[2]].ref /\ GenCores[e[1]].ver < GenCores[e[2]].ver})

\* In the order of their packages, and those of one in the order they came.
ByRef == {e \in Deps \X Deps :
    \/ GenCores[e[1]].ref < GenCores[e[2]].ref
    \/ GenCores[e[1]].ref = GenCores[e[2]].ref /\ e[1] < e[2]}

Refers(i, j) == \E d \in GenCores[i].deps : d.ref = GenCores[j].ref

\* Mutant of Kids: only the first version of a package is visited.
KidsFirst(i) ==
    Sorted({j \in Deps : Refers(i, j) /\ \A k \in 2..(j - 1) : GenCores[k].ref # GenCores[j].ref}, ByRef)

\* All versions of each package a core depends on.
Kids(i) == Sorted({j \in Deps : Refers(i, j)}, ByRef)

SetNames(i) == {Sets(i)[f].name : f \in DOMAIN Sets(i)}
Fileset(i, name) == CHOOSE f \in DOMAIN Sets(i) : Sets(i)[f].name = name

TestbenchSets == {"tb", "test", "testbench", "bench", "verification"}

\* _dependency_fileset_names
Exported(i) ==
    IF "rtl" \in SetNames(i) THEN <<"rtl">>
    ELSE LET others == {f \in DOMAIN Sets(i) : Sets(i)[f].name \notin TestbenchSets}
             listed == Sorted(others, {e \in others \X others : e[1] < e[2]})
         IN  [k \in DOMAIN listed |-> Sets(i)[listed[k]].name]

-----------------------------------------------------------------------------
(* visit(), in _topological_order and _expand_fileset_names alike.         *)

Visiting(graph, roots) ==
    /\ kids' = graph
    /\ rest' = <<roots>>
    /\ stack' = <<>>
    /\ ordered' = <<>>

\* The node to call next, if anything is left of the innermost loop, and the loops
\* without it.
Called == Head(Last(rest))
Dropped == [rest EXCEPT ![Len(rest)] = Tail(@)]
IsNew(n) == n \in DOMAIN kids \ (ToSet(stack) \cup ToSet(ordered))

Enter ==
    /\ Last(rest) # <<>>
    /\ IsNew(Called)
    /\ stack' = Append(stack, Called)
    /\ rest' = Append(Dropped, kids[Called])
    /\ UNCHANGED <<problem, kids, ordered, turn, order, design>>

\* The name is unknown, or the node is placed, or under way.
PassOver ==
    /\ Last(rest) # <<>>
    /\ ~IsNew(Called)
    /\ rest' = Dropped
    /\ UNCHANGED <<problem, kids, stack, ordered, turn, order, design>>

Leave ==
    /\ Last(rest) = <<>>
    /\ stack # <<>>
    /\ ordered' = Append(ordered, Last(stack))
    /\ stack' = Front(stack)
    /\ rest' = Front(rest)
    /\ UNCHANGED <<problem, kids, turn, order, design>>

Visited == rest = <<<<>>>>

-----------------------------------------------------------------------------
(* build_eda_design.                                                       *)

EdamInit ==
    /\ problem \in Problems
    /\ kids = [i \in Deps |-> Kids(i)]
    /\ rest = <<ByVlnv>>
    /\ stack = <<>>
    /\ ordered = <<>>
    /\ turn = 0
    /\ order = <<>>
    /\ design = <<>>

\* The core whose filesets are listed at turn t: the root after the others.
CoreAt(cores, t) == IF t <= Len(cores) THEN cores[t] ELSE 1

\* _expand_fileset_names is called with what a dependency exports, or the target.
Listing(i) ==
    Visiting([n \in SetNames(i) |-> Sets(i)[Fileset(i, n)].depend],
             IF i = 1 THEN problem.target ELSE Exported(i))

\* _topological_order returns.
OrderFound ==
    /\ turn = 0
    /\ Visited
    /\ order' = ordered
    /\ turn' = 1
    /\ Listing(CoreAt(ordered, 1))
    /\ UNCHANGED <<problem, design>>

Finished == turn > Len(order) + 1

\* _fileset_files returns and add() takes the files of the core.
FilesListed ==
    /\ turn > 0
    /\ ~Finished
    /\ Visited
    /\ design' = design \o [k \in DOMAIN ordered |-> <<CoreAt(order, turn), ordered[k]>>]
    /\ turn' = turn + 1
    /\ IF turn <= Len(order) THEN Listing(CoreAt(order, turn + 1)) ELSE UNCHANGED visitVars
    /\ UNCHANGED <<problem, order>>

EdamNext == Enter \/ PassOver \/ Leave \/ OrderFound \/ FilesListed

EdamSpec == EdamInit /\ [][EdamNext]_edamVars

-----------------------------------------------------------------------------
\* m is reached from n along the arrows of `to`: it is in every set that has n and
\* that no arrow leaves.
Leads(to, n, m) ==
    \A S \in SUBSET DOMAIN to : n \in S /\ (\A x \in S : to[x] \subseteq S) => m \in S

\* The dependencies, in all their versions, that core i refers to, and the filesets of
\* core i that its filesets name.
Needs == [i \in Deps |-> {j \in Deps : Refers(i, j)}]
Depends(i) == [n \in SetNames(i) |-> ToSet(Sets(i)[Fileset(i, n)].depend) \cap SetNames(i)]

\* x must come before y: y asks for it, and it does not lead back to y.
Before(to, x, y) == x \in to[y] /\ ~Leads(to, x, y)

\* Every file of a dependency comes after the files of all versions of what its core
\* refers to, and every fileset after those it depends on, but for pairs on a cycle;
\* the root's files come last; no file comes twice and in the end no dependency is
\* left out.
DependenciesFirst ==
    /\ \A k, l \in DOMAIN design :
        LET i == design[k][1]
            j == design[l][1]
        IN  \/ k < l
            \/ k = l
            \/ /\ design[k] # design[l]
               /\ j = 1 => i = 1
               /\ 1 \notin {i, j} => ~Before(Needs, i, j)
               /\ i = j => ~Before(Depends(i), design[k][2], design[l][2])
    /\ Finished =>
        \A i \in Deps : Exported(i) # <<>> => \E k \in DOMAIN design : design[k][1] = i
=============================================================================
