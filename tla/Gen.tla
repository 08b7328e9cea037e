--------------------------------- MODULE Gen ---------------------------------
(***************************************************************************)
(* What `hdlpkg gen` makes of the cores it has collected (cli.py after     *)
(* line 885): with two versions of a package among them their units are    *)
(* renamed apart (mangle.py), and the files of all are put in an order for *)
(* the tool (Edam).                                                        *)
(*                                                                         *)
(* To a core of Edam this adds what its dependencies admit, as [ref,       *)
(* admits], and what is in the file of a fileset: [name, depend, lang,     *)
(* text, live]. A text is a sequence of significant tokens, comments and   *)
(* strings left out and VHDL in lower case, and `live` maps the positions  *)
(* that, by the rules of the language, name a design unit to the kind of   *)
(* that unit; the program knows nothing of it. A problem has a `tag` too:  *)
(* what mangled_name makes of a version.                                   *)
(***************************************************************************)
EXTENDS Edam

CONSTANT Untold     \* no outcome yet

ASSUME UntoldAssumption == Untold # "no"

VARIABLES
    refused,    \* why gen refused, Untold, or "no"
    tags        \* per core and fileset, the tag each token got, 0 for none

genVars == <<edamVars, refused, tags>>

-----------------------------------------------------------------------------
(* Tokens.                                                                 *)

Marks == {"(", ")", "#", ";", ":", ".", "[", "]", "=", "*", "::"}
Hidden == {"<directive>", "<escaped>"}
Nothing == ""
IsIdent(t) == t \notin Marks \cup Hidden \cup {Nothing}
At(s, i) == IF i \in DOMAIN s THEN s[i] ELSE Nothing

\* The place after the group that opens at i, or 0.
SkipGroup(s, i, open, close) ==
    LET opens(j) == Cardinality({k \in i..j : s[k] = open})
        closes(j) == Cardinality({k \in i..j : s[k] = close})
        ends == {j \in i..Len(s) : s[j] = close /\ opens(j) = closes(j)}
    IN  IF ends = {} THEN 0 ELSE 1 + CHOOSE j \in ends : \A k \in ends : j <= k

Kinds == {"package", "module", "interface", "entity"}

\* The name at p is declared there, as far as the scans of mangle.py tell.
DeclaresAt(file, kind, p) ==
    LET s == file.text IN
    /\ IsIdent(s[p])
    /\ \/ file.lang = "sv" /\ kind \in {"package", "interface"} /\ At(s, p - 1) = kind
       \/ file.lang = "sv" /\ kind = "module" /\ At(s, p - 1) \in {"module", "macromodule", "program"}
       \/ /\ file.lang = "vhdl" /\ kind = "package"
          /\ \/ At(s, p - 1) = "package" /\ s[p] # "body"
             \/ At(s, p - 1) = "body" /\ At(s, p - 2) = "package"
       \/ file.lang = "vhdl" /\ kind = "entity" /\ At(s, p - 1) = "entity" /\ At(s, p + 1) # "."

\* GenSourceFile.declared_by_kind
Declared(file, kind) ==
    {file.text[p] : p \in {q \in DOMAIN file.text : DeclaresAt(file, kind, q)}}

-----------------------------------------------------------------------------
(* The positions that are rewritten, per kind.                             *)

SvPackagePosition(s, p) ==
    \/ At(s, p + 1) = "::"
    \/ At(s, p - 1) \in {"package", "endpackage"}
    \/ At(s, p - 1) = ":" /\ At(s, p - 2) = "endpackage"

\* Past the ranges of an instance array that start at i, or 0.
SkipRanges(s, i) ==
    LET skip[k \in Nat] ==
            IF At(s, k) # "[" THEN k
            ELSE IF SkipGroup(s, k, "[", "]") = 0 THEN 0
            ELSE skip[SkipGroup(s, k, "[", "]")]
    IN  skip[i]

\* <name> [#( ... )] <instance> [range]* (
Instantiates(s, p) ==
    LET i == IF At(s, p + 1) # "#" THEN p + 1
             ELSE IF At(s, p + 2) = "(" THEN SkipGroup(s, p + 2, "(", ")") ELSE 0
    IN  i # 0 /\ IsIdent(At(s, i)) /\ At(s, SkipRanges(s, i + 1)) = "("

SvModulePosition(s, p) ==
    \/ At(s, p - 1) \in {"module", "macromodule", "program"}
    \/ At(s, p - 1) = ":" /\ At(s, p - 2) \in {"endmodule", "endprogram"}
    \/ Instantiates(s, p)

SvInterfacePosition(s, p) ==
    \/ At(s, p - 1) = "interface"
    \/ At(s, p - 1) = ":" /\ At(s, p - 2) = "endinterface"
    \/ /\ At(s, p - 1) # "."
       /\ \/ At(s, p + 1) = "." /\ IsIdent(At(s, p + 2)) /\ IsIdent(At(s, p + 3))
          \/ IsIdent(At(s, p + 1))

VhdlPackagePosition(s, p) ==
    \/ At(s, p - 1) \in {"package", "end"}
    \/ At(s, p - 1) = "body" /\ At(s, p - 2) = "package"
    \/ At(s, p - 1) = "." /\ At(s, p - 2) = "work"

VhdlEntityPosition(s, p) ==
    \/ At(s, p - 1) \in {"entity", "component", "end"}
    \/ At(s, p - 1) = "of" /\ At(s, p - 3) \in {"architecture", "configuration"}
    \/ At(s, p - 1) = "." /\ At(s, p - 2) = "work"
    \/ At(s, p - 1) = ":" /\ At(s, p + 1) \in {"port", "generic", "use", ";"}

Position(lang, s, p, kind) ==
    \/ lang = "sv" /\ kind = "package" /\ SvPackagePosition(s, p)
    \/ lang = "sv" /\ kind = "module" /\ SvModulePosition(s, p)
    \/ lang = "sv" /\ kind = "interface" /\ SvInterfacePosition(s, p)
    \/ lang = "vhdl" /\ kind = "package" /\ VhdlPackagePosition(s, p)
    \/ lang = "vhdl" /\ kind = "entity" /\ VhdlEntityPosition(s, p)

-----------------------------------------------------------------------------
(* plan_package_mangling.                                                  *)

Group(ref) == {i \in DOMAIN GenCores : GenCores[i].ref = ref}
Conflicted == {ref \in {GenCores[i].ref : i \in DOMAIN GenCores} : Cardinality(Group(ref)) > 1}
DeclaredIn(i, kind) == UNION {Declared(Sets(i)[f], kind) : f \in DOMAIN Sets(i)}

\* owner_of and kind_of: names that two versions of one package declare.
Colliding ==
    LET names == UNION {DeclaredIn(i, kind) : i \in DOMAIN GenCores, kind \in Kinds}
    IN  {c \in [name : names, ref : Conflicted, kind : Kinds] :
            Cardinality({i \in Group(c.ref) : c.name \in DeclaredIn(i, c.kind)}) > 1}

\* Every occurrence of a colliding name in a (System)Verilog file of any core.
Occurrences(kind) ==
    LET names == {c.name : c \in {d \in Colliding : d.kind = kind /\ IsIdent(d.name)}} IN
    {o \in UNION {UNION {{<<i, f, p>> : p \in DOMAIN Sets(i)[f].text} :
                    f \in {g \in DOMAIN Sets(i) : Sets(i)[g].lang = "sv"}} : i \in DOMAIN GenCores} :
        Sets(o[1])[o[2]].text[o[3]] \in names}

UnknownLanguage ==
    \E ref \in Conflicted : \E i \in Group(ref) : \E f \in DOMAIN Sets(i) :
        Sets(i)[f].lang \notin {"sv", "vhdl"}

CollidesTwice == \E c, d \in Colliding : c.name = d.name /\ c # d

\* _reject_cross_ref_units leaves packages alone.
DeclaredElsewhere ==
    \E c \in Colliding : \E i \in DOMAIN GenCores :
        /\ c.kind # "package"
        /\ GenCores[i].ref # c.ref
        /\ c.name \in DeclaredIn(i, c.kind)

\* Neither rewritten nor plainly something else.
Doubtful(s, p, kind) ==
    /\ At(s, p - 1) # "."
    /\ \/ kind = "module" /\ ~SvModulePosition(s, p) /\ (IsIdent(At(s, p + 1)) \/ At(s, p + 1) = "#")
       \/ kind = "interface" /\ ~SvInterfacePosition(s, p)

Unclassifiable(kind) ==
    \E o \in Occurrences(kind) : Doubtful(Sets(o[1])[o[2]].text, o[3], kind)

\* Version v is admitted by all of core i's constraints on the package.
Admits(i, ref, v) == \A d \in GenCores[i].deps : d.ref = ref => v \in d.admits

\* _resolved_version: the newest version present that the core admits, the newest of
\* all if it admits none; 0 without a dependency on the package.
ResolvedVersion(i, ref) ==
    LET present == {GenCores[j].ver : j \in Group(ref)}
        matching == {v \in present : Admits(i, ref, v)}
        newest(S) == CHOOSE v \in S : \A w \in S : w <= v
    IN  IF \A d \in GenCores[i].deps : d.ref # ref THEN 0
        ELSE newest(IF matching = {} THEN present ELSE matching)

\* Core i declares a unit of the name of c.
DeclaresSome(i, c) == \E kind \in Kinds : c.name \in DeclaredIn(i, kind)

\* Mutant of Rename: a consumer gets the newest version.
RenameNewest(i, c) ==
    IF GenCores[i].ref = c.ref /\ DeclaresSome(i, c)
    THEN problem.tag[GenCores[i].ver]
    ELSE IF ResolvedVersion(i, c.ref) = 0 THEN 0
    ELSE problem.tag[CHOOSE v \in {GenCores[j].ver : j \in Group(c.ref)} :
                        \A j \in Group(c.ref) : GenCores[j].ver <= v]

\* _rename_map_for: the tag of the colliding unit c in core i, 0 for none.
Rename(i, c) ==
    IF GenCores[i].ref = c.ref /\ DeclaresSome(i, c)
    THEN problem.tag[GenCores[i].ver]
    ELSE IF ResolvedVersion(i, c.ref) = 0 THEN 0
    ELSE problem.tag[ResolvedVersion(i, c.ref)]

\* Mutant of MangledAlike: not looked for.
MangledAlikeNever == FALSE

\* _reject_colliding_mangled_names: fewer mangled names, consumers' included, than
\* versions that declare the unit.
MangledAlike ==
    \E c \in Colliding :
        Cardinality({Rename(i, c) : i \in DOMAIN GenCores} \ {0})
        < Cardinality({i \in Group(c.ref) : DeclaresSome(i, c)})

\* GenSourceFile.rewrite
Rewritten(i, f) ==
    LET file == Sets(i)[f]
        colliding == Colliding
    IN
    [p \in DOMAIN file.text |->
        LET hits == {c \in colliding : /\ c.name = file.text[p]
                                       /\ Position(file.lang, file.text, p, c.kind)}
        IN  IF hits = {} THEN 0 ELSE Rename(i, CHOOSE c \in hits : TRUE)]

Untouched(i, f) == [p \in DOMAIN Sets(i)[f].text |-> 0]

-----------------------------------------------------------------------------
GenInit ==
    /\ EdamInit
    /\ refused = Untold
    /\ tags = <<>>

\* _has_multiversion looks at the dependencies only.
Multiversion == Cardinality({GenCores[i].ref : i \in Deps}) < Len(problem.deps)

\* Of several reasons the first one in the code's order is printed; that there is
\* one is what counts here, so any of them may be given.
Refuses(reason, holds) ==
    /\ refused = Untold
    /\ Multiversion
    /\ TRUE \in {holds}
    /\ refused' = reason
    /\ UNCHANGED <<edamVars, tags>>

MayMangle ==
    ~UnknownLanguage /\ ~CollidesTwice /\ ~DeclaredElsewhere
    /\ ~Unclassifiable("module") /\ ~Unclassifiable("interface") /\ ~MangledAlike

Final(i, f) == IF Multiversion THEN Rewritten(i, f) ELSE Untouched(i, f)

\* _mangle_sources, or no need of it.
Proceeds ==
    /\ refused = Untold
    /\ Multiversion => MayMangle
    /\ refused' = "no"
    /\ tags' = [i \in DOMAIN GenCores |-> [f \in DOMAIN Sets(i) |-> Final(i, f)]]
    /\ UNCHANGED edamVars

\* build_eda_design
Assembles ==
    /\ refused = "no"
    /\ EdamNext
    /\ UNCHANGED <<refused, tags>>

GenNext ==
    \/ Refuses("language", UnknownLanguage)
    \/ Refuses("kinds", CollidesTwice)
    \/ Refuses("other core", DeclaredElsewhere)
    \/ Refuses("module", Unclassifiable("module"))
    \/ Refuses("interface", Unclassifiable("interface"))
    \/ Refuses("alike", MangledAlike)
    \/ Proceeds
    \/ Assembles

GenSpec == GenInit /\ [][GenNext]_genVars

-----------------------------------------------------------------------------
\* Places the rewriter does not see, though the language reads a unit there: a
\* module before a macro or an escaped instance name or at the root of a
\* hierarchical name, an entity in an attribute specification, a VHDL package
\* selected by its simple name; anything in another language, of a core whose own
\* versions do not coexist.
Overlooked(file, p, kind) ==
    LET s == file.text IN
    \/ file.lang \notin {"sv", "vhdl"}
    \/ kind = "module" /\ At(s, p + 1) \in Hidden \cup {"."}
    \/ kind = "entity" /\ At(s, p - 1) = "of" /\ At(s, p - 3) = "attribute"
    \/ kind = "package" /\ At(s, p - 1) # "." /\ At(s, p + 1) = "."

\* Places it takes for a unit, though the language reads something else of that name
\* there: the end of an architecture, a signal's type.
Mistaken(s, p) ==
    \/ At(s, p - 1) = "end"
    \/ At(s, p - 1) = ":" /\ At(s, p - 3) = "signal"

\* Core i states which version of the unit it means: it declares the unit itself,
\* or depends on the package, and the version it resolved to has the unit.
MeansAVersion(i, c) ==
    \/ GenCores[i].ref = c.ref /\ DeclaresSome(i, c)
    \/ \E j \in Group(c.ref) : GenCores[j].ver = ResolvedVersion(i, c.ref) /\ DeclaresSome(j, c)

\* Where a name that coexists stands for the unit, it is renamed to the name that a
\* version declares after renaming which the core's own constraints admit, in every
\* core, but where Overlooked; and what only looks like it keeps its name, but where
\* Mistaken ("never a partial rewrite").
ReferencesFollow ==
    Finished /\ Multiversion =>
        \A c \in Colliding, i \in DOMAIN GenCores : \A f \in DOMAIN Sets(i) :
            LET s == Sets(i)[f].text IN
            \A p \in {q \in DOMAIN s : s[q] = c.name} :
                IF p \in DOMAIN Sets(i)[f].live
                THEN (/\ Sets(i)[f].live[p] = c.kind
                      /\ MeansAVersion(i, c)
                      /\ ~Overlooked(Sets(i)[f], p, c.kind)) =>
                     \E j \in Group(c.ref) :
                        /\ DeclaresSome(j, c)
                        /\ tags[i][f][p] = problem.tag[GenCores[j].ver]
                        /\ \/ j = i
                           \/ Admits(i, c.ref, GenCores[j].ver)
                           \/ \A k \in Group(c.ref) : ~Admits(i, c.ref, GenCores[k].ver)
                ELSE tags[i][f][p] = 0 \/ Mistaken(s, p)

\* The scans see in the texts of problem p what the language reads: a unit that two of
\* a package's cores declare is rewritten, refused or Overlooked where it is meant, and
\* left alone or Mistaken where it is not.
TextsAreSeen(p) ==
    LET cores == <<p.root>> \o p.deps
        declared(i, kind) == UNION {Declared(file, kind) : file \in ToSet(cores[i].sets)}
        seen(file, n, kind) ==
            LET s == file.text IN
            \A q \in {r \in DOMAIN s : s[r] = n} :
                IF q \in DOMAIN file.live
                THEN file.live[q] = kind =>
                        \/ Position(file.lang, s, q, kind)
                        \/ Overlooked(file, q, kind)
                        \/ file.lang = "sv" /\ Doubtful(s, q, kind)
                ELSE Position(file.lang, s, q, kind) => Mistaken(s, q)
    IN  \A i, j \in DOMAIN cores, kind \in Kinds :
            i # j /\ cores[i].ref = cores[j].ref =>
                \A n \in declared(i, kind) \cap declared(j, kind), k \in DOMAIN cores :
                    \A file \in ToSet(cores[k].sets) : seen(file, n, kind)

\* "VHDL entity references are all keyword-marked, so any other occurrence is inert"
\* (mangle.py, line 30).
OthersAreInert ==
    refused = "no" =>
        \A i \in DOMAIN GenCores : \A f \in {g \in DOMAIN Sets(i) : Sets(i)[g].lang = "vhdl"} :
            \A p \in DOMAIN Sets(i)[f].text \ DOMAIN Sets(i)[f].live : tags[i][f][p] = 0

\* What core i declares, under the names it has in the end.
FinalNames(i, kind) ==
    UNION {{<<Sets(i)[f].text[p], tags[i][f][p]>> :
                p \in {q \in DOMAIN Sets(i)[f].text : DeclaresAt(Sets(i)[f], kind, q)}} :
            f \in DOMAIN Sets(i)}

\* No two versions of a package declare a unit of one kind under one name, unless a
\* consumer's mangled name made up for two that are alike.
UnitsApart ==
    Finished =>
        \A i, j \in Deps, kind \in Kinds :
            i # j /\ GenCores[i].ref = GenCores[j].ref =>
                \A x \in FinalNames(i, kind) \cap FinalNames(j, kind) :
                    LET c == [name |-> x[1], ref |-> GenCores[i].ref, kind |-> kind]
                    IN  \E k \in DOMAIN GenCores : Rename(k, c) # 0 /\ ~MeansAVersion(k, c)
=============================================================================
