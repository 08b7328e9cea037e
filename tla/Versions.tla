------------------------------ MODULE Versions ------------------------------
(***************************************************************************)
(* Versions and constraints (version.py): the order of each scheme, which  *)
(* clauses a constraint is read as, what it admits, and the groups within  *)
(* which the resolver takes one version for another.                       *)
(*                                                                         *)
(* A version as it is written is a token: an optional word, numbers with   *)
(* dots between and the leading zeros they are written with, and the       *)
(* identifiers of a prerelease.  Build metadata, which is never compared,  *)
(* is left out.  A version is a token read by a scheme; a constraint is    *)
(* a sequence of clauses, an operator and a token each, "*" being the      *)
(* empty one and "==" another spelling of "=".                             *)
(***************************************************************************)
EXTENDS Integers, Sequences, FiniteSetsExt

CONSTANTS
    Tokens,         \* tokens considered
    Constraints     \* constraints considered

Ops == {"", "^", "~", "=", ">", ">=", "<", "<="}

\* A number is its value and its leading zeros, an identifier a number or a word;
\* words are numbered in their alphabetical order, the empty one first.
Token == [word : Nat,
          nums : Seq([n : Nat, zeros : Nat]),
          pre : Seq([num : BOOLEAN, id : Nat])]

ASSUME TokensAssumption == Tokens \subseteq Token
ASSUME ConstraintsAssumption == Constraints \subseteq Seq([op : Ops, tok : Token])

\* The shapes of tokens.  Any of them will do as an opaque version.
IsSemVer(t) ==
    t.word = 0 /\ Len(t.nums) = 3 /\ \A i \in 1..3 : t.nums[i].zeros = 0
IsCalVer(t) == t.word = 0 /\ t.nums # <<>> /\ t.pre = <<>>
IsMonotonic(t) == Len(t.nums) = 1 /\ t.pre = <<>>

Parses(scheme, t) ==
    CASE scheme = "semver" -> IsSemVer(t)
      [] scheme = "calver" -> IsCalVer(t)
      [] scheme = "monotonic" -> IsMonotonic(t)
      [] scheme = "opaque" -> TRUE

Schemes == {"semver", "calver", "monotonic", "opaque"}
Candidates == {v \in [scheme : Schemes, tok : Tokens] : Parses(v.scheme, v.tok)}

-----------------------------------------------------------------------------
(* Order.  Equal versions are equal tokens, in each scheme.                *)

Written(n) == [n |-> n, zeros |-> 0]
Common(a, b) == 1..Min({Len(a), Len(b)})

\* The first place in which two sequences differ, or 0.
FirstDiff(a, b) ==
    LET D == {i \in Common(a, b) : a[i] # b[i]}
    IN  IF D = {} THEN 0 ELSE Min(D)

NumsLt(a, b) == LET i == FirstDiff(a, b) IN i # 0 /\ a[i] < b[i]
Number(t, i) == IF i <= Len(t.nums) THEN t.nums[i].n ELSE 0
Numbers(t, width) == [i \in 1..width |-> Number(t, i)]

\* A numeric identifier is lower than a word.
IdentifierLt(x, y) == IF x.num = y.num THEN x.id < y.id ELSE x.num

\* Mutant of PrereleaseLt: no rule for a release against its prereleases.
PrereleaseLtOfFields(a, b) ==
    LET i == FirstDiff(a, b) IN
    IF i = 0 THEN a # <<>> /\ Len(a) < Len(b) ELSE IdentifierLt(a[i], b[i])

PrereleaseLt(a, b) ==
    LET i == FirstDiff(a, b) IN
    /\ a # b /\ a # <<>>
    /\ \/ b = <<>>
       \/ i # 0 /\ IdentifierLt(a[i], b[i])
       \/ i = 0 /\ Len(a) < Len(b)

SemVerLt(a, b) ==
    IF Numbers(a, 3) # Numbers(b, 3) THEN NumsLt(Numbers(a, 3), Numbers(b, 3))
    ELSE PrereleaseLt(a.pre, b.pre)

\* The order of the characters, for numbers of equal value: "02" < "2", but
\* "0" < "00" and "1" < "1.0".
RawLt(a, b) ==
    LET i == FirstDiff(a, b) IN
    IF i = 0 THEN Len(a) < Len(b)
    ELSE IF a[i].n = 0 THEN a[i].zeros < b[i].zeros ELSE a[i].zeros > b[i].zeros

CalVerLt(a, b) ==
    LET width == Max({Len(a.nums), Len(b.nums)}) IN
    IF Numbers(a, width) # Numbers(b, width) THEN NumsLt(Numbers(a, width), Numbers(b, width))
    ELSE RawLt(a.nums, b.nums)

MonotonicLt(a, b) ==
    IF a.nums[1].n # b.nums[1].n THEN a.nums[1].n < b.nums[1].n
    ELSE IF a.word # b.word THEN a.word < b.word
    ELSE RawLt(a.nums, b.nums)

Lt(scheme, a, b) ==
    CASE scheme = "semver" -> SemVerLt(a, b)
      [] scheme = "calver" -> CalVerLt(a, b)
      [] scheme = "monotonic" -> MonotonicLt(a, b)
Le(scheme, a, b) == a = b \/ Lt(scheme, a, b)

-----------------------------------------------------------------------------
(* Compatibility groups.                                                   *)

\* Mutant of SemVerGroup: 0.y is a group as 1.y is.
SemVerGroupOfMajor(t) == <<"semver", t.nums[1].n>>

SemVerGroup(t) ==
    LET n == Numbers(t, 3) IN
    CASE n[1] > 0 -> <<"semver", n[1]>>
      [] n[1] = 0 /\ n[2] > 0 -> <<"semver", 0, n[2]>>
      [] n[1] = 0 /\ n[2] = 0 -> <<"semver", 0, 0, n[3]>>

CompatibilityGroup(v) ==
    CASE v.scheme = "semver" -> SemVerGroup(v.tok)
      [] v.scheme = "calver" -> <<"calver", v.tok.nums[1].n>>
      [] v.scheme = "monotonic" -> <<"monotonic">>
      [] v.scheme = "opaque" -> <<"opaque", v.tok>>

-----------------------------------------------------------------------------
(* Constraints.                                                            *)

Plain(nums) == [word |-> 0, nums |-> [i \in DOMAIN nums |-> Written(nums[i])], pre |-> <<>>]

CaretUpper(t) ==
    LET n == Numbers(t, 3) IN
    Plain(CASE n[1] > 0 -> <<n[1] + 1, 0, 0>>
            [] n[1] = 0 /\ n[2] > 0 -> <<0, n[2] + 1, 0>>
            [] n[1] = 0 /\ n[2] = 0 -> <<0, 0, n[3] + 1>>)

\* Mutant of TildeUpper: the patch is bumped.
TildeUpperOfPatch(t) == Plain(<<t.nums[1].n, t.nums[2].n, t.nums[3].n + 1>>)

TildeUpper(t) == Plain(<<t.nums[1].n, t.nums[2].n + 1, 0>>)

CalVerCaretUpper(t) == Plain(<<t.nums[1].n + 1>>)

CalVerTildeUpper(t) ==
    LET n == Numbers(t, Len(t.nums)) IN Plain([n EXCEPT ![Len(n)] = @ + 1])

\* The primitive comparisons, and a range from an operand up to a bound.
Compares(scheme, op, c, t) ==
    CASE op = "=" -> c = t
      [] op = ">" -> Lt(scheme, t, c)
      [] op = ">=" -> Le(scheme, t, c)
      [] op = "<" -> Lt(scheme, c, t)
      [] op = "<=" -> Le(scheme, c, t)
Within(scheme, c, t, upper) == Le(scheme, t, c) /\ Lt(scheme, c, upper)

SemVerClause(op, t, c) ==
    CASE op \in {"", "^"} -> Within("semver", c, t, CaretUpper(t))
      [] op = "~" -> Within("semver", c, t, TildeUpper(t))
      [] OTHER -> Compares("semver", op, c, t)

CalVerClause(op, t, c) ==
    /\ IsCalVer(t)
    /\ CASE op \in {"", "^"} -> Within("calver", c, t, CalVerCaretUpper(t))
         [] op = "~" -> Within("calver", c, t, CalVerTildeUpper(t))
         [] OTHER -> Compares("calver", op, c, t)

MonotonicClause(op, t, c) ==
    /\ IsMonotonic(t)
    /\ CASE op \in {"", "^"} -> Compares("monotonic", ">=", c, t)
         [] op = "~" -> Compares("monotonic", "=", c, t)
         [] OTHER -> Compares("monotonic", op, c, t)

Clauses(cs) == {cs[i] : i \in DOMAIN cs}

\* What a constraint is taken for, before it is known what it will be held
\* against.
Reading(cs) ==
    CASE cs = <<>> -> "any"
      [] Len(cs) = 1 /\ cs[1].op \in {"", "="} /\ ~IsSemVer(cs[1].tok) -> "opaque"
      [] cs # <<>> /\ \A k \in Clauses(cs) : IsSemVer(k.tok) -> "semver"
      [] OTHER ->
           IF \A k \in Clauses(cs) : IsCalVer(k.tok) \/ IsMonotonic(k.tok)
           THEN "ordered" ELSE "invalid"

\* A prerelease only where a clause names one of the same release.
PrereleaseAllowed(cs, c) ==
    \E k \in Clauses(cs) : k.tok.pre # <<>> /\ Numbers(k.tok, 3) = Numbers(c, 3)

Matches(cs, v) ==
    CASE Reading(cs) = "any" -> v.scheme # "semver" \/ v.tok.pre = <<>>
      [] Reading(cs) = "opaque" -> v.tok = cs[1].tok
      [] Reading(cs) = "semver" ->
           /\ v.scheme = "semver"
           /\ v.tok.pre # <<>> => PrereleaseAllowed(cs, v.tok)
           /\ \A k \in Clauses(cs) : SemVerClause(k.op, k.tok, v.tok)
      [] Reading(cs) = "ordered" ->
           \/ v.scheme = "calver" /\ \A k \in Clauses(cs) : CalVerClause(k.op, k.tok, v.tok)
           \/ v.scheme = "monotonic" /\ \A k \in Clauses(cs) : MonotonicClause(k.op, k.tok, v.tok)

-----------------------------------------------------------------------------
VARIABLES
    constraint, \* the constraint of the dependency
    admitted    \* the versions it admits

vsVars == <<constraint, admitted>>

Admitted(cs) == {v \in Candidates : Matches(cs, v)}

\* A dependency that says nothing takes any stable version.
VSInit ==
    /\ constraint = <<>>
    /\ admitted = Admitted(<<>>)

\* A constraint is parsed; one that is not valid is refused.
Parse ==
    /\ constraint = <<>>
    /\ \E cs \in Constraints :
        /\ Reading(cs) # "invalid"
        /\ constraint' = cs
    /\ admitted' = Admitted(constraint')

VSSpec == VSInit /\ [][Parse]_vsVars

-----------------------------------------------------------------------------
(* Properties.                                                             *)

Ordered == {v \in Candidates : v.scheme # "opaque"}

\* "Newest" means something: each scheme's order of versions is total and
\* transitive, whatever prereleases, lengths and leading zeros they have.
OrderIsTotal ==
    constraint = <<>> =>
        \A v \in Ordered :
            LET s == v.scheme
                Peers == {u.tok : u \in {w \in Ordered : w.scheme = s}}
                Before == {t \in Peers : Lt(s, t, v.tok)}
                After == {t \in Peers : Lt(s, v.tok, t)}
            IN  /\ Before \cup After = Peers \ {v.tok}
                /\ Before \cap After = {}
                /\ \A a \in Before, b \in After : Lt(s, a, b)

\* Comparison by value: the first number that differs decides, and a number that
\* is not written is 0.
Places(a, b) == 1..Max({Len(a.nums), Len(b.nums)})
Agree(a, b, k) == \A i \in 1..k : Number(a, i) = Number(b, i)
SameValue(a, b) == \A i \in Places(a, b) : Number(a, i) = Number(b, i)
Exceeds(a, b) == \E i \in Places(a, b) : Number(a, i) > Number(b, i) /\ Agree(a, b, i - 1)

\* Calendar versions of equal value that are spelled differently are ordered by
\* their spelling, and so is a candidate that has the value of a bound.
OddlySpelled(op, t, c) ==
    LET Respells(u) == SameValue(u, c) /\ u # c
    IN  \/ Respells(t)
        \/ op = "~" /\ Respells(CalVerTildeUpper(t))
        \/ op \in {"", "^"} /\ Respells(CalVerCaretUpper(t))

\* The versions of one scheme, when the constraint is read as one of that scheme.
Meant(scheme) ==
    IF /\ Reading(constraint) = (IF scheme = "semver" THEN "semver" ELSE "ordered")
       /\ \A k \in Clauses(constraint) : Parses(scheme, k.tok)
    THEN {v \in Candidates :
            /\ v.scheme = scheme
            /\ scheme = "calver" =>
                \A k \in Clauses(constraint) : ~OddlySpelled(k.op, k.tok, v.tok)}
    ELSE {}

\* The caret, which is what a dependency has by default, and the groups agree: it
\* admits nothing of another group, prereleases included, and every stable
\* version of its own group that is no older.  The resolver relies on it when it
\* gives an edge to the group of its newest match.
CaretIsGroup ==
    Len(constraint) = 1 /\ constraint[1].op = "^" =>
        LET t == constraint[1].tok IN
        \A s \in {"semver", "calver", "monotonic"} : \A v \in Meant(s) :
            LET same == CompatibilityGroup([scheme |-> s, tok |-> t]) = CompatibilityGroup(v)
            IN  /\ v \in admitted => same
                /\ same /\ v.tok.pre = <<>> /\ Le(s, t, v.tok) => v \in admitted

\* What a clause means for a stable candidate, by value alone.  The calendar tilde
\* is read as in docs/progress_tracker.md:775, "~2024.1 == >=2024.1, <2024.2", and
\* in the docstring at version.py:417; TildeIsYearBased is the other reading.
ByValue(s, op, t, c) ==
    LET released == t.pre = <<>>
        atLeast == ~Exceeds(t, c)
    IN  CASE op = "=" -> c = t
          [] op = ">" -> IF released THEN Exceeds(c, t) ELSE atLeast
          [] op = ">=" -> atLeast
          [] op = "<" -> Exceeds(t, c)
          [] op = "<=" -> IF released THEN ~Exceeds(c, t) ELSE Exceeds(t, c)
          [] op = "~" -> atLeast /\ Agree(t, c, IF s = "semver" THEN 2 ELSE Len(t.nums))
          [] OTHER -> atLeast /\ Agree(t, c,
                        CASE s = "calver" -> 1
                          [] s = "semver" -> Min({i \in 1..3 : i = 3 \/ t.nums[i].n > 0}))

\* A constraint of any clauses admits the stable versions that its clauses'
\* values say, for SemVer and for calendar versions that are read as such.
RangesByValue ==
    \A s \in {"semver", "calver"} : \A v \in Meant(s) :
        v.tok.pre = <<>> =>
            (v \in admitted <=>
                \A k \in Clauses(constraint) : ByValue(s, k.op, k.tok, v.tok))

\* A compatibility group is an interval of the order, prereleases and odd spellings
\* included: what lies between two versions of a group belongs to it.  What is said
\* of the resolver rests on it (MajorAssumption).
GroupsAreIntervals ==
    constraint = <<>> =>
        \A v, w \in Ordered :
            v.scheme = w.scheme /\ CompatibilityGroup(v) = CompatibilityGroup(w) =>
                \A u \in Ordered :
                    /\ u.scheme = v.scheme
                    /\ Le(v.scheme, v.tok, u.tok)
                    /\ Le(v.scheme, u.tok, w.tok)
                    => CompatibilityGroup(u) = CompatibilityGroup(v)

\* docs/modules/versioning.md:88-89: "Bare constraints for non-SemVer schemes mean
\* *exact*": what is written as a version of the scheme, admits it.
BarePinMatches ==
    Len(constraint) = 1 /\ constraint[1].op = "" =>
        \A v \in Candidates :
            v.scheme # "semver" /\ v.tok = constraint[1].tok => v \in admitted

\* docs/modules/versioning.md:81-82, of CalVer: "The first component (year) is the
\* compatibility boundary, so caret/tilde and `compatibility_group` are
\* year-based": a tilde admits what is left of its operand's year.
CalendarTilde ==
    /\ Len(constraint) = 1 /\ Reading(constraint) = "ordered"
    /\ constraint[1].op = "~" /\ IsCalVer(constraint[1].tok)
TildeIsYearBased ==
    CalendarTilde =>
        \A v \in Candidates :
            /\ v.scheme = "calver" /\ Agree(constraint[1].tok, v.tok, 1)
            /\ Le("calver", constraint[1].tok, v.tok)
            => v \in admitted

\* version.py:417: "Exclusive upper bound for ``~v`` on calver: bump the last
\* declared component": what has the bound's value is not admitted.
BoundIsExclusive ==
    CalendarTilde =>
        \A v \in admitted :
            v.scheme = "calver" => ~SameValue(v.tok, CalVerTildeUpper(constraint[1].tok))
=============================================================================
