---------------------------- MODULE MCResolver ----------------------------
(***************************************************************************)
(* Every problem over four packages in which the root needs A and B, whose *)
(* versions need C and D in the ways listed.  Version ij stands for i.j.0, *)
(* so the tens are the compatibility group.  D is opaque.  A problem is    *)
(* the tuple of the choices made: one per version of A and B, one for C,   *)
(* one for the root, and the policy.                                       *)
(***************************************************************************)
EXTENDS Resolver, TLC

A == 1  B == 2  C == 3  D == 4
MCRefs == 1..4
MCVersions == {10, 11, 20}
MCMajor == [v \in MCVersions |-> v \div 10]
MCOpaque == {D}

Constraint(S, p) == [match |-> S, pin |-> p]
Caret(v) == Constraint({w \in MCVersions : w >= v /\ w \div 10 = v \div 10}, NoPin)
AtLeast(v) == Constraint({w \in MCVersions : w >= v}, NoPin)
Exactly(v) == Constraint({v}, v)
Misread(v) == Constraint({}, v)

Deps == <<
    <<>>,
    C :> Caret(10),
    C :> Caret(11),
    C :> Caret(20),
    C :> AtLeast(10),
    D :> Exactly(10),
    D :> Exactly(20),
    D :> AtLeast(10),                            \* not a pin
    (C :> Exactly(10)) @@ (D :> Misread(11)),    \* 11 is spelled as SemVer
    (B :> Caret(20)) @@ (C :> Caret(10)) >>

\* C may be what alone needs D, lack a version, conflict with a version of A,
\* or close a circle.
VersionsOfC == <<
    (10 :> (D :> Exactly(10))) @@ (11 :> <<>>) @@ (20 :> <<>>),
    (10 :> <<>>) @@ (20 :> (A :> Exactly(10))),
    (10 :> (B :> Caret(10))) @@ (11 :> (B :> Caret(20))) >>

Roots == << (A :> Caret(10)) @@ (B :> Caret(10)), (A :> Caret(10)) @@ (B :> AtLeast(10)) >>

MCProblems ==
    (1..5) \X (2..10) \X (2..6) \X (1..2) \X (DOMAIN VersionsOfC) \X (DOMAIN Roots) \X Policies

MCIndexOf ==
    [p \in MCProblems |->
        << (10 :> Deps[p[1]]) @@ (11 :> Deps[p[2]]),
           (10 :> Deps[p[3]]) @@ (20 :> Deps[p[4]]),
           VersionsOfC[p[5]],
           (10 :> <<>>) @@ (11 :> <<>>) @@ (20 :> <<>>) >>]
MCRootOf == [p \in MCProblems |-> Roots[p[6]]]
MCPolicyOf == [p \in MCProblems |-> p[7]]
=============================================================================
