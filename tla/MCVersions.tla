----------------------------- MODULE MCVersions -----------------------------
(***************************************************************************)
(* Small numbers: 0 to 2 show every group and every bound; one leading     *)
(* zero; prereleases of a word, a number and both; each operator alone,    *)
(* and ranges of two clauses.                                              *)
(***************************************************************************)
EXTENDS Versions

Num(n, z) == [n |-> n, zeros |-> z]
Id(num, id) == [num |-> num, id |-> id]
Tok(word, nums, pre) == [word |-> word, nums |-> nums, pre |-> pre]
Core(a, b, c) == <<Num(a, 0), Num(b, 0), Num(c, 0)>>

Prereleases == {<<Id(FALSE, 1)>>, <<Id(TRUE, 2)>>, <<Id(FALSE, 1), Id(TRUE, 2)>>}
Zeroed == {Num(0, 0), Num(1, 0), Num(2, 0), Num(0, 1), Num(2, 1)}
Years == {Num(1, 0), Num(2, 0)}

SemVers ==
    {Tok(0, Core(a, b, c), <<>>) : a \in 0..2, b \in 0..2, c \in 0..2}
    \cup {Tok(0, Core(a, b, c), p) : a \in 0..1, b \in 0..1, c \in 0..1, p \in Prereleases}
CalVers ==
    {Tok(0, <<a>>, <<>>) : a \in Years}
    \cup {Tok(0, <<a, b>>, <<>>) : a \in Years, b \in Zeroed}
    \cup {Tok(0, <<a, b, c>>, <<>>) : a \in {Num(1, 0)}, b \in Zeroed, c \in Zeroed}
    \cup {Tok(0, <<Num(1, 0), Num(0, 0), Num(0, 0), d>>, <<>>) : d \in Zeroed}
Revisions == {Tok(w, <<n>>, <<>>) : w \in 0..2, n \in Zeroed}
Words == {Tok(1, <<>>, <<>>)}

MCTokens == SemVers \cup CalVers \cup Revisions \cup Words

Clause(op, t) == [op |-> op, tok |-> t]
Lows == {Tok(0, Core(0, b, 1), p) : b \in 0..1, p \in {<<>>} \cup Prereleases}
          \cup {Tok(0, <<Num(1, 0), b>>, <<>>) : b \in Zeroed}
Highs == {Tok(0, Core(a, b, 1), <<>>) : a \in 1..2, b \in 0..1}
MCConstraints ==
    {<<Clause(op, t)>> : op \in Ops, t \in MCTokens}
    \cup {<<Clause(lo, t), Clause(hi, u)>> :
            lo \in {">", ">="}, t \in Lows, hi \in {"<", "<="}, u \in Highs}
    \cup {<<Clause("~", t), Clause("<", u)>> : t \in Revisions, u \in Revisions}
=============================================================================
