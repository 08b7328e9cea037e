------------------------------- MODULE MCGen -------------------------------
(***************************************************************************)
(* Problems for Gen: a package 1 in two or three versions whose units are  *)
(* called "n", consumers that use or only mention "n", and graphs of cores *)
(* and of filesets.                                                        *)
(***************************************************************************)
EXTENDS Gen

Fileset_(name, depend, lang, text, live) ==
    [name |-> name, depend |-> depend, lang |-> lang, text |-> text, live |-> live]

OneFile(lang, text, live) == <<Fileset_("rtl", <<>>, lang, text, live)>>

Core(ref, ver, deps, sets) == [ref |-> ref, ver |-> ver, deps |-> deps, sets |-> sets]
On(ref, admits) == [ref |-> ref, admits |-> admits]

All(text, kind) == [p \in {q \in DOMAIN text : text[q] = "n"} |-> kind]
Declares(lang, kind, text) == [lang |-> lang, text |-> text, live |-> All(text, kind)]

SvPackage == Declares("sv", "package", <<"package", "n", ";", "endpackage", ":", "n">>)
SvModule == Declares("sv", "module", <<"module", "n", "(", ")", ";", "endmodule", ":", "n">>)
SvProgram == Declares("sv", "module", <<"program", "n", ";", "endprogram">>)
SvInterface == Declares("sv", "interface", <<"interface", "n", ";", "endinterface", ":", "n">>)
VhdlPackage == Declares("vhdl", "package",
    <<"package", "n", "is", "end", "package", "n", ";", "package", "body", "n", "is", "end", "n", ";">>)
VhdlEntity == Declares("vhdl", "entity",
    <<"entity", "n", "is", "end", "entity", "n", ";", "architecture", "rtl", "of", "n", "is">>)
Silent == Declares("sv", "module", <<"initial", ";">>)
Foreign == Declares("chisel", "module", <<"class", "n">>)

Units == {SvPackage, SvModule, SvProgram, SvInterface, VhdlPackage, VhdlEntity}

\* A mention of "n" in a consumer's file: where it is a unit, and of what kind.
Mention(lang, text, live, kind) == [lang |-> lang, text |-> text, live |-> [p \in live |-> kind]]

Instance == Mention("sv", <<"n", "u", "(", ")", ";">>, {1}, "module")
Import == Mention("sv", <<"import", "n", "::", "*", ";">>, {2}, "package")

Mentions == {Instance, Import,
    Mention("sv", <<"n", "#", "(", "8", ")", "u", "(", ")", ";">>, {1}, "module"),
    Mention("sv", <<"n", "u", "[", "3", "]", "[", "1", "]", "(", ")", ";">>, {1}, "module"),
    Mention("sv", <<"n", "#", "w", "u", "(", ")", ";">>, {1}, "module"),
    Mention("sv", <<"bind", "n", "check", "u", "(", ")", ";">>, {2}, "module"),
    Mention("sv", <<"n", "<directive>", "(", ")", ";">>, {1}, "module"),
    Mention("sv", <<"n", "<escaped>", "(", ")", ";">>, {1}, "module"),
    Mention("sv", <<"a", "=", "n", ".", "b", ";">>, {3}, "module"),
    Mention("sv", <<"a", "=", "n", ";">>, {}, "module"),
    Mention("sv", <<"a", "=", "n", "(", ")", ";">>, {}, "module"),
    Mention("sv", <<"a", "=", "b", ".", "n", ";">>, {}, "module"),
    Mention("sv", <<"logic", "n", ";">>, {}, "module"),
    Mention("sv", <<"n", "::", "t", "n", ";">>, {1}, "package"),
    Mention("sv", <<"n", "u", "(", ")", ";">>, {1}, "interface"),
    Mention("sv", <<"n", "#", "(", "8", ")", "u", "(", ")", ";">>, {1}, "interface"),
    Mention("sv", <<"virtual", "n", "v", ";">>, {2}, "interface"),
    Mention("sv", <<"(", "n", ".", "m", "p", ")", ";">>, {2}, "interface"),
    Mention("sv", <<"(", "type", "t", "=", "n", ")">>, {5}, "interface"),
    Mention("vhdl", <<"use", "work", ".", "n", ".", "all", ";">>, {4}, "package"),
    Mention("vhdl", <<"a", ":", "=", "work", ".", "n", ".", "b", ";">>, {6}, "package"),
    Mention("vhdl", <<"use", "work", ".", "n", ";", "a", ":", "=", "n", ".", "b", ";">>, {4, 9}, "package"),
    Mention("vhdl", <<"use", "lib", ".", "n", ".", "all", ";">>, {}, "package"),
    Mention("vhdl", <<"architecture", "n", "of", "e", "is", "begin", "end", "n", ";">>, {}, "package"),
    Mention("vhdl", <<"u", ":", "entity", "work", ".", "n", "port">>, {6}, "entity"),
    Mention("vhdl", <<"u", ":", "entity", "lib", ".", "n", "port">>, {}, "entity"),
    Mention("vhdl", <<"u", ":", "n", "generic">>, {3}, "entity"),
    Mention("vhdl", <<"u", ":", "component", "n", "port">>, {4}, "entity"),
    Mention("vhdl", <<"component", "n", "is", "end", "component", ";">>, {2}, "entity"),
    Mention("vhdl", <<"for", "all", ":", "n", "use", "entity", "work", ".", "n", ";">>, {4, 9}, "entity"),
    Mention("vhdl", <<"attribute", "a", "of", "n", ":", "entity", "is">>, {4}, "entity"),
    Mention("vhdl", <<"n", ":", "process">>, {}, "entity"),
    Mention("vhdl", <<"signal", "s", ":", "n", ";">>, {}, "entity"),
    Mention("chisel", <<"extends", "n">>, {2}, "module")}

Version(v, unit) == Core(1, v, {}, OneFile(unit.lang, unit.text, unit.live))
Asks(admits) == IF admits = {0} THEN {} ELSE {On(1, admits)}

Distinct == <<11, 12, 13>>
Alike == <<11, 11, 13>>

\* The consumer is the root, or a dependency under a root that is silent.
Consuming(mention, wants, others, tag) ==
    {[root |-> Core(9, 1, wants, OneFile(mention.lang, mention.text, mention.live)),
      deps |-> others, target |-> <<"rtl">>, tag |-> tag],
     [root |-> Core(9, 1, {}, OneFile(Silent.lang, Silent.text, Silent.live)),
      deps |-> Append(others, Core(5, 1, wants, OneFile(mention.lang, mention.text, mention.live))),
      target |-> <<"rtl">>, tag |-> tag]}

\* Every mention, with every constraint on the package, beside every kind of unit.
Mentioning ==
    UNION {Consuming(mention, Asks(admits), <<Version(2, unit), Version(1, unit)>>, Distinct) :
        mention \in Mentions, unit \in Units, admits \in {{0}, {}, {1}, {2}, {1, 2}}}

\* Versions that declare different things, an unrelated core that declares "n", and
\* tags that come out alike.
Differing ==
    UNION {Consuming(mention, {On(1, admits)},
            <<Version(1, unit), Version(2, other)>> \o third \o
            <<Core(4, 1, {}, OneFile(apart.lang, apart.text, apart.live))>>, tag) :
        mention \in {Instance, Import},
        unit \in Units, other \in Units \cup {Silent, Foreign},
        third \in {<<>>, <<Version(3, SvModule)>>},
        apart \in {Silent, SvModule}, admits \in {{1, 2}, {2, 3}},
        tag \in {Distinct, Alike}}

BothKinds(v) == Core(1, v, {}, <<
    Fileset_("rtl", <<>>, "sv", SvPackage.text, SvPackage.live),
    Fileset_("tb", <<>>, "sv", SvModule.text, SvModule.live)>>)

Ambiguous ==
    {[root |-> Core(9, 1, {}, <<>>), deps |-> <<BothKinds(1), BothKinds(2)>>,
      target |-> <<>>, tag |-> Distinct]}

Plain(ref, ver, refs) ==
    Core(ref, ver, {On(r, {1}) : r \in refs}, OneFile("sv", <<>>, All(<<>>, "module")))

\* Every graph of three packages, one of them in one version or two.
Graphs ==
    {[root |-> Plain(9, 1, {}), deps |-> deps, target |-> <<"rtl">>, tag |-> Distinct] :
        deps \in UNION {
            {<<Plain(1, 1, a), Plain(2, 1, b), Plain(3, 1, c)>>,
             <<Plain(3, 1, c), Plain(1, 1, a), Plain(3, 2, d), Plain(2, 1, b)>>} :
            a \in SUBSET {2, 3}, b \in SUBSET {1, 3}, c \in SUBSET {1, 2}, d \in SUBSET {1, 2}}}

Names == {<<>>, <<"rtl">>, <<"a">>, <<"tb">>, <<"gone", "a">>, <<"tb", "rtl">>, <<"a", "tb">>}
Blank(name, depend) == Fileset_(name, depend, "sv", <<>>, All(<<>>, "module"))

\* Every graph of the filesets of a core and every target.
Filesets ==
    {[root |-> Core(9, 1, {On(2, {1})}, sets), deps |-> <<Core(2, 1, {}, sets)>>,
      target |-> target, tag |-> Distinct] :
        sets \in UNION {{<<Blank("a", x), Blank("rtl", y), Blank("tb", z)>>,
                         <<Blank("tb", x), Blank("a", y)>>} : x \in Names, y \in Names, z \in Names},
        target \in {<<"rtl">>, <<"tb">>, <<"tb", "rtl">>, <<"a", "gone">>}}

AllProblems == Mentioning \cup Differing \cup Ambiguous \cup Graphs \cup Filesets

\* The texts above are such as the theorem about ReferencesFollow supposes.
ASSUME SeenAssumption == \A one \in AllProblems : TextsAreSeen(one)

\* Two versions of an entity that each have an attribute, and a consumer without one.
Attribute == Declares("vhdl", "entity",
    <<"entity", "n", "is", "attribute", "a", "of", "n", ":", "entity", "is", "end">>)
Attributed ==
    Consuming(Mention("vhdl", <<"u", ":", "n", "port">>, {3}, "entity"), {On(1, {1, 2})},
              <<Version(2, Attribute), Version(1, Attribute)>>, Distinct)
=============================================================================
