------------------------------ MODULE MCObjects ------------------------------
(* Objects and Discovery for TLC.  Resolving: a host with two templates that *)
(* share a third one, in every order of loading and with every choice of     *)
(* which of them define something, which a discovery then finds too.         *)
(* Searching: all directories of two pages, with two discoveries.            *)
(* Variables: a base with every kind of variable.                            *)
EXTENDS Discovery

NoTag == <<>>
Def(n, use, flag, has, tags) ==
    [name |-> n, use |-> use, string |-> FALSE, flag |-> flag,
     dict |-> FALSE, tags |-> tags, opt |-> IF has THEN n ELSE None, list |-> IF has THEN {n} ELSE None]
WithDict(d) == [d EXCEPT !.dict = TRUE]
WithString(d) == [d EXCEPT !.string = TRUE]

\* A name of one character is its own; what the others are spelt with is one
\* name more, which no object has.
LettersOf == [n \in Name |-> CASE n \in {"a", "b"} -> <<n>>
                              [] n = "base" -> <<"b", "a", "letter">>
                              [] OTHER -> <<"letter">>]

Uses == [n \in {"host", "a", "b", "base"} |->
            CASE n = "host" -> <<"a", "b">>
              [] n = "base" -> <<>>
              [] OTHER -> <<"base">>]

\* The orders of a set of definitions.
Orders(definitions) == SetToSeqs(definitions)

Diamond(flags, has, tags) ==
    {Def(n, Uses[n], IF n \in flags THEN n = "host" ELSE None, n \in has,
         IF n \in tags THEN [site |-> n] ELSE NoTag) : n \in DOMAIN Uses}
Flags == SUBSET {"a", "b", "base"} \cup {{"host", "a"}}
Diamonds ==
    {Diamond(flags, has, {}) : flags \in Flags, has \in SUBSET DOMAIN Uses}
    \cup {Diamond({}, has, tags) : has \in SUBSET DOMAIN Uses, tags \in {{"host"}, {"host", "b"}}}

\* An unknown template, an unknown check, templates in a circle, a dict of two
\* objects; and one dict, which is no fault, and a host that is found with
\* one more template when it is resolved.
Faulty ==
    {{Def("host", <<"a", "b">>, None, TRUE, NoTag), Def("a", <<>>, None, TRUE, NoTag)},
     {Def("host", <<"a">>, None, TRUE, NoTag),
      [Def("a", <<>>, None, TRUE, NoTag) EXCEPT !.list = {"nocheck"}]},
     {Def("host", <<"a">>, None, TRUE, NoTag), Def("a", <<"b">>, None, TRUE, NoTag),
      Def("b", <<"a">>, None, TRUE, NoTag)},
     {WithDict(Def("host", <<"a">>, None, TRUE, NoTag)), WithDict(Def("a", <<>>, None, TRUE, NoTag))},
     {Def("host", <<"a">>, None, TRUE, NoTag), WithDict(Def("a", <<>>, None, TRUE, NoTag))},
     {Def("host", <<"a">>, None, TRUE, NoTag), Def("a", <<>>, None, FALSE, NoTag), Def("b", <<>>, FALSE, TRUE, NoTag)}}

\* A host with two definitions, the templates of which are a list or a string.
Twice ==
    {{Def("host", <<"a">>, None, TRUE, NoTag), second,
      Def("a", <<>>, FALSE, TRUE, NoTag), Def("base", <<>>, TRUE, TRUE, NoTag)} :
        second \in {Def("host", <<"base">>, None, FALSE, NoTag),
                    WithString(Def("host", <<"base">>, None, FALSE, NoTag)),
                    WithString(Def("host", <<"a">>, None, FALSE, NoTag))}}

Files == UNION {Orders(ds) : ds \in Diamonds \cup Faulty \cup Twice}

-----------------------------------------------------------------------------
Dn     == Str(<<Text("dn")>>)
Other  == Str(<<Text("other")>>)
NoVariables == <<>>
Searches(from, refresh, use) ==
    [base |-> from, register |-> TRUE, refresh |-> refresh, use |-> use]
Unregistered == [Searches(Dn, TRUE, <<>>) EXCEPT !.register = FALSE]

\* The host is found as it is in the files, or with another tag.
Resolving ==
    {[files |-> f, discoveries |-> << Searches(Dn, TRUE, <<"a", "b">>), Unregistered >>,
      table |-> NoVariables,
      directories |-> {Dn :> << <<Entry("host", "a")>> >>}] : f \in Files}

\* A host is found, and then its template too.
TemplateFound ==
    {[files |-> << Def("a", <<>>, None, TRUE, tag) >>,
      discoveries |-> << Searches(Dn, TRUE, <<"a">>), Searches(Other, TRUE, <<>>) >>,
      table |-> NoVariables,
      directories |-> {Dn :> << <<Entry("host", "b")>> >> @@ Other :> << entries >> :
                        entries \in {<<>>, <<Entry("a", "b")>>}}] : tag \in {NoTag, [site |-> "a"]}}

\* One or two pages with anything in them, or three; a second discovery works,
\* or not; the directory is repaired.
OneTemplate == << Def("a", <<>>, None, TRUE, NoTag) >>
Page  == SeqOf({Referral, Bad, Entry("host", "a"), Entry(None, "b")}, 2)
Small == SeqOf({Entry("host", "a"), Entry("b", "b")}, 1)
Pages == {<<p>> : p \in Page} \cup (Page \X Page) \cup (Small \X Small \X Small)
Repaired == << <<Entry("host", "a")>>, <<Entry("b", "host")>> >>
TwoSearches(refresh, directories) ==
    [files |-> OneTemplate,
     discoveries |-> << Searches(Dn, refresh, <<"a">>), Searches(Other, TRUE, <<>>) >>,
     table |-> NoVariables, directories |-> directories]
With(pages) == Dn :> pages @@ Other :> << <<Entry("base", "b")>> >>
Searching ==
    {TwoSearches(refresh, {With(pages)}) : pages \in Pages, refresh \in {TRUE}}
    \cup {TwoSearches(FALSE, {With(<<p>>), With(Repaired)}) : p \in Page}
    \cup {TwoSearches(TRUE, {Other :> Repaired})}

\* Every value for two variables.
Value == {Number, List(<<Str(<<Var("x")>>)>>), Str(<<Text("dn")>>), Str(<<Var("x")>>), Str(<<Var("y")>>),
          Str(<<Var("x"), Text("dn")>>), Str(<<Text("d"), Var("y")>>), Str(<<Var("x"), Var("y")>>)}
Tables == UNION {[D -> Value] : D \in SUBSET {"x", "y"}}
Replacing ==
    {[files |-> OneTemplate, discoveries |-> << Searches(v, TRUE, <<>>), Unregistered >>, table |-> t,
      directories |-> {Dn :> << <<Entry("host", "a")>> >>}] : v \in {u \in Value : u.type = "str"}, t \in Tables}

AllSetups == Resolving \cup TemplateFound \cup Searching \cup Replacing
=============================================================================
