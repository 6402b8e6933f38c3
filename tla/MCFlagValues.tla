----------------------------- MODULE MCFlagValues -----------------------------
(***************************************************************************)
(* Names that are prefixes and negations of each other, with and without   *)
(* short names; flag files that name each other and themselves.            *)
(***************************************************************************)
EXTENDS FlagValues

a == <<"a">>
ab == <<"a", "b">>
noa == <<"n", "o", "a">>
nob == <<"n", "o", "b">>

Def(name, short, kind, default) == [name |-> name, short |-> short, kind |-> kind, default |-> default, override |-> FALSE]
Boolean(name, default) == Def(name, <<>>, "boolean", default)
Pool == {Def(ab, a, "boolean", <<"0">>), Boolean(a, None), Boolean(<<"b">>, <<"1">>), Boolean(nob, <<"0">>),
         Def(noa, <<>>, "string", None), Def(<<"n">>, <<>>, "multi_int", <<"1">>), Def(<<"b", "n">>, <<"n">>, "enum", None)}
In(m, d) == [module |-> m, def |-> d]
Program(defs) == [i \in DOMAIN defs |-> In(IF i = 2 THEN "lib" ELSE "main", defs[i])]
MCPrograms == {Program(SetToSeq(S)) : S \in kSubset(3, Pool)} \cup
              {Program(<<Def(ab, a, "boolean", <<"0">>), Def(<<"n">>, <<>>, "multi_int", <<"1">>)>>),
               Program(<<Def(<<"b", "n">>, <<"n">>, "enum", None), Boolean(<<"b">>, <<"1">>)>>)}
MCDefs == {[Def(ab, <<>>, "integer", <<"2">>) EXCEPT !.override = TRUE], Def(a, <<>>, "integer", <<"x">>)}
MCOtherDefs == {Def(ab, <<"b">>, "string", None), Def(<<"o">>, a, "boolean", <<"0">>)}

Arg(form, name) == [form |-> form, name |-> name, has |-> FALSE, val |-> "", names |-> <<>>]
Bare(name) == Arg("long", name)
Set(name, val) == [Bare(name) EXCEPT !.has = TRUE, !.val = val]
Short(name) == Arg("short", name)
Plain(val) == [Arg("plain", <<>>) EXCEPT !.val = val]
File(f) == [Arg("flagfile", <<>>) EXCEPT !.has = TRUE, !.val = f]
Undefok(names) == [Arg("undefok", <<>>) EXCEPT !.names = names]
Dashes == Arg("dashes", <<>>)

MCArgvs == {<<Bare(ab), File("f"), Bare(noa)>>, <<File("f"), Bare(<<"n", "o", "a", "b">>), Set(<<"n">>, "2"), Plain("x"), Bare(a)>>,
            <<Short(a), Set(noa, "s"), Short(<<"n">>), Plain("1"), File("g")>>,
            <<Set(ab, "t"), Arg("flagfile", <<>>), Plain("g"), Bare(<<"b">>), Dashes, Bare(ab)>>,
            <<Set(ab, "2"), Set(<<"b">>, "x")>>, <<Bare(<<"n", "o">>), Undefok(<<a, <<"n", "o">>>>)>>,
            <<Bare(nob), File("f"), Arg("flagfile", <<>>)>>, <<File("h"), Bare(ab), Set(<<"b">>, "1")>>,
            <<File("k"), Set(<<"b">>, "0"), Bare(nob)>>, <<Plain("x"), Bare(ab)>>}

\* The first two hold a plain word, and an option that lacks its value.
MCFiles == ("h" :> <<Set(ab, "0"), Plain("x"), Bare(<<"b">>)>>) @@ ("k" :> <<Bare(nob), Bare(noa)>>) @@
           ("f" :> <<Set(ab, "1"), Set(<<"n">>, "1"), File("g"), Bare(nob)>>) @@
           ("g" :> <<Set(ab, "0"), File("f"), File("g"), File("none"), Set(noa, "r"), Undefok(<<ab, <<"n">>, <<"b">>, a>>)>>)
MCLetters == <<"a", "b", "n", "o">>
MCDefaults == {None, <<"0">>, <<"x">>}
=============================================================================
