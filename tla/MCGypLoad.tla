------------------------------ MODULE MCGypLoad -----------------------------
(* Build files that depend on each other, in two directories, and samples of  *)
(* the values that gyp merges, moves, filters and expands.                    *)
EXTENDS GypCheck

CONSTANTS MCRoots,      \* what the command lines name
          MCSamples

MCPathSections == {"sources", "include_dirs"}
MCNonConfigurationKeys == {"dependencies", "target_name", "type", "configurations", "default_configuration"}
MCInvalidConfigurationKeys == {"type"}
MCOutput == [c \in {Named("echo")} |-> Fixed("printed")]
MCOrder == <<Named("variables"), Named("sources"), <<"sources", "+">>, <<"sources", "=">>, <<"sources", "?">>,
             Named("target_name"), Named("toolsets"), Named("toolset"), Named("dependencies"), Named("targets"),
             Named("target_defaults"), Named("conditions"), Named("target_conditions"), Named("included_files"),
             Named("x"), Named("y"), <<"x", "%">>, Named("l"), Named("sub"), Named("leaf")>>

Dep(file) == [dep |-> [file |-> file, target |-> "t", toolset |-> ""]]
Target(ds) == Dict((Named("target_name") :> Fixed("t")) @@ (Named("dependencies") :> List(ds)))
File(ds) == Dict(Named("targets") :> List(<<Target(ds)>>))

A == <<"a.gyp">>    B == <<"sub", "b.gyp">>    C == <<"sub", "c.gyp">>    D == <<"d.gyp">>    E == <<"e.gyp">>    F == <<"f.gyp">>
Common == <<"common.gypi">>
NoFiles == <<>>
Here == <<>>

MCContent ==
    (A :> Dict((Named("targets") :> List(<<Target(<<Dep(B), Dep(C), Dep(<<>>)>>)>>))
               @@ (Named("target_defaults") :> Dict(Named("sources") :> List(<<Path(<<"a.c">>)>>)))))
    @@ (B :> Dict((Named("includes") :> List(<<Path(<<"..", "common.gypi">>)>>))
                  @@ (Named("targets") :> List(<<Target(<<Dep(<<"c.gyp">>), Dep(<<"..", "a.gyp">>)>>)>>))))
    @@ (C :> Dict((Named("conditions") :>
                     List(<<List(<<[cond |-> <<Named("x"), Fixed("1")>>],
                                   Dict(Named("targets") :> List(<<Target(<<Dep(<<"..", "d.gyp">>)>>)>>))>>)>>))
                  @@ (Named("variables") :> Dict(<<"x", "%">> :> Fixed("1")))))
    @@ (D :> File(<<>>)) @@ (F :> File(<<>>))
    @@ (E :> File(<<Dep(D), Dep(<<"none.gyp">>), Dep(A)>>))
    @@ (Common :> Dict(Named("target_defaults") :>
                         Dict((Named("sources") :> List(<<Path(<<"main.c">>)>>))
                              @@ (Named("toolsets") :> List(<<Fixed("host"), Fixed("target")>>)))))

-----------------------------------------------------------------------------
Strings == {Path(<<"m">>), Path(<<"n">>), Flag("f")}
Lists(n) == UNION {[1..i -> Strings] : i \in 0..n}
Keyed == {Named("sources"), <<"sources", "+">>, <<"sources", "=">>, <<"sources", "?">>}

\* Merges of dictionaries with two keys for one list.
Merges(Given, From) ==
    {[kind |-> "merge", to |-> Dict(IF l = <<>> THEN <<>> ELSE Named("sources") :> List(l)),
      fro |-> Dict([k \in {p[1], p[2]} |-> IF k = p[1] THEN List(m) ELSE List(n)]),
      orders |-> {<<p[1], p[2]>>, <<p[2], p[1]>>}] :
        l \in Given, m \in From, n \in Lists(1), p \in {q \in Keyed \X Keyed : q[1] # q[2]}}

Components == {"", "..", "x", "sub"}
PathSamples ==
    {[kind |-> "path", to_file |-> t, fro_file |-> f, item |-> Path(p)] :
        t \in {A, B, <<"sub", "x", "f">>, <<"..", "g">>}, f \in {A, B, <<"sub", "x", "f">>, <<"..", "g">>},
        p \in {q \in UNION {[1..n -> Components] : n \in 1..3} : q[1] # ""}}

FilterSamples ==
    LET Regexes == {List(<<Fixed(a), [regex |-> s]>>) : a \in {"include", "exclude"}, s \in SUBSET Strings}
    IN  {[kind |-> "filter",
          dict |-> (Named("l") :> List(l)) @@ (<<"l", "!">> :> List(e)) @@ (<<"l", "/">> :> List(rs))] :
            l \in {<<Path(<<"m">>), Path(<<"n">>), Path(<<"m">>)>>, <<Flag("f"), Path(<<"n">>)>>},
            e \in Lists(1), rs \in UNION {[1..n -> Regexes] : n \in 0..2}}

EvalSamples ==
    LET Leaves == {Fixed("v"), Ref(0, FALSE, Named("x")), Ref(1, FALSE, Named("y")),
                   Ref(0, FALSE, Named("y")), Command(0, Named("echo")), Ref(0, TRUE, Named("l"))}
        Cond(key, b) == key :> List(<<List(<<[cond |-> <<Named("x"), Fixed("1")>>], b,
                                            Dict(Named("leaf") :> Fixed("else"))>>)>>)
    IN  {[kind |-> "eval",
          dict |-> (Named("variables") :> Dict((Named("x") :> x) @@ (Named("y") :> y)
                                               @@ (Named("l") :> List(<<y>>))))
                   @@ (Named("leaf") :> f) @@ (Named("sources") :> List(<<g, f>>))
                   @@ Cond(Named(c), Dict((Named("leaf") :> g) @@ (Named("sub") :> Dict(Named("leaf") :> g))))] :
            x \in {Fixed("1"), Fixed("2"), Ref(0, FALSE, Named("y"))}, y \in {Fixed("1"), Ref(1, FALSE, Named("x"))},
            f \in Leaves, g \in Leaves, c \in {"conditions", "target_conditions"}}

ScopeSamples ==
    {[kind |-> "scopes", scopes |-> s] :
        s \in [1..3 -> {[set |-> Fixed("1")], [set |-> Fixed("2")], [default |-> Fixed("3")],
                        [default |-> Fixed("4")], <<>>}]}

\* A target with settings of its own and configurations that inherit from an abstract one or
\* from each other, or from one that is missing.
ConfigurationSamples ==
    LET debug == Named("Debug")
        release == Named("Release")
        base == Named("Base")
        orders == {[i \in DOMAIN o |-> Named(o[i])] \o <<Named("l"), Named("y"), Named("inherit_from"), Named("abstract")>> :
                     o \in SetToSeqs({"Base", "Debug", "Release"})}
        Config(own, parents) == Dict(own @@ Named("inherit_from") :> List([i \in DOMAIN parents |-> Fixed(parents[i])]))
        Owns == {<<>>, Named("l") :> List(<<Flag("f"), Fixed("m")>>), Named("y") :> Fixed("3")}
    IN  {[kind |-> "configurations", concrete |-> IF a = [int |-> 0] THEN <<"Base", "Debug", "Release">> ELSE <<"Debug", "Release">>,
          target |-> (Named("y") :> Fixed("1")) @@ (Named("l") :> List(<<Flag("g")>>))
                     @@ (Named("configurations") :>
                          Dict((base :> Config((Named("abstract") :> a) @@ (Named("y") :> Fixed("2")), <<>>))
                               @@ (debug :> Config(d, dp)) @@ (release :> Config(r, rp)))),
          orders |-> orders] :
            a \in {[int |-> 0], [int |-> 1]}, d \in Owns, r \in Owns,
            dp \in {<<>>, <<"Base">>, <<"Base", "Release">>, <<"None">>}, rp \in {<<>>, <<"Base">>, <<"Debug">>}}

Samples == Merges(Lists(2), Lists(2)) \cup ConfigurationSamples \cup PathSamples \cup FilterSamples \cup EvalSamples \cup ScopeSamples

RootLists == {<<A>>, <<E>>, <<B>>, <<C, F>>, <<D, C>>}

-----------------------------------------------------------------------------
\* Command lines in two directories of a source tree.
Rel(p) == [abs |-> FALSE, p |-> p]
Src == <<"home", "src">>
Sub == <<"home", "src", "sub">>
MCBuildFilesIn == (Src :> <<"all.gyp", "x.gyp">>) @@ (Sub :> <<>>) @@ (<<"home">> :> <<>>) @@ (<<"home", "src", "gen">> :> <<>>)
Define(a, v) == <<a, v>>
Empty == [GYP_DEFINES |-> <<>>, GYP_GENERATOR_FLAGS |-> <<>>, GYP_GENERATOR_OUTPUT |-> <<>>, GYP_GENERATORS |-> <<>>, GYP_PARALLEL |-> <<>>]
MCEnvironments ==
    {Empty, [Empty EXCEPT !.GYP_GENERATOR_OUTPUT = <<Rel(<<"gen">>)>>, !.GYP_GENERATORS = <<"make">>, !.GYP_PARALLEL = <<"1">>],
     [Empty EXCEPT !.GYP_DEFINES = <<Define("a", "1"), Define("a", "2"), Define("a", "1")>>,
                   !.GYP_GENERATOR_FLAGS = <<Define("android_ndk_version", "r8")>>, !.GYP_GENERATORS = <<"ninja", "make">>]}
Arguments ==
    {[build_files |-> b, defines |-> d, includes |-> i, debug |-> <<>>, generator_flags |-> g, configs |-> c, formats |-> <<>>,
      depth |-> e, generator_output |-> <<>>, toplevel_dir |-> t, suffix |-> <<".x">>, msvs_version |-> <<>>, check |-> <<TRUE>>,
      parallel |-> <<>>, ignore_environment |-> n, no_circular_check |-> <<>>] :
        b \in {<<>>, <<Rel(<<"all.gyp">>)>>}, d \in {<<>>, <<Define("a", "3")>>}, i \in {<<Rel(<<"..", "common.gypi">>)>>},
        g \in {<<>>, <<Define("auto_regeneration", "0")>>}, c \in {<<"Debug">>}, e \in {<<>>, <<Rel(<<".">>)>>, <<Rel(<<"..">>)>>},
        t \in {<<>>, <<Rel(<<".">>)>>}, n \in {<<>>, <<TRUE>>}}
Invocations == [cwd : {Src, Sub}, args : Arguments, env : MCEnvironments, count : {1}]

MCInit == \/ \E r \in MCRoots : CheckInit(r, {None}, {Main!NoRun})
          \/ CheckInit(<<D>>, MCSamples, {Main!NoRun})
          \/ CheckInit(<<D>>, {[kind |-> "main"]}, Invocations)
MCSpec == MCInit /\ [][CheckNext]_checkVars /\ WF_checkVars(Load)
=============================================================================
