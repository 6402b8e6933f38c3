------------------------------ MODULE MCXcode -------------------------------
(***************************************************************************)
(* Two build files, each with two targets: a library and a tool, and an    *)
(* application that uses the library with a target for everything.  A      *)
(* folder is given once, or, in some, again.                               *)
(***************************************************************************)
EXTENDS XcodeGen

Var == "$(INTERMEDIATE_DIR)"
fileA == <<"A">>
fileB == <<"d", "B">>

Bare == [xcode_settings |-> <<>>, config_file |-> <<>>, framework_dirs |-> <<>>, include_dirs |-> <<>>, defines |-> <<>>]
Debug == [Bare EXCEPT !.xcode_settings = ("GCC_OPTIMIZATION_LEVEL" :> "0") @@ ("OTHER" :> "d"), !.include_dirs = <<"inc">>,
                      !.config_file = <<<<"src", "d.xcconfig">>>>]
Release == [Bare EXCEPT !.xcode_settings = "OTHER" :> "r", !.include_dirs = <<"inc", "deps">>, !.defines = <<"NDEBUG">>]

Plain(file, name, type, dependencies) ==
    [file |-> file, name |-> name, type |-> type, bundle |-> FALSE, dependencies |-> dependencies,
     sources |-> <<>>, resources |-> <<>>, headers |-> <<>>, actions |-> <<>>, rules |-> <<>>, copies |-> <<>>,
     excluded |-> <<>>, postbuilds |-> <<>>, libraries |-> <<>>,
     product_name |-> <<>>, product_prefix |-> <<>>, product_extension |-> <<>>, product_dir |-> <<>>,
     default_configuration |-> "Release", configurations |-> ("Debug" :> Bare) @@ ("Release" :> Bare),
     run_as |-> FALSE, suppress_wildcard |-> FALSE, test_runner |-> FALSE]

Cocoa == <<"$(SDKROOT)", "fw", "Cocoa.framework">>
Nib(lang) == <<"r", lang, "m.nib">>

\* The files of the library: directories inside and above its own, deep or flat.
SourceLists == {<<>>, <<<<"a.c">>>>, <<<<"src", "a.c">>>>, <<<<"src", "x", "a.c">>, <<"src", "x", "b.c">>>>,
                <<<<"src", "a.c">>, <<"src", "x", "y", "b.c">>>>, <<<<"src", "a.c">>, <<"..", "src", "a.c">>>>,
                <<<<"Source", "a.c">>>>, <<<<"src", "..", "x", "a.c">>, <<Var, "x", "y", "b.c">>, <<Var, "x", "h.h">>>>,
                <<<<"src", "z.o">>, <<"src", "z.a">>>>}

GenAction == [name |-> "gen", inputs |-> <<<<"src", "g.in">>>>, outputs |-> <<<<Var, "g.c">>, <<Var, "g.a">>>>,
              as_sources |-> TRUE, as_resources |-> FALSE]
GenRule == [name |-> "y", sources |-> <<<<"src", "p.y">>, <<"q.y">>>>,
            outputs |-> <<<<<<Var, "p.c">>>>, <<<<Var, "q.c">>>>>>, inputs |-> <<<<"src", "y.skel">>, <<"lib", "y.a">>>>,
            as_sources |-> TRUE, as_resources |-> FALSE]

Copies == <<[destination |-> <<"out">>, files |-> <<<<"src", "data">>>>], [destination |-> <<"out">>, files |-> <<<<"data">>>>],
            [destination |-> <<"$(BUILT_PRODUCTS_DIR)", "etc">>, files |-> <<<<"src", "data">>>>]>>

Libs == {[Plain(fileA, "libz", type, <<>>) EXCEPT !.sources = sources, !.headers = <<<<"src", "h.h">>>>,
            !.copies = IF type = "static_library" THEN Copies ELSE <<>>,
            !.run_as = (type = "shared_library"), !.suppress_wildcard = (type = "static_library"),
            !.configurations = IF type = "static_library" THEN @ @@ ("Coverage" :> Debug) ELSE ("Debug" :> Debug) @@ ("Release" :> Release),
            !.product_extension = IF type = "shared_library" THEN <<"so">> ELSE <<>>] :
           type \in {"static_library", "shared_library"}, sources \in SourceLists}

Tools == {Plain(fileA, "tool", "executable", <<>>),
          [Plain(fileA, "tool", "executable", <<"z">>) EXCEPT !.rules = <<GenRule>>, !.run_as = TRUE,
             !.product_name = <<"t">>, !.product_extension = <<"bin">>, !.product_dir = <<"out">>,
             !.libraries = <<Cocoa, <<"lib", "z.a">>, <<"lib", "y.a">>>>,
             !.configurations = ("Debug" :> Debug) @@ ("Release" :> Release) @@ ("Coverage" :> Release),
             !.sources = <<<<"src", "p.y">>, <<"q.y">>, <<"src", "main.c">>>>],
          [Plain(fileA, "tool", "none", <<"z">>) EXCEPT !.actions = <<[GenAction EXCEPT !.as_sources = FALSE]>>,
             !.rules = <<[GenRule EXCEPT !.as_sources = FALSE]>>, !.test_runner = TRUE]}

Apps == {[Plain(fileB, "app", "executable", <<"z">>) EXCEPT !.bundle = TRUE, !.actions = <<GenAction>>,
            !.sources = <<<<"src", "main.c">>>>, !.libraries = <<Cocoa>>, !.postbuilds = <<"strip">>,
            !.resources = <<Nib("en.lproj"), Nib("fr.lproj"), <<"r", "icon">>>>, !.run_as = TRUE],
         [Plain(fileB, "app", "loadable_module", <<"tool", "z">>) EXCEPT !.product_prefix = <<"mod">>, !.resources = <<<<"r", "icon">>>>,
            !.sources = <<<<"src", "deep", "main.c">>>>]}

Everything == {[Plain(fileB, name, "none", IF name = "all" THEN <<"app", "tool">> ELSE <<"app">>) EXCEPT !.test_runner = TRUE,
                  !.excluded = <<<<"src", "old.c">>, <<"res", "">>>>, !.run_as = (name = "all")] : name \in {"all", "most"}}
Again == [Plain(fileB, "again", "none", <<"app">>) EXCEPT !.excluded = <<<<"res", "">>, <<"src", "old.c">>, <<"res", "">>>>]

\* What the build files set for their projects.
Settings == (fileA :> [xcode_settings |-> "OTHER" :> "p", config_file |-> <<<<"src", "d.xcconfig">>>>,
                       configurations |-> ("Debug" :> [xcode_settings |-> "OTHER" :> "q", config_file |-> <<>>])
                                          @@ ("Unused" :> [xcode_settings |-> <<>>, config_file |-> <<<<"no.xcconfig">>>>])])
            @@ (fileB :> [xcode_settings |-> <<>>, configurations |-> <<>>, config_file |-> <<>>])

AllInputs ==
    {[files |-> {fileA, fileB}, included |-> (fileA :> <<fileA, <<"common.gypi">>>>) @@ (fileB :> <<fileB>>),
      generator_output |-> IF all.name = "most" THEN <<"out">> ELSE <<>>,
      targets |-> (fileA :> <<"tool", "z">>) @@ (fileB :> <<"all", "app">>),
      specs |-> ("z" :> z) @@ ("tool" :> tool) @@ ("app" :> app) @@ ("all" :> all),
      settings |-> Settings,
      list |-> IF app.dependencies = <<"z">> THEN <<"z", "app", "tool", "all">> ELSE <<"z", "tool", "app", "all">>] :
       z \in Libs, tool \in Tools, app \in Apps, all \in Everything \cup {Again}}
MCInputs ==
    {i \in AllInputs : i.specs["all"] # Again \/ i.specs["z"].sources = <<>>}

MCSourceTrees == {Var, "$(SDKROOT)", "$(BUILT_PRODUCTS_DIR)"}
MCLProj       == {"en.lproj", "fr.lproj"}
MCObjects     == {"z.o"}
MCSources     == {"a.c", "b.c", "g.c", "p.c", "q.c", "main.c", "old.c"}
MCLibraries   == {"z.o", "z.a", "y.a", "g.a"}
MCCwd         == <<"/", "home">>
MCStandardDirs == {<<"$(SDKROOT)", "fw">>}
MCUnprefixed  == <<"lib", "libz">> :> "z"
MCNameOrder   == <<<<"Coverage">>, <<"Debug">>, <<"Release">>, <<"Source">>, <<"..">>, <<"a.c">>, <<"b.c">>, <<"x">>, <<"x", "y">>, <<"src">>, <<"src", "x">>>>
=============================================================================
