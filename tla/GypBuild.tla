------------------------------ MODULE GypBuild ------------------------------
(***************************************************************************)
(* gyp from its targets to the build: Load (GypInput), then the generator  *)
(* for ninja, make or Android writes the steps of the build and what each  *)
(* waits for.  The properties are about every order in which the build may *)
(* then run the steps, and about the files that they write.                *)
(***************************************************************************)
EXTENDS GypInput

CONSTANTS Generators, Flavors, LimitToTargetAll,
          build_files           \* what gyp is called with

Ninja == INSTANCE GypNinja
Make == INSTANCE GypMake
Android == INSTANCE GypAndroid

VARIABLES original,     \* what Load was given
          edges         \* what each step waits for; {} until they are written
buildVars == <<flattenVars, inputVars, original, edges>>

BuildInit(s) == InputInit(s) /\ original = s /\ edges = <<>>

Loading == InputNext /\ UNCHANGED <<original, edges>>

\* The targets that `all` has to build.
needed_targets == UNION {AllTargets(specs, nodes, f) : f \in build_files}

\* With loadable modules or a product_dir the Android generator fails an assertion.
GenerateOutput(generator, flavor) ==
    LET android == Android!AndroidEdges(flat_list, specs, needed_targets, LimitToTargetAll)
    IN  /\ step = "done"
        /\ generator = "android" => flavor # "mac"
        /\ step' = CASE generator = "android" /\ android.failed -> "raised"
                     [] generator = "android" /\ android.ERROR -> "not unique"
                     [] OTHER -> generator
        /\ edges' = CASE generator = "ninja" -> Ninja!NinjaEdges(flat_list, specs, flavor, needed_targets)
                      [] generator = "make" -> Make!MakeEdges(flat_list, specs, flavor, needed_targets)
                      [] OTHER -> IF android.failed \/ android.ERROR THEN <<>> ELSE android.edges
        /\ UNCHANGED <<flattenVars, specs, nodes, original>>

BuildNext == Loading \/ \E generator \in Generators, flavor \in Flavors : GenerateOutput(generator, flavor)

-----------------------------------------------------------------------------
(* What the properties are about.                                          *)

Generated == step \in Generators

\* Every step that has run once those of S have.
RECURSIVE Before(_)
Before(S) == LET more == S \cup UNION {edges[s] : s \in S \cap DOMAIN edges}
             IN  IF more = S THEN S ELSE Before(more)

\* The targets reached from t, through those in `through` only.
RECURSIVE Reached(_, _)
Reached(S, through) ==
    LET more == S \cup UNION {graph[t] : t \in S \cap through}
    IN  IF more = S THEN S ELSE Reached(more, through)

\* A program or shared library that compiles nothing, though it may have actions.  With
\* ninja its link does not wait for them (WriteLink); with make on a Mac the bundle does
\* not: they, and what the target depends on, come before the binary, which the bundle
\* then does not need (WriteDependencyOnExtraOutputs).
Hollow(t) == /\ specs[t].type \in linkable_types /\ Objects(t, specs[t]) = {}
             /\ step = "ninja" \/ (step = "make" /\ <<t, "bundle">> \in DOMAIN edges)

\* All a target waits for in the end, but not what only such a one would wait for.
RECURSIVE Waited(_)
Waited(S) == LET more == S \cup UNION {ToSet(specs[t].dependencies) : t \in {u \in S : ~Hollow(u)}}
             IN  IF more = S THEN S ELSE Waited(more)

\* The direct dependencies of t and what those of them in `through` export, and so on.
RECURSIVE Exported(_, _)
Exported(S, through) ==
    LET more == S \cup UNION {ToSet(specs[t].exports) : t \in S \cap through}
    IN  IF more = S THEN S ELSE Exported(more, through)

LinkStep(t) == {<<t, "link">>, <<t, "binary">>} \cap DOMAIN edges
LastStep(t) ==
    LET of == {s \in DOMAIN edges : s[1] = t}
    IN  IF <<t, "bundle">> \in of THEN <<t, "bundle">>
        ELSE IF <<t, "install">> \in of THEN <<t, "install">> ELSE CHOOSE s \in LinkStep(t) : TRUE

NonLinkable == {t \in Targets : specs[t].type \notin linkable_types}

-----------------------------------------------------------------------------
(* Properties.                                                             *)

\* No step waits for itself, and none for something that nobody makes
\* (Write and WriteSpec look up only what was written before).
Runs == Generated => \A s \in DOMAIN edges : edges[s] \subseteq DOMAIN edges /\ s \notin Before(edges[s])

\* A file is compiled only when every action has run that may write something it
\* includes: those of its own target, of all its target depends on in the end, and of
\* the hard dependencies that it names or is handed by those it names; a target
\* without actions hands on what it waits for (AdjustStaticLibraryDependencies,
\* compile_depends of WriteSpec, WriteSources).  This leaves out, with ninja and with make
\* on a Mac, the actions of programs and bundles that compile nothing, and what comes only
\* by way of them (WriteLink, WriteDependencyOnExtraOutputs).
GeneratedFirst ==
    Generated =>
        \A t \in Targets :
            LET hard == {d \in Exported(graph[t], {u \in Targets : ~Hollow(u)}) :
                           specs[d].type = "static_library" /\ specs[d].hard}
                others == {d \in graph[t] : specs[d].type # "static_library"}
            IN  Objects(t, specs[t]) # {} =>
                    UNION {ToSet(Actions(d, specs[d])) : d \in {u \in Waited({t}) \cup hard \cup others : ~Hollow(u)}}
                        \subseteq Before({<<t, "compile">>})

\* An action runs when everything its target depends on is built and linked, for
\* it may run a program of theirs (actions_depends of WriteSpec, WriteTarget); a Mac
\* bundle of make's that compiles nothing has no program.
ToolsBuilt ==
    Generated =>
        \A t \in Targets : \A a \in ToSet(Actions(t, specs[t])) : \A d \in ToSet(specs[t].dependencies) :
            (step = "make" /\ Hollow(d)) \/ LinkStep(d) \subseteq Before({a})

\* A program or shared library is linked after, and with, every static or shared library
\* that it reaches without passing another linkable target, or a target without
\* 'traverse' (LinkDependencies, LinkableDependencies, WriteLink, ComputeDeps).
LinkedWithAll ==
    Generated =>
        \A t \in Targets \ NonLinkable :
            \A d \in Reached(graph[t], {u \in NonLinkable : specs[u].type # "none" \/ specs[u].traverse}) \ {t} :
                specs[d].type \in {"static_library", "shared_library"} =>
                    LinkStep(d) \subseteq UNION {edges[l] : l \in LinkStep(t)}

\* The settings a target ends up with are those of the targets that publish them
\* to it, whatever the order of the walks: of all it reaches, of those it names or
\* is handed, and of those it links (DoDependentSettings).
SettingsArrive ==
    step \in {"settings", "adjusted", "done"} \cup Generators =>
        \A t \in Targets :
            LET of(key, S) == UNION {original[d].settings[key] : d \in S}
            IN  specs[t].own =
                    of("all_dependent_settings", Reached(graph[t], Targets))
                    \cup of("direct_dependent_settings", Exported(graph[t], Targets))
                    \cup (IF t \in NonLinkable THEN {}
                          ELSE of("link_settings",
                                  {t} \cup {d \in Reached(graph[t], {u \in NonLinkable : specs[u].type # "none" \/ specs[u].traverse}) :
                                              specs[d].type \notin {"executable", "loadable_module"}}))

\* `all` builds every target of the build files gyp is called with, and everything
\* they depend on as the build files say it, libraries that nothing links included
\* (AllTargets, GenerateOutput).  The Android generator leaves out suppressed targets
\* that no target waits for which is not suppressed.  Of a program or shared library that
\* compiles nothing ninja leaves out the actions (WriteLink), and of a bundle that does
\* make on a Mac leaves out all but the resources.
AllBuilt ==
    Generated =>
        \A all \in {Before({<<"all", "phony">>})},
           named \in {Reached({u \in Targets : BuildFile(specs[u]) \in build_files}, Targets)} :
            \A t \in named :
              LET left_out == /\ step = "android" /\ specs[t].suppress
                              /\ t \notin Waited({u \in named : ~specs[u].suppress})
                  products == {"link", "install", "bundle", "resource"}
                  kinds == CASE step = "make" /\ Hollow(t) -> {"bundle", "resource"}
                             [] step = "ninja" /\ Hollow(t) -> products
                             [] OTHER -> products \cup {"binary", "compile", "action", "rule", "copy"}
              IN  left_out \/ {s \in DOMAIN edges : s[1] = t /\ s[2] \in kinds} \subseteq all

\* No two targets write one file, whatever directories and toolsets they are in,
\* except for products that are put in a common place, the outputs of two targets
\* of one directory and toolset that want the same name, as foo and libfoo do, and the
\* object of a source that two targets of one name and toolset in different directories
\* both compile (GypPathToUniqueOutput, Objectify, ComputeOutput,
\* ComputeAndroidModule, VerifyNoCollidingTargets).  The names are those on Linux.
OutputsDistinct ==
    Generated =>
        \A t, u \in Targets :
            LET s == specs[t]
                r == specs[u]
                Common(spec) == \/ spec.product_dir # <<>> \/ spec.standalone
                                \/ spec.type \in linkable_types
                Product(spec) == Given(spec.product_name, StripPrefix(spec.target_name, <<"lib">>))
                Collide == (Common(s) /\ Common(r)) \/ (s.dir = r.dir /\ s.toolset = r.toolset /\ Product(s) = Product(r))
                Files(spec) == CASE step = "ninja" -> Ninja!Files(spec)
                                 [] step = "make" -> Make!Files(spec)
                                 [] OTHER -> Android!Files(spec)
                Intermediates(spec) == CASE step = "ninja" -> Ninja!Intermediates(spec)
                                         [] step = "make" -> Make!Intermediates(spec)
                                         [] OTHER -> Android!Intermediates(spec)
                Objects_(spec) == CASE step = "ninja" -> Ninja!ObjectFiles(spec)
                                    [] step = "make" -> Make!ObjectFiles(spec)
                                    [] OTHER -> {}
                Compiled(spec) == {<<SourceDir(spec, f), f[1]>> : f \in Compilable(spec)}
                SourceInCommon == /\ s.target_name = r.target_name /\ s.toolset = r.toolset
                                  /\ Compiled(s) \cap Compiled(r) # {}
                both == (IF Collide THEN Intermediates(s) ELSE Files(s)) \cap Files(r)
            IN  t # u => both = {} \/ (SourceInCommon /\ both \subseteq Objects_(s) \cap Objects_(r))
=============================================================================
