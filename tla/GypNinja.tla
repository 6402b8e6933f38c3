------------------------------ MODULE GypNinja ------------------------------
(***************************************************************************)
(* The ninja files that src/tools/gyp/pylib/gyp/generator/ninja.py writes, *)
(* as the build steps of a target and what each step waits for.            *)
(*                                                                         *)
(* The steps are those of GypTargets; a path that may be None is a set of  *)
(* at most one step, and a .TOC file stands with the link that writes it.  *)
(***************************************************************************)
EXTENDS GypTargets, FiniteSets

Or(a, b) == IF a # {} THEN a ELSE b

\* The step of a plausible bug: a target's dependents do not wait for what it waits for.
PreCompileInputOwn(o) == o.actions_stamp

\* The Target object: which steps others have to wait for.
Target(type, bundle) ==
    [type |-> type, preaction_stamp |-> {}, precompile_stamp |-> {}, actions_stamp |-> {}, binary |-> {},
     bundle |-> bundle]
FinalOutput(o) == Or(o.bundle, Or(o.binary, o.actions_stamp))
PreActionInput(o) == Or(FinalOutput(o), o.preaction_stamp)
PreCompileInput(o) == Or(o.actions_stamp, o.precompile_stamp)

\* One file for several, a stamp if necessary (a path that is there twice also gets
\* one, which waits for the same).
CollapsedDependencies(t, name, S) == IF Cardinality(S) > 1 THEN {<<t, name>>} ELSE S
WriteCollapsedDependencies(t, name, S) ==
    IF Cardinality(S) > 1 THEN <<t, name>> :> S ELSE <<>>

\* Every step of the actions, rules and copies waits for prebuild only.
WriteActions(t, spec, prebuild) == [a \in ToSet(FlattenSeq(ActionOutputs(t, spec))) |-> prebuild]
WriteRules(t, spec, prebuild) == [a \in ToSet(FlattenSeq(RuleOutputs(t, spec))) |-> prebuild]
WriteCopies(t, spec, prebuild) == [a \in ToSet(FlattenSeq(CopyOutputs(t, spec))) |-> prebuild]

WriteActionsRulesCopies(t, spec, prebuild) ==
    LET edges == WriteActions(t, spec, prebuild) @@ WriteRules(t, spec, prebuild) @@ WriteCopies(t, spec, prebuild)
    IN  [edges |-> edges @@ WriteCollapsedDependencies(t, "actions_rules_copies", DOMAIN edges),
         stamp |-> CollapsedDependencies(t, "actions_rules_copies", DOMAIN edges)]

WriteSources(t, spec, predepends) == [o \in Objects(t, spec) |-> predepends]

\* The link of a program or shared library: objects and every dependency's output.
WriteLink(t, spec, outputs, deps) ==
    <<t, "link">> :> Objects(t, spec)
                     \cup UNION {FinalOutput(outputs[d]) \cup
                                 (IF outputs[d].type \in {"static_library", "shared_library"}
                                  THEN outputs[d].binary ELSE {}) : d \in deps}

WriteTarget(t, spec, outputs, deps, compile_deps) ==
    CASE spec.type = "none" -> <<>>
      [] spec.type = "static_library" -> <<t, "link">> :> (Objects(t, spec) \cup compile_deps)
      [] OTHER -> WriteLink(t, spec, outputs, deps)

\* The bundle waits for the binary and for the resources that are copied into it.
WriteMacBundle(t, spec, binary) ==
    (<<t, "bundle">> :> (binary \cup {<<t, "resource">>})) @@ (<<t, "resource">> :> {})

\* What one target adds to the ninja files, given the outputs of those before it.
WriteSpec(t, spec, flavor, outputs) ==
    LET deps == {d \in ToSet(spec.dependencies) : d \in DOMAIN outputs}
        pre_actions == UNION {PreActionInput(outputs[d]) : d \in deps}
        pre_compile == UNION {PreCompileInput(outputs[d]) : d \in deps}
        actions_depends == CollapsedDependencies(t, "actions_depends", pre_actions)
        compile_depends == CollapsedDependencies(t, "compile_depends", pre_compile)
        acts == WriteActionsRulesCopies(t, spec, actions_depends)
        compile_deps == Or(acts.stamp, actions_depends)
        is_mac_bundle == IsMacBundle(flavor, spec)
        written == Objects(t, spec) # {} \/ compile_deps # {}
        binary == CASE ~written -> {}
                    [] spec.type = "none" -> compile_deps
                    [] OTHER -> {<<t, "link">>}
        target == [Target(spec.type, IF is_mac_bundle THEN {<<t, "bundle">>} ELSE {})
                     EXCEPT !.preaction_stamp = actions_depends, !.precompile_stamp = compile_depends,
                            !.actions_stamp = acts.stamp, !.binary = binary]
    IN  [target |-> target,
         None |-> ~written /\ ~is_mac_bundle,
         edges |-> WriteCollapsedDependencies(t, "actions_depends", pre_actions)
                   @@ WriteCollapsedDependencies(t, "compile_depends", pre_compile)
                   @@ acts.edges
                   @@ WriteSources(t, spec, Or(acts.stamp, compile_depends))
                   @@ (IF written THEN WriteTarget(t, spec, outputs, deps, compile_deps) ELSE <<>>)
                   @@ (IF is_mac_bundle THEN WriteMacBundle(t, spec, binary) ELSE <<>>)]

\* GenerateOutputForConfig: the targets in the order of target_list, and `all`.
NinjaEdges(target_list, specs, flavor, all_targets) ==
    LET Write(acc, t) ==
          LET w == WriteSpec(t, specs[t], flavor, acc.outputs)
          IN  [outputs |-> IF w.None THEN acc.outputs ELSE (t :> w.target) @@ acc.outputs,
               edges |-> w.edges @@ acc.edges]
        written == FoldLeft(Write, [outputs |-> <<>>, edges |-> <<>>], target_list)
        all_outputs == UNION {FinalOutput(written.outputs[t]) : t \in all_targets \cap DOMAIN written.outputs}
    IN  written.edges @@ (IF all_outputs = {} THEN <<>> ELSE <<"all", "phony">> :> all_outputs)

-----------------------------------------------------------------------------
(* The names of the files, on Linux.                                       *)

\* The step of a plausible bug: the objects of both toolsets are put together.
GypPathToUniqueOutputOnce(spec, dir, name, qualified) ==
    <<<<"obj">>>> \o dir \o <<IF qualified THEN spec.target_name \o <<".">> \o name ELSE name>>

\* What becomes of a file of directory `dir`.
GypPathToUniqueOutput(spec, dir, name, qualified) ==
    <<IF spec.toolset = "target" THEN <<"obj">> ELSE <<"obj.", spec.toolset>>>> \o dir
    \o <<IF qualified THEN spec.target_name \o <<".">> \o name ELSE name>>

\* A target named libfoo makes libfoo.a, and so does foo; a given name stays as it is.
ComputeOutputFileName(spec) ==
    LET library == spec.type \in {"static_library", "shared_library", "loadable_module"}
        prefix == Given(spec.product_prefix, IF library THEN <<"lib">> ELSE <<>>)
        extension == IF spec.product_extension # <<>> THEN <<".">> \o spec.product_extension[1]
                     ELSE IF ~library THEN <<>> ELSE IF spec.type = "static_library" THEN <<".a">> ELSE <<".so">>
        target == Given(spec.product_name, IF prefix = <<"lib">> THEN StripPrefix(spec.target_name, prefix)
                                           ELSE spec.target_name)
    IN  IF spec.type = "none" THEN target \o <<".stamp">> ELSE prefix \o target \o extension

ComputeOutput(spec) ==
    LET filename == ComputeOutputFileName(spec)
        libdir == <<<<"lib">>>> \o (IF spec.toolset = "target" THEN <<>> ELSE <<<<spec.toolset>>>>)
    IN  CASE spec.product_dir # <<>> -> spec.product_dir[1] \o <<filename>>
          [] spec.type \in {"executable", "loadable_module"} \/ spec.standalone -> <<filename>>
          [] spec.type = "shared_library" -> libdir \o <<filename>>
          [] OTHER -> GypPathToUniqueOutput(spec, spec.dir, filename, FALSE)

\* The objects, in the directory of the source, the .ninja file of the target and its stamps.
ObjectFiles(spec) ==
    {GypPathToUniqueOutput(spec, SourceDir(spec, f), <<f[1], ".o">>, TRUE) : f \in Compilable(spec)}
Intermediates(spec) ==
    {GypPathToUniqueOutput(spec, spec.dir, spec.target_name \o <<".ninja">>, FALSE)}
    \cup ObjectFiles(spec)
    \cup {GypPathToUniqueOutput(spec, spec.dir, <<name, ".stamp">>, TRUE) :
            name \in {"actions_depends", "compile_depends", "actions_rules_copies"}}
Files(spec) == Intermediates(spec) \cup (IF spec.type = "none" THEN {} ELSE {ComputeOutput(spec)})
=============================================================================
