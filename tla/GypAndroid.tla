----------------------------- MODULE GypAndroid -----------------------------
(***************************************************************************)
(* The Android.mk files that src/tools/gyp/pylib/gyp/generator/android.py  *)
(* writes, as the steps of GypTargets and what each waits for.  What the   *)
(* rules of the Android build system do with LOCAL_ADDITIONAL_DEPENDENCIES *)
(* and with the libraries of a module is external.                         *)
(***************************************************************************)
EXTENDS GypTargets

\* The step of a plausible bug: the files do not wait for the dependencies.
WriteActionsUnordered(t, spec, GYP_TARGET_DEPENDENCIES) == [o \in ToSet(FlattenSeq(ActionOutputs(t, spec))) |-> {}]

\* The first output of an action waits for the dependencies, the others for the first.
WriteActions(t, spec, GYP_TARGET_DEPENDENCIES) ==
    [o \in ToSet(FlattenSeq(ActionOutputs(t, spec))) |->
       IF o[4] = 1 THEN GYP_TARGET_DEPENDENCIES ELSE {<<t, "action", o[3], 1>>}]

\* The rules of a target, and the trigger of all of them.
WriteRules(t, spec, GYP_TARGET_DEPENDENCIES) ==
    LET outputs == ToSet(FlattenSeq(RuleOutputs(t, spec)))
    IN  [o \in outputs |-> GYP_TARGET_DEPENDENCIES]
        @@ (IF outputs = {} THEN <<>> ELSE <<t, "rule_trigger">> :> outputs)

WriteCopies(t, spec, GYP_TARGET_DEPENDENCIES) ==
    [o \in ToSet(FlattenSeq(CopyOutputs(t, spec))) |-> GYP_TARGET_DEPENDENCIES]

\* Of the C++ extensions the first is the module's, and sources with another one are
\* copied: a module has only one.  The trigger makes all rules run.
WriteSources(t, spec) ==
    LET compiled == SelectSeq(spec.sources, LAMBDA f : f[2] \in CompilableExtensions)
        cpp == SelectSeq(compiled, LAMBDA f : f[2] \in CPPExtensions)
        local_cpp_extension == IF cpp = <<>> THEN "cpp" ELSE cpp[1][2]
        copied == {<<t, "copied", f[1]>> : f \in {g \in ToSet(cpp) : g[2] # local_cpp_extension}}
    IN  [edges |-> [c \in copied |-> {}],
         LOCAL_GENERATED_SOURCES |-> copied \cup (IF spec.rule_sources = <<>> THEN {} ELSE {<<t, "rule_trigger">>})]

\* The libraries among the dependencies, and the outputs of all of them; the lookup
\* of a target that was not written is a KeyError.
ComputeDeps(spec, acc) ==
    LET dependencies == ToSet(spec.dependencies)
        link_deps == {acc.target_link_deps[d] : d \in dependencies \cap DOMAIN acc.target_link_deps}
    IN  [KeyError |-> ~(dependencies \subseteq DOMAIN acc.target_outputs),
         deps |-> {acc.target_outputs[d] : d \in dependencies} \cup link_deps, link_deps |-> link_deps]

\* What the build system makes of a module.
ModuleRules(t, spec, LOCAL_ADDITIONAL_DEPENDENCIES, LOCAL_GENERATED_SOURCES, libraries) ==
    [o \in Objects(t, spec) |-> LOCAL_ADDITIONAL_DEPENDENCIES \cup LOCAL_GENERATED_SOURCES]
    @@ (<<t, "binary">> :> (Objects(t, spec) \cup LOCAL_ADDITIONAL_DEPENDENCIES \cup libraries))

\* WriteTarget: a module with the libraries among its dependencies, or a stamp.
WriteTarget(t, spec, additional, generated, link_deps) ==
    IF spec.type = "none" THEN <<t, "binary">> :> additional
    ELSE ModuleRules(t, spec, additional, generated, link_deps)

-----------------------------------------------------------------------------
(* The names of the files.                                                 *)

\* All of the target's path, with "_" for "/": no other target should have it.
ComputeAndroidModule(spec) ==
    (IF spec.type = "shared_library" THEN <<"lib_">> ELSE <<>>)
    \o FlattenSeq([i \in DOMAIN spec.dir |-> spec.dir[i] \o <<"_">>]) \o spec.target_name
    \o (IF spec.toolset = "host" THEN <<"_host_gyp">> ELSE <<"_gyp">>)

ComputeOutputParts(spec) ==
    LET ext == CASE spec.type = "static_library" -> <<".a">> [] spec.type = "shared_library" -> <<".so">>
                 [] spec.type = "none" -> <<".stamp">> [] OTHER -> <<>>
    IN  IF spec.type \in {"static_library", "shared_library"}
        THEN [stem |-> ComputeAndroidModule(spec), ext |-> ext]
        ELSE [stem |-> Given(spec.product_prefix, <<>>) \o Given(spec.product_name, spec.target_name),
              ext |-> IF spec.product_extension # <<>> THEN <<".">> \o spec.product_extension[1] ELSE ext]

ComputeOutputBasename(spec) == ComputeOutputParts(spec).stem \o ComputeOutputParts(spec).ext

\* Programs of the host and shared libraries are put together, all else by itself.
ComputeOutput(spec) ==
    (CASE spec.type = "executable" /\ spec.toolset = "host" -> <<<<"gyp_shared_intermediate_dir">>>>
       [] spec.type = "shared_library" -> <<<<"OUT_INTERMEDIATE_LIBRARIES.", spec.toolset>>>>
       [] OTHER -> <<<<"intermediates-dir-for.", spec.toolset>>, <<spec.type>>, ComputeAndroidModule(spec)>>)
    \o <<ComputeOutputBasename(spec)>>

\* The .mk file of the target, beside its build file; the Android build system names the
\* objects.
Intermediates(spec) == {<<<<"depth">>>> \o spec.dir \o <<spec.target_name \o <<".", spec.toolset, ".mk">>>>}
Files(spec) == Intermediates(spec) \cup {ComputeOutput(spec)}

-----------------------------------------------------------------------------
(* The file.                                                               *)

\* AndroidMkWriter.Write, after the targets in acc.
Write(t, spec, acc, part_of_all) ==
    LET c == ComputeDeps(spec, acc)
        sources == WriteSources(t, spec)
        output == <<t, "binary">>
        module == ComputeAndroidModule(spec)
    IN  IF c.KeyError THEN [acc EXCEPT !.KeyError = TRUE]
        ELSE [KeyError |-> acc.KeyError,
              edges |-> WriteActions(t, spec, c.deps) @@ WriteRules(t, spec, c.deps) @@ WriteCopies(t, spec, c.deps)
                        @@ sources.edges
                        @@ WriteTarget(t, spec, c.deps \cup ToSet(Actions(t, spec)),
                                       sources.LOCAL_GENERATED_SOURCES, c.link_deps)
                        @@ acc.edges,
              target_outputs |-> (t :> output) @@ acc.target_outputs,
              target_link_deps |-> IF spec.type \in {"static_library", "shared_library"}
                                   THEN (t :> output) @@ acc.target_link_deps
                                   ELSE acc.target_link_deps,
              modules |-> Append(acc.modules, module),
              all |-> IF part_of_all THEN acc.all \cup {output} ELSE acc.all]

\* GenerateOutput: with the generator flag limit_to_target_all the targets that are
\* not part of all are left out.  Nothing is included once a module's name is there twice.
AndroidEdges(target_list, specs, needed_targets, limit_to_target_all) ==
    LET PartOfAll(t) == t \in needed_targets /\ ~specs[t].suppress
        WriteOne(acc, t) == IF limit_to_target_all /\ ~PartOfAll(t) THEN acc ELSE Write(t, specs[t], acc, PartOfAll(t))
        written == FoldLeft(WriteOne, [KeyError |-> FALSE, edges |-> <<>>, target_outputs |-> <<>>,
                                       target_link_deps |-> <<>>, modules |-> <<>>, all |-> {}], target_list)
    IN  [failed |-> written.KeyError \/ \E t \in DOMAIN specs : specs[t].product_dir # <<>> \/ specs[t].type = "loadable_module",
         ERROR |-> ~IsInjective(written.modules),
         edges |-> written.edges @@ (IF written.all = {} THEN <<>> ELSE <<"all", "phony">> :> written.all)]
=============================================================================
