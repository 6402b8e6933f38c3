------------------------------ MODULE GypMake -------------------------------
(***************************************************************************)
(* The makefiles that src/tools/gyp/pylib/gyp/generator/make.py writes, as *)
(* the steps of GypTargets and what each waits for, order-only or not.     *)
(***************************************************************************)
EXTENDS GypTargets

_INSTALLABLE_TARGETS == {"executable", "loadable_module", "shared_library"}

\* Several rules for one output add up.
Plus(f, g) == [x \in DOMAIN f \cup DOMAIN g |->
                 (IF x \in DOMAIN f THEN f[x] ELSE {}) \cup (IF x \in DOMAIN g THEN g[x] ELSE {})]
Rules(rules) == FoldLeft(Plus, <<>>, rules)

\* Of several outputs the first runs the command and the others wait for it.
WriteMakeRule(outputs, inputs, order_only) ==
    [o \in ToSet(outputs) |-> IF order_only \/ o = outputs[1] THEN inputs ELSE {outputs[1]}]
WriteDoCmd(outputs, inputs) == WriteMakeRule(outputs, inputs, FALSE)

\* Actions, rules and copies: their inputs are files that no step here makes.
WriteActions(t, spec) == Rules([i \in DOMAIN spec.actions |-> WriteDoCmd(ActionOutputs(t, spec)[i], {})])
WriteRules(t, spec) == Rules([i \in DOMAIN spec.rule_sources |-> WriteMakeRule(RuleOutputs(t, spec)[i], {}, FALSE)])
WriteCopies(t, spec) == Rules([i \in 1..spec.copies |-> WriteDoCmd(CopyOutputs(t, spec)[i], {})])

WriteMacBundleResources(t) == WriteDoCmd(<<<<t, "resource">>>>, {})

\* What to build first and what to link with.  target_outputs and target_link_deps
\* hold the targets written so far; the lookup is an error for any other.
ComputeDeps(spec, target_outputs, target_link_deps) ==
    LET link_deps == {target_link_deps[d] : d \in ToSet(spec.dependencies) \cap DOMAIN target_link_deps}
    IN  [deps |-> {target_outputs[d] : d \in ToSet(spec.dependencies)} \cup link_deps,
         link_deps |-> link_deps]

WriteSources(t, spec, deps, extra_outputs) ==
    LET OBJS == SetToSeq(Objects(t, spec))
    IN  Rules(<<WriteMakeRule(OBJS, deps, TRUE), WriteMakeRule(OBJS, ToSet(extra_outputs), TRUE)>>)

\* Whichever target it is given, the rule is for the binary.
WriteDependencyOnExtraOutputs(t, target, extra_outputs) ==
    WriteMakeRule(<<<<t, "binary">>>>, ToSet(extra_outputs), TRUE)

InstallPath(t, spec, flavor) ==
    IF (spec.type \in _INSTALLABLE_TARGETS \ {"executable"} \/ spec.standalone) /\ flavor # "mac"
    THEN <<t, "install">>
    ELSE IF IsMacBundle(flavor, spec) THEN <<t, "bundle">> ELSE <<t, "binary">>

\* The end of WriteTarget: the copy that is installed, and `all`, which goes to the
\* output and for what is installed to the copy.
WriteAliases(t, spec, flavor, part_of_all) ==
    LET output == <<t, IF IsMacBundle(flavor, spec) THEN "bundle" ELSE "binary">>
        installable == spec.type \in _INSTALLABLE_TARGETS \/ spec.standalone
        install_path == InstallPath(t, spec, flavor)
        All(step) == WriteMakeRule(IF part_of_all THEN <<<<"all", "phony">>>> ELSE <<>>, {step}, FALSE)
    IN  Rules(<<IF spec.type \notin _INSTALLABLE_TARGETS THEN All(output) ELSE <<>>,
                IF installable THEN All(install_path) ELSE <<>>,
                IF installable /\ install_path # output THEN WriteDoCmd(<<install_path>>, {output}) ELSE <<>>>>)

\* The step of a plausible bug: actions do not wait for the dependencies.
WriteTargetUnordered(t, spec, flavor, deps, link_deps, bundle_deps, extra_outputs, part_of_all) ==
    Rules(<<WriteAliases(t, spec, flavor, part_of_all), WriteDependencyOnExtraOutputs(t, <<t, "binary">>, extra_outputs),
            WriteDoCmd(<<<<t, "binary">>>>, IF spec.type = "none" THEN deps ELSE link_deps)>>)

WriteTarget(t, spec, flavor, deps, link_deps, bundle_deps, extra_outputs, part_of_all) ==
    LET is_mac_bundle == IsMacBundle(flavor, spec)
        output == <<t, IF is_mac_bundle THEN "bundle" ELSE "binary">>
    IN  Rules(<<WriteDependencyOnExtraOutputs(t, <<t, "binary">>, extra_outputs),
                WriteMakeRule(extra_outputs, deps, TRUE),
                IF is_mac_bundle
                THEN Plus(WriteDependencyOnExtraOutputs(t, output, extra_outputs),
                          output :> bundle_deps)
                ELSE <<>>,
                WriteDoCmd(<<<<t, "binary">>>>, IF spec.type = "none" THEN deps ELSE link_deps),
                WriteAliases(t, spec, flavor, part_of_all)>>)

\* MakefileWriter.Write: one target, after those in acc.
Write(t, spec, flavor, acc, part_of_all) ==
    LET c == ComputeDeps(spec, acc.target_outputs, acc.target_link_deps)
        extra_outputs == Actions(t, spec)
        is_mac_bundle == IsMacBundle(flavor, spec)
        bundle_deps == {<<t, "resource">>} \cup (IF Objects(t, spec) # {} THEN {<<t, "binary">>} ELSE {})
    IN  [edges |-> Rules(<<acc.edges, WriteActions(t, spec), WriteRules(t, spec), WriteCopies(t, spec),
                           IF is_mac_bundle THEN WriteMacBundleResources(t) ELSE <<>>,
                           WriteSources(t, spec, c.deps, extra_outputs),
                           WriteTarget(t, spec, flavor, c.deps, Objects(t, spec) \cup c.link_deps,
                                       bundle_deps, extra_outputs, part_of_all)>>),
         target_outputs |-> (t :> InstallPath(t, spec, flavor)) @@ acc.target_outputs,
         target_link_deps |-> IF spec.type \in {"static_library", "shared_library"}
                              THEN (t :> <<t, "binary">>) @@ acc.target_link_deps
                              ELSE acc.target_link_deps]

\* GenerateOutput: the targets in the order of target_list.
MakeEdges(target_list, specs, flavor, needed_targets) ==
    FoldLeft(LAMBDA acc, t : Write(t, specs[t], flavor, acc, t \in needed_targets),
             [edges |-> <<>>, target_outputs |-> <<>>, target_link_deps |-> <<>>],
             target_list).edges

-----------------------------------------------------------------------------
(* The names of the files, on Linux; the empty path is $(builddir).        *)

\* "lib" is taken off a library's name even if product_prefix puts something else there.
ComputeOutputBasename(spec) ==
    LET library == spec.type \in {"static_library", "shared_library", "loadable_module"}
        target == IF spec.type = "none" THEN spec.target_name \o <<".stamp">>
                  ELSE IF library THEN StripPrefix(spec.target_name, <<"lib">>) ELSE spec.target_name
        target_ext == IF ~library THEN <<>> ELSE IF spec.type = "static_library" THEN <<".a">> ELSE <<".so">>
    IN  Given(spec.product_prefix, IF library THEN <<"lib">> ELSE <<>>) \o Given(spec.product_name, target)
        \o (IF spec.product_extension # <<>> THEN <<".">> \o spec.product_extension[1] ELSE target_ext)

ComputeOutput(spec) ==
    LET obj == <<<<"obj.", spec.toolset>>>> \o spec.dir
        path == IF spec.type = "executable" THEN <<>> ELSE obj
    IN  Given(spec.product_dir, path) \o <<ComputeOutputBasename(spec)>>

\* What is compiled in one directory is put into one of the target's name.
Objectify(spec, path) == <<<<"obj.", spec.toolset>>, spec.target_name>> \o path

_InstallableTargetInstallPath(spec) ==
    (IF spec.type = "shared_library" THEN <<<<"lib.", spec.toolset>>>> ELSE <<>>) \o <<Last(ComputeOutput(spec))>>

\* The objects, whose path is that of the source from the top, and the .mk file of the
\* target, beside its build file.
ObjectFiles(spec) == {Objectify(spec, SourceDir(spec, f) \o <<<<f[1], ".o">>>>) : f \in Compilable(spec)}
Intermediates(spec) ==
    {<<<<"depth">>>> \o spec.dir \o <<spec.target_name \o <<".", spec.toolset, ".mk">>>>} \cup ObjectFiles(spec)
Files(spec) ==
    Intermediates(spec) \cup {ComputeOutput(spec)}
    \cup (IF spec.type \in _INSTALLABLE_TARGETS \/ spec.standalone THEN {_InstallableTargetInstallPath(spec)} ELSE {})
=============================================================================
