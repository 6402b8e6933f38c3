----------------------------- MODULE GypTargets -----------------------------
(***************************************************************************)
(* What gyp derives from the dependencies of the targets: whose settings a *)
(* target gets and what its dependencies are in the end (input.py).        *)
(*                                                                         *)
(* specs maps a target to a record: its build file (dir, file), toolset    *)
(* and target_name, its type, dependencies and exports (of dependent       *)
(* settings; sequences of targets), the flags hard, traverse, prune,       *)
(* suppress, standalone and bundle, settings (each kind to a set) and own  *)
(* (those it got), sources (files <<base, ext>>, or <<base, ext, dir>> if  *)
(* in another directory), actions (how many outputs each has), copies (how *)
(* many), rules ([name, extension]) and rule_sources, run_as (what is      *)
(* wrong with it, or "ok"), and the options product_*, <<>> or <<value>>.  *)
(*                                                                         *)
(* A name is a sequence of strings, so that \o puts names together, and a  *)
(* path a sequence of names.                                               *)
(*                                                                         *)
(* The generators turn the targets into steps, <<target, name>> or, for    *)
(* output j of action i, <<target, "action", i, j>>, and what each step    *)
(* waits for; commands and flags are left out.                             *)
(***************************************************************************)
EXTENDS Integers, Sequences, FiniteSets, SequencesExt, TLC

linkable_types == {"executable", "shared_library", "loadable_module"}

CompilableExtensions == {"c", "cc", "cpp"}
CPPExtensions == {"cc", "cpp"}

\* What the actions of a target make, its rules from each of their sources, and its
\* copies; its object files are one step.
Outputs(t, kind, numbers) == [i \in DOMAIN numbers |-> [j \in 1..numbers[i] |-> <<t, kind, i, j>>]]
ActionOutputs(t, spec) == Outputs(t, "action", spec.actions)
RuleOutputs(t, spec) == Outputs(t, "rule", [i \in DOMAIN spec.rule_sources |-> 1])
CopyOutputs(t, spec) == Outputs(t, "copy", [i \in 1..spec.copies |-> 1])
Actions(t, spec) == FlattenSeq(ActionOutputs(t, spec) \o RuleOutputs(t, spec) \o CopyOutputs(t, spec))
Objects(t, spec) ==
    IF \E i \in DOMAIN spec.sources : spec.sources[i][2] \in CompilableExtensions
    THEN {<<t, "compile">>} ELSE {}

BuildFile(spec) == <<spec.dir, spec.file>>

\* The directory of a source, '..' taken out.
SourceDir(spec, f) == IF Len(f) = 3 THEN f[3] ELSE spec.dir
Compilable(spec) == {f \in ToSet(spec.sources) : f[2] \in CompilableExtensions}

\* What `all` builds: the targets of one build file and all they depend on, also the
\* dependencies that AdjustStaticLibraryDependencies takes away (dependencies_original).
DeepDependencyTargets(deps, roots) ==
    LET Reach[n \in 0..Cardinality(DOMAIN deps)] ==
          IF n = 0 THEN roots ELSE Reach[n - 1] \cup UNION {deps[t] : t \in Reach[n - 1]}
    IN  Reach[Cardinality(DOMAIN deps)]
BuildFileTargets(specs, build_file) == {t \in DOMAIN specs : BuildFile(specs[t]) = build_file}

\* The step of a plausible bug: only the adjusted dependencies count.
AllTargetsAdjusted(specs, originals, build_file) ==
    DeepDependencyTargets([t \in DOMAIN specs |-> ToSet(specs[t].dependencies)], BuildFileTargets(specs, build_file))

AllTargets(specs, originals, build_file) ==
    DeepDependencyTargets([t \in DOMAIN specs |-> ToSet(specs[t].dependencies) \cup ToSet(originals[t])],
                          BuildFileTargets(specs, build_file))

\* A product_* option, or what it is otherwise.
Given(option, default) == IF option # <<>> THEN option[1] ELSE default
StripPrefix(name, prefix) ==
    IF IsPrefix(prefix, name) THEN SubSeq(name, Len(prefix) + 1, Len(name)) ELSE name

IsMacBundle(flavor, spec) == spec.bundle /\ flavor = "mac"

Unify(l) == LET Add(acc, x) == IF Contains(acc, x) THEN acc ELSE Append(acc, x)
            IN  FoldLeft(Add, <<>>, l)

\* Self-dependencies of targets with prune_self_dependency.
RemoveSelfDependencies(specs) ==
    LET Filter(l, t) == IF specs[t].prune THEN SelectSeq(l, LAMBDA d : d # t) ELSE l
    IN  [t \in DOMAIN specs |-> [specs[t] EXCEPT !.dependencies = Filter(@, t), !.exports = Filter(@, t)]]

\* A wildcard stands for the targets of another build file that are not suppressed;
\* inFile maps it to them.
ExpandWildcardDependencies(specs, inFile) ==
    LET Expand(acc, d) == IF d \in DOMAIN inFile
                          THEN acc \o SelectSeq(inFile[d], LAMBDA x : ~specs[x].suppress)
                          ELSE Append(acc, d)
    IN  [t \in DOMAIN specs |-> [specs[t] EXCEPT !.dependencies = FoldLeft(Expand, <<>>, @),
                                              !.exports = FoldLeft(Expand, <<>>, @)]]

RemoveDuplicateDependencies(specs) ==
    [t \in DOMAIN specs |-> [specs[t] EXCEPT !.dependencies = Unify(@), !.exports = Unify(@)]]

-----------------------------------------------------------------------------
(* Walks over the graph, `deps` being the sequences of dependencies.       *)

\* The dependencies with those they export, each after the one that exported it.
RECURSIVE AddImportedDependencies(_, _, _)
AddImportedDependencies(specs, l, index) ==
    IF index > Len(l) THEN l
    ELSE LET Add(acc, e) == IF Contains(acc.l, e) THEN acc
                            ELSE [l |-> InsertAt(acc.l, acc.at, e), at |-> acc.at + 1]
             new == FoldLeft(Add, [l |-> l, at |-> index + 1], specs[l[index]].exports)
         IN  AddImportedDependencies(specs, new.l, index + 1)

DirectAndImportedDependencies(specs, deps, t) == AddImportedDependencies(specs, Unify(deps[t]), 1)

RECURSIVE DeepDependencies(_, _, _), LinkDependencies(_, _, _, _, _)
DeepDependencies(deps, t, l) ==
    FoldLeft(LAMBDA acc, d : IF Contains(acc, d) THEN acc ELSE DeepDependencies(deps, d, Append(acc, d)),
             l, deps[t])

\* The step of a plausible bug: the walk goes on through shared libraries.
LinkDependenciesThrough(specs, deps, t, l, initial) ==
    LET Sub(acc, d) == LinkDependencies(specs, deps, d, acc, FALSE)
    IN  CASE initial /\ specs[t].type \notin linkable_types -> l
          [] Contains(l, t) -> l
          [] OTHER -> FoldLeft(Sub, Append(l, t), deps[t])

LinkDependencies(specs, deps, t, l, initial) ==
    LET type == specs[t].type
        is_linkable == type \in linkable_types
        Sub(acc, d) == LinkDependencies(specs, deps, d, acc, FALSE)
    IN  CASE initial /\ ~is_linkable -> l
          [] type = "none" /\ ~specs[t].traverse -> IF Contains(l, t) THEN l ELSE Append(l, t)
          [] ~initial /\ type \in {"executable", "loadable_module"} -> l
          [] Contains(l, t) -> l
          [] initial \/ ~is_linkable -> FoldLeft(Sub, Append(l, t), deps[t])
          [] OTHER -> Append(l, t)

-----------------------------------------------------------------------------
(* Settings and the final dependencies.                                    *)

Settings == <<"all_dependent_settings", "direct_dependent_settings", "link_settings">>

\* The targets whose settings of one kind come to t.
SettingsFrom(key, specs, deps, t) ==
    CASE key = "all_dependent_settings" -> DeepDependencies(deps, t, <<>>)
      [] key = "direct_dependent_settings" -> DirectAndImportedDependencies(specs, deps, t)
      [] OTHER -> LinkDependencies(specs, deps, t, <<>>, TRUE)

\* One kind of settings, merged into the targets in the order of flat_list, then
\* taken out.
DoDependentSettings(key, flat_list, specs, deps) ==
    LET Merge(acc, t) == [acc EXCEPT ![t].own =
                            @ \cup UNION {acc[d].settings[key] : d \in ToSet(SettingsFrom(key, acc, deps, t))}]
        merged == FoldLeft(Merge, specs, flat_list)
    IN  [t \in DOMAIN specs |-> [merged[t] EXCEPT !.settings[key] = {}]]

\* The step of a plausible bug: hard dependencies that are exported are forgotten.
StaticLibraryDependenciesDirect(specs, deps, t) ==
    SelectSeq(specs[t].dependencies,
              LAMBDA d : specs[d].type # "static_library" \/ specs[d].hard)

\* The dependencies a static library keeps: hard ones, and other targets it names itself.
StaticLibraryDependencies(specs, deps, t) ==
    SelectSeq(DirectAndImportedDependencies(specs, deps, t),
              LAMBDA d : IF specs[d].type = "static_library" THEN specs[d].hard
                         ELSE Contains(specs[t].dependencies, d))

\* The step of a plausible bug: only what a program itself depends on is linked.
LinkableDependenciesDirect(specs, deps, t, sorted, flat_list) == specs[t].dependencies

LinkableDependencies(specs, deps, t, sorted, flat_list) ==
    LET all == Unify(specs[t].dependencies
                     \o SelectSeq(LinkDependencies(specs, deps, t, <<>>, TRUE), LAMBDA d : d # t))
    IN  IF sorted THEN SelectSeq(Reverse(flat_list), LAMBDA d : Contains(all, d)) ELSE all

AdjustStaticLibraryDependencies(specs, deps, sorted, flat_list) ==
    [t \in DOMAIN specs |->
       [specs[t] EXCEPT !.dependencies =
          CASE specs[t].type = "static_library" -> StaticLibraryDependencies(specs, deps, t)
            [] specs[t].type \in linkable_types -> LinkableDependencies(specs, deps, t, sorted, flat_list)
            [] OTHER -> @]]

-----------------------------------------------------------------------------
(* The checks of the finished targets.                                     *)

VALID_TARGET_TYPES == {"executable", "loadable_module", "static_library", "shared_library", "none"}
InvalidTargetType(spec) ==
    spec.type \notin VALID_TARGET_TYPES \/ (spec.standalone /\ spec.type # "static_library")

\* Two files of a library to compile that have the same base name.
DuplicateBasenames(spec) ==
    /\ spec.type \in {"static_library", "shared_library"}
    /\ \E i, j \in DOMAIN spec.sources :
         /\ i # j /\ spec.sources[i][1] = spec.sources[j][1]
         /\ {spec.sources[i][2], spec.sources[j][2]} \subseteq CompilableExtensions

DuplicateRules(spec) ==
    \E i, j \in DOMAIN spec.rules :
        i # j /\ (spec.rules[i].name = spec.rules[j].name
                  \/ spec.rules[i].extension = spec.rules[j].extension)

\* Two targets of one build file, or of two build files in one directory.
DuplicateTargets(specs) ==
    \E t, u \in DOMAIN specs : t # u /\ \A field \in {"dir", "file", "target_name", "toolset"} :
                                        specs[t][field] = specs[u][field]
CollidingTargets(specs) ==
    \E t, u \in DOMAIN specs : t # u /\ \A field \in {"dir", "target_name", "toolset"} :
                                        specs[t][field] = specs[u][field]

InvalidRunAs(spec) == spec.run_as \in {"not a dictionary", "no action", "action not a list",
                                      "bad working_directory", "bad environment"}

\* ValidateRulesInTarget: the sources each rule is for.
RuleSources(spec) ==
    FlattenSeq([i \in DOMAIN spec.rules |->
                  SelectSeq(spec.sources, LAMBDA f : f[2] = spec.rules[i].extension)])
=============================================================================
