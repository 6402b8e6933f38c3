------------------------------ MODULE GypInput ------------------------------
(***************************************************************************)
(* Load of src/tools/gyp/pylib/gyp/input.py once the build files are read: *)
(* the targets get their dependencies, their order, their settings, and    *)
(* are checked; then a generator writes the build.                         *)
(***************************************************************************)
EXTENDS GypFlatten, GypTargets

CONSTANTS InFile,               \* each wildcard, to the targets it stands for, in order
          WildcardFile,         \* each wildcard, to its build file
          circular_check, StaticLibraryDependenciesAdjusted, SortedDependencies

ASSUME DOMAIN WildcardFile = DOMAIN InFile

VARIABLES specs,
          nodes,    \* the dependencies in DependencyGraphNode, which stay as they were
          step      \* what Load has done, or "raised"
inputVars == <<specs, nodes, step>>

\* A target that exports the settings of something it does not depend on.
QualifyDependencies(s) ==
    \A t \in Targets : ToSet(s[t].exports) \subseteq ToSet(s[t].dependencies)

OwnWildcard(s) ==
    \E t \in Targets : \E d \in ToSet(s[t].dependencies) \cap DOMAIN InFile : WildcardFile[d] = BuildFile(s[t])

\* FlattenToList over the build files: some files are left over (CycleDetected shows
\* that this is when).
FileCycle(s) ==
    LET On(f) == {BuildFile(s[d]) : d \in UNION {ToSet(s[t].dependencies) : t \in BuildFileTargets(s, f)}} \ {f}
        Files == {BuildFile(s[t]) : t \in Targets}
    IN  \E S \in (SUBSET Files) \ {{}} : \A f \in S : On(f) \cap S # {}

VerifyNoGYPFileCircularDependencies(s) == circular_check => ~FileCycle(s)

\* The graph is built from what the expansions leave; the filters of dependencies
\* are those of GypMerge.
SetUpDependencies ==
    LET new == RemoveDuplicateDependencies(
                 ExpandWildcardDependencies(RemoveSelfDependencies(specs), InFile))
    IN  /\ step = "loaded"
        /\ IF ~DuplicateTargets(specs) /\ QualifyDependencies(specs) /\ ~OwnWildcard(specs)
              /\ VerifyNoGYPFileCircularDependencies(new)
           THEN /\ step' = "flatten" /\ specs' = new
                /\ nodes' = [t \in Targets |-> new[t].dependencies]
                /\ graph' = [t \in Targets |-> ToSet(new[t].dependencies)]
                /\ in_degree_zeros' = RootDependents(graph')
           ELSE step' = "raised" /\ UNCHANGED <<specs, nodes, graph, in_degree_zeros>>
        /\ UNCHANGED <<flat_list, order_known>>

Flatten == step = "flatten" /\ FlattenToList /\ UNCHANGED inputVars

Flattened_ ==
    /\ step = "flatten" /\ BuildDependencyList
    /\ step' = IF order_known' = "cycle" \/ CollidingTargets(specs) THEN "raised" ELSE "flattened"
    /\ UNCHANGED <<specs, nodes>>

\* The three kinds of settings one after the other, then the dependencies.
DependentSettings ==
    /\ step = "flattened" /\ step' = "settings"
    /\ specs' = FoldLeft(LAMBDA s, key : DoDependentSettings(key, flat_list, s, nodes), specs, Settings)
    /\ UNCHANGED <<flattenVars, nodes>>

AdjustDependencies ==
    /\ step = "settings" /\ step' = "adjusted"
    /\ specs' = IF StaticLibraryDependenciesAdjusted
                THEN AdjustStaticLibraryDependencies(specs, nodes, SortedDependencies, flat_list)
                ELSE specs
    /\ UNCHANGED <<flattenVars, nodes>>

\* The expansions and filters before it are those of GypEval and GypMerge.
Validate ==
    /\ step = "adjusted"
    /\ IF \E t \in Targets : InvalidTargetType(specs[t]) \/ DuplicateBasenames(specs[t])
                             \/ DuplicateRules(specs[t]) \/ InvalidRunAs(specs[t])
       THEN step' = "raised" /\ UNCHANGED specs
       ELSE /\ step' = "done"
            /\ specs' = [t \in Targets |-> [specs[t] EXCEPT !.rule_sources = RuleSources(specs[t])]]
    /\ UNCHANGED <<flattenVars, nodes>>

InputInit(s) ==
    /\ specs = s /\ step = "loaded" /\ nodes = [t \in Targets |-> <<>>]
    /\ graph = [t \in Targets |-> {}] /\ flat_list = <<>>
    /\ in_degree_zeros = {} /\ order_known = "no"

InputNext == SetUpDependencies \/ Flatten \/ Flattened_ \/ DependentSettings
             \/ AdjustDependencies \/ Validate
=============================================================================
