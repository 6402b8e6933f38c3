----------------------------- MODULE GypFlatten -----------------------------
(***************************************************************************)
(* BuildDependencyList and DependencyGraphNode.FlattenToList of            *)
(* src/tools/gyp/pylib/gyp/input.py: the targets in an order in which      *)
(* every one comes after those it depends on.  Which of the nodes that     *)
(* are ready comes next is up to Python's set.pop().                       *)
(***************************************************************************)
EXTENDS Integers, Sequences, FiniteSets

CONSTANT Targets

\* Load reads finitely many targets.
ASSUME TargetsFinite == IsFiniteSet(Targets)

VARIABLES graph,            \* the targets each target depends on
          flat_list,
          in_degree_zeros,
          order_known       \* "no", then "yes", or "cycle" for a CircularException
flattenVars == <<graph, flat_list, in_degree_zeros, order_known>>

Flattened == {flat_list[i] : i \in 1..Len(flat_list)}

\* Targets with no dependencies depend on the root node.
RootDependents(g) == {t \in Targets : g[t] = {}}

FlattenInit ==
    /\ graph \in [Targets -> SUBSET Targets]
    /\ flat_list = <<>>
    /\ in_degree_zeros = RootDependents(graph)
    /\ order_known = "no"

\* The step of a plausible bug: one dependency is taken for all of them.
NowReadyAny(node) == {d \in Targets : node \in graph[d]}

\* The dependents of node that have all their dependencies in the list with it.
NowReady(node) ==
    {d \in Targets : node \in graph[d] /\ graph[d] \subseteq Flattened \cup {node}}

FlattenToList ==
    \E node \in in_degree_zeros :
        /\ order_known = "no"
        /\ flat_list' = Append(flat_list, node)
        /\ in_degree_zeros' = (in_degree_zeros \ {node}) \cup NowReady(node)
        /\ UNCHANGED <<graph, order_known>>

\* The step of a plausible bug: only a graph without any root is taken for a cycle.
BuildDependencyListRootOnly ==
    /\ order_known = "no" /\ in_degree_zeros = {}
    /\ order_known' = IF flat_list # <<>> THEN "yes" ELSE "cycle"
    /\ UNCHANGED <<graph, flat_list, in_degree_zeros>>

\* What is left over when no node is ready: a cycle.
BuildDependencyList ==
    /\ order_known = "no" /\ in_degree_zeros = {}
    /\ order_known' = IF Len(flat_list) = Cardinality(Targets) THEN "yes" ELSE "cycle"
    /\ UNCHANGED <<graph, flat_list, in_degree_zeros>>

FlattenNext == FlattenToList \/ BuildDependencyList
FlattenSpec == FlattenInit /\ [][FlattenNext]_flattenVars

-----------------------------------------------------------------------------
(* Properties.                                                             *)

\* "Every target will appear in flat_list after all of its dependencies", and
\* it appears once, whatever order set.pop() takes the nodes in
\* (DependencyGraphNode.FlattenToList).
DependenciesFirst ==
    \A i \in 1..Len(flat_list) :
        /\ \A d \in graph[flat_list[i]] : \E j \in 1..(i - 1) : flat_list[j] = d
        /\ \A j \in 1..(i - 1) : flat_list[j] # flat_list[i]

\* BuildDependencyList raises CircularException for the graphs that have a
\* cycle and for no others: some set of targets of which each needs another.
CycleDetected ==
    order_known # "no" =>
        (order_known = "cycle"
         <=> \E S \in (SUBSET Targets) \ {{}} : \A t \in S : graph[t] \cap S # {})
=============================================================================
