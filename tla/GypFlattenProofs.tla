-------------------------- MODULE GypFlattenProofs --------------------------
(***************************************************************************)
(* What GypFlatten promises, for every graph of targets and every order in *)
(* which set.pop() takes the nodes: the list is in the order of the        *)
(* dependencies, and a cycle is reported exactly when there is one.        *)
(***************************************************************************)
EXTENDS GypFlatten, FiniteSetTheorems, FunctionTheorems, TLAPS

\* Targets of which each needs another: none of them is ever ready.
Cyclic(S) == \A t \in S : graph[t] \cap S # {}

FlattenTypes ==
    /\ graph \in [Targets -> SUBSET Targets]
    /\ flat_list \in Seq(Targets)
    /\ in_degree_zeros \subseteq Targets
    /\ order_known \in {"no", "yes", "cycle"}

\* in_degree_zeros holds exactly the targets that are not in the list and only
\* need what is in it.
ZerosReady ==
    in_degree_zeros = {t \in Targets : t \notin Flattened /\ graph[t] \subseteq Flattened}

\* What is in the list needs nothing outside of it, and belongs to no cycle.
ListClosed ==
    /\ \A t \in Flattened : graph[t] \subseteq Flattened
    /\ \A S \in SUBSET Targets : Cyclic(S) => S \cap Flattened = {}

\* At the end the nodes are used up, and it is known whether all are in the list.
EndKnown ==
    order_known # "no" => /\ in_degree_zeros = {}
                          /\ (order_known = "yes" <=> Flattened = Targets)

FlattenInv == FlattenTypes /\ ZerosReady /\ ListClosed /\ DependenciesFirst /\ EndKnown

-----------------------------------------------------------------------------
(* The list as a set.                                                      *)

\* A target that is appended is in the list, and nothing else is new.
LEMMA AppendFlattened ==
    ASSUME NEW node \in Targets, flat_list \in Seq(Targets),
           flat_list' = Append(flat_list, node)
    PROVE  /\ flat_list' \in Seq(Targets)
           /\ Len(flat_list') = Len(flat_list) + 1
           /\ \A i \in 1..Len(flat_list) : flat_list'[i] = flat_list[i]
           /\ flat_list'[Len(flat_list) + 1] = node
           /\ Flattened' = Flattened \cup {node}
<1>1. /\ flat_list' \in Seq(Targets)
      /\ Len(flat_list') = Len(flat_list) + 1
      /\ \A i \in 1..Len(flat_list) : flat_list'[i] = flat_list[i]
      /\ flat_list'[Len(flat_list) + 1] = node
    OBVIOUS
<1>2. Len(flat_list) \in Nat
    OBVIOUS
<1>3. ASSUME NEW t PROVE t \in Flattened' <=> t \in Flattened \cup {node}
    BY <1>1, <1>2 DEF Flattened
<1> QED
    BY <1>1, <1>3

\* The list holds nothing twice, so it is as long as the set of what it holds.
LEMMA FlattenedCardinality ==
    ASSUME flat_list \in Seq(Targets), DependenciesFirst
    PROVE  Len(flat_list) = Cardinality(Targets) <=> Flattened = Targets
<1> DEFINE n == Len(flat_list)
           f == [i \in 1..n |-> flat_list[i]]
<1>1. n \in Nat /\ \A i \in 1..n : flat_list[i] \in Targets
    OBVIOUS
<1>2. \A i, j \in 1..n : flat_list[i] = flat_list[j] => i = j
    <2> SUFFICES ASSUME NEW i \in 1..n, NEW j \in 1..n, i # j
                 PROVE  flat_list[i] # flat_list[j]
        OBVIOUS
    <2>1. CASE i < j
        <3>1. i \in 1..(j - 1)
            BY <1>1, <2>1
        <3> QED
            BY <3>1 DEF DependenciesFirst
    <2>2. CASE j < i
        <3>1. j \in 1..(i - 1)
            BY <1>1, <2>2
        <3> QED
            BY <3>1 DEF DependenciesFirst
    <2> QED
        BY <1>1, <2>1, <2>2
<1>3. f \in Bijection(1..n, Flattened)
    <2>1. f \in [1..n -> Flattened]
        BY DEF Flattened
    <2>2. \A i, j \in 1..n : f[i] = f[j] => i = j
        BY <1>2
    <2>3. \A t \in Flattened : \E i \in 1..n : f[i] = t
        BY DEF Flattened
    <2> QED
        BY <2>1, <2>2, <2>3, Fun_IsBij
<1>4. ExistsBijection(1..n, Flattened)
    BY <1>3 DEF ExistsBijection
<1>5. IsFiniteSet(1..n) /\ Cardinality(1..n) = n
    <2>1. /\ IsFiniteSet(1..n)
          /\ Cardinality(1..n) = IF 1 > n THEN 0 ELSE n - 1 + 1
        BY <1>1, FS_Interval
    <2> QED
        BY <1>1, <2>1
<1>6. Cardinality(Flattened) = n
    BY <1>4, <1>5, FS_Bijection
<1>7. Flattened \in SUBSET Targets
    BY <1>1 DEF Flattened
<1> QED
    BY <1>6, <1>7, FS_Subset, TargetsFinite

-----------------------------------------------------------------------------
(* The invariant.                                                          *)

LEMMA InitFlattens == FlattenInit => FlattenInv
<1> SUFFICES ASSUME FlattenInit PROVE FlattenInv
    OBVIOUS
<1>1. Flattened = {} /\ Len(flat_list) = 0
    BY DEF FlattenInit, Flattened
<1>2. FlattenTypes /\ ZerosReady /\ ListClosed
    BY <1>1 DEF FlattenInit, FlattenTypes, ZerosReady, ListClosed, RootDependents
<1>3. DependenciesFirst /\ EndKnown
    BY <1>1 DEF FlattenInit, DependenciesFirst, EndKnown
<1> QED
    BY <1>2, <1>3 DEF FlattenInv

\* A node that is ready can be appended.
LEMMA FlattenToListKeeps == FlattenInv /\ FlattenToList => FlattenInv'
<1> SUFFICES ASSUME FlattenInv, FlattenToList PROVE FlattenInv'
    OBVIOUS
<1> USE DEF FlattenInv
<1>1. PICK node \in in_degree_zeros :
        /\ order_known = "no"
        /\ flat_list' = Append(flat_list, node)
        /\ in_degree_zeros' = (in_degree_zeros \ {node}) \cup NowReady(node)
        /\ UNCHANGED <<graph, order_known>>
    BY DEF FlattenToList
<1>2. node \in Targets /\ node \notin Flattened /\ graph[node] \subseteq Flattened
    BY DEF ZerosReady
<1>3. /\ flat_list' \in Seq(Targets)
      /\ Len(flat_list') = Len(flat_list) + 1
      /\ \A i \in 1..Len(flat_list) : flat_list'[i] = flat_list[i]
      /\ flat_list'[Len(flat_list) + 1] = node
      /\ Flattened' = Flattened \cup {node}
    BY <1>1, <1>2, AppendFlattened DEF FlattenTypes
<1>4. FlattenTypes'
    BY <1>1, <1>3 DEF FlattenTypes, NowReady
<1>5. ZerosReady'
    <2>1. ASSUME NEW t \in Targets
          PROVE  t \in in_degree_zeros'
                 <=> t \notin Flattened \cup {node} /\ graph[t] \subseteq Flattened \cup {node}
        <3>1. CASE node \in graph[t]
            <4>1. t \notin Flattened
                BY <1>2, <3>1 DEF ListClosed
            <4>2. t # node
                BY <1>2, <3>1
            <4> QED
                BY <1>1, <3>1, <4>1, <4>2 DEF NowReady, ZerosReady
        <3>2. CASE node \notin graph[t]
            BY <1>1, <3>2 DEF NowReady, ZerosReady
        <3> QED
            BY <3>1, <3>2
    <2> QED
        BY <1>1, <1>3, <1>4, <2>1 DEF ZerosReady, FlattenTypes
<1>6. ListClosed'
    <2>1. \A t \in Flattened' : graph'[t] \subseteq Flattened'
        BY <1>1, <1>2, <1>3 DEF ListClosed
    <2>2. ASSUME NEW S \in SUBSET Targets, Cyclic(S)' PROVE S \cap Flattened' = {}
        <3>1. Cyclic(S)
            BY <1>1, <2>2 DEF Cyclic
        <3>2. S \cap Flattened = {}
            BY <3>1 DEF ListClosed
        <3>3. node \notin S
            BY <1>2, <3>1, <3>2 DEF Cyclic
        <3> QED
            BY <1>3, <3>2, <3>3
    <2> QED
        BY <2>1, <2>2 DEF ListClosed
<1>7. DependenciesFirst'
    <2> DEFINE n == Len(flat_list)
    <2>1. n \in Nat
        BY DEF FlattenTypes
    <2> SUFFICES ASSUME NEW i \in 1..(n + 1)
                 PROVE  /\ \A d \in graph[flat_list'[i]] : \E j \in 1..(i - 1) : flat_list'[j] = d
                        /\ \A j \in 1..(i - 1) : flat_list'[j] # flat_list'[i]
        BY <1>1, <1>3 DEF DependenciesFirst
    <2>2. \A j \in 1..(i - 1) : j \in 1..n /\ flat_list'[j] = flat_list[j]
        BY <1>3, <2>1
    <2>3. CASE i \in 1..n
        <3>1. flat_list'[i] = flat_list[i]
            BY <1>3, <2>3
        <3>2. /\ \A d \in graph[flat_list[i]] : \E j \in 1..(i - 1) : flat_list[j] = d
              /\ \A j \in 1..(i - 1) : flat_list[j] # flat_list[i]
            BY <2>3 DEF DependenciesFirst
        <3> QED
            BY <2>2, <3>1, <3>2
    <2>4. CASE i = n + 1
        <3>1. flat_list'[i] = node
            BY <1>3, <2>4
        <3>2. 1..(i - 1) = 1..n
            BY <2>1, <2>4
        <3>3. \A d \in graph[node] : \E j \in 1..n : flat_list[j] = d
            BY <1>2 DEF Flattened
        <3>4. \A j \in 1..n : flat_list[j] # node
            BY <1>2 DEF Flattened
        <3> QED
            BY <2>2, <3>1, <3>2, <3>3, <3>4
    <2> QED
        BY <2>1, <2>3, <2>4
<1>8. EndKnown'
    BY <1>1 DEF EndKnown
<1> QED
    BY <1>4, <1>5, <1>6, <1>7, <1>8

\* The list is as long as there are targets only if all of them are in it.
LEMMA BuildDependencyListKeeps == FlattenInv /\ BuildDependencyList => FlattenInv'
<1> SUFFICES ASSUME FlattenInv, BuildDependencyList PROVE FlattenInv'
    OBVIOUS
<1> USE DEF FlattenInv
<1>1. Len(flat_list) = Cardinality(Targets) <=> Flattened = Targets
    BY FlattenedCardinality DEF FlattenTypes
<1>2. Flattened' = Flattened
    BY DEF BuildDependencyList, Flattened
<1>3. FlattenTypes' /\ ZerosReady' /\ DependenciesFirst'
    BY <1>2 DEF BuildDependencyList, FlattenTypes, ZerosReady, DependenciesFirst
<1>4. ListClosed'
    BY <1>2 DEF BuildDependencyList, ListClosed, Cyclic
<1>5. EndKnown'
    BY <1>1, <1>2 DEF BuildDependencyList, EndKnown
<1> QED
    BY <1>3, <1>4, <1>5

LEMMA StutterKeeps == FlattenInv /\ UNCHANGED flattenVars => FlattenInv'
<1> SUFFICES ASSUME FlattenInv, UNCHANGED flattenVars PROVE FlattenInv'
    OBVIOUS
<1> USE DEF FlattenInv, flattenVars
<1>1. Flattened' = Flattened
    BY DEF Flattened
<1>2. FlattenTypes' /\ ZerosReady' /\ ListClosed'
    BY <1>1 DEF FlattenTypes, ZerosReady, ListClosed, Cyclic
<1>3. DependenciesFirst' /\ EndKnown'
    BY <1>1 DEF DependenciesFirst, EndKnown
<1> QED
    BY <1>2, <1>3

THEOREM FlattenInvariant == FlattenSpec => []FlattenInv
<1>1. FlattenInv /\ [FlattenNext]_flattenVars => FlattenInv'
    BY FlattenToListKeeps, BuildDependencyListKeeps, StutterKeeps DEF FlattenNext
<1> QED
    BY InitFlattens, <1>1, PTL DEF FlattenSpec

-----------------------------------------------------------------------------
\* FlattenToList returns every target behind all of its dependencies, and once.
THEOREM FlattenedInOrder == FlattenSpec => []DependenciesFirst
<1>1. FlattenInv => DependenciesFirst
    BY DEF FlattenInv
<1> QED
    BY <1>1, FlattenInvariant, PTL

\* BuildDependencyList raises CircularException exactly for the graphs with a cycle:
\* a cycle never enters the list, and what is left over when no node is ready is one.
THEOREM CyclesReported == FlattenSpec => []CycleDetected
<1>1. FlattenInv => CycleDetected
    <2> SUFFICES ASSUME FlattenInv, order_known # "no"
                 PROVE  order_known = "cycle"
                        <=> \E S \in (SUBSET Targets) \ {{}} : \A t \in S : graph[t] \cap S # {}
        BY DEF CycleDetected
    <2> USE DEF FlattenInv
    <2>1. CASE order_known = "cycle"
        <3> DEFINE S == Targets \ Flattened
        <3>1. Flattened # Targets /\ Flattened \subseteq Targets /\ in_degree_zeros = {}
            BY <2>1 DEF EndKnown, FlattenTypes, Flattened
        <3>2. S # {}
            BY <3>1
        <3>3. \A t \in S : graph[t] \cap S # {}
            BY <3>1 DEF ZerosReady, FlattenTypes
        <3> QED
            BY <2>1, <3>2, <3>3
    <2>2. CASE order_known = "yes"
        <3>1. Flattened = Targets
            BY <2>2 DEF EndKnown
        <3>2. ASSUME NEW S \in (SUBSET Targets) \ {{}}, \A t \in S : graph[t] \cap S # {}
              PROVE  FALSE
            BY <3>1, <3>2 DEF ListClosed, Cyclic
        <3> QED
            BY <2>2, <3>2
    <2> QED
        BY <2>1, <2>2 DEF FlattenTypes
<1> QED
    BY <1>1, FlattenInvariant, PTL
=============================================================================
