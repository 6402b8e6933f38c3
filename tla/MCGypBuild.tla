----------------------------- MODULE MCGypBuild -----------------------------
(* Three targets, two of them in one build file: every graph of plain ones,   *)
(* and every acyclic graph of targets of all kinds.                           *)
EXTENDS GypBuild

MCTargets == {"a", "b", "c"}
MCInFile == [w \in {"g:*"} |-> <<"c">>]
MCWildcardFile == [w \in {"g:*"} |-> <<<<<<"d">>>>, "g">>]
MCBuildFiles == {<<<<>>, "f">>}

\* Two of them are in one build file, the third in another, in a subdirectory.
Identity(t) == [dir |-> IF t = "c" THEN <<<<"d">>>> ELSE <<>>, file |-> IF t = "c" THEN "g" ELSE "f",
                target_name |-> <<t>>]

Plain == [type |-> "none", dependencies |-> <<>>, exports |-> <<>>, hard |-> FALSE, traverse |-> TRUE,
          prune |-> FALSE, suppress |-> FALSE, standalone |-> FALSE, bundle |-> FALSE,
          settings |-> [key \in ToSet(Settings) |-> {}], own |-> {}, actions |-> <<>>,
          sources |-> <<>>, rules |-> <<>>, rule_sources |-> <<>>, copies |-> 0, run_as |-> "ok",
          toolset |-> "target", dir |-> <<>>, file |-> "f", target_name |-> <<>>,
          product_prefix |-> <<>>, product_name |-> <<>>, product_extension |-> <<>>, product_dir |-> <<>>]
Compiled == <<<<"main", "c">>>>
Grammar == [name |-> "bison", extension |-> "y"]

Kinds ==
    {[Plain EXCEPT !.actions = <<2, 1>>, !.copies = 1, !.suppress = TRUE],
     [Plain EXCEPT !.traverse = FALSE],
     [Plain EXCEPT !.type = "static_library", !.sources = Compiled \o <<<<"parse", "y">>>>,
                   !.rules = <<Grammar>>, !.hard = TRUE],
     [Plain EXCEPT !.type = "static_library", !.sources = Compiled, !.standalone = TRUE],
     [Plain EXCEPT !.type = "shared_library", !.sources = Compiled, !.actions = <<1>>],
     [Plain EXCEPT !.type = "executable", !.sources = Compiled, !.actions = <<1>>, !.bundle = TRUE]}
\* A program that compiles nothing, which may be a bundle of scripts and resources.
Scripts == [Plain EXCEPT !.type = "executable", !.actions = <<1>>, !.bundle = TRUE]
KindsOfAll == [MCTargets -> Kinds] \cup {[k EXCEPT ![t] = Scripts] : k \in [MCTargets -> Kinds], t \in {"b", "c"}}

\* Who may depend on whom in the graphs of all kinds.
Later == [a |-> {"b", "c"}, b |-> {"c"}, c |-> {}]

PlainGraphs ==
    {[t \in MCTargets |-> Identity(t) @@ [Plain EXCEPT !.dependencies = SetToSeq(g[t]), !.prune = p]] :
        g \in [MCTargets -> SUBSET (MCTargets \cup {"g:*"})], p \in BOOLEAN}

KindGraphs ==
    {[t \in MCTargets |->
        Identity(t) @@ [k[t] EXCEPT !.dependencies = SetToSeq(g[t]), !.exports = IF t \in e THEN SetToSeq(g[t]) ELSE <<>>,
                     !.settings = [key \in ToSet(Settings) |-> {<<t, key>>}]]] :
        g \in {h \in [MCTargets -> SUBSET MCTargets] : \A t \in MCTargets : h[t] \subseteq Later[t]},
        k \in KindsOfAll, e \in SUBSET {"a", "b"}}

\* Two targets, their names, types, build files and toolsets, each depending on the next.
NameKinds ==
    {[Plain EXCEPT !.type = type, !.sources = IF type = "none" THEN <<>> ELSE Compiled] :
        type \in VALID_TARGET_TYPES}
    \cup {[Plain EXCEPT !.type = "static_library", !.standalone = TRUE],
          [Plain EXCEPT !.type = "static_library", !.sources = <<<<"main", "c", <<>>>>>>],
          [Plain EXCEPT !.type = "static_library", !.sources = Compiled, !.product_name = <<<<"x">>>>],
          [Plain EXCEPT !.type = "shared_library", !.product_prefix = <<<<>>>>, !.product_extension = <<<<"so">>>>],
          [Plain EXCEPT !.type = "none", !.product_dir = <<<<<<"out">>>>>>]}
Named(names, files) ==
    {[k EXCEPT !.target_name = n, !.dir = f[1], !.file = f[2], !.toolset = s] :
        k \in NameKinds, n \in names, f \in files, s \in {"target", "host"}}
NameGraphs ==
    {("a" :> [a EXCEPT !.dependencies = <<"b">>]) @@ ("b" :> [b EXCEPT !.dependencies = <<"c">>])
     @@ ("c" :> (Identity("c") @@ Plain)) :
        a \in Named({<<"x">>}, MCBuildFiles),
        b \in Named({<<"x">>, <<"lib", "x">>}, {<<<<>>, "f">>, <<<<>>, "h">>, <<<<<<"d">>>>, "h">>})}

MCInit == \E s \in PlainGraphs \cup KindGraphs \cup NameGraphs : BuildInit(s)
MCSpec == MCInit /\ [][BuildNext]_buildVars
=============================================================================
