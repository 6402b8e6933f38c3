------------------------------ MODULE GypCheck ------------------------------
(***************************************************************************)
(* What gyp's loading, merging, scoping and filtering should do, stated    *)
(* apart from how input.py does it.  A behaviour loads the build files     *)
(* `files`, or stands still at one `sample` of the values that the other   *)
(* operators are checked on, or runs gyp again and again (GypMain).        *)
(***************************************************************************)
EXTENDS GypLoad

CONSTANTS Environments, BuildFilesIn, ValidConfigs, MaxRuns
VARIABLES files, sample, run, params, first
Main == INSTANCE GypMain
checkVars == <<loadVars, files, sample, run, params, first>>

None == [kind |-> "none"]
CheckInit(roots0, S, R) == LoadInit(roots0) /\ files = roots0 /\ sample \in S /\ \E r \in R : Main!MainInit(r)
Load == sample = None /\ LoadNext /\ UNCHANGED <<files, sample, run, params, first>>
Again == sample.kind = "main" /\ Main!Regenerate /\ UNCHANGED <<loadVars, files, sample>>
CheckNext == Load \/ Again

-----------------------------------------------------------------------------
(* Properties of loading.                                                  *)

\* Two build files of the command line reach a third in common, or one the other.
Overlap ==
    LET Reached(i) == DOMAIN LoadAll(<<files[i]>>, Dict(<<>>)).dict
    IN  \E i, j \in DOMAIN files : i # j /\ Reached(i) \cap Reached(j) # {}

\* Loading with a pool of processes, when it succeeds, gives what loading one file after
\* the other gives, whichever results arrive first.  It fails only if that does, or if
\* two build files of the command line reach a file in common: the second then gets
\* nothing for it from the pool (LoadTargetBuildFileParallel, LoadTargetBuildFile).
ParallelIsSerial ==
    main \in {"loaded", "exited"} =>
        \A serial \in {LoadAll(files, Dict(<<>>))} :
            IF main = "loaded" THEN Dict(data) = serial ELSE Is("raised", serial) \/ Overlap

\* The main process never waits for results that do not come: loading ends even when
\* build files depend on each other or cannot be loaded (ParallelState.condition).
LoadingEnds == sample = None ~> main \in {"loaded", "exited"}

\* Regenerating the Makefile gives gyp what it had the first time (RegenerateFlags and
\* WriteAutoRegenerationRule); see GypMain.
RegenerateSame == Main!RegenerateSame

-----------------------------------------------------------------------------
(* Properties of the operators.                                            *)

\* A list to prepend that holds an item twice: how far in the items after it come depends
\* on what is there already (MergeLists, prepend_index).
PrependsRepeated(fro) ==
    \E k \in DOMAIN fro.dict :
        k[2] = "+" /\ \E i, j \in DOMAIN fro.dict[k].list :
            i # j /\ fro.dict[k].list[i] = fro.dict[k].list[j] /\ ~Is("flag", fro.dict[k].list[i])

\* What a merge does, and whether it raises, does not depend on the order in which
\* Python iterates over the dictionaries (MergeDicts, with its four policies for
\* lists), unless a list to prepend holds an item twice that is not a flag.
MergeOrderIrrelevant ==
    sample.kind = "merge" /\ ~PrependsRepeated(sample.fro) =>
        \A o1, o2 \in sample.orders :
            MergeDicts(sample.to, sample.fro, <<"a">>, <<"a">>, o1)
                = MergeDicts(sample.to, sample.fro, <<"a">>, <<"a">>, o2)

\* The configurations c inherits from, directly or not.
RECURSIVE Ancestors(_, _)
Ancestors(given, C) ==
    LET parents == UNION {{Named(p.fixed) : p \in ToSet(Get(given[c].dict, Named("inherit_from"), List(<<>>)).list)} :
                            c \in C \cap DOMAIN given}
    IN  IF parents \subseteq C THEN C ELSE Ancestors(given, C \cup parents)
\* One of them is set up itself, and may be already when c is (SetUpConfigurations).
InheritsConcrete(given, c) ==
    \E p \in Ancestors(given, {c}) \ {c} : p \in DOMAIN given /\ ~IsAbstract(given[p])

\* Nor does the order matter to a configuration that only inherits from abstract ones,
\* nor to whether setting up raises.
ConfigurationsOrderIrrelevant ==
    sample.kind = "configurations" =>
        \A o1, o2 \in sample.orders :
          \A r1 \in {SetUpConfigurations(sample.target, sample.concrete, o1)},
             r2 \in {SetUpConfigurations(sample.target, sample.concrete, o2)} :
            /\ Is("raised", r1) <=> Is("raised", r2)
            /\ ~Is("raised", r1) =>
                 /\ DOMAIN r1.dict[Named("configurations")].dict = DOMAIN r2.dict[Named("configurations")].dict
                 /\ \A c \in DOMAIN r1.dict[Named("configurations")].dict :
                      InheritsConcrete(sample.target[Named("configurations")].dict, c)
                        \/ r1.dict[Named("configurations")].dict[c] = r2.dict[Named("configurations")].dict[c]

\* The two: what gyp makes of a build file does not depend on the order of Python's
\* dictionaries, but for prepended lists that hold an item twice and configurations that
\* inherit from one that is not abstract (MergeDicts, SetUpConfigurations).
OrderIrrelevant == MergeOrderIrrelevant /\ ConfigurationsOrderIrrelevant

\* A path merged from one build file into another still names the same file, seen
\* from where it is now, and a directory's slash is kept (MakePathRelative).
PathsKept ==
    sample.kind = "path" =>
        LET new == MakePathRelative(sample.to_file, sample.fro_file, sample.item).path
            old == sample.item.path
        IN  /\ RealPath(Front(sample.to_file) \o new) = RealPath(Front(sample.fro_file) \o old)
            /\ (Last(new) = "") <=> (Last(old) = "")

\* The last filter that matches an item decides; an item no filter matches is left
\* out if it is in the exclusion list; the others stay, in their order
\* (ProcessListFiltersInDict).
FiltersLastWins ==
    sample.kind = "filter" =>
        LET out == ProcessListFiltersInDict(sample.dict).dict
            l == sample.dict[Named("l")].list
            fs == sample.dict[<<"l", "/">>].list
            Deciding(x) == {i \in DOMAIN fs : /\ x \in FilterOf(fs[i]).pattern
                                              /\ \A j \in (i + 1)..Len(fs) : x \notin FilterOf(fs[j]).pattern}
            Stays(x) == IF Deciding(x) = {} THEN ~Contains(sample.dict[<<"l", "!">>].list, x)
                        ELSE \A i \in Deciding(x) : FilterOf(fs[i]).action = 1
        IN  /\ out[Named("l")] = List(SelectSeq(l, Stays))
            /\ Get(out, Excluded("l"), List(<<>>)) = List(SelectSeq(l, LAMBDA x : ~Stays(x)))
            /\ DOMAIN out \subseteq {Named("l"), Excluded("l")}

\* What a list of a build file stands for when it was merged and filtered.
ItemsKept == PathsKept /\ FiltersLastWins

RECURSIVE Refs(_)
Refs(v) == CASE Is("ref", v) -> {v.ref}
             [] Is("list", v) -> UNION {Refs(v.list[i]) : i \in DOMAIN v.list}
             [] Is("shell", v) -> UNION {Refs(v.shell[i]) : i \in DOMAIN v.shell}
             [] Is("dict", v) -> UNION {Refs(v.dict[k]) : k \in DOMAIN v.dict}
             [] OTHER -> {}

RECURSIVE Keys(_)
Keys(v) == CASE Is("list", v) -> UNION {Keys(v.list[i]) : i \in DOMAIN v.list}
             [] Is("dict", v) -> DOMAIN v.dict \cup UNION {Keys(v.dict[k]) : k \in DOMAIN v.dict}
             [] OTHER -> {}

\* After the early phase no early reference and no condition is left anywhere, not in
\* what a condition brought in or a variable stood for.  No late reference has come
\* about, and those of the keys that no condition sets are still there, in
\* target_conditions too.  After the late phase no reference and no target_conditions is
\* left (ProcessVariablesAndConditionsInDict).
NothingLeft ==
    sample.kind = "eval" =>
        \A early \in {ProcessVariablesAndConditionsInDict(sample.dict, PHASE_EARLY, <<>>, Named(""))} :
          ~Is("raised", early) =>
            /\ \A r \in Refs(early) : r.phase # PHASE_EARLY
            /\ Named("conditions") \notin Keys(early)
            /\ Refs(early) \subseteq Refs(Dict(sample.dict))
            /\ \A k \in DOMAIN sample.dict \ {Named("leaf"), Named("conditions")} :
                 /\ k \in DOMAIN early.dict
                 /\ {r \in Refs(sample.dict[k]) : r.phase # PHASE_EARLY} \subseteq Refs(early.dict[k])
            /\ \A late \in {ProcessVariablesAndConditionsInDict(early.dict, PHASE_LATE, <<>>, Named(""))} :
                 ~Is("raised", late) => Refs(late) = {} /\ Named("target_conditions") \notin Keys(late)

\* A variable has the value of the innermost scope that sets it; if none does, of the
\* outermost that gives it a default (LoadVariablesFromVariablesDict).
ScopesNest ==
    sample.kind = "scopes" =>
        LET scopes == sample.scopes
            At(i) == IF "set" \in DOMAIN scopes[i] THEN Named("x") :> scopes[i].set
                     ELSE IF "default" \in DOMAIN scopes[i] THEN <<"x", "%">> :> scopes[i].default ELSE <<>>
            Nest[i \in 1..(Len(scopes) + 1)] ==
                IF i > Len(scopes) THEN Dict(Named("leaf") :> Ref(PHASE_EARLY, FALSE, Named("x")))
                ELSE Dict((Named("variables") :> Dict(At(i))) @@ (Named("sub") :> Nest[i + 1]))
            Leaf[i \in 0..Len(scopes)] ==
                IF i = 0
                THEN ProcessVariablesAndConditionsInDict(Nest[1].dict, PHASE_EARLY, <<>>, Named(""))
                ELSE IF Is("raised", Leaf[i - 1]) THEN Raised ELSE Leaf[i - 1].dict[Named("sub")]
            sets == {i \in DOMAIN scopes : "set" \in DOMAIN scopes[i]}
            defaults == {i \in DOMAIN scopes : "default" \in DOMAIN scopes[i]}
            out == Leaf[Len(scopes)]
        IN  CASE sets # {} -> out.dict[Named("leaf")] = scopes[CHOOSE i \in sets : \A j \in sets : j <= i].set
              [] defaults # {} -> out.dict[Named("leaf")]
                                    = scopes[CHOOSE i \in defaults : \A j \in defaults : j >= i].default
              [] OTHER -> Is("raised", out)
=============================================================================
