------------------------------- MODULE GypLoad -------------------------------
(***************************************************************************)
(* How gyp loads build files: LoadTargetBuildFile of input.py and what it  *)
(* calls, and LoadTargetBuildFileParallel, where a pool of processes loads *)
(* them while the main process collects what they find.                    *)
(***************************************************************************)
EXTENDS GypEval, FiniteSets

CONSTANTS Content,          \* what is in the build files that exist
          GlobalIncludes,   \* the files every build file with targets includes
          Depth,            \* --depth, a directory
          MultipleToolsets, \* the generator can build for several toolsets
          Processes         \* the size of the pool

-----------------------------------------------------------------------------
(* One build file.                                                         *)

\* gyp.common.ResolveTarget, on parsed names.
ResolveTarget(build_file, dep, toolset) ==
    [file    |-> IF dep.file = <<>> THEN build_file ELSE NormPath(Front(build_file) \o dep.file),
     target  |-> dep.target,
     toolset |-> IF dep.toolset = "" THEN toolset ELSE dep.toolset]

RECURSIVE LoadOneBuildFile(_, _), LoadBuildFileIncludesIntoDict(_, _, _), IncludesInto(_, _)

LoadOneBuildFile(file, includes) ==
    IF file \notin DOMAIN Content THEN Raised
    ELSE LoadBuildFileIncludesIntoDict(Content[file].dict, file, includes)

\* Dictionaries inside a value include files too.
IncludesInto(v, file) ==
    CASE Is("dict", v) -> LoadBuildFileIncludesIntoDict(v.dict, file, <<>>)
      [] Is("list", v) -> ListOf([i \in DOMAIN v.list |-> IncludesInto(v.list[i], file)])
      [] OTHER -> v

IncludesList(d, file, includes) ==
    includes \o [i \in DOMAIN Get(d, Named("includes"), List(<<>>)).list |->
                   NormPath(Front(file) \o d[Named("includes")].list[i].path)]

LoadBuildFileIncludesIntoDict(d, file, includes) ==
    LET Include(acc, f) ==
          LET Merge(inc) == MergeDicts(acc, Dict(inc), file, f, Order)
          IN  IF Is("raised", acc) THEN Raised ELSE Then(LoadOneBuildFile(f, <<>>), Merge)
        Below(d1) == DictOf([k \in DOMAIN d1 |-> IncludesInto(d1[k], file)])
    IN  Then(FoldLeft(Include, Dict(Without(d, {Named("includes")})), IncludesList(d, file, includes)), Below)

\* aux_data: the files that a dictionary, or one inside it, includes.
RECURSIVE IncludedBy(_, _), GetIncludedBuildFiles(_, _)
IncludedBy(v, file) ==
    CASE Is("dict", v) -> ToSet(IncludesList(v.dict, file, <<>>))
                          \cup UNION {IncludedBy(v.dict[k], file) : k \in DOMAIN v.dict}
      [] Is("list", v) -> UNION {IncludedBy(v.list[i], file) : i \in DOMAIN v.list}
      [] OTHER -> {}

GetIncludedBuildFiles(files, included) ==
    IF files \subseteq included THEN included
    ELSE GetIncludedBuildFiles(UNION {IncludedBy(Content[f], f) : f \in files \ included},
                               included \cup files)

IncludedFiles(file) ==
    LET fs == GetIncludedBuildFiles({file} \cup ToSet(GlobalIncludes), {})
    IN  {Path(RelativePath(f, Front(file))) : f \in fs}

\* Every target once for each of its toolsets, also those in conditions.
RECURSIVE ProcessToolsetsInDict(_)
ProcessToolsetsInDict(d) ==
    LET ts(t) == Get(t, Named("toolsets"), List(<<Fixed("target")>>)).list
        toolsets(t) == IF MultipleToolsets THEN ts(t) ELSE <<Fixed("target")>>
        For(t, ts1) == Dict(Assign(Without(t, {Named("toolsets")}), Named("toolset"), ts1))
        Split(t) == IF Named("toolset") \in DOMAIN t /\ Named("toolsets") \notin DOMAIN t
                    THEN <<Dict(t)>>
                    ELSE IF toolsets(t) = <<>> THEN <<>>
                    ELSE [i \in 1..(Len(toolsets(t)) - 1) |-> For(t, toolsets(t)[i + 1])]
                         \o <<For(t, Head(toolsets(t)))>>
        New(k) ==
          CASE k = Named("targets") -> List(FoldLeft(LAMBDA acc, t : acc \o Split(t.dict), <<>>, d[k].list))
            [] k = Named("conditions") ->
                 List([i \in DOMAIN d[k].list |->
                        List([j \in DOMAIN d[k].list[i].list |->
                               IF j = 1 THEN d[k].list[i].list[1]
                               ELSE ProcessToolsetsInDict(d[k].list[i].list[j].dict)])])
            [] OTHER -> d[k]
    IN  Dict([k \in DOMAIN d |-> New(k)])

\* target_defaults under every target.
MergeTargetDefaults(d, file) ==
    LET key == Named("target_defaults")
    IN  CASE key \notin DOMAIN d -> Dict(d)
          [] Named("targets") \notin DOMAIN d -> Raised
          [] OTHER -> Put(Without(d, {key}), Named("targets"),
                          ListOf([i \in DOMAIN d[Named("targets")].list |->
                                    MergeDicts(d[key], d[Named("targets")].list[i], file, file, Order)]))

Variables(file) ==
    Named("DEPTH") :> Path(NormPath(RelativePath(Depth, Front(file))))

\* The build files that the targets of d depend on, in the order they are named.
Dependencies(d, file) ==
    LET ds(t) == Get(t.dict, Named("dependencies"), List(<<>>)).list
        All == FoldLeft(LAMBDA acc, t : acc \o ds(t), <<>>, Get(d, Named("targets"), List(<<>>)).list)
    IN  [i \in DOMAIN All |-> ResolveTarget(file, All[i].dep, "").file]

\* A loaded build file with the files it depends on, or Raised.
LoadTargetBuildFile(file) ==
    LET key == Named("included_files")
        Included(d) == IF key \in DOMAIN d THEN Raised
                       ELSE ProcessToolsetsInDict(Assign(d, key, List(SetToSeq(IncludedFiles(file)))))
        Early(d) == ProcessVariablesAndConditionsInDict(d, PHASE_EARLY, Variables(file), Named(""))
        Defaults(d) == MergeTargetDefaults(ProcessToolsetsInDict(d).dict, file)
        Loaded(d) == [data |-> Dict(d), dependencies |-> Dependencies(d, file)]
    IN  Then(Then(Then(Then(LoadOneBuildFile(file, GlobalIncludes), Included), Early), Defaults), Loaded)

-----------------------------------------------------------------------------
(* Loading one after the other, with GYP_PARALLEL=0.                       *)

RECURSIVE LoadAll(_, _)
LoadAll(files, data) ==
    IF files = <<>> THEN data
    ELSE IF Is("raised", data) \/ Head(files) \in DOMAIN data.dict THEN LoadAll(Tail(files), data)
    ELSE LET After(l) == IF Is("raised", l) THEN Raised
                         ELSE LoadAll(l.dependencies \o Tail(files),
                                      Dict(Assign(data.dict, Head(files), l.data)))
         IN  After(LoadTargetBuildFile(Head(files)))

-----------------------------------------------------------------------------
(* Loading in parallel.                                                    *)

VARIABLES roots,         \* the build files of the command line still to load
          main,          \* "loading", "waiting", "notified", "exited" or "loaded"
          data,          \* what was loaded, by build file
          dependencies, scheduled, pending, error,     \* the ParallelState
          tasks,         \* the calls under way: [file, at, seen]
          disk           \* what loading each file gives; nobody writes to the files
loadVars == <<roots, main, data, dependencies, scheduled, pending, error, tasks, disk>>

\* What one call of LoadTargetBuildFileParallel starts with.
StartLoading(file) ==
    /\ dependencies' = <<file>>
    /\ scheduled' = {file}
    /\ pending' = 0
    /\ error' = FALSE

LoadInit(files) ==
    /\ roots = Tail(files)
    /\ main = "loading"
    /\ data = <<>>
    /\ dependencies = <<Head(files)>>
    /\ scheduled = {Head(files)}
    /\ pending = 0
    /\ error = FALSE
    /\ tasks = {}
    /\ disk = [f \in DOMAIN Content |-> LoadTargetBuildFile(f)]

\* apply_async: the call is queued for a thread that sends it to the pool.
ApplyAsync ==
    /\ main = "loading" /\ ~error /\ dependencies # <<>>
    /\ tasks' = tasks \cup {[file |-> Last(dependencies), at |-> "queued", seen |-> {}]}
    /\ dependencies' = Front(dependencies)
    /\ pending' = pending + 1
    /\ UNCHANGED <<roots, main, data, scheduled, error, disk>>

Wait ==
    /\ main = "loading" /\ ~error /\ dependencies = <<>> /\ pending > 0
    /\ main' = "waiting"
    /\ UNCHANGED <<roots, data, dependencies, scheduled, pending, error, tasks, disk>>

\* The pool's thread pickles the arguments, target_build_files as it is by now.
Send(t) ==
    /\ t.at = "queued"
    /\ Cardinality({u \in tasks : u.at = "sent"}) < Processes
    /\ tasks' = (tasks \ {t}) \cup {[t EXCEPT !.at = "sent", !.seen = DOMAIN data]}
    /\ UNCHANGED <<roots, main, data, dependencies, scheduled, pending, error, disk>>

\* CallLoadTargetBuildFile in a process of the pool.
CallLoadTargetBuildFile(t) ==
    /\ t.at = "sent"
    /\ tasks' = (tasks \ {t}) \cup {[t EXCEPT !.at = "returned"]}
    /\ UNCHANGED <<roots, main, data, dependencies, scheduled, pending, error, disk>>

\* What the process returns: nothing if it had the file already or failed to load it.
Result(t) == IF t.file \in t.seen \/ t.file \notin DOMAIN disk THEN Raised ELSE disk[t.file]

\* The step of a plausible bug: nobody remembers what was scheduled.
NewDependenciesAll(ds, known) == ds

\* The files named in ds that were not scheduled before, without repetition.
RECURSIVE NewDependencies(_, _)
NewDependencies(ds, known) ==
    IF ds = <<>> THEN <<>>
    ELSE IF Head(ds) \in known THEN NewDependencies(Tail(ds), known)
         ELSE <<Head(ds)>> \o NewDependencies(Tail(ds), known \cup {Head(ds)})

\* The step of a plausible bug: a failure is recorded, and nobody told.
LoadTargetBuildFileCallbackQuiet(t) ==
    /\ t.at = "returned" /\ main \in {"waiting", "notified"}
    /\ tasks' = tasks \ {t}
    /\ LET r == Result(t)
           new == NewDependencies(r.dependencies, scheduled)
       IN  IF Is("raised", r)
           THEN /\ error' = TRUE
                /\ UNCHANGED <<main, data, dependencies, scheduled, pending>>
           ELSE /\ data' = Assign(data, t.file, r.data)
                /\ dependencies' = dependencies \o new
                /\ scheduled' = scheduled \cup ToSet(new)
                /\ pending' = pending - 1
                /\ main' = "notified"
                /\ UNCHANGED error
    /\ UNCHANGED <<roots, disk>>

\* A result arrives; the thread that handles it needs the condition's lock,
\* which the main process only lets go of while it waits.
LoadTargetBuildFileCallback(t) ==
    /\ t.at = "returned" /\ main \in {"waiting", "notified"}
    /\ tasks' = tasks \ {t}
    /\ main' = "notified"
    /\ LET r == Result(t)
           new == NewDependencies(r.dependencies, scheduled)
       IN  IF Is("raised", r)
           THEN /\ error' = TRUE
                /\ UNCHANGED <<data, dependencies, scheduled, pending>>
           ELSE /\ data' = Assign(data, t.file, r.data)
                /\ dependencies' = dependencies \o new
                /\ scheduled' = scheduled \cup ToSet(new)
                /\ pending' = pending - 1
                /\ UNCHANGED error
    /\ UNCHANGED <<roots, disk>>

Notified ==
    /\ main = "notified"
    /\ main' = "loading"
    /\ UNCHANGED <<roots, data, dependencies, scheduled, pending, error, tasks, disk>>

\* The loop ends; the next build file of the command line, or sys.exit().
LoadTargetBuildFileParallel ==
    /\ main = "loading"
    /\ error \/ (dependencies = <<>> /\ pending = 0)
    /\ IF error
       THEN main' = "exited" /\ UNCHANGED <<roots, dependencies, scheduled, pending, error>>
       ELSE IF roots = <<>>
            THEN main' = "loaded" /\ UNCHANGED <<roots, dependencies, scheduled, pending, error>>
            ELSE roots' = Tail(roots) /\ StartLoading(Head(roots)) /\ UNCHANGED main
    /\ UNCHANGED <<data, tasks, disk>>

LoadNext ==
    \/ ApplyAsync \/ Wait \/ Notified \/ LoadTargetBuildFileParallel
    \/ \E t \in tasks : Send(t) \/ CallLoadTargetBuildFile(t) \/ LoadTargetBuildFileCallback(t)

=============================================================================
