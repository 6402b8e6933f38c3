------------------------------ MODULE XcodeGen ------------------------------
(***************************************************************************)
(* gyp's Xcode generator, src/tools/gyp/pylib/gyp/generator/xcode.py:      *)
(* GenerateOutput makes a project for every build file, adds every target  *)
(* in an order in which dependencies come first, and then finalizes the    *)
(* projects in two passes before it writes them.  The projects are kept in *)
(* a dictionary, so the order of a pass is not determined.                 *)
(***************************************************************************)
EXTENDS XcodeProj, XcodeSettings

CONSTANTS Inputs,       \* what gyp may be given: the build files, the files each includes, the
                        \* directory of the projects, if it is another, the ids of its targets, their specs, all of them, dependencies first, and
                        \* the settings of each project
          Sources,      \* the file names Xcode compiles
          Libraries,    \* the file names it links, .o files included
          StandardDirs, \* xcode_standard_library_dirs
          Unprefixed    \* the rest of a name after a prefix, for those that start with it

VARIABLES input,        \* the build files and their targets
          heap, ok,     \* the objects, and whether no exception was raised
          cells, config,   \* the build configurations, and those of each project and target
          project,      \* xcode_projects
          target,       \* xcode_targets
          support,      \* the support target of a target
          runner,       \* its test_runner
          disk,         \* the project file of each build file: that of an earlier run, or new
          pass,         \* what GenerateOutput is doing
          left,         \* the build files left in this pass
          todo          \* the targets left, in order

vars == <<input, heap, ok, cells, config, project, target, support, runner, disk, pass, left, todo>>

Then(r, Op(_)) == IF r.ok THEN Op(r.heap) ELSE r
Each(h, s, Op(_, _)) == FoldLeft(LAMBDA acc, x : IF acc.ok THEN Op(acc.heap, x) ELSE acc, Made(h, 0), s)

-----------------------------------------------------------------------------
(* One target.                                                             *)

\* A file that settings come from, already listed in the project.
BaseConfiguration(c, cs, g, p, config_file) ==
    Change(c, config_file, LAMBDA c1, path : SetBaseConfiguration(c1, cs, AddOrGetFileInRootGroup(g, p, path).ref))

\* XcodeProject.__init__ and the group of the build files.
NewProject(h, file, path, included) ==
    With(New(h, [Object("PBXProject", Last(file)) EXCEPT !.path = path, !.dir = RelativePath(Front(file), Front(path))]),
    LAMBDA h1, p : With(New(h1, [Object("PBXGroup", "") EXCEPT !.parent = p]),
    LAMBDA h2, m : With(AppendNew([h2 EXCEPT ![p].main = m], m, Object("PBXGroup", "Build")),
    LAMBDA h3, b : [Each(h3, included, LAMBDA g, f : AddOrGetFileByPath(g, b, f, FALSE)) EXCEPT !.ref = p])))

\* _types and _product_filetypes: what a type of target is built as.
ProductType(spec) ==
    LET type == IF spec.bundle THEN spec.type \o "+bundle" ELSE spec.type
        A(kind, prefix, suffix) == [kind |-> kind, prefix |-> prefix, suffix |-> suffix]
    IN  CASE type = "executable"             -> A("tool", "", "")
          [] type = "loadable_module"        -> A("file", "", ".so")
          [] type = "shared_library"         -> A("file", "lib", ".dylib")
          [] type = "static_library"         -> A("file", "lib", ".a")
          [] type = "executable+bundle"      -> A("wrapper", "", ".app")
          [] type = "loadable_module+bundle" -> A("wrapper", "", ".bundle")
          [] type = "shared_library+bundle"  -> A("wrapper", "", ".framework")
          [] type = "none"                   -> A("none", "", "")
          [] OTHER                           -> A("raise", "", "")

Setting(key, value) == IF value = <<>> THEN <<>> ELSE key :> value[1]

\* PBXNativeTarget.__init__: the name of the product, which is not given its prefix twice,
\* the file it is, and the settings this makes; without a type, only the name.
Product(spec) ==
    LET type == ProductType(spec)
        module == type.suffix = ".so"
        named == IF spec.product_name = <<>> THEN spec.name ELSE spec.product_name[1]
        extension == IF module /\ spec.product_extension = <<>> THEN <<"so">> ELSE spec.product_extension
        suffix == IF extension = <<>> \/ type.kind = "wrapper" THEN type.suffix ELSE "." \o extension[1]
        full == IF type.kind = "tool" THEN named \o suffix ELSE named
        prefix == IF spec.product_prefix = <<>> THEN type.prefix ELSE spec.product_prefix[1]
        stripped == <<prefix, full>> \in DOMAIN Unprefixed
        name == IF stripped THEN Unprefixed[<<prefix, full>>] ELSE full
        of == IF type.kind = "wrapper" THEN "WRAPPER" ELSE "EXECUTABLE"
    IN  IF type.kind = "none" THEN [name |-> named, settings |-> <<>>, file |-> ""]
        ELSE [name |-> name,
              file |-> prefix \o name \o (IF type.kind = "tool" THEN "" ELSE suffix),
              settings |-> (IF module THEN ("MACH_O_TYPE" :> "mh_bundle") @@ ("DYLIB_CURRENT_VERSION" :> "")
                                            @@ ("DYLIB_COMPATIBILITY_VERSION" :> "") ELSE <<>>)
                           @@ Setting(of \o "_EXTENSION", extension) @@ (of \o "_PREFIX" :> prefix)
                           @@ Setting("TARGET_BUILD_DIR", spec.product_dir)
                           @@ (IF name # named THEN "PRODUCT_NAME" :> name ELSE <<>>)]

NewTarget(h, p, spec) ==
    LET file == [Object("PBXFileReference", "") EXCEPT !.path = <<Product(spec).file>>, !.tree = "BUILT_PRODUCTS_DIR"]
        kind == ProductType(spec).kind
    IN  IF kind = "raise" THEN Fail(h)
        ELSE IF kind = "none"
        THEN With(New(h, Object("PBXAggregateTarget", spec.name)),
                  LAMBDA h1, t : Made(AppendProperty(h1, p, "children", t), t))
        ELSE With(GroupByName(h, p, "Products"),
             LAMBDA h1, g : With(AppendNew(h1, g, file),
             LAMBDA h2, f : With(New(h2, [Object("PBXNativeTarget", spec.name) EXCEPT !.refs = <<f>>]),
             LAMBDA h3, t : Made(AppendProperty(NewPhases(h3, t), p, "children", t), t))))

\* The target that runs the actions and rules of one that compiles, or none.
NewSupport(h, p, t, spec) ==
    IF spec.type = "none" \/ (spec.actions = <<>> /\ spec.rules = <<>>) THEN Made(h, 0)
    ELSE With(New(h, Object("PBXAggregateTarget", spec.name \o " Support")),
              LAMBDA h1, s : [AddDependency(AppendProperty(h1, p, "children", s), t, s, FALSE) EXCEPT !.ref = s])

AddFileTo(r, path) == IF r.ok THEN AddFile(r.heap, r.ref, path) ELSE r

AddSourceToTarget(h, p, t, path) ==
    IF h[t].isa = "PBXNativeTarget" /\ Last(path) \in Sources THEN AddFileTo(SourcesPhase(h, t), path)
    ELSE IF h[t].isa = "PBXNativeTarget" /\ Last(path) \in Libraries THEN AddFileTo(FrameworksPhase(h, t), path)
    ELSE AddOrGetFileInRootGroup(h, p, path)

AddResourceToTarget(h, t, path) == AddFileTo(ResourcesPhase(h, t), path)
AddHeaderToTarget(h, t, path)   == AddFileTo(HeadersPhase(h, t), path)

\* A script in the support target, or else before the other phases, with no parent.
AddScript(h, t, s, at, name) ==
    With(New(h, Object("PBXShellScriptBuildPhase", name)),
         LAMBDA h1, n : Made(IF s # 0 THEN AppendProperty(h1, s, "children", n)
                             ELSE [h1 EXCEPT ![t].children = InsertAt(@, at, n)], n))

AddOutputs(h, p, t, outputs, as_sources, as_resources) ==
    Then(Each(h, IF as_sources THEN outputs ELSE <<>>, LAMBDA g, f : AddSourceToTarget(g, p, t, f)),
         LAMBDA h1 : Each(h1, IF as_resources THEN outputs ELSE <<>>, LAMBDA g, f : AddResourceToTarget(g, t, f)))

AddActions(h, p, t, s, spec) ==
    Each(h, [i \in DOMAIN spec.actions |-> i],
         LAMBDA g, i : LET a == spec.actions[i]
                       IN  Then(AddScript(g, t, s, i, "Action " \o a.name),
                                LAMBDA g1 : AddOutputs(g1, p, t, a.outputs, a.as_sources, a.as_resources)))

\* What a rule makes of its i-th source.
RuleSource(h, p, t, spec, r, i) ==
    Then(Each(h, r.outputs[i], LAMBDA g, f : AddOrGetFileInRootGroup(g, p, f)),
         LAMBDA g : AddOutputs(g, p, t, r.outputs[i], r.as_sources,
                               r.as_resources \/ (spec.bundle /\ Contains(spec.resources, r.sources[i]))))

\* A rule runs make on a file of its own, if it has anything to make.
AddRules(h, p, t, s, spec) ==
    LET Makes(r) == r.outputs # <<>>
        At(i) == 1 + Len(spec.actions) + Cardinality({j \in 1..i - 1 : Makes(spec.rules[j])})
        Rule(g, i) ==
            LET r == spec.rules[i]
                Script(g1) == IF Makes(r) THEN AddScript(g1, t, s, At(i), "Rule " \o r.name) ELSE Made(g1, 0)
            IN  Then(Each(g, [k \in DOMAIN r.sources |-> k], LAMBDA g1, k : RuleSource(g1, p, t, spec, r, k)),
                LAMBDA g1 : Then(Script(g1),
                LAMBDA g2 : Each(g2, r.inputs, LAMBDA g3, f : AddOrGetFileInRootGroup(g3, p, f))))
    IN  Each(h, [i \in DOMAIN spec.rules |-> i], Rule)

\* The files of the target itself; those with a rule are only listed.
AddFiles(h, p, t, spec) ==
    LET ruled == UNION {ToSet(spec.rules[i].sources) : i \in DOMAIN spec.rules}
        List(g, f) == AddOrGetFileInRootGroup(g, p, f)
        resources == IF spec.bundle THEN spec.resources ELSE <<>>
        headers == IF spec.bundle \/ spec.type = "static_library" THEN spec.headers ELSE <<>>
    IN  Then(Each(h, spec.sources, LAMBDA g, f : IF f \in ruled THEN List(g, f) ELSE AddSourceToTarget(g, p, t, f)),
             LAMBDA h1 : Then(Each(h1, resources, LAMBDA g, f : IF f \in ruled THEN List(g, f) ELSE AddResourceToTarget(g, t, f)),
             LAMBDA h2 : Each(h2, headers, LAMBDA g, f : AddHeaderToTarget(g, t, f))))

\* One phase for each destination, put where the scripts end; a relative one is in the
\* directory of the project.
NewCopyPhase(destination) ==
    SetDestination(Object("PBXCopyFilesBuildPhase", FoldLeft(LAMBDA name, c : name \o c \o "/", "Copy to ", destination)),
                   IF destination[1] \in SourceTrees \cup {"/"} THEN destination ELSE <<"$(SRCROOT)">> \o destination)
NewPhaseAt(h, t, at, x) ==
    With(New(h, [x EXCEPT !.parent = t]), LAMBDA h1, n : Made([h1 EXCEPT ![t].children = InsertAt(@, at, n)], n))
CopyPhase(h, t, at, x) ==
    LET same == SelectSeq(h[t].children, LAMBDA c : h[c].isa = x.isa /\ h[c].path = x.path /\ h[c].tree = x.tree)
    IN  IF same # <<>> THEN Made(h, same[1]) ELSE NewPhaseAt(h, t, at, x)

AddCopies(h, t, at, spec) ==
    Each(h, spec.copies,
         LAMBDA g, c : With(CopyPhase(g, t, at, NewCopyPhase(c.destination)),
                            LAMBDA g1, phase : Each(g1, c.files, LAMBDA g2, f : AddFile(g2, phase, f))))

\* What is listed in the project but in no phase.
AddListed(h, p, spec) ==
    LET of == FlattenSeq([i \in DOMAIN spec.actions |-> spec.actions[i].inputs \o spec.actions[i].outputs])
        listed == spec.excluded \o SelectSeq(of, LAMBDA f : f[1] # "$(BUILT_PRODUCTS_DIR)")
    IN  Each(h, listed, LAMBDA g, f : AddOrGetFileInRootGroup(g, p, f))

AddDependencies(h, t, s, spec, specs) ==
    LET Links(u) == spec.type \notin {"none", "static_library"} /\ specs[u].type \in {"static_library", "shared_library"}
    IN  Each(h, spec.dependencies,
             LAMBDA g, u : Then(AddDependency(g, t, target[u], Links(u)),
                                LAMBDA g1 : IF s = 0 THEN Made(g1, 0) ELSE AddDependency(g1, s, target[u], FALSE)))

\* The default configuration, then the others by name.
ConfigurationNames(spec) ==
    <<spec.default_configuration>>
    \o SetToSortSeq(DOMAIN spec.configurations \ {spec.default_configuration}, LAMBDA a, b : Rank(<<a>>) < Rank(<<b>>))

ConfigFiles(spec) ==
    LET names == ConfigurationNames(spec) IN FlattenSeq([i \in DOMAIN names |-> spec.configurations[names[i]].config_file])

\* The directories of the libraries, unless the system's or there already.
LibrarySearchPaths(c, cs, spec) ==
    LET key == "LIBRARY_SEARCH_PATHS"
        Add(g, library) == IF \/ Front(library) \in StandardDirs
                              \/ HasBuildSetting(g, cs, key) # 0 /\ Contains(GetBuildSetting(g, cs, key).value, Front(library))
                           THEN g ELSE AppendBuildSetting(g, cs, key, Front(library))
    IN  Change(c, spec.libraries, Add)

\* The settings of one target in its list of configurations, g being the finished heap.
TargetSettings(c, o, g, p, spec) ==
    LET cs == Configurations(c, o)
        Pairs(key, values) == [i \in DOMAIN values |-> <<key, values[i]>>]
        Lists(of) == Pairs("FRAMEWORK_SEARCH_PATHS", of.framework_dirs) \o Pairs("HEADER_SEARCH_PATHS", of.include_dirs)
                     \o Pairs("GCC_PREPROCESSOR_DEFINITIONS", of.defines)
        Listed(c1, xcbc, of) == Change(c1, Lists(of), LAMBDA c2, v : AppendBuildSetting(c2, xcbc, v[1], v[2]))
        OneOf(c1, xcbc, of) ==
          After(Listed(c1, xcbc, of),
                LAMBDA c2 : BaseConfiguration(SetAll(c2, xcbc, of.xcode_settings), xcbc, g, p, of.config_file))
    IN  Change(LibrarySearchPaths(SetAll(c, cs, Product(spec).settings), cs, spec), ConfigurationNames(spec),
               LAMBDA c1, name : OneOf(c1, ConfigurationNamed(c1, o, name), spec.configurations[name]))

\* The configurations of a target and of its support target, which is named after it.
AddConfigurations(g, p, t, s, spec) ==
    LET names == ConfigurationNames(spec)
        name == IF spec.product_name = <<>> THEN spec.name ELSE spec.product_name[1]
    IN  \E own \in {ListedTarget(cells, name, names)} :
        \E last \in {IF s = 0 THEN own ELSE ListedTarget(own.heap, name \o " Support", names)} :
          /\ cells' = TargetSettings(Put(last.heap, own.ref, "productName", Product(spec).name), own.ref, g, p, spec)
          /\ config' = config @@ (t :> own.ref) @@ (IF s = 0 THEN <<>> ELSE s :> last.ref)

\* The body of the loop over the targets, after the target and its support are made.
FillTarget(h, p, t, s, spec, specs) ==
    LET scripts == IF s # 0 THEN 0
                   ELSE Len(spec.actions) + Cardinality({i \in DOMAIN spec.rules : spec.rules[i].outputs # <<>>})
    IN  Then(AddActions(h, p, t, s, spec),
        LAMBDA h1 : Then(AddRules(h1, p, t, s, spec),
        LAMBDA h2 : Then(AddFiles(h2, p, t, spec),
        LAMBDA h3 : Then(AddCopies(h3, t, scripts + 1, spec),
        LAMBDA h4 : Then(AddListed(h4, p, spec),
        LAMBDA h5 : Then(Each(h5, spec.postbuilds, LAMBDA g, n : AddScript(g, t, t, 0, "Postbuild " \o n)),
        LAMBDA h6 : Then(AddDependencies(h6, t, s, spec, specs),
        LAMBDA h7 : Then(Each(h7, spec.libraries, LAMBDA g, f : AddFileTo(FrameworksPhase(g, t), f)),
        LAMBDA h8 : Each(h8, ConfigFiles(spec), LAMBDA g, f : AddOrGetFileInRootGroup(g, p, f))))))))))

-----------------------------------------------------------------------------
(* The passes over the projects.                                           *)

RootOrder == <<"Source", "Intermediates", "Projects", "Frameworks", "Products", "Build">>

\* The groups of the project in a fixed order, and their contents by name; the products
\* in the order of the targets, which must have them all.
SortGroups(h, p) ==
    LET main == h[p].main
        At(o) == LET at == {i \in DOMAIN RootOrder : <<RootOrder[i]>> = Name(h[o])}
                 IN  IF at # {} THEN CHOOSE i \in at : TRUE ELSE Len(RootOrder) + Rank(Name(h[o]))
        groups == SortSeq(h[main].children, LAMBDA a, b : At(a) < At(b))
        products == Products(h, p)
        Sort(g, o) == IF Name(g[o]) # <<"Products">> THEN Made(SortGroup(g, o), o)
                      ELSE IF ToSet(products) = ToSet(g[o].children) /\ Len(products) = Len(g[o].children)
                      THEN Made([g EXCEPT ![o].children = products], o) ELSE Fail(g)
    IN  Each([h EXCEPT ![main].children = groups], groups, Sort)

RootGroupsTakeOverOnlyChildren(h, p) == FoldLeft(TakeOverOnlyChild, h, h[h[p].main].children)

\* An aggregate target that depends on others, not yet in the list of the project.
Aggregate(h, p, name, dependencies) ==
    With(New(h, [Object("PBXAggregateTarget", name) EXCEPT !.parent = p]),
         LAMBDA h1, n : [Each(h1, dependencies, LAMBDA g, u : AddDependency(g, n, u, FALSE)) EXCEPT !.ref = n])

RunTarget(h, p, t) ==
    With(Aggregate(h, p, "Run " \o h[t].name, <<t>>),
         LAMBDA h1, n : [AddScript(h1, n, n, 0, "ShellScript") EXCEPT !.ref = n])

Insert(h, p, at, n) == [n EXCEPT !.heap = [@ EXCEPT ![p].children = InsertAt(@, at, n.ref)]]

\* The test runners of the targets that have a command, in order: [heap, refs].
RunTargets(h, p, ids) ==
    LET Record(refs, id, n) == [heap |-> n.heap, refs |-> refs @@ (id :> n.ref)]
    IN  FoldLeft(LAMBDA acc, id : Record(acc.refs, id, RunTarget(acc.heap, p, target[id])),
                 [heap |-> h, refs |-> <<>>], SelectSeq(ids, LAMBDA id : input.specs[id].run_as))

\* The names of the configurations of the targets of a project, each once.
UsedNames(p) ==
    LET of(t) == LET cs == Configurations(cells, config[t]) IN [i \in DOMAIN cs |-> cells[cs[i]].properties["name"]]
        all == FlattenSeq([i \in DOMAIN heap[p].children |-> of(heap[p].children[i])])
    IN  FoldLeft(LAMBDA names, name : IF Contains(names, name) THEN names ELSE Append(names, name), <<>>, all)

\* What is set for a whole project and for one of its configurations, if its name is used.
OfProject(file, name) ==
    LET of == input.settings[file].configurations
    IN  IF name \in DOMAIN of THEN of[name] ELSE [xcode_settings |-> <<>>, config_file |-> <<>>]

ProjectFiles(file, names) ==
    input.settings[file].config_file \o FlattenSeq([i \in DOMAIN names |-> OfProject(file, names[i]).config_file])

ProjectDefaults == ("INTERMEDIATE_DIR" :> "$(PROJECT_DERIVED_FILE_DIR)/$(CONFIGURATION)")
                   @@ ("SHARED_INTERMEDIATE_DIR" :> "$(SYMROOT)/DerivedSources/$(CONFIGURATION)")

\* The list of a project is replaced by one for the names its targets use.
ProjectSettings(g, file, names) ==
    LET p == project[file]
        OneOf(c, cs, of) == BaseConfiguration(SetAll(c, cs, of.xcode_settings), cs, g, p, of.config_file)
        Common(c, cs) == After(SetAll(c, cs, ProjectDefaults), LAMBDA c1 : OneOf(c1, cs, input.settings[file]))
        Own(c, name) == OneOf(c, ConfigurationNamed(c, config[p], name), OfProject(file, name))
        Listed(c) == Change(Common(c, Configurations(c, config[p])), names, Own)
    IN  WithCell(CreateXCConfigurationList(cells, names),
                 LAMBDA c, xccl : After(UpdateProperties(c, config[p], "buildConfigurationList" :> <<xccl>>, FALSE), Listed))

\* A target that runs another has its product name.
ProductName(c, t) ==
    LET run == {id \in DOMAIN target : target[id] \in DOMAIN runner' /\ runner'[target[id]] = t}
    IN  IF run = {} THEN heap'[t].name ELSE c[config[target[CHOOSE id \in run : TRUE]]].properties["productName"]

\* Finalize1: the targets as the build file lists them, each with its support target and
\* its test runner, the groups collapsed and sorted, and the targets for all of them.
Finalized1(h0, p, ids, runs) ==
    LET One(id) == <<target[id]>> \o (IF support[id] = 0 THEN <<>> ELSE <<support[id]>>)
        before == FlattenSeq([i \in DOMAIN ids |-> One(ids[i])])
        targets == FlattenSeq([i \in DOMAIN ids |->
                     One(ids[i]) \o (IF ids[i] \in DOMAIN runs.refs THEN <<runs.refs[ids[i]]>> ELSE <<>>)])
        for_all == SelectSeq(ids, LAMBDA id : ~input.specs[id].suppress_wildcard)
        custom_all == \E i \in DOMAIN ids : input.specs[ids[i]].name \in {"all", "All"}
        tests == SelectSeq(ids, LAMBDA id : id \in DOMAIN runs.refs)
        All(h) == IF Len(for_all) < 2 \/ custom_all THEN Made(h, 0)
                  ELSE Insert(h, p, 1, Aggregate(h, p, "All", [i \in DOMAIN for_all |-> target[for_all[i]]]))
        AllTests(h) == IF Len(tests) < 2 THEN Made(h, 0)
                       ELSE Insert(h, p, 2, Aggregate(h, p, "Run All Tests", [i \in DOMAIN tests |-> runs.refs[tests[i]]]))
    IN  IF ~IsInjective(before) \/ ToSet(before) # ToSet(h0[p].children) \/ Len(before) # Len(h0[p].children)
        THEN Fail(h0)
        ELSE Then(SortGroups(RootGroupsTakeOverOnlyChildren([runs.heap EXCEPT ![p].children = targets], p), p),
                  LAMBDA h : Then(All(h), AllTests))

\* Finalize2: the runners of the tests that an aggregate target depends on, the lists of
\* the products of other projects brought up to date, and the identifiers.
DependentsTestRunner(h, p, id) ==
    LET t == target[id]
        Remote(d) == h[h[d].children[1]].refs[2]
        tests == SelectSeq(h[t].dependencies, LAMBDA d : Remote(d) \in DOMAIN runner)
        at == CHOOSE i \in DOMAIN h[p].children : h[p].children[i] = t
    IN  IF ~input.specs[id].test_runner \/ h[t].isa # "PBXAggregateTarget" \/ tests = <<>> THEN Made(h, 0)
        ELSE Insert(h, p, at + 1, Aggregate(h, p, "Run " \o h[t].name \o " Tests",
                                            [i \in DOMAIN tests |-> runner[Remote(tests[i])]]))

UpdateReferencesNone(h, p) == Made(h, 0)
UpdateReferences(h, p) == Each(h, SetToSeq(DOMAIN h[p].others), LAMBDA g, q : AddOrGetProjectReference(g, p, q))

Finalized2(p, ids) ==
    Then(Each(heap, ids, LAMBDA g, id : DependentsTestRunner(g, p, id)),
         LAMBDA h : Then(UpdateReferences(h, p),
         LAMBDA h1 : LET h2 == SortRemoteProductReferences(h1, p)
                     IN  IF EnsureNoIDCollisions(h2, p) THEN Made(h2, 0) ELSE Fail(h2)))

-----------------------------------------------------------------------------
(* GenerateOutput.                                                         *)

Init ==
    /\ input \in Inputs
    /\ disk = [f \in input.files |-> "old"]
    /\ heap = <<>> /\ ok = TRUE
    /\ cells = ClassObjects /\ config = <<>>
    /\ project = <<>> /\ target = <<>> /\ support = <<>> /\ runner = <<>>
    /\ pass = "projects" /\ left = input.files /\ todo = input.list

Set(r) == heap' = r.heap /\ ok' = r.ok

\* One build file of a pass, then the next pass.
Visit(now, file, next) ==
    /\ ok /\ pass = now /\ file \in left
    /\ left' = IF left = {file} THEN input.files ELSE left \ {file}
    /\ pass' = IF left = {file} THEN next ELSE pass

CreateProject(file) ==
    /\ Visit("projects", file, "targets")
    /\ \E r \in {NewProject(heap, file, input.generator_output \o file, input.included[file])}, own \in {XCObject(cells, "PBXProject", <<>>)} :
         /\ Set(r) /\ project' = project @@ (file :> r.ref)
         /\ cells' = own.heap /\ config' = config @@ (r.ref :> own.ref)
    /\ UNCHANGED <<input, target, support, runner, disk, todo>>

AddTarget ==
    /\ ok /\ pass = "targets"
    /\ LET id == todo[1]
           spec == input.specs[id]
           p == project[spec.file]
       IN  \E t \in {NewTarget(heap, p, spec)} :
           \E s \in {IF t.ok THEN NewSupport(t.heap, p, t.ref, spec) ELSE t} :
           \E filled \in {IF s.ok THEN FillTarget(s.heap, p, t.ref, s.ref, spec, input.specs) ELSE s} :
             /\ Set(filled)
             /\ IF filled.ok THEN AddConfigurations(filled.heap, p, t.ref, s.ref, spec) ELSE UNCHANGED <<cells, config>>
             /\ target' = target @@ (id :> t.ref)
             /\ support' = support @@ (id :> s.ref)
    /\ todo' = Tail(todo)
    /\ pass' = IF Len(todo) = 1 THEN "finalize1" ELSE pass
    /\ UNCHANGED <<input, project, runner, disk, left>>

\* What Finalize1 makes has a list of configurations with these names; what Finalize2
\* makes, the target for the tests of the one before it, has none.
TargetCells(c, p, t, names) ==
    LET ts == heap'[p].children
    IN  IF pass = "finalize1" THEN ListedTarget(c, ProductName(c, t), names)
        ELSE XCTarget(c, heap'[ts[SelectInSeq(ts, LAMBDA u : u = t) - 1]].name, 0)

\* The configurations of the targets that a pass has made, when c is what the others have.
NewConfigurations(c, p, names) ==
    LET One(acc, t) == WithCell(TargetCells(acc.cells, p, t, names),
                                LAMBDA g, made : [cells |-> g, config |-> acc.config @@ (t :> made)])
    IN  \E new \in {FoldLeft(One, [cells |-> c, config |-> config],
                             SelectSeq(heap'[p].children, LAMBDA t : t \notin DOMAIN config))} :
          cells' = new.cells /\ config' = new.config

Finalize1(file) ==
    /\ Visit("finalize1", file, "finalize2")
    /\ LET p == project[file]
           ids == input.targets[file]
       IN  \E names \in {UsedNames(p)} :
           \E listed \in {Each(heap, ProjectFiles(file, names), LAMBDA g, f : AddOrGetFileInRootGroup(g, p, f))} :
           \E runs \in {RunTargets(listed.heap, p, ids)} :
             /\ Set(IF listed.ok THEN Finalized1(listed.heap, p, ids, runs) ELSE listed)
             /\ runner' = runner @@ [t \in {target[id] : id \in DOMAIN runs.refs} |->
                                       runs.refs[CHOOSE id \in DOMAIN runs.refs : target[id] = t]]
             /\ IF ok' THEN NewConfigurations(ProjectSettings(listed.heap, file, names), p, names)
                ELSE UNCHANGED <<cells, config>>
    /\ UNCHANGED <<input, project, target, support, disk, todo>>

Finalize2(file) ==
    /\ Visit("finalize2", file, "write")
    /\ LET p == project[file]
       IN  /\ Set(Finalized2(p, input.targets[file]))
           /\ IF ok' THEN NewConfigurations(cells, p, <<>>) ELSE UNCHANGED <<cells, config>>
    /\ UNCHANGED <<input, project, target, support, runner, disk, todo>>

\* Written beside the old file and moved over it, or, on an error, removed again.
Write(file) ==
    /\ Visit("write", file, "done")
    /\ \/ disk' = [disk EXCEPT ![file] = "new"] /\ ok' = ok
       \/ disk' = disk /\ ok' = FALSE
    /\ UNCHANGED <<input, heap, cells, config, project, target, support, runner, todo>>

Next ==
    \/ \E file \in left : CreateProject(file) \/ Finalize1(file) \/ Finalize2(file) \/ Write(file)
    \/ AddTarget

Spec == Init /\ [][Next]_vars

-----------------------------------------------------------------------------
(* Properties.                                                             *)

Owned(p) == Descendants(heap, p)

\* The paths that AddTarget links as libraries, and those it enters elsewhere, as often as
\* it does.
AsSources(spec) ==
    LET of(as) == IF as.as_sources THEN as.outputs ELSE <<>>
    IN  spec.sources \o FlattenSeq([i \in DOMAIN spec.actions |-> of(spec.actions[i])])
        \o FlattenSeq([i \in DOMAIN spec.rules |-> FlattenSeq(of(spec.rules[i]))])
IsLinked(spec, path) == spec.type # "none" /\ Last(path) \in Libraries \ Objects
Linked(spec) == spec.libraries \o SelectSeq(AsSources(spec), LAMBDA path : IsLinked(spec, path))
Entered(spec) ==
    LET OfAction(a) == a.inputs \o a.outputs
        OfRule(r) == FlattenSeq(r.outputs) \o r.inputs
    IN  SelectSeq(AsSources(spec), LAMBDA path : ~IsLinked(spec, path)) \o spec.excluded
        \o (IF spec.bundle THEN spec.resources ELSE <<>>)
        \o (IF spec.bundle \/ spec.type = "static_library" THEN spec.headers ELSE <<>>)
        \o FlattenSeq([i \in DOMAIN spec.actions |-> OfAction(spec.actions[i])])
        \o FlattenSeq([i \in DOMAIN spec.rules |-> OfRule(spec.rules[i])])
        \o FlattenSeq([i \in DOMAIN spec.copies |-> spec.copies[i].files]) \o ConfigFiles(spec)

OfFile(Of(_), file, ids) == FlattenSeq([i \in DOMAIN input.targets[file] |->
                              IF input.targets[file][i] \in ids THEN Of(input.specs[input.targets[file][i]]) ELSE <<>>])

References(p, path) ==
    {o \in ToSet(Owned(p)) : heap[o].isa = "PBXFileReference" /\ FullPath(heap, o, <<>>) = path}

\* Whatever groups are made for directories, collapsed into one another and sorted, every
\* file that was entered for a target is in its project exactly once, under the path it was
\* entered with; a library that is linked is in the flat group of frameworks, and is there
\* a second time, in the groups of its directories, exactly if it was also entered
\* otherwise, as what an action or a rule reads or makes, for instance
\* (AddOrGetFileByPath, TakeOverOnlyChild, FileGroup).
FilesKept ==
    ok => \A file \in DOMAIN project :
            LET Once(Of(_)) == {NormPath(f) : f \in ToSet(OfFile(Of, file, DOMAIN target))}
            IN  \A path \in Once(Linked) \cup Once(Entered) :
                  Cardinality(References(project[file], path)) = IF path \in Once(Linked) \cap Once(Entered) THEN 2 ELSE 1

\* A project is a tree whose objects know their owner, and what it refers to is in it, or
\* is what a reference to another project leads to there, at the path that project has as
\* seen from the directory of this one's build file (AppendProperty, the insertions into the lists of phases and targets,
\* TakeOverOnlyChild, AddOrGetProjectReference).  One kind of object is an exception: the
\* scripts for the actions and rules of a target with no support target are put before its
\* other phases without an owner (xcode.py 790, 1071).
WellOwned ==
    ok => \A file \in DOMAIN project :
            LET p == project[file]
                own == Owned(p)
                Remote(x) == IF x.refs[1] = p THEN x.refs[2] \in ToSet(own)
                             ELSE \E q \in DOMAIN heap[p].others :
                                    /\ heap[p].others[q].file = x.refs[1]
                                    /\ AbsPath(Front(file) \o heap[x.refs[1]].path) = AbsPath(heap[q].path)
                                    /\ x.refs[2] \in ToSet(Owned(q))
                Unowned(o, c) == /\ heap[c].isa = "PBXShellScriptBuildPhase" /\ heap[c].parent = 0
                                 /\ \E id \in DOMAIN target : target[id] = o /\ support[id] = 0
            IN  /\ IsInjective(own)
                /\ \A o \in ToSet(own) :
                     /\ \A c \in ToSet(Children(heap, o)) : heap[c].parent = o \/ Unowned(o, c)
                     /\ heap[o].isa \in {"PBXBuildFile", "PBXTargetDependency"} => ToSet(heap[o].refs) \subseteq ToSet(own)
                     /\ heap[o].isa = "PBXContainerItemProxy" => Remote(heap[o])

\* When the projects are written, the group of another project's products lists them all,
\* in the order of its targets, though targets were added to it and sorted after the
\* reference was made (Finalize1 of every project before Finalize2 of any).
RemoteProducts ==
    ok /\ pass \in {"write", "done"} =>
      \A file \in DOMAIN project :
        LET p == project[file]
        IN  \A q \in DOMAIN heap[p].others :
              LET group == heap[heap[p].others[q].group].children
              IN  [i \in DOMAIN group |-> RemoteOf(heap, group[i])] = Products(heap, q)

ListOf(o) == cells[config[o]].properties["buildConfigurationList"][1]
NamesOf(o) == {cells[c].properties["name"] : c \in ToSet(Configurations(cells, config[o]))}

\* All that a target asks for in one of its configurations.
Asked(spec, name) ==
    LET of == spec.configurations[name]
        List(key, values) == IF values = <<>> THEN <<>> ELSE key :> values
        libraries == {Front(f) : f \in ToSet(spec.libraries)} \ StandardDirs
    IN  of.xcode_settings @@ List("FRAMEWORK_SEARCH_PATHS", of.framework_dirs) @@ List("HEADER_SEARCH_PATHS", of.include_dirs)
        @@ List("GCC_PREPROCESSOR_DEFINITIONS", of.defines) @@ List("LIBRARY_SEARCH_PATHS", SetToSeq(libraries))
        @@ (IF Product(spec).settings = <<>> THEN <<>> ELSE Product(spec).settings) @@ ("PRODUCT_NAME" :> Product(spec).name)

\* Every project and target has a list of configurations of its own, with configurations of
\* its own, though all start as copies of the same defaults or have the same names, and they
\* are set to what it asks for and to nothing else: the targets that are made for it have
\* the name of their product, a target of a build file has the configurations and settings
\* given there, and its project has all of these configurations (UpdateProperties, Copy,
\* SetBuildSetting, and Finalize1, where a project gets a new list).
SettingsOwn ==
    ok =>
      /\ \A o \in DOMAIN config :
           /\ cells[ListOf(o)].parent = config[o]
           /\ \A c \in ToSet(Configurations(cells, config[o])) :
                /\ cells[c].parent = ListOf(o)
                /\ heap[o].isa # "PBXProject" /\ o \notin {target[id] : id \in DOMAIN target}
                      => BuildSettings(cells, c) = "PRODUCT_NAME" :> cells[config[o]].properties["productName"]
      /\ \A id \in DOMAIN target :
           LET spec == input.specs[id]
               o == target[id]
           IN  /\ NamesOf(o) = DOMAIN spec.configurations
               /\ pass \in {"finalize2", "write", "done"} => NamesOf(o) \subseteq NamesOf(project[spec.file])
               /\ \A c \in ToSet(Configurations(cells, config[o])) :
                    BuildSettings(cells, c) = Asked(spec, cells[c].properties["name"])

\* No exception before the files are written: the assertions of Finalize1 and SortGroups
\* hold, no path is entered twice in a dictionary and no two identifiers are the same.
\* There is one exception, against what the comment on AddOrGetFileByPath says of a path
\* that is there already: a directory given as "dir/", which is entered as "dir" but looked
\* up as "dir/", must not be given again, nor anything in it.
FolderAgain(file, ids) ==
    LET entered == OfFile(Entered, file, ids)
    IN  \E i, j \in DOMAIN entered :
          i # j /\ Last(entered[i]) = "" /\ IsPrefix(NormPath(entered[i]), NormPath(entered[j]))
NeverRaises == ok \/ pass \in {"write", "done"} \/ \E file \in DOMAIN project : FolderAgain(file, DOMAIN target)

\* "a/b/f1 has the same set of hashables whether its parent is b or a/b": collapsing groups
\* does not change what the identifier of a file is made of, unless the group that takes
\* over the directory has the same name or the directory is a variable, whose name is then
\* lost (XCHierarchicalElement.Hashables).
RECURSIVE HashChain(_, _)
HashChain(h, o) ==
    IF h[o].isa \notin Hierarchical THEN <<>> ELSE HashChain(h, h[o].parent) \o ElementHashables(h, o)

IDsStable ==
    [][pass = "finalize1" /\ ok' =>
         \A o \in DOMAIN heap :
            heap[o].isa = "PBXFileReference" /\ FullPath(heap, o, <<>>)[1] \notin SourceTrees \cup ToSet(RootOrder)
              => HashChain(heap', o) = HashChain(heap, o)]_vars

=============================================================================
