----------------------------- MODULE XcodeProj ------------------------------
(***************************************************************************)
(* The object graph of Xcode project files, as                             *)
(* src/tools/gyp/pylib/gyp/xcodeproj_file.py builds and collapses it.      *)
(*                                                                         *)
(* A heap is a sequence of objects; a reference is an index in it.  The    *)
(* objects of all classes have the same fields: children and dependencies  *)
(* are the lists of objects an object owns, refs the objects it only       *)
(* refers to, the rest belongs to the classes the comments name.  The      *)
(* build configurations are in XcodeSettings; scripts are left out, and so *)
(* is printing.                                                            *)
(* The operators return [heap, ref, ok], ok being FALSE for an exception.  *)
(***************************************************************************)
EXTENDS Integers, TLC, GypPaths

CONSTANTS SourceTrees,   \* the path components that are Xcode variables, $(DIR)
          LProj,         \* the path components that end in .lproj
          Objects,       \* the file names that end in .o
          NameOrder,     \* names in the order in which Python sorts them
          Cwd            \* the directory gyp runs in

Object(isa, name) ==
    [isa |-> isa, name |-> name, parent |-> 0, children |-> <<>>, dependencies |-> <<>>,
     refs |-> <<>>, hashables |-> <<>>,
     path |-> <<>>, tree |-> "<group>",     \* XCHierarchicalElement
     by_path |-> <<>>, variants |-> <<>>,   \* PBXGroup, and the paths of XCBuildPhase
     by_ref |-> <<>>,                       \* XCBuildPhase
     main |-> 0, others |-> <<>>, dir |-> <<>>]     \* PBXProject, dir being projectDirPath

Made(h, ref) == [heap |-> h, ref |-> ref, ok |-> TRUE]
Fail(h)      == [heap |-> h, ref |-> 0, ok |-> FALSE]
New(h, x)    == Made(Append(h, x), Len(h) + 1)

\* What comes next, with the heap and the reference so far, unless an exception was raised.
With(r, Op(_, _)) == IF r.ok THEN Op(r.heap, r.ref) ELSE r

\* AppendProperty of a strong list: the owner becomes the parent.
AppendProperty(h, o, key, c) == [h EXCEPT ![o][key] = Append(@, c), ![c].parent = o]

Children(h, o) ==
    h[o].children \o h[o].dependencies \o (IF h[o].main # 0 THEN <<h[o].main>> ELSE <<>>)
    \o SetToSeq({h[o].others[q].group : q \in DOMAIN h[o].others})

RECURSIVE Descendants(_, _), PBXProjectAncestor(_, _)
Descendants(h, o) ==
    <<o>> \o FlattenSeq([i \in DOMAIN Children(h, o) |-> Descendants(h, Children(h, o)[i])])
PBXProjectAncestor(h, o) ==
    IF o = 0 \/ h[o].isa = "PBXProject" THEN o ELSE PBXProjectAncestor(h, h[o].parent)

\* os.path.realpath, but for symbolic links.
AbsPath(path) == NormPath(IF path # <<>> /\ path[1] = "/" THEN path ELSE Cwd \o path)

-----------------------------------------------------------------------------
(* Files and groups.                                                       *)

\* A variable in front of a path, or none, and what follows it, or <<>>.
SourceTreeAndPathFromPath(path) ==
    IF path # <<>> /\ path[1] \in SourceTrees THEN <<path[1], Tail(path)>> ELSE <<"<group>", path>>

\* The element for a path: it is named for the last component, and a variable in
\* front becomes its sourceTree.
Element(isa, name, path) ==
    LET named == IF name = "" /\ Len(path) > 1 /\ Last(path) # "" THEN Last(path) ELSE name
        tree == SourceTreeAndPathFromPath(path)
        alone == tree[1] # "<group>" /\ tree[2] = <<>>
    IN  [Object(isa, IF alone /\ named = "" THEN path[1] ELSE named)
           EXCEPT !.tree = tree[1], !.path = IF alone /\ named # "" THEN path ELSE tree[2]]

\* The slash at the end of a directory goes; what type a file has is left out.
PBXFileReference(path) ==
    LET x == Element("PBXFileReference", "", path)
    IN  IF Last(path) = "" THEN [x EXCEPT !.path = Front(@)] ELSE x

Hierarchical == {"PBXGroup", "PBXVariantGroup", "PBXFileReference", "PBXReferenceProxy"}
Groups == {"PBXGroup", "PBXVariantGroup"}

Name(x) == IF x.name # "" THEN <<x.name>> ELSE x.path

PathFromSourceTreeAndPath(x) == IF x.tree # "<group>" THEN <<x.tree>> \o x.path ELSE x.path

\* posixpath.join, where a group for the root directory has the empty path.
Join(p, q) == IF p = <<"">> THEN q ELSE p \o q

RECURSIVE FullPath(_, _, _)
FullPath(h, o, path) ==
    IF o = 0 THEN path
    ELSE IF h[o].isa \notin Hierarchical \/ (path # <<>> /\ path[1] \in SourceTrees) THEN path
    ELSE FullPath(h, h[o].parent, Join(PathFromSourceTreeAndPath(h[o]), path))

\* A new child of a group, entered in its dictionaries.
AppendChild(h, g, c) ==
    LET path == PathFromSourceTreeAndPath(h[c])
        known == path \notin {<<>>, <<"">>}
        variant == h[c].isa = "PBXVariantGroup"
        key == <<h[c].name, path>>
    IN  IF (known /\ path \in DOMAIN h[g].by_path) \/ (variant /\ key \in DOMAIN h[g].variants)
        THEN Fail(h)
        ELSE Made([AppendProperty(h, g, "children", c) EXCEPT
                     ![g].by_path = IF known THEN @ @@ (path :> c) ELSE @,
                     ![g].variants = IF variant THEN @ @@ (key :> c) ELSE @], c)

AppendNew(h, g, x) == With(New(h, x), LAMBDA h1, c : AppendChild(h1, g, c))

\* What the group has under a path, of the class expected there, or the new element.
AddOrGetByPath(h, g, path, x) ==
    IF path # <<"">> /\ path \in DOMAIN h[g].by_path
    THEN IF h[h[g].by_path[path]].isa = x.isa THEN Made(h, h[g].by_path[path]) ELSE Fail(h)
    ELSE AppendNew(h, g, x)

AddOrGetVariantGroupByNameAndPath(h, g, name, path) ==
    IF <<name, path>> \in DOMAIN h[g].variants THEN Made(h, h[g].variants[<<name, path>>])
    ELSE AppendNew(h, g, Element("PBXVariantGroup", name, path))

RECURSIVE AddOrGetFile(_, _, _, _)
AddOrGetFile(h, g, path, hierarchical) ==
    LET n == Len(path)
        is_dir == path[n] = ""
        variant == n > 1 /\ path[n - 1] \in LProj
        here == n = 1 \/ ((is_dir \/ variant) /\ n = 2) \/ ~hierarchical
        Variant(h1, vg) ==
            With(AddOrGetByPath(h1, vg, SubSeq(path, n - 1, n),
                                [PBXFileReference(SubSeq(path, n - 1, n)) EXCEPT !.name = path[n - 1]]),
                 LAMBDA h2, file : Made(h2, vg))
    IN  CASE is_dir /\ variant -> Fail(h)
          [] here /\ ~variant -> AddOrGetByPath(h, g, path, PBXFileReference(path))
          [] here /\ variant ->
               With(AddOrGetVariantGroupByNameAndPath(h, g, path[n], SubSeq(path, 1, n - 2)), Variant)
          [] OTHER -> With(AddOrGetByPath(h, g, <<path[1]>>, Element("PBXGroup", "", <<path[1]>>)),
                           LAMBDA h1, sub : AddOrGetFile(h1, sub, Tail(path), hierarchical))

\* An absolute path starts with the component "/", and the part before it is empty.
AddOrGetFileByPath(h, g, path, hierarchical) ==
    LET absolute == path[1] = "/"
        norm == NormPath(IF absolute THEN Tail(path) ELSE path)
    IN  AddOrGetFile(h, g, (IF absolute THEN <<"">> ELSE <<>>) \o norm
                           \o (IF Last(path) = "" THEN <<"">> ELSE <<>>), hierarchical)

RECURSIVE TakeOverOnlyChild(_, _)

\* A group with a group as its only child becomes that child, under its own name; the
\* dictionary of variants is not taken over.
Taken(x, c, name, path) ==
    [c EXCEPT !.parent = x.parent, !.variants = x.variants, !.hashables = x.hashables,
              !.tree = IF @ = "<group>" THEN x.tree ELSE @, !.path = path,
              !.name = IF <<name>> = path THEN "" ELSE name]
TakenPath(x, c) == IF c.tree = "<group>" THEN Join(x.path, c.path) ELSE c.path
TakenName(x, c) == IF x.name # "" /\ Name(x) # Name(c) THEN x.name ELSE c.name

TakeOverShort(h, g) ==
    LET x == h[g]
        c == h[x.children[1]]
    IN  FoldLeft(LAMBDA acc, o : [acc EXCEPT ![o].parent = g],
                 [h EXCEPT ![g] = Taken(x, c, TakenName(x, c), c.path)], c.children)
TakeOverQuietly(h, g) ==
    LET x == h[g]
        c == h[x.children[1]]
    IN  [h EXCEPT ![g] = Taken(x, c, TakenName(x, c), TakenPath(x, c))]
TakeOverName(h, g) ==
    LET x == h[g]
        c == h[x.children[1]]
    IN  FoldLeft(LAMBDA acc, o : [acc EXCEPT ![o].parent = g],
                 [h EXCEPT ![g] = Taken(x, c, c.name, TakenPath(x, c))], c.children)
TakeOver(h, g) ==
    LET x == h[g]
        c == h[x.children[1]]
    IN  FoldLeft(LAMBDA acc, o : [acc EXCEPT ![o].parent = g],
                 [h EXCEPT ![g] = Taken(x, c, TakenName(x, c), TakenPath(x, c))], c.children)

TakeOverOnlyChild(h, g) ==
    LET children == h[g].children
        Sub(acc, o) == IF acc[o].isa = "PBXGroup" THEN TakeOverOnlyChild(acc, o) ELSE acc
    IN  IF Len(children) = 1 /\ h[children[1]].isa = "PBXGroup" THEN TakeOverOnlyChild(TakeOver(h, g), g)
        ELSE FoldLeft(Sub, h, children)

Rank(name) == IF Contains(NameOrder, name) THEN CHOOSE i \in DOMAIN NameOrder : NameOrder[i] = name ELSE 0
Compare(h, a, b) ==
    LET group(o) == h[o].isa = "PBXGroup"
    IN  IF group(a) = group(b) THEN Rank(Name(h[a])) < Rank(Name(h[b])) ELSE group(a)

RECURSIVE SortGroup(_, _)
SortGroup(h, g) ==
    LET sorted == SortSeq(h[g].children, LAMBDA a, b : Compare(h, a, b))
        Sub(acc, o) == IF acc[o].isa \in Groups THEN SortGroup(acc, o) ELSE acc
    IN  FoldLeft(Sub, [h EXCEPT ![g].children = sorted], sorted)

-----------------------------------------------------------------------------
(* Build phases.                                                           *)

\* A new phase before the first of those that must come after it; an aggregate target
\* has no such method.
PhaseOf(h, t, isa, later) ==
    LET ps == h[t].children
        at == {i \in DOMAIN ps : h[ps[i]].isa = isa}
        after == {i \in DOMAIN ps : h[ps[i]].isa \in later}
        pos == IF after = {} THEN Len(ps) + 1 ELSE CHOOSE i \in after : \A j \in after : i <= j
    IN  IF h[t].isa # "PBXNativeTarget" THEN Fail(h)
        ELSE IF at # {} THEN Made(h, ps[CHOOSE i \in at : TRUE])
        ELSE With(New(h, [Object(isa, isa) EXCEPT !.parent = t]),
                  LAMBDA h1, n : Made([h1 EXCEPT ![t].children = InsertAt(ps, pos, n)], n))

\* A native target starts with the two phases of its schema.
NewPhases(h, t) ==
    FoldLeft(LAMBDA g, isa : LET n == New(g, [Object(isa, isa) EXCEPT !.parent = t])
                             IN  [n.heap EXCEPT ![t].children = Append(@, n.ref)],
             h, <<"PBXSourcesBuildPhase", "PBXFrameworksBuildPhase">>)

SourcesPhase(h, t)    == PhaseOf(h, t, "PBXSourcesBuildPhase", {})
FrameworksPhase(h, t) == PhaseOf(h, t, "PBXFrameworksBuildPhase", {})
ResourcesPhase(h, t)  == PhaseOf(h, t, "PBXResourcesBuildPhase",
                                 {"PBXSourcesBuildPhase", "PBXFrameworksBuildPhase"})
HeadersPhase(h, t)    == PhaseOf(h, t, "PBXHeadersBuildPhase",
                                 {"PBXResourcesBuildPhase", "PBXSourcesBuildPhase", "PBXFrameworksBuildPhase"})

GroupByName(h, p, name) ==
    LET main == h[p].main
        at == {i \in DOMAIN h[main].children : Name(h[h[main].children[i]]) = <<name>>}
    IN  IF at # {} THEN Made(h, h[main].children[CHOOSE i \in at : \A j \in at : i <= j])
        ELSE AppendNew(h, main, Object("PBXGroup", name))

DerivedDirs == {"$(DERIVED_FILE_DIR)", "$(INTERMEDIATE_DIR)", "$(PROJECT_DERIVED_FILE_DIR)", "$(SHARED_INTERMEDIATE_DIR)"}

RootGroupForPath(h, p, path) ==
    GroupByName(h, p, IF path[1] \in DerivedDirs THEN "Intermediates" ELSE "Source")

AddOrGetFileInRootGroup(h, p, path) ==
    With(RootGroupForPath(h, p, path), LAMBDA h1, g : AddOrGetFileByPath(h1, g, path, TRUE))

\* A file of a phase in its group: frameworks are in a flat one.
FileInGroup(h, phase, path) ==
    LET p == PBXProjectAncestor(h, phase)
        flat == h[phase].isa = "PBXFrameworksBuildPhase" /\ Last(path) \notin Objects
    IN  With(IF flat THEN GroupByName(h, p, "Frameworks") ELSE RootGroupForPath(h, p, path),
             LAMBDA h1, g : AddOrGetFileByPath(h1, g, path, ~flat))

\* PBXCopyFilesBuildPhase: the destination, in the directory of the products or absolute.
SetDestination(x, dest) ==
    IF dest[1] = "$(BUILT_PRODUCTS_DIR)" THEN [x EXCEPT !.tree = "BUILT_PRODUCTS_DIR", !.path = Tail(dest)]
    ELSE [x EXCEPT !.tree = "absolute", !.path = IF dest[1] = "/" THEN Tail(dest) ELSE dest]

\* The build file of a file f.  Only the paths of variants are kept in the dictionary.
AddBuildFile(h, phase, path, f) ==
    LET variant == h[f].isa = "PBXVariantGroup"
        again == f \in DOMAIN h[phase].by_ref
        Known(h1, n) == Made([h1 EXCEPT ![phase].by_path = IF variant THEN @ @@ (path :> f) ELSE @,
                                        ![phase].by_ref = @ @@ (f :> n)], f)
    IN  CASE (variant /\ path \in DOMAIN h[phase].by_path) \/ (~variant /\ again) -> Fail(h)
          [] variant /\ again -> Known(h, h[phase].by_ref[f])
          [] OTHER -> With(New(h, [Object("PBXBuildFile", "") EXCEPT !.refs = <<f>>]),
                           LAMBDA h1, n : Known(AppendProperty(h1, phase, "children", n), n))

AddFile(h, phase, path) == With(FileInGroup(h, phase, path), LAMBDA h1, f : AddBuildFile(h1, phase, path, f))

-----------------------------------------------------------------------------
(* Targets and other projects.                                             *)

IsTarget(x) == x.isa \in {"PBXNativeTarget", "PBXAggregateTarget"}

\* The products of the native targets of a project, in the order of its targets.
Products(h, p) ==
    LET native == SelectSeq(h[p].children, LAMBDA t : h[t].isa = "PBXNativeTarget")
    IN  [i \in DOMAIN native |-> h[native[i]].refs[1]]

Proxy(portal, remote) == [Object("PBXContainerItemProxy", "PBXContainerItemProxy") EXCEPT !.refs = <<portal, remote>>]
RemoteOf(h, proxy) == h[h[proxy].children[1]].refs[2]

GetChildByRemoteObject(h, g, remote) ==
    SelectSeq(h[g].children, LAMBDA c : RemoteOf(h, c) = remote)

\* A proxy in the group for every product of the other project that has none yet.
SetUpProductReferences(h, q, group, project_ref) ==
    LET NewProxy(h1, f) ==
          With(New(h1, Proxy(project_ref, f)),
          LAMBDA h2, n : With(New(h2, [Object("PBXReferenceProxy", "") EXCEPT !.path = h2[f].path, !.tree = h2[f].tree]),
          LAMBDA h3, r : AppendChild(AppendProperty(h3, r, "children", n), group, r)))
        Product(acc, f) == IF ~acc.ok \/ GetChildByRemoteObject(acc.heap, group, f) # <<>> THEN acc
                           ELSE NewProxy(acc.heap, f)
    IN  FoldLeft(Product, Made(h, 0), Products(h, q))

\* gyp.common.RelativePath, both paths being absolute or relative to the same directory.
RelativePath(path, relative_to) == PathFrom(AbsPath(relative_to), AbsPath(path))

\* The directory that the paths of a project are relative to.
SourceRoot(h, p) == Front(h[p].path) \o h[p].dir

\* A reference to another project, whose path is made one from this project's directory.
NewProjectReference(h, p, q) ==
    With(New(h, [Object("PBXGroup", "Products") EXCEPT !.parent = p, !.hashables = <<"PBXProject", h[q].name>>]),
    LAMBDA h1, g : With(GroupByName(h1, p, "Projects"),
    LAMBDA h2, pg : With(AppendNew(h2, pg, [PBXFileReference(RelativePath(h[q].path, SourceRoot(h, p))) EXCEPT !.tree = "SOURCE_ROOT"]),
    LAMBDA h3, f : Made([h3 EXCEPT ![p].others = @ @@ (q :> [group |-> g, file |-> f])], f))))

\* The reference from project p to project q, made or brought up to date.
AddOrGetProjectReference(h, p, q) ==
    With(IF q \in DOMAIN h[p].others THEN Made(h, 0) ELSE NewProjectReference(h, p, q),
         LAMBDA h1, r : SetUpProductReferences(h1, q, h1[p].others[q].group, h1[p].others[q].file))

\* XCTarget.AddDependency: on a target of this project, or through a reference to its own.
AddTargetDependency(h, t, u) ==
    LET p == PBXProjectAncestor(h, t)
        q == PBXProjectAncestor(h, u)
        Depend(h1, portal) ==
          With(New(h1, Proxy(portal, u)),
          LAMBDA h2, n : With(New(h2, [Object("PBXTargetDependency", "PBXTargetDependency") EXCEPT
                                         !.refs = IF p = q THEN <<u>> ELSE <<>>]),
          LAMBDA h3, d : Made(AppendProperty(AppendProperty(h3, d, "children", n), t, "dependencies", d), d)))
    IN  With(IF p = q THEN Made(h, p) ELSE AddOrGetProjectReference(h, p, q),
             LAMBDA h1, r : Depend(h1, IF p = q THEN p ELSE h1[p].others[q].file))

\* PBXNativeTarget.AddDependency, which also links what can be linked.
AddDependency(h, t, u, links) ==
    LET p == PBXProjectAncestor(h, t)
        q == PBXProjectAncestor(h, u)
        product(h1) == IF p = q THEN h1[u].refs[1]
                       ELSE GetChildByRemoteObject(h1, h1[p].others[q].group, h1[u].refs[1])[1]
        Link(h1, file) ==
          With(FrameworksPhase(h1, t),
          LAMBDA h2, phase : With(New(h2, [Object("PBXBuildFile", "") EXCEPT !.refs = <<file>>]),
          LAMBDA h3, b : Made(AppendProperty(h3, phase, "children", b), b)))
    IN  With(AddTargetDependency(h, t, u), LAMBDA h1, d : IF links THEN Link(h1, product(h1)) ELSE Made(h1, d))

\* Every product group in the order of the targets of the other project.
SortRemoteProductReferences(h, p) ==
    LET Index(q, c) == CHOOSE i \in DOMAIN Products(h, q) : Products(h, q)[i] = RemoteOf(h, c)
        Sort(acc, q) == LET g == h[p].others[q].group
                        IN  [acc EXCEPT ![g].children = SortSeq(@, LAMBDA a, b : Index(q, a) < Index(q, b))]
    IN  FoldLeft(Sort, h, SetToSeq(DOMAIN h[p].others))

-----------------------------------------------------------------------------
(* Identifiers: what is hashed for an object, the hash being one-to-one.   *)

ElementHashables(h, o) ==
    LET x == h[o]
        path == PathFromSourceTreeAndPath(x)
        p == PBXProjectAncestor(h, o)
    IN  IF o = h[p].main THEN <<x.isa>>
        ELSE (IF x.name # "" THEN <<x.isa, "name", x.name>> ELSE <<>>)
             \o FlattenSeq([i \in DOMAIN path |-> <<x.isa, "path", path[i]>>]) \o x.hashables

RECURSIVE Hashables(_, _), PathHashables(_, _), IDs(_, _, _)
PathHashables(h, o) ==
    IF o = 0 THEN <<>>
    ELSE IF h[o].isa \notin Hierarchical THEN <<>> ELSE PathHashables(h, h[o].parent) \o Hashables(h, o)

Hashables(h, o) ==
    LET x == h[o]
    IN  CASE x.isa \in Groups ->
               ElementHashables(h, o) \o FlattenSeq([i \in DOMAIN x.children |-> Name(h[x.children[i]])])
          [] x.isa \in Hierarchical -> ElementHashables(h, o)
          [] x.isa = "PBXBuildFile" ->
               <<x.isa>> \o Name(h[x.refs[1]]) \o <<"in", h[x.parent].name>> \o PathHashables(h, x.refs[1])
          [] x.isa = "PBXContainerItemProxy" ->
               <<x.isa, x.name>> \o Hashables(h, x.refs[1]) \o Hashables(h, x.refs[2])
          [] x.isa = "PBXTargetDependency" -> <<x.isa, x.name>> \o Hashables(h, x.children[1])
          [] OTHER -> <<x.isa, x.name>>

\* ComputeIDs: an object's hash goes on from its owner's, without the children's names.
IDs(h, o, seed) ==
    LET own == seed \o Hashables(h, o)
        child == IF h[o].isa \in Groups THEN seed \o ElementHashables(h, o) ELSE own
        cs == Children(h, o)
    IN  <<own>> \o FlattenSeq([i \in DOMAIN cs |-> IDs(h, cs[i], child)])

EnsureNoIDCollisions(h, p) == IsInjective(IDs(h, p, <<>>))
=============================================================================
