--------------------------- MODULE XcodeSettings ---------------------------
(***************************************************************************)
(* The build configurations of the targets and projects that               *)
(* src/tools/gyp/pylib/gyp/xcodeproj_file.py keeps: the part of XCObject   *)
(* that follows the schema of a class, and the classes XCBuildConfiguration*)
(* and XCConfigurationList with their owners.                              *)
(*                                                                         *)
(* The cells are a heap of their own; a reference is an index in it.  What *)
(* an object owns by its schema is always a list of references here.  The  *)
(* lists and dictionaries themselves are values: none is changed that two  *)
(* objects hold.  The types that the schema asks for are those given.      *)
(***************************************************************************)
EXTENDS Integers, SequencesExt, TLC

\* The schema: the properties that own what they hold, and the defaults, which are
\* objects made when the module is loaded.
Strong == [XCBuildConfiguration |-> {}, XCConfigurationList |-> {"buildConfigurations"},
           XCTarget |-> {"buildConfigurationList"}, PBXProject |-> {"buildConfigurationList"}]
Default == [XCBuildConfiguration |-> "buildSettings" :> <<>>,
            XCConfigurationList |-> ("buildConfigurations" :> <<1, 2>>) @@ ("defaultConfigurationName" :> "Release"),
            XCTarget |-> "buildConfigurationList" :> <<3>>,
            PBXProject |-> "buildConfigurationList" :> <<6>>]

Cell(h, ref) == [heap |-> h, ref |-> ref]
WithCell(c, Op(_, _)) == IF c.ref = 0 THEN c ELSE Op(c.heap, c.ref)
NewCell(h, class) == Cell(Append(h, [class |-> class, parent |-> 0, properties |-> <<>>]), Len(h) + 1)

\* One change after another; a heap without cells has nothing to change.
After(h, Op(_)) == IF h = <<>> THEN h ELSE Op(h)
Change(h, s, Op(_, _)) == FoldLeft(LAMBDA g, x : IF g = <<>> THEN g ELSE Op(g, x), h, s)

SetParent(h, refs, o) == FoldLeft(LAMBDA g, c : [g EXCEPT ![c].parent = o], h, refs)
Put(h, o, key, value) == [h EXCEPT ![o].properties = (key :> value) @@ @]

RECURSIVE Copy(_, _)
CopyAll(h, refs) ==
    LET One(acc, o) == WithCell(Copy(acc.heap, o), LAMBDA g, c : [heap |-> g, refs |-> Append(acc.refs, c)])
    IN  FoldLeft(One, [heap |-> h, refs |-> <<>>], refs)

\* What is owned becomes a child of o, a copy of it if do_copy.
UpdateProperties(h, o, properties, do_copy) ==
    LET Own(c, key) == SetParent(Put(c.heap, o, key, c.refs), c.refs, o)
        Update(g, key) ==
          IF key \notin Strong[h[o].class] THEN Put(g, o, key, properties[key])
          ELSE Own(IF do_copy THEN CopyAll(g, properties[key]) ELSE [heap |-> g, refs |-> properties[key]], key)
    IN  Change(h, SetToSeq(DOMAIN properties), Update)

\* A plausible bug: the copy owns what the original owns.
CopyShared(h, o) ==
    WithCell(NewCell(h, h[o].class), LAMBDA g, that : Cell(UpdateProperties(g, that, h[o].properties, FALSE), that))

\* The copy has copies of all it owns; its own defaults are replaced by them at once.
Copy(h, o) ==
    WithCell(NewCell(h, h[o].class), LAMBDA g, that : Cell(UpdateProperties(g, that, h[o].properties, TRUE), that))

\* The defaults that are not replaced at once by a given property.
SetDefaultsFromSchema(h, o, properties) ==
    UpdateProperties(h, o, [key \in DOMAIN Default[h[o].class] \ DOMAIN properties |-> Default[h[o].class][key]], TRUE)

XCObject(h, class, properties) ==
    WithCell(NewCell(h, class),
             LAMBDA g, self : Cell(UpdateProperties(SetDefaultsFromSchema(g, self, properties), self, properties, FALSE), self))

AppendTo(h, o, key, c) == [h EXCEPT ![o].properties[key] = Append(@, c), ![c].parent = o]

\* The defaults themselves: two configurations, the list for targets, in cell 3, and the one
\* for projects, in cell 6, each with copies of them.
ClassObjects ==
    FoldLeft(LAMBDA h, x : XCObject(h, x[1], x[2]).heap, <<>>,
             <<<<"XCBuildConfiguration", "name" :> "Debug">>, <<"XCBuildConfiguration", "name" :> "Release">>,
               <<"XCConfigurationList", <<>>>>, <<"XCConfigurationList", <<>>>>>>)

-----------------------------------------------------------------------------
(* The settings of some configurations.                                    *)

\* Those of a target or a project, and the one of a name.
Configurations(h, o) == h[h[o].properties["buildConfigurationList"][1]].properties["buildConfigurations"]
ConfigurationNamed(h, o, name) == SelectSeq(Configurations(h, o), LAMBDA c : h[c].properties["name"] = name)

BuildSettings(h, c) == h[c].properties["buildSettings"]

\* 1 if all have the same value, 0 if none has one, or else -1.
HasBuildSetting(h, cs, key) ==
    LET having == {c \in ToSet(cs) : key \in DOMAIN BuildSettings(h, c)}
    IN  CASE having = {} -> 0
          [] having = ToSet(cs) /\ \A c, d \in having : BuildSettings(h, c)[key] = BuildSettings(h, d)[key] -> 1
          [] OTHER -> -1

\* An exception unless all have the same value.
GetBuildSetting(h, cs, key) ==
    IF HasBuildSetting(h, cs, key) = 1 THEN [ok |-> TRUE, value |-> BuildSettings(h, cs[1])[key]]
    ELSE [ok |-> FALSE, value |-> <<>>]

SetBuildSetting(h, cs, key, value) ==
    Change(h, cs, LAMBDA g, c : [g EXCEPT ![c].properties["buildSettings"] = (key :> value) @@ @])

AppendBuildSetting(h, cs, key, value) ==
    LET Old(g, c) == IF key \in DOMAIN BuildSettings(g, c) THEN BuildSettings(g, c)[key] ELSE <<>>
    IN  Change(h, cs, LAMBDA g, c : SetBuildSetting(g, <<c>>, key, Append(Old(g, c), value)))

SetBaseConfiguration(h, cs, file) ==
    Change(h, cs, LAMBDA g, c : Put(g, c, "baseConfigurationReference", file))

SetAll(h, cs, settings) == Change(h, SetToSeq(DOMAIN settings), LAMBDA g, key : SetBuildSetting(g, cs, key, settings[key]))

-----------------------------------------------------------------------------
(* Lists of configurations, and who has them.                              *)

CreateXCConfigurationList(h, names) ==
    LET given == IF names = <<>> THEN <<"Default">> ELSE names
        Add(acc, o, name) == WithCell(XCObject(acc, "XCBuildConfiguration", "name" :> name),
                                      LAMBDA g, xcbc : AppendTo(g, o, "buildConfigurations", xcbc))
        Filled(h1, xccl) == Change(h1, given, LAMBDA acc, name : Add(acc, xccl, name))
    IN  WithCell(XCObject(h, "XCConfigurationList", "buildConfigurations" :> <<>>),
                 LAMBDA h1, xccl : Cell(Put(Filled(h1, xccl), xccl, "defaultConfigurationName", given[1]), xccl))

\* XCTarget.__init__, with a list or with the default one.
XCTarget(h, productName, xccl) ==
    LET Named(g, self, configs) ==
          IF HasBuildSetting(g, configs, "PRODUCT_NAME") # 0 THEN Cell(g, self)
          ELSE Cell(SetBuildSetting(g, configs, "PRODUCT_NAME", productName), self)
    IN  WithCell(XCObject(h, "XCTarget", ("productName" :> productName)
                                         @@ (IF xccl = 0 THEN <<>> ELSE "buildConfigurationList" :> <<xccl>>)),
                 LAMBDA g, self : Named(g, self, Configurations(g, self)))

ListedTarget(h, productName, names) ==
    WithCell(CreateXCConfigurationList(h, names), LAMBDA g, xccl : XCTarget(g, productName, xccl))
=============================================================================
