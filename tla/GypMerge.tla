------------------------------ MODULE GypMerge ------------------------------
(***************************************************************************)
(* How gyp merges dictionaries, moves paths from one build file to         *)
(* another, sets up configurations and filters lists: the part of          *)
(* src/tools/gyp/pylib/gyp/input.py that works on values only.             *)
(*                                                                         *)
(* A value of a build file is a record of one field, named for its type:   *)
(*   path    a string without a special first character, the sequence of   *)
(*           its components ("" last: the string ends in a slash)          *)
(*   fixed   a string that starts with / $ < > or ^: never a relative path *)
(*   flag    a string that starts with -                                   *)
(*   ref, shell, cond, dep   strings that later modules say more of        *)
(*   int, list, dict                                                       *)
(* A key is a pair <<name, suffix>>, the suffix one of "", = + ? ! and /.  *)
(* An exception is the value Raised.  The name of a build file is the      *)
(* sequence of its components, relative to the current directory.          *)
(***************************************************************************)
EXTENDS Integers, TLC, GypPaths

CONSTANTS PathSections,            \* the names of the sections that hold paths
          NonConfigurationKeys,    \* the names that belong to the target itself
          InvalidConfigurationKeys

Path(s)  == [path |-> s]
Fixed(s) == [fixed |-> s]
Flag(s)  == [flag |-> s]
List(l)  == [list |-> l]
Dict(d)  == [dict |-> d]
Raised   == [raised |-> TRUE]

Is(kind, v) == kind \in DOMAIN v
IsString(v) == \E kind \in {"path", "fixed", "flag", "ref", "shell", "cond", "dep"} : Is(kind, v)
IsScalar(v) == IsString(v) \/ Is("int", v)

Assign(d, k, v) == [x \in DOMAIN d \cup {k} |-> IF x = k THEN v ELSE d[x]]
Without(d, K)   == [x \in DOMAIN d \ K |-> d[x]]
Named(n)        == <<n, "">>
Get(d, k, default) == IF k \in DOMAIN d THEN d[k] ELSE default

\* What comes next with a dictionary, or with key k given the value v, unless that raised.
Then(v, Next(_)) == IF Is("raised", v) THEN Raised ELSE Next(v.dict)
Put(d, k, v) == IF Is("raised", v) THEN Raised ELSE Dict(Assign(d, k, v))
\* A dictionary or list unless one of its values raised.
DictOf(d) == IF \E k \in DOMAIN d : Is("raised", d[k]) THEN Raised ELSE Dict(d)
ListOf(l) == IF \E i \in DOMAIN l : Is("raised", l[i]) THEN Raised ELSE List(l)

IsPathSection(section) ==
    /\ section[1] \in PathSections
    /\ section[2] \in {"", "=", "+", "?", "!"}

-----------------------------------------------------------------------------
(* Paths.                                                                  *)

\* The current directory, below which all build files are.
Cwd == <<"home", "src">>
RealPath(s) == NormPath(Cwd \o s)

RelativePath(path, relative_to) == PathFrom(RealPath(relative_to), RealPath(path))

MakePathRelative(to_file, fro_file, item) ==
    IF to_file = fro_file \/ ~(Is("path", item) \/ Is("int", item))
    THEN item
    ELSE IF Is("int", item) \/ item = Path(<<>>)
         THEN Raised        \* a regular expression on a number, item[-1] of an empty string
         ELSE Path(NormPath(RelativePath(Front(fro_file), Front(to_file)) \o item.path)
                   \o IF Last(item.path) = "" THEN <<"">> ELSE <<>>)

-----------------------------------------------------------------------------
(* MergeLists and MergeDicts.  `order` is the order in which Python        *)
(* happens to iterate over the keys of the dictionaries.                   *)

RECURSIVE MergeDicts(_, _, _, _, _), MergeLists(_, _, _, _, _, _, _), MergeKeys(_, _, _, _, _, _)

ItemToMerge(item, to_file, fro_file, is_paths, order) ==
    CASE Is("dict", item) -> MergeDicts(Dict(<<>>), item, to_file, fro_file, order)
      [] Is("list", item) -> MergeLists(List(<<>>), item, to_file, fro_file, FALSE, TRUE, order)
      [] is_paths -> MakePathRelative(to_file, fro_file, item)
      [] OTHER -> item

\* One item `new` more in the list acc.l: at the end, or at acc.at, where the next one
\* then comes after it.  A string or number without - in front is there only once.
MergeItem(acc, new, append) ==
    LET singleton == IsScalar(new) /\ ~Is("flag", new)
        old == IF singleton THEN SelectSeq(acc.l, LAMBDA x : x # new) ELSE acc.l
    IN  CASE acc.bad \/ Is("raised", new) -> [acc EXCEPT !.bad = TRUE]
          [] append /\ singleton /\ Contains(acc.l, new) -> acc
          [] append -> [acc EXCEPT !.l = Append(@, new)]
          \* list.insert at an index beyond the end appends
          [] OTHER -> [acc EXCEPT !.l = IF acc.at > Len(old) THEN Append(old, new)
                                        ELSE InsertAt(old, acc.at + 1, new),
                                  !.at = @ + 1]

\* `to` after the items of `fro` were appended, or put before it.
MergeLists(to, fro, to_file, fro_file, is_paths, append, order) ==
    LET One(acc, item) == MergeItem(acc, ItemToMerge(item, to_file, fro_file, is_paths, order), append)
        Result(end) == IF end.bad THEN Raised ELSE List(end.l)
    IN  Result(FoldLeft(One, [l |-> to.list, at |-> 0, bad |-> FALSE], fro.list))

\* The step of a plausible bug: replacing and appending at once is let through.
IncompatibleSetOnly(k) ==
    IF k[2] = "?" THEN {Named(k[1]), <<k[1], "=">>, <<k[1], "+">>} ELSE {<<k[1], "?">>}

\* The merge policies that must not stand beside the one of key k in the same dictionary.
Incompatible(k) ==
    LET n == k[1]
    IN  CASE k[2] = "=" -> {<<n, "">>, <<n, "?">>}
          [] k[2] = "?" -> {<<n, "">>, <<n, "=">>, <<n, "+">>}
          [] k[2] \in {"", "+"} -> {<<n, "=">>, <<n, "?">>}
          [] OTHER -> {}

MergeKeyedList(to, k, fro, to_file, fro_file, order) ==
    LET base == IF k[2] \in {"=", "+", "?"} THEN Named(k[1]) ELSE k
        d    == IF k[2] = "=" THEN Assign(to, base, List(<<>>)) ELSE to
        l    == Get(d, base, List(<<>>))
    IN  CASE Incompatible(k) \cap DOMAIN fro # {} -> Raised
          [] k[2] = "?" /\ base \in DOMAIN to -> Dict(to)
          [] ~Is("list", l) -> Raised
          [] OTHER -> Put(d, base, MergeLists(l, fro[k], to_file, fro_file, IsPathSection(base), k[2] # "+", order))

MergeKey(to, k, fro, to_file, fro_file, order) ==
    LET v == fro[k]
        bad_merge == /\ k \in DOMAIN to
                     /\ IF IsScalar(v) THEN ~IsScalar(to[k])
                        ELSE \A kind \in {"list", "dict"} : Is(kind, v) => ~Is(kind, to[k])
    IN  CASE bad_merge -> Raised
          [] Is("list", v) -> MergeKeyedList(to, k, fro, to_file, fro_file, order)
          [] Is("dict", v) -> Put(to, k, MergeDicts(Get(to, k, Dict(<<>>)), v, to_file, fro_file, order))
          [] IsPathSection(k) -> Put(to, k, MakePathRelative(to_file, fro_file, v))
          [] OTHER -> Dict(Assign(to, k, v))

MergeKeys(to, keys, fro, to_file, fro_file, order) ==
    IF keys = <<>> \/ Is("raised", to) THEN to
    ELSE MergeKeys(MergeKey(to.dict, Head(keys), fro, to_file, fro_file, order),
                   Tail(keys), fro, to_file, fro_file, order)

MergeDicts(to, fro, to_file, fro_file, order) ==
    MergeKeys(to, SelectSeq(order, LAMBDA k : k \in DOMAIN fro.dict), fro.dict,
              to_file, fro_file, order)

-----------------------------------------------------------------------------
(* Configurations.                                                         *)

\* One configuration on top of `new`, after those it inherits from.
RECURSIVE MergeConfigWithInheritance(_, _, _, _, _)
MergeConfigWithInheritance(new, configurations, configuration, visited, order) ==
    LET c == configurations[configuration]
        parents == Get(c.dict, Named("inherit_from"), List(<<>>)).list
        Inherit(acc, p) == MergeConfigWithInheritance(acc, configurations, Named(p.fixed),
                                                      visited \cup {configuration}, order)
        merged == MergeDicts(FoldLeft(Inherit, new, parents), c, <<>>, <<>>, order)
    IN  CASE Is("raised", new) \/ configuration \in visited -> new
          [] configuration \notin DOMAIN configurations \/ Is("raised", merged) -> Raised
          [] OTHER -> Dict(Without(merged.dict, {Named("abstract")}))

\* 'abstract' with a value that Python takes as true.
IsAbstract(c) == /\ Named("abstract") \in DOMAIN c.dict
                 /\ c.dict[Named("abstract")] \notin {[int |-> 0], Path(<<>>), List(<<>>), Dict(<<>>)}

\* A key of the target itself, whatever filter or merge policy it ends in.
IsNonConfiguration(k) == k[1] \in NonConfigurationKeys /\ k[2] \in {"", "=", "+", "?", "!", "/"}

\* The configurations one after the other, in the order of the dictionary; each is put back
\* before the next one is made, which may inherit from it.
SetUpEach(given, target, order) ==
    LET Moved == Dict(Without(target, {k \in DOMAIN target : IsNonConfiguration(k)}))
        SetUp(acc, c) ==
            LET Merged(all) == Put(all, c, MergeConfigWithInheritance(Moved, all, c, {}, order))
            IN  Then(acc, Merged)
    IN  FoldLeft(SetUp, Dict(given), SelectSeq(order, LAMBDA c : c \in DOMAIN given /\ ~IsAbstract(given[c])))

\* `concrete` lists the names of the configurations that are not abstract, sorted.
SetUpConfigurations(target, concrete, order) ==
    LET default == Named("default_configuration")
        Given == Get(target, Named("configurations"), Dict(Named("Default") :> Dict(<<>>))).dict
        Invalid(c) == \E k \in InvalidConfigurationKeys : Named(k) \in DOMAIN c.dict
        Finish(all) ==
            LET set == Without(all, {c \in DOMAIN all : IsAbstract(all[c])})
            IN  IF \E c \in DOMAIN set : Invalid(set[c])
                THEN Raised
                ELSE Dict(Named("configurations") :> Dict(set)
                          @@ default :> Get(target, default, Fixed(concrete[1]))
                          @@ Without(target, {k \in DOMAIN target : ~IsNonConfiguration(k)}))
    IN  IF concrete = <<>> /\ default \notin DOMAIN target
        THEN Raised
        ELSE Then(SetUpEach(Given, target, order), Finish)

-----------------------------------------------------------------------------
(* Exclusion lists and regular expression filters.  A pattern is the set   *)
(* of the strings it matches.                                              *)

\* The step of a plausible bug: what was included once stays.
ListActionsSticky(l, exclude, regexes) ==
    LET Apply(acts, r) == [i \in DOMAIN l |-> IF l[i] \in r.pattern /\ acts[i] # 1
                                             THEN r.action ELSE acts[i]]
    IN  FoldLeft(Apply, [i \in DOMAIN l |-> IF Contains(exclude, l[i]) THEN 0 ELSE -1], regexes)

\* What the filters of a list say of each of its items: -1 nothing, 0 exclude, 1 include.
ListActions(l, exclude, regexes) ==
    LET Apply(acts, r) == [i \in DOMAIN l |-> IF l[i] \in r.pattern THEN r.action ELSE acts[i]]
    IN  FoldLeft(Apply, [i \in DOMAIN l |-> IF Contains(exclude, l[i]) THEN 0 ELSE -1], regexes)

Excluded(n) == <<n, "_excluded">>
FilterOf(v) == [action |-> IF v.list[1] = Fixed("exclude") THEN 0 ELSE 1, pattern |-> v.list[2].regex]

RECURSIVE ProcessListFiltersInDict(_), ProcessListFilters(_)
ProcessListFilters(v) ==
    CASE Is("dict", v) -> ProcessListFiltersInDict(v.dict)
      [] Is("list", v) -> ListOf([i \in DOMAIN v.list |-> ProcessListFilters(v.list[i])])
      [] OTHER -> v

ProcessListFiltersInDict(d) ==
    LET filters == {k \in DOMAIN d : k[2] \in {"!", "/"}}
        lists == {k[1] : k \in filters} \cap {k[1] : k \in {x \in DOMAIN d : x[2] = ""}}
        FilterList(n) == Get(d, <<n, "!">>, List(<<>>)).list
        acts == [n \in lists |->
                   ListActions(d[Named(n)].list, FilterList(n),
                               [i \in DOMAIN Get(d, <<n, "/">>, List(<<>>)).list |->
                                  FilterOf(d[<<n, "/">>].list[i])])]
        Chosen(n, S) == LET l == d[Named(n)].list
                            R(acc, i) == IF acts[n][i] \in S THEN Append(acc, l[i]) ELSE acc
                        IN  List(FoldLeftDomain(R, <<>>, l))
        some == {n \in lists : \E i \in DOMAIN acts[n] : acts[n][i] = 0}
        new == [k \in {Named(n) : n \in lists} |-> Chosen(k[1], {-1, 1})]
               @@ [k \in {Excluded(n) : n \in some} |-> Chosen(k[1], {0})]
               @@ Without(d, filters)
    IN  IF \/ \E k \in filters : ~Is("list", d[k])
           \/ \E n \in lists : ~Is("list", d[Named(n)]) \/ Excluded(n) \in DOMAIN d
        THEN Raised
        ELSE DictOf([k \in DOMAIN new |-> ProcessListFilters(new[k])])
=============================================================================
