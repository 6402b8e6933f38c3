------------------------------- MODULE GypEval -------------------------------
(***************************************************************************)
(* Variables, commands and conditions of gyp's build files: the expansion  *)
(* phases of src/tools/gyp/pylib/gyp/input.py.                             *)
(*                                                                         *)
(* A string that has something to expand is a value of the kind ref,       *)
(*   [ref |-> [phase, list, command, name]]                                *)
(* for <(name), >(name), ^(name) (phase 0, 1, 2), with @ (list) and with ! *)
(* (command).  Text around a reference is left out.  A command's output    *)
(* depends on the command only, as gyp's cache of outputs assumes.  The    *)
(* condition `name == value` is the value [cond |-> <<name, value>>].      *)
(***************************************************************************)
EXTENDS GypMerge

CONSTANTS Output,      \* what a command prints, a value, by the command's name
          Order        \* the order of the keys in Python's dictionaries

PHASE_EARLY    == 0
PHASE_LATE     == 1
PHASE_LATELATE == 2

Ref(phase, list, name) == [ref |-> [phase |-> phase, list |-> list, command |-> FALSE, name |-> name]]
Command(phase, name) == [ref |-> [phase |-> phase, list |-> FALSE, command |-> TRUE, name |-> name]]
IsReplacement(v) == IsString(v) \/ Is("int", v) \/ Is("list", v)

\* The name under which a dictionary's own key is a variable: _key.
Automatic(k) == <<k[1], k[2], "_">>

\* What a reference stands for, before that is expanded itself.
Replacement(r, variables) ==
    CASE r.command -> Output[r.name]
      [] r.name \in DOMAIN variables -> variables[r.name]
      [] r.name[2] \in {"!", "/"} -> List(<<>>)
      [] OTHER -> Raised

\* `inside` are the names under expansion: a name inside itself exceeds Python's
\* recursion limit.  A list in a place for a string is encoded as for a shell, the
\* value [shell |-> items].
RECURSIVE Expand(_, _, _, _)
Expand(input, phase, variables, inside) ==
    LET One(acc, v) == LET e == Expand(v, phase, variables, inside)
                       IN  acc \o IF Is("list", e) THEN e.list ELSE <<e>>
        All(l) == FoldLeft(One, <<>>, l)
        Good(l) == \A i \in DOMAIN l : IsScalar(l[i])
    IN  CASE Is("shell", input) -> LET l == All(input.shell) IN IF Good(l) THEN [shell |-> l] ELSE Raised
          [] ~Is("ref", input) -> input
          [] input.ref.phase # phase -> input
          [] input.ref.name \in inside -> Raised
          [] OTHER ->
               LET r == Replacement(input.ref, variables)
                   In(v) == Expand(v, phase, variables, inside \cup {input.ref.name})
                   items == IF Is("list", r)
                            THEN FoldLeft(LAMBDA acc, v : LET e == In(v) IN acc \o IF Is("list", e) THEN e.list ELSE <<e>>,
                                          <<>>, r.list)
                            ELSE <<In(r)>>
               IN  CASE ~IsReplacement(r) \/ ~Good(items) -> Raised
                     [] input.ref.list -> List(items)
                     [] Is("list", r) -> [shell |-> items]
                     [] OTHER -> Head(items)

ExpandVariables(input, phase, variables) == Expand(input, phase, variables, {})

-----------------------------------------------------------------------------
(* Scopes.                                                                 *)

\* The dictionary's own strings and lists, as variables.
LoadAutomaticVariablesFromDict(variables, d) ==
    [n \in {Automatic(k) : k \in {x \in DOMAIN d : IsReplacement(d[x])}} |-> d[<<n[1], n[2]>>]]
    @@ variables

\* The step of a plausible bug: a default replaces what an outer scope has set.
LoadVariablesOverwriting(variables, d, key) ==
    LET v == Get(d, Named("variables"), Dict(<<>>)).dict
    IN  [n \in {Named(k[1]) : k \in DOMAIN v} |->
           IF n \in DOMAIN v THEN v[n] ELSE v[<<n[1], "%">>]] @@ variables

\* The dictionary's "variables", where the % of a name makes it a default.
LoadVariablesFromVariablesDict(variables, d, key) ==
    LET v == Get(d, Named("variables"), Dict(<<>>)).dict
        set == {k \in DOMAIN v : k[2] # "%" /\ IsReplacement(v[k])}
        defaults == {Named(k[1]) : k \in {x \in DOMAIN v : x[2] = "%" /\ IsReplacement(v[x])}}
                    \ (set \cup DOMAIN variables)
        Default(n) == IF key = Named("variables") /\ n \in DOMAIN d THEN d[n] ELSE v[<<n[1], "%">>]
    IN  [n \in set \cup defaults |-> IF n \in set THEN v[n] ELSE Default(n)] @@ variables

Scope(variables, d, key) ==
    LoadVariablesFromVariablesDict(LoadAutomaticVariablesFromDict(variables, d), d, key)

RECURSIVE ProcessVariablesAndConditionsInDict(_, _, _, _), ProcessVariablesAndConditionsInList(_, _, _)

ConditionsKey(phase) == IF phase = PHASE_EARLY THEN Named("conditions") ELSE Named("target_conditions")

\* The step of a plausible bug: what a condition brings in is not processed itself.
ProcessConditionsPlain(d, phase, variables) ==
    LET key == ConditionsKey(phase)
        Chosen(c) == CASE c[1].cond[1] \notin DOMAIN variables -> Raised
                       [] variables[c[1].cond[1]] = c[1].cond[2] -> c[2]
                       [] Len(c) = 3 -> c[3]
                       [] OTHER -> Dict(<<>>)
        Apply(acc, c) == LET m == Chosen(c.list)
                         IN  IF Is("raised", acc) \/ Is("raised", m) THEN Raised
                             ELSE MergeDicts(acc, m, <<>>, <<>>, Order)
    IN  IF phase = PHASE_LATELATE \/ key \notin DOMAIN d THEN Dict(d)
        ELSE FoldLeft(Apply, Dict(Without(d, {key})), d[key].list)

ProcessConditionsInDict(d, phase, variables) ==
    LET key == ConditionsKey(phase)
        Chosen(c) == CASE c[1].cond[1] \notin DOMAIN variables -> Raised          \* NameError
                       [] variables[c[1].cond[1]] = c[1].cond[2] -> c[2]
                       [] Len(c) = 3 -> c[3]
                       [] OTHER -> Dict(<<>>)
        Apply(acc, c) ==
          LET Process(m) == ProcessVariablesAndConditionsInDict(m, phase, variables, Named(""))
              Merge(p) == MergeDicts(acc, Dict(p), <<>>, <<>>, Order)
          IN  IF Is("raised", acc) THEN Raised ELSE Then(Then(Chosen(c.list), Process), Merge)
    IN  IF phase = PHASE_LATELATE \/ key \notin DOMAIN d THEN Dict(d)
        ELSE FoldLeft(Apply, Dict(Without(d, {key})), d[key].list)

\* The strings of d expanded.
ExpandStrings(d, phase, variables) ==
    LET String(v) == LET e == ExpandVariables(v, phase, variables)
                     IN  IF Is("list", e) THEN Raised ELSE e
    IN  DictOf([k \in DOMAIN d |-> IF k # Named("variables") /\ IsString(d[k]) THEN String(d[k]) ELSE d[k]])

\* What is below d processed.
ProcessBelow(d, phase, variables) ==
    DictOf([k \in DOMAIN d |->
              CASE k = Named("variables") \/ IsString(d[k]) \/ Is("int", d[k]) -> d[k]
                [] Is("dict", d[k]) -> ProcessVariablesAndConditionsInDict(d[k].dict, phase, variables, k)
                [] OTHER -> ProcessVariablesAndConditionsInList(d[k].list, phase, variables)])

\* The dictionary whose "variables" and strings are expanded, conditions merged,
\* then everything below it; key is the one it has in the dictionary around it.
ProcessVariablesAndConditionsInDict(d, phase, variables_in, key) ==
    LET vkey == Named("variables")
        raw == Get(d, vkey, Dict(<<>>)).dict @@ LoadAutomaticVariablesFromDict(variables_in, d)
        vs == IF vkey \in DOMAIN d THEN ProcessVariablesAndConditionsInDict(d[vkey].dict, phase, raw, vkey)
              ELSE Dict(<<>>)
        With(v) == IF vkey \in DOMAIN d THEN Assign(d, vkey, Dict(v)) ELSE d
        Strings(v) == ExpandStrings(With(v), phase, LoadVariablesFromVariablesDict(raw, With(v), key))
        Conditions(d2) == ProcessConditionsInDict(d2, phase, Scope(variables_in, d2, key))
        Below(d3) == ProcessBelow(d3, phase, Scope(variables_in, d3, key))
    IN  Then(Then(Then(vs, Strings), Conditions), Below)

ProcessVariablesAndConditionsInList(l, phase, variables) ==
    LET Items(e) == IF Is("list", e) THEN e.list ELSE <<e>>
        New(v) == CASE Is("dict", v) -> <<ProcessVariablesAndConditionsInDict(v.dict, phase, variables, Named(""))>>
                    [] Is("list", v) -> <<ProcessVariablesAndConditionsInList(v.list, phase, variables)>>
                    [] IsString(v) -> Items(ExpandVariables(v, phase, variables))
                    [] OTHER -> <<v>>
    IN  ListOf(FoldLeft(LAMBDA acc, v : acc \o New(v), <<>>, l))
=============================================================================
