------------------------------ MODULE FlagValues ------------------------------
(***************************************************************************)
(* A FlagValues object of gflags.py through a program's life: modules      *)
(* define flags and declare key flags, flags are deleted, defaults         *)
(* changed, the flags of another FlagValues object are appended and        *)
(* removed, command lines are parsed, values are written to a flag file    *)
(* and flags are reset.  A caller that catches an exception goes on with   *)
(* what the failed call has left.                                          *)
(***************************************************************************)
EXTENDS Gflags

CONSTANTS Modules,      \* names of modules
          Programs,     \* what modules define when they are imported: sequences of [module, def]
          Defs,         \* the flags that modules may define later
          OtherDefs,    \* those defined in the other FlagValues object
          Argvs,        \* command lines, without the program's name
          Defaults,     \* values given to SetDefault
          FlagFiles,    \* the flag files there are at the start
          MaxSteps      \* bound on the operations, definitions included

VARIABLES reg,      \* [fl, objs, defined, key]: flags by name, the Flag objects, lists by module
          other,    \* the flags of the other object by name
          files,    \* the flag files
          gnu,      \* UseGnuGetOpt was called
          steps     \* the operations so far
vars == <<reg, other, files, gnu, steps>>

Special == 0        \* --flagfile, a flag of _SPECIAL_FLAGS
FlagFile == <<"flagfile">>   \* its name
Output == "out"     \* the file that AppendFlagsIntoFile writes

Flag(d) == NewFlag(d.name, d.short, d.kind, d.default, d.override)

\* DEFINE_flag, called by module m: an illegal default or a name that is taken raises.
Defined(r, m, d) ==
    LET id == Len(r.objs) + 1
        new == [r EXCEPT !.objs = Append(@, Flag(d))]
    IN  IF Flag(d).failed \/ Taken(new, id, Names(Flag(d))) # {} THEN r
        ELSE [SetItem(new, id) EXCEPT !.defined[m] = Append(@, id)]

NoFlags == [fl |-> <<>>, objs |-> <<>>, defined |-> [m \in Modules |-> <<>>], key |-> [m \in Modules |-> <<>>]]

Init == /\ \E p \in Programs : /\ reg = FoldLeft(LAMBDA r, x : Defined(r, x.module, x.def), NoFlags, p)
                               /\ steps = Len(p)
        /\ other = <<>>
        /\ files = FlagFiles
        /\ gnu = FALSE

DEFINE_flag(m, d) == /\ reg' = Defined(reg, m, d)
                     /\ UNCHANGED <<other, files, gnu>>

DefineOther(d) ==
    LET id == Len(reg.objs) + 1
    IN  /\ Names(d) \cap DOMAIN other = {}
        /\ reg' = [reg EXCEPT !.objs = Append(@, Flag(d))]
        /\ other' = [n \in Names(d) |-> id] @@ other
        /\ UNCHANGED <<files, gnu>>

DECLARE_key_flag(m, name) ==
    /\ reg' = DeclareKeyFlag(reg, m, IF name = FlagFile THEN Special ELSE reg.fl[name])
    /\ UNCHANGED <<other, files, gnu>>

\* The key flags are looked up again by their names; a name that is gone raises half way.
ADOPT_module_key_flags(m, from) ==
    LET Adopt(acc, id) ==
            IF id = Special \/ acc.stop THEN [acc EXCEPT !.stop = TRUE]
            ELSE IF reg.objs[id].name \notin DOMAIN reg.fl THEN [acc EXCEPT !.stop = TRUE]
            ELSE [acc EXCEPT !.r = DeclareKeyFlag(@, m, reg.fl[reg.objs[id].name])]
    IN  /\ m # from
        /\ reg' = FoldLeft(Adopt, [r |-> reg, stop |-> FALSE], GetKeyFlagsForModule(reg, from)).r
        /\ UNCHANGED <<other, files, gnu>>

Delete(name) == /\ reg' = DelAttr(reg, name)
                /\ UNCHANGED <<other, files, gnu>>

\* The flag that a call which raised has left.
Caught(flag) == [flag EXCEPT !.failed = FALSE]

ChangeDefault(name, value) ==
    LET id == reg.fl[name]
    IN  /\ reg' = [reg EXCEPT !.objs[id] = Caught(SetDefault(@, value))]
        /\ UNCHANGED <<other, files, gnu>>

\* AppendFlagValues walks a dictionary: a name that is taken raises, whatever came before stays.
AppendFlagValues ==
    LET long == {n \in DOMAIN other : reg.objs[other[n]].name = n}
        bad == {n \in long : Taken(reg, other[n], Names(reg.objs[other[n]])) # {}}
    IN  \E some \in IF bad = {} THEN {long} ELSE SUBSET (long \ bad) :
           /\ reg' = FoldLeft(LAMBDA r, n : SetItem(r, other[n]), reg, SetToSeq(some))
           /\ UNCHANGED <<other, files, gnu>>

\* So does RemoveFlagValues; it deletes by name, whichever flag has that name here.
RemoveFlagValues ==
    LET here == DOMAIN other \cap DOMAIN reg.fl
    IN  \E some \in IF here = DOMAIN other THEN {here} ELSE SUBSET here :
           /\ reg' = FoldLeft(DelAttr, reg, SetToSeq(some))
           /\ UNCHANGED <<other, files, gnu>>

\* FLAGS(argv), whether it returns or raises.
ParseArgv(argv) ==
    /\ \E r \in Call(files, argv, reg.fl, reg.objs, gnu) : reg' = [reg EXCEPT !.objs = r.objs]
    /\ UNCHANGED <<other, files, gnu>>

\* Every flag once for each of its names, until one has a default that is not legal.
Reset ==
    LET bad == {n \in DOMAIN reg.fl : Unparse(reg.objs[reg.fl[n]]).failed}
    IN  \E some \in IF bad = {} THEN {DOMAIN reg.fl} ELSE SUBSET (DOMAIN reg.fl \ bad) :
           /\ reg' = [reg EXCEPT !.objs = FoldLeft(LAMBDA objs, n : [objs EXCEPT ![reg.fl[n]] = Unparse(@)],
                                                   @, SetToSeq(some))]
           /\ UNCHANGED <<other, files, gnu>>

\* The lines of FlagsIntoString, in one of the orders of the dictionary.
FlagsIntoString ==
    LET valued == {n \in DOMAIN reg.fl : reg.objs[reg.fl[n]].value # None}
    IN  FoldLeft(LAMBDA s, n : s \o Serialize(reg.objs[reg.fl[n]]), <<>>, SetToSeq(valued))

AppendFlagsIntoFile ==
    /\ Output \notin DOMAIN files
    /\ files' = (Output :> FlagsIntoString) @@ files
    /\ UNCHANGED <<reg, other, gnu>>

UseGnuGetOpt == /\ ~gnu
                /\ gnu' = TRUE
                /\ UNCHANGED <<reg, other, files>>

Operation ==
    \/ \E m \in Modules : \/ \E d \in Defs : DEFINE_flag(m, d)
                          \/ \E name \in {FlagFile} \cup DOMAIN reg.fl : DECLARE_key_flag(m, name)
                          \/ \E from \in Modules : ADOPT_module_key_flags(m, from)
    \/ \E d \in OtherDefs : DefineOther(d)
    \/ \E name \in DOMAIN reg.fl : Delete(name) \/ \E value \in Defaults : ChangeDefault(name, value)
    \/ AppendFlagValues \/ RemoveFlagValues
    \/ \E argv \in Argvs : ParseArgv(argv)
    \/ Reset \/ AppendFlagsIntoFile \/ UseGnuGetOpt

Next == steps < MaxSteps /\ steps' = steps + 1 /\ Operation

Spec == Init /\ [][Next]_vars

-----------------------------------------------------------------------------
(* Properties.                                                             *)

\* ShortestUniquePrefixes: the prefix of a name is the shortest that no other name has, or
\* all of it.  Booleans are recognized by it, so a prefix that is too short sets the wrong
\* flag and one that is too long refuses a legal abbreviation.
PrefixesUnique ==
    LET names == SortedNames(reg.fl, reg.objs)
        prefixes == ShortestUniquePrefixes(names)
        Others(i, k) == {j \in DOMAIN names \ {i} : k <= Len(names[j]) /\ SubSeq(names[j], 1, k) = SubSeq(names[i], 1, k)}
    IN  \A i \in DOMAIN names :
          LET unique == {k \in 1..Len(names[i]) : Others(i, k) = {}}
          IN  prefixes[names[i]] = IF unique = {} THEN names[i] ELSE SubSeq(names[i], 1, Min(unique))

\* The values that FLAGS(argv) gives, with the flag files or as if there were none.
Values(r) == [n \in DOMAIN reg.fl |-> r.objs[reg.fl[n]]]
Alone(argv) == Call(<<>>, argv, reg.fl, reg.objs, gnu)

\* The lines of the flag files that a command line names, which stand before its own.
Lines(argv) ==
    LET read == ReadFlags(files, argv, <<>>, {}, gnu).argv
        own == ReadFlags(<<>>, argv, <<>>, {}, gnu).argv
    IN  SubSeq(read, 1, Len(read) - Len(own))

\* A line of a flag file at which getopt stops, or for which it takes the next argument.
Swallows(line) ==
    \/ line.form = "dashes" \/ (line.form = "plain" /\ ~gnu)
    \/ ~line.has /\ line.form = "short" /\ line.name \in DOMAIN reg.fl /\ reg.objs[reg.fl[line.name]].kind # "boolean"
    \/ ~line.has /\ line.form = "long" /\ \E n \in LongName(line, reg.fl) : reg.objs[reg.fl[n]].kind # "boolean"

\* ReadFlagsFromFiles: "Flags from the command line argv _should_ always take precedence!"
\* When FLAGS(argv) returns, a flag that the command line sets by itself has that value
\* whatever flag files it names; only a MultiFlag collects the values of both.  The code
\* keeps this only for flag files of nothing but options with their values: their lines
\* are put in front of the command line, so that after a plain word (unless getopt is GNU's)
\* or "--" in a file getopt stops before it, and an option that lacks its value takes the
\* next argument for it.
CommandLineWins ==
    \A argv \in Argvs : \A with \in Call(files, argv, reg.fl, reg.objs, gnu) :
      with.ok /\ ~(\E i \in DOMAIN Lines(argv) : Swallows(Lines(argv)[i])) =>
      \E alone \in Alone(argv) :
        \A n \in DOMAIN reg.fl :
          LET set == alone.objs[reg.fl[n]]
          IN  alone.ok /\ set.present > reg.objs[reg.fl[n]].present /\ ~IsMulti(set) =>
                with.objs[reg.fl[n]].value = set.value

\* Every flag is known by its long name, and no boolean is called like the negation of another.
Unambiguous ==
    LET booleans == {n \in DOMAIN reg.fl : reg.objs[reg.fl[n]].kind = "boolean"}
        Long(id) == reg.objs[id].name
    IN  /\ \A n \in booleans : No(n) \notin booleans
        /\ \A n \in DOMAIN reg.fl : Long(reg.fl[n]) \in DOMAIN reg.fl /\ reg.fl[Long(reg.fl[n])] = reg.fl[n]

\* AppendFlagsIntoFile writes a flag file: read by the same program before it has parsed
\* anything, it brings back every value, however it was set.  The code keeps this only if
\* every flag is known by its long name, no boolean is called like the negation of another
\* (Unambiguous), and no MultiFlag has several values or an empty list: several are written
\* on one line, which is read as one argument and may stop the program, and none as a blank
\* line, which brings the default back.
RoundTrip ==
    LET line == [form |-> "flagfile", name |-> <<>>, has |-> TRUE, val |-> Output, names |-> <<>>]
        used == {reg.objs[id] : id \in Range(reg.fl)}
        Fresh(flag) == LET f == Unparse(flag) IN IF f.failed THEN [flag EXCEPT !.value = None, !.present = 0] ELSE f
        fresh == FoldLeft(LAMBDA objs, id : [objs EXCEPT ![id] = Fresh(@)], reg.objs, SetToSeq(Range(reg.fl)))
    IN  Unambiguous /\ (\A flag \in used : Len(flag.value) = 1) =>
          \A r \in Call(Output :> FlagsIntoString, <<line>>, reg.fl, fresh, gnu) :
            r.ok /\ \A n \in DOMAIN reg.fl : r.objs[reg.fl[n]].value = reg.objs[reg.fl[n]].value

\* The lists by module, from which the help is made, name registered flags only: deleting a
\* flag by its last name removes it from all of them.  A flag that allowed another to take
\* its names stays listed.
ListsRegistered ==
    LET Overridden(i) == \E j \in DOMAIN reg.objs : /\ Names(reg.objs[i]) \cap Names(reg.objs[j]) # {}
                                                    /\ i # j /\ (reg.objs[i].override \/ reg.objs[j].override)
    IN  \A m \in Modules : \A i \in ToSet(GetKeyFlagsForModule(reg, m)) :
          i = Special \/ FlagIsRegistered(reg.fl, reg.objs, i) \/ Overridden(i)
=============================================================================
