------------------------------- MODULE Gflags -------------------------------
(***************************************************************************)
(* The flags library of gjslint, src/tools/closure_linter/gflags.py: the   *)
(* registry of flags, the reading of flag files and the parsing of command *)
(* lines.  A name is a sequence of letters, a value a sequence of strings, *)
(* None being <<"None">>.  An argument is a record: form is "long",        *)
(* "short", "plain", "dashes", "undefok" or "flagfile", has tells whether  *)
(* it contains "=", and names are what --undefok lists.  Help texts are    *)
(* left out.                                                               *)
(***************************************************************************)
EXTENDS Integers, TLC, SequencesExt

CONSTANTS Letters,      \* letters, in the order of Python's comparison
          Numbers,      \* the strings that are integers within the bounds
          Enum          \* the values of an enum flag

None == <<"None">>
No(name) == <<"n", "o">> \o name

-----------------------------------------------------------------------------
(* Flags.                                                                  *)

\* The parsers.  The result is a value, or <<"error">> for a ValueError.
Error == <<"error">>
ParseValue(kind, arg) ==
    CASE kind = "boolean" -> IF arg \in {"true", "t", "1"} THEN <<"True">>
                             ELSE IF arg \in {"false", "f", "0"} THEN <<"False">> ELSE Error
      [] kind \in {"integer", "multi_int"} -> IF arg \in Numbers THEN <<arg>> ELSE Error
      [] kind = "enum" -> IF arg \in Enum THEN <<arg>> ELSE Error
      [] OTHER -> <<arg>>

IsMulti(flag) == flag.kind = "multi_int"

\* Flag.Parse and MultiFlag.Parse, which forgets the default at the first argument.
Parse(flag, arg) ==
    LET v == ParseValue(flag.kind, arg)
    IN  IF v = Error THEN [flag EXCEPT !.failed = TRUE]
        ELSE [flag EXCEPT !.present = @ + 1,
                          !.value = IF IsMulti(flag) /\ flag.present > 0 THEN @ \o v ELSE v]

\* Unparse parses the default again, with what was parsed before still present; if that is
\* not legal, what was parsed stays.
Unparse(flag) ==
    LET parsed == IF flag.default = None THEN [flag EXCEPT !.value = None] ELSE FoldLeft(Parse, flag, flag.default)
    IN  IF parsed.failed THEN parsed ELSE [parsed EXCEPT !.present = 0]

\* An exception is raised for a default that is not legal, but the flag has it.
SetDefault(flag, value) ==
    IF value = None /\ flag.override THEN [flag EXCEPT !.failed = TRUE]
    ELSE Unparse([flag EXCEPT !.default = value])

NewFlag(name, short, kind, default, override) ==
    SetDefault([name |-> name, short |-> short, kind |-> kind, default |-> None, value |-> None,
                present |-> 0, override |-> override, failed |-> FALSE], default)

\* Mutant: a boolean that is false is left out.
SerializeTrue(flag) ==
    IF flag.kind = "boolean"
    THEN IF flag.value = <<"False">> THEN <<>>
         ELSE <<[form |-> "long", name |-> flag.name, has |-> FALSE, val |-> "", names |-> <<>>]>>
    ELSE <<[form |-> "long", name |-> flag.name, has |-> TRUE, val |-> flag.value[1], names |-> <<>>]>>

\* Flag.Serialize: a boolean without its value, every value of a MultiFlag on one line.
Serialize(flag) ==
    IF flag.kind = "boolean"
    THEN <<[form |-> "long", name |-> IF flag.value = <<"True">> THEN flag.name ELSE No(flag.name),
            has |-> FALSE, val |-> "", names |-> <<>>]>>
    ELSE IF Len(flag.value) # 1 /\ IsMulti(flag)
         THEN IF flag.value = <<>> THEN <<>>
              ELSE <<[form |-> "long", name |-> flag.name, has |-> TRUE, val |-> "joined", names |-> <<>>]>>
    ELSE <<[form |-> "long", name |-> flag.name, has |-> TRUE, val |-> flag.value[1], names |-> <<>>]>>

-----------------------------------------------------------------------------
(* Names and prefixes.                                                     *)

Rank(c) == CHOOSE i \in DOMAIN Letters : Letters[i] = c
Before(s, t) == \/ s = t \/ IsStrictPrefix(s, t)
                \/ \E i \in DOMAIN s \cap DOMAIN t : s[i] # t[i] /\ SubSeq(s, 1, i - 1) = SubSeq(t, 1, i - 1)
                                                     /\ Rank(s[i]) < Rank(t[i])

\* The names that may be abbreviated, those of booleans negated too, sorted.
SortedNames(fl, objs) ==
    LET booleans == {n \in DOMAIN fl : objs[fl[n]].kind = "boolean"}
    IN  SortSeq(SetToSeq(DOMAIN fl) \o SetToSeq({No(n) : n \in booleans}), LAMBDA s, t : s # t /\ Before(s, t))

\* Mutant: only the next name is compared.
ShortestUniquePrefixesNext(names) ==
    LET Common(s, t) == Cardinality({i \in DOMAIN s \cap DOMAIN t : SubSeq(s, 1, i) = SubSeq(t, 1, i)})
    IN  FoldLeft(LAMBDA of, i : (names[i] :> SubSeq(names[i], 1, Min({Len(names[i]),
                   1 + IF i = Len(names) THEN 0 ELSE Common(names[i], names[i + 1])}))) @@ of,
                 <<>>, [i \in DOMAIN names |-> i])

\* A scan that compares each name with the next, and remembers how much it shared.
ShortestUniquePrefixes(names) ==
    LET Common(s, t) == Cardinality({i \in DOMAIN s \cap DOMAIN t : SubSeq(s, 1, i) = SubSeq(t, 1, i)})
        Step(acc, i) ==
            LET curr == names[i]
                idx == IF i = Len(names) THEN 0 ELSE Common(curr, names[i + 1])
                prefix == SubSeq(curr, 1, Min({Len(curr), 1 + Max({acc.prev, idx})}))
            IN  [prev |-> idx, of |-> (curr :> prefix) @@ acc.of]
    IN  FoldLeft(Step, [prev |-> 0, of |-> <<>>], [i \in DOMAIN names |-> i]).of

-----------------------------------------------------------------------------
(* Flag files.                                                             *)

\* [lines, parsed]: the flags of a file, with those of the files it names in their place.
\* files maps a flag file to its lines that are neither blank nor comments.
RECURSIVE GetFlagFileLines(_, _, _)
GetFlagFileLines(files, file, parsed) ==
    LET Line(acc, line) ==
            IF line.form # "flagfile" THEN [acc EXCEPT !.lines = Append(@, line)]
            ELSE IF line.val \in acc.parsed THEN acc
            ELSE LET sub == GetFlagFileLines(files, line.val, acc.parsed)
                 IN  [lines |-> acc.lines \o sub.lines, parsed |-> sub.parsed]
    IN  IF file \notin DOMAIN files THEN [lines |-> <<>>, parsed |-> parsed]
        ELSE FoldLeft(Line, [lines |-> <<>>, parsed |-> parsed \cup {file}], files[file])

\* [argv, ok]: the lines of the files go in front of the arguments met so far.
RECURSIVE ReadFlags(_, _, _, _, _)
ReadFlags(files, rest, argv, parsed, gnu) ==
    LET arg == rest[1]
        bare == arg.form = "flagfile" /\ ~arg.has
        file == GetFlagFileLines(files, IF bare THEN rest[2].val ELSE arg.val, parsed)
    IN  CASE rest = <<>> -> [argv |-> argv, ok |-> TRUE]
          [] rest # <<>> /\ bare /\ Len(rest) = 1 -> [argv |-> argv, ok |-> FALSE]
          [] rest # <<>> /\ arg.form = "flagfile" /\ ~(bare /\ Len(rest) = 1) ->
               ReadFlags(files, SubSeq(rest, IF bare THEN 3 ELSE 2, Len(rest)), file.lines \o argv, file.parsed, gnu)
          [] rest # <<>> /\ (arg.form = "dashes" \/ (arg.form = "plain" /\ ~gnu)) -> [argv |-> argv \o rest, ok |-> TRUE]
          [] OTHER -> ReadFlags(files, Tail(rest), Append(argv, arg), parsed, gnu)

\* Mutant: the lines of the files go behind the arguments.
ReadFlagsFromFilesLate(files, argv, gnu) ==
    LET read == ReadFlags(files, argv, <<>>, {}, gnu)
        own == ReadFlags(<<>>, argv, <<>>, {}, gnu).argv
    IN  [read EXCEPT !.argv = own \o SubSeq(@, 1, Len(@) - Len(own))]

ReadFlagsFromFiles(files, argv, gnu) == ReadFlags(files, argv, <<>>, {}, gnu)

-----------------------------------------------------------------------------
(* Command lines.                                                          *)

\* A boolean without "=" is completed; an argument that is a value is taken for one too.
Completed(arg, fl, objs, prefixes) ==
    LET booleans == {n \in DOMAIN fl : objs[fl[n]].kind = "boolean"}
        Means(n) == IsPrefix(prefixes[n], arg.name) /\ IsPrefix(arg.name, n)
        yes == {n \in booleans : Means(n)}
        no == {n \in booleans : Means(No(n))}
        Full(n, v) == [arg EXCEPT !.name = n, !.has = TRUE, !.val = v]
    IN  IF arg.form # "long" \/ arg.has THEN {arg}
        ELSE IF yes \cup no = {} THEN {arg}
        ELSE {Full(n, "true") : n \in yes} \cup {Full(n, "false") : n \in no}

\* What getopt makes of a long option: an exact name, else the only name it abbreviates.
LongName(arg, fl) ==
    LET all == {n \in DOMAIN fl : IsPrefix(arg.name, n)}
    IN  IF arg.name \in all THEN {arg.name} ELSE all

Text(arg) == IF arg.form = "plain" THEN arg.val ELSE "option"

\* getopt: [opts, rest, bad, stop].  bad is the option it does not know, or <<>>; stop is
\* the error that an argument is missing.
RECURSIVE Getopt(_, _, _, _, _, _)
Getopt(args, opts, rest, fl, objs, gnu) ==
    LET arg == args[1]
        Done == [opts |-> opts, rest |-> rest \o args, bad |-> <<>>, stop |-> FALSE]
        Bad(name, stop) == [opts |-> opts, rest |-> rest, bad |-> name, stop |-> stop]
        name == IF arg.form = "short" THEN arg.name ELSE CHOOSE n \in LongName(arg, fl) : TRUE
        flagless == arg.form = "short" /\ objs[fl[name]].kind = "boolean"
        Take(opt, n) == Getopt(SubSeq(args, n + 1, Len(args)), Append(opts, opt), rest, fl, objs, gnu)
    IN  CASE args = <<>> -> Done
          [] args # <<>> /\ arg.form = "dashes" -> [Done EXCEPT !.rest = rest \o Tail(args)]
          [] args # <<>> /\ arg.form = "plain" ->
               IF gnu THEN Getopt(Tail(args), opts, Append(rest, arg), fl, objs, gnu) ELSE Done
          [] args # <<>> /\ arg.form = "undefok" -> Take(arg, 1)
          [] args # <<>> /\ arg.form = "long" /\ Cardinality(LongName(arg, fl)) # 1 -> Bad(arg.name, FALSE)
          [] args # <<>> /\ arg.form = "short" /\ name \notin DOMAIN fl -> Bad(name, FALSE)
          [] OTHER ->
               IF arg.has THEN Take([arg EXCEPT !.name = name], 1)
               ELSE IF flagless THEN Take([arg EXCEPT !.has = TRUE, !.val = "1"], 1)
               ELSE IF Len(args) = 1 THEN Bad(name, TRUE)
               ELSE Take([arg EXCEPT !.name = name, !.has = TRUE, !.val = Text(args[2])], 2)

\* getopt again and again, without the options it does not know: [opts, rest, bad, ok].
RECURSIVE Recognized(_, _, _, _, _)
Recognized(args, fl, objs, gnu, bad) ==
    LET r == Getopt(args, <<>>, <<>>, fl, objs, gnu)
        at == {i \in DOMAIN args : args[i].form \in {"long", "short"} /\ args[i].name = r.bad}
        first == CHOOSE i \in at : \A j \in at : i <= j
    IN  CASE r.bad = <<>> -> [opts |-> r.opts, rest |-> r.rest, bad |-> bad, ok |-> TRUE]
          [] r.bad # <<>> /\ (r.bad \in DOMAIN fl \/ at = {} \/ r.stop) ->
               [opts |-> <<>>, rest |-> <<>>, bad |-> bad, ok |-> FALSE]
          [] OTHER -> Recognized(RemoveAt(args, first), fl, objs, gnu, bad \cup {r.bad})

\* FlagValues.__call__: [objs, rest, ok] for each order in which dictionaries are walked.
Call(files, argv, fl, objs, gnu) ==
    LET read == ReadFlagsFromFiles(files, argv, gnu)
        prefixes == ShortestUniquePrefixes(SortedNames(fl, objs))
        Complete == FoldLeft(LAMBDA some, arg : {Append(s, c) : s \in some, c \in Completed(arg, fl, objs, prefixes)},
                             {<<>>}, read.argv)
        Store(acc, opt) ==
            IF ~acc.ok \/ opt.form = "undefok" THEN acc
            ELSE LET f == Parse(acc.objs[fl[opt.name]], opt.val)
                 IN  [objs |-> IF f.failed THEN acc.objs ELSE [acc.objs EXCEPT ![fl[opt.name]] = f], ok |-> ~f.failed]
        Result(args) ==
            LET r == Recognized(args, fl, objs, gnu, {})
                done == FoldLeft(Store, [objs |-> objs, ok |-> r.ok], r.opts)
                undefok == UNION {UNION {{n, No(n)} : n \in ToSet(o.names)} : o \in ToSet(r.opts)}
                n == Len(r.rest)
            IN  [objs |-> done.objs, ok |-> done.ok /\ r.bad \subseteq undefok,
                 rest |-> IF gnu THEN r.rest ELSE SubSeq(read.argv, Len(read.argv) - n + 1, Len(read.argv))]
    IN  IF read.ok THEN {Result(args) : args \in Complete} ELSE {[objs |-> objs, ok |-> FALSE, rest |-> <<>>]}

-----------------------------------------------------------------------------
(* The registry: [fl, objs, defined, key].                                 *)

\* __setitem__, for a flag that is in objs: the names that are taken, and the new ones.
Taken(r, id, names) ==
    {n \in names : n \in DOMAIN r.fl /\ ~r.objs[id].override /\ ~r.objs[r.fl[n]].override}

Names(flag) == IF flag.short = <<>> THEN {flag.name} ELSE {flag.name, flag.short}

SetItem(r, id) == [r EXCEPT !.fl = [n \in Names(r.objs[id]) |-> id] @@ @]

FlagIsRegistered(fl, objs, id) == \E n \in Names(objs[id]) : n \in DOMAIN fl /\ fl[n] = id

\* Mutant: the lists of key flags are forgotten.
DelAttrDefined(r, name) ==
    LET id == r.fl[name]
        fl == [n \in DOMAIN r.fl \ {name} |-> r.fl[n]]
    IN  IF FlagIsRegistered(fl, r.objs, id) THEN [r EXCEPT !.fl = fl]
        ELSE [r EXCEPT !.fl = fl, !.defined = [m \in DOMAIN @ |-> SelectSeq(@[m], LAMBDA i : i # id)]]

\* __delattr__: the lists of the modules forget the flag when its last name goes.
DelAttr(r, name) ==
    LET id == r.fl[name]
        fl == [n \in DOMAIN r.fl \ {name} |-> r.fl[n]]
        Forget(lists) == [m \in DOMAIN lists |-> SelectSeq(lists[m], LAMBDA i : i # id)]
    IN  IF FlagIsRegistered(fl, r.objs, id) THEN [r EXCEPT !.fl = fl]
        ELSE [r EXCEPT !.fl = fl, !.defined = Forget(@), !.key = Forget(@)]

\* The key flags of a module are those it defines and those declared as such.
GetKeyFlagsForModule(r, m) == r.defined[m] \o SelectSeq(r.key[m], LAMBDA i : ~Contains(r.defined[m], i))

DeclareKeyFlag(r, m, id) == IF Contains(r.key[m], id) THEN r ELSE [r EXCEPT !.key[m] = Append(@, id)]
=============================================================================
