------------------------------ MODULE Cpplint ------------------------------
(***************************************************************************)
(* cpplint.py from main to its exit: options, then file by file and line   *)
(* by line, with the state it keeps about the includes, the function and   *)
(* the classes around the current line.  Texts of messages are left out.   *)
(***************************************************************************)
EXTENDS CpplintStyle

CONSTANTS Commands,         \* [opts, files, src]: options <<name, value>>, names of files, and the
                            \* files that can be opened: name -> [lines, cr]
          Categories,       \* _ERROR_CATEGORIES
          CppHeaders,       \* _STL_HEADERS and _CPP_HEADERS
          Requires,         \* token -> the header that declares it
          Rank(_),          \* the place of a canonical name in alphabetical order
          Guard, OldGuard,  \* GetHeaderGuardCPPVariable of a file, and with another _
          NormalTrigger, TestTrigger     \* _NORMAL_TRIGGER, _TEST_TRIGGER

VARIABLES pc,       \* "args", "files", "lines" or "done"
          cmd,      \* the command line and the files
          opts,     \* [verbose, filters, counting]
          todo,     \* the files that are left
          file,     \* [name, lines]: the file, without comments of several lines
          at,       \* the line that is checked next
          st,       \* [suppressed, found, count, by]: NOLINT, the errors found, and the statistics
          inc,      \* _IncludeState: [seen, section, last]
          fn,       \* _FunctionState: [inside, lines, test]
          classes,  \* the stack of _ClassInfo: [line, name, seen, derived, virtual, destructor, depth]
          status    \* the exit status
vars == <<pc, cmd, opts, todo, file, at, st, inc, fn, classes, status>>

-----------------------------------------------------------------------------
(* Errors.                                                                 *)

Nolint == <<"readability", "nolint">>
HeaderGuard == <<"build", "header_guard">>
MultilineComment == <<"readability", "multiline_comment">>
FnSize == <<"readability", "fn_size">>

\* The names of categories that start with the name of another.
Longer == "include" :> {"include_alpha", "include_order", "include_what_you_use"} @@ "printf" :> {"printf_format"}
StartsWith(category, prefix) ==
    \/ IsPrefix(prefix, category)
    \/ prefix # <<>> /\ Front(prefix) = Front(category) /\ Last(prefix) \in DOMAIN Longer /\ Last(category) \in Longer[Last(prefix)]

\* The last filter that matches the start of the category decides.
Filtered(filters, category) ==
    LET hits == {i \in DOMAIN filters : StartsWith(category, filters[i].prefix)}
    IN  hits # {} /\ filters[Max(hits)].sign = "-"

IsErrorSuppressedByNolint(s, category, line) == <<category, line>> \in s.suppressed \/ <<All, line>> \in s.suppressed

ShouldPrintError(s, category, confidence, line) ==
    ~IsErrorSuppressedByNolint(s, category, line) /\ confidence >= opts.verbose /\ ~Filtered(opts.filters, category)

IncrementErrorCount(s, category) ==
    LET key == IF opts.counting = "detailed" THEN category ELSE <<category[1]>>
    IN  [s EXCEPT !.count = @ + 1,
                  !.by = IF opts.counting \in {"toplevel", "detailed"}
                         THEN (key :> 1 + IF key \in DOMAIN @ THEN @[key] ELSE 0) @@ @ ELSE @]

Error(s, name, line, category, confidence) ==
    LET print == ShouldPrintError(s, category, confidence, line)
        e == [file |-> name, line |-> line, category |-> category, confidence |-> confidence, printed |-> print]
    IN  [(IF print THEN IncrementErrorCount(s, category) ELSE s) EXCEPT !.found = @ \cup {e}]

If(test, s, name, line, category, confidence) == IF test THEN Error(s, name, line, category, confidence) ELSE s

Report(s, name, line, findings) == FoldLeft(LAMBDA s1, f : Error(s1, name, line, f.category, f.confidence), s, findings)

ParseNolintSuppressions(s, name, line, nolint) ==
    IF nolint = <<>> THEN s
    ELSE IF nolint = All THEN [s EXCEPT !.suppressed = @ \cup {<<All, line>>}]
    ELSE IF nolint \in Categories THEN [s EXCEPT !.suppressed = @ \cup {<<nolint, line>>}]
    ELSE Error(s, name, line, Nolint, 5)

\* Mutant: the line numbers of one file suppress the errors of the next.
ResetNolintSuppressionsNever(s) == s
ResetNolintSuppressions(s) == [s EXCEPT !.suppressed = {}]

-----------------------------------------------------------------------------
(* Checks of a file.                                                       *)

\* The first #ifndef and #define, the last #endif; NOLINT on their lines is read here already.
CheckForHeaderGuard(s, name, lines) ==
    LET Starting(t) == {i \in DOMAIN lines : Len(lines[i].tok) >= 2 /\ lines[i].tok[1] = t}
        ifndef == Min(Starting("#ifndef"))
        define == Min(Starting("#define"))
        endifs == {i \in DOMAIN lines : lines[i].tok # <<>> /\ lines[i].tok[1] = "#endif"}
        var == lines[ifndef].tok[2]
        endif == Max(endifs)
        Closes(v) == lines[endif].tok = <<"#endif", "//", v>>
        Level(ok) == IF ok THEN 0 ELSE 5
        At(s1, i, ok) == Error(ParseNolintSuppressions(s1, name, i, lines[i].nolint), name, i, HeaderGuard, Level(ok))
        styled == IF var = Guard[name] THEN s ELSE At(s, ifndef, var = OldGuard[name])
    IN  IF Starting("#ifndef") = {} \/ Starting("#define") = {} THEN Error(s, name, 0, HeaderGuard, 5)
        ELSE IF var # lines[define].tok[2] THEN Error(s, name, 0, HeaderGuard, 5)
        ELSE IF endifs = {} THEN Error(styled, name, 0, HeaderGuard, 5)
        ELSE IF Closes(Guard[name]) THEN styled ELSE At(styled, endif, Closes(OldGuard[name]))

CheckForCopyright(s, name, lines) ==
    If(\A i \in 1..Min({Len(lines), 10}) : ~Has(lines[i].tok, "Copyright"), s, name, 0, <<"legal", "copyright">>, 5)

\* The class whose end was not found is the outermost.
CheckFinished(s, name) == IF classes = <<>> THEN s ELSE Error(s, name, classes[1].line, <<"build", "class">>, 5)

\* The headers that the file uses, with the last line that does, unless they are included by
\* it or by its own header; a .cc file whose own header is not found is not checked.
CheckForIncludeWhatYouUse(s, name, lines) ==
    LET uses == {u \in (DOMAIN Requires) \X (DOMAIN lines) :
                   LET t == Elided(lines[u[2]]) IN t # <<>> /\ t[1] \notin {"#include", "#ifndef", "#define", "#endif"} /\ Has(t, u[1])}
        Module(h) == FilesBelongToSameModule(name, h)
        Opened == {h \in DOMAIN cmd.src : \E i \in inc.seen : Module(i).same /\ h = [i EXCEPT !.dir = Module(i).prefix \o @]}
        found == inc.seen \cup UNION {{l.include.name : l \in {l \in ToSet(cmd.src[h].lines) : l.include # NoInclude}} : h \in Opened}
        missing == {u \in uses : Requires[u[1]] \notin found /\ \A v \in uses : Requires[v[1]] = Requires[u[1]] => v[2] <= u[2]}
    IN  IF name.ext = "cc" /\ Opened = {} THEN s
        ELSE FoldLeft(LAMBDA s1, u : Error(s1, name, u[2], <<"build", "include_what_you_use">>, 4), s, SetToSeq(missing))

CheckForUnicodeReplacementCharacters(s, name, lines) ==
    FoldLeft(LAMBDA s1, i : If(Has(lines[i].tok, "utf8"), s1, name, i, <<"readability", "utf8">>, 5), s, [i \in DOMAIN lines |-> i])

\* The line before the marker at the end is empty if the file ends in a newline.
CheckForNewlineAtEOF(s, name, lines) ==
    LET n == Len(lines) IN If(n < 2 \/ lines[n - 1].tok # <<>>, s, name, n - 1, <<"whitespace", "ending_newline">>, 5)

-----------------------------------------------------------------------------
(* Checks of a line.                                                       *)

Body(ix) == {i \in ix..Len(file.lines) : \E t \in {"{", ";", "}"} : Has(Lines(file.lines[i]), t)}

\* [s, fn]: a function starts in the first column and ends with a brace of its own there.
CheckForFunctionLengths(s, name, ix) ==
    LET line == Lines(file.lines[ix])
        starting == file.lines[ix].col0 /\ line # <<>> /\ line[1] \in {"f(", "TEST("}
        start == Lines(file.lines[Min(Body(ix))])
        base == IF fn.test THEN TestTrigger ELSE NormalTrigger
        level == Max({k \in 0..5 : 2^k <= fn.lines \div base})
    IN  IF starting
        THEN IF Body(ix) = {} THEN [s |-> Error(s, name, ix, FnSize, 5), fn |-> fn]
             ELSE [s |-> s, fn |-> IF Has(start, ";") \/ Has(start, "}") THEN fn
                                   ELSE [inside |-> TRUE, lines |-> 0, test |-> line[1] = "TEST("]]
        ELSE IF file.lines[ix].col0 /\ line = <<"}">>
        THEN [s |-> If(fn.lines > base * 2^opts.verbose, s, name, ix, FnSize, level), fn |-> [fn EXCEPT !.inside = FALSE]]
        ELSE [s |-> s, fn |-> IF line # <<>> /\ fn.inside THEN [fn EXCEPT !.lines = @ + 1] ELSE fn]

CheckForMultilineCommentsAndStrings(s, name, ix) ==
    LET line == Elided(file.lines[ix])
    IN  If(Count(line, Quote) % 2 = 1,
           If(Count(line, "/*") > Count(line, "*/"), s, name, ix, MultilineComment, 5),
           name, ix, <<"readability", "multiline_string">>, 5)

Section == [initial |-> 0, my_h |-> 1, c |-> 2, cpp |-> 3, other_h |-> 4]

\* Mutant: the file's own header is always first.
CheckNextIncludeOrderMy(i, type) ==
    LET Sys(sec) == [ok |-> i.section <= sec, to |-> IF i.section <= sec THEN sec ELSE i.section]
        next == CASE type = "c_sys" -> Sys(Section.c)
                  [] type = "cpp_sys" -> Sys(Section.cpp)
                  [] OTHER -> [ok |-> TRUE, to |-> IF type = "other" THEN Section.other_h ELSE Section.my_h]
    IN  [ok |-> next.ok,
         inc |-> [i EXCEPT !.section = next.to, !.last = IF next.ok /\ next.to = i.section THEN @ ELSE 0]]

\* [ok, inc]: the next section, and whether the include is in order.
CheckNextIncludeOrder(i, type) ==
    LET Sys(sec) == [ok |-> i.section <= sec, to |-> IF i.section <= sec THEN sec ELSE i.section]
        next == CASE type = "c_sys" -> Sys(Section.c)
                  [] type = "cpp_sys" -> Sys(Section.cpp)
                  [] type \in {"likely_my", "possible_my"} ->
                       [ok |-> TRUE, to |-> IF i.section <= Section.my_h THEN Section.my_h ELSE Section.other_h]
                  [] OTHER -> [ok |-> TRUE, to |-> Section.other_h]
    IN  [ok |-> next.ok,
         inc |-> [i EXCEPT !.section = next.to, !.last = IF next.ok /\ next.to = i.section THEN @ ELSE 0]]

\* [ok, inc]: the order compares with the last header that was in order; -inl does not count.
IsInAlphabeticalOrder(i, header) ==
    LET rank == Rank([header EXCEPT !.suffix = IF @ = "inl" THEN "" ELSE @])
    IN  [ok |-> i.last <= rank, inc |-> [i EXCEPT !.last = IF @ <= rank THEN rank ELSE @]]

\* [s, inc].
CheckIncludeLine(s, name, ix) ==
    LET include == file.lines[ix].include
        order == CheckNextIncludeOrder([inc EXCEPT !.seen = @ \cup {include.name}], ClassifyInclude(name, include, CppHeaders))
        alpha == IsInAlphabeticalOrder(order.inc, include.name)
        checked == IF include.name \in inc.seen
                   THEN [s |-> Error(s, name, ix, <<"build", "include">>, 4), inc |-> inc]
                   ELSE [s |-> If(~alpha.ok, If(~order.ok, s, name, ix, <<"build", "include_order">>, 4),
                                  name, ix, <<"build", "include_alpha">>, 4),
                         inc |-> alpha.inc]
    IN  [checked EXCEPT !.s = If(include.name.base = <<"iostream">> /\ ~IsTestFilename(name), @,
                                 name, ix, <<"readability", "streams">>, 3)]

ClassInfo(ix, name) == [line |-> ix, name |-> name, seen |-> FALSE, derived |-> FALSE, virtual |-> FALSE, destructor |-> FALSE, depth |-> 0]

\* Mutant: a forward declaration waits for its body.
DeclaredNever(c, line) == FALSE

\* A line with a semicolon before the first brace: a forward declaration, or a class on one line.
Declared(c, line) == ~c.seen /\ Has(line, ";")

\* A constructor with one argument, at the start of an indented line: no copy, and not explicit.
SingleArgument(l, class) ==
    LET line == Elided(l)
        ends == {i \in DOMAIN line : line[i] = ")"}
        arg == SubSeq(line, 3, Min(ends) - 1)
    IN  /\ ~l.col0 /\ IsPrefix(<<class, "(">>, line) /\ ends # {}
        /\ arg \notin {<<>>, <<"void">>} /\ ~Has(arg, ",") /\ ~Has(arg, "(")
        /\ ~IsPrefix(<<class, "&">>, arg) /\ ~IsPrefix(<<"const", class, "&">>, arg)

\* [s, classes]: only the innermost class looks at the braces of a line.
CheckForNonStandardConstructs(s0, name, ix) ==
    LET line == Elided(file.lines[ix])
        s == Report(s0, name, ix, NonStandardConstructs(file.lines[ix]))
        stack == IF Len(line) > 1 /\ line[1] = "class" THEN Append(classes, ClassInfo(ix, line[2])) ELSE classes
        Same == [s |-> s, classes |-> stack]
        opened == [Last(stack) EXCEPT !.seen = @ \/ Has(line, "{"), !.derived = @ \/ (~Last(stack).seen /\ Has(line, ":"))]
        c == [opened EXCEPT !.virtual = @ \/ Has(line, "virtual"), !.destructor = @ \/ (Has(line, "virtual") /\ Occurs(line, <<"~", Last(stack).name, "(">>)),
                            !.depth = (@ + Count(line, "{")) - Count(line, "}")]
        explicit == If(SingleArgument(file.lines[ix], opened.name), s, name, ix, <<"runtime", "explicit">>, 5)
    IN  IF stack = <<>> THEN Same
        ELSE IF Declared(Last(stack), line) THEN [Same EXCEPT !.classes = Front(stack)]
        ELSE IF ~opened.seen THEN [Same EXCEPT !.classes = Append(Front(stack), opened)]
        ELSE IF c.depth > 0 THEN [s |-> explicit, classes |-> Append(Front(stack), c)]
        ELSE [s |-> If(c.virtual /\ ~c.destructor /\ ~c.derived, explicit, name, c.line, <<"runtime", "virtual">>, 4),
              classes |-> Front(stack)]

-----------------------------------------------------------------------------
(* The program.                                                            *)

NoLines == [name |-> <<>>, lines |-> <<>>]
NoIncludes == [seen |-> {}, section |-> Section.initial, last |-> 0]
NoFunction == [inside |-> FALSE, lines |-> 0, test |-> FALSE]
Default == [sign |-> "-", prefix |-> <<"build", "include_alpha">>]

Init == /\ pc = "args" /\ status = 0
        /\ cmd \in Commands
        /\ opts = [verbose |-> 1, filters |-> <<Default>>, counting |-> "total"]
        /\ todo = <<>> /\ file = NoLines /\ at = 0
        /\ st = [suppressed |-> {}, found |-> {}, count |-> 0, by |-> <<>>]
        /\ inc = NoIncludes /\ fn = NoFunction /\ classes = <<>>

Exit(code) == pc' = "done" /\ status' = code

\* ParseArguments: an option that getopt does not know, the first option that ends the program,
\* or else the last value of each option; counting is "" when it is not given.
ParseArguments ==
    LET Ends(o) == o[1] = "help" \/ (o[1] \in {"counting", "output"} /\ o[2] = "bad") \/ o = <<"filter", <<>>>>
        unknown == \E i \in DOMAIN cmd.opts : cmd.opts[i][1] = "unknown"
        ends == {i \in DOMAIN cmd.opts : Ends(cmd.opts[i])}
        Value(opt, default) ==
            LET given == {i \in DOMAIN cmd.opts : cmd.opts[i][1] = opt}
            IN  IF given = {} THEN default ELSE cmd.opts[Max(given)][2]
        filters == Value("filter", <<>>)
    IN  /\ pc = "args"
        /\ IF unknown THEN Exit(1) /\ UNCHANGED <<opts, todo>>
           ELSE IF ends # {} THEN Exit(IF cmd.opts[Min(ends)][1] = "filter" THEN 0 ELSE 1) /\ UNCHANGED <<opts, todo>>
           ELSE IF cmd.files = <<>> \/ \E i \in DOMAIN filters : filters[i].sign \notin {"+", "-"}
           THEN Exit(1) /\ UNCHANGED <<opts, todo>>
           ELSE /\ pc' = "files" /\ UNCHANGED status
                /\ opts' = [verbose |-> Value("verbose", opts.verbose), filters |-> <<Default>> \o filters, counting |-> Value("counting", "")]
                /\ todo' = cmd.files
        /\ UNCHANGED <<cmd, file, at, st, inc, fn, classes>>

\* ProcessFile and ProcessFileData up to the loop over the lines.
BeginFile ==
    LET name == todo[1]
        lines == cmd.src[name].lines \o <<Text(<<"//">>)>>
        removed == RemoveMultiLineComments(lines, 1)
        copyright == CheckForCopyright(ResetNolintSuppressions(st), name, lines)
        guarded == IF name.ext = "h" THEN CheckForHeaderGuard(copyright, name, lines) ELSE copyright
    IN  /\ pc = "files" /\ todo # <<>>
        /\ name \in DOMAIN cmd.src /\ name.ext \in {"cc", "h", "cpp"}
        /\ pc' = "lines"
        /\ file' = [name |-> name, lines |-> CleansedLines(removed.lines)]
        /\ st' = If(removed.open > 0, guarded, name, removed.open + 1, MultilineComment, 5)
        /\ at' = 1 /\ inc' = NoIncludes /\ fn' = NoFunction /\ classes' = <<>>
        /\ UNCHANGED <<cmd, opts, todo, status>>

\* "Skipping input" and "Ignoring": no error is counted.
SkipFile == /\ pc = "files" /\ todo # <<>>
            /\ todo[1] \notin DOMAIN cmd.src \/ todo[1].ext \notin {"cc", "h", "cpp"}
            /\ todo' = Tail(todo)
            /\ UNCHANGED <<pc, cmd, opts, file, at, st, inc, fn, classes, status>>

ProcessLine ==
    LET name == file.name
        line == file.lines[at]
        s1 == ParseNolintSuppressions(st, name, at, line.nolint)
        length == CheckForFunctionLengths(s1, name, at)
        s2 == CheckForMultilineCommentsAndStrings(length.s, name, at)
        isInclude == Elided(line) # <<>> /\ line.include # NoInclude
        s3 == Report(s2, name, at, CheckStyle(file.lines, at, name, Guard[name]))
        language == IF isInclude THEN CheckIncludeLine(s3, name, at)
                    ELSE [s |-> Report(s3, name, at, CheckLanguage(file.lines, at, name)), inc |-> inc]
        standard == CheckForNonStandardConstructs(language.s, name, at)
        last == CheckPosixThreading(Elided(line)) \o CheckInvalidIncrement(Elided(line))
    IN  /\ pc = "lines" /\ at <= Len(file.lines)
        /\ st' = Report(standard.s, name, at, last) /\ fn' = length.fn /\ inc' = language.inc /\ classes' = standard.classes
        /\ at' = at + 1
        /\ UNCHANGED <<pc, cmd, opts, todo, file, status>>

\* The rest of ProcessFileData and of ProcessFile.
EndFile ==
    LET name == file.name
        s1 == CheckForIncludeWhatYouUse(CheckFinished(st, name), name, file.lines)
        s2 == CheckForNewlineAtEOF(CheckForUnicodeReplacementCharacters(s1, name, file.lines), name, file.lines)
    IN  /\ pc = "lines" /\ at > Len(file.lines)
        /\ st' = If(cmd.src[name].cr, s2, name, 0, <<"whitespace", "newline">>, 1)
        /\ pc' = "files" /\ todo' = Tail(todo)
        /\ UNCHANGED <<cmd, opts, file, at, inc, fn, classes, status>>

Finish == /\ pc = "files" /\ todo = <<>>
          /\ Exit(IF st.count > 0 THEN 1 ELSE 0)
          /\ UNCHANGED <<cmd, opts, todo, file, at, st, inc, fn, classes>>

Next == ParseArguments \/ BeginFile \/ SkipFile \/ ProcessLine \/ EndFile \/ Finish

Spec == Init /\ [][Next]_vars

-----------------------------------------------------------------------------
(* Properties.                                                             *)

\* NOLINT as the file says it: on the line of the error, and not inside a longer comment.
Unlinted(e) ==
    LET lines == RemoveMultiLineComments(cmd.src[e.file].lines, 1).lines
    IN  e.line \in DOMAIN lines /\ lines[e.line].nolint \in {All, e.category}

\* _ShouldPrintError: an error is printed unless its own line, in its own file, suppresses it,
\* the verbosity is too low or a filter takes it out, also when it is found at a line that
\* was passed long ago or is still to come.  The one exception is the comment without an end,
\* which is reported before any NOLINT is read (ProcessFileData).
Unended(e) ==
    LET open == RemoveMultiLineComments(cmd.src[e.file].lines \o <<Text(<<"//">>)>>, 1).open
    IN  e.category = MultilineComment /\ open > 0 /\ e.line = open + 1
SuppressedExactly ==
    \A e \in st.found :
      \/ e.printed <=> ~Unlinted(e) /\ e.confidence >= opts.verbose /\ ~Filtered(opts.filters, e.category)
      \/ Unended(e)

\* The includes before line ix that are not repetitions, and what they are.
Includes(ix) == {i \in 1..(ix - 1) : LET l == file.lines[i] IN
                   l.include # NoInclude /\ \A j \in 1..(i - 1) : file.lines[j].include.name # l.include.name}
Type(i) == ClassifyInclude(file.name, file.lines[i].include, CppHeaders)
My == {"likely_my", "possible_my"}

\* The five ranks of CheckIncludeLine (2297-2304): the file's own header, where it is preferred,
\* the headers of C and of C++, its own where that is deprecated, and others.
Order(i) == CASE Type(i) \in My -> IF \A k \in Includes(i) : Type(k) \in My THEN 1 ELSE 4
              [] Type(i) = "c_sys" -> 2
              [] Type(i) = "cpp_sys" -> 3
              [] OTHER -> 5

\* CheckNextIncludeOrder against that comment, which says that it "keeps track of the highest
\* type seen, and complains if we see a lower type after that": it does so exactly for the
\* headers of C and of C++.  The file's own header behind an other one, of rank 4 behind 5, is
\* never reported, since the code has one section for both, against the comment.
IncludesInOrder ==
    LET Lower(i) == \E j \in Includes(i) : Order(j) > Order(i)
    IN  pc = "lines" =>
          {e.line : e \in {e \in st.found : e.file = file.name /\ e.category = <<"build", "include_order">>}}
            = {i \in Includes(at) : Lower(i) /\ Type(i) \notin My}

\* The braces before line ix and its first k tokens: which of the open ones are of classes, and
\* whether a class waits for its own.
Nesting(ix, k) ==
    LET Token(acc, t) == CASE t = "class" -> [acc EXCEPT !.pending = TRUE]
                           [] t = ";" -> [acc EXCEPT !.pending = FALSE]
                           [] t = "{" -> [stack |-> Append(acc.stack, acc.pending), pending |-> FALSE]
                           [] t = "}" /\ acc.stack # <<>> -> [acc EXCEPT !.stack = Front(@)]
                           [] OTHER -> acc
        before == FlattenSeq([i \in 1..(ix - 1) |-> Elided(file.lines[i])])
    IN  FoldLeft(Token, [stack |-> <<>>, pending |-> FALSE], IF k = 0 THEN before ELSE before \o SubSeq(Elided(file.lines[ix]), 1, k))

\* A line is regular unless a semicolon follows in it on the brace that opens a class, and the
\* class goes on, or its braces close the innermost class and more of a class around that.
Regular(ix) ==
    LET line == Elided(file.lines[ix])
        was == Nesting(ix, 0)
        head == was.pending \/ (line # <<>> /\ line[1] = "class")
        outer == IF head THEN was.stack
                 ELSE SubSeq(was.stack, 1, Max({0} \cup {i \in DOMAIN was.stack : was.stack[i]}) - 1)
    IN  /\ head /\ Has(line, ";") => Count(line, "{") = Count(line, "}")
        /\ Has(outer, TRUE) => \A k \in DOMAIN line : Len(Nesting(ix, k).stack) >= Len(outer)

\* _ClassState, "the parser's guess as to the current nesting of class declarations": the stack,
\* each class of which counts only the braces of the lines it was innermost on, is the nesting
\* of the classes as long as "class" only starts lines and all lines were regular.  The others
\* it takes wrong: "class A { int x;" for a class on one line, and "} };" for the end of the
\* inner class only, so that the outer one never ends.
ClassesTracked ==
    pc = "lines" =>
      \/ LET now == Nesting(at, 0) IN Len(classes) = Count(now.stack, TRUE) + IF now.pending THEN 1 ELSE 0
      \/ \E i \in 1..(at - 1) : ~Regular(i)
=============================================================================
